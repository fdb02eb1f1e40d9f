SPECIFICATION FairSpec
CONSTANTS
  Callers = {c1, c2, c3}
  Processes = {p1, p2, p3}
  Main = Main
  Nobody = Nobody
INVARIANT TypeOK
INVARIANT ProcessesAccountedFor
PROPERTY CallReturns
