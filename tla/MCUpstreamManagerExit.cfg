SPECIFICATION Spec
CONSTANTS
  Callers = {c1, c2}
  Processes = {p1, p2}
  Main = Main
  Nobody = Nobody
INVARIANT UpstreamEndsWithServe
