SPECIFICATION OpenClawSpec
CONSTANTS
  Procs = {n1, n2}
  Origins = {o1, o2}
  MaxRepeats = 1
  UserPorts = {0, 8443, 65000}
  Adopted = {8443, 65000}
  DefaultPort = 18789
  Unreadable = Unreadable
SYMMETRY Symmetry
INVARIANT OpenClawTypeOK
INVARIANT ReportsAreTrue
PROPERTY EachChangeIsOneEdit
