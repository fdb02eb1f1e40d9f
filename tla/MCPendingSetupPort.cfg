SPECIFICATION Spec
CONSTANTS
  Procs = {n1, n2}
  global = global
  p443 = p443
  p8443 = p8443
  Sites = {global}
  Ports = {p443, p8443}
  DefaultPort = p443
  CommandLines <- Lines
  None = None
SYMMETRY Symmetry
INVARIANT PortCanBeChanged
CHECK_DEADLOCK FALSE
