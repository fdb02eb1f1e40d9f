SPECIFICATION Spec
CONSTANTS
  Procs = {p1, p2}
  Drafts = {d1, d2}
  Absent = Absent
SYMMETRY Symmetry
INVARIANT TypeOK
INVARIANT SecretFitsDraft
PROPERTY WardStays
PROPERTY ImplementsEnrollment
CHECK_DEADLOCK FALSE
