SPECIFICATION Spec
CONSTANTS
  Writers = {serve, whitelist}
  Records = {v1, v2}
  Inodes = {i1, i2, i3, i4}
  Nothing = Nothing
  Empty = Empty
  Torn = Torn
SYMMETRY Symmetry
INVARIANT TypeOK
INVARIANT DamageOnlyByMeeting
PROPERTY ImplementsRecord
