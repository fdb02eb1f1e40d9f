SPECIFICATION FairSpec
CONSTANTS
  Commands = {c1}
  Serve = Serve
  Rules = {r1}
  Local = Local
  Default = Default
  Terminal = {suspended}
  Others = {other}
  Absent = Absent
INVARIANT TypeOK
PROPERTY SavesAreEdits
PROPERTY EndedWardIsNotServed
PROPERTY ServeHasTheLastWord
