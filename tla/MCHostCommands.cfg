SPECIFICATION FairHostSpec

CONSTANTS
  p1 = p1
  c1 = c1
  s1 = s1
  s2 = s2
  Preflights <- MCPreflights
  Commits <- MCCommits
  Setups <- MCSetups
  Serve = Serve
  Other = Other
  Nobody = Nobody
  MaxOthers = 1

INVARIANT HostTypeOK
INVARIANT LeftBehind
INVARIANT OwnAnswer
PROPERTY ServeComesUp
PROPERTY UpstreamIsBack
