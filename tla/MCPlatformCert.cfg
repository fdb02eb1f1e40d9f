SPECIFICATION FairSpec
CONSTANTS
  Handshakes = {h1, h2}
  Refreshes = {f1, f2}
  Hints = {0, 1, 3}
  Validity = 3
  DefaultAfter = 3
  MinAfter = 2
  Window = 2
  BeforeExpiry = 1
  MaxFailures = 2
  CooldownMul = 2
INVARIANT TypeOK
PROPERTY NeverOlder
PROPERTY FallbackIsPursued
PROPERTY FetchIsDue
PROPERTY ValidCertComesBack
