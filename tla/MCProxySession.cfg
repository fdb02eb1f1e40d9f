SPECIFICATION FairSpec
CONSTANTS
  Requests = {r1, r2}
  LoginStates = {s1, s2}
  Sessions = {u1, u2}
  Wards = {own, other}
  WardID = own
  TxnMaxAge = 1
  TokenTTL = 2
  MaxClock = 3
  Absent = Absent
INVARIANT TypeOK
INVARIANT RevocationHolds
INVARIANT ForwardedIdentity
PROPERTY ImplementsTicket
PROPERTY StateIsReclaimed
