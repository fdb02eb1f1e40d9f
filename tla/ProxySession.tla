---------------------------- MODULE ProxySession ----------------------------
(***************************************************************************)
(* The login, session and logout core of the identity-aware reverse proxy  *)
(* (internal/adapters/proxy/server.go), with the JWT session cookies of    *)
(* internal/adapters/jwt/jwt.go.                                           *)
(*                                                                         *)
(* Every request runs its handler in a goroutine of its own.  A handler is *)
(* split where another goroutine can run between two of its reads of the   *)
(* shared state: the two maps under Server.mu, the clock, the platform.    *)
(* The cleanup loop and the restart of the process are actions too.        *)
(*                                                                         *)
(* Time is counted in ticks.  A cookie is its claims (session, ward, exp): *)
(* the signature makes it unforgeable, so the cookies a request can carry  *)
(* and Verify can accept are those the server has signed.                  *)
(***************************************************************************)
EXTENDS Integers

CONSTANTS
  Requests,     \* handler goroutines that can be in flight together
  LoginStates,  \* values generateState can return
  Sessions,     \* session ids the platform can return
  Wards,        \* ward ids the platform can return
  WardID,       \* ServerConfig.WardID
  TxnMaxAge,    \* the 10 minutes a login transaction lives
  TokenTTL,     \* the 8 hours a session cookie lives
  MaxClock,     \* bound on the clock
  Absent        \* no entry, nothing held

ASSUME ConstantsAssumption ==
  /\ WardID \in Wards
  /\ TxnMaxAge \in Nat
  /\ TokenTTL \in Nat \ {0}
  /\ MaxClock \in Nat
  /\ Absent \notin Nat

Cookie == [session : Sessions, ward : Wards, exp : Nat]
Txn    == [state : LoginStates, created : Nat]
Grant  == [session : Sessions, ward : Wards]

ASSUME AbsentAssumption == Absent \notin (Cookie \union Txn \union Grant)

VARIABLES
  clock,
  transactions,     \* Server.transactions: CreatedAt by login state
  revokedSessions,  \* Server.revokedSessions: ExpiresAt by session
  pc,               \* where each handler is
  txn,              \* login transaction a callback has taken
  grant,            \* exchange response a callback is about to sign
  cookie,           \* cookie a request carries, once Verify accepted it
  cookies,          \* cookies signed so far, all of them in browsers
  used,             \* session ids the platform has given out
  \* History variables: no action reads them.
  offeredAt,        \* when each login state was put on a login page
  exchanges,        \* how many exchanges each login state has started
  exchangeAge,      \* age of the login state at its last exchange
  loggedOut,        \* cookies logged out since the process started
  late,             \* did the request arrive after its cookie's logout?
  decidedAt         \* when the revocation check let the request pass

serverVars  == <<transactions, revokedSessions>>
handlerVars == <<pc, txn, grant, cookie>>
worldVars   == <<clock, cookies, used>>
ticketHist  == <<offeredAt, exchanges, exchangeAge>>
sessionHist == <<loggedOut, late, decidedAt>>
vars == <<serverVars, handlerVars, worldVars, ticketHist, sessionHist>>

PC == {"idle", "login", "taken", "exchanging", "signing",
       "verified", "revoking", "forwarded"}

TypeOK ==
  /\ clock \in Nat
  /\ transactions \in [LoginStates -> Nat \union {Absent}]
  /\ revokedSessions \in [Sessions -> Nat \union {Absent}]
  /\ pc \in [Requests -> PC]
  /\ txn \in [Requests -> Txn \union {Absent}]
  /\ grant \in [Requests -> Grant \union {Absent}]
  /\ cookie \in [Requests -> Cookie \union {Absent}]
  /\ cookies \subseteq Cookie
  /\ used \subseteq Sessions
  /\ offeredAt \in [LoginStates -> Nat \union {Absent}]
  /\ exchanges \in [LoginStates -> Nat]
  /\ exchangeAge \in [LoginStates -> Nat]
  /\ loggedOut \subseteq Cookie
  /\ late \in [Requests -> BOOLEAN]
  /\ decidedAt \in [Requests -> Nat]

Init ==
  /\ clock = 0
  /\ transactions = [s \in LoginStates |-> Absent]
  /\ revokedSessions = [s \in Sessions |-> Absent]
  /\ pc = [r \in Requests |-> "idle"]
  /\ txn = [r \in Requests |-> Absent]
  /\ grant = [r \in Requests |-> Absent]
  /\ cookie = [r \in Requests |-> Absent]
  /\ cookies = {}
  /\ used = {}
  /\ offeredAt = [s \in LoginStates |-> Absent]
  /\ exchanges = [s \in LoginStates |-> 0]
  /\ exchangeAge = [s \in LoginStates |-> 0]
  /\ loggedOut = {}
  /\ late = [r \in Requests |-> FALSE]
  /\ decidedAt = [r \in Requests |-> 0]

Goto(r, from, to) ==
  /\ pc[r] = from
  /\ pc' = [pc EXCEPT ![r] = to]

------------------------------------------------------------------------------
(* Conditions of the code.                                                  *)

\* jwt.Verifier.Verify of a cookie the server signed: `exp` is still ahead.
Verifies(c) == clock < c.exp

\* handleDefault accepts the cookie only for its own ward (the audience is
\* derived from the ward when the cookie is signed).
ForThisWard(c) == c.ward = WardID

\* The age test of handleCallback and of the cleanup loop.
TooOld(created) == clock - created > TxnMaxAge

\* The revocation test of handleDefault.
Revoked(s) == revokedSessions[s] # Absent /\ clock < revokedSessions[s]

------------------------------------------------------------------------------
(* handleDefault: a request for a page that is not whitelisted.             *)

\* No cookie, an expired one, or one of another ward: the login page.
RejectCookie(r) ==
  /\ Goto(r, "idle", "login")
  /\ UNCHANGED <<serverVars, txn, grant, cookie, worldVars, ticketHist, sessionHist>>

\* Mutated form: the ward of the cookie is not compared.
AcceptAnyWard(r, c) ==
  /\ Goto(r, "idle", "verified")
  /\ Verifies(c)
  /\ cookie' = [cookie EXCEPT ![r] = c]
  /\ late' = [late EXCEPT ![r] = c \in loggedOut]
  /\ UNCHANGED <<serverVars, txn, grant, worldVars, ticketHist, loggedOut, decidedAt>>

AcceptCookie(r, c) ==
  /\ Goto(r, "idle", "verified")
  /\ Verifies(c) /\ ForThisWard(c)
  /\ cookie' = [cookie EXCEPT ![r] = c]
  /\ late' = [late EXCEPT ![r] = c \in loggedOut]
  /\ UNCHANGED <<serverVars, txn, grant, worldVars, ticketHist, loggedOut, decidedAt>>

\* The lookup under the read lock and the comparison with the clock are one
\* step: an entry can only disappear in between by having expired.
RejectRevoked(r) ==
  /\ Goto(r, "verified", "login")
  /\ Revoked(cookie[r].session)
  /\ cookie' = [cookie EXCEPT ![r] = Absent]
  /\ late' = [late EXCEPT ![r] = FALSE]
  /\ UNCHANGED <<serverVars, txn, grant, worldVars, ticketHist, loggedOut, decidedAt>>

Forward(r) ==
  /\ Goto(r, "verified", "forwarded")
  /\ ~Revoked(cookie[r].session)
  /\ decidedAt' = [decidedAt EXCEPT ![r] = clock]
  /\ UNCHANGED <<serverVars, txn, grant, cookie, worldVars, ticketHist, loggedOut, late>>

\* The upstream has answered.
FinishForward(r) ==
  /\ Goto(r, "forwarded", "idle")
  /\ cookie' = [cookie EXCEPT ![r] = Absent]
  /\ late' = [late EXCEPT ![r] = FALSE]
  /\ decidedAt' = [decidedAt EXCEPT ![r] = 0]
  /\ UNCHANGED <<serverVars, txn, grant, worldVars, ticketHist, loggedOut>>

\* generateState draws 16 random bytes: a value never drawn before.
ServeLoginPage(r, s) ==
  /\ Goto(r, "login", "idle")
  /\ offeredAt[s] = Absent
  /\ clock + TxnMaxAge < MaxClock
  /\ transactions' = [transactions EXCEPT ![s] = clock]
  /\ offeredAt' = [offeredAt EXCEPT ![s] = clock]
  /\ UNCHANGED <<revokedSessions, txn, grant, cookie, worldVars,
                 exchanges, exchangeAge, sessionHist>>

------------------------------------------------------------------------------
(* handleCallback.                                                          *)

\* Mutated form: the transaction is read and left in the map.
PeekTransaction(r, s) ==
  /\ Goto(r, "idle", "taken")
  /\ transactions[s] # Absent
  /\ txn' = [txn EXCEPT ![r] = [state |-> s, created |-> transactions[s]]]
  /\ UNCHANGED <<serverVars, grant, cookie, worldVars, ticketHist, sessionHist>>

\* Mutated form: it is not asked whether the map has the state.
TakeUnchecked(r, s) ==
  /\ Goto(r, "idle", "taken")
  /\ txn' = [txn EXCEPT ![r] = [state |-> s, created |-> transactions[s]]]
  /\ transactions' = [transactions EXCEPT ![s] = Absent]
  /\ UNCHANGED <<revokedSessions, grant, cookie, worldVars, ticketHist, sessionHist>>

\* Read and delete under one lock.  A state that is not there answers 400
\* and changes nothing.
TakeTransaction(r, s) ==
  /\ Goto(r, "idle", "taken")
  /\ transactions[s] # Absent
  /\ txn' = [txn EXCEPT ![r] = [state |-> s, created |-> transactions[s]]]
  /\ transactions' = [transactions EXCEPT ![s] = Absent]
  /\ UNCHANGED <<revokedSessions, grant, cookie, worldVars, ticketHist, sessionHist>>

RejectExpiredTxn(r) ==
  /\ Goto(r, "taken", "idle")
  /\ TooOld(txn[r].created)
  /\ txn' = [txn EXCEPT ![r] = Absent]
  /\ UNCHANGED <<serverVars, grant, cookie, worldVars, ticketHist, sessionHist>>

\* The transaction holds the server's own ward id, so the next test of the
\* code, txn.WardID against the configuration, cannot fail here.
StartExchange(r) ==
  LET s == txn[r].state IN
  /\ Goto(r, "taken", "exchanging")
  /\ ~TooOld(txn[r].created)
  /\ exchanges' = [exchanges EXCEPT ![s] = @ + 1]
  /\ exchangeAge' = [exchangeAge EXCEPT ![s] = clock - offeredAt[s]]
  /\ txn' = [txn EXCEPT ![r] = Absent]
  /\ UNCHANGED <<serverVars, grant, cookie, worldVars, offeredAt, sessionHist>>

\* The platform refuses the code, cannot be reached, or the browser has
\* closed the connection.
ExchangeFails(r) ==
  /\ Goto(r, "exchanging", "idle")
  /\ UNCHANGED <<serverVars, txn, grant, cookie, worldVars, ticketHist, sessionHist>>

\* The platform opens a session of its own for each code it exchanges.  The
\* ward it names is the code's, which need not be this one.
ExchangeAuthCode(r, s, w) ==
  /\ Goto(r, "exchanging", "signing")
  /\ s \notin used
  /\ used' = used \union {s}
  /\ grant' = [grant EXCEPT ![r] = [session |-> s, ward |-> w]]
  /\ UNCHANGED <<serverVars, txn, cookie, clock, cookies, ticketHist, sessionHist>>

\* Signer.Sign with no times given: the cookie expires TokenTTL from now.
Sign(r) ==
  LET c == [session |-> grant[r].session, ward |-> grant[r].ward,
            exp |-> clock + TokenTTL] IN
  /\ Goto(r, "signing", "idle")
  /\ clock + TokenTTL <= MaxClock
  /\ cookies' = cookies \union {c}
  /\ grant' = [grant EXCEPT ![r] = Absent]
  /\ UNCHANGED <<serverVars, txn, cookie, clock, used, ticketHist, sessionHist>>

------------------------------------------------------------------------------
(* handleLogout.  A cookie that Verify refuses leaves the server unchanged. *)

VerifyLogout(r, c) ==
  /\ Goto(r, "idle", "revoking")
  /\ Verifies(c)
  /\ cookie' = [cookie EXCEPT ![r] = c]
  /\ UNCHANGED <<serverVars, txn, grant, worldVars, ticketHist, sessionHist>>

Revoke(r) ==
  LET c == cookie[r] IN
  /\ Goto(r, "revoking", "idle")
  /\ revokedSessions' = [revokedSessions EXCEPT ![c.session] = c.exp]
  /\ loggedOut' = loggedOut \union {c}
  /\ cookie' = [cookie EXCEPT ![r] = Absent]
  /\ UNCHANGED <<transactions, txn, grant, worldVars, ticketHist, late, decidedAt>>

------------------------------------------------------------------------------
(* The cleanup loop, the clock and the process.                             *)

\* Mutated form: a revocation is dropped one tick before its cookie expires.
CleanupEarly ==
  /\ transactions' = [s \in LoginStates |->
       IF transactions[s] # Absent /\ TooOld(transactions[s])
       THEN Absent ELSE transactions[s]]
  /\ revokedSessions' = [s \in Sessions |->
       IF revokedSessions[s] # Absent /\ clock + 1 >= revokedSessions[s]
       THEN Absent ELSE revokedSessions[s]]
  /\ UNCHANGED <<handlerVars, worldVars, ticketHist, sessionHist>>

\* Mutated form: the sweep over the revoked sessions is missing.
CleanupTransactionsOnly ==
  /\ transactions' = [s \in LoginStates |->
       IF transactions[s] # Absent /\ TooOld(transactions[s])
       THEN Absent ELSE transactions[s]]
  /\ UNCHANGED <<revokedSessions, handlerVars, worldVars, ticketHist, sessionHist>>

\* cleanupExpiredState: both sweeps hold the lock.
CleanupExpiredState ==
  /\ transactions' = [s \in LoginStates |->
       IF transactions[s] # Absent /\ TooOld(transactions[s])
       THEN Absent ELSE transactions[s]]
  /\ revokedSessions' = [s \in Sessions |->
       IF revokedSessions[s] # Absent /\ clock >= revokedSessions[s]
       THEN Absent ELSE revokedSessions[s]]
  /\ UNCHANGED <<handlerVars, worldVars, ticketHist, sessionHist>>

Tick ==
  /\ clock < MaxClock
  /\ clock' = clock + 1
  /\ UNCHANGED <<serverVars, handlerVars, cookies, used, ticketHist, sessionHist>>

\* The process stops at any point and a new one starts: NewServer makes both
\* maps afresh, while the signing secret is read back from ward.json, so the
\* cookies in the browsers stay good.  What was logged out is forgotten.
Restart ==
  /\ transactions' = [s \in LoginStates |-> Absent]
  /\ revokedSessions' = [s \in Sessions |-> Absent]
  /\ pc' = [r \in Requests |-> "idle"]
  /\ txn' = [r \in Requests |-> Absent]
  /\ grant' = [r \in Requests |-> Absent]
  /\ cookie' = [r \in Requests |-> Absent]
  /\ loggedOut' = {}
  /\ late' = [r \in Requests |-> FALSE]
  /\ decidedAt' = [r \in Requests |-> 0]
  /\ UNCHANGED <<worldVars, ticketHist>>

HandleDefault(r) ==
  \/ RejectCookie(r)
  \/ \E c \in cookies : AcceptCookie(r, c)
  \/ RejectRevoked(r)
  \/ Forward(r)
  \/ FinishForward(r)
  \/ \E s \in LoginStates : ServeLoginPage(r, s)

HandleCallback(r) ==
  \/ \E s \in LoginStates : TakeTransaction(r, s)
  \/ RejectExpiredTxn(r)
  \/ StartExchange(r)
  \/ ExchangeFails(r)
  \/ \E s \in Sessions, w \in Wards : ExchangeAuthCode(r, s, w)
  \/ Sign(r)

HandleLogout(r) ==
  \/ \E c \in cookies : VerifyLogout(r, c)
  \/ Revoke(r)

Next ==
  \/ \E r \in Requests : HandleDefault(r) \/ HandleCallback(r) \/ HandleLogout(r)
  \/ CleanupExpiredState
  \/ Tick
  \/ Restart

Spec == Init /\ [][Next]_vars

\* The ticker of startCleanupLoop fires every minute for as long as the
\* process runs, and time passes.  Nothing is assumed of the requests.
FairSpec == Spec /\ WF_vars(CleanupExpiredState) /\ WF_vars(Tick)

------------------------------------------------------------------------------
(* Properties.                                                              *)

\* A login state buys at most one exchange with the platform, however many
\* callbacks carry it at once and whatever the cleanup loop and a restart do
\* meanwhile, and only while the login page it came from is recent.
OneFreshExchange ==
  \A s \in LoginStates :
    /\ exchanges[s] <= 1
    /\ exchangeAge[s] <= TxnMaxAge

\* A request that arrives with a cookie logged out earlier in the life of the
\* process is forwarded only if the cookie's own lifetime ended while the
\* request was between Verify and the revocation check: the cleanup loop
\* never forgets a revocation that some cookie still needs.
RevocationHolds ==
  \A r \in Requests :
    pc[r] = "forwarded" /\ late[r] => cookie[r].exp <= decidedAt[r]

\* Whatever is forwarded with an identity carries a cookie this server
\* signed for this ward, in a session that belongs to no other cookie.
ForwardedIdentity ==
  \A r \in Requests : pc[r] = "forwarded" =>
    /\ cookie[r] \in cookies
    /\ cookie[r].ward = WardID
    /\ \A c \in cookies : c.session = cookie[r].session => c = cookie[r]

\* The two maps do not grow for ever: each entry is taken or swept away in
\* the end, though nobody ever comes back for it.
StateIsReclaimed ==
  /\ \A s \in LoginStates : transactions[s] # Absent ~> transactions[s] = Absent
  /\ \A s \in Sessions : revokedSessions[s] # Absent ~> revokedSessions[s] = Absent

\* The login state as the ticket of LoginTicket.
InHand(s) == \E r \in Requests : pc[r] = "taken" /\ txn[r].state = s

ticketStatus ==
  [s \in LoginStates |->
    IF offeredAt[s] = Absent THEN "unused"
    ELSE IF exchanges[s] > 1 THEN "redeemed twice"
    ELSE IF exchangeAge[s] > TxnMaxAge THEN "redeemed late"
    ELSE IF exchanges[s] = 1 THEN
           IF transactions[s] # Absent \/ InHand(s) THEN "redeemable again"
           ELSE "redeemed"
    ELSE IF transactions[s] # Absent \/ InHand(s) THEN "offered"
    ELSE "dropped"]

Ticket == INSTANCE LoginTicket WITH ticket <- ticketStatus

\* The transactions map, the handlers' copies, the cleanup loop and restarts
\* together implement the ticket: a state is redeemed once, while its login
\* page is recent, and a redeemed or dropped one never returns.
ImplementsTicket == Ticket!Spec
==============================================================================
