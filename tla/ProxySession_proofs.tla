------------------------ MODULE ProxySession_proofs ------------------------
(***************************************************************************)
(* Proofs about ProxySession, for any number of requests, login states,    *)
(* sessions and wards and any lifetimes.                                   *)
(***************************************************************************)
EXTENDS ProxySession, TLAPS

\* The life of a login state: what is in the map was offered, is in no
\* handler's hands and was never exchanged; what is in a handler's hands is
\* in no other handler's and was never exchanged either.
TicketInv ==
  /\ \A s \in LoginStates :
       /\ offeredAt[s] # Absent => offeredAt[s] <= clock
       /\ offeredAt[s] = Absent => transactions[s] = Absent /\ exchanges[s] = 0
       /\ transactions[s] # Absent =>
            transactions[s] = offeredAt[s] /\ exchanges[s] = 0
       /\ exchanges[s] <= 1
       /\ exchangeAge[s] <= TxnMaxAge
  /\ \A r \in Requests : pc[r] = "taken" =>
       /\ txn[r] \in Txn
       /\ offeredAt[txn[r].state] = txn[r].created
       /\ transactions[txn[r].state] = Absent
       /\ exchanges[txn[r].state] = 0
  /\ \A q, r \in Requests :
       pc[q] = "taken" /\ pc[r] = "taken" /\ txn[q].state = txn[r].state => q = r

\* The life of a session: it is granted once, signed into at most one
\* cookie, and its revocation stays on record while that cookie is good.
SessionInv ==
  /\ \A r \in Requests : pc[r] = "signing" =>
       /\ grant[r] \in Grant
       /\ grant[r].session \in used
       /\ \A c \in cookies : c.session # grant[r].session
  /\ \A q, r \in Requests :
       pc[q] = "signing" /\ pc[r] = "signing" /\ grant[q].session = grant[r].session
         => q = r
  /\ \A c \in cookies : c.session \in used
  /\ \A c, d \in cookies : c.session = d.session => c = d
  /\ \A r \in Requests : pc[r] \in {"verified", "revoking", "forwarded"} =>
       cookie[r] \in cookies
  /\ \A r \in Requests : pc[r] \in {"verified", "forwarded"} =>
       /\ cookie[r].ward = WardID
       /\ late[r] => cookie[r] \in loggedOut
  /\ loggedOut \subseteq cookies
  /\ \A c \in loggedOut : clock < c.exp => revokedSessions[c.session] = c.exp
  /\ \A r \in Requests : pc[r] = "forwarded" /\ late[r] =>
       cookie[r].exp <= decidedAt[r]

IndInv == TypeOK /\ TicketInv /\ SessionInv

------------------------------------------------------------------------------

\* Nothing is offered, taken, granted or revoked when the server starts.
LEMMA InitInv == Init => IndInv
<1> SUFFICES ASSUME Init PROVE IndInv
  OBVIOUS
<1> USE ConstantsAssumption DEF Init
<1>1. TypeOK
  BY DEF TypeOK, PC
<1>2. TicketInv
  BY DEF TicketInv
<1>3. SessionInv
  BY DEF SessionInv
<1>4. QED
  BY <1>1, <1>2, <1>3 DEF IndInv

\* Every step of every handler keeps the types of the variables.
LEMMA TypeStep == IndInv /\ [Next]_vars => TypeOK'
<1> SUFFICES ASSUME IndInv, [Next]_vars PROVE TypeOK'
  OBVIOUS
<1> USE ConstantsAssumption, AbsentAssumption
    DEF IndInv, TypeOK, PC, Goto, serverVars, handlerVars, worldVars,
        ticketHist, sessionHist
<1>1. ASSUME NEW r \in Requests, RejectCookie(r) PROVE TypeOK'
  BY <1>1 DEF RejectCookie
<1>2. ASSUME NEW r \in Requests, NEW c \in cookies, AcceptCookie(r, c)
      PROVE TypeOK'
  BY <1>2 DEF AcceptCookie
<1>3. ASSUME NEW r \in Requests, RejectRevoked(r) PROVE TypeOK'
  BY <1>3 DEF RejectRevoked
<1>4. ASSUME NEW r \in Requests, Forward(r) PROVE TypeOK'
  BY <1>4 DEF Forward
<1>5. ASSUME NEW r \in Requests, FinishForward(r) PROVE TypeOK'
  BY <1>5 DEF FinishForward
<1>6. ASSUME NEW r \in Requests, NEW s \in LoginStates, ServeLoginPage(r, s)
      PROVE TypeOK'
  BY <1>6 DEF ServeLoginPage
<1>7. ASSUME NEW r \in Requests, NEW s \in LoginStates, TakeTransaction(r, s)
      PROVE TypeOK'
  <2>1. [state |-> s, created |-> transactions[s]] \in Txn
    BY <1>7 DEF TakeTransaction, Txn
  <2>2. QED
    BY <1>7, <2>1 DEF TakeTransaction
<1>8. ASSUME NEW r \in Requests, RejectExpiredTxn(r) PROVE TypeOK'
  BY <1>8 DEF RejectExpiredTxn
<1>9. ASSUME NEW r \in Requests, StartExchange(r) PROVE TypeOK'
  <2>1. txn[r] \in Txn /\ txn[r].state \in LoginStates
    BY <1>9 DEF StartExchange, TicketInv, Txn
  <2>2. clock - offeredAt[txn[r].state] \in Nat
    BY <1>9, <2>1 DEF StartExchange, TicketInv, Txn
  <2>3. QED
    BY <1>9, <2>1, <2>2 DEF StartExchange
<1>10. ASSUME NEW r \in Requests, ExchangeFails(r) PROVE TypeOK'
  BY <1>10 DEF ExchangeFails
<1>11. ASSUME NEW r \in Requests, NEW s \in Sessions, NEW w \in Wards,
              ExchangeAuthCode(r, s, w)
       PROVE TypeOK'
  BY <1>11 DEF ExchangeAuthCode, Grant
<1>12. ASSUME NEW r \in Requests, Sign(r) PROVE TypeOK'
  <2>1. [session |-> grant[r].session, ward |-> grant[r].ward,
         exp |-> clock + TokenTTL] \in Cookie
    BY <1>12 DEF Sign, SessionInv, Grant, Cookie
  <2>2. QED
    BY <1>12, <2>1 DEF Sign
<1>13. ASSUME NEW r \in Requests, NEW c \in cookies, VerifyLogout(r, c)
       PROVE TypeOK'
  BY <1>13 DEF VerifyLogout
<1>14. ASSUME NEW r \in Requests, Revoke(r) PROVE TypeOK'
  <2>1. cookie[r] \in Cookie
    BY <1>14 DEF Revoke, SessionInv
  <2>2. cookie[r].session \in Sessions /\ cookie[r].exp \in Nat
    BY <2>1 DEF Cookie
  <2>3. QED
    BY <1>14, <2>1, <2>2 DEF Revoke
<1>15. CASE CleanupExpiredState
  BY <1>15 DEF CleanupExpiredState
<1>16. CASE Tick
  BY <1>16 DEF Tick
<1>17. CASE Restart
  BY <1>17 DEF Restart
<1>18. CASE UNCHANGED vars
  BY <1>18 DEF vars
<1>19. QED
  BY <1>1, <1>2, <1>3, <1>4, <1>5, <1>6, <1>7, <1>8, <1>9, <1>10, <1>11, <1>12,
     <1>13, <1>14, <1>15, <1>16, <1>17, <1>18
     DEF Next, HandleDefault, HandleCallback, HandleLogout

\* What a step must leave alone for the ticket invariant not to notice it.
LEMMA TicketFrame ==
  ASSUME IndInv,
         UNCHANGED <<transactions, txn, ticketHist>>,
         clock' \in Nat, clock <= clock',
         \A r \in Requests : pc'[r] = "taken" => pc[r] = "taken"
  PROVE  TicketInv'
BY DEF IndInv, TypeOK, TicketInv, ticketHist

\* The ticket invariant is inductive.
LEMMA TicketStep == IndInv /\ [Next]_vars => TicketInv'
<1> SUFFICES ASSUME IndInv, [Next]_vars PROVE TicketInv'
  OBVIOUS
<1> USE ConstantsAssumption, AbsentAssumption
    DEF IndInv, TypeOK, PC, Goto, serverVars, handlerVars, worldVars,
        ticketHist, sessionHist
<1>1. ASSUME NEW r \in Requests, RejectCookie(r) PROVE TicketInv'
  BY <1>1, TicketFrame DEF RejectCookie
<1>2. ASSUME NEW r \in Requests, NEW c \in cookies, AcceptCookie(r, c)
      PROVE TicketInv'
  BY <1>2, TicketFrame DEF AcceptCookie
<1>3. ASSUME NEW r \in Requests, RejectRevoked(r) PROVE TicketInv'
  BY <1>3, TicketFrame DEF RejectRevoked
<1>4. ASSUME NEW r \in Requests, Forward(r) PROVE TicketInv'
  BY <1>4, TicketFrame DEF Forward
<1>5. ASSUME NEW r \in Requests, FinishForward(r) PROVE TicketInv'
  BY <1>5, TicketFrame DEF FinishForward
<1>6. ASSUME NEW r \in Requests, NEW s \in LoginStates, ServeLoginPage(r, s)
      PROVE TicketInv'
  BY <1>6 DEF ServeLoginPage, TicketInv, Txn
<1>7. ASSUME NEW r \in Requests, NEW s \in LoginStates, TakeTransaction(r, s)
      PROVE TicketInv'
  <2>1. [state |-> s, created |-> transactions[s]] \in Txn
    BY <1>7 DEF TakeTransaction, Txn
  <2>2. \A q \in Requests : pc[q] = "taken" => txn[q].state # s
    BY <1>7 DEF TakeTransaction, TicketInv
  <2>3. QED
    BY <1>7, <2>1, <2>2 DEF TakeTransaction, TicketInv
<1>8. ASSUME NEW r \in Requests, RejectExpiredTxn(r) PROVE TicketInv'
  BY <1>8 DEF RejectExpiredTxn, TicketInv
<1>9. ASSUME NEW r \in Requests, StartExchange(r) PROVE TicketInv'
  <2> DEFINE s == txn[r].state
  <2>1. /\ s \in LoginStates
        /\ offeredAt[s] \in Nat
        /\ clock - offeredAt[s] \in Nat
        /\ clock - offeredAt[s] <= TxnMaxAge
        /\ transactions[s] = Absent
        /\ exchanges[s] = 0
    BY <1>9 DEF StartExchange, TicketInv, Txn, TooOld
  <2>2. \A q \in Requests \ {r} : pc[q] = "taken" => txn[q].state # s
    BY <1>9 DEF StartExchange, TicketInv
  <2>3. QED
    BY <1>9, <2>1, <2>2 DEF StartExchange, TicketInv
<1>10. ASSUME NEW r \in Requests, ExchangeFails(r) PROVE TicketInv'
  BY <1>10, TicketFrame DEF ExchangeFails
<1>11. ASSUME NEW r \in Requests, NEW s \in Sessions, NEW w \in Wards,
              ExchangeAuthCode(r, s, w)
       PROVE TicketInv'
  BY <1>11, TicketFrame DEF ExchangeAuthCode
<1>12. ASSUME NEW r \in Requests, Sign(r) PROVE TicketInv'
  BY <1>12, TicketFrame DEF Sign
<1>13. ASSUME NEW r \in Requests, NEW c \in cookies, VerifyLogout(r, c)
       PROVE TicketInv'
  BY <1>13, TicketFrame DEF VerifyLogout
<1>14. ASSUME NEW r \in Requests, Revoke(r) PROVE TicketInv'
  BY <1>14, TicketFrame DEF Revoke
<1>15. CASE CleanupExpiredState
  <2>1. \A s \in LoginStates : transactions'[s] \in {transactions[s], Absent}
    BY <1>15 DEF CleanupExpiredState
  <2>2. \A r \in Requests : pc[r] = "taken" => txn[r].state \in LoginStates
    BY DEF TicketInv, Txn
  <2>3. UNCHANGED <<clock, pc, txn, offeredAt, exchanges, exchangeAge>>
    BY <1>15 DEF CleanupExpiredState
  <2>4. QED
    BY <2>1, <2>2, <2>3 DEF TicketInv
<1>16. CASE Tick
  BY <1>16, TicketFrame DEF Tick
<1>17. CASE Restart
  BY <1>17 DEF Restart, TicketInv
<1>18. CASE UNCHANGED vars
  BY <1>18, TicketFrame DEF vars
<1>19. QED
  BY <1>1, <1>2, <1>3, <1>4, <1>5, <1>6, <1>7, <1>8, <1>9, <1>10, <1>11, <1>12,
     <1>13, <1>14, <1>15, <1>16, <1>17, <1>18
     DEF Next, HandleDefault, HandleCallback, HandleLogout

\* The session invariant is inductive.
LEMMA SessionStep == IndInv /\ [Next]_vars => SessionInv'
<1> SUFFICES ASSUME IndInv, [Next]_vars PROVE SessionInv'
  OBVIOUS
<1> USE ConstantsAssumption, AbsentAssumption
    DEF IndInv, TypeOK, PC, Goto, serverVars, handlerVars, worldVars,
        ticketHist, sessionHist
<1>1. ASSUME NEW r \in Requests, RejectCookie(r) PROVE SessionInv'
  BY <1>1 DEF RejectCookie, SessionInv
<1>2. ASSUME NEW r \in Requests, NEW c \in cookies, AcceptCookie(r, c)
      PROVE SessionInv'
  BY <1>2 DEF AcceptCookie, SessionInv, ForThisWard
<1>3. ASSUME NEW r \in Requests, RejectRevoked(r) PROVE SessionInv'
  BY <1>3 DEF RejectRevoked, SessionInv
<1>4. ASSUME NEW r \in Requests, Forward(r) PROVE SessionInv'
  <2>1. cookie[r] \in Cookie /\ cookie[r].exp \in Nat
    BY <1>4 DEF Forward, SessionInv, Cookie
  <2>2. late[r] => cookie[r].exp <= clock
    BY <1>4, <2>1 DEF Forward, SessionInv, Revoked
  <2>3. QED
    BY <1>4, <2>2 DEF Forward, SessionInv
<1>5. ASSUME NEW r \in Requests, FinishForward(r) PROVE SessionInv'
  BY <1>5 DEF FinishForward, SessionInv
<1>6. ASSUME NEW r \in Requests, NEW s \in LoginStates, ServeLoginPage(r, s)
      PROVE SessionInv'
  BY <1>6 DEF ServeLoginPage, SessionInv
<1>7. ASSUME NEW r \in Requests, NEW s \in LoginStates, TakeTransaction(r, s)
      PROVE SessionInv'
  BY <1>7 DEF TakeTransaction, SessionInv
<1>8. ASSUME NEW r \in Requests, RejectExpiredTxn(r) PROVE SessionInv'
  BY <1>8 DEF RejectExpiredTxn, SessionInv
<1>9. ASSUME NEW r \in Requests, StartExchange(r) PROVE SessionInv'
  BY <1>9 DEF StartExchange, SessionInv
<1>10. ASSUME NEW r \in Requests, ExchangeFails(r) PROVE SessionInv'
  BY <1>10 DEF ExchangeFails, SessionInv
<1>11. ASSUME NEW r \in Requests, NEW s \in Sessions, NEW w \in Wards,
              ExchangeAuthCode(r, s, w)
       PROVE SessionInv'
  BY <1>11 DEF ExchangeAuthCode, SessionInv, Grant
<1>12. ASSUME NEW r \in Requests, Sign(r) PROVE SessionInv'
  BY <1>12 DEF Sign, SessionInv, Grant, Cookie
<1>13. ASSUME NEW r \in Requests, NEW c \in cookies, VerifyLogout(r, c)
       PROVE SessionInv'
  BY <1>13 DEF VerifyLogout, SessionInv
<1>14. ASSUME NEW r \in Requests, Revoke(r) PROVE SessionInv'
  <2>1. cookie[r] \in cookies /\ cookie[r] \in Cookie
    BY <1>14 DEF Revoke, SessionInv
  <2>2. cookie[r].session \in Sessions
    BY <2>1 DEF Cookie
  <2>3. \A c \in loggedOut \union {cookie[r]} :
          clock < c.exp => revokedSessions'[c.session] = c.exp
    BY <1>14, <2>1, <2>2 DEF Revoke, SessionInv, Cookie
  <2>4. QED
    BY <1>14, <2>1, <2>3 DEF Revoke, SessionInv
<1>15. CASE CleanupExpiredState
  <2>1. \A c \in loggedOut : c.session \in Sessions /\ c.exp \in Nat
    BY DEF Cookie
  <2>2. QED
    BY <1>15, <2>1 DEF CleanupExpiredState, SessionInv
<1>16. CASE Tick
  <2>1. \A c \in loggedOut : c.exp \in Nat
    BY DEF Cookie
  <2>2. QED
    BY <1>16, <2>1 DEF Tick, SessionInv
<1>17. CASE Restart
  BY <1>17 DEF Restart, SessionInv
<1>18. CASE UNCHANGED vars
  BY <1>18 DEF vars, SessionInv
<1>19. QED
  BY <1>1, <1>2, <1>3, <1>4, <1>5, <1>6, <1>7, <1>8, <1>9, <1>10, <1>11, <1>12,
     <1>13, <1>14, <1>15, <1>16, <1>17, <1>18
     DEF Next, HandleDefault, HandleCallback, HandleLogout

\* So the inductive invariant holds in every reachable state.
LEMMA Invariance == Spec => []IndInv
<1>1. IndInv /\ [Next]_vars => IndInv'
  BY TypeStep, TicketStep, SessionStep DEF IndInv
<1>2. QED
  BY InitInv, <1>1, PTL DEF Spec

------------------------------------------------------------------------------

\* The variables keep their types in every reachable state.
THEOREM TypeCorrect == Spec => []TypeOK
BY Invariance, PTL DEF IndInv

\* handleCallback and the cleanup loop: a login state buys one exchange at
\* most, and only within TxnMaxAge of its login page.
THEOREM LoginStateSingleUse == Spec => []OneFreshExchange
<1>1. IndInv => OneFreshExchange
  BY DEF IndInv, TicketInv, OneFreshExchange
<1>2. QED
  BY <1>1, Invariance, PTL

\* handleLogout, handleDefault and the cleanup loop: within the life of the
\* process a logged-out cookie is good for nothing until it expires.
THEOREM LogoutIsHonoured == Spec => []RevocationHolds
<1>1. IndInv => RevocationHolds
  BY DEF IndInv, SessionInv, RevocationHolds
<1>2. QED
  BY <1>1, Invariance, PTL

\* handleDefault: an identity is forwarded only for a cookie of this server,
\* this ward and its own session.
THEOREM IdentityIsGenuine == Spec => []ForwardedIdentity
<1>1. IndInv => ForwardedIdentity
  BY DEF IndInv, SessionInv, ForwardedIdentity
<1>2. QED
  BY <1>1, Invariance, PTL

------------------------------------------------------------------------------
(* ProxySession implements LoginTicket.                                     *)

\* In reachable states no ticket is redeemable again, or redeemed twice or late.
SimpleStatus ==
  [s \in LoginStates |->
    IF offeredAt[s] = Absent THEN "unused"
    ELSE IF exchanges[s] = 1 THEN "redeemed"
    ELSE IF transactions[s] # Absent \/ InHand(s) THEN "offered"
    ELSE "dropped"]

\* In reachable states both definitions of the status agree.
LEMMA StatusSimple == IndInv => ticketStatus = SimpleStatus
<1> SUFFICES ASSUME IndInv PROVE ticketStatus = SimpleStatus
  OBVIOUS
<1>1. ASSUME NEW s \in LoginStates
      PROVE  /\ ~(exchanges[s] > 1)
             /\ ~(exchangeAge[s] > TxnMaxAge)
             /\ exchanges[s] = 1 => transactions[s] = Absent /\ ~InHand(s)
  BY ConstantsAssumption DEF IndInv, TypeOK, TicketInv, InHand
<1>2. QED
  BY <1>1 DEF ticketStatus, SimpleStatus

\* They agree before and after a step.
LEMMA StatusSimpleBoth ==
  IndInv /\ IndInv' => ticketStatus = SimpleStatus /\ (ticketStatus = SimpleStatus)'
BY StatusSimple, PTL

\* A step that leaves the life of every login state alone.
LEMMA StatusFrame ==
  ASSUME UNCHANGED <<transactions, txn, offeredAt, exchanges, exchangeAge>>,
         \A r \in Requests : pc'[r] = "taken" <=> pc[r] = "taken"
  PROVE  ticketStatus' = ticketStatus
<1>1. ASSUME NEW s \in LoginStates PROVE InHand(s)' <=> InHand(s)
  BY DEF InHand
<1>2. QED
  BY <1>1 DEF ticketStatus

\* A step that only takes login states out of the map, or out of hands.
LEMMA StatusDrop ==
  ASSUME IndInv, IndInv',
         UNCHANGED <<offeredAt, exchanges>>,
         \A s \in LoginStates :
           transactions'[s] # Absent \/ InHand(s)' =>
             transactions[s] # Absent \/ InHand(s)
  PROVE  [Ticket!Next]_ticketStatus
<1> DEFINE S == {s \in LoginStates : ticketStatus[s] = "offered"
                                      /\ ticketStatus'[s] = "dropped"}
<1>1. ASSUME NEW s \in LoginStates
      PROVE  ticketStatus'[s] = IF s \in S THEN "dropped" ELSE ticketStatus[s]
  <2>1. ticketStatus = SimpleStatus /\ ticketStatus' = SimpleStatus'
    BY StatusSimpleBoth
  <2>2. QED
    BY <2>1 DEF SimpleStatus
<1>2. ticketStatus' = [s \in LoginStates |->
                         IF s \in S THEN "dropped" ELSE ticketStatus[s]]
  BY <1>1 DEF ticketStatus
<1>3. CASE S = {}
  BY <1>2, <1>3 DEF ticketStatus
<1>4. CASE S # {}
  <2>1. Ticket!Drop(S)
    BY <1>2, <1>4 DEF Ticket!Drop
  <2>2. QED
    BY <2>1 DEF Ticket!Next
<1>5. QED
  BY <1>3, <1>4

\* Every step of the proxy is a step of the ticket or changes none.
LEMMA TicketRefinementStep ==
  ASSUME IndInv, IndInv', [Next]_vars
  PROVE  [Ticket!Next]_ticketStatus
<1> USE DEF Goto, serverVars, handlerVars, worldVars, ticketHist, sessionHist
<1>0. pc \in [Requests -> PC] /\ txn \in [Requests -> Txn \union {Absent}]
  BY DEF IndInv, TypeOK
<1>s. ticketStatus = SimpleStatus /\ ticketStatus' = SimpleStatus'
  BY StatusSimpleBoth
<1>1. ASSUME NEW r \in Requests, NEW s \in LoginStates, ServeLoginPage(r, s)
      PROVE  [Ticket!Next]_ticketStatus
  <2>1. \A x \in LoginStates : InHand(x)' <=> InHand(x)
    BY <1>0, <1>1 DEF ServeLoginPage, InHand
  <2>2. transactions \in [LoginStates -> Nat \union {Absent}]
        /\ offeredAt \in [LoginStates -> Nat \union {Absent}]
        /\ clock \in Nat
    BY DEF IndInv, TypeOK
  <2>3. exchanges[s] = 0 /\ clock # Absent
    BY <1>1, <2>2, ConstantsAssumption DEF IndInv, TicketInv, ServeLoginPage
  <2>4. ticketStatus[s] = "unused"
    BY <1>1 DEF ServeLoginPage, ticketStatus
  <2>5. ticketStatus' = [ticketStatus EXCEPT ![s] = "offered"]
    <3>1. SimpleStatus'[s] = "offered"
      <4>1. exchanges'[s] # 1
        BY <1>1, <2>3 DEF ServeLoginPage
      <4>2. offeredAt'[s] # Absent /\ transactions'[s] # Absent
        BY <1>1, <2>2, <2>3 DEF ServeLoginPage
      <4>3. QED
        BY <4>1, <4>2 DEF SimpleStatus
    <3>2. ASSUME NEW x \in LoginStates \ {s}
          PROVE  SimpleStatus'[x] = SimpleStatus[x]
      <4>1. /\ offeredAt'[x] = offeredAt[x]
            /\ transactions'[x] = transactions[x]
            /\ exchanges'[x] = exchanges[x]
        BY <1>1, <2>2 DEF ServeLoginPage
      <4>2. QED
        BY <2>1, <4>1 DEF SimpleStatus
    <3>3. QED
      BY <1>s, <3>1, <3>2 DEF SimpleStatus
  <2>6. Ticket!Offer(s)
    BY <2>4, <2>5 DEF Ticket!Offer, Ticket!Move
  <2>7. QED
    BY <2>6 DEF Ticket!Next
<1>2. ASSUME NEW r \in Requests, NEW s \in LoginStates, TakeTransaction(r, s)
      PROVE  [Ticket!Next]_ticketStatus
  <2>1. ASSUME NEW x \in LoginStates \ {s}
        PROVE  InHand(x)' <=> InHand(x)
    BY <1>0, <1>2, <2>1 DEF TakeTransaction, InHand
  <2>2. transactions \in [LoginStates -> Nat \union {Absent}]
    BY DEF IndInv, TypeOK
  <2>3. ASSUME NEW x \in LoginStates
        PROVE  transactions'[x] # Absent \/ InHand(x)'
                 => transactions[x] # Absent \/ InHand(x)
    BY <1>2, <2>1, <2>2 DEF TakeTransaction
  <2>4. QED
    BY <1>2, <2>3, StatusDrop DEF TakeTransaction
<1>3. ASSUME NEW r \in Requests, RejectExpiredTxn(r)
      PROVE  [Ticket!Next]_ticketStatus
  <2>1. \A s \in LoginStates : InHand(s)' => InHand(s)
    BY <1>0, <1>3 DEF RejectExpiredTxn, InHand
  <2>2. QED
    BY <1>3, <2>1, StatusDrop DEF RejectExpiredTxn
<1>4. ASSUME NEW r \in Requests, StartExchange(r)
      PROVE  [Ticket!Next]_ticketStatus
  <2>1. PICK s \in LoginStates : s = txn[r].state
    BY <1>4 DEF IndInv, TicketInv, StartExchange, Txn
  <2>2. /\ InHand(s)
        /\ offeredAt[s] # Absent
        /\ exchanges[s] = 0
        /\ transactions[s] = Absent
    BY <1>4, <2>1, ConstantsAssumption
       DEF IndInv, TicketInv, StartExchange, Txn, InHand
  <2>3. ASSUME NEW x \in LoginStates \ {s}
        PROVE  InHand(x)' <=> InHand(x)
    BY <1>0, <1>4, <2>1, <2>3 DEF StartExchange, InHand
  <2>4. exchanges' = [exchanges EXCEPT ![s] = 1] /\ exchanges \in [LoginStates -> Nat]
    BY <1>4, <2>1, <2>2 DEF StartExchange, IndInv, TypeOK
  <2>5. SimpleStatus[s] = "offered"
    <3>1. exchanges[s] # 1
      BY <2>2
    <3>2. QED
      BY <2>2, <3>1 DEF SimpleStatus
  <2>6. SimpleStatus'[s] = "redeemed"
    BY <1>4, <2>2, <2>4 DEF StartExchange, SimpleStatus
  <2>7. ASSUME NEW x \in LoginStates \ {s}
        PROVE  SimpleStatus'[x] = SimpleStatus[x]
    <3>1. /\ offeredAt'[x] = offeredAt[x]
          /\ transactions'[x] = transactions[x]
          /\ exchanges'[x] = exchanges[x]
      BY <1>4, <2>4 DEF StartExchange
    <3>2. QED
      BY <2>3, <3>1 DEF SimpleStatus
  <2>8. SimpleStatus' = [SimpleStatus EXCEPT ![s] = "redeemed"]
    BY <2>6, <2>7 DEF SimpleStatus
  <2>9. Ticket!Redeem(s)
    BY <1>s, <2>5, <2>8 DEF Ticket!Redeem, Ticket!Move
  <2>10. QED
    BY <2>9 DEF Ticket!Next
<1>5. CASE CleanupExpiredState
  <2>1. \A s \in LoginStates : InHand(s)' <=> InHand(s)
    BY <1>5 DEF CleanupExpiredState, InHand
  <2>2. \A s \in LoginStates : transactions'[s] # Absent => transactions[s] # Absent
    BY <1>5 DEF CleanupExpiredState
  <2>3. QED
    BY <1>5, <2>1, <2>2, StatusDrop DEF CleanupExpiredState
<1>6. CASE Restart
  <2>1. \A s \in LoginStates : ~InHand(s)' /\ transactions'[s] = Absent
    BY <1>6 DEF Restart, InHand
  <2>2. QED
    BY <1>6, <2>1, StatusDrop DEF Restart
<1>7. ASSUME NEW r \in Requests,
             \/ RejectCookie(r) \/ RejectRevoked(r) \/ Forward(r)
             \/ FinishForward(r) \/ ExchangeFails(r) \/ Sign(r) \/ Revoke(r)
             \/ \E c \in cookies : AcceptCookie(r, c) \/ VerifyLogout(r, c)
             \/ \E s \in Sessions, w \in Wards : ExchangeAuthCode(r, s, w)
      PROVE  [Ticket!Next]_ticketStatus
  <2>1. UNCHANGED <<transactions, txn, offeredAt, exchanges, exchangeAge>>
    BY <1>7 DEF RejectCookie, RejectRevoked, Forward, FinishForward, ExchangeFails,
                Sign, Revoke, AcceptCookie, VerifyLogout, ExchangeAuthCode
  <2>2. \A q \in Requests : pc'[q] = "taken" <=> pc[q] = "taken"
    BY <1>0, <1>7
       DEF RejectCookie, RejectRevoked, Forward, FinishForward, ExchangeFails,
           Sign, Revoke, AcceptCookie, VerifyLogout, ExchangeAuthCode
  <2>3. QED
    BY <2>1, <2>2, StatusFrame
<1>8. CASE Tick
  BY <1>8, StatusFrame DEF Tick
<1>9. CASE UNCHANGED vars
  BY <1>9, StatusFrame DEF vars
<1>10. QED
  BY <1>1, <1>2, <1>3, <1>4, <1>5, <1>6, <1>7, <1>8, <1>9
     DEF Next, HandleDefault, HandleCallback, HandleLogout

\* The transactions map, its copies in the handlers, the cleanup loop and the
\* restarts implement the ticket: redeemed at most once, and never back after
\* it was redeemed or dropped.
THEOREM TicketRefinement == Spec => ImplementsTicket
<1>1. Init => Ticket!Init
  BY DEF Init, Ticket!Init, ticketStatus
<1>2. IndInv /\ IndInv' /\ [Next]_vars => [Ticket!Next]_ticketStatus
  BY TicketRefinementStep
<1>3. QED
  BY <1>1, <1>2, Invariance, PTL DEF Spec, ImplementsTicket, Ticket!Spec
==============================================================================
