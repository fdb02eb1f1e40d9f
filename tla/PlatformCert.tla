---------------------------- MODULE PlatformCert ----------------------------
(***************************************************************************)
(* The certificate of a platform subdomain while serve is running          *)
(* (internal/adapters/tls/platform_provider.go): TLS handshakes, each a    *)
(* goroutine, look at the state, start a refresh and pick a certificate    *)
(* under separate holds of the lock; a refresh is a goroutine of its own.  *)
(*                                                                         *)
(* Times are kept as the number of ticks from now on.  A tick is longer    *)
(* than the 15 seconds a refresh may take, and than a handshake: neither   *)
(* sees more than one.  minRefreshAfter, five minutes, is two at least.    *)
(***************************************************************************)
EXTENDS Integers, FiniteSets

CONSTANTS
  Handshakes, Refreshes,
  Hints,           \* RefreshAfterSeconds the platform may answer with
  Validity,        \* longest validity of a certificate it may hand out
  DefaultAfter,    \* defaultRefreshAfter
  MinAfter,        \* minRefreshAfter
  Window,          \* refreshAfterSuccessWindow
  BeforeExpiry,    \* refreshBeforeExpiry
  MaxFailures,     \* maxRefreshFailures
  CooldownMul      \* refreshFailureCooldownMul

ASSUME ConstantsAssumption ==
  /\ Hints \subseteq Int
  /\ {MinAfter, DefaultAfter, Window, MaxFailures, CooldownMul} \subseteq Nat \ {0}
  /\ BeforeExpiry \in Nat
  /\ Validity \in Nat /\ Validity >= 2
  /\ 2 <= MinAfter /\ MinAfter <= DefaultAfter

\* A time that lies a tick back, or longer: no handshake looks further back.
Past == -1

VARIABLES
  loaded,     \* is there a platformCert?
  known,      \* does platformCertNotAfter say when it expires?
  left,       \* validity left of platformCert, known or not, at least Past
  since,      \* time since lastSuccessAt, at most Window
  wait,       \* time until nextAllowedRefreshAt, at least Past
  inFlight,   \* refreshInFlight
  failures,   \* consecutiveFailures, at most MaxFailures
  pc,         \* step of each handshake
  lag,        \* has a tick passed since the handshake looked at the clock?
  served,     \* certificate a handshake has got
  job,        \* step of each refresh
  answer,     \* validity left of the certificate a refresh has fetched
  aged,       \* has a tick passed since the refresh began?
  issued,     \* validity left of the latest certificate of the platform
  overtaken   \* history: handshakes that looked before a refresh ended

certVars == <<loaded, known, left, since, wait, failures>>
hsVars   == <<pc, lag, served, overtaken>>
jobVars  == <<job, answer, aged>>
vars     == <<certVars, inFlight, hsVars, jobVars, issued>>

\* normalizeRefreshAfter
Normalize(v) ==
  IF v <= 0 THEN DefaultAfter ELSE IF v < MinAfter THEN MinAfter ELSE v

Waits == {Normalize(v) : v \in Hints \union {0}}
Within(n, w) == n \in Int /\ Past <= n /\ n <= w * CooldownMul

TypeOK ==
  /\ loaded \in BOOLEAN /\ known \in BOOLEAN
  /\ left \in Past..Validity /\ issued \in Past..Validity
  /\ since \in 0..Window
  /\ \E w \in Waits : Within(wait, w)
  /\ inFlight \in BOOLEAN
  /\ failures \in 0..MaxFailures
  /\ pc \in [Handshakes -> {"idle", "due", "picking", "done"}]
  /\ lag \in [Handshakes -> 0..1]
  /\ served \in [Handshakes -> {"none", "platform", "fallback"}]
  /\ job \in [Refreshes -> {"none", "asking", "answered", "ending"}]
  /\ answer \in [Refreshes -> Past..Validity]
  /\ aged \in [Refreshes -> BOOLEAN]
  /\ overtaken \subseteq Handshakes

------------------------------------------------------------------------------
(* The start.                                                               *)

\* NewPlatformCertProvider with a certificate, without one.
StartLoaded ==
  /\ loaded = TRUE /\ known \in BOOLEAN
  /\ issued \in 2..Validity /\ left = issued
  /\ since = 0
  /\ \E v \in Hints : wait = Normalize(v)

StartUnloaded ==
  /\ loaded = FALSE /\ known = FALSE
  /\ issued = Past /\ left = Past
  /\ since = Window
  /\ wait = 0

\* newServeTLSProvider has fetched a certificate, or has not.
Init ==
  /\ StartLoaded \/ StartUnloaded
  /\ inFlight = FALSE
  /\ failures = 0
  /\ pc = [h \in Handshakes |-> "idle"]
  /\ lag = [h \in Handshakes |-> 0]
  /\ served = [h \in Handshakes |-> "none"]
  /\ job = [f \in Refreshes |-> "none"]
  /\ answer = [f \in Refreshes |-> 0]
  /\ aged = [f \in Refreshes |-> FALSE]
  /\ overtaken = {}

------------------------------------------------------------------------------
(* A handshake.                                                             *)

\* currentCertificateLocked, for a clock read so many ticks ago: TRUE means
\* platformCert, FALSE the fallback.
Current(ago) == loaded /\ (known => left + ago > 0)

\* Mutated form: nextAllowedRefreshAt is not consulted.
ShouldRefreshAnytime ==
  /\ ~inFlight
  /\ ~Current(0) \/ since = Window \/ (known /\ left <= BeforeExpiry)

\* shouldRefresh.  Without a platform certificate the fallback is in use.
ShouldRefresh ==
  /\ ~inFlight /\ wait <= 0
  /\ ~Current(0) \/ since = Window \/ (known /\ left <= BeforeExpiry)

GetCertificate(h) ==
  /\ pc[h] = "idle"
  /\ pc' = [pc EXCEPT ![h] = IF ShouldRefresh THEN "due" ELSE "picking"]
  /\ UNCHANGED <<certVars, inFlight, lag, served, overtaken, jobVars, issued>>

\* Mutated form: that no refresh is in flight is not checked again.
StartUnchecked(h, f) ==
  /\ pc[h] = "due" /\ job[f] = "none"
  /\ inFlight' = TRUE
  /\ job' = [job EXCEPT ![f] = "asking"]
  /\ pc' = [pc EXCEPT ![h] = "picking"]
  /\ UNCHANGED <<certVars, lag, served, overtaken, answer, aged, issued>>

\* startRefresh looks at refreshInFlight again, and at nothing else.
StartRefresh(h, f) ==
  /\ pc[h] = "due" /\ job[f] = "none"
  /\ ~inFlight
  /\ inFlight' = TRUE
  /\ job' = [job EXCEPT ![f] = "asking"]
  /\ pc' = [pc EXCEPT ![h] = "picking"]
  /\ UNCHANGED <<certVars, lag, served, overtaken, answer, aged, issued>>

SkipRefresh(h) ==
  /\ pc[h] = "due"
  /\ inFlight
  /\ pc' = [pc EXCEPT ![h] = "picking"]
  /\ UNCHANGED <<certVars, inFlight, lag, served, overtaken, jobVars, issued>>

Pick(h) ==
  /\ pc[h] = "picking"
  /\ pc' = [pc EXCEPT ![h] = "done"]
  /\ served' = [served EXCEPT ![h] = IF Current(lag[h]) THEN "platform" ELSE "fallback"]
  /\ lag' = [lag EXCEPT ![h] = 0]
  /\ overtaken' = overtaken \ {h}
  /\ UNCHANGED <<certVars, inFlight, jobVars, issued>>

\* The connection is set up; another client takes the name h.
Reconnect(h) ==
  /\ pc[h] = "done"
  /\ pc' = [pc EXCEPT ![h] = "idle"]
  /\ served' = [served EXCEPT ![h] = "none"]
  /\ UNCHANGED <<certVars, inFlight, lag, overtaken, jobVars, issued>>

------------------------------------------------------------------------------
(* A refresh.                                                               *)

\* GetTLSMaterial: the platform's certificate, which it may have renewed.
Fetch(f) ==
  /\ job[f] = "asking"
  /\ \E v \in 2..Validity :
       /\ v >= issued
       /\ issued' = v
       /\ answer' = [answer EXCEPT ![f] = v]
  /\ job' = [job EXCEPT ![f] = "answered"]
  /\ UNCHANGED <<certVars, inFlight, hsVars, aged>>

\* Mutated form: the pause grows with every failure.
MarkFailureGrowing(w) ==
  /\ failures' = IF failures < MaxFailures THEN failures + 1 ELSE failures
  /\ wait' = w * CooldownMul * failures'
  /\ UNCHANGED <<loaded, known, left, since>>

\* markRefreshFailure
MarkFailure(w) ==
  /\ failures' = IF failures < MaxFailures THEN failures + 1 ELSE failures
  /\ wait' = IF failures' >= MaxFailures THEN w * CooldownMul ELSE w
  /\ UNCHANGED <<loaded, known, left, since>>

\* Mutated form: a fetch that fails is logged, and not marked.
FetchFailsUnmarked(f) ==
  /\ job[f] = "asking"
  /\ job' = [job EXCEPT ![f] = "ending"]
  /\ UNCHANGED <<certVars, inFlight, hsVars, answer, aged, issued>>

\* No answer within the timeout, or an error.
FetchFails(f) ==
  /\ job[f] = "asking"
  /\ MarkFailure(Normalize(DefaultAfter))
  /\ job' = [job EXCEPT ![f] = "ending"]
  /\ UNCHANGED <<inFlight, hsVars, answer, aged, issued>>

\* The answer is no key pair.
ParseFails(f) ==
  /\ job[f] = "answered"
  /\ \E v \in Hints : MarkFailure(Normalize(Normalize(v)))
  /\ job' = [job EXCEPT ![f] = "ending"]
  /\ UNCHANGED <<inFlight, hsVars, answer, aged, issued>>

\* A NotAfter that is missing or cannot be parsed leaves the expiry unknown.
Install(f) ==
  /\ job[f] = "answered"
  /\ loaded' = TRUE
  /\ known' \in BOOLEAN
  /\ left' = answer[f]
  /\ since' = 0
  /\ \E v \in Hints : wait' = Normalize(v)
  /\ failures' = 0
  /\ job' = [job EXCEPT ![f] = "ending"]
  /\ UNCHANGED <<inFlight, hsVars, answer, aged, issued>>

\* Mutated form: the flag is cleared after a success only.
EndAfterSuccess(f) ==
  /\ job[f] = "ending"
  /\ job' = [job EXCEPT ![f] = "none"]
  /\ aged' = [aged EXCEPT ![f] = FALSE]
  /\ answer' = [answer EXCEPT ![f] = 0]
  /\ inFlight' = (failures # 0)
  /\ overtaken' = overtaken \union {h \in Handshakes : pc[h] = "due"}
  /\ UNCHANGED <<certVars, pc, lag, served, issued>>

\* The deferred function of startRefresh
EndRefresh(f) ==
  /\ job[f] = "ending"
  /\ job' = [job EXCEPT ![f] = "none"]
  /\ aged' = [aged EXCEPT ![f] = FALSE]
  /\ answer' = [answer EXCEPT ![f] = 0]
  /\ inFlight' = FALSE
  /\ overtaken' = overtaken \union {h \in Handshakes : pc[h] = "due"}
  /\ UNCHANGED <<certVars, pc, lag, served, issued>>

------------------------------------------------------------------------------

Less(n) == IF n > Past THEN n - 1 ELSE Past

Tick ==
  /\ \A h \in Handshakes : pc[h] \in {"due", "picking"} => lag[h] = 0
  /\ \A f \in Refreshes : job[f] # "none" => ~aged[f]
  /\ left' = Less(left) /\ issued' = Less(issued) /\ wait' = Less(wait)
  /\ since' = IF since < Window THEN since + 1 ELSE since
  /\ answer' = [f \in Refreshes |-> Less(answer[f])]
  /\ lag' = [h \in Handshakes |-> IF pc[h] \in {"due", "picking"} THEN 1 ELSE lag[h]]
  /\ aged' = [f \in Refreshes |-> job[f] # "none"]
  /\ UNCHANGED <<loaded, known, failures, inFlight, pc, served, overtaken, job>>

Handshake(h) ==
  \/ GetCertificate(h)
  \/ \E f \in Refreshes : StartRefresh(h, f)
  \/ SkipRefresh(h)
  \/ Pick(h)
  \/ Reconnect(h)

Refresh(f) ==
  \/ Fetch(f)
  \/ FetchFails(f)
  \/ ParseFails(f)
  \/ Install(f)
  \/ EndRefresh(f)

Next ==
  \/ \E h \in Handshakes : Handshake(h)
  \/ \E f \in Refreshes : Refresh(f)
  \/ Tick

Spec == Init /\ [][Next]_vars

\* Clients keep connecting, goroutines run, time passes; and the platform,
\* asked again and again, answers with a good certificate again and again.
FairSpec ==
  /\ Spec /\ WF_vars(Tick)
  /\ \A h \in Handshakes : WF_vars(Handshake(h))
  /\ \A f \in Refreshes : WF_vars(Refresh(f)) /\ SF_vars(Fetch(f)) /\ SF_vars(Install(f))

------------------------------------------------------------------------------
(* Properties.                                                              *)

\* At most one refresh is under way, however many handshakes find one due at
\* once: the look under the read lock decides nothing.
OneFetch ==
  \A f, g \in Refreshes : job[f] # "none" /\ job[g] # "none" => f = g

\* A refresh never puts back an older certificate than the one in use: answers
\* cannot overtake each other.
NeverOlder == [][\A f \in Refreshes : Install(f) => left' >= left]_vars

\* A client is given the fallback certificate only while the platform is being
\* asked for a better one, or, when the client looked, had been asked within
\* the pause: however the looks of handshakes, the ends of refreshes and the
\* clock interleave, serve never just goes on with an expired certificate.
FallbackIsPursued ==
  [][\A h \in Handshakes :
       Pick(h) /\ served'[h] = "fallback" =>
         (\E f \in Refreshes : job[f] # "none") \/ wait + lag[h] > 0]_vars

\* The platform is not asked before nextAllowedRefreshAt, failures and their
\* cooldown included, except by a handshake that had looked before the last
\* refresh ended and was overtaken by it.
FetchIsDue ==
  [][\A h \in Handshakes, f \in Refreshes :
       StartRefresh(h, f) => wait <= 0 \/ h \in overtaken]_vars

\* As long as clients connect and the platform has good moments, an expired
\* certificate, or none at all, gives way to a valid one: through failures,
\* cooldowns and answers that do not say when they expire.
ValidCertComesBack == left <= 0 ~> left > 0
==============================================================================
