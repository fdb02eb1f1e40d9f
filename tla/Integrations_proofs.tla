------------------------ MODULE Integrations_proofs ------------------------
(***************************************************************************)
(* Proofs about what warded keeps in step with others.  PlatformCert: the  *)
(* certificate of the platform, for any number of handshakes and refreshes *)
(* and any setting of the time constants.  OpenClawIntegrate: the          *)
(* configuration of the gateway, for any number of commands, origins and   *)
(* ports.                                                                  *)
(***************************************************************************)
EXTENDS PlatformCert, OpenClawIntegrate, FiniteSetTheorems, TLAPS

(* PlatformCert.                                                            *)

\* Normalize gives a positive time, and applied again changes nothing: the
\* pause after a failure is built on the same waits as the one after a success.
LEMMA NormalizeIsStable ==
  ASSUME NEW v \in Int
  PROVE  /\ Normalize(v) \in Nat \ {0}
         /\ Normalize(Normalize(v)) = Normalize(v)
BY ConstantsAssumption DEF Normalize

\* A wait and its cooldown multiple are both within the bound.
LEMMA WaitsBound ==
  ASSUME NEW w \in Nat
  PROVE  Within(0, w) /\ Within(w, w) /\ Within(w * CooldownMul, w)
<1>1. CooldownMul \in Nat /\ CooldownMul >= 1
  BY ConstantsAssumption
<1>2. w * CooldownMul \in Nat
  BY <1>1
<1>3. w <= w * CooldownMul
  BY <1>1
<1> QED
  BY <1>2, <1>3 DEF Within, Past

\* What Hints and the default pause become is a wait.
LEMMA HintsAreWaits ==
  /\ \A v \in Hints : Normalize(v) \in Waits
  /\ Normalize(DefaultAfter) \in Waits
  /\ \A w \in Waits : w \in Nat
<1>1. Normalize(0) = DefaultAfter /\ Normalize(DefaultAfter) = DefaultAfter
  BY ConstantsAssumption DEF Normalize
<1>2. \A v \in Hints \union {0} : Normalize(v) \in Nat
  BY ConstantsAssumption, NormalizeIsStable
<1> QED
  BY <1>1, <1>2 DEF Waits

-----------------------------------------------------------------------------
(* The inductive invariant.                                                 *)

\* The flag is set while a refresh is under way, and there is one at most.
FlagIsHeld ==
  /\ OneFetch
  /\ inFlight <=> \E f \in Refreshes : job[f] # "none"

\* The certificate in use is no newer than the platform's latest, and a
\* fetched one is the latest.
AnswersAreLatest ==
  /\ left <= issued
  /\ \A f \in Refreshes : job[f] = "answered" => answer[f] = issued

\* A handshake that found a refresh due is still right, or a refresh is under
\* way, or one has ended since.
DueIsTracked ==
  \A h \in Handshakes : pc[h] = "due" => wait <= 0 \/ inFlight \/ h \in overtaken

IInv == TypeOK /\ FlagIsHeld /\ AnswersAreLatest /\ DueIsTracked

LEMMA InitIInv == Init => IInv
<1> SUFFICES ASSUME Init PROVE IInv
  OBVIOUS
<1>1. \E w \in Waits : Within(wait, w)
  <2>1. CASE StartLoaded
    <3>1. PICK v \in Hints : wait = Normalize(v)
      BY <2>1 DEF StartLoaded
    <3>2. wait \in Waits /\ wait \in Nat
      BY <3>1, HintsAreWaits
    <3> QED
      BY <3>2, WaitsBound
  <2>2. CASE StartUnloaded
    <3>1. wait = 0 /\ Normalize(DefaultAfter) \in Waits /\ Normalize(DefaultAfter) \in Nat
      BY <2>2, HintsAreWaits DEF StartUnloaded
    <3> QED
      BY <3>1, WaitsBound
  <2> QED
    BY <2>1, <2>2 DEF Init
<1>2. TypeOK
  <2>1. left \in Past..Validity /\ issued \in Past..Validity /\ since \in 0..Window /\ failures \in 0..MaxFailures
    BY ConstantsAssumption DEF Init, StartLoaded, StartUnloaded, Past
  <2>2. loaded \in BOOLEAN /\ known \in BOOLEAN /\ inFlight \in BOOLEAN
    BY DEF Init, StartLoaded, StartUnloaded
  <2>3. /\ pc \in [Handshakes -> {"idle", "due", "picking", "done"}]
        /\ lag \in [Handshakes -> 0..1]
        /\ served \in [Handshakes -> {"none", "platform", "fallback"}]
        /\ overtaken \subseteq Handshakes
    BY DEF Init
  <2>4. /\ job \in [Refreshes -> {"none", "asking", "answered", "ending"}]
        /\ answer \in [Refreshes -> Past..Validity]
        /\ aged \in [Refreshes -> BOOLEAN]
    BY ConstantsAssumption DEF Init, Past
  <2> QED
    BY <1>1, <2>1, <2>2, <2>3, <2>4 DEF TypeOK
<1>3. left = issued /\ left \in Int
  BY ConstantsAssumption DEF Init, StartLoaded, StartUnloaded, Past
<1> QED
  BY <1>2, <1>3 DEF Init, IInv, FlagIsHeld, OneFetch, AnswersAreLatest, DueIsTracked

\* The steps of a handshake touch neither a certificate nor a time.
LEMMA HandshakeIInv ==
  ASSUME IInv, NEW h \in Handshakes, Handshake(h)
  PROVE  IInv'
<1> USE DEF IInv
<1>1. CASE GetCertificate(h)
  <2>1. TypeOK'
    BY <1>1 DEF GetCertificate, TypeOK, certVars, jobVars
  <2>2. DueIsTracked'
    BY <1>1 DEF GetCertificate, ShouldRefresh, DueIsTracked, TypeOK, certVars
  <2> QED
    BY <1>1, <2>1, <2>2 DEF GetCertificate, FlagIsHeld, OneFetch, AnswersAreLatest, certVars, jobVars
<1>2. CASE \E f \in Refreshes : StartRefresh(h, f)
  <2>1. PICK f \in Refreshes : StartRefresh(h, f)
    BY <1>2
  <2>2. TypeOK'
    BY <2>1 DEF StartRefresh, TypeOK, certVars
  <2>3. FlagIsHeld'
    BY <2>1 DEF StartRefresh, FlagIsHeld, OneFetch, TypeOK
  <2>4. AnswersAreLatest'
    BY <2>1 DEF StartRefresh, AnswersAreLatest, TypeOK, certVars
  <2>5. DueIsTracked'
    BY <2>1 DEF StartRefresh, DueIsTracked
  <2> QED
    BY <2>2, <2>3, <2>4, <2>5
<1>3. CASE SkipRefresh(h)
  <2>1. TypeOK' /\ DueIsTracked'
    BY <1>3 DEF SkipRefresh, TypeOK, DueIsTracked, certVars, jobVars
  <2> QED
    BY <1>3, <2>1 DEF SkipRefresh, FlagIsHeld, OneFetch, AnswersAreLatest, certVars, jobVars
<1>4. CASE Pick(h)
  <2>1. TypeOK' /\ DueIsTracked'
    BY <1>4 DEF Pick, TypeOK, DueIsTracked, certVars, jobVars
  <2> QED
    BY <1>4, <2>1 DEF Pick, FlagIsHeld, OneFetch, AnswersAreLatest, certVars, jobVars
<1>5. CASE Reconnect(h)
  <2>1. TypeOK' /\ DueIsTracked'
    BY <1>5 DEF Reconnect, TypeOK, DueIsTracked, certVars, jobVars
  <2> QED
    BY <1>5, <2>1 DEF Reconnect, FlagIsHeld, OneFetch, AnswersAreLatest, certVars, jobVars
<1> QED
  BY <1>1, <1>2, <1>3, <1>4, <1>5 DEF Handshake

\* A failed refresh sets a wait within the bound and counts up to its limit.
LEMMA FailureTypes ==
  ASSUME TypeOK, NEW w \in Waits, MarkFailure(w)
  PROVE  failures' \in 0..MaxFailures /\ (\E u \in Waits : Within(wait', u))
<1>1. failures' \in 0..MaxFailures
  BY ConstantsAssumption DEF TypeOK, MarkFailure
<1>2. Within(wait', w)
  BY HintsAreWaits, WaitsBound DEF MarkFailure
<1> QED
  BY <1>1, <1>2

\* The steps of a refresh: it holds the flag while it works, so it is alone.
LEMMA RefreshIInv ==
  ASSUME IInv, NEW f \in Refreshes, Refresh(f)
  PROVE  IInv'
<1> USE DEF IInv
<1>1. CASE Fetch(f)
  <2>1. PICK v \in 2..Validity :
          v >= issued /\ issued' = v /\ answer' = [answer EXCEPT ![f] = v]
    BY <1>1 DEF Fetch
  <2>2. TypeOK'
    BY <1>1, <2>1, ConstantsAssumption DEF Fetch, TypeOK, Past, certVars, hsVars
  <2>3. FlagIsHeld'
    BY <1>1 DEF Fetch, FlagIsHeld, OneFetch, TypeOK
  <2>4. AnswersAreLatest'
    <3>1. \A g \in Refreshes : job'[g] = "answered" => g = f
      BY <1>1 DEF Fetch, FlagIsHeld, OneFetch, TypeOK
    <3>2. answer'[f] = issued'
      BY <2>1 DEF TypeOK
    <3>3. left' <= issued'
      BY <1>1, <2>1, ConstantsAssumption DEF Fetch, certVars, AnswersAreLatest, TypeOK
    <3> QED
      BY <3>1, <3>2, <3>3 DEF AnswersAreLatest
  <2>5. DueIsTracked'
    BY <1>1 DEF Fetch, DueIsTracked, certVars, hsVars
  <2> QED
    BY <2>2, <2>3, <2>4, <2>5
<1>2. ASSUME NEW w \in Waits, MarkFailure(w), job[f] # "none",
             job' = [job EXCEPT ![f] = "ending"],
             UNCHANGED <<inFlight, hsVars, answer, aged, issued>>
      PROVE  IInv'
  <2>1. TypeOK'
    BY <1>2, FailureTypes DEF MarkFailure, TypeOK, hsVars
  <2>2. FlagIsHeld'
    BY <1>2 DEF FlagIsHeld, OneFetch, TypeOK
  <2>3. AnswersAreLatest'
    BY <1>2 DEF MarkFailure, AnswersAreLatest, TypeOK
  <2>4. DueIsTracked'
    BY <1>2 DEF FlagIsHeld, DueIsTracked
  <2> QED
    BY <2>1, <2>2, <2>3, <2>4
<1>3. CASE FetchFails(f)
  BY <1>2, <1>3, HintsAreWaits DEF FetchFails
<1>4. CASE ParseFails(f)
  <2>1. PICK v \in Hints : MarkFailure(Normalize(Normalize(v)))
    BY <1>4 DEF ParseFails
  <2>2. Normalize(Normalize(v)) \in Waits
    BY ConstantsAssumption, NormalizeIsStable, HintsAreWaits
  <2> QED
    BY <1>2, <1>4, <2>1, <2>2 DEF ParseFails
<1>5. CASE Install(f)
  <2>1. \E w \in Waits : Within(wait', w)
    BY <1>5, HintsAreWaits, WaitsBound DEF Install
  <2>2. left' = answer[f] /\ answer[f] = issued /\ issued' = issued
    BY <1>5 DEF Install, AnswersAreLatest
  <2>3. since' \in 0..Window /\ failures' \in 0..MaxFailures /\ left' \in Past..Validity
    BY <1>5, <2>2, ConstantsAssumption DEF Install, TypeOK
  <2>4. TypeOK'
    BY <1>5, <2>1, <2>3 DEF Install, TypeOK, hsVars
  <2>5. FlagIsHeld'
    BY <1>5 DEF Install, FlagIsHeld, OneFetch, TypeOK
  <2>6. AnswersAreLatest'
    BY <1>5, <2>2 DEF Install, AnswersAreLatest, TypeOK
  <2>7. DueIsTracked'
    BY <1>5 DEF Install, FlagIsHeld, DueIsTracked, hsVars
  <2> QED
    BY <2>4, <2>5, <2>6, <2>7
<1>6. CASE EndRefresh(f)
  <2>1. TypeOK'
    <3>1. /\ answer' \in [Refreshes -> Past..Validity]
          /\ aged' \in [Refreshes -> BOOLEAN]
          /\ job' \in [Refreshes -> {"none", "asking", "answered", "ending"}]
      BY <1>6, ConstantsAssumption DEF EndRefresh, TypeOK, Past
    <3>2. inFlight' \in BOOLEAN /\ overtaken' \subseteq Handshakes
      BY <1>6 DEF EndRefresh, TypeOK
    <3> QED
      BY <1>6, <3>1, <3>2 DEF EndRefresh, TypeOK, certVars
  <2>2. FlagIsHeld'
    BY <1>6 DEF EndRefresh, FlagIsHeld, OneFetch, TypeOK
  <2>3. AnswersAreLatest'
    BY <1>6 DEF EndRefresh, AnswersAreLatest, TypeOK, certVars
  <2>4. DueIsTracked'
    BY <1>6 DEF EndRefresh, DueIsTracked, certVars
  <2> QED
    BY <2>1, <2>2, <2>3, <2>4
<1> QED
  BY <1>1, <1>3, <1>4, <1>5, <1>6 DEF Refresh

\* Time passes for all certificates alike.
LEMMA TickIInv == ASSUME IInv, Tick PROVE IInv'
<1> USE DEF IInv
<1>1. TypeOK'
  <2>1. left' \in Past..Validity /\ issued' \in Past..Validity /\ since' \in 0..Window
    BY ConstantsAssumption DEF Tick, TypeOK, Less, Past
  <2>2. \E w \in Waits : Within(wait', w)
    <3>1. PICK w \in Waits : Within(wait, w)
      BY DEF TypeOK
    <3>2. w \in Nat /\ w * CooldownMul \in Int
      BY HintsAreWaits, ConstantsAssumption
    <3>3. Within(wait', w)
      BY <3>1, <3>2 DEF Tick, Less, Within, Past
    <3> QED
      BY <3>3
  <2>3. answer' \in [Refreshes -> Past..Validity]
    BY ConstantsAssumption DEF Tick, TypeOK, Less, Past
  <2>4. lag' \in [Handshakes -> 0..1] /\ aged' \in [Refreshes -> BOOLEAN]
    BY DEF Tick, TypeOK
  <2>5. UNCHANGED <<loaded, known, failures, inFlight, pc, served, overtaken, job>>
    BY DEF Tick
  <2>6. /\ (loaded \in BOOLEAN)' /\ (known \in BOOLEAN)' /\ (inFlight \in BOOLEAN)'
        /\ failures' \in 0..MaxFailures
        /\ pc' \in [Handshakes -> {"idle", "due", "picking", "done"}]
        /\ served' \in [Handshakes -> {"none", "platform", "fallback"}]
        /\ job' \in [Refreshes -> {"none", "asking", "answered", "ending"}]
        /\ overtaken' \subseteq Handshakes
    BY <2>5 DEF TypeOK
  <2> QED
    BY <2>1, <2>2, <2>3, <2>4, <2>6 DEF TypeOK
<1>2. FlagIsHeld'
  BY DEF Tick, FlagIsHeld, OneFetch
<1>3. AnswersAreLatest'
  BY DEF Tick, AnswersAreLatest, TypeOK, Less, Past
<1>4. DueIsTracked'
  BY DEF Tick, DueIsTracked, TypeOK, Within, Less, Past
<1> QED
  BY <1>1, <1>2, <1>3, <1>4

LEMMA NextIInv == IInv /\ [Next]_vars => IInv'
<1> SUFFICES ASSUME IInv, [Next]_vars PROVE IInv'
  OBVIOUS
<1>1. CASE UNCHANGED vars
  BY <1>1 DEF IInv, TypeOK, FlagIsHeld, OneFetch, AnswersAreLatest, DueIsTracked,
              vars, certVars, hsVars, jobVars
<1> QED
  BY <1>1, HandshakeIInv, RefreshIInv, TickIInv DEF Next

-----------------------------------------------------------------------------

\* Every state of PlatformCert satisfies the inductive invariant.
THEOREM Invariance == Spec => []IInv
  BY InitIInv, NextIInv, PTL DEF Spec

\* The provider's fields keep to their types and bounds (PlatformCertProvider):
\* the wait never exceeds CooldownMul times what the platform may ask for.
THEOREM TypeCorrect == Spec => []TypeOK
<1>1. IInv => TypeOK
  BY DEF IInv
<1> QED
  BY <1>1, Invariance, PTL

\* startRefresh admits one refresh at a time, for any number of handshakes.
THEOREM RefreshAlone == Spec => []OneFetch
<1>1. IInv => OneFetch
  BY DEF IInv, FlagIsHeld
<1> QED
  BY <1>1, Invariance, PTL

\* refresh never replaces the certificate in use by an older one.
THEOREM CertsAdvance == Spec => NeverOlder
<1>1. IInv /\ [Next]_vars => [\A f \in Refreshes : Install(f) => left' >= left]_vars
  BY DEF IInv, Install, AnswersAreLatest, TypeOK
<1> QED
  BY <1>1, Invariance, PTL DEF Spec, NeverOlder

\* GetCertificate starts a refresh before nextAllowedRefreshAt only when one
\* has ended between its two looks at the state.
THEOREM PauseIsKept == Spec => FetchIsDue
<1>1. IInv /\ [Next]_vars =>
        [\A h \in Handshakes, f \in Refreshes :
           StartRefresh(h, f) => wait <= 0 \/ h \in overtaken]_vars
  BY DEF IInv, StartRefresh, DueIsTracked
<1> QED
  BY <1>1, Invariance, PTL DEF Spec, FetchIsDue

-----------------------------------------------------------------------------

\* The pause that a refresh leaves lasts longer than the refresh itself.
PauseOutlasts ==
  \A f \in Refreshes : job[f] = "ending" => wait > IF aged[f] THEN 0 ELSE 1

\* A handshake that is going to give out the fallback has seen to a refresh, or
\* looked in the pause of an earlier one.
LookedAfter ==
  \A h \in Handshakes :
    /\ pc[h] \in {"idle", "done"} => lag[h] = 0
    /\ pc[h] = "picking" /\ ~Current(lag[h]) => inFlight \/ wait + lag[h] > 0

Pursued == PauseOutlasts /\ LookedAfter

\* The times a handshake compares with its clock.
LEMMA TimesAreNumbers ==
  ASSUME TypeOK
  PROVE  /\ wait \in Int /\ Past <= wait
         /\ left \in Int /\ Past <= left
BY ConstantsAssumption DEF TypeOK, Within, Past

\* Every pause takes two ticks at least.
LEMMA PausesAreLong ==
  /\ \A v \in Hints : Normalize(v) >= 2 /\ Normalize(Normalize(v)) >= 2
  /\ Normalize(DefaultAfter) >= 2
BY ConstantsAssumption DEF Normalize

\* So does the pause after a failure.
LEMMA FailurePause ==
  ASSUME TypeOK, NEW w \in Int, w >= 2, MarkFailure(w)
  PROVE  wait' \in Int /\ wait' >= 2
<1>1. CooldownMul \in Nat /\ CooldownMul >= 1
  BY ConstantsAssumption
<1>2. w * CooldownMul \in Int /\ w * CooldownMul >= 2
  BY <1>1
<1> QED
  BY <1>2 DEF MarkFailure

\* What a handshake does to the others is to start a refresh.
LEMMA HandshakePursues ==
  ASSUME IInv, Pursued, NEW h \in Handshakes, Handshake(h)
  PROVE  Pursued'
<1> USE DEF IInv, Pursued, TypeOK
<1>1. CASE GetCertificate(h)
  <2>1. PauseOutlasts'
    BY <1>1 DEF GetCertificate, PauseOutlasts, certVars, jobVars
  <2>2. LookedAfter'
    <3>1. ~ShouldRefresh /\ ~Current(0) => inFlight \/ wait > 0
      BY TimesAreNumbers DEF ShouldRefresh
    <3>2. lag[h] = 0 /\ lag' = lag
      BY <1>1 DEF GetCertificate, LookedAfter
    <3>3. ASSUME NEW g \in Handshakes
          PROVE  /\ pc'[g] \in {"idle", "done"} => lag'[g] = 0
                 /\ pc'[g] = "picking" /\ ~Current(lag[g])' => inFlight' \/ wait' + lag'[g] > 0
      <4>1. Current(lag[g])' <=> Current(lag[g])
        BY <1>1 DEF GetCertificate, Current, certVars
      <4>2. CASE g = h
        <5>1. pc'[h] = IF ShouldRefresh THEN "due" ELSE "picking"
          BY <1>1 DEF GetCertificate
        <5>2. UNCHANGED <<wait, inFlight>>
          BY <1>1 DEF GetCertificate, certVars
        <5> QED
          BY <3>1, <3>2, <4>1, <4>2, <5>1, <5>2, TimesAreNumbers
      <4>3. CASE g # h
        BY <1>1, <4>1, <4>3 DEF GetCertificate, LookedAfter, certVars
      <4> QED
        BY <4>2, <4>3
    <3> QED
      BY <3>3 DEF LookedAfter
  <2> QED
    BY <2>1, <2>2
<1>2. CASE \E f \in Refreshes : StartRefresh(h, f)
  <2>1. PauseOutlasts'
    BY <1>2 DEF StartRefresh, PauseOutlasts, certVars
  <2>2. LookedAfter'
    BY <1>2 DEF StartRefresh, LookedAfter, certVars
  <2> QED
    BY <2>1, <2>2
<1>3. CASE SkipRefresh(h)
  <2>1. PauseOutlasts'
    BY <1>3 DEF SkipRefresh, PauseOutlasts, certVars, jobVars
  <2>2. LookedAfter'
    BY <1>3 DEF SkipRefresh, LookedAfter, certVars
  <2> QED
    BY <2>1, <2>2
<1>4. CASE Pick(h) \/ Reconnect(h)
  <2>1. PauseOutlasts'
    BY <1>4 DEF Pick, Reconnect, PauseOutlasts, certVars, jobVars
  <2>2. LookedAfter'
    BY <1>4 DEF Pick, Reconnect, Current, LookedAfter, certVars
  <2> QED
    BY <2>1, <2>2
<1> QED
  BY <1>1, <1>2, <1>3, <1>4 DEF Handshake

\* A refresh under way is reason enough; when it ends its pause is.
LEMMA RefreshPursues ==
  ASSUME IInv, Pursued, NEW f \in Refreshes, Refresh(f)
  PROVE  Pursued'
<1> USE DEF IInv, Pursued, TypeOK
<1>1. inFlight /\ \A g \in Refreshes : job[g] # "none" => g = f
  BY DEF Refresh, Fetch, FetchFails, ParseFails, Install, EndRefresh, FlagIsHeld, OneFetch
<1>2. ASSUME wait' \in Int, wait' >= 2, job' = [job EXCEPT ![f] = "ending"],
             UNCHANGED <<inFlight, hsVars, aged>>
      PROVE  Pursued'
  <2>1. PauseOutlasts'
    BY <1>2 DEF PauseOutlasts
  <2>2. LookedAfter'
    BY <1>1, <1>2 DEF LookedAfter, hsVars
  <2> QED
    BY <2>1, <2>2
<1>3. CASE Fetch(f)
  <2>1. PauseOutlasts'
    BY <1>3 DEF Fetch, PauseOutlasts, certVars
  <2>2. LookedAfter'
    BY <1>1, <1>3 DEF Fetch, LookedAfter, hsVars
  <2> QED
    BY <2>1, <2>2
<1>4. CASE FetchFails(f)
  <2>1. Normalize(DefaultAfter) \in Int
    BY ConstantsAssumption, NormalizeIsStable
  <2> QED
    BY <1>2, <1>4, <2>1, PausesAreLong, FailurePause DEF FetchFails
<1>5. CASE ParseFails(f)
  <2>1. PICK v \in Hints : MarkFailure(Normalize(Normalize(v)))
    BY <1>5 DEF ParseFails
  <2>2. Normalize(Normalize(v)) \in Int
    BY ConstantsAssumption, NormalizeIsStable
  <2> QED
    BY <1>2, <1>5, <2>1, <2>2, PausesAreLong, FailurePause DEF ParseFails
<1>6. CASE Install(f)
  <2>1. wait' \in Int /\ wait' >= 2
    BY <1>6, ConstantsAssumption, NormalizeIsStable, PausesAreLong DEF Install
  <2> QED
    BY <1>2, <1>6, <2>1 DEF Install
<1>7. CASE EndRefresh(f)
  <2>1. wait \in Int /\ wait > 0
    BY <1>7, TimesAreNumbers DEF EndRefresh, PauseOutlasts
  <2>2. PauseOutlasts'
    BY <1>1, <1>7 DEF EndRefresh, PauseOutlasts
  <2>3. LookedAfter'
    <3>1. UNCHANGED <<wait, lag, pc>>
      BY <1>7 DEF EndRefresh, certVars
    <3> QED
      BY <2>1, <3>1 DEF LookedAfter
  <2> QED
    BY <2>2, <2>3
<1> QED
  BY <1>3, <1>4, <1>5, <1>6, <1>7 DEF Refresh

\* The lag of a handshake makes up for the tick.
LEMMA TickPursues ==
  ASSUME IInv, Pursued, Tick
  PROVE  Pursued'
<1> USE DEF IInv, Pursued, TypeOK
<1>1. wait \in Int /\ Past <= wait /\ left \in Int /\ Past <= left
  BY TimesAreNumbers
<1>2. PauseOutlasts'
  <2>1. ASSUME NEW f \in Refreshes, job[f] = "ending"
        PROVE  aged'[f] /\ wait > 1
    BY <2>1 DEF Tick, PauseOutlasts
  <2>2. wait > 1 => wait' > 0
    BY <1>1 DEF Tick, Less, Past
  <2> QED
    BY <2>1, <2>2 DEF Tick, PauseOutlasts
<1>3. ASSUME NEW h \in Handshakes, pc[h] = "picking", ~Current(lag[h])'
      PROVE  inFlight' \/ wait' + lag'[h] > 0
  <2>1. lag[h] = 0 /\ lag'[h] = 1
    BY <1>3 DEF Tick
  <2>2. ~Current(lag[h])
    BY <1>1, <1>3, <2>1 DEF Tick, Less, Past, Current
  <2>3. inFlight \/ wait > 0
    BY <1>1, <1>3, <2>1, <2>2 DEF LookedAfter
  <2> QED
    BY <1>1, <2>1, <2>3 DEF Tick, Less, Past
<1>4. LookedAfter'
  BY <1>3 DEF Tick, LookedAfter
<1> QED
  BY <1>2, <1>4

LEMMA StepPursues == IInv /\ Pursued /\ [Next]_vars => Pursued'
<1> SUFFICES ASSUME IInv, Pursued, [Next]_vars PROVE Pursued'
  OBVIOUS
<1>1. CASE UNCHANGED vars
  BY <1>1 DEF Pursued, PauseOutlasts, LookedAfter, Current, vars, certVars, hsVars, jobVars
<1> QED
  BY <1>1, HandshakePursues, RefreshPursues, TickPursues DEF Next

\* serve never gives out the fallback without seeing to a better certificate:
\* startRefresh and the marks of refresh leave no moment in which none is being
\* fetched and none has been asked for within nextAllowedRefreshAt.
THEOREM FallbackHasReason == Spec => FallbackIsPursued
<1>1. Init => Pursued
  BY DEF Init, Pursued, PauseOutlasts, LookedAfter
<1>2. IInv /\ Pursued /\ [Next]_vars =>
        [\A h \in Handshakes :
           Pick(h) /\ served'[h] = "fallback" =>
             (\E f \in Refreshes : job[f] # "none") \/ wait + lag[h] > 0]_vars
  BY DEF IInv, TypeOK, Pursued, LookedAfter, Pick, FlagIsHeld
<1> QED
  BY <1>1, <1>2, StepPursues, Invariance, PTL DEF Spec, FallbackIsPursued

------------------------------------------------------------------------------
(* OpenClawIntegrate.                                                       *)

\* What a command can be at, as OpenClawTypeOK has it.
Steps == {"idle", "listed", "bound", "planned", "loopback", "set", "done"}
Command ==
  [step : Steps, origin : {{}} \union {{o} : o \in Origins}, adopt : Adopted \union {0},
   list : Lists, bind : Binds, port : 0..MaxPort]

\* Lists of the code: adding a member that is there already changes the length
\* only where an entry repeats.
LEMMA ListLengths ==
  ASSUME NEW l \in Lists, NEW o \in Origins
  PROVE  /\ AppendUnique(l, {o}) \in Lists /\ Nothing \in Lists
         /\ AppendUnique(Nothing, {o}) = [members |-> {o}, repeats |-> 0]
         /\ l.repeats = 0 /\ Length(l) = Length(AppendUnique(l, {o})) => o \in l.members
<1>1. l.members \in SUBSET Origins /\ IsFiniteSet(l.members) /\ l.repeats \in 0..MaxRepeats
  BY DEF Lists
<1>2. /\ IsFiniteSet(l.members \union {o})
      /\ Cardinality(l.members) \in Nat
      /\ Cardinality(l.members \union {o}) =
           IF o \in l.members THEN Cardinality(l.members) ELSE Cardinality(l.members) + 1
  BY <1>1, FS_AddElement, FS_CardinalityType
<1>3. AppendUnique(l, {o}) \in Lists
  BY <1>1, <1>2, OpenClawAssumption DEF AppendUnique, Lists
<1>4. Nothing \in Lists
  BY FS_EmptySet, OpenClawAssumption DEF Nothing, Lists
<1>5. l.repeats = 0 /\ Length(l) = Length(AppendUnique(l, {o})) => o \in l.members
  BY <1>1, <1>2 DEF Length, AppendUnique
<1>6. AppendUnique(Nothing, {o}) = [members |-> {o}, repeats |-> 0]
  BY DEF Nothing, AppendUnique
<1> QED
  BY <1>3, <1>4, <1>5, <1>6

\* A port that is adopted is left for another one, and both are ports.
LEMMA PortsArePorts ==
  /\ \A n \in 0..MaxPort : ParsePort(n) \in 1..MaxPort
  /\ \A n \in 1..MaxPort : AdoptedUpstreamPort(n) \in 1..MaxPort /\ AdoptedUpstreamPort(n) # n
  /\ \A c \in Command : DesiredPort(c) \in 0..MaxPort
<1>0. MaxPort \in Nat
  BY SMT DEF MaxPort
<1>1. \A n \in 0..MaxPort : ParsePort(n) \in 1..MaxPort
  BY <1>0, OpenClawAssumption, SMT DEF ParsePort
<1>2. ASSUME NEW n \in 1..MaxPort
      PROVE  AdoptedUpstreamPort(n) \in 1..MaxPort /\ AdoptedUpstreamPort(n) # n
  <2>1. n \in Nat /\ 1 <= n /\ n <= MaxPort
    BY <1>0, SMT
  <2>2. /\ AdoptedUpstreamPort(n) \in Nat /\ AdoptedUpstreamPort(n) # n
        /\ 1 <= AdoptedUpstreamPort(n) /\ AdoptedUpstreamPort(n) <= MaxPort
    BY <2>1, SMT DEF AdoptedUpstreamPort, MaxPort
  <2> QED
    BY <1>0, <2>2, SMT
<1>3. ASSUME NEW c \in Command PROVE DesiredPort(c) \in 0..MaxPort
  <2>1. c.port \in 0..MaxPort /\ (c.adopt = 0 \/ c.adopt \in 1..MaxPort)
    BY OpenClawAssumption DEF Command
  <2> QED
    BY <1>2, <2>1 DEF DesiredPort
<1> QED
  BY <1>1, <1>2, <1>3

LEMMA IdleCommand == Idle \in Command /\ Nothing \in Lists /\ 0 \in 0..MaxPort
<1>1. Nothing \in Lists
  BY FS_EmptySet, OpenClawAssumption DEF Nothing, Lists
<1>2. 0 \in 0..MaxPort
  BY SMT DEF MaxPort
<1> QED
  BY <1>1, <1>2 DEF Idle, Command, Steps, Binds

\* What a command that is going on has seen and set, as long as nobody has
\* come between, and what it has been asked for.
Progress(p) ==
  /\ At(p, "listed") => \E o \in Origins : cmd[p].origin = {o} /\ cmd[p].adopt = 0
  /\ cmd[p].step \in {"bound", "planned", "loopback"} =>
       cmd[p].origin = {} /\ cmd[p].list = Nothing
  /\ cmd[p].step \in {"planned", "loopback"} => cmd[p].adopt \in {0, cmd[p].port}
  /\ p \notin disturbed =>
       /\ At(p, "bound") => cmd[p].bind = bind
       /\ At(p, "loopback") => bind = "loopback"
       /\ cmd[p].step \in {"set", "done"} =>
            /\ cmd[p].list.repeats = 0 /\ origins # Unreadable =>
                 cmd[p].origin \subseteq origins.members
            /\ cmd[p].origin = {} => bind = "loopback"
            /\ cmd[p].adopt # 0 => port = AdoptedUpstreamPort(cmd[p].adopt)

OpenClawInv == OpenClawTypeOK /\ \A p \in Procs : Progress(p)

\* A command goes on: it is the only one that does, and those it disturbs know.
LEMMA CommandGoesOn ==
  ASSUME OpenClawInv, NEW p \in Procs, NEW c \in Command, Becomes(p, c),
         origins' \in Lists \union {Unreadable}, bind' \in Binds, port' \in 0..MaxPort,
         \/ config' = config /\ \A q \in Procs \ {p} : q \in disturbed' <=> q \in disturbed
         \/ SeenBy(Procs \ {p}),
         disturbed' \subseteq Procs, Progress(p)'
  PROVE  OpenClawInv'
<1>1. /\ DOMAIN cmd = Procs /\ cmd'[p] = c /\ DOMAIN cmd' = Procs
      /\ \A q \in Procs : cmd[q] \in Command
      /\ \A q \in Procs \ {p} : cmd'[q] = cmd[q]
  BY DEF OpenClawInv, OpenClawTypeOK, Becomes, Command, Steps
<1>2. OpenClawTypeOK'
  BY <1>1 DEF OpenClawTypeOK, Command, Steps
<1>3. ASSUME NEW q \in Procs \ {p} PROVE Progress(q)'
  <2>1. Progress(q) /\ cmd'[q] = cmd[q]
    BY <1>1 DEF OpenClawInv
  <2>2. CASE config' = config /\ \A r \in Procs \ {p} : r \in disturbed' <=> r \in disturbed
    BY <2>1, <2>2 DEF Progress, At, config
  <2>3. CASE SeenBy(Procs \ {p})
    <3>1. \/ q \in disturbed'
          \/ cmd[q].step \in {"idle"} /\ (q \in disturbed' <=> q \in disturbed)
      BY <2>3 DEF SeenBy, Working, At
    <3> QED
      BY <2>1, <3>1 DEF Progress, At
  <2> QED
    BY <2>2, <2>3
<1> QED
  BY <1>2, <1>3 DEF OpenClawInv

LEMMA OpenClawStep == OpenClawInv /\ [OpenClawNext]_openClawVars => OpenClawInv'
<1> SUFFICES ASSUME OpenClawInv, [OpenClawNext]_openClawVars PROVE OpenClawInv'
  OBVIOUS
<1>0. /\ OpenClawTypeOK /\ DOMAIN cmd = Procs
      /\ \A p \in Procs : cmd[p] \in Command /\ Progress(p)
  BY DEF OpenClawInv, OpenClawTypeOK, Command, Steps
<1> USE DEF config
<1>1. ASSUME NEW p \in Procs, NEW o \in Origins, GetOrigins(p, o) PROVE OpenClawInv'
  <2> DEFINE s == IF Length(origins) = Length(AppendUnique(origins, {o})) THEN "done" ELSE "listed"
             c == [[Idle EXCEPT !.origin = {o}, !.list = origins] EXCEPT !.step = s]
  <2>1. /\ Becomes(p, c) /\ UNCHANGED config /\ origins \in Lists
        /\ disturbed' = disturbed \ {p}
    BY <1>0, <1>1 DEF GetOrigins, OpenClawTypeOK
  <2>2. /\ c \in Command /\ c.origin = {o} /\ c.list = origins /\ c.adopt = 0 /\ c.step = s
        /\ s \in {"done", "listed"}
    BY <2>1, IdleCommand DEF Command, Idle, Steps
  <2>3. s = "done" /\ origins.repeats = 0 => o \in origins.members
    BY <2>1, ListLengths
  <2> HIDE DEF c, s
  <2>4. cmd'[p] = c
    BY <1>0, <2>1 DEF Becomes
  <2>5. Progress(p)'
    BY <2>1, <2>2, <2>3, <2>4 DEF Progress, At
  <2> QED
    BY <1>0, <2>1, <2>2, <2>5, CommandGoesOn DEF OpenClawTypeOK
<1>2. ASSUME NEW p \in Procs, NEW a \in Adopted \union {0}, GetBind(p, a) PROVE OpenClawInv'
  <2> DEFINE c == [Idle EXCEPT !.step = "bound", !.adopt = a, !.bind = bind]
  <2>1. Becomes(p, c) /\ UNCHANGED config /\ disturbed' = disturbed \ {p}
    BY <1>2 DEF GetBind
  <2>2. c \in Command /\ c.step = "bound" /\ c.bind = bind /\ c.origin = {} /\ c.list = Nothing
    BY <1>0, IdleCommand DEF Command, Idle, Steps, OpenClawTypeOK
  <2> HIDE DEF c
  <2>3. cmd'[p] = c
    BY <1>0, <2>1 DEF Becomes
  <2>4. Progress(p)'
    BY <2>1, <2>2, <2>3 DEF Progress, At
  <2> QED
    BY <1>0, <2>1, <2>2, <2>4, CommandGoesOn DEF OpenClawTypeOK
<1>3. ASSUME NEW p \in Procs, SetOrigins(p) PROVE OpenClawInv'
  <2> DEFINE c == [cmd[p] EXCEPT !.step = "set"]
  <2>1. PICK o \in Origins : cmd[p].origin = {o} /\ cmd[p].adopt = 0
    BY <1>0, <1>3 DEF SetOrigins, At, Progress
  <2>2. /\ Becomes(p, c) /\ origins' = AppendUnique(cmd[p].list, {o}) /\ SeenBy(Procs \ {p})
        /\ UNCHANGED <<bind, port>>
    BY <1>3, <2>1 DEF SetOrigins
  <2>3. /\ c \in Command /\ c.step = "set" /\ c.origin = {o} /\ c.adopt = 0
        /\ origins' \in Lists /\ o \in origins'.members
    BY <1>0, <2>1, <2>2, ListLengths DEF Command, Steps, AppendUnique
  <2> HIDE DEF c
  <2>4. cmd'[p] = c
    BY <1>0, <2>2 DEF Becomes
  <2>5. Progress(p)'
    BY <2>2, <2>3, <2>4 DEF Progress, At
  <2> QED
    BY <1>0, <2>2, <2>3, <2>5, CommandGoesOn DEF OpenClawTypeOK, SeenBy
<1>4. ASSUME NEW p \in Procs, GetPort(p) PROVE OpenClawInv'
  <2> DEFINE c0 == [cmd[p] EXCEPT !.port = ParsePort(port)]
             s == IF c0.bind = "loopback" /\ c0.port = DesiredPort(c0) THEN "done" ELSE "planned"
             c == [c0 EXCEPT !.step = s]
  <2>1. /\ Becomes(p, c) /\ UNCHANGED <<config, disturbed>> /\ At(p, "bound")
        /\ cmd[p].adopt \in {0, ParsePort(port)} /\ ParsePort(port) \in 1..MaxPort
        /\ cmd[p].origin = {} /\ cmd[p].list = Nothing
        /\ p \notin disturbed => cmd[p].bind = bind
    BY <1>0, <1>4, PortsArePorts DEF GetPort, Unseen, Progress, At, OpenClawTypeOK
  <2>2. /\ c0 \in Command /\ c0.port = ParsePort(port) /\ c0.origin = {} /\ c0.list = Nothing
        /\ c0.adopt = cmd[p].adopt /\ c0.bind = cmd[p].bind
    <3>1. ParsePort(port) \in 0..MaxPort
      BY <2>1, SMT
    <3> QED
      BY <1>0, <2>1, <3>1 DEF Command
  <2>3. s \in {"done", "planned"} /\ (s = "done" => cmd[p].bind = "loopback" /\ cmd[p].adopt = 0)
    BY <2>1, <2>2, PortsArePorts DEF DesiredPort
  <2> HIDE DEF c0, s
  <2>4. /\ c \in Command /\ c.step = s /\ c.port = ParsePort(port) /\ c.bind = cmd[p].bind
        /\ c.origin = {} /\ c.list = Nothing /\ c.adopt = cmd[p].adopt
    BY <2>2, <2>3 DEF Command, Steps
  <2> HIDE DEF c
  <2>5. cmd'[p] = c
    BY <1>0, <2>1 DEF Becomes
  <2>6. Progress(p)'
    BY <2>1, <2>3, <2>4, <2>5 DEF Progress, At
  <2> QED
    BY <1>0, <2>1, <2>4, <2>6, CommandGoesOn DEF OpenClawTypeOK
<1>5. ASSUME NEW p \in Procs, SetBind(p) PROVE OpenClawInv'
  <2> DEFINE c == [cmd[p] EXCEPT !.step = "loopback"]
  <2>1. /\ Becomes(p, c) /\ bind' = "loopback" /\ SeenBy(Procs \ {p}) /\ UNCHANGED <<origins, port>>
        /\ cmd[p].origin = {} /\ cmd[p].list = Nothing /\ cmd[p].adopt \in {0, cmd[p].port}
    BY <1>0, <1>5 DEF SetBind, At, Progress
  <2>2. /\ c \in Command /\ c.step = "loopback" /\ c.origin = {} /\ c.list = Nothing
        /\ c.adopt \in {0, c.port}
    BY <1>0, <2>1 DEF Command, Steps
  <2> HIDE DEF c
  <2>3. cmd'[p] = c
    BY <1>0, <2>1 DEF Becomes
  <2>4. Progress(p)'
    BY <2>1, <2>2, <2>3 DEF Progress, At
  <2> QED
    BY <1>0, <2>1, <2>2, <2>4, CommandGoesOn DEF OpenClawTypeOK, SeenBy, Binds
<1>6. ASSUME NEW p \in Procs, SetPort(p) PROVE OpenClawInv'
  <2> DEFINE c == [cmd[p] EXCEPT !.step = "set"]
  <2>1. /\ Becomes(p, c) /\ port' = DesiredPort(cmd[p]) /\ SeenBy(Procs \ {p})
        /\ UNCHANGED <<origins, bind>> /\ cmd[p].origin = {} /\ cmd[p].list = Nothing
        /\ p \notin disturbed => bind = "loopback"
        /\ At(p, "loopback") /\ port' \in 0..MaxPort
    BY <1>0, <1>6, PortsArePorts DEF SetPort, At, Progress
  <2>2. c \in Command /\ c.step = "set" /\ c.origin = {} /\ c.adopt = cmd[p].adopt
    BY <1>0, <2>1 DEF Command, Steps
  <2>3. c.adopt # 0 => port' = AdoptedUpstreamPort(c.adopt)
    BY <2>1, <2>2 DEF DesiredPort
  <2>4. p \in disturbed => p \in disturbed'
    BY <2>1 DEF SeenBy
  <2> HIDE DEF c
  <2>5. cmd'[p] = c
    BY <1>0, <2>1 DEF Becomes
  <2>6. Progress(p)'
    BY <2>1, <2>2, <2>3, <2>4, <2>5 DEF Progress, At
  <2> QED
    BY <1>0, <2>1, <2>2, <2>6, CommandGoesOn DEF OpenClawTypeOK, SeenBy
<1>7. ASSUME NEW p \in Procs, Validate(p) PROVE OpenClawInv'
  <2> DEFINE c == [cmd[p] EXCEPT !.step = "done"]
  <2>1. Becomes(p, c) /\ UNCHANGED <<config, disturbed>> /\ At(p, "set") /\ Progress(p)
    BY <1>0, <1>7 DEF Validate, Unseen
  <2>2. /\ c \in Command /\ c.step = "done" /\ c.origin = cmd[p].origin
        /\ c.adopt = cmd[p].adopt /\ c.list = cmd[p].list
    BY <1>0 DEF Command, Steps
  <2> HIDE DEF c
  <2>3. cmd'[p] = c
    BY <1>0, <2>1 DEF Becomes
  <2>4. Progress(p)'
    BY <2>1, <2>2, <2>3 DEF Progress, At
  <2> QED
    BY <1>0, <2>1, <2>2, <2>4, CommandGoesOn DEF OpenClawTypeOK
<1>8. ASSUME NEW p \in Procs, Exit(p) \/ Stop(p) PROVE OpenClawInv'
  <2>1. Becomes(p, Idle) /\ UNCHANGED <<config, disturbed>>
    BY <1>8 DEF Exit, Stop, Unseen
  <2>2. cmd'[p] = Idle /\ Idle.step = "idle"
    BY <1>0, <2>1 DEF Becomes, Idle
  <2>3. Progress(p)'
    BY <2>2 DEF Progress, At
  <2> QED
    BY <1>0, <2>1, <2>3, IdleCommand, CommandGoesOn DEF OpenClawTypeOK
<1>9. CASE Edit
  <2>1. OpenClawTypeOK'
    BY <1>0, <1>9, OpenClawAssumption DEF Edit, SeenBy, OpenClawTypeOK
  <2>2. ASSUME NEW p \in Procs PROVE Progress(p)'
    <3>1. cmd' = cmd /\ Progress(p) /\ (p \in disturbed' \/ cmd[p].step = "idle")
      BY <1>0, <1>9 DEF Edit, SeenBy, Working, At
    <3> QED
      BY <3>1 DEF Progress, At
  <2> QED
    BY <2>1, <2>2 DEF OpenClawInv
<1>10. CASE UNCHANGED openClawVars
  BY <1>10 DEF openClawVars, OpenClawInv, OpenClawTypeOK, Progress, At
<1> QED
  BY <1>1, <1>2, <1>3, <1>4, <1>5, <1>6, <1>7, <1>8, <1>9, <1>10 DEF OpenClawNext, Integrate

LEMMA OpenClawInitInv == OpenClawInit => OpenClawInv
<1> SUFFICES ASSUME OpenClawInit PROVE OpenClawInv
  OBVIOUS
<1>1. OpenClawTypeOK
  BY IdleCommand DEF OpenClawInit, OpenClawTypeOK, Command, Steps
<1>2. \A p \in Procs : Progress(p)
  BY DEF OpenClawInit, Progress, At, Idle
<1> QED
  BY <1>1, <1>2 DEF OpenClawInv

\* What is configured and what commands have in hand keeps to its type: no
\* repair moves the gateway to a number that is no port.
THEOREM OpenClawTypeCorrect == OpenClawSpec => []OpenClawTypeOK
<1>1. OpenClawInv => OpenClawTypeOK
  BY DEF OpenClawInv
<1> QED
  BY <1>1, OpenClawInitInv, OpenClawStep, PTL DEF OpenClawSpec

\* For any number of overlapping commands, failures and edits: success is
\* reported to a command nobody has disturbed only when the gateway is as the
\* command was asked to leave it.
THEOREM ReportsHold == OpenClawSpec => []ReportsAreTrue
<1>1. OpenClawInv => ReportsAreTrue
  BY DEF OpenClawInv, Progress, ReportsAreTrue, At
<1> QED
  BY <1>1, OpenClawInitInv, OpenClawStep, PTL DEF OpenClawSpec

\* A command that is not outdated changes one thing and takes nothing away.
THEOREM EditsAreSingle == OpenClawSpec => EachChangeIsOneEdit
<1> DEFINE Edited ==
      \/ cmd' = cmd
      \/ \E p \in Procs : Outdated(p) /\ cmd'[p] # cmd[p]
      \/ /\ \/ origins' = origins
            \/ origins # Unreadable /\ \E o \in Origins : origins' = AppendUnique(origins, {o})
         /\ bind' \in {bind, "loopback"}
         /\ \/ port' \in {port, ParsePort(port)}
            \/ \E a \in Adopted : ParsePort(port) = a /\ port' = AdoptedUpstreamPort(a)
<1>1. ASSUME OpenClawInv, [OpenClawNext]_openClawVars PROVE [Edited]_openClawVars
  <2>0. /\ DOMAIN cmd = Procs
        /\ \A p \in Procs : cmd[p] \in Command /\ Progress(p)
    BY <1>1 DEF OpenClawInv, OpenClawTypeOK, Command, Steps
  <2>1. CASE UNCHANGED config
    BY <2>1 DEF config
  <2>2. ASSUME NEW p \in Procs, SetOrigins(p) PROVE Edited
    <3>1. PICK o \in Origins : cmd[p].origin = {o} /\ origins' = AppendUnique(cmd[p].list, {o})
      BY <2>0, <2>2 DEF SetOrigins, At, Progress
    <3>2. cmd'[p] # cmd[p] /\ UNCHANGED <<bind, port>> /\ cmd[p].list # Unreadable
      BY <2>0, <2>2, UnreadableAssumption DEF SetOrigins, At, Becomes, Command
    <3>3. CASE cmd[p].list = origins
      BY <3>1, <3>2, <3>3
    <3>4. CASE cmd[p].list # origins
      BY <2>2, <3>2, <3>4 DEF SetOrigins, Outdated
    <3> QED
      BY <3>3, <3>4
  <2>3. ASSUME NEW p \in Procs, SetBind(p) PROVE Edited
    BY <2>3 DEF SetBind
  <2>4. ASSUME NEW p \in Procs, SetPort(p) PROVE Edited
    <3>1. /\ cmd'[p] # cmd[p] /\ UNCHANGED <<bind, origins>> /\ port' = DesiredPort(cmd[p])
          /\ cmd[p].adopt \in {0, cmd[p].port} /\ cmd[p].adopt \in Adopted \union {0}
      BY <2>0, <2>4 DEF SetPort, At, Becomes, Command, Progress
    <3>2. CASE cmd[p].port = ParsePort(port)
      BY <3>1, <3>2 DEF DesiredPort
    <3>3. CASE cmd[p].port # ParsePort(port)
      BY <2>4, <3>1, <3>3 DEF SetPort, Outdated
    <3> QED
      BY <3>2, <3>3
  <2>5. CASE Edit
    BY <2>5 DEF Edit
  <2>6. ASSUME NEW p \in Procs, Integrate(p), config' # config
        PROVE  SetOrigins(p) \/ SetBind(p) \/ SetPort(p)
    BY <2>6 DEF Integrate, GetOrigins, GetBind, GetPort, Validate, Exit, Stop, Unseen
  <2> HIDE DEF Edited
  <2> QED
    BY <1>1, <2>1, <2>2, <2>3, <2>4, <2>5, <2>6 DEF OpenClawNext, openClawVars
<1> QED
  BY <1>1, OpenClawInitInv, OpenClawStep, PTL DEF OpenClawSpec, EachChangeIsOneEdit
=============================================================================
