------------------------- MODULE SetupCommands_proofs -------------------------
(***************************************************************************)
(* Proofs about the commands around a setup.  PendingSetup: for any number *)
(* of overlapping `new` commands, any command lines, sites and ports.      *)
(* HostCommands: for any number of preflights, commits and wards on a      *)
(* host.                                                                   *)
(***************************************************************************)
EXTENDS PendingSetup, HostCommands, TLAPS

(* PendingSetup.                                                            *)

\* What the merge has derived from other settings.
Derived(r) ==
  r.ingressMode = "standalone" => r.publicPort = r.listenPort /\ r.trustedProxies = "none"

\* A setup that RunE lets through.
Saveable(r) == Setup(r) /\ Derived(r) /\ Sound(r)

\* A setup that is still to be saved.
Working(p) == cmd[p].step \in {"merged", "submitting"}

SetupsSound ==
  /\ pending # NoSetup => Saveable(pending)
  /\ \A p \in Procs : Working(p) => Saveable(cmd[p].merged)

\* The memory of PreRunE's verdict, and what it comes to.
VerdictsKept ==
  /\ \A p \in Procs : cmd[p].step = "checked" => Accepted(cmd[p].seen, cmd[p].flags)
  /\ ~raced =>
       /\ pending # NoSetup => Accepted(pending, NoFlags)
       /\ \A p \in Procs : Working(p) => Accepted(cmd[p].merged, NoFlags)

IInv == TypeOK /\ SetupsSound /\ VerdictsKept

------------------------------------------------------------------------------
(* The operators.                                                           *)

LEMMA SettingNames ==
  /\ Settings = {"site", "spec", "domainType", "domain", "ingressMode", "publicPort",
                 "listenPort", "listenHost", "trustedProxies", "upstreamMode", "command"}
  /\ DOMAIN Default = Settings \ {"publicPort"}
  BY DEF Settings, Values, Default

LEMMA NoFlagsProper == Proper(NoFlags) /\ DOMAIN NoFlags = {} /\ ~Setup(NoSetup)
  BY SettingNames DEF Proper, NoFlags, NoSetup, Setup

\* The value of a setting under flags is one of its values, and for the site
\* perhaps None.
LEMMA WithProper ==
  ASSUME NEW s, NEW f, Proper(f), s = NoSetup \/ Setup(s), NEW x \in Settings \ {"publicPort"}
  PROVE  With(s, f, x) \in Values[x] \/ (x = "site" /\ With(s, f, x) = None)
<1>1. CASE x \in DOMAIN f
  BY <1>1 DEF With, Proper
<1>2. CASE x \notin DOMAIN f /\ Setup(s)
  BY <1>2 DEF With, Proper, Setup
<1>3. CASE x \notin DOMAIN f /\ s = NoSetup
  <2>1. With(s, f, x) = Default[x]
    BY <1>3 DEF With, NoSetup
  <2>2. QED
    BY <2>1, SettingNames, ConstantsAssumption DEF Default, Values
<1>4. QED
  BY <1>1, <1>2, <1>3

LEMMA DerivedValues ==
  ASSUME NEW s, NEW f, Proper(f), s = NoSetup \/ Setup(s)
  PROVE  /\ MergedPublicPort(s, f) \in Ports
         /\ Command(s, f) \in {"none", "some"}
<1>1. With(s, f, "listenPort") \in Ports /\ With(s, f, "command") \in {"none", "some"}
  BY WithProper, SettingNames DEF Values
<1>2. /\ "publicPort" \in DOMAIN f => f.publicPort \in Ports
      /\ "publicPort" \in DOMAIN s => s.publicPort \in Ports
  BY NoFlagsProper DEF Proper, Setup, Values, NoFlags, NoSetup
<1>3. QED
  BY <1>1, <1>2, ConstantsAssumption DEF MergedPublicPort, Command

\* The fields of a merged setup.
LEMMA MergeFields ==
  ASSUME NEW s, NEW f
  PROVE  LET r == Merge(s, f) IN
         /\ DOMAIN r = Settings
         /\ r.publicPort = MergedPublicPort(s, f)
         /\ r.command = Command(s, f)
         /\ r.trustedProxies = IF With(s, f, "ingressMode") = "standalone" THEN "none"
                               ELSE With(s, f, "trustedProxies")
         /\ \A x \in Settings \ {"publicPort", "command", "trustedProxies"} : r[x] = With(s, f, x)
  BY SettingNames DEF Merge

LEMMA MergeIsSetup ==
  ASSUME NEW s, NEW f, Proper(f), s = NoSetup \/ Setup(s), With(s, f, "site") # None
  PROVE  Setup(Merge(s, f)) /\ Derived(Merge(s, f))
<1> DEFINE r == Merge(s, f)
<1>1. Derived(r)
  BY MergeFields, SettingNames DEF Derived, MergedPublicPort
<1>2. ASSUME NEW x \in Settings PROVE r[x] \in Values[x]
  <2>1. CASE x \in {"publicPort", "command", "trustedProxies"}
    BY <2>1, MergeFields, DerivedValues, WithProper, SettingNames DEF Values
  <2>2. CASE x \notin {"publicPort", "command", "trustedProxies"}
    BY <2>2, MergeFields, WithProper, SettingNames
  <2>3. QED
    BY <2>1, <2>2
<1>3. r = [x \in Settings |-> r[x]] /\ DOMAIN r = Settings
  BY MergeFields DEF Merge
<1>4. QED
  BY <1>1, <1>2, <1>3 DEF Setup, Proper

\* Without flags a setup is what it is.
LEMMA WithNoFlags ==
  ASSUME NEW r, Setup(r)
  PROVE  /\ \A x \in Settings : With(r, NoFlags, x) = r[x]
         /\ EffectivePublicPort(r, NoFlags) = r.publicPort
         /\ Command(r, NoFlags) = r.command
  BY NoFlagsProper, SettingNames DEF With, Setup, EffectivePublicPort, Command

LEMMA MergeAgain ==
  ASSUME NEW r, Setup(r), Derived(r)
  PROVE  Merge(r, NoFlags) = r
<1>1. r = [x \in Settings |-> r[x]]
  BY DEF Setup
<1> DEFINE q == Merge(r, NoFlags)
<1>2. \A x \in Settings : q[x] = r[x]
  BY MergeFields, WithNoFlags, NoFlagsProper, SettingNames DEF MergedPublicPort, Derived, Setup
<1>3. q = [x \in Settings |-> q[x]]
  BY MergeFields DEF Merge
<1>4. QED
  BY <1>1, <1>2, <1>3

\* What both validations have accepted is accepted again without flags.
LEMMA MergeIsAccepted ==
  ASSUME NEW s, NEW f, Proper(f), s = NoSetup \/ Setup(s), With(s, f, "site") # None,
         Accepted(s, f), Sound(Merge(s, f))
  PROVE  Accepted(Merge(s, f), NoFlags)
<1> DEFINE r == Merge(s, f)
<1>1. Setup(r) /\ Derived(r)
  BY MergeIsSetup
<1>2. /\ r.spec = With(s, f, "spec") /\ r.domainType = With(s, f, "domainType")
      /\ r.upstreamMode = With(s, f, "upstreamMode") /\ r.command = Command(s, f)
  BY MergeFields, SettingNames
<1>3. /\ \A x \in Settings : With(r, NoFlags, x) = r[x]
      /\ EffectivePublicPort(r, NoFlags) = r.publicPort
      /\ Command(r, NoFlags) = r.command
  BY <1>1, WithNoFlags
<1>4. /\ IngressFits(r.ingressMode, r.publicPort, r.listenPort, r.listenHost, r.trustedProxies)
      /\ ModeFits(r.ingressMode, r.domainType)
      /\ r.spec = "pro" => DomainFits(r.site, r.domainType, r.domain)
  BY DEF Sound
<1>5. /\ r.spec = "starter" => r.domainType = "platform_subdomain"
      /\ r.upstreamMode = "managed" <=> r.command = "some"
  BY <1>2 DEF Accepted
<1>6. "publicPort" \notin DOMAIN NoFlags /\ "domain" \notin DOMAIN NoFlags
  BY NoFlagsProper
<1>7. QED
  BY <1>3, <1>4, <1>5, <1>6, SettingNames DEF Accepted

\* The domain the platform answers with for starter.
Assigned(r) == [r EXCEPT !.domain = IF r.spec = "starter" THEN r.site ELSE @]

LEMMA AssignedIsSaveable ==
  ASSUME NEW r, Saveable(r)
  PROVE  /\ Saveable(Assigned(r))
         /\ Accepted(r, NoFlags) => Accepted(Assigned(r), NoFlags)
<1> DEFINE q == Assigned(r)
<1>1. DOMAIN q = Settings /\ \A x \in Settings \ {"domain"} : q[x] = r[x]
  BY SettingNames DEF Assigned, Saveable, Setup
<1>2. q.domain = IF r.spec = "starter" THEN r.site ELSE r.domain
  BY SettingNames DEF Assigned, Saveable, Setup
<1>3. q.domain \in Values["domain"]
  BY <1>2, SettingNames DEF Saveable, Setup, Proper, Values
<1>4. Setup(q)
  <2>1. q = [x \in Settings |-> q[x]]
    BY <1>1 DEF Assigned
  <2>2. \A x \in Settings : q[x] \in Values[x]
    BY <1>1, <1>3 DEF Saveable, Setup, Proper
  <2>3. QED
    BY <1>1, <2>1, <2>2 DEF Setup, Proper
<1>5. Derived(q) /\ Sound(q)
  BY <1>1, <1>2, SettingNames DEF Saveable, Derived, Sound
<1>6. ASSUME Accepted(r, NoFlags) PROVE Accepted(q, NoFlags)
  BY <1>1, <1>2, <1>4, <1>5, <1>6, WithNoFlags, NoFlagsProper, SettingNames
     DEF Accepted, Saveable, Sound
<1>7. QED
  BY <1>4, <1>5, <1>6 DEF Saveable

------------------------------------------------------------------------------
(* The invariant.                                                           *)

LEMMA IdleOK == CommandOK(Idle) /\ Idle.step = "idle"
  BY NoFlagsProper DEF CommandOK, Idle, NoFlags

LEMMA InitIInv == Init => IInv
  BY IdleOK DEF Init, IInv, TypeOK, SetupsSound, VerdictsKept, Working

\* A step of the command p that leaves the setup and the history alone, or
\* replaces the setup by one as good, keeps the invariant.
LEMMA CommandStep ==
  ASSUME IInv, NEW p \in Procs, NEW c, CommandOK(c), cmd' = [cmd EXCEPT ![p] = c],
         raced' \in BOOLEAN, raced => raced',
         pending' = NoSetup \/ Saveable(pending'),
         ~raced' /\ pending' # NoSetup => Accepted(pending', NoFlags),
         c.step = "checked" => Accepted(c.seen, c.flags),
         c.step \in {"merged", "submitting"} => Saveable(c.merged),
         ~raced' /\ c.step \in {"merged", "submitting"} => Accepted(c.merged, NoFlags)
  PROVE  IInv'
<1>1. DOMAIN cmd' = Procs /\ \A q \in Procs : cmd'[q] = IF q = p THEN c ELSE cmd[q]
  BY DEF IInv, TypeOK
<1>2. TypeOK'
  BY <1>1 DEF IInv, TypeOK, Saveable
<1>3. SetupsSound'
  BY <1>1 DEF IInv, SetupsSound, Working
<1>4. VerdictsKept'
  BY <1>1 DEF IInv, VerdictsKept, Working
<1>5. QED
  BY <1>2, <1>3, <1>4 DEF IInv

\* The part of the invariant that a step reads.
LEMMA Now ==
  ASSUME IInv, NEW p \in Procs
  PROVE  /\ CommandOK(cmd[p])
         /\ raced \in BOOLEAN
         /\ pending = NoSetup \/ Saveable(pending)
         /\ ~raced /\ pending # NoSetup => Accepted(pending, NoFlags)
         /\ cmd[p].step = "checked" => Accepted(cmd[p].seen, cmd[p].flags)
         /\ Working(p) => Saveable(cmd[p].merged)
         /\ ~raced /\ Working(p) => Accepted(cmd[p].merged, NoFlags)
  BY DEF IInv, TypeOK, SetupsSound, VerdictsKept

LEMMA NextIInv == IInv /\ [Next]_vars => IInv'
<1> SUFFICES ASSUME IInv, [Next]_vars PROVE IInv'
  OBVIOUS
<1>1. CASE UNCHANGED vars
  BY <1>1 DEF vars, IInv, TypeOK, SetupsSound, VerdictsKept, Working
<1>2. ASSUME NEW p \in Procs, NEW f \in CommandLines, NEW c \in BOOLEAN, Check(p, f, c)
      PROVE  IInv'
  <2> DEFINE d == [Idle EXCEPT !.step = "checked", !.flags = f, !.commit = c, !.seen = pending]
  <2>1. /\ d.step = "checked" /\ d.flags = f /\ d.commit = c /\ d.seen = pending
        /\ d.had = FALSE /\ d.merged = NoSetup
        /\ DOMAIN d = {"step", "flags", "commit", "seen", "had", "merged"}
    BY DEF Idle
  <2>2. Proper(f)
    BY ConstantsAssumption
  <2>3. CommandOK(d)
    BY <2>1, <2>2, Now DEF CommandOK, Saveable
  <2>4. QED
    BY <1>2, <2>1, <2>3, Now, CommandStep DEF Check
<1>3. ASSUME NEW p \in Procs, LoadAndMerge(p) PROVE IInv'
  <2> DEFINE r == Merge(pending, cmd[p].flags)
             d == [Idle EXCEPT !.step = "merged", !.commit = cmd[p].commit,
                               !.had = (pending # NoSetup), !.merged = r]
  <2>1. /\ d.step = "merged" /\ d.flags = NoFlags /\ d.commit = cmd[p].commit
        /\ d.seen = NoSetup /\ d.had = (pending # NoSetup) /\ d.merged = r
        /\ DOMAIN d = {"step", "flags", "commit", "seen", "had", "merged"}
    BY DEF Idle
  <2>2. Proper(cmd[p].flags) /\ cmd[p].commit \in BOOLEAN
    BY Now DEF CommandOK
  <2>3. pending = NoSetup \/ Setup(pending)
    BY Now DEF Saveable
  <2>4. Saveable(r)
    BY <1>3, <2>2, <2>3, MergeIsSetup DEF LoadAndMerge, Saveable
  <2>5. CommandOK(d)
    BY <2>1, <2>2, <2>4, NoFlagsProper DEF CommandOK, Saveable
  <2>6. ASSUME ~raced' PROVE Accepted(r, NoFlags)
    <3>1. Accepted(pending, cmd[p].flags)
      BY <1>3, <2>6, Now DEF LoadAndMerge
    <3>2. QED
      BY <1>3, <2>2, <2>3, <3>1, MergeIsAccepted DEF LoadAndMerge
  <2>7. raced' \in BOOLEAN /\ (raced => raced') /\ UNCHANGED pending
    BY <1>3, Now DEF LoadAndMerge
  <2>8. QED
    BY <1>3, <2>1, <2>4, <2>5, <2>6, <2>7, Now, CommandStep DEF LoadAndMerge
<1>4. ASSUME NEW p \in Procs, Save(p) PROVE IInv'
  <2> DEFINE d == IF cmd[p].commit THEN [cmd[p] EXCEPT !.step = "submitting"] ELSE Idle
  <2>1. CommandOK(cmd[p]) /\ Working(p) /\ pending' = cmd[p].merged /\ UNCHANGED raced
    BY <1>4, Now DEF Save, Working
  <2>2. cmd' = [cmd EXCEPT ![p] = d]
    BY <1>4 DEF Save
  <2>3. CommandOK(d) /\ ((d.step = "submitting" /\ d.merged = cmd[p].merged) \/ d.step = "idle")
    <3>1. CASE cmd[p].commit
      BY <1>4, <2>1, <3>1 DEF CommandOK, Save
    <3>2. CASE ~cmd[p].commit
      BY <3>2, IdleOK
    <3>3. QED
      BY <3>1, <3>2
  <2>4. QED
    BY <2>1, <2>2, <2>3, Now, CommandStep
<1>5. ASSUME NEW p \in Procs, Submit(p) PROVE IInv'
  <2> DEFINE d == IF cmd[p].had THEN [Idle EXCEPT !.step = "moving"] ELSE Idle
  <2>1. Working(p) /\ pending' = Assigned(cmd[p].merged) /\ UNCHANGED raced
    BY <1>5 DEF Submit, Working, Assigned
  <2>2. Saveable(pending') /\ (~raced => Accepted(pending', NoFlags))
    BY <2>1, Now, AssignedIsSaveable
  <2>3. cmd' = [cmd EXCEPT ![p] = d]
    BY <1>5 DEF Submit
  <2>4. CommandOK(d) /\ d.step \in {"idle", "moving"}
    BY IdleOK, NoFlagsProper DEF CommandOK, Idle, NoFlags
  <2>5. QED
    BY <2>1, <2>2, <2>3, <2>4, Now, CommandStep
<1>6. ASSUME NEW p \in Procs, MoveAway(p) \/ Stop(p) PROVE IInv'
  BY <1>6, IdleOK, Now, CommandStep DEF MoveAway, Stop
<1>7. QED
  BY <1>1, <1>2, <1>3, <1>4, <1>5, <1>6 DEF Next, New

LEMMA Invariance == Spec => []IInv
  BY InitIInv, NextIInv, PTL DEF Spec

\* Setups, on disk or in hand, are complete and of proper values, whatever
\* command lines `warded new` is given.
THEOREM TypeCorrect == Spec => []TypeOK
<1>1. IInv => TypeOK
  BY DEF IInv
<1>2. QED
  BY <1>1, Invariance, PTL

\* The ingress of every pending setup is one serve takes, whatever commands
\* overlap.
THEOREM IngressIsServable == Spec => []ServeTakesIngress
<1>1. IInv => ServeTakesIngress
  BY DEF IInv, SetupsSound, Saveable, Sound, ServeTakesIngress
<1>2. QED
  BY <1>1, Invariance, PTL

\* What could be saved can be committed as it is: PreRunE and RunE agree about
\* every setup and every command line, unless a command is overtaken.
THEOREM SavedCanBeCommitted == Spec => []CommitTakesSetup
<1>1. IInv => CommitTakesSetup
  <2> SUFFICES ASSUME IInv, pending # NoSetup, ~raced
               PROVE  /\ Accepted(pending, NoFlags)
                      /\ Merge(pending, NoFlags) = pending
                      /\ Complete(pending, NoFlags) => Submittable(pending)
    BY DEF CommitTakesSetup
  <2>1. Saveable(pending) /\ Accepted(pending, NoFlags)
    BY DEF IInv, SetupsSound, VerdictsKept
  <2>2. Merge(pending, NoFlags) = pending
    BY <2>1, MergeAgain DEF Saveable
  <2>3. \A x \in Settings : With(pending, NoFlags, x) = pending[x]
    BY <2>1, WithNoFlags DEF Saveable
  <2>4. Complete(pending, NoFlags) => Submittable(pending)
    BY <2>1, <2>3, SettingNames DEF Accepted, Complete, Submittable
  <2>5. QED
    BY <2>1, <2>2, <2>4
<1>2. QED
  BY <1>1, Invariance, PTL

------------------------------------------------------------------------------
(* HostCommands.                                                            *)

LEMMA CommandNames ==
  /\ Serve \notin Commands /\ Other \notin Commands /\ Nobody \notin Commands
  /\ Preflights \subseteq Commands /\ Commits \subseteq Commands
  /\ \A c \in Commands : c \in Preflights <=> c \notin Commits
BY HostAssumption DEF Commands

LEMMA HostTypeStep == HostTypeOK /\ [HostNext]_hostVars => HostTypeOK'
<1> SUFFICES ASSUME HostTypeOK, [HostNext]_hostVars PROVE HostTypeOK'
  OBVIOUS
<1> USE DEF HostTypeOK, sharedVars, commandVars, serviceVars
<1>1. ASSUME NEW c \in Commands, Run(c) PROVE HostTypeOK'
  <2>1. CASE PreflightChecks(c) \/ CommitChecks(c) \/ StartUpstream(c) \/ UpstreamFails(c)
             \/ SaveSetup(c) \/ AskPlatform(c)
    BY <2>1 DEF PreflightChecks, CommitChecks, StartUpstream, UpstreamFails, SaveSetup,
       AskPlatform, Goto, StartChild, StopChild, Ended
  <2>2. CASE FindUpstream(c) \/ UpstreamReady(c)
    BY <2>2 DEF FindUpstream, UpstreamReady, Ready, Ended
  <2>3. CASE PreflightListens(c) \/ CommitListens(c)
    BY <2>3 DEF PreflightListens, CommitListens, Listen, Goto, Ended
  <2>4. CASE PreflightSucceeds(c) \/ CommitSucceeds(c) \/ Fail(c)
    <3>1. \E how \in {"done", "failed"} : Return(c, how)
      BY <2>4 DEF PreflightSucceeds, CommitSucceeds, Fail
    <3>2. /\ stage' \in [Commands -> {"fresh", "checked", "starting", "ready", "saved",
                                      "listening", "asked"} \union Ended]
          /\ port' \in Commands \union {Serve, Other, Nobody}
          /\ child' \in [Commands \union {Serve} -> {"none", "deaf", "listening"}]
      BY <3>1 DEF Return, PortWithout, StopChild, Ended
    <3>3. heard' \in [Commands -> Commands \union {Serve, Nobody}]
      BY <2>4 DEF PreflightSucceeds, CommitSucceeds, Fail, IsReached
    <3>4. entry' \in [Setups -> {"none", "draft", "ward"}]
      BY <2>4 DEF PreflightSucceeds, CommitSucceeds, Fail
    <3>5. UNCHANGED <<others, deferred, serviceVars>>
      BY <2>4 DEF PreflightSucceeds, CommitSucceeds, Fail
    <3> QED
      BY <3>2, <3>3, <3>4, <3>5
  <2> QED
    BY <1>1, <2>1, <2>2, <2>3, <2>4 DEF Run, Preflight, Commit
<1>2. ASSUME NEW c \in Commands, Killed(c) PROVE HostTypeOK'
  BY <1>2 DEF Killed, PortWithout, Ended
<1>3. CASE Integrate
  BY <1>3 DEF Integrate, ResolveWard, WriteUnit, Reload, EnableNow, IntegrateEnds
<1>4. CASE Service
  BY <1>4 DEF Service, Restart, LoadWard, Prepare, PrepareFound, PrepareStarts, AfterStart,
     PrepareReady, PrepareGivesUp, Bind, Revive, AfterRevival, ReviveReady, ReviveGivesUp,
     ServeEnds, ServeGoes, StartChild, StopChild, Listen, PortWithout
<1>5. ASSUME NEW s \in Setups, Claim(s) PROVE HostTypeOK'
  BY <1>5 DEF Claim
<1>6. ASSUME NEW p \in Commands \union {Serve}, ChildListens(p) \/ ChildEnds(p) PROVE HostTypeOK'
  BY <1>6 DEF ChildListens, ChildEnds, StopChild
<1>7. CASE OtherListens \/ OtherLeaves
  BY <1>7, HostAssumption DEF OtherListens, OtherLeaves, Listen
<1>8. CASE Reboot
  BY <1>8 DEF Reboot, Ended
<1>9. CASE UNCHANGED hostVars
  BY <1>9 DEF hostVars
<1> QED
  BY <1>1, <1>2, <1>3, <1>4, <1>5, <1>6, <1>7, <1>8, <1>9 DEF HostNext

\* Every variable of the host keeps to its type, and the service runs only
\* when its unit is enabled.
THEOREM HostTypeCorrect == HostSpec => []HostTypeOK
<1>1. HostInit => HostTypeOK
  BY HostAssumption DEF HostInit, HostTypeOK, Ended
<1> QED
  BY <1>1, HostTypeStep, PTL DEF HostSpec

\* A command has an upstream of its own only once it has looked for one; the
\* preflight has deferred its Shutdown wherever it can return from.
UpstreamsOwned ==
  \A c \in Commands :
    /\ stage[c] \in {"fresh", "checked"} => child[c] = "none"
    /\ stage[c] \in {"ready", "listening", "asked"} => c \in Commits \union deferred
    /\ stage[c] = "saved" => c \in Commits

\* The port belongs to the command that awaits the probe, until it returns.
PortHeld == \A c \in Commands : stage[c] \in {"listening", "asked"} => port = c

HostInv == UpstreamsOwned /\ PortHeld /\ LeftBehind /\ OwnAnswer

\* What happens around the commands takes no port from them and hands them no
\* upstream.
LEMMA AroundCommands ==
  ASSUME HostTypeOK, HostInv, UNCHANGED commandVars,
         \A c \in Commands : child'[c] # "none" => child[c] # "none",
         \A c \in Commands : port = c => port' = c
  PROVE  HostInv'
BY DEF HostInv, UpstreamsOwned, PortHeld, LeftBehind, OwnAnswer, commandVars

\* A step of one command: the others keep what they have.
LEMMA OneCommand ==
  ASSUME HostTypeOK, HostInv, NEW c \in Commands,
         \A d \in Commands \ {c} : /\ stage'[d] = stage[d] /\ child'[d] = child[d]
                                   /\ heard'[d] = heard[d] /\ (d \in deferred' <=> d \in deferred)
                                   /\ port = d => port' = d,
         stage'[c] \in {"fresh", "checked"} => child'[c] = "none",
         stage'[c] \in {"ready", "listening", "asked"} => c \in Commits \union deferred',
         stage'[c] = "saved" => c \in Commits,
         stage'[c] \in {"listening", "asked"} => port' = c,
         child'[c] # "none" /\ stage'[c] \in {"done", "failed"} => c \in Commits /\ c \notin deferred',
         heard'[c] \in {c, Nobody}
  PROVE  HostInv'
BY DEF HostInv, UpstreamsOwned, PortHeld, LeftBehind, OwnAnswer

LEMMA HostInitInv == HostInit => HostTypeOK /\ HostInv
<1>1. HostInit => HostTypeOK
  BY HostAssumption DEF HostInit, HostTypeOK, Ended
<1>2. HostInit => HostInv
  BY DEF HostInit, HostInv, UpstreamsOwned, PortHeld, LeftBehind, OwnAnswer
<1> QED
  BY <1>1, <1>2

LEMMA HostStep == HostTypeOK /\ HostInv /\ [HostNext]_hostVars => HostInv'
<1> SUFFICES ASSUME HostTypeOK, HostInv, [HostNext]_hostVars PROVE HostInv'
  OBVIOUS
<1> USE DEF sharedVars, commandVars, serviceVars
<1>1. ASSUME NEW c \in Commands, Run(c) \/ Killed(c) PROVE HostInv'
  <2>0. /\ stage[c] \in {"fresh", "checked"} => child[c] = "none"
        /\ stage[c] \in {"ready", "listening", "asked"} => c \in Commits \union deferred
        /\ stage[c] = "saved" => c \in Commits
        /\ stage[c] \in {"listening", "asked"} => port = c
        /\ heard[c] \in {c, Nobody}
        /\ Nobody \notin Commands
    BY CommandNames DEF HostInv, UpstreamsOwned, PortHeld, OwnAnswer
  <2>1. CASE PreflightChecks(c) \/ CommitChecks(c) \/ SaveSetup(c) \/ AskPlatform(c)
    BY <2>0, <2>1, OneCommand
    DEF PreflightChecks, CommitChecks, SaveSetup, AskPlatform, Goto, HostTypeOK
  <2>2. CASE StartUpstream(c) \/ UpstreamFails(c)
    BY <2>0, <2>2, OneCommand, CommandNames
    DEF StartUpstream, UpstreamFails, Goto, StartChild, StopChild, HostTypeOK
  <2>3. CASE FindUpstream(c) \/ UpstreamReady(c)
    <3>1. c \in Commits \union deferred'
      BY <2>3, CommandNames DEF FindUpstream, UpstreamReady, Ready, DefersOnReady
    <3>2. /\ stage' = [stage EXCEPT ![c] = "ready"] /\ UNCHANGED <<port, child, heard>>
          /\ \A d \in Commands \ {c} : d \in deferred' <=> d \in deferred
      BY <2>3 DEF FindUpstream, UpstreamReady, Ready
    <3> QED
      BY <2>0, <3>1, <3>2, OneCommand DEF HostTypeOK
  <2>4. CASE PreflightListens(c) \/ CommitListens(c)
    <3>1. /\ stage' = [stage EXCEPT ![c] = "listening"] /\ port = Nobody /\ port' = c
          /\ UNCHANGED <<child, heard>> /\ c \in Commits \union deferred'
          /\ \A d \in Commands \ {c} : d \in deferred' <=> d \in deferred
      BY <2>0, <2>4 DEF PreflightListens, CommitListens, Goto, Listen, PortIsFree
    <3> QED
      BY <2>0, <3>1, OneCommand DEF HostTypeOK
  <2>5. CASE PreflightSucceeds(c) \/ CommitSucceeds(c) \/ Fail(c)
    <3>1. PICK how \in {"done", "failed"} : Return(c, how)
      BY <2>5 DEF PreflightSucceeds, CommitSucceeds, Fail
    <3>2. /\ stage' = [stage EXCEPT ![c] = how] /\ deferred' = deferred
          /\ \A d \in Commands \ {c} : child'[d] = child[d] /\ (port = d => port' = d)
          /\ c \in deferred => child'[c] = "none"
          /\ c \notin deferred => child'[c] = child[c]
      BY <2>5, <3>1 DEF PreflightSucceeds, CommitSucceeds, Fail, Return, StopChild, PortWithout, HostTypeOK
    <3>3. child'[c] # "none" => c \in Commits /\ c \notin deferred'
      <4>1. stage[c] \in {"fresh", "checked", "ready", "saved", "listening", "asked"}
        BY <2>5 DEF PreflightSucceeds, CommitSucceeds, Fail, HostTypeOK, Ended
      <4> QED
        BY <2>0, <3>2, <4>1
    <3>4. heard'[c] \in {c, Nobody} /\ \A d \in Commands \ {c} : heard'[d] = heard[d]
      BY <2>0, <2>5 DEF PreflightSucceeds, CommitSucceeds, Fail, IsReached, HostTypeOK
    <3> QED
      BY <3>2, <3>3, <3>4, OneCommand DEF HostTypeOK
  <2>6. CASE Killed(c)
    BY <2>0, <2>6, OneCommand DEF Killed, PortWithout, HostTypeOK
  <2> QED
    BY <1>1, <2>1, <2>2, <2>3, <2>4, <2>5, <2>6 DEF Run, Preflight, Commit
<1>2. CASE Integrate \/ \E s \in Setups : Claim(s)
  BY <1>2, AroundCommands
  DEF Integrate, ResolveWard, WriteUnit, Reload, EnableNow, IntegrateEnds, Claim
<1>3. CASE Service
  <2>1. UNCHANGED commandVars
    BY <1>3 DEF Service, Restart, LoadWard, Prepare, PrepareFound, PrepareStarts, AfterStart,
       PrepareReady, PrepareGivesUp, Bind, Revive, AfterRevival, ReviveReady, ReviveGivesUp, ServeEnds
  <2>2. \A c \in Commands : child'[c] = child[c]
    BY <1>3, CommandNames DEF Service, Restart, LoadWard, Prepare, PrepareFound, PrepareStarts,
       AfterStart, PrepareReady, PrepareGivesUp, Bind, Revive, AfterRevival, ReviveReady,
       ReviveGivesUp, ServeEnds, StartChild, StopChild, HostTypeOK
  <2>3. \A c \in Commands : port = c => port' = c
    BY <1>3, CommandNames DEF Service, Restart, LoadWard, Prepare, PrepareFound, PrepareStarts,
       AfterStart, PrepareReady, PrepareGivesUp, Bind, Revive, AfterRevival, ReviveReady,
       ReviveGivesUp, ServeEnds, Listen, PortIsFree, PortWithout
  <2> QED
    BY <2>1, <2>2, <2>3, AroundCommands
<1>4. ASSUME NEW p \in Commands \union {Serve}, ChildListens(p) \/ ChildEnds(p) PROVE HostInv'
  <2>1. UNCHANGED <<port, commandVars>> /\ \A c \in Commands : child'[c] # "none" => child[c] # "none"
    BY <1>4 DEF ChildListens, ChildEnds, StopChild, HostTypeOK
  <2> QED
    BY <2>1, AroundCommands
<1>5. CASE OtherListens \/ OtherLeaves
  BY <1>5, CommandNames, AroundCommands DEF OtherListens, OtherLeaves, Listen, PortIsFree
<1>6. CASE Reboot
  <2>1. \A c \in Commands : /\ stage'[c] \notin {"fresh", "killed"} => stage'[c] \in Ended
                            /\ child'[c] = "none"
    BY <1>6 DEF Reboot, HostTypeOK, Ended
  <2>2. UNCHANGED <<deferred, heard>>
    BY <1>6 DEF Reboot
  <2> QED
    BY <2>1, <2>2 DEF HostInv, UpstreamsOwned, PortHeld, LeftBehind, OwnAnswer, Ended
<1>7. CASE UNCHANGED hostVars
  BY <1>7, AroundCommands DEF hostVars
<1> QED
  BY <1>1, <1>2, <1>3, <1>4, <1>5, <1>6, <1>7 DEF HostNext

\* Whatever fails and whoever is killed: no preflight and no `new --commit`
\* that had come to listen leaves an upstream behind when it returns.
THEOREM UpstreamsAreStopped == HostSpec => []LeftBehind
<1>1. HostInit => HostTypeOK /\ HostInv
  BY HostInitInv
<1>2. (HostTypeOK /\ HostInv) /\ [HostNext]_hostVars => (HostTypeOK /\ HostInv)'
  BY HostTypeStep, HostStep
<1>3. HostInv => LeftBehind
  BY DEF HostInv
<1> QED
  BY <1>1, <1>2, <1>3, PTL DEF HostSpec

\* With any number of commands on a host the probe of the platform never
\* reaches another listener than that of the command that asked for it.
THEOREM ProbesReachTheirOwn == HostSpec => []OwnAnswer
<1>1. HostInit => HostTypeOK /\ HostInv
  BY HostInitInv
<1>2. (HostTypeOK /\ HostInv) /\ [HostNext]_hostVars => (HostTypeOK /\ HostInv)'
  BY HostTypeStep, HostStep
<1>3. HostInv => OwnAnswer
  BY DEF HostInv
<1> QED
  BY <1>1, <1>2, <1>3, PTL DEF HostSpec
=============================================================================
