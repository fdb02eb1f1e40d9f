---------------------------- MODULE PendingSetup ----------------------------
(***************************************************************************)
(* The pending setup that `warded new` edits (internal/cmd/new.go): eleven *)
(* settings that depend on each other, changed by one command line after   *)
(* the other.  A command loads the setup and validates what its flags      *)
(* would make of it (PreRunE), loads it again, merges the flags and        *)
(* validates once more, though not everything (RunE), and saves; with      *)
(* --commit it then submits the setup to the platform.                     *)
(*                                                                         *)
(* A command line is a function from the flags it gives to their values,   *)
(* and a setup is one that is defined for every setting, or for none when  *)
(* there is no setup.  Values that are refused whatever the setup is (a    *)
(* port above 65535) are left out, and so are the ids and secrets of       *)
(* drafts, which DraftActivation follows.                                  *)
(***************************************************************************)
CONSTANTS
  Procs,         \* `new` commands that can run together
  Sites,         \* the sites of the platform
  Ports,         \* port numbers
  DefaultPort,   \* 443
  CommandLines,  \* the command lines given
  None           \* no domain, no site

\* What each setting can be.  A domain below the base domain of a site goes
\* by the name of the site.
Values ==
  [site           |-> Sites,
   spec           |-> {"starter", "pro"},
   domainType     |-> {"platform_subdomain", "custom_domain"},
   domain         |-> Sites \union {"own", None},
   ingressMode    |-> {"standalone", "behind_proxy"},
   publicPort     |-> Ports,
   listenPort     |-> Ports,
   listenHost     |-> {"any", "loopback"},
   trustedProxies |-> {"none", "some"},
   upstreamMode   |-> {"daemon", "managed"},
   command        |-> {"none", "some"}]

Settings == DOMAIN Values

Proper(f) == DOMAIN f \subseteq Settings /\ \A x \in DOMAIN f : f[x] \in Values[x]

NoSetup == [x \in {} |-> None]
NoFlags == NoSetup

Setup(s) == s = [x \in Settings |-> s[x]] /\ DOMAIN s = Settings /\ Proper(s)

ASSUME ConstantsAssumption ==
  /\ DefaultPort \in Ports
  /\ None \notin Sites \union {"own"} /\ "own" \notin Sites
  /\ \A f \in CommandLines : Proper(f)

VARIABLES
  pending,   \* the setup in .pending
  cmd,       \* what each command is at
  raced      \* history: has RunE ever loaded another setup than PreRunE?

vars == <<pending, cmd, raced>>

\* What a command is at, the setup PreRunE has validated its flags against,
\* whether RunE has found one, and what it has made of it.
Idle == [step |-> "idle", flags |-> NoFlags, commit |-> FALSE, seen |-> NoSetup,
         had |-> FALSE, merged |-> NoSetup]

CommandOK(c) ==
  /\ DOMAIN c = {"step", "flags", "commit", "seen", "had", "merged"}
  /\ c.step \in {"idle", "checked", "merged", "submitting", "moving"}
  /\ Proper(c.flags)
  /\ c.commit \in BOOLEAN
  /\ c.seen = NoSetup \/ Setup(c.seen)
  /\ c.had \in BOOLEAN
  /\ IF c.step \in {"idle", "checked", "moving"} THEN c.merged = NoSetup ELSE Setup(c.merged)

TypeOK ==
  /\ pending = NoSetup \/ Setup(pending)
  /\ DOMAIN cmd = Procs /\ \A p \in Procs : CommandOK(cmd[p])
  /\ raced \in BOOLEAN

Init ==
  /\ pending = NoSetup
  /\ cmd = [p \in Procs |-> Idle]
  /\ raced = FALSE

------------------------------------------------------------------------------
(* Flags over a setup.                                                      *)

\* Defaults of the flags; the public port has none of its own.
Default ==
  [site |-> None, spec |-> "starter", domainType |-> "platform_subdomain", domain |-> None,
   ingressMode |-> "standalone", listenPort |-> DefaultPort, listenHost |-> "any",
   trustedProxies |-> "none", upstreamMode |-> "daemon", command |-> "none"]

\* The value of setting x under the flags f over the setup s.
With(s, f, x) ==
  IF x \in DOMAIN f THEN f[x] ELSE IF x \in DOMAIN s THEN s[x] ELSE Default[x]

\* --upstream-mode daemon drops the command.
Command(s, f) ==
  IF "command" \notin DOMAIN f /\ "upstreamMode" \in DOMAIN f /\ f.upstreamMode = "daemon"
  THEN "none" ELSE With(s, f, "command")

\* validateIngressModeConfig
IngressFits(mode, public, listen, host, proxies) ==
  \/ mode = "standalone" /\ public = listen
  \/ mode = "behind_proxy" /\ (host = "loopback" \/ proxies = "some")

\* ValidateIngressDomainCombination
ModeFits(mode, type) == mode = "behind_proxy" => type = "custom_domain"

\* validateFullDomainForCLI
DomainFits(site, type, domain) ==
  domain # None => (domain = site <=> type = "platform_subdomain")

------------------------------------------------------------------------------
(* PreRunE.                                                                 *)

\* effectivePublicPortForFlags
EffectivePublicPort(s, f) ==
  IF "publicPort" \in DOMAIN f THEN f.publicPort
  ELSE IF "publicPort" \in DOMAIN s THEN s.publicPort
  ELSE IF With(s, f, "ingressMode") = "standalone" THEN With(s, f, "listenPort")
  ELSE DefaultPort

\* The flags f are accepted over the setup s.
Accepted(s, f) ==
  LET Is(x) == With(s, f, x) IN
  /\ ModeFits(Is("ingressMode"), Is("domainType"))
  /\ IngressFits(Is("ingressMode"), EffectivePublicPort(s, f), Is("listenPort"),
                 Is("listenHost"), Is("trustedProxies"))
  /\ "publicPort" \in DOMAIN f => Is("ingressMode") = "behind_proxy"
  /\ Is("spec") = "starter" =>
       /\ Is("domainType") = "platform_subdomain"
       /\ "domain" \in DOMAIN f => f.domain = None
  /\ Is("spec") = "pro" /\ Is("site") # None =>
       DomainFits(Is("site"), Is("domainType"), Is("domain"))
  /\ Is("upstreamMode") = "managed" <=> Command(s, f) = "some"

\* --commit needs a site, and a domain for pro.
Complete(s, f) ==
  /\ With(s, f, "site") # None
  /\ With(s, f, "spec") = "pro" => With(s, f, "domain") # None

\* Without flags, and without --commit, the setup is only shown.
Check(p, f, c) ==
  /\ cmd[p] = Idle
  /\ f # NoFlags \/ c
  /\ Accepted(pending, f)
  /\ c => Complete(pending, f)
  /\ cmd' = [cmd EXCEPT ![p] = [Idle EXCEPT !.step = "checked", !.flags = f, !.commit = c,
                                           !.seen = pending]]
  /\ UNCHANGED <<pending, raced>>

------------------------------------------------------------------------------
(* RunE.                                                                    *)

\* Mutated form: the default is forgotten.
MergedPublicPortUnset(s, f) ==
  IF With(s, f, "ingressMode") = "standalone" THEN With(s, f, "listenPort")
  ELSE IF "publicPort" \in DOMAIN f THEN f.publicPort
  ELSE IF "publicPort" \in DOMAIN s THEN s.publicPort
  ELSE None

\* mergePendingRuntime: standalone derives the public port and drops the
\* proxies; behind a proxy the port is the default when the mode is new.
MergedPublicPort(s, f) ==
  IF With(s, f, "ingressMode") = "standalone" THEN With(s, f, "listenPort")
  ELSE IF "publicPort" \in DOMAIN f THEN f.publicPort
  ELSE IF "publicPort" \in DOMAIN s /\ "ingressMode" \notin DOMAIN f THEN s.publicPort
  ELSE DefaultPort

\* Mutated form: the command of a managed upstream stays.
MergeKeepsCommand(s, f) ==
  [x \in Settings |->
    CASE x = "publicPort" -> MergedPublicPort(s, f)
      [] x = "trustedProxies" /\ With(s, f, "ingressMode") = "standalone" -> "none"
      [] OTHER -> With(s, f, x)]

Merge(s, f) ==
  [x \in Settings |->
    CASE x = "publicPort" -> MergedPublicPort(s, f)
      [] x = "trustedProxies" /\ With(s, f, "ingressMode") = "standalone" -> "none"
      [] x = "command" -> Command(s, f)
      [] OTHER -> With(s, f, x)]

\* Mutated form: the ingress has been checked before.
SoundButForIngress(r) ==
  /\ ModeFits(r.ingressMode, r.domainType)
  /\ r.spec = "pro" => DomainFits(r.site, r.domainType, r.domain)

\* What RunE checks again of a merged setup.
Sound(r) ==
  /\ IngressFits(r.ingressMode, r.publicPort, r.listenPort, r.listenHost, r.trustedProxies)
  /\ ModeFits(r.ingressMode, r.domainType)
  /\ r.spec = "pro" => DomainFits(r.site, r.domainType, r.domain)

\* The second load, and the merge; without a site it ends here.
LoadAndMerge(p) ==
  /\ cmd[p].step = "checked"
  /\ With(pending, cmd[p].flags, "site") # None
  /\ Sound(Merge(pending, cmd[p].flags))
  /\ cmd' = [cmd EXCEPT ![p] =
       [Idle EXCEPT !.step = "merged", !.commit = cmd[p].commit, !.had = (pending # NoSetup),
                    !.merged = Merge(pending, cmd[p].flags)]]
  /\ raced' = (raced \/ pending # cmd[p].seen)
  /\ UNCHANGED pending

\* SavePendingRuntime
Save(p) ==
  /\ cmd[p].step = "merged"
  /\ pending' = cmd[p].merged
  /\ cmd' = [cmd EXCEPT ![p] = IF @.commit THEN [@ EXCEPT !.step = "submitting"] ELSE Idle]
  /\ UNCHANGED raced

\* validateSpecDomainCombination of NewService
Submittable(r) ==
  /\ r.spec = "starter" => r.domainType = "platform_subdomain"
  /\ r.spec = "pro" => r.domain # None

\* NewService.Execute: what has been merged is saved again, with the domain the
\* platform answers with: for starter one of its own.  A setup that was there
\* when RunE began then leaves .pending.
Submit(p) ==
  /\ cmd[p].step = "submitting"
  /\ Submittable(cmd[p].merged)
  /\ LET r == cmd[p].merged IN
     pending' = [r EXCEPT !.domain = IF r.spec = "starter" THEN r.site ELSE @]
  /\ cmd' = [cmd EXCEPT ![p] = IF @.had THEN [Idle EXCEPT !.step = "moving"] ELSE Idle]
  /\ UNCHANGED raced

\* CommitPendingRuntime
MoveAway(p) ==
  /\ cmd[p].step = "moving"
  /\ pending' = NoSetup
  /\ cmd' = [cmd EXCEPT ![p] = Idle]
  /\ UNCHANGED raced

\* A command is refused, fails or is killed.
Stop(p) ==
  /\ cmd[p] # Idle
  /\ cmd' = [cmd EXCEPT ![p] = Idle]
  /\ UNCHANGED <<pending, raced>>

New(p) ==
  \/ \E f \in CommandLines, c \in BOOLEAN : Check(p, f, c)
  \/ LoadAndMerge(p) \/ Save(p) \/ Submit(p) \/ MoveAway(p) \/ Stop(p)

Next == \E p \in Procs : New(p)

Spec == Init /\ [][Next]_vars

------------------------------------------------------------------------------
(* Properties.                                                              *)

\* Whatever commands overlap, the ingress of a pending setup is one that
\* validateRuntimeIngressForServe takes: RunE has validated all of it on the
\* setup that it saves.
ServeTakesIngress ==
  pending # NoSetup =>
    /\ IngressFits(pending.ingressMode, pending.publicPort, pending.listenPort,
                   pending.listenHost, pending.trustedProxies)
    /\ ModeFits(pending.ingressMode, pending.domainType)

\* As long as no command has been overtaken between PreRunE and RunE, a setup
\* that could be saved can be committed as it is, now or after any number of
\* further edits: PreRunE accepts it without flags, the merge leaves it alone,
\* and NewService takes it.  The effective values PreRunE validates and those
\* RunE saves are computed by different code.
CommitTakesSetup ==
  pending # NoSetup /\ ~raced =>
    /\ Accepted(pending, NoFlags)
    /\ Merge(pending, NoFlags) = pending
    /\ Complete(pending, NoFlags) => Submittable(pending)

\* "use --port to change the port" (cmd/new.go:775): the port of a standalone
\* setup can be changed.  The code does not let it: see EffectivePublicPort.
PortCanBeChanged ==
  pending # NoSetup => \A n \in Ports :
    pending.ingressMode = "standalone" => Accepted(pending, [listenPort |-> n])
==============================================================================
