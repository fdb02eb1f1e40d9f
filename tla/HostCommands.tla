---------------------------- MODULE HostCommands ----------------------------
(***************************************************************************)
(* One host: `serve` as `integrate systemd` installs it, next to the       *)
(* one-shot commands that need the same listen port and the same upstream  *)
(* address, `doctor preflight` and `new --commit`.  Both check the port,   *)
(* make sure that the upstream answers, listen for the platform's probe,   *)
(* ask the platform and clean up in deferred calls                         *)
(* (internal/application/doctor_preflight_service.go, internal/cmd/new.go, *)
(* internal/application/systemd_service.go, internal/cmd/serve.go).        *)
(*                                                                         *)
(* The upstream is a managed one, and each process can have one child that *)
(* it has started for it: the details of ProcessManager are those of       *)
(* UpstreamManager.  Children have process groups of their own and outlive *)
(* a command, but not a service, whose control group systemd clears.       *)
(***************************************************************************)
EXTENDS FiniteSets, Naturals

CONSTANTS
  Preflights,  \* runs of `doctor preflight`
  Commits,     \* runs of `new --commit`
  Serve,       \* the service
  Other,       \* another program that wants the listen port
  Nobody,
  Setups,      \* entries of the data directory besides .pending
  MaxOthers    \* times the other program takes the port

Commands == Preflights \union Commits

ASSUME HostAssumption ==
  /\ Preflights \intersect Commits = {}
  /\ Cardinality({Serve, Other, Nobody}) = 3
  /\ {Serve, Other, Nobody} \intersect Commands = {}
  /\ MaxOthers \in Nat

VARIABLES
  port,       \* who listens on the port of the ward
  others,     \* times the other program has taken it
  child,      \* the upstream each process has started
  stage,      \* step of each command
  deferred,   \* commands that have deferred the Shutdown of their child
  heard,      \* whom the probe of the platform has reached
  entry,      \* drafts and wards in the data directory
  serve,      \* step of the service
  integrate,  \* step of `integrate systemd`
  unit        \* the unit: absent, written, loaded, enabled

sharedVars  == <<port, others, child>>
commandVars == <<stage, deferred, heard>>
serviceVars == <<serve, integrate, unit>>
hostVars    == <<sharedVars, commandVars, serviceVars, entry>>

Ended == {"done", "failed", "killed"}

HostTypeOK ==
  /\ port \in Commands \union {Serve, Other, Nobody}
  /\ others \in 0 .. MaxOthers
  /\ child \in [Commands \union {Serve} -> {"none", "deaf", "listening"}]
  /\ stage \in [Commands -> {"fresh", "checked", "starting", "ready", "saved",
                             "listening", "asked"} \union Ended]
  /\ deferred \subseteq Commands
  /\ heard \in [Commands -> Commands \union {Serve, Nobody}]
  /\ entry \in [Setups -> {"none", "draft", "ward"}]
  /\ serve \in {"down", "restarting", "loading", "preparing", "starting",
                "binding", "serving", "reviving"}
  /\ integrate \in {"idle", "resolved", "written", "loaded"}
  /\ unit \in {"absent", "written", "loaded", "enabled"}
  /\ serve # "down" => unit = "enabled"

HostInit ==
  /\ port = Nobody
  /\ others = 0
  /\ child = [p \in Commands \union {Serve} |-> "none"]
  /\ stage = [c \in Commands |-> "fresh"]
  /\ deferred = {}
  /\ heard = [c \in Commands |-> Nobody]
  /\ entry \in [Setups -> {"none", "draft", "ward"}]
  /\ serve = "down"
  /\ integrate = "idle"
  /\ unit = "absent"

Entries == {s \in Setups : entry[s] # "none"}
Wards   == {s \in Setups : entry[s] = "ward"}

------------------------------------------------------------------------------
(* The port and the upstream address.                                       *)

\* ensureAddrAvailable listens and closes again: the port is free for a moment.
PortIsFree == port = Nobody

Listen(p) == PortIsFree /\ port' = p
PortWithout(p) == IF port = p THEN Nobody ELSE port

\* isUpstreamReady: somebody answers, whoever has started it.
Reachable == \E p \in DOMAIN child : child[p] = "listening"

\* startManagedProcess, shutdownCmd
StartChild(p) == child' = [child EXCEPT ![p] = "deaf"]
StopChild(p)  == child' = [child EXCEPT ![p] = "none"]

\* A child is up once it listens, and only one can.  It may end at any time.
ChildListens(p) ==
  /\ child[p] = "deaf" /\ ~Reachable
  /\ child' = [child EXCEPT ![p] = "listening"]
  /\ UNCHANGED <<port, others, commandVars, serviceVars, entry>>

ChildEnds(p) ==
  /\ child[p] # "none"
  /\ StopChild(p)
  /\ UNCHANGED <<port, others, commandVars, serviceVars, entry>>

\* Another program takes the port and leaves it again.
OtherListens ==
  /\ others < MaxOthers
  /\ Listen(Other)
  /\ others' = others + 1
  /\ UNCHANGED <<child, commandVars, serviceVars, entry>>

OtherLeaves ==
  /\ port = Other
  /\ port' = Nobody
  /\ UNCHANGED <<others, child, commandVars, serviceVars, entry>>

------------------------------------------------------------------------------
(* The one-shot commands.                                                   *)

Goto(c, from, to) ==
  /\ stage[c] = from
  /\ stage' = [stage EXCEPT ![c] = to]

\* Execute up to the check of the port, PreRunE up to the same: flags,
\* combinations, a writable data directory, the listen address.
PreflightChecks(c) ==
  /\ c \in Preflights
  /\ Goto(c, "fresh", "checked")
  /\ PortIsFree
  /\ UNCHANGED <<sharedVars, deferred, heard, serviceVars, entry>>

CommitChecks(c) ==
  /\ c \in Commits
  /\ Goto(c, "fresh", "checked")
  /\ PortIsFree
  /\ UNCHANGED <<sharedVars, deferred, heard, serviceVars, entry>>

\* Mutated form: the preflight forgets to.
DefersNever == {}

\* The preflight defers Shutdown as soon as EnsureRunning has returned.
DefersOnReady == Preflights

Ready(c) ==
  /\ stage' = [stage EXCEPT ![c] = "ready"]
  /\ deferred' = deferred \union ({c} \intersect DefersOnReady)

\* EnsureRunning: an upstream that answers is used as it is.
FindUpstream(c) ==
  /\ stage[c] = "checked"
  /\ Reachable
  /\ Ready(c)
  /\ UNCHANGED <<sharedVars, heard, serviceVars, entry>>

StartUpstream(c) ==
  /\ Goto(c, "checked", "starting")
  /\ ~Reachable
  /\ StartChild(c)
  /\ UNCHANGED <<port, others, deferred, heard, serviceVars, entry>>

UpstreamReady(c) ==
  /\ stage[c] = "starting"
  /\ Reachable
  /\ Ready(c)
  /\ UNCHANGED <<sharedVars, heard, serviceVars, entry>>

\* Ten seconds have passed, or the child has ended: EnsureRunning stops it.
UpstreamFails(c) ==
  /\ Goto(c, "starting", "failed")
  /\ StopChild(c)
  /\ UNCHANGED <<port, others, deferred, heard, serviceVars, entry>>

\* RunE loads and merges the setup once more, saves it, checks the port again.
SaveSetup(c) ==
  /\ c \in Commits
  /\ Goto(c, "ready", "saved")
  /\ PortIsFree
  /\ UNCHANGED <<sharedVars, deferred, heard, serviceVars, entry>>

\* Mutated form: the check of the port is enough, nobody listens.
PreflightTrustsCheck(c) ==
  /\ c \in Preflights
  /\ Goto(c, "ready", "listening")
  /\ PortIsFree
  /\ UNCHANGED <<sharedVars, deferred, heard, serviceVars, entry>>

\* StartProbeServer
PreflightListens(c) ==
  /\ c \in Preflights
  /\ Goto(c, "ready", "listening")
  /\ Listen(c)
  /\ UNCHANGED <<others, child, deferred, heard, serviceVars, entry>>

\* Only now does `new --commit` defer the Shutdown of its upstream.
CommitListens(c) ==
  /\ c \in Commits
  /\ Goto(c, "saved", "listening")
  /\ Listen(c)
  /\ deferred' = deferred \union {c}
  /\ UNCHANGED <<others, child, heard, serviceVars, entry>>

AskPlatform(c) ==
  /\ Goto(c, "listening", "asked")
  /\ UNCHANGED <<sharedVars, deferred, heard, serviceVars, entry>>

\* The platform calls the public address.  Every listener of warded, serve
\* included, answers any challenge with it.
IsReached(c) ==
  /\ port \in Commands \union {Serve}
  /\ heard' = [heard EXCEPT ![c] = port]

\* The command returns: the deferred calls stop the probe server and the
\* upstream.  An upstream whose Shutdown was not deferred runs on.
Return(c, how) ==
  /\ stage' = [stage EXCEPT ![c] = how]
  /\ port' = PortWithout(c)
  /\ IF c \in deferred THEN StopChild(c) ELSE UNCHANGED child

PreflightSucceeds(c) ==
  /\ c \in Preflights
  /\ stage[c] = "asked"
  /\ IsReached(c)
  /\ Return(c, "done")
  /\ UNCHANGED <<others, deferred, serviceVars, entry>>

\* The draft stays in .pending, or moves to a directory of its own when the
\* setup had been saved by an earlier `new`.
CommitSucceeds(c) ==
  /\ c \in Commits
  /\ stage[c] = "asked"
  /\ IsReached(c)
  /\ Return(c, "done")
  /\ \/ UNCHANGED entry
     \/ \E s \in Setups \ Entries : entry' = [entry EXCEPT ![s] = "draft"]
  /\ UNCHANGED <<others, deferred, serviceVars>>

\* Any step can end in an error: a flag, the data directory, the port, the
\* DNS, random numbers, the platform, a probe that does not get through.
Fail(c) ==
  /\ stage[c] \notin Ended \union {"starting"}
  /\ Return(c, "failed")
  /\ UNCHANGED <<others, deferred, heard, serviceVars, entry>>

\* The commands catch no signal: deferred calls do not run.
Killed(c) ==
  /\ stage[c] \notin Ended \union {"fresh"}
  /\ stage' = [stage EXCEPT ![c] = "killed"]
  /\ port' = PortWithout(c)
  /\ UNCHANGED <<others, child, deferred, heard, serviceVars, entry>>

Preflight(c) == PreflightChecks(c) \/ PreflightListens(c) \/ PreflightSucceeds(c)

Commit(c) == CommitChecks(c) \/ SaveSetup(c) \/ CommitListens(c) \/ CommitSucceeds(c)

Run(c) ==
  \/ Preflight(c)
  \/ Commit(c)
  \/ FindUpstream(c)
  \/ StartUpstream(c)
  \/ UpstreamReady(c)
  \/ UpstreamFails(c)
  \/ AskPlatform(c)
  \/ Fail(c)

------------------------------------------------------------------------------
(* integrate systemd                                                        *)

\* resolveRuntime counts wards.  With --ward-id any of several will do.
\* Repeated on an enabled service the command changes nothing.
ResolveWard ==
  /\ integrate = "idle"
  /\ unit # "enabled"
  /\ Wards # {}
  /\ integrate' = "resolved"
  /\ UNCHANGED <<sharedVars, commandVars, serve, unit, entry>>

\* The unit is renamed into place: it is there whole or not at all.  The one
\* that systemd has loaded before stays loaded, and it is the same.
WriteUnit ==
  /\ integrate = "resolved"
  /\ integrate' = "written"
  /\ unit' = IF unit = "absent" THEN "written" ELSE unit
  /\ UNCHANGED <<sharedVars, commandVars, serve, entry>>

Reload ==
  /\ integrate = "written"
  /\ integrate' = "loaded"
  /\ unit' = IF unit = "written" THEN "loaded" ELSE unit
  /\ UNCHANGED <<sharedVars, commandVars, serve, entry>>

\* Mutated form: the service is started, but not enabled.
StartOnly ==
  /\ integrate = "loaded"
  /\ integrate' = "idle"
  /\ serve' = IF serve = "down" THEN "loading" ELSE serve
  /\ UNCHANGED <<sharedVars, commandVars, unit, entry>>

\* With --now.  A service that runs already is left as it is.
EnableNow ==
  /\ integrate = "loaded"
  /\ integrate' = "idle"
  /\ unit' = "enabled"
  /\ serve' = IF serve = "down" THEN "loading" ELSE serve
  /\ UNCHANGED <<sharedVars, commandVars, entry>>

\* Without --now, an error of systemctl or of the file system, or a kill.
IntegrateEnds ==
  /\ integrate # "idle"
  /\ integrate' = "idle"
  /\ UNCHANGED <<sharedVars, commandVars, serve, unit, entry>>

Integrate == ResolveWard \/ WriteUnit \/ Reload \/ EnableNow \/ IntegrateEnds

------------------------------------------------------------------------------
(* The service.                                                             *)

ServeGoes(from, to) == serve = from /\ serve' = to

\* RestartSec has passed.
Restart ==
  /\ ServeGoes("restarting", "loading")
  /\ UNCHANGED <<sharedVars, commandVars, integrate, unit, entry>>

\* LoadWardRuntime counts directories, drafts included: the command line of
\* the unit names no ward.  (A draft alone it never meets: wards stay.)  The
\* platform confirms that the ward is active.
LoadWard ==
  /\ ServeGoes("loading", "preparing")
  /\ Cardinality(Entries) = 1
  /\ Entries = Wards
  /\ UNCHANGED <<sharedVars, commandVars, integrate, unit, entry>>

PrepareFound ==
  /\ ServeGoes("preparing", "binding")
  /\ Reachable
  /\ UNCHANGED <<sharedVars, commandVars, integrate, unit, entry>>

PrepareStarts ==
  /\ ServeGoes("preparing", "starting")
  /\ ~Reachable
  /\ StartChild(Serve)
  /\ UNCHANGED <<port, others, commandVars, integrate, unit, entry>>

PrepareReady ==
  /\ ServeGoes("starting", "binding")
  /\ Reachable
  /\ UNCHANGED <<sharedVars, commandVars, integrate, unit, entry>>

\* An upstream that is not ready in five seconds does not keep serve from
\* starting: the first request will try again.
PrepareGivesUp ==
  /\ ServeGoes("starting", "binding")
  /\ StopChild(Serve)
  /\ UNCHANGED <<port, others, commandVars, integrate, unit, entry>>

Bind ==
  /\ ServeGoes("binding", "serving")
  /\ Listen(Serve)
  /\ UNCHANGED <<others, child, commandVars, integrate, unit, entry>>

\* Mutated form: a request revives only an upstream that serve has started.
ReviveOwned ==
  /\ ServeGoes("serving", "reviving")
  /\ ~Reachable
  /\ child[Serve] # "none"
  /\ StartChild(Serve)
  /\ UNCHANGED <<port, others, commandVars, integrate, unit, entry>>

\* ensureManagedUpstream: a request finds the upstream gone.  A child that
\* does not answer is replaced.
Revive ==
  /\ ServeGoes("serving", "reviving")
  /\ ~Reachable
  /\ StartChild(Serve)
  /\ UNCHANGED <<port, others, commandVars, integrate, unit, entry>>

ReviveReady ==
  /\ ServeGoes("reviving", "serving")
  /\ Reachable
  /\ UNCHANGED <<sharedVars, commandVars, integrate, unit, entry>>

ReviveGivesUp ==
  /\ ServeGoes("reviving", "serving")
  /\ StopChild(Serve)
  /\ UNCHANGED <<port, others, commandVars, integrate, unit, entry>>

\* Mutated form: Restart=on-failure, and serve returns in good order.
ServeEndsForGood ==
  /\ serve \notin {"down", "restarting"}
  /\ serve' = IF serve \in {"serving", "reviving"} THEN "down" ELSE "restarting"
  /\ port' = PortWithout(Serve)
  /\ StopChild(Serve)
  /\ UNCHANGED <<others, commandVars, integrate, unit, entry>>

\* An error at any step, the end of the ward, or a kill: systemd clears the
\* control group and starts the service again, whatever the reason.
ServeEnds ==
  /\ serve \notin {"down", "restarting"}
  /\ serve' = "restarting"
  /\ port' = PortWithout(Serve)
  /\ StopChild(Serve)
  /\ UNCHANGED <<others, commandVars, integrate, unit, entry>>

Prepare == PrepareFound \/ PrepareStarts
AfterStart == PrepareReady \/ PrepareGivesUp
AfterRevival == ReviveReady \/ ReviveGivesUp

Service ==
  \/ Restart \/ LoadWard \/ Prepare \/ AfterStart \/ Bind
  \/ Revive \/ AfterRevival \/ ServeEnds

------------------------------------------------------------------------------

\* `status` claims the ward of a converted draft, one with a directory of its
\* own or the one in .pending.
Claim(s) ==
  /\ entry[s] # "ward"
  /\ entry' = [entry EXCEPT ![s] = "ward"]
  /\ UNCHANGED <<sharedVars, commandVars, serviceVars>>

\* The machine starts again, with the service if it is enabled (for a user
\* service, where lingering is).
Reboot ==
  /\ port' = Nobody
  /\ child' = [p \in DOMAIN child |-> "none"]
  /\ stage' = [c \in Commands |->
                IF stage[c] \in Ended \union {"fresh"} THEN stage[c] ELSE "killed"]
  /\ integrate' = "idle"
  /\ unit' = IF unit = "written" THEN "loaded" ELSE unit
  /\ serve' = IF unit = "enabled" THEN "loading" ELSE "down"
  /\ UNCHANGED <<others, deferred, heard, entry>>

HostNext ==
  \/ \E c \in Commands : Run(c) \/ Killed(c)
  \/ Integrate
  \/ Service
  \/ \E s \in Setups : Claim(s)
  \/ \E p \in Commands \union {Serve} : ChildListens(p) \/ ChildEnds(p)
  \/ OtherListens
  \/ OtherLeaves
  \/ Reboot

HostSpec == HostInit /\ [][HostNext]_hostVars

\* Commands end, the other program leaves the port, systemd restarts, requests
\* come, deadlines pass.  No step of the start of serve fails every time it is
\* tried, and the upstream command comes up at last where it can.
FairHostSpec ==
  /\ HostSpec
  /\ \A c \in Commands : WF_hostVars(Run(c))
  /\ WF_hostVars(OtherLeaves)
  /\ WF_hostVars(Restart)
  /\ SF_hostVars(LoadWard) /\ SF_hostVars(Prepare) /\ SF_hostVars(AfterStart) /\ SF_hostVars(Bind)
  /\ WF_hostVars(Revive) /\ WF_hostVars(AfterRevival)
  /\ SF_hostVars(ChildListens(Serve))

------------------------------------------------------------------------------
(* Properties.                                                              *)

\* A one-shot command that returns leaves no upstream behind, on whichever of
\* its steps it fails: but for `new --commit` that fails before it listens for
\* the probe.  (README.md:151 makes no such exception: the command "cleans it
\* up when the command exits".)
LeftBehind ==
  \A c \in Commands :
    child[c] # "none" /\ stage[c] \in {"done", "failed"} =>
      c \in Commits /\ c \notin deferred

\* When the probe gets through, it has reached the command that asked for it:
\* never a serve that has taken the port after the check, whose answer looks
\* the same.
OwnAnswer == \A c \in Commands : heard[c] \in {c, Nobody}

\* A service that is enabled, in a data directory with a single ward, listens
\* again and again: through commands that hold its port, killed upstreams,
\* failures and reboots.  (A draft beside the ward is enough to keep it down.)
ServeComesUp ==
  <>[](unit = "enabled" /\ Cardinality(Entries) = 1 /\ Entries = Wards)
    => []<>(port = Serve)

\* A serve that uses the upstream of a command does not lose it for good when
\* the command stops it.
UpstreamIsBack ==
  serve = "serving" /\ ~Reachable ~> Reachable \/ serve \notin {"serving", "reviving"}
==============================================================================
