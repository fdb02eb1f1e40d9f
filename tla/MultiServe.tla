----------------------------- MODULE MultiServe -----------------------------
(***************************************************************************)
(* `warded serve` for several wards in one process (internal/cmd/serve.go, *)
(* internal/adapters/proxy/multi_server.go): the wards are prepared one    *)
(* after the other, then share a listener; each has a heartbeat goroutine. *)
(* They share two more things: the context that ends the listener and the  *)
(* JSONStore, which remembers one directory (wardDir) and has no lock.     *)
(*                                                                         *)
(* A file is written in one step here (see AtomicSave), a managed upstream *)
(* is just running or not (see UpstreamManager), and a ward has one agent  *)
(* token or none.                                                          *)
(***************************************************************************)
EXTENDS Naturals, FiniteSets

CONSTANTS
  N,            \* number of wards
  Managed,      \* the wards with upstream_mode managed
  Agents,       \* the wards an agent token has been issued for
  Ending,       \* bound: the wards that may end while serve runs
  MaxRemovals   \* bound: directories the user removes while serve runs

Wards == 1..N
None  == 0      \* no directory, no record

ASSUME ConstantsAssumption ==
  /\ N \in Nat \ {0}
  /\ Managed \subseteq Wards /\ Agents \subseteq Wards /\ Ending \subseteq Wards
  /\ MaxRemovals \in Nat

VARIABLES
  phase,      \* of the process
  turn,       \* the ward that is being prepared
  result,     \* how the command has ended
  step,       \* of the goroutine at work for each ward
  over,       \* the wards whose status in memory is a terminal one
  valid,      \* the wards whose agent token is in Verifier.validTokens
  running,    \* the wards whose managed upstream runs
  errs,       \* the wards with an error in their heartbeat error channel
  stopper,    \* history: who cancelled serveCtx, 0 for a signal; empty before
  wardDir,    \* JSONStore.wardDir
  disk,       \* whose record is in the directory named after each ward
  removed,    \* history: the directories the user has removed
  ended,      \* the wards that have ended at the platform
  granted     \* the wards whose agent token the platform holds valid

procVars  == <<phase, turn, result, errs, stopper>>
storeVars == <<wardDir, disk, removed>>
platVars  == <<ended, granted>>
memVars   == <<over, valid>>
vars == <<procVars, step, memVars, running, storeVars, platVars>>

Saving == {"look", "move", "write"}
Steps  == {"off", "asking", "starting", "ready", "waiting", "failing", "cancel", "gone"}

TypeOK ==
  /\ phase \in {"preparing", "abandoning", "serving", "stopping", "exited"}
  /\ turn \in 1..(N + 1)
  /\ result \in {"none", "ok", "prepare error", "listen error", "heartbeat error", "killed"}
  /\ step \in [Wards -> Steps \union Saving]
  /\ over \subseteq Wards /\ valid \subseteq Agents
  /\ running \subseteq Managed
  /\ errs \subseteq Wards
  /\ stopper \in SUBSET (0..N) /\ \A a, b \in stopper : a = b
  /\ wardDir \in 0..N
  /\ disk \in [Wards -> 0..N]
  /\ removed \subseteq Wards
  /\ ended \subseteq Wards /\ granted \subseteq Agents

------------------------------------------------------------------------------

\* --all leaves wardDir empty, --ward-id leaves it at the ward loaded last.
Init ==
  /\ phase = "preparing" /\ turn = 1 /\ result = "none"
  /\ step = [w \in Wards |-> IF w = 1 THEN "asking" ELSE "off"]
  /\ over = {} /\ valid = {}
  /\ running = {} /\ errs = {} /\ stopper = {}
  /\ wardDir \in {None, N}
  /\ disk = [w \in Wards |-> w]
  /\ removed = {}
  /\ ended = {} /\ granted = Agents

Goto(w, s) == step' = [step EXCEPT ![w] = s]

\* The process ends, and the goroutines with it.
ExitWith(r) ==
  /\ phase' = "exited" /\ result' = r
  /\ step' = [w \in Wards |-> "gone"]

Alive     == phase # "exited"
Cancelled == stopper # {} \/ phase = "stopping"

\* Verifier.Verify of the token of w: signed by the platform for this ward, it
\* has to be in the list.
Verifies(w) == w \in valid

------------------------------------------------------------------------------
(* Asking the platform: GetWard during preparation, Heartbeat afterwards.   *)

\* ApplyHeartbeatResponse, or the switch of verifyActiveServeRuntime: a
\* heartbeat may leave the status out.
TakeStatus(w) ==
  \/ over' = IF w \in ended THEN over \union {w} ELSE over \ {w}
  \/ phase # "preparing" /\ UNCHANGED over

\* Mutated form: tokens are added to those known before.
MergeTokens(w) == valid' = valid \union (granted \cap {w})

\* UpdateValidTokens: the list of the answer replaces the one known before.
TakeTokens(w) == valid' = (valid \ {w}) \union (granted \cap {w})

\* GetWard lists no tokens, and a heartbeat may leave them out.
Answered(w) ==
  /\ Alive /\ step[w] = "asking"
  /\ TakeStatus(w)
  /\ (phase # "preparing" /\ TakeTokens(w)) \/ UNCHANGED valid
  /\ Goto(w, "look")
  /\ UNCHANGED <<procVars, running, storeVars, platVars>>

\* An error ends the preparation; a heartbeat is tried again, unless the
\* platform says that the credential has expired.
Unanswered(w) ==
  /\ Alive /\ step[w] = "asking"
  /\ Goto(w, "failing") \/ (phase # "preparing" /\ Goto(w, "waiting"))
  /\ UNCHANGED <<procVars, memVars, running, storeVars, platVars>>

------------------------------------------------------------------------------
(* SaveWardRuntime.  The directory a record belongs to follows from the     *)
(* record; wardDir is only where to move it from.                           *)

\* Mutated form: a heartbeat goes on after the end of its ward.
NextForgets(w) == IF phase = "preparing" THEN "starting" ELSE "waiting"

\* After the save, a ward that has ended is an error.
NextAfterSave(w) ==
  IF w \in over THEN "failing" ELSE IF phase = "preparing" THEN "starting" ELSE "waiting"

Look(w) ==
  /\ Alive /\ step[w] = "look"
  /\ Goto(w, IF wardDir \in {None, w} \/ disk[w] = w THEN "write"
             ELSE IF disk[w] = None THEN "move" ELSE "failing")
  /\ UNCHANGED <<procVars, memVars, running, storeVars, platVars>>

\* Mutated form: the renamed directory passes for the saved one.
MoveIsEnough(w) ==
  /\ Alive /\ step[w] = "move" /\ wardDir # None
  /\ disk[wardDir] # None
  /\ disk[w] = None
  /\ disk' = [disk EXCEPT ![w] = disk[wardDir], ![wardDir] = None]
  /\ Goto(w, NextAfterSave(w))
  /\ UNCHANGED <<procVars, memVars, running, wardDir, removed, platVars>>

\* Rename(wardDir, targetDir): wardDir is read again, and may have changed.
Move(w) ==
  /\ Alive /\ step[w] = "move" /\ wardDir # None
  /\ disk[wardDir] # None
  /\ disk[w] = None
  /\ disk' = [disk EXCEPT ![w] = disk[wardDir], ![wardDir] = None]
  /\ Goto(w, "write")
  /\ UNCHANGED <<procVars, memVars, running, wardDir, removed, platVars>>

\* The source is gone, something is at the target, or any other error.
MoveFails(w) ==
  /\ Alive /\ step[w] = "move"
  /\ Goto(w, "failing")
  /\ UNCHANGED <<procVars, memVars, running, storeVars, platVars>>

\* Mutated form: the record goes where the last load or save has been.
WriteWhereLoaded(w) ==
  /\ Alive /\ step[w] = "write"
  /\ disk' = [disk EXCEPT ![IF wardDir = None THEN w ELSE wardDir] = w]
  /\ Goto(w, NextAfterSave(w))
  /\ UNCHANGED <<procVars, memVars, running, wardDir, removed, platVars>>

\* saveToDir makes the directory where it is missing.
Write(w) ==
  /\ Alive /\ step[w] = "write"
  /\ wardDir' = w
  /\ \/ disk' = [disk EXCEPT ![w] = w] /\ Goto(w, NextAfterSave(w))
     \/ UNCHANGED disk /\ Goto(w, "failing")
  /\ UNCHANGED <<procVars, memVars, running, removed, platVars>>

------------------------------------------------------------------------------
(* Preparation, in the order of the wards.                                  *)

\* Mutated form: upstream_mode is not consulted.
StartAnyUpstream(w) ==
  /\ phase = "preparing" /\ step[w] = "starting"
  /\ running' = running \union {w}
  /\ Goto(w, "ready")
  /\ UNCHANGED <<procVars, memVars, storeVars, platVars>>

\* EnsureRunning; a managed upstream that does not come up is tolerated.
StartUpstream(w) ==
  /\ phase = "preparing" /\ step[w] = "starting"
  /\ running' = running \/ running' = running \union ({w} \cap Managed)
  /\ Goto(w, "ready")
  /\ UNCHANGED <<procVars, memVars, storeVars, platVars>>

\* No TLS provider: the upstream just started is shut down.
NoProvider(w) ==
  /\ phase = "preparing" /\ step[w] = "ready"
  /\ running' = running \ {w}
  /\ Goto(w, "failing")
  /\ UNCHANGED <<procVars, memVars, storeVars, platVars>>

\* The server of w is built, and the next ward's turn comes.
Prepared(w) ==
  /\ phase = "preparing" /\ step[w] = "ready"
  /\ turn' = turn + 1
  /\ step' = [v \in Wards |->
       IF v = w THEN "off" ELSE IF v = turn + 1 THEN "asking" ELSE step[v]]
  /\ UNCHANGED <<phase, result, errs, stopper, memVars, running, storeVars, platVars>>

PrepareFails(w) ==
  /\ phase = "preparing" /\ step[w] = "failing"
  /\ phase' = "abandoning"
  /\ Goto(w, "gone")
  /\ UNCHANGED <<turn, result, errs, stopper, memVars, running, storeVars, platVars>>

\* prepareServeRuntimes shuts down what the wards before have started.
Abandon ==
  /\ phase = "abandoning"
  /\ running' = {w \in running : w >= turn}
  /\ ExitWith("prepare error")
  /\ UNCHANGED <<turn, errs, stopper, memVars, storeVars, platVars>>

\* A signal ends the process on the spot before NotifyContext, and again once
\* stopServe has been called: by a heartbeat, or by the deferred calls, which
\* run it before the Shutdowns.
Kill ==
  /\ \/ phase \in {"preparing", "abandoning", "stopping"}
     \/ phase = "serving" /\ \E w \in errs : step[w] = "gone"
  /\ ExitWith("killed")
  /\ UNCHANGED <<turn, errs, stopper, memVars, running, storeVars, platVars>>

\* The heartbeats start, each with a first heartbeat at once.
StartServing ==
  /\ phase = "preparing" /\ turn = N + 1
  /\ phase' = "serving"
  /\ step' = [w \in Wards |-> "asking"]
  /\ UNCHANGED <<turn, result, errs, stopper, memVars, running, storeVars, platVars>>

------------------------------------------------------------------------------
(* Serving.                                                                 *)

\* A request finds the managed upstream down and starts it again; handlers may
\* outlive Serve.
Revive(w) ==
  /\ phase \in {"serving", "stopping"} /\ w \in Managed
  /\ running' = running \union {w}
  /\ UNCHANGED <<procVars, step, memVars, storeVars, platVars>>

\* The timer of the next heartbeat, or the end of the context.
Beat(w) ==
  /\ Alive /\ step[w] = "waiting"
  /\ Goto(w, "asking") \/ (Cancelled /\ Goto(w, "gone"))
  /\ UNCHANGED <<procVars, memVars, running, storeVars, platVars>>

Cancel(w) == stopper' = IF Cancelled THEN stopper ELSE {w}

\* Mutated form: without room in the channel, where nobody receives yet.
ReportUnbuffered(w) ==
  /\ phase \in {"serving", "stopping"} /\ step[w] = "failing"
  /\ Goto(w, "cancel")
  /\ UNCHANGED <<procVars, memVars, running, storeVars, platVars>>

\* The terminal error goes into the channel, which has room for one ...
Report(w) ==
  /\ phase \in {"serving", "stopping"} /\ step[w] = "failing"
  /\ errs' = errs \union {w}
  /\ Goto(w, "cancel")
  /\ UNCHANGED <<phase, turn, result, stopper, memVars, running, storeVars, platVars>>

\* ... and then the context of all wards is cancelled.
CancelServe(w) ==
  /\ Alive /\ step[w] = "cancel"
  /\ Cancel(w)
  /\ Goto(w, "gone")
  /\ UNCHANGED <<phase, turn, result, errs, memVars, running, storeVars, platVars>>

\* SIGINT or SIGTERM, now handled.
Signal ==
  /\ phase = "serving" /\ stopper = {}
  /\ stopper' = {0}
  /\ UNCHANGED <<phase, turn, result, errs, step, memVars, running, storeVars, platVars>>

Outcome(otherwise) == result' = IF errs # {} THEN "heartbeat error" ELSE otherwise

\* authProxy.Serve returns once the context is cancelled; an error of a
\* heartbeat takes precedence.
ServeReturns ==
  /\ phase = "serving" /\ stopper # {}
  /\ Outcome("ok")
  /\ phase' = "stopping"
  /\ UNCHANGED <<turn, errs, stopper, step, memVars, running, storeVars, platVars>>

\* It cannot listen.
ListenFails ==
  /\ phase = "serving"
  /\ Outcome("listen error")
  /\ phase' = "stopping"
  /\ UNCHANGED <<turn, errs, stopper, step, memVars, running, storeVars, platVars>>

\* The deferred calls: stopServe, and Shutdown of every manager.  Heartbeats
\* still at work are not waited for.
Leave ==
  /\ phase = "stopping"
  /\ running' = {}
  /\ ExitWith(result)
  /\ UNCHANGED <<turn, errs, stopper, memVars, storeVars, platVars>>

------------------------------------------------------------------------------
(* The platform and the user.                                               *)

EndWard(w) ==
  /\ Alive /\ w \in Ending \ ended
  /\ ended' = ended \union {w}
  /\ UNCHANGED <<procVars, step, memVars, running, storeVars, granted>>

Revoke(w) ==
  /\ Alive /\ w \in granted
  /\ granted' = granted \ {w}
  /\ UNCHANGED <<procVars, step, memVars, running, storeVars, ended>>

\* The user removes the directory of a ward.
Remove(w) ==
  /\ Alive /\ disk[w] # None /\ Cardinality(removed) < MaxRemovals
  /\ disk' = [disk EXCEPT ![w] = None]
  /\ removed' = removed \union {w}
  /\ UNCHANGED <<procVars, step, memVars, running, wardDir, platVars>>

Prepare(w) == StartUpstream(w) \/ NoProvider(w) \/ Prepared(w) \/ PrepareFails(w)
Save(w) == Look(w) \/ Move(w) \/ MoveFails(w) \/ Write(w)
Heartbeat(w) ==
  Beat(w) \/ Answered(w) \/ Unanswered(w) \/ Save(w) \/ Report(w) \/ CancelServe(w)

Environment(w) == EndWard(w) \/ Revoke(w) \/ Remove(w)

Process == Abandon \/ StartServing \/ ServeReturns \/ Leave

Next ==
  \/ \E w \in Wards : Prepare(w) \/ Heartbeat(w) \/ Revive(w) \/ Environment(w)
  \/ Process \/ Kill \/ Signal \/ ListenFails

Spec == Init /\ [][Next]_vars

\* A full answer of the platform to w: its status, and the list of tokens.
FullAnswer(w) ==
  /\ Answered(w)
  /\ w \in over' <=> w \in ended
  /\ w \in valid' <=> w \in granted

\* Timers fire and goroutines run; of a ward's heartbeats, asked again and
\* again, some are answered in full.
FairSpec ==
  /\ Spec /\ WF_vars(Process)
  /\ \A w \in Wards : WF_vars(Prepare(w) \/ Heartbeat(w)) /\ SF_vars(FullAnswer(w))

------------------------------------------------------------------------------
(* Properties.                                                              *)

\* Unless it is killed, serve leaves no managed upstream behind: not when the
\* third ward cannot be prepared either.  (A handler that is still at work
\* after the Shutdowns is another matter: UpstreamManager.)
UpstreamsStopped == phase = "exited" /\ result # "killed" => running = {}

\* serve reports success only after a signal: when a heartbeat has ended it,
\* the error is in the channel by the time serve looks.
EndIsReported == result = "ok" => stopper = {0}

\* Both: however serve ends, short of a kill, it cleans up and says why.
CleanExit == UpstreamsStopped /\ EndIsReported

\* A directory holds the record of another ward only between a rename and the
\* write that follows it, or for good where that has failed.
ForeignRecordIsReplaced ==
  \A w \in Wards : disk[w] \notin {None, w} =>
                     step[w] \in {"write", "failing", "cancel", "gone"}

\* The saves of all wards go through one wardDir, which each of them moves
\* under the others; still no record leaves its directory, as long as nobody
\* removes a directory under serve, and even then a record that has moved is
\* replaced.
RecordsStayHome ==
  /\ removed = {} => \A w \in Wards : disk[w] = w
  /\ ForeignRecordIsReplaced

\* As long as heartbeats are answered, the end of one ward ends serve, and a
\* preparation that finds one ended does not get as far as serving.
EndStopsServing == \A w \in Wards : w \in ended ~> phase = "exited"

\* The tokens serve accepts follow those the platform holds valid, though some
\* heartbeats fail and others leave the list out: one that is revoked is
\* refused in the end, and one that is not is accepted in the end, after a
\* restart too, which begins with an empty list.
TokensFollowPlatform ==
  \A w \in Agents :
    /\ w \notin granted ~> ~Verifies(w) \/ phase = "exited"
    /\ phase = "serving" /\ w \in granted ~>
         Verifies(w) \/ phase # "serving" \/ w \notin granted
==============================================================================
