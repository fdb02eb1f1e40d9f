--------------------------- MODULE UpstreamManager ---------------------------
(***************************************************************************)
(* ProcessManager (internal/adapters/upstream/process_manager.go): the     *)
(* upstream process that `warded serve` starts when a request finds the    *)
(* upstream address unreachable, and stops when it exits.  EnsureRunning   *)
(* runs in the goroutines of the request handlers under one mutex and a    *)
(* deadline of its own; Shutdown runs in the main goroutine, which does    *)
(* not wait for the handlers.                                              *)
(***************************************************************************)
EXTENDS FiniteSets

CONSTANTS
  Callers,    \* goroutines that call EnsureRunning
  Processes,  \* processes the manager can start; one that is gone comes again
  Main,       \* the main goroutine of warded serve
  Nobody      \* no process, no holder of the mutex

ASSUME DistinctAssumption ==
  /\ Main \notin Callers
  /\ Nobody \notin Processes /\ Nobody \notin Callers \union {Main}

VARIABLES
  process,   \* state of each process
  foreign,   \* does a process of somebody else listen at the address?
  mu,        \* holder of ProcessManager.mu
  ownedCmd,  \* ProcessManager.ownedCmd
  pc,        \* step of each goroutine
  cmd,       \* process each goroutine has in hand
  expired,   \* has the deadline of the call passed?
  late       \* history: processes started after Shutdown took the owned one

worldVars  == <<process, foreign>>
callerVars == <<pc, cmd, expired>>
vars == <<worldVars, mu, ownedCmd, callerVars, late>>

\* A process that is not listening is starting up or has hung; one that has
\* exited stays as a zombie until somebody waits for it.
ProcessState == {"gone", "deaf", "listening", "exited"}

TypeOK ==
  /\ process \in [Processes -> ProcessState]
  /\ foreign \in BOOLEAN
  /\ mu \in Callers \union {Nobody}
  /\ ownedCmd \in Processes \union {Nobody}
  /\ pc \in [Callers \union {Main} ->
              {"idle", "locking", "owned", "unowned", "waiting",
               "serving", "stopping", "killing", "exited"}]
  /\ cmd \in [Callers \union {Main} -> Processes \union {Nobody}]
  /\ expired \in [Callers -> BOOLEAN]
  /\ late \subseteq Processes

Init ==
  /\ process = [p \in Processes |-> "gone"]
  /\ foreign \in BOOLEAN
  /\ mu = Nobody
  /\ ownedCmd = Nobody
  /\ pc = [g \in Callers \union {Main} |-> IF g = Main THEN "serving" ELSE "idle"]
  /\ cmd = [g \in Callers \union {Main} |-> Nobody]
  /\ expired = [c \in Callers |-> FALSE]
  /\ late = {}

Alive(p)  == process[p] \in {"deaf", "listening"}
Reachable == foreign \/ \E p \in Processes : process[p] = "listening"

\* isUpstreamReady: a dial under an expired context fails.
Ready(c) == Reachable /\ ~expired[c]

\* shutdownCmd ends when the process has been waited for.
Kill(p) == process' = [process EXCEPT ![p] = "gone"]

Return(c) ==
  /\ pc' = [pc EXCEPT ![c] = "idle"]
  /\ cmd' = [cmd EXCEPT ![c] = Nobody]
  /\ expired' = [expired EXCEPT ![c] = FALSE]
  /\ mu' = Nobody

------------------------------------------------------------------------------
(* EnsureRunning.                                                           *)

\* A handler is about to forward a request, or has failed to.  Handlers that
\* are at work when serve stops go on until the process exits.
Call(c) ==
  /\ pc[c] = "idle"
  /\ pc[Main] # "exited"
  /\ pc' = [pc EXCEPT ![c] = "locking"]
  /\ UNCHANGED <<worldVars, mu, ownedCmd, cmd, expired, late>>

\* The deadline of context.WithTimeout, which also runs while the call waits
\* for the mutex.
Expire(c) ==
  /\ pc[c] # "idle" /\ ~expired[c]
  /\ expired' = [expired EXCEPT ![c] = TRUE]
  /\ UNCHANGED <<worldVars, mu, ownedCmd, pc, cmd, late>>

Lock(c) ==
  /\ pc[c] = "locking"
  /\ mu = Nobody
  /\ pc' = [pc EXCEPT ![c] = IF ownedCmd # Nobody THEN "owned" ELSE "unowned"]
  /\ mu' = c
  /\ UNCHANGED <<worldVars, ownedCmd, cmd, expired, late>>

FindReady(c) ==
  /\ pc[c] \in {"owned", "unowned"}
  /\ Ready(c)
  /\ Return(c)
  /\ UNCHANGED <<worldVars, ownedCmd, late>>

\* The owned process does not answer: it is replaced.
StopOwned(c) ==
  /\ pc[c] = "owned"
  /\ ~Ready(c)
  /\ Kill(ownedCmd)
  /\ ownedCmd' = Nobody
  /\ pc' = [pc EXCEPT ![c] = "unowned"]
  /\ UNCHANGED <<foreign, mu, cmd, expired, late>>

Start(c, p) ==
  /\ pc[c] = "unowned"
  /\ ~Ready(c)
  /\ process[p] = "gone"
  /\ process' = [process EXCEPT ![p] = "deaf"]
  /\ cmd' = [cmd EXCEPT ![c] = p]
  /\ pc' = [pc EXCEPT ![c] = "waiting"]
  /\ late' = IF pc[Main] = "killing" THEN late \union {p} ELSE late \ {p}
  /\ UNCHANGED <<foreign, mu, ownedCmd, expired>>

\* The command cannot be run.
StartFails(c) ==
  /\ pc[c] = "unowned"
  /\ ~Ready(c)
  /\ Return(c)
  /\ UNCHANGED <<worldVars, ownedCmd, late>>

\* waitForUpstreamReady: the address answers, whoever it is that answers.
WaitReady(c) ==
  /\ pc[c] = "waiting"
  /\ Ready(c)
  /\ ownedCmd' = cmd[c]
  /\ Return(c)
  /\ UNCHANGED <<worldVars, late>>

\* Mutated form: a process that is not ready in time is left alone.
LeaveOnTimeout(c) ==
  /\ pc[c] = "waiting"
  /\ expired[c] \/ (~Reachable /\ process[cmd[c]] = "exited")
  /\ Return(c)
  /\ UNCHANGED <<worldVars, ownedCmd, late>>

\* Mutated form: only the exit of the process ends the wait.
WaitForExit(c) ==
  /\ pc[c] = "waiting"
  /\ ~Reachable /\ process[cmd[c]] = "exited"
  /\ Kill(cmd[c])
  /\ Return(c)
  /\ UNCHANGED <<foreign, ownedCmd, late>>

\* The deadline has passed, or the process has exited and nobody answers.
WaitFails(c) ==
  /\ pc[c] = "waiting"
  /\ expired[c] \/ (~Reachable /\ process[cmd[c]] = "exited")
  /\ Kill(cmd[c])
  /\ Return(c)
  /\ UNCHANGED <<foreign, ownedCmd, late>>

EnsureRunning(c) ==
  \/ Lock(c)
  \/ FindReady(c)
  \/ StopOwned(c)
  \/ \E p \in Processes : Start(c, p)
  \/ StartFails(c)
  \/ WaitReady(c)
  \/ WaitFails(c)

------------------------------------------------------------------------------
(* The main goroutine: Serve has returned, the deferred Shutdown runs.      *)

\* A signal or a terminal heartbeat cancels the context of serve.
StopServing ==
  /\ pc[Main] = "serving"
  /\ pc' = [pc EXCEPT ![Main] = "stopping"]
  /\ UNCHANGED <<worldVars, mu, ownedCmd, cmd, expired, late>>

\* Mutated form: the mutex is not released when nothing is owned.
ShutdownKeepsMutex ==
  /\ pc[Main] = "stopping"
  /\ mu = Nobody
  /\ mu' = IF ownedCmd = Nobody THEN Main ELSE mu
  /\ cmd' = [cmd EXCEPT ![Main] = ownedCmd]
  /\ ownedCmd' = Nobody
  /\ pc' = [pc EXCEPT ![Main] = "killing"]
  /\ UNCHANGED <<worldVars, expired, late>>

\* Shutdown takes the owned process under the mutex ...
ShutdownTake ==
  /\ pc[Main] = "stopping"
  /\ mu = Nobody
  /\ cmd' = [cmd EXCEPT ![Main] = ownedCmd]
  /\ ownedCmd' = Nobody
  /\ pc' = [pc EXCEPT ![Main] = "killing"]
  /\ UNCHANGED <<worldVars, mu, expired, late>>

\* ... and stops it without.
ShutdownKill ==
  /\ pc[Main] = "killing"
  /\ cmd[Main] # Nobody
  /\ Kill(cmd[Main])
  /\ cmd' = [cmd EXCEPT ![Main] = Nobody]
  /\ UNCHANGED <<foreign, mu, ownedCmd, pc, expired, late>>

\* The process ends and with it its goroutines.  Upstream processes have a
\* process group of their own and live on.
Exit ==
  /\ pc[Main] = "killing"
  /\ cmd[Main] = Nobody
  /\ pc' = [g \in Callers \union {Main} |-> IF g = Main THEN "exited" ELSE "idle"]
  /\ cmd' = [g \in Callers \union {Main} |-> Nobody]
  /\ expired' = [c \in Callers |-> FALSE]
  /\ mu' = Nobody
  /\ UNCHANGED <<worldVars, ownedCmd, late>>

------------------------------------------------------------------------------
(* The processes.                                                           *)

\* One at a time can listen at the address.
Listen(p) ==
  /\ process[p] = "deaf" /\ ~Reachable
  /\ process' = [process EXCEPT ![p] = "listening"]
  /\ UNCHANGED <<foreign, mu, ownedCmd, callerVars, late>>

Hang(p) ==
  /\ process[p] = "listening"
  /\ process' = [process EXCEPT ![p] = "deaf"]
  /\ UNCHANGED <<foreign, mu, ownedCmd, callerVars, late>>

Crash(p) ==
  /\ Alive(p)
  /\ process' = [process EXCEPT ![p] = "exited"]
  /\ UNCHANGED <<foreign, mu, ownedCmd, callerVars, late>>

Foreign ==
  /\ foreign \/ ~Reachable
  /\ foreign' = ~foreign
  /\ UNCHANGED <<process, mu, ownedCmd, callerVars, late>>

World == Foreign \/ \E p \in Processes : Listen(p) \/ Hang(p) \/ Crash(p)

Next ==
  \/ \E c \in Callers : Call(c) \/ Expire(c) \/ EnsureRunning(c)
  \/ StopServing
  \/ ShutdownTake
  \/ ShutdownKill
  \/ Exit
  \/ World

Spec == Init /\ [][Next]_vars

\* Goroutines run, deadlines pass, and sync.Mutex hands the lock to a waiter
\* it has kept waiting.  Nothing is assumed of the upstream.
FairSpec ==
  /\ Spec
  /\ \A c \in Callers :
       WF_vars(Expire(c)) /\ WF_vars(EnsureRunning(c)) /\ SF_vars(Lock(c))

------------------------------------------------------------------------------
(* Properties.                                                              *)

\* Calls that come together start one process, not several.  (The test
\* ConcurrentStartsAreSerialized runs three of them and asserts nothing.)
OneProcess ==
  pc[Main] \in {"serving", "stopping"} =>
    \A p, q \in Processes : Alive(p) /\ Alive(q) => p = q

\* Until warded exits, somebody answers for every living process: it is the
\* owned one, or a call waits for it, or Shutdown is about to stop it.
NoOrphan ==
  pc[Main] # "exited" =>
    \A p \in Processes : Alive(p) =>
      p = ownedCmd \/ \E g \in Callers \union {Main} : p = cmd[g]

\* Shutdown stops whatever was started before it: only a call that starts a
\* process after Shutdown has taken the owned one leaves it behind.
ShutdownStopsEarlier ==
  pc[Main] = "exited" => \A p \in Processes : Alive(p) => p \in late

\* The three together: whatever calls, deadlines, crashes and the end of serve
\* overlap, every living process of the upstream is accounted for.
ProcessesAccountedFor == OneProcess /\ NoOrphan /\ ShutdownStopsEarlier

\* No call waits for ever, for the mutex or for an upstream that never comes.
CallReturns == \A c \in Callers : pc[c] # "idle" ~> pc[c] = "idle"

\* "warded serve starts and owns the upstream while the proxy is running"
\* (README.md:151).  The code does not keep it to that: a handler still at
\* work restarts the process that Shutdown has just stopped.
UpstreamEndsWithServe == pc[Main] = "exited" => \A p \in Processes : ~Alive(p)
==============================================================================
