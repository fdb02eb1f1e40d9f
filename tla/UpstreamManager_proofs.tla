------------------------ MODULE UpstreamManager_proofs ------------------------
(***************************************************************************)
(* Proofs about UpstreamManager, for any number of calls and processes.    *)
(***************************************************************************)
EXTENDS UpstreamManager, TLAPS

\* The goroutine between Lock and Unlock is the holder of the mutex; a call
\* has a process in hand exactly while it waits for it, and then, as when it
\* is about to start one, none is owned.
MutexInv ==
  /\ \A c \in Callers :
       /\ pc[c] \in {"idle", "locking", "owned", "unowned", "waiting"}
       /\ pc[c] \in {"owned", "unowned", "waiting"} <=> mu = c
       /\ pc[c] \in {"unowned", "waiting"} => ownedCmd = Nobody
       /\ pc[c] = "owned" => ownedCmd # Nobody
       /\ pc[c] = "waiting" <=> cmd[c] # Nobody
       /\ pc[Main] = "exited" => pc[c] = "idle"
  /\ pc[Main] \in {"serving", "stopping", "killing", "exited"}
  /\ cmd[Main] # Nobody => pc[Main] = "killing"

\* Every process that has not been waited for is in somebody's care.
TrackInv ==
  pc[Main] # "exited" =>
    \A p \in Processes : process[p] # "gone" =>
      p = ownedCmd \/ \E g \in Callers \union {Main} : p = cmd[g]

\* What is owned or waited for after Shutdown's turn was started after it.
LateInv ==
  /\ pc[Main] = "killing" =>
       /\ ownedCmd # Nobody => ownedCmd \in late
       /\ \A c \in Callers : cmd[c] # Nobody => cmd[c] \in late
  /\ ShutdownStopsEarlier

IndInv == TypeOK /\ MutexInv /\ TrackInv /\ LateInv

------------------------------------------------------------------------------

\* serve starts with no call under way and no process.
LEMMA InitInv == Init => IndInv
  BY DistinctAssumption
     DEF Init, IndInv, TypeOK, MutexInv, TrackInv, LateInv, ShutdownStopsEarlier,
         ProcessState

\* Neither a step of a call, nor one of Shutdown, nor anything a process does
\* by itself takes a process out of all hands.
LEMMA StepInv == IndInv /\ [Next]_vars => IndInv'
<1> SUFFICES ASSUME IndInv, [Next]_vars PROVE IndInv'
  OBVIOUS
<1> USE DistinctAssumption
    DEF IndInv, TypeOK, MutexInv, worldVars, callerVars, ProcessState
<1>1. ASSUME NEW c \in Callers, Call(c) PROVE IndInv'
  <2>1. TypeOK'
    BY <1>1 DEF Call
  <2>2. MutexInv'
    BY <1>1 DEF Call
  <2>3. TrackInv'
    BY <1>1 DEF Call, TrackInv
  <2>4. LateInv'
    BY <1>1 DEF Call, LateInv, TrackInv, ShutdownStopsEarlier, Alive
  <2>5. QED
    BY <2>1, <2>2, <2>3, <2>4
<1>2. ASSUME NEW c \in Callers, Expire(c) PROVE IndInv'
  <2>1. TypeOK'
    BY <1>2 DEF Expire
  <2>2. MutexInv'
    BY <1>2 DEF Expire
  <2>3. TrackInv'
    BY <1>2 DEF Expire, TrackInv
  <2>4. LateInv'
    BY <1>2 DEF Expire, LateInv, TrackInv, ShutdownStopsEarlier, Alive
  <2>5. QED
    BY <2>1, <2>2, <2>3, <2>4
<1>3. ASSUME NEW c \in Callers, Lock(c) PROVE IndInv'
  <2>1. TypeOK'
    BY <1>3 DEF Lock
  <2>2. MutexInv'
    BY <1>3 DEF Lock
  <2>3. TrackInv'
    BY <1>3 DEF Lock, TrackInv
  <2>4. LateInv'
    BY <1>3 DEF Lock, LateInv, TrackInv, ShutdownStopsEarlier, Alive
  <2>5. QED
    BY <2>1, <2>2, <2>3, <2>4
<1>4. ASSUME NEW c \in Callers, FindReady(c) PROVE IndInv'
  <2>1. TypeOK'
    BY <1>4 DEF FindReady, Return
  <2>2. MutexInv'
    BY <1>4 DEF FindReady, Return
  <2>3. TrackInv'
    BY <1>4 DEF FindReady, Return, TrackInv
  <2>4. LateInv'
    BY <1>4 DEF FindReady, Return, LateInv, TrackInv, ShutdownStopsEarlier, Alive
  <2>5. QED
    BY <2>1, <2>2, <2>3, <2>4
<1>5. ASSUME NEW c \in Callers, StopOwned(c) PROVE IndInv'
  <2>1. TypeOK'
    BY <1>5 DEF StopOwned, Kill
  <2>2. MutexInv'
    BY <1>5 DEF StopOwned, Kill
  <2>3. TrackInv'
    BY <1>5 DEF StopOwned, Kill, TrackInv
  <2>4. LateInv'
    BY <1>5 DEF StopOwned, Kill, LateInv, TrackInv, ShutdownStopsEarlier, Alive
  <2>5. QED
    BY <2>1, <2>2, <2>3, <2>4
<1>6. ASSUME NEW c \in Callers, NEW p \in Processes, Start(c, p) PROVE IndInv'
  <2>1. TypeOK'
    BY <1>6 DEF Start
  <2>2. MutexInv'
    BY <1>6 DEF Start
  <2>3. TrackInv'
    BY <1>6 DEF Start, TrackInv
  <2>4. LateInv'
    BY <1>6 DEF Start, LateInv, TrackInv, ShutdownStopsEarlier, Alive
  <2>5. QED
    BY <2>1, <2>2, <2>3, <2>4
<1>7. ASSUME NEW c \in Callers, StartFails(c) PROVE IndInv'
  <2>1. TypeOK'
    BY <1>7 DEF StartFails, Return
  <2>2. MutexInv'
    BY <1>7 DEF StartFails, Return
  <2>3. TrackInv'
    BY <1>7 DEF StartFails, Return, TrackInv
  <2>4. LateInv'
    BY <1>7 DEF StartFails, Return, LateInv, TrackInv, ShutdownStopsEarlier, Alive
  <2>5. QED
    BY <2>1, <2>2, <2>3, <2>4
<1>8. ASSUME NEW c \in Callers, WaitReady(c) PROVE IndInv'
  <2>1. TypeOK'
    BY <1>8 DEF WaitReady, Return
  <2>2. MutexInv'
    BY <1>8 DEF WaitReady, Return
  <2>3. TrackInv'
    BY <1>8 DEF WaitReady, Return, TrackInv
  <2>4. LateInv'
    BY <1>8 DEF WaitReady, Return, LateInv, TrackInv, ShutdownStopsEarlier, Alive
  <2>5. QED
    BY <2>1, <2>2, <2>3, <2>4
<1>9. ASSUME NEW c \in Callers, WaitFails(c) PROVE IndInv'
  <2>1. TypeOK'
    BY <1>9 DEF WaitFails, Return, Kill
  <2>2. MutexInv'
    BY <1>9 DEF WaitFails, Return, Kill
  <2>3. TrackInv'
    BY <1>9 DEF WaitFails, Return, Kill, TrackInv
  <2>4. LateInv'
    BY <1>9 DEF WaitFails, Return, Kill, LateInv, TrackInv, ShutdownStopsEarlier, Alive
  <2>5. QED
    BY <2>1, <2>2, <2>3, <2>4
<1>10. CASE StopServing
  <2>1. TypeOK'
    BY <1>10 DEF StopServing
  <2>2. MutexInv'
    BY <1>10 DEF StopServing
  <2>3. TrackInv'
    BY <1>10 DEF StopServing, TrackInv
  <2>4. LateInv'
    BY <1>10 DEF StopServing, LateInv, TrackInv, ShutdownStopsEarlier, Alive
  <2>5. QED
    BY <2>1, <2>2, <2>3, <2>4
<1>11. CASE ShutdownTake
  <2>1. TypeOK'
    BY <1>11 DEF ShutdownTake
  <2>2. MutexInv'
    BY <1>11 DEF ShutdownTake
  <2>3. TrackInv'
    BY <1>11 DEF ShutdownTake, TrackInv
  <2>4. LateInv'
    BY <1>11 DEF ShutdownTake, LateInv, TrackInv, ShutdownStopsEarlier, Alive
  <2>5. QED
    BY <2>1, <2>2, <2>3, <2>4
<1>12. CASE ShutdownKill
  <2>1. TypeOK'
    BY <1>12 DEF ShutdownKill, Kill
  <2>2. MutexInv'
    BY <1>12 DEF ShutdownKill, Kill
  <2>3. TrackInv'
    BY <1>12 DEF ShutdownKill, Kill, TrackInv
  <2>4. LateInv'
    BY <1>12 DEF ShutdownKill, Kill, LateInv, TrackInv, ShutdownStopsEarlier, Alive
  <2>5. QED
    BY <2>1, <2>2, <2>3, <2>4
<1>13. CASE Exit
  <2>1. TypeOK'
    BY <1>13 DEF Exit
  <2>2. MutexInv'
    BY <1>13 DEF Exit
  <2>3. TrackInv'
    BY <1>13 DEF Exit, TrackInv
  <2>4. LateInv'
    BY <1>13 DEF Exit, LateInv, TrackInv, ShutdownStopsEarlier, Alive
  <2>5. QED
    BY <2>1, <2>2, <2>3, <2>4
<1>14. CASE World
  <2>1. foreign' \in BOOLEAN
    BY <1>14 DEF World, Foreign, Listen, Hang, Crash
  <2>2. process' \in [Processes -> ProcessState]
    BY <1>14 DEF World, Foreign, Listen, Hang, Crash
  <2>3. UNCHANGED <<mu, ownedCmd, pc, cmd, expired, late>>
    BY <1>14 DEF World, Foreign, Listen, Hang, Crash
  <2>4. \A p \in Processes : process'[p] # "gone" => process[p] # "gone"
    BY <1>14 DEF World, Foreign, Listen, Hang, Crash, Alive
  <2>5. \A p \in Processes : Alive(p)' => Alive(p)
    BY <1>14 DEF World, Foreign, Listen, Hang, Crash, Alive
  <2>6. TypeOK' /\ MutexInv'
    BY <2>1, <2>2, <2>3
  <2>7. TrackInv' /\ LateInv'
    BY <2>3, <2>4, <2>5 DEF TrackInv, LateInv, ShutdownStopsEarlier
  <2>8. QED
    BY <2>6, <2>7
<1>15. CASE UNCHANGED vars
  BY <1>15 DEF vars, TrackInv, LateInv, ShutdownStopsEarlier, Alive
<1>16. QED
  BY <1>1, <1>2, <1>3, <1>4, <1>5, <1>6, <1>7, <1>8, <1>9, <1>10, <1>11, <1>12,
     <1>13, <1>14, <1>15
     DEF Next, EnsureRunning

\* So the inductive invariant holds in every reachable state.
LEMMA Invariance == Spec => []IndInv
  BY InitInv, StepInv, PTL DEF Spec

\* The variables keep their types; in particular the mutex is held by a call
\* or by nobody.
THEOREM TypeCorrect == Spec => []TypeOK
  BY Invariance, PTL DEF IndInv

\* However many requests find the upstream down together, one process is
\* started for them.
THEOREM StartsAreSerialized == Spec => []OneProcess
<1>1. IndInv => OneProcess
  <2> SUFFICES ASSUME IndInv, pc[Main] \in {"serving", "stopping"},
                      NEW p \in Processes, NEW q \in Processes, Alive(p), Alive(q)
               PROVE  p = q
    BY DEF OneProcess
  <2>1. /\ p = ownedCmd \/ \E c \in Callers : p = cmd[c]
        /\ q = ownedCmd \/ \E c \in Callers : q = cmd[c]
    BY DistinctAssumption DEF IndInv, TrackInv, MutexInv, Alive
  <2>2. ASSUME NEW c \in Callers, cmd[c] \in Processes
        PROVE  mu = c /\ ownedCmd = Nobody
    BY <2>2, DistinctAssumption DEF IndInv, MutexInv
  <2>3. CASE \E c \in Callers : p = cmd[c]
    BY <2>1, <2>2, <2>3, DistinctAssumption
  <2>4. CASE p = ownedCmd
    BY <2>1, <2>2, <2>4, DistinctAssumption
  <2>5. QED
    BY <2>1, <2>3, <2>4
<1>2. QED
  BY <1>1, Invariance, PTL

\* Every living upstream process is owned, waited for, or being stopped.
THEOREM EveryProcessIsTracked == Spec => []NoOrphan
<1>1. IndInv => NoOrphan
  BY DEF IndInv, TrackInv, NoOrphan, Alive
<1>2. QED
  BY <1>1, Invariance, PTL

\* Shutdown stops every process started before it.
THEOREM ShutdownIsComplete == Spec => []ShutdownStopsEarlier
<1>1. IndInv => ShutdownStopsEarlier
  BY DEF IndInv, LateInv
<1>2. QED
  BY <1>1, Invariance, PTL

\* However requests, deadlines, crashes and the exit of serve interleave, one
\* process at a time is warded's, none is lost sight of, and those started
\* before Shutdown end with it (EnsureRunning, Shutdown).
THEOREM UpstreamIsAccountedFor == Spec => []ProcessesAccountedFor
  BY StartsAreSerialized, EveryProcessIsTracked, ShutdownIsComplete, PTL
     DEF ProcessesAccountedFor
==============================================================================
