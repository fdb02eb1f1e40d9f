-------------------------- MODULE WardRecord_proofs --------------------------
(***************************************************************************)
(* Proofs about WardRecord, for any number of commands, rules and          *)
(* statuses.                                                               *)
(***************************************************************************)
EXTENDS WardRecord, TLAPS

\* What a process holds at each of its steps.
Holdings ==
  \A p \in Procs :
    /\ pc[p] # "idle" => copy[p] \in Record
    /\ pc[p] \in {"adding", "removing"} => rule[p] \in Rules
    /\ pc[p] \in {"refreshing", "verified"} =>
         /\ reply[p] \in Reply
         /\ reply[p].status \in Statuses
         /\ reply[p].upstream \in Upstreams
    /\ pc[p] = "answered" => reply[p] \in Reply

IndInv == TypeOK /\ Holdings

\* A record whose fields are replaced by values of their kind is a record.
LEMMA RecordEdit ==
  ASSUME NEW r \in Record
  PROVE  /\ \A x \in SUBSET Rules : [r EXCEPT !.rules = x] \in Record
         /\ \A s \in Statuses : [r EXCEPT !.status = s] \in Record
         /\ \A u \in Upstreams : [r EXCEPT !.upstream = u] \in Record
         /\ [r EXCEPT !.renewed = TRUE] \in Record
         /\ r.rules \subseteq Rules
  BY DEF Record

\* The record of a ward that has just been activated is well formed.
LEMMA InitInv == Init => IndInv
<1> SUFFICES ASSUME Init PROVE IndInv
  OBVIOUS
<1>1. disk \in Record
  BY DEF Init, Record, Upstreams, Statuses
<1>2. TypeOK
  BY <1>1 DEF Init, TypeOK, Statuses, PC
<1>3. Holdings
  BY DEF Init, Holdings
<1>4. QED
  BY <1>2, <1>3 DEF IndInv

\* What a process loads, receives and saves keeps the types of everything.
LEMMA StepInv == IndInv /\ [Next]_vars => IndInv'
<1> SUFFICES ASSUME IndInv, [Next]_vars PROVE IndInv'
  OBVIOUS
<1> USE DistinctAssumption, AbsentAssumption
    DEF IndInv, TypeOK, Holdings, PC, procVars, platform, Procs
<1>1. ASSUME NEW p \in Procs, NEW step \in {"renewing", "asking", "loaded"},
             Load(p, step, Absent)
      PROVE  IndInv'
  BY <1>1 DEF Load
<1>2. ASSUME NEW p \in Procs, NEW r \in Rules, AddLoad(p, r) \/ RemoveLoad(p, r)
      PROVE  IndInv'
  BY <1>2 DEF AddLoad, RemoveLoad, Load
<1>3. ASSUME NEW p \in Procs, Exit(p),
             disk' \in Record, enforced' \subseteq Rules, UNCHANGED platform
      PROVE  IndInv'
  BY <1>3 DEF Exit
<1>4. ASSUME NEW p \in Procs, AddSave(p) PROVE IndInv'
  <2>1. disk' \in Record
    BY <1>4, RecordEdit DEF AddSave
  <2>2. QED
    BY <1>3, <1>4, <2>1 DEF AddSave
<1>5. ASSUME NEW p \in Procs, RemoveSave(p) PROVE IndInv'
  <2>1. disk' \in Record
    BY <1>5, RecordEdit DEF RemoveSave
  <2>2. QED
    BY <1>3, <1>5, <2>1 DEF RemoveSave
<1>6. ASSUME NEW p \in Procs, RenewSave(p) PROVE IndInv'
  <2>1. disk' \in Record
    BY <1>6, RecordEdit DEF RenewSave
  <2>2. QED
    BY <1>3, <1>6, <2>1 DEF RenewSave
<1>7. ASSUME NEW p \in Procs, StatusSave(p) PROVE IndInv'
  <2>1. disk' \in Record
    BY <1>7 DEF StatusSave, Record
  <2>2. QED
    BY <1>3, <1>7, <2>1 DEF StatusSave
<1>8. ASSUME NEW p \in Procs,
             GetWard(p, "asking", "refreshing") \/ GetWard(p, "loaded", "verified")
      PROVE  IndInv'
  <2>1. [status |-> ward, upstream |-> known] \in Reply
    BY DEF Reply
  <2>2. QED
    BY <1>8, <2>1 DEF GetWard, Receive
<1>9. CASE HeartbeatAnswered \/ HeartbeatBare
  <2>1. \A s \in Statuses \union {Absent} :
          [status |-> s, upstream |-> Absent] \in Reply
    BY DEF Reply
  <2>2. QED
    BY <1>9, <2>1 DEF HeartbeatAnswered, HeartbeatBare, Receive
<1>10. CASE VerifySave
  <2> DEFINE record == [copy[Serve] EXCEPT !.status = "active"]
  <2>1. record \in Record /\ record.rules \subseteq Rules
    BY <1>10, RecordEdit DEF VerifySave, Statuses
  <2>2. QED
    BY <1>10, <2>1 DEF VerifySave
<1>11. CASE VerifyRefuses
  <2>1. disk' \in Record
    BY <1>11, RecordEdit DEF VerifyRefuses, Statuses
  <2>2. QED
    BY <1>3, <1>11, <2>1 DEF VerifyRefuses
<1>12. CASE HeartbeatSave
  <2> DEFINE record == WithStatus(copy[Serve], reply[Serve].status)
  <2>1. record \in Record
    BY <1>12, RecordEdit DEF HeartbeatSave, WithStatus, Reply
  <2>2. QED
    BY <1>3, <1>12, <2>1 DEF HeartbeatSave
<1>13. ASSUME NEW p \in Procs, Stop(p) PROVE IndInv'
  BY <1>3, <1>13 DEF Stop
<1>14. CASE PlatformChanges
  BY <1>14 DEF PlatformChanges
<1>15. CASE UNCHANGED vars
  BY <1>15 DEF vars
<1>16. QED
  BY <1>1, <1>2, <1>4, <1>5, <1>6, <1>7, <1>8, <1>9, <1>10, <1>11, <1>12,
     <1>13, <1>14, <1>15
     DEF Next, CommandStep, ServeStep, RenewLoad, StatusLoad, ServeLoad

\* So the inductive invariant holds in every reachable state.
LEMMA Invariance == Spec => []IndInv
  BY InitInv, StepInv, PTL DEF Spec

\* In every reachable state the variables have their types; an answer
\* without a status never blanks the status of the record.
THEOREM TypeCorrect == Spec => []TypeOK
  BY Invariance, PTL DEF IndInv

------------------------------------------------------------------------------

\* Each save of a command is an edit of the kind its step allows.
LEMMA CommandSaves ==
  ASSUME IndInv, NEW p \in Commands,
         AddSave(p) \/ RemoveSave(p) \/ RenewSave(p) \/ StatusSave(p)
  PROVE  pc'[p] # pc[p] /\ disk' \in EditsOf(p)
<1> USE DistinctAssumption DEF IndInv, TypeOK, Holdings, Procs
<1>1. p # Serve /\ pc'[p] = "idle"
  BY DEF AddSave, RemoveSave, RenewSave, StatusSave, Exit
<1>2. CASE AddSave(p)
  <2>1. disk' \in Edits!Add(copy[p])
    BY <1>2 DEF AddSave, Edits!Add
  <2>2. QED
    BY <1>1, <1>2, <2>1 DEF AddSave, EditsOf
<1>3. CASE RemoveSave(p)
  <2>1. disk' \in Edits!Remove(copy[p])
    BY <1>3 DEF RemoveSave, Edits!Remove
  <2>2. QED
    BY <1>1, <1>3, <2>1 DEF RemoveSave, EditsOf
<1>4. CASE RenewSave(p)
  <2>1. disk' \in Edits!Renew(copy[p])
    BY <1>4 DEF RenewSave, Edits!Renew
  <2>2. QED
    BY <1>1, <1>4, <2>1 DEF RenewSave, EditsOf
<1>5. CASE StatusSave(p)
  <2>1. reply[p] \in Edits!Answers
    BY <1>5 DEF StatusSave, Edits!Answers, Reply
  <2>2. disk' \in Edits!Refresh(copy[p])
    BY <1>5, <2>1 DEF StatusSave, Edits!Refresh
  <2>3. QED
    BY <1>1, <1>5, <2>2 DEF StatusSave, EditsOf
<1>6. QED
  BY <1>2, <1>3, <1>4, <1>5

\* Each save of serve sets the status of its copy, or saves the copy as it is.
LEMMA ServeSaves ==
  ASSUME IndInv, VerifySave \/ VerifyRefuses \/ HeartbeatSave
  PROVE  pc'[Serve] # pc[Serve] /\ disk' \in EditsOf(Serve)
<1> USE DEF IndInv, TypeOK, Holdings, Procs
<1>1. pc[Serve] \in {"verified", "answered"} /\ pc'[Serve] # pc[Serve]
  BY DEF VerifySave, VerifyRefuses, HeartbeatSave, Exit
<1>2. CASE VerifySave \/ VerifyRefuses
  <2>1. reply[Serve].status \in Statuses
    BY <1>2 DEF VerifySave, VerifyRefuses
  <2>2. disk' = [copy[Serve] EXCEPT !.status = reply[Serve].status]
    BY <1>2 DEF VerifySave, VerifyRefuses
  <2>3. disk' \in Edits!SetStatus(copy[Serve])
    BY <2>1, <2>2 DEF Edits!SetStatus
  <2>4. QED
    BY <1>1, <2>3 DEF EditsOf
<1>3. CASE HeartbeatSave
  <2>1. CASE reply[Serve].status = Absent
    BY <1>1, <1>3, <2>1 DEF HeartbeatSave, WithStatus, EditsOf, Edits!SetStatus
  <2>2. CASE reply[Serve].status # Absent
    <3>1. reply[Serve].status \in Statuses
      BY <1>3, <2>2 DEF HeartbeatSave, Reply
    <3>2. disk' = [copy[Serve] EXCEPT !.status = reply[Serve].status]
      BY <1>3, <2>2 DEF HeartbeatSave, WithStatus
    <3>3. disk' \in Edits!SetStatus(copy[Serve])
      BY <3>1, <3>2 DEF Edits!SetStatus
    <3>4. QED
      BY <1>1, <3>3 DEF EditsOf
  <2>3. QED
    BY <2>1, <2>2
<1>4. QED
  BY <1>2, <1>3

\* Every step but those saves leaves ward.json as it is, and no step gives
\* any process a copy of anything that is not, or is no longer, in ward.json.
LEMMA SaveStep ==
  IndInv /\ [Next]_vars =>
    [/\ UNCHANGED disk \/ \E p \in Procs : pc'[p] # pc[p] /\ disk' \in EditsOf(p)
     /\ \A p \in Procs : copy'[p] \in {copy[p], disk', Absent}]_vars
<1> SUFFICES ASSUME IndInv, Next
             PROVE  /\ \/ UNCHANGED disk
                       \/ \E p \in Procs : pc'[p] # pc[p] /\ disk' \in EditsOf(p)
                    /\ \A p \in Procs : copy'[p] \in {copy[p], disk', Absent}
  OBVIOUS
<1> USE DEF IndInv, TypeOK, Procs
<1> DEFINE Command == \E p \in Commands : AddSave(p) \/ RemoveSave(p) \/ RenewSave(p)
                                             \/ StatusSave(p)
           Serves  == VerifySave \/ VerifyRefuses \/ HeartbeatSave
<1>1. CASE Command
  <2>1. PICK p \in Commands : AddSave(p) \/ RemoveSave(p) \/ RenewSave(p) \/ StatusSave(p)
    BY <1>1
  <2>2. pc'[p] # pc[p] /\ disk' \in EditsOf(p)
    BY <2>1, CommandSaves
  <2>3. copy' = [copy EXCEPT ![p] = Absent]
    BY <2>1 DEF AddSave, RemoveSave, RenewSave, StatusSave, Exit
  <2>4. QED
    BY <2>2, <2>3
<1>2. CASE Serves
  <2>1. pc'[Serve] # pc[Serve] /\ disk' \in EditsOf(Serve)
    BY <1>2, ServeSaves
  <2>2. copy' = [copy EXCEPT ![Serve] = disk'] \/ copy' = [copy EXCEPT ![Serve] = Absent]
    BY <1>2 DEF VerifySave, VerifyRefuses, HeartbeatSave, Exit
  <2>3. QED
    BY <2>1, <2>2
<1>3. CASE ~Command /\ ~Serves
  <2>1. UNCHANGED disk
    BY <1>3
       DEF Next, CommandStep, ServeStep, AddLoad, RemoveLoad, RenewLoad, StatusLoad,
           ServeLoad, Load, GetWard, HeartbeatAnswered, HeartbeatBare, Receive, Stop,
           PlatformChanges
  <2>2. \/ UNCHANGED copy
        \/ \E p \in Procs : copy' = [copy EXCEPT ![p] = disk]
        \/ \E p \in Procs : copy' = [copy EXCEPT ![p] = Absent]
    BY <1>3
       DEF Next, CommandStep, ServeStep, AddLoad, RemoveLoad, RenewLoad, StatusLoad,
           ServeLoad, Load, GetWard, HeartbeatAnswered, HeartbeatBare, Receive, Stop,
           Exit, PlatformChanges, procVars
  <2>3. QED
    BY <2>1, <2>2
<1>4. QED
  BY <1>1, <1>2, <1>3

\* However the commands and serve interleave, and however old the copy a
\* process saves: a save is one edit of the fields that are its business,
\* made to something that was in ward.json.
THEOREM SavesAreSingleEdits == Spec => SavesAreEdits
  BY Invariance, SaveStep, PTL DEF Spec, SavesAreEdits

\* What a process makes of a copy as recent as ward.json edits the record.
LEMMA FreshEdits ==
  ASSUME NEW p \in Procs, copy[p] = disk, disk' \in EditsOf(p)
  PROVE  Edits!Next
<1>1. CASE p = Serve
  BY <1>1 DEF EditsOf, Edits!Next
<1>2. CASE p # Serve
  BY <1>2 DEF EditsOf, Edits!Next
<1>3. QED
  BY <1>1, <1>2

\* So a step that does not take a stale copy edits the record or leaves it.
LEMMA EditStep ==
  IndInv /\ [Next]_vars => [FromStaleCopy \/ Edits!Next \/ UNCHANGED disk]_vars
<1> SUFFICES ASSUME IndInv, Next, ~FromStaleCopy, ~UNCHANGED disk
             PROVE  Edits!Next
  OBVIOUS
<1>1. CASE UNCHANGED vars
  BY <1>1 DEF vars
<1>2. CASE ~UNCHANGED vars
  <2>1. PICK p \in Procs : pc'[p] # pc[p] /\ disk' \in EditsOf(p)
    BY <1>2, SaveStep
  <2>2. copy[p] = disk
    BY <2>1 DEF FromStaleCopy
  <2>3. QED
    BY <2>1, <2>2, FreshEdits
<1>3. QED
  BY <1>1, <1>2

\* What the commands and serve take from each other they take with a copy
\* that is older than ward.json, and not otherwise.
THEOREM EditsAreLostToStaleCopiesOnly == Spec => LostOnlyToStaleCopies
  BY Invariance, EditStep, PTL DEF Spec, LostOnlyToStaleCopies

\* Of all saves of a fresh copy only that of `status` changes the upstream.
LEMMA UpstreamStep ==
  IndInv /\ [Next]_vars =>
    [\/ disk'.upstream = disk.upstream
     \/ FromStaleCopy
     \/ \E p \in Commands : pc[p] = "refreshing" /\ pc'[p] = "idle"]_vars
<1> SUFFICES ASSUME IndInv, Next, ~FromStaleCopy, disk'.upstream # disk.upstream
             PROVE  \E p \in Commands : pc[p] = "refreshing" /\ pc'[p] = "idle"
  OBVIOUS
<1> USE DEF IndInv, TypeOK, Holdings
<1>1. \A p \in Procs : pc'[p] # pc[p] => copy[p] = disk
  BY DEF FromStaleCopy
<1>2. disk \in Record
  OBVIOUS
<1>3. ASSUME NEW p \in Commands, AddSave(p) \/ RemoveSave(p) \/ RenewSave(p)
      PROVE  FALSE
  <2>1. copy[p] = disk
    BY <1>1, <1>3 DEF AddSave, RemoveSave, RenewSave, Exit, Procs
  <2>2. QED
    BY <1>2, <1>3, <2>1 DEF AddSave, RemoveSave, RenewSave, Record
<1>4. CASE VerifySave \/ VerifyRefuses \/ HeartbeatSave
  <2>1. copy[Serve] = disk
    BY <1>1, <1>4 DEF VerifySave, VerifyRefuses, HeartbeatSave, Exit, Procs
  <2>2. QED
    BY <1>2, <1>4, <2>1
       DEF VerifySave, VerifyRefuses, HeartbeatSave, WithStatus, Record
<1>5. ASSUME NEW p \in Commands, StatusSave(p)
      PROVE  pc[p] = "refreshing" /\ pc'[p] = "idle"
  BY <1>5 DEF StatusSave, Exit, Procs
<1>6. QED
  BY <1>3, <1>4, <1>5
     DEF Next, CommandStep, ServeStep, AddLoad, RemoveLoad, RenewLoad, StatusLoad,
         ServeLoad, Load, GetWard, HeartbeatAnswered, HeartbeatBare, Receive, Stop,
         PlatformChanges

\* Neither a start of serve nor a heartbeat replaces the user's upstream
\* configuration; `status` and stale copies can.
THEOREM ServeKeepsConfiguration == Spec => StatusAloneReconfigures
  BY Invariance, UpstreamStep, PTL DEF Spec, StatusAloneReconfigures
==============================================================================
