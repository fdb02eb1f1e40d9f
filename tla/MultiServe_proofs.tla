------------------------- MODULE MultiServe_proofs -------------------------
(***************************************************************************)
(* Proofs about MultiServe for any number of wards.                        *)
(***************************************************************************)
EXTENDS MultiServe, TLAPS

\* Wards are prepared one at a time, and what has been started belongs to the
\* wards before, or to this one on the point of being done.
InTurn ==
  /\ phase = "preparing" =>
       /\ \A w \in Wards : w # turn => step[w] = "off"
       /\ \A w \in running : w < turn \/ (w = turn /\ step[w] = "ready")
  /\ phase = "abandoning" => \A w \in running : w < turn

\* A heartbeat has its error in the channel before it cancels.
ErrorsFirst ==
  /\ \A w \in Wards : step[w] = "cancel" => w \in errs
  /\ \A w \in stopper : w = 0 \/ w \in errs

\* As long as every directory is there, none is moved.
NothingMoves == removed = {} => \A w \in Wards : disk[w] = w /\ step[w] # "move"

IInv ==
  /\ TypeOK /\ InTurn /\ ErrorsFirst /\ NothingMoves
  /\ UpstreamsStopped /\ EndIsReported /\ ForeignRecordIsReplaced

LEMMA WardsAreNumbers == Wards \subseteq Nat \ {0} /\ 1 \in Wards /\ N \in Wards
BY ConstantsAssumption DEF Wards

LEMMA InitIInv == Init => IInv
<1> SUFFICES ASSUME Init PROVE IInv
  OBVIOUS
<1>1. TypeOK
  BY ConstantsAssumption, WardsAreNumbers DEF Init, TypeOK, Wards, Steps, Saving, None
<1>2. InTurn /\ ErrorsFirst /\ NothingMoves
  BY WardsAreNumbers DEF Init, InTurn, ErrorsFirst, NothingMoves, Wards
<1>3. UpstreamsStopped /\ EndIsReported /\ ForeignRecordIsReplaced
  BY DEF Init, UpstreamsStopped, EndIsReported, ForeignRecordIsReplaced
<1> QED
  BY <1>1, <1>2, <1>3 DEF IInv

-----------------------------------------------------------------------------
(* One lemma for each group of actions.                                     *)

\* Asking and saving move one goroutine along and touch neither the process
\* nor the upstreams.
LEMMA SaveIInv ==
  ASSUME IInv, NEW w \in Wards, Answered(w) \/ Unanswered(w) \/ Save(w)
  PROVE  IInv'
<1> USE DEF IInv, Goto
<1>0. w \in Nat /\ w # 0
  BY WardsAreNumbers
<1>1. CASE Answered(w)
  <2>1. over' \subseteq Wards /\ valid' \subseteq Agents
    BY <1>1 DEF Answered, TakeStatus, TakeTokens, TypeOK, memVars
  <2>2. TypeOK'
    BY <1>1, <2>1 DEF Answered, TypeOK, Steps, Saving, procVars, storeVars, platVars
  <2>3. InTurn' /\ ErrorsFirst' /\ NothingMoves'
    BY <1>1 DEF Answered, TypeOK, InTurn, ErrorsFirst, NothingMoves, procVars, storeVars
  <2>4. UpstreamsStopped' /\ EndIsReported' /\ ForeignRecordIsReplaced'
    BY <1>1 DEF Answered, TypeOK, UpstreamsStopped, EndIsReported, ForeignRecordIsReplaced, procVars, storeVars
  <2> QED
    BY <2>2, <2>3, <2>4
<1>2. CASE Unanswered(w)
  <2>1. TypeOK'
    BY <1>2 DEF Unanswered, TypeOK, Steps, procVars, memVars, storeVars, platVars
  <2>2. InTurn' /\ ErrorsFirst' /\ NothingMoves'
    BY <1>2 DEF Unanswered, TypeOK, InTurn, ErrorsFirst, NothingMoves, procVars, storeVars
  <2>3. UpstreamsStopped' /\ EndIsReported' /\ ForeignRecordIsReplaced'
    BY <1>2 DEF Unanswered, TypeOK, UpstreamsStopped, EndIsReported, ForeignRecordIsReplaced, procVars, storeVars
  <2> QED
    BY <2>1, <2>2, <2>3
<1>3. CASE Look(w)
  <2>1. TypeOK'
    BY <1>3 DEF Look, TypeOK, Steps, Saving, procVars, memVars, storeVars, platVars
  <2>2. InTurn' /\ ErrorsFirst'
    BY <1>3 DEF Look, TypeOK, InTurn, ErrorsFirst, procVars, storeVars
  <2>3. NothingMoves'
    BY <1>3 DEF Look, TypeOK, NothingMoves, storeVars
  <2>4. UpstreamsStopped' /\ EndIsReported' /\ ForeignRecordIsReplaced'
    BY <1>3 DEF Look, TypeOK, UpstreamsStopped, EndIsReported, ForeignRecordIsReplaced, procVars, storeVars
  <2> QED
    BY <2>1, <2>2, <2>3, <2>4
<1>4. CASE Move(w)
  <2>0. disk \in [Wards -> 0..N] /\ wardDir \in 0..N /\ wardDir # 0
    BY <1>4 DEF Move, TypeOK, None
  <2>1. wardDir \in Wards /\ disk' \in [Wards -> 0..N]
    <3>1. wardDir \in Wards
      BY <2>0, ConstantsAssumption DEF Wards
    <3>2. disk[wardDir] \in 0..N /\ 0 \in 0..N
      BY <2>0, <3>1, ConstantsAssumption
    <3> QED
      BY <1>4, <2>0, <3>1, <3>2 DEF Move, None
  <2>2. TypeOK'
    BY <1>4, <2>1 DEF Move, TypeOK, Steps, Saving, procVars, memVars, platVars
  <2>3. InTurn' /\ ErrorsFirst'
    BY <1>4 DEF Move, TypeOK, InTurn, ErrorsFirst, procVars
  <2>4. NothingMoves'
    BY <1>4 DEF Move, TypeOK, NothingMoves
  <2>5. ForeignRecordIsReplaced'
    <3>1. \A v \in Wards : v # w => disk'[v] \in {None, disk[v]} /\ step'[v] = step[v]
      BY <1>4, <2>1 DEF Move, TypeOK
    <3>2. step'[w] = "write"
      BY <1>4 DEF Move, TypeOK
    <3> QED
      BY <3>1, <3>2 DEF ForeignRecordIsReplaced
  <2>6. UpstreamsStopped' /\ EndIsReported'
    BY <1>4 DEF Move, UpstreamsStopped, EndIsReported, procVars
  <2> QED
    BY <2>2, <2>3, <2>4, <2>5, <2>6
<1>5. CASE MoveFails(w)
  <2>1. TypeOK'
    BY <1>5 DEF MoveFails, TypeOK, Steps, procVars, memVars, storeVars, platVars
  <2>2. InTurn' /\ ErrorsFirst' /\ NothingMoves'
    BY <1>5 DEF MoveFails, TypeOK, InTurn, ErrorsFirst, NothingMoves, procVars, storeVars
  <2>3. UpstreamsStopped' /\ EndIsReported' /\ ForeignRecordIsReplaced'
    BY <1>5 DEF MoveFails, TypeOK, UpstreamsStopped, EndIsReported, ForeignRecordIsReplaced, procVars, storeVars
  <2> QED
    BY <2>1, <2>2, <2>3
<1>6. CASE Write(w)
  <2>1. disk' \in [Wards -> 0..N] /\ wardDir' \in 0..N /\ w \in 0..N
    <3>1. w \in 0..N
      BY ConstantsAssumption DEF Wards
    <3>2. disk \in [Wards -> 0..N]
      BY DEF TypeOK
    <3> QED
      BY <1>6, <3>1, <3>2 DEF Write
  <2>2. step' \in [Wards -> Steps \union Saving]
    BY <1>6 DEF Write, NextAfterSave, TypeOK, Steps
  <2>3. TypeOK'
    BY <1>6, <2>1, <2>2 DEF Write, TypeOK, procVars, memVars, platVars
  <2>4. \A v \in Wards : v # w => disk'[v] = disk[v] /\ step'[v] = step[v]
    BY <1>6 DEF Write, TypeOK
  <2>5. /\ step[w] = "write" /\ step'[w] \in {"failing", "starting", "waiting"}
        /\ disk'[w] = w \/ (disk'[w] = disk[w] /\ step'[w] = "failing")
    BY <1>6 DEF Write, NextAfterSave, TypeOK
  <2>6. UNCHANGED <<phase, turn, result, errs, stopper, running, removed>>
    BY <1>6 DEF Write, procVars
  <2>7. InTurn' /\ ErrorsFirst'
    BY <2>4, <2>5, <2>6 DEF InTurn, ErrorsFirst, TypeOK
  <2>8. NothingMoves'
    BY <2>4, <2>5, <2>6 DEF NothingMoves
  <2>9. UpstreamsStopped' /\ EndIsReported' /\ ForeignRecordIsReplaced'
    BY <2>4, <2>5, <2>6 DEF UpstreamsStopped, EndIsReported, ForeignRecordIsReplaced
  <2> QED
    BY <2>3, <2>7, <2>8, <2>9
<1> QED
  BY <1>1, <1>2, <1>3, <1>4, <1>5, <1>6 DEF Save

\* Preparation: only the ward whose turn it is has a goroutine at work.
LEMMA PrepareIInv ==
  ASSUME IInv, NEW w \in Wards, Prepare(w)
  PROVE  IInv'
<1> USE DEF IInv, Goto
<1>0. w \in Nat /\ w # 0 /\ N \in Nat
  BY WardsAreNumbers, ConstantsAssumption
<1>1. phase = "preparing" /\ w = turn
  BY DEF Prepare, StartUpstream, NoProvider, Prepared, PrepareFails, InTurn
<1>2. CASE StartUpstream(w)
  <2>1. running' \subseteq running \union {w} /\ running' \subseteq Managed
    BY <1>2 DEF StartUpstream, TypeOK
  <2>2. TypeOK'
    BY <1>2, <2>1 DEF StartUpstream, TypeOK, Steps, procVars, memVars, storeVars, platVars
  <2>3. InTurn'
    BY <1>1, <1>2, <2>1 DEF StartUpstream, TypeOK, InTurn, procVars
  <2>4. ErrorsFirst' /\ NothingMoves'
    BY <1>2 DEF StartUpstream, TypeOK, ErrorsFirst, NothingMoves, procVars, storeVars
  <2>5. UpstreamsStopped' /\ EndIsReported' /\ ForeignRecordIsReplaced'
    BY <1>1, <1>2 DEF StartUpstream, TypeOK, UpstreamsStopped, EndIsReported, ForeignRecordIsReplaced, procVars, storeVars
  <2> QED
    BY <2>2, <2>3, <2>4, <2>5
<1>3. CASE NoProvider(w)
  <2>1. TypeOK'
    BY <1>3 DEF NoProvider, TypeOK, Steps, procVars, memVars, storeVars, platVars
  <2>2. InTurn'
    BY <1>1, <1>3 DEF NoProvider, TypeOK, InTurn, procVars
  <2>3. ErrorsFirst' /\ NothingMoves'
    BY <1>3 DEF NoProvider, TypeOK, ErrorsFirst, NothingMoves, procVars, storeVars
  <2>4. UpstreamsStopped' /\ EndIsReported' /\ ForeignRecordIsReplaced'
    BY <1>1, <1>3 DEF NoProvider, TypeOK, UpstreamsStopped, EndIsReported, ForeignRecordIsReplaced, procVars, storeVars
  <2> QED
    BY <2>1, <2>2, <2>3, <2>4
<1>4. CASE Prepared(w)
  <2>1. turn' = turn + 1 /\ turn' \in 1..(N + 1) /\ turn \in Nat
    <3>1. turn \in 1..N
      BY <1>1 DEF Wards
    <3>2. turn' = turn + 1
      BY <1>4 DEF Prepared
    <3> QED
      BY <1>0, <3>1, <3>2
  <2>2. step' \in [Wards -> Steps \union Saving]
    BY <1>4 DEF Prepared, TypeOK, Steps
  <2>3. TypeOK'
    BY <1>4, <2>1, <2>2 DEF Prepared, TypeOK, memVars, storeVars, platVars
  <2>4. \A v \in Wards : step'[v] = IF v = turn + 1 THEN "asking" ELSE "off"
    <3> TAKE v \in Wards
    <3>1. v # w => step[v] = "off"
      BY <1>1 DEF InTurn
    <3>2. w # turn + 1
      BY <1>1, <2>1
    <3> QED
      BY <1>4, <3>1, <3>2 DEF Prepared
  <2>5. UNCHANGED <<phase, result, errs, stopper, running, disk, removed>>
    BY <1>4 DEF Prepared, storeVars
  <2>6. InTurn'
    <3>1. \A v \in running : v \in Nat /\ v < turn + 1
      <4>1. running \subseteq Nat
        BY ConstantsAssumption, WardsAreNumbers DEF TypeOK
      <4>2. \A v \in running : v < turn \/ v = turn
        BY <1>1 DEF InTurn
      <4> QED
        BY <2>1, <4>1, <4>2
    <3> QED
      BY <1>1, <2>1, <2>4, <2>5, <3>1 DEF InTurn
  <2>7. ErrorsFirst' /\ NothingMoves'
    BY <2>4, <2>5 DEF ErrorsFirst, NothingMoves
  <2>8. ForeignRecordIsReplaced'
    <3>1. \A v \in Wards : disk[v] \in {None, v}
      BY <1>1, <1>4 DEF Prepared, InTurn, ForeignRecordIsReplaced
    <3> QED
      BY <2>5, <3>1 DEF ForeignRecordIsReplaced
  <2>9. UpstreamsStopped' /\ EndIsReported'
    BY <2>5 DEF UpstreamsStopped, EndIsReported
  <2> QED
    BY <2>3, <2>6, <2>7, <2>8, <2>9
<1>5. CASE PrepareFails(w)
  <2>1. TypeOK'
    BY <1>5 DEF PrepareFails, TypeOK, Steps, memVars, storeVars, platVars
  <2>2. InTurn'
    BY <1>1, <1>5 DEF PrepareFails, TypeOK, InTurn
  <2>3. ErrorsFirst' /\ NothingMoves'
    BY <1>5 DEF PrepareFails, TypeOK, ErrorsFirst, NothingMoves, storeVars
  <2>4. UpstreamsStopped' /\ EndIsReported' /\ ForeignRecordIsReplaced'
    BY <1>5 DEF PrepareFails, TypeOK, UpstreamsStopped, EndIsReported, ForeignRecordIsReplaced, storeVars
  <2> QED
    BY <2>1, <2>2, <2>3, <2>4
<1> QED
  BY <1>2, <1>3, <1>4, <1>5 DEF Prepare

\* The heartbeats of a serving process.
LEMMA BeatIInv ==
  ASSUME IInv, NEW w \in Wards, Beat(w) \/ Report(w) \/ CancelServe(w)
  PROVE  IInv'
<1> USE DEF IInv, Goto
<1>0. w \in Nat /\ w # 0 /\ w \in 0..N
  BY WardsAreNumbers, ConstantsAssumption DEF Wards
<1>1. CASE Beat(w)
  <2>1. TypeOK'
    BY <1>1 DEF Beat, TypeOK, Steps, procVars, memVars, storeVars, platVars
  <2>2. InTurn' /\ ErrorsFirst' /\ NothingMoves'
    BY <1>1 DEF Beat, TypeOK, InTurn, ErrorsFirst, NothingMoves, procVars, storeVars
  <2>3. UpstreamsStopped' /\ EndIsReported' /\ ForeignRecordIsReplaced'
    BY <1>1 DEF Beat, TypeOK, UpstreamsStopped, EndIsReported, ForeignRecordIsReplaced, procVars, storeVars
  <2> QED
    BY <2>1, <2>2, <2>3
<1>2. CASE Report(w)
  <2>1. TypeOK'
    BY <1>2 DEF Report, TypeOK, Steps, memVars, storeVars, platVars
  <2>2. InTurn' /\ ErrorsFirst' /\ NothingMoves'
    BY <1>2 DEF Report, TypeOK, InTurn, ErrorsFirst, NothingMoves, storeVars
  <2>3. UpstreamsStopped' /\ EndIsReported' /\ ForeignRecordIsReplaced'
    BY <1>2 DEF Report, TypeOK, UpstreamsStopped, EndIsReported, ForeignRecordIsReplaced, storeVars
  <2> QED
    BY <2>1, <2>2, <2>3
<1>3. CASE CancelServe(w)
  <2>1. stopper' \in {stopper, {w}} /\ w \in errs /\ errs' = errs
    BY <1>3 DEF CancelServe, Cancel, ErrorsFirst
  <2>2. TypeOK'
    BY <1>0, <1>3, <2>1 DEF CancelServe, TypeOK, Steps, memVars, storeVars, platVars
  <2>3. InTurn' /\ NothingMoves'
    BY <1>3 DEF CancelServe, TypeOK, InTurn, NothingMoves, storeVars
  <2>4. ErrorsFirst'
    BY <1>3, <2>1 DEF CancelServe, TypeOK, ErrorsFirst
  <2>5. EndIsReported'
    BY <1>3 DEF CancelServe, Cancel, Cancelled, EndIsReported
  <2>6. UpstreamsStopped' /\ ForeignRecordIsReplaced'
    BY <1>3 DEF CancelServe, TypeOK, UpstreamsStopped, ForeignRecordIsReplaced, storeVars
  <2> QED
    BY <2>2, <2>3, <2>4, <2>5, <2>6
<1> QED
  BY <1>1, <1>2, <1>3

\* The end of the process takes the goroutines along.
LEMMA ExitIInv ==
  ASSUME IInv, NEW r, ExitWith(r), r \in {"prepare error", "killed", result},
         r = "killed" \/ running' = {}, running' \subseteq running,
         UNCHANGED <<turn, errs, stopper, memVars, storeVars, platVars>>
  PROVE  IInv'
<1> USE DEF IInv, ExitWith
<1>1. TypeOK'
  BY DEF TypeOK, Steps, memVars, storeVars, platVars
<1>2. InTurn' /\ ErrorsFirst' /\ NothingMoves'
  BY DEF InTurn, ErrorsFirst, NothingMoves, storeVars
<1>3. UpstreamsStopped' /\ EndIsReported' /\ ForeignRecordIsReplaced'
  BY DEF UpstreamsStopped, EndIsReported, ForeignRecordIsReplaced, storeVars
<1> QED
  BY <1>1, <1>2, <1>3

\* The main goroutine.
LEMMA ProcessIInv ==
  ASSUME IInv, Process \/ Kill \/ Signal \/ ListenFails
  PROVE  IInv'
<1> USE DEF IInv
<1>1. CASE Abandon
  <2>1. running' = {}
    <3>1. \A w \in running : w \in Nat /\ w < turn
      <4>1. running \subseteq Nat
        BY WardsAreNumbers, ConstantsAssumption DEF TypeOK
      <4>2. \A w \in running : w < turn
        BY <1>1 DEF Abandon, InTurn
      <4> QED
        BY <4>1, <4>2
    <3>2. turn \in Nat
      <4>1. turn \in 1..(N + 1) /\ N \in Nat
        BY ConstantsAssumption DEF TypeOK
      <4> QED
        BY <4>1
    <3>3. \A w \in running : ~(w >= turn)
      BY <3>1, <3>2
    <3>4. running' = {w \in running : w >= turn}
      BY <1>1 DEF Abandon
    <3> QED
      BY <3>3, <3>4
  <2> QED
    BY <1>1, <2>1, ExitIInv DEF Abandon
<1>2. CASE Kill
  BY <1>2, ExitIInv DEF Kill
<1>3. CASE Leave
  BY <1>3, ExitIInv DEF Leave
<1>4. CASE StartServing
  <2>1. \A w \in Wards : step[w] = "off" /\ w # turn
    BY <1>4, ConstantsAssumption DEF StartServing, InTurn, Wards
  <2>2. TypeOK'
    BY <1>4 DEF StartServing, TypeOK, Steps, memVars, storeVars, platVars
  <2>3. InTurn' /\ ErrorsFirst' /\ NothingMoves'
    BY <1>4 DEF StartServing, InTurn, ErrorsFirst, NothingMoves, storeVars
  <2>4. ForeignRecordIsReplaced'
    BY <1>4, <2>1 DEF StartServing, ForeignRecordIsReplaced, storeVars
  <2>5. UpstreamsStopped' /\ EndIsReported'
    BY <1>4 DEF StartServing, UpstreamsStopped, EndIsReported
  <2> QED
    BY <2>2, <2>3, <2>4, <2>5
<1>5. CASE ServeReturns \/ ListenFails
  <2>1. /\ result' \in {"heartbeat error", "ok", "listen error"}
        /\ result' = "ok" => stopper # {} /\ errs = {}
    BY <1>5 DEF ServeReturns, ListenFails, Outcome
  <2>2. phase' = "stopping" /\ UNCHANGED <<turn, errs, stopper, step, memVars, running, storeVars, platVars>>
    BY <1>5 DEF ServeReturns, ListenFails
  <2>3. TypeOK'
    BY <2>1, <2>2 DEF TypeOK, memVars, storeVars, platVars
  <2>4. EndIsReported'
    <3>1. ASSUME result' = "ok" PROVE stopper = {0}
      BY <2>1, <3>1 DEF ErrorsFirst
    <3> QED
      BY <2>2, <3>1 DEF EndIsReported
  <2>5. InTurn' /\ ErrorsFirst' /\ NothingMoves'
    BY <2>2 DEF InTurn, ErrorsFirst, NothingMoves, storeVars
  <2>6. UpstreamsStopped' /\ ForeignRecordIsReplaced'
    BY <2>2 DEF UpstreamsStopped, ForeignRecordIsReplaced, storeVars
  <2> QED
    BY <2>3, <2>4, <2>5, <2>6
<1>6. CASE Signal
  <2>1. 0 \in 0..N
    BY ConstantsAssumption
  <2>2. TypeOK'
    BY <1>6, <2>1 DEF Signal, TypeOK, memVars, storeVars, platVars
  <2>3. InTurn' /\ ErrorsFirst' /\ NothingMoves'
    BY <1>6 DEF Signal, InTurn, ErrorsFirst, NothingMoves, storeVars
  <2>4. UpstreamsStopped' /\ EndIsReported' /\ ForeignRecordIsReplaced'
    BY <1>6 DEF Signal, UpstreamsStopped, EndIsReported, ForeignRecordIsReplaced, storeVars
  <2> QED
    BY <2>2, <2>3, <2>4
<1> QED
  BY <1>1, <1>2, <1>3, <1>4, <1>5, <1>6 DEF Process

\* Requests, the platform and the user.
LEMMA OthersIInv ==
  ASSUME IInv, NEW w \in Wards, Revive(w) \/ Environment(w)
  PROVE  IInv'
<1> USE DEF IInv
<1>1. CASE Revive(w)
  <2>1. TypeOK'
    BY <1>1 DEF Revive, TypeOK, procVars, memVars, storeVars, platVars
  <2>2. InTurn' /\ ErrorsFirst' /\ NothingMoves'
    BY <1>1 DEF Revive, InTurn, ErrorsFirst, NothingMoves, procVars, storeVars
  <2>3. UpstreamsStopped' /\ EndIsReported' /\ ForeignRecordIsReplaced'
    BY <1>1 DEF Revive, UpstreamsStopped, EndIsReported, ForeignRecordIsReplaced, procVars, storeVars
  <2> QED
    BY <2>1, <2>2, <2>3
<1>2. CASE EndWard(w) \/ Revoke(w)
  <2>1. ended' \subseteq Wards /\ granted' \subseteq Agents
    BY <1>2 DEF EndWard, Revoke, TypeOK
  <2>2. UNCHANGED <<procVars, step, memVars, running, storeVars>>
    BY <1>2 DEF EndWard, Revoke
  <2>3. TypeOK'
    BY <2>1, <2>2 DEF TypeOK, procVars, memVars, storeVars
  <2>4. InTurn' /\ ErrorsFirst' /\ NothingMoves'
    BY <2>2 DEF InTurn, ErrorsFirst, NothingMoves, procVars, storeVars
  <2>5. UpstreamsStopped' /\ EndIsReported' /\ ForeignRecordIsReplaced'
    BY <2>2 DEF UpstreamsStopped, EndIsReported, ForeignRecordIsReplaced, procVars, storeVars
  <2> QED
    BY <2>3, <2>4, <2>5
<1>3. CASE Remove(w)
  <2>1. disk' \in [Wards -> 0..N]
    <3>1. disk \in [Wards -> 0..N]
      BY DEF TypeOK
    <3>2. 0 \in 0..N
      BY ConstantsAssumption
    <3> QED
      BY <1>3, <3>1, <3>2 DEF Remove, None
  <2>2. TypeOK'
    BY <1>3, <2>1 DEF Remove, TypeOK, procVars, memVars, platVars
  <2>3. InTurn' /\ ErrorsFirst' /\ NothingMoves'
    BY <1>3 DEF Remove, InTurn, ErrorsFirst, NothingMoves, procVars
  <2>4. UpstreamsStopped' /\ EndIsReported' /\ ForeignRecordIsReplaced'
    BY <1>3 DEF Remove, TypeOK, UpstreamsStopped, EndIsReported, ForeignRecordIsReplaced, procVars
  <2> QED
    BY <2>2, <2>3, <2>4
<1> QED
  BY <1>1, <1>2, <1>3 DEF Environment

LEMMA NextIInv == IInv /\ [Next]_vars => IInv'
<1> SUFFICES ASSUME IInv, [Next]_vars PROVE IInv'
  OBVIOUS
<1>1. CASE UNCHANGED vars
  BY <1>1 DEF IInv, TypeOK, InTurn, ErrorsFirst, NothingMoves, UpstreamsStopped, EndIsReported,
              ForeignRecordIsReplaced, vars, procVars, memVars, storeVars, platVars
<1>2. ASSUME NEW w \in Wards, Prepare(w) \/ Heartbeat(w) \/ Revive(w) \/ Environment(w)
      PROVE  IInv'
  BY <1>2, PrepareIInv, SaveIInv, BeatIInv, OthersIInv DEF Heartbeat
<1> QED
  BY <1>1, <1>2, ProcessIInv DEF Next

-----------------------------------------------------------------------------

\* Every state of MultiServe satisfies the inductive invariant.
THEOREM Invariance == Spec => []IInv
  BY InitIInv, NextIInv, PTL DEF Spec

\* The state of serve keeps to its types; serveCtx is cancelled once.
THEOREM TypeCorrect == Spec => []TypeOK
<1>1. IInv => TypeOK
  BY DEF IInv
<1> QED
  BY <1>1, Invariance, PTL

\* However many wards are prepared and whichever fails, and however serve
\* stops, no managed upstream is left (prepareServeRuntimes, deferred Shutdown).
THEOREM NoUpstreamLeft == Spec => []UpstreamsStopped
<1>1. IInv => UpstreamsStopped
  BY DEF IInv
<1> QED
  BY <1>1, Invariance, PTL

\* An end brought about by a heartbeat is never taken for success: startServeHeartbeat
\* sends before it cancels, and serve looks after it has been cancelled.
THEOREM NoSilentEnd == Spec => []EndIsReported
<1>1. IInv => EndIsReported
  BY DEF IInv
<1> QED
  BY <1>1, Invariance, PTL

\* However serve of several wards comes to its end, but for a kill, it leaves no
\* upstream and does not take a failed heartbeat for success (serve.go:163-215).
THEOREM ExitIsClean == Spec => []CleanExit
  BY NoUpstreamLeft, NoSilentEnd, PTL DEF CleanExit

\* One JSONStore without a lock serves the saves of any number of wards: their
\* directories stay theirs while none is removed (SaveWardRuntime), and a
\* directory renamed in place of a removed one is written over at once, or the
\* heartbeat that renamed it stops.
THEOREM SharedStoreIsHarmless == Spec => []RecordsStayHome
<1>1. IInv => RecordsStayHome
  BY DEF IInv, NothingMoves, RecordsStayHome
<1> QED
  BY <1>1, Invariance, PTL
=============================================================================
