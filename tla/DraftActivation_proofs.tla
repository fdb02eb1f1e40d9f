------------------------ MODULE DraftActivation_proofs ------------------------
(***************************************************************************)
(* For any number of overlapping commands and of drafts, with kills at     *)
(* every step: no record puts the id of one draft next to the secret of    *)
(* another (IInv), and where `new` is left alone the commands implement    *)
(* Enrollment and never lose a ward (Kept).                                *)
(***************************************************************************)
EXTENDS DraftActivation, TLAPS

\* A record that is no ward's has a secret wherever it has a draft id: a
\* fresh secret is drawn only for a record without an id.
Sound(r) ==
  /\ Absent \in {r.draft, r.secret} \/ r.draft = r.secret
  /\ r.ward = Absent /\ r.draft # Absent => r.secret # Absent

StoreSound ==
  /\ \A n \in Dirs : Exists(n) => Sound(dirs[n])
  /\ Exists(Pending) => dirs[Pending].ward = Absent

HasDir == {"asking", "finalizing", "starting", "claiming", "claimed", "saving", "writing"}
InNewSteps == {"merged", "submitting", "checking", "creating", "refused",
               "created", "committing", "moving"}

CommandsSound ==
  \A p \in Procs :
    /\ Sound(copy[p])
    /\ pc[p] \in HasDir => at[p] \in Dirs
    /\ pc[p] \in InNewSteps => copy[p].ward = Absent
    /\ pc[p] = "writing" /\ at[p] = Pending => copy[p].ward = Absent

IInv == TypeOK /\ StoreSound /\ CommandsSound

------------------------------------------------------------------------------

LEMMA Names ==
  /\ Blank \in Record
  /\ Pending \in Dirs
  /\ \A d \in Drafts : DraftDir(d) \in Dirs /\ WardDir(d) \in Dirs /\ WardDir(d) # Pending
BY DEF Blank, Record, Maybe, Pending, Dirs, Committed, DraftDir, WardDir

LEMMA TargetIsDir ==
  ASSUME NEW r \in Record, NEW dir \in Dirs \union {Absent}
  PROVE  /\ Target(r, dir) \in Dirs
         /\ Target(r, dir) = Pending => r.ward = Absent
BY Names DEF Target, Record, Maybe

\* What is read from .pending can be completed with a secret.
LEMMA PendingRead ==
  ASSUME IInv, NEW d \in Drafts, NEW old, old \in {Blank, Load(Pending)}
  PROVE  LET r == WithSecret(old, d) IN r \in Record /\ Sound(r) /\ r.ward = Absent
<1>1. old \in Record /\ Sound(old) /\ old.ward = Absent
  BY Names DEF IInv, TypeOK, StoreSound, Load, Exists, Sound, Blank
<1> QED
  BY <1>1 DEF WithSecret, Record, Maybe, Sound

\* Saving a sound record to .pending.
LEMMA PendingWritten ==
  ASSUME IInv, NEW r \in Record, Sound(r), r.ward = Absent, WritePending(r)
  PROVE  /\ dirs' \in [Dirs -> Record \union {Absent}]
         /\ StoreSound'
<1>1. [r EXCEPT !.ward = Absent] = r
  BY DEF Record
<1>2. dirs' = [dirs EXCEPT ![Pending] = r]
  BY <1>1 DEF WritePending, Write
<1> QED
  BY <1>2, Names DEF IInv, TypeOK, StoreSound, Exists

\* Saving a sound record to any directory.
LEMMA RecordWritten ==
  ASSUME IInv, NEW r \in Record, Sound(r), NEW n \in Dirs,
         n = Pending => r.ward = Absent, Write(n, r)
  PROVE  /\ dirs' \in [Dirs -> Record \union {Absent}]
         /\ StoreSound'
BY Names DEF IInv, TypeOK, StoreSound, Exists, Write

LEMMA DirRenamed ==
  ASSUME IInv, NEW n \in Dirs, NEW m \in Dirs, m # Pending, Exists(n), Rename(n, m)
  PROVE  /\ dirs' \in [Dirs -> Record \union {Absent}]
         /\ StoreSound'
BY Names DEF IInv, TypeOK, StoreSound, Exists, Rename

------------------------------------------------------------------------------

LEMMA InitSound == Init => IInv
BY Names DEF Init, IInv, TypeOK, StoreSound, CommandsSound, HasDir, InNewSteps,
   Exists, Sound, Blank, Record, Maybe

\* The end of a command, and every kill.
LEMMA ExitSound ==
  ASSUME IInv, NEW p \in Procs, Exit(p),
         dirs' \in [Dirs -> Record \union {Absent}], StoreSound',
         platform' = platform, drawn' = drawn, careful' = careful
  PROVE  IInv'
<1>1. Sound(Blank)
  BY DEF Sound, Blank
<1> QED
  BY <1>1, Names DEF IInv, TypeOK, CommandsSound, HasDir, InNewSteps, Exit

\* A step that leaves the directories alone and hands the command a record.
LEMMA CopySound ==
  ASSUME IInv, NEW p \in Procs, NEW r \in Record, Sound(r),
         NEW s \in (HasDir \ {"writing"}) \union InNewSteps,
         pc' = [pc EXCEPT ![p] = s],
         copy' = [copy EXCEPT ![p] = r],
         s \in InNewSteps => r.ward = Absent,
         s \in HasDir => at'[p] \in Dirs,
         at' \in [Procs -> Dirs \union {Absent}],
         \A q \in Procs \ {p} : at'[q] = at[q],
         had' \in [Procs -> BOOLEAN],
         dirs' \in [Dirs -> Record \union {Absent}], StoreSound',
         platform' \in [Drafts -> {"none", "open", "converted", "claimed", "dead"}],
         drawn' \subseteq Drafts, careful' = careful
  PROVE  IInv'
<1>1. TypeOK'
  BY DEF IInv, TypeOK, HasDir, InNewSteps
<1>2. CommandsSound'
  <2> SUFFICES ASSUME NEW q \in Procs
               PROVE  /\ Sound(copy'[q])
                      /\ pc'[q] \in HasDir => at'[q] \in Dirs
                      /\ pc'[q] \in InNewSteps => copy'[q].ward = Absent
                      /\ pc'[q] = "writing" /\ at'[q] = Pending => copy'[q].ward = Absent
    BY DEF CommandsSound, Sound, HasDir, InNewSteps
  <2>1. CASE q = p
    BY <2>1 DEF IInv, TypeOK, CommandsSound, HasDir, InNewSteps
  <2>2. CASE q # p
    BY <2>2 DEF IInv, TypeOK, CommandsSound
  <2> QED
    BY <2>1, <2>2
<1> QED
  BY <1>1, <1>2 DEF IInv

------------------------------------------------------------------------------

LEMMA NewStep ==
  ASSUME IInv, NEW p \in Procs, New(p)
  PROVE  IInv'
<1> USE DEF storeVars, procVars
<1>0. IInv => StoreSound /\ CommandsSound /\ TypeOK
  BY DEF IInv
<1>1. ASSUME NEW d \in Drafts, NewMerge(p, d) PROVE IInv'
  <2> DEFINE r == WithSecret(Load(Pending), d)
  <2>1. r \in Record /\ Sound(r) /\ r.ward = Absent
    BY PendingRead
  <2> HIDE DEF r
  <2>2. copy' = [copy EXCEPT ![p] = r]
    BY <1>1 DEF NewMerge, r
  <2>3. /\ pc' = [pc EXCEPT ![p] = "merged"]
        /\ UNCHANGED <<dirs, platform, at, careful>>
        /\ drawn' \subseteq Drafts
        /\ had' = [had EXCEPT ![p] = Exists(Pending)]
    BY <1>0, <1>1 DEF NewMerge, Goto, Draws, TypeOK
  <2>4. had' \in [Procs -> BOOLEAN]
    BY <1>0, <2>3 DEF TypeOK, Exists
  <2> QED
    BY <1>0, <2>1, <2>2, <2>3, <2>4, CopySound
    DEF HasDir, InNewSteps, TypeOK, StoreSound, Exists
<1>2. ASSUME NEW d \in Drafts, ExecuteLoad(p, d) PROVE IInv'
  <2> DEFINE r == WithSecret(Load(Pending), d)
             s == IF Load(Pending).draft # Absent THEN "checking" ELSE "creating"
  <2>1. r \in Record /\ Sound(r) /\ r.ward = Absent
    BY PendingRead
  <2>2. s \in {"checking", "creating"}
    OBVIOUS
  <2> HIDE DEF r, s
  <2>3. copy' = [copy EXCEPT ![p] = r] /\ pc' = [pc EXCEPT ![p] = s]
    BY <1>2 DEF ExecuteLoad, Goto, r, s
  <2>4. UNCHANGED <<dirs, platform, at, had, careful>> /\ drawn' \subseteq Drafts
    BY <1>0, <1>2 DEF ExecuteLoad, Draws, TypeOK
  <2> QED
    BY <1>0, <2>1, <2>2, <2>3, <2>4, CopySound
    DEF HasDir, InNewSteps, TypeOK, StoreSound, Exists
<1>3. ASSUME NEW d \in Drafts, CheckDeadDraft(p, d) \/ CreateRefused(p, d) PROVE IInv'
  <2> DEFINE r == WithSecret(Blank, d)
             s == IF CheckDeadDraft(p, d) THEN "creating" ELSE "refused"
  <2>1. r \in Record /\ Sound(r) /\ r.ward = Absent
    BY PendingRead
  <2>2. Blank \in Record /\ Sound(Blank) /\ Blank.ward = Absent
    BY Names DEF Sound, Blank
  <2> HIDE DEF r, s
  <2>3. /\ copy' = [copy EXCEPT ![p] = r] /\ pc' = [pc EXCEPT ![p] = s]
        /\ WritePending(Blank) \/ WritePending(r)
        /\ s \in {"creating", "refused"}
    BY <1>3 DEF CheckDeadDraft, CreateRefused, Goto, r, s
  <2>4. dirs' \in [Dirs -> Record \union {Absent}] /\ StoreSound'
    BY <2>1, <2>2, <2>3, PendingWritten
  <2> QED
    BY <1>0, <1>3, <2>1, <2>3, <2>4, CopySound
    DEF CheckDeadDraft, CreateRefused, Draws, HasDir, InNewSteps, TypeOK
<1>4. CASE NewSave(p)
  <2>1. copy[p] \in Record /\ Sound(copy[p]) /\ copy[p].ward = Absent
    BY <1>0, <1>4 DEF NewSave, CommandsSound, InNewSteps, TypeOK
  <2> QED
    BY <1>4, <2>1, PendingWritten, ExitSound DEF NewSave
<1>5. CASE NewSubmit(p)
  <2> DEFINE r == [copy[p] EXCEPT !.draft = Absent]
  <2>1. copy[p] \in Record /\ Sound(copy[p]) /\ copy[p].ward = Absent
    BY <1>0, <1>5 DEF NewSubmit, Goto, CommandsSound, InNewSteps, TypeOK
  <2>2. r \in Record /\ Sound(r) /\ r.ward = Absent
    BY <2>1 DEF Record, Maybe, Sound
  <2> HIDE DEF r
  <2>3. dirs' \in [Dirs -> Record \union {Absent}] /\ StoreSound'
    BY <1>5, <2>2, PendingWritten DEF NewSubmit, r
  <2>4. copy' = [copy EXCEPT ![p] = copy[p]]
    BY <1>0, <1>5 DEF NewSubmit, TypeOK
  <2> QED
    BY <1>0, <1>5, <2>1, <2>3, <2>4, CopySound
    DEF NewSubmit, Goto, HasDir, InNewSteps, TypeOK
<1>6. CASE CheckDraft(p)
  <2>1. copy[p] \in Record /\ Sound(copy[p]) /\ copy[p].ward = Absent
    BY <1>0, <1>6 DEF CheckDraft, Goto, CommandsSound, InNewSteps, TypeOK
  <2>2. copy' = [copy EXCEPT ![p] = copy[p]]
    BY <1>0, <1>6 DEF CheckDraft, TypeOK
  <2> QED
    BY <1>0, <1>6, <2>1, <2>2, CopySound
    DEF CheckDraft, Goto, HasDir, InNewSteps, TypeOK, StoreSound, Exists
<1>7. CASE Create(p)
  <2> DEFINE r == [copy[p] EXCEPT !.draft = IF @ = Absent THEN copy[p].secret ELSE @]
  <2>1. copy[p] \in Record /\ Sound(copy[p]) /\ copy[p].ward = Absent
    BY <1>0, <1>7 DEF Create, CommandsSound, InNewSteps, TypeOK
  <2>2. r \in Record /\ Sound(r) /\ r.ward = Absent
    BY <2>1 DEF Record, Maybe, Sound
  <2>3. copy' = [copy EXCEPT ![p] = r]
    BY <1>7 DEF Create
  <2> HIDE DEF r
  <2> QED
    BY <1>0, <1>7, <2>2, <2>3, CopySound
    DEF Create, HasDir, InNewSteps, TypeOK, StoreSound, Exists
<1>8. CASE CreateSave(p)
  <2>1. copy[p] \in Record /\ Sound(copy[p]) /\ copy[p].ward = Absent
    BY <1>0, <1>8 DEF CreateSave, CommandsSound, InNewSteps, TypeOK
  <2>2. dirs' \in [Dirs -> Record \union {Absent}] /\ StoreSound'
    BY <1>8, <2>1, PendingWritten DEF CreateSave
  <2>3. CASE had[p]
    <3>1. copy' = [copy EXCEPT ![p] = copy[p]]
      BY <1>0, <1>8, <2>3 DEF CreateSave, TypeOK
    <3>2. pc' = [pc EXCEPT ![p] = "committing"] /\ UNCHANGED <<platform, drawn, at, had, careful>>
      BY <1>8, <2>3 DEF CreateSave, Goto
    <3> QED
      BY <1>0, <2>1, <2>2, <3>1, <3>2, CopySound DEF HasDir, InNewSteps, TypeOK
  <2>4. CASE ~had[p]
    BY <1>8, <2>2, <2>4, ExitSound DEF CreateSave
  <2> QED
    BY <2>3, <2>4
<1>9. CASE CommitLoad(p)
  <2>1. dirs[Pending] \in Record /\ Sound(dirs[Pending]) /\ dirs[Pending].ward = Absent
    BY <1>0, <1>9, Names DEF CommitLoad, StoreSound, TypeOK, Exists
  <2> QED
    BY <1>0, <1>9, <2>1, CopySound
    DEF CommitLoad, Goto, HasDir, InNewSteps, TypeOK, StoreSound, Exists
<1>10. CASE CommitMove(p)
  <2> DEFINE target == Target(copy[p], Absent)
  <2>1. copy[p] \in Record /\ Sound(copy[p]) /\ copy[p].ward = Absent
    BY <1>0, <1>10 DEF CommitMove, Goto, CommandsSound, InNewSteps, TypeOK
  <2>2. target \in Dirs
    BY <2>1, TargetIsDir
  <2> HIDE DEF target
  <2>3. /\ pc' = [pc EXCEPT ![p] = "writing"] /\ at' = [at EXCEPT ![p] = target]
        /\ UNCHANGED <<platform, drawn, copy, had, careful>>
        /\ dirs' = dirs \/ (target # Pending /\ Exists(Pending) /\ Rename(Pending, target))
    BY <1>10 DEF CommitMove, Goto, target
  <2>4. dirs' \in [Dirs -> Record \union {Absent}] /\ StoreSound'
    BY <1>0, <2>2, <2>3, DirRenamed, Names DEF TypeOK, StoreSound, Exists
  <2>5. TypeOK'
    BY <1>0, <2>2, <2>3, <2>4 DEF TypeOK
  <2>6. CommandsSound'
    BY <1>0, <2>1, <2>2, <2>3 DEF TypeOK, CommandsSound, HasDir, InNewSteps, Sound
  <2> QED
    BY <2>4, <2>5, <2>6 DEF IInv
<1> QED
  BY <1>1, <1>2, <1>3, <1>4, <1>5, <1>6, <1>7, <1>8, <1>9, <1>10 DEF New

------------------------------------------------------------------------------

\* Reading a record out of a directory.
LEMMA RecordRead ==
  ASSUME IInv, NEW p \in Procs, NEW n \in Dirs, Exists(n),
         copy' = [copy EXCEPT ![p] = dirs[n]], at' = [at EXCEPT ![p] = n],
         NEW s \in {"asking", "claiming", "starting", "saving"}, pc' = [pc EXCEPT ![p] = s],
         UNCHANGED <<dirs, platform, drawn, had, careful>>
  PROVE  IInv'
<1>1. dirs[n] \in Record /\ Sound(dirs[n])
  BY DEF IInv, TypeOK, StoreSound, Exists
<1> QED
  BY <1>1, CopySound DEF IInv, TypeOK, StoreSound, Exists, HasDir, InNewSteps

LEMMA ActivationStep ==
  ASSUME IInv, NEW p \in Procs, Status(p) \/ Whitelist(p) \/ Serve(p) \/ Finalize(p)
  PROVE  IInv'
<1> USE DEF storeVars, procVars
<1>0. StoreSound /\ CommandsSound /\ TypeOK
  BY DEF IInv
<1>1. ASSUME NEW d \in Drafts, StatusLoad(p, d) PROVE IInv'
  <2>1. PICK n \in FoundByID(d) : copy' = [copy EXCEPT ![p] = dirs[n]] /\ at' = [at EXCEPT ![p] = n]
    BY <1>1 DEF StatusLoad
  <2>2. n \in Dirs /\ Exists(n)
    BY Names DEF FoundByID
  <2> QED
    BY <1>1, <2>1, <2>2, RecordRead DEF StatusLoad, Goto
<1>2. CASE StatusAsk(p)
  <2> DEFINE s == IF platform[copy[p].draft] \in {"converted", "claimed"} THEN "finalizing" ELSE "saving"
  <2>1. copy[p] \in Record /\ Sound(copy[p]) /\ at[p] \in Dirs
    BY <1>0, <1>2 DEF StatusAsk, Goto, CommandsSound, HasDir, TypeOK
  <2>2. copy' = [copy EXCEPT ![p] = copy[p]] /\ s \in {"finalizing", "saving"}
    BY <1>0, <1>2 DEF StatusAsk, TypeOK
  <2>3. pc' = [pc EXCEPT ![p] = s]
    BY <1>2 DEF StatusAsk, Goto
  <2> HIDE DEF s
  <2> QED
    BY <1>0, <1>2, <2>1, <2>2, <2>3, CopySound
    DEF StatusAsk, HasDir, InNewSteps, TypeOK, StoreSound, Exists
<1>3. CASE FinalizeLoad(p) \/ ServeLoad(p)
  <2>1. PICK n \in Found(at[p]) \union Found(Absent) :
          copy' = [copy EXCEPT ![p] = dirs[n]] /\ at' = [at EXCEPT ![p] = n]
    BY <1>3 DEF FinalizeLoad, ServeLoad
  <2>2. n \in Dirs /\ Exists(n)
    BY <1>0, AbsentAssumption DEF Found, TypeOK, Dirs
  <2> DEFINE s == IF FinalizeLoad(p) THEN "claiming" ELSE "starting"
  <2>3. pc' = [pc EXCEPT ![p] = s] /\ s \in {"claiming", "starting"}
    BY <1>3 DEF FinalizeLoad, ServeLoad, Goto
  <2> HIDE DEF s
  <2> QED
    BY <1>3, <2>1, <2>2, <2>3, RecordRead DEF FinalizeLoad, ServeLoad
<1>4. CASE ServeAsk(p)
  <2>1. copy[p] \in Record /\ Sound(copy[p]) /\ at[p] \in Dirs
    BY <1>0, <1>4 DEF ServeAsk, Goto, CommandsSound, HasDir, TypeOK
  <2>2. copy' = [copy EXCEPT ![p] = copy[p]]
    BY <1>0, <1>4 DEF ServeAsk, TypeOK
  <2> QED
    BY <1>0, <1>4, <2>1, <2>2, CopySound
    DEF ServeAsk, Goto, HasDir, InNewSteps, TypeOK, StoreSound, Exists
<1>5. CASE ServeForget(p)
  <2>1. Blank \in Record /\ Sound(Blank)
    BY Names DEF Sound, Blank
  <2>2. at[p] \in Dirs
    BY <1>0, <1>5 DEF ServeForget, Goto, CommandsSound, HasDir
  <2> QED
    BY <1>0, <1>5, <2>1, <2>2, CopySound
    DEF ServeForget, Goto, HasDir, InNewSteps, TypeOK, StoreSound, Exists
<1>6. CASE Claim(p)
  <2>1. copy[p] \in Record /\ Sound(copy[p]) /\ at[p] \in Dirs
    BY <1>0, <1>6 DEF Claim, Goto, CommandsSound, HasDir, TypeOK
  <2>2. copy' = [copy EXCEPT ![p] = copy[p]]
    BY <1>0, <1>6 DEF Claim, TypeOK
  <2> QED
    BY <1>0, <1>6, <2>1, <2>2, CopySound
    DEF Claim, Goto, HasDir, InNewSteps, TypeOK, StoreSound, Exists
<1>7. CASE Persist(p)
  <2> DEFINE r == [copy[p] EXCEPT !.ward = copy[p].draft, !.secret = Absent]
  <2>1. copy[p] \in Record /\ at[p] \in Dirs
    BY <1>0, <1>7 DEF Persist, Goto, CommandsSound, HasDir, TypeOK
  <2>2. r \in Record /\ Sound(r)
    BY <2>1 DEF Record, Maybe, Sound
  <2>3. copy' = [copy EXCEPT ![p] = r]
    BY <1>0, <1>7 DEF Persist, TypeOK
  <2> HIDE DEF r
  <2> QED
    BY <1>0, <1>7, <2>1, <2>2, <2>3, CopySound
    DEF Persist, Goto, HasDir, InNewSteps, TypeOK, StoreSound, Exists
<1>8. CASE SaveInPlace(p)
  <2>1. copy[p] \in Record /\ Sound(copy[p]) /\ at[p] \in Dirs
    BY <1>0, <1>8 DEF SaveInPlace, CommandsSound, HasDir, TypeOK
  <2>2. at[p] = Pending => copy[p].ward = Absent
    BY <1>8, <2>1, TargetIsDir DEF SaveInPlace, InPlace
  <2> QED
    BY <1>8, <2>1, <2>2, RecordWritten, ExitSound DEF SaveInPlace
<1>9. CASE SaveMove(p)
  <2> DEFINE target == Target(copy[p], at[p])
  <2>1. copy[p] \in Record /\ Sound(copy[p]) /\ at[p] \in Dirs
    BY <1>0, <1>9 DEF SaveMove, Goto, CommandsSound, HasDir, TypeOK
  <2>2. target \in Dirs /\ target # Pending
    <3>1. target \in Dirs /\ (target = Pending => copy[p].ward = Absent)
      BY <2>1, TargetIsDir
    <3>2. target = Pending => target = at[p]
      BY <2>1, AbsentAssumption DEF Target, WardDir, DraftDir, Pending
    <3> QED
      BY <1>9, <3>1, <3>2 DEF SaveMove, InPlace
  <2> HIDE DEF target
  <2>3. /\ pc' = [pc EXCEPT ![p] = "writing"] /\ at' = [at EXCEPT ![p] = target]
        /\ UNCHANGED <<platform, drawn, copy, had, careful>>
        /\ dirs' = dirs \/ (Exists(at[p]) /\ Rename(at[p], target))
    BY <1>9 DEF SaveMove, Goto, target
  <2>4. dirs' \in [Dirs -> Record \union {Absent}] /\ StoreSound'
    BY <1>0, <2>1, <2>2, <2>3, DirRenamed DEF TypeOK, StoreSound, Exists
  <2>5. TypeOK'
    BY <1>0, <2>2, <2>3, <2>4 DEF TypeOK
  <2>6. CommandsSound'
    BY <1>0, <2>2, <2>3 DEF TypeOK, CommandsSound, HasDir, InNewSteps, Sound
  <2> QED
    BY <2>4, <2>5, <2>6 DEF IInv
<1>10. CASE SaveWrite(p)
  <2>1. /\ copy[p] \in Record /\ Sound(copy[p]) /\ at[p] \in Dirs
        /\ at[p] = Pending => copy[p].ward = Absent
    BY <1>0, <1>10 DEF SaveWrite, CommandsSound, HasDir, TypeOK
  <2> QED
    BY <1>10, <2>1, RecordWritten, ExitSound DEF SaveWrite
<1>11. ASSUME NEW d \in Drafts, WhitelistLoad(p, d) PROVE IInv'
  <2>1. PICK n \in FoundByID(d) : copy' = [copy EXCEPT ![p] = dirs[n]] /\ at' = [at EXCEPT ![p] = n]
    BY <1>11 DEF WhitelistLoad
  <2>2. n \in Dirs /\ Exists(n)
    BY Names DEF FoundByID
  <2> QED
    BY <1>11, <2>1, <2>2, RecordRead DEF WhitelistLoad, Goto
<1> QED
  BY <1>1, <1>2, <1>3, <1>4, <1>5, <1>6, <1>7, <1>8, <1>9, <1>10, <1>11
  DEF Status, Whitelist, Serve, Finalize

LEMMA StepSound == IInv /\ [Next]_vars => IInv'
<1> SUFFICES ASSUME IInv, [Next]_vars PROVE IInv'
  OBVIOUS
<1>1. ASSUME NEW p \in Procs, Stop(p) PROVE IInv'
  BY <1>1, ExitSound DEF Stop, storeVars, IInv, TypeOK, StoreSound, Exists
<1>2. ASSUME NEW d \in Drafts, Convert(d) \/ Expire(d) PROVE IInv'
  <2>1. /\ UNCHANGED <<dirs, drawn, procVars, careful>>
        /\ platform' \in [Drafts -> {"none", "open", "converted", "claimed", "dead"}]
    BY <1>2 DEF Convert, Expire, IInv, TypeOK
  <2> QED
    BY <2>1 DEF procVars, IInv, TypeOK, StoreSound, CommandsSound, Exists, Sound
<1>3. CASE UNCHANGED vars
  BY <1>3 DEF vars, storeVars, procVars, IInv, TypeOK, StoreSound, CommandsSound, Exists, Sound
<1> QED
  BY <1>1, <1>2, <1>3, NewStep, ActivationStep DEF Next

\* Every variable of the store and of the commands keeps to its type.
THEOREM TypeCorrect == Spec => []TypeOK
<1>1. Init => IInv
  BY InitSound
<1>2. IInv /\ [Next]_vars => IInv'
  BY StepSound
<1>3. IInv => TypeOK
  BY DEF IInv
<1> QED
  BY <1>1, <1>2, <1>3, PTL DEF Spec

\* However many commands run into each other, no record mixes two drafts:
\* what clearDraftState and clearPlatformDraftState leave behind is never
\* completed with the other half of another draft.
THEOREM SecretsFit == Spec => []SecretFitsDraft
<1>1. Init => IInv
  BY InitSound
<1>2. IInv /\ [Next]_vars => IInv'
  BY StepSound
<1>3. IInv => SecretFitsDraft
  BY DEF IInv, StoreSound, CommandsSound, SecretFitsDraft, Sound
<1> QED
  BY <1>1, <1>2, <1>3, PTL DEF Spec

------------------------------------------------------------------------------
(* If `new` is left alone, each record is one of three.                     *)

Key(s)   == [draft |-> Absent, secret |-> s, ward |-> Absent]
Draft(d) == [draft |-> d, secret |-> d, ward |-> Absent]
Ward(d)  == [draft |-> d, secret |-> Absent, ward |-> d]

Known(d) == platform[d] # "none"

\* What .pending can hold.
PendingFits ==
  Exists(Pending) => \E s \in drawn : \/ dirs[Pending] = Key(s)
                                      \/ dirs[Pending] = Draft(s) /\ Known(s)

\* A directory named after a draft holds that draft, or nothing once it is
\* dead; one named after a ward holds a claimed draft or its ward.
DirsFit ==
  \A d \in Drafts :
    /\ Exists(DraftDir(d)) => \/ dirs[DraftDir(d)] = Draft(d) /\ Known(d)
                              \/ dirs[DraftDir(d)] = Blank /\ platform[d] = "dead"
    /\ Exists(WardDir(d)) => dirs[WardDir(d)] \in {Draft(d), Ward(d)} /\ platform[d] = "claimed"

KnownAreDrawn == \A d \in Drafts : Known(d) => d \in drawn

\* No draft that can still become a ward is without its secret, and no ward
\* without that or its credentials.
KeysKept ==
  \A d \in Drafts :
    /\ platform[d] \in {"open", "converted"} => HasSecret(d)
    /\ platform[d] = "claimed" => HasSecret(d) \/ HasWard(d)

StoreKept == PendingFits /\ DirsFit /\ KnownAreDrawn /\ KeysKept

NewIsAlone == \A p, q \in Procs : InNew(p) /\ q # p => pc[q] = "idle"

PendingHolds(r) == Exists(Pending) /\ dirs[Pending] = r

\* From NewSubmit on the secret in hand is the one in .pending.
NewFits(p) ==
  /\ pc[p] = "merged" => \E s \in drawn :
       \/ PendingHolds(copy[p]) /\ copy[p] \in {Key(s), Draft(s)}
       \/ ~Exists(Pending) /\ ~Known(s) /\ ~HasSecret(s) /\ copy[p] = Key(s)
  /\ pc[p] = "submitting" => \E s \in drawn : PendingHolds(Key(s))
  /\ pc[p] # "checking"
  /\ pc[p] \in {"creating", "refused"} =>
       \E s \in drawn : PendingHolds(Key(s)) /\ copy[p] = Key(s)
  /\ pc[p] = "created" =>
       \E s \in drawn : PendingHolds(Key(s)) /\ copy[p] = Draft(s) /\ Known(s)
  /\ pc[p] \in {"committing", "moving"} =>
       had[p] /\ \E s \in drawn : PendingHolds(Draft(s)) /\ copy[p] = Draft(s) /\ Known(s)

\* A command only ever has in hand what fits the directory it works in.
CopyFits(p) ==
  /\ pc[p] \in InNewSteps \union {"idle"} => at[p] = Absent
  /\ had[p] => pc[p] \in InNewSteps \union {"writing"}
  /\ pc[p] \in {"asking", "finalizing"} => \E d \in Drafts :
       copy[p] = Draft(d) /\ Known(d) /\ at[p] \in {Pending, DraftDir(d)}
  /\ pc[p] \in {"starting", "claiming", "claimed"} => \E d \in Drafts :
       /\ copy[p] = Draft(d) /\ Known(d)
       /\ at[p] \in {Pending, DraftDir(d), WardDir(d)}
       /\ pc[p] = "starting" => at[p] # Pending
       /\ pc[p] = "claimed" \/ at[p] = WardDir(d) => platform[d] = "claimed"
  /\ pc[p] = "saving" => \E d \in Drafts :
       \/ copy[p] = Draft(d) /\ Known(d) /\ at[p] \in {Pending, DraftDir(d)}
       \/ /\ copy[p] = Ward(d) /\ platform[d] = "claimed"
          /\ at[p] \in {Pending, DraftDir(d), WardDir(d)}
       \/ copy[p] = Blank /\ platform[d] = "dead" /\ at[p] = DraftDir(d)
  /\ pc[p] = "writing" => \E d \in Drafts :
       \/ had[p] /\ copy[p] = Draft(d) /\ Known(d) /\ at[p] = DraftDir(d)
       \/ ~had[p] /\ copy[p] = Ward(d) /\ platform[d] = "claimed" /\ at[p] = WardDir(d)

\* Commands that work in .pending work on one draft, the one it holds.
PendingShared ==
  \A p \in Procs : at[p] = Pending =>
    /\ Exists(Pending) => dirs[Pending] = Draft(copy[p].draft)
    /\ \A q \in Procs : at[q] = Pending => copy[q].draft = copy[p].draft

CommandsKept ==
  /\ NewIsAlone
  /\ \A p \in Procs : NewFits(p) /\ CopyFits(p)
  /\ PendingShared

Kept == careful => StoreKept /\ CommandsKept

LEMMA DirNames ==
  /\ \A n \in Dirs : n = Pending \/ \E d \in Drafts : n \in {DraftDir(d), WardDir(d)}
  /\ Pending \in Dirs /\ Pending # Absent
  /\ \A d \in Drafts :
       /\ DraftDir(d) \in Dirs /\ WardDir(d) \in Dirs
       /\ Pending \notin {DraftDir(d), WardDir(d)}
       /\ Absent \notin {d, DraftDir(d), WardDir(d)}
  /\ \A d, e \in Drafts :
       /\ DraftDir(d) # WardDir(e)
       /\ d # e => DraftDir(d) # DraftDir(e) /\ WardDir(d) # WardDir(e)
<1>1. \A n \in Dirs : n = Pending \/ \E d \in Drafts : n \in {DraftDir(d), WardDir(d)}
  BY DEF Dirs, Committed, Pending, DraftDir, WardDir
<1>2. Pending \in Dirs /\ \A d \in Drafts : DraftDir(d) \in Dirs /\ WardDir(d) \in Dirs
  BY Names
<1>3. Absent \notin Dirs /\ Absent \notin Drafts
  BY AbsentAssumption
<1>4. \A d, e \in Drafts :
        /\ DraftDir(d) # WardDir(e) /\ Pending \notin {DraftDir(d), WardDir(d)}
        /\ d # e => DraftDir(d) # DraftDir(e) /\ WardDir(d) # WardDir(e)
  BY DEF Pending, DraftDir, WardDir
<1> QED
  BY <1>1, <1>2, <1>3, <1>4

LEMMA ThreeRecords ==
  /\ Blank \in Record /\ Blank.draft = Absent /\ Blank.secret = Absent /\ Blank.ward = Absent
  /\ \A d \in Drafts :
       /\ Key(d) \in Record /\ Draft(d) \in Record /\ Ward(d) \in Record
       /\ Key(d).draft = Absent /\ Key(d).secret = d /\ Key(d).ward = Absent
       /\ Draft(d).draft = d /\ Draft(d).secret = d /\ Draft(d).ward = Absent
       /\ Ward(d).draft = d /\ Ward(d).secret = Absent /\ Ward(d).ward = d
       /\ d # Absent
  /\ Absent \notin Record
BY AbsentAssumption DEF Blank, Record, Maybe, Key, Draft, Ward

\* What is on disk after a record has been written ...
LEMMA AfterWrite ==
  ASSUME TypeOK, NEW n \in Dirs, NEW r \in Record, Write(n, r)
  PROVE  /\ \A m \in Dirs : m # n => dirs'[m] = dirs[m]
         /\ dirs'[n] = r /\ r # Absent
         /\ \A e \in Drafts :
              /\ HasWard(e)' <=> IF n = WardDir(e) THEN r.ward = e ELSE HasWard(e)
              /\ HasSecret(e)' <=>
                   r.secret = e \/ \E m \in Dirs \ {n} : Exists(m) /\ dirs[m].secret = e
<1>1. \A m \in Dirs : dirs'[m] = IF m = n THEN r ELSE dirs[m]
  BY DEF TypeOK, Write
<1>2. r # Absent
  BY ThreeRecords
<1>3. ASSUME NEW e \in Drafts
      PROVE  HasWard(e)' <=> IF n = WardDir(e) THEN r.ward = e ELSE HasWard(e)
  BY <1>1, <1>2, DirNames DEF HasWard, Exists
<1>4. ASSUME NEW e \in Drafts
      PROVE  HasSecret(e)' <=>
               r.secret = e \/ \E m \in Dirs \ {n} : Exists(m) /\ dirs[m].secret = e
  BY <1>1, <1>2 DEF HasSecret, Exists
<1> QED
  BY <1>1, <1>2, <1>3, <1>4

\* ... and after a directory has been renamed to one that was not there.
LEMMA AfterRename ==
  ASSUME TypeOK, NEW n \in Dirs, NEW m \in Dirs, n # m, Exists(n), ~Exists(m), Rename(n, m)
  PROVE  /\ \A k \in Dirs \ {n, m} : dirs'[k] = dirs[k]
         /\ dirs'[m] = dirs[n] /\ ~Exists(n)'
         /\ \A e \in Drafts : HasSecret(e)' <=> HasSecret(e)
         /\ \A e \in Drafts : WardDir(e) \notin {n, m} => (HasWard(e)' <=> HasWard(e))
<1>1. \A k \in Dirs : dirs'[k] = IF k = n THEN Absent ELSE IF k = m THEN dirs[n] ELSE dirs[k]
  BY DEF TypeOK, Rename
<1>2. \A e \in Drafts : WardDir(e) \notin {n, m} => (HasWard(e)' <=> HasWard(e))
  BY <1>1, DirNames DEF HasWard, Exists
<1>3. ASSUME NEW e \in Drafts PROVE HasSecret(e)' <=> HasSecret(e)
  <2>1. ASSUME NEW k \in Dirs, Exists(k), dirs[k].secret = e PROVE HasSecret(e)'
    <3>1. CASE k = n
      BY <1>1, <2>1, <3>1 DEF HasSecret, Exists
    <3>2. CASE k # n
      BY <1>1, <2>1, <3>2 DEF HasSecret, Exists
    <3> QED
      BY <3>1, <3>2
  <2>2. ASSUME NEW k \in Dirs, Exists(k)', dirs'[k].secret = e PROVE HasSecret(e)
    <3>1. CASE k = m
      BY <1>1, <2>2, <3>1 DEF HasSecret, Exists
    <3>2. CASE k # m
      BY <1>1, <2>2, <3>2 DEF HasSecret, Exists
    <3> QED
      BY <3>1, <3>2
  <2> QED
    BY <2>1, <2>2 DEF HasSecret
<1> QED
  BY <1>1, <1>2, <1>3 DEF Exists
------------------------------------------------------------------------------
(* Steps of Enrollment.                                                     *)

EnrollmentStep == [E!Next]_<<Promised(platform), Promised(credential)>>

\* Nothing is promised to others than careful users.
LEMMA NothingPromised ==
  ASSUME ~careful, careful' = careful
  PROVE  EnrollmentStep
<1>1. Promised(platform)' = Promised(platform) /\ Promised(credential)' = Promised(credential)
  BY DEF Promised
<1> QED
  BY <1>1 DEF EnrollmentStep

LEMMA CredentialsSame ==
  ASSUME platform' = platform,
         \A e \in Drafts : /\ HasWard(e)' <=> HasWard(e)
                           /\ HasWard(e) \/ (HasSecret(e)' <=> HasSecret(e))
  PROVE  credential' = credential
BY DEF credential

LEMMA EnrollmentStutters ==
  ASSUME careful' = careful, platform' = platform,
         \A e \in Drafts : /\ HasWard(e)' <=> HasWard(e)
                           /\ HasWard(e) \/ (HasSecret(e)' <=> HasSecret(e))
  PROVE  EnrollmentStep
<1>1. credential' = credential
  BY CredentialsSame
<1>2. Promised(platform)' = Promised(platform) /\ Promised(credential)' = Promised(credential)
  BY <1>1 DEF Promised
<1> QED
  BY <1>2 DEF EnrollmentStep

\* A careful user sees both sides as they are.
LEMMA PromisedIsSeen ==
  ASSUME careful, careful' = careful, TypeOK, TypeOK'
  PROVE  /\ Promised(platform) = platform /\ Promised(platform)' = platform'
         /\ Promised(credential) = credential /\ Promised(credential)' = credential'
<1>1. Promised(platform) = platform
  BY DEF Promised, TypeOK
<1>2. Promised(platform)' = platform'
  BY DEF Promised, TypeOK
<1>3. Promised(credential) = credential
  BY DEF Promised, credential
<1>4. Promised(credential)' = credential'
  BY DEF Promised, credential
<1> QED
  BY <1>1, <1>2, <1>3, <1>4

\* The credential of one draft changes.
LEMMA OneCredential ==
  ASSUME careful, careful' = careful, TypeOK, TypeOK', platform' = platform, NEW d \in Drafts,
         \A e \in Drafts \ {d} : /\ HasWard(e)' <=> HasWard(e)
                                 /\ HasWard(e) \/ (HasSecret(e)' <=> HasSecret(e)),
         HasWard(d) => HasWard(d)',
         ~HasWard(d) /\ HasWard(d)' => platform[d] = "claimed" /\ HasSecret(d),
         ~HasWard(d)' /\ HasSecret(d) /\ ~HasSecret(d)' => platform[d] = "dead",
         ~HasWard(d)' /\ ~HasSecret(d) /\ HasSecret(d)' => platform[d] \in {"none", "dead"}
  PROVE  EnrollmentStep
<1> DEFINE to == credential'[d]
<1>1. credential' = [credential EXCEPT ![d] = to]
  BY DEF credential
<1>2. \/ credential[d] = to
      \/ credential[d] = "none" /\ to = "secret"
      \/ credential[d] = "secret" /\ to = "ward" /\ platform[d] = "claimed"
      \/ credential[d] = "secret" /\ to = "dropped" /\ platform[d] = "dead"
      \/ credential[d] = "dropped" /\ to = "secret" /\ platform[d] = "dead"
  BY DEF credential
<1> HIDE DEF to
<1>3. CASE credential[d] = to
  <2>1. credential' = credential
    BY <1>1, <1>3 DEF credential
  <2> QED
    BY <2>1, PromisedIsSeen DEF EnrollmentStep
<1>4. CASE credential[d] = "none" /\ to = "secret"
  <2>1. E!Draw(d)
    BY <1>1, <1>4, PromisedIsSeen DEF E!Draw, E!Exchange
  <2> QED
    BY <2>1 DEF E!Next, EnrollmentStep
<1>5. CASE credential[d] = "secret" /\ to = "ward" /\ platform[d] = "claimed"
  <2>1. E!Keep(d)
    BY <1>1, <1>5, PromisedIsSeen DEF E!Keep, E!Exchange
  <2> QED
    BY <2>1 DEF E!Next, EnrollmentStep
<1>6. CASE credential[d] = "secret" /\ to = "dropped" /\ platform[d] = "dead"
  <2>1. E!Drop(d)
    BY <1>1, <1>6, PromisedIsSeen DEF E!Drop, E!Exchange
  <2> QED
    BY <2>1 DEF E!Next, EnrollmentStep
<1>7. CASE credential[d] = "dropped" /\ to = "secret" /\ platform[d] = "dead"
  <2>1. E!Return(d)
    BY <1>1, <1>7, PromisedIsSeen DEF E!Return, E!Exchange
  <2> QED
    BY <2>1 DEF E!Next, EnrollmentStep
<1> QED
  BY <1>2, <1>3, <1>4, <1>5, <1>6, <1>7

\* A dead secret gives way to a new one.
LEMMA TwoCredentials ==
  ASSUME careful, careful' = careful, TypeOK, TypeOK', platform' = platform,
         NEW d \in Drafts, NEW f \in Drafts,
         \A e \in Drafts : HasWard(e)' <=> HasWard(e),
         \A e \in Drafts \ {d, f} : HasSecret(e)' <=> HasSecret(e),
         platform[d] = "dead", HasSecret(d), ~HasWard(d),
         platform[f] = "none", ~HasSecret(f), ~HasWard(f), HasSecret(f)'
  PROVE  EnrollmentStep
<1>1. d # f
  OBVIOUS
<1>2. CASE HasSecret(d)'
  BY <1>1, <1>2, OneCredential
<1>3. CASE ~HasSecret(d)'
  <2>1. /\ credential[d] = "secret" /\ credential[f] = "none"
        /\ credential' = [credential EXCEPT ![d] = "dropped", ![f] = "secret"]
    BY <1>1, <1>3 DEF credential
  <2>2. E!Replace(d, f)
    BY <2>1, PromisedIsSeen DEF E!Replace
  <2> QED
    BY <2>2 DEF E!Next, EnrollmentStep
<1> QED
  BY <1>2, <1>3

\* The platform goes on with a draft.
LEMMA PlatformStep ==
  ASSUME careful, careful' = careful, TypeOK, TypeOK', UNCHANGED dirs, NEW d \in Drafts,
         \/ platform[d] = "none" /\ HasSecret(d) /\ ~HasWard(d) /\ platform'[d] = "open"
         \/ platform[d] = "open" /\ platform'[d] \in {"converted", "dead"}
         \/ platform[d] = "converted" /\ HasSecret(d) /\ ~HasWard(d) /\ platform'[d] = "claimed",
         platform' = [platform EXCEPT ![d] = platform'[d]]
  PROVE  EnrollmentStep
<1>1. \A e \in Drafts : (HasWard(e)' <=> HasWard(e)) /\ (HasSecret(e)' <=> HasSecret(e))
  BY DEF HasWard, HasSecret, Exists
<1>2. credential' = credential
  BY <1>1 DEF credential, TypeOK
<1>3. HasSecret(d) /\ ~HasWard(d) => credential[d] = "secret"
  BY DEF credential
<1>4. E!Submit(d) \/ E!Convert(d) \/ E!Expire(d) \/ E!Claim(d)
  BY <1>2, <1>3, PromisedIsSeen DEF E!Submit, E!Convert, E!Expire, E!Claim, E!Advance
<1> QED
  BY <1>4 DEF E!Next, EnrollmentStep
------------------------------------------------------------------------------
(* Writing and moving records while `new` is left alone.                    *)

\* What StoreKept says of where a secret can be.
LEMMA WardsAreClaimed ==
  ASSUME StoreKept, NEW d \in Drafts
  PROVE  /\ HasWard(d) => platform[d] = "claimed"
         /\ \A n \in Dirs : Exists(n) /\ dirs[n].secret = d =>
              \/ n = Pending /\ dirs[n] \in {Key(d), Draft(d)}
              \/ n \in {DraftDir(d), WardDir(d)} /\ dirs[n] = Draft(d)
<1>1. HasWard(d) => platform[d] = "claimed"
  BY DEF StoreKept, DirsFit, HasWard
<1>2. ASSUME NEW n \in Dirs, Exists(n), dirs[n].secret = d
      PROVE  \/ n = Pending /\ dirs[n] \in {Key(d), Draft(d)}
             \/ n \in {DraftDir(d), WardDir(d)} /\ dirs[n] = Draft(d)
  <2>1. CASE n = Pending
    <3>1. PICK s \in drawn : dirs[Pending] \in {Key(s), Draft(s)}
      BY <1>2, <2>1 DEF StoreKept, PendingFits
    <3>2. Key(s).secret = s /\ Draft(s).secret = s
      BY DEF Key, Draft
    <3>3. s = d
      BY <1>2, <2>1, <3>1, <3>2
    <3> QED
      BY <2>1, <3>1, <3>3
  <2>2. ASSUME NEW e \in Drafts, n \in {DraftDir(e), WardDir(e)}
        PROVE  n \in {DraftDir(d), WardDir(d)} /\ dirs[n] = Draft(d)
    <3>1. dirs[n] = Draft(e)
      BY <1>2, <2>2, ThreeRecords DEF StoreKept, DirsFit
    <3>2. e = d
      BY <1>2, <3>1, ThreeRecords
    <3> QED
      BY <2>2, <3>1, <3>2
  <2> QED
    BY <2>1, <2>2, DirNames
<1> QED
  BY <1>1, <1>2

\* A secret is saved where that secret was, or none.
LEMMA SecretSaved ==
  ASSUME careful, careful' = careful, TypeOK, TypeOK', StoreKept, platform' = platform,
         drawn \subseteq drawn', NEW s \in Drafts, s \in drawn',
         NEW n \in {Pending, DraftDir(s)}, NEW r \in {Key(s), Draft(s)}, Write(n, r),
         r = Draft(s) => Known(s), n = DraftDir(s) => r = Draft(s),
         Exists(n) => dirs[n] \in {Key(s), Draft(s), Blank}
  PROVE  StoreKept' /\ EnrollmentStep
<1>1. n \in Dirs /\ r \in Record /\ r.secret = s /\ s # Absent /\ \A e \in Drafts : n # WardDir(e)
  BY DirNames, ThreeRecords
<1>2. /\ \A m \in Dirs : m # n => dirs'[m] = dirs[m]
      /\ dirs'[n] = r /\ r # Absent
      /\ \A e \in Drafts : HasWard(e)' <=> HasWard(e)
  BY <1>1, AfterWrite
<1>3. HasSecret(s)' /\ \A e \in Drafts \ {s} : HasSecret(e)' <=> HasSecret(e)
  <2>1. HasSecret(s)'
    BY <1>1, AfterWrite
  <2>2. \A e \in Drafts \ {s} : Exists(n) => dirs[n].secret # e
    BY ThreeRecords
  <2>3. ASSUME NEW e \in Drafts \ {s} PROVE HasSecret(e)' <=> HasSecret(e)
    <3>1. HasSecret(e)' <=> \E m \in Dirs \ {n} : Exists(m) /\ dirs[m].secret = e
      BY <1>1, AfterWrite
    <3> QED
      BY <2>2, <3>1 DEF HasSecret
  <2> QED
    BY <2>1, <2>3
<1>4. StoreKept'
  <2>1. PendingFits'
    <3>1. CASE n = Pending
      BY <1>2, <3>1 DEF PendingFits, Known
    <3>2. CASE n # Pending
      BY <1>2, <3>2, DirNames DEF StoreKept, PendingFits, Exists, Known
    <3> QED
      BY <3>1, <3>2
  <2>2. DirsFit'
    <3> SUFFICES ASSUME NEW d \in Drafts
                 PROVE  /\ Exists(DraftDir(d))' => \/ dirs'[DraftDir(d)] = Draft(d) /\ Known(d)'
                                                   \/ dirs'[DraftDir(d)] = Blank /\ platform'[d] = "dead"
                        /\ Exists(WardDir(d))' => /\ dirs'[WardDir(d)] \in {Draft(d), Ward(d)}
                                                  /\ platform'[d] = "claimed"
      BY DEF DirsFit
    <3>1. WardDir(d) # n /\ (DraftDir(d) = n => d = s) /\ {WardDir(d), DraftDir(d)} \subseteq Dirs
      BY DirNames
    <3> QED
      BY <1>2, <3>1 DEF StoreKept, DirsFit, Exists, Known
  <2>3. KnownAreDrawn'
    BY DEF StoreKept, KnownAreDrawn, Known
  <2>4. KeysKept'
    BY <1>2, <1>3 DEF StoreKept, KeysKept
  <2> QED
    BY <2>1, <2>2, <2>3, <2>4 DEF StoreKept
<1>5. EnrollmentStep
  <2>1. platform[s] \notin {"none", "dead"} => HasSecret(s) \/ HasWard(s)
    BY DEF StoreKept, KeysKept, TypeOK
  <2> QED
    BY <1>2, <1>3, <2>1, OneCredential
<1> QED
  BY <1>4, <1>5

\* A secret that was not drawn yet is nowhere.
LEMMA UnseenSecret ==
  ASSUME StoreKept, NEW f \in Drafts, f \notin drawn
  PROVE  ~Known(f) /\ ~HasSecret(f) /\ ~HasWard(f)
<1>1. ~Known(f) /\ ~HasWard(f)
  BY WardsAreClaimed DEF StoreKept, KnownAreDrawn, Known
<1>2. ASSUME NEW n \in Dirs, Exists(n), dirs[n].secret = f PROVE FALSE
  <2>1. n # Pending
    <3>1. \A s : Key(s).secret = s /\ Draft(s).secret = s
      BY DEF Key, Draft
    <3> QED
      BY <1>2, <3>1 DEF StoreKept, PendingFits
  <2>2. n \in {DraftDir(f), WardDir(f)}
    BY <1>2, <2>1, WardsAreClaimed
  <2> QED
    BY <1>1, <1>2, <2>2, ThreeRecords DEF StoreKept, DirsFit, Known
<1> QED
  BY <1>1, <1>2 DEF HasSecret

\* A new secret takes the place of a dead one.
LEMMA SecretReplaced ==
  ASSUME careful, careful' = careful, TypeOK, TypeOK', StoreKept, platform' = platform,
         NEW s \in Drafts, PendingHolds(Key(s)), platform[s] = "dead",
         NEW f \in Drafts, f \notin drawn, drawn' = drawn \union {f}, Write(Pending, Key(f))
  PROVE  StoreKept' /\ ~Known(f) /\ EnrollmentStep
<1>1. ~Known(f) /\ platform[f] = "none" /\ ~HasWard(f) /\ ~HasWard(s)
  BY UnseenSecret, WardsAreClaimed DEF Known
<1>2. ~HasSecret(f)
  BY UnseenSecret
<1>3. /\ \A m \in Dirs : m # Pending => dirs'[m] = dirs[m]
      /\ dirs'[Pending] = Key(f) /\ Key(f) # Absent
      /\ \A e \in Drafts : HasWard(e)' <=> HasWard(e)
  BY AfterWrite, DirNames, ThreeRecords
<1>4. HasSecret(s) /\ HasSecret(f)' /\ \A e \in Drafts \ {s, f} : HasSecret(e)' <=> HasSecret(e)
  <2>1. HasSecret(s)
    BY DirNames, ThreeRecords DEF HasSecret, PendingHolds
  <2>2. HasSecret(f)'
    BY AfterWrite, DirNames, ThreeRecords
  <2>3. ASSUME NEW e \in Drafts \ {s, f} PROVE HasSecret(e)' <=> HasSecret(e)
    <3>1. HasSecret(e)' <=> \E m \in Dirs \ {Pending} : Exists(m) /\ dirs[m].secret = e
      BY AfterWrite, DirNames, ThreeRecords
    <3>2. dirs[Pending].secret # e
      BY ThreeRecords DEF PendingHolds
    <3> QED
      BY <3>1, <3>2 DEF HasSecret
  <2> QED
    BY <2>1, <2>2, <2>3
<1>5. StoreKept'
  <2>1. PendingFits'
    BY <1>3 DEF PendingFits
  <2>2. DirsFit'
    BY <1>3, DirNames DEF StoreKept, DirsFit, Exists, Known
  <2>3. KnownAreDrawn'
    BY DEF StoreKept, KnownAreDrawn, Known
  <2>4. KeysKept'
    BY <1>1, <1>3, <1>4 DEF StoreKept, KeysKept, Known
  <2> QED
    BY <2>1, <2>2, <2>3, <2>4 DEF StoreKept
<1>6. EnrollmentStep
  BY <1>1, <1>2, <1>3, <1>4, TwoCredentials
<1> QED
  BY <1>1, <1>5, <1>6

\* A dead draft is forgotten, or the credentials of a ward are saved.
LEMMA SecretTakenAway ==
  ASSUME careful, careful' = careful, TypeOK, TypeOK', StoreKept, platform' = platform,
         drawn' = drawn, NEW d \in Drafts, NEW n \in Dirs, NEW r \in Record, Write(n, r),
         \/ n = DraftDir(d) /\ r = Blank /\ platform[d] = "dead"
         \/ n = WardDir(d) /\ r = Ward(d) /\ platform[d] = "claimed"
  PROVE  StoreKept' /\ EnrollmentStep
<1>1. n # Pending /\ r.secret = Absent /\ d # Absent
  BY DirNames, ThreeRecords
<1>2. /\ \A m \in Dirs : m # n => dirs'[m] = dirs[m]
      /\ dirs'[n] = r /\ r # Absent
      /\ \A e \in Drafts \ {d} : HasWard(e)' <=> HasWard(e)
      /\ n = WardDir(d) => HasWard(d)'
      /\ n = DraftDir(d) => (HasWard(d)' <=> HasWard(d))
  BY AfterWrite, DirNames, ThreeRecords
<1>3. \A e \in Drafts \ {d} : HasSecret(e)' <=> HasSecret(e)
  <2> SUFFICES ASSUME NEW e \in Drafts \ {d} PROVE HasSecret(e)' <=> HasSecret(e)
    OBVIOUS
  <2>1. HasSecret(e)' <=> \E m \in Dirs \ {n} : Exists(m) /\ dirs[m].secret = e
    BY <1>1, AfterWrite, ThreeRecords
  <2>2. Exists(n) => dirs[n].secret # e
    BY <1>1, WardsAreClaimed, DirNames
  <2> QED
    BY <2>1, <2>2 DEF HasSecret
<1>4. HasSecret(d)' => HasSecret(d)
  BY <1>1, AfterWrite DEF HasSecret
<1>5. StoreKept'
  <2>1. PendingFits'
    BY <1>1, <1>2, DirNames DEF StoreKept, PendingFits, Exists, Known
  <2>2. DirsFit'
    <3> SUFFICES ASSUME NEW e \in Drafts
                 PROVE  /\ Exists(DraftDir(e))' => \/ dirs'[DraftDir(e)] = Draft(e) /\ Known(e)'
                                                   \/ dirs'[DraftDir(e)] = Blank /\ platform'[e] = "dead"
                        /\ Exists(WardDir(e))' => /\ dirs'[WardDir(e)] \in {Draft(e), Ward(e)}
                                                  /\ platform'[e] = "claimed"
      BY DEF DirsFit
    <3>1. (n \in {DraftDir(e), WardDir(e)} => e = d) /\ {WardDir(e), DraftDir(e)} \subseteq Dirs
      BY DirNames
    <3>2. DraftDir(d) # WardDir(d)
      BY DirNames
    <3> QED
      BY <1>2, <3>1, <3>2 DEF StoreKept, DirsFit, Exists, Known
  <2>3. KnownAreDrawn'
    BY DEF StoreKept, KnownAreDrawn, Known
  <2>4. KeysKept'
    BY <1>2, <1>3 DEF StoreKept, KeysKept
  <2> QED
    BY <2>1, <2>2, <2>3, <2>4 DEF StoreKept
<1>6. EnrollmentStep
  <2>1. platform[d] = "claimed" => HasSecret(d) \/ HasWard(d)
    BY DEF StoreKept, KeysKept
  <2>2. HasWard(d) => platform[d] = "claimed"
    BY WardsAreClaimed
  <2>3. \A e \in Drafts \ {d} : /\ HasWard(e)' <=> HasWard(e)
                                /\ HasWard(e) \/ (HasSecret(e)' <=> HasSecret(e))
    BY <1>2, <1>3
  <2>4. /\ HasWard(d) => HasWard(d)'
        /\ ~HasWard(d) /\ HasWard(d)' => platform[d] = "claimed" /\ HasSecret(d)
        /\ ~HasWard(d)' /\ HasSecret(d) /\ ~HasSecret(d)' => platform[d] = "dead"
        /\ ~HasWard(d)' /\ ~HasSecret(d) /\ HasSecret(d)' => platform[d] \in {"none", "dead"}
    BY <1>2, <1>4, <2>1, <2>2
  <2> QED
    BY <2>3, <2>4, OneCredential
<1> QED
  BY <1>5, <1>6

\* A draft moves to the directory of its own, or a claimed one to its ward's.
LEMMA DraftMoved ==
  ASSUME careful, careful' = careful, TypeOK, TypeOK', StoreKept, platform' = platform,
         drawn' = drawn, NEW d \in Drafts, NEW n \in Dirs, NEW m \in Dirs,
         Exists(n), ~Exists(m), Rename(n, m),
         n = DraftDir(d) \/ (n = Pending /\ dirs[Pending] = Draft(d) /\ Known(d)),
         m = DraftDir(d) \/ (m = WardDir(d) /\ platform[d] = "claimed")
  PROVE  StoreKept' /\ EnrollmentStep
<1>1. n # m /\ m # Pending /\ dirs[n] \in {Draft(d), Blank}
      /\ (dirs[n] = Blank => n = DraftDir(d) /\ platform[d] = "dead")
      /\ (dirs[n] = Draft(d) => Known(d))
  BY DirNames, ThreeRecords DEF StoreKept, DirsFit
<1>2. dirs[n] = Draft(d)
  BY <1>1, DirNames
<1>3. /\ \A k \in Dirs \ {n, m} : dirs'[k] = dirs[k]
      /\ dirs'[m] = Draft(d) /\ ~Exists(n)'
      /\ \A e \in Drafts : HasSecret(e)' <=> HasSecret(e)
      /\ \A e \in Drafts : WardDir(e) \notin {n, m} => (HasWard(e)' <=> HasWard(e))
  BY <1>1, <1>2, AfterRename
<1>4. \A e \in Drafts : HasWard(e)' <=> HasWard(e)
  <2>1. \A e \in Drafts : WardDir(e) # n /\ (WardDir(e) = m => e = d)
    BY DirNames
  <2>2. m = WardDir(d) => ~HasWard(d) /\ ~HasWard(d)'
    BY <1>3, ThreeRecords DEF HasWard
  <2> QED
    BY <1>3, <2>1, <2>2
<1>5. StoreKept'
  <2>1. PendingFits'
    BY <1>1, <1>3, DirNames DEF StoreKept, PendingFits, Exists, Known
  <2>2. DirsFit'
    <3> SUFFICES ASSUME NEW e \in Drafts
                 PROVE  /\ Exists(DraftDir(e))' => \/ dirs'[DraftDir(e)] = Draft(e) /\ Known(e)'
                                                   \/ dirs'[DraftDir(e)] = Blank /\ platform'[e] = "dead"
                        /\ Exists(WardDir(e))' => /\ dirs'[WardDir(e)] \in {Draft(e), Ward(e)}
                                                  /\ platform'[e] = "claimed"
      BY DEF DirsFit
    <3>1. (m \in {DraftDir(e), WardDir(e)} => e = d) /\ {WardDir(e), DraftDir(e)} \subseteq Dirs
      BY DirNames
    <3>2. DraftDir(d) # WardDir(d) /\ Known(d)
      BY <1>1, <1>2, DirNames
    <3> QED
      BY <1>3, <3>1, <3>2 DEF StoreKept, DirsFit, Exists, Known
  <2>3. KnownAreDrawn'
    BY DEF StoreKept, KnownAreDrawn, Known
  <2>4. KeysKept'
    BY <1>3, <1>4 DEF StoreKept, KeysKept
  <2> QED
    BY <2>1, <2>2, <2>3, <2>4 DEF StoreKept
<1> QED
  BY <1>3, <1>4, <1>5, EnrollmentStutters
\* The directories stay as they are.
LEMMA StoreSame ==
  ASSUME careful' = careful, UNCHANGED <<dirs, platform>>, drawn \subseteq drawn'
  PROVE  /\ EnrollmentStep
         /\ \A e \in Drafts : HasSecret(e)' <=> HasSecret(e)
         /\ StoreKept => StoreKept'
<1>1. \A e \in Drafts : (HasWard(e)' <=> HasWard(e)) /\ (HasSecret(e)' <=> HasSecret(e))
  BY DEF HasWard, HasSecret, Exists
<1>2. EnrollmentStep
  BY <1>1, EnrollmentStutters
<1>3. StoreKept => StoreKept'
  <2>1. PendingFits => PendingFits'
    BY DEF PendingFits, Exists, Known
  <2>2. DirsFit => DirsFit'
    BY DEF DirsFit, Exists, Known
  <2>3. KnownAreDrawn => KnownAreDrawn'
    BY DEF KnownAreDrawn, Known
  <2>4. KeysKept => KeysKept'
    BY <1>1 DEF KeysKept
  <2> QED
    BY <2>1, <2>2, <2>3, <2>4 DEF StoreKept
<1> QED
  BY <1>1, <1>2, <1>3

\* The platform goes on with a draft, whose key is there if it was unknown.
LEMMA PlatformKept ==
  ASSUME careful, careful' = careful, TypeOK, TypeOK', StoreKept, UNCHANGED <<dirs, drawn>>,
         NEW d \in Drafts, d \in drawn,
         \/ platform[d] = "none" /\ HasSecret(d) /\ platform'[d] = "open"
         \/ platform[d] = "open" /\ platform'[d] \in {"converted", "dead"}
         \/ platform[d] = "converted" /\ platform'[d] = "claimed",
         platform' = [platform EXCEPT ![d] = platform'[d]]
  PROVE  StoreKept' /\ EnrollmentStep
<1>1. \A e \in Drafts : (HasWard(e)' <=> HasWard(e)) /\ (HasSecret(e)' <=> HasSecret(e))
  BY DEF HasWard, HasSecret, Exists
<1>2. ~HasWard(d) /\ HasSecret(d)
  BY WardsAreClaimed DEF StoreKept, KeysKept
<1>3. /\ \A e \in Drafts \ {d} : platform'[e] = platform[e]
      /\ \A e \in Drafts : Known(e) => Known(e)'
  BY DEF TypeOK, Known
<1>4. EnrollmentStep
  BY <1>2, PlatformStep
<1>5. StoreKept'
  <2>1. PendingFits'
    BY <1>3 DEF StoreKept, PendingFits, Exists, TypeOK
  <2>2. DirsFit'
    BY <1>3 DEF StoreKept, DirsFit, Exists
  <2>3. KnownAreDrawn'
    BY <1>3 DEF StoreKept, KnownAreDrawn, Known
  <2>4. KeysKept'
    BY <1>1, <1>2, <1>3 DEF StoreKept, KeysKept
  <2> QED
    BY <2>1, <2>2, <2>3, <2>4 DEF StoreKept
<1> QED
  BY <1>4, <1>5

------------------------------------------------------------------------------
(* The other commands while one takes a step.                               *)

\* They are idle while it is `new` ...
LEMMA NewCommandsKept ==
  ASSUME CommandsKept, NEW p \in Procs,
         \A q \in Procs \ {p} : /\ pc[q] = "idle" /\ pc'[q] = "idle"
                                /\ at'[q] = at[q] /\ had'[q] = had[q],
         NewFits(p)', CopyFits(p)', at'[p] # Pending
  PROVE  CommandsKept'
<1>1. \A q \in Procs \ {p} : at'[q] = Absent /\ ~had'[q]
  BY DEF CommandsKept, CopyFits, InNewSteps
<1>2. NewIsAlone'
  BY <1>1 DEF NewIsAlone, InNew
<1>3. \A q \in Procs \ {p} : NewFits(q)' /\ CopyFits(q)'
  BY <1>1 DEF NewFits, CopyFits, InNewSteps
<1>4. PendingShared'
  BY <1>1, DirNames DEF PendingShared
<1> QED
  BY <1>2, <1>3, <1>4 DEF CommandsKept

\* ... and do not mind what any other command does to the platform.
LEMMA ActivationCommandsKept ==
  ASSUME CommandsKept, NEW p \in Procs, \A q \in Procs : ~InNew(q), ~InNew(p)',
         \A q \in Procs \ {p} : /\ pc'[q] = pc[q] /\ copy'[q] = copy[q]
                                /\ at'[q] = at[q] /\ had'[q] = had[q],
         \A d \in Drafts : /\ Known(d) => Known(d)'
                           /\ platform[d] \in {"claimed", "dead"} => platform'[d] = platform[d],
         CopyFits(p)', PendingShared'
  PROVE  CommandsKept'
<1>1. \A q \in Procs : ~InNew(q)'
  BY DEF InNew
<1>2. NewIsAlone' /\ \A q \in Procs : NewFits(q)'
  BY <1>1 DEF NewIsAlone, NewFits, InNew
<1>3. ASSUME NEW q \in Procs \ {p} PROVE CopyFits(q)'
  <2>1. CopyFits(q) /\ pc'[q] = pc[q] /\ copy'[q] = copy[q] /\ at'[q] = at[q] /\ had'[q] = had[q]
    BY DEF CommandsKept
  <2>2. ~had[q] /\ pc[q] \notin InNewSteps
    BY DEF InNew, InNewSteps
  <2> QED
    BY <2>1, <2>2 DEF CopyFits
<1> QED
  BY <1>2, <1>3 DEF CommandsKept

\* .pending stays, goes or is saved by one of those who share it.
LEMMA PendingStaysShared ==
  ASSUME CommandsKept, NEW p \in Procs,
         \A q \in Procs \ {p} : copy'[q] = copy[q] /\ at'[q] = at[q],
         Exists(Pending)' => \/ Exists(Pending) /\ dirs'[Pending] = dirs[Pending]
                             \/ at[p] = Pending /\ dirs'[Pending] = Draft(copy[p].draft),
         at'[p] = Pending =>
           \/ at[p] = Pending /\ copy'[p].draft = copy[p].draft
           \/ /\ Exists(Pending) /\ dirs[Pending] = copy'[p]
              /\ copy'[p] = Draft(copy'[p].draft) /\ dirs'[Pending] = dirs[Pending]
  PROVE  PendingShared'
<1> USE DEF CommandsKept
<1>1. \A d : Draft(d).draft = d
  BY DEF Draft
<1>2. ASSUME NEW q \in Procs \ {p}, at[q] = Pending, at'[p] = Pending
      PROVE  copy'[p].draft = copy[q].draft
  BY <1>1, <1>2 DEF PendingShared
<1>3. ASSUME NEW q \in Procs, at'[q] = Pending, Exists(Pending)'
      PROVE  dirs'[Pending] = Draft(copy'[q].draft)
  BY <1>1, <1>2, <1>3 DEF PendingShared
<1>4. ASSUME NEW q \in Procs, NEW r \in Procs, at'[q] = Pending, at'[r] = Pending
      PROVE  copy'[q].draft = copy'[r].draft
  BY <1>2, <1>4 DEF PendingShared
<1> QED
  BY <1>3, <1>4 DEF PendingShared
------------------------------------------------------------------------------
(* The steps of warded new.                                                 *)

\* The end of `new`, or a kill.
LEMMA NewExitKept ==
  ASSUME TypeOK, CommandsKept, NEW p \in Procs, \A q \in Procs \ {p} : pc[q] = "idle", Exit(p)
  PROVE  CommandsKept'
<1>1. pc'[p] = "idle" /\ at'[p] = Absent /\ ~had'[p]
  BY DEF Exit, TypeOK
<1>2. NewFits(p)' /\ CopyFits(p)' /\ at'[p] # Pending
  BY <1>1, DirNames DEF NewFits, CopyFits, InNewSteps
<1>3. \A q \in Procs \ {p} : pc'[q] = "idle" /\ at'[q] = at[q] /\ had'[q] = had[q]
  BY DEF Exit, TypeOK
<1> QED
  BY <1>2, <1>3, NewCommandsKept

\* From one step of `new` to the next.
LEMMA NewGoesOn ==
  ASSUME TypeOK, CommandsKept, NEW p \in Procs, \A q \in Procs \ {p} : pc[q] = "idle",
         at[p] = Absent, NEW s \in InNewSteps, pc' = [pc EXCEPT ![p] = s],
         UNCHANGED at, \A q \in Procs \ {p} : had'[q] = had[q], NewFits(p)'
  PROVE  CommandsKept'
<1>1. pc'[p] = s /\ at'[p] = Absent /\ \A q \in Procs \ {p} : pc'[q] = "idle"
  BY DEF TypeOK
<1>2. CopyFits(p)' /\ at'[p] # Pending
  BY <1>1, DirNames DEF CopyFits, InNewSteps
<1> QED
  BY <1>1, <1>2, NewCommandsKept

\* The edits `new` makes to the records it meets.
LEMMA RecordEdits ==
  ASSUME NEW s \in Drafts
  PROVE  /\ [Key(s) EXCEPT !.ward = Absent] = Key(s) /\ [Draft(s) EXCEPT !.ward = Absent] = Draft(s)
         /\ [Key(s) EXCEPT !.draft = Absent] = Key(s) /\ [Draft(s) EXCEPT !.draft = Absent] = Key(s)
         /\ \A d : WithSecret(Key(s), d) = Key(s) /\ WithSecret(Draft(s), d) = Draft(s)
         /\ WithSecret(Blank, s) = Key(s)
<1>1. Key(s).secret # Absent /\ Draft(s).secret # Absent /\ Blank.secret = Absent
  BY ThreeRecords
<1>2. [Blank EXCEPT !.secret = s] = Key(s)
  BY DEF Blank, Key
<1> QED
  BY <1>1, <1>2 DEF WithSecret, Key, Draft

LEMMA NewKept ==
  ASSUME careful, careful' = careful, TypeOK, TypeOK', StoreKept, CommandsKept,
         NEW p \in Procs, New(p)
  PROVE  StoreKept' /\ CommandsKept' /\ EnrollmentStep
<1>0. /\ \A q \in Procs \ {p} : pc[q] = "idle"
      /\ NewFits(p) /\ CopyFits(p)
      /\ drawn \subseteq Drafts /\ Pending \in Dirs
      /\ at[p] = Absent /\ (pc[p] = "idle" => ~had[p])
      /\ pc[p] \in InNewSteps \union {"idle"}
  <2>1. pc[p] \in InNewSteps \union {"idle"}
    BY DEF New, NewMerge, ExecuteLoad, CheckDeadDraft, CreateRefused, NewSave, NewSubmit, CheckDraft,
       Create, CreateSave, CommitLoad, CommitMove, Goto, InNewSteps
  <2>2. \A q \in Procs \ {p} : pc[q] = "idle"
    <3>1. CASE pc[p] = "idle"
      BY <3>1 DEF New, NewMerge, ExecuteLoad, CheckDeadDraft, CreateRefused, NewSave, NewSubmit, CheckDraft,
         Create, CreateSave, CommitLoad, CommitMove, Goto
    <3>2. CASE InNew(p)
      BY <3>2 DEF CommandsKept, NewIsAlone
    <3> QED
      BY <2>1, <3>1, <3>2 DEF InNew, InNewSteps
  <2> QED
    BY <2>1, <2>2, DirNames DEF CommandsKept, CopyFits, TypeOK, InNewSteps
<1>1. ASSUME NEW d \in Drafts, NewMerge(p, d)
      PROVE  StoreKept' /\ CommandsKept' /\ EnrollmentStep
  <2>1. /\ pc' = [pc EXCEPT ![p] = "merged"] /\ pc'[p] = "merged"
        /\ UNCHANGED <<dirs, platform, at>> /\ drawn \subseteq drawn'
        /\ copy'[p] = WithSecret(Load(Pending), d)
        /\ \A q \in Procs \ {p} : had'[q] = had[q]
    BY <1>1 DEF NewMerge, Goto, Draws, TypeOK
  <2>2. StoreKept' /\ EnrollmentStep /\ \A e \in Drafts : HasSecret(e)' <=> HasSecret(e)
    BY <2>1, StoreSame
  <2>3. \E s \in drawn' :
          \/ PendingHolds(copy[p])' /\ copy'[p] \in {Key(s), Draft(s)}
          \/ ~Exists(Pending)' /\ ~Known(s)' /\ ~HasSecret(s)' /\ copy'[p] = Key(s)
    <3>1. CASE Exists(Pending)
      <4>1. PICK s \in drawn : dirs[Pending] \in {Key(s), Draft(s)}
        BY <3>1 DEF StoreKept, PendingFits
      <4>2. copy'[p] = dirs[Pending]
        <5>1. WithSecret(Key(s), d) = Key(s) /\ WithSecret(Draft(s), d) = Draft(s)
          BY <1>0, RecordEdits
        <5> QED
          BY <2>1, <3>1, <4>1, <5>1 DEF Load
      <4> QED
        BY <2>1, <3>1, <4>1, <4>2 DEF PendingHolds, Exists
    <3>2. CASE ~Exists(Pending)
      <4>1. Load(Pending) = Blank
        BY <3>2 DEF Load
      <4>2. d \notin drawn /\ d \in drawn' /\ copy'[p] = Key(d)
        BY <1>1, <2>1, <4>1, ThreeRecords, RecordEdits DEF NewMerge, Draws
      <4>3. ~Known(d) /\ ~HasSecret(d)
        BY <4>2, UnseenSecret
      <4> QED
        BY <2>1, <2>2, <3>2, <4>2, <4>3 DEF Exists, Known
    <3> QED
      BY <3>1, <3>2
  <2>4. NewFits(p)'
    BY <2>1, <2>3 DEF NewFits, PendingHolds
  <2>5. CommandsKept'
    BY <1>0, <2>1, <2>4, NewGoesOn DEF InNewSteps
  <2> QED
    BY <2>2, <2>5
<1>2. CASE NewSave(p)
  <2>1. PICK s \in drawn : \/ PendingHolds(copy[p]) /\ copy[p] \in {Key(s), Draft(s)}
                           \/ ~Exists(Pending) /\ copy[p] = Key(s)
    BY <1>0, <1>2 DEF NewFits, NewSave
  <2>2. /\ Write(Pending, copy[p]) /\ UNCHANGED <<platform, drawn, careful>> /\ Exit(p)
        /\ copy[p] \in {Key(s), Draft(s)} /\ s \in Drafts
        /\ Exists(Pending) => dirs[Pending] \in {Key(s), Draft(s), Blank}
    <3>1. s \in Drafts /\ copy[p] \in {Key(s), Draft(s)}
      BY <1>0, <2>1
    <3>2. [copy[p] EXCEPT !.ward = Absent] = copy[p]
      BY <3>1, RecordEdits
    <3> QED
      BY <1>2, <2>1, <3>1, <3>2 DEF NewSave, WritePending, PendingHolds
  <2>3. copy[p] = Draft(s) => Known(s)
    <3>1. Key(s) # Draft(s) /\ \A e \in Drafts : Draft(s) # Key(e) /\ (Draft(s) = Draft(e) => s = e)
      BY <2>2, ThreeRecords
    <3> QED
      BY <1>0, <2>1, <3>1 DEF StoreKept, PendingFits, PendingHolds
  <2>4. StoreKept' /\ EnrollmentStep
    BY <2>1, <2>2, <2>3, SecretSaved, DirNames
  <2> QED
    BY <1>0, <2>2, <2>4, NewExitKept
<1>3. CASE NewSubmit(p)
  <2>1. PICK s \in drawn : \/ PendingHolds(copy[p]) /\ copy[p] \in {Key(s), Draft(s)}
                           \/ ~Exists(Pending) /\ copy[p] = Key(s)
    BY <1>0, <1>3 DEF NewFits, NewSubmit, Goto
  <2>2. /\ Write(Pending, Key(s)) /\ UNCHANGED <<platform, drawn, copy, at, had, careful>>
        /\ pc' = [pc EXCEPT ![p] = "submitting"] /\ pc'[p] = "submitting" /\ s \in Drafts
        /\ Exists(Pending) => dirs[Pending] \in {Key(s), Draft(s), Blank}
    <3>1. s \in Drafts /\ copy[p] \in {Key(s), Draft(s)}
      BY <1>0, <2>1
    <3>2. [[copy[p] EXCEPT !.draft = Absent] EXCEPT !.ward = Absent] = Key(s)
      BY <3>1, RecordEdits
    <3> QED
      BY <1>3, <2>1, <3>1, <3>2 DEF NewSubmit, WritePending, Goto, PendingHolds, TypeOK
  <2>3. StoreKept' /\ EnrollmentStep
    <3>1. Key(s) # Draft(s)
      BY <2>2, ThreeRecords
    <3> QED
      BY <2>1, <2>2, <3>1, SecretSaved, DirNames
  <2>4. PendingHolds(Key(s))'
    BY <1>0, <2>2, AfterWrite, ThreeRecords DEF PendingHolds, Exists
  <2>5. NewFits(p)'
    BY <2>1, <2>2, <2>4 DEF NewFits, PendingHolds
  <2> QED
    BY <1>0, <2>2, <2>3, <2>5, NewGoesOn DEF InNewSteps
<1>4. ASSUME NEW d \in Drafts, ExecuteLoad(p, d)
      PROVE  StoreKept' /\ CommandsKept' /\ EnrollmentStep
  <2>1. PICK s \in drawn : PendingHolds(Key(s))
    BY <1>0, <1>4 DEF NewFits, ExecuteLoad, Goto
  <2>2. Load(Pending) = Key(s) /\ s \in Drafts /\ Key(s).draft = Absent /\ Key(s).secret # Absent
    BY <1>0, <2>1, ThreeRecords DEF Load, PendingHolds
  <2>3. /\ pc' = [pc EXCEPT ![p] = "creating"] /\ pc'[p] = "creating" /\ copy'[p] = Key(s)
        /\ UNCHANGED <<dirs, platform, drawn, at, had>>
    <3>1. WithSecret(Key(s), d) = Key(s)
      BY <2>2, RecordEdits
    <3>2. /\ pc' = [pc EXCEPT ![p] = "creating"]
          /\ copy' = [copy EXCEPT ![p] = Key(s)]
          /\ UNCHANGED <<dirs, platform, drawn, at, had>>
      BY <1>4, <2>2, <3>1 DEF ExecuteLoad, Goto, Draws
    <3> QED
      BY <3>2 DEF TypeOK
  <2>4. NewFits(p)'
    BY <2>1, <2>3 DEF NewFits, PendingHolds, Exists
  <2> QED
    BY <1>0, <2>3, <2>4, StoreSame, NewGoesOn DEF InNewSteps
<1>5. ASSUME NEW d \in Drafts, CreateRefused(p, d)
      PROVE  StoreKept' /\ CommandsKept' /\ EnrollmentStep
  <2>1. PICK s \in drawn : PendingHolds(Key(s)) /\ copy[p] = Key(s)
    BY <1>0, <1>5 DEF NewFits, CreateRefused, Goto
  <2>2. /\ s \in Drafts /\ platform[s] = "dead" /\ d \notin drawn /\ drawn' = drawn \union {d}
        /\ Write(Pending, Key(d)) /\ UNCHANGED <<platform, at, had>>
        /\ pc' = [pc EXCEPT ![p] = "refused"] /\ pc'[p] = "refused" /\ copy'[p] = Key(d)
    <3>1. s \in Drafts /\ Key(s).secret = s /\ Blank.secret = Absent /\ WithSecret(Blank, d) = Key(d)
          /\ [Key(d) EXCEPT !.ward = Absent] = Key(d)
      BY <1>0, ThreeRecords, RecordEdits
    <3> QED
      BY <1>5, <2>1, <3>1 DEF CreateRefused, WritePending, Goto, Draws, TypeOK
  <2>3. StoreKept' /\ EnrollmentStep
    BY <2>1, <2>2, SecretReplaced
  <2>4. PendingHolds(Key(d))'
    BY <1>0, <2>2, AfterWrite, ThreeRecords DEF PendingHolds, Exists
  <2>5. NewFits(p)'
    BY <2>2, <2>4 DEF NewFits, PendingHolds
  <2> QED
    BY <1>0, <2>2, <2>3, <2>5, NewGoesOn DEF InNewSteps
<1>6. CASE Create(p)
  <2>1. PICK s \in drawn : PendingHolds(Key(s)) /\ copy[p] = Key(s)
    BY <1>0, <1>6 DEF NewFits, Create
  <2>2. s \in Drafts /\ copy[p].secret = s /\ copy[p].draft = Absent /\ HasSecret(s)
    BY <1>0, <2>1, ThreeRecords DEF HasSecret, PendingHolds
  <2>3. /\ pc' = [pc EXCEPT ![p] = "created"] /\ pc'[p] = "created" /\ copy'[p] = Draft(s)
        /\ UNCHANGED <<dirs, drawn, at, had>>
        /\ platform' = [platform EXCEPT ![s] = platform'[s]]
        /\ platform'[s] = IF platform[s] = "none" THEN "open" ELSE platform[s]
    <3>1. [Key(s) EXCEPT !.draft = s] = Draft(s)
      BY DEF Key, Draft
    <3>2. copy' = [copy EXCEPT ![p] = Draft(s)]
      BY <1>6, <2>1, <2>2, <3>1 DEF Create
    <3> QED
      BY <1>6, <2>2, <3>2 DEF Create, TypeOK
  <2>4. StoreKept' /\ EnrollmentStep
    <3>1. CASE platform[s] = "none"
      BY <2>2, <2>3, <3>1, PlatformKept
    <3>2. CASE platform[s] # "none"
      <4>1. platform' = platform
        BY <2>3, <3>2 DEF TypeOK
      <4> QED
        BY <2>3, <4>1, StoreSame
    <3> QED
      BY <3>1, <3>2
  <2>5. NewFits(p)'
    BY <2>1, <2>3 DEF NewFits, PendingHolds, Exists, Known
  <2> QED
    BY <1>0, <2>3, <2>4, <2>5, NewGoesOn DEF InNewSteps
<1>7. CASE CreateSave(p)
  <2>1. PICK s \in drawn : PendingHolds(Key(s)) /\ copy[p] = Draft(s) /\ Known(s)
    BY <1>0, <1>7 DEF NewFits, CreateSave
  <2>2. /\ s \in Drafts /\ Write(Pending, Draft(s)) /\ UNCHANGED <<platform, drawn>>
        /\ Exists(Pending) => dirs[Pending] \in {Key(s), Draft(s), Blank}
    <3>1. s \in Drafts /\ [Draft(s) EXCEPT !.ward = Absent] = Draft(s)
      BY <1>0, RecordEdits
    <3> QED
      BY <1>7, <2>1, <3>1 DEF CreateSave, WritePending, PendingHolds
  <2>3. StoreKept' /\ EnrollmentStep
    BY <2>1, <2>2, SecretSaved, DirNames
  <2>4. CASE had[p]
    <3>1. /\ pc' = [pc EXCEPT ![p] = "committing"] /\ pc'[p] = "committing" /\ had'[p]
          /\ copy'[p] = Draft(s) /\ UNCHANGED <<at, had>>
      BY <1>7, <2>1, <2>4 DEF CreateSave, Goto, TypeOK
    <3>2. PendingHolds(Draft(s))'
      BY <1>0, <2>2, AfterWrite, ThreeRecords DEF PendingHolds, Exists
    <3>3. NewFits(p)'
      BY <2>1, <2>2, <3>1, <3>2 DEF NewFits, PendingHolds, Known
    <3> QED
      BY <1>0, <2>3, <3>1, <3>3, NewGoesOn DEF InNewSteps
  <2>5. CASE ~had[p]
    BY <1>0, <1>7, <2>3, <2>5, NewExitKept DEF CreateSave
  <2> QED
    BY <2>4, <2>5
<1>8. CASE CommitLoad(p)
  <2>1. PICK s \in drawn : had[p] /\ PendingHolds(Draft(s)) /\ Known(s)
    BY <1>0, <1>8 DEF NewFits, CommitLoad, Goto
  <2>2. /\ pc' = [pc EXCEPT ![p] = "moving"] /\ pc'[p] = "moving" /\ copy'[p] = Draft(s)
        /\ UNCHANGED <<dirs, platform, drawn, at, had>>
    BY <1>8, <2>1 DEF CommitLoad, Goto, PendingHolds, TypeOK, storeVars
  <2>3. NewFits(p)'
    BY <2>1, <2>2 DEF NewFits, PendingHolds, Exists, Known
  <2> QED
    BY <1>0, <2>2, <2>3, StoreSame, NewGoesOn DEF InNewSteps
<1>9. CASE CommitMove(p)
  <2>1. PICK s \in drawn : had[p] /\ PendingHolds(Draft(s)) /\ copy[p] = Draft(s) /\ Known(s)
    BY <1>0, <1>9 DEF NewFits, CommitMove, Goto
  <2>2. s \in Drafts /\ Target(copy[p], Absent) = DraftDir(s)
    BY <1>0, <2>1, ThreeRecords DEF Target
  <2>3. /\ Rename(Pending, DraftDir(s)) /\ ~Exists(DraftDir(s)) /\ Exists(Pending)
        /\ UNCHANGED <<platform, drawn, copy, had>>
        /\ pc'[p] = "writing" /\ at'[p] = DraftDir(s) /\ copy'[p] = Draft(s) /\ had'[p]
        /\ \A q \in Procs \ {p} : pc'[q] = pc[q] /\ at'[q] = at[q]
    BY <1>9, <2>1, <2>2, DirNames DEF CommitMove, Goto, PendingHolds, TypeOK
  <2>4. StoreKept' /\ EnrollmentStep
    BY <1>0, <2>1, <2>2, <2>3, DraftMoved, DirNames DEF PendingHolds
  <2>5. NewFits(p)' /\ CopyFits(p)' /\ at'[p] # Pending
    BY <2>1, <2>2, <2>3, DirNames DEF NewFits, CopyFits, InNewSteps, Known
  <2> QED
    BY <1>0, <2>3, <2>4, <2>5, NewCommandsKept
<1>10. pc[p] # "checking"
  BY <1>0 DEF NewFits
<1> QED
  BY <1>1, <1>2, <1>3, <1>4, <1>5, <1>6, <1>7, <1>8, <1>9, <1>10
  DEF New, CheckDraft, CheckDeadDraft, Goto
------------------------------------------------------------------------------
(* The steps of status, whitelist and serve.                                *)

\* A draft read from a directory is the one the directory is for.
LEMMA DraftRead ==
  ASSUME TypeOK, StoreKept, NEW n \in Dirs, Exists(n), dirs[n].ward = Absent, dirs[n].draft # Absent
  PROVE  \E d \in Drafts : /\ dirs[n] = Draft(d) /\ Known(d) /\ n \in {Pending, DraftDir(d), WardDir(d)}
                           /\ n = WardDir(d) => platform[d] = "claimed"
<1>1. CASE n = Pending
  <2>1. PICK s \in drawn : \/ dirs[Pending] = Key(s)
                           \/ dirs[Pending] = Draft(s) /\ Known(s)
    BY <1>1 DEF StoreKept, PendingFits
  <2>2. s \in Drafts /\ Key(s).draft = Absent /\ Pending # WardDir(s)
    BY ThreeRecords, DirNames DEF TypeOK
  <2> QED
    BY <1>1, <2>1, <2>2
<1>2. ASSUME NEW d \in Drafts, n \in {DraftDir(d), WardDir(d)}
      PROVE  /\ dirs[n] = Draft(d) /\ Known(d)
             /\ n = WardDir(d) => platform[d] = "claimed"
  BY <1>2, ThreeRecords, DirNames DEF StoreKept, DirsFit, Known
<1> QED
  BY <1>1, <1>2, DirNames

\* What `status` and `whitelist` find by the id of a draft.
LEMMA DraftFound ==
  ASSUME TypeOK, StoreKept, NEW d \in Drafts, NEW n \in FoundByID(d)
  PROVE  /\ n \in {Pending, DraftDir(d)} /\ Exists(n)
         /\ \/ dirs[n] = Draft(d) /\ Known(d)
            \/ dirs[n] = Blank /\ platform[d] = "dead" /\ n = DraftDir(d)
<1>1. CASE n = Pending
  <2>1. Exists(Pending) /\ d \in {dirs[Pending].draft, dirs[Pending].ward}
    BY <1>1, DirNames DEF FoundByID
  <2>2. PICK s \in drawn : \/ dirs[Pending] = Key(s)
                           \/ dirs[Pending] = Draft(s) /\ Known(s)
    BY <2>1 DEF StoreKept, PendingFits
  <2>3. s \in Drafts
    BY DEF TypeOK
  <2>4. dirs[Pending] = Draft(s) /\ Known(s) /\ s = d
    BY <2>1, <2>2, <2>3, ThreeRecords
  <2> QED
    BY <1>1, <2>1, <2>4
<1>2. CASE n # Pending
  BY <1>2 DEF FoundByID, StoreKept, DirsFit
<1> QED
  BY <1>1, <1>2

\* A command that goes on with a record at hand: loading it, asking, claiming.
LEMMA ActivationGoesOn ==
  ASSUME careful' = careful, TypeOK, TypeOK', StoreKept, CommandsKept, NEW p \in Procs,
         \A q \in Procs : ~InNew(q), UNCHANGED <<dirs, platform, drawn, had>>,
         \A q \in Procs \ {p} : pc'[q] = pc[q] /\ copy'[q] = copy[q] /\ at'[q] = at[q],
         pc'[p] \notin InNewSteps, CopyFits(p)',
         at'[p] = Pending =>
           \/ at[p] = Pending /\ copy'[p].draft = copy[p].draft
           \/ Exists(Pending) /\ dirs[Pending] = copy'[p] /\ copy'[p] = Draft(copy'[p].draft)
  PROVE  StoreKept' /\ CommandsKept' /\ EnrollmentStep
<1>1. StoreKept' /\ EnrollmentStep
  BY StoreSame
<1>2. ~InNew(p)'
  BY DEF InNew, InNewSteps
<1>3. PendingShared'
  BY PendingStaysShared DEF Exists
<1>4. CommandsKept'
  BY <1>2, <1>3, ActivationCommandsKept DEF Known
<1> QED
  BY <1>1, <1>4

\* A command that saves and ends.
LEMMA ActivationExitKept ==
  ASSUME TypeOK, CommandsKept, NEW p \in Procs,
         \A q \in Procs : ~InNew(q), UNCHANGED platform, Exit(p),
         Exists(Pending)' => \/ Exists(Pending) /\ dirs'[Pending] = dirs[Pending]
                             \/ at[p] = Pending /\ dirs'[Pending] = Draft(copy[p].draft)
  PROVE  CommandsKept'
<1>1. /\ pc'[p] = "idle" /\ at'[p] = Absent /\ ~had'[p]
      /\ \A q \in Procs \ {p} : /\ pc'[q] = pc[q] /\ copy'[q] = copy[q]
                                /\ at'[q] = at[q] /\ had'[q] = had[q]
  BY DEF Exit, TypeOK
<1>2. ~InNew(p)' /\ CopyFits(p)' /\ at'[p] # Pending
  BY <1>1, DirNames DEF InNew, CopyFits, InNewSteps
<1>3. PendingShared'
  BY <1>1, <1>2, PendingStaysShared
<1> QED
  BY <1>1, <1>2, <1>3, ActivationCommandsKept DEF Known

\* Loading a draft is the first step of a command.
LEMMA LoadKept ==
  ASSUME careful, careful' = careful, TypeOK, TypeOK', StoreKept, CommandsKept, NEW p \in Procs,
         (\E d \in Drafts : StatusLoad(p, d) \/ WhitelistLoad(p, d)) \/ ServeLoad(p)
  PROVE  StoreKept' /\ CommandsKept' /\ EnrollmentStep
<1>1. \E n :
        /\ copy'[p] = dirs[n] /\ at'[p] = n
        /\ pc'[p] \in {"asking", "saving"} => \E d \in Drafts : n \in FoundByID(d)
        /\ pc'[p] = "starting" => n \in Found(Absent)
        /\ pc'[p] \in {"asking", "starting"} => IsDraft(dirs[n])
  BY DEF StatusLoad, WhitelistLoad, ServeLoad, Goto, TypeOK
<1>2. /\ pc'[p] \in {"asking", "saving", "starting"}
      /\ \A q \in Procs : ~InNew(q)
      /\ UNCHANGED <<dirs, platform, drawn, had>>
      /\ \A q \in Procs \ {p} : pc'[q] = pc[q] /\ copy'[q] = copy[q] /\ at'[q] = at[q]
      /\ ~had'[p]
  BY DEF StatusLoad, WhitelistLoad, ServeLoad, Goto, TypeOK, storeVars, InNew
<1>3. CASE pc'[p] \in {"asking", "saving"}
  <2> PICK n : /\ copy'[p] = dirs[n] /\ at'[p] = n
               /\ \E d \in Drafts : n \in FoundByID(d)
               /\ pc'[p] = "asking" => IsDraft(dirs[n])
    BY <1>1, <1>3
  <2>0. PICK d \in Drafts : n \in FoundByID(d)
    OBVIOUS
  <2>1. /\ n \in {Pending, DraftDir(d)} /\ Exists(n)
        /\ \/ dirs[n] = Draft(d) /\ Known(d)
           \/ dirs[n] = Blank /\ platform[d] = "dead" /\ n = DraftDir(d)
    BY <2>0, DraftFound
  <2>2. pc'[p] = "asking" => dirs[n] = Draft(d)
    BY <2>0, <2>1, ThreeRecords DEF IsDraft
  <2>3. CopyFits(p)'
    BY <2>0, <1>2, <1>3, <2>1, <2>2 DEF CopyFits, InNewSteps, Known
  <2>4. n = Pending => Exists(Pending) /\ dirs[Pending] = copy'[p] /\ copy'[p] = Draft(copy'[p].draft)
    BY <2>0, <2>1, DirNames, ThreeRecords
  <2> QED
    BY <2>0, <1>2, <1>3, <2>3, <2>4, ActivationGoesOn DEF InNewSteps
<1>4. CASE pc'[p] = "starting"
  <2>0. PICK n \in Found(Absent) : copy'[p] = dirs[n] /\ at'[p] = n /\ IsDraft(dirs[n])
    BY <1>1, <1>4
  <2>1. n \in Dirs /\ n # Pending /\ Exists(n) /\ IsDraft(dirs[n])
    BY <2>0 DEF Found, Committed, Dirs, Pending
  <2>2. PICK e \in Drafts : /\ dirs[n] = Draft(e) /\ Known(e) /\ n \in {Pending, DraftDir(e), WardDir(e)}
                            /\ n = WardDir(e) => platform[e] = "claimed"
    BY <2>1, DraftRead DEF IsDraft
  <2>3. CopyFits(p)'
    BY <2>0, <1>2, <1>4, <2>1, <2>2 DEF CopyFits, InNewSteps, Known
  <2> QED
    BY <2>0, <1>2, <1>4, <2>1, <2>3, ActivationGoesOn DEF InNewSteps
<1> QED
  BY <1>2, <1>3, <1>4

\* No `new` is running while another command works on a record.
LEMMA NoNewMeanwhile ==
  ASSUME CommandsKept, NEW p \in Procs, pc[p] \notin InNewSteps \union {"idle"}, ~had[p]
  PROVE  \A q \in Procs : ~InNew(q)
BY DEF CommandsKept, NewIsAlone, InNew, InNewSteps

LEMMA ActivationKept ==
  ASSUME careful, careful' = careful, TypeOK, TypeOK', StoreKept, CommandsKept, NEW p \in Procs,
         Status(p) \/ Whitelist(p) \/ Serve(p) \/ Finalize(p)
  PROVE  StoreKept' /\ CommandsKept' /\ EnrollmentStep
<1> USE DEF storeVars
<1>0. NewFits(p) /\ CopyFits(p) /\ PendingShared /\ copy[p] \in Record /\ Pending \in Dirs
      /\ (pc[p] \notin InNewSteps \union {"idle", "writing"} => ~had[p])
  BY DirNames DEF CommandsKept, CopyFits, TypeOK, InNewSteps
<1>1. CASE pc[p] = "idle"
  BY <1>1, LoadKept DEF Status, Whitelist, Serve, Finalize, StatusAsk, ServeAsk, ServeForget,
     FinalizeLoad, Claim, Persist, SaveInPlace, SaveMove, SaveWrite, Goto, ServeLoad
<1>2. CASE StatusAsk(p)
  <2>1. PICK d \in Drafts : copy[p] = Draft(d) /\ Known(d) /\ at[p] \in {Pending, DraftDir(d)}
    BY <1>0, <1>2 DEF StatusAsk, Goto, CopyFits
  <2>2. /\ pc'[p] \in {"finalizing", "saving"} /\ UNCHANGED <<dirs, platform, drawn, copy, at, had>>
        /\ \A q \in Procs \ {p} : pc'[q] = pc[q]
        /\ ~had[p] /\ \A q \in Procs : ~InNew(q)
    BY <1>0, <1>2, NoNewMeanwhile DEF StatusAsk, Goto, TypeOK, InNewSteps
  <2>3. CopyFits(p)'
    BY <2>1, <2>2 DEF CopyFits, InNewSteps, Known
  <2> QED
    BY <2>2, <2>3, ActivationGoesOn DEF InNewSteps
<1>3. CASE FinalizeLoad(p)
  <2>1. PICK n \in Found(at[p]) : IsDraft(dirs[n]) /\ copy'[p] = dirs[n] /\ at'[p] = n
    BY <1>3 DEF FinalizeLoad, TypeOK
  <2>2. n \in Dirs /\ Exists(n) /\ (n = Pending => at[p] = Pending)
    BY <2>1, AbsentAssumption DEF Found, Committed, Dirs, Pending, TypeOK
  <2>3. PICK d \in Drafts : /\ dirs[n] = Draft(d) /\ Known(d) /\ n \in {Pending, DraftDir(d), WardDir(d)}
                            /\ n = WardDir(d) => platform[d] = "claimed"
    BY <2>1, <2>2, DraftRead DEF IsDraft
  <2>4. /\ pc'[p] = "claiming" /\ UNCHANGED <<dirs, platform, drawn, had>>
        /\ \A q \in Procs \ {p} : pc'[q] = pc[q] /\ copy'[q] = copy[q] /\ at'[q] = at[q]
        /\ ~had[p] /\ \A q \in Procs : ~InNew(q)
    BY <1>0, <1>3, NoNewMeanwhile DEF FinalizeLoad, Goto, TypeOK, InNewSteps
  <2>5. CopyFits(p)'
    BY <2>1, <2>3, <2>4 DEF CopyFits, InNewSteps, Known
  <2>6. n = Pending => Exists(Pending) /\ dirs[Pending] = copy'[p] /\ copy'[p] = Draft(copy'[p].draft)
    BY <2>1, <2>2, <2>3, ThreeRecords
  <2> QED
    BY <2>1, <2>4, <2>5, <2>6, ActivationGoesOn DEF InNewSteps
<1>4. CASE ServeAsk(p)
  <2>1. PICK d \in Drafts : /\ copy[p] = Draft(d) /\ Known(d)
                            /\ at[p] \in {Pending, DraftDir(d), WardDir(d)}
                            /\ at[p] = WardDir(d) => platform[d] = "claimed"
    BY <1>0, <1>4 DEF ServeAsk, Goto, CopyFits
  <2>2. /\ pc'[p] = "claiming" /\ UNCHANGED <<dirs, platform, drawn, copy, at, had>>
        /\ \A q \in Procs \ {p} : pc'[q] = pc[q]
        /\ ~had[p] /\ \A q \in Procs : ~InNew(q)
    BY <1>0, <1>4, NoNewMeanwhile DEF ServeAsk, Goto, TypeOK, InNewSteps
  <2>3. CopyFits(p)'
    BY <2>1, <2>2 DEF CopyFits, InNewSteps, Known
  <2> QED
    BY <2>2, <2>3, ActivationGoesOn DEF InNewSteps
<1>5. CASE ServeForget(p)
  <2>1. PICK d \in Drafts : copy[p] = Draft(d) /\ at[p] = DraftDir(d) /\ platform[d] = "dead"
    <3>1. PICK d \in Drafts : /\ copy[p] = Draft(d) /\ at[p] \in {Pending, DraftDir(d), WardDir(d)}
                              /\ at[p] # Pending /\ (at[p] = WardDir(d) => platform[d] = "claimed")
      BY <1>0, <1>5 DEF ServeForget, Goto, CopyFits
    <3> QED
      BY <1>5, <3>1, ThreeRecords DEF ServeForget
  <2>2. /\ pc'[p] = "saving" /\ copy'[p] = Blank /\ UNCHANGED <<dirs, platform, drawn, at, had>>
        /\ \A q \in Procs \ {p} : pc'[q] = pc[q] /\ copy'[q] = copy[q]
        /\ ~had[p] /\ \A q \in Procs : ~InNew(q)
    BY <1>0, <1>5, NoNewMeanwhile DEF ServeForget, Goto, TypeOK, InNewSteps
  <2>3. CopyFits(p)' /\ at'[p] # Pending
    BY <2>1, <2>2, DirNames DEF CopyFits, InNewSteps, Known
  <2> QED
    BY <2>2, <2>3, ActivationGoesOn DEF InNewSteps
<1>6. CASE Claim(p)
  <2>1. PICK d \in Drafts : /\ copy[p] = Draft(d) /\ Known(d)
                            /\ at[p] \in {Pending, DraftDir(d), WardDir(d)}
    BY <1>0, <1>6 DEF Claim, Goto, CopyFits
  <2>2. copy[p].draft = d /\ d \in drawn
    BY <2>1, ThreeRecords DEF StoreKept, KnownAreDrawn
  <2>3. /\ pc'[p] = "claimed" /\ UNCHANGED <<dirs, drawn, copy, at, had>>
        /\ platform[d] \in {"converted", "claimed"} /\ platform' = [platform EXCEPT ![d] = "claimed"]
        /\ \A q \in Procs \ {p} : pc'[q] = pc[q]
        /\ ~had[p] /\ \A q \in Procs : ~InNew(q)
    BY <1>0, <1>6, <2>2, NoNewMeanwhile DEF Claim, Goto, TypeOK, InNewSteps
  <2>4. /\ platform'[d] = "claimed"
        /\ \A e \in Drafts \ {d} : platform'[e] = platform[e]
        /\ platform' = [platform EXCEPT ![d] = platform'[d]]
    BY <2>3 DEF TypeOK
  <2>5. StoreKept' /\ EnrollmentStep
    <3>1. CASE platform[d] = "converted"
      BY <2>2, <2>3, <2>4, <3>1, PlatformKept
    <3>2. CASE platform[d] = "claimed"
      <4>1. platform' = platform
        BY <2>3, <3>2 DEF TypeOK
      <4> QED
        BY <2>3, <4>1, StoreSame
    <3> QED
      BY <2>3, <3>1, <3>2
  <2>6. CopyFits(p)'
    BY <2>1, <2>3, <2>4 DEF CopyFits, InNewSteps, Known
  <2>7. PendingShared'
    BY <1>0, <2>3 DEF PendingShared, Exists
  <2>8. /\ ~InNew(p)'
        /\ \A e \in Drafts : /\ Known(e) => Known(e)'
                             /\ platform[e] \in {"claimed", "dead"} => platform'[e] = platform[e]
    BY <2>3, <2>4 DEF InNew, Known
  <2>9. CommandsKept'
    BY <2>3, <2>6, <2>7, <2>8, ActivationCommandsKept
  <2> QED
    BY <2>5, <2>9
<1>7. CASE Persist(p)
  <2>1. PICK d \in Drafts : /\ copy[p] = Draft(d) /\ platform[d] = "claimed"
                            /\ at[p] \in {Pending, DraftDir(d), WardDir(d)}
    BY <1>0, <1>7 DEF Persist, Goto, CopyFits
  <2>2. [copy[p] EXCEPT !.ward = copy[p].draft, !.secret = Absent] = Ward(d)
    <3>1. copy[p].draft = d
      BY <2>1, ThreeRecords
    <3>2. [Draft(d) EXCEPT !.ward = d] = [draft |-> d, secret |-> d, ward |-> d]
      BY DEF Draft
    <3>3. [[draft |-> d, secret |-> d, ward |-> d] EXCEPT !.secret = Absent] = Ward(d)
      BY DEF Ward
    <3> QED
      BY <2>1, <3>1, <3>2, <3>3
  <2>3. copy' = [copy EXCEPT ![p] = Ward(d)]
    BY <1>7, <2>2 DEF Persist, TypeOK
  <2>4. /\ pc'[p] = "saving" /\ copy'[p] = Ward(d) /\ UNCHANGED <<dirs, platform, drawn, at, had>>
        /\ \A q \in Procs \ {p} : pc'[q] = pc[q] /\ copy'[q] = copy[q]
        /\ ~had[p] /\ \A q \in Procs : ~InNew(q)
    BY <1>0, <1>7, <2>3, NoNewMeanwhile DEF Persist, Goto, TypeOK, InNewSteps
  <2>5. CopyFits(p)' /\ copy'[p].draft = copy[p].draft
    BY <2>1, <2>4, ThreeRecords DEF CopyFits, InNewSteps, Known
  <2> QED
    BY <2>4, <2>5, ActivationGoesOn DEF InNewSteps
<1>8. CASE SaveInPlace(p)
  <2>1. PICK d \in Drafts :
          \/ copy[p] = Draft(d) /\ Known(d) /\ at[p] \in {Pending, DraftDir(d)}
          \/ /\ copy[p] = Ward(d) /\ platform[d] = "claimed"
             /\ at[p] \in {Pending, DraftDir(d), WardDir(d)}
          \/ copy[p] = Blank /\ platform[d] = "dead" /\ at[p] = DraftDir(d)
    BY <1>0, <1>8 DEF SaveInPlace, CopyFits
  <2>2. /\ Write(at[p], copy[p]) /\ Exit(p) /\ UNCHANGED <<platform, drawn>>
        /\ \A q \in Procs : ~InNew(q)
    BY <1>0, <1>8, NoNewMeanwhile DEF SaveInPlace, InNewSteps
  <2>3. CASE copy[p] = Draft(d) /\ Known(d) /\ at[p] \in {Pending, DraftDir(d)}
    <3>1. at[p] = Pending /\ Exists(Pending) => dirs[Pending] = Draft(d)
      BY <1>0, <2>3, ThreeRecords DEF PendingShared
    <3>2. d \in drawn
      BY <2>3 DEF StoreKept, KnownAreDrawn
    <3>3. Exists(at[p]) => dirs[at[p]] \in {Key(d), Draft(d), Blank}
      BY <2>3, <3>1 DEF StoreKept, DirsFit
    <3>4. StoreKept' /\ EnrollmentStep
      BY <2>2, <2>3, <3>2, <3>3, SecretSaved
    <3>5. at[p] \in Dirs /\ copy[p].draft = d /\ (Pending # at[p] => dirs'[Pending] = dirs[Pending])
          /\ dirs'[at[p]] = Draft(d)
      BY <1>0, <2>2, <2>3, DirNames, ThreeRecords, AfterWrite
    <3>6. CommandsKept'
      BY <2>2, <3>5, ActivationExitKept DEF Exists
    <3> QED
      BY <3>4, <3>6
  <2>4. CASE \/ copy[p] = Ward(d) /\ platform[d] = "claimed" /\ at[p] \in {Pending, DraftDir(d), WardDir(d)}
             \/ copy[p] = Blank /\ platform[d] = "dead" /\ at[p] = DraftDir(d)
    <3>1. copy[p] = Ward(d) => at[p] = WardDir(d)
      BY <1>8, <2>4, ThreeRecords DEF SaveInPlace, InPlace, Target
    <3>2. at[p] \in Dirs /\ at[p] # Pending
      BY <2>4, <3>1, DirNames
    <3>3. \/ at[p] = DraftDir(d) /\ copy[p] = Blank /\ platform[d] = "dead"
          \/ at[p] = WardDir(d) /\ copy[p] = Ward(d) /\ platform[d] = "claimed"
      BY <2>4, <3>1, ThreeRecords
    <3>4. StoreKept' /\ EnrollmentStep
      BY <1>0, <2>2, <3>2, <3>3, SecretTakenAway
    <3>5. dirs'[Pending] = dirs[Pending]
      BY <1>0, <2>2, <3>2, AfterWrite
    <3>6. CommandsKept'
      BY <2>2, <3>5, ActivationExitKept DEF Exists
    <3> QED
      BY <3>4, <3>6
  <2> QED
    BY <2>1, <2>3, <2>4
<1>9. CASE SaveMove(p)
  <2>1. PICK d \in Drafts :
          \/ copy[p] = Draft(d) /\ Known(d) /\ at[p] \in {Pending, DraftDir(d)}
          \/ /\ copy[p] = Ward(d) /\ platform[d] = "claimed"
             /\ at[p] \in {Pending, DraftDir(d), WardDir(d)}
          \/ copy[p] = Blank /\ platform[d] = "dead" /\ at[p] = DraftDir(d)
    BY <1>0, <1>9 DEF SaveMove, Goto, CopyFits
  <2>2. /\ copy[p] = Ward(d) /\ platform[d] = "claimed" /\ at[p] \in {Pending, DraftDir(d)}
        /\ Target(copy[p], at[p]) = WardDir(d)
    <3>1. copy[p] # Draft(d)
      BY <1>9, <2>1, ThreeRecords DEF SaveMove, InPlace, Target
    <3>2. copy[p] # Blank
      BY <1>9, <2>1, ThreeRecords, DirNames DEF SaveMove, InPlace, Target
    <3>3. copy[p] = Ward(d) => Target(copy[p], at[p]) = WardDir(d)
      BY ThreeRecords DEF Target
    <3> QED
      BY <1>9, <2>1, <3>1, <3>2, <3>3 DEF SaveMove, InPlace
  <2>3. /\ UNCHANGED dirs \/ (~Exists(WardDir(d)) /\ Exists(at[p]) /\ Rename(at[p], WardDir(d)))
        /\ pc'[p] = "writing" /\ at'[p] = WardDir(d) /\ UNCHANGED <<platform, drawn, copy, had>>
        /\ \A q \in Procs \ {p} : pc'[q] = pc[q] /\ at'[q] = at[q]
        /\ ~had[p] /\ \A q \in Procs : ~InNew(q)
    BY <1>0, <1>9, <2>2, NoNewMeanwhile DEF SaveMove, Goto, TypeOK, InNewSteps
  <2>4. StoreKept' /\ EnrollmentStep
    <3>1. CASE UNCHANGED dirs
      BY <2>3, <3>1, StoreSame
    <3>2. CASE ~Exists(WardDir(d)) /\ Exists(at[p]) /\ Rename(at[p], WardDir(d))
      <4>1. at[p] = Pending => dirs[Pending] = Draft(d) /\ Known(d)
        BY <1>0, <2>2, <3>2, ThreeRecords DEF PendingShared, Known
      <4> QED
        BY <2>2, <2>3, <3>2, <4>1, DraftMoved, DirNames
    <3> QED
      BY <2>3, <3>1, <3>2
  <2>5. CopyFits(p)' /\ ~InNew(p)' /\ at'[p] # Pending
    BY <2>2, <2>3, DirNames DEF CopyFits, InNewSteps, InNew, Known
  <2>6. Exists(Pending)' => Exists(Pending) /\ dirs'[Pending] = dirs[Pending]
    <3>1. CASE UNCHANGED dirs
      BY <3>1 DEF Exists
    <3>2. CASE at[p] = Pending /\ Exists(Pending) /\ ~Exists(WardDir(d)) /\ Rename(Pending, WardDir(d))
      BY <1>0, <3>2, DirNames, AfterRename
    <3>3. CASE at[p] = DraftDir(d) /\ Exists(at[p]) /\ ~Exists(WardDir(d)) /\ Rename(at[p], WardDir(d))
      BY <1>0, <3>3, DirNames, AfterRename DEF Exists
    <3> QED
      BY <2>2, <2>3, <3>1, <3>2, <3>3
  <2>7. PendingShared'
    BY <2>3, <2>5, <2>6, PendingStaysShared
  <2>8. CommandsKept'
    BY <2>3, <2>5, <2>7, ActivationCommandsKept DEF Known
  <2> QED
    BY <2>4, <2>8
<1>10. CASE SaveWrite(p) /\ ~had[p]
  <2>1. PICK d \in Drafts : copy[p] = Ward(d) /\ platform[d] = "claimed" /\ at[p] = WardDir(d)
    BY <1>0, <1>10 DEF SaveWrite, CopyFits
  <2>2. /\ Write(at[p], copy[p]) /\ Exit(p) /\ UNCHANGED <<platform, drawn>>
        /\ \A q \in Procs : ~InNew(q) /\ at[p] \in Dirs /\ at[p] # Pending
    BY <1>0, <1>10, <2>1, NoNewMeanwhile, DirNames DEF SaveWrite, InNewSteps
  <2>3. StoreKept' /\ EnrollmentStep
    BY <1>0, <2>1, <2>2, SecretTakenAway
  <2>4. dirs'[Pending] = dirs[Pending]
    BY <1>0, <2>2, AfterWrite
  <2>5. CommandsKept'
    BY <2>2, <2>4, ActivationExitKept DEF Exists
  <2> QED
    BY <2>3, <2>5
<1>11. CASE SaveWrite(p) /\ had[p]
  <2>1. PICK d \in Drafts : copy[p] = Draft(d) /\ Known(d) /\ at[p] = DraftDir(d)
    BY <1>0, <1>11 DEF SaveWrite, CopyFits
  <2>2. /\ Write(DraftDir(d), Draft(d)) /\ Exit(p) /\ UNCHANGED <<platform, drawn>> /\ d \in drawn
        /\ Exists(DraftDir(d)) => dirs[DraftDir(d)] \in {Key(d), Draft(d), Blank}
    BY <1>11, <2>1 DEF SaveWrite, StoreKept, KnownAreDrawn, DirsFit
  <2>3. StoreKept' /\ EnrollmentStep
    BY <2>1, <2>2, SecretSaved
  <2>4. \A q \in Procs \ {p} : pc[q] = "idle"
    BY <1>11 DEF CommandsKept, NewIsAlone, InNew
  <2> QED
    BY <2>2, <2>3, <2>4, NewExitKept
<1> QED
  BY <1>1, <1>2, <1>3, <1>4, <1>5, <1>6, <1>7, <1>8, <1>9, <1>10, <1>11
  DEF Status, Whitelist, Serve, Finalize, StatusLoad, WhitelistLoad, ServeLoad, Goto

\* A command that ends at any moment leaves nothing behind that does not fit.
LEMMA StopKept ==
  ASSUME careful, careful' = careful, TypeOK, StoreKept, CommandsKept, NEW p \in Procs, Stop(p)
  PROVE  StoreKept' /\ CommandsKept' /\ EnrollmentStep
<1>1. UNCHANGED <<dirs, platform, drawn>> /\ Exit(p)
  BY DEF Stop, storeVars
<1>2. StoreKept' /\ EnrollmentStep
  BY <1>1, StoreSame
<1>3. CASE InNew(p)
  <2>1. \A q \in Procs \ {p} : pc[q] = "idle"
    BY <1>3 DEF CommandsKept, NewIsAlone
  <2> QED
    BY <1>1, <1>2, <2>1, NewExitKept
<1>4. CASE ~InNew(p)
  <2>1. \A q \in Procs : ~InNew(q)
    BY <1>4 DEF Stop, CommandsKept, NewIsAlone, InNew
  <2> QED
    BY <1>1, <1>2, <2>1, ActivationExitKept DEF Exists
<1> QED
  BY <1>3, <1>4

\* What the platform does to an open draft passes every command by.
LEMMA OutcomeKept ==
  ASSUME careful, careful' = careful, TypeOK, TypeOK', StoreKept, CommandsKept,
         NEW d \in Drafts, Convert(d) \/ Expire(d)
  PROVE  StoreKept' /\ CommandsKept' /\ EnrollmentStep
<1>1. /\ UNCHANGED <<dirs, drawn, pc, copy, at, had>>
      /\ platform[d] = "open" /\ platform'[d] \in {"converted", "dead"}
      /\ platform' = [platform EXCEPT ![d] = platform'[d]]
      /\ \A e \in Drafts \ {d} : platform'[e] = platform[e]
  BY DEF Convert, Expire, procVars, TypeOK
<1>2. d \in drawn
  BY <1>1 DEF StoreKept, KnownAreDrawn, Known
<1>3. StoreKept' /\ EnrollmentStep
  BY <1>1, <1>2, PlatformKept
<1>4. \A e \in Drafts : /\ Known(e)' <=> Known(e)
                        /\ platform[e] \in {"claimed", "dead"} => platform'[e] = platform[e]
  BY <1>1 DEF Known
<1>5. \A e \in Drafts : HasSecret(e)' <=> HasSecret(e)
  BY <1>1 DEF HasSecret, Exists
<1>6. NewIsAlone' /\ PendingShared'
  BY <1>1 DEF CommandsKept, NewIsAlone, InNew, PendingShared, Exists
<1>7. ASSUME NEW p \in Procs PROVE NewFits(p)'
  <2>1. NewFits(p) /\ drawn \subseteq Drafts
    BY DEF CommandsKept, TypeOK
  <2>2. \A r : PendingHolds(r)' <=> PendingHolds(r)
    BY <1>1 DEF PendingHolds, Exists
  <2> QED
    BY <1>1, <1>4, <1>5, <2>1, <2>2 DEF NewFits, Exists
<1>8. ASSUME NEW p \in Procs PROVE CopyFits(p)'
  <2>1. CopyFits(p)
    BY DEF CommandsKept
  <2> QED
    BY <1>1, <1>4, <2>1 DEF CopyFits
<1> QED
  BY <1>3, <1>6, <1>7, <1>8 DEF CommandsKept

LEMMA InitKept == Init => Kept /\ E!Init
<1> SUFFICES ASSUME Init PROVE Kept /\ E!Init
  OBVIOUS
<1>1. \A n \in Dirs : ~Exists(n)
  BY DEF Init, Exists
<1>2. \A d \in Drafts : ~Known(d) /\ platform[d] = "none" /\ ~HasSecret(d) /\ ~HasWard(d)
  BY <1>1, DirNames DEF Init, Known, HasSecret, HasWard
<1>3. StoreKept
  BY <1>1, <1>2, DirNames DEF StoreKept, PendingFits, DirsFit, KnownAreDrawn, KeysKept
<1>4. CommandsKept
  BY DirNames DEF Init, CommandsKept, NewIsAlone, NewFits, CopyFits, PendingShared, InNew, InNewSteps
<1>5. E!Init
  BY <1>2 DEF E!Init, Promised, credential
<1> QED
  BY <1>3, <1>4, <1>5 DEF Kept

LEMMA CarefulStays == [Next]_vars => careful' = careful
BY DEF Next, New, NewMerge, ExecuteLoad, CheckDeadDraft, CreateRefused, NewSave, NewSubmit,
   CheckDraft, Create, CreateSave, CommitLoad, CommitMove, Status, StatusAsk, StatusLoad,
   Whitelist, WhitelistLoad, Serve, ServeLoad, ServeAsk, ServeForget, Finalize, FinalizeLoad,
   Claim, Persist, SaveInPlace, SaveMove, SaveWrite, Stop, Convert, Expire, vars, storeVars, procVars

LEMMA StepKept ==
  ASSUME IInv, IInv', Kept, [Next]_vars
  PROVE  Kept' /\ EnrollmentStep
<1> USE DEF storeVars, procVars, vars
<1>0. TypeOK /\ TypeOK'
  BY DEF IInv
<1>1. careful' = careful
  BY CarefulStays
<1>2. CASE ~careful
  BY <1>1, <1>2, NothingPromised DEF Kept
<1>3. CASE careful
  <2>1. StoreKept /\ CommandsKept
    BY <1>3 DEF Kept
  <2>2. CASE UNCHANGED vars
    <3>1. CommandsKept'
      BY <2>1, <2>2 DEF CommandsKept, NewIsAlone, NewFits, CopyFits, PendingShared, InNew,
         PendingHolds, Exists, Known, HasSecret
    <3>2. StoreKept' /\ EnrollmentStep
      BY <2>1, <2>2, StoreSame
    <3> QED
      BY <3>1, <3>2 DEF Kept
  <2>3. CASE \E p \in Procs : New(p)
    BY <1>0, <1>1, <1>3, <2>1, <2>3, NewKept DEF Kept
  <2>4. CASE \E p \in Procs : Status(p) \/ Whitelist(p) \/ Serve(p) \/ Finalize(p)
    BY <1>0, <1>1, <1>3, <2>1, <2>4, ActivationKept DEF Kept
  <2>5. CASE \E p \in Procs : Stop(p)
    BY <1>0, <1>1, <1>3, <2>1, <2>5, StopKept DEF Kept
  <2>6. CASE \E d \in Drafts : Convert(d) \/ Expire(d)
    BY <1>0, <1>1, <1>3, <2>1, <2>6, OutcomeKept DEF Kept
  <2> QED
    BY <2>2, <2>3, <2>4, <2>5, <2>6 DEF Next
<1> QED
  BY <1>2, <1>3

\* If nothing else runs while `new` runs, every draft the platform could still
\* turn into a ward, or has, keeps its secret or its ward's credentials on
\* disk, and what each command has in hand fits the directory it saves to.
THEOREM KeysAreKept == Spec => []Kept
<1>1. Init => IInv /\ Kept
  BY InitSound, InitKept
<1>2. (IInv /\ Kept) /\ [Next]_vars => (IInv /\ Kept)'
  BY StepSound, StepKept
<1> QED
  BY <1>1, <1>2, PTL DEF Spec

\* `new`, `status`, `whitelist` and `serve`, killed anywhere, implement the
\* promise of Enrollment to a user who leaves `new` alone: the platform hears
\* of no draft whose secret is not on disk, and no secret leaves the disk
\* before its draft is dead or the credentials of its ward are there.
THEOREM EnrollmentRefinement == Spec => ImplementsEnrollment
<1>1. Init => IInv /\ Kept
  BY InitSound, InitKept
<1>2. (IInv /\ Kept) /\ [Next]_vars => (IInv /\ Kept)'
  BY StepSound, StepKept
<1>3. Init => E!Init
  BY InitKept
<1>4. (IInv /\ Kept) /\ (IInv /\ Kept)' /\ [Next]_vars => EnrollmentStep
  BY StepKept
<1> QED
  BY <1>1, <1>2, <1>3, <1>4, PTL DEF Spec, ImplementsEnrollment, E!Spec, EnrollmentStep

\* A step of Enrollment takes no ward's credentials away.
LEMMA WardsAreNotExchanged ==
  ASSUME careful, careful' = careful, TypeOK, TypeOK', EnrollmentStep, NEW d \in Drafts, HasWard(d)
  PROVE  HasWard(d)'
<1>1. credential[d] = "ward" /\ (credential'[d] = "ward" => HasWard(d)')
  BY DEF credential
<1>2. [E!Next]_<<Promised(platform), Promised(credential)>> => credential'[d] = "ward"
  BY <1>1, PromisedIsSeen DEF credential, E!Next, E!Submit, E!Convert, E!Expire, E!Claim, E!Advance,
     E!Draw, E!Keep, E!Drop, E!Return, E!Exchange, E!Replace
<1> QED
  BY <1>1, <1>2 DEF EnrollmentStep

\* A `status` or a `serve` that still works on an older copy of a draft never
\* overwrites the credentials of its ward or moves them away.
THEOREM WardsStay == Spec => WardStays
<1>1. Init => IInv /\ Kept
  BY InitSound, InitKept
<1>2. (IInv /\ Kept) /\ [Next]_vars => (IInv /\ Kept)'
  BY StepSound, StepKept
<1>3. ASSUME IInv, Kept, IInv', [Next]_vars
      PROVE  [\A d \in Drafts : careful /\ HasWard(d) => HasWard(d)']_vars
  <2>1. careful' = careful
    BY <1>3, CarefulStays
  <2> QED
    BY <1>3, <2>1, StepKept, WardsAreNotExchanged DEF IInv
<1> QED
  BY <1>1, <1>2, <1>3, PTL DEF Spec, WardStays
=============================================================================
