-------------------------- MODULE AtomicSave_proofs --------------------------
(***************************************************************************)
(* Proofs about AtomicSave, for any number of writers, records and inodes. *)
(* The inductive invariant says who may touch an inode: one that only one  *)
(* save has a hand in belongs to that save alone until it is renamed.      *)
(***************************************************************************)
EXTENDS AtomicSave, TLAPS

\* A writer has a file open and a record to save exactly while it saves.
HandlesOK ==
  \A w \in Writers :
    /\ Saving(w) => fd[w] \in Inodes /\ record[w] \in Records /\ record[w] \in wanted
    /\ ~Saving(w) => fd[w] = Nothing

\* An inode that is not shared is open in one save at most, is not yet
\* ward.json, and holds just what that save has written so far.
OwnFile ==
  \A w \in Writers : Saving(w) /\ fd[w] \notin shared =>
    /\ fd[w] # entry
    /\ \A x \in Writers : fd[x] = fd[w] => x = w
    /\ content[fd[w]] = IF pc[w] = "opened" THEN Empty ELSE record[w]

\* A save that met nobody is the only one, and works on ward.json.tmp.
AloneOK ==
  \A w \in Writers : Saving(w) /\ w \notin meets =>
    /\ \A x \in Writers : Saving(x) => x = w
    /\ fd[w] = tmp
    /\ fd[w] \notin shared

IndInv ==
  /\ TypeOK
  /\ HandlesOK
  /\ OwnFile
  /\ AloneOK
  /\ tmp = entry => tmp = Nothing
  /\ DamageOnlyByMeeting
------------------------------------------------------------------------------

\* Nobody saves when there is no ward.json yet.
LEMMA InitInv == Init => IndInv
  BY ContentAssumption DEF Init, IndInv, TypeOK, HandlesOK, OwnFile, AloneOK,
     DamageOnlyByMeeting, Saving, Content

\* No step of a save, and no kill, breaks the rules on who touches an inode.
LEMMA StepInv == IndInv /\ [Next]_vars => IndInv'
<1> SUFFICES ASSUME IndInv, [Next]_vars PROVE IndInv'
  OBVIOUS
<1> USE ContentAssumption
    DEF IndInv, TypeOK, HandlesOK, OwnFile, AloneOK, DamageOnlyByMeeting, Content, dirVars, procVars, histVars
<1>1. ASSUME NEW w \in Writers, NEW v \in Records, NEW i \in Inodes, CreateTmp(w, v, i)
      PROVE  IndInv'
  <2>1. TypeOK'
    BY <1>1 DEF CreateTmp, Others, InUse, Saving
  <2>2. HandlesOK'
    BY <1>1 DEF CreateTmp, Others, InUse, Saving
  <2>3. OwnFile'
    BY <1>1 DEF CreateTmp, Others, InUse, Saving
  <2>4. AloneOK'
    BY <1>1 DEF CreateTmp, Others, InUse, Saving
  <2>5. (tmp = entry => tmp = Nothing)'
    BY <1>1 DEF CreateTmp, Others, InUse, Saving
  <2>6. DamageOnlyByMeeting'
    BY <1>1 DEF CreateTmp, Others, InUse, Saving
  <2>7. QED
    BY <2>1, <2>2, <2>3, <2>4, <2>5, <2>6 DEF IndInv
<1>2. ASSUME NEW w \in Writers, NEW v \in Records, TruncateTmp(w, v)
      PROVE  IndInv'
  <2>1. TypeOK'
    BY <1>2 DEF TruncateTmp, Others, Saving
  <2>2. HandlesOK'
    BY <1>2 DEF TruncateTmp, Others, Saving
  <2>3. OwnFile'
    BY <1>2 DEF TruncateTmp, Others, Saving
  <2>4. AloneOK'
    BY <1>2 DEF TruncateTmp, Others, Saving
  <2>5. (tmp = entry => tmp = Nothing)'
    BY <1>2 DEF TruncateTmp, Others, Saving
  <2>6. DamageOnlyByMeeting'
    BY <1>2 DEF TruncateTmp, Others, Saving
  <2>7. QED
    BY <2>1, <2>2, <2>3, <2>4, <2>5, <2>6 DEF IndInv
<1>3. ASSUME NEW w \in Writers, WriteTmp(w)
      PROVE  IndInv'
  <2>1. TypeOK'
    BY <1>3 DEF WriteTmp, Saving
  <2>2. HandlesOK'
    BY <1>3 DEF WriteTmp, Saving
  <2>3. OwnFile'
    BY <1>3 DEF WriteTmp, Saving
  <2>4. AloneOK'
    BY <1>3 DEF WriteTmp, Saving
  <2>5. (tmp = entry => tmp = Nothing)'
    BY <1>3 DEF WriteTmp, Saving
  <2>6. DamageOnlyByMeeting'
    BY <1>3 DEF WriteTmp, Saving
  <2>7. QED
    BY <2>1, <2>2, <2>3, <2>4, <2>5, <2>6 DEF IndInv
<1>4. ASSUME NEW w \in Writers, WriteTmpFails(w)
      PROVE  IndInv'
  <2>1. TypeOK'
    BY <1>4 DEF WriteTmpFails, Release, Saving
  <2>2. HandlesOK'
    BY <1>4 DEF WriteTmpFails, Release, Saving
  <2>3. OwnFile'
    BY <1>4 DEF WriteTmpFails, Release, Saving
  <2>4. AloneOK'
    BY <1>4 DEF WriteTmpFails, Release, Saving
  <2>5. (tmp = entry => tmp = Nothing)'
    BY <1>4 DEF WriteTmpFails, Release, Saving
  <2>6. DamageOnlyByMeeting'
    BY <1>4 DEF WriteTmpFails, Release, Saving
  <2>7. QED
    BY <2>1, <2>2, <2>3, <2>4, <2>5, <2>6 DEF IndInv
<1>5. ASSUME NEW w \in Writers, RenameTmp(w)
      PROVE  IndInv'
  <2>1. TypeOK'
    BY <1>5 DEF RenameTmp, Release, Saving
  <2>2. HandlesOK'
    BY <1>5 DEF RenameTmp, Release, Saving
  <2>3. OwnFile'
    BY <1>5 DEF RenameTmp, Release, Saving
  <2>4. AloneOK'
    BY <1>5 DEF RenameTmp, Release, Saving
  <2>5. (tmp = entry => tmp = Nothing)'
    BY <1>5 DEF RenameTmp, Release, Saving
  <2>6. DamageOnlyByMeeting'
    BY <1>5 DEF RenameTmp, Release, Saving
  <2>7. QED
    BY <2>1, <2>2, <2>3, <2>4, <2>5, <2>6 DEF IndInv
<1>6. ASSUME NEW w \in Writers, RenameTmpFails(w)
      PROVE  IndInv'
  <2>1. TypeOK'
    BY <1>6 DEF RenameTmpFails, Release, Saving
  <2>2. HandlesOK'
    BY <1>6 DEF RenameTmpFails, Release, Saving
  <2>3. OwnFile'
    BY <1>6 DEF RenameTmpFails, Release, Saving
  <2>4. AloneOK'
    BY <1>6 DEF RenameTmpFails, Release, Saving
  <2>5. (tmp = entry => tmp = Nothing)'
    BY <1>6 DEF RenameTmpFails, Release, Saving
  <2>6. DamageOnlyByMeeting'
    BY <1>6 DEF RenameTmpFails, Release, Saving
  <2>7. QED
    BY <2>1, <2>2, <2>3, <2>4, <2>5, <2>6 DEF IndInv
<1>7. ASSUME NEW w \in Writers, ReportFailure(w)
      PROVE  IndInv'
  <2>1. TypeOK'
    BY <1>7 DEF ReportFailure, Saving
  <2>2. HandlesOK'
    BY <1>7 DEF ReportFailure, Saving
  <2>3. OwnFile'
    BY <1>7 DEF ReportFailure, Saving
  <2>4. AloneOK'
    BY <1>7 DEF ReportFailure, Saving
  <2>5. (tmp = entry => tmp = Nothing)'
    BY <1>7 DEF ReportFailure, Saving
  <2>6. DamageOnlyByMeeting'
    BY <1>7 DEF ReportFailure, Saving
  <2>7. QED
    BY <2>1, <2>2, <2>3, <2>4, <2>5, <2>6 DEF IndInv
<1>8. ASSUME NEW w \in Writers, Kill(w)
      PROVE  IndInv'
  <2>1. TypeOK'
    BY <1>8 DEF Kill, Release, Saving
  <2>2. HandlesOK'
    BY <1>8 DEF Kill, Release, Saving
  <2>3. OwnFile'
    BY <1>8 DEF Kill, Release, Saving
  <2>4. AloneOK'
    BY <1>8 DEF Kill, Release, Saving
  <2>5. (tmp = entry => tmp = Nothing)'
    BY <1>8 DEF Kill, Release, Saving
  <2>6. DamageOnlyByMeeting'
    BY <1>8 DEF Kill, Release, Saving
  <2>7. QED
    BY <2>1, <2>2, <2>3, <2>4, <2>5, <2>6 DEF IndInv
<1>9. CASE UNCHANGED vars
  BY <1>9 DEF vars, Saving
<1>10. QED
  BY <1>1, <1>2, <1>3, <1>4, <1>5, <1>6, <1>7, <1>8, <1>9 DEF Next

\* So the inductive invariant holds in every reachable state.
LEMMA Invariance == Spec => []IndInv
  BY InitInv, StepInv, PTL DEF Spec

\* In every reachable state the variables have their types.
THEOREM TypeCorrect == Spec => []TypeOK
  BY Invariance, PTL DEF IndInv

\* However many processes save, are killed, or run out of disk: ward.json
\* holds something else than a whole record only if two saves had a hand in
\* the same file, and the rename finds its temporary file unless another save
\* overlapped this one.
THEOREM DamageNeedsTwoSaves == Spec => []DamageOnlyByMeeting
  BY Invariance, PTL DEF IndInv

\* Only a save can rename, and one that met nobody is the only save.
LEMMA AloneStep ==
  IndInv /\ [Next]_vars =>
    [\A w \in Writers :
       w \notin meets /\ pc[w] = "written" /\ entry' # entry
         => pc'[w] = "idle" /\ content'[entry'] = record[w]]_vars
<1> SUFFICES ASSUME IndInv, Next,
                    NEW w \in Writers,
                    w \notin meets, pc[w] = "written", entry' # entry
             PROVE  pc'[w] = "idle" /\ content'[entry'] = record[w]
  OBVIOUS
<1>1. PICK x \in Writers : RenameTmp(x)
  BY DEF Next, CreateTmp, TruncateTmp, WriteTmp, WriteTmpFails, RenameTmpFails,
         ReportFailure, Kill, dirVars
<1>2. x = w
  BY <1>1 DEF IndInv, AloneOK, Saving, RenameTmp
<1>3. entry' = tmp /\ content' = content /\ fd[w] = tmp /\ fd[w] \notin shared
  BY <1>1, <1>2 DEF IndInv, AloneOK, Saving, RenameTmp
<1>4. content[fd[w]] = record[w]
  BY <1>3 DEF IndInv, OwnFile, Saving
<1>5. pc'[w] = "idle"
  BY <1>1, <1>2 DEF RenameTmp, IndInv, TypeOK
<1>6. QED
  BY <1>3, <1>4, <1>5

\* A save that overlaps no other leaves its own record, whatever earlier saves
\* left behind in the temporary file.
THEOREM AloneSaveWins == Spec => AloneSaveIsRead
  BY Invariance, AloneStep, PTL DEF Spec, AloneSaveIsRead

------------------------------------------------------------------------------

\* Steps of saves that do not overlap are steps of the register.
LEMMA RecordStep ==
  IndInv /\ meets = {} /\ [Next /\ meets' = {}]_vars
    => [Record!Next]_<<IF entry = Nothing THEN Nothing ELSE content[entry], wanted>>
<1> SUFFICES ASSUME IndInv, meets = {}, [Next /\ meets' = {}]_vars
             PROVE  [Record!Next]_<<IF entry = Nothing THEN Nothing ELSE content[entry],
                                    wanted>>
  OBVIOUS
<1> USE ContentAssumption DEF IndInv, TypeOK
<1>0. \A w \in Writers : Saving(w) => fd[w] # entry
  BY DEF OwnFile, AloneOK
<1>1. ASSUME NEW w \in Writers, NEW v \in Records,
             TruncateTmp(w, v) \/ \E i \in Inodes : CreateTmp(w, v, i)
      PROVE  Record!Request(v)
  BY <1>1 DEF TruncateTmp, CreateTmp, InUse, Record!Request
<1>2. ASSUME NEW w \in Writers, RenameTmp(w)
      PROVE  Record!Replace(record[w])
  <2>1. content[tmp] = record[w] /\ record[w] \in wanted /\ tmp # Nothing
    BY <1>2 DEF RenameTmp, Saving, AloneOK, OwnFile, HandlesOK
  <2>2. QED
    BY <1>2, <2>1 DEF RenameTmp, Record!Replace
<1>3. ASSUME NEW w \in Writers,
             \/ WriteTmp(w) \/ WriteTmpFails(w) \/ RenameTmpFails(w)
             \/ ReportFailure(w) \/ Kill(w)
      PROVE  UNCHANGED <<IF entry = Nothing THEN Nothing ELSE content[entry], wanted>>
  BY <1>0, <1>3 DEF WriteTmp, WriteTmpFails, RenameTmpFails, ReportFailure, Kill,
                    Saving, HandlesOK, dirVars, procVars, histVars
<1>4. CASE UNCHANGED vars
  BY <1>4 DEF vars, dirVars, histVars
<1>5. ASSUME NEW w \in Writers, RenameTmp(w) PROVE record[w] \in Records
  BY <1>5 DEF RenameTmp, HandlesOK, Saving
<1>6. QED
  BY <1>1, <1>2, <1>3, <1>4, <1>5 DEF Next, Record!Next

\* Saves that do not overlap implement the register, wherever processes are
\* killed and disks fill up, and whatever earlier saves have done to the file,
\* and each of them is what the next reader sees.
THEOREM AloneRefinement == Spec => ImplementsRecord
<1>1. Init => Record!Init
  BY DEF Init, Record!Init
<1>2. IndInv /\ [Next]_vars =>
        [meets = {} /\ meets' = {} =>
          [Record!Next]_<<IF entry = Nothing THEN Nothing ELSE content[entry], wanted>>]_vars
  BY RecordStep
<1>3. QED
  BY <1>1, <1>2, InitInv, StepInv, AloneSaveWins, PTL DEF Spec, ImplementsRecord

\* Where saves never overlap, all of the register's specification holds.
THEOREM SerialRefinement == Init /\ [][Next /\ meets' = {}]_vars => Record!Spec
<1>1. Init => Record!Init /\ meets = {}
  BY DEF Init, Record!Init
<1>2. meets = {} /\ [Next /\ meets' = {}]_vars => (meets = {})'
  BY DEF vars, histVars
<1>3. [Next /\ meets' = {}]_vars => [Next]_vars
  OBVIOUS
<1>4. QED
  BY <1>1, <1>2, <1>3, InitInv, StepInv, RecordStep, PTL
     DEF Record!Spec
==============================================================================
