--------------------------- MODULE DraftActivation ---------------------------
(***************************************************************************)
(* From `warded new` to an activated ward: the directories of the store    *)
(* (internal/adapters/storage/json_store.go), the commands `new`, `new     *)
(* --commit`, `status`, `whitelist` and the start of `serve`, each a       *)
(* process of its own that can overlap with others and be killed between   *)
(* any two steps, and the platform's side of a draft.                      *)
(*                                                                         *)
(* A draft is named after its secret: the platform knows it by the hash of *)
(* the secret, and its id and its ward's id belong to it alone.  A record  *)
(* is its three ids; the rest of ward.json goes along with them.  Writing  *)
(* a ward.json is one step here: AtomicSave looks inside it.               *)
(***************************************************************************)
EXTENDS FiniteSets

CONSTANTS Procs, Drafts, Absent

VARIABLES
  dirs,      \* ward.json of each directory, Absent where there is none
  platform,  \* state of each draft at the platform
  drawn,     \* secrets randomDraftSecret has returned so far
  pc,        \* step of each process
  copy,      \* record each process works on
  at,        \* JSONStore.wardDir of each process
  had,       \* did `new --commit` find a pending record?
  careful    \* does the user run nothing else while `new` is running?

storeVars == <<dirs, platform, drawn, careful>>
procVars  == <<pc, copy, at, had>>
vars      == <<storeVars, procVars>>

Maybe  == Drafts \union {Absent}
Record == [draft : Maybe, secret : Maybe, ward : Maybe]
Blank  == [draft |-> Absent, secret |-> Absent, ward |-> Absent]

\* .pending, <draft id>, <ward id>
Pending     == <<"pending", Absent>>
DraftDir(d) == <<"draft", d>>
WardDir(d)  == <<"ward", d>>
Committed   == {"draft", "ward"} \X Drafts
Dirs        == Committed \union {Pending}

ASSUME AbsentAssumption == Absent \notin Drafts \union Dirs \union Record

TypeOK ==
  /\ dirs \in [Dirs -> Record \union {Absent}]
  /\ platform \in [Drafts -> {"none", "open", "converted", "claimed", "dead"}]
  /\ drawn \subseteq Drafts
  /\ pc \in [Procs -> {"idle", "merged", "submitting", "checking", "creating",
                       "refused", "created", "committing", "moving", "writing",
                       "asking", "finalizing", "starting", "claiming", "claimed", "saving"}]
  /\ copy \in [Procs -> Record]
  /\ at \in [Procs -> Dirs \union {Absent}]
  /\ had \in [Procs -> BOOLEAN]
  /\ careful \in BOOLEAN

Init ==
  /\ dirs = [n \in Dirs |-> Absent]
  /\ platform = [d \in Drafts |-> "none"]
  /\ drawn = {}
  /\ pc = [p \in Procs |-> "idle"]
  /\ copy = [p \in Procs |-> Blank]
  /\ at = [p \in Procs |-> Absent]
  /\ had = [p \in Procs |-> FALSE]
  /\ careful \in BOOLEAN

------------------------------------------------------------------------------
(* The store.                                                               *)

Exists(n)   == dirs[n] # Absent
Load(n)     == IF Exists(n) THEN dirs[n] ELSE Blank
Write(n, r) == dirs' = [dirs EXCEPT ![n] = r]

\* SavePendingRuntime
WritePending(r) == Write(Pending, [r EXCEPT !.ward = Absent])

Rename(n, m) == dirs' = [dirs EXCEPT ![m] = dirs[n], ![n] = Absent]

\* computeTargetDir
Target(r, dir) ==
  IF r.ward # Absent THEN WardDir(r.ward)
  ELSE IF r.draft # Absent THEN DraftDir(r.draft)
  ELSE IF dir # Absent THEN dir
  ELSE Pending

\* targetDirContainsSameRuntime
SameRuntime(n, r) ==
  LET old == Load(n) IN
  IF r.ward # Absent THEN old.ward = r.ward
  ELSE IF r.draft # Absent THEN old.draft = r.draft
  ELSE old.ward = Absent /\ old.draft = Absent

\* LoadWardRuntime: the directory used before or, when it has gone, the only
\* one that is not .pending; no directory, or several, end the command.
Found(dir) ==
  IF dir # Absent /\ Exists(dir) THEN {dir}
  ELSE LET all == {n \in Committed : Exists(n)} IN
       IF Cardinality(all) = 1 THEN all ELSE {}

\* LoadRuntimeByID
FoundByID(d) ==
  IF Exists(Pending) /\ d \in {dirs[Pending].draft, dirs[Pending].ward} THEN {Pending}
  ELSE {n \in {DraftDir(d)} : Exists(n)}

\* A draft the command can ask the platform about.
IsDraft(r) == r.ward = Absent /\ r.draft # Absent /\ r.secret # Absent

InNew(p) == had[p] \/ pc[p] \in {"merged", "submitting", "checking", "creating",
                                 "refused", "created", "committing", "moving"}

Goto(p, from, to) ==
  /\ pc[p] = from
  /\ pc' = [pc EXCEPT ![p] = to]

\* The command ends, or is killed.
Exit(p) ==
  /\ pc' = [pc EXCEPT ![p] = "idle"]
  /\ copy' = [copy EXCEPT ![p] = Blank]
  /\ at' = [at EXCEPT ![p] = Absent]
  /\ had' = [had EXCEPT ![p] = FALSE]

Stop(p) ==
  /\ pc[p] # "idle"
  /\ Exit(p)
  /\ UNCHANGED storeVars

------------------------------------------------------------------------------
(* warded new                                                               *)

\* A record without a secret gets a new one, which no draft has had yet.
WithSecret(r, d) == IF r.secret = Absent THEN [r EXCEPT !.secret = d] ELSE r

Draws(r, d) ==
  IF r.secret = Absent THEN d \notin drawn /\ drawn' = drawn \union {d}
                       ELSE d = r.secret /\ UNCHANGED drawn

\* mergePendingRuntime
NewMerge(p, d) ==
  /\ Goto(p, "idle", "merged")
  /\ careful => \A q \in Procs : pc[q] = "idle"
  /\ Draws(Load(Pending), d)
  /\ copy' = [copy EXCEPT ![p] = WithSecret(Load(Pending), d)]
  /\ had' = [had EXCEPT ![p] = Exists(Pending)]
  /\ UNCHANGED <<dirs, platform, at, careful>>

\* Without --commit.
NewSave(p) ==
  /\ pc[p] = "merged"
  /\ WritePending(copy[p])
  /\ Exit(p)
  /\ UNCHANGED <<platform, drawn, careful>>

\* A mutant: the draft is submitted before anything is kept.
SubmitUnsaved(p) ==
  /\ Goto(p, "merged", "submitting")
  /\ UNCHANGED <<storeVars, copy, at, had>>

\* With --commit: clearPlatformDraftState forgets the draft, not its secret.
NewSubmit(p) ==
  /\ Goto(p, "merged", "submitting")
  /\ WritePending([copy[p] EXCEPT !.draft = Absent])
  /\ UNCHANGED <<platform, drawn, copy, at, had, careful>>

\* NewService.Execute reads the pending record again.
ExecuteLoad(p, d) ==
  LET record == Load(Pending) IN
  /\ Goto(p, "submitting", IF record.draft # Absent THEN "checking" ELSE "creating")
  /\ Draws(record, d)
  /\ copy' = [copy EXCEPT ![p] = WithSecret(record, d)]
  /\ UNCHANGED <<dirs, platform, at, had, careful>>

\* A draft id that another process has put back: its state is asked for, and
\* a dead draft is forgotten, secret and all, before a new one is drawn.
CheckDraft(p) ==
  /\ Goto(p, "checking", "creating")
  /\ platform[copy[p].draft] # "dead"
  /\ UNCHANGED <<storeVars, copy, at, had>>

\* A mutant: only the secret is forgotten.
CheckDeadKeepsId(p, d) ==
  /\ Goto(p, "checking", "creating")
  /\ platform[copy[p].draft] = "dead"
  /\ WritePending([copy[p] EXCEPT !.secret = Absent])
  /\ Draws(Blank, d)
  /\ copy' = [copy EXCEPT ![p].secret = d]
  /\ UNCHANGED <<platform, at, had, careful>>

CheckDeadDraft(p, d) ==
  /\ Goto(p, "checking", "creating")
  /\ platform[copy[p].draft] = "dead"
  /\ WritePending(Blank)
  /\ Draws(Blank, d)
  /\ copy' = [copy EXCEPT ![p] = WithSecret(Blank, d)]
  /\ UNCHANGED <<platform, at, had, careful>>

\* CreateWardDraft: the hash of a known secret means its draft, which is
\* updated; a dead one is refused.  A refusal of any other kind, or an answer
\* that is lost, is a Stop.
Create(p) ==
  LET d == copy[p].secret IN
  /\ pc[p] \in {"creating", "refused"}
  /\ pc' = [pc EXCEPT ![p] = "created"]
  /\ platform[d] # "dead"
  /\ platform' = [platform EXCEPT ![d] = IF @ = "none" THEN "open" ELSE @]
  /\ copy' = [copy EXCEPT ![p].draft = IF @ = Absent THEN d ELSE @]
  /\ UNCHANGED <<dirs, drawn, at, had, careful>>

\* A refused challenge gets a fresh secret and one more attempt.
CreateRefused(p, d) ==
  /\ Goto(p, "creating", "refused")
  /\ platform[copy[p].secret] = "dead"
  /\ Draws(Blank, d)
  /\ WritePending(WithSecret(Blank, d))
  /\ copy' = [copy EXCEPT ![p] = WithSecret(Blank, d)]
  /\ UNCHANGED <<platform, at, had, careful>>

\* The draft stays in .pending where `new --commit` found no pending record.
CreateSave(p) ==
  /\ pc[p] = "created"
  /\ WritePending(copy[p])
  /\ IF had[p] THEN Goto(p, "created", "committing") /\ UNCHANGED <<copy, at, had>>
               ELSE Exit(p)
  /\ UNCHANGED <<platform, drawn, careful>>

CommitLoad(p) ==
  /\ Goto(p, "committing", "moving")
  /\ Exists(Pending)
  /\ copy' = [copy EXCEPT ![p] = dirs[Pending]]
  /\ UNCHANGED <<storeVars, at, had>>

\* CommitPendingRuntime up to the save; a target that exists is an error.
CommitMove(p) ==
  LET target == Target(copy[p], Absent) IN
  /\ Goto(p, "moving", "writing")
  /\ IF target = Pending \/ ~Exists(Pending)
     THEN UNCHANGED dirs
     ELSE ~Exists(target) /\ Rename(Pending, target)
  /\ target # Pending => ~Exists(target)
  /\ at' = [at EXCEPT ![p] = target]
  /\ UNCHANGED <<platform, drawn, copy, had, careful>>

------------------------------------------------------------------------------
(* warded status on a draft                                                 *)

\* With a selector; without one `status` does this for one record after the
\* other, with a LoadRuntimeByID for each.
StatusLoad(p, d) ==
  /\ Goto(p, "idle", "asking")
  /\ careful => \A q \in Procs : ~InNew(q)
  /\ \E n \in Dirs : Exists(n) /\ dirs[n].draft = d /\ dirs[n].ward = Absent
  /\ \E n \in FoundByID(d) :
       /\ IsDraft(dirs[n])
       /\ copy' = [copy EXCEPT ![p] = dirs[n]]
       /\ at' = [at EXCEPT ![p] = n]
  /\ UNCHANGED <<storeVars, had>>

\* GetWardDraftStatus; whatever is not converted is saved as it is.
StatusAsk(p) ==
  /\ Goto(p, "asking",
          IF platform[copy[p].draft] \in {"converted", "claimed"} THEN "finalizing" ELSE "saving")
  /\ UNCHANGED <<storeVars, copy, at, had>>

\* FinalizeIfConverted reads the record again.
FinalizeLoad(p) ==
  /\ Goto(p, "finalizing", "claiming")
  /\ \E n \in Found(at[p]) :
       /\ IsDraft(dirs[n])
       /\ copy' = [copy EXCEPT ![p] = dirs[n]]
       /\ at' = [at EXCEPT ![p] = n]
  /\ UNCHANGED <<storeVars, had>>

------------------------------------------------------------------------------
(* warded whitelist add and remove on a draft                               *)

\* resolveWhitelistTarget leaves out a setup that was never submitted, but no
\* draft, wherever it is.  The rules go along with the ids, and the copy is
\* saved without a question to the platform.
WhitelistLoad(p, d) ==
  /\ Goto(p, "idle", "saving")
  /\ careful => \A q \in Procs : ~InNew(q)
  /\ \E n \in Dirs : Exists(n) /\ dirs[n].draft = d /\ dirs[n].ward = Absent
  /\ \E n \in FoundByID(d) :
       /\ copy' = [copy EXCEPT ![p] = dirs[n]]
       /\ at' = [at EXCEPT ![p] = n]
  /\ UNCHANGED <<storeVars, had>>

------------------------------------------------------------------------------
(* The start of warded serve on a draft                                     *)

ServeLoad(p) ==
  /\ Goto(p, "idle", "starting")
  /\ careful => \A q \in Procs : ~InNew(q)
  /\ \E n \in Found(Absent) :
       /\ IsDraft(dirs[n])
       /\ copy' = [copy EXCEPT ![p] = dirs[n]]
       /\ at' = [at EXCEPT ![p] = n]
  /\ UNCHANGED <<storeVars, had>>

ServeAsk(p) ==
  /\ Goto(p, "starting", "claiming")
  /\ platform[copy[p].draft] \in {"converted", "claimed"}
  /\ UNCHANGED <<storeVars, copy, at, had>>

\* A mutant: the whole runtime is given up with its draft.
ServeForgetAll(p) ==
  /\ Goto(p, "starting", "saving")
  /\ platform[copy[p].draft] = "dead"
  /\ copy' = [copy EXCEPT ![p] = Absent]
  /\ UNCHANGED <<storeVars, at, had>>

\* A mutant: a draft that is claimed already is given up too.
ServeForgetClaimed(p) ==
  /\ Goto(p, "starting", "saving")
  /\ platform[copy[p].draft] \in {"dead", "claimed"}
  /\ copy' = [copy EXCEPT ![p] = Blank]
  /\ UNCHANGED <<storeVars, at, had>>

\* clearDraftState of a draft the platform has given up.
ServeForget(p) ==
  /\ Goto(p, "starting", "saving")
  /\ platform[copy[p].draft] = "dead"
  /\ copy' = [copy EXCEPT ![p] = Blank]
  /\ UNCHANGED <<storeVars, at, had>>

------------------------------------------------------------------------------
(* Claiming, and saving what was claimed.                                   *)

\* ClaimWardDraft can be repeated.
Claim(p) ==
  /\ Goto(p, "claiming", "claimed")
  /\ platform[copy[p].draft] \in {"converted", "claimed"}
  /\ copy[p].secret = copy[p].draft
  /\ platform' = [platform EXCEPT ![copy[p].draft] = "claimed"]
  /\ UNCHANGED <<dirs, drawn, copy, at, had, careful>>

\* persistClaimedDraft, after GetWard
Persist(p) ==
  /\ Goto(p, "claimed", "saving")
  /\ copy' = [copy EXCEPT ![p].ward = copy[p].draft, ![p].secret = Absent]
  /\ UNCHANGED <<storeVars, at, had>>

\* SaveWardRuntime where the directory stays the same ...
InPlace(p) ==
  \/ at[p] = Pending /\ copy[p].ward = Absent
  \/ at[p] = Target(copy[p], at[p])

SaveInPlace(p) ==
  /\ pc[p] = "saving"
  /\ InPlace(p)
  /\ Write(at[p], copy[p])
  /\ Exit(p)
  /\ UNCHANGED <<platform, drawn, careful>>

\* ... where the record moves to a new one, or another process has moved it
\* already.  Anything else in the way is an error.
SaveMove(p) ==
  LET target == Target(copy[p], at[p]) IN
  /\ Goto(p, "saving", "writing")
  /\ ~InPlace(p)
  /\ IF Exists(target)
     THEN SameRuntime(target, copy[p]) /\ UNCHANGED dirs
     ELSE Exists(at[p]) /\ Rename(at[p], target)
  /\ at' = [at EXCEPT ![p] = target]
  /\ UNCHANGED <<platform, drawn, copy, had, careful>>

SaveWrite(p) ==
  /\ pc[p] = "writing"
  /\ Write(at[p], copy[p])
  /\ Exit(p)
  /\ UNCHANGED <<platform, drawn, careful>>

------------------------------------------------------------------------------
(* The platform.                                                            *)

Convert(d) ==
  /\ platform[d] = "open"
  /\ platform' = [platform EXCEPT ![d] = "converted"]
  /\ UNCHANGED <<dirs, drawn, procVars, careful>>

Expire(d) ==
  /\ platform[d] = "open"
  /\ platform' = [platform EXCEPT ![d] = "dead"]
  /\ UNCHANGED <<dirs, drawn, procVars, careful>>

New(p) ==
  \/ \E d \in Drafts : NewMerge(p, d) \/ ExecuteLoad(p, d) \/ CheckDeadDraft(p, d)
                       \/ CreateRefused(p, d)
  \/ NewSave(p)
  \/ NewSubmit(p)
  \/ CheckDraft(p)
  \/ Create(p)
  \/ CreateSave(p)
  \/ CommitLoad(p)
  \/ CommitMove(p)

Finalize(p) ==
  \/ FinalizeLoad(p)
  \/ Claim(p)
  \/ Persist(p)
  \/ SaveInPlace(p)
  \/ SaveMove(p)
  \/ SaveWrite(p)

Status(p) == StatusAsk(p) \/ \E d \in Drafts : StatusLoad(p, d)
Whitelist(p) == \E d \in Drafts : WhitelistLoad(p, d)
Serve(p)  == ServeLoad(p) \/ ServeAsk(p) \/ ServeForget(p)

Next ==
  \/ \E p \in Procs : New(p) \/ Status(p) \/ Whitelist(p) \/ Serve(p) \/ Finalize(p) \/ Stop(p)
  \/ \E d \in Drafts : Convert(d) \/ Expire(d)

Spec == Init /\ [][Next]_vars

------------------------------------------------------------------------------
(* Properties.                                                              *)

\* No record, on disk or in a command's hands, puts the id of one draft next
\* to the secret of another: clearPlatformDraftState and clearDraftState keep
\* the two apart, whatever other commands have done to .pending meanwhile.
SecretFitsDraft ==
  \A r \in {dirs[n] : n \in {m \in Dirs : Exists(m)}} \union {copy[p] : p \in Procs} :
    Absent \in {r.draft, r.secret} \/ r.draft = r.secret

HasWard(d)   == Exists(WardDir(d)) /\ dirs[WardDir(d)].ward = d
HasSecret(d) == \E n \in Dirs : Exists(n) /\ dirs[n].secret = d

\* If `new` is left alone, the credentials of a claimed ward are never
\* overwritten or moved away by a `status` or a `serve` that still works on an
\* older copy of the draft.
WardStays == [][\A d \in Drafts : careful /\ HasWard(d) => HasWard(d)']_vars

credential ==
  [d \in Drafts |->
    IF HasWard(d) THEN "ward"
    ELSE IF HasSecret(d) THEN "secret"
    ELSE IF platform[d] = "none" THEN "none"
    ELSE "dropped"]

\* The two sides of the promise, which is made to a careful user only.
Promised(side) == [d \in Drafts |-> IF careful THEN side[d] ELSE "none"]

E == INSTANCE Enrollment WITH
       platform <- Promised(platform), credential <- Promised(credential)

\* If `new` is left alone: whatever is killed and wherever status and serve
\* overlap, the platform hears of no draft whose secret is not on disk, and no
\* secret leaves the disk before its draft is dead or its ward's credentials
\* are there.
ImplementsEnrollment == E!Spec
==============================================================================
