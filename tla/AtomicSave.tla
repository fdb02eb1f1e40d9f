----------------------------- MODULE AtomicSave -----------------------------
(***************************************************************************)
(* JSONStore.saveToDir (internal/adapters/storage/json_store.go) on one    *)
(* ward directory, as the file system sees it: os.WriteFile truncates or   *)
(* creates ward.json.tmp, writes the record into it, and os.Rename moves   *)
(* it over ward.json.  The temporary name is the same for everybody and    *)
(* nothing locks the directory, so the saves of `serve`, `status`,         *)
(* `whitelist` and the other commands, each a process of its own, can meet *)
(* on it.  A process can be killed between any two of its steps.           *)
(***************************************************************************)
EXTENDS FiniteSets

CONSTANTS
  Writers,   \* processes that save this ward
  Records,   \* records they save
  Inodes,    \* files of the file system
  Nothing,   \* no inode, no record
  Empty,     \* content of a file created or truncated and not yet written
  Torn       \* content that is no JSON document

ASSUME ContentAssumption ==
  /\ Nothing \notin Inodes /\ Nothing \notin Records
  /\ Empty \notin Records /\ Torn \notin Records
  /\ Empty # Torn /\ Nothing # Empty /\ Nothing # Torn

VARIABLES
  entry,     \* inode that ward.json names
  tmp,       \* inode that ward.json.tmp names
  content,   \* what each inode holds
  pc,        \* step of each writer in saveToDir
  fd,        \* inode each writer has open
  record,    \* record each writer is saving
  \* History variables: no action reads them.
  wanted,    \* records whose save has begun
  shared,    \* inodes two saves have a hand in: opened by both, or renamed
             \* by another save than the one that wrote it
  meets      \* writers whose save met another one on the temporary name

dirVars  == <<entry, tmp, content>>
procVars == <<pc, fd, record>>
histVars == <<wanted, shared, meets>>
vars     == <<dirVars, procVars, histVars>>

Content == Records \union {Empty, Torn}

TypeOK ==
  /\ entry \in Inodes \union {Nothing}
  /\ tmp \in Inodes \union {Nothing}
  /\ content \in [Inodes -> Content]
  /\ pc \in [Writers -> {"idle", "opened", "written", "failed", "missing"}]
  /\ fd \in [Writers -> Inodes \union {Nothing}]
  /\ record \in [Writers -> Records \union {Nothing}]
  /\ wanted \subseteq Records
  /\ shared \subseteq Inodes
  /\ meets \subseteq Writers

Init ==
  /\ entry = Nothing
  /\ tmp = Nothing
  /\ content = [i \in Inodes |-> Empty]
  /\ pc = [w \in Writers |-> "idle"]
  /\ fd = [w \in Writers |-> Nothing]
  /\ record = [w \in Writers |-> Nothing]
  /\ wanted = {}
  /\ shared = {}
  /\ meets = {}

Saving(w) == pc[w] \in {"opened", "written"}

\* The other writers that are between opening and renaming.
Others(w) == {x \in Writers \ {w} : Saving(x)}

InUse == {entry, tmp} \union {fd[w] : w \in Writers}

Release(w) ==
  /\ fd' = [fd EXCEPT ![w] = Nothing]
  /\ record' = [record EXCEPT ![w] = Nothing]

------------------------------------------------------------------------------

\* Mutated form: the record is let go of before it is written.
CreateTmpUnencoded(w, v, i) ==
  /\ pc[w] = "idle"
  /\ tmp = Nothing
  /\ i \notin InUse
  /\ tmp' = i
  /\ content' = [content EXCEPT ![i] = Empty]
  /\ shared' = shared \ {i}
  /\ pc' = [pc EXCEPT ![w] = "opened"]
  /\ fd' = [fd EXCEPT ![w] = i]
  /\ wanted' = wanted \union {v}
  /\ meets' = meets \union (IF Others(w) # {} THEN Others(w) \union {w} ELSE {})
  /\ UNCHANGED <<entry, record>>

\* The command asks for the record to be saved: os.WriteFile opens the
\* temporary file.  Where there is none it makes one, on an inode nobody has.
CreateTmp(w, v, i) ==
  /\ pc[w] = "idle"
  /\ tmp = Nothing
  /\ i \notin InUse
  /\ tmp' = i
  /\ content' = [content EXCEPT ![i] = Empty]
  /\ shared' = shared \ {i}
  /\ pc' = [pc EXCEPT ![w] = "opened"]
  /\ fd' = [fd EXCEPT ![w] = i]
  /\ record' = [record EXCEPT ![w] = v]
  /\ wanted' = wanted \union {v}
  /\ meets' = meets \union (IF Others(w) # {} THEN Others(w) \union {w} ELSE {})
  /\ UNCHANGED entry

\* Mutated form: a temporary file that is there is not truncated.
ReuseTmp(w, v) ==
  /\ pc[w] = "idle"
  /\ tmp # Nothing
  /\ shared' = IF \E x \in Others(w) : fd[x] = tmp
               THEN shared \union {tmp} ELSE shared \ {tmp}
  /\ pc' = [pc EXCEPT ![w] = "opened"]
  /\ fd' = [fd EXCEPT ![w] = tmp]
  /\ record' = [record EXCEPT ![w] = v]
  /\ wanted' = wanted \union {v}
  /\ meets' = meets \union (IF Others(w) # {} THEN Others(w) \union {w} ELSE {})
  /\ UNCHANGED dirVars

\* One left by a save that was cut short, or in use by another process, is
\* truncated and opened as well.
TruncateTmp(w, v) ==
  /\ pc[w] = "idle"
  /\ tmp # Nothing
  /\ content' = [content EXCEPT ![tmp] = Empty]
  /\ shared' = IF \E x \in Others(w) : fd[x] = tmp
               THEN shared \union {tmp} ELSE shared \ {tmp}
  /\ pc' = [pc EXCEPT ![w] = "opened"]
  /\ fd' = [fd EXCEPT ![w] = tmp]
  /\ record' = [record EXCEPT ![w] = v]
  /\ wanted' = wanted \union {v}
  /\ meets' = meets \union (IF Others(w) # {} THEN Others(w) \union {w} ELSE {})
  /\ UNCHANGED <<entry, tmp>>

\* The record is written from offset 0.  Over another writer's text the end
\* of a longer text stays behind.
WriteTmp(w) ==
  /\ pc[w] = "opened"
  /\ \E c \in {record[w]} \union (IF content[fd[w]] = Empty THEN {} ELSE {Torn}) :
       content' = [content EXCEPT ![fd[w]] = c]
  /\ pc' = [pc EXCEPT ![w] = "written"]
  /\ UNCHANGED <<entry, tmp, fd, record, histVars>>

\* A full disk: part of the record is in the file, saveToDir returns the
\* error and leaves the temporary file behind.
WriteTmpFails(w) ==
  /\ pc[w] = "opened"
  /\ content' = [content EXCEPT ![fd[w]] = Torn]
  /\ pc' = [pc EXCEPT ![w] = "failed"]
  /\ Release(w)
  /\ UNCHANGED <<entry, tmp, histVars>>

RenameTmp(w) ==
  /\ pc[w] = "written"
  /\ tmp # Nothing
  /\ entry' = tmp
  /\ tmp' = Nothing
  /\ pc' = [pc EXCEPT ![w] = "idle"]
  /\ Release(w)
  /\ shared' = IF fd[w] = tmp THEN shared ELSE shared \union {tmp}
  /\ meets' = meets \ {w}
  /\ UNCHANGED <<content, wanted>>

\* Another writer has already renamed the file: ENOENT.
RenameTmpFails(w) ==
  /\ pc[w] = "written"
  /\ tmp = Nothing
  /\ pc' = [pc EXCEPT ![w] = "missing"]
  /\ Release(w)
  /\ UNCHANGED <<dirVars, histVars>>

\* Mutated form: the failed command removes the temporary file.
ReportAndRemove(w) ==
  /\ pc[w] \in {"failed", "missing"}
  /\ tmp' = Nothing
  /\ pc' = [pc EXCEPT ![w] = "idle"]
  /\ meets' = meets \ {w}
  /\ UNCHANGED <<entry, content, fd, record, wanted, shared>>

\* The command reports the error and ends.
ReportFailure(w) ==
  /\ pc[w] \in {"failed", "missing"}
  /\ pc' = [pc EXCEPT ![w] = "idle"]
  /\ meets' = meets \ {w}
  /\ UNCHANGED <<dirVars, fd, record, wanted, shared>>

\* The process is killed; its next command starts afresh.  A kill during the
\* write leaves part of the record.
Kill(w) ==
  /\ Saving(w)
  /\ \E c \in {content[fd[w]]} \union (IF pc[w] = "opened" THEN {Torn} ELSE {}) :
       content' = [content EXCEPT ![fd[w]] = c]
  /\ pc' = [pc EXCEPT ![w] = "idle"]
  /\ Release(w)
  /\ meets' = meets \ {w}
  /\ UNCHANGED <<entry, tmp, wanted, shared>>

Next ==
  \E w \in Writers :
    \/ \E v \in Records, i \in Inodes : CreateTmp(w, v, i)
    \/ \E v \in Records : TruncateTmp(w, v)
    \/ WriteTmp(w)
    \/ WriteTmpFails(w)
    \/ RenameTmp(w)
    \/ RenameTmpFails(w)
    \/ ReportFailure(w)
    \/ Kill(w)

Spec == Init /\ [][Next]_vars

------------------------------------------------------------------------------
(* Properties.                                                              *)

\* Kills and full disks never damage ward.json: if it holds anything but a
\* whole record, two saves had a hand in its file.  And a rename that finds no
\* temporary file, on which `serve` gives up its heartbeat, happens only to a
\* save that overlapped another one.
DamageOnlyByMeeting ==
  /\ entry # Nothing /\ content[entry] \notin Records => entry \in shared
  /\ \A w \in Writers : pc[w] = "missing" => w \in meets

\* A save that overlapped no other leaves its own record in ward.json,
\* whatever earlier saves left in the temporary file.
AloneSaveIsRead ==
  [][\A w \in Writers :
       w \notin meets /\ pc[w] = "written" /\ entry' # entry
         => pc'[w] = "idle" /\ content'[entry'] = record[w]]_vars

\* ward.json as the register of AtomicRecord.
Record == INSTANCE AtomicRecord WITH
            NoRecord <- Nothing,
            stored <- IF entry = Nothing THEN Nothing ELSE content[entry]

\* Whenever no two saves overlap, a reader sees whole records only, each of
\* them wanted by some command, wherever processes are killed: also after
\* earlier saves have run into each other and damaged the file.  And a save
\* that overlaps no other is what the next reader sees.
ImplementsRecord ==
  /\ Record!Init
  /\ [][meets = {} /\ meets' = {} =>
          [Record!Next]_<<IF entry = Nothing THEN Nothing ELSE content[entry], wanted>>]_vars
  /\ AloneSaveIsRead
==============================================================================
