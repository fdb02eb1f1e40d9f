----------------------------- MODULE WardRecord -----------------------------
(***************************************************************************)
(* The record of an activated ward, wards/<id>/ward.json, under the        *)
(* processes that share it: one `warded serve` and the one-shot commands   *)
(* `whitelist add`, `whitelist remove`, `status` and `renew-cert`.  Each   *)
(* loads the record, works on its copy and saves the whole copy; nothing   *)
(* locks the file in between, and `serve` keeps its copy for as long as it *)
(* runs.  A save is one step here: AtomicSave looks inside it.             *)
(***************************************************************************)
CONSTANTS
  Commands,   \* one-shot command processes that can run together
  Serve,      \* the `warded serve` process
  Rules,      \* whitelist rules
  Local,      \* upstream configuration the user has given
  Default,    \* upstream configuration the platform may answer with
  Terminal,   \* statuses that end a ward: expired, suspended, deleted
  Others,     \* other statuses than those and "active"
  Absent      \* nothing held, a field left out of a reply

ASSUME DistinctAssumption ==
  /\ Serve \notin Commands
  /\ Local # Default
  /\ "active" \notin Terminal \union Others /\ Terminal \cap Others = {}
  /\ Absent \notin Rules \union Terminal \union Others \union {"active"}

Procs     == Commands \union {Serve}
Upstreams == {Local, Default}
Statuses  == Terminal \union Others \union {"active"}
Record    == [rules : SUBSET Rules, upstream : Upstreams, status : Statuses,
              renewed : BOOLEAN]
Reply     == [status : Statuses \union {Absent}, upstream : Upstreams \union {Absent}]

ASSUME AbsentAssumption == Absent \notin Record \union Reply

VARIABLES
  disk,      \* the record in ward.json
  ward,      \* status of the ward on the platform
  known,     \* upstream configuration the platform has on file
  pc,        \* step of each process
  copy,      \* record in the memory of each process
  rule,      \* argument of a whitelist command
  reply,     \* answer of the platform a process has not applied yet
  enforced   \* ServerConfig.AuthWhitelist of the running proxy

procVars == <<pc, copy, rule, reply>>
platform == <<ward, known>>
vars     == <<disk, platform, procVars, enforced>>

PC == {"idle", "adding", "removing", "renewing", "asking", "refreshing",
       "loaded", "verified", "running", "answered"}

TypeOK ==
  /\ disk \in Record
  /\ ward \in Statuses
  /\ known \in Upstreams
  /\ pc \in [Procs -> PC]
  /\ copy \in [Procs -> Record \union {Absent}]
  /\ rule \in [Procs -> Rules \union {Absent}]
  /\ reply \in [Procs -> Reply \union {Absent}]
  /\ enforced \subseteq Rules

\* The ward has just been activated: no rules yet.
Init ==
  /\ disk = [rules |-> {}, upstream |-> Local, status |-> "active", renewed |-> FALSE]
  /\ ward = "active"
  /\ known \in Upstreams
  /\ pc = [p \in Procs |-> "idle"]
  /\ copy = [p \in Procs |-> Absent]
  /\ rule = [p \in Procs |-> Absent]
  /\ reply = [p \in Procs |-> Absent]
  /\ enforced = {}

------------------------------------------------------------------------------
(* Loading and saving.                                                      *)

\* The process reads ward.json; `r` is the argument of its command line.
Load(p, step, r) ==
  /\ pc[p] = "idle"
  /\ pc' = [pc EXCEPT ![p] = step]
  /\ copy' = [copy EXCEPT ![p] = disk]
  /\ rule' = [rule EXCEPT ![p] = r]
  /\ UNCHANGED <<disk, platform, reply, enforced>>

Exit(p) ==
  /\ pc' = [pc EXCEPT ![p] = "idle"]
  /\ copy' = [copy EXCEPT ![p] = Absent]
  /\ rule' = [rule EXCEPT ![p] = Absent]
  /\ reply' = [reply EXCEPT ![p] = Absent]

\* The platform answers a request of the process.
Receive(p, from, to, answer) ==
  /\ pc[p] = from
  /\ pc' = [pc EXCEPT ![p] = to]
  /\ reply' = [reply EXCEPT ![p] = answer]
  /\ UNCHANGED <<disk, platform, copy, rule, enforced>>

------------------------------------------------------------------------------
(* warded whitelist add, warded whitelist remove                            *)

\* A rule that is already there, or one to be removed that is not, ends the
\* command with an error and nothing saved.
AddLoad(p, r)    == r \notin disk.rules /\ Load(p, "adding", r)
RemoveLoad(p, r) == r \in disk.rules /\ Load(p, "removing", r)

AddSave(p) ==
  /\ pc[p] = "adding"
  /\ disk' = [copy[p] EXCEPT !.rules = @ \union {rule[p]}]
  /\ Exit(p)
  /\ UNCHANGED <<platform, enforced>>

RemoveSave(p) ==
  /\ pc[p] = "removing"
  /\ disk' = [copy[p] EXCEPT !.rules = @ \ {rule[p]}]
  /\ Exit(p)
  /\ UNCHANGED <<platform, enforced>>

------------------------------------------------------------------------------
(* warded renew-cert                                                        *)

RenewLoad(p) == Load(p, "renewing", Absent)

\* Once the platform has sent the certificate.
RenewSave(p) ==
  /\ pc[p] = "renewing"
  /\ disk' = [copy[p] EXCEPT !.renewed = TRUE]
  /\ Exit(p)
  /\ UNCHANGED <<platform, enforced>>

------------------------------------------------------------------------------
(* warded status                                                            *)

StatusLoad(p) == Load(p, "asking", Absent)

GetWard(p, from, to) ==
  Receive(p, from, to, [status |-> ward, upstream |-> known])

\* Mutated form: the rules are taken over from the platform too, which knows
\* of none.
StatusSaveRules(p) ==
  /\ pc[p] = "refreshing"
  /\ disk' = [copy[p] EXCEPT !.status = reply[p].status, !.upstream = reply[p].upstream,
                             !.rules = {}]
  /\ Exit(p)
  /\ UNCHANGED <<platform, enforced>>

\* ApplyGetWardResponseToStatus takes over the status and the upstream
\* command, port and mode.
StatusSave(p) ==
  /\ pc[p] = "refreshing"
  /\ disk' = [copy[p] EXCEPT !.status = reply[p].status, !.upstream = reply[p].upstream]
  /\ Exit(p)
  /\ UNCHANGED <<platform, enforced>>

------------------------------------------------------------------------------
(* warded serve                                                             *)

ServeLoad == Load(Serve, "loaded", Absent)

\* verifyActiveServeRuntime, the platform calls the ward active: the answer
\* is applied, but for the upstream, ingress and domain configuration, which
\* stays as loaded.  The proxy gets its own view of the rules.
VerifySave ==
  /\ pc[Serve] = "verified"
  /\ reply[Serve].status = "active"
  /\ LET record == [copy[Serve] EXCEPT !.status = "active"] IN
       /\ disk' = record
       /\ copy' = [copy EXCEPT ![Serve] = record]
       /\ enforced' = record.rules
  /\ pc' = [pc EXCEPT ![Serve] = "running"]
  /\ reply' = [reply EXCEPT ![Serve] = Absent]
  /\ UNCHANGED <<platform, rule>>

\* A ward that has ended: its status is saved and serve does not start.
VerifyRefuses ==
  /\ pc[Serve] = "verified"
  /\ reply[Serve].status \in Terminal
  /\ disk' = [copy[Serve] EXCEPT !.status = reply[Serve].status]
  /\ Exit(Serve)
  /\ UNCHANGED <<platform, enforced>>

\* The platform answers a heartbeat; it may leave the status out.
HeartbeatAnswered ==
  Receive(Serve, "running", "answered", [status |-> ward, upstream |-> Absent])

HeartbeatBare ==
  Receive(Serve, "running", "answered", [status |-> Absent, upstream |-> Absent])

\* Mutated form: a status left out of the answer is applied like any other.
WithAnyStatus(record, status) == [record EXCEPT !.status = status]

\* ApplyHeartbeatResponse.
WithStatus(record, status) ==
  IF status = Absent THEN record ELSE [record EXCEPT !.status = status]

\* Mutated form: serve goes on whatever the status.
HeartbeatSaveOnly ==
  LET record == WithStatus(copy[Serve], reply[Serve].status) IN
  /\ pc[Serve] = "answered"
  /\ disk' = record
  /\ pc' = [pc EXCEPT ![Serve] = "running"]
  /\ copy' = [copy EXCEPT ![Serve] = record]
  /\ reply' = [reply EXCEPT ![Serve] = Absent]
  /\ UNCHANGED <<platform, rule, enforced>>

\* Mutated form: an answer that changes nothing is not saved.
HeartbeatSaveNews ==
  LET record == WithStatus(copy[Serve], reply[Serve].status) IN
  /\ pc[Serve] = "answered"
  /\ disk' = IF record = copy[Serve] THEN disk ELSE record
  /\ IF record.status = "active"
     THEN /\ pc' = [pc EXCEPT ![Serve] = "running"]
          /\ copy' = [copy EXCEPT ![Serve] = record]
          /\ reply' = [reply EXCEPT ![Serve] = Absent]
          /\ UNCHANGED <<rule, enforced>>
     ELSE Exit(Serve) /\ enforced' = {}
  /\ UNCHANGED platform

\* runServeHeartbeat: the status is applied to the copy serve keeps, all of
\* the copy is saved, and any status but active ends serve.
HeartbeatSave ==
  LET record == WithStatus(copy[Serve], reply[Serve].status) IN
  /\ pc[Serve] = "answered"
  /\ disk' = record
  /\ IF record.status = "active"
     THEN /\ pc' = [pc EXCEPT ![Serve] = "running"]
          /\ copy' = [copy EXCEPT ![Serve] = record]
          /\ reply' = [reply EXCEPT ![Serve] = Absent]
          /\ UNCHANGED <<rule, enforced>>
     ELSE Exit(Serve) /\ enforced' = {}
  /\ UNCHANGED platform

------------------------------------------------------------------------------

\* A process ends without saving: an error of the platform, a save that
\* fails, a signal, a kill; for serve also a credential that has expired or a
\* status that is neither active nor terminal.
Stop(p) ==
  /\ pc[p] # "idle"
  /\ Exit(p)
  /\ enforced' = IF p = Serve THEN {} ELSE enforced
  /\ UNCHANGED <<disk, platform>>

\* The ward changes at the platform: payment, suspension, deletion.
PlatformChanges ==
  /\ ward' \in Statuses \ {ward}
  /\ UNCHANGED <<disk, known, procVars, enforced>>

CommandStep(p) ==
  \/ \E r \in Rules : AddLoad(p, r) \/ RemoveLoad(p, r)
  \/ AddSave(p)
  \/ RemoveSave(p)
  \/ RenewLoad(p)
  \/ RenewSave(p)
  \/ StatusLoad(p)
  \/ GetWard(p, "asking", "refreshing")
  \/ StatusSave(p)

ServeStep ==
  \/ ServeLoad
  \/ GetWard(Serve, "loaded", "verified")
  \/ VerifySave
  \/ VerifyRefuses
  \/ HeartbeatAnswered
  \/ HeartbeatBare
  \/ HeartbeatSave

Next ==
  \/ \E p \in Commands : CommandStep(p)
  \/ ServeStep
  \/ \E p \in Procs : Stop(p)
  \/ PlatformChanges

Spec == Init /\ [][Next]_vars

\* A running serve sends a heartbeat a minute and works off its answer; the
\* platform, asked again and again, answers again and again.
FairSpec == Spec /\ SF_vars(HeartbeatAnswered) /\ WF_vars(HeartbeatSave)

------------------------------------------------------------------------------
(* Properties.                                                              *)

ServeUp == pc[Serve] \in {"running", "answered"}

Edits == INSTANCE WardEdits WITH record <- disk

\* The process that takes the step holds a copy older than ward.json.
FromStaleCopy == \E p \in Procs : pc'[p] # pc[p] /\ copy[p] # disk

\* What a process may make of its copy at this step.
EditsOf(p) ==
  CASE p = Serve -> Edits!SetStatus(copy[p])
    [] pc[p] = "adding" -> Edits!Add(copy[p])
    [] pc[p] = "removing" -> Edits!Remove(copy[p])
    [] pc[p] = "renewing" -> Edits!Renew(copy[p])
    [] pc[p] = "refreshing" -> Edits!Refresh(copy[p])
    [] OTHER -> {}

\* Whatever runs meanwhile, and however old the copy is that a process saves:
\* the save is one edit of that copy, of the fields that are the process's
\* business, and the copy is what ward.json held when the process loaded it or
\* saved it last.  So a save can put back something older, but never
\* anything that was not in ward.json, nor a mixture of several records.
SavesAreEdits ==
  [][/\ UNCHANGED disk \/ \E p \in Procs : pc'[p] # pc[p] /\ disk' \in EditsOf(p)
     /\ \A p \in Procs : copy'[p] \in {copy[p], disk', Absent}]_vars

\* So what the others have saved is lost to stale copies and nothing else.
LostOnlyToStaleCopies == [][FromStaleCopy \/ Edits!Next \/ UNCHANGED disk]_vars

\* The upstream configuration in ward.json changes by a save of `status` or
\* the return of an older copy.  A start of serve, which asks the platform
\* the same question, keeps it.
StatusAloneReconfigures ==
  [][\/ disk'.upstream = disk.upstream
     \/ FromStaleCopy
     \/ \E p \in Commands : pc[p] = "refreshing" /\ pc'[p] = "idle"]_vars

\* Once the ward has ended for good, serve ends too and cannot be started.
EndedWardIsNotServed ==
  <>[](ward # "active") => <>[]~ServeUp

\* Once no command is left running, a serve that stays up makes ward.json
\* agree with the rules it enforces: with its own, older rules.
ServeHasTheLastWord ==
  <>[](/\ ServeUp
       /\ \A p \in Commands : pc[p] = "idle")
    => <>[](disk.rules = enforced)
==============================================================================
