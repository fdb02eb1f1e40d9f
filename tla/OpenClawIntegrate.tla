-------------------------- MODULE OpenClawIntegrate --------------------------
(***************************************************************************)
(* `warded integrate agent openclaw` (internal/cmd/integrate.go,           *)
(* internal/application/integrate_service.go): the configuration of the    *)
(* OpenClaw gateway, read and written key by key through OpenClaw's own    *)
(* command line, by commands that overlap, fail half way or are killed,    *)
(* while its user edits it too.                                            *)
(*                                                                         *)
(* A list of origins is the set of its members and the number of entries   *)
(* that repeat another one: the code compares lengths.                     *)
(***************************************************************************)
EXTENDS Naturals, FiniteSets

CONSTANTS
  Procs,        \* integrate commands that can run together
  Origins,      \* origins of wards, and others
  MaxRepeats,   \* bound: repeated entries in a list the user writes
  UserPorts,    \* ports OpenClaw lets its user configure; 0 where none is readable
  Adopted,      \* public ports given with --adopt-public-port
  DefaultPort,  \* 18789
  Unreadable    \* allowedOrigins that are no JSON list

MaxPort == 65535

ASSUME OpenClawAssumption ==
  /\ MaxRepeats \in Nat
  /\ UserPorts \subseteq 0..MaxPort
  /\ Adopted \subseteq 1..MaxPort
  /\ DefaultPort \in 1..MaxPort

\* Lists are finite, and only an entry can repeat.
Lists ==
  { l \in [members : SUBSET Origins, repeats : 0..MaxRepeats] :
      IsFiniteSet(l.members) /\ (l.members = {} => l.repeats = 0) }

ASSUME UnreadableAssumption == Unreadable \notin Lists

VARIABLES
  origins,    \* gateway.controlUi.allowedOrigins
  bind,       \* gateway.bind
  port,       \* gateway.port
  cmd,        \* what each command is at
  disturbed   \* history: commands during which somebody else has changed a key

config       == <<origins, bind, port>>
openClawVars == <<config, cmd, disturbed>>

Binds == {"loopback", "lan"}

\* The step of a command, the origin it is to allow or the port to adopt, and
\* what it has read.
Nothing == [members |-> {}, repeats |-> 0]
Idle == [step |-> "idle", origin |-> {}, adopt |-> 0, list |-> Nothing,
         bind |-> "lan", port |-> 0]

OpenClawTypeOK ==
  /\ origins \in Lists \union {Unreadable}
  /\ bind \in Binds
  /\ port \in 0..MaxPort
  /\ DOMAIN cmd = Procs
  /\ \A p \in Procs : cmd[p] \in
       [step : {"idle", "listed", "bound", "planned", "loopback", "set", "done"},
        origin : {{}} \union {{o} : o \in Origins}, adopt : Adopted \union {0},
        list : Lists, bind : Binds, port : 0..MaxPort]
  /\ disturbed \subseteq Procs

OpenClawInit ==
  /\ origins = Nothing
  /\ bind \in Binds
  /\ port = 0
  /\ cmd = [p \in Procs |-> Idle]
  /\ disturbed = {}

\* Command p goes on; Idle again, it has exited.
Becomes(p, c) == cmd' = [cmd EXCEPT ![p] = c]
At(p, step)   == cmd[p].step = step
Working(p)    == cmd[p].step \notin {"idle", "done"}

Unseen       == UNCHANGED <<config, disturbed>>
SeenBy(Q)    == disturbed' = disturbed \union {q \in Q : Working(q) \/ At(q, "done")}

------------------------------------------------------------------------------
(* Pure parts.                                                              *)

Length(l) == Cardinality(l.members) + l.repeats

\* appendUnique
AppendUnique(l, os) == [members |-> l.members \union os, repeats |-> 0]

\* parseOpenClawPort
ParsePort(n) == IF n = 0 THEN DefaultPort ELSE n

\* Mutated form: always above.
AdoptedPortAbove(n) == n + 1000

\* adoptedUpstreamPort
AdoptedUpstreamPort(n) == IF n <= 64535 THEN n + 1000 ELSE n - 1000

DesiredPort(c) == IF c.adopt = 0 THEN c.port ELSE AdoptedUpstreamPort(c.adopt)

------------------------------------------------------------------------------
(* --allow-origins.                                                         *)

\* Lists of the same length count as the same.
GetOrigins(p, o) ==
  /\ cmd[p] = Idle
  /\ origins # Unreadable
  /\ LET c == [Idle EXCEPT !.origin = {o}, !.list = origins] IN
     Becomes(p, [c EXCEPT !.step =
       IF Length(origins) = Length(AppendUnique(origins, {o})) THEN "done" ELSE "listed"])
  /\ disturbed' = disturbed \ {p}
  /\ UNCHANGED config

\* Mutated form: the list is written without what it had.
SetOriginAlone(p) ==
  /\ At(p, "listed")
  /\ origins' = AppendUnique(Nothing, cmd[p].origin)
  /\ Becomes(p, [cmd[p] EXCEPT !.step = "set"])
  /\ SeenBy(Procs \ {p})
  /\ UNCHANGED <<bind, port>>

SetOrigins(p) ==
  /\ At(p, "listed")
  /\ origins' = AppendUnique(cmd[p].list, cmd[p].origin)
  /\ Becomes(p, [cmd[p] EXCEPT !.step = "set"])
  /\ SeenBy(Procs \ {p})
  /\ UNCHANGED <<bind, port>>

------------------------------------------------------------------------------
(* --baseline --repair, with or without --adopt-public-port.                *)

GetBind(p, a) ==
  /\ cmd[p] = Idle
  /\ Becomes(p, [Idle EXCEPT !.step = "bound", !.adopt = a, !.bind = bind])
  /\ disturbed' = disturbed \ {p}
  /\ UNCHANGED config

\* Mutated form: a loopback bind is enough.
GetPortBindOnly(p) ==
  /\ At(p, "bound")
  /\ cmd[p].adopt \in {0, ParsePort(port)}
  /\ LET c == [cmd[p] EXCEPT !.port = ParsePort(port)] IN
     Becomes(p, [c EXCEPT !.step = IF c.bind = "loopback" THEN "done" ELSE "planned"])
  /\ Unseen

\* A port to adopt has to be the one that is configured.
GetPort(p) ==
  /\ At(p, "bound")
  /\ cmd[p].adopt \in {0, ParsePort(port)}
  /\ LET c == [cmd[p] EXCEPT !.port = ParsePort(port)] IN
     Becomes(p, [c EXCEPT !.step =
       IF c.bind = "loopback" /\ c.port = DesiredPort(c) THEN "done" ELSE "planned"])
  /\ Unseen

SetBind(p) ==
  /\ At(p, "planned")
  /\ bind' = "loopback"
  /\ Becomes(p, [cmd[p] EXCEPT !.step = "loopback"])
  /\ SeenBy(Procs \ {p})
  /\ UNCHANGED <<origins, port>>

\* The port is written back even where it is not to change.
SetPort(p) ==
  /\ At(p, "loopback")
  /\ port' = DesiredPort(cmd[p])
  /\ Becomes(p, [cmd[p] EXCEPT !.step = "set"])
  /\ SeenBy(Procs \ {p})
  /\ UNCHANGED <<origins, bind>>

------------------------------------------------------------------------------

\* `openclaw config validate` succeeds, and success is reported.
Validate(p) ==
  /\ At(p, "set")
  /\ Becomes(p, [cmd[p] EXCEPT !.step = "done"])
  /\ Unseen

Exit(p) == At(p, "done") /\ Becomes(p, Idle) /\ Unseen

\* A command is refused, a call of openclaw fails, or the command is killed:
\* what has been set stays set.
Stop(p) == Working(p) /\ Becomes(p, Idle) /\ Unseen

\* The user edits one key.
Edit ==
  /\ \/ origins' \in Lists \union {Unreadable} /\ UNCHANGED <<bind, port>>
     \/ bind' \in Binds /\ UNCHANGED <<origins, port>>
     \/ port' \in UserPorts /\ UNCHANGED <<origins, bind>>
  /\ SeenBy(Procs)
  /\ UNCHANGED cmd

Integrate(p) ==
  \/ \E o \in Origins : GetOrigins(p, o)
  \/ \E a \in Adopted \union {0} : GetBind(p, a)
  \/ SetOrigins(p) \/ GetPort(p) \/ SetBind(p) \/ SetPort(p)
  \/ Validate(p) \/ Exit(p) \/ Stop(p)

OpenClawNext == (\E p \in Procs : Integrate(p)) \/ Edit

OpenClawSpec == OpenClawInit /\ [][OpenClawNext]_openClawVars

------------------------------------------------------------------------------
(* Properties.                                                              *)

\* What p is about to write rests on a value that is no longer there.
Outdated(p) ==
  \/ At(p, "listed") /\ cmd[p].list # origins
  \/ At(p, "loopback") /\ cmd[p].port # ParsePort(port)

\* Whatever overlaps and wherever commands fail, a command that is not
\* outdated adds one origin and takes none away, binds to the loopback
\* interface, or moves the port once, away from the public port it was asked
\* to adopt: the keys are lost to outdated commands and to the user only.
EachChangeIsOneEdit ==
  [][\/ cmd' = cmd
     \/ \E p \in Procs : Outdated(p) /\ cmd'[p] # cmd[p]
     \/ /\ \/ origins' = origins
           \/ origins # Unreadable /\ \E o \in Origins : origins' = AppendUnique(origins, {o})
        /\ bind' \in {bind, "loopback"}
        /\ \/ port' \in {port, ParsePort(port)}
           \/ \E a \in Adopted : ParsePort(port) = a /\ port' = AdoptedUpstreamPort(a)]_openClawVars

\* A command that nobody has disturbed reports success only when the gateway
\* is configured as it was asked to: the repair is not taken for done after
\* one key of two.  "Required origin is already present"
\* (integrate_service.go:119) is reported of lists that repeat an entry too,
\* and wrongly, since lengths are compared.
ReportsAreTrue ==
  \A p \in Procs : At(p, "done") /\ p \notin disturbed =>
    /\ cmd[p].list.repeats = 0 /\ origins # Unreadable =>
         cmd[p].origin \subseteq origins.members
    /\ cmd[p].origin = {} => bind = "loopback"
    /\ cmd[p].adopt # 0 => port = AdoptedUpstreamPort(cmd[p].adopt)
==============================================================================
