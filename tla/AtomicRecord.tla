---------------------------- MODULE AtomicRecord ----------------------------
(***************************************************************************)
(* What saving a runtime record promises to whoever reads ward.json: at    *)
(* every moment the file is missing or holds one whole record that some    *)
(* command wanted saved; a save replaces it in one step, and the file      *)
(* never goes missing again.                                               *)
(***************************************************************************)
CONSTANTS Records, NoRecord

VARIABLES
  stored,   \* what ward.json holds
  wanted    \* records some command has set out to save

Init ==
  /\ stored = NoRecord
  /\ wanted = {}

Request(v) ==
  /\ wanted' = wanted \union {v}
  /\ UNCHANGED stored

Replace(v) ==
  /\ v \in wanted
  /\ stored' = v
  /\ UNCHANGED wanted

Next == \E v \in Records : Request(v) \/ Replace(v)

Spec == Init /\ [][Next]_<<stored, wanted>>
==============================================================================
