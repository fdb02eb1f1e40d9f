----------------------------- MODULE Enrollment -----------------------------
(***************************************************************************)
(* What setting up a ward promises about its credentials.  The draft       *)
(* secret is kept locally before the platform hears of the draft, and it   *)
(* stays until the platform has given it up or the ward's own credentials  *)
(* have taken its place: no draft that can still become a ward, or has     *)
(* become one, is ever without its key.                                    *)
(***************************************************************************)
CONSTANT Drafts

VARIABLES
  platform,    \* state of each draft at the platform
  credential   \* what is kept locally for each draft

Init ==
  /\ platform = [d \in Drafts |-> "none"]
  /\ credential = [d \in Drafts |-> "none"]

Advance(d, from, to) ==
  /\ platform[d] \in from
  /\ platform' = [platform EXCEPT ![d] = to]
  /\ UNCHANGED credential

Submit(d)  == credential[d] = "secret" /\ Advance(d, {"none"}, "open")
Convert(d) == Advance(d, {"open"}, "converted")
Expire(d)  == Advance(d, {"open"}, "dead")
Claim(d)   == credential[d] = "secret" /\ Advance(d, {"converted"}, "claimed")

Exchange(d, from, to) ==
  /\ credential[d] = from
  /\ credential' = [credential EXCEPT ![d] = to]
  /\ UNCHANGED platform

Draw(d) == Exchange(d, "none", "secret")
Keep(d) == platform[d] = "claimed" /\ Exchange(d, "secret", "ward")
Drop(d) == platform[d] = "dead" /\ Exchange(d, "secret", "dropped")

\* Commands that overlap may bring a dropped secret back.
Return(d) == platform[d] = "dead" /\ Exchange(d, "dropped", "secret")

\* A new secret takes the place of one the platform has given up.
Replace(d, e) ==
  /\ platform[d] = "dead"
  /\ credential[d] = "secret" /\ credential[e] = "none"
  /\ credential' = [credential EXCEPT ![d] = "dropped", ![e] = "secret"]
  /\ UNCHANGED platform

Next ==
  \/ \E d \in Drafts : Submit(d) \/ Convert(d) \/ Expire(d) \/ Claim(d)
                       \/ Draw(d) \/ Keep(d) \/ Drop(d) \/ Return(d)
  \/ \E d, e \in Drafts : Replace(d, e)

Spec == Init /\ [][Next]_<<platform, credential>>
==============================================================================
