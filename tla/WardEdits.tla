------------------------------ MODULE WardEdits ------------------------------
(***************************************************************************)
(* What each command is meant to do to the record of an activated ward:    *)
(* one edit of the fields that are its business, as if it were alone.      *)
(***************************************************************************)
CONSTANTS Rules, Upstreams, Statuses

VARIABLE record

\* The records that a command may make of the record it has loaded.
Add(old)    == {[old EXCEPT !.rules = @ \union {r}] : r \in Rules}
Remove(old) == {[old EXCEPT !.rules = @ \ {r}] : r \in Rules}
Renew(old)  == {[old EXCEPT !.renewed = TRUE]}

\* `serve` records the status the platform reports, if it reports one.
SetStatus(old) == {old} \union {[old EXCEPT !.status = s] : s \in Statuses}

\* `status` also takes over the configuration the platform reports.
Answers      == [status : Statuses, upstream : Upstreams]
Refresh(old) ==
  {[old EXCEPT !.status = a.status, !.upstream = a.upstream] : a \in Answers}

Next ==
  record' \in Add(record) \union Remove(record) \union Renew(record)
                \union SetStatus(record) \union Refresh(record)
==============================================================================
