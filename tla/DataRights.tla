----------------------------- MODULE DataRights -----------------------------
(***************************************************************************)
(* What the platform promises of a person's data, whoever administers it   *)
(* and whatever fails: an export is made only of somebody who received the *)
(* link to confirm it, an account is anonymised only for somebody who      *)
(* received the link to confirm that, or by an administrator once an       *)
(* export is stored; it is anonymised once; and what is reported done has  *)
(* been done.  A report may be taken back, when its link is used twice at  *)
(* once, but what was done is not.                                         *)
(***************************************************************************)
CONSTANT Users

VARIABLES
  invited,   \* <<user, kind>>: who received a link, for an export or deletion
  exported,  \* users with an export in the storage
  erased,    \* how a user's account was anonymised, or "no"
  reported   \* <<user, kind>>: requests that say completed

vars == <<invited, exported, erased, reported>>

Kinds == {"export", "delete"}
Done(u, kind) == IF kind = "export" THEN u \in exported ELSE erased[u] # "no"

(* Links and reports are of a user and a kind, exports of users. *)
TypeOK ==
  /\ invited \in SUBSET (Users \X Kinds)
  /\ exported \in SUBSET Users
  /\ erased \in [Users -> {"no", "request", "admin"}]
  /\ reported \in SUBSET (Users \X Kinds)

Init ==
  /\ invited = {} /\ exported = {} /\ reported = {}
  /\ erased = [u \in Users |-> "no"]

Invite(u, kind) ==
  /\ invited' = invited \union {<<u, kind>>}
  /\ UNCHANGED <<exported, erased, reported>>

Export(u) ==
  /\ <<u, "export">> \in invited
  /\ exported' = exported \union {u}
  /\ UNCHANGED <<invited, erased, reported>>

Anonymise(u, who) ==
  /\ erased[u] = "no"
  /\ IF who = "request" THEN <<u, "delete">> \in invited ELSE u \in exported
  /\ erased' = [erased EXCEPT ![u] = who]
  /\ UNCHANGED <<invited, exported, reported>>

Report(u, kind) ==
  /\ Done(u, kind)
  /\ reported' = reported \union {<<u, kind>>}
  /\ UNCHANGED <<invited, exported, erased>>

TakeBack(u, kind) ==
  /\ reported' = reported \ {<<u, kind>>}
  /\ UNCHANGED <<invited, exported, erased>>

Next ==
  \E u \in Users :
    \/ Export(u) \/ Anonymise(u, "request") \/ Anonymise(u, "admin")
    \/ \E kind \in Kinds : Invite(u, kind) \/ Report(u, kind) \/ TakeBack(u, kind)

Spec == Init /\ [][Next]_vars
=============================================================================
