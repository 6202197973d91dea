----------------------------- MODULE MCIdentity -----------------------------
(* Identity for TLC: whose provider is whose, and the symmetry.            *)
EXTENDS Identity, TLC

MCProviderOf == [s \in Logins |-> IF s = "m1" THEN "microsoft" ELSE "google"]

IdentitySymmetry == {h @@ u : h \in Permutations(Handlers), u \in Permutations(Users)}
(* Tickets are alike too: they are used in the order of their numbers. *)
InOrder ==
  \A t, u \in Tickets : t < u /\ tickets[t].status = "none" => tickets[u].status = "none"
=============================================================================
