----------------------------- MODULE MCServices -----------------------------
(* Services for TLC: bands asked for, symmetry, and what is not explored.  *)
EXTENDS Services, TLC

MCAsked == {{}, {"1-4"}}

ServicesSymmetry == Permutations(Calls)

(* Courses, rows and tokens are alike too.  Permuting them would cost more *)
(* time than it saves states; instead one order of each is explored:       *)
(* courses are numbered by duration and sort key until the first edit, and *)
(* rows and tokens are used in the order of their numbers.                 *)
InOrder ==
  /\ reshelved = 0 =>
       \A t, u \in Titles : t < u => \/ shelf[t].weeks < shelf[u].weeks
                                     \/ /\ shelf[t].weeks = shelf[u].weeks
                                        /\ shelf[t].rank <= shelf[u].rank
  /\ \A m, n \in Slips : m < n /\ notices[m].who = None => notices[n].who = None
  /\ \A a, b \in Bearers : a < b /\ bearers[a].status = "none" => bearers[b].status = "none"

(* Nothing is claimed of the configuration after an outage, nor of an      *)
(* answer of the catalogue that an edit overtakes; and the next search     *)
(* begins anew.                                                            *)
Claimed == outages = 0 /\ (still \/ visit.pc = "idle")
=============================================================================
