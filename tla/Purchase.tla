------------------------------ MODULE Purchase ------------------------------
(***************************************************************************)
(* What the checkout promises, whatever payment provider is used and       *)
(* whatever goes wrong on the way: a (learner, course) pair gets access by *)
(* buying only after its payment was vouched for, and a receipt, whose     *)
(* text says "Access has been granted to your account", goes out only once *)
(* the pair has access.  A payment is vouched for when a provider took the *)
(* money, or when an M-Pesa callback says it did, which the code takes at  *)
(* its word.  Nothing here says how, or that it happens at all.            *)
(***************************************************************************)
CONSTANT Pairs    \* the (learner, course) pairs that may be bought

VARIABLES
  vouched,   \* pairs some payment was vouched for
  access,    \* how a pair came by its enrolment: "none", "bought", "given"
  told       \* pairs whose learner was sent a receipt

vars == <<vouched, access, told>>

(* Payments, access and receipts are about the pairs on sale. *)
TypeOK ==
  /\ vouched \in SUBSET Pairs
  /\ access \in [Pairs -> {"none", "bought", "given"}]
  /\ told \in SUBSET Pairs

Init ==
  /\ vouched = {}
  /\ access = [p \in Pairs |-> "none"]
  /\ told = {}

(* A provider takes the learner's money, or a callback says so. *)
Vouch(p) ==
  /\ vouched' = vouched \union {p}
  /\ UNCHANGED <<access, told>>

(* The enrolment is bought, and only a payment vouched for buys it. *)
Buy(p) ==
  /\ p \in vouched
  /\ access[p] = "none"
  /\ access' = [access EXCEPT ![p] = "bought"]
  /\ UNCHANGED <<vouched, told>>

(* Somebody else enrols the learner: an organisation's bulk enrolment or  *)
(* an LTI launch.                                                         *)
Give(p) ==
  /\ access[p] = "none"
  /\ access' = [access EXCEPT ![p] = "given"]
  /\ UNCHANGED <<vouched, told>>

(* The receipt claims two things, and both are true when it is sent. *)
Tell(p) ==
  /\ p \in vouched
  /\ access[p] # "none"
  /\ told' = told \union {p}
  /\ UNCHANGED <<vouched, access>>

Next == \E p \in Pairs : Vouch(p) \/ Buy(p) \/ Give(p) \/ Tell(p)

Spec == Init /\ [][Next]_vars
=============================================================================
