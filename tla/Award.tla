------------------------------- MODULE Award -------------------------------
(***************************************************************************)
(* What a certificate programme promises one learner about one course: at  *)
(* most one certificate, for good; its document is stored before it is     *)
(* issued, and the learner is told of no other, and not before.            *)
(***************************************************************************)
CONSTANTS
  Numbers,   \* certificate numbers
  None       \* no certificate

VARIABLES
  issued,    \* the certificate of the learner, or None
  stored,    \* the certificates whose document is in storage
  told       \* the certificates the learner was told of

vars == <<issued, stored, told>>

(* A number or none, and sets of numbers. *)
TypeOK ==
  /\ issued \in Numbers \union {None}
  /\ stored \in SUBSET Numbers
  /\ told \in SUBSET Numbers

Init == issued = None /\ stored = {} /\ told = {}

Store(n) ==
  /\ stored' = stored \union {n}
  /\ UNCHANGED <<issued, told>>

Issue(n) ==
  /\ issued = None
  /\ n \in stored
  /\ issued' = n
  /\ UNCHANGED <<stored, told>>

Tell ==
  /\ issued # None
  /\ told' = told \union {issued}
  /\ UNCHANGED <<issued, stored>>

Next == Tell \/ \E n \in Numbers : Store(n) \/ Issue(n)

Spec == Init /\ [][Next]_vars
=============================================================================
