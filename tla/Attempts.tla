------------------------------ MODULE Attempts ------------------------------
(***************************************************************************)
(* What a graded quiz promises a course author about one learner: attempts *)
(* are numbered 1, 2, 3, ... without a gap, one is open at a time, a new   *)
(* one opens only once the previous one is closed, and there are never     *)
(* more than the author allows.                                            *)
(***************************************************************************)
EXTENDS Naturals

CONSTANTS
  Numbers,   \* attempt numbers: 1..k for some k
  Limit      \* attempts the author allows, 0 for any number

VARIABLES
  taken,     \* the numbers given out
  open       \* the attempts in progress

vars == <<taken, open>>

(* Attempts open are among those taken. *)
TypeOK ==
  /\ taken \in SUBSET Numbers
  /\ open \in SUBSET taken

Init == taken = {} /\ open = {}

Start(n) ==
  /\ open = {}
  /\ taken = 1..(n - 1)
  /\ Limit = 0 \/ n <= Limit
  /\ taken' = 1..n
  /\ open' = {n}

Close(n) ==
  /\ open = {n}
  /\ open' = {}
  /\ UNCHANGED taken

Next == \E n \in Numbers : Start(n) \/ Close(n)

Spec == Init /\ [][Next]_vars
=============================================================================
