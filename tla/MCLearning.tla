----------------------------- MODULE MCLearning -----------------------------
(* Model-checking instance of Learning: lessons, calls and numbers are     *)
(* each interchangeable.                                                   *)
EXTENDS Learning, TLC

LearningSymmetry ==
  Permutations(Lessons) \union Permutations(Handlers) \union Permutations(Numbers)
=============================================================================
