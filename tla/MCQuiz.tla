------------------------------- MODULE MCQuiz -------------------------------
(* Model-checking instance of Quiz: the calls are interchangeable. *)
EXTENDS Quiz, TLC

HandlerSymmetry == Permutations(Handlers)
=============================================================================
