------------------------------- MODULE MCWork -------------------------------
(* Work for TLC: calls are interchangeable, and so are workers.            *)
EXTENDS Work, TLC

WorkSymmetry == {h @@ w : h \in Permutations(Handlers), w \in Permutations(Workers)}
=============================================================================
