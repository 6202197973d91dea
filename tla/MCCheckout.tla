----------------------------- MODULE MCCheckout -----------------------------
(* Model-checking instance of Checkout: the calls are interchangeable. *)
EXTENDS Checkout, TLC

HandlerSymmetry == Permutations(Handlers)
=============================================================================
