---------------------------- MODULE MCPublicApi ----------------------------
(* Model-checking instance of PublicApi: tokens and requests are           *)
(* interchangeable.                                                        *)
EXTENDS PublicApi, TLC

PublicApiSymmetry == Permutations(Bearers) \union Permutations(Lines)
=============================================================================
