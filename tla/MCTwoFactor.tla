---------------------------- MODULE MCTwoFactor ----------------------------
(***************************************************************************)
(* The second factors of an account on a small instance.                   *)
(***************************************************************************)
EXTENDS TwoFactor, TLC

Symmetry == Permutations(Creds) \cup Permutations(Secrets)
=============================================================================
