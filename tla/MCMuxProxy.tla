----------------------------- MODULE MCMuxProxy -----------------------------
(* The instance of MuxProxy that TLC checks. *)
EXTENDS MuxProxy, TLC

(* Logins, sessions and streams are only compared for equality. *)
Symmetry == Permutations(Logins) \cup Permutations(Streams)
=============================================================================
