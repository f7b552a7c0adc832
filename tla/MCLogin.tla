------------------------------ MODULE MCLogin ------------------------------
(* The instance of Login that TLC checks. *)
EXTENDS Login, TLC

(* Users, addresses and credentials are only compared for equality. *)
Symmetry == Permutations(Users) \cup Permutations(IPs) \cup Permutations(Creds)
=============================================================================
