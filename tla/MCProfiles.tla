---------------------------- MODULE MCProfiles ----------------------------
(* The instance of Profiles that TLC checks. *)
EXTENDS Profiles, TLC

(* Handlers, sessions, ids and passwords are only compared. *)
Symmetry == Permutations(Calls) \cup Permutations(Tokens) \cup Permutations(Ids) \cup Permutations(Passwords)
=============================================================================
