----------------------------- MODULE MCShares -----------------------------
(* The instance of Shares that TLC checks. *)
EXTENDS Shares, TLC

(* Handlers, users, ids and keys are only compared. *)
Symmetry == Permutations(Calls) \cup Permutations(Users) \cup Permutations(Ids) \cup Permutations(Keys)

(* Bound: a behaviour ends when the master key is written over another.     *)
(* What SharesOpen says ends there, and no other property depends on keys.  *)
FirstKey == ~rekeyed
=============================================================================
