----------------------------- MODULE MCGateway -----------------------------
(* The instance of Gateway that TLC checks. *)
EXTENDS Gateway, TLC

(* Requests, and the users who are not the default owner, are only compared. *)
Symmetry == Permutations(Requests) \cup Permutations(Users \ {Default})

(* A claim that is refused or fails does not hold up the claims behind it:  *)
(* whatever happened before, the next one of the chain can be taken or the  *)
(* write in progress can end.                                               *)
ChainMoves == queue # <<>> \/ writing # None => ENABLED Settle
=============================================================================
