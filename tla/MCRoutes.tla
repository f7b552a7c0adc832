----------------------------- MODULE MCRoutes -----------------------------
(* The instance of Routes that TLC checks. *)
EXTENDS Routes, TLC

(* Handlers, ids and signatures are only compared; ids but for being shared. *)
Symmetry ==
  Permutations(Calls) \cup Permutations(Signatures) \cup Permutations(Shared)
    \cup Permutations(Ids \ Shared)
=============================================================================
