----------------------------- MODULE MCInvites -----------------------------
(***************************************************************************)
(* The invitation codes on a small instance, with a history variable that  *)
(* tells whether the process ever ended.                                   *)
(***************************************************************************)
EXTENDS Invites, TLC

VARIABLE restarted  \* history: the process ended once

MCInit == Init /\ restarted = FALSE
MCNext == Next /\ restarted' = (restarted \/ Crash)
MCSpec == MCInit /\ [][MCNext]_<<vars, restarted>>

Symmetry == Permutations(Codes)

(* While the process lives, whatever writes fail, overlapping registrations *)
(* use a code at most MaxRegs - 1 times too often.  (A process that ends    *)
(* between storeCreate and the write of the codes forgets the use.)         *)
OveruseIsBounded ==
  ~restarted => \A c \in Codes : created[c] > 0 => created[c] < totals[c] + MaxRegs
=============================================================================
