----------------------------- MODULE MCAccounts -----------------------------
(***************************************************************************)
(* What the two tables guarantee together, on a small instance.            *)
(***************************************************************************)
EXTENDS Accounts, TLC

Symmetry == Permutations(Tokens)

(* The deletion of n has been answered: its record is gone for good. *)
Deleted(n) == n \in retiredDisk /\ disk[n] = None

(* README.md:245 and docs/SECURITY.md:43-44: after the deletion of a user    *)
(* nobody is logged in under that name.  The code keeps that promise unless  *)
(* a change of the record was in flight when the tombstone was written.  (A  *)
(* deletion whose deleteRecord is rejected was not answered; but the name    *)
(* has left the map, so nobody is logged in under it either.)                *)
DeletedUserIsOutUnlessRaced ==
  \A t \in Tokens : LoggedIn(t) => ~Deleted(Principal(t)) \/ Principal(t) \in raced

(* No session outlives the password it was opened under: one that is older   *)
(* than the password ends when every request that changed the password has   *)
(* been answered, whatever logins and changes raced and in whatever order    *)
(* the writes of the sessions file land, and does not come back with a       *)
(* restart (README.md:245).  A change that is rejected counts as none, even  *)
(* if it took effect.  Two exceptions: the process ends before the sessions  *)
(* are invalidated, or with the file not written or overwritten by an older  *)
(* table (see Stop), and a registration opens its session after its password *)
(* has been changed.                                                         *)
OldPasswordIsOut ==
  \A t \in outdated :
    LoggedIn(t) => \/ \E c \in changing : c.user = Principal(t)
                   \/ Principal(t) \in overtaken
=============================================================================
