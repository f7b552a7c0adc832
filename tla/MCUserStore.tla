---------------------------- MODULE MCUserStore ----------------------------
(***************************************************************************)
(* The user table on a small instance: the invariants and the refinement   *)
(* of NameLifecycle that TLC checks, with history variables that tell      *)
(* whether the removal of an administrator ever overlapped another call or *)
(* took effect though it was rejected, and which deletion was broken off.  *)
(***************************************************************************)
EXTENDS UserStoreInv

VARIABLES
  contested,  \* history: a demotion or deletion was in flight with another call,
              \* or a demotion was rejected that took effect
  brokenOff   \* history: the names whose deletion the last step broke off

Removing ==
  \/ retiring # <<>>
  \/ \E n \in Users : \E i \in 1..Len(calls[n]) :
       calls[n][i].op = "setRole" /\ calls[n][i].role = "user"

(* Nothing else is in flight with the call of a demotion or deletion. *)
Single ==
  \/ Len(retiring) <= 1 /\ \A n \in Users : calls[n] = <<>>
  \/ /\ retiring = <<>>
     /\ \E n \in Users : Len(calls[n]) <= 1 /\ \A m \in Users \ {n} : calls[m] = <<>>

DemotedUnawares == \E n \in Admins : disk[n] # None /\ disk[n].role = "user"

MCInit == Init /\ contested = FALSE /\ brokenOff = {}
MCNext ==
  /\ Next
  /\ contested' = (contested \/ (Removing /\ ~Single)' \/ DemotedUnawares')
  /\ brokenOff' = {n \in Users : BreaksOff(n)}
MCSpec == MCInit /\ [][MCNext]_<<storeVars, contested, brokenOff>> /\ Answered

(* The checks of deleteUser and setRole keep an administrator, in any        *)
(* sequence of creations, deletions, changes of roles, rejected calls and    *)
(* restarts, as long as no other call is in flight with a demotion or        *)
(* deletion and no demotion is rejected that took effect.  (Any other call   *)
(* will do to break it: one on the deleted administrator puts him back into  *)
(* the map, where adminCount takes him for one that can be spared for, as it *)
(* does an administrator whose record no longer says so.)                    *)
AdminRemainsUnlessContested == ~contested => AdminRemains

(* Deleting a user, once begun, removes the record, unless the process ends  *)
(* in between or the service rejects a call of that deletion.                *)
DeletionCompletes ==
  \A n \in Users :
    (\E i \in 1..Len(retiring) : retiring[i] = n) ~>
      (phase = "down" \/ Gone(n) \/ n \in brokenOff)
=============================================================================
