---------------------------- MODULE UserStoreInv ----------------------------
(***************************************************************************)
(* The correctness properties of the user table and the inductive          *)
(* invariant behind them.                                                  *)
(***************************************************************************)
EXTENDS UserStore

Live(n) == disk[n] # None
Pending(n, op) == \E i \in 1..Len(calls[n]) : calls[n][i].op = op

(* A name without a tombstone: what requests read is what a restart would   *)
(* load, also while calls on it are in flight, and after a call that was    *)
(* rejected though it changed the record it is so again with the next       *)
(* change.  For a retired name this is false: see module MCAccounts.        *)
MemoryMatchesDisk ==
  phase = "ready" => \A n \in Users \ (retiredUsers \cup unsure) : users[n] = disk[n]

(* A user of the map without a tombstone has a record: only deletions take  *)
(* one away.                                                                *)
KnownAreLive ==
  phase = "ready" => \A n \in Users \ retiredUsers : users[n] # None => Live(n)

(* The tombstones the process knows are durable.  One it does not know was  *)
(* written by a call that was rejected: its account is still there, so that *)
(* the refusal to recreate the name (create, storeCreate) can do without.   *)
TombstonesKnown ==
  phase = "ready" =>
    /\ retiredUsers \subseteq retiredDisk
    /\ \A n \in retiredDisk \ retiredUsers : Live(n)

(* Every deletion in progress is of an account whose record exists or which *)
(* another deletion has already retired.                                    *)
RetireTargets == \A i \in 1..Len(retiring) : retiring[i] \in retiredDisk \/ Live(retiring[i])

(* The record of a retired name is removed only after the creations that    *)
(* were in flight when it was retired: none can write the name again.       *)
CreatesBeforeDeletes ==
  \A n \in Users : \A i, j \in 1..Len(calls[n]) :
    (i < j /\ calls[n][i].op = "delete") => calls[n][j].op # "create"

NoRebirthInFlight ==
  \A n \in retiredDisk : Pending(n, "create") => Live(n)

DeletesAreOfRetired == \A n \in Users : Pending(n, "delete") => n \in retiredUsers

DownIsEmpty == phase = "down" => retiring = <<>> /\ \A n \in Users : calls[n] = <<>>

IInv ==
  /\ TypeOK
  /\ DownIsEmpty
  /\ TombstonesKnown
  /\ MemoryMatchesDisk
  /\ KnownAreLive
  /\ RetireTargets
  /\ CreatesBeforeDeletes
  /\ NoRebirthInFlight
  /\ DeletesAreOfRetired

-----------------------------------------------------------------------------
Lifecycle == INSTANCE NameLifecycle
  WITH Names <- Users, Values <- Record,
       record <- disk, spent <- {n \in retiredDisk : ~Live(n)}

(* The table implements the life cycle of names: no interleaving of         *)
(* creations, deletions, other changes and restarts writes a record for a   *)
(* name whose record was deleted (docs/SECURITY.md:47, README.md:351-353).       *)
NamesAreNeverReused == Lifecycle!Spec

(* README.md:126: the last administrator can be neither deleted nor demoted. *)
AdminRemains == phase = "ready" => Admins # {}

(* A deletion waits for its tombstone, then for its record.  No handler, no *)
(* answer and no other deletion of the same name drops it on the way: only  *)
(* a rejection of one of its own two calls (after which the account stays,  *)
(* or its record does) and the end of the process do.  Once the record of a *)
(* retired name is gone it stays gone, over restarts and rejections too     *)
(* (index.ts:827-835).                                                      *)
Underway(n) == (\E i \in 1..Len(retiring) : retiring[i] = n) \/ Pending(n, "delete")
Gone(n) == n \in retiredDisk /\ ~Live(n)
BreaksOff(n) ==
  \/ RejectRetire /\ Head(retiring) = n
  \/ RejectCall(n) /\ Head(calls[n]).op = "delete"
DeletionStep ==
  \A n \in Users :
    /\ Underway(n) => (Underway(n) \/ Gone(n) \/ phase = "down")' \/ BreaksOff(n)
    /\ Gone(n) => Gone(n)'
DeletionIsKept == [][DeletionStep]_storeVars
=============================================================================
