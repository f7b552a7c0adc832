----------------------------- MODULE UserStore -----------------------------
(***************************************************************************)
(* The user table of the gateway (src/src/index.ts: buildStore, store*,    *)
(* bootstrap, init and the RPC handlers that change accounts).             *)
(*                                                                         *)
(* The table lives twice: as grant records of the host's credentials       *)
(* service (disk, retiredDisk) and as the maps state.users and             *)
(* state.retiredUsers that every request reads.  A handler runs without    *)
(* interruption up to its first await; the credentials call it then makes  *)
(* is an element of a queue, and the step that takes it from there does    *)
(* what the service does and what the code after the await does up to the  *)
(* next one.  The service is not part of the repository: it is taken to    *)
(* execute the calls on one record in the order they were made, each as a  *)
(* whole ("compare-and-set writer", src/src/index.ts:173), and to promise  *)
(* nothing about calls on different records.  It may reject a call, before *)
(* or after it took effect: the code after the await is then skipped.      *)
(***************************************************************************)
EXTENDS Naturals, Sequences, FiniteSetsExt

CONSTANTS
  Users,        \* user names
  Bootstrap,    \* the name bootstrap() gives the first administrator
  Passwords,    \* {salt, hash, iterations} triples, told apart only by identity
  Tokens,       \* session tokens (a changePassword call remembers its own)
  None,         \* undefined
  MaxPending,   \* bound: credentials calls in flight when a handler starts
  MaxUnsure     \* bound: names whose record a rejected call changed, at a time

Roles == {"admin", "user"}
Record == [role : Roles, pw : Passwords]

ASSUME UserStoreAssumption ==
  /\ Bootstrap \in Users
  /\ Passwords # {}
  /\ None \notin Record
  /\ MaxUnsure \in Nat

VARIABLES
  phase,        \* "down" (no process) or "ready" (init has resolved)
  disk,         \* the record dsh-auth/<name>, or None
  retiredDisk,  \* the record dsh-auth/retired-users
  users,        \* state.users
  retiredUsers, \* state.retiredUsers
  calls,        \* calls[n]: calls in flight on the record of n, oldest first
  retiring,     \* names of the calls in flight on retired-users, oldest first
  unsure        \* history: names without a tombstone whose record a rejected
                \* call changed all the same

serviceVars == <<disk, retiredDisk>>
storeVars == <<phase, serviceVars, users, retiredUsers, calls, retiring, unsure>>

Call ==
       [op : {"create"}, rec : Record, joins : BOOLEAN]   \* joins: made by a registration
  \cup [op : {"setRole"}, role : Roles]
  \cup [op : {"setPassword"}, pw : Passwords, via : Tokens \cup {None}]
  \cup [op : {"touch"}]
  \cup [op : {"delete"}]

TypeOK ==
  /\ phase \in {"down", "ready"}
  /\ disk \in [Users -> Record \cup {None}]
  /\ users \in [Users -> Record \cup {None}]
  /\ retiredDisk \subseteq Users
  /\ retiredUsers \subseteq Users
  /\ calls \in [Users -> Seq(Call)]
  /\ retiring \in Seq(Users)
  /\ unsure \subseteq Users

-----------------------------------------------------------------------------
NoUsers == [n \in Users |-> None]

Init ==
  /\ phase = "down"
  /\ disk = NoUsers /\ users = NoUsers
  /\ retiredDisk = {} /\ retiredUsers = {}
  /\ calls = [n \in Users |-> <<>>]
  /\ retiring = <<>> /\ unsure = {}

IsAdmin(n) == users[n] # None /\ users[n].role = "admin"
Admins == {n \in Users : IsAdmin(n)}

(* Variant: an administrator is refused only when none is left. *)
NoAdminLeft(n) == Admins = {}

LastAdmin(n) == Admins = {n}

(* args.role === 'admin' ? 'admin' : 'user' *)
RoleOf(arg) == IF arg = "admin" THEN "admin" ELSE "user"

(* No handler is started while MaxPending calls are in flight. *)
InFlight(n) == Len(calls[n])
Idle == Len(retiring) + MapThenSumSet(InFlight, Users) < MaxPending

Send(n, call) == calls' = [calls EXCEPT ![n] = Append(@, call)]

-----------------------------------------------------------------------------
(* bootstrap(): what its storeCreate makes of the records. *)
Bootstrapped(pw) ==
  IF disk = NoUsers /\ Bootstrap \notin retiredDisk
  THEN [disk EXCEPT ![Bootstrap] = [role |-> "admin", pw |-> pw]]
  ELSE disk

(* init(): load every record, then the tombstones, then bootstrap().  No    *)
(* handler runs before state.ready, so nothing interleaves with it.         *)
Boot ==
  /\ phase = "down"
  /\ phase' = "ready"
  /\ retiredUsers' = retiredDisk
  /\ \E pw \in Passwords : disk' = Bootstrapped(pw)
  /\ users' = disk'
  /\ UNCHANGED <<retiredDisk, calls, retiring, unsure>>

(* A credentials call of init() is rejected: state.fatal, never ready. *)
InitFails ==
  /\ phase = "down"
  /\ \/ UNCHANGED disk
     \/ \E pw \in Passwords : disk' = Bootstrapped(pw)
  /\ UNCHANGED <<phase, retiredDisk, users, retiredUsers, calls, retiring, unsure>>

(* The process ends; the calls it had in flight never take effect. *)
Crash ==
  /\ phase = "ready"
  /\ phase' = "down"
  /\ users' = NoUsers /\ retiredUsers' = {}
  /\ calls' = [n \in Users |-> <<>>] /\ retiring' = <<>> /\ unsure' = {}
  /\ UNCHANGED serviceVars

-----------------------------------------------------------------------------
(* The handlers, up to their first await. *)

(* Variant: a name with a tombstone is accepted. *)
CreateAnyUser(who, n, role, pw) ==
  /\ phase = "ready" /\ Idle
  /\ IsAdmin(who)
  /\ Send(n, [op |-> "create", rec |-> [role |-> RoleOf(role), pw |-> pw], joins |-> FALSE])
  /\ UNCHANGED <<phase, serviceVars, users, retiredUsers, retiring, unsure>>

CreateUser(who, n, role, pw) ==
  /\ phase = "ready" /\ Idle
  /\ IsAdmin(who)
  /\ n \notin retiredUsers
  /\ Send(n, [op |-> "create", rec |-> [role |-> RoleOf(role), pw |-> pw], joins |-> FALSE])
  /\ UNCHANGED <<phase, serviceVars, users, retiredUsers, retiring, unsure>>

(* performRegister: somebody with an invitation (module Invites). *)
Register(n, pw) ==
  /\ phase = "ready" /\ Idle
  /\ users[n] = None
  /\ n \notin retiredUsers
  /\ Send(n, [op |-> "create", rec |-> [role |-> "user", pw |-> pw], joins |-> TRUE])
  /\ UNCHANGED <<phase, serviceVars, users, retiredUsers, retiring, unsure>>

DeleteUser(who, n) ==
  /\ phase = "ready" /\ Idle
  /\ IsAdmin(who)
  /\ users[n] # None
  /\ n # who
  /\ ~LastAdmin(n)
  /\ retiring' = Append(retiring, n)
  /\ UNCHANGED <<phase, serviceVars, users, retiredUsers, calls, unsure>>

SetRole(who, n, role) ==
  /\ phase = "ready" /\ Idle
  /\ IsAdmin(who)
  /\ users[n] # None
  /\ ~(LastAdmin(n) /\ RoleOf(role) # "admin")
  /\ Send(n, [op |-> "setRole", role |-> RoleOf(role)])
  /\ UNCHANGED <<phase, serviceVars, users, retiredUsers, retiring, unsure>>

(* The old password of n is verified by n itself; via is its cookie token. *)
ChangePassword(n, pw, via) ==
  /\ phase = "ready" /\ Idle
  /\ users[n] # None
  /\ Send(n, [op |-> "setPassword", pw |-> pw, via |-> via])
  /\ UNCHANGED <<phase, serviceVars, users, retiredUsers, retiring, unsure>>

ResetPassword(who, n, pw) ==
  /\ phase = "ready" /\ Idle
  /\ IsAdmin(who)
  /\ users[n] # None
  /\ Send(n, [op |-> "setPassword", pw |-> pw, via |-> None])
  /\ UNCHANGED <<phase, serviceVars, users, retiredUsers, retiring, unsure>>

(* Any other change of a field of the record: the login counter of a        *)
(* passkey, and the second-factor fields that module TwoFactor models.  A   *)
(* handler that awaited something since it read the record may find the     *)
(* name retired.                                                            *)
Touch(n) ==
  /\ phase = "ready" /\ Idle
  /\ users[n] # None \/ n \in retiredUsers
  /\ Send(n, [op |-> "touch"])
  /\ UNCHANGED <<phase, serviceVars, users, retiredUsers, retiring, unsure>>

-----------------------------------------------------------------------------
(* The credentials service and the code after the await. *)

Write(n, rec) ==
  /\ disk' = [disk EXCEPT ![n] = rec]
  /\ users' = [users EXCEPT ![n] = rec]
  /\ unsure' = unsure \ {n}

Take(n, op) ==
  /\ calls[n] # <<>>
  /\ Head(calls[n]).op = op
  /\ calls' = [calls EXCEPT ![n] = Tail(@)]

(* Variant: the map is set although the service refused the record. *)
FinishCreateUnchecked(n) ==
  /\ Take(n, "create")
  /\ disk' = IF disk[n] = None THEN [disk EXCEPT ![n] = Head(calls[n]).rec] ELSE disk
  /\ users' = [users EXCEPT ![n] = Head(calls[n]).rec]
  /\ UNCHANGED <<phase, retiredDisk, retiredUsers, retiring, unsure>>

FinishCreate(n) ==
  /\ Take(n, "create")
  /\ IF disk[n] = None THEN Write(n, Head(calls[n]).rec)
                       ELSE UNCHANGED <<disk, users, unsure>>
  /\ UNCHANGED <<phase, retiredDisk, retiredUsers, retiring>>

FinishSetRole(n) ==
  /\ Take(n, "setRole")
  /\ IF disk[n] # None
     THEN Write(n, [disk[n] EXCEPT !.role = Head(calls[n]).role])
     ELSE UNCHANGED <<disk, users, unsure>>
  /\ UNCHANGED <<phase, retiredDisk, retiredUsers, retiring>>

FinishSetPassword(n) ==
  /\ Take(n, "setPassword")
  /\ IF disk[n] # None
     THEN Write(n, [disk[n] EXCEPT !.pw = Head(calls[n]).pw])
     ELSE UNCHANGED <<disk, users, unsure>>
  /\ UNCHANGED <<phase, retiredDisk, retiredUsers, retiring>>

FinishTouch(n) ==
  /\ Take(n, "touch")
  /\ IF disk[n] # None THEN Write(n, disk[n]) ELSE UNCHANGED <<disk, users, unsure>>
  /\ UNCHANGED <<phase, retiredDisk, retiredUsers, retiring>>

(* Variants: the record is not deleted; the map keeps the user. *)
FinishRetireOnly ==
  /\ retiring # <<>>
  /\ retiredDisk' = retiredDisk \cup {Head(retiring)}
  /\ retiredUsers' = retiredUsers \cup {Head(retiring)}
  /\ users' = [users EXCEPT ![Head(retiring)] = None]
  /\ retiring' = Tail(retiring)
  /\ UNCHANGED <<phase, disk, calls, unsure>>

FinishRetireOnDisk ==
  /\ retiring # <<>>
  /\ retiredDisk' = retiredDisk \cup {Head(retiring)}
  /\ retiredUsers' = retiredUsers \cup {Head(retiring)}
  /\ Send(Head(retiring), [op |-> "delete"])
  /\ retiring' = Tail(retiring)
  /\ UNCHANGED <<phase, disk, users, unsure>>

(* remove(): the tombstone is durable, the maps follow, deleteRecord is called. *)
FinishRetire ==
  /\ retiring # <<>>
  /\ LET n == Head(retiring)
     IN /\ retiredDisk' = retiredDisk \cup {n}
        /\ retiredUsers' = retiredUsers \cup {n}
        /\ users' = [users EXCEPT ![n] = None]
        /\ Send(n, [op |-> "delete"])
        /\ unsure' = unsure \ {n}
  /\ retiring' = Tail(retiring)
  /\ UNCHANGED <<phase, disk>>

FinishDelete(n) ==
  /\ Take(n, "delete")
  /\ disk' = [disk EXCEPT ![n] = None]
  /\ UNCHANGED <<phase, retiredDisk, users, retiredUsers, retiring, unsure>>

-----------------------------------------------------------------------------
(* The service rejects the call: the handler throws at the await, and the   *)
(* maps stay as they are, whether or not the record changed.                *)

(* What the call makes of the record of n. *)
Effect(n, call) ==
  CASE call.op = "create" -> IF disk[n] = None THEN call.rec ELSE disk[n]
    [] call.op = "setRole" -> IF disk[n] = None THEN None ELSE [disk[n] EXCEPT !.role = call.role]
    [] call.op = "setPassword" -> IF disk[n] = None THEN None ELSE [disk[n] EXCEPT !.pw = call.pw]
    [] call.op = "touch" -> disk[n]
    [] call.op = "delete" -> None

RejectCall(n) ==
  /\ calls[n] # <<>>
  /\ calls' = [calls EXCEPT ![n] = Tail(@)]
  /\ \/ UNCHANGED <<disk, unsure>>
     \/ /\ disk' = [disk EXCEPT ![n] = Effect(n, Head(calls[n]))]
        /\ unsure' = IF disk' = disk \/ n \in retiredUsers THEN unsure ELSE unsure \cup {n}
        /\ Cardinality(unsure') <= MaxUnsure
  /\ UNCHANGED <<phase, retiredDisk, users, retiredUsers, retiring>>

(* No delete follows: the account stays, perhaps with a tombstone on disk. *)
RejectRetire ==
  /\ retiring # <<>> /\ retiring' = Tail(retiring)
  /\ \/ UNCHANGED retiredDisk
     \/ retiredDisk' = retiredDisk \cup {Head(retiring)}
  /\ UNCHANGED <<phase, disk, users, retiredUsers, calls, unsure>>

-----------------------------------------------------------------------------
Request(n) ==
  \/ \E who \in Users :
       \/ DeleteUser(who, n)
       \/ \E role \in Roles \cup {"owner"} : SetRole(who, n, role)
       \/ \E role \in Roles \cup {"owner"}, pw \in Passwords : CreateUser(who, n, role, pw)
       \/ \E pw \in Passwords : ResetPassword(who, n, pw)
  \/ \E pw \in Passwords, via \in Tokens : ChangePassword(n, pw, via)
  \/ \E pw \in Passwords : Register(n, pw)
  \/ Touch(n)

Finish(n) ==
  \/ FinishCreate(n)
  \/ FinishSetRole(n)
  \/ FinishSetPassword(n)
  \/ FinishTouch(n)
  \/ FinishDelete(n)

Next ==
  \/ Boot
  \/ InitFails
  \/ Crash
  \/ \E n \in Users : Request(n) \/ Finish(n) \/ RejectCall(n)
  \/ FinishRetire
  \/ RejectRetire

Spec == Init /\ [][Next]_storeVars

(* A credentials call that was made is answered or rejected while the       *)
(* process lives.                                                           *)
Answered ==
  /\ WF_storeVars(FinishRetire \/ RejectRetire)
  /\ \A n \in Users : WF_storeVars(Finish(n) \/ RejectCall(n))
=============================================================================
