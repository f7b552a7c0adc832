----------------------------- MODULE Ownership -----------------------------
(***************************************************************************)
(* Who owns a host session or workspace (src/src/index.ts: loadOwnership,  *)
(* persistOwnership, claimOwner).                                          *)
(*                                                                         *)
(* The ownership tables are one credentials record, rewritten as a whole   *)
(* by each claim.  Claims run one after the other on a promise chain; the  *)
(* write may be rejected, and a rejected write may still have reached the  *)
(* disk, as may one cut short by the end of the process.                   *)
(***************************************************************************)
EXTENDS Naturals, Sequences

CONSTANTS
  Users,      \* user names
  Default,    \* the owner of an object that nobody claimed
  Objects,    \* ids of host sessions and workspaces
  None,       \* undefined
  MaxQueue    \* bound: claims waiting on the chain

(* A claim whose write is in progress: the owner it saw is its previous. *)
Write == [id : Objects, user : Users, previous : Users \cup {None}]

ASSUME OwnershipAssumption == Default \in Users /\ None \notin Users \cup Write

VARIABLES
  up,         \* state.ready
  known,      \* the names in state.users
  disk,       \* the record dsh-auth/ownership
  owners,     \* state.owners
  queue,      \* claims on the chain ownershipWrites that have not begun
  writing,    \* the claim that awaits persistOwnership, or None
  acked       \* history: the owner whose claim of an object was answered, or None

vars == <<up, known, disk, owners, queue, writing, acked>>

Claim == [id : Objects, user : Users]
Owners == [Objects -> Users \cup {None}]
Nobody == [o \in Objects |-> None]

TypeOK ==
  /\ up \in BOOLEAN
  /\ known \subseteq Users
  /\ disk \in Owners /\ owners \in Owners /\ acked \in Owners
  /\ queue \in Seq(Claim)
  /\ writing \in Write \cup {None}

Init ==
  /\ up = FALSE /\ known = Users
  /\ disk = Nobody /\ owners = Nobody /\ acked = Nobody
  /\ queue = <<>> /\ writing = None

(* ownerOfSession, ownerOfWorkspace *)
OwnerOf(o) == IF owners[o] = None THEN Default ELSE owners[o]

-----------------------------------------------------------------------------
(* claimOwner, up to the chain.  The bound keeps one copy of a claim on it. *)
ClaimOwner(c) ==
  /\ up
  /\ Len(queue) < MaxQueue
  /\ \A i \in 1..Len(queue) : queue[i] # c
  /\ queue' = Append(queue, c)
  /\ UNCHANGED <<up, known, disk, owners, writing, acked>>

(* Variant: a claim of somebody else's object is not refused. *)
RefusedUnknown(c) == c.user \notin known

Refused(c) == c.user \notin known \/ owners[c.id] \notin {None, c.user}

(* Variant: a claim of somebody else's object neither fails nor begins. *)
RefuseUnknownOnly ==
  /\ writing = None
  /\ queue # <<>>
  /\ Head(queue).user \notin known
  /\ queue' = Tail(queue)
  /\ UNCHANGED <<up, known, disk, owners, writing, acked>>

(* The next claim of the chain throws before it changes anything. *)
RefuseClaim ==
  /\ writing = None
  /\ queue # <<>>
  /\ Refused(Head(queue))
  /\ queue' = Tail(queue)
  /\ UNCHANGED <<up, known, disk, owners, writing, acked>>

BeginClaim ==
  /\ writing = None
  /\ queue # <<>>
  /\ ~Refused(Head(queue))
  /\ LET c == Head(queue) IN
       /\ owners' = [owners EXCEPT ![c.id] = c.user]
       /\ writing' = [id |-> c.id, user |-> c.user, previous |-> owners[c.id]]
  /\ queue' = Tail(queue)
  /\ UNCHANGED <<up, known, disk, acked>>

ClaimPersisted ==
  /\ writing # None
  /\ disk' = owners
  /\ acked' = [acked EXCEPT ![writing.id] = writing.user]
  /\ writing' = None
  /\ UNCHANGED <<up, known, owners, queue>>

(* Variant: the rollback also removes an owner that was there before. *)
ClaimFailsBlindly ==
  /\ writing # None
  /\ disk' \in {disk, owners}
  /\ owners' = [owners EXCEPT ![writing.id] = None]
  /\ writing' = None
  /\ UNCHANGED <<up, known, queue, acked>>

ClaimFails ==
  /\ writing # None
  /\ disk' \in {disk, owners}
  /\ owners' = IF writing.previous = None THEN [owners EXCEPT ![writing.id] = None] ELSE owners
  /\ writing' = None
  /\ UNCHANGED <<up, known, queue, acked>>

-----------------------------------------------------------------------------
RemoveUser(u) ==
  /\ up /\ u \in known
  /\ known' = known \ {u}
  /\ UNCHANGED <<up, disk, owners, queue, writing, acked>>

Boot ==
  /\ ~up /\ up' = TRUE
  /\ owners' = disk
  /\ UNCHANGED <<known, disk, queue, writing, acked>>

Crash ==
  /\ up /\ up' = FALSE
  /\ disk' \in IF writing = None THEN {disk} ELSE {disk, owners}
  /\ owners' = Nobody /\ queue' = <<>> /\ writing' = None
  /\ UNCHANGED <<known, acked>>

Settle == RefuseClaim \/ BeginClaim \/ ClaimPersisted \/ ClaimFails

Next ==
  \/ \E c \in Claim : ClaimOwner(c)
  \/ Settle
  \/ \E u \in Users : RemoveUser(u)
  \/ Boot
  \/ Crash

Spec == Init /\ [][Next]_vars

-----------------------------------------------------------------------------
(* A claim that was answered is on the disk and stays there, and while the  *)
(* process runs it is what every access check reads: no later claim, failed *)
(* write or restart gives the object to somebody else.                      *)
ClaimsAreDurable ==
  \A o \in Objects : acked[o] # None =>
    /\ disk[o] = acked[o]
    /\ up => OwnerOf(o) = acked[o]

(* An object is claimed once.  *)
ClaimsAreFinal ==
  [][\A o \in Objects : acked[o] # None => acked'[o] = acked[o]]_vars

-----------------------------------------------------------------------------
(* The inductive invariant of ClaimsAreDurable and ClaimsAreFinal. *)
WriteInProgress ==
  writing # None =>
    /\ up
    /\ owners[writing.id] = writing.user
    /\ writing.previous \in {None, writing.user}
    /\ writing.previous = None => acked[writing.id] = None

AckedIsKept ==
  \A o \in Objects : acked[o] # None =>
    /\ disk[o] = acked[o]
    /\ up => owners[o] = acked[o]

DownIsEmpty == ~up => queue = <<>> /\ writing = None

IInv == TypeOK /\ WriteInProgress /\ AckedIsKept /\ DownIsEmpty
=============================================================================
