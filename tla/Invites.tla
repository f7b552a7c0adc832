------------------------------ MODULE Invites ------------------------------
(***************************************************************************)
(* Invitation codes and the registrations that use them (src/src/index.ts: *)
(* loadInvites, persistInvites, performRegister, inviteCreate,             *)
(* inviteRevoke).                                                          *)
(*                                                                         *)
(* The codes are one credentials record, rewritten as a whole after each   *)
(* change of the map state.invites; the copies handed to the service are   *)
(* the sequence writes, executed in the order of the calls.  A write may   *)
(* be rejected, and one that is rejected, or under way when the process    *)
(* ends, may still have reached the disk.                                  *)
(*                                                                         *)
(* A registration keeps the invitation it looked up while it awaits        *)
(* storeCreate.  Codes are drawn at random and never drawn twice, so that  *)
(* invitation is still in the map exactly if the code is.                  *)
(***************************************************************************)
EXTENDS Naturals, Sequences

CONSTANTS
  Codes,      \* invitation codes
  MaxUses,    \* largest number of uses of a code (100 in the code)
  None,       \* undefined
  MaxRegs,    \* bound: registrations in flight with one code
  MaxWrites,  \* bound: writes in flight when a handler starts
  MaxCreated, \* bound: accounts created with one code
  Restarts    \* whether the process may end

ASSUME InvitesAssumption ==
  /\ MaxUses \in Nat \ {0} /\ MaxRegs \in Nat \ {0} /\ MaxWrites \in Nat \ {0}
  /\ MaxCreated \in Nat /\ Restarts \in BOOLEAN

VARIABLES
  up,         \* state.ready
  invites,    \* state.invites
  disk,       \* the record dsh-auth/invites
  writes,     \* calls of writeRaw in flight, oldest first
  creating,   \* creating[c]: registrations with c that await storeCreate
  totals,     \* history: the uses c was created with, 0 before
  created,    \* history: accounts created with c
  answered,   \* history: registrations with c that were answered
  revoked     \* history: codes whose revocation was answered

vars == <<up, invites, disk, writes, creating, totals, created, answered, revoked>>

Invite == [total : 1..MaxUses, used : Nat]
Table == [Codes -> Invite \cup {None}]
Write == [table : Table, by : {"inviteCreate", "inviteRevoke", "register"}, codes : SUBSET Codes]
NoInvites == [c \in Codes |-> None]
Zero == [c \in Codes |-> 0]

TypeOK ==
  /\ up \in BOOLEAN
  /\ invites \in Table /\ disk \in Table
  /\ writes \in Seq(Write)
  /\ creating \in [Codes -> Nat] /\ created \in [Codes -> Nat] /\ answered \in [Codes -> Nat]
  /\ totals \in [Codes -> 0..MaxUses]
  /\ revoked \subseteq Codes

Init ==
  /\ up = FALSE
  /\ invites = NoInvites /\ disk = NoInvites
  /\ writes = <<>>
  /\ creating = Zero /\ totals = Zero /\ created = Zero /\ answered = Zero
  /\ revoked = {}

-----------------------------------------------------------------------------
(* The map changes, and persistInvites hands a copy of it to the service. *)
Save(table, by, codes) ==
  /\ invites' = table
  /\ writes' = Append(writes, [table |-> table, by |-> by, codes |-> codes])

Started == up /\ Len(writes) < MaxWrites

InviteCreate(codes, uses) ==
  /\ Started
  /\ codes # {} /\ \A c \in codes : totals[c] = 0
  /\ Save([c \in Codes |-> IF c \in codes THEN [total |-> uses, used |-> 0] ELSE invites[c]],
          "inviteCreate", codes)
  /\ totals' = [c \in Codes |-> IF c \in codes THEN uses ELSE totals[c]]
  /\ UNCHANGED <<up, disk, creating, created, answered, revoked>>

InviteRevoke(c) ==
  /\ Started
  /\ invites[c] # None
  /\ Save([invites EXCEPT ![c] = None], "inviteRevoke", {c})
  /\ UNCHANGED <<up, disk, creating, totals, created, answered, revoked>>

(* Variant: a used-up code admits one registration more. *)
RegisterOnceMore(c) ==
  /\ Started
  /\ creating[c] < MaxRegs
  /\ created[c] + creating[c] < MaxCreated
  /\ invites[c] # None /\ invites[c].used <= invites[c].total
  /\ creating' = [creating EXCEPT ![c] = @ + 1]
  /\ UNCHANGED <<up, invites, disk, writes, totals, created, answered, revoked>>

(* performRegister up to storeCreate. *)
Register(c) ==
  /\ Started
  /\ creating[c] < MaxRegs
  /\ created[c] + creating[c] < MaxCreated
  /\ invites[c] # None /\ invites[c].used < invites[c].total
  /\ creating' = [creating EXCEPT ![c] = @ + 1]
  /\ UNCHANGED <<up, invites, disk, writes, totals, created, answered, revoked>>

(* Variants: the copy is made before the use is counted; the invitation is  *)
(* put back into the map.                                                   *)
RegisteredSavedFirst(c) ==
  /\ creating[c] > 0
  /\ creating' = [creating EXCEPT ![c] = @ - 1]
  /\ created' = [created EXCEPT ![c] = @ + 1]
  /\ invites' = IF invites[c] = None THEN invites ELSE [invites EXCEPT ![c].used = @ + 1]
  /\ writes' = Append(writes, [table |-> invites, by |-> "register", codes |-> {c}])
  /\ UNCHANGED <<up, disk, totals, answered, revoked>>

RegisteredReinserted(c) ==
  /\ creating[c] > 0
  /\ creating' = [creating EXCEPT ![c] = @ - 1]
  /\ created' = [created EXCEPT ![c] = @ + 1]
  /\ Save([invites EXCEPT ![c] = IF @ = None THEN [total |-> totals[c], used |-> 1]
                                             ELSE [@ EXCEPT !.used = @ + 1]],
          "register", {c})
  /\ UNCHANGED <<up, disk, totals, answered, revoked>>

(* storeCreate answered: the account exists, or its name was taken. *)
Registered(c) ==
  /\ creating[c] > 0
  /\ creating' = [creating EXCEPT ![c] = @ - 1]
  /\ created' = [created EXCEPT ![c] = @ + 1]
  /\ Save(IF invites[c] = None THEN invites ELSE [invites EXCEPT ![c].used = @ + 1],
          "register", {c})
  /\ UNCHANGED <<up, disk, totals, answered, revoked>>

NameTaken(c) ==
  /\ creating[c] > 0
  /\ creating' = [creating EXCEPT ![c] = @ - 1]
  /\ UNCHANGED <<up, invites, disk, writes, totals, created, answered, revoked>>

-----------------------------------------------------------------------------
(* The credentials service executes the oldest write; its request is answered. *)
WriteDone ==
  /\ writes # <<>>
  /\ LET w == Head(writes) IN
       /\ disk' = w.table
       /\ answered' = IF w.by # "register" THEN answered
                      ELSE [c \in Codes |-> IF c \in w.codes THEN answered[c] + 1 ELSE answered[c]]
       /\ revoked' = IF w.by = "inviteRevoke" THEN revoked \cup w.codes ELSE revoked
  /\ writes' = Tail(writes)
  /\ UNCHANGED <<up, invites, creating, totals, created>>

WriteFails ==
  /\ writes # <<>>
  /\ disk' \in {disk, Head(writes).table}
  /\ writes' = Tail(writes)
  /\ UNCHANGED <<up, invites, creating, totals, created, answered, revoked>>

Boot ==
  /\ ~up /\ up' = TRUE
  /\ invites' = disk
  /\ UNCHANGED <<disk, writes, creating, totals, created, answered, revoked>>

Crash ==
  /\ Restarts
  /\ up /\ up' = FALSE
  /\ disk' \in IF writes = <<>> THEN {disk} ELSE {disk, Head(writes).table}
  /\ invites' = NoInvites /\ writes' = <<>> /\ creating' = Zero
  /\ UNCHANGED <<totals, created, answered, revoked>>

Next ==
  \/ \E codes \in SUBSET Codes, uses \in 1..MaxUses : InviteCreate(codes, uses)
  \/ \E c \in Codes : InviteRevoke(c) \/ Register(c) \/ Registered(c) \/ NameTaken(c)
  \/ WriteDone
  \/ WriteFails
  \/ Boot
  \/ Crash

Spec == Init /\ [][Next]_vars

-----------------------------------------------------------------------------
(* A registration that was answered is counted against its code, on the     *)
(* disk and in the map, whatever other changes of the codes were in flight  *)
(* with it, failed, or were cut short by a restart.                         *)
AnsweredUsesAreCounted ==
  \A c \in Codes :
    /\ disk[c] # None => disk[c].used >= answered[c]
    /\ up /\ invites[c] # None => invites[c].used >= answered[c]

(* A code whose revocation was answered never comes back. *)
RevokedStaysRevoked == \A c \in revoked : disk[c] = None /\ invites[c] = None

-----------------------------------------------------------------------------
(* The inductive invariant of AnsweredUsesAreCounted and RevokedStaysRevoked. *)
(* Uses(w, c): the uses of c the write w answers.                             *)
Uses(w, c) == IF w.by = "register" /\ c \in w.codes THEN 1 ELSE 0

(* A code nobody created yet is nowhere. *)
FreshCodes ==
  \A c \in Codes : totals[c] = 0 =>
    /\ disk[c] = None /\ invites[c] = None
    /\ answered[c] = 0 /\ creating[c] = 0 /\ c \notin revoked
    /\ \A i \in 1..Len(writes) : writes[i].table[c] = None /\ c \notin writes[i].codes

(* Every copy of a code counts what was answered, and what its own write    *)
(* will answer on top of it.                                                *)
CopiesCount ==
  \A c \in Codes :
    /\ disk[c] # None => disk[c].used >= answered[c]
    /\ invites[c] # None => invites[c].used >= answered[c]
    /\ \A i \in 1..Len(writes) :
         writes[i].table[c] # None => writes[i].table[c].used >= answered[c] + Uses(writes[i], c)

(* A later copy counts at least as much as an earlier one. *)
CopiesGrow ==
  \A c \in Codes : \A i \in 1..Len(writes) : writes[i].table[c] # None =>
    /\ invites[c] # None => invites[c].used >= writes[i].table[c].used
    /\ \A j \in i + 1..Len(writes) : writes[j].table[c] # None =>
         writes[j].table[c].used >= writes[i].table[c].used + Uses(writes[j], c)

(* A code that a write revoked, or no longer found, is in no later copy. *)
GoneIsGone ==
  \A c \in Codes : \A i \in 1..Len(writes) :
    c \in writes[i].codes /\ writes[i].table[c] = None =>
      /\ invites[c] = None
      /\ \A j \in i + 1..Len(writes) : writes[j].table[c] = None

RevocationsRemove ==
  \A i \in 1..Len(writes) : writes[i].by = "inviteRevoke" =>
    \A c \in writes[i].codes : writes[i].table[c] = None

RevokedIsNowhere ==
  \A c \in revoked :
    /\ disk[c] = None /\ invites[c] = None
    /\ \A i \in 1..Len(writes) : writes[i].table[c] = None

DownIsEmpty == ~up => writes = <<>> /\ invites = NoInvites /\ creating = Zero

IInv ==
  /\ TypeOK
  /\ FreshCodes
  /\ CopiesCount
  /\ CopiesGrow
  /\ GoneIsGone
  /\ RevocationsRemove
  /\ RevokedIsNowhere
  /\ DownIsEmpty
=============================================================================
