------------------------------- MODULE Shares -------------------------------
(***************************************************************************)
(* Model profiles that one owner shares with other users                   *)
(* (src/src/profile-service.ts: createShared, grantShare, revokeShare,     *)
(* selectShare; src/src/model-profiles.ts).                                *)
(*                                                                         *)
(* A shared profile is sealed under the master key of the server, which is *)
(* drawn when it is first needed and then kept in memory.                  *)
(* A grant is in two records: the owner's table of grants and the user's   *)
(* list of received shares.  Both, the list of shared profiles and the     *)
(* user's default are rewritten as a whole by handlers that await between  *)
(* the read and the write, and any read or write may be rejected.          *)
(***************************************************************************)

CONSTANTS
  Users,   \* uids with whom profiles are shared
  Ids,     \* ids of shared profiles
  Calls,   \* bound: handlers in progress at a time
  Keys,    \* master keys the random source can give
  None     \* undefined

VARIABLES
  shared,    \* the owner's record profile-shared: the key each profile is sealed under, or None
  grants,    \* the owner's record profile-grants: an entry per user, or None
  received,  \* received[u]: the record profile-received of u
  default,   \* default[u]: the share that profile-default of u names, or None
  stored,    \* the record profile-master: a key, or None
  master,    \* ProfileService.master: a key, or None
  calls,     \* calls[c]: a handler in progress, or None
  created,   \* history: ids whose creation was answered
  granted,   \* history: <<u, i>> whose grant was answered, and no revocation asked for since
  revoked,   \* history: <<u, i>> whose revocation was answered, and no grant asked for since
  stale,     \* history: the records that a handler wrote over a change it had not read
  crossed,   \* history: <<u, i>> with a grant and a revocation in progress at once
  rekeyed    \* history: a master key was written over another

records == <<shared, grants, received, default>>
keyVars == <<stored, master, rekeyed>>
answered == <<created, granted, revoked, stale, crossed>>
vars == <<records, keyVars, calls, answered>>

Share == Users \X Ids
Table == [Users -> (SUBSET Ids) \cup {None}]
NoGrants == [u \in Users |-> None]
List == [Ids -> Keys \cup {None}]
NoShares == [i \in Ids |-> None]
Listed == {i \in Ids : shared[i] # None}
Records == {"shared", "grants", "received", "default"}

(* A handler, the record it reads (step "read") or writes next, what it read *)
(* of it, and the key of a creation.                                        *)
CallOf(ops, files, copies) ==
  [op : ops, record : files, step : {"read", "write"}, user : Users, id : Ids,
   copy : copies, key : Keys \cup {None}]
Call ==
  CallOf({"create"}, {"master", "shared"}, List) \cup
  CallOf({"grant", "revoke"}, {"grants"}, Table) \cup
  CallOf({"grant", "revoke", "select"}, {"received"}, SUBSET Ids) \cup
  CallOf({"select"}, {"default"}, SUBSET Ids) \cup
  CallOf({"revoke"}, {"default"}, Ids \cup {None})

ASSUME SharesAssumption == None \notin Ids \cup Keys \cup Call /\ \A list \in SUBSET Ids : list # None

TypeOK ==
  /\ shared \in List /\ grants \in Table
  /\ received \in [Users -> SUBSET Ids]
  /\ default \in [Users -> Ids \cup {None}]
  /\ calls \in [Calls -> Call \cup {None}]
  /\ created \subseteq Ids /\ granted \cup revoked \cup crossed \subseteq Share
  /\ stale \subseteq Records
  /\ {stored, master} \subseteq Keys \cup {None}
  /\ rekeyed \in BOOLEAN

Init ==
  /\ shared = NoShares /\ grants = NoGrants
  /\ received = [u \in Users |-> {}] /\ default = [u \in Users |-> None]
  /\ calls = [c \in Calls |-> None]
  /\ created = {} /\ granted = {} /\ revoked = {} /\ stale = {} /\ crossed = {}
  /\ stored = None /\ master = None
  /\ rekeyed = FALSE

-----------------------------------------------------------------------------
Begin(c, call) == calls[c] = None /\ calls' = [calls EXCEPT ![c] = call]
End(c) == calls' = [calls EXCEPT ![c] = None]
At(c, op, record, step) ==
  calls[c] # None /\ calls[c].op = op /\ calls[c].record = record /\ calls[c].step = step

(* The handler goes on to another record, or from its read to its write. *)
Proceed(c, record, step, copy, key) ==
  calls' = [calls EXCEPT ![c] =
    [op |-> calls[c].op, record |-> record, step |-> step, user |-> calls[c].user, id |-> calls[c].id,
     copy |-> copy, key |-> key]]
GoTo(c, record, empty) == Proceed(c, record, "read", empty, calls[c].key)
GotCopy(c, copy) == Proceed(c, calls[c].record, "write", copy, calls[c].key)

NoteStale(record, changed) == stale' = IF changed THEN stale \cup {record} ELSE stale

(* A grant and a revocation of one share that overlap may take effect in    *)
(* either order: neither counts.                                            *)
On(ops, u, i) == {c \in Calls : calls[c] # None /\ calls[c].op \in ops /\ calls[c].user = u /\ calls[c].id = i}
NoteCrossing(op, u, i) ==
  crossed' = CASE On({"grant", "revoke"} \ {op}, u, i) # {} -> crossed \cup {<<u, i>>}
               [] On({"grant", "revoke"}, u, i) = {} -> crossed \ {<<u, i>>}
               [] OTHER -> crossed
Answered(earlier, call) == earlier \cup ({<<call.user, call.id>>} \ crossed)
AnswerGrant(call) == granted' = Answered(granted, call)
AnswerRevocation(call) == revoked' = Answered(revoked, call)

InGrants(table, u) == IF table[u] = None THEN {} ELSE table[u]

-----------------------------------------------------------------------------
(* createShared draws an id and asks for the master key, which              *)
(* loadMasterKey reads, or draws and writes, if there is none in memory.    *)
CreateShared(c, u, i) ==
  /\ i \notin created \cup Listed
  /\ \A d \in Calls : calls[d] # None => calls[d].id # i
  /\ LET first == master = None
     IN Begin(c, [op |-> "create", record |-> IF first THEN "master" ELSE "shared",
                  step |-> IF first THEN "read" ELSE "write",
                  user |-> u, id |-> i, copy |-> IF first THEN NoShares ELSE shared, key |-> master])
  /\ UNCHANGED <<records, answered, keyVars>>

(* The profile is sealed under the key and the list is read. *)
GotKey(c, key) == Proceed(c, "shared", "write", shared, key)

(* A key drawn at random is not one that anything is sealed under. *)
Fresh ==
  Keys \ ({stored, master} \cup {shared[i] : i \in Ids}
            \cup {calls[d].key : d \in {d \in Calls : calls[d] # None /\ calls[d].op = "create"}})

(* Variant: the key is in use before it is written. *)
ReadMasterInUse(c) ==
  /\ At(c, "create", "master", "read")
  /\ IF stored # None
     THEN GotKey(c, stored) /\ master' = stored
     ELSE \E key \in Fresh :
            /\ Proceed(c, "master", "write", calls[c].copy, key)
            /\ master' = key
  /\ UNCHANGED <<records, answered, stored, rekeyed>>

ReadMaster(c) ==
  /\ At(c, "create", "master", "read")
  /\ IF stored # None
     THEN GotKey(c, stored) /\ master' = stored
     ELSE /\ \E key \in Fresh : Proceed(c, "master", "write", calls[c].copy, key)
          /\ UNCHANGED master
  /\ UNCHANGED <<records, answered, stored, rekeyed>>

WriteMaster(c) ==
  /\ At(c, "create", "master", "write")
  /\ stored' = calls[c].key /\ master' = calls[c].key
  /\ rekeyed' = (rekeyed \/ stored # None)
  /\ GotKey(c, calls[c].key)
  /\ UNCHANGED <<records, answered>>

(* resolveKeyForSession and the routes open a shared profile. *)
LoadMaster ==
  /\ Listed # {} /\ master = None
  /\ master' = stored
  /\ UNCHANGED <<records, answered, stored, rekeyed, calls>>

WriteShared(c) ==
  /\ At(c, "create", "shared", "write")
  /\ shared' = [calls[c].copy EXCEPT ![calls[c].id] = calls[c].key]
  /\ created' = created \cup {calls[c].id}
  /\ NoteStale("shared", shared # calls[c].copy)
  /\ End(c)
  /\ UNCHANGED <<grants, received, default, granted, revoked, crossed, stored, master, rekeyed>>

(* grantShare, once the profile was found in the owner's list. *)
GrantShare(c, u, i) ==
  /\ i \in Listed
  /\ Begin(c, [op |-> "grant", record |-> "grants", step |-> "read", user |-> u, id |-> i, copy |-> NoGrants,
              key |-> None])
  /\ revoked' = revoked \ {<<u, i>>}
  /\ NoteCrossing("grant", u, i)
  /\ UNCHANGED <<records, created, granted, stale, keyVars>>

RevokeShare(c, u, i) ==
  /\ Begin(c, [op |-> "revoke", record |-> "grants", step |-> "read", user |-> u, id |-> i, copy |-> NoGrants,
              key |-> None])
  /\ granted' = granted \ {<<u, i>>}
  /\ NoteCrossing("revoke", u, i)
  /\ UNCHANGED <<records, created, revoked, stale, keyVars>>

ReadGrants(c) ==
  /\ \E op \in {"grant", "revoke"} : At(c, op, "grants", "read")
  /\ IF calls[c].op = "revoke" /\ grants[calls[c].user] = None
     THEN GoTo(c, "received", {})
     ELSE GotCopy(c, grants)
  /\ UNCHANGED <<records, answered, keyVars>>

(* Variant: the entry of a user is replaced, not extended. *)
EntryReplaced(call) ==
  IF call.op = "grant" THEN {call.id} ELSE InGrants(call.copy, call.user) \ {call.id}

Entry(call) ==
  IF call.op = "grant" THEN InGrants(call.copy, call.user) \cup {call.id}
  ELSE InGrants(call.copy, call.user) \ {call.id}

WriteGrants(c) ==
  /\ \E op \in {"grant", "revoke"} : At(c, op, "grants", "write")
  /\ grants' = [calls[c].copy EXCEPT ![calls[c].user] = Entry(calls[c])]
  /\ NoteStale("grants", grants # calls[c].copy)
  /\ GoTo(c, "received", {})
  /\ UNCHANGED <<shared, received, default, created, granted, revoked, crossed, keyVars>>

(* The share may be in the list already, which ends a grant. *)
ReadReceived(c) ==
  /\ \E op \in {"grant", "revoke"} : At(c, op, "received", "read")
  /\ LET call == calls[c]
         there == call.op = "grant" /\ call.id \in received[call.user]
     IN IF there THEN End(c) /\ AnswerGrant(call)
        ELSE GotCopy(c, received[call.user]) /\ UNCHANGED granted
  /\ UNCHANGED <<records, created, revoked, stale, crossed, keyVars>>

WriteReceived(c) ==
  /\ \E op \in {"grant", "revoke"} : At(c, op, "received", "write")
  /\ LET call == calls[c]
         grant == call.op = "grant"
     IN /\ received' = [received EXCEPT ![call.user] =
                          IF grant THEN call.copy \cup {call.id} ELSE call.copy \ {call.id}]
        /\ NoteStale("received", received[call.user] # call.copy)
        /\ IF grant THEN AnswerGrant(call) ELSE UNCHANGED granted
        /\ IF grant THEN End(c) ELSE GoTo(c, "default", None)
  /\ UNCHANGED <<shared, grants, default, created, revoked, crossed, keyVars>>

(* The revocation ends unless the user's default is the share. *)
ReadDefault(c) ==
  /\ At(c, "revoke", "default", "read")
  /\ LET call == calls[c]
     IN IF default[call.user] = call.id THEN GotCopy(c, call.id) /\ UNCHANGED revoked
        ELSE End(c) /\ AnswerRevocation(call)
  /\ UNCHANGED <<records, created, granted, stale, crossed, keyVars>>

(* Variant: the default is left to the next call to find out. *)
WriteDefaultNot(c) ==
  /\ At(c, "revoke", "default", "write")
  /\ AnswerRevocation(calls[c])
  /\ End(c)
  /\ UNCHANGED <<records, created, granted, stale, crossed, keyVars>>

WriteDefault(c) ==
  /\ At(c, "revoke", "default", "write")
  /\ LET call == calls[c]
     IN /\ default' = [default EXCEPT ![call.user] = None]
        /\ NoteStale("default", default[call.user] # call.copy)
        /\ AnswerRevocation(call)
  /\ End(c)
  /\ UNCHANGED <<shared, grants, received, created, granted, crossed, keyVars>>

-----------------------------------------------------------------------------
(* selectShare reads the received shares and writes them back, marked,      *)
(* after the default.                                                       *)
SelectShare(c, u, i) ==
  /\ i \in received[u]
  /\ Begin(c, [op |-> "select", record |-> "default", step |-> "write", user |-> u, id |-> i, copy |-> received[u],
              key |-> None])
  /\ UNCHANGED <<records, answered, keyVars>>

SelectDefault(c) ==
  /\ At(c, "select", "default", "write")
  /\ LET call == calls[c]
     IN /\ default' = [default EXCEPT ![call.user] = call.id]
        /\ NoteStale("default", call.id \notin received[call.user])
  /\ Proceed(c, "received", "write", calls[c].copy, None)
  /\ UNCHANGED <<shared, grants, received, created, granted, revoked, crossed, keyVars>>

SelectReceived(c) ==
  /\ At(c, "select", "received", "write")
  /\ LET call == calls[c]
     IN /\ received' = [received EXCEPT ![call.user] = call.copy]
        /\ NoteStale("received", received[call.user] # call.copy)
  /\ End(c)
  /\ UNCHANGED <<shared, grants, default, created, granted, revoked, crossed, keyVars>>

(* setDefaultOwn *)
SetDefaultOwn(u) ==
  /\ default[u] # None
  /\ default' = [default EXCEPT ![u] = None]
  /\ UNCHANGED <<shared, grants, received, calls, answered, keyVars>>

(* A read or write is rejected: the handler answers with an error. *)
Fails(c) ==
  /\ calls[c] # None /\ End(c)
  /\ UNCHANGED <<records, answered, keyVars>>

Restart ==
  /\ calls' = [c \in Calls |-> None]
  /\ master' = None
  /\ UNCHANGED <<records, answered, stored, rekeyed>>

Next ==
  \/ \E c \in Calls, u \in Users, i \in Ids :
       CreateShared(c, u, i) \/ GrantShare(c, u, i) \/ RevokeShare(c, u, i) \/ SelectShare(c, u, i)
  \/ \E c \in Calls :
       \/ ReadMaster(c) \/ WriteMaster(c) \/ WriteShared(c)
       \/ ReadGrants(c) \/ WriteGrants(c) \/ ReadReceived(c) \/ WriteReceived(c)
       \/ ReadDefault(c) \/ WriteDefault(c)
       \/ SelectDefault(c) \/ SelectReceived(c)
       \/ Fails(c)
  \/ LoadMaster
  \/ \E u \in Users : SetDefaultOwn(u)
  \/ Restart

Spec == Init /\ [][Next]_vars

-----------------------------------------------------------------------------
(* What a revocation was answered for is in neither table and is nobody's   *)
(* default, however often reads and writes fail and the process restarts,   *)
(* until the record is written over by a handler that had read it before.   *)
RevokedIsGone ==
  \A u \in Users, i \in Ids : <<u, i>> \in revoked =>
    /\ "grants" \notin stale => i \notin InGrants(grants, u)
    /\ "received" \notin stale => i \notin received[u]
    /\ stale \cap {"received", "default"} = {} => default[u] # i

(* What a creation or a grant was answered for is there, under the same     *)
(* condition: a grant is in both tables, so that it can be used and revoked.*)
AnsweredIsThere ==
  /\ "shared" \notin stale => created \subseteq Listed
  /\ \A u \in Users, i \in Ids : <<u, i>> \in granted =>
       /\ "grants" \notin stale => i \in InGrants(grants, u)
       /\ "received" \notin stale => i \in received[u]

(* Every shared profile opens with the stored master key and the one in     *)
(* memory, through failing writes and restarts, unless two first uses        *)
(* overlapped and the key of one was written over that of the other.         *)
SharesOpen ==
  ~rekeyed =>
    /\ \A i \in Listed : shared[i] = stored
    /\ master \in {None, stored}

-----------------------------------------------------------------------------
(* The inductive invariant of these three. *)
InProgress(c, op, u, i) == calls[c] # None /\ calls[c].op = op /\ calls[c].user = u /\ calls[c].id = i

(* While a grant is in progress the share does not count as revoked, nor    *)
(* as granted during a revocation, and as neither when both are.            *)
Unsettled ==
  \A c \in Calls, u \in Users, i \in Ids :
    /\ InProgress(c, "grant", u, i) => <<u, i>> \notin revoked
    /\ InProgress(c, "revoke", u, i) => <<u, i>> \notin granted
    /\ InProgress(c, "grant", u, i) =>
         \A d \in Calls : InProgress(d, "revoke", u, i) => <<u, i>> \in crossed

(* What a handler has done it finds done when it goes on. *)
Progress ==
  \A c \in Calls, u \in Users, i \in Ids : <<u, i>> \notin crossed =>
    /\ InProgress(c, "grant", u, i) /\ calls[c].record = "received" =>
         ("grants" \notin stale => i \in InGrants(grants, u))
    /\ InProgress(c, "revoke", u, i) /\ calls[c].record # "grants" =>
         ("grants" \notin stale => i \notin InGrants(grants, u))
    /\ InProgress(c, "revoke", u, i) /\ calls[c].record = "default" =>
         ("received" \notin stale => i \notin received[u])

(* The keys of creations in progress. *)
KeysInHand ==
  \A c \in Calls : calls[c] # None /\ calls[c].op = "create" =>
    /\ calls[c].record = "master" /\ calls[c].step = "write" => calls[c].key # None
    /\ calls[c].record = "shared" =>
         /\ calls[c].step = "write" /\ calls[c].key # None
         /\ ~rekeyed => /\ calls[c].key = stored
                        /\ \A i \in Ids : calls[c].copy[i] \in {None, stored}

SharesIInv == TypeOK /\ Unsettled /\ Progress /\ KeysInHand /\ RevokedIsGone /\ AnsweredIsThere /\ SharesOpen
=============================================================================
