---------------------------- MODULE SharesProofs ----------------------------
(***************************************************************************)
(* For every set of users, shares, handlers and keys: what was revoked is  *)
(* gone, what was granted is there, and shared profiles open, under the    *)
(* conditions that the properties name.                                    *)
(***************************************************************************)
EXTENDS Shares, TLAPS

(* What the types say of one handler. *)
LEMMA Fields ==
  ASSUME TypeOK, NEW c \in Calls, calls[c] # None
  PROVE  /\ calls[c] \in Call
         /\ calls[c] = [op |-> calls[c].op, record |-> calls[c].record, step |-> calls[c].step,
                        user |-> calls[c].user, id |-> calls[c].id, copy |-> calls[c].copy, key |-> calls[c].key]
         /\ calls[c].op \in {"create", "grant", "revoke", "select"}
         /\ calls[c].step \in {"read", "write"}
         /\ calls[c].user \in Users /\ calls[c].id \in Ids /\ calls[c].key \in Keys \cup {None}
<1>1. calls[c] \in Call
  BY DEF TypeOK
<1> QED BY <1>1 DEF Call, CallOf

(* A handler that goes on keeps its user and id, and the others stay.       *)
LEMMA Moves ==
  ASSUME TypeOK, NEW c \in Calls, calls[c] # None, NEW record, NEW step, NEW copy, NEW key,
         Proceed(c, record, step, copy, key),
         \E ops, files, copies :
           /\ CallOf(ops, files, copies) \subseteq Call
           /\ calls[c].op \in ops /\ record \in files /\ step \in {"read", "write"}
           /\ copy \in copies /\ key \in Keys \cup {None}
  PROVE  /\ calls' \in [Calls -> Call \cup {None}]
         /\ calls'[c] # None
         /\ calls'[c].op = calls[c].op /\ calls'[c].user = calls[c].user /\ calls'[c].id = calls[c].id
         /\ calls'[c].record = record /\ calls'[c].step = step /\ calls'[c].copy = copy /\ calls'[c].key = key
         /\ \A d \in Calls \ {c} : calls'[d] = calls[d]
<1> DEFINE next == [op |-> calls[c].op, record |-> record, step |-> step, user |-> calls[c].user,
                    id |-> calls[c].id, copy |-> copy, key |-> key]
<1>1. next \in Call
  BY Fields DEF CallOf
<1>2. calls' = [calls EXCEPT ![c] = next] /\ calls \in [Calls -> Call \cup {None}]
  BY DEF Proceed, TypeOK
<1> QED BY <1>1, <1>2, SharesAssumption

LEMMA Ends ==
  ASSUME TypeOK, NEW c \in Calls, End(c)
  PROVE  /\ calls' \in [Calls -> Call \cup {None}] /\ calls'[c] = None
         /\ \A d \in Calls \ {c} : calls'[d] = calls[d]
BY DEF End, TypeOK

LEMMA Begins ==
  ASSUME TypeOK, NEW c \in Calls, NEW call \in Call, Begin(c, call)
  PROVE  /\ calls' \in [Calls -> Call \cup {None}] /\ calls[c] = None /\ calls'[c] = call
         /\ \A d \in Calls \ {c} : calls'[d] = calls[d]
BY DEF Begin, TypeOK

(* What each record lets a handler have read. *)
LEMMA Copies ==
  ASSUME TypeOK, NEW c \in Calls, calls[c] # None
  PROVE  /\ calls[c].op = "create" => calls[c].record \in {"master", "shared"} /\ calls[c].copy \in List
         /\ calls[c].record = "grants" => calls[c].copy \in Table
         /\ calls[c].record = "received" => calls[c].copy \in SUBSET Ids
         /\ calls[c].op = "select" => calls[c].copy \in SUBSET Ids
         /\ calls[c].op \in {"grant", "revoke"} => calls[c].record \in {"grants", "received", "default"}
         /\ calls[c].op = "grant" => calls[c].record \in {"grants", "received"}
BY Fields DEF Call, CallOf

LEMMA Kinds ==
  /\ CallOf({"create"}, {"master", "shared"}, List) \subseteq Call
  /\ CallOf({"grant", "revoke"}, {"grants"}, Table) \subseteq Call
  /\ CallOf({"grant", "revoke", "select"}, {"received"}, SUBSET Ids) \subseteq Call
  /\ CallOf({"select"}, {"default"}, SUBSET Ids) \subseteq Call
  /\ CallOf({"revoke"}, {"default"}, Ids \cup {None}) \subseteq Call
BY DEF Call

-----------------------------------------------------------------------------
(* Type correctness. *)
LEMMA InitTyped == Init => TypeOK
<1> SUFFICES ASSUME Init PROVE TypeOK
  OBVIOUS
<1>1. shared \in List /\ grants \in Table
  BY DEF Init, List, NoShares, Table, NoGrants
<1>2. received \in [Users -> SUBSET Ids] /\ default \in [Users -> Ids \cup {None}]
  BY DEF Init
<1>3. calls \in [Calls -> Call \cup {None}]
  BY DEF Init
<1> QED BY <1>1, <1>2, <1>3 DEF Init, TypeOK

LEMMA NoteStaleTyped ==
  ASSUME TypeOK, NEW record \in Records, NEW changed, NoteStale(record, changed)
  PROVE  stale' \subseteq Records /\ stale \subseteq stale' /\ (changed => record \in stale')
BY DEF NoteStale, TypeOK

LEMMA NoteCrossingTyped ==
  ASSUME TypeOK, NEW op, NEW u \in Users, NEW i \in Ids, NoteCrossing(op, u, i)
  PROVE  crossed' \subseteq Share
BY DEF NoteCrossing, TypeOK, Share

LEMMA AnsweredTyped ==
  ASSUME TypeOK, NEW c \in Calls, calls[c] # None
  PROVE  /\ AnswerGrant(calls[c]) => granted' \subseteq Share
         /\ AnswerRevocation(calls[c]) => revoked' \subseteq Share
BY Fields DEF AnswerGrant, AnswerRevocation, Answered, TypeOK, Share

LEMMA CreateTyped ==
  ASSUME TypeOK, NEW c \in Calls, NEW u \in Users, NEW i \in Ids, CreateShared(c, u, i)
  PROVE  \E call \in Call :
           /\ Begin(c, call) /\ call.op = "create"
           /\ \/ call.record = "master" /\ call.step = "read"
              \/ call.record = "shared" /\ call.step = "write" /\ call.key = master /\ master # None /\ call.copy = shared
<1> DEFINE first == master = None
           call == [op |-> "create", record |-> IF first THEN "master" ELSE "shared",
                    step |-> IF first THEN "read" ELSE "write",
                    user |-> u, id |-> i, copy |-> IF first THEN NoShares ELSE shared, key |-> master]
<1>1. call \in CallOf({"create"}, {"master", "shared"}, List)
  BY DEF CallOf, TypeOK, List, NoShares
<1>2. Begin(c, call)
  BY DEF CreateShared
<1> QED BY <1>1, <1>2, Kinds

LEMMA GrantTyped ==
  ASSUME TypeOK, NEW c \in Calls, NEW u \in Users, NEW i \in Ids, NEW op \in {"grant", "revoke"},
         Begin(c, [op |-> op, record |-> "grants", step |-> "read", user |-> u, id |-> i, copy |-> NoGrants,
                   key |-> None])
  PROVE  /\ calls' \in [Calls -> Call \cup {None}] /\ calls[c] = None /\ calls'[c] # None
         /\ calls'[c].op = op /\ calls'[c].user = u /\ calls'[c].id = i /\ calls'[c].record = "grants"
         /\ \A d \in Calls \ {c} : calls'[d] = calls[d]
<1> DEFINE call == [op |-> op, record |-> "grants", step |-> "read", user |-> u, id |-> i, copy |-> NoGrants,
                    key |-> None]
<1>1. call \in CallOf({"grant", "revoke"}, {"grants"}, Table)
  BY DEF CallOf, Table, NoGrants
<1> QED BY <1>1, Kinds, Begins, SharesAssumption

LEMMA SelectTyped ==
  ASSUME TypeOK, NEW c \in Calls, NEW u \in Users, NEW i \in Ids, SelectShare(c, u, i)
  PROVE  /\ calls' \in [Calls -> Call \cup {None}] /\ calls[c] = None /\ calls'[c].op = "select"
         /\ \A d \in Calls \ {c} : calls'[d] = calls[d]
<1> DEFINE call == [op |-> "select", record |-> "default", step |-> "write", user |-> u, id |-> i,
                    copy |-> received[u], key |-> None]
<1>1. call \in CallOf({"select"}, {"default"}, SUBSET Ids)
  BY DEF CallOf, TypeOK
<1> QED BY <1>1, Kinds, Begins DEF SelectShare

(* The steps of a creation. *)
LEMMA GotKeyTyped ==
  ASSUME TypeOK, NEW c \in Calls, calls[c] # None, calls[c].op = "create", NEW key \in Keys \cup {None},
         GotKey(c, key)
  PROVE  /\ calls' \in [Calls -> Call \cup {None}] /\ calls'[c] # None
         /\ calls'[c].op = "create" /\ calls'[c].record = "shared" /\ calls'[c].step = "write"
         /\ calls'[c].copy = shared /\ calls'[c].key = key
         /\ \A d \in Calls \ {c} : calls'[d] = calls[d]
<1>1. shared \in List
  BY DEF TypeOK
<1> QED BY <1>1, Kinds, Moves DEF GotKey

LEMMA ReadMasterTyped ==
  ASSUME TypeOK, NEW c \in Calls, ReadMaster(c), stored = None
  PROVE  \E key \in Keys :
           /\ calls' \in [Calls -> Call \cup {None}] /\ calls'[c] # None
           /\ calls'[c].op = "create" /\ calls'[c].record = "master" /\ calls'[c].step = "write"
           /\ calls'[c].key = key
           /\ \A d \in Calls \ {c} : calls'[d] = calls[d]
           /\ UNCHANGED master
<1>1. PICK key \in Fresh : Proceed(c, "master", "write", calls[c].copy, key) /\ UNCHANGED master
  BY DEF ReadMaster
<1>2. key \in Keys /\ calls[c] # None /\ calls[c].op = "create" /\ calls[c].copy \in List
  BY Copies DEF Fresh, ReadMaster, At
<1> QED BY <1>1, <1>2, Kinds, Moves

(* The steps of a grant, a revocation or a selection. *)
LEMMA ReadGrantsTyped ==
  ASSUME TypeOK, NEW c \in Calls, ReadGrants(c)
  PROVE  /\ calls[c] # None /\ calls[c].op \in {"grant", "revoke"} /\ calls[c].record = "grants"
         /\ calls' \in [Calls -> Call \cup {None}] /\ calls'[c] # None
         /\ calls'[c].op = calls[c].op /\ calls'[c].user = calls[c].user /\ calls'[c].id = calls[c].id
         /\ \A d \in Calls \ {c} : calls'[d] = calls[d]
         /\ \/ calls'[c].record = "grants"
            \/ calls[c].op = "revoke" /\ grants[calls[c].user] = None /\ calls'[c].record = "received"
<1>1. calls[c] # None /\ calls[c].op \in {"grant", "revoke"} /\ calls[c].record = "grants"
  BY DEF ReadGrants, At
<1>2. grants \in Table /\ calls[c].key \in Keys \cup {None}
  BY <1>1, Fields DEF TypeOK
<1>3. CASE calls[c].op = "revoke" /\ grants[calls[c].user] = None
  BY <1>1, <1>2, <1>3, Kinds, Moves DEF ReadGrants, GoTo
<1>4. CASE ~(calls[c].op = "revoke" /\ grants[calls[c].user] = None)
  BY <1>1, <1>2, <1>4, Kinds, Moves DEF ReadGrants, GotCopy
<1> QED BY <1>3, <1>4

LEMMA WriteGrantsTyped ==
  ASSUME TypeOK, NEW c \in Calls, WriteGrants(c)
  PROVE  /\ calls[c] # None /\ calls[c].op \in {"grant", "revoke"} /\ calls[c].record = "grants"
         /\ calls' \in [Calls -> Call \cup {None}] /\ calls'[c] # None
         /\ calls'[c].op = calls[c].op /\ calls'[c].user = calls[c].user /\ calls'[c].id = calls[c].id
         /\ calls'[c].record = "received"
         /\ \A d \in Calls \ {c} : calls'[d] = calls[d]
         /\ grants' \in Table
<1>1. calls[c] # None /\ calls[c].op \in {"grant", "revoke"} /\ calls[c].record = "grants"
  BY DEF WriteGrants, At
<1>2. calls[c].copy \in Table /\ calls[c].key \in Keys \cup {None} /\ calls[c].id \in Ids /\ calls[c].user \in Users
  BY <1>1, Fields, Copies
<1>3. Entry(calls[c]) \in SUBSET Ids
  BY <1>2 DEF Entry, InGrants, Table
<1>4. grants' \in Table
  BY <1>2, <1>3 DEF WriteGrants, Table
<1> QED BY <1>1, <1>2, <1>4, Kinds, Moves DEF WriteGrants, GoTo

LEMMA ReadReceivedTyped ==
  ASSUME TypeOK, NEW c \in Calls, ReadReceived(c)
  PROVE  /\ calls[c] # None /\ calls[c].op \in {"grant", "revoke"} /\ calls[c].record = "received"
         /\ calls' \in [Calls -> Call \cup {None}]
         /\ \A d \in Calls \ {c} : calls'[d] = calls[d]
         /\ \/ /\ calls[c].op = "grant" /\ calls[c].id \in received[calls[c].user]
               /\ calls'[c] = None /\ AnswerGrant(calls[c])
            \/ /\ calls'[c] # None /\ calls'[c].record = "received" /\ UNCHANGED granted
               /\ calls'[c].op = calls[c].op /\ calls'[c].user = calls[c].user /\ calls'[c].id = calls[c].id
<1>1. calls[c] # None /\ calls[c].op \in {"grant", "revoke"} /\ calls[c].record = "received"
  BY DEF ReadReceived, At
<1>2. calls[c].key \in Keys \cup {None} /\ received[calls[c].user] \in SUBSET Ids
  BY <1>1, Fields DEF TypeOK
<1>3. CASE calls[c].op = "grant" /\ calls[c].id \in received[calls[c].user]
  BY <1>1, <1>3, Ends DEF ReadReceived
<1>4. CASE ~(calls[c].op = "grant" /\ calls[c].id \in received[calls[c].user])
  BY <1>1, <1>2, <1>4, Kinds, Moves DEF ReadReceived, GotCopy
<1> QED BY <1>3, <1>4

LEMMA WriteReceivedTyped ==
  ASSUME TypeOK, NEW c \in Calls, WriteReceived(c)
  PROVE  /\ calls[c] # None /\ calls[c].record = "received"
         /\ calls' \in [Calls -> Call \cup {None}]
         /\ \A d \in Calls \ {c} : calls'[d] = calls[d]
         /\ \/ /\ calls[c].op = "grant" /\ calls'[c] = None /\ AnswerGrant(calls[c])
               /\ received' = [received EXCEPT ![calls[c].user] = calls[c].copy \cup {calls[c].id}]
            \/ /\ calls[c].op = "revoke" /\ calls'[c] # None /\ calls'[c].record = "default" /\ UNCHANGED granted
               /\ calls'[c].op = calls[c].op /\ calls'[c].user = calls[c].user /\ calls'[c].id = calls[c].id
               /\ received' = [received EXCEPT ![calls[c].user] = calls[c].copy \ {calls[c].id}]
         /\ received' \in [Users -> SUBSET Ids]
<1>1. calls[c] # None /\ calls[c].op \in {"grant", "revoke"} /\ calls[c].record = "received"
  BY DEF WriteReceived, At
<1>2. calls[c].key \in Keys \cup {None} /\ calls[c].copy \in SUBSET Ids /\ calls[c].id \in Ids
  BY <1>1, Fields, Copies
<1>3. CASE calls[c].op = "grant"
  BY <1>1, <1>2, <1>3, Ends DEF WriteReceived, TypeOK
<1>4. CASE calls[c].op = "revoke"
  <2>1. GoTo(c, "default", None) /\ UNCHANGED granted
        /\ received' = [received EXCEPT ![calls[c].user] = calls[c].copy \ {calls[c].id}]
    BY <1>4 DEF WriteReceived
  <2>2. received' \in [Users -> SUBSET Ids]
    BY <1>2, <2>1 DEF TypeOK
  <2> QED BY <1>1, <1>2, <1>4, <2>1, <2>2, Kinds, Moves DEF GoTo
<1> QED BY <1>1, <1>3, <1>4

LEMMA ReadDefaultTyped ==
  ASSUME TypeOK, NEW c \in Calls, ReadDefault(c)
  PROVE  /\ calls[c] # None /\ calls[c].op = "revoke" /\ calls[c].record = "default"
         /\ calls' \in [Calls -> Call \cup {None}]
         /\ \A d \in Calls \ {c} : calls'[d] = calls[d]
         /\ \/ /\ calls'[c] # None /\ calls'[c].record = "default" /\ UNCHANGED revoked
               /\ calls'[c].op = calls[c].op /\ calls'[c].user = calls[c].user /\ calls'[c].id = calls[c].id
            \/ default[calls[c].user] # calls[c].id /\ calls'[c] = None /\ AnswerRevocation(calls[c])
<1>1. calls[c] # None /\ calls[c].op = "revoke" /\ calls[c].record = "default"
  BY DEF ReadDefault, At
<1>2. calls[c].key \in Keys \cup {None} /\ calls[c].id \in Ids
  BY <1>1, Fields
<1>3. CASE default[calls[c].user] = calls[c].id
  BY <1>1, <1>2, <1>3, Kinds, Moves DEF ReadDefault, GotCopy
<1>4. CASE default[calls[c].user] # calls[c].id
  BY <1>1, <1>4, Ends DEF ReadDefault
<1> QED BY <1>3, <1>4

LEMMA SelectDefaultTyped ==
  ASSUME TypeOK, NEW c \in Calls, SelectDefault(c)
  PROVE  /\ calls[c] # None
         /\ calls' \in [Calls -> Call \cup {None}] /\ calls'[c].op = "select"
         /\ \A d \in Calls \ {c} : calls'[d] = calls[d]
         /\ default' \in [Users -> Ids \cup {None}]
<1>1. calls[c] # None /\ calls[c].op = "select" /\ calls[c].copy \in SUBSET Ids /\ calls[c].id \in Ids
  BY Fields, Copies DEF SelectDefault, At
<1>2. default' \in [Users -> Ids \cup {None}]
  BY <1>1 DEF SelectDefault, TypeOK
<1> QED BY <1>1, <1>2, Kinds, Moves DEF SelectDefault

-----------------------------------------------------------------------------
LEMMA CreateStepTyped ==
  ASSUME TypeOK, NEW c \in Calls
  PROVE  ReadMaster(c) \/ WriteMaster(c) \/ WriteShared(c) => TypeOK'
<1>1. ASSUME ReadMaster(c) PROVE TypeOK'
  <2>1. CASE stored = None
    <3>1. calls' \in [Calls -> Call \cup {None}] /\ UNCHANGED master
      BY <1>1, <2>1, ReadMasterTyped
    <3> QED BY <1>1, <3>1 DEF ReadMaster, TypeOK, records, answered
  <2>2. CASE stored # None
    <3>1. stored \in Keys /\ GotKey(c, stored) /\ calls[c] # None /\ calls[c].op = "create"
      BY <1>1, <2>2 DEF ReadMaster, TypeOK, At
    <3>2. calls' \in [Calls -> Call \cup {None}]
      BY <3>1, GotKeyTyped
    <3> QED BY <1>1, <2>2, <3>2 DEF ReadMaster, TypeOK, records, answered
  <2> QED BY <2>1, <2>2
<1>2. ASSUME WriteMaster(c) PROVE TypeOK'
  <2>1. calls[c] # None /\ calls[c].op = "create" /\ calls[c].key \in Keys \cup {None}
    BY <1>2, Fields DEF WriteMaster, At
  <2>2. calls' \in [Calls -> Call \cup {None}]
    BY <1>2, <2>1, GotKeyTyped DEF WriteMaster
  <2> QED BY <1>2, <2>1, <2>2 DEF WriteMaster, TypeOK, records, answered
<1>3. ASSUME WriteShared(c) PROVE TypeOK'
  <2>1. calls[c] # None /\ calls[c].op = "create"
    BY <1>3 DEF WriteShared, At
  <2>2. calls[c].copy \in List /\ calls[c].id \in Ids /\ calls[c].key \in Keys \cup {None}
    BY <2>1, Fields, Copies
  <2>3. shared' \in List
    BY <1>3, <2>2 DEF WriteShared, List
  <2>4. calls' \in [Calls -> Call \cup {None}] /\ stale' \subseteq Records
    BY <1>3, Ends, NoteStaleTyped DEF WriteShared, Records
  <2> QED BY <1>3, <2>2, <2>3, <2>4 DEF WriteShared, TypeOK
<1> QED BY <1>1, <1>2, <1>3

LEMMA GrantStepTyped ==
  ASSUME TypeOK, NEW c \in Calls
  PROVE  ReadGrants(c) \/ WriteGrants(c) \/ ReadReceived(c) \/ WriteReceived(c) \/ ReadDefault(c) \/ WriteDefault(c)
           => TypeOK'
<1>1. ASSUME ReadGrants(c) PROVE TypeOK'
  BY <1>1, ReadGrantsTyped DEF ReadGrants, TypeOK, records, answered, keyVars
<1>2. ASSUME WriteGrants(c) PROVE TypeOK'
  <2>1. stale' \subseteq Records
    BY <1>2, NoteStaleTyped DEF WriteGrants, Records
  <2> QED BY <1>2, <2>1, WriteGrantsTyped DEF WriteGrants, TypeOK, keyVars
<1>3. ASSUME ReadReceived(c) PROVE TypeOK'
  <2>1. granted' \subseteq Share
    BY <1>3, ReadReceivedTyped, AnsweredTyped DEF TypeOK
  <2> QED BY <1>3, <2>1, ReadReceivedTyped DEF ReadReceived, TypeOK, records, keyVars
<1>4. ASSUME WriteReceived(c) PROVE TypeOK'
  <2>1. granted' \subseteq Share
    BY <1>4, WriteReceivedTyped, AnsweredTyped DEF TypeOK
  <2>2. stale' \subseteq Records
    BY <1>4, NoteStaleTyped DEF WriteReceived, Records
  <2> QED BY <1>4, <2>1, <2>2, WriteReceivedTyped DEF WriteReceived, TypeOK, keyVars
<1>5. ASSUME ReadDefault(c) PROVE TypeOK'
  <2>1. revoked' \subseteq Share
    BY <1>5, ReadDefaultTyped, AnsweredTyped DEF TypeOK
  <2> QED BY <1>5, <2>1, ReadDefaultTyped DEF ReadDefault, TypeOK, records, keyVars
<1>6. ASSUME WriteDefault(c) PROVE TypeOK'
  <2>1. calls[c] # None
    BY <1>6 DEF WriteDefault, At
  <2>2. revoked' \subseteq Share /\ stale' \subseteq Records
    BY <1>6, <2>1, AnsweredTyped, NoteStaleTyped DEF WriteDefault, Records
  <2>3. default' \in [Users -> Ids \cup {None}]
    BY <1>6 DEF WriteDefault, TypeOK
  <2> QED BY <1>6, <2>2, <2>3, Ends DEF WriteDefault, TypeOK, keyVars
<1> QED BY <1>1, <1>2, <1>3, <1>4, <1>5, <1>6

LEMMA OtherStepTyped ==
  ASSUME TypeOK
  PROVE  /\ \A c \in Calls : SelectDefault(c) \/ SelectReceived(c) \/ Fails(c) => TypeOK'
         /\ \A u \in Users : SetDefaultOwn(u) => TypeOK'
         /\ LoadMaster \/ Restart => TypeOK'
<1>1. ASSUME NEW c \in Calls, SelectDefault(c) PROVE TypeOK'
  <2>1. stale' \subseteq Records
    BY <1>1, NoteStaleTyped DEF SelectDefault, Records
  <2> QED BY <1>1, <2>1, SelectDefaultTyped DEF SelectDefault, TypeOK, keyVars
<1>2. ASSUME NEW c \in Calls, SelectReceived(c) PROVE TypeOK'
  <2>1. stale' \subseteq Records
    BY <1>2, NoteStaleTyped DEF SelectReceived, Records
  <2>2. calls[c] # None /\ calls[c].copy \in SUBSET Ids
    BY <1>2, Copies DEF SelectReceived, At
  <2>3. received' \in [Users -> SUBSET Ids]
    BY <1>2, <2>2 DEF SelectReceived, TypeOK
  <2> QED BY <1>2, <2>1, <2>3, Ends DEF SelectReceived, TypeOK, keyVars
<1>3. ASSUME NEW c \in Calls, Fails(c) PROVE TypeOK'
  BY <1>3, Ends DEF Fails, TypeOK, records, answered, keyVars
<1>4. ASSUME NEW u \in Users, SetDefaultOwn(u) PROVE TypeOK'
  BY <1>4 DEF SetDefaultOwn, TypeOK, answered, keyVars
<1>5. ASSUME LoadMaster PROVE TypeOK'
  BY <1>5 DEF LoadMaster, TypeOK, records, answered
<1>6. ASSUME Restart PROVE TypeOK'
  BY <1>6 DEF Restart, TypeOK, records, answered
<1> QED BY <1>1, <1>2, <1>3, <1>4, <1>5, <1>6

LEMMA NextTyped == TypeOK /\ [Next]_vars => TypeOK'
<1> SUFFICES ASSUME TypeOK, [Next]_vars PROVE TypeOK'
  OBVIOUS
<1>1. ASSUME NEW c \in Calls, NEW u \in Users, NEW i \in Ids, CreateShared(c, u, i) PROVE TypeOK'
  BY <1>1, CreateTyped, Begins DEF CreateShared, TypeOK, records, answered, keyVars
<1>2. ASSUME NEW c \in Calls, NEW u \in Users, NEW i \in Ids, GrantShare(c, u, i) PROVE TypeOK'
  <2>1. calls' \in [Calls -> Call \cup {None}]
    BY <1>2, GrantTyped DEF GrantShare
  <2> QED BY <1>2, <2>1, NoteCrossingTyped DEF GrantShare, TypeOK, records, keyVars
<1>3. ASSUME NEW c \in Calls, NEW u \in Users, NEW i \in Ids, RevokeShare(c, u, i) PROVE TypeOK'
  <2>1. calls' \in [Calls -> Call \cup {None}]
    BY <1>3, GrantTyped DEF RevokeShare
  <2> QED BY <1>3, <2>1, NoteCrossingTyped DEF RevokeShare, TypeOK, records, keyVars
<1>4. ASSUME NEW c \in Calls, NEW u \in Users, NEW i \in Ids, SelectShare(c, u, i) PROVE TypeOK'
  BY <1>4, SelectTyped DEF SelectShare, TypeOK, records, answered, keyVars
<1>5. CASE UNCHANGED vars
  BY <1>5 DEF vars, TypeOK, records, answered, keyVars
<1> QED BY <1>1, <1>2, <1>3, <1>4, <1>5, CreateStepTyped, GrantStepTyped, OtherStepTyped DEF Next

(* Every variable keeps its type. *)
THEOREM Typed == Spec => []TypeOK
BY InitTyped, NextTyped, PTL DEF Spec

-----------------------------------------------------------------------------
(* Keys: what a creation holds, and what it seals under, is the key that is *)
(* stored.                                                                  *)
Opens == KeysInHand /\ SharesOpen

LEMMA KeysKept ==
  ASSUME TypeOK, Opens, UNCHANGED <<stored, rekeyed, shared>>, master' \in {master, stored, None},
         \A d \in Calls : calls'[d] \in {calls[d], None} \/ calls'[d].op # "create"
  PROVE  Opens'
<1>1. KeysInHand'
  BY DEF Opens, KeysInHand
<1>2. SharesOpen'
  BY DEF Opens, SharesOpen, Listed
<1> QED BY <1>1, <1>2 DEF Opens

LEMMA InitOpens == Init => Opens
BY DEF Init, Opens, KeysInHand, SharesOpen, Listed, NoShares

LEMMA CreateOpens ==
  ASSUME TypeOK, Opens, NEW c \in Calls, NEW u \in Users, NEW i \in Ids, CreateShared(c, u, i)
  PROVE  Opens'
<1>1. PICK call \in Call :
        /\ Begin(c, call) /\ call.op = "create"
        /\ \/ call.record = "master" /\ call.step = "read"
           \/ call.record = "shared" /\ call.step = "write" /\ call.key = master /\ master # None /\ call.copy = shared
  BY CreateTyped
<1>2. calls'[c] = call /\ \A d \in Calls \ {c} : calls'[d] = calls[d]
  BY <1>1, Begins
<1>3. UNCHANGED <<shared, stored, master, rekeyed>>
  BY DEF CreateShared, records, keyVars
<1>4. ~rekeyed => \A j \in Ids : shared[j] \in {None, stored}
  BY DEF Opens, SharesOpen, Listed
<1>5. KeysInHand'
  BY <1>1, <1>2, <1>3, <1>4 DEF Opens, KeysInHand, SharesOpen
<1> QED BY <1>3, <1>5 DEF Opens, SharesOpen, Listed

LEMMA CreateStepOpens ==
  ASSUME TypeOK, Opens, NEW c \in Calls, ReadMaster(c) \/ WriteMaster(c) \/ WriteShared(c)
  PROVE  Opens'
<1>0. ~rekeyed => \A j \in Ids : shared[j] \in {None, stored}
  BY DEF Opens, SharesOpen, Listed
<1>1. CASE ReadMaster(c) /\ stored = None
  <2>1. PICK key \in Keys :
          /\ calls'[c].record = "master" /\ calls'[c].step = "write" /\ calls'[c].key = key
          /\ \A d \in Calls \ {c} : calls'[d] = calls[d]
          /\ UNCHANGED master
    BY <1>1, ReadMasterTyped
  <2>2. UNCHANGED <<shared, stored, rekeyed>> /\ key # None
    BY <1>1, SharesAssumption DEF ReadMaster, records
  <2>3. KeysInHand'
    BY <2>1, <2>2 DEF Opens, KeysInHand
  <2> QED BY <2>1, <2>2, <2>3 DEF Opens, SharesOpen, Listed
<1>2. CASE ReadMaster(c) /\ stored # None
  <2>1. calls[c] # None /\ calls[c].op = "create" /\ GotKey(c, stored) /\ stored \in Keys /\ master' = stored
    BY <1>2 DEF ReadMaster, At, TypeOK
  <2>2. UNCHANGED <<shared, stored, rekeyed>>
    BY <1>2 DEF ReadMaster, records
  <2>3. KeysInHand'
    BY <1>0, <1>2, <2>1, <2>2, GotKeyTyped DEF Opens, KeysInHand
  <2> QED BY <2>1, <2>2, <2>3 DEF Opens, SharesOpen, Listed
<1>3. CASE WriteMaster(c)
  <2>1. calls[c] # None /\ calls[c].op = "create" /\ calls[c].key # None /\ calls[c].key \in Keys \cup {None}
    BY <1>3, Fields DEF WriteMaster, At, Opens, KeysInHand
  <2>2. /\ GotKey(c, calls[c].key) /\ stored' = calls[c].key /\ master' = calls[c].key
        /\ rekeyed' = (rekeyed \/ stored # None) /\ shared' = shared
    BY <1>3 DEF WriteMaster, records
  <2>3. ~rekeyed' => stored = None /\ ~rekeyed
    BY <2>2 DEF TypeOK
  <2>4. KeysInHand'
    BY <1>0, <2>1, <2>2, <2>3, GotKeyTyped DEF Opens, KeysInHand
  <2>5. SharesOpen'
    BY <1>0, <2>2, <2>3 DEF SharesOpen, Listed
  <2> QED BY <2>4, <2>5 DEF Opens
<1>4. CASE WriteShared(c)
  <2>1. calls[c] # None /\ calls[c].op = "create" /\ calls[c].record = "shared" /\ UNCHANGED <<stored, master, rekeyed>>
    BY <1>4 DEF WriteShared, At
  <2>2. shared' = [calls[c].copy EXCEPT ![calls[c].id] = calls[c].key] /\ calls[c].copy \in List
    BY <1>4, <2>1, Copies DEF WriteShared
  <2>3. ~rekeyed => \A j \in Ids : shared'[j] \in {None, stored}
    BY <2>1, <2>2 DEF Opens, KeysInHand, List
  <2>4. SharesOpen'
    BY <2>1, <2>3 DEF Opens, SharesOpen, Listed
  <2>5. KeysInHand'
    BY <1>4, <2>1, Ends DEF WriteShared, Opens, KeysInHand
  <2> QED BY <2>4, <2>5 DEF Opens
<1> QED BY <1>1, <1>2, <1>3, <1>4

LEMMA NextOpens == TypeOK /\ Opens /\ [Next]_vars => Opens'
<1> SUFFICES ASSUME TypeOK, Opens, [Next]_vars PROVE Opens'
  OBVIOUS
<1> USE KeysKept DEF records, keyVars
<1>1. ASSUME NEW c \in Calls, NEW u \in Users, NEW i \in Ids,
             GrantShare(c, u, i) \/ RevokeShare(c, u, i) \/ SelectShare(c, u, i)
      PROVE  Opens'
  BY <1>1, GrantTyped, SelectTyped DEF GrantShare, RevokeShare, SelectShare
<1>2. ASSUME NEW c \in Calls, ReadGrants(c) \/ WriteGrants(c) PROVE Opens'
  BY <1>2, ReadGrantsTyped, WriteGrantsTyped DEF ReadGrants, WriteGrants
<1>3. ASSUME NEW c \in Calls, ReadReceived(c) \/ WriteReceived(c) PROVE Opens'
  <2>1. /\ calls'[c] = None \/ calls'[c].op # "create"
        /\ \A d \in Calls \ {c} : calls'[d] = calls[d]
    BY <1>3, ReadReceivedTyped, WriteReceivedTyped
  <2> QED BY <1>3, <2>1 DEF ReadReceived, WriteReceived
<1>4. ASSUME NEW c \in Calls, ReadDefault(c) \/ WriteDefault(c) PROVE Opens'
  <2>1. /\ calls'[c] = None \/ calls'[c].op # "create"
        /\ \A d \in Calls \ {c} : calls'[d] = calls[d]
    BY <1>4, ReadDefaultTyped, Ends DEF WriteDefault
  <2> QED BY <1>4, <2>1 DEF ReadDefault, WriteDefault
<1>5. ASSUME NEW c \in Calls, SelectDefault(c) \/ SelectReceived(c) \/ Fails(c) PROVE Opens'
  BY <1>5, SelectDefaultTyped, Ends DEF SelectDefault, SelectReceived, Fails
<1>6. ASSUME NEW u \in Users, SetDefaultOwn(u) PROVE Opens'
  BY <1>6 DEF SetDefaultOwn
<1>7. CASE LoadMaster \/ Restart
  BY <1>7 DEF LoadMaster, Restart
<1>8. CASE UNCHANGED vars
  BY <1>8 DEF vars
<1> QED BY <1>1, <1>2, <1>3, <1>4, <1>5, <1>6, <1>7, <1>8, CreateOpens, CreateStepOpens DEF Next

(* Every shared profile opens, for any number of creations in flight.       *)
THEOREM SharedOpen == Spec => []SharesOpen
<1>1. Init => TypeOK /\ Opens
  BY InitTyped, InitOpens
<1>2. TypeOK /\ Opens /\ [Next]_vars => TypeOK' /\ Opens'
  BY NextTyped, NextOpens
<1>3. Opens => SharesOpen
  BY DEF Opens
<1> QED BY <1>1, <1>2, <1>3, PTL DEF Spec

-----------------------------------------------------------------------------
(* Grants and revocations.  Same(d): the handler d works on what it worked  *)
(* on before the step, or is no grant or revocation after it.               *)
Same(d) ==
  \/ calls'[d] = None \/ calls'[d].op \notin {"grant", "revoke"}
  \/ /\ calls[d] # None
     /\ calls'[d].op = calls[d].op /\ calls'[d].user = calls[d].user /\ calls'[d].id = calls[d].id

Stays(d) == Same(d) /\ (calls'[d] # None /\ calls'[d].op \in {"grant", "revoke"} => calls'[d].record = calls[d].record)

Done == Progress /\ RevokedIsGone /\ AnsweredIsThere

LEMMA InitSettled == Init => Unsettled /\ Done
BY DEF Init, Unsettled, Done, Progress, RevokedIsGone, AnsweredIsThere, InProgress

(* A step in which nothing begins, and which answers only what is in        *)
(* progress and not crossed.                                                *)
LEMMA UnsettledKept ==
  ASSUME Unsettled, UNCHANGED crossed, \A d \in Calls : Same(d),
         \A u \in Users, i \in Ids :
           /\ <<u, i>> \in granted' =>
                <<u, i>> \in granted \/ (<<u, i>> \notin crossed /\ \E c \in Calls : InProgress(c, "grant", u, i))
           /\ <<u, i>> \in revoked' =>
                <<u, i>> \in revoked \/ (<<u, i>> \notin crossed /\ \E c \in Calls : InProgress(c, "revoke", u, i))
  PROVE  Unsettled'
<1> SUFFICES ASSUME NEW c \in Calls, NEW u \in Users, NEW i \in Ids
             PROVE  /\ InProgress(c, "grant", u, i)' => <<u, i>> \notin revoked'
                    /\ InProgress(c, "revoke", u, i)' => <<u, i>> \notin granted'
                    /\ InProgress(c, "grant", u, i)' =>
                         \A d \in Calls : InProgress(d, "revoke", u, i)' => <<u, i>> \in crossed'
  BY DEF Unsettled
<1>1. \A d \in Calls, op \in {"grant", "revoke"} : InProgress(d, op, u, i)' => InProgress(d, op, u, i)
  BY DEF Same, InProgress
<1> QED BY <1>1 DEF Unsettled

(* A step that leaves the records of grants alone. *)
LEMMA DoneKept ==
  ASSUME TypeOK, Done, UNCHANGED <<grants, received, granted, revoked, crossed>>, stale \subseteq stale',
         \A u \in Users : default'[u] \in {default[u], None},
         UNCHANGED <<created, shared>> \/ ("shared" \notin stale' => created' \subseteq Listed'),
         \A d \in Calls : Stays(d)
  PROVE  Done'
<1>1. Progress'
  BY DEF Done, Progress, InProgress, InGrants, Stays, Same
<1>2. RevokedIsGone'
  BY SharesAssumption DEF Done, RevokedIsGone, InGrants
<1>3. AnsweredIsThere'
  BY DEF Done, AnsweredIsThere, InGrants, Listed
<1> QED BY <1>1, <1>2, <1>3 DEF Done

LEMMA Quiet ==
  ASSUME TypeOK, Unsettled, Done, UNCHANGED <<grants, received, granted, revoked, crossed>>, stale \subseteq stale',
         \A u \in Users : default'[u] \in {default[u], None},
         UNCHANGED <<created, shared>> \/ ("shared" \notin stale' => created' \subseteq Listed'),
         \A d \in Calls : Stays(d)
  PROVE  Unsettled' /\ Done'
BY UnsettledKept, DoneKept DEF Stays

(* Creations, keys, failures and restarts are quiet. *)
LEMMA QuietSteps ==
  ASSUME TypeOK, Opens, Unsettled, Done
  PROVE  /\ \A c \in Calls, u \in Users, i \in Ids :
              CreateShared(c, u, i) \/ SelectShare(c, u, i) => Unsettled' /\ Done'
         /\ \A c \in Calls : ReadMaster(c) \/ WriteMaster(c) \/ WriteShared(c) \/ Fails(c) => Unsettled' /\ Done'
         /\ \A u \in Users : SetDefaultOwn(u) => Unsettled' /\ Done'
         /\ LoadMaster \/ Restart \/ UNCHANGED vars => Unsettled' /\ Done'
<1> USE DEF Stays, Same, records, answered
<1>1. ASSUME NEW c \in Calls, NEW u \in Users, NEW i \in Ids, CreateShared(c, u, i) PROVE Unsettled' /\ Done'
  <2>1. PICK call \in Call : Begin(c, call) /\ call.op = "create"
    BY <1>1, CreateTyped
  <2>2. \A d \in Calls : Stays(d)
    BY <2>1, Begins
  <2> QED BY <1>1, <2>2, Quiet DEF CreateShared
<1>2. ASSUME NEW c \in Calls, NEW u \in Users, NEW i \in Ids, SelectShare(c, u, i) PROVE Unsettled' /\ Done'
  <2>1. \A d \in Calls : Stays(d)
    BY <1>2, SelectTyped
  <2> QED BY <1>2, <2>1, Quiet DEF SelectShare
<1>3. ASSUME NEW c \in Calls, ReadMaster(c) PROVE Unsettled' /\ Done'
  <2>1. calls'[c].op = "create" /\ \A d \in Calls \ {c} : calls'[d] = calls[d]
    <3>1. CASE stored = None
      BY <1>3, <3>1, ReadMasterTyped
    <3>2. CASE stored # None
      BY <1>3, <3>2, GotKeyTyped DEF ReadMaster, At, TypeOK
    <3> QED BY <3>1, <3>2
  <2> QED BY <1>3, <2>1, Quiet DEF ReadMaster
<1>4. ASSUME NEW c \in Calls, WriteMaster(c) PROVE Unsettled' /\ Done'
  <2>1. calls[c] # None /\ calls[c].op = "create" /\ GotKey(c, calls[c].key) /\ calls[c].key \in Keys \cup {None}
    BY <1>4, Fields DEF WriteMaster, At
  <2>2. calls'[c].op = "create" /\ \A d \in Calls \ {c} : calls'[d] = calls[d]
    BY <2>1, GotKeyTyped
  <2> QED BY <1>4, <2>2, Quiet DEF WriteMaster
<1>5. ASSUME NEW c \in Calls, WriteShared(c) PROVE Unsettled' /\ Done'
  <2>1. calls[c] # None /\ calls[c].id \in Ids
    BY <1>5, Fields DEF WriteShared, At
  <2>2. stale \subseteq stale' /\ (shared # calls[c].copy => "shared" \in stale')
    BY <1>5, NoteStaleTyped DEF WriteShared, Records
  <2>3. "shared" \notin stale' => created' \subseteq Listed'
    <3> SUFFICES ASSUME "shared" \notin stale' PROVE created' \subseteq Listed'
      OBVIOUS
    <3>1. shared' = [shared EXCEPT ![calls[c].id] = calls[c].key] /\ created \subseteq Listed
      BY <1>5, <2>2 DEF WriteShared, Done, AnsweredIsThere
    <3>2. calls[c].key # None
      BY <1>5 DEF WriteShared, At, Opens, KeysInHand
    <3> QED BY <1>5, <2>1, <3>1, <3>2 DEF WriteShared, Listed, TypeOK, List
  <2> QED BY <1>5, <2>2, <2>3, Ends, Quiet DEF WriteShared
<1>6. ASSUME NEW c \in Calls, Fails(c) PROVE Unsettled' /\ Done'
  BY <1>6, Ends, Quiet DEF Fails
<1>7. ASSUME NEW u \in Users, SetDefaultOwn(u) PROVE Unsettled' /\ Done'
  BY <1>7, Quiet DEF SetDefaultOwn, TypeOK
<1>8. CASE LoadMaster \/ UNCHANGED vars
  BY <1>8, Quiet DEF LoadMaster, vars
<1>9. CASE Restart
  BY <1>9, Quiet DEF Restart
<1> QED BY <1>1, <1>2, <1>3, <1>4, <1>5, <1>6, <1>7, <1>8, <1>9

(* A grant or revocation begins: it takes back the answers to the opposite, *)
(* and crosses what is in progress.                                         *)
LEMMA Crossing ==
  ASSUME NEW op \in {"grant", "revoke"}, NEW u, NEW i, NoteCrossing(op, u, i)
  PROVE  /\ \A s : s # <<u, i>> => (s \in crossed' <=> s \in crossed)
         /\ \A d \in Calls : InProgress(d, "grant", u, i) \/ InProgress(d, "revoke", u, i) =>
              (<<u, i>> \in crossed => <<u, i>> \in crossed')
         /\ \A d \in Calls, other \in {"grant", "revoke"} \ {op} :
              InProgress(d, other, u, i) => <<u, i>> \in crossed'
BY DEF NoteCrossing, On, InProgress

LEMMA Begun ==
  ASSUME TypeOK, Unsettled, Done,
         NEW c \in Calls, NEW u \in Users, NEW i \in Ids, NEW op \in {"grant", "revoke"},
         Begin(c, [op |-> op, record |-> "grants", step |-> "read", user |-> u, id |-> i, copy |-> NoGrants,
                   key |-> None]),
         UNCHANGED <<records, created, stale>>,
         granted' = IF op = "revoke" THEN granted \ {<<u, i>>} ELSE granted,
         revoked' = IF op = "grant" THEN revoked \ {<<u, i>>} ELSE revoked,
         NoteCrossing(op, u, i)
  PROVE  Unsettled' /\ Done'
<1>1. /\ calls[c] = None /\ calls'[c] # None
      /\ calls'[c].op = op /\ calls'[c].user = u /\ calls'[c].id = i /\ calls'[c].record = "grants"
      /\ \A d \in Calls \ {c} : calls'[d] = calls[d]
  BY GrantTyped
<1>2. UNCHANGED <<shared, grants, received, default, created, stale>>
  BY DEF records
<1>3. \A v \in Users, j \in Ids : <<v, j>> = <<u, i>> => v = u /\ j = i
  OBVIOUS
<1>4. Unsettled'
  <2> SUFFICES ASSUME NEW d \in Calls, NEW v \in Users, NEW j \in Ids
               PROVE  /\ InProgress(d, "grant", v, j)' => <<v, j>> \notin revoked'
                      /\ InProgress(d, "revoke", v, j)' => <<v, j>> \notin granted'
                      /\ InProgress(d, "grant", v, j)' =>
                           \A e \in Calls : InProgress(e, "revoke", v, j)' => <<v, j>> \in crossed'
    BY DEF Unsettled
  <2>1. \A e \in Calls, o \in {"grant", "revoke"} :
          InProgress(e, o, v, j)' => InProgress(e, o, v, j) \/ (e = c /\ o = op /\ v = u /\ j = i)
    BY <1>1 DEF InProgress
  <2>2. CASE v = u /\ j = i
    BY <2>1, <2>2, Crossing DEF Unsettled
  <2>3. CASE ~(v = u /\ j = i)
    BY <1>3, <2>1, <2>3, Crossing DEF Unsettled
  <2> QED BY <2>2, <2>3
<1>5. Progress'
  <2> SUFFICES ASSUME NEW d \in Calls, NEW v \in Users, NEW j \in Ids, <<v, j>> \notin crossed'
               PROVE  /\ InProgress(d, "grant", v, j)' /\ calls'[d].record = "received" =>
                           ("grants" \notin stale => j \in InGrants(grants, v))
                      /\ InProgress(d, "revoke", v, j)' /\ calls'[d].record # "grants" =>
                           ("grants" \notin stale => j \notin InGrants(grants, v))
                      /\ InProgress(d, "revoke", v, j)' /\ calls'[d].record = "default" =>
                           ("received" \notin stale => j \notin received[v])
    BY <1>2 DEF Progress, InGrants
  <2>1. CASE d = c
    BY <1>1, <2>1 DEF InProgress
  <2>2. CASE d # c
    <3>1. \A o \in {"grant", "revoke"} : InProgress(d, o, v, j)' <=> InProgress(d, o, v, j)
      BY <1>1, <2>2 DEF InProgress
    <3>2. InProgress(d, "grant", v, j) \/ InProgress(d, "revoke", v, j) => <<v, j>> \notin crossed
      BY <1>3, Crossing
    <3> QED BY <1>1, <2>2, <3>1, <3>2 DEF Done, Progress
  <2> QED BY <2>1, <2>2
<1>6. RevokedIsGone' /\ AnsweredIsThere'
  BY <1>2 DEF Done, RevokedIsGone, AnsweredIsThere, InGrants, Listed
<1> QED BY <1>4, <1>5, <1>6 DEF Done

(* The steps of a grant or revocation. *)
LEMMA ReadGrantsSettled ==
  ASSUME TypeOK, Unsettled, Done, NEW c \in Calls, ReadGrants(c)
  PROVE  Unsettled' /\ Done'
<1>1. UNCHANGED <<shared, grants, received, default, created, granted, revoked, stale, crossed>>
  BY DEF ReadGrants, records, answered
<1>2. Unsettled'
  BY <1>1, ReadGrantsTyped, UnsettledKept DEF Same
<1>3. Progress'
  BY <1>1, ReadGrantsTyped DEF Done, Progress, InProgress, InGrants
<1>4. RevokedIsGone' /\ AnsweredIsThere'
  BY <1>1 DEF Done, RevokedIsGone, AnsweredIsThere, InGrants, Listed
<1> QED BY <1>2, <1>3, <1>4 DEF Done

LEMMA WriteGrantsSettled ==
  ASSUME TypeOK, Unsettled, Done, NEW c \in Calls, WriteGrants(c)
  PROVE  Unsettled' /\ Done'
<1> DEFINE call == calls[c]
<1>1. /\ call # None /\ call.op \in {"grant", "revoke"} /\ call.user \in Users /\ call.id \in Ids
      /\ calls'[c] # None /\ calls'[c].op = call.op /\ calls'[c].user = call.user /\ calls'[c].id = call.id
      /\ calls'[c].record = "received" /\ \A d \in Calls \ {c} : calls'[d] = calls[d]
  BY WriteGrantsTyped, Fields
<1>2. /\ UNCHANGED <<shared, received, default, created, granted, revoked, crossed>>
      /\ stale \subseteq stale' /\ (grants # call.copy => "grants" \in stale')
  BY NoteStaleTyped DEF WriteGrants, Records
<1>3. Unsettled'
  BY <1>1, <1>2, UnsettledKept DEF Same
<1>4. ASSUME "grants" \notin stale', NEW u \in Users, NEW i \in Ids
      PROVE  i \in InGrants(grants, u)' <=>
               IF u = call.user /\ i = call.id THEN call.op = "grant" ELSE i \in InGrants(grants, u)
  <2>1. grants' = [grants EXCEPT ![call.user] = Entry(call)] /\ call.copy = grants
    BY <1>2, <1>4 DEF WriteGrants
  <2>2. Entry(call) \in SUBSET Ids /\ Entry(call) # None
    BY <1>1, <2>1, SharesAssumption DEF Entry, InGrants, TypeOK, Table
  <2>3. CASE u = call.user
    BY <1>1, <2>1, <2>2, <2>3 DEF InGrants, Entry, TypeOK, Table
  <2>4. CASE u # call.user
    BY <2>1, <2>4 DEF InGrants, TypeOK, Table
  <2> QED BY <2>3, <2>4
<1>5. \A u \in Users, i \in Ids : InProgress(c, call.op, u, i) <=> u = call.user /\ i = call.id
  BY <1>1 DEF InProgress
<1>6. \A d \in Calls, u \in Users, i \in Ids, op \in {"grant", "revoke"} :
        InProgress(d, op, u, i)' <=> InProgress(d, op, u, i)
  BY <1>1 DEF InProgress
<1>7. Progress'
  <2> SUFFICES ASSUME NEW d \in Calls, NEW u \in Users, NEW i \in Ids, <<u, i>> \notin crossed
               PROVE  /\ InProgress(d, "grant", u, i) /\ calls'[d].record = "received" =>
                           ("grants" \notin stale' => i \in InGrants(grants, u)')
                      /\ InProgress(d, "revoke", u, i) /\ calls'[d].record # "grants" =>
                           ("grants" \notin stale' => i \notin InGrants(grants, u)')
                      /\ InProgress(d, "revoke", u, i) /\ calls'[d].record = "default" =>
                           ("received" \notin stale' => i \notin received[u])
    BY <1>2, <1>6 DEF Progress
  <2>1. CASE d = c
    BY <1>1, <1>4, <1>5, <2>1 DEF InProgress
  <2>2. CASE d # c /\ u = call.user /\ i = call.id
    BY <1>1, <1>2, <1>4, <1>5, <2>2 DEF Done, Progress, Unsettled, InProgress
  <2>3. CASE d # c /\ ~(u = call.user /\ i = call.id)
    BY <1>1, <1>2, <1>4, <2>3 DEF Done, Progress
  <2> QED BY <2>1, <2>2, <2>3
<1>8. RevokedIsGone'
  BY <1>1, <1>2, <1>4, <1>5 DEF Done, RevokedIsGone, Unsettled
<1>9. AnsweredIsThere'
  BY <1>1, <1>2, <1>4, <1>5 DEF Done, AnsweredIsThere, Unsettled, Listed
<1> QED BY <1>3, <1>7, <1>8, <1>9 DEF Done

LEMMA ReadReceivedSettled ==
  ASSUME TypeOK, Unsettled, Done, NEW c \in Calls, ReadReceived(c)
  PROVE  Unsettled' /\ Done'
<1> DEFINE call == calls[c]
<1>1. UNCHANGED <<shared, grants, received, default, created, revoked, stale, crossed>>
  BY DEF ReadReceived, records
<1>2. CASE call.op = "grant" /\ call.id \in received[call.user] /\ calls'[c] = None /\ AnswerGrant(call)
  <2>1. InProgress(c, "grant", call.user, call.id) /\ call.record = "received"
    BY <1>2, ReadReceivedTyped DEF InProgress
  <2>2. granted' = granted \cup ({<<call.user, call.id>>} \ crossed)
    BY <1>2 DEF AnswerGrant, Answered
  <2>3. \A u \in Users, i \in Ids : <<u, i>> = <<call.user, call.id>> => u = call.user /\ i = call.id
    OBVIOUS
  <2>4. \A d \in Calls \ {c} : calls'[d] = calls[d]
    BY ReadReceivedTyped
  <2>5. Unsettled'
    BY <1>1, <1>2, <2>1, <2>2, <2>3, <2>4, UnsettledKept DEF Same
  <2>6. Progress' /\ RevokedIsGone'
    BY <1>1, <1>2, <2>4 DEF Done, Progress, InProgress, InGrants, RevokedIsGone
  <2>7. AnsweredIsThere'
    BY <1>1, <1>2, <2>1, <2>2, <2>3 DEF Done, Progress, AnsweredIsThere, InGrants, Listed
  <2> QED BY <2>5, <2>6, <2>7 DEF Done
<1>3. CASE calls'[c] # None /\ calls'[c].record = "received" /\ UNCHANGED granted
  <2>1. \A d \in Calls : Stays(d)
    BY <1>3, ReadReceivedTyped DEF Stays, Same
  <2> QED BY <1>1, <1>3, <2>1, Quiet
<1> QED BY <1>2, <1>3, ReadReceivedTyped

LEMMA WriteReceivedSettled ==
  ASSUME TypeOK, Unsettled, Done, NEW c \in Calls, WriteReceived(c)
  PROVE  Unsettled' /\ Done'
<1> DEFINE call == calls[c]
<1>1. /\ call # None /\ call.op \in {"grant", "revoke"} /\ call.record = "received"
      /\ call.user \in Users /\ call.id \in Ids /\ \A d \in Calls \ {c} : calls'[d] = calls[d]
  BY WriteReceivedTyped, Fields
<1>2. /\ UNCHANGED <<shared, grants, default, created, revoked, crossed>>
      /\ stale \subseteq stale' /\ (received[call.user] # call.copy => "received" \in stale')
  BY NoteStaleTyped DEF WriteReceived, Records
<1>3. \/ call.op = "grant" /\ calls'[c] = None /\ granted' = granted \cup ({<<call.user, call.id>>} \ crossed)
      \/ /\ call.op = "revoke" /\ granted' = granted /\ calls'[c] # None /\ calls'[c].record = "default"
         /\ calls'[c].op = call.op /\ calls'[c].user = call.user /\ calls'[c].id = call.id
  BY WriteReceivedTyped DEF AnswerGrant, Answered
<1>4. \A u \in Users, i \in Ids : <<u, i>> = <<call.user, call.id>> => u = call.user /\ i = call.id
  OBVIOUS
<1>5. \A u \in Users, i \in Ids : InProgress(c, call.op, u, i) <=> u = call.user /\ i = call.id
  BY <1>1 DEF InProgress
<1>6. ASSUME "received" \notin stale', NEW u \in Users, NEW i \in Ids
      PROVE  i \in received'[u] <=>
               IF u = call.user /\ i = call.id THEN call.op = "grant" ELSE i \in received[u]
  BY <1>1, <1>2, <1>6, WriteReceivedTyped DEF TypeOK
<1>7. Unsettled'
  BY <1>1, <1>2, <1>3, <1>4, <1>5, UnsettledKept DEF Same
<1>8. Progress'
  <2> SUFFICES ASSUME NEW d \in Calls, NEW u \in Users, NEW i \in Ids, <<u, i>> \notin crossed
               PROVE  /\ InProgress(d, "grant", u, i)' /\ calls'[d].record = "received" =>
                           ("grants" \notin stale' => i \in InGrants(grants, u))
                      /\ InProgress(d, "revoke", u, i)' /\ calls'[d].record # "grants" =>
                           ("grants" \notin stale' => i \notin InGrants(grants, u))
                      /\ InProgress(d, "revoke", u, i)' /\ calls'[d].record = "default" =>
                           ("received" \notin stale' => i \notin received'[u])
    BY <1>2 DEF Progress, InGrants
  <2>1. CASE d = c
    BY <1>1, <1>2, <1>3, <1>6, <2>1 DEF Done, Progress, InProgress
  <2>2. CASE d # c
    <3>1. \A op \in {"grant", "revoke"} : InProgress(d, op, u, i)' <=> InProgress(d, op, u, i)
      BY <1>1, <2>2 DEF InProgress
    <3>2. CASE u = call.user /\ i = call.id
      BY <1>1, <1>2, <1>5, <1>6, <2>2, <3>1, <3>2 DEF Done, Progress, Unsettled
    <3>3. CASE ~(u = call.user /\ i = call.id)
      BY <1>1, <1>2, <1>6, <2>2, <3>1, <3>3 DEF Done, Progress
    <3> QED BY <3>2, <3>3
  <2> QED BY <2>1, <2>2
<1>9. RevokedIsGone'
  <2> SUFFICES ASSUME NEW u \in Users, NEW i \in Ids, <<u, i>> \in revoked
               PROVE  /\ "grants" \notin stale' => i \notin InGrants(grants, u)
                      /\ "received" \notin stale' => i \notin received'[u]
                      /\ stale' \cap {"received", "default"} = {} => default[u] # i
    BY <1>2 DEF RevokedIsGone, InGrants
  <2> QED BY <1>1, <1>2, <1>5, <1>6 DEF Done, RevokedIsGone, Unsettled
<1>10. AnsweredIsThere'
  <2>1. "shared" \notin stale' => created' \subseteq Listed'
    BY <1>2 DEF Done, AnsweredIsThere, Listed
  <2>2. ASSUME NEW u \in Users, NEW i \in Ids, <<u, i>> \in granted'
        PROVE  /\ "grants" \notin stale' => i \in InGrants(grants, u)
               /\ "received" \notin stale' => i \in received'[u]
    <3>1. CASE u = call.user /\ i = call.id
      BY <1>1, <1>2, <1>3, <1>5, <1>6, <2>2, <3>1 DEF Done, AnsweredIsThere, Unsettled, Progress
    <3>2. CASE ~(u = call.user /\ i = call.id)
      BY <1>2, <1>3, <1>4, <1>6, <2>2, <3>2 DEF Done, AnsweredIsThere
    <3> QED BY <3>1, <3>2
  <2> QED BY <1>2, <2>1, <2>2 DEF AnsweredIsThere, InGrants
<1> QED BY <1>7, <1>8, <1>9, <1>10 DEF Done

(* A revocation is answered: the share is in no record, and no default. *)
LEMMA RevocationEnds ==
  ASSUME TypeOK, Unsettled, Done, NEW c \in Calls, calls[c] # None, calls[c].op = "revoke",
         calls[c].record = "default", End(c), AnswerRevocation(calls[c]),
         UNCHANGED <<shared, grants, received, created, granted, crossed>>, stale \subseteq stale',
         \A u \in Users : default'[u] \in {default[u], None},
         default'[calls[c].user] # calls[c].id
  PROVE  Unsettled' /\ Done'
<1> DEFINE call == calls[c]
<1>1. calls'[c] = None /\ \A d \in Calls \ {c} : calls'[d] = calls[d]
  BY Ends
<1>2. revoked' = revoked \cup ({<<call.user, call.id>>} \ crossed)
  BY DEF AnswerRevocation, Answered
<1>3. \A u \in Users, i \in Ids : <<u, i>> = <<call.user, call.id>> => u = call.user /\ i = call.id
  OBVIOUS
<1>4. InProgress(c, "revoke", call.user, call.id)
  BY DEF InProgress
<1>5. Unsettled'
  BY <1>1, <1>2, <1>3, <1>4, UnsettledKept DEF Same
<1>6. Progress' /\ AnsweredIsThere'
  BY <1>1 DEF Done, Progress, InProgress, InGrants, AnsweredIsThere, Listed
<1>7. RevokedIsGone'
  <2> SUFFICES ASSUME NEW u \in Users, NEW i \in Ids, <<u, i>> \in revoked'
               PROVE  /\ "grants" \notin stale' => i \notin InGrants(grants, u)
                      /\ "received" \notin stale' => i \notin received[u]
                      /\ stale' \cap {"received", "default"} = {} => default'[u] # i
    BY DEF RevokedIsGone, InGrants
  <2>1. CASE <<u, i>> \in revoked
    BY <2>1, SharesAssumption DEF Done, RevokedIsGone
  <2>2. CASE <<u, i>> \notin revoked
    BY <1>2, <1>3, <1>4, <2>2 DEF Done, Progress
  <2> QED BY <2>1, <2>2
<1> QED BY <1>5, <1>6, <1>7 DEF Done

LEMMA DefaultSettled ==
  ASSUME TypeOK, Unsettled, Done, NEW c \in Calls, ReadDefault(c) \/ WriteDefault(c)
  PROVE  Unsettled' /\ Done'
<1>1. CASE ReadDefault(c)
  <2>1. UNCHANGED <<shared, grants, received, default, created, granted, stale, crossed>>
    BY <1>1 DEF ReadDefault, records
  <2>2. CASE default[calls[c].user] = calls[c].id
    <3>1. (\A d \in Calls : Stays(d)) /\ UNCHANGED revoked
      BY <1>1, <2>2, ReadDefaultTyped DEF Stays, Same
    <3> QED BY <2>1, <3>1, Quiet
  <2>3. CASE default[calls[c].user] # calls[c].id
    BY <1>1, <2>1, <2>3, RevocationEnds DEF ReadDefault, At
  <2> QED BY <2>2, <2>3
<1>2. CASE WriteDefault(c)
  <2>1. calls[c] # None /\ calls[c].user \in Users /\ calls[c].id \in Ids
    BY <1>2, Fields DEF WriteDefault, At
  <2>2. stale \subseteq stale'
    BY <1>2, NoteStaleTyped DEF WriteDefault, Records
  <2>3. default' = [default EXCEPT ![calls[c].user] = None]
    BY <1>2 DEF WriteDefault
  <2>4. (\A u \in Users : default'[u] \in {default[u], None}) /\ default'[calls[c].user] # calls[c].id
    BY <2>1, <2>3, SharesAssumption DEF TypeOK
  <2> QED BY <1>2, <2>2, <2>4, RevocationEnds DEF WriteDefault, At
<1> QED BY <1>1, <1>2

LEMMA SelectSettled ==
  ASSUME TypeOK, Unsettled, Done, NEW c \in Calls, SelectDefault(c) \/ SelectReceived(c)
  PROVE  Unsettled' /\ Done'
<1>1. CASE SelectDefault(c)
  <2>1. /\ UNCHANGED <<shared, grants, received, created, granted, revoked, crossed>>
        /\ default' = [default EXCEPT ![calls[c].user] = calls[c].id]
        /\ stale \subseteq stale' /\ (calls[c].id \notin received[calls[c].user] => "default" \in stale')
    BY <1>1, NoteStaleTyped DEF SelectDefault, Records
  <2>2. \A d \in Calls : Stays(d)
    BY <1>1, SelectDefaultTyped DEF Stays, Same
  <2>3. Unsettled'
    BY <2>1, <2>2, UnsettledKept DEF Stays
  <2>4. Progress'
    BY <2>1, <2>2 DEF Done, Progress, InProgress, InGrants, Stays, Same
  <2>5. RevokedIsGone' /\ AnsweredIsThere'
    BY <2>1 DEF Done, RevokedIsGone, AnsweredIsThere, InGrants, Listed, TypeOK
  <2> QED BY <2>3, <2>4, <2>5 DEF Done
<1>2. CASE SelectReceived(c)
  <2>1. /\ UNCHANGED <<shared, grants, default, created, granted, revoked, crossed>>
        /\ received' = [received EXCEPT ![calls[c].user] = calls[c].copy]
        /\ stale \subseteq stale' /\ (received[calls[c].user] # calls[c].copy => "received" \in stale')
    BY <1>2, NoteStaleTyped DEF SelectReceived, Records
  <2>2. "received" \notin stale' => received' = received
    BY <2>1 DEF TypeOK
  <2>3. \A d \in Calls : Stays(d)
    BY <1>2, Ends DEF SelectReceived, Stays, Same
  <2>4. Unsettled'
    BY <2>1, <2>3, UnsettledKept DEF Stays
  <2>5. Progress'
    BY <2>1, <2>2, <2>3 DEF Done, Progress, InProgress, InGrants, Stays, Same
  <2>6. RevokedIsGone' /\ AnsweredIsThere'
    BY <2>1, <2>2 DEF Done, RevokedIsGone, AnsweredIsThere, InGrants, Listed
  <2> QED BY <2>4, <2>5, <2>6 DEF Done
<1> QED BY <1>1, <1>2

LEMMA NextSettled == TypeOK /\ Opens /\ Unsettled /\ Done /\ [Next]_vars => Unsettled' /\ Done'
<1> SUFFICES ASSUME TypeOK, Opens, Unsettled, Done, [Next]_vars PROVE Unsettled' /\ Done'
  OBVIOUS
<1>1. ASSUME NEW c \in Calls, NEW u \in Users, NEW i \in Ids, GrantShare(c, u, i) PROVE Unsettled' /\ Done'
  BY <1>1, Begun DEF GrantShare
<1>2. ASSUME NEW c \in Calls, NEW u \in Users, NEW i \in Ids, RevokeShare(c, u, i) PROVE Unsettled' /\ Done'
  BY <1>2, Begun DEF RevokeShare
<1> QED BY <1>1, <1>2, QuietSteps, ReadGrantsSettled, WriteGrantsSettled, ReadReceivedSettled, WriteReceivedSettled,
           DefaultSettled, SelectSettled DEF Next

(* The inductive invariant holds. *)
THEOREM SharesInvariant == Spec => []SharesIInv
<1>1. Init => TypeOK /\ Opens /\ Unsettled /\ Done
  BY InitTyped, InitOpens, InitSettled
<1>2. TypeOK /\ Opens /\ Unsettled /\ Done /\ [Next]_vars => TypeOK' /\ Opens' /\ Unsettled' /\ Done'
  BY NextTyped, NextOpens, NextSettled
<1>3. TypeOK /\ Opens /\ Unsettled /\ Done => SharesIInv
  BY DEF SharesIInv, Opens, Done
<1> QED BY <1>1, <1>2, <1>3, PTL DEF Spec

(* What was revoked is gone: a revocation that was answered holds in every  *)
(* record that no handler has written over since.                           *)
THEOREM Revoked == Spec => []RevokedIsGone
<1>1. SharesIInv => RevokedIsGone
  BY DEF SharesIInv
<1> QED BY <1>1, SharesInvariant, PTL

(* What was created or granted is there, under the same condition. *)
THEOREM Granted == Spec => []AnsweredIsThere
<1>1. SharesIInv => AnsweredIsThere
  BY DEF SharesIInv
<1> QED BY <1>1, SharesInvariant, PTL
=============================================================================
