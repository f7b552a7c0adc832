-------------------------- MODULE ProfilesProofs --------------------------
(***************************************************************************)
(* For every set of profiles, tokens, passwords and calls, and any number  *)
(* of salts: the model profiles of a user open with the key of his record, *)
(* an answered profile is not lost, and a cached key ends with its         *)
(* session.                                                                *)
(***************************************************************************)
EXTENDS Profiles, TLAPS

(* What a handler carries at each of its steps. *)
Formed(c) ==
  LET call == calls[c] IN
  /\ call.op = "unlock" /\ call.step # "read" => call.salt \in Salts
  /\ call.op = "change" /\ call.step \in {"read", "profiles", "salt"} =>
       call.salt \in Salts /\ call.fresh \in Salts
  /\ call.op \in {"create", "update"} /\ call.step # "kek" => call.key # None
  /\ call.op = "remove" => call.key = None

Typed == TypeOK /\ \A c \in Busy : Formed(c)

(* As long as nothing disturbs a change of the password, a change is alone, *)
(* only one handler may draw the first salt, and each handler works with    *)
(* the key under which the profiles are.                                    *)
Opens(i, key) == profiles[i] \in {None, key}

InStep(call) ==
  /\ call.op = "unlock" =>
       /\ call.password = password
       /\ call.step = "bind" => call.salt = kdf
       /\ call.step = "salt" => kdf = None
  /\ call.op \in Writers =>
       /\ call.key \in {None, Current}
       /\ \A i \in Ids : call.copy[i] \in {None, Current}
  /\ call.op = "change" /\ call.step = "record" => call.old = password
  /\ call.op = "change" /\ call.step # "record" => call.new = password
  /\ call.op = "change" /\ call.step = "kdf" =>
       \A i \in Ids : Opens(i, [password |-> call.old, salt |-> kdf])
  /\ call.op = "change" /\ call.step \in {"read", "profiles"} =>
       call.salt = kdf /\ \A i \in Ids : Opens(i, OldKey(call))
  /\ call.op = "change" /\ call.step = "profiles" => call.copy = profiles
  /\ call.op = "change" /\ call.step = "salt" => \A i \in Ids : Opens(i, NewKey(call))

Sound == (\A i \in Ids : Opens(i, Current)) /\ Kek \in {None, Current}

OnCourse ==
  ~disturbed =>
    /\ \A c \in Op({"change"}) : Busy = {c}
    /\ kdf = None => \A c, d \in Op({"unlock"}) : c = d
    /\ \A c \in Busy : InStep(calls[c])
    /\ ~Changed => Sound

TokensKnown == \A c \in Busy : calls[c].token \in live \cup outlived

-----------------------------------------------------------------------------
LEMMA CallTypes ==
  ASSUME TypeOK, NEW c \in Busy
  PROVE  /\ c \in Calls
         /\ calls[c].op \in {"unlock", "change"} \cup Writers
         /\ calls[c].op = "unlock" => calls[c] \in Unlocking
         /\ calls[c].op \in Writers => calls[c] \in Writing
         /\ calls[c].op = "change" => calls[c] \in Changing
         /\ calls[c].token \in Tokens
BY DEF TypeOK, Busy, Unlocking, Writing, Changing, Writers

(* The record of one handler changes, those of the others do not. *)
Moves(c, call) == calls' = [calls EXCEPT ![c] = call]

LEMMA Moved ==
  ASSUME TypeOK, NEW c \in Calls, NEW call, Moves(c, call)
  PROVE  /\ calls'[c] = call
         /\ \A d \in Calls \ {c} : calls'[d] = calls[d]
         /\ call # None => Busy' = Busy \cup {c}
         /\ call = None => Busy' = Busy \ {c}
BY DEF TypeOK, Moves, Busy

LEMMA MovedTyped ==
  ASSUME Typed, NEW c \in Calls, NEW call \in Unlocking \cup Writing \cup Changing, Moves(c, call),
         call.op = "unlock" /\ call.step # "read" => call.salt \in Salts,
         call.op = "change" /\ call.step \in {"read", "profiles", "salt"} =>
           call.salt \in Salts /\ call.fresh \in Salts,
         call.op \in {"create", "update"} /\ call.step # "kek" => call.key # None,
         call.op = "remove" => call.key = None
  PROVE  /\ calls' \in [Calls -> Unlocking \cup Writing \cup Changing \cup {None}]
         /\ \A d \in Busy' : Formed(d)'
<1>1. call # None
  BY ProfilesAssumption
<1>2. /\ calls'[c] = call
      /\ \A d \in Calls \ {c} : calls'[d] = calls[d]
      /\ Busy' = Busy \cup {c}
  BY <1>1, Moved DEF Typed
<1>3. calls' \in [Calls -> Unlocking \cup Writing \cup Changing \cup {None}]
  BY DEF Moves, Typed, TypeOK
<1>4. Formed(c)'
  BY <1>2 DEF Formed
<1>5. ASSUME NEW d \in Busy', d # c PROVE Formed(d)'
  <2>1. d \in Busy /\ d \in Calls /\ calls'[d] = calls[d]
    BY <1>2, <1>5 DEF Busy
  <2> QED BY <2>1 DEF Formed, Typed
<1> QED BY <1>3, <1>4, <1>5

LEMMA EndedTyped ==
  ASSUME Typed, NEW c \in Calls, End(c)
  PROVE  /\ calls' \in [Calls -> Unlocking \cup Writing \cup Changing \cup {None}]
         /\ \A d \in Busy' : Formed(d)'
<1>1. /\ \A d \in Calls \ {c} : calls'[d] = calls[d]
      /\ Busy' = Busy \ {c}
  BY Moved DEF Typed, End, Moves
<1>2. calls' \in [Calls -> Unlocking \cup Writing \cup Changing \cup {None}]
  BY DEF End, Typed, TypeOK
<1>3. ASSUME NEW d \in Busy' PROVE Formed(d)'
  <2>1. d \in Busy /\ d \in Calls /\ calls'[d] = calls[d]
    BY <1>1 DEF Busy
  <2> QED BY <2>1 DEF Formed, Typed
<1> QED BY <1>2, <1>3

LEMMA InitTyped == Init => Typed
<1> SUFFICES ASSUME Init PROVE Typed
  OBVIOUS
<1>1. calls \in [Calls -> Unlocking \cup Writing \cup Changing \cup {None}] /\ Busy = {}
  BY DEF Init, Busy
<1>2. profiles \in Profile /\ registry \in [Tokens -> Key \cup {None}]
  BY DEF Init, NoProfiles, NoKeys, Profile
<1>3. salts \in 0..MaxSalts
  BY ProfilesAssumption DEF Init
<1>4. TypeOK
  BY <1>1, <1>2, <1>3 DEF Init, TypeOK
<1> QED BY <1>1, <1>4 DEF Typed

LEMMA KeysOfCalls ==
  ASSUME Typed
  PROVE  /\ NoProfiles \in Profile /\ NoKeys \in [Tokens -> Key \cup {None}]
         /\ Kek \in Key \cup {None}
         /\ \A c \in Op({"change"}) : OldKey(calls[c]).password \in Passwords
         /\ \A c \in Op({"change"}) :
              calls[c].step \in {"read", "profiles", "salt"} =>
                OldKey(calls[c]) \in Key /\ NewKey(calls[c]) \in Key
<1>1. NoProfiles \in Profile /\ NoKeys \in [Tokens -> Key \cup {None}]
  BY DEF NoProfiles, NoKeys, Profile
<1>2. Kek \in Key \cup {None}
  BY DEF Kek, Typed, TypeOK
<1>3. ASSUME NEW c \in Op({"change"})
      PROVE  /\ OldKey(calls[c]).password \in Passwords
             /\ calls[c].step \in {"read", "profiles", "salt"} =>
                  OldKey(calls[c]) \in Key /\ NewKey(calls[c]) \in Key
  <2>1. c \in Busy /\ calls[c] \in Changing /\ Formed(c) /\ calls[c].op = "change"
    BY CallTypes DEF Op, Typed
  <2> QED BY <2>1 DEF Changing, OldKey, NewKey, Key, Formed
<1> QED BY <1>1, <1>2, <1>3

(* TypeOK but for the handlers. *)
LEMMA NextTyped ==
  ASSUME Typed, UserStep, UNCHANGED resetting
  PROVE  Typed'
<1> USE DEF Typed, history, records, memory
<1> DEFINE Records == Unlocking \cup Writing \cup Changing
           Good == /\ calls' \in [Calls -> Records \cup {None}]
                   /\ \A d \in Busy' : Formed(d)'
<1>a. ASSUME UNCHANGED calls PROVE Good
  BY <1>a DEF TypeOK, Busy, Formed
<1>b. NoProfiles \in Profile /\ NoKeys \in [Tokens -> Key \cup {None}] /\ Kek \in Key \cup {None}
  BY KeysOfCalls
<1>1. ASSUME NEW t \in Tokens, Login(t) \/ Lock(t) \/ Logout(t) \/ Expire(t) PROVE Typed'
  <2>1. Good
    BY <1>1, <1>a DEF Login, Lock, Logout, Expire
  <2>2. live' \subseteq Tokens /\ outlived' \subseteq Tokens
    BY <1>1 DEF Login, Lock, Logout, Expire, Ends, TypeOK
  <2>3. registry' \in [Tokens -> Key \cup {None}] /\ bound' \in Tokens \cup {None}
    BY <1>1 DEF Login, Lock, Logout, Expire, TypeOK
  <2> QED BY <1>1, <2>1, <2>2, <2>3 DEF Login, Lock, Logout, Expire, TypeOK
<1>2. ASSUME NEW c \in Calls, NEW t \in Tokens, Unlock(c, t) PROVE Typed'
  <2> DEFINE call == [op |-> "unlock", step |-> "read", token |-> t, password |-> password, salt |-> None]
  <2>1. call \in Unlocking
    BY DEF Unlocking, TypeOK
  <2>2. Good
    <3> HIDE DEF call
    <3>1. Moves(c, call)
      BY <1>2 DEF Unlock, Begin, Moves, call
    <3>2. call.op = "unlock" /\ call.step = "read"
      BY DEF call
    <3> QED BY <2>1, <3>1, <3>2, MovedTyped
  <2> QED BY <1>2, <2>2 DEF Unlock, NoteOverlap, TypeOK
<1>3. ASSUME NEW c \in Calls, NEW t \in Tokens, NEW i \in Ids,
             CreateProfile(c, t, i) \/ RemoveProfile(c, t, i)
               \/ \E new \in BOOLEAN : UpdateProfile(c, t, i, new)
      PROVE Typed'
  <2>1. PICK call \in Writing :
          /\ Moves(c, call)
          /\ call.op \in {"create", "update"} /\ call.step # "kek" => call.key # None
          /\ call.op = "remove" => call.key = None
          /\ call.op \in Writers
    <3>1. CASE CreateProfile(c, t, i)
      <4> DEFINE call == [op |-> "create", step |-> "read", token |-> t, id |-> i, key |-> Kek,
                          copy |-> NoProfiles]
      <4>1. call \in Writing
        BY <1>b DEF Writing
      <4> QED BY <3>1, <4>1 DEF CreateProfile, Begin, Moves, Writers
    <3>2. CASE RemoveProfile(c, t, i)
      <4> DEFINE call == [op |-> "remove", step |-> "read", token |-> t, id |-> i,
               key |-> None, copy |-> NoProfiles]
      <4>1. call \in Writing
        BY <1>b DEF Writing
      <4> QED BY <3>2, <4>1 DEF RemoveProfile, Begin, Moves, Writers
    <3>3. ASSUME NEW new \in BOOLEAN, UpdateProfile(c, t, i, new)
          PROVE \E call \in Writing :
                  /\ Moves(c, call)
                  /\ call.op \in {"create", "update"} /\ call.step # "kek" => call.key # None
                  /\ call.op = "remove" => call.key = None
                  /\ call.op \in Writers
      <4> DEFINE key == IF new THEN None ELSE profiles[i]
                 step == IF new THEN "kek" ELSE "read"
                 call == [op |-> "update", step |-> step, token |-> t, id |-> i,
                          key |-> key, copy |-> NoProfiles]
      <4>1. key \in Key \cup {None} /\ (step # "kek" => key # None)
        BY <1>b, <3>3 DEF UpdateProfile, TypeOK, Profile
      <4>2. call \in Writing
        BY <1>b, <4>1 DEF Writing
      <4> QED BY <3>3, <4>1, <4>2 DEF UpdateProfile, Begin, Moves, Writers
    <3> QED BY <1>3, <3>1, <3>2, <3>3
  <2>2. Good
    BY <2>1, MovedTyped DEF Writers
  <2> QED BY <1>3, <2>2 DEF CreateProfile, RemoveProfile, UpdateProfile, NoteOverlap, TypeOK
<1>4. ASSUME NEW c \in Calls, NEW t \in Tokens, NEW new \in Passwords, ChangePassword(c, t, new)
      PROVE Typed'
  <2> DEFINE call == [op |-> "change", step |-> "record", token |-> t, old |-> password, new |-> new,
                      salt |-> None, fresh |-> None, copy |-> NoProfiles]
  <2>1. call \in Changing
    BY <1>b DEF Changing, TypeOK
  <2>2. Good
    <3> HIDE DEF call
    <3>1. Moves(c, call)
      BY <1>4 DEF ChangePassword, Begin, Moves, call
    <3>2. call.op = "change" /\ call.step = "record"
      BY DEF call
    <3> QED BY <2>1, <3>1, <3>2, MovedTyped
  <2> QED BY <1>4, <2>2 DEF ChangePassword, NoteOverlap, TypeOK
<1>5. ASSUME NEW c \in Calls, ReadSalt(c) PROVE Typed'
  <2>1. calls[c] \in Unlocking /\ c \in DOMAIN calls
    BY <1>5, CallTypes DEF ReadSalt, At, Op, TypeOK
  <2>2. PICK salt \in Salts, step \in {"salt", "bind"} :
          /\ calls' = [calls EXCEPT ![c].salt = salt, ![c].step = step]
          /\ salts' \in 0..MaxSalts
    BY <1>5, ProfilesAssumption DEF ReadSalt, TypeOK, Salts
  <2> DEFINE call == [calls[c] EXCEPT !.salt = salt, !.step = step]
  <2>3. call \in Unlocking /\ call.op = "unlock" /\ call.salt \in Salts
    BY <2>1, <2>2 DEF Unlocking
  <2>4. Moves(c, call)
    BY <2>1, <2>2 DEF Moves
  <2>5. Good
    <3> HIDE DEF call
    <3> QED BY <2>3, <2>4, MovedTyped
  <2> QED BY <1>5, <2>2, <2>5 DEF ReadSalt, TypeOK
<1>6. ASSUME NEW c \in Calls, WriteSalt(c) PROVE Typed'
  <2>1. calls[c] \in Unlocking /\ c \in DOMAIN calls /\ calls[c].salt \in Salts
    BY <1>6, CallTypes DEF WriteSalt, At, Op, TypeOK, Formed
  <2> DEFINE call == [calls[c] EXCEPT !.step = "bind"]
  <2>3. call \in Unlocking /\ call.op = "unlock" /\ call.salt \in Salts
    BY <2>1 DEF Unlocking
  <2>4. Moves(c, call)
    BY <1>6, <2>1 DEF Moves, WriteSalt
  <2>5. Good
    <3> HIDE DEF call
    <3> QED BY <2>3, <2>4, MovedTyped
  <2> QED BY <1>6, <2>1, <2>5 DEF WriteSalt, TypeOK
<1>7. ASSUME NEW c \in Calls, BindSession(c) PROVE Typed'
  <2>1. calls[c] \in Unlocking /\ calls[c].salt \in Salts
    BY <1>7, CallTypes DEF BindSession, At, Op, TypeOK, Formed
  <2>2. [password |-> calls[c].password, salt |-> calls[c].salt] \in Key /\ calls[c].token \in Tokens
    BY <2>1 DEF Unlocking, Key
  <2>3. registry' \in [Tokens -> Key \cup {None}]
    BY <1>7, <2>2 DEF BindSession, TypeOK
  <2>4. Good
    BY <1>7, EndedTyped DEF BindSession
  <2> QED BY <1>7, <2>2, <2>3, <2>4 DEF BindSession, TypeOK
<1>8. ASSUME NEW c \in Calls, ReadProfiles(c) PROVE Typed'
  <2>1. /\ calls[c] \in Writing /\ c \in DOMAIN calls /\ Formed(c) /\ calls[c].op \in Writers
        /\ calls[c].step # "kek"
    BY <1>8, CallTypes DEF ReadProfiles, At, Op, TypeOK
  <2> DEFINE call == [calls[c] EXCEPT !.copy = profiles, !.step = "write"]
  <2>2. call \in Writing /\ call.op = calls[c].op /\ call.key = calls[c].key
    BY <2>1 DEF Writing, TypeOK
  <2>3. Moves(c, call)
    BY <1>8, <2>1 DEF Moves, ReadProfiles
  <2>4. Good
    <3> HIDE DEF call
    <3> QED BY <2>1, <2>2, <2>3, MovedTyped DEF Formed, Writers
  <2> QED BY <1>8, <2>4 DEF ReadProfiles, TypeOK
<1>9. ASSUME NEW c \in Calls, WriteProfiles(c) PROVE Typed'
  <2>1. calls[c] \in Writing
    BY <1>9, CallTypes DEF WriteProfiles, At, Op
  <2>2. Written(calls[c]) \in Profile /\ calls[c].id \in Ids
    BY <2>1 DEF Writing, Written, Profile
  <2>3. kept' \subseteq Ids /\ lossy' \in BOOLEAN
    BY <1>9, <2>2 DEF WriteProfiles, TypeOK
  <2>4. Good
    BY <1>9, EndedTyped DEF WriteProfiles
  <2> QED BY <1>9, <2>2, <2>3, <2>4 DEF WriteProfiles, TypeOK
<1>10. ASSUME NEW c \in Calls, WriteRecord(c) PROVE Typed'
  <2>1. calls[c] \in Changing /\ c \in DOMAIN calls
    BY <1>10, CallTypes DEF WriteRecord, At, Op, TypeOK
  <2> DEFINE call == [calls[c] EXCEPT !.step = "kdf"]
  <2>2. call \in Changing /\ call.op = "change" /\ call.step = "kdf" /\ calls[c].new \in Passwords
    BY <2>1 DEF Changing
  <2>3. Moves(c, call)
    BY <1>10, <2>1 DEF Moves, WriteRecord
  <2>4. Good
    <3> HIDE DEF call
    <3> QED BY <2>2, <2>3, MovedTyped
  <2> QED BY <1>10, <2>2, <2>4 DEF WriteRecord, TypeOK
<1>11. ASSUME NEW c \in Calls, ReadKdf(c) PROVE Typed'
  <2>1. calls[c] \in Changing /\ c \in DOMAIN calls
    BY <1>11, CallTypes DEF ReadKdf, At, Op, TypeOK
  <2>2. CASE kdf = None
    <3>1. /\ End(c) /\ live' = {} /\ outlived' = outlived \cup live \cup {calls[c].token}
          /\ registry' = NoKeys /\ bound' = None /\ UNCHANGED salts
      BY <1>11, <2>2 DEF ReadKdf, EndChange, DropUser
    <3>2. Good /\ calls[c].token \in Tokens
      BY <2>1, <3>1, EndedTyped DEF Changing
    <3> QED BY <1>11, <1>b, <3>1, <3>2 DEF ReadKdf, TypeOK
  <2>3. CASE kdf # None
    <3> DEFINE call == [calls[c] EXCEPT !.salt = kdf, !.fresh = salts + 1, !.step = "read"]
    <3>1. /\ calls' = [calls EXCEPT ![c].salt = kdf, ![c].fresh = salts + 1, ![c].step = "read"]
          /\ salts < MaxSalts /\ salts' = salts + 1
          /\ UNCHANGED <<memory, outlived>>
      BY <1>11, <2>3 DEF ReadKdf
    <3>2. kdf \in Salts /\ salts + 1 \in Salts /\ salts' \in 0..MaxSalts
      BY <2>3, <3>1, ProfilesAssumption DEF TypeOK, Salts
    <3>3. call \in Changing /\ call.op = "change" /\ call.salt \in Salts /\ call.fresh \in Salts
      BY <2>1, <3>2 DEF Changing
    <3>4. Moves(c, call)
      BY <2>1, <3>1 DEF Moves
    <3>5. Good
      <4> HIDE DEF call
      <4> QED BY <3>3, <3>4, MovedTyped
    <3> QED BY <1>11, <3>1, <3>2, <3>5 DEF ReadKdf, TypeOK
  <2> QED BY <2>2, <2>3
<1>12. ASSUME NEW c \in Calls, Rewrap(c) PROVE Typed'
  <2>1. calls[c] \in Changing /\ c \in DOMAIN calls /\ Formed(c) /\ calls[c].op = "change" /\ calls[c].step = "read"
    BY <1>12, CallTypes DEF Rewrap, At, Op, TypeOK
  <2>2. CASE \A i \in Stored : profiles[i] = OldKey(calls[c])
    <3> DEFINE call == [calls[c] EXCEPT !.copy = profiles, !.step = "profiles"]
    <3>1. call \in Changing /\ call.op = "change" /\ call.salt \in Salts /\ call.fresh \in Salts
      BY <2>1 DEF Changing, Formed, TypeOK
    <3>2. Moves(c, call)
      BY <1>12, <2>1, <2>2 DEF Moves, Rewrap
    <3>3. Good
      <4> HIDE DEF call
      <4> QED BY <3>1, <3>2, MovedTyped
    <3> QED BY <1>12, <2>2, <3>3 DEF Rewrap, TypeOK
  <2>3. CASE ~\A i \in Stored : profiles[i] = OldKey(calls[c])
    <3>1. End(c) /\ live' = {} /\ outlived' = outlived \cup live \cup {calls[c].token}
      BY <1>12, <2>3 DEF Rewrap, EndChange
    <3>2. Good /\ calls[c].token \in Tokens
      BY <2>1, <3>1, EndedTyped DEF Changing
    <3> QED BY <1>12, <3>1, <3>2 DEF Rewrap, TypeOK
  <2> QED BY <2>2, <2>3
<1>13. ASSUME NEW c \in Calls, ReplaceAll(c) PROVE Typed'
  <2>1. calls[c] \in Changing /\ c \in DOMAIN calls /\ Formed(c) /\ c \in Op({"change"}) /\ calls[c].step = "profiles"
    BY <1>13, CallTypes DEF ReplaceAll, At, Op, TypeOK
  <2> DEFINE call == [calls[c] EXCEPT !.step = "salt"]
  <2>2. call \in Changing /\ call.op = "change" /\ call.salt \in Salts /\ call.fresh \in Salts
    BY <2>1 DEF Changing, Formed, Op
  <2>3. Moves(c, call)
    BY <1>13, <2>1 DEF Moves, ReplaceAll
  <2>4. Good
    <3> HIDE DEF call
    <3> QED BY <2>2, <2>3, MovedTyped
  <2>5. NewKey(calls[c]) \in Key
    BY <2>1, KeysOfCalls
  <2>6. profiles' \in Profile /\ lossy' \in BOOLEAN
    BY <1>13, <2>5 DEF ReplaceAll, Profile, TypeOK
  <2> QED BY <1>13, <2>4, <2>6 DEF ReplaceAll, TypeOK
<1>14. ASSUME NEW c \in Calls, WriteKdf(c) PROVE Typed'
  <2>1. calls[c] \in Changing /\ Formed(c) /\ c \in Op({"change"}) /\ calls[c].step = "salt"
    BY <1>14, CallTypes DEF WriteKdf, At, Op, TypeOK
  <2>2. NewKey(calls[c]) \in Key /\ calls[c].token \in Tokens /\ calls[c].fresh \in Salts
    BY <2>1, KeysOfCalls DEF Changing, Formed, Op
  <2>3. Good
    BY <1>14, EndedTyped DEF WriteKdf, EndChange
  <2>4. registry' \in [Tokens -> Key \cup {None}]
    BY <1>14, <2>2 DEF WriteKdf, TypeOK
  <2> QED BY <1>14, <2>2, <2>3, <2>4 DEF WriteKdf, EndChange, TypeOK
<1>15. ASSUME NEW c \in Calls, Fails(c) PROVE Typed'
  <2>1. End(c) /\ calls[c].token \in Tokens
    BY <1>15, CallTypes DEF Fails, EndChange
  <2>2. Good
    BY <2>1, EndedTyped
  <2>3. live' \subseteq Tokens /\ outlived' \subseteq Tokens /\ disturbed' \in BOOLEAN
    BY <1>15, <2>1 DEF Fails, EndChange, TypeOK
  <2> QED BY <1>15, <2>2, <2>3 DEF Fails, TypeOK
<1>16. ASSUME NEW c \in Calls, RequireKek(c) PROVE Typed'
  <2>1. calls[c] \in Writing /\ c \in DOMAIN calls /\ calls[c].op = "update" /\ Kek \in Key
    BY <1>16, <1>b, CallTypes DEF RequireKek, At, Op, TypeOK, Writers
  <2> DEFINE call == [calls[c] EXCEPT !.key = Kek, !.step = "read"]
  <2>2. call \in Writing /\ call.op = "update" /\ call.key # None
    BY <1>16, <2>1 DEF Writing, RequireKek
  <2>3. Moves(c, call)
    BY <1>16, <2>1 DEF Moves, RequireKek
  <2>4. Good
    <3> HIDE DEF call
    <3> QED BY <2>2, <2>3, MovedTyped
  <2> QED BY <1>16, <2>4 DEF RequireKek, TypeOK
<1> QED
  BY <1>1, <1>2, <1>3, <1>4, <1>5, <1>6, <1>7, <1>8, <1>9, <1>10, <1>11, <1>12, <1>13, <1>14,
     <1>15, <1>16 DEF UserStep

-----------------------------------------------------------------------------
(* The sessions of the handlers in progress and of the keys in memory.      *)
LEMMA NextKeys ==
  ASSUME Typed, TokensKnown, KeysEndWithTheirSession, UserStep, UNCHANGED resetting
  PROVE  TokensKnown' /\ KeysEndWithTheirSession'
<1> USE DEF Typed, TokensKnown, KeysEndWithTheirSession
<1> DEFINE Known == live \cup outlived
<1>a. ASSUME NEW c \in Calls, NEW call, Moves(c, call), call # None, call.token \in Known,
             Known \subseteq Known'
      PROVE  TokensKnown'
  BY <1>a, Moved DEF Busy
<1>b. ASSUME NEW c \in Calls, End(c), Known \subseteq Known' PROVE TokensKnown'
  BY <1>b, Moved DEF End, Moves, Busy
<1>1. ASSUME NEW t \in Tokens, Login(t) \/ Lock(t) \/ Logout(t) \/ Expire(t)
      PROVE TokensKnown' /\ KeysEndWithTheirSession'
  <2>1. UNCHANGED calls /\ Busy' = Busy
    BY <1>1 DEF Login, Lock, Logout, Expire, Busy
  <2>2. CASE Login(t) \/ Expire(t)
    BY <2>1, <2>2 DEF Login, Expire
  <2>4. CASE Lock(t)
    BY <2>1, <2>4 DEF Lock, TypeOK, history
  <2>3. CASE Logout(t)
    BY <2>1, <2>3 DEF Logout, Ends, TypeOK
  <2> QED BY <1>1, <2>2, <2>3, <2>4
<1>2. ASSUME NEW c \in Calls, NEW t \in Tokens, NEW call,
             t \in live, Begin(c, call), call.token = t, call # None,
             UNCHANGED <<live, outlived, registry>>
      PROVE TokensKnown' /\ KeysEndWithTheirSession'
  BY <1>a, <1>2 DEF Begin, Moves
<1>3. ASSUME NEW c \in Calls, NEW t \in Tokens, Unlock(c, t)
      PROVE TokensKnown' /\ KeysEndWithTheirSession'
  <2> DEFINE call == [op |-> "unlock", step |-> "read", token |-> t, password |-> password, salt |-> None]
  <2>1. call # None /\ call.token = t
    BY ProfilesAssumption DEF Unlocking, TypeOK
  <2> HIDE DEF call
  <2>2. Begin(c, call)
    BY <1>3 DEF Unlock, call
  <2> QED BY <1>2, <1>3, <2>1, <2>2 DEF Unlock, memory
<1>4. ASSUME NEW c \in Calls, NEW t \in Tokens, NEW i \in Ids,
             CreateProfile(c, t, i) \/ RemoveProfile(c, t, i)
               \/ \E new \in BOOLEAN : UpdateProfile(c, t, i, new)
      PROVE TokensKnown' /\ KeysEndWithTheirSession'
  <2>1. ASSUME NEW op \in {"create", "update", "remove"}, NEW step \in {"kek", "read"},
               NEW key \in Key \cup {None}, t \in live,
               Begin(c, [op |-> op, step |-> step, token |-> t, id |-> i, key |-> key, copy |-> NoProfiles]),
               UNCHANGED <<live, outlived, registry>>
        PROVE TokensKnown' /\ KeysEndWithTheirSession'
    <3> DEFINE call == [op |-> op, step |-> step, token |-> t, id |-> i, key |-> key, copy |-> NoProfiles]
    <3>1. call # None /\ call.token = t
      BY ProfilesAssumption, KeysOfCalls DEF Writing
    <3> HIDE DEF call
    <3>2. Begin(c, call)
      BY <2>1 DEF call
    <3> QED BY <1>2, <2>1, <3>1, <3>2
  <2>2. Kek \in Key \cup {None} /\ profiles[i] \in Key \cup {None}
    BY KeysOfCalls DEF TypeOK, Profile
  <2>3. CASE CreateProfile(c, t, i)
    BY <2>1, <2>2, <2>3 DEF CreateProfile, memory
  <2>4. CASE RemoveProfile(c, t, i)
    BY <2>1, <2>4 DEF RemoveProfile, memory
  <2>5. ASSUME NEW new \in BOOLEAN, UpdateProfile(c, t, i, new)
        PROVE TokensKnown' /\ KeysEndWithTheirSession'
    BY <2>1, <2>2, <2>5 DEF UpdateProfile, memory
  <2> QED BY <1>4, <2>3, <2>4, <2>5
<1>5. ASSUME NEW c \in Calls, NEW t \in Tokens, NEW new \in Passwords, ChangePassword(c, t, new)
      PROVE TokensKnown' /\ KeysEndWithTheirSession'
  <2> DEFINE call == [op |-> "change", step |-> "record", token |-> t, old |-> password, new |-> new,
                      salt |-> None, fresh |-> None, copy |-> NoProfiles]
  <2>1. call # None /\ call.token = t
    BY ProfilesAssumption, KeysOfCalls DEF Changing, TypeOK
  <2> HIDE DEF call
  <2>2. Begin(c, call)
    BY <1>5 DEF ChangePassword, call
  <2> QED BY <1>2, <1>5, <2>1, <2>2 DEF ChangePassword, memory
<1>6. ASSUME NEW c \in Busy, NEW call, Moves(c, call), call # None, call.token = calls[c].token,
             UNCHANGED <<live, outlived, registry>>
      PROVE TokensKnown' /\ KeysEndWithTheirSession'
  BY <1>a, <1>6 DEF Busy
<1>7. ASSUME NEW c \in Calls, ReadSalt(c) PROVE TokensKnown' /\ KeysEndWithTheirSession'
  <2>1. c \in Busy /\ calls[c] \in Unlocking /\ c \in DOMAIN calls
    BY <1>7, CallTypes DEF ReadSalt, At, Op, TypeOK
  <2>2. PICK salt \in Salts, step \in {"salt", "bind"} :
          calls' = [calls EXCEPT ![c].salt = salt, ![c].step = step]
    BY <1>7, ProfilesAssumption DEF ReadSalt, TypeOK, Salts
  <2> DEFINE call == [calls[c] EXCEPT !.salt = salt, !.step = step]
  <2>3. Moves(c, call) /\ call # None /\ call.token = calls[c].token
    BY <2>1, <2>2, ProfilesAssumption DEF Moves, Unlocking
  <2> HIDE DEF call
  <2> QED BY <1>6, <1>7, <2>1, <2>3 DEF ReadSalt, memory, history
<1>8. ASSUME NEW c \in Calls, WriteSalt(c) PROVE TokensKnown' /\ KeysEndWithTheirSession'
  <2>1. c \in Busy /\ calls[c] \in Unlocking /\ c \in DOMAIN calls
    BY <1>8, CallTypes DEF WriteSalt, At, Op, TypeOK
  <2> DEFINE call == [calls[c] EXCEPT !.step = "bind"]
  <2>3. Moves(c, call) /\ call # None /\ call.token = calls[c].token
    BY <1>8, <2>1, ProfilesAssumption DEF WriteSalt, Moves, Unlocking
  <2> HIDE DEF call
  <2> QED BY <1>6, <1>8, <2>1, <2>3 DEF WriteSalt, memory, history
<1>9. ASSUME NEW c \in Calls, ReadProfiles(c) PROVE TokensKnown' /\ KeysEndWithTheirSession'
  <2>1. c \in Busy /\ calls[c] \in Writing /\ c \in DOMAIN calls
    BY <1>9, CallTypes DEF ReadProfiles, At, Op, TypeOK
  <2> DEFINE call == [calls[c] EXCEPT !.copy = profiles, !.step = "write"]
  <2>3. Moves(c, call) /\ call # None /\ call.token = calls[c].token
    BY <1>9, <2>1, ProfilesAssumption DEF ReadProfiles, Moves, Writing, TypeOK
  <2> HIDE DEF call
  <2> QED BY <1>6, <1>9, <2>1, <2>3 DEF ReadProfiles, memory, history
<1>10. ASSUME NEW c \in Calls, WriteRecord(c) PROVE TokensKnown' /\ KeysEndWithTheirSession'
  <2>1. c \in Busy /\ calls[c] \in Changing /\ c \in DOMAIN calls
    BY <1>10, CallTypes DEF WriteRecord, At, Op, TypeOK
  <2> DEFINE call == [calls[c] EXCEPT !.step = "kdf"]
  <2>3. Moves(c, call) /\ call # None /\ call.token = calls[c].token
    BY <1>10, <2>1, ProfilesAssumption DEF WriteRecord, Moves, Changing, TypeOK
  <2> HIDE DEF call
  <2> QED BY <1>6, <1>10, <2>1, <2>3 DEF WriteRecord, memory, history
<1>11. ASSUME NEW c \in Calls, ReplaceAll(c) PROVE TokensKnown' /\ KeysEndWithTheirSession'
  <2>1. c \in Busy /\ calls[c] \in Changing /\ c \in DOMAIN calls
    BY <1>11, CallTypes DEF ReplaceAll, At, Op, TypeOK
  <2> DEFINE call == [calls[c] EXCEPT !.step = "salt"]
  <2>3. Moves(c, call) /\ call # None /\ call.token = calls[c].token
    BY <1>11, <2>1, ProfilesAssumption DEF ReplaceAll, Moves, Changing, TypeOK
  <2> HIDE DEF call
  <2> QED BY <1>6, <1>11, <2>1, <2>3 DEF ReplaceAll, memory
<1>12. ASSUME NEW c \in Busy, End(c), UNCHANGED <<live, outlived>>,
              \/ UNCHANGED registry
              \/ \E key \in Key : registry' = [registry EXCEPT ![calls[c].token] = key]
       PROVE TokensKnown' /\ KeysEndWithTheirSession'
  <2>1. c \in Calls
    BY DEF Busy
  <2> QED BY <1>b, <1>12, <2>1 DEF TypeOK
<1>13. ASSUME NEW c \in Busy, EndChange(c),
              \/ UNCHANGED registry
              \/ registry' = NoKeys
              \/ \E key \in Key : registry' = [registry EXCEPT ![calls[c].token] = key]
       PROVE TokensKnown' /\ KeysEndWithTheirSession'
  <2>1. c \in Calls
    BY DEF Busy
  <2> QED BY <1>b, <1>13, <2>1 DEF EndChange, TypeOK, NoKeys
<1>14. ASSUME NEW c \in Calls, BindSession(c) PROVE TokensKnown' /\ KeysEndWithTheirSession'
  <2>1. c \in Busy /\ calls[c] \in Unlocking /\ calls[c].salt \in Salts
    BY <1>14, CallTypes DEF BindSession, At, Op, TypeOK, Formed
  <2>2. [password |-> calls[c].password, salt |-> calls[c].salt] \in Key
    BY <2>1 DEF Unlocking, Key
  <2> QED BY <1>12, <1>14, <2>1, <2>2 DEF BindSession, history
<1>15. ASSUME NEW c \in Calls, WriteProfiles(c) PROVE TokensKnown' /\ KeysEndWithTheirSession'
  BY <1>12, <1>15 DEF WriteProfiles, At, Op, memory
<1>16. ASSUME NEW c \in Calls, ReadKdf(c) PROVE TokensKnown' /\ KeysEndWithTheirSession'
  <2>1. CASE kdf = None
    BY <1>13, <1>16, <2>1 DEF ReadKdf, At, Op, DropUser
  <2>2. CASE kdf # None
    <3>1. c \in Busy /\ calls[c] \in Changing /\ c \in DOMAIN calls
      BY <1>16, CallTypes DEF ReadKdf, At, Op, TypeOK
    <3> DEFINE call == [calls[c] EXCEPT !.salt = kdf, !.fresh = salts + 1, !.step = "read"]
    <3>2. /\ calls' = [calls EXCEPT ![c].salt = kdf, ![c].fresh = salts + 1, ![c].step = "read"]
          /\ salts + 1 \in Salts
          /\ UNCHANGED <<live, registry, outlived>>
      <4>1. salts \in 0..MaxSalts /\ salts < MaxSalts
        BY <1>16, <2>2 DEF ReadKdf, TypeOK
      <4>2. salts + 1 \in Salts
        BY <4>1, ProfilesAssumption DEF Salts
      <4> QED BY <1>16, <2>2, <4>2 DEF ReadKdf, memory
    <3>3. Moves(c, call) /\ call # None /\ call.token = calls[c].token
      BY <2>2, <3>1, <3>2, ProfilesAssumption DEF Moves, Changing, TypeOK
    <3> HIDE DEF call
    <3> QED BY <1>6, <3>1, <3>2, <3>3
  <2> QED BY <2>1, <2>2
<1>17. ASSUME NEW c \in Calls, Rewrap(c) PROVE TokensKnown' /\ KeysEndWithTheirSession'
  <2>1. c \in Busy /\ calls[c] \in Changing /\ c \in DOMAIN calls
    BY <1>17, CallTypes DEF Rewrap, At, Op, TypeOK
  <2>2. CASE \A i \in Stored : profiles[i] = OldKey(calls[c])
    <3> DEFINE call == [calls[c] EXCEPT !.copy = profiles, !.step = "profiles"]
    <3>1. Moves(c, call) /\ call # None /\ call.token = calls[c].token
      BY <1>17, <2>1, <2>2, ProfilesAssumption DEF Rewrap, Moves, Changing, TypeOK
    <3> HIDE DEF call
    <3> QED BY <1>6, <1>17, <2>1, <2>2, <3>1 DEF Rewrap
  <2>3. CASE ~\A i \in Stored : profiles[i] = OldKey(calls[c])
    BY <1>13, <1>17, <2>1, <2>3 DEF Rewrap
  <2> QED BY <2>2, <2>3
<1>18. ASSUME NEW c \in Calls, WriteKdf(c) PROVE TokensKnown' /\ KeysEndWithTheirSession'
  <2>1. c \in Op({"change"}) /\ c \in Busy /\ calls[c].step = "salt"
    BY <1>18 DEF WriteKdf, At, Op
  <2> QED BY <1>13, <1>18, <2>1, KeysOfCalls DEF WriteKdf
<1>19. ASSUME NEW c \in Calls, Fails(c) PROVE TokensKnown' /\ KeysEndWithTheirSession'
  BY <1>12, <1>13, <1>19 DEF Fails
<1>20. ASSUME NEW c \in Calls, RequireKek(c) PROVE TokensKnown' /\ KeysEndWithTheirSession'
  <2>1. c \in Busy /\ calls[c] \in Writing /\ c \in DOMAIN calls /\ Kek \in Key
    BY <1>20, CallTypes, KeysOfCalls DEF RequireKek, At, Op, TypeOK, Writers
  <2> DEFINE call == [calls[c] EXCEPT !.key = Kek, !.step = "read"]
  <2>2. Moves(c, call) /\ call # None /\ call.token = calls[c].token
    BY <1>20, <2>1, ProfilesAssumption DEF RequireKek, Moves, Writing, TypeOK
  <2> HIDE DEF call
  <2> QED BY <1>6, <1>20, <2>1, <2>2 DEF RequireKek, memory, history
<1> QED
  BY <1>1, <1>3, <1>4, <1>5, <1>7, <1>8, <1>9, <1>10, <1>11, <1>14, <1>15, <1>16, <1>17, <1>18,
     <1>19, <1>20 DEF UserStep

-----------------------------------------------------------------------------
(* Creations and removals that were answered. *)
LEMMA NextKept ==
  ASSUME Typed, AnsweredProfilesAreKept, Next
  PROVE  AnsweredProfilesAreKept'
<1> USE DEF AnsweredProfilesAreKept, Stored
<1>1. ASSUME NEW c \in Calls, WriteProfiles(c) PROVE AnsweredProfilesAreKept'
  <2>1. calls[c] \in Writing /\ Formed(c) /\ calls[c].id \in Ids /\ calls[c].step # "kek"
    BY <1>1, CallTypes DEF WriteProfiles, At, Op, Typed, Writing
  <2>2. SUFFICES ASSUME ~lossy' PROVE Stored' = kept'
    OBVIOUS
  <2>3. ~lossy /\ calls[c].copy = profiles /\ (calls[c].op = "update" => profiles[calls[c].id] # None)
    BY <1>1, <2>2 DEF WriteProfiles, Stale
  <2>4. \A i \in Ids : profiles'[i] = IF i = calls[c].id THEN calls[c].key ELSE profiles[i]
    BY <1>1, <2>1, <2>3 DEF WriteProfiles, Written, Writing, Typed, TypeOK, Profile
  <2>5. CASE calls[c].op = "create"
    BY <1>1, <2>1, <2>3, <2>4, <2>5 DEF WriteProfiles, Formed
  <2>6. CASE calls[c].op = "remove"
    BY <1>1, <2>1, <2>3, <2>4, <2>6 DEF WriteProfiles, Formed
  <2>7. CASE calls[c].op = "update"
    BY <1>1, <2>1, <2>3, <2>4, <2>7 DEF WriteProfiles, Formed
  <2> QED BY <2>1, <2>5, <2>6, <2>7 DEF Writing
<1>2. ASSUME NEW c \in Calls, ReplaceAll(c) PROVE AnsweredProfilesAreKept'
  <2>1. NewKey(calls[c]) \in Key
    BY <1>2, KeysOfCalls DEF ReplaceAll, At
  <2>2. SUFFICES ASSUME ~lossy' PROVE Stored' = kept'
    OBVIOUS
  <2>3. \A i \in Ids : profiles'[i] = IF profiles[i] = None THEN None ELSE NewKey(calls[c])
    BY <1>2, <2>2 DEF ReplaceAll
  <2> QED BY <1>2, <2>1, <2>2, <2>3, ProfilesAssumption DEF ReplaceAll
<1>3. CASE UNCHANGED <<profiles, lossy, kept>>
  BY <1>3
<1> QED BY <1>1, <1>2, <1>3
        DEF Next, UserStep, records, memory, history, Login, Lock, Logout, Expire, Unlock,
            CreateProfile, RemoveProfile, UpdateProfile, RequireKek, ChangePassword, ReadSalt,
            WriteSalt, BindSession, ReadProfiles, WriteRecord, ReadKdf, Rewrap, WriteKdf, Fails,
            ResetPassword, DropKeys, DropFails, Restart

-----------------------------------------------------------------------------
(* The key the profiles are under. *)
LEMMA OtherHandler ==
  ASSUME Typed, OnCourse, ~disturbed, NEW c \in Busy, calls[c].op # "change"
  PROVE  Op({"change"}) = {} /\ ~Changed /\ Sound
BY DEF OnCourse, Op, Changed

LEMMA NoChange ==
  ASSUME OnCourse, ~disturbed, Op({"change"}) = {}
  PROVE  ~Changed /\ Sound
BY DEF OnCourse, Changed

(* InStep of an unlock or a writer depends on the password and salt only.   *)
LEMMA StaysInStep ==
  ASSUME NEW call, InStep(call), call.op # "change", UNCHANGED <<password, kdf>>
  PROVE  InStep(call)'
BY DEF InStep, Current, Writers

LEMMA Steady ==
  ASSUME Typed, OnCourse, ~disturbed, Op({"change"}) = {}, NEW c \in Calls, NEW call,
         Moves(c, call), call # None, call.op # "change", InStep(call),
         UNCHANGED records, Kek' \in {None, Kek},
         kdf = None /\ call.op = "unlock" => Op({"unlock"}) \subseteq {c}
  PROVE  OnCourse'
<1>1. ~Changed /\ Sound
  BY NoChange
<1>2. /\ calls'[c] = call
      /\ \A d \in Calls \ {c} : calls'[d] = calls[d]
      /\ Busy' = Busy \cup {c}
  BY Moved DEF Typed
<1>3. Op({"change"})' = {} /\ ~Changed'
  BY <1>2 DEF Op, Changed, Busy
<1>4. Sound'
  BY <1>1 DEF Sound, Opens, Current, records
<1>5. ASSUME NEW d \in Busy' PROVE InStep(calls[d])'
  <2>1. CASE d = c
    BY <1>2, <2>1, StaysInStep DEF records
  <2>2. CASE d # c
    <3>1. d \in Busy /\ calls'[d] = calls[d] /\ InStep(calls[d]) /\ calls[d].op # "change"
      BY <1>2, <2>2 DEF Busy, OnCourse, Op
    <3> QED BY <3>1, StaysInStep DEF records
  <2> QED BY <2>1, <2>2
<1>6. kdf' = None => \A d, e \in Op({"unlock"})' : d = e
  <2>1. CASE call.op = "unlock"
    BY <1>2, <2>1 DEF Op, records, Busy
  <2>2. CASE call.op # "unlock"
    BY <1>2, <2>2 DEF Op, records, Busy, OnCourse
  <2> QED BY <2>1, <2>2
<1> QED BY <1>3, <1>4, <1>5, <1>6 DEF OnCourse

LEMMA SteadyEnd ==
  ASSUME Typed, OnCourse, ~disturbed, NEW c \in Busy, calls[c].op # "change", End(c),
         UNCHANGED <<password, kdf>>, \A i \in Ids : Opens(i, Current)', Kek' \in {None, Current}
  PROVE  OnCourse'
<1>1. Op({"change"}) = {}
  BY OtherHandler
<1>2. /\ \A d \in Calls \ {c} : calls'[d] = calls[d]
      /\ Busy' = Busy \ {c}
  BY Moved DEF Typed, End, Moves, Busy
<1>3. Op({"change"})' = {} /\ ~Changed'
  BY <1>1, <1>2 DEF Op, Changed, Busy
<1>4. Sound'
  BY DEF Sound, Current
<1>5. ASSUME NEW d \in Busy' PROVE InStep(calls[d])'
  <2>1. d \in Busy /\ calls'[d] = calls[d] /\ InStep(calls[d]) /\ calls[d].op # "change"
    BY <1>1, <1>2 DEF Busy, OnCourse, Op
  <2> QED BY <2>1, StaysInStep
<1>6. kdf' = None => \A d, e \in Op({"unlock"})' : d = e
  BY <1>2 DEF Op, Busy, OnCourse
<1> QED BY <1>3, <1>4, <1>5, <1>6 DEF OnCourse

(* A change of the password is alone. *)
LEMMA AloneMoves ==
  ASSUME Typed, NEW c \in Calls, NEW call, Busy = {c}, Moves(c, call), call # None,
         call.op = "change", call.step # "record", InStep(call)'
  PROVE  OnCourse'
<1>1. calls'[c] = call /\ Busy' = {c}
  BY Moved DEF Typed
<1> QED BY <1>1 DEF OnCourse, Op, Changed

LEMMA AloneEnds ==
  ASSUME Typed, NEW c \in Calls, Busy = {c}, End(c), Sound'
  PROVE  OnCourse'
<1>1. Busy' = {}
  BY Moved DEF Typed, End, Moves
<1> QED BY <1>1 DEF OnCourse, Op, Changed

LEMMA NextOnCourse ==
  ASSUME Typed, OnCourse, UserStep
  PROVE  OnCourse'
<1> SUFFICES ASSUME ~disturbed' PROVE OnCourse'
  BY DEF OnCourse
<1>1. ASSUME NEW t \in Tokens, Login(t) \/ Lock(t) \/ Logout(t) \/ Expire(t) PROVE OnCourse'
  <2>1. UNCHANGED <<records, calls>> /\ ~disturbed
    BY <1>1 DEF Login, Lock, Logout, Expire, history
  <2>2. Kek' \in {None, Kek}
    BY <1>1 DEF Login, Lock, Logout, Expire, Kek, Typed, TypeOK
  <2>3. Busy' = Busy /\ Changed' = Changed /\ \A ops : Op(ops)' = Op(ops)
    BY <2>1 DEF Busy, Changed, Op
  <2>4. ~Changed => Sound'
    BY <2>1, <2>2 DEF OnCourse, Sound, Opens, Current, records
  <2>5. ASSUME NEW d \in Busy PROVE InStep(calls[d])'
    BY <2>1 DEF OnCourse, InStep, records, Opens, Current, OldKey, NewKey
  <2> QED BY <2>1, <2>3, <2>4, <2>5 DEF OnCourse, records
<1>2. ASSUME NEW c \in Calls, NEW t \in Tokens, Unlock(c, t) PROVE OnCourse'
  <2> DEFINE call == [op |-> "unlock", step |-> "read", token |-> t, password |-> password, salt |-> None]
  <2>1. call # None /\ call.op = "unlock" /\ InStep(call)
    BY ProfilesAssumption DEF Unlocking, Typed, TypeOK, InStep, Writers
  <2> HIDE DEF call
  <2>2. Moves(c, call) /\ UNCHANGED <<records, memory>>
    BY <1>2 DEF Unlock, Begin, Moves, call
  <2>3. ~disturbed /\ Op({"change"}) = {} /\ (kdf = None => Op({"unlock"}) = {})
    BY <1>2 DEF Unlock, NoteOverlap, Overlaps
  <2>4. Kek' = Kek
    BY <2>2 DEF Kek, memory
  <2> QED BY <2>1, <2>2, <2>3, <2>4, Steady
<1>3. ASSUME NEW c \in Calls, NEW t \in Tokens, NEW i \in Ids, NEW op \in Writers,
             NEW step \in {"kek", "read"},
             NEW key \in Key \cup {None}, key \in {None, Kek, profiles[i]},
             Begin(c, [op |-> op, step |-> step, token |-> t, id |-> i, key |-> key,
                       copy |-> NoProfiles]),
             NoteOverlap(op), UNCHANGED <<records, memory>>
      PROVE  OnCourse'
  <2> DEFINE call == [op |-> op, step |-> step, token |-> t, id |-> i, key |-> key,
                       copy |-> NoProfiles]
  <2>1. ~disturbed /\ Op({"change"}) = {}
    BY <1>3 DEF NoteOverlap, Overlaps
  <2>2. Sound
    BY <2>1, NoChange
  <2>3. key \in {None, Current}
    BY <1>3, <2>2 DEF Sound, Opens
  <2>4. call # None /\ call.op = op
    BY ProfilesAssumption, KeysOfCalls DEF Writing, Writers
  <2>5. InStep(call)
    BY <2>3 DEF InStep, Writers, NoProfiles
  <2> HIDE DEF call
  <2>6. Moves(c, call)
    BY <1>3 DEF Begin, Moves, call
  <2>7. Kek' = Kek
    BY <1>3 DEF Kek, memory
  <2> QED BY <1>3, <2>1, <2>4, <2>5, <2>6, <2>7, Steady DEF Writers
<1>4. ASSUME NEW c \in Calls, NEW t \in Tokens, NEW i \in Ids,
             CreateProfile(c, t, i) \/ RemoveProfile(c, t, i)
               \/ \E new \in BOOLEAN : UpdateProfile(c, t, i, new)
      PROVE OnCourse'
  <2>1. Kek \in Key \cup {None} /\ profiles[i] \in Key \cup {None} /\ None \in Key \cup {None}
    BY KeysOfCalls DEF Typed, TypeOK, Profile
  <2>2. "create" \in Writers /\ "update" \in Writers /\ "remove" \in Writers
    BY DEF Writers
  <2>3. CASE CreateProfile(c, t, i)
    BY <1>3, <2>1, <2>2, <2>3 DEF CreateProfile
  <2>4. CASE RemoveProfile(c, t, i)
    BY <1>3, <2>1, <2>2, <2>4 DEF RemoveProfile
  <2>5. ASSUME NEW new \in BOOLEAN, UpdateProfile(c, t, i, new) PROVE OnCourse'
    BY <1>3, <2>1, <2>2, <2>5 DEF UpdateProfile
  <2> QED BY <1>4, <2>3, <2>4, <2>5
<1>5. ASSUME NEW c \in Calls, NEW t \in Tokens, NEW new \in Passwords, ChangePassword(c, t, new)
      PROVE OnCourse'
  <2>0. PICK call :
          call = [op |-> "change", step |-> "record", token |-> t, old |-> password, new |-> new,
                  salt |-> None, fresh |-> None, copy |-> NoProfiles]
    OBVIOUS
  <2>1. call # None /\ call.op = "change" /\ call.step = "record" /\ call.old = password
    BY <2>0, ProfilesAssumption, KeysOfCalls DEF Changing, Typed, TypeOK
  <2>2. ~disturbed /\ Busy = {}
    BY <1>5 DEF ChangePassword, NoteOverlap, Overlaps
  <2>3. Moves(c, call) /\ UNCHANGED <<records, memory>>
    BY <1>5, <2>0 DEF ChangePassword, Begin, Moves
  <2>4. Busy' = {c} /\ calls'[c] = call
    BY <2>1, <2>2, <2>3, Moved DEF Typed
  <2>5. Sound
    BY <2>2, NoChange DEF Op
  <2>6. Sound'
    BY <2>3, <2>5 DEF Sound, Opens, Current, Kek, records, memory
  <2>7. InStep(call)'
    BY <2>1, <2>3 DEF InStep, Writers, records
  <2> QED BY <2>1, <2>4, <2>6, <2>7 DEF OnCourse, Op
<1>6. ASSUME NEW c \in Calls, ReadSalt(c) PROVE OnCourse'
  <2>1. /\ c \in Busy /\ calls[c] \in Unlocking /\ c \in DOMAIN calls /\ c \in Op({"unlock"})
        /\ calls[c].op = "unlock" /\ ~disturbed /\ UNCHANGED <<records, memory>>
    BY <1>6, CallTypes DEF ReadSalt, At, Op, Typed, TypeOK, history
  <2>2. PICK salt \in Salts, step \in {"salt", "bind"} :
          /\ calls' = [calls EXCEPT ![c].salt = salt, ![c].step = step]
          /\ step = "bind" => salt = kdf
          /\ step = "salt" => kdf = None
    <3>1. CASE kdf # None
      BY <1>6, <3>1 DEF ReadSalt, Typed, TypeOK
    <3>2. CASE kdf = None
      <4>1. /\ calls' = [calls EXCEPT ![c].salt = salts + 1, ![c].step = "salt"]
            /\ salts \in 0..MaxSalts /\ salts < MaxSalts
        BY <1>6, <3>2 DEF ReadSalt, Typed, TypeOK
      <4>2. salts + 1 \in Salts
        BY <4>1, ProfilesAssumption DEF Salts
      <4> QED BY <3>2, <4>1, <4>2
    <3> QED BY <3>1, <3>2
  <2> DEFINE call == [calls[c] EXCEPT !.salt = salt, !.step = step]
  <2>3. Moves(c, call) /\ call # None /\ call.op = "unlock"
    BY <2>1, <2>2, ProfilesAssumption DEF Moves, Unlocking
  <2>4. InStep(call)
    <3>1. call.password = password
      BY <2>1 DEF OnCourse, InStep, Unlocking
    <3> QED BY <2>1, <2>2, <3>1 DEF InStep, Unlocking, Writers
  <2> HIDE DEF call
  <2>5. Op({"change"}) = {}
    BY <2>1, OtherHandler
  <2>6. Kek' = Kek
    BY <2>1 DEF Kek, memory
  <2>7. kdf = None => Op({"unlock"}) \subseteq {c}
    BY <2>1 DEF OnCourse
  <2> QED BY <2>1, <2>3, <2>4, <2>5, <2>6, <2>7, Steady
<1>7. ASSUME NEW c \in Calls, WriteSalt(c) PROVE OnCourse'
  <2>1. /\ c \in Busy /\ calls[c] \in Unlocking /\ c \in DOMAIN calls /\ c \in Op({"unlock"})
        /\ calls[c].op = "unlock" /\ calls[c].step = "salt"
        /\ ~disturbed /\ UNCHANGED <<password, profiles, memory>>
        /\ InStep(calls[c]) /\ calls[c].salt \in Salts
    BY <1>7, CallTypes DEF WriteSalt, At, Op, Typed, TypeOK, history, OnCourse, Formed
  <2>2. kdf = None /\ calls[c].password = password
    BY <2>1 DEF InStep
  <2>3. Op({"change"}) = {} /\ Sound
    BY <2>1, OtherHandler
  <2>4. Current \notin Key
    BY <2>2, ProfilesAssumption DEF Current, Key
  <2>5. \A i \in Ids : profiles[i] = None
    BY <2>3, <2>4 DEF Sound, Opens, Typed, TypeOK, Profile
  <2>6. Kek = None
    BY <2>3, <2>4, KeysOfCalls DEF Sound
  <2> DEFINE call == [calls[c] EXCEPT !.step = "bind"]
  <2>7. /\ Moves(c, call) /\ call # None /\ call.op = "unlock" /\ call.step = "bind"
        /\ call.password = password /\ call.salt = kdf'
    BY <1>7, <2>1, <2>2, ProfilesAssumption DEF WriteSalt, Moves, Unlocking
  <2> HIDE DEF call
  <2>8. /\ calls'[c] = call
        /\ \A d \in Calls \ {c} : calls'[d] = calls[d]
        /\ Busy' = Busy
    BY <2>1, <2>7, Moved DEF Typed, Busy
  <2>9. Op({"change"})' = {} /\ kdf' # None
    BY <1>7, <2>1, <2>3, <2>7, <2>8, ProfilesAssumption DEF Op, WriteSalt, Busy
  <2>10. Sound'
    BY <2>1, <2>5, <2>6 DEF Sound, Opens, Kek, memory
  <2>11. ASSUME NEW d \in Busy' PROVE InStep(calls[d])'
    <3>1. CASE d = c
      BY <2>1, <2>7, <2>8, <3>1 DEF InStep, Writers
    <3>2. CASE d # c
      <4>1. d \in Busy /\ calls'[d] = calls[d] /\ InStep(calls[d]) /\ d \in Calls
        BY <2>1, <2>8, <3>2 DEF OnCourse, Busy
      <4>2. calls[d].op \in Writers /\ calls[d] \in Writing
        BY <2>1, <2>2, <2>3, <3>2, <4>1, CallTypes DEF Op, OnCourse, Typed
      <4>3. calls[d].key = None /\ \A i \in Ids : calls[d].copy[i] = None
        BY <2>4, <4>1, <4>2 DEF InStep, Writing, Profile
      <4> QED BY <4>1, <4>2, <4>3 DEF InStep, Writers
    <3> QED BY <3>1, <3>2
  <2> QED BY <2>9, <2>10, <2>11 DEF OnCourse
<1>8. ASSUME NEW c \in Calls, BindSession(c) PROVE OnCourse'
  <2>1. /\ c \in Busy /\ calls[c] \in Unlocking /\ calls[c].op = "unlock" /\ calls[c].step = "bind"
        /\ ~disturbed /\ UNCHANGED records /\ End(c) /\ InStep(calls[c])
    BY <1>8, CallTypes DEF BindSession, At, Op, Typed, history, OnCourse
  <2>2. Sound /\ calls[c].password = password /\ calls[c].salt = kdf
    BY <2>1, OtherHandler DEF InStep
  <2>3. Kek' \in {None, Current}
    BY <1>8, <2>1, <2>2 DEF BindSession, Kek, Current, Typed, TypeOK, Unlocking
  <2>4. \A i \in Ids : Opens(i, Current)'
    BY <2>1, <2>2 DEF Sound, Opens, Current, records
  <2> QED BY <2>1, <2>3, <2>4, SteadyEnd DEF records
<1>9. ASSUME NEW c \in Calls, ReadProfiles(c) PROVE OnCourse'
  <2>1. /\ c \in Busy /\ calls[c] \in Writing /\ c \in DOMAIN calls /\ calls[c].op \in Writers
        /\ ~disturbed /\ UNCHANGED <<records, memory>> /\ InStep(calls[c])
    BY <1>9, CallTypes DEF ReadProfiles, At, Op, Typed, TypeOK, history, OnCourse
  <2>2. Op({"change"}) = {} /\ Sound
    BY <2>1, OtherHandler DEF Writers
  <2> DEFINE call == [calls[c] EXCEPT !.copy = profiles, !.step = "write"]
  <2>3. Moves(c, call) /\ call # None /\ call.op = calls[c].op
    BY <1>9, <2>1, ProfilesAssumption DEF ReadProfiles, Moves, Writing, Typed, TypeOK
  <2>4. InStep(call)
    BY <2>1, <2>2 DEF InStep, Sound, Opens, Writing, Writers
  <2> HIDE DEF call
  <2>5. Kek' = Kek
    BY <2>1 DEF Kek, memory
  <2> QED BY <2>1, <2>2, <2>3, <2>4, <2>5, Steady DEF Writers
<1>10. ASSUME NEW c \in Calls, WriteProfiles(c) PROVE OnCourse'
  <2>1. /\ c \in Busy /\ calls[c] \in Writing /\ calls[c].op \in Writers
        /\ ~disturbed /\ UNCHANGED <<password, kdf, memory>> /\ InStep(calls[c]) /\ End(c)
        /\ profiles' = Written(calls[c])
    BY <1>10, CallTypes DEF WriteProfiles, At, Op, Typed, history, OnCourse
  <2>2. Sound
    BY <2>1, OtherHandler DEF Writers
  <2>3. \A i \in Ids : Opens(i, Current)'
    BY <2>1 DEF InStep, Opens, Written, Writing, Profile, Current
  <2>4. Kek' \in {None, Current}
    BY <2>1, <2>2 DEF Kek, memory, Sound
  <2> QED BY <2>1, <2>3, <2>4, SteadyEnd DEF Writers
<1>11. ASSUME NEW c \in Busy, ~disturbed, calls[c].op = "change"
       PROVE  /\ Busy = {c} /\ InStep(calls[c]) /\ calls[c] \in Changing /\ c \in Calls
              /\ c \in DOMAIN calls /\ Formed(c) /\ (calls[c].step = "record" => Sound)
  BY <1>11, CallTypes DEF OnCourse, Op, Typed, TypeOK, Changed
<1>12. ASSUME NEW c \in Calls, WriteRecord(c) PROVE OnCourse'
  <2>1. c \in Busy /\ ~disturbed /\ calls[c].op = "change" /\ calls[c].step = "record" /\ UNCHANGED <<kdf, profiles>>
    BY <1>12 DEF WriteRecord, At, Op, history
  <2>0. PICK call : call = [calls[c] EXCEPT !.step = "kdf"]
    OBVIOUS
  <2>2. /\ Moves(c, call) /\ call # None /\ call.op = "change" /\ call.step = "kdf"
        /\ call.old = calls[c].old /\ call.new = calls[c].new
    BY <2>0, <1>11, <1>12, <2>1, ProfilesAssumption DEF WriteRecord, Moves, Changing
  <2>3. Sound /\ calls[c].old = password
    BY <1>11, <2>1 DEF InStep
  <2>4. \A i \in Ids : Opens(i, [password |-> call.old, salt |-> kdf])'
    BY <2>1, <2>2, <2>3 DEF Sound, Opens, Current
  <2>5. InStep(call)'
    BY <1>12, <2>2, <2>4 DEF WriteRecord, InStep, Writers
  <2> QED BY <1>11, <2>1, <2>2, <2>5, AloneMoves
<1>13. ASSUME NEW c \in Calls, ReadKdf(c) PROVE OnCourse'
  <2>1. c \in Busy /\ ~disturbed /\ calls[c].op = "change" /\ calls[c].step = "kdf" /\ UNCHANGED records
    BY <1>13 DEF ReadKdf, At, Op
  <2>2. Busy = {c} /\ InStep(calls[c]) /\ calls[c] \in Changing /\ c \in DOMAIN calls
    BY <1>11, <2>1
  <2>3. calls[c].new = password /\ \A i \in Ids : Opens(i, [password |-> calls[c].old, salt |-> kdf])
    BY <2>1, <2>2 DEF InStep
  <2>4. CASE kdf = None
    <3>1. [password |-> calls[c].old, salt |-> kdf] \notin Key
      BY <2>4, ProfilesAssumption DEF Key
    <3>2. \A i \in Ids : profiles[i] = None
      BY <2>3, <3>1 DEF Opens, Typed, TypeOK, Profile
    <3>3. Sound' /\ End(c)
      BY <1>13, <2>1, <2>4, <3>2 DEF ReadKdf, DropUser, EndChange, Sound, Opens, Kek, records
    <3> QED BY <2>2, <3>3, AloneEnds
  <2>5. CASE kdf # None
    <3>0. PICK call : call = [calls[c] EXCEPT !.salt = kdf, !.fresh = salts + 1, !.step = "read"]
      OBVIOUS
    <3>1. calls' = [calls EXCEPT ![c].salt = kdf, ![c].fresh = salts + 1, ![c].step = "read"]
      BY <1>13, <2>5 DEF ReadKdf
    <3>2. /\ Moves(c, call) /\ call.op = "change" /\ call.step = "read" /\ call.salt = kdf
          /\ call.old = calls[c].old /\ call.new = calls[c].new
      BY <3>0, <2>2, <3>1 DEF Moves, Changing
    <3>3. call # None
      <4>1. salts \in 0..MaxSalts /\ salts < MaxSalts /\ kdf \in Salts
        BY <1>13, <2>5 DEF ReadKdf, Typed, TypeOK
      <4>2. salts + 1 \in Salts
        BY <4>1, ProfilesAssumption DEF Salts
      <4>3. call \in Changing
        BY <2>2, <3>0, <4>1, <4>2 DEF Changing
      <4> QED BY <4>3, ProfilesAssumption
    <3>4. \A i \in Ids : Opens(i, OldKey(call))'
      BY <2>1, <2>3, <3>2 DEF Opens, OldKey, records
    <3>5. InStep(call)'
      BY <2>1, <2>3, <3>2, <3>4 DEF InStep, Writers, records
    <3> QED BY <2>2, <3>2, <3>3, <3>5, AloneMoves
  <2> QED BY <2>4, <2>5
<1>14. ASSUME NEW c \in Calls, Rewrap(c) PROVE OnCourse'
  <2>1. c \in Busy /\ ~disturbed /\ calls[c].op = "change" /\ calls[c].step = "read" /\ UNCHANGED records
    BY <1>14 DEF Rewrap, At, Op
  <2>2. Busy = {c} /\ InStep(calls[c]) /\ calls[c] \in Changing /\ c \in DOMAIN calls
    BY <1>11, <2>1
  <2>3. calls[c].new = password /\ calls[c].salt = kdf /\ \A i \in Ids : Opens(i, OldKey(calls[c]))
    BY <2>1, <2>2 DEF InStep
  <2>4. \A i \in Stored : profiles[i] = OldKey(calls[c])
    BY <2>3 DEF Opens, Stored
  <2>0. PICK call : call = [calls[c] EXCEPT !.copy = profiles, !.step = "profiles"]
    OBVIOUS
  <2>5. /\ Moves(c, call) /\ call # None /\ call.op = "change" /\ call.step = "profiles"
        /\ call.old = calls[c].old /\ call.new = calls[c].new /\ call.salt = calls[c].salt
        /\ call.copy = profiles
    BY <2>0, <1>14, <2>2, <2>4, ProfilesAssumption DEF Rewrap, Moves, Changing, Typed, TypeOK
  <2>6. \A i \in Ids : Opens(i, OldKey(call))'
    BY <2>1, <2>3, <2>5 DEF Opens, OldKey, records
  <2>7. InStep(call)'
    BY <2>1, <2>3, <2>5, <2>6 DEF InStep, Writers, records
  <2> QED BY <2>2, <2>5, <2>7, AloneMoves
<1>15. ASSUME NEW c \in Calls, ReplaceAll(c) PROVE OnCourse'
  <2>1. c \in Busy /\ ~disturbed /\ calls[c].op = "change" /\ calls[c].step = "profiles" /\ UNCHANGED <<password, kdf>>
    BY <1>15 DEF ReplaceAll, At, Op
  <2>2. Busy = {c} /\ InStep(calls[c]) /\ calls[c] \in Changing /\ c \in DOMAIN calls
    BY <1>11, <2>1
  <2>0. PICK call : call = [calls[c] EXCEPT !.step = "salt"]
    OBVIOUS
  <2>3. /\ Moves(c, call) /\ call # None /\ call.op = "change" /\ call.step = "salt"
        /\ call.new = calls[c].new /\ call.fresh = calls[c].fresh
    BY <2>0, <1>15, <2>2, ProfilesAssumption DEF ReplaceAll, Moves, Changing
  <2>4. \A i \in Ids : profiles'[i] \in {None, NewKey(calls[c])}
    BY <1>15 DEF ReplaceAll
  <2>5. \A i \in Ids : Opens(i, NewKey(call))'
    BY <2>3, <2>4 DEF Opens, NewKey
  <2>6. InStep(call)'
    BY <2>1, <2>2, <2>3, <2>5 DEF InStep, Writers
  <2> QED BY <2>2, <2>3, <2>6, AloneMoves
<1>16. ASSUME NEW c \in Calls, WriteKdf(c) PROVE OnCourse'
  <2>1. c \in Busy /\ ~disturbed /\ calls[c].op = "change" /\ calls[c].step = "salt" /\ UNCHANGED <<password, profiles>>
    BY <1>16 DEF WriteKdf, At, Op
  <2>2. Busy = {c} /\ InStep(calls[c]) /\ calls[c] \in Changing /\ End(c)
    BY <1>11, <1>16, <2>1 DEF WriteKdf, EndChange
  <2>3. NewKey(calls[c]) = Current'
    BY <1>16, <2>1, <2>2 DEF WriteKdf, InStep, NewKey, Current
  <2>4. Kek' \in {None, Current'}
    BY <1>16, <2>2, <2>3 DEF WriteKdf, Kek, Typed, TypeOK, Changing
  <2>5. Sound'
    BY <2>1, <2>2, <2>3, <2>4 DEF Sound, InStep, Opens
  <2> QED BY <2>2, <2>5, AloneEnds
<1>17. ASSUME NEW c \in Calls, Fails(c) PROVE OnCourse'
  <2>1. /\ c \in Busy /\ ~disturbed /\ End(c) /\ UNCHANGED <<records, registry, bound>>
        /\ calls[c].op = "change" => calls[c].step = "record"
    BY <1>17 DEF Fails, Op
  <2>2. Sound
    BY <1>11, <2>1, OtherHandler
  <2>3. Sound' /\ (\A i \in Ids : Opens(i, Current)') /\ Kek' \in {None, Current}
    BY <2>1, <2>2 DEF Sound, Opens, Current, Kek, records
  <2>4. CASE calls[c].op = "change"
    BY <1>11, <2>1, <2>3, <2>4, AloneEnds
  <2>5. CASE calls[c].op # "change"
    BY <2>1, <2>3, <2>5, SteadyEnd DEF records
  <2> QED BY <2>4, <2>5
<1>18. ASSUME NEW c \in Calls, RequireKek(c) PROVE OnCourse'
  <2>1. /\ c \in Busy /\ calls[c] \in Writing /\ c \in DOMAIN calls /\ calls[c].op = "update"
        /\ ~disturbed /\ UNCHANGED <<records, memory>> /\ InStep(calls[c]) /\ Kek \in Key
    BY <1>18, CallTypes, KeysOfCalls DEF RequireKek, At, Op, Typed, TypeOK, history, OnCourse, Writers
  <2>2. Op({"change"}) = {} /\ Sound
    BY <2>1, OtherHandler
  <2> DEFINE call == [calls[c] EXCEPT !.key = Kek, !.step = "read"]
  <2>3. Moves(c, call) /\ call # None /\ call.op = "update"
    BY <1>18, <2>1, ProfilesAssumption DEF RequireKek, Moves, Writing, Typed, TypeOK
  <2>4. InStep(call)
    BY <2>1, <2>2 DEF InStep, Sound, Writing, Writers
  <2> HIDE DEF call
  <2>5. Kek' = Kek
    BY <2>1 DEF Kek, memory
  <2> QED BY <2>1, <2>2, <2>3, <2>4, <2>5, Steady
<1> QED
  BY <1>1, <1>2, <1>4, <1>5, <1>6, <1>7, <1>8, <1>9, <1>10, <1>12, <1>13, <1>14, <1>15, <1>16,
     <1>17, <1>18 DEF UserStep

(* While a reset has yet to drop the keys, nothing else is in progress      *)
(* unless it counts as a disturbance.                                       *)
ResetIsAlone == resetting /\ ~disturbed => Busy = {} /\ \A i \in Ids : profiles[i] = None
Course == (~resetting => OnCourse) /\ ResetIsAlone

LEMMA NextCourse ==
  ASSUME Typed, Course, UserStep, UNCHANGED resetting
  PROVE  Course'
<1>1. CASE ~resetting
  BY <1>1, NextOnCourse DEF Course, ResetIsAlone
<1>2. CASE resetting
  <2> SUFFICES ASSUME ~disturbed' PROVE Busy' = {} /\ \A i \in Ids : profiles'[i] = None
    BY <1>2 DEF Course, ResetIsAlone
  <2>1. ASSUME NEW op, NoteOverlap(op) PROVE FALSE
    BY <1>2, <2>1 DEF NoteOverlap, Overlaps
  <2>2. ASSUME NEW t \in Tokens, Login(t) \/ Lock(t) \/ Logout(t) \/ Expire(t)
        PROVE  Busy' = {} /\ \A i \in Ids : profiles'[i] = None
    BY <1>2, <2>2 DEF Login, Lock, Logout, Expire, records, history, Busy, Course, ResetIsAlone
  <2>3. ASSUME NEW c \in Calls, c \in Busy PROVE disturbed
    BY <1>2, <2>3 DEF Course, ResetIsAlone
  <2>4. ASSUME NEW c \in Calls, disturbed,
               \/ ReadSalt(c) \/ WriteSalt(c) \/ BindSession(c)
               \/ RequireKek(c) \/ ReadProfiles(c) \/ WriteProfiles(c)
               \/ WriteRecord(c) \/ ReadKdf(c) \/ Rewrap(c) \/ ReplaceAll(c) \/ WriteKdf(c) \/ Fails(c)
        PROVE  FALSE
    BY <2>4 DEF ReadSalt, WriteSalt, BindSession, RequireKek, ReadProfiles, WriteProfiles,
                WriteRecord, ReadKdf, Rewrap, ReplaceAll, WriteKdf, Fails, history
  <2>5. ASSUME NEW c \in Calls,
               \/ ReadSalt(c) \/ WriteSalt(c) \/ BindSession(c)
               \/ RequireKek(c) \/ ReadProfiles(c) \/ WriteProfiles(c)
               \/ WriteRecord(c) \/ ReadKdf(c) \/ Rewrap(c) \/ ReplaceAll(c) \/ WriteKdf(c) \/ Fails(c)
        PROVE  FALSE
    <3>1. c \in Busy
      BY <2>5 DEF ReadSalt, WriteSalt, BindSession, RequireKek, ReadProfiles, WriteProfiles,
                  WriteRecord, ReadKdf, Rewrap, ReplaceAll, WriteKdf, Fails, At, Op
    <3> QED BY <2>3, <2>4, <2>5, <3>1
  <2>6. ASSUME NEW c \in Calls, NEW t \in Tokens,
               \/ Unlock(c, t)
               \/ \E i \in Ids :
                    \/ CreateProfile(c, t, i) \/ RemoveProfile(c, t, i)
                    \/ \E new \in BOOLEAN : UpdateProfile(c, t, i, new)
               \/ \E new \in Passwords : ChangePassword(c, t, new)
        PROVE  FALSE
    BY <2>1, <2>6 DEF Unlock, CreateProfile, RemoveProfile, UpdateProfile, ChangePassword
  <2> QED BY <2>2, <2>5, <2>6 DEF UserStep
<1> QED BY <1>1, <1>2

-----------------------------------------------------------------------------
IInv ==
  Typed /\ TokensKnown /\ KeysEndWithTheirSession /\ AnsweredProfilesAreKept /\ Course

(* Resets of the password, and the end of the process. *)
LEMMA ResetAndRestart ==
  ASSUME IInv, (\E new \in Passwords : ResetPassword(new)) \/ DropKeys \/ DropFails \/ Restart
  PROVE  Typed' /\ TokensKnown' /\ KeysEndWithTheirSession' /\ Course'
<1> USE DEF IInv, Typed, records, memory, history
<1>a. NoKeys \in [Tokens -> Key \cup {None}]
  BY KeysOfCalls
<1>b. ASSUME UNCHANGED calls PROVE Busy' = Busy /\ \A d \in Busy' : Formed(d)'
  BY <1>b DEF Busy, Formed
<1>1. ASSUME NEW new \in Passwords, ResetPassword(new)
      PROVE  Typed' /\ TokensKnown' /\ KeysEndWithTheirSession' /\ Course'
  <2>1. outlived' \subseteq Tokens
    BY <1>1, CallTypes DEF ResetPassword, TypeOK
  <2>2. Typed'
    BY <1>1, <1>b, <2>1 DEF ResetPassword, TypeOK
  <2>3. TokensKnown' /\ KeysEndWithTheirSession'
    BY <1>1, <1>b DEF ResetPassword, TokensKnown, KeysEndWithTheirSession
  <2>4. Course'
    BY <1>1, <1>b DEF ResetPassword, Course, ResetIsAlone, Stored
  <2> QED BY <2>2, <2>3, <2>4
<1>2. CASE DropKeys
  <2>1. Typed' /\ TokensKnown' /\ KeysEndWithTheirSession'
    BY <1>2, <1>a, <1>b DEF DropKeys, DropUser, TypeOK, TokensKnown, KeysEndWithTheirSession, NoKeys
  <2>2. ~disturbed' => Busy' = {} /\ (\A i \in Ids : profiles'[i] = None) /\ Kek' = None
    BY <1>2, <1>b DEF DropKeys, DropUser, Course, ResetIsAlone, Kek
  <2>3. OnCourse'
    BY <2>2 DEF OnCourse, Sound, Opens, Op
  <2> QED BY <1>2, <2>1, <2>3 DEF Course, ResetIsAlone, DropKeys
<1>3. CASE DropFails
  <2>1. Typed' /\ TokensKnown' /\ KeysEndWithTheirSession'
    BY <1>3, <1>b DEF DropFails, TypeOK, TokensKnown, KeysEndWithTheirSession
  <2> QED BY <1>3, <2>1 DEF DropFails, Course, ResetIsAlone, OnCourse
<1>4. CASE Restart
  <2>1. Busy' = {} /\ Kek' = None /\ UNCHANGED records
    BY <1>4 DEF Restart, Busy, Kek
  <2>2. Typed' /\ TokensKnown' /\ KeysEndWithTheirSession'
    BY <1>4, <1>a, <2>1 DEF Restart, TypeOK, TokensKnown, KeysEndWithTheirSession, NoKeys
  <2>3. ASSUME ~disturbed' PROVE \A i \in Ids : Opens(i, Current)
    <3>1. ~disturbed /\ ~Changed
      BY <1>4, <2>3 DEF Restart, Changed
    <3> QED BY <3>1 DEF Course, ResetIsAlone, OnCourse, Sound, Opens
  <2>4. OnCourse'
    BY <2>1, <2>3 DEF OnCourse, Sound, Opens, Op, Current
  <2> QED BY <1>4, <2>2, <2>4 DEF Course, ResetIsAlone, Restart
<1> QED BY <1>1, <1>2, <1>3, <1>4

LEMMA InitIInv == Init => IInv
<1> SUFFICES ASSUME Init PROVE IInv
  OBVIOUS
<1>1. Busy = {} /\ Stored = {} /\ kept = {} /\ (\A t \in Tokens : registry[t] = None) /\ Kek = None
  BY DEF Init, Busy, Stored, NoProfiles, NoKeys, Kek
<1>2. \A i \in Ids : profiles[i] = None
  BY DEF Init, NoProfiles
<1> QED
  BY <1>1, <1>2, InitTyped
  DEF IInv, TokensKnown, KeysEndWithTheirSession, AnsweredProfilesAreKept, Course, ResetIsAlone, OnCourse,
      Sound, Opens, Op, Init

(* The handlers of the requests, overlapping and failing at any await, keep *)
(* the invariant.                                                           *)
THEOREM ProfilesInvariant == Spec => []IInv
<1>1. IInv /\ [Next]_vars => IInv'
  <2> SUFFICES ASSUME IInv, [Next]_vars PROVE IInv'
    OBVIOUS
  <2>1. CASE Next
    <3>1. AnsweredProfilesAreKept'
      BY <2>1, NextKept DEF IInv
    <3>2. CASE UserStep /\ UNCHANGED resetting
      BY <3>1, <3>2, NextTyped, NextKeys, NextCourse DEF IInv
    <3>3. CASE (\E new \in Passwords : ResetPassword(new)) \/ DropKeys \/ DropFails \/ Restart
      BY <3>1, <3>3, ResetAndRestart DEF IInv
    <3> QED BY <2>1, <3>2, <3>3 DEF Next
  <2>2. CASE UNCHANGED vars
    <3>1. /\ UNCHANGED <<password, live, kdf, profiles, registry, bound, calls, salts, resetting,
                         disturbed, lossy, kept, outlived>>
          /\ Busy' = Busy
      BY <2>2 DEF vars, records, memory, history, Busy
    <3>2. Typed' /\ TokensKnown' /\ KeysEndWithTheirSession' /\ AnsweredProfilesAreKept'
      BY <3>1 DEF IInv, Typed, TypeOK, Formed, TokensKnown, KeysEndWithTheirSession,
                  AnsweredProfilesAreKept, Stored
    <3>3. Course'
      BY <3>1 DEF IInv, Course, ResetIsAlone, OnCourse, InStep, Sound, Opens, Kek, Current, Changed,
                  Op, OldKey, NewKey
    <3> QED BY <3>2, <3>3 DEF IInv
  <2> QED BY <2>1, <2>2
<1> QED BY <1>1, InitIInv, PTL DEF Spec

(* Every stored profile opens under the current password, unless a change   *)
(* or a reset of it was disturbed.                                          *)
THEOREM Opened == Spec => []ProfilesOpen
<1>1. IInv => ProfilesOpen
  BY DEF IInv, Course, OnCourse, Sound, Opens, ProfilesOpen, Stored
<1> QED BY <1>1, ProfilesInvariant, PTL

(* An answered profile is kept, unless two whole-record writes overlapped.  *)
THEOREM Kept == Spec => []AnsweredProfilesAreKept
BY ProfilesInvariant, PTL DEF IInv

(* A key in memory has a live session, but for the ends that leave it.      *)
THEOREM KeysEnded == Spec => []KeysEndWithTheirSession
BY ProfilesInvariant, PTL DEF IInv
=============================================================================
