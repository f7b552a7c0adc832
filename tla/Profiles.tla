------------------------------ MODULE Profiles ------------------------------
(***************************************************************************)
(* The private model profiles of one user and the keys that open them      *)
(* (src/src/profile-service.ts, profile-kek.ts, model-profiles.ts, and the *)
(* requests of src/src/index.ts that call them).                           *)
(*                                                                         *)
(* Each profile is wrapped under a key that is derived from the password   *)
(* and a salt.  The key is in memory only, under the session that unlocked *)
(* the profiles; the profiles of a user are one record, rewritten as a     *)
(* whole.  Every handler awaits between its reads and its writes.          *)
(***************************************************************************)
EXTENDS Naturals

CONSTANTS
  Tokens,     \* session tokens
  Ids,        \* profile ids
  Passwords,  \* passwords of the user
  Calls,      \* bound: handlers in progress at a time
  None,       \* undefined
  MaxSalts    \* bound: salts drawn

Salts == 1..MaxSalts
Key == [password : Passwords, salt : Salts]

VARIABLES
  password,   \* the password in the user record
  live,       \* the live sessions
  kdf,        \* the salt in the record profile-kdf, or None
  profiles,   \* the record profile-private: the key that each profile is wrapped under, or None
  registry,   \* KekRegistry.byToken: a key, or None
  bound,      \* tokenByUid, or None
  calls,      \* calls[c]: a handler in progress, or None
  salts,      \* the salts drawn so far
  resetting,  \* a reset of the password has yet to drop the keys
  disturbed,  \* history: something happened that may leave profiles under an old key
  lossy,      \* history: a list or a profile that had changed meanwhile was written back
  kept,       \* history: ids whose creation was answered, and whose removal was not
  outlived    \* history: sessions that ended in a way that may leave their key in memory

records == <<password, kdf, profiles>>
memory == <<live, registry, bound>>
history == <<disturbed, lossy, kept, outlived>>
vars == <<records, memory, calls, salts, resetting, history>>

Profile == [Ids -> Key \cup {None}]
NoKeys == [t \in Tokens |-> None]
NoProfiles == [i \in Ids |-> None]

Unlocking == [op : {"unlock"}, step : {"read", "salt", "bind"}, token : Tokens,
              password : Passwords, salt : Salts \cup {None}]
(* A change of one profile: its id, the key it will be wrapped under (None  *)
(* for a removal, or as long as it is not known) and the list that was read. *)
Writing == [op : {"create", "update", "remove"}, step : {"kek", "read", "write"}, token : Tokens,
            id : Ids, key : Key \cup {None}, copy : Profile]
Changing == [op : {"change"}, step : {"record", "kdf", "read", "profiles", "salt"}, token : Tokens,
             old : Passwords, new : Passwords, salt : Salts \cup {None}, fresh : Salts \cup {None},
             copy : Profile]

ASSUME ProfilesAssumption ==
  /\ MaxSalts \in Nat
  /\ None \notin Tokens \cup Salts \cup Key
  /\ None \notin Unlocking \cup Writing \cup Changing

TypeOK ==
  /\ password \in Passwords /\ live \subseteq Tokens
  /\ kdf \in Salts \cup {None} /\ profiles \in Profile
  /\ registry \in [Tokens -> Key \cup {None}] /\ bound \in Tokens \cup {None}
  /\ calls \in [Calls -> Unlocking \cup Writing \cup Changing \cup {None}]
  /\ salts \in 0..MaxSalts /\ resetting \in BOOLEAN
  /\ disturbed \in BOOLEAN /\ lossy \in BOOLEAN /\ kept \subseteq Ids /\ outlived \subseteq Tokens

Init ==
  /\ password \in Passwords /\ live = {} /\ kdf = None
  /\ profiles = NoProfiles
  /\ registry = NoKeys /\ bound = None
  /\ calls = [c \in Calls |-> None] /\ salts = 0 /\ resetting = FALSE
  /\ disturbed = FALSE /\ lossy = FALSE /\ kept = {} /\ outlived = {}

-----------------------------------------------------------------------------
Current == [password |-> password, salt |-> kdf]
(* kekOf *)
Kek == IF bound = None THEN None ELSE registry[bound]
Stored == {i \in Ids : profiles[i] # None}

Busy == {c \in Calls : calls[c] # None}
Op(ops) == {c \in Busy : calls[c].op \in ops}
At(c, ops, step) == c \in Op(ops) /\ calls[c].step = step
Writers == {"create", "update", "remove"}

(* Bound: a reset of the password takes the place of a handler. *)
Room(c) == calls[c] = None /\ (resetting => Busy \cup {c} # Calls)

Begin(c, call) == Room(c) /\ calls' = [calls EXCEPT ![c] = call]
End(c) == calls' = [calls EXCEPT ![c] = None]
Ends(t) == outlived' = IF \E c \in Busy : calls[c].token = t THEN outlived \cup {t} ELSE outlived

(* A handler that overlaps a change or a reset of the password may have     *)
(* taken the old key or the old list, and two first unlocks draw two salts. *)
Overlaps(op) ==
  \/ resetting
  \/ op = "change" /\ Busy # {}
  \/ Op({"change"}) # {}
  \/ op = "unlock" /\ kdf = None /\ Op({"unlock"}) # {}

NoteOverlap(op) == disturbed' = (disturbed \/ Overlaps(op))

-----------------------------------------------------------------------------
(* A token is drawn at random: a new session has none of an earlier one.    *)
Login(t) ==
  /\ t \notin live /\ registry[t] = None /\ bound # t /\ \A c \in Busy : calls[c].token # t
  /\ live' = live \cup {t} /\ outlived' = outlived \ {t}
  /\ UNCHANGED <<records, registry, bound, calls, salts, disturbed, lossy, kept>>

(* profileUnlock, and bindSession after the password was verified. *)
Unlock(c, t) ==
  /\ t \in live
  /\ Begin(c, [op |-> "unlock", step |-> "read", token |-> t, password |-> password, salt |-> None])
  /\ NoteOverlap("unlock")
  /\ UNCHANGED <<records, memory, salts, lossy, kept, outlived>>

(* ensureUserKdf *)
ReadSalt(c) ==
  /\ At(c, {"unlock"}, "read")
  /\ \/ /\ kdf # None
        /\ calls' = [calls EXCEPT ![c].salt = kdf, ![c].step = "bind"]
        /\ UNCHANGED salts
     \/ /\ kdf = None /\ salts < MaxSalts
        /\ salts' = salts + 1
        /\ calls' = [calls EXCEPT ![c].salt = salts', ![c].step = "salt"]
  /\ UNCHANGED <<records, memory, history>>

WriteSalt(c) ==
  /\ At(c, {"unlock"}, "salt")
  /\ kdf' = calls[c].salt
  /\ calls' = [calls EXCEPT ![c].step = "bind"]
  /\ UNCHANGED <<password, profiles, memory, salts, history>>

BindSession(c) ==
  /\ At(c, {"unlock"}, "bind")
  /\ registry' = [registry EXCEPT ![calls[c].token] =
                    [password |-> calls[c].password, salt |-> calls[c].salt]]
  /\ bound' = calls[c].token
  /\ End(c)
  /\ UNCHANGED <<records, live, salts, history>>

(* profileLock *)
Lock(t) ==
  /\ t \in live
  /\ registry' = [registry EXCEPT ![t] = None]
  /\ UNCHANGED <<records, live, bound, calls, salts, history>>

(* Variant: the session is destroyed first, and so not found. *)
LogoutFirst(t) ==
  /\ t \in live /\ live' = live \ {t} /\ Ends(t)
  /\ UNCHANGED <<records, registry, bound, calls, salts, disturbed, lossy, kept>>

(* unbindSession drops the binding of the user whichever session holds it.  *)
Logout(t) ==
  /\ t \in live /\ live' = live \ {t} /\ Ends(t)
  /\ registry' = [registry EXCEPT ![t] = None]
  /\ bound' = None
  /\ UNCHANGED <<records, calls, salts, disturbed, lossy, kept>>

(* A session that expires keeps its key. *)
Expire(t) ==
  /\ t \in live /\ live' = live \ {t} /\ outlived' = outlived \cup {t}
  /\ UNCHANGED <<records, registry, bound, calls, salts, disturbed, lossy, kept>>

-----------------------------------------------------------------------------
(* An id is drawn at random: nothing holds it yet. *)
NewId(i) ==
  /\ profiles[i] = None /\ i \notin kept
  /\ \A c \in Busy : calls[c].op # "unlock" => calls[c].copy[i] = None
  /\ \A c \in Op(Writers) : calls[c].id # i

CreateProfile(c, t, i) ==
  /\ t \in live /\ NewId(i)
  /\ Kek # None
  /\ Begin(c, [op |-> "create", step |-> "read", token |-> t, id |-> i, key |-> Kek,
               copy |-> NoProfiles])
  /\ NoteOverlap("create")
  /\ UNCHANGED <<records, memory, salts, lossy, kept, outlived>>

(* updateProfile reads the profile, and then takes the KEK for a new API     *)
(* key; without one the wrapped key is written back as it was read.         *)
UpdateProfile(c, t, i, newApiKey) ==
  /\ t \in live /\ profiles[i] # None
  /\ Begin(c, [op |-> "update", step |-> IF newApiKey THEN "kek" ELSE "read", token |-> t, id |-> i,
               key |-> IF newApiKey THEN None ELSE profiles[i], copy |-> NoProfiles])
  /\ NoteOverlap("update")
  /\ UNCHANGED <<records, memory, salts, lossy, kept, outlived>>

RequireKek(c) ==
  /\ At(c, {"update"}, "kek")
  /\ Kek # None
  /\ calls' = [calls EXCEPT ![c].key = Kek, ![c].step = "read"]
  /\ UNCHANGED <<records, memory, salts, history>>

RemoveProfile(c, t, i) ==
  /\ t \in live /\ profiles[i] # None
  /\ Begin(c, [op |-> "remove", step |-> "read", token |-> t, id |-> i,
               key |-> None, copy |-> NoProfiles])
  /\ NoteOverlap("remove")
  /\ UNCHANGED <<records, memory, salts, lossy, kept, outlived>>

(* writePrivate and removePrivate: the list is read, and written as a whole. *)
ReadProfiles(c) ==
  /\ At(c, Writers, "read")
  /\ calls' = [calls EXCEPT ![c].copy = profiles, ![c].step = "write"]
  /\ UNCHANGED <<records, memory, salts, history>>

(* Variant: the list holds nothing but the profile that is written. *)
WrittenAlone(call) == [i \in Ids |-> IF i = call.id THEN call.key ELSE None]

Written(call) == [call.copy EXCEPT ![call.id] = call.key]

(* What the handler found has changed meanwhile. *)
Stale(call) == call.copy # profiles \/ (call.op = "update" /\ profiles[call.id] = None)

WriteProfiles(c) ==
  /\ At(c, Writers, "write")
  /\ LET call == calls[c]
     IN /\ profiles' = Written(call)
        /\ lossy' = (lossy \/ Stale(call))
        /\ kept' = CASE call.op = "create" -> kept \cup {call.id}
                     [] call.op = "remove" -> kept \ {call.id}
                     [] OTHER -> kept
  /\ End(c)
  /\ UNCHANGED <<password, kdf, memory, salts, disturbed, outlived>>

-----------------------------------------------------------------------------
(* changePassword: the old password is compared with the record that was    *)
(* read when the request came.                                              *)
ChangePassword(c, t, new) ==
  /\ t \in live
  /\ Begin(c, [op |-> "change", step |-> "record", token |-> t, old |-> password, new |-> new,
               salt |-> None, fresh |-> None, copy |-> NoProfiles])
  /\ NoteOverlap("change")
  /\ UNCHANGED <<records, memory, salts, lossy, kept, outlived>>

OldKey(call) == [password |-> call.old, salt |-> call.salt]
NewKey(call) == [password |-> call.new, salt |-> call.fresh]

WriteRecord(c) ==
  /\ At(c, {"change"}, "record")
  /\ password' = calls[c].new
  /\ calls' = [calls EXCEPT ![c].step = "kdf"]
  /\ UNCHANGED <<kdf, profiles, memory, salts, history>>

(* What follows the rewrapping whether or not it failed: invalidateSessions *)
(* ends every session, the caller's too.                                    *)
EndChange(c) == End(c) /\ live' = {} /\ outlived' = outlived \cup live \cup {calls[c].token}

DropUser == registry' = NoKeys /\ bound' = None

(* readUserKdf: without one nothing was ever wrapped. *)
ReadKdf(c) ==
  /\ At(c, {"change"}, "kdf")
  /\ \/ /\ kdf = None /\ DropUser /\ EndChange(c)
        /\ UNCHANGED salts
     \/ /\ kdf # None /\ salts < MaxSalts
        /\ salts' = salts + 1
        /\ calls' = [calls EXCEPT ![c].salt = kdf, ![c].fresh = salts', ![c].step = "read"]
        /\ UNCHANGED <<memory, outlived>>
  /\ UNCHANGED <<records, disturbed, lossy, kept>>

(* readAllPrivate and rewrapWithKek, which throws on a profile that is not  *)
(* under the old key.                                                       *)
Rewrap(c) ==
  /\ At(c, {"change"}, "read")
  /\ IF \A i \in Stored : profiles[i] = OldKey(calls[c])
     THEN /\ calls' = [calls EXCEPT ![c].copy = profiles, ![c].step = "profiles"]
          /\ UNCHANGED <<live, outlived>>
     ELSE EndChange(c)
  /\ UNCHANGED <<records, registry, bound, salts, disturbed, lossy, kept>>

ReplaceAll(c) ==
  /\ At(c, {"change"}, "profiles")
  /\ LET call == calls[c]
     IN /\ profiles' = [i \in Ids |-> IF call.copy[i] = None THEN None ELSE NewKey(call)]
        /\ lossy' = (lossy \/ call.copy # profiles)
  /\ calls' = [calls EXCEPT ![c].step = "salt"]
  /\ UNCHANGED <<password, kdf, memory, salts, disturbed, kept, outlived>>

(* Variant: the key in memory is left as it is. *)
WriteKdfOnly(c) ==
  /\ At(c, {"change"}, "salt")
  /\ kdf' = calls[c].fresh
  /\ EndChange(c)
  /\ UNCHANGED <<password, profiles, registry, bound, salts, disturbed, lossy, kept>>

WriteKdf(c) ==
  /\ At(c, {"change"}, "salt")
  /\ LET call == calls[c]
     IN /\ kdf' = call.fresh
        /\ registry' = [registry EXCEPT ![call.token] = NewKey(call)]
        /\ bound' = call.token
  /\ EndChange(c)
  /\ UNCHANGED <<password, profiles, salts, disturbed, lossy, kept>>

(* The read or write a handler waits for is rejected.  A change of the      *)
(* password that is past the record logs it and goes on to its end.         *)
Fails(c) ==
  /\ c \in Busy /\ ~At(c, {"unlock"}, "bind")
  /\ IF c \in Op({"change"}) /\ calls[c].step # "record"
     THEN EndChange(c) /\ disturbed' = TRUE
     ELSE End(c) /\ UNCHANGED <<live, disturbed, outlived>>
  /\ UNCHANGED <<records, registry, bound, salts, lossy, kept>>

-----------------------------------------------------------------------------
(* An administrator sets the password: no key can be derived for what is    *)
(* wrapped.  The sessions end with the write of the record; the keys are    *)
(* dropped once the uid of the user has been read, which may fail.          *)
ResetPassword(new) ==
  /\ ~resetting /\ resetting' = TRUE /\ Busy # Calls
  /\ password' = new /\ live' = {}
  /\ disturbed' = (disturbed \/ Stored # {} \/ Busy # {})
  /\ outlived' = outlived \cup {calls[c].token : c \in Busy}
  /\ UNCHANGED <<kdf, profiles, registry, bound, calls, salts, lossy, kept>>

DropKeys ==
  /\ resetting /\ resetting' = FALSE
  /\ DropUser
  /\ UNCHANGED <<records, live, calls, salts, history>>

DropFails ==
  /\ resetting /\ resetting' = FALSE
  /\ disturbed' = TRUE /\ outlived' = outlived \cup {t \in Tokens : registry[t] # None}
  /\ UNCHANGED <<records, memory, calls, salts, lossy, kept>>

(* The sessions are restored, the keys are gone. *)
Restart ==
  /\ calls' = [c \in Calls |-> None] /\ resetting' = FALSE
  /\ registry' = NoKeys /\ bound' = None
  /\ disturbed' = (disturbed \/ \E c \in Op({"change"}) : calls[c].step # "record")
  /\ UNCHANGED <<records, live, salts, lossy, kept, outlived>>

(* The steps of the user's own requests. *)
UserStep ==
  \/ \E t \in Tokens : Login(t) \/ Lock(t) \/ Logout(t) \/ Expire(t)
  \/ \E c \in Calls, t \in Tokens :
       \/ Unlock(c, t)
       \/ \E i \in Ids :
            \/ CreateProfile(c, t, i) \/ RemoveProfile(c, t, i)
            \/ \E new \in BOOLEAN : UpdateProfile(c, t, i, new)
       \/ \E new \in Passwords : ChangePassword(c, t, new)
  \/ \E c \in Calls :
       \/ ReadSalt(c) \/ WriteSalt(c) \/ BindSession(c)
       \/ RequireKek(c) \/ ReadProfiles(c) \/ WriteProfiles(c)
       \/ WriteRecord(c) \/ ReadKdf(c) \/ Rewrap(c) \/ ReplaceAll(c) \/ WriteKdf(c) \/ Fails(c)

Next ==
  \/ UserStep /\ UNCHANGED resetting
  \/ \E new \in Passwords : ResetPassword(new)
  \/ DropKeys \/ DropFails
  \/ Restart

Spec == Init /\ [][Next]_vars

-----------------------------------------------------------------------------
(* Every stored profile opens with the password of the account and the      *)
(* stored salt, and so does whatever key is in memory, outside of a change  *)
(* or a reset of the password.  The exceptions are a reset by an administrator while   *)
(* there are profiles, a change or a reset that failed or was cut short     *)
(* halfway, a handler that overlapped either, and two first unlocks at once. *)
Changed == \E c \in Op({"change"}) : calls[c].step # "record"

ProfilesOpen ==
  ~disturbed /\ ~Changed /\ ~resetting =>
    /\ \A i \in Stored : profiles[i] = Current
    /\ Kek \in {None, Current}

(* The profiles whose creation was answered are there and those whose       *)
(* removal was answered are gone, through every update and change of the    *)
(* password, unless a handler wrote back what it had read before another.   *)
AnsweredProfilesAreKept == ~lossy => Stored = kept

(* A key is in memory for a live session only.  It is dropped with the      *)
(* session at a logout and a restart, and soon after it at a reset, unless  *)
(* the read of the uid fails; a session that expires, or that a change of   *)
(* the password ends, may leave its key behind, and so may one of whose own *)
(* handlers was still in progress.                                          *)
KeysEndWithTheirSession ==
  ~resetting => \A t \in Tokens : registry[t] # None => t \in live \cup outlived
=============================================================================
