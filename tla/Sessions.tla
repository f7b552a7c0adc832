------------------------------ MODULE Sessions ------------------------------
(***************************************************************************)
(* Login sessions (src/src/index.ts: persistSessions to invalidateSessions *)
(* and the sweep timer).                                                   *)
(*                                                                         *)
(* The table state.sessions maps the SHA-256 of a cookie token to a user   *)
(* and an expiry.  Every change that calls persistSessions hands a copy of *)
(* the whole table to the fs service and does not wait: the copies in      *)
(* flight are the sequence writes.  The fs service is not part of the      *)
(* repository; with Disorder it may complete two writes in either order    *)
(* or reject one (the rejection is only logged), without it it completes   *)
(* them in the order of the calls.  A write cut short by the end of the    *)
(* process may leave a file that does not parse.                           *)
(*                                                                         *)
(* sessionsDirty is left out: it is set right before each call of          *)
(* persistSessions, so the early return on it is never taken.              *)
(***************************************************************************)
EXTENDS Names, Naturals, SequencesExt

CONSTANTS
  Tokens,     \* cookie tokens the random source can give
  TTL,        \* SESSION_TTL_MS in clock ticks
  MaxTime,    \* bound: the clock stops here
  MaxWrites,  \* bound: file writes in flight when a handler starts
  Disorder    \* whether file writes may be reordered or rejected

VARIABLES
  up,         \* state.ready: the process runs and init has resolved
  known,      \* the names in state.users
  now,        \* Date.now()
  sessions,   \* state.sessions
  writes,     \* copies of the table handed to fs.writeText, oldest first
  file,       \* what loadSessions would parse from dsh-ui-auth-sessions.json
  leaving,    \* tokens whose logout request awaits ProfileStore.uidOf
  lastUse     \* history: when a token was last issued or used, or None

tableVars == <<now, sessions, writes, file, leaving, lastUse>>
sessionsVars == <<up, known, tableVars>>

(* hashToken: the key of a session is never a token. *)
Key(t) == <<"sha256", t>>
Keys == {Key(t) : t \in Tokens}
Session == [user : Users, exp : 0..(MaxTime + TTL)]
SessionTable == [Keys -> Session \cup {None}]

ASSUME SessionsAssumption ==
  /\ TTL \in Nat \ {0} /\ MaxTime \in Nat /\ MaxWrites \in Nat \ {0}
  /\ Disorder \in BOOLEAN
  /\ None \notin Session \cup Nat \cup Users

NoSessions == [k \in Keys |-> None]

SessionsTypeOK ==
  /\ up \in BOOLEAN
  /\ known \subseteq Users
  /\ now \in 0..MaxTime
  /\ sessions \in SessionTable
  /\ writes \in Seq(SessionTable)
  /\ file \in SessionTable
  /\ leaving \subseteq Tokens
  /\ lastUse \in [Tokens -> 0..MaxTime \cup {None}]

SessionsInit ==
  /\ up = FALSE
  /\ known = Users
  /\ now = 0
  /\ sessions = NoSessions /\ file = NoSessions
  /\ writes = <<>>
  /\ leaving = {}
  /\ lastUse = [t \in Tokens |-> None]

-----------------------------------------------------------------------------
(* Variant: a session is still accepted at the moment it expires. *)
ExpiredLate(s) == s.exp < now

Expired(s) == s.exp <= now

(* The user a token resolves to, and the session entries of a user. *)
UserOf(t) ==
  IF sessions[Key(t)] = None \/ Expired(sessions[Key(t)]) THEN None
                                                          ELSE sessions[Key(t)].user
KeysOf(table, u) == {k \in Keys : table[k] # None /\ table[k].user = u}
Without(table, ks) == [k \in Keys |-> IF k \in ks THEN None ELSE table[k]]

(* persistSessions after a change of the table. *)
Save(table) ==
  /\ sessions' = table
  /\ writes' = Append(writes, table)

CreateSession(t, u) ==
  /\ lastUse[t] = None
  /\ Save([sessions EXCEPT ![Key(t)] = [user |-> u, exp |-> now + TTL]])
  /\ lastUse' = [lastUse EXCEPT ![t] = now]
  /\ UNCHANGED <<now, file, leaving>>

(* resolveSession: an expired entry is dropped, which is not persisted; a   *)
(* live one is prolonged, which is not persisted either.                    *)
ResolveSession(t) ==
  LET k == Key(t) IN
  /\ sessions[k] # None
  /\ sessions' = [sessions EXCEPT ![k] = IF Expired(@) THEN None ELSE [@ EXCEPT !.exp = now + TTL]]
  /\ lastUse' = IF Expired(sessions[k]) THEN lastUse ELSE [lastUse EXCEPT ![t] = now]
  /\ UNCHANGED <<now, writes, file, leaving>>

(* Variant: the table without the sessions is not persisted. *)
DestroyUnsaved(ks) ==
  /\ sessions' = Without(sessions, ks)
  /\ UNCHANGED <<now, writes, file, lastUse>>

Destroy(ks) ==
  /\ IF ks # {} THEN Save(Without(sessions, ks)) ELSE UNCHANGED <<sessions, writes>>
  /\ UNCHANGED <<now, file, lastUse>>

DestroySession(t) == Destroy({k \in {Key(t)} : sessions[k] # None})

(* The exception is compared with the keys of the table. *)
InvalidateSessions(username, exceptToken) ==
  Destroy({k \in KeysOf(sessions, username) : k # exceptToken})

-----------------------------------------------------------------------------
CanWrite == up /\ Len(writes) < MaxWrites

Login(t, u) ==
  /\ CanWrite /\ u \in known
  /\ CreateSession(t, u)
  /\ UNCHANGED <<up, known>>

Use(t) ==
  /\ up
  /\ ResolveSession(t)
  /\ UNCHANGED <<up, known>>

(* POST /auth/logout resolves the session without prolonging it, awaits the *)
(* profile store, then destroys the session.                                *)
Logout(t) ==
  /\ up
  /\ UserOf(t) # None
  /\ leaving' = leaving \cup {t}
  /\ UNCHANGED <<up, known, now, sessions, writes, file, lastUse>>

LogoutDone(t) ==
  /\ CanWrite
  /\ t \in leaving
  /\ leaving' = leaving \ {t}
  /\ DestroySession(t)
  /\ UNCHANGED <<up, known>>

(* The deletion of an account: the name leaves the table first, and the     *)
(* sessions end once deleteRecord has been answered, which may be never.    *)
(* Until then they still resolve.                                           *)
RemoveUser(u) ==
  /\ up /\ u \in known
  /\ known' = known \ {u}
  /\ UNCHANGED <<up, tableVars>>

UserRemoved(u) ==
  /\ CanWrite /\ u \notin known
  /\ InvalidateSessions(u, None)
  /\ UNCHANGED <<up, known, leaving>>

(* A password changes. *)
ChangePassword(t) ==
  /\ CanWrite /\ UserOf(t) # None
  /\ InvalidateSessions(UserOf(t), t)
  /\ UNCHANGED <<up, known, leaving>>

(* Variant: the sweep is skipped while a write is in flight. *)
SweepWhenIdle ==
  LET stale == {k \in Keys : sessions[k] # None /\ Expired(sessions[k])} IN
  /\ up /\ writes = <<>>
  /\ stale # {}
  /\ Save(Without(sessions, stale))
  /\ UNCHANGED <<up, known, now, file, leaving, lastUse>>

Sweep ==
  LET stale == {k \in Keys : sessions[k] # None /\ Expired(sessions[k])} IN
  /\ up
  /\ stale # {}
  /\ Save(Without(sessions, stale))
  /\ UNCHANGED <<up, known, now, file, leaving, lastUse>>

Tick ==
  /\ now < MaxTime
  /\ now' = now + 1
  /\ UNCHANGED <<up, known, sessions, writes, file, leaving, lastUse>>

-----------------------------------------------------------------------------
(* The fs service. *)
Completable == {i \in 1..Len(writes) : i = 1 \/ Disorder}

WriteLands(i) ==
  /\ file' = writes[i]
  /\ writes' = RemoveAt(writes, i)
  /\ UNCHANGED <<up, known, now, sessions, leaving, lastUse>>

WriteFails(i) ==
  /\ Disorder
  /\ writes' = RemoveAt(writes, i)
  /\ UNCHANGED <<up, known, now, sessions, file, leaving, lastUse>>

(* loadSessions: unexpired entries of users that exist, never prolonged. *)
Restored(entry, names) ==
  IF entry = None \/ entry.exp <= now \/ entry.user \notin names
  THEN None
  ELSE [entry EXCEPT !.exp = IF @ < now + TTL THEN @ ELSE now + TTL]

LoadSessions(names) ==
  /\ sessions' = [k \in Keys |-> Restored(file[k], names)]
  /\ UNCHANGED <<now, writes, file, leaving, lastUse>>

Boot ==
  /\ ~up /\ up' = TRUE
  /\ LoadSessions(known)
  /\ UNCHANGED known

LoseProcess ==
  /\ sessions' = NoSessions /\ writes' = <<>> /\ leaving' = {}
  /\ file' \in IF writes = <<>> THEN {file} ELSE {file, NoSessions}
  /\ UNCHANGED <<now, lastUse>>

Crash ==
  /\ up /\ up' = FALSE
  /\ LoseProcess
  /\ UNCHANGED known

-----------------------------------------------------------------------------
SessionsNext ==
  \/ \E t \in Tokens, u \in Users : Login(t, u)
  \/ \E t \in Tokens : Use(t) \/ Logout(t) \/ LogoutDone(t) \/ ChangePassword(t)
  \/ \E u \in Users : RemoveUser(u) \/ UserRemoved(u)
  \/ Sweep
  \/ Tick
  \/ \E i \in Completable : WriteLands(i) \/ WriteFails(i)
  \/ Boot
  \/ Crash

SessionsSpec == SessionsInit /\ [][SessionsNext]_sessionsVars

(* setInterval(sweep, SESSION_SWEEP_MS) keeps firing while the process lives. *)
FairSessions == SessionsSpec /\ WF_sessionsVars(Sweep)
=============================================================================
