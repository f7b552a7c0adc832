------------------------------ MODULE Accounts ------------------------------
(***************************************************************************)
(* The user table and the session table together: the RPC handlers of      *)
(* src/src/index.ts run in the name of the user their cookie resolves to,  *)
(* and what they do after their last await reaches both tables.            *)
(***************************************************************************)
EXTENDS UserStore

CONSTANTS TTL, MaxTime, MaxWrites, Disorder   \* see module Sessions

VARIABLES
  now, sessions, writes, file, leaving, lastUse,  \* see module Sessions
  changing,   \* changePassword requests between storeMutate and invalidateSessions
  joining,    \* registrations between storeCreate and their session
  verifying,  \* names of the passkey logins between the candidate check and the
              \* end of finishAuthentication
  raced,      \* history: names retired while another call on their record was in flight
  outdated,   \* history: tokens of sessions opened under an earlier password; emptied
              \* when the process ends with the file not (or not surely) up to date
  overtaken,  \* history: users whose last change of password came while their
              \* registration awaited persistInvites
  orderly     \* history: since Start every write of the file landed, and in order

S == INSTANCE Sessions
  WITH up <- phase = "ready", known <- {n \in Users : users[n] # None}

ASSUME AccountsAssumption ==
  /\ TTL \in Nat \ {0} /\ MaxTime \in Nat /\ MaxWrites \in Nat \ {0}
  /\ Disorder \in BOOLEAN
  /\ None \notin S!Session \cup Nat
  /\ S!Keys \cap (Tokens \cup {None}) = {}   \* a digest is no token

tableVars == <<now, sessions, writes, file, leaving, lastUse>>
requests == <<changing, joining, verifying>>
history == <<raced, outdated, overtaken, orderly>>
vars == <<storeVars, tableVars, requests, history>>

AccountsTypeOK ==
  /\ TypeOK
  /\ S!SessionsTypeOK
  /\ changing \subseteq [user : Users, token : Tokens]
  /\ joining \cup verifying \cup raced \cup overtaken \subseteq Users
  /\ outdated \subseteq Tokens /\ orderly \in BOOLEAN

AccountsInit ==
  /\ Init
  /\ now = 0
  /\ sessions = S!NoSessions /\ file = S!NoSessions
  /\ writes = <<>> /\ changing = {} /\ joining = {} /\ verifying = {}
  /\ leaving = {} /\ lastUse = [t \in Tokens |-> None]
  /\ raced = {} /\ outdated = {} /\ overtaken = {} /\ orderly = TRUE

-----------------------------------------------------------------------------
(* Bound: MaxPending requests that await something, when another one starts. *)
Awaiting ==
  Cardinality(changing) + Cardinality(joining) + Cardinality(verifying) + Cardinality(leaving)
Room == Len(retiring) + MapThenSumSet(InFlight, Users) + Awaiting < MaxPending

Start ==
  /\ Boot
  /\ S!LoadSessions({n \in Users : users'[n] # None})
  /\ UNCHANGED <<requests, history>>

StartFails ==
  /\ InitFails
  /\ UNCHANGED <<tableVars, requests, history>>

Stop ==
  /\ Crash
  /\ S!LoseProcess
  /\ changing' = {} /\ joining' = {} /\ verifying' = {}
  /\ raced' = {} /\ orderly' = TRUE
  /\ IF writes = <<>> /\ changing = {} /\ orderly
     THEN UNCHANGED <<outdated, overtaken>>
     ELSE outdated' = {} /\ overtaken' = {}

(* handleLogin up to its session: nothing is awaited between the password    *)
(* check and the session, with or without a TOTP code (a passkey as second   *)
(* step is PasskeyLogin; the self-heal branch, which awaits, needs a record  *)
(* with 2FA on and no factor, which module TwoFactor shows not to occur).    *)
PasswordLogin(t, n) ==
  /\ S!CanWrite
  /\ users[n] # None
  /\ S!CreateSession(t, n)
  /\ UNCHANGED <<storeVars, requests, history>>

(* handlePasskeyLogin up to finishAuthentication: n has the passkey.  (Bound: *)
(* one ceremony of a user at a time.)                                         *)
PasskeyLogin(n) ==
  /\ phase = "ready" /\ Room
  /\ users[n] # None
  /\ n \notin verifying /\ verifying' = verifying \cup {n}
  /\ UNCHANGED <<storeVars, tableVars, changing, joining, history>>

(* The assertion is good: touchPasskey, without another look at the user. *)
PasskeyVerified(n) ==
  /\ S!CanWrite
  /\ n \in verifying /\ verifying' = verifying \ {n}
  /\ Touch(n)
  /\ UNCHANGED <<tableVars, changing, joining, history>>

PasskeyRefused(n) ==
  /\ n \in verifying /\ verifying' = verifying \ {n}
  /\ UNCHANGED <<storeVars, tableVars, changing, joining, history>>

(* handleRegister up to storeCreate. *)
Join(n) ==
  /\ S!CanWrite /\ Room
  /\ \E pw \in Passwords : Register(n, pw)
  /\ UNCHANGED <<tableVars, requests, history>>

Principal(t) == S!UserOf(t)
LoggedIn(t) == phase = "ready" /\ Principal(t) # None /\ users[Principal(t)] # None

(* Bound: one changePassword request per token at a time. *)
Changing(t) ==
  \/ \E c \in changing : c.token = t
  \/ \E n \in Users : \E i \in 1..Len(calls[n]) :
       calls[n][i].op = "setPassword" /\ calls[n][i].via = t

(* handleRpc: the cookie resolves to a user of the table. *)
Rpc(t) ==
  /\ S!CanWrite /\ Room
  /\ LoggedIn(t)
  /\ \E n \in Users :
       \/ DeleteUser(Principal(t), n)
       \/ \E role \in Roles, pw \in Passwords : CreateUser(Principal(t), n, role, pw)
       \/ \E role \in Roles : SetRole(Principal(t), n, role)
       \/ \E pw \in Passwords :
            \/ ResetPassword(Principal(t), n, pw)
            \/ n = Principal(t) /\ ~Changing(t) /\ ChangePassword(n, pw, t)
  /\ S!ResolveSession(t)
  /\ UNCHANGED <<requests, history>>

(* handleRpc: the cookie resolves to a name that is no longer in the table. *)
RpcOfMissingUser(t) ==
  /\ S!CanWrite
  /\ Principal(t) # None
  /\ users[Principal(t)] = None
  /\ S!DestroySession(t)
  /\ UNCHANGED <<storeVars, leaving, requests, history>>

Logout(t) ==
  /\ Room
  /\ UNCHANGED <<storeVars, requests, history>>
  /\ S!Logout(t)

LogoutDone(t) ==
  /\ UNCHANGED <<storeVars, requests, history>>
  /\ S!LogoutDone(t)

-----------------------------------------------------------------------------
AnswerCreate(n) ==
  /\ FinishCreate(n)
  /\ joining' = IF Head(calls[n]).joins /\ disk[n] = None THEN joining \cup {n} ELSE joining
  /\ UNCHANGED <<tableVars, changing, verifying, history>>

AnswerSetRole(n) ==
  /\ FinishSetRole(n)
  /\ UNCHANGED <<tableVars, requests, history>>

(* handleRegister after persistInvites: a session, whatever became of the   *)
(* user in between.                                                         *)
AnswerJoin(n, t) ==
  /\ S!CanWrite
  /\ n \in joining /\ joining' = joining \ {n}
  /\ S!CreateSession(t, n)
  /\ outdated' = IF n \in overtaken THEN outdated \cup {t} ELSE outdated
  /\ UNCHANGED <<storeVars, changing, verifying, raced, overtaken, orderly>>

(* persistInvites rejects: the account stays, without a session. *)
JoinFails(n) ==
  /\ n \in joining /\ joining' = joining \ {n}
  /\ UNCHANGED <<storeVars, tableVars, changing, verifying, history>>

(* handlePasskeyLogin after touchPasskey: a session, whatever it returned. *)
AnswerPasskeyLogin(n, t) ==
  /\ FinishTouch(n)
  /\ S!CreateSession(t, n)
  /\ UNCHANGED <<requests, history>>

(* The sessions of n are older than the password just written. *)
PasswordWritten(n) ==
  /\ FinishSetPassword(n)
  /\ outdated' = outdated \cup {t \in Tokens : disk[n] # None /\ S!Key(t) \in S!KeysOf(sessions, n)}
  /\ overtaken' = IF n \in joining THEN overtaken \cup {n} ELSE overtaken \ {n}
  /\ UNCHANGED <<joining, verifying, raced, orderly>>

(* Variant: a reset keeps the sessions of the user. *)
AnswerKeepingSessions(n) ==
  /\ PasswordWritten(n)
  /\ LET via == Head(calls[n]).via IN
       changing' = IF via = None THEN changing ELSE changing \cup {[user |-> n, token |-> via]}
  /\ UNCHANGED tableVars

(* resetPassword invalidates at once (the token an administrator keeps when *)
(* he resets his own is never a key of the table); changePassword first     *)
(* rewraps the model profiles of the user, with awaits of its own.          *)
AnswerSetPassword(n) ==
  /\ PasswordWritten(n)
  /\ LET via == Head(calls[n]).via IN
       IF via = None
       THEN S!InvalidateSessions(n, None) /\ UNCHANGED <<leaving, changing>>
       ELSE changing' = changing \cup {[user |-> n, token |-> via]} /\ UNCHANGED tableVars

EndChange(c) ==
  /\ S!CanWrite
  /\ S!InvalidateSessions(c.user, c.token)
  /\ changing' = changing \ {c}
  /\ UNCHANGED <<storeVars, leaving, joining, verifying, history>>

AnswerRetire ==
  /\ FinishRetire
  /\ raced' = IF calls[Head(retiring)] # <<>> THEN raced \cup {Head(retiring)} ELSE raced
  /\ UNCHANGED <<tableVars, requests, outdated, overtaken, orderly>>

AnswerDelete(n) ==
  /\ FinishDelete(n)
  /\ S!InvalidateSessions(n, None)
  /\ UNCHANGED <<leaving, requests, history>>

(* The handler whose call is rejected goes no further: no session opens, and *)
(* none ends.                                                                *)
CallRejected(n) ==
  /\ RejectCall(n)
  /\ UNCHANGED <<tableVars, requests, history>>

RetireRejected ==
  /\ RejectRetire
  /\ UNCHANGED <<tableVars, requests, history>>

(* A write that the service rejects is one that is in flight until the       *)
(* process ends: the others may overtake it.                                 *)
FileWritten ==
  /\ UNCHANGED <<storeVars, requests, raced, outdated, overtaken>>
  /\ \E i \in S!Completable : S!WriteLands(i) /\ orderly' = (orderly /\ i = 1)

AccountsNext ==
  \/ Start
  \/ StartFails
  \/ Stop
  \/ \E n \in Users :
       \/ PasskeyLogin(n) \/ PasskeyVerified(n) \/ PasskeyRefused(n)
       \/ Join(n)
       \/ AnswerCreate(n)
       \/ AnswerSetRole(n)
       \/ AnswerSetPassword(n)
       \/ AnswerDelete(n)
       \/ JoinFails(n)
       \/ CallRejected(n)
       \/ \E t \in Tokens : PasswordLogin(t, n) \/ AnswerPasskeyLogin(n, t) \/ AnswerJoin(n, t)
  \/ \E t \in Tokens : Rpc(t) \/ RpcOfMissingUser(t) \/ Logout(t) \/ LogoutDone(t)
  \/ AnswerRetire
  \/ RetireRejected
  \/ \E c \in changing : EndChange(c)
  \/ FileWritten

AccountsSpec == AccountsInit /\ [][AccountsNext]_vars
=============================================================================
