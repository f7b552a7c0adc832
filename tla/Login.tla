------------------------------- MODULE Login -------------------------------
(***************************************************************************)
(* Logging in and proving identity again: lockout, one-time tickets,       *)
(* WebAuthn challenges and signature counters (src/src/index.ts: recordFail*)
(* to checkTicket, handleLogin, handlePasskeyLogin*, passkeyStepUp,        *)
(* passkeyAdd*, passkeyRename, passkeyRemove; src/src/webauthn.ts:         *)
(* createChallengeStore, finishRegistration, finishAuthentication).        *)
(*                                                                         *)
(* Tickets and challenges are numbered by one counter as they are issued;  *)
(* both maps keep insertion order, so the oldest entry is the one with the *)
(* lowest number.  A ceremony is a request that awaits the verification of *)
(* an assertion or attestation; the library verifies them in any order and *)
(* may reject any.  A client may present any handle and any counter.       *)
(* calls[u] are the calls of storeMutate in flight on the record of u.     *)
(*                                                                         *)
(* Left out: TOTP (a login with it is one step, as one with a password is),*)
(* the deletion of accounts, labels, user handles, and rejected calls that *)
(* took effect (TwoFactor has them on the record).  Options are issued     *)
(* in one step: nothing read before the await for the random challenge     *)
(* decides what is stored.                                                 *)
(***************************************************************************)
EXTENDS Naturals, Sequences, FiniteSets

CONSTANTS
  Users,          \* user names
  IPs,            \* client addresses
  Creds,          \* passkey credentials
  None,           \* undefined
  TTL,            \* TICKET_TTL_MS and CHALLENGE_TTL_MS in clock ticks
  LockTime,       \* LOCKOUT_MS in clock ticks
  MaxFails,       \* LOCKOUT_MAX_FAILS
  TicketMax,      \* TICKET_MAX
  MaxChallenges,  \* MAX_PENDING_CHALLENGES
  MaxIssued,      \* bound: tickets and challenges issued
  MaxTime,        \* bound: the clock stops here
  MaxCounter,     \* bound: signature counters
  MaxInFlight     \* bound: ceremonies and calls in flight when one starts

ASSUME LoginAssumption ==
  /\ {TTL, LockTime, MaxFails, TicketMax, MaxChallenges} \subseteq Nat \ {0}
  /\ {MaxIssued, MaxTime, MaxCounter, MaxInFlight} \subseteq Nat
  /\ None \notin Users \cup Creds \cup Nat

VARIABLES
  now,         \* Date.now()
  fails,       \* state.fails; NoFails for an address without an entry
  tickets,     \* state.tickets
  challenges,  \* the map of passkeyChallenges
  issued,      \* number of tickets and challenges issued so far
  keys,        \* keys[u][c]: the counter stored with passkey c of u, or None
  twoFactor,   \* users with two-factor login on and no TOTP
  ceremonies,  \* requests that await a verification
  calls,       \* calls[u]: calls of storeMutate in flight, oldest first
  everIssued,  \* history: all tickets issued since the process started
  presented,   \* history: tickets that were presented to be spent
  uses,        \* history: uses[h]: how often ticket or challenge h was honoured
  overlapped,  \* history: users for whom two requests were in flight at once
  seen,        \* history: seen[u][c]: the counters that requests of u found stored with c as they
               \* began, since u last had none in flight
  lastLogin    \* history: the last session created

serverVars == <<fails, tickets, challenges, issued, everIssued, presented, uses>>
recordVars == <<keys, twoFactor>>
vars == <<now, serverVars, recordVars, ceremonies, calls, overlapped, seen, lastLogin>>

Ids == 1..MaxIssued
Counters == 0..MaxCounter
Fails == [count : 0..MaxFails, until : 0..MaxTime + LockTime]
NoFails == [count |-> 0, until |-> 0]
Ticket == [id : Ids, purpose : {"login", "stepup"}, user : Users, ip : IPs, exp : 0..MaxTime + TTL]
Challenge ==
  [id : Ids, purpose : {"login", "register"}, user : Users \cup {None}, exp : 0..MaxTime + TTL]
Keys == [Creds -> Counters \cup {None}]
Ceremony == [for : {"login", "stepup", "register"}, user : Users, ip : IPs, cred : Creds,
             id : Ids, stored : Counters, counter : Counters]
Call ==
  [op : {"touch", "add"}, by : Ceremony]
    \cup [op : {"remove"}, cred : Creds, remaining : Keys]
LoginEvent == [user : Users, ip : IPs, cred : Creds \cup {None}]

(* The two maps stay within their limits: the map of challenges may have one *)
(* entry more than its limit, because it is swept before it grows.          *)
TypeOK ==
  /\ now \in 0..MaxTime
  /\ fails \in [IPs -> Fails]
  /\ tickets \subseteq Ticket /\ Cardinality(tickets) <= TicketMax
  /\ challenges \subseteq Challenge /\ Cardinality(challenges) <= MaxChallenges + 1
  /\ issued \in 0..MaxIssued
  /\ keys \in [Users -> Keys]
  /\ twoFactor \subseteq Users
  /\ ceremonies \subseteq Ceremony
  /\ calls \in [Users -> Seq(Call)]
  /\ everIssued \subseteq Ticket
  /\ presented \subseteq Ids
  /\ uses \in [Ids -> Nat]
  /\ overlapped \subseteq Users
  /\ seen \in [Users -> [Creds -> SUBSET (Counters \cup {None})]]
  /\ lastLogin \in LoginEvent \cup {None}

NothingSeen == [u \in Users |-> [c \in Creds |-> {}]]

PasskeysOf(u) == {c \in Creds : keys[u][c] # None}

(* Each registered passkey belongs to one account; its counter is what the  *)
(* authenticator reported when it was registered.                           *)
Init ==
  /\ now = 0
  /\ fails = [ip \in IPs |-> NoFails]
  /\ tickets = {} /\ challenges = {} /\ issued = 0
  /\ \E owner \in [Creds -> Users \cup {None}] :
       keys = [u \in Users |-> [c \in Creds |-> IF owner[c] = u THEN 0 ELSE None]]
  /\ twoFactor \in SUBSET {u \in Users : PasskeysOf(u) # {}}
  /\ ceremonies = {}
  /\ calls = [u \in Users |-> <<>>]
  /\ everIssued = {} /\ presented = {} /\ uses = [h \in Ids |-> 0]
  /\ overlapped = {} /\ seen = NothingSeen /\ lastLogin = None

-----------------------------------------------------------------------------
(* Lockout. *)
Locked(ip) == fails[ip].until > now

(* The count stops at the limit, above which it makes no difference. *)
RecordFail(entry) ==
  LET count == IF entry.count < MaxFails THEN entry.count + 1 ELSE MaxFails IN
  [count |-> count, until |-> IF count >= MaxFails THEN now + LockTime ELSE 0]

Fail(ip) == fails' = [fails EXCEPT ![ip] = RecordFail(@)]
Forgive(ip) == fails' = [fails EXCEPT ![ip] = NoFails]

(* handleLogin drops a lock that has run out; the passkey handlers do not.  *)
WithoutExpiredLock(entry) == IF entry.until > 0 /\ entry.until <= now THEN NoFails ELSE entry

(* Tickets and challenges. *)
Unexpired(entries) == {e \in entries : e.exp > now}
Newest(entries, n) == {e \in entries : Cardinality({f \in entries : f.id > e.id}) < n}
WithoutId(entries, h) == {e \in entries : e.id # h}

NewTicket(purpose, u, ip) ==
  [id |-> issued + 1, purpose |-> purpose, user |-> u, ip |-> ip, exp |-> now + TTL]

(* Variant: at the limit the newest is dropped. *)
RoomForTicketNewestDropped ==
  {t \in Unexpired(tickets) : Cardinality({f \in tickets : f.id < t.id}) < TicketMax - 1}

(* issueTicket sweeps, then makes room by dropping the oldest.              *)
RoomForTicket == Newest(Unexpired(tickets), TicketMax - 1)

IssueTicket(purpose, u, ip) ==
  /\ issued < MaxIssued /\ issued' = issued + 1
  /\ tickets' = RoomForTicket \cup {NewTicket(purpose, u, ip)}
  /\ everIssued' = everIssued \cup {NewTicket(purpose, u, ip)}

IssueChallenge(purpose, u) ==
  /\ issued < MaxIssued /\ issued' = issued + 1
  /\ challenges' = Newest(Unexpired(challenges), MaxChallenges)
       \cup {[id |-> issued + 1, purpose |-> purpose, user |-> u, exp |-> now + TTL]}

ValidTicket(h, purpose, u, ip) ==
  \E t \in Unexpired(tickets) : t.id = h /\ t.purpose = purpose /\ t.user = u /\ t.ip = ip

Present(h) == presented' = presented \cup ({h} \cap {t.id : t \in tickets})

(* Variant: a ticket that is checked is not deleted. *)
SpendNothing(h) == UNCHANGED tickets /\ Present(h)

(* checkTicket with consume: deleted whether or not it turns out to be valid. *)
SpendTicket(h) == tickets' = WithoutId(tickets, h) /\ Present(h)

ValidChallenge(h, purpose) == {e \in Unexpired(challenges) : e.id = h /\ e.purpose = purpose}

ConsumeChallenge(h) == challenges' = WithoutId(challenges, h)

(* The handle that counts as honoured, if any. *)
Honour(handles) == uses' = [h \in Ids |-> IF h \in handles THEN uses[h] + 1 ELSE uses[h]]

-----------------------------------------------------------------------------
(* Variant: the passkey may be anybody's. *)
MatchesAnyone(u, c) == \E v \in Users : c \in PasskeysOf(v)

(* The credential is among the candidates of the account. *)
Matches(u, c) == c \in PasskeysOf(u)

(* What is in flight for an account. *)
InFlight(u) == Cardinality({k \in ceremonies : k.user = u}) + Len(calls[u])

(* A handler that will change the record of u, or decide on it, starts.     *)
StartFor(u) ==
  /\ InFlight(u) < MaxInFlight
  /\ overlapped' = IF InFlight(u) > 0 THEN overlapped \cup {u} ELSE overlapped
  /\ seen' = [seen EXCEPT ![u] = [c \in Creds |-> {keys[u][c]} \cup IF InFlight(u) > 0 THEN @[c] ELSE {}]]

Begin(for, u, ip, c, h, counter) ==
  /\ StartFor(u)
  /\ ceremonies' = ceremonies \cup
       {[for |-> for, user |-> u, ip |-> ip, cred |-> c, id |-> h,
         stored |-> IF keys[u][c] = None THEN 0 ELSE keys[u][c], counter |-> counter]}

Send(u, call) == calls' = [calls EXCEPT ![u] = Append(@, call)]

LogIn(u, ip, c) == lastLogin' = [user |-> u, ip |-> ip, cred |-> c]

-----------------------------------------------------------------------------
(* handleLogin. *)
NeedsPasskey(u) == u \in twoFactor /\ PasskeysOf(u) # {}

(* Variant: a locked address may go on. *)
PasswordLoginWhileLocked(ip, u) ==
  /\ ~NeedsPasskey(u)
  /\ Forgive(ip)
  /\ LogIn(u, ip, None)
  /\ UNCHANGED <<now, tickets, challenges, issued, everIssued, presented, uses, recordVars, ceremonies, calls,
                 overlapped, seen>>

PasswordLogin(ip, u) ==
  /\ ~Locked(ip)
  /\ ~NeedsPasskey(u)
  /\ Forgive(ip)
  /\ LogIn(u, ip, None)
  /\ UNCHANGED <<now, tickets, challenges, issued, everIssued, presented, uses, recordVars, ceremonies, calls,
                 overlapped, seen>>

PasswordThenPasskey(ip, u) ==
  /\ ~Locked(ip)
  /\ NeedsPasskey(u)
  /\ fails' = [fails EXCEPT ![ip] = WithoutExpiredLock(@)]
  /\ IssueTicket("login", u, ip)
  /\ UNCHANGED <<now, challenges, presented, uses, recordVars, ceremonies, calls, overlapped, seen, lastLogin>>

WrongPassword(ip) ==
  /\ ~Locked(ip)
  /\ fails' = [fails EXCEPT ![ip] = RecordFail(WithoutExpiredLock(@))]
  /\ UNCHANGED <<now, tickets, challenges, issued, everIssued, presented, uses, recordVars, ceremonies, calls,
                 overlapped, seen, lastLogin>>

-----------------------------------------------------------------------------
(* handlePasskeyLoginOptions and handlePasskeyLogin. *)
LoginOptions(ip, u) ==
  /\ ~Locked(ip)
  /\ IssueChallenge("login", u)
  /\ UNCHANGED <<now, fails, tickets, everIssued, presented, uses, recordVars, ceremonies, calls,
                 overlapped, seen, lastLogin>>

(* The account a login is for: the ticket's, the one named, or the one that *)
(* has the credential.                                                      *)
TargetOf(ticket, named, c) ==
  IF ticket # None THEN (CHOOSE t \in tickets : t.id = ticket).user
  ELSE IF named # None THEN named
  ELSE IF \E u \in Users : c \in PasskeysOf(u) THEN CHOOSE u \in Users : c \in PasskeysOf(u)
  ELSE None

TicketAdmits(ticket, ip) ==
  ticket = None \/ \E u \in Users : ValidTicket(ticket, "login", u, ip)

(* No passkey of the account matches; the challenge stays. *)
PasskeyMismatch(ip, ticket, named, c) ==
  /\ ~Locked(ip) /\ TicketAdmits(ticket, ip)
  /\ LET u == TargetOf(ticket, named, c) IN u # None => ~Matches(u, c)
  /\ IF ticket = None THEN UNCHANGED <<tickets, presented>> ELSE SpendTicket(ticket)
  /\ Honour({ticket})
  /\ Fail(ip)
  /\ UNCHANGED <<now, challenges, issued, everIssued, recordVars, ceremonies, calls,
                 overlapped, seen, lastLogin>>

(* The verification begins if the challenge is good for the account.        *)
PasskeyLogin(ip, ticket, named, h, c, counter) ==
  /\ ~Locked(ip) /\ TicketAdmits(ticket, ip)
  /\ LET u == TargetOf(ticket, named, c)
         good == \E e \in ValidChallenge(h, "login") : e.user \in {None, u}
     IN /\ u # None /\ Matches(u, c)
        /\ IF ticket = None THEN UNCHANGED <<tickets, presented>> ELSE SpendTicket(ticket)
        /\ ConsumeChallenge(h)
        /\ Honour(IF good THEN {ticket, h} ELSE {ticket})
        /\ \/ good /\ Begin("login", u, ip, c, h, counter) /\ UNCHANGED fails
           \/ ~good /\ Fail(ip) /\ UNCHANGED <<ceremonies, overlapped, seen>>
  /\ UNCHANGED <<now, issued, everIssued, recordVars, calls, lastLogin>>

(* Variant: a counter that does not advance is let through. *)
CountersAgreeAlways(stored, counter) == TRUE

(* finishAuthentication's test for a cloned authenticator. *)
CountersAgree(stored, counter) == stored > 0 /\ counter > 0 => counter > stored

(* The verification ends well: the account is touched or the passkey added. *)
Verified(k) ==
  /\ k \in ceremonies
  /\ k.for = "register" \/ CountersAgree(k.stored, k.counter)
  /\ ceremonies' = ceremonies \ {k}
  /\ Send(k.user, [op |-> IF k.for = "register" THEN "add" ELSE "touch", by |-> k])
  /\ IF k.for = "login" THEN Forgive(k.ip) ELSE UNCHANGED fails
  /\ UNCHANGED <<now, tickets, challenges, issued, everIssued, presented, uses, recordVars, overlapped, seen, lastLogin>>

(* It does not; a failed registration is not counted. *)
Rejected(k) ==
  /\ k \in ceremonies
  /\ ceremonies' = ceremonies \ {k}
  /\ IF k.for = "register" THEN UNCHANGED fails ELSE Fail(k.ip)
  /\ UNCHANGED <<now, tickets, challenges, issued, everIssued, presented, uses, recordVars, calls, overlapped, seen,
                 lastLogin>>

-----------------------------------------------------------------------------
(* passkeyStepUp: none of its steps looks at the lock.                      *)
StepUpWrong(u, ip) ==
  /\ Fail(ip)
  /\ UNCHANGED <<now, tickets, challenges, issued, everIssued, presented, uses, recordVars, ceremonies, calls,
                 overlapped, seen, lastLogin>>

StepUp(u, ip) ==
  /\ u \notin twoFactor
  /\ Forgive(ip)
  /\ IssueTicket("stepup", u, ip)
  /\ UNCHANGED <<now, challenges, presented, uses, recordVars, ceremonies, calls, overlapped, seen, lastLogin>>

StepUpOptions(u) ==
  /\ NeedsPasskey(u)
  /\ IssueChallenge("login", u)
  /\ UNCHANGED <<now, fails, tickets, everIssued, presented, uses, recordVars, ceremonies, calls, overlapped, seen,
                 lastLogin>>

StepUpPasskey(u, ip, h, c, counter) ==
  /\ NeedsPasskey(u) /\ Matches(u, c)
  /\ LET good == \E e \in ValidChallenge(h, "login") : e.user \in {None, u}
     IN /\ ConsumeChallenge(h)
        /\ Honour(IF good THEN {h} ELSE {})
        /\ \/ good /\ Begin("stepup", u, ip, c, h, counter) /\ UNCHANGED fails
           \/ ~good /\ Fail(ip) /\ UNCHANGED <<ceremonies, overlapped, seen>>
  /\ UNCHANGED <<now, tickets, issued, everIssued, presented, recordVars, calls, lastLogin>>

(* passkeyAddOptions looks at the ticket, passkeyAddVerify spends it; the   *)
(* challenge need not have been issued for the account.                     *)
AddOptions(u, ip, ticket) ==
  /\ ValidTicket(ticket, "stepup", u, ip)
  /\ IssueChallenge("register", u)
  /\ UNCHANGED <<now, fails, tickets, everIssued, presented, uses, recordVars, ceremonies, calls, overlapped, seen,
                 lastLogin>>

(* An authenticator makes a new credential for each registration.           *)
NewCredential(c) ==
  /\ \A u \in Users : keys[u][c] = None
  /\ ~\E k \in ceremonies : k.cred = c
  /\ ~\E u \in Users : \E i \in DOMAIN calls[u] : calls[u][i].op = "add" /\ calls[u][i].by.cred = c

AddVerify(u, ip, ticket, h, c, counter) ==
  /\ NewCredential(c)
  /\ SpendTicket(ticket)
  /\ IF ValidTicket(ticket, "stepup", u, ip)
     THEN LET good == ValidChallenge(h, "register") # {}
          IN /\ ConsumeChallenge(h)
             /\ Honour(IF good THEN {ticket, h} ELSE {ticket})
             /\ \/ good /\ Begin("register", u, ip, c, h, counter)
                \/ ~good /\ UNCHANGED <<ceremonies, overlapped, seen>>
     ELSE UNCHANGED <<challenges, uses, ceremonies, overlapped, seen>>
  /\ UNCHANGED <<now, fails, issued, everIssued, recordVars, calls, lastLogin>>

(* passkeyRename, and every other use of a ticket that changes no passkey.  *)
Rename(u, ip, ticket) ==
  /\ SpendTicket(ticket)
  /\ Honour(IF ValidTicket(ticket, "stepup", u, ip) THEN {ticket} ELSE {})
  /\ UNCHANGED <<now, fails, challenges, issued, everIssued, recordVars, ceremonies, calls,
                 overlapped, seen, lastLogin>>

(* passkeyRemove: the list that remains is made from the record as read now.*)
Remove(u, ip, ticket, c) ==
  /\ ValidTicket(ticket, "stepup", u, ip) /\ SpendTicket(ticket)
  /\ Honour({ticket})
  /\ c \in PasskeysOf(u)
  /\ PasskeysOf(u) = {c} => u \notin twoFactor
  /\ StartFor(u)
  /\ Send(u, [op |-> "remove", cred |-> c, remaining |-> [keys[u] EXCEPT ![c] = None]])
  /\ UNCHANGED <<now, fails, challenges, issued, everIssued, recordVars, ceremonies, lastLogin>>

-----------------------------------------------------------------------------
(* The calls on one record are carried out in order; the request goes on.   *)
Ends(u) == calls[u] # <<>> /\ calls' = [calls EXCEPT ![u] = Tail(@)]

(* touchPasskey leaves a passkey that is gone alone; the login or step-up   *)
(* succeeds all the same.                                                   *)
Touched(u) ==
  /\ Ends(u) /\ Head(calls[u]).op = "touch"
  /\ LET k == Head(calls[u]).by
     IN /\ keys' = [keys EXCEPT ![u][k.cred] = IF @ = None THEN None ELSE k.counter]
        /\ IF k.for = "login"
           THEN /\ LogIn(u, k.ip, k.cred)
                /\ UNCHANGED <<fails, tickets, issued, everIssued>>
           ELSE /\ Forgive(k.ip)
                /\ IssueTicket("stepup", u, k.ip)
                /\ UNCHANGED lastLogin
  /\ UNCHANGED <<now, challenges, presented, uses, twoFactor, ceremonies, overlapped, seen>>

Added(u) ==
  /\ Ends(u) /\ Head(calls[u]).op = "add"
  /\ LET k == Head(calls[u]).by
     IN keys' = [keys EXCEPT ![u][k.cred] = IF @ = None THEN k.counter ELSE @]
  /\ UNCHANGED <<now, serverVars, twoFactor, ceremonies, overlapped, seen, lastLogin>>

Removed(u) ==
  /\ Ends(u) /\ Head(calls[u]).op = "remove"
  /\ LET remaining == Head(calls[u]).remaining
     IN /\ keys' = [keys EXCEPT ![u] = remaining]
        /\ twoFactor' = IF \A c \in Creds : remaining[c] = None THEN twoFactor \ {u} ELSE twoFactor
  /\ UNCHANGED <<now, serverVars, ceremonies, overlapped, seen, lastLogin>>

(* The service rejects the call, the handler throws, and what it spent stays *)
(* spent.  (Bound: the call has not taken effect.)                          *)
CallRejected(u) ==
  /\ Ends(u)
  /\ UNCHANGED <<now, serverVars, recordVars, ceremonies, overlapped, seen, lastLogin>>

-----------------------------------------------------------------------------
Tick ==
  /\ now < MaxTime /\ now' = now + 1
  /\ UNCHANGED <<serverVars, recordVars, ceremonies, calls, overlapped, seen, lastLogin>>

(* The part of sweep that is about the lockout. *)
SweepFails ==
  /\ fails' = [ip \in IPs |-> WithoutExpiredLock(fails[ip])]
  /\ UNCHANGED <<now, tickets, challenges, issued, everIssued, presented, uses, recordVars, ceremonies, calls,
                 overlapped, seen, lastLogin>>

(* Everything but the records is in memory only. *)
Restart ==
  /\ fails' = [ip \in IPs |-> NoFails]
  /\ tickets' = {} /\ challenges' = {} /\ everIssued' = {}
  /\ ceremonies' = {} /\ calls' = [u \in Users |-> <<>>]
  /\ overlapped' = {} /\ seen' = NothingSeen
  /\ UNCHANGED <<now, issued, presented, uses, recordVars, lastLogin>>

Handles == 1..issued
Handle(ip, u) ==
  \/ PasswordLogin(ip, u)
  \/ PasswordThenPasskey(ip, u)
  \/ LoginOptions(ip, u)
  \/ StepUpWrong(u, ip)
  \/ StepUp(u, ip)
  \/ \E ticket \in Handles :
       \/ AddOptions(u, ip, ticket)
       \/ Rename(u, ip, ticket)
       \/ \E c \in Creds : Remove(u, ip, ticket, c)
       \/ \E h \in Handles, c \in Creds, n \in Counters : AddVerify(u, ip, ticket, h, c, n)
  \/ \E h \in Handles, c \in Creds, n \in Counters : StepUpPasskey(u, ip, h, c, n)

Anonymous(ip) ==
  \/ WrongPassword(ip)
  \/ LoginOptions(ip, None)
  \/ \E ticket \in Handles \cup {None}, named \in Users \cup {None}, c \in Creds :
       \/ PasskeyMismatch(ip, ticket, named, c)
       \/ \E h \in Handles, n \in Counters : PasskeyLogin(ip, ticket, named, h, c, n)

Next ==
  \/ \E ip \in IPs : Anonymous(ip) \/ \E u \in Users : Handle(ip, u)
  \/ \E u \in Users : StepUpOptions(u) \/ Touched(u) \/ Added(u) \/ Removed(u) \/ CallRejected(u)
  \/ \E k \in ceremonies : Verified(k) \/ Rejected(k)
  \/ Tick \/ SweepFails \/ Restart

Spec == Init /\ [][Next]_vars

-----------------------------------------------------------------------------
(* A ticket or a challenge is good for one request, however the requests    *)
(* that present it overlap.                                                 *)
HonouredOnce == \A h \in Ids : uses[h] <= 1

(* A ticket that was neither presented nor has expired is there, unless     *)
(* at least TicketMax later ones were issued: another's ticket ends mine    *)
(* only at the limit.                                                       *)
TicketsAreKept ==
  \A t \in everIssued :
    \/ t \in tickets \/ t.exp <= now \/ t.id \in presented
    \/ Cardinality({l \in everIssued : l.id > t.id}) >= TicketMax

(* The counter stored with a passkey goes back in two ways only.  It may     *)
(* fall to zero, which finishAuthentication lets through as the report of an *)
(* authenticator without a counter (webauthn.ts:609).  And requests of one   *)
(* account that overlap test, or write back, what they read before; but none *)
(* brings a counter older than all that they read.                          *)
NoOlderCounter ==
  [][\A u \in Users, c \in Creds :
       keys[u][c] # None /\ keys'[u][c] # None /\ keys'[u][c] < keys[u][c]
         => keys'[u][c] = 0 \/ \E n \in seen[u][c] \ {None} : n <= keys'[u][c]]_vars

(* Nobody logs in with a passkey that the account does not have; only a     *)
(* removal that overlaps the verification comes too late.                   *)
PasskeyLoginsAreHeld ==
  [][lastLogin' # lastLogin =>
       \/ lastLogin'.cred = None
       \/ lastLogin'.cred \in PasskeysOf(lastLogin'.user)
       \/ lastLogin'.user \in overlapped]_vars

(* From a locked address no login with a password succeeds and no passkey   *)
(* login begins; one that began before the lock may end and lift it, and so *)
(* may a step-up.                                                           *)
LockedOut ==
  [][\A ip \in IPs : Locked(ip) =>
       /\ \A k \in ceremonies' \ ceremonies : k.for = "login" => k.ip # ip
       /\ lastLogin' # lastLogin /\ lastLogin'.ip = ip => lastLogin'.cred # None]_vars
=============================================================================
