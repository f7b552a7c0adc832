---------------------------- MODULE LoginProofs ----------------------------
(***************************************************************************)
(* For every set of users, addresses and passkeys and all limits: a ticket *)
(* or challenge is honoured once, a ticket is not lost before its time,    *)
(* a locked address stays locked, and until two requests of an account     *)
(* overlap its counters advance and its passkey logins are its own.        *)
(***************************************************************************)
EXTENDS Login, FiniteSetTheorems, TLAPS

(* Every ticket and challenge has a number of its own that was drawn and    *)
(* has not been honoured.                                                   *)
Numbers ==
  /\ issued \in 0..MaxIssued
  /\ uses \in [Ids -> Nat]
  /\ \A t \in tickets : t.id \in 1..issued /\ uses[t.id] = 0
  /\ \A e \in challenges : e.id \in 1..issued /\ uses[e.id] = 0
  /\ \A t \in tickets, e \in challenges : t.id # e.id
  /\ \A h \in Ids : h > issued => uses[h] = 0
  /\ HonouredOnce

LEMMA InitNumbers == Init => Numbers
BY LoginAssumption DEF Init, Numbers, HonouredOnce, Ids

(* A step that honours the handles of H, which it takes away, and may issue *)
(* one number, as a ticket or as a challenge.                               *)
LEMMA NumbersStep ==
  ASSUME Numbers, NEW H, Honour(H),
         \/ issued' = issued /\ tickets' \subseteq tickets /\ challenges' \subseteq challenges
         \/ /\ issued' = issued + 1 /\ issued < MaxIssued
            /\ \A t \in tickets' : t \in tickets \/ t.id = issued + 1
            /\ challenges' \subseteq challenges
         \/ /\ issued' = issued + 1 /\ issued < MaxIssued
            /\ \A e \in challenges' : e \in challenges \/ e.id = issued + 1
            /\ tickets' \subseteq tickets,
         \A h \in H \cap Ids : (\E t \in tickets : t.id = h) \/ (\E e \in challenges : e.id = h),
         \A t \in tickets' : t.id \notin H \/ t \notin tickets,
         \A e \in challenges' : e.id \notin H \/ e \notin challenges
  PROVE  Numbers'
<1> USE LoginAssumption DEF Numbers, Ids, Honour, HonouredOnce
<1>1. uses' \in [Ids -> Nat] /\ issued' \in 0..MaxIssued
  OBVIOUS
<1>2. \A h \in Ids : h > issued => h \notin H
  OBVIOUS
<1>3. \A h \in Ids : uses[h] = 0 \/ h \notin H
  OBVIOUS
<1>4. \A t \in tickets' : t.id \in 1..issued' /\ uses'[t.id] = 0
  BY <1>2
<1>5. \A e \in challenges' : e.id \in 1..issued' /\ uses'[e.id] = 0
  BY <1>2
<1>6. \A t \in tickets', e \in challenges' : t.id # e.id
  OBVIOUS
<1>7. \A h \in Ids : h > issued' => uses'[h] = 0
  BY <1>2
<1>8. HonouredOnce'
  BY <1>3
<1> QED BY <1>1, <1>4, <1>5, <1>6, <1>7, <1>8

(* A step that honours nothing. *)
LEMMA NumbersKept ==
  ASSUME Numbers, UNCHANGED uses,
         \/ issued' = issued /\ tickets' \subseteq tickets /\ challenges' \subseteq challenges
         \/ /\ issued' = issued + 1 /\ issued < MaxIssued
            /\ \A t \in tickets' : t \in tickets \/ t.id = issued + 1
            /\ challenges' \subseteq challenges
         \/ /\ issued' = issued + 1 /\ issued < MaxIssued
            /\ \A e \in challenges' : e \in challenges \/ e.id = issued + 1
            /\ tickets' \subseteq tickets
  PROVE  Numbers'
<1>1. Honour({})
  BY DEF Honour, Numbers
<1> QED BY <1>1, NumbersStep

LEMMA NumbersIssueTicket ==
  ASSUME NEW purpose, NEW u, NEW ip, IssueTicket(purpose, u, ip), Numbers
  PROVE  /\ issued' = issued + 1 /\ issued < MaxIssued
         /\ \A t \in tickets' : t \in tickets \/ t.id = issued + 1
BY DEF IssueTicket, NewTicket, RoomForTicket, Newest, Unexpired

LEMMA NumbersIssueChallenge ==
  ASSUME NEW purpose, NEW u, IssueChallenge(purpose, u), Numbers
  PROVE  /\ issued' = issued + 1 /\ issued < MaxIssued
         /\ \A e \in challenges' : e \in challenges \/ e.id = issued + 1
BY DEF IssueChallenge, Newest, Unexpired

(* The requests that present a ticket or a challenge. *)
LEMMA PresentingNumbers ==
  ASSUME Numbers, NEW ip \in IPs
  PROVE  /\ \A ticket, named, c : PasskeyMismatch(ip, ticket, named, c) => Numbers'
         /\ \A ticket, named, h, c, n : PasskeyLogin(ip, ticket, named, h, c, n) => Numbers'
         /\ \A u, h, c, n : StepUpPasskey(u, ip, h, c, n) => Numbers'
         /\ \A u, ticket, h, c, n : AddVerify(u, ip, ticket, h, c, n) => Numbers'
         /\ \A u, ticket : Rename(u, ip, ticket) => Numbers'
         /\ \A u, ticket, c : Remove(u, ip, ticket, c) => Numbers'
<1> USE LoginAssumption DEF SpendTicket, ConsumeChallenge, WithoutId, ValidTicket, ValidChallenge, Unexpired
<1>0. None \notin Ids
  BY DEF Ids
<1>1. ASSUME NEW ticket, NEW named, NEW c, PasskeyMismatch(ip, ticket, named, c) PROVE Numbers'
  <2>1. issued' = issued /\ challenges' = challenges /\ tickets' \subseteq tickets /\ Honour({ticket})
    BY <1>1 DEF PasskeyMismatch
  <2>2. ticket = None \/ \E t \in tickets : t.id = ticket
    BY <1>1 DEF PasskeyMismatch, TicketAdmits
  <2>3. \A t \in tickets' : t.id # ticket
    BY <1>0, <1>1 DEF PasskeyMismatch, Numbers, Ids
  <2>4. \A e \in challenges' : e.id # ticket
    BY <1>0, <2>1, <2>2 DEF Numbers, Ids
  <2> QED BY <1>0, <2>1, <2>2, <2>3, <2>4, NumbersStep
<1>2. ASSUME NEW ticket, NEW named, NEW h, NEW c, NEW n, PasskeyLogin(ip, ticket, named, h, c, n)
      PROVE Numbers'
  <2> DEFINE u == TargetOf(ticket, named, c)
             good == \E e \in ValidChallenge(h, "login") : e.user \in {None, u}
             H == IF good THEN {ticket, h} ELSE {ticket}
  <2>1. issued' = issued /\ challenges' = WithoutId(challenges, h) /\ tickets' \subseteq tickets /\ Honour(H)
    BY <1>2 DEF PasskeyLogin
  <2>2. ticket = None \/ \E t \in tickets : t.id = ticket
    BY <1>2 DEF PasskeyLogin, TicketAdmits
  <2>3. good => \E e \in challenges : e.id = h
    OBVIOUS
  <2>4. \A t \in tickets' : t.id # ticket
    BY <1>0, <1>2 DEF PasskeyLogin, Numbers, Ids
  <2>5. \A t \in tickets' : t.id \notin H
    BY <2>1, <2>3, <2>4 DEF Numbers
  <2>6. \A e \in challenges' : e.id # ticket /\ e.id # h /\ e \in challenges
    BY <1>0, <2>1, <2>2 DEF Numbers, Ids
  <2>7. \A x \in H \cap Ids : (\E t \in tickets : t.id = x) \/ (\E e \in challenges : e.id = x)
    BY <1>0, <2>2, <2>3
  <2>8. challenges' \subseteq challenges /\ \A e \in challenges' : e.id \notin H
    BY <2>6
  <2> HIDE DEF H, good
  <2> QED BY <2>1, <2>5, <2>7, <2>8, NumbersStep
<1>3. ASSUME NEW u, NEW h, NEW c, NEW n, StepUpPasskey(u, ip, h, c, n) PROVE Numbers'
  <2> DEFINE good == \E e \in ValidChallenge(h, "login") : e.user \in {None, u}
             H == IF good THEN {h} ELSE {}
  <2>1. issued' = issued /\ challenges' = WithoutId(challenges, h) /\ tickets' = tickets /\ Honour(H)
    BY <1>3 DEF StepUpPasskey
  <2>2. good => \E e \in challenges : e.id = h
    OBVIOUS
  <2>3. \A t \in tickets' : t.id \notin H
    BY <2>1, <2>2 DEF Numbers
  <2>4. challenges' \subseteq challenges /\ \A e \in challenges' : e.id \notin H
    BY <2>1
  <2>5. \A x \in H \cap Ids : \E e \in challenges : e.id = x
    BY <2>2
  <2> HIDE DEF H, good
  <2> QED BY <2>1, <2>3, <2>4, <2>5, NumbersStep
<1>4. ASSUME NEW u, NEW ticket, NEW h, NEW c, NEW n, AddVerify(u, ip, ticket, h, c, n) PROVE Numbers'
  <2> DEFINE good == ValidChallenge(h, "register") # {}
             H == IF good THEN {ticket, h} ELSE {ticket}
  <2>1. issued' = issued /\ tickets' = WithoutId(tickets, ticket)
    BY <1>4 DEF AddVerify
  <2>2. CASE ~ValidTicket(ticket, "stepup", u, ip)
    <3>1. UNCHANGED <<uses, challenges>>
      BY <1>4, <2>2, Zenon DEF AddVerify
    <3> QED BY <2>1, <3>1, NumbersKept
  <2>3. CASE ValidTicket(ticket, "stepup", u, ip)
    <3>1. challenges' = WithoutId(challenges, h) /\ Honour(H)
      BY <1>4, <2>3, Zenon DEF AddVerify, ConsumeChallenge
    <3>2. (\E t \in tickets : t.id = ticket) /\ (good => \E e \in challenges : e.id = h)
      BY <2>3
    <3>3. tickets' \subseteq tickets /\ \A t \in tickets' : t.id \notin H
      BY <2>1, <3>2 DEF Numbers
    <3>4. challenges' \subseteq challenges /\ \A e \in challenges' : e.id \notin H
      BY <3>1, <3>2 DEF Numbers
    <3>5. \A x \in H \cap Ids : (\E t \in tickets : t.id = x) \/ (\E e \in challenges : e.id = x)
      BY <3>2
    <3> HIDE DEF H, good
    <3> QED BY <2>1, <3>1, <3>3, <3>4, <3>5, NumbersStep
  <2> QED BY <2>2, <2>3
<1>5. ASSUME NEW u, NEW ticket, Rename(u, ip, ticket) PROVE Numbers'
  <2> DEFINE H == IF ValidTicket(ticket, "stepup", u, ip) THEN {ticket} ELSE {}
  <2>1. issued' = issued /\ challenges' = challenges /\ tickets' = WithoutId(tickets, ticket) /\ Honour(H)
    BY <1>5 DEF Rename
  <2>2. tickets' \subseteq tickets /\ \A t \in tickets' : t.id \notin H
    BY <2>1
  <2>3. \A x \in H \cap Ids : \E t \in tickets : t.id = x
    OBVIOUS
  <2>4. \A e \in challenges' : e.id \notin H
    BY <2>1 DEF Numbers
  <2> HIDE DEF H
  <2> QED BY <2>1, <2>2, <2>3, <2>4, NumbersStep
<1>6. ASSUME NEW u, NEW ticket, NEW c, Remove(u, ip, ticket, c) PROVE Numbers'
  <2>1. issued' = issued /\ challenges' = challenges /\ tickets' = WithoutId(tickets, ticket) /\ Honour({ticket})
    BY <1>6 DEF Remove
  <2>2. \E t \in tickets : t.id = ticket
    BY <1>6 DEF Remove
  <2>3. tickets' \subseteq tickets /\ \A t \in tickets' : t.id # ticket
    BY <2>1
  <2>4. \A e \in challenges' : e.id # ticket
    BY <2>1, <2>2 DEF Numbers
  <2> QED BY <2>1, <2>2, <2>3, <2>4, NumbersStep
<1> QED BY <1>1, <1>2, <1>3, <1>4, <1>5, <1>6

(* The requests that issue a ticket or a challenge. *)
LEMMA IssuingNumbers ==
  ASSUME Numbers, NEW ip, NEW u
  PROVE  /\ PasswordThenPasskey(ip, u) => Numbers'
         /\ LoginOptions(ip, u) => Numbers'
         /\ StepUp(u, ip) => Numbers'
         /\ StepUpOptions(u) => Numbers'
         /\ \A ticket : AddOptions(u, ip, ticket) => Numbers'
<1>1. ASSUME NEW purpose, IssueTicket(purpose, u, ip), UNCHANGED <<challenges, uses>> PROVE Numbers'
  BY <1>1, NumbersIssueTicket, NumbersKept
<1>2. ASSUME NEW purpose, IssueChallenge(purpose, u), UNCHANGED <<tickets, uses>> PROVE Numbers'
  BY <1>2, NumbersIssueChallenge, NumbersKept
<1> QED BY <1>1, <1>2 DEF PasswordThenPasskey, LoginOptions, StepUp, StepUpOptions, AddOptions

LEMMA NextNumbers == Numbers /\ [Next]_vars => Numbers'
<1> SUFFICES ASSUME Numbers, [Next]_vars PROVE Numbers'
  OBVIOUS
<1>1. ASSUME UNCHANGED <<uses, issued>>, tickets' \subseteq tickets, challenges' \subseteq challenges
      PROVE Numbers'
  BY <1>1, NumbersKept
<1>2. ASSUME NEW ip \in IPs, Anonymous(ip) PROVE Numbers'
  BY <1>1, <1>2, PresentingNumbers, IssuingNumbers DEF Anonymous, WrongPassword
<1>3. ASSUME NEW ip \in IPs, NEW u \in Users, Handle(ip, u) PROVE Numbers'
  BY <1>1, <1>3, PresentingNumbers, IssuingNumbers DEF Handle, PasswordLogin, StepUpWrong
<1>4. ASSUME NEW u \in Users, StepUpOptions(u) PROVE Numbers'
  BY <1>4, IssuingNumbers
<1>5. ASSUME NEW u \in Users, Touched(u) PROVE Numbers'
  <2> DEFINE k == Head(calls[u]).by
  <2>1. UNCHANGED <<challenges, uses>>
    BY <1>5 DEF Touched
  <2>2. CASE UNCHANGED <<tickets, issued>>
    BY <1>1, <2>1, <2>2
  <2>3. CASE IssueTicket("stepup", u, k.ip)
    BY <2>1, <2>3, NumbersIssueTicket, NumbersKept
  <2> QED BY <1>5, <2>2, <2>3, Zenon DEF Touched
<1>6. CASE \/ \E u \in Users : Added(u) \/ Removed(u) \/ CallRejected(u)
           \/ \E k \in ceremonies : Verified(k) \/ Rejected(k)
           \/ Tick \/ SweepFails \/ Restart \/ UNCHANGED vars
  BY <1>1, <1>6 DEF Added, Removed, CallRejected, Verified, Rejected, Tick, SweepFails, Restart, serverVars, vars
<1> QED BY <1>2, <1>3, <1>4, <1>5, <1>6 DEF Next

(* checkTicket and the challenge store honour each number once. *)
THEOREM Once == Spec => []HonouredOnce
<1>1. Spec => []Numbers
  BY InitNumbers, NextNumbers, PTL DEF Spec
<1>2. Numbers => HonouredOnce
  BY DEF Numbers
<1> QED BY <1>1, <1>2, PTL

-----------------------------------------------------------------------------
(* What is kept of a ticket: it is among those issued, of which there are   *)
(* finitely many, with numbers that have been drawn.                        *)
Kept ==
  /\ issued \in Nat
  /\ tickets \subseteq everIssued
  /\ IsFiniteSet(everIssued)
  /\ \A t \in everIssued : t.id \in 1..issued /\ t.exp \in Nat
  /\ now \in Nat
  /\ TicketsAreKept

Later(t) == {l \in everIssued : l.id > t.id}

LEMMA InitKept == Init => Kept
BY FS_EmptySet DEF Init, Kept, TicketsAreKept

(* No ticket is lost by a step that issues none. *)
LEMMA KeptStep ==
  ASSUME Kept, UNCHANGED everIssued, issued' \in Nat, issued' >= issued,
         now' \in Nat, now' >= now, presented \subseteq presented',
         tickets' \subseteq tickets, \A t \in tickets : t \in tickets' \/ t.id \in presented'
  PROVE  Kept'
<1> USE DEF Kept
<1>1. \A t \in everIssued : t.exp <= now => t.exp <= now'
  OBVIOUS
<1>2. TicketsAreKept'
  BY <1>1 DEF TicketsAreKept
<1> QED BY <1>2

(* At the limit the oldest ticket makes room, and TicketMax - 1 newer ones  *)
(* and the new one are left.                                                *)
LEMMA KeptIssue ==
  ASSUME Kept, NEW purpose, NEW u, NEW ip, IssueTicket(purpose, u, ip),
         UNCHANGED <<now, presented>>
  PROVE  Kept'
<1> USE LoginAssumption DEF Kept
<1> DEFINE new == NewTicket(purpose, u, ip)
<1>1. /\ everIssued' = everIssued \cup {new} /\ tickets' = RoomForTicket \cup {new}
      /\ issued' = issued + 1 /\ new.id = issued + 1 /\ new.exp \in Nat
  BY DEF IssueTicket, NewTicket
<1>2. IsFiniteSet(everIssued')
  BY <1>1, FS_AddElement
<1>3. tickets' \subseteq everIssued'
  BY <1>1 DEF RoomForTicket, Newest, Unexpired
<1>4. \A t \in everIssued' : t.id \in 1..issued' /\ t.exp \in Nat
  BY <1>1
<1>5. ASSUME NEW t \in everIssued
      PROVE  /\ Later(t)' = Later(t) \cup {new} /\ new \notin Later(t)
             /\ IsFiniteSet(Later(t)) /\ IsFiniteSet(Later(t)')
             /\ Cardinality(Later(t)') = Cardinality(Later(t)) + 1
             /\ Cardinality(Later(t)) \in Nat
  <2>1. Later(t)' = Later(t) \cup {new}
    BY <1>1 DEF Later
  <2>2. new \notin Later(t)
    BY <1>1 DEF Later
  <2>3. IsFiniteSet(Later(t))
    BY FS_Subset DEF Later
  <2> QED BY <2>1, <2>2, <2>3, FS_AddElement, FS_CardinalityType
<1>6. TicketsAreKept'
  <2> SUFFICES ASSUME NEW t \in everIssued', t \notin tickets', ~(t.exp <= now), t.id \notin presented
               PROVE  Cardinality(Later(t)') >= TicketMax
    BY DEF TicketsAreKept, Later
  <2>1. t \in everIssued
    BY <1>1
  <2>2. CASE t \notin tickets
    <3>1. Cardinality(Later(t)) >= TicketMax
      BY <2>1, <2>2, Zenon DEF TicketsAreKept, Later, Kept
    <3> QED BY <1>5, <2>1, <3>1
  <2>3. CASE t \in tickets
    <3> DEFINE F == {f \in Unexpired(tickets) : f.id > t.id}
    <3>1. t \in Unexpired(tickets)
      BY <2>1, <2>3 DEF Unexpired
    <3>2. ~(Cardinality(F) < TicketMax - 1)
      BY <1>1, <3>1 DEF RoomForTicket, Newest
    <3>3. F \subseteq Later(t)
      BY DEF Later, Unexpired
    <3>4. IsFiniteSet(F) /\ Cardinality(F) <= Cardinality(Later(t)) /\ Cardinality(F) \in Nat
      BY <1>5, <2>1, <3>3, FS_Subset, FS_CardinalityType
    <3> QED BY <1>5, <2>1, <3>2, <3>4
  <2> QED BY <2>2, <2>3
<1> QED BY <1>1, <1>2, <1>3, <1>4, <1>6

LEMMA SpendKept ==
  ASSUME NEW h, SpendTicket(h)
  PROVE  /\ presented \subseteq presented' /\ tickets' \subseteq tickets
         /\ \A t \in tickets : t \in tickets' \/ t.id \in presented'
BY DEF SpendTicket, Present, WithoutId

LEMMA NextKept == Kept /\ [Next]_vars => Kept'
<1> SUFFICES ASSUME Kept, [Next]_vars PROVE Kept'
  OBVIOUS
<1>1. issued \in Nat /\ now \in Nat
  BY DEF Kept
<1>2. ASSUME NEW h, SpendTicket(h) \/ UNCHANGED <<tickets, presented>>, UNCHANGED <<now, issued, everIssued>>
      PROVE Kept'
  BY <1>1, <1>2, SpendKept, KeptStep
<1>3. ASSUME NEW purpose, NEW u, IssueChallenge(purpose, u), UNCHANGED <<now, tickets, everIssued, presented>>
      PROVE Kept'
  BY <1>1, <1>3, KeptStep DEF IssueChallenge
<1>4. ASSUME NEW ip \in IPs, Anonymous(ip) PROVE Kept'
  <2>1. CASE WrongPassword(ip) \/ LoginOptions(ip, None)
    BY <1>2, <1>3, <2>1 DEF WrongPassword, LoginOptions
  <2>2. ASSUME NEW ticket, NEW named, NEW c, PasskeyMismatch(ip, ticket, named, c) PROVE Kept'
    BY <1>2, <2>2 DEF PasskeyMismatch
  <2>3. ASSUME NEW ticket, NEW named, NEW h, NEW c, NEW n, PasskeyLogin(ip, ticket, named, h, c, n)
        PROVE Kept'
    BY <1>2, <2>3 DEF PasskeyLogin
  <2> QED BY <1>4, <2>1, <2>2, <2>3 DEF Anonymous
<1>5. ASSUME NEW ip \in IPs, NEW u \in Users, Handle(ip, u) PROVE Kept'
  BY <1>2, <1>3, <1>5, KeptIssue
     DEF Handle, PasswordLogin, PasswordThenPasskey, LoginOptions, StepUpWrong, StepUp, AddOptions, Rename,
         Remove, AddVerify, StepUpPasskey
<1>6. ASSUME NEW u \in Users, Touched(u) PROVE Kept'
  BY <1>2, <1>6, KeptIssue DEF Touched
<1>7. ASSUME NEW u \in Users, StepUpOptions(u) \/ Added(u) \/ Removed(u) \/ CallRejected(u) PROVE Kept'
  BY <1>2, <1>3, <1>7 DEF StepUpOptions, Added, Removed, CallRejected, serverVars
<1>8. CASE \/ \E k \in ceremonies : Verified(k) \/ Rejected(k)
           \/ SweepFails \/ UNCHANGED vars
  BY <1>2, <1>8 DEF Verified, Rejected, SweepFails, vars, serverVars
<1>9. CASE Tick
  BY <1>1, <1>9, KeptStep DEF Tick, serverVars
<1>10. CASE Restart
  BY <1>1, <1>10, FS_EmptySet DEF Restart, Kept, TicketsAreKept
<1> QED BY <1>4, <1>5, <1>6, <1>7, <1>8, <1>9, <1>10 DEF Next

(* issueTicket drops only what has expired or has TicketMax newer tickets.  *)
THEOREM TicketKept == Spec => []TicketsAreKept
<1>1. Spec => []Kept
  BY InitKept, NextKept, PTL DEF Spec
<1>2. Kept => TicketsAreKept
  BY DEF Kept
<1> QED BY <1>1, <1>2, PTL

-----------------------------------------------------------------------------
(* The requests in flight and the records they change.  A request of an     *)
(* account that was alone from its start decides on the record as it is.    *)
RequestTypes ==
  /\ keys \in [Users -> Keys]
  /\ \A t \in tickets : t.user \in Users
  /\ ceremonies \subseteq Ceremony /\ IsFiniteSet(ceremonies)
  /\ calls \in [Users -> Seq(Call)]
  /\ \A u \in Users : \A i \in 1..Len(calls[u]) : calls[u][i].op # "remove" => calls[u][i].by.user = u

CeremoniesOf(u) == {k \in ceremonies : k.user = u}

FitsCeremony(k) == k.for # "register" => keys[k.user][k.cred] = k.stored

FitsCall(u, call) ==
  /\ call.op = "touch" =>
       keys[u][call.by.cred] = call.by.stored /\ CountersAgree(call.by.stored, call.by.counter)
  /\ call.op = "remove" => \A c \in Creds : call.remaining[c] \in {None, keys[u][c]}

Undisturbed(u) ==
  /\ \A k, l \in CeremoniesOf(u) : k = l
  /\ CeremoniesOf(u) # {} => calls[u] = <<>>
  /\ Len(calls[u]) <= 1
  /\ \A k \in CeremoniesOf(u) : FitsCeremony(k)
  /\ \A i \in 1..Len(calls[u]) : FitsCall(u, calls[u][i])

(* What a request goes by was stored as a request of the account began: the  *)
(* counter that an assertion is tested against, the list that a removal     *)
(* leaves.                                                                  *)
KnownTo(k, table) == k.for # "register" => k.stored \in table[k.cred]

KnownToCall(call, table) ==
  /\ call.op = "touch" =>
       call.by.stored \in table[call.by.cred] /\ CountersAgree(call.by.stored, call.by.counter)
  /\ call.op = "remove" => \A c \in Creds : call.remaining[c] \in {None} \cup table[c]

SeenFits ==
  /\ seen \in [Users -> [Creds -> SUBSET (Counters \cup {None})]]
  /\ \A k \in ceremonies : KnownTo(k, seen[k.user])
  /\ \A u \in Users : \A i \in 1..Len(calls[u]) : KnownToCall(calls[u][i], seen[u])

InFlightFits == RequestTypes /\ SeenFits /\ \A u \in Users \ overlapped : Undisturbed(u)

requestVars == <<keys, ceremonies, calls, overlapped, seen>>

LEMMA InitInFlight == Init => InFlightFits
<1> SUFFICES ASSUME Init PROVE InFlightFits
  OBVIOUS
<1>1. keys \in [Users -> Keys]
  BY LoginAssumption DEF Init, Keys, Counters
<1>2. RequestTypes
  BY <1>1, FS_EmptySet DEF Init, RequestTypes
<1>3. \A u \in Users : Undisturbed(u)
  BY DEF Init, Undisturbed, CeremoniesOf
<1>4. SeenFits
  BY DEF Init, SeenFits, NothingSeen
<1> QED BY <1>2, <1>3, <1>4 DEF InFlightFits

(* Requests that neither begin nor end anything. *)
LEMMA QuietInFlight ==
  ASSUME InFlightFits, UNCHANGED requestVars, \A t \in tickets' : t \in tickets \/ t.user \in Users
  PROVE  InFlightFits'
<1>1. RequestTypes'
  BY DEF InFlightFits, RequestTypes, requestVars
<1>2. SeenFits'
  BY DEF InFlightFits, SeenFits, requestVars, KnownTo, KnownToCall
<1>3. \A u \in Users \ overlapped' : Undisturbed(u)'
  BY DEF InFlightFits, requestVars, Undisturbed, CeremoniesOf, FitsCeremony, FitsCall
<1> QED BY <1>1, <1>2, <1>3 DEF InFlightFits

(* An account with nothing in flight has no ceremony and no call. *)
LEMMA NothingInFlight ==
  ASSUME RequestTypes, NEW u \in Users, InFlight(u) = 0
  PROVE  CeremoniesOf(u) = {} /\ calls[u] = <<>>
<1>1. IsFiniteSet(CeremoniesOf(u))
  BY FS_Subset DEF RequestTypes, CeremoniesOf
<1>2. Cardinality(CeremoniesOf(u)) \in Nat /\ Len(calls[u]) \in Nat
  BY <1>1, FS_CardinalityType DEF RequestTypes
<1>3. Cardinality(CeremoniesOf(u)) = 0 /\ Len(calls[u]) = 0
  BY <1>2 DEF InFlight, CeremoniesOf
<1> QED BY <1>1, <1>3, FS_EmptySet DEF RequestTypes

LEMMA StartInFlight ==
  ASSUME RequestTypes, NEW u \in Users, StartFor(u), u \notin overlapped'
  PROVE  u \notin overlapped /\ CeremoniesOf(u) = {} /\ calls[u] = <<>>
<1>1. InFlight(u) \in Nat
  <2>1. IsFiniteSet(CeremoniesOf(u))
    BY FS_Subset DEF RequestTypes, CeremoniesOf
  <2> QED BY <2>1, FS_CardinalityType DEF RequestTypes, InFlight, CeremoniesOf
<1>2. InFlight(u) = 0 /\ u \notin overlapped
  BY <1>1 DEF StartFor
<1> QED BY <1>2, NothingInFlight

(* As a request starts, what the others go by is still on record, and what   *)
(* it reads is added.                                                       *)
LEMMA StartSeen ==
  ASSUME RequestTypes, SeenFits, NEW u \in Users, StartFor(u)
  PROVE  /\ seen' \in [Users -> [Creds -> SUBSET (Counters \cup {None})]]
         /\ \A k \in ceremonies : KnownTo(k, seen'[k.user])
         /\ \A v \in Users : \A i \in 1..Len(calls[v]) : KnownToCall(calls[v][i], seen'[v])
         /\ \A c \in Creds : keys[u][c] \in seen'[u][c]
<1> DEFINE table == [c \in Creds |-> {keys[u][c]} \cup IF InFlight(u) > 0 THEN seen[u][c] ELSE {}]
<1>1. seen' = [seen EXCEPT ![u] = table] /\ seen \in [Users -> [Creds -> SUBSET (Counters \cup {None})]]
  BY DEF StartFor, SeenFits
<1>2. table \in [Creds -> SUBSET (Counters \cup {None})]
  BY <1>1 DEF RequestTypes, Keys
<1>3. \A c \in Creds : keys[u][c] \in table[c]
  OBVIOUS
<1>4. InFlight(u) > 0 => \A c \in Creds : seen[u][c] \subseteq table[c]
  OBVIOUS
<1>5. InFlight(u) > 0 \/ (CeremoniesOf(u) = {} /\ calls[u] = <<>>)
  <2>1. IsFiniteSet(CeremoniesOf(u))
    BY FS_Subset DEF RequestTypes, CeremoniesOf
  <2>2. InFlight(u) \in Nat
    BY <2>1, FS_CardinalityType DEF RequestTypes, InFlight, CeremoniesOf
  <2> QED BY <2>2, NothingInFlight
<1> HIDE DEF table
<1>6. seen'[u] = table /\ \A v \in Users : v # u => seen'[v] = seen[v]
  BY <1>1
<1>7. ASSUME NEW k \in ceremonies PROVE KnownTo(k, seen'[k.user])
  <2>1. k \in Ceremony /\ k.user \in Users /\ k.cred \in Creds /\ KnownTo(k, seen[k.user])
    BY DEF RequestTypes, Ceremony, SeenFits
  <2>2. k.user = u => InFlight(u) > 0
    BY <1>5 DEF CeremoniesOf
  <2> QED BY <1>4, <1>6, <2>1, <2>2 DEF KnownTo
<1>8. ASSUME NEW v \in Users, NEW i \in 1..Len(calls[v]) PROVE KnownToCall(calls[v][i], seen'[v])
  <2>1. calls[v][i] \in Call /\ KnownToCall(calls[v][i], seen[v])
    BY DEF RequestTypes, SeenFits
  <2>2. calls[v][i].op = "touch" => calls[v][i].by.cred \in Creds
    BY <2>1 DEF Call, Ceremony
  <2>3. v = u => InFlight(u) > 0
    BY <1>5
  <2>4. CASE v # u
    BY <1>6, <2>1, <2>4
  <2>5. CASE v = u
    BY <1>4, <1>6, <2>1, <2>2, <2>3, <2>5 DEF KnownToCall
  <2> QED BY <2>4, <2>5
<1> QED BY <1>1, <1>2, <1>3, <1>6, <1>7, <1>8

(* Of an account that a step does not touch nothing changes. *)
LEMMA OtherInFlight ==
  ASSUME NEW v, Undisturbed(v), CeremoniesOf(v)' = CeremoniesOf(v), calls'[v] = calls[v], keys'[v] = keys[v]
  PROVE  Undisturbed(v)'
<1>1. \A k \in CeremoniesOf(v) : k.user = v
  BY DEF CeremoniesOf
<1>2. \A k \in CeremoniesOf(v)' : FitsCeremony(k)'
  BY <1>1 DEF Undisturbed, FitsCeremony
<1>3. \A i \in 1..Len(calls'[v]) : FitsCall(v, calls[v][i])'
  BY DEF Undisturbed, FitsCall
<1>4. \A k, l \in CeremoniesOf(v)' : k = l
  BY DEF Undisturbed
<1>5. CeremoniesOf(v)' # {} => calls'[v] = <<>>
  BY DEF Undisturbed
<1>6. Len(calls'[v]) <= 1
  BY DEF Undisturbed
<1> QED BY <1>2, <1>3, <1>4, <1>5, <1>6 DEF Undisturbed

LEMMA BeginInFlight ==
  ASSUME InFlightFits, NEW for \in {"login", "stepup", "register"}, NEW u \in Users, NEW ip \in IPs,
         NEW c \in Creds, NEW h \in Ids, NEW n \in Counters, Begin(for, u, ip, c, h, n),
         for # "register" => Matches(u, c),
         UNCHANGED <<keys, calls>>, tickets' \subseteq tickets
  PROVE  InFlightFits'
<1> DEFINE k == [for |-> for, user |-> u, ip |-> ip, cred |-> c, id |-> h,
                 stored |-> IF keys[u][c] = None THEN 0 ELSE keys[u][c], counter |-> n]
<1>1. StartFor(u) /\ ceremonies' = ceremonies \cup {k}
  BY DEF Begin
<1>2. keys[u][c] \in Counters \cup {None} /\ k.stored \in Counters
  BY LoginAssumption DEF InFlightFits, RequestTypes, Keys, Counters
<1>3. k \in Ceremony
  BY <1>2 DEF Ceremony
<1>4. RequestTypes'
  BY <1>1, <1>3, FS_AddElement DEF InFlightFits, RequestTypes
<1>5. ASSUME NEW v \in Users, v \notin overlapped' PROVE Undisturbed(v)'
  <2>1. CASE v # u
    <3>1. CeremoniesOf(v)' = CeremoniesOf(v) /\ v \notin overlapped
      BY <1>1, <1>5, <2>1 DEF CeremoniesOf, StartFor
    <3> QED BY <3>1, OtherInFlight DEF InFlightFits
  <2>2. CASE v = u
    <3>1. CeremoniesOf(v)' = {k} /\ calls'[v] = <<>>
      BY <1>1, <1>5, <2>2, StartInFlight DEF InFlightFits, CeremoniesOf
    <3>2. k.for # "register" => keys'[k.user][k.cred] = k.stored
      BY <1>2 DEF Matches, PasskeysOf
    <3> HIDE DEF k
    <3> QED BY <3>1, <3>2 DEF Undisturbed, FitsCeremony
  <2> QED BY <2>1, <2>2
<1>6. SeenFits'
  <2>1. k.for # "register" => k.stored = keys[u][c]
    BY DEF Matches, PasskeysOf
  <2>2. k.user = u /\ k.cred = c
    OBVIOUS
  <2> HIDE DEF k
  <2>3. KnownTo(k, seen'[k.user])
    BY <1>1, <2>1, <2>2, StartSeen DEF InFlightFits, KnownTo
  <2> QED BY <1>1, <2>3, StartSeen DEF InFlightFits, SeenFits
<1> QED BY <1>4, <1>5, <1>6 DEF InFlightFits

LEMMA RemoveInFlight ==
  ASSUME InFlightFits, NEW ip \in IPs, NEW u \in Users, NEW ticket, NEW c \in Creds, Remove(u, ip, ticket, c)
  PROVE  InFlightFits'
<1> DEFINE call == [op |-> "remove", cred |-> c, remaining |-> [keys[u] EXCEPT ![c] = None]]
<1>1. StartFor(u) /\ calls' = [calls EXCEPT ![u] = Append(@, call)] /\ UNCHANGED <<keys, ceremonies>>
  BY DEF Remove, Send, recordVars
<1>2. call \in Call /\ call.op = "remove" /\ call.op # "touch"
  BY DEF Call, Keys, InFlightFits, RequestTypes
<1>3. \A d \in Creds : call.remaining[d] \in {None, keys[u][d]}
  BY DEF Keys, InFlightFits, RequestTypes
<1> HIDE DEF call
<1>4. RequestTypes'
  <2>1. calls' \in [Users -> Seq(Call)]
    BY <1>1, <1>2 DEF InFlightFits, RequestTypes
  <2>2. \A v \in Users : \A i \in 1..Len(calls'[v]) :
          calls'[v][i].op # "remove" => calls'[v][i].by.user = v
    BY <1>1, <1>2 DEF InFlightFits, RequestTypes
  <2> QED BY <1>1, <2>1, <2>2 DEF InFlightFits, RequestTypes, Remove, SpendTicket, WithoutId
<1>5. ASSUME NEW v \in Users, v \notin overlapped' PROVE Undisturbed(v)'
  <2>1. CASE v # u
    <3>1. calls'[v] = calls[v] /\ v \notin overlapped /\ CeremoniesOf(v)' = CeremoniesOf(v)
      BY <1>1, <1>5, <2>1 DEF InFlightFits, RequestTypes, StartFor, CeremoniesOf
    <3> QED BY <1>1, <3>1, OtherInFlight DEF InFlightFits
  <2>2. CASE v = u
    <3>1. CeremoniesOf(v) = {} /\ calls[v] = <<>>
      BY <1>1, <1>5, <2>2, StartInFlight DEF InFlightFits
    <3>2. CeremoniesOf(v)' = {} /\ Len(calls'[v]) = 1 /\ calls'[v][1] = call
      BY <1>1, <1>2, <2>2, <3>1 DEF CeremoniesOf, InFlightFits, RequestTypes
    <3>3. \A i \in 1..Len(calls'[v]) : calls'[v][i] = call
      BY <3>2
    <3>4. \A d \in Creds : call.remaining[d] \in {None, keys'[v][d]}
      BY <1>1, <1>3, <2>2
    <3> QED BY <1>2, <3>2, <3>3, <3>4 DEF Undisturbed, FitsCall
  <2> QED BY <2>1, <2>2
<1>6. SeenFits'
  <2>1. KnownToCall(call, seen'[u])
    BY <1>1, <1>2, <1>3, StartSeen DEF InFlightFits, KnownToCall
  <2>2. ASSUME NEW v \in Users, NEW i \in 1..Len(calls'[v]) PROVE KnownToCall(calls'[v][i], seen'[v])
    <3>1. (calls'[v][i] = call /\ v = u) \/ (i \in 1..Len(calls[v]) /\ calls'[v][i] = calls[v][i])
      BY <1>1, <1>2 DEF InFlightFits, RequestTypes
    <3> QED BY <1>1, <2>1, <3>1, StartSeen DEF InFlightFits
  <2> QED BY <1>1, <2>2, StartSeen DEF InFlightFits, SeenFits
<1> QED BY <1>4, <1>5, <1>6 DEF InFlightFits

LEMMA RejectedInFlight ==
  ASSUME InFlightFits, NEW k \in ceremonies, Rejected(k)
  PROVE  InFlightFits'
<1>1. ceremonies' = ceremonies \ {k} /\ UNCHANGED <<keys, calls, overlapped, seen, tickets>>
  BY DEF Rejected, recordVars
<1>2. IsFiniteSet(ceremonies')
  BY <1>1, FS_RemoveElement DEF InFlightFits, RequestTypes
<1>3. SeenFits'
  BY <1>1 DEF InFlightFits, SeenFits, KnownTo, KnownToCall
<1> QED BY <1>1, <1>2, <1>3 DEF InFlightFits, RequestTypes, Undisturbed, CeremoniesOf, FitsCeremony, FitsCall

LEMMA VerifiedInFlight ==
  ASSUME InFlightFits, NEW k \in ceremonies, Verified(k)
  PROVE  InFlightFits'
<1> DEFINE op == IF k.for = "register" THEN "add" ELSE "touch"
           call == [op |-> op, by |-> k]
           u == k.user
<1>1. /\ ceremonies' = ceremonies \ {k} /\ UNCHANGED <<keys, overlapped, seen, tickets>>
      /\ calls' = [calls EXCEPT ![u] = Append(@, call)]
      /\ k.for = "register" \/ CountersAgree(k.stored, k.counter)
  BY DEF Verified, Send, recordVars
<1>2. k \in Ceremony /\ u \in Users /\ call \in Call /\ call.by = k /\ call.op = op
  BY DEF InFlightFits, RequestTypes, Ceremony, Call
<1>3. op # "remove" /\ (op = "touch" => k.for # "register")
  OBVIOUS
<1> HIDE DEF call, op
<1>4. RequestTypes'
  <2>1. calls' \in [Users -> Seq(Call)]
    BY <1>1, <1>2 DEF InFlightFits, RequestTypes
  <2>2. \A v \in Users : \A i \in 1..Len(calls'[v]) :
          calls'[v][i].op # "remove" => calls'[v][i].by.user = v
    BY <1>1, <1>2 DEF InFlightFits, RequestTypes
  <2>3. IsFiniteSet(ceremonies')
    BY <1>1, FS_RemoveElement DEF InFlightFits, RequestTypes
  <2> QED BY <1>1, <2>1, <2>2, <2>3 DEF InFlightFits, RequestTypes
<1>5. ASSUME NEW v \in Users, v \notin overlapped' PROVE Undisturbed(v)'
  <2>1. CASE v # u
    <3>1. calls'[v] = calls[v] /\ v \notin overlapped /\ CeremoniesOf(v)' = CeremoniesOf(v)
      BY <1>1, <1>5, <2>1 DEF InFlightFits, RequestTypes, CeremoniesOf
    <3> QED BY <1>1, <3>1, OtherInFlight DEF InFlightFits
  <2>2. CASE v = u
    <3>1. Undisturbed(v) /\ k \in CeremoniesOf(v)
      BY <1>1, <1>5, <2>2 DEF InFlightFits, CeremoniesOf
    <3>2. calls[v] = <<>> /\ FitsCeremony(k) /\ CeremoniesOf(v) = {k}
      BY <3>1 DEF Undisturbed
    <3>3. CeremoniesOf(v)' = {} /\ Len(calls'[v]) = 1 /\ calls'[v][1] = call
      BY <1>1, <1>2, <2>2, <3>2 DEF CeremoniesOf, InFlightFits, RequestTypes
    <3> QED BY <1>1, <1>2, <1>3, <2>2, <3>2, <3>3 DEF Undisturbed, FitsCall, FitsCeremony
  <2> QED BY <2>1, <2>2
<1>6. SeenFits'
  <2>1. KnownToCall(call, seen[u])
    BY <1>1, <1>2, <1>3 DEF InFlightFits, SeenFits, KnownTo, KnownToCall
  <2>2. ASSUME NEW v \in Users, NEW i \in 1..Len(calls'[v]) PROVE KnownToCall(calls'[v][i], seen[v])
    <3>1. (calls'[v][i] = call /\ v = u) \/ (i \in 1..Len(calls[v]) /\ calls'[v][i] = calls[v][i])
      BY <1>1, <1>2 DEF InFlightFits, RequestTypes
    <3> QED BY <2>1, <3>1 DEF InFlightFits, SeenFits
  <2> QED BY <1>1, <2>2 DEF InFlightFits, SeenFits
<1> QED BY <1>4, <1>5, <1>6 DEF InFlightFits

(* The call at the head of an account's queue is carried out. *)
LEMMA EndsInFlight ==
  ASSUME InFlightFits, NEW u \in Users, Ends(u), keys' \in [Users -> Keys],
         \A v \in Users : v # u => keys'[v] = keys[v], UNCHANGED <<ceremonies, overlapped, seen>>,
         \A t \in tickets' : t \in tickets \/ t.user \in Users
  PROVE  InFlightFits'
<1>1. calls[u] # <<>> /\ calls[u] \in Seq(Call) /\ calls' = [calls EXCEPT ![u] = Tail(@)]
  BY DEF Ends, InFlightFits, RequestTypes
<1>2. /\ Tail(calls[u]) \in Seq(Call) /\ Len(Tail(calls[u])) = Len(calls[u]) - 1
      /\ \A i \in 1..Len(Tail(calls[u])) : Tail(calls[u])[i] = calls[u][i + 1]
  BY <1>1
<1>3. RequestTypes'
  <2>1. calls' \in [Users -> Seq(Call)]
    BY <1>1, <1>2 DEF InFlightFits, RequestTypes
  <2>2. ASSUME NEW v \in Users, NEW i \in 1..Len(calls'[v]), calls'[v][i].op # "remove"
        PROVE  calls'[v][i].by.user = v
    <3>1. CASE v # u
      BY <1>1, <2>2, <3>1 DEF InFlightFits, RequestTypes
    <3>2. CASE v = u
      <4>1. i + 1 \in 1..Len(calls[v]) /\ calls'[v][i] = calls[v][i + 1]
        BY <1>1, <1>2, <2>2, <3>2 DEF InFlightFits, RequestTypes
      <4> QED BY <2>2, <4>1 DEF InFlightFits, RequestTypes
    <3> QED BY <3>1, <3>2
  <2> QED BY <2>1, <2>2 DEF InFlightFits, RequestTypes
<1>4. ASSUME NEW v \in Users, v \notin overlapped' PROVE Undisturbed(v)'
  <2>1. CASE v # u
    <3>1. calls'[v] = calls[v] /\ v \notin overlapped /\ CeremoniesOf(v)' = CeremoniesOf(v) /\ keys'[v] = keys[v]
      BY <1>1, <1>4, <2>1 DEF InFlightFits, RequestTypes, CeremoniesOf
    <3> QED BY <3>1, OtherInFlight DEF InFlightFits
  <2>2. CASE v = u
    <3>1. CeremoniesOf(v) = {} /\ Len(calls[v]) <= 1
      BY <1>1, <1>4, <2>2 DEF InFlightFits, Undisturbed
    <3>2. CeremoniesOf(v)' = {} /\ Len(calls'[v]) = 0
      BY <1>1, <1>2, <2>2, <3>1 DEF CeremoniesOf, InFlightFits, RequestTypes
    <3>3. calls'[v] = <<>>
      BY <1>1, <1>2, <2>2, <3>2 DEF InFlightFits, RequestTypes
    <3> QED BY <3>2, <3>3 DEF Undisturbed
  <2> QED BY <2>1, <2>2
<1>5. SeenFits'
  <2>1. ASSUME NEW v \in Users, NEW i \in 1..Len(calls'[v]) PROVE KnownToCall(calls'[v][i], seen[v])
    <3>1. \E j \in 1..Len(calls[v]) : calls'[v][i] = calls[v][j]
      <4>1. CASE v # u
        BY <1>1, <4>1 DEF InFlightFits, RequestTypes
      <4>2. CASE v = u
        <5>1. i + 1 \in 1..Len(calls[v]) /\ calls'[v][i] = calls[v][i + 1]
          BY <1>1, <1>2, <4>2 DEF InFlightFits, RequestTypes
        <5> QED BY <5>1
      <4> QED BY <4>1, <4>2
    <3> QED BY <3>1 DEF InFlightFits, SeenFits
  <2> QED BY <2>1 DEF InFlightFits, SeenFits
<1> QED BY <1>3, <1>4, <1>5 DEF InFlightFits

LEMMA TouchedInFlight ==
  ASSUME InFlightFits, NEW u \in Users, Touched(u) \/ Added(u) \/ Removed(u) \/ CallRejected(u)
  PROVE  InFlightFits'
<1> DEFINE call == Head(calls[u])
<1>1. calls[u] # <<>> /\ calls[u] \in Seq(Call) /\ Ends(u) /\ UNCHANGED <<ceremonies, overlapped, seen>>
  BY DEF Touched, Added, Removed, CallRejected, Ends, InFlightFits, RequestTypes
<1>2. call \in Call /\ call = calls[u][1] /\ 1 \in 1..Len(calls[u])
  BY <1>1
<1>3. call.op # "remove" => call.by \in Ceremony /\ call.by.user = u
  BY <1>2 DEF Call, InFlightFits, RequestTypes
<1>4. CASE Touched(u)
  <2>1. call.op = "touch"
    BY <1>4 DEF Touched
  <2>2. call.by.cred \in Creds /\ call.by.counter \in Counters /\ call.by.user = u
    BY <1>3, <2>1 DEF Ceremony
  <2>3. keys' = [keys EXCEPT ![u][call.by.cred] = IF @ = None THEN None ELSE call.by.counter]
    BY <1>4 DEF Touched
  <2>4. keys' \in [Users -> Keys] /\ \A v \in Users : v # u => keys'[v] = keys[v]
    BY <2>2, <2>3 DEF InFlightFits, RequestTypes, Keys
  <2>5. \A t \in tickets' : t \in tickets \/ t.user \in Users
    <3>1. CASE UNCHANGED tickets
      BY <3>1
    <3>2. CASE IssueTicket("stepup", call.by.user, call.by.ip)
      BY <2>2, <3>2 DEF IssueTicket, NewTicket, RoomForTicket, Newest, Unexpired
    <3>3. CASE IssueTicket("stepup", u, call.by.ip)
      BY <3>3 DEF IssueTicket, NewTicket, RoomForTicket, Newest, Unexpired
    <3> QED BY <1>4, <3>1, <3>2, <3>3, Zenon DEF Touched
  <2> HIDE DEF call
  <2> QED BY <1>1, <2>4, <2>5, EndsInFlight
<1>5. CASE Added(u)
  <2>1. call.op = "add"
    BY <1>5 DEF Added
  <2>2. call.by.cred \in Creds /\ call.by.counter \in Counters
    BY <1>3, <2>1 DEF Ceremony
  <2>3. keys' = [keys EXCEPT ![u][call.by.cred] = IF @ = None THEN call.by.counter ELSE @] /\ tickets' = tickets
    BY <1>5 DEF Added, serverVars, recordVars
  <2>4. keys' \in [Users -> Keys] /\ \A v \in Users : v # u => keys'[v] = keys[v]
    BY <2>2, <2>3 DEF InFlightFits, RequestTypes, Keys
  <2> HIDE DEF call
  <2> QED BY <1>1, <2>3, <2>4, EndsInFlight
<1>6. CASE Removed(u)
  <2>1. call.op = "remove"
    BY <1>6 DEF Removed
  <2>2. call.remaining \in Keys
    BY <1>2, <2>1 DEF Call
  <2>3. keys' = [keys EXCEPT ![u] = call.remaining] /\ tickets' = tickets
    BY <1>6 DEF Removed, serverVars
  <2>4. keys' \in [Users -> Keys] /\ \A v \in Users : v # u => keys'[v] = keys[v]
    BY <2>2, <2>3 DEF InFlightFits, RequestTypes
  <2> HIDE DEF call
  <2> QED BY <1>1, <2>3, <2>4, EndsInFlight
<1>7. CASE CallRejected(u)
  <2>1. keys' = keys /\ tickets' = tickets
    BY <1>7 DEF CallRejected, serverVars, recordVars
  <2> QED BY <1>1, <2>1, EndsInFlight DEF InFlightFits, RequestTypes
<1> QED BY <1>4, <1>5, <1>6, <1>7

(* The verifications that begin. *)
LEMMA BeginningInFlight ==
  ASSUME InFlightFits, issued \in 0..MaxIssued, NEW ip \in IPs, NEW h \in Handles, NEW c \in Creds, NEW n \in Counters
  PROVE  /\ \A ticket \in Handles \cup {None}, named \in Users \cup {None} :
              PasskeyLogin(ip, ticket, named, h, c, n) => InFlightFits'
         /\ \A u \in Users : StepUpPasskey(u, ip, h, c, n) => InFlightFits'
         /\ \A u \in Users, ticket \in Handles : AddVerify(u, ip, ticket, h, c, n) => InFlightFits'
<1>0. h \in Ids
  BY LoginAssumption DEF Handles, Ids
<1>1. ASSUME NEW u \in Users, Begin("login", u, ip, c, h, n) \/ Begin("stepup", u, ip, c, h, n), Matches(u, c),
             UNCHANGED <<keys, calls>>, tickets' \subseteq tickets
      PROVE  InFlightFits'
  BY <1>0, <1>1, BeginInFlight
<1>2. ASSUME UNCHANGED requestVars, tickets' \subseteq tickets PROVE InFlightFits'
  BY <1>2, QuietInFlight
<1>3. ASSUME NEW ticket \in Handles \cup {None}, NEW named \in Users \cup {None},
             PasskeyLogin(ip, ticket, named, h, c, n)
      PROVE  InFlightFits'
  <2> DEFINE u == TargetOf(ticket, named, c)
  <2>1. u \in Users
    <3>1. CASE ticket = None
      BY <1>3, <3>1 DEF TargetOf, PasskeyLogin
    <3>2. CASE ticket # None
      <4>1. \E t \in tickets : t.id = ticket
        BY <1>3, <3>2 DEF PasskeyLogin, TicketAdmits, ValidTicket, Unexpired
      <4> QED BY <3>2, <4>1 DEF TargetOf, InFlightFits, RequestTypes
    <3> QED BY <3>1, <3>2
  <2>2. Matches(u, c) /\ tickets' \subseteq tickets /\ UNCHANGED <<keys, calls>>
    BY <1>3 DEF PasskeyLogin, SpendTicket, WithoutId, recordVars
  <2>3. Begin("login", u, ip, c, h, n) \/ UNCHANGED <<ceremonies, overlapped, seen>>
    BY <1>3, Zenon DEF PasskeyLogin
  <2> HIDE DEF u
  <2> QED BY <1>1, <1>2, <2>1, <2>2, <2>3 DEF requestVars
<1>4. ASSUME NEW u \in Users, StepUpPasskey(u, ip, h, c, n) PROVE InFlightFits'
  <2>1. Matches(u, c) /\ tickets' = tickets /\ UNCHANGED <<keys, calls>>
    BY <1>4 DEF StepUpPasskey, recordVars
  <2>2. Begin("stepup", u, ip, c, h, n) \/ UNCHANGED <<ceremonies, overlapped, seen>>
    BY <1>4, Zenon DEF StepUpPasskey
  <2> QED BY <1>1, <1>2, <2>1, <2>2 DEF requestVars
<1>5. ASSUME NEW u \in Users, NEW ticket \in Handles, AddVerify(u, ip, ticket, h, c, n) PROVE InFlightFits'
  <2>1. tickets' \subseteq tickets /\ UNCHANGED <<keys, calls>>
    BY <1>5 DEF AddVerify, SpendTicket, WithoutId, recordVars
  <2>2. Begin("register", u, ip, c, h, n) \/ UNCHANGED <<ceremonies, overlapped, seen>>
    BY <1>5, Zenon DEF AddVerify
  <2>3. CASE Begin("register", u, ip, c, h, n)
    BY <1>0, <2>1, <2>3, BeginInFlight
  <2> QED BY <1>2, <2>1, <2>2, <2>3 DEF requestVars
<1> QED BY <1>3, <1>4, <1>5

LEMMA NextInFlight == Numbers /\ InFlightFits /\ [Next]_vars => InFlightFits'
<1> SUFFICES ASSUME Numbers, InFlightFits, [Next]_vars PROVE InFlightFits'
  OBVIOUS
<1>0. issued \in 0..MaxIssued
  BY DEF Numbers
<1>1. ASSUME UNCHANGED requestVars, \A t \in tickets' : t \in tickets \/ t.user \in Users PROVE InFlightFits'
  BY <1>1, QuietInFlight
<1>2. ASSUME UNCHANGED requestVars, NEW purpose, NEW u \in Users, NEW ip, IssueTicket(purpose, u, ip)
      PROVE  InFlightFits'
  BY <1>1, <1>2 DEF IssueTicket, NewTicket, RoomForTicket, Newest, Unexpired
<1>3. ASSUME NEW ip \in IPs, Anonymous(ip) PROVE InFlightFits'
  <2>1. CASE WrongPassword(ip) \/ LoginOptions(ip, None)
    BY <1>1, <2>1 DEF WrongPassword, LoginOptions, requestVars, recordVars
  <2>2. ASSUME NEW ticket, NEW named, NEW c, PasskeyMismatch(ip, ticket, named, c) PROVE InFlightFits'
    BY <1>1, <2>2 DEF PasskeyMismatch, requestVars, recordVars, SpendTicket, WithoutId
  <2> QED BY <1>0, <1>3, <2>1, <2>2, BeginningInFlight DEF Anonymous
<1>4. ASSUME NEW ip \in IPs, NEW u \in Users, Handle(ip, u) PROVE InFlightFits'
  <2>1. CASE PasswordLogin(ip, u) \/ LoginOptions(ip, u) \/ StepUpWrong(u, ip)
    BY <1>1, <2>1 DEF PasswordLogin, LoginOptions, StepUpWrong, requestVars, recordVars
  <2>2. CASE PasswordThenPasskey(ip, u) \/ StepUp(u, ip)
    BY <1>2, <2>2 DEF PasswordThenPasskey, StepUp, requestVars, recordVars
  <2>3. ASSUME NEW ticket, AddOptions(u, ip, ticket) \/ Rename(u, ip, ticket) PROVE InFlightFits'
    BY <1>1, <2>3 DEF AddOptions, Rename, requestVars, recordVars, SpendTicket, WithoutId
  <2> QED BY <1>0, <1>4, <2>1, <2>2, <2>3, RemoveInFlight, BeginningInFlight DEF Handle
<1>5. ASSUME NEW u \in Users, StepUpOptions(u) PROVE InFlightFits'
  BY <1>1, <1>5 DEF StepUpOptions, requestVars, recordVars
<1>6. ASSUME NEW u \in Users, Touched(u) \/ Added(u) \/ Removed(u) \/ CallRejected(u) PROVE InFlightFits'
  BY <1>6, TouchedInFlight
<1>7. ASSUME NEW k \in ceremonies, Verified(k) \/ Rejected(k) PROVE InFlightFits'
  BY <1>7, VerifiedInFlight, RejectedInFlight
<1>8. CASE Tick \/ SweepFails \/ UNCHANGED vars
  BY <1>1, <1>8 DEF Tick, SweepFails, vars, serverVars, requestVars, recordVars
<1>9. CASE Restart
  <2>1. RequestTypes' /\ \A u \in Users : Undisturbed(u)'
    BY <1>9, FS_EmptySet DEF Restart, recordVars, InFlightFits, RequestTypes, Undisturbed, CeremoniesOf
  <2>2. SeenFits'
    BY <1>9 DEF Restart, NothingSeen, SeenFits
  <2> QED BY <2>1, <2>2 DEF InFlightFits
<1> QED BY <1>3, <1>4, <1>5, <1>6, <1>7, <1>8, <1>9 DEF Next

-----------------------------------------------------------------------------
(* Which steps change the records, create a session, begin a verification.  *)
LEMMA AnonymousSteps ==
  ASSUME NEW ip, Anonymous(ip)
  PROVE  UNCHANGED <<keys, lastLogin>>
<1>1. WrongPassword(ip) \/ LoginOptions(ip, None) => UNCHANGED <<keys, lastLogin>>
  BY DEF WrongPassword, LoginOptions, recordVars
<1>2. ASSUME NEW ticket, NEW named, NEW c, PasskeyMismatch(ip, ticket, named, c) PROVE UNCHANGED <<keys, lastLogin>>
  BY <1>2 DEF PasskeyMismatch, recordVars
<1>3. ASSUME NEW ticket, NEW named, NEW c, NEW h, NEW n, PasskeyLogin(ip, ticket, named, h, c, n)
      PROVE  UNCHANGED <<keys, lastLogin>>
  BY <1>3 DEF PasskeyLogin, recordVars
<1> QED BY <1>1, <1>2, <1>3 DEF Anonymous

LEMMA HandleSteps ==
  ASSUME NEW ip, NEW u, Handle(ip, u)
  PROVE  UNCHANGED keys /\ (PasswordLogin(ip, u) \/ UNCHANGED lastLogin)
<1>1. PasswordLogin(ip, u) => UNCHANGED keys
  BY DEF PasswordLogin, recordVars
<1>2. PasswordThenPasskey(ip, u) \/ LoginOptions(ip, u) \/ StepUpWrong(u, ip) \/ StepUp(u, ip)
        => UNCHANGED <<keys, lastLogin>>
  BY DEF PasswordThenPasskey, LoginOptions, StepUpWrong, StepUp, recordVars
<1>3. ASSUME NEW ticket, AddOptions(u, ip, ticket) \/ Rename(u, ip, ticket) PROVE UNCHANGED <<keys, lastLogin>>
  BY <1>3 DEF AddOptions, Rename, recordVars
<1>4. ASSUME NEW ticket, NEW c, Remove(u, ip, ticket, c) PROVE UNCHANGED <<keys, lastLogin>>
  BY <1>4 DEF Remove, recordVars
<1>5. ASSUME NEW ticket, NEW h, NEW c, NEW n, AddVerify(u, ip, ticket, h, c, n) PROVE UNCHANGED <<keys, lastLogin>>
  BY <1>5 DEF AddVerify, recordVars
<1>6. ASSUME NEW h, NEW c, NEW n, StepUpPasskey(u, ip, h, c, n) PROVE UNCHANGED <<keys, lastLogin>>
  BY <1>6 DEF StepUpPasskey, recordVars
<1> QED BY <1>1, <1>2, <1>3, <1>4, <1>5, <1>6 DEF Handle

LEMMA OtherSteps ==
  /\ \A u : StepUpOptions(u) \/ CallRejected(u) => UNCHANGED <<keys, lastLogin>>
  /\ \A k : Verified(k) \/ Rejected(k) => UNCHANGED <<keys, lastLogin>>
  /\ Tick \/ SweepFails \/ Restart => UNCHANGED <<keys, lastLogin>>
BY DEF StepUpOptions, CallRejected, Verified, Rejected, Tick, SweepFails, Restart, recordVars

LEMMA KeySteps ==
  ASSUME Next, keys' # keys
  PROVE  \E u \in Users : Touched(u) \/ Added(u) \/ Removed(u)
BY AnonymousSteps, HandleSteps, OtherSteps DEF Next

LEMMA LoginSteps ==
  ASSUME Next, lastLogin' # lastLogin
  PROVE  (\E ip \in IPs, u \in Users : PasswordLogin(ip, u)) \/ \E u \in Users : Touched(u)
<1>1. \A u : Added(u) \/ Removed(u) => UNCHANGED lastLogin
  BY DEF Added, Removed
<1> QED BY <1>1, AnonymousSteps, HandleSteps, OtherSteps DEF Next

LEMMA CeremonySteps ==
  ASSUME Next, NEW k \in ceremonies' \ ceremonies, k.for = "login"
  PROVE  ~Locked(k.ip)
<1>1. ASSUME NEW ip, NEW ticket, NEW named, NEW c, NEW h, NEW n, PasskeyLogin(ip, ticket, named, h, c, n)
      PROVE ~Locked(k.ip)
  <2> DEFINE u == TargetOf(ticket, named, c)
  <2>1. Begin("login", u, ip, c, h, n)
    BY <1>1 DEF PasskeyLogin
  <2>2. k.ip = ip
    BY <2>1 DEF Begin
  <2> QED BY <1>1, <2>2 DEF PasskeyLogin
<1>2. ASSUME NEW u, NEW ip, NEW c, NEW h, NEW n, NEW for, Begin(for, u, ip, c, h, n), for # "login" PROVE FALSE
  BY <1>2 DEF Begin
<1>3. ASSUME NEW u, NEW ip, NEW c, NEW h, NEW n, StepUpPasskey(u, ip, h, c, n) PROVE FALSE
  BY <1>2, <1>3 DEF StepUpPasskey
<1>4. ASSUME NEW u, NEW ip, NEW ticket, NEW c, NEW h, NEW n, AddVerify(u, ip, ticket, h, c, n) PROVE FALSE
  BY <1>2, <1>4 DEF AddVerify
<1>5. ceremonies' \subseteq ceremonies => FALSE
  OBVIOUS
<1>6. ASSUME NEW ip, Anonymous(ip) PROVE ~Locked(k.ip)
  <2>1. WrongPassword(ip) \/ LoginOptions(ip, None) => FALSE
    BY <1>5 DEF WrongPassword, LoginOptions
  <2>2. ASSUME NEW ticket, NEW named, NEW c, PasskeyMismatch(ip, ticket, named, c) PROVE FALSE
    BY <1>5, <2>2 DEF PasskeyMismatch
  <2> QED BY <1>1, <1>6, <2>1, <2>2 DEF Anonymous
<1>7. ASSUME NEW ip, NEW u, Handle(ip, u) PROVE FALSE
  <2>1. PasswordLogin(ip, u) \/ PasswordThenPasskey(ip, u) \/ LoginOptions(ip, u) => FALSE
    BY <1>5 DEF PasswordLogin, PasswordThenPasskey, LoginOptions
  <2>2. StepUpWrong(u, ip) \/ StepUp(u, ip) => FALSE
    BY <1>5 DEF StepUpWrong, StepUp
  <2>3. ASSUME NEW ticket, AddOptions(u, ip, ticket) \/ Rename(u, ip, ticket) PROVE FALSE
    BY <1>5, <2>3 DEF AddOptions, Rename
  <2>4. ASSUME NEW ticket, NEW c, Remove(u, ip, ticket, c) PROVE FALSE
    BY <1>5, <2>4 DEF Remove
  <2> QED BY <1>3, <1>4, <1>7, <2>1, <2>2, <2>3, <2>4 DEF Handle
<1>8. ASSUME NEW u, StepUpOptions(u) \/ Touched(u) \/ Added(u) \/ Removed(u) \/ CallRejected(u) PROVE FALSE
  BY <1>5, <1>8 DEF StepUpOptions, Touched, Added, Removed, CallRejected
<1>9. ASSUME NEW q, Verified(q) \/ Rejected(q) PROVE FALSE
  BY <1>5, <1>9 DEF Verified, Rejected
<1>10. Tick \/ SweepFails \/ Restart => FALSE
  BY <1>5 DEF Tick, SweepFails, Restart
<1> QED BY <1>6, <1>7, <1>8, <1>9, <1>10 DEF Next

(* The call at the head of an undisturbed account's queue. *)
LEMMA HeadFits ==
  ASSUME InFlightFits, NEW u \in Users, Ends(u)
  PROVE  /\ Head(calls[u]) \in Call
         /\ Head(calls[u]).op # "remove" => Head(calls[u]).by \in Ceremony /\ Head(calls[u]).by.user = u
         /\ u \notin overlapped => FitsCall(u, Head(calls[u]))
<1>1. calls[u] # <<>> /\ calls[u] \in Seq(Call)
  BY DEF Ends, InFlightFits, RequestTypes
<1>2. Head(calls[u]) \in Call /\ Head(calls[u]) = calls[u][1] /\ 1 \in 1..Len(calls[u])
  BY <1>1
<1>3. Head(calls[u]).op # "remove" => Head(calls[u]).by \in Ceremony /\ Head(calls[u]).by.user = u
  BY <1>2 DEF Call, InFlightFits, RequestTypes
<1>4. u \notin overlapped => FitsCall(u, Head(calls[u]))
  BY <1>2 DEF InFlightFits, Undisturbed
<1> QED BY <1>2, <1>3, <1>4

LEMMA HeadKnown ==
  ASSUME InFlightFits, NEW u \in Users, Ends(u)
  PROVE  KnownToCall(Head(calls[u]), seen[u])
<1>1. calls[u] # <<>> /\ calls[u] \in Seq(Call)
  BY DEF Ends, InFlightFits, RequestTypes
<1>2. Head(calls[u]) = calls[u][1] /\ 1 \in 1..Len(calls[u])
  BY <1>1
<1> QED BY <1>2 DEF InFlightFits, SeenFits

LEMMA InFlightInvariant == Spec => [](Numbers /\ InFlightFits)
BY InitNumbers, NextNumbers, InitInFlight, NextInFlight, PTL DEF Spec

(* touchPasskey and passkeyRemove bring back no counter older than all that  *)
(* the requests in flight had read, but for zero.                           *)
THEOREM NothingOlder == Spec => NoOlderCounter
<1>1. ASSUME InFlightFits, Next, NEW u \in Users, NEW c \in Creds,
             keys[u][c] # None, keys'[u][c] # None, keys'[u][c] < keys[u][c]
      PROVE  keys'[u][c] = 0 \/ \E n \in seen[u][c] \ {None} : n <= keys'[u][c]
  <2>0. keys'[u][c] # keys[u][c]
    <3>1. keys[u][c] \in Nat
      BY <1>1, LoginAssumption DEF InFlightFits, RequestTypes, Keys, Counters
    <3> QED BY <1>1, <3>1
  <2>1. keys[u] \in Keys /\ keys \in [Users -> Keys]
    BY <1>1 DEF InFlightFits, RequestTypes
  <2>2. PICK v \in Users : Touched(v) \/ Added(v) \/ Removed(v)
    BY <1>1, <2>0, KeySteps
  <2> DEFINE call == Head(calls[v])
  <2>3. Ends(v) /\ call \in Call
    BY <1>1, <2>2, HeadFits DEF Touched, Added, Removed
  <2>4. CASE Touched(v)
    <3>1. call.op = "touch" /\ call.by \in Ceremony
      BY <1>1, <2>3, <2>4, HeadFits DEF Touched
    <3>2. keys' = [keys EXCEPT ![v][call.by.cred] = IF @ = None THEN None ELSE call.by.counter]
      BY <2>4 DEF Touched
    <3>3. v = u /\ c = call.by.cred /\ keys'[u][c] = call.by.counter
      BY <1>1, <2>0, <2>1, <3>1, <3>2 DEF Keys, Ceremony
    <3>4. call.by.stored \in seen[u][c] /\ CountersAgree(call.by.stored, call.by.counter)
      BY <1>1, <2>3, <3>1, <3>3, HeadKnown DEF KnownToCall
    <3>5. call.by.stored \in Nat /\ call.by.counter \in Nat /\ call.by.stored # None
      BY <3>1, LoginAssumption DEF Ceremony, Counters
    <3>6. call.by.counter = 0 \/ call.by.stored <= call.by.counter
      BY <3>4, <3>5 DEF CountersAgree
    <3> QED BY <3>3, <3>4, <3>5, <3>6
  <2>5. CASE Added(v)
    <3>1. call.op = "add" /\ call.by \in Ceremony
      BY <1>1, <2>3, <2>5, HeadFits DEF Added
    <3>2. keys' = [keys EXCEPT ![v][call.by.cred] = IF @ = None THEN call.by.counter ELSE @]
      BY <2>5 DEF Added, recordVars
    <3> QED BY <1>1, <2>0, <2>1, <3>1, <3>2 DEF Keys, Ceremony
  <2>6. CASE Removed(v)
    <3>1. call.op = "remove" /\ keys' = [keys EXCEPT ![v] = call.remaining]
      BY <2>6 DEF Removed
    <3>2. v = u /\ keys'[u][c] = call.remaining[c]
      BY <1>1, <2>0, <2>1, <3>1
    <3>3. call.remaining[c] \in {None} \cup seen[u][c] /\ call.remaining[c] \in Counters \cup {None}
      BY <1>1, <2>3, <3>1, <3>2, HeadKnown DEF KnownToCall, Call, Keys
    <3> QED BY <1>1, <3>2, <3>3, LoginAssumption DEF Counters
  <2> QED BY <2>2, <2>4, <2>5, <2>6
<1>2. InFlightFits /\ [Next]_vars =>
        [\A u \in Users, c \in Creds :
           keys[u][c] # None /\ keys'[u][c] # None /\ keys'[u][c] < keys[u][c]
             => keys'[u][c] = 0 \/ \E n \in seen[u][c] \ {None} : n <= keys'[u][c]]_vars
  BY <1>1
<1> QED BY <1>2, InFlightInvariant, PTL DEF Spec, NoOlderCounter

(* A passkey login that succeeds is one of the account's own passkeys,      *)
(* unless a removal overlapped it.                                          *)
THEOREM Held == Spec => PasskeyLoginsAreHeld
<1>1. ASSUME InFlightFits, Next, lastLogin' # lastLogin
      PROVE  \/ lastLogin'.cred = None
             \/ lastLogin'.cred \in PasskeysOf(lastLogin'.user)
             \/ lastLogin'.user \in overlapped
  <2>1. ASSUME NEW ip, NEW u, PasswordLogin(ip, u) PROVE lastLogin'.cred = None
    BY <2>1 DEF PasswordLogin, LogIn
  <2>2. ASSUME NEW u \in Users, Touched(u)
        PROVE  lastLogin'.cred \in PasskeysOf(lastLogin'.user) \/ lastLogin'.user \in overlapped
    <3> DEFINE call == Head(calls[u])
    <3>1. Ends(u) /\ call.op = "touch" /\ call.by \in Ceremony /\ call.by.user = u
      BY <1>1, <2>2, HeadFits DEF Touched
    <3>2. lastLogin' = [user |-> u, ip |-> call.by.ip, cred |-> call.by.cred]
      BY <1>1, <2>2 DEF Touched, LogIn
    <3>3. u \notin overlapped => keys[u][call.by.cred] = call.by.stored
      BY <1>1, <3>1, HeadFits DEF FitsCall
    <3>4. call.by.cred \in Creds /\ call.by.stored # None
      BY <3>1, LoginAssumption DEF Ceremony, Counters
    <3> QED BY <3>2, <3>3, <3>4 DEF PasskeysOf
  <2> QED BY <1>1, <2>1, <2>2, LoginSteps
<1>2. InFlightFits /\ [Next]_vars =>
        [lastLogin' # lastLogin =>
           \/ lastLogin'.cred = None
           \/ lastLogin'.cred \in PasskeysOf(lastLogin'.user)
           \/ lastLogin'.user \in overlapped]_vars
  BY <1>1
<1> QED BY <1>2, InFlightInvariant, PTL DEF Spec, PasskeyLoginsAreHeld

(* The lock of recordFail holds for every way into the address's logins.    *)
THEOREM Lockout == Spec => LockedOut
<1>1. ASSUME InFlightFits, Next, NEW ip \in IPs, Locked(ip)
      PROVE  /\ \A k \in ceremonies' \ ceremonies : k.for = "login" => k.ip # ip
             /\ lastLogin' # lastLogin /\ lastLogin'.ip = ip => lastLogin'.cred # None
  <2>1. \A k \in ceremonies' \ ceremonies : k.for = "login" => k.ip # ip
    BY <1>1, CeremonySteps
  <2>2. ASSUME NEW a \in IPs, NEW u \in Users, PasswordLogin(a, u) PROVE lastLogin'.ip # ip
    BY <1>1, <2>2 DEF PasswordLogin, LogIn
  <2>3. ASSUME NEW u \in Users, Touched(u), lastLogin' # lastLogin PROVE lastLogin'.cred # None
    <3> DEFINE call == Head(calls[u])
    <3>1. call.by \in Ceremony
      BY <1>1, <2>3, HeadFits DEF Touched
    <3>2. lastLogin'.cred = call.by.cred
      BY <2>3 DEF Touched, LogIn
    <3> QED BY <3>1, <3>2, LoginAssumption DEF Ceremony
  <2> QED BY <1>1, <2>1, <2>2, <2>3, LoginSteps
<1>2. InFlightFits /\ [Next]_vars =>
        [\A ip \in IPs : Locked(ip) =>
           /\ \A k \in ceremonies' \ ceremonies : k.for = "login" => k.ip # ip
           /\ lastLogin' # lastLogin /\ lastLogin'.ip = ip => lastLogin'.cred # None]_vars
  BY <1>1
<1> QED BY <1>2, InFlightInvariant, PTL DEF Spec, LockedOut
=============================================================================
