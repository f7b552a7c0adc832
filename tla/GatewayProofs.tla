--------------------------- MODULE GatewayProofs ---------------------------
(***************************************************************************)
(* For every set of users, objects and requests: the request gateway uses  *)
(* the ownership tables as their specification allows, and a creation that *)
(* was answered is owned by the user it was answered to.                   *)
(***************************************************************************)
EXTENDS Gateway, SequenceTheorems, TLAPS

-----------------------------------------------------------------------------
(* The ownership tables: an answered claim is durable and final.            *)
LEMMA InitIInv == Init => IInv
<1> SUFFICES ASSUME Init PROVE IInv
  OBVIOUS
<1>0. Nobody \in Owners
  BY DEF Nobody, Owners
<1>1. TypeOK
  <2>1. disk \in Owners /\ owners \in Owners /\ acked \in Owners
    BY <1>0, Zenon DEF Init
  <2>2. queue \in Seq(Claim) /\ up \in BOOLEAN /\ known \subseteq Users
    BY EmptySeq DEF Init
  <2> QED BY <2>1, <2>2, Zenon DEF Init, TypeOK
<1>2. WriteInProgress /\ DownIsEmpty
  BY DEF Init, WriteInProgress, DownIsEmpty
<1>3. AckedIsKept
  BY DEF Init, Nobody, AckedIsKept
<1> QED BY <1>1, <1>2, <1>3 DEF IInv

(* The chain: a claim is queued, or refused before it changes anything. *)
LEMMA ChainIInv ==
  ASSUME IInv, (\E c \in Claim : ClaimOwner(c)) \/ RefuseClaim
  PROVE  IInv'
<1>1. ASSUME NEW c \in Claim, ClaimOwner(c) PROVE IInv'
  BY <1>1 DEF ClaimOwner, IInv, TypeOK, WriteInProgress, AckedIsKept, DownIsEmpty
<1>2. CASE RefuseClaim
  BY <1>2 DEF RefuseClaim, IInv, TypeOK, WriteInProgress, AckedIsKept, DownIsEmpty
<1> QED BY <1>1, <1>2

(* Only one claim at a time is between its check and its answer, so the     *)
(* owner it saw is the owner its write replaces.                            *)
LEMMA BeginClaimIInv ==
  ASSUME IInv, BeginClaim
  PROVE  IInv'
<1> DEFINE c == Head(queue)
<1>1. c \in Claim /\ c.id \in Objects /\ c.user \in Users
  <2>1. queue \in Seq(Claim) /\ queue # <<>>
    BY DEF BeginClaim, IInv, TypeOK
  <2>2. c \in Claim
    BY <2>1, HeadTailProperties
  <2> QED BY <2>2 DEF Claim
<1>2. up
  BY DEF BeginClaim, IInv, DownIsEmpty
<1>3. owners[c.id] \in {None, c.user}
  BY DEF BeginClaim, Refused
<1>4. writing' = [id |-> c.id, user |-> c.user, previous |-> owners[c.id]] /\ writing' # None
  BY <1>1, <1>3, OwnershipAssumption DEF BeginClaim, IInv, TypeOK, Owners, Write
<1>5. TypeOK'
  BY <1>1, <1>3 DEF BeginClaim, IInv, TypeOK, Owners, Write
<1>6. WriteInProgress'
  BY <1>1, <1>2, <1>3, <1>4 DEF BeginClaim, IInv, TypeOK, Owners, WriteInProgress, AckedIsKept
<1>7. AckedIsKept'
  BY <1>1, <1>2, <1>3 DEF BeginClaim, IInv, TypeOK, Owners, Write, AckedIsKept
<1>8. DownIsEmpty'
  BY <1>2 DEF BeginClaim, DownIsEmpty
<1> QED BY <1>5, <1>6, <1>7, <1>8 DEF IInv

LEMMA ClaimPersistedIInv ==
  ASSUME IInv, ClaimPersisted
  PROVE  IInv'
<1>1. writing.id \in Objects /\ writing.user \in Users
  BY DEF ClaimPersisted, IInv, TypeOK, Write
<1>2. up /\ owners[writing.id] = writing.user
  BY DEF ClaimPersisted, IInv, WriteInProgress
<1> QED BY <1>1, <1>2, OwnershipAssumption
        DEF ClaimPersisted, IInv, TypeOK, Owners, WriteInProgress, AckedIsKept, DownIsEmpty

(* The rollback undoes nothing that was answered before. *)
LEMMA ClaimFailsIInv ==
  ASSUME IInv, ClaimFails
  PROVE  IInv'
<1>1. writing.id \in Objects /\ writing.user \in Users
  BY DEF ClaimFails, IInv, TypeOK, Write
<1>2. up /\ (writing.previous = None => acked[writing.id] = None)
  BY DEF ClaimFails, IInv, WriteInProgress
<1>3. TypeOK'
  BY <1>1 DEF ClaimFails, IInv, TypeOK, Owners, Write
<1>4. AckedIsKept'
  BY <1>1, <1>2 DEF ClaimFails, IInv, TypeOK, Owners, Write, AckedIsKept
<1> QED BY <1>2, <1>3, <1>4 DEF ClaimFails, IInv, WriteInProgress, DownIsEmpty

LEMMA LifeIInv ==
  ASSUME IInv, Boot \/ Crash \/ \E u \in Users : RemoveUser(u)
  PROVE  IInv'
<1>1. CASE Boot
  BY <1>1 DEF Boot, IInv, TypeOK, Owners, WriteInProgress, AckedIsKept, DownIsEmpty
<1>2. CASE Crash
  <2>1. Nobody \in Owners
    BY DEF Nobody, Owners
  <2>2. disk' \in {disk, owners} /\ up
    BY <1>2 DEF Crash
  <2>3. TypeOK'
    <3>1. owners' \in Owners /\ disk' \in Owners
      BY <1>2, <2>1, <2>2, Zenon DEF Crash, IInv, TypeOK
    <3>2. queue' \in Seq(Claim) /\ up' \in BOOLEAN
      BY <1>2, EmptySeq DEF Crash
    <3> QED BY <1>2, <3>1, <3>2, Zenon DEF Crash, IInv, TypeOK
  <2>4. AckedIsKept'
    BY <1>2, <2>2 DEF Crash, IInv, AckedIsKept
  <2> QED BY <1>2, <2>3, <2>4 DEF Crash, IInv, WriteInProgress, DownIsEmpty
<1>3. ASSUME NEW u \in Users, RemoveUser(u) PROVE IInv'
  BY <1>3 DEF RemoveUser, IInv, TypeOK, WriteInProgress, AckedIsKept, DownIsEmpty
<1> QED BY <1>1, <1>2, <1>3

LEMMA NextIInv == IInv /\ [Next]_vars => IInv'
<1> SUFFICES ASSUME IInv, [Next]_vars PROVE IInv'
  OBVIOUS
<1>1. CASE Next
  BY <1>1, ChainIInv, BeginClaimIInv, ClaimPersistedIInv, ClaimFailsIInv, LifeIInv DEF Next, Settle
<1>2. CASE UNCHANGED vars
  BY <1>2 DEF vars, IInv, TypeOK, WriteInProgress, AckedIsKept, DownIsEmpty
<1> QED BY <1>1, <1>2

(* claimOwner, persistOwnership and loadOwnership keep the invariant under  *)
(* every interleaving, write failure and restart.                           *)
THEOREM OwnershipInvariant == Spec => []IInv
BY InitIInv, NextIInv, PTL DEF Spec

(* An answered claim is durable and is what the access checks read. *)
THEOREM Durable == Spec => []ClaimsAreDurable
<1>1. IInv => ClaimsAreDurable
  BY OwnershipAssumption DEF IInv, TypeOK, Owners, Write, AckedIsKept, ClaimsAreDurable, OwnerOf
<1> QED BY <1>1, OwnershipInvariant, PTL

(* Only the claim that is being written is answered, for the owner it has. *)
LEMMA AckedOnce ==
  ASSUME IInv, [Next]_vars, NEW o \in Objects, acked[o] # None
  PROVE  acked'[o] = acked[o]
<1>1. CASE ClaimPersisted
  <2>1. owners[writing.id] = writing.user /\ up /\ owners[o] = acked[o]
    BY <1>1 DEF ClaimPersisted, IInv, WriteInProgress, AckedIsKept
  <2> QED BY <1>1, <2>1 DEF ClaimPersisted, IInv, TypeOK, Owners, Write
<1>2. CASE ~ClaimPersisted
  BY <1>2 DEF Next, Settle, ClaimOwner, RefuseClaim, BeginClaim, ClaimFails, RemoveUser, Boot, Crash, vars
<1> QED BY <1>1, <1>2

(* An answered claim is never answered for somebody else. *)
THEOREM Final == Spec => ClaimsAreFinal
<1>1. IInv /\ [Next]_vars => [\A o \in Objects : acked[o] # None => acked'[o] = acked[o]]_vars
  BY AckedOnce
<1> QED BY <1>1, OwnershipInvariant, PTL DEF Spec, ClaimsAreFinal

-----------------------------------------------------------------------------
(* The requests that use them.                                              *)
(* A claim that was answered to its request is on record. *)
ClaimedIsAcked ==
  \A r \in Requests :
    requests[r] # None /\ requests[r].step = "claimed" => acked[requests[r].id] = requests[r].user

GInv == IInv /\ GatewayTypeOK /\ ClaimedIsAcked /\ AnsweredCreatesAreOwned

LEMMA GInvInit == GatewayInit => GInv
<1> SUFFICES ASSUME GatewayInit PROVE GInv
  OBVIOUS
<1>1. IInv
  BY InitIInv DEF GatewayInit
<1>2. GatewayTypeOK /\ ClaimedIsAcked /\ AnsweredCreatesAreOwned
  BY DEF GatewayInit, GatewayTypeOK, ClaimedIsAcked, AnsweredCreatesAreOwned
<1> QED BY <1>1, <1>2 DEF GInv

-----------------------------------------------------------------------------
(* What a step of the gateway does to the tables: it is a step of theirs.   *)
LEMMA StepRefines == GatewayTypeOK /\ [GatewayNext]_allVars => [Next]_vars
<1> SUFFICES ASSUME GatewayTypeOK, GatewayNext PROVE [Next]_vars
  BY DEF allVars, vars
<1>1. ASSUME NEW r \in Requests,
             \/ \E u \in Users, w \in Workspaces, o \in HostSessions : Create(r, u, w, o)
             \/ Inspect(r) \/ HostCreates(r) \/ HostRefuses(r) \/ ClientCloses(r) \/ Answer(r)
      PROVE  UNCHANGED vars
  BY <1>1 DEF Create, Inspect, HostCreates, HostRefuses, ClientCloses, Answer
<1>2. ASSUME NEW r \in Requests, Project(r) PROVE Next
  <2>1. requests[r] \in Request
    BY <1>2 DEF GatewayTypeOK, Project
  <2>2. ClaimOf(r) \in Claim
    BY <2>1 DEF ClaimOf, Claim, Request, HostSessions
  <2>3. ClaimOwner(ClaimOf(r))
    BY <1>2 DEF Project
  <2> QED BY <2>2, <2>3 DEF Next
<1>3. ASSUME NEW c \in Claim, Provision(c) PROVE Next
  BY <1>3 DEF Provision, Next
<1>4. ASSUME GatewayBeginClaim \/ GatewayRefuseClaim \/ GatewayClaimPersisted \/ GatewayClaimFails
      PROVE  Next
  BY <1>4 DEF GatewayBeginClaim, GatewayRefuseClaim, GatewayClaimPersisted, GatewayClaimFails, Next, Settle
<1>5. ASSUME NEW u \in Users, SignIn(u) \/ SignOut(u) PROVE UNCHANGED vars
  BY <1>5 DEF SignIn, SignOut
<1>6. ASSUME NEW u \in Users, GatewayRemoveUser(u) PROVE Next
  BY <1>6 DEF GatewayRemoveUser, Next
<1>7. ASSUME GatewayBoot \/ GatewayCrash PROVE Next
  BY <1>7 DEF GatewayBoot, GatewayCrash, Next
<1> QED BY <1>1, <1>2, <1>3, <1>4, <1>5, <1>6, <1>7 DEF GatewayNext

-----------------------------------------------------------------------------
(* How a request changes: it moves on or it ends. *)
LEMMA MoveToRequests ==
  ASSUME GatewayTypeOK, NEW r \in Requests, requests[r] # None,
         NEW step \in {"checking", "forwarded", "abandoned", "created", "claiming", "claimed"},
         MoveTo(r, step)
  PROVE  /\ requests' \in [Requests -> Request \cup {None}]
         /\ requests'[r] = [requests[r] EXCEPT !.step = step]
         /\ requests'[r].step = step /\ requests'[r].id = requests[r].id
         /\ requests'[r].user = requests[r].user
         /\ \A q \in Requests \ {r} : requests'[q] = requests[q]
<1>1. requests[r] \in Request /\ requests \in [Requests -> Request \cup {None}]
  BY DEF GatewayTypeOK
<1> QED BY <1>1 DEF MoveTo, Request

LEMMA EndRequests ==
  ASSUME GatewayTypeOK, NEW r \in Requests, End(r)
  PROVE  /\ requests' \in [Requests -> Request \cup {None}]
         /\ requests'[r] = None
         /\ \A q \in Requests \ {r} : requests'[q] = requests[q]
BY DEF GatewayTypeOK, End

(* Of an ended, moved or untouched request, only the one that its claim was *)
(* answered for is claimed.                                                 *)
LEMMA ClaimedIsAckedKept ==
  ASSUME GInv, IInv', [Next]_vars, GatewayTypeOK',
         \A q \in Requests : requests'[q] # None /\ requests'[q].step = "claimed" =>
           \/ requests[q] # None /\ requests[q].step = "claimed"
              /\ requests'[q].id = requests[q].id /\ requests'[q].user = requests[q].user
           \/ acked'[requests'[q].id] = requests'[q].user
  PROVE  ClaimedIsAcked'
<1> SUFFICES ASSUME NEW q \in Requests, requests'[q] # None, requests'[q].step = "claimed"
             PROVE  acked'[requests'[q].id] = requests'[q].user
  BY DEF ClaimedIsAcked
<1>1. CASE /\ requests[q] # None /\ requests[q].step = "claimed"
           /\ requests'[q].id = requests[q].id /\ requests'[q].user = requests[q].user
  <2>1. requests[q] \in Request
    BY <1>1 DEF GInv, GatewayTypeOK
  <2>2. requests[q].id \in Objects /\ requests[q].user # None
    BY <2>1, OwnershipAssumption DEF Request, HostSessions
  <2>3. acked[requests[q].id] = requests[q].user
    BY <1>1 DEF GInv, ClaimedIsAcked
  <2> QED BY <1>1, <2>2, <2>3, AckedOnce DEF GInv
<1>2. CASE acked'[requests'[q].id] = requests'[q].user
  BY <1>2
<1> QED BY <1>1, <1>2

LEMMA AnsweredKept ==
  ASSUME GInv, [Next]_vars,
         \A o \in HostSessions, u \in Users : <<o, u>> \in answers' \ answers => acked[o] = u
  PROVE  AnsweredCreatesAreOwned'
<1> SUFFICES ASSUME NEW o \in HostSessions, NEW u \in Users, <<o, u>> \in answers'
             PROVE  acked'[o] = u
  BY DEF AnsweredCreatesAreOwned
<1>1. acked[o] = u
  BY DEF GInv, AnsweredCreatesAreOwned
<1>2. u # None /\ o \in Objects
  BY OwnershipAssumption DEF HostSessions
<1> QED BY <1>1, <1>2, AckedOnce DEF GInv

-----------------------------------------------------------------------------
(* The steps of one request up to the claim, which leave the tables alone.  *)
LEMMA RequestGInv ==
  ASSUME GInv, NEW r \in Requests,
         \/ \E u \in Users, w \in Workspaces, o \in HostSessions : Create(r, u, w, o)
         \/ Inspect(r) \/ HostCreates(r) \/ HostRefuses(r) \/ ClientCloses(r)
  PROVE  GInv'
<1>0. UNCHANGED vars /\ UNCHANGED answers /\ IInv' /\ [Next]_vars
  <2>1. UNCHANGED vars /\ UNCHANGED answers
    BY DEF Create, Inspect, HostCreates, HostRefuses, ClientCloses
  <2> QED BY <2>1, NextIInv DEF GInv
<1>1. GatewayTypeOK /\ requests[r] \in Request \cup {None}
  BY DEF GInv, GatewayTypeOK
<1>2. /\ requests' \in [Requests -> Request \cup {None}]
      /\ requests'[r] = None \/ requests'[r].step # "claimed"
      /\ \A q \in Requests \ {r} : requests'[q] = requests[q]
  <2>1. CASE \E u \in Users, w \in Workspaces, o \in HostSessions : Create(r, u, w, o)
    BY <1>1, <2>1 DEF Create, GatewayTypeOK, Request
  <2>2. CASE End(r)
    BY <1>1, <2>2, EndRequests
  <2>3. ASSUME NEW step \in {"forwarded", "abandoned", "created"}, requests[r] # None, MoveTo(r, step)
        PROVE  /\ requests' \in [Requests -> Request \cup {None}]
               /\ requests'[r] = None \/ requests'[r].step # "claimed"
               /\ \A q \in Requests \ {r} : requests'[q] = requests[q]
    <3>1. /\ requests' \in [Requests -> Request \cup {None}]
          /\ requests'[r].step = step
          /\ \A q \in Requests \ {r} : requests'[q] = requests[q]
      BY <1>1, <2>3, MoveToRequests, Zenon
    <3> QED BY <2>3, <3>1
  <2> QED BY <2>1, <2>2, <2>3 DEF Inspect, HostCreates, HostRefuses, ClientCloses
<1>3. signedIn' \subseteq Users /\ onHost' \subseteq HostSessions
  BY <1>1 DEF GatewayTypeOK, Create, Inspect, HostCreates, HostRefuses, ClientCloses, Request
<1>4. creator' \in [HostSessions -> Users \cup {None}]
  BY <1>1 DEF GatewayTypeOK, Create, Inspect, HostCreates, HostRefuses, ClientCloses, Request
<1>5. (contested \cup orphaned)' \subseteq HostSessions
  BY <1>1 DEF GatewayTypeOK, Create, Inspect, HostCreates, HostRefuses, ClientCloses, Request
<1>6. GatewayTypeOK'
  BY <1>0, <1>1, <1>2, <1>3, <1>4, <1>5 DEF GatewayTypeOK
<1>7. ClaimedIsAcked'
  BY <1>0, <1>2, <1>6, ClaimedIsAckedKept
<1>8. AnsweredCreatesAreOwned'
  BY <1>0, AnsweredKept
<1> QED BY <1>0, <1>6, <1>7, <1>8 DEF GInv

LEMMA ProjectGInv ==
  ASSUME GInv, NEW r \in Requests, Project(r)
  PROVE  GInv'
<1>1. GatewayTypeOK /\ IInv
  BY DEF GInv
<1>2. [Next]_vars /\ IInv'
  <2>1. [GatewayNext]_allVars
    BY DEF GatewayNext
  <2> QED BY <1>1, <2>1, StepRefines, NextIInv
<1>3. /\ requests' \in [Requests -> Request \cup {None}]
      /\ requests'[r].step = "claiming"
      /\ \A q \in Requests \ {r} : requests'[q] = requests[q]
  <2>1. requests[r] # None /\ MoveTo(r, "claiming")
    BY DEF Project
  <2> QED BY <1>1, <2>1, MoveToRequests, Zenon
<1>4. UNCHANGED <<signedIn, onHost, creator, answers, contested, orphaned>>
  BY DEF Project
<1>5. GatewayTypeOK'
  BY <1>1, <1>3, <1>4 DEF GatewayTypeOK
<1>6. ClaimedIsAcked'
  BY <1>2, <1>3, <1>5, ClaimedIsAckedKept
<1>7. AnsweredCreatesAreOwned'
  BY <1>2, <1>4, AnsweredKept
<1> QED BY <1>2, <1>5, <1>6, <1>7 DEF GInv

(* The answer goes to the user whose claim is on record. *)
LEMMA AnswerGInv ==
  ASSUME GInv, NEW r \in Requests, Answer(r)
  PROVE  GInv'
<1>1. GatewayTypeOK /\ IInv
  BY DEF GInv
<1>2. UNCHANGED vars /\ [Next]_vars /\ IInv'
  <2>1. UNCHANGED vars
    BY DEF Answer
  <2> QED BY <1>1, <2>1, NextIInv
<1>3. /\ requests' \in [Requests -> Request \cup {None}]
      /\ requests'[r] = None
      /\ \A q \in Requests \ {r} : requests'[q] = requests[q]
  BY <1>1, EndRequests, Zenon DEF Answer
<1>4. requests[r] \in Request /\ requests[r] # None /\ requests[r].step = "claimed"
  BY <1>1 DEF Answer, GatewayTypeOK
<1>5. answers' \subseteq answers \cup {<<requests[r].id, requests[r].user>>}
  BY DEF Answer
<1>6. GatewayTypeOK'
  BY <1>1, <1>3, <1>4, <1>5 DEF Answer, GatewayTypeOK, Request
<1>7. ClaimedIsAcked'
  BY <1>2, <1>3, <1>6, ClaimedIsAckedKept
<1>8. AnsweredCreatesAreOwned'
  <2>1. acked[requests[r].id] = requests[r].user
    BY <1>4 DEF GInv, ClaimedIsAcked
  <2> QED BY <1>2, <1>5, <2>1, AnsweredKept
<1> QED BY <1>2, <1>6, <1>7, <1>8 DEF GInv

(* The chain answers a claim, and with it the request that waits for it.    *)
LEMMA ChainGInv ==
  ASSUME GInv, GatewayBeginClaim \/ GatewayRefuseClaim \/ GatewayClaimPersisted \/ GatewayClaimFails
  PROVE  GInv'
<1>1. GatewayTypeOK /\ IInv
  BY DEF GInv
<1>2. [Next]_vars /\ IInv'
  <2>1. [GatewayNext]_allVars
    BY DEF GatewayNext
  <2> QED BY <1>1, <2>1, StepRefines, NextIInv
<1>3. AnsweredCreatesAreOwned'
  <2>1. UNCHANGED answers
    BY DEF GatewayBeginClaim, GatewayRefuseClaim, GatewayClaimPersisted, GatewayClaimFails, gatewayVars
  <2> QED BY <1>2, <2>1, AnsweredKept
<1>4. CASE GatewayBeginClaim
  <2>1. UNCHANGED gatewayVars
    BY <1>4 DEF GatewayBeginClaim
  <2>2. GatewayTypeOK'
    BY <1>1, <2>1 DEF GatewayTypeOK, gatewayVars
  <2>3. ClaimedIsAcked'
    BY <1>2, <2>1, <2>2, ClaimedIsAckedKept DEF gatewayVars
  <2> QED BY <1>2, <1>3, <2>2, <2>3 DEF GInv
<1>5. ASSUME NEW c \in Claim, Fail502(c), UNCHANGED <<signedIn, onHost, creator, answers, contested>>
      PROVE  GInv'
  <2>1. \A q \in Requests : requests'[q] \in {None, requests[q]}
    BY <1>5 DEF Fail502
  <2>2. requests' \in [Requests -> Request \cup {None}]
    BY <1>1, <1>5 DEF Fail502, GatewayTypeOK
  <2>3. orphaned' \subseteq HostSessions
    BY <1>1, <1>5 DEF Fail502, GatewayTypeOK, Claim, HostSessions
  <2>4. GatewayTypeOK'
    BY <1>1, <1>5, <2>2, <2>3 DEF GatewayTypeOK
  <2>5. ClaimedIsAcked'
    BY <1>2, <2>1, <2>4, ClaimedIsAckedKept
  <2> QED BY <1>2, <1>3, <2>4, <2>5 DEF GInv
<1>6. CASE GatewayRefuseClaim
  <2>1. Head(queue) \in Claim
    <3>1. queue \in Seq(Claim) /\ queue # <<>>
      BY <1>1, <1>6 DEF GatewayRefuseClaim, RefuseClaim, IInv, TypeOK
    <3> QED BY <3>1, HeadTailProperties
  <2> QED BY <1>5, <1>6, <2>1 DEF GatewayRefuseClaim
<1>7. ASSUME writing # None PROVE Written \in Claim
  BY <1>1, <1>7 DEF IInv, TypeOK, Write, Claim, Written
<1>8. CASE GatewayClaimFails
  BY <1>5, <1>7, <1>8 DEF GatewayClaimFails, ClaimFails
<1>9. CASE GatewayClaimPersisted
  <2> DEFINE c == Written
  <2>1. /\ requests' = [r \in Requests |->
             IF r \in ClaimingFor(c) THEN [requests[r] EXCEPT !.step = "claimed"] ELSE requests[r]]
        /\ c \in Claim
    BY <1>7, <1>9 DEF GatewayClaimPersisted, ClaimPersisted, Proceed
  <2>2. acked' = [acked EXCEPT ![writing.id] = writing.user] /\ acked \in Owners
    BY <1>1, <1>9 DEF GatewayClaimPersisted, ClaimPersisted, IInv, TypeOK
  <2>3. acked'[c.id] = c.user
    BY <2>1, <2>2 DEF Claim, Owners, Written
  <2> HIDE DEF c
  <2>4. \A q \in ClaimingFor(c) :
          /\ q \in Requests /\ requests[q] \in Request /\ requests[q] # None
          /\ requests[q].id = c.id /\ requests[q].user = c.user
    BY <1>1 DEF ClaimingFor, InProgress, GatewayTypeOK
  <2>5. requests' \in [Requests -> Request \cup {None}]
    BY <1>1, <2>1, <2>4 DEF GatewayTypeOK, Request
  <2>6. GatewayTypeOK'
    BY <1>1, <1>9, <2>5 DEF GatewayClaimPersisted, GatewayTypeOK
  <2>7. ASSUME NEW q \in Requests, requests'[q] # None, requests'[q].step = "claimed"
        PROVE  \/ requests[q] # None /\ requests[q].step = "claimed"
                  /\ requests'[q].id = requests[q].id /\ requests'[q].user = requests[q].user
               \/ acked'[requests'[q].id] = requests'[q].user
    <3>1. CASE q \in ClaimingFor(c)
      <4>1. requests'[q] = [requests[q] EXCEPT !.step = "claimed"]
        BY <2>1, <3>1
      <4>2. requests'[q].id = c.id /\ requests'[q].user = c.user
        BY <2>4, <3>1, <4>1 DEF Request
      <4> QED BY <2>3, <4>2
    <3>2. CASE q \notin ClaimingFor(c)
      BY <2>1, <2>7, <3>2
    <3> QED BY <3>1, <3>2
  <2>8. ClaimedIsAcked'
    BY <1>2, <2>6, <2>7, ClaimedIsAckedKept
  <2> QED BY <1>2, <1>3, <2>6, <2>8 DEF GInv
<1> QED BY <1>4, <1>6, <1>8, <1>9

LEMMA LifeGInv ==
  ASSUME GInv,
         \/ \E c \in Claim : Provision(c)
         \/ \E u \in Users : SignIn(u) \/ SignOut(u) \/ GatewayRemoveUser(u)
         \/ GatewayBoot \/ GatewayCrash
  PROVE  GInv'
<1>1. GatewayTypeOK /\ IInv
  BY DEF GInv
<1>2. [Next]_vars /\ IInv'
  <2>1. [GatewayNext]_allVars
    BY DEF GatewayNext
  <2> QED BY <1>1, <2>1, StepRefines, NextIInv
<1>3. /\ UNCHANGED <<onHost, creator, answers, contested>> /\ signedIn' \subseteq Users
      /\ orphaned' \subseteq HostSessions
      /\ UNCHANGED requests \/ requests' = [r \in Requests |-> None]
  BY <1>1 DEF Provision, SignIn, SignOut, GatewayRemoveUser, GatewayBoot, GatewayCrash, gatewayVars, GatewayTypeOK
<1>4. GatewayTypeOK'
  BY <1>1, <1>3 DEF GatewayTypeOK
<1>5. ClaimedIsAcked'
  BY <1>2, <1>3, <1>4, ClaimedIsAckedKept
<1>6. AnsweredCreatesAreOwned'
  BY <1>2, <1>3, AnsweredKept
<1> QED BY <1>2, <1>4, <1>5, <1>6 DEF GInv

LEMMA GatewayNextGInv == GInv /\ [GatewayNext]_allVars => GInv'
<1>1. CASE GatewayNext
  BY <1>1, RequestGInv, ProjectGInv, AnswerGInv, ChainGInv, LifeGInv DEF GatewayNext
<1>2. ASSUME GInv, UNCHANGED allVars PROVE GInv'
  <2>1. UNCHANGED vars /\ IInv'
    BY <1>2, NextIInv DEF allVars, GInv
  <2> QED BY <1>2, <2>1
          DEF allVars, vars, gatewayVars, GInv, GatewayTypeOK, ClaimedIsAcked, AnsweredCreatesAreOwned
<1> QED BY <1>1, <1>2

(* Requests, the chain, failed writes, restarts and departing clients keep  *)
(* the invariant: a claim is answered to a request only when it is on       *)
(* record.                                                                  *)
THEOREM GatewayInvariant == GatewaySpec => []GInv
BY GInvInit, GatewayNextGInv, PTL DEF GatewaySpec

(* The gateway uses the ownership tables as their specification allows.     *)
THEOREM Refines == GatewaySpec => Spec
<1>1. GatewayInit => Init
  BY DEF GatewayInit
<1>2. GInv /\ [GatewayNext]_allVars => [Next]_vars
  BY StepRefines DEF GInv
<1> QED BY <1>1, <1>2, GatewayInvariant, PTL DEF GatewaySpec, Spec

(* Claims made through the gateway and by the deployment are durable.       *)
THEOREM GatewayDurable == GatewaySpec => []ClaimsAreDurable
BY Refines, Durable

(* Neither ever gives an object that was claimed to somebody else.          *)
THEOREM GatewayFinal == GatewaySpec => ClaimsAreFinal
BY Refines, Final

(* Whoever was told that a session was created for them owns it.            *)
THEOREM AnsweredIsOwned == GatewaySpec => []AnsweredCreatesAreOwned
BY GatewayInvariant, PTL DEF GInv

-----------------------------------------------------------------------------
(* Who may get a session, and why nobody has it.                            *)
AInv == GInv /\ AdoptionInv

LEMMA AInvInit == GatewayInit => AInv
<1> SUFFICES ASSUME GatewayInit PROVE AdoptionInv
  BY GInvInit DEF AInv
<1> USE DEF GatewayInit, Init
<1>1. DownIsQuiet /\ DiskLags /\ Askers /\ Explained
  BY DEF DownIsQuiet, DiskLags, Askers, Explained
<1>2. ChainServes
  BY DEF ChainServes
<1>3. Fits(owners) /\ Fits(disk)
  BY DEF Fits, Nobody, HostSessions
<1> QED BY <1>1, <1>2, <1>3 DEF AdoptionInv

(* What the types say of requests and of claims. *)
LEMMA RequestFields ==
  ASSUME GatewayTypeOK, NEW r \in Requests, requests[r] # None
  PROVE  /\ requests[r] \in Request
         /\ requests[r].id \in HostSessions /\ requests[r].id \in Objects
         /\ requests[r].user \in Users /\ requests[r].user # None
         /\ ClaimOf(r) \in Claim /\ ClaimOf(r).id = requests[r].id /\ ClaimOf(r).user = requests[r].user
<1>1. requests[r] \in Request
  BY DEF GatewayTypeOK
<1> QED BY <1>1, OwnershipAssumption DEF Request, HostSessions, ClaimOf, Claim

LEMMA ClaimsDiffer ==
  ASSUME NEW c \in Claim, NEW d \in Claim, c.id = d.id, c.user = d.user
  PROVE  c = d
BY DEF Claim

(* Nothing is waiting for the claim of a workspace, and a request waits for *)
(* one claim.                                                               *)
LEMMA OneClaimEach ==
  ASSUME GatewayTypeOK, NEW c \in Claim, NEW q \in ClaimingFor(c)
  PROVE  /\ q \in Requests /\ requests[q] # None /\ requests[q].step = "claiming"
         /\ requests[q].id = c.id /\ requests[q].user = c.user /\ c.id \in HostSessions
         /\ \A d \in Claim : q \in ClaimingFor(d) => d = c
<1>1. /\ q \in Requests /\ requests[q] # None /\ requests[q].step = "claiming"
      /\ requests[q].id = c.id /\ requests[q].user = c.user
  BY DEF ClaimingFor, InProgress
<1>2. c.id \in HostSessions
  BY <1>1, RequestFields
<1>3. ASSUME NEW d \in Claim, q \in ClaimingFor(d) PROVE d = c
  BY <1>1, <1>3, ClaimsDiffer DEF ClaimingFor, InProgress
<1> QED BY <1>1, <1>2, <1>3

-----------------------------------------------------------------------------
(* What keeps each part, whatever the step. *)
LEMMA FitsKept ==
  ASSUME Fits(owners), Fits(disk),
         onHost \subseteq onHost', contested \subseteq contested', orphaned \subseteq orphaned',
         \A o \in onHost : creator'[o] = creator[o],
         \A o \in HostSessions : owners'[o] \in {None, owners[o], disk[o]} /\ disk'[o] \in {owners[o], disk[o]}
  PROVE  Fits(owners)' /\ Fits(disk)'
BY DEF Fits

LEMMA ChainServesKept ==
  ASSUME ChainServes, UNCHANGED <<queue, writing>>,
         \A q \in Requests : requests[q] # None /\ requests[q].step = "claiming" => requests'[q] = requests[q]
  PROVE  ChainServes'
<1>1. \A c : ClaimingFor(c) \subseteq ClaimingFor(c)'
  BY DEF ClaimingFor, InProgress
<1>2. Written' = Written
  BY DEF Written
<1>3. ClaimingFor(Written) \subseteq ClaimingFor(Written)'
  BY <1>2 DEF ClaimingFor, InProgress
<1>4. ASSUME NEW i \in 1..Len(queue) PROVE ClaimingFor(queue[i]) \subseteq ClaimingFor(queue[i])'
  BY <1>4 DEF ClaimingFor, InProgress
<1> QED BY <1>2, <1>3, <1>4 DEF ChainServes

(* The first claim of the chain, or the one that was being written, ends.   *)
LEMMA ChainServesSettled ==
  ASSUME GInv, ChainServes, NEW c \in Claim, NEW k \in {0, 1}, writing' = None,
         \A q \in Requests : q \notin ClaimingFor(c) => requests'[q] = requests[q],
         Len(queue') = Len(queue) - k,
         \A i \in 1..Len(queue') :
           /\ i + k \in 1..Len(queue) /\ queue'[i] = queue[i + k]
           /\ queue[i + k].id \in HostSessions => queue[i + k] # c
  PROVE  ChainServes'
<1>1. ASSUME NEW i \in 1..Len(queue'), NEW j \in 1..Len(queue'), queue'[i] = queue'[j] PROVE i = j
  <2>1. queue[i + k] = queue[j + k] /\ i + k \in 1..Len(queue) /\ j + k \in 1..Len(queue)
    BY <1>1
  <2>2. i + k = j + k
    BY <2>1 DEF ChainServes
  <2>3. i \in Int /\ j \in Int /\ k \in Int
    BY DEF GInv
  <2> QED BY <2>2, <2>3
<1>2. ASSUME NEW i \in 1..Len(queue'), queue'[i].id \in HostSessions PROVE ClaimingFor(queue[i])' # {}
  <2>1. queue'[i] = queue[i + k] /\ i + k \in 1..Len(queue) /\ queue[i + k] # c
    BY <1>2
  <2>2. queue[i + k] \in Claim
    <3>1. queue \in Seq(Claim)
      BY DEF GInv, IInv, TypeOK
    <3> QED BY <2>1, <3>1
  <2>3. PICK q : q \in ClaimingFor(queue[i + k])
    BY <1>2, <2>1 DEF ChainServes
  <2>4. q \in Requests /\ q \notin ClaimingFor(c)
    BY <2>1, <2>2, <2>3, OneClaimEach DEF GInv
  <2>5. requests'[q] = requests[q]
    BY <2>4
  <2>6. q \in ClaimingFor(queue[i])'
    BY <2>1, <2>3, <2>5 DEF ClaimingFor, InProgress
  <2> QED BY <2>6
<1> QED BY <1>1, <1>2 DEF ChainServes

(* A claim goes onto the chain. *)
LEMMA ChainServesQueued ==
  ASSUME GInv, ChainServes, NEW c \in Claim, ClaimOwner(c),
         c.id \in HostSessions => ClaimingFor(c) = {} /\ ClaimingFor(c)' # {},
         \A q \in Requests : requests[q] # None /\ requests[q].step = "claiming" => requests'[q] = requests[q]
  PROVE  ChainServes'
<1>1. queue \in Seq(Claim) /\ queue' = Append(queue, c) /\ UNCHANGED writing
  BY DEF GInv, IInv, TypeOK, ClaimOwner
<1>2. /\ Len(queue') = Len(queue) + 1 /\ queue'[Len(queue) + 1] = c /\ Len(queue) \in Nat
      /\ \A i \in 1..Len(queue) : queue'[i] = queue[i] /\ queue[i] # c
  BY <1>1 DEF ClaimOwner
<1>3. \A i \in 1..Len(queue') : i \in 1..Len(queue) \/ i = Len(queue) + 1
  BY <1>2
<1>4. \A d : ClaimingFor(d) \subseteq ClaimingFor(d)'
  BY DEF ClaimingFor, InProgress
<1>5. \A i, j \in 1..Len(queue') : queue'[i] = queue'[j] => i = j
  BY <1>2, <1>3 DEF ChainServes
<1>6. ASSUME NEW i \in 1..Len(queue'), queue'[i].id \in HostSessions PROVE ClaimingFor(queue[i])' # {}
  <2>1. CASE i \in 1..Len(queue)
    <3>1. queue'[i] = queue[i] /\ ClaimingFor(queue[i]) # {}
      BY <1>2, <1>6, <2>1 DEF ChainServes
    <3>2. PICK q : q \in ClaimingFor(queue[i])
      BY <3>1
    <3>3. requests'[q] = requests[q]
      BY <3>2 DEF ClaimingFor, InProgress
    <3> QED BY <3>1, <3>2, <3>3 DEF ClaimingFor, InProgress
  <2>2. CASE i = Len(queue) + 1
    <3>1. queue'[i] = c
      BY <1>2, <2>2
    <3>2. ClaimingFor(queue[i])' = ClaimingFor(c)'
      BY <3>1 DEF ClaimingFor, InProgress
    <3> QED BY <1>6, <3>1, <3>2
  <2> QED BY <1>3, <2>1, <2>2
<1>7. ASSUME writing' # None, writing'.id \in HostSessions
      PROVE  ClaimingFor(Written)' # {} /\ \A i \in 1..Len(queue') : queue'[i] # Written'
  <2>1. Written' = Written /\ ClaimingFor(Written) # {} /\ \A i \in 1..Len(queue) : queue[i] # Written
    BY <1>1, <1>7 DEF ChainServes, Written
  <2>2. Written.id \in HostSessions
    BY <1>1, <1>7 DEF Written
  <2>3. Written # c
    BY <2>1, <2>2
  <2>4. ClaimingFor(Written)' # {}
    <3>1. ClaimingFor(Written) \subseteq ClaimingFor(Written)'
      BY <2>1 DEF ClaimingFor, InProgress
    <3> QED BY <2>1, <3>1
  <2> QED BY <1>2, <1>3, <2>1, <2>3, <2>4
<1> QED BY <1>5, <1>6, <1>7 DEF ChainServes

(* The requests of a step ask for what they asked for before, of a host     *)
(* that keeps what it has.                                                  *)
LEMMA AskersKept ==
  ASSUME Askers, onHost \subseteq onHost', contested \subseteq contested',
         \A o \in onHost : creator'[o] = creator[o],
         \A q \in Requests : requests'[q] # None =>
           /\ requests[q] # None /\ requests'[q].id = requests[q].id /\ requests'[q].user = requests[q].user
           /\ requests'[q].step \in {"created", "claiming"} =>
                requests[q].step \in {"created", "claiming"} \/ requests[q].id \in onHost'
           /\ requests[q].id \in onHost' \ onHost =>
                creator'[requests[q].id] = requests[q].user \/ requests[q].id \in contested
  PROVE  Askers'
BY DEF Askers, InProgress

(* A request that created a session stays until the session has an owner or *)
(* its claim was lost.                                                      *)
LEMMA ExplainedKept ==
  ASSUME Explained, UNCHANGED <<up, disk, onHost, creator>>,
         contested \subseteq contested', orphaned \subseteq orphaned',
         \A o \in onHost : owners'[o] = None => owners[o] = None \/ o \in orphaned',
         \A q \in Requests : requests[q] # None /\ requests[q].step \in {"created", "claiming"} =>
           \/ /\ requests'[q] # None /\ requests'[q].id = requests[q].id /\ requests'[q].user = requests[q].user
              /\ requests'[q].step \in {"created", "claiming"}
           \/ requests[q].id \in orphaned'
           \/ owners'[requests[q].id] # None
  PROVE  Explained'
<1> SUFFICES ASSUME NEW o \in onHost' \ orphaned'
             PROVE  /\ ~up' => disk'[o] # None
                    /\ up' /\ owners'[o] = None =>
                         \E r \in InProgress(o)' :
                           /\ requests'[r].step \in {"created", "claiming"}
                           /\ requests'[r].user = creator'[o] \/ o \in contested'
  BY DEF Explained
<1>1. o \in onHost \ orphaned
  OBVIOUS
<1>2. ASSUME up, owners'[o] = None
      PROVE  \E r \in InProgress(o)' :
               /\ requests'[r].step \in {"created", "claiming"}
               /\ requests'[r].user = creator'[o] \/ o \in contested'
  <2>1. owners[o] = None
    BY <1>1, <1>2
  <2>2. PICK r \in InProgress(o) :
          requests[r].step \in {"created", "claiming"} /\ (requests[r].user = creator[o] \/ o \in contested)
    BY <1>1, <1>2, <2>1 DEF Explained
  <2>3. r \in Requests /\ requests[r] # None /\ requests[r].id = o
    BY <2>2 DEF InProgress
  <2>4. /\ requests'[r] # None /\ requests'[r].id = o /\ requests'[r].user = requests[r].user
        /\ requests'[r].step \in {"created", "claiming"}
    BY <1>2, <2>2, <2>3
  <2> QED BY <2>2, <2>3, <2>4 DEF InProgress
<1> QED BY <1>1, <1>2 DEF Explained

-----------------------------------------------------------------------------
(* The steps of a request.  They leave the tables and the chain alone, and  *)
(* the request ends or moves on.                                            *)
LEMMA CreateAInv ==
  ASSUME AInv, NEW r \in Requests, NEW u \in Users, NEW w \in Workspaces, NEW o \in HostSessions,
         Create(r, u, w, o)
  PROVE  AdoptionInv'
<1> DEFINE new == [step |-> IF Owns(u, o) THEN "forwarded" ELSE "checking", user |-> u, id |-> o]
<1>1. /\ UNCHANGED <<vars, onHost, creator, orphaned>> /\ contested \subseteq contested' /\ up
      /\ requests[r] = None
      /\ Owns(u, o) \/ ~KnownIds(o)
      /\ contested' = IF \E q \in InProgress(o) : requests[q].user # u THEN contested \cup {o} ELSE contested
  BY DEF Create, Principal
<1>2. /\ requests'[r] = new /\ new # None
      /\ \A q \in Requests \ {r} : requests'[q] = requests[q]
  <2>1. new \in Request
    BY DEF Request
  <2> QED BY <2>1, GatewayAssumption DEF Create, AInv, GInv, GatewayTypeOK
<1>3. Fits(owners)' /\ Fits(disk)'
  BY <1>1, FitsKept DEF vars, AInv, AdoptionInv
<1>4. ChainServes'
  <2>1. \A q \in Requests : requests[q] # None => requests'[q] = requests[q]
    BY <1>1, <1>2
  <2> QED BY <1>1, <2>1, ChainServesKept DEF vars, AInv, AdoptionInv
<1>5. Explained'
  <2>1. \A q \in Requests : requests[q] # None => requests'[q] = requests[q]
    BY <1>1, <1>2
  <2>2. Explained
    BY DEF AInv, AdoptionInv
  <2> QED BY <1>1, <2>1, <2>2, ExplainedKept DEF vars
<1>6. o \in onHost => creator[o] = u \/ o \in contested \/ u = Default
  <2>1. ASSUME o \in onHost, u # Default PROVE owners[o] = u
    BY <1>1, <2>1 DEF Owns, KnownIds, OwnerOf
  <2>2. ASSUME o \in onHost, u # Default PROVE creator[o] = u \/ o \in contested
    BY <2>1, <2>2, OwnershipAssumption DEF Fits, AInv, AdoptionInv
  <2> QED BY <2>2
<1>7. Askers'
  <2> SUFFICES ASSUME NEW p \in Requests, requests'[p] # None
               PROVE  /\ \A q \in InProgress(requests[p].id)' :
                           requests'[q].user # requests'[p].user => requests'[p].id \in contested'
                      /\ requests'[p].step \in {"created", "claiming"} => requests'[p].id \in onHost'
                      /\ requests'[p].id \in onHost' =>
                           \/ creator'[requests'[p].id] = requests'[p].user
                           \/ requests'[p].id \in contested' \/ requests'[p].user = Default
    BY DEF Askers
  <2>0. Askers
    BY DEF AInv, AdoptionInv
  <2>1. CASE p = r
    BY <1>1, <1>2, <1>6, <2>1 DEF InProgress
  <2>2. CASE p # r
    BY <1>1, <1>2, <2>0, <2>2 DEF InProgress, Askers
  <2> QED BY <2>1, <2>2
<1> QED BY <1>1, <1>3, <1>4, <1>5, <1>7
        DEF vars, AInv, AdoptionInv, DownIsQuiet, DiskLags

LEMMA EndsOrMoves ==
  ASSUME AInv, NEW r \in Requests, requests[r] # None,
         \/ End(r)
         \/ /\ requests[r].step # "claiming"
            /\ \E step \in {"forwarded", "abandoned", "created"} : MoveTo(r, step)
  PROVE  /\ \A q \in Requests \ {r} : requests'[q] = requests[q]
         /\ requests'[r] # None =>
              requests'[r].id = requests[r].id /\ requests'[r].user = requests[r].user
<1>1. GatewayTypeOK
  BY DEF AInv, GInv
<1>2. CASE End(r)
  BY <1>1, <1>2, EndRequests
<1>3. ASSUME NEW step \in {"forwarded", "abandoned", "created"}, MoveTo(r, step)
      PROVE  /\ \A q \in Requests \ {r} : requests'[q] = requests[q]
             /\ requests'[r].id = requests[r].id /\ requests'[r].user = requests[r].user
  <2>1. step \in {"checking", "forwarded", "abandoned", "created", "claiming", "claimed"}
    OBVIOUS
  <2> QED BY <1>1, <1>3, <2>1, MoveToRequests
<1> QED BY <1>2, <1>3

(* The steps in which neither the host nor the tables change. *)
LEMMA QuietAInv ==
  ASSUME AInv, NEW r \in Requests,
         Inspect(r) \/ HostRefuses(r) \/ ClientCloses(r) \/ Answer(r)
  PROVE  AdoptionInv'
<1>0. /\ GatewayTypeOK /\ DownIsQuiet /\ DiskLags /\ ChainServes /\ Askers /\ Explained
      /\ Fits(owners) /\ Fits(disk) /\ \A o \in HostSessions : creator[o] # None <=> o \in onHost
  BY DEF AInv, GInv, AdoptionInv
<1>1. UNCHANGED <<vars, onHost, creator, contested>> /\ orphaned \subseteq orphaned' /\ requests[r] # None
  BY DEF Inspect, HostRefuses, ClientCloses, Answer
<1>2. /\ requests[r].step # "claiming"
      /\ requests[r].step = "created" => requests[r].id \in orphaned'
      /\ End(r) \/ \E step \in {"forwarded", "abandoned"} : MoveTo(r, step)
  BY DEF Inspect, HostRefuses, ClientCloses, Answer
<1>3. /\ \A q \in Requests \ {r} : requests'[q] = requests[q]
      /\ requests'[r] # None =>
           requests'[r].id = requests[r].id /\ requests'[r].user = requests[r].user
  BY <1>1, <1>2, EndsOrMoves
<1>4. requests'[r] # None => requests'[r].step \in {"forwarded", "abandoned"}
  <2>1. CASE End(r)
    BY <1>0, <2>1, EndRequests
  <2>2. ASSUME NEW step \in {"forwarded", "abandoned"}, MoveTo(r, step) PROVE requests'[r].step = step
    <3>1. step \in {"checking", "forwarded", "abandoned", "created", "claiming", "claimed"}
      OBVIOUS
    <3> QED BY <1>0, <1>1, <2>2, <3>1, MoveToRequests
  <2> QED BY <1>2, <2>1, <2>2
<1>5. Fits(owners)' /\ Fits(disk)'
  BY <1>0, <1>1, FitsKept DEF vars
<1>6. ChainServes'
  BY <1>0, <1>1, <1>2, <1>3, ChainServesKept DEF vars
<1>7. Askers'
  BY <1>0, <1>1, <1>3, <1>4, AskersKept
<1>8. Explained'
  <2>1. \A q \in Requests : requests[q] # None /\ requests[q].step \in {"created", "claiming"} =>
          requests'[q] = requests[q] \/ requests[q].id \in orphaned'
    BY <1>2, <1>3
  <2> QED BY <1>0, <1>1, <2>1, ExplainedKept DEF vars
<1> QED BY <1>0, <1>1, <1>5, <1>6, <1>7, <1>8 DEF vars, AdoptionInv, DownIsQuiet, DiskLags

(* The host creates a session.  Whoever else asks for the id asked at the   *)
(* same time.                                                               *)
LEMMA HostCreatesAInv ==
  ASSUME AInv, NEW r \in Requests, HostCreates(r)
  PROVE  AdoptionInv'
<1> DEFINE o == requests[r].id
           u == requests[r].user
<1>0. /\ GatewayTypeOK /\ DownIsQuiet /\ DiskLags /\ ChainServes /\ Askers /\ Explained
      /\ Fits(owners) /\ Fits(disk) /\ \A p \in HostSessions : creator[p] # None <=> p \in onHost
  BY DEF AInv, GInv, AdoptionInv
<1>1. /\ UNCHANGED <<vars, contested>> /\ orphaned \subseteq orphaned' /\ requests[r] # None
      /\ requests[r].step \in {"forwarded", "abandoned"}
      /\ onHost' = onHost \cup {o}
      /\ creator' = IF o \in onHost THEN creator ELSE [creator EXCEPT ![o] = u]
      /\ MoveTo(r, "created") \/ (End(r) /\ o \in orphaned')
  BY DEF HostCreates
<1>2. o \in HostSessions /\ u \in Users /\ u # None
  BY <1>0, <1>1, RequestFields
<1>3. /\ o \notin onHost => creator'[o] = u
      /\ \A p \in HostSessions \ {o} : creator'[p] = creator[p]
      /\ \A p \in onHost : creator'[p] = creator[p]
  BY <1>0, <1>1, <1>2 DEF GatewayTypeOK
<1>4. /\ \A q \in Requests \ {r} : requests'[q] = requests[q]
      /\ requests'[r] # None => requests'[r].id = o /\ requests'[r].user = u
  BY <1>1, EndsOrMoves
<1>5. (requests'[r] # None /\ requests'[r].step = "created") \/ o \in orphaned'
  <2>1. CASE MoveTo(r, "created")
    <3>1. requests'[r] = [requests[r] EXCEPT !.step = "created"] /\ requests'[r].step = "created"
          /\ requests' \in [Requests -> Request \cup {None}]
      BY <1>0, <1>1, <2>1, MoveToRequests
    <3>2. requests[r] \in Request
      BY <1>0, <1>1, RequestFields
    <3>3. requests'[r] \in Request
      BY <3>1, <3>2 DEF Request
    <3> QED BY <3>1, <3>3, GatewayAssumption
  <2> QED BY <1>1, <2>1
<1>6. Fits(owners)' /\ Fits(disk)'
  BY <1>0, <1>1, <1>3, FitsKept DEF vars
<1>7. ChainServes'
  BY <1>0, <1>1, <1>4, ChainServesKept DEF vars
<1>8. Askers'
  <2> SUFFICES ASSUME NEW q \in Requests, requests'[q] # None
               PROVE  /\ requests[q] # None
                      /\ requests'[q].id = requests[q].id /\ requests'[q].user = requests[q].user
                      /\ requests'[q].step \in {"created", "claiming"} =>
                           requests[q].step \in {"created", "claiming"} \/ requests[q].id \in onHost'
                      /\ requests[q].id \in onHost' \ onHost =>
                           creator'[requests[q].id] = requests[q].user \/ requests[q].id \in contested
    <3>1. onHost \subseteq onHost' /\ contested \subseteq contested'
      BY <1>1
    <3> QED BY <1>0, <1>3, <3>1, AskersKept
  <2>1. CASE q = r
    BY <1>1, <1>3, <1>4, <2>1
  <2>2. CASE q # r
    <3>1. requests[q].id = o /\ requests[q].user # u => o \in contested
      BY <1>0, <1>1, <1>2, <1>4, <2>2 DEF Askers, InProgress
    <3> QED BY <1>1, <1>3, <1>4, <2>2, <3>1
  <2> QED BY <2>1, <2>2
<1>9. Explained'
  <2> SUFFICES ASSUME NEW p \in onHost' \ orphaned'
               PROVE  /\ ~up => disk[p] # None
                      /\ up /\ owners[p] = None =>
                           \E q \in InProgress(p)' :
                             /\ requests'[q].step \in {"created", "claiming"}
                             /\ requests'[q].user = creator'[p] \/ p \in contested
    BY <1>1 DEF Explained, vars
  <2>0. up
    BY <1>0, <1>1 DEF DownIsQuiet
  <2>1. CASE p \in onHost
    <3>1. ASSUME owners[p] = None
          PROVE  \E q \in InProgress(p)' :
                   /\ requests'[q].step \in {"created", "claiming"}
                   /\ requests'[q].user = creator'[p] \/ p \in contested
      <4>1. PICK q \in InProgress(p) :
              requests[q].step \in {"created", "claiming"} /\ (requests[q].user = creator[p] \/ p \in contested)
        BY <1>1, <2>0, <2>1, <3>1, <1>0 DEF Explained
      <4>2. q \in Requests \ {r} /\ requests'[q] = requests[q]
        BY <1>1, <1>4, <4>1 DEF InProgress
      <4> QED BY <1>3, <2>1, <4>1, <4>2 DEF InProgress
    <3> QED BY <2>0, <3>1
  <2>2. CASE p \notin onHost
    <3>1. p = o
      BY <1>1, <2>2
    <3> QED BY <1>3, <1>4, <1>5, <2>0, <2>2, <3>1 DEF InProgress
  <2> QED BY <2>1, <2>2
<1>10. \A p \in HostSessions : creator'[p] # None <=> p \in onHost'
  BY <1>0, <1>1, <1>2, <1>3
<1> QED BY <1>0, <1>1, <1>6, <1>7, <1>8, <1>9, <1>10 DEF vars, AdoptionInv, DownIsQuiet, DiskLags

-----------------------------------------------------------------------------
(* The steps of the chain of claims. *)
LEMMA ProjectAInv ==
  ASSUME AInv, NEW r \in Requests, Project(r)
  PROVE  AdoptionInv'
<1>0. /\ GatewayTypeOK /\ DownIsQuiet /\ DiskLags /\ ChainServes /\ Askers /\ Explained
      /\ Fits(owners) /\ Fits(disk) /\ \A o \in HostSessions : creator[o] # None <=> o \in onHost
  BY DEF AInv, GInv, AdoptionInv
<1>1. /\ UNCHANGED <<up, disk, owners, writing, onHost, creator, contested, orphaned>>
      /\ requests[r] # None /\ requests[r].step = "created"
      /\ ClaimOwner(ClaimOf(r)) /\ ClaimingFor(ClaimOf(r)) = {} /\ MoveTo(r, "claiming")
      /\ up
  BY DEF Project, ClaimOwner
<1>2. ClaimOf(r) \in Claim /\ ClaimOf(r).id = requests[r].id /\ ClaimOf(r).user = requests[r].user
  BY <1>0, <1>1, RequestFields
<1>3. /\ requests' \in [Requests -> Request \cup {None}]
      /\ requests'[r] = [requests[r] EXCEPT !.step = "claiming"] /\ requests'[r].step = "claiming"
      /\ requests'[r].id = requests[r].id /\ requests'[r].user = requests[r].user
      /\ \A q \in Requests \ {r} : requests'[q] = requests[q]
  BY <1>0, <1>1, MoveToRequests
<1>4. requests'[r] # None
  <2>1. requests'[r] \in Request
    BY <1>0, <1>1, <1>3, RequestFields DEF Request
  <2> QED BY <2>1, GatewayAssumption
<1>5. Fits(owners)' /\ Fits(disk)'
  BY <1>0, <1>1, FitsKept
<1>6. ChainServes'
  <2>1. \A q \in Requests : requests[q] # None /\ requests[q].step = "claiming" => requests'[q] = requests[q]
    BY <1>1, <1>3
  <2>2. PICK c \in Claim : c = ClaimOf(r)
    BY <1>2
  <2>3. ClaimOwner(c) /\ ClaimingFor(c) = {}
    BY <1>1, <2>2
  <2>4. ClaimingFor(c)' # {}
    BY <1>2, <1>3, <1>4, <2>2 DEF ClaimingFor, InProgress
  <2> QED BY <1>0, <2>1, <2>3, <2>4, ChainServesQueued DEF AInv
<1>7. Askers'
  BY <1>0, <1>1, <1>3, AskersKept
<1>8. Explained'
  <2>1. \A q \in Requests : requests[q] # None /\ requests[q].step \in {"created", "claiming"} =>
          /\ requests'[q] # None /\ requests'[q].id = requests[q].id /\ requests'[q].user = requests[q].user
          /\ requests'[q].step \in {"created", "claiming"}
    BY <1>3, <1>4
  <2> QED BY <1>0, <1>1, <2>1, ExplainedKept
<1> QED BY <1>0, <1>1, <1>5, <1>6, <1>7, <1>8 DEF AdoptionInv, DownIsQuiet, DiskLags

LEMMA FirstClaim ==
  ASSUME AInv, queue # <<>>
  PROVE  /\ Head(queue) \in Claim /\ Head(queue) = queue[1] /\ up
         /\ Len(queue) \in Nat \ {0} /\ Len(Tail(queue)) = Len(queue) - 1
         /\ \A i \in 1..Len(Tail(queue)) :
              /\ i + 1 \in 1..Len(queue) /\ Tail(queue)[i] = queue[i + 1]
              /\ queue[i + 1] # Head(queue)
<1>1. queue \in Seq(Claim) /\ DownIsEmpty /\ ChainServes
  BY DEF AInv, GInv, IInv, TypeOK, AdoptionInv
<1>2. up
  BY <1>1 DEF DownIsEmpty
<1>3. /\ Head(queue) \in Claim /\ Head(queue) = queue[1]
      /\ Len(queue) \in Nat \ {0} /\ Len(Tail(queue)) = Len(queue) - 1
      /\ \A i \in 1..Len(Tail(queue)) : Tail(queue)[i] = queue[i + 1]
  BY <1>1, HeadTailProperties
<1>4. ASSUME NEW i \in 1..Len(Tail(queue)) PROVE i + 1 \in 1..Len(queue) /\ i + 1 # 1 /\ 1 \in 1..Len(queue)
  BY <1>3
<1> QED BY <1>1, <1>2, <1>3, <1>4 DEF ChainServes

(* A claim begins that nobody has made, or its user has.                    *)
LEMMA BeginClaimAInv ==
  ASSUME AInv, GatewayBeginClaim
  PROVE  AdoptionInv'
<1> DEFINE c == Head(queue)
<1>0. /\ GatewayTypeOK /\ DownIsQuiet /\ DiskLags /\ ChainServes /\ Askers /\ Explained
      /\ Fits(owners) /\ Fits(disk) /\ \A o \in HostSessions : creator[o] # None <=> o \in onHost
  BY DEF AInv, GInv, AdoptionInv
<1>1. /\ UNCHANGED <<up, disk, signedIn, onHost, requests, creator, contested, orphaned>>
      /\ writing = None /\ queue # <<>> /\ queue' = Tail(queue)
      /\ owners[c.id] \in {None, c.user}
      /\ owners' = [owners EXCEPT ![c.id] = c.user]
      /\ writing' = [id |-> c.id, user |-> c.user, previous |-> owners[c.id]]
  BY DEF GatewayBeginClaim, BeginClaim, gatewayVars, Refused
<1>2. /\ c \in Claim /\ c = queue[1] /\ up /\ 1 \in 1..Len(queue)
      /\ c.id \in Objects /\ c.user \in Users /\ c.user # None
  <2>1. c \in Claim /\ c = queue[1] /\ up /\ 1 \in 1..Len(queue)
    BY <1>1, FirstClaim
  <2> QED BY <2>1, OwnershipAssumption DEF Claim
<1>3. owners'[c.id] = c.user /\ \A o \in Objects \ {c.id} : owners'[o] = owners[o]
  BY <1>1, <1>2 DEF AInv, GInv, IInv, TypeOK, Owners
<1>4. writing' # None /\ writing'.id = c.id /\ writing'.previous = owners[c.id] /\ Written' = c
  <2>1. writing' # None
    BY <1>1, <1>2, OwnershipAssumption DEF Write
  <2> QED BY <1>1, <1>2, <2>1 DEF Written, Claim
<1>5. DiskLags'
  BY <1>0, <1>1, <1>2, <1>3, <1>4 DEF DiskLags
<1>6. ChainServes'
  <2>1. /\ Len(queue') = Len(queue) - 1 /\ Len(queue) \in Nat
        /\ \A i \in 1..Len(queue') :
             i + 1 \in 1..Len(queue) /\ queue'[i] = queue[i + 1] /\ queue[i + 1] # c
    BY <1>1, FirstClaim
  <2>2. \A i, j \in 1..Len(queue') : queue'[i] = queue'[j] => i = j
    <3> SUFFICES ASSUME NEW i \in 1..Len(queue'), NEW j \in 1..Len(queue'), queue'[i] = queue'[j] PROVE i = j
      OBVIOUS
    <3>1. i + 1 = j + 1
      BY <1>0, <2>1 DEF ChainServes
    <3> QED BY <2>1, <3>1
  <2>3. ASSUME NEW i \in 1..Len(queue'), queue'[i].id \in HostSessions PROVE ClaimingFor(queue[i])' # {}
    <3>1. queue'[i] = queue[i + 1] /\ ClaimingFor(queue[i + 1]) # {}
      BY <1>0, <2>1, <2>3 DEF ChainServes
    <3> QED BY <1>1, <3>1 DEF ClaimingFor, InProgress
  <2>4. c.id \in HostSessions => ClaimingFor(Written)' # {}
    <3>1. c.id \in HostSessions => ClaimingFor(c) # {}
      BY <1>0, <1>2 DEF ChainServes
    <3> QED BY <1>1, <1>4, <3>1 DEF ClaimingFor, InProgress
  <2> QED BY <1>4, <2>1, <2>2, <2>3, <2>4 DEF ChainServes
<1>7. Explained'
  <2>1. \A o \in onHost : owners'[o] = None => owners[o] = None
    BY <1>0, <1>2, <1>3 DEF GatewayTypeOK, HostSessions
  <2> QED BY <1>0, <1>1, <2>1, ExplainedKept
<1>8. ASSUME c.id \in HostSessions, owners[c.id] = None
      PROVE  /\ c.id \in onHost
             /\ \/ c.user = creator[c.id] \/ c.id \in contested
                \/ c.user = Default /\ c.id \in orphaned
  <2>1. PICK r : r \in ClaimingFor(c)
    BY <1>0, <1>2, <1>8 DEF ChainServes
  <2>2. /\ r \in Requests /\ requests[r] # None /\ requests[r].step = "claiming"
        /\ requests[r].id = c.id /\ requests[r].user = c.user
    BY <2>1 DEF ClaimingFor, InProgress
  <2>3. /\ c.id \in onHost
        /\ creator[c.id] = c.user \/ c.id \in contested \/ c.user = Default
        /\ \A q \in InProgress(c.id) : requests[q].user # c.user => c.id \in contested
    BY <1>0, <2>2 DEF Askers
  <2>4. ASSUME c.id \notin orphaned, c.id \notin contested PROVE c.user = creator[c.id]
    <3>1. PICK q \in InProgress(c.id) : requests[q].user = creator[c.id]
      BY <1>0, <1>2, <1>8, <2>3, <2>4 DEF Explained
    <3> QED BY <2>3, <2>4, <3>1
  <2> QED BY <2>3, <2>4
<1>9. Fits(owners)' /\ Fits(disk)'
  BY <1>0, <1>1, <1>2, <1>3, <1>8 DEF Fits, HostSessions
<1>10. Askers'
  BY <1>0, <1>1, AskersKept
<1> QED BY <1>0, <1>1, <1>5, <1>6, <1>7, <1>9, <1>10 DEF AdoptionInv, DownIsQuiet

(* A claim ends, and the request that waited for it with it or after it.    *)
LEMMA SettledAInv ==
  ASSUME AInv, NEW c \in Claim, up, UNCHANGED <<up, onHost, creator, contested>>,
         orphaned \subseteq orphaned', writing' = None, DiskLags',
         \A o \in HostSessions :
           /\ owners'[o] = owners[o] \/ (o = c.id /\ owners'[o] = None)
           /\ disk'[o] \in {disk[o], owners[o]},
         c.id \in HostSessions => owners'[c.id] # None \/ c.id \in orphaned',
         NEW k \in {0, 1}, Len(queue') = Len(queue) - k,
         \A i \in 1..Len(queue') :
           /\ i + k \in 1..Len(queue) /\ queue'[i] = queue[i + k]
           /\ queue[i + k].id \in HostSessions => queue[i + k] # c,
         \A q \in Requests : q \notin ClaimingFor(c) => requests'[q] = requests[q],
         \A q \in ClaimingFor(c) : requests'[q] # None =>
           /\ requests'[q].id = requests[q].id /\ requests'[q].user = requests[q].user
           /\ requests'[q].step = "claimed"
  PROVE  AdoptionInv'
<1>0. /\ GatewayTypeOK /\ DownIsQuiet /\ DiskLags /\ ChainServes /\ Askers /\ Explained
      /\ Fits(owners) /\ Fits(disk) /\ \A o \in HostSessions : creator[o] # None <=> o \in onHost
  BY DEF AInv, GInv, AdoptionInv
<1>1. ChainServes'
  BY <1>0, ChainServesSettled DEF AInv
<1>2. \A q \in ClaimingFor(c) :
        /\ q \in Requests /\ requests[q] # None /\ requests[q].id = c.id /\ c.id \in HostSessions
  BY <1>0, OneClaimEach
<1>3. Fits(owners)' /\ Fits(disk)'
  BY <1>0, FitsKept
<1>4. Askers'
  <2>1. \A q \in Requests : requests'[q] # None =>
          /\ requests[q] # None /\ requests'[q].id = requests[q].id /\ requests'[q].user = requests[q].user
          /\ requests'[q].step \in {"created", "claiming"} => requests[q].step \in {"created", "claiming"}
    BY <1>2
  <2> QED BY <1>0, <2>1, AskersKept
<1>5. Explained'
  <2> SUFFICES ASSUME NEW o \in onHost' \ orphaned'
               PROVE  /\ ~up' => disk'[o] # None
                      /\ up' /\ owners'[o] = None =>
                           \E r \in InProgress(o)' :
                             /\ requests'[r].step \in {"created", "claiming"}
                             /\ requests'[r].user = creator'[o] \/ o \in contested'
    BY DEF Explained
  <2>1. o \in HostSessions /\ o \in onHost \ orphaned
    BY <1>0 DEF GatewayTypeOK
  <2>2. ASSUME owners'[o] = None
        PROVE  \E r \in InProgress(o)' :
                 /\ requests'[r].step \in {"created", "claiming"}
                 /\ requests'[r].user = creator'[o] \/ o \in contested'
    <3>1. o # c.id /\ owners[o] = None
      BY <2>1, <2>2
    <3>2. PICK r \in InProgress(o) :
            requests[r].step \in {"created", "claiming"} /\ (requests[r].user = creator[o] \/ o \in contested)
      BY <1>0, <2>1, <3>1 DEF Explained
    <3>3. r \in Requests /\ r \notin ClaimingFor(c)
      BY <1>2, <3>1, <3>2 DEF InProgress
    <3> QED BY <3>2, <3>3 DEF InProgress
  <2> QED BY <2>2
<1>6. DownIsQuiet'
  BY DEF DownIsQuiet
<1> QED BY <1>0, <1>1, <1>3, <1>4, <1>5, <1>6 DEF AdoptionInv

LEMMA RefuseClaimAInv ==
  ASSUME AInv, GatewayRefuseClaim
  PROVE  AdoptionInv'
<1>1. PICK c \in Claim : c = Head(queue)
  BY FirstClaim DEF GatewayRefuseClaim, RefuseClaim
<1>2. /\ UNCHANGED <<up, disk, owners, onHost, creator, contested>> /\ up
      /\ writing' = None /\ queue' = Tail(queue) /\ queue # <<>>
      /\ requests' = [r \in Requests |-> IF r \in ClaimingFor(c) THEN None ELSE requests[r]]
      /\ orphaned \subseteq orphaned' /\ (c.id \notin Workspaces => c.id \in orphaned')
  BY <1>1, FirstClaim DEF GatewayRefuseClaim, RefuseClaim, Fail502
<1>3. /\ Len(queue') = Len(queue) - 1
      /\ \A i \in 1..Len(queue') :
           i + 1 \in 1..Len(queue) /\ queue'[i] = queue[i + 1] /\ queue[i + 1] # c
  BY <1>1, <1>2, FirstClaim
<1>4. DiskLags'
  BY <1>2 DEF GatewayRefuseClaim, RefuseClaim, AInv, AdoptionInv, DiskLags
<1>5. /\ \A q \in Requests : q \notin ClaimingFor(c) => requests'[q] = requests[q]
      /\ \A q \in ClaimingFor(c) : requests'[q] = None
  <2>1. ClaimingFor(c) \subseteq Requests
    BY DEF ClaimingFor, InProgress
  <2> QED BY <1>2, <2>1
<1>6. c.id \in HostSessions => c.id \in orphaned'
  BY <1>2 DEF HostSessions
<1> QED BY <1>2, <1>3, <1>4, <1>5, <1>6, SettledAInv

LEMMA WriteInHand ==
  ASSUME AInv, writing # None
  PROVE  /\ up /\ Written \in Claim /\ Written.id = writing.id /\ Written.user = writing.user
         /\ writing.id \in Objects /\ owners[writing.id] = writing.user /\ writing.user # None
         /\ queue \in Seq(Claim) /\ Len(queue) \in Nat
         /\ \A i \in 1..Len(queue) :
              /\ i + 0 \in 1..Len(queue) /\ queue[i] = queue[i + 0]
              /\ queue[i + 0].id \in HostSessions => queue[i + 0] # Written
<1>1. /\ writing \in Write /\ queue \in Seq(Claim) /\ up /\ owners[writing.id] = writing.user
      /\ ChainServes
  BY DEF AInv, GInv, IInv, TypeOK, WriteInProgress, AdoptionInv
<1>2. Written \in Claim /\ Written.id = writing.id /\ Written.user = writing.user
  BY <1>1 DEF Write, Written, Claim
<1>3. ASSUME NEW i \in 1..Len(queue), queue[i].id \in HostSessions PROVE queue[i] # Written
  <2>1. CASE writing.id \in HostSessions
    BY <1>1, <2>1 DEF ChainServes
  <2>2. CASE writing.id \notin HostSessions
    BY <1>2, <1>3, <2>2
  <2> QED BY <2>1, <2>2
<1>4. Len(queue) \in Nat /\ \A i \in 1..Len(queue) : i + 0 = i
  BY <1>1
<1> QED BY <1>1, <1>2, <1>3, <1>4, OwnershipAssumption DEF Write

LEMMA ClaimPersistedAInv ==
  ASSUME AInv, GatewayClaimPersisted
  PROVE  AdoptionInv'
<1>1. PICK c \in Claim : c = Written
  BY WriteInHand DEF GatewayClaimPersisted, ClaimPersisted
<1>2. /\ UNCHANGED <<up, owners, queue, onHost, creator, contested, orphaned>> /\ up
      /\ writing # None /\ writing' = None /\ disk' = owners
      /\ requests' = [r \in Requests |->
           IF r \in ClaimingFor(c) THEN [requests[r] EXCEPT !.step = "claimed"] ELSE requests[r]]
      /\ owners[c.id] # None
  BY <1>1, WriteInHand DEF GatewayClaimPersisted, ClaimPersisted, Proceed
<1>3. DiskLags'
  BY <1>2 DEF DiskLags
<1>4. /\ Len(queue') = Len(queue) - 0
      /\ \A i \in 1..Len(queue') :
           /\ i + 0 \in 1..Len(queue) /\ queue'[i] = queue[i + 0]
           /\ queue[i + 0].id \in HostSessions => queue[i + 0] # c
  BY <1>1, <1>2, WriteInHand
<1>5. /\ \A q \in Requests : q \notin ClaimingFor(c) => requests'[q] = requests[q]
      /\ \A q \in ClaimingFor(c) :
           /\ requests'[q].id = requests[q].id /\ requests'[q].user = requests[q].user
           /\ requests'[q].step = "claimed"
  <2>1. \A q \in ClaimingFor(c) : q \in Requests /\ requests[q] \in Request
    BY OneClaimEach, RequestFields DEF AInv, GInv
  <2> QED BY <1>2, <2>1 DEF Request
<1> QED BY <1>2, <1>3, <1>4, <1>5, SettledAInv

LEMMA ClaimFailsAInv ==
  ASSUME AInv, GatewayClaimFails
  PROVE  AdoptionInv'
<1>1. PICK c \in Claim : c = Written
  BY WriteInHand DEF GatewayClaimFails, ClaimFails
<1>2. /\ UNCHANGED <<up, queue, onHost, creator, contested>> /\ up
      /\ writing # None /\ writing' = None /\ disk' \in {disk, owners}
      /\ owners' = IF writing.previous = None THEN [owners EXCEPT ![writing.id] = None] ELSE owners
      /\ requests' = [r \in Requests |-> IF r \in ClaimingFor(c) THEN None ELSE requests[r]]
      /\ orphaned \subseteq orphaned' /\ (c.id \notin Workspaces => c.id \in orphaned')
      /\ c.id = writing.id /\ writing.id \in Objects
  BY <1>1, WriteInHand DEF GatewayClaimFails, ClaimFails, Fail502
<1>3. \A o \in Objects :
        /\ owners'[o] = owners[o] \/ (o = c.id /\ owners'[o] = None)
        /\ writing.previous = None => owners'[c.id] = None
        /\ disk'[o] \in {disk[o], owners[o]}
  BY <1>2 DEF AInv, GInv, IInv, TypeOK, Owners
<1>4. DiskLags'
  BY <1>2, <1>3 DEF AInv, AdoptionInv, DiskLags
<1>5. /\ Len(queue') = Len(queue) - 0
      /\ \A i \in 1..Len(queue') :
           /\ i + 0 \in 1..Len(queue) /\ queue'[i] = queue[i + 0]
           /\ queue[i + 0].id \in HostSessions => queue[i + 0] # c
  BY <1>1, <1>2, WriteInHand
<1>6. /\ \A q \in Requests : q \notin ClaimingFor(c) => requests'[q] = requests[q]
      /\ \A q \in ClaimingFor(c) : requests'[q] = None
  <2>1. ClaimingFor(c) \subseteq Requests
    BY DEF ClaimingFor, InProgress
  <2> QED BY <1>2, <2>1
<1>7. c.id \in HostSessions => c.id \in orphaned'
  BY <1>2 DEF HostSessions
<1>8. HostSessions \subseteq Objects
  BY DEF HostSessions
<1> QED BY <1>2, <1>3, <1>4, <1>5, <1>6, <1>7, <1>8, SettledAInv

-----------------------------------------------------------------------------
(* The deployment, users who come and go, the end of the process and its    *)
(* start.                                                                   *)
LEMMA ProvisionAInv ==
  ASSUME AInv, NEW c \in Claim, Provision(c)
  PROVE  AdoptionInv'
<1>0. /\ DownIsQuiet /\ DiskLags /\ ChainServes /\ Askers /\ Explained
      /\ Fits(owners) /\ Fits(disk) /\ \A o \in HostSessions : creator[o] # None <=> o \in onHost
  BY DEF AInv, AdoptionInv
<1>1. /\ UNCHANGED <<up, disk, owners, writing, onHost, requests, creator, contested, orphaned>>
      /\ ClaimOwner(c) /\ c.id \notin HostSessions
  BY DEF Provision, ClaimOwner, gatewayVars, HostSessions
<1>2. ChainServes'
  BY <1>0, <1>1, ChainServesQueued DEF AInv
<1>3. Fits(owners)' /\ Fits(disk)'
  BY <1>0, <1>1, FitsKept
<1>4. Askers'
  BY <1>0, <1>1, AskersKept
<1>5. Explained'
  BY <1>0, <1>1, ExplainedKept
<1> QED BY <1>0, <1>1, <1>2, <1>3, <1>4, <1>5 DEF AdoptionInv, DownIsQuiet, DiskLags

LEMMA UsersAInv ==
  ASSUME AInv, UNCHANGED allVars \/ \E u \in Users : SignIn(u) \/ SignOut(u) \/ GatewayRemoveUser(u)
  PROVE  AdoptionInv'
<1>0. /\ DownIsQuiet /\ DiskLags /\ ChainServes /\ Askers /\ Explained
      /\ Fits(owners) /\ Fits(disk) /\ \A o \in HostSessions : creator[o] # None <=> o \in onHost
  BY DEF AInv, AdoptionInv
<1>1. UNCHANGED <<up, disk, owners, queue, writing, onHost, requests, creator, contested, orphaned>>
  BY DEF allVars, vars, gatewayVars, SignIn, SignOut, GatewayRemoveUser, RemoveUser
<1>2. ChainServes'
  BY <1>0, <1>1, ChainServesKept
<1>3. Fits(owners)' /\ Fits(disk)'
  BY <1>0, <1>1, FitsKept
<1>4. Askers'
  BY <1>0, <1>1, AskersKept
<1>5. Explained'
  BY <1>0, <1>1, ExplainedKept
<1> QED BY <1>0, <1>1, <1>2, <1>3, <1>4, <1>5 DEF AdoptionInv, DownIsQuiet, DiskLags

LEMMA BootAInv ==
  ASSUME AInv, GatewayBoot
  PROVE  AdoptionInv'
<1>0. /\ DownIsQuiet /\ ChainServes /\ Askers /\ Explained
      /\ Fits(owners) /\ Fits(disk) /\ \A o \in HostSessions : creator[o] # None <=> o \in onHost
  BY DEF AInv, AdoptionInv
<1>1. /\ UNCHANGED <<disk, queue, writing, onHost, requests, creator, contested, orphaned>>
      /\ ~up /\ up' /\ owners' = disk
  BY DEF GatewayBoot, Boot, gatewayVars
<1>2. ChainServes'
  BY <1>0, <1>1, ChainServesKept
<1>3. Fits(owners)' /\ Fits(disk)'
  BY <1>0, <1>1 DEF Fits
<1>4. Askers'
  BY <1>0, <1>1, AskersKept
<1>5. Explained'
  BY <1>0, <1>1 DEF Explained
<1> QED BY <1>0, <1>1, <1>2, <1>3, <1>4, <1>5 DEF AdoptionInv, DownIsQuiet, DiskLags

(* What is neither on the disk nor claimed was being created or claimed.    *)
LEMMA CrashAInv ==
  ASSUME AInv, GatewayCrash
  PROVE  AdoptionInv'
<1>0. /\ GatewayTypeOK /\ DiskLags /\ ChainServes /\ Explained
      /\ Fits(owners) /\ Fits(disk) /\ \A o \in HostSessions : creator[o] # None <=> o \in onHost
  BY DEF AInv, GInv, AdoptionInv
<1>1. /\ UNCHANGED <<onHost, creator, contested>> /\ up /\ ~up'
      /\ disk' \in {disk, owners} /\ owners' = Nobody /\ queue' = <<>> /\ writing' = None
      /\ requests' = [r \in Requests |-> None]
      /\ orphaned' = orphaned \cup
           {o \in HostSessions : \E r \in InProgress(o) : requests[r].step \in {"created", "claiming"}}
  BY DEF GatewayCrash, Crash
<1>2. Fits(owners)' /\ Fits(disk)'
  BY <1>0, <1>1 DEF Fits, Nobody, HostSessions
<1>3. ASSUME NEW o \in onHost \ orphaned' PROVE disk'[o] # None
  <2>1. o \in HostSessions /\ o \in Objects
    BY <1>0 DEF GatewayTypeOK, HostSessions
  <2>2. \A r \in InProgress(o) : requests[r].step \notin {"created", "claiming"}
    BY <1>1, <1>3, <2>1
  <2>3. owners[o] # None
    BY <1>0, <1>1, <1>3, <2>2 DEF Explained
  <2>4. ASSUME disk[o] = None PROVE FALSE
    <3>1. writing # None /\ writing.id = o
      BY <1>0, <1>1, <2>1, <2>3, <2>4 DEF DiskLags
    <3>2. PICK q : q \in ClaimingFor(Written)
      BY <1>0, <2>1, <3>1 DEF ChainServes
    <3>3. q \in InProgress(o) /\ requests[q].step = "claiming"
      BY <3>1, <3>2 DEF ClaimingFor, InProgress, Written
    <3> QED BY <2>2, <3>3
  <2> QED BY <1>1, <2>3, <2>4
<1>4. Explained' /\ Askers' /\ DownIsQuiet' /\ DiskLags'
  BY <1>1, <1>3 DEF Explained, Askers, DownIsQuiet, DiskLags
<1>5. ChainServes'
  BY <1>1 DEF ChainServes
<1> QED BY <1>0, <1>1, <1>2, <1>4, <1>5 DEF AdoptionInv

LEMMA GatewayNextAInv == AInv /\ [GatewayNext]_allVars => AInv'
<1> SUFFICES ASSUME AInv, [GatewayNext]_allVars PROVE AdoptionInv'
  BY GatewayNextGInv DEF AInv
<1> QED BY CreateAInv, QuietAInv, HostCreatesAInv, ProjectAInv, BeginClaimAInv, RefuseClaimAInv,
           ClaimPersistedAInv, ClaimFailsAInv, ProvisionAInv, UsersAInv, BootAInv, CrashAInv DEF GatewayNext

(* A session without an owner is awaited by those it may go to.             *)
THEOREM AdoptionInvariant == GatewaySpec => []AInv
BY AInvInit, GatewayNextAInv, PTL DEF GatewaySpec

(* A session goes to the user it was created for, but for the two cases     *)
(* that the property names.                                                 *)
THEOREM NotAdopted == GatewaySpec => []NoAdoption
<1>1. AInv => NoAdoption
  BY DEF AInv, AdoptionInv, Fits, NoAdoption
<1> QED BY <1>1, AdoptionInvariant, PTL

(* A session that nobody owns is being created, or its claim was lost.      *)
THEOREM OrphansExplained == GatewaySpec => []OrphansAreExplained
<1>1. AInv => OrphansAreExplained
  BY DEF AInv, AdoptionInv, Explained, OrphansAreExplained
<1> QED BY <1>1, AdoptionInvariant, PTL
=============================================================================
