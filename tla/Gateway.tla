------------------------------ MODULE Gateway ------------------------------
(***************************************************************************)
(* The creation of a host session through the gateway                      *)
(* (src/src/modern-gateway.ts: prepare, handleHttp, forwardJson;           *)
(* src/src/modern-policy.ts: the session/create part of authorize and      *)
(* result; src/src/index.ts: the seams principal and sessionExists), on    *)
(* top of the ownership tables.                                            *)
(*                                                                         *)
(* The host keeps its sessions across a restart, and answers a creation    *)
(* with an id it knows as it answers a new one.  session/fork is a creation *)
(* whose id the host draws: nobody else can name it before it is claimed.  *)
(* A workspace is claimed by the deployment, a session by the gateway.     *)
(***************************************************************************)
EXTENDS Ownership

CONSTANTS
  Workspaces,  \* the objects that the deployment claims; the others are sessions
  Requests     \* bound: requests at a time

HostSessions == Objects \ Workspaces

(* A creation looks up the id ("checking"), is at the host ("forwarded"; if *)
(* the client went away, "abandoned"), has been served ("created"), waits   *)
(* for its claim ("claiming") and for the entitlement ("claimed").          *)
Request ==
  [step : {"checking", "forwarded", "abandoned", "created", "claiming", "claimed"},
   user : Users, id : HostSessions]

ASSUME GatewayAssumption == Workspaces \subseteq Objects /\ None \notin Request

VARIABLES
  signedIn,   \* users whose requests carry a live session cookie
  onHost,     \* the sessions the host has
  requests,   \* requests[r]: a creation in progress, or None
  creator,    \* history: the user a session was created for, or None
  answers,    \* history: <<o, u>>: u was told that session o was created
  contested,  \* history: ids that requests of two users asked for at once
  orphaned    \* history: sessions whose claim was lost on the way

gatewayVars == <<signedIn, onHost, requests, creator, answers, contested, orphaned>>
allVars == <<vars, gatewayVars>>

GatewayTypeOK ==
  /\ signedIn \subseteq Users /\ onHost \subseteq HostSessions
  /\ requests \in [Requests -> Request \cup {None}]
  /\ creator \in [HostSessions -> Users \cup {None}]
  /\ answers \subseteq HostSessions \X Users
  /\ contested \cup orphaned \subseteq HostSessions

GatewayInit ==
  /\ Init
  /\ signedIn = {} /\ onHost = {} /\ requests = [r \in Requests |-> None]
  /\ creator = [o \in HostSessions |-> None]
  /\ answers = {} /\ contested = {} /\ orphaned = {}

-----------------------------------------------------------------------------
(* policy.session and policy.workspace *)
Owns(u, o) == u = Default \/ OwnerOf(o) = u

(* principal: the session is live and its user is still there. *)
Principal(u) == up /\ u \in signedIn /\ u \in known

InProgress(o) == {r \in Requests : requests[r] # None /\ requests[r].id = o}

MoveTo(r, step) == requests' = [requests EXCEPT ![r].step = step]
End(r) == requests' = [requests EXCEPT ![r] = None]

(* sessionExists, up to its await. *)
KnownIds(o) == owners[o] # None \/ o \in onHost

(* Variant: the id that is asked for is not looked up. *)
CreateAnyId(r, u, w, o) ==
  /\ requests[r] = None /\ Principal(u)
  /\ Owns(u, w)
  /\ requests' = [requests EXCEPT ![r] = [step |-> "forwarded", user |-> u, id |-> o]]
  /\ contested' = IF \E q \in InProgress(o) : requests[q].user # u THEN contested \cup {o} ELSE contested
  /\ UNCHANGED <<vars, signedIn, onHost, creator, answers, orphaned>>

(* authorize: a workspace of the user, and an id that is one of the user's  *)
(* sessions or not in use; an administrator may ask for any.                *)
Create(r, u, w, o) ==
  /\ requests[r] = None /\ Principal(u)
  /\ Owns(u, w)
  /\ Owns(u, o) \/ ~KnownIds(o)
  /\ requests' = [requests EXCEPT ![r] =
                    [step |-> IF Owns(u, o) THEN "forwarded" ELSE "checking", user |-> u, id |-> o]]
  /\ contested' = IF \E q \in InProgress(o) : requests[q].user # u THEN contested \cup {o} ELSE contested
  /\ UNCHANGED <<vars, signedIn, onHost, creator, answers, orphaned>>

(* sessionExists, after it: the cold state may have the id, or not be read. *)
Inspect(r) ==
  /\ requests[r] # None /\ requests[r].step = "checking"
  /\ \/ requests[r].id \notin onHost /\ MoveTo(r, "forwarded")
     \/ End(r)
  /\ UNCHANGED <<vars, signedIn, onHost, creator, answers, contested, orphaned>>

HostCreates(r) ==
  /\ requests[r] # None /\ requests[r].step \in {"forwarded", "abandoned"}
  /\ LET o == requests[r].id
     IN /\ onHost' = onHost \cup {o}
        /\ creator' = IF o \in onHost THEN creator ELSE [creator EXCEPT ![o] = requests[r].user]
        /\ IF requests[r].step = "forwarded"
           THEN MoveTo(r, "created") /\ UNCHANGED orphaned
           ELSE End(r) /\ orphaned' = orphaned \cup {o}
  /\ UNCHANGED <<vars, signedIn, answers, contested>>

HostRefuses(r) ==
  /\ requests[r] # None /\ requests[r].step \in {"forwarded", "abandoned"}
  /\ End(r)
  /\ UNCHANGED <<vars, signedIn, onHost, creator, answers, contested, orphaned>>

(* The client goes away: forwardJson gives the response back to the host,   *)
(* whose answer is then neither read nor claimed.  Once the answer is being *)
(* read, the claim goes on.                                                 *)
ClientCloses(r) ==
  /\ requests[r] # None
  /\ \/ /\ requests[r].step = "forwarded" /\ MoveTo(r, "abandoned")
        /\ UNCHANGED orphaned
     \/ /\ requests[r].step = "created" /\ End(r)
        /\ orphaned' = orphaned \cup {requests[r].id}
  /\ UNCHANGED <<vars, signedIn, onHost, creator, answers, contested>>

-----------------------------------------------------------------------------
(* policy.result: the session is claimed for the user.  The bound keeps one *)
(* request at a time to a claim.                                            *)
ClaimOf(r) == [id |-> requests[r].id, user |-> requests[r].user]
ClaimingFor(c) == {r \in InProgress(c.id) : requests[r].step = "claiming" /\ requests[r].user = c.user}

(* Variant: the answer of the host is passed on without a claim. *)
ProjectUnclaimed(r) ==
  /\ requests[r] # None /\ requests[r].step = "created"
  /\ MoveTo(r, "claimed")
  /\ UNCHANGED <<vars, signedIn, onHost, creator, answers, contested, orphaned>>

Project(r) ==
  /\ requests[r] # None /\ requests[r].step = "created"
  /\ ClaimingFor(ClaimOf(r)) = {}
  /\ ClaimOwner(ClaimOf(r))
  /\ MoveTo(r, "claiming")
  /\ UNCHANGED <<signedIn, onHost, creator, answers, contested, orphaned>>

(* The claim c is answered or fails, and the request behind it with it.     *)
Proceed(c) ==
  requests' = [r \in Requests |->
                 IF r \in ClaimingFor(c) THEN [requests[r] EXCEPT !.step = "claimed"] ELSE requests[r]]
Fail502(c) ==
  /\ requests' = [r \in Requests |-> IF r \in ClaimingFor(c) THEN None ELSE requests[r]]
  /\ orphaned' = IF c.id \in Workspaces THEN orphaned ELSE orphaned \cup {c.id}

Written == [id |-> writing.id, user |-> writing.user]

GatewayBeginClaim == BeginClaim /\ UNCHANGED gatewayVars

GatewayRefuseClaim ==
  /\ RefuseClaim
  /\ Fail502(Head(queue))
  /\ UNCHANGED <<signedIn, onHost, creator, answers, contested>>

GatewayClaimPersisted ==
  /\ ClaimPersisted
  /\ Proceed(Written)
  /\ UNCHANGED <<signedIn, onHost, creator, answers, contested, orphaned>>

GatewayClaimFails ==
  /\ ClaimFails
  /\ Fail502(Written)
  /\ UNCHANGED <<signedIn, onHost, creator, answers, contested>>

(* Variant: the answer is sent without waiting for the claim. *)
AnswerEarly(r) ==
  /\ requests[r] # None /\ requests[r].step \in {"claiming", "claimed"}
  /\ End(r)
  /\ answers' = answers \cup {<<requests[r].id, requests[r].user>>}
  /\ UNCHANGED <<vars, signedIn, onHost, creator, contested, orphaned>>

(* The principal is resolved once more; without it the answer is 502.       *)
Answer(r) ==
  /\ requests[r] # None /\ requests[r].step = "claimed"
  /\ End(r)
  /\ answers' = IF Principal(requests[r].user)
                THEN answers \cup {<<requests[r].id, requests[r].user>>} ELSE answers
  /\ UNCHANGED <<vars, signedIn, onHost, creator, contested, orphaned>>

-----------------------------------------------------------------------------
(* publicApi.claimWorkspace *)
Provision(c) == c.id \in Workspaces /\ ClaimOwner(c) /\ UNCHANGED gatewayVars

SignIn(u) ==
  /\ up /\ u \in known \ signedIn
  /\ signedIn' = signedIn \cup {u}
  /\ UNCHANGED <<vars, onHost, requests, creator, answers, contested, orphaned>>

SignOut(u) ==
  /\ up /\ u \in signedIn
  /\ signedIn' = signedIn \ {u}
  /\ UNCHANGED <<vars, onHost, requests, creator, answers, contested, orphaned>>

GatewayRemoveUser(u) ==
  /\ RemoveUser(u)
  /\ signedIn' = signedIn \ {u}
  /\ UNCHANGED <<onHost, requests, creator, answers, contested, orphaned>>

(* The sessions created for a request that is cut short are not claimed.    *)
GatewayCrash ==
  /\ Crash
  /\ orphaned' = orphaned \cup
       {o \in HostSessions : \E r \in InProgress(o) : requests[r].step \in {"created", "claiming"}}
  /\ requests' = [r \in Requests |-> None]
  /\ UNCHANGED <<signedIn, onHost, creator, answers, contested>>

GatewayBoot == Boot /\ UNCHANGED gatewayVars

GatewayNext ==
  \/ \E r \in Requests :
       \/ \E u \in Users, w \in Workspaces, o \in HostSessions : Create(r, u, w, o)
       \/ Inspect(r) \/ HostCreates(r) \/ HostRefuses(r) \/ ClientCloses(r) \/ Project(r) \/ Answer(r)
  \/ \E c \in Claim : Provision(c)
  \/ GatewayBeginClaim \/ GatewayRefuseClaim \/ GatewayClaimPersisted \/ GatewayClaimFails
  \/ \E u \in Users : SignIn(u) \/ SignOut(u) \/ GatewayRemoveUser(u)
  \/ GatewayBoot \/ GatewayCrash

GatewaySpec == GatewayInit /\ [][GatewayNext]_allVars

-----------------------------------------------------------------------------
(* A user who was told that a session exists owns it, whatever fails or is  *)
(* restarted later.                                                         *)
AnsweredCreatesAreOwned == \A o \in HostSessions, u \in Users : <<o, u>> \in answers => acked[o] = u

(* A session goes to the user it was created for: another gets it only if   *)
(* both asked for the id at the same time, an administrator also if its     *)
(* claim was lost.                                                          *)
NoAdoption ==
  \A o \in HostSessions : owners[o] # None /\ creator[o] # None =>
    \/ owners[o] = creator[o] \/ o \in contested
    \/ owners[o] = Default /\ o \in orphaned

(* A session that nobody claimed is being created, or its claim was lost:   *)
(* the client went away, the write failed, the user was deleted, or the     *)
(* process ended.                                                           *)
OrphansAreExplained ==
  \A o \in onHost : up /\ owners[o] = None =>
    \/ o \in orphaned
    \/ \E r \in InProgress(o) : requests[r].step \in {"created", "claiming"}

-----------------------------------------------------------------------------
(* The inductive invariant of the last two.                                 *)
DownIsQuiet == ~up => \A r \in Requests : requests[r] = None

(* Only the claim that is being written is in memory and not on the disk.   *)
DiskLags ==
  \A o \in Objects : up /\ owners[o] # None /\ disk[o] = None =>
    writing # None /\ writing.id = o /\ writing.previous = None

(* Every claim of a session on the chain is there once, for a request that  *)
(* waits for it.                                                            *)
ChainServes ==
  /\ \A i, j \in 1..Len(queue) : queue[i] = queue[j] => i = j
  /\ \A i \in 1..Len(queue) : queue[i].id \in HostSessions => ClaimingFor(queue[i]) # {}
  /\ writing # None /\ writing.id \in HostSessions =>
       ClaimingFor(Written) # {} /\ \A i \in 1..Len(queue) : queue[i] # Written

(* The users who ask for an id at once, and for one that the host has.      *)
Askers ==
  \A r \in Requests : requests[r] # None =>
    LET o == requests[r].id
        u == requests[r].user
    IN /\ \A q \in InProgress(o) : requests[q].user # u => o \in contested
       /\ requests[r].step \in {"created", "claiming"} => o \in onHost
       /\ o \in onHost => creator[o] = u \/ o \in contested \/ u = Default

Fits(table) ==
  \A o \in HostSessions : table[o] # None =>
    /\ o \in onHost
    /\ \/ table[o] = creator[o] \/ o \in contested
       \/ table[o] = Default /\ o \in orphaned

(* The reason for a session without an owner is the request it was created  *)
(* for, or that its claim was lost.                                         *)
Explained ==
  \A o \in onHost \ orphaned :
    /\ ~up => disk[o] # None
    /\ up /\ owners[o] = None =>
         \E r \in InProgress(o) :
           requests[r].step \in {"created", "claiming"} /\ (requests[r].user = creator[o] \/ o \in contested)

AdoptionInv ==
  /\ DownIsQuiet /\ DiskLags /\ ChainServes /\ Askers /\ Explained
  /\ Fits(owners) /\ Fits(disk)
  /\ \A o \in HostSessions : creator[o] # None <=> o \in onHost
=============================================================================
