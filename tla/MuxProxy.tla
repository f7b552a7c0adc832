------------------------------ MODULE MuxProxy ------------------------------
(***************************************************************************)
(* The transparent proxy of the stream mux (src/src/modern-gateway.ts:     *)
(* proxyMuxUpgrade, releaseWaterfall and the $events/result branch of      *)
(* handleHttp) with the stream half of the policy (src/src/modern-policy.ts*)
(* authorize, frame).                                                      *)
(*                                                                         *)
(* Frames go through one promise chain in each direction.  A frame is a    *)
(* single step unless a rule registered by the deployer judges it, which   *)
(* may take its time: the built-in policy only awaits promises that are    *)
(* settled.  The host serves every stream it is asked for, whatever the    *)
(* session, and sends `ready` first on the stream of events.               *)
(*                                                                         *)
(* Endpoints by how they are judged: "events"; "control" (session/control, *)
(* workspace/follow), open to all and filtered frame by frame; "follow"    *)
(* (session/follow, workspaceFiles/changes), judged when it is opened;     *)
(* "ruled", left to a rule; "other", refused.  Lists in a frame are        *)
(* filtered item by item, so an item stands for them.  Left out: frames    *)
(* that are not JSON.                                                      *)
(***************************************************************************)
EXTENDS Names, Naturals, Sequences, FiniteSets, Functions

CONSTANTS
  Default,    \* the administrator, who owns what nobody claimed
  Logins,     \* login keys
  Conns,      \* connections
  Sessions,   \* host sessions
  Streams,    \* stream ids
  Numbers,    \* the waterfall events of a session
  MaxEvents,  \* the limit of pending events, 512
  MaxSent,    \* bound: frames from the clients
  MaxHost     \* bound: frames from the host

(* A waterfall event concerns one session. *)
Event == [session : Sessions, number : Numbers]
Endpoint ==
  [kind : {"events", "control", "ruled", "other"}, session : {None}]
    \cup [kind : {"follow"}, session : Sessions]

ASSUME MuxAssumption ==
  /\ Default \in Users
  /\ MaxEvents \in Nat \ {0} /\ MaxSent \in Nat /\ MaxHost \in Nat
  /\ None \notin Users \cup Logins \cup Endpoint

VARIABLES
  userOf,      \* the user who logged in with a login key
  loggedIn,    \* login keys that still have a session
  owners,      \* state.owners.sessions
  phase,       \* phase[c]: the connection to the host: unused, connecting, open or closed
  login,       \* login[c]: correlation.login
  sent,        \* sent[c]: number of frames the client sent
  uplink,      \* uplink[c]: frames on the chain uplinkQueue
  judging,     \* judging[c]: the head of the chain awaits a rule
  pending,     \* pending[c]: pendingUplink
  endpoints,   \* endpoints[c][stream]: the endpoint recorded for a stream, or None
  hostStreams, \* hostStreams[c][stream]: the endpoint the host serves, or None
  down,        \* down[c]: frames on the chain downQueue
  hostSent,    \* number of frames the host sent
  clientId,    \* clientId[c]: correlation.clientId is known
  events,      \* events[c]: correlation.events
  received,    \* history: received[c]: numbers of the frames that reached the host, in order
  refused,     \* history: refused[c]: numbers of the frames that were refused
  strays,      \* history: <<c, s>>: c got a frame about s, which its user might not see
  late,        \* history: connections that got a frame after their login had ended
  shown,       \* history: <<c, e>>: event e was delivered on c
  releasing,   \* <<c, e>>: calls of releaseWaterfall that await the host
  released,    \* history: <<c, e>>: the host confirmed that the recipient hidden from c goes on
  unreleased,  \* history: <<c, e>>: it did not
  answered,    \* history: <<l, e>>: login l was let through with an answer to e
  raced,       \* history: connections whose host side opened while a rule was awaited
  cast,        \* history: <<c, e>>: the host sent the waterfall e to c
  opened,      \* history: <<c, stream, endpoint>>: the client asked for the stream
  reopened,    \* history: connections where it did so again under the same id
  cancelled,   \* history: connections whose client cancelled a stream
  overLimit,   \* history: <<c, e>>: e came when too many events were pending on c
  rolledBack   \* history: sessions whose claim failed to persist

uplinkVars == <<sent, uplink, judging, pending, endpoints, received, refused, opened, reopened, cancelled>>
releaseVars == <<releasing, released, unreleased>>
downVars == <<down, hostSent, clientId, events, strays, late, cast, shown, releaseVars, overLimit>>
worldVars == <<userOf, loggedIn, owners, rolledBack>>
vars == <<worldVars, phase, login, uplinkVars, raced, hostStreams, downVars, answered>>

UpFrame == [n : 1..MaxSent, type : {"open"}, stream : Streams, endpoint : Endpoint]
             \cup [n : 1..MaxSent, type : {"cancel"}, stream : Streams]
Content ==
  [type : {"ready", "end"}]
    \cup [type : {"waterfall", "cancel"}, event : Event]
    \cup [type : {"item"}, session : Sessions]
DownFrame == [stream : Streams, of : Endpoint, content : Content]
Table == [Streams -> Endpoint \cup {None}]
NoStreams == [s \in Streams |-> None]

TypeOK ==
  /\ userOf \in [Logins -> Users] /\ loggedIn \subseteq Logins
  /\ owners \in [Sessions -> Users \cup {None}]
  /\ phase \in [Conns -> {"unused", "connecting", "open", "closed"}]
  /\ login \in [Conns -> Logins \cup {None}]
  /\ sent \in [Conns -> 0..MaxSent] /\ hostSent \in 0..MaxHost
  /\ uplink \in [Conns -> Seq(UpFrame)] /\ pending \in [Conns -> Seq(UpFrame)]
  /\ judging \in [Conns -> BOOLEAN] /\ clientId \in [Conns -> BOOLEAN]
  /\ endpoints \in [Conns -> Table] /\ hostStreams \in [Conns -> Table]
  /\ down \in [Conns -> Seq(DownFrame)]
  /\ events \in [Conns -> SUBSET Event]
  /\ \A c \in Conns : IsFiniteSet(events[c]) /\ Cardinality(events[c]) <= MaxEvents
  /\ received \in [Conns -> Seq(1..MaxSent)]
  /\ refused \in [Conns -> SUBSET (1..MaxSent)]
  /\ strays \subseteq Conns \X Sessions /\ late \subseteq Conns
  /\ cast \cup shown \cup releasing \cup released \cup unreleased \cup overLimit \subseteq Conns \X Event
  /\ answered \subseteq Logins \X Event
  /\ raced \cup cancelled \cup reopened \subseteq Conns
  /\ opened \subseteq Conns \X Streams \X Endpoint
  /\ rolledBack \subseteq Sessions

Init ==
  /\ userOf \in [Logins -> Users] /\ loggedIn = Logins
  /\ owners \in [Sessions -> Users \cup {None}] /\ rolledBack = {}
  /\ phase = [c \in Conns |-> "unused"] /\ login = [c \in Conns |-> None]
  /\ sent = [c \in Conns |-> 0] /\ uplink = [c \in Conns |-> <<>>]
  /\ judging = [c \in Conns |-> FALSE] /\ pending = [c \in Conns |-> <<>>]
  /\ endpoints = [c \in Conns |-> NoStreams] /\ hostStreams = [c \in Conns |-> NoStreams]
  /\ received = [c \in Conns |-> <<>>] /\ refused = [c \in Conns |-> {}]
  /\ raced = {} /\ opened = {} /\ reopened = {} /\ cancelled = {}
  /\ down = [c \in Conns |-> <<>>] /\ hostSent = 0
  /\ clientId = [c \in Conns |-> FALSE] /\ events = [c \in Conns |-> {}]
  /\ strays = {} /\ late = {} /\ cast = {} /\ shown = {} /\ overLimit = {}
  /\ releasing = {} /\ released = {} /\ unreleased = {}
  /\ answered = {}

-----------------------------------------------------------------------------
(* The policy. *)
Who(c) == userOf[login[c]]
OwnerOf(s) == IF owners[s] = None THEN Default ELSE owners[s]

(* policy.session: an administrator sees every session. *)
MaySee(u, s) == u = Default \/ OwnerOf(s) = u

(* Variant: a stream that follows a session is not checked for its owner. *)
GrantsAnySession(u, endpoint) == u = Default \/ endpoint.kind # "other"

(* policy.authorize for a stream; a rule is not asked here. *)
Grants(u, endpoint) ==
  CASE endpoint.kind \in {"events", "control"} -> TRUE
    [] endpoint.kind = "follow" -> MaySee(u, endpoint.session)
    [] OTHER -> u = Default

-----------------------------------------------------------------------------
(* The connection. *)
Connect(c, l) ==
  /\ phase[c] = "unused" /\ l \in loggedIn
  /\ phase' = [phase EXCEPT ![c] = "connecting"]
  /\ login' = [login EXCEPT ![c] = l]
  /\ UNCHANGED <<worldVars, uplinkVars, raced, hostStreams, downVars, answered>>

(* The pending frames join the chain, behind the frame that awaits a rule   *)
(* and those after it; without one the chain has run dry, because until the *)
(* host side opens its steps are promise jobs, which run before any event.  *)
(* The host side passes the gate once more: the login must still be there.  *)
UpstreamOpens(c) ==
  /\ phase[c] = "connecting" /\ login[c] \in loggedIn
  /\ uplink[c] = <<>> \/ judging[c]
  /\ phase' = [phase EXCEPT ![c] = "open"]
  /\ uplink' = [uplink EXCEPT ![c] = @ \o pending[c]]
  /\ pending' = [pending EXCEPT ![c] = <<>>]
  /\ raced' = IF judging[c] THEN raced \cup {c} ELSE raced
  /\ UNCHANGED <<worldVars, login, sent, judging, endpoints, received, refused, opened, reopened, cancelled,
                 hostStreams, downVars, answered>>

(* shutdown: either side closed or failed. *)
Shutdown(c) ==
  /\ phase[c] \in {"connecting", "open"}
  /\ phase' = [phase EXCEPT ![c] = "closed"]
  /\ hostStreams' = [hostStreams EXCEPT ![c] = NoStreams]
  /\ UNCHANGED <<worldVars, login, uplinkVars, raced, downVars, answered>>

-----------------------------------------------------------------------------
(* From the client to the host.  The client may send as soon as its own side *)
(* is open.                                                                 *)
ClientSends(c, f) ==
  /\ phase[c] \in {"connecting", "open"} /\ f.n = sent[c] + 1
  /\ sent' = [sent EXCEPT ![c] = f.n]
  /\ uplink' = [uplink EXCEPT ![c] = Append(@, f)]
  /\ IF f.type = "open"
     THEN /\ opened' = opened \cup {<<c, f.stream, f.endpoint>>}
          /\ reopened' = IF \E endpoint \in Endpoint : <<c, f.stream, endpoint>> \in opened
                         THEN reopened \cup {c} ELSE reopened
          /\ UNCHANGED cancelled
     ELSE /\ cancelled' = cancelled \cup {c}
          /\ UNCHANGED <<opened, reopened>>
  /\ UNCHANGED <<worldVars, phase, login, judging, pending, endpoints, received, refused, raced,
                 hostStreams, downVars, answered>>

(* Variant: a frame is dropped while the host side is not open. *)
PendNothing(c, f) == UNCHANGED pending

(* Variant: pendingUplink is filled from the front. *)
PendFirst(c, f) == pending' = [pending EXCEPT ![c] = <<f>> \o @]

Pend(c, f) == pending' = [pending EXCEPT ![c] = Append(@, f)]

(* The frame goes to the host, or waits for the host side to open.  The     *)
(* host answers the opening of a stream of events with `ready`.             *)
Forward(c, f) ==
  IF phase[c] = "open"
  THEN /\ received' = [received EXCEPT ![c] = Append(@, f.n)]
       /\ hostStreams' = [hostStreams EXCEPT ![c][f.stream] = IF f.type = "open" THEN f.endpoint ELSE None]
       /\ down' = IF f.type = "open" /\ f.endpoint.kind = "events"
                  THEN [down EXCEPT ![c] = Append(@, [stream |-> f.stream, of |-> f.endpoint,
                                                      content |-> [type |-> "ready"]])]
                  ELSE down
       /\ UNCHANGED pending
  ELSE Pend(c, f) /\ UNCHANGED <<received, hostStreams, down>>

TakeUp(c) == uplink' = [uplink EXCEPT ![c] = Tail(@)]

Record(c, stream, endpoint) == endpoints' = [endpoints EXCEPT ![c][stream] = endpoint]

Admit(c, f, granted) ==
  IF granted
  THEN Record(c, f.stream, f.endpoint) /\ Forward(c, f) /\ UNCHANGED refused
  ELSE /\ refused' = [refused EXCEPT ![c] = @ \cup {f.n}]
       /\ UNCHANGED <<endpoints, pending, received, hostStreams, down>>

otherThanUp ==
  <<worldVars, phase, login, sent, opened, reopened, cancelled, raced, hostSent, clientId, events,
    strays, late, cast, shown, releaseVars, overLimit, answered>>

OpenStream(c) ==
  /\ uplink[c] # <<>> /\ Head(uplink[c]).type = "open"
  /\ LET f == Head(uplink[c])
     IN f.endpoint.kind # "ruled" /\ Admit(c, f, Grants(Who(c), f.endpoint))
  /\ TakeUp(c)
  /\ UNCHANGED <<judging, otherThanUp>>

AskRule(c) ==
  /\ uplink[c] # <<>> /\ Head(uplink[c]).type = "open" /\ ~judging[c]
  /\ Head(uplink[c]).endpoint.kind = "ruled"
  /\ judging' = [judging EXCEPT ![c] = TRUE]
  /\ UNCHANGED <<uplink, pending, endpoints, received, refused, hostStreams, down, otherThanUp>>

RuleAnswers(c) ==
  /\ judging[c] /\ judging' = [judging EXCEPT ![c] = FALSE]
  /\ \E granted \in BOOLEAN : Admit(c, Head(uplink[c]), granted)
  /\ TakeUp(c)
  /\ UNCHANGED otherThanUp

CancelStream(c) ==
  /\ uplink[c] # <<>> /\ Head(uplink[c]).type = "cancel"
  /\ LET f == Head(uplink[c]) IN Record(c, f.stream, None) /\ Forward(c, f)
  /\ TakeUp(c)
  /\ UNCHANGED <<judging, refused, otherThanUp>>

-----------------------------------------------------------------------------
(* From the host to the client. *)
ContentOf(endpoint) ==
  CASE endpoint.kind = "events" ->
         [type : {"waterfall", "cancel"}, event : Event] \cup [type : {"item"}, session : Sessions]
    [] endpoint.kind = "follow" ->
         [type : {"item"}, session : {endpoint.session}] \cup [type : {"end"}]
    [] OTHER -> [type : {"item"}, session : Sessions] \cup [type : {"end"}]

(* Each waterfall is sent once to a connection, and cancelled only after that. *)
HostSends(c, stream, content) ==
  /\ phase[c] = "open" /\ hostSent < MaxHost
  /\ hostStreams[c][stream] # None /\ content \in ContentOf(hostStreams[c][stream])
  /\ content.type = "waterfall" => <<c, content.event>> \notin cast
  /\ content.type = "cancel" => <<c, content.event>> \in cast
  /\ hostSent' = hostSent + 1
  /\ down' = [down EXCEPT ![c] =
                Append(@, [stream |-> stream, of |-> hostStreams[c][stream], content |-> content])]
  /\ cast' = IF content.type = "waterfall" THEN cast \cup {<<c, content.event>>} ELSE cast
  /\ UNCHANGED <<worldVars, phase, login, uplinkVars, raced, hostStreams, clientId, events, strays,
                 late, shown, releaseVars, overLimit, answered>>

TakeDown(c) == down[c] # <<>> /\ down' = [down EXCEPT ![c] = Tail(@)]

EndpointOf(c) == endpoints[c][Head(down[c]).stream]

About(content) ==
  CASE content.type = "item" -> {content.session}
    [] content.type \in {"waterfall", "cancel"} -> {content.event.session}
    [] OTHER -> {}

(* client.send: nothing reaches a client that is gone. *)
SendDown(c) ==
  IF phase[c] = "open"
  THEN /\ strays' = strays \cup
            {<<c, s>> : s \in {s \in About(Head(down[c]).content) :
                                 EndpointOf(c).kind # "ruled" /\ ~MaySee(Who(c), s)}}
       /\ late' = IF login[c] \in loggedIn THEN late ELSE late \cup {c}
  ELSE UNCHANGED <<strays, late>>

(* policy.frame for what is not a message to the recipient of a waterfall;  *)
(* a rule may let a frame pass or not.                                      *)
Verdicts(u, endpoint, content) ==
  LET own == content.type = "item" /\ MaySee(u, content.session)
  IN CASE endpoint.kind = "ruled" -> BOOLEAN
       [] endpoint.kind = "follow" -> {TRUE}
       [] endpoint.kind = "events" -> {own}
       [] OTHER -> {own \/ u = Default}

otherThanDown ==
  <<worldVars, phase, login, uplinkVars, raced, hostStreams, hostSent, cast, answered>>

(* The stream is unknown, or was cancelled: the frame is dropped. *)
DropUnknown(c) ==
  /\ TakeDown(c) /\ EndpointOf(c) = None
  /\ UNCHANGED <<clientId, events, strays, late, shown, releaseVars, overLimit, otherThanDown>>

DeliverItem(c) ==
  /\ TakeDown(c) /\ EndpointOf(c) # None
  /\ LET content == Head(down[c]).content
     IN /\ EndpointOf(c).kind # "events" \/ content.type \in {"item", "end"}
        /\ \E passes \in Verdicts(Who(c), EndpointOf(c), content) :
             IF passes THEN SendDown(c) ELSE UNCHANGED <<strays, late>>
  /\ UNCHANGED <<clientId, events, shown, releaseVars, overLimit, otherThanDown>>

OnEvents(c, type) ==
  /\ TakeDown(c) /\ EndpointOf(c) # None /\ EndpointOf(c).kind = "events"
  /\ Head(down[c]).content.type = type

DeliverReady(c) ==
  /\ OnEvents(c, "ready")
  /\ clientId' = [clientId EXCEPT ![c] = TRUE]
  /\ SendDown(c)
  /\ UNCHANGED <<events, shown, releaseVars, overLimit, otherThanDown>>

(* Variant: the hidden recipient is not let go. *)
HideWaterfallSilently(c) ==
  /\ OnEvents(c, "waterfall")
  /\ ~MaySee(Who(c), Head(down[c]).content.event.session)
  /\ UNCHANGED <<clientId, events, strays, late, shown, releaseVars, overLimit, otherThanDown>>

(* The recipient is in a session the client may not see: if the id of the   *)
(* client is known, releaseWaterfall tells the host that it goes on.  The    *)
(* chain does not wait for it.                                              *)
HideWaterfall(c) ==
  /\ OnEvents(c, "waterfall")
  /\ LET e == Head(down[c]).content.event
     IN /\ ~MaySee(Who(c), e.session)
        /\ releasing' = IF clientId[c] THEN releasing \cup {<<c, e>>} ELSE releasing
  /\ UNCHANGED <<clientId, events, strays, late, shown, released, unreleased, overLimit, otherThanDown>>

ReleaseAnswered(r) ==
  /\ r \in releasing /\ releasing' = releasing \ {r}
  /\ released' = released \cup {r}
  /\ UNCHANGED <<down, clientId, events, strays, late, shown, unreleased, overLimit, otherThanDown>>

(* There is nobody to ask, the host refuses, or the call throws: all that    *)
(* happens is a line in the log, if that.                                   *)
ReleaseFails(r) ==
  /\ r \in releasing /\ releasing' = releasing \ {r}
  /\ unreleased' = unreleased \cup {r}
  /\ UNCHANGED <<down, clientId, events, strays, late, shown, released, overLimit, otherThanDown>>

(* At the limit the policy throws: the frame is neither delivered nor       *)
(* released.                                                                *)
ShowWaterfall(c) ==
  /\ OnEvents(c, "waterfall")
  /\ LET e == Head(down[c]).content.event
     IN /\ MaySee(Who(c), e.session)
        /\ IF Cardinality(events[c]) >= MaxEvents
           THEN /\ overLimit' = overLimit \cup {<<c, e>>}
                /\ UNCHANGED <<events, strays, late, shown>>
           ELSE /\ events' = [events EXCEPT ![c] = @ \cup {e}]
                /\ SendDown(c)
                /\ shown' = IF phase[c] = "open" THEN shown \cup {<<c, e>>} ELSE shown
                /\ UNCHANGED overLimit
  /\ UNCHANGED <<clientId, releaseVars, otherThanDown>>

DeliverCancel(c) ==
  /\ OnEvents(c, "cancel")
  /\ LET e == Head(down[c]).content.event
     IN /\ events' = [events EXCEPT ![c] = @ \ {e}]
        /\ IF e \in events[c] THEN SendDown(c) ELSE UNCHANGED <<strays, late>>
  /\ UNCHANGED <<clientId, shown, releaseVars, overLimit, otherThanDown>>

-----------------------------------------------------------------------------
(* Variant: any login may answer. *)
MayAnswerAny(l, e) == \E c \in Conns : phase[c] \in {"connecting", "open"} /\ e \in events[c]

(* The $events/result branch: the event was delivered on a live connection  *)
(* of this login.                                                           *)
MayAnswer(l, e) ==
  \E c \in Conns : phase[c] \in {"connecting", "open"} /\ login[c] = l /\ e \in events[c]

Answer(l, e) ==
  /\ l \in loggedIn /\ MayAnswer(l, e)
  /\ answered' = answered \cup {<<l, e>>}
  /\ UNCHANGED <<worldVars, phase, login, uplinkVars, raced, hostStreams, downVars>>

(* The rest of the system: a login ends, a session is claimed, and the      *)
(* claim is taken back if it cannot be written.                             *)
LogOut(l) ==
  /\ l \in loggedIn /\ loggedIn' = loggedIn \ {l}
  /\ UNCHANGED <<userOf, owners, rolledBack, phase, login, uplinkVars, raced, hostStreams, downVars,
                 answered>>

Claim(s, u) ==
  /\ owners[s] = None /\ owners' = [owners EXCEPT ![s] = u]
  /\ UNCHANGED <<userOf, loggedIn, rolledBack, phase, login, uplinkVars, raced, hostStreams, downVars,
                 answered>>

ClaimFails(s) ==
  /\ owners[s] # None /\ owners' = [owners EXCEPT ![s] = None]
  /\ rolledBack' = rolledBack \cup {s}
  /\ UNCHANGED <<userOf, loggedIn, phase, login, uplinkVars, raced, hostStreams, downVars, answered>>

Uplink(c) == OpenStream(c) \/ AskRule(c) \/ RuleAnswers(c) \/ CancelStream(c)
Downlink(c) ==
  DropUnknown(c) \/ DeliverItem(c) \/ DeliverReady(c) \/ HideWaterfall(c) \/ ShowWaterfall(c)
    \/ DeliverCancel(c)

Next ==
  \/ \E c \in Conns :
       \/ \E l \in Logins : Connect(c, l)
       \/ UpstreamOpens(c) \/ Shutdown(c)
       \/ \E f \in UpFrame : ClientSends(c, f)
       \/ Uplink(c)
       \/ \E stream \in Streams, content \in Content : HostSends(c, stream, content)
       \/ Downlink(c)
  \/ \E r \in releasing : ReleaseAnswered(r) \/ ReleaseFails(r)
  \/ \E l \in Logins : LogOut(l) \/ \E e \in Event : Answer(l, e)
  \/ \E s \in Sessions : ClaimFails(s) \/ \E u \in Users : Claim(s, u)

Spec == Init /\ [][Next]_vars

-----------------------------------------------------------------------------
(* What a client gets about a session is about one of its user's sessions at *)
(* that moment, however claims and the opening of streams interleave.  Two  *)
(* things break the rule: an id used for a second stream, whose endpoint    *)
(* then judges frames of the first, and a claim that was taken back after a *)
(* stream that follows the session was opened.                              *)
OwnFramesOnly ==
  \A c \in Conns, s \in Sessions : <<c, s>> \in strays => c \in reopened \/ s \in rolledBack

(* Frames reach the host in the order the client sent them; one that waited *)
(* for the host side may be overtaken if a rule was being asked as it opened. *)
UplinkInOrder ==
  \A c \in Conns \ raced : \A i, j \in DOMAIN received[c] : i < j => received[c][i] < received[c][j]

(* No frame of a client is lost: each is on its way, has reached the host or *)
(* was refused, and nothing stays behind once the host side is open.        *)
NumbersIn(frames) == {f.n : f \in Range(frames)}

NothingLost ==
  \A c \in Conns :
    /\ 1..sent[c] = NumbersIn(uplink[c]) \cup NumbersIn(pending[c])
                      \cup Range(received[c]) \cup refused[c]
    /\ phase[c] = "open" => pending[c] = <<>>

(* A waterfall that the host cast to a connection is on its way, was         *)
(* delivered, or its recipient is or was released, as long as the connection *)
(* lives and its client withdrew nothing.  It is stranded in just two ways:  *)
(* the release of a hidden recipient fails, which is not tried again, or a   *)
(* visible one comes while MaxEvents are pending, which releases nobody      *)
(* (modern-gateway.ts:20-21).                                                *)
Served(c, e) ==
  \/ <<c, e>> \in shown \cup releasing \cup released
  \/ \E i \in DOMAIN down[c] : down[c][i].content = [type |-> "waterfall", event |-> e]
  \/ phase[c] = "closed" \/ c \in cancelled \cup reopened

NobodyStranded ==
  \A c \in Conns, e \in Event :
    <<c, e>> \in cast => Served(c, e) \/ <<c, e>> \in unreleased \cup overLimit

(* An answer to a waterfall is let through only if the waterfall was shown  *)
(* on a connection of the same login.                                       *)
AnswersWereShown ==
  \A l \in Logins, e \in Event :
    <<l, e>> \in answered => \E c \in Conns : login[c] = l /\ <<c, e>> \in shown

(* The frames of a client go through a channel that loses, repeats and       *)
(* reorders nothing, but for one turn if the host side opens under an        *)
(* awaited rule: what waits in pendingUplink and on the chain is in transit, *)
(* and each is delivered or refused once.                                    *)
NumbersOf(frames) == [i \in DOMAIN frames |-> frames[i].n]

Up == INSTANCE FilteredChannel
  WITH transit <- [c \in Conns |-> NumbersOf(pending[c] \o uplink[c])],
       delivered <- received, turned <- raced

UplinkIsChannel == Up!Spec

(* What the header of modern-gateway.ts promises: nothing is delivered on a *)
(* connection whose login has ended.                                        *)
NothingAfterLogout == late = {}

=============================================================================
