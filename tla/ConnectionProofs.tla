------------------------- MODULE ConnectionProofs -------------------------
(***************************************************************************)
(* What a login may rely on while it is connected: for every set of users, *)
(* connections, sessions, streams and events and every limit, what the     *)
(* proxy promises of the frames it passes on; for every set of tokens,     *)
(* times and orders of the writes, the session table; for every set of     *)
(* profile ids and signatures, the routes of the user's own profiles.      *)
(*                                                                         *)
(* The three components share no state.                                    *)
(***************************************************************************)
EXTENDS MuxProxy, MCSessions, Routes,
        FiniteSetTheorems, SequenceTheorems, TLAPS

-----------------------------------------------------------------------------
(* The stream proxy. MuxInv says the same of each connection, so the proof *)
(* has one lemma per action for the connection that moves (ConnectKept to  *)
(* DownlinkKept) and one for all the others (SameKept).                    *)

(* The inductive invariant, one conjunct for each thing the proxy keeps in  *)
(* step, and the five properties.                                           *)
Frames(c) == Range(uplink[c]) \cup Range(pending[c])

(* The rule that is awaited is asked about the first frame of the chain. *)
Judged(c) ==
  judging[c] => uplink[c] # <<>> /\ Head(uplink[c]).type = "open" /\ Head(uplink[c]).endpoint.kind = "ruled"

(* What has reached the host was sent before what waits for the host side,  *)
(* and that before what is on the chain.                                    *)
Increasing(frames) == \A i, j \in DOMAIN frames : i < j => frames[i].n < frames[j].n
Ordered(c) ==
  c \notin raced =>
    /\ \A i, j \in DOMAIN received[c] : i < j => received[c][i] < received[c][j]
    /\ Increasing(pending[c]) /\ Increasing(uplink[c])
    /\ \A k \in Range(received[c]) : \A f \in Frames(c) : k < f.n
    /\ \A f \in Range(pending[c]), g \in Range(uplink[c]) : f.n < g.n

(* A stream that the client opened once has one endpoint, wherever it is    *)
(* known; unless the client cancels, whoever sends on it is still known.    *)
Traced(c) ==
  /\ c \notin reopened =>
       \A t \in Streams : \A x, y \in Endpoint : <<c, t, x>> \in opened /\ <<c, t, y>> \in opened => x = y
  /\ \A f \in Frames(c) : IF f.type = "open" THEN <<c, f.stream, f.endpoint>> \in opened ELSE c \in cancelled
  /\ \A t \in Streams :
       /\ endpoints[c][t] # None => <<c, t, endpoints[c][t]>> \in opened
       /\ hostStreams[c][t] # None =>
            <<c, t, hostStreams[c][t]>> \in opened /\ (c \in cancelled \/ endpoints[c][t] # None)
  /\ \A f \in Range(down[c]) :
       /\ <<c, f.stream, f.of>> \in opened /\ (c \in cancelled \/ endpoints[c][f.stream] # None)
       /\ f.content \in ContentOf(f.of) \/ (f.of.kind = "events" /\ f.content.type = "ready")

(* What the client may follow or answer concerns its user's sessions. *)
Seen(c) ==
  /\ \A t \in Streams : endpoints[c][t] # None /\ endpoints[c][t].kind = "follow" =>
       MaySee(Who(c), endpoints[c][t].session) \/ endpoints[c][t].session \in rolledBack
  /\ \A e \in events[c] : MaySee(Who(c), e.session) \/ e.session \in rolledBack

(* The first frame on a stream of events is `ready`. *)
ReadyFirst(c) ==
  c \notin cancelled \cup reopened /\ ~clientId[c] =>
    /\ \A i \in DOMAIN down[c] : down[c][i].content.type = "waterfall" =>
         \E j \in DOMAIN down[c] : j < i /\ down[c][j].content.type = "ready"
    /\ \A t \in Streams : hostStreams[c][t] # None /\ hostStreams[c][t].kind = "events" =>
         \E f \in Range(down[c]) : f.content.type = "ready"

(* How far the connection has come. *)
Phased(c) ==
  /\ phase[c] = "unused" => endpoints[c] = NoStreams /\ uplink[c] = <<>>
  /\ phase[c] # "unused" => login[c] \in Logins
  /\ phase[c] \in {"unused", "connecting"} =>
       /\ down[c] = <<>> /\ events[c] = {} /\ \A e \in Event : <<c, e>> \notin shown \cup cast
  /\ phase[c] = "open" => \A e \in events[c] : <<c, e>> \in shown

MuxInv ==
  /\ TypeOK
  /\ \A c \in Conns :
       /\ Judged(c) /\ Ordered(c) /\ Traced(c) /\ Seen(c) /\ ReadyFirst(c) /\ Phased(c)
  /\ OwnFramesOnly /\ NothingLost /\ NobodyStranded /\ AnswersWereShown

-----------------------------------------------------------------------------
LEMMA RangeAppend ==
  ASSUME NEW S, NEW s \in Seq(S), NEW x \in S
  PROVE  /\ Append(s, x) \in Seq(S) /\ Append(s, x) # <<>>
         /\ Range(Append(s, x)) = Range(s) \cup {x}
         /\ s # <<>> => Head(Append(s, x)) = Head(s)
<1>1. /\ Append(s, x) \in Seq(S) /\ Append(s, x) # <<>> /\ Len(Append(s, x)) = Len(s) + 1 /\ Len(s) \in Nat
      /\ \A i \in 1..Len(s) : Append(s, x)[i] = s[i]
      /\ Append(s, x)[Len(s) + 1] = x
  BY AppendProperties
<1>2. /\ Range(s) = {s[i] : i \in 1..Len(s)}
      /\ Range(Append(s, x)) = {Append(s, x)[i] : i \in 1..(Len(s) + 1)}
  BY <1>1, RangeEquality
<1>3. \A i \in 1..(Len(s) + 1) : i \in 1..Len(s) \/ i = Len(s) + 1
  BY <1>1
<1>4. \A i \in 1..Len(s) : i \in 1..(Len(s) + 1)
  BY <1>1
<1>5. Len(s) + 1 \in 1..(Len(s) + 1)
  BY <1>1
<1>6. Range(Append(s, x)) = Range(s) \cup {x}
  BY <1>1, <1>2, <1>3, <1>4, <1>5
<1>7. s # <<>> => Head(Append(s, x)) = Head(s)
  BY <1>1
<1> QED BY <1>1, <1>6, <1>7

LEMMA RangeTail ==
  ASSUME NEW S, NEW s \in Seq(S), s # <<>>
  PROVE  /\ Head(s) \in S /\ Tail(s) \in Seq(S) /\ Head(s) \in Range(s)
         /\ Range(s) = {Head(s)} \cup Range(Tail(s))
         /\ Range(Tail(s)) \subseteq Range(s)
<1>1. /\ Head(s) \in S /\ Tail(s) \in Seq(S) /\ Len(Tail(s)) = Len(s) - 1
      /\ \A i \in 1..Len(Tail(s)) : Tail(s)[i] = s[i + 1]
  BY HeadTailProperties
<1>2. Len(s) \in Nat \ {0} /\ Head(s) = s[1]
  BY EmptySeq
<1>3. Range(s) = {s[i] : i \in 1..Len(s)} /\ Range(Tail(s)) = {Tail(s)[i] : i \in 1..Len(Tail(s))}
  BY <1>1, RangeEquality
<1>4. \A i \in 1..Len(s) : i = 1 \/ (i - 1 \in 1..Len(Tail(s)) /\ Tail(s)[i - 1] = s[i])
  BY <1>1, <1>2
<1>5. \A i \in 1..Len(Tail(s)) : i + 1 \in 1..Len(s) /\ Tail(s)[i] = s[i + 1]
  BY <1>1, <1>2
<1>6. Range(s) \subseteq {Head(s)} \cup Range(Tail(s))
  BY <1>2, <1>3, <1>4
<1>7. Range(Tail(s)) \subseteq Range(s) /\ Head(s) \in Range(s)
  BY <1>2, <1>3, <1>5
<1> QED BY <1>1, <1>6, <1>7

-----------------------------------------------------------------------------
LEMMA InitTypeOK == Init => TypeOK
<1> SUFFICES ASSUME Init PROVE TypeOK
  OBVIOUS
<1> QED BY MuxAssumption, FS_EmptySet DEF Init, TypeOK, Table, NoStreams

LEMMA ConnectionTypeOK ==
  ASSUME TypeOK, NEW c \in Conns,
         \/ \E l \in Logins : Connect(c, l)
         \/ UpstreamOpens(c) \/ Shutdown(c) \/ AskRule(c)
         \/ \E f \in UpFrame : ClientSends(c, f)
  PROVE  TypeOK'
<1>1. ASSUME NEW l \in Logins, Connect(c, l) PROVE TypeOK'
  BY <1>1 DEF Connect, TypeOK, worldVars, uplinkVars, downVars, releaseVars
<1>2. CASE Shutdown(c)
  BY <1>2 DEF Shutdown, TypeOK, worldVars, uplinkVars, downVars, releaseVars, Table, NoStreams
<1>3. CASE UpstreamOpens(c)
  <2>1. uplink[c] \o pending[c] \in Seq(UpFrame)
    BY ConcatProperties DEF TypeOK
  <2> QED BY <1>3, <2>1 DEF UpstreamOpens, TypeOK, worldVars, downVars, releaseVars
<1>4. CASE AskRule(c)
  BY <1>4 DEF AskRule, TypeOK, worldVars, otherThanUp, releaseVars
<1>5. ASSUME NEW f \in UpFrame, ClientSends(c, f) PROVE TypeOK'
  <2>1. Append(uplink[c], f) \in Seq(UpFrame)
    BY DEF TypeOK
  <2>2. f.n \in 1..MaxSent /\ f.stream \in Streams /\ (f.type = "open" => f.endpoint \in Endpoint)
    BY DEF UpFrame
  <2>3. sent' \in [Conns -> 0..MaxSent] /\ uplink' \in [Conns -> Seq(UpFrame)]
    BY <1>5, <2>1, <2>2 DEF ClientSends, TypeOK
  <2>4. opened' \subseteq Conns \X Streams \X Endpoint /\ (reopened \cup cancelled)' \subseteq Conns
    <3>1. CASE f.type = "open"
      <4>1. <<c, f.stream, f.endpoint>> \in Conns \X Streams \X Endpoint
        BY <2>2, <3>1
      <4>2. /\ opened' = opened \cup {<<c, f.stream, f.endpoint>>} /\ UNCHANGED cancelled
            /\ reopened' \in {reopened, reopened \cup {c}}
        BY <1>5, <3>1 DEF ClientSends
      <4> QED BY <4>1, <4>2 DEF TypeOK
    <3>2. CASE f.type # "open"
      BY <1>5, <3>2 DEF ClientSends, TypeOK
    <3> QED BY <3>1, <3>2
  <2> QED BY <1>5, <2>3, <2>4 DEF ClientSends, TypeOK, worldVars, downVars, releaseVars
<1> QED BY <1>1, <1>2, <1>3, <1>4, <1>5

LEMMA UplinkTypeOK ==
  ASSUME TypeOK, NEW c \in Conns, OpenStream(c) \/ RuleAnswers(c) \/ CancelStream(c),
         uplink[c] # <<>>, judging[c] => Head(uplink[c]).type = "open"
  PROVE  TypeOK'
<1> DEFINE f == Head(uplink[c])
<1>1. /\ Tail(uplink[c]) \in Seq(UpFrame) /\ f \in UpFrame
      /\ f.n \in 1..MaxSent /\ f.stream \in Streams /\ (f.type = "open" => f.endpoint \in Endpoint)
  <2>1. Tail(uplink[c]) \in Seq(UpFrame) /\ f \in UpFrame
    BY RangeTail DEF TypeOK
  <2> QED BY <2>1 DEF UpFrame
<1>2. uplink' \in [Conns -> Seq(UpFrame)]
  BY <1>1 DEF TypeOK, TakeUp, OpenStream, RuleAnswers, CancelStream
<1>3. judging' \in [Conns -> BOOLEAN]
  BY DEF TypeOK, OpenStream, RuleAnswers, CancelStream
<1>4. endpoints' \in [Conns -> Table]
  <2>1. \A x \in Endpoint \cup {None} : Record(c, f.stream, x) => endpoints' \in [Conns -> Table]
    BY <1>1 DEF TypeOK, Table, Record
  <2>2. CASE CancelStream(c)
    BY <2>1, <2>2 DEF CancelStream
  <2>3. CASE f.type = "open"
    BY <1>1, <2>1, <2>3 DEF OpenStream, RuleAnswers, CancelStream, Admit, TypeOK
  <2> QED BY <2>2, <2>3 DEF OpenStream, RuleAnswers
<1>5. refused' \in [Conns -> SUBSET (1..MaxSent)]
  <2>1. UNCHANGED refused \/ refused' = [refused EXCEPT ![c] = @ \cup {f.n}]
    BY DEF OpenStream, RuleAnswers, CancelStream, Admit
  <2>2. refused \in [Conns -> SUBSET (1..MaxSent)] /\ refused[c] \cup {f.n} \in SUBSET (1..MaxSent)
    BY <1>1 DEF TypeOK
  <2> QED BY <2>1, <2>2
<1>6. ASSUME Forward(c, f)
      PROVE  /\ pending' \in [Conns -> Seq(UpFrame)] /\ received' \in [Conns -> Seq(1..MaxSent)]
             /\ hostStreams' \in [Conns -> Table] /\ down' \in [Conns -> Seq(DownFrame)]
  <2>1. Append(pending[c], f) \in Seq(UpFrame)
    BY <1>1 DEF TypeOK
  <2>2. Append(received[c], f.n) \in Seq(1..MaxSent)
    BY <1>1 DEF TypeOK
  <2>3. [hostStreams EXCEPT ![c][f.stream] = IF f.type = "open" THEN f.endpoint ELSE None] \in [Conns -> Table]
    BY <1>1 DEF TypeOK, Table
  <2>4. f.type = "open" =>
          Append(down[c], [stream |-> f.stream, of |-> f.endpoint, content |-> [type |-> "ready"]])
            \in Seq(DownFrame)
    <3>1. [type |-> "ready"] \in Content
      BY DEF Content
    <3>2. f.type = "open" =>
            [stream |-> f.stream, of |-> f.endpoint, content |-> [type |-> "ready"]] \in DownFrame
      BY <1>1, <3>1 DEF DownFrame
    <3> QED BY <3>2 DEF TypeOK
  <2>5. CASE phase[c] = "open"
    <3>1. /\ received' = [received EXCEPT ![c] = Append(@, f.n)] /\ UNCHANGED pending
          /\ hostStreams' = [hostStreams EXCEPT ![c][f.stream] = IF f.type = "open" THEN f.endpoint ELSE None]
          /\ \/ UNCHANGED down
             \/ /\ f.type = "open"
                /\ down' = [down EXCEPT ![c] = Append(@, [stream |-> f.stream, of |-> f.endpoint,
                                                         content |-> [type |-> "ready"]])]
      BY <1>6, <2>5 DEF Forward
    <3>2. down' \in [Conns -> Seq(DownFrame)]
      BY <2>4, <3>1 DEF TypeOK
    <3>3. received' \in [Conns -> Seq(1..MaxSent)]
      BY <2>2, <3>1 DEF TypeOK
    <3> QED BY <2>3, <3>1, <3>2, <3>3 DEF TypeOK
  <2>6. CASE phase[c] # "open"
    <3>1. pending' = [pending EXCEPT ![c] = Append(@, f)] /\ UNCHANGED <<received, hostStreams, down>>
      BY <1>6, <2>6 DEF Forward, Pend
    <3> QED BY <2>1, <3>1 DEF TypeOK
  <2> QED BY <2>5, <2>6
<1>7. UNCHANGED <<pending, received, hostStreams, down>> \/ Forward(c, f)
  BY DEF OpenStream, RuleAnswers, CancelStream, Admit
<1>8. /\ pending' \in [Conns -> Seq(UpFrame)] /\ received' \in [Conns -> Seq(1..MaxSent)]
      /\ hostStreams' \in [Conns -> Table] /\ down' \in [Conns -> Seq(DownFrame)]
  BY <1>6, <1>7 DEF TypeOK
<1>9. UNCHANGED otherThanUp
  BY DEF OpenStream, RuleAnswers, CancelStream
<1> QED BY <1>2, <1>3, <1>4, <1>5, <1>8, <1>9 DEF TypeOK, otherThanUp, worldVars, releaseVars

LEMMA HostSendsTypeOK ==
  ASSUME TypeOK, NEW c \in Conns, NEW stream \in Streams, NEW content \in Content,
         HostSends(c, stream, content)
  PROVE  TypeOK'
<1>1. hostStreams[c][stream] \in Endpoint
  BY DEF TypeOK, Table, HostSends
<1>2. [stream |-> stream, of |-> hostStreams[c][stream], content |-> content] \in DownFrame
  BY <1>1 DEF DownFrame
<1>3. down' \in [Conns -> Seq(DownFrame)] /\ hostSent' \in 0..MaxHost
  BY <1>2, MuxAssumption DEF TypeOK, HostSends
<1>4. content.type = "waterfall" => content.event \in Event
  BY DEF Content
<1>5. cast' \subseteq Conns \X Event
  BY <1>4 DEF TypeOK, HostSends
<1> QED BY <1>3, <1>5 DEF TypeOK, HostSends, worldVars, uplinkVars, releaseVars

LEMMA DownlinkTypeOK ==
  ASSUME TypeOK, NEW c \in Conns, Downlink(c)
  PROVE  TypeOK'
<1> DEFINE f == Head(down[c])
<1>1. /\ down[c] # <<>> /\ Tail(down[c]) \in Seq(DownFrame) /\ f \in DownFrame
      /\ f.stream \in Streams /\ f.content \in Content
      /\ down' = [down EXCEPT ![c] = Tail(@)]
  <2>1. down[c] # <<>> /\ down' = [down EXCEPT ![c] = Tail(@)]
    BY DEF Downlink, DropUnknown, DeliverItem, DeliverReady, HideWaterfall, ShowWaterfall, DeliverCancel,
           OnEvents, TakeDown
  <2>2. Tail(down[c]) \in Seq(DownFrame) /\ f \in DownFrame
    BY <2>1, RangeTail DEF TypeOK
  <2> QED BY <2>1, <2>2 DEF DownFrame
<1>2. down' \in [Conns -> Seq(DownFrame)]
  BY <1>1 DEF TypeOK
<1>3. /\ f.content.type = "item" => f.content.session \in Sessions
      /\ f.content.type \in {"waterfall", "cancel"} =>
           f.content.event \in Event /\ f.content.event.session \in Sessions
  BY <1>1 DEF Content, Event
<1>4. About(f.content) \subseteq Sessions
  BY <1>3 DEF About
<1>5. SendDown(c) => strays' \subseteq Conns \X Sessions /\ late' \subseteq Conns
  BY <1>4 DEF SendDown, TypeOK
<1>6. strays' \subseteq Conns \X Sessions /\ late' \subseteq Conns
  BY <1>5 DEF TypeOK, Downlink, DropUnknown, DeliverItem, DeliverReady, HideWaterfall, ShowWaterfall,
              DeliverCancel
<1>7. clientId' \in [Conns -> BOOLEAN]
  BY DEF TypeOK, Downlink, DropUnknown, DeliverItem, DeliverReady, HideWaterfall, ShowWaterfall,
         DeliverCancel
<1>8. (shown \cup releasing \cup released \cup unreleased \cup overLimit)' \subseteq Conns \X Event
  BY <1>3 DEF TypeOK, Downlink, DropUnknown, DeliverItem, DeliverReady, HideWaterfall, ShowWaterfall,
              DeliverCancel, OnEvents, releaseVars
<1>9. /\ events' \in [Conns -> SUBSET Event]
      /\ \A d \in Conns : IsFiniteSet(events'[d]) /\ Cardinality(events'[d]) <= MaxEvents
  <2>0. /\ events \in [Conns -> SUBSET Event]
        /\ \A d \in Conns : IsFiniteSet(events[d]) /\ Cardinality(events[d]) <= MaxEvents
    BY DEF TypeOK
  <2>1. CASE UNCHANGED events
    BY <2>0, <2>1
  <2>2. ASSUME NEW e \in Event, events' = [events EXCEPT ![c] = @ \cup {e}], ~(Cardinality(events[c]) >= MaxEvents)
        PROVE  /\ events' \in [Conns -> SUBSET Event]
               /\ \A d \in Conns : IsFiniteSet(events'[d]) /\ Cardinality(events'[d]) <= MaxEvents
    <3>1. events'[c] = events[c] \cup {e} /\ \A d \in Conns \ {c} : events'[d] = events[d]
      BY <2>0, <2>2
    <3>2. /\ IsFiniteSet(events'[c]) /\ Cardinality(events[c]) \in Nat
          /\ Cardinality(events'[c]) \in {Cardinality(events[c]), Cardinality(events[c]) + 1}
      BY <2>0, <3>1, FS_AddElement, FS_CardinalityType
    <3>3. Cardinality(events'[c]) <= MaxEvents
      BY <2>2, <3>2, MuxAssumption
    <3> QED BY <2>0, <2>2, <3>1, <3>2, <3>3
  <2>3. ASSUME NEW e \in Event, events' = [events EXCEPT ![c] = @ \ {e}]
        PROVE  /\ events' \in [Conns -> SUBSET Event]
               /\ \A d \in Conns : IsFiniteSet(events'[d]) /\ Cardinality(events'[d]) <= MaxEvents
    <3>1. events'[c] = events[c] \ {e} /\ \A d \in Conns \ {c} : events'[d] = events[d]
      BY <2>0, <2>3
    <3>2. IsFiniteSet(events[c]) /\ events'[c] \in SUBSET events[c] /\ Cardinality(events[c]) <= MaxEvents
      BY <2>0, <3>1
    <3>3. IsFiniteSet(events'[c]) /\ Cardinality(events'[c]) <= Cardinality(events[c])
      BY <3>2, FS_Subset
    <3>4. Cardinality(events'[c]) \in Nat /\ Cardinality(events[c]) \in Nat
      BY <3>2, <3>3, FS_CardinalityType
    <3>5. Cardinality(events'[c]) <= MaxEvents
      BY <3>2, <3>3, <3>4, MuxAssumption
    <3> QED BY <2>0, <2>3, <3>1, <3>3, <3>5
  <2> QED BY <1>3, <2>1, <2>2, <2>3
          DEF Downlink, DropUnknown, DeliverItem, DeliverReady, HideWaterfall, ShowWaterfall,
              DeliverCancel, OnEvents
<1>10. UNCHANGED otherThanDown
  BY DEF Downlink, DropUnknown, DeliverItem, DeliverReady, HideWaterfall, ShowWaterfall, DeliverCancel
<1> QED BY <1>2, <1>6, <1>7, <1>8, <1>9, <1>10 DEF TypeOK, otherThanDown, worldVars, uplinkVars

LEMMA WorldTypeOK ==
  ASSUME TypeOK,
         \/ \E r \in releasing : ReleaseAnswered(r) \/ ReleaseFails(r)
         \/ \E l \in Logins : LogOut(l) \/ \E e \in Event : Answer(l, e)
         \/ \E s \in Sessions : ClaimFails(s) \/ \E u \in Users : Claim(s, u)
         \/ UNCHANGED vars
  PROVE  TypeOK'
<1>1. ASSUME NEW l \in Logins, LogOut(l) \/ \E e \in Event : Answer(l, e) PROVE TypeOK'
  BY <1>1 DEF LogOut, Answer, TypeOK, worldVars, uplinkVars, downVars, releaseVars
<1>2. ASSUME NEW s \in Sessions, ClaimFails(s) \/ \E u \in Users : Claim(s, u) PROVE TypeOK'
  BY <1>2 DEF ClaimFails, Claim, TypeOK, uplinkVars, downVars, releaseVars
<1>4. ASSUME NEW r \in releasing, ReleaseAnswered(r) \/ ReleaseFails(r) PROVE TypeOK'
  BY <1>4 DEF ReleaseAnswered, ReleaseFails, TypeOK, otherThanDown, worldVars, uplinkVars
<1>3. CASE UNCHANGED vars
  BY <1>3 DEF vars, TypeOK, worldVars, uplinkVars, downVars, releaseVars
<1> QED BY <1>1, <1>2, <1>3, <1>4

-----------------------------------------------------------------------------
(* The properties of one connection. *)
Own(c) == \A s \in Sessions : <<c, s>> \in strays => c \in reopened \/ s \in rolledBack
Lost(c) ==
  /\ 1..sent[c] = NumbersIn(uplink[c]) \cup NumbersIn(pending[c]) \cup Range(received[c]) \cup refused[c]
  /\ phase[c] = "open" => pending[c] = <<>>
Waiting(c, e) == \E f \in Range(down[c]) : f.content = [type |-> "waterfall", event |-> e]
(* Hidden events: the release of the recipient is under way or over. *)
Hidden == releasing \cup released \cup unreleased
Stranded(c) ==
  \A e \in Event : <<c, e>> \in cast =>
    \/ <<c, e>> \in shown \cup Hidden \cup overLimit \/ Waiting(c, e)
    \/ phase[c] = "closed" \/ c \in cancelled \cup reopened

UpInv(c) == Judged(c) /\ Ordered(c) /\ Lost(c)
DownInv(c) == Seen(c) /\ ReadyFirst(c) /\ Phased(c) /\ Own(c) /\ Stranded(c)
ConnInv(c) == UpInv(c) /\ Traced(c) /\ DownInv(c)

LEMMA MuxInvIsConnInv == TypeOK => (MuxInv <=> (\A c \in Conns : ConnInv(c)) /\ AnswersWereShown)
<1> SUFFICES ASSUME TypeOK PROVE MuxInv <=> (\A c \in Conns : ConnInv(c)) /\ AnswersWereShown
  OBVIOUS
<1>1. OwnFramesOnly <=> \A c \in Conns : Own(c)
  BY DEF OwnFramesOnly, Own
<1>2. NothingLost <=> \A c \in Conns : Lost(c)
  BY DEF NothingLost, Lost
<1>3. \A c \in Conns : Range(down[c]) = {down[c][i] : i \in DOMAIN down[c]}
  BY DEF Range
<1>4. NobodyStranded <=> \A c \in Conns : Stranded(c)
  BY <1>3 DEF NobodyStranded, Served, Stranded, Hidden, Waiting
<1> QED BY <1>1, <1>2, <1>4 DEF MuxInv, ConnInv, UpInv, DownInv

(* What a connection owns is as it was. *)
SameUp(d) ==
  /\ phase'[d] = phase[d] /\ sent'[d] = sent[d] /\ uplink'[d] = uplink[d] /\ judging'[d] = judging[d]
  /\ pending'[d] = pending[d] /\ received'[d] = received[d] /\ refused'[d] = refused[d]
  /\ d \in raced' <=> d \in raced
SameTraces(d) ==
  /\ endpoints'[d] = endpoints[d] /\ hostStreams'[d] = hostStreams[d]
  /\ \A t \in Streams, x \in Endpoint : <<d, t, x>> \in opened' <=> <<d, t, x>> \in opened
  /\ d \in reopened' <=> d \in reopened
  /\ d \in cancelled' <=> d \in cancelled
SameDown(d) ==
  /\ phase'[d] = phase[d] /\ login'[d] = login[d]
  /\ down'[d] = down[d] /\ clientId'[d] = clientId[d] /\ events'[d] = events[d]
  /\ \A e \in Event :
       /\ <<d, e>> \in shown' <=> <<d, e>> \in shown
       /\ <<d, e>> \in cast' <=> <<d, e>> \in cast
       /\ <<d, e>> \in Hidden' <=> <<d, e>> \in Hidden
       /\ <<d, e>> \in overLimit' <=> <<d, e>> \in overLimit
  /\ \A s \in Sessions : <<d, s>> \in strays' <=> <<d, s>> \in strays
Same(d) == SameUp(d) /\ SameTraces(d) /\ SameDown(d)

(* Who may see a session still may, unless its claim was taken back. *)
WorldKept ==
  /\ UNCHANGED userOf /\ rolledBack \subseteq rolledBack'
  /\ \A u \in Users, s \in Sessions : MaySee(u, s) => MaySee(u, s)' \/ s \in rolledBack'

LEMMA SameUpKept == ASSUME NEW d \in Conns, SameUp(d), UpInv(d) PROVE UpInv(d)'
<1>1. Judged(d)'
  BY DEF SameUp, UpInv, Judged
<1>2. Ordered(d)'
  BY DEF SameUp, UpInv, Ordered, Frames, Increasing
<1>3. Lost(d)'
  BY DEF SameUp, UpInv, Lost, NumbersIn
<1> QED BY <1>1, <1>2, <1>3 DEF UpInv

LEMMA TypesOfTraces ==
  ASSUME TypeOK, NEW d \in Conns
  PROVE  /\ \A t \in Streams : endpoints[d][t] \in Endpoint \cup {None} /\ hostStreams[d][t] \in Endpoint \cup {None}
         /\ \A f \in Range(down[d]) : f \in DownFrame /\ f.stream \in Streams /\ f.of \in Endpoint /\ f.content \in Content
         /\ \A f \in Frames(d) : f \in UpFrame /\ f.stream \in Streams /\ (f.type = "open" => f.endpoint \in Endpoint)
<1>1. \A t \in Streams : endpoints[d][t] \in Endpoint \cup {None} /\ hostStreams[d][t] \in Endpoint \cup {None}
  BY DEF TypeOK, Table
<1>2. down[d] \in Seq(DownFrame) /\ uplink[d] \in Seq(UpFrame) /\ pending[d] \in Seq(UpFrame)
  BY DEF TypeOK
<1>3. Range(down[d]) \subseteq DownFrame /\ Frames(d) \subseteq UpFrame
  BY <1>2, RangeOfSeq DEF Frames
<1>4. \A f \in DownFrame : f.stream \in Streams /\ f.of \in Endpoint /\ f.content \in Content
  BY DEF DownFrame
<1>5. \A f \in UpFrame : f.stream \in Streams /\ (f.type = "open" => f.endpoint \in Endpoint)
  BY DEF UpFrame
<1> QED BY <1>1, <1>3, <1>4, <1>5

LEMMA SameTracesKept ==
  ASSUME TypeOK, NEW d \in Conns, SameUp(d), SameTraces(d), down'[d] = down[d], Traced(d)
  PROVE  Traced(d)'
<1>1. Frames(d)' = Frames(d)
  BY DEF Frames, SameUp
<1>2. \A t \in Streams : endpoints[d][t] \in Endpoint \cup {None} /\ hostStreams[d][t] \in Endpoint \cup {None}
  BY TypesOfTraces
<1>3. \A f \in Range(down[d]) : f.stream \in Streams /\ f.of \in Endpoint
  BY TypesOfTraces
<1>4. \A f \in Frames(d) : f.stream \in Streams /\ (f.type = "open" => f.endpoint \in Endpoint)
  BY TypesOfTraces
<1> QED BY <1>1, <1>2, <1>3, <1>4 DEF SameTraces, Traced

LEMMA SeenKept ==
  ASSUME TypeOK, NEW d \in Conns, WorldKept, Seen(d), Phased(d),
         login'[d] = login[d] /\ endpoints'[d] = endpoints[d] /\ events'[d] = events[d]
  PROVE  Seen(d)'
<1>1. CASE phase[d] = "unused"
  <2>1. endpoints[d] = NoStreams /\ events[d] = {}
    BY <1>1 DEF Phased
  <2> QED BY <2>1 DEF Seen, NoStreams
<1>2. CASE phase[d] # "unused"
  <2>1. Who(d) \in Users /\ Who(d)' = Who(d)
    BY <1>2 DEF Phased, Who, TypeOK, WorldKept
  <2>2. \A t \in Streams : endpoints[d][t] # None /\ endpoints[d][t].kind = "follow" =>
          endpoints[d][t].session \in Sessions
    <3>1. \A x \in Endpoint : x.kind = "follow" => x.session \in Sessions
      BY DEF Endpoint
    <3> QED BY <3>1, TypesOfTraces
  <2>3. \A e \in events[d] : e.session \in Sessions
    BY DEF TypeOK, Event
  <2> QED BY <2>1, <2>2, <2>3 DEF Seen, WorldKept
<1> QED BY <1>1, <1>2

LEMMA SameKept ==
  ASSUME TypeOK, NEW d \in Conns, Same(d), WorldKept, ConnInv(d)
  PROVE  ConnInv(d)'
<1>1. UpInv(d)'
  BY SameUpKept DEF Same, ConnInv
<1>2. Traced(d)'
  BY SameTracesKept DEF Same, SameDown, ConnInv
<1>3. Seen(d)'
  BY SeenKept DEF Same, SameTraces, SameDown, ConnInv, DownInv
<1>4. ReadyFirst(d)'
  BY DEF Same, SameTraces, SameDown, ConnInv, DownInv, ReadyFirst
<1>5. Phased(d)'
  <2>1. events[d] \subseteq Event
    BY DEF TypeOK
  <2> QED BY <2>1 DEF Same, SameUp, SameTraces, SameDown, ConnInv, DownInv, Phased
<1>6. Own(d)'
  BY DEF Same, SameTraces, SameDown, ConnInv, DownInv, Own, WorldKept
<1>7. Stranded(d)'
  BY DEF Same, SameTraces, SameDown, ConnInv, DownInv, Stranded, Waiting
<1> QED BY <1>1, <1>2, <1>3, <1>4, <1>5, <1>6, <1>7 DEF ConnInv, DownInv

ConnStep(c) ==
  \/ \E l \in Logins : Connect(c, l)
  \/ UpstreamOpens(c) \/ Shutdown(c)
  \/ \E f \in UpFrame : ClientSends(c, f)
  \/ Uplink(c)
  \/ \E stream \in Streams, content \in Content : HostSends(c, stream, content)
  \/ Downlink(c)

(* A step of one connection is none of another. *)
LEMMA OtherSame ==
  ASSUME TypeOK, NEW c \in Conns, ConnStep(c), NEW d \in Conns \ {c}
  PROVE  Same(d) /\ WorldKept
<1>0. UNCHANGED worldVars => WorldKept
  BY DEF worldVars, WorldKept, MaySee, OwnerOf
<1>1. ASSUME NEW l \in Logins, Connect(c, l) PROVE Same(d) /\ WorldKept
  BY <1>0, <1>1 DEF TypeOK, Connect, uplinkVars, downVars, releaseVars, Same, SameUp, SameTraces, SameDown, Hidden
<1>2. CASE UpstreamOpens(c)
  BY <1>0, <1>2 DEF TypeOK, UpstreamOpens, downVars, releaseVars, Same, SameUp, SameTraces, SameDown, Hidden
<1>3. CASE Shutdown(c)
  BY <1>0, <1>3 DEF TypeOK, Shutdown, uplinkVars, downVars, releaseVars, Same, SameUp, SameTraces, SameDown, Hidden
<1>4. ASSUME NEW f \in UpFrame, ClientSends(c, f) PROVE Same(d) /\ WorldKept
  <2>1. SameUp(d)
    BY <1>4 DEF TypeOK, ClientSends, SameUp
  <2>2. SameTraces(d)
    <3>1. UNCHANGED <<endpoints, hostStreams>>
      BY <1>4 DEF ClientSends
    <3>2. \/ opened' = opened
          \/ opened' = opened \cup {<<c, f.stream, f.endpoint>>}
      BY <1>4 DEF ClientSends
    <3>3. reopened' \in {reopened, reopened \cup {c}} /\ cancelled' \in {cancelled, cancelled \cup {c}}
      BY <1>4 DEF ClientSends
    <3> QED BY <3>1, <3>2, <3>3 DEF SameTraces
  <2>3. SameDown(d)
    BY <1>4 DEF ClientSends, downVars, releaseVars, SameDown, Hidden
  <2> QED BY <1>0, <1>4, <2>1, <2>2, <2>3 DEF ClientSends, Same
<1>5. CASE AskRule(c)
  BY <1>0, <1>5 DEF TypeOK, AskRule, otherThanUp, releaseVars, Same, SameUp, SameTraces, SameDown, Hidden
<1>6. CASE OpenStream(c) \/ RuleAnswers(c) \/ CancelStream(c)
  <2>1. UNCHANGED otherThanUp
    BY <1>6 DEF OpenStream, RuleAnswers, CancelStream
  <2>2. uplink'[d] = uplink[d] /\ judging'[d] = judging[d]
    BY <1>6 DEF TypeOK, OpenStream, RuleAnswers, CancelStream, TakeUp
  <2>3. /\ endpoints'[d] = endpoints[d] /\ refused'[d] = refused[d]
        /\ UNCHANGED <<pending, received, hostStreams, down>> \/ Forward(c, Head(uplink[c]))
    BY <1>6 DEF TypeOK, OpenStream, RuleAnswers, CancelStream, Admit, Record
  <2>4. Forward(c, Head(uplink[c])) =>
          /\ pending'[d] = pending[d] /\ received'[d] = received[d]
          /\ hostStreams'[d] = hostStreams[d] /\ down'[d] = down[d]
    BY DEF TypeOK, Forward, Pend
  <2> QED BY <1>0, <2>1, <2>2, <2>3, <2>4 DEF otherThanUp, releaseVars, Same, SameUp, SameTraces, SameDown, Hidden
<1>7. ASSUME NEW stream \in Streams, NEW content \in Content, HostSends(c, stream, content)
      PROVE  Same(d) /\ WorldKept
  BY <1>0, <1>7 DEF TypeOK, HostSends, uplinkVars, releaseVars, Same, SameUp, SameTraces, SameDown, Hidden
<1>8. CASE Downlink(c)
  <2>1. UNCHANGED otherThanDown
    BY <1>8 DEF Downlink, DropUnknown, DeliverItem, DeliverReady, HideWaterfall, ShowWaterfall, DeliverCancel
  <2>2. down'[d] = down[d]
    BY <1>8 DEF TypeOK, Downlink, DropUnknown, DeliverItem, DeliverReady, HideWaterfall, ShowWaterfall,
                DeliverCancel, OnEvents, TakeDown
  <2>3. \A s \in Sessions : <<d, s>> \in strays' <=> <<d, s>> \in strays
    BY <1>8 DEF Downlink, DropUnknown, DeliverItem, DeliverReady, HideWaterfall, ShowWaterfall,
                DeliverCancel, OnEvents, SendDown
  <2>4. clientId'[d] = clientId[d] /\ events'[d] = events[d]
    BY <1>8 DEF TypeOK, Downlink, DropUnknown, DeliverItem, DeliverReady, HideWaterfall, ShowWaterfall,
                DeliverCancel, OnEvents
  <2>5. \A e \in Event :
          /\ <<d, e>> \in shown' <=> <<d, e>> \in shown
          /\ <<d, e>> \in Hidden' <=> <<d, e>> \in Hidden
          /\ <<d, e>> \in overLimit' <=> <<d, e>> \in overLimit
    BY <1>8 DEF Downlink, DropUnknown, DeliverItem, DeliverReady, HideWaterfall, ShowWaterfall,
                DeliverCancel, OnEvents, releaseVars, Hidden
  <2> QED BY <1>0, <2>1, <2>2, <2>3, <2>4, <2>5
          DEF otherThanDown, uplinkVars, Same, SameUp, SameTraces, SameDown
<1> QED BY <1>1, <1>2, <1>3, <1>4, <1>5, <1>6, <1>7, <1>8 DEF ConnStep, Uplink

(* The steps of no connection. *)
LEMMA WorldSame ==
  ASSUME TypeOK, NEW d \in Conns,
         \/ \E r \in releasing : ReleaseAnswered(r) \/ ReleaseFails(r)
         \/ \E l \in Logins : LogOut(l) \/ \E e \in Event : Answer(l, e)
         \/ \E s \in Sessions : ClaimFails(s) \/ \E u \in Users : Claim(s, u)
         \/ UNCHANGED vars
  PROVE  Same(d) /\ WorldKept
<1>1. ASSUME NEW r \in releasing, ReleaseAnswered(r) \/ ReleaseFails(r) PROVE Same(d) /\ WorldKept
  BY <1>1 DEF ReleaseAnswered, ReleaseFails, otherThanDown, worldVars, uplinkVars, Same, SameUp, SameTraces,
              SameDown, Hidden, WorldKept, MaySee, OwnerOf
<1>2. ASSUME UNCHANGED <<phase, login, uplinkVars, raced, hostStreams, downVars>> PROVE Same(d)
  BY <1>2 DEF uplinkVars, downVars, releaseVars, Same, SameUp, SameTraces, SameDown, Hidden
<1>3. ASSUME UNCHANGED <<userOf, owners, rolledBack>> PROVE WorldKept
  BY <1>3 DEF WorldKept, MaySee, OwnerOf
<1>4. ASSUME NEW s \in Sessions, ClaimFails(s) PROVE WorldKept
  BY <1>4 DEF TypeOK, ClaimFails, WorldKept, MaySee, OwnerOf
<1>5. ASSUME NEW s \in Sessions, NEW u \in Users, Claim(s, u) PROVE WorldKept
  BY <1>5 DEF TypeOK, Claim, WorldKept, MaySee, OwnerOf
<1> QED BY <1>1, <1>2, <1>3, <1>4, <1>5 DEF LogOut, Answer, ClaimFails, Claim, vars, worldVars

-----------------------------------------------------------------------------
(* The connection opens and closes. *)
LEMMA SetsOfSequences ==
  ASSUME TypeOK, NEW c \in Conns
  PROVE  /\ uplink[c] \in Seq(UpFrame) /\ pending[c] \in Seq(UpFrame)
         /\ down[c] \in Seq(DownFrame) /\ received[c] \in Seq(1..MaxSent)
BY DEF TypeOK

LEMMA RangeOfEmpty == Range(<<>>) = {} /\ NumbersIn(<<>>) = {} /\ DOMAIN <<>> = {}
<1>1. DOMAIN <<>> = {}
  OBVIOUS
<1> QED BY <1>1 DEF Range, NumbersIn

LEMMA ConnectKept ==
  ASSUME TypeOK, NEW c \in Conns, NEW l \in Logins, Connect(c, l), ConnInv(c)
  PROVE  ConnInv(c)'
<1>1. /\ phase[c] = "unused" /\ phase'[c] = "connecting" /\ login'[c] = l
      /\ UNCHANGED <<worldVars, uplinkVars, raced, hostStreams, downVars>>
  BY DEF Connect, TypeOK
<1>2. endpoints[c] = NoStreams /\ uplink[c] = <<>> /\ down[c] = <<>> /\ events[c] = {}
      /\ \A e \in Event : <<c, e>> \notin shown \cup cast
  BY <1>1 DEF ConnInv, DownInv, Phased
<1>3. UpInv(c)'
  <2>1. Judged(c)'
    BY <1>1 DEF uplinkVars, ConnInv, UpInv, Judged
  <2>2. Ordered(c)'
    BY <1>1 DEF uplinkVars, ConnInv, UpInv, Ordered, Frames, Increasing
  <2>3. Lost(c)'
    BY <1>1 DEF uplinkVars, ConnInv, UpInv, Lost, NumbersIn
  <2> QED BY <2>1, <2>2, <2>3 DEF UpInv
<1>4. Traced(c)'
  BY <1>1 DEF uplinkVars, downVars, ConnInv, Traced, Frames
<1>5. Seen(c)'
  BY <1>1, <1>2 DEF uplinkVars, downVars, Seen, NoStreams
<1>6. ReadyFirst(c)'
  BY <1>1 DEF uplinkVars, downVars, ConnInv, DownInv, ReadyFirst
<1>7. Phased(c)'
  BY <1>1, <1>2 DEF uplinkVars, downVars, Phased
<1>8. Own(c)'
  BY <1>1 DEF uplinkVars, downVars, worldVars, ConnInv, DownInv, Own
<1>9. Stranded(c)'
  BY <1>1, <1>2 DEF uplinkVars, downVars, releaseVars, Stranded, Hidden
<1> QED BY <1>3, <1>4, <1>5, <1>6, <1>7, <1>8, <1>9 DEF ConnInv, DownInv

LEMMA ShutdownKept ==
  ASSUME TypeOK, NEW c \in Conns, Shutdown(c), ConnInv(c)
  PROVE  ConnInv(c)'
<1>1. /\ phase[c] \in {"connecting", "open"} /\ phase'[c] = "closed" /\ hostStreams'[c] = NoStreams
      /\ UNCHANGED <<worldVars, login, uplinkVars, raced, downVars>>
  BY DEF Shutdown, TypeOK
<1>2. UpInv(c)'
  <2>1. Judged(c)'
    BY <1>1 DEF uplinkVars, ConnInv, UpInv, Judged
  <2>2. Ordered(c)'
    BY <1>1 DEF uplinkVars, ConnInv, UpInv, Ordered, Frames, Increasing
  <2>3. Lost(c)'
    BY <1>1 DEF uplinkVars, ConnInv, UpInv, Lost, NumbersIn
  <2> QED BY <2>1, <2>2, <2>3 DEF UpInv
<1>3. Traced(c)'
  BY <1>1 DEF uplinkVars, downVars, ConnInv, Traced, Frames, NoStreams
<1>4. Seen(c)'
  BY <1>1 DEF uplinkVars, downVars, worldVars, ConnInv, DownInv, Seen, Who, MaySee, OwnerOf
<1>5. ReadyFirst(c)'
  BY <1>1 DEF uplinkVars, downVars, ConnInv, DownInv, ReadyFirst, NoStreams
<1>6. Phased(c)'
  BY <1>1 DEF ConnInv, DownInv, Phased
<1>7. Own(c)'
  BY <1>1 DEF uplinkVars, downVars, worldVars, ConnInv, DownInv, Own
<1>8. Stranded(c)'
  BY <1>1 DEF Stranded
<1> QED BY <1>2, <1>3, <1>4, <1>5, <1>6, <1>7, <1>8 DEF ConnInv, DownInv

(* The pending frames join the chain.  It is empty, or a rule is awaited.   *)
LEMMA UpstreamOpensKept ==
  ASSUME TypeOK, NEW c \in Conns, UpstreamOpens(c), ConnInv(c)
  PROVE  ConnInv(c)'
<1>1. /\ phase[c] = "connecting" /\ phase'[c] = "open"
      /\ uplink'[c] = uplink[c] \o pending[c] /\ pending'[c] = <<>>
      /\ uplink[c] = <<>> \/ judging[c]
      /\ c \in raced' <=> c \in raced \/ judging[c]
      /\ UNCHANGED <<worldVars, login, sent, judging, endpoints, received, refused, opened, reopened, cancelled,
                     hostStreams, downVars>>
  BY DEF UpstreamOpens, TypeOK
<1>2. Range(uplink[c] \o pending[c]) = Range(uplink[c]) \cup Range(pending[c])
  BY SetsOfSequences, RangeConcatenation
<1>3. Frames(c)' = Frames(c)
  BY <1>1, <1>2, RangeOfEmpty DEF Frames
<1>4. Judged(c)'
  <2>1. uplink[c] # <<>> => uplink'[c] # <<>> /\ Head(uplink'[c]) = Head(uplink[c])
    <3> DEFINE s == uplink[c]
               t == pending[c]
    <3>1. s \in Seq(UpFrame) /\ t \in Seq(UpFrame) /\ Len(s) \in Nat /\ Len(t) \in Nat
      BY SetsOfSequences
    <3>2. /\ s \o t \in Seq(UpFrame) /\ Len(s \o t) = Len(s) + Len(t)
          /\ \A i \in 1..Len(s) + Len(t) : (s \o t)[i] = IF i <= Len(s) THEN s[i] ELSE t[i - Len(s)]
      BY <3>1, ConcatProperties
    <3> HIDE DEF s, t
    <3>3. s # <<>> => Len(s) > 0
      BY <3>1
    <3>4. s # <<>> => (s \o t)[1] = s[1] /\ Len(s \o t) > 0
      BY <3>1, <3>2, <3>3
    <3>5. s # <<>> => s \o t # <<>> /\ Head(s \o t) = Head(s)
      BY <3>1, <3>2, <3>4
    <3> QED BY <1>1, <3>5 DEF s, t
  <2> QED BY <1>1, <2>1 DEF ConnInv, UpInv, Judged
<1>5. Ordered(c)'
  <2> SUFFICES ASSUME c \notin raced' PROVE Ordered(c)'
    BY DEF Ordered
  <2>1. uplink[c] = <<>> /\ c \notin raced
    BY <1>1
  <2>2. uplink'[c] = pending[c]
    BY <1>1, <2>1, SetsOfSequences, ConcatEmptySeq
  <2>3. Increasing(pending[c]) /\ \A k \in Range(received[c]) : \A f \in Frames(c) : k < f.n
    BY <2>1 DEF ConnInv, UpInv, Ordered
  <2>4. \A i, j \in DOMAIN received[c] : i < j => received[c][i] < received[c][j]
    BY <2>1 DEF ConnInv, UpInv, Ordered
  <2>5. Increasing(uplink[c])' /\ Increasing(pending[c])'
    BY <1>1, <2>2, <2>3 DEF Increasing
  <2> QED BY <1>1, <1>3, <2>3, <2>4, <2>5, RangeOfEmpty DEF Ordered
<1>6. Lost(c)'
  BY <1>1, <1>2, RangeOfEmpty DEF ConnInv, UpInv, Lost, NumbersIn
<1>7. Traced(c)'
  BY <1>1, <1>3 DEF downVars, ConnInv, Traced
<1>8. Seen(c)'
  BY <1>1 DEF downVars, worldVars, ConnInv, DownInv, Seen, Who, MaySee, OwnerOf
<1>9. ReadyFirst(c)'
  BY <1>1 DEF downVars, ConnInv, DownInv, ReadyFirst
<1>10. Phased(c)'
  BY <1>1 DEF downVars, ConnInv, DownInv, Phased
<1>11. Own(c)'
  BY <1>1 DEF downVars, worldVars, ConnInv, DownInv, Own
<1>12. Stranded(c)'
  BY <1>1 DEF downVars, releaseVars, ConnInv, DownInv, Stranded, Hidden, Phased
<1> QED BY <1>4, <1>5, <1>6, <1>7, <1>8, <1>9, <1>10, <1>11, <1>12 DEF ConnInv, UpInv, DownInv

-----------------------------------------------------------------------------
(* The frames of the client. *)
LEMMA NumbersOfFrames ==
  ASSUME TypeOK, NEW c \in Conns
  PROVE  /\ sent[c] \in Nat /\ \A f \in UpFrame : f.n \in Nat
         /\ Range(uplink[c]) \subseteq UpFrame /\ Range(pending[c]) \subseteq UpFrame
         /\ Range(received[c]) \subseteq 1..MaxSent
<1>1. Range(uplink[c]) \subseteq UpFrame /\ Range(pending[c]) \subseteq UpFrame /\ Range(received[c]) \subseteq 1..MaxSent
  BY SetsOfSequences, RangeOfSeq
<1>2. sent[c] \in Nat /\ \A f \in UpFrame : f.n \in Nat
  BY MuxAssumption DEF TypeOK, UpFrame
<1> QED BY <1>1, <1>2

LEMMA IncreasingAppend ==
  ASSUME NEW s \in Seq(UpFrame), NEW x \in UpFrame, Increasing(s), \A f \in Range(s) : f.n < x.n
  PROVE  Increasing(Append(s, x))
<1>1. /\ Len(Append(s, x)) = Len(s) + 1 /\ Len(s) \in Nat
      /\ DOMAIN Append(s, x) = 1..(Len(s) + 1) /\ DOMAIN s = 1..Len(s)
      /\ \A i \in 1..Len(s) : Append(s, x)[i] = s[i]
      /\ Append(s, x)[Len(s) + 1] = x
  BY AppendProperties
<1>2. \A i \in 1..Len(s) : s[i] \in Range(s)
  BY <1>1 DEF Range
<1> SUFFICES ASSUME NEW i \in 1..(Len(s) + 1), NEW j \in 1..(Len(s) + 1), i < j
             PROVE  Append(s, x)[i].n < Append(s, x)[j].n
  BY <1>1 DEF Increasing
<1>3. i \in 1..Len(s) /\ (j \in 1..Len(s) \/ j = Len(s) + 1)
  BY <1>1
<1> QED BY <1>1, <1>2, <1>3 DEF Increasing

LEMMA IncreasingTail ==
  ASSUME NEW s \in Seq(UpFrame), s # <<>>, Increasing(s)
  PROVE  Increasing(Tail(s)) /\ \A f \in Range(Tail(s)) : Head(s).n < f.n
<1>1. /\ Tail(s) \in Seq(UpFrame) /\ Len(Tail(s)) = Len(s) - 1 /\ Len(s) \in Nat \ {0} /\ Head(s) = s[1]
      /\ \A i \in 1..Len(Tail(s)) : Tail(s)[i] = s[i + 1]
  BY HeadTailProperties, EmptySeq
<1>2. DOMAIN Tail(s) = 1..(Len(s) - 1) /\ DOMAIN s = 1..Len(s)
  BY <1>1
<1>3. \A i \in 1..(Len(s) - 1) : i + 1 \in 1..Len(s) /\ 1 < i + 1 /\ Tail(s)[i] = s[i + 1]
  BY <1>1
<1>4. Increasing(Tail(s))
  <2> SUFFICES ASSUME NEW i \in 1..(Len(s) - 1), NEW j \in 1..(Len(s) - 1), i < j
               PROVE  Tail(s)[i].n < Tail(s)[j].n
    BY <1>2 DEF Increasing
  <2>1. i + 1 < j + 1
    BY <1>1
  <2> QED BY <1>2, <1>3, <2>1 DEF Increasing
<1>5. \A f \in Range(Tail(s)) : Head(s).n < f.n
  <2> SUFFICES ASSUME NEW i \in 1..(Len(s) - 1) PROVE Head(s).n < Tail(s)[i].n
    BY <1>2 DEF Range
  <2>1. 1 \in 1..Len(s)
    BY <1>1
  <2> QED BY <1>1, <1>2, <1>3, <2>1 DEF Increasing
<1> QED BY <1>4, <1>5

LEMMA AscendingAppend ==
  ASSUME NEW S, NEW s \in Seq(S), NEW x \in S, \A i, j \in DOMAIN s : i < j => s[i] < s[j],
         \A k \in Range(s) : k < x
  PROVE  \A i, j \in DOMAIN Append(s, x) : i < j => Append(s, x)[i] < Append(s, x)[j]
<1>1. /\ Len(Append(s, x)) = Len(s) + 1 /\ Len(s) \in Nat
      /\ DOMAIN Append(s, x) = 1..(Len(s) + 1) /\ DOMAIN s = 1..Len(s)
      /\ \A i \in 1..Len(s) : Append(s, x)[i] = s[i]
      /\ Append(s, x)[Len(s) + 1] = x
  BY AppendProperties
<1>2. \A i \in 1..Len(s) : s[i] \in Range(s)
  BY <1>1 DEF Range
<1> SUFFICES ASSUME NEW i \in 1..(Len(s) + 1), NEW j \in 1..(Len(s) + 1), i < j
             PROVE  Append(s, x)[i] < Append(s, x)[j]
  BY <1>1
<1>3. i \in 1..Len(s) /\ (j \in 1..Len(s) \/ j = Len(s) + 1)
  BY <1>1
<1> QED BY <1>1, <1>2, <1>3

LEMMA ClientSendsKept ==
  ASSUME TypeOK, NEW c \in Conns, NEW f \in UpFrame, ClientSends(c, f), ConnInv(c)
  PROVE  ConnInv(c)'
<1>1. /\ phase[c] \in {"connecting", "open"} /\ f.n = sent[c] + 1
      /\ sent'[c] = f.n /\ uplink'[c] = Append(uplink[c], f)
      /\ UNCHANGED <<worldVars, phase, login, judging, pending, endpoints, received, refused, raced,
                     hostStreams, downVars>>
  BY DEF ClientSends, TypeOK
<1>2. /\ f.type = "open" =>
           /\ opened' = opened \cup {<<c, f.stream, f.endpoint>>} /\ cancelled' = cancelled
           /\ reopened' = IF \E endpoint \in Endpoint : <<c, f.stream, endpoint>> \in opened
                          THEN reopened \cup {c} ELSE reopened
      /\ f.type # "open" => opened' = opened /\ reopened' = reopened /\ cancelled' = cancelled \cup {c}
  BY DEF ClientSends
<1>3. /\ Append(uplink[c], f) # <<>> /\ Range(uplink'[c]) = Range(uplink[c]) \cup {f}
      /\ uplink[c] # <<>> => Head(uplink'[c]) = Head(uplink[c])
  BY <1>1, SetsOfSequences, RangeAppend
<1>4. Frames(c)' = Frames(c) \cup {f}
  BY <1>1, <1>3 DEF Frames
<1>5. opened \subseteq opened' /\ reopened \subseteq reopened' /\ cancelled \subseteq cancelled'
  BY <1>2
<1>6. Judged(c)'
  BY <1>1, <1>3 DEF ConnInv, UpInv, Judged
<1>7. (\A g \in Frames(c) : g.n < f.n) /\ \A k \in Range(received[c]) : k < f.n
  <2>1. /\ \A g \in Frames(c) : g.n \in 1..sent[c]
        /\ \A k \in Range(received[c]) : k \in 1..sent[c]
    BY DEF ConnInv, UpInv, Lost, NumbersIn, Frames
  <2> QED BY <1>1, <2>1, NumbersOfFrames
<1>8. Ordered(c)'
  <2> SUFFICES ASSUME c \notin raced' PROVE Ordered(c)'
    BY DEF Ordered
  <2>1. c \notin raced
    BY <1>1
  <2>2. Increasing(uplink[c])'
    <3>1. Increasing(uplink[c]) /\ \A g \in Range(uplink[c]) : g.n < f.n
      BY <1>7, <2>1 DEF ConnInv, UpInv, Ordered, Frames
    <3>2. Increasing(Append(uplink[c], f))
      BY <3>1, IncreasingAppend, SetsOfSequences
    <3> QED BY <1>1, <3>2 DEF Increasing
  <2>3. Increasing(pending[c])'
    BY <1>1, <2>1 DEF ConnInv, UpInv, Ordered, Increasing
  <2>4. /\ \A i, j \in DOMAIN received[c] : i < j => received[c][i] < received[c][j]
        /\ \A k \in Range(received[c]) : \A g \in Frames(c) : k < g.n
        /\ \A g \in Range(pending[c]), h \in Range(uplink[c]) : g.n < h.n
    BY <2>1 DEF ConnInv, UpInv, Ordered
  <2>5. \A g \in Range(pending[c]) : g \in Frames(c)
    BY DEF Frames
  <2> QED BY <1>1, <1>3, <1>4, <1>7, <2>2, <2>3, <2>4, <2>5 DEF Ordered
<1>9. Lost(c)'
  <2>1. 1..sent'[c] = 1..sent[c] \cup {f.n}
    BY <1>1, NumbersOfFrames
  <2>2. NumbersIn(uplink'[c]) = NumbersIn(uplink[c]) \cup {f.n}
    BY <1>3 DEF NumbersIn
  <2> QED BY <1>1, <2>1, <2>2 DEF ConnInv, UpInv, Lost, NumbersIn
<1>10. Traced(c)'
  <2> USE DEF ConnInv
  <2>1. ASSUME c \notin reopened', NEW t \in Streams, NEW x \in Endpoint, NEW y \in Endpoint,
               <<c, t, x>> \in opened', <<c, t, y>> \in opened'
        PROVE  x = y
    <3>1. \A u, v \in Endpoint : <<c, t, u>> \in opened /\ <<c, t, v>> \in opened => u = v
      BY <1>5, <2>1 DEF Traced
    <3>2. CASE f.type = "open"
      <4>1. /\ \A endpoint \in Endpoint : <<c, f.stream, endpoint>> \notin opened
            /\ opened' = opened \cup {<<c, f.stream, f.endpoint>>}
        BY <1>2, <2>1, <3>2
      <4>2. CASE t = f.stream
        BY <2>1, <4>1, <4>2
      <4>3. CASE t # f.stream
        BY <2>1, <3>1, <4>1, <4>3
      <4> QED BY <4>2, <4>3
    <3>3. CASE f.type # "open"
      BY <1>2, <2>1, <3>1, <3>3
    <3> QED BY <3>2, <3>3
  <2>2. \A g \in Frames(c)' :
          IF g.type = "open" THEN <<c, g.stream, g.endpoint>> \in opened' ELSE c \in cancelled'
    BY <1>2, <1>4, <1>5 DEF Traced
  <2>3. \A t \in Streams :
          /\ endpoints'[c][t] # None => <<c, t, endpoints'[c][t]>> \in opened'
          /\ hostStreams'[c][t] # None =>
               <<c, t, hostStreams'[c][t]>> \in opened' /\ (c \in cancelled' \/ endpoints'[c][t] # None)
    BY <1>1, <1>5 DEF Traced
  <2>4. \A g \in Range(down'[c]) :
          /\ <<c, g.stream, g.of>> \in opened' /\ (c \in cancelled' \/ endpoints'[c][g.stream] # None)
          /\ g.content \in ContentOf(g.of) \/ (g.of.kind = "events" /\ g.content.type = "ready")
    BY <1>1, <1>5 DEF Traced, downVars
  <2> QED BY <2>1, <2>2, <2>3, <2>4 DEF Traced
<1>11. Seen(c)'
  BY <1>1 DEF downVars, worldVars, ConnInv, DownInv, Seen, Who, MaySee, OwnerOf
<1>12. ReadyFirst(c)'
  BY <1>1, <1>5 DEF downVars, ConnInv, DownInv, ReadyFirst
<1>13. Phased(c)'
  BY <1>1 DEF downVars, ConnInv, DownInv, Phased
<1>14. Own(c)'
  BY <1>1, <1>5 DEF downVars, worldVars, ConnInv, DownInv, Own
<1>15. Stranded(c)'
  BY <1>1, <1>5 DEF downVars, releaseVars, ConnInv, DownInv, Stranded, Hidden, Waiting
<1> QED BY <1>6, <1>8, <1>9, <1>10, <1>11, <1>12, <1>13, <1>14, <1>15 DEF ConnInv, UpInv, DownInv

LEMMA AskRuleKept ==
  ASSUME TypeOK, NEW c \in Conns, AskRule(c), ConnInv(c)
  PROVE  ConnInv(c)'
<1>1. /\ UNCHANGED <<uplink, pending, endpoints, received, refused, hostStreams, down, otherThanUp>>
      /\ uplink[c] # <<>> /\ Head(uplink[c]).type = "open" /\ Head(uplink[c]).endpoint.kind = "ruled"
  BY DEF AskRule
<1>2. UpInv(c)'
  BY <1>1 DEF otherThanUp, ConnInv, UpInv, Judged, Ordered, Frames, Increasing, Lost, NumbersIn
<1>3. Traced(c)'
  BY <1>1 DEF otherThanUp, ConnInv, Traced, Frames
<1>4. Seen(c)' /\ Own(c)'
  BY <1>1 DEF otherThanUp, worldVars, ConnInv, DownInv, Seen, Own, Who, MaySee, OwnerOf
<1>5. ReadyFirst(c)' /\ Phased(c)' /\ Stranded(c)'
  BY <1>1 DEF otherThanUp, releaseVars, ConnInv, DownInv, ReadyFirst, Phased, Stranded, Hidden, Waiting
<1> QED BY <1>2, <1>3, <1>4, <1>5 DEF ConnInv, DownInv

(* What becomes of the first frame of the chain. *)
Refused(c, f) ==
  /\ refused'[c] = refused[c] \cup {f.n} /\ endpoints'[c] = endpoints[c] /\ pending'[c] = pending[c]
  /\ received'[c] = received[c] /\ hostStreams'[c] = hostStreams[c] /\ down'[c] = down[c]
Recorded(c, f) ==
  /\ refused'[c] = refused[c]
  /\ endpoints'[c] = [endpoints[c] EXCEPT ![f.stream] = IF f.type = "open" THEN f.endpoint ELSE None]
  /\ f.type = "open" /\ f.endpoint.kind = "follow" => MaySee(Who(c), f.endpoint.session)
Pended(c, f) ==
  /\ phase[c] # "open" /\ pending'[c] = Append(pending[c], f)
  /\ received'[c] = received[c] /\ hostStreams'[c] = hostStreams[c] /\ down'[c] = down[c]
Ready(f) == [stream |-> f.stream, of |-> f.endpoint, content |-> [type |-> "ready"]]
Forwarded(c, f) ==
  /\ phase[c] = "open" /\ pending'[c] = pending[c] /\ received'[c] = Append(received[c], f.n)
  /\ hostStreams'[c] = [hostStreams[c] EXCEPT ![f.stream] = IF f.type = "open" THEN f.endpoint ELSE None]
  /\ down'[c] = IF f.type = "open" /\ f.endpoint.kind = "events" THEN Append(down[c], Ready(f)) ELSE down[c]

LEMMA HeadTaken ==
  ASSUME TypeOK, NEW c \in Conns, OpenStream(c) \/ RuleAnswers(c) \/ CancelStream(c), ConnInv(c),
         NEW f, f = Head(uplink[c])
  PROVE  /\ uplink[c] # <<>> /\ f \in UpFrame /\ f \in Range(uplink[c]) /\ phase[c] # "unused"
         /\ Range(uplink[c]) = {f} \cup Range(Tail(uplink[c])) /\ Tail(uplink[c]) \in Seq(UpFrame)
         /\ uplink'[c] = Tail(uplink[c]) /\ judging'[c] = FALSE /\ UNCHANGED otherThanUp
         /\ Refused(c, f) \/ (Recorded(c, f) /\ (Pended(c, f) \/ Forwarded(c, f)))
<1>1. judging[c] => uplink[c] # <<>> /\ f.type = "open" /\ f.endpoint.kind = "ruled"
  BY DEF ConnInv, UpInv, Judged
<1>2. uplink[c] # <<>>
  BY <1>1 DEF OpenStream, RuleAnswers, CancelStream
<1>3. /\ f \in UpFrame /\ f \in Range(uplink[c])
      /\ Range(uplink[c]) = {f} \cup Range(Tail(uplink[c])) /\ Tail(uplink[c]) \in Seq(UpFrame)
  BY <1>2, RangeTail, SetsOfSequences
<1>4. phase[c] # "unused"
  BY <1>2 DEF ConnInv, DownInv, Phased
<1>5. uplink'[c] = Tail(uplink[c]) /\ UNCHANGED otherThanUp
  BY DEF TypeOK, OpenStream, RuleAnswers, CancelStream, TakeUp
<1>6. judging'[c] = FALSE
  BY <1>1 DEF TypeOK, OpenStream, RuleAnswers, CancelStream
<1>7. f.stream \in Streams /\ f.type \in {"open", "cancel"} /\ (f.type = "open" => f.endpoint \in Endpoint)
  BY <1>3 DEF UpFrame
<1>8. Forward(c, f) => Pended(c, f) \/ Forwarded(c, f)
  <2>1. CASE phase[c] = "open"
    BY <1>7, <2>1 DEF Forward, Forwarded, Ready, TypeOK, Table
  <2>2. CASE phase[c] # "open"
    BY <2>2 DEF Forward, Pend, Pended, TypeOK
  <2> QED BY <2>1, <2>2
<1>9. \A x : Record(c, f.stream, x) => endpoints'[c] = [endpoints[c] EXCEPT ![f.stream] = x]
  BY DEF Record, TypeOK, Table
<1>10. CASE CancelStream(c)
  <2>1. Record(c, f.stream, None) /\ Forward(c, f) /\ UNCHANGED refused /\ f.type = "cancel"
    BY <1>10 DEF CancelStream
  <2>2. Recorded(c, f)
    BY <1>9, <2>1 DEF Recorded
  <2> QED BY <1>2, <1>3, <1>4, <1>5, <1>6, <1>8, <2>1, <2>2
<1>11. ASSUME NEW granted, Admit(c, f, granted), f.type = "open",
              granted /\ f.endpoint.kind = "follow" => MaySee(Who(c), f.endpoint.session)
       PROVE  Refused(c, f) \/ (Recorded(c, f) /\ (Pended(c, f) \/ Forwarded(c, f)))
  <2>1. CASE granted
    <3>1. Record(c, f.stream, f.endpoint) /\ Forward(c, f) /\ UNCHANGED refused
      BY <1>11, <2>1 DEF Admit
    <3>2. Recorded(c, f)
      BY <1>9, <1>11, <2>1, <3>1 DEF Recorded
    <3> QED BY <1>8, <3>1, <3>2
  <2>2. CASE ~granted
    BY <1>11, <2>2 DEF Admit, Refused, TypeOK
  <2> QED BY <2>1, <2>2
<1>12. CASE OpenStream(c)
  <2>1. Admit(c, f, Grants(Who(c), f.endpoint)) /\ f.type = "open"
    BY <1>12 DEF OpenStream
  <2>2. Grants(Who(c), f.endpoint) /\ f.endpoint.kind = "follow" => MaySee(Who(c), f.endpoint.session)
    BY DEF Grants
  <2> QED BY <1>2, <1>3, <1>4, <1>5, <1>6, <1>11, <2>1, <2>2
<1>13. CASE RuleAnswers(c)
  <2>1. f.type = "open" /\ f.endpoint.kind = "ruled" /\ \E granted \in BOOLEAN : Admit(c, f, granted)
    BY <1>1, <1>13 DEF RuleAnswers
  <2> QED BY <1>2, <1>3, <1>4, <1>5, <1>6, <1>11, <2>1
<1> QED BY <1>10, <1>12, <1>13

(* No frame on the chain to the client is a waterfall without `ready` before it. *)
Led(s) ==
  \A i \in DOMAIN s : s[i].content.type = "waterfall" => \E j \in DOMAIN s : j < i /\ s[j].content.type = "ready"

LEMMA LedAppend ==
  ASSUME NEW s \in Seq(DownFrame), NEW x \in DownFrame, Led(s),
         x.content.type = "waterfall" => \E f \in Range(s) : f.content.type = "ready"
  PROVE  Led(Append(s, x))
<1>1. /\ Len(Append(s, x)) = Len(s) + 1 /\ Len(s) \in Nat
      /\ DOMAIN Append(s, x) = 1..(Len(s) + 1) /\ DOMAIN s = 1..Len(s)
      /\ \A i \in 1..Len(s) : Append(s, x)[i] = s[i]
      /\ Append(s, x)[Len(s) + 1] = x
  BY AppendProperties
<1> SUFFICES ASSUME NEW i \in 1..(Len(s) + 1), Append(s, x)[i].content.type = "waterfall"
             PROVE  \E j \in 1..(Len(s) + 1) : j < i /\ Append(s, x)[j].content.type = "ready"
  BY <1>1 DEF Led
<1>2. \A j \in 1..Len(s) : j \in 1..(Len(s) + 1)
  BY <1>1
<1>3. CASE i \in 1..Len(s)
  <2>1. s[i].content.type = "waterfall"
    BY <1>1, <1>3
  <2>2. PICK j \in 1..Len(s) : j < i /\ s[j].content.type = "ready"
    BY <1>1, <1>3, <2>1 DEF Led
  <2> QED BY <1>1, <1>2, <2>2
<1>4. CASE i = Len(s) + 1
  <2>1. PICK j \in 1..Len(s) : s[j].content.type = "ready"
    BY <1>1, <1>4 DEF Range
  <2>2. j < i
    BY <1>1, <1>4
  <2> QED BY <1>1, <1>2, <2>1, <2>2
<1> QED BY <1>1, <1>3, <1>4

LEMMA LedTail ==
  ASSUME NEW s \in Seq(DownFrame), s # <<>>, Led(s), Head(s).content.type # "ready"
  PROVE  Led(Tail(s))
<1>1. /\ Tail(s) \in Seq(DownFrame) /\ Len(Tail(s)) = Len(s) - 1 /\ Len(s) \in Nat \ {0} /\ Head(s) = s[1]
      /\ \A i \in 1..Len(Tail(s)) : Tail(s)[i] = s[i + 1]
  BY HeadTailProperties, EmptySeq
<1>2. DOMAIN Tail(s) = 1..(Len(s) - 1) /\ DOMAIN s = 1..Len(s)
  BY <1>1
<1> SUFFICES ASSUME NEW i \in 1..(Len(s) - 1), Tail(s)[i].content.type = "waterfall"
             PROVE  \E j \in 1..(Len(s) - 1) : j < i /\ Tail(s)[j].content.type = "ready"
  BY <1>2 DEF Led
<1>3. i + 1 \in 1..Len(s) /\ s[i + 1].content.type = "waterfall"
  BY <1>1
<1>4. PICK j \in 1..Len(s) : j < i + 1 /\ s[j].content.type = "ready"
  BY <1>2, <1>3 DEF Led
<1>5. j # 1
  BY <1>1, <1>4
<1>6. j - 1 \in 1..(Len(s) - 1) /\ j - 1 < i /\ (j - 1) + 1 = j
  BY <1>1, <1>4, <1>5
<1>7. Tail(s)[j - 1] = s[j]
  BY <1>1, <1>6
<1> QED BY <1>4, <1>6, <1>7

LEMMA HeadTakenKept ==
  ASSUME TypeOK, NEW c \in Conns, OpenStream(c) \/ RuleAnswers(c) \/ CancelStream(c), ConnInv(c)
  PROVE  ConnInv(c)'
<1> DEFINE f == Head(uplink[c])
           rest == Tail(uplink[c])
<1>1. /\ uplink[c] # <<>> /\ f \in UpFrame /\ f \in Range(uplink[c]) /\ phase[c] # "unused"
      /\ Range(uplink[c]) = {f} \cup Range(rest) /\ rest \in Seq(UpFrame)
      /\ uplink'[c] = rest /\ judging'[c] = FALSE /\ UNCHANGED otherThanUp
      /\ Refused(c, f) \/ (Recorded(c, f) /\ (Pended(c, f) \/ Forwarded(c, f)))
  BY HeadTaken
<1>2. f.n \in 1..MaxSent /\ f.stream \in Streams /\ f.type \in {"open", "cancel"} /\ (f.type = "open" => f.endpoint \in Endpoint)
  BY <1>1 DEF UpFrame
<1> HIDE DEF f, rest
<1>3. /\ Pended(c, f) => Range(pending'[c]) = Range(pending[c]) \cup {f}
      /\ Forwarded(c, f) => Range(received'[c]) = Range(received[c]) \cup {f.n}
  <2>1. Range(Append(pending[c], f)) = Range(pending[c]) \cup {f}
    BY <1>1, SetsOfSequences, RangeAppend
  <2>2. received[c] \in Seq(1..MaxSent)
    BY SetsOfSequences
  <2>3. Range(Append(received[c], f.n)) = Range(received[c]) \cup {f.n}
    <3> DEFINE Sent == 1..MaxSent
    <3>1. received[c] \in Seq(Sent) /\ f.n \in Sent
      BY <1>2, <2>2
    <3> HIDE DEF Sent
    <3> QED BY <3>1, RangeAppend
  <2> QED BY <2>1, <2>3 DEF Pended, Forwarded
<1>4. Frames(c)' \subseteq Frames(c)
  <2>1. CASE Pended(c, f)
    BY <1>1, <1>3, <2>1 DEF Frames
  <2>2. CASE pending'[c] = pending[c]
    BY <1>1, <2>2 DEF Frames
  <2> QED BY <1>1, <2>1, <2>2 DEF Refused, Forwarded
<1>5. Judged(c)'
  BY <1>1 DEF Judged
<1>6. Ordered(c)'
  <2> SUFFICES ASSUME c \notin raced' PROVE Ordered(c)'
    BY DEF Ordered
  <2>1. /\ \A i, j \in DOMAIN received[c] : i < j => received[c][i] < received[c][j]
        /\ Increasing(pending[c]) /\ Increasing(uplink[c])
        /\ \A k \in Range(received[c]) : \A g \in Frames(c) : k < g.n
        /\ \A g \in Range(pending[c]), h \in Range(uplink[c]) : g.n < h.n
    BY <1>1 DEF otherThanUp, ConnInv, UpInv, Ordered
  <2>2. Increasing(rest) /\ \A g \in Range(rest) : f.n < g.n
    BY <1>1, <2>1, IncreasingTail, SetsOfSequences DEF f, rest
  <2>3. f \in Frames(c)
    BY <1>1 DEF Frames
  <2>4. Increasing(uplink[c])'
    BY <1>1, <2>2 DEF Increasing
  <2>5. CASE Pended(c, f)
    <3>1. Increasing(Append(pending[c], f))
      BY <1>1, <2>1, IncreasingAppend, SetsOfSequences
    <3>2. Increasing(pending[c])'
      BY <2>5, <3>1 DEF Pended, Increasing
    <3>3. received'[c] = received[c]
      BY <2>5 DEF Pended
    <3>4. \A g \in Range(pending'[c]), h \in Range(uplink'[c]) : g.n < h.n
      BY <1>1, <1>3, <2>1, <2>2, <2>5
    <3> QED BY <1>4, <2>1, <2>4, <3>2, <3>3, <3>4 DEF Ordered
  <2>6. CASE Forwarded(c, f)
    <3>1. pending[c] = <<>> /\ pending'[c] = <<>>
      BY <2>6 DEF Forwarded, ConnInv, UpInv, Lost
    <3>2. \A k \in Range(received[c]) : k < f.n
      BY <2>1, <2>3
    <3>3. \A i, j \in DOMAIN received'[c] : i < j => received'[c][i] < received'[c][j]
      <4>1. received[c] \in Seq(1..MaxSent)
        BY SetsOfSequences
      <4>2. \A i, j \in DOMAIN Append(received[c], f.n) : i < j => Append(received[c], f.n)[i] < Append(received[c], f.n)[j]
        BY <1>2, <2>1, <3>2, <4>1, AscendingAppend
      <4> QED BY <2>6, <4>2 DEF Forwarded
    <3>4. Frames(c)' = Range(rest)
      BY <1>1, <3>1, RangeOfEmpty DEF Frames
    <3>5. \A k \in Range(received'[c]) : \A g \in Frames(c)' : k < g.n
      BY <1>3, <1>4, <2>1, <2>2, <2>6, <3>4
    <3>6. Increasing(pending[c])'
      BY <2>1, <3>1 DEF Increasing
    <3> QED BY <2>4, <3>1, <3>3, <3>5, <3>6, RangeOfEmpty DEF Ordered
  <2>7. CASE Refused(c, f)
    <3>1. pending'[c] = pending[c] /\ received'[c] = received[c]
      BY <2>7 DEF Refused
    <3>2. Increasing(pending[c])'
      BY <2>1, <3>1 DEF Increasing
    <3>3. \A g \in Range(pending'[c]), h \in Range(uplink'[c]) : g.n < h.n
      BY <1>1, <2>1, <3>1
    <3> QED BY <1>4, <2>1, <2>4, <3>1, <3>2, <3>3 DEF Ordered
  <2> QED BY <1>1, <2>5, <2>6, <2>7
<1>7. Lost(c)'
  <2>1. 1..sent[c] = NumbersIn(uplink[c]) \cup NumbersIn(pending[c]) \cup Range(received[c]) \cup refused[c]
    BY DEF ConnInv, UpInv, Lost
  <2>2. NumbersIn(uplink[c]) = {f.n} \cup NumbersIn(rest)
    BY <1>1 DEF NumbersIn
  <2>3. Pended(c, f) => NumbersIn(pending'[c]) = NumbersIn(pending[c]) \cup {f.n}
    BY <1>3 DEF NumbersIn
  <2>4. 1..sent'[c] = NumbersIn(uplink'[c]) \cup NumbersIn(pending'[c]) \cup Range(received'[c]) \cup refused'[c]
    <3>1. CASE Refused(c, f)
      BY <1>1, <2>1, <2>2, <3>1 DEF Refused, otherThanUp
    <3>2. CASE Recorded(c, f) /\ Pended(c, f)
      BY <1>1, <2>1, <2>2, <2>3, <3>2 DEF Recorded, Pended, otherThanUp
    <3>3. CASE Recorded(c, f) /\ Forwarded(c, f)
      BY <1>1, <1>3, <2>1, <2>2, <3>3 DEF Recorded, Forwarded, otherThanUp
    <3> QED BY <1>1, <3>1, <3>2, <3>3
  <2>5. phase'[c] = "open" => pending'[c] = <<>>
    BY <1>1 DEF otherThanUp, ConnInv, UpInv, Lost, Refused, Pended, Forwarded
  <2> QED BY <2>4, <2>5 DEF Lost, NumbersIn
<1>8. /\ f.type = "open" => <<c, f.stream, f.endpoint>> \in opened
      /\ f.type # "open" => c \in cancelled
  BY <1>1, <1>2 DEF ConnInv, Traced, Frames
<1>9. \A t \in Streams :
        \/ endpoints'[c][t] = endpoints[c][t]
        \/ t = f.stream /\ f.type = "open" /\ endpoints'[c][t] = f.endpoint /\ f.endpoint # None
             /\ (f.endpoint.kind = "follow" => MaySee(Who(c), f.endpoint.session))
        \/ t = f.stream /\ f.type # "open" /\ endpoints'[c][t] = None
  <2>1. CASE Refused(c, f)
    BY <2>1 DEF Refused
  <2>2. CASE Recorded(c, f)
    BY <1>2, <2>2, MuxAssumption DEF Recorded, TypeOK, Table
  <2> QED BY <1>1, <2>1, <2>2
<1>10. \A t \in Streams :
         \/ hostStreams'[c][t] = hostStreams[c][t]
         \/ t = f.stream /\ f.type = "open" /\ Recorded(c, f) /\ Forwarded(c, f) /\ hostStreams'[c][t] = f.endpoint
         \/ hostStreams'[c][t] = None
  <2>1. CASE Recorded(c, f) /\ Forwarded(c, f)
    BY <1>2, <2>1 DEF Forwarded, TypeOK, Table
  <2> QED BY <1>1, <2>1 DEF Refused, Pended
<1>11. /\ Range(down'[c]) = Range(down[c]) /\ down'[c] = down[c]
       \/ /\ f.type = "open" /\ f.endpoint.kind = "events" /\ Recorded(c, f) /\ Forwarded(c, f)
          /\ Ready(f) \in DownFrame /\ down'[c] = Append(down[c], Ready(f))
          /\ Range(down'[c]) = Range(down[c]) \cup {Ready(f)}
  <2>1. CASE Refused(c, f) \/ Pended(c, f)
    BY <2>1 DEF Refused, Pended
  <2>2. CASE Recorded(c, f) /\ Forwarded(c, f)
    <3>1. CASE f.type = "open" /\ f.endpoint.kind = "events"
      <4>1. Ready(f) \in DownFrame
        BY <1>2, <3>1 DEF Ready, DownFrame, Content
      <4>2. down'[c] = Append(down[c], Ready(f))
        BY <2>2, <3>1 DEF Forwarded
      <4> QED BY <2>2, <3>1, <4>1, <4>2, SetsOfSequences, RangeAppend
    <3>2. CASE ~(f.type = "open" /\ f.endpoint.kind = "events")
      BY <2>2, <3>2 DEF Forwarded
    <3> QED BY <3>1, <3>2
  <2> QED BY <1>1, <2>1, <2>2
<1>12. Ready(f).stream = f.stream /\ Ready(f).of = f.endpoint /\ Ready(f).content.type = "ready"
  BY DEF Ready
<1>13. Traced(c)'
  <2>1. UNCHANGED <<opened, reopened, cancelled>>
    BY <1>1 DEF otherThanUp
  <2>2. c \notin reopened' =>
          \A t \in Streams : \A x, y \in Endpoint : <<c, t, x>> \in opened' /\ <<c, t, y>> \in opened' => x = y
    BY <2>1 DEF ConnInv, Traced
  <2>3. \A g \in Frames(c)' :
          IF g.type = "open" THEN <<c, g.stream, g.endpoint>> \in opened' ELSE c \in cancelled'
    BY <1>4, <2>1 DEF ConnInv, Traced
  <2>4. /\ \A t \in Streams : endpoints'[c][t] # None => <<c, t, endpoints'[c][t]>> \in opened'
        /\ \A t \in Streams : endpoints[c][t] # None => c \in cancelled \/ endpoints'[c][t] # None
    BY <1>8, <1>9, <2>1 DEF ConnInv, Traced
  <2>5. /\ Recorded(c, f) /\ f.type = "open" => endpoints'[c][f.stream] # None
    BY <1>2, MuxAssumption DEF Recorded, TypeOK, Table
  <2>6. \A t \in Streams : hostStreams'[c][t] # None =>
          <<c, t, hostStreams'[c][t]>> \in opened' /\ (c \in cancelled' \/ endpoints'[c][t] # None)
    BY <1>8, <1>10, <2>1, <2>4, <2>5 DEF ConnInv, Traced
  <2>7. \A g \in Range(down'[c]) : g \in Range(down[c]) \/
          (g = Ready(f) /\ f.type = "open" /\ f.endpoint.kind = "events" /\ Recorded(c, f))
    BY <1>11
  <2>8. \A g \in Range(down[c]) : g.stream \in Streams
    BY TypesOfTraces
  <2>9. \A g \in Range(down'[c]) :
          /\ <<c, g.stream, g.of>> \in opened' /\ (c \in cancelled' \/ endpoints'[c][g.stream] # None)
          /\ g.content \in ContentOf(g.of) \/ (g.of.kind = "events" /\ g.content.type = "ready")
    BY <1>8, <1>12, <2>1, <2>4, <2>5, <2>7, <2>8 DEF ConnInv, Traced
  <2> QED BY <2>2, <2>3, <2>4, <2>6, <2>9 DEF Traced
<1>14. Seen(c)'
  <2>1. UNCHANGED <<userOf, owners, rolledBack, login, events>>
    BY <1>1 DEF otherThanUp, worldVars
  <2>2. \A u, s : MaySee(u, s)' <=> MaySee(u, s)
    BY <2>1 DEF MaySee, OwnerOf
  <2>3. Who(c)' = Who(c)
    BY <2>1 DEF Who
  <2> QED BY <1>9, <2>1, <2>2, <2>3 DEF ConnInv, DownInv, Seen
<1>15. ReadyFirst(c)'
  <2> SUFFICES ASSUME c \notin (cancelled \cup reopened)', ~clientId'[c] PROVE ReadyFirst(c)'
    BY DEF ReadyFirst
  <2>1. c \notin cancelled \cup reopened /\ ~clientId[c]
    BY <1>1 DEF otherThanUp
  <2>2. /\ Led(down[c])
        /\ \A t \in Streams : hostStreams[c][t] # None /\ hostStreams[c][t].kind = "events" =>
             \E g \in Range(down[c]) : g.content.type = "ready"
    BY <2>1 DEF ConnInv, DownInv, ReadyFirst, Led
  <2>3. Led(down'[c])
    BY <1>11, <1>12, <2>2, LedAppend, SetsOfSequences
  <2>4. (\E g \in Range(down[c]) : g.content.type = "ready") => \E g \in Range(down'[c]) : g.content.type = "ready"
    BY <1>11
  <2>5. f.type = "open" /\ f.endpoint.kind = "events" /\ Forwarded(c, f) =>
          \E g \in Range(down'[c]) : g.content.type = "ready"
    <3> SUFFICES ASSUME f.type = "open" /\ f.endpoint.kind = "events" /\ Forwarded(c, f)
                 PROVE  \E g \in Range(down'[c]) : g.content.type = "ready"
      OBVIOUS
    <3>1. down'[c] = Append(down[c], Ready(f)) /\ Ready(f) \in DownFrame
      BY <1>2 DEF Forwarded, Ready, DownFrame, Content
    <3>2. Range(down'[c]) = Range(down[c]) \cup {Ready(f)}
      BY <3>1, SetsOfSequences, RangeAppend
    <3> QED BY <1>12, <3>2
  <2>6. \A t \in Streams : hostStreams'[c][t] # None /\ hostStreams'[c][t].kind = "events" =>
          \E g \in Range(down'[c]) : g.content.type = "ready"
    BY <1>10, <2>2, <2>4, <2>5
  <2> QED BY <2>3, <2>6 DEF Led, ReadyFirst
<1>16. Phased(c)'
  <2>1. UNCHANGED <<phase, login, events, cast, shown>>
    BY <1>1 DEF otherThanUp
  <2>2. phase[c] # "open" => down'[c] = down[c]
    BY <1>1 DEF Refused, Pended, Forwarded
  <2> QED BY <1>1, <2>1, <2>2 DEF ConnInv, DownInv, Phased
<1>17. Own(c)'
  BY <1>1 DEF otherThanUp, worldVars, ConnInv, DownInv, Own
<1>18. Stranded(c)'
  <2>1. \A e \in Event : Waiting(c, e) => Waiting(c, e)'
    BY <1>11 DEF Waiting
  <2>2. UNCHANGED <<phase, cast, shown, Hidden, cancelled, reopened, overLimit>>
    BY <1>1 DEF otherThanUp, releaseVars, Hidden
  <2> QED BY <2>1, <2>2 DEF ConnInv, DownInv, Stranded
<1> QED BY <1>5, <1>6, <1>7, <1>13, <1>14, <1>15, <1>16, <1>17, <1>18 DEF ConnInv, UpInv, DownInv

-----------------------------------------------------------------------------
(* The frames of the host. *)
LEMMA ContentTypes ==
  /\ \A y \in Content :
       /\ y.type \in {"ready", "end", "waterfall", "cancel", "item"}
       /\ y.type = "item" => y.session \in Sessions
       /\ y.type \in {"waterfall", "cancel"} => y.event \in Event /\ y.event.session \in Sessions
       /\ y.type = "waterfall" => y = [type |-> "waterfall", event |-> y.event]
  /\ \A x \in Endpoint, y \in Content : y \in ContentOf(x) =>
       /\ y.type # "ready"
       /\ x.kind = "events" => y.type # "end"
       /\ x.kind # "events" => y.type \in {"item", "end"}
       /\ x.kind = "follow" /\ y.type = "item" => y.session = x.session
<1>1. \A y \in Content :
        /\ y.type \in {"ready", "end", "waterfall", "cancel", "item"}
        /\ y.type = "item" => y.session \in Sessions
        /\ y.type \in {"waterfall", "cancel"} => y.event \in Event
        /\ y.type = "waterfall" => y = [type |-> "waterfall", event |-> y.event]
  BY DEF Content
<1>2. \A e \in Event : e.session \in Sessions
  BY DEF Event
<1>3. \A x \in Endpoint, y \in Content : y \in ContentOf(x) =>
        /\ y.type # "ready"
        /\ x.kind = "events" => y.type # "end"
        /\ x.kind # "events" => y.type \in {"item", "end"}
        /\ x.kind = "follow" /\ y.type = "item" => y.session = x.session
  BY DEF ContentOf
<1> QED BY <1>1, <1>2, <1>3

LEMMA SameUpInv ==
  ASSUME NEW c \in Conns, UNCHANGED <<phase, uplinkVars, raced>>, UpInv(c)
  PROVE  UpInv(c)'
<1>1. SameUp(c)
  BY DEF SameUp, uplinkVars
<1> QED BY <1>1, SameUpKept

LEMMA HostSendsKept ==
  ASSUME TypeOK, NEW c \in Conns, NEW stream \in Streams, NEW content \in Content,
         HostSends(c, stream, content), ConnInv(c)
  PROVE  ConnInv(c)'
<1> DEFINE endpoint == hostStreams[c][stream]
           m == [stream |-> stream, of |-> endpoint, content |-> content]
<1>1. /\ phase[c] = "open" /\ endpoint # None /\ content \in ContentOf(endpoint)
      /\ down'[c] = Append(down[c], m)
      /\ cast' = IF content.type = "waterfall" THEN cast \cup {<<c, content.event>>} ELSE cast
      /\ UNCHANGED <<worldVars, phase, login, uplinkVars, raced, hostStreams, clientId, events, strays,
                     shown, releaseVars, overLimit>>
  BY DEF HostSends, TypeOK
<1>2. endpoint \in Endpoint /\ m \in DownFrame
  BY <1>1, TypesOfTraces DEF DownFrame
<1>3. /\ <<c, stream, endpoint>> \in opened /\ (c \in cancelled \/ endpoints[c][stream] # None)
  BY <1>1 DEF ConnInv, Traced
<1>4. m.stream = stream /\ m.of = endpoint /\ m.content = content
  OBVIOUS
<1> HIDE DEF m, endpoint
<1>5. Range(down'[c]) = Range(down[c]) \cup {m}
  BY <1>1, <1>2, SetsOfSequences, RangeAppend
<1>6. content.type = "waterfall" =>
        /\ content.event \in Event /\ content = [type |-> "waterfall", event |-> content.event]
        /\ endpoint.kind = "events"
  BY <1>1, <1>2, ContentTypes
<1>7. UpInv(c)'
  BY <1>1, SameUpInv DEF ConnInv
<1>8. Traced(c)'
  BY <1>1, <1>3, <1>4, <1>5 DEF uplinkVars, ConnInv, Traced, Frames
<1>9. Seen(c)' /\ Own(c)'
  BY <1>1 DEF worldVars, uplinkVars, ConnInv, DownInv, Seen, Own, Who, MaySee, OwnerOf
<1>10. ReadyFirst(c)'
  <2> SUFFICES ASSUME c \notin (cancelled \cup reopened)', ~clientId'[c] PROVE ReadyFirst(c)'
    BY DEF ReadyFirst
  <2>1. /\ Led(down[c])
        /\ \A t \in Streams : hostStreams[c][t] # None /\ hostStreams[c][t].kind = "events" =>
             \E g \in Range(down[c]) : g.content.type = "ready"
    BY <1>1 DEF uplinkVars, ConnInv, DownInv, ReadyFirst, Led
  <2>2. content.type = "waterfall" => \E g \in Range(down[c]) : g.content.type = "ready"
    BY <1>1, <1>6, <2>1 DEF endpoint
  <2>3. Led(down'[c])
    BY <1>1, <1>2, <1>4, <2>1, <2>2, LedAppend, SetsOfSequences
  <2>4. \A t \in Streams : hostStreams'[c][t] # None /\ hostStreams'[c][t].kind = "events" =>
          \E g \in Range(down'[c]) : g.content.type = "ready"
    BY <1>1, <1>5, <2>1
  <2> QED BY <2>3, <2>4 DEF Led, ReadyFirst
<1>11. Phased(c)'
  BY <1>1 DEF uplinkVars, ConnInv, DownInv, Phased
<1>12. Stranded(c)'
  <2>1. \A e \in Event : Waiting(c, e) => Waiting(c, e)'
    BY <1>5 DEF Waiting
  <2>2. content.type = "waterfall" => Waiting(c, content.event)'
    BY <1>4, <1>5, <1>6 DEF Waiting
  <2>3. \A e \in Event : <<c, e>> \in cast' => <<c, e>> \in cast \/ Waiting(c, e)'
    BY <1>1, <2>2
  <2> QED BY <1>1, <2>1, <2>3 DEF uplinkVars, releaseVars, ConnInv, DownInv, Stranded, Hidden
<1> QED BY <1>7, <1>8, <1>9, <1>10, <1>11, <1>12 DEF ConnInv, DownInv

(* The first frame on the chain to the client. *)
LEMMA HeadOfDown ==
  ASSUME TypeOK, NEW c \in Conns, ConnInv(c), down[c] # <<>>, NEW m, m = Head(down[c])
  PROVE  /\ m \in DownFrame /\ m.stream \in Streams /\ m.of \in Endpoint /\ m.content \in Content
         /\ Range(down[c]) = {m} \cup Range(Tail(down[c])) /\ Tail(down[c]) \in Seq(DownFrame)
         /\ phase[c] \in {"open", "closed"} /\ Who(c) \in Users
         /\ m.content \in ContentOf(m.of) \/ (m.of.kind = "events" /\ m.content.type = "ready")
         /\ EndpointOf(c) = endpoints[c][m.stream] /\ EndpointOf(c) \in Endpoint \cup {None}
         /\ c \notin cancelled => EndpointOf(c) # None
         /\ c \notin reopened /\ EndpointOf(c) # None => EndpointOf(c) = m.of
         /\ c \notin cancelled \cup reopened /\ ~clientId[c] => m.content.type # "waterfall"
<1>1. /\ m \in DownFrame /\ m \in Range(down[c])
      /\ Range(down[c]) = {m} \cup Range(Tail(down[c])) /\ Tail(down[c]) \in Seq(DownFrame)
  BY RangeTail, SetsOfSequences
<1>2. m.stream \in Streams /\ m.of \in Endpoint /\ m.content \in Content
  BY <1>1 DEF DownFrame
<1>3. phase[c] \in {"open", "closed"} /\ Who(c) \in Users
  BY DEF ConnInv, DownInv, Phased, TypeOK, Who
<1>4. /\ <<c, m.stream, m.of>> \in opened /\ (c \in cancelled \/ endpoints[c][m.stream] # None)
      /\ m.content \in ContentOf(m.of) \/ (m.of.kind = "events" /\ m.content.type = "ready")
  BY <1>1 DEF ConnInv, Traced
<1>5. EndpointOf(c) = endpoints[c][m.stream] /\ EndpointOf(c) \in Endpoint \cup {None}
  BY <1>2, TypesOfTraces DEF EndpointOf
<1>6. c \notin reopened /\ EndpointOf(c) # None => EndpointOf(c) = m.of
  BY <1>2, <1>4, <1>5 DEF ConnInv, Traced
<1>7. c \notin cancelled \cup reopened /\ ~clientId[c] => m.content.type # "waterfall"
  <2> SUFFICES ASSUME c \notin cancelled \cup reopened, ~clientId[c], m.content.type = "waterfall" PROVE FALSE
    OBVIOUS
  <2>1. Len(down[c]) \in Nat \ {0} /\ DOMAIN down[c] = 1..Len(down[c]) /\ m = down[c][1]
    BY SetsOfSequences, EmptySeq
  <2>2. 1 \in DOMAIN down[c]
    BY <2>1
  <2>3. PICK j \in DOMAIN down[c] : j < 1
    BY <2>1, <2>2 DEF ConnInv, DownInv, ReadyFirst
  <2> QED BY <2>1, <2>3
<1> QED BY <1>1, <1>2, <1>3, <1>4, <1>5, <1>6, <1>7

LEMMA DownlinkKept ==
  ASSUME TypeOK, NEW c \in Conns, Downlink(c), ConnInv(c)
  PROVE  ConnInv(c)'
<1> USE DEF Downlink, DropUnknown, DeliverItem, DeliverReady, HideWaterfall, ShowWaterfall, DeliverCancel
<1> DEFINE m == Head(down[c])
           rest == Tail(down[c])
           y == m.content
<1>1. down[c] # <<>> /\ down'[c] = rest /\ UNCHANGED otherThanDown
  BY DEF OnEvents, TakeDown, TypeOK
<1>2. /\ m \in DownFrame /\ m.stream \in Streams /\ m.of \in Endpoint /\ y \in Content
      /\ Range(down[c]) = {m} \cup Range(rest) /\ rest \in Seq(DownFrame)
      /\ phase[c] \in {"open", "closed"} /\ Who(c) \in Users
      /\ y \in ContentOf(m.of) \/ (m.of.kind = "events" /\ y.type = "ready")
      /\ EndpointOf(c) = endpoints[c][m.stream] /\ EndpointOf(c) \in Endpoint \cup {None}
      /\ c \notin cancelled => EndpointOf(c) # None
      /\ c \notin reopened /\ EndpointOf(c) # None => EndpointOf(c) = m.of
      /\ c \notin cancelled \cup reopened /\ ~clientId[c] => y.type # "waterfall"
  BY <1>1, HeadOfDown
<1>3. /\ y.type \in {"ready", "end", "waterfall", "cancel", "item"}
      /\ y.type = "item" => y.session \in Sessions
      /\ y.type \in {"waterfall", "cancel"} => y.event \in Event /\ y.event.session \in Sessions
      /\ y.type = "waterfall" => y = [type |-> "waterfall", event |-> y.event]
      /\ m.of.kind # "events" => y.type \in {"item", "end"} /\ y \in ContentOf(m.of)
      /\ m.of.kind = "follow" /\ y.type = "item" => y.session = m.of.session
  BY <1>2, ContentTypes
<1>4. UpInv(c)' /\ UNCHANGED <<phase, login, userOf, owners, rolledBack, endpoints, hostStreams, cast,
                            opened, reopened, cancelled, uplink, pending>>
  BY <1>1, SameUpInv DEF otherThanDown, uplinkVars, worldVars, ConnInv
<1>5. Traced(c)'
  BY <1>1, <1>2, <1>4 DEF ConnInv, Traced, Frames
<1>6. /\ \A u, s : MaySee(u, s)' <=> MaySee(u, s)
      /\ Who(c)' = Who(c)
  BY <1>4 DEF MaySee, OwnerOf, Who
<1>7. \A e \in events'[c] : MaySee(Who(c), e.session) \/ e.session \in rolledBack
  <2>1. \A e \in events[c] : MaySee(Who(c), e.session) \/ e.session \in rolledBack
    BY DEF ConnInv, DownInv, Seen
  <2>2. \A e \in events'[c] : e \in events[c] \/ (e = y.event /\ MaySee(Who(c), e.session))
    BY DEF TypeOK
  <2> QED BY <2>1, <2>2
<1>8. Seen(c)'
  BY <1>4, <1>6, <1>7 DEF ConnInv, DownInv, Seen
<1>9. ReadyFirst(c)'
  <2> SUFFICES ASSUME c \notin (cancelled \cup reopened)', ~clientId'[c] PROVE ReadyFirst(c)'
    BY DEF ReadyFirst
  <2>1. c \notin cancelled \cup reopened /\ ~clientId[c] /\ ~DeliverReady(c)
    BY <1>4 DEF TypeOK
  <2>2. y.type # "ready"
    <3> SUFFICES ASSUME y.type = "ready" PROVE FALSE
      OBVIOUS
    <3>1. EndpointOf(c) = m.of /\ EndpointOf(c) # None /\ m.of.kind = "events"
      BY <1>2, <1>3, <2>1
    <3> QED BY <2>1, <3>1 DEF OnEvents
  <2>3. /\ Led(down[c])
        /\ \A t \in Streams : hostStreams[c][t] # None /\ hostStreams[c][t].kind = "events" =>
             \E g \in Range(down[c]) : g.content.type = "ready"
    BY <2>1 DEF ConnInv, DownInv, ReadyFirst, Led
  <2>4. Led(down'[c])
    BY <1>1, <2>2, <2>3, LedTail, SetsOfSequences
  <2>5. \A t \in Streams : hostStreams'[c][t] # None /\ hostStreams'[c][t].kind = "events" =>
          \E g \in Range(down'[c]) : g.content.type = "ready"
    BY <1>1, <1>2, <1>4, <2>2, <2>3
  <2> QED BY <2>4, <2>5 DEF Led, ReadyFirst
<1>10. Phased(c)'
  <2>1. shown \subseteq shown'
    OBVIOUS
  <2>2. \A e \in events'[c] : e \in events[c] \/ (e = y.event /\ (phase[c] = "open" => <<c, e>> \in shown'))
    BY DEF TypeOK
  <2>3. phase[c] = "open" => \A e \in events[c] : <<c, e>> \in shown
    BY DEF ConnInv, DownInv, Phased
  <2> QED BY <1>2, <1>4, <2>1, <2>2, <2>3 DEF ConnInv, DownInv, Phased
<1>11. Own(c)'
  <2> SUFFICES ASSUME NEW s \in Sessions, <<c, s>> \in strays', <<c, s>> \notin strays, c \notin reopened
               PROVE  s \in rolledBack
    BY <1>4 DEF ConnInv, DownInv, Own
  <2>1. /\ SendDown(c) /\ s \in About(y) /\ ~MaySee(Who(c), s) /\ EndpointOf(c).kind # "ruled"
        /\ EndpointOf(c) # None
    <3>1. SendDown(c) /\ EndpointOf(c) # None
      BY DEF OnEvents
    <3> QED BY <3>1 DEF SendDown
  <2>2. EndpointOf(c) = m.of
    BY <1>2, <2>1
  <2>3. CASE DeliverItem(c)
    <3>1. TRUE \in Verdicts(Who(c), m.of, y)
      <4>1. \E passes \in Verdicts(Who(c), EndpointOf(c), y) : IF passes THEN SendDown(c) ELSE UNCHANGED <<strays, late>>
        BY <2>3
      <4>2. PICK passes \in Verdicts(Who(c), m.of, y) : passes
        BY <2>2, <4>1
      <4>3. Verdicts(Who(c), m.of, y) \subseteq BOOLEAN
        BY DEF Verdicts, MaySee
      <4> QED BY <4>2, <4>3
    <3>2. y.type = "item" /\ s = y.session
      BY <1>3, <2>1, <2>2, <2>3 DEF About
    <3>3. ~(Who(c) = Default)
      BY <2>1 DEF MaySee
    <3>4. m.of.kind = "follow"
      BY <2>1, <2>2, <3>1, <3>2, <3>3 DEF Verdicts
    <3>5. s = m.of.session
      BY <1>3, <3>2, <3>4
    <3>6. MaySee(Who(c), s) \/ s \in rolledBack
      BY <1>2, <2>1, <2>2, <3>4, <3>5 DEF ConnInv, DownInv, Seen
    <3> QED BY <2>1, <3>6
  <2>4. CASE DeliverReady(c)
    BY <2>1, <2>4 DEF OnEvents, About
  <2>5. CASE ShowWaterfall(c)
    BY <2>1, <2>5 DEF OnEvents, About
  <2>6. CASE DeliverCancel(c)
    <3>1. y.event \in events[c] /\ s = y.event.session
      BY <2>1, <2>6 DEF OnEvents, About
    <3> QED BY <2>1, <3>1 DEF ConnInv, DownInv, Seen
  <2> QED BY <2>3, <2>4, <2>5, <2>6
<1>12. Stranded(c)'
  <2>1. shown \subseteq shown' /\ Hidden \subseteq Hidden' /\ overLimit \subseteq overLimit'
    BY DEF Hidden, releaseVars
  <2> SUFFICES ASSUME NEW e \in Event, <<c, e>> \in cast, ~Waiting(c, e)', phase[c] # "closed",
                      c \notin cancelled \cup reopened, <<c, e>> \notin shown \cup Hidden \cup overLimit
               PROVE  <<c, e>> \in shown' \cup releasing' \cup overLimit'
    BY <1>4, <2>1 DEF Stranded, Hidden
  <2>2. Waiting(c, e)
    BY DEF ConnInv, DownInv, Stranded
  <2>3. y = [type |-> "waterfall", event |-> e]
    BY <1>1, <1>2, <2>2 DEF Waiting
  <2>4. y.type = "waterfall" /\ y.event = e
    BY <2>3
  <2>5. EndpointOf(c) # None /\ EndpointOf(c).kind = "events" /\ clientId[c] /\ phase[c] = "open"
    BY <1>2, <1>3, <2>4
  <2>6. HideWaterfall(c) \/ ShowWaterfall(c)
    BY <2>4, <2>5 DEF OnEvents
  <2> QED BY <2>4, <2>5, <2>6
<1> QED BY <1>4, <1>5, <1>8, <1>9, <1>10, <1>11, <1>12 DEF ConnInv, DownInv

-----------------------------------------------------------------------------
(* Answers.  A connection keeps its login and what it was shown. *)
LEMMA AnswersKept ==
  ASSUME TypeOK, \A c \in Conns : ConnInv(c), AnswersWereShown, [Next]_vars
  PROVE  AnswersWereShown'
<1>1. /\ shown \subseteq shown'
      /\ \A c \in Conns : phase[c] # "unused" => login'[c] = login[c]
  <2>1. ASSUME NEW c \in Conns, ConnStep(c)
        PROVE  shown \subseteq shown' /\ \A d \in Conns : phase[d] # "unused" => login'[d] = login[d]
    BY <2>1 DEF ConnStep, Connect, UpstreamOpens, Shutdown, ClientSends, Uplink, OpenStream, AskRule, RuleAnswers,
                CancelStream, HostSends, Downlink, DropUnknown, DeliverItem, DeliverReady, HideWaterfall, ShowWaterfall,
                DeliverCancel, otherThanUp, otherThanDown, downVars, TypeOK
  <2>2. ASSUME \/ \E r \in releasing : ReleaseAnswered(r) \/ ReleaseFails(r)
               \/ \E l \in Logins : LogOut(l) \/ \E e \in Event : Answer(l, e)
               \/ \E s \in Sessions : ClaimFails(s) \/ \E u \in Users : Claim(s, u)
               \/ UNCHANGED vars
        PROVE  UNCHANGED <<shown, login>>
    BY <2>2 DEF LogOut, Answer, ClaimFails, Claim, ReleaseAnswered, ReleaseFails, otherThanDown, vars, downVars
  <2> QED BY <2>1, <2>2 DEF Next, ConnStep
<1>2. \A l \in Logins, e \in Event : <<l, e>> \in answered' => <<l, e>> \in answered \/ MayAnswer(l, e)
  <2>1. ASSUME NEW c \in Conns, ConnStep(c) PROVE UNCHANGED answered
    BY <2>1 DEF ConnStep, Connect, UpstreamOpens, Shutdown, ClientSends, Uplink, OpenStream, AskRule, RuleAnswers,
                CancelStream, HostSends, Downlink, DropUnknown, DeliverItem, DeliverReady, HideWaterfall, ShowWaterfall,
                DeliverCancel, otherThanUp, otherThanDown
  <2>2. ASSUME \/ \E r \in releasing : ReleaseAnswered(r) \/ ReleaseFails(r)
               \/ \E l \in Logins : LogOut(l)
               \/ \E s \in Sessions : ClaimFails(s) \/ \E u \in Users : Claim(s, u)
               \/ UNCHANGED vars
        PROVE  UNCHANGED answered
    BY <2>2 DEF LogOut, ClaimFails, Claim, ReleaseAnswered, ReleaseFails, otherThanDown, vars
  <2>3. ASSUME NEW l \in Logins, NEW e \in Event, Answer(l, e)
        PROVE  MayAnswer(l, e) /\ answered' = answered \cup {<<l, e>>}
    BY <2>3 DEF Answer
  <2> QED BY <2>1, <2>2, <2>3 DEF Next, ConnStep
<1>3. \A l \in Logins, e \in Event : MayAnswer(l, e) =>
        \E c \in Conns : phase[c] # "unused" /\ login[c] = l /\ <<c, e>> \in shown
  BY DEF MayAnswer, ConnInv, DownInv, Phased
<1>4. \A l \in Logins, e \in Event : <<l, e>> \in answered =>
        \E c \in Conns : phase[c] # "unused" /\ login[c] = l /\ <<c, e>> \in shown
  BY DEF AnswersWereShown, ConnInv, DownInv, Phased
<1> QED BY <1>1, <1>2, <1>3, <1>4 DEF AnswersWereShown

-----------------------------------------------------------------------------
LEMMA MuxInitInv == Init => MuxInv
<1> SUFFICES ASSUME Init PROVE MuxInv
  OBVIOUS
<1>1. TypeOK
  BY InitTypeOK
<1>2. AnswersWereShown
  BY DEF Init, AnswersWereShown
<1> SUFFICES ASSUME NEW c \in Conns PROVE ConnInv(c)
  BY <1>1, <1>2, MuxInvIsConnInv
<1>3. /\ phase[c] = "unused" /\ uplink[c] = <<>> /\ pending[c] = <<>> /\ received[c] = <<>> /\ down[c] = <<>>
      /\ refused[c] = {} /\ sent[c] = 0 /\ ~judging[c] /\ endpoints[c] = NoStreams /\ hostStreams[c] = NoStreams
      /\ events[c] = {} /\ opened = {} /\ strays = {} /\ shown = {} /\ cast = {}
  BY DEF Init
<1>4. Frames(c) = {} /\ Range(down[c]) = {} /\ Range(received[c]) = {}
      /\ NumbersIn(uplink[c]) = {} /\ NumbersIn(pending[c]) = {}
      /\ DOMAIN received[c] = {} /\ DOMAIN pending[c] = {} /\ DOMAIN uplink[c] = {} /\ DOMAIN down[c] = {}
  BY <1>3, RangeOfEmpty DEF Frames
<1>5. Judged(c) /\ Ordered(c)
  BY <1>3, <1>4, RangeOfEmpty DEF Judged, Ordered, Increasing
<1>6. Lost(c)
  <2>1. 1..0 = {}
    OBVIOUS
  <2> QED BY <1>3, <1>4, <2>1 DEF Lost
<1>7. Traced(c)
  BY <1>3, <1>4 DEF Traced, NoStreams
<1>8. Seen(c) /\ ReadyFirst(c)
  BY <1>3, <1>4 DEF Seen, ReadyFirst, NoStreams
<1>9. Phased(c) /\ Own(c) /\ Stranded(c)
  BY <1>3 DEF Phased, Own, Stranded
<1> QED BY <1>5, <1>6, <1>7, <1>8, <1>9 DEF ConnInv, UpInv, DownInv

LEMMA ConnStepKept ==
  ASSUME TypeOK, NEW c \in Conns, ConnStep(c), ConnInv(c)
  PROVE  ConnInv(c)' /\ TypeOK'
<1>1. ASSUME OpenStream(c) \/ RuleAnswers(c) \/ CancelStream(c) PROVE ConnInv(c)' /\ TypeOK'
  <2>1. uplink[c] # <<>> /\ (judging[c] => Head(uplink[c]).type = "open")
    BY <1>1, HeadTaken DEF ConnInv, UpInv, Judged
  <2> QED BY <1>1, <2>1, HeadTakenKept, UplinkTypeOK
<1>2. CASE \E l \in Logins : Connect(c, l)
  BY <1>2, ConnectKept, ConnectionTypeOK
<1>3. CASE UpstreamOpens(c)
  BY <1>3, UpstreamOpensKept, ConnectionTypeOK
<1>4. CASE Shutdown(c)
  BY <1>4, ShutdownKept, ConnectionTypeOK
<1>5. CASE AskRule(c)
  BY <1>5, AskRuleKept, ConnectionTypeOK
<1>6. CASE \E f \in UpFrame : ClientSends(c, f)
  BY <1>6, ClientSendsKept, ConnectionTypeOK
<1>7. CASE \E stream \in Streams, content \in Content : HostSends(c, stream, content)
  BY <1>7, HostSendsKept, HostSendsTypeOK
<1>8. CASE Downlink(c)
  BY <1>8, DownlinkKept, DownlinkTypeOK
<1> QED BY <1>1, <1>2, <1>3, <1>4, <1>5, <1>6, <1>7, <1>8 DEF ConnStep, Uplink

LEMMA MuxNextInv == MuxInv /\ [Next]_vars => MuxInv'
<1> SUFFICES ASSUME MuxInv, [Next]_vars PROVE MuxInv'
  OBVIOUS
<1>1. TypeOK /\ (\A c \in Conns : ConnInv(c)) /\ AnswersWereShown
  BY MuxInvIsConnInv DEF MuxInv
<1>2. AnswersWereShown'
  BY <1>1, AnswersKept
<1>3. TypeOK' /\ \A d \in Conns : ConnInv(d)'
  <2>1. ASSUME NEW c \in Conns, ConnStep(c) PROVE TypeOK' /\ \A d \in Conns : ConnInv(d)'
    <3>1. ConnInv(c)' /\ TypeOK'
      BY <1>1, <2>1, ConnStepKept
    <3>2. ASSUME NEW d \in Conns, d # c PROVE ConnInv(d)'
      <4>1. Same(d) /\ WorldKept
        BY <1>1, <2>1, <3>2, OtherSame
      <4> QED BY <1>1, <4>1, SameKept
    <3> QED BY <3>1, <3>2
  <2>2. ASSUME \/ \E r \in releasing : ReleaseAnswered(r) \/ ReleaseFails(r)
               \/ \E l \in Logins : LogOut(l) \/ \E e \in Event : Answer(l, e)
               \/ \E s \in Sessions : ClaimFails(s) \/ \E u \in Users : Claim(s, u)
               \/ UNCHANGED vars
        PROVE  TypeOK' /\ \A d \in Conns : ConnInv(d)'
    <3>1. TypeOK'
      BY <1>1, <2>2, WorldTypeOK
    <3>2. ASSUME NEW d \in Conns PROVE ConnInv(d)'
      <4>1. Same(d) /\ WorldKept
        BY <1>1, <2>2, WorldSame
      <4> QED BY <1>1, <4>1, SameKept
    <3> QED BY <3>1, <3>2
  <2> QED BY <2>1, <2>2 DEF Next, ConnStep
<1>4. (TypeOK => (MuxInv <=> (\A c \in Conns : ConnInv(c)) /\ AnswersWereShown))'
  BY MuxInvIsConnInv, PTL
<1> QED BY <1>2, <1>3, <1>4

(* What is known of every connection holds in every state. *)
THEOREM MuxInvariant == Spec => []MuxInv
<1>1. Init => MuxInv
  BY MuxInitInv
<1>2. MuxInv /\ [Next]_vars => MuxInv'
  BY MuxNextInv
<1> QED BY <1>1, <1>2, PTL DEF Spec

(* A connection gets frames about sessions of its user only, unless it used *)
(* a stream id twice or a claim was taken back.                             *)
THEOREM OnlyOwnFrames == Spec => []OwnFramesOnly
<1>1. MuxInv => OwnFramesOnly
  BY DEF MuxInv
<1> QED BY <1>1, MuxInvariant, PTL

(* What reaches the host is in the order the client sent it. *)
THEOREM InOrder == Spec => []UplinkInOrder
<1>1. MuxInv => UplinkInOrder
  BY DEF MuxInv, UplinkInOrder, Ordered
<1> QED BY <1>1, MuxInvariant, PTL

(* No frame of a client vanishes between it and the host. *)
THEOREM NoFrameLost == Spec => []NothingLost
<1>1. MuxInv => NothingLost
  BY DEF MuxInv
<1> QED BY <1>1, MuxInvariant, PTL

(* Every waterfall is delivered, waits, or has its recipient released, but   *)
(* for a release that failed and a visible one that came at the limit.       *)
THEOREM NoneStranded == Spec => []NobodyStranded
<1>1. MuxInv => NobodyStranded
  BY DEF MuxInv
<1> QED BY <1>1, MuxInvariant, PTL

(* Only what a login was shown can it answer. *)
THEOREM OnlyShownAnswered == Spec => []AnswersWereShown
<1>1. MuxInv => AnswersWereShown
  BY DEF MuxInv
<1> QED BY <1>1, MuxInvariant, PTL

-----------------------------------------------------------------------------
(* Refinement of FilteredChannel: what waits for the host side and what is   *)
(* on the chain are in transit, in that order.                               *)
(* A concatenation falls apart where it was put together. *)
LEMMA Split ==
  ASSUME NEW S, NEW s \in Seq(S), NEW t \in Seq(S)
  PROVE  /\ SubSeq(s \o t, 1, Len(s)) = s
         /\ SubSeq(s \o t, Len(s) + 1, Len(s \o t)) = t
         /\ t # <<>> => /\ SubSeq(s \o t, Len(s) + 2, Len(s \o t)) = Tail(t)
                        /\ Len(s) + 1 \in 1..Len(s \o t) /\ (s \o t)[Len(s) + 1] = Head(t)
<1> DEFINE a == SubSeq(s \o t, 1, Len(s))
           b == SubSeq(s \o t, Len(s) + 1, Len(s \o t))
           d == SubSeq(s \o t, Len(s) + 2, Len(s \o t))
<1>1. /\ s \o t \in Seq(S) /\ Len(s \o t) = Len(s) + Len(t) /\ Len(s) \in Nat /\ Len(t) \in Nat
      /\ \A i \in 1..Len(s) + Len(t) : (s \o t)[i] = IF i <= Len(s) THEN s[i] ELSE t[i - Len(s)]
      /\ \A i \in 1..Len(s \o t) : (s \o t)[i] \in S
  BY ConcatProperties, LenProperties, ElementOfSeq
<1>2. a = s
  <2>1. a \in Seq(S) /\ Len(a) = Len(s) /\ \A i \in 1..Len(s) : a[i] = (s \o t)[i]
    BY <1>1, SubSeqProperties
  <2> QED BY <1>1, <2>1, SeqEqual
<1>3. b = t
  <2>1. b \in Seq(S) /\ Len(b) = Len(t) /\ \A i \in 1..Len(t) : b[i] = (s \o t)[Len(s) + i]
    BY <1>1, SubSeqProperties
  <2>2. \A i \in 1..Len(t) : b[i] = t[i]
    BY <1>1, <2>1
  <2> QED BY <1>1, <2>1, <2>2, SeqEqual
<1>4. ASSUME t # <<>> PROVE d = Tail(t) /\ Len(s) + 1 \in 1..Len(s \o t) /\ (s \o t)[Len(s) + 1] = Head(t)
  <2>1. /\ Tail(t) \in Seq(S) /\ Len(Tail(t)) = Len(t) - 1 /\ Len(t) > 0 /\ Head(t) = t[1]
        /\ \A i \in 1..Len(Tail(t)) : Tail(t)[i] = t[i + 1]
    BY <1>1, <1>4, HeadTailProperties, EmptySeq
  <2>2. d \in Seq(S) /\ Len(d) = Len(t) - 1 /\ \A i \in 1..Len(t) - 1 : d[i] = (s \o t)[Len(s) + 1 + i]
    BY <1>1, <2>1, SubSeqProperties
  <2>3. \A i \in 1..Len(t) - 1 : d[i] = Tail(t)[i]
    BY <1>1, <2>1, <2>2
  <2>4. d = Tail(t)
    BY <2>1, <2>2, <2>3, SeqEqual
  <2>5. (s \o t)[Len(s) + 1] = t[1]
    BY <1>1, <2>1
  <2> QED BY <1>1, <2>1, <2>4, <2>5
<1> QED BY <1>2, <1>3, <1>4

LEMMA AppendConcat ==
  ASSUME NEW S, NEW s \in Seq(S), NEW t \in Seq(S), NEW x \in S
  PROVE  /\ s \o Append(t, x) = Append(s \o t, x)
         /\ t # <<>> => Append(s, Head(t)) \o Tail(t) = s \o t
<1>1. <<x>> \in Seq(S) /\ s \o t \in Seq(S)
  BY ConcatProperties
<1>2. s \o Append(t, x) = Append(s \o t, x)
  BY <1>1, AppendIsConcat, ConcatAssociative
<1>3. ASSUME t # <<>> PROVE Append(s, Head(t)) \o Tail(t) = s \o t
  <2>1. Head(t) \in S /\ Tail(t) \in Seq(S) /\ <<Head(t)>> \in Seq(S)
    BY <1>3, HeadTailProperties
  <2>2. Append(s, Head(t)) \o Tail(t) = s \o (<<Head(t)>> \o Tail(t))
    BY <2>1, AppendIsConcat, ConcatAssociative
  <2>3. t = <<Head(t)>> \o Tail(t)
    BY <1>3
  <2> QED BY <2>2, <2>3
<1> QED BY <1>2, <1>3

(* The numbers of a sequence of frames. *)
LEMMA NumbersOfFacts ==
  ASSUME NEW s \in Seq(UpFrame)
  PROVE  /\ NumbersOf(s) \in Seq(Nat) /\ Len(NumbersOf(s)) = Len(s)
         /\ \A i \in 1..Len(s) : NumbersOf(s)[i] = s[i].n
<1>1. DOMAIN s = 1..Len(s) /\ Len(s) \in Nat /\ \A i \in 1..Len(s) : s[i] \in UpFrame
  BY LenProperties, ElementOfSeq
<1>2. \A f \in UpFrame : f.n \in Nat
  BY MuxAssumption DEF UpFrame
<1>3. NumbersOf(s) = [i \in 1..Len(s) |-> s[i].n]
  BY <1>1 DEF NumbersOf
<1>4. NumbersOf(s) \in [1..Len(s) -> Nat]
  BY <1>1, <1>2, <1>3
<1>5. NumbersOf(s) \in Seq(Nat)
  BY <1>1, <1>4, SeqDef
<1>6. Len(NumbersOf(s)) = Len(s)
  BY <1>1, <1>4, <1>5, LenProperties
<1> QED BY <1>3, <1>5, <1>6

LEMMA NumbersConcat ==
  ASSUME NEW s \in Seq(UpFrame), NEW t \in Seq(UpFrame)
  PROVE  NumbersOf(s \o t) = NumbersOf(s) \o NumbersOf(t)
<1>1. /\ s \o t \in Seq(UpFrame) /\ Len(s \o t) = Len(s) + Len(t) /\ Len(s) \in Nat /\ Len(t) \in Nat
      /\ \A i \in 1..Len(s) + Len(t) : (s \o t)[i] = IF i <= Len(s) THEN s[i] ELSE t[i - Len(s)]
  BY ConcatProperties, LenProperties
<1> DEFINE a == NumbersOf(s \o t)
           b == NumbersOf(s) \o NumbersOf(t)
<1>2. /\ b \in Seq(Nat) /\ Len(b) = Len(s) + Len(t)
      /\ \A i \in 1..Len(s) + Len(t) : b[i] = IF i <= Len(s) THEN NumbersOf(s)[i] ELSE NumbersOf(t)[i - Len(s)]
  <2>1. /\ NumbersOf(s) \in Seq(Nat) /\ Len(NumbersOf(s)) = Len(s)
        /\ NumbersOf(t) \in Seq(Nat) /\ Len(NumbersOf(t)) = Len(t)
    BY NumbersOfFacts
  <2>2. /\ b \in Seq(Nat) /\ Len(b) = Len(NumbersOf(s)) + Len(NumbersOf(t))
        /\ \A i \in 1..Len(NumbersOf(s)) + Len(NumbersOf(t)) :
             b[i] = IF i <= Len(NumbersOf(s)) THEN NumbersOf(s)[i] ELSE NumbersOf(t)[i - Len(NumbersOf(s))]
    BY <2>1, ConcatProperties
  <2> QED BY <2>1, <2>2
<1>3. a \in Seq(Nat) /\ Len(a) = Len(s) + Len(t) /\ \A i \in 1..Len(s) + Len(t) : a[i] = (s \o t)[i].n
  BY <1>1, NumbersOfFacts
<1>4. ASSUME NEW i \in 1..Len(s) + Len(t) PROVE a[i] = b[i]
  <2>1. CASE i <= Len(s)
    <3>1. i \in 1..Len(s)
      BY <1>1, <2>1
    <3> QED BY <1>1, <1>2, <1>3, <2>1, <3>1, NumbersOfFacts
  <2>2. CASE ~(i <= Len(s))
    <3>1. i - Len(s) \in 1..Len(t)
      BY <1>1, <2>2
    <3> QED BY <1>1, <1>2, <1>3, <2>2, <3>1, NumbersOfFacts
  <2> QED BY <2>1, <2>2
<1> QED BY <1>2, <1>3, <1>4, SeqEqual

LEMMA NumbersAppend ==
  ASSUME NEW s \in Seq(UpFrame), NEW x \in UpFrame
  PROVE  NumbersOf(Append(s, x)) = Append(NumbersOf(s), x.n)
<1>1. x.n \in Nat
  BY MuxAssumption DEF UpFrame
<1>2. /\ Append(s, x) \in Seq(UpFrame) /\ Len(Append(s, x)) = Len(s) + 1 /\ Len(s) \in Nat
      /\ \A i \in 1..Len(s) : Append(s, x)[i] = s[i]
      /\ Append(s, x)[Len(s) + 1] = x
  BY AppendProperties, LenProperties
<1> DEFINE a == NumbersOf(Append(s, x))
           b == Append(NumbersOf(s), x.n)
<1>3. a \in Seq(Nat) /\ Len(a) = Len(s) + 1 /\ \A i \in 1..Len(s) + 1 : a[i] = Append(s, x)[i].n
  BY <1>2, NumbersOfFacts
<1>4. b \in Seq(Nat) /\ Len(b) = Len(s) + 1 /\ b[Len(s) + 1] = x.n /\ \A i \in 1..Len(s) : b[i] = s[i].n
  BY <1>1, NumbersOfFacts, AppendProperties
<1>5. \A i \in 1..Len(s) + 1 : a[i] = b[i]
  <2> SUFFICES ASSUME NEW i \in 1..Len(s) + 1 PROVE a[i] = b[i]
    OBVIOUS
  <2>1. i \in 1..Len(s) \/ i = Len(s) + 1
    BY <1>2
  <2> QED BY <1>2, <1>3, <1>4, <2>1
<1> QED BY <1>3, <1>4, <1>5, SeqEqual

LEMMA NumbersTail ==
  ASSUME NEW s \in Seq(UpFrame), s # <<>>
  PROVE  NumbersOf(s) # <<>> /\ Head(NumbersOf(s)) = Head(s).n /\ NumbersOf(Tail(s)) = Tail(NumbersOf(s))
<1>1. /\ Tail(s) \in Seq(UpFrame) /\ Len(Tail(s)) = Len(s) - 1 /\ Len(s) \in Nat \ {0} /\ Head(s) = s[1]
      /\ \A i \in 1..Len(s) - 1 : Tail(s)[i] = s[i + 1]
  BY HeadTailProperties, EmptySeq, LenProperties
<1>2. NumbersOf(s) # <<>>
  BY <1>1, NumbersOfFacts, EmptySeq
<1> DEFINE a == NumbersOf(Tail(s))
           b == Tail(NumbersOf(s))
<1>3. a \in Seq(Nat) /\ Len(a) = Len(s) - 1 /\ \A i \in 1..Len(s) - 1 : a[i] = s[i + 1].n
  BY <1>1, NumbersOfFacts
<1>4. b \in Seq(Nat) /\ Len(b) = Len(s) - 1 /\ \A i \in 1..Len(s) - 1 : b[i] = NumbersOf(s)[i + 1]
  BY <1>1, <1>2, NumbersOfFacts, HeadTailProperties
<1>5. \A i \in 1..Len(s) - 1 : a[i] = b[i]
  BY <1>1, <1>3, <1>4, NumbersOfFacts
<1>6. a = b
  BY <1>3, <1>4, <1>5, SeqEqual
<1>7. Head(NumbersOf(s)) = NumbersOf(s)[1] /\ 1 \in 1..Len(s)
  BY <1>1, <1>2, NumbersOfFacts
<1> QED BY <1>1, <1>2, <1>6, <1>7, NumbersOfFacts

(* Before the host side opens nothing has reached it. *)
Unopened(c) == phase[c] \in {"unused", "connecting"} => received[c] = <<>> /\ c \notin raced
ChannelInv == MuxInv /\ \A c \in Conns : Unopened(c)

(* Of a step of the connection c only c is seen on the channels. *)
Transit == [c \in Conns |-> NumbersOf(pending[c] \o uplink[c])]

LEMMA ChannelStep ==
  ASSUME TypeOK, TypeOK', NEW c \in Conns, ConnStep(c), NEW q, NumbersOf(pending'[c] \o uplink'[c]) = q
  PROVE  /\ Transit' = [Transit EXCEPT ![c] = q]
         /\ \A d \in Conns \ {c} : d \in raced' <=> d \in raced
         /\ received' = [received EXCEPT ![c] = received'[c]]
         /\ refused' = [refused EXCEPT ![c] = refused'[c]]
         /\ sent' = [sent EXCEPT ![c] = sent'[c]]
<1>1. ASSUME NEW d \in Conns \ {c} PROVE SameUp(d)
  BY <1>1, OtherSame DEF Same
<1>2. \A d \in Conns \ {c} : /\ sent'[d] = sent[d] /\ uplink'[d] = uplink[d] /\ pending'[d] = pending[d]
                             /\ received'[d] = received[d] /\ refused'[d] = refused[d]
                             /\ (d \in raced' <=> d \in raced)
  BY <1>1 DEF SameUp
<1>3. Transit' = [Transit EXCEPT ![c] = q]
  BY <1>2 DEF Transit
<1>4. /\ received' = [received EXCEPT ![c] = received'[c]]
      /\ refused' = [refused EXCEPT ![c] = refused'[c]]
      /\ sent' = [sent EXCEPT ![c] = sent'[c]]
  BY <1>2 DEF TypeOK
<1> QED BY <1>2, <1>3, <1>4

LEMMA TransitOf ==
  ASSUME TypeOK, NEW c \in Conns
  PROVE  /\ Transit[c] = NumbersOf(pending[c]) \o NumbersOf(uplink[c])
         /\ NumbersOf(pending[c]) \in Seq(Nat) /\ NumbersOf(uplink[c]) \in Seq(Nat)
BY SetsOfSequences, NumbersConcat, NumbersOfFacts DEF Transit

LEMMA SendIsSend ==
  ASSUME TypeOK, TypeOK', NEW c \in Conns, NEW f \in UpFrame, ClientSends(c, f)
  PROVE  Up!Send(c)
<1>1. /\ f.n = sent[c] + 1 /\ sent' = [sent EXCEPT ![c] = f.n] /\ uplink'[c] = Append(uplink[c], f)
      /\ UNCHANGED <<pending, received, refused, raced>>
  BY DEF ClientSends, TypeOK
<1>2. sent[c] < MaxSent /\ f.n \in Nat
  BY <1>1, NumbersOfFrames, MuxAssumption DEF UpFrame
<1>3. NumbersOf(pending'[c] \o uplink'[c]) = Append(Transit[c], f.n)
  <2>1. pending'[c] \o uplink'[c] = Append(pending[c] \o uplink[c], f)
    <3>1. pending[c] \o Append(uplink[c], f) = Append(pending[c] \o uplink[c], f)
      BY SetsOfSequences, AppendConcat
    <3> QED BY <1>1, <3>1
  <2>2. pending[c] \o uplink[c] \in Seq(UpFrame)
    BY SetsOfSequences, ConcatProperties
  <2> QED BY <2>1, <2>2, NumbersAppend DEF Transit
<1>4. Transit' = [Transit EXCEPT ![c] = Append(Transit[c], sent[c] + 1)]
  <2>1. ConnStep(c)
    BY DEF ConnStep
  <2>2. NumbersOf(pending'[c] \o uplink'[c]) = Append(Transit[c], sent[c] + 1)
    BY <1>1, <1>3
  <2> QED BY <2>1, <2>2, ChannelStep
<1>5. Transit' = [Transit EXCEPT ![c] = Append(@, sent[c] + 1)]
  BY <1>4 DEF Transit
<1>6. sent' = [sent EXCEPT ![c] = @ + 1]
  BY <1>1
<1> QED BY <1>1, <1>2, <1>5, <1>6 DEF Up!Send, Transit

(* The host side opens: nothing is on the chain, or its frames go first. *)
LEMMA OpenIsTurn ==
  ASSUME TypeOK, TypeOK', NEW c \in Conns, UpstreamOpens(c), ConnInv(c), Unopened(c)
  PROVE  Up!Turn(c) \/ UNCHANGED Up!vars
<1>1. /\ phase[c] = "connecting" /\ uplink'[c] = uplink[c] \o pending[c] /\ pending'[c] = <<>>
      /\ uplink[c] = <<>> \/ judging[c]
      /\ raced' = IF judging[c] THEN raced \cup {c} ELSE raced
      /\ UNCHANGED <<sent, received, refused>>
  BY DEF UpstreamOpens, TypeOK
<1> DEFINE p == NumbersOf(pending[c])
           u == NumbersOf(uplink[c])
<1>2. Transit[c] = p \o u /\ p \in Seq(Nat) /\ u \in Seq(Nat)
  BY TransitOf
<1>3. pending'[c] \o uplink'[c] = uplink[c] \o pending[c]
  <2>1. uplink[c] \o pending[c] \in Seq(UpFrame)
    BY SetsOfSequences, ConcatProperties
  <2> QED BY <1>1, <2>1, ConcatEmptySeq
<1>4. NumbersOf(pending'[c] \o uplink'[c]) = u \o p
  BY <1>3, SetsOfSequences, NumbersConcat
<1>5. Transit' = [Transit EXCEPT ![c] = u \o p]
  BY <1>4, ChannelStep DEF ConnStep
<1>6. CASE judging[c]
  <2>1. received[c] = <<>> /\ c \notin raced
    BY <1>1 DEF Unopened
  <2>2. uplink[c] # <<>>
    BY <1>6 DEF ConnInv, UpInv, Judged
  <2>3. u # <<>>
    BY <2>2, NumbersTail, SetsOfSequences
  <2> DEFINE i == Len(p) + 1
  <2>4. i \in 1..Len(p \o u) /\ SubSeq(p \o u, i, Len(p \o u)) = u /\ SubSeq(p \o u, 1, i - 1) = p
    <3>1. i - 1 = Len(p)
      BY <1>2, LenProperties
    <3> QED BY <1>2, <2>3, <3>1, Split
  <2>5. Transit' = [Transit EXCEPT ![c] = SubSeq(@, i, Len(@)) \o SubSeq(@, 1, i - 1)]
    BY <1>2, <1>5, <2>4 DEF Transit
  <2>6. i \in 1..Len(Transit[c])
    BY <1>2, <2>4
  <2> HIDE DEF i
  <2> QED BY <1>1, <1>6, <2>1, <2>5, <2>6 DEF Up!Turn, Transit
<1>7. CASE ~judging[c]
  <2>1. uplink[c] = <<>> /\ raced' = raced
    BY <1>1, <1>7
  <2>2. u \o p = p \o u
    <3>1. NumbersOf(uplink[c]) = <<>>
      BY <2>1, SetsOfSequences, NumbersOfFacts, EmptySeq, LenProperties
    <3> QED BY <1>2, <3>1, ConcatEmptySeq
  <2>3. Transit' = Transit
    BY <1>2, <1>5, <2>2 DEF Transit
  <2> QED BY <1>1, <2>1, <2>3 DEF Up!vars, Transit
<1> QED BY <1>6, <1>7

(* The head of the chain is refused, waits on, or reaches the host. *)
LEMMA TakingRefines ==
  ASSUME TypeOK, TypeOK', NEW c \in Conns, OpenStream(c) \/ RuleAnswers(c) \/ CancelStream(c), ConnInv(c)
  PROVE  Up!Refuse(c) \/ Up!Deliver(c) \/ UNCHANGED Up!vars
<1> DEFINE f == Head(uplink[c])
           rest == Tail(uplink[c])
           p == NumbersOf(pending[c])
           u == NumbersOf(uplink[c])
<1>1. /\ uplink[c] # <<>> /\ f \in UpFrame
      /\ uplink'[c] = rest /\ rest \in Seq(UpFrame) /\ UNCHANGED otherThanUp
      /\ Refused(c, f) \/ (Recorded(c, f) /\ (Pended(c, f) \/ Forwarded(c, f)))
  BY HeadTaken
<1>2. Transit[c] = p \o u /\ p \in Seq(Nat) /\ u \in Seq(Nat)
  BY TransitOf
<1>3. u # <<>> /\ Head(u) = f.n /\ NumbersOf(rest) = Tail(u)
  BY <1>1, SetsOfSequences, NumbersTail
<1>4. UNCHANGED <<sent, raced>>
  BY <1>1 DEF otherThanUp
<1>5. ConnStep(c)
  BY DEF ConnStep, Uplink
<1> HIDE DEF f, rest, p, u
<1>6. CASE Refused(c, f)
  <2>1. /\ refused'[c] = refused[c] \cup {f.n} /\ pending'[c] = pending[c] /\ received'[c] = received[c]
    BY <1>6 DEF Refused
  <2>2. NumbersOf(pending'[c] \o uplink'[c]) = p \o Tail(u)
    BY <1>1, <1>3, <2>1, SetsOfSequences, NumbersConcat DEF p
  <2>3. /\ Transit' = [Transit EXCEPT ![c] = p \o Tail(u)]
        /\ received' = [received EXCEPT ![c] = received'[c]]
        /\ refused' = [refused EXCEPT ![c] = refused'[c]]
    BY <1>5, <2>2, ChannelStep
  <2>4. received' = received
    BY <2>1, <2>3 DEF TypeOK
  <2> DEFINE i == Len(p) + 1
  <2>5. /\ i \in 1..Len(p \o u) /\ (p \o u)[i] = f.n
        /\ SubSeq(p \o u, 1, i - 1) = p /\ SubSeq(p \o u, i + 1, Len(p \o u)) = Tail(u)
    <3>1. Len(p) \in Nat
      BY <1>2, LenProperties
    <3>2. i - 1 = Len(p) /\ i + 1 = Len(p) + 2
      BY <3>1
    <3>3. /\ Len(p) + 1 \in 1..Len(p \o u) /\ (p \o u)[Len(p) + 1] = Head(u)
          /\ SubSeq(p \o u, 1, Len(p)) = p /\ SubSeq(p \o u, Len(p) + 2, Len(p \o u)) = Tail(u)
      BY <1>2, <1>3, Split
    <3> QED BY <1>3, <3>2, <3>3
  <2> HIDE DEF i
  <2>6. Transit' = [Transit EXCEPT ![c] = SubSeq(@, 1, i - 1) \o SubSeq(@, i + 1, Len(@))]
    BY <1>2, <2>3, <2>5 DEF Transit
  <2>7. refused' = [refused EXCEPT ![c] = @ \cup {Transit[c][i]}] /\ i \in 1..Len(Transit[c])
    BY <1>2, <2>1, <2>3, <2>5
  <2> QED BY <1>4, <2>4, <2>6, <2>7 DEF Up!Refuse, Transit
<1>7. CASE Recorded(c, f) /\ Pended(c, f)
  <2>1. refused'[c] = refused[c] /\ pending'[c] = Append(pending[c], f) /\ received'[c] = received[c]
    BY <1>7 DEF Recorded, Pended
  <2>2. pending'[c] \o uplink'[c] = pending[c] \o uplink[c]
    BY <1>1, <2>1, SetsOfSequences, AppendConcat DEF f, rest
  <2>3. NumbersOf(pending'[c] \o uplink'[c]) = Transit[c]
    BY <2>2 DEF Transit
  <2>4. /\ Transit' = [Transit EXCEPT ![c] = Transit[c]]
        /\ received' = [received EXCEPT ![c] = received'[c]]
        /\ refused' = [refused EXCEPT ![c] = refused'[c]]
    BY <1>5, <2>3, ChannelStep
  <2>5. Transit' = Transit /\ received' = received /\ refused' = refused
    <3>1. [Transit EXCEPT ![c] = Transit[c]] = Transit
      BY DEF Transit
    <3>2. received' = received /\ refused' = refused
      BY <2>1, <2>4 DEF TypeOK
    <3> QED BY <2>4, <3>1, <3>2
  <2> QED BY <1>4, <2>5 DEF Up!vars, Transit
<1>8. CASE Recorded(c, f) /\ Forwarded(c, f)
  <2>1. refused'[c] = refused[c] /\ pending'[c] = <<>> /\ pending[c] = <<>> /\ received'[c] = Append(received[c], f.n)
    BY <1>8 DEF Recorded, Forwarded, ConnInv, UpInv, Lost
  <2>2. p = <<>>
    BY <2>1, SetsOfSequences, NumbersOfFacts, EmptySeq, LenProperties DEF p
  <2>3. NumbersOf(pending'[c] \o uplink'[c]) = Tail(u)
    BY <1>1, <1>3, <2>1, SetsOfSequences, ConcatEmptySeq
  <2>4. Transit[c] = u
    BY <1>2, <2>2, ConcatEmptySeq
  <2>5. /\ Transit' = [Transit EXCEPT ![c] = Tail(u)]
        /\ received' = [received EXCEPT ![c] = received'[c]]
        /\ refused' = [refused EXCEPT ![c] = refused'[c]]
    BY <1>5, <2>3, ChannelStep
  <2>6. refused' = refused
    BY <2>1, <2>5 DEF TypeOK
  <2>7. Transit' = [Transit EXCEPT ![c] = Tail(@)] /\ received' = [received EXCEPT ![c] = Append(@, Head(Transit[c]))]
    BY <1>3, <2>1, <2>4, <2>5 DEF Transit
  <2> QED BY <1>3, <1>4, <2>4, <2>6, <2>7 DEF Up!Deliver, Transit
<1> QED BY <1>1, <1>6, <1>7, <1>8

(* Each step of the proxy is a step of the channels or leaves them alone. *)
LEMMA StepRefines ==
  ASSUME ChannelInv, TypeOK', [Next]_vars
  PROVE  [Up!Next]_Up!vars
<1>1. TypeOK /\ \A c \in Conns : ConnInv(c) /\ Unopened(c)
  BY MuxInvIsConnInv DEF ChannelInv, MuxInv
<1>2. ASSUME UNCHANGED <<sent, uplink, pending, received, refused, raced>> PROVE UNCHANGED Up!vars
  BY <1>2 DEF Up!vars
<1>3. ASSUME NEW c \in Conns, ConnStep(c) PROVE [Up!Next]_Up!vars
  <2>1. CASE \E l \in Logins : Connect(c, l)
    BY <1>2, <2>1 DEF Connect, uplinkVars
  <2>2. CASE UpstreamOpens(c)
    BY <1>1, <2>2, OpenIsTurn DEF Up!Next
  <2>3. CASE Shutdown(c) \/ AskRule(c)
    BY <1>2, <2>3 DEF Shutdown, AskRule, uplinkVars, otherThanUp
  <2>4. CASE \E f \in UpFrame : ClientSends(c, f)
    BY <1>1, <2>4, SendIsSend DEF Up!Next
  <2>5. CASE OpenStream(c) \/ RuleAnswers(c) \/ CancelStream(c)
    BY <1>1, <2>5, TakingRefines DEF Up!Next
  <2>6. CASE \E stream \in Streams, content \in Content : HostSends(c, stream, content)
    BY <1>2, <2>6 DEF HostSends, uplinkVars
  <2>7. CASE Downlink(c)
    BY <1>2, <2>7 DEF Downlink, DropUnknown, DeliverItem, DeliverReady, HideWaterfall, ShowWaterfall, DeliverCancel,
                      otherThanDown, uplinkVars
  <2> QED BY <1>3, <2>1, <2>2, <2>3, <2>4, <2>5, <2>6, <2>7 DEF ConnStep, Uplink
<1>4. ASSUME \/ \E r \in releasing : ReleaseAnswered(r) \/ ReleaseFails(r)
             \/ \E l \in Logins : LogOut(l) \/ \E e \in Event : Answer(l, e)
             \/ \E s \in Sessions : ClaimFails(s) \/ \E u \in Users : Claim(s, u)
             \/ UNCHANGED vars
      PROVE  UNCHANGED Up!vars
  BY <1>2, <1>4 DEF LogOut, Answer, ClaimFails, Claim, ReleaseAnswered, ReleaseFails, otherThanDown, vars, uplinkVars
<1> QED BY <1>3, <1>4 DEF Next, ConnStep

LEMMA UnopenedKept ==
  ASSUME ChannelInv, [Next]_vars, NEW d \in Conns
  PROVE  Unopened(d)'
<1>1. TypeOK /\ ConnInv(d) /\ Unopened(d)
  BY MuxInvIsConnInv DEF ChannelInv, MuxInv
<1>2. ASSUME Same(d) PROVE Unopened(d)'
  BY <1>1, <1>2 DEF Same, SameUp, Unopened
<1>3. ASSUME NEW c \in Conns, ConnStep(c), c # d PROVE Unopened(d)'
  BY <1>1, <1>2, <1>3, OtherSame
<1>4. CASE ConnStep(d)
  <2>1. CASE \E l \in Logins : Connect(d, l)
    BY <1>1, <2>1 DEF Connect, uplinkVars, Unopened
  <2>2. CASE UpstreamOpens(d) \/ Shutdown(d)
    BY <1>1, <2>2 DEF UpstreamOpens, Shutdown, Unopened, TypeOK
  <2>3. CASE AskRule(d) \/ \E f \in UpFrame : ClientSends(d, f)
    BY <1>1, <2>3 DEF AskRule, otherThanUp, ClientSends, Unopened
  <2>4. CASE OpenStream(d) \/ RuleAnswers(d) \/ CancelStream(d)
    <3>1. UNCHANGED <<phase, raced>> /\ (phase[d] # "open" => received'[d] = received[d])
      BY <1>1, <2>4, HeadTaken DEF otherThanUp, Refused, Pended, Forwarded
    <3> QED BY <1>1, <3>1 DEF Unopened
  <2>5. CASE (\E stream \in Streams, content \in Content : HostSends(d, stream, content)) \/ Downlink(d)
    BY <1>1, <2>5 DEF HostSends, Downlink, DropUnknown, DeliverItem, DeliverReady, HideWaterfall, ShowWaterfall,
                      DeliverCancel, otherThanDown, uplinkVars, Unopened
  <2> QED BY <1>4, <2>1, <2>2, <2>3, <2>4, <2>5 DEF ConnStep, Uplink
<1>5. ASSUME \/ \E r \in releasing : ReleaseAnswered(r) \/ ReleaseFails(r)
             \/ \E l \in Logins : LogOut(l) \/ \E e \in Event : Answer(l, e)
             \/ \E s \in Sessions : ClaimFails(s) \/ \E u \in Users : Claim(s, u)
             \/ UNCHANGED vars
      PROVE  Unopened(d)'
  BY <1>1, <1>2, <1>5, WorldSame
<1> QED BY <1>3, <1>4, <1>5 DEF Next, ConnStep

(* The client's frames go through a filtered channel: each is delivered or  *)
(* refused once, in the order of sending but for one turn.                  *)
THEOREM UplinkRefines == Spec => UplinkIsChannel
<1>1. Init => ChannelInv /\ Up!Init
  <2> SUFFICES ASSUME Init PROVE ChannelInv /\ Up!Init
    OBVIOUS
  <2>1. ChannelInv
    BY MuxInitInv DEF Init, ChannelInv, Unopened
  <2>2. NumbersOf(<<>> \o <<>>) = <<>>
    <3>1. <<>> \in Seq(UpFrame) /\ <<>> \o <<>> = <<>>
      OBVIOUS
    <3> QED BY <3>1, NumbersOfFacts, EmptySeq, LenProperties
  <2> QED BY <2>1, <2>2 DEF Init, Up!Init
<1>2. ChannelInv /\ [Next]_vars => ChannelInv' /\ [Up!Next]_Up!vars
  <2> SUFFICES ASSUME ChannelInv, [Next]_vars PROVE ChannelInv' /\ [Up!Next]_Up!vars
    OBVIOUS
  <2>1. MuxInv'
    BY MuxNextInv DEF ChannelInv
  <2>2. TypeOK'
    BY <2>1 DEF MuxInv
  <2> QED BY <2>1, <2>2, StepRefines, UnopenedKept DEF ChannelInv
<1> QED BY <1>1, <1>2, PTL DEF Spec, UplinkIsChannel, Up!Spec

-----------------------------------------------------------------------------
(* The session table.  Every copy of it, in memory, on its way to the file  *)
(* and in the file, has an entry of a token only as long as the last use of *)
(* the token allows; what the file will hold once the writes in flight have *)
(* landed follows the table as long as they land in the order of the calls. *)
FreshAt(table, time, use) ==
  \A t \in Tokens : table[Key(t)] # None =>
    use[t] \in 0..time /\ table[Key(t)].exp <= use[t] + TTL
Fresh(table) == FreshAt(table, now, lastUse)
CopiesAreFresh == Fresh(sessions) /\ Fresh(file) /\ \A i \in 1..Len(writes) : Fresh(writes[i])

Latest == IF writes = <<>> THEN file ELSE writes[Len(writes)]
Agrees(k) ==
  /\ sessions[k] # None => Latest[k] # None /\ Latest[k].exp <= sessions[k].exp
  /\ sessions[k] = None => Restored(Latest[k], known) = None

SessionsInv ==
  /\ SessionsTypeOK
  /\ CopiesAreFresh
  /\ ~up => writes = <<>>
  /\ up /\ orderly => \A k \in Keys : Agrees(k)

LEMMA KeyFacts ==
  /\ \A t \in Tokens : Key(t) \in Keys
  /\ \A k \in Keys : \E t \in Tokens : k = Key(t)
  /\ \A s, t \in Tokens : Key(s) = Key(t) => s = t
BY DEF Keys, Key

(* Taking an element out of a sequence leaves the others. *)
LEMMA RemoveAtFacts ==
  ASSUME NEW S, NEW s \in Seq(S), NEW i \in 1..Len(s)
  PROVE  /\ RemoveAt(s, i) \in Seq(S)
         /\ Len(RemoveAt(s, i)) = Len(s) - 1
         /\ \A j \in 1..Len(RemoveAt(s, i)) :
              \E k \in 1..Len(s) : RemoveAt(s, i)[j] = s[k]
         /\ i = 1 => \A j \in 1..Len(RemoveAt(s, i)) : RemoveAt(s, i)[j] = s[j + 1]
<1> DEFINE a == SubSeq(s, 1, i - 1)
           b == SubSeq(s, i + 1, Len(s))
<1>1. Len(s) \in Nat /\ \A j \in 1..Len(s) : s[j] \in S
  BY LenProperties, ElementOfSeq
<1>2. a \in Seq(S) /\ Len(a) = i - 1 /\ \A j \in 1..i - 1 : a[j] = s[j]
  <2>1. \A j \in 1..i - 1 : s[j] \in S
    BY <1>1
  <2> QED BY <1>1, <2>1, SubSeqProperties
<1>3. b \in Seq(S) /\ Len(b) = Len(s) - i /\ \A j \in 1..Len(s) - i : b[j] = s[i + j]
  <2>1. \A j \in i + 1..Len(s) : s[j] \in S
    BY <1>1
  <2> QED BY <1>1, <2>1, SubSeqProperties
<1> HIDE DEF a, b
<1>4. /\ a \o b \in Seq(S) /\ Len(a \o b) = Len(s) - 1
      /\ \A j \in 1..Len(s) - 1 : (a \o b)[j] = IF j <= i - 1 THEN a[j] ELSE b[j - (i - 1)]
  <2>1. Len(a) + Len(b) = Len(s) - 1
    BY <1>1, <1>2, <1>3
  <2>2. /\ a \o b \in Seq(S) /\ Len(a \o b) = Len(a) + Len(b)
        /\ \A j \in 1..Len(a) + Len(b) : (a \o b)[j] = IF j <= Len(a) THEN a[j] ELSE b[j - Len(a)]
    BY <1>2, <1>3, ConcatProperties
  <2>3. Len(a) = i - 1
    BY <1>2
  <2> QED BY <2>1, <2>2, <2>3
<1>5. RemoveAt(s, i) = a \o b
  BY DEF RemoveAt, a, b
<1>6. ASSUME NEW j \in 1..Len(s) - 1
      PROVE  (a \o b)[j] = IF j <= i - 1 THEN s[j] ELSE s[j + 1]
  <2>1. CASE j <= i - 1
    BY <1>1, <1>2, <1>4, <2>1
  <2>2. CASE ~(j <= i - 1)
    <3>1. j - (i - 1) \in 1..Len(s) - i /\ i + (j - (i - 1)) = j + 1
      BY <1>1, <2>2
    <3> QED BY <1>3, <1>4, <2>2, <3>1
  <2> QED BY <2>1, <2>2
<1>7. \A j \in 1..Len(s) - 1 : j \in 1..Len(s) /\ j + 1 \in 1..Len(s) /\ ~(j <= 1 - 1)
  BY <1>1
<1> QED BY <1>4, <1>5, <1>6, <1>7

LEMMA SaveFacts ==
  ASSUME SessionsTypeOK, NEW table \in SessionTable, Save(table)
  PROVE  /\ sessions' = table
         /\ writes' \in Seq(SessionTable) /\ writes' # <<>> /\ Len(writes') = Len(writes) + 1
         /\ \A i \in 1..Len(writes) : writes'[i] = writes[i]
         /\ writes'[Len(writes')] = table
BY DEF SessionsTypeOK, Save

LEMMA WithoutFacts ==
  ASSUME NEW table \in SessionTable, NEW ks
  PROVE  /\ Without(table, ks) \in SessionTable
         /\ \A k \in Keys : Without(table, ks)[k] = None \/ Without(table, ks)[k] = table[k]
BY DEF SessionTable, Without

(* The clock and the uses only go forward, which leaves a copy fresh.       *)
LEMMA FreshLater ==
  ASSUME SessionsTypeOK, SessionsTypeOK', now <= now',
         \A t \in Tokens : lastUse'[t] = lastUse[t] \/ lastUse'[t] = now
  PROVE  \A table \in SessionTable : Fresh(table) => FreshAt(table, now', lastUse')
<1> SUFFICES ASSUME NEW table \in SessionTable, Fresh(table), NEW t \in Tokens, table[Key(t)] # None
             PROVE  lastUse'[t] \in 0..now' /\ table[Key(t)].exp <= lastUse'[t] + TTL
  BY DEF FreshAt
<1>1. lastUse[t] \in 0..now /\ table[Key(t)].exp <= lastUse[t] + TTL
  BY DEF Fresh, FreshAt
<1>2. table[Key(t)].exp \in Nat /\ now \in Nat /\ now' \in Nat /\ TTL \in Nat
  BY KeyFacts, SessionsAssumption DEF SessionTable, Session, SessionsTypeOK
<1> QED BY <1>1, <1>2

(* A copy whose entries are entries of a fresh one is fresh. *)
LEMMA FreshPart ==
  ASSUME NEW table, NEW part, NEW time, NEW use, FreshAt(table, time, use),
         \A k \in Keys : part[k] = None \/ part[k] = table[k]
  PROVE  FreshAt(part, time, use)
BY KeyFacts DEF FreshAt

(* A table that has just been handed over agrees with its copy. *)
LEMMA SavedAgrees ==
  ASSUME SessionsTypeOK', sessions' = Latest'
  PROVE  \A k \in Keys : Agrees(k)'
<1> SUFFICES ASSUME NEW k \in Keys PROVE Agrees(k)'
  OBVIOUS
<1>1. sessions'[k] # None => sessions'[k].exp \in Nat
  BY SessionsAssumption DEF SessionsTypeOK, SessionTable, Session
<1> QED BY <1>1 DEF Agrees, Restored

(* The table is replaced and handed over. *)
LEMMA SaveKept ==
  ASSUME SessionsInv, NEW table \in SessionTable, Save(table),
         UNCHANGED <<up, now, file>>, known' \subseteq Users, leaving' \subseteq Tokens,
         lastUse' \in [Tokens -> 0..MaxTime \cup {None}],
         \A t \in Tokens : lastUse'[t] = lastUse[t] \/ lastUse'[t] = now,
         FreshAt(table, now, lastUse')
  PROVE  SessionsTypeOK' /\ CopiesAreFresh' /\ \A k \in Keys : Agrees(k)'
<1>0. SessionsTypeOK /\ now \in Nat
  BY SessionsAssumption DEF SessionsInv, SessionsTypeOK
<1>1. SessionsTypeOK'
  BY <1>0, SaveFacts DEF SessionsTypeOK
<1>2. Latest' = table /\ sessions' = table
  BY <1>0, SaveFacts DEF Latest
<1>3. CopiesAreFresh'
  <2>1. \A x \in SessionTable : Fresh(x) => FreshAt(x, now', lastUse')
    BY <1>0, <1>1, FreshLater
  <2>2. Fresh(file)' /\ Fresh(sessions)'
    BY <1>2, <2>1 DEF Fresh, SessionsInv, CopiesAreFresh, SessionsTypeOK
  <2>3. ASSUME NEW i \in 1..Len(writes') PROVE FreshAt(writes'[i], now', lastUse')
    <3>1. Len(writes) \in Nat /\ Len(writes') = Len(writes) + 1 /\ writes \in Seq(SessionTable)
      BY <1>0, SaveFacts DEF SessionsTypeOK
    <3>2. CASE i \in 1..Len(writes)
      <4>1. writes'[i] = writes[i] /\ writes[i] \in SessionTable /\ Fresh(writes[i])
        BY <1>0, <3>1, <3>2, SaveFacts, ElementOfSeq DEF SessionsInv, CopiesAreFresh
      <4>2. FreshAt(writes[i], now', lastUse')
        BY <2>1, <4>1
      <4> QED BY <4>1, <4>2
    <3>3. CASE i = Len(writes')
      BY <1>0, <3>3, SaveFacts
    <3> QED BY <3>1, <3>2, <3>3
  <2> QED BY <2>2, <2>3 DEF CopiesAreFresh, Fresh
<1> QED BY <1>1, <1>2, <1>3, SavedAgrees

(* Sessions are taken out of the table. *)
LEMMA DestroyKept ==
  ASSUME SessionsInv, NEW ks \in SUBSET Keys, Destroy(ks), up' = up,
         known' \subseteq known, leaving' \subseteq Tokens
  PROVE  /\ SessionsTypeOK' /\ CopiesAreFresh'
         /\ (\A k \in Keys : Agrees(k)) => \A k \in Keys : Agrees(k)'
<1>0. SessionsTypeOK /\ Fresh(sessions)
  BY DEF SessionsInv, CopiesAreFresh
<1>1. CASE ks = {}
  <2>1. UNCHANGED <<now, sessions, writes, file, lastUse>>
    BY <1>0, <1>1 DEF Destroy, SessionsTypeOK
  <2>2. SessionsTypeOK'
    BY <1>0, <2>1 DEF SessionsTypeOK
  <2>3. CopiesAreFresh'
    BY <2>1 DEF SessionsInv, CopiesAreFresh, Fresh
  <2>4. ASSUME NEW k \in Keys, Agrees(k) PROVE Agrees(k)'
    BY <2>1, <2>4 DEF Agrees, Latest, Restored
  <2> QED BY <2>2, <2>3, <2>4
<1>2. CASE ks # {}
  <2>1. Save(Without(sessions, ks)) /\ UNCHANGED <<now, file, lastUse>>
    BY <1>0, <1>2 DEF Destroy, SessionsTypeOK
  <2>2. Without(sessions, ks) \in SessionTable /\ FreshAt(Without(sessions, ks), now, lastUse)
    BY <1>0, WithoutFacts, FreshPart DEF Fresh, SessionsTypeOK
  <2>3. known' \subseteq Users /\ lastUse' \in [Tokens -> 0..MaxTime \cup {None}]
    BY <1>0, <2>1 DEF SessionsTypeOK
  <2> QED BY <2>1, <2>2, <2>3, SaveKept
<1> QED BY <1>1, <1>2

(* Nothing but the clock and the use of a token moves; no copy is made.     *)
LEMMA QuietKept ==
  ASSUME SessionsInv, SessionsTypeOK', UNCHANGED <<up, writes, file>>, now <= now',
         \A t \in Tokens : lastUse'[t] = lastUse[t] \/ lastUse'[t] = now,
         Fresh(sessions)'
  PROVE  CopiesAreFresh'
<1>0. SessionsTypeOK /\ CopiesAreFresh
  BY DEF SessionsInv
<1>1. \A x \in SessionTable : Fresh(x) => FreshAt(x, now', lastUse')
  BY <1>0, FreshLater
<1>2. FreshAt(file, now', lastUse')
  BY <1>0, <1>1 DEF CopiesAreFresh, SessionsTypeOK
<1>3. ASSUME NEW i \in 1..Len(writes) PROVE FreshAt(writes[i], now', lastUse')
  <2>1. writes[i] \in SessionTable
    BY <1>0, ElementOfSeq DEF SessionsTypeOK
  <2> QED BY <1>0, <1>1, <2>1 DEF CopiesAreFresh
<1> QED BY <1>2, <1>3 DEF CopiesAreFresh, Fresh

(* One of the copies in flight leaves. *)
LEMMA WriteKept ==
  ASSUME SessionsInv, NEW i \in 1..Len(writes), writes' = RemoveAt(writes, i),
         UNCHANGED <<up, known, now, sessions, leaving, lastUse>>,
         file' = file \/ file' = writes[i]
  PROVE  SessionsTypeOK' /\ CopiesAreFresh'
<1>0. SessionsTypeOK /\ CopiesAreFresh
  BY DEF SessionsInv
<1>1. writes \in Seq(SessionTable) /\ writes[i] \in SessionTable /\ Fresh(writes[i])
  BY <1>0, ElementOfSeq DEF SessionsTypeOK, CopiesAreFresh
<1>2. SessionsTypeOK'
  BY <1>0, <1>1, RemoveAtFacts DEF SessionsTypeOK
<1>3. ASSUME NEW j \in 1..Len(writes') PROVE FreshAt(writes'[j], now, lastUse)
  <2>1. PICK k \in 1..Len(writes) : writes'[j] = writes[k]
    BY <1>1, <1>3, RemoveAtFacts
  <2> QED BY <1>0, <2>1 DEF CopiesAreFresh, Fresh
<1>4. FreshAt(file', now, lastUse) /\ FreshAt(sessions', now, lastUse)
  BY <1>0, <1>1 DEF CopiesAreFresh, Fresh
<1> QED BY <1>2, <1>3, <1>4 DEF CopiesAreFresh, Fresh

LEMMA CreateKept ==
  ASSUME SessionsInv, NEW t \in Tokens, NEW u \in Users, CreateSession(t, u),
         UNCHANGED <<up, known>>
  PROVE  SessionsTypeOK' /\ CopiesAreFresh' /\ \A k \in Keys : Agrees(k)'
<1>0. SessionsTypeOK /\ Fresh(sessions)
  BY DEF SessionsInv, CopiesAreFresh
<1>1. now \in 0..MaxTime /\ now \in Nat /\ MaxTime \in Nat /\ TTL \in Nat
  BY <1>0, SessionsAssumption DEF SessionsTypeOK
<1>2. now + TTL \in 0..MaxTime + TTL
  BY <1>1
<1> DEFINE e == [user |-> u, exp |-> now + TTL]
           table == [sessions EXCEPT ![Key(t)] = e]
<1>3. e \in Session /\ e.exp = now + TTL
  BY <1>2 DEF Session
<1> HIDE DEF e
<1>4. table \in SessionTable
  BY <1>0, <1>3, KeyFacts DEF SessionTable, SessionsTypeOK
<1>5. Save(table) /\ lastUse' = [lastUse EXCEPT ![t] = now] /\ UNCHANGED <<now, file, leaving>>
  BY DEF CreateSession, e
<1>6. lastUse' \in [Tokens -> 0..MaxTime \cup {None}] /\ lastUse'[t] = now
      /\ \A s \in Tokens \ {t} : lastUse'[s] = lastUse[s]
  BY <1>0, <1>1, <1>5 DEF SessionsTypeOK
<1>7. FreshAt(table, now, lastUse')
  <2> SUFFICES ASSUME NEW s \in Tokens, table[Key(s)] # None
               PROVE  lastUse'[s] \in 0..now /\ table[Key(s)].exp <= lastUse'[s] + TTL
    BY DEF FreshAt
  <2>1. CASE s = t
    <3>1. table[Key(s)] = e
      BY <1>0, <2>1, KeyFacts DEF SessionTable, SessionsTypeOK
    <3> QED BY <1>1, <1>2, <1>3, <1>6, <2>1, <3>1
  <2>2. CASE s # t
    <3>1. table[Key(s)] = sessions[Key(s)]
      BY <1>0, <2>2, KeyFacts DEF SessionTable, SessionsTypeOK
    <3> QED BY <1>0, <1>6, <2>2, <3>1 DEF Fresh, FreshAt
  <2> QED BY <2>1, <2>2
<1>8. known' \subseteq Users /\ leaving' \subseteq Tokens
  BY <1>0, <1>5 DEF SessionsTypeOK
<1> HIDE DEF table
<1> QED BY <1>4, <1>5, <1>6, <1>7, <1>8, SaveKept

(* A use drops an expired entry, which no restart would restore either, or  *)
(* prolongs it, which leaves its copies behind.                             *)
LEMMA ResolveKept ==
  ASSUME SessionsInv, NEW t \in Tokens, ResolveSession(t), UNCHANGED <<up, known>>
  PROVE  /\ SessionsTypeOK' /\ CopiesAreFresh'
         /\ (\A k \in Keys : Agrees(k)) => \A k \in Keys : Agrees(k)'
<1>0. SessionsTypeOK /\ Fresh(sessions)
  BY DEF SessionsInv, CopiesAreFresh
<1>1. now \in 0..MaxTime /\ now \in Nat /\ MaxTime \in Nat /\ TTL \in Nat
  BY <1>0, SessionsAssumption DEF SessionsTypeOK
<1>2. now + TTL \in 0..MaxTime + TTL
  BY <1>1
<1>3. /\ sessions[Key(t)] # None /\ sessions[Key(t)] \in Session /\ Key(t) \in Keys
      /\ lastUse[t] \in 0..now /\ sessions[Key(t)].exp <= lastUse[t] + TTL
      /\ sessions[Key(t)].exp \in Nat
  BY <1>0, KeyFacts, SessionsAssumption DEF ResolveSession, SessionsTypeOK, SessionTable, Fresh, FreshAt, Session
<1> DEFINE e == [sessions[Key(t)] EXCEPT !.exp = now + TTL]
<1>4. e \in Session /\ e # None /\ e.exp = now + TTL
  BY <1>2, <1>3, SessionsAssumption DEF Session
<1>5. /\ sessions'[Key(t)] = IF Expired(sessions[Key(t)]) THEN None ELSE e
      /\ \A k \in Keys \ {Key(t)} : sessions'[k] = sessions[k]
      /\ lastUse' = IF Expired(sessions[Key(t)]) THEN lastUse ELSE [lastUse EXCEPT ![t] = now]
      /\ UNCHANGED <<now, writes, file, leaving>>
  BY <1>0, <1>3 DEF ResolveSession, SessionsTypeOK, SessionTable
<1> HIDE DEF e
<1>6. sessions' \in SessionTable
  <2>1. sessions' = [sessions EXCEPT ![Key(t)] = sessions'[Key(t)]] /\ sessions'[Key(t)] \in Session \cup {None}
    BY <1>0, <1>3, <1>4, <1>5 DEF ResolveSession, SessionsTypeOK, SessionTable
  <2> QED BY <1>0, <2>1 DEF SessionsTypeOK, SessionTable
<1>7. /\ lastUse' \in [Tokens -> 0..MaxTime \cup {None}]
      /\ \A s \in Tokens : lastUse'[s] = lastUse[s] \/ (s = t /\ lastUse'[s] = now)
      /\ ~Expired(sessions[Key(t)]) => lastUse'[t] = now
  BY <1>0, <1>1, <1>5 DEF SessionsTypeOK
<1>8. SessionsTypeOK'
  BY <1>0, <1>5, <1>6, <1>7 DEF SessionsTypeOK
<1>9. Fresh(sessions)'
  <2> SUFFICES ASSUME NEW s \in Tokens, sessions'[Key(s)] # None
               PROVE  lastUse'[s] \in 0..now /\ sessions'[Key(s)].exp <= lastUse'[s] + TTL
    BY <1>5 DEF Fresh, FreshAt
  <2>1. CASE s = t
    BY <1>1, <1>2, <1>4, <1>5, <1>7, <2>1
  <2>2. CASE s # t
    <3>1. sessions'[Key(s)] = sessions[Key(s)] /\ lastUse'[s] = lastUse[s]
      BY <1>5, <1>7, <2>2, KeyFacts
    <3> QED BY <1>0, <3>1 DEF Fresh, FreshAt
  <2> QED BY <2>1, <2>2
<1>10. CopiesAreFresh'
  BY <1>1, <1>5, <1>7, <1>8, <1>9, QuietKept
<1>11. ASSUME NEW k \in Keys, Agrees(k) PROVE Agrees(k)'
  <2>1. Latest' = Latest /\ UNCHANGED <<now, known>>
    BY <1>5 DEF Latest
  <2>2. CASE k # Key(t)
    BY <1>5, <1>11, <2>1, <2>2 DEF Agrees, Restored
  <2>3. CASE k = Key(t)
    <3>1. Latest[k] # None /\ Latest[k].exp <= sessions[k].exp
      BY <1>3, <1>11, <2>3 DEF Agrees
    <3>2. Latest[k].exp \in Nat
      <4>1. Latest \in SessionTable
        BY <1>0, ElementOfSeq DEF SessionsTypeOK, Latest
      <4> QED BY <3>1, <4>1, SessionsAssumption DEF SessionTable, Session
    <3>3. CASE Expired(sessions[k])
      <4>1. Latest[k].exp <= now
        BY <1>1, <1>3, <2>3, <3>1, <3>2, <3>3 DEF Expired
      <4> QED BY <1>5, <2>1, <2>3, <3>3, <4>1 DEF Agrees, Restored
    <3>4. CASE ~Expired(sessions[k])
      <4>1. sessions'[k] = e
        BY <1>5, <2>3, <3>4
      <4>2. Latest[k].exp <= now + TTL
        <5>1. sessions[k].exp <= now + TTL
          BY <1>1, <1>3, <2>3
        <5> QED BY <1>1, <1>3, <2>3, <3>1, <3>2, <5>1
      <4> QED BY <1>4, <2>1, <3>1, <4>1, <4>2 DEF Agrees
    <3> QED BY <3>3, <3>4
  <2> QED BY <2>2, <2>3
<1> QED BY <1>8, <1>10, <1>11

(* A restart restores what the file allows. *)
LEMMA LoadKept ==
  ASSUME SessionsInv, writes = <<>>, LoadSessions(known), up' \in BOOLEAN, UNCHANGED known
  PROVE  SessionsTypeOK' /\ CopiesAreFresh' /\ \A k \in Keys : Agrees(k)'
<1>0. SessionsTypeOK /\ Fresh(file)
  BY DEF SessionsInv, CopiesAreFresh
<1>1. now \in 0..MaxTime /\ now \in Nat /\ MaxTime \in Nat /\ TTL \in Nat
  BY <1>0, SessionsAssumption DEF SessionsTypeOK
<1>2. UNCHANGED <<now, writes, file, leaving, lastUse>>
  BY DEF LoadSessions
<1>3. ASSUME NEW k \in Keys, Restored(file[k], known) # None
      PROVE  /\ file[k] # None /\ sessions'[k] = file[k]
             /\ file[k] \in Session /\ file[k].exp \in Nat
  <2>1. PICK t \in Tokens : k = Key(t)
    BY KeyFacts
  <2>2. file[k] # None /\ file[k] \in Session
    BY <1>0, <1>3 DEF Restored, SessionsTypeOK, SessionTable
  <2>3. lastUse[t] \in 0..now /\ file[k].exp <= lastUse[t] + TTL /\ file[k].exp \in Nat
    BY <1>0, <2>1, <2>2 DEF Fresh, FreshAt, Session
  <2>4. file[k].exp < now + TTL \/ file[k].exp = now + TTL
    BY <1>1, <2>3
  <2>5. Restored(file[k], known) = [file[k] EXCEPT !.exp = file[k].exp]
    BY <1>3, <2>4 DEF Restored
  <2>6. [file[k] EXCEPT !.exp = file[k].exp] = file[k]
    BY <2>2 DEF Session
  <2> QED BY <1>3, <2>2, <2>3, <2>5, <2>6 DEF LoadSessions
<1>4. \A k \in Keys : sessions'[k] = None \/ sessions'[k] = file[k]
  BY <1>3 DEF LoadSessions
<1>5. sessions' \in SessionTable
  <2>1. \A k \in Keys : Restored(file[k], known) \in Session \cup {None}
    BY <1>3 DEF LoadSessions
  <2> QED BY <2>1 DEF LoadSessions, SessionTable
<1>6. SessionsTypeOK'
  BY <1>0, <1>2, <1>5 DEF SessionsTypeOK
<1>7. FreshAt(sessions', now, lastUse)
  BY <1>0, <1>4, FreshPart DEF Fresh
<1>8. CopiesAreFresh'
  BY <1>2, <1>7 DEF SessionsInv, CopiesAreFresh, Fresh
<1>9. ASSUME NEW k \in Keys PROVE Agrees(k)'
  <2>1. Latest' = file /\ known' = known /\ now' = now
    BY <1>2 DEF Latest
  <2>2. sessions'[k] = Restored(file[k], known)
    BY DEF LoadSessions
  <2>3. sessions'[k] # None => Latest'[k] # None /\ Latest'[k].exp <= sessions'[k].exp
    BY <1>3, <2>1, <2>2
  <2>4. Restored(Latest[k], known)' = Restored(file[k], known)
    BY <2>1 DEF Restored
  <2> QED BY <2>2, <2>3, <2>4 DEF Agrees
<1> QED BY <1>6, <1>8, <1>9

LEMMA InitSessionsInv == SessionsInit /\ orderly = TRUE => SessionsInv
<1> SUFFICES ASSUME SessionsInit, orderly = TRUE PROVE SessionsInv
  OBVIOUS
<1>1. now \in 0..MaxTime /\ NoSessions \in SessionTable /\ writes \in Seq(SessionTable)
  BY SessionsAssumption DEF SessionsInit, NoSessions, SessionTable
<1>2. SessionsTypeOK
  BY <1>1 DEF SessionsInit, SessionsTypeOK
<1>3. Fresh(NoSessions) /\ Len(writes) = 0 /\ ~up /\ sessions = NoSessions /\ file = NoSessions /\ writes = <<>>
  BY KeyFacts DEF SessionsInit, Fresh, FreshAt, NoSessions
<1> QED BY <1>2, <1>3 DEF SessionsInv, CopiesAreFresh

LEMMA NextSessionsInv ==
  ASSUME SessionsInv, [MCNext]_mcVars
  PROVE  SessionsInv'
<1>0. SessionsTypeOK /\ CopiesAreFresh /\ (~up => writes = <<>>)
  BY DEF SessionsInv
<1>a. ASSUME UNCHANGED up, SessionsTypeOK', CopiesAreFresh', ~up => writes' = <<>>,
             ~Boot, MCNext,
             (\A k \in Keys : Agrees(k)) => \A k \in Keys : Agrees(k)'
      PROVE  SessionsInv'
  BY <1>a DEF SessionsInv, MCNext
<1>1. ASSUME NEW t \in Tokens, NEW u \in Users, Login(t, u), MCNext PROVE SessionsInv'
  <2>1. CreateSession(t, u) /\ UNCHANGED <<up, known>> /\ up
    BY <1>1 DEF Login, CanWrite
  <2> QED BY <1>a, <1>1, <2>1, CreateKept DEF Boot
<1>2. ASSUME NEW t \in Tokens, Use(t), MCNext PROVE SessionsInv'
  <2>1. ResolveSession(t) /\ UNCHANGED <<up, known>> /\ up
    BY <1>2 DEF Use
  <2> QED BY <1>a, <1>2, <2>1, ResolveKept DEF Boot
<1>3. ASSUME NEW t \in Tokens, Logout(t), MCNext PROVE SessionsInv'
  <2>1. UNCHANGED <<up, known, now, sessions, writes, file, lastUse>> /\ leaving' \subseteq Tokens /\ up
    BY <1>0, <1>3 DEF Logout, SessionsTypeOK
  <2>2. SessionsTypeOK' /\ CopiesAreFresh'
    BY <1>0, <2>1 DEF SessionsTypeOK, CopiesAreFresh, Fresh
  <2> QED BY <1>a, <1>3, <2>1, <2>2 DEF Boot, Agrees, Latest, Restored
<1>4. ASSUME NEW ks \in SUBSET Keys, Destroy(ks), up, UNCHANGED up, known' \subseteq known, leaving' \subseteq Tokens, MCNext
      PROVE  SessionsInv'
  BY <1>a, <1>4, DestroyKept DEF Boot
<1>5. ASSUME NEW t \in Tokens, LogoutDone(t), MCNext PROVE SessionsInv'
  <2>1. Destroy({k \in {Key(t)} : sessions[k] # None}) /\ up /\ UNCHANGED <<up, known>> /\ leaving' \subseteq Tokens
    BY <1>0, <1>5 DEF LogoutDone, DestroySession, CanWrite, SessionsTypeOK
  <2> QED BY <1>4, <1>5, <2>1, KeyFacts
<1>6. ASSUME NEW u, InvalidateSessions(u, None) \/ \E t \in Tokens : InvalidateSessions(u, t),
             up, UNCHANGED <<up, leaving>>, known' \subseteq known, MCNext
      PROVE  SessionsInv'
  <2>1. \E ks \in SUBSET Keys : Destroy(ks)
    BY <1>6 DEF InvalidateSessions, KeysOf
  <2> QED BY <1>0, <1>4, <1>6, <2>1 DEF SessionsTypeOK
<1>7. ASSUME NEW t \in Tokens, ChangePassword(t), MCNext PROVE SessionsInv'
  BY <1>6, <1>7 DEF ChangePassword, CanWrite
<1>8. ASSUME NEW u \in Users, RemoveUser(u) \/ UserRemoved(u), MCNext PROVE SessionsInv'
  <2>1. CASE RemoveUser(u)
    <3>1. Destroy({}) /\ up /\ UNCHANGED up /\ known' \subseteq known /\ leaving' = leaving
      BY <2>1 DEF RemoveUser, Destroy, tableVars
    <3> QED BY <1>0, <1>4, <1>8, <3>1 DEF SessionsTypeOK
  <2>2. CASE UserRemoved(u)
    BY <1>6, <1>8, <2>2 DEF UserRemoved, CanWrite
  <2> QED BY <1>8, <2>1, <2>2
<1>9. CASE Sweep /\ MCNext
  <2> DEFINE stale == {k \in Keys : sessions[k] # None /\ Expired(sessions[k])}
  <2>1. up /\ Save(Without(sessions, stale)) /\ UNCHANGED <<up, known, now, file, leaving, lastUse>>
    BY <1>9 DEF Sweep
  <2>2. Without(sessions, stale) \in SessionTable /\ FreshAt(Without(sessions, stale), now, lastUse)
    BY <1>0, WithoutFacts, FreshPart DEF CopiesAreFresh, Fresh, SessionsTypeOK
  <2>3. SessionsTypeOK' /\ CopiesAreFresh' /\ \A k \in Keys : Agrees(k)'
    BY <1>0, <2>1, <2>2, SaveKept DEF SessionsTypeOK
  <2> QED BY <1>a, <1>9, <2>1, <2>3 DEF Boot
<1>10. CASE Tick /\ MCNext
  <2>1. now < MaxTime /\ now' = now + 1 /\ UNCHANGED <<up, known, sessions, writes, file, leaving, lastUse>>
    BY <1>10 DEF Tick
  <2>2. now \in Nat /\ now' \in Nat /\ now <= now' /\ now' \in 0..MaxTime
    BY <1>0, <2>1, SessionsAssumption DEF SessionsTypeOK
  <2>3. SessionsTypeOK'
    BY <1>0, <2>1, <2>2 DEF SessionsTypeOK
  <2>4. Fresh(sessions)'
    BY <1>0, <2>1, <2>2, <2>3, FreshLater DEF CopiesAreFresh, Fresh, SessionsTypeOK
  <2>5. CopiesAreFresh'
    BY <2>1, <2>2, <2>3, <2>4, QuietKept
  <2>6. ASSUME NEW k \in Keys, Agrees(k) PROVE Agrees(k)'
    <3>1. Latest' = Latest /\ Latest \in SessionTable
      BY <1>0, <2>1, ElementOfSeq DEF Latest, SessionsTypeOK
    <3>2. Latest[k] # None => Latest[k].exp \in Nat
      BY <3>1, SessionsAssumption DEF SessionTable, Session
    <3>3. Restored(Latest[k], known) = None => Restored(Latest[k], known)' = None
      <4>1. Restored(Latest[k], known) = None =>
              Latest[k] = None \/ Latest[k].exp <= now \/ Latest[k].user \notin known
        <5> SUFFICES ASSUME Latest[k] # None, ~(Latest[k].exp <= now), Latest[k].user \in known
                     PROVE  Restored(Latest[k], known) # None
          OBVIOUS
        <5> DEFINE x == IF Latest[k].exp < now + TTL THEN Latest[k].exp ELSE now + TTL
        <5>1. x \in 0..MaxTime + TTL /\ Latest[k] \in Session
          BY <2>2, <3>1, <3>2, SessionsAssumption DEF SessionTable, Session
        <5>2. [Latest[k] EXCEPT !.exp = x] \in Session
          BY <5>1 DEF Session
        <5> QED BY <5>2, SessionsAssumption DEF Restored
      <4>2. Latest[k] # None /\ Latest[k].exp <= now => Latest[k].exp <= now'
        BY <2>2, <3>2
      <4> QED BY <2>1, <3>1, <4>1, <4>2 DEF Restored
    <3> QED BY <2>1, <2>6, <3>1, <3>3 DEF Agrees
  <2>7. ~Boot
    BY <1>0, <2>1 DEF Boot, SessionsTypeOK
  <2> QED BY <1>a, <1>0, <1>10, <2>1, <2>3, <2>5, <2>6, <2>7
<1>11. ASSUME NEW i \in Completable, WriteLands(i), MCNext PROVE SessionsInv'
  <2>1. /\ i \in 1..Len(writes) /\ writes' = RemoveAt(writes, i) /\ file' = writes[i]
        /\ UNCHANGED <<up, known, now, sessions, leaving, lastUse>>
    BY <1>11 DEF WriteLands, Completable
  <2>2. SessionsTypeOK' /\ CopiesAreFresh'
    BY <2>1, WriteKept
  <2>3. Len(writes) \in Nat /\ writes \in Seq(SessionTable) /\ writes # <<>> /\ up
    BY <1>0, <2>1 DEF SessionsTypeOK
  <2>4. ~Boot
    BY <2>3 DEF Boot
  <2>5. orderly' => i = 1 /\ orderly
    <3>1. orderly' => orderly /\ ~Landed
      BY <1>11, <2>4 DEF MCNext
    <3>2. i # 1 => i > 1
      BY <2>1, <2>3
    <3> QED BY <1>11, <3>1, <3>2 DEF Landed
  <2>6. i = 1 => Latest' = Latest
    <3> SUFFICES ASSUME i = 1 PROVE Latest' = Latest
      OBVIOUS
    <3>1. /\ Len(writes') = Len(writes) - 1 /\ writes' \in Seq(SessionTable)
          /\ \A j \in 1..Len(writes') : writes'[j] = writes[j + 1]
      BY <2>1, <2>3, RemoveAtFacts
    <3>2. CASE Len(writes) = 1
      BY <2>1, <2>3, <3>1, <3>2 DEF Latest
    <3>3. CASE Len(writes) # 1
      <4>1. Len(writes') \in 1..Len(writes') /\ Len(writes') + 1 = Len(writes)
        BY <2>1, <2>3, <3>1, <3>3
      <4> QED BY <2>3, <3>1, <4>1 DEF Latest
    <3> QED BY <3>2, <3>3
  <2>7. i = 1 => \A k \in Keys : Agrees(k) => Agrees(k)'
    BY <2>1, <2>6 DEF Agrees, Restored
  <2> QED BY <2>1, <2>2, <2>3, <2>5, <2>7 DEF SessionsInv
<1>12. ASSUME NEW i \in Completable, WriteFails(i), MCNext PROVE SessionsInv'
  <2>1. /\ i \in 1..Len(writes) /\ writes' = RemoveAt(writes, i) /\ file' = file
        /\ UNCHANGED <<up, known, now, sessions, leaving, lastUse>>
    BY <1>12 DEF WriteFails, Completable
  <2>2. SessionsTypeOK' /\ CopiesAreFresh'
    BY <2>1, WriteKept
  <2>3. up
    <3>1. Len(writes) # 0
      BY <1>0, <2>1 DEF SessionsTypeOK
    <3> QED BY <1>0, <3>1
  <2>4. ~orderly'
    BY <1>12, <2>1, <2>3 DEF MCNext, Rejected, Boot
  <2> QED BY <2>1, <2>2, <2>3, <2>4 DEF SessionsInv
<1>13. CASE Boot
  <2>1. writes = <<>> /\ LoadSessions(known) /\ up' = TRUE /\ UNCHANGED known
    BY <1>0, <1>13 DEF Boot
  <2> QED BY <2>1, LoadKept DEF SessionsInv
<1>14. CASE Crash
  <2>1. /\ up' = FALSE /\ writes' = <<>> /\ sessions' = NoSessions /\ leaving' = {}
        /\ UNCHANGED <<known, now, lastUse>> /\ (file' = file \/ file' = NoSessions)
    BY <1>14 DEF Crash, LoseProcess
  <2>2. NoSessions \in SessionTable /\ Fresh(NoSessions)
    BY KeyFacts DEF NoSessions, SessionTable, Fresh, FreshAt
  <2>3. SessionsTypeOK'
    <3>1. writes' \in Seq(SessionTable) /\ file' \in SessionTable /\ leaving' \subseteq Tokens
      BY <1>0, <2>1, <2>2 DEF SessionsTypeOK
    <3> QED BY <1>0, <2>1, <2>2, <3>1 DEF SessionsTypeOK
  <2>4. CopiesAreFresh'
    BY <1>0, <2>1, <2>2 DEF CopiesAreFresh, Fresh
  <2> QED BY <2>1, <2>3, <2>4 DEF SessionsInv
<1>15. CASE UNCHANGED mcVars
  <2>1. UNCHANGED <<up, known, now, sessions, writes, file, leaving, lastUse, orderly>>
    BY <1>15 DEF mcVars, sessionsVars, tableVars
  <2>2. SessionsTypeOK' /\ CopiesAreFresh'
    BY <1>0, <2>1 DEF SessionsTypeOK, CopiesAreFresh, Fresh
  <2> QED BY <2>1, <2>2 DEF SessionsInv, Agrees, Latest, Restored
<1>16. CASE MCNext
  BY <1>1, <1>2, <1>3, <1>5, <1>7, <1>8, <1>9, <1>10, <1>11, <1>12, <1>13, <1>14, <1>16 DEF MCNext, SessionsNext
<1> QED BY <1>15, <1>16

(* The inductive invariant, for any users, tokens, times and order of the   *)
(* writes.                                                                  *)
THEOREM SessionsInvariant == MCSpec => []SessionsInv
<1>1. MCInit => SessionsInv
  BY InitSessionsInv DEF MCInit
<1>2. SessionsInv /\ [MCNext]_mcVars => SessionsInv'
  BY NextSessionsInv
<1>3. MCSpec => MCInit /\ [][MCNext]_mcVars
  BY PTL DEF MCSpec
<1> QED BY <1>1, <1>2, <1>3, PTL

(* A token that resolves was used within TTL, whatever the disorder of the  *)
(* writes and the restarts: the sliding expiry of resolveSession, and the   *)
(* copy loadSessions reads, which may be older than the last use, never     *)
(* newer.                                                                   *)
LEMMA ResolvesInTime ==
  ASSUME SessionsInv, NEW t \in Tokens, UserOf(t) # None
  PROVE  /\ sessions[Key(t)] # None /\ sessions[Key(t)] \in Session /\ ~Expired(sessions[Key(t)])
         /\ UserOf(t) = sessions[Key(t)].user
         /\ lastUse[t] # None /\ now < lastUse[t] + TTL
<1>1. /\ sessions[Key(t)] # None /\ ~(sessions[Key(t)].exp <= now)
      /\ sessions[Key(t)] \in Session \cup {None} /\ now \in Nat /\ TTL \in Nat
  BY KeyFacts, SessionsAssumption DEF UserOf, Expired, SessionsInv, SessionsTypeOK, SessionTable
<1>2. sessions[Key(t)].exp \in Nat /\ lastUse[t] \in Nat /\ sessions[Key(t)].exp <= lastUse[t] + TTL
  BY <1>1, SessionsAssumption DEF SessionsInv, CopiesAreFresh, Fresh, FreshAt, Session
<1>3. lastUse[t] # None
  BY <1>2, SessionsAssumption
<1>4. now < lastUse[t] + TTL
  BY <1>1, <1>2
<1> QED BY <1>1, <1>3, <1>4 DEF UserOf, Expired

(* Every copy of the table has a token only for the user it was issued to.  *)
IssuedAt(table, pairs) ==
  \A t \in Tokens : table[Key(t)] # None => <<t, table[Key(t)].user>> \in pairs
CopiesAreIssued ==
  IssuedAt(sessions, issued) /\ IssuedAt(file, issued)
  /\ \A i \in 1..Len(writes) : IssuedAt(writes[i], issued)

(* The copies after a step are the table, copies that were there, or empty. *)
CopiesComeFromCopies ==
  /\ file' = file \/ file' = NoSessions \/ \E i \in 1..Len(writes) : file' = writes[i]
  /\ \A j \in 1..Len(writes') :
       writes'[j] = sessions' \/ \E i \in 1..Len(writes) : writes'[j] = writes[i]

LEMMA SaveCopies ==
  ASSUME SessionsTypeOK, NEW table \in SessionTable, Save(table), UNCHANGED file
  PROVE  CopiesComeFromCopies
<1>1. writes \in Seq(SessionTable) /\ Len(writes) \in Nat
  BY DEF SessionsTypeOK
<1> QED BY <1>1, SaveFacts DEF CopiesComeFromCopies

LEMMA QuietCopies ==
  ASSUME UNCHANGED <<file, writes>>
  PROVE  CopiesComeFromCopies
BY DEF CopiesComeFromCopies

LEMMA DestroyFacts ==
  ASSUME SessionsTypeOK, NEW ks \in SUBSET Keys, Destroy(ks)
  PROVE  /\ CopiesComeFromCopies /\ UNCHANGED <<now, lastUse>>
         /\ \A k \in Keys : sessions'[k] = None \/ sessions'[k] = sessions[k]
<1>1. UNCHANGED <<now, file, lastUse>>
  BY DEF Destroy
<1>2. CASE ks = {}
  BY <1>1, <1>2, QuietCopies DEF Destroy
<1>3. CASE ks # {}
  <2>1. Save(Without(sessions, ks))
    BY <1>3 DEF Destroy
  <2>2. Without(sessions, ks) \in SessionTable
    BY WithoutFacts DEF SessionsTypeOK
  <2> QED BY <1>1, <2>1, <2>2, SaveCopies, SaveFacts, WithoutFacts DEF SessionsTypeOK
<1> QED BY <1>2, <1>3

(* The steps in which sessions end or nothing happens to them: the table    *)
(* loses entries and no token is used.                                      *)
OnlyEnds ==
  /\ UNCHANGED <<up, now, lastUse>> /\ CopiesComeFromCopies
  /\ \A k \in Keys : sessions'[k] = None \/ sessions'[k] = sessions[k]

LEMMA DestroyEnds ==
  ASSUME SessionsTypeOK, UNCHANGED up,
         \/ \E t \in Tokens : DestroySession(t)
         \/ \E u \in Users : InvalidateSessions(u, None) \/ \E t \in Tokens : InvalidateSessions(u, t)
  PROVE  OnlyEnds
<1>1. \E ks \in SUBSET Keys : Destroy(ks)
  BY KeyFacts DEF DestroySession, InvalidateSessions, KeysOf
<1> QED BY <1>1, DestroyFacts DEF OnlyEnds

LEMMA CopiesLeft ==
  ASSUME writes \in Seq(SessionTable), NEW i \in 1..Len(writes), writes' = RemoveAt(writes, i)
  PROVE  \A j \in 1..Len(writes') : \E k \in 1..Len(writes) : writes'[j] = writes[k]
<1> SUFFICES ASSUME NEW j \in 1..Len(writes') PROVE \E k \in 1..Len(writes) : writes'[j] = writes[k]
  OBVIOUS
<1>1. j \in 1..Len(RemoveAt(writes, i))
  OBVIOUS
<1>2. PICK k \in 1..Len(writes) : RemoveAt(writes, i)[j] = writes[k]
  BY <1>1, RemoveAtFacts
<1> QED BY <1>2

LEMMA EndingSteps ==
  ASSUME SessionsInv,
         \/ \E t \in Tokens : Logout(t) \/ LogoutDone(t) \/ ChangePassword(t)
         \/ \E t \in Tokens : Use(t) /\ Expired(sessions[Key(t)])
         \/ \E u \in Users : RemoveUser(u) \/ UserRemoved(u)
         \/ Sweep
         \/ \E i \in Completable : WriteLands(i) \/ WriteFails(i)
         \/ UNCHANGED mcVars
  PROVE  OnlyEnds
<1>0. SessionsTypeOK
  BY DEF SessionsInv
<1>1. ASSUME NEW t \in Tokens, Logout(t) PROVE OnlyEnds
  BY <1>1, QuietCopies DEF Logout, OnlyEnds
<1>2. ASSUME NEW t \in Tokens, LogoutDone(t) PROVE OnlyEnds
  BY <1>0, <1>2, DestroyEnds DEF LogoutDone
<1>3. ASSUME NEW t \in Tokens, ChangePassword(t) PROVE OnlyEnds
  <2>1. UserOf(t) \in Users
    BY <1>3, ResolvesInTime DEF ChangePassword, Session
  <2> QED BY <1>0, <1>3, <2>1, DestroyEnds DEF ChangePassword
<1>4. ASSUME NEW t \in Tokens, Use(t), Expired(sessions[Key(t)]) PROVE OnlyEnds
  <2>1. UNCHANGED <<up, now, lastUse, writes, file>> /\ sessions' = [sessions EXCEPT ![Key(t)] = None]
    BY <1>4 DEF Use, ResolveSession
  <2> QED BY <1>0, <2>1, QuietCopies, KeyFacts DEF OnlyEnds, SessionsTypeOK, SessionTable
<1>5. ASSUME NEW u \in Users, RemoveUser(u) \/ UserRemoved(u) PROVE OnlyEnds
  <2>1. CASE RemoveUser(u)
    BY <2>1, QuietCopies DEF RemoveUser, tableVars, OnlyEnds
  <2>2. CASE UserRemoved(u)
    BY <1>0, <2>2, DestroyEnds DEF UserRemoved
  <2> QED BY <1>5, <2>1, <2>2
<1>6. CASE Sweep
  <2> DEFINE stale == {k \in Keys : sessions[k] # None /\ Expired(sessions[k])}
  <2>1. Save(Without(sessions, stale)) /\ UNCHANGED <<up, now, file, lastUse>>
    BY <1>6 DEF Sweep
  <2>2. Without(sessions, stale) \in SessionTable
        /\ \A k \in Keys : Without(sessions, stale)[k] = None \/ Without(sessions, stale)[k] = sessions[k]
    BY <1>0, WithoutFacts DEF SessionsTypeOK
  <2> HIDE DEF stale
  <2> QED BY <1>0, <2>1, <2>2, SaveCopies, SaveFacts DEF OnlyEnds
<1>7. ASSUME NEW i \in Completable, WriteLands(i) \/ WriteFails(i) PROVE OnlyEnds
  <2>1. /\ i \in 1..Len(writes) /\ writes' = RemoveAt(writes, i) /\ (file' = writes[i] \/ file' = file)
        /\ UNCHANGED <<up, now, sessions, lastUse>>
    BY <1>7 DEF WriteLands, WriteFails, Completable
  <2>2. \A j \in 1..Len(writes') : \E k \in 1..Len(writes) : writes'[j] = writes[k]
    BY <1>0, <2>1, CopiesLeft DEF SessionsTypeOK
  <2>3. CopiesComeFromCopies
    <3>1. file' = file \/ \E k \in 1..Len(writes) : file' = writes[k]
      BY <2>1
    <3> QED BY <2>2, <3>1 DEF CopiesComeFromCopies
  <2> QED BY <2>1, <2>3 DEF OnlyEnds
<1>8. CASE UNCHANGED mcVars
  BY <1>8, QuietCopies DEF mcVars, sessionsVars, tableVars, OnlyEnds
<1> QED BY <1>1, <1>2, <1>3, <1>4, <1>5, <1>6, <1>7, <1>8

(* A step issues a token only by a login, the first time the token is used. *)
LEMMA LoginFacts ==
  ASSUME SessionsTypeOK, NEW t \in Tokens, NEW u \in Users, Login(t, u)
  PROVE  /\ up /\ UNCHANGED <<up, now>> /\ now \in Nat /\ now # None
         /\ lastUse[t] = None /\ lastUse' = [lastUse EXCEPT ![t] = now] /\ lastUse'[t] = now
         /\ sessions'[Key(t)] = [user |-> u, exp |-> now + TTL] /\ sessions'[Key(t)].user = u
         /\ \A s \in Tokens \ {t} : sessions'[Key(s)] = sessions[Key(s)] /\ lastUse'[s] = lastUse[s]
<1>1. /\ up /\ UNCHANGED <<up, now>> /\ lastUse[t] = None /\ lastUse' = [lastUse EXCEPT ![t] = now]
      /\ sessions' = [sessions EXCEPT ![Key(t)] = [user |-> u, exp |-> now + TTL]]
  BY DEF Login, CanWrite, CreateSession, Save
<1>2. now \in Nat /\ now # None
  BY SessionsAssumption DEF SessionsTypeOK
<1>3. lastUse'[t] = now /\ \A s \in Tokens \ {t} : lastUse'[s] = lastUse[s]
  BY <1>1 DEF SessionsTypeOK
<1>4. /\ sessions'[Key(t)] = [user |-> u, exp |-> now + TTL]
      /\ \A s \in Tokens \ {t} : sessions'[Key(s)] = sessions[Key(s)]
  BY <1>1, KeyFacts DEF SessionsTypeOK, SessionTable
<1> QED BY <1>1, <1>2, <1>3, <1>4

LEMMA IssuedFacts ==
  ASSUME SessionsTypeOK, MCNext
  PROVE  /\ issued \subseteq issued'
         /\ (\A t \in Tokens : lastUse[t] = None => lastUse'[t] = None) => issued' = issued
         /\ \A t \in Tokens, u \in Users : Login(t, u) => issued' = issued \cup {<<t, u>>}
<1> DEFINE new == {p \in Tokens \X Users : Login(p[1], p[2])}
<1>1. issued' = issued \cup new
  BY DEF MCNext
<1>2. ASSUME NEW p \in new
      PROVE  p[1] \in Tokens /\ p[2] \in Users /\ p = <<p[1], p[2]>> /\ Login(p[1], p[2])
  OBVIOUS
<1>3. ASSUME NEW t \in Tokens, NEW u \in Users, Login(t, u) PROVE <<t, u>> \in new
  BY <1>3
<1> HIDE DEF new
<1>4. ASSUME \A t \in Tokens : lastUse[t] = None => lastUse'[t] = None PROVE new = {}
  <2> SUFFICES ASSUME NEW p \in new PROVE FALSE
    OBVIOUS
  <2>1. lastUse[p[1]] = None /\ lastUse'[p[1]] = now /\ now # None
    BY <1>2, LoginFacts
  <2> QED BY <1>2, <1>4, <2>1
<1>5. ASSUME NEW t \in Tokens, NEW u \in Users, Login(t, u) PROVE new = {<<t, u>>}
  <2>1. ASSUME NEW p \in new PROVE p = <<t, u>>
    <3>1. /\ lastUse[p[1]] = None /\ lastUse'[p[1]] = now /\ now # None
          /\ sessions'[Key(p[1])].user = p[2]
      BY <1>2, LoginFacts
    <3>2. p[1] = t
      BY <1>2, <1>5, <3>1, LoginFacts
    <3>3. sessions'[Key(t)].user = u
      BY <1>5, LoginFacts
    <3> QED BY <1>2, <3>1, <3>2, <3>3
  <2> QED BY <1>3, <1>5, <2>1
<1> QED BY <1>1, <1>4, <1>5

LEMMA InitIssued == MCInit => CopiesAreIssued
<1> SUFFICES ASSUME MCInit PROVE CopiesAreIssued
  OBVIOUS
<1>1. sessions = NoSessions /\ file = NoSessions /\ Len(writes) = 0
  BY DEF MCInit, SessionsInit
<1> QED BY <1>1, KeyFacts DEF CopiesAreIssued, IssuedAt, NoSessions

(* It is enough to look at the table. *)
LEMMA CopiesStayIssued ==
  ASSUME CopiesAreIssued, CopiesComeFromCopies, issued \subseteq issued', IssuedAt(sessions', issued')
  PROVE  CopiesAreIssued'
<1>1. IssuedAt(file', issued')
  <2>1. CASE file' = NoSessions
    BY <2>1, KeyFacts DEF IssuedAt, NoSessions
  <2>2. CASE file' # NoSessions
    BY <2>2 DEF CopiesComeFromCopies, CopiesAreIssued, IssuedAt
  <2> QED BY <2>1, <2>2
<1>2. ASSUME NEW j \in 1..Len(writes') PROVE IssuedAt(writes'[j], issued')
  BY DEF CopiesComeFromCopies, CopiesAreIssued, IssuedAt
<1> QED BY <1>1, <1>2 DEF CopiesAreIssued

(* The table after a step that issues no token: entries of the table or the *)
(* file, for the same users.                                                *)
LEMMA TableStaysIssued ==
  ASSUME CopiesAreIssued, issued' = issued,
         \A k \in Keys : \/ sessions'[k] = None
                         \/ sessions[k] # None /\ sessions'[k].user = sessions[k].user
                         \/ file[k] # None /\ sessions'[k].user = file[k].user
  PROVE  IssuedAt(sessions', issued')
BY KeyFacts DEF CopiesAreIssued, IssuedAt

-----------------------------------------------------------------------------
(* Refinement of SessionLife.                                              *)
(* What resolves is what the refinement mapping says, before and after a    *)
(* step.                                                                    *)
PrincipalIsRight ==
  /\ Principal \in [Tokens -> Users \cup {None}]
  /\ \A t \in Tokens : Principal[t] = IF up THEN UserOf(t) ELSE None
  /\ \A t \in Tokens : Principal[t] # None => Life!Alive(t, now)
  /\ ~up => Principal = Life!Nobody

LEMMA PrincipalNow == SessionsInv => PrincipalIsRight
<1> SUFFICES ASSUME SessionsInv PROVE PrincipalIsRight
  OBVIOUS
<1>1. \A t \in Tokens : UserOf(t) \in Users \cup {None}
  BY ResolvesInTime DEF Session
<1>2. \A t \in Tokens : Principal[t] = IF up THEN UserOf(t) ELSE None
  BY DEF Principal
<1>3. ASSUME NEW t \in Tokens, Principal[t] # None PROVE Life!Alive(t, now)
  BY <1>2, <1>3, ResolvesInTime DEF Life!Alive
<1>4. Principal \in [Tokens -> Users \cup {None}]
  BY <1>1 DEF Principal
<1>5. ~up => Principal = Life!Nobody
  BY DEF Principal, Life!Nobody
<1> QED BY <1>2, <1>3, <1>4, <1>5 DEF PrincipalIsRight

LEMMA PrincipalFacts ==
  ASSUME SessionsInv, SessionsInv'
  PROVE  PrincipalIsRight /\ PrincipalIsRight'
<1>1. SessionsInv' => PrincipalIsRight'
  BY PrincipalNow, PTL
<1> QED BY <1>1, PrincipalNow

LEMMA EndRefines ==
  ASSUME SessionsInv, SessionsInv', UNCHANGED <<up, now, lastUse, issued>>,
         \A k \in Keys : sessions'[k] = None \/ sessions'[k] = sessions[k]
  PROVE  Life!End
<1>1. \A t \in Tokens : UserOf(t)' \in {None, UserOf(t)}
  BY KeyFacts DEF UserOf, Expired
<1>2. Principal' \in [Tokens -> Users \cup {None}]
      /\ \A t \in Tokens : Principal'[t] = IF up' THEN UserOf(t)' ELSE None
  BY PrincipalFacts DEF PrincipalIsRight
<1>3. \A t \in Tokens : Principal[t] = IF up THEN UserOf(t) ELSE None
  BY PrincipalFacts DEF PrincipalIsRight
<1>4. \A t \in Tokens : Principal'[t] \in {None, Principal[t]}
  BY <1>1, <1>2, <1>3
<1> QED BY <1>2, <1>4 DEF Life!End, Life!Ends

LEMMA IssueRefines ==
  ASSUME SessionsInv, SessionsInv', NEW t \in Tokens, NEW u \in Users, Login(t, u), MCNext
  PROVE  Life!Issue(t, u)
<1>0. SessionsTypeOK
  BY DEF SessionsInv
<1>1. /\ up /\ UNCHANGED <<up, now>> /\ lastUse[t] = None /\ lastUse' = [lastUse EXCEPT ![t] = now]
      /\ issued' = issued \cup {<<t, u>>}
  BY <1>0, LoginFacts, IssuedFacts
<1>2. UserOf(t)' = u
  <2>1. sessions'[Key(t)] # None /\ sessions'[Key(t)].user = u
        /\ sessions'[Key(t)].exp = now + TTL
    <3>1. sessions'[Key(t)] = [user |-> u, exp |-> now + TTL]
      BY <1>0, LoginFacts
    <3>2. now + TTL \in 0..MaxTime + TTL
      BY <1>0, SessionsAssumption DEF SessionsTypeOK
    <3>3. [user |-> u, exp |-> now + TTL] \in Session
      BY <3>2 DEF Session
    <3> QED BY <3>1, <3>3, SessionsAssumption
  <2>2. ~(now + TTL <= now) 
    BY <1>0, SessionsAssumption DEF SessionsTypeOK
  <2> QED BY <1>1, <2>1, <2>2 DEF UserOf, Expired
<1>3. ASSUME NEW s \in Tokens \ {t} PROVE UserOf(s)' = UserOf(s)
  BY <1>0, <1>1, LoginFacts DEF UserOf, Expired
<1>4. /\ \A s \in Tokens : Principal[s] = UserOf(s) /\ Principal'[s] = UserOf(s)'
      /\ Principal \in [Tokens -> Users \cup {None}] /\ Principal' \in [Tokens -> Users \cup {None}]
  BY <1>1, PrincipalFacts DEF PrincipalIsRight
<1>5. Principal' = [Principal EXCEPT ![t] = u]
  BY <1>2, <1>3, <1>4
<1> QED BY <1>1, <1>5 DEF Life!Issue

(* The use of a live session: the entry is prolonged. *)
LEMMA UseFacts ==
  ASSUME SessionsInv, NEW t \in Tokens, Use(t), ~Expired(sessions[Key(t)])
  PROVE  /\ up /\ UNCHANGED <<up, now, writes, file>> /\ now \in Nat /\ TTL \in Nat \ {0}
         /\ sessions[Key(t)] # None /\ sessions[Key(t)] \in Session
         /\ lastUse[t] # None /\ lastUse' = [lastUse EXCEPT ![t] = now]
         /\ \A s \in Tokens \ {t} : sessions'[Key(s)] = sessions[Key(s)] /\ lastUse'[s] = lastUse[s]
         /\ sessions'[Key(t)] \in Session /\ sessions'[Key(t)].exp = now + TTL
         /\ sessions'[Key(t)].user = sessions[Key(t)].user
<1>0. SessionsTypeOK
  BY DEF SessionsInv
<1>1. now \in 0..MaxTime /\ now \in Nat /\ TTL \in Nat \ {0} /\ now + TTL \in 0..MaxTime + TTL
  BY <1>0, SessionsAssumption DEF SessionsTypeOK
<1>2. /\ up /\ UNCHANGED <<up, now, writes, file>> /\ sessions[Key(t)] # None
      /\ sessions' = [sessions EXCEPT ![Key(t)] = [@ EXCEPT !.exp = now + TTL]]
      /\ lastUse' = [lastUse EXCEPT ![t] = now]
  BY DEF Use, ResolveSession
<1>3. sessions[Key(t)] \in Session /\ Key(t) \in Keys
  BY <1>0, <1>2, KeyFacts DEF SessionsTypeOK, SessionTable
<1>4. /\ [sessions[Key(t)] EXCEPT !.exp = now + TTL] \in Session
      /\ [sessions[Key(t)] EXCEPT !.exp = now + TTL].exp = now + TTL
      /\ [sessions[Key(t)] EXCEPT !.exp = now + TTL].user = sessions[Key(t)].user
  BY <1>1, <1>3 DEF Session
<1>5. /\ sessions'[Key(t)] = [sessions[Key(t)] EXCEPT !.exp = now + TTL]
      /\ \A s \in Tokens \ {t} : sessions'[Key(s)] = sessions[Key(s)]
  BY <1>0, <1>2, KeyFacts DEF SessionsTypeOK, SessionTable
<1>6. \A s \in Tokens \ {t} : lastUse'[s] = lastUse[s]
  BY <1>0, <1>2 DEF SessionsTypeOK
<1>7. lastUse[t] # None
  <2>1. lastUse[t] \in 0..now
    BY <1>2 DEF SessionsInv, CopiesAreFresh, Fresh, FreshAt
  <2> QED BY <2>1, SessionsAssumption
<1> QED BY <1>1, <1>2, <1>3, <1>4, <1>5, <1>6, <1>7

LEMMA UseRefines ==
  ASSUME SessionsInv, SessionsInv', NEW t \in Tokens, Use(t), ~Expired(sessions[Key(t)]), issued' = issued
  PROVE  Life!Use(t)
<1>1. UserOf(t) = sessions[Key(t)].user /\ UserOf(t) # None
  BY UseFacts, SessionsAssumption DEF UserOf, Session
<1>2. UserOf(t)' = sessions[Key(t)].user
  <2>1. sessions'[Key(t)] # None /\ ~(sessions'[Key(t)].exp <= now)
    BY UseFacts, SessionsAssumption
  <2> QED BY <2>1, UseFacts DEF UserOf, Expired
<1>3. ASSUME NEW s \in Tokens \ {t} PROVE UserOf(s)' = UserOf(s)
  BY UseFacts DEF UserOf, Expired
<1>4. /\ \A s \in Tokens : Principal[s] = UserOf(s) /\ Principal'[s] = UserOf(s)'
      /\ Principal \in [Tokens -> Users \cup {None}] /\ Principal' \in [Tokens -> Users \cup {None}]
  BY PrincipalFacts, UseFacts DEF PrincipalIsRight
<1>5. Principal' = Principal
  BY <1>1, <1>2, <1>3, <1>4
<1> QED BY <1>1, <1>4, <1>5, UseFacts DEF Life!Use

LEMMA TickRefines ==
  ASSUME SessionsInv, SessionsInv', Tick, issued' = issued
  PROVE  Life!Tick
<1>1. now' = now + 1 /\ UNCHANGED <<up, sessions, lastUse>>
  BY DEF Tick
<1>2. now \in Nat /\ now' \in Nat /\ SessionsTypeOK
  BY <1>1, SessionsAssumption DEF SessionsInv, SessionsTypeOK
<1>3. ASSUME NEW t \in Tokens PROVE UserOf(t)' \in {None, UserOf(t)}
  <2>1. sessions[Key(t)] # None => sessions[Key(t)].exp \in Nat
    BY <1>2, KeyFacts, SessionsAssumption DEF SessionsTypeOK, SessionTable, Session
  <2>2. sessions[Key(t)] # None /\ sessions[Key(t)].exp <= now => sessions[Key(t)].exp <= now'
    BY <1>1, <1>2, <2>1
  <2> QED BY <1>1, <2>2 DEF UserOf, Expired
<1>4. /\ \A t \in Tokens : Principal[t] = IF up THEN UserOf(t) ELSE None
      /\ \A t \in Tokens : Principal'[t] = IF up THEN UserOf(t)' ELSE None
      /\ Principal' \in [Tokens -> Users \cup {None}]
      /\ \A t \in Tokens : Principal'[t] # None => Life!Alive(t, now)'
  BY <1>1, PrincipalFacts DEF PrincipalIsRight
<1>5. \A t \in Tokens : Principal'[t] # None => Life!Alive(t, now')
  BY <1>1, <1>4 DEF Life!Alive
<1>6. Life!Ends
  BY <1>3, <1>4 DEF Life!Ends
<1> QED BY <1>1, <1>4, <1>5, <1>6 DEF Life!Tick

LEMMA RestartRefines ==
  ASSUME SessionsInv, SessionsInv', CopiesAreIssued', Boot, issued' = issued
  PROVE  Life!Restart
<1>1. ~up /\ up' = TRUE /\ UNCHANGED <<now, lastUse>>
  BY DEF Boot, LoadSessions
<1>2. /\ Principal' \in [Tokens -> Users \cup {None}]
      /\ \A t \in Tokens : Principal'[t] = UserOf(t)'
      /\ \A t \in Tokens : Principal'[t] # None => Life!Alive(t, now)'
  BY <1>1, PrincipalFacts DEF PrincipalIsRight
<1>3. ASSUME NEW t \in Tokens, Principal'[t] # None
      PROVE  <<t, Principal'[t]>> \in issued /\ Life!Alive(t, now)
  <2>1. sessions'[Key(t)] # None /\ UserOf(t)' = sessions'[Key(t)].user
    BY <1>2, <1>3 DEF UserOf
  <2>2. <<t, UserOf(t)'>> \in issued
    BY <2>1 DEF CopiesAreIssued, IssuedAt
  <2> QED BY <1>1, <1>2, <1>3, <2>2 DEF Life!Alive
<1> QED BY <1>1, <1>2, <1>3 DEF Life!Restart

(* Each step refines a step of SessionLife, and the copies stay issued. *)
LEMMA LifeStep ==
  ASSUME SessionsInv, SessionsInv', CopiesAreIssued, [MCNext]_mcVars
  PROVE  CopiesAreIssued' /\ [Life!Next]_(Life!vars)
<1>0. SessionsTypeOK
  BY DEF SessionsInv
<1>1. ASSUME NEW t \in Tokens, NEW u \in Users, Login(t, u), MCNext
      PROVE  CopiesAreIssued' /\ Life!Next
  <2>1. issued' = issued \cup {<<t, u>>}
    BY <1>0, <1>1, IssuedFacts
  <2>2. CopiesComeFromCopies
    <3>1. Save(sessions') /\ UNCHANGED file
      BY <1>1 DEF Login, CreateSession, Save
    <3> QED BY <1>0, <3>1, SaveCopies DEF SessionsInv, SessionsTypeOK
  <2>3. IssuedAt(sessions', issued')
    <3> SUFFICES ASSUME NEW s \in Tokens, sessions'[Key(s)] # None
                 PROVE  <<s, sessions'[Key(s)].user>> \in issued'
      BY DEF IssuedAt
    <3>1. CASE s = t
      BY <1>0, <1>1, <2>1, <3>1, LoginFacts
    <3>2. CASE s # t
      <4>1. sessions'[Key(s)] = sessions[Key(s)]
        BY <1>0, <1>1, <3>2, LoginFacts
      <4> QED BY <2>1, <4>1 DEF CopiesAreIssued, IssuedAt
    <3> QED BY <3>1, <3>2
  <2>4. Life!Issue(t, u)
    BY <1>1, IssueRefines
  <2> QED BY <2>1, <2>2, <2>3, <2>4, CopiesStayIssued DEF Life!Next
<1>2. ASSUME NEW t \in Tokens, Use(t), ~Expired(sessions[Key(t)]), MCNext
      PROVE  CopiesAreIssued' /\ Life!Next
  <2>1. issued' = issued
    BY <1>0, <1>2, UseFacts, IssuedFacts
  <2>2. \A k \in Keys : \/ sessions'[k] = None
                        \/ sessions[k] # None /\ sessions'[k].user = sessions[k].user
    BY <1>2, UseFacts, KeyFacts
  <2>3. IssuedAt(sessions', issued') /\ CopiesComeFromCopies
    BY <1>2, <2>1, <2>2, UseFacts, QuietCopies, TableStaysIssued
  <2> QED BY <1>2, <2>1, <2>3, CopiesStayIssued, UseRefines DEF Life!Next
<1>3. ASSUME OnlyEnds, MCNext \/ UNCHANGED mcVars
      PROVE  CopiesAreIssued' /\ Life!Next
  <2>1. issued' = issued
    BY <1>0, <1>3, IssuedFacts DEF OnlyEnds, mcVars
  <2>2. IssuedAt(sessions', issued')
    BY <1>3, <2>1, TableStaysIssued DEF OnlyEnds
  <2> QED BY <1>3, <2>1, <2>2, CopiesStayIssued, EndRefines DEF OnlyEnds, Life!Next
<1>4. ASSUME Tick, MCNext PROVE CopiesAreIssued' /\ Life!Next
  <2>1. issued' = issued /\ UNCHANGED <<sessions, writes, file>>
    BY <1>0, <1>4, IssuedFacts DEF Tick
  <2>2. CopiesAreIssued'
    BY <2>1 DEF CopiesAreIssued
  <2> QED BY <1>4, <2>1, <2>2, TickRefines DEF Life!Next
<1>5. ASSUME Boot, MCNext PROVE CopiesAreIssued' /\ Life!Next
  <2>1. issued' = issued /\ UNCHANGED <<writes, file>>
    BY <1>0, <1>5, IssuedFacts DEF Boot, LoadSessions
  <2>2. ASSUME NEW k \in Keys, sessions'[k] # None
        PROVE  file[k] # None /\ sessions'[k].user = file[k].user
    <3>1. sessions'[k] = Restored(file[k], known)
      BY <1>5 DEF Boot, LoadSessions
    <3>2. file[k] # None /\ file[k] \in Session
      BY <1>0, <2>2, <3>1 DEF Restored, SessionsTypeOK, SessionTable
    <3> QED BY <2>2, <3>1, <3>2 DEF Restored, Session
  <2>3. IssuedAt(sessions', issued') /\ CopiesComeFromCopies
    BY <2>1, <2>2, QuietCopies, TableStaysIssued
  <2> QED BY <1>5, <2>1, <2>3, CopiesStayIssued, RestartRefines DEF Life!Next
<1>6. ASSUME Crash, MCNext PROVE CopiesAreIssued' /\ Life!Next
  <2>1. /\ up /\ up' = FALSE /\ sessions' = NoSessions /\ writes' = <<>>
        /\ UNCHANGED <<now, lastUse>> /\ (file' = file \/ file' = NoSessions)
    BY <1>6 DEF Crash, LoseProcess
  <2>2. issued' = issued
    BY <1>0, <1>6, <2>1, IssuedFacts
  <2>3. IssuedAt(sessions', issued') /\ CopiesComeFromCopies
    <3>1. \A k \in Keys : sessions'[k] = None
      BY <2>1 DEF NoSessions
    <3>2. Len(writes') = 0
      BY <2>1
    <3> QED BY <2>1, <2>2, <3>1, <3>2, TableStaysIssued DEF CopiesComeFromCopies
  <2>4. Life!Fail
    <3>1. Principal' = Life!Nobody'
      BY <2>1, PrincipalFacts DEF PrincipalIsRight
    <3> QED BY <2>1, <2>2, <3>1 DEF Life!Fail, Life!Nobody
  <2> QED BY <2>2, <2>3, <2>4, CopiesStayIssued DEF Life!Next
<1>7. CASE MCNext
  BY <1>1, <1>2, <1>3, <1>4, <1>5, <1>6, <1>7, EndingSteps DEF MCNext, SessionsNext
<1>8. CASE UNCHANGED mcVars
  BY <1>3, <1>8, EndingSteps
<1> QED BY <1>7, <1>8

LEMMA LifeStart == MCInit => Life!Init
<1> SUFFICES ASSUME MCInit PROVE Life!Init
  OBVIOUS
<1>1. SessionsInv /\ ~up
  BY InitSessionsInv DEF MCInit, SessionsInit
<1>2. Principal = Life!Nobody
  BY <1>1, PrincipalNow DEF PrincipalIsRight
<1> QED BY <1>2 DEF MCInit, SessionsInit, Life!Init, Life!Nobody

(* The table keeps the promise of SessionLife, whatever the order and the   *)
(* fate of the writes and however often the process restarts: a token       *)
(* resolves to the user it was issued to or to nobody, to nobody once TTL   *)
(* has passed since its last use, and a session that has ended comes back   *)
(* only by a restart.                                                       *)
THEOREM TokensRefine == MCSpec => TokensKeepTheirUser
<1>1. MCInit => Life!Init /\ CopiesAreIssued
  BY LifeStart, InitIssued
<1>2. SessionsInv /\ SessionsInv' /\ CopiesAreIssued /\ [MCNext]_mcVars =>
        CopiesAreIssued' /\ [Life!Next]_(Life!vars)
  BY LifeStep
<1>3. MCSpec => MCInit /\ [][MCNext]_mcVars
  BY PTL DEF MCSpec
<1> QED BY <1>1, <1>2, <1>3, SessionsInvariant, PTL DEF TokensKeepTheirUser, Life!Spec

(* Once the writes have landed in order, a restart restores no session that *)
(* is not in the table, and the file has all of them.                       *)
THEOREM FileFollows == MCSpec => []FileFollowsTable
<1>1. SessionsInv => FileFollowsTable
  BY DEF SessionsInv, Agrees, Latest, FileFollowsTable
<1> QED BY <1>1, SessionsInvariant, PTL

-----------------------------------------------------------------------------
(* The routes: no route is out of the registry's reach, and a              *)
(* synchronisation that ran alone and without a failure leaves exactly the *)
(* stored profiles with a route.                                           *)

(* Until something goes wrong there is at most one handler in progress, and *)
(* it works on the profiles as they are: a synchronisation on the stored    *)
(* list, a removal on the one route that is left over.                      *)
Alone == \A c, d \in Busy : c = d
PrivateInPlace == \A i \in Listed(profiles) \ Shared : routes[i] = profiles[i]

InStep(c) ==
  CASE calls[c].op = "remove" ->
         /\ profiles[calls[c].id] = Nothing
         /\ \A i \in Ids : i # calls[c].id => routes[i] = profiles[i]
    [] calls[c].op = "sync" /\ calls[c].step = "ensure" -> calls[c].list = PrivatePart(profiles)
    [] calls[c].op = "sync" /\ calls[c].step = "shared" ->
         calls[c].list = PrivatePart(profiles) /\ PrivateInPlace
    [] calls[c].op = "sync" /\ calls[c].step = "settle" ->
         calls[c].list = profiles /\ PrivateInPlace
    [] OTHER -> TRUE

OnCourse ==
  ~astray =>
    /\ started /\ Alone
    /\ \A c \in Busy : InStep(c)
    /\ Busy = {} => routes = profiles

(* A synchronisation that is past its check has found the registry. *)
PastCheck ==
  \A c \in Busy : calls[c].op = "sync" /\ calls[c].step # "check" => started

RoutesInv == RoutesTypeOK /\ RoutesAreOwned /\ PastCheck /\ OnCourse

(* What a handler in progress is. *)
LEMMA CallTypes ==
  ASSUME RoutesTypeOK, NEW c \in Busy
  PROVE  /\ c \in Calls
         /\ calls[c].op \in {"sync", "remove"}
         /\ calls[c].op = "sync" => calls[c] \in Sync
         /\ calls[c].op = "remove" => calls[c] \in Removal
BY DEF RoutesTypeOK, Busy, Sync, Removal

LEMMA RoutesInitInv == RoutesInit => RoutesInv
BY DEF RoutesInit, RoutesInv, RoutesTypeOK, Lists, NoList, RoutesAreOwned, PastCheck, Busy,
       OnCourse, Listed

-----------------------------------------------------------------------------
(* Types. *)
LEMMA NewSyncType == NewSync \in Sync
BY DEF NewSync, Sync, NoList, Lists

LEMMA EnsuredType ==
  ASSUME RoutesTypeOK, NEW list \in Lists, NEW failed
  PROVE  Ensured(list, failed) \in Lists
BY DEF RoutesTypeOK, Ensured, New, Listed, Lists

(* What a synchronisation that settles leaves. *)
Settled(list, failed) ==
  /\ routes' = [i \in Ids |-> IF i \in routeOwner \ Listed(list) THEN Nothing
                              ELSE Ensured(SharedPart(list), failed)[i]]
  /\ routeOwner' = (routeOwner \cap Listed(list)) \cup Listed(SharedPart(list))
  /\ astray' = (astray \/ failed # {})

LEMMA SettleFacts ==
  ASSUME NEW c, Settle(c)
  PROVE  \E failed \in SUBSET New(SharedPart(calls[c].list)) : Settled(calls[c].list, failed)
BY Zenon DEF Settle, Settled

LEMMA NextTypeOK ==
  ASSUME RoutesTypeOK, RoutesNext
  PROVE  RoutesTypeOK'
<1> USE DEF RoutesTypeOK
<1>1. ASSUME NEW c \in Calls, NEW i \in Ids, RemoveProfile(c, i) PROVE RoutesTypeOK'
  BY <1>1 DEF RemoveProfile, Begin, Removal, Lists
<1>2. ASSUME NEW c \in Calls, NEW i \in Ids, NEW s \in Signatures, StoreProfile(c, i, s) PROVE RoutesTypeOK'
  BY <1>2, NewSyncType DEF StoreProfile, Begin, Lists
<1>3. ASSUME NEW c \in Calls, Check(c) \/ List(c) \/ ListShared(c) PROVE RoutesTypeOK'
  <2>1. calls[c] \in Sync
    BY <1>3, CallTypes DEF Check, List, ListShared, AtStep
  <2>2. PrivatePart(profiles) \in Lists
    BY DEF PrivatePart, Lists
  <2>3. [i \in Ids |-> IF i \in Shared THEN profiles[i] ELSE calls[c].list[i]] \in Lists
    BY <2>1 DEF Lists, Sync
  <2>4. CASE Check(c)
    BY <2>1, <2>4 DEF Check, End, Sync
  <2>5. CASE List(c)
    BY <2>1, <2>2, <2>5 DEF List, Sync
  <2>6. CASE ListShared(c)
    BY <2>1, <2>3, <2>6 DEF ListShared, Sync
  <2> QED BY <1>3, <2>4, <2>5, <2>6
<1>4. ASSUME NEW c \in Calls, Ensure(c) PROVE RoutesTypeOK'
  <2> DEFINE list == calls[c].list
  <2>1. calls[c] \in Sync /\ list \in Lists /\ Listed(list) \subseteq Ids
    BY <1>4, CallTypes DEF Ensure, AtStep, Sync, Listed
  <2>2. PICK failed \in SUBSET New(list) :
          /\ routes' = Ensured(list, failed)
          /\ routeOwner' = routeOwner \cup Listed(list)
          /\ astray' = (astray \/ failed # {})
    BY <1>4, Zenon DEF Ensure
  <2>3. routes' \in Lists
    BY <2>1, <2>2, EnsuredType
  <2>4. calls' \in [Calls -> Sync \cup Removal \cup {Nothing}]
    BY <1>4, <2>1 DEF Ensure, Sync
  <2> QED BY <1>4, <2>1, <2>2, <2>3, <2>4 DEF Ensure
<1>5. ASSUME NEW c \in Calls, Settle(c) PROVE RoutesTypeOK'
  <2> DEFINE list == calls[c].list
             shared == SharedPart(list)
  <2>1. /\ calls[c] \in Sync /\ shared \in Lists
        /\ Listed(list) \subseteq Ids /\ Listed(shared) \subseteq Ids
    BY <1>5, CallTypes DEF Settle, AtStep, Sync, Listed, SharedPart, Lists
  <2>2. PICK failed \in SUBSET New(shared) : Settled(list, failed)
    BY <1>5, SettleFacts
  <2>3. Ensured(shared, failed) \in Lists
    BY <2>1, EnsuredType
  <2>4. routes' \in Lists
    BY <2>2, <2>3 DEF Settled, Lists
  <2> QED BY <1>5, <2>1, <2>2, <2>4 DEF Settle, Settled, End
<1>6. ASSUME NEW c \in Calls, SyncFails(c) \/ Dispose(c) \/ RemovalFails(c) PROVE RoutesTypeOK'
  BY <1>6, CallTypes DEF SyncFails, Dispose, RemovalFails, End, Lists
<1>7. ASSUME NEW c \in Calls, Start(c) PROVE RoutesTypeOK'
  BY <1>7, NewSyncType DEF Start, Begin
<1>8. CASE Restart
  BY <1>8 DEF Restart, NoList, Lists
<1> QED BY <1>1, <1>2, <1>3, <1>4, <1>5, <1>6, <1>7, <1>8 DEF RoutesNext

-----------------------------------------------------------------------------
(* Every route has its id in routeOwner. *)
LEMMA NextRoutesAreOwned ==
  ASSUME RoutesTypeOK, RoutesAreOwned, RoutesNext
  PROVE  RoutesAreOwned'
<1> USE DEF RoutesAreOwned, Listed
<1>1. ASSUME NEW c \in Calls, Ensure(c) PROVE RoutesAreOwned'
  <2> DEFINE list == calls[c].list
  <2>1. PICK failed \in SUBSET New(list) :
          /\ routes' = Ensured(list, failed)
          /\ routeOwner' = routeOwner \cup Listed(list)
          /\ astray' = (astray \/ failed # {})
    BY <1>1, Zenon DEF Ensure
  <2>2. ASSUME NEW i \in Ids, routes'[i] # Nothing PROVE i \in routeOwner'
    BY <2>1, <2>2 DEF Ensured, New
  <2> QED BY <2>2
<1>2. ASSUME NEW c \in Calls, Settle(c) PROVE RoutesAreOwned'
  <2> DEFINE list == calls[c].list
             shared == SharedPart(list)
  <2>1. PICK failed \in SUBSET New(shared) : Settled(list, failed)
    BY <1>2, SettleFacts
  <2>2. ASSUME NEW i \in Ids, routes'[i] # Nothing PROVE i \in routeOwner'
    <3>1. i \notin routeOwner \ Listed(list) /\ Ensured(shared, failed)[i] # Nothing
      BY <2>1, <2>2 DEF Settled
    <3>2. i \in Listed(shared) \/ routes[i] # Nothing
      BY <3>1 DEF Ensured, New
    <3> QED BY <2>1, <3>1, <3>2 DEF Settled
  <2> QED BY <2>2
<1>3. ASSUME NEW c \in Calls, Dispose(c) PROVE RoutesAreOwned'
  BY <1>3, CallTypes DEF Dispose, RoutesTypeOK, Lists
<1>4. CASE Restart
  BY <1>4 DEF Restart, NoList
<1>5. CASE UNCHANGED <<routes, routeOwner>>
  BY <1>5
<1> QED BY <1>1, <1>2, <1>3, <1>4, <1>5
        DEF RoutesNext, RemoveProfile, StoreProfile, Check, List, ListShared, SyncFails,
            RemovalFails, Start

(* Only the check lets a synchronisation go past itself. *)
LEMMA NextPastCheck ==
  ASSUME RoutesTypeOK, PastCheck, RoutesNext
  PROVE  PastCheck'
<1> USE DEF PastCheck, RoutesTypeOK, Busy
<1>1. ASSUME NEW c \in Calls, NEW i \in Ids, RemoveProfile(c, i) PROVE PastCheck'
  BY <1>1 DEF RemoveProfile, Begin
<1>2. ASSUME NEW c \in Calls, NEW i \in Ids, NEW s \in Signatures, StoreProfile(c, i, s) PROVE PastCheck'
  BY <1>2 DEF StoreProfile, Begin, NewSync
<1>3. ASSUME NEW c \in Calls, Check(c) \/ List(c) \/ Ensure(c) \/ ListShared(c) PROVE PastCheck'
  <2>1. calls[c] \in Sync /\ started' = started /\ \A d \in Calls \ {c} : calls'[d] = calls[d]
    BY <1>3, CallTypes DEF Check, List, Ensure, ListShared, AtStep, End
  <2>2. CASE started
    BY <2>1, <2>2
  <2>3. CASE ~started
    <3>1. Check(c) /\ calls'[c] = Nothing
      BY <1>3, <2>3 DEF Check, List, Ensure, ListShared, AtStep, End
    <3> QED BY <2>1, <2>3, <3>1
  <2> QED BY <2>2, <2>3
<1>4. ASSUME NEW c \in Calls, Settle(c) \/ SyncFails(c) \/ Dispose(c) \/ RemovalFails(c) PROVE PastCheck'
  BY <1>4 DEF Settle, SyncFails, Dispose, RemovalFails, End
<1>5. ASSUME NEW c \in Calls, Start(c) PROVE PastCheck'
  BY <1>5 DEF Start
<1>6. CASE Restart
  BY <1>6 DEF Restart
<1> QED BY <1>1, <1>2, <1>3, <1>4, <1>5, <1>6 DEF RoutesNext

-----------------------------------------------------------------------------
(* A handler that begins while nothing is in progress is alone. *)
LEMMA Beginning ==
  ASSUME NEW c \in Calls, NEW call, Begin(c, call), ~astray', RoutesTypeOK, OnCourse, call # Nothing
  PROVE  /\ started /\ Busy = {} /\ routes = profiles
         /\ Busy' = {c} /\ calls'[c] = call
BY DEF Begin, OnCourse, RoutesTypeOK, Busy

LEMMA Ending ==
  ASSUME RoutesTypeOK, OnCourse, NEW c \in Busy, End(c), ~astray
  PROVE  Busy = {c} /\ Busy' = {}
BY DEF End, OnCourse, Alone, RoutesTypeOK, Busy

(* The handler that is alone goes on with its next step. *)
LEMMA GoingOn ==
  ASSUME RoutesTypeOK, NEW c \in Busy, Busy = {c}, NEW call \in Sync,
         calls' = [calls EXCEPT ![c] = call]
  PROVE  calls'[c] = call /\ Busy' = {c}
BY RoutesAssumption DEF RoutesTypeOK, Busy

LEMMA NextOnCourse ==
  ASSUME RoutesInv, RoutesNext
  PROVE  OnCourse'
<1> SUFFICES ASSUME ~astray'
             PROVE  /\ started' /\ Alone'
                    /\ \A c \in Busy' : InStep(c)'
                    /\ Busy' = {} => routes' = profiles'
  BY DEF OnCourse
<1> USE DEF RoutesInv
<1>1. ASSUME NEW c \in Calls, NEW i \in Ids, RemoveProfile(c, i)
      PROVE OnCourse'
  <2> DEFINE call == [op |-> "remove", id |-> i]
  <2>1. call # Nothing
    BY RoutesAssumption DEF Removal
  <2>2. started /\ routes = profiles /\ Busy' = {c} /\ calls'[c] = call
    BY <1>1, <2>1, Beginning DEF RemoveProfile
  <2>3. InStep(c)'
    BY <1>1, <2>2 DEF RemoveProfile, InStep, RoutesTypeOK, Lists
  <2> QED BY <1>1, <2>2, <2>3 DEF RemoveProfile, OnCourse, Alone
<1>2. ASSUME NEW c \in Calls, NEW i \in Ids, NEW s \in Signatures, StoreProfile(c, i, s)
      PROVE OnCourse'
  <2>1. started /\ Busy' = {c} /\ calls'[c] = NewSync
    BY <1>2, NewSyncType, RoutesAssumption, Beginning DEF StoreProfile
  <2>2. InStep(c)'
    BY <2>1 DEF InStep, NewSync
  <2> QED BY <1>2, <2>1, <2>2 DEF StoreProfile, OnCourse, Alone
<1>3. ASSUME NEW c \in Calls, List(c) PROVE OnCourse'
  <2>1. /\ started /\ Busy = {c}
        /\ calls' = [calls EXCEPT ![c].step = "ensure", ![c].list = PrivatePart(profiles)]
    BY <1>3 DEF List, AtStep, PastCheck
  <2>2. calls[c] \in Sync /\ c \in DOMAIN calls
    BY <1>3, CallTypes DEF List, AtStep, RoutesTypeOK
  <2> DEFINE call == [calls[c] EXCEPT !.step = "ensure", !.list = PrivatePart(profiles)]
  <2>3. calls' = [calls EXCEPT ![c] = call]
    BY <2>1
  <2>4. call \in Sync
    BY <2>2 DEF Sync, RoutesTypeOK, Lists, PrivatePart
  <2>5. calls'[c] = call /\ Busy' = {c}
    BY <2>1, <2>3, <2>4, GoingOn
  <2>6. InStep(c)'
    BY <1>3, <2>2, <2>5 DEF List, InStep, Sync, PrivatePart
  <2> QED BY <1>3, <2>1, <2>5, <2>6 DEF List, OnCourse, Alone
<1>4. ASSUME NEW c \in Calls, Ensure(c) PROVE OnCourse'
  <2> DEFINE list == calls[c].list
  <2>1. PICK failed \in SUBSET New(list) :
          /\ routes' = Ensured(list, failed)
          /\ routeOwner' = routeOwner \cup Listed(list)
          /\ astray' = (astray \/ failed # {})
    BY <1>4, Zenon DEF Ensure
  <2>2. ~astray /\ failed = {} /\ started /\ Busy = {c} /\ InStep(c)
    BY <1>4, <2>1 DEF Ensure, AtStep, OnCourse, Alone
  <2>3. calls[c] \in Sync /\ list = PrivatePart(profiles)
    BY <1>4, <2>2, CallTypes DEF Ensure, AtStep, InStep
  <2> DEFINE call == [calls[c] EXCEPT !.step = "shared"]
  <2>4. call \in Sync /\ calls' = [calls EXCEPT ![c] = call]
    BY <1>4, <2>3 DEF Ensure, Sync
  <2>5. calls'[c] = call /\ Busy' = {c}
    BY <2>2, <2>4, GoingOn
  <2>6. \A i \in Listed(profiles) \ Shared : routes'[i] = profiles[i]
    BY <2>1, <2>2, <2>3 DEF Listed, Changed, New, Ensured, PrivatePart
  <2>7. InStep(c)'
    BY <1>4, <2>3, <2>5, <2>6 DEF Ensure, InStep, PrivateInPlace, Sync, Listed, PrivatePart
  <2> QED BY <1>4, <2>2, <2>5, <2>7 DEF Ensure, OnCourse, Alone
<1>5. ASSUME NEW c \in Calls, ListShared(c) PROVE OnCourse'
  <2>1. ~astray /\ started /\ Busy = {c} /\ InStep(c)
    BY <1>5 DEF ListShared, AtStep, OnCourse, Alone
  <2>2. calls[c] \in Sync /\ calls[c].list = PrivatePart(profiles) /\ PrivateInPlace
    BY <1>5, <2>1, CallTypes DEF ListShared, AtStep, InStep
  <2>3. [i \in Ids |-> IF i \in Shared THEN profiles[i] ELSE calls[c].list[i]] = profiles
    BY <2>2 DEF PrivatePart, RoutesTypeOK, Lists
  <2> DEFINE call == [calls[c] EXCEPT !.step = "settle", !.list = profiles]
  <2>4. calls' = [calls EXCEPT ![c] = call]
    BY <1>5, <2>3 DEF ListShared
  <2>5. call \in Sync
    BY <2>2 DEF Sync, RoutesTypeOK
  <2>6. calls'[c] = call /\ Busy' = {c}
    BY <2>1, <2>4, <2>5, GoingOn
  <2>7. calls'[c].op = "sync" /\ calls'[c].step = "settle" /\ calls'[c].list = profiles
    BY <2>2, <2>6 DEF Sync
  <2>8. PrivateInPlace' /\ profiles' = profiles
    BY <1>5, <2>2 DEF ListShared, PrivateInPlace, Listed
  <2>9. InStep(c)'
    BY <2>7, <2>8 DEF InStep
  <2> QED BY <1>5, <2>1, <2>6, <2>9 DEF ListShared, OnCourse, Alone
<1>6. ASSUME NEW c \in Calls, Settle(c) PROVE OnCourse'
  <2> DEFINE list == calls[c].list
             shared == SharedPart(list)
  <2>1. PICK failed \in SUBSET New(shared) : Settled(list, failed)
    BY <1>6, SettleFacts
  <2>2. c \in Busy /\ End(c) /\ ~astray /\ failed = {}
    BY <1>6, <2>1 DEF Settle, Settled, AtStep
  <2>3. started /\ Busy' = {} /\ InStep(c)
    BY <2>2, Ending DEF OnCourse
  <2>4. list = profiles /\ PrivateInPlace
    BY <1>6, <2>3 DEF Settle, AtStep, InStep
  <2>5. ASSUME NEW i \in Ids PROVE routes'[i] = profiles[i]
    <3>1. routes'[i] = IF i \in routeOwner \ Listed(profiles) THEN Nothing
                       ELSE Ensured(SharedPart(profiles), {})[i]
      BY <2>1, <2>2, <2>4 DEF Settled
    <3>2. CASE i \in Shared /\ profiles[i] # Nothing
      BY <3>1, <3>2 DEF Ensured, New, Listed, Changed, SharedPart
    <3>3. CASE i \notin Shared /\ profiles[i] # Nothing
      BY <2>4, <3>1, <3>3 DEF Ensured, New, Listed, SharedPart, PrivateInPlace
    <3>4. CASE profiles[i] = Nothing
      BY <3>1, <3>4 DEF Ensured, New, Listed, SharedPart, RoutesAreOwned
    <3> QED BY <3>2, <3>3, <3>4
  <2>6. routes' = profiles'
    BY <1>6, <2>1, <2>5 DEF Settle, Settled, RoutesTypeOK, Lists
  <2> QED BY <1>6, <2>3, <2>6 DEF Settle, OnCourse, Alone
<1>7. ASSUME NEW c \in Calls, Dispose(c) PROVE OnCourse'
  <2>1. c \in Busy /\ End(c) /\ ~astray /\ calls[c].op = "remove"
    BY <1>7 DEF Dispose
  <2>2. started /\ Busy' = {} /\ InStep(c)
    BY <2>1, Ending DEF OnCourse
  <2>3. \A i \in Ids : routes'[i] = profiles[i]
    BY <1>7, <2>1, <2>2 DEF Dispose, InStep, RoutesTypeOK, Lists
  <2>4. routes' = profiles'
    BY <1>7, <2>3 DEF Dispose, RoutesTypeOK, Lists
  <2> QED BY <1>7, <2>2, <2>4 DEF Dispose, OnCourse, Alone
<1>8. ASSUME NEW c \in Calls, Check(c) PROVE OnCourse'
  <2>1. ~astray /\ started /\ Busy = {c}
    BY <1>8 DEF Check, AtStep, OnCourse, Alone
  <2>2. calls[c] \in Sync
    BY <1>8, CallTypes DEF Check, AtStep
  <2> DEFINE call == [calls[c] EXCEPT !.step = "list"]
  <2>3. call \in Sync /\ calls' = [calls EXCEPT ![c] = call]
    BY <1>8, <2>1, <2>2 DEF Check, Sync
  <2>4. calls'[c] = call /\ Busy' = {c}
    BY <2>1, <2>3, GoingOn
  <2>5. InStep(c)'
    BY <2>2, <2>4 DEF InStep, Sync
  <2> QED BY <1>8, <2>1, <2>4, <2>5 DEF Check, OnCourse, Alone
<1>9. ASSUME NEW c \in Calls, Start(c) PROVE FALSE
  <2>1. CASE Begin(c, NewSync)
    BY <1>9, <2>1, NewSyncType, RoutesAssumption, Beginning DEF Start
  <2>2. CASE UNCHANGED <<calls, astray>>
    BY <1>9, <2>2 DEF Start, OnCourse
  <2> QED BY <1>9, <2>1, <2>2 DEF Start
<1>10. ASSUME NEW c \in Calls, SyncFails(c) \/ RemovalFails(c) PROVE FALSE
  BY <1>10 DEF SyncFails, RemovalFails
<1>11. CASE Restart
  BY <1>11 DEF Restart
<1> QED BY <1>1, <1>2, <1>3, <1>4, <1>5, <1>6, <1>7, <1>8, <1>9, <1>10, <1>11
        DEF RoutesNext, OnCourse

-----------------------------------------------------------------------------
(* The synchronisations and removals of index.ts and the registry keep the  *)
(* invariant, however they overlap and fail.                                *)
THEOREM RoutesInvariant == RoutesSpec => []RoutesInv
<1>1. RoutesInv /\ [RoutesNext]_routesVars => RoutesInv'
  <2> SUFFICES ASSUME RoutesInv, [RoutesNext]_routesVars PROVE RoutesInv'
    OBVIOUS
  <2>1. CASE RoutesNext
    BY <2>1, NextTypeOK, NextRoutesAreOwned, NextPastCheck, NextOnCourse DEF RoutesInv
  <2>2. CASE UNCHANGED routesVars
    BY <2>2 DEF routesVars, RoutesInv, RoutesTypeOK, RoutesAreOwned, PastCheck, OnCourse, Alone, Busy, InStep,
                     PrivateInPlace
  <2> QED BY <2>1, <2>2
<1> QED BY <1>1, RoutesInitInv, PTL DEF RoutesSpec

(* No registered route is forgotten by the table a synchronisation disposes *)
(* from.                                                                    *)
THEOREM Owned == RoutesSpec => []RoutesAreOwned
BY RoutesInvariant, PTL DEF RoutesInv

(* After an undisturbed synchronisation the routes are those of the stored  *)
(* profiles.                                                                *)
THEOREM Followed == RoutesSpec => []RoutesFollowProfiles
<1>1. RoutesInv => RoutesFollowProfiles
  BY DEF RoutesInv, OnCourse, RoutesFollowProfiles
<1> QED BY <1>1, RoutesInvariant, PTL
=============================================================================
