--------------------------- MODULE FilteredChannel ---------------------------
(***************************************************************************)
(* What the proxy promises about the frames of a client: each connection   *)
(* is a channel that may refuse a frame and otherwise delivers it, once    *)
(* and in the order of sending.  The one exception is a turn: once, before *)
(* anything is delivered, the frames in transit may be cut in two and the  *)
(* back put in front, as when the host side opens while a rule is asked.   *)
(***************************************************************************)
EXTENDS Naturals, Sequences

CONSTANTS
  Conns,    \* connections
  MaxSent   \* bound: frames from the clients

VARIABLES
  sent,       \* sent[c]: number of frames the client sent
  transit,    \* transit[c]: numbers of the frames that wait for a verdict
  delivered,  \* delivered[c]: numbers of the frames that reached the host, in order
  refused,    \* refused[c]: numbers of the frames that were refused
  turned      \* connections whose frames in transit were turned

vars == <<sent, transit, delivered, refused, turned>>

Init ==
  /\ sent = [c \in Conns |-> 0] /\ transit = [c \in Conns |-> <<>>]
  /\ delivered = [c \in Conns |-> <<>>] /\ refused = [c \in Conns |-> {}]
  /\ turned = {}

Send(c) ==
  /\ sent[c] < MaxSent
  /\ sent' = [sent EXCEPT ![c] = @ + 1]
  /\ transit' = [transit EXCEPT ![c] = Append(@, sent[c] + 1)]
  /\ UNCHANGED <<delivered, refused, turned>>

Deliver(c) ==
  /\ transit[c] # <<>>
  /\ delivered' = [delivered EXCEPT ![c] = Append(@, Head(transit[c]))]
  /\ transit' = [transit EXCEPT ![c] = Tail(@)]
  /\ UNCHANGED <<sent, refused, turned>>

Refuse(c) ==
  \E i \in 1..Len(transit[c]) :
    /\ refused' = [refused EXCEPT ![c] = @ \cup {transit[c][i]}]
    /\ transit' = [transit EXCEPT ![c] = SubSeq(@, 1, i - 1) \o SubSeq(@, i + 1, Len(@))]
    /\ UNCHANGED <<sent, delivered, turned>>

Turn(c) ==
  /\ c \notin turned /\ delivered[c] = <<>>
  /\ turned' = turned \cup {c}
  /\ \E i \in 1..Len(transit[c]) :
       transit' = [transit EXCEPT ![c] = SubSeq(@, i, Len(@)) \o SubSeq(@, 1, i - 1)]
  /\ UNCHANGED <<sent, delivered, refused>>

Next == \E c \in Conns : Send(c) \/ Deliver(c) \/ Refuse(c) \/ Turn(c)

Spec == Init /\ [][Next]_vars
=============================================================================
