--------------------------- MODULE InvitesProofs ---------------------------
(***************************************************************************)
(* For every set of codes and all bounds: answered registrations are       *)
(* counted, answered revocations are final, and while the process lives a  *)
(* code is overused by no more than the registrations in flight with it.   *)
(***************************************************************************)
EXTENDS MCInvites, SequenceTheorems, TLAPS

(* A write is appended to those in flight. *)
LEMMA AppendFacts ==
  ASSUME TypeOK, NEW w \in Write, writes' = Append(writes, w)
  PROVE  /\ writes' \in Seq(Write)
         /\ Len(writes') = Len(writes) + 1
         /\ \A i \in 1..Len(writes) : writes'[i] = writes[i]
         /\ writes'[Len(writes) + 1] = w
BY DEF TypeOK

(* The oldest write is taken from those in flight. *)
LEMMA TailFacts ==
  ASSUME TypeOK, writes # <<>>, writes' = Tail(writes)
  PROVE  /\ writes' \in Seq(Write)
         /\ 1 \in 1..Len(writes) /\ writes[1] = Head(writes) /\ Head(writes) \in Write
         /\ Len(writes') = Len(writes) - 1
         /\ \A i \in 1..Len(writes') : i + 1 \in 1..Len(writes) /\ writes'[i] = writes[i + 1]
BY DEF TypeOK

LEMMA InitIInv == Init => IInv
<1> SUFFICES ASSUME Init PROVE IInv
  OBVIOUS
<1>1. NoInvites \in Table /\ Zero \in [Codes -> Nat] /\ Zero \in [Codes -> 0..MaxUses]
  BY InvitesAssumption DEF NoInvites, Zero, Table
<1>2. writes \in Seq(Write) /\ Len(writes) = 0
  BY EmptySeq DEF Init
<1>3. TypeOK
  BY <1>1, <1>2 DEF Init, TypeOK
<1>4. FreshCodes /\ CopiesCount /\ CopiesGrow /\ GoneIsGone /\ RevocationsRemove /\ RevokedIsNowhere
  BY <1>2 DEF Init, NoInvites, Zero, FreshCodes, CopiesCount, CopiesGrow, GoneIsGone,
              RevocationsRemove, RevokedIsNowhere
<1> QED BY <1>3, <1>4 DEF Init, IInv, DownIsEmpty

-----------------------------------------------------------------------------
(* What the copies are made of. *)
LEMMA CopyTypes ==
  ASSUME TypeOK
  PROVE  /\ \A c \in Codes : answered[c] \in Nat
         /\ \A c \in Codes : invites[c] # None => invites[c].used \in Nat
         /\ \A c \in Codes : disk[c] # None => disk[c].used \in Nat
         /\ \A i \in 1..Len(writes) : writes[i] \in Write
BY DEF TypeOK, Table, Invite

LEMMA WriteTypes ==
  ASSUME NEW w \in Write
  PROVE  /\ w.table \in Table /\ w.codes \subseteq Codes
         /\ \A c \in Codes : w.table[c] # None => w.table[c].used \in Nat
         /\ \A c \in Codes : Uses(w, c) \in {0, 1}
BY DEF Write, Table, Invite, Uses

(* A new copy keeps the order of the copies if it neither brings a code     *)
(* back nor forgets a use.                                                  *)
LEMMA SaveIInv ==
  ASSUME IInv, NEW w \in Write, writes' = Append(writes, w), invites' = w.table,
         UNCHANGED <<disk, answered, revoked>>,
         \A c \in Codes : totals[c] = 0 /\ w.table[c] # None => Uses(w, c) = 0,
         \A c \in Codes : totals[c] # 0 /\ w.table[c] # None =>
           invites[c] # None /\ w.table[c].used >= invites[c].used + Uses(w, c),
         w.by = "inviteRevoke" => \A c \in w.codes : w.table[c] = None
  PROVE  CopiesCount' /\ CopiesGrow' /\ GoneIsGone' /\ RevocationsRemove' /\ RevokedIsNowhere'
<1> DEFINE n == Len(writes)
<1>1. /\ n \in Nat /\ Len(writes') = n + 1 /\ writes'[n + 1] = w
      /\ \A i \in 1..n : writes'[i] = writes[i]
      /\ \A i \in 1..Len(writes') : i \in 1..n \/ i = n + 1
  BY AppendFacts DEF IInv, TypeOK
<1>2. \A i \in 1..n : \A j \in i + 1..Len(writes') : j \in i + 1..n \/ j = n + 1
  BY <1>1
<1>3. \A j \in (n + 1) + 1..Len(writes') : FALSE
  BY <1>1
<1>t. /\ \A c \in Codes : answered[c] \in Nat
      /\ \A c \in Codes : invites[c] # None => invites[c].used \in Nat
      /\ \A i \in 1..n, c \in Codes :
           (writes[i].table[c] # None => writes[i].table[c].used \in Nat) /\ Uses(writes[i], c) \in {0, 1}
      /\ \A c \in Codes : (w.table[c] # None => w.table[c].used \in Nat) /\ Uses(w, c) \in {0, 1}
  BY CopyTypes, WriteTypes DEF IInv
<1>u. \A i \in 1..n, c \in Codes : Uses(writes'[i], c) = Uses(writes[i], c)
  BY <1>1
<1> HIDE DEF n
<1>4. CopiesCount'
  <2> SUFFICES ASSUME NEW c \in Codes
               PROVE  /\ disk[c] # None => disk[c].used >= answered[c]
                      /\ w.table[c] # None => w.table[c].used >= answered[c] + Uses(w, c)
                      /\ \A i \in 1..n : writes[i].table[c] # None =>
                           writes[i].table[c].used >= answered[c] + Uses(writes[i], c)
    BY <1>1, <1>t, <1>u DEF CopiesCount
  <2>1. w.table[c] # None => w.table[c].used >= answered[c] + Uses(w, c)
    <3>1. CASE totals[c] = 0
      <4>1. answered[c] = 0
        BY <3>1 DEF IInv, FreshCodes
      <4>2. w.table[c] # None => Uses(w, c) = 0 /\ w.table[c].used \in Nat
        BY <3>1, <1>t
      <4> QED BY <4>1, <4>2
    <3>2. CASE totals[c] # 0
      <4>1. invites[c] # None => invites[c].used >= answered[c]
        BY DEF IInv, CopiesCount
      <4> QED BY <3>2, <4>1, <1>t
    <3> QED BY <3>1, <3>2
  <2> QED BY <2>1 DEF IInv, CopiesCount, n
<1>5. CopiesGrow'
  <2> SUFFICES ASSUME NEW c \in Codes, NEW i \in 1..Len(writes'), writes'[i].table[c] # None
               PROVE  /\ w.table[c] # None => w.table[c].used >= writes'[i].table[c].used
                      /\ \A j \in i + 1..Len(writes') : writes'[j].table[c] # None =>
                           writes'[j].table[c].used >= writes'[i].table[c].used + Uses(writes'[j], c)
    BY DEF CopiesGrow
  <2>1. CASE i = n + 1
    BY <1>1, <1>3, <1>t, <2>1
  <2>2. CASE i \in 1..n
    <3>1. writes'[i] = writes[i] /\ writes[i].table[c] # None /\ totals[c] # 0
      BY <1>1, <2>2 DEF IInv, FreshCodes, n
    <3>2. /\ invites[c] # None => invites[c].used >= writes[i].table[c].used
          /\ \A j \in i + 1..n : writes[j].table[c] # None =>
               writes[j].table[c].used >= writes[i].table[c].used + Uses(writes[j], c)
      BY <2>2, <3>1 DEF IInv, CopiesGrow, n
    <3>3. w.table[c] # None => w.table[c].used >= writes[i].table[c].used + Uses(w, c)
      BY <1>t, <2>2, <3>1, <3>2
    <3>4. w.table[c] # None => w.table[c].used >= writes[i].table[c].used
      BY <1>t, <2>2, <3>1, <3>3
    <3>5. \A j \in i + 1..n : j \in 1..n
      BY <2>2, <1>1
    <3> QED BY <1>1, <1>2, <1>u, <2>2, <3>1, <3>2, <3>3, <3>4, <3>5
  <2> QED BY <1>1, <2>1, <2>2
<1>6. GoneIsGone'
  <2> SUFFICES ASSUME NEW c \in Codes, NEW i \in 1..Len(writes'),
                      c \in writes'[i].codes, writes'[i].table[c] = None
               PROVE  /\ w.table[c] = None
                      /\ \A j \in i + 1..Len(writes') : writes'[j].table[c] = None
    BY DEF GoneIsGone
  <2>1. CASE i = n + 1
    BY <1>1, <1>3, <2>1
  <2>2. CASE i \in 1..n
    <3>1. writes'[i] = writes[i] /\ totals[c] # 0
      BY <1>1, <2>2 DEF IInv, FreshCodes, n
    <3>2. invites[c] = None /\ \A j \in i + 1..n : writes[j].table[c] = None
      BY <2>2, <3>1 DEF IInv, GoneIsGone, n
    <3>3. \A j \in i + 1..n : j \in 1..n
      BY <2>2, <1>1
    <3> QED BY <1>1, <1>2, <2>2, <3>1, <3>2, <3>3
  <2> QED BY <1>1, <2>1, <2>2
<1>7. RevocationsRemove'
  BY <1>1 DEF IInv, RevocationsRemove, n
<1>8. RevokedIsNowhere'
  <2> SUFFICES ASSUME NEW c \in revoked
               PROVE  /\ disk[c] = None /\ w.table[c] = None
                      /\ \A i \in 1..n : writes[i].table[c] = None
    BY <1>1 DEF RevokedIsNowhere
  <2>1. totals[c] # 0 /\ invites[c] = None /\ c \in Codes
    BY DEF IInv, TypeOK, FreshCodes, RevokedIsNowhere
  <2> QED BY <2>1 DEF IInv, RevokedIsNowhere, n
<1> QED BY <1>4, <1>5, <1>6, <1>7, <1>8

(* inviteCreate draws codes nobody has seen. *)
LEMMA InviteCreateIInv ==
  ASSUME IInv, NEW codes \in SUBSET Codes, NEW uses \in 1..MaxUses, InviteCreate(codes, uses)
  PROVE  IInv'
<1> DEFINE table == [c \in Codes |-> IF c \in codes THEN [total |-> uses, used |-> 0] ELSE invites[c]]
           w == [table |-> table, by |-> "inviteCreate", codes |-> codes]
<1>1. table \in Table
  BY DEF IInv, TypeOK, Table, Invite
<1>2. w \in Write
  BY <1>1 DEF Write
<1>3. invites' = w.table /\ writes' = Append(writes, w)
  BY DEF InviteCreate, Save
<1>4. TypeOK'
  BY <1>1, <1>2, <1>3, AppendFacts DEF InviteCreate, IInv, TypeOK
<1>5. UNCHANGED <<up, disk, creating, answered, revoked>> /\ up
  BY DEF InviteCreate, Started
<1>6. /\ w.by = "inviteCreate" /\ w.codes = codes /\ \A c \in Codes : Uses(w, c) = 0
      /\ \A c \in codes : totals[c] = 0 /\ totals'[c] # 0
      /\ \A c \in Codes \ codes : w.table[c] = invites[c] /\ totals'[c] = totals[c]
  BY InvitesAssumption DEF InviteCreate, Uses
<1>7. /\ Len(writes') = Len(writes) + 1 /\ Len(writes) \in Nat
      /\ \A i \in 1..Len(writes) : writes'[i] = writes[i]
      /\ writes'[Len(writes) + 1] = w
  BY <1>2, <1>3, AppendFacts DEF IInv, TypeOK
<1> HIDE DEF table, w
<1>8. FreshCodes'
  BY <1>3, <1>5, <1>6, <1>7 DEF IInv, FreshCodes
<1>9. CopiesCount' /\ CopiesGrow' /\ GoneIsGone' /\ RevocationsRemove' /\ RevokedIsNowhere'
  <2>1. \A c \in Codes : totals[c] # 0 /\ w.table[c] # None =>
          invites[c] # None /\ w.table[c].used >= invites[c].used + Uses(w, c)
    <3> SUFFICES ASSUME NEW c \in Codes, totals[c] # 0, w.table[c] # None
                 PROVE  invites[c] # None /\ w.table[c].used >= invites[c].used + Uses(w, c)
      OBVIOUS
    <3>1. w.table[c] = invites[c] /\ Uses(w, c) = 0
      BY <1>6
    <3> QED BY <3>1, CopyTypes DEF IInv
  <2> QED BY <1>2, <1>3, <1>5, <1>6, <2>1, SaveIInv
<1> QED BY <1>4, <1>5, <1>8, <1>9 DEF IInv, DownIsEmpty

LEMMA InviteRevokeIInv ==
  ASSUME IInv, NEW c0 \in Codes, InviteRevoke(c0)
  PROVE  IInv'
<1> DEFINE table == [invites EXCEPT ![c0] = None]
           w == [table |-> table, by |-> "inviteRevoke", codes |-> {c0}]
<1>1. table \in Table
  BY DEF IInv, TypeOK, Table
<1>2. w \in Write
  BY <1>1 DEF Write
<1>3. invites' = w.table /\ writes' = Append(writes, w)
  BY DEF InviteRevoke, Save
<1>4. TypeOK'
  BY <1>1, <1>2, <1>3, AppendFacts DEF InviteRevoke, IInv, TypeOK
<1>5. UNCHANGED <<up, disk, creating, totals, answered, revoked>> /\ up
  BY DEF InviteRevoke, Started
<1>6. /\ w.by = "inviteRevoke" /\ w.codes = {c0} /\ \A c \in Codes : Uses(w, c) = 0
      /\ w.table[c0] = None /\ totals[c0] # 0
      /\ \A c \in Codes \ {c0} : w.table[c] = invites[c]
  BY DEF InviteRevoke, IInv, FreshCodes, TypeOK, Table, Uses
<1>7. /\ Len(writes') = Len(writes) + 1 /\ Len(writes) \in Nat
      /\ \A i \in 1..Len(writes) : writes'[i] = writes[i]
      /\ writes'[Len(writes) + 1] = w
  BY <1>2, <1>3, AppendFacts DEF IInv, TypeOK
<1> HIDE DEF table, w
<1>8. FreshCodes'
  BY <1>3, <1>5, <1>6, <1>7 DEF IInv, FreshCodes
<1>9. CopiesCount' /\ CopiesGrow' /\ GoneIsGone' /\ RevocationsRemove' /\ RevokedIsNowhere'
  <2>1. \A c \in Codes : totals[c] # 0 /\ w.table[c] # None =>
          invites[c] # None /\ w.table[c].used >= invites[c].used + Uses(w, c)
    <3> SUFFICES ASSUME NEW c \in Codes, totals[c] # 0, w.table[c] # None
                 PROVE  invites[c] # None /\ w.table[c].used >= invites[c].used + Uses(w, c)
      OBVIOUS
    <3>1. w.table[c] = invites[c] /\ Uses(w, c) = 0
      BY <1>6
    <3> QED BY <3>1, CopyTypes DEF IInv
  <2> QED BY <1>2, <1>3, <1>5, <1>6, <2>1, SaveIInv
<1> QED BY <1>4, <1>5, <1>8, <1>9 DEF IInv, DownIsEmpty

(* A registration counts one use, or none if its code was revoked meanwhile. *)
LEMMA RegisteredIInv ==
  ASSUME IInv, NEW c0 \in Codes, Registered(c0)
  PROVE  IInv'
<1> DEFINE table == IF invites[c0] = None THEN invites ELSE [invites EXCEPT ![c0].used = @ + 1]
           w == [table |-> table, by |-> "register", codes |-> {c0}]
<1>1. table \in Table
  BY DEF IInv, TypeOK, Table, Invite
<1>2. w \in Write
  BY <1>1 DEF Write
<1>3. invites' = w.table /\ writes' = Append(writes, w)
  BY DEF Registered, Save
<1>4. TypeOK'
  <2>1. creating' \in [Codes -> Nat] /\ created' \in [Codes -> Nat]
    BY DEF Registered, IInv, TypeOK
  <2> QED BY <1>1, <1>2, <1>3, <2>1, AppendFacts DEF Registered, IInv, TypeOK
<1>5. /\ UNCHANGED <<up, disk, totals, answered, revoked>>
      /\ \A c \in Codes \ {c0} : creating'[c] = creating[c]
  BY DEF Registered
<1>6. /\ w.by = "register" /\ w.codes = {c0} /\ totals[c0] # 0
      /\ Uses(w, c0) = 1 /\ \A c \in Codes \ {c0} : w.table[c] = invites[c] /\ Uses(w, c) = 0
      /\ w.table[c0] # None => invites[c0] # None /\ w.table[c0].used = invites[c0].used + 1
  BY DEF Registered, IInv, FreshCodes, TypeOK, Table, Invite, Uses
<1>7. /\ Len(writes') = Len(writes) + 1 /\ Len(writes) \in Nat
      /\ \A i \in 1..Len(writes) : writes'[i] = writes[i]
      /\ writes'[Len(writes) + 1] = w
  BY <1>2, <1>3, AppendFacts DEF IInv, TypeOK
<1> HIDE DEF table, w
<1>8. FreshCodes'
  BY <1>3, <1>5, <1>6, <1>7 DEF IInv, FreshCodes
<1>9. CopiesCount' /\ CopiesGrow' /\ GoneIsGone' /\ RevocationsRemove' /\ RevokedIsNowhere'
  <2>1. \A c \in Codes : totals[c] # 0 /\ w.table[c] # None =>
          invites[c] # None /\ w.table[c].used >= invites[c].used + Uses(w, c)
    <3> SUFFICES ASSUME NEW c \in Codes, totals[c] # 0, w.table[c] # None
                 PROVE  invites[c] # None /\ w.table[c].used >= invites[c].used + Uses(w, c)
      OBVIOUS
    <3>1. CASE c = c0
      BY <1>6, <3>1, CopyTypes DEF IInv
    <3>2. CASE c # c0
      BY <1>6, <3>2, CopyTypes DEF IInv
    <3> QED BY <3>1, <3>2
  <2>2. \A c \in Codes : totals[c] = 0 /\ w.table[c] # None => Uses(w, c) = 0
    BY <1>6
  <2> QED BY <1>2, <1>3, <1>5, <1>6, <2>1, <2>2, SaveIInv
<1>10. DownIsEmpty'
  BY DEF Registered, IInv, DownIsEmpty, Zero
<1> QED BY <1>4, <1>8, <1>9, <1>10 DEF IInv

-----------------------------------------------------------------------------
(* The oldest write goes, leaving the disk as it was or with its copy:      *)
(* everything but what is answered follows.                                 *)
LEMMA TakeFacts ==
  ASSUME IInv, writes # <<>>, writes' = Tail(writes), disk' \in {disk, Head(writes).table},
         UNCHANGED <<up, invites, creating, totals>>
  PROVE  /\ disk' \in Table /\ writes' \in Seq(Write)
         /\ CopiesGrow' /\ GoneIsGone' /\ RevocationsRemove' /\ DownIsEmpty'
<1>f. /\ writes' \in Seq(Write)
      /\ 1 \in 1..Len(writes) /\ writes[1] = Head(writes) /\ Head(writes) \in Write
      /\ Len(writes') = Len(writes) - 1 /\ Len(writes) \in Nat
      /\ \A i \in 1..Len(writes') : i + 1 \in 1..Len(writes) /\ writes'[i] = writes[i + 1]
  BY TailFacts DEF IInv, TypeOK
<1>1. disk' \in Table
  BY <1>f DEF IInv, TypeOK, Write
<1>2. CopiesGrow'
  <2> SUFFICES ASSUME NEW c \in Codes, NEW i \in 1..Len(writes'), writes'[i].table[c] # None
               PROVE  /\ invites[c] # None => invites[c].used >= writes'[i].table[c].used
                      /\ \A j \in i + 1..Len(writes') : writes'[j].table[c] # None =>
                           writes'[j].table[c].used >= writes'[i].table[c].used + Uses(writes'[j], c)
    BY DEF CopiesGrow, Uses
  <2>1. \A j \in i + 1..Len(writes') :
          j \in 1..Len(writes') /\ j + 1 \in (i + 1) + 1..Len(writes) /\ writes'[j] = writes[j + 1]
    BY <1>f
  <2> QED BY <1>f, <2>1 DEF IInv, CopiesGrow
<1>3. GoneIsGone'
  <2> SUFFICES ASSUME NEW c \in Codes, NEW i \in 1..Len(writes'),
                      c \in writes'[i].codes, writes'[i].table[c] = None
               PROVE  /\ invites[c] = None
                      /\ \A j \in i + 1..Len(writes') : writes'[j].table[c] = None
    BY DEF GoneIsGone
  <2>1. \A j \in i + 1..Len(writes') :
          j \in 1..Len(writes') /\ j + 1 \in (i + 1) + 1..Len(writes) /\ writes'[j] = writes[j + 1]
    BY <1>f
  <2> QED BY <1>f, <2>1 DEF IInv, GoneIsGone
<1>4. RevocationsRemove'
  BY <1>f DEF IInv, RevocationsRemove
<1>5. DownIsEmpty'
  BY DEF IInv, DownIsEmpty
<1> QED BY <1>f, <1>1, <1>2, <1>3, <1>4, <1>5

LEMMA WriteFailsIInv ==
  ASSUME IInv, WriteFails
  PROVE  IInv'
<1>f. /\ 1 \in 1..Len(writes) /\ writes[1] = Head(writes) /\ Head(writes) \in Write
      /\ Len(writes') = Len(writes) - 1 /\ Len(writes) \in Nat
      /\ \A i \in 1..Len(writes') : i + 1 \in 1..Len(writes) /\ writes'[i] = writes[i + 1]
  BY TailFacts DEF WriteFails, IInv, TypeOK
<1>1. /\ disk' \in Table /\ writes' \in Seq(Write)
      /\ CopiesGrow' /\ GoneIsGone' /\ RevocationsRemove' /\ DownIsEmpty'
  BY TakeFacts DEF WriteFails
<1>2. TypeOK'
  BY <1>1 DEF WriteFails, IInv, TypeOK
<1>3. FreshCodes'
  BY <1>f DEF WriteFails, IInv, FreshCodes
<1>4. CopiesCount'
  <2>1. \A c \in Codes : answered[c] \in Nat /\ Uses(Head(writes), c) >= 0
    BY DEF IInv, TypeOK, Uses
  <2>2. \A c \in Codes : Head(writes).table[c] # None => Head(writes).table[c].used \in Nat
    BY <1>f DEF Write, Table, Invite
  <2>3. \A c \in Codes : disk'[c] # None => disk'[c].used >= answered[c]
    BY <1>f, <2>1, <2>2 DEF WriteFails, IInv, CopiesCount, Uses
  <2> QED BY <1>f, <2>3 DEF WriteFails, IInv, CopiesCount, Uses
<1>5. RevokedIsNowhere'
  BY <1>f DEF WriteFails, IInv, RevokedIsNowhere
<1> QED BY <1>1, <1>2, <1>3, <1>4, <1>5 DEF IInv

LEMMA WriteDoneIInv ==
  ASSUME IInv, WriteDone
  PROVE  IInv'
<1> DEFINE w == Head(writes)
<1>f. /\ 1 \in 1..Len(writes) /\ writes[1] = w /\ w \in Write
      /\ Len(writes') = Len(writes) - 1 /\ Len(writes) \in Nat
      /\ \A i \in 1..Len(writes') : i + 1 \in 1..Len(writes) /\ writes'[i] = writes[i + 1]
  BY TailFacts DEF WriteDone, IInv, TypeOK
<1>a. \A c \in Codes : answered'[c] = answered[c] + Uses(w, c) /\ answered[c] \in Nat /\ Uses(w, c) \in {0, 1}
  BY DEF WriteDone, IInv, TypeOK, Uses
<1>1. /\ disk' \in Table /\ writes' \in Seq(Write)
      /\ CopiesGrow' /\ GoneIsGone' /\ RevocationsRemove' /\ DownIsEmpty'
  BY TakeFacts DEF WriteDone
<1>2. TypeOK'
  <2>1. answered' \in [Codes -> Nat]
    BY DEF WriteDone, IInv, TypeOK
  <2>2. revoked' \subseteq Codes
    BY <1>f DEF WriteDone, IInv, TypeOK, Write
  <2> QED BY <1>1, <2>1, <2>2 DEF WriteDone, IInv, TypeOK
<1>3. FreshCodes'
  <2> SUFFICES ASSUME NEW c \in Codes, totals[c] = 0
               PROVE  /\ w.table[c] = None /\ invites[c] = None
                      /\ answered'[c] = 0 /\ creating[c] = 0 /\ c \notin revoked'
                      /\ \A i \in 1..Len(writes') : writes'[i].table[c] = None /\ c \notin writes'[i].codes
    BY DEF WriteDone, FreshCodes
  <2>1. w.table[c] = None /\ c \notin w.codes
    BY <1>f DEF IInv, FreshCodes
  <2>2. Uses(w, c) = 0
    BY <2>1 DEF Uses
  <2>3. answered[c] = 0 /\ invites[c] = None /\ creating[c] = 0 /\ c \notin revoked'
    BY <2>1 DEF WriteDone, IInv, FreshCodes
  <2>4. \A i \in 1..Len(writes') : writes'[i].table[c] = None /\ c \notin writes'[i].codes
    BY <1>f DEF IInv, FreshCodes
  <2>5. answered'[c] = 0
    BY <1>a, <2>2, <2>3
  <2> QED BY <2>1, <2>3, <2>4, <2>5
<1>4. CopiesCount'
  <2> SUFFICES ASSUME NEW c \in Codes
               PROVE  /\ disk'[c] # None => disk'[c].used >= answered'[c]
                      /\ invites[c] # None => invites[c].used >= answered'[c]
                      /\ \A i \in 1..Len(writes') : writes'[i].table[c] # None =>
                           writes'[i].table[c].used >= answered'[c] + Uses(writes'[i], c)
    BY DEF WriteDone, CopiesCount, Uses
  <2>1. disk' = w.table
    BY DEF WriteDone
  <2>2. disk'[c] # None => disk'[c].used >= answered'[c]
    BY <1>f, <1>a, <2>1 DEF IInv, CopiesCount
  <2>3. invites[c] # None => invites[c].used \in Nat
    BY DEF IInv, TypeOK, Table, Invite
  <2>4. \A i \in 1..Len(writes') : /\ i + 1 \in 1 + 1..Len(writes)
                                   /\ writes'[i].table[c] # None => writes'[i].table[c].used \in Nat
                                   /\ Uses(writes'[i], c) \in {0, 1}
    <3> SUFFICES ASSUME NEW i \in 1..Len(writes')
                 PROVE  /\ i + 1 \in 1 + 1..Len(writes)
                        /\ writes'[i].table[c] # None => writes'[i].table[c].used \in Nat
                        /\ Uses(writes'[i], c) \in {0, 1}
      OBVIOUS
    <3>1. i + 1 \in 1 + 1..Len(writes) /\ writes'[i] \in Write
      BY <1>f, CopyTypes DEF IInv
    <3> QED BY <3>1, WriteTypes
  <2>5. CASE w.table[c] # None
    <3>1. w.table[c].used \in Nat /\ w.table[c].used >= answered'[c]
      BY <1>f, <1>a, <2>5 DEF IInv, CopiesCount, Write, Table, Invite
    <3>2. invites[c] # None => invites[c].used >= w.table[c].used
      BY <1>f, <2>5 DEF IInv, CopiesGrow
    <3>3. \A j \in 1 + 1..Len(writes) : writes[j].table[c] # None =>
            writes[j].table[c].used >= w.table[c].used + Uses(writes[j], c)
      BY <1>f, <2>5 DEF IInv, CopiesGrow
    <3>4. answered'[c] \in Nat
      BY <1>a
    <3>5. invites[c] # None => invites[c].used >= answered'[c]
      BY <2>3, <3>1, <3>2, <3>4
    <3>6. ASSUME NEW i \in 1..Len(writes'), writes'[i].table[c] # None
          PROVE  writes'[i].table[c].used >= answered'[c] + Uses(writes'[i], c)
      <4>1. writes'[i] = writes[i + 1] /\ i + 1 \in 1 + 1..Len(writes)
        BY <1>f, <2>4
      <4>2. writes'[i].table[c].used >= w.table[c].used + Uses(writes'[i], c)
        BY <3>3, <3>6, <4>1
      <4>3. writes'[i].table[c].used \in Nat /\ Uses(writes'[i], c) \in Nat
        BY <2>4, <3>6
      <4> HIDE DEF w
      <4> QED BY <3>1, <3>4, <4>2, <4>3
    <3> QED BY <2>2, <3>5, <3>6
  <2>6. CASE w.table[c] = None /\ c \in w.codes
    <3>1. invites[c] = None /\ \A j \in 1 + 1..Len(writes) : writes[j].table[c] = None
      BY <1>f, <2>6 DEF IInv, GoneIsGone
    <3> QED BY <1>f, <2>2, <2>4, <3>1
  <2>7. CASE c \notin w.codes
    <3>1. answered'[c] = answered[c]
      BY <1>a, <2>7 DEF Uses
    <3> QED BY <1>f, <2>2, <2>4, <3>1 DEF IInv, CopiesCount
  <2> QED BY <2>5, <2>6, <2>7
<1>5. RevokedIsNowhere'
  <2> SUFFICES ASSUME NEW c \in revoked'
               PROVE  /\ disk'[c] = None /\ invites[c] = None
                      /\ \A i \in 1..Len(writes') : writes'[i].table[c] = None
    BY DEF WriteDone, RevokedIsNowhere
  <2>1. disk' = w.table /\ \A i \in 1..Len(writes') : i + 1 \in 1 + 1..Len(writes)
    BY <1>f DEF WriteDone
  <2>2. CASE c \in revoked
    BY <1>f, <2>1, <2>2 DEF IInv, RevokedIsNowhere
  <2>3. CASE c \notin revoked
    <3>1. w.by = "inviteRevoke" /\ c \in w.codes /\ c \in Codes
      BY <1>f, <2>3 DEF WriteDone, Write
    <3>2. w.table[c] = None
      BY <1>f, <3>1 DEF IInv, RevocationsRemove
    <3> QED BY <1>f, <2>1, <3>1, <3>2 DEF IInv, GoneIsGone
  <2> QED BY <2>2, <2>3
<1> QED BY <1>1, <1>2, <1>3, <1>4, <1>5 DEF IInv

-----------------------------------------------------------------------------
(* Looking a code up, a name that is taken, and the end and the start of    *)
(* the process.                                                             *)
LEMMA QuietIInv ==
  ASSUME IInv, Boot \/ Crash \/ \E c \in Codes : Register(c) \/ NameTaken(c)
  PROVE  IInv'
<1>1. CASE Boot
  <2>1. Len(writes) = 0
    BY <1>1 DEF Boot, IInv, DownIsEmpty
  <2> QED BY <1>1, <2>1 DEF Boot, IInv, TypeOK, FreshCodes, CopiesCount, CopiesGrow, GoneIsGone,
                            RevocationsRemove, RevokedIsNowhere, DownIsEmpty
<1>2. CASE Crash
  <2>1. Len(writes') = 0 /\ writes' \in Seq(Write)
    BY <1>2, EmptySeq DEF Crash
  <2>2. NoInvites \in Table /\ Zero \in [Codes -> Nat] /\ \A c \in Codes : NoInvites[c] = None /\ Zero[c] = 0
    BY DEF NoInvites, Zero, Table
  <2>3. disk' = disk \/ (writes # <<>> /\ disk' = Head(writes).table)
    BY <1>2 DEF Crash
  <2>4. writes # <<>> => 1 \in 1..Len(writes) /\ writes[1] = Head(writes) /\ Head(writes) \in Write
    BY DEF IInv, TypeOK
  <2>5. disk' \in Table
    BY <2>3, <2>4 DEF IInv, TypeOK, Write
  <2>6. TypeOK'
    BY <1>2, <2>1, <2>2, <2>5 DEF Crash, IInv, TypeOK
  <2>7. FreshCodes'
    BY <1>2, <2>1, <2>2, <2>3, <2>4 DEF Crash, IInv, FreshCodes
  <2>8. CopiesCount'
    <3> SUFFICES ASSUME NEW c \in Codes, disk'[c] # None
                 PROVE  disk'[c].used >= answered[c]
      BY <1>2, <2>1, <2>2 DEF Crash, CopiesCount
    <3>1. CASE disk' = disk
      BY <3>1 DEF IInv, CopiesCount
    <3>2. CASE writes # <<>> /\ disk' = Head(writes).table
      <4>1. disk'[c].used >= answered[c] + Uses(Head(writes), c)
        BY <2>4, <3>2 DEF IInv, CopiesCount
      <4>2. disk'[c].used \in Nat /\ Uses(Head(writes), c) \in {0, 1} /\ answered[c] \in Nat
        BY <2>4, <3>2, WriteTypes, CopyTypes DEF IInv
      <4> QED BY <4>1, <4>2
    <3> QED BY <2>3, <3>1, <3>2
  <2>9. CopiesGrow' /\ GoneIsGone' /\ RevocationsRemove'
    BY <2>1 DEF CopiesGrow, GoneIsGone, RevocationsRemove
  <2>10. RevokedIsNowhere'
    BY <1>2, <2>1, <2>2, <2>3, <2>4 DEF Crash, IInv, TypeOK, RevokedIsNowhere
  <2> QED BY <1>2, <2>6, <2>7, <2>8, <2>9, <2>10 DEF Crash, IInv, DownIsEmpty
<1>3. ASSUME NEW c0 \in Codes, Register(c0) \/ NameTaken(c0) PROVE IInv'
  <2>1. UNCHANGED <<up, invites, disk, writes, totals, created, answered, revoked>>
    BY <1>3 DEF Register, NameTaken
  <2>2. creating' \in [Codes -> Nat] /\ \A c \in Codes \ {c0} : creating'[c] = creating[c]
    <3>1. CASE Register(c0)
      BY <3>1 DEF Register, IInv, TypeOK
    <3>2. CASE NameTaken(c0)
      BY <3>2 DEF NameTaken, IInv, TypeOK
    <3> QED BY <1>3, <3>1, <3>2
  <2>3. totals[c0] # 0
    BY <1>3 DEF Register, NameTaken, IInv, FreshCodes
  <2>4. up
    BY <1>3 DEF Register, NameTaken, Started, IInv, DownIsEmpty, Zero
  <2>5. TypeOK' /\ FreshCodes'
    BY <2>1, <2>2, <2>3 DEF IInv, TypeOK, FreshCodes
  <2>6. CopiesCount' /\ CopiesGrow' /\ GoneIsGone' /\ RevocationsRemove' /\ RevokedIsNowhere'
    BY <2>1 DEF IInv, CopiesCount, CopiesGrow, GoneIsGone, RevocationsRemove, RevokedIsNowhere, Uses
  <2> QED BY <2>1, <2>4, <2>5, <2>6 DEF IInv, DownIsEmpty
<1> QED BY <1>1, <1>2, <1>3

LEMMA NextIInv == IInv /\ [Next]_vars => IInv'
<1> SUFFICES ASSUME IInv, [Next]_vars PROVE IInv'
  OBVIOUS
<1>1. CASE Next
  BY <1>1, InviteCreateIInv, InviteRevokeIInv, RegisteredIInv, WriteDoneIInv, WriteFailsIInv, QuietIInv DEF Next
<1>2. CASE UNCHANGED vars
  BY <1>2 DEF vars, IInv, TypeOK, FreshCodes, CopiesCount, CopiesGrow, GoneIsGone,
              RevocationsRemove, RevokedIsNowhere, DownIsEmpty
<1> QED BY <1>1, <1>2

(* The invariant of the codes under every interleaving of their changes,    *)
(* rejected writes and restarts.                                            *)
THEOREM InvitesInvariant == Spec => []IInv
BY InitIInv, NextIInv, PTL DEF Spec

(* An answered registration is counted against its code. *)
THEOREM Counted == Spec => []AnsweredUsesAreCounted
<1>1. IInv => AnsweredUsesAreCounted
  BY DEF IInv, CopiesCount, AnsweredUsesAreCounted
<1> QED BY <1>1, InvitesInvariant, PTL

(* An answered revocation is final. *)
THEOREM Revoked == Spec => []RevokedStaysRevoked
<1>1. IInv => RevokedStaysRevoked
  BY DEF IInv, RevokedIsNowhere, RevokedStaysRevoked
<1> QED BY <1>1, InvitesInvariant, PTL

-----------------------------------------------------------------------------
(* Until the process ends for the first time, the map holds the invitation  *)
(* as it was created and every use of it, and a registration only starts    *)
(* while a use is left.                                                     *)
UsesAreCounted ==
  ~restarted =>
    /\ ~up => disk = NoInvites
    /\ \A c \in Codes :
         /\ invites[c] # None => invites[c].total = totals[c] /\ invites[c].used = created[c]
         /\ created[c] + creating[c] < totals[c] + MaxRegs

OveruseInv == IInv /\ (\A c \in Codes : created[c] # 0 => totals[c] # 0) /\ UsesAreCounted

LEMMA NextUsesAreCounted ==
  ASSUME OveruseInv, MCNext
  PROVE  (\A c \in Codes : created[c] # 0 => totals[c] # 0)' /\ UsesAreCounted'
<1> USE DEF OveruseInv
<1> DEFINE Started0 == \A c \in Codes : created[c] # 0 => totals[c] # 0
           Counts == \A c \in Codes :
             /\ invites[c] # None => invites[c].total = totals[c] /\ invites[c].used = created[c]
             /\ created[c] + creating[c] < totals[c] + MaxRegs
<1>t. /\ invites \in Table /\ \A c \in Codes : invites[c] # None => invites[c] \in Invite
      /\ \A c \in Codes : creating[c] \in Nat /\ created[c] \in Nat /\ totals[c] \in Nat
      /\ creating \in [Codes -> Nat] /\ created \in [Codes -> Nat]
      /\ MaxRegs \in Nat \ {0}
  BY InvitesAssumption DEF IInv, TypeOK, Table
<1>r. ~restarted' => ~restarted
  BY DEF MCNext
<1>1. ASSUME NEW codes \in SUBSET Codes, NEW uses \in 1..MaxUses, InviteCreate(codes, uses)
      PROVE  Started0' /\ UsesAreCounted'
  <2>1. /\ up' /\ UNCHANGED <<creating, created>> /\ uses \in Nat \ {0}
        /\ \A c \in Codes : IF c \in codes
                            THEN totals[c] = 0 /\ totals'[c] = uses
                                 /\ invites'[c] = [total |-> uses, used |-> 0]
                            ELSE totals'[c] = totals[c] /\ invites'[c] = invites[c]
    BY <1>1, InvitesAssumption DEF InviteCreate, Save, Started
  <2>2. \A c \in codes : created[c] = 0 /\ creating[c] = 0
    BY <2>1 DEF IInv, FreshCodes
  <2>3. Started0'
    BY <2>1, <2>2
  <2>4. ASSUME ~restarted PROVE Counts'
    <3> SUFFICES ASSUME NEW c \in Codes
                 PROVE  /\ invites'[c] # None =>
                             invites'[c].total = totals'[c] /\ invites'[c].used = created'[c]
                        /\ created'[c] + creating'[c] < totals'[c] + MaxRegs
      OBVIOUS
    <3>1. CASE c \in codes
      BY <1>t, <2>1, <2>2, <3>1
    <3>2. CASE c \notin codes
      BY <1>t, <2>1, <2>4, <3>2 DEF UsesAreCounted
    <3> QED BY <3>1, <3>2
  <2> QED BY <1>r, <2>1, <2>3, <2>4 DEF UsesAreCounted
<1>2. ASSUME NEW c \in Codes, InviteRevoke(c) PROVE Started0' /\ UsesAreCounted'
  <2>1. up' /\ UNCHANGED <<creating, created, totals>> /\ invites' = [invites EXCEPT ![c] = None]
    BY <1>2 DEF InviteRevoke, Save, Started
  <2>2. \A d \in Codes : invites'[d] # None => invites'[d] = invites[d]
    BY <1>t, <2>1 DEF Table
  <2> QED BY <1>r, <2>1, <2>2 DEF UsesAreCounted
<1>3. ASSUME NEW c \in Codes, Register(c) PROVE Started0' /\ UsesAreCounted'
  <2>1. /\ up' /\ UNCHANGED <<invites, created, totals>>
        /\ creating'[c] = creating[c] + 1 /\ \A d \in Codes \ {c} : creating'[d] = creating[d]
        /\ creating[c] < MaxRegs /\ invites[c] # None /\ invites[c].used < invites[c].total
    BY <1>t, <1>3 DEF Register, Started
  <2>2. ~restarted => created[c] < totals[c]
    BY <2>1 DEF UsesAreCounted
  <2>3. ~restarted => created[c] + creating'[c] < totals[c] + MaxRegs
    BY <1>t, <2>1, <2>2
  <2> QED BY <1>r, <2>1, <2>3 DEF UsesAreCounted
<1>4. ASSUME NEW c \in Codes, Registered(c) PROVE Started0' /\ UsesAreCounted'
  <2>1. /\ creating[c] > 0 /\ UNCHANGED <<up, totals, disk>>
        /\ creating'[c] = creating[c] - 1 /\ created'[c] = created[c] + 1
        /\ \A d \in Codes \ {c} : creating'[d] = creating[d] /\ created'[d] = created[d]
    BY <1>t, <1>4 DEF Registered, Save
  <2>2. \A d \in Codes : invites'[d] = IF d = c /\ invites[c] # None
                                       THEN [invites[c] EXCEPT !.used = @ + 1] ELSE invites[d]
    BY <1>t, <1>4 DEF Registered, Save, Table
  <2>3. invites'[c] # None => /\ invites[c] # None /\ invites'[c].total = invites[c].total
                              /\ invites'[c].used = invites[c].used + 1
    BY <1>t, <2>2 DEF Invite
  <2>4. totals[c] # 0
    BY <2>1 DEF IInv, FreshCodes
  <2>5. Started0'
    BY <2>1, <2>4
  <2>6. ASSUME ~restarted PROVE Counts'
    <3>1. created'[c] + creating'[c] = created[c] + creating[c]
      BY <1>t, <2>1
    <3>2. invites'[c] # None => invites'[c].total = totals'[c] /\ invites'[c].used = created'[c]
      BY <2>1, <2>3, <2>6 DEF UsesAreCounted
    <3> QED BY <2>1, <2>2, <2>6, <3>1, <3>2 DEF UsesAreCounted
  <2> QED BY <1>r, <2>1, <2>5, <2>6 DEF UsesAreCounted
<1>5. ASSUME NEW c \in Codes, NameTaken(c) PROVE Started0' /\ UsesAreCounted'
  <2>1. /\ creating[c] > 0 /\ UNCHANGED <<up, totals, disk, invites, created>>
        /\ creating'[c] = creating[c] - 1 /\ \A d \in Codes \ {c} : creating'[d] = creating[d]
    BY <1>t, <1>5 DEF NameTaken
  <2>2. ~restarted => created[c] + creating'[c] < totals[c] + MaxRegs
    BY <1>t, <2>1 DEF UsesAreCounted
  <2> QED BY <1>r, <2>1, <2>2 DEF UsesAreCounted
<1>6. CASE WriteDone \/ WriteFails
  <2>1. UNCHANGED <<up, invites, creating, totals, created>> /\ writes # <<>>
    BY <1>6 DEF WriteDone, WriteFails
  <2>2. up
    BY <2>1 DEF IInv, DownIsEmpty
  <2> QED BY <1>r, <2>1, <2>2 DEF UsesAreCounted
<1>7. CASE Boot
  <2>1. ~up /\ up' /\ invites' = disk /\ UNCHANGED <<creating, totals, created>>
    BY <1>7 DEF Boot
  <2>2. ~restarted => \A c \in Codes : invites'[c] = None
    BY <2>1 DEF UsesAreCounted, NoInvites
  <2> QED BY <1>r, <2>1, <2>2 DEF UsesAreCounted
<1>8. CASE Crash
  <2>1. restarted' /\ UNCHANGED <<totals, created>>
    BY <1>8 DEF MCNext, Crash
  <2> QED BY <2>1 DEF UsesAreCounted
<1> QED BY <1>1, <1>2, <1>3, <1>4, <1>5, <1>6, <1>7, <1>8 DEF MCNext, Next

(* Until the process ends, whatever writes fail, registrations that overlap *)
(* use a code at most MaxRegs - 1 times too often.                          *)
THEOREM OveruseBounded == MCSpec => []OveruseIsBounded
<1>1. MCInit => OveruseInv
  <2> SUFFICES ASSUME MCInit PROVE OveruseInv
    OBVIOUS
  <2>1. \A c \in Codes : invites[c] = None /\ created[c] = 0 /\ creating[c] = 0 /\ totals[c] = 0
    BY DEF MCInit, Init, NoInvites, Zero
  <2> QED BY <2>1, InitIInv, InvitesAssumption DEF MCInit, Init, OveruseInv, UsesAreCounted
<1>2. OveruseInv /\ [MCNext]_<<vars, restarted>> => OveruseInv'
  <2> SUFFICES ASSUME OveruseInv, [MCNext]_<<vars, restarted>> PROVE OveruseInv'
    OBVIOUS
  <2>1. IInv'
    BY NextIInv DEF OveruseInv, MCNext
  <2>2. CASE MCNext
    BY <2>1, <2>2, NextUsesAreCounted DEF OveruseInv
  <2>3. CASE UNCHANGED <<vars, restarted>>
    BY <2>1, <2>3 DEF OveruseInv, UsesAreCounted, vars
  <2> QED BY <2>2, <2>3
<1>3. OveruseInv => OveruseIsBounded
  <2> SUFFICES ASSUME OveruseInv, ~restarted, NEW c \in Codes
               PROVE  created[c] < totals[c] + MaxRegs
    BY DEF OveruseIsBounded
  <2>1. created[c] \in Nat /\ creating[c] \in Nat /\ totals[c] \in Nat /\ MaxRegs \in Nat
    BY InvitesAssumption DEF OveruseInv, IInv, TypeOK
  <2> QED BY <2>1 DEF OveruseInv, UsesAreCounted
<1> QED BY <1>1, <1>2, <1>3, PTL DEF MCSpec
=============================================================================
