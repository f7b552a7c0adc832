-------------------------- MODULE TwoFactorProofs --------------------------
(***************************************************************************)
(* For every set of credentials and secrets and all bounds: two-factor     *)
(* login never locks an account out, the number of its passkeys is         *)
(* limited, and handlers that do not overlap keep the list right, unless   *)
(* a rejected call took effect.                                            *)
(***************************************************************************)
EXTENDS TwoFactor, FiniteSetTheorems, SequenceTheorems, TLAPS

(* A call is appended to those in flight. *)
LEMMA SendFacts ==
  ASSUME TypeOK, NEW call \in Call, Send(call)
  PROVE  /\ calls' \in Seq(Call)
         /\ Len(calls') = Len(calls) + 1
         /\ \A i \in 1..Len(calls) : calls'[i] = calls[i]
         /\ calls'[Len(calls) + 1] = call
         /\ disturbed' \in BOOLEAN
         /\ ~disturbed' => ~disturbed /\ Len(calls) = 0
<1>1. calls' = Append(calls, call) /\ disturbed' = (disturbed \/ calls # <<>>)
  BY DEF Send
<1>2. calls \in Seq(Call) /\ disturbed \in BOOLEAN
  BY DEF TypeOK
<1>3. calls = <<>> => Len(calls) = 0
  OBVIOUS
<1>4. disturbed' \in BOOLEAN /\ (~disturbed' => ~disturbed /\ Len(calls) = 0)
  BY <1>1, <1>2, <1>3, Zenon
<1> QED BY <1>1, <1>2, <1>4

(* The oldest call is taken from those in flight. *)
LEMMA TakeFacts ==
  ASSUME TypeOK, NEW op, Take(op)
  PROVE  /\ calls' \in Seq(Call)
         /\ 1 \in 1..Len(calls) /\ calls[1] = Head(calls)
         /\ Head(calls) \in Call /\ Head(calls).op = op
         /\ Len(calls') = Len(calls) - 1
         /\ \A i \in 1..Len(calls') : i + 1 \in 1..Len(calls) /\ calls'[i] = calls[i + 1]
BY DEF TypeOK, Take

(* NormalizeUserRecord keeps the type and the list of a record, and what it *)
(* returns has no 2FA without a factor.                                     *)
LEMMA NormalizeFacts ==
  ASSUME NEW r \in Record
  PROVE  /\ NormalizeUserRecord(r) \in Record
         /\ NormalizeUserRecord(r).passkeys = r.passkeys
         /\ NormalizeUserRecord(r).twoFactor => HasFactor(NormalizeUserRecord(r))
BY DEF NormalizeUserRecord, Reconcile, HasFactor, TotpBound, Record

(* A record that has no 2FA without a factor is normalised already. *)
LEMMA NormalizedAlready ==
  ASSUME NEW r \in Record, r.twoFactor => HasFactor(r)
  PROVE  NormalizeUserRecord(r) = r
BY DEF NormalizeUserRecord, Reconcile, Record

(* The arguments of a call. *)
LEMMA CallFacts ==
  ASSUME NEW call \in Call
  PROVE  /\ call.op = "set2fa" => call.on \in BOOLEAN
         /\ call.op = "generate" => call.secret \in Secrets
         /\ call.op = "dropTotp" => call.keep \in BOOLEAN
         /\ call.op = "add" => call.cred \in Creds
         /\ call.op = "remove" => call.cred \in Creds /\ call.remaining \subseteq Creds
BY DEF Call

-----------------------------------------------------------------------------
(* A handler keeps the invariant if the list its call carries is bounded. *)
LEMMA SendIInv ==
  ASSUME IInv, NEW call \in Call, Send(call), UNCHANGED <<up, record, known, bound>>,
         call.op = "remove" => Bounded(call.remaining),
         tickets' \in 0..MaxTickets, adding' \subseteq Creds,
         drawn' \subseteq Secrets, confirmed' \subseteq Secrets
  PROVE  IInv'
<1>1. TypeOK
  BY DEF IInv
<1>2. TypeOK'
  BY <1>1, SendFacts DEF TypeOK
<1>3. NobodyIsLockedOut'
  BY DEF IInv, NobodyIsLockedOut, HasFactor, TotpBound
<1>4. ListsAreBounded'
  <2>1. Bounded(record.passkeys)' /\ Bounded(known.passkeys)'
    BY DEF IInv, ListsAreBounded, Bounded
  <2>2. ASSUME NEW i \in 1..Len(calls'), calls'[i].op = "remove"
        PROVE  Bounded(calls'[i].remaining)
    <3>1. CASE i \in 1..Len(calls)
      BY <1>1, <2>2, <3>1, SendFacts DEF IInv, ListsAreBounded
    <3>2. CASE i = Len(calls) + 1
      BY <1>1, <2>2, <3>2, SendFacts
    <3> QED BY <1>1, <3>1, <3>2, SendFacts DEF TypeOK
  <2> QED BY <2>1, <2>2 DEF ListsAreBounded, Bounded
<1>5. MapAgrees'
  BY <1>1, SendFacts DEF IInv, MapAgrees
<1> QED BY <1>2, <1>3, <1>4, <1>5 DEF IInv

(* The service keeps the invariant if the list the mutator returns is bounded. *)
LEMMA WriteIInv ==
  ASSUME IInv, NEW op, Take(op), NEW r \in Record, Write(r), Bounded(r.passkeys),
         bound' \subseteq Creds
  PROVE  IInv'
<1>1. TypeOK
  BY DEF IInv
<1>2. record' = NormalizeUserRecord(r) /\ known' = record' /\ UNCHANGED <<up, tickets, adding, drawn, confirmed, disturbed>>
  BY DEF Write
<1>3. TypeOK'
  BY <1>1, <1>2, TakeFacts, NormalizeFacts DEF TypeOK
<1>4. NobodyIsLockedOut'
  BY <1>2, NormalizeFacts DEF NobodyIsLockedOut, HasFactor, TotpBound
<1>5. ListsAreBounded'
  <2>1. Bounded(record'.passkeys)
    BY <1>2, NormalizeFacts
  <2>2. \A i \in 1..Len(calls') : calls'[i].op = "remove" => Bounded(calls'[i].remaining)
    BY <1>1, TakeFacts DEF IInv, ListsAreBounded
  <2> QED BY <1>2, <2>1, <2>2 DEF ListsAreBounded, Bounded
<1>6. MapAgrees'
  BY <1>2 DEF MapAgrees
<1> QED BY <1>3, <1>4, <1>5, <1>6 DEF IInv

LEMMA InitIInv == Init => IInv
<1> SUFFICES ASSUME Init PROVE IInv
  OBVIOUS
<1>1. TypeOK
  <2>1. calls \in Seq(Call) /\ record \in Record /\ tickets \in 0..MaxTickets
    BY TwoFactorAssumption, EmptySeq DEF Init, Record
  <2>2. up \in BOOLEAN /\ disturbed \in BOOLEAN
    BY DEF Init
  <2> QED BY <2>1, <2>2 DEF Init, TypeOK
<1>2. NobodyIsLockedOut
  BY DEF Init, NobodyIsLockedOut
<1>3. ListsAreBounded
  BY FS_EmptySet, TwoFactorAssumption DEF Init, ListsAreBounded, Bounded
<1>4. MapAgrees
  BY DEF Init, MapAgrees
<1> QED BY <1>1, <1>2, <1>3, <1>4 DEF IInv

-----------------------------------------------------------------------------
LEMMA RequestIInv ==
  ASSUME IInv, Request
  PROVE  IInv'
<1>0. TypeOK /\ MaxTickets \in Nat
  BY TwoFactorAssumption DEF IInv
<1> USE DEF Call
<1>1. ASSUME NEW on \in BOOLEAN, TotpSet2fa(on) PROVE IInv'
  BY <1>0, <1>1, SendIInv, ZenonT(20) DEF TotpSet2fa, TypeOK
<1>2. ASSUME NEW byAdmin \in BOOLEAN, TotpRemove(byAdmin) PROVE IInv'
  <2>1. KeptWithoutTotp(known) \in BOOLEAN
    BY DEF KeptWithoutTotp, Reconcile
  <2> QED BY <1>0, <1>2, <2>1, SendIInv DEF TotpRemove, TypeOK
<1>3. ASSUME NEW s \in Secrets, TotpGenerate(s) PROVE IInv'
  BY <1>0, <1>3, SendIInv DEF TotpGenerate, TypeOK
<1>4. CASE TotpVerify
  <2>1. known.secret \in Secrets
    BY <1>0, <1>4 DEF TotpVerify, TypeOK, Record
  <2> QED BY <1>0, <1>4, <2>1, SendIInv DEF TotpVerify, TypeOK
<1>5. CASE PasskeyStepUp \/ TicketExpires
  BY <1>0, <1>5 DEF PasskeyStepUp, TicketExpires, IInv, TypeOK, NobodyIsLockedOut, HasFactor,
                    TotpBound, ListsAreBounded, Bounded, MapAgrees
<1>6. ASSUME NEW c \in Creds, PasskeyAddVerify(c) \/ RegistrationRejected(c) PROVE IInv'
  BY <1>0, <1>6 DEF PasskeyAddVerify, RegistrationRejected, ConsumeTicket, IInv, TypeOK,
                    NobodyIsLockedOut, HasFactor, TotpBound, ListsAreBounded, Bounded, MapAgrees
<1>7. ASSUME NEW c \in Creds, RegistrationVerified(c) PROVE IInv'
  BY <1>0, <1>7, SendIInv DEF RegistrationVerified, TypeOK
<1>8. ASSUME NEW c \in Creds, PasskeyRename(c) PROVE IInv'
  BY <1>0, <1>8, SendIInv DEF PasskeyRename, ConsumeTicket, TypeOK
<1>9. ASSUME NEW c \in Creds, PasskeyRemove(c) PROVE IInv'
  <2> DEFINE remaining == known.passkeys \ {c}
             call == [op |-> "remove", cred |-> c, remaining |-> remaining]
  <2>1. known.passkeys \subseteq Creds
    BY <1>0 DEF TypeOK, Record
  <2>2. Bounded(remaining)
    <3>1. IsFiniteSet(known.passkeys) /\ Cardinality(known.passkeys) <= MaxPasskeys
      BY DEF IInv, ListsAreBounded, Bounded
    <3>2. /\ IsFiniteSet(remaining)
          /\ Cardinality(remaining) <= Cardinality(known.passkeys)
      BY <3>1, FS_Subset
    <3>3. Cardinality(remaining) \in Nat /\ Cardinality(known.passkeys) \in Nat
      BY <3>1, <3>2, FS_CardinalityType
    <3> QED BY <3>1, <3>2, <3>3, TwoFactorAssumption DEF Bounded
  <2>3. call \in Call /\ call.remaining = remaining
    BY <2>1
  <2>4. Send(call) /\ UNCHANGED <<up, record, known, adding, drawn, confirmed, bound>>
    BY <1>9 DEF PasskeyRemove
  <2>5. tickets' \in 0..MaxTickets
    BY <1>0, <1>9 DEF PasskeyRemove, ConsumeTicket, TypeOK
  <2> HIDE DEF call, remaining
  <2> QED BY <1>0, <2>2, <2>3, <2>4, <2>5, SendIInv DEF TypeOK
<1>10. CASE PasskeyReset \/ PasskeyLogin
  BY <1>0, <1>10, SendIInv DEF PasskeyReset, PasskeyLogin, TypeOK
<1> QED
  BY <1>1, <1>2, <1>3, <1>4, <1>5, <1>6, <1>7, <1>8, <1>9, <1>10 DEF Request

LEMMA FinishAddIInv ==
  ASSUME IInv, FinishAdd
  PROVE  IInv'
<1> DEFINE c == Head(calls).cred
           r == [record EXCEPT !.passkeys = @ \cup {c}]
<1>1. /\ record \in Record /\ Bounded(record.passkeys) /\ bound \subseteq Creds
      /\ IsFiniteSet(record.passkeys)
  BY DEF IInv, TypeOK, ListsAreBounded, Bounded
<1>2. Take("add") /\ c \in Creds
  BY TakeFacts, CallFacts DEF FinishAdd, IInv
<1>3. CASE Write(record) /\ UNCHANGED bound
  BY <1>1, <1>2, <1>3, WriteIInv
<1>4. CASE /\ c \notin record.passkeys /\ ~ Cardinality(record.passkeys) >= MaxPasskeys
           /\ Write(r) /\ bound' = bound \cup {c}
  <2>1. r \in Record /\ r.passkeys = record.passkeys \cup {c}
    BY <1>1, <1>2 DEF Record
  <2>2. Bounded(r.passkeys)
    <3>1. IsFiniteSet(r.passkeys) /\ Cardinality(r.passkeys) = Cardinality(record.passkeys) + 1
      BY <1>1, <1>4, <2>1, FS_AddElement
    <3>2. Cardinality(record.passkeys) \in Nat
      BY <1>1, FS_CardinalityType
    <3> QED BY <1>4, <3>1, <3>2, TwoFactorAssumption DEF Bounded
  <2> HIDE DEF r
  <2> QED BY <1>1, <1>2, <1>4, <2>1, <2>2, WriteIInv
<1> QED BY <1>3, <1>4 DEF FinishAdd

LEMMA FinishIInv ==
  ASSUME IInv, Finish
  PROVE  IInv'
<1>0. /\ TypeOK /\ record \in Record /\ Bounded(record.passkeys) /\ bound \subseteq Creds
      /\ ListsAreBounded
  BY DEF IInv, TypeOK, ListsAreBounded
<1> DEFINE call == Head(calls)
<1>1. CASE FinishSet2fa
  <2>1. Take("set2fa") /\ call.on \in BOOLEAN
    BY <1>0, <1>1, TakeFacts, CallFacts DEF FinishSet2fa
  <2>2. [record EXCEPT !.twoFactor = call.on] \in Record
    BY <1>0, <2>1 DEF Record
  <2>3. [record EXCEPT !.twoFactor = call.on].passkeys = record.passkeys
    BY <1>0 DEF Record
  <2> QED BY <1>0, <1>1, <2>1, <2>2, <2>3, WriteIInv DEF FinishSet2fa
<1>2. CASE FinishGenerate
  <2> DEFINE r == [record EXCEPT !.secret = call.secret, !.enabled = FALSE]
  <2>1. Take("generate") /\ call.secret \in Secrets
    BY <1>0, <1>2, TakeFacts, CallFacts DEF FinishGenerate
  <2>2. r \in Record /\ r.passkeys = record.passkeys
    BY <1>0, <2>1 DEF Record
  <2>3. Write(r) /\ UNCHANGED bound
    BY <1>2 DEF FinishGenerate
  <2> HIDE DEF r
  <2> QED BY <1>0, <2>1, <2>2, <2>3, WriteIInv
<1>3. CASE FinishVerify
  <2>1. Take("enable")
    BY <1>3 DEF FinishVerify
  <2>2. [record EXCEPT !.enabled = TRUE] \in Record
        /\ [record EXCEPT !.enabled = TRUE].passkeys = record.passkeys
    BY <1>0 DEF Record
  <2> QED BY <1>0, <1>3, <2>1, <2>2, WriteIInv DEF FinishVerify
<1>4. CASE FinishTotpRemove
  <2> DEFINE r == [record EXCEPT !.secret = None, !.enabled = FALSE, !.twoFactor = call.keep]
  <2>1. Take("dropTotp") /\ call.keep \in BOOLEAN
    BY <1>0, <1>4, TakeFacts, CallFacts DEF FinishTotpRemove
  <2>2. r \in Record /\ r.passkeys = record.passkeys
    BY <1>0, <2>1 DEF Record
  <2>3. Write(r) /\ UNCHANGED bound
    BY <1>4 DEF FinishTotpRemove
  <2> HIDE DEF r
  <2> QED BY <1>0, <2>1, <2>2, <2>3, WriteIInv
<1>5. CASE FinishTouch
  BY <1>0, <1>5, WriteIInv DEF FinishTouch
<1>6. CASE FinishAdd
  BY <1>6, FinishAddIInv
<1>7. CASE FinishPasskeyRemove
  <2> DEFINE r == [record EXCEPT !.passkeys = call.remaining]
  <2>1. Take("remove") /\ call.remaining \subseteq Creds
    BY <1>0, <1>7, TakeFacts, CallFacts DEF FinishPasskeyRemove
  <2>2. Bounded(call.remaining)
    BY <1>0, <2>1, TakeFacts DEF ListsAreBounded
  <2>3. r \in Record /\ r.passkeys = call.remaining
    BY <1>0, <2>1 DEF Record
  <2>4. Write(r) /\ bound' \subseteq Creds
    BY <1>0, <1>7 DEF FinishPasskeyRemove
  <2> HIDE DEF r
  <2> QED BY <2>1, <2>2, <2>3, <2>4, WriteIInv
<1>8. CASE FinishReset
  <2>1. Take("clear") /\ bound' \subseteq Creds
    BY <1>8 DEF FinishReset
  <2>2. [record EXCEPT !.passkeys = {}] \in Record /\ [record EXCEPT !.passkeys = {}].passkeys = {}
    BY <1>0 DEF Record
  <2>3. Bounded({})
    BY FS_EmptySet, TwoFactorAssumption DEF Bounded
  <2> QED BY <1>8, <2>1, <2>2, <2>3, WriteIInv DEF FinishReset
<1> QED BY <1>1, <1>2, <1>3, <1>4, <1>5, <1>6, <1>7, <1>8 DEF Finish

(* What a mutator returns is a record whose list is bounded. *)
LEMMA ReturnedFacts ==
  ASSUME IInv, calls # <<>>
  PROVE  Returned(Head(calls)) \in Record /\ Bounded(Returned(Head(calls)).passkeys)
<1> DEFINE call == Head(calls)
<1>1. /\ call \in Call
      /\ call.op = "remove" => Bounded(call.remaining)
      /\ record \in Record /\ Bounded(record.passkeys) /\ IsFiniteSet(record.passkeys)
  BY DEF IInv, TypeOK, ListsAreBounded, Bounded
<1>2. CASE call.op \in {"set2fa", "generate", "enable", "dropTotp", "touch"}
  BY <1>1, <1>2, CallFacts DEF Returned, Record
<1>3. CASE call.op = "add"
  <2> DEFINE list == record.passkeys \cup {call.cred}
  <2>1. /\ list \subseteq Creds
        /\ [record EXCEPT !.passkeys = list] \in Record
        /\ [record EXCEPT !.passkeys = list].passkeys = list
    BY <1>1, <1>3, CallFacts DEF Record
  <2>2. /\ call.cred \notin record.passkeys
        /\ ~ Cardinality(record.passkeys) >= MaxPasskeys
        => Bounded(list)
    <3>1. call.cred \notin record.passkeys =>
            IsFiniteSet(list) /\ Cardinality(list) = Cardinality(record.passkeys) + 1
      BY <1>1, FS_AddElement
    <3>2. Cardinality(record.passkeys) \in Nat
      BY <1>1, FS_CardinalityType
    <3> QED BY <3>1, <3>2, TwoFactorAssumption DEF Bounded
  <2> QED BY <1>1, <1>3, <2>1, <2>2 DEF Returned
<1>4. CASE call.op = "remove"
  <2>1. call.remaining \subseteq Creds /\ Bounded(call.remaining)
    BY <1>1, <1>4, CallFacts
  <2>2. Returned(call) = [record EXCEPT !.passkeys = call.remaining]
    BY <1>4 DEF Returned
  <2> QED BY <1>1, <2>1, <2>2 DEF Record
<1>5. CASE call.op = "clear"
  <2>1. Returned(call) = [record EXCEPT !.passkeys = {}]
    BY <1>5 DEF Returned
  <2>2. Bounded({})
    BY FS_EmptySet, TwoFactorAssumption DEF Bounded
  <2> QED BY <1>1, <2>1, <2>2 DEF Record
<1> QED BY <1>1, <1>2, <1>3, <1>4, <1>5 DEF Call

(* A rejected call leaves the map as it is and the record as it is or as    *)
(* the mutator returned it.                                                 *)
LEMMA RejectedIInv ==
  ASSUME IInv, CallRejected
  PROVE  IInv'
<1>1. /\ TypeOK /\ calls # <<>> /\ Take(Head(calls).op)
      /\ UNCHANGED <<up, known, tickets, adding, drawn, confirmed, bound>>
  BY DEF CallRejected, IInv, Take
<1>2. /\ record' \in Record /\ Bounded(record'.passkeys)
      /\ record'.twoFactor => HasFactor(record')
      /\ disturbed' \in BOOLEAN /\ (~disturbed' => ~disturbed /\ record' = record)
  <2>1. CASE UNCHANGED <<record, disturbed>>
    BY <1>1, <2>1 DEF IInv, NobodyIsLockedOut, ListsAreBounded, Bounded, TypeOK
  <2>2. CASE /\ record' = NormalizeUserRecord(Returned(Head(calls)))
             /\ disturbed' = (disturbed \/ record' # record)
    <3>1. /\ record' \in Record /\ Bounded(record'.passkeys)
          /\ record'.twoFactor => HasFactor(record')
      BY <1>1, <2>2, ReturnedFacts, NormalizeFacts
    <3>2. disturbed' \in BOOLEAN /\ (~disturbed' => ~disturbed /\ record' = record)
      BY <2>2
    <3> QED BY <3>1, <3>2
  <2> QED BY <2>1, <2>2 DEF CallRejected
<1>3. TypeOK'
  BY <1>1, <1>2, TakeFacts DEF TypeOK
<1>4. NobodyIsLockedOut'
  BY <1>1, <1>2 DEF IInv, NobodyIsLockedOut, HasFactor, TotpBound
<1>5. ListsAreBounded'
  <2>1. \A i \in 1..Len(calls') : calls'[i].op = "remove" => Bounded(calls'[i].remaining)
    BY <1>1, TakeFacts DEF IInv, ListsAreBounded
  <2>2. Bounded(known.passkeys)'
    BY <1>1 DEF IInv, ListsAreBounded, Bounded
  <2> QED BY <1>2, <2>1, <2>2 DEF ListsAreBounded, Bounded
<1>6. MapAgrees'
  BY <1>1, <1>2 DEF IInv, MapAgrees
<1> QED BY <1>3, <1>4, <1>5, <1>6 DEF IInv

LEMMA NextIInv == IInv /\ [Next]_vars => IInv'
<1> SUFFICES ASSUME IInv, [Next]_vars PROVE IInv'
  OBVIOUS
<1>1. CASE Crash
  <2>1. calls' \in Seq(Call) /\ Len(calls') = 0
    BY <1>1, EmptySeq DEF Crash
  <2>2. TypeOK'
    <3>1. tickets' \in 0..MaxTickets
      BY <1>1, TwoFactorAssumption DEF Crash
    <3>2. /\ up' \in BOOLEAN /\ record' \in Record /\ known' \in Record /\ adding' \subseteq Creds
          /\ drawn' \subseteq Secrets /\ confirmed' \subseteq Secrets /\ bound' \subseteq Creds
          /\ disturbed' \in BOOLEAN
      BY <1>1 DEF Crash, IInv, TypeOK
    <3> QED BY <2>1, <3>1, <3>2 DEF TypeOK
  <2>3. NobodyIsLockedOut'
    BY <1>1 DEF Crash, IInv, NobodyIsLockedOut, HasFactor, TotpBound
  <2>4. ListsAreBounded'
    BY <1>1, <2>1 DEF Crash, IInv, ListsAreBounded, Bounded
  <2>5. MapAgrees'
    BY <1>1 DEF Crash, IInv, MapAgrees
  <2> QED BY <2>2, <2>3, <2>4, <2>5 DEF IInv
<1>2. CASE Boot
  <2>1. record \in Record
    BY DEF IInv, TypeOK
  <2>2. known' = record
    BY <1>2, <2>1, NormalizedAlready DEF Boot, IInv, NobodyIsLockedOut
  <2> QED BY <1>2, <2>1, <2>2 DEF Boot, IInv, TypeOK, NobodyIsLockedOut, HasFactor, TotpBound,
                                  ListsAreBounded, Bounded, MapAgrees
<1>3. CASE UNCHANGED vars
  BY <1>3 DEF vars, IInv, TypeOK, NobodyIsLockedOut, HasFactor, TotpBound, ListsAreBounded, Bounded,
              MapAgrees
<1> QED BY <1>1, <1>2, <1>3, RequestIInv, FinishIInv, RejectedIInv DEF Next

(* TwoFactor keeps its inductive invariant. *)
THEOREM TwoFactorInvariant == Spec => []IInv
BY InitIInv, NextIInv, PTL DEF Spec

(* reconcileTwoFactor on every path: 2FA is never on without a factor. *)
THEOREM NoLockout == Spec => []NobodyIsLockedOut
<1>1. IInv => NobodyIsLockedOut
  BY DEF IInv
<1> QED BY <1>1, TwoFactorInvariant, PTL

(* The account never has more than MAX_PASSKEYS passkeys. *)
THEOREM Limited == Spec => []PasskeysAreLimited
<1>1. IInv => PasskeysAreLimited
  BY DEF IInv, ListsAreBounded, Bounded, PasskeysAreLimited
<1> QED BY <1>1, TwoFactorInvariant, PTL

-----------------------------------------------------------------------------
(* A handler that calls storeMutate with no call in flight: the list a      *)
(* removal read is the list it replaces.                                    *)
LEMMA SerialSend ==
  ASSUME IInv, SerialInv, NEW call \in Call, Send(call), UNCHANGED <<record, known, bound>>,
         call.op = "remove" => call.remaining = known.passkeys \ {call.cred}
  PROVE  SerialInv'
<1> SUFFICES ASSUME ~disturbed'
             PROVE  /\ PasskeysFollowAnswers'
                    /\ Len(calls') <= 1
                    /\ \A i \in 1..Len(calls') : calls'[i].op = "remove" =>
                         calls'[i].remaining = record'.passkeys \ {calls'[i].cred}
  BY DEF SerialInv
<1>1. ~disturbed /\ Len(calls) = 0
  BY SendFacts DEF IInv
<1>2. Len(calls') = 1 /\ calls'[1] = call
  BY <1>1, SendFacts DEF IInv
<1>3. PasskeysFollowAnswers' /\ known = record
  BY <1>1 DEF SerialInv, PasskeysFollowAnswers, IInv, MapAgrees
<1> QED BY <1>2, <1>3

LEMMA SerialRequest ==
  ASSUME IInv, SerialInv, Request
  PROVE  SerialInv'
<1> USE DEF Call
<1>1. CASE \E on \in BOOLEAN : TotpSet2fa(on)
  BY <1>1, SerialSend DEF TotpSet2fa
<1>2. CASE \E byAdmin \in BOOLEAN : TotpRemove(byAdmin)
  <2>1. KeptWithoutTotp(known) \in BOOLEAN
    BY DEF KeptWithoutTotp, Reconcile
  <2> QED BY <1>2, <2>1, SerialSend DEF TotpRemove
<1>3. CASE \E s \in Secrets : TotpGenerate(s)
  BY <1>3, SerialSend DEF TotpGenerate
<1>4. CASE TotpVerify
  BY <1>4, SerialSend DEF TotpVerify
<1>5. CASE PasskeyStepUp \/ TicketExpires
  BY <1>5 DEF PasskeyStepUp, TicketExpires, SerialInv, PasskeysFollowAnswers
<1>6. CASE \E c \in Creds : PasskeyAddVerify(c) \/ RegistrationRejected(c)
  BY <1>6 DEF PasskeyAddVerify, RegistrationRejected, SerialInv, PasskeysFollowAnswers
<1>7. CASE \E c \in Creds : RegistrationVerified(c)
  BY <1>7, SerialSend DEF RegistrationVerified
<1>8. CASE \E c \in Creds : PasskeyRename(c)
  BY <1>8, SerialSend DEF PasskeyRename
<1>9. ASSUME NEW c \in Creds, PasskeyRemove(c) PROVE SerialInv'
  <2> DEFINE call == [op |-> "remove", cred |-> c, remaining |-> known.passkeys \ {c}]
  <2>1. known.passkeys \ {c} \subseteq Creds
    BY DEF IInv, TypeOK, Record
  <2>2. call \in Call /\ call.remaining = known.passkeys \ {call.cred}
    BY <2>1
  <2>3. Send(call) /\ UNCHANGED <<record, known, bound>>
    BY <1>9 DEF PasskeyRemove
  <2> HIDE DEF call
  <2> QED BY <2>2, <2>3, SerialSend
<1>10. CASE PasskeyReset \/ PasskeyLogin
  BY <1>10, SerialSend DEF PasskeyReset, PasskeyLogin
<1> QED
  BY <1>1, <1>2, <1>3, <1>4, <1>5, <1>6, <1>7, <1>8, <1>9, <1>10 DEF Request

LEMMA SerialFinish ==
  ASSUME IInv, SerialInv, Finish
  PROVE  SerialInv'
<1> SUFFICES ASSUME ~disturbed PROVE SerialInv'
  <2>1. disturbed' = disturbed
    BY DEF Finish, FinishSet2fa, FinishGenerate, FinishVerify, FinishTotpRemove, FinishTouch,
           FinishAdd, FinishPasskeyRemove, FinishReset, Write
  <2> QED BY <2>1 DEF SerialInv
<1> DEFINE call == Head(calls)
<1>1. TypeOK /\ record \in Record /\ record.passkeys = bound
  BY DEF IInv, SerialInv, TypeOK, PasskeysFollowAnswers, MapAgrees
<1>0. known' = record'
  BY DEF Finish, FinishSet2fa, FinishGenerate, FinishVerify, FinishTotpRemove, FinishTouch,
         FinishAdd, FinishPasskeyRemove, FinishReset, Write
<1>2. ASSUME NEW op, Take(op) PROVE Len(calls') = 0 /\ call \in Call /\ call.op = op
  BY <1>1, <1>2, TakeFacts DEF SerialInv, TypeOK
<1>3. ASSUME NEW op, Take(op), record'.passkeys = bound' PROVE SerialInv'
  BY <1>0, <1>2, <1>3 DEF SerialInv, PasskeysFollowAnswers
<1>4. ASSUME NEW r, Write(r) PROVE record'.passkeys = r.passkeys \/ r \notin Record
  BY <1>4, NormalizeFacts DEF Write
<1>5. CASE FinishSet2fa
  <2>1. Take("set2fa") /\ call.on \in BOOLEAN
    BY <1>5, <1>2, CallFacts DEF FinishSet2fa
  <2>2. [record EXCEPT !.twoFactor = call.on] \in Record
        /\ [record EXCEPT !.twoFactor = call.on].passkeys = record.passkeys
    BY <1>1, <2>1 DEF Record
  <2> QED BY <1>1, <1>3, <1>4, <1>5, <2>1, <2>2 DEF FinishSet2fa
<1>6. CASE FinishGenerate
  <2> DEFINE r == [record EXCEPT !.secret = call.secret, !.enabled = FALSE]
  <2>1. Take("generate") /\ call.secret \in Secrets
    BY <1>6, <1>2, CallFacts DEF FinishGenerate
  <2>2. r \in Record /\ r.passkeys = record.passkeys
    BY <1>1, <2>1 DEF Record
  <2>3. Write(r) /\ UNCHANGED bound
    BY <1>6 DEF FinishGenerate
  <2> HIDE DEF r
  <2> QED BY <1>1, <1>3, <1>4, <2>1, <2>2, <2>3
<1>7. CASE FinishVerify
  <2>1. [record EXCEPT !.enabled = TRUE] \in Record
        /\ [record EXCEPT !.enabled = TRUE].passkeys = record.passkeys
    BY <1>1 DEF Record
  <2> QED BY <1>1, <1>3, <1>4, <1>7, <2>1 DEF FinishVerify
<1>8. CASE FinishTotpRemove
  <2> DEFINE r == [record EXCEPT !.secret = None, !.enabled = FALSE, !.twoFactor = call.keep]
  <2>1. Take("dropTotp") /\ call.keep \in BOOLEAN
    BY <1>8, <1>2, CallFacts DEF FinishTotpRemove
  <2>2. r \in Record /\ r.passkeys = record.passkeys
    BY <1>1, <2>1 DEF Record
  <2>3. Write(r) /\ UNCHANGED bound
    BY <1>8 DEF FinishTotpRemove
  <2> HIDE DEF r
  <2> QED BY <1>1, <1>3, <1>4, <2>1, <2>2, <2>3
<1>9. CASE FinishTouch
  BY <1>1, <1>3, <1>4, <1>9 DEF FinishTouch
<1>10. CASE FinishAdd
  <2> DEFINE c == call.cred
             r == [record EXCEPT !.passkeys = @ \cup {c}]
  <2>1. Take("add") /\ c \in Creds
    BY <1>10, <1>2, CallFacts DEF FinishAdd
  <2>2. r \in Record /\ r.passkeys = record.passkeys \cup {c}
    BY <1>1, <2>1 DEF Record
  <2>3. \/ Write(record) /\ UNCHANGED bound
        \/ Write(r) /\ bound' = bound \cup {c}
    BY <1>10 DEF FinishAdd
  <2> HIDE DEF r
  <2> QED BY <1>1, <1>3, <1>4, <2>1, <2>2, <2>3
<1>11. CASE FinishPasskeyRemove
  <2> DEFINE r == [record EXCEPT !.passkeys = call.remaining]
  <2>1. Take("remove") /\ call.remaining \subseteq Creds
    BY <1>11, <1>2, CallFacts DEF FinishPasskeyRemove
  <2>2. call.remaining = record.passkeys \ {call.cred}
    BY <1>1, <2>1, TakeFacts DEF SerialInv
  <2>3. r \in Record /\ r.passkeys = call.remaining
    BY <1>1, <2>1 DEF Record
  <2>4. Write(r) /\ bound' = bound \ {call.cred}
    BY <1>11 DEF FinishPasskeyRemove
  <2> HIDE DEF r
  <2> QED BY <1>1, <1>3, <1>4, <2>1, <2>2, <2>3, <2>4
<1>12. CASE FinishReset
  <2>1. [record EXCEPT !.passkeys = {}] \in Record /\ [record EXCEPT !.passkeys = {}].passkeys = {}
    BY <1>1 DEF Record
  <2> QED BY <1>3, <1>4, <1>12, <2>1 DEF FinishReset
<1> QED
  BY <1>5, <1>6, <1>7, <1>8, <1>9, <1>10, <1>11, <1>12 DEF Finish

(* The one call in flight is rejected, without effect. *)
LEMMA RejectedAlone ==
  ASSUME IInv, SerialInv, CallRejected, ~disturbed'
  PROVE  ~disturbed /\ UNCHANGED <<record, known, confirmed, bound>> /\ Len(calls') = 0
<1>1. ~disturbed /\ UNCHANGED <<record, known, confirmed, bound>>
  <2>1. UNCHANGED <<known, confirmed, bound>>
    BY DEF CallRejected
  <2>2. CASE UNCHANGED <<record, disturbed>>
    BY <2>1, <2>2
  <2>3. CASE disturbed' = (disturbed \/ record' # record)
    <3>1. ~(disturbed \/ record' # record)
      BY <2>3, Zenon
    <3> QED BY <2>1, <3>1
  <2> QED BY <2>2, <2>3 DEF CallRejected
<1>2. Take(Head(calls).op)
  BY DEF CallRejected, Take
<1>3. Len(calls) <= 1 /\ Len(calls') = Len(calls) - 1 /\ Len(calls) \in Nat /\ Len(calls') \in Nat
  BY <1>1, <1>2, TakeFacts DEF SerialInv, IInv, TypeOK
<1> QED BY <1>1, <1>3

LEMMA SerialNext == IInv /\ SerialInv /\ [Next]_vars => SerialInv'
<1> SUFFICES ASSUME IInv, SerialInv, [Next]_vars PROVE SerialInv'
  OBVIOUS
<1>1. CASE Crash
  BY <1>1, EmptySeq DEF Crash, SerialInv, PasskeysFollowAnswers
<1>2. CASE Boot
  BY <1>2, NormalizeFacts DEF Boot, SerialInv, TypeOK, IInv, PasskeysFollowAnswers, MapAgrees
<1>3. CASE UNCHANGED vars
  BY <1>3 DEF vars, SerialInv, PasskeysFollowAnswers
<1>4. CASE CallRejected
  BY <1>4, RejectedAlone DEF SerialInv, PasskeysFollowAnswers
<1> QED BY <1>1, <1>2, <1>3, <1>4, SerialRequest, SerialFinish DEF Next

(* As long as the handlers of an account do not overlap and no rejected     *)
(* call changes it, its passkeys are the ones the answers say.              *)
THEOREM SerialAnswers == Spec => []AnswersHoldUnlessDisturbed
<1>1. Init => SerialInv
  BY EmptySeq DEF Init, SerialInv, PasskeysFollowAnswers
<1>2. IInv /\ SerialInv /\ [Next]_vars => SerialInv'
  BY SerialNext
<1>3. SerialInv => AnswersHoldUnlessDisturbed
  BY DEF SerialInv, AnswersHoldUnlessDisturbed
<1> QED BY <1>1, <1>2, <1>3, TwoFactorInvariant, PTL DEF Spec

-----------------------------------------------------------------------------
(* What is in flight was decided on the record as it still is, as long as   *)
(* the handlers do not overlap and no rejected call changes the record.     *)
LEMMA DecisionSend ==
  ASSUME IInv, DecisionInv, NEW call \in Call, Send(call), UNCHANGED <<record, known>>, confirmed \subseteq confirmed',
         call.op = "enable" => known.secret \in confirmed',
         call.op = "remove" => ~LastFactor(known, call.cred)
  PROVE  DecisionInv'
<1> SUFFICES ASSUME ~disturbed'
             PROVE  /\ SecretIsConfirmed'
                    /\ \A i \in 1..Len(calls') :
                         /\ calls'[i].op = "enable" => record'.secret \in confirmed'
                         /\ calls'[i].op = "remove" => ~LastFactor(record', calls'[i].cred)
  BY DEF DecisionInv, LastFactor, TotpBound
<1>1. ~disturbed /\ Len(calls) = 0
  BY SendFacts DEF IInv
<1>2. Len(calls') = 1 /\ calls'[1] = call
  BY <1>1, SendFacts DEF IInv
<1>3. SecretIsConfirmed' /\ known = record
  BY <1>1 DEF DecisionInv, SecretIsConfirmed, IInv, MapAgrees
<1> QED BY <1>2, <1>3

LEMMA DecisionRequest ==
  ASSUME IInv, DecisionInv, Request
  PROVE  DecisionInv'
<1> USE DEF Call
<1>1. CASE \E on \in BOOLEAN : TotpSet2fa(on)
  BY <1>1, DecisionSend DEF TotpSet2fa
<1>2. CASE \E byAdmin \in BOOLEAN : TotpRemove(byAdmin)
  <2>1. KeptWithoutTotp(known) \in BOOLEAN
    BY DEF KeptWithoutTotp, Reconcile
  <2> QED BY <1>2, <2>1, DecisionSend DEF TotpRemove
<1>3. CASE \E s \in Secrets : TotpGenerate(s)
  BY <1>3, DecisionSend DEF TotpGenerate
<1>4. CASE TotpVerify
  BY <1>4, DecisionSend DEF TotpVerify
<1>5. CASE PasskeyStepUp \/ TicketExpires
  BY <1>5 DEF PasskeyStepUp, TicketExpires, DecisionInv, SecretIsConfirmed, LastFactor, TotpBound
<1>6. CASE \E c \in Creds : PasskeyAddVerify(c) \/ RegistrationRejected(c)
  BY <1>6 DEF PasskeyAddVerify, RegistrationRejected, DecisionInv, SecretIsConfirmed, LastFactor, TotpBound
<1>7. CASE \E c \in Creds : RegistrationVerified(c)
  BY <1>7, DecisionSend DEF RegistrationVerified
<1>8. CASE \E c \in Creds : PasskeyRename(c)
  BY <1>8, DecisionSend DEF PasskeyRename
<1>9. ASSUME NEW c \in Creds, PasskeyRemove(c) PROVE DecisionInv'
  <2> DEFINE call == [op |-> "remove", cred |-> c, remaining |-> known.passkeys \ {c}]
  <2>1. known.passkeys \ {c} \subseteq Creds
    BY DEF IInv, TypeOK, Record
  <2>2. call \in Call /\ call.op = "remove" /\ call.cred = c
    BY <2>1
  <2>3. Send(call) /\ UNCHANGED <<record, known, confirmed>> /\ ~LastFactor(known, c)
    BY <1>9 DEF PasskeyRemove
  <2> HIDE DEF call
  <2> QED BY <2>2, <2>3, DecisionSend
<1>10. CASE PasskeyReset \/ PasskeyLogin
  BY <1>10, DecisionSend DEF PasskeyReset, PasskeyLogin
<1> QED
  BY <1>1, <1>2, <1>3, <1>4, <1>5, <1>6, <1>7, <1>8, <1>9, <1>10 DEF Request

(* The one call in flight is answered. *)
LEMMA DecisionFinish ==
  ASSUME IInv, SerialInv, DecisionInv, Finish
  PROVE  DecisionInv'
<1> SUFFICES ASSUME ~disturbed PROVE Len(calls') = 0 /\ SecretIsConfirmed'
  <2>1. disturbed' = disturbed
    BY DEF Finish, FinishSet2fa, FinishGenerate, FinishVerify, FinishTotpRemove, FinishTouch,
           FinishAdd, FinishPasskeyRemove, FinishReset, Write
  <2> QED BY <2>1 DEF DecisionInv
<1> DEFINE call == Head(calls)
<1>1. TypeOK /\ record \in Record /\ SecretIsConfirmed /\ known = record
  BY DEF IInv, DecisionInv, TypeOK, MapAgrees
<1>2. ASSUME NEW op, Take(op) PROVE Len(calls') = 0 /\ call \in Call /\ call.op = op
  BY <1>1, <1>2, TakeFacts DEF SerialInv, TypeOK
<1>3. ASSUME NEW r \in Record, Write(r), r.enabled => r.secret \in confirmed PROVE SecretIsConfirmed'
  BY <1>3 DEF Write, NormalizeUserRecord, Record, SecretIsConfirmed
<1>4. CASE FinishSet2fa
  <2> DEFINE r == [record EXCEPT !.twoFactor = call.on]
  <2>1. Take("set2fa") /\ Write(r)
    BY <1>4 DEF FinishSet2fa
  <2>2. r \in Record /\ r.enabled = record.enabled /\ r.secret = record.secret
    BY <1>1, <1>2, <2>1, CallFacts DEF Record
  <2> HIDE DEF r
  <2> QED BY <1>1, <1>2, <1>3, <2>1, <2>2 DEF SecretIsConfirmed
<1>5. CASE FinishGenerate
  <2> DEFINE r == [record EXCEPT !.secret = call.secret, !.enabled = FALSE]
  <2>1. Take("generate") /\ Write(r)
    BY <1>5 DEF FinishGenerate
  <2>2. r \in Record /\ ~r.enabled
    BY <1>1, <1>2, <2>1, CallFacts DEF Record
  <2> HIDE DEF r
  <2> QED BY <1>2, <1>3, <2>1, <2>2
<1>6. CASE FinishVerify
  <2> DEFINE r == [record EXCEPT !.enabled = TRUE]
  <2>1. Take("enable") /\ Write(r)
    BY <1>6 DEF FinishVerify
  <2>2. record.secret \in confirmed
    BY <1>1, <2>1, TakeFacts DEF DecisionInv
  <2>3. r \in Record /\ r.secret = record.secret
    BY <1>1 DEF Record
  <2> HIDE DEF r
  <2> QED BY <1>2, <1>3, <2>1, <2>2, <2>3
<1>7. CASE FinishTotpRemove
  <2> DEFINE r == [record EXCEPT !.secret = None, !.enabled = FALSE, !.twoFactor = call.keep]
  <2>1. Take("dropTotp") /\ Write(r)
    BY <1>7 DEF FinishTotpRemove
  <2>2. r \in Record /\ ~r.enabled
    BY <1>1, <1>2, <2>1, CallFacts DEF Record
  <2> HIDE DEF r
  <2> QED BY <1>2, <1>3, <2>1, <2>2
<1>8. CASE FinishTouch
  BY <1>1, <1>2, <1>3, <1>8 DEF FinishTouch, SecretIsConfirmed
<1>9. CASE FinishAdd \/ FinishPasskeyRemove \/ FinishReset
  <2>1. ASSUME NEW list \in SUBSET Creds, Write([record EXCEPT !.passkeys = list]) PROVE SecretIsConfirmed'
    <3> DEFINE r == [record EXCEPT !.passkeys = list]
    <3>1. r \in Record /\ r.enabled = record.enabled /\ r.secret = record.secret
      BY <1>1 DEF Record
    <3>2. Write(r)
      BY <2>1
    <3> HIDE DEF r
    <3> QED BY <1>1, <1>3, <3>1, <3>2 DEF SecretIsConfirmed
  <2>2. record.passkeys \subseteq Creds
    BY <1>1 DEF Record
  <2>3. CASE FinishAdd
    <3>1. Take("add") /\ call.cred \in Creds
      BY <1>2, <2>3, CallFacts DEF FinishAdd
    <3>2. Write(record) \/ Write([record EXCEPT !.passkeys = record.passkeys \cup {call.cred}])
      BY <1>1, <2>3 DEF FinishAdd
    <3> QED BY <1>1, <1>2, <1>3, <2>1, <2>2, <3>1, <3>2 DEF SecretIsConfirmed
  <2>4. CASE FinishPasskeyRemove
    <3>1. Take("remove") /\ call.remaining \subseteq Creds
      BY <1>2, <2>4, CallFacts DEF FinishPasskeyRemove
    <3> QED BY <1>2, <2>1, <2>4, <3>1 DEF FinishPasskeyRemove
  <2>5. CASE FinishReset
    BY <1>2, <2>1, <2>5 DEF FinishReset
  <2> QED BY <1>9, <2>3, <2>4, <2>5
<1> QED
  BY <1>4, <1>5, <1>6, <1>7, <1>8, <1>9 DEF Finish

LEMMA DecisionNext == IInv /\ SerialInv /\ DecisionInv /\ [Next]_vars => DecisionInv'
<1> SUFFICES ASSUME IInv, SerialInv, DecisionInv, [Next]_vars PROVE DecisionInv'
  OBVIOUS
<1>1. CASE Crash
  BY <1>1, EmptySeq DEF Crash, DecisionInv, SecretIsConfirmed
<1>2. CASE Boot
  <2>1. UNCHANGED <<record, calls, confirmed, disturbed>> /\ record \in Record
    BY <1>2 DEF Boot, IInv, TypeOK
  <2>2. known' = record
    BY <1>2, <2>1, NormalizedAlready DEF Boot, IInv, NobodyIsLockedOut
  <2> QED BY <2>1, <2>2 DEF DecisionInv, SecretIsConfirmed, LastFactor, TotpBound, IInv, MapAgrees
<1>3. CASE UNCHANGED vars
  BY <1>3 DEF vars, DecisionInv, SecretIsConfirmed, LastFactor, TotpBound
<1>4. CASE CallRejected
  BY <1>4, RejectedAlone DEF DecisionInv, SecretIsConfirmed
<1> QED BY <1>1, <1>2, <1>3, <1>4, DecisionRequest, DecisionFinish DEF Next

LEMMA Decided == Spec => [](IInv /\ SerialInv /\ DecisionInv)
<1>1. Init => SerialInv /\ DecisionInv
  BY EmptySeq DEF Init, SerialInv, PasskeysFollowAnswers, DecisionInv, SecretIsConfirmed
<1>2. IInv /\ SerialInv /\ DecisionInv /\ [Next]_vars => SerialInv' /\ DecisionInv'
  BY SerialNext, DecisionNext
<1> QED BY <1>1, <1>2, TwoFactorInvariant, PTL DEF Spec

(* Only a secret that a code was verified for counts as a factor, as long   *)
(* as the handlers do not overlap and no rejected call changes the record.  *)
THEOREM SecretConfirmed == Spec => []EnabledSecretIsConfirmed
<1>1. DecisionInv => EnabledSecretIsConfirmed
  BY DEF DecisionInv, EnabledSecretIsConfirmed
<1> QED BY <1>1, Decided, PTL

(* The last factor of an account with 2FA is not removed by its owner, as   *)
(* long as the handlers do not overlap and no rejected call changes the     *)
(* record.                                                                  *)
THEOREM LastStays == Spec => LastFactorStays
<1>1. IInv /\ SerialInv /\ DecisionInv /\ [Next]_vars => [\A c \in Creds : FactorRemoved(c) => disturbed]_vars
  <2> SUFFICES ASSUME IInv, SerialInv, DecisionInv, NEW c \in Creds, FactorRemoved(c), ~disturbed PROVE FALSE
    BY DEF IInv
  <2> DEFINE call == Head(calls)
  <2>1. LastFactor(record, c) /\ FinishPasskeyRemove /\ c \notin record'.passkeys
    BY DEF FactorRemoved
  <2>2. Take("remove") /\ Write([record EXCEPT !.passkeys = call.remaining])
    BY <2>1 DEF FinishPasskeyRemove
  <2>3. /\ call \in Call /\ call.op = "remove" /\ ~LastFactor(record, call.cred)
        /\ call.remaining = record.passkeys \ {call.cred}
    BY <2>2, TakeFacts DEF DecisionInv, SerialInv, IInv
  <2>4. record'.passkeys = call.remaining
    <3> DEFINE r == [record EXCEPT !.passkeys = call.remaining]
    <3>1. r \in Record /\ r.passkeys = call.remaining
      BY <2>3, CallFacts DEF IInv, TypeOK, Record
    <3>2. Write(r)
      BY <2>2
    <3> HIDE DEF r
    <3> QED BY <3>1, <3>2, NormalizeFacts DEF Write
  <2> QED BY <2>1, <2>3, <2>4 DEF LastFactor
<1> QED BY <1>1, Decided, PTL DEF Spec, LastFactorStays
=============================================================================
