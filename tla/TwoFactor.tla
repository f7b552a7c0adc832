----------------------------- MODULE TwoFactor -----------------------------
(***************************************************************************)
(* The second factors of one account (src/src/index.ts: the totp* and      *)
(* passkey* handlers; src/src/webauthn.ts: factorState, reconcileTwoFactor)*)
(*                                                                         *)
(* A handler decides on the record it reads from state.users and hands a   *)
(* mutator to storeMutate; the credentials service runs the mutators of a  *)
(* record one after the other, each on the record the one before it left.  *)
(* What a mutator carries from the record the handler read is an argument  *)
(* of its call.  The service may reject a call, before or after it took    *)
(* effect: the map is then left as it is.                                  *)
(*                                                                         *)
(* Left out: the deletion of the account, the cryptographic verification   *)
(* (an authenticator or app answers whatever it was asked), and the        *)
(* handlers passkeyList, passkeyAddOptions, totpStatus and totpIgnore,     *)
(* which change none of the fields below.                                  *)
(***************************************************************************)
EXTENDS Naturals, Sequences, FiniteSets

CONSTANTS
  Creds,        \* passkey credentials
  Secrets,      \* TOTP secrets the random source can give
  None,         \* undefined
  MaxPasskeys,  \* MAX_PASSKEYS
  MaxPending,   \* bound: calls of storeMutate in flight when a handler starts
  MaxTickets    \* bound: step-up tickets of the user

ASSUME TwoFactorAssumption ==
  /\ MaxPasskeys \in Nat \ {0} /\ MaxPending \in Nat \ {0} /\ MaxTickets \in Nat
  /\ None \notin Secrets

VARIABLES
  up,         \* state.ready
  record,     \* the fields totpSecret, totpEnabled, twoFactor and passkeys of the record
  known,      \* the same fields in state.users
  calls,      \* calls of storeMutate in flight, oldest first
  tickets,    \* number of "stepup" tickets of the user in state.tickets
  adding,     \* passkeyAddVerify requests that await finishRegistration
  drawn,      \* history: secrets that were generated
  confirmed,  \* history: secrets a code was verified for
  bound,      \* history: the passkeys of the account, going by the answers
  disturbed   \* history: a handler called storeMutate with a call in flight, or a call
              \* was rejected that changed the record

vars == <<up, record, known, calls, tickets, adding, drawn, confirmed, bound, disturbed>>

Record == [secret : Secrets \cup {None}, enabled : BOOLEAN,
           twoFactor : BOOLEAN, passkeys : SUBSET Creds]

Call ==
       [op : {"set2fa"}, on : BOOLEAN]
  \cup [op : {"generate"}, secret : Secrets]
  \cup [op : {"enable", "clear", "touch"}]
  \cup [op : {"dropTotp"}, keep : BOOLEAN]
  \cup [op : {"add"}, cred : Creds]
  \cup [op : {"remove"}, cred : Creds, remaining : SUBSET Creds]

TypeOK ==
  /\ up \in BOOLEAN
  /\ record \in Record /\ known \in Record
  /\ calls \in Seq(Call)
  /\ tickets \in 0..MaxTickets
  /\ adding \subseteq Creds
  /\ drawn \subseteq Secrets /\ confirmed \subseteq Secrets
  /\ bound \subseteq Creds
  /\ disturbed \in BOOLEAN

Init ==
  /\ up = TRUE
  /\ record = [secret |-> None, enabled |-> FALSE, twoFactor |-> FALSE, passkeys |-> {}]
  /\ known = record
  /\ calls = <<>> /\ tickets = 0 /\ adding = {}
  /\ drawn = {} /\ confirmed = {} /\ bound = {}
  /\ disturbed = FALSE

-----------------------------------------------------------------------------
TotpBound(r) == r.enabled /\ r.secret # None
HasFactor(r) == TotpBound(r) \/ r.passkeys # {}

Reconcile(r) == r.twoFactor /\ HasFactor(r)

(* Variant: the record is written as the mutator returns it. *)
WriteAsGiven(r) == r

NormalizeUserRecord(r) == [r EXCEPT !.twoFactor = Reconcile(r)]

(* 2FA as it must be after TOTP is removed from the record a handler read. *)
KeptWithoutTotp(r) == Reconcile([r EXCEPT !.secret = None, !.enabled = FALSE])

(* The last passkey of an account whose second step depends on it. *)
LastFactor(r, c) == r.passkeys = {c} /\ r.twoFactor /\ ~TotpBound(r)

Started == up /\ Len(calls) < MaxPending
Send(call) ==
  /\ calls' = Append(calls, call)
  /\ disturbed' = (disturbed \/ calls # <<>>)

-----------------------------------------------------------------------------
(* The handlers, up to storeMutate. *)

TotpSet2fa(on) ==
  /\ Started
  /\ on => HasFactor(known)
  /\ Send([op |-> "set2fa", on |-> on])
  /\ UNCHANGED <<up, record, known, tickets, adding, drawn, confirmed, bound>>

TotpGenerate(s) ==
  /\ Started
  /\ ~known.enabled
  /\ s \notin drawn
  /\ drawn' = drawn \cup {s}
  /\ Send([op |-> "generate", secret |-> s])
  /\ UNCHANGED <<up, record, known, tickets, adding, confirmed, bound>>

(* Variant: the code is not verified. *)
TotpVerifyAnyCode ==
  /\ Started
  /\ known.secret # None
  /\ Send([op |-> "enable"])
  /\ UNCHANGED <<up, record, known, tickets, adding, drawn, confirmed, bound>>

(* The code sent is one of the secret in the map.  *)
TotpVerify ==
  /\ Started
  /\ known.secret # None
  /\ confirmed' = confirmed \cup {known.secret}
  /\ Send([op |-> "enable"])
  /\ UNCHANGED <<up, record, known, tickets, adding, drawn, bound>>

(* By the user, with a code of the secret, or by an administrator. *)
TotpRemove(byAdmin) ==
  /\ Started
  /\ byAdmin \/ known.secret # None
  /\ Send([op |-> "dropTotp", keep |-> KeptWithoutTotp(known)])
  /\ UNCHANGED <<up, record, known, tickets, adding, drawn, confirmed, bound>>

(* The user gives the password, and the second factor if 2FA is on. *)
PasskeyStepUp ==
  /\ up
  /\ tickets < MaxTickets
  /\ known.twoFactor /\ ~TotpBound(known) => known.passkeys # {}
  /\ tickets' = tickets + 1
  /\ UNCHANGED <<up, record, known, calls, adding, drawn, confirmed, bound, disturbed>>

TicketExpires ==
  /\ tickets > 0
  /\ tickets' = tickets - 1
  /\ UNCHANGED <<up, record, known, calls, adding, drawn, confirmed, bound, disturbed>>

ConsumeTicket == tickets > 0 /\ tickets' = tickets - 1

PasskeyAddVerify(c) ==
  /\ up
  /\ ConsumeTicket
  /\ c \notin adding
  /\ adding' = adding \cup {c}
  /\ UNCHANGED <<up, record, known, calls, drawn, confirmed, bound, disturbed>>

(* finishRegistration resolves: with the credential, or with an error. *)
RegistrationVerified(c) ==
  /\ Started
  /\ c \in adding /\ adding' = adding \ {c}
  /\ Send([op |-> "add", cred |-> c])
  /\ UNCHANGED <<up, record, known, tickets, drawn, confirmed, bound>>

RegistrationRejected(c) ==
  /\ c \in adding /\ adding' = adding \ {c}
  /\ UNCHANGED <<up, record, known, calls, tickets, drawn, confirmed, bound, disturbed>>

PasskeyRename(c) ==
  /\ Started
  /\ ConsumeTicket
  /\ c \in known.passkeys
  /\ Send([op |-> "touch"])
  /\ UNCHANGED <<up, record, known, adding, drawn, confirmed, bound>>

(* Variant: the last factor can be removed. *)
PasskeyRemoveAny(c) ==
  /\ Started
  /\ ConsumeTicket
  /\ c \in known.passkeys
  /\ Send([op |-> "remove", cred |-> c, remaining |-> known.passkeys \ {c}])
  /\ UNCHANGED <<up, record, known, adding, drawn, confirmed, bound>>

PasskeyRemove(c) ==
  /\ Started
  /\ ConsumeTicket
  /\ c \in known.passkeys
  /\ ~LastFactor(known, c)
  /\ Send([op |-> "remove", cred |-> c, remaining |-> known.passkeys \ {c}])
  /\ UNCHANGED <<up, record, known, adding, drawn, confirmed, bound>>

(* An administrator clears the passkeys. *)
PasskeyReset ==
  /\ Started
  /\ Send([op |-> "clear"])
  /\ UNCHANGED <<up, record, known, tickets, adding, drawn, confirmed, bound>>

(* A login with a passkey (touchPasskey, which awaits a verification first). *)
PasskeyLogin ==
  /\ Started
  /\ known.passkeys # {}
  /\ Send([op |-> "touch"])
  /\ UNCHANGED <<up, record, known, tickets, adding, drawn, confirmed, bound>>

-----------------------------------------------------------------------------
(* The service runs the mutator at the head of the queue. *)

Take(op) ==
  /\ calls # <<>>
  /\ Head(calls).op = op
  /\ calls' = Tail(calls)

Write(r) ==
  /\ record' = NormalizeUserRecord(r) /\ known' = record'
  /\ UNCHANGED <<up, tickets, adding, drawn, confirmed, disturbed>>

FinishSet2fa ==
  /\ Take("set2fa")
  /\ Write([record EXCEPT !.twoFactor = Head(calls).on])
  /\ UNCHANGED bound

FinishGenerate ==
  /\ Take("generate")
  /\ Write([record EXCEPT !.secret = Head(calls).secret, !.enabled = FALSE])
  /\ UNCHANGED bound

FinishVerify ==
  /\ Take("enable")
  /\ Write([record EXCEPT !.enabled = TRUE])
  /\ UNCHANGED bound

FinishTotpRemove ==
  /\ Take("dropTotp")
  /\ Write([record EXCEPT !.secret = None, !.enabled = FALSE, !.twoFactor = Head(calls).keep])
  /\ UNCHANGED bound

FinishTouch ==
  /\ Take("touch")
  /\ Write(record)
  /\ UNCHANGED bound

(* Variants: the limit is not checked; the new passkey replaces the others. *)
FinishAddUnlimited ==
  /\ Take("add")
  /\ LET c == Head(calls).cred IN
       IF c \in record.passkeys
       THEN Write(record) /\ UNCHANGED bound
       ELSE /\ Write([record EXCEPT !.passkeys = @ \cup {c}])
            /\ bound' = bound \cup {c}

FinishAddAlone ==
  /\ Take("add")
  /\ LET c == Head(calls).cred IN
       IF c \in record.passkeys \/ Cardinality(record.passkeys) >= MaxPasskeys
       THEN Write(record) /\ UNCHANGED bound
       ELSE /\ Write([record EXCEPT !.passkeys = {c}])
            /\ bound' = bound \cup {c}

FinishAdd ==
  /\ Take("add")
  /\ LET c == Head(calls).cred IN
       IF c \in record.passkeys \/ Cardinality(record.passkeys) >= MaxPasskeys
       THEN Write(record) /\ UNCHANGED bound
       ELSE /\ Write([record EXCEPT !.passkeys = @ \cup {c}])
            /\ bound' = bound \cup {c}

(* The list is the one the handler read, without the passkey. *)
FinishPasskeyRemove ==
  /\ Take("remove")
  /\ Write([record EXCEPT !.passkeys = Head(calls).remaining])
  /\ bound' = bound \ {Head(calls).cred}

FinishReset ==
  /\ Take("clear")
  /\ Write([record EXCEPT !.passkeys = {}])
  /\ bound' = {}

(* What the mutator of a call makes of the record. *)
Returned(call) ==
  CASE call.op = "set2fa" -> [record EXCEPT !.twoFactor = call.on]
    [] call.op = "generate" -> [record EXCEPT !.secret = call.secret, !.enabled = FALSE]
    [] call.op = "enable" -> [record EXCEPT !.enabled = TRUE]
    [] call.op = "dropTotp" -> [record EXCEPT !.secret = None, !.enabled = FALSE, !.twoFactor = call.keep]
    [] call.op = "touch" -> record
    [] call.op = "add" -> IF call.cred \in record.passkeys \/ Cardinality(record.passkeys) >= MaxPasskeys
                          THEN record
                          ELSE [record EXCEPT !.passkeys = @ \cup {call.cred}]
    [] call.op = "remove" -> [record EXCEPT !.passkeys = call.remaining]
    [] call.op = "clear" -> [record EXCEPT !.passkeys = {}]

(* The service rejects the call, and the handler throws.  (Bound: the map is *)
(* behind by the effect of one rejected call at most.)                       *)
CallRejected ==
  /\ calls # <<>> /\ calls' = Tail(calls)
  /\ \/ UNCHANGED <<record, disturbed>>
     \/ /\ known = record
        /\ record' = NormalizeUserRecord(Returned(Head(calls)))
        /\ disturbed' = (disturbed \/ record' # record)
  /\ UNCHANGED <<up, known, tickets, adding, drawn, confirmed, bound>>

(* The process ends and starts again: tickets and calls are lost. *)
Crash ==
  /\ up /\ up' = FALSE
  /\ calls' = <<>> /\ tickets' = 0 /\ adding' = {}
  /\ UNCHANGED <<record, known, drawn, confirmed, bound, disturbed>>

Boot ==
  /\ ~up /\ up' = TRUE
  /\ known' = NormalizeUserRecord(record)
  /\ UNCHANGED <<record, calls, tickets, adding, drawn, confirmed, bound, disturbed>>

-----------------------------------------------------------------------------
Request ==
  \/ \E on \in BOOLEAN : TotpSet2fa(on) \/ TotpRemove(on)
  \/ \E s \in Secrets : TotpGenerate(s)
  \/ TotpVerify
  \/ PasskeyStepUp \/ TicketExpires
  \/ \E c \in Creds :
       \/ PasskeyAddVerify(c)
       \/ RegistrationVerified(c) \/ RegistrationRejected(c)
       \/ PasskeyRename(c)
       \/ PasskeyRemove(c)
  \/ PasskeyReset
  \/ PasskeyLogin

Finish ==
  \/ FinishSet2fa
  \/ FinishGenerate
  \/ FinishVerify
  \/ FinishTotpRemove
  \/ FinishTouch
  \/ FinishAdd
  \/ FinishPasskeyRemove
  \/ FinishReset

Next == Request \/ Finish \/ CallRejected \/ Crash \/ Boot

Spec == Init /\ [][Next]_vars
-----------------------------------------------------------------------------
(* src/src/webauthn.ts:108: two-factor login is on only while a factor is   *)
(* there, in whatever order factors are added, replaced and removed, and     *)
(* whichever calls are rejected: the account can always be logged into, by   *)
(* what is in the map and, after a restart, by what is in the record.        *)
NobodyIsLockedOut == \A r \in {record, known} : r.twoFactor => HasFactor(r)

(* The limit of passkeys per account holds for additions that race, and for *)
(* the lists removals write back, which may be those of an older record.     *)
PasskeysAreLimited == \A r \in {record, known} : Cardinality(r.passkeys) <= MaxPasskeys

(* src/src/webauthn.ts:100: a secret counts as a factor only after a code   *)
(* of that very secret was verified, as long as the handlers do not overlap *)
(* and no call is rejected that took effect (the next code is verified      *)
(* against the secret in the map).                                          *)
SecretIsConfirmed == known.enabled => known.secret \in confirmed
EnabledSecretIsConfirmed == ~disturbed => SecretIsConfirmed

(* The passkeys of the account are those whose addition was answered, less  *)
(* those whose removal was.                                                 *)
PasskeysFollowAnswers == known.passkeys = bound

(* The condition under which the code keeps that: each handler reads the    *)
(* record after the call of the one before it was answered or was rejected  *)
(* without effect.                                                          *)
AnswersHoldUnlessDisturbed == ~disturbed => PasskeysFollowAnswers

(* README.md:168: with two-factor login on, the one passkey left cannot be  *)
(* removed by its owner, under the same condition.                          *)
FactorRemoved(c) == LastFactor(record, c) /\ FinishPasskeyRemove /\ c \notin record'.passkeys
LastFactorStays == [][\A c \in Creds : FactorRemoved(c) => disturbed]_vars
-----------------------------------------------------------------------------
(* The inductive invariant: the map is behind the record only after a call   *)
(* was rejected that changed the record, and the lists on their way to the   *)
(* record are bounded as the one in it is.                                   *)
MapAgrees == ~disturbed => known = record

Bounded(s) == IsFiniteSet(s) /\ Cardinality(s) <= MaxPasskeys

ListsAreBounded ==
  /\ Bounded(record.passkeys) /\ Bounded(known.passkeys)
  /\ \A i \in 1..Len(calls) : calls[i].op = "remove" => Bounded(calls[i].remaining)

IInv == TypeOK /\ NobodyIsLockedOut /\ ListsAreBounded /\ MapAgrees

(* The inductive invariant of AnswersHoldUnlessDisturbed. *)
SerialInv ==
  ~disturbed =>
    /\ PasskeysFollowAnswers
    /\ Len(calls) <= 1
    /\ \A i \in 1..Len(calls) : calls[i].op = "remove" =>
         calls[i].remaining = record.passkeys \ {calls[i].cred}

(* The inductive invariant of EnabledSecretIsConfirmed and LastFactorStays:  *)
(* what is in flight was decided on the record as it still is.              *)
DecisionInv ==
  ~disturbed =>
    /\ SecretIsConfirmed
    /\ \A i \in 1..Len(calls) :
         /\ calls[i].op = "enable" => record.secret \in confirmed
         /\ calls[i].op = "remove" => ~LastFactor(record, calls[i].cred)
=============================================================================
