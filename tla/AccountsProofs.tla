-------------------------- MODULE AccountsProofs --------------------------
(***************************************************************************)
(* For every set of names, passwords and tokens and all bounds: the        *)
(* inductive invariant of the user table, the refinement of NameLifecycle  *)
(* it carries, and the administrator that remains; then the user table and *)
(* the session table together: who is out after a deletion or a change of  *)
(* password.                                                               *)
(***************************************************************************)
EXTENDS MCUserStore, MCAccounts, SequenceTheorems, TLAPS

-----------------------------------------------------------------------------
(* The user table.                                                         *)

(* Sending a call appends it to the queue of its record and to no other. *)
LEMMA SendFacts ==
  ASSUME TypeOK, NEW n \in Users, NEW call \in Call, Send(n, call)
  PROVE  /\ calls' \in [Users -> Seq(Call)]
         /\ Len(calls'[n]) = Len(calls[n]) + 1
         /\ \A i \in 1..Len(calls[n]) : calls'[n][i] = calls[n][i]
         /\ calls'[n][Len(calls[n]) + 1] = call
         /\ \A m \in Users \ {n} : calls'[m] = calls[m]
BY DEF TypeOK, Send

(* Taking a call removes the oldest one of its queue. *)
LEMMA TakeFacts ==
  ASSUME TypeOK, NEW n \in Users, NEW op, Take(n, op)
  PROVE  /\ calls' \in [Users -> Seq(Call)]
         /\ 1 \in 1..Len(calls[n])
         /\ calls[n][1] = Head(calls[n])
         /\ Head(calls[n]) \in Call
         /\ Head(calls[n]).op = op
         /\ Len(calls'[n]) = Len(calls[n]) - 1
         /\ \A i \in 1..Len(calls'[n]) : i + 1 \in 1..Len(calls[n]) /\ calls'[n][i] = calls[n][i + 1]
         /\ \A m \in Users \ {n} : calls'[m] = calls[m]
BY DEF TypeOK, Take

(* A step that sends nothing and takes from one queue leaves no call of a   *)
(* kind that was not there, and keeps creations before deletions.           *)
LEMMA TakeKeepsOrder ==
  ASSUME TypeOK, CreatesBeforeDeletes, NEW n \in Users, NEW op, Take(n, op)
  PROVE  /\ CreatesBeforeDeletes'
         /\ \A m \in Users, o \in {"create", "delete", "touch"} : Pending(m, o)' => Pending(m, o)
<1>1. CreatesBeforeDeletes'
  <2> SUFFICES ASSUME NEW m \in Users, NEW i \in 1..Len(calls'[m]), NEW j \in 1..Len(calls'[m]),
                      i < j, calls'[m][i].op = "delete"
               PROVE  calls'[m][j].op # "create"
    BY DEF CreatesBeforeDeletes
  <2>1. CASE m = n
    <3>1. i + 1 \in 1..Len(calls[n]) /\ j + 1 \in 1..Len(calls[n]) /\ i + 1 < j + 1
      BY <2>1, TakeFacts
    <3>2. calls[n][i + 1].op = "delete" /\ calls'[n][j] = calls[n][j + 1]
      BY <2>1, TakeFacts
    <3> QED BY <2>1, <3>1, <3>2 DEF CreatesBeforeDeletes
  <2>2. CASE m # n
    BY <2>2, TakeFacts DEF CreatesBeforeDeletes
  <2> QED BY <2>1, <2>2
<1>2. ASSUME NEW m \in Users, NEW o \in {"create", "delete", "touch"}, Pending(m, o)'
      PROVE  Pending(m, o)
  <2>1. PICK i \in 1..Len(calls'[m]) : calls'[m][i].op = o
    BY <1>2 DEF Pending
  <2>2. CASE m = n
    BY <2>1, <2>2, TakeFacts DEF Pending
  <2>3. CASE m # n
    BY <2>1, <2>3, TakeFacts DEF Pending
  <2> QED BY <2>2, <2>3
<1> QED BY <1>1, <1>2

(* Sending a call that is not a creation adds no creation, and one that is  *)
(* not a deletion adds no deletion.                                         *)
LEMMA SendKeepsPending ==
  ASSUME TypeOK, NEW n \in Users, NEW call \in Call, Send(n, call)
  PROVE  \A m \in Users, o \in {"create", "delete", "touch"} :
           Pending(m, o)' => Pending(m, o) \/ (m = n /\ call.op = o)
<1> SUFFICES ASSUME NEW m \in Users, NEW o \in {"create", "delete", "touch"}, Pending(m, o)',
                    ~(m = n /\ call.op = o)
             PROVE  Pending(m, o)
  OBVIOUS
<1>1. PICK i \in 1..Len(calls'[m]) : calls'[m][i].op = o
  BY DEF Pending
<1>2. CASE m = n
  <2>1. i \in 1..Len(calls[n])
    BY <1>1, <1>2, SendFacts DEF TypeOK
  <2> QED BY <1>1, <1>2, <2>1, SendFacts DEF Pending
<1>3. CASE m # n
  BY <1>1, <1>3, SendFacts DEF Pending
<1> QED BY <1>2, <1>3

(* Appending to a queue breaks the order only with a creation behind a      *)
(* deletion.                                                                *)
LEMMA SendKeepsOrder ==
  ASSUME TypeOK, CreatesBeforeDeletes, NEW n \in Users, NEW call \in Call, Send(n, call),
         call.op = "create" => ~Pending(n, "delete")
  PROVE  CreatesBeforeDeletes'
<1> SUFFICES ASSUME NEW m \in Users, NEW i \in 1..Len(calls'[m]), NEW j \in 1..Len(calls'[m]),
                    i < j, calls'[m][i].op = "delete"
             PROVE  calls'[m][j].op # "create"
  BY DEF CreatesBeforeDeletes
<1>1. CASE m = n
  <2>1. i \in 1..Len(calls[n]) /\ calls[n][i].op = "delete"
    BY <1>1, SendFacts DEF TypeOK
  <2>2. CASE j \in 1..Len(calls[n])
    BY <1>1, <2>1, <2>2, SendFacts DEF CreatesBeforeDeletes
  <2>3. CASE j = Len(calls[n]) + 1
    BY <1>1, <2>1, <2>3, SendFacts DEF Pending
  <2> QED BY <1>1, <2>2, <2>3, SendFacts DEF TypeOK
<1>2. CASE m # n
  BY <1>2, SendFacts DEF CreatesBeforeDeletes
<1> QED BY <1>1, <1>2

-----------------------------------------------------------------------------
LEMMA InitIInv == Init => IInv
BY DEF Init, NoUsers, IInv, TypeOK, DownIsEmpty, TombstonesKnown, MemoryMatchesDisk,
       KnownAreLive, RetireTargets, CreatesBeforeDeletes, NoRebirthInFlight, DeletesAreOfRetired, Pending

(* What bootstrap() may write. *)
LEMMA BootstrappedFacts ==
  ASSUME TypeOK, NEW pw \in Passwords
  PROVE  /\ Bootstrapped(pw) \in [Users -> Record \cup {None}]
         /\ \A n \in Users : disk[n] # None => Bootstrapped(pw)[n] = disk[n]
         /\ \A n \in retiredDisk : Bootstrapped(pw)[n] = disk[n]
BY UserStoreAssumption DEF TypeOK, Bootstrapped, NoUsers, Record, Roles

LEMMA BootIInv == IInv /\ Boot => IInv'
<1> SUFFICES ASSUME IInv, Boot PROVE IInv'
  OBVIOUS
<1>1. PICK pw \in Passwords : disk' = Bootstrapped(pw)
  BY DEF Boot
<1>2. disk' \in [Users -> Record \cup {None}]
  BY <1>1, BootstrappedFacts DEF IInv
<1>3. \A n \in Users : calls[n] = <<>> /\ calls'[n] = <<>>
  BY DEF Boot, IInv, DownIsEmpty
<1>4. TypeOK'
  BY <1>2 DEF IInv, TypeOK, Boot
<1>5. retiring' = <<>> /\ \A n \in Users, op \in {"create", "delete"} : ~Pending(n, op)'
  BY <1>3 DEF Boot, IInv, DownIsEmpty, Pending
<1>6. TombstonesKnown' /\ MemoryMatchesDisk' /\ KnownAreLive' /\ DownIsEmpty'
  BY <1>4 DEF Boot, TombstonesKnown, MemoryMatchesDisk, KnownAreLive, Live, DownIsEmpty
<1>7. RetireTargets' /\ CreatesBeforeDeletes' /\ NoRebirthInFlight' /\ DeletesAreOfRetired'
  BY <1>3, <1>4, <1>5 DEF RetireTargets, CreatesBeforeDeletes, NoRebirthInFlight,
                          DeletesAreOfRetired, TypeOK
<1> QED BY <1>4, <1>6, <1>7 DEF IInv

LEMMA InitFailsIInv == IInv /\ InitFails => IInv'
<1> SUFFICES ASSUME IInv, InitFails PROVE IInv'
  OBVIOUS
<1>1. disk' = disk \/ \E pw \in Passwords : disk' = Bootstrapped(pw)
  BY DEF InitFails
<1>2. disk' \in [Users -> Record \cup {None}]
  BY <1>1, BootstrappedFacts DEF IInv, TypeOK
<1>3. /\ phase = "down" /\ retiring = <<>> /\ \A n \in Users : calls[n] = <<>>
      /\ UNCHANGED <<phase, retiredDisk, users, retiredUsers, calls, retiring, unsure>>
  BY DEF InitFails, IInv, DownIsEmpty
<1>4. TypeOK'
  BY <1>2, <1>3 DEF IInv, TypeOK
<1>5. DownIsEmpty' /\ TombstonesKnown' /\ MemoryMatchesDisk' /\ KnownAreLive'
  BY <1>3 DEF DownIsEmpty, TombstonesKnown, MemoryMatchesDisk, KnownAreLive
<1>6. RetireTargets' /\ CreatesBeforeDeletes' /\ NoRebirthInFlight' /\ DeletesAreOfRetired'
  BY <1>3, <1>4 DEF RetireTargets, CreatesBeforeDeletes, NoRebirthInFlight,
                    DeletesAreOfRetired, Pending, TypeOK
<1> QED BY <1>4, <1>5, <1>6 DEF IInv

LEMMA CrashIInv == IInv /\ Crash => IInv'
<1> SUFFICES ASSUME IInv, Crash PROVE IInv'
  OBVIOUS
<1>1. retiring' = <<>> /\ \A n \in Users : calls'[n] = <<>>
  BY DEF Crash
<1>2. TypeOK'
  BY DEF IInv, TypeOK, Crash, serviceVars, NoUsers
<1>3. DownIsEmpty' /\ TombstonesKnown' /\ MemoryMatchesDisk' /\ KnownAreLive'
  BY <1>1 DEF Crash, DownIsEmpty, TombstonesKnown, MemoryMatchesDisk, KnownAreLive
<1>4. RetireTargets' /\ CreatesBeforeDeletes' /\ NoRebirthInFlight' /\ DeletesAreOfRetired'
  BY <1>1, <1>2 DEF RetireTargets, CreatesBeforeDeletes, NoRebirthInFlight,
                    DeletesAreOfRetired, Pending, TypeOK
<1> QED BY <1>2, <1>3, <1>4 DEF IInv

(* A handler that only sends a call other than a deletion, and a creation   *)
(* only of a name without a tombstone.                                      *)
LEMMA SendIInv ==
  ASSUME IInv, NEW n \in Users, NEW call \in Call, Send(n, call),
         phase = "ready",
         call.op # "delete", call.op = "create" => n \notin retiredUsers,
         UNCHANGED <<phase, disk, retiredDisk, users, retiredUsers, retiring, unsure>>
  PROVE  IInv'
<1>0. TypeOK /\ CreatesBeforeDeletes
  BY DEF IInv
<1>1. TypeOK'
  BY <1>0, SendFacts DEF TypeOK
<1>2. DownIsEmpty' /\ TombstonesKnown' /\ MemoryMatchesDisk' /\ KnownAreLive' /\ RetireTargets'
  BY DEF IInv, DownIsEmpty, TombstonesKnown, MemoryMatchesDisk, KnownAreLive, RetireTargets, Live
<1>3. call.op = "create" => (n \in retiredDisk => Live(n)) /\ ~Pending(n, "delete")
  BY DEF IInv, TombstonesKnown, DeletesAreOfRetired
<1>4. CreatesBeforeDeletes'
  BY <1>0, <1>3, SendKeepsOrder
<1>5. \A m \in Users, o \in {"create", "delete", "touch"} :
         Pending(m, o)' => Pending(m, o) \/ (m = n /\ call.op = o)
  BY <1>0, SendKeepsPending
<1>6. NoRebirthInFlight'
  BY <1>3, <1>5, <1>0 DEF IInv, NoRebirthInFlight, Live, TypeOK
<1>7. DeletesAreOfRetired'
  BY <1>5 DEF IInv, DeletesAreOfRetired
<1> QED BY <1>1, <1>2, <1>4, <1>6, <1>7 DEF IInv

LEMMA CreateUserIInv ==
  ASSUME IInv, NEW who \in Users, NEW n \in Users, NEW role, NEW pw \in Passwords,
         CreateUser(who, n, role, pw)
  PROVE  IInv'
<1> DEFINE call == [op |-> "create", rec |-> [role |-> RoleOf(role), pw |-> pw], joins |-> FALSE]
<1>1. call \in Call /\ call.op = "create"
  BY DEF Call, Record, Roles, RoleOf
<1> QED BY <1>1, SendIInv DEF CreateUser, serviceVars

LEMMA RegisterIInv ==
  ASSUME IInv, NEW n \in Users, NEW pw \in Passwords, Register(n, pw)
  PROVE  IInv'
<1> DEFINE call == [op |-> "create", rec |-> [role |-> "user", pw |-> pw], joins |-> TRUE]
<1>1. call \in Call /\ call.op = "create"
  BY DEF Call, Record, Roles
<1> QED BY <1>1, SendIInv DEF Register, serviceVars

LEMMA SetRoleIInv ==
  ASSUME IInv, NEW who \in Users, NEW n \in Users, NEW role, SetRole(who, n, role)
  PROVE  IInv'
<1> DEFINE call == [op |-> "setRole", role |-> RoleOf(role)]
<1>1. call \in Call /\ call.op = "setRole"
  BY DEF Call, Roles, RoleOf
<1> QED BY <1>1, SendIInv DEF SetRole, serviceVars

LEMMA ChangePasswordIInv ==
  ASSUME IInv, NEW n \in Users, NEW pw \in Passwords, NEW via \in Tokens,
         ChangePassword(n, pw, via)
  PROVE  IInv'
<1> DEFINE call == [op |-> "setPassword", pw |-> pw, via |-> via]
<1>1. call \in Call /\ call.op = "setPassword"
  BY DEF Call
<1> QED BY <1>1, SendIInv DEF ChangePassword, serviceVars

LEMMA ResetPasswordIInv ==
  ASSUME IInv, NEW who \in Users, NEW n \in Users, NEW pw \in Passwords,
         ResetPassword(who, n, pw)
  PROVE  IInv'
<1> DEFINE call == [op |-> "setPassword", pw |-> pw, via |-> None]
<1>1. call \in Call /\ call.op = "setPassword"
  BY DEF Call
<1> QED BY <1>1, SendIInv DEF ResetPassword, serviceVars

LEMMA TouchIInv ==
  ASSUME IInv, NEW n \in Users, Touch(n)
  PROVE  IInv'
<1> DEFINE call == [op |-> "touch"]
<1>1. call \in Call /\ call.op = "touch"
  BY DEF Call
<1> QED BY <1>1, SendIInv DEF Touch, serviceVars

LEMMA DeleteUserIInv ==
  ASSUME IInv, NEW who \in Users, NEW n \in Users, DeleteUser(who, n)
  PROVE  IInv'
<1>1. retiring' \in Seq(Users)
  BY DEF IInv, TypeOK, DeleteUser
<1>2. TypeOK'
  BY <1>1 DEF IInv, TypeOK, DeleteUser, serviceVars
<1>3. n \in retiredDisk \/ Live(n)
  BY DEF IInv, DeleteUser, TombstonesKnown, KnownAreLive
<1>4. RetireTargets'
  <2> SUFFICES ASSUME NEW i \in 1..Len(retiring')
               PROVE  retiring'[i] \in retiredDisk' \/ disk'[retiring'[i]] # None
    BY DEF RetireTargets, Live
  <2>1. retiredDisk' = retiredDisk /\ disk' = disk /\ retiring' = Append(retiring, n)
    BY DEF DeleteUser, serviceVars
  <2>2. CASE i \in 1..Len(retiring)
    BY <2>1, <2>2 DEF IInv, TypeOK, RetireTargets, Live
  <2>3. CASE i = Len(retiring) + 1
    BY <2>1, <2>3, <1>3 DEF IInv, TypeOK, Live
  <2> QED BY <2>1, <2>2, <2>3 DEF IInv, TypeOK
<1>5. DownIsEmpty' /\ TombstonesKnown' /\ MemoryMatchesDisk' /\ KnownAreLive'
  BY DEF IInv, DeleteUser, serviceVars, DownIsEmpty, TombstonesKnown, MemoryMatchesDisk,
         KnownAreLive, Live
<1>6. CreatesBeforeDeletes' /\ NoRebirthInFlight' /\ DeletesAreOfRetired'
  BY DEF IInv, DeleteUser, serviceVars, CreatesBeforeDeletes, NoRebirthInFlight, DeletesAreOfRetired,
         Pending, Live
<1> QED BY <1>2, <1>4, <1>5, <1>6 DEF IInv

(* The answer to a call that writes a record, or finds it (not) there and   *)
(* writes nothing.                                                          *)
LEMMA WriteIInv ==
  ASSUME IInv, NEW n \in Users, NEW op, Take(n, op),
         NEW rec \in Record,
         Write(n, rec) \/ UNCHANGED <<disk, users, unsure>>,
         Write(n, rec) => disk[n] # None \/ op = "create",
         UNCHANGED <<phase, retiredDisk, retiredUsers, retiring>>
  PROVE  IInv'
<1>0. TypeOK /\ CreatesBeforeDeletes
  BY DEF IInv
<1>1. TypeOK'
  <2>1. calls' \in [Users -> Seq(Call)]
    BY <1>0, TakeFacts
  <2>2. /\ disk' \in [Users -> Record \cup {None}] /\ users' \in [Users -> Record \cup {None}]
        /\ unsure' \subseteq Users
    BY <1>0 DEF TypeOK, Write
  <2> QED BY <1>0, <2>1, <2>2 DEF TypeOK
<1>2. phase = "ready"
  BY <1>0, TakeFacts DEF IInv, DownIsEmpty, TypeOK
<1>3. CreatesBeforeDeletes' /\ \A m \in Users, o \in {"create", "delete", "touch"} : Pending(m, o)' => Pending(m, o)
  BY <1>0, TakeKeepsOrder
<1>4. \A m \in Users : Live(m) => Live(m)'
  BY <1>0, UserStoreAssumption DEF Live, Write, TypeOK
<1>5. DownIsEmpty' /\ TombstonesKnown'
  BY <1>0, <1>2, <1>4 DEF IInv, DownIsEmpty, TombstonesKnown, TypeOK
<1>6. MemoryMatchesDisk' /\ KnownAreLive'
  <2>1. MemoryMatchesDisk'
    BY <1>0, <1>2 DEF IInv, MemoryMatchesDisk, Write, TypeOK
  <2>2. KnownAreLive'
    BY <1>0, <1>2, <1>4, UserStoreAssumption DEF IInv, KnownAreLive, Live, Write, TypeOK
  <2> QED BY <2>1, <2>2
<1>7. RetireTargets'
  BY <1>0, <1>4 DEF IInv, RetireTargets, TypeOK
<1>8. NoRebirthInFlight'
  BY <1>0, <1>3, <1>4 DEF IInv, NoRebirthInFlight, TypeOK
<1>9. DeletesAreOfRetired'
  BY <1>3 DEF IInv, DeletesAreOfRetired
<1> QED BY <1>1, <1>3, <1>5, <1>6, <1>7, <1>8, <1>9 DEF IInv

LEMMA FinishCreateIInv ==
  ASSUME IInv, NEW n \in Users, FinishCreate(n)
  PROVE  IInv'
<1>1. Take(n, "create") /\ TypeOK
  BY DEF FinishCreate, IInv
<1>2. Head(calls[n]).rec \in Record
  BY <1>1, TakeFacts DEF Call
<1> QED BY <1>1, <1>2, WriteIInv DEF FinishCreate

LEMMA FinishSetRoleIInv ==
  ASSUME IInv, NEW n \in Users, FinishSetRole(n)
  PROVE  IInv'
<1>1. Take(n, "setRole") /\ TypeOK
  BY DEF FinishSetRole, IInv
<1>2. Head(calls[n]).role \in Roles
  BY <1>1, TakeFacts DEF Call
<1>3. CASE disk[n] # None
  <2>1. [disk[n] EXCEPT !.role = Head(calls[n]).role] \in Record
    BY <1>1, <1>2, <1>3 DEF TypeOK, Record
  <2> QED BY <1>1, <1>3, <2>1, WriteIInv DEF FinishSetRole
<1>4. CASE disk[n] = None
  <2>1. PICK pw \in Passwords : TRUE
    BY UserStoreAssumption
  <2>2. [role |-> "user", pw |-> pw] \in Record
    BY DEF Record, Roles
  <2>3. UNCHANGED <<disk, users, unsure>> /\ ~Write(n, [role |-> "user", pw |-> pw])
    BY <1>1, <1>4, <2>2, UserStoreAssumption DEF FinishSetRole, Write, TypeOK
  <2> QED BY <1>1, <2>2, <2>3, WriteIInv DEF FinishSetRole
<1> QED BY <1>3, <1>4

LEMMA FinishSetPasswordIInv ==
  ASSUME IInv, NEW n \in Users, FinishSetPassword(n)
  PROVE  IInv'
<1>1. Take(n, "setPassword") /\ TypeOK
  BY DEF FinishSetPassword, IInv
<1>2. Head(calls[n]).pw \in Passwords
  BY <1>1, TakeFacts DEF Call
<1>3. CASE disk[n] # None
  <2>1. [disk[n] EXCEPT !.pw = Head(calls[n]).pw] \in Record
    BY <1>1, <1>2, <1>3 DEF TypeOK, Record
  <2> QED BY <1>1, <1>3, <2>1, WriteIInv DEF FinishSetPassword
<1>4. CASE disk[n] = None
  <2>1. [role |-> "user", pw |-> Head(calls[n]).pw] \in Record
    BY <1>2 DEF Record, Roles
  <2>2. UNCHANGED <<disk, users, unsure>> /\ ~Write(n, [role |-> "user", pw |-> Head(calls[n]).pw])
    BY <1>1, <1>4, <2>1, UserStoreAssumption DEF FinishSetPassword, Write, TypeOK
  <2> QED BY <1>1, <2>1, <2>2, WriteIInv DEF FinishSetPassword
<1> QED BY <1>3, <1>4

LEMMA FinishTouchIInv ==
  ASSUME IInv, NEW n \in Users, FinishTouch(n)
  PROVE  IInv'
<1>1. Take(n, "touch") /\ TypeOK
  BY DEF FinishTouch, IInv
<1>2. CASE disk[n] # None
  <2>1. disk[n] \in Record
    BY <1>1, <1>2 DEF TypeOK
  <2> QED BY <1>1, <1>2, <2>1, WriteIInv DEF FinishTouch
<1>3. CASE disk[n] = None
  <2>1. PICK pw \in Passwords : TRUE
    BY UserStoreAssumption
  <2>2. [role |-> "user", pw |-> pw] \in Record
    BY DEF Record, Roles
  <2>3. UNCHANGED <<disk, users, unsure>> /\ ~Write(n, [role |-> "user", pw |-> pw])
    BY <1>1, <1>3, <2>2, UserStoreAssumption DEF FinishTouch, Write, TypeOK
  <2> QED BY <1>1, <2>2, <2>3, WriteIInv DEF FinishTouch
<1> QED BY <1>2, <1>3

LEMMA FinishRetireIInv == IInv /\ FinishRetire => IInv'
<1> SUFFICES ASSUME IInv, FinishRetire PROVE IInv'
  OBVIOUS
<1> DEFINE n == Head(retiring)
           call == [op |-> "delete"]
<1>0. TypeOK /\ CreatesBeforeDeletes
  BY DEF IInv
<1>1. n \in Users /\ n = retiring[1] /\ 1 \in 1..Len(retiring) /\ call \in Call /\ call.op = "delete"
  BY <1>0 DEF FinishRetire, TypeOK, Call
<1>2. /\ Send(n, call)
      /\ retiredDisk' = retiredDisk \cup {n}
      /\ retiredUsers' = retiredUsers \cup {n}
      /\ users' = [users EXCEPT ![n] = None]
      /\ retiring' = Tail(retiring)
      /\ phase' = phase /\ disk' = disk /\ unsure' = unsure \ {n}
  BY DEF FinishRetire
<1> HIDE DEF n, call
<1>3. TypeOK'
  BY <1>0, <1>1, <1>2, SendFacts DEF TypeOK, FinishRetire
<1>4. phase = "ready"
  BY <1>0, <1>1 DEF IInv, DownIsEmpty, TypeOK, FinishRetire
<1>5. Live(n) \/ n \in retiredDisk
  BY <1>1 DEF IInv, RetireTargets
<1>6. CreatesBeforeDeletes'
  BY <1>0, <1>1, <1>2, SendKeepsOrder
<1>7. \A m \in Users, o \in {"create", "delete", "touch"} :
         Pending(m, o)' => Pending(m, o) \/ (m = n /\ o = "delete")
  BY <1>0, <1>1, <1>2, SendKeepsPending
<1>8. DownIsEmpty' /\ TombstonesKnown' /\ MemoryMatchesDisk' /\ KnownAreLive'
  BY <1>0, <1>1, <1>2, <1>4
  DEF IInv, DownIsEmpty, TombstonesKnown, MemoryMatchesDisk, KnownAreLive, Live, TypeOK
<1>9. RetireTargets'
  <2> SUFFICES ASSUME NEW i \in 1..Len(retiring')
               PROVE  retiring'[i] \in retiredDisk' \/ disk'[retiring'[i]] # None
    BY DEF RetireTargets, Live
  <2>1. i + 1 \in 1..Len(retiring) /\ retiring'[i] = retiring[i + 1]
    BY <1>0, <1>1, <1>2 DEF TypeOK
  <2> QED BY <1>2, <2>1 DEF IInv, RetireTargets, Live
<1>10. NoRebirthInFlight'
  BY <1>0, <1>2, <1>5, <1>7 DEF IInv, NoRebirthInFlight, Live, TypeOK
<1>11. DeletesAreOfRetired'
  BY <1>2, <1>7 DEF IInv, DeletesAreOfRetired
<1> QED BY <1>3, <1>6, <1>8, <1>9, <1>10, <1>11 DEF IInv

(* Behind a deletion there is no creation. *)
LEMMA NothingComesBack ==
  ASSUME TypeOK, CreatesBeforeDeletes, NEW n \in Users, Take(n, "delete")
  PROVE  ~Pending(n, "create")'
<1> SUFFICES ASSUME NEW i \in 1..Len(calls'[n]), calls'[n][i].op = "create" PROVE FALSE
  BY DEF Pending
<1>1. i + 1 \in 1..Len(calls[n]) /\ calls[n][i + 1].op = "create"
  BY TakeFacts
<1>2. calls[n][1].op = "delete" /\ 1 \in 1..Len(calls[n]) /\ 1 < i + 1
  BY TakeFacts
<1> QED BY <1>1, <1>2 DEF CreatesBeforeDeletes

(* A call takes the record of n and of no other, if at all; only a deletion *)
(* ends a record.                                                           *)
LEMMA RecordStepIInv ==
  ASSUME IInv, NEW n \in Users, NEW op, Take(n, op),
         disk' \in [Users -> Record \cup {None}],
         \A m \in Users \ {n} : disk'[m] = disk[m],
         op # "delete" => (Live(n) => Live(n)'),
         n \in retiredUsers \cup unsure' \/ disk' = disk,
         unsure \subseteq unsure', unsure' \subseteq Users,
         UNCHANGED <<phase, retiredDisk, users, retiredUsers, retiring>>
  PROVE  IInv'
<1>0. TypeOK /\ CreatesBeforeDeletes
  BY DEF IInv
<1>1. TypeOK'
  BY <1>0, TakeFacts DEF TypeOK
<1>2. phase = "ready"
  BY <1>0, TakeFacts DEF IInv, DownIsEmpty, TypeOK
<1>3. op = "delete" => n \in retiredUsers /\ n \in retiredDisk
  <2>1. op = "delete" => Pending(n, "delete")
    BY <1>0, TakeFacts DEF Pending
  <2> QED BY <1>2, <2>1 DEF IInv, DeletesAreOfRetired, TombstonesKnown
<1>4. CreatesBeforeDeletes' /\ \A m \in Users, o \in {"create", "delete", "touch"} : Pending(m, o)' => Pending(m, o)
  BY <1>0, TakeKeepsOrder
<1>5. op = "delete" => ~Pending(n, "create")'
  BY <1>0, NothingComesBack
<1>6. \A m \in Users : Live(m) => Live(m)' \/ (m = n /\ op = "delete")
  BY DEF Live
<1>7. DownIsEmpty' /\ TombstonesKnown' /\ KnownAreLive'
  BY <1>0, <1>2, <1>3, <1>6 DEF IInv, DownIsEmpty, TombstonesKnown, KnownAreLive, TypeOK
<1>8. MemoryMatchesDisk'
  BY <1>2 DEF IInv, MemoryMatchesDisk
<1>9. RetireTargets'
  BY <1>0, <1>3, <1>6 DEF IInv, RetireTargets, TypeOK
<1>10. NoRebirthInFlight'
  BY <1>0, <1>4, <1>5, <1>6 DEF IInv, NoRebirthInFlight, TypeOK
<1>11. DeletesAreOfRetired'
  BY <1>4 DEF IInv, DeletesAreOfRetired
<1> QED BY <1>1, <1>4, <1>7, <1>8, <1>9, <1>10, <1>11 DEF IInv

LEMMA FinishDeleteIInv ==
  ASSUME IInv, NEW n \in Users, FinishDelete(n)
  PROVE  IInv'
<1>1. TypeOK /\ Take(n, "delete") /\ disk' = [disk EXCEPT ![n] = None]
  BY DEF IInv, FinishDelete
<1>2. disk' \in [Users -> Record \cup {None}] /\ \A m \in Users \ {n} : disk'[m] = disk[m]
  BY <1>1 DEF TypeOK
<1>3. n \in retiredUsers
  BY <1>1, TakeFacts DEF IInv, DeletesAreOfRetired, Pending
<1>4. unsure \subseteq Users
  BY <1>1 DEF TypeOK
<1> QED BY <1>1, <1>2, <1>3, <1>4, RecordStepIInv DEF FinishDelete

(* What a rejected call may have done. *)
LEMMA RejectFacts ==
  ASSUME TypeOK, NEW n \in Users, RejectCall(n)
  PROVE  /\ Take(n, Head(calls[n]).op) /\ Head(calls[n]) \in Call
         /\ disk' \in [Users -> Record \cup {None}]
         /\ \A m \in Users \ {n} : disk'[m] = disk[m]
         /\ Head(calls[n]).op # "delete" => (Live(n) => Live(n)')
         /\ Head(calls[n]).op # "create" => (~Live(n) => ~Live(n)')
         /\ n \in retiredUsers \cup unsure' \/ disk' = disk
         /\ unsure \subseteq unsure' /\ unsure' \subseteq Users
         /\ UNCHANGED <<phase, retiredDisk, users, retiredUsers, retiring>>
<1> DEFINE call == Head(calls[n])
<1>1. Take(n, call.op) /\ UNCHANGED <<phase, retiredDisk, users, retiredUsers, retiring>>
  BY DEF RejectCall, Take
<1>2. call \in Call
  BY <1>1, TakeFacts
<1>3. \/ UNCHANGED <<disk, unsure>>
      \/ /\ disk' = [disk EXCEPT ![n] = Effect(n, call)]
         /\ unsure' = IF disk' = disk \/ n \in retiredUsers THEN unsure ELSE unsure \cup {n}
  BY DEF RejectCall
<1>4. disk[n] = None \/ disk[n] \in Record
  BY DEF TypeOK
<1> HIDE DEF call
<1>5. /\ Effect(n, call) \in Record \cup {None}
      /\ call.op # "delete" => (Live(n) => Effect(n, call) # None)
      /\ call.op # "create" => (~Live(n) => Effect(n, call) = None)
  <2>1. CASE call.op = "create"
    <3>1. call.rec \in Record
      BY <1>2, <2>1 DEF Call
    <3> QED BY <1>4, <2>1, <3>1 DEF Effect, Live
  <2>2. CASE call.op = "setRole"
    <3>1. call.role \in Roles
      BY <1>2, <2>2 DEF Call
    <3>2. disk[n] # None => [disk[n] EXCEPT !.role = call.role] \in Record
      BY <1>4, <3>1 DEF Record
    <3> QED BY <2>2, <3>2, UserStoreAssumption DEF Effect, Live
  <2>3. CASE call.op = "setPassword"
    <3>1. call.pw \in Passwords
      BY <1>2, <2>3 DEF Call
    <3>2. disk[n] # None => [disk[n] EXCEPT !.pw = call.pw] \in Record
      BY <1>4, <3>1 DEF Record
    <3> QED BY <2>3, <3>2, UserStoreAssumption DEF Effect, Live
  <2>4. CASE call.op = "touch"
    BY <1>4, <2>4 DEF Effect, Live
  <2>5. CASE call.op = "delete"
    BY <2>5 DEF Effect, Live
  <2> QED BY <1>2, <2>1, <2>2, <2>3, <2>4, <2>5 DEF Call
<1>6. /\ disk' \in [Users -> Record \cup {None}]
      /\ \A m \in Users \ {n} : disk'[m] = disk[m]
      /\ disk'[n] = disk[n] \/ disk'[n] = Effect(n, call)
  BY <1>3, <1>5 DEF TypeOK
<1>7. /\ n \in retiredUsers \cup unsure' \/ disk' = disk
      /\ unsure \subseteq unsure' /\ unsure' \subseteq Users
  BY <1>3 DEF TypeOK
<1> QED BY <1>1, <1>2, <1>5, <1>6, <1>7 DEF Live, call

LEMMA RejectCallIInv ==
  ASSUME IInv, NEW n \in Users, RejectCall(n)
  PROVE  IInv'
<1>1. TypeOK
  BY DEF IInv
<1> QED BY <1>1, RejectFacts, RecordStepIInv

LEMMA RejectRetireIInv == IInv /\ RejectRetire => IInv'
<1> SUFFICES ASSUME IInv, RejectRetire PROVE IInv'
  OBVIOUS
<1> DEFINE h == Head(retiring)
<1>0. TypeOK
  BY DEF IInv
<1>1. /\ 1 \in 1..Len(retiring) /\ h = retiring[1] /\ h \in Users
      /\ retiring' = Tail(retiring) /\ retiring' \in Seq(Users)
      /\ \A i \in 1..Len(retiring') : i + 1 \in 1..Len(retiring) /\ retiring'[i] = retiring[i + 1]
  BY <1>0 DEF RejectRetire, TypeOK
<1>2. /\ retiredDisk \subseteq retiredDisk' /\ retiredDisk' \subseteq retiredDisk \cup {h}
      /\ UNCHANGED <<phase, disk, users, retiredUsers, calls, unsure>>
  BY DEF RejectRetire
<1>3. h \in retiredDisk \/ Live(h)
  BY <1>1 DEF IInv, RetireTargets
<1> HIDE DEF h
<1>4. TypeOK'
  BY <1>0, <1>1, <1>2 DEF TypeOK
<1>5. phase = "ready"
  BY <1>0, <1>1 DEF IInv, DownIsEmpty, TypeOK
<1>6. DownIsEmpty' /\ TombstonesKnown' /\ MemoryMatchesDisk' /\ KnownAreLive'
  BY <1>2, <1>3, <1>5 DEF IInv, DownIsEmpty, TombstonesKnown, MemoryMatchesDisk, KnownAreLive, Live
<1>7. RetireTargets'
  BY <1>1, <1>2 DEF IInv, RetireTargets, Live
<1>8. CreatesBeforeDeletes' /\ NoRebirthInFlight' /\ DeletesAreOfRetired'
  BY <1>2, <1>3 DEF IInv, CreatesBeforeDeletes, NoRebirthInFlight, DeletesAreOfRetired, Pending, Live
<1> QED BY <1>4, <1>6, <1>7, <1>8 DEF IInv

-----------------------------------------------------------------------------
LEMMA NextIInv == IInv /\ [Next]_storeVars => IInv'
<1> SUFFICES ASSUME IInv, [Next]_storeVars PROVE IInv'
  OBVIOUS
<1>1. CASE Boot
  BY <1>1, BootIInv
<1>2. CASE Crash
  BY <1>2, CrashIInv
<1>3. CASE \E n \in Users : Request(n)
  BY <1>3, DeleteUserIInv, SetRoleIInv, CreateUserIInv, RegisterIInv, ChangePasswordIInv,
     ResetPasswordIInv, TouchIInv DEF Request
<1>5. CASE \E n \in Users : Finish(n)
  BY <1>5, FinishCreateIInv, FinishSetRoleIInv, FinishSetPasswordIInv, FinishTouchIInv,
     FinishDeleteIInv DEF Finish
<1>6. CASE FinishRetire
  BY <1>6, FinishRetireIInv
<1>8. CASE InitFails \/ RejectRetire \/ \E n \in Users : RejectCall(n)
  BY <1>8, InitFailsIInv, RejectRetireIInv, RejectCallIInv
<1>7. CASE UNCHANGED storeVars
  <2> USE <1>7 DEF storeVars, serviceVars, IInv, Pending, Live
  <2>1. TypeOK'
    BY DEF TypeOK
  <2>2. (DownIsEmpty /\ TombstonesKnown /\ MemoryMatchesDisk /\ KnownAreLive)'
    BY DEF DownIsEmpty, TombstonesKnown, MemoryMatchesDisk, KnownAreLive
  <2>3. (RetireTargets /\ CreatesBeforeDeletes)'
    BY DEF RetireTargets, CreatesBeforeDeletes
  <2>4. (NoRebirthInFlight /\ DeletesAreOfRetired)'
    BY DEF NoRebirthInFlight, DeletesAreOfRetired
  <2> QED BY <2>1, <2>2, <2>3, <2>4
<1> QED BY <1>1, <1>2, <1>3, <1>5, <1>6, <1>7, <1>8 DEF Next

(* The inductive invariant holds in every reachable state. *)
THEOREM InductiveInvariant == Spec => []IInv
BY InitIInv, NextIInv, PTL DEF Spec

(* The two copies of the table are well typed, for any names and passwords. *)
THEOREM TypeCorrect == Spec => []TypeOK
<1>1. IInv => TypeOK
  BY DEF IInv
<1> QED BY <1>1, InductiveInvariant, PTL

(* What requests read of a name that was never deleted is what a restart    *)
(* would load.                                                              *)
THEOREM MemoryCoherent == Spec => []MemoryMatchesDisk
<1>1. IInv => MemoryMatchesDisk
  BY DEF IInv
<1> QED BY <1>1, InductiveInvariant, PTL

-----------------------------------------------------------------------------
(* Refinement of NameLifecycle.                                             *)
SpentNames == {n \in retiredDisk : ~Live(n)}

LEMMA WriteLifecycle ==
  ASSUME IInv, NEW n \in Users, NEW rec \in Record, Write(n, rec),
         UNCHANGED retiredDisk, n \in retiredDisk => Live(n)
  PROVE  [Lifecycle!Next]_<<disk, SpentNames>>
<1>1. disk' = [disk EXCEPT ![n] = rec] /\ rec # None
  BY UserStoreAssumption DEF Write
<1>2. SpentNames' = SpentNames
  BY <1>1 DEF SpentNames, Live, IInv, TypeOK
<1>3. CASE Live(n)
  BY <1>1, <1>2, <1>3 DEF Lifecycle!Next, Lifecycle!Update, Live, SpentNames
<1>4. CASE ~Live(n)
  <2>1. disk[n] = None /\ n \notin SpentNames
    BY <1>4 DEF Live, SpentNames
  <2> QED BY <1>1, <1>2, <2>1 DEF Lifecycle!Next, Lifecycle!Open, SpentNames, Live
<1> QED BY <1>3, <1>4

(* Only the records of retired names are deleted, by a running process. *)
LEMMA DeleteFacts ==
  ASSUME IInv, NEW n \in Users, Take(n, "delete")
  PROVE  phase = "ready" /\ n \in retiredUsers /\ n \in retiredDisk
<1>0. TypeOK
  BY DEF IInv
<1>1. 1 \in 1..Len(calls[n]) /\ calls[n][1].op = "delete"
  BY <1>0, TakeFacts
<1>2. calls[n] # <<>>
  BY DEF Take
<1>3. phase = "ready"
  BY <1>0, <1>2 DEF IInv, DownIsEmpty, TypeOK
<1>4. Pending(n, "delete")
  BY <1>1 DEF Pending
<1>5. n \in retiredUsers
  BY <1>4 DEF IInv, DeletesAreOfRetired
<1> QED BY <1>3, <1>5 DEF IInv, TombstonesKnown

LEMMA FinishLifecycle ==
  ASSUME IInv, NEW n \in Users, Finish(n)
  PROVE  [Lifecycle!Next]_<<disk, SpentNames>>
<1>0. TypeOK
  BY DEF IInv
<1>1. CASE FinishCreate(n)
  <2>1. Pending(n, "create") /\ Head(calls[n]) \in Call /\ Head(calls[n]).op = "create"
    BY <1>0, <1>1, TakeFacts DEF FinishCreate, Pending
  <2>2. Head(calls[n]).rec \in Record
    BY <2>1 DEF Call
  <2>3. n \in retiredDisk => Live(n)
    BY <2>1 DEF IInv, NoRebirthInFlight
  <2>4. CASE disk[n] = None
    BY <1>1, <2>2, <2>3, <2>4, WriteLifecycle DEF FinishCreate
  <2>5. CASE disk[n] # None
    BY <1>1, <2>5 DEF FinishCreate, SpentNames, Live
  <2> QED BY <2>4, <2>5
<1>2. CASE FinishSetRole(n)
  <2>1. Take(n, "setRole")
    BY <1>2 DEF FinishSetRole
  <2>2. Head(calls[n]).role \in Roles
    BY <1>0, <2>1, TakeFacts DEF Call
  <2>3. CASE disk[n] # None
    <3>1. [disk[n] EXCEPT !.role = Head(calls[n]).role] \in Record
      BY <1>0, <2>2, <2>3 DEF TypeOK, Record
    <3> QED BY <1>2, <2>3, <3>1, WriteLifecycle DEF FinishSetRole, Live
  <2>4. CASE disk[n] = None
    BY <1>2, <2>4 DEF FinishSetRole, SpentNames, Live
  <2> QED BY <2>3, <2>4
<1>3. CASE FinishSetPassword(n)
  <2>1. Take(n, "setPassword")
    BY <1>3 DEF FinishSetPassword
  <2>2. Head(calls[n]).pw \in Passwords
    BY <1>0, <2>1, TakeFacts DEF Call
  <2>3. CASE disk[n] # None
    <3>1. [disk[n] EXCEPT !.pw = Head(calls[n]).pw] \in Record
      BY <1>0, <2>2, <2>3 DEF TypeOK, Record
    <3> QED BY <1>3, <2>3, <3>1, WriteLifecycle DEF FinishSetPassword, Live
  <2>4. CASE disk[n] = None
    BY <1>3, <2>4 DEF FinishSetPassword, SpentNames, Live
  <2> QED BY <2>3, <2>4
<1>4. CASE FinishDelete(n)
  <2>1. n \in retiredDisk
    BY <1>4, DeleteFacts DEF FinishDelete
  <2>2. disk' = [disk EXCEPT ![n] = None] /\ retiredDisk' = retiredDisk
    BY <1>4 DEF FinishDelete
  <2>3. SpentNames' = SpentNames \cup {n}
    BY <1>0, <2>1, <2>2 DEF SpentNames, Live, TypeOK
  <2>4. CASE disk[n] # None
    BY <2>2, <2>3, <2>4 DEF Lifecycle!Next, Lifecycle!Close, SpentNames, Live
  <2>5. CASE disk[n] = None
    BY <1>0, <2>1, <2>2, <2>3, <2>5 DEF SpentNames, Live, TypeOK
  <2> QED BY <2>4, <2>5
<1>5. CASE FinishTouch(n)
  <2>1. CASE disk[n] # None
    <3>1. disk[n] \in Record
      BY <1>0, <2>1 DEF TypeOK
    <3> QED BY <1>5, <2>1, <3>1, WriteLifecycle DEF FinishTouch, Live
  <2>2. CASE disk[n] = None
    BY <1>5, <2>2 DEF FinishTouch, SpentNames, Live
  <2> QED BY <2>1, <2>2
<1> QED BY <1>1, <1>2, <1>3, <1>4, <1>5 DEF Finish

LEMMA BootLifecycle ==
  ASSUME IInv, Boot \/ InitFails
  PROVE  [Lifecycle!Next]_<<disk, SpentNames>>
<1>1. (\E pw \in Passwords : disk' = Bootstrapped(pw)) \/ disk' = disk
  BY DEF Boot, InitFails
<1>2. retiredDisk' = retiredDisk
  BY DEF Boot, InitFails
<1>3. CASE disk' # disk
  <2>0. PICK pw \in Passwords : disk' = Bootstrapped(pw)
    BY <1>1, <1>3
  <2> DEFINE rec == [role |-> "admin", pw |-> pw]
  <2>1. rec \in Record /\ rec # None
    BY UserStoreAssumption DEF Record, Roles
  <2>2. disk' = [disk EXCEPT ![Bootstrap] = rec] /\ disk = NoUsers /\ Bootstrap \notin retiredDisk
    BY <1>3, <2>0 DEF Bootstrapped
  <2>3. disk[Bootstrap] = None /\ Bootstrap \notin SpentNames
    BY <2>2, UserStoreAssumption DEF NoUsers, SpentNames
  <2>4. SpentNames' = SpentNames
    BY <1>2, <2>1, <2>2 DEF SpentNames, Live, IInv, TypeOK
  <2> QED
    BY <2>1, <2>2, <2>3, <2>4, UserStoreAssumption
    DEF Lifecycle!Next, Lifecycle!Open, SpentNames, Live
<1>4. CASE disk' = disk
  BY <1>2, <1>4 DEF SpentNames, Live
<1> QED BY <1>3, <1>4

(* A tombstone is put on a name that has a record or is retired already. *)
LEMMA RetireLifecycle ==
  ASSUME IInv, FinishRetire \/ RejectRetire
  PROVE  UNCHANGED <<disk, SpentNames>>
<1>1. 1 \in 1..Len(retiring) /\ Head(retiring) = retiring[1]
  BY DEF IInv, TypeOK, FinishRetire, RejectRetire
<1>2. Head(retiring) \in retiredDisk \/ Live(Head(retiring))
  BY <1>1 DEF IInv, RetireTargets
<1>3. /\ retiredDisk' = retiredDisk \/ retiredDisk' = retiredDisk \cup {Head(retiring)}
      /\ disk' = disk
  BY DEF FinishRetire, RejectRetire
<1> QED BY <1>2, <1>3 DEF SpentNames, Live

(* A rejected call that took effect creates, changes or ends an account. *)
LEMMA RejectLifecycle ==
  ASSUME IInv, NEW n \in Users, RejectCall(n)
  PROVE  [Lifecycle!Next]_<<disk, SpentNames>>
<1> DEFINE op == Head(calls[n]).op
<1>0. TypeOK
  BY DEF IInv
<1>1. /\ Take(n, op) /\ retiredDisk' = retiredDisk
      /\ disk' \in [Users -> Record \cup {None}] /\ \A m \in Users \ {n} : disk'[m] = disk[m]
      /\ op # "delete" => (Live(n) => Live(n)')
      /\ op # "create" => (~Live(n) => ~Live(n)')
  BY <1>0, RejectFacts
<1>2. disk' = [disk EXCEPT ![n] = disk'[n]]
  BY <1>0, <1>1 DEF TypeOK
<1>3. (op = "create" => Pending(n, "create")) /\ (op = "delete" => Pending(n, "delete"))
  BY <1>0, <1>1, TakeFacts DEF Pending
<1> HIDE DEF op
<1>4. (op = "create" /\ n \in retiredDisk => Live(n)) /\ (op = "delete" => n \in retiredDisk)
  <2>1. phase = "ready"
    BY <1>0, <1>1, TakeFacts DEF IInv, DownIsEmpty, TypeOK
  <2> QED BY <1>3, <2>1 DEF IInv, NoRebirthInFlight, DeletesAreOfRetired, TombstonesKnown
<1>5. CASE Live(n)'
  <2>1. disk'[n] \in Record /\ (n \in retiredDisk => Live(n))
    BY <1>1, <1>4, <1>5 DEF Live
  <2>2. SpentNames' = SpentNames
    <3>1. ASSUME NEW m \in retiredDisk PROVE Live(m)' <=> Live(m)
      <4>1. CASE m = n
        BY <1>5, <2>1, <4>1
      <4>2. CASE m # n
        BY <1>0, <1>1, <4>2 DEF Live, TypeOK
      <4> QED BY <4>1, <4>2
    <3> QED BY <1>1, <3>1 DEF SpentNames
  <2>3. CASE Live(n)
    BY <1>2, <2>1, <2>2, <2>3 DEF Lifecycle!Next, Lifecycle!Update, Live, SpentNames
  <2>4. CASE ~Live(n)
    <3>1. disk[n] = None /\ n \notin SpentNames
      BY <2>1, <2>4 DEF Live, SpentNames
    <3> QED BY <1>2, <2>1, <2>2, <3>1 DEF Lifecycle!Next, Lifecycle!Open, Live, SpentNames
  <2> QED BY <2>3, <2>4
<1>6. CASE ~Live(n)'
  <2>1. disk'[n] = None
    BY <1>6 DEF Live
  <2>2. CASE Live(n)
    <3>1. n \in retiredDisk
      BY <1>1, <1>4, <1>6, <2>2
    <3>2. SpentNames' = SpentNames \cup {n}
      BY <1>0, <1>1, <1>6, <3>1 DEF SpentNames, Live, TypeOK
    <3> QED BY <1>2, <2>1, <2>2, <3>2 DEF Lifecycle!Next, Lifecycle!Close, Live, SpentNames
  <2>3. CASE ~Live(n)
    <3>1. disk' = disk
      BY <1>0, <1>1, <2>1, <2>3 DEF Live, TypeOK
    <3> QED BY <1>1, <3>1 DEF SpentNames, Live
  <2> QED BY <2>2, <2>3
<1> QED BY <1>5, <1>6

LEMMA NextLifecycle ==
  ASSUME IInv, [Next]_storeVars
  PROVE  [Lifecycle!Next]_<<disk, SpentNames>>
<1>1. CASE Boot \/ InitFails
  BY <1>1, BootLifecycle
<1>2. CASE Crash
  BY <1>2 DEF Crash, serviceVars, SpentNames, Live
<1>3. CASE \E n \in Users : Request(n)
  BY <1>3 DEF Request, DeleteUser, SetRole, CreateUser, Register, ChangePassword,
               ResetPassword, Touch, serviceVars, SpentNames, Live
<1>4. CASE \E n \in Users : RejectCall(n)
  BY <1>4, RejectLifecycle
<1>5. CASE \E n \in Users : Finish(n)
  BY <1>5, FinishLifecycle
<1>6. CASE FinishRetire \/ RejectRetire
  BY <1>6, RetireLifecycle
<1>7. CASE UNCHANGED storeVars
  BY <1>7 DEF storeVars, serviceVars, SpentNames, Live
<1> QED BY <1>1, <1>2, <1>3, <1>4, <1>5, <1>6, <1>7 DEF Next

(* The user table implements the life cycle of names: for any names and     *)
(* passwords, a name whose record was deleted never carries a record again. *)
THEOREM Refinement == Spec => NamesAreNeverReused
<1>1. Init => Lifecycle!Init
  BY DEF Init, NoUsers, Lifecycle!Init
<1>2. IInv /\ [Next]_storeVars => [Lifecycle!Next]_<<disk, {n \in retiredDisk : ~Live(n)}>>
  BY NextLifecycle DEF SpentNames
<1> QED BY <1>1, <1>2, InductiveInvariant, PTL DEF Spec, NamesAreNeverReused, Lifecycle!Spec

-----------------------------------------------------------------------------
(* What is safety in a deletion.  A name is spent exactly when its   *)
(* deletion is done, so the life cycle of names already keeps it done.      *)
LEMMA GoneStays ==
  ASSUME IInv, [Next]_storeVars, NEW n \in Users, Gone(n)
  PROVE  Gone(n)'
<1>1. disk[n] = None /\ n \in SpentNames
  BY DEF Gone, SpentNames, Live
<1>2. [Lifecycle!Next]_<<disk, SpentNames>>
  BY NextLifecycle
<1>3. n \in SpentNames'
  <2>1. CASE UNCHANGED <<disk, SpentNames>>
    BY <1>1, <2>1
  <2>2. CASE Lifecycle!Next
    <3>1. ASSUME NEW m \in Users,
                 Lifecycle!Close(m) \/ \E v \in Record : Lifecycle!Open(m, v) \/ Lifecycle!Update(m, v)
          PROVE  SpentNames' = SpentNames \/ SpentNames' = SpentNames \cup {m}
      BY <3>1 DEF Lifecycle!Open, Lifecycle!Update, Lifecycle!Close, SpentNames
    <3> QED BY <1>1, <2>2, <3>1 DEF Lifecycle!Next
  <2> QED BY <1>2, <2>1, <2>2
<1> QED BY <1>3 DEF Gone, SpentNames, Live

(* An answer on a record other than that of a deletion leaves its call in   *)
(* the queue, one place further on.                                         *)
LEMMA TakeKeepsDeletes ==
  ASSUME TypeOK, NEW n \in Users, NEW op, Take(n, op), op # "delete",
         NEW m \in Users, Pending(m, "delete")
  PROVE  Pending(m, "delete")'
<1>1. PICK i \in 1..Len(calls[m]) : calls[m][i].op = "delete"
  BY DEF Pending
<1>2. CASE m = n
  <2>1. i # 1
    BY <1>1, <1>2, TakeFacts
  <2>2. i - 1 \in 1..Len(calls'[n]) /\ (i - 1) + 1 = i
    BY <1>1, <1>2, <2>1, TakeFacts DEF TypeOK
  <2>3. calls'[n][i - 1] = calls[n][i]
    BY <2>2, TakeFacts
  <2> QED BY <1>1, <1>2, <2>2, <2>3 DEF Pending
<1>3. CASE m # n
  BY <1>1, <1>3, TakeFacts DEF Pending
<1> QED BY <1>2, <1>3

LEMMA SendKeepsDeletes ==
  ASSUME TypeOK, NEW n \in Users, NEW call \in Call, Send(n, call),
         NEW m \in Users, Pending(m, "delete")
  PROVE  Pending(m, "delete")'
<1>1. PICK i \in 1..Len(calls[m]) : calls[m][i].op = "delete"
  BY DEF Pending
<1>2. i \in 1..Len(calls'[m]) /\ calls'[m][i] = calls[m][i]
  <2>1. CASE m = n
    BY <1>1, <2>1, SendFacts DEF TypeOK
  <2>2. CASE m # n
    BY <1>1, <2>2, SendFacts
  <2> QED BY <2>1, <2>2
<1> QED BY <1>1, <1>2 DEF Pending

LEMMA RequestKeepsDeletion ==
  ASSUME IInv, NEW m \in Users, Request(m), NEW n \in Users, Underway(n)
  PROVE  Underway(n)'
<1>0. TypeOK
  BY DEF IInv
<1>1. CASE \E who \in Users : DeleteUser(who, m)
  <2>1. retiring' = Append(retiring, m) /\ calls' = calls
    BY <1>1 DEF DeleteUser
  <2>2. \A i \in 1..Len(retiring) : i \in 1..Len(retiring') /\ retiring'[i] = retiring[i]
    BY <1>0, <2>1 DEF TypeOK
  <2> QED BY <2>1, <2>2 DEF Underway, Pending
<1>2. CASE \E call \in Call : Send(m, call) /\ retiring' = retiring
  BY <1>0, <1>2, SendKeepsDeletes DEF Underway
<1>3. (\E who \in Users : DeleteUser(who, m)) \/ \E call \in Call : Send(m, call) /\ retiring' = retiring
  <2>1. ASSUME NEW who \in Users, NEW role \in Roles \cup {"owner"}, SetRole(who, m, role)
        PROVE  \E call \in Call : Send(m, call) /\ retiring' = retiring
    <3>1. [op |-> "setRole", role |-> RoleOf(role)] \in Call
      BY DEF Call, RoleOf, Roles
    <3> QED BY <2>1, <3>1 DEF SetRole
  <2>2. ASSUME NEW who \in Users, NEW role \in Roles \cup {"owner"}, NEW pw \in Passwords,
               CreateUser(who, m, role, pw)
        PROVE  \E call \in Call : Send(m, call) /\ retiring' = retiring
    <3>1. [op |-> "create", rec |-> [role |-> RoleOf(role), pw |-> pw], joins |-> FALSE] \in Call
      BY DEF Call, RoleOf, Roles, Record
    <3> QED BY <2>2, <3>1 DEF CreateUser
  <2>3. ASSUME NEW who \in Users, NEW pw \in Passwords, ResetPassword(who, m, pw)
        PROVE  \E call \in Call : Send(m, call) /\ retiring' = retiring
    <3>1. [op |-> "setPassword", pw |-> pw, via |-> None] \in Call
      BY DEF Call
    <3> QED BY <2>3, <3>1 DEF ResetPassword
  <2>4. ASSUME NEW pw \in Passwords, NEW via \in Tokens, ChangePassword(m, pw, via)
        PROVE  \E call \in Call : Send(m, call) /\ retiring' = retiring
    <3>1. [op |-> "setPassword", pw |-> pw, via |-> via] \in Call
      BY DEF Call
    <3> QED BY <2>4, <3>1 DEF ChangePassword
  <2>5. ASSUME NEW pw \in Passwords, Register(m, pw)
        PROVE  \E call \in Call : Send(m, call) /\ retiring' = retiring
    <3>1. [op |-> "create", rec |-> [role |-> "user", pw |-> pw], joins |-> TRUE] \in Call
      BY DEF Call, Roles, Record
    <3> QED BY <2>5, <3>1 DEF Register
  <2>6. ASSUME Touch(m)
        PROVE  \E call \in Call : Send(m, call) /\ retiring' = retiring
    <3>1. [op |-> "touch"] \in Call
      BY DEF Call
    <3> QED BY <2>6, <3>1 DEF Touch
  <2> QED BY <2>1, <2>2, <2>3, <2>4, <2>5, <2>6 DEF Request
<1> QED BY <1>1, <1>2, <1>3

LEMMA FinishKeepsDeletion ==
  ASSUME IInv, NEW m \in Users, Finish(m), NEW n \in Users, Underway(n)
  PROVE  (Underway(n) \/ Gone(n))'
<1>0. TypeOK /\ DeletesAreOfRetired
  BY DEF IInv
<1>1. CASE \E op \in {"create", "setRole", "setPassword", "touch"} : Take(m, op) /\ retiring' = retiring
  BY <1>0, <1>1, TakeKeepsDeletes DEF Underway
<1>2. CASE FinishDelete(m) /\ m = n
  <2>1. n \in retiredDisk
    BY <1>2, DeleteFacts DEF FinishDelete
  <2>2. disk'[n] = None /\ retiredDisk' = retiredDisk
    BY <1>0, <1>2 DEF FinishDelete, TypeOK
  <2> QED BY <2>1, <2>2 DEF Gone, Live
<1>3. CASE FinishDelete(m) /\ m # n
  <2>1. calls'[n] = calls[n] /\ retiring' = retiring
    BY <1>0, <1>3, TakeFacts DEF FinishDelete
  <2> QED BY <2>1 DEF Underway, Pending
<1> QED BY <1>1, <1>2, <1>3
        DEF Finish, FinishCreate, FinishSetRole, FinishSetPassword, FinishTouch

LEMMA RetireKeepsDeletion ==
  ASSUME IInv, FinishRetire, NEW n \in Users, Underway(n)
  PROVE  Underway(n)'
<1>0. TypeOK
  BY DEF IInv
<1>1. /\ Head(retiring) = retiring[1] /\ retiring[1] \in Users
      /\ \A i \in 1..Len(retiring) : i # 1 => i - 1 \in 1..Len(retiring') /\ retiring'[i - 1] = retiring[i]
  BY <1>0 DEF FinishRetire, TypeOK
<1>2. [op |-> "delete"] \in Call /\ Send(retiring[1], [op |-> "delete"])
  BY <1>1 DEF FinishRetire, Call
<1>3. CASE Pending(n, "delete")
  BY <1>0, <1>1, <1>2, <1>3, SendKeepsDeletes DEF Underway
<1>4. CASE n = retiring[1]
  <2>1. Len(calls'[n]) \in 1..Len(calls'[n]) /\ calls'[n][Len(calls'[n])].op = "delete"
    BY <1>0, <1>1, <1>2, <1>4, SendFacts DEF TypeOK
  <2> QED BY <2>1 DEF Underway, Pending
<1>5. CASE n # retiring[1] /\ \E i \in 1..Len(retiring) : retiring[i] = n
  BY <1>1, <1>5 DEF Underway
<1> QED BY <1>3, <1>4, <1>5 DEF Underway

(* A rejected call is that of the deletion itself, or of something else. *)
LEMMA RejectKeepsDeletion ==
  ASSUME IInv, NEW n \in Users, Underway(n),
         RejectRetire \/ \E m \in Users : RejectCall(m)
  PROVE  Underway(n)' \/ BreaksOff(n)
<1>0. TypeOK
  BY DEF IInv
<1>1. ASSUME NEW m \in Users, RejectCall(m) PROVE Underway(n)' \/ BreaksOff(n)
  <2>1. Take(m, Head(calls[m]).op) /\ retiring' = retiring
    BY <1>0, <1>1, RejectFacts
  <2>2. CASE Head(calls[m]).op # "delete"
    BY <1>0, <2>1, <2>2, TakeKeepsDeletes DEF Underway
  <2>3. CASE Head(calls[m]).op = "delete" /\ m = n
    BY <1>1, <2>3 DEF BreaksOff
  <2>4. CASE m # n
    <3>1. calls'[n] = calls[n]
      BY <1>0, <2>1, <2>4, TakeFacts
    <3> QED BY <2>1, <3>1 DEF Underway, Pending
  <2> QED BY <2>2, <2>3, <2>4
<1>2. CASE RejectRetire
  <2>1. /\ Head(retiring) = retiring[1] /\ calls' = calls
        /\ \A i \in 1..Len(retiring) : i # 1 => i - 1 \in 1..Len(retiring') /\ retiring'[i - 1] = retiring[i]
    BY <1>0, <1>2 DEF RejectRetire, TypeOK
  <2>2. CASE n = retiring[1]
    BY <1>2, <2>1, <2>2 DEF BreaksOff
  <2>3. CASE n # retiring[1]
    BY <2>1, <2>3 DEF Underway, Pending
  <2> QED BY <2>2, <2>3
<1> QED BY <1>1, <1>2

LEMMA NextKeepsDeletion ==
  ASSUME IInv, [Next]_storeVars, NEW n \in Users, Underway(n)
  PROVE  (Underway(n) \/ Gone(n) \/ phase = "down")' \/ BreaksOff(n)
<1>1. CASE Boot \/ InitFails
  BY <1>1 DEF Boot, InitFails, Underway, Pending
<1>2. CASE Crash
  BY <1>2 DEF Crash
<1>3. CASE \E m \in Users : Request(m)
  BY <1>3, RequestKeepsDeletion
<1>4. CASE \E m \in Users : Finish(m)
  BY <1>4, FinishKeepsDeletion
<1>5. CASE FinishRetire
  BY <1>5, RetireKeepsDeletion
<1>6. CASE RejectRetire \/ \E m \in Users : RejectCall(m)
  BY <1>6, RejectKeepsDeletion
<1>7. CASE UNCHANGED storeVars
  BY <1>7 DEF storeVars, Underway, Pending
<1> QED BY <1>1, <1>2, <1>3, <1>4, <1>5, <1>6, <1>7 DEF Next

(* No step of the gateway loses a deletion that deleteUser has begun: it    *)
(* waits for its tombstone or for its record until the record is gone, and  *)
(* then the record stays gone.  Only the end of the process and a rejection *)
(* of one of its own two calls break it off: what is left of                *)
(* DeletionCompletes is that the calls are answered or rejected.            *)
THEOREM DeletionsAreKept == Spec => DeletionIsKept
<1>1. IInv /\ [Next]_storeVars => DeletionStep
  BY GoneStays, NextKeepsDeletion DEF DeletionStep
<1> QED BY <1>1, InductiveInvariant, PTL DEF Spec, DeletionIsKept

-----------------------------------------------------------------------------
(* The last administrator.  As long as no call is in flight with a demotion *)
(* or deletion: every user of the map has a record, nobody whose record is  *)
(* being removed is in the map, and the administrator who is about to go is *)
(* not the only one.                                                        *)
Demotion(call) == call.op = "setRole" /\ call.role = "user"
SomeAdminOnDisk == \E n \in Users : disk[n] # None /\ disk[n].role = "admin"

Uncontested ==
  /\ phase = "ready" => Admins # {} /\ \A n \in Users : users[n] # None => disk[n] # None
  /\ phase = "down" => SomeAdminOnDisk \/ (disk = NoUsers /\ Bootstrap \notin retiredDisk)
  /\ \A n \in Users : \A i \in 1..Len(calls[n]) : calls[n][i].op = "delete" => i = 1 /\ users[n] = None
  /\ \A i \in 1..Len(retiring) : Admins \ {retiring[i]} # {}
  /\ \A n \in Users : \A i \in 1..Len(calls[n]) : Demotion(calls[n][i]) => Admins \ {n} # {}

Spared == ~contested => (Removing => Single) /\ ~DemotedUnawares /\ Uncontested

LEMMA RemovingFacts ==
         /\ retiring # <<>> => Removing
         /\ \A n \in Users : \A i \in 1..Len(calls[n]) : Demotion(calls[n][i]) => Removing
BY DEF Removing, Demotion

LEMMA SingleFacts ==
  ASSUME TypeOK, Single
  PROVE  /\ \A n \in Users : calls[n] # <<>> =>
              retiring = <<>> /\ Len(calls[n]) = 1 /\ \A m \in Users \ {n} : calls[m] = <<>>
         /\ retiring # <<>> => Len(retiring) = 1 /\ \A n \in Users : calls[n] = <<>>
<1>1. \A n \in Users : Len(calls[n]) \in Nat /\ (calls[n] # <<>> => Len(calls[n]) # 0)
  BY DEF TypeOK
<1>2. Len(retiring) \in Nat /\ (retiring # <<>> => Len(retiring) # 0)
  BY DEF TypeOK
<1>0. \A k \in Nat : k <= 1 /\ k # 0 => k = 1
  OBVIOUS
<1>3. CASE Len(retiring) <= 1 /\ \A n \in Users : calls[n] = <<>>
  <2>1. \A n \in Users : calls[n] = <<>>
    BY <1>3
  <2>2. retiring # <<>> => Len(retiring) = 1
    BY <1>0, <1>2, <1>3
  <2> QED BY <2>1, <2>2
<1>4. CASE retiring = <<>> /\ \E n \in Users : Len(calls[n]) <= 1 /\ \A m \in Users \ {n} : calls[m] = <<>>
  <2>1. PICK k \in Users : Len(calls[k]) <= 1 /\ \A m \in Users \ {k} : calls[m] = <<>>
    BY <1>4
  <2>2. ASSUME NEW n \in Users, calls[n] # <<>>
        PROVE  retiring = <<>> /\ Len(calls[n]) = 1 /\ \A m \in Users \ {n} : calls[m] = <<>>
    <3>1. n = k
      BY <2>1, <2>2
    <3>2. Len(calls[n]) = 1
      BY <1>0, <1>1, <2>1, <2>2, <3>1
    <3> QED BY <1>4, <2>1, <3>1, <3>2
  <2> QED BY <1>4, <2>2
<1> QED BY <1>3, <1>4 DEF Single

(* A handler that only sends a call. *)
LEMMA SendUncontested ==
  ASSUME IInv, Uncontested, phase = "ready", NEW n \in Users, NEW call \in Call, Send(n, call),
         UNCHANGED <<phase, disk, retiredDisk, users, retiredUsers, retiring>>,
         call.op # "delete",
         Demotion(call) => Admins \ {n} # {}
  PROVE  Uncontested'
<1>0. TypeOK
  BY DEF IInv
<1>1. Admins' = Admins
  BY DEF Admins, IsAdmin
<1>2. ASSUME NEW m \in Users, NEW i \in 1..Len(calls'[m])
      PROVE  /\ calls'[m][i].op = "delete" => i = 1 /\ users'[m] = None
             /\ Demotion(calls'[m][i]) => Admins' \ {m} # {}
  <2>1. CASE m # n
    BY <1>0, <1>1, <2>1, SendFacts DEF Uncontested
  <2>2. CASE m = n /\ i \in 1..Len(calls[n])
    BY <1>0, <1>1, <2>2, SendFacts DEF Uncontested
  <2>3. CASE m = n /\ i = Len(calls[n]) + 1
    BY <1>0, <1>1, <2>3, SendFacts
  <2> QED BY <1>0, <2>1, <2>2, <2>3, SendFacts DEF TypeOK
<1> QED BY <1>1, <1>2 DEF Uncontested, SomeAdminOnDisk

(* The answer to a call other than a deletion. *)
LEMMA WriteUncontested ==
  ASSUME IInv, Uncontested, Removing => Single, NEW n \in Users, NEW op, Take(n, op), op # "delete",
         \/ UNCHANGED <<disk, users, unsure>>
         \/ \E rec \in Record : Write(n, rec) /\ (rec.role = "admin" \/ Admins \ {n} # {}),
         UNCHANGED <<phase, retiredDisk, retiredUsers, retiring>>
  PROVE  Uncontested'
<1>0. TypeOK
  BY DEF IInv
<1>f. /\ 1 \in 1..Len(calls[n]) /\ calls[n][1].op = op /\ calls[n] # <<>>
      /\ Len(calls'[n]) = Len(calls[n]) - 1 /\ Len(calls[n]) \in Nat
      /\ \A i \in 1..Len(calls'[n]) : i + 1 \in 1..Len(calls[n]) /\ calls'[n][i] = calls[n][i + 1]
      /\ \A m \in Users \ {n} : calls'[m] = calls[m]
  BY <1>0, TakeFacts DEF TypeOK, Take
<1>1. phase = "ready"
  BY <1>f DEF IInv, DownIsEmpty, TypeOK
<1>2. retiring = <<>>
  BY <1>0, <1>f, RemovingFacts, SingleFacts
<1>4. ASSUME NEW m \in Users, NEW i \in 1..Len(calls'[m]), calls'[m][i].op = "delete"
      PROVE  i = 1 /\ users'[m] = None
  <2>1. CASE m = n
    <3>1. i + 1 \in 1..Len(calls[n]) /\ calls[n][i + 1].op = "delete" /\ i + 1 # 1
      BY <1>f, <1>4, <2>1
    <3> QED BY <3>1 DEF Uncontested
  <2>2. CASE m # n
    <3>1. i \in 1..Len(calls[m]) /\ calls[m][i].op = "delete"
      BY <1>f, <1>4, <2>2
    <3>2. users'[m] = users[m]
      BY <1>0, <2>2 DEF Write, TypeOK
    <3> QED BY <3>1, <3>2 DEF Uncontested
  <2> QED BY <2>1, <2>2
<1>5. ASSUME NEW m \in Users, NEW i \in 1..Len(calls'[m]), Demotion(calls'[m][i])
      PROVE  FALSE
  <2>1. CASE m = n
    <3>1. i + 1 \in 1..Len(calls[n]) /\ Demotion(calls[n][i + 1])
      BY <1>f, <1>5, <2>1
    <3>2. Len(calls[n]) = 1
      BY <1>0, <1>f, <3>1, RemovingFacts, SingleFacts
    <3> QED BY <1>f, <2>1, <3>2
  <2>2. CASE m # n
    <3>1. i \in 1..Len(calls[m]) /\ Demotion(calls[m][i])
      BY <1>f, <1>5, <2>2
    <3>2. calls[m] = <<>>
      BY <1>0, <1>f, <2>2, <3>1, RemovingFacts, SingleFacts
    <3> QED BY <3>1, <3>2
  <2> QED BY <2>1, <2>2
<1>6. Admins' # {} /\ \A m \in Users : users'[m] # None => disk'[m] # None
  <2>1. CASE UNCHANGED <<disk, users>>
    BY <1>1, <2>1 DEF Uncontested, Admins, IsAdmin
  <2>2. ASSUME NEW rec \in Record, Write(n, rec), rec.role = "admin" \/ Admins \ {n} # {}
        PROVE  Admins' # {} /\ \A m \in Users : users'[m] # None => disk'[m] # None
    <3>1. /\ users'[n] = rec /\ disk'[n] = rec /\ rec # None
          /\ \A m \in Users \ {n} : users'[m] = users[m] /\ disk'[m] = disk[m]
      BY <1>0, <2>2, UserStoreAssumption DEF Write, TypeOK
    <3>2. rec.role = "admin" => n \in Admins'
      BY <3>1 DEF Admins, IsAdmin
    <3>3. \A m \in Admins \ {n} : m \in Admins'
      BY <3>1 DEF Admins, IsAdmin
    <3> QED BY <1>1, <2>2, <3>1, <3>2, <3>3 DEF Uncontested
  <2> QED BY <2>1, <2>2
<1> QED BY <1>1, <1>2, <1>4, <1>5, <1>6 DEF Uncontested

(* A call that leaves the map as it is; only a deletion ends a record. *)
LEMMA TakeUncontested ==
  ASSUME IInv, Uncontested, NEW n \in Users, NEW op, Take(n, op),
         \A m \in Users \ {n} : disk'[m] = disk[m],
         op # "delete" => (disk[n] # None => disk'[n] # None),
         UNCHANGED <<phase, users, retiring>>
  PROVE  Uncontested'
<1>0. TypeOK
  BY DEF IInv
<1>f. /\ 1 \in 1..Len(calls[n]) /\ calls[n][1].op = op /\ calls[n] # <<>>
      /\ Len(calls'[n]) = Len(calls[n]) - 1 /\ Len(calls[n]) \in Nat
      /\ \A i \in 1..Len(calls'[n]) : i + 1 \in 1..Len(calls[n]) /\ calls'[n][i] = calls[n][i + 1]
      /\ \A m \in Users \ {n} : calls'[m] = calls[m]
  BY <1>0, TakeFacts DEF TypeOK, Take
<1>1. phase = "ready" /\ Admins' = Admins
  BY <1>f DEF IInv, DownIsEmpty, TypeOK, Admins, IsAdmin
<1>2. op = "delete" => users[n] = None
  BY <1>f DEF Uncontested
<1>3. \A m \in Users : users'[m] # None => disk'[m] # None
  BY <1>1, <1>2 DEF Uncontested
<1>4. ASSUME NEW m \in Users, NEW i \in 1..Len(calls'[m])
      PROVE  /\ calls'[m][i].op = "delete" => i = 1 /\ users'[m] = None
             /\ Demotion(calls'[m][i]) => Admins' \ {m} # {}
  <2>1. CASE m = n
    <3>1. i + 1 \in 1..Len(calls[n]) /\ calls'[n][i] = calls[n][i + 1] /\ i + 1 # 1
      BY <1>f, <2>1
    <3> QED BY <1>1, <2>1, <3>1 DEF Uncontested
  <2>2. CASE m # n
    BY <1>1, <1>f, <2>2 DEF Uncontested
  <2> QED BY <2>1, <2>2
<1> QED BY <1>1, <1>3, <1>4 DEF Uncontested

LEMMA FinishUncontested ==
  ASSUME IInv, Uncontested, Removing => Single, ~DemotedUnawares, NEW n \in Users, Finish(n)
  PROVE  Uncontested'
<1>0. TypeOK
  BY DEF IInv
<1>a. ASSUME disk[n] # None, n \in Admins PROVE disk[n].role = "admin"
  <2>1. disk[n].role \in Roles
    BY <1>0, <1>a DEF TypeOK, Record
  <2> QED BY <1>a, <2>1 DEF DemotedUnawares, Roles
<1>b. Admins # {} \/ calls[n] = <<>>
  BY <1>0 DEF IInv, DownIsEmpty, TypeOK, Uncontested
<1>1. CASE FinishCreate(n)
  <2>1. Take(n, "create") /\ calls[n] # <<>> /\ Head(calls[n]) \in Call /\ Head(calls[n]).op = "create"
    BY <1>0, <1>1, TakeFacts DEF FinishCreate, Take
  <2>2. Head(calls[n]).rec \in Record
    BY <2>1 DEF Call
  <2>3. phase = "ready"
    BY <1>0, <2>1 DEF IInv, DownIsEmpty, TypeOK
  <2>4. disk[n] = None => n \notin Admins
    BY <2>3 DEF Uncontested, Admins, IsAdmin
  <2>5. disk[n] = None => Admins \ {n} # {}
    BY <1>b, <2>1, <2>4
  <2> QED BY <1>1, <2>1, <2>2, <2>5, WriteUncontested DEF FinishCreate
<1>2. CASE FinishSetRole(n)
  <2>1. /\ Take(n, "setRole") /\ calls[n] # <<>> /\ Head(calls[n]) \in Call /\ Head(calls[n]).op = "setRole"
        /\ 1 \in 1..Len(calls[n]) /\ calls[n][1] = Head(calls[n])
    BY <1>0, <1>2, TakeFacts DEF FinishSetRole, Take
  <2>2. Head(calls[n]).role \in Roles
    BY <2>1 DEF Call
  <2>3. CASE disk[n] # None
    <3>1. [disk[n] EXCEPT !.role = Head(calls[n]).role] \in Record
      BY <1>0, <2>2, <2>3 DEF TypeOK, Record
    <3>2. [disk[n] EXCEPT !.role = Head(calls[n]).role].role = Head(calls[n]).role
      BY <1>0, <2>2, <2>3 DEF TypeOK, Record
    <3>3. Head(calls[n]).role = "admin" \/ Demotion(calls[n][1])
      BY <2>1, <2>2 DEF Roles, Demotion
    <3>4. Head(calls[n]).role = "admin" \/ Admins \ {n} # {}
      BY <2>1, <3>3 DEF Uncontested
    <3> QED BY <1>2, <2>1, <2>3, <3>1, <3>2, <3>4, WriteUncontested DEF FinishSetRole
  <2>4. CASE disk[n] = None
    BY <1>2, <2>1, <2>4, WriteUncontested DEF FinishSetRole
  <2> QED BY <2>3, <2>4
<1>3. ASSUME NEW op, Take(n, op), op # "delete", UNCHANGED <<phase, retiredDisk, retiredUsers, retiring>>,
             disk[n] = None => UNCHANGED <<disk, users, unsure>>,
             disk[n] # None => \E rec \in Record : Write(n, rec) /\ rec.role = disk[n].role
      PROVE  Uncontested'
  <2>1. calls[n] # <<>>
    BY <1>3 DEF Take
  <2>2. disk[n] # None => disk[n].role = "admin" \/ Admins \ {n} # {}
    BY <1>a, <1>b, <2>1
  <2> QED BY <1>3, <2>2, WriteUncontested
<1>4. CASE FinishSetPassword(n)
  <2>1. Take(n, "setPassword") /\ Head(calls[n]) \in Call /\ Head(calls[n]).op = "setPassword"
    BY <1>0, <1>4, TakeFacts DEF FinishSetPassword
  <2>2. Head(calls[n]).pw \in Passwords
    BY <2>1 DEF Call
  <2>3. ASSUME disk[n] # None
        PROVE  \E rec \in Record : Write(n, rec) /\ rec.role = disk[n].role
    <3> DEFINE rec == [disk[n] EXCEPT !.pw = Head(calls[n]).pw]
    <3>1. rec \in Record /\ rec.role = disk[n].role
      BY <1>0, <2>2, <2>3 DEF TypeOK, Record
    <3> QED BY <1>4, <2>3, <3>1 DEF FinishSetPassword
  <2> QED BY <1>3, <1>4, <2>1, <2>3 DEF FinishSetPassword
<1>5. CASE FinishTouch(n)
  <2>1. Take(n, "touch") /\ (disk[n] # None => disk[n] \in Record)
    BY <1>0, <1>5 DEF FinishTouch, TypeOK
  <2> QED BY <1>3, <1>5, <2>1 DEF FinishTouch
<1>6. CASE FinishDelete(n)
  <2>1. Take(n, "delete")
    BY <1>6 DEF FinishDelete
  <2>2. disk' \in [Users -> Record \cup {None}] /\ \A m \in Users \ {n} : disk'[m] = disk[m]
    BY <1>0, <1>6 DEF FinishDelete, TypeOK
  <2> QED BY <1>6, <2>1, <2>2, TakeUncontested DEF FinishDelete
<1> QED BY <1>1, <1>2, <1>4, <1>5, <1>6 DEF Finish

(* bootstrap() sees to it that there is an administrator. *)
LEMMA BootstrapUncontested ==
  ASSUME TypeOK, Uncontested, phase = "down", NEW pw \in Passwords, disk' = Bootstrapped(pw)
  PROVE  SomeAdminOnDisk'
<1>1. CASE disk = NoUsers /\ Bootstrap \notin retiredDisk
  <2>1. disk'[Bootstrap] = [role |-> "admin", pw |-> pw] /\ Bootstrap \in Users
    BY <1>1, UserStoreAssumption DEF Bootstrapped, TypeOK
  <2>2. [role |-> "admin", pw |-> pw] \in Record
    BY DEF Record, Roles
  <2> QED BY <2>1, <2>2, UserStoreAssumption DEF SomeAdminOnDisk
<1>2. CASE ~(disk = NoUsers /\ Bootstrap \notin retiredDisk)
  BY <1>2 DEF Bootstrapped, Uncontested, SomeAdminOnDisk
<1> QED BY <1>1, <1>2

LEMMA NextUncontested ==
  ASSUME IInv, Uncontested, Removing => Single, ~DemotedUnawares, Next, (Removing => Single)', IInv'
  PROVE  Uncontested'
<1>0. TypeOK /\ TypeOK'
  BY DEF IInv
<1>1. CASE Boot
  <2>1. PICK pw \in Passwords : disk' = Bootstrapped(pw)
    BY <1>1 DEF Boot
  <2>2. phase = "down" /\ phase' = "ready" /\ users' = disk' /\ UNCHANGED <<calls, retiring>>
    BY <1>1 DEF Boot
  <2>3. retiring = <<>> /\ \A n \in Users : calls[n] = <<>>
    BY <2>2 DEF IInv, DownIsEmpty
  <2>4. \E n \in Users : disk'[n] # None /\ disk'[n].role = "admin"
    BY <1>0, <2>1, <2>2, BootstrapUncontested DEF SomeAdminOnDisk
  <2>5. Admins' # {}
    BY <2>2, <2>4 DEF Admins, IsAdmin
  <2> QED BY <2>2, <2>3, <2>5 DEF Uncontested
<1>2. CASE Crash
  <2>1. phase = "ready" /\ phase' = "down" /\ retiring' = <<>> /\ (\A n \in Users : calls'[n] = <<>>) /\ disk' = disk
    BY <1>2 DEF Crash, serviceVars
  <2>2. PICK n \in Admins : disk[n] # None
    BY <2>1 DEF Uncontested, Admins, IsAdmin
  <2>3. n \in Users /\ disk[n].role \in Roles
    BY <1>0, <2>2 DEF Admins, TypeOK, Record
  <2>4. SomeAdminOnDisk
    BY <2>2, <2>3 DEF DemotedUnawares, SomeAdminOnDisk, Roles
  <2> QED BY <2>1, <2>4 DEF Uncontested, SomeAdminOnDisk
<1>3. ASSUME NEW n \in Users, NEW who \in Users, DeleteUser(who, n) PROVE Uncontested'
  <2>1. /\ retiring' = Append(retiring, n) /\ phase = "ready" /\ who \in Admins \ {n}
        /\ UNCHANGED <<phase, disk, retiredDisk, users, calls>>
    BY <1>3 DEF DeleteUser, Admins, serviceVars
  <2>2. retiring' # <<>> /\ Len(retiring') = Len(retiring) + 1 /\ retiring'[Len(retiring) + 1] = n /\ Len(retiring) \in Nat
    <3>1. retiring \in Seq(Users)
      BY <1>0 DEF TypeOK
    <3> QED BY <2>1, <3>1
  <2>3. Removing'
    BY <2>2 DEF Removing
  <2>4. Len(retiring') = 1
    BY <1>0, <2>2, <2>3 DEF Single
  <2>5. Admins' = Admins
    BY <2>1 DEF Admins, IsAdmin
  <2> QED BY <2>1, <2>2, <2>4, <2>5 DEF Uncontested
<1>4. ASSUME NEW n \in Users, NEW who \in Users, NEW role, SetRole(who, n, role) PROVE Uncontested'
  <2> DEFINE call == [op |-> "setRole", role |-> RoleOf(role)]
  <2>1. call \in Call /\ call.op = "setRole" /\ call.role = RoleOf(role)
    BY DEF Call, Roles, RoleOf
  <2>2. phase = "ready" /\ Send(n, call) /\ users[n] # None
    BY <1>4 DEF SetRole
  <2>3. Demotion(call) => Admins \ {n} # {}
    BY <1>4, <2>1, <2>2 DEF SetRole, Demotion, LastAdmin, Uncontested
  <2> HIDE DEF call
  <2> QED BY <1>4, <2>1, <2>2, <2>3, SendUncontested DEF SetRole, serviceVars
<1>5. ASSUME NEW n \in Users, NEW call \in Call, Send(n, call), phase = "ready",
             call.op \in {"create", "setPassword", "touch"},
             UNCHANGED <<phase, disk, retiredDisk, users, retiredUsers, retiring>>
      PROVE  Uncontested'
  BY <1>5, SendUncontested DEF Demotion
<1>6. ASSUME NEW n \in Users, NEW who \in Users, NEW role, NEW pw \in Passwords, CreateUser(who, n, role, pw)
      PROVE  Uncontested'
  <2> DEFINE call == [op |-> "create", rec |-> [role |-> RoleOf(role), pw |-> pw], joins |-> FALSE]
  <2>1. call \in Call /\ call.op = "create"
    BY DEF Call, Record, Roles, RoleOf
  <2> QED BY <1>5, <1>6, <2>1 DEF CreateUser, serviceVars
<1>7. ASSUME NEW n \in Users, NEW pw \in Passwords, Register(n, pw) PROVE Uncontested'
  <2> DEFINE call == [op |-> "create", rec |-> [role |-> "user", pw |-> pw], joins |-> TRUE]
  <2>1. call \in Call /\ call.op = "create"
    BY DEF Call, Record, Roles
  <2> QED BY <1>5, <1>7, <2>1 DEF Register, serviceVars
<1>8. ASSUME NEW n \in Users, NEW pw \in Passwords, NEW via \in Tokens \cup {None},
             \/ ChangePassword(n, pw, via)
             \/ \E who \in Users : via = None /\ ResetPassword(who, n, pw)
      PROVE  Uncontested'
  <2> DEFINE call == [op |-> "setPassword", pw |-> pw, via |-> via]
  <2>1. call \in Call /\ call.op = "setPassword"
    BY DEF Call
  <2> QED BY <1>5, <1>8, <2>1 DEF ChangePassword, ResetPassword, serviceVars
<1>9. ASSUME NEW n \in Users, Touch(n) PROVE Uncontested'
  <2> DEFINE call == [op |-> "touch"]
  <2>1. call \in Call /\ call.op = "touch"
    BY DEF Call
  <2> QED BY <1>5, <1>9, <2>1 DEF Touch, serviceVars
<1>10. CASE \E n \in Users : Request(n)
  BY <1>3, <1>4, <1>6, <1>7, <1>8, <1>9, <1>10 DEF Request
<1>11. CASE \E n \in Users : Finish(n)
  BY <1>11, FinishUncontested
<1>12. CASE FinishRetire
  <2> DEFINE n == Head(retiring)
  <2>1. /\ retiring # <<>> /\ retiring' = Tail(retiring) /\ users' = [users EXCEPT ![n] = None]
        /\ disk' = disk /\ phase' = phase /\ Send(n, [op |-> "delete"])
    BY <1>12 DEF FinishRetire
  <2>2. Len(retiring) = 1 /\ \A m \in Users : calls[m] = <<>>
    BY <1>0, <2>1, RemovingFacts, SingleFacts
  <2>3. n \in Users /\ n = retiring[1] /\ Len(retiring') = 0
    BY <1>0, <2>1, <2>2 DEF TypeOK
  <2>4. phase = "ready"
    BY <1>0, <2>1 DEF IInv, DownIsEmpty, TypeOK
  <2>5. [op |-> "delete"] \in Call
    BY DEF Call
  <2> HIDE DEF n
  <2>6. /\ Len(calls'[n]) = 1 /\ calls'[n][1] = [op |-> "delete"]
        /\ \A m \in Users \ {n} : calls'[m] = <<>>
    <3>1. calls[n] = <<>> /\ calls' = [calls EXCEPT ![n] = Append(<<>>, [op |-> "delete"])]
      BY <2>1, <2>2, <2>3 DEF Send
    <3> QED BY <1>0, <2>2, <2>3, <3>1 DEF TypeOK
  <2>7. Admins \ {n} # {}
    BY <2>2, <2>3 DEF Uncontested
  <2>8. users'[n] = None /\ \A m \in Users \ {n} : users'[m] = users[m]
    BY <1>0, <2>1, <2>3 DEF TypeOK
  <2>9. Admins' # {}
    BY <2>7, <2>8 DEF Admins, IsAdmin
  <2>10. ASSUME NEW m \in Users, NEW i \in 1..Len(calls'[m]) PROVE m = n /\ i = 1
    <3>1. CASE m # n
      <4>1. calls'[m] = <<>>
        BY <2>6, <3>1
      <4> QED BY <4>1
    <3>2. CASE m = n
      <4>1. \A j \in 1..1 : j = 1
        OBVIOUS
      <4> QED BY <2>6, <3>2, <4>1
    <3> QED BY <3>1, <3>2
  <2>11. \A m \in Users : \A i \in 1..Len(calls'[m]) : ~Demotion(calls'[m][i])
    BY <2>6, <2>10 DEF Demotion
  <2>12. \A m \in Users : users'[m] # None => disk'[m] # None
    BY <2>1, <2>4, <2>8 DEF Uncontested
  <2>13. \A m \in Users : \A i \in 1..Len(calls'[m]) : i = 1 /\ users'[m] = None
    BY <2>8, <2>10
  <2>14. phase' = "ready"
    BY <2>1, <2>4
  <2>15. \A i \in 1..Len(retiring') : FALSE
    BY <2>3
  <2> QED BY <2>9, <2>11, <2>12, <2>13, <2>14, <2>15 DEF Uncontested
<1>13. CASE InitFails
  <2>1. /\ phase = "down" /\ UNCHANGED <<phase, retiredDisk, users, calls, retiring>>
        /\ disk' = disk \/ \E pw \in Passwords : disk' = Bootstrapped(pw)
    BY <1>13 DEF InitFails
  <2>2. retiring = <<>> /\ \A n \in Users : calls[n] = <<>>
    BY <2>1 DEF IInv, DownIsEmpty
  <2>3. SomeAdminOnDisk' \/ (disk' = NoUsers /\ Bootstrap \notin retiredDisk')
    <3>1. CASE disk' = disk
      BY <2>1, <3>1 DEF Uncontested, SomeAdminOnDisk
    <3>2. CASE \E pw \in Passwords : disk' = Bootstrapped(pw)
      BY <1>0, <2>1, <3>2, BootstrapUncontested
    <3> QED BY <2>1, <3>1, <3>2
  <2> QED BY <2>1, <2>2, <2>3 DEF Uncontested
<1>14. ASSUME NEW n \in Users, RejectCall(n) PROVE Uncontested'
  <2>1. /\ Take(n, Head(calls[n]).op) /\ UNCHANGED <<phase, users, retiring>>
        /\ \A m \in Users \ {n} : disk'[m] = disk[m]
        /\ Head(calls[n]).op # "delete" => (disk[n] # None => disk'[n] # None)
    BY <1>0, <1>14, RejectFacts DEF Live
  <2> QED BY <2>1, TakeUncontested
<1>15. CASE RejectRetire
  <2>1. retiring # <<>> /\ retiring' = Tail(retiring) /\ UNCHANGED <<phase, disk, users, calls>>
    BY <1>15 DEF RejectRetire
  <2>2. \A i \in 1..Len(retiring') : i + 1 \in 1..Len(retiring) /\ retiring'[i] = retiring[i + 1]
    BY <1>0, <2>1 DEF TypeOK
  <2>3. Admins' = Admins
    BY <2>1 DEF Admins, IsAdmin
  <2>4. phase = "ready"
    BY <1>0, <2>1 DEF IInv, DownIsEmpty, TypeOK
  <2> QED BY <2>1, <2>2, <2>3, <2>4 DEF Uncontested
<1> QED BY <1>1, <1>2, <1>10, <1>11, <1>12, <1>13, <1>14, <1>15 DEF Next

(* As long as no call is in flight with a demotion or deletion, and no      *)
(* demotion was rejected that took effect, there is an administrator, for   *)
(* any names and through every restart.                                     *)
THEOREM SomeAdminRemains == MCSpec => []AdminRemainsUnlessContested
<1> DEFINE Inv == IInv /\ Spared
<1>1. MCInit => Inv
  <2> SUFFICES ASSUME MCInit PROVE Spared
    BY InitIInv DEF MCInit
  <2>1. /\ retiring = <<>> /\ (\A n \in Users : calls[n] = <<>>) /\ phase = "down"
        /\ disk = NoUsers /\ users = NoUsers /\ retiredDisk = {}
    BY DEF MCInit, Init
  <2> QED BY <2>1 DEF Spared, Removing, Uncontested, DemotedUnawares, Admins, IsAdmin, NoUsers
<1>2. Inv /\ [MCNext]_<<storeVars, contested, brokenOff>> => Inv'
  <2> SUFFICES ASSUME Inv, [MCNext]_<<storeVars, contested, brokenOff>> PROVE Inv'
    OBVIOUS
  <2>1. IInv'
    BY NextIInv DEF MCNext
  <2>2. CASE MCNext
    <3> SUFFICES ASSUME ~contested' PROVE (Removing => Single)' /\ ~DemotedUnawares' /\ Uncontested'
      BY <2>1 DEF Spared
    <3>1. ~contested /\ (Removing => Single)' /\ ~DemotedUnawares' /\ Next
      BY <2>2 DEF MCNext
    <3> QED BY <2>1, <3>1, NextUncontested DEF Spared
  <2>3. CASE UNCHANGED <<storeVars, contested, brokenOff>>
    BY <2>1, <2>3 DEF storeVars, serviceVars, Spared, Removing, Single, Uncontested, Admins, IsAdmin,
                        DemotedUnawares, SomeAdminOnDisk
  <2> QED BY <2>2, <2>3
<1>3. Inv => AdminRemainsUnlessContested
  BY DEF Spared, Uncontested, AdminRemainsUnlessContested, AdminRemains
<1>4. MCSpec => MCInit /\ [][MCNext]_<<storeVars, contested, brokenOff>>
  BY PTL DEF MCSpec
<1> QED BY <1>1, <1>2, <1>3, <1>4, PTL

-----------------------------------------------------------------------------
(* The user table and the session table together.                          *)

(* Every step of the two tables is a step of the user table. *)
LEMMA StoreStep ==
  ASSUME S!SessionsTypeOK, [AccountsNext]_vars
  PROVE  [Next]_storeVars
<1>1. \A t \in Tokens : Principal(t) # None => Principal(t) \in Users
  <2> SUFFICES ASSUME NEW t \in Tokens, Principal(t) # None PROVE Principal(t) \in Users
    OBVIOUS
  <2>1. sessions[S!Key(t)] # None /\ Principal(t) = sessions[S!Key(t)].user
    BY DEF Principal, S!UserOf
  <2> QED BY <2>1 DEF S!SessionsTypeOK, S!SessionTable, S!Session, S!Keys
<1>2. ASSUME NEW t \in Tokens, Rpc(t) PROVE Next
  <2>1. PICK n \in Users :
       \/ DeleteUser(Principal(t), n)
       \/ \E role \in Roles, pw \in Passwords : CreateUser(Principal(t), n, role, pw)
       \/ \E role \in Roles : SetRole(Principal(t), n, role)
       \/ \E pw \in Passwords :
            \/ ResetPassword(Principal(t), n, pw)
            \/ n = Principal(t) /\ ~Changing(t) /\ ChangePassword(n, pw, t)
    BY <1>2 DEF Rpc
  <2>2. Principal(t) \in Users
    BY <1>1, <1>2 DEF Rpc, LoggedIn
  <2>3. Request(n)
    BY <2>1, <2>2 DEF Request
  <2> QED BY <2>3 DEF Next
<1>3. ASSUME NEW n \in Users, PasskeyVerified(n) \/ Join(n) \/ CallRejected(n) PROVE Next
  BY <1>3 DEF PasskeyVerified, Join, CallRejected, Request, Next
<1>4. ASSUME NEW n \in Users,
             \/ AnswerCreate(n) \/ AnswerSetRole(n) \/ AnswerSetPassword(n) \/ AnswerDelete(n)
             \/ \E t \in Tokens : AnswerPasskeyLogin(n, t)
      PROVE  Next
  BY <1>4 DEF AnswerCreate, AnswerSetRole, AnswerSetPassword, PasswordWritten, AnswerDelete,
              AnswerPasskeyLogin, Finish, Next
<1>5. CASE Start \/ StartFails \/ Stop \/ AnswerRetire \/ RetireRejected
  BY <1>5 DEF Start, StartFails, Stop, AnswerRetire, RetireRejected, Next
<1>6. ASSUME \/ \E n \in Users : PasskeyLogin(n) \/ PasskeyRefused(n)
             \/ \E n \in Users : JoinFails(n) \/ \E t \in Tokens : PasswordLogin(t, n) \/ AnswerJoin(n, t)
             \/ \E t \in Tokens : RpcOfMissingUser(t) \/ Logout(t) \/ LogoutDone(t)
             \/ \E c \in changing : EndChange(c)
             \/ FileWritten
             \/ UNCHANGED vars
      PROVE  UNCHANGED storeVars
  BY <1>6 DEF PasskeyLogin, PasskeyRefused, JoinFails, PasswordLogin, AnswerJoin, RpcOfMissingUser,
              Logout, LogoutDone, EndChange, FileWritten, vars
<1> QED BY <1>2, <1>3, <1>4, <1>5, <1>6 DEF AccountsNext

(* A name that carries or carried a record, and one that carries none any   *)
(* more.                                                                    *)
KnownNames == {n \in Users : Live(n) \/ n \in retiredDisk}

LEMMA NamesStay ==
  ASSUME IInv, [Next]_storeVars
  PROVE  KnownNames \subseteq KnownNames' /\ SpentNames \subseteq SpentNames'
<1>1. [Lifecycle!Next]_<<disk, SpentNames>>
  BY NextLifecycle
<1>2. SpentNames = {n \in retiredDisk : ~Live(n)} /\ disk \in [Users -> Record \cup {None}] /\ retiredDisk \subseteq Users
  BY DEF SpentNames, IInv, TypeOK
<1>3. KnownNames = {n \in Users : Live(n) \/ n \in SpentNames}
  BY <1>2 DEF KnownNames
<1>4. KnownNames' = {n \in Users : Live(n)' \/ n \in SpentNames'}
  BY DEF KnownNames, SpentNames
<1>5. CASE UNCHANGED <<disk, SpentNames>>
  BY <1>3, <1>4, <1>5 DEF Live
<1>6. ASSUME NEW n \in Users, NEW v \in Record, disk' = [disk EXCEPT ![n] = v], SpentNames' = SpentNames
      PROVE  KnownNames \subseteq KnownNames' /\ SpentNames \subseteq SpentNames'
  <2>1. \A m \in Users : Live(m) => Live(m)'
    BY <1>2, <1>6, UserStoreAssumption DEF Live
  <2> QED BY <1>3, <1>4, <1>6, <2>1
<1>7. ASSUME NEW n \in Users, disk' = [disk EXCEPT ![n] = None], SpentNames' = SpentNames \cup {n}
      PROVE  KnownNames \subseteq KnownNames' /\ SpentNames \subseteq SpentNames'
  <2>1. \A m \in Users : Live(m) => Live(m)' \/ m = n
    BY <1>2, <1>7 DEF Live
  <2> QED BY <1>3, <1>4, <1>7, <2>1
<1> QED BY <1>1, <1>5, <1>6, <1>7 DEF Lifecycle!Next, Lifecycle!Close, Lifecycle!Open, Lifecycle!Update, SpentNames

(* What requests read of a retired name, if nothing was in flight on its    *)
(* record when the tombstone was written: nobody once the record is gone or *)
(* being deleted.                                                           *)
RetiredIsOut(n) ==
  /\ ~Live(n) => users[n] = None
  /\ \A i \in 1..Len(calls[n]) : calls[n][i].op = "delete" => i = 1 /\ users[n] = None
RetiredAreOut == phase = "ready" => \A n \in retiredDisk \ raced : RetiredIsOut(n)

LEMMA SendKeepsOut ==
  ASSUME TypeOK, NEW n \in Users, RetiredIsOut(n),
         NEW m \in Users, NEW call \in Call, Send(m, call), call.op # "delete",
         UNCHANGED <<disk, users>>
  PROVE  RetiredIsOut(n)'
<1>1. ASSUME NEW i \in 1..Len(calls'[n]), calls'[n][i].op = "delete" PROVE i = 1 /\ users[n] = None
  <2>1. CASE m = n
    <3>1. i \in 1..Len(calls[n]) /\ calls[n][i].op = "delete"
      BY <1>1, <2>1, SendFacts DEF TypeOK
    <3> QED BY <3>1 DEF RetiredIsOut
  <2>2. CASE m # n
    BY <1>1, <2>2, SendFacts DEF RetiredIsOut
  <2> QED BY <2>1, <2>2
<1> QED BY <1>1 DEF RetiredIsOut, Live

(* The oldest call of a record is answered or rejected. *)
LEMMA TakeKeepsOut ==
  ASSUME IInv, NEW n \in Users, n \in retiredDisk, RetiredIsOut(n), NEW op, Take(n, op),
         op # "delete" => (Live(n) => Live(n)'),
         op # "create" => (~Live(n) => ~Live(n)'),
         users'[n] = users[n] \/ (Live(n)' /\ op # "delete")
  PROVE  RetiredIsOut(n)'
<1>0. TypeOK
  BY DEF IInv
<1>f. /\ 1 \in 1..Len(calls[n]) /\ calls[n][1].op = op /\ Len(calls[n]) \in Nat
      /\ Len(calls'[n]) = Len(calls[n]) - 1
      /\ \A i \in 1..Len(calls'[n]) : i + 1 \in 1..Len(calls[n]) /\ calls'[n][i] = calls[n][i + 1]
  BY <1>0, TakeFacts DEF TypeOK
<1>1. \A i \in 1..Len(calls'[n]) : calls'[n][i].op # "delete"
  <2> SUFFICES ASSUME NEW i \in 1..Len(calls'[n]), calls'[n][i].op = "delete" PROVE FALSE
    OBVIOUS
  <2>1. i + 1 \in 1..Len(calls[n]) /\ calls[n][i + 1].op = "delete" /\ i + 1 # 1
    BY <1>f
  <2> QED BY <2>1 DEF RetiredIsOut
<1>2. op = "delete" => users[n] = None
  BY <1>f DEF RetiredIsOut
<1>3. op = "create" => Live(n)
  BY <1>f DEF IInv, NoRebirthInFlight, Pending
<1>4. ~Live(n)' => users'[n] = None
  BY <1>2, <1>3 DEF RetiredIsOut
<1> QED BY <1>1, <1>4 DEF RetiredIsOut

LEMMA FinishKeepsOut ==
  ASSUME IInv, NEW n \in Users, n \in retiredDisk, RetiredIsOut(n), NEW m \in Users, Finish(m)
  PROVE  RetiredIsOut(n)'
<1>0. TypeOK
  BY DEF IInv
<1>1. PICK op \in {"create", "setRole", "setPassword", "touch", "delete"} :
        /\ Take(m, op)
        /\ (op = "create" /\ FinishCreate(m)) \/ (op = "setRole" /\ FinishSetRole(m))
           \/ (op = "setPassword" /\ FinishSetPassword(m)) \/ (op = "touch" /\ FinishTouch(m))
           \/ (op = "delete" /\ FinishDelete(m))
  BY DEF Finish, FinishCreate, FinishSetRole, FinishSetPassword, FinishTouch, FinishDelete
<1>2. CASE m # n
  <2>1. calls'[n] = calls[n]
    BY <1>0, <1>1, <1>2, TakeFacts
  <2>2. disk'[n] = disk[n] /\ users'[n] = users[n]
    BY <1>0, <1>2 DEF Finish, FinishCreate, FinishSetRole, FinishSetPassword, FinishTouch, FinishDelete, Write, TypeOK
  <2> QED BY <2>1, <2>2 DEF RetiredIsOut, Live
<1>3. CASE m = n /\ op = "delete"
  <2>1. ~Live(n)' /\ users'[n] = users[n] /\ Take(n, "delete")
    BY <1>0, <1>1, <1>3 DEF FinishDelete, TypeOK, Live
  <2> QED BY <2>1, TakeKeepsOut
<1>4. CASE m = n /\ op # "delete"
  <2>1. ASSUME NEW rec \in Record, Write(n, rec) PROVE Live(n)'
    BY <1>0, <2>1, UserStoreAssumption DEF Write, TypeOK, Live
  <2>2. \/ UNCHANGED <<disk, users>>
        \/ (\E rec \in Record : Write(n, rec)) /\ (op # "create" => Live(n))
    <3>1. Head(calls[n]) \in Call /\ Head(calls[n]).op = op /\ (disk[n] # None => disk[n] \in Record)
      BY <1>0, <1>1, <1>4, TakeFacts DEF TypeOK
    <3>2. CASE FinishCreate(n) /\ op = "create"
      <4>1. Head(calls[n]).rec \in Record
        BY <3>1, <3>2 DEF Call
      <4> QED BY <3>2, <4>1 DEF FinishCreate
    <3>3. CASE FinishSetRole(n) /\ op = "setRole"
      <4>1. Head(calls[n]).role \in Roles
        BY <3>1, <3>3 DEF Call
      <4>2. disk[n] # None => [disk[n] EXCEPT !.role = Head(calls[n]).role] \in Record
        BY <3>1, <4>1 DEF Record
      <4> QED BY <3>3, <4>2 DEF FinishSetRole, Live
    <3>4. CASE FinishSetPassword(n) /\ op = "setPassword"
      <4>1. Head(calls[n]).pw \in Passwords
        BY <3>1, <3>4 DEF Call
      <4>2. disk[n] # None => [disk[n] EXCEPT !.pw = Head(calls[n]).pw] \in Record
        BY <3>1, <4>1 DEF Record
      <4> QED BY <3>4, <4>2 DEF FinishSetPassword, Live
    <3>5. CASE FinishTouch(n)
      BY <3>1, <3>5 DEF FinishTouch, Live
    <3> QED BY <1>1, <1>4, <3>2, <3>3, <3>4, <3>5
  <2> QED BY <1>1, <1>4, <2>1, <2>2, TakeKeepsOut DEF Live
<1> QED BY <1>2, <1>3, <1>4

LEMMA RejectKeepsOut ==
  ASSUME IInv, NEW n \in Users, n \in retiredDisk, RetiredIsOut(n), NEW m \in Users, RejectCall(m)
  PROVE  RetiredIsOut(n)'
<1>0. TypeOK
  BY DEF IInv
<1>1. CASE m = n
  <2>1. PICK op :
          /\ Take(n, op) /\ users'[n] = users[n]
          /\ op # "delete" => (Live(n) => Live(n)')
          /\ op # "create" => (~Live(n) => ~Live(n)')
    BY <1>0, <1>1, RejectFacts
  <2> QED BY <2>1, TakeKeepsOut
<1>2. CASE m # n
  <2>1. Take(m, Head(calls[m]).op) /\ users' = users /\ disk'[n] = disk[n]
    BY <1>0, <1>2, RejectFacts
  <2>2. calls'[n] = calls[n]
    BY <1>0, <1>2, <2>1, TakeFacts
  <2> QED BY <2>1, <2>2 DEF RetiredIsOut, Live
<1> QED BY <1>1, <1>2

(* A request that is not a deletion sends a creation, or a call on a user   *)
(* it found in the map or on a retired one.                                 *)
LEMMA RequestSends ==
  ASSUME NEW m \in Users, Request(m), ~\E who \in Users : DeleteUser(who, m)
  PROVE  \E call \in Call :
           /\ Send(m, call) /\ call.op # "delete"
           /\ call.op = "create" \/ users[m] # None \/ m \in retiredUsers
<1>1. \A role : [op |-> "setRole", role |-> RoleOf(role)] \in Call
  BY DEF Call, Roles, RoleOf
<1>2. \A role : \A pw \in Passwords, b \in BOOLEAN :
        [op |-> "create", rec |-> [role |-> RoleOf(role), pw |-> pw], joins |-> b] \in Call
  BY DEF Call, Record, Roles, RoleOf
<1>3. \A pw \in Passwords, via \in Tokens \cup {None} : [op |-> "setPassword", pw |-> pw, via |-> via] \in Call
  BY DEF Call
<1>4. [op |-> "touch"] \in Call
  BY DEF Call
<1>5. \A pw \in Passwords : [op |-> "create", rec |-> [role |-> "user", pw |-> pw], joins |-> TRUE] \in Call
  BY DEF Call, Record, Roles
<1>6. CASE \E who \in Users, role \in Roles \cup {"owner"} : SetRole(who, m, role)
  BY <1>1, <1>6 DEF SetRole
<1>7. CASE \E who \in Users, role \in Roles \cup {"owner"}, pw \in Passwords : CreateUser(who, m, role, pw)
  <2>1. PICK who \in Users, role \in Roles \cup {"owner"}, pw \in Passwords : CreateUser(who, m, role, pw)
    BY <1>7
  <2> DEFINE call == [op |-> "create", rec |-> [role |-> RoleOf(role), pw |-> pw], joins |-> FALSE]
  <2>2. call \in Call /\ call.op = "create"
    BY <1>2
  <2>3. Send(m, call)
    BY <2>1 DEF CreateUser
  <2> HIDE DEF call
  <2> QED BY <2>2, <2>3
<1>8. CASE \/ \E who \in Users, pw \in Passwords : ResetPassword(who, m, pw)
           \/ \E pw \in Passwords, via \in Tokens : ChangePassword(m, pw, via)
  BY <1>3, <1>8 DEF ResetPassword, ChangePassword
<1>9. CASE \E pw \in Passwords : Register(m, pw)
  BY <1>5, <1>9 DEF Register
<1>10. CASE Touch(m)
  BY <1>4, <1>10 DEF Touch
<1> QED BY <1>6, <1>7, <1>8, <1>9, <1>10 DEF Request

LEMMA RetiredAreOutKept ==
  ASSUME IInv, RetiredAreOut, [Next]_storeVars,
         raced \subseteq raced' \/ phase' = "down",
         FinishRetire => calls[Head(retiring)] = <<>> \/ Head(retiring) \in raced'
  PROVE  RetiredAreOut'
<1> SUFFICES ASSUME phase' = "ready", NEW n \in retiredDisk', n \notin raced' PROVE RetiredIsOut(n)'
  BY DEF RetiredAreOut
<1>0. TypeOK /\ TypeOK'
  BY NextIInv DEF IInv
<1>n. n \in Users
  BY <1>0 DEF TypeOK
<1>1. CASE Boot
  <2>1. users' = disk' /\ calls' = calls /\ phase = "down"
    BY <1>1 DEF Boot
  <2>2. calls'[n] = <<>>
    BY <1>n, <2>1 DEF IInv, DownIsEmpty
  <2> QED BY <1>n, <2>1, <2>2 DEF RetiredIsOut, Live
<1>2. ~(Crash \/ InitFails)
  BY DEF Crash, InitFails
<1>a. ASSUME phase = "ready", n \in retiredDisk PROVE RetiredIsOut(n)
  BY <1>a DEF RetiredAreOut
<1>3. ASSUME NEW m \in Users, Request(m) PROVE RetiredIsOut(n)'
  <2>1. phase = "ready" /\ UNCHANGED <<retiredDisk, disk, users>>
    BY <1>3 DEF Request, DeleteUser, SetRole, CreateUser, Register, ChangePassword, ResetPassword, Touch, serviceVars
  <2>2. CASE \E who \in Users : DeleteUser(who, m)
    BY <1>a, <2>1, <2>2 DEF DeleteUser, RetiredIsOut, Live
  <2>3. CASE ~\E who \in Users : DeleteUser(who, m)
    <3>1. PICK call \in Call : Send(m, call) /\ call.op # "delete"
      BY <1>3, <2>3, RequestSends
    <3> QED BY <1>0, <1>a, <1>n, <2>1, <3>1, SendKeepsOut
  <2> QED BY <2>2, <2>3
<1>4. ASSUME NEW m \in Users, Finish(m) \/ RejectCall(m) PROVE RetiredIsOut(n)'
  <2>1. UNCHANGED <<phase, retiredDisk>>
    BY <1>4 DEF Finish, FinishCreate, FinishSetRole, FinishSetPassword, FinishTouch, FinishDelete, RejectCall
  <2> QED BY <1>4, <1>a, <1>n, <2>1, FinishKeepsOut, RejectKeepsOut
<1>5. CASE FinishRetire
  <2> DEFINE h == Head(retiring)
  <2>1. /\ retiring # <<>> /\ retiredDisk' = retiredDisk \cup {h} /\ users' = [users EXCEPT ![h] = None]
        /\ Send(h, [op |-> "delete"]) /\ UNCHANGED <<phase, disk>>
    BY <1>5 DEF FinishRetire
  <2>2. h \in Users /\ [op |-> "delete"] \in Call
    BY <1>0, <2>1 DEF TypeOK, Call
  <2>3. CASE n = h
    <3>1. calls[h] = <<>>
      BY <1>5, <2>3
    <3>2. Len(calls'[h]) = 1 /\ calls'[h][1] = [op |-> "delete"]
      <4>1. calls' = [calls EXCEPT ![h] = Append(<<>>, [op |-> "delete"])]
        BY <2>1, <3>1 DEF Send
      <4> QED BY <1>0, <2>2, <4>1 DEF TypeOK
    <3>3. \A i \in 1..1 : i = 1
      OBVIOUS
    <3>4. users'[h] = None
      BY <1>0, <2>1, <2>2 DEF TypeOK
    <3> QED BY <2>3, <3>2, <3>3, <3>4 DEF RetiredIsOut
  <2>4. CASE n # h
    <3>1. calls'[n] = calls[n] /\ users'[n] = users[n] /\ n \in retiredDisk
      BY <1>0, <1>n, <2>1, <2>2, <2>4, SendFacts DEF TypeOK
    <3> QED BY <1>a, <2>1, <3>1 DEF RetiredIsOut, Live
  <2> QED BY <2>3, <2>4
<1>6. CASE RejectRetire
  <2>1. /\ retiring # <<>> /\ UNCHANGED <<phase, disk, users, retiredUsers, calls>>
        /\ retiredDisk' = retiredDisk \/ retiredDisk' = retiredDisk \cup {Head(retiring)}
    BY <1>6 DEF RejectRetire
  <2>2. CASE n \in retiredDisk
    BY <1>a, <2>1, <2>2 DEF RetiredIsOut, Live
  <2>3. CASE n \notin retiredDisk
    <3>0. phase = "ready"
      BY <1>6 DEF RejectRetire
    <3>1. n = Head(retiring) /\ 1 \in 1..Len(retiring) /\ Head(retiring) = retiring[1]
      BY <1>0, <2>1, <2>3 DEF TypeOK
    <3>2. Live(n) /\ ~Pending(n, "delete")
      BY <1>n, <2>1, <2>3, <3>1, <3>0 DEF IInv, RetireTargets, DeletesAreOfRetired, TombstonesKnown
    <3>3. \A i \in 1..Len(calls'[n]) : calls'[n][i].op # "delete"
      BY <2>1, <3>2 DEF Pending
    <3>4. Live(n)'
      BY <2>1, <3>2 DEF Live
    <3> QED BY <3>3, <3>4 DEF RetiredIsOut
  <2> QED BY <2>2, <2>3
<1>7. CASE UNCHANGED storeVars
  BY <1>7, <1>a DEF storeVars, serviceVars, RetiredIsOut, Live
<1> QED BY <1>1, <1>2, <1>3, <1>4, <1>5, <1>6, <1>7 DEF Next

-----------------------------------------------------------------------------
(* The keys of the tokens that were ever issued. *)
UsedKeys == {S!Key(t) : t \in {x \in Tokens : lastUse[x] # None}}

(* Each session, in the table and in every copy of it, is of a token that   *)
(* was issued and of a name that carries or carried a record; the clock of  *)
(* this model stands still.                                                 *)
Of(table, names, keys, time) ==
  \A k \in S!Keys : table[k] # None => table[k].user \in names /\ table[k].exp = time + TTL /\ k \in keys
Tables ==
  /\ S!SessionsTypeOK
  /\ Of(sessions, KnownNames, UsedKeys, now) /\ Of(file, KnownNames, UsedKeys, now)
  /\ \A i \in 1..Len(writes) : Of(writes[i], KnownNames, UsedKeys, now)

LEMMA SessionKeys ==
  /\ \A t \in Tokens : S!Key(t) \in S!Keys
  /\ \A k \in S!Keys : \E t \in Tokens : k = S!Key(t)
  /\ \A s, t \in Tokens : S!Key(s) = S!Key(t) => s = t
BY DEF S!Keys, S!Key

(* Taking an element out of a sequence leaves the others. *)
LEMMA Without1 ==
  ASSUME NEW A, NEW s \in Seq(A), NEW i \in 1..Len(s)
  PROVE  /\ S!RemoveAt(s, i) \in Seq(A)
         /\ Len(S!RemoveAt(s, i)) = Len(s) - 1
         /\ \A j \in 1..Len(S!RemoveAt(s, i)) :
              \E k \in 1..Len(s) : S!RemoveAt(s, i)[j] = s[k]
         /\ i = 1 => \A j \in 1..Len(S!RemoveAt(s, i)) : S!RemoveAt(s, i)[j] = s[j + 1]
<1> DEFINE a == SubSeq(s, 1, i - 1)
           b == SubSeq(s, i + 1, Len(s))
<1>1. Len(s) \in Nat /\ \A j \in 1..Len(s) : s[j] \in A
  BY LenProperties, ElementOfSeq
<1>2. a \in Seq(A) /\ Len(a) = i - 1 /\ \A j \in 1..i - 1 : a[j] = s[j]
  <2>1. \A j \in 1..i - 1 : s[j] \in A
    BY <1>1
  <2> QED BY <1>1, <2>1, SubSeqProperties
<1>3. b \in Seq(A) /\ Len(b) = Len(s) - i /\ \A j \in 1..Len(s) - i : b[j] = s[i + j]
  <2>1. \A j \in i + 1..Len(s) : s[j] \in A
    BY <1>1
  <2> QED BY <1>1, <2>1, SubSeqProperties
<1> HIDE DEF a, b
<1>4. /\ a \o b \in Seq(A) /\ Len(a \o b) = Len(s) - 1
      /\ \A j \in 1..Len(s) - 1 : (a \o b)[j] = IF j <= i - 1 THEN a[j] ELSE b[j - (i - 1)]
  <2>1. Len(a) + Len(b) = Len(s) - 1
    BY <1>1, <1>2, <1>3
  <2>2. /\ a \o b \in Seq(A) /\ Len(a \o b) = Len(a) + Len(b)
        /\ \A j \in 1..Len(a) + Len(b) : (a \o b)[j] = IF j <= Len(a) THEN a[j] ELSE b[j - Len(a)]
    BY <1>2, <1>3, ConcatProperties
  <2>3. Len(a) = i - 1
    BY <1>2
  <2> QED BY <2>1, <2>2, <2>3
<1>5. S!RemoveAt(s, i) = a \o b
  BY DEF S!RemoveAt, a, b
<1>6. ASSUME NEW j \in 1..Len(s) - 1
      PROVE  (a \o b)[j] = IF j <= i - 1 THEN s[j] ELSE s[j + 1]
  <2>1. CASE j <= i - 1
    BY <1>1, <1>2, <1>4, <2>1
  <2>2. CASE ~(j <= i - 1)
    <3>1. j - (i - 1) \in 1..Len(s) - i /\ i + (j - (i - 1)) = j + 1
      BY <1>1, <2>2
    <3> QED BY <1>3, <1>4, <2>2, <3>1
  <2> QED BY <2>1, <2>2
<1>7. \A j \in 1..Len(s) - 1 : j \in 1..Len(s) /\ j + 1 \in 1..Len(s) /\ ~(j <= 1 - 1)
  BY <1>1
<1> QED BY <1>4, <1>5, <1>6, <1>7

(* Names and keys only grow, so a copy stays of known names and used keys. *)
LEMMA OfLater ==
  ASSUME NEW table, NEW names, NEW more, NEW keys, NEW moreKeys, NEW time, Of(table, names, keys, time),
         names \subseteq more, keys \subseteq moreKeys
  PROVE  Of(table, more, moreKeys, time)
BY DEF Of

(* The table is replaced and handed over. *)
LEMMA SaveKeepsTables ==
  ASSUME Tables, KnownNames \subseteq KnownNames', UsedKeys \subseteq UsedKeys', phase' \in {"down", "ready"},
         NEW table \in S!SessionTable, S!Save(table), Of(table, KnownNames', UsedKeys', now),
         UNCHANGED <<now, file>>, leaving' \subseteq Tokens,
         lastUse' \in [Tokens -> 0..MaxTime \cup {None}]
  PROVE  Tables'
<1>0. S!SessionsTypeOK /\ writes \in Seq(S!SessionTable)
  BY DEF Tables, S!SessionsTypeOK
<1>1. /\ sessions' = table
      /\ writes' \in Seq(S!SessionTable) /\ Len(writes') = Len(writes) + 1 /\ Len(writes) \in Nat
      /\ \A i \in 1..Len(writes) : writes'[i] = writes[i]
      /\ writes'[Len(writes')] = table
  BY <1>0 DEF S!Save
<1>2. S!SessionsTypeOK'
  BY <1>0, <1>1 DEF S!SessionsTypeOK
<1>3. Of(file, KnownNames', UsedKeys', now)
  BY OfLater DEF Tables
<1>4. ASSUME NEW i \in 1..Len(writes') PROVE Of(writes'[i], KnownNames', UsedKeys', now)
  <2>1. CASE i \in 1..Len(writes)
    BY <1>1, <2>1, OfLater DEF Tables
  <2>2. CASE i = Len(writes')
    BY <1>1, <2>2
  <2> QED BY <1>1, <2>1, <2>2
<1> QED BY <1>1, <1>2, <1>3, <1>4 DEF Tables

LEMMA QuietKeepsTables ==
  ASSUME Tables, KnownNames \subseteq KnownNames', UsedKeys \subseteq UsedKeys', phase' \in {"down", "ready"},
         UNCHANGED <<now, sessions, file, writes>>, leaving' \subseteq Tokens,
         lastUse' \in [Tokens -> 0..MaxTime \cup {None}]
  PROVE  Tables'
<1>1. S!SessionsTypeOK'
  BY DEF Tables, S!SessionsTypeOK
<1>2. Of(sessions, KnownNames', UsedKeys', now) /\ Of(file, KnownNames', UsedKeys', now)
  BY OfLater DEF Tables
<1>3. \A i \in 1..Len(writes) : Of(writes[i], KnownNames', UsedKeys', now)
  BY OfLater DEF Tables
<1> QED BY <1>1, <1>2, <1>3 DEF Tables

(* What a new session changes. *)
LEMMA CreateFacts ==
  ASSUME Tables, NEW t \in Tokens, NEW n \in Users, S!CreateSession(t, n)
  PROVE  /\ sessions' \in S!SessionTable /\ S!Save(sessions')
         /\ sessions'[S!Key(t)] = [user |-> n, exp |-> now + TTL]
         /\ \A k \in S!Keys \ {S!Key(t)} : sessions'[k] = sessions[k]
         /\ lastUse[t] = None /\ lastUse'[t] = now
         /\ \A s \in Tokens \ {t} : lastUse'[s] = lastUse[s]
         /\ lastUse' \in [Tokens -> 0..MaxTime \cup {None}]
         /\ UNCHANGED <<now, file, leaving>>
<1>1. now \in 0..MaxTime /\ now \in Nat /\ MaxTime \in Nat /\ TTL \in Nat
  BY AccountsAssumption DEF Tables, S!SessionsTypeOK
<1>2. now + TTL \in 0..MaxTime + TTL
  BY <1>1
<1> DEFINE e == [user |-> n, exp |-> now + TTL]
<1>3. e \in S!Session
  BY <1>2 DEF S!Session
<1> HIDE DEF e
<1>4. sessions' = [sessions EXCEPT ![S!Key(t)] = e] /\ S!Save(sessions')
  BY DEF S!CreateSession, S!Save, e
<1>5. /\ sessions' \in S!SessionTable /\ sessions'[S!Key(t)] = e
      /\ \A k \in S!Keys \ {S!Key(t)} : sessions'[k] = sessions[k]
  BY <1>3, <1>4, SessionKeys DEF Tables, S!SessionsTypeOK, S!SessionTable
<1>6. /\ lastUse[t] = None /\ lastUse' = [lastUse EXCEPT ![t] = now] /\ UNCHANGED <<now, file, leaving>>
  BY DEF S!CreateSession
<1>7. lastUse \in [Tokens -> 0..MaxTime \cup {None}]
  BY DEF Tables, S!SessionsTypeOK
<1> QED BY <1>1, <1>4, <1>5, <1>6, <1>7 DEF e

LEMMA CreateKeepsTables ==
  ASSUME Tables, KnownNames \subseteq KnownNames', phase' \in {"down", "ready"},
         NEW t \in Tokens, NEW n \in KnownNames', n \in Users, S!CreateSession(t, n)
  PROVE  Tables'
<1>0. UsedKeys \subseteq UsedKeys' /\ S!Key(t) \in UsedKeys'
  <2>1. now # None
    BY AccountsAssumption DEF Tables, S!SessionsTypeOK
  <2>2. \A s \in Tokens : (lastUse[s] # None => lastUse'[s] # None) /\ lastUse'[t] # None
    BY <2>1, CreateFacts
  <2> QED BY <2>2 DEF UsedKeys
<1>1. Of(sessions', KnownNames', UsedKeys', now)
  <2> SUFFICES ASSUME NEW k \in S!Keys, sessions'[k] # None
               PROVE  sessions'[k].user \in KnownNames' /\ sessions'[k].exp = now + TTL /\ k \in UsedKeys'
    BY DEF Of
  <2>1. CASE k = S!Key(t)
    <3>1. sessions'[k] = [user |-> n, exp |-> now + TTL]
      BY <2>1, CreateFacts
    <3> QED BY <1>0, <2>1, <3>1
  <2>2. CASE k # S!Key(t)
    BY <1>0, <2>2, CreateFacts DEF Tables, Of
  <2> QED BY <2>1, <2>2
<1> QED BY <1>0, <1>1, CreateFacts, SaveKeepsTables DEF Tables, S!SessionsTypeOK

(* A use of a session changes nothing but the time of its last use. *)
LEMMA ResolveFacts ==
  ASSUME Tables, NEW t \in Tokens, S!ResolveSession(t)
  PROVE  /\ UNCHANGED <<now, sessions, writes, file, leaving>>
         /\ lastUse' \in [Tokens -> 0..MaxTime \cup {None}]
         /\ \A s \in Tokens : lastUse[s] # None => lastUse'[s] # None
<1>1. now \in 0..MaxTime /\ now \in Nat /\ TTL \in Nat \ {0} /\ now # None
  BY AccountsAssumption DEF Tables, S!SessionsTypeOK
<1>2. /\ S!Key(t) \in S!Keys /\ sessions[S!Key(t)] # None
      /\ sessions \in S!SessionTable /\ sessions[S!Key(t)] \in S!Session
      /\ sessions[S!Key(t)].exp = now + TTL
  BY SessionKeys DEF Tables, S!SessionsTypeOK, S!SessionTable, S!ResolveSession, Of
<1>3. ~S!Expired(sessions[S!Key(t)])
  BY <1>1, <1>2 DEF S!Expired
<1>4. sessions' = [sessions EXCEPT ![S!Key(t)] = [@ EXCEPT !.exp = now + TTL]]
  BY <1>2, <1>3 DEF S!ResolveSession, S!SessionTable
<1>5. [sessions[S!Key(t)] EXCEPT !.exp = now + TTL] = sessions[S!Key(t)]
  BY <1>2 DEF S!Session
<1>6. sessions' = sessions
  BY <1>2, <1>4, <1>5 DEF S!SessionTable
<1>7. lastUse' = [lastUse EXCEPT ![t] = now] /\ lastUse \in [Tokens -> 0..MaxTime \cup {None}]
  BY <1>3 DEF S!ResolveSession, Tables, S!SessionsTypeOK
<1> QED BY <1>1, <1>6, <1>7 DEF S!ResolveSession

(* Sessions are taken out of the table. *)
LEMMA DestroyFacts ==
  ASSUME Tables, NEW ks \in SUBSET S!Keys, S!Destroy(ks)
  PROVE  /\ UNCHANGED <<now, file, lastUse>>
         /\ sessions' \in S!SessionTable
         /\ S!Save(sessions') \/ UNCHANGED <<sessions, writes>>
         /\ \A k \in S!Keys : sessions'[k] = IF k \in ks THEN None ELSE sessions[k]
<1>0. sessions \in S!SessionTable
  BY DEF Tables, S!SessionsTypeOK
<1>1. CASE ks = {}
  BY <1>0, <1>1 DEF S!Destroy
<1>2. CASE ks # {}
  <2>1. S!Save(S!Without(sessions, ks)) /\ sessions' = S!Without(sessions, ks)
    BY <1>2 DEF S!Destroy, S!Save
  <2> QED BY <1>0, <2>1 DEF S!Destroy, S!Without, S!SessionTable
<1> QED BY <1>1, <1>2

LEMMA DestroyKeepsTables ==
  ASSUME Tables, KnownNames \subseteq KnownNames', phase' \in {"down", "ready"},
         NEW ks \in SUBSET S!Keys, S!Destroy(ks), leaving' \subseteq Tokens
  PROVE  Tables'
<1>0. lastUse \in [Tokens -> 0..MaxTime \cup {None}]
  BY DEF Tables, S!SessionsTypeOK
<1>u. UsedKeys' = UsedKeys
  BY DestroyFacts DEF UsedKeys
<1>1. Of(sessions', KnownNames', UsedKeys', now)
  BY <1>u, DestroyFacts DEF Tables, Of
<1>2. CASE S!Save(sessions')
  BY <1>0, <1>u, <1>1, <1>2, DestroyFacts, SaveKeepsTables
<1>3. CASE UNCHANGED <<sessions, writes>>
  BY <1>0, <1>u, <1>3, DestroyFacts, QuietKeepsTables
<1> QED BY <1>2, <1>3, DestroyFacts

LEMMA InvalidateFacts ==
  ASSUME Tables, NEW n, NEW except, except \in Tokens \cup {None},
         S!InvalidateSessions(n, except)
  PROVE  /\ S!Destroy(S!KeysOf(sessions, n)) /\ S!KeysOf(sessions, n) \subseteq S!Keys
<1>1. {k \in S!KeysOf(sessions, n) : k # except} = S!KeysOf(sessions, n)
  BY AccountsAssumption DEF S!KeysOf
<1> QED BY <1>1 DEF S!InvalidateSessions, S!KeysOf

(* A restart restores an entry as it is in the file, unless its user is gone. *)
LEMMA RestoredFacts ==
  ASSUME S!SessionsTypeOK, Of(file, KnownNames, UsedKeys, now), NEW names, NEW k \in S!Keys
  PROVE  /\ S!Restored(file[k], names) = None \/ S!Restored(file[k], names) = file[k]
         /\ file[k] # None /\ file[k].user \in names => S!Restored(file[k], names) = file[k]
<1>1. now \in Nat /\ TTL \in Nat \ {0}
  BY AccountsAssumption DEF S!SessionsTypeOK
<1> SUFFICES ASSUME file[k] # None, file[k].user \in names
             PROVE  S!Restored(file[k], names) = file[k]
  BY DEF S!Restored
<1>2. file[k] \in S!Session /\ file[k].exp = now + TTL
  BY DEF Of, S!SessionsTypeOK, S!SessionTable
<1>3. ~(file[k].exp <= now) /\ ~(file[k].exp < now + TTL)
  BY <1>1, <1>2
<1>4. S!Restored(file[k], names) = [file[k] EXCEPT !.exp = now + TTL]
  BY <1>3 DEF S!Restored
<1> QED BY <1>2, <1>4 DEF S!Session

(* Calls that neither create nor delete are made on known names. *)
TouchesAreOfKnown == \A n \in Users : Pending(n, "touch") => n \in KnownNames

LEMMA MapHoldsKnown ==
  ASSUME IInv, phase = "ready", NEW n \in Users, users[n] # None
  PROVE  n \in KnownNames
BY DEF IInv, TombstonesKnown, KnownAreLive, KnownNames

LEMMA TouchesKept ==
  ASSUME IInv, TouchesAreOfKnown, [Next]_storeVars
  PROVE  TouchesAreOfKnown'
<1> SUFFICES ASSUME NEW n \in Users, Pending(n, "touch")' PROVE n \in KnownNames'
  BY DEF TouchesAreOfKnown
<1> SUFFICES Pending(n, "touch") \/ n \in KnownNames
  BY NamesStay DEF TouchesAreOfKnown
<1>0. TypeOK /\ CreatesBeforeDeletes
  BY DEF IInv
<1>1. CASE Boot \/ InitFails \/ RejectRetire \/ UNCHANGED storeVars
  BY <1>1 DEF Boot, InitFails, RejectRetire, storeVars, Pending
<1>2. ~Crash
  BY DEF Crash, Pending
<1>3. ASSUME NEW m \in Users, NEW who \in Users, DeleteUser(who, m) PROVE Pending(n, "touch")
  BY <1>3 DEF DeleteUser, Pending
<1>4. ASSUME NEW m \in Users, Request(m), ~\E who \in Users : DeleteUser(who, m)
      PROVE  Pending(n, "touch") \/ n \in KnownNames
  <2>1. PICK call \in Call :
           /\ Send(m, call) /\ call.op # "delete"
           /\ call.op = "create" \/ users[m] # None \/ m \in retiredUsers
    BY <1>4, RequestSends
  <2>2. phase = "ready"
    BY <1>4 DEF Request, DeleteUser, SetRole, CreateUser, Register, ChangePassword, ResetPassword, Touch
  <2>3. Pending(n, "touch") \/ (n = m /\ call.op = "touch")
    BY <1>0, <2>1, SendKeepsPending
  <2>4. retiredUsers \subseteq KnownNames
    BY <1>0, <2>2 DEF IInv, TombstonesKnown, KnownNames, TypeOK
  <2> QED BY <2>1, <2>2, <2>3, <2>4, MapHoldsKnown
<1>5. ASSUME NEW m \in Users, Finish(m) \/ RejectCall(m) PROVE Pending(n, "touch")
  <2>1. \E op : Take(m, op)
    BY <1>0, <1>5, RejectFacts
    DEF Finish, FinishCreate, FinishSetRole, FinishSetPassword, FinishTouch, FinishDelete
  <2> QED BY <1>0, <2>1, TakeKeepsOrder
<1>6. CASE FinishRetire
  <2>1. Head(retiring) \in Users /\ [op |-> "delete"] \in Call /\ Send(Head(retiring), [op |-> "delete"])
    BY <1>0, <1>6 DEF FinishRetire, TypeOK, Call
  <2>2. [op |-> "delete"].op # "touch"
    OBVIOUS
  <2> QED BY <1>0, <2>1, <2>2, SendKeepsPending
<1> QED BY <1>1, <1>2, <1>3, <1>4, <1>5, <1>6 DEF Next

-----------------------------------------------------------------------------
(* The invariant of the two tables.                                         *)
Requests ==
  /\ changing \subseteq [user : Users, token : Tokens]
  /\ joining \subseteq KnownNames
  /\ verifying \subseteq Users
  /\ raced \cup overtaken \subseteq Users
  /\ outdated \subseteq Tokens

AccountsInv == IInv /\ Tables /\ RetiredAreOut /\ TouchesAreOfKnown /\ Requests

(* The change of a password is of a user, by one of its tokens or by none. *)
LEMMA SetPasswordFacts ==
  ASSUME IInv, NEW n \in Users, FinishSetPassword(n)
  PROVE  Head(calls[n]).via \in Tokens \cup {None}
<1>1. TypeOK /\ Take(n, "setPassword")
  BY DEF IInv, FinishSetPassword
<1> QED BY <1>1, TakeFacts DEF Call

LEMMA UsedStay ==
  ASSUME Tables, Requests, [AccountsNext]_vars
  PROVE  UsedKeys \subseteq UsedKeys'
<1> SUFFICES \A s \in Tokens : lastUse[s] # None => lastUse'[s] # None
  BY DEF UsedKeys
<1>1. ASSUME NEW t \in Tokens, NEW n \in Users, S!CreateSession(t, n)
      PROVE  \A s \in Tokens : lastUse[s] # None => lastUse'[s] # None
  BY <1>1, CreateFacts
<1>2. ASSUME NEW t \in Tokens, S!DestroySession(t) PROVE lastUse' = lastUse
  BY <1>2 DEF S!DestroySession, S!Destroy
<1>3. ASSUME NEW n, NEW e, S!InvalidateSessions(n, e) PROVE lastUse' = lastUse
  BY <1>3 DEF S!InvalidateSessions, S!Destroy
<1>4. CASE Start \/ StartFails \/ Stop \/ FileWritten \/ AnswerRetire \/ RetireRejected \/ UNCHANGED vars
  BY <1>4 DEF Start, StartFails, S!LoadSessions, Stop, S!LoseProcess, FileWritten, S!WriteLands, AnswerRetire,
              RetireRejected, vars, tableVars
<1>5. ASSUME NEW n \in Users,
             \/ PasskeyLogin(n) \/ PasskeyVerified(n) \/ PasskeyRefused(n)
             \/ Join(n) \/ AnswerCreate(n) \/ AnswerSetRole(n) \/ JoinFails(n) \/ CallRejected(n)
      PROVE  lastUse' = lastUse
  BY <1>5 DEF PasskeyLogin, PasskeyVerified, PasskeyRefused, Join, AnswerCreate, AnswerSetRole, JoinFails,
              CallRejected, tableVars
<1>6. ASSUME NEW n \in Users, AnswerSetPassword(n) \/ AnswerDelete(n) PROVE lastUse' = lastUse
  BY <1>3, <1>6 DEF AnswerSetPassword, AnswerDelete, tableVars
<1>7. ASSUME NEW c \in changing, EndChange(c) PROVE lastUse' = lastUse
  BY <1>3, <1>7 DEF EndChange
<1>8. ASSUME NEW t \in Tokens, RpcOfMissingUser(t) \/ Logout(t) \/ LogoutDone(t) PROVE lastUse' = lastUse
  BY <1>2, <1>8 DEF RpcOfMissingUser, Logout, S!Logout, LogoutDone, S!LogoutDone
<1>9. ASSUME NEW t \in Tokens, Rpc(t) PROVE \A s \in Tokens : lastUse[s] # None => lastUse'[s] # None
  BY <1>9, ResolveFacts DEF Rpc
<1>10. ASSUME NEW t \in Tokens, NEW n \in Users, PasswordLogin(t, n) \/ AnswerPasskeyLogin(n, t) \/ AnswerJoin(n, t)
       PROVE  \A s \in Tokens : lastUse[s] # None => lastUse'[s] # None
  BY <1>1, <1>10 DEF PasswordLogin, AnswerPasskeyLogin, AnswerJoin
<1> QED BY <1>4, <1>5, <1>6, <1>7, <1>8, <1>9, <1>10 DEF AccountsNext

LEMMA TablesKept ==
  ASSUME AccountsInv, [AccountsNext]_vars
  PROVE  Tables'
<1>0. /\ IInv /\ Tables /\ Requests /\ TouchesAreOfKnown
      /\ leaving \subseteq Tokens /\ lastUse \in [Tokens -> 0..MaxTime \cup {None}]
  BY DEF AccountsInv, Tables, S!SessionsTypeOK
<1>1. [Next]_storeVars
  BY <1>0, StoreStep DEF Tables
<1>2. /\ IInv' /\ phase' \in {"down", "ready"}
      /\ KnownNames \subseteq KnownNames' /\ UsedKeys \subseteq UsedKeys'
  BY <1>0, <1>1, NextIInv, NamesStay, UsedStay DEF IInv, TypeOK
<1>3. CASE UNCHANGED tableVars
  BY <1>0, <1>2, <1>3, QuietKeepsTables DEF tableVars
<1>4. ASSUME NEW t \in Tokens, NEW n \in Users, PasswordLogin(t, n) PROVE Tables'
  <2>1. n \in KnownNames
    BY <1>0, <1>4, MapHoldsKnown DEF PasswordLogin, S!CanWrite
  <2> QED BY <1>0, <1>2, <1>4, <2>1, CreateKeepsTables DEF PasswordLogin
<1>5. ASSUME NEW t \in Tokens, NEW n \in Users, AnswerPasskeyLogin(n, t) PROVE Tables'
  <2>1. n \in KnownNames
    <3>1. Take(n, "touch")
      BY <1>5 DEF AnswerPasskeyLogin, FinishTouch
    <3>2. TypeOK
      BY <1>0 DEF IInv
    <3>3. 1 \in 1..Len(calls[n]) /\ calls[n][1].op = "touch"
      BY <3>1, <3>2, TakeFacts
    <3> QED BY <1>0, <3>3 DEF TouchesAreOfKnown, Pending
  <2> QED BY <1>0, <1>2, <1>5, <2>1, CreateKeepsTables DEF AnswerPasskeyLogin
<1>6. ASSUME NEW t \in Tokens, NEW n \in Users, AnswerJoin(n, t) PROVE Tables'
  BY <1>0, <1>2, <1>6, CreateKeepsTables DEF AnswerJoin, Requests
<1>7. ASSUME NEW t \in Tokens, S!ResolveSession(t) PROVE Tables'
  BY <1>0, <1>2, <1>7, ResolveFacts, QuietKeepsTables
<1>8. ASSUME NEW ks \in SUBSET S!Keys, S!Destroy(ks), leaving' \subseteq Tokens PROVE Tables'
  BY <1>0, <1>2, <1>8, DestroyKeepsTables
<1>9. ASSUME NEW n, NEW except \in Tokens \cup {None}, S!InvalidateSessions(n, except), leaving' = leaving
      PROVE  Tables'
  BY <1>0, <1>8, <1>9, InvalidateFacts
<1>10. ASSUME NEW t \in Tokens, S!DestroySession(t), leaving' \subseteq Tokens PROVE Tables'
  BY <1>8, <1>10, SessionKeys DEF S!DestroySession
<1>11. ASSUME NEW t \in Tokens, RpcOfMissingUser(t) \/ LogoutDone(t) PROVE Tables'
  BY <1>0, <1>10, <1>11 DEF RpcOfMissingUser, LogoutDone, S!LogoutDone
<1>12. ASSUME NEW t \in Tokens, Logout(t) PROVE Tables'
  <2>1. UNCHANGED <<now, sessions, file, writes, lastUse>> /\ leaving' \subseteq Tokens
    BY <1>0, <1>12 DEF Logout, S!Logout
  <2> QED BY <1>0, <1>2, <2>1, QuietKeepsTables
<1>13. ASSUME NEW n \in Users, AnswerDelete(n) PROVE Tables'
  BY <1>9, <1>13 DEF AnswerDelete
<1>14. ASSUME NEW n \in Users, AnswerSetPassword(n) PROVE Tables'
  BY <1>3, <1>9, <1>14 DEF AnswerSetPassword
<1>15. ASSUME NEW c \in changing, EndChange(c) PROVE Tables'
  BY <1>0, <1>9, <1>15 DEF EndChange, Requests
<1>16. CASE FileWritten
  <2>1. PICK i \in 1..Len(writes) : /\ file' = writes[i] /\ writes' = S!RemoveAt(writes, i)
                                    /\ UNCHANGED <<now, sessions, leaving, lastUse>>
    BY <1>16 DEF FileWritten, S!Completable, S!WriteLands
  <2>2. writes \in Seq(S!SessionTable) /\ writes[i] \in S!SessionTable
    BY <1>0, ElementOfSeq DEF Tables, S!SessionsTypeOK
  <2>3. S!SessionsTypeOK'
    BY <1>0, <2>1, <2>2, Without1 DEF Tables, S!SessionsTypeOK
  <2>4. \A j \in 1..Len(writes) : Of(writes[j], KnownNames', UsedKeys', now)
    BY <1>0, <1>2, OfLater DEF Tables
  <2>5. \A j \in 1..Len(writes') : Of(writes'[j], KnownNames', UsedKeys', now)
    BY <2>1, <2>2, <2>4, Without1
  <2>6. Of(sessions, KnownNames', UsedKeys', now)
    BY <1>0, <1>2, OfLater DEF Tables
  <2> QED BY <2>1, <2>3, <2>4, <2>5, <2>6 DEF Tables
<1>17. CASE Start
  <2>1. /\ sessions' = [k \in S!Keys |-> S!Restored(file[k], {n \in Users : users'[n] # None})]
        /\ UNCHANGED <<now, writes, file, leaving, lastUse>>
    BY <1>17 DEF Start, S!LoadSessions
  <2>2. \A k \in S!Keys : sessions'[k] = None \/ sessions'[k] = file[k]
    BY <1>0, <2>1, RestoredFacts DEF Tables
  <2>3. sessions' \in S!SessionTable
    BY <1>0, <2>1, <2>2 DEF Tables, S!SessionsTypeOK, S!SessionTable
  <2>4. S!SessionsTypeOK'
    BY <1>0, <2>1, <2>3 DEF Tables, S!SessionsTypeOK
  <2>5. Of(file, KnownNames', UsedKeys', now) /\ \A j \in 1..Len(writes) : Of(writes[j], KnownNames', UsedKeys', now)
    BY <1>0, <1>2, OfLater DEF Tables
  <2>6. Of(sessions', KnownNames', UsedKeys', now)
    BY <2>2, <2>5 DEF Of
  <2> QED BY <2>1, <2>4, <2>5, <2>6 DEF Tables
<1>18. CASE Stop
  <2>1. /\ sessions' = S!NoSessions /\ writes' = <<>> /\ leaving' = {} /\ UNCHANGED <<now, lastUse>>
        /\ file' = file \/ file' = S!NoSessions
    BY <1>18 DEF Stop, S!LoseProcess
  <2>2. S!NoSessions \in S!SessionTable /\ Of(S!NoSessions, KnownNames', UsedKeys', now)
    BY DEF S!NoSessions, S!SessionTable, Of
  <2>3. file' \in S!SessionTable /\ writes' \in Seq(S!SessionTable) /\ leaving' \subseteq Tokens
    BY <1>0, <2>1, <2>2 DEF Tables, S!SessionsTypeOK
  <2>4. S!SessionsTypeOK'
    BY <1>0, <2>1, <2>2, <2>3 DEF Tables, S!SessionsTypeOK
  <2>5. Of(file', KnownNames', UsedKeys', now)
    BY <1>0, <1>2, <2>1, <2>2, OfLater DEF Tables
  <2> QED BY <2>1, <2>2, <2>4, <2>5 DEF Tables
<1>19. ASSUME NEW n \in Users,
              \/ PasskeyLogin(n) \/ PasskeyVerified(n) \/ PasskeyRefused(n)
              \/ Join(n) \/ AnswerCreate(n) \/ AnswerSetRole(n) \/ JoinFails(n) \/ CallRejected(n)
       PROVE  Tables'
  BY <1>3, <1>19 DEF PasskeyLogin, PasskeyVerified, PasskeyRefused, Join, AnswerCreate, AnswerSetRole,
                     JoinFails, CallRejected
<1>20. CASE StartFails \/ AnswerRetire \/ RetireRejected \/ UNCHANGED vars
  BY <1>3, <1>20 DEF StartFails, AnswerRetire, RetireRejected, vars
<1>21. ASSUME NEW t \in Tokens, Rpc(t) PROVE Tables'
  BY <1>7, <1>21 DEF Rpc
<1> QED BY <1>4, <1>5, <1>6, <1>11, <1>12, <1>13, <1>14, <1>15, <1>16, <1>17, <1>18, <1>19, <1>20, <1>21
        DEF AccountsNext

LEMMA AccountsInitInv == AccountsInit => AccountsInv
<1> SUFFICES ASSUME AccountsInit PROVE AccountsInv
  OBVIOUS
<1>1. IInv /\ phase = "down" /\ retiredDisk = {} /\ \A n \in Users : calls[n] = <<>>
  BY InitIInv DEF AccountsInit, Init
<1>2. /\ now \in 0..MaxTime /\ S!NoSessions \in S!SessionTable /\ writes = <<>>
      /\ writes \in Seq(S!SessionTable)
  BY AccountsAssumption DEF AccountsInit, S!NoSessions, S!SessionTable
<1>3. S!SessionsTypeOK
  BY <1>2 DEF AccountsInit, S!SessionsTypeOK
<1>4. Of(sessions, KnownNames, UsedKeys, now) /\ Of(file, KnownNames, UsedKeys, now)
  BY DEF AccountsInit, S!NoSessions, Of
<1>5. Tables
  BY <1>2, <1>3, <1>4 DEF Tables
<1>6. RetiredAreOut /\ TouchesAreOfKnown
  BY <1>1 DEF RetiredAreOut, TouchesAreOfKnown, Pending
<1> QED BY <1>1, <1>5, <1>6 DEF AccountsInv, AccountsInit, Requests

LEMMA RequestsKept ==
  ASSUME AccountsInv, [AccountsNext]_vars
  PROVE  Requests'
<1>0. Requests /\ IInv /\ Tables /\ S!SessionsTypeOK /\ TypeOK
  BY DEF AccountsInv, Tables, IInv
<1>1. KnownNames \subseteq KnownNames'
  BY <1>0, StoreStep, NamesStay
<1>2. ASSUME changing' = changing, verifying' = verifying, joining' \subseteq KnownNames', raced' = raced, overtaken' = overtaken,
             outdated' \subseteq Tokens
      PROVE  Requests'
  BY <1>0, <1>2 DEF Requests
<1>3. joining \subseteq KnownNames'
  BY <1>0, <1>1 DEF Requests
<1>4. ASSUME NEW n \in Users, AnswerCreate(n) PROVE Requests'
  <2>1. disk[n] = None => n \in KnownNames' \/ joining' = joining
    <3>1. CASE disk[n] = None
      <4>1. Take(n, "create") /\ disk' = [disk EXCEPT ![n] = Head(calls[n]).rec]
        BY <1>4, <3>1 DEF AnswerCreate, FinishCreate, Write
      <4>2. Head(calls[n]).rec \in Record
        BY <1>0, <4>1, TakeFacts DEF Call
      <4>3. disk'[n] # None
        BY <1>0, <4>1, <4>2, UserStoreAssumption DEF TypeOK
      <4> QED BY <4>3 DEF KnownNames, Live
    <3> QED BY <3>1
  <2>2. joining' \subseteq KnownNames'
    BY <1>3, <1>4, <2>1 DEF AnswerCreate
  <2> QED BY <1>0, <1>2, <1>4, <2>2 DEF AnswerCreate, history, Requests
<1>5. ASSUME NEW n \in Users, AnswerSetPassword(n) PROVE Requests'
  <2>1. /\ UNCHANGED <<joining, verifying, raced>> /\ outdated' \subseteq Tokens /\ overtaken' \subseteq Users
        /\ FinishSetPassword(n)
    BY <1>0, <1>5 DEF AnswerSetPassword, PasswordWritten, Requests
  <2>2. changing' = changing \/ (changing' = changing \cup {[user |-> n, token |-> Head(calls[n]).via]} /\ Head(calls[n]).via # None)
    BY <1>5 DEF AnswerSetPassword
  <2>3. changing' \subseteq [user : Users, token : Tokens]
    BY <1>0, <2>1, <2>2, SetPasswordFacts DEF Requests
  <2> QED BY <1>0, <1>3, <2>1, <2>3 DEF Requests
<1>6. ASSUME NEW n \in Users, NEW t \in Tokens, AnswerJoin(n, t) PROVE Requests'
  BY <1>0, <1>2, <1>3, <1>6 DEF AnswerJoin, Requests
<1>7. CASE AnswerRetire
  <2>1. Head(retiring) \in Users
    BY <1>0, <1>7 DEF AnswerRetire, FinishRetire, TypeOK
  <2> QED BY <1>0, <1>3, <1>7, <2>1 DEF AnswerRetire, requests, Requests
<1>8. CASE Stop
  BY <1>0, <1>8 DEF Stop, Requests
<1>9. ASSUME NEW c \in changing, EndChange(c) PROVE Requests'
  BY <1>0, <1>3, <1>9 DEF EndChange, history, Requests
<1>10. ASSUME NEW n \in Users, JoinFails(n) PROVE Requests'
  BY <1>0, <1>2, <1>3, <1>10 DEF JoinFails, history, Requests
<1>11. ASSUME UNCHANGED <<changing, joining, history>>, verifying' \subseteq Users PROVE Requests'
  BY <1>0, <1>3, <1>11 DEF history, Requests
<1>12. ASSUME NEW n \in Users,
              \/ Join(n) \/ AnswerSetRole(n) \/ AnswerDelete(n) \/ CallRejected(n)
              \/ PasskeyLogin(n) \/ PasskeyVerified(n) \/ PasskeyRefused(n)
              \/ \E t \in Tokens : PasswordLogin(t, n) \/ AnswerPasskeyLogin(n, t)
       PROVE  Requests'
  <2>1. UNCHANGED <<changing, joining, history>>
    BY <1>12 DEF Join, AnswerSetRole, AnswerDelete, CallRejected, PasskeyLogin, PasskeyVerified, PasskeyRefused,
                 PasswordLogin, AnswerPasskeyLogin, requests
  <2>2. \/ verifying' = verifying \/ verifying' = verifying \cup {n} \/ verifying' = verifying \ {n}
    BY <1>12 DEF Join, AnswerSetRole, AnswerDelete, CallRejected, PasskeyLogin, PasskeyVerified, PasskeyRefused,
                 PasswordLogin, AnswerPasskeyLogin, requests
  <2> QED BY <1>0, <1>11, <2>1, <2>2 DEF Requests
<1>13. ASSUME NEW t \in Tokens, Rpc(t) \/ RpcOfMissingUser(t) \/ Logout(t) \/ LogoutDone(t)
       PROVE  Requests'
  BY <1>0, <1>11, <1>13 DEF Rpc, RpcOfMissingUser, Logout, LogoutDone, requests, Requests
<1>14. CASE Start \/ StartFails \/ FileWritten \/ RetireRejected \/ UNCHANGED vars
  <2>1. CASE Start \/ StartFails \/ RetireRejected \/ UNCHANGED vars
    BY <1>0, <1>11, <2>1 DEF Start, StartFails, RetireRejected, requests, vars, Requests
  <2>2. CASE FileWritten
    BY <1>0, <1>3, <2>2 DEF FileWritten, requests, Requests
  <2> QED BY <1>14, <2>1, <2>2
<1> QED BY <1>4, <1>5, <1>6, <1>7, <1>8, <1>9, <1>10, <1>11, <1>12, <1>13, <1>14 DEF AccountsNext

LEMMA AccountsNextInv == AccountsInv /\ [AccountsNext]_vars => AccountsInv'
<1> SUFFICES ASSUME AccountsInv, [AccountsNext]_vars PROVE AccountsInv'
  OBVIOUS
<1>1. IInv /\ Tables /\ RetiredAreOut /\ TouchesAreOfKnown /\ S!SessionsTypeOK
  BY DEF AccountsInv, Tables
<1>2. [Next]_storeVars
  BY <1>1, StoreStep
<1>3. raced \subseteq raced' \/ phase' = "down"
  <2>1. CASE Stop
    BY <2>1 DEF Stop, Crash
  <2>2. CASE AnswerRetire
    BY <2>2 DEF AnswerRetire
  <2>3. ASSUME ~Stop, ~AnswerRetire PROVE raced' = raced
    BY <2>3 DEF AccountsNext, vars, history, Start, StartFails, CallRejected, RetireRejected, PasswordLogin,
                PasskeyLogin, PasskeyVerified, PasskeyRefused, Join, Rpc, RpcOfMissingUser, Logout,
                LogoutDone, AnswerCreate, AnswerSetRole, AnswerJoin, JoinFails, AnswerPasskeyLogin,
                AnswerSetPassword, PasswordWritten, EndChange, AnswerDelete, FileWritten
  <2> QED BY <2>1, <2>2, <2>3
<1>4. FinishRetire => calls[Head(retiring)] = <<>> \/ Head(retiring) \in raced'
  <2> SUFFICES ASSUME FinishRetire PROVE calls[Head(retiring)] = <<>> \/ Head(retiring) \in raced'
    OBVIOUS
  <2>1. /\ retiring' = Tail(retiring) /\ retiring # <<>> /\ retiring \in Seq(Users) /\ phase' = phase
        /\ Head(retiring) \in Users /\ Send(Head(retiring), [op |-> "delete"])
    BY <1>1 DEF FinishRetire, IInv, TypeOK
  <2>2. Len(retiring') # Len(retiring)
    BY <2>1
  <2>3. retiring' # retiring
    BY <2>2
  <2>4. CASE AnswerRetire
    BY <2>4 DEF AnswerRetire
  <2>5. CASE ~AnswerRetire
    <3>1. phase = "ready"
      BY <1>1, <2>1 DEF IInv, DownIsEmpty, TypeOK
    <3>2. ~Start /\ ~StartFails /\ ~Stop
      BY <2>1, <3>1 DEF Start, Boot, StartFails, InitFails, Stop, Crash
    <3>a. ~RetireRejected
      <4>1. [op |-> "delete"] \in Call
        BY DEF Call
      <4>2. calls' # calls
        BY <1>1, <2>1, <4>1, SendFacts DEF IInv, TypeOK
      <4> QED BY <4>2 DEF RetireRejected, RejectRetire
    <3>3. \E t \in Tokens : Rpc(t)
      <4>1. ASSUME NEW n \in Users, PasskeyVerified(n) \/ Join(n) \/ CallRejected(n) PROVE FALSE
        BY <2>3, <4>1 DEF PasskeyVerified, Touch, Join, Register, CallRejected, RejectCall
      <4>2. ASSUME NEW n \in Users,
                   \/ AnswerCreate(n) \/ AnswerSetRole(n) \/ AnswerSetPassword(n) \/ AnswerDelete(n)
                   \/ \E t \in Tokens : AnswerPasskeyLogin(n, t)
            PROVE  FALSE
        BY <2>3, <4>2 DEF AnswerCreate, FinishCreate, AnswerSetRole, FinishSetRole, AnswerSetPassword, PasswordWritten,
             FinishSetPassword, AnswerDelete, FinishDelete, AnswerPasskeyLogin, FinishTouch
      <4>3. ASSUME UNCHANGED storeVars PROVE FALSE
        BY <2>3, <4>3 DEF storeVars
      <4> QED BY <2>5, <3>2, <3>a, <4>1, <4>2, <4>3 DEF AccountsNext, PasskeyLogin, PasskeyRefused, JoinFails, PasswordLogin, AnswerJoin,
                RpcOfMissingUser, Logout, LogoutDone, EndChange, FileWritten, vars
    <3>4. PICK t \in Tokens, n \in Users : DeleteUser(Principal(t), n)
      BY <2>3, <3>3 DEF Rpc, CreateUser, SetRole, ResetPassword, ChangePassword
    <3>5. Len(retiring') = Len(retiring) + 1
      BY <2>1, <3>4 DEF DeleteUser
    <3>6. Len(retiring') = Len(retiring) - 1 /\ Len(retiring) \in Nat
      BY <2>1
    <3> QED BY <3>5, <3>6
  <2> QED BY <2>4, <2>5
<1>5. RetiredAreOut'
  BY <1>1, <1>2, <1>3, <1>4, RetiredAreOutKept
<1> QED BY <1>1, <1>2, <1>5, NextIInv, TouchesKept, TablesKept, RequestsKept DEF AccountsInv

(* The two tables, their calls and their requests in flight fit together.   *)
THEOREM AccountsInvariant == AccountsSpec => []AccountsInv
BY AccountsInitInv, AccountsNextInv, PTL DEF AccountsSpec

(* After the deletion of a user nobody is logged in under that name, unless *)
(* another call on the record was in flight with it.                        *)
THEOREM DeletedIsOut == AccountsSpec => []DeletedUserIsOutUnlessRaced
<1>1. AccountsInv => DeletedUserIsOutUnlessRaced
  <2> SUFFICES ASSUME AccountsInv, NEW t \in Tokens, LoggedIn(t), Deleted(Principal(t)), Principal(t) \notin raced
               PROVE  FALSE
    BY DEF DeletedUserIsOutUnlessRaced
  <2>1. RetiredIsOut(Principal(t))
    BY DEF AccountsInv, RetiredAreOut, LoggedIn, Deleted
  <2> QED BY <2>1 DEF RetiredIsOut, Live, LoggedIn, Deleted
<1> QED BY <1>1, AccountsInvariant, PTL

-----------------------------------------------------------------------------
(* Passwords.  What the file will hold once the writes have landed is the   *)
(* table, but for sessions of deleted names, as long as every write has      *)
(* landed in order; a session that is older than the password of its user    *)
(* is in the table only while a request that changed the password is         *)
(* unanswered, or in the excepted case of a registration.  Writes that land  *)
(* in another order can put it in the file alone, from where only a restart  *)
(* takes it, with which `outdated' begins anew.                              *)
LatestCopy == IF writes = <<>> THEN file ELSE writes[Len(writes)]
Follows ==
  \A k \in S!Keys : \/ sessions[k] = LatestCopy[k]
                    \/ sessions[k] = None /\ LatestCopy[k].user \in SpentNames

ExcusedNames == overtaken \cup {c.user : c \in changing}
OutdatedInTable == \A t \in outdated : sessions[S!Key(t)] # None => sessions[S!Key(t)].user \in ExcusedNames
OutdatedInFile ==
  \A t \in outdated : file[S!Key(t)] # None => file[S!Key(t)].user \in overtaken \cup SpentNames

PasswordInv ==
  /\ \A t \in outdated : lastUse[t] # None
  /\ phase = "ready" => OutdatedInTable /\ (orderly => Follows)
  /\ phase = "down" => writes = <<>> /\ OutdatedInFile

LEMMA FollowsKept ==
  ASSUME Tables, Follows, SpentNames \subseteq SpentNames',
         S!Save(sessions') \/ UNCHANGED <<sessions, writes, file>>
  PROVE  Follows'
<1>1. CASE S!Save(sessions')
  <2>1. writes \in Seq(S!SessionTable) /\ writes' = Append(writes, sessions')
    BY <1>1 DEF Tables, S!SessionsTypeOK, S!Save
  <2>2. writes' # <<>> /\ writes'[Len(writes')] = sessions'
    BY <2>1
  <2> QED BY <2>2 DEF Follows, LatestCopy
<1>2. CASE UNCHANGED <<sessions, writes, file>>
  BY <1>2 DEF Follows, LatestCopy
<1> QED BY <1>1, <1>2

(* Steps while the process runs that open no session. *)
LEMMA PasswordKept ==
  ASSUME Tables, PasswordInv, SpentNames \subseteq SpentNames', phase = "ready", phase' = "ready",
         S!Save(sessions') \/ UNCHANGED <<sessions, writes, file>>,
         \A t \in Tokens : lastUse[t] # None => lastUse'[t] # None,
         outdated' \subseteq Tokens,
         \A t \in outdated' : lastUse[t] # None, orderly' = orderly,
         \A t \in outdated' : sessions'[S!Key(t)] # None => sessions'[S!Key(t)].user \in ExcusedNames'
  PROVE  PasswordInv'
BY FollowsKept DEF PasswordInv, OutdatedInTable

(* ... and that neither make a session outdated nor end an excuse. *)
LEMMA SameExcuses ==
  ASSUME Tables, PasswordInv, outdated \subseteq Tokens, SpentNames \subseteq SpentNames', phase = "ready", phase' = "ready",
         S!Save(sessions') \/ UNCHANGED <<sessions, writes, file>>,
         \A t \in Tokens : lastUse[t] # None => lastUse'[t] # None,
         UNCHANGED <<outdated, overtaken, changing, orderly>>,
         \A k \in S!Keys : sessions'[k] = None \/ sessions'[k] = sessions[k]
  PROVE  PasswordInv'
<1>1. \A t \in outdated' : sessions'[S!Key(t)] # None => sessions'[S!Key(t)].user \in ExcusedNames'
  BY SessionKeys DEF PasswordInv, OutdatedInTable, ExcusedNames
<1> QED BY <1>1, PasswordKept DEF PasswordInv

LEMMA OpenKeepsPasswords ==
  ASSUME Tables, PasswordInv, outdated \subseteq Tokens, SpentNames \subseteq SpentNames', phase = "ready", phase' = "ready",
         NEW t \in Tokens, NEW n \in Users, S!CreateSession(t, n),
         UNCHANGED <<overtaken, changing, orderly>>,
         outdated' = outdated \/ (n \in overtaken /\ outdated' = outdated \cup {t})
  PROVE  PasswordInv'
<1>1. now # None
  BY AccountsAssumption DEF Tables, S!SessionsTypeOK
<1>2. \A s \in outdated' : lastUse'[s] # None
  BY <1>1, CreateFacts DEF PasswordInv
<1>3. orderly' => Follows'
  BY CreateFacts, FollowsKept DEF PasswordInv
<1>4. ASSUME NEW s \in outdated', sessions'[S!Key(s)] # None
      PROVE  sessions'[S!Key(s)].user \in ExcusedNames'
  <2>1. CASE s = t
    <3>1. t \notin outdated
      BY CreateFacts DEF PasswordInv
    <3>2. n \in overtaken
      BY <1>4, <2>1, <3>1
    <3>3. sessions'[S!Key(s)].user = n
      <4>1. sessions'[S!Key(t)] = [user |-> n, exp |-> now + TTL]
        BY CreateFacts
      <4> QED BY <2>1, <4>1
    <3> QED BY <3>2, <3>3 DEF ExcusedNames
  <2>2. CASE s # t
    <3>1. s \in outdated /\ sessions'[S!Key(s)] = sessions[S!Key(s)]
      <4>1. s \in outdated
        BY <1>4, <2>2
      <4> QED BY <2>2, <4>1, CreateFacts, SessionKeys
    <3> QED BY <1>4, <3>1 DEF PasswordInv, OutdatedInTable, ExcusedNames
  <2> QED BY <2>1, <2>2
<1> QED BY <1>2, <1>3, <1>4 DEF PasswordInv, OutdatedInTable

(* The sessions of n end: its unanswered change may end as well. *)
LEMMA InvalidateKeepsPasswords ==
  ASSUME Tables, PasswordInv, outdated \subseteq Tokens, SpentNames \subseteq SpentNames', phase = "ready", phase' = "ready",
         NEW n, NEW except \in Tokens \cup {None}, S!InvalidateSessions(n, except), orderly' = orderly,
         \A t \in outdated' : t \in outdated \/ (t \in Tokens /\ sessions[S!Key(t)] # None /\ sessions[S!Key(t)].user = n),
         overtaken \subseteq overtaken' \cup {n},
         \A c \in changing : c.user = n \/ c \in changing',
         \A t \in outdated' : lastUse[t] # None
  PROVE  PasswordInv'
<1> DEFINE ks == S!KeysOf(sessions, n)
<1>1. S!Destroy(ks) /\ ks \in SUBSET S!Keys
  BY InvalidateFacts
<1>2. \A k \in S!Keys : k \in ks <=> sessions[k] # None /\ sessions[k].user = n
  BY DEF S!KeysOf
<1> HIDE DEF ks
<1>3. /\ UNCHANGED <<now, file, lastUse>>
      /\ S!Save(sessions') \/ UNCHANGED <<sessions, writes>>
      /\ \A k \in S!Keys : sessions'[k] = IF k \in ks THEN None ELSE sessions[k]
  BY <1>1, DestroyFacts
<1>4. ASSUME NEW t \in outdated', sessions'[S!Key(t)] # None
      PROVE  sessions'[S!Key(t)].user \in ExcusedNames'
  <2>1. t \in Tokens /\ S!Key(t) \in S!Keys
    BY SessionKeys
  <2>2. S!Key(t) \notin ks /\ sessions'[S!Key(t)] = sessions[S!Key(t)] /\ sessions[S!Key(t)].user # n
    BY <1>2, <1>3, <1>4, <2>1
  <2>3. t \in outdated
    BY <1>2, <1>4, <2>1, <2>2
  <2>4. sessions[S!Key(t)].user \in ExcusedNames
    BY <1>4, <2>2, <2>3 DEF PasswordInv, OutdatedInTable
  <2> QED BY <2>2, <2>4 DEF ExcusedNames
<1>5. outdated' \subseteq Tokens
  OBVIOUS
<1> QED BY <1>3, <1>4, <1>5, PasswordKept

LEMMA NextPasswordInv ==
  ASSUME AccountsInv, PasswordInv, [AccountsNext]_vars
  PROVE  PasswordInv'
<1>0. /\ IInv /\ Tables /\ Requests /\ TypeOK /\ S!SessionsTypeOK
      /\ outdated \subseteq Tokens
      /\ \A t \in Tokens : S!Key(t) \in S!Keys
  BY SessionKeys DEF AccountsInv, IInv, Tables, Requests
<1>1. [Next]_storeVars
  BY <1>0, StoreStep
<1>2. SpentNames \subseteq SpentNames'
  BY <1>0, <1>1, NamesStay
<1>3. Tables' /\ IInv'
  BY AccountsNextInv DEF AccountsInv
<1>4. phase # "ready" => phase = "down"
  BY <1>0 DEF TypeOK
<1>5. CASE UNCHANGED vars
  <2>1. UNCHANGED <<phase, disk, retiredDisk, sessions, writes, file, lastUse, changing, outdated, overtaken, orderly>>
    BY <1>5 DEF vars, storeVars, serviceVars, tableVars, requests, history
  <2> QED BY <2>1 DEF PasswordInv, Follows, LatestCopy, OutdatedInTable, OutdatedInFile, ExcusedNames, SpentNames, Live
<1>6. CASE Start
  <2>1. /\ phase = "down" /\ phase' = "ready" /\ users' = disk'
        /\ sessions' = [k \in S!Keys |-> S!Restored(file[k], {n \in Users : users'[n] # None})]
        /\ UNCHANGED <<writes, file, lastUse, changing, outdated, overtaken, orderly>>
    BY <1>6 DEF Start, Boot, S!LoadSessions, requests, history
  <2>2. writes = <<>> /\ OutdatedInFile
    BY <2>1 DEF PasswordInv
  <2>3. \A k \in S!Keys : /\ sessions'[k] = None \/ sessions'[k] = file[k]
                          /\ file[k] # None /\ disk'[file[k].user] # None /\ file[k].user \in Users => sessions'[k] = file[k]
    BY <1>0, <2>1, RestoredFacts DEF Tables
  <2>4. ASSUME NEW k \in S!Keys, sessions'[k] # file[k]
        PROVE  sessions'[k] = None /\ file[k].user \in SpentNames'
    <3>1. sessions'[k] = None /\ file[k] # None
      BY <2>3, <2>4
    <3>2. file[k].user \in KnownNames'
      BY <1>3, <2>1, <3>1 DEF Tables, Of
    <3>3. file[k].user \in Users /\ disk'[file[k].user] = None
      BY <2>3, <2>4, <3>1, <3>2 DEF KnownNames
    <3> QED BY <3>1, <3>2, <3>3 DEF KnownNames, SpentNames, Live
  <2>5. Follows'
    BY <2>1, <2>2, <2>4 DEF Follows, LatestCopy
  <2>6. ASSUME NEW t \in outdated', sessions'[S!Key(t)] # None
        PROVE  sessions'[S!Key(t)].user \in ExcusedNames'
    <3>1. t \in outdated /\ S!Key(t) \in S!Keys
      BY <1>0, <2>1
    <3>2. sessions'[S!Key(t)] = file[S!Key(t)] /\ file[S!Key(t)] # None
      BY <2>3, <2>6, <3>1
    <3>3. file[S!Key(t)].user \in overtaken \/ file[S!Key(t)].user \in SpentNames
      BY <2>2, <3>1, <3>2 DEF OutdatedInFile
    <3>4. CASE file[S!Key(t)].user \in SpentNames
      <4>1. disk'[file[S!Key(t)].user] = None /\ file[S!Key(t)].user \in Users
        BY <1>0, <1>2, <3>4 DEF SpentNames, Live, TypeOK
      <4>2. S!Restored(file[S!Key(t)], {n \in Users : users'[n] # None}) = None
        BY <2>1, <4>1 DEF S!Restored
      <4> QED BY <2>1, <2>6, <3>1, <4>2
    <3>5. CASE file[S!Key(t)].user \in overtaken
      <4>1. overtaken' \subseteq ExcusedNames' /\ overtaken' = overtaken
        BY <2>1 DEF ExcusedNames
      <4> QED BY <3>2, <3>5, <4>1
    <3> QED BY <3>3, <3>4, <3>5
  <2> QED BY <2>1, <2>5, <2>6 DEF PasswordInv, OutdatedInTable
<1>7. CASE Stop
  <2>1. /\ phase = "ready" /\ phase' = "down" /\ writes' = <<>> /\ lastUse' = lastUse
        /\ UNCHANGED <<disk, retiredDisk>>
        /\ file' \in IF writes = <<>> THEN {file} ELSE {file, S!NoSessions}
    BY <1>7 DEF Stop, Crash, serviceVars, S!LoseProcess
  <2>2. CASE writes = <<>> /\ changing = {} /\ orderly
    <3>1. UNCHANGED <<outdated, overtaken, file>>
      BY <1>7, <2>1, <2>2 DEF Stop
    <3>2. ASSUME NEW t \in outdated, file[S!Key(t)] # None
          PROVE  file[S!Key(t)].user \in overtaken \cup SpentNames
      <4>1. CASE sessions[S!Key(t)] = file[S!Key(t)]
        BY <2>1, <2>2, <3>2, <4>1 DEF PasswordInv, OutdatedInTable, ExcusedNames
      <4>2. CASE sessions[S!Key(t)] # file[S!Key(t)]
        BY <1>0, <2>1, <2>2, <3>2, <4>2 DEF PasswordInv, Follows, LatestCopy
      <4> QED BY <4>1, <4>2
    <3>3. SpentNames' = SpentNames
      BY <2>1 DEF SpentNames, Live
    <3> QED BY <2>1, <3>1, <3>2, <3>3 DEF PasswordInv, OutdatedInFile
  <2>3. CASE ~(writes = <<>> /\ changing = {} /\ orderly)
    <3>1. outdated' = {}
      BY <1>7, <2>3 DEF Stop
    <3> QED BY <2>1, <3>1 DEF PasswordInv, OutdatedInFile
  <2> QED BY <2>2, <2>3
<1>8. ASSUME NEW t \in Tokens, NEW n \in Users, PasswordLogin(t, n) PROVE PasswordInv'
  <2>1. S!CreateSession(t, n) /\ phase = "ready" /\ phase' = "ready" /\ UNCHANGED <<overtaken, changing, outdated, orderly>>
    BY <1>8 DEF PasswordLogin, S!CanWrite, storeVars, requests, history
  <2> QED BY <1>0, <1>2, <2>1, OpenKeepsPasswords
<1>r. \A n \in Users : calls[n] # <<>> => phase = "ready"
  BY <1>0, <1>4 DEF IInv, DownIsEmpty
<1>9. ASSUME NEW t \in Tokens, NEW n \in Users, AnswerPasskeyLogin(n, t) PROVE PasswordInv'
  <2>1. S!CreateSession(t, n) /\ phase = "ready" /\ phase' = "ready" /\ UNCHANGED <<overtaken, changing, outdated, orderly>>
    BY <1>9, <1>r DEF AnswerPasskeyLogin, FinishTouch, Take, requests, history
  <2> QED BY <1>0, <1>2, <2>1, OpenKeepsPasswords
<1>10. ASSUME NEW t \in Tokens, NEW n \in Users, AnswerJoin(n, t) PROVE PasswordInv'
  <2>1. /\ S!CreateSession(t, n) /\ phase = "ready" /\ phase' = "ready" /\ UNCHANGED <<overtaken, changing, orderly>>
        /\ outdated' = IF n \in overtaken THEN outdated \cup {t} ELSE outdated
    BY <1>10 DEF AnswerJoin, S!CanWrite, storeVars
  <2> QED BY <1>0, <1>2, <2>1, OpenKeepsPasswords
<1>11. ASSUME phase = "ready", phase' = "ready", NEW ks \in SUBSET S!Keys, S!Destroy(ks),
              UNCHANGED <<overtaken, changing, outdated, orderly>>
       PROVE  PasswordInv'
  <2>1. /\ UNCHANGED <<file, lastUse>> 
        /\ S!Save(sessions') \/ UNCHANGED <<sessions, writes>>
        /\ \A k \in S!Keys : sessions'[k] = None \/ sessions'[k] = sessions[k]
    BY <1>0, <1>11, DestroyFacts
  <2> QED BY <1>0, <1>2, <1>11, <2>1, SameExcuses
<1>12. ASSUME NEW t \in Tokens, RpcOfMissingUser(t) \/ LogoutDone(t) PROVE PasswordInv'
  <2>1. /\ S!DestroySession(t) /\ phase = "ready" /\ phase' = "ready" /\ UNCHANGED <<overtaken, changing, outdated, orderly>>
    BY <1>12 DEF RpcOfMissingUser, LogoutDone, S!LogoutDone, S!CanWrite, storeVars, requests, history
  <2>2. \E ks \in SUBSET S!Keys : S!Destroy(ks)
    BY <1>0, <2>1 DEF S!DestroySession
  <2> QED BY <1>11, <2>1, <2>2
<1>13. ASSUME NEW n \in Users, AnswerDelete(n) PROVE PasswordInv'
  <2>1. /\ S!InvalidateSessions(n, None) /\ phase = "ready" /\ phase' = "ready"
        /\ UNCHANGED <<overtaken, changing, outdated, orderly>>
    BY <1>13, <1>r DEF AnswerDelete, FinishDelete, Take, requests, history
  <2>2. \E ks \in SUBSET S!Keys : S!Destroy(ks)
    BY <1>0, <2>1, InvalidateFacts
  <2> QED BY <1>11, <2>1, <2>2
<1>14. ASSUME NEW c \in changing, EndChange(c) PROVE PasswordInv'
  <2>1. /\ S!InvalidateSessions(c.user, c.token) /\ phase = "ready" /\ phase' = "ready"
        /\ UNCHANGED <<overtaken, outdated, orderly>> /\ changing' = changing \ {c}
        /\ c.token \in Tokens
    BY <1>0, <1>14 DEF EndChange, S!CanWrite, storeVars, history, Requests
  <2>2. \A t \in outdated : lastUse[t] # None
    BY DEF PasswordInv
  <2> QED BY <1>0, <1>2, <2>1, <2>2, InvalidateKeepsPasswords
<1>15. ASSUME NEW n \in Users, AnswerSetPassword(n) PROVE PasswordInv'
  <2>1. /\ phase = "ready" /\ phase' = "ready"
        /\ outdated' = outdated \cup {t \in Tokens : disk[n] # None /\ S!Key(t) \in S!KeysOf(sessions, n)}
        /\ overtaken \subseteq overtaken' \cup {n} /\ orderly' = orderly
    BY <1>15, <1>r DEF AnswerSetPassword, PasswordWritten, FinishSetPassword, Take
  <2>2. \A t \in outdated' : \/ t \in outdated
                             \/ t \in Tokens /\ sessions[S!Key(t)] # None /\ sessions[S!Key(t)].user = n
    BY <2>1 DEF S!KeysOf
  <2>3. \A t \in outdated' : lastUse[t] # None
    <3>1. ASSUME NEW t \in Tokens, sessions[S!Key(t)] # None PROVE lastUse[t] # None
      <4>1. S!Key(t) \in UsedKeys
        BY <1>0, <3>1 DEF Tables, Of
      <4> QED BY <4>1, SessionKeys DEF UsedKeys
    <3> QED BY <2>2, <3>1 DEF PasswordInv
  <2>4. CASE Head(calls[n]).via = None
    <3>1. S!InvalidateSessions(n, None) /\ changing' = changing
      BY <1>15, <2>4 DEF AnswerSetPassword
    <3> QED BY <1>0, <1>2, <2>1, <2>2, <2>3, <3>1, InvalidateKeepsPasswords
  <2>5. CASE Head(calls[n]).via # None
    <3>1. /\ changing' = changing \cup {[user |-> n, token |-> Head(calls[n]).via]}
          /\ UNCHANGED <<sessions, writes, file, lastUse>>
      BY <1>15, <2>5 DEF AnswerSetPassword, tableVars
    <3>2. n \in ExcusedNames' /\ ExcusedNames \subseteq ExcusedNames' \cup {n}
      <4>1. [user |-> n, token |-> Head(calls[n]).via].user = n
        OBVIOUS
      <4> QED BY <2>1, <3>1, <4>1 DEF ExcusedNames
    <3>3. \A t \in outdated' : sessions'[S!Key(t)] # None => sessions'[S!Key(t)].user \in ExcusedNames'
      BY <2>1, <2>2, <3>1, <3>2 DEF PasswordInv, OutdatedInTable
    <3>4. outdated' \subseteq Tokens
      BY <1>0, <2>1
    <3> QED BY <1>0, <1>2, <2>1, <2>3, <3>1, <3>3, <3>4, PasswordKept
  <2> QED BY <2>4, <2>5
<1>16. ASSUME phase = "ready", phase' = "ready", UNCHANGED <<sessions, writes, file, overtaken, changing, outdated, orderly>>,
              \A s \in Tokens : lastUse[s] # None => lastUse'[s] # None
       PROVE  PasswordInv'
  BY <1>0, <1>2, <1>16, SameExcuses
<1>17. ASSUME NEW t \in Tokens, Rpc(t) PROVE PasswordInv'
  <2>1. /\ S!ResolveSession(t) /\ phase = "ready" /\ UNCHANGED <<overtaken, changing, outdated, orderly>>
    BY <1>17 DEF Rpc, LoggedIn, requests, history
  <2>2. phase' = "ready"
    BY <1>17, <2>1 DEF Rpc, DeleteUser, CreateUser, SetRole, ResetPassword, ChangePassword
  <2> QED BY <1>0, <1>16, <2>1, <2>2, ResolveFacts
<1>18. ASSUME NEW t \in Tokens, Logout(t) PROVE PasswordInv'
  BY <1>16, <1>18 DEF Logout, S!Logout, storeVars, requests, history
<1>19. ASSUME NEW n \in Users,
              \/ PasskeyLogin(n) \/ PasskeyVerified(n) \/ Join(n)
              \/ AnswerCreate(n) \/ AnswerSetRole(n) \/ CallRejected(n)
       PROVE PasswordInv'
  <2>1. phase = "ready" /\ phase' = "ready"
    BY <1>19, <1>r DEF PasskeyLogin, PasskeyVerified, storeVars, Touch, Join, Register, AnswerCreate, FinishCreate,
                       AnswerSetRole, FinishSetRole, CallRejected, RejectCall, Take
  <2> QED BY <1>16, <1>19, <2>1 DEF PasskeyLogin, PasskeyVerified, Join, AnswerCreate, AnswerSetRole, CallRejected,
                                    tableVars, requests, history
<1>20. ASSUME NEW n \in Users, JoinFails(n) \/ PasskeyRefused(n) PROVE PasswordInv'
  <2>1. UNCHANGED <<phase, disk, retiredDisk, sessions, writes, file, lastUse, changing, outdated, overtaken, orderly>>
    BY <1>20 DEF JoinFails, PasskeyRefused, storeVars, serviceVars, tableVars, history
  <2> QED BY <2>1 DEF PasswordInv, Follows, LatestCopy, OutdatedInTable, OutdatedInFile, ExcusedNames, SpentNames, Live
<1>21. CASE AnswerRetire \/ RetireRejected
  <2>1. phase = "ready" /\ phase' = "ready"
    BY <1>0, <1>4, <1>21 DEF AnswerRetire, FinishRetire, RetireRejected, RejectRetire, IInv, DownIsEmpty
  <2> QED BY <1>16, <1>21, <2>1 DEF AnswerRetire, RetireRejected, tableVars, requests, history
<1>23. CASE StartFails
  <2>1. /\ phase = "down" /\ phase' = "down"
        /\ UNCHANGED <<sessions, writes, file, lastUse, changing, outdated, overtaken, orderly>>
    BY <1>23 DEF StartFails, InitFails, tableVars, requests, history
  <2> QED BY <1>2, <2>1 DEF PasswordInv, OutdatedInFile
<1>22. CASE FileWritten
  <2>1. PICK i \in S!Completable : S!WriteLands(i) /\ orderly' = (orderly /\ i = 1)
    BY <1>22 DEF FileWritten
  <2>2. /\ i \in 1..Len(writes) /\ file' = writes[i] /\ writes' = S!RemoveAt(writes, i)
        /\ UNCHANGED <<sessions, lastUse>>
    BY <2>1 DEF S!Completable, S!WriteLands
  <2>3. UNCHANGED <<phase, disk, retiredDisk, changing, outdated, overtaken>>
    BY <1>22 DEF FileWritten, storeVars, serviceVars, requests
  <2>4. writes \in Seq(S!SessionTable) /\ Len(writes) \in Nat /\ writes # <<>>
    BY <1>0, <2>2 DEF S!SessionsTypeOK
  <2>5. phase = "ready"
    BY <1>4, <2>4 DEF PasswordInv
  <2>6. i = 1 => LatestCopy' = LatestCopy
    <3> SUFFICES ASSUME i = 1 PROVE LatestCopy' = LatestCopy
      OBVIOUS
    <3>1. /\ Len(writes') = Len(writes) - 1 /\ writes' \in Seq(S!SessionTable)
          /\ \A j \in 1..Len(writes') : writes'[j] = writes[j + 1]
      BY <2>2, <2>4, Without1
    <3>2. CASE Len(writes) = 1
      BY <2>2, <2>4, <3>1, <3>2 DEF LatestCopy
    <3>3. CASE Len(writes) # 1
      <4>1. Len(writes') \in 1..Len(writes') /\ Len(writes') + 1 = Len(writes)
        BY <2>2, <2>4, <3>1, <3>3
      <4> QED BY <2>4, <3>1, <4>1 DEF LatestCopy
    <3> QED BY <3>2, <3>3
  <2>7. SpentNames' = SpentNames /\ ExcusedNames' = ExcusedNames
    BY <2>3 DEF SpentNames, Live, ExcusedNames
  <2>8. orderly' => Follows'
    BY <2>1, <2>2, <2>5, <2>6, <2>7 DEF PasswordInv, Follows
  <2> QED BY <2>2, <2>3, <2>5, <2>7, <2>8 DEF PasswordInv, OutdatedInTable
<1> QED BY <1>5, <1>6, <1>7, <1>8, <1>9, <1>10, <1>12, <1>13, <1>14, <1>15, <1>17, <1>18, <1>19, <1>20, <1>21, <1>22, <1>23
        DEF AccountsNext

LEMMA PasswordInitInv == AccountsInit => PasswordInv
BY DEF AccountsInit, Init, PasswordInv, OutdatedInFile

(* No session outlives the password it was opened under, whatever logins and *)
(* changes of password race and in whatever order the writes of the sessions *)
(* file land; a restart may bring one back only if the process ended with a  *)
(* change of password unanswered, a write in flight, or the file overwritten *)
(* by an older table (Stop).  (A change that is rejected although it took    *)
(* effect ends no session; it is no change of password here.)                *)
THEOREM OldPasswordOut == AccountsSpec => []OldPasswordIsOut
<1>1. AccountsInv /\ PasswordInv => OldPasswordIsOut
  <2> SUFFICES ASSUME AccountsInv, PasswordInv, NEW t \in outdated, LoggedIn(t), Principal(t) \notin overtaken
               PROVE  \E c \in changing : c.user = Principal(t)
    BY DEF OldPasswordIsOut
  <2>1. sessions[S!Key(t)] # None /\ Principal(t) = sessions[S!Key(t)].user
    BY DEF LoggedIn, Principal, S!UserOf
  <2>2. Principal(t) \in ExcusedNames
    BY <2>1 DEF PasswordInv, OutdatedInTable, LoggedIn
  <2> QED BY <2>2 DEF ExcusedNames
<1>2. AccountsInit => AccountsInv /\ PasswordInv
  BY AccountsInitInv, PasswordInitInv
<1>3. AccountsInv /\ PasswordInv /\ [AccountsNext]_vars => (AccountsInv /\ PasswordInv)'
  BY AccountsNextInv, NextPasswordInv
<1> QED BY <1>1, <1>2, <1>3, PTL DEF AccountsSpec
=============================================================================
