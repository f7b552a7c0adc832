--------------------------- MODULE NameLifecycle ---------------------------
(***************************************************************************)
(* What the user table promises about user names, whatever the requests in *)
(* flight and however often the process restarts: a name is unused, then   *)
(* carries one account whose record may change, and once that record has   *)
(* been deleted the name is spent for ever (the tombstone of               *)
(* docs/SECURITY.md, section 4).  Ownership tables, invitations and        *)
(* session files name accounts by user name only, so a name that came back *)
(* would inherit what the old account left behind.                         *)
(***************************************************************************)
CONSTANTS
  Names,      \* user names
  Values,     \* account records
  None        \* no record

VARIABLES
  record,     \* record[n]: the record of the account n, or None
  spent       \* the names whose account was deleted

Init ==
  /\ record = [n \in Names |-> None]
  /\ spent = {}

Open(n, v) ==
  /\ record[n] = None /\ n \notin spent
  /\ record' = [record EXCEPT ![n] = v]
  /\ UNCHANGED spent

Update(n, v) ==
  /\ record[n] # None
  /\ record' = [record EXCEPT ![n] = v]
  /\ UNCHANGED spent

Close(n) ==
  /\ record[n] # None
  /\ record' = [record EXCEPT ![n] = None]
  /\ spent' = spent \cup {n}

Next == \E n \in Names : Close(n) \/ \E v \in Values : Open(n, v) \/ Update(n, v)

Spec == Init /\ [][Next]_<<record, spent>>
=============================================================================
