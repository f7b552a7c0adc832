---------------------------- MODULE SessionLife ----------------------------
(***************************************************************************)
(* What the session table promises about tokens, whatever becomes of the   *)
(* writes of its file and however often the process restarts: a token is   *)
(* issued once, to one user, and resolves to that user or to nobody; never *)
(* to anybody once TTL has passed since its last use; and a session that   *)
(* has ended, by logout, invalidation or expiry, comes back only by a      *)
(* restart.                                                                *)
(***************************************************************************)
EXTENDS Naturals

CONSTANTS
  Users,      \* user names
  Tokens,     \* cookie tokens
  None,       \* nobody, never
  TTL         \* how long a session outlives its last use

VARIABLES
  up,         \* the process runs
  now,        \* the time
  issued,     \* the pairs of a token and the user it was issued to
  lastUse,    \* lastUse[t]: when t was issued or last used, or None
  principal   \* principal[t]: the user t resolves to, or None

vars == <<up, now, issued, lastUse, principal>>

Nobody == [t \in Tokens |-> None]
Alive(t, time) == lastUse[t] # None /\ time < lastUse[t] + TTL

Init ==
  /\ up = FALSE /\ now = 0
  /\ issued = {} /\ lastUse = Nobody /\ principal = Nobody

Issue(t, u) ==
  /\ up /\ lastUse[t] = None
  /\ issued' = issued \cup {<<t, u>>}
  /\ lastUse' = [lastUse EXCEPT ![t] = now]
  /\ principal' = [principal EXCEPT ![t] = u]
  /\ UNCHANGED <<up, now>>

Use(t) ==
  /\ principal[t] # None
  /\ lastUse' = [lastUse EXCEPT ![t] = now]
  /\ UNCHANGED <<up, now, issued, principal>>

(* No token begins to resolve, or resolves to another user. *)
Ends == \A t \in Tokens : principal'[t] \in {None, principal[t]}

End ==
  /\ principal' \in [Tokens -> Users \cup {None}] /\ Ends
  /\ UNCHANGED <<up, now, issued, lastUse>>

Tick ==
  /\ now' = now + 1
  /\ principal' \in [Tokens -> Users \cup {None}] /\ Ends
  /\ \A t \in Tokens : principal'[t] # None => Alive(t, now')
  /\ UNCHANGED <<up, issued, lastUse>>

Fail ==
  /\ up /\ up' = FALSE
  /\ principal' = Nobody
  /\ UNCHANGED <<now, issued, lastUse>>

Restart ==
  /\ ~up /\ up' = TRUE
  /\ principal' \in [Tokens -> Users \cup {None}]
  /\ \A t \in Tokens : principal'[t] # None => <<t, principal'[t]>> \in issued /\ Alive(t, now)
  /\ UNCHANGED <<now, issued, lastUse>>

Next ==
  \/ \E t \in Tokens : Use(t) \/ \E u \in Users : Issue(t, u)
  \/ End \/ Tick \/ Fail \/ Restart

Spec == Init /\ [][Next]_vars
=============================================================================
