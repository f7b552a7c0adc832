----------------------------- MODULE MCSessions -----------------------------
(***************************************************************************)
(* Properties of the session table, checked on a small instance, with two  *)
(* history variables: whether the fs service kept the order of the calls   *)
(* since the process started, and to whom each token was issued.           *)
(***************************************************************************)
EXTENDS Sessions

VARIABLES
  orderly,  \* history: since Boot every write landed and landed in order
  issued    \* history: the pairs of a token and the user it was issued to

mcVars == <<sessionsVars, orderly, issued>>

MCInit == SessionsInit /\ orderly = TRUE /\ issued = {}

Landed == \E i \in Completable : i > 1 /\ WriteLands(i)
Rejected == \E i \in Completable : WriteFails(i)

MCNext ==
  /\ SessionsNext
  /\ orderly' = (Boot \/ (orderly /\ ~Landed /\ ~Rejected))
  /\ issued' = issued \cup {p \in Tokens \X Users : Login(p[1], p[2])}

MCSpec == MCInit /\ [][MCNext]_mcVars /\ WF_sessionsVars(Sweep)

(* The refinement: a token resolves to the user it was issued to or to      *)
(* nobody, for TTL after its last use, and never again once its session     *)
(* has ended, unless a restart brings it back (resolveSession, and the copy *)
(* in the file that loadSessions reads, which may be an old one).           *)
Principal == [t \in Tokens |-> IF up THEN UserOf(t) ELSE None]
Life == INSTANCE SessionLife WITH principal <- Principal
TokensKeepTheirUser == Life!Spec

(* persistSessions does not wait.  If the fs service kept the order of the  *)
(* calls, then once nothing is in flight a restart would restore only       *)
(* sessions of the table, so a destroyed session cannot come back, and the  *)
(* file has an entry for each session of the table.                         *)
FileFollowsTable ==
  up /\ writes = <<>> /\ orderly =>
    /\ {k \in Keys : Restored(file[k], known) # None} \subseteq {k \in Keys : sessions[k] # None}
    /\ {k \in Keys : sessions[k] # None} \subseteq {k \in Keys : file[k] # None}

(* An expired entry is dropped from the table even if nobody presents it.   *)
ExpiredAreSwept ==
  \A k \in Keys :
    (sessions[k] # None /\ sessions[k].exp <= now) ~> (sessions[k] = None)
=============================================================================
