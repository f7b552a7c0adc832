------------------------------- MODULE Names -------------------------------
(* What the session table and the stream proxy share. *)
CONSTANTS
  Users,  \* user names
  None    \* undefined
=============================================================================
