SPECIFICATION Spec
CONSTANTS
  Users = {u1, u2}
  IPs = {i1}
  Creds = {c1}
  None = none
  TTL = 1
  LockTime = 1
  MaxFails = 1
  TicketMax = 2
  MaxChallenges = 1
  MaxIssued = 3
  MaxTime = 1
  MaxCounter = 2
  MaxInFlight = 2
INVARIANTS HonouredOnce TicketsAreKept
PROPERTIES NoOlderCounter PasskeyLoginsAreHeld LockedOut
SYMMETRY Symmetry
CHECK_DEADLOCK FALSE
