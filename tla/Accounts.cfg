SPECIFICATION AccountsSpec
CONSTANTS
  Users = {admin, bob}
  Bootstrap = admin
  Passwords = {p1}
  Tokens = {t1, t2}
  None = none
  MaxPending = 2
  MaxUnsure = 1
  TTL = 1
  MaxTime = 0
  MaxWrites = 1
  Disorder = TRUE
SYMMETRY Symmetry
INVARIANTS DeletedUserIsOutUnlessRaced OldPasswordIsOut
