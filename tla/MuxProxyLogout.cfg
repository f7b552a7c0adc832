SPECIFICATION Spec
CONSTANTS
  Users = {admin, bob}
  Default = admin
  Logins = {l1, l2}
  Conns = {c}
  Sessions = {s}
  Streams = {t1, t2}
  Numbers = {1, 2}
  None = none
  MaxEvents = 1
  MaxSent = 2
  MaxHost = 2
INVARIANTS NothingAfterLogout
SYMMETRY Symmetry
CHECK_DEADLOCK FALSE
