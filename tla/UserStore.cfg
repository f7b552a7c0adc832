SPECIFICATION MCSpec
CONSTANTS
  Users = {admin, bob}
  Bootstrap = admin
  Passwords = {p1}
  Tokens = {}
  None = none
  MaxPending = 3
  MaxUnsure = 2
INVARIANTS MemoryMatchesDisk AdminRemainsUnlessContested
PROPERTIES NamesAreNeverReused DeletionCompletes
