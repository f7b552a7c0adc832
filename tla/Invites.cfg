SPECIFICATION MCSpec
CONSTANTS
  Codes = {c1, c2}
  MaxUses = 2
  None = none
  MaxRegs = 2
  MaxWrites = 2
  MaxCreated = 4
  Restarts = TRUE
SYMMETRY Symmetry
INVARIANTS AnsweredUsesAreCounted RevokedStaysRevoked OveruseIsBounded
