SPECIFICATION Spec
CONSTANTS
  Creds = {k1, k2, k3}
  Secrets = {s1, s2}
  None = none
  MaxPasskeys = 2
  MaxPending = 2
  MaxTickets = 1
SYMMETRY Symmetry
INVARIANTS NobodyIsLockedOut PasskeysAreLimited EnabledSecretIsConfirmed AnswersHoldUnlessDisturbed
PROPERTY LastFactorStays
