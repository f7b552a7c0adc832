SPECIFICATION Spec
CONSTANTS
  Users = {u1}
  Ids = {i1, i2}
  Calls = {c1, c2}
  None = none
  Keys = {k1, k2}
INVARIANTS RevokedIsGone AnsweredIsThere SharesOpen
SYMMETRY Symmetry
CONSTRAINT FirstKey
