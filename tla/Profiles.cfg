SPECIFICATION Spec
CONSTANTS
  Tokens = {t1}
  Ids = {i1, i2}
  Passwords = {p1, p2}
  Calls = {c1, c2}
  None = none
  MaxSalts = 3
INVARIANTS ProfilesOpen AnsweredProfilesAreKept KeysEndWithTheirSession
SYMMETRY Symmetry
