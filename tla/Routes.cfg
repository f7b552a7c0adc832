SPECIFICATION RoutesSpec
CONSTANTS
  Ids = {i1, i2}
  Shared = {i2}
  Signatures = {s1, s2}
  Calls = {c1, c2, c3}
  Nothing = nothing
INVARIANTS RoutesFollowProfiles RoutesAreOwned
SYMMETRY Symmetry
