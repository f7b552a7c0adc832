SPECIFICATION GatewaySpec
CONSTANTS
  Users = {admin, bob, eve}
  Default = admin
  Objects = {w, o}
  Workspaces = {w}
  Requests = {r1, r2}
  None = none
  MaxQueue = 1
INVARIANTS AnsweredCreatesAreOwned NoAdoption OrphansAreExplained ClaimsAreDurable ChainMoves
SYMMETRY Symmetry
