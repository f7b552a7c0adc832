SPECIFICATION MCSpec
CONSTANTS
  Users = {bob, eve}
  Tokens = {t1, t2}
  None = none
  TTL = 2
  MaxTime = 3
  MaxWrites = 2
  Disorder = TRUE
INVARIANT FileFollowsTable
PROPERTIES TokensKeepTheirUser ExpiredAreSwept
