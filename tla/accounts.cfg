CONSTANTS
  r1 = r1
  r2 = r2
  User = {boss, seller}
  Role = {r1, r2}
  Call = {c1, c2, c3}
  Nobody = Nobody
  Founder = boss
  Life = 2
  MaxTime = 2
  Permission <- MCPermission
  RoleSets <- MCRoleSets
  GrantSets <- MCGrantSets
SYMMETRY MCSymmetry
SPECIFICATION AccountsSpec
INVARIANTS AccountsTypeOK RotatedOnce RevokedSessionsEnd RightsAsAsked
PROPERTIES NoTokenForRemoved
CHECK_DEADLOCK FALSE
