SPECIFICATION FairClientSpec
CONSTANTS
  s0 = s0  s1 = s1  s2 = s2  s3 = s3  s4 = s4
  Slots <- MCSlots
  Root = s0
  Types <- MCTypes
  MaxObjects = 2
  BadgeValues = {1}
  Rights = {read}
  Null = Null
INVARIANTS
  LinksConsistent
  DerivedRun
  RightsNeverGrow
  RecursionBounded
PROPERTIES
  RevokeComplete
  RevocationTerminates
CHECK_DEADLOCK FALSE
