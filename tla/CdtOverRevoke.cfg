SPECIFICATION ClientSpec
CONSTANTS
  s0 = s0  s1 = s1  s2 = s2  s3 = s3  s4 = s4
  Slots <- MCFewSlots
  Root = s0
  Types <- MCTypes
  MaxObjects = 2
  BadgeValues = {1}
  Rights = {read}
  Null = Null
PROPERTIES
  OnlyDerivedRevoked
CHECK_DEADLOCK FALSE
