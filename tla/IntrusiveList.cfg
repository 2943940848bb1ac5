SPECIFICATION Spec
CONSTANTS
  Heads = {h1, h2}
  Nodes = {m1, m2, m3, m4}
  Null = Null
INVARIANTS
  Represents
