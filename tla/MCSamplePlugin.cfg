\* Two objects and three pointer variables: two pointers to one object next to
\* one to another, or a factory with two components.
SPECIFICATION PluginSpec
CONSTANTS
  Blocks = {b1, b2}
  Slots = {p1, p2, p3}
  NULL = NULL
SYMMETRY Symmetry
INVARIANTS
  PluginTypeOK
  CountIsPointers
  PointersTyped
  IdentityRule
  QueryUniform
