CONSTANTS
  Size = 4
  Items = {k1, k2, k3}
  Null = Null
  Nil = Nil
  Nodes = {i1, i2, i3, i4}
  Data = {d1, d2, d3, d4}
SYMMETRY MCSymmetry
SPECIFICATION MCSpec
INVARIANTS
  NothingLeaked
PROPERTIES
  FifoSpec
  SeqSpec
CHECK_DEADLOCK FALSE
