CONSTANTS
  SYS_CLK_EDGE_CNTR_LIMIT = 6
  ACQUISITION_FACTOR = 1
  Positions <- Two
  p = p
  q = q
SPECIFICATION Spec
INVARIANT TypeOK
INVARIANT PointIsPosition
INVARIANT OnePoint
SYMMETRY Exchange
