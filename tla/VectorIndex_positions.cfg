CONSTANTS
  a = a  b = b  c = c  d = d  u = u  v = v  w = w
  Ids = {a, b, c, d}  Vectors = {u, v, w}  NoVector = NoVector
  Dimension <- TwoModels  MaxSize = 3  ClusterCounts = {1, 2}  HasNumpy = TRUE
SPECIFICATION Spec
SYMMETRY Symmetry
INVARIANTS TypeOK PositionsAgree HitsAreCurrent ClustersInRange
