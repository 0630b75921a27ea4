CONSTANTS
  w1 = w1  w2 = w2  c1 = c1  c2 = c2
  N = 3  Workers = {w1, w2}  Clients = {c1, c2}
  Limits = {1, 2}  Window = 2  CleanupInterval = 2  MaxClients = 1  MaxTime = 2
  Nobody = Nobody
SPECIFICATION Spec
SYMMETRY Symmetry
INVARIANTS  RefusedOnlyBusy
CHECK_DEADLOCK FALSE
