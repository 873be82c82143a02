SPECIFICATION Spec
CONSTANTS
  None = None
  Root = Root
  Keys = {k1, k2, k3}
  Procs = {p1, p2}
  Gens = {1, 2}
  Written = {k1}
  Capacity = 2
  MaxVersion = 3
INVARIANT EvictionEnds
