SPECIFICATION FairSpec
CONSTANTS
  Walkers = {w1}
  Users = {u1, u2}
  PoolThreads = {p1, p2}
  MetaThreads = {m1}
  Names = {1, 2}
  Baseline = {1}
  Objects = {o1}
  PAGE = 1
  Nobody = Nobody
INVARIANT EntriesOnce
PROPERTIES
  ListingsAnswered
  CallbacksAnswered
