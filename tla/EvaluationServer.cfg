SPECIFICATION FairSpec
CONSTANTS
  hook = hook  page = page
  s1 = s1  s2 = s2  c1 = c1  c2 = c2
  Callers = {hook, page}
  PoolSize = 2
  Selections = {s1, s2}
  Coupons = {c1, c2}
  CouponOf <- MCCouponOf
INVARIANTS
  TypeOK
  ToldUnlessMissed
  OneCopyEach
PROPERTIES
  LoneRefreshRepairs
  MetricsNeverVanish
  EveryRunEnds
