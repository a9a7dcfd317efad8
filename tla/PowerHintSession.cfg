SPECIFICATION FairSpec
CONSTANTS
  s1 = s1
  s2 = s2
  t1 = t1
  t2 = t2
  Sessions = {s1, s2}
  Tids = {t1, t2}
  TidsOf <- MCTidsOf
  StaleMs = 1
  MaxMessages = 1
INVARIANTS
  TypeOK
  OneTimer
  BoostIsWatched
  RefCountsHeld
PROPERTY Settles
