CONSTANTS
  K = 4
  Owner = owner
  NoWork = NoWork
  Nobody = Nobody
  owner = owner
  w1 = w1  w2 = w2  w3 = w3  w4 = w4  w5 = w5
  t1 = t1  
  M = 16
  MaxCount = 8
  Thieves = {t1}
  Uses <- PoolUses
  Works = {w1, w2}
SPECIFICATION FairSpec
INVARIANTS TypeOK EmptyIsTrue
PROPERTIES ImplementsDeque Progress
