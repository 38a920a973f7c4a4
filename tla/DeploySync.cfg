SPECIFICATION SyncFairSpec
CONSTANTS
  p1 = p1
  p2 = p2
  p3 = p3
  i1 = i1
  i2 = i2
  m1 = m1
  m2 = m2
 
  a1 = a1
  a2 = a2
  c1 = c1
  c2 = c2
  Nil = Nil
  Free = Free
  NoId = NoId
  Procs <- ThreeProcs
  Ids <- TwoIds
  Mutexes <- TwoMutexes
  Adders <- TwoAdders
  Consumers <- TwoConsumers
  Names <- TwoIds
  Adds <- SharedAdds
  Length = 1
INVARIANTS MutualExclusion CountsRegistered NoStaleMark OneInLine
PROPERTIES EntersPool WorkedOn
