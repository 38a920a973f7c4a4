SPECIFICATION FairSpec
CONSTANTS
  a = a
  b = b
  nil = nil
  NoValue = nil
  Keys <- KeysOne
  Values <- ValuesTwo
  Passing <- PassingA
  Calls <- AllKinds
  InCap = 1
  OutCap = 1
  MaxRev = 2
CHECK_DEADLOCK FALSE
INVARIANTS ViewFaithful
PROPERTIES StopReaps ChangesArrive
