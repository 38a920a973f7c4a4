SPECIFICATION Spec
CONSTANTS
  a = a
  b = b
  nil = nil
  NoValue = nil
  Keys <- KeysTwo
  Values <- ValuesTwo
  Passing <- PassingA
  Calls <- Feeds
  InCap = 1
  OutCap = 1
  MaxRev = 2
CHECK_DEADLOCK FALSE
INVARIANTS NeverDiesSilently
PROPERTIES NoSendAfterClose FeedPromise
