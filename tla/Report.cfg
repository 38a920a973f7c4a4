SPECIFICATION ReportFairSpec
CONSTANTS
  s1 = s1
  s2 = s2
  nil = nil
  None = nil
  Servers <- TwoServers
  Batches <- SomeBatches
  Sizes <- SomeSizes
  Bytes <- SomeBytes
  Names <- TwoNames
  TagKeys <- TwoTagKeys
  TagValues <- TwoTagValues
  FieldKeys <- TwoFieldKeys
  FieldValues <- SomeFieldValues
  Now <- SomeNow
  MaxCalls = 1
CHECK_DEADLOCK FALSE
INVARIANTS Faithful SplitFits AtMostOnce ReadsBack ParsesBack
PROPERTIES BodyEnds
