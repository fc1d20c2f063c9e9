CONSTANTS
  c1 = c1
  c2 = c2
  c3 = c3
  s1 = s1
  s2 = s2
  SearchThreads <- MCSearchThreads
  ServerThreads <- MCServerThreads
  maxBatchSize = 2
SPECIFICATION Spec
INVARIANTS
  BufferHeldWhileServed
  CountersSettle
PROPERTIES
  CallsReturn
