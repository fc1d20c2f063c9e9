CONSTANTS
  p1 = p1
  p2 = p2
  c1 = c1
  c2 = c2
  Producers <- MCProducers
  Consumers <- MCConsumers
  maxSize = 2
  Batches = {2, 3}
  MaxPushes = 4
SPECIFICATION Spec
INVARIANTS
  NoLostWakeup
PROPERTIES
  ImplementsChannel
