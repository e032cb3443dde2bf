\* Every stream has one publisher.
SPECIFICATION FairSpec
CONSTANTS
  p1 = p1
  p2 = p2
  s1 = s1
  s2 = s2
  Streams = {s1, s2}
  MaxSequence = 2
  Publishers = {p1, p2}
  Consumers = {"c1"}
  Publishes <- MCOneOwnerEach
  MaxSize = 2
  MaxCalls = 5
  NoEvent = NoEvent
INVARIANTS
  TypeOK
  StreamOrder
  EveryCallAccounted
PROPERTIES
  PublishReturns
  StoredIsDelivered
CHECK_DEADLOCK FALSE
