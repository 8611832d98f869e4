SPECIFICATION HubSpec
CONSTANTS
  Reports = 1
  Conns = {c1, c2}
  Client = c1
  QUEUE_MAX_SIZE = 2
  MaxLosses = 1
INVARIANTS NothingBetween EventsInOrder
PROPERTY ImplementsStream
\* the task and the connections come to an end
CHECK_DEADLOCK FALSE
