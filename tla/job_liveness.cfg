\* Every minute that an event closes is emitted, over one restart; one id is
\* forgotten while a window of its event lives.
CONSTANTS
  a = a
  b = b
  c = c
  d = d
  f = f
  x = x
  Events = {a, b, c, f}
  Invalid = {}
  Partitions = {1}
  Minute = 1
  OutOfOrder = 1
  Lateness = 1
  MaxRecords = 2
  MaxRestarts = 1
  MaxEarly = 1
  EventTime <- MCEventTime
  KeyOf <- MCKeyOf
  PartitionOf <- OnePartition
SPECIFICATION FairSpec
CHECK_DEADLOCK FALSE
INVARIANTS CountedOnce
PROPERTIES EventuallyCounted
