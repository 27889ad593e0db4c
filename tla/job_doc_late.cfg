\* docs/event-semantics.md: TOO_LATE events do not change the aggregate.
CONSTANTS
  a = a
  b = b
  c = c
  d = d
  f = f
  x = x
  Events = {a, b, d}
  Invalid = {}
  Partitions = {1}
  Minute = 1
  OutOfOrder = 1
  Lateness = 1
  MaxRecords = 3
  MaxRestarts = 1
  MaxEarly = 0
  EventTime <- MCEventTime
  KeyOf <- MCKeyOf
  PartitionOf <- OnePartition
SPECIFICATION Spec
CHECK_DEADLOCK FALSE
INVARIANTS TooLateExcluded
