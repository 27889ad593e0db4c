\* Two partitions, duplicates, an invalid event and one restart.
CONSTANTS
  a = a
  b = b
  c = c
  d = d
  f = f
  x = x
  Events = {a, b, c, d, x}
  Invalid = {x}
  Partitions = {1, 2}
  Minute = 1
  OutOfOrder = 1
  Lateness = 1
  MaxRecords = 2
  MaxRestarts = 1
  MaxEarly = 0
  EventTime <- MCEventTime
  KeyOf <- MCKeyOf
  PartitionOf <- TwoPartitions
SPECIFICATION Spec
CHECK_DEADLOCK FALSE
INVARIANTS TypeOK CountedOnce NothingLost LateOnlyBeyond AuditedOrCounted RevisionIdentifies
PROPERTIES VisibleGrows
