CONSTANTS
  M = 4
  MaxFrequency = 6
  MaxMultiplicity = 3
  MaxBatch = 2
SPECIFICATION ChannelSpec
INVARIANTS EntryAssigned NoMissedDeadline NeverTooEarly WorkShared
PROPERTIES DeadlineOrder Spec
