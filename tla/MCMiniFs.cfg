CONSTANTS
  NUM_DIRECT_BLOCKS = 2
  NUM_INDIRECT_BLOCKS = 2
  EntriesPerBlock = 2
  DATA_NUMBER = 6
  Names = {"f1", "f2", "f3", "f4", "f5", "f6"}
  Users = {0, 1, 2}
  MaxInodes = 6
SPECIFICATION Spec
INVARIANT EntriesReachable
CHECK_DEADLOCK FALSE
