SPECIFICATION LiveSpec
CONSTANTS
  Files = {1, 2}
  Roomodes = 1
  Runs = {1, 2}
  Releases <- Trees
  Absent = Absent
  None = None
  Repair = Repair
  MaxFaults = 2
  MaxStrays = 1
INVARIANTS JournalAfterRename
PROPERTIES PublishComplete RollbackSparesPublished LeftoversCleared CompletedIsPublished
CHECK_DEADLOCK FALSE
