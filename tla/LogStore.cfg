CONSTANTS
  Record <- MCRecord
  WriterRecord <- MCWriterRecord
  Capacity = 2
  IoMayFail = TRUE
SPECIFICATION StoreSpec
INVARIANT NoRecordVanishes
INVARIANT RecordsAreKept
INVARIANT LogInAppendOrder
INVARIANT UnreadableOnlyAfterCutAppend
PROPERTY DropDrains
CHECK_DEADLOCK FALSE
