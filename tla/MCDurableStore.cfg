\* Processes that append at once.
SPECIFICATION FairSpec
CONSTANTS
  Writers = {"w1", "w2", "w3"}
  Contents = {"x", "y"}
  Schemas = {1}
  Schema <- MCOneSchema
  MaxRows = 3
INVARIANTS
  TypeOK
  JournalVerifies
  ReturnedIsDurable
PROPERTIES
  IsHashChain
  AppendEnds
  LockIsReleased
CHECK_DEADLOCK FALSE
