\* records are edited after a rebuild; one checkpoint
CONSTANTS
  Admin = admin
  m1 = m1
  r1 = r1
  r2 = r2
  Member = {m1}
  Record = {r1,r2}
  Readable <- MCReadable
  Recorder = {c1}
  MaxCheckpoint = 1
  MaxWrite = 4
  MaxArchived = 0
  CanEdit = TRUE
  CanSyncDirty = FALSE
SPECIFICATION Spec
INVARIANTS NoneUndone
CHECK_DEADLOCK FALSE
