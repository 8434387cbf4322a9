\* the idle callback runs while a sync waits; nothing is aborted, no reload
CONSTANTS
    MaxFault = 0
    MaxTxn = 3
    MaxPage = 1
    PurgeAtLeast = 1
    PurgeDuringSync = TRUE
SPECIFICATION Spec
INVARIANTS AcknowledgedIsDurable
CHECK_DEADLOCK FALSE
