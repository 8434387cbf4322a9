\* every part at the size its own properties need; no purge during a sync, no
\* edit after a rebuild: those are the runs vfs_ack and rebuild_undo
CONSTANTS
    Admin = admin
    Member = {m1, m2}
    Rebuilder = {m1}
    Locker = {m1}
    Nobody = Nobody
    EmptyLeaf = EmptyLeaf
    Record = {r1}
    LockRecord = {r1}
    Resource = {1, 2}
    AsyncCall = {c1, c2}
    Task = {t1, t2}
    MaxFault = 1
    MaxTxn = 2
    MaxPage = 2
    PurgeAtLeast = 2
    MaxCall = 4
    MaxKeyVer = 1
    MaxCheckpoint = 4
    MaxPut = 1
    MaxArchived = 1
    MaxCommit = 6
    Custodians = 3
    DekByte = {83, 202}
    Coefficient = {0, 47, 88, 119, 153, 182, 193, 238}
    ForeignByte = {7}
    MaxDekVer = 2
    MaxWrite = 2
SPECIFICATION Spec
INVARIANTS
    TypeOK ReadsCommitted EarlyCallsRun RightKeyOrNone NoStaleNull
    KeptThroughRebuild ChainsComplete MergeBaseIsLatest
    SameEpochSameKey RevokedLockedOut
    QuorumOpens OneWrongShareFailsClosed BelowQuorumNothingIsKnown LockLosesNothing
PROPERTIES Implements SyncAnswers PurgeHappens CallsAnswered
CHECK_DEADLOCK FALSE
