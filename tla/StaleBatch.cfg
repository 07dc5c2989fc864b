\* A batch visibility change whose clock reading is older than the mutex.
CONSTANTS
    NoQueue = NoQueue
    NoGroup = NoGroup
    NoAttempt = NoAttempt
    NoDedupId = NoDedupId
    UseDefault = UseDefault
    Source = Source
    DeadLetter = DeadLetter
    Queue = {Source}
    Fifo = {}
    Group = {g1}
    DedupId = {}
    AttemptId = {}
    Delays = {1}
    BatchSizes = {1}
    Visibilities = {UseDefault}
    Timeouts = {2}
    MoveSizes = {}
    Sendable = {Source}
    Purgeable = {}
    Initial <- SingleLease
    Updates <- NoUpdates
    DeduplicationWindow = 1
    AttemptWindow = 2
    PurgeCooldown = 2
    MaxTime = 3
    MaxSequence = 2
    MaxReceives = 2
    Caller = {c1}
    EntryCounts = {1}
SPECIFICATION BatchSpec
PROPERTY InFlightBound
