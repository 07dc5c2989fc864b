\* A batch request beside single requests on a FIFO queue and its dead-letter
\* queue.
CONSTANTS
    NoQueue = NoQueue
    NoGroup = NoGroup
    NoAttempt = NoAttempt
    NoDedupId = NoDedupId
    UseDefault = UseDefault
    Source = Source
    DeadLetter = DeadLetter
    Queue = {Source, DeadLetter}
    Fifo = {Source, DeadLetter}
    Group = {g1}
    DedupId = {d1, d2}
    AttemptId = {}
    Delays = {}
    BatchSizes = {1}
    Visibilities = {UseDefault}
    Timeouts = {1}
    MoveSizes = {}
    Sendable = {Source}
    Purgeable = {}
    Initial <- AfterOneReceive
    Updates <- NoUpdates
    DeduplicationWindow = 1
    AttemptWindow = 2
    PurgeCooldown = 2
    MaxTime = 3
    MaxSequence = 4
    MaxReceives = 2
    Caller = {c1}
    EntryCounts = {2}
SPECIFICATION BatchSpec
INVARIANT BatchContiguous
INVARIANT ConstraintsNeverTrip
