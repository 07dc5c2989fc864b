\* One FIFO queue, two groups, a deduplication scope and a delay that change, and
\* receives that are retried.
CONSTANTS
    NoQueue = NoQueue
    NoGroup = NoGroup
    NoAttempt = NoAttempt
    NoDedupId = NoDedupId
    UseDefault = UseDefault
    Source = Source
    Queue = {Source}
    Fifo = {Source}
    Group = {g1, g2}
    DedupId = {d1}
    AttemptId = {a1}
    Delays = {}
    BatchSizes = {1}
    Visibilities = {UseDefault}
    Timeouts = {}
    MoveSizes = {}
    Sendable = {Source}
    Purgeable = {Source}
    Initial <- PlainQueue
    Updates <- ScopeChanges
    DeduplicationWindow = 2
    AttemptWindow = 2
    PurgeCooldown = 1
    MaxTime = 6
    MaxSequence = 4
    MaxReceives = 1
SPECIFICATION HistorySpec
SYMMETRY Symmetry
INVARIANT FifoDelayCurrent
PROPERTY DeduplicationHolds
