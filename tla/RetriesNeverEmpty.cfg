\* The promise that a retry returns the same messages or OverLimit.
CONSTANTS
    NoQueue = NoQueue
    NoGroup = NoGroup
    NoAttempt = NoAttempt
    NoDedupId = NoDedupId
    UseDefault = UseDefault
    Source = Source
    DeadLetter = DeadLetter
    Queue = {Source}
    Fifo = {Source}
    Group = {g1}
    DedupId = {d1}
    AttemptId = {a1}
    Delays = {}
    BatchSizes = {2}
    Visibilities = {UseDefault}
    Timeouts = {}
    MoveSizes = {}
    Sendable = {Source}
    Purgeable = {}
    Initial <- BriefQueue
    Updates <- Tightenings
    DeduplicationWindow = 1
    AttemptWindow = 3
    PurgeCooldown = 2
    MaxTime = 3
    MaxSequence = 2
    MaxReceives = 5
    Waits = {1}
    PollInterval = 1
    Poller = {c1, c2}
SPECIFICATION PollSafetySpec
SYMMETRY PollSymmetry
INVARIANT RetriesNeverEmpty
