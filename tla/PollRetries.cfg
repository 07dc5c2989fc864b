\* Long and short receives that carry the same attempt id, beside receives that
\* carry none, on a FIFO queue whose limit is lowered.
CONSTANTS
    NoQueue = NoQueue
    NoGroup = NoGroup
    NoAttempt = NoAttempt
    NoDedupId = NoDedupId
    UseDefault = UseDefault
    Source = Source
    DeadLetter = DeadLetter
    Queue = {Source}
    Fifo = {Source}
    Group = {g1}
    DedupId = {d1}
    AttemptId = {a1}
    Delays = {}
    BatchSizes = {2}
    Visibilities = {UseDefault}
    Timeouts = {1}
    MoveSizes = {}
    Sendable = {Source}
    Purgeable = {Source}
    Initial <- FleetingQueue
    Updates <- Tightenings
    DeduplicationWindow = 1
    AttemptWindow = 2
    PurgeCooldown = 2
    MaxTime = 2
    MaxSequence = 2
    MaxReceives = 5
    Waits = {0, 1}
    PollInterval = 1
    Poller = {c1, c2}
SPECIFICATION PollSafetySpec
SYMMETRY PollSymmetry
INVARIANT PollTypeOK
INVARIANT RetriesAgree
INVARIANT AttemptsReplayable
PROPERTY NothingSwallowed
PROPERTY InFlightBound
