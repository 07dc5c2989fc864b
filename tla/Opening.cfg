\* Two processes that start, migrate the file of any release, use it, die and
\* start again.
CONSTANTS
    NoProcess = NoProcess
    NoColumn = NoColumn
    NoDedupId = NoDedupId
    NoPolicy = NoPolicy
    UnknownGroup = UnknownGroup
    q1 = q1
    q2 = q2
    g1 = g1
    g2 = g2
    d1 = d1
    d2 = d2
    closed = closed
    Process = {p1, p2}
    Queue = {q1, q2}
    Sendable = {q1}
    Group = {g1, g2}
    DedupId = {d1, d2}
    Policy = {closed}
    LegacyFiles <- Left
    MaxStarts = 3
    NoKey = NoKey
    Target = {t1}
    CipherKey = {k1, k2}
    MaxStartsBefore = 1
    MaxMessage = 1
    MaxReceives = 2
SPECIFICATION FilesSpec
INVARIANT ExportComplete
PROPERTY TargetsKept
PROPERTY MigrationKeeps
PROPERTY SendsRespectHistory
PROPERTY OpeningEnds
INVARIANT FilesTypeOK
INVARIANT ServedFilesWhole
\* The starts are bounded.
CHECK_DEADLOCK FALSE
