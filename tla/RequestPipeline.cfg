\* Two clients of a server that admits both, health probes beside them, and a
\* queue whose policy changes under them.
CONSTANTS
    a1 = a1
    a2 = a2
    u1 = u1
    l1 = l1
    Account = {a1}
    User = {u1}
    Anonymous = Anonymous
    NoSid = NoSid
    NoPolicy = NoPolicy
    NoKms = NoKms
    NoQueue = NoQueue
    MaxStatements = 2
    Client = {c1, c2}
    MaxInFlight = 2
    Rate = 1
    Second = 2
    Configs <- AskedConfigs
    Headers <- SentHeaders
    NoCredential = NoCredential
    right = right
    wrong = wrong
    Word <- Words
    Policies <- StoredPolicies
    Label = {l1}
    Letter = {"a", "b"}
    Principal <- NamedPrincipals
    Granted <- GrantedPatterns
    KmsKey = {k1}
    MaxPasses = 1
    MaxTime = 2
SPECIFICATION Spec
INVARIANT PipelineTypeOK
INVARIANT PermitsConserved
INVARIANT RateBound
INVARIANT RemoteCallersKnown
INVARIANT DecisionsRight
INVARIANT SettingsValid
INVARIANT PermissionsRevocable
PROPERTY JudgedNow
PROPERTY PoisonIsFinal
