-------------------------- MODULE RequestPipeline --------------------------
(***************************************************************************)
(* A request on its way through the server (src/src/http_server.rs and     *)
(* src/src/security_http.rs): admission by a semaphore and a token bucket, *)
(* reading the body, authentication, then under the mutex of the database  *)
(* authorization and the operation - once, or in every pass of a long      *)
(* poll.  A client may leave, an operation may panic, the server restart.  *)
(*                                                                         *)
(* All requests are about one queue, of which there are here its policy    *)
(* and its encryption settings.  The clock counts fractions of a second;   *)
(* a token of the bucket has as many parts.                                *)
(***************************************************************************)
EXTENDS QueuePolicies, FiniteSetsExt

CONSTANTS
    Client,          \* connections; each has one request at a time
    MaxInFlight,     \* LQS_MAX_IN_FLIGHT
    Rate,            \* LQS_REQUESTS_PER_SECOND
    Second,          \* ticks of the clock in a second
    Configs,         \* how the server may be asked to run
    Headers,         \* what requests say about who sends them
    Word,            \* action -> its name, as patterns see it
    Policies,        \* the policies that SetQueueAttributes is asked to store
    Granted,         \* the patterns that permissions are added for
    KmsKey,
    NoCredential,    \* no LQS_AUTH_TOKEN
    NoQueue,         \* instead of a policy: the queue does not exist
    MaxPasses,       \* bound: passes of a long poll before its last one
    MaxTime          \* bound

ASSUME RequestPipelineAssumption ==
    /\ {MaxInFlight, Rate, Second} \subseteq Nat \ {0}
    /\ MaxPasses \in Nat
    /\ \A config \in Configs :
          /\ {config.remote, config.unsafe, config.trustsHeader} \subseteq BOOLEAN
          /\ config.principal \in Identity
    /\ \A h \in Headers : h.principals \in Seq(Identity \ {Anonymous})
    /\ Anonymous \in Identity
    /\ NoQueue # NoPolicy /\ NoKms \notin KmsKey
    /\ Policies \subseteq Seq(Statement) /\ {NoPolicy, NoQueue} \cap Seq(Statement) = {}
    /\ NoSid \notin Label /\ Granted \subseteq Pattern
    /\ {AccountId(a) : a \in Account} \subseteq Principal
    /\ {"*", "?"} \cap Letter = {}
    /\ \A action \in DOMAIN Word : Word[action] \in Seq(Letter)
    /\ IsFiniteSet(Client)

VARIABLES
    config,      \* of the process that runs
    clock,
    permits,     \* of the semaphore
    tokens,      \* of the bucket, in parts
    updatedAt,   \* when they were counted
    requests,    \* client -> its request
    poisoned,    \* the mutex: an operation has panicked under it
    policy,      \* column policy of queue_security
    encryption,  \* its other columns
    admitted     \* when the requests since the start were admitted

admission == <<permits, tokens, updatedAt, admitted>>
settings == <<policy, encryption>>
vars == <<config, clock, admission, requests, poisoned, settings>>
-----------------------------------------------------------------------------
None == [at |-> "none"]
Reading == [at |-> "reading"]

\* An action on behalf of an identity; passes counts those of a long poll.
Ready(identity, action) ==
    [at |-> "ready", identity |-> identity, action |-> action, passes |-> 0]
Answer(result) == [at |-> "answering", result |-> result]

Request ==
    {None, Reading}
    \cup [at : {"ready", "sleeping"}, identity : Identity, action : DOMAIN Word,
          passes : 0 .. MaxPasses]
    \cup [at : {"answering"}, result : {"ok", "failed"}]

\* The policies that a queue can be given.
Acceptable == {p \in Policies \cup {NoPolicy} : Accepted(p)}

\* Mutant: the principal header may be trusted on any address.
ConfigValidTrusting(k) ==
    /\ (k.credential = NoCredential) = (k.principal = Anonymous)
    /\ k.remote /\ k.credential = NoCredential => k.unsafe

\* ServerConfig::validate: how callers are told apart.  A credential and the
\* principal it stands for belong together.
ConfigValid(k) ==
    /\ k.trustsHeader => ~k.remote /\ k.credential = NoCredential
    /\ (k.credential = NoCredential) = (k.principal = Anonymous)
    /\ k.remote /\ k.credential = NoCredential => k.unsafe

ValidConfigs == {k \in Configs : ConfigValid(k)}

Init ==
    /\ config \in ValidConfigs
    /\ clock = 0
    /\ permits = MaxInFlight
    /\ tokens = Rate * Second
    /\ updatedAt = 0
    /\ requests = [c \in Client |-> None]
    /\ poisoned = FALSE
    /\ policy \in Acceptable
    /\ encryption = Plain
    /\ admitted = << >>

Become(c, request) == requests' = [requests EXCEPT ![c] = request]
-----------------------------------------------------------------------------
(* Admission *)

Refilled == Min({tokens + (clock - updatedAt) * Rate, Rate * Second})

\* Mutant: a refused request leaves the time of the last count.
UpdatedWhenAdmitted == IF Refilled < Second THEN updatedAt ELSE clock

\* Every count is as of now.
Updated == clock

\* try_enter: the permit is taken first and dropped again without a token.
\* Without a permit the answer is ServiceUnavailable at once.
Throttled ==
    /\ permits > 0
    /\ Refilled < Second
    /\ tokens' = Refilled
    /\ updatedAt' = Updated
    /\ UNCHANGED <<config, clock, permits, requests, poisoned, settings, admitted>>

Admit ==
    /\ permits > 0
    /\ Refilled >= Second
    /\ tokens' = Refilled - Second
    /\ updatedAt' = Updated
    /\ admitted' = Append(admitted, clock)

Enter(c) ==
    /\ requests[c] = None
    /\ Admit
    /\ permits' = permits - 1
    /\ Become(c, Reading)
    /\ UNCHANGED <<config, clock, poisoned, settings>>

\* GET /health and GET /status hold the permit only while they are answered.
Probe ==
    /\ Admit
    /\ UNCHANGED <<config, clock, permits, requests, poisoned, settings>>

\* Mutant: nobody gives back the permit of a request that was given up.
PermitLost == permits

\* Mutant: the answer and the future that is dropped both give it back.
PermitBackTwice == permits + 2

\* The permit is dropped with the future that holds it.
PermitBack == permits + 1

Leave(c) ==
    /\ Become(c, None)
    /\ permits' = PermitBack
    /\ UNCHANGED <<tokens, updatedAt, admitted>>
-----------------------------------------------------------------------------
(* Body and identity *)

\* local_hook: nobody in particular, or whom the header names; no identity if
\* the header is not trusted or there twice.
LocalIdentity(headers) ==
    CASE headers.principals = << >> -> {Anonymous}
      [] config.trustsHeader /\ Len(headers.principals) = 1 -> {headers.principals[1]}
      [] OTHER -> {}

\* bearer_hook: one Authorization header with the credential, no other claim.
BearerIdentity(headers) ==
    IF headers.principals = << >> /\ headers.tokens = <<config.credential>>
    THEN {config.principal} ELSE {}

Identified(headers) ==
    IF config.credential = NoCredential THEN LocalIdentity(headers)
                                        ELSE BearerIdentity(headers)

\* The body has arrived and parsed, and the hook has found out who it is.
Identify(c, action) ==
    /\ requests[c] = Reading
    /\ \E headers \in Headers : \E identity \in Identified(headers) :
            Become(c, Ready(identity, action))
    /\ UNCHANGED <<config, clock, admission, poisoned, settings>>

\* The hook finds nobody.
Reject(c) ==
    /\ requests[c] = Reading
    /\ \E headers \in Headers : Identified(headers) = {}
    /\ Become(c, Answer("failed"))
    /\ UNCHANGED <<config, clock, admission, poisoned, settings>>

\* Not a POST request, or a body that is late, too long or malformed.
Refuse(c) ==
    /\ requests[c] = Reading
    /\ Become(c, Answer("failed"))
    /\ UNCHANGED <<config, clock, admission, poisoned, settings>>
-----------------------------------------------------------------------------
(* Under the mutex: lock_lqs and then the operation *)

\* Mutant: the first pass of a poll has checked already.
PermittedOnce(c) ==
    requests[c].passes = 0 =>
        Authorized(policy, requests[c].identity, Word[requests[c].action])

\* security_http::authorize, by the policy of this moment.
Permitted(c) == Authorized(policy, requests[c].identity, Word[requests[c].action])

\* Mutant: a poisoned mutex is used as if nothing had happened.
LockPoisonIgnored(c) == requests[c].at = "ready"

\* The mutex has been acquired.
Lock(c) == requests[c].at = "ready" /\ ~poisoned

\* The operation starts: the queue exists and the caller may.
Begins(c, action) ==
    /\ Lock(c)
    /\ requests[c].action = action
    /\ policy # NoQueue
    /\ Permitted(c)

\* InternalError, AccessDenied or NonExistentQueue.
Fails(c) ==
    /\ requests[c].at = "ready"
    /\ \/ poisoned /\ Become(c, Answer("failed"))
       \/ Lock(c) /\ policy = NoQueue /\ requests[c].action # "CreateQueue"
                  /\ Become(c, Answer("failed"))
       \/ Lock(c) /\ policy # NoQueue /\ ~Permitted(c) /\ Become(c, Answer("failed"))
    /\ UNCHANGED <<config, clock, admission, poisoned, settings>>

\* An operation that leaves the settings of the queue alone, or is rejected.
Perform(c) ==
    /\ \E action \in DOMAIN Word \ {"ReceiveMessage"} : Begins(c, action)
    /\ Become(c, Answer("ok"))
    /\ UNCHANGED <<config, clock, admission, poisoned, settings>>

\* One page of poll_receive: an answer, or another pass later.
ReceivePage(c) ==
    /\ Begins(c, "ReceiveMessage")
    /\ \/ Become(c, Answer("ok"))
       \/ /\ requests[c].passes < MaxPasses
          /\ Become(c, [requests[c] EXCEPT !.at = "sleeping", !.passes = @ + 1])
    /\ UNCHANGED <<config, clock, admission, poisoned, settings>>

\* write: the settings are validated once more.
Store(c, action, newPolicy, newEncryption) ==
    /\ Begins(c, action)
    /\ Accepted(newPolicy)
    /\ policy' = newPolicy
    /\ encryption' = newEncryption
    /\ Become(c, Answer("ok"))
    /\ UNCHANGED <<config, clock, admission, poisoned>>

SetQueueAttributes(c) ==
    \/ \E p \in Policies \cup {NoPolicy} : Store(c, "SetQueueAttributes", p, encryption)
    \/ \E sse \in {{}, {TRUE}, {FALSE}}, kms \in {{k} : k \in KmsKey \cup {NoKms}} \cup {{}} :
        /\ ~Contradictory(sse, kms)
        /\ Store(c, "SetQueueAttributes", policy, EncryptionUpdated(encryption, sse, kms))

AddPermission(c) ==
    \E label \in Label, accounts \in SUBSET Account \ {{}}, granted \in Granted :
        /\ policy \notin {NoQueue, NoPolicy} => label \notin Sids(policy)
        /\ Store(c, "AddPermission",
                 PermissionAdded(policy, label, accounts, {granted}), encryption)

RemovePermission(c) ==
    \E label \in Label :
        Store(c, "RemovePermission", PermissionRemoved(policy, label), encryption)

DeleteQueue(c) ==
    /\ Begins(c, "DeleteQueue")
    /\ policy' = NoQueue
    /\ encryption' = Plain
    /\ Become(c, Answer("ok"))
    /\ UNCHANGED <<config, clock, admission, poisoned>>

\* Who may create a queue is not asked while it does not exist.
CreateQueue(c) ==
    /\ Lock(c)
    /\ requests[c].action = "CreateQueue"
    /\ policy = NoQueue
    /\ policy' \in Acceptable
    /\ encryption' = Plain
    /\ Become(c, Answer("ok"))
    /\ UNCHANGED <<config, clock, admission, poisoned>>

Operate(c) ==
    \/ Fails(c)
    \/ Perform(c) \/ ReceivePage(c)
    \/ SetQueueAttributes(c) \/ AddPermission(c) \/ RemovePermission(c)
    \/ DeleteQueue(c) \/ CreateQueue(c)

\* The transaction is rolled back and the request unwound.
Panic(c) ==
    /\ Lock(c)
    /\ poisoned' = TRUE
    /\ Leave(c)
    /\ UNCHANGED <<config, clock, settings>>
-----------------------------------------------------------------------------
Wake(c) ==
    /\ requests[c].at = "sleeping"
    /\ Become(c, [requests[c] EXCEPT !.at = "ready"])
    /\ UNCHANGED <<config, clock, admission, poisoned, settings>>

Respond(c) ==
    /\ requests[c].at = "answering"
    /\ Leave(c)
    /\ UNCHANGED <<config, clock, poisoned, settings>>

\* The connection is closed while the request waits.
Disconnect(c) ==
    /\ requests[c].at \in {"reading", "sleeping"}
    /\ Leave(c)
    /\ UNCHANGED <<config, clock, poisoned, settings>>

\* The process is replaced, perhaps with another configuration; the database
\* stays.
Restart ==
    /\ config' \in ValidConfigs
    /\ requests' = [c \in Client |-> None]
    /\ permits' = MaxInFlight
    /\ tokens' = Rate * Second
    /\ updatedAt' = clock
    /\ admitted' = << >>
    /\ poisoned' = FALSE
    /\ UNCHANGED <<clock, settings>>

Tick ==
    /\ clock < MaxTime
    /\ clock' = clock + 1
    /\ UNCHANGED <<config, admission, requests, poisoned, settings>>

Proceed(c) ==
    \/ Refuse(c) \/ Reject(c)
    \/ \E action \in DOMAIN Word : Identify(c, action)
    \/ Operate(c) \/ Wake(c) \/ Respond(c)

Next ==
    \/ Throttled \/ Probe
    \/ \E c \in Client : Enter(c) \/ Proceed(c) \/ Panic(c) \/ Disconnect(c)
    \/ Restart \/ Tick

Spec == Init /\ [][Next]_vars
-----------------------------------------------------------------------------
(* Every variable has its type.                                            *)
PipelineTypeOK ==
    /\ config \in Configs
    /\ clock \in Nat /\ updatedAt \in 0 .. clock
    /\ permits \in 0 .. MaxInFlight
    /\ tokens \in 0 .. Rate * Second
    /\ requests \in [Client -> Request]
    /\ poisoned \in BOOLEAN
    /\ policy \in Seq(Statement) \cup {NoPolicy, NoQueue}
    /\ encryption \in [sse : BOOLEAN, kms : KmsKey \cup {NoKms}]

(* However a request ends - answered, throttled, abandoned by its client,  *)
(* unwound by a panic - its permit is back exactly once (try_enter,        *)
(* http_server.rs:425-442; the permits of handle_request).                 *)
PermitsConserved ==
    permits + Cardinality({c \in Client : requests[c] # None}) = MaxInFlight

(* In no stretch of time more requests are admitted than a full bucket and *)
(* the refill of that time pay for (docs/compatibility.md:199).            *)
RateBound ==
    \A m, n \in DOMAIN admitted : m <= n =>
        (n - m + 1) * Second <= Rate * Second + Rate * (admitted[n] - admitted[m])

(* Whoever reaches the operations of a server that is bound to an outside  *)
(* address is the principal its credential stands for, or nobody in the    *)
(* mode that was asked for as unsafe: no header makes anybody else of them *)
(* (ServerConfig::validate, http_server.rs:184-209; local_hook and         *)
(* bearer_hook; docs/compatibility.md:187-189).                            *)
RemoteCallersKnown ==
    \A c \in Client : config.remote /\ requests[c].at \in {"ready", "sleeping"} =>
        \/ config.credential # NoCredential /\ requests[c].identity = config.principal
        \/ config.unsafe /\ requests[c].identity = Anonymous

(* A stored policy decides as documented: a statement that matches and     *)
(* allows is needed, one that matches and denies forbids, where ? is any   *)
(* character and * any text, an account stands for its root and users      *)
(* (authorize, principal_matches and the loop of glob, security.rs:        *)
(* 110-248; docs/compatibility.md:170).                                    *)
DecisionsRight ==
    policy \notin {NoQueue, NoPolicy} =>
        \A identity \in Identity, action \in DOMAIN Word :
            LET matching(effect) ==
                  \E k \in DOMAIN policy :
                    /\ policy[k].effect = effect
                    /\ \E p \in policy[k].actions : Matches(p, Word[action])
                    /\ \/ Everybody \in policy[k].principals
                       \/ /\ identity # Anonymous
                          /\ {identity, AccountId(identity.account), Root(identity.account)}
                                \cap policy[k].principals # {}
            IN  Authorized(policy, identity, Word[action]) <=>
                    matching("Allow") /\ ~matching("Deny")

(* What is stored can be read again: Sids are unique and few, and SSE-SQS  *)
(* and a KMS key are never both in force, whatever updates came in which   *)
(* order (docs/compatibility.md:205; the CHECK of queue_security).         *)
SettingsValid ==
    /\ policy # NoQueue => Accepted(policy)
    /\ ~(encryption.sse /\ encryption.kms # NoKms)

(* RemovePermission takes back what AddPermission did: with a policy every *)
(* decision is as before, and a queue that was open is closed to everyone, *)
(* for its policy stays, without statements (docs/compatibility.md:179).   *)
PermissionsRevocable ==
    policy # NoQueue =>
        \A label \in Label, granted \in Granted, identity \in Identity, action \in DOMAIN Word :
            (policy = NoPolicy \/ label \notin Sids(policy)) =>
                LET added == PermissionAdded(policy, label, Account, {granted})
                    removed == PermissionRemoved(added, label)
                IN  Authorized(removed, identity, Word[action]) <=>
                        policy # NoPolicy /\ Authorized(policy, identity, Word[action])

\* The client's operation is done in this step: its result, or another pass.
Operates(c) ==
    /\ requests[c].at = "ready"
    /\ \/ requests'[c] = Answer("ok")
       \/ requests'[c].at = "sleeping"

(* No operation, and no later page of a long poll, is performed that the   *)
(* policy of the very moment does not allow, though the policy changes     *)
(* between the pages (lock_lqs, http_server.rs:1785-1797;                  *)
(* docs/compatibility.md:170).                                             *)
JudgedNow ==
    [][\A c \in Client : Operates(c) /\ policy # NoQueue =>
          Authorized(policy, requests[c].identity, Word[requests[c].action])]_vars

(* After a panic under the mutex nothing is performed any more until the   *)
(* process is replaced: neither operation nor page (http_server.rs:1786).  *)
PoisonIsFinal ==
    [][poisoned /\ poisoned' =>
          settings' = settings /\ \A c \in Client : ~Operates(c)]_vars
=============================================================================
