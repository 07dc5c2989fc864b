--------------------------- MODULE QueuePolicies ---------------------------
(***************************************************************************)
(* Queue policies and encryption settings (src/src/security.rs): who may   *)
(* do what with a queue, and how AddPermission, RemovePermission and       *)
(* SetQueueAttributes change that.                                         *)
(*                                                                         *)
(* A policy is a sequence of statements; every statement is about the one  *)
(* queue that is modelled.  Action names and the patterns for them are     *)
(* short strings of letters.                                               *)
(***************************************************************************)
EXTENDS Integers, Sequences, FiniteSets

CONSTANTS
    Account, User,     \* AWS account ids, and names of IAM users
    Anonymous,         \* the identity of a request without a principal
    Principal,         \* whom policies may name
    Label,             \* Sids, the labels of permissions
    Letter,            \* what the names of actions consist of
    NoSid, NoPolicy, NoKms,
    MaxStatements      \* 20 in the code

\* A policy names everybody, an account, the root or a user of an account.
Everybody == [kind |-> "everybody"]
AccountId(a) == [kind |-> "account", account |-> a]
Root(a) == [kind |-> "root", account |-> a]
IamUser(a, u) == [kind |-> "user", account |-> a, user |-> u]

Identity ==
    {Anonymous} \cup {AccountId(a) : a \in Account} \cup {Root(a) : a \in Account}
    \cup {IamUser(a, u) : a \in Account, u \in User}

PrincipalMatches(principal, identity) ==
    \/ principal = Everybody
    \/ /\ identity # Anonymous
       /\ \/ principal = identity
          \/ principal \in {AccountId(identity.account), Root(identity.account)}
-----------------------------------------------------------------------------
(* Wildcards *)

\* What a pattern is made of; the names of actions have letters only.
Pattern == Seq(Letter \cup {"*", "?"})

\* The variables of the loop of glob: i and j are the places in pattern and
\* value, star the place of the last star that was passed, 0 if none, and retry
\* the place in the value where the text behind that star was last tried.
GlobAt(i, j, star, retry) == [i |-> i, j |-> j, star |-> star, retry |-> retry]

GlobStart == GlobAt(1, 1, 0, 1)

\* One iteration; a loop that has ended stays where it is.
GlobStep(p, v, at) ==
    IF at.j > Len(v) THEN at
    ELSE IF at.i <= Len(p) /\ p[at.i] \in {"?", v[at.j]}
         THEN GlobAt(at.i + 1, at.j + 1, at.star, at.retry)
    ELSE IF at.i <= Len(p) /\ p[at.i] = "*"
         THEN GlobAt(at.i + 1, at.j, at.i, at.j)
    ELSE IF at.star # 0
         THEN GlobAt(at.star + 1, at.retry + 1, at.star, at.retry + 1)
    ELSE at

\* The loop ends within as many iterations.
GlobSteps(p, v) == (Len(p) + Len(v) + 1) * (Len(v) + 2)

Glob(p, v) ==
    LET loop[n \in 0 .. GlobSteps(p, v)] ==
            IF n = 0 THEN GlobStart ELSE GlobStep(p, v, loop[n - 1])
        end == loop[GlobSteps(p, v)]
    IN  end.j > Len(v) /\ \A k \in end.i .. Len(p) : p[k] = "*"

\* What it should compute, where ? is any character and * any text: the places
\* in the value from where what is left of it fits the pattern from i on.
Fits(p, v) ==
    LET fits[i \in 1 .. Len(p) + 1] ==
            IF i > Len(p) THEN {Len(v) + 1}
            ELSE {j \in 1 .. Len(v) + 1 :
                    \/ p[i] = "*" /\ \E k \in fits[i + 1] : j <= k
                    \/ j <= Len(v) /\ p[i] \in {"?", v[j]} /\ j + 1 \in fits[i + 1]}
    IN  fits
Matches(p, v) == 1 \in Fits(p, v)[1]
-----------------------------------------------------------------------------
(* Policies *)

Statement ==
    [sid : Label \cup {NoSid}, effect : {"Allow", "Deny"},
     principals : SUBSET Principal, actions : SUBSET Pattern]

Applies(statement, identity, action) ==
    /\ \E p \in statement.principals : PrincipalMatches(p, identity)
    /\ \E p \in statement.actions : Glob(p, action)

\* Mutant: the last statement that applies decides.
AuthorizedByLast(policy, identity, action) ==
    policy # NoPolicy =>
        LET applying == {n \in DOMAIN policy : Applies(policy[n], identity, action)}
        IN  \E n \in applying : policy[n].effect = "Allow" /\ \A m \in applying : m <= n

\* authorize: without a policy everything is allowed, with one only what some
\* statement allows and none denies.
Authorized(policy, identity, action) ==
    policy # NoPolicy =>
        LET effects == {policy[k].effect :
                          k \in {n \in DOMAIN policy : Applies(policy[n], identity, action)}}
        IN  effects = {"Allow"}

Sids(policy) == {policy[k].sid : k \in DOMAIN policy} \ {NoSid}

\* parse_policy, as far as statements depend on each other.
Accepted(policy) ==
    policy # NoPolicy =>
        /\ Len(policy) <= MaxStatements
        /\ \A m, n \in DOMAIN policy :
              m # n /\ policy[m].sid = policy[n].sid => policy[m].sid = NoSid

\* add_permission
PermissionAdded(policy, label, accounts, actions) ==
    Append(IF policy = NoPolicy THEN << >> ELSE policy,
           [sid |-> label, effect |-> "Allow",
            principals |-> {AccountId(a) : a \in accounts}, actions |-> actions])

\* Mutant: the policy is removed with its last statement.
PermissionRemovedToOpen(policy, label) ==
    LET left == IF policy = NoPolicy THEN << >>
                ELSE SelectSeq(policy, LAMBDA statement : statement.sid # label)
    IN  IF left = << >> THEN NoPolicy ELSE left

\* What the first statements leave when those under the label are taken out.
Without(policy, label) ==
    LET left[n \in 0 .. Len(policy)] ==
            IF n = 0 THEN << >>
            ELSE IF policy[n].sid = label THEN left[n - 1]
            ELSE Append(left[n - 1], policy[n])
    IN  left

\* remove_permission; a policy without statements stays one.
PermissionRemoved(policy, label) ==
    IF policy = NoPolicy THEN NoPolicy ELSE Without(policy, label)[Len(policy)]
-----------------------------------------------------------------------------
(* Encryption settings: whether SSE-SQS is enabled, and the KMS key *)

Plain == [sse |-> FALSE, kms |-> NoKms]

\* Mutant: a key leaves SSE-SQS as it is.
EncryptionUpdatedKeepsSse(settings, sse, kms) ==
    [sse |-> IF sse = {} THEN settings.sse ELSE sse = {TRUE},
     kms |-> IF kms = {} THEN settings.kms ELSE CHOOSE k \in kms : TRUE]

\* The update refers to both: an error.
Contradictory(sse, kms) == sse = {TRUE} /\ kms # {} /\ kms # {NoKms}

\* QueueSecurity::updated: an update has at most one value for each, and what
\* is enabled switches the other off.
EncryptionUpdated(settings, sse, kms) ==
    LET key == IF kms = {} THEN settings.kms ELSE CHOOSE k \in kms : TRUE
        managed == IF kms # {} /\ key # NoKms THEN FALSE ELSE settings.sse
        enabled == IF sse = {} THEN managed ELSE sse = {TRUE}
    IN  [sse |-> enabled, kms |-> IF sse = {TRUE} THEN NoKms ELSE key]
=============================================================================
