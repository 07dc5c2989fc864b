------------------------- MODULE MCRequestPipeline -------------------------
(***************************************************************************)
(* An instance of RequestPipeline for TLC, with short words for the names  *)
(* of the actions.                                                         *)
(***************************************************************************)
EXTENDS RequestPipeline

CONSTANTS a1, a2, u1, l1, right, wrong

Somebody == IamUser(a1, u1)

Config(remote, unsafe, trusts, credential, principal) ==
    [remote |-> remote, unsafe |-> unsafe, trustsHeader |-> trusts,
     credential |-> credential, principal |-> principal]

\* A local server that trusts the header, a public one with a credential; and
\* two that refuse to start.
AskedConfigs ==
    {Config(FALSE, FALSE, TRUE, NoCredential, Anonymous),
     Config(TRUE, FALSE, FALSE, right, Somebody),
     Config(TRUE, TRUE, TRUE, NoCredential, Anonymous),
     Config(TRUE, FALSE, FALSE, NoCredential, Anonymous)}

SentHeaders ==
    {[principals |-> << >>, tokens |-> << >>],
     [principals |-> <<Somebody>>, tokens |-> << >>],
     [principals |-> <<Somebody, Somebody>>, tokens |-> << >>],
     [principals |-> << >>, tokens |-> <<right>>],
     [principals |-> << >>, tokens |-> <<wrong>>],
     [principals |-> <<Somebody>>, tokens |-> <<right>>]}

Words == [ReceiveMessage |-> <<"a", "b", "a", "b">>, SendMessage |-> <<"b">>,
          SetQueueAttributes |-> <<"a", "b">>, AddPermission |-> <<"a", "a", "b">>,
          RemovePermission |-> <<"b", "a">>, DeleteQueue |-> <<"b", "b">>,
          CreateQueue |-> <<"a">>]

Anything == <<"*">>

UpTo(n, letters) == UNION {[1 .. k -> letters] : k \in 0 .. n}

\* The loop of glob computes what it should, for all short patterns and texts.
ASSUME GlobIsMatching ==
    \A p \in UpTo(4, {"a", "b", "*", "?"}), v \in UpTo(4, {"a", "b"}) :
        Glob(p, v) = Matches(p, v)

Stated(sid, effect, principals, pattern) ==
    [sid |-> sid, effect |-> effect, principals |-> principals, actions |-> {pattern}]

GrantedPatterns == {Anything, Words.SendMessage}

NamedPrincipals == {Everybody, AccountId(a1), Root(a1), IamUser(a2, u1)}

\* Everything to everybody; the same except what ends in b, after one letter
\* more, to the account; to the account only what ends in b.
StoredPolicies ==
    {<<Stated(NoSid, "Allow", {Everybody}, Anything)>>,
     <<Stated(NoSid, "Deny", {Root(a1)}, <<"*", "?", "b">>),
       Stated(NoSid, "Allow", {Everybody}, Anything)>>,
     <<Stated(l1, "Allow", {AccountId(a1), IamUser(a2, u1)}, <<"*", "b">>)>>}
=============================================================================
