----------------------- MODULE RequestPipeline_proofs -----------------------
(***************************************************************************)
(* Proofs about RequestPipeline, for any number of clients, any limits and *)
(* any policies: wildcards and what policies decide, permits, the rate,    *)
(* who callers are, and what a request may do.                             *)
(***************************************************************************)
EXTENDS RequestPipeline, FiniteSetTheorems, WellFoundedInduction, TLAPS

Limits == {MaxInFlight, Rate, Second} \subseteq Nat \ {0} /\ MaxPasses \in Nat

(* The constants that count have their types.                              *)
LEMMA LimitsHold == Limits
BY RequestPipelineAssumption DEF Limits

(* The smaller of two numbers.                                             *)
LEMMA MinOfTwo ==
    ASSUME NEW m \in Int, NEW n \in Int
    PROVE  Min({m, n}) = IF m <= n THEN m ELSE n
<1>1. DEFINE least == IF m <= n THEN m ELSE n
<1>2. least \in {m, n} /\ \A k \in {m, n} : least <= k
  OBVIOUS
<1>3. \A k \in {m, n} : (\A j \in {m, n} : k <= j) => k = least
  OBVIOUS
<1>4. QED
  BY <1>2, <1>3 DEF Min

(* A refill is between what there was and a full bucket, and adds at most  *)
(* what the time pays for.                                                 *)
LEMMA RefilledBounds ==
    ASSUME PipelineTypeOK
    PROVE  /\ Refilled \in 0 .. Rate * Second
           /\ Refilled <= tokens + (clock - updatedAt) * Rate
<1>1. /\ clock - updatedAt \in Nat /\ Rate \in Nat /\ Second \in Nat
      /\ tokens \in Nat /\ tokens <= Rate * Second
  BY LimitsHold DEF PipelineTypeOK, Limits
<1>2. (clock - updatedAt) * Rate \in Nat /\ Rate * Second \in Nat
  BY <1>1
<1>3. QED
  BY <1>1, <1>2, MinOfTwo DEF Refilled
-----------------------------------------------------------------------------
(* Induction and recursion over data                                       *)

(* Every non-empty set of numbers has a least one: of the intervals 0 .. n *)
(* one is smallest, since inclusion of finite sets is well-founded.        *)
LEMMA LeastNumber ==
    ASSUME NEW A, A \subseteq Nat, A # {}
    PROVE  \E n \in A : \A m \in A : n <= m
<1> DEFINE T == {0 .. n : n \in A}
<1>1. IsWellFoundedOn(StrictSubsetOrdering(Nat), FiniteSubsetsOf(Nat))
  BY FS_StrictSubsetOrderingWellFounded
<1>2. T \subseteq FiniteSubsetsOf(Nat)
  <2>1. \A n \in A : 0 .. n \subseteq Nat /\ IsFiniteSet(0 .. n)
    BY FS_Interval
  <2>2. \A x \in T : x \in FiniteSubsetsOf(Nat)
    BY ONLY <2>1 DEF FiniteSubsetsOf
  <2>3. QED
    BY ONLY <2>2
<1>3. T # {}
  OBVIOUS
<1>4. PICK x \in T : \A y \in T : ~ (<<y, x>> \in StrictSubsetOrdering(Nat))
  <2> HIDE DEF T
  <2>1. QED
    BY ONLY <1>1, <1>2, <1>3, WFMin
<1>5. PICK n \in A : x = 0 .. n
  OBVIOUS
<1>6. ASSUME NEW m \in A, m < n
      PROVE  FALSE
  <2>1. /\ 0 .. m \subseteq 0 .. n /\ n \in 0 .. n /\ n \notin 0 .. m
    BY <1>6
  <2>2. <<0 .. m, 0 .. n>> \in StrictSubsetOrdering(Nat)
    BY <2>1 DEF StrictSubsetOrdering
  <2>3. QED
    BY <1>4, <1>5, <2>2
<1>7. QED
  BY <1>6

(* Induction up to a bound, for a set instead of a predicate.              *)
LEMMA SetInduction ==
    ASSUME NEW N \in Nat, NEW A, 0 \in A,
           \A n \in 1 .. N : n - 1 \in A => n \in A
    PROVE  0 .. N \subseteq A
<1> DEFINE left == (0 .. N) \ A
<1>1. SUFFICES ASSUME left # {} PROVE FALSE
  OBVIOUS
<1>2. PICK n \in left : \A m \in left : n <= m
  <2>1. left \subseteq Nat
    OBVIOUS
  <2> HIDE DEF left
  <2>2. QED
    BY <1>1, <2>1, LeastNumber
<1>3. n \in 1 .. N /\ n - 1 \in 0 .. N /\ n - 1 \notin left
  BY <1>2
<1>4. QED
  BY <1>3

\* A function that starts so and goes on by these steps.
Unfolds(f, N, R, start, step) ==
    /\ f \in [0 .. N -> R]
    /\ f[0] = start
    /\ \A n \in 1 .. N : f[n] = step[n][f[n - 1]]

StepsOn(step, N, R) == step \in [1 .. N -> [R -> R]]

(* What is defined by its value at 0 and by steps from each number to the  *)
(* next exists.                                                            *)
LEMMA Recursion ==
    ASSUME NEW N, N \in Nat, NEW R, NEW start, start \in R, NEW step, StepsOn(step, N, R)
    PROVE  \E f : Unfolds(f, N, R, start, step)
<1> DEFINE A == {n \in 0 .. N : \E f : Unfolds(f, n, R, start, step)}
<1>1. 0 \in A
  <2>1. Unfolds([k \in 0 .. 0 |-> start], 0, R, start, step)
    BY DEF Unfolds
  <2>2. 0 \in 0 .. N
    OBVIOUS
  <2>3. QED
    BY <2>1, <2>2
<1>2. ASSUME NEW n \in 1 .. N, n - 1 \in A
      PROVE  n \in A
  <2>1. PICK f : Unfolds(f, n - 1, R, start, step)
    BY <1>2
  <2> DEFINE g == [k \in 0 .. n |-> IF k = n THEN step[n][f[n - 1]] ELSE f[k]]
  <2>2. f[n - 1] \in R /\ step[n] \in [R -> R]
    BY <2>1 DEF Unfolds, StepsOn
  <2>3. g \in [0 .. n -> R]
    <3>1. \A k \in 0 .. n : k # n => k \in 0 .. n - 1
      OBVIOUS
    <3>2. QED
      BY <2>1, <2>2, <3>1 DEF Unfolds
  <2>4. \A k \in 1 .. n : g[k] = step[k][g[k - 1]]
    <3>1. \A k \in 1 .. n : k - 1 \in 0 .. n /\ k - 1 # n /\ (k # n => k \in 1 .. n - 1)
      OBVIOUS
    <3>2. \A k \in 1 .. n - 1 : f[k] = step[k][f[k - 1]]
      BY ONLY <2>1 DEF Unfolds
    <3>3. \A k \in 1 .. n : g[k] = IF k = n THEN step[n][f[n - 1]] ELSE f[k]
      BY ONLY n \in 1 .. N
    <3>4. \A k \in 1 .. n : g[k - 1] = f[k - 1]
      BY ONLY <3>1
    <3> HIDE DEF g
    <3>5. QED
      BY ONLY <3>1, <3>2, <3>3, <3>4
  <2>5. Unfolds(g, n, R, start, step)
    BY <2>1, <2>3, <2>4 DEF Unfolds
  <2> HIDE DEF g
  <2>6. QED
    BY <2>5
<1> HIDE DEF A
<1>3. 0 .. N \subseteq A
  BY <1>1, <1>2, SetInduction
<1>4. QED
  BY <1>3 DEF A
-----------------------------------------------------------------------------
(* Removing permissions                                                    *)

\* The statements of a policy.
Of(s) == {s[k] : k \in DOMAIN s}

\* What defines the function of Without.
Leaves(left, s, label) ==
    left = [n \in 0 .. Len(s) |-> IF n = 0 THEN << >>
                                  ELSE IF s[n].sid = label THEN left[n - 1]
                                  ELSE Append(left[n - 1], s[n])]

(* An appended statement joins the others.                                 *)
LEMMA AppendsOne ==
    ASSUME NEW S, NEW s \in Seq(S), NEW x \in S
    PROVE  Append(s, x) \in Seq(S) /\ Of(Append(s, x)) = Of(s) \cup {x}
<1>1. /\ DOMAIN s = 1 .. Len(s) /\ Len(s) \in Nat
      /\ DOMAIN Append(s, x) = 1 .. Len(s) + 1
      /\ \A k \in 1 .. Len(s) : Append(s, x)[k] = s[k]
      /\ Append(s, x)[Len(s) + 1] = x /\ Append(s, x) \in Seq(S)
  OBVIOUS
<1>2. 1 .. Len(s) + 1 = (1 .. Len(s)) \cup {Len(s) + 1}
  BY <1>1
<1>3. QED
  BY ONLY <1>1, <1>2 DEF Of

(* That function exists.                                                   *)
LEMMA WithoutDefined ==
    ASSUME NEW S, NEW s \in Seq(S), NEW label
    PROVE  /\ Leaves(Without(s, label), s, label)
<1> DEFINE step == [n \in 1 .. Len(s) |-> [r \in Seq(S) |->
                      IF s[n].sid = label THEN r ELSE Append(r, s[n])]]
<1>1. Len(s) \in Nat /\ << >> \in Seq(S) /\ StepsOn(step, Len(s), Seq(S))
  BY DEF StepsOn
<1>2. PICK f : Unfolds(f, Len(s), Seq(S), << >>, step)
  <2> HIDE DEF step
  <2>1. QED
    BY <1>1, Recursion
<1>3. /\ f \in [0 .. Len(s) -> Seq(S)] /\ f[0] = << >>
      /\ \A n \in 1 .. Len(s) : f[n] = step[n][f[n - 1]]
  BY <1>2 DEF Unfolds
<1>4. \A n \in 1 .. Len(s) :
        f[n] = IF s[n].sid = label THEN f[n - 1] ELSE Append(f[n - 1], s[n])
  <2>1. \A n \in 1 .. Len(s) : n - 1 \in 0 .. Len(s)
    BY <1>1
  <2>2. QED
    BY <1>3, <2>1
<1>5. f = [n \in 0 .. Len(s) |-> IF n = 0 THEN f[0] ELSE f[n]]
  BY <1>3
<1>6. Leaves(f, s, label)
  <2>1. \A n \in 0 .. Len(s) : n # 0 => n \in 1 .. Len(s)
    BY <1>1
  <2>2. QED
    BY <1>3, <1>4, <1>5, <2>1 DEF Leaves
<1>7. Without(s, label) = CHOOSE left : Leaves(left, s, label)
  BY DEF Without, Leaves
<1>8. QED
  BY <1>6, <1>7

(* What is left are the statements under other Sids.                       *)
LEMMA WithoutLeaves ==
    ASSUME NEW S, NEW s \in Seq(S), NEW label
    PROVE  /\ Without(s, label)[Len(s)] \in Seq(S)
           /\ Of(Without(s, label)[Len(s)]) = {x \in Of(s) : x.sid # label}
<1> DEFINE left == Without(s, label)
           A == {n \in 0 .. Len(s) :
                   /\ left[n] \in Seq(S)
                   /\ Of(left[n]) = {x \in {s[k] : k \in 1 .. n} : x.sid # label}}
<1>1. /\ Len(s) \in Nat
      /\ left[0] = << >>
      /\ \A n \in 1 .. Len(s) :
            left[n] = IF s[n].sid = label THEN left[n - 1] ELSE Append(left[n - 1], s[n])
  <2>1. Leaves(left, s, label) /\ Len(s) \in Nat
    BY WithoutDefined
  <2> HIDE DEF left
  <2>2. \A n \in 0 .. Len(s) :
          left[n] = IF n = 0 THEN << >>
                    ELSE IF s[n].sid = label THEN left[n - 1] ELSE Append(left[n - 1], s[n])
    BY <2>1, Zenon DEF Leaves
  <2>3. 0 \in 0 .. Len(s) /\ \A n \in 1 .. Len(s) : n \in 0 .. Len(s) /\ n # 0
    BY <2>1
  <2>4. QED
    BY <2>1, <2>2, <2>3
<1> HIDE DEF left
<1>2. 0 \in A
  <2>1. Of(<< >>) = {} /\ << >> \in Seq(S) /\ 1 .. 0 = {} /\ 0 \in 0 .. Len(s)
    BY <1>1 DEF Of
  <2>2. QED
    BY <1>1, <2>1
<1>3. ASSUME NEW n \in 1 .. Len(s), n - 1 \in A
      PROVE  n \in A
  <2>1. /\ left[n - 1] \in Seq(S) /\ n \in 0 .. Len(s) /\ s[n] \in S
        /\ Of(left[n - 1]) = {x \in {s[k] : k \in 1 .. n - 1} : x.sid # label}
    BY <1>1, <1>3
  <2>2. {s[k] : k \in 1 .. n} = {s[k] : k \in 1 .. n - 1} \cup {s[n]}
    <3>1. 1 .. n = (1 .. n - 1) \cup {n}
      BY <1>1
    <3>2. QED
      BY <3>1
  <2>3. CASE s[n].sid = label
    <3>1. left[n] = left[n - 1]
      BY <1>1, <2>3
    <3>2. QED
      BY <2>1, <2>2, <2>3, <3>1
  <2>4. CASE s[n].sid # label
    <3>1. left[n] = Append(left[n - 1], s[n])
      BY <1>1, <2>4
    <3>2. left[n] \in Seq(S) /\ Of(left[n]) = Of(left[n - 1]) \cup {s[n]}
      BY <2>1, <3>1, AppendsOne
    <3>3. QED
      BY <2>1, <2>2, <2>4, <3>2
  <2>5. QED
    BY <2>3, <2>4
<1>4. Len(s) \in A
  <2> HIDE DEF A
  <2>1. 0 .. Len(s) \subseteq A
    BY <1>1, <1>2, <1>3, SetInduction
  <2>2. QED
    BY <1>1, <2>1
<1>5. Of(s) = {s[k] : k \in 1 .. Len(s)}
  BY DEF Of
<1>6. QED
  BY <1>4, <1>5 DEF left

(* A decision depends on the statements only, not on their order.          *)
LEMMA DecidedByStatements ==
    ASSUME NEW s, s # NoPolicy, NEW identity, NEW action
    PROVE  Authorized(s, identity, action) <=>
              /\ \E x \in Of(s) : Applies(x, identity, action) /\ x.effect = "Allow"
              /\ \A x \in Of(s) : Applies(x, identity, action) => x.effect = "Allow"
<1> DEFINE effects == {s[k].effect : k \in {n \in DOMAIN s : Applies(s[n], identity, action)}}
<1>1. effects = {x.effect : x \in {y \in Of(s) : Applies(y, identity, action)}}
  BY DEF Of
<1>2. Authorized(s, identity, action) <=> effects = {"Allow"}
  BY DEF Authorized
<1> HIDE DEF effects
<1>3. QED
  BY <1>1, <1>2

(* Adding a permission and removing it leaves the statements there were.   *)
LEMMA AddedAndRemoved ==
    ASSUME NEW base \in Seq(Statement), NEW new \in Statement,
           Append(base, new) # NoPolicy, \A x \in Of(base) : x.sid # new.sid
    PROVE  /\ PermissionRemoved(Append(base, new), new.sid) \in Seq(Statement)
           /\ Of(PermissionRemoved(Append(base, new), new.sid)) = Of(base)
<1> DEFINE added == Append(base, new)  label == new.sid
<1>1. added \in Seq(Statement) /\ Of(added) = Of(base) \cup {new}
  BY AppendsOne
<1> HIDE DEF added
<1>2. /\ Without(added, label)[Len(added)] \in Seq(Statement)
      /\ Of(Without(added, label)[Len(added)]) = {x \in Of(added) : x.sid # label}
  BY <1>1, WithoutLeaves
<1>3. {x \in Of(added) : x.sid # label} = Of(base)
  BY <1>1
<1>4. PermissionRemoved(added, label) = Without(added, label)[Len(added)]
  BY DEF PermissionRemoved, added
<1>5. QED
  BY <1>2, <1>3, <1>4 DEF added

(* Of every policy that can be stored, every permission can be taken back. *)
LEMMA Revocable == PipelineTypeOK => PermissionsRevocable
<1> SUFFICES ASSUME policy \in Seq(Statement) \cup {NoPolicy},
                    NEW label \in Label, NEW granted \in Granted,
                    NEW identity \in Identity, NEW action \in DOMAIN Word,
                    policy = NoPolicy \/ label \notin Sids(policy)
             PROVE  LET added == PermissionAdded(policy, label, Account, {granted})
                        removed == PermissionRemoved(added, label)
                    IN  Authorized(removed, identity, Word[action]) <=>
                          policy # NoPolicy /\ Authorized(policy, identity, Word[action])
  BY DEF PipelineTypeOK, PermissionsRevocable
<1> DEFINE base == IF policy = NoPolicy THEN << >> ELSE policy
           new == [sid |-> label, effect |-> "Allow",
                   principals |-> {AccountId(a) : a \in Account}, actions |-> {granted}]
           removed == PermissionRemoved(Append(base, new), label)
<1>1. /\ NoPolicy \notin Seq(Statement) /\ NoSid \notin Label /\ granted \in Pattern
      /\ {AccountId(a) : a \in Account} \subseteq Principal
  BY RequestPipelineAssumption
<1>2. base \in Seq(Statement) /\ new \in Statement
  BY <1>1 DEF Statement
<1>3. Append(base, new) \in Seq(Statement)
  BY <1>2, AppendsOne
<1>4. \A x \in Of(base) : x.sid # label
  BY <1>1 DEF Of, Sids
<1>5. removed \in Seq(Statement) /\ Of(removed) = Of(base)
  <2>1. new.sid = label
    OBVIOUS
  <2> HIDE DEF new, base
  <2>2. QED
    BY <1>1, <1>2, <1>3, <1>4, <2>1, AddedAndRemoved
<1>6. PermissionRemoved(PermissionAdded(policy, label, Account, {granted}), label) = removed
  BY DEF PermissionAdded
<1> HIDE DEF removed
<1>7. Authorized(removed, identity, Word[action]) <=>
         /\ \E x \in Of(base) : Applies(x, identity, Word[action]) /\ x.effect = "Allow"
         /\ \A x \in Of(base) : Applies(x, identity, Word[action]) => x.effect = "Allow"
  BY <1>1, <1>5, DecidedByStatements
<1>8. CASE policy = NoPolicy
  BY <1>6, <1>7, <1>8 DEF Of
<1>9. CASE policy # NoPolicy
  <2>1. Authorized(policy, identity, Word[action]) <=>
         /\ \E x \in Of(policy) : Applies(x, identity, Word[action]) /\ x.effect = "Allow"
         /\ \A x \in Of(policy) : Applies(x, identity, Word[action]) => x.effect = "Allow"
    BY <1>9, DecidedByStatements
  <2>2. QED
    BY <1>6, <1>7, <1>9, <2>1
<1>10. QED
  BY <1>8, <1>9
-----------------------------------------------------------------------------
(* Wildcards                                                               *)

\* Where the value must go on for the pattern from i on, given where for i + 1.
FitsFrom(p, v, i, next) ==
    {j \in 1 .. Len(v) + 1 :
        \/ p[i] = "*" /\ \E k \in next : j <= k
        \/ j <= Len(v) /\ p[i] \in {"?", v[j]} /\ j + 1 \in next}

\* What defines the function of Fits.
FitsBy(fits, p, v) ==
    fits = [i \in 1 .. Len(p) + 1 |->
              IF i > Len(p) THEN {Len(v) + 1} ELSE FitsFrom(p, v, i, fits[i + 1])]

(* That function exists: it is defined from the end of the pattern.        *)
LEMMA FitsDefined ==
    ASSUME NEW p, NEW v, Len(p) \in Nat, Len(v) \in Nat
    PROVE  /\ Fits(p, v)[Len(p) + 1] = {Len(v) + 1}
           /\ \A i \in 1 .. Len(p) :
                 Fits(p, v)[i] = FitsFrom(p, v, i, Fits(p, v)[i + 1])
<1> DEFINE N == Len(p)
           R == SUBSET (1 .. Len(v) + 1)
           step == [n \in 1 .. N |-> [r \in R |-> FitsFrom(p, v, N + 1 - n, r)]]
<1>1. N \in Nat /\ {Len(v) + 1} \in R /\ StepsOn(step, N, R)
  BY DEF StepsOn, FitsFrom
<1>2. PICK g : Unfolds(g, N, R, {Len(v) + 1}, step)
  <2> DEFINE start == {Len(v) + 1}
  <2> HIDE DEF step, N, R, start
  <2>1. start \in R
    BY <1>1 DEF start
  <2>2. \E g : Unfolds(g, N, R, start, step)
    BY <1>1, <2>1, Recursion
  <2>3. QED
    BY <2>2 DEF start
<1>3. /\ g \in [0 .. N -> R] /\ g[0] = {Len(v) + 1}
      /\ \A n \in 1 .. N : g[n] = FitsFrom(p, v, N + 1 - n, g[n - 1])
  <2> DEFINE start == {Len(v) + 1}
  <2> HIDE DEF step, N, R, start
  <2>1. \A n \in 1 .. N : n - 1 \in 0 .. N
    BY ONLY <1>1
  <2>2. /\ g \in [0 .. N -> R] /\ g[0] = start
        /\ \A n \in 1 .. N : g[n] = step[n][g[n - 1]]
    BY ONLY <1>2 DEF Unfolds, start
  <2>3. \A n \in 1 .. N : g[n - 1] \in R
    BY ONLY <2>1, <2>2
  <2>4. \A n \in 1 .. N, r \in R : step[n][r] = FitsFrom(p, v, N + 1 - n, r)
    BY ONLY DEF step
  <2>5. \A n \in 1 .. N : g[n] = FitsFrom(p, v, N + 1 - n, g[n - 1])
    BY ONLY <2>2, <2>3, <2>4
  <2>6. QED
    BY ONLY <2>2, <2>5 DEF start
<1> DEFINE f == [i \in 1 .. N + 1 |-> g[N + 1 - i]]
<1> HIDE DEF R, step
<1>4. FitsBy(f, p, v)
  <2>1. \A i \in 1 .. N + 1 :
           f[i] = IF i > N THEN {Len(v) + 1} ELSE FitsFrom(p, v, i, f[i + 1])
    <3>1. CASE N = 0
      BY <1>3, <3>1
    <3>2. ASSUME NEW i \in 1 .. N + 1, i > N
          PROVE  f[i] = {Len(v) + 1}
      BY <1>1, <1>3, <3>2
    <3>3. ASSUME NEW i \in 1 .. N + 1, ~ (i > N)
          PROVE  f[i] = FitsFrom(p, v, i, f[i + 1])
      <4>1. /\ N + 1 - i \in 1 .. N /\ N + 1 - (N + 1 - i) = i
            /\ (N + 1 - i) - 1 = N + 1 - (i + 1) /\ i + 1 \in 1 .. N + 1
        BY <1>1, <3>3
      <4>2. f[i + 1] = g[(N + 1 - i) - 1]
        BY <4>1
      <4>3. g[N + 1 - i] = FitsFrom(p, v, i, g[(N + 1 - i) - 1])
        BY <1>3, <4>1
      <4>4. QED
        BY <4>2, <4>3
    <3>4. QED
      BY <3>2, <3>3
  <2> HIDE DEF N
  <2>2. DOMAIN f = 1 .. N + 1 /\ f = [i \in 1 .. N + 1 |-> f[i]]
    OBVIOUS
  <2>3. QED
    BY <2>1, <2>2 DEF FitsBy, N
<1>5. Fits(p, v) = CHOOSE fits : FitsBy(fits, p, v)
  BY DEF Fits, FitsBy, FitsFrom
<1> HIDE DEF f
<1>6. FitsBy(Fits(p, v), p, v)
  BY <1>4, <1>5
<1> DEFINE fits == Fits(p, v)
<1> HIDE DEF fits
<1>7. \A i \in 1 .. Len(p) + 1 :
         fits[i] = IF i > Len(p) THEN {Len(v) + 1} ELSE FitsFrom(p, v, i, fits[i + 1])
  BY <1>6, Zenon DEF FitsBy, fits
<1>8. /\ Len(p) + 1 \in 1 .. Len(p) + 1 /\ Len(p) + 1 > Len(p)
      /\ \A i \in 1 .. Len(p) : i \in 1 .. Len(p) + 1 /\ ~ (i > Len(p))
  OBVIOUS
<1>9. QED
  BY <1>7, <1>8 DEF fits

(* The places at which a pattern may go on are places of the value.        *)
LEMMA FitsTypes ==
    ASSUME NEW p, NEW v, Len(p) \in Nat, Len(v) \in Nat, NEW i \in 1 .. Len(p) + 1
    PROVE  Fits(p, v)[i] \subseteq 1 .. Len(v) + 1
<1>1. CASE i = Len(p) + 1
  <2>1. Fits(p, v)[i] = {Len(v) + 1} /\ Len(v) + 1 \in 1 .. Len(v) + 1
    BY <1>1, FitsDefined
  <2>2. QED
    BY <2>1
<1>2. CASE i # Len(p) + 1
  <2>1. i \in 1 .. Len(p)
    BY <1>2
  <2>2. Fits(p, v)[i] = FitsFrom(p, v, i, Fits(p, v)[i + 1])
    BY <2>1, FitsDefined
  <2>3. QED
    BY <2>2 DEF FitsFrom
<1>3. QED
  BY <1>1, <1>2

(* Text without a star fits as much of the value as it is long.            *)
LEMMA StarlessFits ==
    ASSUME NEW p, NEW v, Len(p) \in Nat, Len(v) \in Nat,
           NEW a \in 1 .. Len(p) + 1, NEW b \in 1 .. Len(p) + 1, a <= b,
           \A k \in a .. b - 1 : p[k] # "*",
           NEW j \in Fits(p, v)[a]
    PROVE  j + (b - a) \in Fits(p, v)[b]
<1> DEFINE F == Fits(p, v)
           A == {n \in 0 .. b - a : j + n \in F[a + n]}
<1>1. b - a \in Nat /\ j \in Nat /\ j + 0 = j /\ a + 0 = a /\ 0 \in 0 .. b - a
  BY FitsTypes
<1>2. 0 \in A
  BY <1>1
<1>3. ASSUME NEW n \in 1 .. b - a, n - 1 \in A
      PROVE  n \in A
  <2> DEFINE i == a + (n - 1)
  <2>1. /\ i \in 1 .. Len(p) /\ i \in a .. b - 1 /\ i + 1 = a + n
        /\ (j + (n - 1)) + 1 = j + n /\ n \in 0 .. b - a
    BY <1>1
  <2>2. j + (n - 1) \in F[i]
    BY <1>3
  <2> HIDE DEF i
  <2>3. F[i] = FitsFrom(p, v, i, F[i + 1]) /\ p[i] # "*"
    BY <2>1, FitsDefined
  <2> HIDE DEF F
  <2>4. (j + (n - 1)) + 1 \in F[i + 1]
    BY <2>2, <2>3 DEF FitsFrom
  <2>5. QED
    BY <2>1, <2>4
<1>4. 0 .. b - a \subseteq A
  <2> HIDE DEF A
  <2>1. QED
    BY <1>1, <1>2, <1>3, SetInduction
<1>5. b - a \in A /\ a + (b - a) = b
  <2>1. b - a \in 0 .. b - a /\ a + (b - a) = b
    BY <1>1
  <2> HIDE DEF A
  <2>2. QED
    BY <1>4, <2>1
<1>6. QED
  BY <1>5

(* At the end of the value only stars may be left.                         *)
LEMMA StarsFitNothing ==
    ASSUME NEW p, NEW v, Len(p) \in Nat, Len(v) \in Nat, NEW i \in 1 .. Len(p) + 1
    PROVE  Len(v) + 1 \in Fits(p, v)[i] <=> \A k \in i .. Len(p) : p[k] = "*"
<1> DEFINE F == Fits(p, v)  N == Len(p)  V == Len(v)
           Left(m) == V + 1 \in F[m] <=> \A k \in m .. N : p[k] = "*"
           A == {n \in 0 .. N : Left(N + 1 - n)}
<1>1. N \in Nat /\ V \in Nat
  OBVIOUS
<1>2. 0 \in A
  <2>1. F[N + 1] = {V + 1} /\ N + 1 - 0 = N + 1 /\ (N + 1) .. N = {} /\ 0 \in 0 .. N
    BY FitsDefined
  <2>2. QED
    BY <2>1
<1>3. ASSUME NEW n \in 1 .. N, n - 1 \in A
      PROVE  n \in A
  <2> DEFINE m == N + 1 - n
  <2>1. /\ m \in 1 .. N /\ N + 1 - (n - 1) = m + 1 /\ m + 1 \in 1 .. N + 1 /\ n \in 0 .. N
        /\ m .. N = {m} \cup (m + 1 .. N)
    BY <1>1
  <2>2. Left(m + 1)
    BY <1>3, <2>1
  <2>3. /\ F[m] = FitsFrom(p, v, m, F[m + 1])
        /\ F[m + 1] \subseteq 1 .. V + 1
    BY <2>1, FitsDefined, FitsTypes
  <2> HIDE DEF F, V, m
  <2>4. V + 1 \in F[m] <=> p[m] = "*" /\ V + 1 \in F[m + 1]
    <3>1. V + 1 \in 1 .. V + 1 /\ ~ (V + 1 <= V)
      BY <1>1
    <3>2. (\E k \in F[m + 1] : V + 1 <= k) <=> V + 1 \in F[m + 1]
      BY <1>1, <2>3
    <3>3. QED
      BY <2>3, <3>1, <3>2 DEF FitsFrom, V
  <2>5. Left(m)
    BY <2>1, <2>2, <2>4
  <2>6. QED
    BY <2>1, <2>5 DEF m
<1>4. 0 .. N \subseteq A
  <2> HIDE DEF A, N
  <2>1. QED
    BY <1>1, <1>2, <1>3, SetInduction
<1>5. N + 1 - i \in A /\ N + 1 - (N + 1 - i) = i
  <2>1. N + 1 - i \in 0 .. N /\ N + 1 - (N + 1 - i) = i
    BY <1>1
  <2> HIDE DEF A, N
  <2>2. QED
    BY <1>4, <2>1
<1>6. QED
  BY <1>5

\* The variables of the loop stay in range, i and j are equally far behind
\* the last star and the place in the value where it was last tried, and the
\* pattern matches if it does from here, or from a later try of that star.
GlobHolds(p, v, i, j, star, retry) ==
    /\ i \in 1 .. Len(p) + 1 /\ j \in 1 .. Len(v) + 1
    /\ star \in 0 .. Len(p) /\ retry \in 1 .. Len(v) + 1
    /\ retry <= j /\ i = star + 1 + (j - retry)
    /\ star # 0 => p[star] = "*"
    /\ \A k \in star + 1 .. i - 1 : p[k] # "*"
    /\ 1 \in Fits(p, v)[1] <=>
          \/ j \in Fits(p, v)[i]
          \/ star # 0 /\ \E k \in Fits(p, v)[star + 1] : retry < k

GlobInv(p, v, at) ==
    /\ at = GlobAt(at.i, at.j, at.star, at.retry)
    /\ GlobHolds(p, v, at.i, at.j, at.star, at.retry)

(* The invariant of a record is that of its numbers.                       *)
LEMMA GlobInvAt ==
    ASSUME NEW p, NEW v, NEW i, NEW j, NEW star, NEW retry,
           GlobHolds(p, v, i, j, star, retry)
    PROVE  GlobInv(p, v, GlobAt(i, j, star, retry))
<1> DEFINE at == GlobAt(i, j, star, retry)
<1>1. at.i = i /\ at.j = j /\ at.star = star /\ at.retry = retry
  BY DEF GlobAt
<1> HIDE DEF at
<1>2. at = GlobAt(at.i, at.j, at.star, at.retry)
  BY ONLY <1>1 DEF at
<1>3. GlobHolds(p, v, at.i, at.j, at.star, at.retry)
  BY <1>1
<1>4. QED
  BY <1>2, <1>3 DEF GlobInv, at

(* The variables are numbers.                                              *)
LEMMA GlobNumbers ==
    ASSUME NEW p, NEW v, Len(p) \in Nat, Len(v) \in Nat,
           NEW i, NEW j, NEW star, NEW retry, GlobHolds(p, v, i, j, star, retry)
    PROVE  i \in Nat /\ j \in Nat /\ star \in Nat /\ retry \in Nat
BY DEF GlobHolds

(* The loop begins so.                                                     *)
LEMMA GlobInvStart ==
    ASSUME NEW p, NEW v, Len(p) \in Nat, Len(v) \in Nat
    PROVE  GlobInv(p, v, GlobStart)
<1>1. GlobHolds(p, v, 1, 1, 0, 1)
  BY DEF GlobHolds
<1>2. QED
  BY <1>1, GlobInvAt DEF GlobStart

(* Where neither character nor star comes next, nothing fits.              *)
LEMMA NothingFits ==
    ASSUME NEW p, NEW v, Len(p) \in Nat, Len(v) \in Nat,
           NEW i \in 1 .. Len(p) + 1, NEW j \in 1 .. Len(v),
           i <= Len(p) => p[i] \notin {"*", "?", v[j]}
    PROVE  j \notin Fits(p, v)[i]
<1>1. CASE i = Len(p) + 1
  <2>1. Fits(p, v)[i] = {Len(v) + 1} /\ j # Len(v) + 1
    BY <1>1, FitsDefined
  <2>2. QED
    BY <2>1
<1>2. CASE i # Len(p) + 1
  <2>1. i \in 1 .. Len(p)
    BY <1>2
  <2>2. Fits(p, v)[i] = FitsFrom(p, v, i, Fits(p, v)[i + 1])
    BY <2>1, FitsDefined
  <2>3. p[i] \notin {"*", "?", v[j]}
    BY <2>1
  <2>4. QED
    BY <2>2, <2>3 DEF FitsFrom
<1>3. QED
  BY <1>1, <1>2

(* A character that fits: on in both.                                      *)
LEMMA GlobCharacter ==
    ASSUME NEW p, NEW v, Len(p) \in Nat, Len(v) \in Nat,
           NEW i \in Nat, NEW j \in Nat, NEW star \in Nat, NEW retry \in Nat,
           GlobHolds(p, v, i, j, star, retry),
           j <= Len(v), i <= Len(p), p[i] \in {"?", v[j]}, v[j] # "*"
    PROVE  GlobHolds(p, v, i + 1, j + 1, star, retry)
<1> DEFINE F == Fits(p, v)  P == Len(p)  V == Len(v)
<1>1. /\ P \in Nat /\ V \in Nat /\ 1 <= i /\ i <= P /\ 1 <= j /\ j <= V
      /\ star <= P /\ 1 <= retry /\ retry <= V + 1
      /\ retry <= j /\ i = star + 1 + (j - retry)
  BY DEF GlobHolds
<1>2. /\ star # 0 => p[star] = "*"
      /\ \A k \in star + 1 .. i - 1 : p[k] # "*"
      /\ 1 \in F[1] <=>
            \/ j \in F[i]
            \/ star # 0 /\ \E k \in F[star + 1] : retry < k
  BY DEF GlobHolds
<1> HIDE DEF F, P, V
<1>3. i \in 1 .. P /\ j \in 1 .. V
  BY ONLY <1>1, i \in Nat, j \in Nat
<1>4. F[i] = FitsFrom(p, v, i, F[i + 1]) /\ p[i] # "*"
  BY <1>3, FitsDefined DEF F, P
<1>5. j \in F[i] <=> j + 1 \in F[i + 1]
  <2>1. j \in 1 .. Len(v) + 1
    BY ONLY <1>3, <1>1 DEF V
  <2>2. QED
    BY <1>4, <2>1 DEF FitsFrom
<1>6. \A k \in star + 1 .. (i + 1) - 1 : p[k] # "*"
  <2>1. \A k \in star + 1 .. (i + 1) - 1 : k \in star + 1 .. i - 1 \/ k = i
    BY ONLY i \in Nat, star \in Nat
  <2>2. QED
    BY ONLY <1>2, <1>4, <2>1
<1>7. /\ i + 1 \in 1 .. P + 1 /\ j + 1 \in 1 .. V + 1 /\ star \in 0 .. P
      /\ retry \in 1 .. V + 1 /\ retry <= j + 1 /\ i + 1 = star + 1 + ((j + 1) - retry)
  BY ONLY <1>1, i \in Nat, j \in Nat, star \in Nat, retry \in Nat
<1>8. 1 \in F[1] <=>
         \/ j + 1 \in F[i + 1]
         \/ star # 0 /\ \E k \in F[star + 1] : retry < k
  BY ONLY <1>2, <1>5
<1>9. QED
  BY ONLY <1>2, <1>6, <1>7, <1>8 DEF GlobHolds, F, P, V

(* A star: its text is empty, or a later try may find it longer; a later   *)
(* try of the star before need not be considered any more, for what lies   *)
(* between the two has been found as early as it can be.                   *)
LEMMA GlobStar ==
    ASSUME NEW p, NEW v, Len(p) \in Nat, Len(v) \in Nat,
           NEW i \in Nat, NEW j \in Nat, NEW star \in Nat, NEW retry \in Nat,
           GlobHolds(p, v, i, j, star, retry),
           j <= Len(v), i <= Len(p), p[i] = "*", v[j] # "*"
    PROVE  GlobHolds(p, v, i + 1, j, i, j)
<1> DEFINE F == Fits(p, v)  P == Len(p)  V == Len(v)
<1>1. /\ P \in Nat /\ V \in Nat /\ 1 <= i /\ i <= P /\ 1 <= j /\ j <= V
      /\ star <= P /\ 1 <= retry /\ retry <= V + 1
      /\ retry <= j /\ i = star + 1 + (j - retry)
  BY DEF GlobHolds
<1>2. /\ \A k \in star + 1 .. i - 1 : p[k] # "*"
      /\ 1 \in F[1] <=>
            \/ j \in F[i]
            \/ star # 0 /\ \E k \in F[star + 1] : retry < k
  BY DEF GlobHolds
<1> HIDE DEF F, P, V
<1>3. /\ i \in 1 .. P /\ i \in 1 .. P + 1 /\ i + 1 \in 1 .. P + 1 /\ j \in 1 .. V + 1
      /\ star + 1 \in 1 .. P + 1 /\ star + 1 <= i
  BY ONLY <1>1, i \in Nat, j \in Nat, star \in Nat, retry \in Nat
<1>4. F[i] = FitsFrom(p, v, i, F[i + 1])
  BY <1>3, FitsDefined DEF F, P
<1>5. F[i] \subseteq 1 .. V + 1 /\ F[i + 1] \subseteq 1 .. V + 1 /\ F[star + 1] \subseteq 1 .. V + 1
  BY <1>3, FitsTypes DEF F, P, V
<1>6. \A m \in F[i] : \E k \in F[i + 1] : m <= k
  <2>1. \A m \in F[i] : \/ \E k \in F[i + 1] : m <= k
                        \/ m <= V /\ m + 1 \in F[i + 1]
    BY ONLY <1>4 DEF FitsFrom, V
  <2>2. \A m \in F[i] : m <= m + 1
    BY ONLY <1>1, <1>5
  <2>3. QED
    BY ONLY <2>1, <2>2
<1>7. \A m \in 1 .. V + 1 : (\E k \in F[i + 1] : m <= k) => m \in F[i]
  BY ONLY <1>4, p[i] = "*" DEF FitsFrom, V
<1>8. j \in F[i] <=> (j \in F[i + 1] \/ \E k \in F[i + 1] : j < k)
  <2>1. j \in F[i] <=> \E k \in F[i + 1] : j <= k
    BY ONLY <1>3, <1>6, <1>7
  <2>2. \A k \in F[i + 1] : j <= k <=> k = j \/ j < k
    BY ONLY <1>1, <1>5, j \in Nat
  <2>3. QED
    BY ONLY <2>1, <2>2
<1>9. ASSUME NEW k \in F[star + 1], retry < k
      PROVE  j \in F[i]
  <2>1. k + (i - (star + 1)) \in F[i]
    BY <1>2, <1>3, StarlessFits DEF F, P
  <2>2. k \in Nat
    BY ONLY <1>1, <1>5, k \in F[star + 1]
  <2>3. j <= k + (i - (star + 1))
    BY ONLY <1>1, <1>9, <2>2, i \in Nat, j \in Nat, star \in Nat, retry \in Nat
  <2>4. PICK m \in F[i + 1] : k + (i - (star + 1)) <= m
    BY ONLY <1>6, <2>1
  <2>5. m \in Nat /\ k + (i - (star + 1)) \in Int
    BY ONLY <1>1, <1>5, <2>2, m \in F[i + 1], i \in Nat, star \in Nat
  <2>6. j <= m
    BY ONLY <2>3, <2>4, <2>5, j \in Nat
  <2>7. QED
    BY ONLY <1>3, <1>7, <2>6, m \in F[i + 1]
<1>10. 1 \in F[1] <=>
          \/ j \in F[i + 1]
          \/ i # 0 /\ \E k \in F[i + 1] : j < k
  <2>1. i # 0
    BY ONLY <1>1
  <2>2. 1 \in F[1] <=> j \in F[i]
    BY ONLY <1>2, <1>9
  <2>3. QED
    BY ONLY <1>8, <2>1, <2>2
<1>11. /\ i \in 0 .. P /\ j \in 1 .. V + 1
       /\ j <= j /\ i + 1 = i + 1 + (j - j) /\ i + 1 .. (i + 1) - 1 = {}
  BY ONLY <1>1, i \in Nat, j \in Nat
<1>12. QED
  BY ONLY <1>3, <1>10, <1>11, p[i] = "*" DEF GlobHolds, F, P, V

(* Neither: the last star is tried one place later, for where it was tried *)
(* nothing fits.                                                           *)
LEMMA GlobRetry ==
    ASSUME NEW p, NEW v, Len(p) \in Nat, Len(v) \in Nat,
           NEW i \in Nat, NEW j \in Nat, NEW star \in Nat, NEW retry \in Nat,
           GlobHolds(p, v, i, j, star, retry),
           j <= Len(v), i <= Len(p) => p[i] \notin {"*", "?", v[j]}, star # 0
    PROVE  GlobHolds(p, v, star + 1, retry + 1, star, retry + 1)
<1> DEFINE F == Fits(p, v)  P == Len(p)  V == Len(v)
<1>1. /\ P \in Nat /\ V \in Nat /\ 1 <= i /\ i <= P + 1 /\ 1 <= j /\ j <= V
      /\ star <= P /\ 1 <= retry /\ retry <= j /\ star # 0
  BY DEF GlobHolds
<1>2. /\ p[star] = "*"
      /\ 1 \in F[1] <=>
            \/ j \in F[i]
            \/ star # 0 /\ \E k \in F[star + 1] : retry < k
  BY DEF GlobHolds
<1> HIDE DEF F, P, V
<1>3. i \in 1 .. P + 1 /\ j \in 1 .. V /\ star + 1 \in 1 .. P + 1
  BY ONLY <1>1, i \in Nat, j \in Nat, star \in Nat
<1>4. j \notin F[i]
  BY <1>3, NothingFits DEF F, P, V
<1>5. F[star + 1] \subseteq 1 .. V + 1
  BY <1>3, FitsTypes DEF F, P, V
<1>6. \A k \in F[star + 1] : retry < k <=> k = retry + 1 \/ retry + 1 < k
  BY ONLY <1>1, <1>5, retry \in Nat
<1>7. 1 \in F[1] <=>
          \/ retry + 1 \in F[star + 1]
          \/ star # 0 /\ \E k \in F[star + 1] : retry + 1 < k
  BY ONLY <1>2, <1>4, <1>6, <1>1
<1>8. /\ retry + 1 \in 1 .. V + 1 /\ star \in 0 .. P
      /\ retry + 1 <= retry + 1 /\ star + 1 = star + 1 + ((retry + 1) - (retry + 1))
      /\ star + 1 .. (star + 1) - 1 = {}
  BY ONLY <1>1, j \in Nat, star \in Nat, retry \in Nat
<1>9. QED
  BY ONLY <1>2, <1>3, <1>7, <1>8 DEF GlobHolds, F, P, V

\* There is nothing left to do for the loop.
GlobEnded(p, v, at) ==
    \/ at.j > Len(v)
    \/ at.star = 0 /\ (at.i <= Len(p) => p[at.i] \notin {"*", "?", v[at.j]})

\* How far it is: every iteration moves on in the value, or passes a star, or
\* tries one a place later.
Progress(v, j, star, retry) == (star + retry) * (Len(v) + 2) + j
GlobProgress(v, at) == Progress(v, at.j, at.star, at.retry)

(* The order of products.                                                  *)
LEMMA Products ==
    ASSUME NEW a \in Nat, NEW b \in Nat, NEW c \in Nat
    PROVE  /\ a * c \in Nat
           /\ a <= b => a * c <= b * c
           /\ a < b => a * c + c <= b * c
<1>1. a * c \in Nat /\ (a <= b => a * c <= b * c)
  OBVIOUS
<1>2. a < b => a * c + c <= b * c
  <2>1. a * c + c = (a + 1) * c
    OBVIOUS
  <2>2. a < b => (a + 1) * c <= b * c
    OBVIOUS
  <2>3. QED
    BY <2>1, <2>2
<1>3. QED
  BY <1>1, <1>2

(* More than any place in the value is gained with a factor.               *)
LEMMA Gained ==
    ASSUME NEW a \in Nat, NEW b \in Nat, NEW x \in Nat, NEW y \in Nat, NEW d \in Nat,
           a + (d + 2) <= b, x <= d
    PROVE  b + y >= a + x + 1
OBVIOUS

(* A step that adds to the factor is progress, wherever it goes back to.   *)
LEMMA FactorGrows ==
    ASSUME NEW v, NEW V \in Nat, V = Len(v), NEW a \in Nat, NEW b \in Nat, a < b,
           NEW j \in Nat, j <= V, NEW k \in Nat
    PROVE  b * (Len(v) + 2) + k >= a * (Len(v) + 2) + j + 1
<1>1. V + 2 \in Nat
  OBVIOUS
<1>2. a * (V + 2) \in Nat /\ b * (V + 2) \in Nat /\ a * (V + 2) + (V + 2) <= b * (V + 2)
  BY <1>1, Products
<1> DEFINE A == a * (V + 2)  B == b * (V + 2)
<1>3. A \in Nat /\ B \in Nat /\ A + (V + 2) <= B
  BY <1>2
<1> HIDE DEF A, B
<1>4. B + k >= A + j + 1
  BY ONLY <1>3, Gained, V \in Nat, j \in Nat, k \in Nat, j <= V
<1>5. QED
  BY ONLY <1>4, V = Len(v) DEF A, B

(* An iteration keeps the invariant, and makes progress unless there is    *)
(* nothing left to do.                                                     *)
LEMMA GlobIteration ==
    ASSUME NEW p, NEW v, Len(p) \in Nat, Len(v) \in Nat, NEW at, GlobInv(p, v, at),
           \A j \in 1 .. Len(v) : v[j] # "*"
    PROVE  /\ GlobInv(p, v, GlobStep(p, v, at))
           /\ GlobEnded(p, v, at) => GlobStep(p, v, at) = at
           /\ ~ GlobEnded(p, v, at) =>
                 GlobProgress(v, GlobStep(p, v, at)) >= GlobProgress(v, at) + 1
<1> DEFINE on == GlobStep(p, v, at)  P == Len(p)  V == Len(v)
           i == at.i  j == at.j  star == at.star  retry == at.retry
<1>1. GlobHolds(p, v, i, j, star, retry)
  BY DEF GlobInv
<1>2. i \in Nat /\ j \in Nat /\ star \in Nat /\ retry \in Nat
  BY <1>1, GlobNumbers
<1>3. /\ P \in Nat /\ V \in Nat /\ 1 <= j /\ j <= V + 1
      /\ retry <= j /\ i = star + 1 + (j - retry)
  BY <1>1 DEF GlobHolds
<1>4. GlobProgress(v, at) = (star + retry) * (Len(v) + 2) + j
  BY DEF GlobProgress, Progress
<1>5. \A x, y, s, r : GlobProgress(v, GlobAt(x, y, s, r)) = (s + r) * (Len(v) + 2) + y
  BY DEF GlobProgress, Progress, GlobAt
<1>6. /\ GlobEnded(p, v, at) <=>
            \/ j > V
            \/ star = 0 /\ (i <= P => p[i] \notin {"*", "?", v[j]})
      /\ on = IF j > V THEN at
              ELSE IF i <= P /\ p[i] \in {"?", v[j]} THEN GlobAt(i + 1, j + 1, star, retry)
              ELSE IF i <= P /\ p[i] = "*" THEN GlobAt(i + 1, j, i, j)
              ELSE IF star # 0 THEN GlobAt(star + 1, retry + 1, star, retry + 1)
              ELSE at
  BY DEF GlobEnded, GlobStep
<1> HIDE DEF on, P, V, i, j, star, retry
<1>7. star + retry \in Nat /\ (j <= V => v[j] # "*")
  <2>1. j <= V => j \in 1 .. V
    BY ONLY <1>2, <1>3
  <2>2. QED
    BY <1>2, <2>1 DEF V
<1>8. CASE j > V
  <2>1. on = at /\ GlobEnded(p, v, at)
    BY ONLY <1>6, <1>8
  <2>2. QED
    BY ONLY <2>1, GlobInv(p, v, at) DEF on
<1>9. CASE ~ (j > V) /\ i <= P /\ p[i] \in {"?", v[j]}
  <2>1. j <= V /\ v[j] # "*"
    BY ONLY <1>2, <1>3, <1>7, <1>9
  <2>2. on = GlobAt(i + 1, j + 1, star, retry) /\ ~ GlobEnded(p, v, at)
    BY ONLY <1>6, <1>9
  <2>3. GlobHolds(p, v, i + 1, j + 1, star, retry)
    BY <1>1, <1>2, <1>9, <2>1, GlobCharacter DEF P, V
  <2>4. GlobInv(p, v, on)
    BY ONLY <2>2, <2>3, GlobInvAt
  <2>5. GlobProgress(v, on) = (star + retry) * (Len(v) + 2) + (j + 1)
    BY ONLY <1>5, <2>2
  <2>6. GlobProgress(v, on) >= GlobProgress(v, at) + 1
    <3> DEFINE a == (star + retry) * (Len(v) + 2)
    <3>1. a \in Nat
      <4>1. Len(v) + 2 \in Nat
        BY ONLY <1>3 DEF V
      <4>2. QED
        BY ONLY <1>7, <4>1, Products
    <3>2. GlobProgress(v, on) = a + (j + 1) /\ GlobProgress(v, at) = a + j
      BY ONLY <1>4, <2>5
    <3> HIDE DEF a
    <3>3. QED
      BY ONLY <1>2, <3>1, <3>2
  <2>7. QED
    BY ONLY <2>2, <2>4, <2>6 DEF on
<1>10. CASE ~ (j > V) /\ i <= P /\ p[i] \notin {"?", v[j]} /\ p[i] = "*"
  <2>1. j <= V /\ v[j] # "*"
    BY ONLY <1>2, <1>3, <1>7, <1>10
  <2>2. on = GlobAt(i + 1, j, i, j) /\ ~ GlobEnded(p, v, at)
    BY ONLY <1>6, <1>10
  <2>3. GlobHolds(p, v, i + 1, j, i, j)
    BY <1>1, <1>2, <1>10, <2>1, GlobStar DEF P, V
  <2>4. GlobInv(p, v, on)
    BY ONLY <2>2, <2>3, GlobInvAt
  <2>5. GlobProgress(v, on) = (i + j) * (Len(v) + 2) + j
    BY ONLY <1>5, <2>2
  <2>6. i + j \in Nat /\ star + retry < i + j
    BY ONLY <1>2, <1>3
  <2>7. (i + j) * (Len(v) + 2) + j >= (star + retry) * (Len(v) + 2) + j + 1
    BY ONLY <1>2, <1>3, <1>7, <2>1, <2>6, FactorGrows DEF V
  <2>8. QED
    BY ONLY <1>4, <2>2, <2>4, <2>5, <2>7 DEF on
<1>11. CASE ~ (j > V) /\ (i <= P => p[i] \notin {"*", "?", v[j]}) /\ star # 0
  <2>1. j <= V
    BY ONLY <1>2, <1>3, <1>11
  <2>2. on = GlobAt(star + 1, retry + 1, star, retry + 1) /\ ~ GlobEnded(p, v, at)
    BY ONLY <1>6, <1>11
  <2>3. GlobHolds(p, v, star + 1, retry + 1, star, retry + 1)
    BY <1>1, <1>2, <1>11, <2>1, GlobRetry DEF P, V
  <2>4. GlobInv(p, v, on)
    BY ONLY <2>2, <2>3, GlobInvAt
  <2>5. GlobProgress(v, on) = (star + (retry + 1)) * (Len(v) + 2) + (retry + 1)
    BY ONLY <1>5, <2>2
  <2>6. star + (retry + 1) \in Nat /\ retry + 1 \in Nat /\ star + retry < star + (retry + 1)
    BY ONLY <1>2
  <2>7. (star + (retry + 1)) * (Len(v) + 2) + (retry + 1)
           >= (star + retry) * (Len(v) + 2) + j + 1
    BY ONLY <1>2, <1>3, <1>7, <2>1, <2>6, FactorGrows DEF V
  <2>8. QED
    BY ONLY <1>4, <2>2, <2>4, <2>5, <2>7 DEF on
<1>12. CASE ~ (j > V) /\ (i <= P => p[i] \notin {"*", "?", v[j]}) /\ star = 0
  BY <1>6, <1>12 DEF on
<1>13. QED
  BY ONLY <1>8, <1>9, <1>10, <1>11, <1>12 DEF on

\* What defines the function of Glob.
Iterates(loop, p, v) ==
    loop = [n \in 0 .. GlobSteps(p, v) |->
              IF n = 0 THEN GlobStart ELSE GlobStep(p, v, loop[n - 1])]

(* It is defined.                                                          *)
LEMMA GlobDefined ==
    ASSUME NEW p, NEW v, Len(p) \in Nat, Len(v) \in Nat
    PROVE  /\ GlobSteps(p, v) \in Nat
           /\ \E loop : /\ Iterates(loop, p, v)
                        /\ Glob(p, v) <=>
                              /\ loop[GlobSteps(p, v)].j > Len(v)
                              /\ \A k \in loop[GlobSteps(p, v)].i .. Len(p) : p[k] = "*"
<1> DEFINE N == GlobSteps(p, v)
           R == [i : Nat, j : Nat, star : Nat, retry : Nat]
           step == [n \in 1 .. N |-> [r \in R |-> GlobStep(p, v, r)]]
<1>1. N \in Nat
  BY Products DEF GlobSteps
<1>2. GlobStart \in R
  BY DEF GlobStart, GlobAt
<1>3. \A r \in R : GlobStep(p, v, r) \in R
  BY DEF GlobStep, GlobAt
<1> HIDE DEF R
<1>4. StepsOn(step, N, R)
  BY <1>3 DEF StepsOn
<1>5. PICK f : Unfolds(f, N, R, GlobStart, step)
  <2> HIDE DEF step, N
  <2>1. QED
    BY <1>1, <1>2, <1>4, Recursion
<1>6. /\ f \in [0 .. N -> R] /\ f[0] = GlobStart
      /\ \A n \in 1 .. N : f[n] = GlobStep(p, v, f[n - 1])
  <2>1. \A n \in 1 .. N : n - 1 \in 0 .. N
    BY <1>1
  <2>2. QED
    BY <1>5, <2>1 DEF Unfolds
<1>7. Iterates(f, p, v)
  <2>1. f = [n \in 0 .. N |-> IF n = 0 THEN f[0] ELSE f[n]]
    BY <1>6
  <2>2. \A n \in 0 .. N : n # 0 => n \in 1 .. N
    BY <1>1
  <2>3. QED
    BY <1>6, <2>1, <2>2 DEF Iterates
<1> DEFINE loop == CHOOSE g : Iterates(g, p, v)
<1>8. Iterates(loop, p, v)
  BY <1>7
<1>9. Glob(p, v) <=> loop[N].j > Len(v) /\ \A k \in loop[N].i .. Len(p) : p[k] = "*"
  BY DEF Glob, Iterates
<1> HIDE DEF loop
<1>10. QED
  BY <1>1, <1>8, <1>9

(* No run of the loop is longer than the iterations it is given.           *)
LEMMA GlobProgressBounded ==
    ASSUME NEW p, NEW v, Len(p) \in Nat, Len(v) \in Nat, NEW at, GlobInv(p, v, at)
    PROVE  GlobProgress(v, at) < GlobProgress(v, GlobStart) + GlobSteps(p, v)
<1> DEFINE P == Len(p)  V == Len(v)  W == V + 2
           i == at.i  j == at.j  star == at.star  retry == at.retry
           tries == star + retry  most == P + V + 1
           done == tries * W  all == most * W
<1>1. GlobHolds(p, v, i, j, star, retry)
  BY DEF GlobInv
<1>2. /\ P \in Nat /\ V \in Nat /\ star <= P /\ retry <= V + 1 /\ j <= V + 1
      /\ i \in Nat /\ j \in Nat /\ star \in Nat /\ retry \in Nat
  <2>1. i \in Nat /\ j \in Nat /\ star \in Nat /\ retry \in Nat
    BY <1>1, GlobNumbers
  <2>2. QED
    BY <1>1, <2>1 DEF GlobHolds
<1>3. GlobProgress(v, at) = done + j /\ GlobSteps(p, v) = all
  BY DEF GlobProgress, Progress, GlobSteps
<1>4. GlobProgress(v, GlobStart) = (0 + 1) * W + 1
  BY DEF GlobProgress, Progress, GlobStart, GlobAt
<1> HIDE DEF P, V, i, j, star, retry
<1>5. tries \in Nat /\ most \in Nat /\ tries <= most /\ W \in Nat /\ j < W
  BY ONLY <1>2
<1> HIDE DEF W, tries, most
<1>6. done \in Nat /\ all \in Nat /\ done <= all
  BY ONLY <1>5, Products
<1> HIDE DEF done, all
<1>7. GlobProgress(v, GlobStart) = W + 1
  BY ONLY <1>4, <1>5
<1>8. QED
  BY ONLY <1>2, <1>3, <1>5, <1>6, <1>7

(* So in the end it has ended, and the invariant holds.                    *)
LEMMA GlobEnds ==
    ASSUME NEW p, NEW v, Len(p) \in Nat, Len(v) \in Nat, NEW loop, Iterates(loop, p, v),
           \A j \in 1 .. Len(v) : v[j] # "*"
    PROVE  /\ GlobInv(p, v, loop[GlobSteps(p, v)])
           /\ GlobEnded(p, v, loop[GlobSteps(p, v)])
<1> DEFINE N == GlobSteps(p, v)
           M(n) == GlobProgress(v, loop[n])
           A == {n \in 0 .. N :
                   /\ GlobInv(p, v, loop[n])
                   /\ GlobEnded(p, v, loop[n]) \/ M(n) >= GlobProgress(v, GlobStart) + n}
<1>1. N \in Nat
  BY GlobDefined
<1>2. loop[0] = GlobStart /\ \A n \in 1 .. N : loop[n] = GlobStep(p, v, loop[n - 1])
  <2>1. \A n \in 0 .. N : loop[n] = IF n = 0 THEN GlobStart ELSE GlobStep(p, v, loop[n - 1])
    BY Zenon DEF Iterates
  <2>2. 0 \in 0 .. N /\ \A n \in 1 .. N : n \in 0 .. N /\ n # 0
    BY <1>1
  <2>3. QED
    BY <2>1, <2>2
<1>3. \A at : GlobInv(p, v, at) => GlobProgress(v, at) \in Nat
  <2> SUFFICES ASSUME NEW at, GlobInv(p, v, at) PROVE GlobProgress(v, at) \in Nat
    OBVIOUS
  <2> DEFINE V == Len(v)  j == at.j  star == at.star  retry == at.retry
             tries == star + retry  W == V + 2  done == tries * W
  <2>1. V \in Nat /\ star \in Nat /\ retry \in Nat /\ j \in Nat
    BY GlobNumbers DEF GlobInv
  <2>2. GlobProgress(v, at) = done + j
    BY DEF GlobProgress, Progress
  <2> HIDE DEF V, j, star, retry
  <2>3. tries \in Nat /\ W \in Nat
    BY ONLY <2>1
  <2> HIDE DEF tries, W
  <2>4. done \in Nat
    BY ONLY <2>3, Products
  <2> HIDE DEF done
  <2>5. QED
    BY ONLY <2>1, <2>2, <2>4
<1>4. GlobInv(p, v, GlobStart)
  BY GlobInvStart
<1>5. 0 \in A
  BY <1>1, <1>2, <1>3, <1>4
<1>6. ASSUME NEW n \in 1 .. N, n - 1 \in A
      PROVE  n \in A
  <2> DEFINE at == loop[n - 1]  on == GlobStep(p, v, at)
  <2>1. loop[n] = on /\ n \in 0 .. N
    BY <1>1, <1>2
  <2>2. /\ GlobInv(p, v, at)
        /\ GlobEnded(p, v, at) \/ GlobProgress(v, at) >= GlobProgress(v, GlobStart) + (n - 1)
    BY <1>6
  <2> HIDE DEF at
  <2>3. /\ GlobInv(p, v, on)
        /\ GlobEnded(p, v, at) => on = at
        /\ ~ GlobEnded(p, v, at) => GlobProgress(v, on) >= GlobProgress(v, at) + 1
    BY <2>2, GlobIteration
  <2>4. /\ GlobProgress(v, at) \in Nat /\ GlobProgress(v, on) \in Nat
        /\ GlobProgress(v, GlobStart) \in Nat
    BY <1>3, <1>4, <2>2, <2>3
  <2> HIDE DEF on
  <2>5. CASE GlobEnded(p, v, at)
    BY <2>1, <2>3, <2>5
  <2>6. CASE ~ GlobEnded(p, v, at)
    <3>1. GlobProgress(v, on) >= GlobProgress(v, GlobStart) + n
      BY ONLY <1>1, <2>2, <2>3, <2>4, <2>6, n \in 1 .. N
    <3>2. QED
      BY <2>1, <2>3, <3>1
  <2>7. QED
    BY <2>5, <2>6
<1>7. N \in A
  <2> HIDE DEF A, N
  <2>1. 0 .. N \subseteq A
    BY <1>1, <1>5, <1>6, SetInduction
  <2>2. QED
    BY <1>1, <2>1
<1>8. GlobInv(p, v, loop[N]) /\ GlobProgress(v, loop[N]) \in Nat
  BY <1>3, <1>7
<1>9. M(N) < GlobProgress(v, GlobStart) + N
  BY <1>8, GlobProgressBounded
<1>10. GlobProgress(v, GlobStart) \in Nat
  BY <1>3, <1>4
<1>11. QED
  <2>1. GlobEnded(p, v, loop[N]) \/ M(N) >= GlobProgress(v, GlobStart) + N
    BY <1>7
  <2>2. ~ (M(N) >= GlobProgress(v, GlobStart) + N)
    BY <1>1, <1>8, <1>9, <1>10
  <2>3. QED
    BY <1>8, <2>1, <2>2

(* The loop of glob decides whether the value matches the pattern.         *)
LEMMA GlobMatches ==
    ASSUME NEW p, NEW v, Len(p) \in Nat, Len(v) \in Nat,
           \A j \in 1 .. Len(v) : v[j] # "*"
    PROVE  Glob(p, v) <=> Matches(p, v)
<1> DEFINE F == Fits(p, v)
<1>1. PICK loop : /\ Iterates(loop, p, v)
                  /\ Glob(p, v) <=>
                        /\ loop[GlobSteps(p, v)].j > Len(v)
                        /\ \A k \in loop[GlobSteps(p, v)].i .. Len(p) : p[k] = "*"
  BY GlobDefined
<1> DEFINE at == loop[GlobSteps(p, v)]
<1>2. GlobInv(p, v, at) /\ GlobEnded(p, v, at)
  BY <1>1, GlobEnds
<1>3. Glob(p, v) <=> at.j > Len(v) /\ \A k \in at.i .. Len(p) : p[k] = "*"
  BY <1>1
<1> DEFINE P == Len(p)  V == Len(v)
           i == at.i  j == at.j  star == at.star  retry == at.retry
<1> HIDE DEF at
<1>4. GlobHolds(p, v, i, j, star, retry)
  BY <1>2 DEF GlobInv
<1>5. /\ \/ j > V
         \/ star = 0 /\ (i <= P => p[i] \notin {"*", "?", v[j]})
      /\ Glob(p, v) <=> j > V /\ \A k \in i .. P : p[k] = "*"
  BY <1>2, <1>3 DEF GlobEnded
<1>6. i \in Nat /\ j \in Nat /\ star \in Nat /\ retry \in Nat
  BY <1>4, GlobNumbers
<1> HIDE DEF i, j, star, retry
<1>7. /\ P \in Nat /\ V \in Nat /\ 1 <= i /\ i <= P + 1 /\ 1 <= j /\ j <= V + 1
      /\ star <= P /\ 1 <= retry /\ retry <= j /\ i = star + 1 + (j - retry)
  BY <1>4 DEF GlobHolds
<1>8. /\ \A k \in star + 1 .. i - 1 : p[k] # "*"
      /\ Matches(p, v) <=>
            \/ j \in F[i]
            \/ star # 0 /\ \E k \in F[star + 1] : retry < k
  BY <1>4 DEF GlobHolds, Matches
<1> HIDE DEF F, P, V
<1>9. i \in 1 .. P + 1 /\ star + 1 \in 1 .. P + 1 /\ star + 1 <= i
  BY ONLY <1>6, <1>7
<1>10. CASE j > V
  <2>1. j = V + 1
    BY ONLY <1>6, <1>7, <1>10
  <2>2. j \in F[i] <=> \A k \in i .. P : p[k] = "*"
    BY <1>9, <2>1, StarsFitNothing DEF F, P, V
  <2>3. ASSUME NEW k \in F[star + 1], retry < k
        PROVE  FALSE
    <3>1. k + (i - (star + 1)) \in F[i]
      BY <1>8, <1>9, StarlessFits DEF F, P
    <3>2. k \in 1 .. V + 1 /\ k + (i - (star + 1)) \in 1 .. V + 1
      BY <1>9, <3>1, FitsTypes DEF F, P, V
    <3>3. QED
      BY ONLY <1>6, <1>7, <2>1, <2>3, <3>2
  <2>4. QED
    BY ONLY <1>5, <1>8, <1>10, <2>2, <2>3
<1>11. CASE ~ (j > V)
  <2>1. j \in 1 .. V
    BY ONLY <1>6, <1>7, <1>11
  <2>2. star = 0 /\ (i <= P => p[i] \notin {"*", "?", v[j]})
    BY ONLY <1>5, <1>11
  <2>3. j \notin F[i]
    BY <1>9, <2>1, <2>2, NothingFits DEF F, P, V
  <2>4. QED
    BY ONLY <1>5, <1>8, <1>11, <2>2, <2>3
<1>12. QED
  BY ONLY <1>10, <1>11
-----------------------------------------------------------------------------
(* Decisions                                                               *)

(* A statement names whom it is about, or an account of theirs.            *)
LEMMA PrincipalsNamed ==
    ASSUME NEW S, NEW identity
    PROVE  (\E p \in S : PrincipalMatches(p, identity)) <=>
              \/ Everybody \in S
              \/ /\ identity # Anonymous
                 /\ {identity, AccountId(identity.account), Root(identity.account)}
                       \cap S # {}
<1>1. \A p : PrincipalMatches(p, identity) <=>
         \/ p = Everybody
         \/ /\ identity # Anonymous
            /\ p \in {identity, AccountId(identity.account), Root(identity.account)}
  BY DEF PrincipalMatches
<1> DEFINE named == {identity, AccountId(identity.account), Root(identity.account)}
<1> HIDE DEF named
<1>2. \A p : PrincipalMatches(p, identity) <=>
         p = Everybody \/ (identity # Anonymous /\ p \in named)
  BY <1>1 DEF named
<1>3. (\E p \in S : PrincipalMatches(p, identity)) <=>
         Everybody \in S \/ (identity # Anonymous /\ named \cap S # {})
  BY <1>2
<1>4. QED
  BY <1>3 DEF named

(* A statement applies to what its patterns match.                         *)
LEMMA AppliesMatching ==
    ASSUME NEW statement \in Statement, NEW identity, NEW name \in Seq(Letter)
    PROVE  Applies(statement, identity, name) <=>
              /\ \E p \in statement.actions : Matches(p, name)
              /\ \/ Everybody \in statement.principals
                 \/ /\ identity # Anonymous
                    /\ {identity, AccountId(identity.account), Root(identity.account)}
                          \cap statement.principals # {}
<1>1. statement.actions \subseteq Pattern
  BY DEF Statement
<1>2. Len(name) \in Nat /\ \A j \in 1 .. Len(name) : name[j] # "*"
  <2>1. "*" \notin Letter
    BY RequestPipelineAssumption
  <2>2. QED
    BY <2>1
<1>3. \A p \in statement.actions : Len(p) \in Nat
  BY <1>1 DEF Pattern
<1>4. \A p \in statement.actions : Glob(p, name) <=> Matches(p, name)
  BY <1>2, <1>3, GlobMatches
<1>5. (\E p \in statement.actions : Glob(p, name)) <=>
         \E p \in statement.actions : Matches(p, name)
  BY <1>4
<1>6. QED
  BY <1>5, PrincipalsNamed DEF Applies

(* Every policy that can be stored decides as documented.                  *)
LEMMA DecidesRight == PipelineTypeOK => DecisionsRight
<1> SUFFICES ASSUME policy \in Seq(Statement), policy # NoPolicy,
                    NEW identity \in Identity, NEW action \in DOMAIN Word
             PROVE  LET matching(effect) ==
                          \E k \in DOMAIN policy :
                            /\ policy[k].effect = effect
                            /\ \E p \in policy[k].actions : Matches(p, Word[action])
                            /\ \/ Everybody \in policy[k].principals
                               \/ /\ identity # Anonymous
                                  /\ {identity, AccountId(identity.account),
                                      Root(identity.account)}
                                        \cap policy[k].principals # {}
                    IN  Authorized(policy, identity, Word[action]) <=>
                            matching("Allow") /\ ~matching("Deny")
  BY DEF PipelineTypeOK, DecisionsRight
<1> DEFINE applies(k) == Applies(policy[k], identity, Word[action])
           right(k) ==
              /\ \E p \in policy[k].actions : Matches(p, Word[action])
              /\ \/ Everybody \in policy[k].principals
                 \/ /\ identity # Anonymous
                    /\ {identity, AccountId(identity.account), Root(identity.account)}
                          \cap policy[k].principals # {}
<1>1. \A k \in DOMAIN policy :
         policy[k] \in Statement /\ policy[k].effect \in {"Allow", "Deny"}
  <2>1. \A k \in DOMAIN policy : policy[k] \in Statement
    OBVIOUS
  <2>2. \A x \in Statement : x.effect \in {"Allow", "Deny"}
    BY DEF Statement
  <2>3. QED
    BY <2>1, <2>2
<1>2. Word[action] \in Seq(Letter)
  BY RequestPipelineAssumption
<1>3. \A k \in DOMAIN policy : applies(k) <=> right(k)
  BY <1>1, <1>2, AppliesMatching
<1>4. Authorized(policy, identity, Word[action]) <=>
         /\ \E x \in Of(policy) : Applies(x, identity, Word[action]) /\ x.effect = "Allow"
         /\ \A x \in Of(policy) : Applies(x, identity, Word[action]) => x.effect = "Allow"
  BY DecidedByStatements
<1>5. Authorized(policy, identity, Word[action]) <=>
         /\ \E k \in DOMAIN policy : applies(k) /\ policy[k].effect = "Allow"
         /\ \A k \in DOMAIN policy : applies(k) => policy[k].effect = "Allow"
  BY <1>4 DEF Of
<1> HIDE DEF applies, right
<1>6. Authorized(policy, identity, Word[action]) <=>
         /\ \E k \in DOMAIN policy : policy[k].effect = "Allow" /\ right(k)
         /\ ~ \E k \in DOMAIN policy : policy[k].effect = "Deny" /\ right(k)
  BY <1>1, <1>3, <1>5
<1>7. \A effect :
         (\E k \in DOMAIN policy : policy[k].effect = effect /\ right(k)) <=>
         \E k \in DOMAIN policy :
            /\ policy[k].effect = effect
            /\ \E p \in policy[k].actions : Matches(p, Word[action])
            /\ \/ Everybody \in policy[k].principals
               \/ /\ identity # Anonymous
                  /\ {identity, AccountId(identity.account), Root(identity.account)}
                        \cap policy[k].principals # {}
  BY Zenon DEF right
<1>8. QED
  BY ONLY <1>6, <1>7, Zenon
-----------------------------------------------------------------------------
(* Kinds of steps *)

Headed(c, r) ==
    \/ requests[c].at \in {"ready", "sleeping"} /\ r.identity = requests[c].identity
    \/ \E headers \in Headers : r.identity \in Identified(headers)

\* The request of c becomes r and is still admitted.
Moves(c, r) ==
    /\ requests[c] # None
    /\ requests' = [requests EXCEPT ![c] = r]
    /\ r \in Request \ {None}
    /\ r.at \in {"ready", "sleeping"} => Headed(c, r)
    /\ UNCHANGED <<config, clock, admission, poisoned>>

Departs(c) ==
    /\ requests[c] # None
    /\ Leave(c)
    /\ poisoned' \in {poisoned, TRUE}
    /\ UNCHANGED <<config, clock, settings>>

(* Whom a request is identified as is an identity.                         *)
LEMMA IdentitiesKnown ==
    ASSUME PipelineTypeOK, NEW headers \in Headers
    PROVE  Identified(headers) \subseteq Identity
<1>1. headers.principals \in Seq(Identity \ {Anonymous}) /\ Anonymous \in Identity
  BY RequestPipelineAssumption
<1>2. config.principal \in Identity
  BY RequestPipelineAssumption DEF PipelineTypeOK
<1>3. Len(headers.principals) = 1 => headers.principals[1] \in Identity
  BY <1>1
<1>4. LocalIdentity(headers) \subseteq Identity
  BY <1>1, <1>3 DEF LocalIdentity
<1>5. BearerIdentity(headers) \subseteq Identity
  BY <1>2 DEF BearerIdentity
<1>6. QED
  BY <1>4, <1>5 DEF Identified

(* Before the operation: identification, or an error.                      *)
LEMMA IdentifyMoves ==
    ASSUME PipelineTypeOK, NEW c \in Client, NEW action \in DOMAIN Word, Identify(c, action)
    PROVE  \E r \in Request : Moves(c, r)
<1>1. PICK headers \in Headers : \E identity \in Identified(headers) :
         Become(c, Ready(identity, action))
  BY DEF Identify
<1>2. PICK identity \in Identified(headers) : Become(c, Ready(identity, action))
  BY <1>1
<1>3. identity \in Identity
  BY IdentitiesKnown
<1>4. Ready(identity, action) \in Request \ {None}
  BY <1>3, LimitsHold DEF Ready, Request, Limits, None
<1>5. requests[c] # None
  BY DEF Identify, Reading, None
<1>6. Headed(c, Ready(identity, action))
  BY DEF Headed, Ready
<1>7. UNCHANGED <<config, clock, admission, poisoned>>
  BY DEF Identify
<1>8. QED
  BY <1>2, <1>4, <1>5, <1>6, <1>7 DEF Moves, Become

(* An answer is a move.                                                    *)
LEMMA AnswerMoves ==
    ASSUME NEW c \in Client, NEW result \in {"ok", "failed"},
           requests[c] # None, Become(c, Answer(result)),
           UNCHANGED <<config, clock, admission, poisoned>>
    PROVE  \E r \in Request : Moves(c, r)
<1>1. Answer(result) \in Request \ {None} /\ Answer(result).at = "answering"
  BY DEF Answer, Request, None
<1>2. QED
  BY <1>1 DEF Moves, Become

(* Errors before the operation.                                            *)
LEMMA RefusalsMove ==
    ASSUME NEW c \in Client, Reject(c) \/ Refuse(c)
    PROVE  \E r \in Request : Moves(c, r)
<1>1. requests[c] # None
  BY DEF Reject, Refuse, Reading, None
<1>2. Become(c, Answer("failed")) /\ UNCHANGED <<config, clock, admission, poisoned>>
  BY DEF Reject, Refuse
<1>3. QED
  BY <1>1, <1>2, AnswerMoves

(* What has been let in to the mutex is a request.                         *)
LEMMA ReadyIsAdmitted ==
    ASSUME NEW c \in Client, requests[c].at \in {"ready", "sleeping", "answering", "reading"}
    PROVE  requests[c] # None
BY DEF None

(* Under the mutex every operation answers, or waits for another pass.     *)
LEMMA OperateMoves ==
    ASSUME PipelineTypeOK, NEW c \in Client, Operate(c)
    PROVE  \E r \in Request : Moves(c, r)
<1>1. requests[c].at = "ready"
  BY DEF Operate, Fails, Perform, ReceivePage, SetQueueAttributes, AddPermission,
         RemovePermission, DeleteQueue, CreateQueue, Store, Begins, Lock
<1>2. requests[c] # None
  BY <1>1, ReadyIsAdmitted
<1>3. UNCHANGED <<config, clock, admission, poisoned>>
  BY DEF Operate, Fails, Perform, ReceivePage, SetQueueAttributes, AddPermission,
         RemovePermission, DeleteQueue, CreateQueue, Store
<1>4. CASE ReceivePage(c)
  <2>1. CASE Become(c, Answer("ok"))
    BY <2>1, <1>2, <1>3, AnswerMoves
  <2>2. CASE /\ requests[c].passes < MaxPasses
             /\ Become(c, [requests[c] EXCEPT !.at = "sleeping", !.passes = @ + 1])
    <3> DEFINE r == [requests[c] EXCEPT !.at = "sleeping", !.passes = @ + 1]
    <3>1. requests[c] \in [at : {"ready", "sleeping"}, identity : Identity,
                           action : DOMAIN Word, passes : 0 .. MaxPasses]
      BY <1>1 DEF PipelineTypeOK, Request, None, Reading
    <3>2. r \in Request \ {None} /\ r.identity = requests[c].identity
      <4> HIDE DEF r
      <4>1. MaxPasses \in Nat /\ requests[c].passes + 1 \in 0 .. MaxPasses
        BY <3>1, <2>2, LimitsHold DEF Limits
      <4>2. /\ r \in [at : {"ready", "sleeping"}, identity : Identity,
                     action : DOMAIN Word, passes : 0 .. MaxPasses]
            /\ r.at = "sleeping" /\ r.identity = requests[c].identity
        BY ONLY <3>1, <4>1 DEF r
      <4>3. QED
        BY <4>2 DEF Request, None
    <3>3. Moves(c, r)
      BY <1>1, <1>2, <1>3, <2>2, <3>2 DEF Moves, Become, Headed
    <3>4. QED
      BY <3>2, <3>3
  <2>3. QED
    BY <1>4, <2>1, <2>2 DEF ReceivePage
<1>5. CASE ~ReceivePage(c)
  <2>1. Become(c, Answer("ok")) \/ Become(c, Answer("failed"))
    BY <1>5 DEF Operate, Fails, Perform, SetQueueAttributes, AddPermission,
         RemovePermission, DeleteQueue, CreateQueue, Store
  <2>2. QED
    BY <1>2, <1>3, <2>1, AnswerMoves
<1>6. QED
  BY <1>4, <1>5

(* A poll that wakes up is the same request.                               *)
LEMMA WakeMoves ==
    ASSUME PipelineTypeOK, NEW c \in Client, Wake(c)
    PROVE  \E r \in Request : Moves(c, r)
<1> DEFINE r == [requests[c] EXCEPT !.at = "ready"]
<1>1. requests[c] \in [at : {"ready", "sleeping"}, identity : Identity,
                       action : DOMAIN Word, passes : 0 .. MaxPasses]
  BY DEF PipelineTypeOK, Request, None, Reading, Wake
<1>2. r \in Request \ {None} /\ r.identity = requests[c].identity
  BY <1>1 DEF Request, None
<1>3. Moves(c, r)
  BY <1>2, ReadyIsAdmitted DEF Moves, Become, Headed, Wake
<1>4. QED
  BY <1>2, <1>3

(* Every step is one of these.                                             *)
LEMMA StepKinds ==
    ASSUME PipelineTypeOK, [Next]_vars
    PROVE  \/ Throttled \/ Probe \/ Restart \/ Tick \/ UNCHANGED vars
           \/ \E c \in Client : Enter(c) \/ Departs(c)
           \/ \E c \in Client : \E r \in Request : Moves(c, r)
<1>1. ASSUME NEW c \in Client, Panic(c) \/ Disconnect(c) \/ Respond(c)
      PROVE  Departs(c)
  <2>1. requests[c].at \in {"ready", "answering", "reading", "sleeping"}
    BY <1>1 DEF Panic, Lock, Disconnect, Respond
  <2>2. QED
    BY <1>1, <2>1, ReadyIsAdmitted DEF Departs, Panic, Disconnect, Respond
<1>2. ASSUME NEW c \in Client, Proceed(c)
      PROVE  Departs(c) \/ \E r \in Request : Moves(c, r)
  BY <1>1, <1>2, RefusalsMove, IdentifyMoves, OperateMoves, WakeMoves DEF Proceed
<1>3. QED
  BY <1>1, <1>2 DEF Next
-----------------------------------------------------------------------------
(* Permits                                                                 *)

Admitted == {c \in Client : requests[c] # None}

PermitInv == PipelineTypeOK /\ PermitsConserved

(* The requests that are admitted can be counted.                          *)
LEMMA AdmittedFinite == IsFiniteSet(Admitted) /\ Cardinality(Admitted) \in Nat
<1>1. IsFiniteSet(Admitted)
  BY RequestPipelineAssumption, FS_Subset DEF Admitted
<1>2. QED
  BY <1>1, FS_CardinalityType

(* A policy row has a Boolean and a key whatever is updated.               *)
LEMMA EncryptionTyped ==
    ASSUME NEW e \in [sse : BOOLEAN, kms : KmsKey \cup {NoKms}],
           NEW sse \in {{}, {TRUE}, {FALSE}},
           NEW kms \in {{k} : k \in KmsKey \cup {NoKms}} \cup {{}},
           ~Contradictory(sse, kms)
    PROVE  /\ EncryptionUpdated(e, sse, kms) \in [sse : BOOLEAN, kms : KmsKey \cup {NoKms}]
           /\ ~(e.sse /\ e.kms # NoKms) =>
                ~ /\ EncryptionUpdated(e, sse, kms).sse
                  /\ EncryptionUpdated(e, sse, kms).kms # NoKms
<1> DEFINE key == IF kms = {} THEN e.kms ELSE CHOOSE k \in kms : TRUE
           managed == IF kms # {} /\ key # NoKms THEN FALSE ELSE e.sse
           enabled == IF sse = {} THEN managed ELSE sse = {TRUE}
           kept == IF sse = {TRUE} THEN NoKms ELSE key
<1>1. kms # {} => key \in kms
  OBVIOUS
<1>2. key \in KmsKey \cup {NoKms}
  BY <1>1
<1>3. EncryptionUpdated(e, sse, kms) = [sse |-> enabled, kms |-> kept]
  BY DEF EncryptionUpdated
<1>4. enabled \in BOOLEAN /\ kept \in KmsKey \cup {NoKms}
  BY <1>2
<1>5. ASSUME ~(e.sse /\ e.kms # NoKms)
      PROVE  ~(enabled /\ kept # NoKms)
  <2>1. CASE sse # {}
    BY <2>1
  <2>2. CASE sse = {} /\ kms # {}
    BY <2>2, <1>5
  <2>3. CASE sse = {} /\ kms = {}
    BY <2>3, <1>5
  <2>4. QED
    BY <2>1, <2>2, <2>3
<1> HIDE DEF key, managed, enabled, kept
<1>6. QED
  BY <1>3, <1>4, <1>5

(* The steps that may change the settings of the queue.                    *)
LEMMA SettingsSteps ==
    ASSUME [Next]_vars
    PROVE  \/ UNCHANGED settings
           \/ \E c \in Client : \/ SetQueueAttributes(c) \/ AddPermission(c)
                               \/ RemovePermission(c) \/ DeleteQueue(c) \/ CreateQueue(c)
<1>1. ASSUME NEW c \in Client, Fails(c) \/ Perform(c) \/ ReceivePage(c)
      PROVE  UNCHANGED settings
  BY <1>1 DEF Fails, Perform, ReceivePage
<1>2. ASSUME NEW c \in Client,
             \/ Refuse(c) \/ Reject(c) \/ Wake(c) \/ Respond(c) \/ Panic(c)
             \/ Disconnect(c) \/ Enter(c) \/ \E action \in DOMAIN Word : Identify(c, action)
      PROVE  UNCHANGED settings
  BY <1>2 DEF Refuse, Reject, Wake, Respond, Panic, Disconnect, Enter, Identify
<1>3. ASSUME Throttled \/ Probe \/ Restart \/ Tick \/ UNCHANGED vars
      PROVE  UNCHANGED settings
  BY <1>3 DEF Throttled, Probe, Restart, Tick, vars
<1>4. QED
  BY <1>1, <1>2, <1>3 DEF Next, Proceed, Operate

\* What the column of a queue may hold, or that there is no queue.
Stored == Seq(Statement) \cup {NoPolicy, NoQueue}

(* A permission is a statement; with it a policy is one still, and without *)
(* some of its statements.                                                 *)
LEMMA PermissionsTyped ==
    ASSUME policy \in Stored, policy # NoQueue, NEW label \in Label
    PROVE  /\ \A accounts \in SUBSET Account, granted \in Granted :
                 PermissionAdded(policy, label, accounts, {granted}) \in Seq(Statement)
           /\ PermissionRemoved(policy, label) \in Stored
<1>1. policy \in Seq(Statement) \cup {NoPolicy}
  BY DEF Stored
<1>2. ASSUME NEW accounts \in SUBSET Account, NEW granted \in Granted
      PROVE  PermissionAdded(policy, label, accounts, {granted}) \in Seq(Statement)
  <2> DEFINE base == IF policy = NoPolicy THEN << >> ELSE policy
             new == [sid |-> label, effect |-> "Allow",
                     principals |-> {AccountId(a) : a \in accounts}, actions |-> {granted}]
  <2>1. new \in Statement
    <3>1. granted \in Pattern /\ {AccountId(a) : a \in accounts} \subseteq Principal
      BY RequestPipelineAssumption
    <3>2. QED
      BY <3>1 DEF Statement
  <2>2. base \in Seq(Statement)
    BY <1>1
  <2> HIDE DEF base, new
  <2>3. Append(base, new) \in Seq(Statement)
    BY <2>1, <2>2, AppendsOne
  <2>4. QED
    BY <2>3 DEF PermissionAdded, base, new
<1>3. PermissionRemoved(policy, label) \in Stored
  <2>1. CASE policy = NoPolicy
    BY <2>1 DEF PermissionRemoved, Stored
  <2>2. CASE policy # NoPolicy
    <3>1. Without(policy, label)[Len(policy)] \in Seq(Statement)
      BY <1>1, <2>2, WithoutLeaves
    <3>2. QED
      BY <2>2, <3>1 DEF PermissionRemoved, Stored
  <2>3. QED
    BY <2>1, <2>2
<1>4. QED
  BY <1>2, <1>3

(* Whatever is stored is a policy.                                         *)
LEMMA PolicyStep ==
    ASSUME PipelineTypeOK, [Next]_vars
    PROVE  policy' \in Stored
<1>1. policy \in Stored
  BY DEF PipelineTypeOK, Stored
<1>2. Policies \cup {NoPolicy, NoQueue} \subseteq Stored
  BY RequestPipelineAssumption DEF Stored
<1>3. ASSUME NEW c \in Client, SetQueueAttributes(c)
      PROVE  policy' \in Stored
  <2>1. (\E p \in Policies \cup {NoPolicy} : policy' = p) \/ policy' = policy
    BY <1>3 DEF SetQueueAttributes, Store
  <2>2. QED
    BY <1>1, <1>2, <2>1
<1>4. ASSUME NEW c \in Client, AddPermission(c)
      PROVE  policy' \in Stored
  <2>1. PICK label \in Label, accounts \in SUBSET Account \ {{}}, granted \in Granted :
          /\ policy' = PermissionAdded(policy, label, accounts, {granted})
          /\ policy # NoQueue
    BY <1>4 DEF AddPermission, Store, Begins
  <2>2. PermissionAdded(policy, label, accounts, {granted}) \in Seq(Statement)
    BY <1>1, <2>1, PermissionsTyped
  <2>3. QED
    BY <2>1, <2>2 DEF Stored
<1>5. ASSUME NEW c \in Client, RemovePermission(c)
      PROVE  policy' \in Stored
  <2>1. PICK label \in Label :
          policy' = PermissionRemoved(policy, label) /\ policy # NoQueue
    BY <1>5 DEF RemovePermission, Store, Begins
  <2>2. QED
    BY <1>1, <2>1, PermissionsTyped
<1>6. ASSUME NEW c \in Client, DeleteQueue(c) \/ CreateQueue(c)
      PROVE  policy' \in Stored
  <2>1. policy' = NoQueue \/ policy' \in Acceptable
    BY <1>6 DEF DeleteQueue, CreateQueue
  <2>2. QED
    BY <1>2, <2>1 DEF Acceptable
<1>7. CASE UNCHANGED settings
  BY <1>1, <1>7 DEF settings
<1>8. QED
  BY <1>3, <1>4, <1>5, <1>6, <1>7, SettingsSteps

(* What is stored stays valid.                                             *)
LEMMA SettingsStep ==
    ASSUME PipelineTypeOK, SettingsValid, [Next]_vars
    PROVE  /\ encryption' \in [sse : BOOLEAN, kms : KmsKey \cup {NoKms}]
           /\ SettingsValid'
<1> DEFINE Encryption == [sse : BOOLEAN, kms : KmsKey \cup {NoKms}]
<1>1. encryption \in Encryption
  BY DEF PipelineTypeOK
<1>2. CASE UNCHANGED settings
  BY <1>1, <1>2 DEF settings, SettingsValid
<1>3. ASSUME NEW c \in Client, SetQueueAttributes(c)
      PROVE  encryption' \in Encryption /\ SettingsValid'
  <2>1. CASE \E p \in Policies \cup {NoPolicy} :
                Store(c, "SetQueueAttributes", p, encryption)
    BY <2>1, <1>1 DEF Store, SettingsValid
  <2>2. CASE \E sse \in {{}, {TRUE}, {FALSE}},
                kms \in {{k} : k \in KmsKey \cup {NoKms}} \cup {{}} :
              /\ ~Contradictory(sse, kms)
              /\ Store(c, "SetQueueAttributes", policy, EncryptionUpdated(encryption, sse, kms))
    <3>1. PICK sse \in {{}, {TRUE}, {FALSE}},
               kms \in {{k} : k \in KmsKey \cup {NoKms}} \cup {{}} :
              /\ ~Contradictory(sse, kms)
              /\ Store(c, "SetQueueAttributes", policy, EncryptionUpdated(encryption, sse, kms))
      BY <2>2
    <3>2. /\ encryption' = EncryptionUpdated(encryption, sse, kms)
          /\ policy' = policy
      BY <3>1 DEF Store
    <3>3. /\ EncryptionUpdated(encryption, sse, kms) \in Encryption
          /\ ~(encryption.sse /\ encryption.kms # NoKms) =>
                ~ /\ EncryptionUpdated(encryption, sse, kms).sse
                  /\ EncryptionUpdated(encryption, sse, kms).kms # NoKms
      BY <1>1, <3>1, EncryptionTyped
    <3>4. QED
      BY <3>2, <3>3 DEF SettingsValid
  <2>3. QED
    BY <1>3, <2>1, <2>2 DEF SetQueueAttributes
<1>4. ASSUME NEW c \in Client, AddPermission(c) \/ RemovePermission(c)
      PROVE  encryption' \in Encryption /\ SettingsValid'
  BY <1>1, <1>4 DEF AddPermission, RemovePermission, Store, SettingsValid
<1>5. ASSUME NEW c \in Client, DeleteQueue(c) \/ CreateQueue(c)
      PROVE  encryption' \in Encryption /\ SettingsValid'
  <2>1. encryption' = Plain /\ (policy' = NoQueue \/ policy' \in Acceptable)
    BY <1>5 DEF DeleteQueue, CreateQueue
  <2>2. policy' # NoQueue => Accepted(policy')
    BY <2>1 DEF Acceptable
  <2>3. Plain \in Encryption /\ ~(Plain.sse /\ Plain.kms # NoKms)
    BY DEF Plain
  <2>4. QED
    BY <2>1, <2>2, <2>3 DEF SettingsValid
<1>6. QED
  BY <1>2, <1>3, <1>4, <1>5, SettingsSteps

(* A request that enters takes one permit.                                 *)
LEMMA EnterKeepsPermits ==
    ASSUME PermitInv, NEW c \in Client, Enter(c)
    PROVE  PermitsConserved' /\ permits' \in 0 .. MaxInFlight
<1>1. c \notin Admitted /\ Admitted' = Admitted \cup {c}
  BY DEF Admitted, Enter, Become, PermitInv, PipelineTypeOK, Reading, None
<1>2. Cardinality(Admitted') = Cardinality(Admitted) + 1
  BY <1>1, AdmittedFinite, FS_AddElement
<1>3. permits > 0 /\ permits' = permits - 1
  BY DEF Enter, Admit
<1>4. permits \in 0 .. MaxInFlight /\ MaxInFlight \in Nat
      /\ permits + Cardinality(Admitted) = MaxInFlight
  BY LimitsHold DEF PermitInv, PipelineTypeOK, PermitsConserved, Admitted, Limits
<1>5. permits' + Cardinality(Admitted') = MaxInFlight /\ permits' \in 0 .. MaxInFlight
  BY <1>2, <1>3, <1>4, AdmittedFinite
<1>6. QED
  BY <1>5 DEF PermitsConserved, Admitted

(* However a request ends, its permit comes back once.                     *)
LEMMA DepartKeepsPermits ==
    ASSUME PermitInv, NEW c \in Client, Departs(c)
    PROVE  PermitsConserved' /\ permits' \in 0 .. MaxInFlight
<1>1. c \in Admitted /\ Admitted' = Admitted \ {c}
  <2>1. requests \in [Client -> Request] /\ requests' = [requests EXCEPT ![c] = None]
        /\ requests[c] # None
    BY DEF Departs, Leave, Become, PermitInv, PipelineTypeOK
  <2>2. QED
    BY ONLY <2>1, c \in Client DEF Admitted
<1>2. Cardinality(Admitted') = Cardinality(Admitted) - 1
  BY <1>1, AdmittedFinite, FS_RemoveElement
<1>3. permits' = permits + 1
  BY DEF Departs, Leave, PermitBack
<1>4. permits \in 0 .. MaxInFlight /\ MaxInFlight \in Nat
      /\ permits + Cardinality(Admitted) = MaxInFlight
  BY LimitsHold DEF PermitInv, PipelineTypeOK, PermitsConserved, Admitted, Limits
<1>5. Cardinality(Admitted') \in Nat
  <2>1. IsFiniteSet(Admitted')
    BY <1>1, AdmittedFinite, FS_RemoveElement
  <2>2. QED
    BY <2>1, FS_CardinalityType
<1>6. permits' + Cardinality(Admitted') = MaxInFlight /\ permits' \in 0 .. MaxInFlight
  BY <1>2, <1>3, <1>4, <1>5, AdmittedFinite
<1>7. QED
  BY <1>6 DEF PermitsConserved, Admitted

(* Permits and types together are inductive.                               *)
LEMMA PermitStep ==
    ASSUME PermitInv, [Next]_vars,
           encryption' \in [sse : BOOLEAN, kms : KmsKey \cup {NoKms}],
           policy' \in Stored
    PROVE  PermitInv'
<1> USE DEF PermitInv, Stored
<1>1. Refilled \in 0 .. Rate * Second /\ Rate * Second \in Nat /\ clock \in Nat
  BY RefilledBounds, LimitsHold DEF PipelineTypeOK, Limits
<1>2. Refilled >= Second => Refilled - Second \in 0 .. Rate * Second
  BY <1>1, LimitsHold DEF Limits
<1>3. CASE Throttled \/ Probe
  <2>1. /\ tokens' \in 0 .. Rate * Second /\ updatedAt' = clock
        /\ UNCHANGED <<config, clock, permits, requests, poisoned>>
    BY <1>1, <1>2, <1>3 DEF Throttled, Probe, Admit, Updated
  <2>2. QED
    BY <1>1, <2>1 DEF PipelineTypeOK, PermitsConserved
<1>4. CASE Restart
  <2>1. /\ config' \in Configs /\ clock' = clock /\ updatedAt' = clock
        /\ permits' = MaxInFlight /\ tokens' = Rate * Second /\ poisoned' = FALSE
        /\ requests' = [c \in Client |-> None]
    BY <1>4 DEF Restart, ValidConfigs
  <2>2. requests' \in [Client -> Request] /\ {c \in Client : requests'[c] # None} = {}
    BY <2>1 DEF Request
  <2>3. permits' \in 0 .. MaxInFlight /\ tokens' \in 0 .. Rate * Second
        /\ updatedAt' \in 0 .. clock'
    BY <1>1, <2>1, LimitsHold DEF Limits
  <2>4. PermitsConserved'
    <3>1. Cardinality({c \in Client : requests'[c] # None}) = 0
      BY <2>2, FS_EmptySet
    <3>2. QED
      BY <2>1, <3>1, LimitsHold DEF PermitsConserved, Limits
  <2>5. QED
    BY <1>1, <2>1, <2>2, <2>3, <2>4 DEF PipelineTypeOK
<1>5. CASE Tick
  BY <1>1, <1>5 DEF Tick, admission, PipelineTypeOK, PermitsConserved
<1>6. CASE UNCHANGED vars
  BY <1>6 DEF vars, admission, settings, PipelineTypeOK, PermitsConserved
<1>7. ASSUME NEW c \in Client, Enter(c)
      PROVE  PermitInv'
  <2>1. /\ tokens' \in 0 .. Rate * Second /\ updatedAt' = clock
        /\ UNCHANGED <<config, clock, poisoned>>
    BY <1>1, <1>2, <1>7 DEF Enter, Admit, Updated
  <2>2. requests' \in [Client -> Request]
    BY <1>7 DEF Enter, Become, Request, PipelineTypeOK
  <2>3. QED
    BY <1>1, <1>7, <2>1, <2>2, EnterKeepsPermits DEF PipelineTypeOK
<1>8. ASSUME NEW c \in Client, Departs(c)
      PROVE  PermitInv'
  <2>1. UNCHANGED <<config, clock, tokens, updatedAt>> /\ poisoned' \in BOOLEAN
        /\ requests' \in [Client -> Request]
    BY <1>8 DEF Departs, Leave, Become, Request, PipelineTypeOK
  <2>2. QED
    BY <1>8, <2>1, DepartKeepsPermits DEF PipelineTypeOK
<1>9. ASSUME NEW c \in Client, NEW r \in Request, Moves(c, r)
      PROVE  PermitInv'
  <2>1. UNCHANGED <<config, clock, permits, tokens, updatedAt, poisoned>>
    BY <1>9 DEF Moves, admission
  <2>2. requests' \in [Client -> Request]
        /\ {x \in Client : requests'[x] # None} = {x \in Client : requests[x] # None}
    BY <1>9 DEF Moves, PipelineTypeOK
  <2>3. QED
    BY <2>1, <2>2 DEF PipelineTypeOK, PermitsConserved
<1>10. QED
  BY <1>3, <1>4, <1>5, <1>6, <1>7, <1>8, <1>9, StepKinds

IInv == PermitInv /\ SettingsValid

(* The invariant that carries the theorems below.                          *)
LEMMA InvariantHolds == Spec => []IInv
<1>1. Init => IInv
  <2>1. ASSUME Init
        PROVE  IInv
    <3>1. /\ config \in Configs /\ clock = 0 /\ updatedAt = 0 /\ permits = MaxInFlight
          /\ tokens = Rate * Second /\ requests = [c \in Client |-> None]
          /\ poisoned = FALSE /\ policy \in Acceptable /\ encryption = Plain
      BY <2>1 DEF Init, ValidConfigs
    <3>2. MaxInFlight \in Nat /\ Rate * Second \in Nat
      BY LimitsHold DEF Limits
    <3>3. Plain \in [sse : BOOLEAN, kms : KmsKey \cup {NoKms}]
          /\ ~(Plain.sse /\ Plain.kms # NoKms)
      BY DEF Plain
    <3>4. policy \in Seq(Statement) \cup {NoPolicy, NoQueue}
      BY <3>1, RequestPipelineAssumption DEF Acceptable
    <3>5. PipelineTypeOK
      <4>1. requests \in [Client -> Request]
        BY <3>1 DEF Request
      <4>2. tokens \in 0 .. Rate * Second /\ permits \in 0 .. MaxInFlight
            /\ clock \in Nat /\ updatedAt \in 0 .. clock
        BY <3>1, <3>2
      <4>3. QED
        BY <3>1, <3>3, <3>4, <4>1, <4>2 DEF PipelineTypeOK
    <3>6. {c \in Client : requests[c] # None} = {}
      BY <3>1
    <3>7. PermitsConserved
      BY <3>1, <3>2, <3>6, FS_EmptySet DEF PermitsConserved
    <3>8. SettingsValid
      BY <3>1, <3>3 DEF SettingsValid, Acceptable
    <3>9. QED
      BY <3>5, <3>7, <3>8 DEF IInv, PermitInv
  <2>2. QED
    BY <2>1
<1>2. IInv /\ [Next]_vars => IInv'
  BY SettingsStep, PolicyStep, PermitStep DEF IInv, PermitInv
<1>3. QED
  BY <1>1, <1>2, PTL DEF Spec

(* Every variable keeps its type: no permit more than there are, no token  *)
(* more than the bucket holds, no pass of a poll more than are asked for.  *)
THEOREM PipelineTyped == Spec => []PipelineTypeOK
<1>1. IInv => PipelineTypeOK
  BY DEF IInv, PermitInv
<1>2. QED
  BY InvariantHolds, <1>1, PTL

(* However requests end, in whatever order, with any number of clients,    *)
(* every permit is free or held by one of them (try_enter, handle_request).*)
THEOREM PermitsNeverLost == Spec => []PermitsConserved
<1>1. IInv => PermitsConserved
  BY DEF IInv, PermitInv
<1>2. QED
  BY InvariantHolds, <1>1, PTL

(* No sequence of permissions and attribute updates stores a policy that   *)
(* could not be read again, or both kinds of encryption at once.           *)
THEOREM SettingsStayValid == Spec => []SettingsValid
<1>1. IInv => SettingsValid
  BY DEF IInv
<1>2. QED
  BY InvariantHolds, <1>1, PTL

(* Every policy that can ever be stored decides as documented, of patterns *)
(* and names of any length: the loop of glob, which goes back to the last  *)
(* star only, finds a match whenever there is one.                         *)
THEOREM DecisionsStayRight == Spec => []DecisionsRight
<1>1. PipelineTypeOK => DecisionsRight
  BY DecidesRight
<1>2. QED
  BY PipelineTyped, <1>1, PTL

(* RemovePermission takes back what AddPermission granted, whatever the    *)
(* policy was, of however many statements.                                 *)
THEOREM PermissionsStayRevocable == Spec => []PermissionsRevocable
<1>1. PipelineTypeOK => PermissionsRevocable
  BY Revocable
<1>2. QED
  BY PipelineTyped, <1>1, PTL
-----------------------------------------------------------------------------
(* The rate                                                                *)

\* What was admitted since the m-th request, and what the bucket still holds,
\* is paid for by a full bucket and the refill since then.
Paid(m) ==
    (Len(admitted) - m + 1) * Second + tokens
        <= Rate * Second + Rate * (updatedAt - admitted[m])

RateInv ==
    /\ admitted \in Seq(Nat)
    /\ \A m \in 1 .. Len(admitted) : admitted[m] <= updatedAt /\ Paid(m)
    /\ RateBound

(* A count of the tokens without an admission keeps what is paid for.      *)
LEMMA CountPays ==
    ASSUME PipelineTypeOK, RateInv, NEW m \in 1 .. Len(admitted)
    PROVE  (Len(admitted) - m + 1) * Second + Refilled
              <= Rate * Second + Rate * (clock - admitted[m])
<1>1. /\ Second \in Nat /\ Rate \in Nat /\ clock \in Nat /\ updatedAt \in 0 .. clock
      /\ tokens \in Nat /\ Refilled \in Nat
      /\ Refilled <= tokens + (clock - updatedAt) * Rate
  BY RefilledBounds, LimitsHold DEF Limits, PipelineTypeOK
<1>2. admitted[m] \in Nat /\ Paid(m) /\ Len(admitted) - m + 1 \in Nat
  BY DEF RateInv
<1>3. Rate * (clock - admitted[m])
        = Rate * (updatedAt - admitted[m]) + (clock - updatedAt) * Rate
  BY <1>1, <1>2
<1>4. /\ Rate * (updatedAt - admitted[m]) \in Int /\ (clock - updatedAt) * Rate \in Int
      /\ (Len(admitted) - m + 1) * Second \in Int /\ Rate * Second \in Int
  BY <1>1, <1>2
<1>5. (Len(admitted) - m + 1) * Second + tokens
        <= Rate * Second + Rate * (updatedAt - admitted[m])
  BY <1>2 DEF Paid
<1>6. QED
  BY <1>1, <1>3, <1>4, <1>5

(* Nor does an admission: it takes the token that it needs.                *)
LEMMA AdmissionPays ==
    ASSUME PipelineTypeOK, RateInv, Admit
    PROVE  RateInv'
<1>1. /\ Second \in Nat \ {0} /\ Rate \in Nat \ {0} /\ clock \in Nat
      /\ updatedAt \in 0 .. clock
      /\ Refilled \in 0 .. Rate * Second /\ Second <= Refilled
  BY RefilledBounds, LimitsHold DEF Limits, PipelineTypeOK, Admit
<1>2. /\ admitted \in Seq(Nat) /\ admitted' = Append(admitted, clock)
      /\ tokens' = Refilled - Second /\ updatedAt' = clock
  BY DEF Admit, Updated, RateInv
<1> DEFINE n == Len(admitted)
<1>3. /\ n \in Nat /\ Len(admitted') = n + 1 /\ admitted' \in Seq(Nat)
      /\ DOMAIN admitted = 1 .. n /\ DOMAIN admitted' = 1 .. n + 1
      /\ admitted'[n + 1] = clock
      /\ \A m \in 1 .. n : admitted'[m] = admitted[m] /\ admitted[m] \in Nat
  BY <1>1, <1>2
<1>4. \A m \in 1 .. n : admitted[m] <= updatedAt /\ updatedAt <= clock
  BY <1>1 DEF RateInv
<1>5. ASSUME NEW m \in 1 .. n + 1
      PROVE  /\ admitted'[m] <= clock
             /\ (n + 1 - m + 1) * Second <= Rate * Second + Rate * (clock - admitted'[m])
             /\ Paid(m)'
  <2>1. CASE m = n + 1
    <3>1. (n + 1 - m + 1) * Second = Second /\ Rate * (clock - admitted'[m]) = 0
      BY <1>1, <1>3, <2>1
    <3>2. Rate * Second \in Nat /\ Second <= Rate * Second
      BY <1>1
    <3>3. QED
      BY <1>1, <1>2, <1>3, <2>1, <3>1, <3>2 DEF Paid
  <2>2. CASE m # n + 1
    <3>1. m \in 1 .. n
      BY <1>3, <2>2
    <3>2. (n - m + 1) * Second + Refilled <= Rate * Second + Rate * (clock - admitted[m])
      BY <3>1, CountPays
    <3>3. (n + 1 - m + 1) * Second = (n - m + 1) * Second + Second
      BY <1>1, <1>3
    <3>4. /\ (n - m + 1) * Second \in Int /\ Rate * Second \in Int
          /\ Rate * (clock - admitted[m]) \in Int
      BY <1>1, <1>3, <3>1
    <3>5. Paid(m)'
      BY <1>1, <1>2, <1>3, <3>1, <3>2, <3>3, <3>4 DEF Paid
    <3>6. admitted'[m] <= clock
      BY <1>1, <1>3, <1>4, <3>1
    <3>7. (n + 1 - m + 1) * Second <= Rate * Second + Rate * (clock - admitted'[m])
      BY <1>1, <1>3, <3>1, <3>2, <3>3, <3>4
    <3>8. QED
      BY <3>5, <3>6, <3>7
  <2>3. QED
    BY <2>1, <2>2
<1>6. RateBound'
  <2>1. ASSUME NEW m \in 1 .. n + 1, NEW k \in 1 .. n + 1, m <= k
        PROVE  (k - m + 1) * Second <= Rate * Second + Rate * (admitted'[k] - admitted'[m])
    <3>1. CASE k = n + 1
      BY <1>3, <1>5, <3>1
    <3>2. CASE k # n + 1
      <4>1. m \in 1 .. n /\ k \in 1 .. n
        BY <1>3, <2>1, <3>2
      <4>2. (k - m + 1) * Second <= Rate * Second + Rate * (admitted[k] - admitted[m])
        BY <1>3, <2>1, <4>1 DEF RateInv, RateBound
      <4>3. QED
        BY <1>3, <4>1, <4>2
    <3>3. QED
      BY <3>1, <3>2
  <2>2. QED
    BY <1>3, <2>1 DEF RateBound
<1>7. QED
  BY <1>2, <1>3, <1>5, <1>6 DEF RateInv

(* What is paid for stays so.                                              *)
LEMMA RateStep ==
    ASSUME PipelineTypeOK, RateInv, [Next]_vars
    PROVE  RateInv'
<1>1. CASE Probe \/ \E c \in Client : Enter(c)
  BY <1>1, AdmissionPays DEF Probe, Enter
<1>2. CASE Throttled
  <2>1. admitted' = admitted /\ tokens' = Refilled /\ updatedAt' = clock
    BY <1>2 DEF Throttled, Updated
  <2>2. \A m \in 1 .. Len(admitted) : admitted[m] <= clock
    <3>1. clock \in Nat /\ updatedAt \in 0 .. clock /\ admitted \in Seq(Nat)
      BY DEF PipelineTypeOK, RateInv
    <3>2. QED
      BY <3>1 DEF RateInv
  <2>3. QED
    BY <2>1, <2>2, CountPays DEF RateInv, Paid, RateBound
<1>3. CASE Restart
  BY <1>3 DEF Restart, RateInv, RateBound
<1>4. CASE UNCHANGED <<admitted, tokens, updatedAt>>
  BY <1>4 DEF RateInv, RateBound, Paid
<1>5. ASSUME \/ Tick \/ UNCHANGED vars \/ (\E c \in Client : Departs(c))
             \/ \E c \in Client : \E r \in Request : Moves(c, r)
      PROVE  UNCHANGED <<admitted, tokens, updatedAt>>
  BY <1>5 DEF Tick, vars, admission, Departs, Leave, Moves
<1>6. QED
  BY <1>1, <1>2, <1>3, <1>4, <1>5, StepKinds

(* The token bucket keeps its promise for any rate and any resolution of   *)
(* the clock: no stretch of time sees more admissions than a full bucket   *)
(* and the refill of that time allow.                                      *)
THEOREM RateBounded == Spec => []RateBound
<1>1. Init => RateInv
  BY DEF Init, RateInv, RateBound
<1>2. PipelineTypeOK /\ RateInv /\ [Next]_vars => RateInv'
  BY RateStep
<1>3. RateInv => RateBound
  BY DEF RateInv
<1>4. QED
  BY <1>1, <1>2, <1>3, PipelineTyped, PTL DEF Spec
-----------------------------------------------------------------------------
(* Callers                                                                 *)

Known(r) ==
    config.remote /\ r.at \in {"ready", "sleeping"} =>
        \/ config.credential # NoCredential /\ r.identity = config.principal
        \/ config.unsafe /\ r.identity = Anonymous

(* Whom the hooks find in the headers is known if the server is public.    *)
LEMMA RemoteIdentities ==
    ASSUME config \in ValidConfigs, config.remote,
           NEW headers \in Headers, NEW identity \in Identified(headers)
    PROVE  \/ config.credential # NoCredential /\ identity = config.principal
           \/ config.unsafe /\ identity = Anonymous
<1>1. /\ ~config.trustsHeader
      /\ config.credential = NoCredential => config.unsafe
  <2>1. config \in Configs /\ ConfigValid(config)
    BY DEF ValidConfigs
  <2>2. {config.remote, config.unsafe, config.trustsHeader} \subseteq BOOLEAN
    BY <2>1, RequestPipelineAssumption
  <2>3. QED
    BY <2>1, <2>2 DEF ConfigValid
<1>2. CASE config.credential = NoCredential
  BY <1>1, <1>2 DEF Identified, LocalIdentity
<1>3. CASE config.credential # NoCredential
  BY <1>3 DEF Identified, BearerIdentity
<1>4. QED
  BY <1>2, <1>3

CallersInv == config \in ValidConfigs /\ \A c \in Client : Known(requests[c])

(* No step lets a caller in that is not known.                             *)
LEMMA CallersStep ==
    ASSUME PipelineTypeOK, CallersInv, [Next]_vars
    PROVE  CallersInv'
<1>1. ASSUME NEW c \in Client, NEW r \in {None, Reading},
             requests' = [requests EXCEPT ![c] = r], config' = config
      PROVE  CallersInv'
  <2>1. r.at \notin {"ready", "sleeping"}
    BY DEF None, Reading
  <2>2. \A x \in Client : requests'[x] = requests[x] \/ requests'[x] = r
    BY <1>1 DEF PipelineTypeOK
  <2>3. QED
    BY <1>1, <2>1, <2>2 DEF CallersInv, Known
<1>2. ASSUME NEW c \in Client, NEW r \in Request, Moves(c, r)
      PROVE  CallersInv'
  <2>1. /\ config' = config
        /\ \A x \in Client : requests'[x] = IF x = c THEN r ELSE requests[x]
    BY <1>2 DEF Moves, PipelineTypeOK
  <2>2. Known(r)
    <3>1. ASSUME config.remote, r.at \in {"ready", "sleeping"}
          PROVE  \/ config.credential # NoCredential /\ r.identity = config.principal
                 \/ config.unsafe /\ r.identity = Anonymous
      <4>1. Headed(c, r)
        BY <1>2, <3>1 DEF Moves
      <4>2. CASE requests[c].at \in {"ready", "sleeping"} /\ r.identity = requests[c].identity
        BY <3>1, <4>2 DEF CallersInv, Known
      <4>3. CASE \E headers \in Headers : r.identity \in Identified(headers)
        BY <3>1, <4>3, RemoteIdentities DEF CallersInv
      <4>4. QED
        BY <4>1, <4>2, <4>3 DEF Headed
    <3>2. QED
      BY <3>1 DEF Known
  <2>3. QED
    BY <2>1, <2>2 DEF CallersInv, Known
<1>3. CASE Restart
  <2>1. config' \in ValidConfigs /\ \A x \in Client : requests'[x] = None
    BY <1>3 DEF Restart
  <2>2. QED
    BY <2>1 DEF CallersInv, Known, None
<1>4. ASSUME \/ Throttled \/ Probe \/ Tick \/ UNCHANGED vars
      PROVE  CallersInv'
  <2>1. UNCHANGED <<config, requests>>
    BY <1>4 DEF Throttled, Probe, Tick, vars
  <2>2. QED
    BY <2>1 DEF CallersInv, Known
<1>5. ASSUME NEW c \in Client, Enter(c) \/ Departs(c)
      PROVE  CallersInv'
  BY <1>1, <1>5 DEF Enter, Departs, Leave, Become
<1>6. QED
  BY <1>2, <1>3, <1>4, <1>5, StepKinds

(* On a public server nobody is taken for anybody by what the headers say, *)
(* for every configuration that ServerConfig::validate lets through.       *)
THEOREM RemoteCallersStayKnown == Spec => []RemoteCallersKnown
<1>1. Init => CallersInv
  BY DEF Init, CallersInv, Known, None
<1>2. PipelineTypeOK /\ CallersInv /\ [Next]_vars => CallersInv'
  BY CallersStep
<1>3. CallersInv => RemoteCallersKnown
  BY DEF CallersInv, Known, RemoteCallersKnown
<1>4. QED
  BY <1>1, <1>2, <1>3, PipelineTyped, PTL DEF Spec
-----------------------------------------------------------------------------
(* Operations                                                              *)

(* What an operation needs: the mutex, and the policy of the moment.       *)
LEMMA OperatesUnderMutex ==
    ASSUME PipelineTypeOK, [Next]_vars, NEW c \in Client, Operates(c)
    PROVE  ~poisoned /\ (policy # NoQueue => Permitted(c))
<1>1. requests[c].at = "ready" /\ requests'[c].at # "ready" /\ requests'[c] # requests[c]
      /\ requests'[c] # Answer("failed") /\ requests'[c] # None
  BY DEF Operates, Answer, None
<1>2. ASSUME NEW x \in Client, NEW r, requests' = [requests EXCEPT ![x] = r]
      PROVE  x = c /\ r = requests'[c]
  BY <1>1, <1>2 DEF PipelineTypeOK
<1>3. ASSUME NEW x \in Client, Operate(x)
      PROVE  ~poisoned /\ (policy # NoQueue => Permitted(c))
  <2>1. CASE Fails(x)
    <3>1. Become(x, Answer("failed"))
      BY <2>1 DEF Fails
    <3>2. QED
      BY <1>1, <1>2, <3>1 DEF Become
  <2>2. CASE CreateQueue(x)
    BY <2>2 DEF CreateQueue, Lock
  <2>3. ASSUME \/ Perform(x) \/ ReceivePage(x) \/ SetQueueAttributes(x)
               \/ AddPermission(x) \/ RemovePermission(x) \/ DeleteQueue(x)
        PROVE  ~poisoned /\ Permitted(x) /\ x = c
    <3>1. \E r : requests' = [requests EXCEPT ![x] = r]
      BY <2>3 DEF Perform, ReceivePage, SetQueueAttributes, AddPermission,
             RemovePermission, DeleteQueue, Store, Become
    <3>2. ~poisoned /\ Permitted(x)
      BY <2>3 DEF Perform, ReceivePage, SetQueueAttributes, AddPermission,
             RemovePermission, DeleteQueue, Store, Begins, Lock
    <3>3. QED
      BY <1>2, <3>1, <3>2
  <2>4. QED
    BY <1>3, <2>1, <2>2, <2>3 DEF Operate
<1>4. ASSUME NEW x \in Client,
             \/ Refuse(x) \/ Reject(x) \/ Wake(x) \/ Respond(x) \/ Panic(x)
             \/ Disconnect(x) \/ Enter(x) \/ \E action \in DOMAIN Word : Identify(x, action)
      PROVE  FALSE
  <2>1. \/ requests[x].at # "ready"
        \/ requests' = [requests EXCEPT ![x] = None]
    BY <1>4 DEF Refuse, Reject, Wake, Respond, Panic, Disconnect, Enter, Identify,
           Reading, None, Leave, Become
  <2>2. \E r : requests' = [requests EXCEPT ![x] = r]
    BY <1>4 DEF Refuse, Reject, Wake, Respond, Panic, Disconnect, Enter, Identify,
           Leave, Become
  <2>3. QED
    BY <1>1, <1>2, <2>1, <2>2
<1>5. ASSUME Throttled \/ Probe \/ Tick \/ UNCHANGED vars \/ Restart
      PROVE  FALSE
  <2>1. requests' = requests \/ requests' = [x \in Client |-> None]
    BY <1>5 DEF Throttled, Probe, Tick, vars, Restart
  <2>2. QED
    BY <1>1, <2>1
<1>6. QED
  BY <1>3, <1>4, <1>5 DEF Next, Proceed

(* Every operation and every page of a long poll is allowed by the policy  *)
(* of that very moment, however policies change.                           *)
THEOREM AlwaysJudgedNow == Spec => JudgedNow
<1>1. ASSUME PipelineTypeOK, [Next]_vars
      PROVE  [\A c \in Client : Operates(c) /\ policy # NoQueue =>
                Authorized(policy, requests[c].identity, Word[requests[c].action])]_vars
  BY <1>1, OperatesUnderMutex DEF Permitted
<1>2. QED
  BY <1>1, PipelineTyped, PTL DEF Spec, JudgedNow

(* Once an operation has panicked, nothing is performed and no setting     *)
(* changes before the process is replaced.                                 *)
THEOREM PoisonStaysFinal == Spec => PoisonIsFinal
<1>1. ASSUME PipelineTypeOK, [Next]_vars
      PROVE  [poisoned /\ poisoned' =>
                settings' = settings /\ \A c \in Client : ~Operates(c)]_vars
  <2>1. ASSUME poisoned
        PROVE  UNCHANGED settings
    <3>1. ASSUME NEW c \in Client,
                 \/ SetQueueAttributes(c) \/ AddPermission(c) \/ RemovePermission(c)
                 \/ DeleteQueue(c) \/ CreateQueue(c)
          PROVE  FALSE
      BY <2>1, <3>1 DEF SetQueueAttributes, AddPermission, RemovePermission,
             DeleteQueue, CreateQueue, Store, Begins, Lock
    <3>2. QED
      BY <1>1, <3>1, SettingsSteps
  <2>2. QED
    BY <1>1, <2>1, OperatesUnderMutex
<1>2. QED
  BY <1>1, PipelineTyped, PTL DEF Spec, PoisonIsFinal
=============================================================================
