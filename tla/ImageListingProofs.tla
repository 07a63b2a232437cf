------------------------- MODULE ImageListingProofs -------------------------
(***************************************************************************)
(* The listing of images and, below it, the retry loop that reads each of  *)
(* its pages, for any buckets, keys, prefixes, policies, names and errors. *)
(*                                                                         *)
(* Of the scan: its types, that an entry was there and could be listed,    *)
(* that nothing which stays is overlooked, and that the ids of a response  *)
(* lead back to its entries.  Of the loop: that it makes no more calls     *)
(* than its policy allows, that it gives up only for a reason, and that    *)
(* its sleeps have a closed form.                                          *)
(*                                                                         *)
(* Both need what only induction gives: that a finite set of ranks can be  *)
(* listed in order, that a list of lists can be flattened, that a function *)
(* given by its first value and a step exists.  These proofs take the      *)
(* least number for which the claim would fail.                            *)
(***************************************************************************)
EXTENDS ImageListing, RetryLoop, FiniteSetTheorems, SequenceTheorems, WellFoundedInduction, TLAPS

-----------------------------------------------------------------------------
(* Order. *)

Less == {ss \in Nat \X Nat : ss[1] < ss[2]}

\* The order of the naturals is well founded, as a relation.
LEMMA LessIsWellFounded == IsWellFoundedOn(Less, Nat)
<1>1. OpToRel(<, Nat) = Less
  BY DEF OpToRel, Less
<1> QED BY <1>1, NatLessThanWellFounded

\* A set of naturals that is not empty has a least member: induction without
\* a predicate as a parameter.
LEMMA LeastMember ==
    ASSUME NEW T \in SUBSET Nat, T # {}
    PROVE  \E x \in T : \A y \in T : x <= y
<1>1. \E x \in T : \A y \in T : ~(<<y, x>> \in Less)
  BY LessIsWellFounded, WFMin
<1>2. \A x, y \in T : <<y, x>> \in Less <=> y < x
  BY DEF Less
<1>3. \A x, y \in T : ~(y < x) => x <= y
  OBVIOUS
<1> QED BY <1>1, <1>2, <1>3

\* A function on the naturals that is given by its first value and a step exists, and
\* what it is up to any number decides what it is: induction without a predicate.
LEMMA RecursionOnNat ==
    ASSUME NEW a \in Nat, NEW g \in [Nat -> Nat]
    PROVE  \E f \in [Nat -> Nat] : f[0] = a /\ \A n \in Nat : f[n + 1] = g[f[n]]
<1> DEFINE UpTo(n) == {h \in [0 .. n -> Nat] : h[0] = a /\ \A i \in 1 .. n : h[i] = g[h[i - 1]]}
<1>1. \A n \in Nat : UpTo(n) # {}
  <2> DEFINE T == {n \in Nat : UpTo(n) = {}}
  <2> SUFFICES ASSUME T # {} PROVE FALSE
    OBVIOUS
  <2>1. PICK n \in T : \A m \in T : n <= m
    BY LeastMember
  <2>2. CASE n = 0
    <3>1. [i \in 0 .. 0 |-> a] \in UpTo(0)
      OBVIOUS
    <3> QED BY <2>2, <3>1
  <2>3. CASE n # 0
    <3>1. n - 1 \in Nat /\ n - 1 \notin T
      <4>1. n \in Nat
        OBVIOUS
      <4> HIDE DEF T
      <4> QED BY <2>1, <2>3, <4>1
    <3>2. PICK h \in [0 .. n - 1 -> Nat] : h[0] = a /\ \A i \in 1 .. n - 1 : h[i] = g[h[i - 1]]
      BY <3>1
    <3> DEFINE k == [i \in 0 .. n |-> IF i = n THEN g[h[n - 1]] ELSE h[i]]
    <3>3. k \in [0 .. n -> Nat]
      <4>1. g[h[n - 1]] \in Nat
        BY <3>1, <3>2
      <4>2. \A i \in 0 .. n : i # n => i \in 0 .. n - 1
        BY <3>1
      <4> QED BY <3>2, <4>1, <4>2
    <3>4. k[0] = a
      BY <2>3, <3>2
    <3>5. \A i \in 1 .. n : k[i] = g[k[i - 1]]
      <4> TAKE i \in 1 .. n
      <4>1. i - 1 \in 0 .. n /\ i - 1 # n /\ i \in 0 .. n
        OBVIOUS
      <4>2. k[i - 1] = h[i - 1]
        BY <4>1
      <4>3. CASE i = n
        BY <4>1, <4>2, <4>3
      <4>4. CASE i # n
        <5>1. i \in 1 .. n - 1
          BY <4>4
        <5> QED BY <3>2, <4>1, <4>2, <4>4, <5>1
      <4> QED BY <4>3, <4>4
    <3> HIDE DEF k
    <3>6. k \in UpTo(n)
      BY <3>3, <3>4, <3>5
    <3> QED BY <3>6
  <2> QED BY <2>2, <2>3
<1>2. ASSUME NEW m \in Nat, NEW n \in Nat, m <= n, NEW h \in UpTo(m), NEW k \in UpTo(n)
      PROVE  \A i \in 0 .. m : h[i] = k[i]
  <2> DEFINE T == {i \in 0 .. m : h[i] # k[i]}
  <2> SUFFICES ASSUME T # {} PROVE FALSE
    OBVIOUS
  <2>1. PICK i \in T : \A j \in T : i <= j
    BY ONLY T # {}, T \in SUBSET Nat, LeastMember
  <2>2. i # 0
    OBVIOUS
  <2>3. i - 1 \in 0 .. m /\ i - 1 \notin T /\ i \in 1 .. m /\ i \in 1 .. n
    BY <1>2, <2>1, <2>2
  <2> QED BY <2>3
<1> DEFINE best(n) == CHOOSE h : h \in UpTo(n)
           f == [n \in Nat |-> best(n)[n]]
<1>3. \A n \in Nat : best(n) \in UpTo(n)
  BY <1>1
<1> HIDE DEF best
<1>4. \A n \in Nat : best(n)[n] \in Nat
  BY <1>3
<1>5. best(0)[0] = a
  BY <1>3
<1>6. ASSUME NEW n \in Nat
      PROVE  best(n + 1)[n + 1] = g[best(n)[n]]
  <2>1. best(n + 1)[n + 1] = g[best(n + 1)[n + 1 - 1]] /\ n + 1 - 1 = n
    BY <1>3
  <2>2. best(n)[n] = best(n + 1)[n]
    <3> HIDE DEF UpTo
    <3>1. best(n) \in UpTo(n) /\ best(n + 1) \in UpTo(n + 1)
      BY <1>3
    <3>2. n + 1 \in Nat /\ n <= n + 1 /\ n \in 0 .. n
      OBVIOUS
    <3> QED BY <1>2, <3>1, <3>2
  <2> QED BY <2>1, <2>2
<1>7. f \in [Nat -> Nat] /\ f[0] = a /\ \A n \in Nat : f[n + 1] = g[f[n]]
  BY <1>4, <1>5, <1>6
<1> QED BY <1>7

-----------------------------------------------------------------------------
(* What the doubling loop of backoffForAttempt computes. *)

DelayPolicies == [maxAttempts : Nat \ {0}, initialDelay : Nat, maxDelay : Nat \ {0}]

\* 2 to the power of n.
LEMMA PowersOfTwo == TwoTo \in [Nat -> Nat] /\ TwoTo[0] = 1 /\ \A n \in Nat : TwoTo[n + 1] = 2 * TwoTo[n]
<1> DEFINE E(f) == [n \in Nat |-> IF n = 0 THEN 1 ELSE 2 * f[n - 1]]
           double == [x \in Nat |-> 2 * x]
<1>1. PICK f \in [Nat -> Nat] : f[0] = 1 /\ \A n \in Nat : f[n + 1] = double[f[n]]
  <2>1. 1 \in Nat /\ double \in [Nat -> Nat]
    OBVIOUS
  <2> HIDE DEF double
  <2> QED BY <2>1, RecursionOnNat
<1>2. f = E(f)
  <2>1. \A n \in Nat : f[n] = IF n = 0 THEN 1 ELSE 2 * f[n - 1]
    <3> TAKE n \in Nat
    <3>1. CASE n # 0
      <4>1. n - 1 \in Nat /\ n - 1 + 1 = n
        BY <3>1
      <4>2. f[n - 1 + 1] = 2 * f[n - 1]
        BY <1>1, <4>1
      <4> QED BY <3>1, <4>1, <4>2
    <3> QED BY <1>1, <3>1
  <2> QED BY <2>1
<1>3. TwoTo = E(TwoTo)
  BY <1>2 DEF TwoTo
<1>4. \A n \in Nat : TwoTo[n] = IF n = 0 THEN 1 ELSE 2 * TwoTo[n - 1]
  BY <1>3
<1>5. TwoTo[0] = 1 /\ \A n \in Nat : TwoTo[n + 1] = 2 * TwoTo[n]
  BY <1>4
<1>6. TwoTo = f
  <2>1. DOMAIN TwoTo = Nat
    BY <1>3
  <2> DEFINE T == {n \in Nat : TwoTo[n] # f[n]}
  <2>2. T = {}
    <3> SUFFICES ASSUME T # {} PROVE FALSE
      OBVIOUS
    <3>1. PICK n \in T : \A m \in T : n <= m
      BY ONLY T # {}, T \in SUBSET Nat, LeastMember
    <3>2. n # 0
      BY <1>1, <1>5
    <3>3. n - 1 \in Nat /\ n - 1 \notin T /\ n - 1 + 1 = n
      BY <3>1, <3>2
    <3>4. TwoTo[n - 1 + 1] = 2 * TwoTo[n - 1] /\ f[n - 1 + 1] = 2 * f[n - 1]
      BY <1>1, <1>5, <3>3
    <3> QED BY <3>3, <3>4
  <2>3. TwoTo = [n \in Nat |-> TwoTo[n]]
    BY <1>3
  <2> QED BY <1>1, <2>2, <2>3
<1> QED BY <1>1, <1>5, <1>6

\* The loop ends with the doubled delay or, from the second retry on, with its cap.
LEMMA BackoffIsClosed ==
    ASSUME NEW p \in DelayPolicies, NEW n \in Nat \ {0}
    PROVE  LET exponential == p.initialDelay * TwoTo[n - 1]
           IN  /\ exponential \in Nat
               /\ BackoffForAttempt(p, n) =
                      IF n = 1 \/ exponential <= p.maxDelay THEN exponential ELSE p.maxDelay
<1> DEFINE I == p.initialDelay
           M == p.maxDelay
           E(f) == [i \in Nat |-> IF i = 0 THEN I ELSE LET d == 2 * f[i - 1] IN IF d >= M THEN M ELSE d]
           doubled == CHOOSE f : f = E(f)
           step == [x \in Nat |-> IF 2 * x >= M THEN M ELSE 2 * x]
           e(k) == I * TwoTo[k]
           Closed(k) == IF k = 0 \/ e(k) <= M THEN e(k) ELSE M
<1>1. I \in Nat /\ M \in Nat \ {0}
  BY DEF DelayPolicies
<1>2. TwoTo \in [Nat -> Nat] /\ TwoTo[0] = 1 /\ \A k \in Nat : TwoTo[k + 1] = 2 * TwoTo[k]
  BY PowersOfTwo
<1> HIDE DEF I, M
<1>3. /\ \A k \in Nat : e(k) \in Nat
      /\ e(0) = I
      /\ \A k \in Nat : e(k + 1) = 2 * e(k)
  <2>1. \A x, y \in Nat : x * y \in Nat /\ x * (2 * y) = 2 * (x * y) /\ x * 1 = x
    OBVIOUS
  <2>2. \A k \in Nat : TwoTo[k] \in Nat
    BY <1>2
  <2> QED BY <1>1, <1>2, <2>1, <2>2
<1> HIDE DEF e
<1>4. PICK f \in [Nat -> Nat] : f[0] = I /\ \A k \in Nat : f[k + 1] = step[f[k]]
  <2>1. step \in [Nat -> Nat]
    BY <1>1
  <2> HIDE DEF step
  <2> QED BY <1>1, <2>1, RecursionOnNat
<1>5. f = E(f)
  <2>1. \A i \in Nat : f[i] = IF i = 0 THEN I ELSE IF 2 * f[i - 1] >= M THEN M ELSE 2 * f[i - 1]
    <3> TAKE i \in Nat
    <3>1. CASE i # 0
      <4>1. i - 1 \in Nat /\ i - 1 + 1 = i
        BY <3>1
      <4>2. f[i - 1 + 1] = IF 2 * f[i - 1] >= M THEN M ELSE 2 * f[i - 1]
        BY <1>4, <4>1
      <4> QED BY <3>1, <4>1, <4>2
    <3> QED BY <1>4, <3>1
  <2> QED BY <2>1
<1>6. doubled = E(doubled)
  BY <1>5
<1> HIDE DEF doubled
<1>7. /\ doubled[0] = I
      /\ \A k \in Nat : doubled[k + 1] = IF 2 * doubled[k] >= M THEN M ELSE 2 * doubled[k]
  <2>1. \A i \in Nat : doubled[i] = IF i = 0 THEN I ELSE IF 2 * doubled[i - 1] >= M THEN M ELSE 2 * doubled[i - 1]
    BY <1>6
  <2>2. \A k \in Nat : k + 1 \in Nat /\ k + 1 # 0 /\ k + 1 - 1 = k
    OBVIOUS
  <2> QED BY <2>1, <2>2
<1>8. \A k \in Nat : doubled[k] = Closed(k)
  <2> DEFINE T == {k \in Nat : doubled[k] # Closed(k)}
  <2> SUFFICES ASSUME T # {} PROVE FALSE
    OBVIOUS
  <2>1. PICK k \in T : \A j \in T : k <= j
    BY ONLY T # {}, T \in SUBSET Nat, LeastMember
  <2>2. k # 0
    BY <1>3, <1>7
  <2> DEFINE j == k - 1
  <2>3. j \in Nat /\ j \notin T /\ j + 1 = k /\ k \in Nat
    BY <2>1, <2>2
  <2> HIDE DEF j
  <2>4. doubled[j] = Closed(j) /\ doubled[k] # Closed(k)
    BY <2>3
  <2>5. doubled[k] = IF 2 * doubled[j] >= M THEN M ELSE 2 * doubled[j]
    BY <1>7, <2>3
  <2>6. e(k) = 2 * e(j) /\ e(j) \in Nat /\ e(k) \in Nat
    BY <1>3, <2>3
  <2>7. CASE j = 0 \/ e(j) <= M
    BY <1>1, <2>2, <2>4, <2>5, <2>6, <2>7
  <2>8. CASE ~(j = 0 \/ e(j) <= M)
    BY <1>1, <2>2, <2>4, <2>5, <2>6, <2>8
  <2> QED BY <2>7, <2>8
<1>9. n - 1 \in Nat
  OBVIOUS
<1>10. BackoffForAttempt(p, n) = IF n <= 1 \/ I <= 0 THEN I ELSE doubled[n - 1]
  BY DEF BackoffForAttempt, doubled, I, M
<1>11. CASE n = 1
  BY <1>1, <1>3, <1>10, <1>11 DEF e, I
<1>12. CASE n # 1 /\ I <= 0
  <2>1. I = 0
    BY <1>1, <1>12
  <2>2. e(n - 1) = 0
    <3>1. \A y \in Nat : 0 * y = 0
      OBVIOUS
    <3> QED BY <1>2, <1>9, <2>1, <3>1 DEF e
  <2> QED BY <1>1, <1>10, <1>12, <2>1, <2>2 DEF e, I, M
<1>13. CASE n # 1 /\ ~(I <= 0)
  <2>1. BackoffForAttempt(p, n) = Closed(n - 1)
    BY <1>8, <1>9, <1>10, <1>13
  <2> QED BY <1>3, <1>9, <1>13, <2>1 DEF e, I, M
<1> QED BY <1>11, <1>12, <1>13

-----------------------------------------------------------------------------
(* The retry loop. *)

\* The loop variable counts the calls, within the policy.
CallsInv ==
    /\ attempt \in Nat \ {0}
    /\ pc = "call" => calls = attempt - 1 /\ attempt <= policy.maxAttempts
    /\ pc = "sleep" => calls = attempt /\ attempt < policy.maxAttempts

\* The n-th sleep lasted what the back-off gives for the n-th attempt.
SleepsInv ==
    /\ Len(sleeps) = attempt - 1
    /\ \A n \in 1 .. Len(sleeps) : sleeps[n] = BackoffForAttempt(policy, n)

LoopInv == RetryTypeOK /\ CallsInv /\ SleepsInv /\ GivesUpForAReason

\* A normalised policy allows one call at least, and its delays are no negative ones.
LEMMA NormalizedPolicies ==
    ASSUME NEW p \in [maxAttempts : Int, initialDelay : Int, maxDelay : Int]
    PROVE  Normalized(p) \in DelayPolicies
BY DEF Normalized, DefaultMaxAttempts, DefaultMaxDelay, DelayPolicies

\* A back-off is a delay.
LEMMA BackoffIsADelay ==
    ASSUME NEW p \in DelayPolicies, NEW n \in Nat \ {0}
    PROVE  BackoffForAttempt(p, n) \in Nat
BY BackoffIsClosed DEF DelayPolicies

LEMMA LoopStarts == RetryInit => LoopInv
<1> SUFFICES ASSUME RetryInit PROVE LoopInv
  OBVIOUS
<1>1. policy \in DelayPolicies
  BY NormalizedPolicies, PoliciesAssumption DEF RetryInit
<1>2. sleeps = <<>> /\ Len(sleeps) = 0 /\ sleeps \in Seq(Nat)
  BY DEF RetryInit
<1>3. pc = "call" /\ attempt = 1 /\ calls = 0 /\ cancelled = FALSE
  BY DEF RetryInit
<1>4. RetryTypeOK
  BY <1>1, <1>2, <1>3 DEF RetryTypeOK, DelayPolicies
<1>5. CallsInv /\ GivesUpForAReason
  BY <1>1, <1>3 DEF CallsInv, GivesUpForAReason, DelayPolicies
<1>6. SleepsInv
  BY <1>2, <1>3 DEF SleepsInv
<1> QED BY <1>4, <1>5, <1>6 DEF LoopInv

LEMMA LoopStep == LoopInv /\ [RetryNext]_retryVars => LoopInv'
<1> SUFFICES ASSUME LoopInv, [RetryNext]_retryVars PROVE LoopInv'
  OBVIOUS
<1> USE DEF LoopInv, RetryTypeOK, CallsInv, GivesUpForAReason
<1>1. CASE CallSucceeds
  BY <1>1 DEF CallSucceeds, SleepsInv
<1>2. CASE CallFails
  <2>1. PICK e \in Errors :
            lastError' = e /\ pc' = IF GivesUp(policy, attempt, e) THEN "failed" ELSE "sleep"
    BY <1>2 DEF CallFails
  <2>2. pc = "call" /\ calls' = calls + 1 /\ UNCHANGED <<policy, attempt, sleeps, cancelled>>
    BY <1>2 DEF CallFails
  <2>3. SleepsInv'
    BY <2>2 DEF SleepsInv
  <2>4. CASE GivesUp(policy, attempt, e)
    BY <2>1, <2>2, <2>3, <2>4 DEF GivesUp
  <2>5. CASE ~GivesUp(policy, attempt, e)
    BY <2>1, <2>2, <2>3, <2>5 DEF GivesUp
  <2> QED BY <2>4, <2>5
<1>3. CASE Wake
  <2>1. /\ pc = "sleep" /\ pc' = "call" /\ attempt' = attempt + 1
        /\ UNCHANGED <<policy, calls, lastError, cancelled>>
        /\ sleeps' = Append(sleeps, BackoffForAttempt(policy, attempt))
    BY <1>3 DEF Wake
  <2>2. policy \in DelayPolicies /\ BackoffForAttempt(policy, attempt) \in Nat
    BY BackoffIsADelay DEF DelayPolicies
  <2>3. /\ sleeps' \in Seq(Nat) /\ Len(sleeps') = Len(sleeps) + 1
        /\ \A n \in 1 .. Len(sleeps) : sleeps'[n] = sleeps[n]
        /\ sleeps'[Len(sleeps) + 1] = BackoffForAttempt(policy, attempt)
    BY <2>1, <2>2, AppendProperties
  <2>4. SleepsInv'
    <3>1. Len(sleeps) \in Nat /\ Len(sleeps) + 1 = attempt
      BY LenProperties DEF SleepsInv
    <3>2. \A n \in 1 .. Len(sleeps') : sleeps'[n] = BackoffForAttempt(policy, n)
      <4> TAKE n \in 1 .. Len(sleeps')
      <4>1. CASE n = Len(sleeps) + 1
        BY <2>3, <3>1, <4>1
      <4>2. CASE n # Len(sleeps) + 1
        <5>1. n \in 1 .. Len(sleeps)
          BY <2>3, <3>1, <4>2
        <5> QED BY <2>3, <5>1 DEF SleepsInv
      <4> QED BY <4>1, <4>2
    <3> QED BY <2>1, <2>3, <3>1, <3>2 DEF SleepsInv
  <2> QED BY <2>1, <2>3, <2>4
<1>4. CASE SleepInterrupted
  BY <1>4 DEF SleepInterrupted, SleepsInv
<1>5. CASE Cancel
  BY <1>5 DEF Cancel, SleepsInv
<1>6. CASE UNCHANGED retryVars
  BY <1>6 DEF retryVars, SleepsInv
<1> QED BY <1>1, <1>2, <1>3, <1>4, <1>5, <1>6 DEF RetryNext, RetryStep

LEMMA AlwaysLoopInv == RetrySpec => []LoopInv
BY LoopStarts, LoopStep, PTL DEF RetrySpec

\* Types of the loop: the policy it works with is a repaired one.
THEOREM LoopIsTyped == RetrySpec => []RetryTypeOK
<1>1. LoopInv => RetryTypeOK
  BY DEF LoopInv
<1> QED BY <1>1, AlwaysLoopInv, PTL

\* The call is never made more often than the policy allows, and a give-up
\* before that limit is explained by a final error or a cancelled context.
THEOREM GiveUpsAreJustified == RetrySpec => []GivesUpForAReason
<1>1. LoopInv => GivesUpForAReason
  BY DEF LoopInv
<1> QED BY <1>1, AlwaysLoopInv, PTL

\* Every sleep of the doubling loop lasts its closed form, for any policy and
\* however many attempts it allows.
THEOREM SleepsAreClosed == RetrySpec => []BackoffClosedForm
<1>1. LoopInv => BackoffClosedForm
  <2> SUFFICES ASSUME LoopInv, NEW n \in 1 .. Len(sleeps)
               PROVE  LET exponential == policy.initialDelay * TwoTo[n - 1]
                      IN  sleeps[n] = IF n = 1 \/ exponential <= policy.maxDelay
                                      THEN exponential
                                      ELSE policy.maxDelay
    BY DEF BackoffClosedForm
  <2>1. policy \in DelayPolicies
    BY DEF LoopInv, RetryTypeOK, DelayPolicies
  <2>2. sleeps[n] = BackoffForAttempt(policy, n) /\ n \in Nat \ {0}
    BY DEF LoopInv, SleepsInv
  <2> QED BY <2>1, <2>2, BackoffIsClosed
<1> QED BY <1>1, AlwaysLoopInv, PTL

-----------------------------------------------------------------------------
(* The members of a set of ranks in order. *)

\* The lists of a set of naturals in ascending order: there is one at most.
Ascending(S) == {s \in [1 .. Cardinality(S) -> S] : \A i, j \in DOMAIN s : i < j => s[i] < s[j]}

\* Without its least member, a set that can be put in order can be put in order with it.
LEMMA LeastComesFirst ==
    ASSUME NEW S \in SUBSET Nat, IsFiniteSet(S), NEW x \in S, \A y \in S : x <= y,
           Ascending(S \ {x}) # {}
    PROVE  Ascending(S) # {}
<1> DEFINE R == S \ {x}
           N == Cardinality(S)
<1>1. IsFiniteSet(R) /\ N \in Nat /\ N # 0 /\ Cardinality(R) = N - 1
  BY FS_RemoveElement, FS_CardinalityType, FS_EmptySet
<1>2. PICK r \in [1 .. N - 1 -> R] : \A i, j \in 1 .. N - 1 : i < j => r[i] < r[j]
  BY <1>1 DEF Ascending
<1> DEFINE s == [i \in 1 .. N |-> IF i = 1 THEN x ELSE r[i - 1]]
<1>3. \A i \in 2 .. N : i - 1 \in 1 .. N - 1 /\ s[i] = r[i - 1] /\ s[i] \in R
  BY <1>1, <1>2
<1>4. s \in [1 .. N -> S]
  BY <1>1, <1>3
<1>5. \A y \in R : y \in Nat /\ x \in Nat /\ x < y
  OBVIOUS
<1>6. \A i, j \in 1 .. N : i < j => s[i] < s[j]
  <2> TAKE i, j \in 1 .. N
  <2> HAVE i < j
  <2>1. j \in 2 .. N
    BY <1>1
  <2>2. CASE i = 1
    BY <1>3, <1>5, <2>1, <2>2
  <2>3. CASE i # 1
    <3>1. i \in 2 .. N /\ i - 1 < j - 1
      BY <1>1, <2>3
    <3> QED BY <1>2, <1>3, <2>1, <3>1
  <2> QED BY <2>2, <2>3
<1>7. s \in Ascending(S)
  BY <1>4, <1>6 DEF Ascending
<1> QED BY <1>7

\* A finite set of naturals can be put in order.
LEMMA CanBePutInOrder ==
    ASSUME NEW S \in SUBSET Nat, IsFiniteSet(S)
    PROVE  Ascending(S) # {}
<1> SUFFICES ASSUME Ascending(S) = {} PROVE FALSE
  OBVIOUS
<1> DEFINE Disorder == {D \in SUBSET Nat : IsFiniteSet(D) /\ Ascending(D) = {}}
           Sizes == {Cardinality(D) : D \in Disorder}
<1>1. Sizes \in SUBSET Nat /\ Sizes # {}
  BY FS_CardinalityType
<1>2. PICK n \in Sizes : \A m \in Sizes : n <= m
  BY ONLY <1>1, LeastMember
<1>3. PICK D \in Disorder : Cardinality(D) = n
  OBVIOUS
<1>4. D # {}
  <2>1. Cardinality({}) = 0
    BY FS_EmptySet
  <2>2. 1 .. 0 = {}
    OBVIOUS
  <2>3. [i \in {} |-> i] \in Ascending({})
    BY <2>1, <2>2 DEF Ascending
  <2> QED BY <2>3
<1>5. PICK x \in D : \A y \in D : x <= y
  BY <1>4, LeastMember
<1>6. D \ {x} \in SUBSET Nat /\ IsFiniteSet(D \ {x}) /\ Cardinality(D \ {x}) = n - 1
  BY <1>3, FS_RemoveElement
<1>7. Ascending(D \ {x}) # {}
  BY <1>1, <1>2, <1>6, n \in Nat
<1> QED BY <1>5, <1>7, LeastComesFirst

\* InOrder lists every member once, the smaller before the larger.
LEMMA InOrderLists ==
    ASSUME NEW S \in SUBSET Nat, IsFiniteSet(S)
    PROVE  /\ Cardinality(S) \in Nat
           /\ InOrder(S) \in [1 .. Cardinality(S) -> S]
           /\ \A i, j \in 1 .. Cardinality(S) : i < j => InOrder(S)[i] < InOrder(S)[j]
           /\ \A i, j \in 1 .. Cardinality(S) : InOrder(S)[i] = InOrder(S)[j] => i = j
           /\ Range(InOrder(S)) = S
<1> DEFINE N == Cardinality(S)
           s == InOrder(S)
<1>1. N \in Nat
  BY FS_CardinalityType
<1>2. \E t \in [1 .. N -> S] : \A i, j \in DOMAIN t : i < j => t[i] < t[j]
  BY CanBePutInOrder DEF Ascending
<1>3. s \in [1 .. N -> S] /\ \A i, j \in DOMAIN s : i < j => s[i] < s[j]
  BY <1>2 DEF InOrder
<1> HIDE DEF s
<1>4. \A i, j \in 1 .. N : s[i] = s[j] => i = j
  <2> SUFFICES ASSUME NEW i \in 1 .. N, NEW j \in 1 .. N, s[i] = s[j], i # j PROVE FALSE
    OBVIOUS
  <2>1. i < j \/ j < i
    BY <1>1
  <2>2. s[i] \in Nat /\ s[j] \in Nat
    BY <1>3
  <2> QED BY <1>3, <2>1, <2>2
<1>5. s \in Injection(1 .. N, S)
  BY <1>3, <1>4 DEF Injection, IsInjective
<1>6. Cardinality(1 .. N) = N
  BY <1>1, FS_Interval
<1>7. s \in Surjection(1 .. N, S)
  BY <1>5, <1>6, FS_Injection
<1>8. Range(s) = S
  BY <1>3, <1>7 DEF Surjection, Range
<1> QED BY <1>1, <1>3, <1>4, <1>8 DEF s

\* The positions 1 to n are in order as they are.
LEMMA IntervalIsInOrder ==
    ASSUME NEW n \in Nat
    PROVE  InOrder(1 .. n) = [i \in 1 .. n |-> i]
<1> DEFINE s == InOrder(1 .. n)
<1>1. IsFiniteSet(1 .. n) /\ Cardinality(1 .. n) = n /\ 1 .. n \in SUBSET Nat
  BY FS_Interval
<1>2. /\ s \in [1 .. n -> 1 .. n]
      /\ \A i, j \in 1 .. n : i < j => s[i] < s[j]
      /\ Range(s) = 1 .. n
  BY <1>1, InOrderLists
<1> HIDE DEF s
<1> DEFINE Moved == {i \in 1 .. n : s[i] # i}
<1>3. CASE Moved = {}
  BY <1>2, <1>3 DEF s
<1>4. CASE Moved # {}
  <2>1. PICK i \in Moved : \A j \in Moved : i <= j
    BY ONLY <1>4, n \in Nat, LeastMember, Moved \in SUBSET Nat
  <2>2. \A j \in 1 .. n : j < i => s[j] = j
    BY <2>1
  <2>3. i \in 1 .. n /\ s[i] \in 1 .. n /\ s[i] # i
    BY <1>2
  <2>4. i < s[i]
    <3>1. CASE s[i] < i
      <4>1. s[s[i]] = s[i]
        BY <2>2, <2>3, <3>1
      <4>2. s[s[i]] < s[i]
        BY <1>2, <2>3, <3>1
      <4> QED BY <2>3, <4>1, <4>2
    <3> QED BY <2>3, <3>1
  <2>5. PICK j \in 1 .. n : s[j] = i
    BY <1>2, <2>3 DEF Range
  <2>6. j # i /\ ~(j < i)
    BY <2>2, <2>3, <2>5
  <2>7. s[i] < s[j]
    BY <1>2, <2>3, <2>6
  <2> QED BY <2>3, <2>4, <2>5, <2>7
<1> QED BY <1>3, <1>4

-----------------------------------------------------------------------------
(* Distinct: the loops with a map of what they have seen. *)

\* The positions that Distinct keeps.
Firsts(s, dropped) == {i \in DOMAIN s : s[i] \notin dropped /\ \A j \in 1 .. i - 1 : s[j] # s[i]}

\* It keeps one of each value that is not dropped.
LEMMA DistinctKeepsOneOfEach ==
    ASSUME NEW S, NEW s \in Seq(S), NEW dropped
    PROVE  /\ Distinct(s, dropped) \in Seq(S)
           /\ IsInjective(Distinct(s, dropped))
           /\ Range(Distinct(s, dropped)) = Range(s) \ dropped
<1> DEFINE F == Firsts(s, dropped)
           at == InOrder(F)
           N == Cardinality(F)
<1>1. Len(s) \in Nat /\ DOMAIN s = 1 .. Len(s) /\ s \in [1 .. Len(s) -> S]
  BY LenProperties
<1>2. F \in SUBSET (1 .. Len(s)) /\ F \in SUBSET Nat /\ IsFiniteSet(F)
  <2>1. F \in SUBSET (1 .. Len(s))
    BY <1>1 DEF Firsts
  <2> HIDE DEF F
  <2>2. IsFiniteSet(1 .. Len(s))
    BY <1>1, FS_Interval
  <2>3. IsFiniteSet(F)
    BY <2>1, <2>2, FS_Subset
  <2> QED BY <1>1, <2>1, <2>3
<1>3. /\ N \in Nat
      /\ at \in [1 .. N -> F]
      /\ \A i, j \in 1 .. N : at[i] = at[j] => i = j
      /\ Range(at) = F
  BY <1>2, InOrderLists
<1>4. Distinct(s, dropped) = [n \in 1 .. N |-> s[at[n]]]
  BY <1>3 DEF Distinct, Firsts
<1> HIDE DEF at, N
<1>5. Distinct(s, dropped) \in Seq(S)
  BY <1>1, <1>2, <1>3, <1>4
<1>6. \A i, j \in F : s[i] = s[j] => i = j
  <2> SUFFICES ASSUME NEW i \in F, NEW j \in F, s[i] = s[j], i # j PROVE FALSE
    OBVIOUS
  <2>1. i \in Nat \ {0} /\ j \in Nat \ {0}
    BY <1>2
  <2>2. i \in 1 .. j - 1 \/ j \in 1 .. i - 1
    BY <2>1
  <2> QED BY <2>2 DEF Firsts
<1>7. IsInjective(Distinct(s, dropped))
  BY <1>3, <1>4, <1>6 DEF IsInjective
<1>8. ASSUME NEW x \in Range(s), x \notin dropped
      PROVE  \E i \in F : s[i] = x
  <2> DEFINE T == {i \in 1 .. Len(s) : s[i] = x}
  <2>1. T \in SUBSET Nat /\ T # {}
    BY <1>1, <1>8 DEF Range
  <2>2. PICK i \in T : \A j \in T : i <= j
    BY ONLY <2>1, LeastMember
  <2>3. \A j \in 1 .. i - 1 : j \in 1 .. Len(s) /\ ~(i <= j)
    BY <1>1, <2>1, <2>2
  <2>4. i \in F
    BY <1>1, <1>8, <2>2, <2>3 DEF Firsts
  <2> QED BY <2>4
<1>9. Range(Distinct(s, dropped)) = {s[i] : i \in F}
  BY <1>3, <1>4 DEF Range
<1>10. {s[i] : i \in F} = Range(s) \ dropped
  BY <1>1, <1>8 DEF Range, Firsts
<1> QED BY <1>5, <1>7, <1>9, <1>10

\* A list without repetitions and of nothing that is dropped is kept as it is, and what
\* follows it adds nothing that is not new.
LEMMA DistinctKeepsThePrefix ==
    ASSUME NEW S, NEW s \in Seq(S), NEW t \in Seq(S), NEW dropped,
           IsInjective(s), Range(s) \cap dropped = {}, Range(t) \subseteq Range(s) \cup dropped
    PROVE  Distinct(s \o t, dropped) = s
<1> DEFINE st == s \o t
<1>1. Len(s) \in Nat /\ DOMAIN s = 1 .. Len(s) /\ Len(t) \in Nat /\ DOMAIN t = 1 .. Len(t)
  BY LenProperties
<1>2. /\ DOMAIN st = 1 .. Len(s) + Len(t)
      /\ \A i \in 1 .. Len(s) : st[i] = s[i]
      /\ \A i \in Len(s) + 1 .. Len(s) + Len(t) : i - Len(s) \in 1 .. Len(t) /\ st[i] = t[i - Len(s)]
  BY <1>1, ConcatProperties, LenProperties
<1> HIDE DEF st
<1>3. ASSUME NEW i \in 1 .. Len(s)
      PROVE  i \in Firsts(st, dropped)
  <2>1. s[i] \notin dropped /\ \A j \in 1 .. i - 1 : j \in 1 .. Len(s) /\ s[j] # s[i]
    BY <1>1 DEF Range, IsInjective
  <2> QED BY <1>1, <1>2, <2>1 DEF Firsts
<1>4. ASSUME NEW i \in Len(s) + 1 .. Len(s) + Len(t)
      PROVE  i \notin Firsts(st, dropped)
  <2>1. st[i] \in Range(s) \cup dropped
    BY <1>1, <1>2 DEF Range
  <2>2. CASE st[i] \in Range(s)
    <3>1. PICK j \in 1 .. Len(s) : s[j] = st[i]
      BY <1>1, <2>2 DEF Range
    <3>2. j \in 1 .. i - 1 /\ st[j] = st[i]
      BY <1>1, <1>2, <3>1
    <3> QED BY <3>2 DEF Firsts
  <2> QED BY <2>1, <2>2 DEF Firsts
<1>5. Firsts(st, dropped) = 1 .. Len(s)
  <2>1. Firsts(st, dropped) \subseteq 1 .. Len(s) + Len(t)
    BY <1>2 DEF Firsts
  <2>2. \A i \in 1 .. Len(s) + Len(t) : i \in 1 .. Len(s) \/ i \in Len(s) + 1 .. Len(s) + Len(t)
    BY <1>1
  <2> QED BY <1>1, <1>3, <1>4, <2>1, <2>2
<1>6. Distinct(st, dropped) = [n \in 1 .. Len(s) |-> st[n]]
  <2>1. Distinct(st, dropped) = [n \in DOMAIN InOrder(Firsts(st, dropped)) |-> st[InOrder(Firsts(st, dropped))[n]]]
    BY DEF Distinct, Firsts
  <2>2. InOrder(Firsts(st, dropped)) = [n \in 1 .. Len(s) |-> n]
    BY <1>1, <1>5, IntervalIsInOrder
  <2> QED BY <2>1, <2>2
<1>7. [n \in 1 .. Len(s) |-> st[n]] = s
  BY <1>1, <1>2
<1> QED BY <1>6, <1>7 DEF st

-----------------------------------------------------------------------------
(* FlattenSeq, for the shapes that a query takes. *)

\* One value.
LEMMA FlattenOne ==
    ASSUME NEW S, NEW s \in Seq(S)
    PROVE  Seqs!FlattenSeq(<<s>>) = s
<1> DEFINE E(f) == [i \in 1 .. 1 |-> IF i = 1 THEN <<s>>[i] ELSE f[i - 1] \o <<s>>[i]]
<1>1. E([i \in 1 .. 1 |-> s]) = [i \in 1 .. 1 |-> s]
  OBVIOUS
<1> DEFINE flatten == CHOOSE f : f = E(f)
<1>2. flatten = E(flatten)
  BY <1>1
<1>3. Seqs!FlattenSeq(<<s>>) = flatten[1]
  BY DEF Seqs!FlattenSeq
<1> HIDE DEF flatten
<1> QED BY <1>2, <1>3

\* Three values.
LEMMA FlattenThree ==
    ASSUME NEW S, NEW s \in Seq(S), NEW t \in Seq(S), NEW u \in Seq(S),
           NEW q, q = <<s, t, u>>
    PROVE  Seqs!FlattenSeq(q) = s \o (t \o u)
<1> DEFINE E(f) == [i \in 1 .. 3 |-> IF i = 1 THEN q[i] ELSE f[i - 1] \o q[i]]
           g == [i \in 1 .. 3 |-> IF i = 1 THEN s ELSE IF i = 2 THEN s \o t ELSE (s \o t) \o u]
           flatten == CHOOSE f : f = E(f)
<1>1. q[1] = s /\ q[2] = t /\ q[3] = u /\ Len(q) = 3
  OBVIOUS
<1>2. E(g) = g
  <2>1. 1 .. 3 = {1, 2, 3}
    OBVIOUS
  <2>2. g[1] = s /\ g[2] = s \o t /\ g[3] = (s \o t) \o u
    OBVIOUS
  <2>3. E(g)[1] = s /\ E(g)[2] = g[1] \o t /\ E(g)[3] = g[2] \o u
    BY <1>1
  <2> QED BY <2>1, <2>2, <2>3
<1>3. flatten = E(flatten)
  BY <1>2
<1>4. Seqs!FlattenSeq(q) = flatten[3]
  BY <1>1 DEF Seqs!FlattenSeq
<1> HIDE DEF flatten
<1>5. flatten[1] = s /\ flatten[2] = flatten[1] \o t /\ flatten[3] = flatten[2] \o u
  <2>1. \A i \in 1 .. 3 : flatten[i] = IF i = 1 THEN q[i] ELSE flatten[i - 1] \o q[i]
    BY <1>3
  <2> QED BY <1>1, <2>1
<1>6. (s \o t) \o u = s \o (t \o u)
  BY ConcatAssociative
<1> QED BY <1>4, <1>5, <1>6

\* One value for each element.
LEMMA FlattenSingles ==
    ASSUME NEW S, NEW s \in Seq(S)
    PROVE  Seqs!FlattenSeq([i \in DOMAIN s |-> <<s[i]>>]) = s
<1> DEFINE q == [i \in DOMAIN s |-> <<s[i]>>]
           N == Len(s)
           E(f) == [i \in 1 .. N |-> IF i = 1 THEN q[i] ELSE f[i - 1] \o q[i]]
           g == [i \in 1 .. N |-> SubSeq(s, 1, i)]
           flatten == CHOOSE f : f = E(f)
<1>1. N \in Nat /\ DOMAIN s = 1 .. N /\ s \in [1 .. N -> S]
  BY LenProperties
<1>2. q \in Seq(Seq(S)) /\ Len(q) = N
  BY <1>1
<1>3. CASE N = 0
  <2>1. s = <<>> /\ q = <<>>
    BY <1>1, <1>3
  <2> QED BY <1>2, <1>3, <2>1 DEF Seqs!FlattenSeq
<1>4. CASE N # 0
  <2>1. SubSeq(s, 1, 1) = <<s[1]>>
    <3>1. SubSeq(s, 1, 0) = <<>>
      BY SubSeqEmpty
    <3>2. SubSeq(s, 1, 1) = SubSeq(s, 1, 0) \o <<s[1]>>
      BY <1>1, <1>4, SubSeqRecursiveSecond
    <3>3. <<s[1]>> \in Seq(S)
      BY <1>1, <1>4
    <3> QED BY <3>1, <3>2, <3>3, ConcatEmptySeq
  <2>2. \A i \in 2 .. N : SubSeq(s, 1, i) = SubSeq(s, 1, i - 1) \o <<s[i]>>
    BY <1>1, SubSeqRecursiveSecond
  <2>3. E(g) = g
    <3>1. \A i \in 1 .. N : (IF i = 1 THEN q[i] ELSE g[i - 1] \o q[i]) = SubSeq(s, 1, i)
      <4> TAKE i \in 1 .. N
      <4>1. CASE i = 1
        BY <1>1, <2>1, <4>1
      <4>2. CASE i # 1
        <5>1. i \in 2 .. N /\ i - 1 \in 1 .. N
          BY <1>1, <4>2
        <5> QED BY <1>1, <2>2, <4>2, <5>1
      <4> QED BY <4>1, <4>2
    <3> HIDE DEF q
    <3> QED BY <3>1
  <2>4. flatten = E(flatten)
    BY <2>3
  <2>5. Seqs!FlattenSeq(q) = flatten[N]
    BY <1>2, <1>4 DEF Seqs!FlattenSeq
  <2> HIDE DEF flatten
  <2>6. /\ flatten[1] = <<s[1]>>
        /\ \A i \in 2 .. N : flatten[i] = flatten[i - 1] \o <<s[i]>>
    <3>1. \A i \in 1 .. N : flatten[i] = IF i = 1 THEN q[i] ELSE flatten[i - 1] \o q[i]
      BY <2>4
    <3>2. \A i \in 1 .. N : q[i] = <<s[i]>>
      BY <1>1
    <3> HIDE DEF q, E, g
    <3>3. flatten[1] = <<s[1]>>
      <4>1. 1 \in 1 .. N
        BY <1>1, <1>4
      <4> QED BY <3>1, <3>2, <4>1
    <3>4. ASSUME NEW i \in 2 .. N
          PROVE  flatten[i] = flatten[i - 1] \o <<s[i]>>
      <4>1. i \in 1 .. N /\ i # 1
        BY <1>1
      <4> HIDE DEF N
      <4> QED BY <3>1, <3>2, <4>1
    <3> QED BY <3>3, <3>4
  <2> DEFINE Wrong == {i \in 1 .. N : flatten[i] # SubSeq(s, 1, i)}
  <2>7. Wrong = {}
    <3> SUFFICES ASSUME Wrong # {} PROVE FALSE
      OBVIOUS
    <3>1. Wrong \in SUBSET Nat
      BY <1>1
    <3>2. PICK i \in Wrong : \A j \in Wrong : i <= j
      BY ONLY <3>1, Wrong # {}, LeastMember
    <3>3. i # 1
      BY <2>1, <2>6
    <3>4. i \in 2 .. N /\ i - 1 \in 1 .. N /\ i - 1 \notin Wrong
      BY <1>1, <3>2, <3>3
    <3> QED BY <2>2, <2>6, <3>4
  <2>8. flatten[N] = SubSeq(s, 1, N)
    BY <1>1, <1>4, <2>7
  <2> QED BY <2>5, <2>8, SubSeqFull
<1> QED BY <1>3, <1>4

-----------------------------------------------------------------------------
(* The ids of the response. *)

Texts == Seq(Characters)

\* The pair of names behind an entry.
Names(o) == <<NameOf[o[1]], TextOf[o[2]]>>

\* The characters of an id.
LEMMA EncodedCharacters ==
    ASSUME NEW name \in Texts, NEW key \in Texts
    PROVE  LET id == EncodeImageID(name, key)
           IN  /\ id \in Texts /\ Len(id) = Len(name) + 1 + Len(key)
               /\ \A i \in 1 .. Len(name) : id[i] = name[i]
               /\ id[Len(name) + 1] = ":"
               /\ \A i \in 1 .. Len(key) : id[Len(name) + 1 + i] = key[i]
<1> DEFINE front == name \o <<":">>
           id == EncodeImageID(name, key)
<1>1. Len(name) \in Nat /\ Len(key) \in Nat
  BY LenProperties DEF Texts
<1>2. <<":">> \in Texts /\ Len(<<":">>) = 1 /\ <<":">>[1] = ":"
  <2>1. ":" \in Characters
    BY NamesAssumption
  <2> QED BY <2>1 DEF Texts
<1>3. /\ front \in Texts /\ Len(front) = Len(name) + 1
      /\ \A i \in 1 .. Len(name) : front[i] = name[i]
      /\ front[Len(name) + 1] = ":"
  <2>1. /\ front \in Texts /\ Len(front) = Len(name) + 1
        /\ \A i \in 1 .. Len(name) + 1 :
               front[i] = IF i <= Len(name) THEN name[i] ELSE <<":">>[i - Len(name)]
    BY <1>2, ConcatProperties DEF Texts
  <2>2. Len(name) + 1 - Len(name) = 1
    BY <1>1
  <2> HIDE DEF front
  <2> QED BY <1>1, <1>2, <2>1, <2>2
<1> HIDE DEF front
<1>4. /\ id \in Texts /\ Len(id) = Len(front) + Len(key)
      /\ \A i \in 1 .. Len(front) + Len(key) : id[i] = IF i <= Len(front) THEN front[i] ELSE key[i - Len(front)]
  <2>1. id = front \o key
    BY DEF EncodeImageID, front
  <2> HIDE DEF id
  <2>2. /\ front \o key \in Texts /\ Len(front \o key) = Len(front) + Len(key)
        /\ \A i \in 1 .. Len(front) + Len(key) :
               (front \o key)[i] = IF i <= Len(front) THEN front[i] ELSE key[i - Len(front)]
    BY <1>3, ConcatProperties DEF Texts
  <2> QED BY <2>1, <2>2
<1> HIDE DEF id
<1>5. \A i \in 1 .. Len(key) : id[Len(name) + 1 + i] = key[i]
  <2> TAKE i \in 1 .. Len(key)
  <2>1. /\ Len(name) + 1 + i \in 1 .. Len(front) + Len(key)
        /\ ~(Len(name) + 1 + i <= Len(front))
        /\ Len(name) + 1 + i - Len(front) = i
    BY <1>1, <1>3
  <2> QED BY <1>4, <2>1
<1>6. \A i \in 1 .. Len(name) + 1 : i \in 1 .. Len(front) + Len(key) /\ i <= Len(front)
  BY <1>1, <1>3
<1>7. \A i \in 1 .. Len(name) + 1 : id[i] = front[i]
  BY <1>4, <1>6
<1> QED BY <1>1, <1>3, <1>4, <1>5, <1>7 DEF id

\* decodeImageID undoes encodeImageID when the name of the bucket has no colon, however
\* many the key has.
LEMMA DecodeUndoesEncode ==
    ASSUME NEW name \in Texts, NEW key \in Texts,
           ~Blank(name), ":" \notin Range(name), ~Blank(key)
    PROVE  /\ DecodeImageID(EncodeImageID(name, key)) = <<name, key>>
           /\ ~Blank(EncodeImageID(name, key))
<1> DEFINE id == EncodeImageID(name, key)
           colons == {i \in DOMAIN id : id[i] = ":"}
           N == Len(name)
<1>1. /\ N \in Nat /\ DOMAIN name = 1 .. N /\ name \in [1 .. N -> Characters]
      /\ Len(key) \in Nat /\ DOMAIN key = 1 .. Len(key) /\ key \in [1 .. Len(key) -> Characters]
  BY LenProperties DEF Texts
<1>2. /\ id \in Texts /\ Len(id) = N + 1 + Len(key) /\ DOMAIN id = 1 .. Len(id)
      /\ \A i \in 1 .. N : id[i] = name[i]
      /\ id[N + 1] = ":"
      /\ \A i \in 1 .. Len(key) : id[N + 1 + i] = key[i]
  BY EncodedCharacters, LenProperties DEF Texts
<1> HIDE DEF id
<1>3. N + 1 \in colons /\ \A c \in colons : c \in Nat /\ N + 1 <= c
  <2>1. \A i \in 1 .. N : id[i] # ":"
    BY <1>1, <1>2 DEF Range
  <2>2. N + 1 \in DOMAIN id
    BY <1>1, <1>2
  <2> QED BY <1>1, <1>2, <2>1, <2>2
<1> HIDE DEF colons
<1>4. Seqs!Min(colons) = N + 1
  <2>1. \A c \in colons : (\A d \in colons : c <= d) => c = N + 1
    BY <1>1, <1>3
  <2> QED BY <1>3, <2>1 DEF Seqs!Min
<1>5. SubSeq(id, 1, N) = name
  <2>1. \A i \in 1 .. N : id[i] \in Characters
    BY <1>1, <1>2
  <2>2. /\ SubSeq(id, 1, N) \in Seq(Characters)
        /\ Len(SubSeq(id, 1, N)) = IF 1 <= N THEN N - 1 + 1 ELSE 0
        /\ \A i \in 1 .. N - 1 + 1 : SubSeq(id, 1, N)[i] = id[1 + i - 1]
    BY <1>1, <2>1, SubSeqProperties
  <2>3. Len(SubSeq(id, 1, N)) = N
    BY <1>1, <2>2
  <2>4. \A i \in 1 .. N : SubSeq(id, 1, N)[i] = name[i]
    BY <1>1, <1>2, <2>2
  <2> QED BY <2>2, <2>3, <2>4, SeqEqual DEF Texts
<1>6. SubSeq(id, N + 2, Len(id)) = key
  <2> DEFINE sub == SubSeq(id, N + 2, Len(id))
  <2>1. \A i \in N + 2 .. Len(id) : id[i] \in Characters
    BY <1>1, <1>2 DEF Texts
  <2>2. /\ sub \in Seq(Characters)
        /\ Len(sub) = IF N + 2 <= Len(id) THEN Len(id) - (N + 2) + 1 ELSE 0
        /\ \A i \in 1 .. Len(id) - (N + 2) + 1 : sub[i] = id[(N + 2) + i - 1]
    BY <1>1, <1>2, <2>1, SubSeqProperties, SMTT(30)
  <2> HIDE DEF sub
  <2>3. Len(sub) = Len(key) /\ Len(id) - (N + 2) + 1 = Len(key)
    BY <1>1, <1>2, <2>2
  <2>4. \A i \in 1 .. Len(key) : sub[i] = key[i]
    <3> TAKE i \in 1 .. Len(key)
    <3>1. sub[i] = id[(N + 2) + i - 1] /\ (N + 2) + i - 1 = N + 1 + i
      BY <1>1, <2>2, <2>3
    <3> QED BY <1>2, <3>1
  <2>5. sub = key
    BY <2>2, <2>3, <2>4, SeqEqual DEF Texts
  <2> QED BY <2>5 DEF sub
<1>7. DecodeImageID(id) = <<name, key>>
  <2>1. N + 1 - 1 = N /\ N + 1 + 1 = N + 2
    BY <1>1
  <2>2. <<SubSeq(id, 1, Seqs!Min(colons) - 1), SubSeq(id, Seqs!Min(colons) + 1, Len(id))>> = <<name, key>>
    BY <1>4, <1>5, <1>6, <2>1
  <2>3. colons # {}
    BY <1>3
  <2>4. <<name, key>>[1] = name /\ <<name, key>>[2] = key
    OBVIOUS
  <2> QED BY <2>2, <2>3, <2>4 DEF DecodeImageID, colons
<1>8. ~Blank(id)
  <2>1. N + 1 \in DOMAIN id /\ id[N + 1] # " "
    BY <1>1, <1>2
  <2> QED BY <2>1 DEF Blank
<1> QED BY <1>7, <1>8 DEF id

\* The names behind an object.
LEMMA NamesOfObjects ==
    ASSUME NEW o \in Objects
    PROVE  /\ o = <<o[1], o[2]>> /\ o[1] \in Buckets /\ o[2] \in Keys
           /\ NameOf[o[1]] \in Texts /\ ~Blank(NameOf[o[1]]) /\ ":" \notin Range(NameOf[o[1]])
           /\ TextOf[o[2]] \in Texts /\ ~Blank(TextOf[o[2]])
<1>1. o = <<o[1], o[2]>> /\ o[1] \in Buckets /\ o[2] \in Keys
  BY DEF Objects
<1> QED BY <1>1, NamesAssumption DEF Texts

\* No two objects have the same names.
LEMMA NamesAreUnique ==
    ASSUME NEW o \in Objects, NEW p \in Objects, Names(o) = Names(p)
    PROVE  o = p
<1>1. NameOf[o[1]] = NameOf[p[1]] /\ TextOf[o[2]] = TextOf[p[2]]
  BY DEF Names
<1>2. o[1] = p[1]
  BY <1>1, NamesOfObjects, NamesAssumption DEF IsInjective
<1>3. o[2] = p[2]
  BY <1>1, NamesOfObjects, NamesAssumption DEF IsInjective
<1> QED BY <1>2, <1>3, NamesOfObjects

\* The ids of entries that do not repeat: they decode to the names behind the
\* entries, do not repeat and are not blank.
LEMMA IdsOfEntries ==
    ASSUME entries \in Seq(Objects), IsInjective(entries)
    PROVE  /\ DOMAIN IDs = DOMAIN entries /\ IDs \in Seq(Texts)
           /\ \A i \in DOMAIN entries : DecodeImageID(IDs[i]) = Names(entries[i]) /\ ~Blank(IDs[i])
           /\ IsInjective(IDs)
<1>1. /\ Len(entries) \in Nat /\ DOMAIN entries = 1 .. Len(entries)
      /\ \A i \in DOMAIN entries : entries[i] \in Objects
  BY LenProperties
<1>2. /\ DOMAIN IDs = DOMAIN entries
      /\ \A i \in DOMAIN entries : IDs[i] = EncodeImageID(NameOf[entries[i][1]], TextOf[entries[i][2]])
  BY DEF IDs
<1>3. ASSUME NEW i \in DOMAIN entries
      PROVE  /\ IDs[i] \in Texts
             /\ DecodeImageID(IDs[i]) = Names(entries[i]) /\ ~Blank(IDs[i])
  <2>1. entries[i] \in Objects
    BY <1>1
  <2> DEFINE b == NameOf[entries[i][1]]
             k == TextOf[entries[i][2]]
  <2>2. /\ b \in Texts /\ ~Blank(b) /\ ":" \notin Range(b)
        /\ k \in Texts /\ ~Blank(k)
    BY <2>1, NamesOfObjects
  <2>3. IDs[i] = EncodeImageID(b, k) /\ Names(entries[i]) = <<b, k>>
    BY <1>2 DEF Names
  <2> HIDE DEF b, k
  <2>4. EncodeImageID(b, k) \in Texts
    BY <2>2, EncodedCharacters
  <2>5. DecodeImageID(EncodeImageID(b, k)) = <<b, k>> /\ ~Blank(EncodeImageID(b, k))
    BY <2>2, DecodeUndoesEncode
  <2> QED BY <2>3, <2>4, <2>5
<1>4. IDs \in Seq(Texts)
  <2>1. IDs \in [1 .. Len(entries) -> Texts]
    BY <1>1, <1>2, <1>3 DEF IDs
  <2> QED BY <1>1, <2>1
<1>5. IsInjective(IDs)
  <2> SUFFICES ASSUME NEW i \in DOMAIN entries, NEW j \in DOMAIN entries, IDs[i] = IDs[j]
               PROVE  i = j
    BY <1>2 DEF IsInjective
  <2>1. Names(entries[i]) = Names(entries[j])
    BY <1>3
  <2>2. entries[i] = entries[j]
    BY <1>1, <2>1, NamesAreUnique
  <2> QED BY <2>2 DEF IsInjective
<1> QED BY <1>2, <1>3, <1>4, <1>5

LEMMA SingletonIsASeq ==
    ASSUME NEW S, NEW x \in S
    PROVE  <<x>> \in Seq(S)
OBVIOUS

LEMMA PairIsASeq ==
    ASSUME NEW S, NEW x \in S, NEW y \in S
    PROVE  <<x, y>> \in Seq(S) /\ Range(<<x, y>>) = {x, y}
<1>1. <<x, y>> \in Seq(S) /\ Len(<<x, y>>) = 2 /\ <<x, y>>[1] = x /\ <<x, y>>[2] = y
  OBVIOUS
<1>2. 1 .. 2 = {1, 2}
  OBVIOUS
<1>3. Range(<<x, y>>) = {<<x, y>>[i] : i \in 1 .. 2}
  BY <1>1, RangeEquality
<1> QED BY <1>1, <1>2, <1>3

\* Values that are blank.
LEMMA BlankValues ==
    /\ <<<<>>, <<" ">>>> \in Seq(Texts)
    /\ \A x \in Range(<<<<>>, <<" ">>>>) : Blank(x)
<1>1. " " \in Characters
  BY NamesAssumption, Zenon
<1>2. <<>> \in Texts /\ <<" ">> \in Texts
  BY <1>1, EmptySeq, SingletonIsASeq, Zenon DEF Texts
<1>3. <<<<>>, <<" ">>>> \in Seq(Texts) /\ Range(<<<<>>, <<" ">>>>) = {<<>>, <<" ">>}
  BY <1>2, PairIsASeq, Zenon
<1>4. ASSUME NEW x
      PROVE  Len(<<x>>) = 1 /\ DOMAIN <<x>> = {1} /\ <<x>>[1] = x
  OBVIOUS
<1>5. DOMAIN <<>> = {}
  OBVIOUS
<1>6. Blank(<<>>) /\ Blank(<<" ">>)
  BY <1>4, <1>5, Zenon DEF Blank
<1> QED BY <1>3, <1>6, Zenon

\* However the client asks for the ids of the response, the service reads these ids.
LEMMA QueriesAreRead ==
    ASSUME entries \in Seq(Objects), IsInjective(entries), NEW query \in Queries
    PROVE  ParseImageIDsQuery(query) = IDs
<1>1. /\ IDs \in Seq(Texts) /\ IsInjective(IDs)
      /\ \A id \in Range(IDs) : ~Blank(id)
  BY IdsOfEntries DEF Range
<1> DEFINE s == IDs
<1> HIDE DEF s
<1>2. s \in Seq(Texts) /\ IsInjective(s) /\ \A id \in Range(s) : ~Blank(id)
  BY <1>1 DEF s
<1> DEFINE blanks == <<<<>>, <<" ">>>>
           dropped(ids) == {id \in Range(ids) : Blank(id)}
<1>3. ParseImageIDsQuery(query) = Distinct(Seqs!FlattenSeq(query), dropped(Seqs!FlattenSeq(query)))
  BY DEF ParseImageIDsQuery
<1>4. CASE Seqs!FlattenSeq(query) = s
  <2>1. s \o <<>> = s /\ <<>> \in Seq(Texts) /\ Range(<<>>) = {}
    BY <1>2, ConcatEmptySeq, EmptySeq DEF Range
  <2>2. Range(s) \cap dropped(s) = {}
    BY <1>2
  <2> HIDE DEF dropped
  <2>3. Distinct(s \o <<>>, dropped(s)) = s
    BY <1>2, <2>1, <2>2, DistinctKeepsThePrefix
  <2> QED BY <1>3, <1>4, <2>1, <2>3 DEF s
<1>5. CASE query = <<IDs>>
  BY <1>2, <1>4, <1>5, FlattenOne DEF s
<1>6. CASE query = [i \in DOMAIN IDs |-> <<IDs[i]>>]
  BY <1>2, <1>4, <1>6, FlattenSingles DEF s
<1>7. CASE query = <<IDs, <<<<>>, <<" ">>>>, IDs>>
  <2>1. blanks \in Seq(Texts) /\ \A x \in Range(blanks) : Blank(x)
    BY BlankValues
  <2> HIDE DEF blanks
  <2> DEFINE t == blanks \o s
             all == s \o t
  <2>3. t \in Seq(Texts) /\ Range(t) = Range(blanks) \cup Range(s)
    <3>1. t \in Seq(Texts)
      BY <1>2, <2>1, ConcatProperties
    <3>2. Range(t) = Range(blanks) \cup Range(s)
      BY <1>2, <2>1, RangeConcatenation
    <3> QED BY <3>1, <3>2
  <2>4. Seqs!FlattenSeq(query) = all
    <3>1. query = <<s, blanks, s>>
      BY <1>7 DEF s, blanks
    <3>2. Seqs!FlattenSeq(<<s, blanks, s>>) = s \o (blanks \o s)
      BY <1>2, <2>1, FlattenThree
    <3> QED BY <3>1, <3>2
  <2> HIDE DEF t
  <2>5. Range(all) = Range(s) \cup Range(t)
    BY <1>2, <2>3, RangeConcatenation
  <2> HIDE DEF all
  <2>6. Range(s) \cap dropped(all) = {} /\ Range(t) \subseteq Range(s) \cup dropped(all)
    BY <1>2, <2>1, <2>3, <2>5
  <2> HIDE DEF dropped
  <2>7. Distinct(all, dropped(all)) = s
    BY <1>2, <2>3, <2>6, DistinctKeepsThePrefix DEF all
  <2> QED BY <1>3, <2>4, <2>7 DEF s
<1> QED BY <1>5, <1>6, <1>7 DEF Queries

-----------------------------------------------------------------------------
(* The inductive invariant. *)

\* What a prefix of the bucket brings could be listed at some moment.
Granted(p) == \A k \in Keys \ Folders : p \in PrefixesOf[k] => <<bucket, k>> \in granted

\* The history and the prefixes in hand, which the policy of an earlier moment allowed.
GrantInv ==
    /\ Listable \subseteq granted
    /\ granted \cap stored \subseteq found
    /\ steady \subseteq Listable \cap stored
    /\ phase \in {"prefix", "page", "collect"} => bucket \in Buckets /\ \A p \in prefixes : Granted(p)
    /\ phase \in {"page", "collect"} => prefix \in Prefixes /\ Granted(prefix) /\ <<bucket, prefix>> \in listed

\* What the pages and the response hold.
BatchInv ==
    phase \in {"page", "collect"} => \A k \in Range(batch) \ Folders : <<bucket, k>> \in found

EntriesInv ==
    /\ seen = Range(entries)
    /\ IsInjective(entries)
    /\ Range(entries) \subseteq found

\* The scan will still come to o: to its bucket, or to a prefix of it.
Ahead(o) ==
    \/ phase = "start"
    \/ phase \in {"bucket", "prefix", "page", "collect"} /\ o[1] \in buckets
    \/ /\ phase \in {"prefix", "page", "collect"} /\ o[1] = bucket
       /\ \E p \in prefixes : p \in PrefixesOf[o[2]]

\* The list of the prefix in hand has o, or will have it.
InHand(o, l) ==
    /\ phase \in {"page", "collect"} /\ l = <<bucket, prefix>>
    /\ o[2] \in Range(batch) \/ (phase = "page" /\ o[2] > token)

\* No object that stays is left behind ...
AheadInv == phase # "502" => \A o \in steady : o \in Range(entries) \/ Ahead(o) \/ ListsOf(o) # {}

\* ... and none is left out of a list that was read to its end.
ListsInv ==
    phase # "502" =>
        \A o \in steady : \A l \in ListsOf(o) : o \in Range(entries) \/ l \in cut \/ InHand(o, l)

\* The resolve mode gave what the entries have.
ResolvedInv ==
    /\ phase # "400"
    /\ phase = "resolved" => resolved = [i \in DOMAIN entries |-> Names(entries[i])]

Inv == TypeOK /\ GrantInv /\ BatchInv /\ EntriesInv /\ AheadInv /\ ListsInv /\ ResolvedInv

-----------------------------------------------------------------------------
(* What the proofs of the actions share. *)

\* The list permission hangs on the tables alone.
LEMMA ListableStable ==
    ASSUME UNCHANGED <<connections, policies>>
    PROVE  Listable' = Listable
BY DEF Listable, MayAccess

LEMMA ListableIsReached ==
    ASSUME TypeOK, NEW o \in Listable
    PROVE  /\ o \in Objects /\ o = <<o[1], o[2]>> /\ o[1] \in Buckets /\ o[2] \in Keys /\ o[2] \notin Folders
           /\ ActiveBucket(Scope, o[1]) # NoRow
           /\ \E p \in ListablePrefixes(EffectivePolicy(Scope, o[1], Principal)) : p \in PrefixesOf[o[2]]
<1> DEFINE c == connections[<<Scope, o[1]>>]
           a == policies[<<Scope, o[1], Principal>>]
<1>1. o \in Objects /\ o = <<o[1], o[2]>> /\ o[1] \in Buckets /\ o[2] \in Keys /\ o[2] \notin Folders
  BY NamesOfObjects DEF Listable
<1>2. /\ c # NoRow /\ a # NoRow /\ c.active /\ "list" \in a.can
      /\ \E x \in Prefixes : x \in c.prefixes /\ x \in a.prefixes /\ x \in PrefixesOf[o[2]]
  BY DEF Listable, MayAccess
<1>3. c \in ConnectionRows /\ a \in PolicyRows
  <2>1. c \in ConnectionRows \cup {NoRow} /\ a \in PolicyRows \cup {NoRow}
    BY <1>1, ListingAssumption DEF TypeOK, ConnectionTables, PolicyTables
  <2> QED BY <1>2, <2>1
<1> DEFINE e == [can |-> a.can, connectionPrefixes |-> c.prefixes, principalPrefixes |-> a.prefixes]
<1>4. ActiveBucket(Scope, o[1]) = c /\ EffectivePolicy(Scope, o[1], Principal) = e
  BY <1>2 DEF ActiveBucket, EffectivePolicy
<1>5. e # NoRow
  <2>1. e \in EffectiveRows
    BY <1>3 DEF EffectiveRows, ConnectionRows, PolicyRows
  <2> QED BY <2>1, AccessAssumption
<1>6. ListablePrefixes(e) = c.prefixes \cap a.prefixes
  BY <1>2, <1>5 DEF ListablePrefixes, IsActionAllowed
<1> QED BY <1>1, <1>2, <1>4, <1>6

\* The prefixes of a bucket that is looked at are prefixes of the principal at that moment.
LEMMA ListedPrefixes ==
    ASSUME TypeOK, NEW b \in Buckets,
           NEW p \in ListablePrefixes(EffectivePolicy(Scope, b, Principal))
    PROVE  p \in Prefixes /\ \A k \in Keys \ Folders : p \in PrefixesOf[k] => <<b, k>> \in Listable
<1> DEFINE c == connections[<<Scope, b>>]
           a == policies[<<Scope, b, Principal>>]
           e == EffectivePolicy(Scope, b, Principal)
<1>1. e # NoRow /\ "list" \in e.can /\ p \in e.connectionPrefixes /\ p \in e.principalPrefixes
  BY DEF ListablePrefixes, IsActionAllowed
<1>2. /\ c # NoRow /\ c.active /\ a # NoRow
      /\ e = [can |-> a.can, connectionPrefixes |-> c.prefixes, principalPrefixes |-> a.prefixes]
  BY <1>1 DEF EffectivePolicy, ActiveBucket
<1>3. "list" \in a.can /\ p \in c.prefixes /\ p \in a.prefixes
  <2> HIDE DEF e
  <2> QED BY <1>1, <1>2
<1>4. c \in ConnectionRows
  BY <1>2, ListingAssumption DEF TypeOK, ConnectionTables
<1>5. p \in Prefixes
  BY <1>3, <1>4 DEF ConnectionRows
<1>6. ASSUME NEW k \in Keys \ Folders, p \in PrefixesOf[k]
      PROVE  <<b, k>> \in Listable
  <2> DEFINE q == [scope |-> Scope, principal |-> Principal, bucket |-> b, action |-> "list", key |-> k]
  <2>1. MayAccess(q)
    BY <1>2, <1>3, <1>5, <1>6 DEF MayAccess
  <2>2. <<b, k>> \in Objects /\ <<b, k>>[1] = b /\ <<b, k>>[2] = k
    BY DEF Objects
  <2> QED BY <2>1, <2>2 DEF Listable
<1> QED BY <1>5, <1>6

\* What S3 has left, in its order.
LEMMA RemainingIsInOrder ==
    ASSUME TypeOK
    PROVE  /\ Remaining \in Seq(Keys)
           /\ Range(Remaining) = {k \in Keys : <<bucket, k>> \in stored /\ prefix \in PrefixesOf[k] /\ k > token}
           /\ \A i, j \in 1 .. Len(Remaining) : i < j => Remaining[i] < Remaining[j]
<1> DEFINE L == {k \in Keys : <<bucket, k>> \in stored /\ prefix \in PrefixesOf[k] /\ k > token}
<1>1. L \in SUBSET Keys /\ L \in SUBSET Nat /\ IsFiniteSet(L)
  <2>1. L \in SUBSET Keys
    OBVIOUS
  <2> HIDE DEF L
  <2>2. IsFiniteSet(L)
    BY <2>1, FS_Subset, ListingAssumption
  <2> QED BY <2>1, <2>2, ListingAssumption
<1>2. Remaining = InOrder(L)
  BY DEF Remaining
<1> HIDE DEF L
<1> DEFINE N == Cardinality(L)
           r == InOrder(L)
<1>3. /\ N \in Nat /\ r \in [1 .. N -> L] /\ Range(r) = L
      /\ \A i, j \in 1 .. N : i < j => r[i] < r[j]
  BY <1>1, InOrderLists
<1> HIDE DEF N, r
<1>4. r \in Seq(Keys) /\ Len(r) = N
  <2>1. N \in Nat /\ r \in [1 .. N -> Keys]
    BY <1>1, <1>3
  <2> QED BY ONLY <2>1
<1> QED BY <1>2, <1>3, <1>4 DEF r, L

\* Two lists without repetitions and without a common member.
LEMMA ConcatenationIsInjective ==
    ASSUME NEW S, NEW s \in Seq(S), NEW t \in Seq(S),
           IsInjective(s), IsInjective(t), Range(s) \cap Range(t) = {}
    PROVE  IsInjective(s \o t)
<1> DEFINE st == s \o t
<1>1. Len(s) \in Nat /\ DOMAIN s = 1 .. Len(s) /\ Len(t) \in Nat /\ DOMAIN t = 1 .. Len(t)
  BY LenProperties
<1>2. /\ DOMAIN st = 1 .. Len(s) + Len(t)
      /\ \A i \in 1 .. Len(s) + Len(t) : st[i] = IF i <= Len(s) THEN s[i] ELSE t[i - Len(s)]
  BY <1>1, ConcatProperties, LenProperties
<1> HIDE DEF st
<1> SUFFICES ASSUME NEW i \in 1 .. Len(s) + Len(t), NEW j \in 1 .. Len(s) + Len(t), st[i] = st[j], i <= j
             PROVE  i = j
  BY <1>1, <1>2 DEF IsInjective, st
<1>3. CASE j <= Len(s)
  <2>1. i \in DOMAIN s /\ j \in DOMAIN s /\ st[i] = s[i] /\ st[j] = s[j]
    BY <1>1, <1>2, <1>3
  <2> QED BY <2>1 DEF IsInjective
<1>4. CASE i <= Len(s) /\ ~(j <= Len(s))
  <2>1. i \in DOMAIN s /\ j - Len(s) \in DOMAIN t /\ st[i] = s[i] /\ st[j] = t[j - Len(s)]
    BY <1>1, <1>2, <1>4
  <2> QED BY <2>1 DEF Range
<1>5. CASE ~(i <= Len(s))
  <2>1. /\ i - Len(s) \in DOMAIN t /\ j - Len(s) \in DOMAIN t
        /\ st[i] = t[i - Len(s)] /\ st[j] = t[j - Len(s)]
    BY <1>1, <1>2, <1>5
  <2>2. i - Len(s) = j - Len(s)
    BY <2>1 DEF IsInjective
  <2> QED BY <1>1, <2>2
<1> QED BY <1>1, <1>3, <1>4, <1>5

\* The phases, one by one.
LEMMA PhaseIsKnown ==
    ASSUME TypeOK
    PROVE  phase \in {"start", "bucket", "prefix", "page", "collect", "200", "502", "resolved", "400"}
BY DEF TypeOK, Phases, Ended

-----------------------------------------------------------------------------
(* Each action keeps the invariant. *)

LEMMA InvHolds == Init => Inv
<1> SUFFICES ASSUME Init PROVE Inv
  OBVIOUS
<1>1. Range(<<>>) = {} /\ IsInjective(<<>>)
  BY DEF Range, IsInjective
<1>2. TypeOK
  <2>1. connections \in ConnectionTables /\ policies \in PolicyTables
    BY ListingAssumption DEF Init, Tables
  <2>2. Listable \subseteq Objects
    BY DEF Listable
  <2>3. changes \in 0 .. MaxChanges
    BY ListingAssumption DEF Init
  <2>4. batch \in Seq(Keys) /\ Len(batch) <= MaxObjects /\ entries \in Seq(Objects)
    BY ListingAssumption DEF Init
  <2>5. Range(resolved) = {}
    BY <1>1 DEF Init
  <2> QED BY <2>1, <2>2, <2>3, <2>4, <2>5 DEF TypeOK, Init, Phases, Ended
<1>3. GrantInv /\ BatchInv /\ AheadInv /\ ListsInv /\ ResolvedInv
  BY DEF Init, GrantInv, BatchInv, AheadInv, ListsInv, ListsOf, Ahead, ResolvedInv
<1>4. EntriesInv
  BY <1>1 DEF Init, EntriesInv
<1> QED BY <1>2, <1>3, <1>4 DEF Inv

LEMMA ListBucketsStep == Inv /\ ListBuckets => Inv'
<1> SUFFICES ASSUME Inv, ListBuckets PROVE Inv'
  OBVIOUS
<1>1. /\ UNCHANGED <<connections, policies, stored, changes, granted, found, steady>>
      /\ UNCHANGED <<bucket, prefixes, prefix, token, batch, seen, entries, resolved, listed, cut>>
      /\ phase = "start" /\ phase' = "bucket"
      /\ buckets' = {b \in Buckets : ActiveBucket(Scope, b) # NoRow}
  BY DEF ListBuckets, world, tables, history
<1>2. Listable' = Listable
  BY <1>1, ListableStable
<1>3. TypeOK'
  BY <1>1 DEF Inv, TypeOK, Phases, ConnectionTables, PolicyTables
<1>4. GrantInv'
  BY <1>1, <1>2 DEF Inv, GrantInv
<1>5. BatchInv' /\ EntriesInv' /\ ResolvedInv'
  BY <1>1 DEF Inv, BatchInv, EntriesInv, ResolvedInv, Names
<1>6. AheadInv'
  <2>1. \A o \in steady : o[1] \in buckets'
    BY <1>1, ListableIsReached DEF Inv, GrantInv
  <2> QED BY <1>1, <2>1 DEF AheadInv, Ahead
<1>7. ListsInv'
  BY <1>1 DEF Inv, ListsInv, InHand, ListsOf
<1> QED BY <1>3, <1>4, <1>5, <1>6, <1>7 DEF Inv

LEMMA NextBucketStep == Inv /\ NextBucket => Inv'
<1> SUFFICES ASSUME Inv, NextBucket PROVE Inv'
  OBVIOUS
<1>1. /\ UNCHANGED <<connections, policies, stored, changes, granted, found, steady>>
      /\ UNCHANGED <<prefix, token, batch, seen, entries, resolved, listed, cut>>
      /\ phase = "bucket" /\ phase' = "prefix"
  BY DEF NextBucket, world, tables, history
<1>2. PICK b \in buckets :
          /\ buckets' = buckets \ {b} /\ bucket' = b
          /\ prefixes' = ListablePrefixes(EffectivePolicy(Scope, b, Principal))
  BY DEF NextBucket
<1>3. Listable' = Listable
  BY <1>1, ListableStable
<1>4. b \in Buckets /\ TypeOK
  BY DEF Inv, TypeOK
<1>5. \A p \in prefixes' : p \in Prefixes /\ \A k \in Keys \ Folders : p \in PrefixesOf[k] => <<b, k>> \in Listable
  BY <1>2, <1>4, ListedPrefixes
<1>6. TypeOK'
  <2>1. prefixes' \subseteq Prefixes
    BY <1>5
  <2> QED BY <1>1, <1>2, <1>4, <2>1 DEF TypeOK, Phases, ConnectionTables, PolicyTables
<1>7. GrantInv'
  BY <1>1, <1>2, <1>3, <1>4, <1>5 DEF Inv, GrantInv, Granted
<1>8. BatchInv' /\ EntriesInv' /\ ResolvedInv'
  BY <1>1 DEF Inv, BatchInv, EntriesInv, ResolvedInv
<1>9. AheadInv'
  <2> SUFFICES ASSUME NEW o \in steady, o \notin Range(entries), ListsOf(o) = {}
               PROVE  Ahead(o)'
    BY <1>1 DEF AheadInv, ListsOf
  <2>1. o[1] \in buckets
    BY <1>1 DEF Inv, AheadInv, Ahead
  <2>2. CASE o[1] = b
    <3>1. \E p \in prefixes' : p \in PrefixesOf[o[2]]
      BY <1>2, <1>4, <2>2, ListableIsReached DEF Inv, GrantInv
    <3> QED BY <1>1, <1>2, <2>2, <3>1 DEF Ahead
  <2>3. CASE o[1] # b
    BY <1>1, <1>2, <2>1, <2>3 DEF Ahead
  <2> QED BY <2>2, <2>3
<1>10. ListsInv'
  BY <1>1 DEF Inv, ListsInv, InHand, ListsOf
<1> QED BY <1>6, <1>7, <1>8, <1>9, <1>10 DEF Inv

LEMMA NextPrefixStep == Inv /\ NextPrefix => Inv'
<1> SUFFICES ASSUME Inv, NextPrefix PROVE Inv'
  OBVIOUS
<1>1. /\ UNCHANGED <<connections, policies, stored, changes, granted, found, steady>>
      /\ UNCHANGED <<buckets, bucket, seen, entries, resolved, cut>>
      /\ phase = "prefix" /\ phase' = "page" /\ token' = 0 /\ batch' = <<>>
  BY DEF NextPrefix, world, tables, history
<1>2. PICK p \in prefixes :
          prefixes' = prefixes \ {p} /\ prefix' = p /\ listed' = listed \cup {<<bucket, p>>}
  BY DEF NextPrefix
<1>3. Listable' = Listable
  BY <1>1, ListableStable
<1>4. p \in Prefixes /\ TypeOK
  BY DEF Inv, TypeOK
<1>5. batch' \in Seq(Keys) /\ Len(batch') <= MaxObjects /\ Range(batch') = {}
  BY <1>1, ListingAssumption DEF Range
<1>6. TypeOK'
  <2>1. prefixes' \subseteq Prefixes /\ prefix' \in Prefixes
    BY <1>2, <1>4 DEF TypeOK
  <2>2. bucket \in Buckets /\ listed \subseteq Buckets \X Prefixes /\ cut \subseteq listed
    BY <1>1, <1>4 DEF Inv, GrantInv, TypeOK
  <2>3. listed' \subseteq Buckets \X Prefixes /\ cut' \subseteq listed'
    BY <1>1, <1>2, <1>4, <2>2
  <2>4. phase' \in Phases /\ token' \in Keys \cup {0}
    BY <1>1 DEF Phases
  <2> QED BY <1>1, <1>4, <1>5, <2>1, <2>3, <2>4 DEF TypeOK, ConnectionTables, PolicyTables
<1>7. GrantInv'
  BY <1>1, <1>2, <1>3, <1>4 DEF Inv, GrantInv, Granted
<1>8. BatchInv' /\ EntriesInv' /\ ResolvedInv'
  BY <1>1, <1>5 DEF Inv, BatchInv, EntriesInv, ResolvedInv
<1>9. AheadInv'
  <2> SUFFICES ASSUME NEW o \in steady, o \notin Range(entries), ~Ahead(o)'
               PROVE  ListsOf(o)' # {}
    BY <1>1 DEF AheadInv
  <2>1. \/ o[1] \in buckets
        \/ o[1] = bucket /\ \E q \in prefixes : q \in PrefixesOf[o[2]]
        \/ ListsOf(o) # {}
    BY <1>1 DEF Inv, AheadInv, Ahead
  <2>2. CASE ListsOf(o) # {}
    BY <1>2, <2>2 DEF ListsOf
  <2>3. CASE o[1] = bucket /\ \E q \in prefixes : q \in PrefixesOf[o[2]]
    <3>1. p \in PrefixesOf[o[2]]
      BY <1>1, <1>2, <2>3 DEF Ahead
    <3>2. <<bucket, p>> \in ListsOf(o)'
      BY <1>2, <2>3, <3>1 DEF ListsOf
    <3> QED BY <3>2
  <2>4. CASE o[1] \in buckets
    BY <1>1, <2>4 DEF Ahead
  <2> QED BY <2>1, <2>2, <2>3, <2>4
<1>10. ListsInv'
  <2> SUFFICES ASSUME NEW o \in steady, NEW l \in ListsOf(o)', o \notin Range(entries), l \notin cut
               PROVE  InHand(o, l)'
    BY <1>1 DEF ListsInv
  <2>1. l \notin ListsOf(o)
    BY <1>1 DEF Inv, ListsInv, InHand
  <2>2. l = <<bucket, p>>
    BY <1>2, <2>1 DEF ListsOf
  <2>3. o[2] > 0
    BY <1>4, ListableIsReached, ListingAssumption DEF Inv, GrantInv
  <2> QED BY <1>1, <1>2, <2>2, <2>3 DEF InHand
<1> QED BY <1>6, <1>7, <1>8, <1>9, <1>10 DEF Inv

LEMMA BucketDoneStep == Inv /\ BucketDone => Inv'
<1> SUFFICES ASSUME Inv, BucketDone PROVE Inv'
  OBVIOUS
<1>1. /\ UNCHANGED <<connections, policies, stored, changes, granted, found, steady>>
      /\ UNCHANGED <<buckets, bucket, prefixes, prefix, token, batch, seen, entries, resolved, listed, cut>>
      /\ phase = "prefix" /\ prefixes = {} /\ phase' = "bucket"
  BY DEF BucketDone, world, tables, history
<1>2. Listable' = Listable
  BY <1>1, ListableStable
<1>3. TypeOK'
  BY <1>1 DEF Inv, TypeOK, Phases, ConnectionTables, PolicyTables
<1>4. GrantInv'
  BY <1>1, <1>2 DEF Inv, GrantInv
<1>5. BatchInv' /\ EntriesInv' /\ ResolvedInv'
  BY <1>1 DEF Inv, BatchInv, EntriesInv, ResolvedInv
<1>6. AheadInv' /\ ListsInv'
  BY <1>1 DEF Inv, AheadInv, ListsInv, Ahead, InHand, ListsOf
<1> QED BY <1>3, <1>4, <1>5, <1>6 DEF Inv

LEMMA FailsStep == Inv /\ Fails => Inv'
<1> SUFFICES ASSUME Inv, Fails PROVE Inv'
  OBVIOUS
<1>1. /\ UNCHANGED <<connections, policies, stored, changes, granted, found, steady>>
      /\ UNCHANGED <<buckets, bucket, prefixes, prefix, token, batch, seen, entries, resolved, listed, cut>>
      /\ phase' = "502"
  BY DEF Fails, world, tables, history
<1>2. Listable' = Listable
  BY <1>1, ListableStable
<1>3. TypeOK'
  BY <1>1 DEF Inv, TypeOK, Phases, Ended, ConnectionTables, PolicyTables
<1>4. GrantInv'
  BY <1>1, <1>2 DEF Inv, GrantInv
<1>5. BatchInv' /\ EntriesInv' /\ ResolvedInv' /\ AheadInv' /\ ListsInv'
  BY <1>1 DEF Inv, BatchInv, EntriesInv, ResolvedInv, AheadInv, ListsInv
<1> QED BY <1>3, <1>4, <1>5 DEF Inv

LEMMA AnswerStep == Inv /\ Answer => Inv'
<1> SUFFICES ASSUME Inv, Answer PROVE Inv'
  OBVIOUS
<1>1. /\ UNCHANGED <<connections, policies, stored, changes, granted, found, steady>>
      /\ UNCHANGED <<buckets, bucket, prefixes, prefix, token, batch, seen, entries, resolved, listed, cut>>
      /\ phase = "bucket" /\ buckets = {} /\ phase' = "200"
  BY DEF Answer, world, tables, history
<1>2. Listable' = Listable
  BY <1>1, ListableStable
<1>3. TypeOK'
  BY <1>1 DEF Inv, TypeOK, Phases, Ended, ConnectionTables, PolicyTables
<1>4. GrantInv'
  BY <1>1, <1>2 DEF Inv, GrantInv
<1>5. BatchInv' /\ EntriesInv' /\ ResolvedInv'
  BY <1>1 DEF Inv, BatchInv, EntriesInv, ResolvedInv
<1>6. AheadInv' /\ ListsInv'
  BY <1>1 DEF Inv, AheadInv, ListsInv, Ahead, InHand, ListsOf
<1> QED BY <1>3, <1>4, <1>5, <1>6 DEF Inv

LEMMA ReadPageStep == Inv /\ ReadPage => Inv'
<1> SUFFICES ASSUME Inv, ReadPage PROVE Inv'
  OBVIOUS
<1> DEFINE R == Remaining
<1>1. /\ UNCHANGED <<connections, policies, stored, changes, granted, found, steady>>
      /\ UNCHANGED <<buckets, bucket, prefixes, prefix, seen, entries, resolved, listed>>
      /\ phase = "page"
  BY DEF ReadPage, world, tables, history
<1>2. PICK n \in 0 .. Len(R) :
          /\ n <= MaxKeys
          /\ batch' = batch \o SubSeq(R, 1, n)
          /\ IF n < Len(R) /\ ~(Len(batch) + n >= MaxObjects)
             THEN phase' = "page" /\ token' = (IF n = 0 THEN token ELSE R[n]) /\ UNCHANGED cut
             ELSE /\ phase' = "collect"
                  /\ cut' = IF n < Len(R) THEN cut \cup {<<bucket, prefix>>} ELSE cut
                  /\ UNCHANGED token
  BY DEF ReadPage
<1>3. TypeOK /\ batch \in Seq(Keys) /\ Len(batch) \in Nat /\ Len(batch) <= MaxObjects /\ MaxObjects \in Nat
  BY LenProperties, ListingAssumption DEF Inv, TypeOK
<1>4. /\ R \in Seq(Keys)
      /\ Range(R) = {k \in Keys : <<bucket, k>> \in stored /\ prefix \in PrefixesOf[k] /\ k > token}
      /\ \A i, j \in 1 .. Len(R) : i < j => R[i] < R[j]
  BY <1>3, RemainingIsInOrder
<1> HIDE DEF R
<1>5. /\ Len(R) \in Nat /\ DOMAIN R = 1 .. Len(R)
      /\ \A i \in 1 .. Len(R) : R[i] \in Keys /\ R[i] \in Range(R)
  BY <1>4, LenProperties DEF Range
<1>6. n <= MaxObjects - Len(batch)
  BY <1>2, <1>3, ListingAssumption DEF MaxKeys
<1> DEFINE page == SubSeq(R, 1, n)
<1>7. /\ page \in Seq(Keys) /\ Len(page) = n
      /\ \A i \in 1 .. n : i \in 1 .. Len(R) /\ page[i] = R[i]
  <2>1. \A i \in 1 .. n : i \in 1 .. Len(R) /\ R[i] \in Keys
    BY <1>2, <1>5
  <2>2. /\ page \in Seq(Keys)
        /\ Len(page) = IF 1 <= n THEN n - 1 + 1 ELSE 0
        /\ \A i \in 1 .. n - 1 + 1 : page[i] = R[1 + i - 1]
    BY <2>1, SubSeqProperties
  <2> HIDE DEF page
  <2>3. n \in Nat /\ n - 1 + 1 = n /\ \A i \in 1 .. n : 1 + i - 1 = i
    BY <1>5
  <2> QED BY <2>1, <2>2, <2>3
<1> HIDE DEF page
<1>8. Range(page) = {R[i] : i \in 1 .. n}
  BY <1>7, RangeEquality
<1>9. batch' = batch \o page
  BY <1>2 DEF page
<1>10. /\ batch' \in Seq(Keys) /\ Len(batch') = Len(batch) + n
       /\ Range(batch') = Range(batch) \cup Range(page)
  <2>1. batch \o page \in Seq(Keys) /\ Len(batch \o page) = Len(batch) + Len(page)
    BY <1>3, <1>7, ConcatProperties
  <2>2. Range(batch \o page) = Range(batch) \cup Range(page)
    BY <1>3, <1>7, RangeConcatenation
  <2> QED BY <1>7, <1>9, <2>1, <2>2
<1>11. Listable' = Listable
  BY <1>1, ListableStable
<1>12. bucket \in Buckets /\ prefix \in Prefixes /\ <<bucket, prefix>> \in listed
  BY <1>1 DEF Inv, GrantInv
<1>13. TypeOK'
  <2>1. Len(batch') <= MaxObjects
    BY <1>3, <1>5, <1>6, <1>10
  <2>2. phase' \in Phases
    BY <1>2 DEF Phases
  <2>3. token' \in Keys \cup {0}
    <3>1. n < Len(R) /\ n # 0 => n \in 1 .. Len(R)
      BY <1>2, <1>5
    <3> QED BY <1>2, <1>3, <1>5, <3>1 DEF TypeOK
  <2>4. cut' \subseteq listed
    BY <1>1, <1>2, <1>3, <1>12 DEF TypeOK
  <2> QED BY <1>1, <1>3, <1>10, <2>1, <2>2, <2>3, <2>4 DEF TypeOK, ConnectionTables, PolicyTables
<1>14. GrantInv'
  BY <1>1, <1>2, <1>11 DEF Inv, GrantInv, Granted
<1>15. BatchInv'
  <2> SUFFICES ASSUME NEW k \in Range(batch') \ Folders
               PROVE  <<bucket, k>> \in found
    BY <1>1 DEF BatchInv
  <2>1. CASE k \in Range(batch)
    BY <1>1, <2>1 DEF Inv, BatchInv
  <2>2. CASE k \in Range(page)
    <3>1. k \in Range(R)
      BY <1>5, <1>7, <1>8, <2>2
    <3>2. k \in Keys /\ <<bucket, k>> \in stored /\ prefix \in PrefixesOf[k]
      BY <1>4, <3>1
    <3> QED BY <1>1, <3>2 DEF Inv, GrantInv, Granted
  <2> QED BY <1>10, <2>1, <2>2
<1>16. EntriesInv' /\ ResolvedInv'
  BY <1>1, <1>2 DEF Inv, EntriesInv, ResolvedInv
<1>17. AheadInv'
  BY <1>1, <1>2 DEF Inv, AheadInv, Ahead, ListsOf
<1>18. ListsInv'
  <2> SUFFICES ASSUME NEW o \in steady, NEW l \in ListsOf(o), o \notin Range(entries), l \notin cut'
               PROVE  InHand(o, l)'
    BY <1>1 DEF ListsInv, ListsOf
  <2>1. l = <<bucket, prefix>> /\ (o[2] \in Range(batch) \/ o[2] > token)
    BY <1>1, <1>2 DEF Inv, ListsInv, InHand
  <2>2. o[1] = bucket /\ prefix \in PrefixesOf[o[2]]
    BY <2>1 DEF ListsOf
  <2>3. phase' \in {"page", "collect"}
    BY <1>2
  <2>4. CASE o[2] \in Range(batch)
    BY <1>1, <1>10, <2>1, <2>3, <2>4 DEF InHand
  <2>5. CASE o[2] > token
    <3>1. o[2] \in Keys /\ <<bucket, o[2]>> \in stored
      BY <1>3, <2>2, ListableIsReached DEF Inv, GrantInv
    <3>2. PICK i \in 1 .. Len(R) : R[i] = o[2]
      BY <1>4, <1>5, <2>2, <2>5, <3>1 DEF Range
    <3>3. CASE i <= n
      <4>1. o[2] \in Range(batch')
        BY <1>8, <1>10, <3>2, <3>3
      <4> QED BY <1>1, <2>1, <2>3, <4>1 DEF InHand
    <3>4. CASE n < i
      <4>1. n < Len(R)
        BY <1>2, <1>5, <3>4
      <4>2. phase' = "page" /\ token' = (IF n = 0 THEN token ELSE R[n])
        BY <1>2, <2>1, <4>1
      <4>3. CASE n = 0
        BY <1>1, <2>1, <2>5, <4>2, <4>3 DEF InHand
      <4>4. CASE n # 0
        <5>1. n \in 1 .. Len(R)
          BY <1>2, <1>5, <4>1, <4>4
        <5>2. o[2] > token'
          BY <1>4, <1>5, <3>2, <3>4, <4>2, <4>4, <5>1, ListingAssumption
        <5> QED BY <1>1, <2>1, <4>2, <5>2 DEF InHand
      <4> QED BY <4>3, <4>4
    <3> QED BY <1>5, <3>3, <3>4
  <2> QED BY <2>1, <2>4, <2>5
<1> QED BY <1>13, <1>14, <1>15, <1>16, <1>17, <1>18 DEF Inv

LEMMA CollectStep == Inv /\ Collect => Inv'
<1> SUFFICES ASSUME Inv, Collect PROVE Inv'
  OBVIOUS
<1> DEFINE brought == Entries(batch)
           dropped == seen \cup Buckets \X Folders
           fresh == Distinct(brought, dropped)
<1>1. /\ UNCHANGED <<connections, policies, stored, changes, granted, found, steady>>
      /\ UNCHANGED <<buckets, bucket, prefixes, prefix, token, batch, resolved, listed, cut>>
      /\ phase = "collect" /\ phase' = "prefix"
      /\ entries' = entries \o fresh /\ seen' = seen \cup Range(fresh)
  BY DEF Collect, world, tables, history
<1>2. TypeOK /\ batch \in Seq(Keys) /\ entries \in Seq(Objects) /\ seen = Range(entries) /\ bucket \in Buckets
  BY <1>1 DEF Inv, TypeOK, EntriesInv, GrantInv
<1>3. Len(batch) \in Nat /\ DOMAIN batch = 1 .. Len(batch) /\ \A i \in DOMAIN batch : batch[i] \in Keys
  BY <1>2, LenProperties
<1>4. brought \in Seq(Objects) /\ Range(brought) = {<<bucket, k>> : k \in Range(batch)}
  <2>1. brought = [i \in 1 .. Len(batch) |-> <<bucket, batch[i]>>]
    BY <1>3 DEF Entries
  <2>2. \A i \in 1 .. Len(batch) : <<bucket, batch[i]>> \in Objects
    BY <1>2, <1>3 DEF Objects
  <2> HIDE DEF brought
  <2>3. brought \in [1 .. Len(batch) -> Objects]
    BY <2>1, <2>2
  <2>4. brought \in Seq(Objects)
    BY ONLY <1>3, <2>3
  <2>5. Range(brought) = {<<bucket, k>> : k \in Range(batch)}
    BY <1>3, <2>1 DEF Range
  <2> QED BY <2>4, <2>5
<1> HIDE DEF brought
<1>5. /\ fresh \in Seq(Objects) /\ IsInjective(fresh)
      /\ Range(fresh) = Range(brought) \ dropped
  <2> HIDE DEF dropped
  <2> QED BY <1>4, DistinctKeepsOneOfEach
<1> HIDE DEF fresh
<1>6. entries' \in Seq(Objects) /\ Range(entries') = Range(entries) \cup Range(fresh)
  BY <1>1, <1>2, <1>5, ConcatProperties, RangeConcatenation
<1>7. IsInjective(entries')
  <2>1. IsInjective(entries) /\ Range(entries) \cap Range(fresh) = {}
    BY <1>2, <1>5 DEF Inv, EntriesInv
  <2> QED BY <1>1, <1>2, <1>5, <2>1, ConcatenationIsInjective
<1>8. Listable' = Listable
  BY <1>1, ListableStable
<1>9. Range(fresh) \subseteq Objects
  BY <1>5, RangeOfSeq
<1>10. TypeOK'
  BY <1>1, <1>2, <1>6, <1>9 DEF TypeOK, Phases, ConnectionTables, PolicyTables
<1>11. GrantInv'
  BY <1>1, <1>8 DEF Inv, GrantInv, Granted
<1>12. BatchInv' /\ ResolvedInv'
  BY <1>1 DEF BatchInv, ResolvedInv
<1>13. EntriesInv'
  <2>1. Range(fresh) \subseteq found
    <3> SUFFICES ASSUME NEW e \in Range(fresh) PROVE e \in found
      OBVIOUS
    <3>1. PICK k \in Range(batch) : e = <<bucket, k>>
      BY <1>4, <1>5
    <3>2. k \notin Folders
      BY <1>2, <1>5, <3>1
    <3> QED BY <1>1, <3>1, <3>2 DEF Inv, BatchInv
  <2> QED BY <1>1, <1>2, <1>6, <1>7, <2>1 DEF Inv, EntriesInv
<1>14. AheadInv'
  BY <1>1, <1>6 DEF Inv, AheadInv, Ahead, ListsOf
<1>15. ListsInv'
  <2> SUFFICES ASSUME NEW o \in steady, NEW l \in ListsOf(o), o \notin Range(entries'), l \notin cut
               PROVE  FALSE
    BY <1>1 DEF ListsInv, ListsOf
  <2>1. l = <<bucket, prefix>> /\ o[2] \in Range(batch) /\ o \notin Range(entries)
    BY <1>1, <1>6 DEF Inv, ListsInv, InHand
  <2>2. o = <<bucket, o[2]>> /\ o[2] \notin Folders
    BY <1>2, <2>1, ListableIsReached DEF Inv, GrantInv, ListsOf
  <2>3. o \in Range(brought) /\ o \notin Buckets \X Folders
    BY <1>4, <2>1, <2>2
  <2> QED BY <1>2, <1>5, <1>6, <2>1, <2>3
<1> QED BY <1>10, <1>11, <1>12, <1>13, <1>14, <1>15 DEF Inv

LEMMA ResolveStep == Inv /\ Resolve => Inv'
<1> SUFFICES ASSUME Inv, Resolve PROVE Inv'
  OBVIOUS
<1>1. /\ UNCHANGED <<connections, policies, stored, changes, granted, found, steady>>
      /\ UNCHANGED <<buckets, bucket, prefixes, prefix, token, batch, seen, entries, listed, cut>>
      /\ phase = "200"
  BY DEF Resolve, world, tables, history
<1>2. entries \in Seq(Objects) /\ IsInjective(entries)
  BY DEF Inv, TypeOK, EntriesInv
<1>3. PICK query \in Queries :
          LET ids == ParseImageIDsQuery(query)
              answers == [i \in DOMAIN ids |-> DecodeImageID(ids[i])]
          IN  IF <<>> \in Range(answers)
              THEN phase' = "400" /\ UNCHANGED resolved
              ELSE phase' = "resolved" /\ resolved' = answers
  BY DEF Resolve
<1>4. ParseImageIDsQuery(query) = IDs
  BY <1>2, QueriesAreRead
<1> DEFINE answers == [i \in DOMAIN IDs |-> DecodeImageID(IDs[i])]
           names == [i \in DOMAIN entries |-> Names(entries[i])]
<1>5. answers = names
  BY <1>2, IdsOfEntries
<1>6. <<>> \notin Range(names)
  BY DEF Range, Names
<1>7. phase' = "resolved" /\ resolved' = names
  <2> HIDE DEF names
  <2> QED BY <1>3, <1>4, <1>5, <1>6
<1>8. Listable' = Listable
  BY <1>1, ListableStable
<1>9. TypeOK'
  <2>1. Range(names) \subseteq {<<NameOf[o[1]], TextOf[o[2]]>> : o \in Objects}
    <3>1. \A i \in DOMAIN entries : entries[i] \in Objects
      BY <1>2, LenProperties
    <3> QED BY <3>1 DEF Range, Names
  <2> HIDE DEF names
  <2> QED BY <1>1, <1>7, <2>1 DEF Inv, TypeOK, Phases, Ended, ConnectionTables, PolicyTables
<1>10. GrantInv'
  BY <1>1, <1>7, <1>8 DEF Inv, GrantInv
<1>11. BatchInv' /\ EntriesInv' /\ ResolvedInv'
  BY <1>1, <1>7 DEF Inv, BatchInv, EntriesInv, ResolvedInv
<1>12. AheadInv' /\ ListsInv'
  BY <1>1, <1>7 DEF Inv, AheadInv, ListsInv, Ahead, InHand, ListsOf
<1> QED BY <1>9, <1>10, <1>11, <1>12 DEF Inv

-----------------------------------------------------------------------------
(* The world around the scan. *)

\* The histories follow the world; nothing of the scan moves.
LEMMA ObservedStep ==
    ASSUME Inv, Observe, UNCHANGED scan,
           connections' \in ConnectionTables, policies' \in PolicyTables,
           stored' \subseteq Objects, changes' \in 0 .. MaxChanges
    PROVE  Inv'
<1>1. /\ UNCHANGED <<phase, buckets, bucket, prefixes, prefix, token>>
      /\ UNCHANGED <<batch, seen, entries, resolved, listed, cut>>
  BY DEF scan
<1>2. /\ granted' = granted \cup Listable'
      /\ found' = found \cup (granted' \cap stored')
      /\ steady' = steady \cap Listable' \cap stored'
  BY DEF Observe
<1>3. Listable' \subseteq Objects
  BY DEF Listable
<1>4. granted \subseteq granted' /\ found \subseteq found' /\ steady' \subseteq steady
  BY <1>2
<1>5. TypeOK'
  <2>1. granted' \subseteq Objects /\ found' \subseteq granted' /\ steady' \subseteq found'
    BY <1>2, <1>3, <1>4 DEF Inv, TypeOK
  <2> QED BY <1>1, <2>1 DEF Inv, TypeOK
<1>6. GrantInv'
  <2>1. Listable' \subseteq granted' /\ granted' \cap stored' \subseteq found' /\ steady' \subseteq Listable' \cap stored'
    BY <1>2
  <2>2. \A p : Granted(p) => Granted(p)'
    BY <1>1, <1>4 DEF Granted
  <2> QED BY <1>1, <2>1, <2>2 DEF Inv, GrantInv
<1>7. BatchInv' /\ EntriesInv' /\ ResolvedInv'
  BY <1>1, <1>4 DEF Inv, BatchInv, EntriesInv, ResolvedInv
<1>8. AheadInv' /\ ListsInv'
  BY <1>1, <1>4 DEF Inv, AheadInv, ListsInv, Ahead, InHand, ListsOf
<1> QED BY <1>5, <1>6, <1>7, <1>8 DEF Inv

LEMMA ObjectChangesStep == Inv /\ ObjectChanges => Inv'
<1> SUFFICES ASSUME Inv, ObjectChanges PROVE Inv'
  OBVIOUS
<1>1. connections' \in ConnectionTables /\ policies' \in PolicyTables
  BY DEF Inv, TypeOK, ObjectChanges, tables
<1>2. stored' \subseteq Objects
  BY DEF Inv, TypeOK, ObjectChanges
<1>3. changes' \in 0 .. MaxChanges
  BY ListingAssumption DEF Inv, TypeOK, ObjectChanges
<1> QED BY <1>1, <1>2, <1>3, ObservedStep DEF ObjectChanges

LEMMA AdministerStep == Inv /\ Administer => Inv'
<1> SUFFICES ASSUME Inv, Administer PROVE Inv'
  OBVIOUS
<1>1. connections \in ConnectionTables /\ policies \in PolicyTables
  BY DEF Inv, TypeOK
<1>2. changes' \in 0 .. MaxChanges /\ stored' \subseteq Objects
  BY ListingAssumption DEF Inv, TypeOK, Administer
<1>3. connections' \in ConnectionTables /\ policies' \in PolicyTables
  <2>1. PICK b \in Buckets :
            \/ \E ps \in SUBSET Prefixes : InsertConnection(Scope, b, ps)
            \/ \E ps \in SUBSET Prefixes : RewriteConnection(Scope, b, ps)
            \/ ToggleConnection(Scope, b) \/ DeleteConnection(Scope, b)
            \/ \E form \in PolicyForms : WritePolicy(Scope, b, Principal, form)
            \/ DeletePolicy(Scope, b, Principal)
    BY DEF Administer
  <2> DEFINE c == connections[<<Scope, b>>]
  <2>2. c # NoRow => c \in ConnectionRows
    BY <1>1, ListingAssumption DEF ConnectionTables
  <2>3. CASE \E ps \in SUBSET Prefixes : InsertConnection(Scope, b, ps)
    <3>1. PICK ps \in SUBSET Prefixes : InsertConnection(Scope, b, ps)
      BY <2>3
    <3>2. [active |-> TRUE, prefixes |-> ps] \in ConnectionRows
      BY DEF ConnectionRows
    <3> QED BY <1>1, <3>1, <3>2 DEF InsertConnection, ConnectionTables
  <2>4. CASE \E ps \in SUBSET Prefixes : RewriteConnection(Scope, b, ps)
    <3>1. PICK ps \in SUBSET Prefixes : RewriteConnection(Scope, b, ps)
      BY <2>4
    <3>2. [c EXCEPT !.prefixes = ps] \in ConnectionRows
      BY <2>2, <3>1 DEF ConnectionRows, RewriteConnection
    <3> QED BY <1>1, <3>1, <3>2 DEF RewriteConnection, ConnectionTables
  <2>5. CASE ToggleConnection(Scope, b)
    <3>1. [c EXCEPT !.active = ~c.active] \in ConnectionRows
      BY <2>2, <2>5 DEF ConnectionRows, ToggleConnection
    <3>2. connections' = [connections EXCEPT ![<<Scope, b>>] = [c EXCEPT !.active = ~c.active]]
      BY <2>5 DEF ToggleConnection
    <3> QED BY <1>1, <2>5, <3>1, <3>2, ZenonT(40) DEF ToggleConnection, ConnectionTables
  <2>6. CASE DeleteConnection(Scope, b)
    BY <1>1, <2>6 DEF DeleteConnection, ConnectionTables, PolicyTables
  <2>7. CASE \E form \in PolicyForms : WritePolicy(Scope, b, Principal, form)
    BY <1>1, <2>7, ListingAssumption DEF WritePolicy, PolicyTables
  <2>8. CASE DeletePolicy(Scope, b, Principal)
    BY <1>1, <2>8 DEF DeletePolicy, PolicyTables
  <2> QED BY <2>1, <2>3, <2>4, <2>5, <2>6, <2>7, <2>8
<1> QED BY <1>2, <1>3, ObservedStep DEF Administer

LEMMA StutterStep == Inv /\ UNCHANGED vars => Inv'
<1> SUFFICES ASSUME Inv, UNCHANGED vars PROVE Inv'
  OBVIOUS
<1>1. /\ UNCHANGED <<connections, policies, stored, changes, granted, found, steady>>
      /\ UNCHANGED <<phase, buckets, bucket, prefixes, prefix, token, batch, seen, entries, resolved, listed, cut>>
  BY DEF vars
<1>2. Listable' = Listable
  BY <1>1, ListableStable
<1>3. TypeOK' /\ GrantInv'
  BY <1>1, <1>2 DEF Inv, TypeOK, ConnectionTables, PolicyTables, GrantInv, Granted
<1>4. BatchInv' /\ EntriesInv' /\ ResolvedInv' /\ AheadInv' /\ ListsInv'
  BY <1>1 DEF Inv, BatchInv, EntriesInv, ResolvedInv, AheadInv, ListsInv, Ahead, InHand, ListsOf
<1> QED BY <1>3, <1>4 DEF Inv

\* The invariant is inductive, hence it holds.
LEMMA InvKept == Inv /\ [Next]_vars => Inv'
BY ListBucketsStep, NextBucketStep, NextPrefixStep, BucketDoneStep, ReadPageStep, CollectStep, FailsStep,
   AnswerStep, ResolveStep, ObjectChangesStep, AdministerStep, StutterStep DEF Next

LEMMA AlwaysInv == Spec => []Inv
BY InvHolds, InvKept, PTL DEF Spec

-----------------------------------------------------------------------------
\* Types; a batch never grows beyond the helper's limit.
THEOREM TypeCorrect == Spec => []TypeOK
<1>1. Inv => TypeOK
  BY DEF Inv
<1> QED BY <1>1, AlwaysInv, PTL

\* Every entry of the response is an object that the principal could list at one
\* moment of the scan and that was stored then or later, whatever is put, deleted,
\* granted or revoked while the scan runs.
THEOREM EntriesWereThere == Spec => []ListedWereThere
<1>1. Inv => ListedWereThere
  BY DEF Inv, EntriesInv, ListedWereThere
<1> QED BY <1>1, AlwaysInv, PTL

\* An object that is stored and listable throughout the scan is in the response, unless
\* the helper was called for prefixes of it and ended the list of each of them early: a
\* list of it that was read to its end brings it, whatever became of the others.
THEOREM StayingIsListed == Spec => []NothingOverlooked
<1>1. Inv => NothingOverlooked
  BY DEF Inv, AheadInv, ListsInv, Ahead, InHand, NothingOverlooked
<1> QED BY <1>1, AlwaysInv, PTL

\* The ids of a response are unique and lead back to its entries, in whichever of
\* the ways the client puts them into its query.
THEOREM IdsLeadBack == Spec => []EntriesCanBeFetched
<1>1. Inv => EntriesCanBeFetched
  BY DEF Inv, EntriesInv, ResolvedInv, EntriesCanBeFetched, Names
<1> QED BY <1>1, AlwaysInv, PTL
=============================================================================
