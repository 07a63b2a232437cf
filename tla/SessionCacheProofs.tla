------------------------- MODULE SessionCacheProofs -------------------------
(***************************************************************************)
(* Proofs about SessionCache for any set of calls, references, retry       *)
(* policy and STS errors.                                                  *)
(*                                                                         *)
(* The invariant Inv says who may be where with respect to the RWMutex.    *)
(* Its heart is that a call between its second look and its store holds    *)
(* the write lock and still finds no session under its key; from that the  *)
(* uniqueness of sessions and the refinement of SessionMemo follow.        *)
(***************************************************************************)
EXTENDS SessionCache, TLAPS

Writing == {"locked", "prime", "sleep"}

\* A call has a usable reference as soon as it has left "idle", unless it is done.
RefsKnown ==
    \A c \in Callers :
        /\ pc[c] = "idle" <=> ref[c] = NoRef
        /\ pc[c] = "done" <=> result[c] # NoResult

\* The RWMutex: readers and blocked readers are exactly the calls in get, the
\* writer is exactly the call between Lock and its return.
LockInv ==
    /\ \A c \in Callers : c \in readers \cup blocked <=> pc[c] = "get"
    /\ \A c \in Callers : writer = c <=> pc[c] \in Writing
    /\ readers \cap blocked = {}
    /\ blocked # {} => writer # NoCaller

\* A priming call is alone with the map, and its key is still missing there.
PrimingInv ==
    \A c \in Callers : pc[c] \in {"prime", "sleep"} => readers = {} /\ Cached(c) = NoSession

Inv == TypeOK /\ RefsKnown /\ LockInv /\ PrimingInv /\ OneSessionPerKey /\ SessionMatchesRole

LEMMA KeyInDomain ==
    ASSUME NEW r \in Refs PROVE CacheKey(r) \in CacheKeys
BY DEF CacheKeys

LEMMA SessionTyped ==
    ASSUME NEW c \in Callers, NEW r \in Refs PROVE Session(c, r) \in Sessions
BY DEF Session, Sessions

\* Two references with one cache key are one role to STS.
LEMMA SameKeySameIdentity ==
    ASSUME NEW r \in Refs, NEW s \in Refs, CacheKey(r) = CacheKey(s)
    PROVE  AssumesAs(r) = AssumesAs(s)
<1>1. r.region = s.region /\ r.role = s.role
  BY DEF CacheKey
<1>2. (IF r.external = NilExternalID THEN "" ELSE r.external)
        = (IF s.external = NilExternalID THEN "" ELSE s.external)
  BY DEF CacheKey
<1>3. (IF r.external \in {NilExternalID, ""} THEN "absent" ELSE r.external)
        = (IF s.external \in {NilExternalID, ""} THEN "absent" ELSE s.external)
  BY <1>2
<1> QED BY <1>1, <1>3 DEF AssumesAs

\* A call that is under way carries a reference of Refs, so its key exists.
LEMMA RefInRefs ==
    ASSUME TypeOK, RefsKnown, NEW c \in Callers, pc[c] # "idle"
    PROVE  /\ ref[c] \in Refs
           /\ CacheKey(ref[c]) \in CacheKeys
           /\ Cached(c) \in Sessions \cup {NoSession}
<1>1. ref[c] \in Refs
  BY NotRefs DEF TypeOK, RefsKnown
<1>2. CacheKey(ref[c]) \in CacheKeys
  BY <1>1, KeyInDomain
<1> QED BY <1>1, <1>2 DEF TypeOK, Cached

LEMMA InitInv == Init => Inv
<1> SUFFICES ASSUME Init PROVE Inv
  OBVIOUS
<1>1. TypeOK
  BY DEF Init, TypeOK
<1>2. RefsKnown
  BY DEF Init, RefsKnown
<1>3. LockInv
  BY NotCallers DEF Init, LockInv, Writing
<1>4. PrimingInv
  BY DEF Init, PrimingInv
<1>5. OneSessionPerKey /\ SessionMatchesRole
  BY DEF Init, OneSessionPerKey, SessionMatchesRole
<1> QED BY <1>1, <1>2, <1>3, <1>4, <1>5 DEF Inv

-----------------------------------------------------------------------------
LEMMA TypeStep ==
    ASSUME TypeOK, RefsKnown, [Next]_vars
    PROVE  TypeOK' /\ RefsKnown'
<1>1. ASSUME NEW c \in Callers, NEW r \in Refs, Call(c, r)
      PROVE  TypeOK' /\ RefsKnown'
  BY <1>1, NotRefs, Atoms DEF TypeOK, RefsKnown, Call, RLock, Return, lockVars
<1>2. ASSUME NEW c \in Callers, Get(c)
      PROVE  TypeOK' /\ RefsKnown'
  <2>1. Cached(c) \in Sessions \cup {NoSession}
    BY <1>2, RefInRefs DEF Get
  <2> QED BY <1>2, <2>1, Atoms DEF TypeOK, RefsKnown, Get, RUnlock, Return
<1>3. ASSUME NEW c \in Callers, Lock(c)
      PROVE  TypeOK' /\ RefsKnown'
  BY <1>3 DEF TypeOK, RefsKnown, Lock
<1>4. ASSUME NEW c \in Callers, DoubleCheckHit(c)
      PROVE  TypeOK' /\ RefsKnown'
  <2>1. Cached(c) \in Sessions \cup {NoSession}
    BY <1>4, RefInRefs DEF DoubleCheckHit
  <2> QED BY <1>4, <2>1, Atoms DEF TypeOK, RefsKnown, DoubleCheckHit, Unlock, Return
<1>5. ASSUME NEW c \in Callers, BuildProvider(c)
      PROVE  TypeOK' /\ RefsKnown'
  BY <1>5 DEF TypeOK, RefsKnown, BuildProvider
<1>6. ASSUME NEW c \in Callers, BuildProviderFails(c)
      PROVE  TypeOK' /\ RefsKnown'
  BY <1>6, Atoms DEF TypeOK, RefsKnown, BuildProviderFails, Unlock, Return
<1>7. ASSUME NEW c \in Callers, PrimeSucceeds(c)
      PROVE  TypeOK' /\ RefsKnown'
  <2>1. Session(c, ref[c]) \in Sessions /\ CacheKey(ref[c]) \in CacheKeys
    BY <1>7, RefInRefs, SessionTyped DEF PrimeSucceeds
  <2> QED BY <1>7, <2>1, Atoms DEF TypeOK, RefsKnown, PrimeSucceeds, Unlock, Return
<1>8. ASSUME NEW c \in Callers, PrimeFails(c)
      PROVE  TypeOK' /\ RefsKnown'
  BY <1>8, Atoms DEF TypeOK, RefsKnown, PrimeFails, Unlock, Return
<1>9. ASSUME NEW c \in Callers, Wake(c)
      PROVE  TypeOK' /\ RefsKnown'
  BY <1>9 DEF TypeOK, RefsKnown, Wake
<1>10. ASSUME NEW c \in Callers, SleepInterrupted(c)
      PROVE  TypeOK' /\ RefsKnown'
  BY <1>10, Atoms DEF TypeOK, RefsKnown, SleepInterrupted, Unlock, Return
<1>11. ASSUME NEW c \in Callers, Cancel(c)
      PROVE  TypeOK' /\ RefsKnown'
  BY <1>11 DEF TypeOK, RefsKnown, Cancel
<1>12. CASE UNCHANGED vars
  BY <1>12 DEF TypeOK, RefsKnown, vars
<1> QED
  BY <1>1, <1>2, <1>3, <1>4, <1>5, <1>6, <1>7, <1>8, <1>9, <1>10, <1>11, <1>12
     DEF Next, Progress

-----------------------------------------------------------------------------
\* The RWMutex keeps readers, blocked readers and the writer apart.
LEMMA LockStep ==
    ASSUME TypeOK, LockInv, [Next]_vars
    PROVE  LockInv'
<1> USE NotCallers
<1>1. ASSUME NEW c \in Callers, NEW r \in Refs, Call(c, r) PROVE LockInv'
  BY <1>1 DEF TypeOK, LockInv, Writing, Call, RLock, Return, lockVars
<1>2. ASSUME NEW c \in Callers, Get(c) PROVE LockInv'
  BY <1>2 DEF TypeOK, LockInv, Writing, Get, RUnlock, Return
<1>3. ASSUME NEW c \in Callers, Lock(c) PROVE LockInv'
  BY <1>3 DEF TypeOK, LockInv, Writing, Lock
<1>4. ASSUME NEW c \in Callers, DoubleCheckHit(c) PROVE LockInv'
  BY <1>4 DEF TypeOK, LockInv, Writing, DoubleCheckHit, Unlock, Return
<1>5. ASSUME NEW c \in Callers, BuildProvider(c) PROVE LockInv'
  BY <1>5 DEF TypeOK, LockInv, Writing, BuildProvider
<1>6. ASSUME NEW c \in Callers, BuildProviderFails(c) PROVE LockInv'
  BY <1>6 DEF TypeOK, LockInv, Writing, BuildProviderFails, Unlock, Return
<1>7. ASSUME NEW c \in Callers, PrimeSucceeds(c) PROVE LockInv'
  BY <1>7 DEF TypeOK, LockInv, Writing, PrimeSucceeds, Unlock, Return
<1>8. ASSUME NEW c \in Callers, PrimeFails(c) PROVE LockInv'
  BY <1>8 DEF TypeOK, LockInv, Writing, PrimeFails, Unlock, Return
<1>9. ASSUME NEW c \in Callers, Wake(c) PROVE LockInv'
  BY <1>9 DEF TypeOK, LockInv, Writing, Wake
<1>10. ASSUME NEW c \in Callers, SleepInterrupted(c) PROVE LockInv'
  BY <1>10 DEF TypeOK, LockInv, Writing, SleepInterrupted, Unlock, Return
<1>11. ASSUME NEW c \in Callers, Cancel(c) PROVE LockInv'
  BY <1>11 DEF TypeOK, LockInv, Writing, Cancel
<1>12. CASE UNCHANGED vars
  BY <1>12 DEF LockInv, Writing, vars
<1> QED
  BY <1>1, <1>2, <1>3, <1>4, <1>5, <1>6, <1>7, <1>8, <1>9, <1>10, <1>11, <1>12
     DEF Next, Progress

\* There is at most one call between Lock and its return.
LEMMA OneWriter ==
    ASSUME LockInv, NEW c \in Callers, NEW d \in Callers, pc[c] \in Writing, pc[d] \in Writing
    PROVE  c = d
BY DEF LockInv

\* While a call primes, nobody else can store: its key stays missing.
LEMMA PrimingStep ==
    ASSUME TypeOK, RefsKnown, LockInv, PrimingInv, [Next]_vars
    PROVE  PrimingInv'
<1> USE NotCallers
<1>1. ASSUME NEW c \in Callers, NEW r \in Refs, Call(c, r) PROVE PrimingInv'
  <2>1. ASSUME NEW d \in Callers, pc'[d] \in {"prime", "sleep"}
        PROVE  d # c /\ pc[d] = pc'[d] /\ ref'[d] = ref[d]
    BY <1>1, <2>1 DEF TypeOK, Call, Return
  <2>2. ASSUME NEW d \in Callers, pc[d] \in {"prime", "sleep"}
        PROVE  writer = d
    BY <2>2 DEF LockInv, Writing
  <2> QED BY <1>1, <2>1, <2>2 DEF PrimingInv, Cached, Call, RLock, lockVars
<1>2. ASSUME NEW c \in Callers, Get(c) PROVE PrimingInv'
  BY <1>2 DEF TypeOK, PrimingInv, Cached, Get, RUnlock, Return
<1>3. ASSUME NEW c \in Callers, Lock(c) PROVE PrimingInv'
  BY <1>3 DEF TypeOK, PrimingInv, Cached, Lock
<1>4. ASSUME NEW c \in Callers, DoubleCheckHit(c) \/ BuildProviderFails(c) PROVE PrimingInv'
  <2>1. ASSUME NEW d \in Callers, d # c PROVE pc[d] \notin Writing
    BY <1>4, <2>1, OneWriter DEF DoubleCheckHit, BuildProviderFails, Writing
  <2> QED BY <1>4, <2>1 DEF TypeOK, PrimingInv, DoubleCheckHit, BuildProviderFails, Return, Writing
<1>5. ASSUME NEW c \in Callers, BuildProvider(c) PROVE PrimingInv'
  BY <1>5 DEF TypeOK, PrimingInv, Cached, BuildProvider, HoldsWriteLock
<1>6. ASSUME NEW c \in Callers, PrimeSucceeds(c) PROVE PrimingInv'
  <2>1. ASSUME NEW d \in Callers, d # c PROVE pc[d] \notin Writing
    BY <1>6, <2>1, OneWriter DEF PrimeSucceeds, Writing
  <2> QED BY <1>6, <2>1 DEF TypeOK, PrimingInv, PrimeSucceeds, Return, Writing
<1>7. ASSUME NEW c \in Callers, PrimeFails(c) PROVE PrimingInv'
  <2>1. ASSUME NEW d \in Callers, d # c PROVE pc[d] \notin Writing
    BY <1>7, <2>1, OneWriter DEF PrimeFails, Writing
  <2> QED BY <1>7, <2>1 DEF TypeOK, PrimingInv, Cached, PrimeFails, Return, Unlock, Writing
<1>8. ASSUME NEW c \in Callers, Wake(c) PROVE PrimingInv'
  BY <1>8 DEF TypeOK, PrimingInv, Cached, Wake
<1>9. ASSUME NEW c \in Callers, SleepInterrupted(c) PROVE PrimingInv'
  <2>1. ASSUME NEW d \in Callers, d # c PROVE pc[d] \notin Writing
    BY <1>9, <2>1, OneWriter DEF SleepInterrupted, Writing
  <2> QED BY <1>9, <2>1 DEF TypeOK, PrimingInv, SleepInterrupted, Return, Writing
<1>10. ASSUME NEW c \in Callers, Cancel(c) PROVE PrimingInv'
  BY <1>10 DEF PrimingInv, Cached, Cancel
<1>11. CASE UNCHANGED vars
  BY <1>11 DEF PrimingInv, Cached, vars
<1> QED
  BY <1>1, <1>2, <1>3, <1>4, <1>5, <1>6, <1>7, <1>8, <1>9, <1>10, <1>11 DEF Next, Progress

-----------------------------------------------------------------------------
\* The only step that writes the map fills a hole.
LEMMA StoreFillsHole ==
    ASSUME TypeOK, RefsKnown, PrimingInv, [Next]_vars,
           NEW k \in CacheKeys, sessions[k] # NoSession
    PROVE  sessions'[k] = sessions[k]
<1>1. ASSUME NEW c \in Callers, PrimeSucceeds(c) PROVE sessions'[k] = sessions[k]
  <2>1. Cached(c) = NoSession
    BY <1>1 DEF PrimeSucceeds, PrimingInv
  <2> QED BY <1>1, <2>1 DEF PrimeSucceeds, Cached, TypeOK
<1>2. CASE UNCHANGED sessions
  BY <1>2
<1>3. UNCHANGED sessions \/ \E c \in Callers : PrimeSucceeds(c)
  BY DEF Next, Progress, Call, Get, Lock, DoubleCheckHit, BuildProvider, BuildProviderFails,
         PrimeFails, Wake, SleepInterrupted, Cancel, vars
<1> QED BY <1>1, <1>2, <1>3

\* A step returns to at most one call, which it gives a session only when that
\* session is in the map afterwards.
LEMMA ResultStep ==
    ASSUME Inv, [Next]_vars, NEW d \in Callers, result'[d] # result[d]
    PROVE  /\ result[d] = NoResult
           /\ result'[d] # Failed =>
                /\ ref'[d] = ref[d]
                /\ ref[d] \in Refs
                /\ result'[d] = sessions'[CacheKey(ref[d])]
                /\ result'[d] # NoSession
                /\ \/ UNCHANGED sessions
                   \/ /\ result'[d] = Session(d, ref[d])
                      /\ sessions' = [sessions EXCEPT ![CacheKey(ref[d])] = Session(d, ref[d])]
<1> USE DEF Inv
<1>1. ASSUME NEW c \in Callers, NEW r \in Refs, Call(c, r), c = d
      PROVE  result[d] = NoResult /\ result'[d] = Failed
  BY <1>1 DEF Call, Return, RefsKnown, TypeOK
<1>2. ASSUME Get(d)
      PROVE  result[d] = NoResult /\ result'[d] = Cached(d) /\ Cached(d) # NoSession
             /\ ref[d] \in Refs /\ UNCHANGED <<ref, sessions>>
  BY <1>2, RefInRefs DEF Get, Return, RefsKnown, TypeOK
<1>3. ASSUME DoubleCheckHit(d)
      PROVE  result[d] = NoResult /\ result'[d] = Cached(d) /\ Cached(d) # NoSession
             /\ ref[d] \in Refs /\ UNCHANGED <<ref, sessions>>
  BY <1>3, RefInRefs DEF DoubleCheckHit, Return, RefsKnown, TypeOK
<1>4. ASSUME BuildProviderFails(d) \/ PrimeFails(d) \/ SleepInterrupted(d)
      PROVE  result[d] = NoResult /\ result'[d] = Failed
  BY <1>4 DEF BuildProviderFails, PrimeFails, SleepInterrupted, Return, RefsKnown, TypeOK
<1>5. ASSUME PrimeSucceeds(d)
      PROVE  /\ result[d] = NoResult /\ ref[d] \in Refs /\ ref' = ref
             /\ result'[d] = Session(d, ref[d])
             /\ sessions' = [sessions EXCEPT ![CacheKey(ref[d])] = Session(d, ref[d])]
             /\ sessions'[CacheKey(ref[d])] = Session(d, ref[d])
             /\ result'[d] # NoSession
  BY <1>5, RefInRefs, SessionTyped, Atoms DEF PrimeSucceeds, Return, RefsKnown, TypeOK
<1>6. \/ \E r \in Refs : Call(d, r)
      \/ Get(d) \/ DoubleCheckHit(d) \/ BuildProviderFails(d) \/ PrimeFails(d)
      \/ SleepInterrupted(d) \/ PrimeSucceeds(d)
  <2>1. ASSUME NEW c \in Callers, c # d, (\E r \in Refs : Call(c, r)) \/ Progress(c) \/ Cancel(c)
        PROVE  result'[d] = result[d]
    BY <2>1 DEF TypeOK, Progress, Call, Get, Lock, DoubleCheckHit, BuildProvider, BuildProviderFails,
              PrimeSucceeds, PrimeFails, Wake, SleepInterrupted, Cancel, Return
  <2>2. ~UNCHANGED vars
    BY DEF vars
  <2>3. ~(Lock(d) \/ BuildProvider(d) \/ Wake(d) \/ Cancel(d))
    BY DEF Lock, BuildProvider, Wake, Cancel
  <2> QED BY <2>1, <2>2, <2>3 DEF Next, Progress
<1> QED BY <1>1, <1>2, <1>3, <1>4, <1>5, <1>6 DEF Cached

\* The reference of a call under way never changes.
LEMMA RefStable ==
    ASSUME TypeOK, [Next]_vars, NEW c \in Callers, pc[c] # "idle"
    PROVE  ref'[c] = ref[c]
BY DEF TypeOK, Next, Progress, Call, Get, Lock, DoubleCheckHit, BuildProvider, BuildProviderFails,
       PrimeSucceeds, PrimeFails, Wake, SleepInterrupted, Cancel, vars

\* A call that was given a session was given the one the map still holds.
LEMMA OneSessionStep ==
    ASSUME Inv, [Next]_vars
    PROVE  OneSessionPerKey'
<1> USE DEF Inv
<1>0. TypeOK' /\ RefsKnown'
  BY TypeStep
<1>1. ASSUME NEW c \in Callers, result'[c] \notin {Failed, NoResult}
      PROVE  result'[c] = sessions'[CacheKey(ref'[c])]
  <2>1. CASE result'[c] # result[c]
    BY <1>1, <2>1, ResultStep
  <2>2. CASE result'[c] = result[c]
    <3>1. pc[c] # "idle" /\ result[c] \in Sessions
      BY <1>1, <2>2 DEF RefsKnown, TypeOK
    <3>2. CacheKey(ref[c]) \in CacheKeys /\ result[c] = sessions[CacheKey(ref[c])]
      BY <1>1, <2>2, <3>1, RefInRefs DEF OneSessionPerKey, Cached
    <3>3. sessions[CacheKey(ref[c])] # NoSession
      BY <3>1, <3>2, Atoms
    <3> QED BY <2>2, <3>1, <3>2, <3>3, StoreFillsHole, RefStable
  <2> QED BY <2>1, <2>2
<1>2. ASSUME NEW k \in CacheKeys, sessions'[k] # NoSession
      PROVE  LET b == sessions'[k].primedBy
             IN  CacheKey(ref'[b]) = k /\ result'[b] = sessions'[k]
  <2>1. CASE sessions[k] # NoSession
    <3> DEFINE b == sessions[k].primedBy
    <3>1. sessions'[k] = sessions[k] /\ sessions[k] \in Sessions
      BY <2>1, StoreFillsHole DEF TypeOK
    <3>2. b \in Callers /\ CacheKey(ref[b]) = k /\ result[b] = sessions[k]
      BY <2>1, <3>1 DEF OneSessionPerKey, Sessions
    <3>3. result[b] # NoResult
      BY <3>1, <3>2, Atoms
    <3>4. pc[b] # "idle" /\ result'[b] = result[b]
      BY <3>2, <3>3, ResultStep DEF RefsKnown
    <3> QED BY <3>1, <3>2, <3>4, RefStable
  <2>2. CASE sessions[k] = NoSession
    <3>1. PICK c \in Callers : PrimeSucceeds(c)
      BY <1>2, <2>2 DEF Next, Progress, Call, Get, Lock, DoubleCheckHit, BuildProvider,
           BuildProviderFails, PrimeFails, Wake, SleepInterrupted, Cancel, vars
    <3>2. CacheKey(ref[c]) = k /\ sessions'[k] = Session(c, ref[c])
      BY <1>2, <2>2, <3>1, RefInRefs DEF PrimeSucceeds, TypeOK
    <3>3. result'[c] = Session(c, ref[c]) /\ ref'[c] = ref[c]
      BY <3>1 DEF PrimeSucceeds, Return, TypeOK
    <3> QED BY <3>2, <3>3 DEF Session
  <2> QED BY <2>1, <2>2
<1> QED BY <1>1, <1>2 DEF OneSessionPerKey, Cached

\* The identity behind a result is the identity its reference asks for: the
\* session was built for the same key.
LEMMA MatchStep ==
    ASSUME Inv, [Next]_vars
    PROVE  SessionMatchesRole'
<1>0. TypeOK' /\ RefsKnown' /\ OneSessionPerKey'
  BY TypeStep, OneSessionStep DEF Inv
<1>1. ASSUME NEW c \in Callers, result'[c] \notin {Failed, NoResult}
      PROVE  result'[c].identity = AssumesAs(ref'[c])
  <2>1. CASE result'[c] = result[c]
    BY <1>1, <2>1, RefStable DEF Inv, RefsKnown, SessionMatchesRole
  <2>2. CASE result'[c] # result[c]
    <3>1. /\ ref'[c] = ref[c] /\ ref[c] \in Refs
          /\ result'[c] = sessions'[CacheKey(ref[c])]
          /\ result'[c] # NoSession
          /\ UNCHANGED sessions \/ result'[c] = Session(c, ref[c])
      BY <1>1, <2>2, ResultStep
    <3>2. CASE result'[c] = Session(c, ref[c])
      BY <3>1, <3>2 DEF Session
    <3>3. CASE UNCHANGED sessions
      <4> DEFINE k == CacheKey(ref[c])
                 b == sessions[k].primedBy
      <4>1. k \in CacheKeys /\ sessions[k] # NoSession /\ sessions[k] \in Sessions
        BY <3>1, <3>3, KeyInDomain DEF Inv, TypeOK
      <4>2. b \in Callers /\ CacheKey(ref[b]) = k /\ result[b] = sessions[k]
        BY <4>1 DEF Inv, OneSessionPerKey, Sessions
      <4>3. result[b] \notin {Failed, NoResult} /\ pc[b] # "idle"
        BY <4>1, <4>2, Atoms DEF Inv, RefsKnown
      <4>4. result[b].identity = AssumesAs(ref[b]) /\ ref[b] \in Refs
        BY <4>2, <4>3, RefInRefs DEF Inv, SessionMatchesRole
      <4> QED BY <3>1, <3>3, <4>2, <4>4, SameKeySameIdentity
    <3> QED BY <3>1, <3>2, <3>3
  <2> QED BY <2>1, <2>2
<1> QED BY <1>1 DEF SessionMatchesRole

-----------------------------------------------------------------------------
LEMMA InvStep == Inv /\ [Next]_vars => Inv'
BY TypeStep, LockStep, PrimingStep, OneSessionStep, MatchStep DEF Inv

\* Inv is inductive: every reachable state of the cache satisfies it.
THEOREM InvHolds == Spec => []Inv
BY InitInv, InvStep, PTL DEF Spec

\* Type correctness of the cache's state.
THEOREM TypeCorrect == Spec => []TypeOK
BY InvHolds, PTL DEF Inv

\* Between its second look and its store a call is alone with the map
\* (ConfigForRole keeps mu locked through retryAWS).
THEOREM PrimingIsExclusive == Spec => []ExclusivePriming
<1>1. Inv => ExclusivePriming
  BY DEF Inv, LockInv, PrimingInv, ExclusivePriming, HoldsWriteLock, Writing
<1> QED BY <1>1, InvHolds, PTL

\* Callers of one key share one session, for any number of concurrent misses.
THEOREM SessionsAreShared == Spec => []OneSessionPerKey
BY InvHolds, PTL DEF Inv

\* No call is handed credentials of a role, region or external id it did not ask for.
THEOREM SessionsMatchRoles == Spec => []SessionMatchesRole
BY InvHolds, PTL DEF Inv

\* A stored session stays for good.
THEOREM StoredForever == Spec => EntriesAreForever
<1>1. Inv /\ [Next]_vars
        => [\A k \in CacheKeys : sessions[k] # NoSession => sessions'[k] = sessions[k]]_vars
  BY StoreFillsHole DEF Inv
<1> QED BY <1>1, InvHolds, PTL DEF Spec, EntriesAreForever

-----------------------------------------------------------------------------
\* A call that sleeps has an attempt left.
AttemptInv == \A c \in Callers : pc[c] = "sleep" => attempt[c] < p.maxAttempts

\* The normalised policy grants at least one attempt.
LEMMA OneAttemptAtLeast == p.maxAttempts \in Int /\ p.maxAttempts >= 1
BY PolicyAssumption DEF p, Normalized, DefaultMaxAttempts

LEMMA AttemptStep ==
    ASSUME TypeOK, AttemptInv, [Next]_vars
    PROVE  AttemptInv'
<1>1. ASSUME NEW c \in Callers, PrimeFails(c) PROVE AttemptInv'
  <2>1. pc'[c] = "sleep" => attempt[c] < p.maxAttempts
    <3> SUFFICES ASSUME pc'[c] = "sleep" PROVE attempt[c] < p.maxAttempts
      OBVIOUS
    <3>1. PICK e \in STSErrors : IF GivesUp(p, attempt[c], e) THEN Return(c, Failed)
                                                           ELSE pc' = [pc EXCEPT ![c] = "sleep"]
      BY <1>1 DEF PrimeFails
    <3>2. ~ GivesUp(p, attempt[c], e)
      BY <3>1 DEF Return, TypeOK
    <3>3. attempt[c] \in Nat
      BY DEF TypeOK
    <3> QED BY <3>2, <3>3, OneAttemptAtLeast DEF GivesUp
  <2>2. ASSUME NEW d \in Callers, d # c PROVE pc'[d] = pc[d]
    BY <1>1, <2>2 DEF PrimeFails, Return, TypeOK
  <2>3. attempt' = attempt
    BY <1>1 DEF PrimeFails
  <2> QED BY <2>1, <2>2, <2>3 DEF AttemptInv, p
<1>2. ASSUME NEW c \in Callers, BuildProvider(c) \/ Wake(c) PROVE AttemptInv'
  <2>1. ASSUME NEW d \in Callers, pc'[d] = "sleep" PROVE pc[d] = "sleep" /\ attempt'[d] = attempt[d]
    BY <1>2, <2>1 DEF BuildProvider, Wake, TypeOK
  <2> QED BY <2>1 DEF AttemptInv, p
<1>3. ASSUME NEW c \in Callers,
             \/ \E r \in Refs : Call(c, r)
             \/ Get(c) \/ Lock(c) \/ DoubleCheckHit(c) \/ BuildProviderFails(c)
             \/ PrimeSucceeds(c) \/ SleepInterrupted(c) \/ Cancel(c)
      PROVE  AttemptInv'
  <2>1. attempt' = attempt
    BY <1>3 DEF Call, Get, Lock, DoubleCheckHit, BuildProviderFails, PrimeSucceeds, SleepInterrupted, Cancel
  <2>2. ASSUME NEW d \in Callers, pc'[d] = "sleep" PROVE pc[d] = "sleep"
    BY <1>3, <2>2 DEF TypeOK, Call, Get, Lock, DoubleCheckHit, BuildProviderFails, PrimeSucceeds,
                      SleepInterrupted, Cancel, Return
  <2> QED BY <2>1, <2>2 DEF AttemptInv, p
<1>4. CASE UNCHANGED vars
  BY <1>4 DEF AttemptInv, p, vars
<1> QED BY <1>1, <1>2, <1>3, <1>4 DEF Next, Progress

\* STS is asked only for a session that is missing, and no more often than the policy says.
THEOREM OnlyTheMissingIsPrimed == Spec => PrimesOnlyWhatIsMissing
<1>1. Init => AttemptInv
  BY DEF Init, AttemptInv
<1>2. Inv /\ AttemptInv /\ [Next]_vars => AttemptInv'
  BY AttemptStep DEF Inv
<1>3. Inv /\ AttemptInv /\ [Next]_vars
        => [\A c \in Callers : attempt'[c] # attempt[c] =>
              Cached(c) = NoSession /\ attempt'[c] <= p.maxAttempts]_vars
  <2> SUFFICES ASSUME Inv, AttemptInv, Next, NEW c \in Callers, attempt'[c] # attempt[c]
               PROVE  Cached(c) = NoSession /\ attempt'[c] <= p.maxAttempts
    OBVIOUS
  <2>1. BuildProvider(c) \/ Wake(c)
    <3>1. attempt' = attempt \/ \E d \in Callers : BuildProvider(d) \/ Wake(d)
      BY DEF Next, Progress, Call, Get, Lock, DoubleCheckHit, BuildProviderFails,
             PrimeSucceeds, PrimeFails, SleepInterrupted, Cancel
    <3>2. PICK d \in Callers : BuildProvider(d) \/ Wake(d)
      BY <3>1
    <3>3. d # c => attempt'[c] = attempt[c]
      BY <3>2 DEF BuildProvider, Wake, Inv, TypeOK
    <3> QED BY <3>2, <3>3
  <2>2. CASE BuildProvider(c)
    <3>1. Cached(c) = NoSession /\ attempt'[c] = 1
      BY <2>2 DEF BuildProvider, Inv, TypeOK
    <3> QED BY <3>1, OneAttemptAtLeast
  <2>3. CASE Wake(c)
    <3>1. Cached(c) = NoSession /\ attempt[c] < p.maxAttempts
      BY <2>3 DEF Wake, Inv, PrimingInv, AttemptInv
    <3>2. attempt'[c] = attempt[c] + 1 /\ attempt[c] \in Nat
      BY <2>3 DEF Wake, Inv, TypeOK
    <3> QED BY <3>1, <3>2, OneAttemptAtLeast
  <2> QED BY <2>1, <2>2, <2>3
<1> QED BY <1>1, <1>2, <1>3, InvHolds, PTL DEF Spec, PrimesOnlyWhatIsMissing

-----------------------------------------------------------------------------
\* The locked, retrying cache implements the append-only table: in particular
\* a call fails only at a moment when its key has no session.
THEOREM CacheImplementsMemo == Spec => ImplementsMemo
<1>1. Init => Memo!Init
  BY DEF Init, Memo!Init, Memo!Keys, CacheKeys
<1>2. Inv /\ [Next]_vars => [Memo!Next]_<<sessions, ref, result>>
  <2> SUFFICES ASSUME Inv, [Next]_vars
               PROVE  Memo!Next \/ UNCHANGED <<sessions, ref, result>>
    OBVIOUS
  <2> USE DEF Inv
  <2>1. ASSUME NEW c \in Callers, NEW r \in Refs, Call(c, r)
        PROVE  Memo!Ask(c, r)
    BY <2>1 DEF Call, Return, RefsKnown, Memo!Ask
  <2>2. ASSUME NEW c \in Callers, Get(c)
        PROVE  Memo!Hit(c) \/ UNCHANGED <<sessions, ref, result>>
    BY <2>2 DEF Get, Return, RefsKnown, Cached, Memo!Hit, Memo!Pending
  <2>3. ASSUME NEW c \in Callers, DoubleCheckHit(c)
        PROVE  Memo!Hit(c)
    BY <2>3 DEF DoubleCheckHit, Return, RefsKnown, Cached, Memo!Hit, Memo!Pending
  <2>4. ASSUME NEW c \in Callers, BuildProviderFails(c)
        PROVE  Memo!Fail(c)
    BY <2>4 DEF BuildProviderFails, Return, RefsKnown, Cached, Memo!Fail, Memo!Pending
  <2>5. ASSUME NEW c \in Callers, PrimeSucceeds(c)
        PROVE  Memo!Fill(c)
    BY <2>5 DEF PrimeSucceeds, Return, RefsKnown, PrimingInv, Cached, Memo!Fill, Memo!Pending
  <2>6. ASSUME NEW c \in Callers, PrimeFails(c)
        PROVE  Memo!Fail(c) \/ UNCHANGED <<sessions, ref, result>>
    BY <2>6 DEF PrimeFails, Return, RefsKnown, PrimingInv, Cached, Memo!Fail, Memo!Pending
  <2>7. ASSUME NEW c \in Callers, SleepInterrupted(c)
        PROVE  Memo!Fail(c)
    BY <2>7 DEF SleepInterrupted, Return, RefsKnown, PrimingInv, Cached, Memo!Fail, Memo!Pending
  <2>8. ASSUME NEW c \in Callers, Lock(c) \/ BuildProvider(c) \/ Wake(c) \/ Cancel(c)
        PROVE  UNCHANGED <<sessions, ref, result>>
    BY <2>8 DEF Lock, BuildProvider, Wake, Cancel
  <2>9. CASE UNCHANGED vars
    BY <2>9 DEF vars
  <2> QED
    BY <2>1, <2>2, <2>3, <2>4, <2>5, <2>6, <2>7, <2>8, <2>9 DEF Next, Progress, Memo!Next
<1> QED BY <1>1, <1>2, InvHolds, PTL DEF Spec, ImplementsMemo, Memo!Spec, Memo!memoVars
=============================================================================
