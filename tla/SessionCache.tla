---------------------------- MODULE SessionCache ----------------------------
(***************************************************************************)
(* AssumeRoleSessionCache (internal/s3/assume_role.go): concurrent calls   *)
(* of ConfigForRole over one map of role sessions guarded by a             *)
(* sync.RWMutex.  A miss takes the write lock, looks again, builds a       *)
(* credentials provider and primes it against STS, with retries and        *)
(* back-off sleeps, without ever letting go of the lock.                   *)
(*                                                                         *)
(* A caller is one call.  The RWMutex is Go's: a writer that owns rw.w     *)
(* blocks every reader that arrives later and waits for the readers        *)
(* before it; its Unlock hands the read lock to all readers it blocked.    *)
(***************************************************************************)
EXTENDS RetryPolicy

CONSTANTS
    Callers,        \* calls of ConfigForRole
    Refs,           \* the BucketRoleReferences they may carry
    Policy,         \* c.retryPolicy
    STSErrors,      \* errors of one attempt to retrieve credentials
    NilExternalID,  \* ref.ExternalID = nil
    NoCaller, NoRef, NoSession, NoResult, Failed

ASSUME NotCallers == NoCaller \notin Callers
ASSUME NotRefs    == NoRef \notin Refs
ASSUME PolicyAssumption == Policy.maxAttempts \in Int

VARIABLES
    pc,         \* where each call stands
    ref,        \* its BucketRoleReference
    cancelled,  \* its context is done
    attempt,    \* its loop variable in retryAWS
    result,     \* what it returned
    sessions,   \* c.sessions
    writer,     \* owner of rw.w: it holds, or is about to hold, the write lock
    readers,    \* calls that hold the read lock
    blocked     \* calls waiting in RLock behind the writer

callVars == <<pc, ref, cancelled, attempt, result>>
lockVars == <<writer, readers, blocked>>
vars == <<pc, ref, cancelled, attempt, result, sessions, writer, readers, blocked>>

\* ref.Region == "" || ref.RoleARN == ""
Usable(r) == r.region # "" /\ r.role # ""

\* A plausible bug, for the mutants: forgets the external id.
CacheKeyWithoutExternalID(r) == <<r.region, r.role, "">>

\* The three parts contain no "|" (AWS allows none in a region, an ARN or an
\* external id), so the joined string is as good as the tuple.
CacheKey(r) ==
    <<r.region, r.role, IF r.external = NilExternalID THEN "" ELSE r.external>>

\* The STS request of the provider carries an external id only when there is one.
AssumesAs(r) ==
    [region |-> r.region, role |-> r.role,
     external |-> IF r.external \in {NilExternalID, ""} THEN "absent" ELSE r.external]

\* A primed aws.Config: the identity it assumes and the call that built it.
Session(c, r) == [identity |-> AssumesAs(r), primedBy |-> c]

CacheKeys == {CacheKey(r) : r \in Refs}
Cached(c) == sessions[CacheKey(ref[c])]
p == Normalized(Policy)

Init ==
    /\ pc = [c \in Callers |-> "idle"]
    /\ ref = [c \in Callers |-> NoRef]
    /\ cancelled = [c \in Callers |-> FALSE]
    /\ attempt = [c \in Callers |-> 0]
    /\ result = [c \in Callers |-> NoResult]
    /\ sessions = [k \in CacheKeys |-> NoSession]
    /\ writer = NoCaller
    /\ readers = {}
    /\ blocked = {}

-----------------------------------------------------------------------------
(* sync.RWMutex *)

RLock(c) ==
    IF writer = NoCaller
    THEN readers' = readers \cup {c} /\ UNCHANGED <<writer, blocked>>
    ELSE blocked' = blocked \cup {c} /\ UNCHANGED <<writer, readers>>

RUnlock(c) == readers' = readers \ {c} /\ UNCHANGED <<writer, blocked>>

Unlock ==
    /\ writer' = NoCaller
    /\ readers' = readers \cup blocked
    /\ blocked' = {}

HoldsWriteLock(c) == writer = c /\ readers = {}

-----------------------------------------------------------------------------
(* ConfigForRole *)

Return(c, value) ==
    /\ pc' = [pc EXCEPT ![c] = "done"]
    /\ result' = [result EXCEPT ![c] = value]

\* The input check, then the RLock of get.
Call(c, r) ==
    /\ pc[c] = "idle"
    /\ ref' = [ref EXCEPT ![c] = r]
    /\ IF Usable(r)
       THEN /\ pc' = [pc EXCEPT ![c] = "get"]
            /\ RLock(c)
            /\ UNCHANGED result
       ELSE /\ Return(c, Failed)
            /\ UNCHANGED lockVars
    /\ UNCHANGED <<cancelled, attempt, sessions>>

\* The map read of get and its deferred RUnlock.
Get(c) ==
    /\ pc[c] = "get"
    /\ c \in readers
    /\ IF Cached(c) # NoSession
       THEN Return(c, Cached(c))
       ELSE pc' = [pc EXCEPT ![c] = "lock"] /\ UNCHANGED result
    /\ RUnlock(c)
    /\ UNCHANGED <<ref, cancelled, attempt, sessions>>

\* A plausible bug, for the mutants: a call whose context is done gives up but leaves the lock taken.
LockLeaking(c) ==
    /\ pc[c] = "lock"
    /\ writer = NoCaller
    /\ writer' = c
    /\ IF cancelled[c] THEN Return(c, Failed)
       ELSE pc' = [pc EXCEPT ![c] = "locked"] /\ UNCHANGED result
    /\ UNCHANGED <<ref, cancelled, attempt, sessions, readers, blocked>>

\* c.mu.Lock(): get hold of rw.w and announce the writer.  No context ends this wait.
Lock(c) ==
    /\ pc[c] = "lock"
    /\ writer = NoCaller
    /\ writer' = c
    /\ pc' = [pc EXCEPT ![c] = "locked"]
    /\ UNCHANGED <<ref, cancelled, attempt, result, sessions, readers, blocked>>

\* The second look finds the session another call stored meanwhile.
DoubleCheckHit(c) ==
    /\ pc[c] = "locked"
    /\ HoldsWriteLock(c)
    /\ Cached(c) # NoSession
    /\ Return(c, Cached(c))
    /\ Unlock
    /\ UNCHANGED <<ref, cancelled, attempt, sessions>>

\* A plausible bug, for the mutants: no second look after the write lock.
BuildProviderBlindly(c) ==
    /\ pc[c] = "locked"
    /\ HoldsWriteLock(c)
    /\ pc' = [pc EXCEPT ![c] = "prime"]
    /\ attempt' = [attempt EXCEPT ![c] = 1]
    /\ UNCHANGED <<ref, cancelled, result, sessions, writer, readers, blocked>>

\* A plausible bug, for the mutants: lets go of the lock before it talks to STS.
BuildProviderUnlocked(c) ==
    /\ pc[c] = "locked"
    /\ HoldsWriteLock(c)
    /\ Cached(c) = NoSession
    /\ pc' = [pc EXCEPT ![c] = "prime"]
    /\ attempt' = [attempt EXCEPT ![c] = 1]
    /\ Unlock
    /\ UNCHANGED <<ref, cancelled, result, sessions>>

\* A plausible bug, for the mutants: stores the session before it is primed.
BuildProviderStoring(c) ==
    /\ pc[c] = "locked"
    /\ HoldsWriteLock(c)
    /\ Cached(c) = NoSession
    /\ sessions' = [sessions EXCEPT ![CacheKey(ref[c])] = Session(c, ref[c])]
    /\ pc' = [pc EXCEPT ![c] = "prime"]
    /\ attempt' = [attempt EXCEPT ![c] = 1]
    /\ UNCHANGED <<ref, cancelled, result, writer, readers, blocked>>

\* providerFactory returns a provider; the first attempt of retryAWS begins.
BuildProvider(c) ==
    /\ pc[c] = "locked"
    /\ HoldsWriteLock(c)
    /\ Cached(c) = NoSession
    /\ pc' = [pc EXCEPT ![c] = "prime"]
    /\ attempt' = [attempt EXCEPT ![c] = 1]
    /\ UNCHANGED <<ref, cancelled, result, sessions, writer, readers, blocked>>

\* providerFactory fails (a factory set by WithProviderFactory may).
BuildProviderFails(c) ==
    /\ pc[c] = "locked"
    /\ HoldsWriteLock(c)
    /\ Cached(c) = NoSession
    /\ Return(c, Failed)
    /\ Unlock
    /\ UNCHANGED <<ref, cancelled, attempt, sessions>>

\* cfg.Credentials.Retrieve answers: store, unlock, return.
PrimeSucceeds(c) ==
    /\ pc[c] = "prime"
    /\ sessions' = [sessions EXCEPT ![CacheKey(ref[c])] = Session(c, ref[c])]
    /\ Return(c, Session(c, ref[c]))
    /\ Unlock
    /\ UNCHANGED <<ref, cancelled, attempt>>

PrimeFails(c) ==
    /\ pc[c] = "prime"
    /\ \E e \in STSErrors :
        /\ e.ctx => cancelled[c]
        /\ IF GivesUp(p, attempt[c], e)
           THEN Return(c, Failed) /\ Unlock
           ELSE pc' = [pc EXCEPT ![c] = "sleep"] /\ UNCHANGED <<result, writer, readers, blocked>>
    /\ UNCHANGED <<ref, cancelled, attempt, sessions>>

Wake(c) ==
    /\ pc[c] = "sleep"
    /\ pc' = [pc EXCEPT ![c] = "prime"]
    /\ attempt' = [attempt EXCEPT ![c] = @ + 1]
    /\ UNCHANGED <<ref, cancelled, result, sessions, writer, readers, blocked>>

SleepInterrupted(c) ==
    /\ pc[c] = "sleep"
    /\ cancelled[c]
    /\ SleepIsInterruptible(BackoffForAttempt(p, attempt[c]))
    /\ Return(c, Failed)
    /\ Unlock
    /\ UNCHANGED <<ref, cancelled, attempt, sessions>>

\* The client of the request goes away.
Cancel(c) ==
    /\ pc[c] \notin {"idle", "done"}
    /\ ~cancelled[c]
    /\ cancelled' = [cancelled EXCEPT ![c] = TRUE]
    /\ UNCHANGED <<pc, ref, attempt, result, sessions, writer, readers, blocked>>

Progress(c) ==
    \/ Get(c)
    \/ Lock(c)
    \/ DoubleCheckHit(c)
    \/ BuildProvider(c)
    \/ BuildProviderFails(c)
    \/ PrimeSucceeds(c)
    \/ PrimeFails(c)
    \/ Wake(c)
    \/ SleepInterrupted(c)

Next ==
    \E c \in Callers :
        \/ \E r \in Refs : Call(c, r)
        \/ Progress(c)
        \/ Cancel(c)

Spec == Init /\ [][Next]_vars
FairSpec == Spec /\ \A c \in Callers : WF_vars(Progress(c))

-----------------------------------------------------------------------------
(* Properties *)

Sessions == [identity : {AssumesAs(r) : r \in Refs}, primedBy : Callers]

ASSUME Atoms ==
    /\ NoSession \notin Sessions
    /\ NoResult \notin Sessions
    /\ Failed \notin Sessions
    /\ Failed # NoResult
    /\ NoSession \notin {Failed, NoResult}

TypeOK ==
    /\ pc \in [Callers -> {"idle", "get", "lock", "locked", "prime", "sleep", "done"}]
    /\ ref \in [Callers -> Refs \cup {NoRef}]
    /\ cancelled \in [Callers -> BOOLEAN]
    /\ attempt \in [Callers -> Nat]
    /\ result \in [Callers -> Sessions \cup {Failed, NoResult}]
    /\ sessions \in [CacheKeys -> Sessions \cup {NoSession}]
    /\ writer \in Callers \cup {NoCaller}
    /\ readers \subseteq Callers
    /\ blocked \subseteq Callers

\* The lock does its work across STS calls and sleeps: whoever is between the
\* second look and the store is the only writer, nobody is reading, and
\* nobody sleeps behind a lock that has no owner.
ExclusivePriming ==
    /\ \A c \in Callers : pc[c] \in {"prime", "sleep"} => HoldsWriteLock(c)
    /\ blocked # {} => writer # NoCaller

\* The session a call returns assumes exactly the role, region and external id
\* the call asked for: two references that share a cache key are
\* indistinguishable to STS, even when they differ (nil and "" external ids).
SessionMatchesRole ==
    \A c \in Callers :
        result[c] \notin {Failed, NoResult} => result[c].identity = AssumesAs(ref[c])

\* All successful calls for one key were given one and the same session, the
\* one that is cached; a cached session is one its builder really returned.
OneSessionPerKey ==
    /\ \A c \in Callers : result[c] \notin {Failed, NoResult} => result[c] = Cached(c)
    /\ \A k \in CacheKeys :
        sessions[k] # NoSession =>
            LET b == sessions[k].primedBy IN CacheKey(ref[b]) = k /\ result[b] = sessions[k]

\* A cached session is never replaced and never dropped, in spite of two calls
\* that both missed before either took the lock.
EntriesAreForever ==
    [][\A k \in CacheKeys : sessions[k] # NoSession => sessions'[k] = sessions[k]]_vars

\* STS is asked only for a key that has no session at that moment, at most
\* MaxAttempts times by one call.
PrimesOnlyWhatIsMissing ==
    [][\A c \in Callers : attempt'[c] # attempt[c] =>
        Cached(c) = NoSession /\ attempt'[c] <= p.maxAttempts]_vars

\* Every call returns, cancelled or not, provided STS answers every attempt.
EveryCallReturns == \A c \in Callers : pc[c] # "idle" ~> pc[c] = "done"

-----------------------------------------------------------------------------
(* The cache implements the table of SessionMemo; the state of the lock and *)
(* of the retry loop is invisible there.                                    *)

Memo == INSTANCE SessionMemo WITH
            Asks <- Refs, NoAsk <- NoRef, Key <- CacheKey, SessionFor <- Session,
            table <- sessions, ask <- ref, outcome <- result

ImplementsMemo == Memo!Spec
=============================================================================
