# Verification of s3-service

TLA+ models of the Go service in `cmd/`, `internal/` and `db/` and of its Go
client in `saladclient/`, the TLC runs that check them, and the theorems that
TLAPS proves about them. Every definition is translated from the source;
`PROJECT.json` names the lines each one stands for.

The service hands out access to S3 buckets it does not own: an application
calls `/v1` with a JWT, the service decides by its own tables whether the
principal may do what it asks for, assumes the role of the bucket's owner and
carries the operation out, or signs a URL for it.

- [1. The system](#1-the-system)
- [2. Modules and code](#2-modules-and-code)
- [3. Runs: what is checked, and the bounds](#3-runs-what-is-checked-and-the-bounds)
- [4. Fairness](#4-fairness)
- [5. What is proved, and how](#5-what-is-proved-and-how)
- [6. Where the code differs from its documents](#6-where-the-code-differs-from-its-documents)
- [7. What is not modelled](#7-what-is-not-modelled)
- [8. Plan](#8-plan)

How to run: `tlc -config MCRateLimiter.cfg MCRateLimiter.tla` for a run (the
table in section 3 names module and configuration of each),
`tlapm RateLimiterProofs.tla` for a module of proofs.

## 1. The system

| component | state | operations | what must hold |
|---|---|---|---|
| boot and shutdown, `cmd/s3-service/main.go` | the stage `main()` is at, pool, key set, server | configure, open, migrate, check, listen, drain, close | nobody serves on a schema that was not seen to; handlers do not outlive their pool; exit code 0 means drained |
| middleware of `/v1`, `internal/httpapi/middleware`, `router` | claims in each layer's request, the response, `audit_events` | audit, authenticate, limit, recover | only principals operate; a good token is accepted; the audit trail is truthful |
| rate limiter, `middleware/rate_limit.go` | counters per principal and address | `consume` | a bounded number passes in any window; a rejection is earned; `Retry-After` is honest |
| access tables and authorization, `internal/database/ownership.go`, `internal/service/action_auth.go` | `bucket_connections`, `access_policies` | look up, insert, upsert, decide | a decision grants what one policy row on an active connection grants |
| administration, `handlers/bucket_connections.go`, `handlers/access_policies.go`, `s3/bucket_baseline.go` | the same tables, settings of a bucket | create and list connections, replace a policy | answers and listings tell the truth about the tables; the baseline was met; refusals leave no trace |
| object operations, `handlers/objects.go`, `handlers/images.go`, `service/object_*.go`, `s3/*_helper.go` | where each request is; what the buckets hold | upload, delete, read, presign PUT and GET | nothing reaches a bucket without a grant; acknowledged writes are there; refusals have no effect; every request ends |
| image listing, `service/object_list.go`, `s3/list_helper.go` | position of the scan, entries | discover, resolve ids | no entry double, invented or ungranted; none overlooked silently; every id leads back to its entry |
| session cache, `s3/assume_role.go` | sessions per role reference, an `RWMutex` | `ConfigForRole` | one session per key, never another identity's; nobody waits for ever |
| retries, `s3/retry.go` | attempt, sleep | `retryAWS` | ends, for a stated reason, with the delays of the policy |
| presign lifetimes, `service/object_presign.go` | one `time.Duration` | normalise, sign, report | within the bounds for every number of seconds |
| JWT verifier, `internal/auth` | a copy of the issuer's keys | verify, refresh, close | only good tokens pass, also around a rotation of the keys; a good token is refused for a reason; a disabled verifier must not open the service |
| Go client, `saladclient/client.go` | a token shared by goroutines | one method per route | handlers find what the methods send; results are what the service meant and whole |
| console, `ui/` | gateway settings, request history | forms over the API | (not modelled, section 7) |

**How they interact.** A request enters through `RecoverJSON`, the audit layer,
authentication and the limiter, in this order, and comes to a handler. Handlers
call services, services read the tables through the repository and call S3
helpers through adapters; helpers take a session from the cache and call S3
under `retryAWS`. The claims of the caller travel in the context of
`*http.Request`. What requests share is PostgreSQL, the limiter's map under its
mutex, the session cache under its `RWMutex`, and S3. Several instances share
the database, and nothing else.

**What is hard here.**
- The decision, the look-up of the connection and the call of S3 are separate
  reads of state that administrators change in between, with the service and with
  SQL of their own; there is no transaction around them. The upsert of a policy is
  one statement, and still reads the connection before it writes the policy.
- A lost response is retried, by `retryAWS` and, inside of each of its attempts, by
  the AWS SDK: S3 may carry an operation out twice, or an abandoned attempt after
  everything else.
- The client may hang up and the process may be killed between any two steps,
  in particular between an operation and its answer or its audit event.
- The limiter reads the clock before it takes the mutex, so requests consume in
  another order than their timestamps.
- The cache holds its write lock over calls of STS and over sleeps.
- Listing reads a moving world in many small steps.
- Tokens are judged by a copy of keys that rotate elsewhere; a missing key costs
  a refresh for which only few requests may wait, and which may fail.
- An image is streamed after its status went out; what breaks then can only be
  seen in the length.
- Instances migrate one database at once, and `goose` as the service calls it
  takes no lock.
- `os.Exit` skips deferred calls, and signals before `NotifyContext` or after
  `stop()` skip everything.

`PROJECT.json` lists each hazard at its line, with the properties that would
catch it.

## 2. Modules and code

| module | models | notes |
|---|---|---|
| `RetryPolicy` | the pure part of `retry.go` | normalisation, classification of errors, back-off; no state |
| `RetryLoop` | `retryAWS`, `sleepWithContext` | one call, its context may be cancelled at any time |
| `SessionMemo` | (abstract) | what callers of the cache are promised: an append-only table |
| `SessionCache` | `AssumeRoleSessionCache` | the double-checked cache with Go's `RWMutex`; extends `RetryPolicy`, implements `SessionMemo` |
| `RateLimiter` | `identityIPRateLimiter` | stamps and consumption are separate steps |
| `AccessControl` | the two tables, the statements on them, the decision | no actions of its own; used by the three below |
| `ObjectAccess` | (abstract) | what owners and callers are promised: permitted at one moment, admitted at a later one, then performed or not at all |
| `ObjectRequests` | upload, delete, read, presign | composes `AccessControl` and `RetryPolicy` with handlers, services, helpers and S3; implements `ObjectAccess` |
| `BucketAdmin` | `POST` and `GET /v1/bucket-connections`, `POST /v1/access-policies` | composes `AccessControl` with the baseline checks and a database whose answers may be lost |
| `ImageListing` | `GET /v1/images` | one scan in discovery mode, then its ids in resolve mode; composes `AccessControl` with a changing bucket |
| `PresignLifetimes` | the arithmetic of a URL's lifetime | operators only; width and unit are parameters |
| `JwtVerifier` | `VerifyWithContext` and the key set behind it | actions of a request inside the verifier, of the issuer and of the hourly refresh; no specification of its own |
| `Pipeline` | the layers around a handler | extends `JwtVerifier`; abstracts the handler to "performed" and a status |
| `Lifecycle` | `main()` of several instances | abstracts a handler to a count in flight |
| `SaladClient` | the client against the routes | extends `PresignLifetimes`; goroutines, one token, answers and results |
| `MC*` | instances for TLC | constants only |
| `*Proofs` | theorems | section 5 |

How state and actions correspond to the code:

- *A request is a goroutine.* `phase`/`pc` is where it stands; one action is the
  code between two points at which something else can happen to state it uses:
  a query, a lock, a call of AWS, a sleep, a write of the response.
- *Tables are functions to rows or `NoRow`.* `InsertConnection` has the unique
  constraint of `(bucket_name, project_id, app_id)`, active or not, and leaves
  an existing row alone. The upsert of a policy looks for an active connection
  itself, and writes later: PostgreSQL runs it under READ COMMITTED, its foreign key
  keeps the connection from being deleted but not from being disabled, and `ON
  CONFLICT` may wait for another upsert. `BucketAdmin` has the two moments as
  `FindConnection` and `WriteFound`.
- *Administrators write SQL.* `docs/006-access-policy-bootstrap.md` grants them
  `INSERT`, `UPDATE` and `DELETE` on both tables. `ObjectRequests!Administer` has
  the service's own statements and theirs: rewriting the prefixes of a connection,
  toggling it, deleting it with its policies (`ON DELETE CASCADE`), writing and
  deleting policies. A row that is renamed is deleted and inserted, in two steps.
  `BucketAdmin` and `ImageListing` say which of these they have.
  A request body without a prefix list becomes `NULL` in the statement, which
  the `NOT NULL` column refuses: the answer is 500, or 404 when the upsert finds
  no active connection first. A row of policies is `[can, prefixes]`: the four
  `can_*` columns and the list.
- *Keys are model values.* `PrefixesOf[k]` is the set of prefixes that
  `isPrefixAllowed` accepts for the key; string matching is thereby a relation.
  In `ImageListing` keys are numbers in the order of S3; only their ids are made
  of characters (`NameOf`, `TextOf`), because the colon that separates bucket and
  key may be in the key too.
- *A token is what it is good for*: its subject, the key it names and its flaw.
  `published` are the issuer's keys, `cached` the verifier's copy. The library
  `keyfunc` is external: a key that is not cached is worth one refresh, if the
  queue of waiting requests has room; the request is woken whether or not the
  refresh succeeded, and looks again.
- *Errors are classified, not named.* An error is what `isRetryableAWSError`
  tells apart: wrapped context error, code, status, timeout.
- *S3 is external.* It executes a call any number of times while the SDK waits,
  and an attempt that was given up may be executed later (`late`): one of the
  service (`CallFails`), or one on the wire that the SDK's own retryer repeats inside
  of it (`AttemptResent`; `main()` passes an empty `aws.Config`, which leaves that
  retryer in place). A signed URL is usable until it expires (`urls`). A page of a
  list may be empty; while there is more, S3 sends a token with it.
- *History variables* (`granted`, `active`, `touched`, `after`, `admitted`,
  `resent`, `rewritten`, `met`, `once`, `throughout`, `found`, `steady`, `listed`,
  `broken`, `vouched`, `excused`, `stale`, and `current` in a client's call) record what a property needs to remember;
  no guard reads them.
- *External code* (PostgreSQL, S3, `net/http`, the clock, operators) is marked
  `external` in the map and modelled from how the service uses it.
- *"A plausible bug, for the mutants"* marks operators that no specification
  uses. Each stands for a mistake that could be made in the definition it
  follows; replacing that definition by it must break the property it is
  listed with.

Details worth knowing while reading:

- Every error of the repository in `Authorize` ends in 403 `bucket_scope`, a
  failing database included.
- Only uploads have a content-type allow-list; presigned PUTs have none.
- Creating a connection asks for no role; replacing a policy asks for `admin`.
- With JWT disabled the claims are empty, and it is the limiter that answers
  401 to everything under `/v1`.
- The context of a request is looked at once, before its token; a client that
  hangs up while the keys are refreshed does not stop the verification.
- `GetImage` declares the length that S3 reported. Were S3 to report none, the
  helper would pass 0 on; S3 always reports it.
- `ImplementsAccess` maps the requests that a prefix of the pipeline refused, and
  those the process took with it, to `refused` and `failed`; `loose` are the
  late attempts and the URLs that work.
- The counters of the limiter are never evicted and are lost on restart; the
  model's total function of counters is the same thing.
- The scan drops the continuation token of a prefix after `maxObjects` (200)
  objects and does not say so; `NothingOverlooked` excuses an object only if every
  list the scan read of a prefix that leads to it was cut so.
- An upload and the presign operations compare the prefixes once, when they are
  authorized; a delete and a read do so again with the connection they look up.

## 3. Runs: what is checked, and the bounds

| run | module, configuration | bounds | properties |
|---|---|---|---|
| `retry_loop` | `MCRetryLoop` | 125 policies around every default and cap, 5 errors | `GivesUpForAReason`, `BackoffClosedForm`, `Terminates` |
| `session_cache` | `MCSessionCache` | 3 calls, 4 references (nil, empty, real external id; one unusable), 2 attempts | `ExclusivePriming`, `SessionMatchesRole`, `OneSessionPerKey`, `PrimesOnlyWhatIsMissing`, `ImplementsMemo`, `EveryCallReturns` |
| `rate_limiter` | `MCRateLimiter` | 5 requests, 3 callers, limit 2, window 2 ticks of half a second, clock to 4 | `SlidingQuota`, `WindowsInOrder`, `RetryAfterSuffices`, `RejectedOnlyWhenExhausted` |
| `object_access` | `MCObjectRequests`, `MCObjectRequestsAccess` | 1 request of 16 forms, 2 keys, 2 prefixes, 3 initial tables, 2 changes of them | `ReachesOnlyWhatWasGranted`, `RefusalsHaveNoEffect`, `PrefixesDecideTwice`, `ImplementsAccess`, `EveryRequestAnswered` |
| `object_delivery` | `MCObjectRequests`, `MCObjectRequestsDelivery` | 2 requests for one object, 3 attempts each, tables fixed | `AcknowledgedWritesHold`, `DeletedStaysDeleted`, `AnswersAreFinal` |
| `pipeline` | `MCPipeline` | 2 requests, 2 subjects, 2 keys, 6 tokens, 2 rotations, 1 place in the queue, JWT on and off | `OperationsHaveAPrincipal`, `GoodTokensAreAccepted`, `AuditIsTruthful` |
| `image_listing` | `MCImageListing` | 2 buckets, 2 overlapping prefixes, 3 keys (one a folder), 2 objects per prefix, 2 changes, 3 queries for the ids | `ListedWereThere`, `NothingOverlooked`, `EntriesCanBeFetched` |
| `bucket_admin` | `MCBucketAdmin` | 2 requests of 11 forms, 2 scopes, 3 initial tables, 2 changes | `CreatorsOwnTheRow`, `BaselineWasMet`, `RefusalsLeaveNoTrace`, `ListingsAreCurrent`, `PoliciesFollowTheirConnection` |
| `client` | `MCSaladClient` | 2 goroutines, 2 tokens, 6-bit durations of 6 ticks a second, seconds -16 .. 16, images of 2 pieces | `LifetimeInBounds`, `AnswerMatchesLifetime`, `ResultsAreSound`, `OnlyDeleteObjectIsMisunderstood` |
| `lifecycle` | `MCLifecycle` | 2 instances, 4 environments, 4 states of the database, 2 handlers, 1 restart | `SchemaBeforeService`, `HandlersHaveTheirPool`, `CleanExitMeansDrained`, `SignalsEndTheProcess` |
| `pipeline_actor` | `MCPipeline`, `MCPipelineActor` | as `pipeline` | `ActorIsThePrincipal`: violated, section 6 |
| `pipeline_audit` | `MCPipeline`, `MCPipelineAudit` | as `pipeline` | `EveryOperationIsAudited`: violated, section 6 |

What they show, and why the bounds are enough for it:

- **retry_loop.** Every policy on either side of each comparison in
  `normalized()` and `backoffForAttempt`, and a cancellation at any moment,
  including sleeps of zero, which never look at the context. The loop ends, having
  used up its attempts, met a final error or been cancelled, and the doubling meets
  its closed form: the initial delay first, `min(initial * 2^(n-1), max)` from the
  second sleep on.
- **session_cache.** Three calls make two that race for one key and a third that
  reads or writes behind them; two attempts reach retry, sleep and the last
  attempt. The references collide on a key (nil and empty external id) and
  differ in the external id alone. `ImplementsMemo` is the refinement: through
  lock, retries and cancellations callers see an append-only table, and a call
  fails only while its key has no session.
- **rate_limiter.** Five requests on a limit of 2 open a window early and use it up
  late, fill the next one and need a third, are turned away, and overtake one another.
  `SlidingQuota` is the strongest statement a fixed window allows: the burst at a seam
  admits twice the limit, never more. Were a window renewed a tick early, the fifth
  request would be admitted within one window's length. Of a request whose stamp was
  overtaken more than a window may be left, which makes `Retry-After` round. Two
  principals behind one address and the caller without identity tell keys apart. The
  sixth request that would meet the bound exactly (the first burst begun by the second
  request of a window) is out of this run's reach, and covered by the theorem.
- **object_access.** A single request against administrators is what this run is
  about, since requests meet through the tables only. Two changes disable and
  replace, disable and enable, or delete and create again, in both gaps between the
  reads; a second scope would be a second copy of the tables, which are looked up by
  scope everywhere. `PrefixesDecideTwice` is what the second comparison of the prefixes
  is good for: it refuses a request exactly where the connection was rewritten or
  replaced after the first, and there only uploads and URLs go on under prefixes that
  are gone. `ImplementsAccess` is the refinement: whatever retries, late executions,
  URLs and kills do, it looks from outside like a request that was permitted, then
  found its connection open, and was then performed or not at all. For
  `EveryRequestAnswered` one request is enough: handlers of different requests share no
  lock in this module (the session cache, where they do, has `EveryCallReturns`), and
  none of them waits for another.
- **object_delivery.** Two requests are an upload against a delete, a read, a
  URL or another upload. Attempts, lost responses, executions after the answer,
  hang-ups and the end of the process are all there. `DeletedStaysDeleted` says
  exactly what a repeated upload costs: an acknowledged upload may come back after
  an acknowledged delete only if the service, or the SDK inside of its one attempt,
  had repeated it.
- **pipeline.** Two keys and two rotations withdraw a key, bring a new one and
  bring the old one back; one place in the queue and two requests make one of
  them refused for a refresh that the other waits for. Each flaw of a token is
  there once, on a key that may be cached or not. `GoodTokensAreAccepted` lists
  all reasons to refuse a good token: a hang-up before the verification, a key
  that the issuer withdrew, a refresh that failed, a full queue.
  Two requests show that an event is attributed to its own request.
- **pipeline_audit.** `broken` sets apart the requests whose process ended, whose
  handler panicked or whose insert the database refused: what is left without an event
  is an operation whose client hung up before the insert.
- **image_listing.** Two prefixes of which one contains the other, a batch that
  may be full before its list ends, and two changes of objects, policies or
  connections between any two pages. Of the keys one has colons inside and at its
  end, one in front, and one a blank; the ids come back in one value, in one each,
  and twice with blanks between.
- **bucket_admin.** Both requests may be any of the eleven forms, so that two
  creations race for a row, a creation races a policy, a listing races a creation
  and the operator, and a statement whose connection broke is executed after its
  answer. The operator only enables and disables here, which is enough to overtake an
  upsert between its look at the connection and its write: `PoliciesFollowTheirConnection`
  says how late the write may come, and that it needs a connection that was in force at
  one moment of the request. It does not say that a disabled connection keeps its
  policies, which is not so.
- **client.** A second of 6 ticks and a width of 6 bits keep what 10^9 and 64
  bits have in common: the width is a multiple of the power of two in a second,
  not of the second, so that a wrapped duration need not be whole seconds. 32
  seconds are 192 ticks, three whole widths: the requests are a whole period of
  the wrap-around. Two goroutines and two tokens are a call whose
  token changes before, between and after the others' calls; two pieces let a
  stream end before, between and after them. `OnlyDeleteObjectIsMisunderstood` runs
  every method against its handler, and finds one that never works (section 6).
- **lifecycle.** The environments are the one of the first deployment, the
  later ones, one without the schema check and an invalid one; the database is
  empty, complete, lost a table, or lost its version. Two instances race in the
  migration; one restart meets what the first life left.

`CHECK_DEADLOCK FALSE` stands in each configuration whose system comes to an
end: all requests answered, all processes gone.

`MCSymmetry` permutes what the specifications make no distinction about, requests or goroutines.
`Numbered` does the same for the limiter by a constraint, which is faster: of the
behaviours that differ in the names of requests it keeps the one that numbers them in
their order of arrival. No run with liveness uses symmetry.

## 4. Fairness

- `SessionCache!FairSpec`: weak fairness of each call's own next step. Go runs
  runnable goroutines, `RWMutex` does not starve a writer (a waiting writer
  holds later readers back, which the model has), sleeps end, and STS answers
  each attempt, if with an error: the SDK's HTTP client gives up. Cancellation
  is not assumed. Weak fairness of `Lock` is enough because every call is made
  once: finitely many writers come before.
- `ObjectRequests!FairSpec`: weak fairness of each handler: queries, STS calls
  and S3 calls return, if with an error. Nothing is assumed of clients,
  operators, S3's late executions or the end of the process.
- `RetryLoop`: weak fairness of the loop: the function under retry returns.
- `Lifecycle!Spec`: weak fairness of `main()`. The ping has a deadline of 5 s,
  `Shutdown` one of 10 s; migration and schema check rely on the database to
  answer. **Nothing is assumed of handlers**: that a signalled process ends
  although they hang is what `SignalsEndTheProcess` is about.

No safety property depends on fairness.

## 5. What is proved, and how

TLAPS proves these for every value of the constants, under the assumptions
that the modules state by name (`ASSUME`), and which TLC evaluates in each run.

**`SessionCacheProofs`**: for any callers, references, policy and errors.
`Inv` is types, `RefsKnown`, `LockInv`, `PrimingInv` and the two properties about
sessions. `ExclusivePriming` is not inductive: that a priming caller is alone
follows from what the lock knows of everybody (`LockInv`: readers and blocked
readers are exactly those in `get`, the writer is exactly the one between `Lock`
and its return). The heart is `PrimingInv`: between second look and store the key
is *still* missing, from which a store fills a hole (`StoreFillsHole`), sessions
are unique (`SessionsAreShared`), belong to the role that was asked for
(`SessionsMatchRoles`), stay (`StoredForever`) and the refinement
(`CacheImplementsMemo`) follow. `AttemptInv` (a sleeper has an attempt left)
adds that STS is asked only for what is missing and no more often than the
policy says (`OnlyTheMissingIsPrimed`).

**`RateLimiterProofs`**: for any limit, window, clock and callers. `RequestInv`
says that a stamp lies in the past and that a stamped request has a caller. `LogInv`
says that the log of admissions of a key is *good*: of any two entries the later
one continues the window of the earlier, with the counts as far apart as the
positions, or begins a window length later with no more admissions between them
than the two windows allow, or begins two window lengths later; that the counter is the last entry; and that no window begins in the
future. `WindowsInOrder`, `SlidingQuota` and `RejectedOnlyWhenExhausted` are
consequences. `RetryAfterIsHonest` needs of it only that a window that turns somebody
away is open at his time (a new one has room), and that rounding up by `\div` covers
what is left of it (`RoundedUp`). The distance between entries must be part of the invariant because
timestamps arrive out of order: the order of the log says nothing about stamps.

**`ObjectRequestsProofs`**: for any requests, tables, errors and changes. `FormInv`
and `FlowInv` tie where a request stands to what it has established (past
`authorize` it held a permission, past `lookup` its connection was active, before
its first call nothing of it is under way); `PrefixInv` follows the prefixes from the
first comparison to the second: unless an administrator rewrote or removed the
connection in between (`rewritten`), the row that authorized a request is the row it
looks up, though it may be disabled and enabled meanwhile; and past the guard a
delete or a read is within the prefixes it looked up in any case. `GrantsPrecedeEffects`,
`RefusalsAreEmpty`, `PrefixLooksAgree` and `AnsweredOnce` follow.

The second half is the refinement, `RequestsImplementAccess`. Each action is one
step of `ObjectAccess` or none: `Authorize` permits, `BucketSelected` admits,
`Execute` performs, an attempt that is given up is let loose, an answer completes,
refuses or fails. `StageInv` (what a request knows of its own fate before and
after its bucket is selected) is what the abstract guards need beyond `Inv`.

The third part is what the buckets hold. `AckInv` says that an acknowledged write was
executed, and that an acknowledged upload that was sent once, by the service and by the
SDK, has nothing under way any more;
`HeldInv` that the bucket holds what the only writer of an object wrote, acknowledged
or not; `GoneInv` that an upload which was acknowledged before a delete arrived, and sent once, is gone from the
moment the delete is *executed*. The properties speak of acknowledgements, and are not inductive for that:
an operation takes effect before its answer. `AcknowledgedIsStored` and `DeletesStick` follow.

**`PipelineProofs`**: for any requests, tokens, keys, rotations and queue.
`KeyInv` (a cached key was published since the last refresh) and `VerdictInv` (what
a verdict says of its token, and, while it is open, that the key is still
published unless something excuses) follow a token through the verifier;
`ClaimsInv` follows its claims from one layer's context to the next, so that who
operates is who signed in (`PrincipalsOperate`, `RotationLocksNobodyOut`);
`OutcomeInv` and `RowsInv` follow status and operation into the one row of the
audit trail (`AuditTrailIsTrue`).

**`SaladClientProofs`**: for any goroutines, tokens, sizes, widths, units, bounds
and seconds. `PresignIsFair` is the arithmetic: whatever the wrap-around makes of a
product is an integer and is clamped (`NormalizedInBounds`); a product that is
within the bounds is within the width and was not wrapped (`NotWrapped`); and a
report by `\div` and its remainder is less than a second off (`Quotient`).
`Sound` ties a call's token, pieces and answer to its stage, and with it
`BoundsAreEnforced`, `ReportedLifetimesAreTrue`, `ResultsCanBeRelied` and
`DeleteObjectNeverWorks` follow.

**`BucketAdminProofs`**: for any buckets, scopes, forms, initial tables and
changes of owner and operator. `FlowInv` says how far a statement can be at each
phase of its handler (an answer is given from what the statement came to, and only
a 500 leaves one under way). `BaselineInv` says that a setting that was read either
was right at some moment of the request or is among the reasons, so that an empty
list of reasons means that each was met once (`BaselineHolds`; not that they were
met together). `RowInv` ties an insert that was applied to the one row it left: a
later insert finds it, and the operator's toggle keeps its prefixes. `ListInv`
ties a listing to all the tables that pass during its request. `FoundInv` is about
upserts: one that still has to look saw every connection that has been in force since
its request, and one that found its connection found it among those, so that the
write, however late, has a connection behind it (`PoliciesNeedAConnection`).

**`ImageListingProofs`**: for any buckets, prefixes, keys, page sizes, changes, names
and texts. The invariant follows what the scan knows and what it has still to do.
`GrantInv` says that the prefixes in hand were granted at some moment of this scan,
`BatchInv` and `EntriesInv` that what a page brought was granted and stored
(`EntriesWereThere`), and that `seen` is exactly the entries, which are distinct.
Completeness takes two invariants. By `AheadInv` an object that stays is an entry, or
*ahead*, in a bucket or a prefix that the scan has still to come to, or one of the lists
that lead to it was begun. By `ListsInv` none of the lists that were begun has dropped
it: each was cut, or brought it, or is in hand, with the object in the batch or
behind the token. `StayingIsListed` follows: once the scan is over nothing is ahead or
in hand, and an object without an entry has had lists, all of them cut. It rests on
`RemainingIsInOrder`: S3 lists what is left in ascending order, so that what a page
did not bring lies behind its last key, which becomes the token. `IdsLeadBack` is about characters: `DecodeUndoesEncode`
(the first colon ends the bucket, whose name has none) and `QueriesAreRead` (chunks,
separators, blanks and repetitions lead to the same ids; `DistinctKeepsOneOfEach`,
`DistinctKeepsThePrefix`).

The same module has the proofs about `RetryLoop`, in which each page is read, because
both rest on the same facts about numbers. `LoopInv` is types, `CallsInv` (calls,
attempt and policy agree at each stage), `SleepsInv` (the n-th sleep is the back-off
of the n-th attempt) and `GivesUpForAReason`; `GiveUpsAreJustified` follows.
`SleepsAreClosed` needs `BackoffIsClosed`: the doubling loop of `backoffForAttempt`,
with its early exit, comes to the initial delay for n = 1 and to
`min(initial * 2^(n-1), max)` from then on, for every normalised policy. Where an
induction is needed (a finite set of ranks has an ordered list, powers of two,
the doubling), the proof takes the least number for which the claim would fail,
by the well-foundedness of the naturals. Powers of two are a function, `TwoTo`,
as the provers do not know `^`.

**`LifecycleProofs`**: for any number of instances, environments, handlers,
restarts and states of the database. `Sound` says what one process may rely on:
`SchemaKnown` (what its stages have seen of the schema, including which tables
`CheckSchema` has still to ask for), `ServerInTime`, `ResourcesHeld`,
`CodeAtTheEnd`. It is inductive because the one thing that the other instances do
to a process is to let the schema grow (`KnowledgeIsStable`). `SchemaIsThere`,
`PoolOutlivesHandlers`, `ZeroMeansDrained` and `StoppedTakesNoWork` follow.

Every safety property and every action property of a passing run is thereby a
theorem, and so are both refinements. (The runs that end in a violation have none.) Only model-checked are the liveness
properties, `Terminates`, `EveryCallReturns`, `EveryRequestAnswered` and
`SignalsEndTheProcess`: fairness and `ENABLED` are outside of what the prover can do.

What the theorems do not say: they are about the same models that TLC checks, with
the same abstractions (section 7), and about the instances of the constants that
the named assumptions allow. Those of the listing assume that bucket names have no
colon, as S3 demands of them, that no two keys have one text, that no key is blank (it
lies under the prefix of a policy, which is not), and that keys are finitely many.

## 6. Where the code differs from its documents

- **The audit trail names nobody.** The migration says of `actor_id` "Identity of
  the originating principal when available". The audit layer reads the claims
  from its own request after the layers below returned, but authentication puts
  them into a copy of the request for the layers below *it*: every event has the
  actor `system`. Run `pipeline_actor`.
- **Who hangs up is not audited.** `s3-service.md` (line 44) has as done a "Security
  audit log for every upload/delete/presign call". The event is inserted under the
  context of the request, which is done when the client is gone; the failure is logged
  and nothing else. Run `pipeline_audit`.
- **The client cannot delete by key.** `Client.DeleteObject` puts its arguments
  into the query of a `DELETE` without body, the handler decodes a JSON body and
  answers 400; its README (line 145) documents the method as "Delete an object". Run
  `client` has it as what is true: no call of the method succeeds, and it is the only
  one the service does not understand (`OnlyDeleteObjectIsMisunderstood`).

Seen while modelling, without a run of their own:
`docs/008-ui-connection-setup.md` (line 37) says that "For setup actions in `/ui`,
`role` must be `admin`", and creating a connection asks for no role at all; the policy
templates of `saladclient/helpers.go`, the one "with full
access" among them, send an empty `PrefixAllowlist`, with which the service allows
nothing; a list is cut at 200 objects per prefix without a word; `Client.Health`
decodes the status outside of the response envelope and returns it empty; when
two instances migrate an empty database at once, the slower one exits with 1.

## 7. What is not modelled

- Signatures and the JSON of claims and key sets: library code. A token is what
  is wrong with it.
- Reading environment variables, formatting of responses, logging, CORS, health,
  the auth check.
- The adapters between services and helpers, which copy fields.
- Memory: the limiter's map and the session cache grow for ever; nothing in the
  code bounds them, so there is no bound to check.
- Credentials that expire inside of a cached session: the AWS SDK refreshes them
  behind `aws.Config`.
- The result of `Client.Health`: the model has the empty status it returns, but
  no property is stated about it, as no document says what it should be.
- The console (`ui/`): rendering and forms. Its state is the gateway settings in
  the browser's storage, read anew for each request, and a request history that
  one function appends to and cuts.
- The set-up scripts (`scripts/`): one-off calls of the AWS CLI.

## 8. Plan

Done: the retry policy and loop, the session cache and its refinement, the
limiter, access control and object requests with their refinement, the verifier
and the pipeline, listing in both modes, administration, lifetimes and the
client, the lifecycle, and the proofs of section 5.

Still to come:

1. Instances and lives together: `RateLimiter` across restarts, audit events
   across `Lifecycle`.
