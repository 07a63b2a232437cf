--------------------------- MODULE ObjectRequests ---------------------------
(***************************************************************************)
(* Requests for single objects on their way through the service: upload,   *)
(* delete, read and the two presign operations, from the handler           *)
(* (internal/httpapi/handlers/objects.go, images.go) over the service      *)
(* (internal/service/object_*.go) and the S3 helper (internal/s3/          *)
(* *_helper.go, retry.go) to the bucket, while operators change the        *)
(* tables, clients hang up and the process is killed.                      *)
(*                                                                         *)
(* A request is a goroutine: it decides, looks up its bucket, obtains a    *)
(* session and calls S3 in separate steps, and anything may happen between *)
(* two of them.  S3 is external.  It may execute a call more than once     *)
(* while the SDK waits for it, and an attempt nobody waits for any more    *)
(* may still be executed later: such requests are in "late".  Two layers   *)
(* give up attempts: the service, which counts its own, and the SDK, whose *)
(* retryer repeats a request on the wire inside one call of the service.   *)
(*                                                                         *)
(* Operators are administrators with SQL: they may insert, rewrite, toggle *)
(* and delete connections and policies.  One that renames a row deletes it *)
(* and inserts another, as far as this module is concerned.                *)
(*                                                                         *)
(* The content an upload or a presigned PUT stores is named after its      *)
(* request.                                                                *)
(***************************************************************************)
EXTENDS AccessControl, RetryPolicy

CONSTANTS
    Requests,       \* identities of requests
    RequestForms,   \* what a request may ask for
    PolicyForms,    \* what an administrator may grant
    InitialTables,  \* the tables the service starts with
    AwsErrors,      \* errors of the retried calls that are not "no such key"
    UnsafeKeys,     \* keys isDeleteKeySafe refuses: they name no concrete object
    Absent,         \* there is no object under the key
    Initial,        \* content that was there before
    MaxChanges      \* bound on the changes to the tables

Ops      == {"upload", "delete", "read", "presignPut", "presignGet"}
Payloads == {"valid", "malformed", "badBase64", "unsupported"}
Forms ==
    [op : Ops, scope : Scopes, principal : Principals, bucket : Buckets, key : Keys, payload : Payloads]

ASSUME RequestsAssumption ==
    /\ RequestForms \subseteq Forms
    /\ PolicyForms \subseteq PolicyRows
    /\ InitialTables \subseteq Tables
    /\ UnsafeKeys \subseteq Keys
    /\ MaxChanges \in Nat
    /\ NoRow \notin Forms
    /\ {Absent, Initial} \cap Requests = {} /\ Absent # Initial
    /\ "none" \notin Requests \cup {Absent, Initial}

VARIABLES
    changes,    \* how often the tables were changed
    form,       \* what each request asks for, NoRow before it arrives
    phase,      \* where its goroutine is
    prefixes,   \* allowed prefixes of the connection it selected
    attempt,    \* loop variable of retryAWS
    result,     \* what S3 answered to the current attempt
    answer,     \* the response the client gets
    cancelled,  \* the client is gone: the context of the request is done
    late,       \* requests with an abandoned attempt that may still be executed
    urls,       \* presign requests whose URL is still valid
    stored,     \* what the buckets hold
    granted,    \* history: the permission held when the request was authorized
    active,     \* history: the connection was active when it was looked up
    touched,    \* history: requests whose operation was executed at least once
    after,      \* history: the requests already answered when a request arrived
    resent,     \* history: requests the SDK repeated inside an attempt
    rewritten   \* history: requests whose connection an operator rewrote or removed
                \*          between their two reads of the tables

tables == <<connections, policies, changes, rewritten>>
world  == <<late, urls, stored, touched, resent>>
vars   == <<connections, policies, changes, form, phase, prefixes, attempt, result, answer,
            cancelled, late, urls, stored, granted, active, touched, after, resent, rewritten>>

Phases  == {"idle", "authorize", "decode", "lookup", "guard", "session", "send", "backoff", "done"}
Running == Phases \ {"idle", "done"}
Answers == {"none", "201", "200", "400", "400 prefix", "403", "404 connection", "404 object", "502", "lost"}
Results == Requests \cup {"none", Absent, Initial}

ActionOf(op) ==
    CASE op = "delete" -> "delete" [] op \in {"upload", "presignPut"} -> "write" [] OTHER -> "read"

Questions ==
    [scope : Scopes, principal : Principals, bucket : Buckets, action : {"read", "write", "delete"}, key : Keys]

\* The authorization question of request r, and the object it is about.
Question(r) ==
    [scope  |-> form[r].scope, principal |-> form[r].principal, bucket |-> form[r].bucket,
     action |-> ActionOf(form[r].op), key |-> form[r].key]
Object(r) == <<form[r].bucket, form[r].key>>

Writes(r) == form[r].op \in {"upload", "delete", "presignPut"}
Acknowledged(r) == answer[r] \in {"200", "201"}

Init ==
    /\ \E t \in InitialTables : connections = t.connections /\ policies = t.policies
    /\ changes = 0
    /\ form = [r \in Requests |-> NoRow]
    /\ phase = [r \in Requests |-> "idle"]
    /\ prefixes = [r \in Requests |-> {}]
    /\ attempt = [r \in Requests |-> 0]
    /\ result = [r \in Requests |-> "none"]
    /\ answer = [r \in Requests |-> "none"]
    /\ cancelled = [r \in Requests |-> FALSE]
    /\ late = {}
    /\ urls = {}
    /\ stored \in [Buckets \X Keys -> {Absent, Initial}]
    /\ granted = [r \in Requests |-> FALSE]
    /\ active = [r \in Requests |-> FALSE]
    /\ touched = {}
    /\ after = [r \in Requests |-> {}]
    /\ resent = {}
    /\ rewritten = {}

Goto(r, p) ==
    /\ phase' = [phase EXCEPT ![r] = p]
    /\ UNCHANGED answer

Reply(r, code) ==
    /\ phase' = [phase EXCEPT ![r] = "done"]
    /\ answer' = [answer EXCEPT ![r] = code]

-----------------------------------------------------------------------------
(* The handler. *)

\* A body or an image id that cannot be decoded, or lacks a field, goes no further.
Arrive(r) ==
    /\ phase[r] = "idle"
    /\ \E f \in RequestForms :
        /\ form' = [form EXCEPT ![r] = f]
        /\ IF f.payload = "malformed" THEN Reply(r, "400") ELSE Goto(r, "authorize")
    /\ after' = [after EXCEPT ![r] = {q \in Requests : Acknowledged(q)}]
    /\ UNCHANGED <<tables, prefixes, attempt, result, cancelled, world, granted, active>>

\* A failing query is a denial, like a missing row.
Authorize(r) ==
    /\ phase[r] = "authorize"
    /\ \E failed \in BOOLEAN :
        IF ~failed /\ Decision(Question(r)) = "allowed"
        THEN Goto(r, IF form[r].op \in {"upload", "presignPut"} THEN "decode" ELSE "lookup")
        ELSE Reply(r, "403")
    /\ granted' = [granted EXCEPT ![r] = MayAccess(Question(r))]
    /\ UNCHANGED <<tables, form, prefixes, attempt, result, cancelled, world, active, after>>

\* Content that is no base64, and a presigned PUT without a content type.
InputRefused(r) ==
    \/ form[r].op = "upload" /\ form[r].payload = "badBase64"
    \/ form[r].op = "presignPut" /\ form[r].payload = "unsupported"

\* A plausible bug, for the mutants: the return after the error response is missing.
DecodeBodyWithoutReturn(r) ==
    /\ phase[r] = "decode"
    /\ phase' = [phase EXCEPT ![r] = "lookup"]
    /\ answer' = [answer EXCEPT ![r] = IF InputRefused(r) THEN "400" ELSE @]
    /\ UNCHANGED <<tables, form, prefixes, attempt, result, cancelled, world, granted, active, after>>

DecodeBody(r) ==
    /\ phase[r] = "decode"
    /\ IF InputRefused(r) THEN Reply(r, "400") ELSE Goto(r, "lookup")
    /\ UNCHANGED <<tables, form, prefixes, attempt, result, cancelled, world, granted, active, after>>

-----------------------------------------------------------------------------
(* The service and the helper. *)

SelectedBucket(r) == ActiveBucket(form[r].scope, form[r].bucket)

LookupFails(r) ==
    /\ phase[r] = "lookup"
    /\ Reply(r, "502")
    /\ UNCHANGED <<tables, form, prefixes, attempt, result, cancelled, world, granted, active, after>>

\* The tables are read a second time: by now the connection may be gone.
BucketNotFound(r) ==
    /\ phase[r] = "lookup"
    /\ SelectedBucket(r) = NoRow
    /\ Reply(r, "404 connection")
    /\ UNCHANGED <<tables, form, prefixes, attempt, result, cancelled, world, granted, active, after>>

BucketSelected(r) ==
    /\ phase[r] = "lookup"
    /\ SelectedBucket(r) # NoRow
    /\ prefixes' = [prefixes EXCEPT ![r] = SelectedBucket(r).prefixes]
    /\ active' = [active EXCEPT ![r] = connections[<<form[r].scope, form[r].bucket>>].active]
    /\ Goto(r, "guard")
    /\ UNCHANGED <<tables, form, attempt, result, cancelled, world, granted, after>>

\* What the helpers refuse before they talk to AWS.  An upload, and a presign
\* operation, does not look at the prefixes again.
UploadRefused(r) == form[r].op = "upload" /\ form[r].payload = "unsupported"
DeleteRefused(r) == form[r].op = "delete" /\ form[r].key \in UnsafeKeys
OutsidePrefixes(r) == form[r].op \in {"delete", "read"} /\ ~IsWithinAllowedPrefixes(form[r].key, prefixes[r])

Guard(r) ==
    /\ phase[r] = "guard"
    /\ \/ (UploadRefused(r) \/ DeleteRefused(r)) /\ Reply(r, "400")
       \/ ~DeleteRefused(r) /\ OutsidePrefixes(r) /\ Reply(r, "400 prefix")
       \/ ~UploadRefused(r) /\ ~DeleteRefused(r) /\ ~OutsidePrefixes(r) /\ Goto(r, "session")
    /\ UNCHANGED <<tables, form, prefixes, attempt, result, cancelled, world, granted, active, after>>

\* ConfigForRole, or signing, fails; 400 where the connection names no region or no role.
SessionFails(r) ==
    /\ phase[r] = "session"
    /\ Reply(r, "502") \/ Reply(r, "400")
    /\ UNCHANGED <<tables, form, prefixes, attempt, result, cancelled, world, granted, active, after>>

\* Signing needs the session and no call: the presign operations end here.
SignUrl(r) ==
    /\ phase[r] = "session"
    /\ form[r].op \in {"presignPut", "presignGet"}
    /\ urls' = urls \cup {r}
    /\ Reply(r, "200")
    /\ UNCHANGED <<tables, form, prefixes, attempt, result, cancelled, late, stored, touched, resent,
                   granted, active, after>>

FirstCall(r) ==
    /\ phase[r] = "session"
    /\ form[r].op \in {"upload", "delete", "read"}
    /\ attempt' = [attempt EXCEPT ![r] = 1]
    /\ Goto(r, "send")
    /\ UNCHANGED <<tables, form, prefixes, result, cancelled, world, granted, active, after>>

\* A plausible bug, for the mutants: an upload is acknowledged and stored in the background.
CallSucceedsInBackground(r) ==
    /\ phase[r] = "send"
    /\ form[r].op = "upload" \/ result[r] # "none"
    /\ form[r].op = "read" => result[r] # Absent
    /\ Reply(r, IF form[r].op = "upload" THEN "201" ELSE "200")
    /\ late' = late \cup {r}
    /\ UNCHANGED <<tables, form, prefixes, attempt, result, cancelled, urls, stored, touched, resent,
                   granted, active, after>>

\* S3 found the object, or took the change.
CallSucceeds(r) ==
    /\ phase[r] = "send"
    /\ result[r] # "none"
    /\ form[r].op = "read" => result[r] # Absent
    /\ Reply(r, IF form[r].op = "upload" THEN "201" ELSE "200")
    /\ UNCHANGED <<tables, form, prefixes, attempt, result, cancelled, world, granted, active, after>>

\* NoSuchKey is no error worth retrying; for a delete it is a success.
CallFindsNoKey(r) ==
    /\ phase[r] = "send"
    /\ form[r].op \in {"delete", "read"}
    /\ result[r] = Absent
    /\ Reply(r, IF form[r].op = "delete" THEN "200" ELSE "404 object")
    /\ UNCHANGED <<tables, form, prefixes, attempt, result, cancelled, world, granted, active, after>>

\* Any other error, whether or not S3 has executed the call, or is still going to.
CallFails(r) ==
    /\ phase[r] = "send"
    /\ \E e \in AwsErrors :
        /\ e.ctx => cancelled[r]
        /\ IF GivesUp(DefaultRetryPolicy, attempt[r], e) THEN Reply(r, "502") ELSE Goto(r, "backoff")
    /\ late' \in {late, late \cup {r}}
    /\ result' = [result EXCEPT ![r] = "none"]
    /\ UNCHANGED <<tables, form, prefixes, attempt, cancelled, urls, stored, touched, resent,
                   granted, active, after>>

\* A plausible bug, for the mutants: the attempts are not counted.
WakeUncounted(r) ==
    /\ phase[r] = "backoff"
    /\ Goto(r, "send")
    /\ UNCHANGED <<tables, form, prefixes, attempt, result, cancelled, world, granted, active, after>>

Wake(r) ==
    /\ phase[r] = "backoff"
    /\ attempt' = [attempt EXCEPT ![r] = @ + 1]
    /\ Goto(r, "send")
    /\ UNCHANGED <<tables, form, prefixes, result, cancelled, world, granted, active, after>>

SleepInterrupted(r) ==
    /\ phase[r] = "backoff"
    /\ cancelled[r]
    /\ SleepIsInterruptible(BackoffForAttempt(DefaultRetryPolicy, attempt[r]))
    /\ Reply(r, "502")
    /\ UNCHANGED <<tables, form, prefixes, attempt, result, cancelled, world, granted, active, after>>

-----------------------------------------------------------------------------
(* S3. *)

Execute(r) ==
    /\ stored' = CASE form[r].op \in {"upload", "presignPut"} -> [stored EXCEPT ![Object(r)] = r]
                   [] form[r].op = "delete" -> [stored EXCEPT ![Object(r)] = Absent]
                   [] OTHER -> stored
    /\ touched' = touched \cup {r}

\* The SDK gives up a wire attempt that may be executed after all, and sends another.
AttemptResent(r) ==
    /\ phase[r] = "send"
    /\ late' \in {late, late \cup {r}}
    /\ result' = [result EXCEPT ![r] = "none"]
    /\ resent' = resent \cup {r}
    /\ UNCHANGED <<tables, form, phase, prefixes, attempt, answer, cancelled, urls, stored, touched,
                   granted, active, after>>

\* The result of a read or a delete is what was there before.
CallExecuted(r) ==
    /\ phase[r] = "send"
    /\ Execute(r)
    /\ result' = [result EXCEPT ![r] = IF form[r].op = "upload" THEN r ELSE stored[Object(r)]]
    /\ UNCHANGED <<tables, form, phase, prefixes, attempt, answer, cancelled, late, urls, resent,
                   granted, active, after>>

LateCallExecuted(r) ==
    /\ r \in late
    /\ Execute(r)
    /\ UNCHANGED <<tables, form, phase, prefixes, attempt, result, answer, cancelled, late, urls, resent,
                   granted, active, after>>

LateCallDropped(r) ==
    /\ r \in late
    /\ late' = late \ {r}
    /\ UNCHANGED <<tables, form, phase, prefixes, attempt, result, answer, cancelled, urls, stored, touched, resent,
                   granted, active, after>>

UrlUsed(r) ==
    /\ r \in urls
    /\ Execute(r)
    /\ UNCHANGED <<tables, form, phase, prefixes, attempt, result, answer, cancelled, late, urls, resent,
                   granted, active, after>>

UrlExpires(r) ==
    /\ r \in urls
    /\ urls' = urls \ {r}
    /\ UNCHANGED <<tables, form, phase, prefixes, attempt, result, answer, cancelled, late, stored, touched, resent,
                   granted, active, after>>

-----------------------------------------------------------------------------
(* Operators, clients and the process. *)

\* The requests that have read the tables once and will read the connection again.
BetweenReads(s, b) ==
    {r \in Requests : phase[r] \in {"decode", "lookup"} /\ form[r].scope = s /\ form[r].bucket = b}

\* The changes of the tables, each one committed statement.
Administer ==
    /\ changes < MaxChanges
    /\ changes' = changes + 1
    /\ \E s \in Scopes, b \in Buckets :
        \/ /\ \/ \E ps \in SUBSET Prefixes : InsertConnection(s, b, ps)
              \/ \E p \in Principals, policy \in PolicyForms : WritePolicy(s, b, p, policy)
              \/ \E p \in Principals : DeletePolicy(s, b, p)
              \/ ToggleConnection(s, b)
           /\ UNCHANGED rewritten
        \/ /\ \/ \E ps \in SUBSET Prefixes : RewriteConnection(s, b, ps)
              \/ DeleteConnection(s, b)
           /\ rewritten' = rewritten \cup BetweenReads(s, b)
    /\ UNCHANGED <<form, phase, prefixes, attempt, result, answer, cancelled, world, granted, active, after>>

ClientHangsUp(r) ==
    /\ phase[r] \in Running
    /\ ~cancelled[r]
    /\ cancelled' = [cancelled EXCEPT ![r] = TRUE]
    /\ UNCHANGED <<tables, form, phase, prefixes, attempt, result, answer, world, granted, active, after>>

\* The shutdown deadline, or a kill: no handler survives, the calls they made may.
Killed ==
    LET running == {r \in Requests : phase[r] \in Running}
    IN  /\ running # {}
        /\ phase' = [r \in Requests |-> IF r \in running THEN "done" ELSE phase[r]]
        /\ answer' = [r \in Requests |-> IF r \in running THEN "lost" ELSE answer[r]]
        /\ \E sent \in SUBSET {r \in running : phase[r] = "send"} : late' = late \cup sent
        /\ UNCHANGED <<tables, form, prefixes, attempt, result, cancelled, urls, stored, touched, resent,
                       granted, active, after>>

Handler(r) ==
    \/ Authorize(r) \/ DecodeBody(r)
    \/ LookupFails(r) \/ BucketNotFound(r) \/ BucketSelected(r) \/ Guard(r)
    \/ SessionFails(r) \/ SignUrl(r) \/ FirstCall(r)
    \/ CallSucceeds(r) \/ CallFindsNoKey(r) \/ CallFails(r) \/ Wake(r) \/ SleepInterrupted(r)

S3(r) == AttemptResent(r) \/ CallExecuted(r) \/ LateCallExecuted(r) \/ LateCallDropped(r) \/ UrlUsed(r) \/ UrlExpires(r)

Next ==
    \/ Administer
    \/ Killed
    \/ \E r \in Requests : Arrive(r) \/ Handler(r) \/ ClientHangsUp(r) \/ S3(r)

Spec == Init /\ [][Next]_vars

\* Handlers are scheduled, and every query, STS call and S3 call returns.
FairSpec == Spec /\ \A r \in Requests : WF_vars(Handler(r))

-----------------------------------------------------------------------------
TypeOK ==
    /\ connections \in ConnectionTables
    /\ policies \in PolicyTables
    /\ changes \in 0 .. MaxChanges
    /\ form \in [Requests -> Forms \cup {NoRow}]
    /\ phase \in [Requests -> Phases]
    /\ prefixes \in [Requests -> SUBSET Prefixes]
    /\ attempt \in [Requests -> 0 .. DefaultMaxAttempts]
    /\ result \in [Requests -> Results]
    /\ answer \in [Requests -> Answers]
    /\ cancelled \in [Requests -> BOOLEAN]
    /\ late \in SUBSET Requests
    /\ urls \in SUBSET Requests
    /\ stored \in [Buckets \X Keys -> Requests \cup {Absent, Initial}]
    /\ granted \in [Requests -> BOOLEAN]
    /\ active \in [Requests -> BOOLEAN]
    /\ touched \in SUBSET Requests
    /\ after \in [Requests -> SUBSET Requests]
    /\ resent \in SUBSET Requests
    /\ rewritten \in SUBSET Requests

\* The requests that have reached a bucket or still can, without another look at the tables.
Reaching == touched \cup late \cup urls \cup {r \in Requests : phase[r] = "send"}

\* Whatever operators do between the two reads of the tables, no operation
\* reaches a bucket, then or after its answer or through a URL, unless the
\* permission held at one moment of the request's life and its connection was
\* active at a later one.
ReachesOnlyWhatWasGranted == \A r \in Reaching : granted[r] /\ active[r]

\* A client that is told 400, 403 or that there is no connection may rely on it:
\* nothing was stored, deleted or read for it, and nothing will be.
RefusalsHaveNoEffect ==
    \A r \in Requests : answer[r] \in {"400", "400 prefix", "403", "404 connection"} => r \notin Reaching

\* The prefixes are compared a second time on the way to a delete or a read, with
\* those of the connection that was looked up.  Neither reaches an object outside
\* of them; an upload or a presigned URL, which nobody compares again, does so, and
\* the comparison refuses a request, only where an operator rewrote or removed the
\* connection after the request was authorized.  Other changes in between, and all
\* that the service's own statements can do, leave the two comparisons in agreement.
PrefixesDecideTwice ==
    \A r \in Requests :
        /\ answer[r] = "400 prefix" => r \in rewritten
        /\ r \in Reaching /\ ~IsWithinAllowedPrefixes(form[r].key, prefixes[r]) =>
            r \in rewritten /\ form[r].op \notin {"delete", "read"}

\* An acknowledged write is there: while no other request has touched its object,
\* the bucket holds what the client was told it stored, or nothing where it deleted.
AcknowledgedWritesHold ==
    \A r \in Requests :
        /\ Acknowledged(r)
        /\ form[r].op \in {"upload", "delete"}
        /\ \A q \in touched \ {r} : Object(q) = Object(r) => ~Writes(q)
        => stored[Object(r)] = IF form[r].op = "upload" THEN r ELSE Absent

\* An upload that was acknowledged before the delete of its object arrived is not
\* back once the delete is acknowledged.  The ways back are two: an attempt the
\* service gave up and repeated, or one the SDK did, executed after all.
DeletedStaysDeleted ==
    \A r, d \in Requests :
        /\ form[r] # NoRow /\ form[r].op = "upload"
        /\ form[d] # NoRow /\ form[d].op = "delete" /\ answer[d] = "200"
        /\ r \in after[d]
        /\ Object(r) = Object(d)
        /\ stored[Object(r)] = r
        => attempt[r] > 1 \/ r \in resent

\* A handler answers once: no later step of it, of the process or of another
\* request takes an answer back, and what may still reach the bucket for an
\* answered request only becomes less.
AnswersAreFinal ==
    [][\A r \in Requests :
        answer[r] # "none" =>
            /\ answer'[r] = answer[r]
            /\ r \in late' \cup urls' => r \in late \cup urls]_vars

\* Every request that arrives is answered: retries end, and a client that hangs up blocks nobody.
EveryRequestAnswered == \A r \in Requests : phase[r] \in Running ~> phase[r] = "done"

-----------------------------------------------------------------------------
(* What is promised of all this is module ObjectAccess.                    *)

Permitted == {q \in Questions : MayAccess(q)}
Open      == {c \in Scopes \X Buckets : ActiveBucket(c[1], c[2]) # NoRow}

EffectOf(op) ==
    CASE op \in {"upload", "presignPut"} -> "store" [] op = "delete" -> "remove" [] OTHER -> "none"
ByUrl(op) == op \in {"presignPut", "presignGet"}

Wish(r) ==
    [question |-> Question(r), connection |-> <<form[r].scope, form[r].bucket>>, object |-> Object(r),
     effect |-> EffectOf(form[r].op), byUrl |-> ByUrl(form[r].op)]

\* A permission that was there but could not be read counts as none.
Stage(r) ==
    IF active[r] THEN "admitted" ELSE IF granted[r] /\ answer[r] # "403" THEN "permitted" ELSE "asking"

OutcomeOf(code) ==
    CASE code = "none" -> "none"
      [] code \in {"400", "400 prefix", "403", "404 connection"} -> "refused"
      [] code \in {"200", "201", "404 object"} -> "done"
      [] code \in {"502", "lost"} -> "failed"

Asked     == [r \in Requests |-> IF form[r] = NoRow THEN NoRow ELSE Wish(r)]
Standings == [r \in Requests |-> Stage(r)]
Outcomes  == [r \in Requests |-> OutcomeOf(answer[r])]

Access == INSTANCE ObjectAccess WITH
    Connections <- Scopes \X Buckets, Objects <- Buckets \X Keys,
    Contents <- Requests \cup {Absent, Initial}, Nothing <- NoRow,
    permitted <- Permitted, open <- Open,
    asked <- Asked, stage <- Standings, answer <- Outcomes,
    loose <- late \cup urls, performed <- touched

ASSUME WishesAssumption == NoRow \notin Access!Wishes

\* The service keeps what ObjectAccess promises: a permission and an open connection
\* before any effect, "done" only of what was performed or of a URL that performs it,
\* "refused" only of what never will be, nothing loose that its own request did not leave.
ImplementsAccess == Access!Spec
=============================================================================
