---------------------------- MODULE BucketAdmin ----------------------------
(***************************************************************************)
(* POST and GET /v1/bucket-connections and POST /v1/access-policies: who   *)
(* may write the two tables, the security baseline a bucket must meet      *)
(* before it is connected, what a listing shows, and what the answers tell *)
(* when requests race for one row, the owner of the bucket changes its     *)
(* settings, an operator disables a connection, or the database takes a    *)
(* statement whose outcome the service never learns                        *)
(* (internal/httpapi/handlers/bucket_connections.go and                    *)
(* access_policies.go, internal/service/bucket_connections.go,             *)
(* internal/s3/bucket_baseline.go).                                        *)
(*                                                                         *)
(* A read of a setting is a read at its last attempt: module RetryLoop has *)
(* the loop, and a cancelled or failed loop is one failure here.  Regions, *)
(* role ARNs, external ids and the role column decide nothing.  An         *)
(* operator only enables and disables connections here; what becomes of    *)
(* rows that are rewritten or deleted, ObjectRequests has.                 *)
(***************************************************************************)
EXTENDS AccessControl, Sequences

CONSTANTS
    Requests,    \* identities of requests
    Forms,       \* what a request may ask for
    InitialConnections, \* the tables of connections that requests may find
    NoList,      \* a body without the prefix list: a nil slice, NULL for the database
    MaxChanges   \* bound on the changes of the world

FormShapes ==
    [kind : {"connection", "policy", "list"}, admin : BOOLEAN, valid : BOOLEAN, scope : Scopes, bucket : Buckets,
     principal : Principals, can : SUBSET Actions, prefixes : {NoList} \cup SUBSET Prefixes]

ASSUME AdminAssumption ==
    /\ \A ps \in SUBSET Prefixes : NoList # ps
    /\ Forms \subseteq FormShapes
    /\ InitialConnections \subseteq ConnectionTables
    /\ MaxChanges \in Nat

VARIABLES
    phase,      \* where the handler of the request is
    form,       \* what it asks for
    next,       \* the setting it reads next
    reasons,    \* the settings it found wanting
    statement,  \* the statement it sent to the database
    shown,      \* the buckets that its listing brought
    settings,   \* per bucket, the settings that are as the baseline wants them
    changes,    \* how often owner and operator intervened
    met,        \* history: settings that were right at one moment since the request arrived
    once,       \* history: the connections of its scope that were active at one moment since
    throughout  \* history: those that were active at every moment since

requests  == <<phase, form, next, reasons, statement, shown>>
listings  == <<once, throughout>>
vars      == <<connections, policies, requests, settings, changes, met, listings>>

\* The three reads of the baseline, in their order.
Checks == <<"public_access_block", "policy_status", "ownership_controls">>
Settings == {Checks[i] : i \in DOMAIN Checks}

Answers == {"200", "201", "400", "403", "404", "409", "500"}
Phases  == {"idle", "session", "baseline", "statement"} \cup Answers

Init ==
    /\ connections \in InitialConnections
    /\ policies = [x \in Scopes \X Buckets \X Principals |-> NoRow]
    /\ phase = [r \in Requests |-> "idle"]
    /\ form \in [Requests -> Forms]
    /\ next = [r \in Requests |-> 1]
    /\ reasons = [r \in Requests |-> {}]
    /\ statement = [r \in Requests |-> "none"]
    /\ settings \in [Buckets -> SUBSET Settings]
    /\ changes = 0
    /\ met = [r \in Requests |-> {}]
    /\ shown = [r \in Requests |-> {}]
    /\ once = [r \in Requests |-> {}]
    /\ throughout = [r \in Requests |-> {}]

At(r, from)  == phase[r] = from
Goto(r, to)  == phase' = [phase EXCEPT ![r] = to]
Send(r)      == Goto(r, "statement") /\ statement' = [statement EXCEPT ![r] = "sent"]

-----------------------------------------------------------------------------
(* The handlers. *)

\* The moment from which the request is judged.
Watch(r) == met' = [met EXCEPT ![r] = settings[form[r].bucket]]

ArriveConnection(r) ==
    /\ At(r, "idle")
    /\ form[r].kind = "connection"
    /\ Goto(r, IF form[r].valid THEN "session" ELSE "400")
    /\ Watch(r)
    /\ UNCHANGED <<connections, policies, form, next, reasons, statement, shown, settings, changes, listings>>

ActiveBuckets == [s \in Scopes |-> {b \in Buckets : ActiveBucket(s, b) # NoRow}]

\* A plausible bug, for the mutants: the 403 is written and the handler goes on.
ArrivePolicyWithoutReturn(r) ==
    /\ At(r, "idle")
    /\ form[r].kind = "policy"
    /\ \/ ~form[r].admin /\ form[r].valid /\ Goto(r, "403") /\ statement' = [statement EXCEPT ![r] = "sent"]
       \/ ~form[r].valid /\ Goto(r, "400") /\ UNCHANGED statement
       \/ form[r].admin /\ form[r].valid /\ Send(r)
    /\ Watch(r)
    /\ once' = [once EXCEPT ![r] = ActiveBuckets[form[r].scope]]
    /\ UNCHANGED <<connections, policies, form, next, reasons, shown, settings, changes, throughout>>

\* The role is looked at before the body is.
ArrivePolicy(r) ==
    /\ At(r, "idle")
    /\ form[r].kind = "policy"
    /\ \/ ~form[r].admin /\ Goto(r, "403") /\ UNCHANGED statement
       \/ form[r].admin /\ ~form[r].valid /\ Goto(r, "400") /\ UNCHANGED statement
       \/ form[r].admin /\ form[r].valid /\ Send(r)
    /\ Watch(r)
    /\ once' = [once EXCEPT ![r] = ActiveBuckets[form[r].scope]]
    /\ UNCHANGED <<connections, policies, form, next, reasons, shown, settings, changes, throughout>>

ArriveList(r) ==
    /\ At(r, "idle")
    /\ form[r].kind = "list"
    /\ Send(r)
    /\ once' = [once EXCEPT ![r] = ActiveBuckets[form[r].scope]]
    /\ throughout' = [throughout EXCEPT ![r] = ActiveBuckets[form[r].scope]]
    /\ UNCHANGED <<connections, policies, form, next, reasons, shown, settings, changes, met>>

\* History: a change of the connections, as the listings that wait for their answer see it,
\* and the policies that still have to find their connection.
Observe ==
    LET waiting == {r \in Requests : \/ form[r].kind = "list" /\ phase[r] = "statement"
                                     \/ form[r].kind = "policy" /\ statement[r] = "sent"}
    IN  /\ once' = [r \in Requests |-> IF r \in waiting THEN once[r] \cup ActiveBuckets'[form[r].scope] ELSE once[r]]
        /\ throughout' = [r \in Requests |->
              IF r \in waiting THEN throughout[r] \cap ActiveBuckets'[form[r].scope] ELSE throughout[r]]

-----------------------------------------------------------------------------
(* ValidateBucketConnection. *)

SessionReady(r) ==
    /\ At(r, "session")
    /\ Goto(r, "baseline")
    /\ UNCHANGED <<connections, policies, form, next, reasons, statement, shown, settings, changes, met, listings>>

\* A plausible bug, for the mutants: a good setting makes up for the bad ones before it.
ReadSettingForgetfully(r) ==
    /\ At(r, "baseline")
    /\ next[r] \in DOMAIN Checks
    /\ LET check == Checks[next[r]]
       IN  reasons' = [reasons EXCEPT ![r] = IF check \in settings[form[r].bucket] THEN {} ELSE @ \cup {check}]
    /\ next' = [next EXCEPT ![r] = @ + 1]
    /\ UNCHANGED <<connections, policies, phase, form, statement, shown, settings, changes, met, listings>>

\* A setting that is missing altogether is a reason too, but no bucket policy is a good one.
ReadSetting(r) ==
    /\ At(r, "baseline")
    /\ next[r] \in DOMAIN Checks
    /\ LET check == Checks[next[r]]
       IN  reasons' = [reasons EXCEPT ![r] = IF check \in settings[form[r].bucket] THEN @ ELSE @ \cup {check}]
    /\ next' = [next EXCEPT ![r] = @ + 1]
    /\ UNCHANGED <<connections, policies, phase, form, statement, shown, settings, changes, met, listings>>

\* No session, or a read that failed for another reason than the setting: "500".
ValidationFails(r) ==
    /\ \/ At(r, "session")
       \/ At(r, "baseline") /\ next[r] \in DOMAIN Checks
    /\ Goto(r, "500")
    /\ UNCHANGED <<connections, policies, form, next, reasons, statement, shown, settings, changes, met, listings>>

Verdict(r) ==
    /\ At(r, "baseline")
    /\ next[r] \notin DOMAIN Checks
    /\ \/ reasons[r] # {} /\ Goto(r, "400") /\ UNCHANGED statement
       \/ reasons[r] = {} /\ Send(r)
    /\ UNCHANGED <<connections, policies, form, next, reasons, shown, settings, changes, met, listings>>

-----------------------------------------------------------------------------
(* The database, which executes a statement while the service waits, or     *)
(* after it gave up, or never.  NOT NULL is checked before uniqueness.      *)

Outcome(r, o) == statement' = [statement EXCEPT ![r] = o]

ExecuteInsert(r) ==
    LET f == form[r]
    IN  /\ f.kind = "connection"
        /\ \/ f.prefixes # NoList /\ InsertConnection(f.scope, f.bucket, f.prefixes) /\ Outcome(r, "applied")
           \/ /\ f.prefixes # NoList /\ connections[<<f.scope, f.bucket>>] # NoRow
              /\ Outcome(r, "conflict") /\ UNCHANGED <<connections, policies>>
           \/ f.prefixes = NoList /\ Outcome(r, "null") /\ UNCHANGED <<connections, policies>>

\* A plausible bug, for the mutants: the SELECT forgets bc.is_active = true.
FindAnyConnection(r) ==
    /\ form[r].kind = "policy"
    /\ Outcome(r, IF connections[<<form[r].scope, form[r].bucket>>] # NoRow THEN "found" ELSE "no_row")
    /\ UNCHANGED <<connections, policies>>

\* An upsert reads the connection as it is committed when the statement begins, and takes no
\* lock that an UPDATE of is_active would wait for.
FindConnection(r) ==
    /\ form[r].kind = "policy"
    /\ Outcome(r, IF ActiveBucket(form[r].scope, form[r].bucket) # NoRow THEN "found" ELSE "no_row")
    /\ UNCHANGED <<connections, policies>>

\* A plausible bug, for the mutants: the query asks for the scope alone.
ExecuteQueryOfAllRows(r) ==
    /\ form[r].kind = "list"
    /\ shown' = [shown EXCEPT ![r] = {b \in Buckets : connections[<<form[r].scope, b>>] # NoRow}]
    /\ Outcome(r, "applied")
    /\ UNCHANGED <<connections, policies>>

\* One query, and so the rows of one moment.
ExecuteQuery(r) ==
    /\ form[r].kind = "list"
    /\ shown' = [shown EXCEPT ![r] = ActiveBuckets[form[r].scope]]
    /\ Outcome(r, "applied")
    /\ UNCHANGED <<connections, policies>>

Execute(r) ==
    /\ statement[r] = "sent"
    /\ \/ (ExecuteInsert(r) \/ FindConnection(r)) /\ UNCHANGED shown
       \/ ExecuteQuery(r)
    /\ Observe
    /\ UNCHANGED <<phase, form, next, reasons, settings, changes, met>>

\* The upsert writes the policy it has found a connection for, also when an operator has
\* disabled that connection meanwhile, or another upsert has written the row.
WriteFound(r) ==
    LET f == form[r]
        row == [can |-> f.can, prefixes |-> f.prefixes]
    IN  /\ statement[r] = "found"
        /\ \/ f.prefixes # NoList /\ WritePolicy(f.scope, f.bucket, f.principal, row) /\ Outcome(r, "applied")
           \/ f.prefixes = NoList /\ Outcome(r, "null") /\ UNCHANGED <<connections, policies>>
        /\ UNCHANGED <<phase, form, next, reasons, shown, settings, changes, met, listings>>

\* The answer for what the database says.
AnswerOf(r) ==
    CASE statement[r] = "applied" /\ form[r].kind = "connection" -> "201"
      [] statement[r] = "applied" /\ form[r].kind # "connection" -> "200"
      [] statement[r] = "conflict" -> "409"
      [] statement[r] = "no_row"   -> "404"
      [] statement[r] = "null"     -> "500"

StatementReturns(r) ==
    /\ At(r, "statement")
    /\ statement[r] \notin {"sent", "found"}
    /\ Goto(r, AnswerOf(r))
    /\ UNCHANGED <<connections, policies, form, next, reasons, statement, shown, settings, changes, met, listings>>

\* The connection to the database breaks, or the client hangs up: the statement may be
\* executed already, or still be.
StatementFails(r) ==
    /\ At(r, "statement")
    /\ Goto(r, "500")
    /\ UNCHANGED <<connections, policies, form, next, reasons, statement, shown, settings, changes, met, listings>>

StatementLost(r) ==
    /\ At(r, "500")
    /\ statement[r] \in {"sent", "found"}
    /\ Outcome(r, "lost")
    /\ UNCHANGED <<connections, policies, phase, form, next, reasons, shown, settings, changes, met, listings>>

-----------------------------------------------------------------------------
OwnerChangesBucket ==
    /\ changes < MaxChanges
    /\ changes' = changes + 1
    /\ \E b \in Buckets, x \in Settings :
        settings' = [settings EXCEPT ![b] = IF x \in @ THEN @ \ {x} ELSE @ \cup {x}]
    /\ met' = [r \in Requests |-> IF phase[r] \in {"session", "baseline"}
                                  THEN met[r] \cup settings'[form[r].bucket] ELSE met[r]]
    /\ UNCHANGED <<connections, policies, requests, listings>>

OperatorToggles ==
    /\ changes < MaxChanges
    /\ changes' = changes + 1
    /\ \E s \in Scopes, b \in Buckets : ToggleConnection(s, b)
    /\ Observe
    /\ UNCHANGED <<requests, settings, met>>

Handler(r) ==
    \/ ArriveConnection(r) \/ ArrivePolicy(r) \/ ArriveList(r)
    \/ SessionReady(r) \/ ReadSetting(r) \/ ValidationFails(r) \/ Verdict(r)
    \/ StatementReturns(r) \/ StatementFails(r)

Database(r) == Execute(r) \/ WriteFound(r) \/ StatementLost(r)

Next ==
    \/ \E r \in Requests : Handler(r) \/ Database(r)
    \/ OwnerChangesBucket
    \/ OperatorToggles

Spec == Init /\ [][Next]_vars

-----------------------------------------------------------------------------
Statements == {"none", "sent", "found", "applied", "conflict", "no_row", "null", "lost"}

TypeOK ==
    /\ connections \in ConnectionTables
    /\ policies \in PolicyTables
    /\ phase \in [Requests -> Phases]
    /\ form \in [Requests -> Forms]
    /\ next \in [Requests -> 1 .. Len(Checks) + 1]
    /\ reasons \in [Requests -> SUBSET Settings]
    /\ statement \in [Requests -> Statements]
    /\ settings \in [Buckets -> SUBSET Settings]
    /\ changes \in 0 .. MaxChanges
    /\ met \in [Requests -> SUBSET Settings]
    /\ shown \in [Requests -> SUBSET Buckets]
    /\ once \in [Requests -> SUBSET Buckets]
    /\ throughout \in [Requests -> SUBSET Buckets]

\* A 201 is for good, as far as the service's own statements go: the row is there as it was
\* asked for, and no other request for the same bucket was told, or will be told, that it
\* created it.  (Only an administrator's SQL can take it away.)
CreatorsOwnTheRow ==
    \A r \in Requests :
        At(r, "201") =>
            LET f == form[r] IN
            /\ connections[<<f.scope, f.bucket>>] # NoRow
            /\ connections[<<f.scope, f.bucket>>].prefixes = f.prefixes
            /\ \A q \in Requests \ {r} :
                At(q, "201") => <<form[q].scope, form[q].bucket>> # <<f.scope, f.bucket>>

\* No connection is written for a bucket that missed a setting of the baseline all the time
\* its validation took, however the reads and the owner's changes interleave.
BaselineWasMet ==
    \A r \in Requests :
        statement[r] # "none" /\ form[r].kind = "connection" => Settings \subseteq met[r]

\* A request that was refused wrote nothing and never will: the statement of a 409 or 404 had
\* no effect and that of a 400 or 403 was not sent.
RefusalsLeaveNoTrace ==
    \A r \in Requests :
        /\ phase[r] \in {"400", "403"} => statement[r] = "none"
        /\ phase[r] \in {"404", "409"} => statement[r] \in {"conflict", "no_row"}

\* A listing is of a moment between its request and its answer: every connection of the scope
\* that was in force all that time is in it, and none that was not in force for a moment of it,
\* whatever is connected, enabled and disabled meanwhile.
ListingsAreCurrent ==
    \A r \in Requests :
        At(r, "200") /\ form[r].kind = "list" =>
            throughout[r] \subseteq shown[r] /\ shown[r] \subseteq once[r]

\* A policy changes only for an administrator of its scope and only on the word of a
\* connection that was in force at one moment since the request arrived: a statement that is
\* overtaken by an operator, or executed after its 500, may still change the policies of a
\* connection that is disabled by then, but none that was disabled all the time.
PoliciesFollowTheirConnection ==
    [][\A s \in Scopes, b \in Buckets, p \in Principals :
        policies'[<<s, b, p>>] # policies[<<s, b, p>>] =>
            \E r \in Requests :
                /\ form[r].kind = "policy" /\ form[r].admin
                /\ form[r].scope = s /\ form[r].bucket = b /\ form[r].principal = p
                /\ b \in once[r]]_vars
=============================================================================
