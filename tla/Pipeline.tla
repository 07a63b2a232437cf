------------------------------ MODULE Pipeline ------------------------------
(***************************************************************************)
(* A request under /v1 on its way through the middleware that              *)
(* internal/httpapi/router/router.go and routes_v1.go stack: RecoverJSON,  *)
(* AuditEventsMiddleware, JWTAuthMiddleware, the rate limiter and the      *)
(* handler, and back.  The verifier that the third of them calls is module *)
(* JwtVerifier, whose steps interleave with those of other requests.       *)
(*                                                                         *)
(* Each layer serves the *http.Request it was handed.  Claims travel in    *)
(* the context of that request: "sees" says what ClaimsFromContext finds   *)
(* in each layer.  The handler is abstracted to whether it performed its   *)
(* storage operation and what it answered; module ObjectRequests has the   *)
(* details.  The limiter's verdict is free here; module RateLimiter has    *)
(* the details.                                                            *)
(***************************************************************************)
EXTENDS JwtVerifier, Sequences

CONSTANTS
    NoClaims,     \* the context holds no claims
    EmptyClaims   \* the zero Claims{} of a disabled verifier

ASSUME PipelineAssumption ==
    /\ NoClaims \notin Subjects \cup {EmptyClaims}
    /\ EmptyClaims \notin Subjects

VARIABLES
    pc,          \* the layer that is running
    sees,        \* claims in the context of each layer's request
    status,      \* what was written to the response, 0 before
    performed,   \* the storage operation was carried out
    broken,      \* history: a panic, the database or the end of the process cut it short
    audit        \* table audit_events

pipelineVars == <<pc, sees, status, performed, broken, audit>>
vars         == <<verifyVars, pipelineVars>>

Layers == {"audit", "auth", "limit", "handler"}
Claims == Subjects \cup {EmptyClaims, NoClaims}
Stages == {"idle", "auth", "limit", "handler", "record", "done"}
Codes  == {0, 200, 400, 401, 403, 404, 429, 500, 502}

\* A row of audit_events: the request_id and what the middleware derives.
Outcomes == {"allowed", "denied", "error"}
Rows == [request : Requests, actor : Subjects \cup {"system"}, outcome : Outcomes, status : Codes]

\* A plausible bug, for the mutants: every client or server error counts as a denial.
OutcomeByClass(code) == IF code < 400 THEN "allowed" ELSE "denied"

OutcomeOf(code) ==
    CASE code >= 200 /\ code < 400 -> "allowed"
      [] code \in {401, 403}       -> "denied"
      [] OTHER                     -> "error"

\* callerIdentity: the zero claims name nobody.
HasIdentity(claims) == claims \in Subjects

\* The actor_type and actor_id of the event: "system" when the context holds no claims, or empty ones.
ActorOf(claims) == IF claims \in Subjects THEN claims ELSE "system"

Init ==
    /\ VerifierInit
    /\ pc = [r \in Requests |-> "idle"]
    /\ sees = [r \in Requests |-> [l \in Layers |-> NoClaims]]
    /\ status = [r \in Requests |-> 0]
    /\ performed = [r \in Requests |-> FALSE]
    /\ broken = [r \in Requests |-> FALSE]
    /\ audit = <<>>

Goto(r, stage) == pc' = [pc EXCEPT ![r] = stage]

\* A layer that answers for itself: the layers below it never run, the ones above it resume.
Refuse(r, code) ==
    /\ status' = [status EXCEPT ![r] = code]
    /\ Goto(r, "record")

-----------------------------------------------------------------------------
\* The audit layer hands its own request on and waits.
CaptureAudit(r) ==
    /\ pc[r] = "idle"
    /\ \E t \in Tokens \cup {NoToken} : token' = [token EXCEPT ![r] = t]
    /\ Goto(r, "auth")
    /\ UNCHANGED <<jwtEnabled, keyVars, gone, checkVars, sees, status, performed, broken, audit>>

\* Without a bearer token the verifier is not asked, enabled or not.
RefuseMissingToken(r) ==
    /\ pc[r] = "auth"
    /\ token[r] = NoToken
    /\ Refuse(r, 401)
    /\ UNCHANGED <<verifyVars, sees, performed, broken, audit>>

VerifyToken(r) ==
    /\ pc[r] = "auth"
    /\ token[r] # NoToken
    /\ Verify(r)
    /\ UNCHANGED pipelineVars

\* What the verifier returned.  Claims go into a copy of the request for the layers below.
Authenticate(r) ==
    /\ pc[r] = "auth"
    /\ \/ verdict[r] \in {"expired", "invalid"} /\ Refuse(r, 401) /\ UNCHANGED sees
       \/ /\ verdict[r] = "valid"
          /\ sees' = [sees EXCEPT ![r]["limit"] = IF jwtEnabled THEN token[r].subject ELSE EmptyClaims]
          /\ Goto(r, "limit")
          /\ UNCHANGED status
    /\ UNCHANGED <<verifyVars, performed, broken, audit>>

\* A plausible bug, for the mutants: a caller without identity shares a bucket instead of being refused.
LimitRateOfAnybody(r) ==
    /\ pc[r] = "limit"
    /\ \/ Refuse(r, 429) /\ UNCHANGED sees
       \/ /\ sees' = [sees EXCEPT ![r]["handler"] = sees[r]["limit"]]
          /\ Goto(r, "handler")
          /\ UNCHANGED status
    /\ UNCHANGED <<verifyVars, performed, broken, audit>>

LimitRate(r) ==
    /\ pc[r] = "limit"
    /\ \/ ~HasIdentity(sees[r]["limit"]) /\ Refuse(r, 401) /\ UNCHANGED sees
       \/ HasIdentity(sees[r]["limit"]) /\ Refuse(r, 429) /\ UNCHANGED sees
       \/ /\ HasIdentity(sees[r]["limit"])
          /\ sees' = [sees EXCEPT ![r]["handler"] = sees[r]["limit"]]
          /\ Goto(r, "handler")
          /\ UNCHANGED status
    /\ UNCHANGED <<verifyVars, performed, broken, audit>>

-----------------------------------------------------------------------------
(* The handler, with the claims it sees. *)

Perform(r) ==
    /\ pc[r] = "handler"
    /\ status[r] = 0
    /\ ~performed[r]
    /\ performed' = [performed EXCEPT ![r] = TRUE]
    /\ UNCHANGED <<verifyVars, pc, sees, status, broken, audit>>

\* Refusals come before the operation; a failure may be reported of one that was carried out.
Respond(r) ==
    /\ pc[r] = "handler"
    /\ status[r] = 0
    /\ \E code \in IF performed[r] THEN {200, 502} ELSE {400, 403, 404, 502} :
        status' = [status EXCEPT ![r] = code]
    /\ UNCHANGED <<verifyVars, pc, sees, performed, broken, audit>>

HandlerReturns(r) ==
    /\ pc[r] = "handler"
    /\ status[r] # 0
    /\ Goto(r, "record")
    /\ UNCHANGED <<verifyVars, sees, status, performed, broken, audit>>

\* The panic unwinds the audit layer too; RecoverJSON answers unless a status was written.
Panic(r) ==
    /\ pc[r] = "handler"
    /\ status' = [status EXCEPT ![r] = IF @ = 0 THEN 500 ELSE @]
    /\ broken' = [broken EXCEPT ![r] = TRUE]
    /\ Goto(r, "done")
    /\ UNCHANGED <<verifyVars, sees, performed, audit>>

-----------------------------------------------------------------------------
EventOf(r) ==
    [request |-> r,
     actor   |-> ActorOf(sees[r]["audit"]),
     outcome |-> OutcomeOf(status[r]),
     status  |-> status[r]]

\* The INSERT runs under the context of the request; its failure is only logged.
RecordEvent(r) ==
    /\ pc[r] = "record"
    /\ \/ ~gone[r] /\ audit' = Append(audit, EventOf(r)) /\ UNCHANGED broken
       \/ ~gone[r] /\ broken' = [broken EXCEPT ![r] = TRUE] /\ UNCHANGED audit
       \/ gone[r] /\ UNCHANGED <<broken, audit>>
    /\ Goto(r, "done")
    /\ UNCHANGED <<verifyVars, sees, status, performed>>

HangUp(r) ==
    /\ pc[r] \notin {"idle", "done"}
    /\ ~gone[r]
    /\ gone' = [gone EXCEPT ![r] = TRUE]
    /\ UNCHANGED <<jwtEnabled, keyVars, token, checkVars, pipelineVars>>

\* The shutdown deadline ends the process with the requests it is serving.
Killed ==
    LET running == {r \in Requests : pc[r] \notin {"idle", "done"}}
    IN  /\ running # {}
        /\ pc' = [r \in Requests |-> IF r \in running THEN "done" ELSE pc[r]]
        /\ broken' = [r \in Requests |-> broken[r] \/ r \in running]
        /\ UNCHANGED <<verifyVars, sees, status, performed, audit>>

Serve(r) ==
    \/ CaptureAudit(r) \/ RefuseMissingToken(r) \/ VerifyToken(r) \/ Authenticate(r) \/ LimitRate(r)
    \/ Perform(r) \/ Respond(r) \/ HandlerReturns(r) \/ Panic(r) \/ RecordEvent(r)

\* The issuer and the library that refreshes the keys.
KeysMove == (Rotate \/ HourlyRefresh) /\ UNCHANGED pipelineVars

Next == KeysMove \/ Killed \/ \E r \in Requests : Serve(r) \/ HangUp(r)

Spec == Init /\ [][Next]_vars

-----------------------------------------------------------------------------
RowsOf(r) == {i \in 1 .. Len(audit) : audit[i].request = r}

TypeOK ==
    /\ VerifierTypeOK
    /\ pc \in [Requests -> Stages]
    /\ sees \in [Requests -> [Layers -> Claims]]
    /\ status \in [Requests -> Codes]
    /\ performed \in [Requests -> BOOLEAN]
    /\ broken \in [Requests -> BOOLEAN]
    /\ audit \in Seq(Rows)

\* No storage operation is carried out for a request that did not bring a genuine
\* token in date with all its claims, signed by a key that the issuer published after
\* the keys were last loaded; and it is carried out for the principal of that token.
\* So it is with a disabled verifier, where only the limiter stands between the caller
\* and the handler, and while the issuer rotates its keys.
OperationsHaveAPrincipal ==
    \A r \in Requests :
        performed[r] =>
            /\ jwtEnabled
            /\ token[r] # NoToken /\ token[r].flaw = "none" /\ ~stale[r]
            /\ sees[r]["handler"] = token[r].subject

\* A good token is accepted, also one of a key the verifier has not seen yet, unless the
\* client hung up, the issuer was out of reach or withdrew the key, or too many requests
\* were waiting for a refresh.
GoodTokensAreAccepted ==
    \A r \in Requests :
        verdict[r] \in {"expired", "invalid"} /\ token[r].flaw = "none" => excused[r]

\* The audit trail does not lie about what it holds: at most one event per
\* request, with the status the client got; "allowed" means that the operation was
\* carried out, "denied" that it was not.
AuditIsTruthful ==
    \A r \in Requests : \A i \in RowsOf(r) :
        /\ RowsOf(r) = {i}
        /\ audit[i].status = status[r]
        /\ audit[i].outcome = "allowed" => performed[r]
        /\ audit[i].outcome = "denied" => ~performed[r]

-----------------------------------------------------------------------------
(* What the documents say and the code does not do. *)

\* db/migrations/0001_init_schema.sql: actor_id is the "Identity of the
\* originating principal when available."  It is available once the handler ran.
ActorIsThePrincipal ==
    \A r \in Requests : \A i \in RowsOf(r) :
        sees[r]["handler"] \in Subjects => audit[i].actor = sees[r]["handler"]

\* s3-service.md, item 2.6, done: "Security audit log for every upload/delete/presign
\* call".  An operation that was carried out in a process that lives, with a database
\* that works, has its event.  The INSERT is cancelled with the request it is about:
\* who hangs up once the operation is done leaves no trace.
EveryOperationIsAudited ==
    \A r \in Requests : pc[r] = "done" /\ performed[r] /\ ~broken[r] => RowsOf(r) # {}
=============================================================================
