--------------------------- MODULE PipelineProofs ---------------------------
(***************************************************************************)
(* Proofs about Pipeline, with JwtVerifier in it, for any set of requests, *)
(* tokens and keys and any number of rotations.                            *)
(*                                                                         *)
(* The invariant follows a token through the verifier (KeyInv, VerdictInv),*)
(* its claims through the layers (ClaimsInv) and the outcome of a request  *)
(* into its row of the audit trail (OutcomeInv, RowsInv).                  *)
(***************************************************************************)
EXTENDS Pipeline, TLAPS

Good(r) == token[r] # NoToken /\ token[r].flaw = "none" /\ ~stale[r]

KeyInv == cached \subseteq vouched

\* What a verdict, final or not, says of the token, and what a refusal presupposes.
VerdictInv ==
    \A r \in Requests :
        /\ ~stale[r]
        /\ pc[r] = "idle" => verdict[r] = "none"
        /\ pc[r] # "idle" /\ verdict[r] # "none" => token[r] # NoToken
        /\ verdict[r] \in {"key", "refresh", "again", "check"} => jwtEnabled
        /\ verdict[r] = "valid" /\ jwtEnabled => token[r].flaw = "none"
        /\ verdict[r] \in {"key", "refresh", "again"} /\ ~excused[r] => token[r].kid \in published
        /\ verdict[r] = "again" /\ ~excused[r] => token[r].kid \in cached
        /\ verdict[r] \in {"expired", "invalid"} /\ token[r].flaw = "none" => excused[r]

\* Claims of a principal come from a good token, and are those the handler works with.
ClaimsInv ==
    \A r \in Requests :
        /\ pc[r] \in {"idle", "auth"} => sees[r]["limit"] = NoClaims
        /\ pc[r] \in {"idle", "auth", "limit"} => sees[r]["handler"] = NoClaims
        /\ sees[r]["limit"] \in Subjects =>
            jwtEnabled /\ Good(r) /\ sees[r]["limit"] = token[r].subject
        /\ sees[r]["handler"] # NoClaims =>
            sees[r]["handler"] \in Subjects /\ sees[r]["handler"] = sees[r]["limit"]
        /\ pc[r] = "handler" \/ performed[r] => sees[r]["handler"] \in Subjects

\* What the status says of the operation.
OutcomeInv ==
    \A r \in Requests :
        /\ pc[r] \in {"idle", "auth", "limit"} => ~performed[r] /\ status[r] = 0
        /\ status[r] = 200 => performed[r]
        /\ status[r] \in {401, 403} => ~performed[r]

\* A row is written once, by the last step of its request.
RowsInv ==
    /\ \A i \in 1 .. Len(audit) :
        /\ pc[audit[i].request] = "done"
        /\ audit[i].status = status[audit[i].request]
        /\ audit[i].outcome = OutcomeOf(audit[i].status)
    /\ \A i, j \in 1 .. Len(audit) : audit[i].request = audit[j].request => i = j

Inv == TypeOK /\ KeyInv /\ VerdictInv /\ ClaimsInv /\ OutcomeInv /\ RowsInv

LEMMA InitInv == Init => Inv
<1> SUFFICES ASSUME Init PROVE Inv
  OBVIOUS
<1> USE DEF Init, VerifierInit
<1>1. TypeOK
  BY VerifierAssumption DEF TypeOK, VerifierTypeOK, Verdicts, Stages, Claims, Layers, Codes
<1>2. KeyInv
  BY DEF KeyInv
<1>3. VerdictInv
  BY DEF VerdictInv
<1>4. ClaimsInv
  BY PipelineAssumption DEF ClaimsInv, Layers
<1>5. OutcomeInv
  BY DEF OutcomeInv
<1>6. RowsInv
  BY DEF RowsInv
<1> QED BY <1>1, <1>2, <1>3, <1>4, <1>5, <1>6 DEF Inv

\* The steps of the verifier change only its own variables, with their types.
LEMMA VerifyTyped ==
    ASSUME VerifierTypeOK, NEW r \in Requests, Verify(r)
    PROVE  VerifierTypeOK' /\ UNCHANGED <<jwtEnabled, published, rotations, token, gone>>
<1> USE DEF VerifierTypeOK, Return, Verdicts, keyVars
<1>1. CASE Begin(r)
  BY <1>1 DEF Begin
<1>2. CASE FindKey(r)
  BY <1>2 DEF FindKey
<1>3. CASE Refresh(r)
  BY <1>3 DEF Refresh, LoadKeys
<1>4. CASE FindKeyAgain(r)
  BY <1>4 DEF FindKeyAgain
<1>5. CASE CheckToken(r)
  BY <1>5 DEF CheckToken
<1> QED BY <1>1, <1>2, <1>3, <1>4, <1>5 DEF Verify

\* A row of the audit trail, whatever claims the audit layer sees.
LEMMA EventTyped ==
    ASSUME TypeOK, NEW r \in Requests
    PROVE  EventOf(r) \in Rows /\ EventOf(r).request = r /\ EventOf(r).status = status[r]
           /\ EventOf(r).outcome = OutcomeOf(status[r])
<1>1. sees[r]["audit"] \in Claims /\ status[r] \in Codes
  BY DEF TypeOK, Layers
<1>2. ActorOf(sees[r]["audit"]) \in Subjects \cup {"system"}
  BY DEF ActorOf
<1>3. OutcomeOf(status[r]) \in Outcomes
  BY DEF OutcomeOf, Outcomes
<1> QED BY <1>1, <1>2, <1>3 DEF EventOf, Rows

\* Claims that are put into the context for one layer of one request.
LEMMA SeesTyped ==
    ASSUME sees \in [Requests -> [Layers -> Claims]], NEW r \in Requests, NEW l \in Layers, NEW c \in Claims,
           sees' = [sees EXCEPT ![r][l] = c]
    PROVE  /\ sees' \in [Requests -> [Layers -> Claims]]
           /\ sees'[r][l] = c
           /\ \A k \in Layers \ {l} : sees'[r][k] = sees[r][k]
           /\ \A q \in Requests \ {r} : sees'[q] = sees[q]
<1> DEFINE row == [sees[r] EXCEPT ![l] = c]
<1>1. sees[r] \in [Layers -> Claims]
  OBVIOUS
<1>2. row \in [Layers -> Claims] /\ row[l] = c /\ \A k \in Layers \ {l} : row[k] = sees[r][k]
  BY <1>1
<1>3. sees' = [sees EXCEPT ![r] = row]
  OBVIOUS
<1> HIDE DEF row
<1> QED BY <1>2, <1>3

LEMMA TypeStep ==
    ASSUME TypeOK, VerdictInv, [Next]_vars
    PROVE  TypeOK'
<1> USE DEF TypeOK, Stages, Codes, Goto, Refuse, verifyVars, keyVars, checkVars, pipelineVars
<1>1. ASSUME KeysMove PROVE TypeOK'
  <2>1. CASE Rotate
    <3>1. PICK keys \in (SUBSET Keys) \ {{}, published} :
            /\ published' = keys /\ vouched' = vouched \cup keys
            /\ excused' = [r \in Requests |->
                             excused[r] \/ (verdict[r] \in {"key", "refresh", "again"} /\ token[r].kid \notin keys)]
      BY <2>1 DEF Rotate
    <3>2. excused' \in [Requests -> BOOLEAN]
      BY <3>1, ZenonT(30)
    <3>3. published' \in SUBSET Keys /\ vouched' \in SUBSET Keys
      BY <3>1 DEF VerifierTypeOK
    <3>4. rotations' \in 0 .. MaxRotations
      BY <2>1, VerifierAssumption DEF Rotate, VerifierTypeOK
    <3> QED BY <1>1, <2>1, <3>2, <3>3, <3>4 DEF KeysMove, Rotate, VerifierTypeOK
  <2>2. CASE HourlyRefresh
    BY <1>1, <2>2 DEF KeysMove, HourlyRefresh, LoadKeys, VerifierTypeOK
  <2> QED BY <1>1, <2>1, <2>2 DEF KeysMove
<1>2. ASSUME Killed PROVE TypeOK'
  BY <1>2 DEF Killed, VerifierTypeOK
<1>3. ASSUME NEW r \in Requests, CaptureAudit(r) PROVE TypeOK'
  BY <1>3 DEF CaptureAudit, VerifierTypeOK
<1>4. ASSUME NEW r \in Requests, RefuseMissingToken(r) PROVE TypeOK'
  BY <1>4 DEF RefuseMissingToken, VerifierTypeOK
<1>5. ASSUME NEW r \in Requests, VerifyToken(r) PROVE TypeOK'
  BY <1>5, VerifyTyped DEF VerifyToken
<1>6. ASSUME NEW r \in Requests, Authenticate(r) PROVE TypeOK'
  <2>1. CASE verdict[r] \in {"expired", "invalid"} /\ Refuse(r, 401) /\ UNCHANGED sees
    BY <1>6, <2>1 DEF Authenticate, VerifierTypeOK
  <2>2. CASE verdict[r] = "valid" /\ Goto(r, "limit") /\ UNCHANGED status
    <3> DEFINE c == IF jwtEnabled THEN token[r].subject ELSE EmptyClaims
    <3>1. token[r] # NoToken
      BY <1>6, <2>2, SMTT(30) DEF Authenticate, VerdictInv
    <3>2. token[r] \in TokenShapes
      BY <3>1, VerifierAssumption DEF VerifierTypeOK
    <3>3. c \in Claims
      BY <3>2 DEF TokenShapes, Claims
    <3>4. sees' = [sees EXCEPT ![r]["limit"] = c]
      BY <1>6, <2>2 DEF Authenticate
    <3> HIDE DEF c
    <3>5. sees' \in [Requests -> [Layers -> Claims]]
      BY <3>3, <3>4, SeesTyped DEF Layers
    <3> QED BY <1>6, <2>2, <3>5 DEF Authenticate, VerifierTypeOK
  <2> QED BY <1>6, <2>1, <2>2 DEF Authenticate
<1>7. ASSUME NEW r \in Requests, LimitRate(r) PROVE TypeOK'
  <2>1. CASE (Refuse(r, 401) \/ Refuse(r, 429)) /\ UNCHANGED sees
    <3>1. UNCHANGED <<verifyVars, sees, performed, broken, audit>>
      BY <1>7, <2>1 DEF LimitRate
    <3>2. CASE Refuse(r, 401)
      BY <3>1, <3>2 DEF VerifierTypeOK
    <3>3. CASE Refuse(r, 429)
      BY <3>1, <3>3 DEF VerifierTypeOK
    <3> QED BY <2>1, <3>2, <3>3
  <2>2. CASE sees' = [sees EXCEPT ![r]["handler"] = sees[r]["limit"]] /\ Goto(r, "handler") /\ UNCHANGED status
    <3>1. sees[r]["limit"] \in Claims
      BY DEF Layers
    <3>2. sees' \in [Requests -> [Layers -> Claims]]
      BY <2>2, <3>1, SeesTyped DEF Layers
    <3> QED BY <1>7, <2>2, <3>2 DEF LimitRate, VerifierTypeOK
  <2> QED BY <1>7, <2>1, <2>2 DEF LimitRate
<1>8. ASSUME NEW r \in Requests, Perform(r) PROVE TypeOK'
  BY <1>8 DEF Perform, VerifierTypeOK
<1>9. ASSUME NEW r \in Requests, Respond(r) PROVE TypeOK'
  BY <1>9 DEF Respond, VerifierTypeOK
<1>10. ASSUME NEW r \in Requests, HandlerReturns(r) PROVE TypeOK'
  BY <1>10 DEF HandlerReturns, VerifierTypeOK
<1>11. ASSUME NEW r \in Requests, Panic(r) PROVE TypeOK'
  BY <1>11 DEF Panic, VerifierTypeOK
<1>12. ASSUME NEW r \in Requests, RecordEvent(r) PROVE TypeOK'
  <2>1. EventOf(r) \in Rows
    BY EventTyped
  <2>2. audit' \in Seq(Rows)
    <3>1. Append(audit, EventOf(r)) \in Seq(Rows)
      BY <2>1
    <3>2. audit' = audit \/ audit' = Append(audit, EventOf(r))
      BY <1>12 DEF RecordEvent
    <3> QED BY <3>1, <3>2
  <2>3. broken' = broken \/ broken' = [broken EXCEPT ![r] = TRUE]
    BY <1>12 DEF RecordEvent
  <2>4. broken' \in [Requests -> BOOLEAN]
    <3>1. CASE broken' = broken
      BY <3>1
    <3>2. CASE broken' = [broken EXCEPT ![r] = TRUE]
      BY <3>2
    <3> QED BY <2>3, <3>1, <3>2
  <2> QED BY <1>12, <2>2, <2>4 DEF RecordEvent, VerifierTypeOK
<1>13. ASSUME NEW r \in Requests, HangUp(r) PROVE TypeOK'
  BY <1>13 DEF HangUp, VerifierTypeOK
<1>14. CASE UNCHANGED vars
  BY <1>14 DEF vars, VerifierTypeOK
<1> QED
  BY <1>1, <1>2, <1>3, <1>4, <1>5, <1>6, <1>7, <1>8, <1>9, <1>10, <1>11, <1>12, <1>13, <1>14
     DEF Next, Serve

\* The verifier: what it caches was published since the keys were loaded.
LEMMA KeyStep ==
    ASSUME TypeOK, KeyInv, [Next]_vars
    PROVE  KeyInv'
<1> USE DEF KeyInv, verifyVars, keyVars, checkVars
<1>1. ASSUME KeysMove PROVE KeyInv'
  BY <1>1 DEF KeysMove, Rotate, HourlyRefresh, LoadKeys
<1>2. ASSUME NEW r \in Requests, VerifyToken(r) PROVE KeyInv'
  BY <1>2 DEF VerifyToken, Verify, Begin, FindKey, Refresh, LoadKeys, FindKeyAgain, CheckToken
<1>3. ASSUME UNCHANGED keyVars PROVE KeyInv'
  BY <1>3
<1>4. ASSUME Killed PROVE UNCHANGED keyVars
  BY <1>4 DEF Killed
<1>5. ASSUME NEW r \in Requests, HangUp(r) PROVE UNCHANGED keyVars
  BY <1>5 DEF HangUp
<1>6. ASSUME NEW r \in Requests, Serve(r), ~VerifyToken(r) PROVE UNCHANGED keyVars
  BY <1>6 DEF Serve, CaptureAudit, RefuseMissingToken, Authenticate, LimitRate, Perform, Respond,
     HandlerReturns, Panic, RecordEvent
<1>7. CASE UNCHANGED vars
  BY <1>7 DEF vars
<1> QED BY <1>1, <1>2, <1>3, <1>4, <1>5, <1>6, <1>7 DEF Next

\* A verdict on one request, while the others keep theirs.
LEMMA VerifyStep ==
    ASSUME TypeOK, KeyInv, VerdictInv, NEW r \in Requests, VerifyToken(r)
    PROVE  VerdictInv'
<1> USE DEF VerdictInv, TypeOK, VerifierTypeOK, Return, keyVars, Verdicts, KeyInv
<1>1. UNCHANGED <<jwtEnabled, published, token, pc>> /\ pc[r] = "auth" /\ token[r] # NoToken
  BY DEF VerifyToken, Verify, Begin, FindKey, Refresh, FindKeyAgain, CheckToken, pipelineVars
<1>2. CASE Begin(r)
  BY <1>1, <1>2 DEF Begin
<1>3. CASE FindKey(r)
  BY <1>1, <1>3 DEF FindKey
<1>4. CASE Refresh(r)
  <2>1. CASE LoadKeys /\ UNCHANGED excused
    BY <1>1, <1>4, <2>1 DEF Refresh, LoadKeys
  <2>2. CASE UNCHANGED <<cached, vouched>> /\ excused' = [excused EXCEPT ![r] = TRUE]
    BY <1>1, <1>4, <2>2 DEF Refresh
  <2> QED BY <1>4, <2>1, <2>2 DEF Refresh
<1>5. CASE FindKeyAgain(r)
  BY <1>1, <1>5 DEF FindKeyAgain
<1>6. CASE CheckToken(r)
  BY <1>1, <1>6 DEF CheckToken
<1> QED BY <1>2, <1>3, <1>4, <1>5, <1>6 DEF VerifyToken, Verify

LEMMA VerdictStep ==
    ASSUME TypeOK, KeyInv, VerdictInv, [Next]_vars
    PROVE  VerdictInv'
<1> USE DEF TypeOK, VerifierTypeOK, Goto, Refuse, verifyVars, keyVars, checkVars, pipelineVars, Stages
<1>1. ASSUME KeysMove PROVE VerdictInv'
  <2>1. CASE Rotate
    BY <1>1, <2>1 DEF KeysMove, Rotate, VerdictInv
  <2>2. CASE HourlyRefresh
    BY <1>1, <2>2 DEF KeysMove, HourlyRefresh, LoadKeys, VerdictInv
  <2> QED BY <1>1, <2>1, <2>2 DEF KeysMove
<1>2. ASSUME Killed PROVE VerdictInv'
  BY <1>2 DEF Killed, VerdictInv
<1>3. ASSUME NEW r \in Requests, CaptureAudit(r) PROVE VerdictInv'
  BY <1>3 DEF CaptureAudit, VerdictInv
<1>4. ASSUME NEW r \in Requests, VerifyToken(r) PROVE VerdictInv'
  BY <1>4, VerifyStep
<1>5. ASSUME NEW r \in Requests, HangUp(r) PROVE VerdictInv'
  BY <1>5 DEF HangUp, VerdictInv
<1>6. ASSUME NEW r \in Requests, Serve(r), ~CaptureAudit(r), ~VerifyToken(r) PROVE VerdictInv'
  <2>1. /\ UNCHANGED verifyVars /\ pc[r] # "idle" /\ pc'[r] # "idle"
        /\ \A q \in Requests \ {r} : pc'[q] = pc[q]
    BY <1>6 DEF Serve, RefuseMissingToken, Authenticate, LimitRate, Perform, Respond,
       HandlerReturns, Panic, RecordEvent
  <2> QED BY <2>1 DEF VerdictInv
<1>7. CASE UNCHANGED vars
  BY <1>7 DEF vars, VerdictInv
<1> QED BY <1>1, <1>2, <1>3, <1>4, <1>5, <1>6, <1>7 DEF Next

\* Claims stay what they are while no layer is handed new ones and the token does not change.
LEMMA ClaimsKept ==
    ASSUME ClaimsInv, UNCHANGED <<jwtEnabled, token, sees, stale>>,
           \A r \in Requests :
             /\ pc'[r] \in {"idle", "auth", "limit", "handler"} => pc'[r] = pc[r]
             /\ performed'[r] => performed[r] \/ pc[r] = "handler"
    PROVE  ClaimsInv'
  BY DEF ClaimsInv, Good

LEMMA ClaimsStep ==
    ASSUME TypeOK, VerdictInv, VerdictInv', ClaimsInv, [Next]_vars
    PROVE  ClaimsInv'
<1> USE DEF TypeOK, VerifierTypeOK, Goto, Refuse, verifyVars, keyVars, checkVars, pipelineVars, Stages
<1>0. stale' = stale
  <2>1. \A r \in Requests : ~stale[r] /\ ~stale'[r]
    BY DEF VerdictInv
  <2>2. stale' \in [Requests -> BOOLEAN]
    BY TypeStep
  <2> QED BY <2>1, <2>2
<1>1. ASSUME KeysMove PROVE ClaimsInv'
  BY <1>0, <1>1, ClaimsKept DEF KeysMove, Rotate, HourlyRefresh
<1>2. ASSUME Killed PROVE ClaimsInv'
  BY <1>2, ClaimsKept DEF Killed
<1>3. ASSUME NEW r \in Requests, CaptureAudit(r) PROVE ClaimsInv'
  <2>1. NoClaims \notin Subjects /\ pc[r] = "idle"
    BY <1>3, PipelineAssumption DEF CaptureAudit
  <2> QED BY <1>3, <2>1 DEF CaptureAudit, ClaimsInv, Good
<1>4. ASSUME NEW r \in Requests, RefuseMissingToken(r) PROVE ClaimsInv'
  BY <1>4, ClaimsKept DEF RefuseMissingToken
<1>5. ASSUME NEW r \in Requests, VerifyToken(r) PROVE ClaimsInv'
  BY <1>0, <1>5, VerifyTyped, ClaimsKept DEF VerifyToken
<1>6. ASSUME NEW r \in Requests, Authenticate(r) PROVE ClaimsInv'
  <2>1. CASE verdict[r] \in {"expired", "invalid"} /\ Refuse(r, 401) /\ UNCHANGED sees
    BY <1>6, <2>1, ClaimsKept DEF Authenticate
  <2>2. CASE verdict[r] = "valid" /\ Goto(r, "limit") /\ UNCHANGED status
    <3> DEFINE c == IF jwtEnabled THEN token[r].subject ELSE EmptyClaims
    <3>1. token[r] # NoToken /\ ~stale[r] /\ (jwtEnabled => token[r].flaw = "none")
      BY <1>6, <2>2 DEF Authenticate, VerdictInv
    <3>2. token[r] \in TokenShapes
      BY <3>1, VerifierAssumption
    <3>3. c \in Claims /\ (c \in Subjects => jwtEnabled /\ c = token[r].subject)
      BY <3>2, PipelineAssumption DEF TokenShapes, Claims
    <3>4. sees' = [sees EXCEPT ![r]["limit"] = c]
      BY <1>6, <2>2 DEF Authenticate
    <3> HIDE DEF c
    <3>5. /\ sees'[r]["limit"] = c /\ sees'[r]["handler"] = sees[r]["handler"]
          /\ \A q \in Requests \ {r} : sees'[q] = sees[q]
      BY <3>3, <3>4, SeesTyped DEF Layers
    <3>6. /\ UNCHANGED <<jwtEnabled, token, stale, performed>> /\ pc[r] = "auth" /\ pc'[r] = "limit"
          /\ \A q \in Requests \ {r} : pc'[q] = pc[q]
      BY <1>6, <2>2 DEF Authenticate
    <3>7. sees[r]["handler"] = NoClaims /\ ~performed[r]
      BY <3>6, PipelineAssumption DEF ClaimsInv
    <3> QED BY <3>1, <3>3, <3>5, <3>6, <3>7 DEF ClaimsInv, Good
  <2> QED BY <1>6, <2>1, <2>2 DEF Authenticate
<1>7. ASSUME NEW r \in Requests, LimitRate(r) PROVE ClaimsInv'
  <2>1. CASE (Refuse(r, 401) \/ Refuse(r, 429)) /\ UNCHANGED sees
    BY <1>7, <2>1, ClaimsKept DEF LimitRate
  <2>2. CASE /\ HasIdentity(sees[r]["limit"])
             /\ sees' = [sees EXCEPT ![r]["handler"] = sees[r]["limit"]]
             /\ Goto(r, "handler") /\ UNCHANGED status
    <3>1. sees[r]["limit"] \in Subjects /\ sees[r]["limit"] \in Claims
      BY <2>2 DEF HasIdentity, Claims
    <3>2. /\ sees'[r]["handler"] = sees[r]["limit"] /\ sees'[r]["limit"] = sees[r]["limit"]
          /\ \A q \in Requests \ {r} : sees'[q] = sees[q]
      BY <2>2, <3>1, SeesTyped DEF Layers
    <3>3. /\ UNCHANGED <<jwtEnabled, token, stale, performed>> /\ pc'[r] = "handler"
          /\ \A q \in Requests \ {r} : pc'[q] = pc[q]
      BY <1>7, <2>2 DEF LimitRate
    <3> QED BY <3>1, <3>2, <3>3 DEF ClaimsInv, Good
  <2> QED BY <1>7, <2>1, <2>2 DEF LimitRate
<1>8. ASSUME NEW r \in Requests, Perform(r) \/ Respond(r) \/ HandlerReturns(r) \/ Panic(r) \/ RecordEvent(r)
      PROVE ClaimsInv'
  BY <1>8, ClaimsKept DEF Perform, Respond, HandlerReturns, Panic, RecordEvent
<1>9. ASSUME NEW r \in Requests, HangUp(r) PROVE ClaimsInv'
  BY <1>9, ClaimsKept DEF HangUp
<1>10. CASE UNCHANGED vars
  BY <1>10, ClaimsKept DEF vars
<1> QED BY <1>1, <1>2, <1>3, <1>4, <1>5, <1>6, <1>7, <1>8, <1>9, <1>10 DEF Next, Serve

\* An operation and the status that tells of it.
LEMMA OutcomeStep ==
    ASSUME TypeOK, OutcomeInv, [Next]_vars
    PROVE  OutcomeInv'
<1> USE DEF TypeOK, OutcomeInv, Goto, Refuse, pipelineVars
<1>1. ASSUME UNCHANGED <<pc, status, performed>> PROVE OutcomeInv'
  BY <1>1
<1>2. ASSUME KeysMove PROVE OutcomeInv'
  BY <1>1, <1>2 DEF KeysMove
<1>3. ASSUME Killed PROVE OutcomeInv'
  BY <1>3 DEF Killed
<1>4. ASSUME NEW r \in Requests, CaptureAudit(r) PROVE OutcomeInv'
  BY <1>4 DEF CaptureAudit
<1>5. ASSUME NEW r \in Requests, RefuseMissingToken(r) PROVE OutcomeInv'
  BY <1>5 DEF RefuseMissingToken
<1>6. ASSUME NEW r \in Requests, VerifyToken(r) PROVE OutcomeInv'
  BY <1>1, <1>6 DEF VerifyToken
<1>7. ASSUME NEW r \in Requests, Authenticate(r) PROVE OutcomeInv'
  BY <1>7 DEF Authenticate
<1>8. ASSUME NEW r \in Requests, LimitRate(r) PROVE OutcomeInv'
  BY <1>8 DEF LimitRate
<1>9. ASSUME NEW r \in Requests, Perform(r) PROVE OutcomeInv'
  BY <1>9 DEF Perform
<1>10. ASSUME NEW r \in Requests, Respond(r) PROVE OutcomeInv'
  BY <1>10 DEF Respond
<1>11. ASSUME NEW r \in Requests, HandlerReturns(r) PROVE OutcomeInv'
  BY <1>11 DEF HandlerReturns
<1>12. ASSUME NEW r \in Requests, Panic(r) PROVE OutcomeInv'
  BY <1>12 DEF Panic
<1>13. ASSUME NEW r \in Requests, RecordEvent(r) PROVE OutcomeInv'
  BY <1>13 DEF RecordEvent
<1>14. ASSUME NEW r \in Requests, HangUp(r) PROVE OutcomeInv'
  BY <1>1, <1>14 DEF HangUp
<1>15. CASE UNCHANGED vars
  BY <1>1, <1>15 DEF vars
<1> QED
  BY <1>2, <1>3, <1>4, <1>5, <1>6, <1>7, <1>8, <1>9, <1>10, <1>11, <1>12, <1>13, <1>14, <1>15
     DEF Next, Serve

\* Rows stay true while the trail does not grow and no finished request moves.
LEMMA RowsKept ==
    ASSUME TypeOK, RowsInv, UNCHANGED audit,
           \A r \in Requests : pc[r] = "done" => pc'[r] = "done" /\ status'[r] = status[r]
    PROVE  RowsInv'
<1>1. ASSUME NEW i \in 1 .. Len(audit) PROVE audit[i].request \in Requests
  <2>1. audit[i] \in Rows
    BY DEF TypeOK
  <2> QED BY <2>1 DEF Rows
<1> QED BY <1>1 DEF RowsInv

\* The one step that adds a row.
LEMMA RowAdded ==
    ASSUME TypeOK, RowsInv, NEW r \in Requests, pc[r] = "record", Goto(r, "done"),
           audit' = Append(audit, EventOf(r)), UNCHANGED status
    PROVE  RowsInv'
<1> DEFINE n == Len(audit)
<1>1. /\ n \in Nat /\ Len(audit') = n + 1 /\ audit'[n + 1] = EventOf(r)
      /\ \A i \in 1 .. n : audit'[i] = audit[i] /\ audit[i] \in Rows
  BY EventTyped DEF TypeOK
<1>2. /\ EventOf(r).request = r /\ EventOf(r).status = status[r]
      /\ EventOf(r).outcome = OutcomeOf(status[r])
  BY EventTyped
<1>3. /\ \A i \in 1 .. n : pc[audit[i].request] = "done" /\ audit[i].request \in Requests
      /\ pc'[r] = "done" /\ \A q \in Requests \ {r} : pc'[q] = pc[q]
  BY <1>1 DEF RowsInv, Goto, TypeOK, Rows
<1>4. \A i \in 1 .. n : audit[i].request # r
  BY <1>3
<1>5. \A i \in 1 .. Len(audit') :
         /\ pc'[audit'[i].request] = "done"
         /\ audit'[i].status = status'[audit'[i].request]
         /\ audit'[i].outcome = OutcomeOf(audit'[i].status)
  <2> TAKE i \in 1 .. Len(audit')
  <2>1. CASE i = n + 1
    BY <1>1, <1>2, <1>3, <2>1
  <2>2. CASE i \in 1 .. n
    BY <1>1, <1>3, <1>4, <2>2 DEF RowsInv
  <2> HIDE DEF n
  <2> QED BY <1>1, <2>1, <2>2
<1>6. \A i, j \in 1 .. Len(audit') : audit'[i].request = audit'[j].request => i = j
  <2> TAKE i, j \in 1 .. Len(audit')
  <2>1. CASE i \in 1 .. n /\ j \in 1 .. n
    BY <1>1, <2>1 DEF RowsInv
  <2>2. CASE i = n + 1 \/ j = n + 1
    <3> HIDE DEF n
    <3> QED BY <1>1, <1>2, <1>4, <2>2
  <2> HIDE DEF n
  <2> QED BY <1>1, <2>1, <2>2
<1> HIDE DEF n
<1> QED BY <1>5, <1>6 DEF RowsInv

LEMMA RowsStep ==
    ASSUME TypeOK, RowsInv, [Next]_vars
    PROVE  RowsInv'
<1> USE DEF Goto, Refuse, pipelineVars
<1>1. ASSUME UNCHANGED pipelineVars PROVE RowsInv'
  BY <1>1, RowsKept DEF TypeOK
<1>2. ASSUME KeysMove PROVE UNCHANGED pipelineVars
  BY <1>2 DEF KeysMove
<1>3. ASSUME Killed PROVE RowsInv'
  BY <1>3, RowsKept DEF Killed, TypeOK
<1>4. ASSUME NEW r \in Requests, CaptureAudit(r) PROVE RowsInv'
  BY <1>4, RowsKept DEF CaptureAudit, TypeOK
<1>5. ASSUME NEW r \in Requests, RefuseMissingToken(r) PROVE RowsInv'
  BY <1>5, RowsKept DEF RefuseMissingToken, TypeOK
<1>6. ASSUME NEW r \in Requests, VerifyToken(r) PROVE UNCHANGED pipelineVars
  BY <1>6 DEF VerifyToken
<1>7. ASSUME NEW r \in Requests, Authenticate(r) PROVE RowsInv'
  BY <1>7, RowsKept DEF Authenticate, TypeOK
<1>8. ASSUME NEW r \in Requests, LimitRate(r) PROVE RowsInv'
  BY <1>8, RowsKept DEF LimitRate, TypeOK
<1>9. ASSUME NEW r \in Requests, Perform(r) PROVE RowsInv'
  BY <1>9, RowsKept DEF Perform, TypeOK
<1>10. ASSUME NEW r \in Requests, Respond(r) PROVE RowsInv'
  BY <1>10, RowsKept DEF Respond, TypeOK
<1>11. ASSUME NEW r \in Requests, HandlerReturns(r) PROVE RowsInv'
  BY <1>11, RowsKept DEF HandlerReturns, TypeOK
<1>12. ASSUME NEW r \in Requests, Panic(r) PROVE RowsInv'
  BY <1>12, RowsKept DEF Panic, TypeOK
<1>13. ASSUME NEW r \in Requests, RecordEvent(r) PROVE RowsInv'
  <2>1. CASE audit' = Append(audit, EventOf(r))
    BY <1>13, <2>1, RowAdded DEF RecordEvent
  <2>2. CASE UNCHANGED audit
    BY <1>13, <2>2, RowsKept DEF RecordEvent, TypeOK
  <2> QED BY <1>13, <2>1, <2>2 DEF RecordEvent
<1>14. ASSUME NEW r \in Requests, HangUp(r) PROVE UNCHANGED pipelineVars
  BY <1>14 DEF HangUp
<1>15. CASE UNCHANGED vars
  BY <1>1, <1>15 DEF vars
<1> QED
  BY <1>1, <1>2, <1>3, <1>4, <1>5, <1>6, <1>7, <1>8, <1>9, <1>10, <1>11, <1>12, <1>13, <1>14, <1>15
     DEF Next, Serve

-----------------------------------------------------------------------------
\* The invariant holds in every state the service reaches.
LEMMA InvHolds == Spec => []Inv
<1>1. Init => Inv
  BY InitInv
<1>2. Inv /\ [Next]_vars => Inv'
  BY TypeStep, KeyStep, VerdictStep, ClaimsStep, OutcomeStep, RowsStep DEF Inv
<1> QED BY <1>1, <1>2, PTL DEF Spec

\* Every variable keeps its type.
THEOREM TypeCorrect == Spec => []TypeOK
<1>1. Inv => TypeOK
  BY DEF Inv
<1> QED BY <1>1, InvHolds, PTL

\* Whatever the issuer, the clients and the other requests do meanwhile: an operation is
\* carried out for the principal of a good token and for nobody else.
THEOREM PrincipalsOperate == Spec => []OperationsHaveAPrincipal
<1>1. Inv => OperationsHaveAPrincipal
  BY PipelineAssumption DEF Inv, ClaimsInv, Good, OperationsHaveAPrincipal
<1> QED BY <1>1, InvHolds, PTL

\* A rotation of the keys locks nobody out whose key the issuer still publishes.
THEOREM RotationLocksNobodyOut == Spec => []GoodTokensAreAccepted
<1>1. Inv => GoodTokensAreAccepted
  BY DEF Inv, VerdictInv, GoodTokensAreAccepted
<1> QED BY <1>1, InvHolds, PTL

\* What the audit trail holds is true: one row per request, with its status and its outcome.
THEOREM AuditTrailIsTrue == Spec => []AuditIsTruthful
<1>1. Inv => AuditIsTruthful
  <2> SUFFICES ASSUME Inv, NEW r \in Requests, NEW i \in RowsOf(r)
               PROVE  /\ RowsOf(r) = {i}
                      /\ audit[i].status = status[r]
                      /\ audit[i].outcome = "allowed" => performed[r]
                      /\ audit[i].outcome = "denied" => ~performed[r]
    BY DEF AuditIsTruthful
  <2>1. i \in 1 .. Len(audit) /\ audit[i].request = r
    BY DEF RowsOf
  <2>2. RowsOf(r) = {i}
    BY <2>1 DEF RowsOf, Inv, RowsInv
  <2>3. audit[i].status = status[r] /\ audit[i].outcome = OutcomeOf(status[r]) /\ status[r] \in Codes
    BY <2>1 DEF Inv, RowsInv, TypeOK
  <2>4. /\ audit[i].outcome = "allowed" => status[r] = 200
        /\ audit[i].outcome = "denied" => status[r] \in {401, 403}
    BY <2>3 DEF OutcomeOf, Codes
  <2> QED BY <2>2, <2>3, <2>4 DEF Inv, OutcomeInv
<1> QED BY <1>1, InvHolds, PTL
=============================================================================
