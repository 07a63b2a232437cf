------------------------ MODULE ObjectRequestsProofs ------------------------
(***************************************************************************)
(* Proofs about ObjectRequests for any set of requests, tables, errors and *)
(* any number of changes to the tables.                                    *)
(*                                                                         *)
(* The invariant follows a request through its phases: what it has been    *)
(* granted is remembered (FlowInv), nothing of it is outside before it has *)
(* a session (FlowInv), and the connection that authorized it keeps its    *)
(* prefixes, though it may be disabled meanwhile, unless an operator       *)
(* rewrites it (PrefixInv).                                                *)
(*                                                                         *)
(* The second half maps each of its steps to a step of ObjectAccess or to  *)
(* none: with what a request knows of its own fate (StageInv) the          *)
(* invariant is all that this takes.                                       *)
(***************************************************************************)
EXTENDS ObjectRequests, TLAPS

Authorized == {"decode", "lookup", "guard", "session", "send", "backoff"}
Selected   == {"guard", "session", "send", "backoff"}
NothingOut == {"idle", "authorize", "decode", "lookup", "guard", "session"}

RefusalAnswers == {"400", "400 prefix", "403", "404 connection"}

\* A request has a form exactly from its arrival on, and an answer exactly when it is done.
FormInv ==
    \A r \in Requests :
        /\ form[r] = NoRow <=> phase[r] = "idle"
        /\ answer[r] = "none" <=> phase[r] # "done"

FlowInv ==
    \A r \in Requests :
        /\ phase[r] \in Authorized => granted[r]
        /\ phase[r] \in Selected => active[r]
        /\ phase[r] \in NothingOut => r \notin touched \cup late \cup urls
        /\ phase[r] = "backoff" => attempt[r] < DefaultMaxAttempts

Outside == touched \cup late \cup urls
Within(r) == IsWithinAllowedPrefixes(form[r].key, prefixes[r])

PrefixInv ==
    \A r \in Requests :
        /\ phase[r] \in {"decode", "lookup"} /\ r \notin rewritten =>
            /\ connections[<<form[r].scope, form[r].bucket>>] # NoRow
            /\ IsWithinAllowedPrefixes(form[r].key, connections[<<form[r].scope, form[r].bucket>>].prefixes)
        /\ (phase[r] \in Selected \/ r \in Outside) /\ r \notin rewritten => Within(r)
        /\ (phase[r] \in {"session", "send", "backoff"} \/ r \in Outside) /\ form[r].op \in {"delete", "read"} =>
            Within(r)
        /\ answer[r] = "400 prefix" => r \in rewritten

Safe == ReachesOnlyWhatWasGranted /\ RefusalsHaveNoEffect

Inv == TypeOK /\ FormInv /\ FlowInv /\ PrefixInv /\ Safe

\* The action of AnswersAreFinal.
Final ==
    \A q \in Requests :
        answer[q] # "none" =>
            /\ answer'[q] = answer[q]
            /\ q \in late' \cup urls' => q \in late \cup urls

\* A request that is under way, or of which something is outside, carries a form.
LEMMA FormTyped ==
    ASSUME TypeOK, FormInv, FlowInv, NEW r \in Requests,
           phase[r] # "idle" \/ r \in late \cup urls
    PROVE  /\ form[r] \in Forms
           /\ Object(r) \in Buckets \X Keys
<1>1. phase[r] # "idle"
  BY DEF FlowInv, NothingOut
<1>2. form[r] \in Forms
  BY <1>1 DEF TypeOK, FormInv
<1> QED BY <1>2 DEF Forms, Object

LEMMA InitInv == Init => Inv
<1> SUFFICES ASSUME Init PROVE Inv
  OBVIOUS
<1>1. TypeOK
  BY RequestsAssumption DEF Init, TypeOK, Tables, Phases, Results, Answers, DefaultMaxAttempts
<1>2. FormInv
  BY DEF Init, FormInv
<1>3. FlowInv
  BY DEF Init, FlowInv, Authorized, Selected
<1>4. PrefixInv
  BY DEF Init, PrefixInv, Selected, Outside
<1>5. Safe
  BY DEF Init, Safe, ReachesOnlyWhatWasGranted, RefusalsHaveNoEffect, Reaching
<1> QED BY <1>1, <1>2, <1>3, <1>4, <1>5 DEF Inv

\* Executing a call writes at most its own object and marks its request.
LEMMA ExecuteTyped ==
    ASSUME TypeOK, NEW r \in Requests, Object(r) \in Buckets \X Keys, Execute(r)
    PROVE  /\ stored' \in [Buckets \X Keys -> Requests \cup {Absent, Initial}]
           /\ touched' \in SUBSET Requests
<1>1. CASE form[r].op \in {"upload", "presignPut"}
  BY <1>1 DEF Execute, TypeOK
<1>2. CASE form[r].op = "delete"
  BY <1>2 DEF Execute, TypeOK
<1>3. CASE form[r].op \notin {"upload", "presignPut", "delete"}
  BY <1>3 DEF Execute, TypeOK
<1> QED BY <1>1, <1>2, <1>3

-----------------------------------------------------------------------------
\* What an administrator may do to the row of a scope and bucket, and its policies.
Statement(s, b) ==
    \/ \E ps \in SUBSET Prefixes : InsertConnection(s, b, ps)
    \/ \E p \in Principals, policy \in PolicyForms : WritePolicy(s, b, p, policy)
    \/ \E p \in Principals : DeletePolicy(s, b, p)
    \/ ToggleConnection(s, b)
    \/ \E ps \in SUBSET Prefixes : RewriteConnection(s, b, ps)
    \/ DeleteConnection(s, b)

LEMMA AdministerCases ==
    ASSUME Administer
    PROVE  \E s \in Scopes, b \in Buckets : Statement(s, b)
BY Zenon DEF Administer, Statement

LEMMA StatementTyped ==
    ASSUME TypeOK, NEW s \in Scopes, NEW b \in Buckets, Statement(s, b)
    PROVE  connections' \in ConnectionTables /\ policies' \in PolicyTables
<1> DEFINE c == connections[<<s, b>>]
<1>1. c # NoRow => c \in ConnectionRows
  BY DEF TypeOK, ConnectionTables
<1>2. CASE \E ps \in SUBSET Prefixes : InsertConnection(s, b, ps)
  BY <1>2 DEF TypeOK, InsertConnection, ConnectionTables, ConnectionRows
<1>3. CASE \E p \in Principals, policy \in PolicyForms : WritePolicy(s, b, p, policy)
  BY <1>3, RequestsAssumption DEF TypeOK, WritePolicy, PolicyTables
<1>4. CASE \E p \in Principals : DeletePolicy(s, b, p)
  BY <1>4 DEF TypeOK, DeletePolicy, PolicyTables
<1>5. CASE ToggleConnection(s, b)
  <2>1. [c EXCEPT !.active = ~c.active] \in ConnectionRows
    BY <1>1, <1>5 DEF ConnectionRows, ToggleConnection
  <2> QED BY <1>5, <2>1 DEF TypeOK, ToggleConnection, ConnectionTables
<1>6. CASE \E ps \in SUBSET Prefixes : RewriteConnection(s, b, ps)
  <2>1. PICK ps \in SUBSET Prefixes : RewriteConnection(s, b, ps)
    BY <1>6
  <2>2. [c EXCEPT !.prefixes = ps] \in ConnectionRows
    BY <1>1, <2>1 DEF ConnectionRows, RewriteConnection
  <2> QED BY <2>1, <2>2 DEF TypeOK, RewriteConnection, ConnectionTables
<1>7. CASE DeleteConnection(s, b)
  BY <1>7 DEF TypeOK, DeleteConnection, ConnectionTables, PolicyTables
<1> QED BY <1>2, <1>3, <1>4, <1>5, <1>6, <1>7 DEF Statement

\* Every variable keeps its type; the attempts end at the limit of the policy.
LEMMA TypeStep ==
    ASSUME TypeOK, FormInv, FlowInv, [Next]_vars
    PROVE  TypeOK'
<1>1. ASSUME Administer PROVE TypeOK'
  <2>1. PICK s \in Scopes, b \in Buckets : Statement(s, b)
    BY <1>1, AdministerCases
  <2>2. connections' \in ConnectionTables /\ policies' \in PolicyTables
    BY <2>1, StatementTyped
  <2>3. changes' \in 0 .. MaxChanges
    BY <1>1, RequestsAssumption DEF Administer, TypeOK
  <2>4. rewritten' \in SUBSET Requests
    BY <1>1 DEF Administer, BetweenReads, TypeOK
  <2> QED BY <1>1, <2>2, <2>3, <2>4 DEF TypeOK, Administer, world
<1>2. ASSUME Killed PROVE TypeOK'
  BY <1>2 DEF TypeOK, Phases, Answers, Results, Killed, Running, tables
<1>3. ASSUME NEW r \in Requests, Arrive(r) PROVE TypeOK'
  <2>1. form' \in [Requests -> Forms \cup {NoRow}]
    BY <1>3, RequestsAssumption DEF Arrive, TypeOK
  <2>2. phase' \in [Requests -> Phases] /\ answer' \in [Requests -> Answers]
    BY <1>3, ZenonT(40) DEF Arrive, TypeOK, Goto, Reply, Phases, Answers
  <2>3. after' \in [Requests -> SUBSET Requests]
    BY <1>3 DEF Arrive, TypeOK
  <2> QED BY <1>3, <2>1, <2>2, <2>3 DEF Arrive, TypeOK, tables, world
<1>4. ASSUME NEW r \in Requests, Authorize(r) PROVE TypeOK'
  <2>1. phase' \in [Requests -> Phases] /\ answer' \in [Requests -> Answers]
    BY <1>4 DEF Authorize, TypeOK, Goto, Reply, Phases, Answers
  <2>2. MayAccess(Question(r)) \in BOOLEAN
    BY Zenon DEF MayAccess
  <2>3. granted' \in [Requests -> BOOLEAN]
    BY <1>4, <2>2, Zenon DEF Authorize, TypeOK
  <2> QED BY <1>4, <2>1, <2>3 DEF Authorize, TypeOK, tables, world
<1>5. ASSUME NEW r \in Requests, DecodeBody(r) PROVE TypeOK'
  BY <1>5 DEF TypeOK, Phases, Answers, Results, DecodeBody, Goto, Reply, world, tables
<1>6. ASSUME NEW r \in Requests, LookupFails(r) PROVE TypeOK'
  BY <1>6 DEF TypeOK, Phases, Answers, Results, LookupFails, Goto, Reply, world, tables
<1>7. ASSUME NEW r \in Requests, BucketNotFound(r) PROVE TypeOK'
  BY <1>7 DEF TypeOK, Phases, Answers, Results, BucketNotFound, Goto, Reply, world, tables
<1>8. ASSUME NEW r \in Requests, BucketSelected(r) PROVE TypeOK'
  <2>1. /\ SelectedBucket(r) \in ConnectionRows
        /\ connections[<<form[r].scope, form[r].bucket>>] = SelectedBucket(r)
    <3>1. form[r] \in Forms
      BY <1>8, FormTyped DEF BucketSelected
    <3>2. <<form[r].scope, form[r].bucket>> \in Scopes \X Buckets
      BY <3>1 DEF Forms
    <3> QED BY <1>8, <3>2 DEF BucketSelected, SelectedBucket, ActiveBucket, TypeOK, ConnectionTables
  <2>2. SelectedBucket(r).prefixes \in SUBSET Prefixes /\ SelectedBucket(r).active \in BOOLEAN
    BY <2>1 DEF ConnectionRows
  <2>3. prefixes' \in [Requests -> SUBSET Prefixes] /\ active' \in [Requests -> BOOLEAN]
    BY <1>8, <2>1, <2>2, Zenon DEF BucketSelected, TypeOK
  <2>4. phase' \in [Requests -> Phases] /\ answer' \in [Requests -> Answers]
    BY <1>8 DEF BucketSelected, TypeOK, Goto, Phases
  <2> QED BY <1>8, <2>3, <2>4 DEF BucketSelected, TypeOK, tables, world
<1>9. ASSUME NEW r \in Requests, Guard(r) PROVE TypeOK'
  <2>1. phase' \in [Requests -> Phases] /\ answer' \in [Requests -> Answers]
    <3>1. Reply(r, "400") \/ Reply(r, "400 prefix") \/ Goto(r, "session")
      BY <1>9, Zenon DEF Guard
    <3>2. CASE Reply(r, "400")
      BY <3>2 DEF TypeOK, Phases, Answers, Reply
    <3>3. CASE Reply(r, "400 prefix")
      BY <3>3 DEF TypeOK, Phases, Answers, Reply
    <3>4. CASE Goto(r, "session")
      BY <3>4 DEF TypeOK, Phases, Answers, Goto
    <3> QED BY <3>1, <3>2, <3>3, <3>4
  <2> QED BY <1>9, <2>1 DEF TypeOK, Guard, world, tables
<1>10. ASSUME NEW r \in Requests, SessionFails(r) PROVE TypeOK'
  <2>1. phase' \in [Requests -> Phases] /\ answer' \in [Requests -> Answers]
    <3>1. CASE Reply(r, "502")
      BY <3>1 DEF TypeOK, Phases, Answers, Reply
    <3>2. CASE Reply(r, "400")
      BY <3>2 DEF TypeOK, Phases, Answers, Reply
    <3> QED BY <1>10, <3>1, <3>2 DEF SessionFails
  <2> QED BY <1>10, <2>1 DEF TypeOK, SessionFails, world, tables
<1>11. ASSUME NEW r \in Requests, SignUrl(r) PROVE TypeOK'
  BY <1>11 DEF TypeOK, Phases, Answers, Results, SignUrl, Goto, Reply, world, tables
<1>12. ASSUME NEW r \in Requests, FirstCall(r) PROVE TypeOK'
  <2>1. 1 \in 0 .. DefaultMaxAttempts
    BY DEF DefaultMaxAttempts
  <2> QED BY <1>12, <2>1 DEF TypeOK, Phases, FirstCall, Goto, world, tables
<1>13. ASSUME NEW r \in Requests, CallSucceeds(r) PROVE TypeOK'
  BY <1>13 DEF TypeOK, Phases, Answers, Results, CallSucceeds, Goto, Reply, world, tables
<1>14. ASSUME NEW r \in Requests, CallFindsNoKey(r) PROVE TypeOK'
  BY <1>14 DEF TypeOK, Phases, Answers, Results, CallFindsNoKey, Goto, Reply, world, tables
<1>15. ASSUME NEW r \in Requests, CallFails(r) PROVE TypeOK'
  BY <1>15 DEF TypeOK, Phases, Answers, Results, CallFails, Goto, Reply, world, tables
<1>16. ASSUME NEW r \in Requests, Wake(r) PROVE TypeOK'
  <2>1. attempt[r] + 1 \in 0 .. DefaultMaxAttempts
    BY <1>16 DEF Wake, FlowInv, TypeOK, DefaultMaxAttempts
  <2> QED BY <1>16, <2>1 DEF TypeOK, Phases, Wake, Goto, world, tables
<1>17. ASSUME NEW r \in Requests, SleepInterrupted(r) PROVE TypeOK'
  BY <1>17 DEF TypeOK, Phases, Answers, Results, SleepInterrupted, Goto, Reply, world, tables
<1>18. ASSUME NEW r \in Requests, ClientHangsUp(r) PROVE TypeOK'
  BY <1>18 DEF TypeOK, Phases, Answers, Results, ClientHangsUp, world, tables
<1>19. ASSUME NEW r \in Requests, CallExecuted(r) PROVE TypeOK'
  <2>1. Object(r) \in Buckets \X Keys
    BY <1>19, FormTyped DEF CallExecuted
  <2>2. stored' \in [Buckets \X Keys -> Requests \cup {Absent, Initial}] /\ touched' \in SUBSET Requests
    BY <1>19, <2>1, ExecuteTyped DEF CallExecuted
  <2>3. result' \in [Requests -> Results]
    BY <1>19, <2>1 DEF TypeOK, CallExecuted, Results
  <2> QED BY <1>19, <2>2, <2>3 DEF TypeOK, CallExecuted, tables
<1>20. ASSUME NEW r \in Requests, LateCallExecuted(r) PROVE TypeOK'
  <2>1. Object(r) \in Buckets \X Keys
    BY <1>20, FormTyped DEF LateCallExecuted
  <2>2. stored' \in [Buckets \X Keys -> Requests \cup {Absent, Initial}] /\ touched' \in SUBSET Requests
    BY <1>20, <2>1, ExecuteTyped DEF LateCallExecuted
  <2> QED BY <1>20, <2>2 DEF TypeOK, LateCallExecuted, tables
<1>21. ASSUME NEW r \in Requests, LateCallDropped(r) PROVE TypeOK'
  BY <1>21 DEF TypeOK, Phases, Answers, Results, LateCallDropped, Goto, Reply, world, tables
<1>22. ASSUME NEW r \in Requests, UrlUsed(r) PROVE TypeOK'
  <2>1. Object(r) \in Buckets \X Keys
    BY <1>22, FormTyped DEF UrlUsed
  <2>2. stored' \in [Buckets \X Keys -> Requests \cup {Absent, Initial}] /\ touched' \in SUBSET Requests
    BY <1>22, <2>1, ExecuteTyped DEF UrlUsed
  <2> QED BY <1>22, <2>2 DEF TypeOK, UrlUsed, tables
<1>23. ASSUME NEW r \in Requests, UrlExpires(r) PROVE TypeOK'
  BY <1>23 DEF TypeOK, Phases, Answers, Results, UrlExpires, Goto, Reply, world, tables
<1>24. ASSUME NEW r \in Requests, AttemptResent(r) PROVE TypeOK'
  BY <1>24 DEF TypeOK, AttemptResent, Results, tables
<1>25. CASE UNCHANGED vars
  BY <1>25 DEF TypeOK, Phases, Answers, Results, vars
<1> QED
  BY <1>1, <1>2, <1>3, <1>4, <1>5, <1>6, <1>7, <1>8, <1>9, <1>10, <1>11,
     <1>12, <1>13, <1>14, <1>15, <1>16, <1>17, <1>18, <1>19, <1>20, <1>21,
     <1>22, <1>23, <1>24, <1>25
     DEF Next, Handler, S3

-----------------------------------------------------------------------------
\* Entering the retry loop again is possible below the limit only, and the decision is the permission.
LEMMA DecisionIsPermission ==
    ASSUME NEW q, q.key \in Keys, Decision(q) = "allowed"
    PROVE  MayAccess(q)
<1> DEFINE policy == EffectivePolicy(q.scope, q.bucket, q.principal)
           c == connections[<<q.scope, q.bucket>>]
           a == policies[<<q.scope, q.bucket, q.principal>>]
<1>1. policy # NoRow /\ IsActionAllowed(policy, q.action) /\ IsPrefixAllowed(policy, q.key)
  BY DEF Decision
<1>2. /\ c # NoRow /\ c.active /\ a # NoRow
      /\ policy = [can |-> a.can, connectionPrefixes |-> c.prefixes, principalPrefixes |-> a.prefixes]
  BY <1>1 DEF EffectivePolicy, ActiveBucket
<1>3. q.action \in a.can
  BY <1>1, <1>2 DEF IsActionAllowed
<1>4. PrefixesOf[q.key] \cap policy.connectionPrefixes \cap policy.principalPrefixes # {}
  BY <1>1 DEF IsPrefixAllowed
<1>5. PICK x \in PrefixesOf[q.key] : x \in c.prefixes /\ x \in a.prefixes
  BY <1>2, <1>4
<1>6. x \in Prefixes
  BY <1>5, AccessAssumption
<1> QED BY <1>2, <1>3, <1>5, <1>6 DEF MayAccess

\* Who was allowed to decode or to look up holds the permission and has a connection with a prefix of the key.
LEMMA AuthorizeDecides ==
    ASSUME TypeOK, FormInv, NEW r \in Requests, Authorize(r), phase'[r] # "done"
    PROVE  /\ MayAccess(Question(r))
           /\ granted'[r] = TRUE
           /\ connections[<<form[r].scope, form[r].bucket>>] # NoRow
           /\ PrefixesOf[form[r].key] \cap connections[<<form[r].scope, form[r].bucket>>].prefixes # {}
<1>1. form[r] \in Forms
  BY DEF Authorize, TypeOK, FormInv
<1>2. Decision(Question(r)) = "allowed"
  BY DEF Authorize, Reply, TypeOK
<1>3. /\ Question(r).key = form[r].key /\ form[r].key \in Keys
      /\ Question(r).scope = form[r].scope /\ Question(r).bucket = form[r].bucket
  BY <1>1 DEF Question, Forms
<1>4. MayAccess(Question(r))
  BY <1>2, <1>3, DecisionIsPermission
<1>5. granted'[r] = TRUE
  <2>1. MayAccess(Question(r)) = TRUE
    BY <1>4, Zenon DEF MayAccess
  <2> QED BY <2>1 DEF Authorize, TypeOK
<1>6. /\ connections[<<form[r].scope, form[r].bucket>>] # NoRow
      /\ PrefixesOf[form[r].key] \cap connections[<<form[r].scope, form[r].bucket>>].prefixes # {}
  BY <1>3, <1>4 DEF MayAccess
<1> QED BY <1>4, <1>5, <1>6

\* A connection that a request may still look up keeps its row and its prefixes, unless an
\* operator rewrites or removes it, which is remembered of the request.
LEMMA AdministerKeepsPrefixes ==
    ASSUME TypeOK, FormInv, FlowInv, Administer, NEW r \in Requests,
           phase[r] \in {"decode", "lookup"}, r \notin rewritten',
           connections[<<form[r].scope, form[r].bucket>>] # NoRow
    PROVE  /\ connections'[<<form[r].scope, form[r].bucket>>] # NoRow
           /\ connections'[<<form[r].scope, form[r].bucket>>].prefixes
                = connections[<<form[r].scope, form[r].bucket>>].prefixes
<1> DEFINE x == <<form[r].scope, form[r].bucket>>
<1>1. form[r].scope \in Scopes /\ form[r].bucket \in Buckets
  BY FormTyped DEF Forms
<1>2. PICK s \in Scopes, b \in Buckets :
        \/ \E ps \in SUBSET Prefixes : InsertConnection(s, b, ps)
        \/ \E p \in Principals, policy \in PolicyForms : WritePolicy(s, b, p, policy)
        \/ \E p \in Principals : DeletePolicy(s, b, p)
        \/ ToggleConnection(s, b)
        \/ /\ (\E ps \in SUBSET Prefixes : RewriteConnection(s, b, ps)) \/ DeleteConnection(s, b)
           /\ rewritten' = rewritten \cup BetweenReads(s, b)
  BY Zenon DEF Administer
<1>3. connections \in [Scopes \X Buckets -> ConnectionRows \cup {NoRow}] /\ x \in Scopes \X Buckets
  BY <1>1 DEF TypeOK, ConnectionTables
<1>4. CASE x # <<s, b>>
  <2>1. connections'[x] = connections[x]
    BY <1>2, <1>3, <1>4 DEF InsertConnection, WritePolicy, DeletePolicy, ToggleConnection,
                            RewriteConnection, DeleteConnection
  <2> QED BY <2>1
<1>5. CASE x = <<s, b>>
  <2>1. r \in BetweenReads(s, b)
    BY <1>5 DEF BetweenReads
  <2>2. CASE ToggleConnection(s, b)
    <3>1. connections'[x] = [connections[x] EXCEPT !.active = ~connections[x].active]
      BY <1>3, <1>5, <2>2 DEF ToggleConnection
    <3>2. connections[x] \in ConnectionRows
      BY <1>3
    <3> HIDE DEF x
    <3>3. connections'[x] \in ConnectionRows /\ connections'[x].prefixes = connections[x].prefixes
      BY <3>1, <3>2 DEF ConnectionRows
    <3>4. connections'[x] # NoRow /\ connections'[x].prefixes = connections[x].prefixes
      BY <3>3, AccessAssumption
    <3> QED BY <3>4 DEF x
  <2>3. CASE \/ \E p \in Principals, policy \in PolicyForms : WritePolicy(s, b, p, policy)
             \/ \E p \in Principals : DeletePolicy(s, b, p)
    BY <2>3 DEF WritePolicy, DeletePolicy
  <2>4. CASE \E ps \in SUBSET Prefixes : InsertConnection(s, b, ps)
    BY <1>5, <2>4 DEF InsertConnection
  <2> QED BY <1>2, <2>1, <2>2, <2>3, <2>4
<1> QED BY <1>4, <1>5

\* Only an arrival gives a form, and only the last step of a handler an answer.
LEMMA FormStep ==
    ASSUME TypeOK, FormInv, [Next]_vars
    PROVE  FormInv'
<1> USE DEF TypeOK, FormInv, Goto, Reply
<1>1. ASSUME Administer PROVE FormInv'
  BY <1>1 DEF Administer
<1>2. ASSUME Killed PROVE FormInv'
  BY <1>2 DEF Killed, Running
<1>3. ASSUME NEW r \in Requests, Arrive(r) PROVE FormInv'
  BY <1>3, RequestsAssumption DEF Arrive
<1>4. ASSUME NEW r \in Requests, Authorize(r) PROVE FormInv'
  BY <1>4 DEF Authorize
<1>5. ASSUME NEW r \in Requests, DecodeBody(r) PROVE FormInv'
  BY <1>5 DEF DecodeBody
<1>6. ASSUME NEW r \in Requests, LookupFails(r) PROVE FormInv'
  BY <1>6 DEF LookupFails
<1>7. ASSUME NEW r \in Requests, BucketNotFound(r) PROVE FormInv'
  BY <1>7 DEF BucketNotFound
<1>8. ASSUME NEW r \in Requests, BucketSelected(r) PROVE FormInv'
  BY <1>8 DEF BucketSelected
<1>9. ASSUME NEW r \in Requests, Guard(r) PROVE FormInv'
  BY <1>9 DEF Guard
<1>10. ASSUME NEW r \in Requests, SessionFails(r) PROVE FormInv'
  BY <1>10 DEF SessionFails
<1>11. ASSUME NEW r \in Requests, SignUrl(r) PROVE FormInv'
  BY <1>11 DEF SignUrl
<1>12. ASSUME NEW r \in Requests, FirstCall(r) PROVE FormInv'
  BY <1>12 DEF FirstCall
<1>13. ASSUME NEW r \in Requests, CallSucceeds(r) PROVE FormInv'
  BY <1>13 DEF CallSucceeds
<1>14. ASSUME NEW r \in Requests, CallFindsNoKey(r) PROVE FormInv'
  BY <1>14 DEF CallFindsNoKey
<1>15. ASSUME NEW r \in Requests, CallFails(r) PROVE FormInv'
  BY <1>15 DEF CallFails
<1>16. ASSUME NEW r \in Requests, Wake(r) PROVE FormInv'
  BY <1>16 DEF Wake
<1>17. ASSUME NEW r \in Requests, SleepInterrupted(r) PROVE FormInv'
  BY <1>17 DEF SleepInterrupted
<1>18. ASSUME NEW r \in Requests, ClientHangsUp(r) PROVE FormInv'
  BY <1>18 DEF ClientHangsUp
<1>19. ASSUME NEW r \in Requests, CallExecuted(r) PROVE FormInv'
  BY <1>19 DEF CallExecuted, Execute
<1>20. ASSUME NEW r \in Requests, LateCallExecuted(r) PROVE FormInv'
  BY <1>20 DEF LateCallExecuted, Execute
<1>21. ASSUME NEW r \in Requests, LateCallDropped(r) PROVE FormInv'
  BY <1>21 DEF LateCallDropped
<1>22. ASSUME NEW r \in Requests, UrlUsed(r) PROVE FormInv'
  BY <1>22 DEF UrlUsed, Execute
<1>23. ASSUME NEW r \in Requests, UrlExpires(r) PROVE FormInv'
  BY <1>23 DEF UrlExpires
<1>24. ASSUME NEW r \in Requests, AttemptResent(r) PROVE FormInv'
  BY <1>24 DEF AttemptResent
<1>25. CASE UNCHANGED vars
  BY <1>25 DEF vars
<1> QED
  BY <1>1, <1>2, <1>3, <1>4, <1>5, <1>6, <1>7, <1>8, <1>9, <1>10, <1>11, <1>12, <1>13,
     <1>14, <1>15, <1>16, <1>17, <1>18, <1>19, <1>20, <1>21, <1>22, <1>23, <1>24, <1>25
     DEF Next, Handler, S3

\* What was decided in one phase is still known in the later ones.
LEMMA FlowStep ==
    ASSUME TypeOK, FormInv, FlowInv, [Next]_vars
    PROVE  FlowInv'
<1> USE DEF TypeOK, FlowInv, Authorized, Selected, NothingOut, Goto, Reply, world
<1>1. ASSUME Administer PROVE FlowInv'
  BY <1>1 DEF Administer
<1>2. ASSUME Killed PROVE FlowInv'
  BY <1>2 DEF Killed, Running
<1>3. ASSUME NEW r \in Requests, Arrive(r) PROVE FlowInv'
  BY <1>3 DEF Arrive
<1>4. ASSUME NEW r \in Requests, Authorize(r) PROVE FlowInv'
  <2>1. phase'[r] # "done" => granted'[r]
    BY <1>4, AuthorizeDecides
  <2>2. \A q \in Requests \ {r} : granted'[q] = granted[q]
    BY <1>4 DEF Authorize
  <2> HIDE DEF TypeOK
  <2>3. phase' \in [Requests -> Phases] /\ phase[r] = "authorize"
    BY <1>4 DEF Authorize, TypeOK, Phases
  <2> QED BY <1>4, <2>1, <2>2, <2>3 DEF Authorize, TypeOK, Phases
<1>5. ASSUME NEW r \in Requests, DecodeBody(r) PROVE FlowInv'
  BY <1>5 DEF DecodeBody
<1>6. ASSUME NEW r \in Requests, LookupFails(r) PROVE FlowInv'
  BY <1>6 DEF LookupFails
<1>7. ASSUME NEW r \in Requests, BucketNotFound(r) PROVE FlowInv'
  BY <1>7 DEF BucketNotFound
<1>8. ASSUME NEW r \in Requests, BucketSelected(r) PROVE FlowInv'
  <2>1. active'[r] /\ phase[r] = "lookup"
    BY <1>8 DEF BucketSelected, SelectedBucket, ActiveBucket
  <2>2. \A q \in Requests \ {r} : active'[q] = active[q]
    BY <1>8 DEF BucketSelected
  <2> QED BY <1>8, <2>1, <2>2 DEF BucketSelected
<1>9. ASSUME NEW r \in Requests, Guard(r) PROVE FlowInv'
  BY <1>9, ZenonT(40) DEF Guard
<1>10. ASSUME NEW r \in Requests, SessionFails(r) PROVE FlowInv'
  BY <1>10 DEF SessionFails
<1>11. ASSUME NEW r \in Requests, SignUrl(r) PROVE FlowInv'
  BY <1>11 DEF SignUrl
<1>12. ASSUME NEW r \in Requests, FirstCall(r) PROVE FlowInv'
  BY <1>12 DEF FirstCall
<1>13. ASSUME NEW r \in Requests, CallSucceeds(r) PROVE FlowInv'
  BY <1>13 DEF CallSucceeds
<1>14. ASSUME NEW r \in Requests, CallFindsNoKey(r) PROVE FlowInv'
  BY <1>14 DEF CallFindsNoKey
<1>15. ASSUME NEW r \in Requests, CallFails(r) PROVE FlowInv'
  <2>1. phase'[r] = "backoff" => attempt[r] < DefaultMaxAttempts
    BY <1>15 DEF CallFails, GivesUp, DefaultRetryPolicy, DefaultMaxAttempts
  <2> QED BY <1>15, <2>1 DEF CallFails
<1>16. ASSUME NEW r \in Requests, Wake(r) PROVE FlowInv'
  BY <1>16 DEF Wake
<1>17. ASSUME NEW r \in Requests, SleepInterrupted(r) PROVE FlowInv'
  BY <1>17 DEF SleepInterrupted
<1>18. ASSUME NEW r \in Requests, ClientHangsUp(r) PROVE FlowInv'
  BY <1>18 DEF ClientHangsUp
<1>19. ASSUME NEW r \in Requests, CallExecuted(r) PROVE FlowInv'
  BY <1>19 DEF CallExecuted, Execute
<1>20. ASSUME NEW r \in Requests, LateCallExecuted(r) PROVE FlowInv'
  BY <1>20 DEF LateCallExecuted, Execute
<1>21. ASSUME NEW r \in Requests, LateCallDropped(r) PROVE FlowInv'
  BY <1>21 DEF LateCallDropped
<1>22. ASSUME NEW r \in Requests, UrlUsed(r) PROVE FlowInv'
  BY <1>22 DEF UrlUsed, Execute
<1>23. ASSUME NEW r \in Requests, UrlExpires(r) PROVE FlowInv'
  BY <1>23 DEF UrlExpires
<1>24. ASSUME NEW r \in Requests, AttemptResent(r) PROVE FlowInv'
  BY <1>24 DEF AttemptResent
<1>25. CASE UNCHANGED vars
  BY <1>25 DEF vars
<1> QED
  BY <1>1, <1>2, <1>3, <1>4, <1>5, <1>6, <1>7, <1>8, <1>9, <1>10, <1>11, <1>12, <1>13,
     <1>14, <1>15, <1>16, <1>17, <1>18, <1>19, <1>20, <1>21, <1>22, <1>23, <1>24, <1>25
     DEF Next, Handler, S3

\* A step that looks at no prefixes, and sends or leaves nothing that was not already allowed to be sent.
LEMMA PrefixKept ==
    ASSUME PrefixInv, UNCHANGED <<tables, form, prefixes>>,
           \A q \in Requests :
               /\ phase'[q] \in {"decode", "lookup"} => phase[q] \in {"decode", "lookup"}
               /\ phase'[q] \in Selected \/ q \in Outside' => phase[q] \in Selected \/ q \in Outside
               /\ phase'[q] \in {"session", "send", "backoff"} \/ q \in Outside' =>
                      phase[q] \in {"session", "send", "backoff"} \/ q \in Outside
               /\ answer'[q] = "400 prefix" => answer[q] = "400 prefix"
    PROVE  PrefixInv'
<1>1. \A q \in Requests : Within(q)' = Within(q)
  BY DEF Within, IsWithinAllowedPrefixes
<1> QED BY <1>1 DEF PrefixInv, tables

\* The two looks at the prefixes agree unless an operator came in between; after the second
\* one a delete or a read is known to be within what the connection allows.
LEMMA PrefixStep ==
    ASSUME TypeOK, FormInv, FlowInv, PrefixInv, [Next]_vars
    PROVE  PrefixInv'
<1> USE DEF TypeOK, Selected, Outside, Goto, Reply, world
<1>1. ASSUME Administer PROVE PrefixInv'
  <2>1. \A q \in Requests : Within(q)' = Within(q)
    BY <1>1 DEF Administer, Within, IsWithinAllowedPrefixes
  <2>2. rewritten \subseteq rewritten'
    BY <1>1 DEF Administer
  <2>3. ASSUME NEW q \in Requests, phase[q] \in {"decode", "lookup"}, q \notin rewritten'
        PROVE  /\ connections'[<<form[q].scope, form[q].bucket>>] # NoRow
               /\ IsWithinAllowedPrefixes(form[q].key, connections'[<<form[q].scope, form[q].bucket>>].prefixes)
    <3>1. /\ connections[<<form[q].scope, form[q].bucket>>] # NoRow
          /\ IsWithinAllowedPrefixes(form[q].key, connections[<<form[q].scope, form[q].bucket>>].prefixes)
      BY <2>2, <2>3 DEF PrefixInv
    <3>2. /\ connections'[<<form[q].scope, form[q].bucket>>] # NoRow
          /\ connections'[<<form[q].scope, form[q].bucket>>].prefixes
               = connections[<<form[q].scope, form[q].bucket>>].prefixes
      BY <1>1, <2>3, <3>1, AdministerKeepsPrefixes
    <3> QED BY <3>1, <3>2 DEF IsWithinAllowedPrefixes
  <2>4. UNCHANGED <<form, phase, answer, touched, late, urls>>
    BY <1>1 DEF Administer
  <2> QED BY <2>1, <2>2, <2>3, <2>4 DEF PrefixInv, IsWithinAllowedPrefixes
<1>2. ASSUME Killed PROVE PrefixInv'
  BY <1>2, PrefixKept DEF Killed, Running
<1>3. ASSUME NEW r \in Requests, Arrive(r) PROVE PrefixInv'
  <2>0. phase[r] = "idle" /\ answer[r] = "none" /\ r \notin Outside
    BY <1>3 DEF Arrive, FlowInv, NothingOut, FormInv
  <2>1. phase'[r] \notin {"decode", "lookup"} \cup Selected /\ r \notin Outside' /\ answer'[r] # "400 prefix"
    <3>1. PICK f \in RequestForms : IF f.payload = "malformed" THEN Reply(r, "400") ELSE Goto(r, "authorize")
      BY <1>3 DEF Arrive
    <3>2. CASE Reply(r, "400")
      BY <1>3, <2>0, <3>2 DEF Arrive
    <3>3. CASE Goto(r, "authorize")
      BY <1>3, <2>0, <3>3 DEF Arrive
    <3> QED BY <3>1, <3>2, <3>3
  <2>2. \A q \in Requests \ {r} :
           form'[q] = form[q] /\ phase'[q] = phase[q] /\ answer'[q] = answer[q] /\ Within(q)' = Within(q)
    BY <1>3 DEF Arrive, Within, IsWithinAllowedPrefixes
  <2>3. UNCHANGED <<tables, touched, late, urls>>
    BY <1>3 DEF Arrive
  <2> QED BY <2>1, <2>2, <2>3 DEF PrefixInv, tables, IsWithinAllowedPrefixes
<1>4. ASSUME NEW r \in Requests, Authorize(r) PROVE PrefixInv'
  <2>1. /\ phase'[r] \notin Selected
        /\ phase'[r] \in {"decode", "lookup"} =>
             /\ connections[<<form[r].scope, form[r].bucket>>] # NoRow
             /\ IsWithinAllowedPrefixes(form[r].key, connections[<<form[r].scope, form[r].bucket>>].prefixes)
    <3>1. phase'[r] \in {"decode", "lookup", "done"}
      BY <1>4 DEF Authorize
    <3>2. phase'[r] # "done" =>
             /\ connections[<<form[r].scope, form[r].bucket>>] # NoRow
             /\ IsWithinAllowedPrefixes(form[r].key, connections[<<form[r].scope, form[r].bucket>>].prefixes)
      BY <1>4, AuthorizeDecides DEF IsWithinAllowedPrefixes
    <3> QED BY <3>1, <3>2
  <2>2. r \notin Outside /\ answer'[r] # "400 prefix"
    <3>1. phase[r] = "authorize" /\ answer[r] = "none" /\ r \notin Outside
      BY <1>4 DEF Authorize, FlowInv, NothingOut, FormInv
    <3>2. UNCHANGED world /\ answer' \in {answer, [answer EXCEPT ![r] = "403"]}
      BY <1>4 DEF Authorize
    <3> QED BY <3>1, <3>2
  <2>3. \A q \in Requests \ {r} : phase'[q] = phase[q] /\ answer'[q] = answer[q]
    BY <1>4 DEF Authorize
  <2>4. UNCHANGED <<tables, form, prefixes, touched, late, urls>>
    BY <1>4 DEF Authorize
  <2>5. \A q \in Requests : Within(q)' = Within(q)
    BY <2>4 DEF Within, IsWithinAllowedPrefixes
  <2> QED BY <2>1, <2>2, <2>3, <2>4, <2>5 DEF PrefixInv, tables, IsWithinAllowedPrefixes
<1>5. ASSUME NEW r \in Requests, DecodeBody(r) PROVE PrefixInv'
  <2>1. phase[r] = "decode" /\ UNCHANGED <<tables, form, prefixes, world>>
    BY <1>5 DEF DecodeBody
  <2>2. CASE Reply(r, "400")
    BY <2>1, <2>2, PrefixKept
  <2>3. CASE Goto(r, "lookup")
    BY <2>1, <2>3, PrefixKept
  <2> QED BY <1>5, <2>2, <2>3 DEF DecodeBody
<1>6. ASSUME NEW r \in Requests, LookupFails(r) PROVE PrefixInv'
  BY <1>6, PrefixKept DEF LookupFails
<1>7. ASSUME NEW r \in Requests, BucketNotFound(r) PROVE PrefixInv'
  BY <1>7, PrefixKept DEF BucketNotFound
<1>8. ASSUME NEW r \in Requests, BucketSelected(r) PROVE PrefixInv'
  <2>1. prefixes'[r] = connections[<<form[r].scope, form[r].bucket>>].prefixes
    BY <1>8 DEF BucketSelected, SelectedBucket, ActiveBucket
  <2>2. phase[r] = "lookup" /\ phase'[r] = "guard" /\ r \notin Outside
    BY <1>8 DEF BucketSelected, FlowInv, NothingOut
  <2>3. \A q \in Requests \ {r} : phase'[q] = phase[q] /\ prefixes'[q] = prefixes[q]
    BY <1>8 DEF BucketSelected
  <2>4. UNCHANGED <<tables, form, answer, touched, late, urls>>
    BY <1>8 DEF BucketSelected
  <2>5. r \notin rewritten => Within(r)'
    BY <2>1, <2>2, <2>4 DEF PrefixInv, Within, IsWithinAllowedPrefixes
  <2>6. \A q \in Requests \ {r} : Within(q)' = Within(q)
    BY <2>3, <2>4 DEF Within, IsWithinAllowedPrefixes
  <2> QED BY <2>2, <2>3, <2>4, <2>5, <2>6 DEF PrefixInv, tables, IsWithinAllowedPrefixes
<1>9. ASSUME NEW r \in Requests, Guard(r) PROVE PrefixInv'
  <2>1. UNCHANGED <<tables, form, prefixes, touched, late, urls>> /\ phase[r] = "guard" /\ r \notin Outside
    BY <1>9 DEF Guard, FlowInv, NothingOut
  <2>2. \A q \in Requests \ {r} : phase'[q] = phase[q] /\ answer'[q] = answer[q]
    BY <1>9, ZenonT(40) DEF Guard
  <2>3. /\ phase'[r] \in {"done", "session"}
        /\ phase'[r] = "session" => ~OutsidePrefixes(r)
        /\ answer'[r] = "400 prefix" => answer[r] = "400 prefix" \/ OutsidePrefixes(r)
    <3>1. CASE Reply(r, "400")
      BY <3>1, <2>1
    <3>2. CASE ~DeleteRefused(r) /\ OutsidePrefixes(r) /\ Reply(r, "400 prefix")
      BY <3>2, <2>1
    <3>3. CASE ~OutsidePrefixes(r) /\ Goto(r, "session")
      BY <3>3, <2>1
    <3> QED BY <1>9, <3>1, <3>2, <3>3, Zenon DEF Guard
  <2>4. \A q \in Requests : Within(q)' = Within(q)
    BY <2>1 DEF Within, IsWithinAllowedPrefixes
  <2>5. OutsidePrefixes(r) <=> form[r].op \in {"delete", "read"} /\ ~Within(r)
    BY Zenon DEF OutsidePrefixes, Within
  <2> HIDE DEF TypeOK
  <2> QED BY <2>1, <2>2, <2>3, <2>4, <2>5 DEF PrefixInv, tables, IsWithinAllowedPrefixes
<1>10. ASSUME NEW r \in Requests, SessionFails(r) PROVE PrefixInv'
  BY <1>10, PrefixKept DEF SessionFails
<1>11. ASSUME NEW r \in Requests, SignUrl(r) PROVE PrefixInv'
  BY <1>11, PrefixKept DEF SignUrl
<1>12. ASSUME NEW r \in Requests, FirstCall(r) PROVE PrefixInv'
  BY <1>12, PrefixKept DEF FirstCall
<1>13. ASSUME NEW r \in Requests, CallSucceeds(r) PROVE PrefixInv'
  BY <1>13, PrefixKept DEF CallSucceeds
<1>14. ASSUME NEW r \in Requests, CallFindsNoKey(r) PROVE PrefixInv'
  BY <1>14, PrefixKept DEF CallFindsNoKey
<1>15. ASSUME NEW r \in Requests, CallFails(r) PROVE PrefixInv'
  BY <1>15, PrefixKept DEF CallFails
<1>16. ASSUME NEW r \in Requests, Wake(r) PROVE PrefixInv'
  BY <1>16, PrefixKept DEF Wake
<1>17. ASSUME NEW r \in Requests, SleepInterrupted(r) PROVE PrefixInv'
  BY <1>17, PrefixKept DEF SleepInterrupted
<1>18. ASSUME NEW r \in Requests, ClientHangsUp(r) PROVE PrefixInv'
  BY <1>18, PrefixKept DEF ClientHangsUp
<1>19. ASSUME NEW r \in Requests, CallExecuted(r) PROVE PrefixInv'
  BY <1>19, PrefixKept DEF CallExecuted, Execute
<1>20. ASSUME NEW r \in Requests, LateCallExecuted(r) PROVE PrefixInv'
  BY <1>20, PrefixKept DEF LateCallExecuted, Execute
<1>21. ASSUME NEW r \in Requests, LateCallDropped(r) PROVE PrefixInv'
  BY <1>21, PrefixKept DEF LateCallDropped
<1>22. ASSUME NEW r \in Requests, UrlUsed(r) PROVE PrefixInv'
  BY <1>22, PrefixKept DEF UrlUsed, Execute
<1>23. ASSUME NEW r \in Requests, UrlExpires(r) PROVE PrefixInv'
  BY <1>23, PrefixKept DEF UrlExpires
<1>24. ASSUME NEW r \in Requests, AttemptResent(r) PROVE PrefixInv'
  BY <1>24, PrefixKept DEF AttemptResent
<1>25. CASE UNCHANGED vars
  BY <1>25, PrefixKept DEF vars, tables
<1> QED
  BY <1>1, <1>2, <1>3, <1>4, <1>5, <1>6, <1>7, <1>8, <1>9, <1>10, <1>11, <1>12, <1>13,
     <1>14, <1>15, <1>16, <1>17, <1>18, <1>19, <1>20, <1>21, <1>22, <1>23, <1>24, <1>25
     DEF Next, Handler, S3

\* A step of one request that neither brings another one to a bucket nor changes what is known of it.
LEMMA OneRequestMoves ==
    ASSUME Safe, NEW r \in Requests,
           \A q \in Reaching' \ {r} : q \in Reaching /\ granted'[q] = granted[q] /\ active'[q] = active[q],
           \A q \in Requests \ {r} : answer'[q] = answer[q],
           r \in Reaching' => granted'[r] /\ active'[r] /\ answer'[r] \notin RefusalAnswers
    PROVE  Safe'
<1>1. ReachesOnlyWhatWasGranted'
  BY DEF Safe, ReachesOnlyWhatWasGranted
<1>2. RefusalsHaveNoEffect'
  BY DEF Safe, RefusalsHaveNoEffect, RefusalAnswers
<1> QED BY <1>1, <1>2 DEF Safe

\* No step reaches a bucket without the permission or after a refusal.
LEMMA SafetyStep ==
    ASSUME TypeOK, FormInv, FlowInv, PrefixInv, Safe, [Next]_vars
    PROVE  Safe'
<1> USE DEF TypeOK, FormInv, FlowInv, Authorized, Selected, NothingOut, Goto, Reply, world
<1>1. ASSUME Administer PROVE Safe'
  BY <1>1 DEF Administer, Reaching, Safe,
     ReachesOnlyWhatWasGranted, RefusalsHaveNoEffect
<1>2. ASSUME Killed PROVE Safe'
  BY <1>2 DEF Killed, Running, Reaching, Safe,
     ReachesOnlyWhatWasGranted, RefusalsHaveNoEffect
<1>3. ASSUME NEW r \in Requests, Arrive(r) PROVE Safe'
  <2>1. \A q \in Reaching' \ {r} : q \in Reaching /\ granted'[q] = granted[q] /\ active'[q] = active[q]
    BY <1>3 DEF Arrive, Reaching
  <2>2. \A q \in Requests \ {r} : answer'[q] = answer[q]
    BY <1>3 DEF Arrive
  <2>3. r \notin Reaching'
    BY <1>3 DEF Arrive, Reaching
  <2> QED BY <2>1, <2>2, <2>3, OneRequestMoves
<1>4. ASSUME NEW r \in Requests, Authorize(r) PROVE Safe'
  <2>1. \A q \in Reaching' \ {r} : q \in Reaching /\ granted'[q] = granted[q] /\ active'[q] = active[q]
    BY <1>4 DEF Authorize, Reaching
  <2>2. \A q \in Requests \ {r} : answer'[q] = answer[q]
    BY <1>4 DEF Authorize
  <2>3. r \notin Reaching'
    BY <1>4 DEF Authorize, Reaching
  <2> QED BY <2>1, <2>2, <2>3, OneRequestMoves
<1>5. ASSUME NEW r \in Requests, DecodeBody(r) PROVE Safe'
  <2>1. \A q \in Reaching' \ {r} : q \in Reaching /\ granted'[q] = granted[q] /\ active'[q] = active[q]
    BY <1>5 DEF DecodeBody, Reaching
  <2>2. \A q \in Requests \ {r} : answer'[q] = answer[q]
    BY <1>5 DEF DecodeBody
  <2>3. r \notin Reaching'
    BY <1>5 DEF DecodeBody, Reaching
  <2> QED BY <2>1, <2>2, <2>3, OneRequestMoves
<1>6. ASSUME NEW r \in Requests, LookupFails(r) PROVE Safe'
  <2>1. \A q \in Reaching' \ {r} : q \in Reaching /\ granted'[q] = granted[q] /\ active'[q] = active[q]
    BY <1>6 DEF LookupFails, Reaching
  <2>2. \A q \in Requests \ {r} : answer'[q] = answer[q]
    BY <1>6 DEF LookupFails
  <2>3. r \notin Reaching'
    BY <1>6 DEF LookupFails, Reaching
  <2> QED BY <2>1, <2>2, <2>3, OneRequestMoves
<1>7. ASSUME NEW r \in Requests, BucketNotFound(r) PROVE Safe'
  <2>1. \A q \in Reaching' \ {r} : q \in Reaching /\ granted'[q] = granted[q] /\ active'[q] = active[q]
    BY <1>7 DEF BucketNotFound, Reaching
  <2>2. \A q \in Requests \ {r} : answer'[q] = answer[q]
    BY <1>7 DEF BucketNotFound
  <2>3. r \notin Reaching'
    BY <1>7 DEF BucketNotFound, Reaching
  <2> QED BY <2>1, <2>2, <2>3, OneRequestMoves
<1>8. ASSUME NEW r \in Requests, BucketSelected(r) PROVE Safe'
  <2>1. \A q \in Reaching' \ {r} : q \in Reaching /\ granted'[q] = granted[q] /\ active'[q] = active[q]
    BY <1>8 DEF BucketSelected, Reaching
  <2>2. \A q \in Requests \ {r} : answer'[q] = answer[q]
    BY <1>8 DEF BucketSelected
  <2>3. r \notin Reaching'
    BY <1>8 DEF BucketSelected, Reaching
  <2> QED BY <2>1, <2>2, <2>3, OneRequestMoves
<1>9. ASSUME NEW r \in Requests, Guard(r) PROVE Safe'
  <2>1. \A q \in Reaching' \ {r} : q \in Reaching /\ granted'[q] = granted[q] /\ active'[q] = active[q]
    BY <1>9 DEF Guard, Reaching
  <2>2. \A q \in Requests \ {r} : answer'[q] = answer[q]
    BY <1>9, ZenonT(40) DEF Guard
  <2>3. r \in Reaching' => granted'[r] /\ active'[r] /\ answer'[r] \notin RefusalAnswers
    BY <1>9, ZenonT(40) DEF Guard, Reaching, RefusalAnswers
  <2> QED BY <2>1, <2>2, <2>3, OneRequestMoves
<1>10. ASSUME NEW r \in Requests, SessionFails(r) PROVE Safe'
  <2>1. \A q \in Reaching' \ {r} : q \in Reaching /\ granted'[q] = granted[q] /\ active'[q] = active[q]
    BY <1>10 DEF SessionFails, Reaching
  <2>2. \A q \in Requests \ {r} : answer'[q] = answer[q]
    BY <1>10 DEF SessionFails
  <2>3. r \notin Reaching'
    BY <1>10 DEF SessionFails, Reaching
  <2> QED BY <2>1, <2>2, <2>3, OneRequestMoves
<1>11. ASSUME NEW r \in Requests, SignUrl(r) PROVE Safe'
  <2>1. \A q \in Reaching' \ {r} : q \in Reaching /\ granted'[q] = granted[q] /\ active'[q] = active[q]
    BY <1>11 DEF SignUrl, Reaching
  <2>2. \A q \in Requests \ {r} : answer'[q] = answer[q]
    BY <1>11 DEF SignUrl
  <2>3. granted'[r] /\ active'[r] /\ answer'[r] \notin RefusalAnswers
    BY <1>11 DEF SignUrl, RefusalAnswers
  <2> QED BY <2>1, <2>2, <2>3, OneRequestMoves
<1>12. ASSUME NEW r \in Requests, FirstCall(r) PROVE Safe'
  <2>1. \A q \in Reaching' \ {r} : q \in Reaching /\ granted'[q] = granted[q] /\ active'[q] = active[q]
    BY <1>12 DEF FirstCall, Reaching
  <2>2. \A q \in Requests \ {r} : answer'[q] = answer[q]
    BY <1>12 DEF FirstCall
  <2>3. granted'[r] /\ active'[r] /\ answer'[r] \notin RefusalAnswers
    BY <1>12 DEF FirstCall, RefusalAnswers
  <2> QED BY <2>1, <2>2, <2>3, OneRequestMoves
<1>13. ASSUME NEW r \in Requests, CallSucceeds(r) PROVE Safe'
  <2>1. \A q \in Reaching' \ {r} : q \in Reaching /\ granted'[q] = granted[q] /\ active'[q] = active[q]
    BY <1>13 DEF CallSucceeds, Reaching
  <2>2. \A q \in Requests \ {r} : answer'[q] = answer[q]
    BY <1>13 DEF CallSucceeds
  <2>3. granted'[r] /\ active'[r] /\ answer'[r] \notin RefusalAnswers
    BY <1>13 DEF CallSucceeds, RefusalAnswers
  <2> QED BY <2>1, <2>2, <2>3, OneRequestMoves
<1>14. ASSUME NEW r \in Requests, CallFindsNoKey(r) PROVE Safe'
  <2>1. \A q \in Reaching' \ {r} : q \in Reaching /\ granted'[q] = granted[q] /\ active'[q] = active[q]
    BY <1>14 DEF CallFindsNoKey, Reaching
  <2>2. \A q \in Requests \ {r} : answer'[q] = answer[q]
    BY <1>14 DEF CallFindsNoKey
  <2>3. granted'[r] /\ active'[r] /\ answer'[r] \notin RefusalAnswers
    BY <1>14 DEF CallFindsNoKey, RefusalAnswers
  <2> QED BY <2>1, <2>2, <2>3, OneRequestMoves
<1>15. ASSUME NEW r \in Requests, CallFails(r) PROVE Safe'
  <2>1. \A q \in Reaching' \ {r} : q \in Reaching /\ granted'[q] = granted[q] /\ active'[q] = active[q]
    BY <1>15 DEF CallFails, Reaching
  <2>2. \A q \in Requests \ {r} : answer'[q] = answer[q]
    BY <1>15 DEF CallFails
  <2>3. granted'[r] /\ active'[r] /\ answer'[r] \notin RefusalAnswers
    BY <1>15 DEF CallFails, RefusalAnswers
  <2> QED BY <2>1, <2>2, <2>3, OneRequestMoves
<1>16. ASSUME NEW r \in Requests, Wake(r) PROVE Safe'
  <2>1. \A q \in Reaching' \ {r} : q \in Reaching /\ granted'[q] = granted[q] /\ active'[q] = active[q]
    BY <1>16 DEF Wake, Reaching
  <2>2. \A q \in Requests \ {r} : answer'[q] = answer[q]
    BY <1>16 DEF Wake
  <2>3. granted'[r] /\ active'[r] /\ answer'[r] \notin RefusalAnswers
    BY <1>16 DEF Wake, RefusalAnswers
  <2> QED BY <2>1, <2>2, <2>3, OneRequestMoves
<1>17. ASSUME NEW r \in Requests, SleepInterrupted(r) PROVE Safe'
  <2>1. \A q \in Reaching' \ {r} : q \in Reaching /\ granted'[q] = granted[q] /\ active'[q] = active[q]
    BY <1>17 DEF SleepInterrupted, Reaching
  <2>2. \A q \in Requests \ {r} : answer'[q] = answer[q]
    BY <1>17 DEF SleepInterrupted
  <2>3. granted'[r] /\ active'[r] /\ answer'[r] \notin RefusalAnswers
    BY <1>17 DEF SleepInterrupted, RefusalAnswers
  <2> QED BY <2>1, <2>2, <2>3, OneRequestMoves
<1>18. ASSUME NEW r \in Requests, ClientHangsUp(r) PROVE Safe'
  BY <1>18 DEF ClientHangsUp, Reaching, Safe,
     ReachesOnlyWhatWasGranted, RefusalsHaveNoEffect
<1>19. ASSUME NEW r \in Requests, CallExecuted(r) PROVE Safe'
  BY <1>19 DEF CallExecuted, Execute, Reaching, Safe,
     ReachesOnlyWhatWasGranted, RefusalsHaveNoEffect
<1>20. ASSUME NEW r \in Requests, LateCallExecuted(r) PROVE Safe'
  BY <1>20 DEF LateCallExecuted, Execute, Reaching, Safe,
     ReachesOnlyWhatWasGranted, RefusalsHaveNoEffect
<1>21. ASSUME NEW r \in Requests, LateCallDropped(r) PROVE Safe'
  BY <1>21 DEF LateCallDropped, Reaching, Safe,
     ReachesOnlyWhatWasGranted, RefusalsHaveNoEffect
<1>22. ASSUME NEW r \in Requests, UrlUsed(r) PROVE Safe'
  BY <1>22 DEF UrlUsed, Execute, Reaching, Safe,
     ReachesOnlyWhatWasGranted, RefusalsHaveNoEffect
<1>23. ASSUME NEW r \in Requests, UrlExpires(r) PROVE Safe'
  BY <1>23 DEF UrlExpires, Reaching, Safe,
     ReachesOnlyWhatWasGranted, RefusalsHaveNoEffect
<1>24. ASSUME NEW r \in Requests, AttemptResent(r) PROVE Safe'
  BY <1>24 DEF AttemptResent, Reaching, Safe,
     ReachesOnlyWhatWasGranted, RefusalsHaveNoEffect
<1>25. CASE UNCHANGED vars
  BY <1>25 DEF vars, Reaching, Safe,
     ReachesOnlyWhatWasGranted, RefusalsHaveNoEffect
<1> QED
  BY <1>1, <1>2, <1>3, <1>4, <1>5, <1>6, <1>7, <1>8, <1>9, <1>10, <1>11, <1>12, <1>13,
     <1>14, <1>15, <1>16, <1>17, <1>18, <1>19, <1>20, <1>21, <1>22, <1>23, <1>24, <1>25
     DEF Next, Handler, S3

\* Only a handler answers, and it takes no further step; what it left behind only becomes less.
LEMMA FinalStep ==
    ASSUME TypeOK, FormInv, [Next]_vars
    PROVE  Final
<1> USE DEF TypeOK, FormInv, Goto, Reply, world, Final
<1>1. ASSUME Administer PROVE Final
  BY <1>1 DEF Administer
<1>2. ASSUME Killed PROVE Final
  BY <1>2 DEF Killed, Running
<1>3. ASSUME NEW r \in Requests, Arrive(r) PROVE Final
  BY <1>3 DEF Arrive
<1>4. ASSUME NEW r \in Requests, Authorize(r) PROVE Final
  BY <1>4 DEF Authorize
<1>5. ASSUME NEW r \in Requests, DecodeBody(r) PROVE Final
  BY <1>5 DEF DecodeBody
<1>6. ASSUME NEW r \in Requests, LookupFails(r) PROVE Final
  BY <1>6 DEF LookupFails
<1>7. ASSUME NEW r \in Requests, BucketNotFound(r) PROVE Final
  BY <1>7 DEF BucketNotFound
<1>8. ASSUME NEW r \in Requests, BucketSelected(r) PROVE Final
  BY <1>8 DEF BucketSelected
<1>9. ASSUME NEW r \in Requests, Guard(r) PROVE Final
  BY <1>9 DEF Guard
<1>10. ASSUME NEW r \in Requests, SessionFails(r) PROVE Final
  BY <1>10 DEF SessionFails
<1>11. ASSUME NEW r \in Requests, SignUrl(r) PROVE Final
  BY <1>11 DEF SignUrl
<1>12. ASSUME NEW r \in Requests, FirstCall(r) PROVE Final
  BY <1>12 DEF FirstCall
<1>13. ASSUME NEW r \in Requests, CallSucceeds(r) PROVE Final
  BY <1>13 DEF CallSucceeds
<1>14. ASSUME NEW r \in Requests, CallFindsNoKey(r) PROVE Final
  BY <1>14 DEF CallFindsNoKey
<1>15. ASSUME NEW r \in Requests, CallFails(r) PROVE Final
  BY <1>15 DEF CallFails
<1>16. ASSUME NEW r \in Requests, Wake(r) PROVE Final
  BY <1>16 DEF Wake
<1>17. ASSUME NEW r \in Requests, SleepInterrupted(r) PROVE Final
  BY <1>17 DEF SleepInterrupted
<1>18. ASSUME NEW r \in Requests, ClientHangsUp(r) PROVE Final
  BY <1>18 DEF ClientHangsUp
<1>19. ASSUME NEW r \in Requests, CallExecuted(r) PROVE Final
  BY <1>19 DEF CallExecuted, Execute
<1>20. ASSUME NEW r \in Requests, LateCallExecuted(r) PROVE Final
  BY <1>20 DEF LateCallExecuted, Execute
<1>21. ASSUME NEW r \in Requests, LateCallDropped(r) PROVE Final
  BY <1>21 DEF LateCallDropped
<1>22. ASSUME NEW r \in Requests, UrlUsed(r) PROVE Final
  BY <1>22 DEF UrlUsed, Execute
<1>23. ASSUME NEW r \in Requests, UrlExpires(r) PROVE Final
  BY <1>23 DEF UrlExpires
<1>24. ASSUME NEW r \in Requests, AttemptResent(r) PROVE Final
  BY <1>24 DEF AttemptResent
<1>25. CASE UNCHANGED vars
  BY <1>25 DEF vars
<1> QED
  BY <1>1, <1>2, <1>3, <1>4, <1>5, <1>6, <1>7, <1>8, <1>9, <1>10, <1>11, <1>12, <1>13,
     <1>14, <1>15, <1>16, <1>17, <1>18, <1>19, <1>20, <1>21, <1>22, <1>23, <1>24, <1>25
     DEF Next, Handler, S3

-----------------------------------------------------------------------------
\* The invariant holds in every state the service reaches.
LEMMA InvHolds == Spec => []Inv
<1>1. Init => Inv
  BY InitInv
<1>2. Inv /\ [Next]_vars => Inv'
  BY TypeStep, FormStep, FlowStep, PrefixStep, SafetyStep DEF Inv
<1> QED BY <1>1, <1>2, PTL DEF Spec

\* Every variable keeps its type; in particular no request makes more attempts than the policy allows.
THEOREM TypeCorrect == Spec => []TypeOK
<1>1. Inv => TypeOK
  BY DEF Inv
<1> QED BY <1>1, InvHolds, PTL

\* However the handlers, operators, clients and S3 interleave: no operation reaches a bucket
\* for a request whose permission and whose connection were not both there when they were read.
THEOREM GrantsPrecedeEffects == Spec => []ReachesOnlyWhatWasGranted
<1>1. Inv => ReachesOnlyWhatWasGranted
  BY DEF Inv, Safe
<1> QED BY <1>1, InvHolds, PTL

\* A request refused with 400, 403 or "connection not found" has no effect, then or later.
THEOREM RefusalsAreEmpty == Spec => []RefusalsHaveNoEffect
<1>1. Inv => RefusalsHaveNoEffect
  BY DEF Inv, Safe
<1> QED BY <1>1, InvHolds, PTL

\* Whatever is inserted, granted, revoked and toggled between the two reads of the tables, and
\* whatever is rewritten before or after them: the two looks at the prefixes disagree, and an
\* object outside of them is reached, only after a rewrite or a removal in between, and then by
\* none of the operations that look twice.
THEOREM PrefixLooksAgree == Spec => []PrefixesDecideTwice
<1>1. ASSUME Inv, NEW r \in Requests
      PROVE  /\ answer[r] = "400 prefix" => r \in rewritten
             /\ r \in Reaching /\ ~IsWithinAllowedPrefixes(form[r].key, prefixes[r]) =>
                 r \in rewritten /\ form[r].op \notin {"delete", "read"}
  BY <1>1 DEF Inv, PrefixInv, Reaching, Outside, Selected, Within, IsWithinAllowedPrefixes
<1>2. Inv => PrefixesDecideTwice
  BY <1>1 DEF PrefixesDecideTwice
<1> QED BY <1>2, InvHolds, PTL

\* Every request is answered at most once, and an answer ends what may still be started for it.
THEOREM AnsweredOnce == Spec => AnswersAreFinal
<1>1. Inv /\ [Next]_vars =>
        [\A r \in Requests :
           answer[r] # "none" =>
               /\ answer'[r] = answer[r]
               /\ r \in late' \cup urls' => r \in late \cup urls]_vars
  BY FinalStep DEF Inv, Final
<1> QED BY <1>1, InvHolds, PTL DEF Spec, AnswersAreFinal

-----------------------------------------------------------------------------
(* The refinement of ObjectAccess: one abstract step, or none, per action.  *)

\* What a request knows of its own fate before its bucket is selected, and after.
StageInv ==
    \A r \in Requests :
        /\ phase[r] \in {"idle", "authorize"} => ~granted[r]
        /\ phase[r] \in {"idle", "authorize", "decode", "lookup"} => ~active[r]
        /\ result[r] # "none" => r \in touched
        /\ answer[r] = "403" => ~active[r]

LEMMA StageStep ==
    ASSUME TypeOK, FormInv, StageInv, [Next]_vars
    PROVE  StageInv'
<1> USE DEF TypeOK, FormInv, StageInv, Goto, Reply, world
<1>1. ASSUME Administer PROVE StageInv'
  BY <1>1 DEF Administer
<1>2. ASSUME Killed PROVE StageInv'
  BY <1>2 DEF Killed, Running
<1>3. ASSUME NEW r \in Requests, Arrive(r) PROVE StageInv'
  BY <1>3 DEF Arrive
<1>4. ASSUME NEW r \in Requests, Authorize(r) PROVE StageInv'
  BY <1>4 DEF Authorize
<1>5. ASSUME NEW r \in Requests, DecodeBody(r) PROVE StageInv'
  BY <1>5 DEF DecodeBody
<1>6. ASSUME NEW r \in Requests, LookupFails(r) PROVE StageInv'
  BY <1>6 DEF LookupFails
<1>7. ASSUME NEW r \in Requests, BucketNotFound(r) PROVE StageInv'
  BY <1>7 DEF BucketNotFound
<1>8. ASSUME NEW r \in Requests, BucketSelected(r) PROVE StageInv'
  BY <1>8 DEF BucketSelected
<1>9. ASSUME NEW r \in Requests, Guard(r) PROVE StageInv'
  BY <1>9, ZenonT(40) DEF Guard
<1>10. ASSUME NEW r \in Requests, SessionFails(r) PROVE StageInv'
  BY <1>10 DEF SessionFails
<1>11. ASSUME NEW r \in Requests, SignUrl(r) PROVE StageInv'
  BY <1>11 DEF SignUrl
<1>12. ASSUME NEW r \in Requests, FirstCall(r) PROVE StageInv'
  BY <1>12 DEF FirstCall
<1>13. ASSUME NEW r \in Requests, CallSucceeds(r) PROVE StageInv'
  BY <1>13 DEF CallSucceeds
<1>14. ASSUME NEW r \in Requests, CallFindsNoKey(r) PROVE StageInv'
  BY <1>14 DEF CallFindsNoKey
<1>15. ASSUME NEW r \in Requests, CallFails(r) PROVE StageInv'
  BY <1>15 DEF CallFails
<1>16. ASSUME NEW r \in Requests, Wake(r) PROVE StageInv'
  BY <1>16 DEF Wake
<1>17. ASSUME NEW r \in Requests, SleepInterrupted(r) PROVE StageInv'
  BY <1>17 DEF SleepInterrupted
<1>18. ASSUME NEW r \in Requests, ClientHangsUp(r) PROVE StageInv'
  BY <1>18 DEF ClientHangsUp
<1>19. ASSUME NEW r \in Requests, CallExecuted(r) PROVE StageInv'
  BY <1>19 DEF CallExecuted, Execute
<1>20. ASSUME NEW r \in Requests, LateCallExecuted(r) PROVE StageInv'
  BY <1>20 DEF LateCallExecuted, Execute
<1>21. ASSUME NEW r \in Requests, LateCallDropped(r) PROVE StageInv'
  BY <1>21 DEF LateCallDropped
<1>22. ASSUME NEW r \in Requests, UrlUsed(r) PROVE StageInv'
  BY <1>22 DEF UrlUsed, Execute
<1>23. ASSUME NEW r \in Requests, UrlExpires(r) PROVE StageInv'
  BY <1>23 DEF UrlExpires
<1>24. ASSUME NEW r \in Requests, AttemptResent(r) PROVE StageInv'
  BY <1>24 DEF AttemptResent
<1>25. CASE UNCHANGED vars
  BY <1>25 DEF vars
<1> QED
  BY <1>1, <1>2, <1>3, <1>4, <1>5, <1>6, <1>7, <1>8, <1>9, <1>10, <1>11, <1>12, <1>13,
     <1>14, <1>15, <1>16, <1>17, <1>18, <1>19, <1>20, <1>21, <1>22, <1>23, <1>24, <1>25
     DEF Next, Handler, S3

\* The mapping of what a step leaves alone.
LEMMA Kept ==
    /\ UNCHANGED <<connections, policies>> => Permitted' = Permitted /\ Open' = Open
    /\ UNCHANGED form => Asked' = Asked
    /\ UNCHANGED answer => Outcomes' = Outcomes
    /\ UNCHANGED <<granted, active, answer>> => Standings' = Standings
<1>1. ASSUME UNCHANGED <<connections, policies>> PROVE Permitted' = Permitted /\ Open' = Open
  BY <1>1 DEF Permitted, Open, MayAccess, ActiveBucket
<1>2. ASSUME UNCHANGED form PROVE Asked' = Asked
  BY <1>2 DEF Asked, Wish, Question, Object
<1>3. ASSUME UNCHANGED answer PROVE Outcomes' = Outcomes
  BY <1>3 DEF Outcomes
<1>4. ASSUME UNCHANGED <<granted, active, answer>> PROVE Standings' = Standings
  BY <1>4 DEF Standings, Stage
<1> QED BY <1>1, <1>2, <1>3, <1>4

\* An answer moves one outcome, and no standing unless it is the denial.
LEMMA Replied ==
    ASSUME TypeOK, NEW r \in Requests, NEW code, answer' = [answer EXCEPT ![r] = code],
           answer[r] = "none", code # "403", UNCHANGED <<granted, active>>
    PROVE  /\ Outcomes' = [Outcomes EXCEPT ![r] = OutcomeOf(code)]
           /\ Standings' = Standings
<1>1. Outcomes' = [Outcomes EXCEPT ![r] = OutcomeOf(code)]
  BY DEF Outcomes, TypeOK
<1>2. \A q \in Requests : answer'[q] = "403" <=> answer[q] = "403"
  BY DEF TypeOK
<1>3. Standings' = Standings
  BY <1>2 DEF Standings, Stage
<1> QED BY <1>1, <1>3

\* A request under way, or of which something is outside, is one that was asked.
LEMMA WishTyped ==
    ASSUME TypeOK, FormInv, FlowInv, NEW r \in Requests,
           phase[r] # "idle" \/ r \in late \cup urls
    PROVE  /\ Asked[r] = Wish(r)
           /\ Wish(r) \in Access!Wishes
           /\ Asked[r] # NoRow
<1>1. form[r] \in Forms /\ form[r] # NoRow
  BY FormTyped, RequestsAssumption
<1>2. Asked[r] = Wish(r)
  BY <1>1 DEF Asked
<1>3. /\ form[r].op \in Ops /\ form[r].scope \in Scopes /\ form[r].bucket \in Buckets
      /\ form[r].principal \in Principals /\ form[r].key \in Keys
  BY <1>1 DEF Forms
<1>4. Question(r) \in Questions
  BY <1>3 DEF Question, Questions, ActionOf, Ops
<1>5. Object(r) \in Buckets \X Keys
  BY <1>3 DEF Object
<1>6. EffectOf(form[r].op) \in {"store", "remove", "none"}
  BY <1>3 DEF EffectOf
<1>7. ByUrl(form[r].op) \in BOOLEAN
  BY DEF ByUrl
<1>8. <<form[r].scope, form[r].bucket>> \in Scopes \X Buckets
  BY <1>3
<1>9. Wish(r) \in Access!Wishes
  BY <1>4, <1>5, <1>6, <1>7, <1>8 DEF Wish, Access!Wishes
<1> QED BY <1>2, <1>9, WishesAssumption

\* The abstract counterparts of what the invariant knows of a request.
LEMMA Standing ==
    ASSUME TypeOK, FormInv, FlowInv, StageInv, NEW r \in Requests
    PROVE  /\ active[r] => Standings[r] = "admitted"
           /\ phase[r] \in Selected => Standings[r] = "admitted"
           /\ phase[r] \in {"decode", "lookup"} => Standings[r] = "permitted"
           /\ phase[r] = "authorize" => Standings[r] = "asking"
           /\ phase[r] \in Running => Outcomes[r] = "none" /\ answer[r] = "none"
  BY DEF TypeOK, FormInv, FlowInv, StageInv, Standings, Stage, Outcomes, OutcomeOf,
         Authorized, Selected, Running, Phases

LEMMA RefusedStep ==
    ASSUME TypeOK, FormInv, FlowInv, StageInv, NEW r \in Requests, NEW code,
           phase[r] \in NothingOut \ {"idle"}, Reply(r, code),
           code \in {"400", "400 prefix", "404 connection"},
           UNCHANGED <<tables, form, late, urls, stored, touched, granted, active>>
    PROVE  Access!Refuse(r)
<1>1. answer[r] = "none" /\ Outcomes[r] = "none"
  BY Standing DEF NothingOut, Running, Phases
<1>2. /\ Outcomes' = [Outcomes EXCEPT ![r] = "refused"]
      /\ Standings' = Standings
  BY <1>1, Replied DEF Reply, OutcomeOf
<1>3. Asked[r] # NoRow
  BY WishTyped DEF NothingOut
<1>4. r \notin touched \cup (late \cup urls)
  BY DEF FlowInv
<1>5. UNCHANGED <<Permitted, Open, Asked>>
  BY Kept DEF tables
<1> QED BY <1>1, <1>2, <1>3, <1>4, <1>5 DEF Access!Refuse, Access!Waits

LEMMA FailedStep ==
    ASSUME TypeOK, FormInv, FlowInv, StageInv, NEW failing \in SUBSET Requests, NEW code \in {"502", "lost"},
           \A r \in failing : phase[r] \in Running,
           answer' = [r \in Requests |-> IF r \in failing THEN code ELSE answer[r]],
           NEW left \in SUBSET {r \in failing : phase[r] = "send"}, late' = late \cup left,
           failing # {},
           UNCHANGED <<tables, form, urls, stored, touched, granted, active>>
    PROVE  Access!Next
<1>1. \A r \in failing : answer[r] = "none" /\ Outcomes[r] = "none" /\ Asked[r] # NoRow
  BY Standing, WishTyped DEF Running
<1>2. Outcomes' = [r \in Requests |-> IF r \in failing THEN "failed" ELSE Outcomes[r]]
  <2>1. OutcomeOf(code) = "failed"
    BY DEF OutcomeOf
  <2> QED BY <2>1 DEF Outcomes
<1>3. Standings' = Standings
  <2>1. \A r \in Requests : answer'[r] = "403" <=> answer[r] = "403"
    BY <1>1
  <2> QED BY <2>1 DEF Standings, Stage
<1>4. \A r \in left : Standings[r] = "admitted"
  BY Standing DEF Selected
<1>5. UNCHANGED <<Permitted, Open, Asked>>
  BY Kept DEF tables
<1>6. (late \cup urls)' = (late \cup urls) \cup left
  OBVIOUS
<1>7. Access!Fail(failing)
  <2>1. \A r \in failing : Access!Waits(r)
    BY <1>1 DEF Access!Waits
  <2>2. left \in SUBSET {r \in failing : Standings[r] = "admitted"}
    BY <1>4
  <2> QED BY <1>2, <1>3, <1>5, <1>6, <2>1, <2>2 DEF Access!Fail
<1> QED BY <1>7 DEF Access!Next

LEMMA OneFails ==
    ASSUME TypeOK, FormInv, FlowInv, StageInv, NEW r \in Requests,
           phase[r] \in Running, Reply(r, "502"),
           late' = late \/ (phase[r] = "send" /\ late' = late \cup {r}),
           UNCHANGED <<tables, form, urls, stored, touched, granted, active>>
    PROVE  Access!Next
<1> DEFINE failing == {r}
           left == IF late' = late THEN {} ELSE {r}
<1>1. answer' = [q \in Requests |-> IF q \in failing THEN "502" ELSE answer[q]]
  BY DEF Reply, TypeOK
<1>2. left \in SUBSET {q \in failing : phase[q] = "send"} /\ late' = late \cup left
  OBVIOUS
<1>3. failing \in SUBSET Requests /\ failing # {} /\ \A q \in failing : phase[q] \in Running
  OBVIOUS
<1> HIDE DEF failing, left
<1> QED BY <1>1, <1>2, <1>3, FailedStep

LEMMA PerformStep ==
    ASSUME TypeOK, FormInv, FlowInv, StageInv, Safe, NEW r \in Requests, Execute(r),
           phase[r] = "send" \/ r \in late \cup urls,
           UNCHANGED <<tables, form, answer, late, urls, granted, active>>
    PROVE  Access!Perform(r)
<1>1. active[r] /\ Standings[r] = "admitted"
  BY Standing DEF Safe, ReachesOnlyWhatWasGranted, Reaching
<1>2. Asked[r] = Wish(r) /\ Asked[r] # NoRow
  BY WishTyped
<1>3. Access!Waits(r) \/ r \in late \cup urls
  BY <1>2, Standing DEF Access!Waits, Running, Phases
<1>4. /\ Asked[r].effect = EffectOf(form[r].op) /\ Asked[r].object = Object(r)
  BY <1>2 DEF Wish
<1>5. stored' = CASE Asked[r].effect = "store" -> [stored EXCEPT ![Asked[r].object] = r]
                  [] Asked[r].effect = "remove" -> [stored EXCEPT ![Asked[r].object] = Absent]
                  [] OTHER -> stored
  <2>1. CASE form[r].op \in {"upload", "presignPut"}
    BY <1>4, <2>1 DEF Execute, EffectOf
  <2>2. CASE form[r].op = "delete"
    BY <1>4, <2>2 DEF Execute, EffectOf
  <2>3. CASE form[r].op \notin {"upload", "presignPut", "delete"}
    BY <1>4, <2>3 DEF Execute, EffectOf
  <2> QED BY <2>1, <2>2, <2>3
<1>6. UNCHANGED <<Permitted, Open, Asked, Outcomes, Standings>>
  BY Kept DEF tables
<1>7. touched' = touched \cup {r} /\ UNCHANGED (late \cup urls)
  BY DEF Execute
<1> QED BY <1>1, <1>3, <1>5, <1>6, <1>7 DEF Access!Perform

\* Every step of the service is a step of ObjectAccess, or none.
LEMMA AccessStep ==
    ASSUME Inv, StageInv, [Next]_vars
    PROVE  [Access!Next]_(Access!accessVars)
<1> USE DEF Inv, Goto, tables, world, Access!accessVars
<1> DEFINE Kin == Access!Next \/ UNCHANGED Access!accessVars
<1>1. ASSUME Administer PROVE Kin
  <2>1. Permitted' \subseteq Questions /\ Open' \subseteq Scopes \X Buckets
    BY DEF Permitted, Open
  <2>2. Access!Change
    BY <1>1, <2>1, Kept DEF Administer, Access!Change
  <2> QED BY <2>2 DEF Access!Next
<1>2. ASSUME Killed PROVE Kin
  <2> DEFINE running == {r \in Requests : phase[r] \in Running}
  <2>1. PICK left \in SUBSET {r \in running : phase[r] = "send"} : late' = late \cup left
    BY <1>2 DEF Killed
  <2>2. /\ running # {} /\ running \in SUBSET Requests
        /\ answer' = [r \in Requests |-> IF r \in running THEN "lost" ELSE answer[r]]
        /\ \A r \in running : phase[r] \in Running
        /\ UNCHANGED <<tables, form, urls, stored, touched, granted, active>>
    BY <1>2 DEF Killed
  <2> HIDE DEF running
  <2>3. Access!Next
    BY <2>1, <2>2, FailedStep
  <2> QED BY <2>3
<1>3. ASSUME NEW r \in Requests, Arrive(r) PROVE Kin
  <2>1. PICK f \in RequestForms :
          /\ form' = [form EXCEPT ![r] = f]
          /\ IF f.payload = "malformed" THEN Reply(r, "400") ELSE Goto(r, "authorize")
    BY <1>3 DEF Arrive
  <2>2. f \in Forms /\ f # NoRow
    BY RequestsAssumption
  <2>3. form[r] = NoRow /\ answer[r] = "none" /\ phase[r] = "idle"
    BY <1>3 DEF Arrive, FormInv
  <2>4. Asked[r] = NoRow
    BY <2>3 DEF Asked
  <2>5. TypeOK' /\ FormInv' /\ FlowInv'
    BY TypeStep, FormStep, FlowStep
  <2>6. phase'[r] # "idle"
    BY <2>1, <1>3 DEF Arrive, Reply, TypeOK
  <2>7. Asked'[r] \in Access!Wishes
    <3>1. form'[r] = f
      BY <2>1 DEF TypeOK
    <3>2. /\ f.op \in Ops /\ f.scope \in Scopes /\ f.bucket \in Buckets
          /\ f.principal \in Principals /\ f.key \in Keys
      BY <2>2 DEF Forms
    <3>3. Question(r)' \in Questions
      BY <3>1, <3>2 DEF Question, Questions, ActionOf, Ops
    <3>4. Object(r)' \in Buckets \X Keys
      BY <3>1, <3>2 DEF Object
    <3>5. EffectOf(f.op) \in {"store", "remove", "none"}
      BY <3>2 DEF EffectOf
    <3>6. ByUrl(f.op) \in BOOLEAN
      BY DEF ByUrl
    <3>7. <<f.scope, f.bucket>> \in Scopes \X Buckets
      BY <3>2
    <3>8. Wish(r)' = [question |-> Question(r)', connection |-> <<f.scope, f.bucket>>, object |-> Object(r)',
                      effect |-> EffectOf(f.op), byUrl |-> ByUrl(f.op)]
      BY <3>1 DEF Wish
    <3>9. Wish(r)' \in Access!Wishes
      BY <3>3, <3>4, <3>5, <3>6, <3>7, <3>8 DEF Access!Wishes
    <3>10. Asked'[r] = Wish(r)'
      BY <3>1, <2>2 DEF Asked
    <3> QED BY <3>9, <3>10
  <2>8. Asked' = [Asked EXCEPT ![r] = Asked'[r]]
    <3>1. \A q \in Requests \ {r} : form'[q] = form[q]
      BY <2>1 DEF TypeOK
    <3>2. \A q \in Requests \ {r} : Asked'[q] = Asked[q]
      BY <3>1 DEF Asked, Wish, Question, Object
    <3> QED BY <3>2 DEF Asked
  <2>9. CASE f.payload = "malformed"
    <3>1. answer' = [answer EXCEPT ![r] = "400"]
      BY <2>1, <2>9 DEF Reply
    <3>2. Outcomes' = [Outcomes EXCEPT ![r] = "refused"] /\ Standings' = Standings
      BY <1>3, <2>3, <3>1, Replied DEF Arrive, OutcomeOf
    <3>3. UNCHANGED <<Permitted, Open, late \cup urls, touched, stored>>
      BY <1>3, Kept DEF Arrive
    <3>4. Access!Ask(r)
      BY <2>4, <2>7, <2>8, <3>2, <3>3 DEF Access!Ask
    <3> QED BY <3>4 DEF Access!Next
  <2>10. CASE f.payload # "malformed"
    <3>1. UNCHANGED answer
      BY <2>1, <2>10
    <3>2. UNCHANGED <<Permitted, Open, Outcomes, Standings, late \cup urls, touched, stored>>
      BY <1>3, <3>1, Kept DEF Arrive
    <3>3. Access!Ask(r)
      BY <2>4, <2>7, <2>8, <3>2 DEF Access!Ask
    <3> QED BY <3>3 DEF Access!Next
  <2> QED BY <2>9, <2>10
<1>4. ASSUME NEW r \in Requests, Authorize(r) PROVE Kin
  <2>1. /\ phase[r] = "authorize" /\ answer[r] = "none" /\ ~active[r] /\ ~granted[r]
        /\ Standings[r] = "asking" /\ Outcomes[r] = "none"
    BY <1>4, Standing DEF Authorize, StageInv, Running, Phases
  <2>2. Asked[r] = Wish(r) /\ Wish(r) \in Access!Wishes /\ Asked[r] # NoRow
    BY <2>1, WishTyped
  <2>3. UNCHANGED <<Permitted, Open, Asked, late \cup urls, touched, stored>>
    BY <1>4, Kept DEF Authorize
  <2>4. \A q \in Requests \ {r} : granted'[q] = granted[q] /\ active'[q] = active[q] /\ answer'[q] = answer[q]
    BY <1>4 DEF Authorize, Reply, TypeOK
  <2>5. \A q \in Requests \ {r} : Standings'[q] = Standings[q]
    BY <2>4 DEF Standings, Stage
  <2>6. CASE phase'[r] = "done"
    <3>1. answer' = [answer EXCEPT ![r] = "403"]
      BY <1>4, <2>6 DEF Authorize, Reply, TypeOK
    <3>2. Outcomes' = [Outcomes EXCEPT ![r] = "refused"]
      <4>1. OutcomeOf("403") = "refused"
        BY DEF OutcomeOf
      <4> QED BY <3>1, <4>1 DEF Outcomes, TypeOK
    <3>3. Standings'[r] = "asking"
      BY <3>1, <2>1, <1>4 DEF Standings, Stage, TypeOK, Authorize
    <3>4. Standings' = Standings
      BY <2>1, <2>5, <3>3 DEF Standings
    <3>5. r \notin touched \cup (late \cup urls)
      BY <2>1 DEF FlowInv, NothingOut
    <3>6. Access!Refuse(r)
      BY <2>1, <2>2, <2>3, <3>2, <3>4, <3>5 DEF Access!Refuse, Access!Waits
    <3> QED BY <3>6 DEF Access!Next
  <2>7. CASE phase'[r] # "done"
    <3>1. MayAccess(Question(r)) /\ granted'[r]
      BY <1>4, <2>7, AuthorizeDecides
    <3>2. UNCHANGED answer
      BY <1>4, <2>7 DEF Authorize, Reply, TypeOK
    <3>3. Standings'[r] = "permitted"
      BY <2>1, <3>1, <3>2, <1>4 DEF Standings, Stage, Authorize
    <3>4. Standings' = [Standings EXCEPT ![r] = "permitted"]
      BY <2>5, <3>3 DEF Standings
    <3>5. Asked[r].question \in Permitted
      <4>1. Asked[r].question = Question(r) /\ Question(r) \in Questions
        BY <2>2 DEF Wish, Access!Wishes
      <4> QED BY <3>1, <4>1 DEF Permitted
    <3>6. UNCHANGED Outcomes
      BY <3>2, Kept
    <3>7. Access!Permit(r)
      BY <2>1, <2>2, <2>3, <3>4, <3>5, <3>6 DEF Access!Permit, Access!Waits
    <3> QED BY <3>7 DEF Access!Next
  <2> QED BY <2>6, <2>7
<1>5. ASSUME NEW r \in Requests, DecodeBody(r) PROVE Kin
  <2>1. CASE InputRefused(r)
    <3>1. Access!Refuse(r)
      BY <1>5, <2>1, RefusedStep DEF DecodeBody, NothingOut
    <3> QED BY <3>1 DEF Access!Next
  <2>2. CASE ~InputRefused(r)
    BY <1>5, <2>2, Kept DEF DecodeBody
  <2> QED BY <2>1, <2>2
<1>6. ASSUME NEW r \in Requests, LookupFails(r) PROVE Kin
  <2>1. phase[r] \in Running /\ late' = late
    BY <1>6 DEF LookupFails, Running, Phases
  <2>2. Access!Next
    BY <1>6, <2>1, OneFails DEF LookupFails
  <2> QED BY <2>2
<1>7. ASSUME NEW r \in Requests, BucketNotFound(r) PROVE Kin
  <2>1. Access!Refuse(r)
    BY <1>7, RefusedStep DEF BucketNotFound, NothingOut
  <2> QED BY <2>1 DEF Access!Next
<1>8. ASSUME NEW r \in Requests, BucketSelected(r) PROVE Kin
  <2>1. /\ phase[r] = "lookup" /\ answer[r] = "none" /\ ~active[r]
        /\ Standings[r] = "permitted" /\ Outcomes[r] = "none"
    BY <1>8, Standing DEF BucketSelected, StageInv, Running, Phases
  <2>2. Asked[r] = Wish(r) /\ Wish(r) \in Access!Wishes /\ Asked[r] # NoRow
    BY <2>1, WishTyped
  <2>3. Asked[r].connection \in Open
    <3>1. Asked[r].connection = <<form[r].scope, form[r].bucket>> /\ Asked[r].connection \in Scopes \X Buckets
      BY <2>2 DEF Wish, Access!Wishes
    <3> QED BY <1>8, <3>1 DEF Open, BucketSelected, SelectedBucket
  <2>4. active'[r]
    BY <1>8 DEF BucketSelected, SelectedBucket, ActiveBucket, TypeOK
  <2>5. Standings' = [Standings EXCEPT ![r] = "admitted"]
    <3>1. \A q \in Requests \ {r} : Standings'[q] = Standings[q]
      BY <1>8 DEF BucketSelected, Standings, Stage, TypeOK
    <3>2. Standings'[r] = "admitted"
      BY <2>4 DEF Standings, Stage
    <3> QED BY <3>1, <3>2 DEF Standings
  <2>6. UNCHANGED <<Permitted, Open, Asked, Outcomes, late \cup urls, touched, stored>>
    BY <1>8, Kept DEF BucketSelected
  <2>7. Access!Admit(r)
    BY <2>1, <2>2, <2>3, <2>5, <2>6 DEF Access!Admit, Access!Waits
  <2> QED BY <2>7 DEF Access!Next
<1>9. ASSUME NEW r \in Requests, Guard(r) PROVE Kin
  <2>1. CASE Reply(r, "400")
    <3>1. Access!Refuse(r)
      BY <1>9, <2>1, RefusedStep DEF Guard, NothingOut
    <3> QED BY <3>1 DEF Access!Next
  <2>2. CASE Reply(r, "400 prefix")
    <3>1. Access!Refuse(r)
      BY <1>9, <2>2, RefusedStep DEF Guard, NothingOut
    <3> QED BY <3>1 DEF Access!Next
  <2>3. CASE Goto(r, "session")
    BY <1>9, <2>3, Kept DEF Guard
  <2> QED BY <1>9, <2>1, <2>2, <2>3 DEF Guard
<1>10. ASSUME NEW r \in Requests, SessionFails(r) PROVE Kin
  <2>1. phase[r] \in Running /\ late' = late
    BY <1>10 DEF SessionFails, Running, Phases
  <2>2. CASE Reply(r, "502")
    <3>1. Access!Next
      BY <1>10, <2>1, <2>2, OneFails DEF SessionFails
    <3> QED BY <3>1
  <2>3. CASE Reply(r, "400")
    <3>1. Access!Refuse(r)
      BY <1>10, <2>3, RefusedStep DEF SessionFails, NothingOut
    <3> QED BY <3>1 DEF Access!Next
  <2> QED BY <1>10, <2>2, <2>3 DEF SessionFails
<1>11. ASSUME NEW r \in Requests, SignUrl(r) PROVE Kin
  <2>1. /\ phase[r] = "session" /\ answer[r] = "none"
        /\ Standings[r] = "admitted" /\ Outcomes[r] = "none"
    BY <1>11, Standing DEF SignUrl, Running, Phases, Selected
  <2>2. Asked[r] = Wish(r) /\ Asked[r] # NoRow
    BY <2>1, WishTyped
  <2>3. Asked[r].byUrl
    <3>1. Asked[r].byUrl = ByUrl(form[r].op)
      BY <2>2 DEF Wish
    <3> QED BY <1>11, <3>1 DEF SignUrl, ByUrl
  <2>4. Outcomes' = [Outcomes EXCEPT ![r] = "done"] /\ Standings' = Standings
    BY <1>11, <2>1, Replied DEF SignUrl, Reply, OutcomeOf
  <2>5. (late \cup urls)' = (late \cup urls) \cup {r}
    BY <1>11 DEF SignUrl
  <2>6. UNCHANGED <<Permitted, Open, Asked, touched, stored>>
    BY <1>11, Kept DEF SignUrl
  <2>7. Access!Complete(r)
    BY <2>1, <2>2, <2>3, <2>4, <2>5, <2>6 DEF Access!Complete, Access!Waits
  <2> QED BY <2>7 DEF Access!Next
<1>12. ASSUME NEW r \in Requests, FirstCall(r) PROVE Kin
  BY <1>12, Kept DEF FirstCall
<1>13. ASSUME NEW r \in Requests, CallSucceeds(r) PROVE Kin
  <2>1. /\ phase[r] = "send" /\ answer[r] = "none" /\ r \in touched
        /\ Standings[r] = "admitted" /\ Outcomes[r] = "none"
    BY <1>13, Standing DEF CallSucceeds, StageInv, Running, Phases, Selected
  <2>2. Asked[r] # NoRow
    BY <2>1, WishTyped
  <2>3. Outcomes' = [Outcomes EXCEPT ![r] = "done"] /\ Standings' = Standings
    BY <1>13, <2>1, Replied DEF CallSucceeds, Reply, OutcomeOf
  <2>4. UNCHANGED <<Permitted, Open, Asked, late \cup urls, touched, stored>>
    BY <1>13, Kept DEF CallSucceeds
  <2>5. Access!Complete(r)
    BY <2>1, <2>2, <2>3, <2>4 DEF Access!Complete, Access!Waits
  <2> QED BY <2>5 DEF Access!Next
<1>14. ASSUME NEW r \in Requests, CallFindsNoKey(r) PROVE Kin
  <2>1. /\ phase[r] = "send" /\ answer[r] = "none" /\ r \in touched
        /\ Standings[r] = "admitted" /\ Outcomes[r] = "none"
    BY <1>14, Standing, RequestsAssumption DEF CallFindsNoKey, StageInv, Running, Phases, Selected
  <2>2. Asked[r] # NoRow
    BY <2>1, WishTyped
  <2>3. Outcomes' = [Outcomes EXCEPT ![r] = "done"] /\ Standings' = Standings
    BY <1>14, <2>1, Replied DEF CallFindsNoKey, Reply, OutcomeOf
  <2>4. UNCHANGED <<Permitted, Open, Asked, late \cup urls, touched, stored>>
    BY <1>14, Kept DEF CallFindsNoKey
  <2>5. Access!Complete(r)
    BY <2>1, <2>2, <2>3, <2>4 DEF Access!Complete, Access!Waits
  <2> QED BY <2>5 DEF Access!Next
<1>15. ASSUME NEW r \in Requests, CallFails(r) PROVE Kin
  <2>1. phase[r] = "send" /\ Standings[r] = "admitted" /\ Outcomes[r] = "none"
    BY <1>15, Standing DEF CallFails, Running, Phases, Selected
  <2>2. Asked[r] # NoRow
    BY <2>1, WishTyped
  <2>3. late' = late \/ late' = late \cup {r}
    BY <1>15 DEF CallFails
  <2>4. CASE Reply(r, "502")
    <3>1. Access!Next
      BY <1>15, <2>1, <2>3, <2>4, OneFails DEF CallFails, Running, Phases
    <3> QED BY <3>1
  <2>5. CASE Goto(r, "backoff")
    <3>1. UNCHANGED <<Permitted, Open, Asked, Standings, Outcomes, touched, stored>>
      BY <1>15, <2>5, Kept DEF CallFails
    <3>2. CASE late' = late
      BY <1>15, <3>1, <3>2 DEF CallFails
    <3>3. CASE late' = late \cup {r}
      <4>1. (late \cup urls)' = (late \cup urls) \cup {r}
        BY <1>15, <3>3 DEF CallFails
      <4>2. Access!LetLoose(r)
        BY <2>1, <2>2, <3>1, <4>1 DEF Access!LetLoose, Access!Waits
      <4> QED BY <4>2 DEF Access!Next
    <3> QED BY <2>3, <3>2, <3>3
  <2> QED BY <1>15, <2>4, <2>5 DEF CallFails
<1>16. ASSUME NEW r \in Requests, Wake(r) PROVE Kin
  BY <1>16, Kept DEF Wake
<1>17. ASSUME NEW r \in Requests, SleepInterrupted(r) PROVE Kin
  <2>1. phase[r] \in Running /\ late' = late
    BY <1>17 DEF SleepInterrupted, Running, Phases
  <2>2. Access!Next
    BY <1>17, <2>1, OneFails DEF SleepInterrupted
  <2> QED BY <2>2
<1>18. ASSUME NEW r \in Requests, ClientHangsUp(r) PROVE Kin
  BY <1>18, Kept DEF ClientHangsUp
<1>19. ASSUME NEW r \in Requests, CallExecuted(r) PROVE Kin
  <2>1. Access!Perform(r)
    BY <1>19, PerformStep DEF CallExecuted
  <2> QED BY <2>1 DEF Access!Next
<1>20. ASSUME NEW r \in Requests, LateCallExecuted(r) PROVE Kin
  <2>1. Access!Perform(r)
    BY <1>20, PerformStep DEF LateCallExecuted
  <2> QED BY <2>1 DEF Access!Next
<1>21. ASSUME NEW r \in Requests, LateCallDropped(r) PROVE Kin
  <2>1. UNCHANGED <<Permitted, Open, Asked, Standings, Outcomes, touched, stored>>
    BY <1>21, Kept DEF LateCallDropped
  <2>2. CASE r \in urls
    <3>1. UNCHANGED (late \cup urls)
      BY <1>21, <2>2 DEF LateCallDropped
    <3> QED BY <2>1, <3>1
  <2>3. CASE r \notin urls
    <3>1. (late \cup urls)' = (late \cup urls) \ {r} /\ r \in late \cup urls
      BY <1>21, <2>3 DEF LateCallDropped
    <3>2. Access!Settle(r)
      BY <2>1, <3>1 DEF Access!Settle
    <3> QED BY <3>2 DEF Access!Next
  <2> QED BY <2>2, <2>3
<1>22. ASSUME NEW r \in Requests, UrlUsed(r) PROVE Kin
  <2>1. Access!Perform(r)
    BY <1>22, PerformStep DEF UrlUsed
  <2> QED BY <2>1 DEF Access!Next
<1>23. ASSUME NEW r \in Requests, UrlExpires(r) PROVE Kin
  <2>1. UNCHANGED <<Permitted, Open, Asked, Standings, Outcomes, touched, stored>>
    BY <1>23, Kept DEF UrlExpires
  <2>2. CASE r \in late
    <3>1. UNCHANGED (late \cup urls)
      BY <1>23, <2>2 DEF UrlExpires
    <3> QED BY <2>1, <3>1
  <2>3. CASE r \notin late
    <3>1. (late \cup urls)' = (late \cup urls) \ {r} /\ r \in late \cup urls
      BY <1>23, <2>3 DEF UrlExpires
    <3>2. Access!Settle(r)
      BY <2>1, <3>1 DEF Access!Settle
    <3> QED BY <3>2 DEF Access!Next
  <2> QED BY <2>2, <2>3
<1>24. ASSUME NEW r \in Requests, AttemptResent(r) PROVE Kin
  <2>1. phase[r] = "send" /\ Standings[r] = "admitted" /\ Outcomes[r] = "none"
    BY <1>24, Standing DEF AttemptResent, Running, Phases, Selected
  <2>2. Asked[r] # NoRow
    BY <2>1, WishTyped
  <2>3. UNCHANGED <<Permitted, Open, Asked, Standings, Outcomes, touched, stored>>
    BY <1>24, Kept DEF AttemptResent
  <2>4. CASE late' = late
    BY <1>24, <2>3, <2>4 DEF AttemptResent
  <2>5. CASE late' = late \cup {r}
    <3>1. (late \cup urls)' = (late \cup urls) \cup {r}
      BY <1>24, <2>5 DEF AttemptResent
    <3>2. Access!LetLoose(r)
      BY <2>1, <2>2, <2>3, <3>1 DEF Access!LetLoose, Access!Waits
    <3> QED BY <3>2 DEF Access!Next
  <2> QED BY <1>24, <2>4, <2>5 DEF AttemptResent
<1>25. CASE UNCHANGED vars
  BY <1>25, Kept DEF vars
<1> HIDE DEF Kin
<1>26. Kin
  BY <1>1, <1>2, <1>3, <1>4, <1>5, <1>6, <1>7, <1>8, <1>9, <1>10, <1>11, <1>12, <1>13,
     <1>14, <1>15, <1>16, <1>17, <1>18, <1>19, <1>20, <1>21, <1>22, <1>23, <1>24, <1>25
     DEF Next, Handler, S3, Kin
<1> QED BY <1>26 DEF Kin

\* The service implements ObjectAccess: what holds of that short specification, for requests
\* that race with each other, with operators and with S3, holds of the handlers.
THEOREM RequestsImplementAccess == Spec => ImplementsAccess
<1>1. Init => Access!Init /\ StageInv
  <2> SUFFICES ASSUME Init PROVE Access!Init /\ StageInv
    OBVIOUS
  <2>1. Permitted \in SUBSET Questions /\ Open \in SUBSET (Scopes \X Buckets)
    BY DEF Permitted, Open
  <2>2. Asked = [r \in Requests |-> NoRow]
    BY DEF Init, Asked
  <2>3. /\ Standings = [r \in Requests |-> "asking"]
        /\ Outcomes = [r \in Requests |-> "none"]
    BY DEF Init, Standings, Stage, Outcomes, OutcomeOf
  <2>4. late \cup urls = {} /\ touched = {} /\ stored \in [Buckets \X Keys -> Requests \cup {Absent, Initial}]
    BY DEF Init
  <2>5. StageInv
    BY DEF Init, StageInv
  <2> QED BY <2>1, <2>2, <2>3, <2>4, <2>5 DEF Access!Init
<1>2. Inv /\ StageInv /\ [Next]_vars => StageInv'
  BY StageStep DEF Inv
<1>3. Inv /\ StageInv /\ [Next]_vars => [Access!Next]_(Access!accessVars)
  BY AccessStep
<1> QED BY <1>1, <1>2, <1>3, InvHolds, PTL DEF Spec, ImplementsAccess, Access!Spec
-----------------------------------------------------------------------------
(* What the buckets hold after an acknowledgement.                         *)

\* Neither the service nor the SDK repeated the call.
SentOnce(r) == attempt[r] <= 1 /\ r \notin resent

\* A write is acknowledged after it was executed, and a first attempt that is acknowledged,
\* and was not repeated by the SDK, left nothing behind; what was answered when another request arrived stays so.
AckInv ==
    \A r \in Requests :
        /\ Acknowledged(r) /\ form[r].op \in {"upload", "delete"} => r \in touched
        /\ (phase[r] = "send" \/ Acknowledged(r)) /\ form[r].op = "upload" /\ SentOnce(r) =>
            r \notin late \cup urls
        /\ phase[r] \in {"send", "backoff"} => attempt[r] >= 1
        /\ \A q \in after[r] : Acknowledged(q)

\* The only writer of an object that was executed is what the bucket has.
HeldInv ==
    \A r \in touched :
        /\ form[r].op \in {"upload", "delete"}
        /\ \A q \in touched \ {r} : Object(q) = Object(r) => ~Writes(q)
        => stored[Object(r)] = IF form[r].op = "upload" THEN r ELSE Absent

\* Once a delete was executed, an upload that had been acknowledged before is gone for good.
GoneInv ==
    \A d \in touched : \A r \in after[d] :
        /\ form[r].op = "upload" /\ SentOnce(r)
        /\ form[d].op = "delete" /\ Object(r) = Object(d)
        => stored[Object(r)] # r

EffectInv == StageInv /\ AckInv /\ HeldInv /\ GoneInv

\* A step of one request that is not acknowledged and sends nothing.
LEMMA AckKept ==
    ASSUME TypeOK, AckInv, NEW r \in Requests, ~Acknowledged(r),
           UNCHANGED <<form, attempt, touched, late, urls, after, resent>>,
           \A q \in Requests \ {r} : phase'[q] = phase[q] /\ answer'[q] = answer[q],
           phase'[r] \notin {"send", "backoff"}, answer'[r] \notin {"200", "201"}
    PROVE  AckInv'
BY DEF TypeOK, AckInv, Acknowledged, SentOnce

LEMMA AckStep ==
    ASSUME TypeOK, FormInv, FlowInv, StageInv, AckInv, [Next]_vars
    PROVE  AckInv'
<1> USE DEF TypeOK, FormInv, FlowInv, NothingOut, StageInv, AckInv, Acknowledged, SentOnce, Goto, Reply, world
<1>1. ASSUME Administer PROVE AckInv'
  BY <1>1 DEF Administer
<1>2. ASSUME Killed PROVE AckInv'
  BY <1>2 DEF Killed, Running
<1>3. ASSUME NEW r \in Requests, Arrive(r) PROVE AckInv'
  BY <1>3 DEF Arrive
<1>4. ASSUME NEW r \in Requests, Authorize(r) PROVE AckInv'
  <2>1. UNCHANGED <<form, attempt, touched, late, urls, after, resent>> /\ ~Acknowledged(r)
    BY <1>4 DEF Authorize
  <2>2. \A q \in Requests \ {r} : phase'[q] = phase[q] /\ answer'[q] = answer[q]
    BY ONLY TypeOK, <1>4, r \in Requests DEF Authorize, Goto, Reply, TypeOK
  <2>3. phase'[r] \notin {"send", "backoff"} /\ answer'[r] \notin {"200", "201"}
    BY <1>4 DEF Authorize
  <2> QED BY <2>1, <2>2, <2>3, AckKept
<1>5. ASSUME NEW r \in Requests, DecodeBody(r) PROVE AckInv'
  <2>1. UNCHANGED <<form, attempt, touched, late, urls, after, resent>> /\ ~Acknowledged(r)
    BY <1>5 DEF DecodeBody
  <2>2. \A q \in Requests \ {r} : phase'[q] = phase[q] /\ answer'[q] = answer[q]
    BY ONLY TypeOK, <1>5, r \in Requests DEF DecodeBody, Goto, Reply, TypeOK
  <2>3. phase'[r] \notin {"send", "backoff"} /\ answer'[r] \notin {"200", "201"}
    BY <1>5 DEF DecodeBody
  <2> QED BY <2>1, <2>2, <2>3, AckKept
<1>6. ASSUME NEW r \in Requests, LookupFails(r) PROVE AckInv'
  <2>1. UNCHANGED <<form, attempt, touched, late, urls, after, resent>> /\ ~Acknowledged(r)
    BY <1>6 DEF LookupFails
  <2>2. \A q \in Requests \ {r} : phase'[q] = phase[q] /\ answer'[q] = answer[q]
    BY ONLY TypeOK, <1>6, r \in Requests DEF LookupFails, Goto, Reply, TypeOK
  <2>3. phase'[r] \notin {"send", "backoff"} /\ answer'[r] \notin {"200", "201"}
    BY <1>6 DEF LookupFails
  <2> QED BY <2>1, <2>2, <2>3, AckKept
<1>7. ASSUME NEW r \in Requests, BucketNotFound(r) PROVE AckInv'
  <2>1. UNCHANGED <<form, attempt, touched, late, urls, after, resent>> /\ ~Acknowledged(r)
    BY <1>7 DEF BucketNotFound
  <2>2. \A q \in Requests \ {r} : phase'[q] = phase[q] /\ answer'[q] = answer[q]
    BY ONLY TypeOK, <1>7, r \in Requests DEF BucketNotFound, Goto, Reply, TypeOK
  <2>3. phase'[r] \notin {"send", "backoff"} /\ answer'[r] \notin {"200", "201"}
    BY <1>7 DEF BucketNotFound
  <2> QED BY <2>1, <2>2, <2>3, AckKept
<1>8. ASSUME NEW r \in Requests, BucketSelected(r) PROVE AckInv'
  <2>1. UNCHANGED <<form, attempt, touched, late, urls, after, resent>> /\ ~Acknowledged(r)
    BY <1>8 DEF BucketSelected
  <2>2. \A q \in Requests \ {r} : phase'[q] = phase[q] /\ answer'[q] = answer[q]
    BY ONLY TypeOK, <1>8, r \in Requests DEF BucketSelected, Goto, Reply, TypeOK
  <2>3. phase'[r] \notin {"send", "backoff"} /\ answer'[r] \notin {"200", "201"}
    BY <1>8 DEF BucketSelected
  <2> QED BY <2>1, <2>2, <2>3, AckKept
<1>9. ASSUME NEW r \in Requests, Guard(r) PROVE AckInv'
  <2>1. UNCHANGED <<form, attempt, touched, late, urls, after, resent>> /\ ~Acknowledged(r)
    BY <1>9 DEF Guard
  <2>2. \A q \in Requests \ {r} : phase'[q] = phase[q] /\ answer'[q] = answer[q]
    BY ONLY TypeOK, <1>9, r \in Requests DEF Guard, Goto, Reply, TypeOK
  <2>3. phase'[r] \notin {"send", "backoff"} /\ answer'[r] \notin {"200", "201"}
    BY <1>9, ZenonT(40) DEF Guard
  <2> QED BY <2>1, <2>2, <2>3, AckKept
<1>10. ASSUME NEW r \in Requests, SessionFails(r) PROVE AckInv'
  <2>1. UNCHANGED <<form, attempt, touched, late, urls, after, resent>> /\ ~Acknowledged(r)
    BY <1>10 DEF SessionFails
  <2>2. \A q \in Requests \ {r} : phase'[q] = phase[q] /\ answer'[q] = answer[q]
    BY ONLY TypeOK, <1>10, r \in Requests DEF SessionFails, Goto, Reply, TypeOK
  <2>3. phase'[r] \notin {"send", "backoff"} /\ answer'[r] \notin {"200", "201"}
    BY <1>10 DEF SessionFails
  <2> QED BY <2>1, <2>2, <2>3, AckKept
<1>11. ASSUME NEW r \in Requests, SignUrl(r) PROVE AckInv'
  BY <1>11 DEF SignUrl
<1>12. ASSUME NEW r \in Requests, FirstCall(r) PROVE AckInv'
  BY <1>12 DEF FirstCall
<1>13. ASSUME NEW r \in Requests, CallSucceeds(r) PROVE AckInv'
  BY <1>13 DEF CallSucceeds
<1>14. ASSUME NEW r \in Requests, CallFindsNoKey(r) PROVE AckInv'
  <2>1. r \in touched
    <3>1. Absent # "none" /\ result[r] = Absent
      BY <1>14, RequestsAssumption DEF CallFindsNoKey
    <3> QED BY <3>1
  <2>2. /\ UNCHANGED <<form, attempt, touched, late, urls, after, resent>>
        /\ form[r].op # "upload" /\ phase'[r] = "done"
    BY ONLY TypeOK, <1>14, r \in Requests DEF CallFindsNoKey, Reply, TypeOK, world
  <2>3. \A q \in Requests \ {r} : phase'[q] = phase[q] /\ answer'[q] = answer[q]
    BY ONLY TypeOK, <1>14, r \in Requests DEF CallFindsNoKey, Goto, Reply, TypeOK
  <2>4. answer[r] = "none"
    BY <1>14 DEF CallFindsNoKey
  <2> HIDE DEF TypeOK, FormInv, FlowInv, StageInv, Goto, Reply
  <2> QED BY <2>1, <2>2, <2>3, <2>4 DEF TypeOK
<1>15. ASSUME NEW r \in Requests, CallFails(r) PROVE AckInv'
  BY <1>15 DEF CallFails
<1>16. ASSUME NEW r \in Requests, Wake(r) PROVE AckInv'
  BY <1>16 DEF Wake
<1>17. ASSUME NEW r \in Requests, SleepInterrupted(r) PROVE AckInv'
  BY <1>17 DEF SleepInterrupted
<1>18. ASSUME NEW r \in Requests, ClientHangsUp(r) PROVE AckInv'
  BY <1>18 DEF ClientHangsUp
<1>19. ASSUME NEW r \in Requests, CallExecuted(r) PROVE AckInv'
  BY <1>19 DEF CallExecuted, Execute
<1>20. ASSUME NEW r \in Requests, LateCallExecuted(r) PROVE AckInv'
  BY <1>20 DEF LateCallExecuted, Execute
<1>21. ASSUME NEW r \in Requests, LateCallDropped(r) PROVE AckInv'
  BY <1>21 DEF LateCallDropped
<1>22. ASSUME NEW r \in Requests, UrlUsed(r) PROVE AckInv'
  BY <1>22 DEF UrlUsed, Execute
<1>23. ASSUME NEW r \in Requests, UrlExpires(r) PROVE AckInv'
  BY <1>23 DEF UrlExpires
<1>24. ASSUME NEW r \in Requests, AttemptResent(r) PROVE AckInv'
  BY <1>24 DEF AttemptResent
<1>25. CASE UNCHANGED vars
  BY <1>25 DEF vars
<1> QED
  BY <1>1, <1>2, <1>3, <1>4, <1>5, <1>6, <1>7, <1>8, <1>9, <1>10, <1>11, <1>12, <1>13,
     <1>14, <1>15, <1>16, <1>17, <1>18, <1>19, <1>20, <1>21, <1>22, <1>23, <1>24, <1>25
     DEF Next, Handler, S3

\* A step that executes nothing, brings no form and no attempt back: what buckets hold stays explained.
LEMMA NothingExecuted ==
    ASSUME HeldInv, GoneInv, UNCHANGED <<form, stored, touched, after>>,
           \A d \in touched : \A q \in after[d] : SentOnce(q)' => SentOnce(q)
    PROVE  HeldInv' /\ GoneInv'
<1>1. \A r : Object(r)' = Object(r) /\ Writes(r)' = Writes(r)
  BY DEF Object, Writes
<1>2. HeldInv'
  BY <1>1 DEF HeldInv
<1>3. GoneInv'
  BY <1>1 DEF GoneInv
<1> QED BY <1>2, <1>3

\* Executing request x, which is under way or left something outside.
LEMMA SomethingExecuted ==
    ASSUME TypeOK, FormInv, FlowInv, AckInv, HeldInv, GoneInv,
           NEW x \in Requests, Execute(x),
           phase[x] = "send" \/ x \in late \/ x \in urls,
           UNCHANGED <<form, after, attempt, resent>>
    PROVE  HeldInv' /\ GoneInv'
<1> DEFINE Stores(q) == form[q].op \in {"upload", "presignPut"}
<1>1. \A q : Object(q)' = Object(q) /\ Writes(q)' = Writes(q)
  BY DEF Object, Writes
<1>2. touched' = touched \cup {x} /\ touched \subseteq Requests
  BY DEF Execute, TypeOK
<1>3. \A q \in touched : Object(q) \in Buckets \X Keys
  BY FormTyped DEF FlowInv, NothingOut, TypeOK
<1>4. Object(x) \in Buckets \X Keys
  BY FormTyped
<1>5. /\ Stores(x) => stored'[Object(x)] = x
      /\ form[x].op = "delete" => stored'[Object(x)] = Absent
      /\ \A o \in Buckets \X Keys : o # Object(x) \/ ~Writes(x) => stored'[o] = stored[o]
  <2>1. CASE Stores(x)
    BY <1>4, <2>1 DEF Execute, Writes, TypeOK
  <2>2. CASE form[x].op = "delete"
    BY <1>4, <2>2 DEF Execute, Writes, TypeOK
  <2>3. CASE ~Stores(x) /\ form[x].op # "delete"
    BY <2>3 DEF Execute, Writes
  <2> QED BY <2>1, <2>2, <2>3
<1>6. HeldInv'
  <2> SUFFICES ASSUME NEW r \in touched', form[r].op \in {"upload", "delete"},
                      \A q \in touched' \ {r} : Object(q) = Object(r) => ~Writes(q)
               PROVE  stored'[Object(r)] = IF form[r].op = "upload" THEN r ELSE Absent
    BY <1>1 DEF HeldInv
  <2>1. CASE r = x
    BY <2>1, <1>5
  <2>2. CASE r # x
    <3>1. r \in touched /\ \A q \in touched \ {r} : Object(q) = Object(r) => ~Writes(q)
      BY <1>2, <2>2
    <3>2. Object(r) # Object(x) \/ ~Writes(x)
      BY <1>2, <2>2
    <3>3. stored'[Object(r)] = stored[Object(r)]
      BY <1>3, <1>5, <3>1, <3>2
    <3> QED BY <3>1, <3>3 DEF HeldInv
  <2> QED BY <2>1, <2>2
<1>7. GoneInv'
  <2> SUFFICES ASSUME NEW d \in touched', NEW r \in after[d],
                      form[r].op = "upload", SentOnce(r), form[d].op = "delete", Object(r) = Object(d)
               PROVE  stored'[Object(r)] # r
    BY <1>1 DEF GoneInv, SentOnce
  <2>1. d \in Requests /\ r \in Requests /\ Acknowledged(r)
    BY <1>2 DEF TypeOK, AckInv
  <2>2. r # x
    <3>1. r \notin late \cup urls
      BY <2>1 DEF AckInv
    <3>2. phase[r] # "send"
      BY <2>1 DEF FormInv, Acknowledged
    <3> QED BY <3>1, <3>2
  <2>3. CASE Object(x) = Object(r) /\ Writes(x)
    BY <2>1, <2>2, <2>3, <1>5, RequestsAssumption DEF Writes
  <2>4. CASE Object(x) # Object(r) \/ ~Writes(x)
    <3>1. d # x
      BY <2>4 DEF Writes
    <3>2. d \in touched
      BY <1>2, <3>1
    <3>3. stored'[Object(r)] = stored[Object(r)]
      BY <1>3, <1>5, <2>4, <3>2
    <3> QED BY <3>2, <3>3 DEF GoneInv
  <2> QED BY <2>3, <2>4
<1> QED BY <1>6, <1>7

LEMMA EffectStep ==
    ASSUME TypeOK, FormInv, FlowInv, AckInv, HeldInv, GoneInv, [Next]_vars
    PROVE  HeldInv' /\ GoneInv'
<1> USE DEF TypeOK, world
<1>1. ASSUME Administer \/ Killed PROVE HeldInv' /\ GoneInv'
  BY <1>1, NothingExecuted DEF Administer, Killed, SentOnce
<1>2. ASSUME NEW r \in Requests, Arrive(r) PROVE HeldInv' /\ GoneInv'
  <2>1. \A q \in Requests \ {r} : form'[q] = form[q] /\ after'[q] = after[q]
    BY <1>2 DEF Arrive
  <2>2. r \notin touched /\ touched \subseteq Requests /\ UNCHANGED <<touched, stored, attempt, resent>>
    BY <1>2 DEF Arrive, FlowInv, NothingOut
  <2>3. \A d \in touched : after[d] \subseteq Requests \ {r}
    BY <1>2 DEF Arrive, AckInv, FormInv, Acknowledged
  <2>4. \A q \in Requests \ {r} : Object(q)' = Object(q) /\ Writes(q)' = Writes(q)
    BY <2>1 DEF Object, Writes
  <2>5. HeldInv'
    BY <2>1, <2>2, <2>4 DEF HeldInv
  <2>6. GoneInv'
    BY <2>1, <2>2, <2>3, <2>4 DEF GoneInv, SentOnce
  <2> QED BY <2>5, <2>6
<1>3. ASSUME NEW r \in Requests, FirstCall(r) \/ Wake(r) PROVE HeldInv' /\ GoneInv'
  <2>1. UNCHANGED <<form, stored, touched, after>>
    BY <1>3 DEF FirstCall, Wake
  <2>2. \A q \in Requests \ {r} : SentOnce(q)' = SentOnce(q)
    BY <1>3 DEF FirstCall, Wake, SentOnce
  <2>3. \A d \in touched : after[d] \subseteq Requests \ {r}
    BY <1>3 DEF FirstCall, Wake, AckInv, FormInv, Acknowledged
  <2> QED BY <2>1, <2>2, <2>3, NothingExecuted
<1>4. ASSUME NEW r \in Requests, CallExecuted(r) \/ LateCallExecuted(r) \/ UrlUsed(r) PROVE HeldInv' /\ GoneInv'
  BY <1>4, SomethingExecuted DEF CallExecuted, LateCallExecuted, UrlUsed
<1>5. ASSUME NEW r \in Requests, Authorize(r) \/ DecodeBody(r) \/ LookupFails(r) \/ BucketNotFound(r) \/ BucketSelected(r)
      PROVE  HeldInv' /\ GoneInv'
  BY <1>5, NothingExecuted DEF Authorize, DecodeBody, LookupFails, BucketNotFound, BucketSelected, SentOnce
<1>6. ASSUME NEW r \in Requests, Guard(r) \/ SessionFails(r) \/ SignUrl(r) \/ CallSucceeds(r) \/ CallFindsNoKey(r)
      PROVE  HeldInv' /\ GoneInv'
  BY <1>6, NothingExecuted DEF Guard, SessionFails, SignUrl, CallSucceeds, CallFindsNoKey, SentOnce
<1>7. ASSUME NEW r \in Requests,
             CallFails(r) \/ SleepInterrupted(r) \/ ClientHangsUp(r) \/ LateCallDropped(r) \/ UrlExpires(r) \/ AttemptResent(r)
      PROVE  HeldInv' /\ GoneInv'
  BY <1>7, NothingExecuted DEF CallFails, SleepInterrupted, ClientHangsUp, LateCallDropped, UrlExpires, AttemptResent, SentOnce
<1>8. CASE UNCHANGED vars
  BY <1>8, NothingExecuted DEF vars, SentOnce
<1> QED BY <1>1, <1>2, <1>3, <1>4, <1>5, <1>6, <1>7, <1>8 DEF Next, Handler, S3

\* The invariant of the effects, on top of the other one.
LEMMA EffectsHold == Spec => []EffectInv
<1>1. Init => EffectInv
  <2>1. Init => StageInv /\ HeldInv /\ GoneInv
    BY DEF Init, StageInv, HeldInv, GoneInv
  <2>2. Init => AckInv
    BY DEF Init, AckInv, Acknowledged
  <2> QED BY <2>1, <2>2 DEF EffectInv
<1>2. Inv /\ EffectInv /\ [Next]_vars => EffectInv'
  BY StageStep, AckStep, EffectStep DEF Inv, EffectInv
<1> QED BY <1>1, <1>2, InvHolds, PTL DEF Spec

\* Whatever was retried, given up or lost on the way: the only write of its object that was
\* ever executed is what the bucket has once it is acknowledged.
THEOREM AcknowledgedIsStored == Spec => []AcknowledgedWritesHold
<1>1. Inv /\ EffectInv => AcknowledgedWritesHold
  BY DEF EffectInv, AckInv, HeldInv, AcknowledgedWritesHold
<1> QED BY <1>1, InvHolds, EffectsHold, PTL

\* An upload that was acknowledged at its first attempt, and that the SDK sent once, does not
\* come back after a later delete.
THEOREM DeletesStick == Spec => []DeletedStaysDeleted
<1>1. ASSUME Inv, EffectInv PROVE DeletedStaysDeleted
  <2> SUFFICES ASSUME NEW r \in Requests, NEW d \in Requests,
                      form[r].op = "upload", form[d].op = "delete", answer[d] = "200",
                      r \in after[d], Object(r) = Object(d), stored[Object(r)] = r
               PROVE  attempt[r] > 1 \/ r \in resent
    BY DEF DeletedStaysDeleted
  <2>1. d \in touched
    BY <1>1 DEF EffectInv, AckInv, Acknowledged
  <2>2. ~SentOnce(r)
    BY <1>1, <2>1 DEF EffectInv, GoneInv
  <2>3. attempt[r] \in Nat
    BY <1>1 DEF Inv, TypeOK, DefaultMaxAttempts
  <2> QED BY <2>2, <2>3 DEF SentOnce
<1> QED BY <1>1, InvHolds, EffectsHold, PTL

=============================================================================
