------------------------- MODULE BucketAdminProofs -------------------------
(***************************************************************************)
(* Proofs about BucketAdmin for any requests, forms, scopes and tables and *)
(* any number of changes by owners and operators.                          *)
(*                                                                         *)
(* The invariant ties the statement of a request to where its handler      *)
(* stands (FlowInv), what it has found of the baseline to what was there   *)
(* to be found (BaselineInv), an insert that was applied to the row it     *)
(* left (RowInv), a listing to the tables it passes (ListInv) and an       *)
(* upsert to the connection it found (FoundInv).                           *)
(***************************************************************************)
EXTENDS BucketAdmin, TLAPS

Key(r) == <<form[r].scope, form[r].bucket>>

Created(r) == statement[r] = "applied" /\ form[r].kind = "connection"

\* What is known of a statement from the phase of its handler.
FlowInv ==
    \A r \in Requests :
        /\ phase[r] \in {"idle", "session", "baseline", "400", "403"} => statement[r] = "none"
        /\ phase[r] \in {"session", "baseline"} => form[r].kind = "connection"
        /\ phase[r] \in {"idle", "session"} => next[r] = 1 /\ reasons[r] = {}
        /\ phase[r] = "statement" => statement[r] \notin {"none", "lost"}
        /\ phase[r] \in {"404", "409"} => statement[r] \in {"conflict", "no_row"}
        /\ phase[r] = "201" => Created(r)
        /\ phase[r] = "200" => statement[r] = "applied"
        /\ statement[r] \in {"sent", "found"} => phase[r] \in {"statement", "500"}
        /\ statement[r] = "found" => form[r].kind = "policy"

\* A setting was right at one moment, or is a reason.
BaselineInv ==
    \A r \in Requests :
        /\ phase[r] \in {"session", "baseline"} =>
            /\ settings[form[r].bucket] \subseteq met[r]
            /\ \A i \in DOMAIN Checks : i < next[r] => Checks[i] \in met[r] \cup reasons[r]
        /\ statement[r] # "none" /\ form[r].kind = "connection" => Settings \subseteq met[r]

\* An insert that was applied has its row, alone.
RowInv ==
    \A r \in Requests :
        Created(r) =>
            /\ connections[Key(r)] # NoRow
            /\ connections[Key(r)].prefixes = form[r].prefixes
            /\ \A q \in Requests \ {r} : Created(q) => Key(q) # Key(r)

\* A listing on its way lies between what was active all the time and what was at some.
ListInv ==
    \A r \in Requests :
        form[r].kind = "list" =>
            /\ phase[r] = "statement" =>
                /\ throughout[r] \subseteq ActiveBuckets[form[r].scope]
                /\ ActiveBuckets[form[r].scope] \subseteq once[r]
            /\ phase[r] \in {"statement", "200"} /\ statement[r] = "applied" =>
                throughout[r] \subseteq shown[r] /\ shown[r] \subseteq once[r]

\* An upsert that has its connection found it in force; one that looks for it saw
\* whatever has been in force since its request arrived.
FoundInv ==
    \A r \in Requests :
        form[r].kind = "policy" =>
            /\ statement[r] # "none" => form[r].admin
            /\ statement[r] = "sent" => ActiveBuckets[form[r].scope] \subseteq once[r]
            /\ statement[r] = "found" => form[r].bucket \in once[r]

Inv == TypeOK /\ FlowInv /\ BaselineInv /\ RowInv /\ ListInv /\ FoundInv

-----------------------------------------------------------------------------
\* The tables keep their types.
LEMMA InsertTyped ==
    ASSUME connections \in ConnectionTables, policies \in PolicyTables,
           NEW s \in Scopes, NEW b \in Buckets, NEW ps \in SUBSET Prefixes, InsertConnection(s, b, ps)
    PROVE  /\ connections' \in ConnectionTables /\ policies' = policies
           /\ connections[<<s, b>>] = NoRow
           /\ connections'[<<s, b>>] # NoRow /\ connections'[<<s, b>>].prefixes = ps
           /\ \A x \in (Scopes \X Buckets) \ {<<s, b>>} : connections'[x] = connections[x]
<1> DEFINE row == [active |-> TRUE, prefixes |-> ps]
<1>1. row \in ConnectionRows /\ row.prefixes = ps
  BY DEF ConnectionRows
<1>2. row # NoRow
  BY <1>1, AccessAssumption
<1>3. connections' = [connections EXCEPT ![<<s, b>>] = row] /\ <<s, b>> \in Scopes \X Buckets
  BY DEF InsertConnection
<1> HIDE DEF row
<1> QED BY <1>1, <1>2, <1>3, ZenonT(40) DEF InsertConnection, ConnectionTables

LEMMA WriteTyped ==
    ASSUME connections \in ConnectionTables, policies \in PolicyTables,
           NEW s \in Scopes, NEW b \in Buckets, NEW p \in Principals, NEW row \in PolicyRows,
           WritePolicy(s, b, p, row)
    PROVE  connections' = connections /\ policies' \in PolicyTables
BY DEF WritePolicy, PolicyTables

LEMMA ToggleTyped ==
    ASSUME connections \in ConnectionTables, NEW s \in Scopes, NEW b \in Buckets, ToggleConnection(s, b)
    PROVE  /\ connections' \in ConnectionTables /\ policies' = policies
           /\ \A x \in Scopes \X Buckets :
                /\ connections[x] # NoRow <=> connections'[x] # NoRow
                /\ connections[x] # NoRow => connections'[x].prefixes = connections[x].prefixes
<1> DEFINE row == [connections[<<s, b>>] EXCEPT !.active = ~@]
<1>1. connections[<<s, b>>] \in ConnectionRows
  BY DEF ToggleConnection, ConnectionTables
<1>2. row \in ConnectionRows /\ row.prefixes = connections[<<s, b>>].prefixes /\ row # NoRow
  BY <1>1, AccessAssumption DEF ConnectionRows
<1>3. connections' = [connections EXCEPT ![<<s, b>>] = row]
  BY DEF ToggleConnection
<1> HIDE DEF row
<1> QED BY <1>1, <1>2, <1>3 DEF ToggleConnection, ConnectionTables

\* What a form asks to be written is fit for the tables, unless it brings no list.
LEMMA FormTyped ==
    ASSUME TypeOK, NEW r \in Requests
    PROVE  /\ form[r].scope \in Scopes /\ form[r].bucket \in Buckets /\ form[r].principal \in Principals
           /\ form[r].kind \in {"connection", "policy", "list"}
           /\ form[r].prefixes # NoList => form[r].prefixes \in SUBSET Prefixes
           /\ form[r].prefixes # NoList => [can |-> form[r].can, prefixes |-> form[r].prefixes] \in PolicyRows
<1>1. form[r] \in FormShapes
  BY AdminAssumption DEF TypeOK
<1> QED BY <1>1 DEF FormShapes, PolicyRows

LEMMA ObserveTyped ==
    ASSUME TypeOK, Observe
    PROVE  once' \in [Requests -> SUBSET Buckets] /\ throughout' \in [Requests -> SUBSET Buckets]
<1>1. \A r \in Requests : ActiveBuckets'[form[r].scope] \subseteq Buckets
  BY FormTyped DEF ActiveBuckets
<1> QED BY <1>1 DEF Observe, TypeOK

LEMMA ActiveTyped == \A s \in Scopes : ActiveBuckets[s] \subseteq Buckets
BY DEF ActiveBuckets

\* What the database makes of a statement, and of an upsert that has its connection.
LEMMA ExecuteTyped ==
    ASSUME TypeOK, NEW r \in Requests, Execute(r)
    PROVE  /\ connections' \in ConnectionTables /\ policies' = policies
           /\ shown' \in [Requests -> SUBSET Buckets]
           /\ \E o \in {"applied", "conflict", "no_row", "null", "found"} :
                Outcome(r, o) /\ (o = "found" => form[r].kind = "policy")
<1> USE FormTyped DEF TypeOK
<1>1. CASE ExecuteInsert(r)
  <2>1. connections' \in ConnectionTables /\ policies' = policies
    BY <1>1, InsertTyped DEF ExecuteInsert
  <2>2. UNCHANGED shown
    BY <1>1 DEF Execute, ExecuteInsert, ExecuteQuery
  <2>3. Outcome(r, "applied") \/ Outcome(r, "conflict") \/ Outcome(r, "null")
    BY <1>1 DEF ExecuteInsert
  <2> QED BY <2>1, <2>2, <2>3
<1>2. CASE FindConnection(r)
  <2>1. UNCHANGED <<connections, policies, shown>> /\ form[r].kind = "policy"
    BY <1>2 DEF Execute, FindConnection, ExecuteQuery
  <2>2. Outcome(r, "found") \/ Outcome(r, "no_row")
    BY <1>2 DEF FindConnection
  <2> QED BY <2>1, <2>2
<1>3. CASE ExecuteQuery(r)
  BY <1>3, ActiveTyped DEF ExecuteQuery
<1> QED BY <1>1, <1>2, <1>3 DEF Execute

LEMMA WriteFoundTyped ==
    ASSUME TypeOK, NEW r \in Requests, WriteFound(r)
    PROVE  /\ connections' = connections /\ policies' \in PolicyTables
           /\ Outcome(r, "applied") \/ Outcome(r, "null")
BY FormTyped, WriteTyped DEF TypeOK, WriteFound

LEMMA ChecksAre == DOMAIN Checks = 1 .. 3 /\ Len(Checks) = 3
BY DEF Checks

\* A statement that returned has its answer.
LEMMA AnswersTyped ==
    ASSUME TypeOK, FlowInv, NEW r \in Requests, phase[r] = "statement", statement[r] \notin {"sent", "found"}
    PROVE  /\ AnswerOf(r) \in Answers \ {"400", "403"}
           /\ AnswerOf(r) = "200" => statement[r] = "applied"
<1>1. statement[r] \in {"applied", "conflict", "no_row", "null"}
  BY DEF TypeOK, Statements, FlowInv
<1> QED BY <1>1 DEF AnswerOf, Answers

\* As long as the connections stay, so do those in force.
LEMMA ActiveKept == ASSUME connections' = connections PROVE ActiveBuckets' = ActiveBuckets
BY DEF ActiveBuckets, ActiveBucket

\* Every variable keeps its type.
LEMMA TypeStep ==
    ASSUME TypeOK, FlowInv, [Next]_vars
    PROVE  TypeOK'
<1> USE DEF TypeOK, Phases, Answers, Statements, Settings, Goto, At, requests, listings
<1>1. ASSUME NEW r \in Requests, ArriveConnection(r) PROVE TypeOK'
  BY <1>1, FormTyped DEF ArriveConnection, Watch
<1>2. ASSUME NEW r \in Requests, ArrivePolicy(r) PROVE TypeOK'
  BY <1>2, ActiveTyped, FormTyped DEF ArrivePolicy, Watch, Send
<1>3. ASSUME NEW r \in Requests, ArriveList(r) PROVE TypeOK'
  BY <1>3, ActiveTyped, FormTyped DEF ArriveList, Send
<1>4. ASSUME NEW r \in Requests, SessionReady(r) PROVE TypeOK'
  BY <1>4 DEF SessionReady
<1>5. ASSUME NEW r \in Requests, ReadSetting(r) PROVE TypeOK'
  BY <1>5 DEF ReadSetting, Checks
<1>6. ASSUME NEW r \in Requests, ValidationFails(r) PROVE TypeOK'
  BY <1>6 DEF ValidationFails
<1>7. ASSUME NEW r \in Requests, Verdict(r) PROVE TypeOK'
  BY <1>7 DEF Verdict, Send
<1>8. ASSUME NEW r \in Requests, StatementReturns(r) PROVE TypeOK'
  <2>1. AnswerOf(r) \in Phases
    BY <1>8, AnswersTyped DEF StatementReturns
  <2> QED BY <1>8, <2>1 DEF StatementReturns
<1>9. ASSUME NEW r \in Requests, StatementFails(r) PROVE TypeOK'
  BY <1>9 DEF StatementFails
<1>10. ASSUME NEW r \in Requests, Execute(r) PROVE TypeOK'
  BY <1>10, ExecuteTyped, ObserveTyped DEF Execute, Outcome
<1>11. ASSUME NEW r \in Requests, StatementLost(r) PROVE TypeOK'
  BY <1>11 DEF StatementLost, Outcome
<1>12. ASSUME OwnerChangesBucket PROVE TypeOK'
  <2>1. settings' \in [Buckets -> SUBSET Settings] /\ changes' \in 0 .. MaxChanges
    BY <1>12, AdminAssumption DEF OwnerChangesBucket
  <2>2. \A r \in Requests : settings'[form[r].bucket] \subseteq Settings
    BY <2>1, FormTyped
  <2>3. met' \in [Requests -> SUBSET Settings]
    BY <1>12, <2>2 DEF OwnerChangesBucket
  <2> QED BY <1>12, <2>1, <2>3 DEF OwnerChangesBucket
<1>13. ASSUME OperatorToggles PROVE TypeOK'
  <2>1. connections' \in ConnectionTables /\ policies' = policies
    BY <1>13, ToggleTyped DEF OperatorToggles
  <2>2. changes' \in 0 .. MaxChanges
    BY <1>13, AdminAssumption DEF OperatorToggles
  <2> QED BY <1>13, <2>1, <2>2, ObserveTyped DEF OperatorToggles
<1>14. CASE UNCHANGED vars
  BY <1>14 DEF vars, requests, listings
<1>15. ASSUME NEW r \in Requests, WriteFound(r) PROVE TypeOK'
  BY <1>15, WriteFoundTyped DEF WriteFound, Outcome
<1> QED
  BY <1>1, <1>2, <1>3, <1>4, <1>5, <1>6, <1>7, <1>8, <1>9, <1>10, <1>11, <1>12, <1>13, <1>14, <1>15
     DEF Next, Handler, Database

\* A handler and its statement.
LEMMA FlowStep ==
    ASSUME TypeOK, FlowInv, [Next]_vars
    PROVE  FlowInv'
<1> USE DEF TypeOK, FlowInv, Created, Goto, At, requests, listings
<1>1. ASSUME NEW r \in Requests, ArriveConnection(r) PROVE FlowInv'
  BY <1>1 DEF ArriveConnection, Watch
<1>2. ASSUME NEW r \in Requests, ArrivePolicy(r) PROVE FlowInv'
  BY <1>2 DEF ArrivePolicy, Send, Watch
<1>3. ASSUME NEW r \in Requests, ArriveList(r) PROVE FlowInv'
  BY <1>3 DEF ArriveList, Send
<1>4. ASSUME NEW r \in Requests, SessionReady(r) PROVE FlowInv'
  BY <1>4 DEF SessionReady
<1>5. ASSUME NEW r \in Requests, ReadSetting(r) PROVE FlowInv'
  BY <1>5 DEF ReadSetting
<1>6. ASSUME NEW r \in Requests, ValidationFails(r) PROVE FlowInv'
  BY <1>6 DEF ValidationFails
<1>7. ASSUME NEW r \in Requests, Verdict(r) PROVE FlowInv'
  BY <1>7 DEF Verdict, Send
<1>8. ASSUME NEW r \in Requests, StatementReturns(r) PROVE FlowInv'
  BY <1>8, FormTyped DEF StatementReturns, AnswerOf, Statements
<1>9. ASSUME NEW r \in Requests, StatementFails(r) PROVE FlowInv'
  BY <1>9 DEF StatementFails
<1>10. ASSUME NEW r \in Requests, Execute(r) PROVE FlowInv'
  <2>1. statement[r] = "sent" /\ UNCHANGED <<phase, form, next, reasons>>
    BY <1>10 DEF Execute
  <2>2. \A q \in Requests \ {r} : statement'[q] = statement[q]
    BY <1>10, ExecuteTyped DEF Outcome
  <2>3. /\ statement'[r] \in {"applied", "conflict", "no_row", "null", "found"}
        /\ statement'[r] = "found" => form[r].kind = "policy"
    BY <1>10, ExecuteTyped DEF Outcome
  <2> QED BY <2>1, <2>2, <2>3
<1>11. ASSUME NEW r \in Requests, StatementLost(r) PROVE FlowInv'
  BY <1>11 DEF StatementLost, Outcome
<1>12. ASSUME OwnerChangesBucket PROVE FlowInv'
  BY <1>12 DEF OwnerChangesBucket
<1>13. ASSUME OperatorToggles PROVE FlowInv'
  BY <1>13 DEF OperatorToggles
<1>14. CASE UNCHANGED vars
  BY <1>14 DEF vars, requests, listings
<1>15. ASSUME NEW r \in Requests, WriteFound(r) PROVE FlowInv'
  BY <1>15, WriteFoundTyped DEF WriteFound, Outcome
<1> QED
  BY <1>1, <1>2, <1>3, <1>4, <1>5, <1>6, <1>7, <1>8, <1>9, <1>10, <1>11, <1>12, <1>13, <1>14, <1>15
     DEF Next, Handler, Database

\* The reads of the baseline, while the owner changes the bucket.
LEMMA BaselineStep ==
    ASSUME TypeOK, FlowInv, BaselineInv, [Next]_vars
    PROVE  BaselineInv'
<1> USE DEF TypeOK, FlowInv, BaselineInv, Goto, At, requests, listings
<1>1. ASSUME NEW r \in Requests, ArriveConnection(r) PROVE BaselineInv'
  <2>1. settings[form[r].bucket] \subseteq Settings
    BY FormTyped, ZenonT(40)
  <2>2. met'[r] = settings[form[r].bucket] /\ next'[r] = 1 /\ statement'[r] = "none"
    BY <1>1 DEF ArriveConnection, Watch
  <2>3. \A i \in DOMAIN Checks : ~(i < next'[r])
    BY <2>2, ChecksAre
  <2> QED BY <1>1, <2>2, <2>3 DEF ArriveConnection, Watch
<1>2. ASSUME NEW r \in Requests, ArrivePolicy(r) PROVE BaselineInv'
  BY <1>2 DEF ArrivePolicy, Send, Watch
<1>3. ASSUME NEW r \in Requests, ArriveList(r) PROVE BaselineInv'
  BY <1>3 DEF ArriveList, Send
<1>4. ASSUME NEW r \in Requests, SessionReady(r) PROVE BaselineInv'
  BY <1>4 DEF SessionReady
<1>5. ASSUME NEW r \in Requests, ReadSetting(r) PROVE BaselineInv'
  <2>1. next[r] \in DOMAIN Checks /\ next'[r] = next[r] + 1 /\ met' = met
    BY <1>5 DEF ReadSetting
  <2>2. reasons[r] \subseteq reasons'[r] /\ Checks[next[r]] \in met[r] \cup reasons'[r]
    BY <1>5, <2>1 DEF ReadSetting
  <2>3. \A i \in DOMAIN Checks : i < next'[r] => i < next[r] \/ i = next[r]
    BY <2>1, ChecksAre
  <2>4. \A i \in DOMAIN Checks : i < next'[r] => Checks[i] \in met'[r] \cup reasons'[r]
    BY <1>5, <2>1, <2>2, <2>3 DEF ReadSetting
  <2>5. \A q \in Requests \ {r} : next'[q] = next[q] /\ reasons'[q] = reasons[q]
    BY <1>5 DEF ReadSetting
  <2> QED BY <1>5, <2>1, <2>4, <2>5 DEF ReadSetting
<1>6. ASSUME NEW r \in Requests, ValidationFails(r) PROVE BaselineInv'
  BY <1>6 DEF ValidationFails
<1>7. ASSUME NEW r \in Requests, Verdict(r) PROVE BaselineInv'
  <2>1. phase[r] = "baseline" /\ next[r] \notin DOMAIN Checks
    BY <1>7 DEF Verdict
  <2>2. \A i \in DOMAIN Checks : i < next[r]
    BY <2>1, ChecksAre
  <2>3. reasons[r] = {} => Settings \subseteq met[r]
    BY <2>1, <2>2 DEF Settings
  <2>4. phase'[r] \in {"400", "statement"} /\ (statement'[r] # "none" => reasons[r] = {})
    BY <1>7, <2>1 DEF Verdict, Send
  <2>5. \A q \in Requests \ {r} : phase'[q] = phase[q] /\ statement'[q] = statement[q]
    BY <1>7 DEF Verdict, Send
  <2> QED BY <1>7, <2>3, <2>4, <2>5 DEF Verdict
<1>8. ASSUME NEW r \in Requests, StatementReturns(r) PROVE BaselineInv'
  <2>1. phase'[r] \notin {"session", "baseline"}
    BY <1>8, AnswersTyped DEF StatementReturns, Answers
  <2> QED BY <1>8, <2>1 DEF StatementReturns
<1>9. ASSUME NEW r \in Requests, StatementFails(r) PROVE BaselineInv'
  BY <1>9 DEF StatementFails
<1>10. ASSUME NEW r \in Requests, Execute(r) PROVE BaselineInv'
  <2>1. statement[r] = "sent" /\ UNCHANGED <<phase, form, next, reasons, settings, met>>
    BY <1>10 DEF Execute
  <2>2. \A q \in Requests : statement'[q] # "none" => statement[q] # "none"
    BY <1>10, <2>1, ExecuteTyped DEF Outcome
  <2> QED BY <2>1, <2>2
<1>11. ASSUME NEW r \in Requests, StatementLost(r) PROVE BaselineInv'
  BY <1>11 DEF StatementLost, Outcome
<1>12. ASSUME OwnerChangesBucket PROVE BaselineInv'
  BY <1>12 DEF OwnerChangesBucket
<1>13. ASSUME OperatorToggles PROVE BaselineInv'
  BY <1>13 DEF OperatorToggles
<1>14. CASE UNCHANGED vars
  BY <1>14 DEF vars, requests, listings
<1>15. ASSUME NEW r \in Requests, WriteFound(r) PROVE BaselineInv'
  BY <1>15, WriteFoundTyped DEF WriteFound, Outcome
<1> QED
  BY <1>1, <1>2, <1>3, <1>4, <1>5, <1>6, <1>7, <1>8, <1>9, <1>10, <1>11, <1>12, <1>13, <1>14, <1>15
     DEF Next, Handler, Database

\* Rows stay, and an insert that finds none leaves one.
LEMMA RowStep ==
    ASSUME TypeOK, FlowInv, RowInv, [Next]_vars
    PROVE  RowInv'
<1> USE DEF TypeOK, RowInv, Created, Key, Goto, At, requests, listings
<1>1. ASSUME NEW r \in Requests, ArriveConnection(r) PROVE RowInv'
  BY <1>1 DEF ArriveConnection, Watch
<1>2. ASSUME NEW r \in Requests, ArrivePolicy(r) PROVE RowInv'
  BY <1>2 DEF ArrivePolicy, Send, Watch
<1>3. ASSUME NEW r \in Requests, ArriveList(r) PROVE RowInv'
  BY <1>3 DEF ArriveList, Send
<1>4. ASSUME NEW r \in Requests, SessionReady(r) PROVE RowInv'
  BY <1>4 DEF SessionReady
<1>5. ASSUME NEW r \in Requests, ReadSetting(r) PROVE RowInv'
  BY <1>5 DEF ReadSetting
<1>6. ASSUME NEW r \in Requests, ValidationFails(r) PROVE RowInv'
  BY <1>6 DEF ValidationFails
<1>7. ASSUME NEW r \in Requests, Verdict(r) PROVE RowInv'
  BY <1>7 DEF Verdict, Send
<1>8. ASSUME NEW r \in Requests, StatementReturns(r) PROVE RowInv'
  BY <1>8 DEF StatementReturns
<1>9. ASSUME NEW r \in Requests, StatementFails(r) PROVE RowInv'
  BY <1>9 DEF StatementFails
<1>10. ASSUME NEW r \in Requests, Execute(r) PROVE RowInv'
  <2>1. form' = form /\ \A q \in Requests \ {r} : statement'[q] = statement[q]
    BY <1>10, ExecuteTyped DEF Execute, Outcome
  <2>2. CASE ExecuteInsert(r) /\ statement'[r] = "applied"
    <3>1. InsertConnection(form[r].scope, form[r].bucket, form[r].prefixes) /\ form[r].prefixes # NoList
      BY <2>2 DEF ExecuteInsert, Outcome
    <3>2. form[r].scope \in Scopes /\ form[r].bucket \in Buckets /\ form[r].prefixes \in SUBSET Prefixes
      BY <3>1, FormTyped
    <3>3. /\ connections[Key(r)] = NoRow
          /\ connections'[Key(r)] # NoRow /\ connections'[Key(r)].prefixes = form[r].prefixes
          /\ \A x \in (Scopes \X Buckets) \ {Key(r)} : connections'[x] = connections[x]
      BY <3>1, <3>2, InsertTyped
    <3>4. ASSUME NEW q \in Requests \ {r}, Created(q)
          PROVE  Key(q) # Key(r) /\ connections'[Key(q)] = connections[Key(q)]
      <4>1. Key(q) \in Scopes \X Buckets
        BY FormTyped
      <4>2. connections[Key(q)] # NoRow
        BY <3>4
      <4> HIDE DEF Key
      <4> QED BY <3>3, <4>1, <4>2
    <3>5. \A q \in Requests \ {r} : Created(q)' => Created(q)
      BY <2>1
    <3>6. \A q \in Requests : Key(q)' = Key(q) /\ form'[q] = form[q]
      BY <2>1
    <3>7. ASSUME NEW q \in Requests, Created(q)'
          PROVE  /\ connections'[Key(q)] # NoRow /\ connections'[Key(q)].prefixes = form[q].prefixes
                 /\ \A o \in Requests \ {q} : Created(o)' => Key(o) # Key(q)
      <4>1. CASE q = r
        <5> HIDE DEF Key, Created
        <5> QED BY <4>1, <3>3, <3>4, <3>5
      <4>2. CASE q # r
        <5>1. Created(q)
          BY <4>2, <3>5, <3>7
        <5>2. connections[Key(q)] # NoRow /\ connections[Key(q)].prefixes = form[q].prefixes
          BY <5>1
        <5>3. \A o \in Requests \ {q} : Created(o) => Key(o) # Key(q)
          BY <5>1
        <5> HIDE DEF Key, Created
        <5> QED BY <4>2, <5>1, <5>2, <5>3, <3>4, <3>5
      <4> QED BY <4>1, <4>2
    <3> QED BY <3>6, <3>7
  <2>3. CASE connections' = connections /\ ~Created(r)'
    BY <2>1, <2>3
  <2>4. connections' = connections \/ (ExecuteInsert(r) /\ statement'[r] = "applied")
    BY <1>10 DEF Execute, ExecuteInsert, FindConnection, ExecuteQuery, Outcome
  <2>5. Created(r)' => ExecuteInsert(r)
    BY <1>10, <2>1 DEF Execute, FindConnection, ExecuteQuery
  <2>6. Created(r)' => statement'[r] = "applied"
    OBVIOUS
  <2> QED BY <2>2, <2>3, <2>4, <2>5, <2>6
<1>11. ASSUME NEW r \in Requests, StatementLost(r) PROVE RowInv'
  BY <1>11 DEF StatementLost, Outcome
<1>12. ASSUME OwnerChangesBucket PROVE RowInv'
  BY <1>12 DEF OwnerChangesBucket
<1>13. ASSUME OperatorToggles PROVE RowInv'
  <2>1. UNCHANGED <<form, statement>>
    BY <1>13 DEF OperatorToggles
  <2>2. \A q \in Requests :
          connections[Key(q)] # NoRow =>
            connections'[Key(q)] # NoRow /\ connections'[Key(q)].prefixes = connections[Key(q)].prefixes
    BY <1>13, ToggleTyped, FormTyped DEF OperatorToggles
  <2> QED BY <2>1, <2>2
<1>14. CASE UNCHANGED vars
  BY <1>14 DEF vars, requests, listings
<1>15. ASSUME NEW r \in Requests, WriteFound(r) PROVE RowInv'
  <2>1. UNCHANGED <<connections, form>> /\ form[r].kind = "policy"
    BY <1>15, WriteFoundTyped DEF WriteFound, FlowInv
  <2>2. \A q \in Requests \ {r} : statement'[q] = statement[q]
    <3>1. Outcome(r, "applied") \/ Outcome(r, "null")
      BY <1>15, WriteFoundTyped
    <3> QED BY <3>1 DEF Outcome
  <2> QED BY <2>1, <2>2
<1> QED
  BY <1>1, <1>2, <1>3, <1>4, <1>5, <1>6, <1>7, <1>8, <1>9, <1>10, <1>11, <1>12, <1>13, <1>14, <1>15
     DEF Next, Handler, Database

\* A step that leaves the connections alone and only ends requests leaves listings true.
LEMMA ListKept ==
    ASSUME ListInv, UNCHANGED <<connections, form, statement, shown, once, throughout>>,
           \A q \in Requests : form[q].kind = "list" =>
              /\ phase'[q] = "statement" => phase[q] = "statement"
              /\ phase'[q] = "200" => phase[q] \in {"statement", "200"}
    PROVE  ListInv'
<1>1. ActiveBuckets' = ActiveBuckets
  BY ActiveKept
<1> QED BY <1>1 DEF ListInv

\* Nor does it matter to them what the statements of other requests become.
LEMMA ListsOnly ==
    ASSUME ListInv, UNCHANGED <<connections, form, shown, throughout>>,
           NEW r \in Requests, form[r].kind # "list",
           \A q \in Requests \ {r} : phase'[q] = phase[q] /\ statement'[q] = statement[q] /\ once'[q] = once[q]
    PROVE  ListInv'
<1>1. ActiveBuckets' = ActiveBuckets
  BY ActiveKept
<1> QED BY <1>1 DEF ListInv

\* What a listing on its way makes of a change, and what one that ended makes of it.
LEMMA ObserveKeeps ==
    ASSUME TypeOK, ListInv, Observe, UNCHANGED <<phase, form>>, NEW q \in Requests, form[q].kind = "list"
    PROVE  /\ phase[q] = "statement" =>
                /\ once'[q] = once[q] \cup ActiveBuckets'[form[q].scope]
                /\ throughout'[q] = throughout[q] \cap ActiveBuckets'[form[q].scope]
           /\ phase[q] # "statement" => once'[q] = once[q] /\ throughout'[q] = throughout[q]
BY DEF Observe

\* A listing, while the tables change around it.
LEMMA ListStep ==
    ASSUME TypeOK, FlowInv, ListInv, [Next]_vars
    PROVE  ListInv'
<1> USE DEF TypeOK, ListInv, Goto, At, requests, listings
<1>1. ASSUME NEW r \in Requests, ArriveConnection(r) PROVE ListInv'
  <2>1. /\ form[r].kind # "list"
        /\ \A q \in Requests \ {r} : phase'[q] = phase[q] /\ statement'[q] = statement[q] /\ once'[q] = once[q]
    BY <1>1 DEF ArriveConnection
  <2> QED BY <1>1, <2>1, ListsOnly DEF ArriveConnection
<1>2. ASSUME NEW r \in Requests, ArrivePolicy(r) PROVE ListInv'
  <2>1. /\ form[r].kind # "list"
        /\ \A q \in Requests \ {r} : phase'[q] = phase[q] /\ statement'[q] = statement[q] /\ once'[q] = once[q]
    BY <1>2 DEF ArrivePolicy, Send
  <2> QED BY <1>2, <2>1, ListsOnly DEF ArrivePolicy
<1>3. ASSUME NEW r \in Requests, ArriveList(r) PROVE ListInv'
  <2>1. ActiveBuckets' = ActiveBuckets
    BY <1>3, ActiveKept DEF ArriveList
  <2>2. /\ form[r].kind = "list" /\ phase'[r] = "statement" /\ statement'[r] = "sent"
        /\ once'[r] = ActiveBuckets[form[r].scope] /\ throughout'[r] = ActiveBuckets[form[r].scope]
    BY <1>3 DEF ArriveList, Send
  <2>3. \A q \in Requests \ {r} :
          /\ phase'[q] = phase[q] /\ statement'[q] = statement[q]
          /\ once'[q] = once[q] /\ throughout'[q] = throughout[q]
    BY <1>3 DEF ArriveList, Send
  <2>4. UNCHANGED <<form, shown>>
    BY <1>3 DEF ArriveList
  <2> QED BY <2>1, <2>2, <2>3, <2>4, ZenonT(40)
<1>4. ASSUME NEW r \in Requests, SessionReady(r) PROVE ListInv'
  <2>1. /\ form[r].kind # "list"
        /\ \A q \in Requests \ {r} : phase'[q] = phase[q] /\ statement'[q] = statement[q] /\ once'[q] = once[q]
    BY <1>4 DEF SessionReady, FlowInv
  <2> QED BY <1>4, <2>1, ListsOnly DEF SessionReady
<1>5. ASSUME NEW r \in Requests, ReadSetting(r) PROVE ListInv'
  <2>1. /\ form[r].kind # "list"
        /\ \A q \in Requests \ {r} : phase'[q] = phase[q] /\ statement'[q] = statement[q] /\ once'[q] = once[q]
    BY <1>5 DEF ReadSetting, FlowInv
  <2> QED BY <1>5, <2>1, ListsOnly DEF ReadSetting
<1>6. ASSUME NEW r \in Requests, ValidationFails(r) PROVE ListInv'
  <2>1. /\ form[r].kind # "list"
        /\ \A q \in Requests \ {r} : phase'[q] = phase[q] /\ statement'[q] = statement[q] /\ once'[q] = once[q]
    BY <1>6 DEF ValidationFails, FlowInv
  <2> QED BY <1>6, <2>1, ListsOnly DEF ValidationFails
<1>7. ASSUME NEW r \in Requests, Verdict(r) PROVE ListInv'
  <2>1. /\ form[r].kind # "list"
        /\ \A q \in Requests \ {r} : phase'[q] = phase[q] /\ statement'[q] = statement[q] /\ once'[q] = once[q]
    BY <1>7 DEF Verdict, Send, FlowInv
  <2> QED BY <1>7, <2>1, ListsOnly DEF Verdict
<1>8. ASSUME NEW r \in Requests, StatementReturns(r) PROVE ListInv'
  <2>1. \A q \in Requests :
          /\ phase'[q] = "statement" => phase[q] = "statement"
          /\ phase'[q] = "200" => phase[q] \in {"statement", "200"}
    BY <1>8, AnswersTyped DEF StatementReturns, Answers
  <2> QED BY <1>8, <2>1, ListKept DEF StatementReturns
<1>9. ASSUME NEW r \in Requests, StatementFails(r) PROVE ListInv'
  <2>1. \A q \in Requests :
          /\ phase'[q] = "statement" => phase[q] = "statement"
          /\ phase'[q] = "200" => phase[q] \in {"statement", "200"}
    BY <1>9 DEF StatementFails
  <2> QED BY <1>9, <2>1, ListKept DEF StatementFails
<1>10. ASSUME NEW r \in Requests, Execute(r) PROVE ListInv'
  <2>1. Observe /\ UNCHANGED <<phase, form>> /\ phase[r] \in {"statement", "500"}
    BY <1>10 DEF Execute, FlowInv
  <2>2. \A q \in Requests \ {r} : statement'[q] = statement[q] /\ shown'[q] = shown[q]
    BY <1>10, ExecuteTyped DEF Execute, Outcome, ExecuteQuery
  <2>3. form[r].kind = "list" => shown'[r] = ActiveBuckets[form[r].scope] /\ ActiveBuckets' = ActiveBuckets
    BY <1>10, ActiveKept DEF Execute, ExecuteInsert, FindConnection, ExecuteQuery
  <2> SUFFICES ASSUME NEW q \in Requests, form[q].kind = "list"
               PROVE  /\ phase[q] = "statement" =>
                           /\ throughout'[q] \subseteq ActiveBuckets'[form[q].scope]
                           /\ ActiveBuckets'[form[q].scope] \subseteq once'[q]
                      /\ phase[q] \in {"statement", "200"} /\ statement'[q] = "applied" =>
                           throughout'[q] \subseteq shown'[q] /\ shown'[q] \subseteq once'[q]
    BY <2>1
  <2>4. CASE q = r
    BY <2>1, <2>3, <2>4, ObserveKeeps
  <2>5. CASE q # r
    BY <2>1, <2>2, <2>5, ObserveKeeps
  <2> QED BY <2>4, <2>5
<1>11. ASSUME NEW r \in Requests, StatementLost(r) PROVE ListInv'
  <2>1. phase[r] = "500" /\ ActiveBuckets' = ActiveBuckets
    BY <1>11, ActiveKept DEF StatementLost
  <2> QED BY <1>11, <2>1 DEF StatementLost, Outcome
<1>12. ASSUME OwnerChangesBucket PROVE ListInv'
  BY <1>12, ListKept DEF OwnerChangesBucket
<1>13. ASSUME OperatorToggles PROVE ListInv'
  <2>1. Observe /\ UNCHANGED <<phase, form, statement, shown>>
    BY <1>13 DEF OperatorToggles
  <2> QED BY <2>1, ObserveKeeps
<1>14. CASE UNCHANGED vars
  BY <1>14, ListKept DEF vars
<1>15. ASSUME NEW r \in Requests, WriteFound(r) PROVE ListInv'
  <2>1. UNCHANGED <<connections, form, shown, once, throughout, phase>> /\ form[r].kind = "policy"
    BY <1>15, WriteFoundTyped DEF WriteFound, FlowInv
  <2>2. \A q \in Requests \ {r} : statement'[q] = statement[q]
    <3>1. Outcome(r, "applied") \/ Outcome(r, "null")
      BY <1>15, WriteFoundTyped
    <3> QED BY <3>1 DEF Outcome
  <2> QED BY <2>1, <2>2, ListsOnly
<1> QED
  BY <1>1, <1>2, <1>3, <1>4, <1>5, <1>6, <1>7, <1>8, <1>9, <1>10, <1>11, <1>12, <1>13, <1>14, <1>15
     DEF Next, Handler, Database

\* An upsert and its connection.
LEMMA FoundStep ==
    ASSUME TypeOK, FlowInv, FoundInv, [Next]_vars
    PROVE  FoundInv'
<1> USE DEF TypeOK, FlowInv, FoundInv, Goto, At, requests, listings
<1>1. ASSUME UNCHANGED <<connections, form, once>>,
             \A r \in Requests :
                form[r].kind = "policy" =>
                    \/ statement'[r] = statement[r]
                    \/ statement[r] # "none" /\ statement'[r] \notin {"none", "sent", "found"}
      PROVE  FoundInv'
  <2>1. ActiveBuckets' = ActiveBuckets
    BY <1>1, ActiveKept
  <2>2. SUFFICES ASSUME NEW q \in Requests, form[q].kind = "policy"
                 PROVE  /\ statement'[q] # "none" => form[q].admin
                        /\ statement'[q] = "sent" => ActiveBuckets[form[q].scope] \subseteq once[q]
                        /\ statement'[q] = "found" => form[q].bucket \in once[q]
    BY <1>1, <2>1
  <2> QED BY <1>1, <2>2
<1>2. ASSUME NEW r \in Requests, ArriveConnection(r) PROVE FoundInv'
  BY <1>1, <1>2 DEF ArriveConnection
<1>3. ASSUME NEW r \in Requests, ArrivePolicy(r) PROVE FoundInv'
  <2>1. ActiveBuckets' = ActiveBuckets /\ form' = form
    BY <1>3, ActiveKept DEF ArrivePolicy
  <2>2. once'[r] = ActiveBuckets[form[r].scope] /\ statement[r] = "none"
    BY <1>3 DEF ArrivePolicy
  <2>3. statement'[r] = "none" \/ (statement'[r] = "sent" /\ form[r].admin)
    BY <1>3, <2>2 DEF ArrivePolicy, Send
  <2>4. \A q \in Requests \ {r} : once'[q] = once[q] /\ statement'[q] = statement[q]
    BY <1>3 DEF ArrivePolicy, Send
  <2> QED BY <2>1, <2>2, <2>3, <2>4
<1>4. ASSUME NEW r \in Requests, ArriveList(r) PROVE FoundInv'
  <2>1. ActiveBuckets' = ActiveBuckets /\ form' = form /\ form[r].kind = "list"
    BY <1>4, ActiveKept DEF ArriveList
  <2>2. \A q \in Requests \ {r} : once'[q] = once[q] /\ statement'[q] = statement[q]
    BY <1>4 DEF ArriveList, Send
  <2> QED BY <2>1, <2>2
<1>5. ASSUME NEW r \in Requests, SessionReady(r) PROVE FoundInv'
  BY <1>1, <1>5 DEF SessionReady
<1>6. ASSUME NEW r \in Requests, ReadSetting(r) PROVE FoundInv'
  BY <1>1, <1>6 DEF ReadSetting
<1>7. ASSUME NEW r \in Requests, ValidationFails(r) PROVE FoundInv'
  BY <1>1, <1>7 DEF ValidationFails
<1>8. ASSUME NEW r \in Requests, Verdict(r) PROVE FoundInv'
  <2>1. form[r].kind = "connection" /\ UNCHANGED <<connections, form, once>>
    BY <1>8 DEF Verdict
  <2>2. \A q \in Requests \ {r} : statement'[q] = statement[q]
    BY <1>8 DEF Verdict, Send
  <2> QED BY <1>1, <2>1, <2>2
<1>9. ASSUME NEW r \in Requests, StatementReturns(r) PROVE FoundInv'
  BY <1>1, <1>9 DEF StatementReturns
<1>10. ASSUME NEW r \in Requests, StatementFails(r) PROVE FoundInv'
  BY <1>1, <1>10 DEF StatementFails
<1>11. ASSUME NEW r \in Requests, Execute(r) PROVE FoundInv'
  <2>1. statement[r] = "sent" /\ Observe /\ form' = form
    BY <1>11 DEF Execute
  <2>2. \A q \in Requests \ {r} : statement'[q] = statement[q]
    BY <1>11, ExecuteTyped DEF Outcome
  <2>3. ASSUME form[r].kind = "policy"
        PROVE  /\ statement'[r] = "found" => form[r].bucket \in once'[r]
               /\ statement'[r] \notin {"none", "sent"}
    <3>1. FindConnection(r)
      BY <1>11, <2>3 DEF Execute, ExecuteInsert, ExecuteQuery
    <3>2. statement'[r] = IF ActiveBucket(form[r].scope, form[r].bucket) # NoRow THEN "found" ELSE "no_row"
      BY <3>1 DEF FindConnection, Outcome
    <3>3. statement'[r] = "found" => form[r].bucket \in ActiveBuckets[form[r].scope]
      BY <3>2, FormTyped DEF ActiveBuckets
    <3>4. ActiveBuckets[form[r].scope] \subseteq once[r]
      BY <2>1, <2>3
    <3>5. once[r] \subseteq once'[r]
      BY <2>1 DEF Observe
    <3> QED BY <3>2, <3>3, <3>4, <3>5
  <2>4. \A q \in Requests : form[q].kind = "policy" /\ statement[q] = "sent" =>
          ActiveBuckets'[form[q].scope] \subseteq once'[q]
    BY <2>1 DEF Observe
  <2>5. \A q \in Requests : once[q] \subseteq once'[q]
    BY <2>1 DEF Observe
  <2> QED BY <2>1, <2>2, <2>3, <2>4, <2>5
<1>12. ASSUME NEW r \in Requests, WriteFound(r) PROVE FoundInv'
  <2>1. UNCHANGED <<connections, form, once>>
    BY <1>12, WriteFoundTyped DEF WriteFound
  <2>2. \A q \in Requests :
          \/ statement'[q] = statement[q]
          \/ statement[q] # "none" /\ statement'[q] \notin {"none", "sent", "found"}
    BY <1>12, WriteFoundTyped DEF Outcome, WriteFound
  <2> QED BY <1>1, <2>1, <2>2
<1>13. ASSUME NEW r \in Requests, StatementLost(r) PROVE FoundInv'
  BY <1>1, <1>13 DEF StatementLost, Outcome
<1>14. ASSUME OwnerChangesBucket PROVE FoundInv'
  BY <1>1, <1>14 DEF OwnerChangesBucket
<1>15. ASSUME OperatorToggles PROVE FoundInv'
  <2>1. Observe /\ UNCHANGED <<form, statement>>
    BY <1>15 DEF OperatorToggles
  <2>2. \A q \in Requests : once[q] \subseteq once'[q]
    BY <2>1 DEF Observe
  <2>3. \A q \in Requests : form[q].kind = "policy" /\ statement[q] = "sent" =>
          ActiveBuckets'[form[q].scope] \subseteq once'[q]
    BY <2>1 DEF Observe
  <2> QED BY <2>1, <2>2, <2>3
<1>16. CASE UNCHANGED vars
  BY <1>1, <1>16 DEF vars
<1> QED
  BY <1>2, <1>3, <1>4, <1>5, <1>6, <1>7, <1>8, <1>9, <1>10, <1>11, <1>12, <1>13, <1>14, <1>15, <1>16
     DEF Next, Handler, Database

-----------------------------------------------------------------------------
\* The invariant holds in every state the service reaches.
LEMMA InvHolds == Spec => []Inv
<1>1. Init => Inv
  <2> SUFFICES ASSUME Init PROVE Inv
    OBVIOUS
  <2>1. TypeOK
    BY AdminAssumption DEF Init, TypeOK, Phases, Answers, Statements, Checks, PolicyTables
  <2> QED
    BY <2>1 DEF Init, Inv, FlowInv, BaselineInv, RowInv, ListInv, FoundInv, Created
<1>2. Inv /\ [Next]_vars => Inv'
  BY TypeStep, FlowStep, BaselineStep, RowStep, ListStep, FoundStep DEF Inv
<1> QED BY <1>1, <1>2, PTL DEF Spec

\* Every variable keeps its type.
THEOREM TypeCorrect == Spec => []TypeOK
<1>1. Inv => TypeOK
  BY DEF Inv
<1> QED BY <1>1, InvHolds, PTL

\* Whoever is told that a connection was created has the row, and has it alone.
THEOREM CreationsAreOwned == Spec => []CreatorsOwnTheRow
<1>1. Inv => CreatorsOwnTheRow
  BY DEF Inv, FlowInv, RowInv, Created, Key, CreatorsOwnTheRow, At
<1> QED BY <1>1, InvHolds, PTL

\* No connection is written for a bucket that missed a setting all the time.
THEOREM BaselineHolds == Spec => []BaselineWasMet
<1>1. Inv => BaselineWasMet
  BY DEF Inv, BaselineInv, BaselineWasMet
<1> QED BY <1>1, InvHolds, PTL

\* What was refused was not written and will not be.
THEOREM RefusalsAreEmpty == Spec => []RefusalsLeaveNoTrace
<1>1. Inv => RefusalsLeaveNoTrace
  BY DEF Inv, FlowInv, RefusalsLeaveNoTrace
<1> QED BY <1>1, InvHolds, PTL

\* A listing is of a moment of its request.
THEOREM ListingsTellTheTruth == Spec => []ListingsAreCurrent
<1>1. Inv => ListingsAreCurrent
  BY DEF Inv, FlowInv, ListInv, ListingsAreCurrent, At
<1> QED BY <1>1, InvHolds, PTL

\* Who changes a policy is an administrator whose statement found the connection in force,
\* however late it is executed and whatever operators do between its read and its write.
THEOREM PoliciesNeedAConnection == Spec => PoliciesFollowTheirConnection
<1> DEFINE Justified ==
      \A s \in Scopes, b \in Buckets, p \in Principals :
        policies'[<<s, b, p>>] # policies[<<s, b, p>>] =>
            \E r \in Requests :
                /\ form[r].kind = "policy" /\ form[r].admin
                /\ form[r].scope = s /\ form[r].bucket = b /\ form[r].principal = p
                /\ b \in once[r]
<1>1. Inv /\ [Next]_vars => [Justified]_vars
  <2> SUFFICES ASSUME Inv, Next PROVE Justified
    OBVIOUS
  <2>1. ASSUME NEW r \in Requests, WriteFound(r) PROVE Justified
    <3>1. form[r].kind = "policy" /\ form[r].admin /\ form[r].bucket \in once[r]
      BY <2>1 DEF WriteFound, Inv, FlowInv, FoundInv
    <3>2. \A s \in Scopes, b \in Buckets, p \in Principals :
            <<s, b, p>> # <<form[r].scope, form[r].bucket, form[r].principal>> =>
              policies'[<<s, b, p>>] = policies[<<s, b, p>>]
      BY <2>1, FormTyped DEF WriteFound, WritePolicy, Inv, TypeOK, PolicyTables
    <3> QED BY <3>1, <3>2
  <2>2. CASE policies' = policies
    BY <2>2
  <2>3. CASE OperatorToggles
    BY <2>2, <2>3 DEF OperatorToggles, ToggleConnection
  <2>4. CASE OwnerChangesBucket \/ \E r \in Requests : Handler(r) \/ StatementLost(r)
    BY <2>2, <2>4 DEF OwnerChangesBucket, Handler, StatementLost, ArriveConnection, ArrivePolicy, ArriveList,
                      SessionReady, ReadSetting, ValidationFails, Verdict, StatementReturns, StatementFails
  <2>5. CASE \E r \in Requests : Execute(r)
    BY <2>2, <2>5, ExecuteTyped DEF Inv
  <2> QED BY <2>1, <2>3, <2>4, <2>5 DEF Next, Database
<1> QED BY <1>1, InvHolds, PTL DEF Spec, PoliciesFollowTheirConnection
=============================================================================
