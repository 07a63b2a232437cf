--------------------------- MODULE LifecycleProofs ---------------------------
(* Proofs about module Lifecycle: for any number of instances, environments, *)
(* initial states of the database, handlers and restarts.                    *)
(*                                                                           *)
(* What an instance knows of the schema it learned at some earlier stage of  *)
(* its start-up.  It still holds because the schema only grows: that is the  *)
(* one fact about the other instances that the argument needs.               *)
EXTENDS Lifecycle, Integers, TLAPS

\* The schema e has all that the schema d has.
Grown(d, e) == d.tables \subseteq e.tables /\ d.version <= e.version

\* A process p that is past the stage of the migration.
PastMigration(p) == p.main \notin {"config", "open", "migrate", "migrating", "ended"}

\* What start-up has established of the schema d by the time p is where it is.
SchemaKnown(p, d) ==
  /\ p.seen = 1 => d.version >= 1
  /\ PastMigration(p) /\ p.conf.migrate => d.version >= 1
  /\ PastMigration(p) /\ p.main # "check" /\ p.conf.check =>
        d.version >= 1 /\ d.tables = AllTables
  /\ p.main \in {"config", "open", "migrate", "migrating"} => p.todo = requiredTables
  /\ p.main = "check" => AllTables \subseteq d.tables \cup {p.todo[n] : n \in 1 .. Len(p.todo)}

\* The server runs while main() waits, and handlers are left only until it has drained.
ServerInTime(p) ==
  /\ p.main \in Starting => p.srv = "none"
  /\ p.srv = "serving" => p.main \in {"notify", "wait", "signalled"}
  /\ p.main = "ended" => p.srv = "stopped"
  /\ p.inflight > 0 => p.main \in {"notify", "wait", "signalled", "draining"}

\* The pool and the key set are there from their stage on until their deferred call.
ResourcesHeld(p) ==
  /\ p.main \notin {"config", "open", "ended"} => p.pool = "open"
  /\ p.main \in {"launch", "notify", "wait", "signalled", "draining", "closeVerifier"} /\ p.conf.jwt =>
        p.jwks = "running"
  /\ p.main = "closeDatabase" => p.jwks # "running"

\* The exit code is set at the end, and 0 says what CleanExitMeansDrained promises.
CodeAtTheEnd(p) ==
  /\ p.main # "ended" => p.code = "none"
  /\ p.code = "zero" => p.cut = 0 /\ p.pool = "closed" /\ p.jwks # "running"

Sound(p, d) == SchemaKnown(p, d) /\ ServerInTime(p) /\ ResourcesHeld(p) /\ CodeAtTheEnd(p)

IInv == TypeOK /\ \A i \in Instances : Sound(proc[i], db)

-----------------------------------------------------------------------------
\* What one step does to one instance: the new process, and the schema it leaves.
StepTo(i, q, d) == proc' = [proc EXCEPT ![i] = q] /\ db' = d

\* requiredTables names three tables, and AllTables are its names.
LEMMA RequiredTables ==
  /\ requiredTables \in Seq(AllTables) /\ Len(requiredTables) = 3
  /\ AllTables = {requiredTables[n] : n \in 1 .. Len(requiredTables)}
<1>1. Len(requiredTables) = 3
  BY DEF requiredTables
<1>2. requiredTables \in Seq({requiredTables[1], requiredTables[2], requiredTables[3]})
  BY DEF requiredTables
<1>3. AllTables = {requiredTables[1], requiredTables[2], requiredTables[3]}
  BY <1>1 DEF AllTables
<1>4. QED
  BY <1>1, <1>2, <1>3 DEF AllTables

\* What a process knows of a schema stays true when the schema grows.
LEMMA KnowledgeIsStable ==
  ASSUME NEW p \in Process, NEW d \in Schema, NEW e \in Schema, Grown(d, e), Sound(p, d)
  PROVE  Sound(p, e)
<1>1. d.version \in Nat /\ e.version \in Nat /\ d.version <= e.version /\ d.tables \subseteq e.tables
      /\ e.tables \subseteq AllTables
  BY DEF Grown, Schema
<1> DEFINE left == {p.todo[n] : n \in 1 .. Len(p.todo)}
<1>2. SchemaKnown(p, d)
  BY DEF Sound
<1>3. d.tables = AllTables => e.tables = AllTables
  BY <1>1
<1>4. AllTables \subseteq d.tables \cup left => AllTables \subseteq e.tables \cup left
  BY <1>1
<1>5. d.version >= 1 => e.version >= 1
  BY <1>1
<1>6. SchemaKnown(p, e)
  BY <1>2, <1>3, <1>4, <1>5, Zenon DEF SchemaKnown
<1>7. QED
  BY <1>6 DEF Sound

\* A step of one instance that leaves it sound and lets the schema grow keeps the invariant.
LEMMA StepPreserves ==
  ASSUME IInv, NEW i \in Instances, NEW q \in Process, NEW d \in Schema,
         StepTo(i, q, d), Grown(db, d), Sound(q, d), starts' \in 0 .. MaxStarts
  PROVE  IInv'
<1>1. proc \in [Instances -> Process] /\ db \in Schema
  BY DEF IInv, TypeOK
<1>2. proc' \in [Instances -> Process] /\ db' = d /\ proc'[i] = q
  BY <1>1 DEF StepTo
<1>3. TypeOK'
  BY <1>2 DEF TypeOK
<1>4. ASSUME NEW j \in Instances
      PROVE  Sound(proc'[j], db')
  <2>1. CASE j = i
    BY <2>1, <1>2
  <2>2. CASE j # i
    <3>1. proc'[j] = proc[j] /\ proc[j] \in Process
      BY <2>2, <1>1 DEF StepTo
    <3>2. Sound(proc[j], db)
      BY DEF IInv
    <3>3. QED
      BY <3>1, <3>2, <1>1, <1>2, KnowledgeIsStable
  <2>3. QED
    BY <2>1, <2>2
<1>5. QED
  BY <1>3, <1>4 DEF IInv

\* The end of a process is a sound process, unless its code is 0.
LEMMA EndIsSound ==
  ASSUME NEW p \in Process, NEW d \in Schema, Sound(p, d), NEW c \in {"one", "killed"}
  PROVE  Ended(p, c) \in Process /\ Sound(Ended(p, c), d)
<1> DEFINE q == Ended(p, c)
<1>1. q \in Process
  BY LifecycleAssumption DEF Ended, Process, MainAt
<1>2. q.main = "ended" /\ q.seen = p.seen /\ q.srv = "stopped" /\ q.inflight = 0 /\ q.code = c
  BY DEF Ended
<1>3. SchemaKnown(q, d)
  BY <1>2 DEF SchemaKnown, PastMigration, Sound
<1>4. ServerInTime(q)
  BY <1>2 DEF ServerInTime, Starting
<1>5. ResourcesHeld(q) /\ CodeAtTheEnd(q)
  BY <1>2 DEF ResourcesHeld, CodeAtTheEnd
<1>6. QED
  BY <1>1, <1>3, <1>4, <1>5 DEF Sound
\* A step that only changes one process, into a sound one.
LEMMA SetPreserves ==
  ASSUME IInv, NEW i \in Instances, NEW q \in Process, Sound(q, db), Set(i, q)
  PROVE  IInv'
<1>1. db \in Schema /\ starts \in 0 .. MaxStarts
  BY DEF IInv, TypeOK
<1>2. Grown(db, db)
  BY <1>1 DEF Grown, Schema
<1>3. StepTo(i, q, db) /\ starts' = starts
  BY DEF Set, StepTo
<1>4. QED
  BY <1>1, <1>2, <1>3, StepPreserves

\* os.Exit(1), or a signal that nobody handles.
LEMMA EndPreserves ==
  ASSUME IInv, NEW i \in Instances, NEW c \in {"one", "killed"}, Set(i, Ended(proc[i], c))
  PROVE  IInv'
<1>1. proc[i] \in Process /\ Sound(proc[i], db) /\ db \in Schema
  BY DEF IInv, TypeOK
<1>2. Ended(proc[i], c) \in Process /\ Sound(Ended(proc[i], c), db)
  BY <1>1, EndIsSound
<1>3. QED
  BY <1>2, SetPreserves

-----------------------------------------------------------------------------
\* The stages of start-up up to the pool.
LEMMA OpeningPreserves ==
  ASSUME IInv, NEW i \in Instances, LoadConfig(i) \/ OpenDatabase(i) \/ ReadVersion(i)
  PROVE  IInv'
<1> DEFINE p == proc[i]
<1>1. p \in Process /\ Sound(p, db) /\ db \in Schema
  BY DEF IInv, TypeOK
<1>2. CASE OsExit1(i)
  BY <1>2, EndPreserves DEF OsExit1
<1>3. CASE LoadConfig(i) /\ GoTo(i, "open")
  <2> DEFINE q == [p EXCEPT !.main = "open"]
  <2>1. q \in Process /\ Set(i, q)
    BY <1>1, <1>3 DEF Process, MainAt, Starting, GoTo
  <2>2. p.main = "config"
    BY <1>3 DEF LoadConfig, At
  <2>3. Sound(q, db)
    BY <1>1, <2>2 DEF Sound, SchemaKnown, PastMigration, ServerInTime, ResourcesHeld, CodeAtTheEnd, Starting, Process
  <2>4. QED
    BY <2>1, <2>3, SetPreserves
<1>4. CASE At(i, "open") /\ Set(i, [p EXCEPT !.pool = "open", !.main = AfterOpen(p.conf)])
  <2> DEFINE q == [p EXCEPT !.pool = "open", !.main = AfterOpen(p.conf)]
  <2>1. p.main = "open" /\ p.conf \in Environment
    BY <1>1, <1>4, LifecycleAssumption DEF At, Process
  <2>2. AfterOpen(p.conf) \in {"migrate", "check", "verifier"}
    BY DEF AfterOpen, AfterMigration
  <2>3. q \in Process
    BY <1>1, <2>2 DEF Process, MainAt, Starting
  <2>4. SchemaKnown(p, db) /\ ServerInTime(p) /\ ResourcesHeld(p) /\ CodeAtTheEnd(p)
    BY <1>1 DEF Sound
  <2>5. /\ q.main = AfterOpen(p.conf) /\ q.conf = p.conf /\ q.seen = p.seen /\ q.todo = requiredTables
        /\ q.srv = p.srv /\ q.inflight = p.inflight /\ q.jwks = p.jwks /\ q.code = p.code /\ q.pool = "open"
    BY <1>1, <2>1, <2>4 DEF Process, SchemaKnown
  <2>6. /\ q.main # "migrate" => ~ p.conf.migrate
        /\ q.main = "verifier" => ~ p.conf.check
    BY <2>1, <2>5 DEF AfterOpen, AfterMigration, Environment
  <2>7. AllTables = {q.todo[n] : n \in 1 .. Len(q.todo)}
    BY <2>5, RequiredTables
  <2>8. SchemaKnown(q, db)
    BY <2>2, <2>4, <2>5, <2>6, <2>7 DEF SchemaKnown, PastMigration
  <2>9. ServerInTime(q) /\ ResourcesHeld(q) /\ CodeAtTheEnd(q)
    BY <2>1, <2>2, <2>4, <2>5 DEF ServerInTime, ResourcesHeld, CodeAtTheEnd, Starting
  <2>10. Sound(q, db)
    BY <2>8, <2>9 DEF Sound
  <2>11. QED
    BY <1>4, <2>3, <2>10, SetPreserves
<1>5. CASE ReadVersion(i) /\ Set(i, [p EXCEPT !.seen = db.version, !.main = "migrating"])
  <2> DEFINE q == [p EXCEPT !.seen = db.version, !.main = "migrating"]
  <2>1. p.main = "migrate" /\ db.version \in 0 .. 1
    BY <1>1, <1>5 DEF ReadVersion, At, Schema
  <2>2. q \in Process
    BY <1>1, <2>1 DEF Process, MainAt, Starting
  <2>3. Sound(q, db)
    BY <1>1, <2>1 DEF Sound, SchemaKnown, PastMigration, ServerInTime, ResourcesHeld, CodeAtTheEnd, Starting, Process
  <2>4. QED
    BY <1>5, <2>2, <2>3, SetPreserves
<1>6. QED
  BY <1>2, <1>3, <1>4, <1>5 DEF LoadConfig, OpenDatabase, ReadVersion
\* The migration: the one step that changes the schema lets it grow to the whole.
LEMMA MigrationPreserves ==
  ASSUME IInv, NEW i \in Instances, MigrateUp(i)
  PROVE  IInv'
<1> DEFINE p == proc[i]
           q == [p EXCEPT !.main = AfterMigration(p.conf)]
<1>1. /\ p \in Process /\ Sound(p, db) /\ db \in Schema /\ proc \in [Instances -> Process]
      /\ starts \in 0 .. MaxStarts
  BY DEF IInv, TypeOK
<1>2. p.main = "migrating" /\ p.conf \in Environment
  BY <1>1, LifecycleAssumption DEF MigrateUp, At, Process
<1>3. AfterMigration(p.conf) \in {"check", "verifier"}
  BY DEF AfterMigration
<1>4. q \in Process
  BY <1>1, <1>3 DEF Process, MainAt, Starting
<1>5. SchemaKnown(p, db) /\ ServerInTime(p) /\ ResourcesHeld(p) /\ CodeAtTheEnd(p)
  BY <1>1 DEF Sound
<1>6. /\ q.main = AfterMigration(p.conf) /\ q.conf = p.conf /\ q.seen = p.seen /\ q.todo = requiredTables
      /\ q.srv = p.srv /\ q.inflight = p.inflight /\ q.jwks = p.jwks /\ q.code = p.code /\ q.pool = p.pool
  BY <1>1, <1>2, <1>5 DEF Process, SchemaKnown
<1>7. q.main = "verifier" => ~ p.conf.check
  BY <1>2, <1>6 DEF AfterMigration, Environment
<1>8. AllTables = {q.todo[n] : n \in 1 .. Len(q.todo)}
  BY <1>6, RequiredTables
<1>9. ServerInTime(q) /\ ResourcesHeld(q) /\ CodeAtTheEnd(q)
  BY <1>2, <1>3, <1>5, <1>6 DEF ServerInTime, ResourcesHeld, CodeAtTheEnd, Starting
<1>10. ASSUME NEW d \in Schema, d.version >= 1
       PROVE  Sound(q, d)
  <2>1. SchemaKnown(q, d)
    BY <1>3, <1>6, <1>7, <1>8, <1>10 DEF SchemaKnown, PastMigration
  <2>2. QED
    BY <2>1, <1>9 DEF Sound
<1>11. CASE OsExit1(i)
  BY <1>11, EndPreserves DEF OsExit1
<1>12. CASE p.seen = 1 /\ GoTo(i, AfterMigration(p.conf))
  <2>1. db.version >= 1
    BY <1>5, <1>12 DEF SchemaKnown
  <2>2. Sound(q, db) /\ Set(i, q)
    BY <1>1, <1>10, <1>12, <2>1 DEF GoTo
  <2>3. QED
    BY <1>4, <2>2, SetPreserves
<1>13. CASE /\ db.tables = {}
            /\ db' = [tables |-> AllTables, version |-> 1]
            /\ proc' = [proc EXCEPT ![i].main = AfterMigration(p.conf)]
            /\ UNCHANGED starts
  <2> DEFINE d == [tables |-> AllTables, version |-> 1]
  <2>1. d \in Schema /\ d.version >= 1
    BY DEF Schema
  <2>2. Grown(db, d)
    BY <1>1, <1>13 DEF Grown, Schema
  <2>3. proc' = [proc EXCEPT ![i] = q]
    BY <1>1, <1>13
  <2>4. StepTo(i, q, d)
    BY <1>13, <2>3 DEF StepTo
  <2>5. Sound(q, d) /\ starts' \in 0 .. MaxStarts
    BY <1>1, <1>10, <1>13, <2>1
  <2> HIDE DEF d, q
  <2>6. QED
    BY <1>4, <2>1, <2>2, <2>4, <2>5, StepPreserves
<1>14. QED
  BY <1>11, <1>12, <1>13 DEF MigrateUp

\* CheckSchema: a table that was found leaves the list, and in the end all have been.
LEMMA CheckPreserves ==
  ASSUME IInv, NEW i \in Instances, CheckTable(i) \/ CheckVersion(i)
  PROVE  IInv'
<1> DEFINE p == proc[i]
<1>1. p \in Process /\ Sound(p, db) /\ db \in Schema
  BY DEF IInv, TypeOK
<1>2. p.main = "check" /\ p.todo \in Seq(AllTables) /\ db.tables \subseteq AllTables
  BY <1>1 DEF CheckTable, CheckVersion, At, Process, Schema
<1>3. SchemaKnown(p, db) /\ ServerInTime(p) /\ ResourcesHeld(p) /\ CodeAtTheEnd(p)
  BY <1>1 DEF Sound
<1>4. AllTables \subseteq db.tables \cup {p.todo[n] : n \in 1 .. Len(p.todo)}
  BY <1>2, <1>3 DEF SchemaKnown
<1>5. CASE OsExit1(i)
  BY <1>5, EndPreserves DEF OsExit1
<1>6. CASE p.todo # <<>> /\ Head(p.todo) \in db.tables /\ Set(i, [p EXCEPT !.todo = Tail(@)])
  <2> DEFINE q == [p EXCEPT !.todo = Tail(p.todo)]
  <2>1. Tail(p.todo) \in Seq(AllTables)
    BY <1>2, <1>6
  <2>2. q \in Process
    BY <1>1, <2>1 DEF Process
  <2>3. AllTables \subseteq db.tables \cup {Tail(p.todo)[n] : n \in 1 .. Len(Tail(p.todo))}
    <3> SUFFICES ASSUME NEW t \in AllTables, t \notin db.tables
                 PROVE  \E n \in 1 .. Len(Tail(p.todo)) : Tail(p.todo)[n] = t
      OBVIOUS
    <3>1. PICK n \in 1 .. Len(p.todo) : p.todo[n] = t
      BY <1>4
    <3>2. n # 1
      BY <1>2, <1>6, <3>1
    <3>3. n - 1 \in 1 .. Len(Tail(p.todo)) /\ Tail(p.todo)[n - 1] = t
      BY <1>2, <1>6, <3>1, <3>2
    <3>4. QED
      BY <3>3
  <2>4. /\ q.main = p.main /\ q.conf = p.conf /\ q.seen = p.seen /\ q.todo = Tail(p.todo)
        /\ q.srv = p.srv /\ q.inflight = p.inflight /\ q.jwks = p.jwks /\ q.code = p.code /\ q.pool = p.pool
    BY <1>1 DEF Process
  <2>5. SchemaKnown(q, db)
    BY <1>2, <1>3, <2>3, <2>4 DEF SchemaKnown, PastMigration
  <2>6. ServerInTime(q) /\ ResourcesHeld(q) /\ CodeAtTheEnd(q)
    BY <1>2, <1>3, <2>4 DEF ServerInTime, ResourcesHeld, CodeAtTheEnd, Starting
  <2>7. Sound(q, db)
    BY <2>5, <2>6 DEF Sound
  <2>8. QED
    BY <1>6, <2>2, <2>7, SetPreserves
<1>7. CASE p.todo = <<>> /\ db.version >= 1 /\ GoTo(i, "verifier")
  <2> DEFINE q == [p EXCEPT !.main = "verifier"]
  <2>1. q \in Process /\ Set(i, q)
    BY <1>1, <1>7 DEF Process, MainAt, Starting, GoTo
  <2>2. db.tables = AllTables
    <3>1. 1 .. Len(p.todo) = {}
      BY <1>7
    <3>2. QED
      BY <1>2, <1>4, <3>1
  <2>3. Sound(q, db)
    BY <1>1, <1>2, <1>3, <1>7, <2>2
    DEF Sound, SchemaKnown, PastMigration, ServerInTime, ResourcesHeld, CodeAtTheEnd, Starting, Process
  <2>4. QED
    BY <2>1, <2>3, SetPreserves
<1>8. QED
  BY <1>5, <1>6, <1>7 DEF CheckTable, CheckVersion
-----------------------------------------------------------------------------
\* From the verifier to the point where main() waits for a signal.
LEMMA LaunchingPreserves ==
  ASSUME IInv, NEW i \in Instances, NewVerifier(i) \/ Launch(i) \/ Notify(i)
  PROVE  IInv'
<1> DEFINE p == proc[i]
<1>1. p \in Process /\ Sound(p, db) /\ db \in Schema /\ MaxInFlight \in Nat
  BY LifecycleAssumption DEF IInv, TypeOK
<1>2. CASE OsExit1(i)
  BY <1>2, EndPreserves DEF OsExit1
<1>3. CASE NewVerifier(i) /\ p.conf.jwt /\ Set(i, [p EXCEPT !.jwks = "running", !.main = "launch"])
  <2> DEFINE q == [p EXCEPT !.jwks = "running", !.main = "launch"]
  <2>1. p.main = "verifier"
    BY <1>1, <1>3 DEF NewVerifier, At
  <2>2. q \in Process /\ Set(i, q)
    BY <1>1, <1>3, <2>1 DEF NewVerifier, GoTo, At, Process, MainAt, Starting, Leaving
  <2>3. Sound(q, db)
    BY <1>1, <1>3, <2>1
    DEF Sound, SchemaKnown, PastMigration, ServerInTime, ResourcesHeld, CodeAtTheEnd,
        Starting, Leaving, Process
  <2>4. QED
    BY <2>2, <2>3, SetPreserves
<1>4. CASE NewVerifier(i) /\ ~ p.conf.jwt /\ GoTo(i, "launch")
  <2> DEFINE q == [p EXCEPT !.main = "launch"]
  <2>1. p.main = "verifier"
    BY <1>1, <1>4 DEF NewVerifier, At
  <2>2. q \in Process /\ Set(i, q)
    BY <1>1, <1>4, <2>1 DEF NewVerifier, GoTo, At, Process, MainAt, Starting, Leaving
  <2>3. Sound(q, db)
    BY <1>1, <1>4, <2>1
    DEF Sound, SchemaKnown, PastMigration, ServerInTime, ResourcesHeld, CodeAtTheEnd,
        Starting, Leaving, Process
  <2>4. QED
    BY <2>2, <2>3, SetPreserves
<1>5. CASE Launch(i) /\ Set(i, [p EXCEPT !.srv = "starting", !.main = "notify"])
  <2> DEFINE q == [p EXCEPT !.srv = "starting", !.main = "notify"]
  <2>1. p.main = "launch"
    BY <1>1, <1>5 DEF Launch, At
  <2>2. q \in Process /\ Set(i, q)
    BY <1>1, <1>5, <2>1 DEF Launch, GoTo, At, Process, MainAt, Starting, Leaving
  <2>3. Sound(q, db)
    BY <1>1, <1>5, <2>1
    DEF Sound, SchemaKnown, PastMigration, ServerInTime, ResourcesHeld, CodeAtTheEnd,
        Starting, Leaving, Process
  <2>4. QED
    BY <2>2, <2>3, SetPreserves
<1>6. CASE Notify(i)
  <2> DEFINE q == [p EXCEPT !.main = "wait"]
  <2>1. p.main = "notify"
    BY <1>1, <1>6 DEF Notify, At
  <2>2. q \in Process /\ Set(i, q)
    BY <1>1, <1>6, <2>1 DEF Notify, GoTo, At, Process, MainAt, Starting, Leaving
  <2>3. Sound(q, db)
    BY <1>1, <1>6, <2>1
    DEF Sound, SchemaKnown, PastMigration, ServerInTime, ResourcesHeld, CodeAtTheEnd,
        Starting, Leaving, Process
  <2>4. QED
    BY <2>2, <2>3, SetPreserves
<1>7. QED
  BY <1>2, <1>3, <1>4, <1>5, <1>6 DEF NewVerifier, Launch

\* The server and its handlers.
LEMMA ServingPreserves ==
  ASSUME IInv, NEW i \in Instances, Listen(i) \/ ListenFails(i) \/ Accept(i) \/ Finish(i)
  PROVE  IInv'
<1> DEFINE p == proc[i]
<1>1. p \in Process /\ Sound(p, db) /\ db \in Schema /\ MaxInFlight \in Nat
  BY LifecycleAssumption DEF IInv, TypeOK
<1>2. CASE OsExit1(i)
  BY <1>2, EndPreserves DEF OsExit1
<1>3. CASE Listen(i)
  <2> DEFINE q == [p EXCEPT !.srv = IF p.main \in Leaving THEN "stopped" ELSE "serving"]
  <2>1. p.srv = "starting" /\ p.main \notin Starting \cup {"ended"} /\ p.main \in MainAt
    BY <1>1, <1>3 DEF Listen, At, Sound, ServerInTime, Process
  <2>2. q \in Process /\ Set(i, q)
    BY <1>1, <1>3, <2>1 DEF Listen, GoTo, At, Process, MainAt, Starting, Leaving, Sound, ServerInTime, Process
  <2>3. Sound(q, db)
    <3>1. /\ q.main = p.main /\ q.conf = p.conf /\ q.seen = p.seen /\ q.todo = p.todo /\ q.cut = p.cut
          /\ q.inflight = p.inflight /\ q.jwks = p.jwks /\ q.code = p.code /\ q.pool = p.pool
          /\ q.srv = IF p.main \in Leaving THEN "stopped" ELSE "serving"
      BY <1>1 DEF Process
    <3>2. SchemaKnown(q, db) /\ ResourcesHeld(q) /\ CodeAtTheEnd(q)
      BY <1>1, <2>1, <3>1 DEF Sound, SchemaKnown, PastMigration, ResourcesHeld, CodeAtTheEnd
    <3>3. p.inflight > 0 => p.main \in {"notify", "wait", "signalled", "draining"}
      BY <1>1 DEF Sound, ServerInTime
    <3>4. ServerInTime(q)
      BY <2>1, <3>1, <3>3 DEF ServerInTime, MainAt, Starting, Leaving
    <3>5. QED
      BY <3>2, <3>4 DEF Sound
  <2>4. QED
    BY <2>2, <2>3, SetPreserves
<1>4. CASE Accept(i)
  <2> DEFINE q == [p EXCEPT !.inflight = p.inflight + 1]
  <2>1. p.srv = "serving" /\ p.inflight < MaxInFlight /\ p.inflight \in 0 .. MaxInFlight
    BY <1>1, <1>4 DEF Accept, At, Serving, Process
  <2>2. q \in Process /\ Set(i, q)
    BY <1>1, <1>4, <2>1 DEF Accept, GoTo, At, Process, MainAt, Starting, Leaving, Serving, Process
  <2>3. Sound(q, db)
    BY <1>1, <1>4, <2>1
    DEF Sound, SchemaKnown, PastMigration, ServerInTime, ResourcesHeld, CodeAtTheEnd,
        Starting, Leaving, Process
  <2>4. QED
    BY <2>2, <2>3, SetPreserves
<1>5. CASE Finish(i)
  <2> DEFINE q == [p EXCEPT !.inflight = p.inflight - 1]
  <2>1. p.inflight > 0 /\ p.inflight \in 0 .. MaxInFlight
    BY <1>1, <1>5 DEF Finish, At, Process
  <2>2. q \in Process /\ Set(i, q)
    BY <1>1, <1>5, <2>1 DEF Finish, GoTo, At, Process, MainAt, Starting, Leaving, Process
  <2>3. Sound(q, db)
    BY <1>1, <1>5, <2>1
    DEF Sound, SchemaKnown, PastMigration, ServerInTime, ResourcesHeld, CodeAtTheEnd,
        Starting, Leaving, Process
  <2>4. QED
    BY <2>2, <2>3, SetPreserves
<1>6. QED
  BY <1>2, <1>3, <1>4, <1>5 DEF ListenFails

\* A signal, and the way out of main().
LEMMA LeavingPreserves ==
  ASSUME IInv, NEW i \in Instances,
         Signal(i) \/ Shutdown(i) \/ Drained(i) \/ DrainTimesOut(i) \/ CloseVerifier(i) \/ CloseDatabase(i)
  PROVE  IInv'
<1> DEFINE p == proc[i]
<1>1. p \in Process /\ Sound(p, db) /\ db \in Schema /\ MaxInFlight \in Nat
  BY LifecycleAssumption DEF IInv, TypeOK
<1>2. CASE OsExit1(i)
  BY <1>2, EndPreserves DEF OsExit1
<1>3. CASE Set(i, Ended(p, "killed"))
  BY <1>3, EndPreserves
<1>4. CASE At(i, "wait") /\ GoTo(i, "signalled")
  <2> DEFINE q == [p EXCEPT !.main = "signalled"]
  <2>1. p.main = "wait"
    BY <1>1, <1>4 DEF Signal, At
  <2>2. q \in Process /\ Set(i, q)
    BY <1>1, <1>4, <2>1 DEF Signal, GoTo, At, Process, MainAt, Starting, Leaving
  <2>3. Sound(q, db)
    BY <1>1, <1>4, <2>1
    DEF Sound, SchemaKnown, PastMigration, ServerInTime, ResourcesHeld, CodeAtTheEnd,
        Starting, Leaving, Process
  <2>4. QED
    BY <2>2, <2>3, SetPreserves
<1>5. CASE Shutdown(i)
  <2> DEFINE q == [p EXCEPT !.main = "draining", !.srv = IF p.srv = "serving" THEN "stopped" ELSE p.srv]
  <2>1. p.main = "signalled"
    BY <1>1, <1>5 DEF Shutdown, At
  <2>2. q \in Process /\ Set(i, q)
    BY <1>1, <1>5, <2>1 DEF Shutdown, GoTo, At, Process, MainAt, Starting, Leaving
  <2>3. Sound(q, db)
    BY <1>1, <1>5, <2>1
    DEF Sound, SchemaKnown, PastMigration, ServerInTime, ResourcesHeld, CodeAtTheEnd,
        Starting, Leaving, Process
  <2>4. QED
    BY <2>2, <2>3, SetPreserves
<1>6. CASE Drained(i)
  <2> DEFINE q == [p EXCEPT !.main = "closeVerifier"]
  <2>1. p.main = "draining" /\ p.inflight = 0
    BY <1>1, <1>6 DEF Drained, At
  <2>2. q \in Process /\ Set(i, q)
    BY <1>1, <1>6, <2>1 DEF Drained, GoTo, At, Process, MainAt, Starting, Leaving
  <2>3. Sound(q, db)
    BY <1>1, <1>6, <2>1
    DEF Sound, SchemaKnown, PastMigration, ServerInTime, ResourcesHeld, CodeAtTheEnd,
        Starting, Leaving, Process
  <2>4. QED
    BY <2>2, <2>3, SetPreserves
<1>7. CASE CloseVerifier(i)
  <2> DEFINE q == [p EXCEPT !.main = "closeDatabase", !.jwks = IF p.jwks = "running" THEN "ended" ELSE p.jwks]
  <2>1. p.main = "closeVerifier"
    BY <1>1, <1>7 DEF CloseVerifier, At
  <2>2. q \in Process /\ Set(i, q)
    BY <1>1, <1>7, <2>1 DEF CloseVerifier, GoTo, At, Process, MainAt, Starting, Leaving
  <2>3. Sound(q, db)
    BY <1>1, <1>7, <2>1
    DEF Sound, SchemaKnown, PastMigration, ServerInTime, ResourcesHeld, CodeAtTheEnd,
        Starting, Leaving, Process
  <2>4. QED
    BY <2>2, <2>3, SetPreserves
<1>8. CASE CloseDatabase(i)
  <2> DEFINE q == Ended([p EXCEPT !.pool = "closed"], "zero")
  <2>1. p.main = "closeDatabase" /\ Set(i, q)
    BY <1>8 DEF CloseDatabase, At
  <2>2. /\ q.main = "ended" /\ q.srv = "stopped" /\ q.inflight = 0 /\ q.cut = p.inflight
        /\ q.pool = "closed" /\ q.jwks = p.jwks /\ q.seen = p.seen /\ q.todo = p.todo /\ q.conf = p.conf
    BY <1>1 DEF Ended, Process
  <2>3. p.inflight = 0 /\ p.jwks # "running"
    BY <1>1, <2>1 DEF Sound, ServerInTime, ResourcesHeld, Process
  <2>4. q \in Process
    BY <1>1 DEF Ended, Process, MainAt
  <2>5. SchemaKnown(q, db)
    BY <1>1, <2>2 DEF Sound, SchemaKnown, PastMigration
  <2>6. ServerInTime(q) /\ ResourcesHeld(q) /\ CodeAtTheEnd(q)
    BY <2>2, <2>3 DEF ServerInTime, ResourcesHeld, CodeAtTheEnd, Starting
  <2> HIDE DEF q
  <2>7. QED
    BY <2>1, <2>4, <2>5, <2>6, SetPreserves DEF Sound
<1>9. QED
  BY <1>2, <1>3, <1>4, <1>5, <1>6, <1>7, <1>8 DEF Signal, DrainTimesOut

\* A restarted process knows nothing yet and holds nothing.
LEMMA BootingIsSound ==
  ASSUME NEW c \in Configs, NEW d \in Schema
  PROVE  Booting(c) \in Process /\ Sound(Booting(c), d)
<1> DEFINE q == Booting(c)
<1>1. q \in Process
  BY LifecycleAssumption, RequiredTables DEF Booting, Process, MainAt, Starting
<1>2. /\ q.main = "config" /\ q.seen = 0 /\ q.todo = requiredTables /\ q.srv = "none" /\ q.inflight = 0
      /\ q.pool = "none" /\ q.jwks = "none" /\ q.code = "none"
  BY DEF Booting
<1>3. SchemaKnown(q, d)
  BY <1>2 DEF SchemaKnown, PastMigration
<1>4. ServerInTime(q) /\ ResourcesHeld(q) /\ CodeAtTheEnd(q)
  BY <1>2 DEF ServerInTime, ResourcesHeld, CodeAtTheEnd, Starting
<1>5. QED
  BY <1>1, <1>3, <1>4 DEF Sound

LEMMA RestartPreserves ==
  ASSUME IInv, NEW i \in Instances, Restart(i)
  PROVE  IInv'
<1>1. db \in Schema /\ starts \in 0 .. MaxStarts /\ MaxStarts \in Nat
  BY LifecycleAssumption DEF IInv, TypeOK
<1>2. PICK c \in Configs : proc' = [proc EXCEPT ![i] = Booting(c)]
  BY DEF Restart
<1>3. Booting(c) \in Process /\ Sound(Booting(c), db)
  BY <1>1, BootingIsSound
<1>4. StepTo(i, Booting(c), db) /\ starts' \in 0 .. MaxStarts
  <2>1. starts < MaxStarts /\ starts' = starts + 1 /\ db' = db
    BY DEF Restart
  <2>2. starts' \in 0 .. MaxStarts
    BY <1>1, <2>1
  <2>3. QED
    BY <1>2, <2>1, <2>2 DEF StepTo
<1>5. Grown(db, db)
  BY <1>1 DEF Grown, Schema
<1>6. QED
  BY <1>1, <1>3, <1>4, <1>5, StepPreserves
-----------------------------------------------------------------------------
LEMMA InvInit == Init => IInv
<1> SUFFICES ASSUME Init
             PROVE  IInv
  OBVIOUS
<1>1. db \in Schema /\ starts \in 0 .. MaxStarts /\ proc \in [Instances -> {Booting(c) : c \in Configs}]
  BY LifecycleAssumption DEF Init
<1>2. ASSUME NEW i \in Instances
      PROVE  proc[i] \in Process /\ Sound(proc[i], db)
  <2>1. PICK c \in Configs : proc[i] = Booting(c)
    BY <1>1
  <2>2. QED
    BY <1>1, <2>1, BootingIsSound
<1>3. proc \in [Instances -> Process]
  BY <1>1, <1>2
<1>4. QED
  BY <1>1, <1>2, <1>3 DEF IInv, TypeOK

LEMMA InvNext == IInv /\ [Next]_vars => IInv'
<1> SUFFICES ASSUME IInv, [Next]_vars
             PROVE  IInv'
  OBVIOUS
<1>1. CASE UNCHANGED vars
  BY <1>1 DEF IInv, TypeOK, vars
<1>2. ASSUME NEW i \in Instances,
             \/ Main(i) \/ Listen(i) \/ ListenFails(i) \/ Accept(i) \/ Finish(i)
             \/ Signal(i) \/ Crash(i) \/ Restart(i)
      PROVE  IInv'
  <2>1. CASE LoadConfig(i) \/ OpenDatabase(i) \/ ReadVersion(i)
    BY <2>1, OpeningPreserves
  <2>2. CASE MigrateUp(i)
    BY <2>2, MigrationPreserves
  <2>3. CASE CheckTable(i) \/ CheckVersion(i)
    BY <2>3, CheckPreserves
  <2>4. CASE NewVerifier(i) \/ Launch(i) \/ Notify(i)
    BY <2>4, LaunchingPreserves
  <2>5. CASE Listen(i) \/ ListenFails(i) \/ Accept(i) \/ Finish(i)
    BY <2>5, ServingPreserves
  <2>6. CASE Signal(i) \/ Shutdown(i) \/ Drained(i) \/ DrainTimesOut(i) \/ CloseVerifier(i) \/ CloseDatabase(i)
    BY <2>6, LeavingPreserves
  <2>7. CASE Crash(i)
    BY <2>7, EndPreserves DEF Crash
  <2>8. CASE Restart(i)
    BY <2>8, RestartPreserves
  <2>9. QED
    BY <1>2, <2>1, <2>2, <2>3, <2>4, <2>5, <2>6, <2>7, <2>8 DEF Main
<1>3. QED
  BY <1>1, <1>2 DEF Next

LEMMA AlwaysInv == Spec => []IInv
BY InvInit, InvNext, PTL DEF Spec, Safety

\* The types of database, processes and restarts: among them that main() is at
\* one of its stages and that no handler is counted down below none.
THEOREM TypeCorrect == Spec => []TypeOK
<1>1. IInv => TypeOK
  BY DEF IInv
<1>2. QED
  BY <1>1, AlwaysInv, PTL

\* However many instances migrate, check and crash at once, one that serves has
\* the schema its start-up stages have seen to (main.go, migrate.go, schema_check.go).
THEOREM SchemaIsThere == Spec => []SchemaBeforeService
<1>1. IInv => SchemaBeforeService
  <2> SUFFICES ASSUME IInv, NEW i \in Instances, Serving(i)
               PROVE  /\ proc[i].conf.migrate \/ proc[i].conf.check => db.version >= 1
                      /\ proc[i].conf.check => db.tables = AllTables
    BY DEF SchemaBeforeService
  <2>1. SchemaKnown(proc[i], db) /\ ServerInTime(proc[i])
    BY DEF IInv, Sound
  <2>2. proc[i].main \in {"notify", "wait", "signalled"}
    BY <2>1 DEF ServerInTime, Serving
  <2>3. QED
    BY <2>1, <2>2 DEF SchemaKnown, PastMigration
<1>2. QED
  BY <1>1, AlwaysInv, PTL

\* No handler runs on a closed pool, nor without the refresh of the key set: the
\* deferred calls of main() come after Shutdown has waited.
THEOREM PoolOutlivesHandlers == Spec => []HandlersHaveTheirPool
<1>1. IInv => HandlersHaveTheirPool
  <2> SUFFICES ASSUME IInv, NEW i \in Instances, proc[i].inflight > 0
               PROVE  proc[i].pool = "open" /\ (proc[i].conf.jwt => proc[i].jwks = "running")
    BY DEF HandlersHaveTheirPool
  <2>1. ResourcesHeld(proc[i]) /\ ServerInTime(proc[i])
    BY DEF IInv, Sound
  <2>2. QED
    BY <2>1 DEF ServerInTime, ResourcesHeld
<1>2. QED
  BY <1>1, AlwaysInv, PTL

\* Exit code 0 is an orderly end: no handler was cut off, nothing was left open.
THEOREM ZeroMeansDrained == Spec => []CleanExitMeansDrained
<1>1. IInv => CleanExitMeansDrained
  BY DEF IInv, Sound, CodeAtTheEnd, CleanExitMeansDrained
<1>2. QED
  BY <1>1, AlwaysInv, PTL
\* An instance that has been told to stop takes no new request, also when the signal
\* came before its server had begun to listen (http.Server: Shutdown before ListenAndServe).
THEOREM StoppedTakesNoWork == Spec => NoWorkAfterShutdown
<1>1. IInv /\ [Next]_vars =>
        [\A i \in Instances : proc[i].main \in Leaving =>
            proc'[i].inflight <= proc[i].inflight]_vars
  <2> SUFFICES ASSUME IInv, Next, NEW j \in Instances, proc[j].main \in Leaving
               PROVE  proc'[j].inflight <= proc[j].inflight
    OBVIOUS
  <2> DEFINE p == proc[j]
  <2>1. p \in Process /\ proc \in [Instances -> Process] /\ p.inflight \in Int /\ p.inflight >= 0
        /\ p.main \in {"draining", "closeVerifier", "closeDatabase"} /\ Sound(p, db)
    BY LifecycleAssumption DEF IInv, TypeOK, Process, Leaving
  <2>2. PICK i \in Instances : \/ Main(i) \/ Listen(i) \/ ListenFails(i) \/ Accept(i) \/ Finish(i)
                               \/ Signal(i) \/ Crash(i) \/ Restart(i)
    BY DEF Next
  <2>3. CASE i # j
    <3>1. proc'[j] = proc[j]
      BY <2>1, <2>2, <2>3
      DEF Main, LoadConfig, OpenDatabase, ReadVersion, MigrateUp, CheckTable, CheckVersion, NewVerifier,
          Launch, Notify, Shutdown, Drained, DrainTimesOut, CloseVerifier, CloseDatabase,
          Listen, ListenFails, Accept, Finish, Signal, Crash, Restart, Set, GoTo, OsExit1
    <3>2. QED
      BY <2>1, <3>1
  <2>4. CASE i = j
    <3>1. \A c : Ended(p, c).inflight = 0
      BY DEF Ended
    <3>2. CASE \E c : Set(j, Ended(p, c))
      BY <2>1, <3>1, <3>2 DEF Set
    <3>3. CASE \E m : GoTo(j, m)
      BY <2>1, <3>3 DEF Set, GoTo, Process
    <3>4. CASE Listen(j) \/ Finish(j) \/ CloseVerifier(j)
      <4>1. Listen(j) => p.inflight = proc'[j].inflight
        BY <2>1 DEF Listen, Set, Process
      <4>2. Finish(j) => proc'[j].inflight = p.inflight - 1
        BY <2>1 DEF Finish, Set, Process
      <4>3. CloseVerifier(j) => p.inflight = proc'[j].inflight
        BY <2>1 DEF CloseVerifier, Set, Process
      <4>4. QED
        BY <2>1, <3>4, <4>1, <4>2, <4>3
    <3>5. CASE CloseDatabase(j)
      <4>1. Ended([p EXCEPT !.pool = "closed"], "zero").inflight = 0
        BY DEF Ended
      <4>2. QED
        BY <2>1, <3>5, <4>1 DEF CloseDatabase, Set
    <3>6. ~ Accept(j)
      BY <2>1 DEF Accept, Serving, Sound, ServerInTime
    <3>7. ~ Restart(j)
      BY <2>1 DEF Restart, At
    <3>8. Main(j) => Drained(j) \/ DrainTimesOut(j) \/ CloseVerifier(j) \/ CloseDatabase(j)
      BY <2>1 DEF Main, LoadConfig, OpenDatabase, ReadVersion, MigrateUp, CheckTable, CheckVersion, NewVerifier,
                  Launch, Notify, Shutdown, At
    <3>9. QED
      BY <2>2, <2>4, <3>2, <3>3, <3>4, <3>5, <3>6, <3>7, <3>8
      DEF Drained, DrainTimesOut, ListenFails, Signal, Crash, OsExit1
  <2>5. QED
    BY <2>3, <2>4
<1>2. Spec => Safety
  BY PTL DEF Spec
<1>3. Safety /\ []IInv => NoWorkAfterShutdown
  BY <1>1, PTL DEF Safety, NoWorkAfterShutdown
<1>4. QED
  BY <1>2, <1>3, AlwaysInv, PTL
=============================================================================
