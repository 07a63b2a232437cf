------------------------------ MODULE Lifecycle ------------------------------
(***************************************************************************)
(* The life of the processes of the service: main() from the configuration *)
(* to the listening server, and from a signal to the end, for several      *)
(* instances that start, serve and restart against one database.           *)
(*                                                                         *)
(* main() leaves through one of two doors.  When it returns, the deferred  *)
(* calls run in reverse order and the exit code is 0.  os.Exit(1) runs     *)
(* none of them and takes the handlers in flight with it, as does a signal *)
(* that arrives while nobody has asked to be notified of it.               *)
(***************************************************************************)
EXTENDS Naturals, Sequences

CONSTANTS Instances,    \* processes of the service
          Configs,      \* the environments an instance may be started with
          Databases,    \* the states in which the database may be handed over
          MaxInFlight,  \* bound: requests that one instance handles at a time
          MaxStarts     \* bound: restarts, all instances together

VARIABLES db,     \* tables and schema version, shared by the instances
          proc,   \* instance -> its process
          starts  \* restarts so far

vars == <<db, proc, starts>>

\* config.Config, as far as main() branches on it: the database URL is given,
\* the two start-up flags, JWT_ENABLED, and its issuer, audience and JWKS URL.
Environment == [url : BOOLEAN, migrate : BOOLEAN, check : BOOLEAN,
                jwt : BOOLEAN, keys : BOOLEAN]

requiredTables == <<"bucket_connections", "access_policies", "audit_events">>
AllTables == {requiredTables[n] : n \in 1 .. Len(requiredTables)}
Schema == [tables : SUBSET AllTables, version : 0 .. 1]

ASSUME LifecycleAssumption ==
  /\ Configs \subseteq Environment
  /\ Databases \subseteq Schema
  /\ MaxInFlight \in Nat
  /\ MaxStarts \in Nat

Starting == {"config", "open", "migrate", "migrating", "check", "verifier", "launch"}
Leaving  == {"draining", "closeVerifier", "closeDatabase"}
MainAt   == Starting \cup {"notify", "wait", "signalled"} \cup Leaving \cup {"ended"}

Process == [main : MainAt, conf : Configs,
            srv : {"none", "starting", "serving", "stopped"},
            pool : {"none", "open", "closed"}, jwks : {"none", "running", "ended"},
            seen : 0 .. 1,          \* the version goose found before it migrates
            todo : Seq(AllTables),  \* the tables that CheckSchema has still to look for
            inflight : 0 .. MaxInFlight,
            cut : 0 .. MaxInFlight, \* handlers that the end of the process cut off
            code : {"none", "zero", "one", "killed"}]

Booting(c) ==
  [main |-> "config", conf |-> c, srv |-> "none", pool |-> "none", jwks |-> "none",
   seen |-> 0, todo |-> requiredTables, inflight |-> 0, cut |-> 0, code |-> "none"]

\* The end of a process, with the handlers it had.
Ended(p, code) ==
  [main |-> "ended", conf |-> p.conf, srv |-> "stopped", pool |-> p.pool, jwks |-> p.jwks,
   seen |-> p.seen, todo |-> p.todo, inflight |-> 0, cut |-> p.inflight, code |-> code]

Init == /\ db \in Databases
        /\ proc \in [Instances -> {Booting(c) : c \in Configs}]
        /\ starts = 0

At(i, m) == proc[i].main = m
Alive(i) == ~ At(i, "ended")
Serving(i) == proc[i].srv = "serving"

Set(i, p)    == proc' = [proc EXCEPT ![i] = p] /\ UNCHANGED <<db, starts>>
GoTo(i, m)   == Set(i, [proc[i] EXCEPT !.main = m])
OsExit1(i)   == Set(i, Ended(proc[i], "one"))

-----------------------------------------------------------------------------
(* Start-up: each stage fails fast. *)

\* Config.Validate.
Valid(c) == c.url /\ (c.jwt => c.keys)

LoadConfig(i) ==
  /\ At(i, "config")
  /\ IF Valid(proc[i].conf) THEN GoTo(i, "open") ELSE OsExit1(i)

AfterMigration(c) == IF c.check THEN "check" ELSE "verifier"
AfterOpen(c)      == IF c.migrate THEN "migrate" ELSE AfterMigration(c)

\* database.Open: a pool, and a ping with a deadline.
OpenDatabase(i) ==
  /\ At(i, "open")
  /\ \/ Set(i, [proc[i] EXCEPT !.pool = "open", !.main = AfterOpen(proc[i].conf)])
     \/ OsExit1(i)

\* goose.Up reads the version first; no lock keeps another instance away.
ReadVersion(i) ==
  /\ At(i, "migrate")
  /\ \/ Set(i, [proc[i] EXCEPT !.seen = db.version, !.main = "migrating"])
     \/ OsExit1(i)

\* Nothing is pending, or the migration runs as one transaction, which cannot
\* create a table that is there by now.
MigrateUp(i) ==
  /\ At(i, "migrating")
  /\ \/ /\ proc[i].seen = 1
        /\ GoTo(i, AfterMigration(proc[i].conf))
     \/ /\ proc[i].seen = 0
        /\ db.tables = {}
        /\ db' = [tables |-> AllTables, version |-> 1]
        /\ proc' = [proc EXCEPT ![i].main = AfterMigration(proc[i].conf)]
        /\ UNCHANGED starts
     \/ OsExit1(i)

\* CheckSchema: a query for each table in turn, then the version.
CheckTable(i) ==
  /\ At(i, "check")
  /\ proc[i].todo # <<>>
  /\ \/ /\ Head(proc[i].todo) \in db.tables
        /\ Set(i, [proc[i] EXCEPT !.todo = Tail(@)])
     \/ OsExit1(i)

\* A plausible bug, for the mutants: the version is taken for granted once the tables are there.
CheckNoVersion(i) == At(i, "check") /\ proc[i].todo = <<>> /\ GoTo(i, "verifier")

CheckVersion(i) ==
  /\ At(i, "check")
  /\ proc[i].todo = <<>>
  /\ \/ /\ db.version >= 1
        /\ GoTo(i, "verifier")
     \/ OsExit1(i)

\* NewJWTVerifier fetches the key set and leaves a goroutine that refreshes it.
NewVerifier(i) ==
  /\ At(i, "verifier")
  /\ \/ /\ proc[i].conf.jwt
        /\ Set(i, [proc[i] EXCEPT !.jwks = "running", !.main = "launch"])
     \/ /\ ~ proc[i].conf.jwt
        /\ GoTo(i, "launch")
     \/ /\ proc[i].conf.jwt
        /\ OsExit1(i)

\* The session cache, which wants the AWS configuration, the services and the router, and
\* a goroutine for the server.
Launch(i) ==
  /\ At(i, "launch")
  /\ \/ Set(i, [proc[i] EXCEPT !.srv = "starting", !.main = "notify"])
     \/ OsExit1(i)

\* signal.NotifyContext: from here on a signal does not end the process.
Notify(i) == At(i, "notify") /\ GoTo(i, "wait")

-----------------------------------------------------------------------------
(* The server's goroutine and its handlers. *)

\* A plausible bug, for the mutants: a server that is not told that Shutdown came first.
ListenAnyway(i) == proc[i].srv = "starting" /\ Set(i, [proc[i] EXCEPT !.srv = "serving"])

\* ListenAndServe; after Shutdown it returns ErrServerClosed.
Listen(i) ==
  /\ proc[i].srv = "starting"
  /\ Set(i, [proc[i] EXCEPT !.srv =
                IF proc[i].main \in Leaving THEN "stopped" ELSE "serving"])

ListenFails(i) == proc[i].srv \in {"starting", "serving"} /\ OsExit1(i)

Accept(i) ==
  /\ Serving(i)
  /\ proc[i].inflight < MaxInFlight
  /\ Set(i, [proc[i] EXCEPT !.inflight = @ + 1])

Finish(i) ==
  /\ proc[i].inflight > 0
  /\ Set(i, [proc[i] EXCEPT !.inflight = @ - 1])

-----------------------------------------------------------------------------
(* The end. *)

\* SIGINT or SIGTERM.  Once main() has called stop(), on its way out, a signal
\* again does what it did before NotifyContext.
Signal(i) ==
  /\ Alive(i)
  /\ \/ At(i, "wait") /\ GoTo(i, "signalled")
     \/ /\ proc[i].main \in Starting \cup {"notify", "closeVerifier", "closeDatabase"}
        /\ Set(i, Ended(proc[i], "killed"))

\* server.Shutdown closes the listener and waits for the handlers ...
Shutdown(i) ==
  /\ At(i, "signalled")
  /\ Set(i, [proc[i] EXCEPT !.main = "draining",
                            !.srv = IF @ = "serving" THEN "stopped" ELSE @])

\* A plausible bug, for the mutants: Shutdown runs in a goroutine and main() does not wait for it.
DrainedAtOnce(i) == At(i, "draining") /\ GoTo(i, "closeVerifier")

\* ... until none is left, and the deferred calls run ...
Drained(i) ==
  /\ At(i, "draining")
  /\ proc[i].inflight = 0
  /\ GoTo(i, "closeVerifier")

\* A plausible bug, for the mutants: no deadline.
DrainNeverTimesOut(i) == At(i, "draining") /\ proc[i].inflight = 0 /\ OsExit1(i)

\* ... or until the deadline, and none of them runs.
DrainTimesOut(i) == At(i, "draining") /\ OsExit1(i)

CloseVerifier(i) ==
  /\ At(i, "closeVerifier")
  /\ Set(i, [proc[i] EXCEPT !.main = "closeDatabase",
                            !.jwks = IF @ = "running" THEN "ended" ELSE @])

CloseDatabase(i) ==
  /\ At(i, "closeDatabase")
  /\ Set(i, Ended([proc[i] EXCEPT !.pool = "closed"], "zero"))

\* SIGKILL, or the machine goes.
Crash(i) == Alive(i) /\ Set(i, Ended(proc[i], "killed"))

\* The container is restarted, perhaps with another environment.
Restart(i) ==
  /\ At(i, "ended")
  /\ starts < MaxStarts
  /\ \E c \in Configs : proc' = [proc EXCEPT ![i] = Booting(c)]
  /\ starts' = starts + 1
  /\ UNCHANGED db

Main(i) == \/ LoadConfig(i) \/ OpenDatabase(i) \/ ReadVersion(i) \/ MigrateUp(i)
           \/ CheckTable(i) \/ CheckVersion(i) \/ NewVerifier(i) \/ Launch(i)
           \/ Notify(i) \/ Shutdown(i) \/ Drained(i) \/ DrainTimesOut(i)
           \/ CloseVerifier(i) \/ CloseDatabase(i)

Next == \E i \in Instances :
          \/ Main(i)
          \/ Listen(i) \/ ListenFails(i) \/ Accept(i) \/ Finish(i)
          \/ Signal(i) \/ Crash(i) \/ Restart(i)

\* main() goes on, as every call it waits for returns: the ping and Shutdown
\* have deadlines, goose and the schema check rely on the database's answer.
\* Nothing is assumed of handlers, which may hang.
Safety == Init /\ [][Next]_vars
Spec   == Safety /\ \A i \in Instances : WF_vars(Main(i))

-----------------------------------------------------------------------------
\* Types of the whole state; the bounds on the handlers are part of them.
TypeOK == /\ db \in Schema
          /\ proc \in [Instances -> Process]
          /\ starts \in 0 .. MaxStarts

\* Whatever other instances do to the schema at the same time, an instance
\* accepts requests only when its start-up stages have seen to it: with
\* DB_MIGRATE_ON_STARTUP the migration is in, with DB_SCHEMA_CHECK_ON_STARTUP
\* all tables exist as well (the two stages of main(), each of which fails fast).
SchemaBeforeService ==
  \A i \in Instances : Serving(i) =>
    /\ proc[i].conf.migrate \/ proc[i].conf.check => db.version >= 1
    /\ proc[i].conf.check => db.tables = AllTables

\* No handler runs on a closed pool or with a verifier whose refresh has been
\* stopped: main() runs the deferred calls only after Shutdown has waited.
HandlersHaveTheirPool ==
  \A i \in Instances : proc[i].inflight > 0 =>
    /\ proc[i].pool = "open"
    /\ proc[i].conf.jwt => proc[i].jwks = "running"

\* An exit code of 0 means an orderly end: nobody was cut off, the pool is
\* closed and no refresh goroutine was left running.  A supervisor relies on
\* the code of main() for that.
CleanExitMeansDrained ==
  \A i \in Instances : proc[i].code = "zero" =>
    /\ proc[i].cut = 0
    /\ proc[i].pool = "closed"
    /\ proc[i].jwks # "running"

\* An instance that has been told to stop takes no new work, also when the
\* signal comes before its server goroutine has begun to listen.
NoWorkAfterShutdown ==
  [][\A i \in Instances : proc[i].main \in Leaving =>
        proc'[i].inflight <= proc[i].inflight]_vars

\* A signal that main() has taken ends the process, though handlers may hang.
SignalsEndTheProcess ==
  \A i \in Instances : At(i, "signalled") ~> At(i, "ended")

=============================================================================
