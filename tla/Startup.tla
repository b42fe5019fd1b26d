------------------------------ MODULE Startup ------------------------------
(***************************************************************************)
(* The life of the server's processes (server/cmd/main.go, with the parts  *)
(* of database, usersdb, cache, flight and oauth2/providers that it calls  *)
(* at start-up): the configuration is loaded, the schema created or        *)
(* probed, Redis and the provider reached, the listener published; then    *)
(* requests are served until the exit closes everything again.  Instances  *)
(* share a database and an environment; each has a socket path of its own. *)
(*                                                                         *)
(* go-lifecycle is external: the exit is handled once run has returned,    *)
(* and runs what OnExit registered, the latest first.                      *)
(***************************************************************************)
EXTENDS Config, SequencesExt

CONSTANTS
    Instance,
    Environments,   \* [toggles, values, tables]: the tables there are before any start
    MaxStarts       \* bound: how many processes are started

Table == {"users", "devices"}

\* The devices reference the users, before any start as well.
ASSUME StartupAssumption ==
    /\ MaxStarts \in Nat
    /\ \A e \in Environments :
        e.tables \subseteq Table /\ ("devices" \in e.tables => "users" \in e.tables)

\* A variable that holds a duration is unset, or a text.
ASSUME TextAssumption ==
    \A e \in Environments :
        \A text \in {e.values.access, e.values.refresh, e.values.lifetime, e.values.cleanup} :
            text = Unset \/ text \in Seq(Part)

None == "none"

VARIABLES
    env,            \* the environment
    tables,         \* the tables that are committed
    phase,          \* where a process is in its life
    todo,           \* the calls run has still to make
    tx,             \* the table whose transaction is open: it holds the advisory lock
    made,           \* the open transaction has created the table
    waits,          \* the discovery is backing off
    expired,        \* the deadline of the discovery, or of Shutdown, has passed
    temp,           \* the socket file at the temporary path
    after,          \* the socket file at the configured path
    closers,        \* what OnExit registered, in order
    busy,           \* the request that is being served
    starts,         \* how many processes were started
    faulty          \* a call of this start failed in the world outside

dbvars == <<tables, tx, made>>
filevars == <<temp, after>>
vars == <<env, tables, phase, todo, tx, made, waits, expired, temp, after,
          closers, busy, starts, faulty>>

cfg == Load(env.toggles, env.values)

-----------------------------------------------------------------------------
(* run: the calls it makes, in order                                       *)

Do(op, on) == <<[op |-> op, on |-> on]>>
When(b, calls) == IF b THEN calls ELSE <<>>

CreateSchema(t) == Do("lock", t) \o Do("create", t) \o Do("commit", t)

\* Faulty: a users table of its own is taken for granted.
NewStoreUnprobed(c) ==
    When(~c.external /\ c.auto, CreateSchema("users"))
    \o When(c.external /\ c.column, Do("probe", "users"))

\* The users table: created, or looked at, its own or another program's.
NewStore(c) ==
    When(~c.external /\ c.auto, CreateSchema("users"))
    \o When(IF c.external THEN c.column ELSE ~c.auto, Do("probe", "users"))

\* database.open; the cleanup worker starts at its end.
OpenDevices(c) == Do("call", "ping") \o When(c.auto, CreateSchema("devices"))

OpenDatabase(c) == Do("open", "sql") \o NewStore(c) \o OpenDevices(c) \o Do("open", "store")

NewOAuth2Client(c) == When(c.oidc, Do("discover", "issuer"))

\* Faulty: the socket is published before every user may connect to it.
PublishEarly(c) ==
    When(c.unix, Do("call", "mkdir") \o Do("remove", "temp") \o Do("remove", "after")
                 \o Do("bind", "temp") \o Do("rename", "temp") \o Do("chmod", "temp"))
    \o Do("open", "listener")

CreateListener(c) ==
    When(c.unix, Do("call", "mkdir") \o Do("remove", "temp") \o Do("remove", "after")
                 \o Do("bind", "temp") \o Do("chmod", "temp") \o Do("rename", "temp"))
    \o Do("open", "listener")

\* Faulty: Shutdown is registered first, so the exit reaches it last.
RunServerFirst(c) ==
    Do("open", "server") \o When(c.db, OpenDatabase(c)) \o When(c.redis, Do("open", "redis"))
    \o Do("open", "deviceCache") \o NewOAuth2Client(c)
    \o Do("open", "flight") \o Do("call", "stateCache") \o CreateListener(c)

Run(c) ==
    When(c.db, OpenDatabase(c)) \o When(c.redis, Do("open", "redis"))
    \o Do("open", "deviceCache") \o NewOAuth2Client(c)
    \o Do("open", "flight") \o Do("call", "stateCache")
    \o CreateListener(c) \o Do("open", "server")

\* RegisterRoutes: the requests there are, and what each one uses.
Routes(c) ==
    {"health"} \cup (IF c.db THEN {"verify", "refresh"} ELSE {})
               \cup (IF c.oauth2 THEN {"login"} ELSE {})

Uses(c, r) ==
    {x \in {"sql", "deviceCache", "redis", "flight"} :
        /\ r # "health"
        /\ x \in {"sql", "deviceCache"} => c.db
        /\ x = "redis" => c.redis
        /\ x = "flight" => r \in {"refresh", "login"}}

-----------------------------------------------------------------------------
(* The steps of a start                                                    *)

At(i, op) == phase[i] = "starting" /\ todo[i] # <<>> /\ Head(todo[i]).op = op
On(i) == Head(todo[i]).on
Alive(i) == phase[i] \in {"starting", "serving", "closing"}

\* The call at the head of todo is done.
Proceed(i) ==
    /\ todo' = [todo EXCEPT ![i] = Tail(@)]
    /\ phase' = [phase EXCEPT ![i] = IF Len(todo[i]) = 1 THEN "serving" ELSE @]

\* A socket that nobody listens on any more: its file stays.
Left(file) == IF file \in {"private", "open"} THEN "stale" ELSE file

\* The process is gone.  Its transaction is rolled back and its lock released.
Gone(i, p) ==
    /\ phase' = [phase EXCEPT ![i] = p]
    /\ todo' = [todo EXCEPT ![i] = <<>>]
    /\ tx' = [tx EXCEPT ![i] = None] /\ made' = [made EXCEPT ![i] = FALSE]
    /\ waits' = [waits EXCEPT ![i] = FALSE] /\ expired' = [expired EXCEPT ![i] = FALSE]
    /\ closers' = [closers EXCEPT ![i] = <<>>] /\ busy' = [busy EXCEPT ![i] = None]

\* Load: run fails on any error, before it has opened anything.
Start(i) ==
    /\ phase[i] \in {"off", "failed", "stopped"} /\ starts < MaxStarts
    /\ starts' = starts + 1
    /\ faulty' = [faulty EXCEPT ![i] = FALSE]
    /\ IF LoadErrors(env.toggles, env.values) = {}
       THEN /\ phase' = [phase EXCEPT ![i] = "starting"]
            /\ todo' = [todo EXCEPT ![i] = Run(cfg)]
       ELSE phase' = [phase EXCEPT ![i] = "failed"] /\ UNCHANGED todo
    /\ UNCHANGED <<env, dbvars, filevars, waits, expired, closers, busy>>

\* Faulty: no advisory lock, the schemas are created side by side.
LockFreeAlways(i, t) == TRUE

LockFree(i, t) == \A j \in Instance \ {i} : tx[j] # t

Lock(i) ==
    /\ At(i, "lock") /\ LockFree(i, On(i))
    /\ tx' = [tx EXCEPT ![i] = On(i)]
    /\ Proceed(i)
    /\ UNCHANGED <<env, tables, made, waits, expired, filevars, closers, busy, starts, faulty>>

\* Postgres refuses a table that another open transaction has created, and a
\* reference to a table that is not there.
Creatable(i, t) ==
    /\ \A j \in Instance \ {i} : ~(tx[j] = t /\ made[j])
    /\ t = "devices" => "users" \in tables

Create(i) ==
    /\ At(i, "create")
    /\ IF On(i) \in tables \/ Creatable(i, On(i))
       THEN /\ made' = [made EXCEPT ![i] = On(i) \notin tables]
            /\ Proceed(i)
            /\ UNCHANGED <<tx, waits, expired, closers, busy>>
       ELSE Gone(i, "failed")
    /\ UNCHANGED <<env, tables, filevars, starts, faulty>>

\* Faulty: the lock outlives the transaction.
CommitKeepsLock(i) ==
    /\ At(i, "commit")
    /\ tables' = IF made[i] THEN tables \cup {tx[i]} ELSE tables
    /\ made' = [made EXCEPT ![i] = FALSE]
    /\ Proceed(i)
    /\ UNCHANGED <<env, tx, waits, expired, filevars, closers, busy, starts, faulty>>

Commit(i) ==
    /\ At(i, "commit")
    /\ tables' = IF made[i] THEN tables \cup {tx[i]} ELSE tables
    /\ tx' = [tx EXCEPT ![i] = None] /\ made' = [made EXCEPT ![i] = FALSE]
    /\ Proceed(i)
    /\ UNCHANGED <<env, waits, expired, filevars, closers, busy, starts, faulty>>

Probe(i) ==
    /\ At(i, "probe")
    /\ IF On(i) \in tables
       THEN Proceed(i) /\ UNCHANGED <<tx, made, waits, expired, closers, busy>>
       ELSE Gone(i, "failed")
    /\ UNCHANGED <<env, tables, filevars, starts, faulty>>

Call(i) ==
    /\ At(i, "call") /\ Proceed(i)
    /\ UNCHANGED <<env, dbvars, waits, expired, filevars, closers, busy, starts, faulty>>

\* A resource is opened and its closer registered.
Open(i) ==
    /\ At(i, "open") /\ Proceed(i)
    /\ closers' = [closers EXCEPT ![i] = Append(@, On(i))]
    /\ UNCHANGED <<env, dbvars, waits, expired, filevars, busy, starts, faulty>>

-----------------------------------------------------------------------------
(* FetchDiscovery, with a deadline of 30 seconds                           *)

\* Faulty: the loop does not look at its context.
TimeIsUpNever(i) == FALSE

TimeIsUp(i) == expired[i]

\* The document is there, and complete.
Discovered(i) ==
    /\ At(i, "discover") /\ ~waits[i] /\ ~TimeIsUp(i)
    /\ expired' = [expired EXCEPT ![i] = FALSE]     \* discoveryCancel
    /\ Proceed(i)
    /\ UNCHANGED <<env, dbvars, waits, filevars, closers, busy, starts, faulty>>

\* No answer, a status of 500 or above, 429, or half a body: once more.
Retryable(i) ==
    /\ At(i, "discover") /\ ~waits[i] /\ ~TimeIsUp(i)
    /\ waits' = [waits EXCEPT ![i] = TRUE]
    /\ faulty' = [faulty EXCEPT ![i] = TRUE]
    /\ UNCHANGED <<env, dbvars, phase, todo, expired, filevars, closers, busy, starts>>

\* Two seconds have passed, or the deadline.
Backoff(i) ==
    /\ At(i, "discover") /\ waits[i]
    /\ waits' = [waits EXCEPT ![i] = FALSE]
    /\ UNCHANGED <<env, dbvars, phase, todo, expired, filevars, closers, busy, starts, faulty>>

\* Another status, a document that does not decode or lacks an endpoint or the
\* issuer; or the deadline has passed.
DiscoveryFails(i) ==
    /\ At(i, "discover") /\ ~waits[i]
    /\ faulty' = [faulty EXCEPT ![i] = TRUE]
    /\ Gone(i, "failed")
    /\ UNCHANGED <<env, tables, filevars, starts>>

DiscoveryDeadline(i) ==
    /\ At(i, "discover") /\ ~expired[i]
    /\ expired' = [expired EXCEPT ![i] = TRUE]
    /\ UNCHANGED <<env, dbvars, phase, todo, waits, filevars, closers, busy, starts, faulty>>

-----------------------------------------------------------------------------
(* createListener, on a Unix socket                                        *)

\* What Remove returns is ignored.
Unlink(i) ==
    /\ At(i, "remove") /\ Proceed(i)
    /\ temp' = IF On(i) = "temp" THEN [temp EXCEPT ![i] = "absent"] ELSE temp
    /\ after' = IF On(i) = "after" THEN [after EXCEPT ![i] = "absent"] ELSE after
    /\ UNCHANGED <<env, dbvars, waits, expired, closers, busy, starts, faulty>>

\* A file in the way is an address in use.
Bind(i) ==
    /\ At(i, "bind")
    /\ IF temp[i] = "absent"
       THEN /\ temp' = [temp EXCEPT ![i] = "private"]
            /\ Proceed(i)
            /\ UNCHANGED <<tx, made, waits, expired, closers, busy>>
       ELSE Gone(i, "failed") /\ UNCHANGED temp
    /\ UNCHANGED <<env, tables, after, starts, faulty>>

Chmod(i) ==
    /\ At(i, "chmod") /\ Proceed(i)
    /\ temp' = [temp EXCEPT ![i] = "open"]
    /\ UNCHANGED <<env, dbvars, waits, expired, after, closers, busy, starts, faulty>>

Rename(i) ==
    /\ At(i, "rename") /\ Proceed(i)
    /\ after' = [after EXCEPT ![i] = temp[i]]
    /\ temp' = [temp EXCEPT ![i] = "absent"]
    /\ UNCHANGED <<env, dbvars, waits, expired, closers, busy, starts, faulty>>

-----------------------------------------------------------------------------
(* Faults                                                                  *)

\* These calls cannot fail, or their errors are ignored.
Infallible == {"store", "server"}

\* A call fails and run returns its error.  A commit that fails may have been
\* done.  A socket that was bound is closed and its file removed.
CallFails(i) ==
    /\ phase[i] = "starting" /\ ~At(i, "remove") /\ ~At(i, "discover")
    /\ On(i) \notin Infallible
    /\ faulty' = [faulty EXCEPT ![i] = TRUE]
    /\ tables' \in {tables, IF At(i, "commit") /\ made[i] THEN tables \cup {tx[i]} ELSE tables}
    /\ temp' = IF At(i, "chmod") \/ At(i, "rename") THEN [temp EXCEPT ![i] = "absent"] ELSE temp
    /\ Gone(i, "failed")
    /\ UNCHANGED <<env, after, starts>>

\* The process is killed, in a start or later.
Crash(i) ==
    /\ Alive(i)
    /\ temp' = [temp EXCEPT ![i] = Left(@)] /\ after' = [after EXCEPT ![i] = Left(@)]
    /\ Gone(i, "off")
    /\ UNCHANGED <<env, tables, starts, faulty>>

-----------------------------------------------------------------------------
(* Requests and the exit                                                   *)

Request(i) ==
    /\ phase[i] = "serving" /\ busy[i] = None
    /\ \E r \in Routes(cfg) : busy' = [busy EXCEPT ![i] = r]
    /\ UNCHANGED <<env, dbvars, phase, todo, waits, expired, filevars, closers, starts, faulty>>

Answered(i) ==
    /\ Alive(i) /\ busy[i] # None
    /\ busy' = [busy EXCEPT ![i] = None]
    /\ UNCHANGED <<env, dbvars, phase, todo, waits, expired, filevars, closers, starts, faulty>>

\* A signal, or Serve has returned an error.  Shutdown closes the listener before
\* it waits; the listener removes the path it was bound to, not the configured one.
Exit(i) ==
    /\ phase[i] = "serving"
    /\ phase' = [phase EXCEPT ![i] = "closing"]
    /\ temp' = [temp EXCEPT ![i] = "absent"] /\ after' = [after EXCEPT ![i] = Left(@)]
    /\ UNCHANGED <<env, dbvars, todo, waits, expired, closers, busy, starts, faulty>>

ShutdownDeadline(i) ==
    /\ phase[i] = "closing" /\ Last(closers[i]) = "server" /\ ~expired[i]
    /\ expired' = [expired EXCEPT ![i] = TRUE]
    /\ UNCHANGED <<env, dbvars, phase, todo, waits, filevars, closers, busy, starts, faulty>>

\* Faulty: Shutdown waits for its requests for ever.
ShutdownDoneUnbounded(i) == busy[i] = None

\* Shutdown returns when no request is left, or at its deadline.
ShutdownDone(i) == busy[i] = None \/ expired[i]

\* The handler registered last runs; with the last one left the process ends.
Close(i) ==
    /\ phase[i] = "closing"
    /\ Last(closers[i]) = "server" => ShutdownDone(i)
    /\ IF Len(closers[i]) = 1
       THEN Gone(i, "stopped")
       ELSE /\ closers' = [closers EXCEPT ![i] = Front(@)]
            /\ UNCHANGED <<phase, todo, tx, made, waits, expired, busy>>
    /\ UNCHANGED <<env, tables, filevars, starts, faulty>>

-----------------------------------------------------------------------------

Init ==
    /\ env \in Environments /\ tables = env.tables
    /\ phase = [i \in Instance |-> "off"]
    /\ todo = [i \in Instance |-> <<>>] /\ closers = [i \in Instance |-> <<>>]
    /\ tx = [i \in Instance |-> None] /\ busy = [i \in Instance |-> None]
    /\ made = [i \in Instance |-> FALSE] /\ waits = [i \in Instance |-> FALSE]
    /\ expired = [i \in Instance |-> FALSE] /\ faulty = [i \in Instance |-> FALSE]
    /\ temp = [i \in Instance |-> "absent"] /\ after = [i \in Instance |-> "absent"]
    /\ starts = 0

\* What the process does by itself once it runs.
Progress(i) ==
    \/ Lock(i) \/ Create(i) \/ Commit(i) \/ Probe(i) \/ Call(i) \/ Open(i)
    \/ Discovered(i) \/ Retryable(i) \/ Backoff(i) \/ DiscoveryFails(i)
    \/ Unlink(i) \/ Bind(i) \/ Chmod(i) \/ Rename(i) \/ Close(i)

Deadline(i) == DiscoveryDeadline(i) \/ ShutdownDeadline(i)

Next ==
    \E i \in Instance :
        \/ Start(i) \/ Progress(i) \/ Deadline(i)
        \/ CallFails(i) \/ Crash(i) \/ Request(i) \/ Answered(i) \/ Exit(i)

Spec == Init /\ [][Next]_vars

\* A process runs its own code, and time passes.  That a request is ever answered,
\* or that the issuer is ever reached, is not assumed.
LiveSpec == Spec /\ \A i \in Instance : WF_vars(Progress(i)) /\ WF_vars(Deadline(i))

-----------------------------------------------------------------------------
(* Properties                                                              *)

File == {"absent", "stale", "private", "open"}

\* The shape of every variable; a transaction is open exactly between its lock and
\* its commit.
StartupTypeOK ==
    /\ env \in Environments /\ tables \subseteq Table
    /\ phase \in [Instance -> {"off", "starting", "serving", "closing", "failed", "stopped"}]
    /\ \A i \in Instance : (phase[i] = "starting") <=> (todo[i] # <<>>)
    /\ tx \in [Instance -> Table \cup {None}]
    /\ \A i \in Instance :
        /\ (tx[i] # None) <=> (At(i, "create") \/ At(i, "commit"))
        /\ made[i] => At(i, "commit")
    /\ made \in [Instance -> BOOLEAN] /\ waits \in [Instance -> BOOLEAN]
    /\ expired \in [Instance -> BOOLEAN] /\ faulty \in [Instance -> BOOLEAN]
    /\ temp \in [Instance -> File] /\ after \in [Instance -> File]
    /\ busy \in [Instance -> {None, "health", "verify", "refresh", "login"}]
    /\ starts \in 0..MaxStarts

\* The durations of the environment, each with the unit of a bare number.
Durations ==
    LET v == env.values IN
    {<<v.access, 0>>, <<v.refresh, 0>>}
        \cup (IF cfg.db THEN {<<v.lifetime, Unit["m"]>>, <<v.cleanup, Unit["h"]>>} ELSE {})

Meant(d) == d[1] = Unset \/ (WellFormed(d[1], d[2]) /\ ExactLength(d[1], d[2]) <= MaxInt)

\* duration.go:54,65 and config.go:212: a process runs only with the lifetimes
\* its environment spells out, positive and never the outcome of an overflow; and
\* a text that names a length int64 can hold is parsed to that length.
DurationsAreMeant ==
    \A i \in Instance :
        /\ Alive(i) =>
            /\ \A d \in Durations : Meant(d)
            /\ cfg.access > 0 /\ cfg.refresh > 0
        /\ phase[i] # "off" =>
            \A d \in Durations :
                Meant(d) /\ d[1] # Unset => Duration(d[1], d[2]) = ExactLength(d[1], d[2])

\* database.go:79, usersdb.go:23, main.go:241: a start fails because of the
\* configuration, of a table it was told to expect, or of a call that failed in the
\* world outside.  It never fails because another instance starts beside it, nor
\* because of the transaction or the files that a killed one has left.
StartFailsOnlyWithReason ==
    \A i \in Instance :
        phase[i] = "failed" /\ ~faulty[i] =>
            \/ LoadErrors(env.toggles, env.values) # {}
            \/ /\ cfg.db /\ "users" \notin tables
               /\ IF cfg.external THEN cfg.auto \/ cfg.column ELSE ~cfg.auto

\* main.go:240-252: the configured path never holds a socket that not every user
\* may connect to, and holds the live one while the process serves.
PublishedSocketIsOpen ==
    \A i \in Instance :
        /\ after[i] # "private"
        /\ phase[i] = "serving" /\ cfg.unix => after[i] = "open" /\ temp[i] = "absent"

\* main.go:48, usersdb.go:83, database.go:57: a process that serves from a
\* database has the tables its options promise, whichever instance committed them.
ServesWithItsSchema ==
    \A i \in Instance :
        phase[i] = "serving" /\ cfg.db =>
            /\ ~cfg.external => "users" \in tables
            /\ cfg.auto => Table \subseteq tables

\* main.go:153: what a request uses stays open until the request is answered, or
\* until Shutdown has waited for it as long as it may.
RequestsKeepTheirResources ==
    \A i \in Instance :
        busy[i] # None /\ ~expired[i] =>
            Uses(cfg, busy[i]) \subseteq {closers[i][k] : k \in DOMAIN closers[i]}

\* oidc.go:76, main.go:202: a start comes to an end, whatever the issuer answers.
StartUpEnds ==
    \A i \in Instance : phase[i] = "starting" ~> phase[i] # "starting"

\* main.go:155: an exit comes to an end, whatever the requests do.
ExitEnds ==
    \A i \in Instance : phase[i] = "closing" ~> phase[i] # "closing"
=============================================================================
