------------------------------- MODULE Flight -------------------------------
(***************************************************************************)
(* flight.Do (server/internal/flight/flight.go) for one key: calls with    *)
(* that key on one instance share a singleflight call, and instances share *)
(* a Redis lock and a stored result, so that fn runs once for calls that   *)
(* overlap.  fn is whatever the caller passes (the rotation of /refresh,   *)
(* the exchange of /callback): here it takes time and then succeeds or     *)
(* fails.  A stored result is represented by the process whose run it is.  *)
(***************************************************************************)
EXTENDS Naturals, FiniteSets

CONSTANTS
    Instance,       \* server processes
    Proc,           \* calls in progress, each on one instance
    Home,           \* Home[p] is the instance that runs p
    Redis,          \* TRUE: lock and results in Redis; FALSE: in memory
    InFlightOnly,   \* the call option of that name (/callback uses it)
    Timeouts,       \* whether a call can reach the deadline of its context
    None,
    MaxFaults       \* bound on Redis errors, lost locks and crashes

ASSUME HomeAssumption == Home \in [Proc -> Instance]
ASSUME ModeAssumption ==
    /\ Redis \in BOOLEAN /\ InFlightOnly \in BOOLEAN /\ Timeouts \in BOOLEAN
    /\ ~Redis => \A i, j \in Instance : i = j
    /\ None \notin Proc /\ MaxFaults \in Nat

VARIABLES
    pc,         \* where each call is
    answer,     \* what Do returned
    leader,     \* leader[i]: the call that instance i's singleflight runs
    lock,       \* whether the Redis lock is "free" or "taken"
    holds,      \* calls whose lockCtx still holds the lock
    stored,     \* whose run the stored result is
    completed,  \* calls with completedBeforeStart
    local,      \* calls that run fn without the lock ("running locally")
    ended,      \* calls whose context has reached its deadline
    faults,
    older,      \* history: calls that began when the present result was stored
    during,     \* history: calls under way when a result was stored
    reused      \* history: calls in older that were answered with the stored result

calls == <<pc, answer, leader>>
shared == <<lock, holds, stored>>
history == <<older, during, reused>>
fvars == <<calls, shared, completed, local, ended, faults, history>>

PC == {"idle", "join", "load", "lock", "reload", "run", "store", "done"}

\* Calls that are in the singleflight function.
Inside == {p \in Proc : pc[p] \in {"load", "lock", "reload", "run", "store"}}

Fault == faults < MaxFaults /\ faults' = faults + 1
RedisFault == Redis /\ Fault

\* What p asks of Redis fails: Redis does, or p's context has ended.
Fails(p) == RedisFault \/ (p \in ended /\ UNCHANGED faults)

Goto(p, l) == pc' = [pc EXCEPT ![p] = l]

FInit ==
    /\ pc = [p \in Proc |-> "idle"]
    /\ answer = [p \in Proc |-> "none"]
    /\ leader = [i \in Instance |-> None]
    /\ lock = "free" /\ holds = {} /\ stored = None
    /\ completed = {} /\ local = {} /\ ended = {} /\ faults = 0
    /\ older = {} /\ during = {} /\ reused = {}

-----------------------------------------------------------------------------
\* Faulty: the calls that joined are not answered.
SharingNobody(p) == {p}

\* Who gets the answer of p's singleflight call.
Sharing(p) == {p} \cup {q \in Proc : pc[q] = "join" /\ Home[q] = Home[p]}

\* Faulty: the holder keeps its lock.
ReturnLocked(p, a) ==
    /\ pc' = [q \in Proc |-> IF q \in Sharing(p) THEN "done" ELSE pc[q]]
    /\ answer' = [q \in Proc |-> IF q \in Sharing(p) THEN a ELSE answer[q]]
    /\ leader' = [leader EXCEPT ![Home[p]] = None]
    /\ completed' = completed \ {p} /\ local' = local \ {p} /\ ended' = ended \ {p}
    /\ UNCHANGED <<lock, holds>>

\* p's singleflight call returns a; the deferred unlock runs.
Return(p, a) ==
    /\ pc' = [q \in Proc |-> IF q \in Sharing(p) THEN "done" ELSE pc[q]]
    /\ answer' = [q \in Proc |-> IF q \in Sharing(p) THEN a ELSE answer[q]]
    /\ leader' = [leader EXCEPT ![Home[p]] = None]
    /\ lock' = IF p \in holds THEN "free" ELSE lock
    /\ holds' = holds \ {p}
    /\ completed' = completed \ {p} /\ local' = local \ {p} /\ ended' = ended \ {p}

\* It returns the stored result.
ReturnStored(p) ==
    /\ stored # None
    /\ Return(p, "ok")
    /\ reused' = reused \cup (Sharing(p) \cap older)
    /\ during' = during \ {p}
    /\ UNCHANGED <<stored, faults, older>>

\* It returns what fn returned, without storing it.
ReturnOwn(p, a) ==
    /\ Return(p, a)
    /\ during' = during \ {p}
    /\ UNCHANGED <<stored, older, reused>>

\* Whether instance i's singleflight group runs a call.
Underway(i) == leader[i] # None

\* Do joins the call under way on its instance or starts one.
Do(p) ==
    /\ pc[p] = "idle"
    /\ \/ Underway(Home[p]) /\ Goto(p, "join") /\ UNCHANGED leader
       \/ /\ ~Underway(Home[p])
          /\ leader' = [leader EXCEPT ![Home[p]] = p]
          /\ Goto(p, IF Redis \/ ~InFlightOnly THEN "load" ELSE "run")
    /\ older' = IF stored # None THEN older \cup {p} ELSE older
    /\ UNCHANGED <<answer, shared, completed, local, ended, faults, during, reused>>

\* Faulty: completedBeforeStart is never set.
LoadForgets(p) ==
    /\ pc[p] = "load" /\ (InFlightOnly \/ stored = None)
    /\ Goto(p, IF Redis THEN "lock" ELSE "run")
    /\ UNCHANGED <<answer, leader, shared, completed, local, ended, faults, history>>

Load(p) ==
    /\ pc[p] = "load"
    /\ \/ ~InFlightOnly /\ p \notin ended /\ ReturnStored(p)
       \/ /\ (InFlightOnly \/ stored = None) /\ p \notin ended
          /\ Goto(p, IF Redis THEN "lock" ELSE "run")
          /\ completed' = IF stored # None THEN completed \cup {p} ELSE completed
          /\ UNCHANGED <<answer, leader, shared, local, ended, faults, history>>
       \/ /\ Fails(p)
          /\ Goto(p, "run") /\ local' = local \cup {p}
          /\ UNCHANGED <<answer, leader, shared, completed, ended, history>>

\* Faulty: the lock keeps nobody out.
LockFreeAlways == TRUE

LockFree == lock = "free"

Lock(p) ==
    /\ pc[p] = "lock"
    /\ \/ /\ LockFree /\ p \notin ended
          /\ lock' = "taken" /\ holds' = holds \cup {p}
          /\ Goto(p, IF p \in completed THEN "run" ELSE "reload")
          /\ UNCHANGED <<local, faults>>
       \/ /\ Fails(p)
          /\ Goto(p, "run") /\ local' = local \cup {p}
          /\ UNCHANGED <<lock, holds>>
    /\ UNCHANGED <<answer, leader, stored, completed, ended, history>>

\* Faulty: no second look.
ReloadSkipped(p) ==
    /\ pc[p] = "reload"
    /\ Goto(p, "run")
    /\ UNCHANGED <<answer, leader, shared, completed, local, ended, faults, history>>

\* The second look, under lockCtx.  Its errors are ignored: when Redis fails, the
\* context has ended or the lock was lost, fn runs whatever is stored.
Reload(p) ==
    /\ pc[p] = "reload"
    /\ \/ p \notin ended /\ ReturnStored(p)
       \/ /\ \/ (stored = None \/ p \notin holds) /\ UNCHANGED faults
             \/ Fails(p)
          /\ Goto(p, "run")
          /\ UNCHANGED <<answer, leader, shared, completed, local, ended, history>>

\* Faulty: results are not stored.
KeepsNothing(p) == FALSE

\* Whether doDistributed or doLocal stores the result of p's run.
Keeps(p) == p \notin completed \cup local /\ (Redis \/ ~InFlightOnly)

\* fn returns.
Finish(p) ==
    /\ pc[p] = "run"
    /\ UNCHANGED faults
    /\ \/ ReturnOwn(p, "err")
       \/ ~Keeps(p) /\ ReturnOwn(p, "ok")
       \/ /\ Keeps(p) /\ Goto(p, "store")
          /\ UNCHANGED <<answer, leader, shared, completed, local, ended, history>>

\* storeResult under lockCtx, or memory.Set.
StoreResult(p) ==
    /\ pc[p] = "store" /\ p \notin ended
    /\ Return(p, "ok")
    /\ stored' = p
    /\ older' = {} /\ during' = Inside \ {p}
    /\ UNCHANGED <<reused, faults>>

\* It fails with Redis, past the deadline, and when the lost lock has been noticed.
StoreFails(p) ==
    /\ pc[p] = "store"
    /\ \/ Fails(p)
       \/ Redis /\ p \notin holds /\ UNCHANGED faults
    /\ ReturnOwn(p, "ok")

\* The caller goes on with the answer.
Leave(p) ==
    /\ pc[p] = "done"
    /\ Goto(p, "idle") /\ answer' = [answer EXCEPT ![p] = "none"]
    /\ older' = older \ {p} /\ reused' = reused \ {p}
    /\ UNCHANGED <<leader, shared, completed, local, ended, faults, during>>

-----------------------------------------------------------------------------
(* Time and failure.                                                       *)

\* The context of p ends (rotateTimeout, exchangeTimeout) while p looks, waits or
\* runs.  lockCtx is its child: the lock is given up, and fn, which need not heed
\* its context, runs on.
EndContext(p) ==
    /\ Redis /\ Timeouts /\ p \in Inside \ ended
    /\ ended' = ended \cup {p} /\ holds' = holds \ {p}
    /\ UNCHANGED <<calls, lock, stored, completed, local, faults, history>>

\* The result reaches its TTL.  Timing assumption: the context of a call that was
\* under way when it was stored has ended by then (rotateTimeout 10s and
\* exchangeTimeout 30s are at most the TTL, 30s).
ExpireResult ==
    /\ stored # None /\ during \subseteq ended
    /\ stored' = None /\ older' = {}
    /\ UNCHANGED <<calls, lock, holds, completed, local, ended, faults, during, reused>>

\* A lock that nobody holds any more is released, or reaches its validity.
ExpireLock ==
    /\ lock = "taken" /\ holds = {}
    /\ lock' = "free"
    /\ UNCHANGED <<calls, holds, stored, completed, local, ended, faults, history>>

\* The lock is lost under a running call: it could not be extended in time.
LoseLock(p) ==
    /\ p \in holds /\ Fault
    /\ holds' = holds \ {p} /\ lock' = "free"
    /\ UNCHANGED <<calls, stored, completed, local, ended, history>>

Crash(i) ==
    LET gone == {p \in Proc : Home[p] = i} IN
    /\ Fault
    /\ pc' = [p \in Proc |-> IF p \in gone THEN "idle" ELSE pc[p]]
    /\ answer' = [p \in Proc |-> IF p \in gone THEN "none" ELSE answer[p]]
    /\ leader' = [leader EXCEPT ![i] = None]
    /\ holds' = holds \ gone /\ completed' = completed \ gone
    /\ local' = local \ gone /\ ended' = ended \ gone
    /\ stored' = IF Redis THEN stored ELSE None
    /\ older' = older \ gone /\ during' = during \ gone /\ reused' = reused \ gone
    /\ UNCHANGED lock

-----------------------------------------------------------------------------
Step(p) == Load(p) \/ Lock(p) \/ Reload(p) \/ Finish(p)
           \/ StoreResult(p) \/ StoreFails(p)

FNext ==
    \/ \E p \in Proc : Do(p) \/ Step(p) \/ Leave(p) \/ EndContext(p) \/ LoseLock(p)
    \/ ExpireResult \/ ExpireLock
    \/ \E i \in Instance : Crash(i)

FSpec == FInit /\ [][FNext]_fvars

\* Goroutines run, fn returns (its calls have timeouts), contexts end, and locks
\* that nobody holds are released or expire.
FFairSpec ==
    /\ FSpec
    /\ \A p \in Proc : WF_fvars(Step(p)) /\ WF_fvars(EndContext(p))
    /\ WF_fvars(ExpireLock)

-----------------------------------------------------------------------------
(* Every variable has its type; only calls inside the singleflight         *)
(* function hold the lock, run locally or wait for a result.               *)
ControlType ==
    /\ pc \in [Proc -> PC] /\ answer \in [Proc -> {"none", "ok", "err"}]
    /\ leader \in [Instance -> Proc \cup {None}]
StoreType ==
    /\ lock \in {"free", "taken"} /\ stored \in Proc \cup {None} /\ faults \in 0..MaxFaults
    /\ older \subseteq Proc /\ reused \subseteq Proc
InsideType ==
    /\ holds \subseteq Inside /\ completed \subseteq Inside /\ local \subseteq Inside
    /\ during \subseteq Inside /\ ended \subseteq Inside

FTypeOK == ControlType /\ StoreType /\ InsideType

Running(p) == pc[p] \in {"run", "store"}

\* Two calls run fn at once only on different instances, and while Redis answers
\* one of the two has passed its deadline: as a waiter it ran locally, as a holder
\* it gave the lock up under its run.
RunsExclude ==
    \A p, q \in Proc : p # q /\ Running(p) /\ Running(q) =>
        Home[p] # Home[q] /\ (p \in ended \/ q \in ended \/ faults > 0)

\* While Redis answers, a call within its deadline does not repeat a run whose
\* success was stored since the call began: it returns that run's result.
SuccessNotRepeated ==
    faults = 0 => \A p \in during \ completed : Running(p) => p \in ended

\* While Redis answers, a stored result is never overwritten: it stays what the
\* first caller was given until it expires.
ResultNotOverwritten ==
    [][faults' = 0 /\ stored # None => stored' \in {stored, None}]_fvars

\* An in-flight-only call that starts its own singleflight call neither reuses
\* nor overwrites a result that was there before it began, whatever fails.
LeaderNotReplayed ==
    [][InFlightOnly => \A p \in Inside \cap older :
            p \notin reused' /\ (stored' = p => UNCHANGED stored)]_fvars

\* "A result that already existed before this call started belongs to an
\* earlier, finished call, so an in-flight-only caller is a replay and must
\* neither reuse it nor overwrite it" (flight.go), said of every caller of Do.
NotReplayed == InFlightOnly => reused = {}

\* Every Do returns, also when instances die with the lock or Redis fails.
Waiting(p) == pc[p] \notin {"idle", "done"}
EveryDoReturns == \A p \in Proc : []<>~Waiting(p)

-----------------------------------------------------------------------------
(* What Do promises, and how this module keeps it.                         *)

Phase(p) ==
    CASE pc[p] = "idle" -> "out"
      [] pc[p] \in {"join", "load", "lock", "reload"} -> "waiting"
      [] pc[p] \in {"run", "store"} -> "running"
      [] pc[p] = "done" -> "done"

\* Leaders that the present result still reaches.
Awaiting == {p \in during \ ended : pc[p] \in {"load", "lock", "reload"}}

Shared == INSTANCE SharedFlight WITH
    phase <- [p \in Proc |-> Phase(p)],
    result <- stored # None,
    solo <- local \cup ended,
    replay <- completed,
    owed <- {Home[p] : p \in Awaiting},
    sound <- faults = 0,
    Kept <- Redis \/ ~InFlightOnly

\* Do implements the shared run: calls that overlap share one run of fn and its
\* answer, a success is kept and stays for those who waited for it, and only a
\* failing Redis or a passed deadline, the waiter's or the holder's, lets another
\* instance run fn as well.
DoSharesRuns == Shared!SharedSpec
=============================================================================
