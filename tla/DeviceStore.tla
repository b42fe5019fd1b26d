---------------------------- MODULE DeviceStore ----------------------------
(***************************************************************************)
(* The device store: the table auth_user_devices (database/device.go and   *)
(* schema.sql), the cache of device secrets in front of it                 *)
(* (server/internal/cache/device) and the four calls of CachedDB, each one *)
(* split at every access to the database or to the cache, so that calls of *)
(* different requests and of different server instances interleave there.  *)
(*                                                                         *)
(* A device's secret never changes while its row lives and is lost with    *)
(* it, so a cached Secret is represented by its generation alone.  A       *)
(* device_id is a fresh UUID: it is issued at most once.                   *)
(***************************************************************************)
EXTENDS Naturals, FiniteSets

CONSTANTS
    Device,     \* the device_ids that may be issued
    User,       \* e-mail addresses
    Instance,   \* server processes that share one database
    Proc,       \* requests in progress, each on one instance
    Home,       \* Home[p] is the instance that runs p
    Redis,      \* TRUE: one Redis cache for all; FALSE: the in-memory cache
    None,       \* no process, no device, no user
    MaxGen,     \* bound on the generation of a device
    MaxFaults   \* bound on failed calls, evictions, crashes and statements
                \* that bypass the cache

ASSUME HomeAssumption == Home \in [Proc -> Instance]

\* Several instances need Redis (README.md, docs/configuration.md): an in-memory cache
\* belongs to one server process.
ASSUME RedisAssumption ==
    /\ Redis \in BOOLEAN
    /\ ~Redis => \A i, j \in Instance : i = j

ASSUME NoneAssumption == None \notin Proc /\ None \notin Device /\ None \notin User

ASSUME BoundAssumption == MaxGen \in Nat /\ MaxFaults \in Nat

VARIABLES
    rows,       \* devices that have a row
    gen,        \* column generation (kept after the row is gone)
    owner,      \* column user_email
    users,      \* rows of the users table
    issued,     \* devices that ever had a row
    cache,      \* what the cache holds for a device
    loader,     \* singleflight secretLoads: who runs the load of a device
    pc,         \* where each process is in its call
    dev, user,  \* its arguments deviceID and userEmail
    val,        \* the generation it read
    new,        \* the generation its UPDATE returned
    ids,        \* the device ids left to delete from the cache
    res,        \* what the call returns
    aged,       \* processes in a call that began before the cache entry was written
    faults,     \* how many of those have happened
    tainted,    \* history: devices whose cache entry a failure may have left stale
    buried,     \* history: devices deleted from the table and then from the cache
    settled,    \* history: newest generation a finished UpdateDeviceSecret returned
    blind,      \* history: devices whose cache entry a read failed to see
    floor       \* history: settled[dev[p]] when p's GetDeviceSecret began

db == <<rows, gen, owner, users, issued>>
history == <<tainted, buried, settled, blind>>
vars == <<db, cache, loader, pc, dev, user, floor, val, new, ids, res,
          aged, faults, history>>

-----------------------------------------------------------------------------
(* Cache entries: nothing, a secret of some generation, a tombstone.       *)

Missing == [kind |-> "missing", gen |-> 0]
Deleted == [kind |-> "deleted", gen |-> 0]
Secret(g) == [kind |-> "secret", gen |-> g]
Entry == [kind : {"missing", "secret", "deleted"}, gen : Nat]

\* GetSecret finds a usable entry: a tombstone reads as a miss.
Hit(d) == cache[d].kind = "secret"

\* Faulty variants, each a plausible mistake that the properties must notice:
\* no comparison of generations; tombstones overwritten; a generation counted
\* twice; a tombstone that readers do not know.
WritableAnyGeneration(d, g) == cache[d].kind # "deleted"
WritableOverTombstone(d, g) == cache[d].kind = "secret" => cache[d].gen < g

\* Whether SetSecret may store generation g for d.
Writable(d, g) ==
    \/ cache[d].kind = "missing"
    \/ cache[d].kind = "secret" /\ cache[d].gen < g

SetSecretAhead(d, g) ==
    IF Writable(d, g) THEN [cache EXCEPT ![d] = Secret(g + 1)] ELSE cache

SetSecret(d, g) ==
    IF Writable(d, g) THEN [cache EXCEPT ![d] = Secret(g)] ELSE cache

DeleteSecretUnknown(d) == [cache EXCEPT ![d] = [kind |-> "removed", gen |-> 0]]

DeleteSecret(d) == [cache EXCEPT ![d] = Deleted]

-----------------------------------------------------------------------------
(* Calls.  Each process has a program counter, the next access to the      *)
(* database, the cache or the singleflight group ("join" waits for another *)
(* process's load), and the arguments and local variables of its call.     *)

args == <<dev, user, floor>>
locals == <<val, new, ids, res>>

PC == {"idle", "get", "do", "join", "load", "fill", "return", "got",
       "bump", "peek", "reread", "publish", "updated",
       "del", "delall", "bury", "deleted"}

\* The processes in P are at l, in a fresh call with arguments d and u.
Enter(P, l, d, u) ==
    /\ pc' = [p \in Proc |-> IF p \in P THEN l ELSE pc[p]]
    /\ dev' = [p \in Proc |-> IF p \in P THEN d ELSE dev[p]]
    /\ user' = [p \in Proc |-> IF p \in P THEN u ELSE user[p]]
    /\ floor' = [p \in Proc |-> IF p \in P THEN IF l = "get" THEN settled[d] ELSE 0
                                           ELSE floor[p]]
    /\ val' = [p \in Proc |-> IF p \in P THEN 0 ELSE val[p]]
    /\ new' = [p \in Proc |-> IF p \in P THEN 0 ELSE new[p]]
    /\ ids' = [p \in Proc |-> IF p \in P THEN {} ELSE ids[p]]
    /\ res' = [p \in Proc |-> IF p \in P THEN "none" ELSE res[p]]

Goto(p, l) == pc' = [pc EXCEPT ![p] = l]
Result(p, r) == res' = [res EXCEPT ![p] = r]

\* Places at which a call carries a generation it read or was given.
Holding == {"fill", "return", "peek", "reread", "publish"}
PastUpdate == {"peek", "reread", "publish"}

\* Processes, other than p, that are inside a call on d as its entry is written.
Overtaken(d, p) == {q \in Proc \ {p} : dev[q] = d /\ pc[q] \in Holding}

Writes(d, p, g) == IF Writable(d, g) THEN Overtaken(d, p) ELSE {}

\* An UpdateDeviceSecret of d past its UPDATE, a deletion of d past its DELETE.
Publishing(d) == \E p \in Proc : dev[p] = d /\ pc[p] \in PastUpdate
Burying(d) == \E p \in Proc : pc[p] = "bury" /\ d \in ids[p]

Fault == faults < MaxFaults /\ faults' = faults + 1
CacheFault == Redis /\ Fault

Settle(d, g) == [settled EXCEPT ![d] = IF g > @ THEN g ELSE @]

-----------------------------------------------------------------------------
Init ==
    /\ rows = {} /\ issued = {} /\ users = {}
    /\ gen = [d \in Device |-> 0]
    /\ owner = [d \in Device |-> None]
    /\ cache = [d \in Device |-> Missing]
    /\ loader = [i \in Instance |-> [d \in Device |-> None]]
    /\ pc = [p \in Proc |-> "idle"]
    /\ dev = [p \in Proc |-> None] /\ user = [p \in Proc |-> None]
    /\ val = [p \in Proc |-> 0] /\ new = [p \in Proc |-> 0]
    /\ ids = [p \in Proc |-> {}] /\ res = [p \in Proc |-> "none"]
    /\ floor = [p \in Proc |-> 0] /\ aged = {} /\ faults = 0
    /\ tainted = {} /\ buried = {} /\ blind = {}
    /\ settled = [d \in Device |-> 0]

-----------------------------------------------------------------------------
(* GetDeviceSecret: cache, else one shared load per instance.              *)

CacheGet(p) ==
    LET d == dev[p] IN
    /\ pc[p] = "get"
    /\ \/ /\ Hit(d)
          /\ Goto(p, "got") /\ Result(p, "ok")
          /\ val' = [val EXCEPT ![p] = cache[d].gen]
          /\ UNCHANGED <<blind, faults>>
       \/ /\ ~Hit(d)
          /\ Goto(p, "do")
          /\ UNCHANGED <<val, res, blind, faults>>
       \/ /\ CacheFault              \* an error reads as a miss, so that the call
          /\ Goto(p, "do")           \* may share a load older than the entry
          /\ blind' = blind \cup {d}
          /\ UNCHANGED <<val, res>>
    /\ UNCHANGED <<db, cache, loader, args, new, ids, aged, tainted, buried, settled>>

LoadDo(p) ==
    LET d == dev[p]
        i == Home[p] IN
    /\ pc[p] = "do"
    /\ \/ /\ loader[i][d] = None
          /\ loader' = [loader EXCEPT ![i][d] = p]
          /\ Goto(p, "load")
       \/ /\ loader[i][d] # None
          /\ Goto(p, "join")
          /\ UNCHANGED loader
    /\ UNCHANGED <<db, cache, args, locals, aged, faults, history>>

LoadQuery(p) ==
    LET d == dev[p] IN
    /\ pc[p] = "load"
    /\ \/ /\ d \in rows
          /\ Goto(p, "fill")
          /\ val' = [val EXCEPT ![p] = gen[d]]
          /\ UNCHANGED <<res, faults>>
       \/ /\ d \notin rows
          /\ Goto(p, "return") /\ Result(p, "notfound")
          /\ UNCHANGED <<val, faults>>
       \/ /\ Fault
          /\ Goto(p, "return") /\ Result(p, "err")
          /\ UNCHANGED val
    /\ UNCHANGED <<db, cache, loader, args, new, ids, aged, history>>

LoadSet(p) ==
    LET d == dev[p] IN
    /\ pc[p] = "fill"
    /\ Goto(p, "return") /\ Result(p, "ok")
    /\ \/ /\ cache' = SetSecret(d, val[p])
          /\ aged' = aged \cup Writes(d, p, val[p])
          /\ UNCHANGED faults
       \/ CacheFault /\ UNCHANGED <<cache, aged>>
    /\ UNCHANGED <<db, loader, args, val, new, ids, history>>

\* Faulty: a load that wakes nobody who joined it.
WaitersAlone(p) == {p}

\* The processes that wait in p's singleflight load, p included.
Waiters(p) ==
    {p} \cup {q \in Proc : pc[q] = "join" /\ Home[q] = Home[p] /\ dev[q] = dev[p]}

LoadReturn(p) ==
    /\ pc[p] = "return"
    /\ loader' = [loader EXCEPT ![Home[p]][dev[p]] = None]
    /\ pc' = [q \in Proc |-> IF q \in Waiters(p) THEN "got" ELSE pc[q]]
    /\ res' = [q \in Proc |-> IF q \in Waiters(p) THEN res[p] ELSE res[q]]
    /\ val' = [q \in Proc |-> IF q \in Waiters(p) THEN val[p] ELSE val[q]]
    /\ aged' = aged \ Waiters(p)
    /\ UNCHANGED <<db, cache, args, new, ids, faults, history>>

-----------------------------------------------------------------------------
(* UpdateDeviceSecret: UPDATE ... generation + 1, then bring the cache up. *)

Bump(p) ==
    LET d == dev[p] IN
    /\ pc[p] = "bump"
    /\ \/ /\ d \in rows
          /\ gen' = [gen EXCEPT ![d] = @ + 1]
          /\ new' = [new EXCEPT ![p] = gen[d] + 1]
          /\ Goto(p, "peek")
          /\ UNCHANGED <<res, faults, tainted>>
       \/ /\ d \notin rows
          /\ Goto(p, "updated") /\ Result(p, "err")
          /\ UNCHANGED <<gen, new, faults, tainted>>
       \/ /\ Fault                   \* the statement failed, or only its answer
          /\ Goto(p, "updated") /\ Result(p, "err")
          /\ \/ UNCHANGED <<gen, tainted>>
             \/ /\ d \in rows
                /\ gen' = [gen EXCEPT ![d] = @ + 1]
                /\ tainted' = tainted \cup {d}
          /\ UNCHANGED new
    /\ UNCHANGED <<rows, owner, users, issued, cache, loader, args, val, ids, aged, buried, settled, blind>>

Peek(p) ==
    LET d == dev[p] IN
    /\ pc[p] = "peek"
    /\ \/ /\ Hit(d)
          /\ Goto(p, "publish")
          /\ val' = [val EXCEPT ![p] = cache[d].gen]
          /\ UNCHANGED faults
       \/ /\ ~Hit(d)
          /\ Goto(p, "reread")
          /\ UNCHANGED <<val, faults>>
       \/ CacheFault /\ Goto(p, "reread") /\ UNCHANGED val
    /\ UNCHANGED <<db, cache, loader, args, new, ids, res, aged, history>>

Reread(p) ==
    LET d == dev[p] IN
    /\ pc[p] = "reread"
    /\ \/ /\ d \in rows
          /\ Goto(p, "publish")
          /\ val' = [val EXCEPT ![p] = gen[d]]
          /\ UNCHANGED <<res, aged, faults, tainted, settled>>
       \/ /\ \/ d \notin rows /\ UNCHANGED <<faults, tainted>>
             \/ Fault /\ tainted' = tainted \cup {d}
          /\ Goto(p, "updated") /\ Result(p, "ok")
          /\ aged' = aged \ {p}
          /\ settled' = Settle(d, new[p])
          /\ UNCHANGED val
    /\ UNCHANGED <<db, cache, loader, args, new, ids, buried, blind>>

Publish(p) ==
    LET d == dev[p]
        g == IF val[p] > new[p] THEN val[p] ELSE new[p] IN
    /\ pc[p] = "publish"
    /\ Goto(p, "updated") /\ Result(p, "ok")
    /\ settled' = Settle(d, new[p])
    /\ \/ /\ cache' = SetSecret(d, g)
          /\ aged' = (aged \cup Writes(d, p, g)) \ {p}
          /\ UNCHANGED <<faults, tainted>>
       \/ /\ CacheFault
          /\ tainted' = tainted \cup {d}
          /\ aged' = aged \ {p}
          /\ UNCHANGED cache
    /\ UNCHANGED <<db, loader, args, val, new, ids, buried, blind>>

-----------------------------------------------------------------------------
(* DeleteDevice and DeleteAllDevices: DELETE, then tombstones.             *)

\* The rows of D that WHERE user_email = u selects.
Owned(u, D) == {d \in D \cap rows : owner[d] = u}

\* DELETE of the rows gone; toBury are the ids the caller then knows of.
DeleteRows(p, gone, toBury) ==
    /\ \/ /\ rows' = rows \ gone
          /\ ids' = [ids EXCEPT ![p] = toBury]
          /\ \/ toBury # {} /\ Goto(p, "bury") /\ UNCHANGED res
             \/ toBury = {} /\ Goto(p, "deleted") /\ Result(p, "ok")
          /\ UNCHANGED <<faults, tainted>>
       \/ /\ Fault                   \* the statement failed, or only its answer
          /\ Goto(p, "deleted") /\ Result(p, "err")
          /\ \/ UNCHANGED <<rows, tainted>>
             \/ rows' = rows \ gone /\ tainted' = tainted \cup gone
          /\ UNCHANGED ids
    /\ UNCHANGED <<gen, owner, users, issued, cache, loader, args, val, new, aged, buried, settled, blind>>

\* The tombstone follows even if no row matched.
DeleteDevice(p) ==
    /\ pc[p] = "del"
    /\ DeleteRows(p, Owned(user[p], {dev[p]}), {dev[p]})

DeleteAllDevices(p) ==
    /\ pc[p] = "delall"
    /\ DeleteRows(p, Owned(user[p], Device), Owned(user[p], Device))

Bury(p) ==
    /\ pc[p] = "bury"
    /\ \E d \in ids[p] :
        /\ ids' = [ids EXCEPT ![p] = @ \ {d}]
        /\ \/ ids[p] = {d} /\ Goto(p, "deleted") /\ Result(p, "ok")
           \/ ids[p] # {d} /\ UNCHANGED <<pc, res>>
        /\ \/ /\ cache' = DeleteSecret(d)
              /\ aged' = aged \cup Overtaken(d, p)
              /\ buried' = IF d \in rows THEN buried ELSE buried \cup {d}
              /\ tainted' = IF d \in rows THEN tainted \cup {d} ELSE tainted
              /\ UNCHANGED faults
           \/ /\ CacheFault
              /\ tainted' = tainted \cup {d}
              /\ UNCHANGED <<cache, aged, buried>>
    /\ UNCHANGED <<db, loader, args, val, new, settled, blind>>

-----------------------------------------------------------------------------
Step(p) ==
    \/ CacheGet(p) \/ LoadDo(p) \/ LoadQuery(p) \/ LoadSet(p) \/ LoadReturn(p)
    \/ Bump(p) \/ Peek(p) \/ Reread(p) \/ Publish(p)
    \/ DeleteDevice(p) \/ DeleteAllDevices(p) \/ Bury(p)

(* The callers: any call, on any device that exists or existed.            *)

Call(p) ==
    /\ pc[p] = "idle"
    /\ \/ \E d \in issued : Enter({p}, "get", d, None)
       \/ \E d \in issued : gen[d] < MaxGen /\ Enter({p}, "bump", d, None)
       \/ \E u \in User, d \in issued : Enter({p}, "del", d, u)
       \/ \E u \in User : Enter({p}, "delall", None, u)
    /\ UNCHANGED <<db, cache, loader, aged, faults, history>>

Return(p) ==
    /\ pc[p] \in {"got", "updated", "deleted"}
    /\ Enter({p}, "idle", None, None)
    /\ UNCHANGED <<db, cache, loader, aged, faults, history>>

(* Table changes that are one statement and never touch the cache.         *)

\* INSERT of a new device; the foreign key wants the user to exist.
SaveDeviceSecret(d, u) ==
    /\ d \notin issued /\ u \in users
    /\ rows' = rows \cup {d} /\ issued' = issued \cup {d}
    /\ gen' = [gen EXCEPT ![d] = 1]
    /\ owner' = [owner EXCEPT ![d] = u]
    /\ UNCHANGED <<users, cache, loader, pc, args, locals, aged, faults, history>>

CreateUser(u) ==
    /\ users' = users \cup {u}
    /\ UNCHANGED <<rows, gen, owner, issued, cache, loader, pc, args, locals, aged, faults, history>>

\* DELETE of a user cascades to the devices, not to the cache.
DeleteUser(u) ==
    /\ users' = users \ {u}
    /\ rows' = rows \ Owned(u, Device)
    /\ tainted' = tainted \cup Owned(u, Device)
    /\ UNCHANGED <<gen, owner, issued, cache, loader, pc, args, locals, aged, buried, settled, blind>>

\* UPDATE of a user's e-mail cascades to user_email.
ChangeEmail(u, v) ==
    /\ u \in users /\ v \notin users
    /\ users' = (users \ {u}) \cup {v}
    /\ owner' = [d \in Device |-> IF d \in Owned(u, Device) THEN v ELSE owner[d]]
    /\ UNCHANGED <<rows, gen, issued, cache, loader, pc, args, locals, aged, history>>

\* The cleanup worker deletes devices not updated for seven days: none that an
\* unfinished UpdateDeviceSecret has just updated.
CleanupOldDevices ==
    /\ \E D \in (SUBSET rows) \ {{}} :
        /\ \A d \in D : ~Publishing(d)
        /\ rows' = rows \ D
        /\ tainted' = tainted \cup D
    /\ UNCHANGED <<gen, owner, users, issued, cache, loader, pc, args, locals, aged, buried, settled, blind>>

(* Time and failure.                                                       *)

\* An entry reaches its TTL (secretTTL, a tombstone deletedSecretExtraTTL
\* later).  Timing assumption: a call that was in progress when the entry was
\* written (it is then in aged) is over by then.
Expire(d) ==
    /\ cache[d] # Missing
    /\ \A p \in aged : dev[p] # d
    /\ cache' = [cache EXCEPT ![d] = Missing]
    /\ UNCHANGED <<db, loader, pc, args, locals, aged, faults, history>>

\* The cache drops an entry before its TTL: otter at maximumSize, Redis short of memory.
Evict(d) ==
    /\ Fault
    /\ cache[d] # Missing
    /\ cache' = [cache EXCEPT ![d] = Missing]
    /\ tainted' = tainted \cup {d}
    /\ buried' = buried \ {d}
    /\ UNCHANGED <<db, loader, pc, args, locals, aged, settled, blind>>

\* An instance dies with its requests; the in-memory cache dies with it.
Crash(i) ==
    LET lost == {p \in Proc : Home[p] = i}
        half == {d \in Device : \E p \in lost : d \in ids[p]
                                          \/ (dev[p] = d /\ pc[p] \in PastUpdate)} IN
    /\ Fault
    /\ Enter(lost, "idle", None, None)
    /\ loader' = [loader EXCEPT ![i] = [d \in Device |-> None]]
    /\ aged' = aged \ lost
    /\ cache' = IF Redis THEN cache ELSE [d \in Device |-> Missing]
    /\ tainted' = tainted \cup half
    /\ UNCHANGED <<db, buried, settled, blind>>

-----------------------------------------------------------------------------
\* What happens without a request: statements of other programs and of the
\* worker, time, evictions.
Outside ==
    \/ \E u \in User \ users : CreateUser(u)
    \/ \E u \in users : DeleteUser(u) /\ Fault
    \/ \E u, v \in User : ChangeEmail(u, v) /\ Fault
    \/ CleanupOldDevices /\ Fault
    \/ \E d \in Device : Expire(d)
    \/ \E d \in Device : Evict(d)

Next ==
    \/ \E p \in Proc : Call(p) \/ Step(p) \/ Return(p)
    \/ \E d \in Device, u \in User : SaveDeviceSecret(d, u)
    \/ Outside
    \/ \E i \in Instance : Crash(i)

Spec == Init /\ [][Next]_vars

\* A request that was started is executed: the Go scheduler runs every goroutine.
FairSpec == Spec /\ \A p \in Proc : WF_vars(Step(p))

-----------------------------------------------------------------------------
(* Every variable has its type; a process inside a call on a device names  *)
(* one that was issued.                                                    *)
TableType ==
    /\ rows \subseteq issued /\ issued \subseteq Device /\ users \subseteq User
    /\ gen \in [Device -> Nat] /\ owner \in [Device -> User \cup {None}]
CacheType == cache \in [Device -> Entry]
LoaderType == loader \in [Instance -> [Device -> Proc \cup {None}]]
ControlType ==
    /\ pc \in [Proc -> PC]
    /\ dev \in [Proc -> Device \cup {None}] /\ user \in [Proc -> User \cup {None}]
    /\ \A p \in Proc : pc[p] \notin {"idle", "delall", "bury", "deleted"} => dev[p] \in issued
LocalType ==
    /\ val \in [Proc -> Nat] /\ new \in [Proc -> Nat]
    /\ ids \in [Proc -> SUBSET issued]
    /\ res \in [Proc -> {"none", "ok", "notfound", "err"}]
HistoryType ==
    /\ aged \subseteq Proc /\ faults \in 0..MaxFaults
    /\ tainted \subseteq Device /\ buried \subseteq Device /\ blind \subseteq Device
    /\ settled \in [Device -> Nat]
    /\ floor \in [Proc -> Nat]

TypeOK ==
    /\ TableType /\ CacheType /\ LoaderType
    /\ ControlType /\ LocalType /\ HistoryType

\* The cache never claims a generation that the table has not reached, whatever
\* fails: a token of a generation nobody was given cannot verify.
CacheNotAhead ==
    \A d \in Device : Hit(d) => d \in issued /\ cache[d].gen \in 1..gen[d]

\* Once a device has been deleted from the table and its tombstone written, no
\* load or update that was under way brings its secret back into the cache,
\* not even after the tombstone has expired.
NoResurrection == \A d \in buried : ~Hit(d)

\* Where nothing failed and no update or deletion of the device is half done,
\* a cached secret is the row's own: the cache can go stale only by a failure
\* or by a statement that bypasses it.
CoherentAtRest ==
    \A d \in Device \ tainted :
        Hit(d) /\ ~Publishing(d) /\ ~Burying(d) => d \in rows /\ cache[d].gen = gen[d]

\* A GetDeviceSecret returns no generation older than what a finished
\* UpdateDeviceSecret had returned before the read began, even when it shares
\* a load that began earlier: a rotated token stays dead.
ReadsFresh ==
    \A p \in Proc : pc[p] = "got" /\ res[p] = "ok" =>
        dev[p] \in tainted \cup blind \/ dev[p] \notin rows \/ val[p] >= floor[p]

\* "auth_user_devices references the users table by foreign key, so deleting a
\* user removes their sessions" (README.md): once the user is gone, a session of
\* theirs is not served from the cache either.
SessionsEndWithUser == \A d \in issued : owner[d] \notin users => ~Hit(d)

Busy(p) == pc[p] \notin {"idle", "got", "updated", "deleted"}

\* Every call comes to an end: a reader that waits in a shared load is woken up,
\* also when the load fails.
CallsReturn == \A p \in Proc : []<>~Busy(p)
=============================================================================
