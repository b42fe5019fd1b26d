------------------------------ MODULE Sessions ------------------------------
(***************************************************************************)
(* Device sessions: the HTTP handlers /refresh, /refresh-access, /verify,  *)
(* /logout, DELETE /users/me and the part of the login callback that       *)
(* creates a device (server/internal/handlers), over the token manager     *)
(* (jwt/jwt.go) and the calls of DeviceStore.                              *)
(*                                                                         *)
(* A token is <<device, generation>>.  The refresh token and the access    *)
(* token of a generation are handed out together and are verified alike,   *)
(* so held stands for both; a token's sub claim is the e-mail its device   *)
(* was created for.  What verifyToken finds wrong before or besides the    *)
(* generation (type, signature, expiry, issuer, audience) is one outcome,  *)
(* "expired".  The single flight of /refresh is the one of module Flight,  *)
(* with its checks under the lock taken as one step.                       *)
(***************************************************************************)
EXTENDS DeviceStore

CONSTANTS
    Requests,       \* the kinds of request that clients send
    UsernameQuery,  \* whether GetUsername looks the user up (usersdb.go)
    Expiry,         \* whether tokens may expire while the model runs
    Timeouts        \* whether waiting for a lock, or rotating under it, can
                    \* take longer than rotateTimeout

VARIABLES
    hp,         \* where each process is in its handler
    tok,        \* the token its request carries
    out,        \* the generation that rotate obtained
    status,     \* the HTTP status it answers
    subject,    \* subject[d]: the sub claim of d's tokens
    held,       \* tokens that clients were given
    leads,      \* processes that run their instance's flight of tok[p]
    holds,      \* processes that hold the Redis lock of tok[p]
    locked,     \* tokens whose Redis lock exists
    results,    \* stored results of flights: <<token, new generation>>
    spent,      \* history: tokens a 200 answer to /refresh has replaced
    replays     \* history: processes whose request began with a spent token

request == <<hp, tok, out, status>>
flights == <<leads, holds, locked, results>>
sessions == <<request, subject, held, flights, spent, replays>>
svars == <<vars, sessions>>

Kinds == {"refresh", "refresh-access", "verify", "logout", "me", "login"}

ASSUME RequestsAssumption ==
    /\ Requests \subseteq Kinds
    /\ UsernameQuery \in BOOLEAN /\ Expiry \in BOOLEAN /\ Timeouts \in BOOLEAN

NoToken == <<None, 0>>
Dev(t) == t[1]
Gen(t) == t[2]

SInit ==
    /\ Init
    /\ hp = [p \in Proc |-> "free"]
    /\ tok = [p \in Proc |-> NoToken]
    /\ out = [p \in Proc |-> 0]
    /\ status = [p \in Proc |-> 0]
    /\ subject = [d \in Device |-> None]
    /\ held = {} /\ spent = {} /\ replays = {}
    /\ leads = {} /\ holds = {} /\ locked = {} /\ results = {}

-----------------------------------------------------------------------------
(* Calls into DeviceStore and how verifyToken reads their answer.          *)

stored == <<db, cache, loader, aged, faults, history>>

StartCall(p, l, d, u) == Enter({p}, l, d, u) /\ UNCHANGED stored
EndCall(p) == Enter({p}, "idle", None, None) /\ UNCHANGED stored

\* verifyToken: GetDeviceSecret, then signature and claims, then the generation.
\* A token that clients hold may also be expired, whatever its generation.
Verified(p, g) == res[p] = "ok" /\ val[p] = g
Revoked(p, g) == res[p] = "ok" /\ val[p] # g
Rejected(p) == res[p] # "ok" \/ Expiry
Invalid(p, g) == Rejected(p) \/ Revoked(p, g)

At(p, h) == hp[p] = h
Answered(p, h, l) == hp[p] = h /\ pc[p] = l
To(p, h) == hp' = [hp EXCEPT ![p] = h]

\* The handler of p answers with status s.
Answer(p, s) == To(p, "reply") /\ status' = [status EXCEPT ![p] = s]

-----------------------------------------------------------------------------
(* The flight of /refresh.                                                 *)

\* Faulty: no result is ever found; the lock keeps nobody out; joining never
\* happens.
StoredNever(t) == {}
UnlockedAlways(t) == TRUE
SameFlightNever(p) == {p}

SameFlight(p) == {q \in Proc : Home[q] = Home[p] /\ tok[q] = tok[p]}

Stored(t) == {r \in results : r[1] = t}

\* Nobody has the Redis lock of t.
Unlocked(t) == Redis => t \notin locked

\* Faulty: those who joined are not answered.
LandingAlone(p) == {p}

\* Who gets the answer of p's flight.
Landing(p) == {p} \cup {q \in SameFlight(p) : hp[q] = "join"}

\* rotate ends with status s: the flight returns to everyone who joined it.
\* A success is stored, if keep, by a process that ran under the lock.
Land(p, s, keep) ==
    /\ hp' = [q \in Proc |-> IF q \in Landing(p) THEN "landed" ELSE hp[q]]
    /\ status' = [q \in Proc |-> IF q \in Landing(p) THEN s ELSE status[q]]
    /\ leads' = leads \ {p} /\ holds' = holds \ {p}
    /\ locked' = IF p \in holds THEN locked \ {tok[p]} ELSE locked
    /\ IF s = 200
       THEN /\ results' = IF keep /\ (Redis => p \in holds) THEN results \cup {<<tok[p], out[p]>>} ELSE results
            /\ held' = held \cup {<<Dev(tok[p]), out[p]>>}
            /\ spent' = spent \cup {tok[p]}
       ELSE UNCHANGED <<results, held, spent>>
    /\ UNCHANGED <<tok, out, subject, replays>>

Finish(p, s) == Land(p, s, TRUE) /\ EndCall(p)

\* The rotation begins: VerifyRefresh asks for the device.
Rotate(p) ==
    /\ leads' = leads \cup {p}
    /\ To(p, "rotate")
    /\ StartCall(p, "get", Dev(tok[p]), None)

Refresh(p) ==
    /\ At(p, "flight")
    /\ \/ /\ \E q \in SameFlight(p) : q \in leads
          /\ To(p, "join")
          /\ UNCHANGED <<vars, status, held, flights>>
       \/ /\ SameFlight(p) \cap leads = {} /\ Stored(tok[p]) # {}
          /\ \E r \in Stored(tok[p]) : held' = held \cup {<<Dev(tok[p]), r[2]>>}
          /\ To(p, "landed") /\ status' = [status EXCEPT ![p] = 200]
          /\ UNCHANGED <<vars, flights>>
       \/ /\ SameFlight(p) \cap leads = {} /\ Stored(tok[p]) = {}
          /\ Unlocked(tok[p])
          /\ holds' = IF Redis THEN holds \cup {p} ELSE holds
          /\ locked' = IF Redis THEN locked \cup {tok[p]} ELSE locked
          /\ Rotate(p)
          /\ UNCHANGED <<status, held, results>>
    /\ UNCHANGED <<tok, out, subject, spent, replays>>

\* What is asked of Redis fails (Redis does), or comes too late (the deadline
\* of the request has passed).
RedisFails == CacheFault \/ (Redis /\ Timeouts /\ UNCHANGED faults)

\* It does at the load, at the lock or at the second look under it: the rotation
\* runs all the same.
RefreshUnlocked(p) ==
    /\ At(p, "flight") /\ SameFlight(p) \cap leads = {}
    /\ RedisFails
    /\ leads' = leads \cup {p}
    /\ To(p, "rotate")
    /\ Enter({p}, "get", Dev(tok[p]), None)
    /\ UNCHANGED <<db, cache, loader, aged, history>>
    /\ UNCHANGED <<tok, out, status, subject, held, holds, locked, results, spent, replays>>

\* The lock is lost under the rotation, which runs on: it could not be extended, or
\* the deadline of the request has passed and lockCtx with it.  (That a lost lock
\* can go unnoticed until the result is stored is in Flight.)
LoseLock(p) ==
    /\ p \in holds /\ RedisFails
    /\ holds' = holds \ {p}
    /\ UNCHANGED <<db, cache, loader, pc, args, locals, aged, history>>
    /\ UNCHANGED <<request, subject, held, leads, locked, results, spent, replays>>

-----------------------------------------------------------------------------
(* rotate                                                                  *)

rest == <<tok, subject, held, flights, spent, replays>>

\* Faulty: an expired token is taken for a reused one.
DeleteOnAnyError(p, h) ==
    /\ Invalid(p, Gen(tok[p])) /\ Dev(tok[p]) # None
    /\ To(p, h)
    /\ StartCall(p, "del", Dev(tok[p]), subject[Dev(tok[p])])
    /\ UNCHANGED <<out, status, rest>>

\* deleteDeviceOnReuse, for a token of another generation than the device's.
DeleteOnReuse(p, h) ==
    /\ Revoked(p, Gen(tok[p]))
    /\ To(p, h)
    /\ StartCall(p, "del", Dev(tok[p]), subject[Dev(tok[p])])
    /\ UNCHANGED <<out, status, rest>>

RotateVerify(p) ==
    /\ Answered(p, "rotate", "got")
    /\ \/ /\ Verified(p, Gen(tok[p]))
          /\ To(p, "username") /\ EndCall(p)
          /\ UNCHANGED <<out, status, rest>>
       \/ DeleteOnReuse(p, "reuse")
       \/ Rejected(p) /\ Finish(p, 401)

RotateReused(p) == Answered(p, "reuse", "deleted") /\ Finish(p, 401)

\* GetUsername: without a query every user has one.
UserFound(u) == UsernameQuery => u \in users

RotateUsername(p) ==
    LET u == subject[Dev(tok[p])] IN
    /\ At(p, "username")
    /\ \/ /\ UserFound(u)
          /\ To(p, "rotate-again") /\ StartCall(p, "get", Dev(tok[p]), None)
          /\ UNCHANGED <<out, status, rest>>
       \/ ~UserFound(u) /\ Finish(p, 401)

\* RotateRefresh verifies the token once more, then bumps the generation.
RotateAgain(p) ==
    /\ Answered(p, "rotate-again", "got")
    /\ \/ /\ Verified(p, Gen(tok[p]))
          /\ To(p, "update") /\ StartCall(p, "bump", Dev(tok[p]), None)
          /\ UNCHANGED <<out, status, rest>>
       \/ DeleteOnReuse(p, "reuse")
       \/ Rejected(p) /\ Finish(p, 401)

RotateUpdated(p) ==
    /\ Answered(p, "update", "updated")
    /\ \/ /\ res[p] = "ok"
          /\ out' = [out EXCEPT ![p] = new[p]]
          /\ To(p, "issue") /\ StartCall(p, "get", Dev(tok[p]), None)
          /\ UNCHANGED <<status, rest>>
       \/ res[p] # "ok" /\ Finish(p, 500)

\* Faulty: GenerateAccess is given the old token.
RotateIssueOld(p) ==
    /\ Answered(p, "issue", "got")
    /\ \/ Verified(p, Gen(tok[p])) /\ Finish(p, 200)
       \/ ~Verified(p, Gen(tok[p])) /\ Finish(p, 500)

\* GenerateAccess verifies the new token; the rotation is not undone if it fails.
RotateIssue(p) ==
    /\ Answered(p, "issue", "got")
    /\ \/ Verified(p, out[p]) /\ Finish(p, 200)
       \/ ~Verified(p, out[p]) /\ Finish(p, 500)

\* storeResult fails with Redis.
RotateNotStored(p) ==
    /\ Answered(p, "issue", "got") /\ Verified(p, out[p]) /\ p \in holds
    /\ CacheFault
    /\ Land(p, 200, FALSE)
    /\ Enter({p}, "idle", None, None)
    /\ UNCHANGED <<db, cache, loader, aged, history>>

RotateStep(p) ==
    \/ RotateVerify(p) \/ RotateReused(p) \/ RotateUsername(p)
    \/ RotateAgain(p) \/ RotateUpdated(p) \/ RotateIssue(p)

-----------------------------------------------------------------------------
(* /refresh-access, /verify, /logout, DELETE /users/me                     *)

\* A handler outside the flight ends its call and answers.
Reply(p, s) == Answer(p, s) /\ EndCall(p) /\ UNCHANGED <<out, rest>>

\* It goes on with another call.
Continue(p, h, l, d, u) == To(p, h) /\ StartCall(p, l, d, u) /\ UNCHANGED <<out, status, rest>>

RefreshAccess(p) ==
    \/ /\ Answered(p, "refresh-access", "got")
       /\ \/ Verified(p, Gen(tok[p])) /\ Continue(p, "access-username", "idle", None, None)
          \/ DeleteOnReuse(p, "access-reuse")
          \/ Rejected(p) /\ Reply(p, 401)
    \/ Answered(p, "access-reuse", "deleted") /\ Reply(p, 401)
    \/ /\ At(p, "access-username")
       /\ \/ /\ UserFound(subject[Dev(tok[p])])
             /\ Continue(p, "access-issue", "get", Dev(tok[p]), None)
          \/ ~UserFound(subject[Dev(tok[p])]) /\ Reply(p, 401)
    \/ /\ Answered(p, "access-issue", "got")     \* no deletion on reuse here
       /\ \/ Verified(p, Gen(tok[p])) /\ Reply(p, 200)
          \/ Invalid(p, Gen(tok[p])) /\ Reply(p, 401)

Verify(p) ==
    /\ Answered(p, "verify", "got")
    /\ \/ Verified(p, Gen(tok[p])) /\ Reply(p, 200)
       \/ Invalid(p, Gen(tok[p])) /\ Reply(p, 401)

\* Logout answers 200 whatever became of the token and of the deletion.
Logout(p) ==
    \/ /\ Answered(p, "logout", "got")
       /\ \/ /\ Verified(p, Gen(tok[p]))
             /\ Continue(p, "logout-delete", "del", Dev(tok[p]), subject[Dev(tok[p])])
          \/ Invalid(p, Gen(tok[p])) /\ Reply(p, 200)
    \/ Answered(p, "logout-delete", "deleted") /\ Reply(p, 200)

DeleteMe(p) ==
    LET u == subject[Dev(tok[p])] IN
    \/ /\ Answered(p, "me", "got")
       /\ \/ Verified(p, Gen(tok[p])) /\ Continue(p, "me-devices", "delall", None, u)
          \/ Invalid(p, Gen(tok[p])) /\ Reply(p, 401)
    \/ /\ Answered(p, "me-devices", "deleted")
       /\ \/ res[p] = "ok" /\ Continue(p, "me-user", "idle", None, None)
          \/ res[p] # "ok" /\ Reply(p, 500)
    \/ /\ At(p, "me-user")
       /\ DeleteUser(u) /\ UNCHANGED faults
       /\ Answer(p, 200)
       /\ UNCHANGED <<out, rest>>

\* GetUsername or DeleteUser fails in the database.
UsersFault(p) ==
    /\ Fault
    /\ UNCHANGED <<db, cache, loader, pc, args, locals, aged, history>>
    /\ \/ At(p, "username") /\ Land(p, 500, TRUE)
       \/ /\ hp[p] \in {"access-username", "me-user"}
          /\ Answer(p, 500) /\ UNCHANGED <<out, rest>>

-----------------------------------------------------------------------------
(* The end of a login: a new device for a user, its first tokens.          *)

Login(p) ==
    \/ /\ At(p, "free") /\ "login" \in Requests
       /\ \E d \in Device, u \in User :
           /\ SaveDeviceSecret(d, u)
           /\ tok' = [tok EXCEPT ![p] = <<d, 1>>]
           /\ subject' = [subject EXCEPT ![d] = u]
       /\ To(p, "login")
       /\ UNCHANGED <<out, status, held, flights, spent, replays>>
    \/ /\ Answered(p, "login", "idle")
       /\ Continue(p, "login-issue", "get", Dev(tok[p]), None)
    \/ /\ Answered(p, "login-issue", "got")
       /\ \/ /\ Verified(p, 1)
             /\ Answer(p, 200) /\ EndCall(p)
             /\ held' = held \cup {tok[p]}
             /\ UNCHANGED <<tok, out, subject, flights, spent, replays>>
          \/ /\ ~Verified(p, 1)
             /\ Continue(p, "login-undo", "del", Dev(tok[p]), subject[Dev(tok[p])])
    \/ Answered(p, "login-undo", "deleted") /\ Reply(p, 500)

-----------------------------------------------------------------------------
(* Clients send any token they were given, at any time and any number of   *)
(* times.                                                                  *)

Send(p) ==
    /\ At(p, "free")
    /\ \E t \in held, k \in Requests \ {"login"} :
        /\ k = "refresh" => Gen(t) < MaxGen
        /\ tok' = [tok EXCEPT ![p] = t]
        /\ replays' = IF t \in spent THEN replays \cup {p} ELSE replays
        /\ \/ k = "refresh" /\ To(p, "flight") /\ UNCHANGED vars
           \/ k # "refresh" /\ To(p, k) /\ StartCall(p, "get", Dev(t), None)
    /\ UNCHANGED <<out, status, subject, held, flights, spent>>

Receive(p) ==
    /\ hp[p] \in {"reply", "landed"}
    /\ hp' = [hp EXCEPT ![p] = "free"] /\ tok' = [tok EXCEPT ![p] = NoToken]
    /\ out' = [out EXCEPT ![p] = 0] /\ status' = [status EXCEPT ![p] = 0]
    /\ replays' = replays \ {p}
    /\ UNCHANGED <<vars, subject, held, flights, spent>>

(* Time and failure.                                                       *)

\* A stored result reaches its TTL.  Timing assumption: resultTTL (30s) exceeds
\* rotateTimeout (10s), so a request that began before the result was stored has
\* looked for it by then.
ExpireResult(r) ==
    /\ r \in results
    /\ \A p \in Proc : hp[p] = "flight" /\ tok[p] = r[1] => p \in replays
    /\ results' = results \ {r}
    /\ UNCHANGED <<vars, request, subject, held, leads, holds, locked, spent, replays>>

\* A lock that nobody holds any more is released, or reaches its validity.
ExpireLock(t) ==
    /\ t \in locked /\ \A p \in holds : tok[p] # t
    /\ locked' = locked \ {t}
    /\ UNCHANGED <<vars, request, subject, held, leads, holds, results, spent, replays>>

SCrash(i) ==
    LET lost == {p \in Proc : Home[p] = i} IN
    /\ Crash(i)
    /\ hp' = [p \in Proc |-> IF p \in lost THEN "free" ELSE hp[p]]
    /\ tok' = [p \in Proc |-> IF p \in lost THEN NoToken ELSE tok[p]]
    /\ out' = [p \in Proc |-> IF p \in lost THEN 0 ELSE out[p]]
    /\ status' = [p \in Proc |-> IF p \in lost THEN 0 ELSE status[p]]
    /\ leads' = leads \ lost /\ holds' = holds \ lost /\ replays' = replays \ lost
    /\ results' = IF Redis THEN results ELSE {}
    /\ UNCHANGED <<subject, held, locked, spent>>

-----------------------------------------------------------------------------
Handle(p) ==
    \/ Refresh(p) \/ RotateStep(p) \/ RefreshAccess(p) \/ Verify(p) \/ Logout(p)
    \/ DeleteMe(p) \/ (~At(p, "free") /\ Login(p))
    \/ (Timeouts /\ RefreshUnlocked(p))
    \/ (Step(p) /\ UNCHANGED sessions)

SNext ==
    \/ \E p \in Proc :
        \/ Handle(p) \/ Send(p) \/ Receive(p) \/ Login(p)
        \/ RefreshUnlocked(p) \/ LoseLock(p) \/ RotateNotStored(p) \/ UsersFault(p)
    \/ Outside /\ UNCHANGED sessions
    \/ \E r \in results : ExpireResult(r)
    \/ \E t \in locked : ExpireLock(t)
    \/ \E i \in Instance : SCrash(i)

SSpec == SInit /\ [][SNext]_svars

\* Every goroutine that can run does, a lock whose holder died or let go expires,
\* and waiting for a lock ends at rotateTimeout.
SFairSpec ==
    /\ SSpec
    /\ \A p \in Proc : WF_svars(Handle(p))
    /\ WF_svars(\E t \in locked : ExpireLock(t))

-----------------------------------------------------------------------------
\* Where a handler waits for no call, where it waits for GetDeviceSecret, where for
\* a deletion; where it runs the flight of its token.
Between == {"free", "reply", "landed", "flight", "join", "username", "access-username",
            "me-user", "login"}
Verifying == {"rotate", "rotate-again", "issue", "refresh-access", "access-issue",
              "verify", "logout", "me", "login-issue"}
Removing == {"reuse", "access-reuse", "logout-delete", "me-devices", "login-undo"}
Rotating == {"rotate", "username", "rotate-again", "update", "issue", "reuse"}
Places == Between \cup Verifying \cup Removing \cup {"update"}

\* Every variable of the handlers has its type.
STypeOK ==
    /\ TypeOK
    /\ hp \in [Proc -> Places] /\ tok \in [Proc -> (Device \cup {None}) \X Nat]
    /\ out \in [Proc -> Nat] /\ status \in [Proc -> {0, 200, 401, 500}]
    /\ subject \in [Device -> User \cup {None}] /\ \A d \in issued : subject[d] \in User
    /\ held \subseteq issued \X Nat /\ spent \subseteq held
    /\ leads \subseteq Proc /\ holds \subseteq leads /\ replays \subseteq Proc
    /\ {tok[p] : p \in holds} \subseteq locked

\* deleteDeviceOnReuse never deletes the session of a client whose token is the
\* current one: it runs only for a generation the device has left behind,
\* unless a failure left the cache stale.
OnlyOldTokensAreReuse ==
    \A p \in Proc : hp[p] \in {"reuse", "access-reuse"} =>
        \/ Gen(tok[p]) < gen[Dev(tok[p])] \/ Dev(tok[p]) \notin rows
        \/ Dev(tok[p]) \in tainted \cup blind

\* Without failures a /refresh is taken for theft only if its token had been
\* replaced by an answered /refresh before the request began: concurrent
\* requests with one token, on any instances, never kill the session.
ConcurrentRefreshIsNotTheft ==
    faults = 0 => \A p \in Proc :
        hp[p] = "reuse" /\ Dev(tok[p]) \in rows => p \in replays

\* Without failures a token is rotated once: the generation that follows it
\* came from it, whoever raced for it.
OneRotationPerToken ==
    faults = 0 => \A p \in Proc : pc[p] \in PastUpdate => new[p] = Gen(tok[p]) + 1

\* Without failures the client side always has the token of the current
\* generation when nothing is in progress: no rotation is committed and then
\* lost, which would lock the client out.
CurrentTokenIsHeld ==
    faults = 0 /\ (\A p \in Proc : hp[p] \in {"free", "reply", "landed"}) =>
        \A d \in rows : <<d, gen[d]>> \in held

\* Every request is answered: who waits for another's rotation, or for its lock,
\* does not wait for ever, however often other clients send the same token.
Answering(p) == hp[p] \notin {"free", "reply", "landed"}
RequestsAnswered == \A p \in Proc : []<>~Answering(p)

\* docs/api.md: POST /logout answers "200, deletes the device session".  Said of
\* a token that had not been replaced when the request began.
LogoutDeletesSession ==
    [][\A p \in Proc : hp[p] \in {"logout", "logout-delete"} /\ hp'[p] = "reply"
            => p \in replays \/ Dev(tok[p]) \notin rows]_svars

-----------------------------------------------------------------------------
(* The rotations of one token are the runs of one flight.                  *)

\* Where a request with token t is in the flight of t.
Phase(p, t) ==
    CASE tok[p] = t /\ At(p, "join") -> "waiting"
      [] tok[p] = t /\ p \in leads -> "running"
      [] tok[p] = t /\ At(p, "landed") -> "done"
      [] OTHER -> "out"

Outcome(p, t) ==
    IF Phase(p, t) # "done" THEN "none" ELSE IF status[p] = 200 THEN "ok" ELSE "err"

Flights(t) == INSTANCE SharedFlight WITH
    phase <- [p \in Proc |-> Phase(p, t)],
    answer <- [p \in Proc |-> Outcome(p, t)],
    result <- Stored(t) # {},
    solo <- {p \in leads \ holds : Redis /\ tok[p] = t},
    replay <- {},
    owed <- {},
    sound <- faults = 0,
    InFlightOnly <- FALSE,
    Kept <- TRUE

\* /refresh keeps the promise of its flight for every token: requests with one
\* token share one rotation and its answer, the result of a rotation that succeeded
\* under the lock is kept, and only a failing Redis or a passed deadline, the
\* waiter's or the holder's, lets another instance rotate beside it or again.  (Who
\* waits at all waits for a rotation of its own instance: nothing is owed.  This is
\* \A t : Flights(t)!SharedSpec, in the form that TLC takes.)
RefreshSharesRotations ==
    /\ \A t \in Device \X (1..MaxGen) : Flights(t)!SharedInit
    /\ [][\A t \in Device \X (1..MaxGen) :
            UNCHANGED Flights(t)!svars \/ Flights(t)!SharedNext]_svars
=============================================================================
