------------------------------- MODULE Login --------------------------------
(***************************************************************************)
(* One login: GET /login stores a one-time state, the provider sends the   *)
(* browser back to GET /callback, and handleExchange                       *)
(* (server/internal/handlers/login/login.go) turns the code into a device  *)
(* session.  Callbacks with the same code, state and verifier (a double    *)
(* click, a retry, a proxy that repeats the request) share a flight: the   *)
(* exchange is the fn of module Flight, with the option InFlightOnly, and  *)
(* its steps happen while the flight is at "run".                          *)
(*                                                                         *)
(* Callbacks that Callback refuses before it looks at anything (no state,  *)
(* no code, another issuer) change nothing and are left out.               *)
(***************************************************************************)
EXTENDS Flight, Providers

CONSTANT Modes  \* the configurations checked: how the server is deployed

VARIABLES
    mode,       \* the configuration of this server, never changed
    state,      \* the verifier under the login's state: "none" yet, "live" or "gone"
    ep,         \* where each process is in the exchange
    status,     \* the HTTP status in its ExchangeResponse
    kept,       \* the status in the stored result
    token,      \* the provider's tokens: "none", "live" or "revoked"
    account,    \* whether the login's e-mail has a user row: "no" or "yes"
    device,     \* the device row: "none" yet, "row", "moved" to another e-mail, "deleted"
    sound,      \* history: whether the e-mail of the login is one it may rest on
    made,       \* history: how many device rows this login created
    broken,     \* history: whether something has failed, token generation apart
    won,        \* history: whether a callback was answered 200
    late,       \* history: processes whose callback began after that
    found       \* history: the others whose flight found a finished result

ModeType ==
    [session : BOOLEAN,     \* a database: sessions; none: stateless proxy
     register : BOOLEAN,    \* AllowRegistration, and a users table of our own
     query : BOOLEAN,       \* GetUsername looks the user up
     pass : BOOLEAN,        \* PassOAuthToken
     verifier : BOOLEAN,    \* the callback's PKCE verifier is right, or not asked for
     client : ClientType]   \* the provider

ASSUME ModesAssumption == Modes \subseteq ModeType /\ InFlightOnly

exchange == <<ep, status, kept>>
world == <<state, token, account, device, made, sound>>
past == <<broken, won, late, found>>
lvars == <<fvars, mode, exchange, world, past>>

LInit ==
    /\ FInit
    /\ mode \in Modes
    /\ state = "none" /\ token = "none" /\ device = "none" /\ made = 0 /\ sound = TRUE
    /\ account \in {"no", "yes"} /\ (account = "yes" => mode.session)
    /\ ep = [p \in Proc |-> "take"]
    /\ status = [p \in Proc |-> 0] /\ kept = 0
    /\ broken = FALSE /\ won = FALSE /\ late = {} /\ found = {}

-----------------------------------------------------------------------------
(* GET /login and the state cache.                                         *)

SetState ==
    /\ state = "none"
    /\ state' = "live"
    /\ UNCHANGED <<fvars, mode, exchange, token, account, device, made, sound, past>>

\* The state's TTL, or an eviction.
ExpireState ==
    /\ state = "live"
    /\ state' = "gone"
    /\ UNCHANGED <<fvars, mode, exchange, token, account, device, made, sound, past>>

\* A callback with the provider's error takes the state and is answered; Redis
\* may fail before or after it has taken it.
ProviderError(p) ==
    /\ pc[p] = "idle" /\ state = "live"
    /\ \/ state' = "gone" /\ UNCHANGED broken
       \/ broken' = TRUE /\ Redis /\ state' \in {"live", "gone"}
    /\ UNCHANGED <<fvars, mode, exchange, token, account, device, made, sound, won, late, found>>

-----------------------------------------------------------------------------
(* The flight around the exchange.                                         *)

\* The processes in P are answered with status s by the flight of p.
Respond(P, p, s) ==
    /\ status' = [q \in Proc |-> IF q \in P THEN s ELSE status[q]]
    /\ won' = (won \/ (s = 200 /\ pc'[p] = "done"))
    /\ found' = IF p \in completed THEN found \cup (P \ late) ELSE found

Callback(p) ==
    /\ Do(p) /\ state # "none"
    /\ late' = IF won THEN late \cup {p} ELSE late
    /\ UNCHANGED <<mode, exchange, world, broken, won, found>>

Approach(p) == (Load(p) \/ Lock(p)) /\ UNCHANGED <<mode, exchange, world, past>>

\* The second look finds nothing, or another run's response.
LookAgain(p) ==
    /\ Reload(p)
    /\ \/ pc'[p] = "run" /\ UNCHANGED <<status, won, found>>
       \/ pc'[p] = "done" /\ Respond(Sharing(p), p, kept)
    /\ UNCHANGED <<mode, ep, kept, world, broken, late>>

Keep(p) ==
    /\ \/ StoreResult(p) /\ kept' = status[p]
       \/ StoreFails(p) /\ UNCHANGED kept
    /\ Respond(Sharing(p), p, status[p])
    /\ UNCHANGED <<mode, ep, world, broken, late>>

Done(p) ==
    /\ Leave(p)
    /\ status' = [status EXCEPT ![p] = 0]
    /\ late' = late \ {p} /\ found' = found \ {p}
    /\ UNCHANGED <<mode, ep, kept, world, broken, won>>

-----------------------------------------------------------------------------
(* The exchange.  Its calls to Redis and to the provider take the context  *)
(* of the flight and fail once that has ended; those to the database do    *)
(* not.                                                                    *)

Stage == {"take", "exchange", "user", "username", "create", "save", "access",
          "undo", "revoke"}

In(p, e) == pc[p] = "run" /\ ep[p] = e

Continue(p, e) ==
    /\ ep' = [ep EXCEPT ![p] = e]
    /\ UNCHANGED <<fvars, mode, status, kept, past>>

\* The exchange returns a response with status s, and no error: it is stored.
Conclude(p, s) ==
    /\ Finish(p) /\ answer'[p] # "err"
    /\ Respond(IF pc'[p] = "done" THEN Sharing(p) ELSE {p}, p, s)
    /\ ep' = [ep EXCEPT ![p] = "take"]
    /\ UNCHANGED <<mode, kept, late>>

\* Faulty: those who joined are not answered.
FailAlone(p, s) ==
    /\ Finish(p) /\ answer'[p] = "err"
    /\ Respond({p}, p, s)
    /\ ep' = [ep EXCEPT ![p] = "take"]
    /\ UNCHANGED <<mode, kept, late>>

\* It returns a response with status s and an error: it is not stored.
Fail(p, s) ==
    /\ Finish(p) /\ answer'[p] = "err"
    /\ Respond(Sharing(p), p, s)
    /\ ep' = [ep EXCEPT ![p] = "take"]
    /\ UNCHANGED <<mode, kept, late>>

\* Something failed: an error is returned.
Break(p) == Fail(p, 500) /\ broken' = TRUE

\* Faulty: the state is read, not taken.
TakeReads(p) ==
    /\ In(p, "take")
    /\ \/ state = "live" /\ Continue(p, "exchange")
       \/ state # "live" /\ Conclude(p, 400) /\ UNCHANGED broken
    /\ UNCHANGED world

Take(p) ==
    /\ In(p, "take")
    /\ \/ /\ state = "live" /\ mode.verifier /\ p \notin ended
          /\ state' = "gone" /\ Continue(p, "exchange")
       \/ /\ state = "live" /\ ~mode.verifier /\ p \notin ended
          /\ state' = "gone" /\ Conclude(p, 400) /\ UNCHANGED broken
       \/ /\ state # "live" /\ p \notin ended
          /\ Conclude(p, 400) /\ UNCHANGED <<state, broken>>
       \/ Redis /\ Break(p) /\ state' \in {state, "gone"}
    /\ UNCHANGED <<token, account, device, made, sound>>

\* Without a database the provider's tokens are the answer.
Exchange(p) ==
    /\ In(p, "exchange")
    /\ \/ /\ mode.session /\ p \notin ended
          /\ token' = "live" /\ Continue(p, "user")
       \/ /\ ~mode.session /\ p \notin ended
          /\ token' = "live" /\ Conclude(p, 200) /\ UNCHANGED broken
       \/ Break(p) /\ UNCHANGED token
    /\ UNCHANGED <<state, account, device, made, sound>>

\* What can come of a GetUser in each deployment.
UserOutcomes == [m \in Modes |-> Outcomes(m.client)]

\* An id_token that suffices is read without asking the provider.
FetchUser(p) ==
    /\ In(p, "user")
    /\ \E r \in UserOutcomes[mode] :
        /\ sound' = r.sound
        /\ \/ /\ r.user /\ (p \in ended => mode.client.provider = "oidc")
              /\ Continue(p, "username")
           \/ ~r.user /\ Fail(p, 500) /\ UNCHANGED broken
    /\ UNCHANGED <<state, token, account, device, made>>

UserKnown == mode.query => account = "yes"

GetUsername(p) ==
    /\ In(p, "username")
    /\ \/ UserKnown /\ Continue(p, "save")
       \/ ~UserKnown /\ mode.register /\ Continue(p, "create")
       \/ ~UserKnown /\ ~mode.register /\ Conclude(p, 401) /\ UNCHANGED broken
       \/ Break(p)
    /\ UNCHANGED world

\* INSERT ... ON CONFLICT
CreateUser(p) ==
    /\ In(p, "create")
    /\ \/ account' = "yes" /\ Continue(p, "save")
       \/ Break(p) /\ account' \in {account, "yes"}
    /\ UNCHANGED <<state, token, device, made, sound>>

Insert == device' = "row" /\ made' = made + 1

\* The foreign key wants the user.
SaveDeviceSecret(p) ==
    /\ In(p, "save")
    /\ \/ account = "yes" /\ Insert /\ Continue(p, "access")
       \/ account = "no" /\ Conclude(p, 401) /\ UNCHANGED <<device, made, broken>>
       \/ Break(p) /\ UNCHANGED <<device, made>>
       \/ account = "yes" /\ Break(p) /\ Insert
    /\ UNCHANGED <<state, token, account, sound>>

\* The row is looked up by its device, whoever it belongs to by now.
Standing == device \in {"row", "moved"}

\* Faulty: PassOAuthToken read the wrong way round.
GenerateTokensInverted(p) ==
    /\ In(p, "access")
    /\ \/ Standing /\ mode.pass /\ Continue(p, "revoke")
       \/ Standing /\ ~mode.pass /\ Conclude(p, 200) /\ UNCHANGED broken
       \/ Continue(p, "undo")
    /\ UNCHANGED world

\* GenerateRefresh and GenerateAccess: the latter verifies the new token against
\* the row.  Either may fail even if the row is there.
GenerateTokens(p) ==
    /\ In(p, "access")
    /\ \/ Standing /\ ~mode.pass /\ Continue(p, "revoke")
       \/ Standing /\ mode.pass /\ Conclude(p, 200) /\ UNCHANGED broken
       \/ Continue(p, "undo")
    /\ UNCHANGED world

\* Faulty: the device stays.
UndoNothing(p) == In(p, "undo") /\ Fail(p, 500) /\ UNCHANGED <<world, broken>>

\* DeleteDevice, whose error is joined to the one that is returned.  It deletes
\* by e-mail and device: a row that has moved stays.
Undo(p) ==
    /\ In(p, "undo")
    /\ \/ Fail(p, 500) /\ UNCHANGED broken
          /\ device' = IF device = "moved" THEN device ELSE "deleted"
       \/ Break(p) /\ UNCHANGED device
    /\ UNCHANGED <<state, token, account, made, sound>>

\* Revoke, whose error is ignored.  It posts one token, the refresh token if there
\* is one: the provider ends the grant, so all of the login's tokens are one here.
Revoke(p) ==
    /\ In(p, "revoke")
    /\ Conclude(p, 200)
    /\ \/ /\ p \notin ended
          /\ token' = IF Revocable(mode.client) THEN "revoked" ELSE token
          /\ UNCHANGED broken
       \/ UNCHANGED token /\ broken' = TRUE
    /\ UNCHANGED <<state, account, device, made, sound>>

HandleExchange(p) ==
    \/ Take(p) \/ Exchange(p) \/ FetchUser(p) \/ GetUsername(p) \/ CreateUser(p)
    \/ SaveDeviceSecret(p) \/ GenerateTokens(p) \/ Undo(p) \/ Revoke(p)

-----------------------------------------------------------------------------
(* The rest of the world.                                                  *)

\* DELETE of the user, by itself or by another program, cascades; also once the
\* user goes by another e-mail.
DeleteUser ==
    /\ \/ /\ account = "yes" /\ account' = "no"
          /\ device' = IF device = "row" THEN "deleted" ELSE device
       \/ device = "moved" /\ device' = "deleted" /\ UNCHANGED account
    /\ UNCHANGED <<fvars, mode, exchange, state, token, made, sound, past>>

\* An UPDATE of the user's e-mail, by another program, takes the device along.
ChangeEmail ==
    /\ account = "yes" /\ account' = "no"
    /\ device' = IF device = "row" THEN "moved" ELSE device
    /\ UNCHANGED <<fvars, mode, exchange, state, token, made, sound, past>>

Passing ==
    /\ \/ ExpireResult /\ kept' = 0
       \/ ExpireLock /\ UNCHANGED kept
       \/ \E p \in Proc : (LoseLock(p) \/ EndContext(p)) /\ UNCHANGED kept
    /\ UNCHANGED <<mode, ep, status, world, past>>

LCrash(i) ==
    LET gone == {p \in Proc : Home[p] = i} IN
    /\ Crash(i)
    /\ ep' = [p \in Proc |-> IF p \in gone THEN "take" ELSE ep[p]]
    /\ status' = [p \in Proc |-> IF p \in gone THEN 0 ELSE status[p]]
    /\ state' = IF Redis \/ state = "none" THEN state ELSE "gone"
    /\ late' = late \ gone /\ found' = found \ gone
    /\ UNCHANGED <<mode, kept, token, account, device, made, sound, broken, won>>

LNext ==
    \/ SetState \/ ExpireState \/ DeleteUser \/ ChangeEmail \/ Passing
    \/ \E p \in Proc :
        \/ ProviderError(p) \/ Callback(p) \/ Approach(p) \/ LookAgain(p)
        \/ HandleExchange(p) \/ Keep(p) \/ Done(p)
    \/ \E i \in Instance : LCrash(i)

LSpec == LInit /\ [][LNext]_lvars

-----------------------------------------------------------------------------
\* Every variable has its type, and who is answered has a status.
LTypeOK ==
    /\ FTypeOK
    /\ mode \in Modes /\ state \in {"none", "live", "gone"}
    /\ ep \in [Proc -> Stage]
    /\ status \in [Proc -> {0, 200, 400, 401, 500}]
    /\ kept \in {0, 200, 400, 401}
    /\ token \in {"none", "live", "revoked"} /\ account \in {"no", "yes"}
    /\ device \in {"none", "row", "moved", "deleted"} /\ made \in Nat /\ sound \in BOOLEAN
    /\ broken \in BOOLEAN /\ won \in BOOLEAN /\ late \subseteq Proc /\ found \subseteq Proc
    /\ \A p \in Proc : pc[p] = "done" => status[p] # 0

\* A login creates at most one device session, however often its callback is
\* repeated, on whatever instances, and whatever fails: locks may be lost and
\* results may be missing, the state is taken once.
OneSessionPerLogin == made <= 1

Quiet == \A p \in Proc : pc[p] \in {"idle", "join", "done"}

\* If no server has died and no call but the token generation has failed, a
\* device row stands only for a login that was answered 200: a failed login, also
\* one whose user was deleted meanwhile, leaves no session of that user behind.
\* (A row that an e-mail change has moved is another user's by then, and stays.)
FailedLoginLeavesNothing ==
    faults = 0 /\ ~broken /\ Quiet /\ device = "row" => won

\* Without failures and deadlines, a repeated callback of a login that succeeded
\* is refused only if it is a replay: it began after the answer, or its flight
\* found the result finished.
DuplicatesShareTheLogin ==
    faults = 0 /\ ~broken /\ ~Timeouts /\ won =>
        \A p \in Proc : pc[p] = "done" /\ status[p] = 400 => p \in late \cup found

\* "revoked and discarded right after login" (docs/sessions.md): when a session
\* login is answered, the provider has a revocation endpoint and nothing has
\* failed, the provider's tokens are dead.
ProviderTokensRevoked ==
    won /\ ~broken /\ mode.session /\ ~mode.pass /\ Revocable(mode.client) =>
        token = "revoked"

\* A session, and an account that a login registers, belong to an e-mail that the
\* provider vouched for in a document meant for us: whichever of its documents
\* the address was taken from, it is called verified there (or the deployment
\* allows unverified ones), and no id_token of another issuer or client came
\* with it.
SessionEmailVouched == made > 0 => sound
=============================================================================
