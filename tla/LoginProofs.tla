---------------------------- MODULE LoginProofs -----------------------------
(***************************************************************************)
(* Proofs about Login, for any number of callbacks and instances and in    *)
(* every deployment.                                                       *)
(*                                                                         *)
(* That a login creates at most one device session, and only for an e-mail *)
(* it may rest on, holds whatever fails and needs nothing of the flight    *)
(* around the exchange: it rests on the state being taken in one step, and *)
(* on what GetUser returns.                                                *)
(*                                                                         *)
(* What a login leaves behind and how its callbacks share it rests on      *)
(* LoginInv, which adds the invariant of Flight: every step of a login is  *)
(* a step of the flight of its key or leaves it alone.  The many steps of  *)
(* the exchange come to three (GoesOn, Concludes, Errs), shown once.       *)
(***************************************************************************)
EXTENDS Login, FlightProofs, WellFoundedInduction, TLAPS

(***************************************************************************)
(* The inductive invariants behind the safety properties.                  *)
(***************************************************************************)
\* Processes that took the state and have not yet created the device.
Owing(p) == ep[p] \in {"exchange", "user", "username", "create", "save"}

\* The inductive invariant behind OneSessionPerLogin: the right to create the
\* device is the state's, then one process's, then spent.
RightSpentOnce ==
    /\ ep \in [Proc -> Stage]
    /\ made \in {0, 1}
    /\ state # "gone" => made = 0 /\ \A p \in Proc : ~Owing(p)
    /\ \A p \in Proc : Owing(p) => made = 0
    /\ \A p, q \in Proc : Owing(p) /\ Owing(q) => p = q

\* The inductive invariant behind SessionEmailVouched.
EmailSound == mode \in Modes /\ sound = TRUE


\* p has taken the state and is in the exchange.
Exchanging(p) == ep[p] # "take"

\* Somewhere there is a 200 answer.
Succeeded == won \/ kept = 200 \/ \E p \in Proc : status[p] = 200

\* The state is taken once: at most one process ever passes Take, and nobody is
\* answered 200 before it has finished.
TakenOnce ==
    /\ state # "gone" => ~Succeeded /\ stored = None /\ completed = {}
    /\ \A p \in Proc : Exchanging(p) =>
        /\ state = "gone" /\ pc[p] = "run" /\ ~Succeeded /\ p \notin completed
        /\ \A q \in Proc : Exchanging(q) => q = p

\* A response has a status, an error is not stored.
StatusKept ==
    /\ stored # None => kept # 0
    /\ \A p \in Proc :
        /\ pc[p] # "idle" => state # "none"
        /\ pc[p] # "done" => answer[p] = "none"
        /\ pc[p] = "store" => state = "gone" /\ status[p] \in {200, 400, 401}

LoginInv == FlightInv /\ LTypeOK /\ TakenOnce /\ StatusKept

\* A device row is its login's answer, or will be, or will be deleted.
Delivering(p) == ep[p] \in {"access", "undo", "revoke"} \/ (pc[p] = "store" /\ status[p] = 200)
RowAccounted ==
    faults = 0 /\ ~broken /\ device = "row" => won \/ \E p \in Proc : Delivering(p)

\* Whoever is answered 200, the tokens have been revoked before.
TokensAccounted ==
    Succeeded /\ ~broken /\ mode.session /\ ~mode.pass /\ Revocable(mode.client) =>
        token = "revoked"

\* Who joins the call of a late callback is late.
LateTogether ==
    /\ late # {} => won
    /\ \A p \in Inside \cap late, q \in Proc : pc[q] = "join" /\ Home[q] = Home[p] => q \in late

\* Whoever stores a 200 is answered with it in the same step.
KeptAnswered == kept = 200 => won

\* p may yet make the login succeed.
Succeeding(p) == Exchanging(p) \/ (pc[p] = "store" /\ status[p] = 200)

\* Where nothing fails: nobody is refused while the login may yet succeed; once it has,
\* who was under way finds its result.
DuplicatesServed ==
    faults = 0 /\ ~broken /\ ~Timeouts =>
        /\ state # "gone" \/ (\E p \in Proc : Succeeding(p)) =>
                kept # 400 /\ \A q \in Proc : status[q] # 400
        /\ won => \A p \in Inside \ late : p \in during /\ kept = 200
        /\ DuplicatesShareTheLogin

\* Initially the state has not even been handed out.
LEMMA RightInit == LInit => RightSpentOnce
BY DEF LInit, RightSpentOnce, Owing, Stage

\* Only Take passes the right on, and only SaveDeviceSecret spends it.
LEMMA RightNext ==
  ASSUME RightSpentOnce, [LNext]_lvars
  PROVE  RightSpentOnce'
<1>1. ASSUME SetState PROVE RightSpentOnce'
  BY <1>1 DEF RightSpentOnce, Owing, Stage, exchange, world,
      SetState
<1>2. ASSUME ExpireState PROVE RightSpentOnce'
  BY <1>2 DEF RightSpentOnce, Owing, Stage, exchange, world,
      ExpireState
<1>3. ASSUME DeleteUser \/ ChangeEmail PROVE RightSpentOnce'
  BY <1>3 DEF RightSpentOnce, Owing, Stage, exchange, world,
      DeleteUser, ChangeEmail
<1>4. ASSUME Passing PROVE RightSpentOnce'
  BY <1>4 DEF RightSpentOnce, Owing, Stage, exchange, world,
      Passing
<1>5. ASSUME NEW p \in Proc, ProviderError(p) PROVE RightSpentOnce'
  BY <1>5 DEF RightSpentOnce, Owing, Stage, exchange, world,
      ProviderError
<1>6. ASSUME NEW p \in Proc, Callback(p) PROVE RightSpentOnce'
  BY <1>6 DEF RightSpentOnce, Owing, Stage, exchange, world,
      Callback
<1>7. ASSUME NEW p \in Proc, Approach(p) PROVE RightSpentOnce'
  BY <1>7 DEF RightSpentOnce, Owing, Stage, exchange, world,
      Approach
<1>8. ASSUME NEW p \in Proc, LookAgain(p) PROVE RightSpentOnce'
  BY <1>8 DEF RightSpentOnce, Owing, Stage, exchange, world,
      LookAgain
<1>9. ASSUME NEW p \in Proc, Keep(p) PROVE RightSpentOnce'
  BY <1>9 DEF RightSpentOnce, Owing, Stage, exchange, world,
      Keep
<1>10. ASSUME NEW p \in Proc, Done(p) PROVE RightSpentOnce'
  BY <1>10 DEF RightSpentOnce, Owing, Stage, exchange, world,
      Done
<1>11. ASSUME NEW p \in Proc, Take(p) PROVE RightSpentOnce'
  BY <1>11 DEF RightSpentOnce, Owing, Stage, exchange, world,
      Take, In, Continue, Conclude, Break, Fail
<1>12. ASSUME NEW p \in Proc, Exchange(p) PROVE RightSpentOnce'
  BY <1>12 DEF RightSpentOnce, Owing, Stage, exchange, world,
      Exchange, In, Continue, Conclude, Break, Fail
<1>13. ASSUME NEW p \in Proc, FetchUser(p) PROVE RightSpentOnce'
  BY <1>13 DEF RightSpentOnce, Owing, Stage, exchange, world,
      FetchUser, In, Continue, Fail
<1>14. ASSUME NEW p \in Proc, GetUsername(p) PROVE RightSpentOnce'
  BY <1>14 DEF RightSpentOnce, Owing, Stage, exchange, world,
      GetUsername, In, Continue, Conclude, Break, Fail
<1>15. ASSUME NEW p \in Proc, CreateUser(p) PROVE RightSpentOnce'
  BY <1>15 DEF RightSpentOnce, Owing, Stage, exchange, world,
      CreateUser, In, Continue, Break, Fail
<1>16. ASSUME NEW p \in Proc, SaveDeviceSecret(p) PROVE RightSpentOnce'
  BY <1>16 DEF RightSpentOnce, Owing, Stage, exchange, world,
      SaveDeviceSecret, Insert, In, Continue, Conclude, Break, Fail
<1>17. ASSUME NEW p \in Proc, GenerateTokens(p) PROVE RightSpentOnce'
  BY <1>17 DEF RightSpentOnce, Owing, Stage, exchange, world,
      GenerateTokens, In, Continue, Conclude
<1>18. ASSUME NEW p \in Proc, Undo(p) PROVE RightSpentOnce'
  BY <1>18 DEF RightSpentOnce, Owing, Stage, exchange, world,
      Undo, In, Break, Fail
<1>19. ASSUME NEW p \in Proc, Revoke(p) PROVE RightSpentOnce'
  BY <1>19 DEF RightSpentOnce, Owing, Stage, exchange, world,
      Revoke, In, Conclude
<1>20. ASSUME NEW i \in Instance, LCrash(i) PROVE RightSpentOnce'
  BY <1>20 DEF RightSpentOnce, Owing, Stage, exchange, world,
      LCrash
<1>21. ASSUME UNCHANGED lvars PROVE RightSpentOnce'
  BY <1>21 DEF RightSpentOnce, Owing, Stage, exchange, world,
      lvars
<1> QED
  BY <1>1, <1>2, <1>3, <1>4, <1>5, <1>6, <1>7, <1>8, <1>9, <1>10, <1>11, <1>12,
     <1>13, <1>14, <1>15, <1>16, <1>17, <1>18, <1>19, <1>20, <1>21 DEF LNext, HandleExchange

\* However often a callback is repeated and whatever fails, at most one device row
\* comes of a login.
THEOREM OneSessionEver == LSpec => []OneSessionPerLogin
<1>1. RightSpentOnce => OneSessionPerLogin
  BY DEF RightSpentOnce, OneSessionPerLogin
<1> QED
  BY <1>1, RightInit, RightNext, PTL DEF LSpec

-----------------------------------------------------------------------------
(* The e-mail of a session.                                                *)

\* A set of naturals has a least element.
LEMMA LeastNatural ==
  ASSUME NEW S, S \subseteq Nat, S # {}
  PROVE  \E i \in S : \A j \in S : i <= j
<1>1. PICK i \in S : \A j \in S : ~(<<j, i>> \in OpToRel(<, Nat))
  BY NatLessThanWellFounded, WFMin, Zenon
<1>2. \A j \in S : ~(j < i)
  BY <1>1, Zenon DEF OpToRel
<1> QED
  BY <1>2

\* A checked address is the one that was checked.
LEMMA CheckedEmail ==
  ASSUME NEW o, NEW email, NEW verified, Checked(o, email, verified) # NoEmail
  PROVE  /\ Checked(o, email, verified) = email
         /\ verified \/ o.unverified
BY DEF Checked, CheckEmail

\* OIDCProvider.GetUser returns no address of a token for somebody else, and none
\* that its document does not call verified, unless that is allowed.
LEMMA OIDCEmail ==
  ASSUME NEW o \in ClientType, o.provider = "oidc", NEW a \in Answers(o),
         OIDCUser(o, a.id, a.info) # NoEmail
  PROVE  Acceptable(o, a, OIDCUser(o, a.id, a.info))
<1> DEFINE e == OIDCUser(o, a.id, a.info)
<1>1. /\ a.id \in IDToken \cup {Failed} /\ a.info \in Claims \cup {Failed} /\ a.emails = Failed
  BY DEF Answers
<1>2. ~Foreign(a)
  BY DEF OIDCUser, ParseIDToken, ValidateIDToken, Foreign, Current
<1>3. CASE ParseIDToken(a.id) /\ ValidateIDToken(a.id) /\ Suffices(o, a.id)
  <2>1. e = a.id.claims.email
    BY <1>3 DEF OIDCUser
  <2>2. e \in Email
    BY <1>1, <1>3, <2>1 DEF ParseIDToken, IDToken, Claims
  <2> QED
    BY <1>1, <1>2, <1>3, <2>1, <2>2
    DEF Acceptable, Names, Vouches, Suffices, ParseIDToken, CheckEmail, FlexibleBool, Current
<1>4. CASE ~(ParseIDToken(a.id) /\ ValidateIDToken(a.id) /\ Suffices(o, a.id))
  <2>1. /\ a.info # Failed
        /\ e = Checked(o, a.info.email, FlexibleBool(a.info.verified))
    BY <1>4 DEF OIDCUser
  <2>2. e = a.info.email /\ (FlexibleBool(a.info.verified) \/ o.unverified)
    BY <2>1, CheckedEmail
  <2>3. e \in Email
    BY <1>1, <2>1, <2>2 DEF Claims
  <2> QED
    BY <1>2, <2>1, <2>2, <2>3 DEF Acceptable, Names, Vouches, FlexibleBool
<1> QED
  BY <1>3, <1>4

\* GitHubProvider.GetUser returns the profile's address or a primary one that
\* passed the check.
LEMMA GitHubEmail ==
  ASSUME NEW o \in ClientType, o.provider = "github", NEW a \in Answers(o),
         GitHubUser(o, a.info, a.emails) # NoEmail
  PROVE  Acceptable(o, a, GitHubUser(o, a.info, a.emails))
<1> DEFINE e == GitHubUser(o, a.info, a.emails)
<1>1. a.id = Failed /\ a.info \in Claims \cup {Failed} /\ a.emails \in Lists \cup {Failed}
  BY DEF Answers
<1>2. ~Foreign(a)
  BY <1>1 DEF Foreign, Current
<1>3. a.info # Failed
  BY DEF GitHubUser
<1>4. CASE a.info.email # NoEmail
  <2>1. e = a.info.email
    BY <1>3, <1>4 DEF GitHubUser
  <2>2. e \in Email
    BY <1>1, <1>3, <1>4, <2>1 DEF Claims
  <2> QED
    BY <1>2, <1>3, <2>1, <2>2 DEF Acceptable, Names, Vouches
<1>5. CASE a.info.email = NoEmail
  <2>1. a.emails # Failed /\ e = FetchPrimaryEmail(o, a.emails)
    BY <1>3, <1>5 DEF GitHubUser
  <2> DEFINE primary == {i \in DOMAIN a.emails : a.emails[i].primary}
             first == CHOOSE i \in primary : \A j \in primary : i <= j
  <2>2. /\ primary # {}
        /\ e = Checked(o, a.emails[first].email, a.emails[first].verified)
    BY <2>1 DEF FetchPrimaryEmail
  <2>n. PICK n \in 0..MaxAddresses : a.emails \in [1..n -> Address]
    BY <1>1, <2>1 DEF Lists
  <2>3. \E i \in primary : \A j \in primary : i <= j
    <3>1. primary \subseteq 1..n /\ primary # {}
      BY <2>2, <2>n
    <3> HIDE DEF primary
    <3>2. primary \subseteq Nat
      BY <3>1
    <3> QED
      BY <3>1, <3>2, LeastNatural
  <2>4. first \in primary
    BY <2>3
  <2>5. e = a.emails[first].email /\ (a.emails[first].verified \/ o.unverified)
    <3> HIDE DEF first, primary
    <3> QED
      BY <2>2, CheckedEmail
  <2>6. e \in Email
    <3>1. a.emails[first] \in Address
      BY <2>n, <2>4
    <3> QED
      BY <2>2, <2>5, <3>1 DEF Address
  <2> QED
    BY <1>2, <2>1, <2>4, <2>5, <2>6 DEF Acceptable, Names, Vouches
<1> QED
  BY <1>4, <1>5

\* The providers that serve one document.
LEMMA DocumentEmail ==
  ASSUME NEW o \in ClientType, o.provider \in {"google", "discord", "generic"},
         NEW a \in Answers(o), GetUser(o, a) # NoEmail
  PROVE  Acceptable(o, a, GetUser(o, a))
<1> DEFINE e == GetUser(o, a)
<1>1. a.id = Failed /\ a.info \in Claims \cup {Failed}
  BY DEF Answers
<1>2. a.info # Failed
  BY DEF GetUser, StrictUser, GenericUser
<1>3. e = a.info.email /\ (a.info.verified \in {"true", "text true"} \/ o.unverified)
  <2>1. CASE o.provider = "generic"
    <3>1. e = Checked(o, a.info.email, FlexibleBool(a.info.verified))
      BY <1>2, <2>1 DEF GetUser, GenericUser
    <3> QED
      BY <3>1 DEF Checked, CheckEmail, FlexibleBool
  <2>2. CASE o.provider \in {"google", "discord"}
    <3>1. e = Checked(o, a.info.email, StrictBool(a.info.verified))
      BY <1>2, <2>2 DEF GetUser, StrictUser
    <3> QED
      BY <3>1 DEF Checked, CheckEmail, StrictBool
  <2> QED
    BY <2>1, <2>2
<1>4. e \in Email
  BY <1>1, <1>2, <1>3 DEF Claims
<1> QED
  BY <1>1, <1>2, <1>3, <1>4 DEF Acceptable, Foreign, Current, Names, Vouches

\* Every outcome of a GetUser, whatever provider it is and whatever it serves, is
\* a failure or an address that a login may rest on.
LEMMA OutcomesSound ==
  ASSUME NEW o \in ClientType, NEW r \in Outcomes(o)
  PROVE  r.sound = TRUE
<1>1. PICK a \in Answers(o) :
        r = IF GetUser(o, a) = NoEmail THEN [user |-> FALSE, sound |-> TRUE]
            ELSE [user |-> TRUE, sound |-> Acceptable(o, a, GetUser(o, a))]
  BY DEF Outcomes
<1>2. o.provider \in {"oidc", "github", "google", "discord", "generic"}
  BY DEF ClientType
<1>3. GetUser(o, a) # NoEmail => Acceptable(o, a, GetUser(o, a))
  <2>1. CASE o.provider = "oidc"
    BY <2>1, OIDCEmail DEF GetUser
  <2>2. CASE o.provider = "github"
    BY <2>2, GitHubEmail DEF GetUser
  <2> QED
    BY <1>2, <2>1, <2>2, DocumentEmail
<1>4. CASE GetUser(o, a) = NoEmail
  BY <1>1, <1>4
<1>5. CASE GetUser(o, a) # NoEmail
  <2>1. r = [user |-> TRUE, sound |-> Acceptable(o, a, GetUser(o, a))]
    BY <1>1, <1>5
  <2>2. Acceptable(o, a, GetUser(o, a)) = TRUE
    BY <1>3, <1>5 DEF Acceptable
  <2> QED
    BY <2>1, <2>2
<1> QED
  BY <1>4, <1>5

\* Only FetchUser decides whose login it is.
LEMMA EmailNext ==
  ASSUME EmailSound, [LNext]_lvars
  PROVE  EmailSound'
<1>1. ASSUME NEW p \in Proc, FetchUser(p) PROVE EmailSound'
  <2>1. PICK r \in UserOutcomes[mode] : sound' = r.sound
    BY <1>1 DEF FetchUser
  <2>2. mode.client \in ClientType /\ r \in Outcomes(mode.client)
    BY ModesAssumption, <2>1 DEF EmailSound, UserOutcomes, ModeType
  <2>3. mode' = mode
    BY <1>1 DEF FetchUser, Continue, Fail
  <2> QED
    BY <2>1, <2>2, <2>3, OutcomesSound DEF EmailSound
<1>2. ASSUME NEW p \in Proc,
             Take(p) \/ Exchange(p) \/ GetUsername(p) \/ CreateUser(p)
      PROVE  EmailSound'
  BY <1>2 DEF EmailSound, Take, Exchange, GetUsername, CreateUser, Continue, Conclude,
     Break, Fail, world
<1>3. ASSUME NEW p \in Proc,
             SaveDeviceSecret(p) \/ GenerateTokens(p) \/ Undo(p) \/ Revoke(p)
      PROVE  EmailSound'
  BY <1>3 DEF EmailSound, SaveDeviceSecret, GenerateTokens, Undo, Revoke, Continue,
     Conclude, Break, Fail, world
<1>4. ASSUME NEW p \in Proc,
             ProviderError(p) \/ Callback(p) \/ Approach(p) \/ LookAgain(p) \/ Keep(p) \/ Done(p)
      PROVE  EmailSound'
  BY <1>4 DEF EmailSound, ProviderError, Callback, Approach, LookAgain, Keep, Done, world
<1>5. ASSUME SetState \/ ExpireState \/ DeleteUser \/ ChangeEmail \/ Passing \/ \E i \in Instance : LCrash(i)
      PROVE  EmailSound'
  BY <1>5 DEF EmailSound, SetState, ExpireState, DeleteUser, ChangeEmail, Passing, LCrash, world
<1>6. ASSUME UNCHANGED lvars PROVE EmailSound'
  BY <1>6 DEF EmailSound, lvars, world
<1> QED
  BY <1>1, <1>2, <1>3, <1>4, <1>5, <1>6 DEF LNext, HandleExchange

\* In every deployment, with every provider and whatever it serves, a session is
\* created only for an e-mail that a login may rest on.
THEOREM EmailAlwaysVouched == LSpec => []SessionEmailVouched
<1>1. LInit => EmailSound
  BY DEF LInit, EmailSound
<1>2. EmailSound => SessionEmailVouched
  BY DEF EmailSound, SessionEmailVouched
<1> QED
  BY <1>1, <1>2, EmailNext, PTL DEF LSpec

-----------------------------------------------------------------------------
(* The flight around the exchange.                                         *)

\* Every step of a login is a step of the flight of its key, or does not concern it.
LEMMA FlightStep ==
  ASSUME [LNext]_lvars
  PROVE  [FNext]_fvars
<1>1. ASSUME NEW p \in Proc, HandleExchange(p) PROVE Finish(p) \/ UNCHANGED fvars
  BY <1>1 DEF HandleExchange, Take, Exchange, FetchUser, GetUsername, CreateUser,
     SaveDeviceSecret, GenerateTokens, Undo, Revoke, Continue, Conclude, Break, Fail
<1>2. ASSUME NEW p \in Proc,
             Callback(p) \/ Approach(p) \/ LookAgain(p) \/ Keep(p) \/ Done(p)
      PROVE  Do(p) \/ Step(p) \/ Leave(p)
  BY <1>2 DEF Callback, Approach, LookAgain, Keep, Done, Step
<1>3. ASSUME SetState \/ ExpireState \/ DeleteUser \/ ChangeEmail \/ \E p \in Proc : ProviderError(p)
      PROVE  UNCHANGED fvars
  BY <1>3 DEF SetState, ExpireState, DeleteUser, ChangeEmail, ProviderError
<1>4. ASSUME Passing \/ \E i \in Instance : LCrash(i) PROVE FNext
  BY <1>4 DEF Passing, LCrash, FNext
<1>5. ASSUME UNCHANGED lvars PROVE UNCHANGED fvars
  BY <1>5 DEF lvars
<1> QED
  BY <1>1, <1>2, <1>3, <1>4, <1>5 DEF LNext, FNext, Step

\* The exchange is the fn of a flight: every step of a login is a step of
\* flight.Do for its key, or does not concern it.
THEOREM LoginRunsTheFlight == LSpec => FSpec
<1>1. LInit => FInit
  BY DEF LInit
<1> QED
  BY <1>1, FlightStep, PTL DEF LSpec, FSpec

-----------------------------------------------------------------------------
(* What the steps of the exchange come to.                                 *)

\* The state is handed out once and taken once.
Forward ==
    /\ state' \in {"none", "live", "gone"}
    /\ state' # "gone" => state # "gone"
    /\ state' = "none" => state = "none"

\* p goes on within the exchange, which it entered by taking the state.
GoesOn(p) ==
    /\ pc[p] = "run" /\ state' = "gone"
    /\ state = "live" \/ Exchanging(p)
    /\ \E e \in Stage \ {"take"} : ep' = [ep EXCEPT ![p] = e]
    /\ UNCHANGED <<fvars, status, kept, broken, won, late, found>>

\* The exchange of p is over, and all who share its flight are answered.
Ended(p, s, a) ==
    /\ ReturnOwn(p, a)
    /\ status' = [q \in Proc |-> IF q \in Sharing(p) THEN s ELSE status[q]]
    /\ won' = (won \/ s = 200)
    /\ found' = IF p \in completed THEN found \cup (Sharing(p) \ late) ELSE found

\* The exchange of p is over, and its response is to be stored.
ToStore(p, s) ==
    /\ Keeps(p)
    /\ pc' = [pc EXCEPT ![p] = "store"]
    /\ status' = [status EXCEPT ![p] = s]
    /\ UNCHANGED <<answer, leader, shared, completed, local, history, won, found>>

\* The exchange of p ends with a response: 200 only after the state was taken, 400
\* only before.
Concludes(p, s) ==
    /\ pc[p] = "run" /\ state' = "gone"
    /\ s \in {200, 400, 401}
    /\ (s = 200 => Exchanging(p)) /\ (s = 400 => ~Exchanging(p))
    /\ ep' = [ep EXCEPT ![p] = "take"]
    /\ ToStore(p, s) \/ (~Keeps(p) /\ Ended(p, s, "ok"))
    /\ UNCHANGED <<faults, kept, late>>

\* The exchange of p ends with an error.
Errs(p) ==
    /\ pc[p] = "run"
    /\ ep' = [ep EXCEPT ![p] = "take"]
    /\ Ended(p, 500, "err")
    /\ UNCHANGED <<faults, kept, late>>

\* A response is stored if the run is one that keeps its result.
LEMMA ConcludeEffect ==
  ASSUME LoginInv, NEW p \in Proc, NEW s \in {200, 400, 401}, Conclude(p, s)
  PROVE  /\ pc[p] = "run" /\ ep' = [ep EXCEPT ![p] = "take"]
         /\ ToStore(p, s) \/ (~Keeps(p) /\ Ended(p, s, "ok"))
         /\ UNCHANGED <<faults, kept, late>>
<1>0. pc \in [Proc -> PC] /\ answer \in [Proc -> {"none", "ok", "err"}]
      /\ status \in [Proc -> {0, 200, 400, 401, 500}] /\ answer[p] = "none" /\ p \in Sharing(p)
      /\ won \in BOOLEAN
  BY DEF LoginInv, LTypeOK, FTypeOK, ControlType, StatusKept, Conclude, Finish, Sharing
<1>1. CASE ReturnOwn(p, "err")
  BY <1>0, <1>1 DEF Conclude, ReturnOwn, Return
<1>2. CASE ~Keeps(p) /\ ReturnOwn(p, "ok")
  <2>1. pc'[p] = "done"
    BY <1>0, <1>2 DEF ReturnOwn, Return
  <2>2. Respond(Sharing(p), p, s)
    BY <2>1 DEF Conclude
  <2>3. Ended(p, s, "ok")
    BY <1>2, <2>1, <2>2 DEF Respond, Ended
  <2> QED
    BY <1>2, <2>3 DEF Conclude, Finish
<1>3. CASE /\ Keeps(p) /\ Goto(p, "store")
           /\ UNCHANGED <<answer, leader, shared, completed, local, history>>
  <2>1. pc' = [pc EXCEPT ![p] = "store"] /\ pc'[p] # "done" /\ p \notin completed
    BY <1>0, <1>3 DEF Goto, Keeps
  <2>2. Respond({p}, p, s)
    BY <2>1 DEF Conclude
  <2>3. status' = [status EXCEPT ![p] = s]
    BY <1>0, <2>2 DEF Respond
  <2>4. won' = won /\ found' = found
    BY <1>0, <2>1, <2>2 DEF Respond
  <2> QED
    BY <1>3, <2>1, <2>3, <2>4 DEF Conclude, Finish, ToStore
<1> QED
  BY <1>1, <1>2, <1>3 DEF Conclude, Finish

\* An error is never stored.
LEMMA FailEffect ==
  ASSUME LoginInv, NEW p \in Proc, Fail(p, 500)
  PROVE  Errs(p)
<1>0. pc \in [Proc -> PC] /\ answer \in [Proc -> {"none", "ok", "err"}]
      /\ answer[p] = "none" /\ p \in Sharing(p)
  BY DEF LoginInv, LTypeOK, FTypeOK, ControlType, StatusKept, Fail, Finish, Sharing
<1>1. CASE ReturnOwn(p, "err")
  <2>1. pc'[p] = "done"
    BY <1>0, <1>1 DEF ReturnOwn, Return
  <2> QED
    BY <1>1, <2>1 DEF Fail, Finish, Respond, Ended, Errs
<1>2. CASE ReturnOwn(p, "ok")
  BY <1>0, <1>2 DEF Fail, ReturnOwn, Return
<1>3. CASE UNCHANGED answer
  BY <1>0, <1>3 DEF Fail
<1> QED
  BY <1>1, <1>2, <1>3 DEF Fail, Finish

\* Every step of the exchange goes on, concludes or errs.
LEMMA ExchangeSteps ==
  ASSUME LoginInv, NEW p \in Proc, HandleExchange(p)
  PROVE  (GoesOn(p) \/ Errs(p) \/ \E s \in {200, 400, 401} : Concludes(p, s)) /\ Forward
<1>0. /\ pc[p] # "idle" => state # "none"
      /\ state \in {"none", "live", "gone"} /\ (Exchanging(p) => state = "gone")
  BY DEF LoginInv, StatusKept, LTypeOK, TakenOnce
<1>1. ASSUME Take(p)
      PROVE  (GoesOn(p) \/ Errs(p) \/ Concludes(p, 400)) /\ Forward
  <2>1. pc[p] = "run" /\ ~Exchanging(p) /\ state # "none"
    BY <1>0, <1>1 DEF Take, In, Exchanging
  <2>2. CASE state = "live" /\ state' = "gone" /\ Continue(p, "exchange")
    BY <2>1, <2>2 DEF Continue, GoesOn, Forward, Stage, past
  <2>3. CASE state' = "gone" /\ Conclude(p, 400)
    BY <2>1, <2>3, ConcludeEffect DEF Concludes, Forward
  <2>4. CASE state # "live" /\ Conclude(p, 400) /\ UNCHANGED state
    BY <1>0, <2>1, <2>4, ConcludeEffect DEF Concludes, Forward
  <2>5. CASE Break(p) /\ state' \in {state, "gone"}
    BY <1>0, <2>5, FailEffect DEF Break, Forward
  <2> QED
    BY <1>1, <2>2, <2>3, <2>4, <2>5 DEF Take
<1> DEFINE Steps == \/ \E e \in Stage \ {"take"} : Continue(p, e)
                    \/ Fail(p, 500) \/ Conclude(p, 200) \/ Conclude(p, 401)
<1>2. ASSUME Exchange(p) \/ FetchUser(p) \/ GetUsername(p) \/ CreateUser(p)
             \/ SaveDeviceSecret(p) \/ GenerateTokens(p) \/ Undo(p) \/ Revoke(p)
      PROVE  Steps /\ pc[p] = "run" /\ Exchanging(p) /\ state' = state
  BY <1>2 DEF Exchange, FetchUser, GetUsername, CreateUser, SaveDeviceSecret, GenerateTokens,
     Undo, Revoke, Break, In, Exchanging, Stage, world
<1>3. ASSUME Steps, pc[p] = "run", Exchanging(p), state' = state
      PROVE  (GoesOn(p) \/ Errs(p) \/ \E s \in {200, 400, 401} : Concludes(p, s)) /\ Forward
  <2>1. Forward /\ state' = "gone"
    BY <1>0, <1>3 DEF Forward
  <2>2. ASSUME NEW e \in Stage \ {"take"}, Continue(p, e) PROVE GoesOn(p)
    BY <1>3, <2>1, <2>2 DEF Continue, GoesOn, past
  <2>3. ASSUME Fail(p, 500) PROVE Errs(p)
    BY <2>3, FailEffect
  <2>4. ASSUME Conclude(p, 200) PROVE Concludes(p, 200)
    BY <1>3, <2>1, <2>4, ConcludeEffect DEF Concludes
  <2>5. ASSUME Conclude(p, 401) PROVE Concludes(p, 401)
    BY <1>3, <2>1, <2>5, ConcludeEffect DEF Concludes
  <2> QED
    BY <1>3, <2>1, <2>2, <2>3, <2>4, <2>5
<1> QED
  BY <1>1, <1>2, <1>3 DEF HandleExchange

-----------------------------------------------------------------------------
(* Types.                                                                  *)

\* A step outside the flight and the exchange.
Aside == UNCHANGED <<fvars, exchange, won, late, found>>

\* GET /login, expiry, a refusal of the provider and the deletion of a user leave
\* flight and exchange alone.
LEMMA AsideSteps ==
  ASSUME LTypeOK,
         SetState \/ ExpireState \/ DeleteUser \/ ChangeEmail \/ (\E p \in Proc : ProviderError(p))
         \/ UNCHANGED lvars
  PROVE  Aside /\ Forward
BY DEF LTypeOK, Aside, Forward, SetState, ExpireState, DeleteUser, ChangeEmail, ProviderError, lvars, past,
   world

\* The state never comes back.
LEMMA StateForward ==
  ASSUME LoginInv, [LNext]_lvars
  PROVE  Forward
<1>0. LTypeOK
  BY DEF LoginInv
<1>1. ASSUME NEW p \in Proc,
             Callback(p) \/ Approach(p) \/ LookAgain(p) \/ Keep(p) \/ Done(p)
      PROVE  Forward
  BY <1>0, <1>1 DEF Callback, Approach, LookAgain, Keep, Done, world, Forward, LTypeOK
<1>2. ASSUME Passing \/ \E i \in Instance : LCrash(i) PROVE Forward
  BY <1>0, <1>2 DEF Passing, LCrash, world, Forward, LTypeOK
<1> QED
  BY <1>0, <1>1, <1>2, AsideSteps, ExchangeSteps DEF LNext

\* What the exchange changes outside has its type.
WorldType ==
    /\ mode \in Modes
    /\ token \in {"none", "live", "revoked"} /\ account \in {"no", "yes"}
    /\ device \in {"none", "row", "moved", "deleted"} /\ made \in Nat /\ sound \in BOOLEAN
    /\ broken \in BOOLEAN

\* Every step keeps those types.
LEMMA WorldTypeNext ==
  ASSUME WorldType, [LNext]_lvars
  PROVE  WorldType'
<1>1. ASSUME NEW p \in Proc, FetchUser(p) PROVE WorldType'
  <2>1. PICK r \in UserOutcomes[mode] : sound' = r.sound
    BY <1>1 DEF FetchUser
  <2>2. mode.client \in ClientType /\ r \in Outcomes(mode.client)
    BY ModesAssumption, <2>1 DEF WorldType, UserOutcomes, ModeType
  <2>3. sound' = TRUE
    BY <2>1, <2>2, OutcomesSound
  <2> QED
    BY <1>1, <2>3 DEF FetchUser, Continue, Fail, past, WorldType
<1>2. ASSUME NEW p \in Proc, Take(p) PROVE WorldType'
  BY <1>2 DEF WorldType, Take, Continue, Conclude, Break, Fail, past
<1>3. ASSUME NEW p \in Proc, Exchange(p) PROVE WorldType'
  BY <1>3 DEF WorldType, Exchange, Continue, Conclude, Break, Fail, past
<1>4. ASSUME NEW p \in Proc, GetUsername(p) PROVE WorldType'
  BY <1>4 DEF WorldType, GetUsername, Continue, Conclude, Break, Fail, world, past
<1>5. ASSUME NEW p \in Proc, CreateUser(p) PROVE WorldType'
  BY <1>5 DEF WorldType, CreateUser, Continue, Break, Fail, past
<1>6. ASSUME NEW p \in Proc, SaveDeviceSecret(p) PROVE WorldType'
  <2>1. UNCHANGED <<mode, token, account, sound>> /\ (broken' = broken \/ broken' = TRUE)
    BY <1>6 DEF SaveDeviceSecret, Continue, Conclude, Break, Fail, past
  <2>2. UNCHANGED <<device, made>> \/ Insert
    BY <1>6 DEF SaveDeviceSecret
  <2>3. device' \in {"none", "row", "moved", "deleted"} /\ made' \in Nat
    BY <2>2 DEF WorldType, Insert
  <2>4. broken' \in BOOLEAN
    BY <2>1 DEF WorldType
  <2> QED
    BY <2>1, <2>3, <2>4 DEF WorldType
<1>7. ASSUME NEW p \in Proc, GenerateTokens(p) PROVE WorldType'
  BY <1>7 DEF WorldType, GenerateTokens, Continue, Conclude, world, past
<1>8. ASSUME NEW p \in Proc, Undo(p) PROVE WorldType'
  BY <1>8 DEF WorldType, Undo, Break, Fail
<1>9. ASSUME NEW p \in Proc, Revoke(p) PROVE WorldType'
  BY <1>9 DEF WorldType, Revoke, Conclude
<1>10. ASSUME NEW p \in Proc,
             ProviderError(p) \/ Callback(p) \/ Approach(p) \/ LookAgain(p) \/ Keep(p) \/ Done(p)
      PROVE  WorldType'
  BY <1>10 DEF WorldType, ProviderError, Callback, Approach, LookAgain, Keep, Done, world, past
<1>11. ASSUME SetState \/ ExpireState \/ DeleteUser \/ ChangeEmail \/ Passing \/ \E i \in Instance : LCrash(i)
      PROVE  WorldType'
  BY <1>11 DEF WorldType, SetState, ExpireState, DeleteUser, ChangeEmail, Passing, LCrash, world, past
<1>12. ASSUME UNCHANGED lvars PROVE WorldType'
  BY <1>12 DEF WorldType, lvars, world, past
<1> QED
  BY <1>1, <1>2, <1>3, <1>4, <1>5, <1>6, <1>7, <1>8, <1>9, <1>10, <1>11, <1>12
  DEF LNext, HandleExchange

\* What a login keeps of its callbacks has its type.
CallbackType ==
    /\ ep \in [Proc -> Stage]
    /\ status \in [Proc -> {0, 200, 400, 401, 500}]
    /\ kept \in {0, 200, 400, 401}
    /\ won \in BOOLEAN /\ late \subseteq Proc /\ found \subseteq Proc
    /\ \A p \in Proc : pc[p] = "done" => status[p] # 0

\* Every step keeps those types: whoever is answered has a status.
LEMMA CallbackTypeNext ==
  ASSUME LoginInv, [LNext]_lvars
  PROVE  CallbackType'
<1>0. /\ CallbackType /\ pc \in [Proc -> PC] /\ StatusKept /\ LTypeOK
      /\ \A p \in Proc : Sharing(p) \subseteq Proc
  BY DEF LoginInv, LTypeOK, FTypeOK, ControlType, CallbackType, Sharing
<1>1. ASSUME Aside PROVE CallbackType'
  BY <1>0, <1>1 DEF CallbackType, Aside, fvars, calls, exchange
<1>2. ASSUME NEW p \in Proc, GoesOn(p) PROVE CallbackType'
  BY <1>0, <1>2 DEF CallbackType, GoesOn, fvars, calls
<1>3. ASSUME NEW p \in Proc, NEW s \in {200, 400, 401}, Concludes(p, s) PROVE CallbackType'
  <2>1. CASE ToStore(p, s)
    BY <1>0, <1>3, <2>1 DEF CallbackType, Concludes, ToStore, Stage
  <2>2. CASE Ended(p, s, "ok")
    BY <1>0, <1>3, <2>2 DEF CallbackType, Concludes, Ended, ReturnOwn, Return, Stage
  <2> QED
    BY <1>3, <2>1, <2>2 DEF Concludes
<1>4. ASSUME NEW p \in Proc, Errs(p) PROVE CallbackType'
  BY <1>0, <1>4 DEF CallbackType, Errs, Ended, ReturnOwn, Return, Stage
<1>5. ASSUME NEW p \in Proc, Callback(p) PROVE CallbackType'
  BY <1>0, <1>5 DEF CallbackType, Callback, Do, Goto, exchange
<1>6. ASSUME NEW p \in Proc, Approach(p) PROVE CallbackType'
  BY <1>0, <1>6, ModesAssumption DEF CallbackType, Approach, Load, Lock, Goto, exchange, past
<1>7. ASSUME NEW p \in Proc, LookAgain(p) PROVE CallbackType'
  <2>1. CASE ReturnStored(p)
    <3>1. kept # 0
      BY <1>0, <2>1 DEF ReturnStored, StatusKept
    <3>2. pc' = [q \in Proc |-> IF q \in Sharing(p) THEN "done" ELSE pc[q]] /\ pc'[p] = "done"
      BY <2>1 DEF ReturnStored, Return, Sharing
    <3>3. Respond(Sharing(p), p, kept) /\ UNCHANGED <<ep, kept, late>>
      BY <1>7, <3>2 DEF LookAgain
    <3> QED
      BY <1>0, <3>1, <3>2, <3>3 DEF CallbackType, Respond
  <2>2. CASE Goto(p, "run")
    BY <1>0, <1>7, <2>2 DEF CallbackType, LookAgain, Goto
  <2> QED
    BY <1>7, <2>1, <2>2 DEF LookAgain, Reload
<1>8. ASSUME NEW p \in Proc, Keep(p) PROVE CallbackType'
  <2>1. status[p] \in {200, 400, 401} /\ Respond(Sharing(p), p, status[p])
    BY <1>0, <1>8 DEF Keep, StoreResult, StoreFails, StatusKept
  <2>2. pc' = [q \in Proc |-> IF q \in Sharing(p) THEN "done" ELSE pc[q]]
    BY <1>8 DEF Keep, StoreResult, StoreFails, ReturnOwn, Return
  <2>3. kept' \in {0, 200, 400, 401}
    BY <1>0, <1>8, <2>1 DEF Keep, CallbackType
  <2> QED
    BY <1>0, <1>8, <2>1, <2>2, <2>3 DEF CallbackType, Keep, Respond
<1>9. ASSUME NEW p \in Proc, Done(p) PROVE CallbackType'
  BY <1>0, <1>9 DEF CallbackType, Done, Leave, Goto
<1>10. ASSUME Passing PROVE CallbackType'
  BY <1>0, <1>10 DEF CallbackType, Passing, ExpireResult, ExpireLock, LoseLock, EndContext, calls, past
<1>11. ASSUME NEW i \in Instance, LCrash(i) PROVE CallbackType'
  BY <1>0, <1>11 DEF CallbackType, LCrash, Crash, Stage
<1> QED
  BY <1>0, <1>1, <1>2, <1>3, <1>4, <1>5, <1>6, <1>7, <1>8, <1>9, <1>10, <1>11, AsideSteps,
     ExchangeSteps DEF LNext

\* Every step keeps the types.
LEMMA LoginTypeNext ==
  ASSUME LoginInv, [LNext]_lvars
  PROVE  LTypeOK'
<1>1. FTypeOK' /\ Forward
  BY FlightStep, FlightInvNext, StateForward DEF LoginInv, FlightInv
<1>2. WorldType
  BY DEF LoginInv, LTypeOK, WorldType
<1>3. WorldType' /\ CallbackType'
  BY <1>2, WorldTypeNext, CallbackTypeNext
<1> QED
  BY <1>1, <1>3 DEF LTypeOK, WorldType, CallbackType, Forward

-----------------------------------------------------------------------------
(* The state is taken once.                                                *)

\* A 200 comes of an exchange, or repeats one that there is.
LEMMA SuccessNew ==
  ASSUME LoginInv, [LNext]_lvars, Succeeded'
  PROVE  Succeeded \/ \E p \in Proc : HandleExchange(p) /\ Concludes(p, 200)
<1> SUFFICES ASSUME \A p \in Proc : ~(HandleExchange(p) /\ Concludes(p, 200)), ~Succeeded
             PROVE  FALSE
  OBVIOUS
<1>0. /\ status \in [Proc -> {0, 200, 400, 401, 500}] /\ pc \in [Proc -> PC] /\ LTypeOK
      /\ won = FALSE /\ kept # 200 /\ \A p \in Proc : status[p] # 200
  BY DEF LoginInv, LTypeOK, FTypeOK, ControlType, Succeeded
<1>a. ASSUME NEW P, NEW s, s # 200, ~won', kept' # 200,
             status' = [q \in Proc |-> IF q \in P THEN s ELSE status[q]]
      PROVE  FALSE
  BY <1>0, <1>a DEF Succeeded
<1>b. ASSUME NEW s, s # 200, NEW X \in BOOLEAN, won' = (won \/ (s = 200 /\ X)) PROVE ~won'
  BY <1>0, <1>b, Zenon
<1>c. ASSUME NEW s, s # 200, won' = (won \/ s = 200) PROVE ~won'
  BY <1>0, <1>c, Zenon
<1>1. ASSUME Aside PROVE FALSE
  BY <1>0, <1>1 DEF Succeeded, Aside, exchange
<1>2. ASSUME NEW p \in Proc, GoesOn(p) PROVE FALSE
  BY <1>0, <1>2 DEF Succeeded, GoesOn
<1>3. ASSUME NEW p \in Proc, NEW s \in {400, 401}, Concludes(p, s) PROVE FALSE
  <2>1. CASE ToStore(p, s)
    BY <1>0, <1>3, <2>1 DEF Succeeded, Concludes, ToStore
  <2>2. CASE Ended(p, s, "ok")
    BY <1>0, <1>a, <1>c, <1>3, <2>2 DEF Concludes, Ended
  <2> QED
    BY <1>3, <2>1, <2>2 DEF Concludes
<1>4. ASSUME NEW p \in Proc, Errs(p) PROVE FALSE
  BY <1>0, <1>a, <1>c, <1>4 DEF Errs, Ended
<1>5. ASSUME NEW p \in Proc, Callback(p) \/ Approach(p) PROVE FALSE
  BY <1>0, <1>5 DEF Succeeded, Callback, Approach, exchange, past
<1>6. ASSUME NEW p \in Proc, LookAgain(p) PROVE FALSE
  <2>1. CASE UNCHANGED <<status, won>>
    BY <1>0, <1>6, <2>1 DEF Succeeded, LookAgain
  <2>2. CASE Respond(Sharing(p), p, kept)
    <3>1. ~won'
      BY <1>0, <1>b, <2>2 DEF Respond
    <3> QED
      BY <1>0, <1>a, <1>6, <2>2, <3>1 DEF LookAgain, Respond
  <2> QED
    BY <1>6, <2>1, <2>2 DEF LookAgain
<1>7. ASSUME NEW p \in Proc, Keep(p) PROVE FALSE
  <2>1. ~won'
    BY <1>0, <1>b, <1>7 DEF Keep, Respond
  <2> QED
    BY <1>0, <1>a, <1>7, <2>1 DEF Keep, Respond
<1>8. ASSUME NEW p \in Proc, Done(p) PROVE FALSE
  BY <1>0, <1>8 DEF Succeeded, Done
<1>9. ASSUME Passing PROVE FALSE
  BY <1>0, <1>9 DEF Succeeded, Passing, past
<1>10. ASSUME NEW i \in Instance, LCrash(i) PROVE FALSE
  BY <1>0, <1>10 DEF Succeeded, LCrash
<1> QED
  BY <1>0, <1>1, <1>2, <1>3, <1>4, <1>5, <1>6, <1>7, <1>8, <1>9, <1>10, AsideSteps,
     ExchangeSteps DEF LNext

\* Who is in the exchange took the state, now or earlier, and has the flight to itself.
LEMMA ExchangingNew ==
  ASSUME LoginInv, [LNext]_lvars, NEW q \in Proc, Exchanging(q)'
  PROVE  /\ pc'[q] = "run" /\ q \notin completed'
         /\ Exchanging(q) \/ (state = "live" /\ GoesOn(q))
<1>0. /\ ep \in [Proc -> Stage] /\ pc \in [Proc -> PC] /\ LTypeOK
      /\ completed \subseteq Inside /\ local \subseteq Inside
      /\ Exchanging(q) => pc[q] = "run" /\ q \notin completed
      /\ state # "gone" => completed = {}
  BY DEF LoginInv, LTypeOK, FTypeOK, ControlType, InsideType, TakenOnce
<1> DEFINE Stays == pc'[q] = "run" /\ q \notin completed' /\ Exchanging(q)
<1>1. ASSUME Aside PROVE Stays
  BY <1>0, <1>1 DEF Exchanging, Aside, exchange, fvars, calls
<1>2. ASSUME NEW p \in Proc, GoesOn(p)
      PROVE  /\ pc'[q] = "run" /\ q \notin completed'
             /\ Exchanging(q) \/ (state = "live" /\ GoesOn(q))
  <2>1. CASE p = q
    BY <1>0, <1>2, <2>1 DEF GoesOn, fvars, calls
  <2>2. CASE p # q
    BY <1>0, <1>2, <2>2 DEF GoesOn, Exchanging, fvars, calls
  <2> QED
    BY <2>1, <2>2
<1>3. ASSUME NEW p \in Proc, NEW s \in {200, 400, 401}, Concludes(p, s) PROVE Stays
  <2>0. p # q /\ Exchanging(q)
    BY <1>0, <1>3 DEF Concludes, Exchanging
  <2>1. CASE ToStore(p, s)
    BY <1>0, <2>0, <2>1 DEF ToStore
  <2>2. CASE Ended(p, s, "ok")
    BY <1>0, <2>0, <2>2 DEF Ended, ReturnOwn, Return, Sharing
  <2> QED
    BY <1>3, <2>1, <2>2 DEF Concludes
<1>4. ASSUME NEW p \in Proc, Errs(p) PROVE Stays
  <2>0. p # q /\ Exchanging(q)
    BY <1>0, <1>4 DEF Errs, Exchanging
  <2> QED
    BY <1>0, <1>4, <2>0 DEF Errs, Ended, ReturnOwn, Return, Sharing
<1>5. ASSUME NEW p \in Proc,
             Callback(p) \/ Approach(p) \/ LookAgain(p) \/ Keep(p) \/ Done(p)
      PROVE  Stays
  <2>0. Exchanging(q)
    BY <1>5 DEF Callback, Approach, LookAgain, Keep, Done, Exchanging, exchange
  <2>1. pc[p] # "run"
    BY <1>5 DEF Callback, Approach, LookAgain, Keep, Done, Do, Load, Lock, Reload, StoreResult,
       StoreFails, Leave
  <2>2. CASE Callback(p)
    BY <1>0, <2>0, <2>1, <2>2 DEF Callback, Do, Goto
  <2>3. CASE Approach(p)
    BY <1>0, <2>0, <2>1, <2>3, ModesAssumption DEF Approach, Load, Lock, Goto
  <2>4. CASE LookAgain(p)
    BY <1>0, <2>0, <2>1, <2>4 DEF LookAgain, Reload, ReturnStored, Return, Sharing, Goto
  <2>5. CASE Keep(p)
    BY <1>0, <2>0, <2>1, <2>5 DEF Keep, StoreResult, StoreFails, ReturnOwn, Return, Sharing
  <2>6. CASE Done(p)
    BY <1>0, <2>0, <2>1, <2>6 DEF Done, Leave, Goto
  <2> QED
    BY <1>5, <2>2, <2>3, <2>4, <2>5, <2>6
<1>6. ASSUME Passing PROVE Stays
  BY <1>0, <1>6 DEF Exchanging, Passing, ExpireResult, ExpireLock, LoseLock, EndContext, calls
<1>7. ASSUME NEW i \in Instance, LCrash(i) PROVE Stays
  BY <1>0, <1>7 DEF Exchanging, LCrash, Crash
<1> QED
  BY <1>0, <1>1, <1>2, <1>3, <1>4, <1>5, <1>6, <1>7, AsideSteps, ExchangeSteps DEF LNext

\* Nothing is stored before the state is taken.
LEMMA NothingBefore ==
  ASSUME LoginInv, [LNext]_lvars, state' # "gone"
  PROVE  stored' = None /\ completed' = {}
<1>0. /\ state # "gone" /\ stored = None /\ completed = {} /\ LTypeOK
      /\ \A p \in Proc : pc[p] # "store"
  BY StateForward DEF Forward, LoginInv, TakenOnce, StatusKept
<1>1. ASSUME Aside PROVE stored' = None /\ completed' = {}
  BY <1>0, <1>1 DEF Aside, fvars, shared
<1>2. ASSUME NEW p \in Proc, GoesOn(p) PROVE FALSE
  BY <1>2 DEF GoesOn
<1>3. ASSUME NEW p \in Proc, NEW s \in {200, 400, 401}, Concludes(p, s) PROVE FALSE
  BY <1>3 DEF Concludes
<1>4. ASSUME NEW p \in Proc, Errs(p) PROVE stored' = None /\ completed' = {}
  BY <1>0, <1>4 DEF Errs, Ended, ReturnOwn, Return
<1>5. ASSUME NEW p \in Proc, Callback(p) \/ Approach(p) \/ LookAgain(p) \/ Done(p)
      PROVE  stored' = None /\ completed' = {}
  BY <1>0, <1>5 DEF Callback, Approach, LookAgain, Done, Do, Load, Lock, Reload, Leave,
     ReturnStored, shared
<1>6. ASSUME NEW p \in Proc, Keep(p) PROVE FALSE
  BY <1>0, <1>6 DEF Keep, StoreResult, StoreFails
<1>7. ASSUME Passing PROVE stored' = None /\ completed' = {}
  BY <1>0, <1>7 DEF Passing, ExpireResult, ExpireLock, LoseLock, EndContext
<1>8. ASSUME NEW i \in Instance, LCrash(i) PROVE stored' = None /\ completed' = {}
  BY <1>0, <1>8 DEF LCrash, Crash
<1> QED
  BY <1>0, <1>1, <1>2, <1>3, <1>4, <1>5, <1>6, <1>7, <1>8, AsideSteps, ExchangeSteps DEF LNext

\* At most one process passes Take.
LEMMA TakenOnceNext ==
  ASSUME LoginInv, [LNext]_lvars
  PROVE  TakenOnce'
<1>0. TakenOnce /\ Forward /\ ep \in [Proc -> Stage]
  BY StateForward DEF LoginInv, LTypeOK
<1>1. ASSUME NEW p \in Proc, Concludes(p, 200)
      PROVE  state = "gone" /\ state' = "gone" /\ \A q \in Proc : ~Exchanging(q)'
  <2>1. Exchanging(p) /\ state' = "gone" /\ ep' = [ep EXCEPT ![p] = "take"]
    BY <1>1 DEF Concludes
  <2> QED
    BY <1>0, <2>1 DEF TakenOnce, Exchanging
<1>2. ASSUME state' # "gone" PROVE ~Succeeded'
  BY <1>0, <1>1, <1>2, SuccessNew DEF TakenOnce, Forward
<1>3. ASSUME NEW p \in Proc, Exchanging(p)'
      PROVE  /\ state' = "gone" /\ ~Succeeded'
             /\ \A q \in Proc : Exchanging(q)' => q = p
  <2>1. Exchanging(p) \/ (state = "live" /\ GoesOn(p))
    BY <1>3, ExchangingNew
  <2>2. ~Succeeded
    BY <1>0, <2>1 DEF TakenOnce
  <2>3. ~Succeeded'
    BY <1>1, <1>3, <2>2, SuccessNew
  <2>4. state' = "gone"
    BY <1>0, <2>1 DEF TakenOnce, Forward, GoesOn
  <2>5. ASSUME NEW q \in Proc, Exchanging(q)', q # p PROVE FALSE
    <3>1. Exchanging(q) \/ (state = "live" /\ GoesOn(q))
      BY <2>5, ExchangingNew
    <3>2. CASE state = "live"
      <4>1. ~Exchanging(p) /\ ~Exchanging(q)
        BY <1>0, <3>2 DEF TakenOnce
      <4> QED
        BY <1>0, <1>3, <2>1, <2>5, <4>1 DEF GoesOn, Exchanging
    <3> QED
      BY <1>0, <2>1, <2>5, <3>1, <3>2 DEF TakenOnce
  <2> QED
    BY <2>3, <2>4, <2>5
<1> QED
  BY <1>2, <1>3, NothingBefore, ExchangingNew DEF TakenOnce

\* A response is stored with a status.
LEMMA StatusKeptNext ==
  ASSUME LoginInv, [LNext]_lvars
  PROVE  StatusKept'
<1>0. /\ StatusKept /\ LTypeOK /\ Forward
      /\ pc \in [Proc -> PC] /\ answer \in [Proc -> {"none", "ok", "err"}]
      /\ status \in [Proc -> {0, 200, 400, 401, 500}]
  BY StateForward DEF LoginInv, LTypeOK, FTypeOK, ControlType
<1>1. ASSUME Aside PROVE StatusKept'
  BY <1>0, <1>1 DEF StatusKept, Aside, Forward, fvars, calls, shared, exchange
<1>2. ASSUME NEW p \in Proc, GoesOn(p) PROVE StatusKept'
  BY <1>0, <1>2 DEF StatusKept, GoesOn, fvars, calls, shared
<1>3. ASSUME NEW p \in Proc, NEW s \in {200, 400, 401}, Concludes(p, s) PROVE StatusKept'
  <2>1. CASE ToStore(p, s)
    BY <1>0, <1>3, <2>1 DEF StatusKept, Concludes, ToStore, shared
  <2>2. CASE Ended(p, s, "ok")
    BY <1>0, <1>3, <2>2 DEF StatusKept, Concludes, Ended, ReturnOwn, Return, Sharing
  <2> QED
    BY <1>3, <2>1, <2>2 DEF Concludes
<1>4. ASSUME NEW p \in Proc, Errs(p) PROVE StatusKept'
  BY <1>0, <1>4 DEF StatusKept, Errs, Ended, ReturnOwn, Return, Sharing, Forward
<1>5. ASSUME NEW p \in Proc, Callback(p) PROVE StatusKept'
  BY <1>0, <1>5 DEF StatusKept, Callback, Do, Goto, shared, exchange, Forward, world
<1>6. ASSUME NEW p \in Proc, Approach(p) PROVE StatusKept'
  BY <1>0, <1>6, ModesAssumption DEF StatusKept, Approach, Load, Lock, Goto, shared, exchange,
     Forward, world
<1>7. ASSUME NEW p \in Proc, LookAgain(p) PROVE StatusKept'
  <2>1. CASE ReturnStored(p)
    <3>1. /\ pc' = [q \in Proc |-> IF q \in Sharing(p) THEN "done" ELSE pc[q]]
          /\ answer' = [q \in Proc |-> IF q \in Sharing(p) THEN "ok" ELSE answer[q]]
          /\ pc'[p] = "done" /\ stored' = stored /\ pc[p] # "idle" /\ p \in Sharing(p)
      BY <1>7, <2>1 DEF LookAgain, Reload, ReturnStored, Return, Sharing
    <3>2. /\ status' = [q \in Proc |-> IF q \in Sharing(p) THEN kept ELSE status[q]]
          /\ kept' = kept /\ state' = state
      BY <1>7, <3>1 DEF LookAgain, Respond, world
    <3> QED
      BY <1>0, <3>1, <3>2 DEF StatusKept, Sharing
  <2>2. CASE Goto(p, "run") /\ UNCHANGED <<answer, shared>>
    BY <1>0, <1>7, <2>2 DEF StatusKept, LookAgain, Reload, Goto, shared, world
  <2> QED
    BY <1>7, <2>1, <2>2 DEF LookAgain, Reload
<1>8. ASSUME NEW p \in Proc, Keep(p) PROVE StatusKept'
  <2>1. /\ status[p] \in {200, 400, 401} /\ p \in Sharing(p)
        /\ status' = [q \in Proc |-> IF q \in Sharing(p) THEN status[p] ELSE status[q]]
        /\ (stored' = stored /\ kept' = kept) \/ kept' = status[p]
    BY <1>0, <1>8 DEF Keep, StoreResult, StoreFails, ReturnOwn, StatusKept, Respond, Sharing
  <2>2. /\ pc' = [q \in Proc |-> IF q \in Sharing(p) THEN "done" ELSE pc[q]]
        /\ answer' = [q \in Proc |-> IF q \in Sharing(p) THEN "ok" ELSE answer[q]]
        /\ pc[p] = "store" /\ state' = state
    BY <1>8 DEF Keep, StoreResult, StoreFails, ReturnOwn, Return, world
  <2> QED
    BY <1>0, <2>1, <2>2 DEF StatusKept, Sharing
<1>9. ASSUME NEW p \in Proc, Done(p) PROVE StatusKept'
  BY <1>0, <1>9 DEF StatusKept, Done, Leave, Goto, shared, world
<1>10. ASSUME Passing PROVE StatusKept'
  BY <1>0, <1>10 DEF StatusKept, Passing, ExpireResult, ExpireLock, LoseLock, EndContext, calls, world
<1>11. ASSUME NEW i \in Instance, LCrash(i) PROVE StatusKept'
  BY <1>0, <1>11 DEF StatusKept, LCrash, Crash, Forward
<1> QED
  BY <1>0, <1>1, <1>2, <1>3, <1>4, <1>5, <1>6, <1>7, <1>8, <1>9, <1>10, <1>11, AsideSteps,
     ExchangeSteps DEF LNext

\* Initially nothing has happened.
LEMMA LoginInit == LInit => LoginInv
<1> SUFFICES ASSUME LInit PROVE LoginInv
  OBVIOUS
<1>1. FlightInv
  BY FlightInit DEF LInit
<1>2. LTypeOK
  BY <1>1 DEF LInit, LTypeOK, FlightInv, FInit, Stage
<1>3. TakenOnce /\ StatusKept
  BY DEF LInit, FInit, TakenOnce, StatusKept, Succeeded, Exchanging
<1> QED
  BY <1>1, <1>2, <1>3 DEF LoginInv

\* Every step keeps the invariant.
LEMMA LoginInvNext ==
  ASSUME LoginInv, [LNext]_lvars
  PROVE  LoginInv'
<1>1. FlightInv'
  BY FlightStep, FlightInvNext DEF LoginInv
<1> QED
  BY <1>1, LoginTypeNext, TakenOnceNext, StatusKeptNext DEF LoginInv

\* The invariant holds in every reachable state.
THEOREM LoginInvariant == LSpec => []LoginInv
BY LoginInit, LoginInvNext, PTL DEF LSpec

\* Every variable keeps its type, and whoever is answered has a status.
THEOREM LoginTypes == LSpec => []LTypeOK
<1>1. LoginInv => LTypeOK
  BY DEF LoginInv
<1> QED
  BY <1>1, LoginInvariant, PTL

-----------------------------------------------------------------------------
(* What a login leaves behind.                                             *)

\* What has failed has failed, and what was answered was answered.
LEMMA HistoryKept ==
  ASSUME LoginInv, [LNext]_lvars
  PROVE  /\ faults' = 0 => faults = 0
         /\ ~broken' => ~broken
         /\ won => won'
<1>0. faults \in Nat /\ LTypeOK
  BY DEF LoginInv, LTypeOK, FTypeOK, StoreType
<1>1. faults' = 0 => faults = 0
  <2>1. [FNext]_fvars
    BY FlightStep
  <2>2. UNCHANGED faults \/ faults' = faults + 1
    BY <2>1 DEF FNext, Step, fvars, Do, Load, Lock, Reload, Finish, StoreResult, StoreFails,
       Leave, LoseLock, ExpireResult, ExpireLock, Crash, ReturnStored, RedisFault, Fault,
       Fails, EndContext
  <2> QED
    BY <1>0, <2>2
<1>2. ~broken' => ~broken
  BY DEF LNext, HandleExchange, SetState, ExpireState, DeleteUser, ChangeEmail, Passing, ProviderError,
     Callback, Approach, LookAgain, Keep, Done, LCrash, Take, Exchange, FetchUser, GetUsername,
     CreateUser, SaveDeviceSecret, GenerateTokens, Undo, Revoke, Continue, Break, lvars, past
<1>3. won => won'
  <2>1. ASSUME NEW p \in Proc, HandleExchange(p) PROVE won => won'
    <3>1. GoesOn(p) \/ Errs(p) \/ \E s \in {200, 400, 401} : Concludes(p, s)
      BY <2>1, ExchangeSteps
    <3>2. GoesOn(p) => won' = won
      BY DEF GoesOn
    <3>3. Errs(p) => won' = (won \/ 500 = 200)
      BY DEF Errs, Ended
    <3>4. ASSUME NEW s \in {200, 400, 401}, Concludes(p, s) PROVE won => won'
      <4>1. ToStore(p, s) \/ Ended(p, s, "ok")
        BY <3>4 DEF Concludes
      <4>2. ToStore(p, s) => won' = won
        BY DEF ToStore
      <4>3. Ended(p, s, "ok") => won' = (won \/ s = 200)
        BY DEF Ended
      <4> QED
        BY <4>1, <4>2, <4>3, Zenon
    <3>5. (\E s \in {200, 400, 401} : Concludes(p, s)) => (won => won')
      BY <3>4
    <3>6. Errs(p) => (won => won')
      BY <3>3, Zenon
    <3>7. GoesOn(p) => (won => won')
      BY <3>2
    <3> QED
      BY <3>1, <3>5, <3>6, <3>7
  <2>2. ASSUME NEW p \in Proc,
               Callback(p) \/ Approach(p) \/ LookAgain(p) \/ Keep(p) \/ Done(p)
        PROVE  won => won'
    BY <2>2 DEF Callback, Approach, LookAgain, Keep, Done, Respond, past
  <2>3. ASSUME Passing \/ \E i \in Instance : LCrash(i) PROVE won => won'
    BY <2>3 DEF Passing, LCrash, past
  <2>4. ASSUME Aside PROVE won => won'
    BY <2>4 DEF Aside
  <2> QED
    BY <1>0, <2>1, <2>2, <2>3, <2>4, AsideSteps DEF LNext
<1> QED
  BY <1>1, <1>2, <1>3

\* A run is moved by its own steps only, unless its instance dies.
LEMMA RunUntouched ==
  ASSUME LoginInv, [LNext]_lvars, NEW p \in Proc, Running(p)
  PROVE  \/ HandleExchange(p) \/ Keep(p) \/ \E i \in Instance : LCrash(i)
         \/ pc'[p] = pc[p] /\ ep'[p] = ep[p] /\ status'[p] = status[p]
<1> DEFINE Same == pc'[p] = pc[p] /\ ep'[p] = ep[p] /\ status'[p] = status[p]
<1>0. /\ ep \in [Proc -> Stage] /\ pc \in [Proc -> PC] /\ LTypeOK
      /\ status \in [Proc -> {0, 200, 400, 401, 500}] /\ pc[p] \in {"run", "store"}
      /\ \A q \in Proc \ {p} : p \notin Sharing(q)
  BY DEF LoginInv, LTypeOK, FTypeOK, ControlType, Sharing, Running
<1>1. ASSUME Aside PROVE Same
  BY <1>1 DEF Aside, exchange, fvars, calls
<1>2. ASSUME NEW q \in Proc \ {p}, HandleExchange(q) PROVE Same
  <2>1. CASE GoesOn(q)
    BY <1>0, <2>1 DEF GoesOn, fvars, calls
  <2>2. CASE Errs(q)
    BY <1>0, <2>2 DEF Errs, Ended, ReturnOwn, Return
  <2>3. ASSUME NEW s \in {200, 400, 401}, Concludes(q, s) PROVE Same
    <3>1. CASE ToStore(q, s)
      BY <1>0, <2>3, <3>1 DEF Concludes, ToStore
    <3>2. CASE Ended(q, s, "ok")
      BY <1>0, <2>3, <3>2 DEF Concludes, Ended, ReturnOwn, Return
    <3> QED
      BY <2>3, <3>1, <3>2 DEF Concludes
  <2> QED
    BY <1>2, <2>1, <2>2, <2>3, ExchangeSteps
<1>3. ASSUME NEW q \in Proc, Callback(q) \/ Approach(q) \/ Done(q) PROVE Same
  <2>1. q # p
    BY <1>0, <1>3 DEF Callback, Approach, Done, Do, Load, Lock, Leave
  <2> QED
    BY <1>0, <1>3, <2>1, ModesAssumption DEF Callback, Approach, Done, Do, Load, Lock, Leave,
       Goto, exchange
<1>4. ASSUME NEW q \in Proc, LookAgain(q) PROVE Same
  <2>1. q # p
    BY <1>0, <1>4 DEF LookAgain, Reload
  <2>2. pc'[p] = pc[p]
    BY <1>0, <1>4, <2>1 DEF LookAgain, Reload, ReturnStored, Return, Goto
  <2>3. status'[p] = status[p]
    BY <1>0, <1>4, <2>1 DEF LookAgain, Respond
  <2> QED
    BY <1>4, <2>2, <2>3 DEF LookAgain
<1>5. ASSUME NEW q \in Proc \ {p}, Keep(q) PROVE Same
  <2>2. pc'[p] = pc[p]
    BY <1>0, <1>5 DEF Keep, StoreResult, StoreFails, ReturnOwn, Return
  <2>3. status'[p] = status[p]
    BY <1>0, <1>5 DEF Keep, Respond
  <2> QED
    BY <1>5, <2>2, <2>3 DEF Keep
<1>6. ASSUME Passing PROVE Same
  BY <1>6 DEF Passing, ExpireResult, ExpireLock, LoseLock, EndContext, calls
<1> QED
  BY <1>0, <1>1, <1>2, <1>3, <1>4, <1>5, <1>6, AsideSteps DEF LNext

\* A crash is a fault.
LEMMA CrashIsFault ==
  ASSUME LoginInv, NEW i \in Instance, LCrash(i)
  PROVE  faults' # 0
<1>1. faults \in Nat
  BY DEF LoginInv, LTypeOK, FTypeOK, StoreType
<1> QED
  BY <1>1 DEF LCrash, Crash, Fault

\* Where nothing fails, who is to deliver a device delivers it, or deletes it.
LEMMA DeliveringNext ==
  ASSUME LoginInv, [LNext]_lvars, faults' = 0, ~broken', device' = "row",
         NEW p \in Proc, Delivering(p)
  PROVE  won' \/ Delivering(p)'
<1>0. /\ ep \in [Proc -> Stage] /\ pc \in [Proc -> PC]
      /\ status \in [Proc -> {0, 200, 400, 401, 500}]
  BY DEF LoginInv, LTypeOK, FTypeOK, ControlType
<1>1. Running(p)
  BY DEF Delivering, LoginInv, TakenOnce, Exchanging, Running
<1>2. CASE pc'[p] = pc[p] /\ ep'[p] = ep[p] /\ status'[p] = status[p]
  BY <1>2 DEF Delivering
<1>3. CASE Keep(p)
  <2>1. pc[p] = "store" /\ pc'[p] = "done" /\ Respond(Sharing(p), p, status[p])
    BY <1>0, <1>3 DEF Keep, StoreResult, StoreFails, ReturnOwn, Return, Sharing
  <2>2. status[p] = 200
    BY <2>1 DEF Delivering, LoginInv, TakenOnce, Exchanging
  <2> QED
    BY <2>1, <2>2 DEF Respond
<1>4. CASE HandleExchange(p)
  <2>1. ep[p] \in {"access", "undo", "revoke"}
    BY <1>4 DEF Delivering, HandleExchange, Take, Exchange, FetchUser, GetUsername, CreateUser,
       SaveDeviceSecret, GenerateTokens, Undo, Revoke, In
  <2>2. ASSUME Conclude(p, 200) PROVE won' \/ Delivering(p)'
    <3>1. ToStore(p, 200) \/ Ended(p, 200, "ok")
      BY <2>2, ConcludeEffect
    <3>2. ASSUME ToStore(p, 200) PROVE Delivering(p)'
      BY <1>0, <3>2 DEF ToStore, Delivering
    <3>3. ASSUME Ended(p, 200, "ok") PROVE won'
      BY <3>3 DEF Ended
    <3> QED
      BY <3>1, <3>2, <3>3
  <2>3. CASE GenerateTokens(p)
    <3>1. ASSUME NEW e \in {"undo", "revoke"}, Continue(p, e) PROVE Delivering(p)'
      BY <1>0, <3>1 DEF Continue, Delivering
    <3> QED
      BY <2>2, <2>3, <3>1 DEF GenerateTokens
  <2>4. CASE Undo(p)
    BY <2>4 DEF Undo, Break
  <2>5. CASE Revoke(p)
    BY <2>2, <2>5 DEF Revoke
  <2> QED
    BY <1>4, <2>1, <2>3, <2>4, <2>5 DEF HandleExchange, Take, Exchange, FetchUser, GetUsername,
       CreateUser, SaveDeviceSecret, In
<1> QED
  BY <1>1, <1>2, <1>3, <1>4, RunUntouched, CrashIsFault

\* A device row is created by who is to deliver it.
LEMMA RowNew ==
  ASSUME LoginInv, [LNext]_lvars, ~broken', device' = "row", device # "row"
  PROVE  \E p \in Proc : Delivering(p)'
<1>0. ep \in [Proc -> Stage]
  BY DEF LoginInv, LTypeOK
<1>1. PICK p \in Proc : SaveDeviceSecret(p)
  BY DEF LNext, HandleExchange, SetState, ExpireState, DeleteUser, ChangeEmail, Passing, ProviderError,
     Callback, Approach, LookAgain, Keep, Done, LCrash, Take, Exchange, FetchUser, GetUsername,
     CreateUser, GenerateTokens, Undo, Revoke, lvars, world
<1>2. Continue(p, "access")
  BY <1>1 DEF SaveDeviceSecret, Break
<1> QED
  BY <1>0, <1>2 DEF Continue, Delivering

\* Every step keeps the account of the device row.
LEMMA RowNext ==
  ASSUME LoginInv, RowAccounted, [LNext]_lvars
  PROVE  RowAccounted'
<1> SUFFICES ASSUME faults' = 0, ~broken', device' = "row"
             PROVE  won' \/ \E p \in Proc : Delivering(p)'
  BY DEF RowAccounted
<1>1. CASE device = "row"
  <2>1. won \/ \E p \in Proc : Delivering(p)
    BY <1>1, HistoryKept DEF RowAccounted
  <2> QED
    BY <2>1, HistoryKept, DeliveringNext
<1>2. CASE device # "row"
  BY <1>2, RowNew
<1> QED
  BY <1>1, <1>2

\* Where no server dies and nothing fails but the generation of tokens, a device row
\* stands only for a login that was answered 200.
THEOREM NothingLeftBehind == LSpec => []FailedLoginLeavesNothing
<1>1. LInit => RowAccounted
  BY DEF LInit, RowAccounted
<1>2. LoginInv /\ RowAccounted => FailedLoginLeavesNothing
  <2> SUFFICES ASSUME LoginInv, RowAccounted, Quiet, NEW p \in Proc, Delivering(p) PROVE FALSE
    BY DEF RowAccounted, FailedLoginLeavesNothing
  <2> QED
    BY DEF LoginInv, TakenOnce, Exchanging, Delivering, Quiet
<1> QED
  BY <1>1, <1>2, RowNext, LoginInvariant, PTL DEF LSpec

-----------------------------------------------------------------------------
(* The provider's tokens.                                                  *)

\* Only an exchange touches the provider's tokens, and nothing the deployment.
LEMMA TokensTouched ==
  ASSUME [LNext]_lvars
  PROVE  /\ mode' = mode
         /\ token' = token \/ \E p \in Proc : HandleExchange(p) /\ Exchanging(p)
<1>1. ASSUME NEW p \in Proc, HandleExchange(p)
      PROVE  mode' = mode /\ (token' = token \/ Exchanging(p))
  <2>1. CASE Take(p) \/ Exchange(p) \/ FetchUser(p) \/ GetUsername(p) \/ CreateUser(p)
    BY <2>1 DEF Take, Exchange, FetchUser, GetUsername, CreateUser, Continue, Conclude, Break,
       Fail, In, Exchanging
  <2>2. CASE SaveDeviceSecret(p) \/ GenerateTokens(p) \/ Undo(p) \/ Revoke(p)
    BY <2>2 DEF SaveDeviceSecret, GenerateTokens, Undo, Revoke, Continue, Conclude, Break,
       Fail, In, Exchanging
  <2> QED
    BY <1>1, <2>1, <2>2 DEF HandleExchange
<1>2. ASSUME NEW p \in Proc,
             ProviderError(p) \/ Callback(p) \/ Approach(p) \/ LookAgain(p) \/ Keep(p) \/ Done(p)
      PROVE  mode' = mode /\ token' = token
  BY <1>2 DEF ProviderError, Callback, Approach, LookAgain, Keep, Done, world
<1>3. ASSUME SetState \/ ExpireState \/ DeleteUser \/ ChangeEmail \/ Passing
             \/ (\E i \in Instance : LCrash(i)) \/ UNCHANGED lvars
      PROVE  mode' = mode /\ token' = token
  BY <1>3 DEF SetState, ExpireState, DeleteUser, ChangeEmail, Passing, LCrash, lvars, world
<1> QED
  BY <1>1, <1>2, <1>3 DEF LNext

\* A session login whose tokens are not passed on succeeds by revoking them.
LEMMA SuccessRevokes ==
  ASSUME LoginInv, NEW p \in Proc, HandleExchange(p), Concludes(p, 200),
         ~broken', mode.session, ~mode.pass, Revocable(mode.client)
  PROVE  token' = "revoked"
<1>0. ep \in [Proc -> Stage] /\ status \in [Proc -> {0, 200, 400, 401, 500}] /\ p \in Sharing(p)
  BY DEF LoginInv, LTypeOK, Sharing
<1>1. ep[p] # "take" /\ ep'[p] = "take" /\ status'[p] = 200
  BY <1>0 DEF Concludes, ToStore, Ended, Exchanging
<1>2. ASSUME NEW e \in Stage \ {"take"}, Continue(p, e) PROVE FALSE
  BY <1>0, <1>1, <1>2 DEF Continue
<1>3. ASSUME Fail(p, 500) \/ Conclude(p, 401) PROVE FALSE
  BY <1>0, <1>1, <1>3 DEF Fail, Conclude, Respond
<1>4. Revoke(p)
  BY <1>1, <1>2, <1>3 DEF HandleExchange, Take, Exchange, FetchUser, GetUsername, CreateUser,
     SaveDeviceSecret, GenerateTokens, Undo, Break, In, Stage
<1> QED
  BY <1>4 DEF Revoke

\* Every step keeps the account of the tokens.
LEMMA TokensNext ==
  ASSUME LoginInv, TokensAccounted, [LNext]_lvars
  PROVE  TokensAccounted'
<1> SUFFICES ASSUME Succeeded', ~broken', mode'.session, ~mode'.pass, Revocable(mode'.client)
             PROVE  token' = "revoked"
  BY DEF TokensAccounted, Revocable
<1>1. mode' = mode /\ ~broken
  BY TokensTouched, HistoryKept
<1>2. CASE Succeeded
  BY <1>1, <1>2, TokensTouched DEF TokensAccounted, LoginInv, TakenOnce
<1>3. CASE \E p \in Proc : HandleExchange(p) /\ Concludes(p, 200)
  BY <1>1, <1>3, SuccessRevokes
<1> QED
  BY <1>2, <1>3, SuccessNew

\* Once a session login is answered 200 and nothing has failed, the provider's tokens
\* are revoked, unless they are passed on or the provider cannot revoke.
THEOREM TokensAlwaysRevoked == LSpec => []ProviderTokensRevoked
<1>1. LInit => TokensAccounted
  BY DEF LInit, TokensAccounted, Succeeded
<1>2. TokensAccounted => ProviderTokensRevoked
  BY DEF TokensAccounted, ProviderTokensRevoked, Succeeded
<1> QED
  BY <1>1, <1>2, TokensNext, LoginInvariant, PTL DEF LSpec

-----------------------------------------------------------------------------
(* Callbacks that overlap.                                                 *)

\* Nobody comes in or joins, and the late stay late.
LEMMA LateStays ==
  ASSUME LateTogether, won => won', late' = late, Inside' \subseteq Inside,
         \A q \in Proc : pc'[q] = "join" => pc[q] = "join"
  PROVE  LateTogether'
BY DEF LateTogether

\* Every step keeps late callbacks together.
LEMMA LateNext ==
  ASSUME LoginInv, LateTogether, [LNext]_lvars
  PROVE  LateTogether'
<1>0. pc \in [Proc -> PC] /\ LTypeOK /\ OneLeader /\ (won => won')
  BY HistoryKept DEF LoginInv, LTypeOK, FTypeOK, ControlType, FlightInv
<1>1. ASSUME Aside PROVE LateTogether'
  BY <1>0, <1>1, LateStays DEF Aside, fvars, calls, Inside
<1>2. ASSUME NEW p \in Proc, HandleExchange(p) PROVE LateTogether'
  <2>1. CASE GoesOn(p)
    BY <1>0, <2>1, LateStays DEF GoesOn, fvars, calls, Inside
  <2>2. CASE Errs(p)
    BY <1>0, <2>2, LateStays DEF Errs, Ended, ReturnOwn, Return, Inside
  <2>3. ASSUME NEW s \in {200, 400, 401}, Concludes(p, s) PROVE LateTogether'
    BY <1>0, <2>3, LateStays DEF Concludes, ToStore, Ended, ReturnOwn, Return, Inside
  <2> QED
    BY <1>2, <2>1, <2>2, <2>3, ExchangeSteps
<1>3. ASSUME NEW p \in Proc, Callback(p) PROVE LateTogether'
  <2>1. pc[p] = "idle" /\ won' = won /\ late' = IF won THEN late \cup {p} ELSE late
    BY <1>3 DEF Callback, Do
  <2>2. CASE pc' = [pc EXCEPT ![p] = "join"]
    <3>1. Inside' = Inside
      BY <1>0, <2>1, <2>2 DEF Inside
    <3>2. ASSUME NEW r \in Inside', r \in late', NEW q \in Proc, pc'[q] = "join", Home[q] = Home[r]
          PROVE  q \in late'
      <4>1. r \in Inside /\ r # p /\ r \in late
        BY <2>1, <3>1, <3>2 DEF Inside
      <4>2. won
        BY <4>1 DEF LateTogether
      <4>3. CASE q = p
        BY <2>1, <4>2, <4>3
      <4>4. CASE q # p
        BY <1>0, <2>1, <2>2, <3>2, <4>1, <4>4 DEF LateTogether
      <4> QED
        BY <4>3, <4>4
    <3> QED
      BY <2>1, <3>2 DEF LateTogether
  <2>3. CASE ~Underway(Home[p]) /\ \E l \in {"load", "run"} : pc' = [pc EXCEPT ![p] = l]
    <3>1. Inside' = Inside \cup {p} /\ \A q \in Proc : pc'[q] = "join" <=> pc[q] = "join"
      BY <1>0, <2>1, <2>3 DEF Inside
    <3>2. \A q \in Proc : pc[q] = "join" => Home[q] # Home[p]
      BY <1>0, <2>3 DEF OneLeader
    <3> QED
      BY <2>1, <3>1, <3>2 DEF LateTogether
  <2> QED
    BY <1>3, <2>2, <2>3 DEF Callback, Do, Goto
<1>4. ASSUME NEW p \in Proc, Approach(p) PROVE LateTogether'
  BY <1>0, <1>4, LateStays, ModesAssumption DEF Approach, Load, Lock, Goto, Inside, past
<1>5. ASSUME NEW p \in Proc, LookAgain(p) PROVE LateTogether'
  BY <1>0, <1>5, LateStays DEF LookAgain, Reload, ReturnStored, Return, Goto, Inside
<1>6. ASSUME NEW p \in Proc, Keep(p) PROVE LateTogether'
  BY <1>0, <1>6, LateStays DEF Keep, StoreResult, StoreFails, ReturnOwn, Return, Inside
<1>7. ASSUME NEW p \in Proc, Done(p) PROVE LateTogether'
  <2>1. pc[p] = "done" /\ pc' = [pc EXCEPT ![p] = "idle"]
        /\ late' = late \ {p} /\ won' = won
    BY <1>7 DEF Done, Leave, Goto
  <2>2. Inside' = Inside /\ p \notin Inside /\ \A q \in Proc : pc'[q] = "join" <=> pc[q] = "join"
    BY <1>0, <2>1 DEF Inside
  <2> QED
    BY <1>0, <2>1, <2>2 DEF LateTogether
<1>8. ASSUME Passing PROVE LateTogether'
  BY <1>0, <1>8, LateStays DEF Passing, ExpireResult, ExpireLock, LoseLock, EndContext, calls,
     past, Inside
<1>9. ASSUME NEW i \in Instance, LCrash(i) PROVE LateTogether'
  <2>1. /\ pc' = [p \in Proc |-> IF Home[p] = i THEN "idle" ELSE pc[p]] /\ won' = won
        /\ late' = late \ {p \in Proc : Home[p] = i}
    BY <1>9 DEF LCrash, Crash
  <2>2. /\ \A p \in Proc : p \in Inside' <=> p \in Inside /\ Home[p] # i
        /\ \A p \in Proc : pc'[p] = "join" <=> pc[p] = "join" /\ Home[p] # i
        /\ Inside' \subseteq Proc
    BY <1>0, <2>1 DEF Inside
  <2> QED
    BY <1>0, <2>1, <2>2 DEF LateTogether
<1> QED
  BY <1>0, <1>1, <1>2, <1>3, <1>4, <1>5, <1>6, <1>7, <1>8, <1>9, AsideSteps DEF LNext

\* A stored 200 has been answered.
LEMMA KeptNext ==
  ASSUME LoginInv, KeptAnswered, [LNext]_lvars
  PROVE  KeptAnswered'
<1>0. pc \in [Proc -> PC] /\ LTypeOK /\ (won => won')
  BY HistoryKept DEF LoginInv, LTypeOK, FTypeOK, ControlType
<1>1. ASSUME kept' = kept PROVE KeptAnswered'
  BY <1>0, <1>1 DEF KeptAnswered
<1>2. ASSUME NEW p \in Proc, HandleExchange(p) PROVE kept' = kept
  BY <1>2, ExchangeSteps DEF GoesOn, Errs, Concludes
<1>3. ASSUME NEW p \in Proc, Callback(p) \/ Approach(p) \/ LookAgain(p) \/ Done(p)
      PROVE  kept' = kept
  BY <1>3 DEF Callback, Approach, LookAgain, Done, exchange
<1>4. ASSUME NEW p \in Proc, Keep(p) PROVE KeptAnswered'
  <2>1. pc'[p] = "done" /\ Respond(Sharing(p), p, status[p])
    BY <1>0, <1>4 DEF Keep, StoreResult, StoreFails, ReturnOwn, Return, Sharing
  <2>2. status[p] = 200 => won'
    BY <2>1 DEF Respond
  <2> QED
    BY <1>1, <1>4, <2>2 DEF Keep, KeptAnswered
<1>5. ASSUME Passing \/ \E i \in Instance : LCrash(i) PROVE kept' = kept \/ kept' = 0
  BY <1>5 DEF Passing, LCrash
<1>6. ASSUME Aside PROVE kept' = kept
  BY <1>6 DEF Aside, exchange
<1> QED
  BY <1>0, <1>1, <1>2, <1>3, <1>4, <1>5, <1>6, AsideSteps DEF LNext, KeptAnswered

\* A 400 is seen.
Refused == kept = 400 \/ \E p \in Proc : status[p] = 400

\* A 400 comes of a run that finds the state taken, or repeats one that there is.
LEMMA RefusedNew ==
  ASSUME LoginInv, [LNext]_lvars, Refused'
  PROVE  Refused \/ \E p \in Proc : Concludes(p, 400)
<1> SUFFICES ASSUME \A p \in Proc : ~Concludes(p, 400), ~Refused PROVE FALSE
  OBVIOUS
<1>0. /\ status \in [Proc -> {0, 200, 400, 401, 500}] /\ LTypeOK
      /\ kept # 400 /\ \A p \in Proc : status[p] # 400
  BY DEF LoginInv, LTypeOK, Refused
<1>a. ASSUME NEW P, NEW s, s # 400, kept' # 400,
             status' = [q \in Proc |-> IF q \in P THEN s ELSE status[q]]
      PROVE  FALSE
  BY <1>0, <1>a DEF Refused
<1>b. ASSUME kept' # 400, status' = status PROVE FALSE
  BY <1>0, <1>b DEF Refused
<1>1. ASSUME Aside PROVE FALSE
  BY <1>0, <1>b, <1>1 DEF Aside, exchange
<1>2. ASSUME NEW p \in Proc, GoesOn(p) PROVE FALSE
  BY <1>0, <1>b, <1>2 DEF GoesOn
<1>3. ASSUME NEW p \in Proc, NEW s \in {200, 401}, Concludes(p, s) PROVE FALSE
  <2>1. CASE ToStore(p, s)
    BY <1>0, <1>3, <2>1 DEF Refused, Concludes, ToStore
  <2>2. CASE Ended(p, s, "ok")
    BY <1>0, <1>a, <1>3, <2>2 DEF Concludes, Ended
  <2> QED
    BY <1>3, <2>1, <2>2 DEF Concludes
<1>4. ASSUME NEW p \in Proc, Errs(p) PROVE FALSE
  BY <1>0, <1>a, <1>4 DEF Errs, Ended
<1>5. ASSUME NEW p \in Proc, Callback(p) \/ Approach(p) PROVE FALSE
  BY <1>0, <1>b, <1>5 DEF Callback, Approach, exchange
<1>6. ASSUME NEW p \in Proc, LookAgain(p) PROVE FALSE
  BY <1>0, <1>a, <1>b, <1>6 DEF LookAgain, Respond
<1>7. ASSUME NEW p \in Proc, Keep(p) PROVE FALSE
  BY <1>0, <1>a, <1>7 DEF Keep, Respond
<1>8. ASSUME NEW p \in Proc, Done(p) PROVE FALSE
  BY <1>0, <1>8 DEF Refused, Done
<1>9. ASSUME Passing PROVE FALSE
  BY <1>0, <1>b, <1>9 DEF Passing
<1>10. ASSUME NEW i \in Instance, LCrash(i) PROVE FALSE
  BY <1>0, <1>10 DEF Refused, LCrash
<1> QED
  BY <1>0, <1>1, <1>2, <1>3, <1>4, <1>5, <1>6, <1>7, <1>8, <1>9, <1>10, AsideSteps,
     ExchangeSteps DEF LNext

\* Who may make the login succeed was about to, or takes the state now.
LEMMA SucceedingNew ==
  ASSUME LoginInv, [LNext]_lvars, NEW p \in Proc, Succeeding(p)'
  PROVE  Succeeding(p) \/ state = "live"
<1>0. /\ pc \in [Proc -> PC] /\ status \in [Proc -> {0, 200, 400, 401, 500}]
      /\ ep \in [Proc -> Stage] /\ LTypeOK
  BY DEF LoginInv, LTypeOK, FTypeOK, ControlType
<1>1. CASE Exchanging(p)'
  BY <1>1, ExchangingNew DEF Succeeding
<1>2. CASE pc'[p] = "store" /\ status'[p] = 200
  <2>1. CASE pc[p] = "store"
    <3>1. CASE HandleExchange(p) \/ Keep(p) \/ \E i \in Instance : LCrash(i)
      BY <1>0, <1>2, <2>1, <3>1 DEF HandleExchange, Take, Exchange, FetchUser, GetUsername,
         CreateUser, SaveDeviceSecret, GenerateTokens, Undo, Revoke, In, Keep, LCrash, Crash,
         StoreResult, StoreFails, ReturnOwn, Return, Sharing, Succeeding
    <3>2. CASE status'[p] = status[p]
      BY <1>2, <2>1, <3>2 DEF Succeeding
    <3> QED
      BY <2>1, <3>1, <3>2, RunUntouched DEF Running
  <2>2. CASE pc[p] # "store"
    <3>1. Finish(p)
      <4>1. [FNext]_fvars
        BY FlightStep
      <4> QED
        BY <1>0, <1>2, <2>2, <4>1 DEF FNext, Step, fvars, calls, Do, Load, Lock, Reload, Finish,
           StoreResult, StoreFails, Leave, LoseLock, EndContext, ExpireResult, ExpireLock,
           Crash, ReturnStored, ReturnOwn, Return, Sharing, Goto
    <3>2. pc[p] = "run"
      BY <3>1 DEF Finish
    <3>3. HandleExchange(p)
      BY <1>0, <1>2, <2>2, <3>2, RunUntouched DEF Running, Keep, LCrash, Crash, StoreResult,
         StoreFails
    <3>4. PICK s \in {200, 400, 401} : Concludes(p, s)
      BY <1>0, <1>2, <2>2, <3>3, ExchangeSteps DEF GoesOn, Errs, Ended, ReturnOwn, Return,
         Sharing, fvars, calls
    <3>5. s = 200
      BY <1>0, <1>2, <3>4 DEF Concludes, ToStore, Ended, Sharing
    <3> QED
      BY <3>4, <3>5 DEF Concludes, Succeeding
  <2> QED
    BY <2>1, <2>2
<1> QED
  BY <1>1, <1>2 DEF Succeeding

\* The first 200 is answered by the run that made it, in the flight or in its store.
LEMMA WonNew ==
  ASSUME LoginInv, KeptAnswered, [LNext]_lvars, won', ~won
  PROVE  \E p \in Proc :
            \/ Concludes(p, 200) /\ ~Keeps(p) /\ Ended(p, 200, "ok")
            \/ Keep(p) /\ status[p] = 200
<1>0. pc \in [Proc -> PC] /\ LTypeOK /\ kept # 200
  BY DEF LoginInv, LTypeOK, FTypeOK, ControlType, KeptAnswered
<1>1. ASSUME Aside PROVE FALSE
  BY <1>1 DEF Aside
<1>2. ASSUME NEW p \in Proc, HandleExchange(p)
      PROVE  Concludes(p, 200) /\ ~Keeps(p) /\ Ended(p, 200, "ok")
  <2>0. ~GoesOn(p) /\ ~Errs(p)
    <3>1. 500 # 200
      OBVIOUS
    <3>2. Errs(p) => won' = (won \/ 500 = 200)
      BY DEF Errs, Ended
    <3>3. GoesOn(p) => won' = won
      BY DEF GoesOn
    <3> QED
      BY <3>1, <3>2, <3>3, Zenon
  <2>1. PICK s \in {200, 400, 401} : Concludes(p, s)
    BY <1>2, <2>0, ExchangeSteps
  <2>2. ~Keeps(p) /\ Ended(p, s, "ok")
    BY <2>1 DEF Concludes, ToStore
  <2>3. s = 200
    BY <2>1, <2>2 DEF Ended
  <2> QED
    BY <2>1, <2>2, <2>3
<1>3. ASSUME NEW p \in Proc, Callback(p) \/ Approach(p) \/ LookAgain(p) \/ Done(p) PROVE FALSE
  BY <1>0, <1>3 DEF Callback, Approach, LookAgain, Respond, Done, past
<1>4. ASSUME NEW p \in Proc, Keep(p) PROVE status[p] = 200
  BY <1>4 DEF Keep, Respond
<1>5. ASSUME Passing \/ \E i \in Instance : LCrash(i) PROVE FALSE
  BY <1>5 DEF Passing, LCrash, past
<1> QED
  BY <1>0, <1>1, <1>2, <1>3, <1>4, <1>5, AsideSteps DEF LNext

\* The antecedent of DuplicatesServed: nothing has failed, and nobody runs into a deadline.
Undisturbed == faults = 0 /\ ~broken /\ ~Timeouts

\* Without disturbance no context ends and nobody runs locally.
LEMMA InTime ==
  ASSUME LoginInv, Undisturbed
  PROVE  ended = {} /\ local = {}
BY DEF LoginInv, FlightInv, Deadlines, Undisturbed

\* Without disturbance nobody runs beside another.
LEMMA RunAlone ==
  ASSUME LoginInv, Undisturbed, NEW p \in Proc, NEW q \in Proc,
         Running(p), Running(q)
  PROVE  p = q
BY InTime, HomeAssumption, ModeAssumption DEF LoginInv, FlightInv, FTypeOK, ControlType,
   StoreType, OneLeader, LockHeld, Running, Inside, Undisturbed

\* Without disturbance nobody is refused while the login may yet succeed.
LEMMA NotRefusedNext ==
  ASSUME LoginInv, DuplicatesServed, [LNext]_lvars, Undisturbed, faults' = 0,
         state' # "gone" \/ \E p \in Proc : Succeeding(p)'
  PROVE  ~Refused'
<1>0. /\ status \in [Proc -> {0, 200, 400, 401, 500}] /\ ep \in [Proc -> Stage]
      /\ pc \in [Proc -> PC]
  BY DEF LoginInv, LTypeOK, FTypeOK, ControlType
<1>1. state # "gone" \/ \E p \in Proc : Succeeding(p)
  BY StateForward, SucceedingNew DEF Forward
<1>2. ~Refused
  BY <1>1 DEF DuplicatesServed, Undisturbed, Refused
<1>3. ASSUME NEW p \in Proc, Concludes(p, 400) PROVE FALSE
  <2>1. PICK q \in Proc : Succeeding(q)'
    BY <1>3 DEF Concludes
  <2>2. Running(p)
    BY <1>3 DEF Concludes, Running
  <2>3. p # q
    BY <1>0, <1>3, <2>1 DEF Concludes, ToStore, Ended, Sharing, Succeeding, Exchanging
  <2>4. Running(q)
    <3>1. ep'[q] = ep[q]
      BY <1>0, <1>3, <2>3 DEF Concludes
    <3>2. CASE Exchanging(q)'
      BY <3>1, <3>2 DEF Exchanging, LoginInv, TakenOnce, Running
    <3>3. CASE pc'[q] = "store"
      BY <1>0, <1>3, <2>3, <3>3 DEF Concludes, ToStore, Ended, ReturnOwn, Return, Running
    <3> QED
      BY <2>1, <3>2, <3>3 DEF Succeeding
  <2> QED
    BY <2>2, <2>3, <2>4, RunAlone
<1> QED
  BY <1>2, <1>3, RefusedNew

\* Without disturbance a result that is to be stored is stored.
LEMMA KeepStores ==
  ASSUME LoginInv, DuplicatesServed, Undisturbed, faults' = 0, NEW p \in Proc, Keep(p)
  PROVE  StoreResult(p) /\ kept' = status[p]
<1>0. faults \in Nat
  BY DEF LoginInv, LTypeOK, FTypeOK, StoreType
<1>1. ASSUME StoreFails(p) PROVE FALSE
  <2>1. Redis /\ p \notin holds /\ Running(p)
    BY <1>0, <1>1, InTime DEF StoreFails, RedisFault, Fault, Fails, Undisturbed, Running
  <2> QED
    BY <2>1, InTime DEF LoginInv, FlightInv, LockHeld, Undisturbed
<1> QED
  BY <1>1 DEF Keep

\* Once the login has succeeded, a callback that begins is late.
LEMMA InsideOld ==
  ASSUME LoginInv, [LNext]_lvars, won, NEW q \in Inside', q \notin late'
  PROVE  q \in Inside /\ q \notin late
<1>0. pc \in [Proc -> PC] /\ LTypeOK /\ q \in Proc
      /\ pc'[q] \in {"load", "lock", "reload", "run", "store"}
  BY DEF LoginInv, LTypeOK, FTypeOK, ControlType, Inside
<1>1. ASSUME Aside PROVE q \in Inside /\ q \notin late
  BY <1>0, <1>1 DEF Aside, fvars, calls, Inside
<1>2. ASSUME NEW p \in Proc, HandleExchange(p) PROVE q \in Inside /\ q \notin late
  <2>1. late' = late
    <3>1. GoesOn(p) \/ Errs(p) \/ \E s \in {200, 400, 401} : Concludes(p, s)
      BY <1>2, ExchangeSteps
    <3>2. GoesOn(p) \/ Errs(p) => late' = late
      BY DEF GoesOn, Errs
    <3>3. \A s : Concludes(p, s) => late' = late
      BY DEF Concludes
    <3> QED
      BY <3>1, <3>2, <3>3
  <2>2. Finish(p) \/ UNCHANGED pc
    BY <1>2 DEF HandleExchange, Take, Exchange, FetchUser, GetUsername, CreateUser,
       SaveDeviceSecret, GenerateTokens, Undo, Revoke, Continue, Conclude, Break, Fail, fvars,
       calls
  <2> QED
    BY <1>0, <2>1, <2>2 DEF Finish, ReturnOwn, Return, Goto, Inside
<1>3. ASSUME NEW p \in Proc, Callback(p) PROVE q \in Inside /\ q \notin late
  BY <1>0, <1>3 DEF Callback, Do, Goto, Inside
<1>4. ASSUME NEW p \in Proc, Approach(p) PROVE q \in Inside /\ q \notin late
  BY <1>0, <1>4, ModesAssumption DEF Approach, Load, Lock, Goto, Inside, past
<1>5. ASSUME NEW p \in Proc, LookAgain(p) PROVE q \in Inside /\ q \notin late
  BY <1>0, <1>5 DEF LookAgain, Reload, ReturnStored, Return, Goto, Inside
<1>6. ASSUME NEW p \in Proc, Keep(p) PROVE q \in Inside /\ q \notin late
  BY <1>0, <1>6 DEF Keep, StoreResult, StoreFails, ReturnOwn, Return, Inside
<1>7. ASSUME NEW p \in Proc, Done(p) PROVE q \in Inside /\ q \notin late
  BY <1>0, <1>7 DEF Done, Leave, Goto, Inside
<1>8. ASSUME Passing PROVE q \in Inside /\ q \notin late
  BY <1>0, <1>8 DEF Passing, ExpireResult, ExpireLock, LoseLock, EndContext, calls, past, Inside
<1>9. ASSUME NEW i \in Instance, LCrash(i) PROVE q \in Inside /\ q \notin late
  BY <1>0, <1>9 DEF LCrash, Crash, Inside
<1> QED
  BY <1>0, <1>1, <1>2, <1>3, <1>4, <1>5, <1>6, <1>7, <1>8, <1>9, AsideSteps DEF LNext

\* Who was under way when a result was stored stays so until it returns.
LEMMA DuringKept ==
  ASSUME LoginInv, [LNext]_lvars, NEW q \in during, q \in Inside'
  PROVE  q \in during'
<1>0. q \in Inside /\ q \in Proc /\ pc'[q] \notin {"done", "idle"}
  BY DEF LoginInv, FlightInv, FTypeOK, InsideType, Inside
<1>1. [FNext]_fvars
  BY FlightStep
<1>2. ASSUME NEW p \in Proc, Load(p) \/ Reload(p) \/ Finish(p) \/ StoreResult(p) \/ StoreFails(p)
      PROVE  q \in during'
  BY <1>0, <1>2 DEF Load, Reload, Finish, StoreResult, StoreFails, ReturnStored, ReturnOwn,
     Return, Sharing, history
<1>3. ASSUME NEW p \in Proc, Do(p) \/ Lock(p) \/ Leave(p) \/ LoseLock(p) \/ EndContext(p)
      PROVE  q \in during'
  BY <1>3 DEF Do, Lock, Leave, LoseLock, EndContext, history
<1>4. ASSUME ExpireResult \/ ExpireLock \/ (\E i \in Instance : Crash(i)) \/ UNCHANGED fvars
      PROVE  q \in during'
  BY <1>0, <1>4 DEF ExpireResult, ExpireLock, Crash, fvars, history
<1> QED
  BY <1>1, <1>2, <1>3, <1>4 DEF FNext, Step

\* Without disturbance the stored response stays while somebody waits for it.
LEMMA ResponseStays ==
  ASSUME LoginInv, DuplicatesServed, [LNext]_lvars, Undisturbed, faults' = 0, during # {}
  PROVE  kept' = kept
<1>0. stored # None /\ LTypeOK
  BY InTime DEF LoginInv, FlightInv, NothingStored, Undisturbed
<1>1. ASSUME NEW p \in Proc, HandleExchange(p) PROVE kept' = kept
  BY <1>1, ExchangeSteps DEF GoesOn, Errs, Concludes
<1>2. ASSUME NEW p \in Proc, Keep(p) PROVE FALSE
  <2>1. pc[p] = "store"
    BY <1>2 DEF Keep, StoreResult, StoreFails
  <2> QED
    BY <1>0, <2>1, InTime DEF LoginInv, FlightInv, Places, NothingStored, Running, Undisturbed
<1>3. ASSUME NEW p \in Proc, Callback(p) \/ Approach(p) \/ LookAgain(p) \/ Done(p)
      PROVE  kept' = kept
  BY <1>3 DEF Callback, Approach, LookAgain, Done, exchange
<1>4. ASSUME Passing \/ \E i \in Instance : LCrash(i) PROVE kept' = kept
  BY <1>4, InTime DEF Passing, LCrash, ExpireResult
<1>5. ASSUME Aside PROVE kept' = kept
  BY <1>5 DEF Aside, exchange
<1> QED
  BY <1>0, <1>1, <1>2, <1>3, <1>4, <1>5, AsideSteps DEF LNext

\* Without disturbance whoever is under way when the login succeeds finds its result.
LEMMA OverlapNext ==
  ASSUME LoginInv, KeptAnswered, DuplicatesServed, [LNext]_lvars, Undisturbed, faults' = 0,
         won', NEW q \in Inside', q \notin late'
  PROVE  q \in during' /\ kept' = 200
<1>0. pc \in [Proc -> PC] /\ q \in Proc /\ local = {}
      /\ pc'[q] \in {"load", "lock", "reload", "run", "store"}
  BY InTime DEF LoginInv, LTypeOK, FTypeOK, ControlType, Inside
<1>1. CASE won
  <2>1. q \in during /\ kept = 200
    BY <1>1, InsideOld DEF DuplicatesServed, Undisturbed
  <2> QED
    BY <2>1, DuringKept, ResponseStays
<1>2. ASSUME NEW p \in Proc, Concludes(p, 200), ~Keeps(p), Ended(p, 200, "ok") PROVE FALSE
  <2>1. Exchanging(p) /\ pc[p] = "run"
    BY <1>2 DEF Concludes
  <2>2. ~Redis
    BY <1>0, <1>2, <2>1 DEF Keeps, LoginInv, TakenOnce
  <2>3. pc'[p] = "done"
    BY <1>0, <1>2 DEF Ended, ReturnOwn, Return, Sharing
  <2>4. q # p /\ q \in Inside /\ p \in Inside
    BY <1>0, <1>2, <2>1, <2>3 DEF Ended, ReturnOwn, Return, Inside
  <2>5. Home[p] = Home[q]
    BY <1>0, <2>2, HomeAssumption, ModeAssumption
  <2> QED
    BY <2>4, <2>5 DEF LoginInv, FlightInv, OneLeader
<1>3. ASSUME NEW p \in Proc, Keep(p), status[p] = 200 PROVE q \in during' /\ kept' = 200
  <2>1. StoreResult(p) /\ kept' = 200
    BY <1>3, KeepStores
  <2>2. q # p /\ q \in Inside /\ during' = Inside \ {p}
    BY <1>0, <2>1 DEF StoreResult, Return, Sharing, Inside
  <2> QED
    BY <2>1, <2>2
<1> QED
  BY <1>1, <1>2, <1>3, WonNew

\* An answer is new to those who share the flight that gave it; the others keep theirs.
LEMMA AnswerNew ==
  ASSUME LoginInv, [LNext]_lvars, NEW q \in Proc, pc'[q] = "done"
  PROVE  \/ /\ pc[q] = "done" /\ status'[q] = status[q]
            /\ (q \in late => q \in late') /\ (q \in found => q \in found')
         \/ \E p \in Proc :
            /\ q \in Sharing(p) /\ late' = late
            /\ \/ Errs(p)
               \/ \E s \in {200, 400, 401} : Concludes(p, s) /\ ~Keeps(p) /\ Ended(p, s, "ok")
               \/ Keep(p)
               \/ LookAgain(p) /\ ReturnStored(p)
<1> DEFINE Old == /\ pc[q] = "done" /\ status'[q] = status[q]
                  /\ (q \in late => q \in late') /\ (q \in found => q \in found')
           New(p) == q \in Sharing(p) /\ late' = late
<1>0. /\ pc \in [Proc -> PC] /\ status \in [Proc -> {0, 200, 400, 401, 500}] /\ LTypeOK
      /\ ep \in [Proc -> Stage]
  BY DEF LoginInv, LTypeOK, FTypeOK, ControlType
<1>1. ASSUME Aside PROVE Old
  BY <1>1 DEF Aside, fvars, calls, exchange
<1>2. ASSUME NEW p \in Proc, GoesOn(p) PROVE Old
  BY <1>2 DEF GoesOn, fvars, calls
<1>3. ASSUME NEW p \in Proc, Errs(p) PROVE Old \/ New(p)
  BY <1>0, <1>3 DEF Errs, Ended, ReturnOwn, Return
<1>4. ASSUME NEW p \in Proc, NEW s \in {200, 400, 401}, Concludes(p, s)
      PROVE  Old \/ (New(p) /\ ~Keeps(p) /\ Ended(p, s, "ok"))
  <2>1. CASE ToStore(p, s)
    BY <1>0, <1>4, <2>1 DEF Concludes, ToStore
  <2>2. CASE ~Keeps(p) /\ Ended(p, s, "ok")
    BY <1>0, <1>4, <2>2 DEF Concludes, Ended, ReturnOwn, Return
  <2> QED
    BY <1>4, <2>1, <2>2 DEF Concludes
<1>5. ASSUME NEW p \in Proc, Callback(p) PROVE Old
  BY <1>0, <1>5 DEF Callback, Do, Goto, exchange
<1>6. ASSUME NEW p \in Proc, Approach(p) PROVE Old
  BY <1>0, <1>6, ModesAssumption DEF Approach, Load, Lock, Goto, exchange, past
<1>7. ASSUME NEW p \in Proc, LookAgain(p) PROVE Old \/ (New(p) /\ ReturnStored(p))
  <2>1. CASE ReturnStored(p)
    <3>1. pc'[p] = "done"
      BY <1>0, <2>1 DEF ReturnStored, Return, Sharing
    <3>2. Respond(Sharing(p), p, kept) /\ late' = late
      BY <1>7, <3>1 DEF LookAgain
    <3> QED
      BY <1>0, <2>1, <3>2 DEF ReturnStored, Return, Respond
  <2>2. CASE Goto(p, "run")
    <3>1. pc'[p] = "run" /\ q # p /\ pc[q] = "done"
      BY <1>0, <2>2 DEF Goto
    <3> QED
      BY <1>7, <3>1 DEF LookAgain
  <2> QED
    BY <1>7, <2>1, <2>2 DEF LookAgain, Reload
<1>8. ASSUME NEW p \in Proc, Keep(p) PROVE Old \/ New(p)
  <2>1. /\ pc' = [r \in Proc |-> IF r \in Sharing(p) THEN "done" ELSE pc[r]]
        /\ Respond(Sharing(p), p, status[p]) /\ late' = late
    BY <1>8 DEF Keep, StoreResult, StoreFails, ReturnOwn, Return
  <2> QED
    BY <1>0, <2>1 DEF Respond
<1>9. ASSUME NEW p \in Proc, Done(p) PROVE Old
  BY <1>0, <1>9 DEF Done, Leave, Goto
<1>10. ASSUME Passing PROVE Old
  BY <1>10 DEF Passing, ExpireResult, ExpireLock, LoseLock, EndContext, calls, past
<1>11. ASSUME NEW i \in Instance, LCrash(i) PROVE Old
  BY <1>0, <1>11 DEF LCrash, Crash
<1> QED
  BY <1>0, <1>1, <1>2, <1>3, <1>4, <1>5, <1>6, <1>7, <1>8, <1>9, <1>10, <1>11, AsideSteps,
     ExchangeSteps DEF LNext

\* Without disturbance a 400 beside a success is a replay's.
LEMMA ReplaysRefused ==
  ASSUME LoginInv, KeptAnswered, LateTogether, DuplicatesServed, [LNext]_lvars, Undisturbed,
         faults' = 0, won', NEW q \in Proc, pc'[q] = "done", status'[q] = 400
  PROVE  q \in late' \cup found'
<1>0. /\ status \in [Proc -> {0, 200, 400, 401, 500}] /\ pc \in [Proc -> PC] /\ local = {}
      /\ DuplicatesShareTheLogin
  BY InTime DEF LoginInv, LTypeOK, FTypeOK, ControlType, DuplicatesServed, Undisturbed
<1>1. CASE /\ pc[q] = "done" /\ status'[q] = status[q]
           /\ (q \in late => q \in late') /\ (q \in found => q \in found')
  <2>1. CASE won
    BY <1>0, <1>1, <2>1 DEF DuplicatesShareTheLogin, Undisturbed
  <2>2. CASE ~won
    <3>1. PICK p \in Proc : Succeeding(p)
      BY <2>2, WonNew DEF Concludes, Keep, StoreResult, StoreFails, Succeeding
    <3> QED
      BY <1>1, <3>1 DEF DuplicatesServed, Undisturbed
  <2> QED
    BY <2>1, <2>2
<1>a. ASSUME NEW p \in Inside, q \in Sharing(p), p \in late, late' = late PROVE q \in late'
  BY <1>a DEF Sharing, LateTogether
<1>b. ASSUME NEW p \in Inside, p \notin late, won PROVE stored # None /\ kept = 200
  BY <1>b, InTime DEF DuplicatesServed, Undisturbed, LoginInv, FlightInv, NothingStored
<1>2. ASSUME NEW p \in Proc, q \in Sharing(p), late' = late, Errs(p) PROVE FALSE
  BY <1>0, <1>2 DEF Errs, Ended
<1>3. ASSUME NEW p \in Proc, q \in Sharing(p), late' = late, NEW s \in {200, 400, 401},
             Concludes(p, s), ~Keeps(p), Ended(p, s, "ok")
      PROVE  q \in late' \cup found'
  <2>1. s = 400 /\ p \in Inside
    BY <1>0, <1>3 DEF Ended, Concludes, Inside
  <2>2. won
    <3>1. 400 # 200
      OBVIOUS
    <3>2. won' = (won \/ 400 = 200)
      BY <1>3, <2>1 DEF Ended
    <3> QED
      BY <3>1, <3>2, Zenon
  <2>3. CASE p \in completed
    BY <1>3, <2>3 DEF Ended
  <2>4. CASE p \notin completed
    <3>1. ~Redis /\ InFlightOnly
      BY <1>0, <1>3, <2>4, ModesAssumption DEF Keeps
    <3>2. stored = None
      BY <3>1 DEF LoginInv, FlightInv, Places
    <3> QED
      BY <1>3, <1>a, <1>b, <2>1, <2>2, <3>2
  <2> QED
    BY <2>3, <2>4
<1>4. ASSUME NEW p \in Proc, q \in Sharing(p), late' = late, Keep(p) PROVE q \in late'
  <2>1. pc[p] = "store" /\ Respond(Sharing(p), p, status[p])
    BY <1>4 DEF Keep, StoreResult, StoreFails
  <2>2. won
    <3>1. status[p] = 400
      BY <1>0, <1>4, <2>1 DEF Respond
    <3>2. status[p] # 200
      BY <3>1
    <3>3. won' = (won \/ (status[p] = 200 /\ pc'[p] = "done"))
      BY <2>1 DEF Respond
    <3> QED
      BY <3>2, <3>3, Zenon
  <2>3. stored = None /\ p \in Inside
    BY <2>1, InTime DEF LoginInv, FlightInv, Places, NothingStored, Running, Undisturbed, Inside
  <2> QED
    BY <1>4, <1>a, <1>b, <2>2, <2>3
<1>5. ASSUME NEW p \in Proc, q \in Sharing(p), late' = late, LookAgain(p), ReturnStored(p)
      PROVE  q \in late'
  <2>1. pc[p] = "reload" /\ pc'[p] = "done" /\ p \in Inside
    BY <1>0, <1>5 DEF LookAgain, Reload, ReturnStored, Return, Sharing, Inside
  <2>2. Respond(Sharing(p), p, kept)
    BY <1>5, <2>1 DEF LookAgain
  <2>3. kept = 400
    BY <1>0, <1>5, <2>2 DEF Respond
  <2>4. won
    <3>1. kept # 200
      BY <2>3
    <3>2. won' = (won \/ (kept = 200 /\ pc'[p] = "done"))
      BY <2>2 DEF Respond
    <3> QED
      BY <3>1, <3>2, Zenon
  <2> QED
    BY <1>5, <1>a, <1>b, <2>1, <2>3, <2>4
<1> QED
  BY <1>1, <1>2, <1>3, <1>4, <1>5, AnswerNew

\* Every step keeps the duplicates served.
LEMMA ServedNext ==
  ASSUME LoginInv, KeptAnswered, LateTogether, DuplicatesServed, [LNext]_lvars
  PROVE  DuplicatesServed'
<1> SUFFICES ASSUME faults' = 0, ~broken', ~Timeouts PROVE DuplicatesServed'
  BY DEF DuplicatesServed
<1>1. Undisturbed
  BY HistoryKept DEF Undisturbed
<1>2. state' # "gone" \/ (\E p \in Proc : Succeeding(p)') =>
        kept' # 400 /\ \A q \in Proc : status'[q] # 400
  BY <1>1, NotRefusedNext DEF Refused
<1>3. won' => \A p \in Inside' \ late' : p \in during' /\ kept' = 200
  BY <1>1, OverlapNext
<1>4. DuplicatesShareTheLogin'
  BY <1>1, ReplaysRefused DEF DuplicatesShareTheLogin
<1> QED
  BY <1>2, <1>3, <1>4 DEF DuplicatesServed

\* Where nothing fails and no deadline passes, a repeated callback of a login that
\* succeeded is refused only if it is a replay.
THEOREM DuplicatesAlwaysShare == LSpec => []DuplicatesShareTheLogin
<1>1. LInit => KeptAnswered /\ LateTogether /\ DuplicatesServed
  BY DEF LInit, FInit, KeptAnswered, LateTogether, DuplicatesServed, DuplicatesShareTheLogin, Inside,
     Succeeding, Exchanging
<1>2. DuplicatesServed => DuplicatesShareTheLogin
  BY DEF DuplicatesServed, DuplicatesShareTheLogin
<1> QED
  BY <1>1, <1>2, KeptNext, LateNext, ServedNext, LoginInvariant, PTL DEF LSpec
=============================================================================
