---------------------------- MODULE FlightProofs ----------------------------
(***************************************************************************)
(* Proofs about Flight, for any number of calls and instances, with or     *)
(* without Redis, and with any number of Redis errors, lost locks and      *)
(* crashes.  FlightInv is inductive: its parts are shown to be kept by     *)
(* every action, one lemma each, and the properties follow from it.        *)
(***************************************************************************)
EXTENDS Flight, TLAPS

(***************************************************************************)
(* The inductive invariant behind the safety properties.                   *)
(***************************************************************************)
\* An instance runs one singleflight call for the key, and who joins has one to join.
OneLeader ==
    /\ \A p \in Inside : leader[Home[p]] = p
    /\ \A i \in Instance : Underway(i) => leader[i] \in Inside /\ Home[leader[i]] = i
    /\ \A p \in Proc : pc[p] = "join" => Underway(Home[p])

\* Which calls may be where, and on which terms.
Places ==
    /\ ~Redis /\ InFlightOnly => stored = None
    /\ \A p \in Proc :
        /\ pc[p] = "load" => p \notin completed \cup local
        /\ pc[p] = "lock" => Redis /\ p \notin local
        /\ pc[p] = "reload" => Redis /\ p \notin completed \cup local
        /\ pc[p] = "store" => Keeps(p)

\* Contexts end with Redis only, and without a fault only they make a call run
\* locally.
Deadlines ==
    /\ ended # {} => Redis /\ Timeouts
    /\ faults = 0 => local \subseteq ended

\* The lock has one holder, and who relies on it has it until its context ends.
LockHeld ==
    /\ holds # {} => lock = "taken"
    /\ \A p, q \in holds : p = q
    /\ faults = 0 /\ Redis => \A p \in Proc :
        pc[p] = "reload" \/ Running(p) => p \in holds \cup ended

\* A run whose result will be stored has no stored result beside it.
NothingStored ==
    faults = 0 =>
        /\ during \subseteq ended \/ stored # None
        /\ \A p \in Proc : Running(p) /\ Keeps(p) => p \in ended \/ stored = None

\* A call that began beside a stored result knows it, or ignores results.
ReplaysMarked ==
    /\ \A p \in reused : pc[p] = "done"
    /\ older # {} => stored # None
    /\ InFlightOnly => \A p \in Inside \cap older :
        ~Redis \/ pc[p] = "load" \/ p \in completed \cup local

FlightInv ==
    /\ FTypeOK /\ OneLeader /\ Places /\ Deadlines /\ LockHeld /\ NothingStored
    /\ ReplaysMarked

\* Initially nobody is in a call.
LEMMA FlightInit == FInit => FlightInv
<1> SUFFICES ASSUME FInit PROVE FlightInv
  OBVIOUS
<1>1. ControlType
  BY DEF FInit, ControlType, PC
<1>2. StoreType
  BY ModeAssumption DEF FInit, StoreType
<1>3. InsideType /\ OneLeader
  BY HomeAssumption DEF FInit, InsideType, OneLeader, Inside, Underway
<1>4. Places /\ Deadlines /\ LockHeld /\ NothingStored /\ ReplaysMarked
  BY DEF FInit, Places, Deadlines, LockHeld, NothingStored, ReplaysMarked, Inside, Running
<1> QED
  BY <1>1, <1>2, <1>3, <1>4 DEF FlightInv, FTypeOK

\* Every step keeps the types of the calls.
LEMMA ControlTypeNext ==
  ASSUME ControlType, [FNext]_fvars
  PROVE  ControlType'
<1>1. ASSUME NEW p \in Proc, Do(p) PROVE ControlType'
  BY <1>1, HomeAssumption, ModeAssumption DEF ControlType, PC, Do, Underway, Goto, calls,
      shared, history
<1>2. ASSUME NEW p \in Proc, Load(p) PROVE ControlType'
  BY <1>2, HomeAssumption, ModeAssumption DEF ControlType, PC, Load, ReturnStored, Return,
      Sharing, Goto, Fails, RedisFault, Fault, calls, shared, history
<1>3. ASSUME NEW p \in Proc, Lock(p) PROVE ControlType'
  BY <1>3, HomeAssumption, ModeAssumption DEF ControlType, PC, Lock, LockFree, Goto,
      Fails, RedisFault, Fault, calls, shared, history
<1>4. ASSUME NEW p \in Proc, Reload(p) PROVE ControlType'
  BY <1>4, HomeAssumption, ModeAssumption DEF ControlType, PC, Reload, ReturnStored,
      Return, Sharing, Goto, Fails, RedisFault, Fault, calls, shared, history
<1>5. ASSUME NEW p \in Proc, Finish(p) PROVE ControlType'
  BY <1>5, HomeAssumption, ModeAssumption DEF ControlType, PC, Finish, ReturnOwn, Return,
      Sharing, Goto, calls, shared, history
<1>6. ASSUME NEW p \in Proc, StoreResult(p) PROVE ControlType'
  BY <1>6, HomeAssumption, ModeAssumption DEF ControlType, PC, StoreResult, Return,
      Sharing, calls, shared, history
<1>7. ASSUME NEW p \in Proc, StoreFails(p) PROVE ControlType'
  BY <1>7, HomeAssumption, ModeAssumption DEF ControlType, PC, StoreFails, ReturnOwn,
      Return, Sharing, Fails, RedisFault, Fault, calls, shared, history
<1>8. ASSUME NEW p \in Proc, Leave(p) PROVE ControlType'
  BY <1>8, HomeAssumption, ModeAssumption DEF ControlType, PC, Leave, Goto, calls, shared,
      history
<1>9. ASSUME NEW p \in Proc, EndContext(p) PROVE ControlType'
  BY <1>9, HomeAssumption, ModeAssumption DEF ControlType, PC, EndContext, calls, shared,
      history
<1>10. ASSUME NEW p \in Proc, LoseLock(p) PROVE ControlType'
  BY <1>10, HomeAssumption, ModeAssumption DEF ControlType, PC, LoseLock, Fault, calls,
      shared, history
<1>11. ASSUME ExpireResult PROVE ControlType'
  BY <1>11, HomeAssumption, ModeAssumption DEF ControlType, PC, ExpireResult, calls,
      shared, history
<1>12. ASSUME ExpireLock PROVE ControlType'
  BY <1>12, HomeAssumption, ModeAssumption DEF ControlType, PC, ExpireLock, calls, shared,
      history
<1>13. ASSUME NEW i \in Instance, Crash(i) PROVE ControlType'
  BY <1>13, HomeAssumption, ModeAssumption DEF ControlType, PC, Crash, Fault, calls,
      shared, history
<1>14. ASSUME UNCHANGED fvars PROVE ControlType'
  BY <1>14, HomeAssumption, ModeAssumption DEF ControlType, PC, fvars, calls, shared,
      history
<1> QED
  BY <1>1, <1>2, <1>3, <1>4, <1>5, <1>6, <1>7, <1>8, <1>9, <1>10, <1>11, <1>12, <1>13,
     <1>14 DEF FNext, Step

\* Every step keeps the types of lock and result.
LEMMA StoreTypeNext ==
  ASSUME ControlType, StoreType, [FNext]_fvars
  PROVE  StoreType'
<1>1. ASSUME NEW p \in Proc, Do(p) PROVE StoreType'
  BY <1>1, HomeAssumption, ModeAssumption DEF StoreType, Do, Underway, Goto, calls,
      shared, history
<1>2. ASSUME NEW p \in Proc, Load(p) PROVE StoreType'
  BY <1>2, HomeAssumption, ModeAssumption DEF StoreType, Load, ReturnStored, Return,
      Sharing, Goto, Fails, RedisFault, Fault, calls, shared, history
<1>3. ASSUME NEW p \in Proc, Lock(p) PROVE StoreType'
  BY <1>3, HomeAssumption, ModeAssumption DEF StoreType, Lock, LockFree, Goto, Fails,
      RedisFault, Fault, calls, shared, history
<1>4. ASSUME NEW p \in Proc, Reload(p) PROVE StoreType'
  BY <1>4, HomeAssumption, ModeAssumption DEF StoreType, Reload, ReturnStored, Return,
      Sharing, Goto, Fails, RedisFault, Fault, calls, shared, history
<1>5. ASSUME NEW p \in Proc, Finish(p) PROVE StoreType'
  BY <1>5, HomeAssumption, ModeAssumption DEF StoreType, Finish, ReturnOwn, Return,
      Sharing, Goto, calls, shared, history
<1>6. ASSUME NEW p \in Proc, StoreResult(p) PROVE StoreType'
  BY <1>6, HomeAssumption, ModeAssumption DEF StoreType, StoreResult, Return, Sharing,
      calls, shared, history
<1>7. ASSUME NEW p \in Proc, StoreFails(p) PROVE StoreType'
  BY <1>7, HomeAssumption, ModeAssumption DEF StoreType, StoreFails, ReturnOwn, Return,
      Sharing, Fails, RedisFault, Fault, calls, shared, history
<1>8. ASSUME NEW p \in Proc, Leave(p) PROVE StoreType'
  BY <1>8, HomeAssumption, ModeAssumption DEF StoreType, Leave, Goto, calls, shared,
      history
<1>9. ASSUME NEW p \in Proc, EndContext(p) PROVE StoreType'
  BY <1>9, HomeAssumption, ModeAssumption DEF StoreType, EndContext, calls, shared,
      history
<1>10. ASSUME NEW p \in Proc, LoseLock(p) PROVE StoreType'
  BY <1>10, HomeAssumption, ModeAssumption DEF StoreType, LoseLock, Fault, calls, shared,
      history
<1>11. ASSUME ExpireResult PROVE StoreType'
  BY <1>11, HomeAssumption, ModeAssumption DEF StoreType, ExpireResult, calls, shared,
      history
<1>12. ASSUME ExpireLock PROVE StoreType'
  BY <1>12, HomeAssumption, ModeAssumption DEF StoreType, ExpireLock, calls, shared,
      history
<1>13. ASSUME NEW i \in Instance, Crash(i) PROVE StoreType'
  BY <1>13, HomeAssumption, ModeAssumption DEF StoreType, Crash, Fault, calls, shared,
      history
<1>14. ASSUME UNCHANGED fvars PROVE StoreType'
  BY <1>14, HomeAssumption, ModeAssumption DEF StoreType, fvars, calls, shared, history
<1> QED
  BY <1>1, <1>2, <1>3, <1>4, <1>5, <1>6, <1>7, <1>8, <1>9, <1>10, <1>11, <1>12, <1>13,
     <1>14 DEF FNext, Step

\* Who leaves the singleflight function leaves the sets of those inside.
LEMMA InsideTypeNext ==
  ASSUME ControlType, InsideType, [FNext]_fvars
  PROVE  InsideType'
<1>1. ASSUME NEW p \in Proc, Do(p) PROVE InsideType'
  BY <1>1, HomeAssumption, ModeAssumption DEF ControlType, InsideType, Inside, Do,
      Underway, Goto, calls, shared, history
<1>2. ASSUME NEW p \in Proc, Load(p) PROVE InsideType'
  BY <1>2, HomeAssumption, ModeAssumption DEF ControlType, InsideType, Inside, Load,
      ReturnStored, Return, Sharing, Goto, Fails, RedisFault, Fault, calls, shared,
      history
<1>3. ASSUME NEW p \in Proc, Lock(p) PROVE InsideType'
  BY <1>3, HomeAssumption, ModeAssumption DEF ControlType, InsideType, Inside, Lock,
      LockFree, Goto, Fails, RedisFault, Fault, calls, shared, history
<1>4. ASSUME NEW p \in Proc, Reload(p) PROVE InsideType'
  BY <1>4, HomeAssumption, ModeAssumption DEF ControlType, InsideType, Inside, Reload,
      ReturnStored, Return, Sharing, Goto, Fails, RedisFault, Fault, calls, shared,
      history
<1>5. ASSUME NEW p \in Proc, Finish(p) PROVE InsideType'
  BY <1>5, HomeAssumption, ModeAssumption DEF ControlType, InsideType, Inside, Finish,
      ReturnOwn, Return, Sharing, Goto, calls, shared, history
<1>6. ASSUME NEW p \in Proc, StoreResult(p) PROVE InsideType'
  BY <1>6, HomeAssumption, ModeAssumption DEF ControlType, InsideType, Inside,
      StoreResult, Return, Sharing, calls, shared, history
<1>7. ASSUME NEW p \in Proc, StoreFails(p) PROVE InsideType'
  BY <1>7, HomeAssumption, ModeAssumption DEF ControlType, InsideType, Inside, StoreFails,
      ReturnOwn, Return, Sharing, Fails, RedisFault, Fault, calls, shared, history
<1>8. ASSUME NEW p \in Proc, Leave(p) PROVE InsideType'
  BY <1>8, HomeAssumption, ModeAssumption DEF ControlType, InsideType, Inside, Leave,
      Goto, calls, shared, history
<1>9. ASSUME NEW p \in Proc, EndContext(p) PROVE InsideType'
  BY <1>9, HomeAssumption, ModeAssumption DEF ControlType, InsideType, Inside, EndContext,
      calls, shared, history
<1>10. ASSUME NEW p \in Proc, LoseLock(p) PROVE InsideType'
  BY <1>10, HomeAssumption, ModeAssumption DEF ControlType, InsideType, Inside, LoseLock,
      Fault, calls, shared, history
<1>11. ASSUME ExpireResult PROVE InsideType'
  BY <1>11, HomeAssumption, ModeAssumption DEF ControlType, InsideType, Inside,
      ExpireResult, calls, shared, history
<1>12. ASSUME ExpireLock PROVE InsideType'
  BY <1>12, HomeAssumption, ModeAssumption DEF ControlType, InsideType, Inside,
      ExpireLock, calls, shared, history
<1>13. ASSUME NEW i \in Instance, Crash(i) PROVE InsideType'
  BY <1>13, HomeAssumption, ModeAssumption DEF ControlType, InsideType, Inside, Crash,
      Fault, calls, shared, history
<1>14. ASSUME UNCHANGED fvars PROVE InsideType'
  BY <1>14, HomeAssumption, ModeAssumption DEF ControlType, InsideType, Inside, fvars,
      calls, shared, history
<1> QED
  BY <1>1, <1>2, <1>3, <1>4, <1>5, <1>6, <1>7, <1>8, <1>9, <1>10, <1>11, <1>12, <1>13,
     <1>14 DEF FNext, Step

\* Every step keeps the types.
LEMMA FlightTypeNext ==
  ASSUME FTypeOK, [FNext]_fvars
  PROVE  FTypeOK'
BY ControlTypeNext, StoreTypeNext, InsideTypeNext DEF FTypeOK

\* A call enters the singleflight function only when its instance has none there.
LEMMA OneLeaderNext ==
  ASSUME FTypeOK, OneLeader, [FNext]_fvars
  PROVE  OneLeader'
<1>1. ASSUME NEW p \in Proc, Do(p) PROVE OneLeader'
  BY <1>1, HomeAssumption, ModeAssumption DEF FTypeOK, ControlType, StoreType, InsideType,
      OneLeader, Underway, Inside, Do, Goto, calls, shared, history
<1>2. ASSUME NEW p \in Proc, Load(p) PROVE OneLeader'
  BY <1>2, HomeAssumption, ModeAssumption DEF FTypeOK, ControlType, StoreType, InsideType,
      OneLeader, Underway, Inside, Load, ReturnStored, Return, Sharing, Goto, Fails,
      RedisFault, Fault, calls, shared, history
<1>3. ASSUME NEW p \in Proc, Lock(p) PROVE OneLeader'
  BY <1>3, HomeAssumption, ModeAssumption DEF FTypeOK, ControlType, StoreType, InsideType,
      OneLeader, Underway, Inside, Lock, LockFree, Goto, Fails, RedisFault, Fault, calls,
      shared, history
<1>4. ASSUME NEW p \in Proc, Reload(p) PROVE OneLeader'
  BY <1>4, HomeAssumption, ModeAssumption DEF FTypeOK, ControlType, StoreType, InsideType,
      OneLeader, Underway, Inside, Reload, ReturnStored, Return, Sharing, Goto, Fails,
      RedisFault, Fault, calls, shared, history
<1>5. ASSUME NEW p \in Proc, Finish(p) PROVE OneLeader'
  BY <1>5, HomeAssumption, ModeAssumption DEF FTypeOK, ControlType, StoreType, InsideType,
      OneLeader, Underway, Inside, Finish, ReturnOwn, Return, Sharing, Goto, calls,
      shared, history
<1>6. ASSUME NEW p \in Proc, StoreResult(p) PROVE OneLeader'
  BY <1>6, HomeAssumption, ModeAssumption DEF FTypeOK, ControlType, StoreType, InsideType,
      OneLeader, Underway, Inside, StoreResult, Return, Sharing, calls, shared, history
<1>7. ASSUME NEW p \in Proc, StoreFails(p) PROVE OneLeader'
  BY <1>7, HomeAssumption, ModeAssumption DEF FTypeOK, ControlType, StoreType, InsideType,
      OneLeader, Underway, Inside, StoreFails, ReturnOwn, Return, Sharing, Fails,
      RedisFault, Fault, calls, shared, history
<1>8. ASSUME NEW p \in Proc, Leave(p) PROVE OneLeader'
  BY <1>8, HomeAssumption, ModeAssumption DEF FTypeOK, ControlType, StoreType, InsideType,
      OneLeader, Underway, Inside, Leave, Goto, calls, shared, history
<1>9. ASSUME NEW p \in Proc, EndContext(p) PROVE OneLeader'
  BY <1>9, HomeAssumption, ModeAssumption DEF FTypeOK, ControlType, StoreType, InsideType,
      OneLeader, Underway, Inside, EndContext, calls, shared, history
<1>10. ASSUME NEW p \in Proc, LoseLock(p) PROVE OneLeader'
  BY <1>10, HomeAssumption, ModeAssumption DEF FTypeOK, ControlType, StoreType,
      InsideType, OneLeader, Underway, Inside, LoseLock, Fault, calls, shared, history
<1>11. ASSUME ExpireResult PROVE OneLeader'
  BY <1>11, HomeAssumption, ModeAssumption DEF FTypeOK, ControlType, StoreType,
      InsideType, OneLeader, Underway, Inside, ExpireResult, calls, shared, history
<1>12. ASSUME ExpireLock PROVE OneLeader'
  BY <1>12, HomeAssumption, ModeAssumption DEF FTypeOK, ControlType, StoreType,
      InsideType, OneLeader, Underway, Inside, ExpireLock, calls, shared, history
<1>13. ASSUME NEW i \in Instance, Crash(i) PROVE OneLeader'
  BY <1>13, HomeAssumption, ModeAssumption DEF FTypeOK, ControlType, StoreType,
      InsideType, OneLeader, Underway, Inside, Crash, Fault, calls, shared, history
<1>14. ASSUME UNCHANGED fvars PROVE OneLeader'
  BY <1>14, HomeAssumption, ModeAssumption DEF FTypeOK, ControlType, StoreType,
      InsideType, OneLeader, Underway, Inside, fvars, calls, shared, history
<1> QED
  BY <1>1, <1>2, <1>3, <1>4, <1>5, <1>6, <1>7, <1>8, <1>9, <1>10, <1>11, <1>12, <1>13,
     <1>14 DEF FNext, Step

\* Calls move along doDistributed and doLocal as they are written.
LEMMA PlacesNext ==
  ASSUME FTypeOK, Places, [FNext]_fvars
  PROVE  Places'
<1>1. ASSUME NEW p \in Proc, Do(p) PROVE Places'
  BY <1>1, HomeAssumption, ModeAssumption DEF FTypeOK, ControlType, StoreType, InsideType,
      Places, Keeps, Inside, Do, Underway, Goto, calls, shared, history
<1>2. ASSUME NEW p \in Proc, Load(p) PROVE Places'
  BY <1>2, HomeAssumption, ModeAssumption DEF FTypeOK, ControlType, StoreType, InsideType,
      Places, Keeps, Inside, Load, ReturnStored, Return, Sharing, Goto, Fails, RedisFault,
      Fault, calls, shared, history
<1>3. ASSUME NEW p \in Proc, Lock(p) PROVE Places'
  BY <1>3, HomeAssumption, ModeAssumption DEF FTypeOK, ControlType, StoreType, InsideType,
      Places, Keeps, Inside, Lock, LockFree, Goto, Fails, RedisFault, Fault, calls,
      shared, history
<1>4. ASSUME NEW p \in Proc, Reload(p) PROVE Places'
  BY <1>4, HomeAssumption, ModeAssumption DEF FTypeOK, ControlType, StoreType, InsideType,
      Places, Keeps, Inside, Reload, ReturnStored, Return, Sharing, Goto, Fails,
      RedisFault, Fault, calls, shared, history
<1>5. ASSUME NEW p \in Proc, Finish(p) PROVE Places'
  BY <1>5, HomeAssumption, ModeAssumption DEF FTypeOK, ControlType, StoreType, InsideType,
      Places, Keeps, Inside, Finish, ReturnOwn, Return, Sharing, Goto, calls, shared,
      history
<1>6. ASSUME NEW p \in Proc, StoreResult(p) PROVE Places'
  BY <1>6, HomeAssumption, ModeAssumption DEF FTypeOK, ControlType, StoreType, InsideType,
      Places, Keeps, Inside, StoreResult, Return, Sharing, calls, shared, history
<1>7. ASSUME NEW p \in Proc, StoreFails(p) PROVE Places'
  BY <1>7, HomeAssumption, ModeAssumption DEF FTypeOK, ControlType, StoreType, InsideType,
      Places, Keeps, Inside, StoreFails, ReturnOwn, Return, Sharing, Fails, RedisFault,
      Fault, calls, shared, history
<1>8. ASSUME NEW p \in Proc, Leave(p) PROVE Places'
  BY <1>8, HomeAssumption, ModeAssumption DEF FTypeOK, ControlType, StoreType, InsideType,
      Places, Keeps, Inside, Leave, Goto, calls, shared, history
<1>9. ASSUME NEW p \in Proc, EndContext(p) PROVE Places'
  BY <1>9, HomeAssumption, ModeAssumption DEF FTypeOK, ControlType, StoreType, InsideType,
      Places, Keeps, Inside, EndContext, calls, shared, history
<1>10. ASSUME NEW p \in Proc, LoseLock(p) PROVE Places'
  BY <1>10, HomeAssumption, ModeAssumption DEF FTypeOK, ControlType, StoreType,
      InsideType, Places, Keeps, Inside, LoseLock, Fault, calls, shared, history
<1>11. ASSUME ExpireResult PROVE Places'
  BY <1>11, HomeAssumption, ModeAssumption DEF FTypeOK, ControlType, StoreType,
      InsideType, Places, Keeps, Inside, ExpireResult, calls, shared, history
<1>12. ASSUME ExpireLock PROVE Places'
  BY <1>12, HomeAssumption, ModeAssumption DEF FTypeOK, ControlType, StoreType,
      InsideType, Places, Keeps, Inside, ExpireLock, calls, shared, history
<1>13. ASSUME NEW i \in Instance, Crash(i) PROVE Places'
  BY <1>13, HomeAssumption, ModeAssumption DEF FTypeOK, ControlType, StoreType,
      InsideType, Places, Keeps, Inside, Crash, Fault, calls, shared, history
<1>14. ASSUME UNCHANGED fvars PROVE Places'
  BY <1>14, HomeAssumption, ModeAssumption DEF FTypeOK, ControlType, StoreType,
      InsideType, Places, Keeps, Inside, fvars, calls, shared, history
<1> QED
  BY <1>1, <1>2, <1>3, <1>4, <1>5, <1>6, <1>7, <1>8, <1>9, <1>10, <1>11, <1>12, <1>13,
     <1>14 DEF FNext, Step

\* A context that ends is that of a call inside; who leaves takes its end along.
LEMMA DeadlinesNext ==
  ASSUME FTypeOK, Deadlines, [FNext]_fvars
  PROVE  Deadlines'
<1>1. ASSUME NEW p \in Proc, Do(p) PROVE Deadlines'
  BY <1>1, HomeAssumption, ModeAssumption DEF FTypeOK, ControlType, StoreType, InsideType,
      Deadlines, Inside, Do, Underway, Goto, calls, shared, history
<1>2. ASSUME NEW p \in Proc, Load(p) PROVE Deadlines'
  BY <1>2, HomeAssumption, ModeAssumption DEF FTypeOK, ControlType, StoreType, InsideType,
      Deadlines, Inside, Load, ReturnStored, Return, Sharing, Goto, Fails, RedisFault,
      Fault, calls, shared, history
<1>3. ASSUME NEW p \in Proc, Lock(p) PROVE Deadlines'
  BY <1>3, HomeAssumption, ModeAssumption DEF FTypeOK, ControlType, StoreType, InsideType,
      Deadlines, Inside, Lock, LockFree, Goto, Fails, RedisFault, Fault, calls, shared,
      history
<1>4. ASSUME NEW p \in Proc, Reload(p) PROVE Deadlines'
  BY <1>4, HomeAssumption, ModeAssumption DEF FTypeOK, ControlType, StoreType, InsideType,
      Deadlines, Inside, Reload, ReturnStored, Return, Sharing, Goto, Fails, RedisFault,
      Fault, calls, shared, history
<1>5. ASSUME NEW p \in Proc, Finish(p) PROVE Deadlines'
  BY <1>5, HomeAssumption, ModeAssumption DEF FTypeOK, ControlType, StoreType, InsideType,
      Deadlines, Inside, Finish, ReturnOwn, Return, Sharing, Goto, calls, shared, history
<1>6. ASSUME NEW p \in Proc, StoreResult(p) PROVE Deadlines'
  BY <1>6, HomeAssumption, ModeAssumption DEF FTypeOK, ControlType, StoreType, InsideType,
      Deadlines, Inside, StoreResult, Return, Sharing, calls, shared, history
<1>7. ASSUME NEW p \in Proc, StoreFails(p) PROVE Deadlines'
  BY <1>7, HomeAssumption, ModeAssumption DEF FTypeOK, ControlType, StoreType, InsideType,
      Deadlines, Inside, StoreFails, ReturnOwn, Return, Sharing, Fails, RedisFault, Fault,
      calls, shared, history
<1>8. ASSUME NEW p \in Proc, Leave(p) PROVE Deadlines'
  BY <1>8, HomeAssumption, ModeAssumption DEF FTypeOK, ControlType, StoreType, InsideType,
      Deadlines, Inside, Leave, Goto, calls, shared, history
<1>9. ASSUME NEW p \in Proc, EndContext(p) PROVE Deadlines'
  BY <1>9, HomeAssumption, ModeAssumption DEF FTypeOK, ControlType, StoreType, InsideType,
      Deadlines, Inside, EndContext, calls, shared, history
<1>10. ASSUME NEW p \in Proc, LoseLock(p) PROVE Deadlines'
  BY <1>10, HomeAssumption, ModeAssumption DEF FTypeOK, ControlType, StoreType,
      InsideType, Deadlines, Inside, LoseLock, Fault, calls, shared, history
<1>11. ASSUME ExpireResult PROVE Deadlines'
  BY <1>11, HomeAssumption, ModeAssumption DEF FTypeOK, ControlType, StoreType,
      InsideType, Deadlines, Inside, ExpireResult, calls, shared, history
<1>12. ASSUME ExpireLock PROVE Deadlines'
  BY <1>12, HomeAssumption, ModeAssumption DEF FTypeOK, ControlType, StoreType,
      InsideType, Deadlines, Inside, ExpireLock, calls, shared, history
<1>13. ASSUME NEW i \in Instance, Crash(i) PROVE Deadlines'
  BY <1>13, HomeAssumption, ModeAssumption DEF FTypeOK, ControlType, StoreType,
      InsideType, Deadlines, Inside, Crash, Fault, calls, shared, history
<1>14. ASSUME UNCHANGED fvars PROVE Deadlines'
  BY <1>14, HomeAssumption, ModeAssumption DEF FTypeOK, ControlType, StoreType,
      InsideType, Deadlines, Inside, fvars, calls, shared, history
<1> QED
  BY <1>1, <1>2, <1>3, <1>4, <1>5, <1>6, <1>7, <1>8, <1>9, <1>10, <1>11, <1>12, <1>13,
     <1>14 DEF FNext, Step

\* Only a free lock is taken.
LEMMA LockHeldNext ==
  ASSUME FTypeOK, Places, Deadlines, LockHeld, [FNext]_fvars
  PROVE  LockHeld'
<1>1. ASSUME NEW p \in Proc, Do(p) PROVE LockHeld'
  BY <1>1, HomeAssumption, ModeAssumption DEF FTypeOK, ControlType, StoreType, InsideType,
      Places, Deadlines, Keeps, LockHeld, Running, Inside, Do, Underway, Goto, calls,
      shared, history
<1>2. ASSUME NEW p \in Proc, Load(p) PROVE LockHeld'
  BY <1>2, HomeAssumption, ModeAssumption DEF FTypeOK, ControlType, StoreType, InsideType,
      Places, Deadlines, Keeps, LockHeld, Running, Inside, Load, ReturnStored, Return,
      Sharing, Goto, Fails, RedisFault, Fault, calls, shared, history
<1>3. ASSUME NEW p \in Proc, Lock(p) PROVE LockHeld'
  BY <1>3, HomeAssumption, ModeAssumption DEF FTypeOK, ControlType, StoreType, InsideType,
      Places, Deadlines, Keeps, LockHeld, Running, Inside, Lock, LockFree, Goto, Fails,
      RedisFault, Fault, calls, shared, history
<1>4. ASSUME NEW p \in Proc, Reload(p) PROVE LockHeld'
  BY <1>4, HomeAssumption, ModeAssumption DEF FTypeOK, ControlType, StoreType, InsideType,
      Places, Deadlines, Keeps, LockHeld, Running, Inside, Reload, ReturnStored, Return,
      Sharing, Goto, Fails, RedisFault, Fault, calls, shared, history
<1>5. ASSUME NEW p \in Proc, Finish(p) PROVE LockHeld'
  BY <1>5, HomeAssumption, ModeAssumption DEF FTypeOK, ControlType, StoreType, InsideType,
      Places, Deadlines, Keeps, LockHeld, Running, Inside, Finish, ReturnOwn, Return,
      Sharing, Goto, calls, shared, history
<1>6. ASSUME NEW p \in Proc, StoreResult(p) PROVE LockHeld'
  BY <1>6, HomeAssumption, ModeAssumption DEF FTypeOK, ControlType, StoreType, InsideType,
      Places, Deadlines, Keeps, LockHeld, Running, Inside, StoreResult, Return, Sharing,
      calls, shared, history
<1>7. ASSUME NEW p \in Proc, StoreFails(p) PROVE LockHeld'
  BY <1>7, HomeAssumption, ModeAssumption DEF FTypeOK, ControlType, StoreType, InsideType,
      Places, Deadlines, Keeps, LockHeld, Running, Inside, StoreFails, ReturnOwn, Return,
      Sharing, Fails, RedisFault, Fault, calls, shared, history
<1>8. ASSUME NEW p \in Proc, Leave(p) PROVE LockHeld'
  BY <1>8, HomeAssumption, ModeAssumption DEF FTypeOK, ControlType, StoreType, InsideType,
      Places, Deadlines, Keeps, LockHeld, Running, Inside, Leave, Goto, calls, shared,
      history
<1>9. ASSUME NEW p \in Proc, EndContext(p) PROVE LockHeld'
  BY <1>9, HomeAssumption, ModeAssumption DEF FTypeOK, ControlType, StoreType, InsideType,
      Places, Deadlines, Keeps, LockHeld, Running, Inside, EndContext, calls, shared,
      history
<1>10. ASSUME NEW p \in Proc, LoseLock(p) PROVE LockHeld'
  BY <1>10, HomeAssumption, ModeAssumption DEF FTypeOK, ControlType, StoreType,
      InsideType, Places, Deadlines, Keeps, LockHeld, Running, Inside, LoseLock, Fault,
      calls, shared, history
<1>11. ASSUME ExpireResult PROVE LockHeld'
  BY <1>11, HomeAssumption, ModeAssumption DEF FTypeOK, ControlType, StoreType,
      InsideType, Places, Deadlines, Keeps, LockHeld, Running, Inside, ExpireResult,
      calls, shared, history
<1>12. ASSUME ExpireLock PROVE LockHeld'
  BY <1>12, HomeAssumption, ModeAssumption DEF FTypeOK, ControlType, StoreType,
      InsideType, Places, Deadlines, Keeps, LockHeld, Running, Inside, ExpireLock, calls,
      shared, history
<1>13. ASSUME NEW i \in Instance, Crash(i) PROVE LockHeld'
  BY <1>13, HomeAssumption, ModeAssumption DEF FTypeOK, ControlType, StoreType,
      InsideType, Places, Deadlines, Keeps, LockHeld, Running, Inside, Crash, Fault,
      calls, shared, history
<1>14. ASSUME UNCHANGED fvars PROVE LockHeld'
  BY <1>14, HomeAssumption, ModeAssumption DEF FTypeOK, ControlType, StoreType,
      InsideType, Places, Deadlines, Keeps, LockHeld, Running, Inside, fvars, calls,
      shared, history
<1> QED
  BY <1>1, <1>2, <1>3, <1>4, <1>5, <1>6, <1>7, <1>8, <1>9, <1>10, <1>11, <1>12, <1>13,
     <1>14 DEF FNext, Step

\* A result is stored by the only call that may store one.
LEMMA NothingStoredNext ==
  ASSUME FTypeOK, OneLeader, Places, Deadlines, LockHeld, NothingStored, [FNext]_fvars
  PROVE  NothingStored'
<1>1. ASSUME NEW p \in Proc, Do(p) PROVE NothingStored'
  BY <1>1, HomeAssumption, ModeAssumption DEF FTypeOK, ControlType, StoreType, InsideType,
      OneLeader, Places, Deadlines, LockHeld, NothingStored, Keeps, Running, Inside, Do,
      Underway, Goto, calls, shared, history
<1>2. ASSUME NEW p \in Proc, Load(p) PROVE NothingStored'
  BY <1>2, HomeAssumption, ModeAssumption DEF FTypeOK, ControlType, StoreType, InsideType,
      OneLeader, Places, Deadlines, LockHeld, NothingStored, Keeps, Running, Inside, Load,
      ReturnStored, Return, Sharing, Goto, Fails, RedisFault, Fault, calls, shared,
      history
<1>3. ASSUME NEW p \in Proc, Lock(p) PROVE NothingStored'
  BY <1>3, HomeAssumption, ModeAssumption DEF FTypeOK, ControlType, StoreType, InsideType,
      OneLeader, Places, Deadlines, LockHeld, NothingStored, Keeps, Running, Inside, Lock,
      LockFree, Goto, Fails, RedisFault, Fault, calls, shared, history
<1>4. ASSUME NEW p \in Proc, Reload(p) PROVE NothingStored'
  BY <1>4, HomeAssumption, ModeAssumption DEF FTypeOK, ControlType, StoreType, InsideType,
      OneLeader, Places, Deadlines, LockHeld, NothingStored, Keeps, Running, Inside,
      Reload, ReturnStored, Return, Sharing, Goto, Fails, RedisFault, Fault, calls,
      shared, history
<1>5. ASSUME NEW p \in Proc, Finish(p) PROVE NothingStored'
  BY <1>5, HomeAssumption, ModeAssumption DEF FTypeOK, ControlType, StoreType, InsideType,
      OneLeader, Places, Deadlines, LockHeld, NothingStored, Keeps, Running, Inside,
      Finish, ReturnOwn, Return, Sharing, Goto, calls, shared, history
<1>6. ASSUME NEW p \in Proc, StoreResult(p) PROVE NothingStored'
  BY <1>6, HomeAssumption, ModeAssumption DEF FTypeOK, ControlType, StoreType, InsideType,
      OneLeader, Places, Deadlines, LockHeld, NothingStored, Keeps, Running, Inside,
      StoreResult, Return, Sharing, calls, shared, history
<1>7. ASSUME NEW p \in Proc, StoreFails(p) PROVE NothingStored'
  BY <1>7, HomeAssumption, ModeAssumption DEF FTypeOK, ControlType, StoreType, InsideType,
      OneLeader, Places, Deadlines, LockHeld, NothingStored, Keeps, Running, Inside,
      StoreFails, ReturnOwn, Return, Sharing, Fails, RedisFault, Fault, calls, shared,
      history
<1>8. ASSUME NEW p \in Proc, Leave(p) PROVE NothingStored'
  BY <1>8, HomeAssumption, ModeAssumption DEF FTypeOK, ControlType, StoreType, InsideType,
      OneLeader, Places, Deadlines, LockHeld, NothingStored, Keeps, Running, Inside,
      Leave, Goto, calls, shared, history
<1>9. ASSUME NEW p \in Proc, EndContext(p) PROVE NothingStored'
  BY <1>9, HomeAssumption, ModeAssumption DEF FTypeOK, ControlType, StoreType, InsideType,
      OneLeader, Places, Deadlines, LockHeld, NothingStored, Keeps, Running, Inside,
      EndContext, calls, shared, history
<1>10. ASSUME NEW p \in Proc, LoseLock(p) PROVE NothingStored'
  BY <1>10, HomeAssumption, ModeAssumption DEF FTypeOK, ControlType, StoreType,
      InsideType, OneLeader, Places, Deadlines, LockHeld, NothingStored, Keeps, Running,
      Inside, LoseLock, Fault, calls, shared, history
<1>11. ASSUME ExpireResult PROVE NothingStored'
  BY <1>11, HomeAssumption, ModeAssumption DEF FTypeOK, ControlType, StoreType,
      InsideType, OneLeader, Places, Deadlines, LockHeld, NothingStored, Keeps, Running,
      Inside, ExpireResult, calls, shared, history
<1>12. ASSUME ExpireLock PROVE NothingStored'
  BY <1>12, HomeAssumption, ModeAssumption DEF FTypeOK, ControlType, StoreType,
      InsideType, OneLeader, Places, Deadlines, LockHeld, NothingStored, Keeps, Running,
      Inside, ExpireLock, calls, shared, history
<1>13. ASSUME NEW i \in Instance, Crash(i) PROVE NothingStored'
  BY <1>13, HomeAssumption, ModeAssumption DEF FTypeOK, ControlType, StoreType,
      InsideType, OneLeader, Places, Deadlines, LockHeld, NothingStored, Keeps, Running,
      Inside, Crash, Fault, calls, shared, history
<1>14. ASSUME UNCHANGED fvars PROVE NothingStored'
  BY <1>14, HomeAssumption, ModeAssumption DEF FTypeOK, ControlType, StoreType,
      InsideType, OneLeader, Places, Deadlines, LockHeld, NothingStored, Keeps, Running,
      Inside, fvars, calls, shared, history
<1> QED
  BY <1>1, <1>2, <1>3, <1>4, <1>5, <1>6, <1>7, <1>8, <1>9, <1>10, <1>11, <1>12, <1>13,
     <1>14 DEF FNext, Step

\* The first look marks a replay.
LEMMA ReplaysMarkedNext ==
  ASSUME FTypeOK, Places, ReplaysMarked, [FNext]_fvars
  PROVE  ReplaysMarked'
<1>1. ASSUME NEW p \in Proc, Do(p) PROVE ReplaysMarked'
  BY <1>1, HomeAssumption, ModeAssumption DEF FTypeOK, ControlType, StoreType, InsideType,
      Places, ReplaysMarked, Inside, Do, Underway, Goto, calls, shared, history
<1>2. ASSUME NEW p \in Proc, Load(p) PROVE ReplaysMarked'
  BY <1>2, HomeAssumption, ModeAssumption DEF FTypeOK, ControlType, StoreType, InsideType,
      Places, ReplaysMarked, Inside, Load, ReturnStored, Return, Sharing, Goto, Fails,
      RedisFault, Fault, calls, shared, history
<1>3. ASSUME NEW p \in Proc, Lock(p) PROVE ReplaysMarked'
  BY <1>3, HomeAssumption, ModeAssumption DEF FTypeOK, ControlType, StoreType, InsideType,
      Places, ReplaysMarked, Inside, Lock, LockFree, Goto, Fails, RedisFault, Fault,
      calls, shared, history
<1>4. ASSUME NEW p \in Proc, Reload(p) PROVE ReplaysMarked'
  BY <1>4, HomeAssumption, ModeAssumption DEF FTypeOK, ControlType, StoreType, InsideType,
      Places, ReplaysMarked, Inside, Reload, ReturnStored, Return, Sharing, Goto, Fails,
      RedisFault, Fault, calls, shared, history
<1>5. ASSUME NEW p \in Proc, Finish(p) PROVE ReplaysMarked'
  BY <1>5, HomeAssumption, ModeAssumption DEF FTypeOK, ControlType, StoreType, InsideType,
      Places, ReplaysMarked, Inside, Finish, ReturnOwn, Return, Sharing, Goto, calls,
      shared, history
<1>6. ASSUME NEW p \in Proc, StoreResult(p) PROVE ReplaysMarked'
  BY <1>6, HomeAssumption, ModeAssumption DEF FTypeOK, ControlType, StoreType, InsideType,
      Places, ReplaysMarked, Inside, StoreResult, Return, Sharing, calls, shared, history
<1>7. ASSUME NEW p \in Proc, StoreFails(p) PROVE ReplaysMarked'
  BY <1>7, HomeAssumption, ModeAssumption DEF FTypeOK, ControlType, StoreType, InsideType,
      Places, ReplaysMarked, Inside, StoreFails, ReturnOwn, Return, Sharing, Fails,
      RedisFault, Fault, calls, shared, history
<1>8. ASSUME NEW p \in Proc, Leave(p) PROVE ReplaysMarked'
  BY <1>8, HomeAssumption, ModeAssumption DEF FTypeOK, ControlType, StoreType, InsideType,
      Places, ReplaysMarked, Inside, Leave, Goto, calls, shared, history
<1>9. ASSUME NEW p \in Proc, EndContext(p) PROVE ReplaysMarked'
  BY <1>9, HomeAssumption, ModeAssumption DEF FTypeOK, ControlType, StoreType, InsideType,
      Places, ReplaysMarked, Inside, EndContext, calls, shared, history
<1>10. ASSUME NEW p \in Proc, LoseLock(p) PROVE ReplaysMarked'
  BY <1>10, HomeAssumption, ModeAssumption DEF FTypeOK, ControlType, StoreType,
      InsideType, Places, ReplaysMarked, Inside, LoseLock, Fault, calls, shared, history
<1>11. ASSUME ExpireResult PROVE ReplaysMarked'
  BY <1>11, HomeAssumption, ModeAssumption DEF FTypeOK, ControlType, StoreType,
      InsideType, Places, ReplaysMarked, Inside, ExpireResult, calls, shared, history
<1>12. ASSUME ExpireLock PROVE ReplaysMarked'
  BY <1>12, HomeAssumption, ModeAssumption DEF FTypeOK, ControlType, StoreType,
      InsideType, Places, ReplaysMarked, Inside, ExpireLock, calls, shared, history
<1>13. ASSUME NEW i \in Instance, Crash(i) PROVE ReplaysMarked'
  BY <1>13, HomeAssumption, ModeAssumption DEF FTypeOK, ControlType, StoreType,
      InsideType, Places, ReplaysMarked, Inside, Crash, Fault, calls, shared, history
<1>14. ASSUME UNCHANGED fvars PROVE ReplaysMarked'
  BY <1>14, HomeAssumption, ModeAssumption DEF FTypeOK, ControlType, StoreType,
      InsideType, Places, ReplaysMarked, Inside, fvars, calls, shared, history
<1> QED
  BY <1>1, <1>2, <1>3, <1>4, <1>5, <1>6, <1>7, <1>8, <1>9, <1>10, <1>11, <1>12, <1>13,
     <1>14 DEF FNext, Step

\* Every step keeps the inductive invariant.
LEMMA FlightInvNext ==
  ASSUME FlightInv, [FNext]_fvars
  PROVE  FlightInv'
BY FlightTypeNext, OneLeaderNext, PlacesNext, DeadlinesNext, LockHeldNext,
   NothingStoredNext, ReplaysMarkedNext DEF FlightInv

\* The inductive invariant holds in every reachable state.
THEOREM FlightInvariant == FSpec => []FlightInv
BY FlightInit, FlightInvNext, PTL DEF FSpec

\* Every variable keeps its type, and only a call inside the singleflight function
\* holds the lock, is marked a replay, runs locally, has a context that ended or
\* waits for a result: whoever
\* leaves, by whatever path, has let go of all of them.
THEOREM FlightTypes == FSpec => []FTypeOK
<1>1. FlightInv => FTypeOK
  BY DEF FlightInv
<1> QED
  BY <1>1, FlightInvariant, PTL

\* Two runs of fn overlap only across instances, and only after a fault or when one of
\* the two has passed its deadline, be it a waiter that ran locally or a holder that
\* gave the lock up under its run.
THEOREM RunsExcluded == FSpec => []RunsExclude
<1>1. FlightInv => RunsExclude
  BY HomeAssumption, ModeAssumption DEF FlightInv, FTypeOK, ControlType, StoreType, OneLeader,
     Deadlines, LockHeld, RunsExclude, Running, Inside
<1> QED
  BY <1>1, FlightInvariant, PTL

\* With Redis working, no call within its deadline repeats a run whose success was
\* stored since the call began.
THEOREM SuccessNeverRepeated == FSpec => []SuccessNotRepeated
<1>1. FlightInv => SuccessNotRepeated
  BY ModeAssumption DEF FlightInv, FTypeOK, InsideType, Places, Deadlines, NothingStored,
     SuccessNotRepeated, Running, Keeps, Inside
<1> QED
  BY <1>1, FlightInvariant, PTL

\* With Redis working, no step overwrites a stored result.
THEOREM ResultNeverOverwritten == FSpec => ResultNotOverwritten
<1>1. FlightInv /\ [FNext]_fvars =>
        [faults' = 0 /\ stored # None => stored' \in {stored, None}]_fvars
  <2> SUFFICES ASSUME FlightInv, FNext, faults' = 0, stored # None
               PROVE  stored' \in {stored, None}
    OBVIOUS
  <2>1. ASSUME NEW p \in Proc, StoreResult(p) PROVE stored' \in {stored, None}
    BY <2>1 DEF FlightInv, FTypeOK, StoreType, Places, NothingStored, Running, StoreResult
  <2>2. ASSUME NEW p \in Proc, Do(p) \/ Load(p) \/ Lock(p) \/ Reload(p) \/ Finish(p)
                              \/ StoreFails(p) \/ Leave(p) \/ EndContext(p)
                              \/ LoseLock(p)
        PROVE  stored' = stored
    BY <2>2 DEF Do, Load, Lock, Reload, Finish, StoreFails, Leave, EndContext, LoseLock,
       ReturnStored, ReturnOwn, shared
  <2>3. ASSUME ExpireResult \/ ExpireLock \/ \E i \in Instance : Crash(i)
        PROVE  stored' \in {stored, None}
    BY <2>3 DEF ExpireResult, ExpireLock, Crash
  <2> QED
    BY <2>1, <2>2, <2>3 DEF FNext, Step
<1> QED
  BY <1>1, FlightInvariant, PTL DEF FSpec, ResultNotOverwritten

\* Whatever fails, an in-flight-only call that leads never reuses or overwrites a
\* result older than itself.
THEOREM LeaderNeverReplayed == FSpec => LeaderNotReplayed
<1> DEFINE Own(p) == p \notin reused' /\ (stored' = p => UNCHANGED stored)
<1>1. FlightInv /\ [FNext]_fvars =>
        [InFlightOnly => \A p \in Inside \cap older : Own(p)]_fvars
  <2> SUFFICES ASSUME FlightInv, FNext, InFlightOnly, NEW p \in Inside, p \in older
               PROVE  Own(p)
    OBVIOUS
  <2>1. p \in Proc /\ p \notin reused /\ pc[p] # "join"
    BY DEF FlightInv, ReplaysMarked, Inside
  <2>2. pc[p] \notin {"reload", "store"}
    BY <2>1 DEF FlightInv, Places, ReplaysMarked, Keeps
  <2>3. ASSUME NEW q \in Proc, Load(q) \/ Reload(q) PROVE Own(p)
    BY <2>1, <2>2, <2>3 DEF Load, Reload, ReturnStored, Sharing, shared, history
  <2>4. ASSUME NEW q \in Proc, StoreResult(q) \/ StoreFails(q) PROVE Own(p)
    BY <2>1, <2>2, <2>4 DEF StoreResult, StoreFails, ReturnOwn
  <2>5. ASSUME NEW q \in Proc, Do(q) \/ Lock(q) \/ Finish(q) \/ Leave(q)
                              \/ EndContext(q) \/ LoseLock(q)
        PROVE  Own(p)
    BY <2>1, <2>5 DEF Do, Lock, Finish, Leave, EndContext, LoseLock, ReturnOwn, shared, history
  <2>6. ASSUME ExpireResult \/ ExpireLock \/ \E i \in Instance : Crash(i) PROVE Own(p)
    BY <2>1, <2>6, ModeAssumption DEF ExpireResult, ExpireLock, Crash, history
  <2> QED
    BY <2>3, <2>4, <2>5, <2>6 DEF FNext, Step
<1> QED
  BY <1>1, FlightInvariant, PTL DEF FSpec, LeaderNotReplayed
=============================================================================
