------------------------- MODULE DeviceStoreProofs -------------------------
(***************************************************************************)
(* Proofs about DeviceStore, for every set of devices, users, instances    *)
(* and processes and every bound.  Each part of DeviceInv is shown to be   *)
(* preserved by a lemma with one step per action; the theorems at the end  *)
(* combine them.                                                           *)
(***************************************************************************)
EXTENDS DeviceStore, TLAPS

(***************************************************************************)
(* The inductive invariant behind the safety properties.                   *)
(***************************************************************************)
\* Generations in flight are generations the row has had.
Known(d, g) == g \in 1..gen[d]
GenerationsKnown ==
    /\ \A d \in issued : gen[d] >= 1
    /\ \A p \in Proc :
        /\ pc[p] \in {"fill", "publish"} => Known(dev[p], val[p])
        /\ pc[p] \in PastUpdate => Known(dev[p], new[p])

\* Whoever could still write a buried device's secret is older than its
\* tombstone, and the tombstone is still there to stop it.
TombstoneHolds ==
    \A d \in buried :
        /\ d \in issued /\ d \notin rows /\ cache[d].kind # "secret"
        /\ \A p \in Proc : dev[p] = d /\ pc[p] \in {"fill", "publish"} =>
                p \in aged /\ cache[d].kind = "deleted"

\* A row leaves the table for good and is buried, or will be.
DeadAreBuried ==
    /\ \A d \in Device \ issued : cache[d].kind = "missing"
    /\ \A d \in issued \ tainted : d \in rows \/ Burying(d) \/ d \in buried
    /\ \A d \in rows \ tainted : cache[d].kind # "deleted"

\* The update that made d's generation what it is has not reached the cache.
Pending(d) == \E p \in Proc : dev[p] = d /\ pc[p] \in PastUpdate /\ new[p] = gen[d]
Current(d) == Hit(d) /\ cache[d].gen = gen[d]

\* What p would store for d is no longer current.
Lags(p, d) ==
    /\ dev[p] = d
    /\ \/ pc[p] = "fill" /\ val[p] < gen[d]
       \/ pc[p] = "publish" /\ val[p] < gen[d] /\ new[p] < gen[d]

\* An old generation is in the cache, or on its way there, only while the
\* update is pending or the current entry is there to stop it.
Fresh(d) ==
    /\ Hit(d) => Current(d) \/ Pending(d)
    /\ \A p \in Proc : Lags(p, d) =>
        /\ Current(d) \/ Pending(d)
        /\ Current(d) => p \in aged

StaleIsTransient == \A d \in rows \ tainted : Fresh(d)

DeviceInv ==
    /\ TypeOK /\ CacheNotAhead /\ GenerationsKnown /\ TombstoneHolds
    /\ DeadAreBuried /\ StaleIsTransient

(***************************************************************************)
(* What a program may do with the store: the steps of Next, and what the   *)
(* handlers of Sessions add to them: a call that follows another at once,  *)
(* the deletion of a user on request, failures that are none of the        *)
(* store's.  The lemmas are about all of these.                            *)
(***************************************************************************)
MayFail == faults' = faults \/ Fault

Turn(p) ==
    /\ pc[p] \in {"idle", "got", "updated", "deleted"}
    /\ \E l \in {"idle", "get", "bump", "del", "delall"},
          d \in Device \cup {None}, u \in User \cup {None} :
        /\ l \in {"get", "bump", "del"} => d \in issued
        /\ Enter({p}, l, d, u)
    /\ UNCHANGED <<db, cache, loader, aged, history>> /\ MayFail

Elsewhere == UNCHANGED <<db, cache, loader, pc, args, locals, aged, history>> /\ MayFail

StoreNext ==
    \/ \E p \in Proc : Turn(p) \/ Step(p)
    \/ \E d \in Device, u \in User : SaveDeviceSecret(d, u)
    \/ \E u \in User : DeleteUser(u) /\ MayFail
    \/ Outside
    \/ \E i \in Instance : Crash(i)
    \/ Elsewhere

\* The steps of the store's own specification are among them.
LEMMA NextIsStoreNext ==
  ASSUME TypeOK, [Next]_vars
  PROVE  StoreNext
<1>1. ASSUME NEW p \in Proc, Call(p) PROVE Turn(p)
  BY <1>1 DEF Call, Turn, MayFail, TypeOK, TableType
<1>2. ASSUME NEW p \in Proc, Return(p) PROVE Turn(p)
  BY <1>2 DEF Return, Turn, MayFail
<1>3. ASSUME UNCHANGED vars PROVE Elsewhere
  BY <1>3 DEF vars, Elsewhere, MayFail, args, locals
<1> QED
  BY <1>1, <1>2, <1>3 DEF Next, StoreNext

(***************************************************************************)
(* Types.                                                                  *)
(***************************************************************************)
\* Initially no call is in progress and no device exists.
LEMMA TypeInit == Init => TypeOK
  BY HomeAssumption, BoundAssumption DEF Init, TypeOK, TableType, CacheType,
      LoaderType, ControlType, LocalType, HistoryType, PC, Entry, Missing

\* Every step keeps the types: one step per action, under it one per group of variables.
LEMMA TypeNext ==
  ASSUME TypeOK, StoreNext
  PROVE  TypeOK'
<1> USE DEF TypeOK, args, locals, db, history
<1>1. ASSUME NEW p \in Proc, Turn(p) PROVE TypeOK'
  <2>1. TableType'
    BY <1>1 DEF TableType, Turn
  <2>2. CacheType'
    BY <1>1 DEF CacheType, Turn
  <2>3. LoaderType'
    BY <1>1 DEF LoaderType, Turn
  <2>4. ControlType'
    BY <1>1 DEF TableType, ControlType, PC, Turn, Enter
  <2>5. LocalType'
    BY <1>1 DEF LocalType, Turn, Enter
  <2>6. HistoryType'
    BY <1>1, BoundAssumption DEF HistoryType, TableType, Turn, MayFail, Fault, Enter
  <2> QED
    BY <2>1, <2>2, <2>3, <2>4, <2>5, <2>6
<1>2. ASSUME Elsewhere PROVE TypeOK'
  <2>1. TableType'
    BY <1>2 DEF TableType, Elsewhere
  <2>2. CacheType'
    BY <1>2 DEF CacheType, Elsewhere
  <2>3. LoaderType'
    BY <1>2 DEF LoaderType, Elsewhere
  <2>4. ControlType'
    BY <1>2 DEF ControlType, PC, Elsewhere
  <2>5. LocalType'
    BY <1>2 DEF LocalType, Elsewhere
  <2>6. HistoryType'
    BY <1>2, BoundAssumption DEF HistoryType, Elsewhere, MayFail, Fault
  <2> QED
    BY <2>1, <2>2, <2>3, <2>4, <2>5, <2>6
<1>3. ASSUME NEW p \in Proc, CacheGet(p) PROVE TypeOK'
  <2>1. TableType'
    BY <1>3 DEF TableType, CacheGet
  <2>2. CacheType'
    BY <1>3 DEF CacheType, CacheGet
  <2>3. LoaderType'
    BY <1>3 DEF LoaderType, CacheGet
  <2>4. ControlType'
    BY <1>3 DEF ControlType, PC, CacheGet, Goto
  <2>5. LocalType'
    BY <1>3 DEF TableType, LocalType, CacheType, Entry, ControlType, CacheGet, Result
  <2>6. HistoryType'
    BY <1>3, BoundAssumption DEF HistoryType, TableType, ControlType, CacheGet,
        CacheFault, Fault
  <2> QED
    BY <2>1, <2>2, <2>3, <2>4, <2>5, <2>6
<1>4. ASSUME NEW p \in Proc, LoadDo(p) PROVE TypeOK'
  <2>1. TableType'
    BY <1>4 DEF TableType, LoadDo
  <2>2. CacheType'
    BY <1>4 DEF CacheType, LoadDo
  <2>3. LoaderType'
    <3>1. dev[p] \in Device /\ Home[p] \in Instance
      BY <1>4, HomeAssumption DEF ControlType, TableType, LoadDo
    <3> QED
      BY <1>4, <3>1 DEF LoaderType, LoadDo
  <2>4. ControlType'
    BY <1>4 DEF ControlType, PC, LoadDo, Goto
  <2>5. LocalType'
    BY <1>4 DEF LocalType, LoadDo
  <2>6. HistoryType'
    BY <1>4, BoundAssumption DEF HistoryType, LoadDo
  <2> QED
    BY <2>1, <2>2, <2>3, <2>4, <2>5, <2>6
<1>5. ASSUME NEW p \in Proc, LoadQuery(p) PROVE TypeOK'
  <2>1. TableType'
    BY <1>5 DEF TableType, LoadQuery
  <2>2. CacheType'
    BY <1>5 DEF CacheType, LoadQuery
  <2>3. LoaderType'
    BY <1>5 DEF LoaderType, LoadQuery
  <2>4. ControlType'
    BY <1>5 DEF ControlType, PC, LoadQuery, Goto
  <2>5. LocalType'
    BY <1>5 DEF TableType, LocalType, LoadQuery, Result
  <2>6. HistoryType'
    BY <1>5, BoundAssumption DEF HistoryType, LoadQuery, Fault
  <2> QED
    BY <2>1, <2>2, <2>3, <2>4, <2>5, <2>6
<1>6. ASSUME NEW p \in Proc, LoadSet(p) PROVE TypeOK'
  <2>1. TableType'
    BY <1>6 DEF TableType, LoadSet
  <2>2. CacheType'
    BY <1>6 DEF CacheType, Entry, LocalType, LoadSet, SetSecret, Secret
  <2>3. LoaderType'
    BY <1>6 DEF LoaderType, LoadSet
  <2>4. ControlType'
    BY <1>6 DEF ControlType, PC, LoadSet, Goto
  <2>5. LocalType'
    BY <1>6 DEF LocalType, LoadSet, Result
  <2>6. HistoryType'
    BY <1>6, BoundAssumption DEF HistoryType, LoadSet, Writes, Overtaken, CacheFault,
        Fault
  <2> QED
    BY <2>1, <2>2, <2>3, <2>4, <2>5, <2>6
<1>7. ASSUME NEW p \in Proc, LoadReturn(p) PROVE TypeOK'
  <2>1. TableType'
    BY <1>7 DEF TableType, LoadReturn
  <2>2. CacheType'
    BY <1>7 DEF CacheType, LoadReturn
  <2>3. LoaderType'
    BY <1>7, HomeAssumption DEF LoaderType, LoadReturn
  <2>4. ControlType'
    BY <1>7 DEF ControlType, PC, LoadReturn, Waiters
  <2>5. LocalType'
    BY <1>7 DEF LocalType, LoadReturn, Waiters
  <2>6. HistoryType'
    BY <1>7, BoundAssumption DEF HistoryType, LoadReturn
  <2> QED
    BY <2>1, <2>2, <2>3, <2>4, <2>5, <2>6
<1>8. ASSUME NEW p \in Proc, Bump(p) PROVE TypeOK'
  <2>1. TableType'
    BY <1>8 DEF TableType, Bump
  <2>2. CacheType'
    BY <1>8 DEF CacheType, Bump
  <2>3. LoaderType'
    BY <1>8 DEF LoaderType, Bump
  <2>4. ControlType'
    BY <1>8 DEF ControlType, PC, Bump, Goto
  <2>5. LocalType'
    BY <1>8 DEF TableType, LocalType, Bump, Result
  <2>6. HistoryType'
    BY <1>8, BoundAssumption DEF HistoryType, TableType, Bump, Fault
  <2> QED
    BY <2>1, <2>2, <2>3, <2>4, <2>5, <2>6
<1>9. ASSUME NEW p \in Proc, Peek(p) PROVE TypeOK'
  <2>1. TableType'
    BY <1>9 DEF TableType, Peek
  <2>2. CacheType'
    BY <1>9 DEF CacheType, Peek
  <2>3. LoaderType'
    BY <1>9 DEF LoaderType, Peek
  <2>4. ControlType'
    BY <1>9 DEF ControlType, PC, Peek, Goto
  <2>5. LocalType'
    BY <1>9 DEF TableType, LocalType, CacheType, Entry, ControlType, Peek
  <2>6. HistoryType'
    BY <1>9, BoundAssumption DEF HistoryType, Peek, CacheFault, Fault
  <2> QED
    BY <2>1, <2>2, <2>3, <2>4, <2>5, <2>6
<1>10. ASSUME NEW p \in Proc, Reread(p) PROVE TypeOK'
  <2>1. TableType'
    BY <1>10 DEF TableType, Reread
  <2>2. CacheType'
    BY <1>10 DEF CacheType, Reread
  <2>3. LoaderType'
    BY <1>10 DEF LoaderType, Reread
  <2>4. ControlType'
    BY <1>10 DEF ControlType, PC, Reread, Goto
  <2>5. LocalType'
    BY <1>10 DEF TableType, LocalType, Reread, Result
  <2>6. HistoryType'
    BY <1>10, BoundAssumption DEF HistoryType, TableType, ControlType, LocalType,
        Reread, Settle, Fault
  <2> QED
    BY <2>1, <2>2, <2>3, <2>4, <2>5, <2>6
<1>11. ASSUME NEW p \in Proc, Publish(p) PROVE TypeOK'
  <2>1. TableType'
    BY <1>11 DEF TableType, Publish
  <2>2. CacheType'
    BY <1>11 DEF CacheType, Entry, LocalType, Publish, SetSecret, Secret
  <2>3. LoaderType'
    BY <1>11 DEF LoaderType, Publish
  <2>4. ControlType'
    BY <1>11 DEF ControlType, PC, Publish, Goto
  <2>5. LocalType'
    BY <1>11 DEF LocalType, Publish, Result
  <2>6. HistoryType'
    BY <1>11, BoundAssumption DEF HistoryType, TableType, ControlType, LocalType,
        Publish, Writes, Overtaken, Settle, CacheFault, Fault
  <2> QED
    BY <2>1, <2>2, <2>3, <2>4, <2>5, <2>6
<1>12. ASSUME NEW p \in Proc, DeleteDevice(p) PROVE TypeOK'
  <2>1. TableType'
    BY <1>12 DEF TableType, DeleteDevice, DeleteRows, Owned
  <2>2. CacheType'
    BY <1>12 DEF CacheType, DeleteDevice, DeleteRows
  <2>3. LoaderType'
    BY <1>12 DEF LoaderType, DeleteDevice, DeleteRows
  <2>4. ControlType'
    BY <1>12 DEF ControlType, PC, DeleteDevice, DeleteRows, Goto
  <2>5. LocalType'
    <3>1. dev[p] \in issued
      BY <1>12 DEF ControlType, DeleteDevice
    <3> QED
      BY <1>12, <3>1 DEF LocalType, DeleteDevice, DeleteRows, Result
  <2>6. HistoryType'
    BY <1>12, BoundAssumption DEF HistoryType, TableType, DeleteDevice, DeleteRows,
        Owned, Fault
  <2> QED
    BY <2>1, <2>2, <2>3, <2>4, <2>5, <2>6
<1>13. ASSUME NEW p \in Proc, DeleteAllDevices(p) PROVE TypeOK'
  <2>1. TableType'
    BY <1>13 DEF TableType, DeleteAllDevices, DeleteRows, Owned
  <2>2. CacheType'
    BY <1>13 DEF CacheType, DeleteAllDevices, DeleteRows
  <2>3. LoaderType'
    BY <1>13 DEF LoaderType, DeleteAllDevices, DeleteRows
  <2>4. ControlType'
    BY <1>13 DEF ControlType, PC, DeleteAllDevices, DeleteRows, Goto
  <2>5. LocalType'
    BY <1>13 DEF TableType, LocalType, DeleteAllDevices, DeleteRows, Owned, Result
  <2>6. HistoryType'
    BY <1>13, BoundAssumption DEF HistoryType, DeleteAllDevices, DeleteRows, Owned,
        Fault
  <2> QED
    BY <2>1, <2>2, <2>3, <2>4, <2>5, <2>6
<1>14. ASSUME NEW p \in Proc, Bury(p) PROVE TypeOK'
  <2>1. TableType'
    BY <1>14 DEF TableType, Bury
  <2>2. CacheType'
    BY <1>14 DEF CacheType, Entry, Bury, DeleteSecret, Deleted
  <2>3. LoaderType'
    BY <1>14 DEF LoaderType, Bury
  <2>4. ControlType'
    BY <1>14 DEF ControlType, PC, Bury, Goto
  <2>5. LocalType'
    BY <1>14 DEF LocalType, Bury, Result
  <2>6. HistoryType'
    BY <1>14, BoundAssumption DEF HistoryType, TableType, LocalType, Bury, Overtaken,
        CacheFault, Fault
  <2> QED
    BY <2>1, <2>2, <2>3, <2>4, <2>5, <2>6
<1>15. ASSUME NEW d \in Device, NEW u \in User, SaveDeviceSecret(d, u) PROVE TypeOK'
  <2>1. TableType'
    BY <1>15 DEF TableType, SaveDeviceSecret
  <2>2. CacheType'
    BY <1>15 DEF CacheType, SaveDeviceSecret
  <2>3. LoaderType'
    BY <1>15 DEF LoaderType, SaveDeviceSecret
  <2>4. ControlType'
    BY <1>15 DEF ControlType, PC, SaveDeviceSecret
  <2>5. LocalType'
    BY <1>15 DEF LocalType, SaveDeviceSecret
  <2>6. HistoryType'
    BY <1>15, BoundAssumption DEF HistoryType, SaveDeviceSecret
  <2> QED
    BY <2>1, <2>2, <2>3, <2>4, <2>5, <2>6
<1>16. ASSUME NEW u \in User, CreateUser(u) PROVE TypeOK'
  <2>1. TableType'
    BY <1>16 DEF TableType, CreateUser
  <2>2. CacheType'
    BY <1>16 DEF CacheType, CreateUser
  <2>3. LoaderType'
    BY <1>16 DEF LoaderType, CreateUser
  <2>4. ControlType'
    BY <1>16 DEF ControlType, PC, CreateUser
  <2>5. LocalType'
    BY <1>16 DEF LocalType, CreateUser
  <2>6. HistoryType'
    BY <1>16, BoundAssumption DEF HistoryType, CreateUser
  <2> QED
    BY <2>1, <2>2, <2>3, <2>4, <2>5, <2>6
<1>17. ASSUME NEW u \in User, DeleteUser(u), MayFail PROVE TypeOK'
  <2>1. TableType'
    BY <1>17 DEF TableType, DeleteUser, Owned
  <2>2. CacheType'
    BY <1>17 DEF CacheType, DeleteUser
  <2>3. LoaderType'
    BY <1>17 DEF LoaderType, DeleteUser
  <2>4. ControlType'
    BY <1>17 DEF ControlType, PC, DeleteUser
  <2>5. LocalType'
    BY <1>17 DEF LocalType, DeleteUser, Owned
  <2>6. HistoryType'
    BY <1>17, BoundAssumption DEF HistoryType, DeleteUser, Owned, MayFail, Fault
  <2> QED
    BY <2>1, <2>2, <2>3, <2>4, <2>5, <2>6
<1>18. ASSUME NEW u \in User, NEW v \in User, ChangeEmail(u, v), Fault PROVE TypeOK'
  <2>1. TableType'
    BY <1>18 DEF TableType, ChangeEmail
  <2>2. CacheType'
    BY <1>18 DEF CacheType, ChangeEmail
  <2>3. LoaderType'
    BY <1>18 DEF LoaderType, ChangeEmail
  <2>4. ControlType'
    BY <1>18 DEF ControlType, PC, ChangeEmail
  <2>5. LocalType'
    BY <1>18 DEF LocalType, ChangeEmail
  <2>6. HistoryType'
    BY <1>18, BoundAssumption DEF HistoryType, ChangeEmail, Fault
  <2> QED
    BY <2>1, <2>2, <2>3, <2>4, <2>5, <2>6
<1>19. ASSUME CleanupOldDevices, Fault PROVE TypeOK'
  <2>1. TableType'
    BY <1>19 DEF TableType, CleanupOldDevices
  <2>2. CacheType'
    BY <1>19 DEF CacheType, CleanupOldDevices
  <2>3. LoaderType'
    BY <1>19 DEF LoaderType, CleanupOldDevices
  <2>4. ControlType'
    BY <1>19 DEF ControlType, PC, CleanupOldDevices
  <2>5. LocalType'
    BY <1>19 DEF LocalType, CleanupOldDevices
  <2>6. HistoryType'
    BY <1>19, BoundAssumption DEF HistoryType, TableType, CleanupOldDevices, Fault
  <2> QED
    BY <2>1, <2>2, <2>3, <2>4, <2>5, <2>6
<1>20. ASSUME NEW d \in Device, Expire(d) PROVE TypeOK'
  <2>1. TableType'
    BY <1>20 DEF TableType, Expire
  <2>2. CacheType'
    BY <1>20 DEF CacheType, Entry, Expire, Missing
  <2>3. LoaderType'
    BY <1>20 DEF LoaderType, Expire
  <2>4. ControlType'
    BY <1>20 DEF ControlType, PC, Expire
  <2>5. LocalType'
    BY <1>20 DEF LocalType, Expire
  <2>6. HistoryType'
    BY <1>20, BoundAssumption DEF HistoryType, Expire
  <2> QED
    BY <2>1, <2>2, <2>3, <2>4, <2>5, <2>6
<1>21. ASSUME NEW d \in Device, Evict(d) PROVE TypeOK'
  <2>1. TableType'
    BY <1>21 DEF TableType, Evict
  <2>2. CacheType'
    BY <1>21 DEF CacheType, Entry, Evict, Missing
  <2>3. LoaderType'
    BY <1>21 DEF LoaderType, Evict
  <2>4. ControlType'
    BY <1>21 DEF ControlType, PC, Evict
  <2>5. LocalType'
    BY <1>21 DEF LocalType, Evict
  <2>6. HistoryType'
    BY <1>21, BoundAssumption DEF HistoryType, Evict, Fault
  <2> QED
    BY <2>1, <2>2, <2>3, <2>4, <2>5, <2>6
<1>22. ASSUME NEW i \in Instance, Crash(i) PROVE TypeOK'
  <2>1. TableType'
    BY <1>22 DEF TableType, Crash
  <2>2. CacheType'
    BY <1>22 DEF CacheType, Entry, Crash, Missing
  <2>3. LoaderType'
    BY <1>22, HomeAssumption DEF LoaderType, Crash
  <2>4. ControlType'
    BY <1>22 DEF ControlType, PC, Crash, Enter
  <2>5. LocalType'
    BY <1>22 DEF LocalType, Crash, Enter
  <2>6. HistoryType'
    BY <1>22, BoundAssumption DEF HistoryType, Crash, Enter, Fault
  <2> QED
    BY <2>1, <2>2, <2>3, <2>4, <2>5, <2>6
<1> QED
  BY <1>1, <1>2, <1>3, <1>4, <1>5, <1>6, <1>7, <1>8, <1>9, <1>10, <1>11, <1>12, <1>13,
     <1>14, <1>15, <1>16, <1>17, <1>18, <1>19, <1>20, <1>21, <1>22
     DEF StoreNext, Step, Outside, MayFail, TypeOK, TableType

\* A step writes into the cache only generations that the row has had.
LEMMA CacheNotAheadNext ==
  ASSUME TypeOK, CacheNotAhead, GenerationsKnown, StoreNext
  PROVE  CacheNotAhead'
<1> USE DEF TypeOK, args, locals, db, history
<1>1. ASSUME NEW p \in Proc, Turn(p) PROVE CacheNotAhead'
  BY <1>1 DEF CacheNotAhead, GenerationsKnown, Known, Hit, PastUpdate, Turn
<1>2. ASSUME Elsewhere PROVE CacheNotAhead'
  BY <1>2 DEF CacheNotAhead, GenerationsKnown, Known, Hit, PastUpdate, Elsewhere
<1>3. ASSUME NEW p \in Proc, CacheGet(p) PROVE CacheNotAhead'
  BY <1>3 DEF CacheNotAhead, GenerationsKnown, Known, Hit, PastUpdate, CacheGet
<1>4. ASSUME NEW p \in Proc, LoadDo(p) PROVE CacheNotAhead'
  BY <1>4 DEF CacheNotAhead, GenerationsKnown, Known, Hit, PastUpdate, LoadDo
<1>5. ASSUME NEW p \in Proc, LoadQuery(p) PROVE CacheNotAhead'
  BY <1>5 DEF CacheNotAhead, GenerationsKnown, Known, Hit, PastUpdate, LoadQuery
<1>6. ASSUME NEW p \in Proc, LoadSet(p) PROVE CacheNotAhead'
  BY <1>6 DEF CacheType, ControlType, LocalType, CacheNotAhead, GenerationsKnown,
      Known, Hit, PastUpdate, Secret, LoadSet, SetSecret
<1>7. ASSUME NEW p \in Proc, LoadReturn(p) PROVE CacheNotAhead'
  BY <1>7 DEF CacheNotAhead, GenerationsKnown, Known, Hit, PastUpdate, LoadReturn
<1>8. ASSUME NEW p \in Proc, Bump(p) PROVE CacheNotAhead'
  BY <1>8 DEF TableType, CacheNotAhead, GenerationsKnown, Known, Hit, PastUpdate, Bump
<1>9. ASSUME NEW p \in Proc, Peek(p) PROVE CacheNotAhead'
  BY <1>9 DEF CacheNotAhead, GenerationsKnown, Known, Hit, PastUpdate, Peek
<1>10. ASSUME NEW p \in Proc, Reread(p) PROVE CacheNotAhead'
  BY <1>10 DEF CacheNotAhead, GenerationsKnown, Known, Hit, PastUpdate, Reread
<1>11. ASSUME NEW p \in Proc, Publish(p) PROVE CacheNotAhead'
  <2> DEFINE g == IF val[p] > new[p] THEN val[p] ELSE new[p]
  <2>1. dev[p] \in issued /\ dev[p] \in Device /\ g \in 1..gen[dev[p]]
    BY <1>11 DEF Publish, TableType, ControlType, GenerationsKnown, Known, PastUpdate
  <2>2. gen' = gen /\ issued' = issued /\ (cache' = cache \/ cache' = [cache EXCEPT ![dev[p]] = Secret(g)])
    BY <1>11 DEF Publish, SetSecret, db
  <2> HIDE DEF g
  <2> QED
    BY <2>1, <2>2 DEF CacheNotAhead, Hit, CacheType, Secret
<1>12. ASSUME NEW p \in Proc, DeleteDevice(p) PROVE CacheNotAhead'
  BY <1>12 DEF CacheNotAhead, GenerationsKnown, Known, Hit, PastUpdate, Secret,
      DeleteDevice, DeleteRows
<1>13. ASSUME NEW p \in Proc, DeleteAllDevices(p) PROVE CacheNotAhead'
  BY <1>13 DEF CacheNotAhead, GenerationsKnown, Known, Hit, PastUpdate, Secret,
      DeleteAllDevices, DeleteRows
<1>14. ASSUME NEW p \in Proc, Bury(p) PROVE CacheNotAhead'
  <2>1. PICK e \in ids[p] : cache' = DeleteSecret(e) \/ cache' = cache
    BY <1>14 DEF Bury
  <2>2. ASSUME NEW d \in Device, Hit(d)' PROVE Hit(d) /\ cache'[d] = cache[d]
    BY <2>1, <2>2 DEF DeleteSecret, Deleted, Hit, CacheType
  <2> QED
    BY <1>14, <2>2 DEF Bury, CacheNotAhead
<1>15. ASSUME NEW d \in Device, NEW u \in User, SaveDeviceSecret(d, u) PROVE CacheNotAhead'
  BY <1>15 DEF CacheNotAhead, GenerationsKnown, Known, Hit, PastUpdate, Secret,
      SaveDeviceSecret
<1>16. ASSUME NEW u \in User, CreateUser(u) PROVE CacheNotAhead'
  BY <1>16 DEF CacheNotAhead, GenerationsKnown, Known, Hit, PastUpdate, Secret,
      CreateUser
<1>17. ASSUME NEW u \in User, DeleteUser(u) PROVE CacheNotAhead'
  BY <1>17 DEF CacheNotAhead, GenerationsKnown, Known, Hit, PastUpdate, Secret,
      DeleteUser
<1>18. ASSUME NEW u \in User, NEW v \in User, ChangeEmail(u, v) PROVE CacheNotAhead'
  BY <1>18 DEF CacheNotAhead, GenerationsKnown, Known, Hit, PastUpdate, Secret,
      ChangeEmail
<1>19. ASSUME CleanupOldDevices PROVE CacheNotAhead'
  BY <1>19 DEF CacheNotAhead, GenerationsKnown, Known, Hit, PastUpdate, Secret,
      CleanupOldDevices
<1>20. ASSUME NEW d \in Device, Expire(d) PROVE CacheNotAhead'
  BY <1>20 DEF CacheNotAhead, GenerationsKnown, Known, Hit, PastUpdate, Secret,
      Missing, Expire
<1>21. ASSUME NEW d \in Device, Evict(d) PROVE CacheNotAhead'
  BY <1>21 DEF CacheNotAhead, GenerationsKnown, Known, Hit, PastUpdate, Secret,
      Missing, Evict
<1>22. ASSUME NEW i \in Instance, Crash(i) PROVE CacheNotAhead'
  BY <1>22, NoneAssumption DEF CacheNotAhead, GenerationsKnown, Known, Hit, PastUpdate,
      Secret, Missing, Crash
<1> QED
  BY <1>1, <1>2, <1>3, <1>4, <1>5, <1>6, <1>7, <1>8, <1>9, <1>10, <1>11, <1>12, <1>13,
     <1>14, <1>15, <1>16, <1>17, <1>18, <1>19, <1>20, <1>21, <1>22
     DEF StoreNext, Step, Outside, TypeOK, TableType

\* The generations that calls carry are generations the row has had.
LEMMA GenerationsKnownNext ==
  ASSUME TypeOK, CacheNotAhead, GenerationsKnown, StoreNext
  PROVE  GenerationsKnown'
<1> USE DEF TypeOK, args, locals, db, history
<1>1. ASSUME NEW p \in Proc, Turn(p) PROVE GenerationsKnown'
  BY <1>1 DEF CacheNotAhead, GenerationsKnown, Known, PastUpdate, Turn, Enter
<1>2. ASSUME Elsewhere PROVE GenerationsKnown'
  BY <1>2 DEF CacheNotAhead, GenerationsKnown, Known, PastUpdate, Elsewhere
<1>3. ASSUME NEW p \in Proc, CacheGet(p) PROVE GenerationsKnown'
  BY <1>3 DEF ControlType, LocalType, CacheNotAhead, GenerationsKnown, Known,
      PastUpdate, CacheGet, Goto
<1>4. ASSUME NEW p \in Proc, LoadDo(p) PROVE GenerationsKnown'
  BY <1>4 DEF ControlType, CacheNotAhead, GenerationsKnown, Known, PastUpdate, LoadDo,
      Goto
<1>5. ASSUME NEW p \in Proc, LoadQuery(p) PROVE GenerationsKnown'
  BY <1>5 DEF TableType, ControlType, LocalType, CacheNotAhead, GenerationsKnown,
      Known, PastUpdate, LoadQuery, Goto
<1>6. ASSUME NEW p \in Proc, LoadSet(p) PROVE GenerationsKnown'
  BY <1>6 DEF CacheNotAhead, GenerationsKnown, Known, PastUpdate, LoadSet, Goto
<1>7. ASSUME NEW p \in Proc, LoadReturn(p) PROVE GenerationsKnown'
  BY <1>7 DEF CacheNotAhead, GenerationsKnown, Known, PastUpdate, LoadReturn, Waiters
<1>8. ASSUME NEW p \in Proc, Bump(p) PROVE GenerationsKnown'
  BY <1>8 DEF TableType, ControlType, LocalType, CacheNotAhead, GenerationsKnown,
      Known, PastUpdate, Bump, Goto
<1>9. ASSUME NEW p \in Proc, Peek(p) PROVE GenerationsKnown'
  BY <1>9 DEF TableType, ControlType, LocalType, CacheNotAhead, GenerationsKnown,
      Known, PastUpdate, Peek, Goto
<1>10. ASSUME NEW p \in Proc, Reread(p) PROVE GenerationsKnown'
  BY <1>10 DEF TableType, ControlType, LocalType, CacheNotAhead, GenerationsKnown,
      Known, PastUpdate, Reread, Goto
<1>11. ASSUME NEW p \in Proc, Publish(p) PROVE GenerationsKnown'
  BY <1>11 DEF CacheNotAhead, GenerationsKnown, Known, PastUpdate, Publish, Goto
<1>12. ASSUME NEW p \in Proc, DeleteDevice(p) PROVE GenerationsKnown'
  BY <1>12 DEF ControlType, CacheNotAhead, GenerationsKnown, Known, PastUpdate,
      DeleteDevice, DeleteRows, Goto
<1>13. ASSUME NEW p \in Proc, DeleteAllDevices(p) PROVE GenerationsKnown'
  BY <1>13 DEF ControlType, CacheNotAhead, GenerationsKnown, Known, PastUpdate,
      DeleteAllDevices, DeleteRows, Goto
<1>14. ASSUME NEW p \in Proc, Bury(p) PROVE GenerationsKnown'
  BY <1>14 DEF ControlType, CacheNotAhead, GenerationsKnown, Known, PastUpdate, Bury,
      Goto
<1>15. ASSUME NEW d \in Device, NEW u \in User, SaveDeviceSecret(d, u) PROVE GenerationsKnown'
  BY <1>15 DEF TableType, ControlType, CacheNotAhead, GenerationsKnown, Known,
      PastUpdate, SaveDeviceSecret
<1>16. ASSUME NEW u \in User, CreateUser(u) PROVE GenerationsKnown'
  BY <1>16 DEF CacheNotAhead, GenerationsKnown, Known, PastUpdate, CreateUser
<1>17. ASSUME NEW u \in User, DeleteUser(u) PROVE GenerationsKnown'
  BY <1>17 DEF CacheNotAhead, GenerationsKnown, Known, PastUpdate, DeleteUser
<1>18. ASSUME NEW u \in User, NEW v \in User, ChangeEmail(u, v) PROVE GenerationsKnown'
  BY <1>18 DEF CacheNotAhead, GenerationsKnown, Known, PastUpdate, ChangeEmail
<1>19. ASSUME CleanupOldDevices PROVE GenerationsKnown'
  BY <1>19 DEF CacheNotAhead, GenerationsKnown, Known, PastUpdate, CleanupOldDevices
<1>20. ASSUME NEW d \in Device, Expire(d) PROVE GenerationsKnown'
  BY <1>20 DEF CacheNotAhead, GenerationsKnown, Known, PastUpdate, Expire
<1>21. ASSUME NEW d \in Device, Evict(d) PROVE GenerationsKnown'
  BY <1>21 DEF CacheNotAhead, GenerationsKnown, Known, PastUpdate, Evict
<1>22. ASSUME NEW i \in Instance, Crash(i) PROVE GenerationsKnown'
  BY <1>22, NoneAssumption DEF CacheNotAhead, GenerationsKnown, Known, PastUpdate,
      Crash, Enter
<1> QED
  BY <1>1, <1>2, <1>3, <1>4, <1>5, <1>6, <1>7, <1>8, <1>9, <1>10, <1>11, <1>12, <1>13,
     <1>14, <1>15, <1>16, <1>17, <1>18, <1>19, <1>20, <1>21, <1>22
     DEF StoreNext, Step, Outside, TypeOK, TableType

\* A buried device keeps its tombstone as long as an older load or update is under way.
LEMMA TombstoneHoldsNext ==
  ASSUME TypeOK, TombstoneHolds, StoreNext
  PROVE  TombstoneHolds'
<1> USE DEF TypeOK, args, locals, db, history
<1>1. ASSUME NEW p \in Proc, Turn(p) PROVE TombstoneHolds'
  BY <1>1 DEF TombstoneHolds, Turn, Enter
<1>2. ASSUME Elsewhere PROVE TombstoneHolds'
  BY <1>2 DEF TombstoneHolds, Elsewhere
<1>3. ASSUME NEW p \in Proc, CacheGet(p) PROVE TombstoneHolds'
  BY <1>3 DEF ControlType, TombstoneHolds, CacheGet, Goto
<1>4. ASSUME NEW p \in Proc, LoadDo(p) PROVE TombstoneHolds'
  BY <1>4 DEF ControlType, TombstoneHolds, LoadDo, Goto
<1>5. ASSUME NEW p \in Proc, LoadQuery(p) PROVE TombstoneHolds'
  BY <1>5 DEF ControlType, TombstoneHolds, LoadQuery, Goto
<1>6. ASSUME NEW p \in Proc, LoadSet(p) PROVE TombstoneHolds'
  BY <1>6 DEF TableType, CacheType, TombstoneHolds, Writable, Secret, Holding, LoadSet,
      SetSecret, Writes, Overtaken, Goto
<1>7. ASSUME NEW p \in Proc, LoadReturn(p) PROVE TombstoneHolds'
  BY <1>7 DEF TombstoneHolds, LoadReturn, Waiters
<1>8. ASSUME NEW p \in Proc, Bump(p) PROVE TombstoneHolds'
  BY <1>8 DEF ControlType, TombstoneHolds, Bump, Goto
<1>9. ASSUME NEW p \in Proc, Peek(p) PROVE TombstoneHolds'
  BY <1>9 DEF ControlType, TombstoneHolds, Hit, Peek, Goto
<1>10. ASSUME NEW p \in Proc, Reread(p) PROVE TombstoneHolds'
  BY <1>10 DEF ControlType, TombstoneHolds, Reread, Goto
<1>11. ASSUME NEW p \in Proc, Publish(p) PROVE TombstoneHolds'
  BY <1>11 DEF TableType, ControlType, CacheType, TombstoneHolds, Writable, Secret,
      Holding, Publish, SetSecret, Writes, Overtaken, Goto
<1>12. ASSUME NEW p \in Proc, DeleteDevice(p) PROVE TombstoneHolds'
  BY <1>12 DEF ControlType, TombstoneHolds, DeleteDevice, DeleteRows, Owned, Goto
<1>13. ASSUME NEW p \in Proc, DeleteAllDevices(p) PROVE TombstoneHolds'
  BY <1>13 DEF ControlType, TombstoneHolds, DeleteAllDevices, DeleteRows, Owned, Goto
<1>14. ASSUME NEW p \in Proc, Bury(p) PROVE TombstoneHolds'
  BY <1>14 DEF TableType, ControlType, LocalType, CacheType, TombstoneHolds, Deleted,
      Holding, Bury, DeleteSecret, Overtaken, Goto
<1>15. ASSUME NEW d \in Device, NEW u \in User, SaveDeviceSecret(d, u) PROVE TombstoneHolds'
  BY <1>15 DEF TombstoneHolds, SaveDeviceSecret
<1>16. ASSUME NEW u \in User, CreateUser(u) PROVE TombstoneHolds'
  BY <1>16 DEF TombstoneHolds, CreateUser
<1>17. ASSUME NEW u \in User, DeleteUser(u) PROVE TombstoneHolds'
  BY <1>17 DEF TombstoneHolds, DeleteUser, Owned
<1>18. ASSUME NEW u \in User, NEW v \in User, ChangeEmail(u, v) PROVE TombstoneHolds'
  BY <1>18 DEF TombstoneHolds, ChangeEmail
<1>19. ASSUME CleanupOldDevices PROVE TombstoneHolds'
  BY <1>19 DEF TombstoneHolds, CleanupOldDevices
<1>20. ASSUME NEW d \in Device, Expire(d) PROVE TombstoneHolds'
  BY <1>20 DEF TombstoneHolds, Missing, Expire
<1>21. ASSUME NEW d \in Device, Evict(d) PROVE TombstoneHolds'
  BY <1>21 DEF TombstoneHolds, Missing, Evict
<1>22. ASSUME NEW i \in Instance, Crash(i) PROVE TombstoneHolds'
  BY <1>22, HomeAssumption, RedisAssumption DEF TableType, TombstoneHolds, Missing,
      Crash, Enter
<1> QED
  BY <1>1, <1>2, <1>3, <1>4, <1>5, <1>6, <1>7, <1>8, <1>9, <1>10, <1>11, <1>12, <1>13,
     <1>14, <1>15, <1>16, <1>17, <1>18, <1>19, <1>20, <1>21, <1>22
     DEF StoreNext, Step, Outside, TypeOK, TableType

\* A device whose row is gone is buried, or its deletion will bury it.
LEMMA DeadAreBuriedNext ==
  ASSUME TypeOK, CacheNotAhead, DeadAreBuried, StoreNext
  PROVE  DeadAreBuried'
<1> USE DEF TypeOK, args, locals, db, history
<1>1. ASSUME NEW p \in Proc, Turn(p) PROVE DeadAreBuried'
  BY <1>1 DEF DeadAreBuried, Burying, Turn, Enter
<1>2. ASSUME Elsewhere PROVE DeadAreBuried'
  BY <1>2 DEF DeadAreBuried, Burying, Elsewhere
<1>3. ASSUME NEW p \in Proc, CacheGet(p) PROVE DeadAreBuried'
  BY <1>3 DEF ControlType, DeadAreBuried, Burying, CacheGet, Goto
<1>4. ASSUME NEW p \in Proc, LoadDo(p) PROVE DeadAreBuried'
  BY <1>4 DEF ControlType, DeadAreBuried, Burying, LoadDo, Goto
<1>5. ASSUME NEW p \in Proc, LoadQuery(p) PROVE DeadAreBuried'
  BY <1>5 DEF ControlType, DeadAreBuried, Burying, LoadQuery, Goto
<1>6. ASSUME NEW p \in Proc, LoadSet(p) PROVE DeadAreBuried'
  <2>1. \A d \in Device : d # dev[p] => cache'[d] = cache[d]
    BY <1>6 DEF LoadSet, SetSecret, CacheType
  <2>2. \A d \in Device : cache'[d].kind = "deleted" => cache[d].kind = "deleted"
    BY <1>6 DEF LoadSet, SetSecret, Secret, CacheType
  <2>3. \A d \in Device : Burying(d) => Burying(d)'
    BY <1>6 DEF LoadSet, Goto, Burying
  <2>4. dev[p] \in issued /\ UNCHANGED <<rows, issued, buried, tainted>>
    BY <1>6 DEF LoadSet, ControlType
  <2> QED
    BY <2>1, <2>2, <2>3, <2>4 DEF DeadAreBuried, TableType
<1>7. ASSUME NEW p \in Proc, LoadReturn(p) PROVE DeadAreBuried'
  BY <1>7 DEF DeadAreBuried, Burying, LoadReturn, Waiters
<1>8. ASSUME NEW p \in Proc, Bump(p) PROVE DeadAreBuried'
  BY <1>8 DEF ControlType, DeadAreBuried, Burying, Bump, Goto
<1>9. ASSUME NEW p \in Proc, Peek(p) PROVE DeadAreBuried'
  BY <1>9 DEF ControlType, DeadAreBuried, Burying, Peek, Goto
<1>10. ASSUME NEW p \in Proc, Reread(p) PROVE DeadAreBuried'
  BY <1>10 DEF ControlType, DeadAreBuried, Burying, Reread, Goto
<1>11. ASSUME NEW p \in Proc, Publish(p) PROVE DeadAreBuried'
  <2>1. \A d \in Device : d # dev[p] => cache'[d] = cache[d]
    BY <1>11 DEF Publish, SetSecret, CacheType
  <2>2. \A d \in Device : cache'[d].kind = "deleted" => cache[d].kind = "deleted"
    BY <1>11 DEF Publish, SetSecret, Secret, CacheType
  <2>3. \A d \in Device : Burying(d) => Burying(d)'
    BY <1>11 DEF Publish, Goto, Burying
  <2>4. dev[p] \in issued /\ tainted \subseteq tainted' /\ UNCHANGED <<rows, issued, buried>>
    BY <1>11 DEF Publish, ControlType
  <2> QED
    BY <2>1, <2>2, <2>3, <2>4 DEF DeadAreBuried, TableType
<1>12. ASSUME NEW p \in Proc, DeleteDevice(p) PROVE DeadAreBuried'
  BY <1>12 DEF ControlType, LocalType, DeadAreBuried, Burying, DeleteDevice,
      DeleteRows, Owned, Goto
<1>13. ASSUME NEW p \in Proc, DeleteAllDevices(p) PROVE DeadAreBuried'
  BY <1>13 DEF ControlType, LocalType, DeadAreBuried, Burying, DeleteAllDevices,
      DeleteRows, Owned, Goto
<1>14. ASSUME NEW p \in Proc, Bury(p) PROVE DeadAreBuried'
  <2>1. PICK e \in ids[p] :
          /\ ids' = [ids EXCEPT ![p] = @ \ {e}]
          /\ \/ ids[p] = {e} /\ Goto(p, "deleted")
             \/ ids[p] # {e} /\ UNCHANGED pc
          /\ \/ /\ cache' = DeleteSecret(e)
                /\ buried' = IF e \in rows THEN buried ELSE buried \cup {e}
                /\ tainted' = IF e \in rows THEN tainted \cup {e} ELSE tainted
             \/ tainted' = tainted \cup {e} /\ UNCHANGED <<cache, buried>>
    BY <1>14 DEF Bury
  <2>2. e \in issued /\ UNCHANGED <<rows, issued>>
    BY <1>14, <2>1 DEF Bury, LocalType
  <2>3. \A d \in Device : d # e => cache'[d] = cache[d]
    BY <2>1 DEF DeleteSecret, CacheType
  <2>4. \A d \in Device \ issued : cache'[d].kind = "missing"
    BY <2>2, <2>3 DEF DeadAreBuried
  <2>5. \A d \in rows \ tainted' : cache'[d].kind # "deleted"
    BY <2>1, <2>2, <2>3 DEF DeadAreBuried, TableType
  <2>6. ASSUME NEW d \in issued, d \notin tainted', d \notin rows
        PROVE  Burying(d)' \/ d \in buried'
    <3>1. CASE d = e
      BY <2>1, <2>6, <3>1
    <3>2. CASE d # e
      <4>1. d \in buried => d \in buried'
        BY <2>1
      <4>2. Burying(d) => Burying(d)'
        BY <2>1, <3>2 DEF Burying, Goto, ControlType
      <4> QED
        BY <2>1, <2>6, <4>1, <4>2 DEF DeadAreBuried
    <3> QED
      BY <3>1, <3>2
  <2> QED
    BY <2>2, <2>4, <2>5, <2>6 DEF DeadAreBuried
<1>15. ASSUME NEW d \in Device, NEW u \in User, SaveDeviceSecret(d, u) PROVE DeadAreBuried'
  BY <1>15 DEF DeadAreBuried, Burying, SaveDeviceSecret
<1>16. ASSUME NEW u \in User, CreateUser(u) PROVE DeadAreBuried'
  BY <1>16 DEF DeadAreBuried, Burying, CreateUser
<1>17. ASSUME NEW u \in User, DeleteUser(u) PROVE DeadAreBuried'
  BY <1>17 DEF DeadAreBuried, Burying, DeleteUser, Owned
<1>18. ASSUME NEW u \in User, NEW v \in User, ChangeEmail(u, v) PROVE DeadAreBuried'
  BY <1>18 DEF DeadAreBuried, Burying, ChangeEmail
<1>19. ASSUME CleanupOldDevices PROVE DeadAreBuried'
  BY <1>19 DEF DeadAreBuried, Burying, CleanupOldDevices
<1>20. ASSUME NEW d \in Device, Expire(d) PROVE DeadAreBuried'
  BY <1>20 DEF DeadAreBuried, Burying, Missing, Expire
<1>21. ASSUME NEW d \in Device, Evict(d) PROVE DeadAreBuried'
  BY <1>21 DEF DeadAreBuried, Burying, Missing, Evict
<1>22. ASSUME NEW i \in Instance, Crash(i) PROVE DeadAreBuried'
  BY <1>22, NoneAssumption DEF TableType, DeadAreBuried, Burying, Missing, Crash, Enter
<1> QED
  BY <1>1, <1>2, <1>3, <1>4, <1>5, <1>6, <1>7, <1>8, <1>9, <1>10, <1>11, <1>12, <1>13,
     <1>14, <1>15, <1>16, <1>17, <1>18, <1>19, <1>20, <1>21, <1>22
     DEF StoreNext, Step, Outside, TypeOK, TableType

\* An update of d that is under way stays so if no step of its process ends it.
LEMMA PendingKept ==
  ASSUME NEW d, Pending(d), gen'[d] = gen[d],
         \A q \in Proc : dev[q] = d /\ pc[q] \in PastUpdate =>
             dev'[q] = d /\ pc'[q] \in PastUpdate /\ new'[q] = new[q]
  PROVE  Pending(d)'
  BY DEF Pending

\* A step that changes neither d's entry nor its generation, adds no laggard and ends
\* no update keeps d fresh.
LEMMA QuietFresh ==
  ASSUME NEW d, Fresh(d), cache'[d] = cache[d], gen'[d] = gen[d],
         \A q \in Proc : Lags(q, d)' => Lags(q, d) /\ (q \in aged => q \in aged'),
         \A q \in Proc : dev[q] = d /\ pc[q] \in PastUpdate =>
             dev'[q] = d /\ pc'[q] \in PastUpdate /\ new'[q] = new[q]
  PROVE  Fresh(d)'
<1>1. Pending(d) => Pending(d)'
  BY PendingKept
<1>2. Hit(d)' = Hit(d) /\ Current(d)' = Current(d)
  BY DEF Hit, Current
<1> QED
  BY <1>1, <1>2 DEF Fresh

\* A device that keeps its row stays fresh: the argument is the one of LoadSet, Peek
\* and Publish, where a generation enters the cache.
LEMMA FreshNext ==
  ASSUME TypeOK, CacheNotAhead, GenerationsKnown, DeadAreBuried, StaleIsTransient,
         StoreNext, NEW d \in rows', d \notin tainted', d \in rows, d \notin tainted
  PROVE  Fresh(d)'
<1>0. Fresh(d)
  BY DEF StaleIsTransient
<1>1. ASSUME NEW p \in Proc, Turn(p) PROVE Fresh(d)'
  BY <1>0, <1>1, QuietFresh DEF Turn, Enter, Lags, PastUpdate, db
<1>2. ASSUME Elsewhere PROVE Fresh(d)'
  BY <1>0, <1>2, QuietFresh DEF Elsewhere, Lags, PastUpdate, db, args, locals
<1>3. ASSUME NEW p \in Proc, CacheGet(p) PROVE Fresh(d)'
  BY <1>0, <1>3, QuietFresh DEF CacheGet, Goto, Lags, PastUpdate, db, args, TypeOK,
      ControlType, LocalType
<1>4. ASSUME NEW p \in Proc, LoadDo(p) PROVE Fresh(d)'
  BY <1>0, <1>4, QuietFresh DEF LoadDo, Goto, Lags, PastUpdate, db, args, locals,
      TypeOK, ControlType
<1>5. ASSUME NEW p \in Proc, LoadQuery(p) PROVE Fresh(d)'
  BY <1>0, <1>5, QuietFresh DEF LoadQuery, Goto, Lags, PastUpdate, db, args, TypeOK,
      ControlType, LocalType, TableType
<1>6. ASSUME NEW p \in Proc, LoadSet(p) PROVE Fresh(d)'
  <2>1. \A q \in Proc : dev[q] = d /\ pc[q] \in PastUpdate =>
           dev'[q] = d /\ pc'[q] \in PastUpdate /\ new'[q] = new[q]
    BY <1>6 DEF LoadSet, Goto, PastUpdate, args, TypeOK
  <2>2. \A q \in Proc : Lags(q, d)' => Lags(q, d) /\ q # p /\ (q \in aged => q \in aged')
    BY <1>6 DEF LoadSet, Goto, Lags, db, args, TypeOK, ControlType
  <2>3. CASE cache'[d] = cache[d]
    BY <1>0, <1>6, <2>1, <2>2, <2>3, QuietFresh DEF LoadSet, db
  <2>4. CASE cache'[d] # cache[d]
    <3>1. dev[p] = d /\ Writable(d, val[p]) /\ cache'[d] = Secret(val[p])
          /\ aged' = aged \cup Overtaken(d, p)
      BY <1>6, <2>4 DEF LoadSet, SetSecret, Writes, TypeOK, CacheType, TableType
    <3>2. Known(d, val[p]) /\ gen' = gen
      BY <1>6, <3>1 DEF GenerationsKnown, LoadSet, db
    <3>3. Pending(d) => Pending(d)'
      BY <2>1, <3>2, PendingKept
    <3>4. \A q \in Proc : Lags(q, d)' => q \in aged'
      BY <2>2, <3>1 DEF Overtaken, Holding, Lags
    <3>5. CASE val[p] = gen[d]
      BY <3>1, <3>2, <3>4, <3>5 DEF Fresh, Current, Hit, Secret
    <3>6. CASE val[p] < gen[d]
      <4>1. Lags(p, d)
        BY <1>6, <3>1, <3>6 DEF Lags, LoadSet
      <4>2. ~Current(d)
        BY <3>1, <3>6 DEF Current, Hit, Writable, TypeOK, TableType, LocalType
      <4> QED
        BY <1>0, <3>3, <3>4, <4>1, <4>2 DEF Fresh
    <3> QED
      BY <3>2, <3>5, <3>6 DEF Known, TypeOK, TableType
  <2> QED
    BY <2>3, <2>4
<1>7. ASSUME NEW p \in Proc, LoadReturn(p) PROVE Fresh(d)'
  BY <1>0, <1>7, QuietFresh DEF LoadReturn, Waiters, Lags, PastUpdate, db, args, TypeOK
<1>8. ASSUME NEW p \in Proc, Bump(p) PROVE Fresh(d)'
  <2>1. CASE dev[p] # d \/ UNCHANGED gen
    BY <1>0, <1>8, <2>1, QuietFresh DEF Bump, Goto, Lags, PastUpdate, args, TypeOK,
        ControlType, LocalType, TableType
  <2>2. CASE dev[p] = d /\ ~UNCHANGED gen
    <3>1. Pending(d)'
      BY <1>8, <2>2 DEF Bump, Goto, Pending, PastUpdate, args, TypeOK, ControlType,
          LocalType, TableType
    <3>2. ~Current(d)'
      BY <1>8, <2>2 DEF Bump, Current, Hit, CacheNotAhead, TypeOK, TableType
    <3> QED
      BY <3>1, <3>2 DEF Fresh
  <2> QED
    BY <2>1, <2>2
<1>9. ASSUME NEW p \in Proc, Peek(p) PROVE Fresh(d)'
  <2>1. \A q \in Proc : dev[q] = d /\ pc[q] \in PastUpdate =>
           dev'[q] = d /\ pc'[q] \in PastUpdate /\ new'[q] = new[q]
    BY <1>9 DEF Peek, Goto, PastUpdate, args, TypeOK, ControlType
  <2>2. gen' = gen /\ cache' = cache /\ aged' = aged
    BY <1>9 DEF Peek, db
  <2>3. Pending(d) => Pending(d)'
    BY <2>1, <2>2, PendingKept
  <2>4. \A q \in Proc : q # p /\ Lags(q, d)' => Lags(q, d)
    BY <1>9 DEF Peek, Goto, Lags, db, args, TypeOK, ControlType, LocalType
  <2>5. Lags(p, d)' => Hit(d) /\ ~Current(d)
    <3>1. Lags(p, d)' => Hit(d) /\ dev[p] = d /\ val'[p] = cache[d].gen /\ val'[p] < gen[d]
      BY <1>9, <2>2 DEF Peek, Goto, Lags, args, TypeOK, ControlType, LocalType
    <3> QED
      BY <3>1 DEF Current, TypeOK, TableType
  <2>6. Hit(d)' = Hit(d) /\ Current(d)' = Current(d)
    BY <2>2 DEF Hit, Current
  <2> QED
    BY <1>0, <2>2, <2>3, <2>4, <2>5, <2>6 DEF Fresh
<1>10. ASSUME NEW p \in Proc, Reread(p) PROVE Fresh(d)'
  <2>1. \A q \in Proc : Lags(q, d)' => Lags(q, d) /\ (q \in aged => q \in aged')
    BY <1>10 DEF Reread, Goto, Lags, db, args, TypeOK, ControlType, LocalType,
        TableType
  <2>2. \A q \in Proc : dev[q] = d /\ pc[q] \in PastUpdate =>
           dev'[q] = d /\ pc'[q] \in PastUpdate /\ new'[q] = new[q]
    BY <1>10 DEF Reread, Goto, PastUpdate, db, args, TypeOK, ControlType
  <2> QED
    BY <1>0, <1>10, <2>1, <2>2, QuietFresh DEF Reread, db
<1>11. ASSUME NEW p \in Proc, Publish(p) PROVE Fresh(d)'
  <2>1. \A q \in Proc : q # p /\ dev[q] = d /\ pc[q] \in PastUpdate =>
           dev'[q] = d /\ pc'[q] \in PastUpdate /\ new'[q] = new[q]
    BY <1>11 DEF Publish, Goto, PastUpdate, args, TypeOK
  <2>2. \A q \in Proc : Lags(q, d)' => Lags(q, d) /\ q # p /\ (q \in aged => q \in aged')
    BY <1>11 DEF Publish, Goto, Lags, db, args, TypeOK, ControlType
  <2>3. gen' = gen
    BY <1>11 DEF Publish, db
  <2>4. CASE dev[p] # d
    <3>1. cache'[d] = cache[d]
      BY <1>11, <2>4 DEF Publish, SetSecret, TypeOK, CacheType, TableType
    <3> QED
      BY <1>0, <2>1, <2>2, <2>3, <2>4, <3>1, QuietFresh
  <2>5. CASE dev[p] = d
    <3> DEFINE g == IF val[p] > new[p] THEN val[p] ELSE new[p]
    <3>1. cache' = SetSecret(d, g) /\ aged' = (aged \cup Writes(d, p, g)) \ {p}
      BY <1>11, <2>5 DEF Publish
    <3>2. pc[p] = "publish" /\ Known(d, val[p]) /\ Known(d, new[p])
      BY <1>11, <2>5 DEF Publish, GenerationsKnown, PastUpdate
    <3>3. g \in 1..gen[d] /\ new[p] <= g /\ val[p] <= g
      BY <3>2 DEF Known, TypeOK
    <3> HIDE DEF g
    <3>4. cache[d].kind # "deleted" /\ d \in Device /\ cache[d] \in Entry
      BY DEF DeadAreBuried, TypeOK, TableType, CacheType
    <3>5. CASE g = gen[d]
      <4>1. Current(d)'
        <5>1. CASE Writable(d, g)
          BY <2>3, <3>1, <3>4, <3>5, <5>1 DEF Current, Hit, SetSecret, Secret, TypeOK,
              CacheType
        <5>2. CASE ~Writable(d, g)
          <6>1. cache[d].kind = "secret" /\ ~(cache[d].gen < gen[d])
            BY <3>4, <3>5, <5>2 DEF Writable, Entry
          <6>2. cache[d].gen = gen[d]
            BY <3>4, <6>1 DEF CacheNotAhead, Hit, TypeOK, TableType
          <6> QED
            BY <2>3, <3>1, <5>2, <6>1, <6>2 DEF Current, Hit, SetSecret
        <5> QED
          BY <5>1, <5>2
      <4>2. ASSUME NEW q \in Proc, Lags(q, d)' PROVE q \in aged'
        <5>1. CASE Writable(d, g)
          BY <2>2, <3>1, <4>2, <5>1 DEF Writes, Overtaken, Holding, Lags
        <5>2. CASE ~Writable(d, g)
          <6>1. Current(d)
            BY <2>3, <3>1, <4>1, <5>2 DEF SetSecret, Current, Hit
          <6> QED
            BY <1>0, <2>2, <4>2, <6>1 DEF Fresh
        <5> QED
          BY <5>1, <5>2
      <4> QED
        BY <4>1, <4>2 DEF Fresh
    <3>6. CASE g # gen[d]
      <4>1. Lags(p, d)
        BY <2>5, <3>2, <3>3, <3>6 DEF Lags, TypeOK, LocalType, TableType
      <4>2. CASE Current(d)
        <5>1. cache' = cache
          BY <3>1, <3>3, <3>6, <4>2 DEF Current, Hit, SetSecret, Writable, TypeOK,
              TableType
        <5> QED
          BY <1>0, <2>2, <2>3, <4>2, <5>1 DEF Fresh, Current, Hit
      <4>3. CASE ~Current(d)
        <5>1. PICK q \in Proc : dev[q] = d /\ pc[q] \in PastUpdate /\ new[q] = gen[d]
          BY <1>0, <4>1, <4>3 DEF Fresh, Pending
        <5>2. q # p
          BY <3>3, <3>6, <5>1 DEF TypeOK, TableType
        <5>3. Pending(d)'
          BY <2>1, <2>3, <5>1, <5>2 DEF Pending
        <5>4. ~Current(d)'
          BY <2>3, <3>1, <3>6, <3>4, <4>3 DEF Current, Hit, SetSecret, Secret, TypeOK
        <5> QED
          BY <5>3, <5>4 DEF Fresh
      <4> QED
        BY <4>2, <4>3
    <3> QED
      BY <3>5, <3>6
  <2> QED
    BY <2>4, <2>5
<1>12. ASSUME NEW p \in Proc, DeleteDevice(p) PROVE Fresh(d)'
  BY <1>0, <1>12, QuietFresh DEF DeleteDevice, DeleteRows, Goto, Lags, PastUpdate,
      args, TypeOK, ControlType
<1>13. ASSUME NEW p \in Proc, DeleteAllDevices(p) PROVE Fresh(d)'
  BY <1>0, <1>13, QuietFresh DEF DeleteAllDevices, DeleteRows, Goto, Lags, PastUpdate,
      args, TypeOK, ControlType
<1>14. ASSUME NEW p \in Proc, Bury(p) PROVE Fresh(d)'
  <2>1. cache'[d] = cache[d]
    BY <1>14 DEF Bury, DeleteSecret, db, TypeOK, CacheType, TableType
  <2>2. aged \subseteq aged' /\ UNCHANGED <<gen, dev, val, new>>
    BY <1>14 DEF Bury, db, args
  <2>3. \A q \in Proc : q # p => pc'[q] = pc[q]
    BY <1>14 DEF Bury, Goto, TypeOK, ControlType
  <2>4. pc[p] = "bury" /\ pc'[p] \in {"bury", "deleted"}
    BY <1>14 DEF Bury, Goto, TypeOK, ControlType
  <2> QED
    BY <1>0, <2>1, <2>2, <2>3, <2>4, QuietFresh DEF Lags, PastUpdate
<1>15. ASSUME NEW e \in Device, NEW u \in User, SaveDeviceSecret(e, u) PROVE Fresh(d)'
  BY <1>0, <1>15, QuietFresh DEF SaveDeviceSecret, Lags, args, locals, TypeOK,
      TableType
<1>16. ASSUME NEW u \in User, CreateUser(u) PROVE Fresh(d)'
  BY <1>0, <1>16, QuietFresh DEF CreateUser, Lags, args, locals
<1>17. ASSUME NEW u \in User, DeleteUser(u) PROVE Fresh(d)'
  BY <1>0, <1>17, QuietFresh DEF DeleteUser, Lags, args, locals
<1>18. ASSUME NEW u \in User, NEW v \in User, ChangeEmail(u, v) PROVE Fresh(d)'
  BY <1>0, <1>18, QuietFresh DEF ChangeEmail, Lags, args, locals
<1>19. ASSUME CleanupOldDevices PROVE Fresh(d)'
  BY <1>0, <1>19, QuietFresh DEF CleanupOldDevices, Lags, args, locals
<1>20. ASSUME NEW e \in Device, Expire(e) PROVE Fresh(d)'
  <2>1. CASE e # d
    BY <1>0, <1>20, <2>1, QuietFresh DEF Expire, Lags, args, locals, db, TypeOK
  <2>2. CASE e = d
    <3>1. ~Hit(d)' /\ ~Current(d)'
      BY <1>20, <2>2 DEF Expire, Missing, Hit, Current, TypeOK, CacheType
    <3>2. ASSUME NEW q \in Proc, Lags(q, d)' PROVE Pending(d)'
      <4>1. Lags(q, d) /\ q \notin aged
        BY <1>20, <2>2, <3>2 DEF Expire, Lags, args, locals, db
      <4>2. Pending(d)
        BY <1>0, <4>1 DEF Fresh
      <4> QED
        BY <1>20, <4>2 DEF Expire, Pending, args, locals, db
    <3> QED
      BY <3>1, <3>2 DEF Fresh
  <2> QED
    BY <2>1, <2>2
<1>21. ASSUME NEW e \in Device, Evict(e) PROVE Fresh(d)'
  BY <1>0, <1>21, QuietFresh DEF Evict, Lags, args, locals, db, TypeOK
<1>22. ASSUME NEW i \in Instance, Crash(i) PROVE Fresh(d)'
  <2>1. \A q \in Proc : dev[q] = d /\ pc[q] \in PastUpdate =>
           dev'[q] = d /\ pc'[q] \in PastUpdate /\ new'[q] = new[q]
    BY <1>22 DEF Crash, Enter, TypeOK, TableType
  <2>2. \A q \in Proc : Lags(q, d)' => Lags(q, d) /\ Home[q] # i /\ (q \in aged => q \in aged')
    BY <1>22, NoneAssumption DEF Crash, Enter, Lags, db, TypeOK
  <2>3. CASE Redis
    BY <1>0, <1>22, <2>1, <2>2, <2>3, QuietFresh DEF Crash, db
  <2>4. CASE ~Redis
    BY <1>22, <2>2, <2>4, HomeAssumption, RedisAssumption DEF Crash, Fresh, Hit,
        Missing, TypeOK, TableType
  <2> QED
    BY <2>3, <2>4, RedisAssumption
<1> QED
  BY <1>1, <1>2, <1>3, <1>4, <1>5, <1>6, <1>7, <1>8, <1>9, <1>10, <1>11, <1>12, <1>13,
     <1>14, <1>15, <1>16, <1>17, <1>18, <1>19, <1>20, <1>21, <1>22
     DEF StoreNext, Step, Outside, TypeOK, TableType

\* Only SaveDeviceSecret adds a row, and no step removes a taint.
LEMMA RowsNext ==
  ASSUME TypeOK, StoreNext, NEW d \in rows', d \notin tainted', ~(d \in rows /\ d \notin tainted)
  PROVE  d \in Device /\ \E u \in User : SaveDeviceSecret(d, u)
<1>1. ASSUME NEW p \in Proc, Turn(p) \/ Step(p) PROVE FALSE
  BY <1>1 DEF Turn, Step, CacheGet, LoadDo, LoadQuery, LoadSet, LoadReturn,
      Bump, Peek, Reread, Publish, DeleteDevice, DeleteAllDevices, DeleteRows, Bury,
      db, history
<1>2. ASSUME NEW e \in Device, NEW u \in User, SaveDeviceSecret(e, u)
      PROVE  d \in Device /\ \E v \in User : SaveDeviceSecret(d, v)
  BY <1>2 DEF SaveDeviceSecret, history
<1> QED
  BY <1>1, <1>2 DEF StoreNext, Elsewhere, Outside, CreateUser, DeleteUser, ChangeEmail,
      CleanupOldDevices, Expire, Evict, Crash, db, history

\* A device that has its row and no taint is fresh after every step, a new one too.
LEMMA StaleIsTransientNext ==
  ASSUME TypeOK, CacheNotAhead, GenerationsKnown, DeadAreBuried, StaleIsTransient, StoreNext
  PROVE  StaleIsTransient'
<1> SUFFICES ASSUME NEW d \in rows', d \notin tainted' PROVE Fresh(d)'
  BY DEF StaleIsTransient
<1>1. CASE d \in rows /\ d \notin tainted
  BY <1>1, FreshNext
<1>2. CASE ~(d \in rows /\ d \notin tainted)
  <2>1. PICK u \in User : SaveDeviceSecret(d, u)
    BY <1>2, RowsNext
  <2>2. d \in Device /\ d \notin issued
    BY <1>2, <2>1, RowsNext DEF SaveDeviceSecret
  <2>3. ~Hit(d)'
    BY <2>1, <2>2 DEF SaveDeviceSecret, DeadAreBuried, Hit
  <2>4. \A p \in Proc : ~Lags(p, d)'
    BY <2>1, <2>2 DEF SaveDeviceSecret, Lags, args, locals, TypeOK, ControlType
  <2> QED
    BY <2>3, <2>4 DEF Fresh
<1> QED
  BY <1>1, <1>2

(***************************************************************************)
(* The invariant, and the theorems it gives.                               *)
(***************************************************************************)
\* The inductive invariant is kept by whatever a program does with the store.
LEMMA DeviceInvNext ==
  ASSUME DeviceInv, StoreNext
  PROVE  DeviceInv'
BY TypeNext, CacheNotAheadNext, GenerationsKnownNext, TombstoneHoldsNext,
   DeadAreBuriedNext, StaleIsTransientNext DEF DeviceInv

\* It holds before anything has happened.
LEMMA DeviceInvInit == Init => DeviceInv
<1> SUFFICES ASSUME Init PROVE DeviceInv
  OBVIOUS
<1>1. TypeOK
  BY TypeInit
<1>2. CacheNotAhead
  BY DEF Init, CacheNotAhead, Hit, Missing
<1>3. GenerationsKnown
  BY DEF Init, GenerationsKnown, PastUpdate
<1>4. TombstoneHolds /\ StaleIsTransient
  BY DEF Init, TombstoneHolds, StaleIsTransient
<1>5. DeadAreBuried
  BY DEF Init, DeadAreBuried, Missing
<1> QED
  BY <1>1, <1>2, <1>3, <1>4, <1>5 DEF DeviceInv

\* The inductive invariant holds in every reachable state.
THEOREM DeviceInvariant == Spec => []DeviceInv
<1>1. DeviceInv /\ [Next]_vars => DeviceInv'
  BY NextIsStoreNext, DeviceInvNext DEF DeviceInv
<1> QED
  BY <1>1, DeviceInvInit, PTL DEF Spec

\* The variables keep their types whatever the bounds are.
THEOREM TypeCorrect == Spec => []TypeOK
<1>1. DeviceInv => TypeOK
  BY DEF DeviceInv
<1> QED
  BY <1>1, DeviceInvariant, PTL

\* The cache never holds a generation its row has not reached, with any number
\* of failed calls, evictions and crashes.
THEOREM CacheNeverAhead == Spec => []CacheNotAhead
<1>1. DeviceInv => CacheNotAhead
  BY DEF DeviceInv
<1> QED
  BY <1>1, DeviceInvariant, PTL

\* A device that was deleted and buried never comes back into the cache.
THEOREM NoSecretResurrected == Spec => []NoResurrection
<1>1. DeviceInv => NoResurrection
  BY DEF DeviceInv, TombstoneHolds, NoResurrection, Hit
<1> QED
  BY <1>1, DeviceInvariant, PTL

\* Without failures, a cached secret is the row's own whenever no update or
\* deletion of the device is under way.
THEOREM CacheCoherent == Spec => []CoherentAtRest
<1>1. DeviceInv => CoherentAtRest
  <2> SUFFICES ASSUME DeviceInv, NEW d \in Device, d \notin tainted,
                      Hit(d), ~Publishing(d), ~Burying(d)
               PROVE  d \in rows /\ cache[d].gen = gen[d]
    BY DEF CoherentAtRest
  <2>1. d \in rows
    BY DEF DeviceInv, CacheNotAhead, DeadAreBuried, TombstoneHolds, Hit
  <2>2. ~Pending(d)
    BY DEF Pending, Publishing
  <2> QED
    BY <2>1, <2>2 DEF DeviceInv, StaleIsTransient, Fresh, Current
<1> QED
  BY <1>1, DeviceInvariant, PTL
=============================================================================
