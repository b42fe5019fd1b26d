------------------------- MODULE DeviceReadsProofs -------------------------
(***************************************************************************)
(* Reads are fresh: a GetDeviceSecret returns no generation older than     *)
(* what a finished UpdateDeviceSecret had returned before the read began,  *)
(* also when it shares a load that another request began earlier.  ReadsInv *)
(* is inductive together with DeviceInv.                                   *)
(***************************************************************************)
EXTENDS DeviceStoreProofs

(***************************************************************************)
(* The inductive invariant behind ReadsFresh.                              *)
(***************************************************************************)
\* p is about to store a generation of d, or has loaded one that its readers get.
Loads(p, d) == dev[p] = d /\ (pc[p] = "fill" \/ (pc[p] = "return" /\ res[p] = "ok"))
Carries(p, d) == Loads(p, d) \/ (dev[p] = d /\ pc[p] = "publish")
Carried(p) == IF pc[p] = "publish" /\ new[p] > val[p] THEN new[p] ELSE val[p]

\* What a finished update returned is in the row, and in the cache as long as anyone
\* carries an older generation; who carries one older than the cache's began before
\* that entry, which outlives it.
SettledKept(d) ==
    /\ settled[d] <= gen[d]
    /\ Hit(d) => settled[d] <= cache[d].gen
    /\ \A p \in Proc : Carries(p, d) =>
        /\ Carried(p) < settled[d] => Hit(d)
        /\ Hit(d) /\ Carried(p) < cache[d].gen => p \in aged

\* A read under way gets nothing older than its floor, from the row or from any
\* load that it may share.
ReadersKept(d) ==
    \A p \in Proc : dev[p] = d =>
        /\ pc[p] \in {"get", "do", "join", "load"} => floor[p] <= settled[d]
        /\ Loads(p, d) \/ (pc[p] = "got" /\ res[p] = "ok") => floor[p] <= val[p]
        /\ pc[p] \in {"do", "join"} => \A q \in Proc : Loads(q, d) => floor[p] <= val[q]

\* What was read is a generation the row has had.
ValuesKnown ==
    \A p \in Proc : Loads(p, dev[p]) \/ (pc[p] = "got" /\ res[p] = "ok") =>
        Known(dev[p], val[p])

\* The inductive invariant behind ReadsFresh.
ReadsInv ==
    /\ ValuesKnown
    /\ \A d \in Device \ issued : settled[d] = 0
    /\ \A d \in rows \ tainted : SettledKept(d)
    /\ \A d \in rows \ (tainted \cup blind) : ReadersKept(d)

\* What was read is a generation the row has had.
LEMMA ValuesKnownNext ==
  ASSUME TypeOK, CacheNotAhead, GenerationsKnown, ValuesKnown, StoreNext
  PROVE  ValuesKnown'
<1> USE DEF TypeOK, args, locals, db, history, ValuesKnown, Loads, Known
<1>1. ASSUME NEW p \in Proc, Turn(p) PROVE ValuesKnown'
  BY <1>1 DEF Turn, Enter
<1>2. ASSUME Elsewhere PROVE ValuesKnown'
  BY <1>2 DEF Elsewhere
<1>3. ASSUME NEW p \in Proc, CacheGet(p) PROVE ValuesKnown'
  BY <1>3 DEF CacheGet, Goto, Result, Hit, CacheNotAhead, TableType, ControlType, LocalType
<1>4. ASSUME NEW p \in Proc, LoadDo(p) PROVE ValuesKnown'
  BY <1>4 DEF LoadDo, Goto, ControlType
<1>5. ASSUME NEW p \in Proc, LoadQuery(p) PROVE ValuesKnown'
  BY <1>5 DEF LoadQuery, Goto, Result, GenerationsKnown, TableType, ControlType, LocalType
<1>6. ASSUME NEW p \in Proc, LoadSet(p) PROVE ValuesKnown'
  BY <1>6 DEF LoadSet, Goto, Result, ControlType, LocalType
<1>7. ASSUME NEW p \in Proc, LoadReturn(p) PROVE ValuesKnown'
  BY <1>7 DEF LoadReturn, Waiters
<1>8. ASSUME NEW p \in Proc, Bump(p) PROVE ValuesKnown'
  BY <1>8 DEF Bump, Goto, Result, TableType, ControlType, LocalType
<1>9. ASSUME NEW p \in Proc, Peek(p) PROVE ValuesKnown'
  BY <1>9 DEF Peek, Goto, ControlType, LocalType
<1>10. ASSUME NEW p \in Proc, Reread(p) \/ Publish(p) PROVE ValuesKnown'
  BY <1>10 DEF Reread, Publish, Goto, Result, ControlType, LocalType
<1>12. ASSUME NEW p \in Proc, DeleteDevice(p) \/ DeleteAllDevices(p) PROVE ValuesKnown'
  BY <1>12 DEF DeleteDevice, DeleteAllDevices, DeleteRows, Goto, Result, ControlType, LocalType
<1>14. ASSUME NEW p \in Proc, Bury(p) PROVE ValuesKnown'
  BY <1>14 DEF Bury, Goto, Result, ControlType, LocalType
<1>15. ASSUME NEW d \in Device, NEW u \in User, SaveDeviceSecret(d, u) PROVE ValuesKnown'
  BY <1>15 DEF SaveDeviceSecret, ControlType
<1>16. ASSUME Outside \/ \E u \in User : DeleteUser(u) PROVE ValuesKnown'
  BY <1>16 DEF Outside, CreateUser, DeleteUser, ChangeEmail, CleanupOldDevices, Expire, Evict
<1>22. ASSUME NEW i \in Instance, Crash(i) PROVE ValuesKnown'
  BY <1>22 DEF Crash, Enter
<1> QED
  BY <1>1, <1>2, <1>3, <1>4, <1>5, <1>6, <1>7, <1>8, <1>9, <1>10, <1>12,
     <1>14, <1>15, <1>16, <1>22 DEF StoreNext, Step

\* Only devices that were issued have been updated.
LEMMA SettledIssuedNext ==
  ASSUME TypeOK, \A d \in Device \ issued : settled[d] = 0, StoreNext
  PROVE  (\A d \in Device \ issued : settled[d] = 0)'
<1>1. issued \subseteq issued'
  <2>1. ASSUME NEW p \in Proc, Turn(p) PROVE issued' = issued
    BY <2>1 DEF Turn, db
  <2>2. ASSUME NEW p \in Proc, Step(p) PROVE issued' = issued
    <3>1. CASE CacheGet(p) \/ LoadDo(p) \/ LoadQuery(p) \/ LoadSet(p) \/ LoadReturn(p)
      BY <3>1 DEF CacheGet, LoadDo, LoadQuery, LoadSet, LoadReturn, db
    <3>2. CASE Bump(p) \/ Peek(p) \/ Reread(p) \/ Publish(p)
      BY <3>2 DEF Bump, Peek, Reread, Publish, db
    <3>3. CASE DeleteDevice(p) \/ DeleteAllDevices(p) \/ Bury(p)
      BY <3>3 DEF DeleteDevice, DeleteAllDevices, DeleteRows, Bury, db
    <3> QED
      BY <2>2, <3>1, <3>2, <3>3 DEF Step
  <2>3. ASSUME Outside \/ (\E i \in Instance : Crash(i)) \/ (\E u \in User : DeleteUser(u))
               \/ Elsewhere
        PROVE  issued' = issued
    BY <2>3 DEF Outside, CreateUser, DeleteUser, ChangeEmail, CleanupOldDevices, Expire, Evict,
                Crash, Elsewhere, db
  <2>4. ASSUME NEW d, NEW u, SaveDeviceSecret(d, u) PROVE issued \subseteq issued'
    BY <2>4 DEF SaveDeviceSecret
  <2> QED
    BY <2>1, <2>2, <2>3, <2>4 DEF StoreNext
<1>2. ASSUME NEW p \in Proc, Reread(p) \/ Publish(p)
      PROVE  \A d \in Device \ issued : settled'[d] = settled[d]
  BY <1>2 DEF Reread, Publish, Settle, TypeOK, ControlType, HistoryType
<1>3. settled' = settled \/ \E p \in Proc : Reread(p) \/ Publish(p)
  <2>1. ASSUME NEW p \in Proc, Turn(p) PROVE settled' = settled
    BY <2>1 DEF Turn, history
  <2>2. ASSUME NEW p \in Proc, Step(p), ~Reread(p), ~Publish(p) PROVE settled' = settled
    <3>1. CASE CacheGet(p) \/ LoadDo(p) \/ LoadQuery(p) \/ LoadSet(p) \/ LoadReturn(p)
      BY <3>1 DEF CacheGet, LoadDo, LoadQuery, LoadSet, LoadReturn, history
    <3>2. CASE Bump(p) \/ Peek(p)
      BY <3>2 DEF Bump, Peek, history
    <3>3. CASE DeleteDevice(p) \/ DeleteAllDevices(p) \/ Bury(p)
      BY <3>3 DEF DeleteDevice, DeleteAllDevices, DeleteRows, Bury, history
    <3> QED
      BY <2>2, <3>1, <3>2, <3>3 DEF Step
  <2>3. ASSUME Outside \/ (\E i \in Instance : Crash(i)) \/ (\E u \in User : DeleteUser(u))
               \/ Elsewhere
        PROVE  settled' = settled
    BY <2>3 DEF Outside, CreateUser, DeleteUser, ChangeEmail, CleanupOldDevices, Expire, Evict,
                Crash, Elsewhere, history
  <2>4. ASSUME NEW d, NEW u, SaveDeviceSecret(d, u) PROVE settled' = settled
    BY <2>4 DEF SaveDeviceSecret, history
  <2> QED
    BY <2>1, <2>2, <2>3, <2>4 DEF StoreNext
<1> QED
  BY <1>1, <1>2, <1>3

(***************************************************************************)
(* What a finished update returned is kept.                                *)
(***************************************************************************)
\* A step keeps it that changes neither d's entry nor what is settled, and after which
\* everyone carries what they carried, or something as new as the entry.
LEMMA QuietSettled ==
  ASSUME NEW d \in Device, TypeOK, TypeOK', SettledKept(d),
         settled'[d] = settled[d], gen'[d] >= gen[d], cache'[d] = cache[d],
         \A q \in Proc : Carries(q, d)' =>
             \/ Carries(q, d) /\ Carried(q)' = Carried(q) /\ (q \in aged => q \in aged')
             \/ Carried(q)' >= settled[d] /\ (Hit(d) => Carried(q)' >= cache[d].gen)
  PROVE  SettledKept(d)'
<1>1. Hit(d)' = Hit(d)
  BY DEF Hit
<1>2. \A q \in Proc : Carried(q)' \in Nat /\ Carried(q) \in Nat
  BY DEF Carried, TypeOK, LocalType
<1>3. /\ settled[d] \in Nat /\ gen[d] \in Nat /\ gen'[d] \in Nat /\ cache[d].gen \in Nat
  BY DEF TypeOK, HistoryType, TableType, CacheType, Entry
<1>4. settled'[d] <= gen'[d] /\ (Hit(d)' => settled'[d] <= cache'[d].gen)
  BY <1>1, <1>3 DEF SettledKept
<1>5. ASSUME NEW q \in Proc, Carries(q, d)'
      PROVE  /\ Carried(q)' < settled'[d] => Hit(d)'
             /\ Hit(d)' /\ Carried(q)' < cache'[d].gen => q \in aged'
  <2>1. CASE Carries(q, d) /\ Carried(q)' = Carried(q) /\ (q \in aged => q \in aged')
    BY <1>1, <2>1 DEF SettledKept
  <2>2. CASE Carried(q)' >= settled[d] /\ (Hit(d) => Carried(q)' >= cache[d].gen)
    BY <1>1, <1>2, <1>3, <2>2
  <2> QED
    BY <1>5, <2>1, <2>2
<1> QED
  BY <1>4, <1>5 DEF SettledKept

\* A device that keeps its row, and that no failure touched, keeps what was settled: the
\* argument is the one of LoadSet and Publish, where a generation enters the cache, and
\* of Expire, where it leaves.
LEMMA SettledNext ==
  ASSUME TypeOK, TypeOK', CacheNotAhead, GenerationsKnown, DeadAreBuried, StoreNext,
         NEW d \in rows', d \notin tainted', d \in rows, d \notin tainted, SettledKept(d)
  PROVE  SettledKept(d)'
<1>0. d \in Device
  BY DEF TypeOK, TableType
<1> USE DEF db, args, locals, history
<1> DEFINE Same(q) == Carries(q, d)' => Carries(q, d) /\ Carried(q)' = Carried(q)
                                            /\ (q \in aged => q \in aged')
<1>1. ASSUME NEW p \in Proc, Turn(p) PROVE SettledKept(d)'
  <2>1. \A q \in Proc : Same(q)
    BY <1>1 DEF Turn, Enter, Carries, Loads, Carried
  <2> QED
    BY <1>0, <1>1, <2>1, QuietSettled DEF Turn, TypeOK, TableType
<1>2. ASSUME Elsewhere PROVE SettledKept(d)'
  BY <1>2 DEF Elsewhere, SettledKept, Hit, Carries, Loads, Carried
<1>3. ASSUME NEW p \in Proc, CacheGet(p) PROVE SettledKept(d)'
  <2>1. \A q \in Proc : Same(q)
    BY <1>3 DEF CacheGet, Goto, Result, Carries, Loads, Carried, TypeOK, ControlType, LocalType
  <2> QED
    BY <1>0, <1>3, <2>1, QuietSettled DEF CacheGet, TypeOK, TableType
<1>4. ASSUME NEW p \in Proc, LoadDo(p) PROVE SettledKept(d)'
  <2>1. \A q \in Proc : Same(q)
    BY <1>4 DEF LoadDo, Goto, Carries, Loads, Carried, TypeOK, ControlType
  <2> QED
    BY <1>0, <1>4, <2>1, QuietSettled DEF LoadDo, TypeOK, TableType
<1>5. ASSUME NEW p \in Proc, LoadQuery(p) PROVE SettledKept(d)'
  <2>1. \A q \in Proc \ {p} : Same(q)
    BY <1>5 DEF LoadQuery, Goto, Result, Carries, Loads, Carried, TypeOK, ControlType, LocalType
  <2>2. Carries(p, d)' => Carried(p)' = gen[d]
    BY <1>5 DEF LoadQuery, Goto, Result, Carries, Loads, Carried, TypeOK, ControlType, LocalType
  <2>3. gen[d] >= settled[d] /\ (Hit(d) => gen[d] >= cache[d].gen)
    BY <1>0 DEF SettledKept, CacheNotAhead, TypeOK, TableType, HistoryType
  <2> QED
    BY <1>0, <1>5, <2>1, <2>2, <2>3, QuietSettled DEF LoadQuery, TypeOK, TableType
<1>6. ASSUME NEW p \in Proc, LoadSet(p) PROVE SettledKept(d)'
  <2>1. \A q \in Proc : Same(q)
    BY <1>6 DEF LoadSet, Goto, Result, Carries, Loads, Carried, TypeOK, ControlType, LocalType
  <2>2. CASE cache'[d] = cache[d]
    BY <1>0, <1>6, <2>1, <2>2, QuietSettled DEF LoadSet, TypeOK, TableType
  <2>3. CASE cache'[d] # cache[d]
    <3>1. dev[p] = d /\ Writable(d, val[p]) /\ cache'[d] = Secret(val[p])
          /\ aged' = aged \cup Overtaken(d, p)
      BY <1>0, <1>6, <2>3 DEF LoadSet, SetSecret, Writes, TypeOK, CacheType
    <3>2. Carries(p, d) /\ Carried(p) = val[p]
      BY <1>6, <3>1 DEF LoadSet, Carries, Loads, Carried
    <3>3. settled[d] <= val[p]
      BY <1>0, <3>1, <3>2 DEF SettledKept, Writable, Hit, TypeOK, HistoryType, LocalType,
          CacheType, Entry
    <3>4. \A q \in Proc \ {p} : Carries(q, d)' => q \in aged'
      BY <2>1, <3>1 DEF Overtaken, Holding, Carries, Loads
    <3>5. Hit(d)' /\ cache'[d].gen = val[p] /\ settled'[d] = settled[d] /\ gen'[d] = gen[d]
      BY <1>6, <3>1 DEF Hit, Secret, LoadSet
    <3>6. val[p] \in Nat /\ Carried(p)' = val[p]
      BY <1>6 DEF LoadSet, Goto, Carried, TypeOK, ControlType, LocalType
    <3> QED
      BY <3>3, <3>4, <3>5, <3>6 DEF SettledKept
  <2> QED
    BY <2>2, <2>3
<1>7. ASSUME NEW p \in Proc, LoadReturn(p) PROVE SettledKept(d)'
  <2>1. \A q \in Proc : Same(q)
    BY <1>7 DEF LoadReturn, Waiters, Carries, Loads, Carried
  <2> QED
    BY <1>0, <1>7, <2>1, QuietSettled DEF LoadReturn, TypeOK, TableType
<1>8. ASSUME NEW p \in Proc, Bump(p) PROVE SettledKept(d)'
  <2>1. \A q \in Proc : Same(q)
    BY <1>8 DEF Bump, Goto, Result, Carries, Loads, Carried, TypeOK, ControlType, LocalType
  <2>2. gen'[d] >= gen[d]
    BY <1>0, <1>8 DEF Bump, TypeOK, TableType
  <2> QED
    BY <1>0, <1>8, <2>1, <2>2, QuietSettled DEF Bump
<1>9. ASSUME NEW p \in Proc, Peek(p) PROVE SettledKept(d)'
  <2>1. \A q \in Proc \ {p} : Same(q)
    BY <1>9 DEF Peek, Goto, Carries, Loads, Carried, TypeOK, ControlType, LocalType
  <2>2. Carries(p, d)' => Hit(d) /\ Carried(p)' >= cache[d].gen
    BY <1>0, <1>9 DEF Peek, Goto, Carries, Loads, Carried, Hit, TypeOK, ControlType, LocalType,
        CacheType, Entry
  <2>3. Hit(d) => settled[d] <= cache[d].gen
    BY DEF SettledKept
  <2>4. Carries(p, d)' => Carried(p)' >= settled[d]
    BY <1>0, <2>2, <2>3 DEF Carried, TypeOK, LocalType, HistoryType, CacheType, Entry
  <2> QED
    BY <1>0, <1>9, <2>1, <2>2, <2>4, QuietSettled DEF Peek, TypeOK, TableType
<1>10. ASSUME NEW p \in Proc, Reread(p) PROVE SettledKept(d)'
  <2>1. \A q \in Proc \ {p} : Same(q)
    BY <1>10 DEF Reread, Goto, Result, Carries, Loads, Carried, TypeOK, ControlType, LocalType
  <2>2. Carries(p, d)' => Carried(p)' >= gen[d]
    BY <1>0, <1>10 DEF Reread, Goto, Carries, Loads, Carried, TypeOK, ControlType, LocalType,
        TableType
  <2>3. gen[d] >= settled[d] /\ (Hit(d) => gen[d] >= cache[d].gen)
    BY <1>0 DEF SettledKept, CacheNotAhead, TypeOK, TableType, HistoryType
  <2>4. Carries(p, d)' => Carried(p)' >= settled[d] /\ (Hit(d) => Carried(p)' >= cache[d].gen)
    BY <1>0, <2>2, <2>3 DEF Carried, TypeOK, LocalType, HistoryType, TableType, CacheType, Entry
  <2>5. settled'[d] = settled[d]
    BY <1>0, <1>10 DEF Reread, Settle, TypeOK, HistoryType
  <2> QED
    BY <1>0, <1>10, <2>1, <2>4, <2>5, QuietSettled DEF Reread, TypeOK, TableType
<1>11. ASSUME NEW p \in Proc, Publish(p) PROVE SettledKept(d)'
  <2>1. \A q \in Proc \ {p} : Same(q)
    BY <1>11 DEF Publish, Goto, Result, Carries, Loads, Carried, TypeOK, ControlType, LocalType
  <2>2. ~Carries(p, d)'
    BY <1>11 DEF Publish, Goto, Carries, Loads, TypeOK, ControlType
  <2>3. CASE dev[p] # d
    <3>1. cache'[d] = cache[d] /\ settled'[d] = settled[d]
      BY <1>0, <1>11, <2>3 DEF Publish, SetSecret, Settle, TypeOK, CacheType, HistoryType
    <3> QED
      BY <1>0, <1>11, <2>1, <2>2, <3>1, QuietSettled DEF Publish, TypeOK, TableType
  <2>4. CASE dev[p] = d
    <3> DEFINE g == Carried(p)
    <3>1. cache' = SetSecret(d, g) /\ aged' = (aged \cup Writes(d, p, g)) \ {p}
      BY <1>11, <2>4 DEF Publish, Carried, TypeOK, LocalType
    <3>2. Carries(p, d) /\ g \in Nat /\ g >= new[p] /\ new[p] \in 1..gen[d]
      BY <1>11, <2>4 DEF Publish, Carries, Carried, TypeOK, LocalType, GenerationsKnown, Known,
          PastUpdate
    <3>3. settled'[d] = IF new[p] > settled[d] THEN new[p] ELSE settled[d]
      BY <1>0, <1>11, <2>4 DEF Publish, Settle, TypeOK, HistoryType
    <3>4. /\ settled[d] \in Nat /\ gen[d] \in Nat /\ cache[d].gen \in Nat /\ gen'[d] = gen[d]
          /\ new[p] \in Nat
      BY <1>0, <1>11 DEF Publish, TypeOK, HistoryType, TableType, CacheType, Entry, LocalType
    <3>5. CASE Writable(d, g)
      <4>1. cache'[d] = Secret(g) /\ aged' = (aged \cup Overtaken(d, p)) \ {p}
        BY <1>0, <3>1, <3>5 DEF SetSecret, Writes, TypeOK, CacheType
      <4>2. settled[d] <= g
        BY <3>2, <3>4, <3>5 DEF SettledKept, Writable, Hit
      <4>3. \A q \in Proc : Carries(q, d)' => q \in aged'
        BY <2>1, <2>2, <4>1 DEF Overtaken, Holding, Carries, Loads
      <4>4. Hit(d)' /\ cache'[d].gen = g
        BY <4>1 DEF Hit, Secret
      <4>5. settled'[d] <= gen'[d] /\ settled'[d] <= g
        BY <3>2, <3>3, <3>4, <4>2 DEF SettledKept
      <4> QED
        BY <4>3, <4>4, <4>5 DEF SettledKept
    <3>6. CASE ~Writable(d, g)
      <4>1. cache' = cache /\ aged' = aged \ {p}
        BY <3>1, <3>6 DEF SetSecret, Writes
      <4>2. Hit(d) /\ cache[d].gen >= g
        <5>1. cache[d].kind \in {"missing", "secret", "deleted"} /\ cache[d].kind # "deleted"
          BY <1>0 DEF DeadAreBuried, TypeOK, CacheType, Entry
        <5> QED
          BY <3>2, <3>4, <3>6, <5>1 DEF Writable, Hit
      <4>3. settled'[d] <= gen'[d] /\ settled'[d] <= cache'[d].gen
        BY <3>2, <3>3, <3>4, <4>1, <4>2 DEF SettledKept
      <4>4. Hit(d)' = Hit(d) /\ cache'[d] = cache[d]
        BY <4>1 DEF Hit
      <4>5. \A q \in Proc : Carries(q, d)' =>
               Hit(d)' /\ (Carried(q)' < cache'[d].gen => q \in aged')
        BY <2>1, <2>2, <4>1, <4>2, <4>4 DEF SettledKept
      <4> QED
        BY <4>3, <4>4, <4>5 DEF SettledKept
    <3> QED
      BY <3>5, <3>6
  <2> QED
    BY <2>3, <2>4
<1>12. ASSUME NEW p \in Proc, DeleteDevice(p) \/ DeleteAllDevices(p) PROVE SettledKept(d)'
  <2>1. \A q \in Proc : Same(q)
    BY <1>12 DEF DeleteDevice, DeleteAllDevices, DeleteRows, Goto, Result, Carries, Loads, Carried,
        TypeOK, ControlType, LocalType
  <2> QED
    BY <1>0, <1>12, <2>1, QuietSettled DEF DeleteDevice, DeleteAllDevices, DeleteRows, TypeOK,
        TableType
<1>14. ASSUME NEW p \in Proc, Bury(p) PROVE SettledKept(d)'
  <2>1. \A q \in Proc : Same(q)
    BY <1>14 DEF Bury, Goto, Result, Carries, Loads, Carried, TypeOK, ControlType, LocalType
  <2>2. cache'[d] = cache[d]
    BY <1>0, <1>14 DEF Bury, DeleteSecret, TypeOK, CacheType
  <2> QED
    BY <1>0, <1>14, <2>1, <2>2, QuietSettled DEF Bury, TypeOK, TableType
<1>15. ASSUME NEW e \in Device, NEW u \in User, SaveDeviceSecret(e, u) PROVE SettledKept(d)'
  <2>1. \A q \in Proc : Same(q)
    BY <1>15 DEF SaveDeviceSecret, Carries, Loads, Carried
  <2>2. gen'[d] = gen[d]
    BY <1>0, <1>15 DEF SaveDeviceSecret, TypeOK, TableType
  <2> QED
    BY <1>0, <1>15, <2>1, <2>2, QuietSettled DEF SaveDeviceSecret, TypeOK, TableType
<1>16. ASSUME CleanupOldDevices \/ (\E u \in User : CreateUser(u) \/ DeleteUser(u))
              \/ \E u, v \in User : ChangeEmail(u, v)
       PROVE SettledKept(d)'
  BY <1>16 DEF CreateUser, DeleteUser, ChangeEmail, CleanupOldDevices, SettledKept, Hit, Carries,
      Loads, Carried
<1>20. ASSUME NEW e \in Device, Expire(e) PROVE SettledKept(d)'
  <2>1. \A q \in Proc : Same(q)
    BY <1>20 DEF Expire, Carries, Loads, Carried
  <2>2. CASE e # d
    <3>1. cache'[d] = cache[d]
      BY <1>0, <1>20, <2>2 DEF Expire, TypeOK, CacheType
    <3> QED
      BY <1>0, <1>20, <2>1, <3>1, QuietSettled DEF Expire, TypeOK, TableType
  <2>3. CASE e = d
    <3>1. ~Hit(d)'
      BY <1>0, <1>20, <2>3 DEF Expire, Hit, Missing, TypeOK, CacheType
    <3>2. \A q \in Proc : Carries(q, d) => Carried(q) >= settled[d]
      <4> SUFFICES ASSUME NEW q \in Proc, Carries(q, d), Carried(q) < settled[d] PROVE FALSE
        BY <1>0 DEF Carried, TypeOK, LocalType, HistoryType
      <4>1. Hit(d) /\ settled[d] <= cache[d].gen
        BY DEF SettledKept
      <4>2. Carried(q) < cache[d].gen
        BY <1>0, <4>1 DEF Carried, TypeOK, LocalType, HistoryType, CacheType, Entry
      <4>3. q \in aged /\ dev[q] = d
        BY <4>1, <4>2 DEF SettledKept, Carries, Loads
      <4> QED
        BY <1>20, <2>3, <4>3 DEF Expire
    <3>3. \A q \in Proc : Carried(q) \in Nat /\ settled[d] \in Nat
      BY <1>0 DEF Carried, TypeOK, LocalType, HistoryType
    <3>4. settled'[d] = settled[d] /\ gen'[d] = gen[d]
      BY <1>20 DEF Expire
    <3> QED
      BY <2>1, <3>1, <3>2, <3>3, <3>4 DEF SettledKept
  <2> QED
    BY <2>2, <2>3
<1>21. ASSUME NEW e \in Device, Evict(e) PROVE SettledKept(d)'
  <2>1. \A q \in Proc : Same(q)
    BY <1>21 DEF Evict, Carries, Loads, Carried
  <2>2. cache'[d] = cache[d]
    BY <1>0, <1>21 DEF Evict, TypeOK, CacheType
  <2> QED
    BY <1>0, <1>21, <2>1, <2>2, QuietSettled DEF Evict, TypeOK, TableType
<1>22. ASSUME NEW i \in Instance, Crash(i) PROVE SettledKept(d)'
  <2>1. \A q \in Proc : Same(q)
    BY <1>22 DEF Crash, Enter, Carries, Loads, Carried
  <2>2. CASE Redis
    BY <1>0, <1>22, <2>1, <2>2, QuietSettled DEF Crash, TypeOK, TableType
  <2>3. CASE ~Redis
    <3>1. \A q \in Proc : Home[q] = i
      BY <2>3, HomeAssumption, RedisAssumption
    <3>2. \A q \in Proc : pc'[q] = "idle"
      BY <1>22, <3>1 DEF Crash, Enter
    <3>3. \A q \in Proc : ~Carries(q, d)'
      BY <3>2 DEF Carries, Loads
    <3>4. ~Hit(d)' /\ settled'[d] = settled[d] /\ gen'[d] = gen[d]
      BY <1>0, <1>22, <2>3 DEF Crash, Hit, Missing
    <3> QED
      BY <3>3, <3>4 DEF SettledKept
  <2> QED
    BY <2>2, <2>3, RedisAssumption
<1> QED
  BY <1>1, <1>2, <1>3, <1>4, <1>5, <1>6, <1>7, <1>8, <1>9, <1>10, <1>11, <1>12,
     <1>14, <1>15, <1>16, <1>20, <1>21, <1>22 DEF StoreNext, Step, Outside, TypeOK, TableType

(***************************************************************************)
(* What a read under way may get.                                          *)
(***************************************************************************)
\* A step keeps it that takes nothing back of what is settled, begins no read of d and
\* makes no load of one.
LEMMA QuietReaders ==
  ASSUME NEW d \in Device, TypeOK, TypeOK', ReadersKept(d),
         settled'[d] >= settled[d],
         \A q \in Proc : dev'[q] = d =>
             /\ pc'[q] \in {"get", "do", "join", "load"} =>
                    dev[q] = d /\ pc[q] \in {"get", "do", "join", "load"} /\ floor'[q] = floor[q]
             /\ pc'[q] \in {"do", "join"} => pc[q] \in {"do", "join"}
             /\ pc'[q] = "got" /\ res'[q] = "ok" =>
                    dev[q] = d /\ pc[q] = "got" /\ res[q] = "ok" /\ val'[q] = val[q]
                        /\ floor'[q] = floor[q],
         \A q \in Proc : Loads(q, d)' => Loads(q, d) /\ val'[q] = val[q] /\ floor'[q] = floor[q]
  PROVE  ReadersKept(d)'
<1>1. /\ settled[d] \in Nat /\ settled'[d] \in Nat
      /\ \A q \in Proc : floor[q] \in Nat /\ floor'[q] \in Nat /\ val[q] \in Nat
  BY DEF TypeOK, HistoryType, LocalType
<1> SUFFICES ASSUME NEW p \in Proc, dev'[p] = d
             PROVE  /\ pc'[p] \in {"get", "do", "join", "load"} => floor'[p] <= settled'[d]
                    /\ Loads(p, d)' \/ (pc'[p] = "got" /\ res'[p] = "ok") => floor'[p] <= val'[p]
                    /\ pc'[p] \in {"do", "join"} =>
                           \A q \in Proc : Loads(q, d)' => floor'[p] <= val'[q]
  BY DEF ReadersKept
<1>2. pc'[p] \in {"get", "do", "join", "load"} => floor'[p] <= settled'[d]
  BY <1>1 DEF ReadersKept
<1>3. Loads(p, d)' \/ (pc'[p] = "got" /\ res'[p] = "ok") => floor'[p] <= val'[p]
  <2>1. Loads(p, d) => dev[p] = d
    BY DEF Loads
  <2> QED
    BY <2>1 DEF ReadersKept
<1>4. pc'[p] \in {"do", "join"} => \A q \in Proc : Loads(q, d)' => floor'[p] <= val'[q]
  BY DEF ReadersKept
<1> QED
  BY <1>2, <1>3, <1>4

\* A reader whose load or cache hit is fresh stays so: the argument is the one of
\* CacheGet, where a miss means that no load carries a generation older than what is
\* settled, and of LoadQuery, which reads the row.
LEMMA ReadersNext ==
  ASSUME TypeOK, TypeOK', StoreNext, NEW d \in rows', d \in rows,
         d \notin tainted', d \notin tainted, d \notin blind', d \notin blind,
         SettledKept(d), ReadersKept(d)
  PROVE  ReadersKept(d)'
<1>0. d \in Device
  BY DEF TypeOK, TableType
<1>a. settled[d] \in Nat
  BY <1>0 DEF TypeOK, HistoryType
<1> USE DEF db, args, locals, history
<1>1. ASSUME NEW p \in Proc, Turn(p) PROVE ReadersKept(d)'
  <2>1. settled' = settled /\ val'[p] = 0
        /\ pc'[p] \notin {"do", "join", "load", "fill", "return", "got"}
        /\ (pc'[p] = "get" => floor'[p] = settled[dev'[p]])
    BY <1>1 DEF Turn, Enter
  <2>2. \A q \in Proc \ {p} : pc'[q] = pc[q] /\ dev'[q] = dev[q] /\ floor'[q] = floor[q]
                                /\ val'[q] = val[q] /\ res'[q] = res[q]
    BY <1>1 DEF Turn, Enter
  <2>3. \A q \in Proc : Loads(q, d)' => q # p /\ Loads(q, d)
    BY <2>1, <2>2 DEF Loads
  <2> QED
    BY <1>a, <2>1, <2>2, <2>3 DEF ReadersKept
<1>2. ASSUME Elsewhere PROVE ReadersKept(d)'
  BY <1>2 DEF Elsewhere, ReadersKept, Loads
<1>3. ASSUME NEW p \in Proc, CacheGet(p) PROVE ReadersKept(d)'
  <2>1. \A q \in Proc : Loads(q, d)' => Loads(q, d) /\ q # p /\ val'[q] = val[q]
    BY <1>3 DEF CacheGet, Goto, Result, Loads, TypeOK, ControlType, LocalType
  <2>2. \A q \in Proc \ {p} : pc'[q] = pc[q] /\ val'[q] = val[q] /\ res'[q] = res[q]
    BY <1>3 DEF CacheGet, Goto, Result, TypeOK, ControlType, LocalType
  <2>3. dev' = dev /\ floor' = floor /\ settled' = settled
    BY <1>3 DEF CacheGet
  <2>4. dev[p] = d => floor[p] <= settled[d] /\ floor[p] \in Nat
    BY <1>3 DEF CacheGet, ReadersKept, TypeOK, HistoryType
  <2>5. CASE dev[p] # d
    BY <2>1, <2>2, <2>3, <2>5 DEF ReadersKept
  <2>6. CASE dev[p] = d /\ Hit(d) /\ pc' = [pc EXCEPT ![p] = "got"]
             /\ val' = [val EXCEPT ![p] = cache[d].gen]
    <3>1. floor[p] <= val'[p]
      BY <1>0, <1>a, <2>4, <2>6 DEF SettledKept, TypeOK, LocalType, CacheType, Entry
    <3>2. pc'[p] = "got"
      BY <2>6 DEF TypeOK, ControlType
    <3> QED
      BY <2>1, <2>2, <2>3, <3>1, <3>2 DEF ReadersKept
  <2>7. CASE dev[p] = d /\ ~Hit(d) /\ pc' = [pc EXCEPT ![p] = "do"]
    <3>1. \A q \in Proc : Loads(q, d) => settled[d] <= val[q] /\ val[q] \in Nat
      BY <1>a, <2>7 DEF SettledKept, Carries, Carried, Loads, TypeOK, LocalType
    <3>2. \A q \in Proc : Loads(q, d) => floor[p] <= val[q]
      BY <1>a, <2>4, <2>7, <3>1
    <3>3. pc'[p] = "do"
      BY <2>7 DEF TypeOK, ControlType
    <3> QED
      BY <2>1, <2>2, <2>3, <2>4, <2>7, <3>2, <3>3 DEF ReadersKept
  <2> QED
    BY <1>3, <2>5, <2>6, <2>7 DEF CacheGet, Goto
<1>4. ASSUME NEW p \in Proc, LoadDo(p) PROVE ReadersKept(d)'
  BY <1>0, <1>a, <1>4, QuietReaders DEF LoadDo, Goto, Loads, TypeOK, ControlType
<1>5. ASSUME NEW p \in Proc, LoadQuery(p) PROVE ReadersKept(d)'
  <2>1. \A q \in Proc \ {p} : pc'[q] = pc[q] /\ val'[q] = val[q] /\ res'[q] = res[q]
    BY <1>5 DEF LoadQuery, Goto, Result, TypeOK, ControlType, LocalType
  <2>2. dev' = dev /\ floor' = floor /\ settled' = settled
    BY <1>5 DEF LoadQuery
  <2>3. pc'[p] \in {"fill", "return"}
    BY <1>5 DEF LoadQuery, Goto, TypeOK, ControlType
  <2>4. Loads(p, d)' => val'[p] = gen[d] /\ dev[p] = d /\ floor[p] <= settled[d]
    BY <1>5 DEF LoadQuery, Goto, Result, Loads, ReadersKept, TypeOK, ControlType, LocalType
  <2>5. settled[d] <= gen[d] /\ gen[d] \in Nat
    BY <1>0 DEF SettledKept, TypeOK, TableType
  <2>6. \A q \in Proc : dev[q] = d /\ pc[q] \in {"get", "do", "join", "load"} => floor[q] <= gen[d]
    BY <1>a, <2>5 DEF ReadersKept, TypeOK, HistoryType
  <2>7. \A q \in Proc \ {p} : Loads(q, d)' => Loads(q, d)
    BY <2>1, <2>2 DEF Loads
  <2>8. Loads(p, d)' => floor[p] <= gen[d]
    BY <1>5, <2>4, <2>6 DEF LoadQuery
  <2> QED
    BY <2>1, <2>2, <2>3, <2>4, <2>6, <2>7, <2>8 DEF ReadersKept
<1>6. ASSUME NEW p \in Proc, LoadSet(p) PROVE ReadersKept(d)'
  BY <1>0, <1>a, <1>6, QuietReaders DEF LoadSet, Goto, Result, Loads, TypeOK, ControlType, LocalType
<1>7. ASSUME NEW p \in Proc, LoadReturn(p) PROVE ReadersKept(d)'
  <2>1. dev' = dev /\ floor' = floor /\ settled' = settled
    BY <1>7 DEF LoadReturn
  <2>2. \A q \in Proc \ Waiters(p) : pc'[q] = pc[q] /\ val'[q] = val[q] /\ res'[q] = res[q]
    BY <1>7 DEF LoadReturn
  <2>3. \A q \in Waiters(p) : q \in Proc /\ pc'[q] = "got" /\ val'[q] = val[p] /\ res'[q] = res[p]
                                 /\ dev[q] = dev[p] /\ (q # p => pc[q] = "join")
    BY <1>7 DEF LoadReturn, Waiters
  <2>4. \A q \in Proc : Loads(q, d)' => Loads(q, d) /\ q \notin Waiters(p)
    BY <2>1, <2>2, <2>3 DEF Loads
  <2>5. \A q \in Waiters(p) : dev[q] = d /\ res[p] = "ok" => floor[q] <= val[p]
    <3> SUFFICES ASSUME NEW q \in Waiters(p), dev[q] = d, res[p] = "ok" PROVE floor[q] <= val[p]
      OBVIOUS
    <3>1. Loads(p, d)
      BY <1>7, <2>3 DEF Loads, LoadReturn
    <3> QED
      BY <2>3, <3>1 DEF ReadersKept
  <2> QED
    BY <2>1, <2>2, <2>3, <2>4, <2>5 DEF ReadersKept
<1>8. ASSUME NEW p \in Proc, Bump(p) PROVE ReadersKept(d)'
  BY <1>0, <1>a, <1>8, QuietReaders DEF Bump, Goto, Result, Loads, TypeOK, ControlType, LocalType
<1>9. ASSUME NEW p \in Proc, Peek(p) PROVE ReadersKept(d)'
  BY <1>0, <1>a, <1>9, QuietReaders DEF Peek, Goto, Loads, TypeOK, ControlType, LocalType
<1>10. ASSUME NEW p \in Proc, Reread(p) \/ Publish(p) PROVE ReadersKept(d)'
  <2>1. settled'[d] >= settled[d]
    BY <1>0, <1>10 DEF Reread, Publish, Settle, TypeOK, HistoryType, LocalType
  <2> QED
    BY <1>0, <1>10, <2>1, QuietReaders DEF Reread, Publish, Goto, Result, Loads, TypeOK,
        ControlType, LocalType
<1>12. ASSUME NEW p \in Proc, DeleteDevice(p) \/ DeleteAllDevices(p) PROVE ReadersKept(d)'
  BY <1>0, <1>a, <1>12, QuietReaders DEF DeleteDevice, DeleteAllDevices, DeleteRows, Goto, Result,
      Loads, TypeOK, ControlType, LocalType
<1>14. ASSUME NEW p \in Proc, Bury(p) PROVE ReadersKept(d)'
  BY <1>0, <1>a, <1>14, QuietReaders DEF Bury, Goto, Result, Loads, TypeOK, ControlType, LocalType
<1>15. ASSUME NEW e \in Device, NEW u \in User, SaveDeviceSecret(e, u) PROVE ReadersKept(d)'
  BY <1>15 DEF SaveDeviceSecret, ReadersKept, Loads
<1>16. ASSUME Outside \/ \E u \in User : DeleteUser(u) PROVE ReadersKept(d)'
  BY <1>16 DEF Outside, CreateUser, DeleteUser, ChangeEmail, CleanupOldDevices, Expire, Evict,
      ReadersKept, Loads
<1>22. ASSUME NEW i \in Instance, Crash(i) PROVE ReadersKept(d)'
  BY <1>0, <1>a, <1>22, QuietReaders, NoneAssumption DEF Crash, Enter, Loads
<1> QED
  BY <1>1, <1>2, <1>3, <1>4, <1>5, <1>6, <1>7, <1>8, <1>9, <1>10, <1>12,
     <1>14, <1>15, <1>16, <1>22 DEF StoreNext, Step

(***************************************************************************)
(* The invariant and the theorem.                                          *)
(***************************************************************************)
\* What a step does to the rows and to what failures touched: a row that is new belongs
\* to a device nobody has called for, and no device is trusted again.
LEMMA GrowsNext ==
  ASSUME TypeOK, StoreNext
  PROVE  /\ tainted \subseteq tainted' /\ blind \subseteq blind'
         /\ \A d \in rows' \ rows : \E u \in User : SaveDeviceSecret(d, u)
<1> USE DEF db, history
<1>1. ASSUME NEW e \in Device, NEW u \in User, SaveDeviceSecret(e, u)
      PROVE  tainted' = tainted /\ blind' = blind /\ rows' = rows \cup {e}
  BY <1>1 DEF SaveDeviceSecret
<1> DEFINE Grows == tainted \subseteq tainted' /\ blind \subseteq blind' /\ rows' \subseteq rows
<1>2. ASSUME NEW p \in Proc, Turn(p) \/ Step(p) PROVE Grows
  BY <1>2 DEF Turn, Step, CacheGet, LoadDo, LoadQuery, LoadSet, LoadReturn, Bump, Peek,
      Reread, Publish, DeleteDevice, DeleteAllDevices, DeleteRows, Bury
<1>3. ASSUME Outside \/ (\E u \in User : DeleteUser(u)) \/ (\E i \in Instance : Crash(i))
             \/ Elsewhere
      PROVE  Grows
  BY <1>3 DEF Outside, CreateUser, DeleteUser, ChangeEmail, CleanupOldDevices, Expire, Evict,
      Crash, Elsewhere
<1> QED
  BY <1>1, <1>2, <1>3 DEF StoreNext

\* Every step of the store keeps ReadsInv.
LEMMA ReadsInvNext ==
  ASSUME DeviceInv, ReadsInv, StoreNext
  PROVE  ReadsInv'
<1>1. TypeOK /\ TypeOK'
  BY TypeNext DEF DeviceInv
<1>2. ValuesKnown'
  BY ValuesKnownNext DEF DeviceInv, ReadsInv
<1>3. (\A d \in Device \ issued : settled[d] = 0)'
  BY <1>1, SettledIssuedNext DEF ReadsInv
<1>4. ASSUME NEW d \in rows', d \notin rows, d \notin tainted'
      PROVE  SettledKept(d)' /\ ReadersKept(d)'
  <2>1. PICK u \in User : SaveDeviceSecret(d, u)
    BY <1>1, <1>4, GrowsNext
  <2>2. d \in Device \ issued /\ d # None
    BY <1>1, <2>1, NoneAssumption DEF SaveDeviceSecret, TypeOK, TableType
  <2>3. gen'[d] = 1 /\ settled'[d] = 0 /\ cache'[d] = cache[d] /\ ~Hit(d)
    BY <1>1, <2>1, <2>2 DEF SaveDeviceSecret, ReadsInv, DeviceInv, CacheNotAhead, TypeOK,
        TableType, history
  <2>4. \A q \in Proc : pc'[q] \notin {"idle", "delall", "bury", "deleted"} => dev'[q] # d
    BY <1>1, <2>1, <2>2 DEF SaveDeviceSecret, args, TypeOK, ControlType
  <2> QED
    BY <2>3, <2>4 DEF SettledKept, ReadersKept, Carries, Loads, Hit
<1>5. ASSUME NEW d \in rows' \ tainted' PROVE SettledKept(d)'
  BY <1>1, <1>4, <1>5, GrowsNext, SettledNext DEF DeviceInv, ReadsInv
<1>6. ASSUME NEW d \in rows' \ (tainted' \cup blind') PROVE ReadersKept(d)'
  BY <1>1, <1>4, <1>6, GrowsNext, ReadersNext DEF DeviceInv, ReadsInv
<1> QED
  BY <1>2, <1>3, <1>5, <1>6 DEF ReadsInv

\* Initially there is no row and nobody reads.
LEMMA ReadsInvInit == Init => ReadsInv
  BY DEF Init, ReadsInv, ValuesKnown, Loads

\* ReadsInv holds in every reachable state.
THEOREM ReadsInvariant == Spec => [](DeviceInv /\ ReadsInv)
<1>1. Init => DeviceInv /\ ReadsInv
  BY DeviceInvInit, ReadsInvInit
<1>2. DeviceInv /\ ReadsInv /\ [Next]_vars => (DeviceInv /\ ReadsInv)'
  BY NextIsStoreNext, DeviceInvNext, ReadsInvNext DEF DeviceInv
<1> QED
  BY <1>1, <1>2, PTL DEF Spec

\* GetDeviceSecret returns nothing older than what an UpdateDeviceSecret that had ended
\* before the read began returned, on any number of instances, unless a failure or a
\* statement that bypasses the cache touched the device: sharing a load is harmless.
THEOREM ReadsAreFresh == Spec => []ReadsFresh
<1>1. DeviceInv /\ ReadsInv => ReadsFresh
  <2> SUFFICES ASSUME DeviceInv, ReadsInv, NEW p \in Proc, pc[p] = "got", res[p] = "ok",
                      dev[p] \notin tainted \cup blind, dev[p] \in rows
               PROVE  val[p] >= floor[p]
    BY DEF ReadsFresh
  <2>1. ReadersKept(dev[p])
    BY DEF ReadsInv
  <2> QED
    BY <2>1 DEF ReadersKept, DeviceInv, TypeOK, LocalType, HistoryType
<1> QED
  BY <1>1, ReadsInvariant, PTL
=============================================================================
