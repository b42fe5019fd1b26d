-------------------------- MODULE FlightRefinement --------------------------
(***************************************************************************)
(* Flight implements SharedFlight: the inductive invariant FlightInv, and  *)
(* one lemma for each kind of step of the promise (a run starts, a run     *)
(* ends, a stored result is reused), give every action of Flight its step. *)
(* What the promise owes is owed to leaders within their deadline: as an   *)
(* instance has one leader, and every joiner has it, owing the leader is   *)
(* owing the instance.                                                     *)
(***************************************************************************)
EXTENDS FlightProofs

\* The phases of the promise, by where a call is.
LEMMA Phases ==
  ASSUME ControlType
  PROVE  \A p \in Proc :
           /\ (Phase(p) = "out") <=> (pc[p] = "idle")
           /\ (Phase(p) = "waiting") <=> (pc[p] \in {"join", "load", "lock", "reload"})
           /\ (Phase(p) = "running") <=> Running(p)
           /\ (Phase(p) = "done") <=> (pc[p] = "done")
           /\ Phase(p) \in {"out", "waiting", "running", "done"}
BY DEF ControlType, PC, Phase, Running

\* The same after a step.
LEMMA PhasesNext ==
  ASSUME ControlType'
  PROVE  \A p \in Proc :
           /\ (Phase(p)' = "out") <=> (pc'[p] = "idle")
           /\ (Phase(p)' = "waiting") <=> (pc'[p] \in {"join", "load", "lock", "reload"})
           /\ (Phase(p)' = "running") <=> Running(p)'
           /\ (Phase(p)' = "done") <=> (pc'[p] = "done")
           /\ Phase(p)' \in {"out", "waiting", "running", "done"}
BY DEF ControlType, PC, Phase, Running

\* While p leads its instance, nobody there runs, and p's party are those who joined.
LEMMA Alone ==
  ASSUME FlightInv, NEW p \in Proc, pc[p] \in {"load", "lock", "reload"}
  PROVE  /\ \A q \in Shared!Running : Home[q] # Home[p]
         /\ Shared!Party(p) = Sharing(p)
         /\ \A q \in Sharing(p) : q = p \/ q \notin completed
BY Phases DEF FlightInv, FTypeOK, InsideType, OneLeader, Inside, Shared!Running,
   Shared!Party, Sharing, Running

\* A call that moves changes its own phase only.
LEMMA PhaseMoves ==
  ASSUME FTypeOK, ControlType', NEW p \in Proc, NEW l \in PC, Goto(p, l)
  PROVE  /\ pc'[p] = l
         /\ [q \in Proc |-> Phase(q)]' = [[q \in Proc |-> Phase(q)] EXCEPT ![p] = Phase(p)']
         /\ \A q \in Proc : q # p => (Running(q)' <=> Running(q))
<1>1. pc'[p] = l /\ \A q \in Proc : q # p => pc'[q] = pc[q]
  BY DEF Goto, FTypeOK, ControlType
<1>2. \A q \in Proc : q # p => Phase(q)' = Phase(q)
  BY <1>1 DEF Phase
<1> QED
  BY <1>1, <1>2 DEF Running

\* Once a fault has happened Redis is not trusted again.
LEMMA TrustKept ==
  ASSUME faults' \in Nat, faults' = faults \/ faults' > 0
  PROVE  Shared!Trust
<1>1. CASE faults' = faults
  BY <1>1, Zenon DEF Shared!Trust
<1>2. CASE faults' > 0
  <2>1. faults' # 0
    BY <1>2
  <2>2. (faults' = 0) = FALSE
    BY <2>1
  <2> QED
    BY <2>2, Zenon DEF Shared!Trust
<1> QED
  BY <1>1, <1>2

\* An instance has one leader: without p's, what is owed is owed elsewhere.
LEMMA OwedElsewhere ==
  ASSUME FlightInv, NEW p \in Inside
  PROVE  /\ {Home[q] : q \in Awaiting \ {p}} = {Home[q] : q \in Awaiting} \ {Home[p]}
         /\ Running(p) => Home[p] \notin {Home[q] : q \in Awaiting}
<1>1. \A q \in Awaiting : q \in Inside /\ ~Running(q)
  BY DEF Awaiting, FlightInv, FTypeOK, InsideType, Running
<1>2. \A q \in Awaiting : Home[q] = Home[p] => q = p
  BY <1>1 DEF FlightInv, OneLeader
<1> QED
  BY <1>1, <1>2

\* A call that enters fn without the lock's protection, in local or past its deadline,
\* is allowed there after a deadline or a fault only; it is then a run that starts.
LEMMA Starts ==
  ASSUME FlightInv, ControlType', NEW p \in Proc, ~Running(p),
         pc[p] \in {"idle", "load", "lock", "reload"},
         Goto(p, "run"), UNCHANGED <<answer, stored, completed, ended, during>>,
         faults' \in Nat,
         \A q \in Shared!Running : Home[q] # Home[p],
         \/ /\ UNCHANGED local
            /\ faults' = 0 => /\ \A q \in Proc : Running(q) => q \in local \cup ended
                              /\ stored # None => p \in completed
         \/ /\ local' \cup ended = local \cup ended \cup {p}
            /\ faults' = 0 => Timeouts,
         faults' = faults \/ faults' > 0,
         pc[p] = "idle" => Home[p] \notin {Home[q] : q \in Awaiting}
  PROVE  Shared!Start(p)
<1>1. Phase(p) \in {"out", "waiting"} /\ Phase(p)' = "running" /\ pc'[p] = "run"
  BY Phases, PhasesNext DEF FlightInv, FTypeOK, Goto, ControlType, Running, PC
<1>2. [q \in Proc |-> Phase(q)]' = [[q \in Proc |-> Phase(q)] EXCEPT ![p] = "running"]
  BY <1>1, PhaseMoves DEF FlightInv, PC
<1>3. {Home[q] : q \in Awaiting}' = {Home[q] : q \in Awaiting} \ {Home[p]}
  <2>1. Awaiting' = Awaiting \ {p}
    BY <1>1 DEF Awaiting, Goto, FlightInv, FTypeOK, ControlType, InsideType, Inside
  <2>2. pc[p] # "idle" => p \in Inside
    BY DEF Inside
  <2>3. pc[p] = "idle" => Awaiting \ {p} = Awaiting
    BY DEF Awaiting
  <2>4. {Home[q] : q \in Awaiting \ {p}} = {Home[q] : q \in Awaiting} \ {Home[p]}
    BY <2>2, <2>3, OwedElsewhere
  <2>5. {Home[q] : q \in Awaiting}' = {Home[q] : q \in Awaiting \ {p}}
    BY <2>1
  <2> QED
    BY <2>4, <2>5
<1>4. Shared!Running \subseteq local \cup ended
        <=> (\A q \in Proc : Running(q) => q \in local \cup ended)
  BY Phases DEF Shared!Running, FlightInv, FTypeOK
<1>5. Shared!Trust
  BY TrustKept
<1>6. CASE /\ UNCHANGED local
           /\ faults' = 0 => /\ \A q \in Proc : Running(q) => q \in local \cup ended
                             /\ stored # None => p \in completed
  BY <1>1, <1>2, <1>3, <1>4, <1>5, <1>6 DEF Shared!Start
<1>7. CASE local' \cup ended = local \cup ended \cup {p} /\ (faults' = 0 => Timeouts)
  <2>1. (local \cup ended)' = (local \cup ended) \cup {p}
    BY <1>7
  <2> QED
    BY <1>1, <1>2, <1>3, <1>5, <1>7, <2>1 DEF Shared!Start
<1> QED
  BY <1>6, <1>7

\* The answer of p's call reaches the party of p.
LEMMA Returns ==
  ASSUME FlightInv, ControlType', NEW p \in Inside, NEW a, Return(p, a)
  PROVE  /\ Shared!Party(p) = Sharing(p)
         /\ Shared!Respond(Shared!Party(p), a)
         /\ (local \cup ended)' = (local \cup ended) \ {p}
         /\ completed' = completed \ {p}
<1>1. p \in Proc
  BY DEF Inside
<1>2. Shared!Party(p) = Sharing(p)
  BY <1>1, Phases DEF FlightInv, FTypeOK, OneLeader, Inside, Shared!Party, Sharing
<1>3. \A q \in Proc : pc'[q] = IF q \in Sharing(p) THEN "done" ELSE pc[q]
  BY DEF Return
<1>4. \A q \in Proc : Phase(q)' = IF q \in Sharing(p) THEN "done" ELSE Phase(q)
  <2>1. ASSUME NEW q \in Proc, q \in Sharing(p) PROVE Phase(q)' = "done"
    BY <1>3, <2>1, PhasesNext
  <2>2. ASSUME NEW q \in Proc, q \notin Sharing(p) PROVE Phase(q)' = Phase(q)
    BY <1>3, <2>2 DEF Phase
  <2> QED
    BY <2>1, <2>2
<1>5. Shared!Respond(Shared!Party(p), a)
  BY <1>2, <1>4 DEF Shared!Respond, Return
<1>6. (local \cup ended)' = (local \cup ended) \ {p}
  BY DEF Return
<1> QED
  BY <1>2, <1>5, <1>6 DEF Return

\* Nothing is owed any more to p's instance when p returns without storing a result.
LEMMA ReturnsOwed ==
  ASSUME FlightInv, ControlType', NEW p \in Inside, NEW a, Return(p, a),
         during' = during \ {p}
  PROVE  {Home[q] : q \in Awaiting}' = {Home[q] : q \in Awaiting} \ {Home[p]}
<1>1. \A q \in Inside \ {p} : pc'[q] = pc[q]
  BY DEF Return, Sharing, Inside
<1>2. during \subseteq Inside /\ ended' = ended \ {p}
  BY DEF FlightInv, FTypeOK, InsideType, Return
<1>3. Awaiting' = Awaiting \ {p}
  BY <1>1, <1>2 DEF Awaiting
<1>4. {Home[q] : q \in Awaiting}' = {Home[q] : q \in Awaiting \ {p}}
  BY <1>3
<1> QED
  BY <1>4, OwedElsewhere

\* When p stores its result, the leaders that wait within their deadline are owed it,
\* and their instances are those where the promise says it is waited for.
LEMMA StoresOwed ==
  ASSUME FlightInv, ControlType', NEW p \in Inside, NEW a, Return(p, a),
         during' = Inside \ {p}
  PROVE  {Home[q] : q \in Awaiting}' = Shared!Expecting'
<1> DEFINE W == {"load", "lock", "reload"}
           O == {Home[q] : q \in Awaiting}
<1>1. \A q \in Proc : pc'[q] = IF q \in Sharing(p) THEN "done" ELSE pc[q]
  BY DEF Return
<1>2. ended' = ended \ {p} /\ local' = local \ {p}
  BY DEF Return
<1>3. Inside \subseteq Proc /\ local \subseteq Inside /\ ended \subseteq Inside
  BY DEF FlightInv, FTypeOK, InsideType, Inside
<1>4. \A q, r \in Inside : Home[q] = Home[r] => q = r
  BY DEF FlightInv, OneLeader
<1>5. Awaiting' = {q \in Inside : q # p /\ q \notin ended /\ pc[q] \in W}
  BY <1>1, <1>2, <1>3 DEF Awaiting, Sharing, Inside
<1>6. ASSUME NEW q \in Awaiting' PROVE Home[q] \in Shared!Expecting'
  <2>1. q \in Inside /\ q # p /\ q \notin ended /\ pc[q] \in W /\ q \notin local
    BY <1>3, <1>5, <1>6 DEF FlightInv, Places
  <2>2. q \in Proc /\ Home[q] \in Instance /\ pc'[q] = pc[q]
    BY <1>1, <1>3, <2>1, HomeAssumption DEF Sharing
  <2>3. Phase(q)' = "waiting"
    BY <2>1, <2>2, PhasesNext
  <2>4. ASSUME NEW r \in (Shared!Running \cup (local \cup ended))', Home[r] = Home[q]
        PROVE  FALSE
    <3>1. r \in Inside
      BY <1>1, <1>2, <1>3, <2>4, PhasesNext DEF Shared!Running, Running, Inside
    <3>2. r = q
      BY <1>4, <2>1, <2>4, <3>1
    <3> QED
      BY <1>2, <2>1, <2>3, <2>4, <3>2 DEF Shared!Running
  <2> QED
    BY <2>2, <2>3, <2>4 DEF Shared!Expecting
<1>7. ASSUME NEW i \in Shared!Expecting' PROVE i \in O'
  <2>1. i \in Instance /\ \A q \in (Shared!Running \cup (local \cup ended))' : Home[q] # i
    BY <1>7 DEF Shared!Expecting
  <2>2. PICK q \in Proc : Phase(q)' = "waiting" /\ Home[q] = i
    BY <1>7 DEF Shared!Expecting
  <2>3. q \notin Sharing(p) /\ pc'[q] = pc[q] /\ pc[q] \in {"join", "load", "lock", "reload"}
    BY <1>1, <2>2, PhasesNext
  <2>4. PICK l \in Inside : Home[l] = i /\ (l = q \/ pc[q] = "join")
    BY <2>1, <2>2, <2>3 DEF FlightInv, OneLeader, Underway, Inside
  <2>5. l # p
    BY <2>2, <2>3, <2>4 DEF Sharing
  <2>6. pc'[l] = pc[l] /\ l \in Proc
    BY <1>1, <1>3, <2>4, <2>5 DEF Sharing, Inside
  <2>7. ~Running(l)'
    BY <2>1, <2>4, <2>6, PhasesNext DEF Shared!Running
  <2>8. l \notin ended
    BY <1>2, <2>1, <2>4, <2>5
  <2>9. l \in Awaiting'
    BY <1>5, <2>4, <2>5, <2>6, <2>7, <2>8 DEF Inside, Running
  <2> QED
    BY <2>4, <2>9
<1> QED
  BY <1>6, <1>7

\* A run that returns is the end of a run of the promise.
LEMMA Ends ==
  ASSUME FlightInv, ControlType', NEW p \in Proc, Running(p), NEW a, Return(p, a),
         faults' \in Nat, faults' = faults \/ faults' > 0,
         \/ /\ stored' = stored /\ during' = during \ {p}
            /\ faults' = 0 => a # "ok" \/ ~Keeps(p) \/ p \in ended
         \/ /\ a = "ok" /\ Keeps(p) /\ p \notin ended
            /\ stored' # None /\ during' = Inside \ {p}
  PROVE  Shared!End(p, a)
<1>1. p \in Inside /\ Phase(p) = "running"
  BY Phases DEF Inside, Running, FlightInv, FTypeOK
<1>2. Shared!Trust
  BY TrustKept
<1>3. /\ Shared!Respond(Shared!Party(p), a)
      /\ (local \cup ended)' = (local \cup ended) \ {p}
      /\ completed' = completed \ {p}
  BY <1>1, Returns
<1>4. CASE /\ stored' = stored /\ during' = during \ {p}
           /\ faults' = 0 => a # "ok" \/ ~Keeps(p) \/ p \in ended
  <2>1. (faults' = 0) => ~Shared!ToKeep(p, a)
    BY <1>4 DEF Shared!ToKeep, Keeps
  <2>2. {Home[q] : q \in Awaiting}' = {Home[q] : q \in Awaiting}
    BY <1>1, <1>4, ReturnsOwed, OwedElsewhere
  <2> QED
    BY <1>1, <1>2, <1>3, <1>4, <2>1, <2>2 DEF Shared!End
<1>5. CASE /\ a = "ok" /\ Keeps(p) /\ p \notin ended
           /\ stored' # None /\ during' = Inside \ {p}
  <2>1. (stored' # None) = TRUE
    BY <1>5
  <2>2. Shared!ToKeep(p, a)
    BY <1>5 DEF Shared!ToKeep, Keeps
  <2>3. {Home[q] : q \in Awaiting}' = Shared!Expecting'
    BY <1>1, <1>5, StoresOwed
  <2> QED
    BY <1>1, <1>2, <1>3, <2>1, <2>2, <2>3 DEF Shared!End
<1> QED
  BY <1>4, <1>5

\* A stored result that is returned is a reuse.
LEMMA Reuses ==
  ASSUME FlightInv, ControlType', NEW p \in Proc, pc[p] \in {"load", "reload"},
         p \notin completed, p \notin ended, ReturnStored(p)
  PROVE  Shared!Reuse(p)
<1>1. p \in Inside /\ Phase(p) = "waiting" /\ p \notin local
  BY Phases DEF Inside, FlightInv, FTypeOK, Places
<1>2. /\ Return(p, "ok") /\ stored # None /\ UNCHANGED <<stored, faults>>
      /\ during' = during \ {p}
  BY DEF ReturnStored
<1>3. /\ Shared!Party(p) = Sharing(p) /\ Shared!Respond(Shared!Party(p), "ok")
      /\ (local \cup ended)' = (local \cup ended) \ {p}
      /\ completed' = completed \ {p}
  BY <1>1, <1>2, Returns
<1>4. (local \cup ended)' = local \cup ended /\ completed' = completed
  BY <1>1, <1>3
<1>5. Shared!Party(p) \cap completed = {}
  BY <1>3, Alone
<1>6. {Home[q] : q \in Awaiting}' = {Home[q] : q \in Awaiting} \ {Home[p]}
  BY <1>1, <1>2, ReturnsOwed
<1> QED
  BY <1>1, <1>2, <1>3, <1>4, <1>5, <1>6, Alone DEF Shared!Reuse

\* What is owed does not change when no leader enters fn, leaves or passes its deadline.
LEMMA OwedSame ==
  ASSUME FlightInv, UNCHANGED <<ended, during>>,
         \A q \in Inside :
             \/ pc'[q] = pc[q]
             \/ {pc[q], pc'[q]} \subseteq {"load", "lock", "reload"}
             \/ Running(q) /\ Running(q)'
  PROVE  {Home[q] : q \in Awaiting}' = {Home[q] : q \in Awaiting}
<1>1. during \subseteq Inside
  BY DEF FlightInv, FTypeOK, InsideType
<1>2. Awaiting' = Awaiting
  BY <1>1 DEF Awaiting, Running
<1> QED
  BY <1>2

\* Every step of Flight is a step of the promise, or changes nothing that it sees.
LEMMA StepShared ==
  ASSUME FlightInv, ControlType', StoreType', FNext
  PROVE  Shared!SharedNext \/ UNCHANGED Shared!svars
<1> USE DEF Shared!SharedNext
<1>f. faults \in Nat /\ faults' \in Nat
  BY ModeAssumption DEF FlightInv, FTypeOK, StoreType
<1>1. ASSUME NEW p \in Proc, Do(p) PROVE Shared!SharedNext \/ UNCHANGED Shared!svars
  <2>1. Phase(p) = "out" /\ pc[p] = "idle" /\ p \notin Inside /\ ~Running(p)
    BY <1>1, Phases DEF Do, Inside, Running, FlightInv, FTypeOK
  <2>2. CASE Goto(p, "join") \/ Goto(p, "load")
    <3>1. Phase(p)' = "waiting"
      BY <2>2, PhasesNext DEF Goto, FlightInv, FTypeOK, ControlType
    <3>2. [q \in Proc |-> Phase(q)]' = [[q \in Proc |-> Phase(q)] EXCEPT ![p] = "waiting"]
      BY <2>2, <3>1, PhaseMoves DEF FlightInv, PC
    <3>3. \A q \in Inside : pc'[q] = pc[q]
      BY <2>1, <2>2 DEF Goto, FlightInv, FTypeOK, ControlType, Inside
    <3>4. {Home[q] : q \in Awaiting}' = {Home[q] : q \in Awaiting}
      BY <1>1, <3>3, OwedSame DEF Do
    <3>5. Shared!Wait(p)
      BY <1>1, <2>1, <3>2, <3>4 DEF Shared!Wait, Do, shared
    <3> QED
      BY <3>5
  <2>3. CASE Goto(p, "run") /\ ~Redis /\ InFlightOnly /\ ~Underway(Home[p])
    <3>1. Inside = {}
      BY <2>3, HomeAssumption, ModeAssumption
         DEF Underway, FlightInv, OneLeader, Inside
    <3>2. \A q \in Proc : ~Running(q)
      BY <3>1 DEF Running, Inside
    <3>3. Shared!Running = {} /\ Awaiting = {}
      BY <3>1, <3>2, Phases DEF Shared!Running, Awaiting, FlightInv, FTypeOK, InsideType
    <3>4. stored = None
      BY <2>3 DEF FlightInv, Places
    <3>5. Shared!Start(p)
      BY <1>1, <1>f, <2>1, <2>3, <3>2, <3>3, <3>4, Starts DEF Do, shared
    <3> QED
      BY <3>5
  <2> QED
    BY <1>1, <2>2, <2>3, ModeAssumption DEF Do
<1>2. ASSUME NEW p \in Proc, Load(p) PROVE Shared!SharedNext \/ UNCHANGED Shared!svars
  <2>1. /\ pc[p] = "load" /\ p \notin completed /\ p \notin local /\ ~Running(p)
        /\ Phase(p) = "waiting"
        /\ \A q \in Shared!Running : Home[q] # Home[p]
    BY <1>2, Phases, Alone DEF Load, Running, FlightInv, FTypeOK, Places
  <2>2. CASE ~InFlightOnly /\ p \notin ended /\ ReturnStored(p)
    <3>1. Shared!Reuse(p)
      BY <2>1, <2>2, Reuses
    <3> QED
      BY <3>1
  <2>3. CASE /\ (InFlightOnly \/ stored = None) /\ p \notin ended
             /\ Goto(p, IF Redis THEN "lock" ELSE "run")
             /\ completed' = IF stored # None THEN completed \cup {p} ELSE completed
             /\ UNCHANGED <<answer, leader, shared, local, ended, faults, history>>
    <3>1. CASE Redis
      <4>1. Goto(p, "lock")
        BY <2>3, <3>1
      <4>2. Phase(p)' = "waiting" /\ pc'[p] = "lock"
        BY <4>1, PhasesNext DEF Goto, FlightInv, FTypeOK, ControlType
      <4>3. [q \in Proc |-> Phase(q)]' = [q \in Proc |-> Phase(q)]
        BY <2>1, <4>1, <4>2, PhaseMoves DEF FlightInv, PC
      <4>4. \A q \in Proc : q # p => pc'[q] = pc[q]
        BY <4>1 DEF Goto, FlightInv, FTypeOK, ControlType
      <4>5. {Home[q] : q \in Awaiting}' = {Home[q] : q \in Awaiting}
        BY <2>1, <2>3, <4>2, <4>4, OwedSame DEF Inside, history
      <4>6. CASE stored # None
        <5>1. Shared!Notice(p)
          BY <2>1, <2>3, <4>3, <4>5, <4>6 DEF Shared!Notice, shared
        <5> QED
          BY <5>1
      <4>7. CASE stored = None
        BY <2>3, <4>3, <4>5, <4>7 DEF Shared!svars, shared
      <4> QED
        BY <4>6, <4>7
    <3>2. CASE ~Redis
      <4>1. \A q \in Proc : ~Running(q)
        BY <2>1, <3>2, Phases, HomeAssumption, ModeAssumption
           DEF Shared!Running, FlightInv, FTypeOK
      <4>2. stored = None
        BY <2>3, <3>2 DEF FlightInv, Places
      <4>3. Shared!Start(p)
        BY <1>f, <2>1, <2>3, <3>2, <4>1, <4>2, Starts DEF shared, history
      <4> QED
        BY <4>3
    <3> QED
      BY <3>1, <3>2
  <2>4. CASE /\ Fails(p)
             /\ Goto(p, "run") /\ local' = local \cup {p}
             /\ UNCHANGED <<answer, leader, shared, completed, ended, history>>
    <3>1. (faults' = faults /\ Timeouts) \/ faults' > 0
      BY <1>f, <2>4 DEF Fails, RedisFault, Fault, FlightInv, Deadlines
    <3>2. Shared!Start(p)
      BY <1>f, <2>1, <2>4, <3>1, Starts DEF shared, history
    <3> QED
      BY <3>2
  <2> QED
    BY <1>2, <2>2, <2>3, <2>4 DEF Load
<1>3. ASSUME NEW p \in Proc, Lock(p) PROVE Shared!SharedNext \/ UNCHANGED Shared!svars
  <2>1. /\ pc[p] = "lock" /\ p \notin local /\ ~Running(p) /\ Redis
        /\ Phase(p) = "waiting"
        /\ \A q \in Shared!Running : Home[q] # Home[p]
        /\ UNCHANGED <<answer, stored, completed, ended, during>>
    BY <1>3, Phases, Alone DEF Lock, Running, FlightInv, FTypeOK, Places, history
  <2>2. CASE LockFree /\ UNCHANGED <<local, faults>> /\ p \in completed /\ Goto(p, "run")
    <3>1. faults' = 0 => \A q \in Proc : Running(q) => q \in local \cup ended
      BY <2>1, <2>2 DEF LockFree, FlightInv, LockHeld
    <3>2. Shared!Start(p)
      BY <1>f, <2>1, <2>2, <3>1, Starts
    <3> QED
      BY <3>2
  <2>3. CASE UNCHANGED <<local, faults>> /\ Goto(p, "reload")
    <3>1. Phase(p)' = "waiting" /\ pc'[p] = "reload"
      BY <2>3, PhasesNext DEF Goto, FlightInv, FTypeOK, ControlType
    <3>2. [q \in Proc |-> Phase(q)]' = [q \in Proc |-> Phase(q)]
      BY <2>1, <2>3, <3>1, PhaseMoves DEF FlightInv, PC
    <3>3. \A q \in Proc : q # p => pc'[q] = pc[q]
      BY <2>3 DEF Goto, FlightInv, FTypeOK, ControlType
    <3>4. {Home[q] : q \in Awaiting}' = {Home[q] : q \in Awaiting}
      BY <2>1, <3>1, <3>3, OwedSame DEF Inside
    <3> QED
      BY <2>1, <2>3, <3>2, <3>4 DEF Shared!svars
  <2>4. CASE Fails(p) /\ Goto(p, "run") /\ local' = local \cup {p}
    <3>1. (faults' = faults /\ Timeouts) \/ faults' > 0
      BY <1>f, <2>4 DEF Fails, RedisFault, Fault, FlightInv, Deadlines
    <3>2. Shared!Start(p)
      BY <1>f, <2>1, <2>4, <3>1, Starts
    <3> QED
      BY <3>2
  <2> QED
    BY <1>3, <2>2, <2>3, <2>4 DEF Lock
<1>4. ASSUME NEW p \in Proc, Reload(p) PROVE Shared!SharedNext \/ UNCHANGED Shared!svars
  <2>1. /\ pc[p] = "reload" /\ p \notin completed /\ p \notin local /\ ~Running(p) /\ Redis
        /\ \A q \in Shared!Running : Home[q] # Home[p]
    BY <1>4, Alone DEF Reload, Running, FlightInv, Places
  <2>2. CASE p \notin ended /\ ReturnStored(p)
    <3>1. Shared!Reuse(p)
      BY <2>1, <2>2, Reuses
    <3> QED
      BY <3>1
  <2>3. CASE /\ \/ (stored = None \/ p \notin holds) /\ UNCHANGED faults
                \/ Fails(p)
             /\ Goto(p, "run")
             /\ UNCHANGED <<answer, leader, shared, completed, local, ended, history>>
    <3>1. faults' = faults \/ faults' > 0
      BY <1>f, <2>3 DEF Fails, RedisFault, Fault
    <3>2. CASE p \in ended
      <4>1. Timeouts
        BY <3>2 DEF FlightInv, Deadlines
      <4>2. Shared!Start(p)
        BY <1>f, <2>1, <2>3, <3>1, <3>2, <4>1, Starts DEF shared, history
      <4> QED
        BY <4>2
    <3>3. CASE p \notin ended
      <4>1. faults' = 0 => /\ stored = None
                           /\ \A q \in Proc : Running(q) => q \in local \cup ended
        BY <1>f, <2>1, <2>3, <3>3 DEF Fails, RedisFault, Fault, FlightInv, LockHeld
      <4>2. Shared!Start(p)
        BY <1>f, <2>1, <2>3, <3>1, <4>1, Starts DEF shared, history
      <4> QED
        BY <4>2
    <3> QED
      BY <3>2, <3>3
  <2> QED
    BY <1>4, <2>2, <2>3 DEF Reload
<1>5. ASSUME NEW p \in Proc, Finish(p) PROVE Shared!SharedNext \/ UNCHANGED Shared!svars
  <2>1. Running(p) /\ UNCHANGED faults /\ pc[p] = "run"
    BY <1>5 DEF Finish, Running
  <2>2. ASSUME NEW a \in {"ok", "err"}, ReturnOwn(p, a), a # "ok" \/ ~Keeps(p)
        PROVE  Shared!End(p, a)
    BY <1>f, <2>1, <2>2, Ends DEF ReturnOwn
  <2>3. CASE /\ Goto(p, "store")
             /\ UNCHANGED <<answer, leader, shared, completed, local, ended, history>>
    <3>1. Phase(p)' = "running" /\ Phase(p) = "running" /\ Running(p)'
      BY <2>1, <2>3, Phases, PhasesNext DEF Goto, FlightInv, FTypeOK, ControlType, Running
    <3>2. [q \in Proc |-> Phase(q)]' = [q \in Proc |-> Phase(q)]
      BY <2>3, <3>1, PhaseMoves DEF FlightInv, PC
    <3>3. \A q \in Proc : q # p => pc'[q] = pc[q]
      BY <2>3 DEF Goto, FlightInv, FTypeOK, ControlType
    <3>4. {Home[q] : q \in Awaiting}' = {Home[q] : q \in Awaiting}
      BY <2>1, <2>3, <3>1, <3>3, OwedSame DEF Inside, history
    <3> QED
      BY <2>1, <2>3, <3>2, <3>4 DEF Shared!svars, shared
  <2> QED
    BY <1>5, <2>2, <2>3 DEF Finish
<1>6. ASSUME NEW p \in Proc, StoreResult(p) PROVE Shared!SharedNext \/ UNCHANGED Shared!svars
  <2>1. Running(p) /\ Keeps(p) /\ p \notin ended
    BY <1>6 DEF StoreResult, Running, FlightInv, Places
  <2>2. Shared!End(p, "ok")
    BY <1>6, <1>f, <2>1, Ends, ModeAssumption DEF StoreResult
  <2> QED
    BY <2>2
<1>7. ASSUME NEW p \in Proc, StoreFails(p) PROVE Shared!SharedNext \/ UNCHANGED Shared!svars
  <2>1. Running(p) /\ (faults' = faults \/ faults' > 0)
    BY <1>7, <1>f DEF StoreFails, Running, Fails, RedisFault, Fault
  <2>2. faults' = 0 => p \in ended
    BY <1>7, <1>f, <2>1 DEF StoreFails, Fails, RedisFault, Fault, FlightInv, LockHeld
  <2>3. Shared!End(p, "ok")
    BY <1>7, <1>f, <2>1, <2>2, Ends DEF StoreFails, ReturnOwn
  <2> QED
    BY <2>3
<1>8. ASSUME NEW p \in Proc, Leave(p) PROVE Shared!SharedNext \/ UNCHANGED Shared!svars
  <2>1. Goto(p, "idle") /\ pc[p] = "done"
    BY <1>8 DEF Leave
  <2>2. Phase(p) = "done" /\ Phase(p)' = "out"
    BY <2>1, Phases, PhasesNext DEF Goto, FlightInv, FTypeOK, ControlType
  <2>3. [q \in Proc |-> Phase(q)]' = [[q \in Proc |-> Phase(q)] EXCEPT ![p] = "out"]
    BY <2>1, <2>2, PhaseMoves DEF FlightInv, PC
  <2>4. \A q \in Inside : pc'[q] = pc[q]
    BY <2>1 DEF Goto, FlightInv, FTypeOK, ControlType, Inside
  <2>5. {Home[q] : q \in Awaiting}' = {Home[q] : q \in Awaiting}
    BY <1>8, <2>4, OwedSame DEF Leave
  <2>6. Shared!Leave(p)
    BY <1>8, <2>2, <2>3, <2>5 DEF Shared!Leave, Leave, shared
  <2> QED
    BY <2>6
<1>9. ASSUME NEW p \in Proc, LoseLock(p) PROVE Shared!SharedNext \/ UNCHANGED Shared!svars
  <2>1. pc' = pc /\ UNCHANGED <<local, ended, during>>
    BY <1>9 DEF LoseLock, calls, history
  <2>2. [q \in Proc |-> Phase(q)]' = [q \in Proc |-> Phase(q)]
    BY <2>1 DEF Phase
  <2>3. {Home[q] : q \in Awaiting}' = {Home[q] : q \in Awaiting}
    BY <2>1, OwedSame
  <2>4. (faults' = 0) = FALSE
    BY <1>9, <1>f DEF LoseLock, Fault
  <2>5. Shared!Lose
    BY <1>9, <2>1, <2>2, <2>3, <2>4 DEF Shared!Lose, LoseLock, calls
  <2> QED
    BY <2>5
<1>10. ASSUME NEW p \in Proc, EndContext(p) PROVE Shared!SharedNext \/ UNCHANGED Shared!svars
  <2>1. /\ pc' = pc /\ UNCHANGED <<answer, stored, completed, local, faults, during>>
        /\ Timeouts /\ p \in Inside /\ ended' = ended \cup {p}
    BY <1>10 DEF EndContext, calls, history
  <2>2. [q \in Proc |-> Phase(q)]' = [q \in Proc |-> Phase(q)]
    BY <2>1 DEF Phase
  <2>3. Phase(p) \in {"waiting", "running"}
    BY <2>1, Phases DEF FlightInv, FTypeOK, Inside, Running
  <2>4. Awaiting' = Awaiting \ {p}
    BY <2>1 DEF Awaiting
  <2>5. {Home[q] : q \in Awaiting}' = {Home[q] : q \in Awaiting \ {p}}
    BY <2>4
  <2>6. {Home[q] : q \in Awaiting}' = {Home[q] : q \in Awaiting} \ {Home[p]}
    BY <2>1, <2>5, OwedElsewhere
  <2>7. (local \cup ended)' = (local \cup ended) \cup {p}
    BY <2>1
  <2>8. Shared!Overrun(p)
    BY <2>1, <2>2, <2>3, <2>6, <2>7 DEF Shared!Overrun
  <2> QED
    BY <2>8
<1>11. ASSUME ExpireResult PROVE Shared!SharedNext \/ UNCHANGED Shared!svars
  <2>1. pc' = pc /\ UNCHANGED <<answer, completed, local, ended, faults, during>>
    BY <1>11 DEF ExpireResult, calls
  <2>2. [q \in Proc |-> Phase(q)]' = [q \in Proc |-> Phase(q)]
    BY <2>1 DEF Phase
  <2>3. {Home[q] : q \in Awaiting} = {}
    BY <1>11 DEF ExpireResult, Awaiting
  <2>4. {Home[q] : q \in Awaiting}' = {Home[q] : q \in Awaiting}
    BY <2>1, OwedSame
  <2>5. (stored' # None) = FALSE
    BY <1>11 DEF ExpireResult
  <2>6. Shared!Forget
    BY <2>1, <2>2, <2>3, <2>4, <2>5 DEF Shared!Forget
  <2> QED
    BY <2>6
<1>12. ASSUME ExpireLock PROVE UNCHANGED Shared!svars
  <2>1. pc' = pc /\ UNCHANGED <<answer, stored, completed, local, ended, faults, during>>
    BY <1>12 DEF ExpireLock, calls, history
  <2>2. [q \in Proc |-> Phase(q)]' = [q \in Proc |-> Phase(q)]
    BY <2>1 DEF Phase
  <2>3. {Home[q] : q \in Awaiting}' = {Home[q] : q \in Awaiting}
    BY <2>1, OwedSame
  <2> QED
    BY <2>1, <2>2, <2>3 DEF Shared!svars
<1>13. ASSUME NEW i \in Instance, Crash(i) PROVE Shared!SharedNext \/ UNCHANGED Shared!svars
  <2> DEFINE gone == {p \in Proc : Home[p] = i}
  <2>1. \A q \in Proc : pc'[q] = IF q \in gone THEN "idle" ELSE pc[q]
    BY <1>13 DEF Crash
  <2>2. \A q \in Proc : Phase(q)' = IF q \in gone THEN "out" ELSE Phase(q)
    <3>1. ASSUME NEW q \in Proc, q \in gone PROVE Phase(q)' = "out"
      BY <2>1, <3>1, PhasesNext
    <3>2. ASSUME NEW q \in Proc, q \notin gone PROVE Phase(q)' = Phase(q)
      BY <2>1, <3>2 DEF Phase
    <3> QED
      BY <3>1, <3>2
  <2>3. /\ (local \cup ended)' = (local \cup ended) \ gone
        /\ completed' = completed \ gone /\ during' = during \ gone
    BY <1>13 DEF Crash
  <2>4. Awaiting' = Awaiting \ gone
    BY <1>13, <2>1 DEF Crash, Awaiting, FlightInv, FTypeOK, InsideType, Inside
  <2>5. Awaiting \subseteq Proc
    BY DEF Awaiting, FlightInv, FTypeOK, InsideType, Inside
  <2>6. {Home[q] : q \in Awaiting}' = {Home[q] : q \in Awaiting \ gone}
    BY <2>4
  <2>7. {Home[q] : q \in Awaiting}' = {Home[q] : q \in Awaiting} \ {i}
    BY <2>5, <2>6
  <2>8. (faults' = 0) = FALSE
    BY <1>13, <1>f DEF Crash, Fault
  <2>9. (stored' # None) = (stored # None) \/ (stored' # None) = FALSE
    BY <1>13 DEF Crash
  <2>10. Shared!Crash(i)
    BY <1>13, <2>2, <2>3, <2>7, <2>8, <2>9 DEF Shared!Crash, Crash
  <2> QED
    BY <2>10
<1> QED
  BY <1>1, <1>2, <1>3, <1>4, <1>5, <1>6, <1>7, <1>8, <1>9, <1>10, <1>11, <1>12, <1>13
     DEF FNext, Step

\* flight.Do keeps its promise, for any number of calls, instances and faults, with
\* and without Redis, in-flight-only or not, whoever passes its deadline and wherever:
\* Flight implements SharedFlight.
THEOREM DoKeepsItsPromise == FSpec => DoSharesRuns
<1>1. FInit => Shared!SharedInit
  <2> SUFFICES ASSUME FInit PROVE Shared!SharedInit
    OBVIOUS
  <2>1. [q \in Proc |-> Phase(q)] = [q \in Proc |-> "out"]
    BY DEF FInit, Phase
  <2>2. (stored # None) = FALSE /\ (faults = 0) = TRUE
    BY DEF FInit
  <2>3. {Home[q] : q \in Awaiting} = {} /\ local \cup ended = {}
    BY DEF FInit, Awaiting
  <2> QED
    BY <2>1, <2>2, <2>3 DEF FInit, Shared!SharedInit
<1>2. FlightInv /\ FlightInv' /\ [FNext]_fvars => [Shared!SharedNext]_(Shared!svars)
  <2>1. CASE UNCHANGED fvars
    <3>1. pc' = pc /\ UNCHANGED <<answer, stored, completed, local, ended, faults, during>>
      BY <2>1 DEF calls, fvars, shared, history
    <3>2. [q \in Proc |-> Phase(q)]' = [q \in Proc |-> Phase(q)]
      BY <3>1 DEF Phase
    <3>3. {Home[q] : q \in Awaiting}' = {Home[q] : q \in Awaiting}
      BY <3>1 DEF Awaiting
    <3> QED
      BY <3>1, <3>2, <3>3 DEF Shared!svars
  <2>2. CASE FNext
    BY <2>2, StepShared DEF FlightInv, FTypeOK
  <2> QED
    BY <2>1, <2>2
<1> QED
  BY <1>1, <1>2, FlightInvariant, PTL DEF FSpec, DoSharesRuns, Shared!SharedSpec
=============================================================================
