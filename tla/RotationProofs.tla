--------------------------- MODULE RotationProofs ---------------------------
(***************************************************************************)
(* The rotations of a device, where nothing fails and no deadline passes   *)
(* (~Timeouts): each token is rotated once, whoever races for it and on    *)
(* whichever instance, concurrent refreshes are not taken for theft, and   *)
(* no rotation is committed and then lost.  Then, whatever fails and       *)
(* whatever deadline passes: /refresh implements the abstract single       *)
(* flight of SharedFlight, for every token.                                *)
(***************************************************************************)
EXTENDS SessionsProofs

(***************************************************************************)
(* The inductive invariant: where nothing fails and no deadline passes,    *)
(* the rotations of a device follow each other.                            *)
(***************************************************************************)
\* No row is touched but by its own session, and calls on a row succeed.
NothingLost ==
    /\ blind = {} /\ tainted \subseteq issued \ rows
    /\ \A d \in issued : owner[d] = subject[d]
    /\ \A p \in Proc :
        /\ pc[p] = "del" => user[p] = subject[dev[p]]
        /\ pc[p] \in {"return", "got"} => res[p] = "ok" \/ dev[p] \notin rows
        /\ pc[p] = "updated" => res[p] = "ok" \/ dev[p] \notin rows
        /\ pc[p] = "bury" => ids[p] \cap rows = {}

\* One flight for each token.
LeadersApart ==
    /\ Redis => leads \subseteq holds
    /\ \A p, q \in leads : tok[p] = tok[q] => p = q

\* The generation of a device is that of the newest token, or the next one, which
\* one request is about to answer with; no token carries that one.
InTurn ==
    /\ \A d \in issued :
        \/ gen[d] = Last(d)
        \/ gen[d] = Last(d) + 1 /\ \E p \in Proc : Bumped(p) /\ Dev(tok[p]) = d
    /\ \A p \in Proc : Bumped(p) =>
        LET d == Dev(tok[p])
            g == Gen(tok[p]) IN
        /\ gen[d] = g + 1
        /\ IF hp[p] = "issue" THEN out[p] = g + 1 /\ out[p] <= floor[p] ELSE new[p] = g + 1
        /\ \A t \in held : Dev(t) = d => Gen(t) <= g
        /\ \A r \in results : Dev(r[1]) = d => r[2] <= g
        /\ \A q \in Proc : Dev(tok[q]) = d => Gen(tok[q]) <= g
    /\ \A p \in Proc :
        LET d == Dev(tok[p])
            g == Gen(tok[p]) IN
        /\ hp[p] = "update" /\ pc[p] = "bump" /\ d \in rows => gen[d] = g
        /\ hp[p] \in {"rotate", "rotate-again"} => gen[d] = g \/ floor[p] > g

\* A generation left behind was replaced by an answer, or soon will be; a request
\* that began before that finds the stored answer.
AnswersKept ==
    /\ \A d \in rows : \A g \in 1..(gen[d] - 1) :
        <<d, g>> \in spent \/ \E p \in Proc : Bumped(p) /\ tok[p] = <<d, g>>
    /\ \A p \in Proc \ replays : tok[p] \in spent =>
        /\ hp[p] = "flight" => Stored(tok[p]) # {}
        /\ hp[p] \notin Rotating

\* The newest token of a device is held, or on its way to the client.
NewestKept ==
    /\ \A d \in rows :
        \/ <<d, gen[d]>> \in held
        \/ \E p \in Proc : Dev(tok[p]) = d /\ (Bumped(p) \/ LoggingIn(p))
    /\ \A p \in Proc : LoggingIn(p) =>
        /\ Gen(tok[p]) = 1 /\ gen[Dev(tok[p])] = 1
        /\ \A t \in held : Dev(t) # Dev(tok[p])
        /\ \A r \in results : Dev(r[1]) # Dev(tok[p])
        /\ \A q \in Proc \ {p} : Dev(tok[q]) # Dev(tok[p])
        /\ hp[p] = "login-undo" /\ Dev(tok[p]) \in rows => pc[p] = "del" /\ dev[p] = Dev(tok[p])

RotationInv ==
    ~Timeouts /\ faults = 0 =>
        /\ NothingLost /\ LeadersApart /\ InTurn /\ AnswersKept /\ NewestKept
        /\ ConcurrentRefreshIsNotTheft

(***************************************************************************)
(* What can happen without a failure.                                      *)
(***************************************************************************)
Sound == ~Timeouts /\ faults = 0 /\ faults' = 0

\* Without a failure no call of Fault.
LEMMA NoFault ==
  ASSUME Sound
  PROVE  ~Fault /\ ~CacheFault /\ ~Timeouts
  BY DEF Sound, Fault, CacheFault

\* Every failure is counted.
LEMMA FaultsGrow ==
  ASSUME TypeOK, StoreNext
  PROVE  faults \in Nat /\ (faults' = faults \/ (faults' # faults /\ faults' > 0))
<1>1. faults \in Nat
  BY BoundAssumption DEF TypeOK, HistoryType
<1>2. faults' = faults \/ Fault
  <2>1. ASSUME NEW p \in Proc, Step(p) PROVE faults' = faults \/ Fault
    BY <2>1 DEF Step, CacheGet, LoadDo, LoadQuery, LoadSet, LoadReturn, Bump, Peek, Reread,
        Publish, DeleteDevice, DeleteAllDevices, DeleteRows, Bury, CacheFault
  <2>2. ASSUME NEW p \in Proc, Turn(p) PROVE faults' = faults \/ Fault
    BY <2>2 DEF Turn, MayFail
  <2>3. ASSUME Outside PROVE faults' = faults \/ Fault
    BY <2>3 DEF Outside, CreateUser, Expire, Evict
  <2>4. ASSUME (\E d \in Device, u \in User : SaveDeviceSecret(d, u))
               \/ (\E i \in Instance : Crash(i)) \/ Elsewhere
        PROVE  faults' = faults \/ Fault
    BY <2>4 DEF SaveDeviceSecret, Crash, Elsewhere, MayFail
  <2> QED
    BY <2>1, <2>2, <2>3, <2>4 DEF StoreNext, MayFail
<1> QED
  BY <1>1, <1>2 DEF Fault

\* Failures are never forgotten.
LEMMA FaultsCount ==
  ASSUME TypeOK, StoreNext, faults' = 0
  PROVE  faults = 0
  BY FaultsGrow

\* Nobody's request is touched by a step of others.
Unmoved(q) ==
    /\ hp'[q] = hp[q] /\ tok'[q] = tok[q] /\ out'[q] = out[q]
    /\ pc'[q] = pc[q] /\ dev'[q] = dev[q] /\ user'[q] = user[q] /\ floor'[q] = floor[q]
    /\ val'[q] = val[q] /\ new'[q] = new[q] /\ ids'[q] = ids[q] /\ res'[q] = res[q]
    /\ q \in leads' <=> q \in leads
    /\ q \in replays' <=> q \in replays

\* The table, and what the proofs record about it, stay as they are.
TableKept == UNCHANGED <<rows, gen, owner, issued, tainted, settled, blind>>

\* The step of a handler concerns its own request, and those that its flight answers.
Acts(p) ==
    \/ \E h \in Places : Moves(p, h)
    \/ \E s \in Statuses : Lands(p, s)
    \/ Leads(p) \/ Joins(p) \/ LoginEnds(p) \/ Send(p) \/ Receive(p)

\* An outside event without failure, and what expires, concern nobody.
Passes ==
    /\ TableKept /\ UNCHANGED <<request, subject, held, leads, spent, replays, pc, args, locals>>
    /\ \/ holds' = holds /\ results' = results
       \/ holds' = holds /\ \E r \in results : ExpireResult(r)

\* Without a failure the steps are those of handlers and calls, and what passes.
LEMMA SoundSteps ==
  ASSUME Sound, Shapes
  PROVE  \/ \E p \in Proc : Acts(p) \/ DeletesUser(p) \/ LoginBegins(p)
                              \/ (Step(p) /\ UNCHANGED sessions)
         \/ Passes
<1>1. ~Fault
  BY NoFault
<1>2. ASSUME Outside, UNCHANGED sessions PROVE Passes
  BY <1>1, <1>2 DEF Outside, CreateUser, Expire, Evict, Passes, TableKept, sessions, flights, db,
      history, args, locals
<1>3. ASSUME UNCHANGED svars PROVE Passes
  BY <1>3 DEF svars, sessions, vars, Passes, TableKept, flights, db, history, args, locals
<1>4. ASSUME (\E r \in results : ExpireResult(r)) \/ (\E t \in locked : ExpireLock(t)) PROVE Passes
  BY <1>4 DEF ExpireResult, ExpireLock, vars, Passes, TableKept, db, history, args, locals
<1>5. (\A i \in Instance : ~SCrash(i)) /\ \A p \in Proc : ~LoseLock(p)
  BY <1>1 DEF SCrash, Crash, LoseLock, RedisFails, CacheFault, Sound
<1> QED
  BY <1>2, <1>3, <1>4, <1>5 DEF Shapes, Acts

\* Others are unmoved by what a handler does; the table is kept.
LEMMA ActsAlone ==
  ASSUME Basic, NEW p \in Proc, Acts(p)
  PROVE  /\ TableKept /\ subject' = subject
         /\ \A q \in Proc \ {p} : Unmoved(q) \/
              (q \in Landing(p) /\ hp[q] = "join" /\ hp'[q] = "landed" /\ tok'[q] = tok[q]
                  /\ pc[q] = "idle" /\ pc'[q] = "idle" /\ out'[q] = out[q] /\ floor'[q] = floor[q]
                  /\ (q \in replays' <=> q \in replays)
                  /\ (q \in leads' <=> q \in leads))
<1>0. /\ \A q \in Proc : InPlace(q)
      /\ hp \in [Proc -> Places] /\ tok \in [Proc -> (Device \cup {None}) \X Nat]
      /\ out \in [Proc -> Nat]
  BY DEF Basic, STypeOK
<1> USE DEF args, locals, db, history, TableKept, Unmoved
<1>1. ASSUME NEW h, Moves(p, h)
      PROVE  TableKept /\ subject' = subject /\ \A q \in Proc \ {p} : Unmoved(q)
  <2>1. TableKept /\ UNCHANGED <<tok, subject, leads, replays>> /\ hp' = [hp EXCEPT ![p] = h]
    BY <1>1 DEF Moves, rest, flights, To, Quiet
  <2>2. \A q \in Proc \ {p} : out'[q] = out[q]
    BY <1>0, <1>1 DEF Moves
  <2> QED
    BY <1>0, <1>1, <2>1, <2>2 DEF Moves, NoCall, Enter
<1>2. ASSUME NEW s, Lands(p, s)
      PROVE  /\ TableKept /\ subject' = subject
             /\ \A q \in Proc \ {p} : Unmoved(q) \/
                  (q \in Landing(p) /\ hp[q] = "join" /\ hp'[q] = "landed" /\ tok'[q] = tok[q]
                    /\ pc[q] = "idle" /\ pc'[q] = "idle" /\ out'[q] = out[q] /\ floor'[q] = floor[q]
                    /\ (q \in replays' <=> q \in replays)
                    /\ (q \in leads' <=> q \in leads))
  <2>1. TableKept /\ UNCHANGED <<tok, out, subject, replays>> /\ leads' = leads \ {p}
    BY <1>2 DEF Lands, Quiet
  <2>2. \A q \in Proc \ {p} : /\ pc'[q] = pc[q] /\ dev'[q] = dev[q] /\ user'[q] = user[q]
                              /\ floor'[q] = floor[q] /\ val'[q] = val[q] /\ new'[q] = new[q]
                              /\ ids'[q] = ids[q] /\ res'[q] = res[q]
    BY <1>2 DEF Lands, NoCall, Enter
  <2>3. \A q \in Proc : hp'[q] = IF q \in Landing(p) THEN "landed" ELSE hp[q]
    BY <1>2 DEF Lands
  <2>4. \A q \in Landing(p) \ {p} : hp[q] = "join" /\ q \in Proc
    BY DEF Landing, SameFlight
  <2>5. \A q \in Proc : hp[q] = "join" => pc[q] = "idle"
    BY <1>0 DEF InPlace, Between
  <2> QED
    BY <2>1, <2>2, <2>3, <2>4, <2>5
<1>3. ASSUME Leads(p)
      PROVE  TableKept /\ subject' = subject /\ \A q \in Proc \ {p} : Unmoved(q)
  BY <1>0, <1>3 DEF Leads, To, Enter, Quiet
<1>4. ASSUME Joins(p)
      PROVE  TableKept /\ subject' = subject /\ \A q \in Proc \ {p} : Unmoved(q)
  BY <1>0, <1>4 DEF Joins, To, vars, flights
<1>5. ASSUME LoginEnds(p)
      PROVE  TableKept /\ subject' = subject /\ \A q \in Proc \ {p} : Unmoved(q)
  BY <1>0, <1>5 DEF LoginEnds, Answer, To, EndCall, Enter, stored, flights
<1>6. ASSUME Send(p)
      PROVE  TableKept /\ subject' = subject /\ \A q \in Proc \ {p} : Unmoved(q)
  BY <1>0, <1>6 DEF Send, To, StartCall, Enter, stored, vars, flights
<1>7. ASSUME Receive(p)
      PROVE  TableKept /\ subject' = subject /\ \A q \in Proc \ {p} : Unmoved(q)
  BY <1>0, <1>7 DEF Receive, vars, flights
<1> QED
  BY <1>1, <1>2, <1>3, <1>4, <1>5, <1>6, <1>7 DEF Acts

(***************************************************************************)
(* What a call does without a failure.                                     *)
(***************************************************************************)
\* p's UPDATE finds the row.
Bumps(p) ==
    /\ pc[p] = "bump" /\ dev[p] \in rows
    /\ gen' = [gen EXCEPT ![dev[p]] = @ + 1] /\ new' = [new EXCEPT ![p] = gen[dev[p]] + 1]
    /\ pc' = [pc EXCEPT ![p] = "peek"] /\ res' = res /\ settled' = settled /\ rows' = rows

\* p's UpdateDeviceSecret is done.
Settles(p) ==
    /\ pc[p] \in PastUpdate /\ pc'[p] = "updated" /\ res'[p] = "ok"
    /\ settled' = Settle(dev[p], new[p]) /\ gen' = gen

\* A step of a call, in the terms of the rotations.
LEMMA StepEffects ==
  ASSUME Sound, TypeOK, NEW p \in Proc, Step(p)
  PROVE  /\ UNCHANGED <<dev, user, floor, issued, owner, blind>> /\ rows' \subseteq rows
         /\ Bumps(p) \/ (gen' = gen /\ new' = new)
         /\ settled' = settled \/ Settles(p)
         /\ \A q \in Proc :
             /\ pc[q] \in PastUpdate =>
                    pc'[q] \in PastUpdate \/ (pc'[q] = "updated" /\ res'[q] = "ok")
             /\ pc'[q] \in PastUpdate => pc[q] \in PastUpdate \/ (q = p /\ Bumps(p))
             /\ pc'[q] = "updated" =>
                    \/ pc[q] = "updated" /\ res'[q] = res[q]
                    \/ pc[q] \in PastUpdate
                    \/ pc[q] = "bump" /\ res'[q] = "err" /\ dev[q] \notin rows
             /\ pc[q] = "updated" => pc'[q] = "updated" /\ res'[q] = res[q]
             /\ pc'[q] = "bump" => pc[q] = "bump"
             /\ pc'[q] = "del" => pc[q] = "del"
<1>0. ~Fault /\ ~CacheFault
  BY NoFault
<1> USE DEF args, locals, db, history, TypeOK, ControlType, LocalType, PastUpdate
<1>1. CASE CacheGet(p) \/ LoadDo(p) \/ LoadQuery(p) \/ LoadSet(p)
  BY <1>0, <1>1 DEF CacheGet, LoadDo, LoadQuery, LoadSet, Goto, Result
<1>2. CASE LoadReturn(p)
  BY <1>2 DEF LoadReturn, Waiters
<1>3. CASE Bump(p)
  BY <1>0, <1>3 DEF Bump, Goto, Result, Bumps
<1>4. CASE Peek(p)
  BY <1>0, <1>4 DEF Peek, Goto
<1>5. CASE Reread(p)
  BY <1>0, <1>5 DEF Reread, Goto, Result, Settles
<1>6. CASE Publish(p)
  BY <1>0, <1>6 DEF Publish, Goto, Result, Settles
<1>7. CASE DeleteDevice(p) \/ DeleteAllDevices(p)
  BY <1>0, <1>7 DEF DeleteDevice, DeleteAllDevices, DeleteRows, Goto, Result
<1>8. CASE Bury(p)
  BY <1>0, <1>8 DEF Bury, Goto, Result
<1> QED
  BY <1>1, <1>2, <1>3, <1>4, <1>5, <1>6, <1>7, <1>8 DEF Step

(***************************************************************************)
(* NothingLost                                                             *)
(***************************************************************************)
\* A handler goes on with its call as it was, or with a fresh one on its token's device,
\* which it deletes in the name of the user whom the token names.
LEMMA ActsCall ==
  ASSUME Basic, NEW p \in Proc, Acts(p)
  PROVE  \/ UNCHANGED <<pc, args, locals>>
         \/ pc'[p] \in {"idle", "get", "bump", "delall"}
         \/ pc'[p] = "del" /\ dev'[p] = Dev(tok[p]) /\ user'[p] = subject[Dev(tok[p])]
<1>1. ASSUME NEW h, Moves(p, h)
      PROVE  \/ UNCHANGED <<pc, args, locals>>
             \/ pc'[p] \in {"idle", "get", "bump", "delall"}
             \/ pc'[p] = "del" /\ dev'[p] = Dev(tok[p]) /\ user'[p] = subject[Dev(tok[p])]
  BY <1>1 DEF Moves, NoCall, Enter
<1>2. ASSUME NEW s, Lands(p, s)
      PROVE  UNCHANGED <<pc, args, locals>> \/ pc'[p] = "idle"
  BY <1>2 DEF Lands, NoCall, Enter
<1>3. ASSUME Leads(p) \/ LoginEnds(p) PROVE pc'[p] \in {"idle", "get"}
  BY <1>3 DEF Leads, LoginEnds, EndCall, Enter
<1>4. ASSUME Joins(p) \/ Receive(p) PROVE UNCHANGED <<pc, args, locals>>
  BY <1>4 DEF Joins, Receive, vars, args, locals
<1>5. ASSUME Send(p) PROVE UNCHANGED <<pc, args, locals>> \/ pc'[p] = "get"
  BY <1>5 DEF Send, StartCall, Enter, vars, args, locals
<1> QED
  BY <1>1, <1>2, <1>3, <1>4, <1>5 DEF Acts

\* What NothingLost says of a process.
CallKept(p) ==
    /\ pc[p] = "del" => user[p] = subject[dev[p]]
    /\ pc[p] \in {"return", "got"} => res[p] = "ok" \/ dev[p] \notin rows
    /\ pc[p] = "updated" => res[p] = "ok" \/ dev[p] \notin rows
    /\ pc[p] = "bury" => ids[p] \cap rows = {}

\* Without a failure rows are lost only with their sessions, and calls on rows succeed.
LEMMA NothingLostNext ==
  ASSUME Sound, Shapes, SessionInv, NothingLost
  PROVE  NothingLost'
<1>0. /\ Basic /\ TypeOK /\ blind = {} /\ tainted \subseteq issued \ rows
      /\ \A d \in issued : owner[d] = subject[d]
      /\ \A q \in Proc : CallKept(q)
  BY DEF SessionInv, Basic, STypeOK, NothingLost, CallKept
<1>a. ~Fault /\ ~CacheFault
  BY NoFault
<1>b. rows \subseteq issued /\ issued \subseteq Device
  BY <1>0 DEF TypeOK, TableType
<1>1. ASSUME NEW p \in Proc, Acts(p) PROVE NothingLost'
  <2>1. /\ TableKept /\ subject' = subject
        /\ \A q \in Proc \ {p} : Unmoved(q) \/ pc'[q] = "idle"
    BY <1>0, <1>1, ActsAlone
  <2>2. \A q \in Proc \ {p} : CallKept(q)'
    BY <1>0, <2>1 DEF CallKept, Unmoved, TableKept
  <2>3. CallKept(p)'
    BY <1>0, <1>1, <2>1, ActsCall DEF CallKept, TableKept, args, locals
  <2>4. \A q \in Proc : CallKept(q)'
    BY <2>2, <2>3
  <2> QED
    BY <1>0, <2>1, <2>4 DEF NothingLost, TableKept, CallKept
<1>2. ASSUME NEW p \in Proc, Step(p), UNCHANGED sessions PROVE NothingLost'
  <2>1. /\ UNCHANGED <<dev, user, issued, owner, blind, subject>> /\ rows' \subseteq rows
    BY <1>0, <1>2, StepEffects DEF sessions
  <2>2. \A q \in Proc : (pc'[q] = "del" => user'[q] = subject'[dev'[q]])
                        /\ (pc'[q] = "updated" => res'[q] = "ok" \/ dev'[q] \notin rows')
    BY <1>0, <1>2, <2>1, StepEffects DEF CallKept, PastUpdate
  <2>3. ASSUME NEW q \in Proc, pc'[q] \in {"return", "got"}
        PROVE  res'[q] = "ok" \/ dev'[q] \notin rows'
    <3>1. CASE CacheGet(p) \/ LoadDo(p) \/ LoadQuery(p) \/ LoadSet(p)
      BY <1>0, <1>a, <2>1, <2>3, <3>1 DEF CacheGet, LoadDo, LoadQuery, LoadSet, Goto, Result,
          CallKept, TypeOK, ControlType, LocalType, locals
    <3>2. CASE LoadReturn(p)
      BY <1>0, <2>1, <2>3, <3>2 DEF LoadReturn, Waiters, CallKept
    <3>3. CASE Bump(p) \/ Peek(p) \/ Reread(p) \/ Publish(p)
      BY <1>0, <1>a, <2>1, <2>3, <3>3 DEF Bump, Peek, Reread, Publish, Goto, Result,
          CallKept, TypeOK, ControlType, LocalType
    <3>4. CASE DeleteDevice(p) \/ DeleteAllDevices(p) \/ Bury(p)
      BY <1>0, <1>a, <2>1, <2>3, <3>4 DEF DeleteDevice, DeleteAllDevices, DeleteRows, Bury, Goto,
          Result, CallKept, TypeOK, ControlType, LocalType
    <3> QED
      BY <1>2, <3>1, <3>2, <3>3, <3>4 DEF Step
  <2>4. tainted' = tainted /\ \A q \in Proc : pc'[q] = "bury" => ids'[q] \cap rows' = {}
    <3>1. CASE CacheGet(p) \/ LoadDo(p) \/ LoadQuery(p) \/ LoadSet(p)
      BY <1>0, <1>a, <2>1, <3>1 DEF CacheGet, LoadDo, LoadQuery, LoadSet, Goto,
          CallKept, TypeOK, ControlType, history, locals
    <3>2. CASE LoadReturn(p)
      BY <1>0, <2>1, <3>2 DEF LoadReturn, CallKept, history
    <3>3. CASE Bump(p) \/ Peek(p) \/ Reread(p) \/ Publish(p)
      BY <1>0, <1>a, <2>1, <3>3 DEF Bump, Peek, Reread, Publish, Goto,
          CallKept, TypeOK, ControlType, history
    <3>4. CASE DeleteDevice(p)
      <4>1. dev[p] \in issued /\ owner[dev[p]] = user[p]
        BY <1>0, <3>4 DEF DeleteDevice, TypeOK, ControlType, CallKept
      <4>2. {dev[p]} \cap (rows \ Owned(user[p], {dev[p]})) = {}
        BY <4>1 DEF Owned
      <4>3. /\ rows' = rows \ Owned(user[p], {dev[p]}) /\ ids' = [ids EXCEPT ![p] = {dev[p]}]
            /\ tainted' = tainted /\ pc' = [pc EXCEPT ![p] = "bury"]
        BY <1>a, <3>4 DEF DeleteDevice, DeleteRows, Goto
      <4>4. /\ ids'[p] = {dev[p]}
            /\ \A q \in Proc \ {p} : ids'[q] = ids[q] /\ pc'[q] = pc[q]
        BY <1>0, <4>3 DEF TypeOK, ControlType, LocalType
      <4>5. ids'[p] \cap rows' = {}
        BY <4>2, <4>3, <4>4
      <4>6. ASSUME NEW q \in Proc \ {p}, pc'[q] = "bury" PROVE ids'[q] \cap rows' = {}
        BY <1>0, <2>1, <4>3, <4>4, <4>6 DEF CallKept
      <4> QED
        BY <4>3, <4>5, <4>6
    <3>5. CASE DeleteAllDevices(p)
      BY <1>0, <1>a, <2>1, <3>5 DEF DeleteAllDevices, DeleteRows, Goto, CallKept, TypeOK,
          ControlType, LocalType
    <3>6. CASE Bury(p)
      BY <1>0, <1>a, <2>1, <3>6 DEF Bury, Goto, CallKept, TypeOK, ControlType, LocalType, db
    <3> QED
      BY <1>2, <3>1, <3>2, <3>3, <3>4, <3>5, <3>6 DEF Step
  <2> QED
    BY <1>0, <2>1, <2>2, <2>3, <2>4 DEF NothingLost
<1>3. ASSUME NEW p \in Proc, DeletesUser(p) PROVE NothingLost'
  <2>1. UNCHANGED <<blind, issued, owner, subject, pc, args, locals>> /\ rows' \subseteq rows
    BY <1>3 DEF DeletesUser, DeleteUser, rest
  <2>2. tainted' \subseteq issued' \ rows'
    BY <1>0, <1>b, <1>3 DEF DeletesUser, DeleteUser, Owned
  <2>3. \A q \in Proc : CallKept(q)'
    BY <1>0, <2>1 DEF CallKept, args, locals
  <2> QED
    BY <1>0, <2>1, <2>2, <2>3 DEF NothingLost, CallKept
<1>4. ASSUME NEW p \in Proc, LoginBegins(p) PROVE NothingLost'
  <2>1. PICK d \in Device, u \in User :
          SaveDeviceSecret(d, u) /\ subject' = [subject EXCEPT ![d] = u]
    BY <1>4 DEF LoginBegins
  <2>2. /\ d \notin issued /\ rows' = rows \cup {d} /\ issued' = issued \cup {d}
        /\ UNCHANGED <<pc, args, locals, blind, tainted>>
        /\ owner' = [owner EXCEPT ![d] = u]
    BY <2>1 DEF SaveDeviceSecret, history
  <2>3. owner \in [Device -> User \cup {None}] /\ subject \in [Device -> User \cup {None}]
    BY <1>0 DEF Basic, STypeOK, TypeOK, TableType
  <2>4. /\ \A e \in issued' : owner'[e] = subject'[e]
        /\ \A e \in issued : subject'[e] = subject[e]
    BY <1>0, <1>b, <2>1, <2>2, <2>3
  <2>5. \A q \in Proc : /\ pc[q] \in {"del", "return", "got", "updated"} => dev[q] \in issued
                        /\ ids[q] \subseteq issued
    BY <1>0 DEF TypeOK, ControlType, LocalType
  <2>6. \A q \in Proc : CallKept(q)'
    BY <1>0, <2>2, <2>4, <2>5 DEF CallKept, args, locals
  <2> QED
    BY <1>0, <2>2, <2>4, <2>6 DEF NothingLost, CallKept
<1>5. ASSUME Passes PROVE NothingLost'
  BY <1>5 DEF Passes, TableKept, NothingLost, args, locals
<1> QED
  BY <1>1, <1>2, <1>3, <1>4, <1>5, SoundSteps

(***************************************************************************)
(* LeadersApart                                                            *)
(***************************************************************************)
\* Without a failure the lock, or the one instance, keeps a second flight of a token out.
LEMMA LeadersApartNext ==
  ASSUME Sound, Shapes, Basic, LeadersApart
  PROVE  LeadersApart'
<1>0. /\ \A q \in Proc : InPlace(q)
      /\ leads \subseteq Proc /\ holds \subseteq leads /\ {tok[q] : q \in holds} \subseteq locked
      /\ hp \in [Proc -> Places] /\ tok \in [Proc -> (Device \cup {None}) \X Nat]
  BY DEF Basic, STypeOK
<1>a. ~Fault /\ ~Timeouts
  BY NoFault
<1>1. ASSUME UNCHANGED <<leads, holds>>, \A q \in leads : tok'[q] = tok[q] PROVE LeadersApart'
  BY <1>1 DEF LeadersApart
<1>2. \A q \in Proc : hp[q] \in {"free", "reply", "landed"} => q \notin leads
  BY <1>0 DEF InPlace, Rotating
<1>3. ASSUME NEW p \in Proc, \/ \E h \in Places : Moves(p, h)
                             \/ Joins(p) \/ LoginEnds(p) \/ DeletesUser(p)
      PROVE  LeadersApart'
  BY <1>1, <1>3 DEF Moves, Joins, LoginEnds, DeletesUser, rest, flights
<1>4. ASSUME NEW p \in Proc, Send(p) \/ Receive(p) \/ LoginBegins(p) PROVE LeadersApart'
  BY <1>0, <1>1, <1>2, <1>4 DEF Send, Receive, LoginBegins, flights, At
<1>5. ASSUME NEW p \in Proc, NEW s, Lands(p, s) PROVE LeadersApart'
  BY <1>5 DEF Lands, LeadersApart
<1>6. ASSUME NEW p \in Proc, Leads(p) PROVE LeadersApart'
  <2>1. /\ leads' = leads \cup {p} /\ tok' = tok
        /\ holds' = IF Redis THEN holds \cup {p} ELSE holds
        /\ Unlocked(tok[p]) /\ SameFlight(p) \cap leads = {}
    BY <1>a, <1>6 DEF Leads
  <2>2. \A q \in leads : tok[q] # tok[p]
    <3>1. CASE Redis
      BY <1>0, <2>1, <3>1 DEF Unlocked, LeadersApart
    <3>2. CASE ~Redis
      BY <1>0, <2>1, <3>2, HomeAssumption, RedisAssumption DEF SameFlight
    <3> QED
      BY <3>1, <3>2
  <2> QED
    BY <1>0, <2>1, <2>2 DEF LeadersApart
<1>7. ASSUME UNCHANGED sessions \/ Passes PROVE LeadersApart'
  BY <1>1, <1>7 DEF sessions, flights, request, Passes, ExpireResult
<1> QED
  BY <1>3, <1>4, <1>5, <1>6, <1>7, SoundSteps DEF Acts

(***************************************************************************)
(* What a step does to the rotations under way.                            *)
(***************************************************************************)
\* A rotation is made by the leader of a flight, in UpdateDeviceSecret or after it.
LEMMA BumpedPlace ==
  ASSUME Basic, NEW q \in Proc
  PROVE  /\ Bumped(q) => q \in leads /\ hp[q] # "free" /\ hp[q] \in {"update", "issue"}
         /\ pc[q] \in Updating => hp[q] = "update" /\ dev[q] = Dev(tok[q]) /\ q \in leads
<1>1. InPlace(q) /\ hp[q] \in Places
  BY DEF Basic, STypeOK
<1> QED
  BY <1>1 DEF InPlace, Bumped, Rotating, Updating, Reading, Deleting, Places, Between, Verifying,
      Removing

\* q's flight ends after its rotation.
Ends(q) == Answered(q, "issue", "got") /\ \E s \in Statuses : Lands(q, s)

\* A rotation begins with the UPDATE and ends with the flight.
Follows(q) ==
    /\ Bumped(q) => tok'[q] = tok[q] /\ (Bumped(q)' \/ Ends(q))
    /\ Bumped(q)' =>
        /\ tok'[q] = tok[q]
        /\ \/ hp'[q] = "issue" /\ hp[q] = "issue" /\ out'[q] = out[q] /\ floor'[q] = floor[q]
           \/ /\ hp'[q] = "issue" /\ Answered(q, "update", "updated") /\ res[q] = "ok"
              /\ out'[q] = new[q] /\ floor'[q] = settled[Dev(tok[q])]
           \/ hp'[q] = "update" /\ Bumped(q) /\ hp[q] = "update" /\ new'[q] = new[q]
           \/ hp'[q] = "update" /\ Bumps(q) /\ hp[q] = "update"

\* Every step follows that order.
LEMMA BumpedSteps ==
  ASSUME Sound, Shapes, SessionInv
  PROVE  \A q \in Proc : Follows(q)
<1>0. /\ Basic /\ TypeOK /\ \A q \in Proc : InPlace(q)
      /\ hp \in [Proc -> Places] /\ tok \in [Proc -> (Device \cup {None}) \X Nat]
      /\ out \in [Proc -> Nat]
  BY DEF SessionInv, Basic, STypeOK
<1>1. ASSUME NEW q \in Proc, Unmoved(q) PROVE Follows(q)
  BY <1>1 DEF Unmoved, Follows, Bumped
<1>2. ASSUME NEW q \in Proc, hp[q] \notin {"update", "issue"}, hp'[q] \notin {"update", "issue"}
      PROVE  Follows(q)
  BY <1>2 DEF Follows, Bumped
<1>3. ASSUME NEW p \in Proc, Acts(p), NEW q \in Proc \ {p} PROVE Follows(q)
  BY <1>0, <1>1, <1>2, <1>3, ActsAlone
<1>4. ASSUME NEW p \in Proc, NEW h \in Places, Moves(p, h) PROVE Follows(p)
  <2>0. hp'[p] = h /\ tok'[p] = tok[p]
    BY <1>0, <1>4 DEF Moves, To, rest
  <2>1. CASE h = "issue"
    <3>1. /\ Answered(p, "update", "updated") /\ res[p] = "ok" /\ out'[p] = new[p]
          /\ Enter({p}, "get", Dev(tok[p]), None)
      BY <1>0, <1>4, <2>1 DEF Moves, Between, Removing
    <3>2. floor'[p] = settled[Dev(tok[p])]
      BY <3>1 DEF Enter
    <3> QED
      BY <2>0, <2>1, <3>1, <3>2 DEF Follows, Bumped
  <2>2. CASE h = "update"
    <3>1. Enter({p}, "bump", Dev(tok[p]), None) /\ hp[p] = "rotate-again"
      BY <1>4, <2>2 DEF Moves, Between, Removing, Verifying, Answered
    <3> QED
      BY <2>0, <2>2, <3>1 DEF Enter, Follows, Bumped, PastUpdate
  <2>3. CASE h \notin {"update", "issue"}
    <3>1. ~Bumped(p)
      BY <1>4, <2>3 DEF Moves
    <3> QED
      BY <2>0, <2>3, <3>1 DEF Follows, Bumped
  <2> QED
    BY <2>1, <2>2, <2>3
<1>5. ASSUME NEW p \in Proc, NEW s \in Statuses, Lands(p, s) PROVE Follows(p)
  <2>1. hp'[p] = "landed" /\ tok'[p] = tok[p]
    BY <1>5 DEF Lands, Landing
  <2>2. Bumped(p) => Answered(p, "issue", "got")
    BY <1>5 DEF Lands
  <2> QED
    BY <1>5, <2>1, <2>2 DEF Follows, Bumped, Ends
<1>6. ASSUME NEW p \in Proc, Leads(p) \/ Joins(p) \/ LoginEnds(p) \/ Receive(p) PROVE Follows(p)
  BY <1>0, <1>2, <1>6 DEF Leads, Joins, LoginEnds, Receive, At, Answered, To, Answer
<1>7. ASSUME NEW p \in Proc, Send(p) PROVE Follows(p)
  BY <1>0, <1>2, <1>7, RequestsAssumption DEF Send, At, To, Kinds
<1>8. ASSUME NEW p \in Proc, DeletesUser(p) \/ LoginBegins(p), NEW q \in Proc PROVE Follows(q)
  <2>1. CASE q = p
    BY <1>0, <1>2, <1>8, <2>1 DEF DeletesUser, LoginBegins, At, To, Answer
  <2>2. CASE q # p
    BY <1>0, <1>1, <1>8, <2>2 DEF DeletesUser, LoginBegins, DeleteUser, SaveDeviceSecret, To, Answer,
        rest, flights, args, locals, Unmoved
  <2> QED
    BY <2>1, <2>2
<1>9. ASSUME NEW p \in Proc, Step(p), UNCHANGED sessions, NEW q \in Proc PROVE Follows(q)
  <2>1. UNCHANGED <<hp, tok, out, floor>>
    BY <1>0, <1>9, StepEffects DEF sessions, request
  <2>2. CASE hp[q] = "issue"
    BY <2>1, <2>2 DEF Follows, Bumped
  <2>3. CASE hp[q] = "update"
    <3>1. Bumped(q) => Bumped(q)'
      BY <1>0, <1>9, <2>1, <2>3, StepEffects DEF Bumped
    <3>2. Bumped(q)' => Bumped(q) \/ (q = p /\ Bumps(p))
      BY <1>0, <1>9, <2>1, <2>3, StepEffects DEF Bumped, PastUpdate
    <3>3. new'[q] = new[q] \/ (q = p /\ Bumps(p))
      BY <1>0, <1>9, StepEffects DEF Bumps, TypeOK, LocalType
    <3> QED
      BY <2>1, <2>3, <3>1, <3>2, <3>3 DEF Follows
  <2> QED
    BY <1>2, <2>1, <2>2, <2>3
<1>10. ASSUME Passes, NEW q \in Proc PROVE Follows(q)
  BY <1>1, <1>10 DEF Passes, Unmoved, request, args, locals
<1> QED
  BY <1>3, <1>4, <1>5, <1>6, <1>7, <1>8, <1>9, <1>10, SoundSteps DEF Acts

\* Where the tokens that are handed out, stored and sent come from.
LEMMA TokenSteps ==
  ASSUME Sound, Shapes, SessionInv
  PROVE  /\ held \subseteq held' /\ spent \subseteq spent'
         /\ \A t \in held' : \/ t \in held
                             \/ \E q \in Proc : Lands(q, 200) /\ t = <<Dev(tok[q]), out[q]>>
                             \/ \E q \in Proc, r \in results :
                                  hp[q] # "free" /\ r[1] = tok[q] /\ t = <<Dev(tok[q]), r[2]>>
                             \/ \E q \in Proc : LoginEnds(q) /\ t = tok[q]
         /\ \A r \in results' : \/ r \in results
                                \/ \E q \in Proc : Lands(q, 200) /\ r = <<tok[q], out[q]>>
         /\ \A q \in Proc : \/ tok'[q] = tok[q]
                            \/ hp[q] = "free" /\ tok'[q] \in held
                            \/ LoginBegins(q)
                            \/ tok'[q] = NoToken
<1>0. Basic /\ tok \in [Proc -> (Device \cup {None}) \X Nat]
  BY DEF SessionInv, Basic, STypeOK
<1>1. ASSUME NEW p \in Proc, \/ \E h \in Places : Moves(p, h)
                             \/ DeletesUser(p) \/ UNCHANGED sessions \/ Passes
      PROVE  UNCHANGED <<held, spent, tok>> /\ results' \subseteq results
  BY <1>1 DEF Moves, DeletesUser, rest, flights, sessions, request, Passes, ExpireResult
<1>2. ASSUME Passes PROVE UNCHANGED <<held, spent, tok>> /\ results' \subseteq results
  BY <1>2 DEF Passes, request, ExpireResult
<1>3. ASSUME NEW p \in Proc, NEW s \in Statuses, Lands(p, s)
      PROVE  /\ tok' = tok
             /\ \/ UNCHANGED <<held, results, spent>>
                \/ /\ s = 200 /\ held' = held \cup {<<Dev(tok[p]), out[p]>>}
                   /\ spent' = spent \cup {tok[p]}
                   /\ results' \subseteq results \cup {<<tok[p], out[p]>>}
  BY <1>3 DEF Lands
<1>4. ASSUME NEW p \in Proc, Leads(p) PROVE UNCHANGED <<held, spent, tok, results>>
  BY <1>4 DEF Leads
<1>5. ASSUME NEW p \in Proc, Joins(p)
      PROVE  /\ UNCHANGED <<spent, tok, results>> /\ hp[p] # "free"
             /\ \/ held' = held
                \/ \E r \in results : r[1] = tok[p] /\ held' = held \cup {<<Dev(tok[p]), r[2]>>}
  BY <1>5 DEF Joins, At, flights, Stored
<1>6. ASSUME NEW p \in Proc, LoginEnds(p)
      PROVE  UNCHANGED <<spent, tok, results>> /\ held' = held \cup {tok[p]}
  BY <1>6 DEF LoginEnds, flights
<1>7. ASSUME NEW p \in Proc, Send(p) \/ Receive(p) \/ LoginBegins(p)
      PROVE  /\ UNCHANGED <<held, spent, results>>
             /\ \A q \in Proc : \/ tok'[q] = tok[q]
                                \/ hp[q] = "free" /\ tok'[q] \in held
                                \/ LoginBegins(q)
                                \/ tok'[q] = NoToken
  <2>1. CASE Send(p)
    BY <1>0, <2>1 DEF Send, flights, At
  <2>2. CASE Receive(p)
    BY <1>0, <2>2 DEF Receive, flights
  <2>3. CASE LoginBegins(p)
    <3>1. \A q \in Proc \ {p} : tok'[q] = tok[q]
      BY <1>0, <2>3 DEF LoginBegins
    <3> QED
      BY <2>3, <3>1 DEF LoginBegins, flights
  <2> QED
    BY <1>7, <2>1, <2>2, <2>3
<1> QED
  BY <1>1, <1>2, <1>3, <1>4, <1>5, <1>6, <1>7, SoundSteps DEF Acts

\* The generation of a device is changed by UPDATEs, what is settled by their ends.
LEMMA TableSteps ==
  ASSUME Sound, Shapes, SessionInv, NEW d \in issued
  PROVE  /\ d \in rows' => d \in rows
         /\ gen'[d] = gen[d] \/ \E q \in Proc : Bumps(q) /\ dev[q] = d /\ UNCHANGED sessions
         /\ settled'[d] = settled[d]
              \/ \E q \in Proc : Settles(q) /\ dev[q] = d /\ UNCHANGED sessions
<1>0. Basic /\ TypeOK /\ issued \subseteq Device /\ gen \in [Device -> Nat]
      /\ settled \in [Device -> Nat] /\ d \in Device
  BY DEF SessionInv, Basic, STypeOK, TypeOK, TableType, HistoryType
<1>1. ASSUME NEW p \in Proc, Acts(p) PROVE rows' = rows /\ gen' = gen /\ settled' = settled
  BY <1>0, <1>1, ActsAlone DEF TableKept
<1>2. ASSUME Passes PROVE rows' = rows /\ gen' = gen /\ settled' = settled
  BY <1>2 DEF Passes, TableKept
<1>3. ASSUME NEW p \in Proc, DeletesUser(p) PROVE rows' \subseteq rows /\ gen' = gen /\ settled' = settled
  BY <1>3 DEF DeletesUser, DeleteUser
<1>4. ASSUME NEW p \in Proc, LoginBegins(p)
      PROVE  (d \in rows' => d \in rows) /\ gen'[d] = gen[d] /\ settled' = settled
  BY <1>0, <1>4 DEF LoginBegins, SaveDeviceSecret, history
<1>5. ASSUME NEW p \in Proc, Step(p), UNCHANGED sessions
      PROVE  /\ rows' \subseteq rows
             /\ gen'[d] = gen[d] \/ (Bumps(p) /\ dev[p] = d /\ UNCHANGED sessions)
             /\ settled'[d] = settled[d] \/ (Settles(p) /\ dev[p] = d /\ UNCHANGED sessions)
  <2>1. rows' \subseteq rows /\ (Bumps(p) \/ gen' = gen)
        /\ (settled' = settled \/ Settles(p))
    BY <1>0, <1>5, StepEffects
  <2>2. Bumps(p) => gen'[d] = gen[d] \/ dev[p] = d
    BY <1>0 DEF Bumps
  <2>3. Settles(p) => settled'[d] = settled[d] \/ dev[p] = d
    BY <1>0 DEF Settles, Settle
  <2> QED
    BY <1>5, <2>1, <2>2, <2>3
<1> QED
  BY <1>1, <1>2, <1>3, <1>4, <1>5, SoundSteps

(***************************************************************************)
(* InTurn                                                                  *)
(***************************************************************************)
GenInTurn(d) ==
    \/ gen[d] = Last(d)
    \/ gen[d] = Last(d) + 1 /\ \E p \in Proc : Bumped(p) /\ Dev(tok[p]) = d
TokenInTurn(p) ==
    /\ gen[Dev(tok[p])] = Gen(tok[p]) + 1
    /\ IF hp[p] = "issue" THEN out[p] = Gen(tok[p]) + 1 /\ out[p] <= floor[p]
                          ELSE new[p] = Gen(tok[p]) + 1
NewestBut(p) ==
    /\ \A t \in held : Dev(t) = Dev(tok[p]) => Gen(t) <= Gen(tok[p])
    /\ \A r \in results : Dev(r[1]) = Dev(tok[p]) => r[2] <= Gen(tok[p])
    /\ \A q \in Proc : Dev(tok[q]) = Dev(tok[p]) => Gen(tok[q]) <= Gen(tok[p])
ReadyInTurn(p) ==
    LET d == Dev(tok[p])
        g == Gen(tok[p]) IN
    /\ hp[p] = "update" /\ pc[p] = "bump" /\ d \in rows => gen[d] = g
    /\ hp[p] \in {"rotate", "rotate-again"} => gen[d] = g \/ floor[p] > g

\* The parts of InTurn.
LEMMA InTurnParts ==
  InTurn <=> /\ \A d \in issued : GenInTurn(d)
             /\ \A p \in Proc : Bumped(p) => TokenInTurn(p) /\ NewestBut(p)
             /\ \A p \in Proc : ReadyInTurn(p)
  BY DEF InTurn, GenInTurn, TokenInTurn, NewestBut, ReadyInTurn

\* What InTurn and the invariants below it say about tokens and generations.
Ordered == SessionInv /\ NothingLost /\ LeadersApart /\ InTurn

\* The numbers are numbers, and a token given is at most the newest of its device.
LEMMA Numbers ==
  ASSUME Ordered
  PROVE  /\ \A d \in issued : /\ d \in Device /\ gen[d] \in Nat /\ settled[d] \in Nat
                              /\ Last(d) \in Nat \ {0} /\ Last(d) <= gen[d] /\ gen[d] <= Last(d) + 1
                              /\ settled[d] <= Last(d)
         /\ \A p \in Proc : hp[p] # "free" =>
                /\ Dev(tok[p]) \in issued /\ Gen(tok[p]) \in Nat \ {0} /\ Gen(tok[p]) <= Last(Dev(tok[p]))
         /\ \A p \in Proc : /\ tok[p] = <<Dev(tok[p]), Gen(tok[p])>>
                            /\ hp[p] = "free" => Dev(tok[p]) = None
                            /\ floor[p] \in Nat /\ out[p] \in Nat /\ new[p] \in Nat /\ val[p] \in Nat
<1>0. Basic /\ TypeOK /\ STypeOK /\ TokensGiven /\ \A p \in Proc : InPlace(p)
  BY DEF Ordered, SessionInv, Basic, STypeOK
<1>1. ASSUME NEW d \in issued
      PROVE  /\ d \in Device /\ gen[d] \in Nat /\ settled[d] \in Nat
             /\ Last(d) \in Nat \ {0} /\ Last(d) <= gen[d] /\ gen[d] <= Last(d) + 1
             /\ settled[d] <= Last(d)
  <2>1. d \in Device /\ gen[d] \in Nat /\ settled[d] \in Nat
    BY <1>0 DEF TypeOK, TableType, HistoryType
  <2>2. Last(d) \in Nat \ {0} /\ settled[d] <= Last(d)
    BY <2>1 DEF Last
  <2>3. gen[d] = Last(d) \/ gen[d] = Last(d) + 1
    BY InTurnParts DEF Ordered, GenInTurn
  <2> QED
    BY <2>1, <2>2, <2>3
<1>2. ASSUME NEW p \in Proc, hp[p] # "free"
      PROVE  Dev(tok[p]) \in issued /\ Gen(tok[p]) \in Nat \ {0} /\ Gen(tok[p]) <= Last(Dev(tok[p]))
  <2>1. Given(tok[p])
    BY <1>0, <1>2 DEF TokensGiven
  <2> QED
    BY <1>1, <2>1 DEF Given
<1>3. ASSUME NEW p \in Proc
      PROVE  /\ tok[p] = <<Dev(tok[p]), Gen(tok[p])>>
             /\ hp[p] = "free" => Dev(tok[p]) = None
             /\ floor[p] \in Nat /\ out[p] \in Nat /\ new[p] \in Nat /\ val[p] \in Nat
  <2>1. tok[p] \in (Device \cup {None}) \X Nat
    BY <1>0 DEF STypeOK
  <2>2. hp[p] = "free" => tok[p] = NoToken
    BY <1>0 DEF InPlace
  <2> QED
    BY <1>0, <2>1, <2>2 DEF NoToken, Dev, Gen, STypeOK, TypeOK, HistoryType, LocalType
<1> QED
  BY <1>1, <1>2, <1>3

\* One rotation of a device at a time.
LEMMA OneBumped ==
  ASSUME Ordered, NEW p \in Proc, NEW q \in Proc, Bumped(p), Bumped(q), Dev(tok[p]) = Dev(tok[q])
  PROVE  p = q
<1>0. Basic
  BY DEF Ordered, SessionInv, Basic
<1>1. p \in leads /\ q \in leads /\ hp[p] # "free" /\ hp[q] # "free"
  BY <1>0, BumpedPlace
<1>2. gen[Dev(tok[p])] = Gen(tok[p]) + 1 /\ gen[Dev(tok[p])] = Gen(tok[q]) + 1
  BY InTurnParts DEF Ordered, TokenInTurn
<1>3. Gen(tok[p]) = Gen(tok[q])
  BY <1>1, <1>2, Numbers
<1>4. tok[p] = tok[q]
  BY <1>3, Numbers
<1> QED
  BY <1>1, <1>4 DEF Ordered, LeadersApart

\* The UPDATE of q: its token is the newest and its generation that of the row; no other
\* rotation of the device is under way, and no other leader has the token.
LEMMA BumpsInTurn ==
  ASSUME Ordered, NEW q \in Proc, Bumps(q)
  PROVE  LET d == dev[q] IN
         /\ d = Dev(tok[q]) /\ hp[q] = "update" /\ hp[q] # "free" /\ q \in leads
         /\ gen[d] = Gen(tok[q]) /\ gen[d] = Last(d) /\ gen'[d] = gen[d] + 1 /\ d \in issued
         /\ new'[q] = gen[d] + 1
         /\ \A p \in Proc : Bumped(p) => Dev(tok[p]) # d
         /\ \A p \in leads : tok[p] = tok[q] => p = q
<1>0. Basic /\ TypeOK
  BY DEF Ordered, SessionInv, Basic, STypeOK
<1>1. dev[q] = Dev(tok[q]) /\ hp[q] = "update" /\ pc[q] = "bump" /\ q \in leads /\ dev[q] \in rows
  BY <1>0, BumpedPlace DEF Bumps, Updating
<1>2. gen[dev[q]] = Gen(tok[q])
  BY <1>1, InTurnParts DEF Ordered, ReadyInTurn
<1>3. dev[q] \in issued /\ gen[dev[q]] = Last(dev[q])
  BY <1>1, <1>2, Numbers
<1>4. gen'[dev[q]] = gen[dev[q]] + 1 /\ new'[q] = gen[dev[q]] + 1
  BY <1>0, <1>1, <1>3 DEF Bumps, TypeOK, TableType, LocalType
<1>5. ASSUME NEW p \in Proc, Bumped(p), Dev(tok[p]) = dev[q] PROVE FALSE
  <2>1. gen[dev[q]] = Gen(tok[p]) + 1 /\ Gen(tok[q]) <= Gen(tok[p])
    BY <1>1, <1>5, InTurnParts DEF Ordered, TokenInTurn, NewestBut
  <2> QED
    BY <1>0, <1>1, <1>2, <1>5, <2>1, Numbers, BumpedPlace
<1> QED
  BY <1>1, <1>2, <1>3, <1>4, <1>5 DEF Ordered, LeadersApart

\* A token that nobody is rotating is the current one, or older than what is settled.
LEMMA StartFloor ==
  ASSUME Ordered, NEW p \in Proc, hp[p] # "free",
         \A q \in Proc : Bumped(q) => tok[q] # tok[p]
  PROVE  gen[Dev(tok[p])] = Gen(tok[p]) \/ settled[Dev(tok[p])] > Gen(tok[p])
<1> DEFINE d == Dev(tok[p])
           g == Gen(tok[p])
<1>1. d \in issued /\ g \in Nat \ {0} /\ g <= Last(d)
  BY Numbers
<1>2. gen[d] \in Nat /\ settled[d] \in Nat /\ Last(d) \in Nat \ {0}
  BY <1>1, Numbers
<1>3. g < Last(d) => settled[d] > g
  BY <1>1, <1>2 DEF Last
<1>4. CASE gen[d] = Last(d)
  BY <1>1, <1>2, <1>3, <1>4
<1>5. CASE gen[d] = Last(d) + 1 /\ \E q \in Proc : Bumped(q) /\ Dev(tok[q]) = d
  <2>1. PICK q \in Proc : Bumped(q) /\ Dev(tok[q]) = d
    BY <1>5
  <2>2. gen[d] = Gen(tok[q]) + 1 /\ hp[q] # "free"
    BY <2>1, InTurnParts, BumpedPlace DEF Ordered, TokenInTurn, SessionInv, Basic
  <2>3. Gen(tok[q]) = Last(d)
    BY <1>2, <1>5, <2>2, Numbers
  <2>4. g # Last(d)
    BY <2>1, <2>3, Numbers
  <2> QED
    BY <1>1, <1>2, <1>3, <2>4
<1> QED
  BY <1>1, <1>4, <1>5, InTurnParts DEF Ordered, GenInTurn

\* A device that is issued is a login's.
LEMMA IssuedSteps ==
  ASSUME Sound, Shapes, SessionInv, NEW d \in issued', d \notin issued
  PROVE  /\ d \in Device /\ gen'[d] = 1 /\ settled'[d] = 0
         /\ \E p \in Proc : LoginBegins(p) /\ tok'[p] = <<d, 1>>
<1>0. Basic /\ TypeOK /\ gen \in [Device -> Nat] /\ tok \in [Proc -> (Device \cup {None}) \X Nat]
  BY DEF SessionInv, Basic, STypeOK, TypeOK, TableType
<1>1. ASSUME NEW p \in Proc, Acts(p) \/ DeletesUser(p) \/ Step(p) \/ Passes PROVE FALSE
  <2>1. issued' = issued
    BY <1>0, <1>1, ActsAlone, StepEffects DEF TableKept, DeletesUser, DeleteUser, Passes
  <2> QED
    BY <2>1
<1>2. ASSUME Passes PROVE FALSE
  BY <1>2 DEF Passes, TableKept
<1>3. PICK p \in Proc : LoginBegins(p)
  BY <1>1, <1>2, SoundSteps
<1>4. PICK e \in Device, u \in User : SaveDeviceSecret(e, u) /\ tok' = [tok EXCEPT ![p] = <<e, 1>>]
  BY <1>3 DEF LoginBegins
<1>5. e = d /\ gen'[d] = 1 /\ settled' = settled
  BY <1>0, <1>4 DEF SaveDeviceSecret, history
<1>6. settled[d] = 0
  BY <1>4, <1>5 DEF SessionInv, ReadsInv
<1> QED
  BY <1>0, <1>3, <1>4, <1>5, <1>6

\* A step taken where the rotations are in turn.
Going == Sound /\ Shapes /\ Ordered /\ SessionInv' /\ NothingLost' /\ LeadersApart'

\* The generation of a device stays the newest token's, or one ahead of it.
LEMMA GenInTurnNext ==
  ASSUME Going, NEW d \in issued'
  PROVE  GenInTurn(d)'
<1>0. Sound /\ Shapes /\ Ordered /\ SessionInv /\ Basic /\ TypeOK
  BY DEF Going, Ordered, SessionInv, Basic, STypeOK
<1>1. CASE d \notin issued
  BY <1>0, <1>1, IssuedSteps DEF GenInTurn, Last
<1>2. CASE d \in issued
  <2>0. /\ d \in Device /\ gen[d] \in Nat /\ settled[d] \in Nat
        /\ Last(d) \in Nat \ {0} /\ Last(d) <= gen[d] /\ gen[d] <= Last(d) + 1 /\ settled[d] <= Last(d)
    BY <1>0, <1>2, Numbers
  <2>1. CASE gen'[d] # gen[d]
    <3>1. PICK q \in Proc : Bumps(q) /\ dev[q] = d /\ UNCHANGED sessions
      BY <1>0, <1>2, <2>1, TableSteps
    <3>2. /\ d = Dev(tok[q]) /\ hp[q] = "update" /\ gen'[d] = Last(d) + 1
      BY <1>0, <3>1, BumpsInTurn
    <3>3. pc'[q] = "peek" /\ settled' = settled /\ hp' = hp /\ tok' = tok
      BY <1>0, <3>1 DEF Bumps, TypeOK, ControlType, sessions, request
    <3>4. Bumped(q)' /\ Last(d)' = Last(d)
      BY <3>2, <3>3 DEF Bumped, PastUpdate, Last
    <3> QED
      BY <3>2, <3>3, <3>4 DEF GenInTurn
  <2>2. CASE gen'[d] = gen[d] /\ settled'[d] # settled[d]
    <3>1. PICK q \in Proc : Settles(q) /\ dev[q] = d
      BY <1>0, <1>2, <2>2, TableSteps
    <3>2. hp[q] = "update" /\ d = Dev(tok[q]) /\ Bumped(q)
      BY <1>0, <3>1, BumpedPlace DEF Settles, Bumped, Updating, PastUpdate
    <3>3. new[q] = gen[d]
      BY <1>0, <3>2, InTurnParts DEF Ordered, TokenInTurn
    <3>4. settled'[d] = gen[d]
      BY <1>0, <2>0, <2>2, <3>1, <3>3 DEF Settles, Settle, TypeOK, HistoryType
    <3> QED
      BY <2>0, <2>2, <3>4 DEF GenInTurn, Last
  <2>3. CASE gen'[d] = gen[d] /\ settled'[d] = settled[d]
    <3>1. Last(d)' = Last(d)
      BY <2>3 DEF Last
    <3>2. CASE gen[d] = Last(d)
      BY <2>3, <3>1, <3>2 DEF GenInTurn
    <3>3. CASE \E p \in Proc : Bumped(p) /\ Dev(tok[p]) = d
      <4>1. PICK p \in Proc : Bumped(p) /\ Dev(tok[p]) = d
        BY <3>3
      <4>2. CASE Bumped(p)' /\ tok'[p] = tok[p]
        BY <2>0, <2>3, <3>1, <4>1, <4>2, <1>0, InTurnParts, <1>2 DEF GenInTurn, Ordered
      <4>3. CASE Ends(p)
        <5>1. hp[p] = "issue"
          BY <4>3 DEF Ends, Answered
        <5>2. out[p] = gen[d] /\ Given(<<d, out[p]>>)
          BY <1>0, <4>1, <5>1, InTurnParts DEF Ordered, TokenInTurn, Basic, TokensGiven
        <5>3. gen[d] <= Last(d)
          BY <2>0, <5>2 DEF Given, Dev, Gen
        <5> QED
          BY <2>0, <2>3, <3>1, <5>3 DEF GenInTurn
      <4> QED
        BY <1>0, <4>1, <4>2, <4>3, BumpedSteps DEF Follows
    <3> QED
      BY <1>0, <1>2, <3>2, <3>3, InTurnParts DEF Ordered, GenInTurn
  <2> QED
    BY <2>1, <2>2, <2>3
<1> QED
  BY <1>1, <1>2

\* Nobody rotates a device while a rotation of it is under way.
LEMMA GenStays ==
  ASSUME Going, NEW p \in Proc, Bumped(p)
  PROVE  gen'[Dev(tok[p])] = gen[Dev(tok[p])]
<1>0. Sound /\ Shapes /\ Ordered /\ SessionInv /\ Basic
  BY DEF Going, Ordered, SessionInv, Basic
<1>1. Dev(tok[p]) \in issued
  BY <1>0, BumpedPlace, Numbers
<1> QED
  BY <1>0, <1>1, TableSteps, BumpsInTurn

\* A rotation under way has made the generation after its token's.
LEMMA TokenInTurnNext ==
  ASSUME Going, NEW p \in Proc, Bumped(p)'
  PROVE  TokenInTurn(p)'
<1>0. Sound /\ Shapes /\ Ordered /\ SessionInv /\ Basic
  BY DEF Going, Ordered, SessionInv, Basic
<1>1. Follows(p)
  BY <1>0, BumpedSteps
<1>2. tok'[p] = tok[p]
  BY <1>1 DEF Follows
<1>3. ASSUME Bumped(p)
      PROVE  /\ gen'[Dev(tok[p])] = Gen(tok[p]) + 1
             /\ IF hp[p] = "issue" THEN out[p] = Gen(tok[p]) + 1 /\ out[p] <= floor[p]
                                   ELSE new[p] = Gen(tok[p]) + 1
  BY <1>0, <1>3, GenStays, InTurnParts DEF Ordered, TokenInTurn
<1>4. CASE hp'[p] = "issue" /\ hp[p] = "issue" /\ out'[p] = out[p] /\ floor'[p] = floor[p]
  <2>1. Bumped(p)
    BY <1>4 DEF Bumped
  <2> QED
    BY <1>2, <1>3, <1>4, <2>1 DEF TokenInTurn
<1>5. CASE /\ hp'[p] = "issue" /\ Answered(p, "update", "updated") /\ res[p] = "ok"
           /\ out'[p] = new[p] /\ floor'[p] = settled[Dev(tok[p])]
  <2>1. Bumped(p) /\ hp[p] = "update" /\ pc[p] = "updated"
    BY <1>5 DEF Bumped, Answered
  <2>2. dev[p] = Dev(tok[p])
    BY <1>0, <2>1, BumpedPlace DEF Updating
  <2>3. new[p] \in 1..settled[dev[p]]
    BY <1>0, <1>5, <2>1 DEF SessionInv, UpdatesSettled
  <2>4. hp[p] # "free" /\ settled[dev[p]] \in Nat
    BY <1>0, <2>1, <2>2, Numbers
  <2>5. new[p] <= settled[dev[p]]
    BY <2>3, <2>4
  <2> QED
    BY <1>2, <1>3, <1>5, <2>1, <2>2, <2>5 DEF TokenInTurn
<1>6. CASE hp'[p] = "update" /\ Bumped(p) /\ hp[p] = "update" /\ new'[p] = new[p]
  BY <1>2, <1>3, <1>6 DEF TokenInTurn
<1>7. CASE hp'[p] = "update" /\ Bumps(p) /\ hp[p] = "update"
  BY <1>0, <1>2, <1>7, BumpsInTurn DEF TokenInTurn
<1> QED
  BY <1>1, <1>4, <1>5, <1>6, <1>7 DEF Follows

\* No token is given, stored or sent that is newer than the one being rotated.
LEMMA NewestButNext ==
  ASSUME Going, NEW p \in Proc, Bumped(p)'
  PROVE  NewestBut(p)'
<1> DEFINE d == Dev(tok[p])
           g == Gen(tok[p])
<1>0. Sound /\ Shapes /\ Ordered /\ SessionInv /\ Basic /\ TokensGiven
  BY DEF Going, Ordered, SessionInv, Basic
<1>a. hp[p] = "issue" \/ (Answered(p, "update", "updated") /\ res[p] = "ok") => Bumped(p)
  BY DEF Bumped, Answered
<1>1. tok'[p] = tok[p] /\ (Bumped(p) \/ Bumps(p))
  BY <1>0, <1>a, BumpedSteps DEF Follows
<1>2. d \in issued /\ g \in Nat /\ Last(d) \in Nat \ {0}
  BY <1>0, <1>1, BumpedPlace, BumpsInTurn, Numbers
<1>3. NewestBut(p)
  <2>1. CASE Bumped(p)
    BY <1>0, <2>1, InTurnParts DEF Ordered
  <2>2. CASE Bumps(p)
    <3>1. g = Last(d)
      BY <1>0, <2>2, BumpsInTurn
    <3>2. \A t \in held : Dev(t) = d => Gen(t) <= g
      BY <1>0, <1>2, <3>1 DEF TokensGiven, Given
    <3>3. \A r \in results : Dev(r[1]) = d => r[2] <= g
      BY <1>0, <1>2, <3>1 DEF TokensGiven, Given, Dev, Gen
    <3>4. \A q \in Proc : Dev(tok[q]) = d => Gen(tok[q]) <= g
      <4>1. d # None
        BY <1>0, <1>2, NoneAssumption DEF SessionInv, STypeOK, TypeOK, TableType
      <4> QED
        BY <1>0, <3>1, <4>1, Numbers
    <3> QED
      BY <3>2, <3>3, <3>4 DEF NewestBut
  <2> QED
    BY <1>1, <2>1, <2>2
<1>4. ASSUME NEW q \in Proc, Lands(q, 200) PROVE Dev(tok[q]) # d
  <2>1. Bumped(q) /\ hp'[q] = "landed"
    BY <1>4 DEF Lands, Answered, Bumped, Landing
  <2>2. q # p
    BY <2>1 DEF Bumped
  <2>3. Bumped(p) => Dev(tok[q]) # d
    BY <1>0, <2>1, <2>2, OneBumped
  <2>4. Bumps(p) => Dev(tok[q]) # d
    BY <1>0, <2>1, BumpsInTurn
  <2> QED
    BY <1>1, <2>3, <2>4
<1>5. ASSUME NEW t \in held', Dev(t) = d PROVE Gen(t) <= g
  <2>1. CASE t \in held
    BY <1>3, <1>5, <2>1 DEF NewestBut
  <2>2. CASE \E q \in Proc : Lands(q, 200) /\ t = <<Dev(tok[q]), out[q]>>
    BY <1>4, <1>5, <2>2 DEF Dev
  <2>3. CASE \E q \in Proc, r \in results : r[1] = tok[q] /\ t = <<Dev(tok[q]), r[2]>>
    BY <1>3, <1>5, <2>3 DEF NewestBut, Dev, Gen
  <2>4. CASE \E q \in Proc : t = tok[q]
    BY <1>3, <1>5, <2>4 DEF NewestBut
  <2> QED
    BY <1>0, <1>5, <2>1, <2>2, <2>3, <2>4, TokenSteps
<1>6. ASSUME NEW r \in results', Dev(r[1]) = d PROVE r[2] <= g
  BY <1>0, <1>3, <1>4, <1>6, TokenSteps DEF NewestBut
<1>7. ASSUME NEW q \in Proc, Dev(tok'[q]) = d PROVE Gen(tok'[q]) <= g
  <2>1. CASE tok'[q] = tok[q] \/ tok'[q] \in held
    BY <1>3, <1>7, <2>1 DEF NewestBut
  <2>2. CASE LoginBegins(q)
    <3>1. PICK e \in Device, u \in User : SaveDeviceSecret(e, u) /\ tok' = [tok EXCEPT ![q] = <<e, 1>>]
      BY <2>2 DEF LoginBegins
    <3>2. e \notin issued /\ tok'[q] = <<e, 1>>
      BY <1>0, <3>1 DEF SaveDeviceSecret, SessionInv, STypeOK
    <3> QED
      BY <1>2, <1>7, <3>2 DEF Dev
  <2>3. CASE tok'[q] = NoToken
    BY <1>0, <1>2, <1>7, <2>3, NoneAssumption DEF NoToken, Dev, SessionInv, STypeOK, TypeOK, TableType
  <2> QED
    BY <1>0, <2>1, <2>2, <2>3, TokenSteps
<1> QED
  BY <1>1, <1>5, <1>6, <1>7 DEF NewestBut

\* How a request comes to verify its token, and to its UPDATE.
LEMMA ReadySteps ==
  ASSUME Sound, Shapes, Basic, NEW p \in Proc,
         hp'[p] \in {"rotate", "rotate-again"} \/ (hp'[p] = "update" /\ pc'[p] = "bump")
  PROVE  /\ tok'[p] = tok[p]
         /\ \/ hp'[p] = hp[p] /\ floor'[p] = floor[p] /\ (pc'[p] = "bump" => pc[p] = "bump")
            \/ Leads(p) /\ hp'[p] = "rotate"
            \/ Moves(p, hp'[p])
<1>0. /\ hp \in [Proc -> Places] /\ tok \in [Proc -> (Device \cup {None}) \X Nat] /\ TypeOK
  BY DEF Basic, STypeOK
<1>1. ASSUME NEW q \in Proc, Acts(q), q # p
      PROVE  tok'[p] = tok[p] /\ hp'[p] = hp[p] /\ floor'[p] = floor[p] /\ pc'[p] = pc[p]
  BY <1>1, ActsAlone DEF Unmoved
<1>2. ASSUME NEW h \in Places, Moves(p, h) PROVE Moves(p, hp'[p]) /\ tok'[p] = tok[p]
  BY <1>0, <1>2 DEF Moves, To, rest
<1>3. ASSUME NEW s, Lands(p, s) PROVE FALSE
  BY <1>3 DEF Lands, Landing
<1>4. ASSUME Leads(p) PROVE hp'[p] = "rotate" /\ tok'[p] = tok[p]
  BY <1>0, <1>4 DEF Leads, To
<1>5. ASSUME Joins(p) \/ LoginEnds(p) \/ Receive(p) PROVE FALSE
  BY <1>0, <1>5 DEF Joins, LoginEnds, Receive, To, Answer
<1>6. ASSUME Send(p) PROVE FALSE
  BY <1>0, <1>6, RequestsAssumption DEF Send, To, Kinds
<1>7. ASSUME NEW q \in Proc, DeletesUser(q) \/ LoginBegins(q)
      PROVE  tok'[p] = tok[p] /\ hp'[p] = hp[p] /\ floor'[p] = floor[p] /\ pc'[p] = pc[p]
  BY <1>0, <1>7 DEF DeletesUser, LoginBegins, DeleteUser, SaveDeviceSecret, To, Answer, rest, args
<1>8. ASSUME NEW q \in Proc, Step(q), UNCHANGED sessions
      PROVE  tok'[p] = tok[p] /\ hp'[p] = hp[p] /\ floor'[p] = floor[p]
             /\ (pc'[p] = "bump" => pc[p] = "bump")
  BY <1>0, <1>8, StepEffects DEF sessions, request
<1>9. ASSUME Passes
      PROVE  tok'[p] = tok[p] /\ hp'[p] = hp[p] /\ floor'[p] = floor[p] /\ pc'[p] = pc[p]
  BY <1>9 DEF Passes, request, args
<1> QED
  BY <1>1, <1>2, <1>3, <1>4, <1>5, <1>6, <1>7, <1>8, <1>9, SoundSteps DEF Acts

\* A request that verifies its token, or is about to rotate it, has not been overtaken
\* unless it is going to notice.
LEMMA ReadyInTurnNext ==
  ASSUME Going, NEW p \in Proc
  PROVE  ReadyInTurn(p)'
<1> DEFINE d == Dev(tok[p])
           g == Gen(tok[p])
<1>0. Sound /\ Shapes /\ Ordered /\ SessionInv /\ Basic /\ TypeOK /\ \A q \in Proc : InPlace(q)
  BY DEF Going, Ordered, SessionInv, Basic, STypeOK
<1> SUFFICES ASSUME hp'[p] \in {"rotate", "rotate-again"} \/ (hp'[p] = "update" /\ pc'[p] = "bump")
             PROVE  ReadyInTurn(p)'
  BY DEF ReadyInTurn
<1>1. /\ tok'[p] = tok[p]
      /\ \/ hp'[p] = hp[p] /\ floor'[p] = floor[p] /\ (pc'[p] = "bump" => pc[p] = "bump")
         \/ Leads(p) /\ hp'[p] = "rotate"
         \/ Moves(p, hp'[p])
  BY <1>0, ReadySteps
<1>2. hp[p] # "free" /\ ~Bumped(p)
  BY <1>1 DEF Leads, Moves, At, Bumped, PastUpdate, Answered
<1>3. d \in issued /\ g \in Nat /\ gen[d] \in Nat
  BY <1>0, <1>2, Numbers
<1>4. CASE hp'[p] = hp[p] /\ floor'[p] = floor[p] /\ (pc'[p] = "bump" => pc[p] = "bump")
  <2>1. ASSUME gen[d] = g PROVE gen'[d] = g
    <3>1. SUFFICES ASSUME NEW q \in Proc, Bumps(q), dev[q] = d PROVE FALSE
      BY <1>0, <1>3, <2>1, TableSteps
    <3>2. tok[q] = tok[p]
      BY <1>0, <2>1, <3>1, BumpsInTurn, Numbers
    <3>3. p \in leads
      BY <1>0, <1>4 DEF InPlace, Rotating
    <3>4. p = q /\ hp[p] = "update"
      BY <1>0, <3>1, <3>2, <3>3, BumpsInTurn
    <3> QED
      BY <1>0, <1>4, <3>1, <3>4 DEF Bumps, TypeOK, ControlType
  <2>2. d \in rows' => d \in rows
    BY <1>0, <1>3, TableSteps
  <2>3. ReadyInTurn(p)
    BY <1>0, InTurnParts DEF Ordered
  <2> QED
    BY <1>1, <1>4, <2>1, <2>2, <2>3 DEF ReadyInTurn
<1>5. ASSUME Leads(p) \/ Moves(p, hp'[p]) PROVE TableKept
  <2>1. Acts(p)
    BY <1>5 DEF Acts, Going, SessionInv, STypeOK
  <2> QED
    BY <1>0, <2>1, ActsAlone
<1>6. CASE Leads(p) /\ hp'[p] = "rotate"
  <2>1. floor'[p] = settled[d] /\ leads' = leads \cup {p} /\ tok' = tok
    BY <1>6 DEF Leads, Enter
  <2>2. ASSUME NEW q \in Proc, Bumped(q) PROVE tok[q] # tok[p]
    <3>1. q \in leads
      BY <1>0, <2>2, BumpedPlace
    <3> QED
      BY <1>2, <2>1, <2>2, <3>1 DEF Going, LeadersApart
  <2>3. gen[d] = g \/ settled[d] > g
    BY <1>0, <1>2, <2>2, StartFloor
  <2> QED
    BY <1>1, <1>5, <1>6, <2>1, <2>3 DEF TableKept, ReadyInTurn
<1>7. CASE Moves(p, hp'[p]) /\ hp'[p] \in {"rotate", "rotate-again"}
  <2>1. Enter({p}, "get", d, None) /\ hp[p] \in Rotating
    BY <1>7 DEF Moves, Between, Verifying, Removing, Rotating
  <2>2. floor'[p] = settled[d] /\ p \in leads
    BY <1>0, <2>1 DEF Enter, InPlace
  <2>3. ASSUME NEW q \in Proc, Bumped(q) PROVE tok[q] # tok[p]
    <3>1. q \in leads
      BY <1>0, <2>3, BumpedPlace
    <3> QED
      BY <1>0, <1>2, <2>2, <2>3, <3>1 DEF Ordered, LeadersApart
  <2>4. gen[d] = g \/ settled[d] > g
    BY <1>0, <1>2, <2>3, StartFloor
  <2> QED
    BY <1>1, <1>5, <1>7, <2>2, <2>4 DEF TableKept, ReadyInTurn
<1>8. CASE Moves(p, hp'[p]) /\ hp'[p] = "update"
  <2>1. hp[p] = "rotate-again" /\ pc[p] = "got" /\ res[p] = "ok" /\ val[p] = g
    BY <1>8 DEF Moves, Between, Verifying, Removing, Answered, Verified
  <2>2. dev[p] = d
    BY <1>0, <2>1 DEF InPlace, Verifying
  <2>3. d \in rows => floor[p] <= g
    <3>1. d \in rows => ReadersKept(d)
      BY <1>0 DEF Ordered, NothingLost, SessionInv, ReadsInv
    <3> QED
      BY <2>1, <2>2, <3>1 DEF ReadersKept
  <2>4. gen[d] = g \/ floor[p] > g
    BY <1>0, <2>1, InTurnParts DEF Ordered, ReadyInTurn
  <2>5. d \in rows => gen[d] = g
    BY <1>0, <1>3, <2>3, <2>4, Numbers
  <2> QED
    BY <1>1, <1>5, <1>8, <2>5 DEF TableKept, ReadyInTurn
<1> QED
  BY <1>1, <1>4, <1>6, <1>7, <1>8

\* The rotations of a device follow each other.
LEMMA InTurnNext ==
  ASSUME Going
  PROVE  InTurn'
<1>1. \A d \in issued' : GenInTurn(d)'
  BY GenInTurnNext
<1>2. \A p \in Proc : Bumped(p)' => TokenInTurn(p)' /\ NewestBut(p)'
  BY TokenInTurnNext, NewestButNext
<1>3. \A p \in Proc : ReadyInTurn(p)'
  BY ReadyInTurnNext
<1> QED
  BY <1>1, <1>2, <1>3 DEF InTurn, GenInTurn, TokenInTurn, NewestBut, ReadyInTurn

(***************************************************************************)
(* AnswersKept, and that concurrent refreshes are not theft                *)
(***************************************************************************)
\* A rotation whose row is there ends well: GenerateAccess finds the generation that it
\* made, and its answer is given and stored.
LEMMA EndsWell ==
  ASSUME Going, NEW p \in Proc, Bumped(p), Ends(p), Dev(tok[p]) \in rows
  PROVE  /\ tok[p] \in spent' /\ <<Dev(tok[p]), out[p]>> \in held'
         /\ out[p] = gen[Dev(tok[p])]
<1> DEFINE d == Dev(tok[p])
<1>0. Sound /\ Ordered /\ SessionInv /\ Basic /\ InPlace(p)
  BY DEF Going, Ordered, SessionInv, Basic
<1>1. hp[p] = "issue" /\ pc[p] = "got"
  BY DEF Ends, Answered
<1>2. dev[p] = d
  BY <1>0, <1>1 DEF InPlace, Verifying
<1>3. res[p] = "ok"
  BY <1>0, <1>1, <1>2 DEF Ordered, NothingLost
<1>4. floor[p] <= val[p] /\ val[p] \in 1..gen[d]
  <2>1. ReadersKept(d)
    BY <1>0 DEF Ordered, NothingLost, SessionInv, ReadsInv
  <2>2. Known(d, val[p])
    BY <1>0, <1>1, <1>2, <1>3 DEF SessionInv, ReadsInv, ValuesKnown
  <2> QED
    BY <1>1, <1>2, <1>3, <2>1, <2>2 DEF ReadersKept, Known
<1>5. out[p] = gen[d] /\ out[p] <= floor[p]
  BY <1>0, <1>1, InTurnParts DEF Ordered, TokenInTurn
<1>6. gen[d] \in Nat /\ floor[p] \in Nat /\ val[p] \in Nat
  BY <1>0, <1>1, Numbers
<1>7. val[p] = out[p]
  BY <1>4, <1>5, <1>6
<1>8. Verified(p, out[p])
  BY <1>3, <1>7 DEF Verified
<1> QED
  BY <1>5, <1>8 DEF Ends, Lands

\* Whoever is in a flight was there before, leads it now, or has just sent its token.
LEMMA FlightSteps ==
  ASSUME Sound, Shapes, Basic, NEW p \in Proc, hp'[p] \in Rotating \cup {"flight"}
  PROVE  \/ Send(p) /\ hp'[p] \notin Rotating
         \/ /\ tok'[p] = tok[p] /\ (p \in replays' <=> p \in replays)
            /\ \/ hp[p] \in Rotating
               \/ hp[p] = "flight" /\ (hp'[p] = "flight" \/ Leads(p))
<1>0. /\ hp \in [Proc -> Places] /\ tok \in [Proc -> (Device \cup {None}) \X Nat] /\ TypeOK
  BY DEF Basic, STypeOK
<1>1. ASSUME NEW q \in Proc, Acts(q), q # p
      PROVE  tok'[p] = tok[p] /\ hp'[p] = hp[p] /\ (p \in replays' <=> p \in replays)
  BY <1>1, ActsAlone DEF Unmoved, Rotating
<1>2. ASSUME NEW h \in Places, Moves(p, h)
      PROVE  tok'[p] = tok[p] /\ hp[p] \in Rotating /\ replays' = replays
  BY <1>0, <1>2 DEF Moves, To, rest
<1>3. ASSUME NEW s, Lands(p, s) PROVE FALSE
  BY <1>3 DEF Lands, Landing, Rotating
<1>4. ASSUME Leads(p) PROVE hp[p] = "flight" /\ tok'[p] = tok[p] /\ replays' = replays
  BY <1>0, <1>4 DEF Leads, At
<1>5. ASSUME Joins(p) \/ LoginEnds(p) \/ Receive(p) PROVE FALSE
  BY <1>0, <1>5 DEF Joins, LoginEnds, Receive, To, Answer, Rotating
<1>6. ASSUME Send(p) PROVE hp'[p] \notin Rotating
  BY <1>0, <1>6, RequestsAssumption DEF Send, To, Kinds, Rotating
<1>7. ASSUME NEW q \in Proc, DeletesUser(q) \/ LoginBegins(q)
      PROVE  tok'[p] = tok[p] /\ hp'[p] = hp[p] /\ replays' = replays
  BY <1>0, <1>7 DEF DeletesUser, LoginBegins, To, Answer, rest, Rotating
<1>8. ASSUME UNCHANGED sessions \/ Passes
      PROVE  tok'[p] = tok[p] /\ hp'[p] = hp[p] /\ replays' = replays
  BY <1>8 DEF sessions, request, Passes
<1> QED
  BY <1>1, <1>2, <1>3, <1>4, <1>5, <1>6, <1>7, <1>8, SoundSteps DEF Acts

\* A token is spent by an answered flight, whose result is stored; a stored result
\* goes when it expires.
LEMMA SpentSteps ==
  ASSUME Sound, Shapes, Basic, LeadersApart
  PROVE  /\ \A t \in spent' : \/ t \in spent
                              \/ \E q \in Proc : Lands(q, 200) /\ t = tok[q] /\ q \in leads
                                                 /\ <<tok[q], out[q]>> \in results'
         /\ \A r \in results : r \in results' \/ ExpireResult(r)
<1>0. /\ \A q \in Proc : InPlace(q)
  BY DEF Basic
<1>a. ~Fault /\ ~Timeouts
  BY NoFault
<1>1. ASSUME NEW p \in Proc, \/ \E h \in Places : Moves(p, h)
                             \/ DeletesUser(p) \/ UNCHANGED sessions \/ Leads(p) \/ Joins(p)
                             \/ LoginEnds(p) \/ LoginBegins(p) \/ Send(p) \/ Receive(p)
      PROVE  spent' = spent /\ results' = results
  BY <1>1 DEF Moves, DeletesUser, sessions, rest, flights, Leads, Joins, LoginEnds, LoginBegins,
      Send, Receive
<1>2. ASSUME NEW p \in Proc, NEW s \in Statuses, Lands(p, s)
      PROVE  \/ spent' = spent /\ results' = results
             \/ /\ spent' = spent \cup {tok[p]} /\ Lands(p, 200) /\ p \in leads
                /\ results' = results \cup {<<tok[p], out[p]>>}
  <2>1. p \in leads /\ (Redis => p \in holds)
    BY <1>0, <1>2 DEF Lands, InPlace, LeadersApart
  <2> QED
    BY <1>a, <1>2, <2>1 DEF Lands
<1>3. ASSUME Passes PROVE spent' = spent /\ \A r \in results : r \in results' \/ ExpireResult(r)
  <2>1. CASE results' = results
    BY <1>3, <2>1 DEF Passes
  <2>2. CASE \E r \in results : ExpireResult(r)
    <3>1. PICK r \in results : ExpireResult(r)
      BY <2>2
    <3>2. results' = results \ {r}
      BY <3>1 DEF ExpireResult
    <3> QED
      BY <1>3, <3>1, <3>2 DEF Passes
  <2> QED
    BY <1>3, <2>1, <2>2 DEF Passes
<1> QED
  BY <1>1, <1>2, <1>3, SoundSteps DEF Acts

\* A generation left behind was replaced by an answer, or soon will be.
LEMMA LeftBehindNext ==
  ASSUME Going, AnswersKept, NEW d \in rows', NEW g \in 1..(gen'[d] - 1)
  PROVE  <<d, g>> \in spent' \/ \E p \in Proc : Bumped(p)' /\ tok'[p] = <<d, g>>
<1>0. Sound /\ Shapes /\ Ordered /\ SessionInv /\ Basic /\ TypeOK /\ TypeOK'
  BY DEF Going, Ordered, SessionInv, Basic, STypeOK
<1>1. d \in issued
  <2>1. d \in issued'
    BY <1>0 DEF TypeOK, TableType
  <2> QED
    BY <1>0, <2>1, IssuedSteps
<1>2. d \in rows /\ gen[d] \in Nat
  BY <1>0, <1>1, TableSteps, Numbers
<1>3. ASSUME g \in 1..(gen[d] - 1)
      PROVE  <<d, g>> \in spent' \/ \E p \in Proc : Bumped(p)' /\ tok'[p] = <<d, g>>
  <2>1. CASE <<d, g>> \in spent
    BY <1>0, <2>1, TokenSteps
  <2>2. CASE \E p \in Proc : Bumped(p) /\ tok[p] = <<d, g>>
    <3>1. PICK p \in Proc : Bumped(p) /\ tok[p] = <<d, g>>
      BY <2>2
    <3>2. Dev(tok[p]) = d
      BY <3>1 DEF Dev
    <3>3. tok'[p] = tok[p] /\ (Bumped(p)' \/ Ends(p))
      BY <1>0, <3>1, BumpedSteps DEF Follows
    <3> QED
      BY <1>2, <3>1, <3>2, <3>3, EndsWell
  <2> QED
    BY <1>2, <1>3, <2>1, <2>2 DEF AnswersKept
<1>4. ASSUME g \notin 1..(gen[d] - 1) PROVE \E p \in Proc : Bumped(p)' /\ tok'[p] = <<d, g>>
  <2>1. gen'[d] # gen[d]
    BY <1>4
  <2>2. PICK q \in Proc : Bumps(q) /\ dev[q] = d /\ UNCHANGED sessions
    BY <1>0, <1>1, <2>1, TableSteps
  <2>3. d = Dev(tok[q]) /\ hp[q] = "update" /\ gen[d] = Gen(tok[q]) /\ gen'[d] = gen[d] + 1
    BY <1>0, <2>2, BumpsInTurn
  <2>4. pc'[q] = "peek" /\ hp' = hp /\ tok' = tok
    BY <1>0, <2>2 DEF Bumps, TypeOK, ControlType, sessions, request
  <2>5. Bumped(q)'
    BY <2>3, <2>4 DEF Bumped, PastUpdate
  <2>6. g = gen[d]
    BY <1>2, <1>4, <2>3
  <2>7. tok[q] = <<d, g>>
    BY <1>0, <2>3, <2>6, Numbers
  <2> QED
    BY <2>4, <2>5, <2>7
<1> QED
  BY <1>3, <1>4

\* A request with a token that was replaced since it began finds the stored answer.
LEMMA AnswersKeptNext ==
  ASSUME Going, AnswersKept
  PROVE  AnswersKept'
<1>0. Sound /\ Shapes /\ Ordered /\ SessionInv /\ Basic /\ LeadersApart
      /\ \A q \in Proc : InPlace(q)
  BY DEF Going, Ordered, SessionInv, Basic
<1>1. ASSUME NEW p \in Proc, p \notin replays', tok'[p] \in spent', hp'[p] \in Rotating \cup {"flight"}
      PROVE  hp'[p] = "flight" /\ Stored(tok[p])' # {} /\ tok'[p] = tok[p]
  <2>1. CASE Send(p)
    <3>1. spent' = spent
      BY <2>1 DEF Send
    <3>2. tok \in [Proc -> (Device \cup {None}) \X Nat]
      BY <1>0 DEF Basic, STypeOK
    <3> QED
      BY <1>1, <2>1, <3>1, <3>2 DEF Send
  <2>2. CASE tok'[p] = tok[p] /\ (p \in replays' <=> p \in replays)
             /\ (hp[p] \in Rotating \/ (hp[p] = "flight" /\ (hp'[p] = "flight" \/ Leads(p))))
    <3>1. CASE tok[p] \in spent
      <4>1. hp[p] \notin Rotating /\ hp[p] = "flight" /\ Stored(tok[p]) # {}
        BY <1>1, <2>2, <3>1 DEF AnswersKept
      <4>2. ~Leads(p)
        BY <1>0, <4>1, NoFault DEF Leads
      <4>3. PICK r \in results : r[1] = tok[p]
        BY <4>1 DEF Stored
      <4>4. ~ExpireResult(r)
        BY <1>1, <2>2, <4>1, <4>3 DEF ExpireResult
      <4>5. r \in results'
        BY <1>0, <4>4, SpentSteps
      <4> QED
        BY <2>2, <4>1, <4>2, <4>3, <4>5 DEF Stored
    <3>2. CASE tok[p] \notin spent
      <4>1. PICK q \in Proc : Lands(q, 200) /\ tok[p] = tok[q] /\ q \in leads
                              /\ <<tok[q], out[q]>> \in results'
        BY <1>0, <1>1, <2>2, <3>2, SpentSteps
      <4>2. hp'[q] = "landed" /\ \A x \in Proc : hp'[x] = hp[x] \/ hp'[x] = "landed"
        BY <4>1 DEF Lands, Landing
      <4>3. p # q /\ hp'[p] = hp[p]
        BY <1>1, <4>2 DEF Rotating
      <4>4. p \notin leads
        BY <1>0, <4>1, <4>3 DEF LeadersApart
      <4>5. hp[p] \notin Rotating
        BY <1>0, <4>4 DEF InPlace
      <4>6. Stored(tok[p])' # {}
        BY <2>2, <4>1 DEF Stored
      <4> QED
        BY <1>1, <2>2, <4>3, <4>5, <4>6
    <3> QED
      BY <3>1, <3>2
  <2> QED
    BY <1>0, <1>1, <2>1, <2>2, FlightSteps
<1>2. ASSUME NEW p \in Proc \ replays', tok'[p] \in spent'
      PROVE  /\ hp'[p] = "flight" => Stored(tok[p])' # {}
             /\ hp'[p] \notin Rotating
  BY <1>1, <1>2 DEF Rotating
<1> QED
  BY <1>2, LeftBehindNext DEF AnswersKept

\* A /refresh that saw another generation than its token's had begun after the answer
\* that replaced the token.
LEMMA NotTheftNext ==
  ASSUME Going, AnswersKept, ConcurrentRefreshIsNotTheft,
         NEW p \in Proc, hp'[p] = "reuse", Dev(tok'[p]) \in rows'
  PROVE  p \in replays'
<1> DEFINE d == Dev(tok[p])
<1>0. Sound /\ Shapes /\ Ordered /\ SessionInv /\ Basic /\ SessionInv' /\ NothingLost'
      /\ \A q \in Proc : InPlace(q)
  BY DEF Going, Ordered, SessionInv, Basic
<1>1. tok'[p] = tok[p] /\ (hp'[p] = hp[p] \/ Moves(p, "reuse"))
  BY <1>0, ReuseComesFrom
<1>2. p \in replays' <=> p \in replays
  BY <1>0, FlightSteps DEF Rotating
<1>3. hp[p] # "free" /\ hp[p] \in Rotating
  BY <1>1 DEF Moves, Rotating
<1>4. d \in issued /\ d \in rows
  BY <1>0, <1>1, <1>3, Numbers, TableSteps
<1>5. CASE hp'[p] = hp[p]
  BY <1>0, <1>2, <1>4, <1>5 DEF ConcurrentRefreshIsNotTheft, Sound
<1>6. CASE Moves(p, "reuse")
  <2>1. gen' = gen
    <3>1. Acts(p)
      BY <1>6 DEF Acts, Places, Removing
    <3> QED
      BY <1>0, <3>1, ActsAlone DEF TableKept
  <2>2. Gen(tok[p]) < gen[d]
    BY <1>0, <1>1, <2>1 DEF SessionInv, OnlyOldTokensAreReuse, NothingLost
  <2>3. Gen(tok[p]) \in 1..(gen[d] - 1) /\ tok[p] = <<d, Gen(tok[p])>>
    BY <1>0, <1>3, <1>4, <2>2, Numbers
  <2>4. tok[p] \in spent \/ \E q \in Proc : Bumped(q) /\ tok[q] = tok[p]
    BY <1>4, <2>3 DEF AnswersKept
  <2>5. ASSUME NEW q \in Proc, Bumped(q), tok[q] = tok[p] PROVE FALSE
    <3>1. q \in leads /\ hp[q] \in {"update", "issue"} /\ p \in leads
      BY <1>0, <1>3, <2>5, BumpedPlace DEF InPlace
    <3>2. q = p
      BY <1>0, <2>5, <3>1 DEF Ordered, LeadersApart
    <3> QED
      BY <1>6, <3>1, <3>2 DEF Moves
  <2> QED
    BY <1>2, <1>3, <2>4, <2>5 DEF AnswersKept
<1> QED
  BY <1>1, <1>5, <1>6

(***************************************************************************)
(* NewestKept                                                              *)
(***************************************************************************)
\* A login goes on to its answer, or to the deletion of its device.
LEMMA LoginSteps ==
  ASSUME Sound, Shapes, Basic, NEW p \in Proc
  PROVE  /\ LoggingIn(p) => /\ tok'[p] = tok[p]
                            /\ LoggingIn(p)' \/ LoginEnds(p) \/ Answered(p, "login-undo", "deleted")
         /\ LoggingIn(p)' =>
                \/ LoginBegins(p) /\ hp'[p] = "login"
                \/ /\ LoggingIn(p) /\ tok'[p] = tok[p]
                   /\ hp'[p] = "login-undo" =>
                        \/ hp[p] = "login-undo" /\ pc'[p] = pc[p] /\ dev'[p] = dev[p]
                        \/ pc'[p] = "del" /\ dev'[p] = Dev(tok[p])
                        \/ hp[p] = "login-undo" /\ \E q \in Proc : Step(q)
<1> DEFINE Goal ==
         /\ LoggingIn(p) => /\ tok'[p] = tok[p]
                            /\ LoggingIn(p)' \/ LoginEnds(p) \/ Answered(p, "login-undo", "deleted")
         /\ LoggingIn(p)' =>
                \/ LoginBegins(p) /\ hp'[p] = "login"
                \/ /\ LoggingIn(p) /\ tok'[p] = tok[p]
                   /\ hp'[p] = "login-undo" =>
                        \/ hp[p] = "login-undo" /\ pc'[p] = pc[p] /\ dev'[p] = dev[p]
                        \/ pc'[p] = "del" /\ dev'[p] = Dev(tok[p])
                        \/ hp[p] = "login-undo" /\ \E q \in Proc : Step(q)
<1>0. /\ hp \in [Proc -> Places] /\ tok \in [Proc -> (Device \cup {None}) \X Nat] /\ TypeOK
  BY DEF Basic, STypeOK
<1>a. ASSUME hp'[p] = hp[p], tok'[p] = tok[p], pc'[p] = pc[p], dev'[p] = dev[p] PROVE Goal
  BY <1>a DEF LoggingIn
<1>b. ASSUME ~LoggingIn(p), ~LoggingIn(p)' PROVE Goal
  BY <1>b
<1>1. ASSUME NEW q \in Proc, Acts(q), q # p PROVE Goal
  <2>1. CASE Unmoved(p)
    BY <1>a, <2>1 DEF Unmoved
  <2>2. CASE hp[p] = "join" /\ hp'[p] = "landed"
    BY <1>b, <2>2 DEF LoggingIn
  <2> QED
    BY <1>1, <2>1, <2>2, ActsAlone
<1>2. ASSUME NEW h \in Places, Moves(p, h) PROVE Goal
  <2>1. hp'[p] = h /\ tok'[p] = tok[p]
    BY <1>0, <1>2 DEF Moves, To, rest
  <2>2. h = "login-undo" => pc'[p] = "del" /\ dev'[p] = Dev(tok[p])
    <3>1. h = "login-undo" => Enter({p}, "del", Dev(tok[p]), subject[Dev(tok[p])])
      BY <1>2 DEF Moves, Between, Verifying
    <3> QED
      BY <3>1 DEF Enter
  <2>3. CASE LoggingIn(p)
    BY <1>2, <2>1, <2>2, <2>3 DEF Moves, LoggingIn
  <2>4. CASE ~LoggingIn(p)
    <3>1. h \notin {"login", "login-issue", "login-undo"}
      BY <1>2, <2>4 DEF Moves
    <3> QED
      BY <1>b, <2>1, <2>4, <3>1 DEF LoggingIn
  <2> QED
    BY <2>3, <2>4
<1>3. ASSUME NEW s, Lands(p, s) PROVE Goal
  BY <1>b, <1>3 DEF Lands, Landing, LoggingIn, Rotating
<1>4. ASSUME Leads(p) \/ Joins(p) \/ Receive(p) PROVE Goal
  BY <1>0, <1>b, <1>4 DEF Leads, Joins, Receive, At, To, LoggingIn
<1>5. ASSUME LoginEnds(p) PROVE Goal
  <2>1. hp'[p] = "reply" /\ tok' = tok
    BY <1>0, <1>5 DEF LoginEnds, Answer, To
  <2> QED
    BY <1>5, <2>1 DEF LoggingIn
<1>6. ASSUME Send(p) PROVE Goal
  BY <1>0, <1>b, <1>6, RequestsAssumption DEF Send, To, At, Kinds, LoggingIn
<1>7. ASSUME NEW q \in Proc, DeletesUser(q) PROVE Goal
  <2>1. CASE q = p
    BY <1>0, <1>b, <1>7, <2>1 DEF DeletesUser, At, Answer, To, LoggingIn
  <2>2. CASE q # p
    BY <1>0, <1>a, <1>7, <2>2 DEF DeletesUser, DeleteUser, Answer, To, rest, args
  <2> QED
    BY <2>1, <2>2
<1>8. ASSUME NEW q \in Proc, LoginBegins(q) PROVE Goal
  <2>1. CASE q = p
    BY <1>0, <1>8, <2>1 DEF LoginBegins, At, To, LoggingIn
  <2>2. CASE q # p
    BY <1>0, <1>a, <1>8, <2>2 DEF LoginBegins, SaveDeviceSecret, To, args
  <2> QED
    BY <2>1, <2>2
<1>9. ASSUME NEW q \in Proc, Step(q), UNCHANGED sessions PROVE Goal
  BY <1>9 DEF sessions, request, LoggingIn
<1>10. ASSUME Passes PROVE Goal
  BY <1>a, <1>10 DEF Passes, request, args
<1> QED
  BY <1>1, <1>2, <1>3, <1>4, <1>5, <1>6, <1>7, <1>8, <1>9, <1>10, SoundSteps DEF Acts

\* A deletion in the name of the row's user deletes the row.
LEMMA DelSteps ==
  ASSUME Sound, SessionInv, NothingLost, NEW q \in Proc, Step(q), NEW p \in Proc, pc[p] = "del"
  PROVE  pc'[p] = "del" \/ dev[p] \notin rows'
<1>0. ~Fault /\ ~CacheFault /\ TypeOK
  BY NoFault DEF SessionInv, STypeOK
<1>1. dev[p] \in issued /\ owner[dev[p]] = user[p]
  BY <1>0 DEF TypeOK, ControlType, NothingLost
<1>2. CASE q = p
  <2>1. DeleteDevice(p)
    BY <1>2 DEF Step, CacheGet, LoadDo, LoadQuery, LoadSet, LoadReturn, Bump, Peek, Reread, Publish,
        DeleteAllDevices, Bury
  <2>2. rows' = rows \ Owned(user[p], {dev[p]})
    BY <1>0, <2>1 DEF DeleteDevice, DeleteRows
  <2> QED
    BY <1>1, <2>2 DEF Owned
<1>3. CASE q # p
  <2>1. ASSUME ~LoadReturn(q) PROVE pc'[p] = pc[p]
    BY <1>0, <1>3, <2>1 DEF Step, CacheGet, LoadDo, LoadQuery, LoadSet, Bump, Peek, Reread, Publish,
        DeleteDevice, DeleteAllDevices, DeleteRows, Bury, Goto, TypeOK, ControlType
  <2>2. ASSUME LoadReturn(q) PROVE pc'[p] = pc[p]
    BY <1>3, <2>2 DEF LoadReturn, Waiters
  <2> QED
    BY <2>1, <2>2
<1> QED
  BY <1>2, <1>3

\* What NewestKept says of a row, and of a login.
NewestOut(d) ==
    \/ <<d, gen[d]>> \in held
    \/ \E p \in Proc : Dev(tok[p]) = d /\ (Bumped(p) \/ LoggingIn(p))
OwnDevice(p) ==
    /\ Gen(tok[p]) = 1 /\ gen[Dev(tok[p])] = 1
    /\ \A t \in held : Dev(t) # Dev(tok[p])
    /\ \A r \in results : Dev(r[1]) # Dev(tok[p])
    /\ \A q \in Proc \ {p} : Dev(tok[q]) # Dev(tok[p])
UndoWorks(p) ==
    hp[p] = "login-undo" /\ Dev(tok[p]) \in rows => pc[p] = "del" /\ dev[p] = Dev(tok[p])

\* The parts of NewestKept.
LEMMA NewestKeptParts ==
  NewestKept <=> /\ \A d \in rows : NewestOut(d)
                 /\ \A p \in Proc : LoggingIn(p) => OwnDevice(p) /\ UndoWorks(p)
  BY DEF NewestKept, NewestOut, OwnDevice, UndoWorks

\* The newest token of a row is held, or on its way to the client.
LEMMA NewestOutNext ==
  ASSUME Going, NewestKept, NEW d \in rows'
  PROVE  NewestOut(d)'
<1>0. Sound /\ Shapes /\ Ordered /\ SessionInv /\ Basic /\ TypeOK /\ TypeOK'
  BY DEF Going, Ordered, SessionInv, Basic, STypeOK
<1>1. CASE d \notin issued
  <2>1. d \in issued'
    BY <1>0 DEF TypeOK, TableType
  <2>2. PICK p \in Proc : LoginBegins(p) /\ tok'[p] = <<d, 1>>
    BY <1>0, <1>1, <2>1, IssuedSteps
  <2>3. hp'[p] = "login"
    BY <1>0, <2>2 DEF LoginBegins, To, Basic, STypeOK
  <2> QED
    BY <2>2, <2>3 DEF NewestOut, LoggingIn, Dev
<1>2. CASE d \in issued /\ gen'[d] # gen[d]
  <2>1. PICK q \in Proc : Bumps(q) /\ dev[q] = d /\ UNCHANGED sessions
    BY <1>0, <1>2, TableSteps
  <2>2. d = Dev(tok[q]) /\ hp[q] = "update"
    BY <1>0, <2>1, BumpsInTurn
  <2>3. pc'[q] = "peek" /\ hp' = hp /\ tok' = tok
    BY <1>0, <2>1 DEF Bumps, TypeOK, ControlType, sessions, request
  <2>4. Bumped(q)'
    BY <2>2, <2>3 DEF Bumped, PastUpdate
  <2> QED
    BY <2>2, <2>3, <2>4 DEF NewestOut
<1>3. CASE d \in issued /\ gen'[d] = gen[d]
  <2>0. d \in rows
    BY <1>0, <1>3, TableSteps
  <2>1. CASE <<d, gen[d]>> \in held
    BY <1>0, <1>3, <2>1, TokenSteps DEF NewestOut
  <2>2. ASSUME NEW p \in Proc, Dev(tok[p]) = d, Bumped(p) PROVE NewestOut(d)'
    <3>1. tok'[p] = tok[p] /\ (Bumped(p)' \/ Ends(p))
      BY <1>0, <2>2, BumpedSteps DEF Follows
    <3>2. Ends(p) => <<d, gen[d]>> \in held'
      BY <2>0, <2>2, EndsWell
    <3> QED
      BY <1>3, <2>2, <3>1, <3>2 DEF NewestOut
  <2>3. ASSUME NEW p \in Proc, Dev(tok[p]) = d, LoggingIn(p) PROVE NewestOut(d)'
    <3>1. /\ tok'[p] = tok[p]
          /\ LoggingIn(p)' \/ LoginEnds(p) \/ Answered(p, "login-undo", "deleted")
      BY <1>0, <2>3, LoginSteps
    <3>2. ~Answered(p, "login-undo", "deleted")
      BY <2>0, <2>3, NewestKeptParts DEF UndoWorks, Answered
    <3>3. LoginEnds(p) => <<d, gen[d]>> \in held'
      <4>1. tok[p] = <<d, 1>> /\ gen[d] = 1
        BY <1>0, <2>3, Numbers, NewestKeptParts DEF OwnDevice
      <4> QED
        BY <4>1 DEF LoginEnds
    <3> QED
      BY <1>3, <2>3, <3>1, <3>2, <3>3 DEF NewestOut
  <2> QED
    BY <2>0, <2>1, <2>2, <2>3, NewestKeptParts DEF NewestOut
<1> QED
  BY <1>1, <1>2, <1>3

\* Until a login answers nobody else has to do with its device.
LEMMA OwnDeviceNext ==
  ASSUME Going, NewestKept, NEW p \in Proc, LoggingIn(p)'
  PROVE  OwnDevice(p)'
<1>0. /\ Sound /\ Shapes /\ Ordered /\ SessionInv /\ Basic /\ TypeOK /\ TokensGiven
      /\ tok \in [Proc -> (Device \cup {None}) \X Nat] /\ issued \subseteq Device
      /\ held \subseteq issued \X Nat /\ gen \in [Device -> Nat]
  BY DEF Going, Ordered, SessionInv, Basic, STypeOK, TypeOK, TableType
<1>1. CASE LoginBegins(p)
  <2>1. PICK e \in Device, u \in User : SaveDeviceSecret(e, u) /\ tok' = [tok EXCEPT ![p] = <<e, 1>>]
    BY <1>1 DEF LoginBegins
  <2>2. e \notin issued /\ tok'[p] = <<e, 1>> /\ gen'[e] = 1 /\ UNCHANGED <<held, results>>
    BY <1>0, <1>1, <2>1 DEF SaveDeviceSecret, LoginBegins, flights
  <2>3. Dev(tok'[p]) = e /\ Gen(tok'[p]) = 1
    BY <2>2 DEF Dev, Gen
  <2>4. \A t \in held : Dev(t) # e
    BY <1>0, <2>2 DEF TokensGiven, Given
  <2>5. \A r \in results : Dev(r[1]) # e
    BY <1>0, <2>2 DEF TokensGiven, Given, Dev
  <2>6. \A q \in Proc \ {p} : Dev(tok'[q]) # e
    <3>1. \A q \in Proc \ {p} : tok'[q] = tok[q]
      BY <1>0, <2>1
    <3> QED
      BY <1>0, <2>1, <2>2, <3>1, Numbers, NoneAssumption
  <2> QED
    BY <2>2, <2>3, <2>4, <2>5, <2>6 DEF OwnDevice
<1>2. CASE LoggingIn(p) /\ tok'[p] = tok[p]
  <2> DEFINE d == Dev(tok[p])
  <2>1. OwnDevice(p)
    BY <1>2, NewestKeptParts
  <2>2. d \in issued /\ d # None
    BY <1>0, <1>2, Numbers, NoneAssumption DEF LoggingIn
  <2>3. gen'[d] = 1
    <3>1. ASSUME NEW q \in Proc, Bumps(q), dev[q] = d PROVE FALSE
      BY <1>0, <1>2, <2>1, <3>1, BumpsInTurn DEF OwnDevice, LoggingIn
    <3> QED
      BY <1>0, <2>1, <2>2, <3>1, TableSteps DEF OwnDevice
  <2>4. ASSUME NEW q \in Proc, Lands(q, 200) PROVE Dev(tok[q]) # d
    <3>1. q # p
      BY <1>2, <2>4 DEF Lands, LoggingIn, Rotating
    <3> QED
      BY <2>1, <3>1 DEF OwnDevice
  <2>5. ASSUME NEW t \in held', Dev(t) = d PROVE FALSE
    <3>1. CASE t \in held
      BY <2>1, <2>5, <3>1 DEF OwnDevice
    <3>2. CASE \E q \in Proc : Lands(q, 200) /\ t = <<Dev(tok[q]), out[q]>>
      BY <2>4, <2>5, <3>2 DEF Dev
    <3>3. CASE \E q \in Proc, r \in results : r[1] = tok[q] /\ t = <<Dev(tok[q]), r[2]>>
      BY <2>1, <2>5, <3>3 DEF OwnDevice, Dev
    <3>4. CASE \E q \in Proc : LoginEnds(q) /\ t = tok[q]
      <4>1. PICK q \in Proc : LoginEnds(q) /\ t = tok[q]
        BY <3>4
      <4>2. q = p
        BY <2>1, <2>5, <4>1 DEF OwnDevice
      <4>3. hp'[p] = "reply"
        BY <1>0, <4>1, <4>2 DEF LoginEnds, Answer, To, Basic, STypeOK
      <4> QED
        BY <4>3 DEF LoggingIn
    <3> QED
      BY <1>0, <2>5, <3>1, <3>2, <3>3, <3>4, TokenSteps
  <2>6. ASSUME NEW r \in results', Dev(r[1]) = d PROVE FALSE
    BY <1>0, <2>1, <2>4, <2>6, TokenSteps DEF OwnDevice
  <2>7. ASSUME NEW q \in Proc \ {p}, Dev(tok'[q]) = d PROVE FALSE
    <3>1. CASE tok'[q] = tok[q] \/ tok'[q] \in held
      BY <2>1, <2>7, <3>1 DEF OwnDevice
    <3>2. CASE LoginBegins(q)
      <4>1. PICK e \in Device, u \in User :
              SaveDeviceSecret(e, u) /\ tok' = [tok EXCEPT ![q] = <<e, 1>>]
        BY <3>2 DEF LoginBegins
      <4>2. e \notin issued /\ tok'[q] = <<e, 1>>
        BY <1>0, <4>1 DEF SaveDeviceSecret
      <4> QED
        BY <2>2, <2>7, <4>2 DEF Dev
    <3>3. CASE tok'[q] = NoToken
      BY <2>2, <2>7, <3>3 DEF NoToken, Dev
    <3> QED
      BY <1>0, <3>1, <3>2, <3>3, TokenSteps
  <2> QED
    BY <1>2, <2>1, <2>3, <2>5, <2>6, <2>7 DEF OwnDevice
<1> QED
  BY <1>0, <1>1, <1>2, LoginSteps

\* A login that gives up deletes its device.
LEMMA UndoWorksNext ==
  ASSUME Going, NewestKept, NEW p \in Proc, LoggingIn(p)'
  PROVE  UndoWorks(p)'
<1>0. Sound /\ Shapes /\ Ordered /\ SessionInv /\ NothingLost /\ Basic /\ TypeOK
  BY DEF Going, Ordered, SessionInv, Basic, STypeOK
<1> SUFFICES ASSUME hp'[p] = "login-undo", Dev(tok'[p]) \in rows'
             PROVE  pc'[p] = "del" /\ dev'[p] = Dev(tok'[p])
  BY DEF UndoWorks
<1>1. /\ LoggingIn(p) /\ tok'[p] = tok[p]
      /\ \/ hp[p] = "login-undo" /\ pc'[p] = pc[p] /\ dev'[p] = dev[p]
         \/ pc'[p] = "del" /\ dev'[p] = Dev(tok[p])
         \/ hp[p] = "login-undo" /\ \E q \in Proc : Step(q)
  BY <1>0, LoginSteps
<1>2. Dev(tok[p]) \in rows
  BY <1>0, <1>1, Numbers, TableSteps DEF LoggingIn
<1>3. hp[p] = "login-undo" => pc[p] = "del" /\ dev[p] = Dev(tok[p])
  BY <1>1, <1>2, NewestKeptParts DEF UndoWorks
<1>4. ASSUME NEW q \in Proc, Step(q), hp[p] = "login-undo"
      PROVE  pc'[p] = "del" /\ dev'[p] = Dev(tok[p])
  BY <1>0, <1>1, <1>3, <1>4, DelSteps, StepEffects
<1> QED
  BY <1>1, <1>3, <1>4

\* No newest token is lost.
LEMMA NewestKeptNext ==
  ASSUME Going, NewestKept
  PROVE  NewestKept'
<1>1. \A d \in rows' : NewestOut(d)'
  BY NewestOutNext
<1>2. \A p \in Proc : LoggingIn(p)' => OwnDevice(p)' /\ UndoWorks(p)'
  BY OwnDeviceNext, UndoWorksNext
<1> QED
  BY <1>1, <1>2 DEF NewestKept, NewestOut, OwnDevice, UndoWorks

(***************************************************************************)
(* The invariant and the theorems.                                         *)
(***************************************************************************)
\* Every step keeps RotationInv.
LEMMA RotationInvNext ==
  ASSUME SessionInv, RotationInv, [SNext]_svars
  PROVE  RotationInv'
<1> SUFFICES ASSUME ~Timeouts, faults' = 0
             PROVE  /\ NothingLost' /\ LeadersApart' /\ InTurn' /\ AnswersKept' /\ NewestKept'
                    /\ ConcurrentRefreshIsNotTheft'
  BY DEF RotationInv
<1>1. Basic /\ SessionInv'
  BY SessionInvNext DEF SessionInv, Basic
<1>2. Shapes
  BY <1>1, HaveShapes
<1>3. Sound
  BY <1>1, <1>2, ShapesUseStore, FaultsCount DEF Sound, Basic, STypeOK
<1>4. NothingLost /\ LeadersApart /\ InTurn /\ AnswersKept /\ NewestKept
      /\ ConcurrentRefreshIsNotTheft
  BY <1>3 DEF RotationInv, Sound
<1>5. Going
  BY <1>1, <1>2, <1>3, <1>4, NothingLostNext, LeadersApartNext DEF Going, Ordered
<1>6. InTurn' /\ AnswersKept' /\ NewestKept'
  BY <1>4, <1>5, InTurnNext, AnswersKeptNext, NewestKeptNext
<1>7. ConcurrentRefreshIsNotTheft'
  BY <1>4, <1>5, NotTheftNext DEF ConcurrentRefreshIsNotTheft
<1> QED
  BY <1>5, <1>6, <1>7 DEF Going

\* Initially no device and no rotation exists.
LEMMA RotationInvInit == SInit => RotationInv
<1> SUFFICES ASSUME SInit PROVE RotationInv
  OBVIOUS
<1>1. /\ rows = {} /\ issued = {} /\ blind = {} /\ tainted = {} /\ held = {} /\ results = {}
      /\ spent = {} /\ leads = {} /\ \A p \in Proc : hp[p] = "free" /\ pc[p] = "idle"
  BY DEF SInit, Init
<1>2. NothingLost /\ LeadersApart
  BY <1>1 DEF NothingLost, LeadersApart
<1>3. InTurn
  BY <1>1 DEF InTurn, Bumped
<1>4. AnswersKept /\ NewestKept /\ ConcurrentRefreshIsNotTheft
  BY <1>1 DEF AnswersKept, NewestKept, LoggingIn, ConcurrentRefreshIsNotTheft
<1> QED
  BY <1>2, <1>3, <1>4 DEF RotationInv

\* The rotations are in turn in every reachable state.
THEOREM RotationInvariant == SSpec => []RotationInv
<1>1. SInit => SessionInv /\ RotationInv
  BY SessionInvInit, RotationInvInit
<1>2. SessionInv /\ RotationInv /\ [SNext]_svars => (SessionInv /\ RotationInv)'
  BY SessionInvNext, RotationInvNext
<1> QED
  BY <1>1, <1>2, PTL DEF SSpec

\* Where no deadline passes, until something fails: a token is rotated once, whoever races
\* for it and on whichever instance; the generation that follows it came from it.
THEOREM RotatedOnce == ASSUME ~Timeouts PROVE SSpec => []OneRotationPerToken
<1>1. SessionInv /\ RotationInv => OneRotationPerToken
  <2> SUFFICES ASSUME SessionInv, RotationInv, faults = 0, NEW p \in Proc, pc[p] \in PastUpdate
               PROVE  new[p] = Gen(tok[p]) + 1
    BY DEF OneRotationPerToken
  <2>1. hp[p] = "update"
    BY BumpedPlace DEF SessionInv, Basic, PastUpdate, Updating
  <2>2. Bumped(p) /\ hp[p] # "issue"
    BY <2>1 DEF Bumped
  <2> QED
    BY <2>2 DEF RotationInv, InTurn
<1> QED
  BY <1>1, SessionInvariant, RotationInvariant, PTL

\* Where no deadline passes, until something fails: a /refresh is taken for theft only if its
\* token had been replaced by an answered /refresh before the request began, however many
\* requests with one token race on however many instances.
THEOREM RefreshIsNotTheft == ASSUME ~Timeouts PROVE SSpec => []ConcurrentRefreshIsNotTheft
<1>1. RotationInv => ConcurrentRefreshIsNotTheft
  BY DEF RotationInv, ConcurrentRefreshIsNotTheft
<1> QED
  BY <1>1, RotationInvariant, PTL

\* Where no deadline passes, until something fails: when nothing is in progress the client
\* side has the token of every row's current generation, so that no rotation is committed
\* and then lost.
THEOREM CurrentTokenStaysHeld == ASSUME ~Timeouts PROVE SSpec => []CurrentTokenIsHeld
<1>1. RotationInv => CurrentTokenIsHeld
  <2> SUFFICES ASSUME RotationInv, faults = 0,
                      \A p \in Proc : hp[p] \in {"free", "reply", "landed"},
                      NEW d \in rows
               PROVE  <<d, gen[d]>> \in held
    BY DEF CurrentTokenIsHeld
  <2>1. \A p \in Proc : ~Bumped(p) /\ ~LoggingIn(p)
    BY DEF Bumped, LoggingIn
  <2> QED
    BY <2>1 DEF RotationInv, NewestKept
<1> QED
  BY <1>1, RotationInvariant, PTL

(***************************************************************************)
(* The rotations of a token are the runs of one flight, whatever fails.    *)
(***************************************************************************)
\* The tokens that can be in use.
Tokens == Device \X (1..MaxGen)

\* Whoever has joined a flight has a leader beside it.
JoinersFollow == \A p \in Proc : hp[p] = "join" => \E q \in SameFlight(p) : q \in leads

\* The inductive invariant.
FlightsInv == SessionInv /\ JoinersFollow

\* Where a request is in the flight of t.
LEMMA InFlight ==
  ASSUME \A p \in Proc : InPlace(p), NEW t
  PROVE  \A p \in Proc :
           /\ (Phase(p, t) = "waiting") <=> (tok[p] = t /\ hp[p] = "join")
           /\ (Phase(p, t) = "running") <=> (tok[p] = t /\ p \in leads)
           /\ (Phase(p, t) = "done") <=> (tok[p] = t /\ hp[p] = "landed")
           /\ (Phase(p, t) = "out") <=>
                (tok[p] # t \/ (hp[p] \notin {"join", "landed"} /\ p \notin leads))
<1> SUFFICES ASSUME NEW p \in Proc
             PROVE  /\ (Phase(p, t) = "waiting") <=> (tok[p] = t /\ hp[p] = "join")
                    /\ (Phase(p, t) = "running") <=> (tok[p] = t /\ p \in leads)
                    /\ (Phase(p, t) = "done") <=> (tok[p] = t /\ hp[p] = "landed")
                    /\ (Phase(p, t) = "out") <=>
                         (tok[p] # t \/ (hp[p] \notin {"join", "landed"} /\ p \notin leads))
  OBVIOUS
<1>1. p \in leads => hp[p] \notin {"join", "landed"}
  BY DEF InPlace, Rotating
<1>2. CASE tok[p] # t
  BY <1>2 DEF Phase
<1>3. CASE tok[p] = t /\ hp[p] = "join"
  BY <1>1, <1>3 DEF Phase, At
<1>4. CASE tok[p] = t /\ p \in leads
  BY <1>1, <1>4 DEF Phase, At
<1>5. CASE tok[p] = t /\ hp[p] # "join" /\ p \notin leads
  BY <1>1, <1>5 DEF Phase, At
<1> QED
  BY <1>2, <1>3, <1>4, <1>5

\* Those whose request keeps its place keep their phase.
Stays(p) ==
    /\ tok'[p] = tok[p] /\ (p \in leads' <=> p \in leads)
    /\ (hp'[p] = "join" <=> hp[p] = "join") /\ (hp'[p] = "landed" <=> hp[p] = "landed")
    /\ hp[p] = "landed" => status'[p] = status[p]

\* So do those who are in no flight, before and after.
Away(p) ==
    /\ p \notin leads /\ hp[p] \notin {"join", "landed"}
    /\ p \notin leads' /\ hp'[p] \notin {"join", "landed"}

\* Neither changes its phase or its outcome, nor do those with another token.
LEMMA PhaseKept ==
  ASSUME NEW p \in Proc, NEW t, Stays(p) \/ Away(p) \/ (tok[p] # t /\ tok'[p] # t)
  PROVE  Phase(p, t)' = Phase(p, t) /\ Outcome(p, t)' = Outcome(p, t)
<1>1. CASE Away(p)
  <2>1. Phase(p, t) = "out" /\ Phase(p, t)' = "out"
    BY <1>1 DEF Away, Phase, At
  <2> QED
    BY <2>1 DEF Outcome
<1>2. CASE Stays(p)
  <2>1. Phase(p, t)' = Phase(p, t)
    BY <1>2 DEF Stays, Phase, At
  <2>2. Phase(p, t) = "done" => hp[p] = "landed"
    BY DEF Phase, At
  <2> QED
    BY <1>2, <2>1, <2>2 DEF Stays, Outcome
<1>3. CASE tok[p] # t /\ tok'[p] # t
  <2>1. Phase(p, t) = "out" /\ Phase(p, t)' = "out"
    BY <1>3 DEF Phase
  <2> QED
    BY <2>1 DEF Outcome
<1> QED
  BY <1>1, <1>2, <1>3

\* The requests of the flight of t that run without the lock.
Solo(t) == {p \in leads \ holds : Redis /\ tok[p] = t}

\* A step that nobody in the flight of t takes part in is none of it, or a fault.
LEMMA NoneOfIt ==
  ASSUME NEW t, faults \in Nat, faults' = faults \/ (faults' # faults /\ faults' > 0),
         \A p \in Proc : Phase(p, t)' = Phase(p, t) /\ Outcome(p, t)' = Outcome(p, t),
         (Stored(t) # {})' = (Stored(t) # {}), Solo(t)' = Solo(t)
  PROVE  UNCHANGED Flights(t)!svars \/ Flights(t)!SharedNext
<1>1. /\ [p \in Proc |-> Phase(p, t)]' = [p \in Proc |-> Phase(p, t)]
      /\ [p \in Proc |-> Outcome(p, t)]' = [p \in Proc |-> Outcome(p, t)]
  OBVIOUS
<1>2. CASE faults' = faults
  <2>1. (faults = 0)' = (faults = 0)
    BY <1>2
  <2> QED
    BY <1>1, <2>1 DEF Flights!svars, Solo
<1>3. CASE faults' # faults /\ faults' > 0
  <2>1. (faults' = 0) = FALSE
    BY <1>3
  <2>2. Flights(t)!Lose
    BY <1>1, <2>1, Zenon DEF Flights!Lose, Solo
  <2> QED
    BY <2>2 DEF Flights!SharedNext
<1> QED
  BY <1>2, <1>3

\* What the steps below start from.
Keeps ==
    /\ Basic /\ Basic' /\ JoinersFollow
    /\ faults \in Nat /\ (faults' = faults \/ (faults' # faults /\ faults' > 0))

\* The step is one of the flight of t, or leaves it alone.
OfFlight(t) == UNCHANGED Flights(t)!svars \/ Flights(t)!SharedNext

\* Redis is trusted no more once it has failed.
LEMMA TrustKept ==
  ASSUME Keeps, NEW t
  PROVE  Flights(t)!Trust
<1>1. CASE faults' = faults
  BY <1>1, Zenon DEF Flights!Trust
<1>2. CASE faults' # faults /\ faults' > 0
  <2>1. (faults' = 0) = FALSE
    BY <1>2
  <2> QED
    BY <2>1, Zenon DEF Flights!Trust
<1> QED
  BY <1>1, <1>2 DEF Keeps

\* Who gets the answer of a flight are those who wait for it.
LEMMA PartyLands ==
  ASSUME Keeps, NEW p \in Proc
  PROVE  Flights(tok[p])!Party(p) = Landing(p)
<1>1. \A q \in Proc : (Phase(q, tok[p]) = "waiting") <=> (tok[q] = tok[p] /\ hp[q] = "join")
  BY InFlight DEF Keeps, Basic
<1> QED
  BY <1>1 DEF Flights!Party, Landing, SameFlight

\* Who still waits when a rotation has landed waits for another one.
LEMMA LandsFollowed ==
  ASSUME JoinersFollow, NEW p \in Proc, NEW s, Lands(p, s)
  PROVE  JoinersFollow'
<1>1. /\ tok' = tok /\ leads' = leads \ {p}
      /\ \A q \in Proc : hp'[q] = IF q \in Landing(p) THEN "landed" ELSE hp[q]
  BY DEF Lands
<1> SUFFICES ASSUME NEW q \in Proc, hp'[q] = "join"
             PROVE  \E r \in SameFlight(q)' : r \in leads'
  BY DEF JoinersFollow
<1>2. hp[q] = "join" /\ q \notin Landing(p)
  BY <1>1
<1>3. PICK r \in SameFlight(q) : r \in leads
  BY <1>2 DEF JoinersFollow
<1>4. r # p
  BY <1>2, <1>3 DEF Landing, SameFlight
<1> QED
  BY <1>1, <1>3, <1>4 DEF SameFlight

\* A rotation that lands is the end of a run; it answers whoever joined, and a success
\* under the lock is stored unless Redis fails.
LEMMA LandsOfFlight ==
  ASSUME Keeps, NEW p \in Proc, NEW s \in Statuses, Lands(p, s), NEW t
  PROVE  OfFlight(t)
<1>0. /\ \A q \in Proc : InPlace(q)
      /\ \A q \in leads' : hp'[q] \in Rotating
      /\ leads \subseteq Proc /\ holds \subseteq leads /\ p \in leads
  <2>1. (\A q \in Proc : InPlace(q))' /\ leads' \subseteq Proc
    BY DEF Keeps, Basic, STypeOK
  <2>2. \A q \in Proc : q \in leads' <=> hp'[q] \in Rotating
    BY <2>1 DEF InPlace
  <2> QED
    BY <2>1, <2>2 DEF Keeps, Basic, STypeOK, Lands, InPlace
<1>1. /\ tok' = tok /\ leads' = leads \ {p} /\ holds' = holds \ {p}
      /\ \A q \in Proc : hp'[q] = IF q \in Landing(p) THEN "landed" ELSE hp[q]
      /\ \A q \in Proc : status'[q] = IF q \in Landing(p) THEN s ELSE status[q]
  BY DEF Lands
<1>2. \A q \in Proc : q \notin Landing(p) => Stays(q)
  <2> SUFFICES ASSUME NEW q \in Proc, q \notin Landing(p) PROVE Stays(q)
    OBVIOUS
  <2>1. q # p
    BY DEF Landing
  <2> QED
    BY <1>1, <2>1 DEF Stays
<1>3. \A q \in Landing(p) : q \in Proc /\ tok[q] = tok[p]
  BY DEF Landing, SameFlight
<1>4. CASE tok[p] # t
  <2>1. \A q \in Proc : Phase(q, t)' = Phase(q, t) /\ Outcome(q, t)' = Outcome(q, t)
    BY <1>1, <1>2, <1>3, <1>4, PhaseKept
  <2>2. Stored(t)' = Stored(t)
    BY <1>4 DEF Lands, Stored
  <2>3. Solo(t)' = Solo(t)
    BY <1>1, <1>4 DEF Solo
  <2> QED
    BY <2>1, <2>2, <2>3, NoneOfIt DEF Keeps, OfFlight
<1>5. CASE tok[p] = t
  <2> DEFINE a == IF s = 200 THEN "ok" ELSE "err"
  <2>1. Phase(p, t) = "running"
    BY <1>0, <1>5, InFlight
  <2>2. Flights(t)!Party(p) = Landing(p)
    BY <1>5, PartyLands
  <2>3. \A q \in Proc : /\ Phase(q, t)' = IF q \in Landing(p) THEN "done" ELSE Phase(q, t)
                        /\ Outcome(q, t)' = IF q \in Landing(p) THEN a ELSE Outcome(q, t)
    <3>1. ASSUME NEW q \in Landing(p) PROVE q \in Proc /\ Phase(q, t)' = "done"
      <4>1. q \in Proc /\ tok'[q] = t /\ hp'[q] = "landed"
        BY <1>1, <1>3, <1>5
      <4>2. q \notin leads'
        BY <1>0, <4>1 DEF Rotating
      <4> QED
        BY <4>1, <4>2 DEF Phase, At
    <3>2. ASSUME NEW q \in Landing(p) PROVE Outcome(q, t)' = a
      BY <1>1, <3>1 DEF Outcome
    <3> QED
      BY <1>2, <3>1, <3>2, PhaseKept
  <2>4. Flights(t)!Respond(Flights(t)!Party(p), a)
    <3> HIDE DEF a
    <3> QED
      BY <2>2, <2>3 DEF Flights!Respond
  <2>5. Solo(t)' = Solo(t) \ {p}
    BY <1>0, <1>1, <1>5 DEF Solo
  <2>6. \/ Flights(t)!ToKeep(p, a) /\ (Stored(t) # {})' = TRUE
        \/ /\ faults' = 0 => ~Flights(t)!ToKeep(p, a)
           /\ (Stored(t) # {})' = (Stored(t) # {})
    <3>1. CASE s # 200
      <4>1. a # "ok" /\ results' = results
        BY <3>1 DEF Lands
      <4> QED
        BY <4>1 DEF Stored, Flights!ToKeep
    <3>2. CASE s = 200 /\ results' = results \cup {<<tok[p], out[p]>>} /\ (Redis => p \in holds)
      <4>1. <<tok[p], out[p]>> \in Stored(t)'
        BY <1>5, <3>2 DEF Stored
      <4>2. Flights(t)!ToKeep(p, a)
        BY <3>2 DEF Flights!ToKeep
      <4> QED
        BY <4>1, <4>2
    <3>3. CASE results' = results /\ (Fault \/ (Redis /\ p \notin holds))
      <4>1. faults' = 0 => ~Flights(t)!ToKeep(p, a)
        BY <1>0, <1>5, <3>3 DEF Flights!ToKeep, Fault, Keeps
      <4> QED
        BY <3>3, <4>1 DEF Stored
    <3> QED
      BY <3>1, <3>2, <3>3 DEF Lands
  <2>8. Flights(t)!Expecting' = {}
    <3>1. \A q \in Proc : /\ Phase(q, t)' = "waiting" => tok'[q] = t /\ hp'[q] = "join"
                          /\ tok'[q] = t /\ q \in leads' => Phase(q, t)' = "running"
      BY <1>0 DEF Phase, At, Rotating
    <3>2. ASSUME NEW q \in Proc, Phase(q, t)' = "waiting"
          PROVE  \E r \in Proc : Phase(r, t)' = "running" /\ Home[r] = Home[q]
      BY <3>1, <3>2, LandsFollowed DEF Keeps, JoinersFollow, SameFlight
    <3> QED
      BY <3>2 DEF Flights!Expecting, Flights!Running
  <2>7. Flights(t)!End(p, a)
    <3> HIDE DEF a
    <3> QED
      BY <2>1, <2>4, <2>5, <2>6, <2>8, TrustKept, Zenon DEF Flights!End, Solo
  <2> QED
    BY <2>7 DEF OfFlight, Flights!SharedNext
<1> QED
  BY <1>4, <1>5

\* A request that moves alone: everybody else keeps its phase.
LEMMA OthersStay ==
  ASSUME NEW p \in Proc, hp \in [Proc -> Places], tok \in [Proc -> (Device \cup {None}) \X Nat],
         NEW h, hp' = [hp EXCEPT ![p] = h],
         tok' = tok \/ \E x : tok' = [tok EXCEPT ![p] = x],
         status' = status \/ \E x : status' = [status EXCEPT ![p] = x],
         status \in [Proc -> Statuses],
         leads' = leads \/ leads' = leads \cup {p}
  PROVE  hp'[p] = h /\ \A q \in Proc : q # p => Stays(q)
<1>1. \A q \in Proc : q # p => hp'[q] = hp[q] /\ tok'[q] = tok[q] /\ status'[q] = status[q]
  OBVIOUS
<1> QED
  BY <1>1 DEF Stays

\* The types the steps need.
LEMMA FlightTypes ==
  ASSUME Keeps
  PROVE  /\ hp \in [Proc -> Places] /\ tok \in [Proc -> (Device \cup {None}) \X Nat]
         /\ status \in [Proc -> Statuses]
         /\ leads \subseteq Proc /\ holds \subseteq leads
         /\ \A q \in holds : tok[q] \in locked
         /\ \A q \in Proc : InPlace(q)
         /\ \A q \in Proc : q \in leads <=> hp[q] \in Rotating
<1>1. /\ hp \in [Proc -> Places] /\ tok \in [Proc -> (Device \cup {None}) \X Nat]
      /\ status \in [Proc -> {0, 200, 401, 500}]
      /\ leads \subseteq Proc /\ holds \subseteq leads
      /\ {tok[q] : q \in holds} \subseteq locked
      /\ \A q \in Proc : InPlace(q)
  BY DEF Keeps, Basic, STypeOK
<1> QED
  BY <1>1 DEF InPlace, Statuses

\* A rotation that begins is a run that starts: nobody beside it runs, and nobody
\* runs under the lock, unless Redis failed or waiting for it took too long.
LEMMA LeadsOfFlight ==
  ASSUME Keeps, NEW p \in Proc, Leads(p), NEW t
  PROVE  OfFlight(t)
<1>0. /\ hp \in [Proc -> Places] /\ tok \in [Proc -> (Device \cup {None}) \X Nat]
      /\ status \in [Proc -> Statuses] /\ leads \subseteq Proc /\ holds \subseteq leads
      /\ \A q \in holds : tok[q] \in locked
      /\ \A q \in Proc : InPlace(q)
      /\ p \notin leads
  BY FlightTypes DEF Leads, At, Rotating
<1>1. /\ hp[p] = "flight" /\ SameFlight(p) \cap leads = {}
      /\ leads' = leads \cup {p} /\ hp' = [hp EXCEPT ![p] = "rotate"]
      /\ UNCHANGED <<tok, status, results>>
  BY DEF Leads, At, To
<1>2. hp'[p] = "rotate" /\ \A q \in Proc : q # p => Stays(q)
  BY <1>0, <1>1, OthersStay
<1>3. Stored(t)' = Stored(t)
  BY <1>1 DEF Stored
<1>4. CASE tok[p] # t
  <2>1. \A q \in Proc : Phase(q, t)' = Phase(q, t) /\ Outcome(q, t)' = Outcome(q, t)
    BY <1>1, <1>2, <1>4, PhaseKept
  <2>2. Solo(t)' = Solo(t)
    <3>1. holds' = holds \/ holds' = holds \cup {p}
      BY DEF Leads
    <3> QED
      BY <1>1, <1>4, <3>1 DEF Solo
  <2> QED
    BY <1>3, <2>1, <2>2, NoneOfIt DEF Keeps, OfFlight
<1>5. CASE tok[p] = t
  <2>1. Phase(p, t) = "out" /\ Phase(p, t)' = "running"
    <3>1. tok'[p] = t /\ p \in leads' /\ hp'[p] # "join" /\ hp'[p] # "landed"
      BY <1>1, <1>2, <1>5
    <3> QED
      BY <1>0, <1>1, <3>1 DEF Phase, At
  <2>2. Outcome(p, t)' = Outcome(p, t)
    BY <2>1 DEF Outcome
  <2>3. /\ [q \in Proc |-> Phase(q, t)]' = [[q \in Proc |-> Phase(q, t)] EXCEPT ![p] = "running"]
        /\ [q \in Proc |-> Outcome(q, t)]' = [q \in Proc |-> Outcome(q, t)]
    <3>1. \A q \in Proc : q # p => Phase(q, t)' = Phase(q, t) /\ Outcome(q, t)' = Outcome(q, t)
      BY <1>2, PhaseKept
    <3> QED
      BY <2>1, <2>2, <3>1
  <2>4. Flights(t)!Running = {q \in leads : tok[q] = t}
    <3>1. \A q \in Proc : (Phase(q, t) = "running") <=> (tok[q] = t /\ q \in leads)
      BY <1>0, InFlight
    <3> QED
      BY <1>0, <3>1 DEF Flights!Running
  <2>5. \A q \in Flights(t)!Running : Home[q] # Home[p]
    BY <1>0, <1>1, <1>5, <2>4 DEF SameFlight
  <2>6. \/ /\ faults' = 0 => Flights(t)!Running \subseteq Solo(t) /\ ~(Stored(t) # {})
           /\ Solo(t)' = Solo(t)
        \/ /\ faults' = 0 => Timeouts
           /\ Solo(t)' = Solo(t) \cup {p}
    <3>1. CASE /\ Stored(tok[p]) = {} /\ Unlocked(tok[p])
               /\ holds' = IF Redis THEN holds \cup {p} ELSE holds
      <4>1. Stored(t) = {}
        BY <1>5, <3>1
      <4>2. CASE Redis
        <5>1. \A q \in leads : tok[q] = t => q \notin holds
          BY <1>0, <1>5, <3>1, <4>2 DEF Unlocked
        <5>2. Flights(t)!Running \subseteq Solo(t)
          BY <2>4, <4>2, <5>1 DEF Solo
        <5>3. Solo(t)' = Solo(t)
          BY <1>0, <1>1, <3>1, <4>2 DEF Solo
        <5> QED
          BY <4>1, <5>2, <5>3
      <4>3. CASE ~Redis
        <5>1. Flights(t)!Running = {}
          BY <1>0, <2>4, <2>5, <4>3, HomeAssumption, RedisAssumption
        <5>2. Solo(t)' = {} /\ Solo(t) = {}
          BY <4>3 DEF Solo
        <5> QED
          BY <4>1, <5>1, <5>2
      <4> QED
        BY <4>2, <4>3
    <3>2. CASE Redis /\ (Timeouts \/ Fault) /\ UNCHANGED <<holds, locked>>
      <4>1. Solo(t)' = Solo(t) \cup {p}
        BY <1>0, <1>1, <1>5, <3>2 DEF Solo
      <4>2. faults' = 0 => Timeouts
        BY <3>2 DEF Keeps, Fault
      <4> QED
        BY <4>1, <4>2
    <3> QED
      BY <3>1, <3>2 DEF Leads
  <2>7. Flights(t)!Start(p)
    <3>1. Phase(p, t) \in {"out", "waiting"} /\ Flights(t)!Trust
      BY <2>1, TrustKept
    <3>2. (Stored(t) # {})' = (Stored(t) # {})
      BY <1>3
    <3> QED
      BY <1>3, <2>3, <2>5, <2>6, <3>1, <3>2 DEF Flights!Start, Solo
  <2> QED
    BY <2>7 DEF OfFlight, Flights!SharedNext
<1> QED
  BY <1>4, <1>5

\* A request that finds a flight of its token waits for it; one that finds a stored
\* answer and no flight beside it takes that.
LEMMA JoinsOfFlight ==
  ASSUME Keeps, NEW p \in Proc, Joins(p), NEW t
  PROVE  OfFlight(t)
<1>0. /\ hp \in [Proc -> Places] /\ tok \in [Proc -> (Device \cup {None}) \X Nat]
      /\ status \in [Proc -> Statuses] /\ leads \subseteq Proc
      /\ \A q \in Proc : InPlace(q)
      /\ p \notin leads
  BY FlightTypes DEF Joins, At, Rotating
<1>1. hp[p] = "flight" /\ UNCHANGED <<tok, leads, holds, results, faults>>
  BY DEF Joins, At, flights, vars
<1>2. PICK h \in {"join", "landed"} :
        /\ hp' = [hp EXCEPT ![p] = h]
        /\ status' = status \/ status' = [status EXCEPT ![p] = 200]
        /\ h = "join" => status' = status
        /\ h = "landed" => /\ status' = [status EXCEPT ![p] = 200]
                           /\ SameFlight(p) \cap leads = {} /\ Stored(tok[p]) # {}
  BY DEF Joins, To
<1>3. hp'[p] = h /\ \A q \in Proc : q # p => Stays(q)
  BY <1>0, <1>1, <1>2, OthersStay
<1>4. Stored(t)' = Stored(t) /\ Solo(t)' = Solo(t)
  BY <1>1 DEF Stored, Solo
<1>5. CASE tok[p] # t
  <2>1. \A q \in Proc : Phase(q, t)' = Phase(q, t) /\ Outcome(q, t)' = Outcome(q, t)
    BY <1>1, <1>3, <1>5, PhaseKept
  <2> QED
    BY <1>4, <2>1, NoneOfIt DEF Keeps, OfFlight
<1>6. ASSUME tok[p] = t, h = "join" PROVE Flights(t)!Wait(p)
  <2>1. Phase(p, t) = "out" /\ Phase(p, t)' = "waiting"
    BY <1>0, <1>1, <1>3, <1>6 DEF Phase, At
  <2>2. Outcome(p, t)' = Outcome(p, t)
    BY <2>1 DEF Outcome
  <2>3. /\ [q \in Proc |-> Phase(q, t)]' = [[q \in Proc |-> Phase(q, t)] EXCEPT ![p] = "waiting"]
        /\ [q \in Proc |-> Outcome(q, t)]' = [q \in Proc |-> Outcome(q, t)]
    <3>1. \A q \in Proc : q # p => Phase(q, t)' = Phase(q, t) /\ Outcome(q, t)' = Outcome(q, t)
      BY <1>3, PhaseKept
    <3> QED
      BY <2>1, <2>2, <3>1
  <2> QED
    BY <1>1, <1>4, <2>1, <2>3 DEF Flights!Wait, Solo
<1>7. ASSUME tok[p] = t, h = "landed" PROVE Flights(t)!Reuse(p)
  <2>1. Phase(p, t) = "out"
    BY <1>0, <1>1 DEF Phase, At
  <2>2. Flights(t)!Party(p) = {p}
    <3>1. Flights(t)!Party(p) = Landing(p)
      BY <1>7, PartyLands
    <3>2. \A q \in SameFlight(p) : hp[q] # "join"
      BY <1>2, <1>7 DEF Keeps, JoinersFollow, SameFlight
    <3> QED
      BY <3>1, <3>2 DEF Landing
  <2>3. \A q \in Flights(t)!Running : Home[q] # Home[p]
    <3>1. \A q \in Proc : (Phase(q, t) = "running") <=> (tok[q] = t /\ q \in leads)
      BY <1>0, InFlight
    <3> QED
      BY <1>2, <1>7, <3>1 DEF Flights!Running, SameFlight
  <2>4. Phase(p, t)' = "done" /\ Outcome(p, t)' = "ok"
    <3>1. tok'[p] = t /\ hp'[p] = "landed" /\ p \notin leads' /\ status'[p] = 200
      BY <1>0, <1>1, <1>2, <1>3, <1>7
    <3>2. Phase(p, t)' = "done"
      BY <3>1 DEF Phase, At
    <3> QED
      BY <3>1, <3>2 DEF Outcome
  <2>5. \A q \in Proc : q # p => Phase(q, t)' = Phase(q, t) /\ Outcome(q, t)' = Outcome(q, t)
    BY <1>3, PhaseKept
  <2>6. Flights(t)!Respond(Flights(t)!Party(p), "ok")
    BY <2>2, <2>4, <2>5 DEF Flights!Respond
  <2>7. Flights(t)!Party(p) \cap {} = {} /\ Stored(t) # {}
    BY <1>2, <1>7
  <2> QED
    BY <1>1, <1>4, <2>1, <2>3, <2>6, <2>7 DEF Flights!Reuse, Solo
<1> QED
  BY <1>5, <1>6, <1>7 DEF OfFlight, Flights!SharedNext

\* A client that has its answer leaves the flight.
LEMMA ReceiveOfFlight ==
  ASSUME Keeps, NEW p \in Proc, Receive(p), NEW t \in Tokens
  PROVE  OfFlight(t)
<1>0. /\ hp \in [Proc -> Places] /\ tok \in [Proc -> (Device \cup {None}) \X Nat]
      /\ status \in [Proc -> Statuses] /\ leads \subseteq Proc
      /\ p \notin leads
  BY FlightTypes DEF Receive, Rotating
<1>1. /\ hp[p] \in {"reply", "landed"} /\ hp' = [hp EXCEPT ![p] = "free"]
      /\ tok' = [tok EXCEPT ![p] = NoToken] /\ status' = [status EXCEPT ![p] = 0]
      /\ UNCHANGED <<leads, holds, results, faults>>
  BY DEF Receive, vars, flights
<1>2. hp'[p] = "free" /\ \A q \in Proc : q # p => Stays(q)
  BY <1>0, <1>1, OthersStay
<1>3. tok'[p] # t
  BY <1>0, <1>1, BoundAssumption DEF NoToken, Tokens
<1>4. Stored(t)' = Stored(t) /\ Solo(t)' = Solo(t)
  <2>1. \A q \in leads : tok'[q] = tok[q]
    BY <1>0, <1>1
  <2> QED
    BY <1>1, <2>1 DEF Stored, Solo
<1>5. CASE tok[p] = t /\ hp[p] = "landed"
  <2>1. Phase(p, t) = "done" /\ Phase(p, t)' = "out" /\ Outcome(p, t)' = "none"
    <3>1. Phase(p, t) = "done" /\ Phase(p, t)' = "out"
      BY <1>0, <1>3, <1>5 DEF Phase, At
    <3> QED
      BY <3>1 DEF Outcome
  <2>2. \A q \in Proc : q # p => Phase(q, t)' = Phase(q, t) /\ Outcome(q, t)' = Outcome(q, t)
    BY <1>2, PhaseKept
  <2>3. /\ [q \in Proc |-> Phase(q, t)]' = [[q \in Proc |-> Phase(q, t)] EXCEPT ![p] = "out"]
        /\ [q \in Proc |-> Outcome(q, t)]' = [[q \in Proc |-> Outcome(q, t)] EXCEPT ![p] = "none"]
    BY <2>1, <2>2
  <2>4. Flights(t)!Leave(p)
    BY <1>1, <1>4, <2>1, <2>3 DEF Flights!Leave, Solo
  <2> QED
    BY <2>4 DEF OfFlight, Flights!SharedNext
<1>6. CASE ~(tok[p] = t /\ hp[p] = "landed")
  <2>1. Away(p) \/ (tok[p] # t /\ tok'[p] # t)
    BY <1>0, <1>1, <1>2, <1>3, <1>6 DEF Away
  <2>2. \A q \in Proc : Phase(q, t)' = Phase(q, t) /\ Outcome(q, t)' = Outcome(q, t)
    BY <1>2, <2>1, PhaseKept
  <2> QED
    BY <1>4, <2>2, NoneOfIt DEF Keeps, OfFlight
<1> QED
  BY <1>5, <1>6

\* The handler of p moves from one place to another outside the flight, or inside a
\* rotation; only one that is free takes another token.
Turns(p, h) ==
    /\ hp' = [hp EXCEPT ![p] = h] /\ h \notin {"join", "landed"}
    /\ hp[p] \notin {"join", "landed"}
    /\ status' = status \/ \E x : status' = [status EXCEPT ![p] = x]
    /\ \/ tok' = tok
       \/ hp[p] = "free" /\ \E x : tok' = [tok EXCEPT ![p] = x]
    /\ UNCHANGED <<leads, holds, locked, results>>

\* The steps of a handler that are none of a flight's.
Others(p) ==
    \/ \E h \in Places : Moves(p, h)
    \/ DeletesUser(p) \/ LoginBegins(p) \/ LoginEnds(p) \/ Send(p)

\* Each of them is such a turn.
LEMMA OthersTurn ==
  ASSUME NEW p \in Proc, Others(p)
  PROVE  \E h : Turns(p, h)
<1>1. CASE \E h \in Places : Moves(p, h)
  <2>1. PICK h \in Places : Moves(p, h)
    BY <1>1
  <2>2. Turns(p, h)
    BY <2>1 DEF Turns, Moves, To, rest, flights
  <2> QED
    BY <2>2
<1>2. CASE DeletesUser(p) \/ LoginEnds(p)
  <2>1. /\ hp' = [hp EXCEPT ![p] = "reply"] /\ status' = [status EXCEPT ![p] = 200]
        /\ hp[p] \notin {"join", "landed"} /\ tok' = tok /\ UNCHANGED <<leads, holds, locked, results>>
    <3>1. CASE DeletesUser(p)
      BY <3>1 DEF DeletesUser, Answer, To, At, rest, flights
    <3>2. CASE LoginEnds(p)
      BY <3>2 DEF LoginEnds, Answer, To, Answered, flights
    <3> QED
      BY <1>2, <3>1, <3>2
  <2>2. \E x : status' = [status EXCEPT ![p] = x]
    BY <2>1
  <2>3. Turns(p, "reply")
    BY <2>1, <2>2 DEF Turns
  <2> QED
    BY <2>3
<1>3. CASE LoginBegins(p)
  <2>1. PICK d \in Device : tok' = [tok EXCEPT ![p] = <<d, 1>>]
    BY <1>3 DEF LoginBegins
  <2>2. \E x : tok' = [tok EXCEPT ![p] = x]
    BY <2>1
  <2>3. Turns(p, "login")
    BY <1>3, <2>2 DEF Turns, LoginBegins, To, At, flights
  <2> QED
    BY <2>3
<1>4. CASE Send(p)
  <2>1. PICK x \in held, k \in Requests \ {"login"} :
          /\ tok' = [tok EXCEPT ![p] = x]
          /\ hp' = [hp EXCEPT ![p] = "flight"] \/ hp' = [hp EXCEPT ![p] = k]
    BY <1>4 DEF Send, To
  <2>2. k \notin {"join", "landed"}
    BY RequestsAssumption DEF Kinds
  <2>3. hp[p] = "free" /\ status' = status /\ UNCHANGED <<leads, holds, locked, results>>
    BY <1>4 DEF Send, At, flights
  <2>4. \E y : tok' = [tok EXCEPT ![p] = y]
    BY <2>1
  <2>5. Turns(p, "flight") \/ Turns(p, k)
    BY <2>1, <2>2, <2>3, <2>4 DEF Turns
  <2> QED
    BY <2>5
<1> QED
  BY <1>1, <1>2, <1>3, <1>4 DEF Others
\* They leave the flights of every token alone.
LEMMA OthersOfFlight ==
  ASSUME Keeps, NEW p \in Proc, NEW t, Others(p)
  PROVE  OfFlight(t)
<1>0. /\ hp \in [Proc -> Places] /\ tok \in [Proc -> (Device \cup {None}) \X Nat]
      /\ status \in [Proc -> Statuses] /\ leads \subseteq Proc /\ holds \subseteq leads
      /\ \A q \in Proc : q \in leads <=> hp[q] \in Rotating
  BY FlightTypes
<1>1. PICK h : Turns(p, h)
  BY OthersTurn
<1>2. hp'[p] = h /\ \A q \in Proc : q # p => Stays(q)
  BY <1>0, <1>1, OthersStay DEF Turns
<1>3. Stays(p) \/ Away(p)
  <2>1. CASE tok' = tok
    BY <1>1, <1>2, <2>1 DEF Turns, Stays
  <2>2. CASE hp[p] = "free"
    BY <1>0, <1>1, <1>2, <2>2 DEF Turns, Away, Rotating
  <2> QED
    BY <1>1, <2>1, <2>2 DEF Turns
<1>4. \A q \in Proc : Phase(q, t)' = Phase(q, t) /\ Outcome(q, t)' = Outcome(q, t)
  BY <1>2, <1>3, PhaseKept
<1>5. Stored(t)' = Stored(t)
  BY <1>1 DEF Turns, Stored
<1>6. Solo(t)' = Solo(t)
  <2>1. \A q \in leads : tok'[q] = tok[q]
    BY <1>0, <1>1, <1>2 DEF Turns, Stays, Rotating
  <2> QED
    BY <1>1, <2>1 DEF Turns, Solo
<1> QED
  BY <1>4, <1>5, <1>6, NoneOfIt DEF Keeps, OfFlight

\* What concerns no request: a result that expires may be the last one of its token.
LEMMA PassesOfFlight ==
  ASSUME Keeps, NEW t,
         \/ UNCHANGED sessions
         \/ \E r \in results : ExpireResult(r)
         \/ \E x \in locked : ExpireLock(x)
  PROVE  OfFlight(t)
<1>1. UNCHANGED <<hp, tok, status, leads, holds>>
  BY DEF sessions, request, flights, ExpireResult, ExpireLock
<1>2. \A q \in Proc : Phase(q, t)' = Phase(q, t) /\ Outcome(q, t)' = Outcome(q, t)
  <2>1. \A q \in Proc : Stays(q)
    BY <1>1 DEF Stays
  <2> QED
    BY <2>1, PhaseKept
<1>3. Solo(t)' = Solo(t)
  BY <1>1 DEF Solo
<1>4. CASE (Stored(t) # {})' = (Stored(t) # {})
  BY <1>2, <1>3, <1>4, NoneOfIt DEF Keeps, OfFlight
<1>5. CASE (Stored(t) # {})' # (Stored(t) # {})
  <2>1. PICK r \in results : ExpireResult(r)
    BY <1>5 DEF Stored, sessions, flights, ExpireLock
  <2>2. results' \subseteq results /\ faults' = faults
    BY <2>1 DEF ExpireResult, vars
  <2>3. Stored(t)' \subseteq Stored(t)
    BY <2>2 DEF Stored
  <2>4. (Stored(t) # {})' = FALSE
    BY <1>5, <2>3
  <2>5. /\ [q \in Proc |-> Phase(q, t)]' = [q \in Proc |-> Phase(q, t)]
        /\ [q \in Proc |-> Outcome(q, t)]' = [q \in Proc |-> Outcome(q, t)]
    BY <1>2
  <2>6. Flights(t)!Forget
    BY <1>3, <2>2, <2>4, <2>5, Zenon DEF Flights!Forget, Solo
  <2> QED
    BY <2>6 DEF OfFlight, Flights!SharedNext
<1> QED
  BY <1>4, <1>5

\* A rotation that loses its lock runs on and excludes nobody: the deadline of its request
\* has passed, or Redis has failed.
LEMMA LosesOfFlight ==
  ASSUME Keeps, NEW p \in Proc, LoseLock(p), NEW t
  PROVE  OfFlight(t)
<1>0. leads \subseteq Proc /\ holds \subseteq leads /\ p \in holds /\ \A q \in Proc : InPlace(q)
  BY FlightTypes DEF LoseLock
<1>1. UNCHANGED <<hp, tok, status, leads, results>> /\ holds' = holds \ {p}
  BY DEF LoseLock, request
<1>2. \A q \in Proc : Phase(q, t)' = Phase(q, t) /\ Outcome(q, t)' = Outcome(q, t)
  <2>1. \A q \in Proc : Stays(q)
    BY <1>1 DEF Stays
  <2> QED
    BY <2>1, PhaseKept
<1>3. Stored(t)' = Stored(t)
  BY <1>1 DEF Stored
<1>4. CASE tok[p] # t
  <2>1. Solo(t)' = Solo(t)
    BY <1>1, <1>4 DEF Solo
  <2> QED
    BY <1>2, <1>3, <2>1, NoneOfIt DEF Keeps, OfFlight
<1>5. CASE tok[p] = t
  <2>1. Redis /\ (Fault \/ (Timeouts /\ UNCHANGED faults))
    BY DEF LoseLock, RedisFails, CacheFault
  <2>2. Solo(t)' = Solo(t) \cup {p}
    BY <1>0, <1>1, <1>5, <2>1 DEF Solo
  <2>3. Phase(p, t) = "running"
    BY <1>0, <1>5, InFlight
  <2>4. /\ [q \in Proc |-> Phase(q, t)]' = [q \in Proc |-> Phase(q, t)]
        /\ [q \in Proc |-> Outcome(q, t)]' = [q \in Proc |-> Outcome(q, t)]
    BY <1>2
  <2>5. CASE Timeouts /\ UNCHANGED faults
    <3>1. Flights(t)!Overrun(p)
      BY <1>3, <2>2, <2>3, <2>4, <2>5 DEF Flights!Overrun, Solo
    <3> QED
      BY <3>1 DEF OfFlight, Flights!SharedNext
  <2>6. CASE Fault
    <3>1. (faults' = 0) = FALSE
      BY <2>6 DEF Fault, Keeps
    <3>2. p \in Flights(t)!Running
      BY <1>0, <2>3 DEF Flights!Running
    <3>3. Flights(t)!Lose
      BY <1>3, <2>2, <2>4, <3>1, <3>2 DEF Flights!Lose, Solo
    <3> QED
      BY <3>3 DEF OfFlight, Flights!SharedNext
  <2> QED
    BY <2>1, <2>5, <2>6
<1> QED
  BY <1>4, <1>5

\* An instance that dies takes its requests with it.
LEMMA CrashOfFlight ==
  ASSUME Keeps, NEW i \in Instance, SCrash(i), NEW t \in Tokens
  PROVE  OfFlight(t)
<1> DEFINE gone == {p \in Proc : Home[p] = i}
<1>0. leads \subseteq Proc /\ holds \subseteq leads
  BY FlightTypes
<1>1. /\ \A q \in Proc : hp'[q] = IF q \in gone THEN "free" ELSE hp[q]
      /\ \A q \in Proc : tok'[q] = IF q \in gone THEN NoToken ELSE tok[q]
      /\ \A q \in Proc : status'[q] = IF q \in gone THEN 0 ELSE status[q]
      /\ leads' = leads \ gone /\ holds' = holds \ gone
      /\ results' = results \/ results' = {}
      /\ Fault
  BY DEF SCrash, Crash
<1>2. ASSUME NEW q \in gone PROVE Phase(q, t)' = "out" /\ Outcome(q, t)' = "none"
  <2>1. tok'[q] # t
    <3>1. tok'[q] = NoToken
      BY <1>1
    <3> QED
      BY <3>1, BoundAssumption DEF NoToken, Tokens
  <2>2. Phase(q, t)' = "out"
    BY <2>1 DEF Phase
  <2> QED
    BY <2>2 DEF Outcome
<1>3. ASSUME NEW q \in Proc, q \notin gone
      PROVE  Phase(q, t)' = Phase(q, t) /\ Outcome(q, t)' = Outcome(q, t)
  <2>1. Stays(q)
    <3> HIDE DEF gone
    <3> QED
      BY <1>1, <1>3 DEF Stays
  <2> QED
    BY <2>1, PhaseKept
<1>4. /\ [q \in Proc |-> Phase(q, t)]' = [q \in Proc |-> IF q \in gone THEN "out" ELSE Phase(q, t)]
      /\ [q \in Proc |-> Outcome(q, t)]' = [q \in Proc |-> IF q \in gone THEN "none" ELSE Outcome(q, t)]
  BY <1>2, <1>3
<1>5. Solo(t)' = Solo(t) \ gone
  <2> HIDE DEF gone
  <2>1. \A q \in leads \ gone : tok'[q] = tok[q]
    BY <1>0, <1>1
  <2> QED
    BY <1>0, <1>1, <2>1 DEF Solo
<1>6. (faults' = 0) = FALSE
  BY <1>1 DEF Keeps, Fault
<1>7. (Stored(t) # {})' = (Stored(t) # {}) \/ (Stored(t) # {})' = FALSE
  BY <1>1 DEF Stored
<1>8. (Stored(t) # {})' \in {Stored(t) # {}, FALSE}
  BY <1>7, Zenon
<1>9. Flights(t)!Crash(i)
  BY <1>4, <1>5, <1>6, <1>8, Zenon DEF Flights!Crash, Solo
<1> QED
  BY <1>9 DEF OfFlight, Flights!SharedNext

(***************************************************************************)
(* The invariant, and the refinement.                                      *)
(***************************************************************************)
\* Joiners whose leader stays, and those who were none before.
LEMMA JoinersStay ==
  ASSUME JoinersFollow,
         \A q \in Proc : q \in leads => q \in leads' /\ tok'[q] = tok[q],
         \A q \in Proc : hp'[q] = "join" => hp[q] = "join" /\ tok'[q] = tok[q]
  PROVE  JoinersFollow'
<1> SUFFICES ASSUME NEW p \in Proc, hp'[p] = "join"
             PROVE  \E q \in SameFlight(p)' : q \in leads'
  BY DEF JoinersFollow
<1>1. PICK q \in SameFlight(p) : q \in leads
  BY DEF JoinersFollow
<1> QED
  BY <1>1 DEF SameFlight

\* Nobody waits for a flight that has ended.
LEMMA JoinersFollowNext ==
  ASSUME Keeps, Shapes
  PROVE  JoinersFollow'
<1>0. /\ hp \in [Proc -> Places] /\ tok \in [Proc -> (Device \cup {None}) \X Nat]
      /\ status \in [Proc -> Statuses] /\ leads \subseteq Proc
      /\ \A q \in Proc : q \in leads <=> hp[q] \in Rotating
      /\ JoinersFollow
  BY FlightTypes DEF Keeps
<1>1. ASSUME NEW p \in Proc, Others(p) PROVE JoinersFollow'
  <2>1. PICK h : Turns(p, h)
    BY <1>1, OthersTurn
  <2>2. hp'[p] = h /\ \A q \in Proc : q # p => Stays(q)
    BY <1>0, <2>1, OthersStay DEF Turns
  <2>3. p \in leads => tok'[p] = tok[p]
    BY <1>0, <2>1 DEF Turns, Rotating
  <2>4. \A q \in Proc : q \in leads => q \in leads' /\ tok'[q] = tok[q]
    BY <2>1, <2>2, <2>3 DEF Turns, Stays
  <2>5. \A q \in Proc : hp'[q] = "join" => hp[q] = "join" /\ tok'[q] = tok[q]
    BY <2>1, <2>2 DEF Turns, Stays
  <2> QED
    BY <1>0, <2>4, <2>5, JoinersStay
<1>2. ASSUME NEW p \in Proc, NEW s \in Statuses, Lands(p, s) PROVE JoinersFollow'
  BY <1>0, <1>2, LandsFollowed
<1>3. ASSUME NEW p \in Proc, Leads(p) PROVE JoinersFollow'
  <2>1. leads' = leads \cup {p} /\ hp' = [hp EXCEPT ![p] = "rotate"] /\ tok' = tok
    BY <1>3 DEF Leads, To
  <2> QED
    BY <1>0, <2>1, JoinersStay
<1>4. ASSUME NEW p \in Proc, Joins(p) PROVE JoinersFollow'
  <2>1. tok' = tok /\ leads' = leads
    BY <1>4 DEF Joins, flights
  <2>2. CASE hp' = [hp EXCEPT ![p] = "landed"]
    BY <1>0, <2>1, <2>2, JoinersStay
  <2>3. CASE hp' = [hp EXCEPT ![p] = "join"] /\ \E q \in SameFlight(p) : q \in leads
    BY <1>0, <2>1, <2>3 DEF JoinersFollow, SameFlight
  <2> QED
    BY <1>4, <2>2, <2>3 DEF Joins, To
<1>5. ASSUME NEW p \in Proc, Receive(p) PROVE JoinersFollow'
  <2>1. /\ hp[p] \in {"reply", "landed"} /\ hp' = [hp EXCEPT ![p] = "free"]
        /\ tok' = [tok EXCEPT ![p] = NoToken] /\ leads' = leads
    BY <1>5 DEF Receive, flights
  <2>2. p \notin leads
    BY <1>0, <2>1 DEF Rotating
  <2> QED
    BY <1>0, <2>1, <2>2, JoinersStay
<1>6. ASSUME \/ UNCHANGED sessions
             \/ \E r \in results : ExpireResult(r)
             \/ \E x \in locked : ExpireLock(x)
             \/ \E q \in Proc : LoseLock(q)
      PROVE  JoinersFollow'
  <2>1. UNCHANGED <<hp, tok, leads>>
    BY <1>6 DEF sessions, request, flights, ExpireResult, ExpireLock, LoseLock
  <2> QED
    BY <1>0, <2>1, JoinersStay
<1>7. ASSUME NEW i \in Instance, SCrash(i) PROVE JoinersFollow'
  <2>1. /\ \A q \in Proc : hp'[q] = IF Home[q] = i THEN "free" ELSE hp[q]
        /\ \A q \in Proc : tok'[q] = IF Home[q] = i THEN NoToken ELSE tok[q]
        /\ leads' = leads \ {q \in Proc : Home[q] = i}
    BY <1>7 DEF SCrash
  <2> SUFFICES ASSUME NEW q \in Proc, hp'[q] = "join"
               PROVE  \E r \in SameFlight(q)' : r \in leads'
    BY DEF JoinersFollow
  <2>2. hp[q] = "join" /\ Home[q] # i
    BY <2>1
  <2>3. PICK r \in SameFlight(q) : r \in leads
    BY <1>0, <2>2 DEF JoinersFollow
  <2> QED
    BY <2>1, <2>2, <2>3 DEF SameFlight
<1>8. UNCHANGED svars => UNCHANGED sessions
  BY DEF svars
<1> QED
  BY <1>1, <1>2, <1>3, <1>4, <1>5, <1>6, <1>7, <1>8 DEF Shapes, Others

\* Every step of the handlers keeps FlightsInv, and is a step of the flight of every token.
LEMMA StepsOfFlights ==
  ASSUME FlightsInv, [SNext]_svars
  PROVE  FlightsInv' /\ \A t \in Tokens : OfFlight(t)
<1>1. SessionInv' /\ Basic /\ Basic' /\ TypeOK
  BY SessionInvNext DEF FlightsInv, SessionInv, Basic, STypeOK
<1>2. Shapes
  BY <1>1, HaveShapes
<1>3. Keeps
  BY <1>1, <1>2, ShapesUseStore, FaultsGrow DEF Keeps, FlightsInv
<1>4. FlightsInv'
  BY <1>1, <1>2, <1>3, JoinersFollowNext DEF FlightsInv
<1>5. ASSUME NEW t \in Tokens PROVE OfFlight(t)
  <2>1. ASSUME NEW p \in Proc, Others(p) PROVE OfFlight(t)
    BY <1>3, <2>1, OthersOfFlight
  <2>2. ASSUME NEW p \in Proc, NEW s \in Statuses, Lands(p, s) PROVE OfFlight(t)
    BY <1>3, <2>2, LandsOfFlight
  <2>3. ASSUME NEW p \in Proc, Leads(p) PROVE OfFlight(t)
    BY <1>3, <2>3, LeadsOfFlight
  <2>4. ASSUME NEW p \in Proc, Joins(p) PROVE OfFlight(t)
    BY <1>3, <2>4, JoinsOfFlight
  <2>5. ASSUME NEW p \in Proc, Receive(p) PROVE OfFlight(t)
    BY <1>3, <2>5, ReceiveOfFlight
  <2>6. ASSUME NEW i \in Instance, SCrash(i) PROVE OfFlight(t)
    BY <1>3, <2>6, CrashOfFlight
  <2>7. ASSUME \/ UNCHANGED sessions
               \/ \E r \in results : ExpireResult(r)
               \/ \E x \in locked : ExpireLock(x)
        PROVE  OfFlight(t)
    BY <1>3, <2>7, PassesOfFlight
  <2>8. ASSUME NEW p \in Proc, LoseLock(p) PROVE OfFlight(t)
    BY <1>3, <2>8, LosesOfFlight
  <2>9. UNCHANGED svars => UNCHANGED sessions
    BY DEF svars
  <2> QED
    BY <1>2, <2>1, <2>2, <2>3, <2>4, <2>5, <2>6, <2>7, <2>8, <2>9 DEF Shapes, Others
<1> QED
  BY <1>4, <1>5

\* Initially nobody is in a flight and no answer is stored.
LEMMA FlightsInit ==
  ASSUME SInit
  PROVE  FlightsInv /\ \A t \in Tokens : Flights(t)!SharedInit
<1>1. FlightsInv
  BY SessionInvInit DEF SInit, FlightsInv, JoinersFollow
<1>2. ASSUME NEW t \in Tokens PROVE Flights(t)!SharedInit
  <2>1. \A p \in Proc : hp[p] = "free" /\ p \notin leads
    BY DEF SInit
  <2>2. \A p \in Proc : Phase(p, t) = "out"
    BY <2>1 DEF Phase, At
  <2>3. \A p \in Proc : Outcome(p, t) = "none"
    BY <2>2 DEF Outcome
  <2>4. (Stored(t) # {}) = FALSE
    BY DEF SInit, Stored
  <2>5. Solo(t) = {}
    BY DEF SInit, Solo
  <2>6. (faults = 0) = TRUE
    BY DEF SInit, Init
  <2> QED
    BY <2>2, <2>3, <2>4, <2>5, <2>6, Zenon DEF Flights!SharedInit, Solo
<1> QED
  BY <1>1, <1>2

\* /refresh shares its rotations.  Whatever fails and whatever deadline passes, for any number
\* of instances and of requests that race with one token: the handlers implement, for every
\* token, the abstract single flight, so that the requests beside each other on an instance
\* share one rotation and its answer, the answer of a rotation that succeeded under the lock
\* is stored and serves whoever comes after, and another instance rotates beside a running
\* rotation, or after a stored answer, only if Redis failed or one of the two requests has
\* passed its deadline: the one that waited, which rotates without the lock, or the one that
\* held the lock, which is released under it.
THEOREM RefreshImplementsSharedFlight == SSpec => RefreshSharesRotations
<1>1. SInit => FlightsInv /\ \A t \in Tokens : Flights(t)!SharedInit
  BY FlightsInit
<1>2. FlightsInv /\ [SNext]_svars => FlightsInv' /\ \A t \in Tokens : OfFlight(t)
  BY StepsOfFlights
<1>3. FlightsInv /\ [SNext]_svars
        => [\A t \in Tokens : UNCHANGED Flights(t)!svars \/ Flights(t)!SharedNext]_svars
  BY <1>2 DEF OfFlight
<1> QED
  BY <1>1, <1>2, <1>3, PTL DEF SSpec, RefreshSharesRotations, Tokens
=============================================================================
