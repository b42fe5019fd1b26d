--------------------------- MODULE StartupProofs ----------------------------
(***************************************************************************)
(* The start-up and the exit, for any number of processes: the inductive   *)
(* invariant StartupInv, and the properties that follow from it.  The      *)
(* first part shows, without any state, that run is a program of calls in  *)
(* order, whatever the configuration (RunShape); the second that a step of *)
(* one process leaves the others alone (OthersKept) and goes from one call *)
(* to the next (ProceedAdvances); then there is one lemma per action.      *)
(* Last, parseDuration is exact for texts of any length, and with it the   *)
(* lifetimes that a process runs with.                                     *)
(***************************************************************************)
EXTENDS Startup, SequenceTheorems, WellFoundedInduction, TLAPS

(***************************************************************************)
(* The inductive invariant behind the safety properties.                   *)
(***************************************************************************)
FileOp == {"remove", "bind", "chmod", "rename"}
DbOp == {"lock", "create", "commit"}
Calls == [op : FileOp \cup DbOp \cup {"probe", "call", "open", "discover"},
          on : Table \cup {"ping", "mkdir", "sql", "store", "redis", "deviceCache", "issuer",
                           "flight", "stateCache", "listener", "server", "temp", "after"}]

\* b comes right after a: a transaction, and the publication of the socket, go
\* through their calls in order, with nothing between them.
Pair(a, b) ==
    /\ b.op = "create" <=> a.op = "lock"
    /\ b.op = "commit" <=> a.op = "create"
    /\ a.op \in {"lock", "create"} => b.on = a.on
    /\ (b.op = "remove" /\ b.on = "after") <=> (a.op = "remove" /\ a.on = "temp")
    /\ b.op = "bind" <=> (a.op = "remove" /\ a.on = "after")
    /\ b.op = "chmod" <=> a.op = "bind"
    /\ b.op = "rename" <=> a.op = "chmod"

\* What a configuration lets run do.
Allowed(c, a) ==
    /\ a.op \in DbOp => a.on \in Table /\ c.db /\ c.auto /\ (a.on = "users" => ~c.external)
    /\ a.op = "probe" => a.on = "users" /\ c.db /\ IF c.external THEN c.column ELSE ~c.auto
    /\ a.op = "remove" => a.on \in {"temp", "after"}
    /\ a.op \in {"bind", "chmod", "rename"} => a.on = "temp"

\* s is what is left of run.
Program(c, s) ==
    /\ s \in Seq(Calls)
    /\ \A k \in 1..(Len(s) - 1) : Pair(s[k], s[k + 1])
    /\ \A k \in 1..Len(s) : Allowed(c, s[k])
    /\ \A k, l \in 1..Len(s) : k < l /\ s[k].on = "devices" => s[l].on # "users"
    /\ s # <<>> => s[Len(s)] = [op |-> "open", on |-> "server"]

Pending(i, op, on) == \E k \in 1..Len(todo[i]) : todo[i][k] = [op |-> op, on |-> on]

\* The open transaction of i.
TxInv(i) ==
    /\ Program(cfg, todo[i])
    /\ At(i, "create") \/ At(i, "commit") => tx[i] = On(i)
    /\ At(i, "commit") /\ ~made[i] => tx[i] \in tables
    /\ made[i] /\ tx[i] = "devices" => "users" \in tables

\* A call that a start still needs is pending, or has had its effect.
SchemaInv(i) ==
    phase[i] \in {"starting", "serving"} /\ cfg.db =>
        /\ cfg.auto /\ ~cfg.external => Pending(i, "commit", "users") \/ "users" \in tables
        /\ cfg.auto => Pending(i, "commit", "devices") \/ "devices" \in tables
        /\ ~cfg.auto /\ ~cfg.external => Pending(i, "probe", "users") \/ "users" \in tables

SocketInv(i) ==
    /\ after[i] # "private"
    /\ At(i, "rename") => temp[i] = "open"
    /\ At(i, "bind") \/ (At(i, "remove") /\ On(i) = "after") => temp[i] = "absent"
    /\ phase[i] \in {"starting", "serving"} /\ cfg.unix =>
        Pending(i, "rename", "temp") \/ (after[i] = "open" /\ temp[i] = "absent")

\* What the requests of a deployment use.
Needed(c) == {x \in {"sql", "deviceCache", "redis", "flight"} :
                /\ x \in {"sql", "deviceCache"} => c.db
                /\ x = "redis" => c.redis}

Opened(i, x) == \E k \in 1..Len(closers[i]) : closers[i][k] = x

CloserInv(i) ==
    /\ busy[i] # None => phase[i] \in {"serving", "closing"}
    /\ phase[i] = "closing" => closers[i] # <<>>
    /\ phase[i] = "starting" =>
        \A x \in Needed(cfg) : Pending(i, "open", x) \/ Opened(i, x)
    /\ phase[i] = "serving" \/ (phase[i] = "closing" /\ busy[i] # None /\ ~expired[i]) =>
        /\ \A x \in Needed(cfg) : Opened(i, x)
        /\ closers[i] # <<>> /\ Last(closers[i]) = "server"

StartupInv ==
    /\ StartupTypeOK
    /\ todo \in [Instance -> Seq(Calls)] /\ closers \in [Instance -> Seq({a.on : a \in Calls})]
    /\ "devices" \in tables => "users" \in tables
    /\ \A i, j \in Instance : i # j /\ tx[i] # None => tx[i] # tx[j]
    /\ \A i \in Instance : TxInv(i) /\ SchemaInv(i) /\ SocketInv(i) /\ CloserInv(i)

-----------------------------------------------------------------------------
(* What run does, whatever the configuration.                              *)

\* A part of run that can stand before and after any other.
Block(c, s) ==
    /\ s \in Seq(Calls)
    /\ \A k \in 1..(Len(s) - 1) : Pair(s[k], s[k + 1])
    /\ \A k \in 1..Len(s) : Allowed(c, s[k])
    /\ s # <<>> =>
        /\ s[1].op \notin {"create", "commit", "bind", "chmod", "rename"}
        /\ s[1].op = "remove" => s[1].on = "temp"
        /\ s[Len(s)].op \notin {"lock", "create", "remove", "bind", "chmod"}

\* How sequences are put together.
LEMMA ConcatAt ==
  ASSUME NEW S, NEW s \in Seq(S), NEW t \in Seq(S)
  PROVE  /\ s \o t \in Seq(S) /\ Len(s \o t) = Len(s) + Len(t)
         /\ Len(s) \in Nat /\ Len(t) \in Nat
         /\ \A k \in 1..Len(s) : (s \o t)[k] = s[k]
         /\ \A k \in 1..Len(t) : (s \o t)[Len(s) + k] = t[k]
         /\ \A k \in 1..(Len(s) + Len(t)) :
                k <= Len(s) \/ (k - Len(s) \in 1..Len(t) /\ (s \o t)[k] = t[k - Len(s)])
         /\ (s = <<>> <=> Len(s) = 0) /\ (t = <<>> <=> Len(t) = 0)
BY ConcatProperties, EmptySeq, LenProperties

\* Blocks can be put together.
LEMMA BlockConcat ==
  ASSUME NEW c, NEW s, NEW t, Block(c, s), Block(c, t)
  PROVE  Block(c, s \o t)
<1> DEFINE u == s \o t
<1>0. s \in Seq(Calls) /\ t \in Seq(Calls)
  BY DEF Block
<1>1. /\ u \in Seq(Calls) /\ Len(u) = Len(s) + Len(t)
      /\ Len(s) \in Nat /\ Len(t) \in Nat
      /\ \A k \in 1..Len(s) : u[k] = s[k]
      /\ \A k \in 1..(Len(s) + Len(t)) :
            k <= Len(s) \/ (k - Len(s) \in 1..Len(t) /\ u[k] = t[k - Len(s)])
      /\ (s = <<>> <=> Len(s) = 0) /\ (t = <<>> <=> Len(t) = 0)
  BY <1>0, ConcatAt
<1> HIDE DEF u
<1>2. \A k \in 1..Len(u) : Allowed(c, u[k])
  <2> TAKE k \in 1..Len(u)
  <2>1. CASE k <= Len(s)
    BY <1>1, <2>1 DEF Block
  <2>2. CASE ~(k <= Len(s))
    BY <1>1, <2>2 DEF Block
  <2> QED
    BY <2>1, <2>2
<1>3. ASSUME NEW k \in 1..(Len(u) - 1) PROVE Pair(u[k], u[k + 1])
  <2>1. CASE k < Len(s)
    <3>1. u[k] = s[k] /\ u[k + 1] = s[k + 1] /\ k \in 1..(Len(s) - 1)
      BY <1>1, <2>1
    <3> QED
      BY <3>1 DEF Block
  <2>2. CASE k > Len(s)
    <3>1. u[k] = t[k - Len(s)] /\ u[k + 1] = t[(k - Len(s)) + 1] /\ k - Len(s) \in 1..(Len(t) - 1)
      BY <1>1, <2>2
    <3> QED
      BY <3>1 DEF Block
  <2>3. CASE k = Len(s)
    <3>1. u[k] = s[Len(s)] /\ u[k + 1] = t[1] /\ s # <<>> /\ t # <<>>
      BY <1>1, <2>3
    <3>2. /\ u[k + 1].op \notin {"create", "commit", "bind", "chmod", "rename"}
          /\ u[k + 1].op = "remove" => u[k + 1].on = "temp"
          /\ u[k].op \notin {"lock", "create", "remove", "bind", "chmod"}
      BY <3>1 DEF Block
    <3> QED
      BY <3>2 DEF Pair
  <2> QED
    BY <1>1, <2>1, <2>2, <2>3
<1>4. ASSUME u # <<>>
      PROVE  /\ u[1].op \notin {"create", "commit", "bind", "chmod", "rename"}
             /\ u[1].op = "remove" => u[1].on = "temp"
             /\ u[Len(u)].op \notin {"lock", "create", "remove", "bind", "chmod"}
  <2>0. Len(u) # 0
    BY <1>1, <1>4, EmptySeq
  <2>1. CASE s = <<>>
    BY <1>1, <2>0, <2>1 DEF Block
  <2>2. CASE s # <<>> /\ t = <<>>
    BY <1>1, <2>2 DEF Block
  <2>3. CASE s # <<>> /\ t # <<>>
    <3>1. u[1] = s[1] /\ u[Len(u)] = t[Len(t)]
      <4>1. Len(s) >= 1 /\ Len(t) >= 1
        BY <1>1, <2>3
      <4>2. 1 \in 1..Len(s) /\ Len(u) \in 1..(Len(s) + Len(t)) /\ ~(Len(u) <= Len(s))
            /\ Len(u) - Len(s) = Len(t)
        BY <1>1, <4>1
      <4> QED
        BY <1>1, <4>2
    <3> QED
      BY <2>3, <3>1 DEF Block
  <2> QED
    BY <2>1, <2>2, <2>3
<1> QED
  BY <1>1, <1>2, <1>3, <1>4 DEF Block, u

\* A call that belongs to no row of calls is a block.
LEMMA BlockOne ==
  ASSUME NEW c, NEW op, NEW on, [op |-> op, on |-> on] \in Calls,
         Allowed(c, [op |-> op, on |-> on]),
         op \in {"probe", "call", "open", "discover"}
  PROVE  Block(c, Do(op, on))
BY DEF Block, Do

\* A block can be left out.
LEMMA BlockWhen ==
  ASSUME NEW c, NEW b, NEW s, b => Block(c, s)
  PROVE  Block(c, When(b, s))
BY DEF Block, When

\* A row of calls that begins like a block and ends with the call z.
Row(c, s, z) ==
    /\ s \in Seq(Calls) /\ s # <<>> /\ s[Len(s)] = z
    /\ \A k \in 1..(Len(s) - 1) : Pair(s[k], s[k + 1])
    /\ \A k \in 1..Len(s) : Allowed(c, s[k])
    /\ s[1].op \notin {"create", "commit", "bind", "chmod", "rename"}
    /\ s[1].op = "remove" => s[1].on = "temp"

\* A first call.
LEMMA RowOne ==
  ASSUME NEW c, NEW op, NEW on, [op |-> op, on |-> on] \in Calls,
         Allowed(c, [op |-> op, on |-> on]), op \in {"lock", "call"}
  PROVE  Row(c, Do(op, on), [op |-> op, on |-> on])
BY DEF Row, Do

\* The next call of a row.
LEMMA RowNext ==
  ASSUME NEW c, NEW s, NEW z, Row(c, s, z), NEW op, NEW on, [op |-> op, on |-> on] \in Calls,
         Allowed(c, [op |-> op, on |-> on]), Pair(z, [op |-> op, on |-> on])
  PROVE  Row(c, s \o Do(op, on), [op |-> op, on |-> on])
<1> DEFINE x == [op |-> op, on |-> on]
           u == s \o <<x>>
<1>1. /\ u \in Seq(Calls) /\ Len(u) = Len(s) + 1 /\ Len(s) \in Nat \ {0}
      /\ \A k \in 1..Len(s) : u[k] = s[k]
      /\ u[Len(s) + 1] = x
  <2>1. s \in Seq(Calls) /\ <<x>> \in Seq(Calls) /\ Len(<<x>>) = 1 /\ <<x>>[1] = x /\ s # <<>>
    BY DEF Row
  <2> HIDE DEF x
  <2> QED
    BY <2>1, ConcatAt
<1>2. u # <<>>
  BY <1>1, EmptySeq
<1>3. x \in Calls /\ Allowed(c, x) /\ Pair(z, x)
  OBVIOUS
<1>4. Do(op, on) = <<x>>
  BY DEF Do
<1> HIDE DEF u, x
<1>5. ASSUME NEW k \in 1..(Len(u) - 1) PROVE Pair(u[k], u[k + 1])
  <2>1. CASE k = Len(s)
    BY <1>1, <1>3, <2>1 DEF Row
  <2>2. CASE k # Len(s)
    BY <1>1, <2>2 DEF Row
  <2> QED
    BY <2>1, <2>2
<1>6. Row(c, u, x)
  BY <1>1, <1>2, <1>3, <1>5 DEF Row
<1> QED
  BY <1>4, <1>6 DEF u, x

\* A row whose last call ends it is a block.
LEMMA RowBlock ==
  ASSUME NEW c, NEW s, NEW z, Row(c, s, z), z.op \in {"commit", "rename", "open", "call"}
  PROVE  Block(c, s)
BY DEF Row, Block

\* A transaction is a block.
LEMMA BlockSchema ==
  ASSUME NEW c, NEW t \in Table, c.db, c.auto, t = "users" => ~c.external
  PROVE  Block(c, CreateSchema(t))
<1> DEFINE L == [op |-> "lock", on |-> t]
           C == [op |-> "create", on |-> t]
           M == [op |-> "commit", on |-> t]
<1>0. L \in Calls /\ C \in Calls /\ M \in Calls
  BY DEF Calls, DbOp
<1>1. Allowed(c, L) /\ Allowed(c, C) /\ Allowed(c, M) /\ Pair(L, C) /\ Pair(C, M)
  BY DEF Allowed, Pair, DbOp
<1>2. Row(c, Do("lock", t), L)
  BY <1>0, <1>1, RowOne
<1>3. Row(c, Do("lock", t) \o Do("create", t), C)
  BY <1>0, <1>1, <1>2, RowNext
<1>4. Row(c, CreateSchema(t), M)
  BY <1>0, <1>1, <1>3, RowNext DEF CreateSchema
<1> QED
  BY <1>4, RowBlock

\* The publication of the socket is a block.
LEMMA BlockListener ==
  ASSUME NEW c
  PROVE  Block(c, CreateListener(c))
<1> DEFINE X(op, on) == [op |-> op, on |-> on]
<1>0. /\ X("call", "mkdir") \in Calls /\ X("remove", "temp") \in Calls
      /\ X("remove", "after") \in Calls /\ X("bind", "temp") \in Calls
      /\ X("chmod", "temp") \in Calls /\ X("rename", "temp") \in Calls
      /\ X("open", "listener") \in Calls
  BY DEF Calls, FileOp
<1>1. /\ Allowed(c, X("call", "mkdir")) /\ Allowed(c, X("remove", "temp"))
      /\ Allowed(c, X("remove", "after")) /\ Allowed(c, X("bind", "temp"))
      /\ Allowed(c, X("chmod", "temp")) /\ Allowed(c, X("rename", "temp"))
      /\ Allowed(c, X("open", "listener"))
  BY DEF Allowed, DbOp
<1>2. /\ Pair(X("call", "mkdir"), X("remove", "temp"))
      /\ Pair(X("remove", "temp"), X("remove", "after"))
      /\ Pair(X("remove", "after"), X("bind", "temp"))
      /\ Pair(X("bind", "temp"), X("chmod", "temp"))
      /\ Pair(X("chmod", "temp"), X("rename", "temp"))
  BY DEF Pair
<1> DEFINE s1 == Do("call", "mkdir")
           s2 == s1 \o Do("remove", "temp")
           s3 == s2 \o Do("remove", "after")
           s4 == s3 \o Do("bind", "temp")
           s5 == s4 \o Do("chmod", "temp")
           s6 == s5 \o Do("rename", "temp")
<1>3. CreateListener(c) = When(c.unix, s6) \o Do("open", "listener")
  BY DEF CreateListener
<1>4. Row(c, s1, X("call", "mkdir"))
  BY <1>0, <1>1, RowOne
<1>5. Row(c, s2, X("remove", "temp"))
  <2> HIDE DEF s1
  <2> QED
    BY <1>0, <1>1, <1>2, <1>4, RowNext
<1>6. Row(c, s3, X("remove", "after"))
  <2> HIDE DEF s2
  <2> QED
    BY <1>0, <1>1, <1>2, <1>5, RowNext
<1>7. Row(c, s4, X("bind", "temp"))
  <2> HIDE DEF s3
  <2> QED
    BY <1>0, <1>1, <1>2, <1>6, RowNext
<1>8. Row(c, s5, X("chmod", "temp"))
  <2> HIDE DEF s4
  <2> QED
    BY <1>0, <1>1, <1>2, <1>7, RowNext
<1>9. Row(c, s6, X("rename", "temp"))
  <2> HIDE DEF s5
  <2> QED
    BY <1>0, <1>1, <1>2, <1>8, RowNext
<1> HIDE DEF s6
<1>10. Block(c, s6)
  BY <1>9, RowBlock
<1>11. Block(c, When(c.unix, s6))
  BY <1>10, BlockWhen
<1>12. Block(c, Do("open", "listener"))
  BY <1>0, <1>1, BlockOne
<1> QED
  BY <1>3, <1>11, <1>12, BlockConcat

\* A part of run that does not touch the table t.
Free(s, t) == s \in Seq(Calls) /\ \A k \in 1..Len(s) : s[k].on # t

\* Such parts can be put together.
LEMMA FreeConcat ==
  ASSUME NEW t, NEW s, NEW u, Free(s, t), Free(u, t)
  PROVE  Free(s \o u, t)
<1> DEFINE w == s \o u
<1>1. /\ w \in Seq(Calls) /\ Len(w) = Len(s) + Len(u) /\ Len(s) \in Nat /\ Len(u) \in Nat
      /\ \A k \in 1..Len(s) : w[k] = s[k]
      /\ \A k \in 1..(Len(s) + Len(u)) :
            k <= Len(s) \/ (k - Len(s) \in 1..Len(u) /\ w[k] = u[k - Len(s)])
  BY ConcatAt DEF Free
<1> HIDE DEF w
<1>2. ASSUME NEW k \in 1..Len(w) PROVE w[k].on # t
  <2>1. CASE k <= Len(s)
    BY <1>1, <2>1 DEF Free
  <2>2. CASE ~(k <= Len(s))
    BY <1>1, <2>2 DEF Free
  <2> QED
    BY <2>1, <2>2
<1> QED
  BY <1>1, <1>2 DEF Free, w

\* One call.
LEMMA FreeOne ==
  ASSUME NEW t, NEW op, NEW on, [op |-> op, on |-> on] \in Calls, on # t
  PROVE  Free(Do(op, on), t)
BY DEF Free, Do

\* A part that may be left out.
LEMMA FreeWhen ==
  ASSUME NEW t, NEW b, NEW s, Free(s, t)
  PROVE  Free(When(b, s), t)
BY DEF Free, When

\* The users table is done with before the devices table is touched.
Sorted(s) ==
    /\ s \in Seq(Calls)
    /\ \A k, l \in 1..Len(s) : k < l /\ s[k].on = "devices" => s[l].on # "users"

\* What touches only one of them is sorted.
LEMMA FreeSorted ==
  ASSUME NEW s, Free(s, "devices") \/ Free(s, "users")
  PROVE  Sorted(s)
BY DEF Free, Sorted

\* What follows a sorted part without the users keeps it sorted.
LEMMA SortedConcat ==
  ASSUME NEW s, NEW u, Sorted(s), Free(u, "users")
  PROVE  Sorted(s \o u)
<1> DEFINE w == s \o u
<1>1. /\ w \in Seq(Calls) /\ Len(w) = Len(s) + Len(u) /\ Len(s) \in Nat /\ Len(u) \in Nat
      /\ \A k \in 1..Len(s) : w[k] = s[k]
      /\ \A k \in 1..(Len(s) + Len(u)) :
            k <= Len(s) \/ (k - Len(s) \in 1..Len(u) /\ w[k] = u[k - Len(s)])
  BY ConcatAt DEF Free, Sorted
<1> HIDE DEF w
<1>2. ASSUME NEW k \in 1..Len(w), NEW l \in 1..Len(w), k < l, w[k].on = "devices"
      PROVE  w[l].on # "users"
  <2>1. CASE l <= Len(s)
    BY <1>1, <1>2, <2>1 DEF Sorted
  <2>2. CASE ~(l <= Len(s))
    BY <1>1, <2>2 DEF Free
  <2> QED
    BY <2>1, <2>2
<1> QED
  BY <1>1, <1>2 DEF Sorted, w

\* The call x is one of s.
Has(s, x) == \E k \in 1..Len(s) : s[k] = x

\* A call of a part is one of the whole.
LEMMA HasConcat ==
  ASSUME NEW s \in Seq(Calls), NEW u \in Seq(Calls), NEW x, Has(s, x) \/ Has(u, x)
  PROVE  Has(s \o u, x)
<1> DEFINE w == s \o u
<1>1. /\ Len(w) = Len(s) + Len(u) /\ Len(s) \in Nat /\ Len(u) \in Nat
      /\ \A k \in 1..Len(s) : w[k] = s[k]
      /\ \A k \in 1..Len(u) : w[Len(s) + k] = u[k]
  BY ConcatAt
<1> HIDE DEF w
<1>2. ASSUME Has(s, x) PROVE Has(w, x)
  BY <1>1, <1>2 DEF Has
<1>3. ASSUME Has(u, x) PROVE Has(w, x)
  <2>1. PICK k \in 1..Len(u) : u[k] = x
    BY <1>3 DEF Has
  <2>2. Len(s) + k \in 1..Len(w) /\ w[Len(s) + k] = x
    BY <1>1, <2>1
  <2> QED
    BY <2>2 DEF Has
<1>4. Has(w, x)
  BY <1>2, <1>3
<1> QED
  BY <1>4 DEF w

\* One call.
LEMMA HasOne ==
  ASSUME NEW op, NEW on
  PROVE  Has(Do(op, on), [op |-> op, on |-> on])
BY DEF Has, Do

\* A transaction ends with its commit.
LEMMA HasCommit ==
  ASSUME NEW t \in Table
  PROVE  Has(CreateSchema(t), [op |-> "commit", on |-> t]) /\ CreateSchema(t) \in Seq(Calls)
<1> DEFINE L == Do("lock", t)
           C == Do("create", t)
           M == Do("commit", t)
<1>1. L \in Seq(Calls) /\ C \in Seq(Calls) /\ M \in Seq(Calls)
      /\ Has(M, [op |-> "commit", on |-> t])
  BY HasOne DEF Do, Calls, DbOp
<1>2. CreateSchema(t) = (L \o C) \o M
  BY DEF CreateSchema
<1> HIDE DEF L, C, M
<1>3. L \o C \in Seq(Calls)
  BY <1>1, ConcatAt
<1>4. (L \o C) \o M \in Seq(Calls)
  BY <1>1, <1>3, ConcatAt
<1>5. Has((L \o C) \o M, [op |-> "commit", on |-> t])
  BY <1>1, <1>3, HasConcat
<1> QED
  BY <1>2, <1>4, <1>5

\* The transaction of one table leaves the other alone.
LEMMA FreeSchema ==
  ASSUME NEW t \in Table, NEW u \in Table, t # u
  PROVE  Free(CreateSchema(t), u)
<1>1. Free(Do("lock", t), u) /\ Free(Do("create", t), u) /\ Free(Do("commit", t), u)
  BY FreeOne DEF Calls, DbOp
<1> QED
  BY <1>1, FreeConcat DEF CreateSchema

\* NewStore creates, or looks at, the users table.
LEMMA NewStoreShape ==
  ASSUME NEW c, c.db
  PROVE  /\ Block(c, NewStore(c)) /\ Free(NewStore(c), "devices")
         /\ c.auto /\ ~c.external => Has(NewStore(c), [op |-> "commit", on |-> "users"])
         /\ ~c.auto /\ ~c.external => Has(NewStore(c), [op |-> "probe", on |-> "users"])
<1> DEFINE b == ~c.external /\ c.auto
           d == IF c.external THEN c.column ELSE ~c.auto
           A == When(b, CreateSchema("users"))
           B == When(d, Do("probe", "users"))
<1>0. "users" \in Table /\ "devices" \in Table /\ [op |-> "probe", on |-> "users"] \in Calls
  BY DEF Table, Calls
<1>1. Block(c, A)
  BY <1>0, BlockSchema, BlockWhen
<1>2. Block(c, B)
  <2>1. ASSUME d PROVE Allowed(c, [op |-> "probe", on |-> "users"])
    BY <2>1 DEF Allowed, DbOp
  <2>2. d => Block(c, Do("probe", "users"))
    BY <1>0, <2>1, BlockOne
  <2> HIDE DEF d
  <2> QED
    BY <2>2, BlockWhen
<1>3. Free(A, "devices") /\ Free(B, "devices")
  BY <1>0, FreeSchema, FreeOne, FreeWhen
<1>4. b => Has(A, [op |-> "commit", on |-> "users"])
  BY <1>0, HasCommit DEF When
<1>5. ~c.auto /\ ~c.external => Has(B, [op |-> "probe", on |-> "users"])
  BY HasOne DEF When
<1>6. NewStore(c) = A \o B /\ A \in Seq(Calls) /\ B \in Seq(Calls)
  BY <1>1, <1>2 DEF NewStore, Block
<1> HIDE DEF A, B
<1> QED
  BY <1>1, <1>2, <1>3, <1>4, <1>5, <1>6, BlockConcat, FreeConcat, HasConcat

\* OpenDatabase: the connection, the users, then the devices.
LEMMA OpenDatabaseShape ==
  ASSUME NEW c, c.db
  PROVE  /\ Block(c, OpenDatabase(c)) /\ Sorted(OpenDatabase(c))
         /\ Has(OpenDatabase(c), [op |-> "open", on |-> "sql"])
         /\ c.auto /\ ~c.external => Has(OpenDatabase(c), [op |-> "commit", on |-> "users"])
         /\ c.auto => Has(OpenDatabase(c), [op |-> "commit", on |-> "devices"])
         /\ ~c.auto /\ ~c.external => Has(OpenDatabase(c), [op |-> "probe", on |-> "users"])
<1> DEFINE A == Do("open", "sql")
           B == NewStore(c)
           P == Do("call", "ping")
           Q == When(c.auto, CreateSchema("devices"))
           D == Do("open", "store")
<1>0. /\ "users" \in Table /\ "devices" \in Table /\ [op |-> "open", on |-> "sql"] \in Calls
      /\ [op |-> "call", on |-> "ping"] \in Calls /\ [op |-> "open", on |-> "store"] \in Calls
  BY DEF Table, Calls
<1>1. Block(c, A) /\ Block(c, P) /\ Block(c, D)
  BY <1>0, BlockOne DEF Allowed, DbOp
<1>2. Block(c, Q)
  BY <1>0, BlockSchema, BlockWhen
<1>3. Free(A, "devices") /\ Free(P, "users") /\ Free(D, "users") /\ Free(Q, "users")
  BY <1>0, FreeSchema, FreeOne, FreeWhen
<1>4. Has(A, [op |-> "open", on |-> "sql"])
      /\ (c.auto => Has(Q, [op |-> "commit", on |-> "devices"]))
  BY <1>0, HasOne, HasCommit DEF When
<1>5. OpenDatabase(c) = ((A \o B) \o (P \o Q)) \o D
  BY DEF OpenDatabase, OpenDevices
<1>6. /\ Block(c, B) /\ Free(B, "devices")
      /\ c.auto /\ ~c.external => Has(B, [op |-> "commit", on |-> "users"])
      /\ ~c.auto /\ ~c.external => Has(B, [op |-> "probe", on |-> "users"])
  BY NewStoreShape
<1> HIDE DEF A, B, P, Q, D
<1>7. Block(c, A \o B) /\ Sorted(A \o B)
  BY <1>1, <1>3, <1>6, BlockConcat, FreeConcat, FreeSorted
<1>8. Block(c, P \o Q) /\ Free(P \o Q, "users")
  BY <1>1, <1>2, <1>3, BlockConcat, FreeConcat
<1>9. Block(c, (A \o B) \o (P \o Q)) /\ Sorted((A \o B) \o (P \o Q))
  BY <1>7, <1>8, BlockConcat, SortedConcat
<1>10. /\ A \in Seq(Calls) /\ B \in Seq(Calls) /\ P \in Seq(Calls) /\ Q \in Seq(Calls)
       /\ D \in Seq(Calls) /\ A \o B \in Seq(Calls) /\ P \o Q \in Seq(Calls)
       /\ (A \o B) \o (P \o Q) \in Seq(Calls)
  BY <1>1, <1>2, <1>6, <1>7, <1>8, <1>9 DEF Block
<1>11. ASSUME NEW x, Has(A, x) \/ Has(B, x) \/ Has(Q, x) PROVE Has(OpenDatabase(c), x)
  <2>1. Has(A \o B, x) \/ Has(P \o Q, x)
    BY <1>10, <1>11, HasConcat
  <2>2. Has((A \o B) \o (P \o Q), x)
    BY <1>10, <2>1, HasConcat
  <2> QED
    BY <1>5, <1>10, <2>2, HasConcat
<1>12. Block(c, OpenDatabase(c)) /\ Sorted(OpenDatabase(c))
  BY <1>1, <1>3, <1>5, <1>9, BlockConcat, SortedConcat
<1> QED
  BY <1>4, <1>6, <1>11, <1>12

\* CreateListener leaves the tables alone, and publishes a Unix socket with a rename.
LEMMA ListenerShape ==
  ASSUME NEW c
  PROVE  /\ Free(CreateListener(c), "users")
         /\ c.unix => Has(CreateListener(c), [op |-> "rename", on |-> "temp"])
<1> DEFINE s1 == Do("call", "mkdir")
           s2 == s1 \o Do("remove", "temp")
           s3 == s2 \o Do("remove", "after")
           s4 == s3 \o Do("bind", "temp")
           s5 == s4 \o Do("chmod", "temp")
           R == Do("rename", "temp")
           O == Do("open", "listener")
<1>0. CreateListener(c) = When(c.unix, s5 \o R) \o O
  BY DEF CreateListener
<1>1. /\ Free(s1, "users") /\ Free(Do("remove", "temp"), "users")
      /\ Free(Do("remove", "after"), "users") /\ Free(Do("bind", "temp"), "users")
      /\ Free(Do("chmod", "temp"), "users") /\ Free(R, "users") /\ Free(O, "users")
  BY FreeOne DEF Calls, FileOp
<1>2. Has(R, [op |-> "rename", on |-> "temp"])
  BY HasOne
<1> HIDE DEF R, O
<1>3. Free(s5, "users")
  <2> HIDE DEF s1
  <2>1. Free(s2, "users")
    BY <1>1, FreeConcat
  <2> HIDE DEF s2
  <2>2. Free(s3, "users")
    BY <1>1, <2>1, FreeConcat
  <2> HIDE DEF s3
  <2>3. Free(s4, "users")
    BY <1>1, <2>2, FreeConcat
  <2> HIDE DEF s4
  <2> QED
    BY <1>1, <2>3, FreeConcat
<1> HIDE DEF s5
<1>4. Free(s5 \o R, "users") /\ Has(s5 \o R, [op |-> "rename", on |-> "temp"])
  BY <1>1, <1>2, <1>3, FreeConcat, HasConcat DEF Free
<1> DEFINE W == When(c.unix, s5 \o R)
<1>5. Free(W, "users") /\ (c.unix => Has(W, [op |-> "rename", on |-> "temp"]))
  BY <1>4, FreeWhen DEF When
<1> HIDE DEF W
<1>6. Free(W \o O, "users") /\ (c.unix => Has(W \o O, [op |-> "rename", on |-> "temp"]))
  BY <1>1, <1>5, FreeConcat, HasConcat DEF Free
<1> QED
  BY <1>0, <1>6 DEF W

\* A call that run makes whatever it has made before.
LEMMA Extend ==
  ASSUME NEW c, NEW s, NEW u, Block(c, s), Sorted(s), Block(c, u), Free(u, "users")
  PROVE  /\ Block(c, s \o u) /\ Sorted(s \o u)
         /\ \A x : Has(s, x) \/ Has(u, x) => Has(s \o u, x)
<1>1. s \in Seq(Calls) /\ u \in Seq(Calls)
  BY DEF Block
<1> QED
  BY <1>1, BlockConcat, SortedConcat, HasConcat

\* What run does: a program, with every call in it that a configuration needs.
LEMMA RunShape ==
  ASSUME NEW c
  PROVE  /\ Block(c, Run(c)) /\ Program(c, Run(c)) /\ Run(c) # <<>>
         /\ c.db /\ c.auto /\ ~c.external => Has(Run(c), [op |-> "commit", on |-> "users"])
         /\ c.db /\ c.auto => Has(Run(c), [op |-> "commit", on |-> "devices"])
         /\ c.db /\ ~c.auto /\ ~c.external => Has(Run(c), [op |-> "probe", on |-> "users"])
         /\ c.unix => Has(Run(c), [op |-> "rename", on |-> "temp"])
         /\ \A x \in Needed(c) : Has(Run(c), [op |-> "open", on |-> x])
<1> DEFINE X(op, on) == [op |-> op, on |-> on]
           A == When(c.db, OpenDatabase(c))
           R == When(c.redis, Do("open", "redis"))
           D == Do("open", "deviceCache")
           N == NewOAuth2Client(c)
           F == Do("open", "flight")
           C == Do("call", "stateCache")
           L == CreateListener(c)
           S == Do("open", "server")
<1>0. Run(c) = ((((((A \o R) \o D) \o N) \o F) \o C) \o L) \o S
  BY DEF Run
<1>1. /\ X("open", "redis") \in Calls /\ X("open", "deviceCache") \in Calls
      /\ X("discover", "issuer") \in Calls /\ X("open", "flight") \in Calls
      /\ X("call", "stateCache") \in Calls /\ X("open", "server") \in Calls
  BY DEF Calls
<1>2. /\ Allowed(c, X("open", "redis")) /\ Allowed(c, X("open", "deviceCache"))
      /\ Allowed(c, X("discover", "issuer")) /\ Allowed(c, X("open", "flight"))
      /\ Allowed(c, X("call", "stateCache")) /\ Allowed(c, X("open", "server"))
  BY DEF Allowed, DbOp
<1>3. /\ Block(c, A) /\ Sorted(A)
      /\ c.db => Has(A, X("open", "sql"))
      /\ c.db /\ c.auto /\ ~c.external => Has(A, X("commit", "users"))
      /\ c.db /\ c.auto => Has(A, X("commit", "devices"))
      /\ c.db /\ ~c.auto /\ ~c.external => Has(A, X("probe", "users"))
  <2>1. CASE c.db
    <3>1. A = OpenDatabase(c)
      BY <2>1 DEF When
    <3> QED
      BY <2>1, <3>1, OpenDatabaseShape
  <2>2. CASE ~c.db
    <3>1. A = <<>>
      BY <2>2 DEF When
    <3>2. Block(c, <<>>) /\ Sorted(<<>>)
      BY DEF Block, Sorted
    <3> QED
      BY <2>2, <3>1, <3>2
  <2> QED
    BY <2>1, <2>2
<1>4. Block(c, R) /\ Free(R, "users") /\ (c.redis => Has(R, X("open", "redis")))
  <2>1. Block(c, Do("open", "redis")) /\ Free(Do("open", "redis"), "users")
    BY <1>1, <1>2, BlockOne, FreeOne
  <2>2. Has(Do("open", "redis"), X("open", "redis"))
    BY HasOne
  <2> QED
    BY <2>1, <2>2, BlockWhen, FreeWhen DEF When
<1>5. Block(c, D) /\ Free(D, "users") /\ Has(D, X("open", "deviceCache"))
  BY <1>1, <1>2, BlockOne, FreeOne, HasOne
<1>6. Block(c, N) /\ Free(N, "users")
  <2>1. Block(c, Do("discover", "issuer")) /\ Free(Do("discover", "issuer"), "users")
    BY <1>1, <1>2, BlockOne, FreeOne
  <2> QED
    BY <2>1, BlockWhen, FreeWhen DEF NewOAuth2Client
<1>7. Block(c, F) /\ Free(F, "users") /\ Has(F, X("open", "flight"))
  BY <1>1, <1>2, BlockOne, FreeOne, HasOne
<1>8. Block(c, L) /\ Free(L, "users") /\ (c.unix => Has(L, X("rename", "temp")))
  BY BlockListener, ListenerShape
<1>9. Block(c, C) /\ Free(C, "users") /\ Block(c, S) /\ Free(S, "users")
  BY <1>1, <1>2, BlockOne, FreeOne
<1>10. S = <<X("open", "server")>>
  BY DEF Do
<1> HIDE DEF A, R, D, N, F, C, L, S
<1> DEFINE s1 == A \o R
           s2 == s1 \o D
           s3 == s2 \o N
           s4 == s3 \o F
           s5 == s4 \o C
           s6 == s5 \o L
           s7 == s6 \o S
<1>11. Block(c, s1) /\ Sorted(s1) /\ \A x : Has(A, x) \/ Has(R, x) => Has(s1, x)
  BY <1>3, <1>4, Extend
<1>12. Block(c, s2) /\ Sorted(s2) /\ \A x : Has(s1, x) \/ Has(D, x) => Has(s2, x)
  <2> HIDE DEF s1
  <2> QED
    BY <1>5, <1>11, Extend
<1>13. Block(c, s3) /\ Sorted(s3) /\ \A x : Has(s2, x) \/ Has(N, x) => Has(s3, x)
  <2> HIDE DEF s2
  <2> QED
    BY <1>6, <1>12, Extend
<1>14. Block(c, s4) /\ Sorted(s4) /\ \A x : Has(s3, x) \/ Has(F, x) => Has(s4, x)
  <2> HIDE DEF s3
  <2> QED
    BY <1>7, <1>13, Extend
<1>15. Block(c, s5) /\ Sorted(s5) /\ \A x : Has(s4, x) \/ Has(C, x) => Has(s5, x)
  <2> HIDE DEF s4
  <2> QED
    BY <1>9, <1>14, Extend
<1>16. Block(c, s6) /\ Sorted(s6) /\ \A x : Has(s5, x) \/ Has(L, x) => Has(s6, x)
  <2> HIDE DEF s5
  <2> QED
    BY <1>8, <1>15, Extend
<1>17. Block(c, s7) /\ Sorted(s7) /\ \A x : Has(s6, x) \/ Has(S, x) => Has(s7, x)
  <2> HIDE DEF s6
  <2> QED
    BY <1>9, <1>16, Extend
<1>18. s7 # <<>> /\ s7[Len(s7)] = X("open", "server")
  <2>0. s6 \in Seq(Calls) /\ S \in Seq(Calls)
    BY <1>9, <1>16 DEF Block
  <2>1. Len(S) = 1 /\ S[1] = X("open", "server")
    BY <1>10
  <2> HIDE DEF s6
  <2>2. Len(s7) = Len(s6) + 1 /\ Len(s6) \in Nat /\ s7[Len(s6) + 1] = S[1] /\ s7 \in Seq(Calls)
    <3>1. /\ s6 \o S \in Seq(Calls) /\ Len(s6 \o S) = Len(s6) + Len(S) /\ Len(s6) \in Nat
          /\ \A k \in 1..Len(S) : (s6 \o S)[Len(s6) + k] = S[k]
      <4> HIDE DEF X, s7
      <4> QED
        BY <2>0, ConcatAt
    <3>2. 1 \in 1..Len(S)
      BY <2>1
    <3>3. s7 = s6 \o S
      OBVIOUS
    <3> HIDE DEF s7, X
    <3> QED
      BY <2>1, <3>1, <3>2, <3>3
  <2> HIDE DEF s7
  <2>3. s7[Len(s7)] = X("open", "server")
    <3> HIDE DEF X
    <3> QED
      BY <2>1, <2>2
  <2>4. s7 # <<>>
    BY <2>2, EmptySeq
  <2> QED
    BY <2>3, <2>4
<1>19. Run(c) = s7
  BY <1>0
<1>20. ASSUME NEW x, Has(A, x) \/ Has(R, x) \/ Has(D, x) \/ Has(F, x) \/ Has(L, x)
       PROVE  Has(s7, x)
  <2> HIDE DEF s1, s2, s3, s4, s5, s6, s7
  <2> QED
    BY <1>11, <1>12, <1>13, <1>14, <1>15, <1>16, <1>17, <1>20
<1> HIDE DEF s7
<1>21. Program(c, s7)
  BY <1>17, <1>18 DEF Program, Block, Sorted
<1>22. ASSUME NEW x \in Needed(c) PROVE Has(s7, X("open", x))
  BY <1>3, <1>4, <1>5, <1>7, <1>20 DEF Needed
<1> QED
  BY <1>3, <1>8, <1>17, <1>18, <1>19, <1>20, <1>21, <1>22

\* What is left of a program after its first call is a program.
LEMMA ProgramTail ==
  ASSUME NEW c, NEW s, Program(c, s), s # <<>>
  PROVE  /\ Program(c, Tail(s)) /\ Head(s) = s[1] /\ Head(s) \in Calls /\ Allowed(c, Head(s))
         /\ (Len(s) = 1) <=> (Tail(s) = <<>>)
         /\ Tail(s) = <<>> => Head(s) = [op |-> "open", on |-> "server"]
         /\ Tail(s) # <<>> => /\ Pair(Head(s), Head(Tail(s)))
                              /\ Head(Tail(s)) \in Calls /\ Allowed(c, Head(Tail(s)))
         /\ \A x : Has(s, x) => Head(s) = x \/ Has(Tail(s), x)
         /\ Head(s).on = "devices" => \A op : ~Has(s, [op |-> op, on |-> "users"])
<1> DEFINE t == Tail(s)
<1>0. s \in Seq(Calls)
  BY DEF Program
<1>1. /\ t \in Seq(Calls) /\ Len(s) \in Nat \ {0} /\ Len(t) = Len(s) - 1
      /\ \A k \in 1..Len(t) : t[k] = s[k + 1]
      /\ Head(s) = s[1] /\ (t = <<>> <=> Len(t) = 0)
  <2>1. /\ t \in Seq(Calls) /\ Len(t) = Len(s) - 1
        /\ \A k \in 1..Len(t) : t[k] = s[k + 1]
    BY <1>0, HeadTailProperties
  <2>2. Len(s) \in Nat /\ Len(s) # 0
    BY <1>0, EmptySeq, LenProperties
  <2>3. Head(s) = s[1]
    BY <1>0
  <2> HIDE DEF t
  <2>4. t = <<>> <=> Len(t) = 0
    BY <2>1, EmptySeq
  <2> QED
    BY <2>1, <2>2, <2>3, <2>4
<1>2. t # <<>> => Head(t) = t[1] /\ Head(t) = s[2]
  BY <1>1, HeadTailProperties
<1> HIDE DEF t
<1>3. Program(c, t)
  <2>1. \A k \in 1..(Len(t) - 1) : Pair(t[k], t[k + 1])
    BY <1>1 DEF Program
  <2>2. \A k \in 1..Len(t) : Allowed(c, t[k])
    BY <1>1 DEF Program
  <2>3. \A k, l \in 1..Len(t) : k < l /\ t[k].on = "devices" => t[l].on # "users"
    <3> TAKE k, l \in 1..Len(t)
    <3>1. /\ t[k] = s[k + 1] /\ t[l] = s[l + 1] /\ k + 1 \in 1..Len(s) /\ l + 1 \in 1..Len(s)
          /\ k < l => k + 1 < l + 1
      BY <1>1
    <3> QED
      BY <3>1 DEF Program
  <2>4. t # <<>> => t[Len(t)] = [op |-> "open", on |-> "server"]
    BY <1>1 DEF Program
  <2> QED
    BY <1>1, <2>1, <2>2, <2>3, <2>4 DEF Program
<1>4. Head(s) \in Calls /\ Allowed(c, Head(s))
  BY <1>0, <1>1 DEF Program
<1>5. t = <<>> => Head(s) = [op |-> "open", on |-> "server"]
  <2>1. t = <<>> => Len(s) = 1
    BY <1>1
  <2>2. s[Len(s)] = [op |-> "open", on |-> "server"]
    BY DEF Program
  <2> QED
    BY <1>1, <2>1, <2>2
<1>6. t # <<>> => Pair(Head(s), Head(t)) /\ Head(t) \in Calls /\ Allowed(c, Head(t))
  BY <1>0, <1>1, <1>2 DEF Program
<1>7. ASSUME NEW x, Has(s, x) PROVE Head(s) = x \/ Has(t, x)
  <2>1. PICK k \in 1..Len(s) : s[k] = x
    BY <1>7 DEF Has
  <2>2. CASE k = 1
    BY <1>1, <2>1, <2>2
  <2>3. CASE k # 1
    <3>1. k - 1 \in 1..Len(t) /\ t[k - 1] = x
      BY <1>1, <2>1, <2>3
    <3> QED
      BY <3>1 DEF Has
  <2> QED
    BY <2>2, <2>3
<1>8. ASSUME Head(s).on = "devices", NEW op, Has(s, [op |-> op, on |-> "users"]) PROVE FALSE
  <2>1. PICK k \in 1..Len(s) : s[k] = [op |-> op, on |-> "users"]
    BY <1>8 DEF Has
  <2>2. s[k].on = "users" /\ s[1].on = "devices"
    BY <1>1, <1>8, <2>1
  <2> QED
    BY <1>1, <2>2 DEF Program
<1>9. (Len(s) = 1) <=> (t = <<>>)
  BY <1>1
<1> QED
  BY <1>1, <1>3, <1>4, <1>5, <1>6, <1>7, <1>8, <1>9 DEF t

\* The publication of the socket, once begun, is pending to its rename.
LEMMA RenamePending ==
  ASSUME NEW c, NEW s, Program(c, s), s # <<>>, Head(s).op \in {"remove", "bind", "chmod"}
  PROVE  Has(Tail(s), [op |-> "rename", on |-> "temp"])
<1> DEFINE Lives(u) == Program(c, u) /\ u # <<>>
           R == [op |-> "rename", on |-> "temp"]
<1>0. ASSUME NEW u, Lives(u), Head(u).op \in {"remove", "bind", "chmod"}
      PROVE  Lives(Tail(u)) /\ Pair(Head(u), Head(Tail(u))) /\ Allowed(c, Head(u))
             /\ Allowed(c, Head(Tail(u))) /\ Head(Tail(u)) \in Calls
  <2>1. /\ Program(c, Tail(u)) /\ Allowed(c, Head(u))
        /\ Tail(u) = <<>> => Head(u) = [op |-> "open", on |-> "server"]
        /\ Tail(u) # <<>> => Pair(Head(u), Head(Tail(u))) /\ Head(Tail(u)) \in Calls
                            /\ Allowed(c, Head(Tail(u)))
    BY <1>0, ProgramTail
  <2>2. Tail(u) # <<>>
    <3>1. ASSUME Tail(u) = <<>> PROVE Head(u).op = "open"
      BY <2>1, <3>1
    <3> QED
      BY <1>0, <3>1
  <2> QED
    BY <2>1, <2>2
<1>1. ASSUME NEW u, Program(c, u), u # <<>>, NEW x, Has(Tail(u), x) PROVE Has(u, x)
  <2>1. u \in Seq(Calls)
    BY <1>1 DEF Program
  <2>2. PICK k \in 1..Len(Tail(u)) : Tail(u)[k] = x
    BY <1>1 DEF Has
  <2>3. k + 1 \in 1..Len(u) /\ u[k + 1] = x
    BY <1>1, <2>1, <2>2, HeadTailProperties, LenProperties, EmptySeq
  <2> QED
    BY <2>3 DEF Has
<1>2. ASSUME NEW u, Lives(u), Head(u) = R PROVE Has(u, R)
  <2>1. u \in Seq(Calls)
    BY <1>2 DEF Program
  <2>2. 1 \in 1..Len(u) /\ u[1] = Head(u)
    BY <1>2, <2>1, HeadTailProperties, LenProperties, EmptySeq
  <2> HIDE DEF R
  <2> QED
    BY <1>2, <2>2 DEF Has
<1> HIDE DEF Lives
<1>3. ASSUME NEW u, Lives(u), Head(u).op = "chmod" PROVE Has(Tail(u), R)
  <2>1. Lives(Tail(u)) /\ Head(Tail(u)).op = "rename" /\ Head(Tail(u)).on = "temp"
        /\ Head(Tail(u)) \in Calls
    BY <1>0, <1>3 DEF Pair, Allowed
  <2>2. Head(Tail(u)) = R
    BY <2>1 DEF Calls
  <2> HIDE DEF R
  <2> QED
    BY <1>2, <2>1, <2>2
<1>4. ASSUME NEW u, Lives(u), Head(u).op = "bind" PROVE Has(Tail(u), R)
  <2>1. Lives(Tail(u)) /\ Head(Tail(u)).op = "chmod"
    BY <1>0, <1>4 DEF Pair
  <2> HIDE DEF R
  <2> QED
    BY <1>1, <1>3, <2>1 DEF Lives
<1>5. ASSUME NEW u, Lives(u), Head(u).op = "remove", Head(u).on = "after" PROVE Has(Tail(u), R)
  <2>1. Lives(Tail(u)) /\ Head(Tail(u)).op = "bind"
    BY <1>0, <1>5 DEF Pair
  <2> HIDE DEF R
  <2> QED
    BY <1>1, <1>4, <2>1 DEF Lives
<1>6. ASSUME NEW u, Lives(u), Head(u).op = "remove", Head(u).on = "temp" PROVE Has(Tail(u), R)
  <2>1. Lives(Tail(u)) /\ Head(Tail(u)).op = "remove" /\ Head(Tail(u)).on = "after"
    BY <1>0, <1>6 DEF Pair
  <2> HIDE DEF R
  <2> QED
    BY <1>1, <1>5, <2>1 DEF Lives
<1>7. Lives(s) /\ Allowed(c, Head(s))
  BY ProgramTail DEF Lives
<1>8. CASE Head(s).op = "remove"
  <2>1. Head(s).on \in {"temp", "after"}
    BY <1>7, <1>8 DEF Allowed
  <2> HIDE DEF R
  <2>2. Has(Tail(s), R)
    BY <1>5, <1>6, <1>7, <1>8, <2>1
  <2> QED
    BY <2>2 DEF R
<1> QED
  BY <1>3, <1>4, <1>7, <1>8

-----------------------------------------------------------------------------
(* The invariant of one process, and a step of one process.                *)

\* What StartupInv says of the process i alone.
Local(i) ==
    /\ (phase[i] = "starting") <=> (todo[i] # <<>>)
    /\ (tx[i] # None) <=> (At(i, "create") \/ At(i, "commit"))
    /\ made[i] => At(i, "commit")
    /\ TxInv(i) /\ SchemaInv(i) /\ SocketInv(i) /\ CloserInv(i)

Phase == {"off", "starting", "serving", "closing", "failed", "stopped"}

\* The sets the variables are in.
Shapes ==
    /\ env \in Environments /\ tables \subseteq Table
    /\ phase \in [Instance -> Phase]
    /\ todo \in [Instance -> Seq(Calls)] /\ closers \in [Instance -> Seq({a.on : a \in Calls})]
    /\ tx \in [Instance -> Table \cup {None}]
    /\ made \in [Instance -> BOOLEAN] /\ waits \in [Instance -> BOOLEAN]
    /\ expired \in [Instance -> BOOLEAN] /\ faulty \in [Instance -> BOOLEAN]
    /\ temp \in [Instance -> File] /\ after \in [Instance -> File]
    /\ busy \in [Instance -> {None, "health", "verify", "refresh", "login"}]
    /\ starts \in 0..MaxStarts

UsersFirst == "devices" \in tables => "users" \in tables

LocksHeld == \A i, j \in Instance : i # j /\ tx[i] # None => tx[i] # tx[j]

\* StartupInv in these parts.
LEMMA StartupInvParts ==
  StartupInv <=> Shapes /\ UsersFirst /\ LocksHeld /\ \A i \in Instance : Local(i)
BY DEF StartupInv, StartupTypeOK, Shapes, UsersFirst, LocksHeld, Local, Phase

\* A step of i: what it may not touch.
Frame(i) ==
    /\ env' = env /\ tables \subseteq tables'
    /\ \A j \in Instance \ {i} :
        /\ phase'[j] = phase[j] /\ todo'[j] = todo[j] /\ tx'[j] = tx[j] /\ made'[j] = made[j]
        /\ temp'[j] = temp[j] /\ after'[j] = after[j] /\ closers'[j] = closers[j]
        /\ busy'[j] = busy[j] /\ expired'[j] = expired[j]

\* The environment of a process does not change.
LEMMA SameConfig == env' = env => cfg' = cfg
BY DEF cfg

\* A step of i leaves the invariant of the others alone.
LEMMA OthersKept ==
  ASSUME NEW i \in Instance, NEW j \in Instance, j # i, Frame(i), Local(j)
  PROVE  Local(j)'
<1>1. /\ cfg' = cfg /\ tables \subseteq tables' /\ phase'[j] = phase[j] /\ todo'[j] = todo[j]
      /\ tx'[j] = tx[j] /\ made'[j] = made[j] /\ temp'[j] = temp[j] /\ after'[j] = after[j]
      /\ closers'[j] = closers[j] /\ busy'[j] = busy[j] /\ expired'[j] = expired[j]
  BY SameConfig DEF Frame
<1>2. \A op : At(j, op)' <=> At(j, op)
  BY <1>1 DEF At
<1>3. On(j)' = On(j)
  BY <1>1 DEF On
<1>4. \A op, on : Pending(j, op, on)' <=> Pending(j, op, on)
  BY <1>1 DEF Pending
<1>5. \A x : Opened(j, x)' <=> Opened(j, x)
  BY <1>1 DEF Opened
<1>6. TxInv(j)'
  BY <1>1, <1>2, <1>3 DEF Local, TxInv
<1>7. SchemaInv(j)'
  BY <1>1, <1>4 DEF Local, SchemaInv
<1>8. SocketInv(j)'
  BY <1>1, <1>2, <1>3, <1>4 DEF Local, SocketInv
<1>9. CloserInv(j)'
  BY <1>1, <1>4, <1>5 DEF Local, CloserInv
<1> QED
  BY <1>1, <1>2, <1>6, <1>7, <1>8, <1>9 DEF Local

\* The step from a call to the next one.
Advanced(i) ==
    LET h == Head(todo[i]) IN
    /\ cfg' = cfg /\ tables \subseteq tables'
    /\ phase[i] = "starting" /\ todo[i] # <<>> /\ h \in Calls /\ Allowed(cfg, h)
    /\ Program(cfg, todo'[i])
    /\ (phase'[i] = "starting") <=> (todo'[i] # <<>>)
    /\ phase'[i] \in {"starting", "serving"}
    /\ phase'[i] = "serving" => h = [op |-> "open", on |-> "server"]
    /\ todo'[i] # <<>> => Pair(h, Head(todo'[i])) /\ Head(todo'[i]) \in Calls
                          /\ Allowed(cfg, Head(todo'[i]))
    /\ \A op, on : Pending(i, op, on) => h = [op |-> op, on |-> on] \/ Pending(i, op, on)'
    /\ h.op \in {"remove", "bind", "chmod"} => Pending(i, "rename", "temp")'

\* Pending, as a statement about a sequence.
LEMMA PendingHas ==
  ASSUME NEW i
  PROVE  /\ \A op, on : Pending(i, op, on) <=> Has(todo[i], [op |-> op, on |-> on])
         /\ \A op, on : Pending(i, op, on)' <=> Has(todo'[i], [op |-> op, on |-> on])
BY DEF Pending, Has

\* Proceed goes from a call to the next one.
LEMMA ProceedAdvances ==
  ASSUME NEW i \in Instance, Shapes, Local(i), phase[i] = "starting", Proceed(i),
         env' = env, tables \subseteq tables'
  PROVE  /\ Advanced(i)
         /\ todo' \in [Instance -> Seq(Calls)] /\ phase' \in [Instance -> Phase]
         /\ \A j \in Instance \ {i} : todo'[j] = todo[j] /\ phase'[j] = phase[j]
<1>0. todo \in [Instance -> Seq(Calls)] /\ phase \in [Instance -> Phase]
  BY DEF Shapes
<1>1. todo[i] # <<>> /\ Program(cfg, todo[i]) /\ cfg' = cfg
  BY SameConfig DEF Local, TxInv
<1>2. /\ todo'[i] = Tail(todo[i])
      /\ \A j \in Instance \ {i} : todo'[j] = todo[j] /\ phase'[j] = phase[j]
      /\ phase'[i] = IF Len(todo[i]) = 1 THEN "serving" ELSE "starting"
  BY <1>0 DEF Proceed
<1> DEFINE s == todo[i]
           h == Head(s)
<1>3. /\ Program(cfg, Tail(s)) /\ h \in Calls /\ Allowed(cfg, h)
      /\ (Len(s) = 1) <=> (Tail(s) = <<>>)
      /\ Tail(s) = <<>> => h = [op |-> "open", on |-> "server"]
      /\ Tail(s) # <<>> => Pair(h, Head(Tail(s))) /\ Head(Tail(s)) \in Calls
                           /\ Allowed(cfg, Head(Tail(s)))
      /\ \A x : Has(s, x) => h = x \/ Has(Tail(s), x)
  BY <1>1, ProgramTail
<1>4. h.op \in {"remove", "bind", "chmod"} => Has(Tail(s), [op |-> "rename", on |-> "temp"])
  BY <1>1, RenamePending
<1>5. todo' \in [Instance -> Seq(Calls)] /\ phase' \in [Instance -> Phase]
  <2>1. Tail(s) \in Seq(Calls)
    BY <1>3 DEF Program
  <2> QED
    BY <1>0, <2>1 DEF Proceed, Phase
<1>6. \A op, on : Pending(i, op, on) => h = [op |-> op, on |-> on] \/ Pending(i, op, on)'
  BY <1>2, <1>3, PendingHas
<1>7. h.op \in {"remove", "bind", "chmod"} => Pending(i, "rename", "temp")'
  BY <1>2, <1>4, PendingHas
<1>8. /\ (phase'[i] = "starting") <=> (todo'[i] # <<>>)
      /\ phase'[i] \in {"starting", "serving"}
      /\ phase'[i] = "serving" => Tail(s) = <<>>
  BY <1>2, <1>3
<1> QED
  BY <1>1, <1>2, <1>3, <1>5, <1>6, <1>7, <1>8 DEF Advanced

\* Where a start is after the step.
LEMMA AtNext ==
  ASSUME NEW i, Advanced(i)
  PROVE  /\ \A op : At(i, op)' => todo'[i] # <<>> /\ Head(todo'[i]).op = op
         /\ \A op : todo'[i] # <<>> /\ Head(todo'[i]).op = op => At(i, op)'
         /\ On(i)' = Head(todo'[i]).on
BY DEF Advanced, At, On

\* A call outside a transaction opens none.
LEMMA TxKept ==
  ASSUME NEW i \in Instance, Local(i), Advanced(i), Head(todo[i]).op \notin DbOp,
         tx'[i] = tx[i], made'[i] = made[i]
  PROVE  /\ TxInv(i)'
         /\ (tx'[i] # None) <=> (At(i, "create")' \/ At(i, "commit")')
         /\ made'[i] => At(i, "commit")'
<1>1. ~At(i, "create") /\ ~At(i, "commit")
  BY DEF At, DbOp
<1>2. tx'[i] = None /\ ~made'[i]
  BY <1>1 DEF Local
<1>3. ~At(i, "create")' /\ ~At(i, "commit")'
  BY AtNext DEF Advanced, Pair, DbOp
<1>4. Program(cfg', todo'[i])
  BY DEF Advanced
<1> QED
  BY <1>2, <1>3, <1>4 DEF TxInv

\* The tables that a start needs are there, or still to come.
LEMMA SchemaKept ==
  ASSUME NEW i \in Instance, Local(i), Advanced(i),
         Head(todo[i]) \in {[op |-> "commit", on |-> "users"], [op |-> "probe", on |-> "users"]}
            => "users" \in tables',
         Head(todo[i]) = [op |-> "commit", on |-> "devices"] => "devices" \in tables'
  PROVE  SchemaInv(i)'
<1>1. cfg' = cfg /\ tables \subseteq tables' /\ phase[i] = "starting" /\ SchemaInv(i)
  BY DEF Advanced, Local
<1>3. Pending(i, "commit", "users") => "users" \in tables' \/ Pending(i, "commit", "users")'
  BY DEF Advanced
<1>4. Pending(i, "probe", "users") => "users" \in tables' \/ Pending(i, "probe", "users")'
  BY DEF Advanced
<1>5. Pending(i, "commit", "devices") => "devices" \in tables' \/ Pending(i, "commit", "devices")'
  BY DEF Advanced
<1> QED
  BY <1>1, <1>3, <1>4, <1>5 DEF SchemaInv

\* A call that is not about the socket leaves its files alone.
LEMMA SocketKept ==
  ASSUME NEW i \in Instance, Local(i), Advanced(i), Head(todo[i]).op \notin FileOp,
         temp'[i] = temp[i], after'[i] = after[i]
  PROVE  SocketInv(i)'
<1>1. cfg' = cfg /\ phase[i] = "starting" /\ SocketInv(i)
  BY DEF Advanced, Local
<1>2. ~At(i, "rename")' /\ ~At(i, "bind")' /\ ~(At(i, "remove")' /\ On(i)' = "after")
  BY AtNext DEF Advanced, Pair, FileOp
<1>3. Pending(i, "rename", "temp") => Pending(i, "rename", "temp")'
  <2>1. Head(todo[i]) # [op |-> "rename", on |-> "temp"]
    BY DEF FileOp
  <2> QED
    BY <2>1 DEF Advanced
<1> QED
  BY <1>1, <1>2, <1>3 DEF SocketInv

\* A call that opens nothing keeps what was opened.
LEMMA CloserKept ==
  ASSUME NEW i \in Instance, Local(i), Advanced(i), Head(todo[i]).op # "open",
         closers'[i] = closers[i], busy'[i] = busy[i]
  PROVE  CloserInv(i)'
<1>1. cfg' = cfg /\ phase[i] = "starting" /\ CloserInv(i) /\ phase'[i] = "starting"
  <2>1. phase'[i] # "serving"
    <3>1. Head(todo[i]) # [op |-> "open", on |-> "server"]
      OBVIOUS
    <3> QED
      BY <3>1 DEF Advanced
  <2> QED
    BY <2>1 DEF Advanced, Local
<1>2. busy'[i] = None
  BY <1>1 DEF CloserInv
<1>3. ASSUME NEW x \in Needed(cfg) PROVE Pending(i, "open", x)' \/ Opened(i, x)'
  <2>1. Pending(i, "open", x) \/ Opened(i, x)
    BY <1>1 DEF CloserInv
  <2>2. Opened(i, x) => Opened(i, x)'
    BY DEF Opened
  <2>3. Head(todo[i]) # [op |-> "open", on |-> x]
    OBVIOUS
  <2>4. Pending(i, "open", x) => Pending(i, "open", x)'
    BY <2>3 DEF Advanced
  <2> QED
    BY <2>1, <2>2, <2>4
<1> QED
  BY <1>1, <1>2, <1>3 DEF CloserInv

\* A process that is gone holds nothing.
LEMMA GoneLocal ==
  ASSUME NEW i \in Instance, Shapes, NEW p \in {"off", "failed", "stopped"}, Gone(i, p),
         after'[i] # "private"
  PROVE  Local(i)'
<1>0. /\ DOMAIN phase = Instance /\ DOMAIN todo = Instance /\ DOMAIN tx = Instance
      /\ DOMAIN made = Instance /\ DOMAIN closers = Instance /\ DOMAIN busy = Instance
  BY DEF Shapes
<1>1. /\ phase'[i] = p /\ todo'[i] = <<>> /\ tx'[i] = None /\ made'[i] = FALSE
      /\ closers'[i] = <<>> /\ busy'[i] = None
  BY <1>0 DEF Gone
<1>2. Program(cfg', <<>>)
  BY DEF Program
<1>3. \A op : ~At(i, op)'
  BY <1>1 DEF At
<1>4. TxInv(i)'
  BY <1>1, <1>2, <1>3 DEF TxInv
<1>5. SchemaInv(i)' /\ SocketInv(i)' /\ CloserInv(i)'
  BY <1>1, <1>3 DEF SchemaInv, SocketInv, CloserInv
<1> QED
  BY <1>1, <1>3, <1>4, <1>5 DEF Local

\* The variables of a process that is gone.
LEMMA GoneShapes ==
  ASSUME NEW i \in Instance, Shapes, NEW p \in {"off", "failed", "stopped"}, Gone(i, p)
  PROVE  /\ phase' \in [Instance -> Phase] /\ todo' \in [Instance -> Seq(Calls)]
         /\ closers' \in [Instance -> Seq({a.on : a \in Calls})]
         /\ tx' \in [Instance -> Table \cup {None}] /\ made' \in [Instance -> BOOLEAN]
         /\ waits' \in [Instance -> BOOLEAN] /\ expired' \in [Instance -> BOOLEAN]
         /\ busy' \in [Instance -> {None, "health", "verify", "refresh", "login"}]
         /\ tx'[i] = None
         /\ \A j \in Instance \ {i} :
                /\ phase'[j] = phase[j] /\ todo'[j] = todo[j] /\ tx'[j] = tx[j]
                /\ made'[j] = made[j] /\ closers'[j] = closers[j] /\ busy'[j] = busy[j]
                /\ expired'[j] = expired[j]
<1>1. phase' \in [Instance -> Phase] /\ todo' \in [Instance -> Seq(Calls)]
      /\ closers' \in [Instance -> Seq({a.on : a \in Calls})]
  <2>1. <<>> \in Seq(Calls) /\ <<>> \in Seq({a.on : a \in Calls})
    OBVIOUS
  <2> QED
    BY <2>1 DEF Gone, Shapes, Phase
<1>2. /\ tx' \in [Instance -> Table \cup {None}] /\ made' \in [Instance -> BOOLEAN]
      /\ waits' \in [Instance -> BOOLEAN] /\ expired' \in [Instance -> BOOLEAN]
      /\ busy' \in [Instance -> {None, "health", "verify", "refresh", "login"}]
  BY DEF Gone, Shapes
<1>3. /\ tx'[i] = None
      /\ \A j \in Instance \ {i} :
            /\ phase'[j] = phase[j] /\ todo'[j] = todo[j] /\ tx'[j] = tx[j]
            /\ made'[j] = made[j] /\ closers'[j] = closers[j] /\ busy'[j] = busy[j]
            /\ expired'[j] = expired[j]
  BY DEF Gone, Shapes
<1> QED
  BY <1>1, <1>2, <1>3

-----------------------------------------------------------------------------
(* Every action keeps the invariant.                                       *)

\* A step of i that keeps it.
Stepped(i) == Shapes' /\ UsersFirst' /\ LocksHeld' /\ Frame(i) /\ Local(i)'

\* A step that takes no lock.
LEMMA LocksKept ==
  ASSUME NEW i \in Instance, LocksHeld, tx'[i] = tx[i] \/ tx'[i] = None,
         \A j \in Instance \ {i} : tx'[j] = tx[j]
  PROVE  LocksHeld'
<1> SUFFICES ASSUME NEW j \in Instance, NEW k \in Instance, j # k, tx'[j] # None
             PROVE  tx'[j] # tx'[k]
  BY DEF LocksHeld
<1>1. CASE j = i
  BY <1>1 DEF LocksHeld
<1>2. CASE j # i /\ k = i
  BY <1>2 DEF LocksHeld
<1>3. CASE j # i /\ k # i
  BY <1>3 DEF LocksHeld
<1> QED
  BY <1>1, <1>2, <1>3

\* The lock is taken.
LEMMA LockStep ==
  ASSUME NEW i \in Instance, StartupInv, Lock(i)
  PROVE  Stepped(i)
<1>0. Shapes /\ UsersFirst /\ LocksHeld /\ Local(i)
  BY StartupInvParts
<1>1. phase[i] = "starting" /\ Head(todo[i]).op = "lock" /\ At(i, "lock")
  BY DEF Lock, At
<1>2. /\ Advanced(i) /\ todo' \in [Instance -> Seq(Calls)] /\ phase' \in [Instance -> Phase]
      /\ \A j \in Instance \ {i} : todo'[j] = todo[j] /\ phase'[j] = phase[j]
  BY <1>0, <1>1, ProceedAdvances DEF Lock
<1>3. On(i) \in Table /\ On(i) # None
  BY <1>1, <1>2 DEF Advanced, Allowed, DbOp, On, Table, None
<1>4. /\ tx' \in [Instance -> Table \cup {None}] /\ tx'[i] = On(i)
      /\ \A j \in Instance \ {i} : tx'[j] = tx[j]
  BY <1>0, <1>3 DEF Lock, Shapes
<1>5. Shapes' /\ UsersFirst' /\ Frame(i)
  BY <1>0, <1>2, <1>4 DEF Lock, Shapes, UsersFirst, Frame, filevars
<1>6. LocksHeld'
  <2> SUFFICES ASSUME NEW j \in Instance, NEW k \in Instance, j # k, tx'[j] # None
               PROVE  tx'[j] # tx'[k]
    BY DEF LocksHeld
  <2>1. \A l \in Instance \ {i} : tx[l] # On(i)
    BY DEF Lock, LockFree
  <2>2. CASE j = i
    BY <1>4, <2>1, <2>2
  <2>3. CASE j # i /\ k = i
    BY <1>4, <2>1, <2>3
  <2>4. CASE j # i /\ k # i
    BY <1>0, <1>4, <2>4 DEF LocksHeld
  <2> QED
    BY <2>2, <2>3, <2>4
<1>7. ~made'[i]
  <2>1. ~At(i, "commit")
    BY <1>1 DEF At
  <2> QED
    BY <1>0, <2>1 DEF Local, Lock
<1>8. /\ todo'[i] # <<>> /\ Head(todo'[i]).op = "create" /\ Head(todo'[i]).on = On(i)
      /\ Program(cfg', todo'[i])
  <2>1. Head(todo[i]) # [op |-> "open", on |-> "server"]
    BY <1>1
  <2> QED
    BY <1>1, <1>2, <2>1 DEF Advanced, Pair, On
<1>9. At(i, "create")' /\ ~At(i, "commit")' /\ On(i)' = On(i)
  BY <1>2, <1>8, AtNext
<1>10. TxInv(i)'
  BY <1>4, <1>7, <1>8, <1>9 DEF TxInv
<1>11. SchemaInv(i)'
  BY <1>0, <1>1, <1>2, SchemaKept
<1>12. SocketInv(i)' /\ CloserInv(i)'
  BY <1>0, <1>1, <1>2, SocketKept, CloserKept DEF Lock, filevars, FileOp
<1>13. (phase'[i] = "starting") <=> (todo'[i] # <<>>)
  BY <1>2 DEF Advanced
<1> QED
  BY <1>3, <1>4, <1>5, <1>6, <1>7, <1>9, <1>10, <1>11, <1>12, <1>13 DEF Stepped, Local

\* The table is created, or is there already; the lock of the transaction keeps any
\* other from creating it.
LEMMA CreateStep ==
  ASSUME NEW i \in Instance, StartupInv, Create(i), On(i) \in tables \/ Creatable(i, On(i))
  PROVE  Stepped(i)
<1>0. Shapes /\ UsersFirst /\ LocksHeld /\ Local(i)
  BY StartupInvParts
<1>1. phase[i] = "starting" /\ Head(todo[i]).op = "create" /\ At(i, "create")
  BY DEF Create, At
<1>a. /\ made' = [made EXCEPT ![i] = On(i) \notin tables] /\ Proceed(i)
      /\ UNCHANGED <<tx, waits, expired, closers, busy, env, tables, filevars, starts, faulty>>
  BY DEF Create
<1>2. /\ Advanced(i) /\ todo' \in [Instance -> Seq(Calls)] /\ phase' \in [Instance -> Phase]
      /\ \A j \in Instance \ {i} : todo'[j] = todo[j] /\ phase'[j] = phase[j]
  BY <1>0, <1>1, <1>a, ProceedAdvances
<1>3. /\ made' \in [Instance -> BOOLEAN] /\ made'[i] = (On(i) \notin tables)
      /\ \A j \in Instance \ {i} : made'[j] = made[j]
  BY <1>0, <1>a DEF Shapes
<1>4. Shapes' /\ UsersFirst' /\ Frame(i) /\ LocksHeld'
  BY <1>0, <1>2, <1>3, <1>a DEF Shapes, UsersFirst, Frame, LocksHeld, filevars
<1>5. tx'[i] = On(i) /\ tx[i] = On(i) /\ tx[i] # None
  BY <1>0, <1>1, <1>a DEF Local, TxInv
<1>6. /\ todo'[i] # <<>> /\ Head(todo'[i]).op = "commit" /\ Head(todo'[i]).on = On(i)
      /\ Program(cfg', todo'[i])
  <2>1. Head(todo[i]) # [op |-> "open", on |-> "server"]
    BY <1>1
  <2> QED
    BY <1>1, <1>2, <2>1 DEF Advanced, Pair, On
<1>7. At(i, "commit")' /\ ~At(i, "create")' /\ On(i)' = On(i)
  BY <1>2, <1>6, AtNext
<1>8. On(i) = "devices" => "users" \in tables'
  BY <1>0, <1>a DEF Creatable, UsersFirst
<1>9. ~made'[i] => On(i) \in tables'
  BY <1>3, <1>a
<1>10. TxInv(i)'
  BY <1>5, <1>6, <1>7, <1>8, <1>9 DEF TxInv
<1>11. SchemaInv(i)'
  BY <1>0, <1>1, <1>2, SchemaKept
<1>12. SocketInv(i)' /\ CloserInv(i)'
  BY <1>0, <1>1, <1>2, <1>a, SocketKept, CloserKept DEF filevars, FileOp
<1>13. (phase'[i] = "starting") <=> (todo'[i] # <<>>)
  BY <1>2 DEF Advanced
<1> QED
  BY <1>4, <1>5, <1>7, <1>10, <1>11, <1>12, <1>13 DEF Stepped, Local

\* The tables after a commit.
LEMMA CommitTables ==
  ASSUME NEW i \in Instance, StartupInv, At(i, "commit")
  PROVE  LET T == IF made[i] THEN tables \cup {tx[i]} ELSE tables
         IN  /\ tables \subseteq T /\ T \subseteq Table /\ On(i) \in T /\ tx[i] = On(i)
             /\ ("devices" \in T => "users" \in T)
             /\ Head(todo[i]) = [op |-> "commit", on |-> On(i)]
<1>0. Shapes /\ UsersFirst /\ Local(i)
  BY StartupInvParts
<1>1. tx[i] = On(i) /\ tx[i] # None
  BY <1>0 DEF Local, TxInv
<1>2. tx[i] \in Table /\ tables \subseteq Table
  BY <1>0, <1>1 DEF Shapes
<1>3. ~made[i] => tx[i] \in tables
  BY <1>0 DEF Local, TxInv
<1>4. made[i] /\ tx[i] = "devices" => "users" \in tables
  BY <1>0 DEF Local, TxInv
<1>5. Head(todo[i]) = [op |-> "commit", on |-> On(i)]
  <2>1. Head(todo[i]) \in Calls
    BY <1>0, ProgramTail DEF Local, TxInv, At
  <2> QED
    BY <2>1 DEF Calls, At, On
<1> QED
  BY <1>0, <1>1, <1>2, <1>3, <1>4, <1>5 DEF UsersFirst, Table

\* The transaction is committed and its lock released.
LEMMA CommitStep ==
  ASSUME NEW i \in Instance, StartupInv, Commit(i)
  PROVE  Stepped(i)
<1>0. Shapes /\ UsersFirst /\ LocksHeld /\ Local(i)
  BY StartupInvParts
<1>1. phase[i] = "starting" /\ Head(todo[i]).op = "commit" /\ At(i, "commit")
  BY DEF Commit, At
<1>b. /\ tables \subseteq tables' /\ tables' \subseteq Table /\ On(i) \in tables' /\ UsersFirst'
      /\ Head(todo[i]) = [op |-> "commit", on |-> On(i)]
  BY <1>1, CommitTables DEF Commit, UsersFirst
<1>2. /\ Advanced(i) /\ todo' \in [Instance -> Seq(Calls)] /\ phase' \in [Instance -> Phase]
      /\ \A j \in Instance \ {i} : todo'[j] = todo[j] /\ phase'[j] = phase[j]
  BY <1>0, <1>1, <1>b, ProceedAdvances DEF Commit
<1>3. /\ made' \in [Instance -> BOOLEAN] /\ made'[i] = FALSE
      /\ tx' \in [Instance -> Table \cup {None}] /\ tx'[i] = None
      /\ \A j \in Instance \ {i} : made'[j] = made[j] /\ tx'[j] = tx[j]
  BY <1>0 DEF Shapes, Commit
<1>4. Shapes' /\ Frame(i)
  BY <1>0, <1>2, <1>3, <1>b DEF Shapes, Frame, Commit, filevars
<1>5. LocksHeld'
  BY <1>0, <1>3, LocksKept
<1>6. ~At(i, "commit")' /\ ~At(i, "create")' /\ Program(cfg', todo'[i])
  BY <1>1, <1>2, AtNext DEF Advanced, Pair
<1>7. TxInv(i)'
  BY <1>3, <1>6 DEF TxInv
<1>8. SchemaInv(i)'
  <2>1. /\ Head(todo[i]) \in {[op |-> "commit", on |-> "users"], [op |-> "probe", on |-> "users"]}
            => "users" \in tables'
        /\ Head(todo[i]) = [op |-> "commit", on |-> "devices"] => "devices" \in tables'
    BY <1>b
  <2> QED
    BY <1>0, <1>2, <2>1, SchemaKept
<1>9. SocketInv(i)' /\ CloserInv(i)'
  BY <1>0, <1>1, <1>2, SocketKept, CloserKept DEF Commit, filevars, FileOp
<1>10. (phase'[i] = "starting") <=> (todo'[i] # <<>>)
  BY <1>2 DEF Advanced
<1> QED
  BY <1>3, <1>4, <1>5, <1>6, <1>7, <1>8, <1>9, <1>10, <1>b DEF Stepped, Local

\* A call that leaves everything but the program, or the deadline of the discovery.
LEMMA QuietStep ==
  ASSUME NEW i \in Instance, StartupInv, phase[i] = "starting", todo[i] # <<>>, Proceed(i),
         Head(todo[i]).op \in {"probe", "call", "discover"},
         Head(todo[i]).op = "probe" => On(i) \in tables,
         expired' \in [Instance -> BOOLEAN], \A j \in Instance \ {i} : expired'[j] = expired[j],
         UNCHANGED <<env, dbvars, waits, filevars, closers, busy, starts, faulty>>
  PROVE  Stepped(i)
<1>0. Shapes /\ UsersFirst /\ LocksHeld /\ Local(i)
  BY StartupInvParts
<1>1. /\ Advanced(i) /\ todo' \in [Instance -> Seq(Calls)] /\ phase' \in [Instance -> Phase]
      /\ \A j \in Instance \ {i} : todo'[j] = todo[j] /\ phase'[j] = phase[j]
  BY <1>0, ProceedAdvances DEF dbvars
<1>2. Shapes' /\ UsersFirst' /\ LocksHeld' /\ Frame(i)
  BY <1>0, <1>1 DEF Shapes, UsersFirst, LocksHeld, Frame, dbvars, filevars
<1>3. /\ TxInv(i)'
      /\ (tx'[i] # None) <=> (At(i, "create")' \/ At(i, "commit")')
      /\ made'[i] => At(i, "commit")'
  BY <1>0, <1>1, TxKept DEF dbvars, DbOp
<1>4. SchemaInv(i)'
  <2>1. /\ Head(todo[i]) \in {[op |-> "commit", on |-> "users"], [op |-> "probe", on |-> "users"]}
            => "users" \in tables'
        /\ Head(todo[i]) = [op |-> "commit", on |-> "devices"] => "devices" \in tables'
    BY DEF On, dbvars
  <2> QED
    BY <1>0, <1>1, <2>1, SchemaKept
<1>5. SocketInv(i)' /\ CloserInv(i)'
  BY <1>0, <1>1, SocketKept, CloserKept DEF filevars, FileOp
<1>6. (phase'[i] = "starting") <=> (todo'[i] # <<>>)
  BY <1>1 DEF Advanced
<1>7. Local(i)'
  BY <1>3, <1>4, <1>5, <1>6, Zenon DEF Local
<1> QED
  BY <1>2, <1>7 DEF Stepped

\* A resource is opened: it is registered, and the last one is the server.
LEMMA OpenStep ==
  ASSUME NEW i \in Instance, StartupInv, Open(i)
  PROVE  Stepped(i)
<1>0. Shapes /\ UsersFirst /\ LocksHeld /\ Local(i)
  BY StartupInvParts
<1>1. phase[i] = "starting" /\ Head(todo[i]).op = "open"
  BY DEF Open, At
<1>2. /\ Advanced(i) /\ todo' \in [Instance -> Seq(Calls)] /\ phase' \in [Instance -> Phase]
      /\ \A j \in Instance \ {i} : todo'[j] = todo[j] /\ phase'[j] = phase[j]
  BY <1>0, <1>1, ProceedAdvances DEF Open, dbvars
<1> DEFINE Names == {a.on : a \in Calls}
           old == closers[i]
           new == Append(old, On(i))
<1>3. On(i) \in Names /\ old \in Seq(Names)
  BY <1>0, <1>2 DEF Advanced, On, Shapes
<1> HIDE DEF Names
<1>4. /\ new \in Seq(Names) /\ Len(old) \in Nat /\ Len(new) = Len(old) + 1
      /\ new[Len(old) + 1] = On(i) /\ \A k \in 1..Len(old) : new[k] = old[k]
  BY <1>3, AppendProperties, LenProperties
<1>5. /\ closers' \in [Instance -> Seq(Names)] /\ closers'[i] = new
      /\ \A j \in Instance \ {i} : closers'[j] = closers[j]
  <2>1. closers \in [Instance -> Seq(Names)] /\ closers' = [closers EXCEPT ![i] = new]
    BY <1>0 DEF Shapes, Names, Open
  <2> HIDE DEF new
  <2> QED
    BY <1>4, <2>1
<1>6. Shapes' /\ UsersFirst' /\ LocksHeld' /\ Frame(i)
  <2> HIDE DEF new
  <2> QED
    BY <1>0, <1>2, <1>5 DEF Shapes, UsersFirst, LocksHeld, Frame, dbvars, filevars, Open, Names
<1>7. \A x : Opened(i, x) \/ x = On(i) => Opened(i, x)'
  <2> HIDE DEF new
  <2> TAKE x
  <2>1. ASSUME Opened(i, x) PROVE Opened(i, x)'
    <3>1. PICK k \in 1..Len(old) : old[k] = x
      BY <2>1 DEF Opened
    <3>2. k \in 1..Len(new) /\ new[k] = x
      BY <1>4, <3>1
    <3> QED
      BY <1>5, <3>2 DEF Opened
  <2>2. ASSUME x = On(i) PROVE Opened(i, x)'
    <3>1. Len(new) \in 1..Len(new) /\ new[Len(new)] = x
      BY <1>4, <2>2
    <3> QED
      BY <1>5, <3>1 DEF Opened
  <2> QED
    BY <2>1, <2>2
<1>8. ASSUME NEW x \in Needed(cfg) PROVE Pending(i, "open", x)' \/ Opened(i, x)'
  <2>1. Pending(i, "open", x) \/ Opened(i, x)
    BY <1>0, <1>1 DEF Local, CloserInv
  <2>2. Pending(i, "open", x) => Head(todo[i]) = [op |-> "open", on |-> x] \/ Pending(i, "open", x)'
    BY <1>2 DEF Advanced
  <2>3. Head(todo[i]) = [op |-> "open", on |-> x] => x = On(i)
    BY DEF On
  <2> QED
    BY <1>7, <2>1, <2>2, <2>3
<1>9. CloserInv(i)'
  <2>1. busy'[i] = None
    BY <1>0, <1>1 DEF Local, CloserInv, Open
  <2>2. cfg' = cfg /\ phase'[i] \in {"starting", "serving"}
    BY <1>2 DEF Advanced
  <2>3. CASE phase'[i] = "starting"
    BY <1>8, <2>1, <2>2, <2>3 DEF CloserInv
  <2>4. CASE phase'[i] = "serving"
    <3>1. Head(todo[i]) = [op |-> "open", on |-> "server"] /\ todo'[i] = <<>>
      BY <1>2, <2>4 DEF Advanced
    <3>2. On(i) = "server"
      BY <3>1 DEF On
    <3>3. \A x : ~Pending(i, "open", x)'
      BY <3>1 DEF Pending
    <3>4. closers'[i] # <<>> /\ Last(closers'[i]) = "server"
      <4> HIDE DEF new
      <4>1. new # <<>>
        BY <1>4, EmptySeq
      <4> QED
        BY <1>4, <1>5, <3>2, <4>1 DEF Last
    <3> QED
      BY <1>8, <2>1, <2>2, <2>4, <3>3, <3>4 DEF CloserInv
  <2> QED
    BY <2>2, <2>3, <2>4
<1>10. /\ TxInv(i)'
       /\ (tx'[i] # None) <=> (At(i, "create")' \/ At(i, "commit")')
       /\ made'[i] => At(i, "commit")'
  BY <1>0, <1>1, <1>2, TxKept DEF dbvars, DbOp, Open
<1>11. SchemaInv(i)'
  BY <1>0, <1>1, <1>2, SchemaKept
<1>12. SocketInv(i)'
  BY <1>0, <1>1, <1>2, SocketKept DEF filevars, FileOp, Open
<1>13. (phase'[i] = "starting") <=> (todo'[i] # <<>>)
  BY <1>2 DEF Advanced
<1>14. Local(i)'
  BY <1>9, <1>10, <1>11, <1>12, <1>13, Zenon DEF Local
<1> QED
  BY <1>6, <1>14 DEF Stepped

\* A step on the socket files that leaves them as the invariant says.
LEMMA FileStep ==
  ASSUME NEW i \in Instance, StartupInv, phase[i] = "starting", todo[i] # <<>>, Proceed(i),
         Head(todo[i]).op \in FileOp,
         temp' \in [Instance -> File], after' \in [Instance -> File],
         \A j \in Instance \ {i} : temp'[j] = temp[j] /\ after'[j] = after[j],
         UNCHANGED <<env, dbvars, waits, expired, closers, busy, starts, faulty>>,
         Advanced(i) => SocketInv(i)'
  PROVE  Stepped(i)
<1>0. Shapes /\ UsersFirst /\ LocksHeld /\ Local(i)
  BY StartupInvParts
<1>1. /\ Advanced(i) /\ todo' \in [Instance -> Seq(Calls)] /\ phase' \in [Instance -> Phase]
      /\ \A j \in Instance \ {i} : todo'[j] = todo[j] /\ phase'[j] = phase[j]
  BY <1>0, ProceedAdvances DEF dbvars
<1>2. Shapes' /\ UsersFirst' /\ LocksHeld' /\ Frame(i)
  BY <1>0, <1>1 DEF Shapes, UsersFirst, LocksHeld, Frame, dbvars
<1>3. /\ TxInv(i)'
      /\ (tx'[i] # None) <=> (At(i, "create")' \/ At(i, "commit")')
      /\ made'[i] => At(i, "commit")'
  BY <1>0, <1>1, TxKept DEF dbvars, DbOp, FileOp
<1>4. SchemaInv(i)'
  BY <1>0, <1>1, SchemaKept DEF FileOp
<1>5. CloserInv(i)'
  BY <1>0, <1>1, CloserKept DEF FileOp
<1>6. (phase'[i] = "starting") <=> (todo'[i] # <<>>)
  BY <1>1 DEF Advanced
<1>7. Local(i)'
  BY <1>1, <1>3, <1>4, <1>5, <1>6, Zenon DEF Local
<1> QED
  BY <1>2, <1>7 DEF Stepped

\* What is left at the two paths is removed before the socket is bound.
LEMMA UnlinkStep ==
  ASSUME NEW i \in Instance, StartupInv, Unlink(i)
  PROVE  Stepped(i)
<1>0. Shapes /\ Local(i)
  BY StartupInvParts
<1>1. phase[i] = "starting" /\ todo[i] # <<>> /\ Head(todo[i]).op = "remove"
  BY DEF Unlink, At
<1>2. /\ temp' \in [Instance -> File] /\ after' \in [Instance -> File]
      /\ \A j \in Instance \ {i} : temp'[j] = temp[j] /\ after'[j] = after[j]
      /\ temp'[i] = IF On(i) = "temp" THEN "absent" ELSE temp[i]
      /\ after'[i] = IF On(i) = "after" THEN "absent" ELSE after[i]
  BY <1>0 DEF Shapes, Unlink, File
<1>3. ASSUME Advanced(i) PROVE SocketInv(i)'
  <2>1. Pending(i, "rename", "temp")' /\ On(i) \in {"temp", "after"}
    BY <1>1, <1>3 DEF Advanced, Allowed, On
  <2>2. On(i) = "after" => temp[i] = "absent"
    BY <1>0, <1>1 DEF Local, SocketInv, At
  <2>3. after'[i] # "private" /\ temp'[i] = "absent"
    BY <1>0, <1>2, <2>1, <2>2 DEF Local, SocketInv
  <2>4. ~At(i, "rename")'
    BY <1>1, <1>3, AtNext DEF Advanced, Pair
  <2> QED
    BY <2>1, <2>3, <2>4 DEF SocketInv
<1> QED
  BY <1>1, <1>2, <1>3, FileStep DEF Unlink, FileOp

\* The socket is bound at the temporary path.
LEMMA BindStep ==
  ASSUME NEW i \in Instance, StartupInv, Bind(i)
  PROVE  Stepped(i) /\ temp[i] = "absent"
<1>0. Shapes /\ Local(i)
  BY StartupInvParts
<1>1. phase[i] = "starting" /\ todo[i] # <<>> /\ Head(todo[i]).op = "bind" /\ At(i, "bind")
  BY DEF Bind, At
<1>2. temp[i] = "absent"
  BY <1>0, <1>1 DEF Local, SocketInv
<1>3. /\ temp' = [temp EXCEPT ![i] = "private"] /\ Proceed(i)
      /\ UNCHANGED <<tx, made, waits, expired, closers, busy, env, tables, after, starts, faulty>>
  BY <1>2 DEF Bind
<1>4. /\ temp' \in [Instance -> File] /\ after' \in [Instance -> File] /\ after'[i] = after[i]
      /\ \A j \in Instance \ {i} : temp'[j] = temp[j] /\ after'[j] = after[j]
  BY <1>0, <1>3 DEF Shapes, File
<1>5. ASSUME Advanced(i) PROVE SocketInv(i)'
  <2>1. Pending(i, "rename", "temp")' /\ after'[i] # "private"
    BY <1>0, <1>1, <1>4, <1>5 DEF Advanced, Local, SocketInv
  <2>2. ~At(i, "rename")' /\ ~At(i, "bind")' /\ ~(At(i, "remove")' /\ On(i)' = "after")
    BY <1>1, <1>5, AtNext DEF Advanced, Pair
  <2> QED
    BY <2>1, <2>2 DEF SocketInv
<1> QED
  BY <1>1, <1>2, <1>3, <1>4, <1>5, FileStep DEF FileOp, dbvars

\* Every user may connect to it.
LEMMA ChmodStep ==
  ASSUME NEW i \in Instance, StartupInv, Chmod(i)
  PROVE  Stepped(i)
<1>0. Shapes /\ Local(i)
  BY StartupInvParts
<1>1. phase[i] = "starting" /\ todo[i] # <<>> /\ Head(todo[i]).op = "chmod"
  BY DEF Chmod, At
<1>2. /\ temp' \in [Instance -> File] /\ after' \in [Instance -> File] /\ after'[i] = after[i]
      /\ \A j \in Instance \ {i} : temp'[j] = temp[j] /\ after'[j] = after[j]
      /\ temp'[i] = "open"
  BY <1>0 DEF Shapes, File, Chmod
<1>3. ASSUME Advanced(i) PROVE SocketInv(i)'
  <2>1. Pending(i, "rename", "temp")' /\ after'[i] # "private"
    BY <1>0, <1>1, <1>2, <1>3 DEF Advanced, Local, SocketInv
  <2>2. ~At(i, "bind")' /\ ~(At(i, "remove")' /\ On(i)' = "after")
    BY <1>1, <1>3, AtNext DEF Advanced, Pair
  <2> QED
    BY <1>2, <2>1, <2>2 DEF SocketInv
<1> QED
  BY <1>1, <1>2, <1>3, FileStep DEF FileOp, Chmod

\* Only then does it get its configured name.
LEMMA RenameStep ==
  ASSUME NEW i \in Instance, StartupInv, Rename(i)
  PROVE  Stepped(i)
<1>0. Shapes /\ Local(i)
  BY StartupInvParts
<1>1. phase[i] = "starting" /\ todo[i] # <<>> /\ Head(todo[i]).op = "rename" /\ At(i, "rename")
  BY DEF Rename, At
<1>2. /\ temp' \in [Instance -> File] /\ after' \in [Instance -> File]
      /\ \A j \in Instance \ {i} : temp'[j] = temp[j] /\ after'[j] = after[j]
      /\ temp'[i] = "absent" /\ after'[i] = temp[i]
  BY <1>0 DEF Shapes, File, Rename
<1>3. ASSUME Advanced(i) PROVE SocketInv(i)'
  <2>1. after'[i] = "open"
    BY <1>0, <1>1, <1>2 DEF Local, SocketInv
  <2>2. ~At(i, "rename")'
    BY <1>1, <1>3, AtNext DEF Advanced, Pair
  <2> QED
    BY <1>2, <2>1, <2>2 DEF SocketInv
<1> QED
  BY <1>1, <1>2, <1>3, FileStep DEF FileOp, Rename

\* A process ends: what it leaves behind is within the invariant.
LEMMA GoneStep ==
  ASSUME NEW i \in Instance, StartupInv, NEW p \in {"off", "failed", "stopped"}, Gone(i, p),
         env' = env, tables \subseteq tables', tables' \subseteq Table, UsersFirst',
         temp' \in [Instance -> File], after' \in [Instance -> File], after'[i] # "private",
         \A j \in Instance \ {i} : temp'[j] = temp[j] /\ after'[j] = after[j],
         faulty' \in [Instance -> BOOLEAN], starts' = starts
  PROVE  Stepped(i)
<1>0. Shapes /\ LocksHeld
  BY StartupInvParts
<1>1. Local(i)'
  BY <1>0, GoneLocal
<1>2. /\ phase' \in [Instance -> Phase] /\ todo' \in [Instance -> Seq(Calls)]
      /\ closers' \in [Instance -> Seq({a.on : a \in Calls})]
      /\ tx' \in [Instance -> Table \cup {None}] /\ made' \in [Instance -> BOOLEAN]
      /\ waits' \in [Instance -> BOOLEAN] /\ expired' \in [Instance -> BOOLEAN]
      /\ busy' \in [Instance -> {None, "health", "verify", "refresh", "login"}]
      /\ tx'[i] = None
      /\ \A j \in Instance \ {i} :
            /\ phase'[j] = phase[j] /\ todo'[j] = todo[j] /\ tx'[j] = tx[j]
            /\ made'[j] = made[j] /\ closers'[j] = closers[j] /\ busy'[j] = busy[j]
            /\ expired'[j] = expired[j]
  BY <1>0, GoneShapes
<1>3. Shapes' /\ Frame(i)
  BY <1>0, <1>2 DEF Shapes, Frame
<1>4. LocksHeld'
  BY <1>0, <1>2, LocksKept
<1> QED
  BY <1>1, <1>3, <1>4 DEF Stepped

\* A process that is gone and has touched neither the tables nor the files.
LEMMA QuietlyGone ==
  ASSUME NEW i \in Instance, StartupInv, NEW p \in {"off", "failed", "stopped"}, Gone(i, p),
         UNCHANGED <<env, tables, filevars, starts>>, faulty' \in [Instance -> BOOLEAN]
  PROVE  Stepped(i)
<1>0. Shapes /\ UsersFirst /\ Local(i)
  BY StartupInvParts
<1>1. /\ tables' \subseteq Table /\ UsersFirst' /\ tables \subseteq tables'
      /\ temp' \in [Instance -> File] /\ after' \in [Instance -> File] /\ after'[i] # "private"
      /\ \A j \in Instance \ {i} : temp'[j] = temp[j] /\ after'[j] = after[j]
  BY <1>0 DEF Shapes, UsersFirst, filevars, Local, SocketInv
<1> QED
  BY <1>1, GoneStep

\* The other ways a call, and a process, end.
LEMMA FailSteps ==
  ASSUME NEW i \in Instance, StartupInv, CallFails(i) \/ Crash(i)
  PROVE  Stepped(i)
<1>0. Shapes /\ UsersFirst /\ Local(i)
  BY StartupInvParts
<1>1. CASE CallFails(i)
  <2>1. tables \subseteq tables' /\ tables' \subseteq Table /\ UsersFirst'
    <3>1. CASE tables' = tables
      BY <1>0, <3>1 DEF Shapes, UsersFirst
    <3>2. CASE At(i, "commit") /\ made[i] /\ tables' = tables \cup {tx[i]}
      BY <3>2, CommitTables DEF UsersFirst
    <3> QED
      BY <1>1, <3>1, <3>2 DEF CallFails
  <2>2. /\ temp' \in [Instance -> File] /\ after' \in [Instance -> File] /\ after'[i] # "private"
        /\ \A j \in Instance \ {i} : temp'[j] = temp[j] /\ after'[j] = after[j]
    BY <1>0, <1>1 DEF Shapes, File, CallFails, Local, SocketInv
  <2>3. faulty' \in [Instance -> BOOLEAN]
    BY <1>0, <1>1 DEF Shapes, CallFails
  <2> QED
    BY <1>1, <2>1, <2>2, <2>3, GoneStep DEF CallFails
<1>2. CASE Crash(i)
  <2>1. /\ temp' \in [Instance -> File] /\ after' \in [Instance -> File] /\ after'[i] # "private"
        /\ \A j \in Instance \ {i} : temp'[j] = temp[j] /\ after'[j] = after[j]
    BY <1>0, <1>2 DEF Shapes, File, Crash, Left
  <2>2. tables' \subseteq Table /\ UsersFirst' /\ tables \subseteq tables'
        /\ faulty' \in [Instance -> BOOLEAN]
    BY <1>0, <1>2 DEF Shapes, UsersFirst, Crash
  <2> QED
    BY <1>2, <2>1, <2>2, GoneStep DEF Crash
<1> QED
  BY <1>1, <1>2

\* A step that leaves the program, the tables and the files alone.
LEMMA StillStep ==
  ASSUME NEW i \in Instance, StartupInv, UNCHANGED <<env, dbvars, phase, todo, filevars, starts>>,
         waits' \in [Instance -> BOOLEAN], expired' \in [Instance -> BOOLEAN],
         faulty' \in [Instance -> BOOLEAN],
         closers' \in [Instance -> Seq({a.on : a \in Calls})],
         busy' \in [Instance -> {None, "health", "verify", "refresh", "login"}],
         \A j \in Instance \ {i} :
            closers'[j] = closers[j] /\ busy'[j] = busy[j] /\ expired'[j] = expired[j],
         CloserInv(i)'
  PROVE  Stepped(i)
<1>0. Shapes /\ UsersFirst /\ LocksHeld /\ Local(i)
  BY StartupInvParts
<1>1. Shapes' /\ UsersFirst' /\ LocksHeld' /\ Frame(i)
  BY <1>0 DEF Shapes, UsersFirst, LocksHeld, Frame, dbvars, filevars
<1>2. /\ cfg' = cfg /\ tables' = tables /\ phase'[i] = phase[i] /\ todo'[i] = todo[i]
      /\ tx'[i] = tx[i] /\ made'[i] = made[i] /\ temp'[i] = temp[i] /\ after'[i] = after[i]
  BY SameConfig DEF dbvars, filevars
<1>3. \A op : At(i, op)' <=> At(i, op)
  BY <1>2 DEF At
<1>4. On(i)' = On(i)
  BY <1>2 DEF On
<1>5. \A op, on : Pending(i, op, on)' <=> Pending(i, op, on)
  BY <1>2 DEF Pending
<1>6. TxInv(i)'
  BY <1>0, <1>2, <1>3, <1>4 DEF Local, TxInv
<1>7. SchemaInv(i)'
  BY <1>0, <1>2, <1>5 DEF Local, SchemaInv
<1>8. SocketInv(i)'
  BY <1>0, <1>2, <1>3, <1>4, <1>5 DEF Local, SocketInv
<1>9. /\ (phase'[i] = "starting") <=> (todo'[i] # <<>>)
      /\ (tx'[i] # None) <=> (At(i, "create")' \/ At(i, "commit")')
      /\ made'[i] => At(i, "commit")'
  BY <1>0, <1>2, <1>3 DEF Local
<1>10. Local(i)'
  BY <1>6, <1>7, <1>8, <1>9, Zenon DEF Local
<1> QED
  BY <1>1, <1>10 DEF Stepped

\* The retries of the discovery, and its deadline.
LEMMA DiscoverySteps ==
  ASSUME NEW i \in Instance, StartupInv, Retryable(i) \/ Backoff(i) \/ DiscoveryDeadline(i)
  PROVE  Stepped(i)
<1>0. Shapes /\ Local(i)
  BY StartupInvParts
<1>1. /\ UNCHANGED <<env, dbvars, phase, todo, filevars, starts, closers, busy>>
      /\ phase[i] = "starting"
  BY DEF Retryable, Backoff, DiscoveryDeadline, At
<1>2. /\ waits' \in [Instance -> BOOLEAN] /\ expired' \in [Instance -> BOOLEAN]
      /\ faulty' \in [Instance -> BOOLEAN]
      /\ \A j \in Instance \ {i} : expired'[j] = expired[j]
  BY <1>0 DEF Shapes, Retryable, Backoff, DiscoveryDeadline
<1>3. CloserInv(i)'
  <2>1. /\ cfg' = cfg /\ \A x : Opened(i, x)' <=> Opened(i, x)
        /\ \A op, on : Pending(i, op, on)' <=> Pending(i, op, on)
    BY <1>1, SameConfig DEF Opened, Pending
  <2> QED
    BY <1>0, <1>1, <2>1 DEF Local, CloserInv
<1>4. /\ closers' \in [Instance -> Seq({a.on : a \in Calls})]
      /\ busy' \in [Instance -> {None, "health", "verify", "refresh", "login"}]
      /\ \A j \in Instance \ {i} : closers'[j] = closers[j] /\ busy'[j] = busy[j]
  BY <1>0, <1>1 DEF Shapes
<1> QED
  BY <1>1, <1>2, <1>3, <1>4, StillStep

\* A request comes or is answered, and the deadline of Shutdown passes.
LEMMA RequestSteps ==
  ASSUME NEW i \in Instance, StartupInv, Request(i) \/ Answered(i) \/ ShutdownDeadline(i)
  PROVE  Stepped(i)
<1>0. Shapes /\ Local(i)
  BY StartupInvParts
<1>1. UNCHANGED <<env, dbvars, phase, todo, filevars, starts, closers, waits, faulty>>
  BY DEF Request, Answered, ShutdownDeadline
<1>2. /\ waits' \in [Instance -> BOOLEAN] /\ faulty' \in [Instance -> BOOLEAN]
      /\ closers' \in [Instance -> Seq({a.on : a \in Calls})]
      /\ \A j \in Instance \ {i} : closers'[j] = closers[j]
  BY <1>0, <1>1 DEF Shapes
<1>3. /\ cfg' = cfg /\ \A x : Opened(i, x)' <=> Opened(i, x)
      /\ \A op, on : Pending(i, op, on)' <=> Pending(i, op, on)
  BY <1>1, SameConfig DEF Opened, Pending
<1>4. CASE Request(i)
  <2>1. PICK r \in Routes(cfg) : busy' = [busy EXCEPT ![i] = r]
    BY <1>4 DEF Request
  <2>2. r \in {"health", "verify", "refresh", "login"}
    BY DEF Routes
  <2>3. /\ busy' \in [Instance -> {None, "health", "verify", "refresh", "login"}]
        /\ \A j \in Instance \ {i} : busy'[j] = busy[j]
    BY <1>0, <2>1, <2>2 DEF Shapes
  <2>4. expired' = expired /\ phase[i] = "serving" /\ expired' \in [Instance -> BOOLEAN]
    BY <1>0, <1>4 DEF Request, Shapes
  <2>5. CloserInv(i)'
    BY <1>0, <1>1, <1>3, <2>4 DEF Local, CloserInv
  <2> QED
    BY <1>1, <1>2, <2>3, <2>4, <2>5, StillStep
<1>5. CASE Answered(i)
  <2>1. /\ busy' \in [Instance -> {None, "health", "verify", "refresh", "login"}]
        /\ busy'[i] = None /\ \A j \in Instance \ {i} : busy'[j] = busy[j]
    BY <1>0, <1>5 DEF Shapes, Answered
  <2>2. expired' = expired /\ expired' \in [Instance -> BOOLEAN]
    BY <1>0, <1>5 DEF Answered, Shapes
  <2>3. CloserInv(i)'
    BY <1>0, <1>1, <1>3, <2>1, <2>2 DEF Local, CloserInv
  <2> QED
    BY <1>1, <1>2, <2>1, <2>2, <2>3, StillStep
<1>6. CASE ShutdownDeadline(i)
  <2>1. /\ expired' \in [Instance -> BOOLEAN] /\ expired'[i] = TRUE
        /\ \A j \in Instance \ {i} : expired'[j] = expired[j]
    BY <1>0, <1>6 DEF Shapes, ShutdownDeadline
  <2>2. /\ busy' = busy /\ phase[i] = "closing"
        /\ busy' \in [Instance -> {None, "health", "verify", "refresh", "login"}]
    BY <1>0, <1>6 DEF ShutdownDeadline, Shapes
  <2>3. CloserInv(i)'
    BY <1>0, <1>1, <1>3, <2>1, <2>2 DEF Local, CloserInv
  <2> QED
    BY <1>1, <1>2, <2>1, <2>2, <2>3, StillStep
<1> QED
  BY <1>4, <1>5, <1>6

\* A handler of the exit runs.  While a request is served and the deadline has not
\* passed, Shutdown is the last one left in the list, and waits.
LEMMA CloseStep ==
  ASSUME NEW i \in Instance, StartupInv, Close(i)
  PROVE  Stepped(i)
<1>0. Shapes /\ Local(i)
  BY StartupInvParts
<1>1. CASE Len(closers[i]) = 1
  <2>1. Gone(i, "stopped") /\ UNCHANGED <<env, tables, filevars, starts, faulty>>
    BY <1>1 DEF Close
  <2> QED
    BY <1>0, <2>1, QuietlyGone DEF Shapes
<1>2. CASE Len(closers[i]) # 1
  <2> DEFINE Names == {a.on : a \in Calls}
             old == closers[i]
             new == Front(old)
  <2>1. /\ closers' = [closers EXCEPT ![i] = new] /\ phase[i] = "closing"
        /\ UNCHANGED <<phase, todo, tx, made, waits, expired, busy, env, tables, filevars,
                       starts, faulty>>
        /\ Last(old) = "server" => busy[i] = None \/ expired[i]
    BY <1>2 DEF Close, ShutdownDone
  <2>2. closers \in [Instance -> Seq(Names)] /\ old # <<>>
    BY <1>0, <2>1 DEF Shapes, Local, CloserInv
  <2> HIDE DEF Names
  <2>3. old \in Seq(Names) /\ Len(old) \in Nat /\ Len(old) > 1
    <3>1. old \in Seq(Names)
      BY <2>2
    <3>2. Len(old) # 1 /\ old # <<>>
      BY <1>2, <2>2
    <3> HIDE DEF old
    <3>3. Len(old) \in Nat /\ Len(old) # 0
      BY <3>1, <3>2, EmptySeq, LenProperties
    <3>4. \A n \in Nat : n # 0 /\ n # 1 => n > 1
      OBVIOUS
    <3>5. Len(old) > 1
      BY <3>2, <3>3, <3>4
    <3> QED
      BY <3>1, <3>3, <3>5
  <2> HIDE DEF old
  <2>4. new \in Seq(Names) /\ Len(new) = Len(old) - 1
    BY <2>3, SubSeqProperties DEF Front
  <2>5. new # <<>>
    BY <2>3, <2>4, EmptySeq
  <2> HIDE DEF new
  <2>6. /\ closers' \in [Instance -> Seq(Names)] /\ closers'[i] = new
        /\ \A j \in Instance \ {i} : closers'[j] = closers[j]
    BY <2>1, <2>2, <2>4
  <2>7. ~(busy[i] # None /\ ~expired[i])
    BY <1>0, <2>1 DEF Local, CloserInv, old
  <2>8. CloserInv(i)'
    <3>1. phase'[i] = "closing" /\ closers'[i] # <<>> /\ ~(busy'[i] # None /\ ~expired'[i])
      BY <2>1, <2>5, <2>6, <2>7
    <3> QED
      BY <3>1 DEF CloserInv
  <2>9. /\ waits' \in [Instance -> BOOLEAN] /\ expired' \in [Instance -> BOOLEAN]
        /\ faulty' \in [Instance -> BOOLEAN]
        /\ busy' \in [Instance -> {None, "health", "verify", "refresh", "login"}]
        /\ \A j \in Instance \ {i} : busy'[j] = busy[j] /\ expired'[j] = expired[j]
    BY <1>0, <2>1 DEF Shapes
  <2>10. UNCHANGED <<env, dbvars, phase, todo, filevars, starts>>
    BY <2>1 DEF dbvars
  <2> QED
    BY <2>6, <2>8, <2>9, <2>10, StillStep DEF Names
<1> QED
  BY <1>1, <1>2

\* The exit begins: the listener is closed.
LEMMA ExitStep ==
  ASSUME NEW i \in Instance, StartupInv, Exit(i)
  PROVE  Stepped(i)
<1>0. Shapes /\ UsersFirst /\ LocksHeld /\ Local(i)
  BY StartupInvParts
<1>1. /\ phase' \in [Instance -> Phase] /\ phase'[i] = "closing" /\ phase[i] = "serving"
      /\ temp' \in [Instance -> File] /\ after' \in [Instance -> File] /\ after'[i] # "private"
      /\ \A j \in Instance \ {i} :
            phase'[j] = phase[j] /\ temp'[j] = temp[j] /\ after'[j] = after[j]
  BY <1>0 DEF Shapes, Phase, File, Exit, Left
<1>2. UNCHANGED <<env, dbvars, todo, waits, expired, closers, busy, starts, faulty>>
  BY DEF Exit
<1>3. Shapes' /\ UsersFirst' /\ LocksHeld' /\ Frame(i)
  BY <1>0, <1>1, <1>2 DEF Shapes, UsersFirst, LocksHeld, Frame, dbvars
<1>4. /\ \A op : ~At(i, op) /\ ~At(i, op)'
      /\ cfg' = cfg /\ \A x : Opened(i, x)' <=> Opened(i, x)
  BY <1>1, <1>2, SameConfig DEF At, Opened
<1>5. tx[i] = None /\ ~made[i] /\ todo[i] = <<>>
  BY <1>0, <1>1, <1>4 DEF Local
<1>6. TxInv(i)'
  BY <1>0, <1>2, <1>4, <1>5 DEF Local, TxInv, dbvars
<1>7. SchemaInv(i)' /\ SocketInv(i)'
  BY <1>1, <1>4 DEF SchemaInv, SocketInv
<1>8. CloserInv(i)'
  BY <1>0, <1>1, <1>2, <1>4 DEF Local, CloserInv
<1>9. Local(i)'
  BY <1>1, <1>2, <1>4, <1>5, <1>6, <1>7, <1>8 DEF Local, dbvars
<1> QED
  BY <1>3, <1>9 DEF Stepped

\* A start: run begins with everything it has to do.
LEMMA StartStep ==
  ASSUME NEW i \in Instance, StartupInv, Start(i)
  PROVE  Stepped(i)
<1>0. Shapes /\ UsersFirst /\ LocksHeld /\ Local(i)
  BY StartupInvParts
<1>1. /\ phase[i] \in {"off", "failed", "stopped"}
      /\ UNCHANGED <<env, dbvars, filevars, waits, expired, closers, busy>>
      /\ starts' = starts + 1 /\ starts < MaxStarts
      /\ faulty' = [faulty EXCEPT ![i] = FALSE]
  BY DEF Start
<1>2. starts' \in 0..MaxStarts /\ faulty' \in [Instance -> BOOLEAN]
  BY <1>0, <1>1, StartupAssumption DEF Shapes
<1>3. /\ ~At(i, "create") /\ ~At(i, "commit") /\ todo[i] = <<>> /\ tx[i] = None /\ ~made[i]
      /\ busy[i] = None /\ after[i] # "private"
  <2>1. ~At(i, "create") /\ ~At(i, "commit")
    BY <1>1 DEF At
  <2> QED
    BY <1>0, <1>1, <2>1 DEF Local, CloserInv, SocketInv
<1>4. cfg' = cfg
  BY <1>1, SameConfig
<1>5. CASE LoadErrors(env.toggles, env.values) = {}
  <2>1. phase' = [phase EXCEPT ![i] = "starting"] /\ todo' = [todo EXCEPT ![i] = Run(cfg)]
    BY <1>5 DEF Start
  <2>2. /\ Block(cfg, Run(cfg)) /\ Program(cfg, Run(cfg)) /\ Run(cfg) # <<>>
        /\ cfg.db /\ cfg.auto /\ ~cfg.external => Has(Run(cfg), [op |-> "commit", on |-> "users"])
        /\ cfg.db /\ cfg.auto => Has(Run(cfg), [op |-> "commit", on |-> "devices"])
        /\ cfg.db /\ ~cfg.auto /\ ~cfg.external
            => Has(Run(cfg), [op |-> "probe", on |-> "users"])
        /\ cfg.unix => Has(Run(cfg), [op |-> "rename", on |-> "temp"])
        /\ \A x \in Needed(cfg) : Has(Run(cfg), [op |-> "open", on |-> x])
    BY RunShape
  <2>3. Run(cfg) \in Seq(Calls) /\ Head(Run(cfg)) = Run(cfg)[1]
    BY <2>2, ProgramTail DEF Program
  <2>4. /\ phase' \in [Instance -> Phase] /\ phase'[i] = "starting"
        /\ todo' \in [Instance -> Seq(Calls)] /\ todo'[i] = Run(cfg)
        /\ \A j \in Instance \ {i} : phase'[j] = phase[j] /\ todo'[j] = todo[j]
    BY <1>0, <2>1, <2>3 DEF Shapes, Phase
  <2>5. Shapes' /\ UsersFirst' /\ LocksHeld' /\ Frame(i)
    BY <1>0, <1>1, <1>2, <2>4 DEF Shapes, UsersFirst, LocksHeld, Frame, dbvars, filevars
  <2>6. /\ ~At(i, "create")' /\ ~At(i, "commit")' /\ ~At(i, "bind")' /\ ~At(i, "rename")'
        /\ ~(At(i, "remove")' /\ On(i)' = "after")
    BY <2>2, <2>3, <2>4 DEF At, On, Block
  <2>7. \A op, on : Has(Run(cfg), [op |-> op, on |-> on]) => Pending(i, op, on)'
    BY <2>4, PendingHas
  <2>8. TxInv(i)'
    BY <1>1, <1>3, <1>4, <2>2, <2>4, <2>6 DEF TxInv, dbvars
  <2>9. SchemaInv(i)'
    BY <1>4, <2>2, <2>7 DEF SchemaInv
  <2>10. SocketInv(i)'
    BY <1>1, <1>3, <1>4, <2>2, <2>6, <2>7 DEF SocketInv, filevars
  <2>11. CloserInv(i)'
    BY <1>1, <1>3, <1>4, <2>2, <2>4, <2>7 DEF CloserInv
  <2>12. Local(i)'
    BY <1>1, <1>3, <2>2, <2>4, <2>6, <2>8, <2>9, <2>10, <2>11 DEF Local, dbvars
  <2> QED
    BY <2>5, <2>12 DEF Stepped
<1>6. CASE LoadErrors(env.toggles, env.values) # {}
  <2>1. phase' = [phase EXCEPT ![i] = "failed"] /\ todo' = todo
    BY <1>6 DEF Start
  <2>2. /\ phase' \in [Instance -> Phase] /\ phase'[i] = "failed"
        /\ \A j \in Instance \ {i} : phase'[j] = phase[j]
    BY <1>0, <2>1 DEF Shapes, Phase
  <2>3. Shapes' /\ UsersFirst' /\ LocksHeld' /\ Frame(i)
    BY <1>0, <1>1, <1>2, <2>1, <2>2 DEF Shapes, UsersFirst, LocksHeld, Frame, dbvars, filevars
  <2>4. \A op : ~At(i, op)'
    BY <2>2 DEF At
  <2>5. TxInv(i)'
    BY <1>0, <1>1, <1>3, <1>4, <2>1, <2>4 DEF Local, TxInv, dbvars
  <2>6. SchemaInv(i)' /\ SocketInv(i)' /\ CloserInv(i)'
    BY <1>1, <1>3, <2>2, <2>4 DEF SchemaInv, SocketInv, CloserInv, filevars
  <2>7. Local(i)'
    BY <1>1, <1>3, <2>1, <2>2, <2>4, <2>5, <2>6 DEF Local, dbvars
  <2> QED
    BY <2>3, <2>7 DEF Stepped
<1> QED
  BY <1>5, <1>6

\* Every step is one of these.
LEMMA EveryStep ==
  ASSUME NEW i \in Instance, StartupInv,
         \/ Start(i) \/ Progress(i) \/ Deadline(i)
         \/ CallFails(i) \/ Crash(i) \/ Request(i) \/ Answered(i) \/ Exit(i)
  PROVE  Stepped(i)
<1>0. Shapes
  BY StartupInvParts
<1>1. CASE Create(i)
  <2>1. CASE On(i) \in tables \/ Creatable(i, On(i))
    BY <1>1, <2>1, CreateStep
  <2>2. CASE ~(On(i) \in tables \/ Creatable(i, On(i)))
    <3>1. Gone(i, "failed") /\ UNCHANGED <<env, tables, filevars, starts, faulty>>
      BY <1>1, <2>2 DEF Create
    <3> QED
      BY <1>0, <3>1, QuietlyGone DEF Shapes
  <2> QED
    BY <2>1, <2>2
<1>2. CASE Probe(i)
  <2>1. CASE On(i) \in tables
    <3>1. /\ phase[i] = "starting" /\ todo[i] # <<>> /\ Head(todo[i]).op = "probe" /\ Proceed(i)
          /\ UNCHANGED <<env, dbvars, waits, expired, filevars, closers, busy, starts, faulty>>
      BY <1>2, <2>1 DEF Probe, At, dbvars
    <3> QED
      BY <1>0, <2>1, <3>1, QuietStep DEF Shapes
  <2>2. CASE On(i) \notin tables
    <3>1. Gone(i, "failed") /\ UNCHANGED <<env, tables, filevars, starts, faulty>>
      BY <1>2, <2>2 DEF Probe
    <3> QED
      BY <1>0, <3>1, QuietlyGone DEF Shapes
  <2> QED
    BY <2>1, <2>2
<1>3. CASE Call(i)
  <2>1. /\ phase[i] = "starting" /\ todo[i] # <<>> /\ Head(todo[i]).op = "call" /\ Proceed(i)
        /\ UNCHANGED <<env, dbvars, waits, expired, filevars, closers, busy, starts, faulty>>
    BY <1>3 DEF Call, At
  <2> QED
    BY <1>0, <2>1, QuietStep DEF Shapes
<1>4. CASE Discovered(i)
  <2>1. /\ phase[i] = "starting" /\ todo[i] # <<>> /\ Head(todo[i]).op = "discover" /\ Proceed(i)
        /\ UNCHANGED <<env, dbvars, waits, filevars, closers, busy, starts, faulty>>
    BY <1>4 DEF Discovered, At
  <2>2. expired' \in [Instance -> BOOLEAN] /\ \A j \in Instance \ {i} : expired'[j] = expired[j]
    BY <1>0, <1>4 DEF Discovered, Shapes
  <2> QED
    BY <2>1, <2>2, QuietStep
<1>5. CASE DiscoveryFails(i)
  <2>1. /\ Gone(i, "failed") /\ UNCHANGED <<env, tables, filevars, starts>>
        /\ faulty' \in [Instance -> BOOLEAN]
    BY <1>0, <1>5 DEF DiscoveryFails, Shapes
  <2> QED
    BY <2>1, QuietlyGone
<1>6. CASE Lock(i) \/ Commit(i) \/ Open(i) \/ Unlink(i) \/ Bind(i) \/ Chmod(i) \/ Rename(i)
           \/ Close(i)
  BY <1>6, LockStep, CommitStep, OpenStep, UnlinkStep, BindStep, ChmodStep, RenameStep, CloseStep
<1>7. CASE \/ Start(i) \/ Deadline(i) \/ Retryable(i) \/ Backoff(i)
           \/ CallFails(i) \/ Crash(i) \/ Request(i) \/ Answered(i) \/ Exit(i)
  BY <1>7, StartStep, DiscoverySteps, RequestSteps, FailSteps, ExitStep DEF Deadline
<1> QED
  BY <1>1, <1>2, <1>3, <1>4, <1>5, <1>6, <1>7 DEF Progress

\* The invariant holds at first.
LEMMA StartupInvInit == Init => StartupInv
<1> SUFFICES ASSUME Init PROVE StartupInv
  OBVIOUS
<1>1. Shapes
  <2>1. <<>> \in Seq(Calls) /\ <<>> \in Seq({a.on : a \in Calls})
    OBVIOUS
  <2> QED
    BY <2>1, StartupAssumption DEF Init, Shapes, Phase, File
<1>2. UsersFirst
  BY StartupAssumption DEF Init, UsersFirst
<1>3. LocksHeld
  BY DEF Init, LocksHeld
<1>4. ASSUME NEW i \in Instance PROVE Local(i)
  <2>1. /\ phase[i] = "off" /\ todo[i] = <<>> /\ tx[i] = None /\ made[i] = FALSE
        /\ busy[i] = None /\ after[i] = "absent"
    BY DEF Init
  <2>2. \A op : ~At(i, op)
    BY <2>1 DEF At
  <2>3. Program(cfg, <<>>)
    BY DEF Program
  <2>4. TxInv(i)
    BY <2>1, <2>2, <2>3 DEF TxInv
  <2>5. SchemaInv(i) /\ SocketInv(i) /\ CloserInv(i)
    BY <2>1, <2>2 DEF SchemaInv, SocketInv, CloserInv
  <2> QED
    BY <2>1, <2>2, <2>4, <2>5 DEF Local
<1> QED
  BY <1>1, <1>2, <1>3, <1>4, StartupInvParts

\* Every step keeps it.
LEMMA StartupInvNext == StartupInv /\ [Next]_vars => StartupInv'
<1> SUFFICES ASSUME StartupInv, [Next]_vars PROVE StartupInv'
  OBVIOUS
<1>0. \A j \in Instance : Local(j)
  BY StartupInvParts
<1>1. CASE UNCHANGED vars
  <2>1. /\ UNCHANGED <<env, tables, phase, todo, tx, made, waits, expired, temp, after, closers,
                       busy, starts, faulty>>
        /\ cfg' = cfg
    BY <1>1, SameConfig DEF vars
  <2>2. ASSUME NEW i
        PROVE  /\ \A op : At(i, op)' <=> At(i, op)
               /\ On(i)' = On(i)
               /\ \A op, on : Pending(i, op, on)' <=> Pending(i, op, on)
               /\ \A x : Opened(i, x)' <=> Opened(i, x)
    BY <2>1 DEF At, On, Pending, Opened
  <2>3. ASSUME NEW i \in Instance
        PROVE  (TxInv(i) /\ SchemaInv(i) /\ SocketInv(i) /\ CloserInv(i))'
    <3>1. TxInv(i)'
      BY <2>1, <2>2 DEF TxInv, StartupInv
    <3>2. SchemaInv(i)'
      BY <2>1, <2>2 DEF SchemaInv, StartupInv
    <3>3. SocketInv(i)'
      BY <2>1, <2>2 DEF SocketInv, StartupInv
    <3>4. CloserInv(i)'
      BY <2>1, <2>2 DEF CloserInv, StartupInv
    <3> QED
      BY <3>1, <3>2, <3>3, <3>4
  <2>4. StartupTypeOK'
    BY <2>1, <2>2 DEF StartupTypeOK, StartupInv
  <2> QED
    BY <2>1, <2>3, <2>4 DEF StartupInv
<1>2. ASSUME NEW i \in Instance, Stepped(i) PROVE StartupInv'
  <2>1. Shapes' /\ UsersFirst' /\ LocksHeld' /\ Frame(i) /\ Local(i)'
    BY <1>2 DEF Stepped
  <2>2. ASSUME NEW j \in Instance PROVE Local(j)'
    <3>1. CASE j = i
      BY <2>1, <3>1
    <3>2. CASE j # i
      BY <1>0, <2>1, <3>2, OthersKept
    <3> QED
      BY <3>1, <3>2
  <2>3. (Shapes /\ UsersFirst /\ LocksHeld /\ \A j \in Instance : Local(j))'
    BY <2>1, <2>2
  <2>4. (StartupInv <=> Shapes /\ UsersFirst /\ LocksHeld /\ \A j \in Instance : Local(j))'
    BY DEF StartupInv, StartupTypeOK, Shapes, UsersFirst, LocksHeld, Local, Phase
  <2> QED
    BY <2>3, <2>4
<1>3. CASE Next
  <2>1. PICK i \in Instance :
            \/ Start(i) \/ Progress(i) \/ Deadline(i)
            \/ CallFails(i) \/ Crash(i) \/ Request(i) \/ Answered(i) \/ Exit(i)
    BY <1>3 DEF Next
  <2> QED
    BY <1>2, <2>1, EveryStep
<1> QED
  BY <1>1, <1>3

-----------------------------------------------------------------------------
(* Why a start fails.                                                      *)

\* The configuration, or a users table it was told to expect.
Reason ==
    \/ LoadErrors(env.toggles, env.values) # {}
    \/ /\ cfg.db /\ "users" \notin tables
       /\ IF cfg.external THEN cfg.auto \/ cfg.column ELSE ~cfg.auto

\* A process that has failed had failed before, or has a reason.
FailsBy == \A j \in Instance :
    phase'[j] = "failed" /\ ~faulty'[j] => (phase[j] = "failed" /\ ~faulty[j]) \/ Reason

\* A call that is done fails no process.
LEMMA ProceedFailsNone ==
  ASSUME NEW i \in Instance, StartupInv, Proceed(i), faulty' = faulty
  PROVE  FailsBy
<1>1. phase \in [Instance -> Phase]
  BY StartupInvParts DEF Shapes
<1>2. \A j \in Instance : phase'[j] = phase[j] \/ phase'[j] = "serving"
  BY <1>1 DEF Proceed
<1> QED
  BY <1>2 DEF FailsBy

\* Neither does a step that leaves the phases alone.
LEMMA SamePhases ==
  ASSUME StartupInv, phase' = phase,
         faulty' = faulty \/ \E i \in Instance : faulty' = [faulty EXCEPT ![i] = TRUE]
  PROVE  FailsBy
<1>1. faulty \in [Instance -> BOOLEAN]
  BY StartupInvParts DEF Shapes
<1>2. \A j \in Instance : ~faulty'[j] => ~faulty[j]
  BY <1>1
<1> QED
  BY <1>2 DEF FailsBy

\* A process that ends in another way.
LEMMA GoneFailsNone ==
  ASSUME NEW i \in Instance, StartupInv, NEW p, phase' = [phase EXCEPT ![i] = p],
         faulty' = faulty, p = "failed" => Reason
  PROVE  FailsBy
<1>1. phase \in [Instance -> Phase]
  BY StartupInvParts DEF Shapes
<1>2. \A j \in Instance : phase'[j] = phase[j] \/ (j = i /\ phase'[j] = p)
  BY <1>1
<1> QED
  BY <1>2 DEF FailsBy

\* A call that fails in the world outside.
LEMMA FaultyFails ==
  ASSUME NEW i \in Instance, StartupInv, NEW p, phase' = [phase EXCEPT ![i] = p],
         faulty' = [faulty EXCEPT ![i] = TRUE]
  PROVE  FailsBy
<1>1. phase \in [Instance -> Phase] /\ faulty \in [Instance -> BOOLEAN]
  BY StartupInvParts DEF Shapes
<1>2. \A j \in Instance : (j # i => phase'[j] = phase[j] /\ faulty'[j] = faulty[j])
                          /\ (j = i => faulty'[j] = TRUE)
  BY <1>1
<1> QED
  BY <1>2 DEF FailsBy

\* database.go: the table cannot be created only where the users are missing and
\* another program should have made them.
LEMMA CreateFails ==
  ASSUME NEW i \in Instance, StartupInv, At(i, "create"), On(i) \notin tables,
         ~Creatable(i, On(i))
  PROVE  Reason
<1>0. Shapes /\ LocksHeld /\ Local(i)
  BY StartupInvParts
<1>1. phase[i] = "starting" /\ todo[i] # <<>> /\ Head(todo[i]).op = "create"
  BY DEF At
<1>2. tx[i] = On(i) /\ tx[i] # None
  BY <1>0 DEF Local, TxInv
<1>3. \A j \in Instance \ {i} : tx[j] # On(i)
  BY <1>0, <1>2 DEF LocksHeld
<1>4. On(i) = "devices" /\ "users" \notin tables
  BY <1>3 DEF Creatable
<1>5. /\ Allowed(cfg, Head(todo[i]))
      /\ Head(todo[i]).on = "devices" => \A op : ~Has(todo[i], [op |-> op, on |-> "users"])
  BY <1>0, <1>1, ProgramTail DEF Local, TxInv
<1>6. cfg.db /\ cfg.auto
  BY <1>1, <1>5 DEF Allowed, DbOp
<1>7. ~Pending(i, "commit", "users")
  BY <1>4, <1>5, PendingHas DEF On
<1>8. cfg.external
  BY <1>0, <1>1, <1>4, <1>6, <1>7 DEF Local, SchemaInv
<1> QED
  BY <1>4, <1>6, <1>8 DEF Reason

\* usersdb.go: a table that is looked at and missing.
LEMMA ProbeFails ==
  ASSUME NEW i \in Instance, StartupInv, At(i, "probe"), On(i) \notin tables
  PROVE  Reason
<1>0. Local(i)
  BY StartupInvParts
<1>1. phase[i] = "starting" /\ todo[i] # <<>> /\ Head(todo[i]).op = "probe"
  BY DEF At
<1>2. Allowed(cfg, Head(todo[i]))
  BY <1>0, <1>1, ProgramTail DEF Local, TxInv
<1>3. On(i) = "users" /\ cfg.db /\ IF cfg.external THEN cfg.column ELSE ~cfg.auto
  BY <1>1, <1>2 DEF Allowed, On
<1> QED
  BY <1>3 DEF Reason

\* No step fails a start without a reason.
LEMMA FailsByReason ==
  ASSUME NEW i \in Instance, StartupInv,
         \/ Start(i) \/ Progress(i) \/ Deadline(i)
         \/ CallFails(i) \/ Crash(i) \/ Request(i) \/ Answered(i) \/ Exit(i)
  PROVE  FailsBy
<1>1. CASE Start(i)
  <2>1. phase \in [Instance -> Phase] /\ faulty \in [Instance -> BOOLEAN]
    BY StartupInvParts DEF Shapes
  <2>2. \A j \in Instance \ {i} : phase'[j] = phase[j] /\ faulty'[j] = faulty[j]
    BY <1>1, <2>1 DEF Start
  <2>3. phase'[i] = "failed" => Reason
    BY <1>1, <2>1 DEF Start, Reason
  <2> QED
    BY <2>2, <2>3 DEF FailsBy
<1>2. CASE Lock(i) \/ Commit(i) \/ Call(i) \/ Open(i) \/ Discovered(i) \/ Unlink(i)
           \/ Chmod(i) \/ Rename(i)
  <2>1. Proceed(i) /\ faulty' = faulty
    BY <1>2 DEF Lock, Commit, Call, Open, Discovered, Unlink, Chmod, Rename
  <2> QED
    BY <2>1, ProceedFailsNone
<1>3. CASE Create(i)
  <2>1. CASE On(i) \in tables \/ Creatable(i, On(i))
    BY <1>3, <2>1, ProceedFailsNone DEF Create
  <2>2. CASE ~(On(i) \in tables \/ Creatable(i, On(i)))
    <3>1. /\ At(i, "create") /\ phase' = [phase EXCEPT ![i] = "failed"] /\ faulty' = faulty
      BY <1>3, <2>2 DEF Create, Gone
    <3> QED
      BY <2>2, <3>1, CreateFails, GoneFailsNone
  <2> QED
    BY <2>1, <2>2
<1>4. CASE Probe(i)
  <2>1. CASE On(i) \in tables
    BY <1>4, <2>1, ProceedFailsNone DEF Probe
  <2>2. CASE On(i) \notin tables
    <3>1. /\ At(i, "probe") /\ phase' = [phase EXCEPT ![i] = "failed"] /\ faulty' = faulty
      BY <1>4, <2>2 DEF Probe, Gone
    <3> QED
      BY <2>2, <3>1, ProbeFails, GoneFailsNone
  <2> QED
    BY <2>1, <2>2
<1>5. CASE Bind(i)
  <2>1. temp[i] = "absent"
    BY <1>5, BindStep
  <2> QED
    BY <1>5, <2>1, ProceedFailsNone DEF Bind
<1>6. CASE DiscoveryFails(i) \/ CallFails(i)
  <2>1. phase' = [phase EXCEPT ![i] = "failed"] /\ faulty' = [faulty EXCEPT ![i] = TRUE]
    BY <1>6 DEF DiscoveryFails, CallFails, Gone
  <2> QED
    BY <2>1, FaultyFails
<1>7. CASE Crash(i) \/ Exit(i)
  <2>1. /\ phase' = [phase EXCEPT ![i] = "off"] \/ phase' = [phase EXCEPT ![i] = "closing"]
        /\ faulty' = faulty
    BY <1>7 DEF Crash, Gone, Exit
  <2> QED
    BY <2>1, GoneFailsNone
<1>8. CASE Close(i)
  <2>1. /\ phase' = phase \/ phase' = [phase EXCEPT ![i] = "stopped"]
        /\ faulty' = faulty
    BY <1>8 DEF Close, Gone
  <2> QED
    BY <2>1, GoneFailsNone, SamePhases
<1>9. CASE Retryable(i) \/ Backoff(i) \/ Deadline(i) \/ Request(i) \/ Answered(i)
  <2>1. phase' = phase /\ (faulty' = faulty \/ faulty' = [faulty EXCEPT ![i] = TRUE])
    BY <1>9 DEF Retryable, Backoff, Deadline, DiscoveryDeadline, ShutdownDeadline, Request, Answered
  <2> QED
    BY <2>1, SamePhases
<1> QED
  BY <1>1, <1>2, <1>3, <1>4, <1>5, <1>6, <1>7, <1>8, <1>9 DEF Progress

\* A reason is never taken back: only a configuration that creates the users table
\* brings it into being.
LEMMA ReasonKept ==
  ASSUME NEW i \in Instance, StartupInv, Reason,
         \/ Start(i) \/ Progress(i) \/ Deadline(i)
         \/ CallFails(i) \/ Crash(i) \/ Request(i) \/ Answered(i) \/ Exit(i)
  PROVE  Reason'
<1>1. env' = env /\ cfg' = cfg
  BY EveryStep, SameConfig DEF Stepped, Frame
<1>2. tables' = tables \/ (At(i, "commit") /\ tables' = tables \cup {tx[i]})
  <2>1. CASE Commit(i)
    BY <2>1 DEF Commit
  <2>2. CASE CallFails(i)
    BY <2>2 DEF CallFails
  <2>3. CASE ~Commit(i) /\ ~CallFails(i)
    BY <2>3 DEF Start, Progress, Deadline, Crash, Request, Answered, Exit, Lock, Create, Probe, Call,
        Open, Discovered, Retryable, Backoff, DiscoveryFails, Unlink, Bind, Chmod, Rename, Close,
        DiscoveryDeadline, ShutdownDeadline, dbvars
  <2> QED
    BY <2>1, <2>2, <2>3
<1>3. ASSUME At(i, "commit"), tx[i] = "users" PROVE cfg.auto /\ ~cfg.external
  <2>0. Local(i)
    BY StartupInvParts
  <2>1. phase[i] = "starting" /\ todo[i] # <<>> /\ Head(todo[i]).op = "commit"
    BY <1>3 DEF At
  <2>2. Allowed(cfg, Head(todo[i]))
    BY <2>0, <2>1, ProgramTail DEF Local, TxInv
  <2>3. On(i) = "users"
    BY <1>3, <2>0 DEF Local, TxInv
  <2> QED
    BY <2>1, <2>2, <2>3 DEF Allowed, DbOp, On
<1> QED
  BY <1>1, <1>2, <1>3 DEF Reason

-----------------------------------------------------------------------------
(* What parseDuration returns.                                             *)

\* Induction over the naturals, for a set.
LEMMA NaturalsAll ==
  ASSUME NEW S, 0 \in S, \A n \in Nat : n \in S => n + 1 \in S
  PROVE  Nat \subseteq S
<1> DEFINE T == Nat \ S
<1> SUFFICES ASSUME T # {} PROVE FALSE
  OBVIOUS
<1>1. PICK i \in T : \A j \in T : ~(<<j, i>> \in OpToRel(<, Nat))
  <2>1. T \subseteq Nat
    OBVIOUS
  <2> HIDE DEF T
  <2> QED
    BY <2>1, NatLessThanWellFounded, WFMin, Zenon
<1>2. \A j \in T : ~(j < i)
  <2> HIDE DEF T
  <2>1. T \subseteq Nat
    BY DEF T
  <2> QED
    BY <1>1, <2>1, Zenon DEF OpToRel
<1>3. i # 0 /\ i \in Nat /\ i \notin S
  OBVIOUS
<1>4. i - 1 \in Nat /\ i - 1 < i /\ (i - 1) + 1 = i
  BY <1>3
<1>5. i - 1 \in S
  BY <1>2, <1>4
<1> QED
  BY <1>3, <1>4, <1>5

\* The totals of a text are those of its parts, one after the other.
LEMMA TotalsAt ==
  ASSUME NEW text, Len(text) \in Nat
  PROVE  /\ Totals(text)[0] = 0
         /\ \A k \in 1..Len(text) : Totals(text)[k] = AddPart(Totals(text)[k - 1], text[k])
<1> DEFINE IsTotal(f, n) ==
              f = [k \in 0..n |-> IF k = 0 THEN 0 ELSE AddPart(f[k - 1], text[k])]
           S == {n \in Nat : \E f : IsTotal(f, n)}
<1>1. 0 \in S
  <2>1. IsTotal([k \in 0..0 |-> 0], 0)
    OBVIOUS
  <2> QED
    BY <2>1
<1>2. ASSUME NEW n \in Nat, n \in S PROVE n + 1 \in S
  <2>1. PICK f : IsTotal(f, n)
    BY <1>2
  <2> DEFINE g == [k \in 0..(n + 1) |-> IF k <= n THEN f[k] ELSE AddPart(f[n], text[n + 1])]
             h == [k \in 0..(n + 1) |-> IF k = 0 THEN 0 ELSE AddPart(g[k - 1], text[k])]
  <2>2. ASSUME NEW k \in 0..(n + 1) PROVE g[k] = h[k]
    <3>1. CASE k = 0
      BY <2>1, <3>1
    <3>2. CASE k # 0 /\ k <= n
      <4>1. k - 1 \in 0..(n + 1) /\ k - 1 <= n /\ k \in 0..n
        BY <3>2
      <4>2. g[k - 1] = f[k - 1] /\ g[k] = f[k]
        BY <3>2, <4>1
      <4>3. f[k] = AddPart(f[k - 1], text[k])
        BY <2>1, <3>2, <4>1
      <4> QED
        BY <3>2, <4>2, <4>3
    <3>3. CASE k = n + 1
      <4>1. k # 0 /\ k - 1 = n /\ n \in 0..(n + 1) /\ ~(k <= n)
        BY <3>3
      <4>2. g[n] = f[n] /\ g[k] = AddPart(f[n], text[n + 1])
        BY <4>1
      <4> QED
        BY <3>3, <4>1, <4>2
    <3> QED
      BY <3>1, <3>2, <3>3
  <2>3. g = h
    BY <2>2
  <2>4. n + 1 \in Nat /\ IsTotal(g, n + 1)
    BY <2>3
  <2> HIDE DEF g, h, IsTotal
  <2> QED
    BY <2>4
<1>3. \E f : IsTotal(f, Len(text))
  <2> HIDE DEF IsTotal
  <2>1. Nat \subseteq S
    <3> HIDE DEF S
    <3> QED
      BY <1>1, <1>2, NaturalsAll
  <2> QED
    BY <2>1
<1>4. IsTotal(Totals(text), Len(text))
  <2> DEFINE F == CHOOSE f : IsTotal(f, Len(text))
  <2>1. IsTotal(F, Len(text))
    <3> HIDE DEF IsTotal
    <3> QED
      BY <1>3, Zenon
  <2>2. F = Totals(text)
    BY DEF Totals
  <2> HIDE DEF IsTotal, F
  <2> QED
    BY <2>1, <2>2
<1> HIDE DEF S
<1> QED
  BY <1>4
\* The exact sums likewise.
LEMMA SumsAt ==
  ASSUME NEW text, NEW bare, Len(text) \in Nat
  PROVE  /\ Sums(text, bare)[0] = 0
         /\ \A k \in 1..Len(text) :
                Sums(text, bare)[k] = Sums(text, bare)[k - 1] + PartLength(text[k], bare)
<1> DEFINE IsSum(f, n) ==
              f = [k \in 0..n |-> IF k = 0 THEN 0 ELSE f[k - 1] + PartLength(text[k], bare)]
           S == {n \in Nat : \E f : IsSum(f, n)}
<1>1. 0 \in S
  <2>1. IsSum([k \in 0..0 |-> 0], 0)
    OBVIOUS
  <2> QED
    BY <2>1
<1>2. ASSUME NEW n \in Nat, n \in S PROVE n + 1 \in S
  <2>1. PICK f : IsSum(f, n)
    BY <1>2
  <2> DEFINE g == [k \in 0..(n + 1) |-> IF k <= n THEN f[k] ELSE f[n] + PartLength(text[n + 1], bare)]
             h == [k \in 0..(n + 1) |-> IF k = 0 THEN 0 ELSE g[k - 1] + PartLength(text[k], bare)]
  <2>2. ASSUME NEW k \in 0..(n + 1) PROVE g[k] = h[k]
    <3>1. CASE k = 0
      BY <2>1, <3>1
    <3>2. CASE k # 0 /\ k <= n
      <4>1. k - 1 \in 0..(n + 1) /\ k - 1 <= n /\ k \in 0..n
        BY <3>2
      <4>2. g[k - 1] = f[k - 1] /\ g[k] = f[k]
        BY <3>2, <4>1
      <4>3. f[k] = f[k - 1] + PartLength(text[k], bare)
        BY <2>1, <3>2, <4>1
      <4> QED
        BY <3>2, <4>2, <4>3
    <3>3. CASE k = n + 1
      <4>1. k # 0 /\ k - 1 = n /\ n \in 0..(n + 1) /\ ~(k <= n)
        BY <3>3
      <4>2. g[n] = f[n] /\ g[k] = f[n] + PartLength(text[n + 1], bare)
        BY <4>1
      <4> QED
        BY <3>3, <4>1, <4>2
    <3> QED
      BY <3>1, <3>2, <3>3
  <2>3. g = h
    BY <2>2
  <2>4. n + 1 \in Nat /\ IsSum(g, n + 1)
    BY <2>3
  <2> HIDE DEF g, h, IsSum
  <2> QED
    BY <2>4
<1>3. \E f : IsSum(f, Len(text))
  <2> HIDE DEF IsSum
  <2>1. Nat \subseteq S
    <3> HIDE DEF S
    <3> QED
      BY <1>1, <1>2, NaturalsAll
  <2> QED
    BY <2>1
<1>4. IsSum(Sums(text, bare), Len(text))
  <2> DEFINE F == CHOOSE f : IsSum(f, Len(text))
  <2>1. IsSum(F, Len(text))
    <3> HIDE DEF IsSum
    <3> QED
      BY <1>3, Zenon
  <2>2. F = Sums(text, bare)
    BY DEF Sums
  <2> HIDE DEF IsSum, F
  <2> QED
    BY <2>1, <2>2
<1> HIDE DEF S
<1> QED
  BY <1>4

\* Multiplication keeps the order.
LEMMA TimesOrder ==
  ASSUME NEW a \in Nat, NEW b \in Nat, NEW c \in Nat, a <= b
  PROVE  a * c <= b * c
<1>1. PICK d \in Nat : b = a + d
  <2>1. b - a \in Nat /\ b = a + (b - a)
    OBVIOUS
  <2> QED
    BY <2>1
<1>2. b * c = a * c + d * c /\ d * c \in Nat /\ a * c \in Nat
  BY <1>1
<1> QED
  BY <1>2

\* A remainder that is smaller than the divisor.
LEMMA SmallRemainder ==
  ASSUME NEW a \in Nat, NEW b \in Nat, a < b
  PROVE  a % b = a
OBVIOUS

\* An integer that int64 can hold is kept.
LEMMA WrapKeeps ==
  ASSUME NEW x \in Nat, x <= MaxInt
  PROVE  Wrap(x) = x
<1> DEFINE a == x + MaxInt + 1
           b == 2 * (MaxInt + 1)
<1>0. MaxInt \in Nat
  BY DurationAssumption
<1>1. a \in Nat /\ b \in Nat /\ a < b
  BY <1>0
<1>2. a % b = a
  <2> HIDE DEF a, b
  <2> QED
    BY <1>1, SmallRemainder
<1> QED
  BY <1>0, <1>2 DEF Wrap

\* The test of multiplyDuration is that the product fits.
LEMMA FitsIffQuotient ==
  ASSUME NEW n \in Nat, NEW unit \in Nat \ {0}, NEW m \in Nat
  PROVE  n > m \div unit <=> n * unit > m
<1> DEFINE q == m \div unit
           r == m % unit
<1>1. q \in Nat /\ r \in Nat /\ m = q * unit + r /\ r < unit
  OBVIOUS
<1> HIDE DEF q, r
<1>2. CASE n <= q
  <2>1. n * unit <= q * unit
    BY <1>1, <1>2, TimesOrder
  <2>2. n * unit \in Nat /\ q * unit \in Nat
    BY <1>1
  <2> QED
    BY <1>1, <1>2, <2>1, <2>2 DEF q
<1>3. CASE n > q
  <2>1. (q + 1) * unit <= n * unit
    BY <1>1, <1>3, TimesOrder
  <2>2. n * unit \in Nat /\ q * unit \in Nat /\ (q + 1) * unit = q * unit + unit
    BY <1>1
  <2> QED
    BY <1>1, <1>3, <2>1, <2>2 DEF q
<1> QED
  BY <1>1, <1>2, <1>3

\* multiplyDuration returns the product, or fails when it does not fit.
LEMMA MultiplyIsExact ==
  ASSUME NEW n \in Nat, NEW unit \in Nat \ {0}
  PROVE  /\ n * unit \in Nat
         /\ MultiplyDuration(n, unit) = IF n * unit <= MaxInt THEN n * unit ELSE Invalid
<1>0. MaxInt \in Nat /\ n * unit \in Nat
  BY DurationAssumption
<1>1. n > MaxInt \div unit <=> n * unit > MaxInt
  BY <1>0, FitsIffQuotient
<1>2. n <= n * unit
  <2>1. 1 * n <= unit * n
    BY TimesOrder
  <2> QED
    BY <2>1
<1>3. CASE n * unit <= MaxInt
  BY <1>0, <1>1, <1>2, <1>3, WrapKeeps DEF MultiplyDuration
<1>4. CASE n * unit > MaxInt
  BY <1>0, <1>1, <1>4 DEF MultiplyDuration
<1> QED
  BY <1>0, <1>3, <1>4

\* A part that has digits and a unit.
Spells(part) == part.n >= 0 /\ part.unit \in {"d", "h", "m", "s"}

\* The length of a part is the exact one, or there is none.
LEMMA LengthIsExact ==
  ASSUME NEW part \in Part, NEW bare
  PROVE  /\ Spells(part) =>
              /\ PartLength(part, bare) \in Nat
              /\ Length(part) = IF PartLength(part, bare) <= MaxInt THEN PartLength(part, bare)
                                ELSE Invalid
         /\ ~Spells(part) => Length(part) = Invalid
<1>0. /\ part.n \in {NoDigits} \cup Nat
      /\ DOMAIN Unit = {"d", "h", "m", "s"}
      /\ \A u \in {"d", "h", "m", "s"} : Unit[u] \in Nat \ {0}
  BY DurationAssumption DEF Part
<1>1. CASE Spells(part)
  <2>1. part.n \in Nat /\ part.unit \in {"d", "h", "m", "s"} /\ Unit[part.unit] \in Nat \ {0}
    BY <1>0, <1>1 DEF Spells, NoDigits
  <2>2. part.unit # NoUnit
    BY <2>1 DEF NoUnit
  <2>3. PartLength(part, bare) = part.n * Unit[part.unit]
    BY <2>2 DEF PartLength
  <2>4. Length(part) = MultiplyDuration(part.n, Unit[part.unit])
    BY <1>0, <2>1 DEF Length, NoDigits
  <2> QED
    BY <1>1, <2>1, <2>3, <2>4, MultiplyIsExact
<1>2. CASE ~Spells(part)
  BY <1>0, <1>2 DEF Spells, Length, NoDigits
<1> QED
  BY <1>1, <1>2

\* Adding a part to an exact total gives an exact total.
LEMMA AddIsExact ==
  ASSUME NEW total \in Nat, NEW x \in Nat, NEW l, NEW part,
         l = IF x <= MaxInt THEN x ELSE Invalid, Length(part) = l
  PROVE  /\ total <= MaxInt => AddPart(total, part) = IF total + x <= MaxInt THEN total + x ELSE Invalid
         /\ AddPart(Invalid, part) = Invalid
<1>0. MaxInt \in Nat /\ total + x \in Nat
  BY DurationAssumption
<1>1. AddPart(Invalid, part) = Invalid
  BY DEF AddPart
<1>2. ASSUME total <= MaxInt, total + x <= MaxInt
      PROVE  AddPart(total, part) = total + x
  <2>1. l = x /\ ~(total > MaxInt - l) /\ total # Invalid /\ l # Invalid
    BY <1>0, <1>2 DEF Invalid
  <2>2. Wrap(total + l) = total + x
    BY <1>0, <1>2, <2>1, WrapKeeps
  <2> QED
    BY <2>1, <2>2 DEF AddPart
<1>3. ASSUME total <= MaxInt, ~(total + x <= MaxInt)
      PROVE  AddPart(total, part) = Invalid
  BY <1>0, <1>3 DEF AddPart, Invalid
<1> QED
  BY <1>1, <1>2, <1>3

\* The total after each part is the exact sum so far, or none: once it does not fit
\* or a part does not spell a length, it never comes back.
LEMMA TotalsAreExact ==
  ASSUME NEW text \in Seq(Part), NEW bare, NEW k \in 0..Len(text)
  PROVE  LET total == Totals(text)[k]
             sum == Sums(text, bare)[k] IN
         /\ (\A i \in 1..k : Spells(text[i])) =>
              sum \in Nat /\ total = IF sum <= MaxInt THEN sum ELSE Invalid
         /\ (\E i \in 1..k : ~Spells(text[i])) => total = Invalid
<1> DEFINE total(m) == Totals(text)[m]
           sum(m) == Sums(text, bare)[m]
           Upto(m) == \A i \in 1..m : Spells(text[i])
           OK(m) == /\ Upto(m) => sum(m) \in Nat
                                  /\ total(m) = IF sum(m) <= MaxInt THEN sum(m) ELSE Invalid
                    /\ ~Upto(m) => total(m) = Invalid
           S == {m \in Nat : m <= Len(text) => OK(m)}
<1>0. Len(text) \in Nat /\ MaxInt \in Nat /\ \A m \in 1..Len(text) : text[m] \in Part
  BY DurationAssumption, ElementOfSeq, LenProperties
<1>1. /\ total(0) = 0 /\ sum(0) = 0
      /\ \A m \in 1..Len(text) : /\ total(m) = AddPart(total(m - 1), text[m])
                                 /\ sum(m) = sum(m - 1) + PartLength(text[m], bare)
  BY <1>0, TotalsAt, SumsAt
<1> HIDE DEF total, sum
<1>2. 0 \in S
  BY <1>0, <1>1
<1>3. ASSUME NEW m \in Nat, m \in S PROVE m + 1 \in S
  <2> SUFFICES ASSUME m + 1 <= Len(text) PROVE OK(m + 1)
    OBVIOUS
  <2>0. /\ OK(m) /\ m + 1 \in 1..Len(text) /\ text[m + 1] \in Part
        /\ total(m + 1) = AddPart(total(m), text[m + 1])
        /\ sum(m + 1) = sum(m) + PartLength(text[m + 1], bare)
    <3>1. m + 1 \in 1..Len(text) /\ m <= Len(text) /\ (m + 1) - 1 = m
      BY <1>0
    <3> QED
      BY <1>0, <1>1, <1>3, <3>1
  <2>1. Upto(m + 1) <=> Upto(m) /\ Spells(text[m + 1])
    <3>1. 1..(m + 1) = (1..m) \cup {m + 1}
      OBVIOUS
    <3> QED
      BY <3>1
  <2> DEFINE part == text[m + 1]
             x == PartLength(part, bare)
  <2>2. /\ Spells(part) => x \in Nat /\ Length(part) = IF x <= MaxInt THEN x ELSE Invalid
        /\ ~Spells(part) => Length(part) = Invalid
    BY <2>0, LengthIsExact
  <2>3. /\ total(m + 1) = AddPart(total(m), part)
        /\ sum(m + 1) = sum(m) + x
        /\ Upto(m + 1) <=> (Upto(m) /\ Spells(part))
    BY <2>0, <2>1
  <2> HIDE DEF Upto, x, part
  <2>4. CASE ~Spells(part)
    <3>1. total(m + 1) = Invalid
      BY <2>2, <2>3, <2>4 DEF AddPart
    <3> QED
      BY <2>3, <2>4, <3>1
  <2>5. CASE ~Upto(m)
    <3>1. total(m + 1) = Invalid
      BY <2>0, <2>3, <2>5 DEF AddPart
    <3> QED
      BY <2>3, <2>5, <3>1
  <2>6. CASE Spells(part) /\ Upto(m)
    <3>1. sum(m) \in Nat /\ x \in Nat /\ sum(m + 1) \in Nat
      BY <2>0, <2>2, <2>3, <2>6
    <3>2. CASE sum(m) <= MaxInt
      <4>1. total(m) = sum(m)
        BY <2>0, <2>6, <3>2
      <4> QED
        BY <2>2, <2>3, <2>6, <3>1, <3>2, <4>1, AddIsExact
    <3>3. CASE ~(sum(m) <= MaxInt)
      <4>1. total(m) = Invalid /\ ~(sum(m + 1) <= MaxInt)
        BY <1>0, <2>0, <2>3, <2>6, <3>1, <3>3
      <4>2. total(m + 1) = Invalid
        BY <2>3, <4>1 DEF AddPart
      <4> QED
        BY <2>3, <2>6, <3>1, <4>1, <4>2
    <3> QED
      BY <3>2, <3>3
  <2> QED
    BY <2>4, <2>5, <2>6
<1>4. Nat \subseteq S
  <2> HIDE DEF S
  <2> QED
    BY <1>2, <1>3, NaturalsAll
<1>5. k \in Nat /\ k <= Len(text)
  BY <1>0
<1>6. OK(k)
  <2> HIDE DEF OK
  <2> QED
    BY <1>4, <1>5
<1> QED
  BY <1>6 DEF total, sum

\* The length of a bare number.
LEMMA BareSum ==
  ASSUME NEW text, NEW bare \in Nat, Len(text) = 1, text[1].n \in Nat, text[1].unit = NoUnit
  PROVE  ExactLength(text, bare) = text[1].n * bare /\ text[1].n * bare \in Nat
<1>1. /\ Sums(text, bare)[0] = 0
      /\ Sums(text, bare)[1] = Sums(text, bare)[1 - 1] + PartLength(text[1], bare)
  BY SumsAt
<1>2. PartLength(text[1], bare) = text[1].n * bare
  BY DEF PartLength
<1>3. text[1].n * bare \in Nat
  OBVIOUS
<1> QED
  BY <1>1, <1>2, <1>3 DEF ExactLength

\* A text that is well-formed has a length.
LEMMA SumIsNatural ==
  ASSUME NEW text \in Seq(Part), NEW bare \in Nat, WellFormed(text, bare)
  PROVE  ExactLength(text, bare) \in Nat
<1>0. /\ Len(text) \in Nat /\ DOMAIN text = 1..Len(text)
      /\ \A m \in 1..Len(text) : text[m] \in Part
  BY ElementOfSeq, LenProperties
<1>1. CASE \A i \in DOMAIN text : text[i].n >= 0 /\ text[i].unit \in {"d", "h", "m", "s"}
  <2>1. \A i \in 1..Len(text) : Spells(text[i])
    BY <1>0, <1>1 DEF Spells
  <2>2. Len(text) \in 0..Len(text)
    BY <1>0
  <2> QED
    BY <2>1, <2>2, TotalsAreExact DEF ExactLength
<1>2. CASE Len(text) = 1 /\ text[1].n >= 0 /\ text[1].unit = NoUnit
  <2>1. text[1].n \in Nat
    BY <1>0, <1>2 DEF Part, NoDigits
  <2> QED
    BY <1>2, <2>1, BareSum
<1> QED
  BY <1>1, <1>2 DEF WellFormed

\* parseDuration (duration.go:21-68) returns the length that a text spells whenever
\* an int64 can hold it, and fails for every other text, whatever its parts and
\* however many: no product and no sum wraps around.
THEOREM ParseIsExact ==
  ASSUME NEW text \in Seq(Part), NEW bare \in Nat
  PROVE  Exact(text, bare)
<1>0. /\ Len(text) \in Nat /\ MaxInt \in Nat /\ (text = <<>> <=> Len(text) = 0)
      /\ DOMAIN text = 1..Len(text) /\ \A m \in 1..Len(text) : text[m] \in Part
  BY DurationAssumption, ElementOfSeq, LenProperties, EmptySeq
<1>1. CASE text = <<>>
  BY <1>1 DEF Exact, ParseDuration, WellFormed
<1>2. CASE text # <<>> /\ IsDigits(text)
  <2> DEFINE part == text[1]
  <2>1. Len(text) = 1 /\ part \in Part /\ part.n \in Nat /\ part.unit = NoUnit
    BY <1>0, <1>2 DEF IsDigits, Part, NoDigits
  <2>2. ExactLength(text, bare) = part.n * bare
    BY <2>1, BareSum
  <2>3. WellFormed(text, bare) <=> bare > 0
    <3>1. ~(\A i \in DOMAIN text : text[i].n >= 0 /\ text[i].unit \in {"d", "h", "m", "s"})
      <4>1. 1 \in DOMAIN text
        BY <1>0, <2>1
      <4>2. part.unit \notin {"d", "h", "m", "s"}
        BY <2>1 DEF NoUnit
      <4> QED
        BY <4>1, <4>2
    <3> QED
      BY <1>2, <2>1, <3>1 DEF WellFormed
  <2>4. ParseDuration(text, bare) = IF bare = 0 THEN Invalid ELSE MultiplyDuration(part.n, bare)
    BY <1>2 DEF ParseDuration
  <2>5. CASE bare = 0
    BY <2>3, <2>4, <2>5 DEF Exact
  <2>6. CASE bare # 0
    <3>1. MultiplyDuration(part.n, bare) = IF part.n * bare <= MaxInt THEN part.n * bare ELSE Invalid
      BY <2>1, <2>6, MultiplyIsExact
    <3> QED
      BY <2>2, <2>3, <2>4, <2>6, <3>1 DEF Exact
  <2> QED
    BY <2>5, <2>6
<1>3. CASE text # <<>> /\ ~IsDigits(text)
  <2>1. ParseDuration(text, bare) = Totals(text)[Len(text)]
    BY <1>3 DEF ParseDuration
  <2>2. WellFormed(text, bare) <=> \A i \in 1..Len(text) : Spells(text[i])
    BY <1>0, <1>3 DEF WellFormed, Spells, IsDigits, NoDigits
  <2>3. Len(text) \in 0..Len(text)
    BY <1>0
  <2> QED
    BY <2>1, <2>2, <2>3, TotalsAreExact DEF Exact, ExactLength
<1> QED
  BY <1>1, <1>2, <1>3

-----------------------------------------------------------------------------
(* Which configurations a process runs with.                               *)

\* A process that runs has passed Load.
Loaded == \A j \in Instance : Alive(j) => LoadErrors(env.toggles, env.values) = {}

\* Only a start that Load lets through makes a process run.
LEMMA LoadedKept ==
  ASSUME NEW i \in Instance, StartupInv, Loaded,
         \/ Start(i) \/ Progress(i) \/ Deadline(i)
         \/ CallFails(i) \/ Crash(i) \/ Request(i) \/ Answered(i) \/ Exit(i)
  PROVE  Loaded'
<1>0. phase \in [Instance -> Phase]
  BY StartupInvParts DEF Shapes
<1>1. env' = env
  BY EveryStep DEF Stepped, Frame
<1>2. /\ \A j \in Instance \ {i} : phase'[j] = phase[j]
      /\ Alive(i) \/ phase'[i] \notin {"starting", "serving", "closing"}
         \/ LoadErrors(env.toggles, env.values) = {}
  <2>1. CASE Start(i)
    BY <1>0, <2>1 DEF Start
  <2>2. CASE ~Start(i)
    <3>1. Alive(i)
      BY <2>2 DEF Progress, Deadline, CallFails, Crash, Request, Answered, Exit, Lock, Create, Commit,
          Probe, Call, Open, Discovered, Retryable, Backoff, DiscoveryFails, Unlink, Bind, Chmod, Rename,
          Close, DiscoveryDeadline, ShutdownDeadline, At, Alive
    <3>2. phase' = phase \/ \E p : phase' = [phase EXCEPT ![i] = p]
      <4>1. Proceed(i) => \E p : phase' = [phase EXCEPT ![i] = p]
        BY DEF Proceed
      <4>2. ASSUME NEW p, Gone(i, p) PROVE \E q : phase' = [phase EXCEPT ![i] = q]
        BY <4>2 DEF Gone
      <4>3. CASE Exit(i)
        BY <4>3 DEF Exit
      <4>4. CASE Crash(i) \/ CallFails(i) \/ DiscoveryFails(i)
        BY <4>4, <4>2 DEF Crash, CallFails, DiscoveryFails
      <4>5. CASE Close(i)
        BY <4>5, <4>2 DEF Close
      <4>6. CASE Create(i) \/ Probe(i) \/ Bind(i)
        BY <4>6, <4>1, <4>2 DEF Create, Probe, Bind
      <4>7. CASE Lock(i) \/ Commit(i) \/ Call(i) \/ Open(i) \/ Discovered(i) \/ Unlink(i)
                 \/ Chmod(i) \/ Rename(i)
        BY <4>7, <4>1 DEF Lock, Commit, Call, Open, Discovered, Unlink, Chmod, Rename
      <4>8. CASE Retryable(i) \/ Backoff(i) \/ Deadline(i) \/ Request(i) \/ Answered(i)
        BY <4>8 DEF Retryable, Backoff, Deadline, DiscoveryDeadline, ShutdownDeadline, Request, Answered
      <4> QED
        BY <2>2, <4>3, <4>4, <4>5, <4>6, <4>7, <4>8 DEF Progress
    <3> QED
      BY <1>0, <3>1, <3>2
  <2> QED
    BY <2>1, <2>2
<1> QED
  BY <1>1, <1>2 DEF Loaded, Alive

\* A duration of the environment is unset or a text, and a bare number in it has a
\* unit that is no less than zero.
LEMMA DurationsAreTexts ==
  ASSUME env \in Environments, NEW d \in Durations
  PROVE  /\ d[1] = Unset \/ Exact(d[1], d[2])
         /\ d[1] = Unset \/ ~WellFormed(d[1], d[2]) \/ ExactLength(d[1], d[2]) \in Nat
<1>1. Unit["m"] \in Nat /\ Unit["h"] \in Nat
  BY DurationAssumption
<1>2. d[2] \in Nat
  BY <1>1 DEF Durations
<1>3. d[1] = Unset \/ d[1] \in Seq(Part)
  BY TextAssumption DEF Durations
<1> QED
  BY <1>2, <1>3, ParseIsExact, SumIsNatural

\* The lifetimes of the tokens are integers.
LEMMA LifetimesAreIntegers ==
  ASSUME env \in Environments
  PROVE  cfg.access \in Int /\ cfg.refresh \in Int
<1>0. MaxInt \in Nat /\ DefaultDuration \in Int /\ Invalid \in Int
  BY DurationAssumption DEF Invalid
<1>1. \A d \in Durations : Duration(d[1], d[2]) \in Int
  <2> TAKE d \in Durations
  <2>1. d[1] = Unset \/ ParseDuration(d[1], d[2]) \in Int
    BY <1>0, DurationsAreTexts DEF Exact
  <2> QED
    BY <1>0, <2>1 DEF Duration
<1>2. <<env.values.access, 0>> \in Durations /\ <<env.values.refresh, 0>> \in Durations
  BY DEF Durations
<1>3. cfg.access = Duration(env.values.access, 0) /\ cfg.refresh = Duration(env.values.refresh, 0)
  BY DEF cfg, Load
<1> QED
  BY <1>1, <1>2, <1>3

\* Load has looked at every duration, and refused a token lifetime of zero.
LEMMA LoadedDurations ==
  ASSUME env \in Environments, LoadErrors(env.toggles, env.values) = {}
  PROVE  /\ \A d \in Durations : ~BadDuration(d[1], d[2])
         /\ ~(cfg.access <= 0) /\ ~(cfg.refresh <= 0)
<1> DEFINE v == env.values
           e == env.toggles
<1>1. "access" \notin JWTErrors(v) /\ "refresh" \notin JWTErrors(v)
  BY DEF LoadErrors
<1>2. /\ ~BadDuration(v.access, 0) /\ ~(Duration(v.access, 0) <= 0)
      /\ ~BadDuration(v.refresh, 0) /\ ~(Duration(v.refresh, 0) <= 0)
  BY <1>1 DEF JWTErrors
<1>3. e.db => ~BadDuration(v.lifetime, Unit["m"]) /\ ~BadDuration(v.cleanup, Unit["h"])
  <2>1. "lifetime" \notin DatabaseErrors(e, v) /\ "cleanup" \notin DatabaseErrors(e, v)
    BY DEF LoadErrors
  <2> QED
    BY <2>1 DEF DatabaseErrors
<1>4. cfg.access = Duration(v.access, 0) /\ cfg.refresh = Duration(v.refresh, 0) /\ cfg.db = e.db
  BY DEF cfg, Load
<1>5. \A d \in Durations : ~BadDuration(d[1], d[2])
  BY <1>2, <1>3, <1>4 DEF Durations
<1> QED
  BY <1>2, <1>4, <1>5

-----------------------------------------------------------------------------
(* The theorems.                                                           *)

\* The inductive invariant of the start-up holds, for any number of instances and
\* starts and for every environment: what is left of run is a program of calls in
\* order; what a start needs is pending or done.
THEOREM StartupInvariant == Spec => []StartupInv
<1>1. Init => StartupInv
  BY StartupInvInit
<1>2. StartupInv /\ [Next]_vars => StartupInv'
  BY StartupInvNext
<1> QED
  BY <1>1, <1>2, PTL DEF Spec

\* database.go:79: the variables keep their shapes, and a transaction is open exactly
\* between its lock and its commit.
THEOREM StartupTypes == Spec => []StartupTypeOK
<1>1. StartupInv => StartupTypeOK
  BY DEF StartupInv
<1> QED
  BY <1>1, StartupInvariant, PTL

\* database.go:79, usersdb.go:23, main.go:241: a start fails because of the
\* configuration, of a table it was told to expect, or of a call that failed in the
\* world outside; never because of another instance beside it, nor because of what a
\* killed one has left.
THEOREM StartsFailOnlyWithReason == Spec => []StartFailsOnlyWithReason
<1>0. StartFailsOnlyWithReason <=>
        \A i \in Instance : phase[i] = "failed" /\ ~faulty[i] => Reason
  BY DEF StartFailsOnlyWithReason, Reason
<1>1. Init => StartFailsOnlyWithReason
  BY DEF Init, StartFailsOnlyWithReason
<1>2. StartupInv /\ StartFailsOnlyWithReason /\ [Next]_vars => StartFailsOnlyWithReason'
  <2> SUFFICES ASSUME StartupInv, StartFailsOnlyWithReason, [Next]_vars
               PROVE  StartFailsOnlyWithReason'
    OBVIOUS
  <2>1. CASE UNCHANGED vars
    BY <2>1, SameConfig DEF vars, StartFailsOnlyWithReason
  <2>2. CASE Next
    <3>1. PICK i \in Instance :
            \/ Start(i) \/ Progress(i) \/ Deadline(i)
            \/ CallFails(i) \/ Crash(i) \/ Request(i) \/ Answered(i) \/ Exit(i)
      BY <2>2 DEF Next
    <3>2. FailsBy /\ (Reason => Reason')
      BY <3>1, FailsByReason, ReasonKept
    <3>3. \A j \in Instance : phase'[j] = "failed" /\ ~faulty'[j] => Reason'
      BY <1>0, <3>2 DEF FailsBy
    <3> QED
      BY <3>3 DEF StartFailsOnlyWithReason, Reason
  <2> QED
    BY <2>1, <2>2
<1> QED
  BY <1>1, <1>2, StartupInvariant, PTL DEF Spec

\* main.go:240-252: the configured path never holds a socket that not every user may
\* connect to, and holds the live one while the process serves.
THEOREM SocketPublishedOpen == Spec => []PublishedSocketIsOpen
<1>1. StartupInv => PublishedSocketIsOpen
  <2> SUFFICES ASSUME StartupInv, NEW i \in Instance
               PROVE  /\ after[i] # "private"
                      /\ phase[i] = "serving" /\ cfg.unix => after[i] = "open" /\ temp[i] = "absent"
    BY DEF PublishedSocketIsOpen
  <2>1. Local(i)
    BY StartupInvParts
  <2>2. phase[i] = "serving" => ~Pending(i, "rename", "temp")
    BY <2>1 DEF Local, Pending
  <2> QED
    BY <2>1, <2>2 DEF Local, SocketInv
<1> QED
  BY <1>1, StartupInvariant, PTL

\* main.go:48, usersdb.go:83, database.go:57: a process that serves from a database
\* has the tables its options promise, whichever instance committed them.
THEOREM SchemaBeforeService == Spec => []ServesWithItsSchema
<1>1. StartupInv => ServesWithItsSchema
  <2> SUFFICES ASSUME StartupInv, NEW i \in Instance, phase[i] = "serving", cfg.db
               PROVE  /\ ~cfg.external => "users" \in tables
                      /\ cfg.auto => Table \subseteq tables
    BY DEF ServesWithItsSchema
  <2>1. Local(i) /\ UsersFirst
    BY StartupInvParts
  <2>2. \A op, on : ~Pending(i, op, on)
    BY <2>1 DEF Local, Pending
  <2>3. /\ cfg.auto /\ ~cfg.external => "users" \in tables
        /\ cfg.auto => "devices" \in tables
        /\ ~cfg.auto /\ ~cfg.external => "users" \in tables
    BY <2>1, <2>2 DEF Local, SchemaInv
  <2> QED
    BY <2>1, <2>3 DEF UsersFirst, Table
<1> QED
  BY <1>1, StartupInvariant, PTL

\* main.go:153: what a request uses stays open until the request is answered, or
\* until Shutdown has waited for it as long as it may.
THEOREM ResourcesOutliveRequests == Spec => []RequestsKeepTheirResources
<1>1. StartupInv => RequestsKeepTheirResources
  <2> SUFFICES ASSUME StartupInv, NEW i \in Instance, busy[i] # None, ~expired[i],
                      NEW x \in Uses(cfg, busy[i])
               PROVE  x \in {closers[i][k] : k \in DOMAIN closers[i]}
    BY DEF RequestsKeepTheirResources
  <2>1. Local(i) /\ Shapes
    BY StartupInvParts
  <2>2. x \in Needed(cfg)
    BY DEF Uses, Needed
  <2>3. Opened(i, x)
    BY <2>1, <2>2 DEF Local, CloserInv
  <2>4. DOMAIN closers[i] = 1..Len(closers[i])
    BY <2>1 DEF Shapes
  <2> QED
    BY <2>3, <2>4 DEF Opened
<1> QED
  BY <1>1, StartupInvariant, PTL

\* duration.go:54,65 and config.go:212: a process runs only with the lifetimes its
\* environment spells out, positive and never the outcome of an overflow, whatever
\* the texts and their number of parts; and a text that names a length int64 can
\* hold is parsed to that length.
THEOREM LifetimesAreSpelledOut == Spec => []DurationsAreMeant
<1>1. Init => Loaded
  BY DEF Init, Loaded, Alive
<1>2. StartupInv /\ Loaded /\ [Next]_vars => Loaded'
  <2> SUFFICES ASSUME StartupInv, Loaded, [Next]_vars PROVE Loaded'
    OBVIOUS
  <2>1. CASE UNCHANGED vars
    BY <2>1 DEF vars, Loaded, Alive
  <2>2. CASE Next
    BY <2>2, LoadedKept DEF Next
  <2> QED
    BY <2>1, <2>2
<1>3. StartupInv /\ Loaded => DurationsAreMeant
  <2> SUFFICES ASSUME StartupInv, Loaded, NEW i \in Instance
               PROVE  /\ Alive(i) => /\ \A d \in Durations : Meant(d)
                                     /\ cfg.access > 0 /\ cfg.refresh > 0
                      /\ \A d \in Durations :
                            Meant(d) /\ d[1] # Unset => Duration(d[1], d[2]) = ExactLength(d[1], d[2])
    BY DEF DurationsAreMeant
  <2>0. env \in Environments /\ MaxInt \in Nat
    BY DurationAssumption DEF StartupInv, StartupTypeOK
  <2>1. ASSUME NEW d \in Durations, Meant(d), d[1] # Unset
        PROVE  Duration(d[1], d[2]) = ExactLength(d[1], d[2])
    <3>1. ParseDuration(d[1], d[2]) = ExactLength(d[1], d[2])
      BY <2>0, <2>1, DurationsAreTexts DEF Meant, Exact
    <3>2. ParseDuration(d[1], d[2]) # Invalid
      BY <2>0, <2>1, <3>1, DurationsAreTexts DEF Meant, Invalid
    <3> QED
      BY <2>1, <3>1, <3>2 DEF Duration
  <2>2. ASSUME Alive(i), NEW d \in Durations PROVE Meant(d)
    <3>1. ~BadDuration(d[1], d[2])
      BY <2>0, <2>2, LoadedDurations DEF Loaded
    <3> QED
      BY <2>0, <3>1, DurationsAreTexts DEF Meant, BadDuration, Exact
  <2>3. ASSUME Alive(i) PROVE cfg.access > 0 /\ cfg.refresh > 0
    <3>1. ~(cfg.access <= 0) /\ ~(cfg.refresh <= 0)
      BY <2>0, <2>3, LoadedDurations DEF Loaded
    <3>2. cfg.access \in Int /\ cfg.refresh \in Int
      BY <2>0, LifetimesAreIntegers
    <3> QED
      BY <3>1, <3>2
  <2> QED
    BY <2>1, <2>2, <2>3
<1> QED
  BY <1>1, <1>2, <1>3, StartupInvariant, PTL DEF Spec
=============================================================================
