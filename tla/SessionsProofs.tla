--------------------------- MODULE SessionsProofs ---------------------------
(***************************************************************************)
(* Proofs about Sessions, for every set of devices, users, instances and   *)
(* requests, any number of failures and deadlines that pass.  The handlers *)
(* use the store only as StoreNext allows, so that what DeviceStoreProofs  *)
(* and DeviceReadsProofs show of it holds under them.                      *)
(***************************************************************************)
EXTENDS Sessions, DeviceReadsProofs

(***************************************************************************)
(* The inductive invariant behind the safety properties.                   *)
(***************************************************************************)
\* Where a call of each kind is.
Reading == {"get", "do", "join", "load", "fill", "return", "got"}
Updating == {"bump", "peek", "reread", "publish", "updated"}
Deleting == {"del", "delall", "bury", "deleted"}

\* A handler and its call are in step.
InPlace(p) ==
    /\ hp[p] = "free" => tok[p] = NoToken
    /\ hp[p] \in Between => pc[p] = "idle"
    /\ hp[p] \in Verifying => pc[p] \in Reading /\ dev[p] = Dev(tok[p])
    /\ hp[p] = "update" => pc[p] \in Updating /\ dev[p] = Dev(tok[p])
    /\ hp[p] \in Removing => pc[p] \in Deleting
    /\ p \in leads <=> hp[p] \in Rotating

\* The newest generation of d that a token may carry: what a finished update
\* returned, or that of the login.
Last(d) == IF settled[d] = 0 THEN 1 ELSE settled[d]

\* A token that was handed out, or is about to be.
Given(t) == Dev(t) \in issued /\ Gen(t) \in 1..Last(Dev(t))

TokensGiven ==
    /\ \A t \in held : Given(t)
    /\ \A r \in results : Given(<<Dev(r[1]), r[2]>>)
    /\ \A p \in Proc :
        /\ hp[p] # "free" => Given(tok[p])
        /\ hp[p] \in Rotating \cup {"flight"} => tok[p] \in held
        /\ hp[p] = "issue" => Given(<<Dev(tok[p]), out[p]>>)
        /\ hp[p] \in {"rotate", "rotate-again", "refresh-access"} =>
                Gen(tok[p]) = 1 \/ Gen(tok[p]) <= floor[p]

\* What an update returned is settled.
UpdatesSettled ==
    \A p \in Proc : pc[p] = "updated" /\ res[p] = "ok" => new[p] \in 1..settled[dev[p]]

\* The Redis lock of a token has one holder.
HoldersApart == \A p, q \in holds : tok[p] = tok[q] => p = q

SessionInv ==
    /\ DeviceInv /\ ReadsInv
    /\ STypeOK /\ (\A p \in Proc : InPlace(p)) /\ HoldersApart
    /\ UpdatesSettled /\ TokensGiven /\ OnlyOldTokensAreReuse

\* p has made the next generation and not yet answered with it.
Bumped(p) ==
    \/ hp[p] = "update" /\ (pc[p] \in PastUpdate \/ (pc[p] = "updated" /\ res[p] = "ok"))
    \/ hp[p] = "issue"

\* p is creating a device.
LoggingIn(p) == hp[p] \in {"login", "login-issue", "login-undo"}

(***************************************************************************)
(* The shapes of the handlers' steps.                                      *)
(***************************************************************************)
Statuses == {0, 200, 401, 500}
Quiet == UNCHANGED <<db, cache, loader, aged, history>> /\ MayFail
NoCall(p) == Enter({p}, "idle", None, None) \/ (hp[p] \in Between /\ UNCHANGED <<pc, args, locals>>)

\* The handler of p goes on at h: with no call, or with the one that belongs there.
Moves(p, h) ==
    LET d == Dev(tok[p]) IN
    /\ To(p, h) /\ UNCHANGED rest /\ Quiet
    /\ status' \in [Proc -> Statuses]
    /\ UNCHANGED status \/ \E s : status' = [status EXCEPT ![p] = s]
    /\ hp[p] \notin {"free", "flight", "join", "landed", "reply"}
    /\ h \in {"reply", "username", "rotate-again", "update", "issue", "reuse",
              "access-username", "access-issue", "access-reuse", "logout-delete",
              "me-devices", "me-user", "login-issue", "login-undo"}
    /\ hp[p] \in Rotating <=> h \in Rotating
    /\ pc[p] \in {"idle", "got", "updated", "deleted"}
    /\ \/ h \in Between /\ NoCall(p)
       \/ h \in Verifying /\ Enter({p}, "get", d, None)
       \/ /\ h = "update" /\ Enter({p}, "bump", d, None)
          /\ Answered(p, "rotate-again", "got") /\ Verified(p, Gen(tok[p]))
       \/ h \in Removing \ {"me-devices"} /\ Enter({p}, "del", d, subject[d])
       \/ h = "me-devices" /\ Enter({p}, "delall", None, subject[d])
    /\ h = "username" => Answered(p, "rotate", "got")
    /\ h = "rotate-again" => hp[p] = "username"
    /\ h \in {"reuse", "access-reuse"} =>
        /\ Revoked(p, Gen(tok[p])) /\ pc[p] = "got"
        /\ hp[p] \in {"rotate", "rotate-again", "refresh-access"}
    /\ h \in {"login-issue", "login-undo"} => LoggingIn(p)
    /\ LoggingIn(p) => \/ h = "login-issue"
                       \/ h = "login-undo" /\ pc[p] = "got" /\ ~Verified(p, 1)
                       \/ h = "reply" /\ Answered(p, "login-undo", "deleted")
    /\ IF h = "issue"
       THEN /\ Answered(p, "update", "updated") /\ res[p] = "ok"
            /\ out' = [out EXCEPT ![p] = new[p]]
       ELSE out' = out /\ ~Bumped(p)

\* The flight of p lands with status s.
Lands(p, s) ==
    /\ hp' = [q \in Proc |-> IF q \in Landing(p) THEN "landed" ELSE hp[q]]
    /\ status' = [q \in Proc |-> IF q \in Landing(p) THEN s ELSE status[q]]
    /\ leads' = leads \ {p} /\ holds' = holds \ {p}
    /\ locked' = IF p \in holds THEN locked \ {tok[p]} ELSE locked
    /\ \/ /\ s = 200 /\ Answered(p, "issue", "got") /\ Verified(p, out[p])
          /\ \/ results' = results \cup {<<tok[p], out[p]>>} /\ (Redis => p \in holds)
             \/ results' = results /\ (Fault \/ (Redis /\ p \notin holds))
          /\ held' = held \cup {<<Dev(tok[p]), out[p]>>}
          /\ spent' = spent \cup {tok[p]}
       \/ /\ s \in Statuses \ {200} /\ UNCHANGED <<results, held, spent>>
          /\ Bumped(p) => Answered(p, "issue", "got") /\ ~Verified(p, out[p])
    /\ UNCHANGED <<tok, out, subject, replays>> /\ Quiet
    /\ hp[p] \in Rotating /\ NoCall(p)
    /\ pc[p] \in {"idle", "got", "updated", "deleted"}

\* p begins to run the flight of its token, under the lock or, when it fails or when
\* waiting took too long, without.
Leads(p) ==
    /\ At(p, "flight") /\ SameFlight(p) \cap leads = {}
    /\ leads' = leads \cup {p} /\ To(p, "rotate")
    /\ Enter({p}, "get", Dev(tok[p]), None) /\ Quiet
    /\ \/ /\ Stored(tok[p]) = {} /\ Unlocked(tok[p])
          /\ holds' = IF Redis THEN holds \cup {p} ELSE holds
          /\ locked' = IF Redis THEN locked \cup {tok[p]} ELSE locked
       \/ /\ Redis /\ (Timeouts \/ Fault)
          /\ UNCHANGED <<holds, locked>>
    /\ UNCHANGED <<tok, out, status, subject, held, results, spent, replays>>

\* p joins a flight, or finds what one has stored.
Joins(p) ==
    /\ At(p, "flight") /\ UNCHANGED <<vars, tok, out, subject, flights, spent, replays>>
    /\ \/ /\ To(p, "join") /\ UNCHANGED <<status, held>>
          /\ \E q \in SameFlight(p) : q \in leads
       \/ /\ SameFlight(p) \cap leads = {}
          /\ To(p, "landed") /\ status' = [status EXCEPT ![p] = 200]
          /\ \E r \in Stored(tok[p]) : held' = held \cup {<<Dev(tok[p]), r[2]>>}

\* DELETE /users/me deletes the user.
DeletesUser(p) ==
    /\ At(p, "me-user") /\ Answer(p, 200) /\ UNCHANGED <<out, rest>>
    /\ \E u \in User : DeleteUser(u)
    /\ UNCHANGED faults

\* A login creates a device; it answers.
LoginBegins(p) ==
    /\ At(p, "free") /\ To(p, "login")
    /\ \E d \in Device, u \in User :
        /\ SaveDeviceSecret(d, u)
        /\ tok' = [tok EXCEPT ![p] = <<d, 1>>]
        /\ subject' = [subject EXCEPT ![d] = u]
    /\ UNCHANGED <<out, status, held, flights, spent, replays>>
LoginEnds(p) ==
    /\ Answered(p, "login-issue", "got") /\ Verified(p, 1)
    /\ Answer(p, 200) /\ EndCall(p)
    /\ held' = held \cup {tok[p]}
    /\ UNCHANGED <<tok, out, subject, flights, spent, replays>>

Shapes ==
    \/ \E p \in Proc :
        \/ \E h \in Places : Moves(p, h)
        \/ \E s \in Statuses : Lands(p, s)
        \/ Leads(p) \/ Joins(p) \/ DeletesUser(p) \/ LoginBegins(p) \/ LoginEnds(p)
        \/ Send(p) \/ Receive(p) \/ LoseLock(p) \/ (Step(p) /\ UNCHANGED sessions)
    \/ Outside /\ UNCHANGED sessions
    \/ \E r \in results : ExpireResult(r)
    \/ \E t \in locked : ExpireLock(t)
    \/ \E i \in Instance : SCrash(i)
    \/ UNCHANGED svars

\* What Shapes needs of the state.
Basic == STypeOK /\ (\A p \in Proc : InPlace(p)) /\ TokensGiven

\* A token in use names a device and a user.
LEMMA TokenTypes ==
  ASSUME Basic, NEW p \in Proc, hp[p] # "free"
  PROVE  /\ Dev(tok[p]) \in issued /\ Dev(tok[p]) \in Device
         /\ subject[Dev(tok[p])] \in User /\ Gen(tok[p]) \in Nat \ {0}
<1>1. Given(tok[p])
  BY DEF Basic, TokensGiven
<1>2. Dev(tok[p]) \in issued /\ issued \subseteq Device
  BY <1>1 DEF Basic, Given, STypeOK, TypeOK, TableType
<1>3. Last(Dev(tok[p])) \in Nat
  BY <1>2 DEF Basic, Last, STypeOK, TypeOK, HistoryType
<1> QED
  BY <1>1, <1>2, <1>3 DEF Basic, Given, STypeOK

\* Every step of the handlers has one of the shapes.
LEMMA HaveShapes ==
  ASSUME Basic, [SNext]_svars
  PROVE  Shapes
<1> USE DEF Basic, At, Answered, stored, Quiet, MayFail, rest, StartCall, EndCall, history
<1>0. \A p \in Proc : InPlace(p)
  OBVIOUS
<1>1. ASSUME NEW p \in Proc, Refresh(p) PROVE Shapes
  <2>1. Joins(p) \/ Leads(p)
    BY <1>1 DEF Refresh, Joins, Leads, Rotate, flights, db
  <2> QED
    BY <2>1 DEF Shapes
<1>2. ASSUME NEW p \in Proc, NEW s \in Statuses \ {200}, Finish(p, s), hp[p] \in Rotating,
             pc[p] \in {"idle", "got", "updated", "deleted"},
             Bumped(p) => Answered(p, "issue", "got") /\ ~Verified(p, out[p])
      PROVE  Shapes
  <2>1. Lands(p, s)
    BY <1>2 DEF Finish, Land, Lands, NoCall, Statuses
  <2> QED
    BY <2>1 DEF Shapes, Statuses
<1>3. ASSUME NEW p \in Proc, NEW h, DeleteOnReuse(p, h), pc[p] = "got",
             \/ hp[p] \in {"rotate", "rotate-again"} /\ h = "reuse"
             \/ hp[p] = "refresh-access" /\ h = "access-reuse"
      PROVE  Shapes
  <2>1. Moves(p, h)
    BY <1>3 DEF DeleteOnReuse, Moves, Rotating, Removing, LoggingIn, Bumped, PastUpdate, Statuses,
        STypeOK
  <2> QED
    BY <1>3, <2>1 DEF Shapes, Places, Removing
<1>4. ASSUME NEW p \in Proc, RotateVerify(p) PROVE Shapes
  <2>1. CASE Verified(p, Gen(tok[p])) /\ To(p, "username") /\ EndCall(p)
             /\ UNCHANGED <<out, status, rest>>
    <3>1. Moves(p, "username")
      BY <1>4, <2>1 DEF RotateVerify, Moves, Rotating, Between, NoCall, LoggingIn, Bumped,
          PastUpdate, Statuses, STypeOK
    <3> QED
      BY <3>1 DEF Shapes, Places, Between
  <2> QED
    BY <1>2, <1>3, <1>4, <2>1 DEF RotateVerify, Rotating, Bumped, Statuses
<1>5. ASSUME NEW p \in Proc, RotateReused(p) PROVE Shapes
  BY <1>2, <1>5 DEF RotateReused, Rotating, Bumped, Statuses
<1>6. ASSUME NEW p \in Proc, RotateUsername(p) PROVE Shapes
  <2>0. pc[p] = "idle"
    BY <1>0, <1>6 DEF InPlace, Between, RotateUsername
  <2>1. CASE To(p, "rotate-again") /\ StartCall(p, "get", Dev(tok[p]), None)
             /\ UNCHANGED <<out, status, rest>>
    <3>1. Moves(p, "rotate-again")
      BY <1>6, <2>0, <2>1 DEF RotateUsername, Moves, Rotating, Verifying, LoggingIn, Bumped,
          Statuses, STypeOK
    <3> QED
      BY <3>1 DEF Shapes, Places, Verifying
  <2> QED
    BY <1>2, <1>6, <2>0, <2>1 DEF RotateUsername, Rotating, Bumped, Statuses
<1>7. ASSUME NEW p \in Proc, RotateAgain(p) PROVE Shapes
  <2>1. CASE Verified(p, Gen(tok[p])) /\ To(p, "update") /\ StartCall(p, "bump", Dev(tok[p]), None)
             /\ UNCHANGED <<out, status, rest>>
    <3>1. Moves(p, "update")
      BY <1>7, <2>1 DEF RotateAgain, Moves, Rotating, LoggingIn, Bumped, Statuses, STypeOK
    <3> QED
      BY <3>1 DEF Shapes, Places
  <2> QED
    BY <1>2, <1>3, <1>7, <2>1 DEF RotateAgain, Rotating, Bumped, Statuses
<1>8. ASSUME NEW p \in Proc, RotateUpdated(p) PROVE Shapes
  <2>1. CASE res[p] = "ok" /\ out' = [out EXCEPT ![p] = new[p]] /\ To(p, "issue")
             /\ StartCall(p, "get", Dev(tok[p]), None) /\ UNCHANGED <<status, rest>>
    <3>1. Moves(p, "issue")
      BY <1>8, <2>1 DEF RotateUpdated, Moves, Rotating, Verifying, LoggingIn, Statuses, STypeOK
    <3> QED
      BY <3>1 DEF Shapes, Places, Verifying
  <2> QED
    BY <1>2, <1>8, <2>1 DEF RotateUpdated, Rotating, Bumped, PastUpdate, Statuses
<1>9. ASSUME NEW p \in Proc, RotateIssue(p) PROVE Shapes
  <2>1. CASE Verified(p, out[p]) /\ Finish(p, 200)
    <3>1. Lands(p, 200)
      BY <1>9, <2>1 DEF RotateIssue, Finish, Land, Lands, Rotating, NoCall, Statuses
    <3> QED
      BY <3>1 DEF Shapes, Statuses
  <2> QED
    BY <1>2, <1>9, <2>1 DEF RotateIssue, Rotating, Statuses
<1>10. ASSUME NEW p \in Proc, RotateNotStored(p) PROVE Shapes
  <2>1. Lands(p, 200)
    BY <1>10 DEF RotateNotStored, Land, Lands, Rotating, NoCall, Statuses, CacheFault
  <2> QED
    BY <2>1 DEF Shapes, Statuses
<1>11. ASSUME NEW p \in Proc, Reply(p, 200) \/ Reply(p, 401) \/ Reply(p, 500),
              hp[p] \notin {"free", "flight", "join", "landed", "reply", "update"}, hp[p] \notin Rotating,
              LoggingIn(p) => Answered(p, "login-undo", "deleted"),
              pc[p] \in {"idle", "got", "updated", "deleted"}
       PROVE  Shapes
  <2>1. Moves(p, "reply")
    BY <1>11 DEF Reply, Answer, Moves, Rotating, Between, NoCall, Bumped, Statuses, STypeOK
  <2> QED
    BY <2>1 DEF Shapes, Places, Between
<1>12. ASSUME NEW p \in Proc, NEW h \in {"access-username", "me-user"},
              Continue(p, h, "idle", None, None), hp[p] \in {"refresh-access", "me-devices"},
              pc[p] \in {"got", "deleted"}
       PROVE  Shapes
  <2>1. Moves(p, h)
    BY <1>12 DEF Continue, Moves, Rotating, Between, NoCall, LoggingIn, Bumped, Statuses, STypeOK
  <2> QED
    BY <1>12, <2>1 DEF Shapes, Places, Between
<1>13. ASSUME NEW p \in Proc, RefreshAccess(p) PROVE Shapes
  <2>0. hp[p] = "access-username" => pc[p] = "idle"
    BY <1>0 DEF InPlace, Between
  <2>1. CASE Continue(p, "access-issue", "get", Dev(tok[p]), None) /\ hp[p] = "access-username"
    <3>1. Moves(p, "access-issue")
      BY <2>0, <2>1 DEF Continue, Moves, Rotating, Verifying, LoggingIn, Bumped, Statuses, STypeOK
    <3> QED
      BY <3>1 DEF Shapes, Places, Verifying
  <2>2. CASE Answered(p, "refresh-access", "got")
    BY <1>3, <1>11, <1>12, <1>13, <2>2 DEF RefreshAccess, Rotating, LoggingIn
  <2>3. CASE hp[p] # "refresh-access"
    BY <1>11, <1>13, <2>0, <2>1, <2>3 DEF RefreshAccess, Rotating, LoggingIn
  <2> QED
    BY <1>13, <2>2, <2>3 DEF RefreshAccess
<1>14. ASSUME NEW p \in Proc, Verify(p) PROVE Shapes
  BY <1>11, <1>14 DEF Verify, Rotating, LoggingIn
<1>15. ASSUME NEW p \in Proc, Logout(p) PROVE Shapes
  <2>1. CASE Answered(p, "logout", "got")
             /\ Continue(p, "logout-delete", "del", Dev(tok[p]), subject[Dev(tok[p])])
    <3>1. Moves(p, "logout-delete")
      BY <2>1 DEF Continue, Moves, Rotating, Removing, LoggingIn, Bumped, Statuses, STypeOK
    <3> QED
      BY <3>1 DEF Shapes, Places, Removing
  <2> QED
    BY <1>11, <1>15, <2>1 DEF Logout, Rotating, LoggingIn
<1>16. ASSUME NEW p \in Proc, DeleteMe(p) PROVE Shapes
  <2>1. CASE Answered(p, "me", "got")
             /\ Continue(p, "me-devices", "delall", None, subject[Dev(tok[p])])
    <3>1. Moves(p, "me-devices")
      BY <2>1 DEF Continue, Moves, Rotating, Removing, LoggingIn, Bumped, Statuses, STypeOK
    <3> QED
      BY <3>1 DEF Shapes, Places, Removing
  <2>2. CASE At(p, "me-user") /\ DeleteUser(subject[Dev(tok[p])]) /\ UNCHANGED faults
             /\ Answer(p, 200) /\ UNCHANGED <<out, rest>>
    <3>1. subject[Dev(tok[p])] \in User
      BY <2>2, TokenTypes
    <3>2. DeletesUser(p)
      BY <2>2, <3>1 DEF DeletesUser
    <3> QED
      BY <3>2 DEF Shapes
  <2> QED
    BY <1>11, <1>12, <1>16, <2>1, <2>2 DEF DeleteMe, Rotating, LoggingIn
<1>17. ASSUME NEW p \in Proc, Login(p) PROVE Shapes
  <2>1. CASE LoginBegins(p) \/ LoginEnds(p)
    BY <2>1 DEF Shapes
  <2>2. CASE Answered(p, "login", "idle") /\ Continue(p, "login-issue", "get", Dev(tok[p]), None)
    <3>1. Moves(p, "login-issue")
      BY <2>2 DEF Continue, Moves, Rotating, Verifying, LoggingIn, Bumped, Statuses, STypeOK
    <3> QED
      BY <3>1 DEF Shapes, Places, Verifying
  <2>3. CASE Answered(p, "login-issue", "got") /\ ~Verified(p, 1)
             /\ Continue(p, "login-undo", "del", Dev(tok[p]), subject[Dev(tok[p])])
    <3>1. Moves(p, "login-undo")
      BY <2>3 DEF Continue, Moves, Rotating, Removing, LoggingIn, Bumped, Statuses, STypeOK
    <3> QED
      BY <3>1 DEF Shapes, Places, Removing
  <2>4. CASE Answered(p, "login-undo", "deleted") /\ Reply(p, 500)
    BY <1>11, <2>4 DEF Rotating, LoggingIn
  <2> QED
    BY <1>17, <2>1, <2>2, <2>3, <2>4 DEF Login, LoginBegins, LoginEnds
<1>18. ASSUME NEW p \in Proc, RefreshUnlocked(p) PROVE Shapes
  <2>1. Leads(p)
    BY <1>18 DEF RefreshUnlocked, Leads, RedisFails, CacheFault
  <2> QED
    BY <2>1 DEF Shapes
<1>19. ASSUME NEW p \in Proc, UsersFault(p) PROVE Shapes
  <2>0. pc[p] = "idle" /\ hp[p] \in Between
    BY <1>0, <1>19 DEF UsersFault, InPlace, Between
  <2>1. CASE At(p, "username") /\ Land(p, 500, TRUE)
    <3>1. Lands(p, 500)
      BY <1>19, <2>0, <2>1 DEF UsersFault, Land, Lands, Rotating, NoCall, Statuses, Bumped
    <3> QED
      BY <3>1 DEF Shapes, Statuses
  <2>2. CASE hp[p] \in {"access-username", "me-user"} /\ Answer(p, 500) /\ UNCHANGED <<out, rest>>
    <3>0. status' = [status EXCEPT ![p] = 500]
      BY <2>2 DEF Answer
    <3>1. status' \in [Proc -> Statuses] /\ \E s : status' = [status EXCEPT ![p] = s]
      <4>1. status \in [Proc -> Statuses] /\ 500 \in Statuses
        BY DEF STypeOK, Statuses
      <4>2. [status EXCEPT ![p] = 500] \in [Proc -> Statuses]
        BY <4>1
      <4>3. \E s : status' = [status EXCEPT ![p] = s]
        BY <3>0, Zenon
      <4> QED
        BY <3>0, <4>2, <4>3, Zenon
    <3>2. ~LoggingIn(p) /\ ~Bumped(p) /\ hp[p] \notin Rotating /\ "reply" \notin Rotating
      BY <2>2 DEF LoggingIn, Bumped, Rotating
    <3>3. To(p, "reply") /\ UNCHANGED rest /\ out' = out /\ Quiet /\ NoCall(p)
      BY <1>19, <2>0, <2>2 DEF UsersFault, Answer, NoCall
    <3>4. Moves(p, "reply")
      <4>1. "reply" \in Between
        BY DEF Between
      <4> QED
        BY <2>0, <2>2, <3>1, <3>2, <3>3, <4>1 DEF Moves
    <3> QED
      BY <3>4 DEF Shapes, Places, Between
  <2> QED
    BY <1>19, <2>1, <2>2 DEF UsersFault
<1> QED
  BY <1>1, <1>4, <1>5, <1>6, <1>7, <1>8, <1>9, <1>10, <1>13, <1>14, <1>15, <1>16, <1>17,
     <1>18, <1>19 DEF SNext, Handle, RotateStep, Shapes

(***************************************************************************)
(* The store under the handlers.                                           *)
(***************************************************************************)
\* The steps of the handlers are steps the store allows.
LEMMA ShapesUseStore ==
  ASSUME Basic, Shapes
  PROVE  StoreNext
<1>0. \A p \in Proc : InPlace(p)
  BY DEF Basic
<1>a. None \in Device \cup {None} /\ None \in User \cup {None}
  OBVIOUS
<1>b. ASSUME NEW p \in Proc, pc[p] \in {"idle", "got", "updated", "deleted"}, Quiet,
             NEW l \in {"idle", "get", "bump", "del", "delall"}, NEW d \in Device \cup {None},
             NEW u \in User \cup {None}, l \in {"get", "bump", "del"} => d \in issued,
             Enter({p}, l, d, u)
      PROVE  StoreNext
  <2>1. Turn(p)
    BY <1>b DEF Turn, Quiet
  <2> QED
    BY <2>1 DEF StoreNext
<1>c. ASSUME Quiet, UNCHANGED <<pc, args, locals>> PROVE StoreNext
  BY <1>c DEF StoreNext, Elsewhere, Quiet
<1>1. ASSUME NEW p \in Proc, NEW h, Moves(p, h) PROVE StoreNext
  <2>1. hp[p] # "free" /\ Quiet /\ pc[p] \in {"idle", "got", "updated", "deleted"}
    BY <1>1 DEF Moves
  <2>2. Dev(tok[p]) \in issued /\ Dev(tok[p]) \in Device /\ subject[Dev(tok[p])] \in User
    BY <2>1, TokenTypes
  <2> QED
    BY <1>a, <1>b, <1>c, <1>1, <2>1, <2>2 DEF Moves, NoCall
<1>2. ASSUME NEW p \in Proc, NEW s, Lands(p, s) PROVE StoreNext
  BY <1>a, <1>b, <1>c, <1>2 DEF Lands, NoCall
<1>3. ASSUME NEW p \in Proc, Leads(p) PROVE StoreNext
  <2>1. pc[p] = "idle" /\ hp[p] # "free"
    BY <1>0, <1>3 DEF Leads, At, InPlace, Between
  <2>2. Dev(tok[p]) \in issued /\ Dev(tok[p]) \in Device
    BY <2>1, TokenTypes
  <2> QED
    BY <1>a, <1>b, <1>3, <2>1, <2>2 DEF Leads
<1>4. ASSUME NEW p \in Proc, Joins(p) \/ Receive(p) PROVE StoreNext
  BY <1>c, <1>4 DEF Joins, Receive, vars, Quiet, MayFail, args, locals, history
<1>5. ASSUME NEW p \in Proc, DeletesUser(p) PROVE StoreNext
  BY <1>5 DEF DeletesUser, StoreNext, MayFail
<1>6. ASSUME NEW p \in Proc, LoginBegins(p) PROVE StoreNext
  BY <1>6 DEF LoginBegins, StoreNext
<1>7. ASSUME NEW p \in Proc, LoginEnds(p) PROVE StoreNext
  BY <1>a, <1>b, <1>7 DEF LoginEnds, Answered, EndCall, stored, Quiet, MayFail
<1>8. ASSUME NEW p \in Proc, Send(p) PROVE StoreNext
  <2>1. pc[p] = "idle"
    BY <1>0, <1>8 DEF Send, At, InPlace, Between
  <2>2. \A t \in held : Dev(t) \in issued /\ Dev(t) \in Device
    BY DEF Basic, TokensGiven, Given, STypeOK, TypeOK, TableType
  <2>3. CASE UNCHANGED vars
    BY <1>c, <2>3 DEF vars, Quiet, MayFail, args, locals, history
  <2>4. CASE \E t \in held : StartCall(p, "get", Dev(t), None)
    BY <1>a, <1>b, <2>1, <2>2, <2>4 DEF StartCall, stored, Quiet, MayFail
  <2> QED
    BY <1>8, <2>3, <2>4 DEF Send
<1>9. ASSUME (\E r \in results : ExpireResult(r)) \/ (\E t \in locked : ExpireLock(t))
             \/ (\E q \in Proc : LoseLock(q)) \/ UNCHANGED svars
      PROVE  StoreNext
  BY <1>c, <1>9 DEF ExpireResult, ExpireLock, LoseLock, RedisFails, CacheFault, svars, vars,
      Quiet, MayFail, args, locals, history
<1>10. ASSUME NEW i \in Instance, SCrash(i) PROVE StoreNext
  BY <1>10 DEF SCrash, StoreNext
<1> QED
  BY <1>1, <1>2, <1>3, <1>4, <1>5, <1>6, <1>7, <1>8, <1>9, <1>10 DEF Shapes, StoreNext

\* What only grows: the devices issued, their generations and what is settled.
LEMMA StoreGrows ==
  ASSUME TypeOK, StoreNext
  PROVE  /\ issued \subseteq issued'
         /\ \A d \in Device : settled'[d] >= settled[d]
         /\ \A d \in issued : gen'[d] >= gen[d] /\ (d \in rows' => d \in rows)
<1> USE DEF db, history
<1>1. ASSUME NEW p \in Proc, Reread(p) \/ Publish(p)
      PROVE  issued' = issued /\ gen' = gen /\ rows' = rows
             /\ \A d \in Device : settled'[d] >= settled[d]
  BY <1>1 DEF Reread, Publish, Settle, TypeOK, HistoryType, LocalType
<1>2. ASSUME NEW p \in Proc, Bump(p)
      PROVE  issued' = issued /\ settled' = settled /\ rows' = rows
             /\ \A d \in Device : gen'[d] >= gen[d]
  BY <1>2 DEF Bump, TypeOK, TableType
<1>3. ASSUME NEW d \in Device, NEW u \in User, SaveDeviceSecret(d, u)
      PROVE  /\ issued \subseteq issued' /\ settled' = settled
             /\ \A e \in issued : gen'[e] >= gen[e] /\ (e \in rows' => e \in rows)
  BY <1>3 DEF SaveDeviceSecret, TypeOK, TableType
<1>4. ASSUME NEW p \in Proc, Turn(p) \/ Step(p), ~Reread(p), ~Publish(p), ~Bump(p)
      PROVE  issued' = issued /\ settled' = settled /\ gen' = gen /\ rows' \subseteq rows
  BY <1>4 DEF Turn, Step, CacheGet, LoadDo, LoadQuery, LoadSet, LoadReturn, Peek,
      DeleteDevice, DeleteAllDevices, DeleteRows, Bury
<1>5. ASSUME Outside \/ (\E u \in User : DeleteUser(u)) \/ (\E i \in Instance : Crash(i))
             \/ Elsewhere
      PROVE  issued' = issued /\ settled' = settled /\ gen' = gen /\ rows' \subseteq rows
  BY <1>5 DEF Outside, CreateUser, DeleteUser, ChangeEmail, CleanupOldDevices, Expire, Evict,
      Crash, Elsewhere
<1>6. \A d \in Device : settled[d] \in Nat /\ gen[d] \in Nat
  BY DEF TypeOK, HistoryType, TableType
<1>7. issued \subseteq Device
  BY DEF TypeOK, TableType
<1>8. CASE \E p \in Proc : Reread(p) \/ Publish(p)
  BY <1>1, <1>6, <1>7, <1>8
<1>9. CASE \E p \in Proc : Bump(p)
  BY <1>2, <1>6, <1>7, <1>9
<1>10. CASE \E d \in Device, u \in User : SaveDeviceSecret(d, u)
  BY <1>3, <1>6, <1>7, <1>10
<1>11. CASE issued' = issued /\ settled' = settled /\ gen' = gen /\ rows' \subseteq rows
  BY <1>6, <1>7, <1>11
<1> QED
  BY <1>4, <1>5, <1>8, <1>9, <1>10, <1>11 DEF StoreNext

\* What an update returned stays settled.
LEMMA UpdatesSettledNext ==
  ASSUME TypeOK, GenerationsKnown, UpdatesSettled, StoreNext
  PROVE  UpdatesSettled'
<1> USE DEF args, locals, db, history
<1>0. \A d \in Device : settled'[d] >= settled[d] /\ settled[d] \in Nat
  BY StoreGrows DEF TypeOK, HistoryType
<1>1. ASSUME \A q \in Proc : pc'[q] = "updated" /\ res'[q] = "ok" =>
                 /\ pc[q] = "updated" /\ res[q] = "ok" /\ dev'[q] = dev[q] /\ new'[q] = new[q],
             UNCHANGED settled
      PROVE  UpdatesSettled'
  BY <1>1 DEF UpdatesSettled
<1>2. ASSUME NEW p \in Proc, Reread(p) \/ Publish(p) PROVE UpdatesSettled'
  <2>1. \A q \in Proc \ {p} : pc'[q] = pc[q] /\ res'[q] = res[q]
    BY <1>2 DEF Reread, Publish, Goto, Result, TypeOK, ControlType, LocalType
  <2>2. dev' = dev /\ new' = new
    BY <1>2 DEF Reread, Publish
  <2>3. dev[p] \in Device /\ new[p] \in 1..gen[dev[p]] /\ gen[dev[p]] \in Nat
    BY <1>2 DEF Reread, Publish, GenerationsKnown, Known, PastUpdate, TypeOK, ControlType, TableType
  <2>4. pc'[p] = "updated" => settled'[dev[p]] >= new[p] /\ settled'[dev[p]] \in Nat
    BY <1>2, <2>3 DEF Reread, Publish, Goto, Settle, TypeOK, ControlType, HistoryType
  <2>5. \A q \in Proc : pc[q] = "updated" => dev[q] \in Device
    BY DEF TypeOK, ControlType, TableType
  <2>6. \A d \in Device : settled'[d] \in Nat
    BY <1>2 DEF Reread, Publish, Settle, TypeOK, HistoryType, LocalType
  <2> QED
    BY <1>0, <2>1, <2>2, <2>3, <2>4, <2>5, <2>6 DEF UpdatesSettled
<1>3. ASSUME NEW p \in Proc, Turn(p) PROVE UpdatesSettled'
  BY <1>1, <1>3 DEF Turn, Enter
<1>4. ASSUME NEW p \in Proc, CacheGet(p) \/ LoadDo(p) \/ LoadQuery(p) \/ LoadSet(p) \/ Peek(p)
      PROVE  UpdatesSettled'
  BY <1>1, <1>4 DEF CacheGet, LoadDo, LoadQuery, LoadSet, Peek, Goto, Result, TypeOK,
      ControlType, LocalType
<1>5. ASSUME NEW p \in Proc, LoadReturn(p) PROVE UpdatesSettled'
  BY <1>1, <1>5 DEF LoadReturn, Waiters
<1>6. ASSUME NEW p \in Proc, Bump(p) PROVE UpdatesSettled'
  BY <1>1, <1>6 DEF Bump, Goto, Result, TypeOK, ControlType, LocalType
<1>7. ASSUME NEW p \in Proc, DeleteDevice(p) \/ DeleteAllDevices(p) PROVE UpdatesSettled'
  BY <1>1, <1>7 DEF DeleteDevice, DeleteAllDevices, DeleteRows, Goto, Result, TypeOK,
      ControlType, LocalType
<1>8. ASSUME NEW p \in Proc, Bury(p) PROVE UpdatesSettled'
  BY <1>1, <1>8 DEF Bury, Goto, Result, TypeOK, ControlType, LocalType
<1>9. ASSUME NEW d \in Device, NEW u \in User, SaveDeviceSecret(d, u) PROVE UpdatesSettled'
  BY <1>1, <1>9 DEF SaveDeviceSecret
<1>10. ASSUME Outside \/ (\E u \in User : DeleteUser(u)) \/ Elsewhere PROVE UpdatesSettled'
  BY <1>1, <1>10 DEF Outside, CreateUser, DeleteUser, ChangeEmail, CleanupOldDevices, Expire,
      Evict, Elsewhere
<1>11. ASSUME NEW i \in Instance, Crash(i) PROVE UpdatesSettled'
  BY <1>1, <1>11 DEF Crash, Enter
<1> QED
  BY <1>2, <1>3, <1>4, <1>5, <1>6, <1>7, <1>8, <1>9, <1>10, <1>11 DEF StoreNext, Step

(***************************************************************************)
(* Handlers and their calls are in step.                                   *)
(***************************************************************************)
\* A step of a call stays inside the call, also for who waits in its load.
LEMMA StepInside ==
  ASSUME TypeOK, NEW p \in Proc, Step(p)
  PROVE  /\ dev' = dev /\ floor' = floor /\ user' = user /\ issued' = issued
         /\ \A q \in Proc :
             /\ pc[q] = "idle" => pc'[q] = "idle"
             /\ pc[q] \in Reading => pc'[q] \in Reading
             /\ pc[q] \in Updating => pc'[q] \in Updating
             /\ pc[q] \in Deleting => pc'[q] \in Deleting
<1> USE DEF args, locals, db, history, Reading, Updating, Deleting, TypeOK, ControlType
<1>1. CASE CacheGet(p) \/ LoadDo(p) \/ LoadQuery(p) \/ LoadSet(p)
  BY <1>1 DEF CacheGet, LoadDo, LoadQuery, LoadSet, Goto
<1>2. CASE LoadReturn(p)
  BY <1>2 DEF LoadReturn, Waiters
<1>3. CASE Bump(p) \/ Peek(p) \/ Reread(p) \/ Publish(p)
  BY <1>3 DEF Bump, Peek, Reread, Publish, Goto
<1>4. CASE DeleteDevice(p) \/ DeleteAllDevices(p)
  BY <1>4 DEF DeleteDevice, DeleteAllDevices, DeleteRows, Goto
<1>5. CASE Bury(p)
  BY <1>5 DEF Bury, Goto
<1> QED
  BY <1>1, <1>2, <1>3, <1>4, <1>5 DEF Step

\* Every step keeps handlers and calls together.
LEMMA InPlaceNext ==
  ASSUME Basic, Shapes
  PROVE  (\A p \in Proc : InPlace(p))'
<1>0. /\ \A p \in Proc : InPlace(p)
      /\ hp \in [Proc -> Places] /\ tok \in [Proc -> (Device \cup {None}) \X Nat] /\ leads \subseteq Proc
  BY DEF Basic, STypeOK
<1> DEFINE Same(q) == /\ hp'[q] = hp[q] /\ tok'[q] = tok[q] /\ pc'[q] = pc[q] /\ dev'[q] = dev[q]
                      /\ q \in leads' <=> q \in leads
<1> DEFINE Kept == (\A p \in Proc : InPlace(p))'
<1>a. ASSUME NEW q \in Proc, Same(q) PROVE InPlace(q)'
  BY <1>0, <1>a DEF InPlace
<1>1. ASSUME NEW p \in Proc, NEW h, Moves(p, h) PROVE Kept
  <2>1. tok' = tok /\ leads' = leads /\ hp' = [hp EXCEPT ![p] = h]
    BY <1>0, <1>1 DEF Moves, rest, flights, To
  <2>2. \A q \in Proc \ {p} : Same(q)
    BY <1>0, <1>1, <2>1 DEF Moves, NoCall, Enter, args
  <2>3. InPlace(p)'
    <3>1. p \in leads' <=> h \in Rotating
      BY <1>0, <1>1, <2>1 DEF Moves, InPlace
    <3>2. CASE h \in Between /\ NoCall(p)
      <4>1. pc'[p] = "idle"
        BY <1>0, <3>2 DEF NoCall, Enter, InPlace
      <4> QED
        BY <1>1, <2>1, <3>1, <3>2, <4>1, <1>0 DEF InPlace, Moves, Between, Verifying, Removing, Rotating
    <3>3. CASE h \in Verifying /\ Enter({p}, "get", Dev(tok[p]), None)
      BY <1>0, <1>1, <2>1, <3>1, <3>3 DEF Moves, InPlace, Enter, Between, Verifying, Removing, Reading
    <3>4. CASE h = "update" /\ Enter({p}, "bump", Dev(tok[p]), None)
      BY <1>0, <1>1, <2>1, <3>1, <3>4 DEF Moves, InPlace, Enter, Between, Verifying, Removing, Updating
    <3>5. CASE h \in Removing /\ (\/ Enter({p}, "del", Dev(tok[p]), subject[Dev(tok[p])])
                                  \/ Enter({p}, "delall", None, subject[Dev(tok[p])]))
      BY <1>0, <1>1, <2>1, <3>1, <3>5 DEF Moves, InPlace, Enter, Between, Verifying, Removing, Deleting
    <3> QED
      BY <1>1, <3>2, <3>3, <3>4, <3>5 DEF Moves, Removing
  <2> QED
    BY <1>a, <2>2, <2>3
<1>2. ASSUME NEW p \in Proc, NEW s, Lands(p, s) PROVE Kept
  <2>1. \A q \in Proc \ Landing(p) : Same(q)
    BY <1>0, <1>2 DEF Lands, Landing, NoCall, Enter, args
  <2>2. \A q \in Landing(p) : q \in Proc /\ hp'[q] = "landed" /\ pc'[q] = "idle" /\ q \notin leads'
    <3>1. \A q \in Landing(p) : q \in Proc /\ hp'[q] = "landed" /\ leads' = leads \ {p}
                                  /\ (q = p \/ hp[q] = "join")
      BY <1>2 DEF Lands, Landing, SameFlight
    <3>2. \A q \in Proc : hp[q] = "join" => pc[q] = "idle" /\ q \notin leads
      BY <1>0 DEF InPlace, Between, Rotating
    <3>3. pc'[p] = "idle" /\ \A q \in Proc : q # p => pc'[q] = pc[q]
      BY <1>0, <1>2 DEF Lands, NoCall, Enter, InPlace
    <3> QED
      BY <3>1, <3>2, <3>3
  <2>3. \A q \in Landing(p) : InPlace(q)'
    BY <2>2 DEF InPlace, Between, Verifying, Removing, Rotating
  <2> QED
    BY <1>a, <2>1, <2>3
<1>3. ASSUME NEW p \in Proc, Leads(p) PROVE Kept
  <2>1. \A q \in Proc \ {p} : Same(q)
    BY <1>0, <1>3 DEF Leads, To, Enter
  <2>2. hp'[p] = "rotate" /\ pc'[p] = "get" /\ dev'[p] = Dev(tok'[p]) /\ p \in leads'
    BY <1>0, <1>3 DEF Leads, To, Enter
  <2>3. InPlace(p)'
    BY <1>0, <2>2 DEF InPlace, Between, Verifying, Removing, Rotating, Reading
  <2> QED
    BY <1>a, <2>1, <2>3
<1>4. ASSUME NEW p \in Proc, Joins(p) PROVE Kept
  <2>1. \A q \in Proc \ {p} : Same(q)
    BY <1>0, <1>4 DEF Joins, To, flights, vars
  <2>2. /\ hp'[p] \in {"join", "landed"} /\ hp[p] = "flight" /\ pc'[p] = pc[p]
        /\ leads' = leads
    BY <1>0, <1>4 DEF Joins, At, To, flights, vars
  <2>3. InPlace(p)'
    BY <1>0, <2>2 DEF InPlace, Between, Verifying, Removing, Rotating
  <2> QED
    BY <1>a, <2>1, <2>3
<1>5. ASSUME NEW p \in Proc, DeletesUser(p) PROVE Kept
  <2>1. \A q \in Proc \ {p} : Same(q)
    BY <1>0, <1>5 DEF DeletesUser, Answer, To, rest, flights, DeleteUser, args
  <2>2. /\ hp'[p] = "reply" /\ hp[p] = "me-user" /\ pc'[p] = pc[p]
        /\ leads' = leads
    BY <1>0, <1>5 DEF DeletesUser, Answer, At, To, rest, flights, DeleteUser
  <2>3. InPlace(p)'
    BY <1>0, <2>2 DEF InPlace, Between, Verifying, Removing, Rotating
  <2> QED
    BY <1>a, <2>1, <2>3
<1>6. ASSUME NEW p \in Proc, LoginBegins(p) PROVE Kept
  <2>1. \A q \in Proc \ {p} : Same(q)
    BY <1>0, <1>6 DEF LoginBegins, To, flights, SaveDeviceSecret, args
  <2>2. /\ hp'[p] = "login" /\ hp[p] = "free" /\ pc'[p] = pc[p]
        /\ leads' = leads
    BY <1>0, <1>6 DEF LoginBegins, At, To, flights, SaveDeviceSecret
  <2>3. InPlace(p)'
    BY <1>0, <2>2 DEF InPlace, Between, Verifying, Removing, Rotating
  <2> QED
    BY <1>a, <2>1, <2>3
<1>7. ASSUME NEW p \in Proc, LoginEnds(p) PROVE Kept
  <2>1. \A q \in Proc \ {p} : Same(q)
    BY <1>0, <1>7 DEF LoginEnds, Answer, To, flights, EndCall, Enter
  <2>2. /\ hp'[p] = "reply" /\ hp[p] = "login-issue" /\ pc'[p] = "idle"
        /\ leads' = leads
    BY <1>0, <1>7 DEF LoginEnds, Answered, Answer, To, flights, EndCall, Enter
  <2>3. InPlace(p)'
    BY <1>0, <2>2 DEF InPlace, Between, Verifying, Removing, Rotating
  <2> QED
    BY <1>a, <2>1, <2>3
<1>8. ASSUME NEW p \in Proc, Send(p) PROVE Kept
  <2>1. \A q \in Proc \ {p} : Same(q)
    BY <1>0, <1>8 DEF Send, To, flights, StartCall, Enter, vars
  <2>2. hp[p] = "free" /\ pc[p] = "idle" /\ p \notin leads'
    BY <1>0, <1>8, RequestsAssumption DEF InPlace, Send, At, To, flights, Between, Rotating, Kinds
  <2>3. \/ hp'[p] = "flight" /\ pc'[p] = "idle"
        \/ /\ hp'[p] \in {"refresh-access", "verify", "logout", "me"}
           /\ pc'[p] = "get" /\ dev'[p] = Dev(tok'[p])
    <3>1. PICK t \in held, k \in Requests \ {"login"} :
            /\ tok' = [tok EXCEPT ![p] = t]
            /\ \/ k = "refresh" /\ To(p, "flight") /\ UNCHANGED vars
               \/ k # "refresh" /\ To(p, k) /\ StartCall(p, "get", Dev(t), None)
      BY <1>0, <1>8 DEF Send
    <3>2. k \in {"refresh", "refresh-access", "verify", "logout", "me"}
      BY RequestsAssumption DEF Kinds
    <3> QED
      BY <1>0, <2>2, <3>1, <3>2 DEF To, StartCall, Enter, vars
  <2>4. InPlace(p)'
    BY <2>2, <2>3 DEF InPlace, Between, Verifying, Removing, Rotating, Reading
  <2> QED
    BY <1>a, <2>1, <2>4
<1>9. ASSUME NEW p \in Proc, Receive(p) PROVE Kept
  <2>1. \A q \in Proc \ {p} : Same(q)
    BY <1>0, <1>9 DEF Receive, flights, vars
  <2>2. /\ hp'[p] = "free" /\ tok'[p] = NoToken /\ hp[p] \in {"reply", "landed"} /\ pc'[p] = pc[p]
        /\ leads' = leads
    BY <1>0, <1>9 DEF Receive, flights, vars
  <2>3. InPlace(p)'
    BY <1>0, <2>2 DEF InPlace, Between, Verifying, Removing, Rotating
  <2> QED
    BY <1>a, <2>1, <2>3
<1>10. ASSUME NEW p \in Proc, Step(p), UNCHANGED sessions PROVE Kept
  BY <1>0, <1>10, StepInside DEF InPlace, Basic, STypeOK, sessions, request, flights
<1>11. ASSUME (Outside /\ UNCHANGED sessions) \/ UNCHANGED svars PROVE Kept
  <2>1. hp' = hp /\ tok' = tok /\ leads' = leads /\ pc' = pc /\ dev' = dev
    BY <1>0, <1>11 DEF sessions, svars, vars, request, flights, Outside, CreateUser, DeleteUser,
        ChangeEmail, CleanupOldDevices, Expire, Evict, args
  <2> QED
    BY <1>a, <2>1
<1>12. ASSUME (\E r \in results : ExpireResult(r)) \/ (\E t \in locked : ExpireLock(t))
              \/ (\E q \in Proc : LoseLock(q))
       PROVE  Kept
  BY <1>a, <1>12 DEF ExpireResult, ExpireLock, LoseLock, vars, args, request
<1>13. ASSUME NEW i \in Instance, SCrash(i) PROVE Kept
  <2>1. \A q \in Proc : Home[q] # i => Same(q)
    BY <1>0, <1>13 DEF SCrash, Crash, Enter
  <2>2. \A q \in Proc : Home[q] = i =>
          hp'[q] = "free" /\ tok'[q] = NoToken /\ pc'[q] = "idle" /\ q \notin leads'
    BY <1>0, <1>13 DEF SCrash, Crash, Enter
  <2>3. \A q \in Proc : Home[q] = i => InPlace(q)'
    BY <2>2 DEF InPlace, Between, Verifying, Removing, Rotating
  <2> QED
    BY <1>a, <2>1, <2>3
<1> QED
  BY <1>1, <1>2, <1>3, <1>4, <1>5, <1>6, <1>7, <1>8, <1>9, <1>10, <1>11, <1>12, <1>13 DEF Shapes

(***************************************************************************)
(* Types and locks.                                                        *)
(***************************************************************************)
\* Every step keeps the types of the handlers' variables, and a lock has one holder.
LEMMA STypeNext ==
  ASSUME Basic, HoldersApart, Shapes
  PROVE  STypeOK' /\ HoldersApart'
<1>0. TypeOK' /\ issued \subseteq issued' /\ StoreNext
  BY ShapesUseStore, TypeNext, StoreGrows DEF Basic, STypeOK
<1>1. /\ \A p \in Proc : InPlace(p) /\ TypeOK
      /\ hp \in [Proc -> Places] /\ tok \in [Proc -> (Device \cup {None}) \X Nat]
      /\ out \in [Proc -> Nat] /\ status \in [Proc -> Statuses]
      /\ subject \in [Device -> User \cup {None}] /\ \A d \in issued : subject[d] \in User
      /\ held \subseteq issued \X Nat /\ spent \subseteq held
      /\ leads \subseteq Proc /\ holds \subseteq leads /\ replays \subseteq Proc
      /\ \A p \in holds : tok[p] \in locked
  BY DEF Basic, STypeOK, Statuses
<1> DEFINE Types ==
      /\ hp' \in [Proc -> Places] /\ tok' \in [Proc -> (Device \cup {None}) \X Nat]
      /\ out' \in [Proc -> Nat] /\ status' \in [Proc -> Statuses]
      /\ subject' \in [Device -> User \cup {None}] /\ \A d \in issued' : subject'[d] \in User
      /\ held' \subseteq issued' \X Nat /\ spent' \subseteq held' /\ replays' \subseteq Proc
<1> DEFINE Locks ==
      /\ leads' \subseteq Proc /\ holds' \subseteq leads'
      /\ \A p \in holds' : tok'[p] \in locked'
      /\ \A p, q \in holds' : tok'[p] = tok'[q] => p = q
<1>2. held \subseteq issued' \X Nat
  BY <1>0, <1>1
<1>3. ASSUME leads' = leads, holds' = holds, locked' = locked, \A p \in leads : tok'[p] = tok[p]
      PROVE  Locks
  BY <1>1, <1>3 DEF HoldersApart
<1>4. \A p \in leads : hp[p] \in Rotating
  BY <1>1 DEF InPlace
<1>5. \A d \in issued : issued' = issued => subject[d] \in User
  BY <1>1
<1>6. ASSUME NEW p \in Proc, NEW h, Moves(p, h) PROVE Types /\ Locks
  <2>1. /\ UNCHANGED <<tok, subject, held, leads, holds, locked, spent, replays, issued>>
        /\ status' \in [Proc -> Statuses]
    BY <1>6 DEF Moves, rest, flights, Quiet, db
  <2>2. hp' \in [Proc -> Places]
    BY <1>1, <1>6 DEF Moves, To, Places, Between, Verifying, Removing
  <2>3. out' \in [Proc -> Nat]
    BY <1>1, <1>6 DEF Moves, TypeOK, LocalType
  <2>4. Locks
    BY <1>3, <2>1
  <2> QED
    BY <1>1, <2>1, <2>2, <2>3, <2>4
<1>7. ASSUME NEW p \in Proc, NEW s \in Statuses, Lands(p, s) PROVE Types /\ Locks
  <2>1. /\ UNCHANGED <<tok, out, subject, replays, issued>> /\ hp[p] \in Rotating
    BY <1>7 DEF Lands, Quiet, db
  <2>2. hp' \in [Proc -> Places] /\ status' \in [Proc -> Statuses]
    BY <1>1, <1>7 DEF Lands, Places, Between, Verifying, Removing
  <2>3. hp[p] # "free" /\ tok[p] \in held /\ Dev(tok[p]) \in issued
    BY <2>1, TokenTypes DEF Rotating, Basic, TokensGiven
  <2>4. held' \subseteq issued \X Nat /\ spent' \subseteq held'
    BY <1>1, <1>7, <2>3 DEF Lands
  <2>5. Locks
    BY <1>1, <1>7, <2>1 DEF Lands, HoldersApart
  <2> QED
    BY <1>1, <2>1, <2>2, <2>4, <2>5
<1>8. ASSUME NEW p \in Proc, Leads(p) PROVE Types /\ Locks
  <2>1. UNCHANGED <<tok, out, status, subject, held, spent, replays, issued>>
    BY <1>8 DEF Leads, Quiet, db
  <2>2. hp' \in [Proc -> Places]
    BY <1>1, <1>8 DEF Leads, To, Places, Between, Verifying, Removing
  <2>3. p \notin leads
    BY <1>4, <1>8 DEF Leads, At, Rotating
  <2>4. Locks
    BY <1>1, <1>8, <2>1, <2>3, RedisAssumption DEF Leads, Unlocked, HoldersApart
  <2> QED
    BY <1>1, <2>1, <2>2, <2>4
<1>9. ASSUME NEW p \in Proc, Joins(p) PROVE Types /\ Locks
  <2>1. UNCHANGED <<tok, out, subject, leads, holds, locked, results, spent, replays, issued>>
    BY <1>9 DEF Joins, flights, vars, db
  <2>2. hp' \in [Proc -> Places] /\ status' \in [Proc -> Statuses]
    <3>1. {"join", "landed"} \subseteq Places /\ 200 \in Statuses
      BY DEF Statuses, Places, Between
    <3>2. /\ hp' = [hp EXCEPT ![p] = "join"] \/ hp' = [hp EXCEPT ![p] = "landed"]
          /\ status' = status \/ status' = [status EXCEPT ![p] = 200]
      BY <1>9 DEF Joins, To
    <3> QED
      BY <1>1, <3>1, <3>2
  <2>3. ASSUME NEW r \in Stored(tok[p]) PROVE <<Dev(tok[p]), r[2]>> \in issued \X Nat
    <3>1. r \in results /\ r[1] = tok[p]
      BY DEF Stored
    <3>2. Given(<<Dev(tok[p]), r[2]>>)
      BY <3>1 DEF Basic, TokensGiven
    <3> QED
      BY <1>1, <3>2 DEF Given, Dev, Gen, Last, TypeOK, TableType, HistoryType
  <2>4. held \subseteq held' /\ held' \subseteq issued \X Nat
    BY <1>1, <1>9, <2>3 DEF Joins
  <2>5. Locks
    BY <1>3, <2>1
  <2> QED
    BY <1>1, <2>1, <2>2, <2>4, <2>5
<1>10. ASSUME NEW p \in Proc, DeletesUser(p) PROVE Types /\ Locks
  <2>1. UNCHANGED <<tok, out, subject, held, leads, holds, locked, spent, replays, issued>>
    BY <1>10 DEF DeletesUser, rest, flights, DeleteUser
  <2>2. hp' \in [Proc -> Places] /\ status' \in [Proc -> Statuses]
    BY <1>1, <1>10 DEF DeletesUser, Answer, To, Statuses, Places, Between, Verifying, Removing
  <2>3. Locks
    BY <1>3, <2>1
  <2> QED
    BY <1>1, <2>1, <2>2, <2>3
<1>11. ASSUME NEW p \in Proc, LoginBegins(p) PROVE Types /\ Locks
  <2>1. UNCHANGED <<out, status, held, leads, holds, locked, spent, replays>> /\ hp[p] = "free"
    BY <1>11 DEF LoginBegins, At, flights
  <2>2. hp' \in [Proc -> Places]
    BY <1>1, <1>11 DEF LoginBegins, To, Places, Between, Verifying, Removing
  <2>3. PICK d \in Device, u \in User :
          /\ tok' = [tok EXCEPT ![p] = <<d, 1>>] /\ subject' = [subject EXCEPT ![d] = u]
          /\ issued' = issued \cup {d}
    BY <1>11 DEF LoginBegins, SaveDeviceSecret
  <2>4. /\ tok' \in [Proc -> (Device \cup {None}) \X Nat]
        /\ subject' \in [Device -> User \cup {None}] /\ \A e \in issued' : subject'[e] \in User
    BY <1>1, <2>3 DEF TypeOK, TableType
  <2>5. Locks
    BY <1>1, <1>3, <1>4, <2>1, <2>3 DEF Rotating
  <2> QED
    BY <1>1, <1>2, <2>1, <2>2, <2>4, <2>5
<1>12. ASSUME NEW p \in Proc, LoginEnds(p) PROVE Types /\ Locks
  <2>1. /\ UNCHANGED <<tok, out, subject, leads, holds, locked, spent, replays, issued>>
        /\ hp[p] = "login-issue" /\ held' = held \cup {tok[p]}
    BY <1>12 DEF LoginEnds, Answered, flights, EndCall, stored, db
  <2>2. hp' \in [Proc -> Places] /\ status' \in [Proc -> Statuses]
    BY <1>1, <1>12 DEF LoginEnds, Answer, To, Statuses, Places, Between, Verifying, Removing
  <2>3. tok[p] \in issued \X Nat
    <3>1. Dev(tok[p]) \in issued
      BY <2>1, TokenTypes
    <3> QED
      BY <1>1, <3>1 DEF Dev
  <2>4. Locks
    BY <1>3, <2>1
  <2> QED
    BY <1>1, <2>1, <2>2, <2>3, <2>4
<1>13. ASSUME NEW p \in Proc, Send(p) PROVE Types /\ Locks
  <2>1. UNCHANGED <<out, status, subject, held, leads, holds, locked, spent, issued>>
        /\ hp[p] = "free"
    BY <1>13 DEF Send, At, flights, StartCall, stored, vars, db
  <2>2. hp' \in [Proc -> Places]
    BY <1>1, <1>13, RequestsAssumption DEF Send, To, Kinds, Places, Between, Verifying, Removing
  <2>3. PICK t \in held : tok' = [tok EXCEPT ![p] = t]
    BY <1>13 DEF Send
  <2>4. tok' \in [Proc -> (Device \cup {None}) \X Nat] /\ replays' \subseteq Proc
    BY <1>1, <1>13, <2>3 DEF Send, TypeOK, TableType
  <2>5. Locks
    BY <1>1, <1>3, <1>4, <2>1, <2>3 DEF Rotating
  <2> QED
    BY <1>1, <2>1, <2>2, <2>4, <2>5
<1>14. ASSUME NEW p \in Proc, Receive(p) PROVE Types /\ Locks
  <2>1. UNCHANGED <<subject, held, leads, holds, locked, spent, issued>>
        /\ hp[p] \in {"reply", "landed"} /\ tok' = [tok EXCEPT ![p] = NoToken]
    BY <1>14 DEF Receive, flights, vars, db
  <2>2. /\ hp' \in [Proc -> Places] /\ tok' \in [Proc -> (Device \cup {None}) \X Nat]
        /\ out' \in [Proc -> Nat] /\ status' \in [Proc -> Statuses] /\ replays' \subseteq Proc
    BY <1>1, <1>14 DEF Receive, NoToken, Statuses, Places, Between, Verifying, Removing
  <2>3. Locks
    BY <1>1, <1>3, <1>4, <2>1 DEF Rotating
  <2> QED
    BY <1>1, <2>1, <2>2, <2>3
<1>15. ASSUME UNCHANGED sessions, issued' = issued PROVE Types /\ Locks
  <2>1. UNCHANGED <<hp, tok, out, status, subject, held, leads, holds, locked, spent, replays>>
    BY <1>15 DEF sessions, request, flights
  <2>2. Locks
    BY <1>3, <2>1
  <2> QED
    BY <1>1, <1>15, <2>1, <2>2
<1>16. ASSUME NEW p \in Proc, Step(p) PROVE issued' = issued
  BY <1>1, <1>16, StepInside
<1>17. ASSUME Outside PROVE issued' = issued
  BY <1>17 DEF Outside, CreateUser, DeleteUser, ChangeEmail, CleanupOldDevices, Expire, Evict, db
<1>18. ASSUME UNCHANGED svars PROVE UNCHANGED sessions /\ issued' = issued
  BY <1>18 DEF svars, vars, db
<1>19. ASSUME (\E r \in results : ExpireResult(r)) \/ (\E t \in locked : ExpireLock(t))
       PROVE  Types /\ Locks
  <2>1. UNCHANGED <<hp, tok, out, status, subject, held, leads, holds, spent, replays, issued>>
    BY <1>19 DEF ExpireResult, ExpireLock, vars, db, request
  <2>2. \A p \in holds : tok[p] \in locked'
    BY <1>1, <1>19 DEF ExpireResult, ExpireLock
  <2> QED
    BY <1>1, <2>1, <2>2 DEF HoldersApart
<1>20. ASSUME NEW q \in Proc, LoseLock(q) PROVE Types /\ Locks
  <2>1. /\ UNCHANGED <<hp, tok, out, status, subject, held, leads, locked, spent, replays, issued>>
        /\ holds' = holds \ {q}
    BY <1>20 DEF LoseLock, db, request
  <2>2. Locks
    BY <1>1, <2>1 DEF HoldersApart
  <2> QED
    BY <1>1, <2>1, <2>2
<1>21. ASSUME NEW i \in Instance, SCrash(i) PROVE Types /\ Locks
  <2>1. UNCHANGED <<subject, held, locked, spent, issued>>
    BY <1>21 DEF SCrash, Crash, db
  <2>2. /\ hp' \in [Proc -> Places] /\ tok' \in [Proc -> (Device \cup {None}) \X Nat]
        /\ out' \in [Proc -> Nat] /\ status' \in [Proc -> Statuses] /\ replays' \subseteq Proc
    BY <1>1, <1>21 DEF SCrash, NoToken, Statuses, Places, Between, Verifying, Removing
  <2>3. /\ leads' \subseteq leads /\ holds' \subseteq holds /\ holds' \subseteq leads'
        /\ \A p \in holds' : tok'[p] = tok[p]
    BY <1>1, <1>21 DEF SCrash
  <2>4. Locks
    BY <1>1, <2>1, <2>3 DEF HoldersApart
  <2> QED
    BY <1>1, <2>1, <2>2, <2>4
<1>22. Types /\ Locks
  BY <1>6, <1>7, <1>8, <1>9, <1>10, <1>11, <1>12, <1>13, <1>14, <1>15, <1>16, <1>17, <1>18,
     <1>19, <1>20, <1>21 DEF Shapes
<1> QED
  BY <1>0, <1>22 DEF STypeOK, HoldersApart, Statuses

(***************************************************************************)
(* Tokens.                                                                 *)
(***************************************************************************)
\* The part of TokensGiven that is about one request.
TokenGiven(p) ==
    /\ hp[p] # "free" => Given(tok[p])
    /\ hp[p] \in Rotating \cup {"flight"} => tok[p] \in held
    /\ hp[p] = "issue" => Given(<<Dev(tok[p]), out[p]>>)
    /\ hp[p] \in {"rotate", "rotate-again", "refresh-access"} =>
            Gen(tok[p]) = 1 \/ Gen(tok[p]) <= floor[p]

\* A token that was given stays so.
LEMMA GivenKept ==
  ASSUME TypeOK, StoreNext, NEW t, Given(t)
  PROVE  Given(t)'
<1>1. Dev(t) \in issued /\ Dev(t) \in Device /\ Dev(t) \in issued'
  BY StoreGrows DEF Given, TypeOK, TableType
<1>2. settled'[Dev(t)] >= settled[Dev(t)] /\ settled[Dev(t)] \in Nat /\ settled'[Dev(t)] \in Nat
  BY <1>1, StoreGrows, TypeNext DEF TypeOK, HistoryType
<1>3. Last(Dev(t))' >= Last(Dev(t)) /\ Last(Dev(t)) \in Nat /\ Last(Dev(t))' \in Nat
  BY <1>2 DEF Last
<1> QED
  BY <1>1, <1>3 DEF Given

\* Every token in a client's or a handler's hands is one that was given.
LEMMA TokensGivenNext ==
  ASSUME Basic, UpdatesSettled, Shapes
  PROVE  TokensGiven'
<1>0. /\ \A p \in Proc : InPlace(p) /\ TokenGiven(p)
      /\ TypeOK /\ hp \in [Proc -> Places] /\ tok \in [Proc -> (Device \cup {None}) \X Nat]
      /\ out \in [Proc -> Nat] /\ leads \subseteq Proc
  BY DEF Basic, STypeOK, TokensGiven, TokenGiven
<1>1. StoreNext
  BY ShapesUseStore
<1>2. \A t : Given(t) => Given(t)'
  BY <1>0, <1>1, GivenKept
<1>3. (\A t \in held : Given(t)) /\ (\A r \in results : Given(<<Dev(r[1]), r[2]>>))
  BY DEF Basic, TokensGiven
<1> DEFINE Same(q) == /\ hp'[q] = hp[q] /\ tok'[q] = tok[q] /\ out'[q] = out[q]
                      /\ floor'[q] = floor[q]
<1>4. ASSUME NEW q \in Proc, Same(q), held \subseteq held' PROVE TokenGiven(q)'
  BY <1>0, <1>2, <1>4 DEF TokenGiven
<1>5. ASSUME \A t \in held' : t \in held \/ Given(t),
             \A r \in results' : r \in results \/ Given(<<Dev(r[1]), r[2]>>),
             \A q \in Proc : TokenGiven(q)'
      PROVE  TokensGiven'
  BY <1>2, <1>3, <1>5 DEF TokensGiven, TokenGiven
\* A read that starts now has what is settled as its floor.
<1>6. ASSUME NEW t, Given(t) PROVE Gen(t) = 1 \/ Gen(t) <= settled[Dev(t)]
  BY <1>0, <1>6 DEF Given, Last, TypeOK, TableType, HistoryType
<1>7. ASSUME NEW p \in Proc, NEW h, Moves(p, h) PROVE TokensGiven'
  <2>1. /\ UNCHANGED <<tok, held, results>> /\ hp' = [hp EXCEPT ![p] = h]
        /\ hp[p] # "free"
    BY <1>7 DEF Moves, rest, flights, To
  <2>2. \A q \in Proc \ {p} : Same(q)
    BY <1>0, <1>7, <2>1 DEF Moves, NoCall, Enter, args
  <2>3. TokenGiven(p)'
    <3>1. hp'[p] = h /\ tok'[p] = tok[p] /\ Given(tok[p])'
      BY <1>0, <1>2, <2>1 DEF TokenGiven
    <3>2. h \in Rotating => tok'[p] \in held'
      BY <1>0, <1>7, <2>1 DEF Moves, TokenGiven
    <3>3. h = "issue" => Given(<<Dev(tok[p]), out[p]>>)'
      <4> SUFFICES ASSUME h = "issue" PROVE Given(<<Dev(tok[p]), out[p]>>)'
        OBVIOUS
      <4>1. out'[p] = new[p] /\ hp[p] = "update" /\ pc[p] = "updated" /\ res[p] = "ok"
        BY <1>0, <1>7 DEF Moves, Answered
      <4>2. dev[p] = Dev(tok[p]) /\ new[p] \in 1..settled[dev[p]]
        BY <1>0, <4>1 DEF InPlace, UpdatesSettled
      <4>3. Dev(tok[p]) \in issued /\ Dev(tok[p]) \in Device
        BY <2>1, TokenTypes
      <4>4. settled[dev[p]] \in Nat
        BY <1>0, <4>2, <4>3 DEF TypeOK, HistoryType
      <4>5. settled'[dev[p]] >= settled[dev[p]] /\ settled'[dev[p]] \in Nat
            /\ Dev(tok[p]) \in issued'
        BY <1>0, <1>1, <4>2, <4>3, StoreGrows, TypeNext DEF TypeOK, HistoryType
      <4> QED
        BY <2>1, <4>1, <4>2, <4>3, <4>4, <4>5 DEF Given, Dev, Gen, Last
    <3>4. h = "rotate-again" => floor'[p] = settled[Dev(tok[p])]
      BY <1>7 DEF Moves, Enter, Between, Verifying, Removing
    <3>5. h \notin {"rotate", "refresh-access", "flight"}
      BY <1>7 DEF Moves
    <3>6. Gen(tok[p]) = 1 \/ Gen(tok[p]) <= settled[Dev(tok[p])]
      BY <1>0, <1>6, <2>1 DEF TokenGiven
    <3> QED
      BY <3>1, <3>2, <3>3, <3>4, <3>5, <3>6 DEF TokenGiven
  <2> QED
    BY <1>4, <1>5, <2>1, <2>2, <2>3
<1>8. ASSUME NEW p \in Proc, NEW s, Lands(p, s) PROVE TokensGiven'
  <2>1. UNCHANGED <<tok, out>> /\ hp[p] \in Rotating /\ held \subseteq held'
    BY <1>8 DEF Lands
  <2>2. \A q \in Proc \ Landing(p) : Same(q)
    BY <1>0, <1>8, <2>1 DEF Lands, Landing, NoCall, Enter, args
  <2>3. \A q \in Landing(p) : q \in Proc /\ hp'[q] = "landed" /\ hp[q] # "free"
    BY <1>8 DEF Lands, Landing, SameFlight, Rotating
  <2>4. \A q \in Landing(p) : TokenGiven(q)'
    BY <1>0, <1>2, <2>1, <2>3 DEF TokenGiven, Rotating
  <2>5. hp[p] = "issue" => Given(<<Dev(tok[p]), out[p]>>)
    BY <1>0 DEF TokenGiven
  <2>6. \A t \in held' : t \in held \/ Given(t)
    BY <1>8, <2>5 DEF Lands, Answered
  <2>7. \A r \in results' : r \in results \/ Given(<<Dev(r[1]), r[2]>>)
    BY <1>8, <2>5 DEF Lands, Answered
  <2> QED
    BY <1>4, <1>5, <2>1, <2>2, <2>4, <2>6, <2>7
<1>9. ASSUME NEW p \in Proc, Leads(p) PROVE TokensGiven'
  <2>1. UNCHANGED <<tok, out, held, results>> /\ hp[p] = "flight"
    BY <1>9 DEF Leads, At
  <2>2. \A q \in Proc \ {p} : Same(q)
    BY <1>0, <1>9, <2>1 DEF Leads, To, Enter
  <2>3. hp'[p] = "rotate" /\ floor'[p] = settled[Dev(tok[p])]
    BY <1>0, <1>9 DEF Leads, To, Enter
  <2>4. TokenGiven(p)'
    BY <1>0, <1>2, <1>6, <2>1, <2>3 DEF TokenGiven
  <2> QED
    BY <1>4, <1>5, <2>1, <2>2, <2>4
<1>10. ASSUME NEW p \in Proc, Joins(p) PROVE TokensGiven'
  <2>1. UNCHANGED <<tok, out, results, floor>> /\ hp[p] = "flight" /\ held \subseteq held'
    BY <1>10 DEF Joins, At, flights, vars
  <2>2. \A q \in Proc \ {p} : Same(q)
    BY <1>0, <1>10, <2>1 DEF Joins, To
  <2>3. hp'[p] \in {"join", "landed"}
    BY <1>0, <1>10 DEF Joins, To
  <2>4. TokenGiven(p)'
    BY <1>0, <1>2, <2>1, <2>3 DEF TokenGiven, Rotating
  <2>5. ASSUME NEW r \in Stored(tok[p]) PROVE Given(<<Dev(tok[p]), r[2]>>)
    BY <1>3 DEF Stored
  <2>6. \A t \in held' : t \in held \/ Given(t)
    BY <1>10, <2>5 DEF Joins
  <2> QED
    BY <1>4, <1>5, <2>1, <2>2, <2>4, <2>6
<1>11. ASSUME NEW p \in Proc, DeletesUser(p) PROVE TokensGiven'
  <2>1. UNCHANGED <<tok, out, held, results, floor>> /\ hp[p] = "me-user"
    BY <1>11 DEF DeletesUser, At, rest, flights, DeleteUser, args
  <2>2. (\A q \in Proc \ {p} : Same(q)) /\ hp'[p] = "reply"
    BY <1>0, <1>11, <2>1 DEF DeletesUser, Answer, To
  <2>3. TokenGiven(p)'
    BY <1>0, <1>2, <2>1, <2>2 DEF TokenGiven, Rotating
  <2> QED
    BY <1>4, <1>5, <2>1, <2>2, <2>3
<1>12. ASSUME NEW p \in Proc, LoginBegins(p) PROVE TokensGiven'
  <2>1. UNCHANGED <<out, held, results, floor, settled>>
    BY <1>12 DEF LoginBegins, flights, SaveDeviceSecret, args, history
  <2>2. (\A q \in Proc \ {p} : Same(q)) /\ hp'[p] = "login"
    BY <1>0, <1>12, <2>1 DEF LoginBegins, To
  <2>3. PICK d \in Device : tok'[p] = <<d, 1>> /\ d \in issued'
    BY <1>0, <1>12 DEF LoginBegins, SaveDeviceSecret
  <2>4. settled[d] \in Nat
    BY <1>0 DEF TypeOK, HistoryType
  <2>5. TokenGiven(p)'
    BY <2>1, <2>2, <2>3, <2>4 DEF TokenGiven, Given, Dev, Gen, Last, Rotating
  <2> QED
    BY <1>4, <1>5, <2>1, <2>2, <2>5
<1>13. ASSUME NEW p \in Proc, LoginEnds(p) PROVE TokensGiven'
  <2>1. UNCHANGED <<tok, out, results>> /\ held' = held \cup {tok[p]} /\ hp[p] = "login-issue"
    BY <1>13 DEF LoginEnds, Answered, flights
  <2>2. (\A q \in Proc \ {p} : Same(q)) /\ hp'[p] = "reply"
    BY <1>0, <1>13, <2>1 DEF LoginEnds, Answer, To, EndCall, Enter
  <2>3. TokenGiven(p)' /\ Given(tok[p])
    BY <1>0, <1>2, <2>1, <2>2 DEF TokenGiven, Rotating
  <2> QED
    BY <1>4, <1>5, <2>1, <2>2, <2>3
<1>14. ASSUME NEW p \in Proc, Send(p) PROVE TokensGiven'
  <2>1. UNCHANGED <<out, held, results>>
    BY <1>14 DEF Send, flights
  <2>2. \A q \in Proc \ {p} : Same(q)
    BY <1>0, <1>14, <2>1 DEF Send, To, StartCall, Enter, vars
  <2>3. PICK t \in held, k \in Requests \ {"login"} :
          /\ tok' = [tok EXCEPT ![p] = t]
          /\ \/ k = "refresh" /\ To(p, "flight") /\ UNCHANGED vars
             \/ k # "refresh" /\ To(p, k) /\ StartCall(p, "get", Dev(t), None)
    BY <1>14 DEF Send
  <2>4. \/ hp'[p] = "flight"
        \/ hp'[p] \in {"refresh-access", "verify", "logout", "me"} /\ floor'[p] = settled[Dev(t)]
    BY <1>0, <2>3, RequestsAssumption DEF To, StartCall, Enter, Kinds
  <2>5. tok'[p] = t /\ Given(t)
    BY <1>0, <1>3, <2>3
  <2>6. TokenGiven(p)'
    BY <1>2, <1>6, <2>1, <2>4, <2>5 DEF TokenGiven, Rotating
  <2> QED
    BY <1>4, <1>5, <2>1, <2>2, <2>6
<1>15. ASSUME NEW p \in Proc, Receive(p) PROVE TokensGiven'
  <2>1. UNCHANGED <<held, results, floor>>
    BY <1>15 DEF Receive, flights, vars
  <2>2. (\A q \in Proc \ {p} : Same(q)) /\ hp'[p] = "free"
    BY <1>0, <1>15, <2>1 DEF Receive
  <2>3. TokenGiven(p)'
    BY <2>2 DEF TokenGiven, Rotating
  <2> QED
    BY <1>4, <1>5, <2>1, <2>2, <2>3
<1>16. ASSUME UNCHANGED sessions, floor' = floor PROVE TokensGiven'
  BY <1>4, <1>5, <1>16 DEF sessions, request, flights
<1>17. ASSUME NEW p \in Proc, Step(p) PROVE floor' = floor
  BY <1>0, <1>17, StepInside
<1>18. ASSUME Outside PROVE floor' = floor
  BY <1>18 DEF Outside, CreateUser, DeleteUser, ChangeEmail, CleanupOldDevices, Expire, Evict, args
<1>19. ASSUME UNCHANGED svars PROVE UNCHANGED sessions /\ floor' = floor
  BY <1>19 DEF svars, vars
<1>20. ASSUME (\E r \in results : ExpireResult(r)) \/ (\E t \in locked : ExpireLock(t))
              \/ (\E q \in Proc : LoseLock(q))
       PROVE  TokensGiven'
  <2>1. UNCHANGED <<hp, tok, out, held, floor>> /\ results' \subseteq results
    BY <1>20 DEF ExpireResult, ExpireLock, LoseLock, vars, args, request
  <2> QED
    BY <1>4, <1>5, <2>1
<1>21. ASSUME NEW i \in Instance, SCrash(i) PROVE TokensGiven'
  <2>1. UNCHANGED held /\ results' \subseteq results
    BY <1>21 DEF SCrash
  <2>2. \A q \in Proc : Same(q) \/ hp'[q] = "free"
    BY <1>21 DEF SCrash, Crash, Enter
  <2>3. \A q \in Proc : hp'[q] = "free" => TokenGiven(q)'
    BY DEF TokenGiven, Rotating
  <2> QED
    BY <1>4, <1>5, <2>1, <2>2, <2>3
<1> QED
  BY <1>7, <1>8, <1>9, <1>10, <1>11, <1>12, <1>13, <1>14, <1>15, <1>16, <1>17, <1>18,
     <1>19, <1>20, <1>21 DEF Shapes

\* A handler that is about to delete the device of its token has just seen another
\* generation, or was there before.
LEMMA ReuseComesFrom ==
  ASSUME Basic, Shapes, NEW p \in Proc, hp'[p] \in {"reuse", "access-reuse"}
  PROVE  tok'[p] = tok[p] /\ (hp'[p] = hp[p] \/ Moves(p, hp'[p]))
<1>0. hp \in [Proc -> Places] /\ tok \in [Proc -> (Device \cup {None}) \X Nat]
  BY DEF Basic, STypeOK
<1>1. ASSUME NEW q \in Proc, NEW h, Moves(q, h)
      PROVE  tok'[p] = tok[p] /\ (hp'[p] = hp[p] \/ Moves(p, hp'[p]))
  <2>1. hp' = [hp EXCEPT ![q] = h] /\ tok' = tok
    BY <1>1 DEF Moves, To, rest
  <2> QED
    BY <1>0, <1>1, <2>1
<1>2. ASSUME NEW q \in Proc, NEW s, Lands(q, s) PROVE tok'[p] = tok[p] /\ hp'[p] = hp[p]
  BY <1>2 DEF Lands
<1>3. ASSUME NEW q \in Proc, Leads(q) \/ Joins(q) \/ DeletesUser(q) \/ LoginEnds(q)
      PROVE tok'[p] = tok[p] /\ hp'[p] = hp[p]
  BY <1>0, <1>3 DEF Leads, Joins, DeletesUser, LoginEnds, Answer, To, rest
<1>4. ASSUME NEW q \in Proc, LoginBegins(q) \/ Receive(q) PROVE tok'[p] = tok[p] /\ hp'[p] = hp[p]
  BY <1>0, <1>4 DEF LoginBegins, Receive, To
<1>5. ASSUME NEW q \in Proc, Send(q) PROVE tok'[p] = tok[p] /\ hp'[p] = hp[p]
  BY <1>0, <1>5, RequestsAssumption DEF Send, To, Kinds
<1>6. ASSUME UNCHANGED sessions \/ UNCHANGED svars \/ (\E r \in results : ExpireResult(r))
             \/ (\E t \in locked : ExpireLock(t)) \/ (\E q \in Proc : LoseLock(q))
      PROVE  tok'[p] = tok[p] /\ hp'[p] = hp[p]
  BY <1>6 DEF sessions, svars, request, ExpireResult, ExpireLock, LoseLock
<1>7. ASSUME NEW i \in Instance, SCrash(i) PROVE tok'[p] = tok[p] /\ hp'[p] = hp[p]
  BY <1>7 DEF SCrash
<1> QED
  BY <1>1, <1>2, <1>3, <1>4, <1>5, <1>6, <1>7 DEF Shapes

\* deleteDeviceOnReuse stays confined to old tokens: what a handler read is no older than
\* the newest token that was out when its request began, so that another generation
\* than its token's is a newer one.
LEMMA OnlyOldNext ==
  ASSUME Basic, DeviceInv, ReadsInv, OnlyOldTokensAreReuse, Shapes
  PROVE  OnlyOldTokensAreReuse'
<1> SUFFICES ASSUME NEW p \in Proc, hp'[p] \in {"reuse", "access-reuse"}
             PROVE  \/ Gen(tok[p]) < gen'[Dev(tok[p])] \/ Dev(tok[p]) \notin rows'
                    \/ Dev(tok[p]) \in tainted' \cup blind'
  BY ReuseComesFrom DEF OnlyOldTokensAreReuse
<1> DEFINE d == Dev(tok[p])
<1>1. TypeOK /\ TypeOK' /\ StoreNext
  BY ShapesUseStore, TypeNext DEF Basic, STypeOK
<1>2. tok'[p] = tok[p] /\ (hp'[p] = hp[p] \/ Moves(p, hp'[p]))
  BY ReuseComesFrom
<1>3. hp[p] # "free"
  BY <1>2 DEF Moves
<1>4. d \in issued /\ d \in Device /\ Gen(tok[p]) \in Nat \ {0}
  BY <1>3, TokenTypes
<1>5. /\ gen'[d] >= gen[d] /\ gen[d] \in Nat /\ gen'[d] \in Nat /\ (d \in rows' => d \in rows)
      /\ tainted \subseteq tainted' /\ blind \subseteq blind'
  BY <1>1, <1>4, StoreGrows, GrowsNext DEF TypeOK, TableType
<1>6. Gen(tok[p]) < gen[d] \/ d \notin rows \/ d \in tainted \cup blind
  <2>1. CASE hp'[p] = hp[p]
    BY <2>1 DEF OnlyOldTokensAreReuse
  <2>2. CASE Moves(p, hp'[p])
    <3>1. /\ res[p] = "ok" /\ val[p] # Gen(tok[p]) /\ pc[p] = "got"
          /\ hp[p] \in {"rotate", "rotate-again", "refresh-access"}
      BY <2>2 DEF Moves, Revoked
    <3>2. dev[p] = d /\ (Gen(tok[p]) = 1 \/ Gen(tok[p]) <= floor[p])
      BY <3>1 DEF Basic, InPlace, Verifying, TokensGiven
    <3>3. val[p] \in 1..gen[d]
      BY <3>1, <3>2 DEF ReadsInv, ValuesKnown, Known
    <3>4. d \in rows /\ d \notin tainted \cup blind => floor[p] <= val[p]
      BY <3>1, <3>2 DEF ReadsInv, ReadersKept
    <3>5. floor[p] \in Nat /\ val[p] \in Nat
      BY <1>1 DEF TypeOK, HistoryType, LocalType
    <3> QED
      BY <1>4, <1>5, <3>1, <3>2, <3>3, <3>4, <3>5
  <2> QED
    BY <1>2, <2>1, <2>2
<1> QED
  BY <1>4, <1>5, <1>6

(***************************************************************************)
(* The invariant and the theorems.                                         *)
(***************************************************************************)
\* Every step of the handlers keeps SessionInv.
LEMMA SessionInvNext ==
  ASSUME SessionInv, [SNext]_svars
  PROVE  SessionInv'
<1>1. Basic
  BY DEF SessionInv, Basic
<1>2. Shapes
  BY <1>1, HaveShapes
<1>3. StoreNext
  BY <1>1, <1>2, ShapesUseStore
<1>4. DeviceInv' /\ ReadsInv'
  BY <1>3, DeviceInvNext, ReadsInvNext DEF SessionInv
<1>5. STypeOK' /\ HoldersApart'
  BY <1>1, <1>2, STypeNext DEF SessionInv
<1>6. (\A p \in Proc : InPlace(p))'
  BY <1>1, <1>2, InPlaceNext
<1>7. UpdatesSettled'
  BY <1>3, UpdatesSettledNext DEF SessionInv, DeviceInv
<1>8. TokensGiven'
  BY <1>1, <1>2, TokensGivenNext DEF SessionInv
<1>9. OnlyOldTokensAreReuse'
  BY <1>1, <1>2, OnlyOldNext DEF SessionInv
<1> QED
  BY <1>4, <1>5, <1>6, <1>7, <1>8, <1>9 DEF SessionInv

\* Initially there is no session and no request.
LEMMA SessionInvInit == SInit => SessionInv
<1> SUFFICES ASSUME SInit PROVE SessionInv
  OBVIOUS
<1>1. DeviceInv /\ ReadsInv
  BY DeviceInvInit, ReadsInvInit DEF SInit
<1>2. TypeOK /\ issued = {} /\ pc = [p \in Proc |-> "idle"]
  BY <1>1 DEF DeviceInv, SInit, Init
<1>3. STypeOK
  BY <1>2 DEF SInit, STypeOK, NoToken, Places, Between
<1>4. \A p \in Proc : InPlace(p)
  BY <1>2 DEF SInit, InPlace, Between, Verifying, Removing, Rotating
<1>5. HoldersApart /\ UpdatesSettled /\ TokensGiven /\ OnlyOldTokensAreReuse
  BY <1>2 DEF SInit, HoldersApart, UpdatesSettled, TokensGiven, OnlyOldTokensAreReuse, Rotating
<1> QED
  BY <1>1, <1>3, <1>4, <1>5 DEF SessionInv

\* SessionInv holds in every reachable state of the handlers over the store.
THEOREM SessionInvariant == SSpec => []SessionInv
  BY SessionInvInit, SessionInvNext, PTL DEF SSpec

\* Every variable of the handlers has its type, and a holder of a Redis lock runs the
\* flight of the token that is locked.
THEOREM SessionTypes == SSpec => []STypeOK
<1>1. SessionInv => STypeOK
  BY DEF SessionInv
<1> QED
  BY <1>1, SessionInvariant, PTL

\* deleteDeviceOnReuse never deletes the session of a client whose token is the current
\* one: whatever fails and whatever deadline passes, it runs only for a generation that
\* the device has left behind, unless the failure made the cache stale for the device.
THEOREM ReuseOnlyOfOldTokens == SSpec => []OnlyOldTokensAreReuse
<1>1. SessionInv => OnlyOldTokensAreReuse
  BY DEF SessionInv
<1> QED
  BY <1>1, SessionInvariant, PTL

\* Under the handlers too a read returns nothing older than what an update that had
\* ended before it returned, and no secret of a deleted device comes back.
THEOREM SessionReadsFresh == SSpec => [](ReadsFresh /\ NoResurrection)
<1>1. SessionInv => ReadsFresh /\ NoResurrection
  <2> SUFFICES ASSUME SessionInv PROVE ReadsFresh /\ NoResurrection
    OBVIOUS
  <2>1. NoResurrection
    BY DEF SessionInv, DeviceInv, TombstoneHolds, NoResurrection, Hit
  <2>2. ASSUME NEW p \in Proc, pc[p] = "got", res[p] = "ok",
               dev[p] \notin tainted \cup blind, dev[p] \in rows
        PROVE  val[p] >= floor[p]
    <3>1. ReadersKept(dev[p])
      BY <2>2 DEF SessionInv, ReadsInv
    <3> QED
      BY <2>2, <3>1 DEF ReadersKept, SessionInv, DeviceInv, TypeOK, LocalType, HistoryType
  <2> QED
    BY <2>1, <2>2 DEF ReadsFresh
<1> QED
  BY <1>1, SessionInvariant, PTL
=============================================================================
