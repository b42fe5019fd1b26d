---------------------------- MODULE SharedFlight ----------------------------
(***************************************************************************)
(* What flight.Do promises its callers, for one key: calls that overlap    *)
(* share one run of fn and its answer; a run that succeeded is kept, and   *)
(* not forgotten before those who waited for it have had it.  There is no  *)
(* singleflight group, no lock and no second look here.  Flight implements *)
(* this module, and so do the flights that Sessions and Login are written  *)
(* with.                                                                   *)
(*                                                                         *)
(* The promise across instances is made to calls within their deadline,    *)
(* and as long as Redis does its part (sound).  On one instance the        *)
(* promise of one run at a time holds always.                              *)
(***************************************************************************)
CONSTANTS
    Instance, Proc, Home,
    InFlightOnly,   \* a kept result is for calls that overlapped its run
    Timeouts,       \* whether a call can reach its deadline
    Kept            \* whether results are kept at all

VARIABLES
    phase,      \* each call: "out", "waiting", "running" fn, or "done"
    answer,     \* what it was answered: "none" yet, "ok" or "err"
    result,     \* whether the result of a run that succeeded is kept
    solo,       \* calls that exclude nobody on other instances
    replay,     \* calls that know the kept result is not for them
    owed,       \* instances where the kept result is waited for
    sound       \* whether Redis has done its part so far

svars == <<phase, answer, result, solo, replay, owed, sound>>

SharedInit ==
    /\ phase = [p \in Proc |-> "out"] /\ answer = [p \in Proc |-> "none"]
    /\ result = FALSE /\ solo = {} /\ replay = {} /\ owed = {} /\ sound = TRUE

Running == {p \in Proc : phase[p] = "running"}

\* p and the calls that wait beside it on its instance.
Party(p) == {p} \cup {q \in Proc : phase[q] = "waiting" /\ Home[q] = Home[p]}

\* Where calls wait and none of them runs fn or has passed its deadline.
Expecting ==
    {i \in Instance :
        /\ \E q \in Proc : phase[q] = "waiting" /\ Home[q] = i
        /\ \A q \in Running \cup solo : Home[q] # i}

\* The calls in S are answered a.
Respond(S, a) ==
    /\ phase' = [q \in Proc |-> IF q \in S THEN "done" ELSE phase[q]]
    /\ answer' = [q \in Proc |-> IF q \in S THEN a ELSE answer[q]]

\* Redis may fail at any step, and never becomes trustworthy again.
Trust == sound' \in {sound, FALSE}

Wait(p) ==
    /\ phase[p] = "out"
    /\ phase' = [phase EXCEPT ![p] = "waiting"]
    /\ UNCHANGED <<answer, result, solo, replay, owed, sound>>

\* A waiting call learns of a kept result that it may not use.
Notice(p) ==
    /\ InFlightOnly /\ result /\ phase[p] = "waiting"
    /\ replay' = replay \cup {p}
    /\ UNCHANGED <<phase, answer, result, solo, owed, sound>>

\* A call passes its deadline, waiting or running: from here on it excludes nobody
\* on other instances, and the kept result is not waited for on its own.
Overrun(p) ==
    /\ Timeouts /\ phase[p] \in {"waiting", "running"}
    /\ solo' = solo \cup {p} /\ owed' = owed \ {Home[p]}
    /\ UNCHANGED <<phase, answer, result, replay, sound>>

\* fn starts.  Never beside another run on the same instance; while Redis is
\* sound, and unless p has passed its deadline, never beside a run that excludes
\* others nor when a result is there that p may use.
Start(p) ==
    /\ phase[p] \in {"out", "waiting"}
    /\ \A q \in Running : Home[q] # Home[p]
    /\ Trust
    /\ \/ /\ sound' => Running \subseteq solo /\ (result => p \in replay)
          /\ UNCHANGED solo
       \/ /\ sound' => Timeouts
          /\ solo' = solo \cup {p}
    /\ phase' = [phase EXCEPT ![p] = "running"]
    /\ owed' = owed \ {Home[p]}
    /\ UNCHANGED <<answer, result, replay>>

\* Whether the success a of p's run is one to keep.
ToKeep(p, a) == a = "ok" /\ Kept /\ p \notin solo \cup replay

\* fn returns a: everyone who waits beside p shares it.  While Redis is sound a
\* success to keep is kept, and those who wait elsewhere are owed it.
End(p, a) ==
    /\ phase[p] = "running"
    /\ Respond(Party(p), a)
    /\ \/ ToKeep(p, a) /\ result' = TRUE /\ owed' = Expecting'
       \/ (sound' => ~ToKeep(p, a)) /\ UNCHANGED <<result, owed>>
    /\ solo' = solo \ {p} /\ replay' = replay \ {p}
    /\ Trust

\* The kept result answers p and everyone who waits beside it.
Reuse(p) ==
    /\ result /\ phase[p] \in {"out", "waiting"}
    /\ \A q \in Running : Home[q] # Home[p]
    /\ Party(p) \cap replay = {}
    /\ Respond(Party(p), "ok")
    /\ owed' = owed \ {Home[p]}
    /\ UNCHANGED <<result, solo, replay, sound>>

Leave(p) ==
    /\ phase[p] = "done"
    /\ phase' = [phase EXCEPT ![p] = "out"] /\ answer' = [answer EXCEPT ![p] = "none"]
    /\ UNCHANGED <<result, solo, replay, owed, sound>>

\* A kept result is forgotten, but not while it is waited for.
Forget ==
    /\ owed = {}
    /\ result' = FALSE
    /\ UNCHANGED <<phase, answer, solo, replay, owed, sound>>

\* Redis fails a run that is under way: it may no longer exclude others.
Lose ==
    /\ sound' = FALSE
    /\ solo \subseteq solo' /\ solo' \subseteq solo \cup Running
    /\ UNCHANGED <<phase, answer, result, replay, owed>>

\* An instance dies with its calls.
Crash(i) ==
    LET gone == {p \in Proc : Home[p] = i} IN
    /\ phase' = [p \in Proc |-> IF p \in gone THEN "out" ELSE phase[p]]
    /\ answer' = [p \in Proc |-> IF p \in gone THEN "none" ELSE answer[p]]
    /\ result' \in {result, FALSE}
    /\ solo' = solo \ gone /\ replay' = replay \ gone /\ owed' = owed \ {i}
    /\ sound' = FALSE

SharedNext ==
    \/ \E p \in Proc :
        \/ Wait(p) \/ Notice(p) \/ Overrun(p) \/ Start(p) \/ End(p, "ok") \/ End(p, "err")
        \/ Reuse(p) \/ Leave(p)
    \/ Forget \/ Lose
    \/ \E i \in Instance : Crash(i)

SharedSpec == SharedInit /\ [][SharedNext]_svars
=============================================================================
