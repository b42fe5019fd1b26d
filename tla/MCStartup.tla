----------------------------- MODULE MCStartup ------------------------------
(* Instances of Startup for TLC: a few deployments, and texts of durations. *)
EXTENDS Startup

MCUnit == "d" :> 64 @@ "h" :> 32 @@ "m" :> 8 @@ "s" :> 2

Plain == [unix |-> FALSE, db |-> FALSE, auto |-> FALSE, redis |-> FALSE, client |-> FALSE,
          issuer |-> FALSE, builtin |-> FALSE, urls |-> FALSE]
Defaults == [conns |-> Unset, lifetime |-> Unset, cleanup |-> Unset, reference |-> Unset,
             column |-> Unset, access |-> Unset, refresh |-> Unset, secret |-> Unset]
Env(e, v) == [toggles |-> e, values |-> v, tables |-> {}]
With(t, envs) == {[e EXCEPT !.tables = t] : e \in envs}

Own == [Plain EXCEPT !.db = TRUE, !.auto = TRUE]
External == [Defaults EXCEPT !.reference = "good"]
OIDC == [Plain EXCEPT !.client = TRUE, !.issuer = TRUE]

Created == [Own EXCEPT !.auto = FALSE]

Deployments ==
    {Env(Own, Defaults), Env(Created, Defaults), Env(Own, External),
     Env([OIDC EXCEPT !.unix = TRUE], Defaults)}
    \cup With({"users"},
              {Env(Own, External), Env(Created, [External EXCEPT !.column = "good"])})
    \cup With(Table,
              {Env(Own, Defaults),
               Env([Created EXCEPT !.redis = TRUE, !.client = TRUE, !.urls = TRUE], Defaults)})

\* One error each.
Refused ==
    {Env([OIDC EXCEPT !.client = FALSE], Defaults), Env([OIDC EXCEPT !.issuer = FALSE], Defaults),
     Env(Own, [External EXCEPT !.reference = "bad"]), Env(Own, [External EXCEPT !.column = "bad"]),
     Env(Own, [Defaults EXCEPT !.column = "good"]), Env(Own, [Defaults EXCEPT !.conns = "negative"]),
     Env(Plain, [Defaults EXCEPT !.secret = "short"])}

\* 1 day and a half fit, 2 days do not; 127 is the largest integer.
P(n, unit) == [n |-> n, unit |-> unit]
Parts == {P(0, "s"), P(31, "s"), P(32, "s"), P(63, "s"), P(64, "s"), P(1, "d"), P(2, "d"), P(4, "d"),
          P(128, "s"), P(1, "x"), P(NoDigits, "d")}
Bare == {P(0, NoUnit), P(3, NoUnit), P(4, NoUnit), P(8, NoUnit), P(128, NoUnit)}
Texts == {<<>>} \cup {<<p>> : p \in Parts \cup Bare}
             \cup {<<p, q>> : p \in {P(31, "s"), P(32, "s"), P(1, "d")}, q \in Parts \cup {P(3, NoUnit)}}
             \cup {<<P(31, "s"), P(31, "s"), q>> : q \in {P(1, "s"), P(2, "s")}}

Spelled ==
    {Env(Plain, [Defaults EXCEPT !.access = t]) : t \in Texts}
        \cup {Env(Created, [Defaults EXCEPT !.cleanup = <<p>>]) : p \in Bare}

MCEnvironments == Deployments \cup Refused \cup Spelled
=============================================================================
