------------------------------- MODULE Config -------------------------------
(***************************************************************************)
(* The configuration (server/internal/config): what Load makes of the      *)
(* environment.  A duration is the text the code parses, as a sequence of  *)
(* parts, each the digits before a character and that character; integers  *)
(* are those of a machine whose largest is MaxInt.  Names, URLs and        *)
(* secrets are what the checks tell apart.                                 *)
(***************************************************************************)
EXTENDS Integers, Sequences, FiniteSets

CONSTANTS
    MaxInt,         \* math.MaxInt64, scaled
    Unit,           \* durationUnits: the length of "d", "h", "m" and "s"
    DefaultDuration,    \* the default of every duration
    Unset           \* an environment variable that is empty

ASSUME DurationAssumption ==
    /\ MaxInt \in Nat \ {0} /\ DefaultDuration \in 1..MaxInt
    /\ Unit \in [{"d", "h", "m", "s"} -> 1..MaxInt]

Invalid == -1       \* the result of a parse that fails
NoDigits == -1      \* a part without digits

\* A part of a duration's text.  NoUnit: the text ends after the digits.
NoUnit == ""
Part == [n : {NoDigits} \cup Nat, unit : STRING]

-----------------------------------------------------------------------------
(* parseDuration *)

\* Arithmetic on int64 wraps around.
Wrap(x) == ((x + MaxInt + 1) % (2 * (MaxInt + 1))) - (MaxInt + 1)

\* Faulty: the product is not tested for overflow.
MultiplyUnchecked(n, unit) == IF n > MaxInt THEN Invalid ELSE Wrap(n * unit)

\* ParseInt fails beyond MaxInt.
MultiplyDuration(n, unit) ==
    IF n > MaxInt \/ n > MaxInt \div unit THEN Invalid ELSE Wrap(n * unit)

Length(part) ==
    IF part.n = NoDigits \/ part.unit \notin DOMAIN Unit
    THEN Invalid ELSE MultiplyDuration(part.n, Unit[part.unit])

AddPart(total, part) ==
    LET l == Length(part) IN
    IF total = Invalid \/ l = Invalid \/ total > MaxInt - l THEN Invalid ELSE Wrap(total + l)

IsDigits(text) == Len(text) = 1 /\ text[1].n # NoDigits /\ text[1].unit = NoUnit

\* The total after each part.
Totals(text) ==
    LET total[k \in 0..Len(text)] == IF k = 0 THEN 0 ELSE AddPart(total[k - 1], text[k])
    IN  total

\* bare is the unit of a number without one, 0 if it needs one.
ParseDuration(text, bare) ==
    CASE text = <<>> -> Invalid
      [] text # <<>> /\ IsDigits(text) ->
            IF bare = 0 THEN Invalid ELSE MultiplyDuration(text[1].n, bare)
      [] OTHER -> Totals(text)[Len(text)]

-----------------------------------------------------------------------------
(* envReader *)

Duration(val, bare) ==
    IF val = Unset \/ ParseDuration(val, bare) = Invalid
    THEN DefaultDuration ELSE ParseDuration(val, bare)

BadDuration(val, bare) == val # Unset /\ ParseDuration(val, bare) = Invalid

\* An integer variable: unset, no integer, or one.
BadInteger(val) == val = "text" \/ val = "negative"

-----------------------------------------------------------------------------
(* Load *)

\* The environment, as far as the checks and the wiring tell it apart.
Toggles ==
    [unix : BOOLEAN,        \* HTTP_ADDRESS is a Unix socket
     db : BOOLEAN,          \* DATABASE_URL
     auto : BOOLEAN,        \* DB_AUTO_CREATE_SCHEMA
     redis : BOOLEAN,       \* REDIS_URL
     client : BOOLEAN,      \* all of OAUTH2_CLIENT_ID, _SECRET and _REDIRECT_URL
     issuer : BOOLEAN,      \* OIDC_ISSUER_URL
     builtin : BOOLEAN,     \* OAUTH2_PROVIDER names a built-in provider
     urls : BOOLEAN]        \* the three URLs that a generic provider needs

DatabaseErrors(e, v) ==
    IF ~e.db THEN {} ELSE
    {x \in {"conns", "lifetime", "cleanup", "reference", "column"} :
        CASE x = "conns" -> BadInteger(v.conns)
          [] x = "lifetime" -> BadDuration(v.lifetime, Unit["m"])
          [] x = "cleanup" -> BadDuration(v.cleanup, Unit["h"])
          [] x = "reference" -> v.reference = "bad"
          [] x = "column" -> v.column # Unset /\ (v.reference = Unset \/ v.column = "bad")}

\* A lifetime of zero is refused, one that does not parse is refused once.
JWTErrors(v) ==
    {x \in {"access", "refresh", "secret"} :
        CASE x = "access" -> BadDuration(v.access, 0) \/ Duration(v.access, 0) <= 0
          [] x = "refresh" -> BadDuration(v.refresh, 0) \/ Duration(v.refresh, 0) <= 0
          [] x = "secret" -> v.secret = "short"}

OAuth2Errors(e) ==
    {x \in {"client", "provider"} :
        CASE x = "client" -> ~e.client /\ e.issuer
          [] x = "provider" -> e.client /\ ~e.issuer /\ ~e.builtin /\ ~e.urls}

LoadErrors(e, v) == DatabaseErrors(e, v) \cup JWTErrors(v) \cup OAuth2Errors(e)

\* The part of the Config that start-up goes by.
Load(e, v) ==
    [unix |-> e.unix, db |-> e.db, auto |-> e.auto, redis |-> e.redis,
     external |-> v.reference # Unset, column |-> v.column # Unset,
     cleanup |-> e.db /\ Duration(v.cleanup, Unit["h"]) > 0,
     oidc |-> e.client /\ e.issuer, oauth2 |-> e.client,
     access |-> Duration(v.access, 0), refresh |-> Duration(v.refresh, 0)]

-----------------------------------------------------------------------------
(* What a duration's text means.                                           *)

\* Every part has digits and a known unit, or the text is a bare number.
WellFormed(text, bare) ==
    /\ text # <<>>
    /\ \/ \A i \in DOMAIN text : text[i].n >= 0 /\ text[i].unit \in {"d", "h", "m", "s"}
       \/ Len(text) = 1 /\ text[1].n >= 0 /\ text[1].unit = NoUnit /\ bare > 0

\* Its length, in arithmetic without bounds, as far as each part.
PartLength(part, bare) == part.n * (IF part.unit = NoUnit THEN bare ELSE Unit[part.unit])

Sums(text, bare) ==
    LET sum[k \in 0..Len(text)] == IF k = 0 THEN 0 ELSE sum[k - 1] + PartLength(text[k], bare)
    IN  sum

ExactLength(text, bare) == Sums(text, bare)[Len(text)]

\* ParseDuration returns exactly the length of a text that has one which int64 can
\* hold, and fails for every other text: no sum or product wraps around.
Exact(text, bare) ==
    ParseDuration(text, bare) =
        IF WellFormed(text, bare) /\ ExactLength(text, bare) <= MaxInt
        THEN ExactLength(text, bare) ELSE Invalid
=============================================================================
