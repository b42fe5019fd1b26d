----------------------------- MODULE Providers ------------------------------
(***************************************************************************)
(* The OAuth2 and OIDC providers (oauth2/providers): which e-mail GetUser  *)
(* takes from what a provider answers, and whether Revoke can reach it.    *)
(* The code is pure apart from its HTTP requests, so a provider's answer   *)
(* is an argument here: the documents it serves, or Failed for a request   *)
(* that has no usable answer.                                              *)
(***************************************************************************)
EXTENDS Naturals

CONSTANTS
    Email,      \* the addresses that documents name
    NoEmail,    \* the empty address; the result of a GetUser that fails
    Failed,     \* no 200 answer, or one that does not decode
    MaxAddresses    \* bound on the addresses that GitHub lists

ASSUME AddressesAssumption == MaxAddresses \in Nat

\* How a client is set up (Options, OIDCDiscovery, the configured URLs).
ClientType ==
    [provider : {"oidc", "github", "google", "discord", "generic"},
     unverified : BOOLEAN,      \* AllowUnverifiedEmail
     userinfo : BOOLEAN,        \* OIDC: the discovery names a userinfo endpoint
     revocation : BOOLEAN]      \* OIDC, generic: there is a revocation endpoint

\* A JSON claim that says whether the address is verified: missing, a boolean, or
\* text, which may spell "true".
Flag == {"absent", "true", "false", "text true", "text"}

\* A document about the user.
Claims == [sub : BOOLEAN, email : Email \cup {NoEmail}, verified : Flag]

\* An id_token: whether it decodes, its expiry (a missing one is never), whether
\* iss is the discovered issuer and aud contains our client_id, its claims.
IDToken ==
    [decodes : BOOLEAN, exp : {"never", "later", "past"},
     iss : BOOLEAN, aud : BOOLEAN, claims : Claims]

-----------------------------------------------------------------------------
\* Faulty: the provider's word is not asked for.
CheckPresent(o, email, verified) == email # NoEmail

CheckEmail(o, email, verified) == email # NoEmail /\ (verified \/ o.unverified)

\* flexibleBool takes text for a boolean; Go's bool does not decode it.
FlexibleBool(flag) == flag \in {"true", "text true"}
StrictBool(flag) == flag = "true"
StrictDecodes(flag) == flag \notin {"text true", "text"}

Checked(o, email, verified) == IF CheckEmail(o, email, verified) THEN email ELSE NoEmail

-----------------------------------------------------------------------------
ParseIDToken(id) == id # Failed /\ id.decodes /\ id.exp # "past"

\* Faulty: a token for another client will do.
ValidateIssuerOnly(id) == id.iss

ValidateIDToken(id) == id.iss /\ id.aud

\* The id_token has all that is needed.
Suffices(o, id) ==
    /\ ParseIDToken(id) /\ id.claims.sub
    /\ CheckEmail(o, id.claims.email, FlexibleBool(id.claims.verified))

\* An id_token for somebody else is an error; one that is missing, unreadable,
\* expired or incomplete is replaced by the userinfo endpoint.
OIDCUser(o, id, info) ==
    CASE ParseIDToken(id) /\ ~ValidateIDToken(id) -> NoEmail
      [] ParseIDToken(id) /\ ValidateIDToken(id) /\ Suffices(o, id) -> id.claims.email
      [] OTHER -> IF o.userinfo /\ info # Failed /\ info.sub
                  THEN Checked(o, info.email, FlexibleBool(info.verified))
                  ELSE NoEmail

\* The first address that GitHub calls primary.
FetchPrimaryEmail(o, emails) ==
    LET primary == {i \in DOMAIN emails : emails[i].primary}
        first == CHOOSE i \in primary : \A j \in primary : i <= j IN
    IF primary = {} THEN NoEmail ELSE Checked(o, emails[first].email, emails[first].verified)

\* The profile's address is taken as it is; without one, the list is asked for.
GitHubUser(o, info, emails) ==
    CASE info = Failed -> NoEmail
      [] info # Failed /\ info.email # NoEmail -> info.email
      [] OTHER -> IF emails = Failed THEN NoEmail ELSE FetchPrimaryEmail(o, emails)

\* Google's and Discord's APIs: the flag is a boolean.
StrictUser(o, info) ==
    IF info = Failed \/ ~StrictDecodes(info.verified)
    THEN NoEmail ELSE Checked(o, info.email, StrictBool(info.verified))

GenericUser(o, info) ==
    IF info = Failed THEN NoEmail ELSE Checked(o, info.email, FlexibleBool(info.verified))

-----------------------------------------------------------------------------
\* What the provider of client o may serve during a GetUser: a document, an
\* id_token before it (OIDC), a list of addresses after it (GitHub).
Address == [email : Email \cup {NoEmail}, primary : BOOLEAN, verified : BOOLEAN]
Lists == UNION {[1..n -> Address] : n \in 0..MaxAddresses}

Answers(o) ==
    [id : IF o.provider = "oidc" THEN IDToken \cup {Failed} ELSE {Failed},
     info : Claims \cup {Failed},
     emails : IF o.provider = "github" THEN Lists \cup {Failed} ELSE {Failed}]

GetUser(o, a) ==
    CASE o.provider = "oidc" -> OIDCUser(o, a.id, a.info)
      [] o.provider = "github" -> GitHubUser(o, a.info, a.emails)
      [] o.provider \in {"google", "discord"} -> StrictUser(o, a.info)
      [] o.provider = "generic" -> GenericUser(o, a.info)

\* Revoke has somewhere to go.
Revocable(o) == o.provider \in {"oidc", "generic"} => o.revocation

-----------------------------------------------------------------------------
(* What an e-mail may rest on.                                             *)

\* There is an id_token that can be read and has not expired.
Current(a) == a.id # Failed /\ a.id.decodes /\ a.id.exp # "past"

\* The addresses that a document of answer a vouches for; GitHub's profile shows
\* no address that GitHub has not verified.
Vouches(o, a) ==
    {e \in Email :
        \/ a.info # Failed /\ a.info.email = e
           /\ (a.info.verified \in {"true", "text true"} \/ o.provider = "github")
        \/ a.emails # Failed /\ \E i \in DOMAIN a.emails :
               a.emails[i].email = e /\ a.emails[i].primary /\ a.emails[i].verified
        \/ Current(a) /\ a.id.claims.email = e
           /\ a.id.claims.verified \in {"true", "text true"}}

\* Addresses that a document merely names.
Names(a) ==
    {e \in Email :
        \/ a.info # Failed /\ a.info.email = e
        \/ a.emails # Failed /\ \E i \in DOMAIN a.emails : a.emails[i].email = e
        \/ Current(a) /\ a.id.claims.email = e}

\* It was issued by another issuer or for another client.
Foreign(a) == Current(a) /\ (~a.id.iss \/ ~a.id.aud)

Acceptable(o, a, e) ==
    ~Foreign(a) /\ e \in IF o.unverified THEN Names(a) ELSE Vouches(o, a)

\* The outcomes of a GetUser: the e-mail's being there, and its being acceptable.
Outcomes(o) ==
    {LET e == GetUser(o, a) IN
     IF e = NoEmail THEN [user |-> FALSE, sound |-> TRUE]
     ELSE [user |-> TRUE, sound |-> Acceptable(o, a, e)] : a \in Answers(o)}
=============================================================================
