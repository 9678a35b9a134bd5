---------------------------- MODULE JwtValidator ----------------------------
(***************************************************************************)
(* jwtvalidator.Validator: bearer tokens are verified against an issuer's  *)
(* discovery document, fetched once and kept for the life of the           *)
(* Validator, and against its JWKS, kept fresh by the background loop of   *)
(* jwk.Cache.  Validate runs in the goroutine of each request; the mutex   *)
(* is held for one map access only, so requests interleave between the     *)
(* lookup of the document, its fetch, its store, the registration of the   *)
(* JWKS URL and the lookup of the keys.                                    *)
(*                                                                         *)
(* The issuer and the cache are outside the repository.                    *)
(***************************************************************************)
EXTENDS Integers

CONSTANTS
    Callers,    \* goroutines; each validates one token at a time
    Issuers,    \* values of an "iss" claim
    Urls,       \* values of jwks_uri
    Docs,       \* the discovery documents the issuer may publish
    MaxKey,     \* the issuer introduces the signing keys 1, 2, ..., MaxKey
    Algorithms, AllowedAlgorithms,
    None        \* Go's nil and the empty string

VARIABLES
    \* the issuer
    up,          \* it answers; if not, a request fails or gets no answer
    doc,         \* its discovery document
    signer,      \* the key it signs with and publishes
    \* Validator and its cache
    oidcConfig,  \* v.oidcConfigs[issuerURL]
    registered,  \* JWKS URLs known to the cache
    keySet,      \* URL -> the keys the cache holds, None before the first fetch
    running,     \* Shutdown was not called
    \* one call of Validate per caller
    vpc,
    token,       \* its argument
    cfg,         \* the document it works with
    verdict      \* its result

issuerVars == <<up, doc, signer>>
cacheVars  == <<oidcConfig, registered, keySet, running>>
callVars   == <<vpc, token, cfg, verdict>>
vars == <<issuerVars, cacheVars, callVars>>

Keys == 1 .. MaxKey

\* The issuer's JWKS.  Rotation without an overlap is the hardest on the cache.
Jwks == {signer}

\* Of a token the code sees the "alg" of its header (None if there is no header to
\* read), which key verifies it (0: none the issuer ever had), its issuer, whether it
\* is fresh ("exp" is in the future or missing: jwt.Parse accepts a token without
\* it), and whether its claims are readable: a Get of each into an any succeeds.
Token == [alg: Algorithms \cup {None}, key: 0 .. MaxKey, iss: Issuers, fresh: BOOLEAN,
          readable: BOOLEAN]

Verdicts == {"accepted", "invalid", "expired"}
Steps == {"config", "fetch", "store", "ensure", "register", "ready", "lookup"}

TypeOK ==
    /\ up \in BOOLEAN /\ doc \in Docs /\ signer \in Keys
    /\ oidcConfig \in Docs \cup {None}
    /\ registered \subseteq Urls
    /\ keySet \in [Urls -> (SUBSET Keys) \cup {None}]
    /\ running \in BOOLEAN
    /\ vpc \in [Callers -> {"idle"} \cup Steps]
    /\ token \in [Callers -> Token \cup {None}]
    /\ cfg \in [Callers -> Docs \cup {None}]
    /\ verdict \in [Callers -> Verdicts \cup {None}]

\* New.
Init ==
    /\ up \in BOOLEAN /\ doc \in Docs /\ signer = 1
    /\ oidcConfig = None
    /\ registered = {}
    /\ keySet = [u \in Urls |-> None]
    /\ running = TRUE
    /\ vpc = [c \in Callers |-> "idle"]
    /\ token = [c \in Callers |-> None]
    /\ cfg = [c \in Callers |-> None]
    /\ verdict = [c \in Callers |-> None]

(***************************************************************************)
(* Validate.                                                               *)
(***************************************************************************)
Goto(c, p) == vpc' = [vpc EXCEPT ![c] = p]

Return(c, v) == Goto(c, "idle") /\ verdict' = [verdict EXCEPT ![c] = v]

Proceed(c, p) == Goto(c, p) /\ UNCHANGED verdict

\* Unparsable, unsigned, without or with a disallowed algorithm: one outcome,
\* before anything is fetched.
CheckAlgorithm(t) == t.alg \in AllowedAlgorithms

Validate(c, t) ==
    /\ vpc[c] = "idle"
    /\ token' = [token EXCEPT ![c] = t]
    /\ IF CheckAlgorithm(t) THEN Proceed(c, "config") ELSE Return(c, "invalid")
    /\ UNCHANGED <<issuerVars, cacheVars, cfg>>

\* getOIDCConfig, first critical section.
ReadConfig(c) ==
    /\ vpc[c] = "config"
    /\ \/ oidcConfig = None /\ Proceed(c, "fetch") /\ UNCHANGED cfg
       \/ /\ oidcConfig # None
          /\ cfg' = [cfg EXCEPT ![c] = oidcConfig]
          /\ Proceed(c, "ensure")
    /\ UNCHANGED <<issuerVars, cacheVars, token>>

\* Mutant: a document without jwks_uri is taken.
FetchConfigIncomplete(c) ==
    /\ vpc[c] = "fetch"
    /\ \/ ~up /\ Return(c, "invalid") /\ UNCHANGED cfg
       \/ up /\ cfg' = [cfg EXCEPT ![c] = doc] /\ Proceed(c, "store")
    /\ UNCHANGED <<issuerVars, cacheVars, token>>

\* The request to the issuer.  A transport error, a status other than 200, a body
\* that is not JSON (~up) and a document without jwks_uri are errors.
FetchConfig(c) ==
    /\ vpc[c] = "fetch"
    /\ \/ (~up \/ doc.jwks = None) /\ Return(c, "invalid") /\ UNCHANGED cfg
       \/ /\ up /\ doc.jwks # None
          /\ cfg' = [cfg EXCEPT ![c] = doc]
          /\ Proceed(c, "store")
    /\ UNCHANGED <<issuerVars, cacheVars, token>>

\* Second critical section: the last of several first fetches wins.
StoreConfig(c) ==
    /\ vpc[c] = "store"
    /\ oidcConfig' = cfg[c]
    /\ Proceed(c, "ensure")
    /\ UNCHANGED <<issuerVars, registered, keySet, running, token, cfg>>

\* ensureRegistered: IsRegistered and Register are two calls.
EnsureRegistered(c) ==
    /\ vpc[c] = "ensure"
    /\ Proceed(c, IF running /\ cfg[c].jwks \in registered THEN "lookup" ELSE "register")
    /\ UNCHANGED <<issuerVars, cacheVars, token, cfg>>

\* Mutant: the keys are fetched once and never registered for refresh.
RegisterFetchOnce(c) ==
    /\ vpc[c] = "register"
    /\ up /\ keySet' = [keySet EXCEPT ![cfg[c].jwks] = Jwks]
    /\ Proceed(c, "lookup")
    /\ UNCHANGED <<issuerVars, oidcConfig, registered, running, token, cfg>>

\* If another request registered the URL in between, Register is the no-op the
\* code expects or an error: the model allows both.
Register(c) ==
    LET u == cfg[c].jwks IN
    /\ vpc[c] = "register"
    /\ \/ /\ running /\ u \notin registered
          /\ registered' = registered \cup {u}
          /\ Proceed(c, "ready")
       \/ running /\ u \in registered /\ Proceed(c, "lookup") /\ UNCHANGED registered
       \/ (~running \/ u \in registered) /\ Return(c, "invalid") /\ UNCHANGED registered
    /\ UNCHANGED <<issuerVars, oidcConfig, keySet, running, token, cfg>>

\* Register returns once the keys were fetched, ...
Ready(c) ==
    /\ vpc[c] = "ready" /\ keySet[cfg[c].jwks] # None
    /\ Proceed(c, "lookup")
    /\ UNCHANGED <<issuerVars, cacheVars, token, cfg>>

\* ... or fails when the request's context ends; the URL stays registered.
GiveUp(c) ==
    /\ vpc[c] = "ready" /\ (~up \/ ~running)
    /\ Return(c, "invalid")
    /\ UNCHANGED <<issuerVars, cacheVars, token, cfg>>

\* Mutant: the claims are validated before the signature.
JudgeClaimsFirst(t, ks, d) ==
    IF ~t.fresh THEN "expired"
    ELSE IF t.key \notin ks \/ (d.issuer # None /\ t.iss # d.issuer) \/ ~t.readable
         THEN "invalid"
    ELSE "accepted"

\* jwt.Parse verifies the signature and then the claims; the issuer is compared
\* afterwards, and only if the document declares one; tokenToMap comes last.
Judge(t, ks, d) ==
    IF t.key \notin ks THEN "invalid"
    ELSE IF ~t.fresh THEN "expired"
    ELSE IF d.issuer # None /\ t.iss # d.issuer THEN "invalid"
    ELSE IF ~t.readable THEN "invalid"
    ELSE "accepted"

\* Nothing else has a hand in the key set a call has looked up, so looking up and
\* verifying are one step.
Verify(c) ==
    LET ks == keySet[cfg[c].jwks] IN
    /\ vpc[c] = "lookup"
    /\ Return(c, IF ks = None \/ ~running THEN "invalid"
                 ELSE Judge(token[c], ks, cfg[c]))
    /\ UNCHANGED <<issuerVars, cacheVars, token, cfg>>

\* The middleware takes the result, and the call's locals are gone; only a token that
\* was accepted is of further use to the one who sent it.
Forget(c) ==
    /\ vpc[c] = "idle" /\ verdict[c] # None
    /\ token' = [token EXCEPT ![c] = IF verdict[c] = "accepted" THEN @ ELSE None]
    /\ cfg' = [cfg EXCEPT ![c] = None]
    /\ verdict' = [verdict EXCEPT ![c] = None]
    /\ UNCHANGED <<issuerVars, cacheVars, vpc>>

(***************************************************************************)
(* The cache and the issuer.                                               *)
(***************************************************************************)

\* The background loop fetches every registered URL again and again; a failed
\* fetch leaves the old keys.
Refresh(u) ==
    /\ running /\ up /\ u \in registered /\ keySet[u] # Jwks
    /\ keySet' = [keySet EXCEPT ![u] = Jwks]
    /\ UNCHANGED <<issuerVars, oidcConfig, registered, running, callVars>>

Shutdown ==
    /\ running /\ running' = FALSE
    /\ UNCHANGED <<issuerVars, oidcConfig, registered, keySet, callVars>>

\* A new signing key takes the place of the old one.
Rotate ==
    /\ signer < MaxKey
    /\ signer' = signer + 1
    /\ UNCHANGED <<up, doc, cacheVars, callVars>>

\* The document changes, but not the name the issuer gives itself in it.
Publish(d) ==
    /\ d # doc /\ d.issuer = doc.issuer
    /\ doc' = d
    /\ UNCHANGED <<up, signer, cacheVars, callVars>>

Outage ==
    /\ up' = ~up
    /\ UNCHANGED <<doc, signer, cacheVars, callVars>>

Step(c) ==
    \/ ReadConfig(c) \/ StoreConfig(c)
    \/ EnsureRegistered(c) \/ Register(c) \/ Ready(c) \/ Verify(c)

Environment ==
    \/ \E u \in Urls : Refresh(u)
    \/ Shutdown \/ Rotate \/ Outage
    \/ \E d \in Docs : Publish(d)
=============================================================================
