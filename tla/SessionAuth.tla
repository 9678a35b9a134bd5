---------------------------- MODULE SessionAuth ----------------------------
(***************************************************************************)
(* Session auth: the middleware in front of the MCP handler, the           *)
(* well-known routes beside it, and the Validator behind it (the instance  *)
(* Jwt).  The clients are MCP clients: one that is answered 401 follows    *)
(* the challenge through the discovery documents this server publishes,    *)
(* obtains a token from the issuer and tries again.  Client and issuer are *)
(* outside the repository.                                                 *)
(***************************************************************************)
EXTENDS Integers, Sequences

CONSTANTS
    Clients,
    Claims,         \* client -> the "sub" and "preferred_username" of its tokens
    Subs,           \* subjects and user names
    Issuers, Issuer,     \* "iss" claims, and the one of the issuer's own tokens
    Urls, Docs, MaxKey, None,
    Algorithms, AllowedAlgorithms, Algorithm,  \* "alg" headers, the ones accepted,
                                               \* the one the issuer uses
    ServerBaseURL, IssuerURL,   \* two base URLs a client can be pointed to
    ClientID,       \* WellKnownOptions.ClientID
    FallbackWorks,  \* the Keycloak-shaped default paths are the issuer's own
    Foreign,        \* client -> tokens it may hold that it did not get here
    Paths,          \* request paths, as sequences
    OpenPaths       \* Options.OpenPaths

ASSUME SessionAssumption ==
    /\ MaxKey \in Nat \ {0}
    /\ Docs \subseteq [issuer: Issuers \cup {None}, jwks: Urls \cup {None},
                       endpoints: {"upstream", None}]
    /\ Claims \in [Clients -> [sub: Subs \cup {None}, name: Subs \cup {None}]]
    /\ Foreign \in [Clients -> SUBSET [alg: Algorithms \cup {None}, key: 0 .. MaxKey,
                                       iss: Issuers, fresh: BOOLEAN, readable: BOOLEAN]]
    /\ Algorithm \in AllowedAlgorithms /\ AllowedAlgorithms \subseteq Algorithms
    /\ None \notin Algorithms
    /\ Issuer \in Issuers /\ ServerBaseURL # IssuerURL
    /\ FallbackWorks \in BOOLEAN
    /\ OpenPaths \cup Paths \subseteq Seq(STRING)
    /\ None \notin Docs /\ None \notin Subs \cup Issuers \cup Urls
    /\ None \notin {"accepted", "invalid", "expired", "unknown"}

VARIABLES
    up, doc, signer,                         \* the issuer
    oidcConfig, registered, keySet, running,       \* the Validator
    vpc, token, cfg, verdict,                \* its calls
    \* a client and the request it has sent
    cpc,
    user,        \* the User in the context its request reached the handler with
    authServer,  \* authorization_servers of the resource metadata
    endpoints    \* the endpoints of the server metadata

Jwt == INSTANCE JwtValidator WITH Callers <- Clients

jwtVars == <<up, doc, signer, oidcConfig, registered, keySet, running,
             vpc, token, cfg, verdict>>
clientVars == <<cpc, user, authServer, endpoints>>
vars == <<jwtVars, clientVars>>

Phases == {"start", "open", "validating", "served", "challenged", "resource",
           "register", "holding"}

TypeOK ==
    /\ Jwt!TypeOK
    /\ cpc \in [Clients -> Phases]
    /\ user \in [Clients -> Subs \cup {"unknown", None}]
    /\ authServer \in [Clients -> {ServerBaseURL, IssuerURL, None}]
    /\ endpoints \in [Clients -> {"upstream", "default", None}]

Init ==
    /\ Jwt!Init
    /\ cpc = [c \in Clients |-> "start"]
    /\ user = [c \in Clients |-> None]
    /\ authServer = [c \in Clients |-> None]
    /\ endpoints = [c \in Clients |-> None]

Goto(c, p) == cpc' = [cpc EXCEPT ![c] = p]

(***************************************************************************)
(* The middleware.                                                         *)
(***************************************************************************)
HasPrefix(p, o) == Len(o) <= Len(p) /\ SubSeq(p, 1, Len(o)) = o

IsOpenPath(p) == \E o \in OpenPaths : HasPrefix(p, o)

\* OPTIONS or an open path: the handler runs, without a user.
Bypass(c, p, options) ==
    /\ cpc[c] \in {"start", "open"}
    /\ options \/ IsOpenPath(p)
    /\ user' = [user EXCEPT ![c] = None]
    /\ Goto(c, "open")
    /\ UNCHANGED <<jwtVars, authServer, endpoints>>

\* No "Bearer " prefix or nothing behind it.
NoBearer(c, p) ==
    /\ cpc[c] \in {"start", "open"} /\ ~IsOpenPath(p)
    /\ user' = [user EXCEPT ![c] = None]
    /\ Goto(c, "challenged")
    /\ UNCHANGED <<jwtVars, authServer, endpoints>>

\* A request with a token: the one the client obtained, or a foreign one.
Bearer(c, p) ==
    /\ ~IsOpenPath(p)
    /\ \/ cpc[c] \in {"holding", "served"} /\ Jwt!Validate(c, token[c])
       \/ cpc[c] = "start" /\ \E t \in Foreign[c] : Jwt!Validate(c, t)
    /\ user' = [user EXCEPT ![c] = None]
    /\ Goto(c, "validating")
    /\ UNCHANGED <<authServer, endpoints>>

\* userFromClaims.
UserSub(claims) ==
    IF claims.sub # None THEN claims.sub
    ELSE IF claims.name # None THEN claims.name ELSE "unknown"

\* Mutant: only the expiry of a token is treated as a failure.
RespondToExpiredOnly(c) ==
    /\ cpc[c] = "validating"
    /\ IF verdict[c] # "expired"
       THEN Goto(c, "served") /\ user' = [user EXCEPT ![c] = UserSub(Claims[c])]
       ELSE Goto(c, "challenged") /\ UNCHANGED user
    /\ Jwt!Forget(c)
    /\ UNCHANGED <<authServer, endpoints>>

\* Validate returned: the handler runs with the user in its context, or the
\* client is challenged (writeTokenExpired, writeUnauthorized).
Respond(c) ==
    /\ cpc[c] = "validating"
    /\ \/ /\ verdict[c] = "accepted"
          /\ user' = [user EXCEPT ![c] = UserSub(Claims[c])]
          /\ Goto(c, "served")
       \/ verdict[c] # "accepted" /\ Goto(c, "challenged") /\ UNCHANGED user
    /\ Jwt!Forget(c)
    /\ UNCHANGED <<authServer, endpoints>>

(***************************************************************************)
(* The well-known routes, called by a client that was challenged.          *)
(***************************************************************************)

\* resource_metadata in the challenges of writeUnauthorized and writeTokenExpired.
ChallengePointer == ServerBaseURL

\* Mutant: the historical bug, the upstream issuer instead of this server.
AuthorizationServersUpstream == IssuerURL

\* writeProtectedResourceMetadata.
AuthorizationServers == ServerBaseURL

GetResourceMetadata(c) ==
    /\ cpc[c] = "challenged" /\ ChallengePointer = ServerBaseURL
    /\ authServer' = [authServer EXCEPT ![c] = AuthorizationServers]
    /\ Goto(c, "resource")
    /\ UNCHANGED <<jwtVars, user, endpoints>>

\* Mutant: the upstream request has no timeout.
FetchUpstreamDiscoveryNoTimeout(c) ==
    /\ cpc[c] = "resource" /\ authServer[c] = ServerBaseURL /\ up
    /\ authServer' = [authServer EXCEPT ![c] = None]
    /\ endpoints' = [endpoints EXCEPT ![c] = doc.endpoints]
    /\ Goto(c, "register")
    /\ UNCHANGED <<jwtVars, user>>

\* writeAuthorizationServerMetadata; only this server has the route.
\* fetchUpstreamDiscovery returns within five seconds: the upstream document,
\* whatever it leaves out, or the default paths.
FetchUpstreamDiscovery(c) ==
    /\ cpc[c] = "resource" /\ authServer[c] = ServerBaseURL
    /\ authServer' = [authServer EXCEPT ![c] = None]
    /\ endpoints' = [endpoints EXCEPT ![c] = IF up THEN doc.endpoints ELSE "default"]
    /\ Goto(c, "register")
    /\ UNCHANGED <<jwtVars, user>>

\* handleRegister answers every registration with the one client ID.
HandleRegister == ClientID

(***************************************************************************)
(* The client at the issuer.                                               *)
(***************************************************************************)
EndpointsWork(e) == e = "upstream" \/ (e = "default" /\ FallbackWorks)

\* The client registers, authorizes, and obtains a token, or starts again.
Authorize(c) ==
    /\ cpc[c] = "register"
    /\ IF up /\ EndpointsWork(endpoints[c]) /\ HandleRegister = ClientID
       THEN /\ token' = [token EXCEPT ![c] =
                 [alg |-> Algorithm, key |-> signer, iss |-> Issuer, fresh |-> TRUE,
                  readable |-> TRUE]]
            /\ Goto(c, "holding")
       ELSE Goto(c, "start") /\ UNCHANGED token
    /\ endpoints' = [endpoints EXCEPT ![c] = None]
    /\ UNCHANGED <<up, doc, signer, oidcConfig, registered, keySet, running,
                   vpc, cfg, verdict, user, authServer>>

\* A token lives long enough to be used once.  Nothing but Verify looks at "exp",
\* so expiring on the way there is the same as expiring before.
Expire(c) ==
    /\ cpc[c] = "served" /\ token[c].fresh
    /\ token' = [token EXCEPT ![c].fresh = FALSE]
    /\ UNCHANGED <<up, doc, signer, oidcConfig, registered, keySet, running,
                   vpc, cfg, verdict, clientVars>>

Validating(c) ==
    /\ Jwt!Step(c) \/ Jwt!FetchConfig(c) \/ Jwt!GiveUp(c)
    /\ UNCHANGED clientVars

Background == Jwt!Environment /\ UNCHANGED clientVars

ClientStep(c) ==
    \/ \E p \in Paths : NoBearer(c, p) \/ Bearer(c, p)
    \/ GetResourceMetadata(c) \/ Authorize(c)

Next ==
    \/ \E c \in Clients :
        \/ \E p \in Paths, options \in BOOLEAN : Bypass(c, p, options)
        \/ ClientStep(c) \/ Validating(c) \/ Respond(c)
        \/ FetchUpstreamDiscovery(c) \/ Expire(c)
    \/ Background

\* What happens next to a request in the server: its goroutine does what it has to
\* do.  A request to an issuer that does not answer is under no obligation to fail.
Serve(c) ==
    \/ (Jwt!Step(c) \/ (up /\ Jwt!FetchConfig(c))) /\ UNCHANGED clientVars
    \/ Respond(c) \/ FetchUpstreamDiscovery(c)

\* A client keeps following challenges.  Client and server take turns, so one
\* fairness condition serves both; the background loop of the cache has its own.
Fairness ==
    /\ \A c \in Clients : WF_vars(ClientStep(c) \/ Serve(c))
    /\ \A u \in Urls : WF_vars(Jwt!Refresh(u) /\ UNCHANGED clientVars)

Spec == Init /\ [][Next]_vars /\ Fairness

(***************************************************************************)
(* Properties.                                                             *)
(***************************************************************************)

\* The handler starts with a user in its context only for a token that passed
\* every check against what the issuer itself has published: an allowed algorithm,
\* a key it had, no "exp" in the past, and the issuer of the document the call
\* worked with, if that declares one; and its claims could be read.  Neither a failed fetch nor a stale document
\* or key set lets anything else in.
AcceptedTokenIsGenuine ==
    [][\A c \in Clients : user[c] = None /\ user'[c] # None =>
        /\ token[c].alg \in AllowedAlgorithms
        /\ token[c].key \in 1 .. signer
        /\ token[c].fresh /\ token[c].readable
        /\ cfg[c] \in Docs /\ cfg[c].jwks # None
        /\ cfg[c].issuer \in {None, token[c].iss}]_vars

\* The "token expired" challenge, which tells a client to get a new token, is
\* given only for a token the issuer did sign; a forged one is reported as invalid,
\* also when it has expired as well.  (An expired token the issuer signed for another
\* "iss" is reported as expired: the issuer is compared later.)
ExpiredMeansGenuine ==
    \A c \in Clients : verdict[c] = "expired" =>
        ~token[c].fresh /\ token[c].key \in 1 .. signer

\* GET /.well-known/oauth-authorization-server is answered although the upstream
\* issuer never answers (the five second timeout and the default paths).
MetadataAlwaysAnswered ==
    \A c \in Clients : cpc[c] = "resource" ~> cpc[c] # "resource"

\* The documents that name a JWKS URL agree on it and on the issuer of the tokens
\* (the Validator keeps the first one it gets for ever).
DocsAgree ==
    \A d, e \in Docs :
        /\ d.issuer \in {None, Issuer}
        /\ d.jwks # None /\ e.jwks # None => d.jwks = e.jwks

Healthy == up /\ running /\ doc.jwks # None /\ doc.endpoints # None

\* Whatever failed before (discovery, a half-finished registration, an incomplete
\* document, rotated keys, a lost race to register), once the issuer is healthy a
\* client that follows the challenge is served: no failure is cached for ever.
ClientGetsIn ==
    DocsAgree /\ <>[]Healthy =>
        \A c \in Clients : cpc[c] = "challenged" ~> cpc[c] = "served"

\* A key the issuer withdrew leaves the cached key set.
WithdrawnKeyDies ==
    <>[](up /\ running) =>
        \A k \in 1 .. MaxKey - 1, u \in Urls :
            k < signer ~> keySet[u] = None \/ k \notin keySet[u]
=============================================================================
