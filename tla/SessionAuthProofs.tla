------------------------- MODULE SessionAuthProofs -------------------------

(***************************************************************************)
(* Proofs about SessionAuth and the Validator behind it, for any number of *)
(* clients, documents, URLs and signing keys.                              *)
(***************************************************************************)
EXTENDS SessionAuth, TLAPS

(***************************************************************************)
(* The inductive invariant.                                                *)
(***************************************************************************)

\* A document that Validate can work with.
Usable(d) == d \in Docs /\ d.jwks # None

\* Only usable documents and keys the issuer had are kept.
CacheInv ==
    /\ oidcConfig # None => Usable(oidcConfig)
    /\ \A u \in Urls : keySet[u] # None => keySet[u] \subseteq 1 .. signer

\* A request is in the middleware as long as Validate runs or its result has not
\* been acted on; a client keeps the token it obtained.
CallShape(c) ==
    /\ vpc[c] # "idle" => /\ cpc[c] = "validating" /\ verdict[c] = None
                          /\ token[c] \in Jwt!Token /\ token[c].alg \in AllowedAlgorithms
    /\ vpc[c] \in {"store", "ensure", "register", "ready", "lookup"} => Usable(cfg[c])
    /\ verdict[c] # None => cpc[c] = "validating"
    /\ cpc[c] \in {"holding", "served"} => token[c] \in Jwt!Token

\* What a result says about the token it was given for.
VerdictIsGrounded(c) ==
    /\ verdict[c] = "accepted" =>
        /\ token[c] \in Jwt!Token /\ token[c].alg \in AllowedAlgorithms
        /\ token[c].key \in 1 .. signer /\ token[c].fresh /\ token[c].readable
        /\ Usable(cfg[c]) /\ cfg[c].issuer \in {None, token[c].iss}
    /\ verdict[c] = "expired" => ~token[c].fresh /\ token[c].key \in 1 .. signer

CallInv(c) == CallShape(c) /\ VerdictIsGrounded(c)

IInv == TypeOK /\ CacheInv /\ \A c \in Clients : CallInv(c)

USE SessionAssumption
USE DEF jwtVars, clientVars, Phases, Jwt!issuerVars, Jwt!cacheVars, Jwt!callVars,
    Jwt!Keys, Jwt!Verdicts, Jwt!Steps

(***************************************************************************)
(* Lemmas about the operators.                                             *)
(***************************************************************************)

\* What a usable document holds.
LEMMA UsableDoc ==
    ASSUME NEW d, Usable(d)
    PROVE  d \in Docs /\ d.jwks \in Urls
BY DEF Usable

\* The user in the context is never nil.
LEMMA UserSubTyping ==
    ASSUME NEW c \in Clients
    PROVE  UserSub(Claims[c]) \in Subs \cup {"unknown"}
BY DEF UserSub

\* What Judge has looked at, whatever it answers.
LEMMA JudgeIsGrounded ==
    ASSUME NEW t, NEW ks, NEW d
    PROVE  /\ Jwt!Judge(t, ks, d) \in Jwt!Verdicts
           /\ Jwt!Judge(t, ks, d) = "accepted" =>
                t.key \in ks /\ t.fresh /\ t.readable /\ d.issuer \in {None, t.iss}
           /\ Jwt!Judge(t, ks, d) = "expired" => t.key \in ks /\ ~t.fresh
BY DEF Jwt!Judge

\* The initial state.
LEMMA InitInv == Init => IInv
<1> SUFFICES ASSUME Init PROVE IInv
  OBVIOUS
<1>1. TypeOK
  <2>1. 1 \in 1 .. MaxKey
    OBVIOUS
  <2>2. /\ up \in BOOLEAN /\ doc \in Docs /\ signer \in 1 .. MaxKey
        /\ oidcConfig = None /\ registered = {} /\ running = TRUE
    BY <2>1 DEF Init, Jwt!Init
  <2>3. /\ keySet \in [Urls -> (SUBSET (1 .. MaxKey)) \cup {None}]
        /\ vpc \in [Clients -> {"idle"} \cup Jwt!Steps]
    BY DEF Init, Jwt!Init
  <2>4. /\ token \in [Clients -> Jwt!Token \cup {None}]
        /\ cfg \in [Clients -> Docs \cup {None}]
        /\ verdict \in [Clients -> Jwt!Verdicts \cup {None}]
    BY DEF Init, Jwt!Init
  <2>5. Jwt!TypeOK
    BY <2>2, <2>3, <2>4 DEF Jwt!TypeOK
  <2> QED BY <2>5 DEF Init, TypeOK
<1>2. CacheInv
  BY DEF Init, Jwt!Init, CacheInv
<1>3. ASSUME NEW c \in Clients PROVE CallInv(c)
  <2>1. cpc[c] = "start" /\ vpc[c] = "idle" /\ verdict[c] = None
    BY DEF Init, Jwt!Init
  <2> QED BY <2>1 DEF CallInv, CallShape, VerdictIsGrounded
<1> QED BY <1>1, <1>2, <1>3 DEF IInv

\* The issuer's keys only become more.
LEMMA KeysGrow ==
    ASSUME IInv, signer' \in Nat, signer <= signer'
    PROVE  \A k \in 1 .. signer : k \in 1 .. signer'
BY DEF IInv, TypeOK, Jwt!TypeOK

\* A request that does not move keeps its part of the invariant.
LEMMA CallFrame ==
    ASSUME IInv, NEW c \in Clients, signer' \in Nat, signer <= signer',
           cpc'[c] = cpc[c], vpc'[c] = vpc[c], token'[c] = token[c], cfg'[c] = cfg[c],
           verdict'[c] = verdict[c]
    PROVE  CallInv(c)'
<1>1. CallShape(c)'
  BY DEF IInv, CallInv, CallShape, Usable, Jwt!Token
<1>2. VerdictIsGrounded(c)'
  BY KeysGrow DEF IInv, CallInv, VerdictIsGrounded, Usable, Jwt!Token
<1> QED BY <1>1, <1>2 DEF CallInv

\* What follows for the other requests when c moves.
OnlyCall(c) ==
    \A d \in Clients : d # c =>
        /\ cpc'[d] = cpc[d] /\ vpc'[d] = vpc[d] /\ token'[d] = token[d]
        /\ cfg'[d] = cfg[d] /\ verdict'[d] = verdict[d]

\* A step of one request, which leaves the issuer alone.
LEMMA CallStep ==
    ASSUME IInv, NEW c \in Clients, TypeOK', CacheInv', OnlyCall(c), CallInv(c)',
           UNCHANGED signer
    PROVE  IInv'
<1>1. signer' \in Nat /\ signer <= signer'
  BY DEF IInv, TypeOK, Jwt!TypeOK
<1>2. \A d \in Clients : CallInv(d)'
  BY <1>1, CallFrame DEF OnlyCall
<1> QED BY <1>2 DEF IInv

\* Nothing is kept or forgotten by the Validator.
LEMMA CacheFrame ==
    ASSUME IInv, UNCHANGED <<oidcConfig, keySet, signer>>
    PROVE  CacheInv'
BY DEF IInv, CacheInv, Usable

(***************************************************************************)
(* The middleware, the routes and the client.                              *)
(***************************************************************************)

\* A step of a client outside of a call of Validate.
LEMMA OutsideInv ==
    ASSUME IInv, NEW c \in Clients, NEW p \in Phases,
           cpc[c] # "validating", p \notin {"validating", "holding", "served"},
           Goto(c, p), UNCHANGED jwtVars,
           user' \in [Clients -> Subs \cup {"unknown", None}],
           authServer' \in [Clients -> {ServerBaseURL, IssuerURL, None}],
           endpoints' \in [Clients -> {"upstream", "default", None}]
    PROVE  IInv'
<1>1. TypeOK'
  BY DEF IInv, TypeOK, Jwt!TypeOK, Goto, Jwt!Token
<1>2. CacheInv'
  BY CacheFrame
<1>3. OnlyCall(c)
  BY DEF OnlyCall, Goto, IInv, TypeOK
<1>4. CallInv(c)'
  <2>1. vpc'[c] = "idle" /\ verdict'[c] = None /\ cpc'[c] = p
    BY DEF IInv, CallInv, CallShape, Goto, TypeOK
  <2> QED BY <2>1 DEF CallInv, CallShape, VerdictIsGrounded
<1> QED BY <1>1, <1>2, <1>3, <1>4, CallStep

LEMMA BypassInv ==
    ASSUME IInv, NEW c \in Clients, NEW p, NEW o, Bypass(c, p, o)
    PROVE  IInv'
<1>1. cpc[c] # "validating" /\ Goto(c, "open") /\ UNCHANGED jwtVars
  BY DEF Bypass
<1>2. /\ user' \in [Clients -> Subs \cup {"unknown", None}]
      /\ authServer' \in [Clients -> {ServerBaseURL, IssuerURL, None}]
      /\ endpoints' \in [Clients -> {"upstream", "default", None}]
  BY DEF Bypass, IInv, TypeOK
<1> QED BY <1>1, <1>2, OutsideInv

LEMMA NoBearerInv ==
    ASSUME IInv, NEW c \in Clients, NEW p, NoBearer(c, p)
    PROVE  IInv'
<1>1. cpc[c] # "validating" /\ Goto(c, "challenged") /\ UNCHANGED jwtVars
  BY DEF NoBearer
<1>2. /\ user' \in [Clients -> Subs \cup {"unknown", None}]
      /\ authServer' \in [Clients -> {ServerBaseURL, IssuerURL, None}]
      /\ endpoints' \in [Clients -> {"upstream", "default", None}]
  BY DEF NoBearer, IInv, TypeOK
<1> QED BY <1>1, <1>2, OutsideInv

LEMMA GetResourceMetadataInv ==
    ASSUME IInv, NEW c \in Clients, GetResourceMetadata(c)
    PROVE  IInv'
<1>1. cpc[c] # "validating" /\ Goto(c, "resource") /\ UNCHANGED jwtVars
  BY DEF GetResourceMetadata
<1>2. /\ user' \in [Clients -> Subs \cup {"unknown", None}]
      /\ authServer' \in [Clients -> {ServerBaseURL, IssuerURL, None}]
      /\ endpoints' \in [Clients -> {"upstream", "default", None}]
  BY DEF GetResourceMetadata, IInv, TypeOK, AuthorizationServers
<1> QED BY <1>1, <1>2, OutsideInv

LEMMA FetchUpstreamDiscoveryInv ==
    ASSUME IInv, NEW c \in Clients, FetchUpstreamDiscovery(c)
    PROVE  IInv'
<1>1. cpc[c] # "validating" /\ Goto(c, "register") /\ UNCHANGED jwtVars
  BY DEF FetchUpstreamDiscovery
<1>2. (IF up THEN doc.endpoints ELSE "default") \in {"upstream", "default", None}
  BY DEF IInv, TypeOK, Jwt!TypeOK
<1>3. /\ user' \in [Clients -> Subs \cup {"unknown", None}]
      /\ authServer' \in [Clients -> {ServerBaseURL, IssuerURL, None}]
      /\ endpoints' \in [Clients -> {"upstream", "default", None}]
  BY <1>2 DEF FetchUpstreamDiscovery, IInv, TypeOK
<1> QED BY <1>1, <1>3, OutsideInv

\* Validate is called with any token, not only with one it will accept.
LEMMA BearerInv ==
    ASSUME IInv, NEW c \in Clients, NEW p, Bearer(c, p)
    PROVE  IInv'
<1>1. PICK t \in Jwt!Token : Jwt!Validate(c, t)
  BY DEF Bearer, IInv, CallInv, CallShape, Jwt!Token
<1>2. cpc[c] # "validating" /\ vpc[c] = "idle" /\ verdict[c] = None
  BY <1>1 DEF Bearer, Jwt!Validate, IInv, CallInv, CallShape
<1>3. /\ cpc' = [cpc EXCEPT ![c] = "validating"] /\ token' = [token EXCEPT ![c] = t]
      /\ user' = [user EXCEPT ![c] = None]
      /\ UNCHANGED <<up, doc, signer, oidcConfig, registered, keySet, running, cfg,
                     authServer, endpoints>>
  BY <1>1 DEF Bearer, Goto, Jwt!Validate
<1>4. \/ /\ t.alg \in AllowedAlgorithms
         /\ vpc' = [vpc EXCEPT ![c] = "config"] /\ verdict' = verdict
      \/ vpc' = [vpc EXCEPT ![c] = "idle"] /\ verdict' = [verdict EXCEPT ![c] = "invalid"]
  BY <1>1 DEF Jwt!Validate, Jwt!CheckAlgorithm, Jwt!Proceed, Jwt!Return, Jwt!Goto
<1>5. TypeOK'
  <2>1. Jwt!TypeOK'
    BY <1>3, <1>4 DEF IInv, TypeOK, Jwt!TypeOK
  <2> QED BY <1>3, <2>1 DEF IInv, TypeOK
<1>6. CacheInv'
  BY <1>3, CacheFrame
<1>7. OnlyCall(c)
  BY <1>3, <1>4 DEF OnlyCall, IInv, TypeOK, Jwt!TypeOK
<1>8. CallInv(c)'
  <2>1. cpc'[c] = "validating" /\ token'[c] = t
    BY <1>3 DEF IInv, TypeOK, Jwt!TypeOK
  <2>2. \/ t.alg \in AllowedAlgorithms /\ vpc'[c] = "config" /\ verdict'[c] = None
        \/ vpc'[c] = "idle" /\ verdict'[c] = "invalid"
    BY <1>2, <1>4 DEF IInv, TypeOK, Jwt!TypeOK
  <2> QED BY <2>1, <2>2 DEF CallInv, CallShape, VerdictIsGrounded, Jwt!Token
<1> QED BY <1>3, <1>5, <1>6, <1>7, <1>8, CallStep

LEMMA RespondInv ==
    ASSUME IInv, NEW c \in Clients, Respond(c)
    PROVE  IInv'
<1>1. /\ vpc[c] = "idle" /\ verdict' = [verdict EXCEPT ![c] = None]
      /\ cfg' = [cfg EXCEPT ![c] = None]
      /\ UNCHANGED <<up, doc, signer, oidcConfig, registered, keySet, running, vpc,
                     authServer, endpoints>>
  BY DEF Respond, Jwt!Forget
<1>2. \/ /\ verdict[c] = "accepted" /\ cpc' = [cpc EXCEPT ![c] = "served"]
         /\ token' = token
         /\ user' = [user EXCEPT ![c] = UserSub(Claims[c])]
      \/ /\ cpc' = [cpc EXCEPT ![c] = "challenged"]
         /\ token' = [token EXCEPT ![c] = None]
         /\ user' = user
  BY DEF Respond, Goto, Jwt!Forget, IInv, TypeOK, Jwt!TypeOK
<1>3. TypeOK'
  <2>1. Jwt!TypeOK'
    BY <1>1, <1>2 DEF IInv, TypeOK, Jwt!TypeOK
  <2>2. user' \in [Clients -> Subs \cup {"unknown", None}]
    BY <1>2, UserSubTyping DEF IInv, TypeOK
  <2>3. cpc' \in [Clients -> Phases]
    BY <1>2 DEF IInv, TypeOK
  <2> QED BY <1>1, <2>1, <2>2, <2>3 DEF IInv, TypeOK
<1>4. CacheInv'
  BY <1>1, CacheFrame
<1>5. OnlyCall(c)
  BY <1>1, <1>2 DEF OnlyCall, IInv, TypeOK, Jwt!TypeOK
<1>6. CallInv(c)'
  <2>1. vpc'[c] = "idle" /\ verdict'[c] = None
    BY <1>1 DEF IInv, TypeOK, Jwt!TypeOK
  <2>2. \/ cpc'[c] = "served" /\ token'[c] \in Jwt!Token
        \/ cpc'[c] = "challenged"
    BY <1>2 DEF IInv, TypeOK, CallInv, VerdictIsGrounded
  <2> QED BY <2>1, <2>2 DEF CallInv, CallShape, VerdictIsGrounded, Jwt!Token
<1> QED BY <1>1, <1>3, <1>4, <1>5, <1>6, CallStep

\* The client obtains a token, or starts again.
LEMMA AuthorizeInv ==
    ASSUME IInv, NEW c \in Clients, Authorize(c)
    PROVE  IInv'
<1> DEFINE t == [alg |-> Algorithm, key |-> signer, iss |-> Issuer, fresh |-> TRUE,
                readable |-> TRUE]
<1>1. /\ cpc[c] = "register" /\ endpoints' = [endpoints EXCEPT ![c] = None]
      /\ UNCHANGED <<up, doc, signer, oidcConfig, registered, keySet, running,
                     vpc, cfg, verdict, user, authServer>>
  BY DEF Authorize
<1>2. \/ cpc' = [cpc EXCEPT ![c] = "holding"] /\ token' = [token EXCEPT ![c] = t]
      \/ cpc' = [cpc EXCEPT ![c] = "start"] /\ token' = token
  BY DEF Authorize, Goto
<1>3. t \in Jwt!Token
  BY DEF IInv, TypeOK, Jwt!TypeOK, Jwt!Token
<1> HIDE DEF t
<1>4. TypeOK'
  <2>1. Jwt!TypeOK'
    BY <1>1, <1>2, <1>3 DEF IInv, TypeOK, Jwt!TypeOK
  <2> QED BY <1>1, <1>2, <2>1 DEF IInv, TypeOK
<1>5. CacheInv'
  BY <1>1, CacheFrame
<1>6. OnlyCall(c)
  BY <1>1, <1>2 DEF OnlyCall, IInv, TypeOK, Jwt!TypeOK
<1>7. CallInv(c)'
  <2>1. vpc'[c] = "idle" /\ verdict'[c] = None
    BY <1>1 DEF IInv, CallInv, CallShape
  <2>2. \/ cpc'[c] = "holding" /\ token'[c] \in Jwt!Token
        \/ cpc'[c] = "start"
    BY <1>2, <1>3 DEF IInv, TypeOK, Jwt!TypeOK
  <2> QED BY <2>1, <2>2 DEF CallInv, CallShape, VerdictIsGrounded, Jwt!Token
<1> QED BY <1>1, <1>4, <1>5, <1>6, <1>7, CallStep

LEMMA ExpireInv ==
    ASSUME IInv, NEW c \in Clients, Expire(c)
    PROVE  IInv'
<1>1. /\ cpc[c] = "served" /\ token[c] \in Jwt!Token
      /\ UNCHANGED <<up, doc, signer, oidcConfig, registered, keySet, running,
                     vpc, cfg, verdict, cpc, user, authServer, endpoints>>
  BY DEF Expire, IInv, CallInv, CallShape
<1>2. PICK t \in Jwt!Token : token' = [token EXCEPT ![c] = t]
  <2>1. [token[c] EXCEPT !.fresh = FALSE] \in Jwt!Token
    BY <1>1 DEF Jwt!Token
  <2> QED BY <2>1 DEF Expire
<1>3. TypeOK'
  <2>1. Jwt!TypeOK'
    BY <1>1, <1>2 DEF IInv, TypeOK, Jwt!TypeOK
  <2> QED BY <1>1, <2>1 DEF IInv, TypeOK
<1>4. CacheInv'
  BY <1>1, CacheFrame
<1>5. OnlyCall(c)
  BY <1>1, <1>2 DEF OnlyCall, IInv, TypeOK, Jwt!TypeOK
<1>6. CallInv(c)'
  <2>1. vpc'[c] = "idle" /\ verdict'[c] = None
    BY <1>1 DEF IInv, CallInv, CallShape
  <2>2. token'[c] \in Jwt!Token
    BY <1>2 DEF IInv, TypeOK, Jwt!TypeOK
  <2> QED BY <2>1, <2>2 DEF CallInv, CallShape, VerdictIsGrounded, Jwt!Token
<1> QED BY <1>1, <1>3, <1>4, <1>5, <1>6, CallStep

(***************************************************************************)
(* Validate.                                                               *)
(***************************************************************************)

\* A call of Validate goes on to step p with document d.
LEMMA ProceedInv ==
    ASSUME IInv, NEW c \in Clients, vpc[c] # "idle", NEW p \in Jwt!Steps,
           Jwt!Proceed(c, p), NEW d \in Docs \cup {None},
           cfg' = [cfg EXCEPT ![c] = d],
           p \in {"store", "ensure", "register", "ready", "lookup"} => Usable(d),
           registered' \subseteq Urls, oidcConfig' \in {oidcConfig, d},
           oidcConfig' # None => Usable(oidcConfig'),
           UNCHANGED <<up, doc, signer, keySet, running, token, clientVars>>
    PROVE  IInv'
<1>1. vpc' = [vpc EXCEPT ![c] = p] /\ verdict' = verdict
  BY DEF Jwt!Proceed, Jwt!Goto
<1>2. TypeOK'
  <2>1. Jwt!TypeOK'
    BY <1>1 DEF IInv, TypeOK, Jwt!TypeOK
  <2> QED BY <2>1 DEF IInv, TypeOK
<1>3. CacheInv'
  BY DEF IInv, CacheInv, Usable
<1>4. OnlyCall(c)
  BY <1>1 DEF OnlyCall, IInv, TypeOK, Jwt!TypeOK
<1>5. CallInv(c)'
  <2>1. vpc'[c] = p /\ cfg'[c] = d
    BY <1>1 DEF IInv, TypeOK, Jwt!TypeOK
  <2>2. /\ cpc'[c] = "validating" /\ verdict'[c] = None
        /\ token'[c] \in Jwt!Token /\ token'[c].alg \in AllowedAlgorithms
    BY <1>1 DEF IInv, CallInv, CallShape
  <2> QED BY <2>1, <2>2 DEF CallInv, CallShape, VerdictIsGrounded, Usable, Jwt!Token
<1> QED BY <1>2, <1>3, <1>4, <1>5, CallStep

\* A call of Validate returns v, for which there are grounds.
LEMMA ReturnInv ==
    ASSUME IInv, NEW c \in Clients, vpc[c] # "idle", NEW v \in Jwt!Verdicts,
           Jwt!Return(c, v),
           v = "accepted" => /\ token[c].key \in 1 .. signer /\ token[c].fresh /\ token[c].readable
                             /\ Usable(cfg[c]) /\ cfg[c].issuer \in {None, token[c].iss},
           v = "expired" => ~token[c].fresh /\ token[c].key \in 1 .. signer,
           UNCHANGED <<up, doc, signer, oidcConfig, registered, keySet, running,
                       token, cfg, clientVars>>
    PROVE  IInv'
<1>1. vpc' = [vpc EXCEPT ![c] = "idle"] /\ verdict' = [verdict EXCEPT ![c] = v]
  BY DEF Jwt!Return, Jwt!Goto
<1>2. TypeOK'
  <2>1. Jwt!TypeOK'
    BY <1>1 DEF IInv, TypeOK, Jwt!TypeOK
  <2> QED BY <2>1 DEF IInv, TypeOK
<1>3. CacheInv'
  BY CacheFrame
<1>4. OnlyCall(c)
  BY <1>1 DEF OnlyCall, IInv, TypeOK, Jwt!TypeOK
<1>5. CallInv(c)'
  <2>1. vpc'[c] = "idle" /\ verdict'[c] = v
    BY <1>1 DEF IInv, TypeOK, Jwt!TypeOK
  <2>2. /\ cpc'[c] = "validating"
        /\ token[c] \in Jwt!Token /\ token[c].alg \in AllowedAlgorithms
    BY DEF IInv, CallInv, CallShape
  <2>3. CallShape(c)'
    BY <2>1, <2>2 DEF CallShape
  <2>4. VerdictIsGrounded(c)'
    BY <2>1, <2>2 DEF VerdictIsGrounded, Usable, Jwt!Token
  <2> QED BY <2>3, <2>4 DEF CallInv
<1> QED BY <1>2, <1>3, <1>4, <1>5, CallStep

\* A call that has got as far as the registration works with a usable document.
LEMMA WorksWithUsable ==
    ASSUME IInv, NEW c \in Clients,
           vpc[c] \in {"store", "ensure", "register", "ready", "lookup"}
    PROVE  Usable(cfg[c]) /\ cfg = [cfg EXCEPT ![c] = cfg[c]]
BY DEF IInv, CallInv, CallShape, TypeOK, Jwt!TypeOK

LEMMA ReadConfigInv ==
    ASSUME IInv, NEW c \in Clients, Jwt!ReadConfig(c), UNCHANGED clientVars
    PROVE  IInv'
<1>1. /\ vpc[c] # "idle"
      /\ UNCHANGED <<up, doc, signer, oidcConfig, registered, keySet, running, token>>
  BY DEF Jwt!ReadConfig
<1>2. /\ registered' \subseteq Urls
      /\ oidcConfig' # None => Usable(oidcConfig')
      /\ cfg[c] \in Docs \cup {None} /\ oidcConfig \in Docs \cup {None}
      /\ cfg = [cfg EXCEPT ![c] = cfg[c]]
  BY <1>1 DEF IInv, CacheInv, TypeOK, Jwt!TypeOK
<1>3. CASE oidcConfig = None
  <2>1. Jwt!Proceed(c, "fetch") /\ cfg' = [cfg EXCEPT ![c] = cfg[c]]
    BY <1>2, <1>3 DEF Jwt!ReadConfig
  <2> QED BY <1>1, <1>2, <2>1, ProceedInv
<1>4. CASE oidcConfig # None
  <2>1. Jwt!Proceed(c, "ensure") /\ cfg' = [cfg EXCEPT ![c] = oidcConfig]
    BY <1>4 DEF Jwt!ReadConfig
  <2>2. Usable(oidcConfig)
    BY <1>4 DEF IInv, CacheInv
  <2> QED BY <1>1, <1>2, <2>1, <2>2, ProceedInv
<1> QED BY <1>3, <1>4

LEMMA FetchConfigInv ==
    ASSUME IInv, NEW c \in Clients, Jwt!FetchConfig(c), UNCHANGED clientVars
    PROVE  IInv'
<1>1. /\ vpc[c] # "idle"
      /\ UNCHANGED <<up, doc, signer, oidcConfig, registered, keySet, running, token>>
  BY DEF Jwt!FetchConfig
<1>2. CASE Jwt!Return(c, "invalid") /\ UNCHANGED cfg
  BY <1>1, <1>2, ReturnInv
<1>3. CASE doc.jwks # None /\ cfg' = [cfg EXCEPT ![c] = doc] /\ Jwt!Proceed(c, "store")
  <2>1. /\ registered' \subseteq Urls
        /\ oidcConfig' # None => Usable(oidcConfig')
        /\ doc \in Docs /\ Usable(doc)
    BY <1>1, <1>3 DEF IInv, CacheInv, TypeOK, Jwt!TypeOK, Usable
  <2> QED BY <1>1, <1>3, <2>1, ProceedInv
<1> QED BY <1>2, <1>3 DEF Jwt!FetchConfig

\* Only a usable document is kept: the Validator never looks for another one.
LEMMA StoreConfigInv ==
    ASSUME IInv, NEW c \in Clients, Jwt!StoreConfig(c), UNCHANGED clientVars
    PROVE  IInv'
<1>1. /\ vpc[c] = "store" /\ oidcConfig' = cfg[c] /\ Jwt!Proceed(c, "ensure")
      /\ UNCHANGED <<up, doc, signer, registered, keySet, running, token, cfg>>
  BY DEF Jwt!StoreConfig
<1>2. Usable(cfg[c]) /\ cfg' = [cfg EXCEPT ![c] = cfg[c]]
  BY <1>1, WorksWithUsable
<1>3. cfg[c] \in Docs /\ registered' \subseteq Urls
  BY <1>1, <1>2 DEF IInv, TypeOK, Jwt!TypeOK, Usable
<1> QED BY <1>1, <1>2, <1>3, ProceedInv

\* A call goes on with the document it has and leaves the cached one alone.
LEMMA OnwardInv ==
    ASSUME IInv, NEW c \in Clients,
           vpc[c] \in {"store", "ensure", "register", "ready", "lookup"},
           NEW p \in Jwt!Steps, Jwt!Proceed(c, p), registered' \subseteq Urls,
           UNCHANGED <<up, doc, signer, oidcConfig, keySet, running, token, cfg, clientVars>>
    PROVE  IInv'
<1>1. Usable(cfg[c]) /\ cfg' = [cfg EXCEPT ![c] = cfg[c]]
  BY WorksWithUsable
<1>2. cfg[c] \in Docs /\ (oidcConfig' # None => Usable(oidcConfig'))
  BY <1>1 DEF IInv, CacheInv, Usable
<1>3. vpc[c] # "idle" /\ oidcConfig' \in {oidcConfig, cfg[c]}
  OBVIOUS
<1> DEFINE d == cfg[c]
<1>4. d \in Docs \cup {None}
  BY <1>2
<1> HIDE DEF Jwt!Steps
<1>5. (p \in {"store", "ensure", "register", "ready", "lookup"}) => Usable(d)
  BY <1>1
<1> HIDE DEF d
<1>6. cfg' = [cfg EXCEPT ![c] = d] /\ oidcConfig' \in {oidcConfig, d}
  BY <1>1, <1>3 DEF d
<1> QED BY <1>2, <1>3, <1>4, <1>5, <1>6, ProceedInv

LEMMA EnsureRegisteredInv ==
    ASSUME IInv, NEW c \in Clients, Jwt!EnsureRegistered(c), UNCHANGED clientVars
    PROVE  IInv'
<1>1. PICK p \in {"lookup", "register"} : Jwt!Proceed(c, p)
  BY DEF Jwt!EnsureRegistered
<1>2. /\ vpc[c] = "ensure" /\ registered' \subseteq Urls
      /\ UNCHANGED <<up, doc, signer, oidcConfig, keySet, running, token, cfg>>
  BY DEF Jwt!EnsureRegistered, IInv, TypeOK, Jwt!TypeOK
<1> QED BY <1>1, <1>2, OnwardInv

LEMMA RegisterInv ==
    ASSUME IInv, NEW c \in Clients, Jwt!Register(c), UNCHANGED clientVars
    PROVE  IInv'
<1>1. /\ vpc[c] = "register"
      /\ UNCHANGED <<up, doc, signer, oidcConfig, keySet, running, token, cfg>>
  BY DEF Jwt!Register
<1>2. cfg[c].jwks \in Urls /\ registered \subseteq Urls
  BY <1>1, WorksWithUsable, UsableDoc DEF IInv, TypeOK, Jwt!TypeOK
<1>3. CASE \E p \in {"ready", "lookup"} : Jwt!Proceed(c, p) /\ registered' \subseteq Urls
  BY <1>1, <1>3, OnwardInv
<1>4. CASE Jwt!Return(c, "invalid") /\ UNCHANGED registered
  BY <1>1, <1>4, ReturnInv
<1> QED BY <1>2, <1>3, <1>4 DEF Jwt!Register

LEMMA ReadyInv ==
    ASSUME IInv, NEW c \in Clients, Jwt!Ready(c), UNCHANGED clientVars
    PROVE  IInv'
<1>1. /\ vpc[c] = "ready" /\ Jwt!Proceed(c, "lookup") /\ registered' \subseteq Urls
      /\ UNCHANGED <<up, doc, signer, oidcConfig, keySet, running, token, cfg>>
  BY DEF Jwt!Ready, IInv, TypeOK, Jwt!TypeOK
<1> QED BY <1>1, OnwardInv

LEMMA GiveUpInv ==
    ASSUME IInv, NEW c \in Clients, Jwt!GiveUp(c), UNCHANGED clientVars
    PROVE  IInv'
<1>1. /\ vpc[c] # "idle" /\ Jwt!Return(c, "invalid")
      /\ UNCHANGED <<up, doc, signer, oidcConfig, registered, keySet, running, token, cfg>>
  BY DEF Jwt!GiveUp
<1> QED BY <1>1, ReturnInv

\* The keys looked up were the issuer's, and Judge saw the token's among them.
LEMMA VerifyInv ==
    ASSUME IInv, NEW c \in Clients, Jwt!Verify(c), UNCHANGED clientVars
    PROVE  IInv'
<1> DEFINE ks == keySet[cfg[c].jwks]
           v  == IF ks = None \/ ~running THEN "invalid" ELSE Jwt!Judge(token[c], ks, cfg[c])
<1>1. /\ vpc[c] = "lookup" /\ Jwt!Return(c, v)
      /\ UNCHANGED <<up, doc, signer, oidcConfig, registered, keySet, running, token, cfg>>
  BY DEF Jwt!Verify
<1>2. Usable(cfg[c]) /\ cfg[c].jwks \in Urls
  BY <1>1, WorksWithUsable, UsableDoc
<1>3. ks # None => ks \subseteq 1 .. signer
  BY <1>2 DEF IInv, CacheInv
<1>4. /\ v \in Jwt!Verdicts
      /\ v = "accepted" => /\ ks # None /\ token[c].key \in ks
                           /\ token[c].fresh /\ token[c].readable
                           /\ cfg[c].issuer \in {None, token[c].iss}
      /\ v = "expired" => ks # None /\ token[c].key \in ks /\ ~token[c].fresh
  BY JudgeIsGrounded
<1> HIDE DEF ks, v
<1>5. vpc[c] # "idle"
  BY <1>1
<1> QED BY <1>1, <1>2, <1>3, <1>4, <1>5, ReturnInv

(***************************************************************************)
(* The cache and the issuer.                                               *)
(***************************************************************************)

\* Nothing the issuer or the cache does touches a call: new keys come on top.
LEMMA BackgroundInv ==
    ASSUME IInv, Background
    PROVE  IInv'
<1>1. UNCHANGED <<vpc, token, cfg, verdict, cpc, user, authServer, endpoints,
                  oidcConfig, registered>>
  BY DEF Background, Jwt!Environment, Jwt!Refresh, Jwt!Shutdown, Jwt!Rotate, Jwt!Outage,
         Jwt!Publish
<1>2. /\ up' \in BOOLEAN /\ doc' \in Docs /\ running' \in BOOLEAN
      /\ signer' \in 1 .. MaxKey /\ signer <= signer'
  <2>1. Jwt!TypeOK
    BY DEF IInv, TypeOK
  <2>2. /\ up' \in BOOLEAN /\ running' \in BOOLEAN /\ doc' \in Docs
    BY <2>1, Zenon DEF Background, Jwt!Environment, Jwt!Refresh, Jwt!Shutdown, Jwt!Rotate,
       Jwt!Outage, Jwt!Publish, Jwt!TypeOK
  <2>3. signer' = signer \/ (signer < MaxKey /\ signer' = signer + 1)
    BY DEF Background, Jwt!Environment, Jwt!Refresh, Jwt!Shutdown, Jwt!Rotate, Jwt!Outage,
       Jwt!Publish
  <2>4. signer' \in 1 .. MaxKey /\ signer <= signer'
    BY <2>1, <2>3 DEF Jwt!TypeOK
  <2> QED BY <2>2, <2>4
<1>3. /\ keySet' \in [Urls -> (SUBSET (1 .. MaxKey)) \cup {None}]
      /\ \A u \in Urls : keySet'[u] # None => keySet'[u] \subseteq 1 .. signer'
  <2>1. CASE \E u \in Urls : Jwt!Refresh(u)
    <3>1. PICK w \in Urls : keySet' = [keySet EXCEPT ![w] = {signer}] /\ signer' = signer
      BY <2>1 DEF Jwt!Refresh, Jwt!Jwks
    <3>2. signer \in 1 .. MaxKey /\ signer \in 1 .. signer
      BY DEF IInv, TypeOK, Jwt!TypeOK
    <3> QED BY <3>1, <3>2 DEF IInv, TypeOK, Jwt!TypeOK, CacheInv
  <2>2. CASE keySet' = keySet
    BY <1>2, <2>2, KeysGrow DEF IInv, TypeOK, Jwt!TypeOK, CacheInv
  <2> QED BY <2>1, <2>2 DEF Background, Jwt!Environment, Jwt!Shutdown, Jwt!Rotate,
             Jwt!Outage, Jwt!Publish
<1>4. TypeOK'
  BY <1>1, <1>2, <1>3 DEF IInv, TypeOK, Jwt!TypeOK, Jwt!Token
<1>5. CacheInv'
  BY <1>1, <1>3 DEF IInv, CacheInv, Usable
<1>6. \A c \in Clients : CallInv(c)'
  BY <1>1, <1>2, CallFrame
<1> QED BY <1>4, <1>5, <1>6 DEF IInv

(***************************************************************************)
(* Every step.                                                             *)
(***************************************************************************)
LEMMA ValidatingInv ==
    ASSUME IInv, NEW c \in Clients, Validating(c)
    PROVE  IInv'
BY ReadConfigInv, StoreConfigInv, EnsureRegisteredInv, RegisterInv, ReadyInv, VerifyInv,
   FetchConfigInv, GiveUpInv
   DEF Validating, Jwt!Step

LEMMA StutterInv ==
    ASSUME IInv, UNCHANGED vars
    PROVE  IInv'
<1>1. TypeOK'
  BY DEF IInv, TypeOK, Jwt!TypeOK, Jwt!Token, vars
<1>2. CacheInv'
  BY CacheFrame DEF vars
<1>3. \A c \in Clients : CallInv(c)'
  BY CallFrame DEF vars, IInv, TypeOK, Jwt!TypeOK
<1> QED BY <1>1, <1>2, <1>3 DEF IInv

LEMMA NextInv == IInv /\ [Next]_vars => IInv'
<1> SUFFICES ASSUME IInv, [Next]_vars PROVE IInv'
  OBVIOUS
<1>1. ASSUME NEW c \in Clients, \E p \in Paths, options \in BOOLEAN : Bypass(c, p, options)
      PROVE  IInv'
  BY <1>1, BypassInv
<1>2. ASSUME NEW c \in Clients, ClientStep(c) PROVE IInv'
  BY <1>2, NoBearerInv, BearerInv, GetResourceMetadataInv, AuthorizeInv DEF ClientStep
<1>3. ASSUME NEW c \in Clients, Validating(c) PROVE IInv'
  BY <1>3, ValidatingInv
<1>4. ASSUME NEW c \in Clients, Respond(c) \/ FetchUpstreamDiscovery(c) \/ Expire(c)
      PROVE  IInv'
  BY <1>4, RespondInv, FetchUpstreamDiscoveryInv, ExpireInv
<1>5. CASE Background
  BY <1>5, BackgroundInv
<1>6. CASE UNCHANGED vars
  BY <1>6, StutterInv
<1> QED BY <1>1, <1>2, <1>3, <1>4, <1>5, <1>6 DEF Next

LEMMA InvHolds == Spec => []IInv
BY InitInv, NextInv, PTL DEF Spec

(***************************************************************************)
(* The theorems.                                                           *)
(***************************************************************************)

\* Type correctness of the middleware, the Validator and its clients.
THEOREM TypeCorrect == Spec => []TypeOK
<1>1. IInv => TypeOK
  BY DEF IInv
<1> QED BY <1>1, InvHolds, PTL

\* "token expired" is answered only for a token that one of the issuer's own keys
\* signed, whatever was rotated, refreshed or lost meanwhile.
THEOREM ExpiredIsGenuine == Spec => []ExpiredMeansGenuine
<1>1. IInv => ExpiredMeansGenuine
  BY DEF IInv, CallInv, VerdictIsGrounded, ExpiredMeansGenuine
<1> QED BY <1>1, InvHolds, PTL

\* Only Respond puts a user into a context.
LEMMA UserFromRespond ==
    ASSUME IInv, [Next]_vars, NEW c \in Clients, user[c] = None, user'[c] # None
    PROVE  verdict[c] = "accepted"
<1>1. TypeOK
  BY DEF IInv
<1>2. ASSUME NEW d \in Clients, user' = [user EXCEPT ![d] = None] PROVE FALSE
  BY <1>1, <1>2 DEF TypeOK
<1>3. user' # user
  OBVIOUS
<1>4. PICK d \in Clients : Respond(d)
  BY <1>2, <1>3
     DEF Next, Bypass, ClientStep, NoBearer, Bearer, GetResourceMetadata, Authorize,
         Validating, FetchUpstreamDiscovery, Expire, Background, vars
<1>5. verdict[d] = "accepted" /\ user' = [user EXCEPT ![d] = UserSub(Claims[d])]
  BY <1>3, <1>4 DEF Respond
<1> QED BY <1>1, <1>5 DEF TypeOK

\* A request reaches the handler with a user in its context only if its token
\* passed every check against what the issuer itself has published.
THEOREM OnlyGenuineAccepted == Spec => AcceptedTokenIsGenuine
<1>1. IInv /\ [Next]_vars =>
        [\A c \in Clients : user[c] = None /\ user'[c] # None =>
            /\ token[c].alg \in AllowedAlgorithms
            /\ token[c].key \in 1 .. signer
            /\ token[c].fresh /\ token[c].readable
            /\ cfg[c] \in Docs /\ cfg[c].jwks # None
            /\ cfg[c].issuer \in {None, token[c].iss}]_vars
  <2> SUFFICES ASSUME IInv, [Next]_vars,
                      NEW c \in Clients, user[c] = None, user'[c] # None
               PROVE  /\ token[c].alg \in AllowedAlgorithms
                      /\ token[c].key \in 1 .. signer
                      /\ token[c].fresh /\ token[c].readable
                      /\ cfg[c] \in Docs /\ cfg[c].jwks # None
                      /\ cfg[c].issuer \in {None, token[c].iss}
    OBVIOUS
  <2>1. verdict[c] = "accepted"
    BY UserFromRespond
  <2> QED BY <2>1 DEF IInv, CallInv, VerdictIsGrounded, Usable
<1> QED BY <1>1, InvHolds, PTL DEF Spec, AcceptedTokenIsGenuine
=============================================================================
