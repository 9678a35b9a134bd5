--------------------------- MODULE OAuthProvider ---------------------------
(***************************************************************************)
(* oauthprovider.Provider: tool calls gated behind a third-party OAuth     *)
(* flow.  A tool call (RequireToken) and an HTTP redirect (HandleCallback) *)
(* run concurrently, possibly on different replicas, and meet only in the  *)
(* two stores: `tokens' is the shared TokenStore, and the pending half is  *)
(* the PendingStore contract, instantiated below.                          *)
(*                                                                         *)
(* Every access to a store, every answer of the client and every answer of *)
(* the token endpoint is a step of its own, because nothing in the code    *)
(* holds a lock across two of them.                                        *)
(***************************************************************************)
EXTENDS Integers, FiniteSets

CONSTANTS
    Calls,          \* executions of a wrapped tool handler
    FailFastCalls,  \* the ones wrapped by RequireToken(true)
    Callbacks,      \* requests served by HandleCallback
    Subs,           \* OIDC subjects
    States,         \* values generateID(24) can return
    Responses,      \* decoded answers of the token endpoint
    None,           \* Go's nil / a missing map entry
    Second,         \* ticks of the clock in a second
    TokenTimeout,   \* Options.TokenTimeout, in ticks like all times
    PendingSlack,   \* the 60 s added to the TTL of a pending entry
    ResultTTL,      \* the 120 s given to SetResult
    ExpiryBuffer,   \* expiryBufferSeconds
    HasRefreshFn,   \* refreshTokenFn # nil
    Faults,         \* whether a store operation may return an error
    MaxTime         \* bound on the clock

ASSUME CallsAssumption ==
    /\ FailFastCalls \subseteq Calls
    /\ None \notin Subs \cup States \cup {"ok", "error"}

ASSUME ResponsesAssumption ==
    Responses \subseteq [access: BOOLEAN, refresh: BOOLEAN, life: Nat \cup {None}]

ASSUME TimesAssumption ==
    /\ {TokenTimeout, PendingSlack, ResultTTL, ExpiryBuffer, MaxTime} \subseteq Nat
    /\ Second \in Nat \ {0}
    /\ None \notin Nat

ASSUME OptionsAssumption == {HasRefreshFn, Faults} \subseteq BOOLEAN

VARIABLES
    \* the stores
    now, pending, done, waiting, signal,
    tokens,         \* TokenStore: sub -> token entry
    \* a tool call
    pc,             \* what the call does next
    user,           \* middleware.UserFromContext(ctx).Sub
    state,          \* the OAuth state of its own flow, None before it has one
    held,           \* the token entry in its hands
    sessions,       \* Provider.sessions, as the set of its keys
    \* a callback request
    hpc, hstate, hsub, hheld,
    \* history, read by no step
    issued,         \* state -> the subject and time it was issued for
    erased,         \* subjects whose last token store write was a Delete
    withdrawn       \* states whose entry a declined prompt took out of the store

storeVars == <<now, pending, done, waiting, signal>>
callVars  == <<pc, user, state, held, sessions>>
hookVars  == <<hpc, hstate, hsub, hheld>>
history   == <<issued, erased, withdrawn>>
vars == <<storeVars, tokens, callVars, hookVars, history>>

Outcomes == {"ok", "error"}

\* int(d.Seconds()): a TTL loses the fraction of a second, a wait keeps it.
WholeSeconds(d) == (d \div Second) * Second

LinkTTL == WholeSeconds(TokenTimeout) + PendingSlack

Pending == INSTANCE PendingStore WITH
    Keys <- States, Metas <- Subs, Results <- Outcomes, Waiters <- Calls,
    TTLs <- {LinkTTL, ResultTTL},
    Timeouts <- {TokenTimeout}

(***************************************************************************)
(* Tokens.  An entry keeps what normalizeTokenData keeps; `flow' is the    *)
(* authorization it descends from (history).                               *)
(***************************************************************************)
TokenEntry == [flow: States, access: BOOLEAN, refresh: BOOLEAN,
               exp: Nat \cup {None}]

\* normalizeTokenData: an absent or non-numeric expires_in leaves no expires_at.
Normalize(flow, r) ==
    [flow |-> flow, access |-> r.access, refresh |-> r.refresh,
     exp |-> IF r.life = None THEN None ELSE now + r.life]

Fresh(e) == e.exp # None => now + ExpiryBuffer < e.exp

\* nil is none of the values the maps can hold.
ASSUME NoneAssumption ==
    None \notin TokenEntry \cup [sub: Subs, at: Nat]
        \cup Pending!PendingEntry \cup Pending!DoneEntry \cup Pending!Wait

\* doTokenRequest: transport, status and decoding errors are one outcome.
TokenAnswers == Responses \cup {None}

(***************************************************************************)
(* Program counters.                                                       *)
(***************************************************************************)
Ended == {"nouser", "error", "urlrequired", "declined", "notcompleted", "served",
          "crashed"}
Running == {"get", "refresh", "drop", "save", "failfast", "create", "elicit",
            "declining", "wait"}

HookEnded == {"failed", "malformed", "unknown", "storefailed", "success", "crashed"}
HookRunning == {"exchange", "signalfail", "store", "signal"}

TypeOK ==
    /\ Pending!TypeOK
    /\ tokens \in [Subs -> TokenEntry \cup {None}]
    /\ pc \in [Calls -> {"idle"} \cup Running \cup Ended]
    /\ user \in [Calls -> Subs \cup {None}]
    /\ state \in [Calls -> States \cup {None}]
    /\ held \in [Calls -> TokenEntry \cup {None}]
    /\ sessions \subseteq States
    /\ hpc \in [Callbacks -> {"idle"} \cup HookRunning \cup HookEnded]
    /\ hstate \in [Callbacks -> States \cup {None}]
    /\ hsub \in [Callbacks -> Subs \cup {None}]
    /\ hheld \in [Callbacks -> TokenEntry \cup {None}]
    /\ issued \in [States -> [sub: Subs, at: Nat] \cup {None}]
    /\ erased \subseteq Subs
    /\ withdrawn \subseteq States

Init ==
    /\ Pending!Init
    /\ tokens = [s \in Subs |-> None]
    /\ pc = [c \in Calls |-> "idle"]
    /\ user = [c \in Calls |-> None]
    /\ state = [c \in Calls |-> None]
    /\ held = [c \in Calls |-> None]
    /\ sessions = {}
    /\ hpc = [h \in Callbacks |-> "idle"]
    /\ hstate = [h \in Callbacks |-> None]
    /\ hsub = [h \in Callbacks |-> None]
    /\ hheld = [h \in Callbacks |-> None]
    /\ issued = [k \in States |-> None]
    /\ erased = {}
    /\ withdrawn = {}

(***************************************************************************)
(* TokenStore.Set and Delete, seen from the shared map.                    *)
(***************************************************************************)
PutToken(s, e) ==
    /\ tokens' = [tokens EXCEPT ![s] = e]
    /\ erased' = erased \ {s}

DeleteToken(s) ==
    /\ tokens' = [tokens EXCEPT ![s] = None]
    /\ erased' = erased \cup {s}

(***************************************************************************)
(* The tool call.                                                          *)
(***************************************************************************)

\* Mutant: the timeout path returns without the deferred delete.
GotoLeaksSession(c, p) ==
    /\ pc' = [pc EXCEPT ![c] = p]
    /\ sessions' = IF p \in Ended \ {"notcompleted"} THEN sessions \ {state[c]}
                   ELSE sessions

\* The deferred delete(p.sessions, state) runs on every return.
Goto(c, p) ==
    /\ pc' = [pc EXCEPT ![c] = p]
    /\ sessions' = IF p \in Ended THEN sessions \ {state[c]} ELSE sessions

\* What an empty access token leads to: before the flow, a prompt; after it,
\* the "authorization was not completed" answer.
OnMiss(c) ==
    IF state[c] # None THEN "notcompleted"
    ELSE IF c \in FailFastCalls THEN "failfast" ELSE "create"

Begin(c) ==
    /\ pc[c] = "idle"
    /\ \/ Goto(c, "nouser") /\ UNCHANGED user
       \/ \E s \in Subs : user' = [user EXCEPT ![c] = s] /\ Goto(c, "get")
    /\ UNCHANGED <<storeVars, tokens, state, held, hookVars, history>>

\* getOrRefreshToken up to the refresh request, in both of its uses.
ReadToken(c) ==
    /\ pc[c] = "get"
    /\ LET e == tokens[user[c]] IN
        \/ Faults /\ Goto(c, "error") /\ UNCHANGED held
        \/ e = None /\ Goto(c, OnMiss(c)) /\ UNCHANGED held
        \/ /\ e # None /\ Fresh(e)
           /\ held' = [held EXCEPT ![c] = e]
           /\ Goto(c, IF e.access THEN "served" ELSE OnMiss(c))
        \/ /\ e # None /\ ~Fresh(e)
           /\ held' = [held EXCEPT ![c] = e]
           /\ Goto(c, IF e.refresh /\ HasRefreshFn THEN "refresh" ELSE OnMiss(c))
    /\ UNCHANGED <<storeVars, tokens, user, state, hookVars, history>>

\* Mutant: the answer replaces the entry as it is.
RefreshNoCarry(c) ==
    /\ pc[c] = "refresh"
    /\ \/ Goto(c, "drop") /\ UNCHANGED held
       \/ \E r \in Responses :
            held' = [held EXCEPT ![c] = Normalize(held[c].flow, r)] /\ Goto(c, "save")
    /\ UNCHANGED <<storeVars, tokens, user, state, hookVars, history>>

\* The refresh token is carried forward when the answer has none.
Refresh(c) ==
    /\ pc[c] = "refresh"
    /\ \E r \in TokenAnswers :
        \/ r = None /\ Goto(c, "drop") /\ UNCHANGED held
        \/ /\ r # None
           /\ held' = [held EXCEPT ![c] =
                           Normalize(held[c].flow, [r EXCEPT !.refresh = TRUE])]
           /\ Goto(c, "save")
    /\ UNCHANGED <<storeVars, tokens, user, state, hookVars, history>>

\* A failed refresh deletes whatever the store now holds for the subject.
Drop(c) ==
    /\ pc[c] = "drop"
    /\ Goto(c, OnMiss(c))
    /\ \/ DeleteToken(user[c])
       \/ Faults /\ UNCHANGED <<tokens, erased>>
    /\ UNCHANGED <<storeVars, user, state, held, hookVars, issued, withdrawn>>

Save(c) ==
    /\ pc[c] = "save"
    /\ \/ /\ PutToken(user[c], held[c])
          /\ Goto(c, IF held[c].access THEN "served" ELSE OnMiss(c))
       \/ Faults /\ Goto(c, "error") /\ UNCHANGED <<tokens, erased>>
    /\ UNCHANGED <<storeVars, user, state, held, hookVars, issued, withdrawn>>

\* generateID: a state is issued once.
Issue(c, k) ==
    /\ issued[k] = None
    /\ issued' = [issued EXCEPT ![k] = [sub |-> user[c], at |-> now]]
    /\ state' = [state EXCEPT ![c] = k]

\* Mutant: the TTL of the entry is the timeout of the wait.
CreateEntryNoSlack(c, k) == Pending!Create(k, user[c], WholeSeconds(TokenTimeout))

CreateEntry(c, k) == Pending!Create(k, user[c], LinkTTL)

\* buildFailFastError: the error of Create is dropped.
FailFastError(c, k) ==
    /\ pc[c] = "failfast"
    /\ Issue(c, k)
    /\ CreateEntry(c, k) \/ (Faults /\ UNCHANGED storeVars)
    /\ Goto(c, "urlrequired")
    /\ UNCHANGED <<tokens, user, held, hookVars, erased, withdrawn>>

\* Mutant: the session is registered before the state is generated.
CreatePendingEarlySession(c, k) ==
    /\ pc[c] = "create"
    /\ Issue(c, k)
    /\ CreateEntry(c, k)
    /\ pc' = [pc EXCEPT ![c] = "elicit"]
    /\ sessions' = sessions \cup {state[c]}
    /\ UNCHANGED <<tokens, user, held, hookVars, erased, withdrawn>>

\* ensureTokenBlocking up to the elicitation request.
CreatePending(c, k) ==
    /\ pc[c] = "create"
    /\ Issue(c, k)
    /\ CreateEntry(c, k)
    /\ pc' = [pc EXCEPT ![c] = "elicit"]
    /\ sessions' = sessions \cup {k}
    /\ UNCHANGED <<tokens, user, held, hookVars, erased, withdrawn>>

\* Create returned an error: no prompt.
CreateFailed(c) ==
    /\ pc[c] = "create" /\ Faults
    /\ Goto(c, "error")
    /\ UNCHANGED <<storeVars, tokens, user, state, held, hookVars, history>>

\* The client answered "accept"; WaitForResult starts only now.
ElicitAccept(c) ==
    /\ pc[c] = "elicit" /\ now + TokenTimeout <= MaxTime
    /\ Pending!StartWait(c, state[c], TokenTimeout)
    /\ Goto(c, "wait")
    /\ UNCHANGED <<tokens, user, state, held, hookVars, history>>

\* "decline" or "cancel".
ElicitDecline(c) ==
    /\ pc[c] = "elicit"
    /\ Goto(c, "declining")
    /\ UNCHANGED <<storeVars, tokens, user, state, held, hookVars, history>>

Withdraw(k) ==
    withdrawn' = IF pending[k] # None THEN withdrawn \cup {k} ELSE withdrawn

\* Mutant: the entry of a declined prompt is read but not removed.
DeclineGet(c) ==
    /\ pc[c] = "declining"
    /\ Withdraw(state[c]) /\ UNCHANGED storeVars
    /\ Goto(c, "declined")
    /\ UNCHANGED <<tokens, user, state, held, hookVars, issued, erased>>

\* What Pop returns is ignored, an error too: the prompt counts as declined also
\* when the entry is still there, or when a redirect took it before.
DeclinePop(c) ==
    /\ pc[c] = "declining"
    /\ \/ Pending!Pop(state[c]) /\ Withdraw(state[c])
       \/ Faults /\ UNCHANGED <<storeVars, withdrawn>>
    /\ Goto(c, "declined")
    /\ UNCHANGED <<tokens, user, state, held, hookVars, issued, erased>>

\* Elicit failed; the pending entry stays until its TTL.
ElicitError(c) ==
    /\ pc[c] = "elicit"
    /\ Goto(c, "error")
    /\ UNCHANGED <<storeVars, tokens, user, state, held, hookVars, history>>

\* Whatever the result says, the call goes back to getOrRefreshToken.
Signalled(c) ==
    /\ pc[c] = "wait"
    /\ Pending!Deliver(c)
    /\ Goto(c, "get")
    /\ UNCHANGED <<tokens, user, state, held, hookVars, history>>

\* Mutant: a timed out call prompts again.
WaitTimeoutReprompts(c) ==
    /\ pc[c] = "wait"
    /\ Pending!TimeOut(c)
    /\ Goto(c, "elicit")
    /\ UNCHANGED <<tokens, user, state, held, hookVars, history>>

WaitTimeout(c) ==
    /\ pc[c] = "wait"
    /\ Pending!TimeOut(c)
    /\ Goto(c, "notcompleted")
    /\ UNCHANGED <<tokens, user, state, held, hookVars, history>>

\* ctx.Done() or a failing backend.
WaitAbort(c) ==
    /\ pc[c] = "wait"
    /\ Pending!Abort(c)
    /\ Goto(c, "error")
    /\ UNCHANGED <<tokens, user, state, held, hookVars, history>>

\* The replica running the call stops; the shared stores survive, except that the
\* result it waited for may just have been consumed.
CrashCall(c) ==
    /\ pc[c] \in Running
    /\ IF pc[c] = "wait" THEN Pending!Abort(c) ELSE UNCHANGED storeVars
    /\ Goto(c, "crashed")
    /\ UNCHANGED <<tokens, user, state, held, hookVars, history>>

(***************************************************************************)
(* The redirect.  A browser can be sent to the callback with any state     *)
(* that was issued, as often as it likes, at any time.                     *)
(***************************************************************************)
HookGoto(h, p) == hpc' = [hpc EXCEPT ![h] = p]

\* ?error=...: the waiting call is told, the pending entry is left in place.
CallbackError(h, k) ==
    /\ hpc[h] = "idle" /\ issued[k] # None
    /\ Pending!SetResult(k, "error", ResultTTL) \/ (Faults /\ UNCHANGED storeVars)
    /\ hstate' = [hstate EXCEPT ![h] = k]
    /\ HookGoto(h, "failed")
    /\ UNCHANGED <<tokens, callVars, hsub, hheld, history>>

\* Not both of code and state, or an error without a state: nothing changes.
CallbackMalformed(h) ==
    /\ hpc[h] = "idle"
    /\ HookGoto(h, "malformed")
    /\ UNCHANGED <<storeVars, tokens, callVars, hstate, hsub, hheld, history>>

\* Mutants: the entry is read but not removed; the subject is taken from the
\* request instead of the entry.
CallbackGet(h, k) ==
    /\ hpc[h] = "idle" /\ issued[k] # None
    /\ hstate' = [hstate EXCEPT ![h] = k]
    /\ hsub' = [hsub EXCEPT ![h] = Pending!Lookup(k)]
    /\ HookGoto(h, IF Pending!Live(k) THEN "exchange" ELSE "unknown")
    /\ UNCHANGED <<storeVars, tokens, callVars, hheld, history>>

CallbackPopAnySub(h, k) ==
    /\ hpc[h] = "idle" /\ issued[k] # None
    /\ hstate' = [hstate EXCEPT ![h] = k]
    /\ Pending!Pop(k)
    /\ \E s \in Subs : hsub' = [hsub EXCEPT ![h] = s]
    /\ HookGoto(h, IF Pending!Live(k) THEN "exchange" ELSE "unknown")
    /\ UNCHANGED <<tokens, callVars, hheld, history>>

CallbackPop(h, k) ==
    /\ hpc[h] = "idle" /\ issued[k] # None
    /\ hstate' = [hstate EXCEPT ![h] = k]
    /\ \/ /\ Pending!Pop(k)
          /\ hsub' = [hsub EXCEPT ![h] = Pending!Lookup(k)]
          /\ HookGoto(h, IF Pending!Live(k) THEN "exchange" ELSE "unknown")
       \/ Faults /\ HookGoto(h, "unknown") /\ UNCHANGED <<storeVars, hsub>>
    /\ UNCHANGED <<tokens, callVars, hheld, history>>

\* Mutant: the waiting call is signalled before the token is stored.
ExchangeSignalsFirst(h) ==
    /\ hpc[h] = "exchange"
    /\ \E r \in Responses : hheld' = [hheld EXCEPT ![h] = Normalize(hstate[h], r)]
    /\ HookGoto(h, "signal")
    /\ UNCHANGED <<storeVars, tokens, callVars, hstate, hsub, history>>

\* exchangeCode answers, or fails.
Exchange(h) ==
    /\ hpc[h] = "exchange"
    /\ \E r \in TokenAnswers :
        \/ r = None /\ HookGoto(h, "signalfail") /\ UNCHANGED hheld
        \/ /\ r # None
           /\ hheld' = [hheld EXCEPT ![h] = Normalize(hstate[h], r)]
           /\ HookGoto(h, "store")
    /\ UNCHANGED <<storeVars, tokens, callVars, hstate, hsub, history>>

SignalFailure(h) ==
    /\ hpc[h] = "signalfail"
    /\ \/ Pending!SetResult(hstate[h], "error", ResultTTL)
       \/ Faults /\ UNCHANGED storeVars
    /\ HookGoto(h, "failed")
    /\ UNCHANGED <<tokens, callVars, hstate, hsub, hheld, history>>

\* Mutant: the error of Set is dropped.
StoreTokenIgnoresError(h) ==
    /\ hpc[h] = "store"
    /\ PutToken(hsub[h], hheld[h]) \/ (Faults /\ UNCHANGED <<tokens, erased>>)
    /\ HookGoto(h, "signal")
    /\ UNCHANGED <<storeVars, callVars, hstate, hsub, hheld, issued, withdrawn>>

\* On an error of Set nobody is signalled: the call waits for its timeout.
StoreToken(h) ==
    /\ hpc[h] = "store"
    /\ \/ PutToken(hsub[h], hheld[h]) /\ HookGoto(h, "signal")
       \/ Faults /\ HookGoto(h, "storefailed") /\ UNCHANGED <<tokens, erased>>
    /\ UNCHANGED <<storeVars, callVars, hstate, hsub, hheld, issued, withdrawn>>

SignalSuccess(h) ==
    /\ hpc[h] = "signal"
    /\ \/ Pending!SetResult(hstate[h], "ok", ResultTTL)
       \/ Faults /\ UNCHANGED storeVars
    /\ HookGoto(h, "success")
    /\ UNCHANGED <<tokens, callVars, hstate, hsub, hheld, history>>

CrashCallback(h) ==
    /\ hpc[h] \in HookRunning
    /\ HookGoto(h, "crashed")
    /\ UNCHANGED <<storeVars, tokens, callVars, hstate, hsub, hheld, history>>

(***************************************************************************)
(* The rest of the system.                                                 *)
(***************************************************************************)

\* A tool handler whose downstream API answered 401.
InvalidateToken(s) ==
    /\ DeleteToken(s)
    /\ UNCHANGED <<storeVars, callVars, hookVars, issued, withdrawn>>

LapseResult(k) ==
    /\ Pending!Lapse(k)
    /\ UNCHANGED <<tokens, callVars, hookVars, history>>

Tick ==
    /\ now < MaxTime
    /\ Pending!Tick
    /\ UNCHANGED <<tokens, callVars, hookVars, history>>

CallNext(c) ==
    \/ Begin(c) \/ ReadToken(c) \/ Refresh(c) \/ Drop(c) \/ Save(c)
    \/ \E k \in States : FailFastError(c, k) \/ CreatePending(c, k)
    \/ CreateFailed(c) \/ ElicitAccept(c) \/ ElicitDecline(c) \/ DeclinePop(c)
    \/ ElicitError(c)
    \/ Signalled(c) \/ WaitTimeout(c) \/ WaitAbort(c) \/ CrashCall(c)

CallbackNext(h) ==
    \/ \E k \in States : CallbackError(h, k) \/ CallbackPop(h, k)
    \/ CallbackMalformed(h) \/ Exchange(h) \/ SignalFailure(h)
    \/ StoreToken(h) \/ SignalSuccess(h) \/ CrashCallback(h)

Next ==
    \/ \E c \in Calls : CallNext(c)
    \/ \E h \in Callbacks : CallbackNext(h)
    \/ \E s \in Subs : InvalidateToken(s)
    \/ \E k \in States : LapseResult(k)
    \/ Tick

\* Runnable goroutines run and time passes.  Nothing is assumed of the client
\* (Elicit), the browser or the token endpoint: no timeout bounds them.
Fairness ==
    /\ WF_vars(Tick)
    /\ \A c \in Calls :
        /\ WF_vars(ReadToken(c))
        /\ WF_vars(Drop(c))
        /\ WF_vars(Save(c))
        /\ WF_vars(DeclinePop(c))
        /\ WF_vars(Signalled(c) \/ WaitTimeout(c))

Spec == Init /\ [][Next]_vars /\ Fairness

(***************************************************************************)
(* Properties.                                                             *)
(***************************************************************************)

\* A subject only ever gets, in the store or in the hands of a tool call, a
\* token that descends from an authorization flow issued to that subject: the
\* callback takes the subject from the pending entry, and a refresh keeps it.
TokenOwnership ==
    LET OwnedBy(e, s) == e = None \/ (issued[e.flow] # None /\ issued[e.flow].sub = s)
    IN  /\ \A s \in Subs : OwnedBy(tokens[s], s)
        /\ \A c \in Calls : OwnedBy(held[c], user[c])

\* The code of a flow is exchanged by one callback only, however many redirects
\* carry its state (HandleCallback pops the entry before exchangeCode).
StateUsedOnce ==
    \A g, h \in Callbacks :
        g # h /\ hsub[g] # None /\ hsub[h] # None => hstate[g] # hstate[h]

\* A call is told "ok" only once the subject's token is in the store, so that
\* the read after WaitForResult misses only if the token was deleted since.
SignalAfterStore ==
    /\ \A k \in States :
        done[k] # None /\ done[k].res = "ok" =>
            tokens[issued[k].sub] # None \/ issued[k].sub \in erased
    /\ \A c \in Calls :
        pc[c] = "get" /\ signal[c] = "ok" =>
            tokens[user[c]] # None \/ user[c] \in erased

\* Some redirect got the entry of the state, and with it the right to exchange.
Redeemed(k) == \E h \in Callbacks : hsub[h] # None /\ hstate[h] = k

\* A flow whose entry the decline took out of the store is dead: no redirect, before
\* or after, gets to exchange its code, and no token that descends from it is ever
\* stored or used.  A redirect that came first, and a Pop that fails, leave a
\* declined prompt whose flow can still complete.
DeclinedFlowIsDead ==
    \A k \in withdrawn :
        /\ ~Redeemed(k)
        /\ \A s \in Subs : tokens[s] # None => tokens[s].flow # k
        /\ \A c \in Calls : held[c] # None => held[c].flow # k

\* The provider keeps a session exactly for the flows still in progress: the
\* deferred delete leaks none and takes none away from another call.
SessionsMatchFlows ==
    sessions = {state[c] : c \in {d \in Calls : pc[d] \in Running}} \ {None}

\* A link that dies under a waiting call without having been used was accepted
\* late: the client took longer to answer the prompt than the slack, less the
\* fraction of a second that the TTL of the entry loses.
LinkOutlivesWait ==
    \A c \in Calls :
        LET k == state[c]
            accepted == waiting[c].deadline - TokenTimeout
            fraction == TokenTimeout - WholeSeconds(TokenTimeout)
        IN  pc[c] = "wait" /\ now <= waiting[c].deadline
                /\ ~Pending!Live(k) /\ ~Redeemed(k)
            => accepted > issued[k].at + PendingSlack - fraction

\* A call that waits gets out: it ends, or it waits for the token endpoint.
WaitEnds ==
    \A c \in Calls : pc[c] = "wait" ~> pc[c] \in Ended \cup {"refresh"}

\* A refresh never takes the refresh token away: what Save writes over an entry
\* that had one has one, also when the token endpoint sent none.
RefreshKeepsRefreshToken ==
    [][\A c \in Calls :
        LET before == tokens[user[c]]
            after == tokens'[user[c]]
        IN  Save(c) /\ before # None /\ before.refresh => after.refresh]_vars

\* oauthprovider.go calls the entry a failed refresh deletes "stale".
DropsOnlyStaleEntry ==
    [][\A c \in Calls :
        Drop(c) => tokens[user[c]] = None \/ ~Fresh(tokens[user[c]])]_vars
=============================================================================
