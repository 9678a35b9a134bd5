------------------------- MODULE CredentialsProvider -------------------------
(***************************************************************************)
(* credentialsprovider.Provider: tool calls gated behind a form this       *)
(* server hosts itself.  A tool call (RequireCredentials) prompts for a    *)
(* link, the browser opens it (HandleEntry) and posts the form             *)
(* (HandleSubmit), possibly on another replica.  As in OAuthProvider every *)
(* access to a store is a step of its own.                                 *)
(***************************************************************************)
EXTENDS Integers, FiniteSets

CONSTANTS
    Calls,          \* executions of a wrapped tool handler
    FailFastCalls,  \* the ones wrapped by RequireCredentials(true)
    Requests,       \* HTTP requests to the entry and submit pages
    Subs,           \* OIDC subjects
    Links,          \* entry tokens generateID(32) can return
    None,
    Second,         \* ticks of the clock in a second
    TokenTimeout,   \* Options.TokenTimeout, in ticks like all times
    ResultTTL,      \* the 120 s given to SetResult
    Faults,         \* whether a store operation may return an error
    MaxTime         \* bound on the clock

ASSUME CredentialsAssumption ==
    /\ FailFastCalls \subseteq Calls
    /\ None \notin Subs \cup Links \cup Nat
    /\ {TokenTimeout, ResultTTL, MaxTime} \subseteq Nat
    /\ Second \in Nat \ {0}
    /\ Faults \in BOOLEAN

VARIABLES
    now, pending, done, waiting, signal,   \* the pending store
    creds,      \* credentials store: sub -> the link they were entered through
    pc, user, link, got, sessions,         \* a tool call
    rpc, rlink, rsub,                      \* a browser request
    \* history, read by no step
    issued,     \* link -> the subject it was issued for
    stored,     \* links whose form was written to the credentials store
    erased,     \* subjects whose credentials were deleted last
    withdrawn   \* links a declined prompt took out of the store

storeVars == <<now, pending, done, waiting, signal>>
callVars  == <<pc, user, link, got, sessions>>
hookVars  == <<rpc, rlink, rsub>>
history   == <<issued, stored, erased, withdrawn>>
vars == <<storeVars, creds, callVars, hookVars, history>>

\* int(TokenTimeout.Seconds()): a link loses the fraction of a second, the wait for
\* its form keeps it.
LinkTTL == (TokenTimeout \div Second) * Second

Pending == INSTANCE PendingStore WITH
    Keys <- Links, Metas <- Subs, Results <- {"ok"}, Waiters <- Calls,
    TTLs <- {LinkTTL, ResultTTL}, Timeouts <- {TokenTimeout}

\* nil is none of the values the maps can hold.
ASSUME NoneAssumption ==
    None \notin Pending!PendingEntry \cup Pending!DoneEntry \cup Pending!Wait \cup {"ok"}

Ended == {"nouser", "error", "urlrequired", "declined", "notprovided", "served",
          "crashed"}
Running == {"get", "failfast", "create", "elicit", "declining", "wait"}
PageShown == {"formpage", "expired", "missing", "unknown", "rejected",
              "storefailed", "success", "crashed"}
Serving == {"form", "store", "signal"}

TypeOK ==
    /\ Pending!TypeOK
    /\ creds \in [Subs -> Links \cup {None}]
    /\ pc \in [Calls -> {"idle"} \cup Running \cup Ended]
    /\ user \in [Calls -> Subs \cup {None}]
    /\ link \in [Calls -> Links \cup {None}]
    /\ got \in [Calls -> Links \cup {None}]
    /\ sessions \subseteq Links
    /\ rpc \in [Requests -> {"idle"} \cup Serving \cup PageShown]
    /\ rlink \in [Requests -> Links \cup {None}]
    /\ rsub \in [Requests -> Subs \cup {None}]
    /\ issued \in [Links -> Subs \cup {None}]
    /\ stored \subseteq Links
    /\ erased \subseteq Subs
    /\ withdrawn \subseteq Links

Init ==
    /\ Pending!Init
    /\ creds = [s \in Subs |-> None]
    /\ pc = [c \in Calls |-> "idle"]
    /\ user = [c \in Calls |-> None]
    /\ link = [c \in Calls |-> None]
    /\ got = [c \in Calls |-> None]
    /\ sessions = {}
    /\ rpc = [h \in Requests |-> "idle"]
    /\ rlink = [h \in Requests |-> None]
    /\ rsub = [h \in Requests |-> None]
    /\ issued = [k \in Links |-> None]
    /\ stored = {}
    /\ erased = {}
    /\ withdrawn = {}

(***************************************************************************)
(* The tool call.                                                          *)
(***************************************************************************)

\* The deferred delete(p.sessions, entryToken) runs on every return.
Goto(c, p) ==
    /\ pc' = [pc EXCEPT ![c] = p]
    /\ sessions' = IF p \in Ended THEN sessions \ {link[c]} ELSE sessions

Begin(c) ==
    /\ pc[c] = "idle"
    /\ \/ Goto(c, "nouser") /\ UNCHANGED user
       \/ \E s \in Subs : user' = [user EXCEPT ![c] = s] /\ Goto(c, "get")
    /\ UNCHANGED <<storeVars, creds, link, got, hookVars, history>>

OnMiss(c) ==
    IF link[c] # None THEN "notprovided"
    ELSE IF c \in FailFastCalls THEN "failfast" ELSE "create"

\* credsStore.Get, before the prompt and after the wait.
ReadCredentials(c) ==
    /\ pc[c] = "get"
    /\ \/ Faults /\ Goto(c, "error") /\ UNCHANGED got
       \/ /\ got' = [got EXCEPT ![c] = creds[user[c]]]
          /\ Goto(c, IF creds[user[c]] = None THEN OnMiss(c) ELSE "served")
    /\ UNCHANGED <<storeVars, creds, user, link, hookVars, history>>

\* generateID: a link is issued once.
Issue(c, k) ==
    /\ issued[k] = None
    /\ issued' = [issued EXCEPT ![k] = user[c]]
    /\ link' = [link EXCEPT ![c] = k]
    /\ UNCHANGED <<stored, erased, withdrawn>>

\* buildFailFastError: the error of Create is dropped.
FailFastError(c, k) ==
    /\ pc[c] = "failfast"
    /\ Issue(c, k)
    /\ Pending!Create(k, user[c], LinkTTL) \/ (Faults /\ UNCHANGED storeVars)
    /\ Goto(c, "urlrequired")
    /\ UNCHANGED <<creds, user, got, hookVars>>

\* Mutant: the session is registered before the token is generated.
CreatePendingEarlySession(c, k) ==
    /\ pc[c] = "create"
    /\ Issue(c, k)
    /\ Pending!Create(k, user[c], LinkTTL)
    /\ pc' = [pc EXCEPT ![c] = "elicit"]
    /\ sessions' = sessions \cup {link[c]}
    /\ UNCHANGED <<creds, user, got, hookVars>>

\* Mutant: the link is given some slack, as the OAuth provider gives its own.
CreatePendingWithSlack(c, k) ==
    /\ pc[c] = "create"
    /\ Issue(c, k)
    /\ Pending!Create(k, user[c], LinkTTL + 1)
    /\ pc' = [pc EXCEPT ![c] = "elicit"]
    /\ sessions' = sessions \cup {k}
    /\ UNCHANGED <<creds, user, got, hookVars>>

\* ensureCredentialsBlocking up to the elicitation request.
CreatePending(c, k) ==
    /\ pc[c] = "create"
    /\ Issue(c, k)
    /\ Pending!Create(k, user[c], LinkTTL)
    /\ pc' = [pc EXCEPT ![c] = "elicit"]
    /\ sessions' = sessions \cup {k}
    /\ UNCHANGED <<creds, user, got, hookVars>>

\* Create returned an error: no prompt.
CreateFailed(c) ==
    /\ pc[c] = "create" /\ Faults
    /\ Goto(c, "error")
    /\ UNCHANGED <<storeVars, creds, user, link, got, hookVars, history>>

ElicitAccept(c) ==
    /\ pc[c] = "elicit" /\ now + TokenTimeout <= MaxTime
    /\ Pending!StartWait(c, link[c], TokenTimeout)
    /\ Goto(c, "wait")
    /\ UNCHANGED <<creds, user, link, got, hookVars, history>>

ElicitDecline(c) ==
    /\ pc[c] = "elicit"
    /\ Goto(c, "declining")
    /\ UNCHANGED <<storeVars, creds, user, link, got, hookVars, history>>

Withdraw(k) ==
    /\ withdrawn' = IF pending[k] # None THEN withdrawn \cup {k} ELSE withdrawn
    /\ UNCHANGED <<issued, stored, erased>>

\* Mutant: the link of a declined prompt is read but not removed.
DeclineGet(c) ==
    /\ pc[c] = "declining"
    /\ Withdraw(link[c]) /\ UNCHANGED storeVars
    /\ Goto(c, "declined")
    /\ UNCHANGED <<creds, user, link, got, hookVars>>

\* What Pop returns is ignored, an error too: the prompt counts as declined also
\* when the link is still there, or when a submit took it before.
DeclinePop(c) ==
    /\ pc[c] = "declining"
    /\ \/ Pending!Pop(link[c]) /\ Withdraw(link[c])
       \/ Faults /\ UNCHANGED <<storeVars, history>>
    /\ Goto(c, "declined")
    /\ UNCHANGED <<creds, user, link, got, hookVars>>

ElicitError(c) ==
    /\ pc[c] = "elicit"
    /\ Goto(c, "error")
    /\ UNCHANGED <<storeVars, creds, user, link, got, hookVars, history>>

Signalled(c) ==
    /\ pc[c] = "wait"
    /\ Pending!Deliver(c)
    /\ Goto(c, "get")
    /\ UNCHANGED <<creds, user, link, got, hookVars, history>>

\* Mutant: a timed out call prompts again.
WaitTimeoutReprompts(c) ==
    /\ pc[c] = "wait"
    /\ Pending!TimeOut(c)
    /\ Goto(c, "elicit")
    /\ UNCHANGED <<creds, user, link, got, hookVars, history>>

WaitTimeout(c) ==
    /\ pc[c] = "wait"
    /\ Pending!TimeOut(c)
    /\ Goto(c, "notprovided")
    /\ UNCHANGED <<creds, user, link, got, hookVars, history>>

WaitAbort(c) ==
    /\ pc[c] = "wait"
    /\ Pending!Abort(c)
    /\ Goto(c, "error")
    /\ UNCHANGED <<creds, user, link, got, hookVars, history>>

\* The replica running the call stops; the shared stores survive.
CrashCall(c) ==
    /\ pc[c] \in Running
    /\ IF pc[c] = "wait" THEN Pending!Abort(c) ELSE UNCHANGED storeVars
    /\ Goto(c, "crashed")
    /\ UNCHANGED <<creds, user, link, got, hookVars, history>>

(***************************************************************************)
(* The browser.  Any request may carry any link that was issued.           *)
(***************************************************************************)
Show(h, p) == rpc' = [rpc EXCEPT ![h] = p]

\* HandleEntry: the link survives; an expired one is dropped on the way.
HandleEntry(h, k) ==
    /\ rpc[h] = "idle" /\ issued[k] # None
    /\ rlink' = [rlink EXCEPT ![h] = k]
    /\ \/ Pending!Live(k) /\ Show(h, "formpage") /\ UNCHANGED storeVars
       \/ Pending!Get(k) /\ Show(h, "expired")
       \/ Faults /\ Show(h, "expired") /\ UNCHANGED storeVars
    /\ UNCHANGED <<creds, callVars, rsub, history>>

\* Either page without a token.
MissingToken(h) ==
    /\ rpc[h] = "idle"
    /\ Show(h, "missing")
    /\ UNCHANGED <<storeVars, creds, callVars, rlink, rsub, history>>

\* Mutants: the link is looked up but stays valid; the subject is taken from
\* the form.
SubmitGet(h, k) ==
    /\ rpc[h] = "idle" /\ issued[k] # None
    /\ rlink' = [rlink EXCEPT ![h] = k]
    /\ rsub' = [rsub EXCEPT ![h] = Pending!Lookup(k)]
    /\ Show(h, IF Pending!Live(k) THEN "form" ELSE "unknown")
    /\ UNCHANGED <<storeVars, creds, callVars, history>>

SubmitPopAnySub(h, k) ==
    /\ rpc[h] = "idle" /\ issued[k] # None
    /\ rlink' = [rlink EXCEPT ![h] = k]
    /\ Pending!Pop(k)
    /\ \E s \in Subs : rsub' = [rsub EXCEPT ![h] = s]
    /\ Show(h, IF Pending!Live(k) THEN "form" ELSE "unknown")
    /\ UNCHANGED <<creds, callVars, history>>

\* HandleSubmit: the link is popped before the form is looked at.
SubmitPop(h, k) ==
    /\ rpc[h] = "idle" /\ issued[k] # None
    /\ rlink' = [rlink EXCEPT ![h] = k]
    /\ \/ /\ Pending!Pop(k)
          /\ rsub' = [rsub EXCEPT ![h] = Pending!Lookup(k)]
          /\ Show(h, IF Pending!Live(k) THEN "form" ELSE "unknown")
       \/ Faults /\ Show(h, "unknown") /\ UNCHANGED <<storeVars, rsub>>
    /\ UNCHANGED <<creds, callVars, history>>

\* Mutant: the waiting call is signalled before the form is stored.
ValidateFormSignalsFirst(h) ==
    /\ rpc[h] = "form"
    /\ Show(h, "signal")
    /\ UNCHANGED <<storeVars, creds, callVars, rlink, rsub, history>>

\* ParseForm and the required fields.
ValidateForm(h) ==
    /\ rpc[h] = "form"
    /\ Show(h, "rejected") \/ Show(h, "store")
    /\ UNCHANGED <<storeVars, creds, callVars, rlink, rsub, history>>

StoreCredentials(h) ==
    /\ rpc[h] = "store"
    /\ \/ /\ creds' = [creds EXCEPT ![rsub[h]] = rlink[h]]
          /\ erased' = erased \ {rsub[h]}
          /\ stored' = stored \cup {rlink[h]}
          /\ Show(h, "signal")
       \/ Faults /\ Show(h, "storefailed") /\ UNCHANGED <<creds, erased, stored>>
    /\ UNCHANGED <<storeVars, callVars, rlink, rsub, issued, withdrawn>>

SignalSuccess(h) ==
    /\ rpc[h] = "signal"
    /\ \/ Pending!SetResult(rlink[h], "ok", ResultTTL)
       \/ Faults /\ UNCHANGED storeVars
    /\ Show(h, "success")
    /\ UNCHANGED <<creds, callVars, rlink, rsub, history>>

CrashRequest(h) ==
    /\ rpc[h] \in Serving
    /\ Show(h, "crashed")
    /\ UNCHANGED <<storeVars, creds, callVars, rlink, rsub, history>>

(***************************************************************************)
(* The rest of the system.                                                 *)
(***************************************************************************)
InvalidateCredentials(s) ==
    /\ creds' = [creds EXCEPT ![s] = None]
    /\ erased' = erased \cup {s}
    /\ UNCHANGED <<storeVars, callVars, hookVars, issued, stored, withdrawn>>

LapseResult(k) ==
    /\ Pending!Lapse(k)
    /\ UNCHANGED <<creds, callVars, hookVars, history>>

Tick ==
    /\ now < MaxTime
    /\ Pending!Tick
    /\ UNCHANGED <<creds, callVars, hookVars, history>>

CallNext(c) ==
    \/ Begin(c) \/ ReadCredentials(c)
    \/ \E k \in Links : FailFastError(c, k) \/ CreatePending(c, k)
    \/ CreateFailed(c) \/ ElicitAccept(c) \/ ElicitDecline(c) \/ DeclinePop(c)
    \/ ElicitError(c)
    \/ Signalled(c) \/ WaitTimeout(c) \/ WaitAbort(c) \/ CrashCall(c)

RequestNext(h) ==
    \/ \E k \in Links : HandleEntry(h, k) \/ SubmitPop(h, k)
    \/ MissingToken(h) \/ ValidateForm(h) \/ StoreCredentials(h)
    \/ SignalSuccess(h) \/ CrashRequest(h)

Next ==
    \/ \E c \in Calls : CallNext(c)
    \/ \E h \in Requests : RequestNext(h)
    \/ \E s \in Subs : InvalidateCredentials(s)
    \/ \E k \in Links : LapseResult(k)
    \/ Tick

\* Runnable goroutines run and time passes; nothing is assumed of the client
\* or of the browser.
Fairness ==
    /\ WF_vars(Tick)
    /\ \A c \in Calls :
        WF_vars(ReadCredentials(c)) /\ WF_vars(Signalled(c) \/ WaitTimeout(c))

Spec == Init /\ [][Next]_vars /\ Fairness

(***************************************************************************)
(* Properties.                                                             *)
(***************************************************************************)

\* Credentials reach only the subject whose prompt created the link they were
\* typed into, in the store and in the context of a served tool call.
CredentialsOwnership ==
    /\ \A s \in Subs : creds[s] # None => issued[creds[s]] = s
    /\ \A c \in Calls : got[c] # None => issued[got[c]] = user[c]

\* A duplicate submit is rejected: the form of a link is stored at most once,
\* so no second submission overwrites a completed flow.
SubmitStoresOnce ==
    [][\A h \in Requests :
        StoreCredentials(h) /\ rpc'[h] = "signal" => rlink[h] \notin stored]_vars

\* A waiting call is woken only when there is something to read: between the
\* signal and the read the credentials disappear only by a deletion.
SignalAfterStore ==
    \A c \in Calls :
        pc[c] = "get" /\ signal[c] = "ok" =>
            creds[user[c]] # None \/ user[c] \in erased

\* A link that the decline took out of the store is dead: no submit, before or after,
\* gets it, and nothing typed into its form is ever stored or handed to a tool.  A
\* submit that came first, and a Pop that fails, leave a declined prompt whose form
\* can still be stored.
DeclinedLinkIsDead ==
    \A k \in withdrawn :
        /\ k \notin stored
        /\ \A h \in Requests : rsub[h] # None => rlink[h] # k
        /\ \A c \in Calls : got[c] # k

\* The link of a call that has given up on its form takes no form any more, except in
\* the very instant in which it expires: the link is created before the prompt, the
\* wait begins after it and is at least as long.  (The file backend counts whole
\* seconds, so that this instant can last up to one second.)
LateFormIsRefused ==
    [][\A c \in Calls, h \in Requests :
        pc[c] = "notprovided" /\ rpc[h] = "idle" /\ rpc'[h] = "form" /\ rlink'[h] = link[c]
            => pending[link[c]].expires = now]_vars

\* Every call that waits gets out and ends.
WaitEnds == \A c \in Calls : pc[c] = "wait" ~> pc[c] \in Ended
=============================================================================
