------------------------- MODULE RedisPendingStore -------------------------
(***************************************************************************)
(* store.RedisPendingStore (store/redis.go).  The server executes commands *)
(* one at a time, so every operation is one step except WaitForResult,     *)
(* which polls with EXISTS and then consumes the result in a MULTI         *)
(* transaction of GET and DEL.  All replicas share one encryption key.     *)
(*                                                                         *)
(* A command that fails may or may not have been executed: the reply can   *)
(* be lost.  For Create, Pop and SetResult that is the step or no step.    *)
(***************************************************************************)
EXTENDS Integers

CONSTANTS
    Keys, Metas, Results, Waiters, None,
    CreateTTLs,    \* the ttl arguments of Create
    ResultTTLs,    \* the ttl arguments of SetResult
    DefaultTTL,    \* the 120 that replaces a ttl of SetResult that is not positive
    Timeouts,
    MaxTime        \* bound on the clock

ASSUME RedisAssumption ==
    /\ CreateTTLs \cup ResultTTLs \subseteq Int
    /\ DefaultTTL \in Nat \ {0}
    /\ {MaxTime} \cup Timeouts \subseteq Nat
    /\ None \notin Int \cup Metas \cup Results \cup [key: Keys, deadline: Nat]

VARIABLES
    now,
    pending,     \* the "pending:" keys
    done,        \* the "done:" keys
    wpc,         \* where a goroutine is in WaitForResult
    wkey,        \* its key argument
    deadline,
    returned,    \* what its last call returned
    uses         \* history: how often the last value of each key was handed out

waitVars == <<wpc, wkey, deadline, returned>>
vars == <<now, pending, done, waitVars, uses>>

Prefixes == {"pending", "done"}

TypeOK ==
    /\ now \in Nat
    /\ pending \in [Keys -> [meta: Metas, expires: Nat \cup {None}] \cup {None}]
    /\ done \in [Keys -> [res: Results, expires: Nat] \cup {None}]
    /\ wpc \in [Waiters -> {"idle", "exists", "pop", "check", "sleep"}]
    /\ wkey \in [Waiters -> Keys \cup {None}]
    /\ deadline \in [Waiters -> Nat]
    /\ returned \in [Waiters -> Results \cup {None}]
    /\ uses \in [Prefixes \X Keys -> Nat]

Init ==
    /\ now = 0
    /\ pending = [k \in Keys |-> None]
    /\ done = [k \in Keys |-> None]
    /\ wpc = [w \in Waiters |-> "idle"]
    /\ wkey = [w \in Waiters |-> None]
    /\ deadline = [w \in Waiters |-> 0]
    /\ returned = [w \in Waiters |-> None]
    /\ uses = [p \in Prefixes \X Keys |-> 0]

(***************************************************************************)
(* Native expiry.  SET without a positive expiration keeps the key for     *)
(* ever; a key past its expiration is invisible to every command.          *)
(***************************************************************************)
Expiration(ttl) == IF ttl > 0 THEN now + ttl ELSE None

Visible(v) == v # None /\ (v.expires # None => now <= v.expires)

(***************************************************************************)
(* One-command operations.  Get changes nothing.                           *)
(***************************************************************************)
Create(k, m, ttl) ==
    /\ pending' = [pending EXCEPT ![k] = [meta |-> m, expires |-> Expiration(ttl)]]
    /\ uses' = [uses EXCEPT ![<<"pending", k>>] = 0]
    /\ UNCHANGED <<now, done, waitVars>>

\* Mutant: GET without the DEL.
PopReadsOnly(k) ==
    /\ uses' = [uses EXCEPT ![<<"pending", k>>] = IF Visible(pending[k]) THEN @ + 1 ELSE @]
    /\ UNCHANGED <<now, pending, done, waitVars>>

\* atomicPop on the pending key.
Pop(k) ==
    /\ pending' = [pending EXCEPT ![k] = None]
    /\ uses' = [uses EXCEPT ![<<"pending", k>>] = IF Visible(pending[k]) THEN @ + 1 ELSE @]
    /\ UNCHANGED <<now, done, waitVars>>

\* Mutant: the ttl goes to Redis as it is.
ResultExpirationNoDefault(ttl) == Expiration(ttl)

ResultExpiration(ttl) == Expiration(IF ttl <= 0 THEN DefaultTTL ELSE ttl)

\* A second result replaces the first.
SetResult(k, r, ttl) ==
    /\ done' = [done EXCEPT ![k] = [res |-> r, expires |-> ResultExpiration(ttl)]]
    /\ uses' = [uses EXCEPT ![<<"done", k>>] = 0]
    /\ UNCHANGED <<now, pending, waitVars>>

(***************************************************************************)
(* WaitForResult.                                                          *)
(***************************************************************************)
WaitGoto(w, p) == wpc' = [wpc EXCEPT ![w] = p]

Return(w, r) ==
    /\ WaitGoto(w, "idle")
    /\ returned' = [returned EXCEPT ![w] = r]
    /\ wkey' = [wkey EXCEPT ![w] = None]
    /\ UNCHANGED deadline

StartWait(w, k, timeout) ==
    /\ wpc[w] = "idle" /\ now + timeout < MaxTime
    /\ WaitGoto(w, "exists")
    /\ wkey' = [wkey EXCEPT ![w] = k]
    /\ deadline' = [deadline EXCEPT ![w] = now + timeout]
    /\ returned' = [returned EXCEPT ![w] = None]
    /\ UNCHANGED <<now, pending, done, uses>>

\* An error of EXISTS counts as "not there".
Exists(w) ==
    /\ wpc[w] = "exists"
    /\ (Visible(done[wkey[w]]) /\ WaitGoto(w, "pop")) \/ WaitGoto(w, "check")
    /\ UNCHANGED <<now, pending, done, wkey, deadline, returned, uses>>

\* Mutant: the result is read outside a transaction and its DEL is lost.
PopResultKeeps(w) ==
    /\ wpc[w] = "pop" /\ Visible(done[wkey[w]])
    /\ Return(w, done[wkey[w]].res)
    /\ uses' = [uses EXCEPT ![<<"done", wkey[w]>>] = @ + 1]
    /\ UNCHANGED <<now, pending, done>>

\* The result is there and is consumed.
PopResult(w) ==
    /\ wpc[w] = "pop" /\ Visible(done[wkey[w]])
    /\ Return(w, done[wkey[w]].res)
    /\ done' = [done EXCEPT ![wkey[w]] = None]
    /\ uses' = [uses EXCEPT ![<<"done", wkey[w]>>] = @ + 1]
    /\ UNCHANGED <<now, pending>>

\* It is gone since EXISTS: nil at once, before the deadline.
PopNothing(w) ==
    /\ wpc[w] = "pop" /\ ~Visible(done[wkey[w]])
    /\ Return(w, None)
    /\ done' = [done EXCEPT ![wkey[w]] = None]
    /\ UNCHANGED <<now, pending, uses>>

\* Exec returned an error, before or after the server deleted the result.
PopError(w) ==
    /\ wpc[w] = "pop"
    /\ Return(w, None)
    /\ done' = [done EXCEPT ![wkey[w]] = None] \/ UNCHANGED done
    /\ UNCHANGED <<now, pending, uses>>

\* Mutant: the deadline is not looked at.
PollForever(w) ==
    /\ wpc[w] = "check"
    /\ WaitGoto(w, "sleep")
    /\ UNCHANGED <<now, pending, done, wkey, deadline, returned, uses>>

CheckDeadline(w) ==
    /\ wpc[w] = "check"
    /\ IF now > deadline[w] THEN Return(w, None)
       ELSE WaitGoto(w, "sleep") /\ UNCHANGED <<wkey, deadline, returned>>
    /\ UNCHANGED <<now, pending, done, uses>>

\* filePollInterval elapses.
Wake(w) ==
    /\ wpc[w] = "sleep"
    /\ WaitGoto(w, "exists")
    /\ UNCHANGED <<now, pending, done, wkey, deadline, returned, uses>>

\* ctx.Done() during the sleep, or the process of the waiter is gone.
Abort(w) ==
    /\ wpc[w] # "idle"
    /\ Return(w, None)
    /\ UNCHANGED <<now, pending, done, uses>>

Tick ==
    /\ now < MaxTime
    /\ now' = now + 1
    /\ UNCHANGED <<pending, done, waitVars, uses>>

Step(w) ==
    \/ Exists(w) \/ PopResult(w) \/ PopNothing(w) \/ PopError(w)
    \/ CheckDeadline(w) \/ Wake(w)

Next ==
    \/ \E k \in Keys :
        \/ \E m \in Metas, ttl \in CreateTTLs : Create(k, m, ttl)
        \/ Pop(k)
        \/ \E r \in Results, ttl \in ResultTTLs : SetResult(k, r, ttl)
    \/ \E w \in Waiters :
        \/ \E k \in Keys, t \in Timeouts : StartWait(w, k, t)
        \/ Step(w)
        \/ Abort(w)
    \/ Tick

\* Time passes and a runnable goroutine runs; EXISTS may fail every time.
Fairness == WF_vars(Tick) /\ \A w \in Waiters : WF_vars(Step(w))

Spec == Init /\ [][Next]_vars /\ Fairness

(***************************************************************************)
(* Properties.                                                             *)
(***************************************************************************)

\* However many callers saw the key, one of them gets the value: two waiters
\* that both passed EXISTS, or two Pops, never share a result or an entry.
HandedOutOnce == \A p \in Prefixes \X Keys : uses[p] <= 1

\* WaitForResult returns, also when every EXISTS fails.
WaitReturns == \A w \in Waiters : wpc[w] # "idle" ~> wpc[w] = "idle"

Contract == INSTANCE PendingStore WITH
    TTLs <- CreateTTLs \cup ResultTTLs \cup {DefaultTTL},
    waiting <- [w \in Waiters |->
                   IF wpc[w] = "idle" THEN None
                   ELSE [key |-> wkey[w], deadline |-> deadline[w]]],
    signal <- returned

\* For positive arguments of Create every behaviour of the Redis backend is one
\* the contract allows.  The early nil of PopNothing is a wait cut short there.
ImplementsContract == Contract!Spec
=============================================================================
