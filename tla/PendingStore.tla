---------------------------- MODULE PendingStore ----------------------------
(***************************************************************************)
(* The contract of store.PendingStore (store/store.go): an ephemeral map   *)
(* of in-flight flows with a real TTL, and a signal/wait pair that lets an *)
(* HTTP callback wake the tool call blocked in WaitForResult.              *)
(*                                                                         *)
(* This is what the providers may rely on, whatever the backend.  Every    *)
(* operation is one atomic step; the backends are specified in modules of  *)
(* their own and compared with this one.                                   *)
(***************************************************************************)
EXTENDS Integers

CONSTANTS
    Keys,      \* OAuth "state" parameters or credentials-entry tokens
    Metas,     \* metadata a flow is created with (its "sub")
    Results,   \* what SetResult can carry
    Waiters,   \* goroutines that may block in WaitForResult
    TTLs,      \* the ttl arguments in use
    Timeouts,  \* the timeoutSeconds arguments in use
    None       \* the Go nil

VARIABLES
    now,       \* the wall clock
    pending,   \* key -> metadata and expiry
    done,      \* key -> result and the time after which it may be dropped
    waiting,   \* waiter -> the key it is blocked on and its deadline
    signal     \* waiter -> what its last WaitForResult returned

vars == <<now, pending, done, waiting, signal>>

PendingEntry == [meta: Metas, expires: Nat]
DoneEntry    == [res: Results, expires: Nat]
Wait         == [key: Keys, deadline: Nat]

TypeOK ==
    /\ now \in Nat
    /\ pending \in [Keys -> PendingEntry \cup {None}]
    /\ done \in [Keys -> DoneEntry \cup {None}]
    /\ waiting \in [Waiters -> Wait \cup {None}]
    /\ signal \in [Waiters -> Results \cup {None}]

Init ==
    /\ now = 0
    /\ pending = [k \in Keys |-> None]
    /\ done = [k \in Keys |-> None]
    /\ waiting = [w \in Waiters |-> None]
    /\ signal = [w \in Waiters |-> None]

(***************************************************************************)
(* The pending map.                                                        *)
(***************************************************************************)
Live(k) == pending[k] # None /\ now <= pending[k].expires

\* What Get and Pop return for k.
Lookup(k) == IF Live(k) THEN pending[k].meta ELSE None

Create(k, m, ttl) ==
    /\ pending' = [pending EXCEPT ![k] = [meta |-> m, expires |-> now + ttl]]
    /\ UNCHANGED <<now, done, waiting, signal>>

\* Get changes nothing but may drop an entry whose TTL has passed.
Get(k) ==
    /\ ~Live(k)
    /\ pending' = [pending EXCEPT ![k] = None]
    /\ UNCHANGED <<now, done, waiting, signal>>

\* "atomic get+delete": the caller receives Lookup(k).
Pop(k) ==
    /\ pending' = [pending EXCEPT ![k] = None]
    /\ UNCHANGED <<now, done, waiting, signal>>

(***************************************************************************)
(* The signal/wait pair.  When a result is already recorded, a backend may *)
(* keep the first one (memory) or replace it (file, redis).                *)
(***************************************************************************)
SetResult(k, r, ttl) ==
    /\ \/ done' = [done EXCEPT ![k] = [res |-> r, expires |-> now + ttl]]
       \/ done[k] # None /\ UNCHANGED done
    /\ UNCHANGED <<now, pending, waiting, signal>>

\* A result nobody collected within its TTL may disappear.
Lapse(k) ==
    /\ done[k] # None /\ now > done[k].expires
    /\ done' = [done EXCEPT ![k] = None]
    /\ UNCHANGED <<now, pending, waiting, signal>>

StartWait(w, k, timeout) ==
    /\ waiting[w] = None
    /\ waiting' = [waiting EXCEPT ![w] = [key |-> k, deadline |-> now + timeout]]
    /\ signal' = [signal EXCEPT ![w] = None]
    /\ UNCHANGED <<now, pending, done>>

\* The result is consumed before WaitForResult returns it.
Deliver(w) ==
    /\ waiting[w] # None /\ done[waiting[w].key] # None
    /\ signal' = [signal EXCEPT ![w] = done[waiting[w].key].res]
    /\ done' = [done EXCEPT ![waiting[w].key] = None]
    /\ waiting' = [waiting EXCEPT ![w] = None]
    /\ UNCHANGED <<now, pending>>

\* (nil, nil) on timeout.
TimeOut(w) ==
    /\ waiting[w] # None /\ now >= waiting[w].deadline
    /\ waiting' = [waiting EXCEPT ![w] = None]
    /\ UNCHANGED <<now, pending, done, signal>>

\* ctx.Done(), an error, or the process of the waiter is gone, perhaps when the
\* result was already consumed.
Abort(w) ==
    /\ waiting[w] # None
    /\ waiting' = [waiting EXCEPT ![w] = None]
    /\ UNCHANGED done \/ done' = [done EXCEPT ![waiting[w].key] = None]
    /\ UNCHANGED <<now, pending, signal>>

Tick ==
    /\ now' = now + 1
    /\ UNCHANGED <<pending, done, waiting, signal>>

Next ==
    \/ \E k \in Keys :
        \/ \E m \in Metas, ttl \in TTLs : Create(k, m, ttl)
        \/ Get(k)
        \/ Pop(k)
        \/ \E r \in Results, ttl \in TTLs : SetResult(k, r, ttl)
        \/ Lapse(k)
    \/ \E w \in Waiters :
        \/ \E k \in Keys, t \in Timeouts : StartWait(w, k, t)
        \/ Deliver(w)
        \/ TimeOut(w)
        \/ Abort(w)
    \/ Tick

Spec == Init /\ [][Next]_vars
=============================================================================
