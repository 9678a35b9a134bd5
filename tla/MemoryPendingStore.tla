------------------------- MODULE MemoryPendingStore -------------------------
(***************************************************************************)
(* store.MemoryPendingStore (store/memory.go).  The pending map is a plain *)
(* map under a mutex.  The signal/wait pair goes through doneEntry         *)
(* objects: the map `done' points to the current one of a key, but a       *)
(* waiter keeps its own pointer and blocks on that object's channel, so    *)
(* that map and waiters can come to disagree.                              *)
(*                                                                         *)
(* The mutex is held for the whole of an operation except WaitForResult,   *)
(* which is three steps: look up or allocate the entry, select on the      *)
(* channel, the timer and the context, and delete the consumed entry.      *)
(***************************************************************************)
EXTENDS Integers, FiniteSets

CONSTANTS
    Keys, Metas, Results, Waiters, TTLs, Timeouts, None,
    Entries,     \* addresses of doneEntry objects
    MaxTime      \* bound on the clock

ASSUME SetsAssumption ==
    /\ None \notin Results \cup Entries \cup Nat
    /\ None \notin [res: Results, expires: Nat] \cup [key: Keys, deadline: Nat]
    /\ TTLs \subseteq Nat /\ Timeouts \subseteq Nat
    /\ MaxTime \in Nat

VARIABLES
    now,
    pending,     \* s.pending
    done,        \* s.done: key -> address
    heap,        \* address -> doneEntry
    wpc,         \* where a goroutine is in WaitForResult
    wkey,        \* its key argument
    wentry,      \* its local pointer d
    deadline,    \* when its timer fires
    returned     \* what its last call returned

waitVars == <<wpc, wkey, wentry, deadline, returned>>
vars == <<now, pending, done, heap, waitVars>>

\* `ch' is the content of the channel of capacity one.  `expires' is history:
\* SetResult ignores its ttl argument.
DoneObject == [ch: Results \cup {None}, fired: BOOLEAN,
               result: Results \cup {None}, expires: Nat]
Blank == [ch |-> None, fired |-> FALSE, result |-> None, expires |-> 0]

TypeOK ==
    /\ now \in Nat
    /\ pending \in [Keys -> [meta: Metas, expires: Nat] \cup {None}]
    /\ done \in [Keys -> Entries \cup {None}]
    /\ heap \in [Entries -> DoneObject]
    /\ wpc \in [Waiters -> {"idle", "select", "consume"}]
    /\ wkey \in [Waiters -> Keys \cup {None}]
    /\ wentry \in [Waiters -> Entries \cup {None}]
    /\ deadline \in [Waiters -> Nat]
    /\ returned \in [Waiters -> Results \cup {None}]

Init ==
    /\ now = 0
    /\ pending = [k \in Keys |-> None]
    /\ done = [k \in Keys |-> None]
    /\ heap = [e \in Entries |-> Blank]
    /\ wpc = [w \in Waiters |-> "idle"]
    /\ wkey = [w \in Waiters |-> None]
    /\ wentry = [w \in Waiters |-> None]
    /\ deadline = [w \in Waiters |-> 0]
    /\ returned = [w \in Waiters |-> None]

(***************************************************************************)
(* The pending map.                                                        *)
(***************************************************************************)
Create(k, m, ttl) ==
    /\ pending' = [pending EXCEPT ![k] = [meta |-> m, expires |-> now + ttl]]
    /\ UNCHANGED <<now, done, heap, waitVars>>

Missing(k) == pending[k] # None => now > pending[k].expires

\* An expired entry is deleted on the way; a live one is copied out.
Get(k) ==
    /\ Missing(k)
    /\ pending' = [pending EXCEPT ![k] = None]
    /\ UNCHANGED <<now, done, heap, waitVars>>

Pop(k) ==
    /\ pending' = [pending EXCEPT ![k] = None]
    /\ UNCHANGED <<now, done, heap, waitVars>>

(***************************************************************************)
(* The signal/wait pair.                                                   *)
(***************************************************************************)

\* An address nothing points to: a new one, or one the collector took back.
Unreachable(e) == (\A k \in Keys : done[k] # e) /\ (\A w \in Waiters : wentry[w] # e)

\* d, ok := s.done[key]; if !ok { d = &doneEntry{...}; s.done[key] = d }
LookupEntry(k, e) == IF done[k] = None THEN Unreachable(e) ELSE e = done[k]
EntryOf(k, e) == IF done[k] = None THEN Blank ELSE heap[e]

\* Mutants: `fired' is never set; a second result replaces the recorded one
\* but is not sent.
FireUnmarked(d, r, ttl) ==
    IF d.fired THEN d
    ELSE [ch |-> r, fired |-> FALSE, result |-> r, expires |-> now + ttl]

FireReplaces(d, r, ttl) ==
    IF d.fired THEN [d EXCEPT !.result = r, !.expires = now + ttl]
    ELSE [ch |-> r, fired |-> TRUE, result |-> r, expires |-> now + ttl]

\* Only the first result is sent; the send would block under the mutex if the
\* channel were full.
Fire(d, r, ttl) ==
    IF d.fired THEN d
    ELSE [ch |-> r, fired |-> TRUE, result |-> r, expires |-> now + ttl]

SetResult(k, r, ttl) ==
    \E e \in Entries :
        /\ LookupEntry(k, e)
        /\ done' = [done EXCEPT ![k] = e]
        /\ heap' = [heap EXCEPT ![e] = Fire(EntryOf(k, e), r, ttl)]
        /\ UNCHANGED <<now, pending, waitVars>>

\* Mutants: a waiter always makes an entry of its own, and registers it over
\* the one that is there, or does not register it.
StartWaitOnNewEntry(w, k, timeout) ==
    /\ wpc[w] = "idle" /\ now + timeout <= MaxTime
    /\ \E e \in Entries :
        /\ Unreachable(e)
        /\ done' = [done EXCEPT ![k] = e]
        /\ heap' = [heap EXCEPT ![e] = Blank]
        /\ wentry' = [wentry EXCEPT ![w] = e]
    /\ wpc' = [wpc EXCEPT ![w] = "select"]
    /\ wkey' = [wkey EXCEPT ![w] = k]
    /\ deadline' = [deadline EXCEPT ![w] = now + timeout]
    /\ returned' = [returned EXCEPT ![w] = None]
    /\ UNCHANGED <<now, pending>>

StartWaitUnregistered(w, k, timeout) ==
    /\ wpc[w] = "idle" /\ now + timeout <= MaxTime
    /\ \E e \in Entries :
        /\ LookupEntry(k, e)
        /\ heap' = [heap EXCEPT ![e] = EntryOf(k, e)]
        /\ wentry' = [wentry EXCEPT ![w] = e]
    /\ wpc' = [wpc EXCEPT ![w] = "select"]
    /\ wkey' = [wkey EXCEPT ![w] = k]
    /\ deadline' = [deadline EXCEPT ![w] = now + timeout]
    /\ returned' = [returned EXCEPT ![w] = None]
    /\ UNCHANGED <<now, pending, done>>

\* WaitForResult up to the select.
StartWait(w, k, timeout) ==
    /\ wpc[w] = "idle"
    /\ now + timeout <= MaxTime
    /\ \E e \in Entries :
        /\ LookupEntry(k, e)
        /\ done' = [done EXCEPT ![k] = e]
        /\ heap' = [heap EXCEPT ![e] = EntryOf(k, e)]
        /\ wentry' = [wentry EXCEPT ![w] = e]
    /\ wpc' = [wpc EXCEPT ![w] = "select"]
    /\ wkey' = [wkey EXCEPT ![w] = k]
    /\ deadline' = [deadline EXCEPT ![w] = now + timeout]
    /\ returned' = [returned EXCEPT ![w] = None]
    /\ UNCHANGED <<now, pending>>

\* Mutant: the entry is returned instead of its result.
ReceiveEntry(w) ==
    /\ wpc[w] = "select" /\ heap[wentry[w]].ch # None
    /\ heap' = [heap EXCEPT ![wentry[w]].ch = None]
    /\ returned' = [returned EXCEPT ![w] = heap[wentry[w]]]
    /\ wpc' = [wpc EXCEPT ![w] = "consume"]
    /\ UNCHANGED <<now, pending, done, wkey, wentry, deadline>>

\* case result := <-d.ch
Receive(w) ==
    /\ wpc[w] = "select" /\ heap[wentry[w]].ch # None
    /\ heap' = [heap EXCEPT ![wentry[w]].ch = None]
    /\ returned' = [returned EXCEPT ![w] = heap[wentry[w]].ch]
    /\ wpc' = [wpc EXCEPT ![w] = "consume"]
    /\ UNCHANGED <<now, pending, done, wkey, wentry, deadline>>

Leave(w) ==
    /\ wpc' = [wpc EXCEPT ![w] = "idle"]
    /\ wkey' = [wkey EXCEPT ![w] = None]
    /\ wentry' = [wentry EXCEPT ![w] = None]
    /\ UNCHANGED <<now, pending, heap, deadline, returned>>

\* delete(s.done, key): by key, whatever entry the map holds by now.
Consume(w) ==
    /\ wpc[w] = "consume"
    /\ done' = [done EXCEPT ![wkey[w]] = None]
    /\ Leave(w)

\* Mutants: the timeout cleans the entry up; the timer case does not return.
TimeOutDeletes(w) ==
    /\ wpc[w] = "select" /\ now >= deadline[w]
    /\ done' = [done EXCEPT ![wkey[w]] = None]
    /\ Leave(w)

TimeOutStays(w) ==
    /\ wpc[w] = "select" /\ now >= deadline[w]
    /\ UNCHANGED vars

\* case <-timer.C; the select may prefer it to a result that is there.
TimeOut(w) ==
    /\ wpc[w] = "select" /\ now >= deadline[w]
    /\ Leave(w)
    /\ UNCHANGED done

\* case <-ctx.Done()
Abort(w) ==
    /\ wpc[w] = "select"
    /\ Leave(w)
    /\ UNCHANGED done

Tick ==
    /\ now < MaxTime
    /\ now' = now + 1
    /\ UNCHANGED <<pending, done, heap, waitVars>>

Next ==
    \/ \E k \in Keys :
        \/ \E m \in Metas, ttl \in TTLs : Create(k, m, ttl)
        \/ Get(k)
        \/ Pop(k)
        \/ \E r \in Results, ttl \in TTLs : SetResult(k, r, ttl)
    \/ \E w \in Waiters :
        \/ \E k \in Keys, t \in Timeouts : StartWait(w, k, t)
        \/ Receive(w)
        \/ Consume(w)
        \/ TimeOut(w)
        \/ Abort(w)
    \/ Tick

\* The timer fires, and a goroutine with something to select is scheduled.
Fairness ==
    /\ WF_vars(Tick)
    /\ \A w \in Waiters : WF_vars(Receive(w) \/ TimeOut(w)) /\ WF_vars(Consume(w))

Spec == Init /\ [][Next]_vars /\ Fairness

(***************************************************************************)
(* Properties.                                                             *)
(***************************************************************************)

\* A channel holds something only after `fired' is set, so the send in
\* SetResult, which runs under the mutex, finds room whenever it is reached.
SendNeverBlocks == \A e \in Entries : heap[e].ch # None => heap[e].fired

\* The delete by key at the end of WaitForResult removes the very entry the
\* result came from, never a younger one with a result of its own.
ConsumesOwnEntry ==
    \A w \in Waiters : wpc[w] = "consume" => done[wkey[w]] = wentry[w]

\* A result that was sent and not received is found by the next WaitForResult
\* of its key: it does not sit in an entry the map has forgotten.
SentResultIsReachable ==
    \A e \in Entries :
        heap[e].ch # None /\ ~Unreachable(e) => \E k \in Keys : done[k] = e

\* A waiter whose entry has not fired blocks on the entry the map points to, so
\* the next SetResult of its key wakes it.  A waiter can only be missed if it
\* shares its entry with another one that took the result.
UnfiredWaiterIsRegistered ==
    \A w \in Waiters :
        wpc[w] = "select" /\ ~heap[wentry[w]].fired => done[wkey[w]] = wentry[w]

\* SetResult reaches everyone blocked on the key: each of them has something to
\* receive after it ("blocks until SetResult is called for key").
SignalReachesWaiters ==
    [][\A k \in Keys, r \in Results, ttl \in TTLs :
        SetResult(k, r, ttl) =>
            \A w \in Waiters :
                wpc[w] = "select" /\ wkey[w] = k => heap'[wentry[w]].ch # None]_vars

\* WaitForResult returns.
WaitReturns == \A w \in Waiters : wpc[w] = "select" ~> wpc[w] = "idle"

(***************************************************************************)
(* Refinement: the operations take effect on the contract's state as one   *)
(* step each; a wait takes effect when its entry is deleted.               *)
(***************************************************************************)
DoneBar ==
    [k \in Keys |->
        IF done[k] # None /\ heap[done[k]].fired
        THEN [res |-> heap[done[k]].result, expires |-> heap[done[k]].expires]
        ELSE None]

WaitingBar ==
    [w \in Waiters |->
        IF wpc[w] = "idle" THEN None ELSE [key |-> wkey[w], deadline |-> deadline[w]]]

SignalBar ==
    [w \in Waiters |-> IF wpc[w] = "consume" THEN None ELSE returned[w]]

Contract == INSTANCE PendingStore WITH
    done <- DoneBar, waiting <- WaitingBar, signal <- SignalBar

\* Every behaviour of the memory backend is one the contract allows.
ImplementsContract == Contract!Spec
=============================================================================
