---------------------- MODULE MemoryPendingStoreProofs ----------------------

(***************************************************************************)
(* Proofs about MemoryPendingStore, for any number of keys, waiters and    *)
(* doneEntry objects.                                                      *)
(***************************************************************************)
EXTENDS MemoryPendingStore, TLAPS

(***************************************************************************)
(* The inductive invariant.                                                *)
(***************************************************************************)

\* What a goroutine has in its hands inside and outside WaitForResult.
WaitShape ==
    \A w \in Waiters :
        /\ wpc[w] = "idle" => wentry[w] = None
        /\ wpc[w] # "idle" => wkey[w] \in Keys /\ wentry[w] \in Entries
        /\ wpc[w] = "select" => returned[w] = None

\* The map gives no two keys the same entry, and a waiter's entry to no key but its
\* own.
EntryHasOneKey ==
    /\ \A j, k \in Keys : done[j] # None /\ done[j] = done[k] => j = k
    /\ \A w \in Waiters, k \in Keys :
        wpc[w] # "idle" /\ done[k] = wentry[w] => k = wkey[w]

\* An entry the map has forgotten has fired and its result has been received.
ForgottenIsSpent ==
    \A w \in Waiters :
        wpc[w] # "idle" /\ done[wkey[w]] # wentry[w] =>
            heap[wentry[w]].fired /\ heap[wentry[w]].ch = None

\* A waiter between its receive and its delete is the only one that received from
\* its entry, and what it received is the entry's result.
OneReceiver ==
    \A w \in Waiters : wpc[w] = "consume" =>
        /\ done[wkey[w]] = wentry[w]
        /\ heap[wentry[w]].fired /\ heap[wentry[w]].ch = None
        /\ returned[w] = heap[wentry[w]].result
        /\ \A v \in Waiters : wpc[v] = "consume" /\ wentry[v] = wentry[w] => v = w

\* The channel holds the result of an entry that has fired.
SentIsResult ==
    \A e \in Entries :
        /\ heap[e].ch # None => heap[e].fired /\ heap[e].ch = heap[e].result
        /\ heap[e].fired => heap[e].result # None

IInv ==
    /\ TypeOK /\ WaitShape /\ EntryHasOneKey /\ ForgottenIsSpent
    /\ OneReceiver /\ SentIsResult

USE SetsAssumption
USE DEF waitVars, DoneObject

(***************************************************************************)
(* The entries the operations work on.                                     *)
(***************************************************************************)

\* A fired entry keeps its result and what is left in its channel; any other takes
\* the new result.
LEMMA FireTyping ==
    ASSUME NEW d \in DoneObject, NEW r \in Results, NEW ttl \in TTLs, now \in Nat
    PROVE  /\ Fire(d, r, ttl) \in DoneObject
           /\ Fire(d, r, ttl).fired
           /\ d.fired => Fire(d, r, ttl) = d
           /\ ~d.fired => /\ Fire(d, r, ttl).ch = r
                          /\ Fire(d, r, ttl).result = r
                          /\ Fire(d, r, ttl).expires = now + ttl
BY DEF Fire

\* The entry an operation works on is a new object or the one of the map.
LEMMA EntryTyping ==
    ASSUME TypeOK, NEW k \in Keys, NEW e \in Entries, LookupEntry(k, e)
    PROVE  /\ EntryOf(k, e) \in DoneObject
           /\ \/ done[k] = None /\ Unreachable(e) /\ EntryOf(k, e) = Blank
              \/ done[k] = e /\ EntryOf(k, e) = heap[e]
BY DEF TypeOK, LookupEntry, EntryOf, Blank

\* What a step that registers e under k does to the map and to the goroutines that
\* are inside WaitForResult already.
RegisterEffect(k, e) ==
    /\ \A i, j \in Keys : done'[i] # None /\ done'[i] = done'[j] => i = j
    /\ \A w \in Waiters : wpc[w] # "idle" =>
        /\ \A j \in Keys : done'[j] = wentry[w] => j = wkey[w]
        /\ wentry[w] = e => done[k] = e /\ wkey[w] = k /\ done'[wkey[w]] = wentry[w]
        /\ done'[wkey[w]] # wentry[w] => done[wkey[w]] # wentry[w]
        /\ wpc[w] = "consume" => done'[wkey[w]] = wentry[w]
    /\ \A j \in Keys : done'[j] = e => j = k

\* Registering the entry keeps keys and entries apart.
LEMMA RegisterKeepsKeys ==
    ASSUME IInv, NEW k \in Keys, NEW e \in Entries, LookupEntry(k, e),
           done' = [done EXCEPT ![k] = e]
    PROVE  RegisterEffect(k, e)
<1> USE DEF RegisterEffect
<1>1. done \in [Keys -> Entries \cup {None}] /\ e # None
  BY DEF IInv, TypeOK
<1>2. CASE done[k] = None
  BY <1>1, <1>2 DEF IInv, WaitShape, EntryHasOneKey, OneReceiver, LookupEntry, Unreachable
<1>3. CASE done[k] # None
  <2>1. done' = done /\ done[k] = e
    BY <1>1, <1>3 DEF LookupEntry
  <2> QED BY <2>1, <1>1 DEF IInv, WaitShape, EntryHasOneKey, OneReceiver
<1> QED BY <1>2, <1>3

\* The initial state.
LEMMA InitInv == Init => IInv
BY DEF Init, IInv, TypeOK, WaitShape, EntryHasOneKey, ForgottenIsSpent, OneReceiver,
    SentIsResult, Blank

(***************************************************************************)
(* One lemma per operation.                                                *)
(***************************************************************************)

\* The pending map and the clock leave the signal/wait pair alone.
LEMMA PendingInv ==
    ASSUME IInv, UNCHANGED <<done, heap, waitVars>>, now' \in Nat,
           pending' \in [Keys -> [meta: Metas, expires: Nat] \cup {None}]
    PROVE  IInv'
<1>1. TypeOK'
  BY DEF IInv, TypeOK
<1> QED
  BY <1>1 DEF IInv, WaitShape, EntryHasOneKey, ForgottenIsSpent, OneReceiver, SentIsResult

\* SetResult.
LEMMA SetResultInv ==
    ASSUME IInv, NEW k \in Keys, NEW r \in Results, NEW ttl \in TTLs, SetResult(k, r, ttl)
    PROVE  IInv'
<1>1. PICK e \in Entries :
        /\ LookupEntry(k, e)
        /\ done' = [done EXCEPT ![k] = e]
        /\ heap' = [heap EXCEPT ![e] = Fire(EntryOf(k, e), r, ttl)]
        /\ UNCHANGED <<now, pending, waitVars>>
  BY DEF SetResult
<1> DEFINE d == Fire(EntryOf(k, e), r, ttl)
<1>2. /\ d \in DoneObject /\ d.fired
      /\ EntryOf(k, e).fired => d = EntryOf(k, e)
      /\ ~EntryOf(k, e).fired => d.ch = r /\ d.result = r
  BY <1>1, EntryTyping, FireTyping DEF IInv, TypeOK
<1>3. /\ heap'[e] = d
      /\ \A f \in Entries : f # e => heap'[f] = heap[f]
      /\ done[k] = e => EntryOf(k, e) = heap[e]
      /\ done[k] # e => EntryOf(k, e) = Blank
  BY <1>1, EntryTyping DEF IInv, TypeOK
<1> HIDE DEF d
<1>4. TypeOK'
  BY <1>1, <1>2, <1>3 DEF IInv, TypeOK, d
<1>5. RegisterEffect(k, e)
  BY <1>1, RegisterKeepsKeys
<1>6. WaitShape' /\ EntryHasOneKey'
  BY <1>1, <1>5 DEF IInv, WaitShape, EntryHasOneKey, RegisterEffect
<1>7. ForgottenIsSpent'
  BY <1>1, <1>3, <1>5 DEF IInv, WaitShape, ForgottenIsSpent, RegisterEffect
<1>8. SentIsResult'
  BY <1>2, <1>3 DEF IInv, SentIsResult, Blank
<1>9. OneReceiver'
  BY <1>1, <1>2, <1>3, <1>5 DEF IInv, WaitShape, OneReceiver, RegisterEffect
<1> QED BY <1>4, <1>6, <1>7, <1>8, <1>9 DEF IInv

\* StartWait.
LEMMA StartWaitInv ==
    ASSUME IInv, NEW w \in Waiters, NEW k \in Keys, NEW t \in Timeouts, StartWait(w, k, t)
    PROVE  IInv'
<1>1. PICK e \in Entries :
        /\ LookupEntry(k, e)
        /\ done' = [done EXCEPT ![k] = e]
        /\ heap' = [heap EXCEPT ![e] = EntryOf(k, e)]
        /\ wentry' = [wentry EXCEPT ![w] = e]
  BY DEF StartWait
<1>2. /\ wpc[w] = "idle"
      /\ wpc' = [wpc EXCEPT ![w] = "select"]
      /\ wkey' = [wkey EXCEPT ![w] = k]
      /\ deadline' = [deadline EXCEPT ![w] = now + t]
      /\ returned' = [returned EXCEPT ![w] = None]
      /\ UNCHANGED <<now, pending>>
  BY DEF StartWait
<1>3. /\ heap'[e] \in DoneObject
      /\ done[k] = e => heap'[e] = heap[e]
      /\ done[k] # e => heap'[e] = Blank
      /\ \A f \in Entries : f # e => heap'[f] = heap[f]
  BY <1>1, EntryTyping DEF IInv, TypeOK
<1>4. TypeOK'
  BY <1>1, <1>2, <1>3 DEF IInv, TypeOK
<1>5. RegisterEffect(k, e) /\ done'[k] = e
  BY <1>1, RegisterKeepsKeys DEF IInv, TypeOK
<1>6. /\ wpc'[w] = "select" /\ wkey'[w] = k /\ wentry'[w] = e /\ returned'[w] = None
      /\ \A v \in Waiters : v # w =>
            /\ wpc'[v] = wpc[v] /\ wkey'[v] = wkey[v] /\ wentry'[v] = wentry[v]
            /\ returned'[v] = returned[v]
  BY <1>1, <1>2 DEF IInv, TypeOK
<1>7. WaitShape' /\ EntryHasOneKey'
  BY <1>5, <1>6 DEF IInv, WaitShape, EntryHasOneKey, RegisterEffect
<1>8. ForgottenIsSpent'
  BY <1>3, <1>5, <1>6 DEF IInv, WaitShape, ForgottenIsSpent, RegisterEffect
<1>9. SentIsResult'
  BY <1>3 DEF IInv, SentIsResult, Blank
<1>10. OneReceiver'
  BY <1>3, <1>5, <1>6 DEF IInv, WaitShape, OneReceiver, RegisterEffect
<1> QED BY <1>4, <1>7, <1>8, <1>9, <1>10 DEF IInv

\* Receive.
LEMMA ReceiveInv ==
    ASSUME IInv, NEW w \in Waiters, Receive(w)
    PROVE  IInv'
<1> DEFINE e == wentry[w]
<1>1. /\ e \in Entries /\ wkey[w] \in Keys /\ wpc[w] = "select"
      /\ heap[e].ch # None /\ heap[e].fired /\ heap[e].ch = heap[e].result
      /\ done[wkey[w]] = e
  BY DEF IInv, WaitShape, ForgottenIsSpent, SentIsResult, Receive
<1>2. /\ heap'[e] = [heap[e] EXCEPT !.ch = None]
      /\ heap'[e] \in DoneObject
      /\ heap'[e].ch = None /\ heap'[e].fired = heap[e].fired
      /\ heap'[e].result = heap[e].result
      /\ \A f \in Entries : f # e => heap'[f] = heap[f]
  <2>1. heap[e] \in DoneObject /\ heap \in [Entries -> DoneObject]
    BY <1>1 DEF IInv, TypeOK
  <2>2. heap'[e] = [heap[e] EXCEPT !.ch = None]
    BY <1>1, <2>1 DEF Receive
  <2>3. \A f \in Entries : f # e => heap'[f] = heap[f]
    BY <1>1, <2>1 DEF Receive
  <2> QED BY <2>1, <2>2, <2>3
<1>3. /\ wpc'[w] = "consume" /\ returned'[w] = heap[e].result
      /\ \A v \in Waiters : v # w => wpc'[v] = wpc[v] /\ returned'[v] = returned[v]
      /\ UNCHANGED <<now, pending, done, wkey, wentry, deadline>>
  BY <1>1 DEF IInv, TypeOK, Receive
<1>4. TypeOK'
  BY <1>1, <1>2 DEF IInv, TypeOK, Receive
<1> HIDE DEF e
<1>5. WaitShape' /\ EntryHasOneKey'
  BY <1>1, <1>3 DEF IInv, WaitShape, EntryHasOneKey
<1>6. ForgottenIsSpent'
  BY <1>1, <1>2, <1>3 DEF IInv, WaitShape, ForgottenIsSpent
<1>7. SentIsResult'
  BY <1>2 DEF IInv, SentIsResult
<1>8. OneReceiver'
  BY <1>1, <1>2, <1>3 DEF IInv, WaitShape, OneReceiver, e
<1> QED BY <1>4, <1>5, <1>6, <1>7, <1>8 DEF IInv

\* A goroutine that leaves WaitForResult takes nothing from the others.
LEMMA LeaveEffect ==
    ASSUME IInv, NEW w \in Waiters, Leave(w)
    PROVE  /\ wpc'[w] = "idle" /\ wentry'[w] = None
           /\ \A v \in Waiters : v # w =>
                wpc'[v] = wpc[v] /\ wkey'[v] = wkey[v] /\ wentry'[v] = wentry[v]
           /\ UNCHANGED <<now, pending, heap, deadline, returned>>
BY DEF IInv, TypeOK, Leave

\* Consume: whoever shares the entry finds it spent.
LEMMA ConsumeInv ==
    ASSUME IInv, NEW w \in Waiters, Consume(w)
    PROVE  IInv'
<1>1. /\ wpc[w] = "consume" /\ wkey[w] \in Keys /\ wentry[w] \in Entries
      /\ done[wkey[w]] = wentry[w]
      /\ heap[wentry[w]].fired /\ heap[wentry[w]].ch = None
      /\ Leave(w)
  BY DEF IInv, WaitShape, OneReceiver, Consume
<1>2. /\ done'[wkey[w]] = None
      /\ \A k \in Keys : k # wkey[w] => done'[k] = done[k]
  BY <1>1 DEF IInv, TypeOK, Consume
<1>3. TypeOK'
  BY <1>1 DEF IInv, TypeOK, Consume, Leave
<1>4. WaitShape' /\ EntryHasOneKey'
  BY <1>1, <1>2, LeaveEffect DEF IInv, WaitShape, EntryHasOneKey
<1>5. ForgottenIsSpent'
  BY <1>1, <1>2, LeaveEffect DEF IInv, WaitShape, ForgottenIsSpent
<1>6. SentIsResult'
  BY <1>1, LeaveEffect DEF IInv, SentIsResult
<1>7. OneReceiver'
  BY <1>1, <1>2, LeaveEffect DEF IInv, WaitShape, EntryHasOneKey, OneReceiver
<1> QED BY <1>3, <1>4, <1>5, <1>6, <1>7 DEF IInv

\* TimeOut and Abort leave the entry in the map.
LEMMA GiveUpInv ==
    ASSUME IInv, NEW w \in Waiters, Leave(w), UNCHANGED done
    PROVE  IInv'
<1>1. TypeOK'
  BY DEF IInv, TypeOK, Leave
<1>2. WaitShape' /\ EntryHasOneKey' /\ ForgottenIsSpent' /\ SentIsResult'
  BY LeaveEffect DEF IInv, WaitShape, EntryHasOneKey, ForgottenIsSpent, SentIsResult
<1>3. OneReceiver'
  BY LeaveEffect DEF IInv, OneReceiver
<1> QED BY <1>1, <1>2, <1>3 DEF IInv

\* Every step preserves the invariant.
LEMMA NextInv == IInv /\ [Next]_vars => IInv'
<1> SUFFICES ASSUME IInv, [Next]_vars PROVE IInv'
  OBVIOUS
<1>1. CASE UNCHANGED vars
  BY <1>1, PendingInv DEF vars, IInv, TypeOK
<1>2. ASSUME NEW k \in Keys, NEW m \in Metas, NEW ttl \in TTLs, Create(k, m, ttl)
      PROVE  IInv'
  BY <1>2, PendingInv DEF IInv, TypeOK, Create
<1>3. ASSUME NEW k \in Keys, Get(k) \/ Pop(k)
      PROVE  IInv'
  BY <1>3, PendingInv DEF IInv, TypeOK, Get, Pop
<1>4. CASE Tick
  BY <1>4, PendingInv DEF IInv, TypeOK, Tick
<1>5. ASSUME NEW w \in Waiters, TimeOut(w) \/ Abort(w)
      PROVE  IInv'
  BY <1>5, GiveUpInv DEF TimeOut, Abort
<1> QED
  BY <1>1, <1>2, <1>3, <1>4, <1>5, SetResultInv, StartWaitInv, ReceiveInv, ConsumeInv
  DEF Next

\* The invariant holds throughout.
LEMMA InvHolds == Spec => []IInv
BY InitInv, NextInv, PTL DEF Spec

(***************************************************************************)
(* Theorems.                                                               *)
(***************************************************************************)

\* Every variable keeps its type.
THEOREM TypeCorrect == Spec => []TypeOK
<1>1. IInv => TypeOK
  BY DEF IInv
<1> QED BY <1>1, InvHolds, PTL

\* The send of SetResult never blocks while it holds the mutex.
THEOREM NoBlockedSend == Spec => []SendNeverBlocks
<1>1. IInv => SendNeverBlocks
  BY DEF IInv, SentIsResult, SendNeverBlocks
<1> QED BY <1>1, InvHolds, PTL

\* The delete by key in WaitForResult, which runs in a critical section of its own,
\* never removes an entry other than the one the result came from.
THEOREM OwnEntryConsumed == Spec => []ConsumesOwnEntry
<1>1. IInv => ConsumesOwnEntry
  BY DEF IInv, OneReceiver, ConsumesOwnEntry
<1> QED BY <1>1, InvHolds, PTL

\* No result that was sent and not received is in an entry the map has forgotten.
THEOREM ResultReachable == Spec => []SentResultIsReachable
<1>1. IInv => SentResultIsReachable
  <2> SUFFICES ASSUME IInv, NEW e \in Entries, heap[e].ch # None, ~Unreachable(e)
               PROVE  \E k \in Keys : done[k] = e
    BY DEF SentResultIsReachable
  <2>1. CASE \E k \in Keys : done[k] = e
    BY <2>1
  <2>2. ASSUME NEW w \in Waiters, wentry[w] = e
        PROVE  wkey[w] \in Keys /\ done[wkey[w]] = e
    BY <2>2 DEF IInv, WaitShape, ForgottenIsSpent
  <2> QED BY <2>1, <2>2 DEF Unreachable
<1> QED BY <1>1, InvHolds, PTL

\* A waiter whose entry has not fired blocks on the entry of the map.
THEOREM WaiterRegistered == Spec => []UnfiredWaiterIsRegistered
<1>1. IInv => UnfiredWaiterIsRegistered
  BY DEF IInv, ForgottenIsSpent, UnfiredWaiterIsRegistered
<1> QED BY <1>1, InvHolds, PTL

(***************************************************************************)
(* The refinement: what a step of the memory backend is in the contract.   *)
(***************************************************************************)

\* The results of the contract after a step that works on the entry of k.
LEMMA RegisterDoneBar ==
    ASSUME IInv, NEW k \in Keys, NEW e \in Entries, LookupEntry(k, e),
           NEW d \in DoneObject,
           done' = [done EXCEPT ![k] = e], heap' = [heap EXCEPT ![e] = d]
    PROVE  DoneBar' = [DoneBar EXCEPT ![k] =
               IF d.fired THEN [res |-> d.result, expires |-> d.expires] ELSE None]
<1>1. done \in [Keys -> Entries \cup {None}] /\ heap \in [Entries -> DoneObject] /\ e # None
  BY DEF IInv, TypeOK
<1>2. done'[k] = e /\ heap'[e] = d
  BY <1>1
<1>3. \A j \in Keys : j # k => done'[j] = done[j] /\ done[j] # e
  BY <1>1 DEF IInv, EntryHasOneKey, LookupEntry, Unreachable
<1>4. \A j \in Keys : j # k /\ done[j] # None => heap'[done[j]] = heap[done[j]]
  BY <1>1, <1>3
<1> DEFINE b == IF d.fired THEN [res |-> d.result, expires |-> d.expires] ELSE None
<1>5. DoneBar'[k] = b
  BY <1>1, <1>2 DEF DoneBar
<1>6. \A j \in Keys : j # k => DoneBar'[j] = DoneBar[j]
  BY <1>1, <1>3, <1>4 DEF DoneBar
<1> HIDE DEF b
<1>7. DoneBar' = [j \in Keys |-> DoneBar'[j]] /\ DoneBar = [j \in Keys |-> DoneBar[j]]
  BY DEF DoneBar
<1>8. DoneBar' = [DoneBar EXCEPT ![k] = b]
  BY <1>5, <1>6, <1>7
<1> QED BY <1>8 DEF b

\* A goroutine that leaves WaitForResult stops waiting in the contract.
LEMMA LeaveBars ==
    ASSUME IInv, NEW w \in Waiters, wpc[w] # "idle", Leave(w)
    PROVE  /\ WaitingBar[w] = [key |-> wkey[w], deadline |-> deadline[w]]
           /\ WaitingBar[w] # None
           /\ WaitingBar' = [WaitingBar EXCEPT ![w] = None]
           /\ SignalBar' = [SignalBar EXCEPT ![w] = returned[w]]
<1>1. WaitingBar[w] = [key |-> wkey[w], deadline |-> deadline[w]]
  BY DEF WaitingBar
<1>2. WaitingBar[w] # None
  BY <1>1 DEF IInv, TypeOK, WaitShape
<1>3. WaitingBar' = [WaitingBar EXCEPT ![w] = None]
  BY LeaveEffect DEF WaitingBar
<1>4. SignalBar' = [SignalBar EXCEPT ![w] = returned[w]]
  BY LeaveEffect DEF SignalBar
<1> QED BY <1>1, <1>2, <1>3, <1>4

\* The pending map and the clock do not show in the rest of the contract's state.
LEMMA BarsStay ==
    ASSUME UNCHANGED <<done, heap, waitVars>>
    PROVE  UNCHANGED <<DoneBar, WaitingBar, SignalBar>>
BY DEF DoneBar, WaitingBar, SignalBar

\* SetResult is the contract's: it records the first result and keeps it.
LEMMA SetResultSimulation ==
    ASSUME IInv, NEW k \in Keys, NEW r \in Results, NEW ttl \in TTLs, SetResult(k, r, ttl)
    PROVE  Contract!SetResult(k, r, ttl)
<1>1. PICK e \in Entries :
        /\ LookupEntry(k, e)
        /\ done' = [done EXCEPT ![k] = e]
        /\ heap' = [heap EXCEPT ![e] = Fire(EntryOf(k, e), r, ttl)]
        /\ UNCHANGED <<now, pending, waitVars>>
  BY DEF SetResult
<1> DEFINE d == Fire(EntryOf(k, e), r, ttl)
<1>2. /\ d \in DoneObject /\ d.fired
      /\ EntryOf(k, e).fired => d = EntryOf(k, e)
      /\ ~EntryOf(k, e).fired => d.result = r /\ d.expires = now + ttl
  <2>1. EntryOf(k, e) \in DoneObject /\ now \in Nat
    BY <1>1, EntryTyping DEF IInv, TypeOK
  <2> HIDE DEF DoneObject
  <2> QED BY <2>1, FireTyping
<1>3. DoneBar' = [DoneBar EXCEPT ![k] = [res |-> d.result, expires |-> d.expires]]
  BY <1>1, <1>2, RegisterDoneBar
<1>4. UNCHANGED <<now, pending, WaitingBar, SignalBar>>
  BY <1>1 DEF WaitingBar, SignalBar
<1>5. CASE ~EntryOf(k, e).fired
  BY <1>2, <1>3, <1>4, <1>5 DEF Contract!SetResult
<1>6. CASE EntryOf(k, e).fired
  <2>1. done[k] = e /\ d = heap[e] /\ heap[e].fired
    BY <1>1, <1>2, <1>6, EntryTyping DEF IInv, Blank
  <2>2. DoneBar[k] = [res |-> d.result, expires |-> d.expires]
    BY <2>1 DEF DoneBar
  <2>3. d.result \in Results /\ d.expires \in Nat
    BY <1>2, <2>1 DEF IInv, SentIsResult
  <2>4. DoneBar[k] # None
    BY <2>2, <2>3
  <2>5. DoneBar' = DoneBar
    <3>1. DoneBar = [j \in Keys |-> DoneBar[j]]
      BY DEF DoneBar
    <3> QED BY <3>1, <1>3, <2>2
  <2> QED BY <1>4, <2>4, <2>5 DEF Contract!SetResult
<1> QED BY <1>5, <1>6

\* The start of WaitForResult blocks the waiter and changes no result.
LEMMA StartWaitSimulation ==
    ASSUME IInv, NEW w \in Waiters, NEW k \in Keys, NEW t \in Timeouts, StartWait(w, k, t)
    PROVE  Contract!StartWait(w, k, t)
<1>1. PICK e \in Entries :
        /\ LookupEntry(k, e)
        /\ done' = [done EXCEPT ![k] = e]
        /\ heap' = [heap EXCEPT ![e] = EntryOf(k, e)]
  BY DEF StartWait
<1> DEFINE d == EntryOf(k, e)
<1>2. d \in DoneObject
  BY <1>1, EntryTyping DEF IInv
<1>3. DoneBar' = [DoneBar EXCEPT ![k] =
          IF d.fired THEN [res |-> d.result, expires |-> d.expires] ELSE None]
  BY <1>1, <1>2, RegisterDoneBar
<1>4. DoneBar[k] = IF d.fired THEN [res |-> d.result, expires |-> d.expires] ELSE None
  BY <1>1, EntryTyping DEF IInv, DoneBar, Blank
<1>5. DoneBar = [j \in Keys |-> DoneBar[j]]
  BY DEF DoneBar
<1> HIDE DEF d
<1>6. DoneBar' = DoneBar
  BY <1>3, <1>4, <1>5
<1>7. /\ WaitingBar[w] = None
      /\ WaitingBar' = [WaitingBar EXCEPT ![w] = [key |-> k, deadline |-> now + t]]
      /\ SignalBar' = [SignalBar EXCEPT ![w] = None]
      /\ UNCHANGED <<now, pending>>
  BY DEF StartWait, IInv, TypeOK, WaitingBar, SignalBar
<1> QED BY <1>6, <1>7 DEF Contract!StartWait

\* The receive does not show; the delete that follows is where the result is
\* delivered.
LEMMA ReceiveSimulation ==
    ASSUME IInv, NEW w \in Waiters, Receive(w)
    PROVE  UNCHANGED Contract!vars
<1>1. /\ wentry[w] \in Entries /\ wpc[w] = "select" /\ returned[w] = None
      /\ UNCHANGED <<now, pending, done, wkey, deadline>>
  BY DEF IInv, WaitShape, Receive
<1>2. \A f \in Entries :
        /\ heap'[f].fired = heap[f].fired /\ heap'[f].result = heap[f].result
        /\ heap'[f].expires = heap[f].expires
  BY <1>1 DEF IInv, TypeOK, Receive
<1>3. DoneBar' = DoneBar
  BY <1>1, <1>2 DEF IInv, TypeOK, DoneBar
<1>4. WaitingBar' = WaitingBar
  BY <1>1 DEF IInv, TypeOK, WaitingBar, Receive
<1>5. SignalBar' = SignalBar
  BY <1>1 DEF IInv, TypeOK, SignalBar, Receive
<1> QED BY <1>1, <1>3, <1>4, <1>5 DEF Contract!vars

\* Consume delivers.
LEMMA ConsumeSimulation ==
    ASSUME IInv, NEW w \in Waiters, Consume(w)
    PROVE  Contract!Deliver(w)
<1>1. /\ wpc[w] = "consume" /\ wkey[w] \in Keys /\ wentry[w] \in Entries
      /\ done[wkey[w]] = wentry[w] /\ wentry[w] # None
      /\ heap[wentry[w]].fired
      /\ returned[w] = heap[wentry[w]].result
      /\ Leave(w) /\ done' = [done EXCEPT ![wkey[w]] = None]
  BY DEF IInv, WaitShape, OneReceiver, Consume
<1>2. heap[wentry[w]].result \in Results /\ heap[wentry[w]].expires \in Nat
  BY <1>1 DEF IInv, TypeOK, SentIsResult
<1>3. DoneBar[wkey[w]] = [res |-> heap[wentry[w]].result, expires |-> heap[wentry[w]].expires]
  BY <1>1 DEF DoneBar
<1>4. DoneBar[wkey[w]] # None /\ DoneBar[wkey[w]].res = returned[w]
  BY <1>1, <1>2, <1>3
<1>5. DoneBar' = [DoneBar EXCEPT ![wkey[w]] = None]
  BY <1>1, LeaveEffect DEF IInv, TypeOK, DoneBar
<1>6. /\ WaitingBar[w].key = wkey[w] /\ WaitingBar[w] # None
      /\ WaitingBar' = [WaitingBar EXCEPT ![w] = None]
      /\ SignalBar' = [SignalBar EXCEPT ![w] = returned[w]]
      /\ UNCHANGED <<now, pending>>
  <2>1. /\ WaitingBar[w] = [key |-> wkey[w], deadline |-> deadline[w]]
        /\ WaitingBar[w] # None
        /\ WaitingBar' = [WaitingBar EXCEPT ![w] = None]
        /\ SignalBar' = [SignalBar EXCEPT ![w] = returned[w]]
    BY <1>1, LeaveBars
  <2>2. WaitingBar[w].key = wkey[w] /\ UNCHANGED <<now, pending>>
    BY <1>1, <2>1 DEF Leave
  <2> QED BY <2>1, <2>2
<1> QED BY <1>4, <1>5, <1>6 DEF Contract!Deliver

\* Every step of the backend is a step of the contract or changes nothing there.
LEMMA StepSimulation == IInv /\ [Next]_vars => [Contract!Next]_(Contract!vars)
<1> SUFFICES ASSUME IInv, [Next]_vars PROVE [Contract!Next]_(Contract!vars)
  OBVIOUS
<1>1. CASE UNCHANGED vars
  BY <1>1, BarsStay DEF vars, Contract!vars
<1>2. ASSUME NEW k \in Keys, NEW m \in Metas, NEW ttl \in TTLs, Create(k, m, ttl)
      PROVE  Contract!Next
  <2>1. Contract!Create(k, m, ttl)
    BY <1>2, BarsStay DEF Create, Contract!Create
  <2> QED BY <2>1 DEF Contract!Next
<1>3. ASSUME NEW k \in Keys, Get(k)
      PROVE  Contract!Next
  <2>1. ~Contract!Live(k)
    BY <1>3 DEF IInv, TypeOK, Get, Missing, Contract!Live
  <2>2. Contract!Get(k)
    BY <1>3, <2>1, BarsStay DEF Get, Contract!Get
  <2> QED BY <2>2 DEF Contract!Next
<1>4. ASSUME NEW k \in Keys, Pop(k)
      PROVE  Contract!Next
  <2>1. Contract!Pop(k)
    BY <1>4, BarsStay DEF Pop, Contract!Pop
  <2> QED BY <2>1 DEF Contract!Next
<1>5. ASSUME NEW k \in Keys, NEW r \in Results, NEW ttl \in TTLs, SetResult(k, r, ttl)
      PROVE  Contract!Next
  BY <1>5, SetResultSimulation DEF Contract!Next
<1>6. ASSUME NEW w \in Waiters, NEW k \in Keys, NEW t \in Timeouts, StartWait(w, k, t)
      PROVE  Contract!Next
  BY <1>6, StartWaitSimulation DEF Contract!Next
<1>7. ASSUME NEW w \in Waiters, Consume(w)
      PROVE  Contract!Next
  BY <1>7, ConsumeSimulation DEF Contract!Next
<1>8. ASSUME NEW w \in Waiters, TimeOut(w) \/ Abort(w)
      PROVE  Contract!Next
  <2>1. wpc[w] = "select" /\ Leave(w) /\ UNCHANGED <<now, pending, done, heap>>
    BY <1>8 DEF TimeOut, Abort, Leave
  <2>2. DoneBar' = DoneBar
    BY <2>1 DEF DoneBar
  <2>3. /\ WaitingBar[w] # None
        /\ WaitingBar' = [WaitingBar EXCEPT ![w] = None]
        /\ SignalBar' = [SignalBar EXCEPT ![w] = returned[w]]
    BY <2>1, LeaveBars
  <2>4. SignalBar' = SignalBar
    BY <2>1, <2>3 DEF SignalBar
  <2>5. Contract!Abort(w)
    BY <2>1, <2>2, <2>3, <2>4 DEF Contract!Abort
  <2> QED BY <2>5 DEF Contract!Next
<1>9. CASE Tick
  BY <1>9, BarsStay DEF Tick, Contract!Next, Contract!Tick
<1> QED
  BY <1>1, <1>2, <1>3, <1>4, <1>5, <1>6, <1>7, <1>8, <1>9, ReceiveSimulation DEF Next

\* Every behaviour of the memory backend, in which a wait takes three critical
\* sections, is a behaviour of the PendingStore contract, in which it takes one step.
THEOREM Refinement == Spec => ImplementsContract
<1>1. Init => Contract!Init
  BY DEF Init, Contract!Init, DoneBar, WaitingBar, SignalBar
<1> QED
  BY <1>1, StepSimulation, InvHolds, PTL DEF Spec, ImplementsContract, Contract!Spec
=============================================================================
