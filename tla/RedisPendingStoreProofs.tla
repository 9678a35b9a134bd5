---------------------- MODULE RedisPendingStoreProofs ----------------------

(***************************************************************************)
(* Proofs about RedisPendingStore, for any number of keys and waiters and  *)
(* any bound on the clock.                                                 *)
(***************************************************************************)
EXTENDS RedisPendingStore, TLAPS

(***************************************************************************)
(* The inductive invariant.                                                *)
(***************************************************************************)

\* A goroutine inside WaitForResult has a key and nothing to return yet.
WaitShape ==
    \A w \in Waiters : wpc[w] # "idle" => wkey[w] \in Keys /\ returned[w] = None

\* A value that is still there has not been handed out.
PresentIsUnused ==
    \A k \in Keys :
        /\ pending[k] # None => uses[<<"pending", k>>] = 0
        /\ done[k] # None => uses[<<"done", k>>] = 0

IInv == TypeOK /\ WaitShape /\ PresentIsUnused /\ HandedOutOnce

USE RedisAssumption
USE DEF waitVars, Prefixes

(***************************************************************************)
(* Lemmas about the helpers.                                               *)
(***************************************************************************)

\* A result is kept for a positive time, whatever the ttl argument.
LEMMA ResultExpirationNat ==
    ASSUME TypeOK, NEW ttl \in ResultTTLs
    PROVE  /\ ResultExpiration(ttl) \in Nat
           /\ \E t \in ResultTTLs \cup {DefaultTTL} : ResultExpiration(ttl) = now + t
<1> DEFINE t == IF ttl <= 0 THEN DefaultTTL ELSE ttl
<1>1. t \in ResultTTLs \cup {DefaultTTL} /\ t > 0 /\ t \in Nat
  OBVIOUS
<1>2. ResultExpiration(ttl) = now + t
  BY <1>1 DEF ResultExpiration, Expiration
<1> HIDE DEF t
<1> QED BY <1>1, <1>2 DEF TypeOK

\* What a visible value is.
LEMMA VisibleIsThere ==
    ASSUME NEW v, Visible(v)
    PROVE  v # None
BY DEF Visible

\* The initial state.
LEMMA InitInv == Init => IInv
BY DEF Init, IInv, TypeOK, WaitShape, PresentIsUnused, HandedOutOnce

(***************************************************************************)
(* One lemma per operation.                                                *)
(***************************************************************************)

\* Create.
LEMMA CreateInv ==
    ASSUME IInv, NEW k \in Keys, NEW m \in Metas, NEW ttl \in CreateTTLs, Create(k, m, ttl)
    PROVE  IInv'
<1>1. TypeOK'
  BY DEF IInv, TypeOK, Create, Expiration
<1>2. WaitShape'
  BY DEF IInv, WaitShape, Create
<1>3. PresentIsUnused' /\ HandedOutOnce'
  BY DEF IInv, TypeOK, PresentIsUnused, HandedOutOnce, Create
<1> QED BY <1>1, <1>2, <1>3 DEF IInv

\* Pop.
LEMMA PopInv ==
    ASSUME IInv, NEW k \in Keys, Pop(k)
    PROVE  IInv'
<1>1. TypeOK'
  BY DEF IInv, TypeOK, Pop
<1>2. WaitShape'
  BY DEF IInv, WaitShape, Pop
<1>3. Visible(pending[k]) => uses[<<"pending", k>>] = 0
  BY VisibleIsThere DEF IInv, PresentIsUnused
<1>4. PresentIsUnused' /\ HandedOutOnce'
  BY <1>3 DEF IInv, TypeOK, PresentIsUnused, HandedOutOnce, Pop
<1> QED BY <1>1, <1>2, <1>4 DEF IInv

\* SetResult.
LEMMA SetResultInv ==
    ASSUME IInv, NEW k \in Keys, NEW r \in Results, NEW ttl \in ResultTTLs,
           SetResult(k, r, ttl)
    PROVE  IInv'
<1>1. TypeOK'
  BY ResultExpirationNat DEF IInv, TypeOK, SetResult
<1>2. WaitShape'
  BY DEF IInv, WaitShape, SetResult
<1>3. PresentIsUnused' /\ HandedOutOnce'
  BY DEF IInv, TypeOK, PresentIsUnused, HandedOutOnce, SetResult
<1> QED BY <1>1, <1>2, <1>3 DEF IInv

\* The start of WaitForResult.
LEMMA StartWaitInv ==
    ASSUME IInv, NEW w \in Waiters, NEW k \in Keys, NEW t \in Timeouts, StartWait(w, k, t)
    PROVE  IInv'
<1>1. TypeOK'
  BY DEF IInv, TypeOK, StartWait, WaitGoto
<1>2. WaitShape'
  BY DEF IInv, TypeOK, WaitShape, StartWait, WaitGoto
<1>3. PresentIsUnused' /\ HandedOutOnce'
  BY DEF IInv, PresentIsUnused, HandedOutOnce, StartWait
<1> QED BY <1>1, <1>2, <1>3 DEF IInv

\* The steps of WaitForResult that only move the program counter.
LEMMA MoveInv ==
    ASSUME IInv, NEW w \in Waiters,
           Exists(w) \/ Wake(w) \/ (CheckDeadline(w) /\ ~(now > deadline[w]))
    PROVE  IInv'
<1>1. /\ wpc[w] # "idle"
      /\ \E p \in {"pop", "check", "sleep", "exists"} : wpc' = [wpc EXCEPT ![w] = p]
      /\ UNCHANGED <<now, pending, done, wkey, deadline, returned, uses>>
  BY DEF Exists, Wake, CheckDeadline, WaitGoto
<1>2. TypeOK'
  BY <1>1 DEF IInv, TypeOK
<1>3. WaitShape'
  BY <1>1 DEF IInv, TypeOK, WaitShape
<1>4. PresentIsUnused' /\ HandedOutOnce'
  BY <1>1 DEF IInv, PresentIsUnused, HandedOutOnce
<1> QED BY <1>2, <1>3, <1>4 DEF IInv

\* The ends of WaitForResult without a result, which may delete one.
LEMMA EndInv ==
    ASSUME IInv, NEW w \in Waiters, wpc[w] # "idle", Return(w, None),
           UNCHANGED done \/ done' = [done EXCEPT ![wkey[w]] = None],
           UNCHANGED <<now, pending, uses>>
    PROVE  IInv'
<1>1. wkey[w] \in Keys
  BY DEF IInv, WaitShape
<1>2. TypeOK'
  BY <1>1 DEF IInv, TypeOK, Return, WaitGoto
<1>3. WaitShape'
  BY DEF IInv, TypeOK, WaitShape, Return, WaitGoto
<1>4. PresentIsUnused' /\ HandedOutOnce'
  BY <1>1 DEF IInv, TypeOK, PresentIsUnused, HandedOutOnce
<1> QED BY <1>2, <1>3, <1>4 DEF IInv

\* The end of WaitForResult with the result.
LEMMA PopResultInv ==
    ASSUME IInv, NEW w \in Waiters, PopResult(w)
    PROVE  IInv'
<1>1. wkey[w] \in Keys
  BY DEF IInv, WaitShape, PopResult
<1>2. done[wkey[w]] # None /\ uses[<<"done", wkey[w]>>] = 0
  BY <1>1, VisibleIsThere DEF IInv, PresentIsUnused, PopResult
<1>3. TypeOK'
  BY <1>1, <1>2 DEF IInv, TypeOK, PopResult, Return, WaitGoto
<1>4. WaitShape'
  BY DEF IInv, TypeOK, WaitShape, PopResult, Return, WaitGoto
<1>5. PresentIsUnused' /\ HandedOutOnce'
  BY <1>1, <1>2 DEF IInv, TypeOK, PresentIsUnused, HandedOutOnce, PopResult
<1> QED BY <1>3, <1>4, <1>5 DEF IInv

\* The clock.
LEMMA TickInv == ASSUME IInv, Tick PROVE IInv'
BY DEF IInv, TypeOK, WaitShape, PresentIsUnused, HandedOutOnce, Tick

\* A step of WaitForResult ends the call without a result, ends it with one, or
\* moves on.
LEMMA StepCases ==
    ASSUME NEW w \in Waiters, Step(w)
    PROVE  \/ Exists(w) \/ Wake(w) \/ (CheckDeadline(w) /\ ~(now > deadline[w]))
           \/ PopResult(w)
           \/ /\ wpc[w] # "idle" /\ Return(w, None)
              /\ UNCHANGED done \/ done' = [done EXCEPT ![wkey[w]] = None]
              /\ UNCHANGED <<now, pending, uses>>
BY DEF Step, PopNothing, PopError, CheckDeadline

\* Every step preserves the invariant.
LEMMA NextInv == IInv /\ [Next]_vars => IInv'
<1> SUFFICES ASSUME IInv, [Next]_vars PROVE IInv'
  OBVIOUS
<1>1. CASE UNCHANGED vars
  BY <1>1 DEF vars, IInv, TypeOK, WaitShape, PresentIsUnused, HandedOutOnce
<1>2. CASE \E w \in Waiters : Step(w)
  BY <1>2, StepCases, MoveInv, PopResultInv, EndInv
<1>3. CASE \E w \in Waiters : Abort(w)
  BY <1>3, EndInv DEF Abort
<1> QED
  BY <1>1, <1>2, <1>3, CreateInv, PopInv, SetResultInv, StartWaitInv, TickInv DEF Next

\* The invariant holds throughout.
LEMMA InvHolds == Spec => []IInv
BY InitInv, NextInv, PTL DEF Spec

(***************************************************************************)
(* Theorems.                                                               *)
(***************************************************************************)

\* Every variable keeps its type; every result in Redis has a time to live.
THEOREM TypeCorrect == Spec => []TypeOK
<1>1. IInv => TypeOK
  BY DEF IInv
<1> QED BY <1>1, InvHolds, PTL

\* No entry is popped twice and no result is returned by two waits, although the
\* waits look with EXISTS first and consume in a later transaction.
THEOREM AtMostOnce == Spec => []HandedOutOnce
<1>1. IInv => HandedOutOnce
  BY DEF IInv
<1> QED BY <1>1, InvHolds, PTL

(***************************************************************************)
(* The refinement: what a step of the Redis backend is in the contract.    *)
(***************************************************************************)

\* The pending map of the contract has no entries that never expire.
PositiveTTLs == \A ttl \in CreateTTLs : ttl > 0

\* The blocked waiters of the contract.
Blocked ==
    [w \in Waiters |->
        IF wpc[w] = "idle" THEN None ELSE [key |-> wkey[w], deadline |-> deadline[w]]]

\* A wait that goes on stays the same wait in the contract.
LEMMA MoveStutters ==
    ASSUME IInv, NEW w \in Waiters,
           Exists(w) \/ Wake(w) \/ (CheckDeadline(w) /\ ~(now > deadline[w]))
    PROVE  UNCHANGED Contract!vars
<1>1. /\ wpc[w] # "idle"
      /\ \E p \in {"pop", "check", "sleep", "exists"} : wpc' = [wpc EXCEPT ![w] = p]
      /\ UNCHANGED <<now, pending, done, wkey, deadline, returned, uses>>
  BY DEF Exists, Wake, CheckDeadline, WaitGoto
<1>2. Blocked' = Blocked
  BY <1>1 DEF IInv, TypeOK, Blocked
<1> QED BY <1>1, <1>2 DEF Contract!vars, Blocked

\* The end of a call unblocks its waiter and no other.
LEMMA ReturnUnblocks ==
    ASSUME IInv, NEW w \in Waiters, NEW r, wpc[w] # "idle", Return(w, r)
    PROVE  /\ Blocked[w] = [key |-> wkey[w], deadline |-> deadline[w]]
           /\ Blocked[w] # None
           /\ Blocked' = [Blocked EXCEPT ![w] = None]
           /\ r = None => returned' = returned
<1>1. Blocked[w] = [key |-> wkey[w], deadline |-> deadline[w]]
  BY DEF Blocked
<1>2. Blocked[w] # None
  BY <1>1 DEF IInv, TypeOK, WaitShape
<1>3. Blocked' = [Blocked EXCEPT ![w] = None]
  BY DEF IInv, TypeOK, Blocked, Return, WaitGoto
<1>4. r = None => returned' = returned
  BY DEF IInv, TypeOK, WaitShape, Return
<1> QED BY <1>1, <1>2, <1>3, <1>4

\* Every step of the backend is a step of the contract or changes nothing there.
LEMMA StepSimulation ==
    ASSUME PositiveTTLs
    PROVE  IInv /\ [Next]_vars => [Contract!Next]_(Contract!vars)
<1> SUFFICES ASSUME IInv, [Next]_vars PROVE [Contract!Next]_(Contract!vars)
  OBVIOUS
<1> USE DEF Blocked
<1>1. CASE UNCHANGED vars
  BY <1>1 DEF vars, Contract!vars
<1>2. ASSUME NEW k \in Keys, NEW m \in Metas, NEW ttl \in CreateTTLs, Create(k, m, ttl)
      PROVE  Contract!Next
  <2>1. Contract!Create(k, m, ttl)
    BY <1>2 DEF PositiveTTLs, Create, Expiration, Contract!Create
  <2> QED BY <2>1 DEF Contract!Next
<1>3. ASSUME NEW k \in Keys, Pop(k)
      PROVE  Contract!Next
  <2>1. Contract!Pop(k)
    BY <1>3 DEF Pop, Contract!Pop
  <2> QED BY <2>1 DEF Contract!Next
<1>4. ASSUME NEW k \in Keys, NEW r \in Results, NEW ttl \in ResultTTLs, SetResult(k, r, ttl)
      PROVE  Contract!Next
  <2>1. PICK t \in ResultTTLs \cup {DefaultTTL} : ResultExpiration(ttl) = now + t
    BY ResultExpirationNat DEF IInv
  <2>2. Contract!SetResult(k, r, t)
    BY <1>4, <2>1 DEF SetResult, Contract!SetResult
  <2> QED BY <2>2 DEF Contract!Next
<1>5. ASSUME NEW w \in Waiters, NEW k \in Keys, NEW t \in Timeouts, StartWait(w, k, t)
      PROVE  Contract!Next
  <2>1. Contract!StartWait(w, k, t)
    BY <1>5 DEF IInv, TypeOK, StartWait, WaitGoto, Contract!StartWait
  <2> QED BY <2>1 DEF Contract!Next
<1>6. ASSUME NEW w \in Waiters, PopResult(w)
      PROVE  Contract!Next
  <2>1. wpc[w] # "idle" /\ wkey[w] \in Keys /\ done[wkey[w]] # None
    BY <1>6, VisibleIsThere DEF PopResult, IInv, WaitShape
  <2>2. /\ Blocked[w] = [key |-> wkey[w], deadline |-> deadline[w]]
        /\ Blocked[w] # None
        /\ Blocked' = [Blocked EXCEPT ![w] = None]
    BY <1>6, <2>1, ReturnUnblocks DEF PopResult
  <2>3. Contract!Deliver(w)
    BY <1>6, <2>1, <2>2 DEF PopResult, Return, Contract!Deliver
  <2> QED BY <2>3 DEF Contract!Next
<1>7. ASSUME NEW w \in Waiters, wpc[w] # "idle", Return(w, None),
             UNCHANGED done \/ done' = [done EXCEPT ![wkey[w]] = None],
             UNCHANGED <<now, pending, uses>>
      PROVE  Contract!Next
  <2>1. /\ Blocked[w] = [key |-> wkey[w], deadline |-> deadline[w]]
        /\ Blocked[w] # None
        /\ Blocked' = [Blocked EXCEPT ![w] = None]
        /\ returned' = returned
    BY <1>7, ReturnUnblocks
  <2>2. Contract!Abort(w)
    BY <1>7, <2>1 DEF Contract!Abort
  <2> QED BY <2>2 DEF Contract!Next
<1>8. CASE Tick
  BY <1>8 DEF Tick, Contract!Next, Contract!Tick
<1>9. CASE \E w \in Waiters : Step(w)
  BY <1>9, <1>6, <1>7, StepCases, MoveStutters
<1>10. CASE \E w \in Waiters : Abort(w)
  BY <1>10, <1>7 DEF Abort
<1> QED
  BY <1>1, <1>2, <1>3, <1>4, <1>5, <1>8, <1>9, <1>10 DEF Next

\* For positive arguments of Create, every behaviour of the Redis backend is a
\* behaviour of the PendingStore contract that the providers rely on: lost replies,
\* lapsed and stolen results, and aborted waits included.
THEOREM Refinement == PositiveTTLs => (Spec => ImplementsContract)
<1> SUFFICES ASSUME PositiveTTLs PROVE Spec => ImplementsContract
  OBVIOUS
<1>1. Init => Contract!Init
  BY DEF Init, Contract!Init
<1>2. IInv /\ [Next]_vars => [Contract!Next]_(Contract!vars)
  BY StepSimulation
<1> QED BY <1>1, <1>2, InvHolds, PTL DEF Spec, ImplementsContract, Contract!Spec
=============================================================================
