--------------------- MODULE CredentialsProviderProofs ---------------------

(***************************************************************************)
(* Proofs about CredentialsProvider, for any number of calls, requests,    *)
(* users and links.                                                        *)
(***************************************************************************)
EXTENDS CredentialsProvider, TLAPS

(***************************************************************************)
(* The inductive invariant: what holds of the links, the requests, the     *)
(* stored credentials and of each call.                                    *)
(***************************************************************************)

\* Credentials can only be deleted, and that is on record.
HasCreds(s) == creds[s] # None \/ s \in erased

\* A link that is pending belongs to its subject, has not been popped or used, and
\* lives no longer than a wait that begins now.  One that a decline took out of the store
\* stays out and nobody has it.  A recorded result means its form was stored.
LinkInv ==
    \A k \in Links :
        /\ pending[k] # None =>
            /\ issued[k] = pending[k].meta /\ k \notin stored
            /\ pending[k].expires <= now + TokenTimeout
            /\ \A h \in Requests : rsub[h] # None => rlink[h] # k
        /\ k \in withdrawn =>
            /\ issued[k] # None /\ pending[k] = None /\ k \notin stored
            /\ \A h \in Requests : rsub[h] # None => rlink[h] # k
        /\ done[k] # None => k \in stored
        /\ k \in stored => issued[k] \in Subs /\ HasCreds(issued[k])

\* A request has a subject exactly when it popped a link, which no other request has.
HookInv ==
    \A h \in Requests :
        /\ rpc[h] = "idle" => rsub[h] = None
        /\ rpc[h] \in Serving => rsub[h] # None
        /\ rsub[h] # None => rlink[h] \in Links /\ issued[rlink[h]] = rsub[h]
        /\ rpc[h] \in {"form", "store"} => rlink[h] \notin stored
        /\ rpc[h] = "signal" => rlink[h] \in stored
        /\ \A g \in Requests :
            rsub[h] # None /\ rsub[g] # None /\ rlink[h] = rlink[g] => g = h

CredsInv ==
    \A s \in Subs : creds[s] # None => issued[creds[s]] = s /\ creds[s] \in stored

\* What a call has in its hands at each point of its program, ...
CallShape(c) ==
    /\ pc[c] \in Running => user[c] \in Subs
    /\ pc[c] = "idle" => link[c] = None /\ got[c] = None /\ signal[c] = None
    /\ pc[c] \in {"failfast", "create"} => link[c] = None
    /\ pc[c] \in {"elicit", "declining", "wait", "notprovided"} => link[c] \in Links
    /\ pc[c] = "wait" <=> waiting[c] # None
    /\ waiting[c] # None => waiting[c].key = link[c]

\* ... whose it is, ...
CallOwnership(c) ==
    /\ link[c] # None => user[c] \in Subs /\ issued[link[c]] = user[c]
    /\ got[c] # None => user[c] \in Subs /\ issued[got[c]] = user[c] /\ got[c] \in stored
    /\ signal[c] # None => user[c] \in Subs /\ HasCreds(user[c])

\* ... and what has become of its link.
CallLink(c) ==
    /\ pc[c] = "get" /\ link[c] # None => link[c] \in stored
    /\ pc[c] = "wait" /\ pending[link[c]] # None =>
        pending[link[c]].expires <= waiting[c].deadline
    /\ pc[c] = "notprovided" /\ pending[link[c]] # None => pending[link[c]].expires <= now

CallInv(c) == CallShape(c) /\ CallOwnership(c) /\ CallLink(c)

IInv == TypeOK /\ LinkInv /\ HookInv /\ CredsInv /\ \A c \in Calls : CallInv(c)

USE CredentialsAssumption, NoneAssumption
USE DEF storeVars, callVars, hookVars, history, Running, Ended, Serving, PageShown,
    Pending!PendingEntry, Pending!DoneEntry, Pending!Wait

(***************************************************************************)
(* Lemmas.                                                                 *)
(***************************************************************************)

\* A link lives at most as long as the wait for its form: whole seconds round down.
LEMMA LinkTTLBound == LinkTTL \in Nat /\ LinkTTL <= TokenTimeout
<1>1. ASSUME NEW a \in Nat, NEW b \in Nat \ {0}
      PROVE  (a \div b) * b \in Nat /\ (a \div b) * b <= a
  <2>1. a \div b \in Nat /\ a % b \in Nat
    OBVIOUS
  <2>2. a = b * (a \div b) + (a % b)
    OBVIOUS
  <2>3. b * (a \div b) \in Nat /\ b * (a \div b) = (a \div b) * b
    BY <2>1
  <2> QED BY <2>1, <2>2, <2>3
<1> QED BY <1>1 DEF LinkTTL

\* The initial state.
LEMMA InitInv == Init => IInv
<1> SUFFICES ASSUME Init PROVE IInv
  OBVIOUS
<1>1. TypeOK
  BY DEF Init, Pending!Init, TypeOK, Pending!TypeOK
<1>2. LinkInv /\ HookInv /\ CredsInv
  BY DEF Init, Pending!Init, LinkInv, HookInv, CredsInv
<1>3. ASSUME NEW c \in Calls PROVE CallInv(c)
  BY DEF Init, Pending!Init, CallInv, CallShape, CallOwnership, CallLink
<1> QED BY <1>1, <1>2, <1>3 DEF IInv

\* What a step may do to the things a call depends on: links are issued and stored
\* once, pending entries of issued links only go away, credentials are deleted on
\* record, and time goes forward.
Progress ==
    /\ now' \in Nat /\ now <= now'
    /\ \A k \in Links : issued[k] # None => issued'[k] = issued[k] /\ pending'[k] \in {pending[k], None}
    /\ stored \subseteq stored'
    /\ \A s \in Subs : HasCreds(s) => HasCreds(s)'

\* A call that does not move keeps its part of the invariant.
LEMMA CallFrame ==
    ASSUME IInv, Progress, NEW c \in Calls,
           pc'[c] = pc[c], user'[c] = user[c], link'[c] = link[c], got'[c] = got[c],
           waiting'[c] = waiting[c], signal'[c] = signal[c]
    PROVE  CallInv(c)'
<1>1. CallShape(c)'
  BY DEF IInv, CallInv, CallShape
<1>2. CallOwnership(c)'
  BY DEF IInv, TypeOK, CallInv, CallOwnership, Progress
<1>3. CallLink(c)'
  <2>1. link[c] \in Links => issued[link[c]] # None
    BY DEF IInv, TypeOK, CallInv, CallOwnership
  <2>2. CallInv(c) /\ now \in Nat /\ pending \in [Links -> Pending!PendingEntry \cup {None}]
    BY DEF IInv, TypeOK, Pending!TypeOK
  <2> QED BY <2>1, <2>2 DEF CallInv, CallShape, CallLink, Progress
<1> QED BY <1>1, <1>2, <1>3 DEF CallInv

\* A step that leaves the stores, the requests and the history alone is progress.
LEMMA Quiet ==
    ASSUME IInv, UNCHANGED <<now, pending, creds, history>>
    PROVE  Progress
BY DEF IInv, TypeOK, Pending!TypeOK, Progress, HasCreds

\* What follows for the other calls when c moves.
OnlyCall(c) ==
    \A d \in Calls : d # c =>
        /\ pc'[d] = pc[d] /\ user'[d] = user[d] /\ link'[d] = link[d] /\ got'[d] = got[d]
        /\ waiting'[d] = waiting[d] /\ signal'[d] = signal[d]

\* The links, requests and credentials do not depend on the calls.
LEMMA BrowserFrame ==
    ASSUME IInv, UNCHANGED <<now, pending, creds, hookVars, history>>,
           \A k \in Links : done'[k] \in {done[k], None}
    PROVE  LinkInv' /\ HookInv' /\ CredsInv'
<1>1. LinkInv'
  BY DEF IInv, LinkInv, HasCreds
<1>2. HookInv'
  BY DEF IInv, HookInv
<1>3. CredsInv'
  BY DEF IInv, CredsInv
<1> QED BY <1>1, <1>2, <1>3

\* A step of a call that issues no link and leaves requests and credentials alone.
LEMMA CallStep ==
    ASSUME IInv, NEW c \in Calls, TypeOK', OnlyCall(c), CallInv(c)',
           UNCHANGED <<now, pending, creds, hookVars, history>>,
           \A k \in Links : done'[k] \in {done[k], None}
    PROVE  IInv'
<1>1. \A d \in Calls : CallInv(d)'
  BY Quiet, CallFrame DEF OnlyCall
<1> QED BY <1>1, BrowserFrame DEF IInv

\* Moving a call.
LEMMA GotoEffect ==
    ASSUME TypeOK, NEW c \in Calls, NEW p \in Running \cup Ended, Goto(c, p)
    PROVE  /\ pc' \in [Calls -> {"idle"} \cup Running \cup Ended]
           /\ pc'[c] = p /\ \A d \in Calls : d # c => pc'[d] = pc[d]
           /\ sessions' \subseteq Links
BY DEF TypeOK, Goto

\* A call that only moves, from one point without a wait to another one.
LEMMA MoveInv ==
    ASSUME IInv, NEW c \in Calls,
           NEW p \in {"error", "nouser", "declining", "declined", "crashed"},
           Goto(c, p), pc[c] # "wait", p = "declining" => pc[c] = "elicit",
           UNCHANGED <<storeVars, creds, user, link, got, hookVars, history>>
    PROVE  IInv'
<1>1. TypeOK' /\ pc'[c] = p /\ OnlyCall(c)
  BY GotoEffect DEF IInv, TypeOK, Pending!TypeOK, OnlyCall
<1>2. CallInv(c)'
  BY <1>1 DEF IInv, CallInv, CallShape, CallOwnership, CallLink, HasCreds
<1> QED BY <1>1, <1>2, CallStep

(***************************************************************************)
(* The steps of a tool call.                                               *)
(***************************************************************************)

\* Begin.
LEMMA BeginInv ==
    ASSUME IInv, NEW c \in Calls, Begin(c)
    PROVE  IInv'
<1>1. CASE Goto(c, "nouser") /\ UNCHANGED user
  BY <1>1, MoveInv DEF Begin
<1>2. CASE \E s \in Subs : user' = [user EXCEPT ![c] = s] /\ Goto(c, "get")
  <2>1. PICK s \in Subs : user' = [user EXCEPT ![c] = s] /\ Goto(c, "get")
    BY <1>2
  <2>2. TypeOK' /\ pc'[c] = "get" /\ user'[c] = s /\ OnlyCall(c)
    BY <2>1, GotoEffect DEF Begin, IInv, TypeOK, Pending!TypeOK, OnlyCall
  <2>3. pc[c] = "idle" /\ link[c] = None /\ got[c] = None /\ signal[c] = None /\ waiting[c] = None
        /\ UNCHANGED <<link, got, signal, waiting>>
    BY DEF Begin, IInv, CallInv, CallShape
  <2>4. CallInv(c)'
    BY <2>2, <2>3 DEF CallInv, CallShape, CallOwnership, CallLink
  <2> QED BY <2>2, <2>4, CallStep DEF Begin
<1> QED BY <1>1, <1>2 DEF Begin

\* ReadCredentials: what is found belongs to the user; after a wait that was
\* signalled the link is used up.
LEMMA ReadCredentialsInv ==
    ASSUME IInv, NEW c \in Calls, ReadCredentials(c)
    PROVE  IInv'
<1>1. CASE Goto(c, "error") /\ UNCHANGED got
  BY <1>1, MoveInv DEF ReadCredentials
<1>2. CASE /\ got' = [got EXCEPT ![c] = creds[user[c]]]
           /\ Goto(c, IF creds[user[c]] = None THEN OnMiss(c) ELSE "served")
  <2>1. PICK p \in {"notprovided", "failfast", "create", "served"} :
          /\ Goto(c, p)
          /\ p = "notprovided" => link[c] # None
          /\ p \in {"failfast", "create"} => link[c] = None
    BY <1>2 DEF OnMiss
  <2>2. /\ user[c] \in Subs /\ pc[c] = "get" /\ CallInv(c)
        /\ UNCHANGED <<storeVars, creds, user, link, hookVars, history>>
    BY DEF IInv, CallInv, CallShape, ReadCredentials
  <2>3. /\ got' \in [Calls -> Links \cup {None}] /\ got'[c] = creds[user[c]]
        /\ \A d \in Calls : d # c => got'[d] = got[d]
    BY <1>2, <2>2 DEF IInv, TypeOK
  <2>4. TypeOK' /\ pc'[c] = p /\ OnlyCall(c)
    BY <2>1, <2>2, <2>3, GotoEffect DEF IInv, TypeOK, Pending!TypeOK, OnlyCall
  <2>5. CallShape(c)'
    BY <2>1, <2>2, <2>4 DEF IInv, TypeOK, CallInv, CallShape
  <2>6. CallOwnership(c)'
    BY <2>2, <2>3 DEF IInv, CredsInv, CallInv, CallOwnership, HasCreds
  <2>7. p = "notprovided" => pending[link[c]] = None
    BY <2>1, <2>2 DEF IInv, TypeOK, CallInv, CallLink, LinkInv
  <2>8. CallLink(c)'
    BY <2>2, <2>4, <2>7 DEF CallLink
  <2> QED BY <2>2, <2>4, <2>5, <2>6, <2>8, CallStep DEF CallInv
<1> QED BY <1>1, <1>2 DEF ReadCredentials

\* A link is issued and its pending entry is created or not: the others see progress.
LEMMA IssueInv ==
    ASSUME IInv, NEW c \in Calls, NEW k \in Links, pc[c] \in {"failfast", "create"},
           Issue(c, k),
           Pending!Create(k, user[c], LinkTTL) \/ UNCHANGED storeVars,
           NEW p \in {"urlrequired", "elicit"}, pc' = [pc EXCEPT ![c] = p],
           sessions' \subseteq Links, UNCHANGED <<creds, user, got, hookVars>>
    PROVE  IInv'
<1>1. /\ user[c] \in Subs /\ issued[k] = None /\ link[c] = None /\ CallInv(c)
      /\ issued' = [issued EXCEPT ![k] = user[c]] /\ issued \in [Links -> Subs \cup {None}]
      /\ UNCHANGED <<now, done, waiting, signal, stored, erased, withdrawn, creds, user, got, hookVars>>
  BY DEF IInv, TypeOK, CallInv, CallShape, Issue, Pending!Create
<1>2. /\ \A j \in Links : j # k => pending'[j] = pending[j] /\ issued'[j] = issued[j]
      /\ issued'[k] = user[c]
      /\ pending'[k] # None => pending'[k] = [meta |-> user[c], expires |-> now + LinkTTL]
      /\ pending' \in [Links -> Pending!PendingEntry \cup {None}]
  <2>1. pending[k] = None
    BY <1>1 DEF IInv, TypeOK, Pending!TypeOK, LinkInv
  <2>2. CASE Pending!Create(k, user[c], LinkTTL)
    BY <1>1, <2>2, LinkTTLBound DEF IInv, TypeOK, Pending!TypeOK, Pending!Create
  <2>3. CASE UNCHANGED storeVars
    BY <1>1, <2>1, <2>3 DEF IInv, TypeOK, Pending!TypeOK
  <2> QED BY <2>2, <2>3
<1>3. /\ pc'[c] = p /\ link'[c] = k /\ link' \in [Calls -> Links \cup {None}]
      /\ \A d \in Calls : d # c => pc'[d] = pc[d] /\ link'[d] = link[d]
      /\ pc' \in [Calls -> {"idle"} \cup Running \cup Ended]
  BY DEF IInv, TypeOK, Issue
<1>4. TypeOK'
  <2>1. Pending!TypeOK'
    BY <1>1, <1>2 DEF IInv, TypeOK, Pending!TypeOK
  <2>2. issued' \in [Links -> Subs \cup {None}]
    BY <1>1
  <2> QED BY <1>1, <1>3, <2>1, <2>2 DEF IInv, TypeOK
<1>5. LinkInv'
  <2>1. \A h \in Requests : rsub[h] # None => rlink[h] # k
    BY <1>1 DEF IInv, HookInv
  <2>2. k \notin stored
    BY <1>1 DEF IInv, LinkInv
  <2>3. TokenTimeout \in Nat /\ now \in Nat
    BY DEF IInv, TypeOK, Pending!TypeOK
  <2> QED BY <1>1, <1>2, <2>1, <2>2, <2>3, LinkTTLBound DEF IInv, LinkInv, HasCreds
<1>6. HookInv'
  BY <1>1, <1>2 DEF IInv, HookInv
<1>7. CredsInv'
  BY <1>1, <1>2 DEF IInv, TypeOK, CredsInv
<1>8. Progress
  BY <1>1, <1>2 DEF IInv, TypeOK, Pending!TypeOK, Progress, HasCreds
<1>9. CallInv(c)'
  <2>1. CallShape(c)'
    BY <1>1, <1>3 DEF CallInv, CallShape
  <2>2. CallOwnership(c)'
    BY <1>1, <1>2, <1>3 DEF IInv, TypeOK, CallInv, CallOwnership, HasCreds
  <2>3. CallLink(c)'
    BY <1>3 DEF CallLink
  <2> QED BY <2>1, <2>2, <2>3 DEF CallInv
<1>10. \A d \in Calls : CallInv(d)'
  BY <1>1, <1>3, <1>8, <1>9, CallFrame
<1> QED BY <1>4, <1>5, <1>6, <1>7, <1>10 DEF IInv

\* FailFastError and CreatePending.
LEMMA CreateInv ==
    ASSUME IInv, NEW c \in Calls, NEW k \in Links, FailFastError(c, k) \/ CreatePending(c, k)
    PROVE  IInv'
<1>1. CASE FailFastError(c, k)
  <2>1. sessions' \subseteq Links /\ pc' = [pc EXCEPT ![c] = "urlrequired"]
    BY <1>1 DEF FailFastError, Goto, IInv, TypeOK
  <2> QED BY <1>1, <2>1, IssueInv DEF FailFastError
<1>2. CASE CreatePending(c, k)
  <2>1. sessions' \subseteq Links
    BY <1>2 DEF CreatePending, IInv, TypeOK
  <2> QED BY <1>2, <2>1, IssueInv DEF CreatePending
<1> QED BY <1>1, <1>2

\* ElicitAccept: the link does not outlive the wait that begins.
LEMMA ElicitAcceptInv ==
    ASSUME IInv, NEW c \in Calls, ElicitAccept(c)
    PROVE  IInv'
<1>1. /\ link[c] \in Links /\ user[c] \in Subs /\ pc[c] = "elicit" /\ CallInv(c)
      /\ now \in Nat /\ now + TokenTimeout \in Nat
      /\ UNCHANGED <<now, pending, done, creds, user, link, got, hookVars, history>>
  BY DEF IInv, TypeOK, Pending!TypeOK, CallInv, CallShape, ElicitAccept, Pending!StartWait
<1>2. /\ waiting'[c] = [key |-> link[c], deadline |-> now + TokenTimeout]
      /\ waiting'[c] # None /\ signal'[c] = None
      /\ waiting' \in [Calls -> Pending!Wait \cup {None}]
      /\ signal' \in [Calls -> {"ok"} \cup {None}]
      /\ \A d \in Calls : d # c => waiting'[d] = waiting[d] /\ signal'[d] = signal[d]
  BY <1>1 DEF IInv, TypeOK, Pending!TypeOK, ElicitAccept, Pending!StartWait
<1>3. TypeOK' /\ pc'[c] = "wait" /\ OnlyCall(c)
  BY <1>1, <1>2, GotoEffect DEF IInv, TypeOK, Pending!TypeOK, ElicitAccept, OnlyCall
<1>4. CallInv(c)'
  <2>1. CallShape(c)'
    BY <1>1, <1>2, <1>3 DEF CallShape
  <2>2. CallOwnership(c)'
    BY <1>1, <1>2 DEF CallInv, CallOwnership
  <2>3. CallLink(c)'
    BY <1>1, <1>2, <1>3 DEF IInv, LinkInv, CallLink
  <2> QED BY <2>1, <2>2, <2>3 DEF CallInv
<1> QED BY <1>1, <1>3, <1>4, CallStep

\* DeclinePop.
LEMMA DeclinePopInv ==
    ASSUME IInv, NEW c \in Calls, DeclinePop(c)
    PROVE  IInv'
<1>1. CASE UNCHANGED <<storeVars, history>>
  BY <1>1, MoveInv DEF DeclinePop
<1>2. CASE Pending!Pop(link[c]) /\ Withdraw(link[c])
  <2>1. /\ link[c] \in Links /\ issued[link[c]] # None /\ CallInv(c) /\ pc[c] = "declining"
        /\ UNCHANGED <<now, done, waiting, signal, creds, user, link, got, hookVars>>
        /\ UNCHANGED <<issued, stored, erased>>
    BY <1>2 DEF IInv, TypeOK, CallInv, CallShape, CallOwnership, DeclinePop, Pending!Pop,
        Withdraw
  <2>2. /\ pending' \in [Links -> Pending!PendingEntry \cup {None}]
        /\ pending'[link[c]] = None
        /\ \A k \in Links : pending'[k] \in {pending[k], None}
        /\ withdrawn' \subseteq Links
        /\ \A k \in withdrawn' : k \in withdrawn \/ (k = link[c] /\ pending[k] # None)
    BY <1>2, <2>1 DEF IInv, TypeOK, Pending!TypeOK, Pending!Pop, Withdraw
  <2>3. TypeOK' /\ pc'[c] = "declined" /\ OnlyCall(c)
    BY <2>1, <2>2, GotoEffect DEF IInv, TypeOK, Pending!TypeOK, OnlyCall, DeclinePop
  <2>4. Progress
    BY <2>1, <2>2 DEF IInv, TypeOK, Pending!TypeOK, Progress, HasCreds
  <2>5. CallInv(c)'
    BY <2>1, <2>2, <2>3 DEF CallInv, CallShape, CallOwnership, CallLink, HasCreds
  <2>6. \A d \in Calls : CallInv(d)'
    BY <2>3, <2>4, <2>5, CallFrame DEF OnlyCall
  <2>7. LinkInv'
    BY <2>1, <2>2 DEF IInv, LinkInv, HasCreds
  <2>8. HookInv' /\ CredsInv'
    BY <2>1 DEF IInv, HookInv, CredsInv
  <2> QED BY <2>3, <2>6, <2>7, <2>8 DEF IInv
<1> QED BY <1>1, <1>2 DEF DeclinePop

\* Signalled: the result says that the form of this link was stored for this user.
LEMMA SignalledInv ==
    ASSUME IInv, NEW c \in Calls, Signalled(c)
    PROVE  IInv'
<1>1. /\ link[c] \in Links /\ user[c] \in Subs /\ pc[c] = "wait" /\ CallInv(c)
      /\ waiting[c].key = link[c] /\ done[link[c]] # None /\ issued[link[c]] = user[c]
      /\ UNCHANGED <<now, pending, creds, user, link, got, hookVars, history>>
  BY DEF IInv, TypeOK, CallInv, CallShape, CallOwnership, Signalled, Pending!Deliver
<1>2. link[c] \in stored /\ HasCreds(user[c])
  BY <1>1 DEF IInv, LinkInv
<1>3. /\ waiting'[c] = None /\ waiting' \in [Calls -> Pending!Wait \cup {None}]
      /\ signal' \in [Calls -> {"ok"} \cup {None}]
      /\ \A d \in Calls : d # c => waiting'[d] = waiting[d] /\ signal'[d] = signal[d]
      /\ done' \in [Links -> Pending!DoneEntry \cup {None}]
      /\ \A k \in Links : done'[k] \in {done[k], None}
  BY <1>1 DEF IInv, TypeOK, Pending!TypeOK, Signalled, Pending!Deliver
<1>4. TypeOK' /\ pc'[c] = "get" /\ OnlyCall(c)
  BY <1>1, <1>3, GotoEffect DEF IInv, TypeOK, Pending!TypeOK, Signalled, OnlyCall
<1>5. CallInv(c)'
  BY <1>1, <1>2, <1>3, <1>4 DEF CallInv, CallShape, CallOwnership, CallLink, HasCreds
<1> QED BY <1>1, <1>3, <1>4, <1>5, CallStep

\* The ends of a wait without a result: at the deadline the link is dead.
LEMMA WaitEndInv ==
    ASSUME IInv, NEW c \in Calls, pc[c] = "wait",
           NEW p \in {"notprovided", "error", "crashed"}, Goto(c, p),
           IF p = "notprovided" THEN Pending!TimeOut(c) ELSE Pending!Abort(c),
           UNCHANGED <<creds, user, link, got, hookVars, history>>
    PROVE  IInv'
<1>1. /\ link[c] \in Links /\ CallInv(c) /\ waiting[c] \in Pending!Wait
      /\ waiting[c].key = link[c]
      /\ UNCHANGED <<now, pending, signal>> /\ now \in Nat
  BY DEF IInv, TypeOK, Pending!TypeOK, CallInv, CallShape, Pending!TimeOut, Pending!Abort
<1>2. /\ waiting'[c] = None /\ waiting' \in [Calls -> Pending!Wait \cup {None}]
      /\ \A d \in Calls : d # c => waiting'[d] = waiting[d]
      /\ done' \in [Links -> Pending!DoneEntry \cup {None}]
      /\ \A k \in Links : done'[k] \in {done[k], None}
      /\ p = "notprovided" => waiting[c].deadline <= now
  BY <1>1 DEF IInv, TypeOK, Pending!TypeOK, Pending!TimeOut, Pending!Abort
<1>3. TypeOK' /\ pc'[c] = p /\ OnlyCall(c)
  BY <1>1, <1>2, GotoEffect DEF IInv, TypeOK, Pending!TypeOK, OnlyCall
<1>4. CallShape(c)' /\ CallOwnership(c)'
  BY <1>1, <1>2, <1>3 DEF CallInv, CallShape, CallOwnership, HasCreds
<1>5. CallLink(c)'
  <2>1. pending[link[c]] \in Pending!PendingEntry \cup {None}
    BY <1>1 DEF IInv, TypeOK, Pending!TypeOK
  <2> QED BY <1>1, <1>2, <1>3, <2>1 DEF CallInv, CallLink
<1> QED BY <1>1, <1>2, <1>3, <1>4, <1>5, CallStep DEF CallInv

(***************************************************************************)
(* The steps of a browser request and of the rest of the system.           *)
(***************************************************************************)

\* A step that moves no call.
LEMMA RequestStep ==
    ASSUME IInv, TypeOK', LinkInv', HookInv', CredsInv', Progress,
           UNCHANGED <<callVars, waiting, signal>>
    PROVE  IInv'
<1>1. \A c \in Calls : CallInv(c)'
  BY CallFrame
<1> QED BY <1>1 DEF IInv

\* Showing a page.
LEMMA ShowEffect ==
    ASSUME TypeOK, NEW h \in Requests, NEW p \in Serving \cup PageShown, Show(h, p)
    PROVE  /\ rpc' \in [Requests -> {"idle"} \cup Serving \cup PageShown]
           /\ rpc'[h] = p /\ \A g \in Requests : g # h => rpc'[g] = rpc[g]
BY DEF TypeOK, Show

\* HandleEntry.
LEMMA HandleEntryInv ==
    ASSUME IInv, NEW h \in Requests, NEW k \in Links, HandleEntry(h, k)
    PROVE  IInv'
<1>1. PICK p \in {"formpage", "expired"} : Show(h, p)
  BY DEF HandleEntry
<1>2. /\ rpc[h] = "idle" /\ rsub[h] = None
      /\ rlink' = [rlink EXCEPT ![h] = k]
      /\ UNCHANGED <<now, done, waiting, signal, creds, callVars, rsub, history>>
      /\ pending' \in {pending, [pending EXCEPT ![k] = None]}
  BY DEF IInv, HookInv, HandleEntry, Pending!Get
<1>3. /\ pending' \in [Links -> Pending!PendingEntry \cup {None}]
      /\ \A j \in Links : pending'[j] \in {pending[j], None}
  BY <1>2 DEF IInv, TypeOK, Pending!TypeOK
<1>4. /\ rlink' \in [Requests -> Links \cup {None}]
      /\ \A g \in Requests : g # h => rlink'[g] = rlink[g]
  BY <1>2 DEF IInv, TypeOK
<1>5. TypeOK'
  <2>1. Pending!TypeOK'
    BY <1>2, <1>3 DEF IInv, TypeOK, Pending!TypeOK
  <2> QED BY <1>1, <1>2, <1>4, <2>1, ShowEffect DEF IInv, TypeOK
<1>6. LinkInv'
  BY <1>2, <1>3, <1>4 DEF IInv, LinkInv, HasCreds
<1>7. HookInv'
  BY <1>1, <1>2, <1>4, ShowEffect DEF IInv, HookInv
<1>8. CredsInv' /\ Progress
  BY <1>2, <1>3 DEF IInv, TypeOK, Pending!TypeOK, CredsInv, Progress, HasCreds
<1> QED BY <1>2, <1>5, <1>6, <1>7, <1>8, RequestStep

\* A request that only moves to its last page, or past the form.
LEMMA PageInv ==
    ASSUME IInv, NEW h \in Requests, NEW p \in {"store"} \cup PageShown, Show(h, p),
           p = "store" => rpc[h] = "form",
           UNCHANGED <<storeVars, creds, callVars, rlink, rsub, history>>
    PROVE  IInv'
<1>1. TypeOK'
  BY ShowEffect DEF IInv, TypeOK, Pending!TypeOK
<1>2. LinkInv' /\ CredsInv' /\ Progress
  BY Quiet DEF IInv, LinkInv, CredsInv, HasCreds
<1>3. HookInv'
  BY ShowEffect DEF IInv, HookInv
<1> QED BY <1>1, <1>2, <1>3, RequestStep

\* SubmitPop: the request that pops a live link is the only one with its subject.
LEMMA SubmitPopInv ==
    ASSUME IInv, NEW h \in Requests, NEW k \in Links, SubmitPop(h, k)
    PROVE  IInv'
<1>1. /\ rpc[h] = "idle" /\ rsub[h] = None
      /\ rlink' = [rlink EXCEPT ![h] = k]
      /\ UNCHANGED <<now, done, waiting, signal, creds, callVars, history>>
  BY DEF IInv, HookInv, SubmitPop, Pending!Pop
<1>2. /\ rlink' \in [Requests -> Links \cup {None}] /\ rlink'[h] = k
      /\ \A g \in Requests : g # h => rlink'[g] = rlink[g]
  BY <1>1 DEF IInv, TypeOK
<1>3. PICK p \in {"form", "unknown"} : Show(h, p) /\
        \/ /\ p = "form" /\ pending[k] # None /\ pending' = [pending EXCEPT ![k] = None]
           /\ rsub' = [rsub EXCEPT ![h] = pending[k].meta]
        \/ /\ p = "unknown" /\ pending' \in {pending, [pending EXCEPT ![k] = None]}
           /\ rsub' \in {rsub, [rsub EXCEPT ![h] = None]}
  <2>1. CASE Faults /\ Show(h, "unknown") /\ UNCHANGED <<storeVars, rsub>>
    BY <2>1
  <2>2. CASE /\ Pending!Pop(k) /\ rsub' = [rsub EXCEPT ![h] = Pending!Lookup(k)]
             /\ Show(h, IF Pending!Live(k) THEN "form" ELSE "unknown")
    <3>1. CASE Pending!Live(k)
      BY <2>2, <3>1 DEF Pending!Pop, Pending!Lookup, Pending!Live
    <3>2. CASE ~Pending!Live(k)
      BY <2>2, <3>2 DEF Pending!Pop, Pending!Lookup
    <3> QED BY <3>1, <3>2
  <2> QED BY <2>1, <2>2 DEF SubmitPop
<1>4. /\ pending' \in [Links -> Pending!PendingEntry \cup {None}]
      /\ \A j \in Links : pending'[j] \in {pending[j], None}
      /\ p = "form" => pending'[k] = None
  BY <1>3 DEF IInv, TypeOK, Pending!TypeOK
<1>5. /\ rsub' \in [Requests -> Subs \cup {None}]
      /\ \A g \in Requests : g # h => rsub'[g] = rsub[g]
      /\ p = "form" => rsub'[h] = issued[k] /\ rsub'[h] # None /\ pending[k] # None
      /\ p = "unknown" => rsub'[h] = None
  <2>1. p = "form" => pending[k].meta = issued[k] /\ pending[k].meta \in Subs
    BY <1>3 DEF IInv, TypeOK, Pending!TypeOK, LinkInv
  <2>2. rsub \in [Requests -> Subs \cup {None}]
    BY DEF IInv, TypeOK
  <2> QED BY <1>1, <1>3, <2>1, <2>2
<1>6. TypeOK'
  <2>1. Pending!TypeOK'
    BY <1>1, <1>4 DEF IInv, TypeOK, Pending!TypeOK
  <2> QED BY <1>1, <1>2, <1>3, <1>5, <2>1, ShowEffect DEF IInv, TypeOK
<1>7. LinkInv'
  BY <1>1, <1>2, <1>4, <1>5 DEF IInv, LinkInv, HasCreds
<1>8. HookInv'
  <2>1. rpc'[h] = p /\ \A g \in Requests : g # h => rpc'[g] = rpc[g]
    BY <1>3, ShowEffect DEF IInv
  <2>2. p = "form" => k \notin stored /\ \A g \in Requests : rsub[g] # None => rlink[g] # k
    BY <1>5 DEF IInv, LinkInv
  <2> QED BY <1>1, <1>2, <1>5, <2>1, <2>2 DEF IInv, HookInv
<1>9. CredsInv' /\ Progress
  BY <1>1, <1>4 DEF IInv, TypeOK, Pending!TypeOK, CredsInv, Progress, HasCreds
<1> QED BY <1>1, <1>6, <1>7, <1>8, <1>9, RequestStep

\* StoreCredentials.
LEMMA StoreCredentialsInv ==
    ASSUME IInv, NEW h \in Requests, StoreCredentials(h)
    PROVE  IInv'
<1>1. CASE Show(h, "storefailed") /\ UNCHANGED <<creds, erased, stored>>
  BY <1>1, PageInv DEF StoreCredentials
<1>2. CASE /\ creds' = [creds EXCEPT ![rsub[h]] = rlink[h]]
           /\ erased' = erased \ {rsub[h]}
           /\ stored' = stored \cup {rlink[h]}
           /\ Show(h, "signal")
  <2>1. /\ rpc[h] = "store" /\ rsub[h] \in Subs /\ rlink[h] \in Links
        /\ issued[rlink[h]] = rsub[h] /\ rlink[h] # None
        /\ rlink[h] \notin withdrawn
        /\ UNCHANGED <<storeVars, callVars, rlink, rsub, issued, withdrawn>>
    BY DEF IInv, TypeOK, HookInv, LinkInv, StoreCredentials
  <2>2. /\ creds' \in [Subs -> Links \cup {None}] /\ creds'[rsub[h]] = rlink[h]
        /\ \A s \in Subs : s # rsub[h] => creds'[s] = creds[s]
    BY <1>2, <2>1 DEF IInv, TypeOK
  <2>3. \A s \in Subs : (HasCreds(s) => HasCreds(s)') /\ (s = rsub[h] => HasCreds(s)')
    BY <1>2, <2>1, <2>2 DEF HasCreds
  <2>4. TypeOK'
    BY <1>2, <2>1, <2>2, ShowEffect DEF IInv, TypeOK, Pending!TypeOK
  <2>5. LinkInv'
    BY <1>2, <2>1, <2>3 DEF IInv, LinkInv, HookInv
  <2>6. HookInv'
    BY <1>2, <2>1, ShowEffect DEF IInv, HookInv
  <2>7. CredsInv'
    BY <1>2, <2>1, <2>2 DEF IInv, CredsInv
  <2>8. Progress
    BY <1>2, <2>1, <2>3 DEF IInv, TypeOK, Pending!TypeOK, Progress
  <2> QED BY <2>1, <2>4, <2>5, <2>6, <2>7, <2>8, RequestStep
<1> QED BY <1>1, <1>2 DEF StoreCredentials

\* SignalSuccess.
LEMMA SignalSuccessInv ==
    ASSUME IInv, NEW h \in Requests, SignalSuccess(h)
    PROVE  IInv'
<1>1. CASE UNCHANGED storeVars
  BY <1>1, PageInv DEF SignalSuccess
<1>2. CASE Pending!SetResult(rlink[h], "ok", ResultTTL)
  <2>1. /\ rlink[h] \in Links /\ rlink[h] \in stored /\ Show(h, "success")
        /\ UNCHANGED <<now, pending, waiting, signal, creds, callVars, rlink, rsub, history>>
    BY <1>2 DEF IInv, HookInv, SignalSuccess, Pending!SetResult
  <2>2. /\ done' \in [Links -> Pending!DoneEntry \cup {None}]
        /\ \A k \in Links : k # rlink[h] => done'[k] = done[k]
    BY <1>2, <2>1 DEF IInv, TypeOK, Pending!TypeOK, Pending!SetResult
  <2>3. TypeOK'
    BY <2>1, <2>2, ShowEffect DEF IInv, TypeOK, Pending!TypeOK
  <2>4. LinkInv'
    BY <2>1, <2>2 DEF IInv, LinkInv, HasCreds
  <2>5. HookInv'
    BY <2>1, ShowEffect DEF IInv, HookInv
  <2>6. CredsInv' /\ Progress
    BY <2>1, Quiet DEF IInv, CredsInv
  <2> QED BY <2>1, <2>3, <2>4, <2>5, <2>6, RequestStep
<1> QED BY <1>1, <1>2 DEF SignalSuccess

\* InvalidateCredentials: the deletion is on record.
LEMMA InvalidateInv ==
    ASSUME IInv, NEW s \in Subs, InvalidateCredentials(s)
    PROVE  IInv'
<1>1. /\ creds' \in [Subs -> Links \cup {None}]
      /\ \A t \in Subs : creds'[t] \in {creds[t], None}
      /\ \A t \in Subs : HasCreds(t) => HasCreds(t)'
  BY DEF IInv, TypeOK, InvalidateCredentials, HasCreds
<1>2. TypeOK'
  BY <1>1 DEF IInv, TypeOK, Pending!TypeOK, InvalidateCredentials
<1>3. LinkInv'
  BY <1>1 DEF IInv, LinkInv, InvalidateCredentials
<1>4. HookInv'
  BY DEF IInv, HookInv, InvalidateCredentials
<1>5. CredsInv' /\ Progress
  BY <1>1 DEF IInv, TypeOK, Pending!TypeOK, CredsInv, Progress, InvalidateCredentials
<1> QED BY <1>2, <1>3, <1>4, <1>5, RequestStep DEF InvalidateCredentials

\* LapseResult.
LEMMA LapseInv ==
    ASSUME IInv, NEW k \in Links, LapseResult(k)
    PROVE  IInv'
<1>1. /\ done' \in [Links -> Pending!DoneEntry \cup {None}]
      /\ \A j \in Links : done'[j] \in {done[j], None}
      /\ UNCHANGED <<now, pending, waiting, signal, creds, callVars, hookVars, history>>
  BY DEF IInv, TypeOK, Pending!TypeOK, LapseResult, Pending!Lapse
<1>2. TypeOK'
  BY <1>1 DEF IInv, TypeOK, Pending!TypeOK
<1> QED BY <1>1, <1>2, BrowserFrame, Quiet, RequestStep

\* Tick.
LEMMA TickInv == ASSUME IInv, Tick PROVE IInv'
<1>1. /\ now \in Nat /\ now' = now + 1
      /\ pending \in [Links -> Pending!PendingEntry \cup {None}]
      /\ UNCHANGED <<pending, done, waiting, signal, creds, callVars, hookVars, history>>
  BY DEF IInv, TypeOK, Pending!TypeOK, Tick, Pending!Tick
<1>2. TypeOK'
  BY <1>1 DEF IInv, TypeOK, Pending!TypeOK
<1>3. LinkInv'
  BY <1>1 DEF IInv, LinkInv, HasCreds
<1>4. HookInv' /\ CredsInv'
  BY <1>1 DEF IInv, HookInv, CredsInv
<1>5. Progress
  BY <1>1 DEF Progress, HasCreds
<1> QED BY <1>1, <1>2, <1>3, <1>4, <1>5, RequestStep

\* The steps of a call.
LEMMA CallNextInv ==
    ASSUME IInv, NEW c \in Calls, CallNext(c)
    PROVE  IInv'
<1>1. CASE CreateFailed(c) \/ ElicitDecline(c) \/ ElicitError(c)
  BY <1>1, MoveInv DEF CreateFailed, ElicitDecline, ElicitError
<1>2. CASE WaitTimeout(c)
  BY <1>2, WaitEndInv DEF WaitTimeout
<1>3. CASE WaitAbort(c)
  BY <1>3, WaitEndInv DEF WaitAbort
<1>4. CASE CrashCall(c)
  <2>1. CASE pc[c] = "wait"
    BY <1>4, <2>1, WaitEndInv DEF CrashCall
  <2>2. CASE pc[c] # "wait"
    BY <1>4, <2>2, MoveInv DEF CrashCall
  <2> QED BY <2>1, <2>2
<1> QED
  BY <1>1, <1>2, <1>3, <1>4, BeginInv, ReadCredentialsInv, CreateInv, ElicitAcceptInv,
      DeclinePopInv, SignalledInv DEF CallNext

\* The steps of a request.
LEMMA RequestNextInv ==
    ASSUME IInv, NEW h \in Requests, RequestNext(h)
    PROVE  IInv'
<1>1. CASE MissingToken(h) \/ ValidateForm(h) \/ CrashRequest(h)
  BY <1>1, PageInv DEF MissingToken, ValidateForm, CrashRequest
<1> QED
  BY <1>1, HandleEntryInv, SubmitPopInv, StoreCredentialsInv, SignalSuccessInv
  DEF RequestNext

\* Every step preserves the invariant.
LEMMA NextInv == IInv /\ [Next]_vars => IInv'
<1> SUFFICES ASSUME IInv, [Next]_vars PROVE IInv'
  OBVIOUS
<1>1. CASE UNCHANGED vars
  <2>1. TypeOK'
    BY <1>1 DEF vars, IInv, TypeOK, Pending!TypeOK
  <2> QED BY <1>1, <2>1, BrowserFrame, Quiet, RequestStep DEF vars
<1> QED
  BY <1>1, CallNextInv, RequestNextInv, InvalidateInv, LapseInv, TickInv DEF Next

\* The invariant holds throughout.
LEMMA InvHolds == Spec => []IInv
BY InitInv, NextInv, PTL DEF Spec

(***************************************************************************)
(* Theorems.                                                               *)
(***************************************************************************)

\* Every variable keeps its type.
THEOREM TypeCorrect == Spec => []TypeOK
<1>1. IInv => TypeOK
  BY DEF IInv
<1> QED BY <1>1, InvHolds, PTL

\* A subject only ever gets credentials typed into a link that was issued for it.
THEOREM CredentialsStayWithOwner == Spec => []CredentialsOwnership
<1>1. IInv => CredentialsOwnership
  BY DEF IInv, CredsInv, CallInv, CallOwnership, CredentialsOwnership
<1> QED BY <1>1, InvHolds, PTL

\* A waiting call is woken only after its subject's credentials were stored.
THEOREM OkAfterStore == Spec => []SignalAfterStore
<1>1. IInv => SignalAfterStore
  BY DEF IInv, CallInv, CallOwnership, HasCreds, SignalAfterStore
<1> QED BY <1>1, InvHolds, PTL

\* A link that a decline took out of the store is never submitted, and nothing typed
\* into its form is stored or used, whatever requests were or are under way.
THEOREM DeclinedIsDead == Spec => []DeclinedLinkIsDead
<1>1. IInv => DeclinedLinkIsDead
  BY DEF IInv, TypeOK, LinkInv, CallInv, CallOwnership, DeclinedLinkIsDead
<1> QED BY <1>1, InvHolds, PTL

\* A form is accepted only by the submit that finds its link alive.
LEMMA FormTaken ==
    ASSUME IInv, [Next]_vars, NEW h \in Requests, rpc[h] = "idle", rpc'[h] = "form"
    PROVE  rlink'[h] \in Links /\ Pending!Live(rlink'[h])
<1>1. ASSUME NEW c \in Calls, CallNext(c) PROVE FALSE
  BY <1>1 DEF CallNext, Begin, ReadCredentials, FailFastError, CreatePending, CreateFailed,
      ElicitAccept, ElicitDecline, DeclinePop, ElicitError, Signalled, WaitTimeout,
      WaitAbort, CrashCall
<1>2. ASSUME NEW g \in Requests, RequestNext(g)
      PROVE  \E k \in Links : SubmitPop(h, k)
  <2>1. g = h
    BY <1>2 DEF IInv, TypeOK, RequestNext, HandleEntry, SubmitPop, MissingToken, ValidateForm,
        StoreCredentials, SignalSuccess, CrashRequest, Show
  <2> QED BY <1>2, <2>1 DEF IInv, TypeOK, RequestNext, HandleEntry, MissingToken,
        ValidateForm, StoreCredentials, SignalSuccess, CrashRequest, Show
<1>3. ASSUME NEW k \in Links, SubmitPop(h, k)
      PROVE  rlink'[h] = k /\ Pending!Live(k)
  BY <1>3 DEF IInv, TypeOK, SubmitPop, Show
<1>4. CASE UNCHANGED vars \/ Tick \/ (\E s \in Subs : InvalidateCredentials(s))
             \/ (\E k \in Links : LapseResult(k))
  BY <1>4 DEF vars, Tick, InvalidateCredentials, LapseResult
<1> QED BY <1>1, <1>2, <1>3, <1>4 DEF Next

\* For every timeout and resolution of the clock: once a call has given up on its form,
\* a submit of its link is accepted in the instant the link expires at the latest.
THEOREM LateFormRefused == Spec => LateFormIsRefused
<1>1. ASSUME IInv, [Next]_vars, NEW c \in Calls, NEW h \in Requests,
             pc[c] = "notprovided", rpc[h] = "idle", rpc'[h] = "form", rlink'[h] = link[c]
      PROVE  pending[link[c]].expires = now
  <2>1. link[c] \in Links /\ Pending!Live(link[c])
    BY <1>1, FormTaken
  <2>2. pending[link[c]] # None /\ pending[link[c]].expires <= now
    BY <1>1, <2>1 DEF IInv, CallInv, CallLink, Pending!Live
  <2>3. pending[link[c]].expires \in Nat /\ now \in Nat
    BY <1>1, <2>1, <2>2 DEF IInv, TypeOK, Pending!TypeOK
  <2> QED BY <2>1, <2>2, <2>3 DEF Pending!Live
<1>2. IInv /\ [Next]_vars =>
        [\A c \in Calls, h \in Requests :
            pc[c] = "notprovided" /\ rpc[h] = "idle" /\ rpc'[h] = "form" /\ rlink'[h] = link[c]
                => pending[link[c]].expires = now]_vars
  BY <1>1
<1> QED BY <1>2, InvHolds, PTL DEF LateFormIsRefused, Spec

\* However often and wherever a form is submitted, it is stored once.
THEOREM FormStoredOnce == Spec => SubmitStoresOnce
<1>1. IInv => [\A h \in Requests :
                StoreCredentials(h) /\ rpc'[h] = "signal" => rlink[h] \notin stored]_vars
  BY DEF IInv, HookInv, StoreCredentials
<1> QED BY <1>1, InvHolds, PTL DEF SubmitStoresOnce
=============================================================================
