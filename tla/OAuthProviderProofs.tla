------------------------ MODULE OAuthProviderProofs ------------------------

(***************************************************************************)
(* Proofs about OAuthProvider, for any number of calls, callbacks, users   *)
(* and states.                                                             *)
(***************************************************************************)
EXTENDS OAuthProvider, TLAPS

(***************************************************************************)
(* The inductive invariant.                                                *)
(***************************************************************************)

\* What a tool call has in its hands at each point of its program.
CallShape ==
    \A c \in Calls :
        /\ pc[c] \in Running => user[c] \in Subs
        /\ pc[c] = "idle" => held[c] = None /\ signal[c] = None
        /\ signal[c] # None => user[c] \in Subs
        /\ pc[c] \in {"idle", "failfast", "create"} => state[c] = None
        /\ pc[c] \in {"refresh", "save"} => held[c] \in TokenEntry
        /\ pc[c] = "save" => held[c].refresh
        /\ pc[c] \in {"elicit", "declining", "wait"} => state[c] \in States
        /\ pc[c] = "wait" <=> waiting[c] # None
        /\ waiting[c] # None => waiting[c].key = state[c]

\* The same for a callback.  hsub is set exactly by the callback that popped a
\* live entry.
HookShape ==
    \A h \in Callbacks :
        /\ hpc[h] = "idle" => hsub[h] = None
        /\ hpc[h] \in HookRunning => hsub[h] # None
        /\ hsub[h] # None => hstate[h] \in States
        /\ hpc[h] = "store" => hheld[h] \in TokenEntry /\ hheld[h].flow = hstate[h]

\* A state belongs to the subject it was issued for, wherever it shows up.
IssuedTo(k, s) == issued[k] # None /\ issued[k].sub = s

FlowOwnership ==
    /\ \A k \in States : pending[k] # None => IssuedTo(k, pending[k].meta)
    /\ \A c \in Calls : state[c] # None => IssuedTo(state[c], user[c])
    /\ \A h \in Callbacks : hsub[h] # None => IssuedTo(hstate[h], hsub[h])

\* No callback has popped a state whose entry is still there.
PoppedIsGone ==
    \A h \in Callbacks : hsub[h] # None => pending[hstate[h]] = None

\* A stored token can only be deleted, and that is on record.
HasToken(s) == tokens[s] # None \/ s \in erased

\* From the store step of a callback to the read of the call it wakes, "ok" comes
\* with a token.
OkMeansStored ==
    /\ \A h \in Callbacks : hpc[h] = "signal" => HasToken(hsub[h])
    /\ \A k \in States :
        done[k] # None => issued[k] # None /\ (done[k].res = "ok" => HasToken(issued[k].sub))
    /\ \A c \in Calls : signal[c] = "ok" => HasToken(user[c])

\* The TTL of an entry counts from the moment its state is issued.
EntryLifetime ==
    \A k \in States :
        pending[k] # None => pending[k].expires = issued[k].at + LinkTTL

\* Two calls never share a flow.
DistinctFlows ==
    \A c, d \in Calls : c # d /\ state[c] # None => state[c] # state[d]

\* Every token comes from a redirect that got the entry of its flow.
TokensFromRedirects ==
    /\ \A s \in Subs : tokens[s] # None => Redeemed(tokens[s].flow)
    /\ \A c \in Calls : held[c] # None => Redeemed(held[c].flow)

\* What a decline took out of the store was not, and will not be, redeemed: the
\* state is issued, so it is never created again.
WithdrawnIsGone ==
    \A k \in withdrawn : issued[k] # None /\ pending[k] = None /\ ~Redeemed(k)

Prompted == {"elicit", "declining", "wait"}

\* Until the prompt of a call is settled its entry goes to a redirect or expires;
\* no other call takes it.
EntryIsKept ==
    \A c \in Calls :
        pc[c] \in Prompted =>
            \/ pending[state[c]] # None
            \/ Redeemed(state[c])
            \/ now > issued[state[c]].at + LinkTTL

\* The groups, one step each in the proof of an action.
Shape == CallShape /\ HookShape
Ownership == FlowOwnership /\ TokenOwnership
SingleUse == PoppedIsGone /\ StateUsedOnce /\ EntryLifetime
Sessions == DistinctFlows /\ SessionsMatchFlows

Provenance == TokensFromRedirects /\ WithdrawnIsGone /\ EntryIsKept

IInv == TypeOK /\ Shape /\ Ownership /\ SingleUse /\ OkMeansStored /\ Sessions /\ Provenance

\* The assumptions and the sets of values are used throughout.
USE CallsAssumption, ResponsesAssumption, TimesAssumption, OptionsAssumption,
    NoneAssumption
USE DEF storeVars, callVars, hookVars, history, Outcomes, Running, Ended, HookRunning,
    HookEnded, TokenEntry, Pending!PendingEntry, Pending!DoneEntry, Pending!Wait

(***************************************************************************)
(* Lemmas about the operators, and the initial state.                      *)
(***************************************************************************)

\* The TTL of an entry, and the whole seconds in it, are natural numbers.
LEMMA LinkTTLNat == WholeSeconds(TokenTimeout) \in Nat /\ LinkTTL \in Nat
<1>1. TokenTimeout \div Second \in Nat
    BY DEF WholeSeconds
<1>2. \A a, b \in Nat : a * b \in Nat
    OBVIOUS
<1>. QED BY <1>1, <1>2 DEF WholeSeconds, LinkTTL

\* The initial state: nothing issued, stored, popped or signalled.
LEMMA InitInv == Init => IInv
<1> SUFFICES ASSUME Init PROVE IInv
    OBVIOUS
<1>1. TypeOK
    BY DEF Init, Pending!Init, TypeOK, Pending!TypeOK
<1>2. Shape
    BY DEF Init, Pending!Init, Shape, CallShape, HookShape
<1>3. Ownership
    BY DEF Init, Pending!Init, Ownership, FlowOwnership, TokenOwnership
<1>4. SingleUse
    BY DEF Init, Pending!Init, SingleUse, PoppedIsGone, StateUsedOnce, EntryLifetime
<1>5. OkMeansStored
    BY DEF Init, Pending!Init, OkMeansStored
<1>6. Sessions
    BY DEF Init, Sessions, DistinctFlows, SessionsMatchFlows
<1>7. Provenance
    BY DEF Init, Pending!Init, Provenance, TokensFromRedirects, WithdrawnIsGone,
        EntryIsKept, Prompted
<1>. QED BY <1>1, <1>2, <1>3, <1>4, <1>5, <1>6, <1>7 DEF IInv

\* A normalized answer of the token endpoint is a token entry.
LEMMA NormalizeTyping ==
    ASSUME NEW r \in Responses, NEW flow \in States, now \in Nat
    PROVE  /\ Normalize(flow, r) \in TokenEntry
           /\ Normalize(flow, r).flow = flow
    BY DEF Normalize

\* The same for a refresh, whose entry always keeps a refresh token.
LEMMA CarryForwardTyping ==
    ASSUME NEW r \in Responses, NEW flow \in States, now \in Nat
    PROVE  /\ Normalize(flow, [r EXCEPT !.refresh = TRUE]) \in TokenEntry
           /\ Normalize(flow, [r EXCEPT !.refresh = TRUE]).flow = flow
           /\ Normalize(flow, [r EXCEPT !.refresh = TRUE]).refresh
    BY DEF Normalize

\* Writing or deleting a token never makes a subject one that has none on record.
LEMMA PutKeepsTokens ==
    ASSUME TypeOK, NEW s \in Subs, NEW e \in TokenEntry, PutToken(s, e)
    PROVE  /\ HasToken(s)'
           /\ \A t \in Subs : HasToken(t) => HasToken(t)'
    BY DEF TypeOK, PutToken, HasToken

\* The same for a delete, which is put on record.
LEMMA DeleteKeepsTokens ==
    ASSUME TypeOK, NEW s \in Subs, DeleteToken(s)
    PROVE  \A t \in Subs : HasToken(t) => HasToken(t)'
    BY DEF TypeOK, DeleteToken, HasToken

\* A step that changes the token store only keeps the promise made with "ok".
LEMMA TokenFrame ==
    ASSUME IInv, UNCHANGED <<storeVars, user, hookVars, issued>>,
           \A t \in Subs : HasToken(t) => HasToken(t)'
    PROVE  OkMeansStored'
    BY DEF IInv, TypeOK, Shape, CallShape, HookShape, OkMeansStored, HasToken

\* Moving a call keeps program counters and sessions well typed.
LEMMA GotoTyping ==
    ASSUME TypeOK, NEW c \in Calls, NEW p \in Running \cup Ended, Goto(c, p)
    PROVE  /\ pc' \in [Calls -> {"idle"} \cup Running \cup Ended]
           /\ sessions' \subseteq States
    BY DEF TypeOK, Goto

\* Moving a call that keeps its state: the deferred delete removes the session of
\* this call when it ends and, as flows are distinct, no other.
LEMMA GotoKeepsSessions ==
    ASSUME IInv, NEW c \in Calls, NEW p \in Running \cup Ended, Goto(c, p),
           pc[c] \in {"idle"} \cup Running, UNCHANGED state
    PROVE  Sessions'
<1>1. DistinctFlows'
    BY DEF IInv, Sessions, DistinctFlows
<1>2. \A d \in Calls : d # c => pc'[d] = pc[d]
    BY DEF IInv, TypeOK, Goto
<1>3. pc'[c] = p
    BY DEF IInv, TypeOK, Goto
<1>4. pc[c] = "idle" => state[c] = None
    BY DEF IInv, Shape, CallShape
<1>5. \A k : k \in sessions' <=>
            k # None /\ \E d \in Calls : pc'[d] \in Running /\ state[d] = k
  <2>1. \A k : k \in sessions <=>
            k # None /\ \E d \in Calls : pc[d] \in Running /\ state[d] = k
    BY DEF IInv, Sessions, SessionsMatchFlows
  <2>2. CASE p \in Ended
    BY <1>2, <1>3, <1>4, <2>1, <2>2 DEF IInv, TypeOK, Sessions, DistinctFlows, Goto
  <2>3. CASE p \in Running
    BY <1>2, <1>3, <1>4, <2>1, <2>3 DEF Goto
  <2>. QED BY <2>2, <2>3
<1>. QED BY <1>1, <1>5 DEF Sessions, SessionsMatchFlows

\* Issuing a state and creating its pending entry keep the stores well typed.
LEMMA CreateTyping ==
    ASSUME TypeOK, NEW c \in Calls, NEW k \in States, user[c] \in Subs,
           Issue(c, k), CreateEntry(c, k)
    PROVE  /\ Pending!TypeOK'
           /\ issued' \in [States -> [sub: Subs, at: Nat] \cup {None}]
           /\ state' \in [Calls -> States \cup {None}]
    BY LinkTTLNat DEF TypeOK, Pending!TypeOK, Issue, CreateEntry, Pending!Create

\* A step that neither issues, pops nor withdraws a state, and takes no token from
\* anywhere but the store, the call's hands or a redirect.
LEMMA ProvenanceStep ==
    ASSUME IInv, UNCHANGED <<pending, state, hstate, hsub, issued, withdrawn>>,
           now' \in {now, now + 1},
           \A s \in Subs : tokens'[s] = None \/ Redeemed(tokens'[s].flow),
           \A c \in Calls : held'[c] = None \/ Redeemed(held'[c].flow),
           \A c \in Calls : pc'[c] \in Prompted => pc[c] \in Prompted
    PROVE  Provenance'
<1>1. \A k : Redeemed(k)' <=> Redeemed(k)
    BY DEF Redeemed
<1>2. TokensFromRedirects'
    BY <1>1 DEF TokensFromRedirects
<1>3. WithdrawnIsGone'
    BY <1>1 DEF IInv, Provenance, WithdrawnIsGone
<1>4. EntryIsKept'
  <2> SUFFICES ASSUME NEW c \in Calls, pc'[c] \in Prompted, pending[state[c]] = None,
                      ~Redeemed(state[c])
               PROVE  now' > issued[state[c]].at + LinkTTL
    BY <1>1 DEF EntryIsKept
  <2>1. pc[c] \in Prompted /\ now > issued[state[c]].at + LinkTTL
    BY DEF IInv, Provenance, EntryIsKept
  <2>2. state[c] \in States /\ issued[state[c]] # None
    BY <2>1 DEF IInv, Shape, CallShape, Ownership, FlowOwnership, IssuedTo, Prompted
  <2>3. now \in Nat /\ issued[state[c]].at \in Nat
    BY <2>2 DEF IInv, TypeOK, Pending!TypeOK
  <2>. QED BY <2>1, <2>3, LinkTTLNat
<1>. QED BY <1>2, <1>3, <1>4 DEF Provenance

\* A new state is neither withdrawn nor the state of another call.
LEMMA IssueKeepsProvenance ==
    ASSUME IInv, NEW c \in Calls, NEW k \in States, Issue(c, k),
           \A j \in States : j # k => pending'[j] = pending[j],
           \A d \in Calls : d # c => pc'[d] = pc[d],
           pc'[c] \in Prompted => pending'[k] # None,
           UNCHANGED <<now, tokens, held, hookVars, withdrawn>>
    PROVE  Provenance'
<1>1. \A j : Redeemed(j)' <=> Redeemed(j)
    BY DEF Redeemed
<1>2. TokensFromRedirects'
    BY <1>1 DEF IInv, Provenance, TokensFromRedirects
<1>3. WithdrawnIsGone'
    BY <1>1 DEF IInv, TypeOK, Provenance, WithdrawnIsGone, Issue
<1>4. EntryIsKept'
  <2>1. ASSUME NEW d \in Calls, d # c, pc[d] \in Prompted
        PROVE  /\ state'[d] = state[d] /\ state[d] \in States /\ state[d] # k
               /\ issued'[state[d]] = issued[state[d]]
    BY <2>1 DEF IInv, TypeOK, Shape, CallShape, Ownership, FlowOwnership, IssuedTo, Issue,
        Prompted
  <2>2. state'[c] = k
    BY DEF IInv, TypeOK, Issue
  <2>. QED BY <1>1, <2>1, <2>2 DEF IInv, Provenance, EntryIsKept
<1>. QED BY <1>2, <1>3, <1>4 DEF Provenance

(***************************************************************************)
(* The actions of a tool call.                                             *)
(***************************************************************************)

\* A call starts with or without a user; it has no state and no token yet.
LEMMA BeginInv ==
    ASSUME IInv, NEW c \in Calls, Begin(c) PROVE IInv'
<1>1. TypeOK'
    BY DEF IInv, TypeOK, Pending!TypeOK, Begin, Goto
<1>2. Shape'
    BY DEF IInv, TypeOK, Pending!TypeOK, Shape, CallShape, HookShape, Begin, Goto
<1>3. Ownership'
    BY DEF IInv, TypeOK, Pending!TypeOK, Shape, CallShape, Ownership, FlowOwnership,
        TokenOwnership, IssuedTo, Begin
<1>4. SingleUse'
    BY DEF IInv, TypeOK, Pending!TypeOK, SingleUse, PoppedIsGone, StateUsedOnce,
        EntryLifetime, Begin, Goto
<1>5. OkMeansStored'
    BY DEF IInv, TypeOK, Pending!TypeOK, Shape, CallShape, OkMeansStored, HasToken, Begin
<1>6. Sessions'
  <2>1. pc[c] \in {"idle"} \cup Running /\ UNCHANGED state
    BY DEF Begin
  <2>2. \E p \in Running \cup Ended : Goto(c, p)
    BY DEF Begin, OnMiss
  <2>. QED BY <2>1, <2>2, GotoKeepsSessions
<1>7. Provenance'
    BY ProvenanceStep DEF IInv, TypeOK, Pending!TypeOK, Provenance,
        TokensFromRedirects, Prompted, Begin, Goto
<1>. QED BY <1>1, <1>2, <1>3, <1>4, <1>5, <1>6, <1>7 DEF IInv

\* The token a call takes out of the store belongs to its user.
LEMMA ReadTokenInv ==
    ASSUME IInv, NEW c \in Calls, ReadToken(c) PROVE IInv'
<1>1. TypeOK'
  <2>1. held' \in [Calls -> TokenEntry \cup {None}]
    BY DEF IInv, TypeOK, Shape, CallShape, ReadToken
  <2>2. \E p \in Running \cup Ended : Goto(c, p)
    BY DEF ReadToken, OnMiss
  <2>. QED BY <2>1, <2>2, GotoTyping DEF IInv, TypeOK, Pending!TypeOK, ReadToken
<1>2. Shape'
    BY DEF IInv, TypeOK, Pending!TypeOK, Shape, CallShape, HookShape, ReadToken, Goto,
        OnMiss
<1>3. Ownership'
  <2>1. FlowOwnership'
    BY DEF IInv, TypeOK, Ownership, FlowOwnership, IssuedTo, ReadToken
  <2>2. TokenOwnership'
    BY DEF IInv, TypeOK, Shape, CallShape, Ownership, TokenOwnership, ReadToken
  <2>. QED BY <2>1, <2>2 DEF Ownership
<1>4. SingleUse'
    BY DEF IInv, TypeOK, SingleUse, PoppedIsGone, StateUsedOnce, EntryLifetime, ReadToken, Goto, OnMiss
<1>5. OkMeansStored'
    BY DEF IInv, TypeOK, OkMeansStored, HasToken, ReadToken
<1>6. Sessions'
  <2>1. pc[c] \in {"idle"} \cup Running /\ UNCHANGED state
    BY DEF ReadToken
  <2>2. \E p \in Running \cup Ended : Goto(c, p)
    BY DEF ReadToken, OnMiss
  <2>. QED BY <2>1, <2>2, GotoKeepsSessions
<1>7. Provenance'
    BY ProvenanceStep DEF IInv, TypeOK, Pending!TypeOK, Provenance,
        TokensFromRedirects, Prompted, ReadToken, Goto, OnMiss, Shape, CallShape
<1>. QED BY <1>1, <1>2, <1>3, <1>4, <1>5, <1>6, <1>7 DEF IInv

\* The refreshed entry descends from the same flow and has a refresh token.
LEMMA RefreshInv ==
    ASSUME IInv, NEW c \in Calls, Refresh(c) PROVE IInv'
<1>1. TypeOK'
  <2>1. held' \in [Calls -> TokenEntry \cup {None}]
    BY CarryForwardTyping DEF IInv, TypeOK, Pending!TypeOK, Shape, CallShape, Refresh,
        TokenAnswers
  <2>. QED BY <2>1 DEF IInv, TypeOK, Pending!TypeOK, Refresh, Goto
<1>2. Shape'
  <2>1. pc'[c] = "save" => held'[c] \in TokenEntry /\ held'[c].refresh
    BY CarryForwardTyping DEF IInv, TypeOK, Pending!TypeOK, Shape, CallShape, Refresh,
        Goto, TokenAnswers
  <2>. QED BY <1>1, <2>1 DEF IInv, TypeOK, Pending!TypeOK, Shape, CallShape, HookShape,
      Refresh, Goto
<1>3. Ownership'
    BY DEF IInv, TypeOK, Pending!TypeOK, Shape, CallShape, Ownership, FlowOwnership,
        TokenOwnership, IssuedTo, Refresh, TokenAnswers, Normalize
<1>4. SingleUse'
    BY DEF IInv, TypeOK, Pending!TypeOK, SingleUse, PoppedIsGone, StateUsedOnce,
        EntryLifetime, Refresh, Goto, TokenAnswers
<1>5. OkMeansStored'
    BY DEF IInv, TypeOK, OkMeansStored, HasToken, Refresh, TokenAnswers
<1>6. Sessions'
  <2>1. pc[c] \in {"idle"} \cup Running /\ UNCHANGED state
    BY DEF Refresh
  <2>2. \E p \in Running \cup Ended : Goto(c, p)
    BY DEF Refresh, OnMiss
  <2>. QED BY <2>1, <2>2, GotoKeepsSessions
<1>7. Provenance'
    BY ProvenanceStep DEF IInv, TypeOK, Pending!TypeOK, Provenance,
        TokensFromRedirects, Prompted, Refresh, Goto, TokenAnswers, Normalize, Shape,
        CallShape
<1>. QED BY <1>1, <1>2, <1>3, <1>4, <1>5, <1>6, <1>7 DEF IInv

\* A failed refresh: the deletion is on record.
LEMMA DropInv ==
    ASSUME IInv, NEW c \in Calls, Drop(c) PROVE IInv'
<1>1. TypeOK'
    BY DEF IInv, TypeOK, Pending!TypeOK, Shape, CallShape, Drop, Goto, OnMiss, DeleteToken
<1>2. Shape'
    BY DEF IInv, TypeOK, Shape, CallShape, HookShape, Drop, Goto, OnMiss, DeleteToken
<1>3. Ownership'
    BY DEF IInv, TypeOK, Ownership, FlowOwnership, TokenOwnership, IssuedTo, Drop,
        DeleteToken
<1>4. SingleUse'
    BY DEF IInv, TypeOK, SingleUse, PoppedIsGone, StateUsedOnce, EntryLifetime, Drop, Goto, OnMiss, DeleteToken
<1>5. OkMeansStored'
  <2>1. TypeOK /\ user[c] \in Subs
    BY DEF IInv, Shape, CallShape, Drop
  <2>2. \A t \in Subs : HasToken(t) => HasToken(t)'
    <3>1. CASE DeleteToken(user[c])
        BY <2>1, <3>1, DeleteKeepsTokens
    <3>2. CASE UNCHANGED <<tokens, erased>>
        BY <3>2 DEF HasToken
    <3>. QED BY <3>1, <3>2 DEF Drop
  <2>. QED BY <2>2, TokenFrame DEF Drop
<1>6. Sessions'
  <2>1. pc[c] \in {"idle"} \cup Running /\ UNCHANGED state
    BY DEF Drop
  <2>2. \E p \in Running \cup Ended : Goto(c, p)
    BY DEF Drop, OnMiss
  <2>. QED BY <2>1, <2>2, GotoKeepsSessions
<1>7. Provenance'
    BY ProvenanceStep DEF IInv, TypeOK, Pending!TypeOK, Provenance,
        TokensFromRedirects, Prompted, Drop, Goto, OnMiss, DeleteToken
<1>. QED BY <1>1, <1>2, <1>3, <1>4, <1>5, <1>6, <1>7 DEF IInv

\* The refreshed entry is stored for the user it was read for.
LEMMA SaveInv ==
    ASSUME IInv, NEW c \in Calls, Save(c) PROVE IInv'
<1>1. TypeOK'
  <2>1. tokens' \in [Subs -> TokenEntry \cup {None}] /\ erased' \subseteq Subs
    BY DEF IInv, TypeOK, Save, PutToken
  <2>2. \E p \in Running \cup Ended : Goto(c, p)
    BY DEF Save, OnMiss
  <2>. QED BY <2>1, <2>2, GotoTyping DEF IInv, TypeOK, Pending!TypeOK, Save
<1>2. Shape'
    BY DEF IInv, TypeOK, Pending!TypeOK, Shape, CallShape, HookShape, Save, Goto,
        OnMiss, PutToken
<1>3. Ownership'
    BY DEF IInv, TypeOK, Pending!TypeOK, Ownership, FlowOwnership, TokenOwnership,
        IssuedTo, Save, PutToken
<1>4. SingleUse'
    BY DEF IInv, TypeOK, Pending!TypeOK, SingleUse, PoppedIsGone, StateUsedOnce,
        EntryLifetime, Save, Goto, OnMiss, PutToken
<1>5. OkMeansStored'
  <2>1. TypeOK /\ user[c] \in Subs /\ held[c] \in TokenEntry
    BY DEF IInv, Shape, CallShape, Save
  <2>2. \A t \in Subs : HasToken(t) => HasToken(t)'
    <3>1. CASE PutToken(user[c], held[c])
        BY <2>1, <3>1, PutKeepsTokens
    <3>2. CASE UNCHANGED <<tokens, erased>>
        BY <3>2 DEF HasToken
    <3>. QED BY <3>1, <3>2 DEF Save
  <2>. QED BY <2>2, TokenFrame DEF Save
<1>6. Sessions'
  <2>1. pc[c] \in {"idle"} \cup Running /\ UNCHANGED state
    BY DEF Save
  <2>2. \E p \in Running \cup Ended : Goto(c, p)
    BY DEF Save, OnMiss
  <2>. QED BY <2>1, <2>2, GotoKeepsSessions
<1>7. Provenance'
    BY ProvenanceStep DEF IInv, TypeOK, Pending!TypeOK, Provenance,
        TokensFromRedirects, Prompted, Save, Goto, OnMiss, PutToken, Shape, CallShape
<1>. QED BY <1>1, <1>2, <1>3, <1>4, <1>5, <1>6, <1>7 DEF IInv

\* The new state is issued to the user of the call; no session is opened.
LEMMA FailFastErrorInv ==
    ASSUME IInv, NEW c \in Calls, NEW k \in States, FailFastError(c, k) PROVE IInv'
<1>1. TypeOK'
  <2>1. user[c] \in Subs
    BY DEF IInv, Shape, CallShape, FailFastError
  <2>2. /\ issued' \in [States -> [sub: Subs, at: Nat] \cup {None}]
       /\ state' \in [Calls -> States \cup {None}]
    BY <2>1 DEF IInv, TypeOK, Pending!TypeOK, FailFastError, Issue
  <2>3. Pending!TypeOK'
    BY <2>1, LinkTTLNat DEF IInv, TypeOK, Pending!TypeOK, FailFastError, CreateEntry,
        Pending!Create
  <2>. QED BY <2>2, <2>3, GotoTyping DEF IInv, TypeOK, Pending!TypeOK, FailFastError
<1>2. Shape'
    BY DEF IInv, TypeOK, Pending!TypeOK, Shape, CallShape, HookShape, FailFastError,
        Goto, Issue, CreateEntry, Pending!Create
<1>3. Ownership'
    BY DEF IInv, TypeOK, Pending!TypeOK, Shape, CallShape, Ownership, FlowOwnership,
        TokenOwnership, IssuedTo, FailFastError, Issue, CreateEntry, Pending!Create
<1>4. SingleUse'
    BY DEF IInv, TypeOK, Pending!TypeOK, Shape, CallShape, HookShape, Ownership,
        FlowOwnership, IssuedTo, SingleUse, PoppedIsGone, StateUsedOnce, EntryLifetime, FailFastError, Goto, Issue, CreateEntry, Pending!Create
<1>5. OkMeansStored'
    BY DEF IInv, TypeOK, Pending!TypeOK, OkMeansStored, HasToken, FailFastError, Issue,
        CreateEntry, Pending!Create
<1>6. Sessions'
  <2>1. DistinctFlows'
    BY DEF IInv, TypeOK, Sessions, DistinctFlows, Ownership, FlowOwnership, IssuedTo,
        FailFastError, Issue
  <2>2. sessions' = sessions
    BY DEF IInv, TypeOK, Shape, CallShape, FailFastError, Goto
  <2>3. \A d \in Calls :
            IF d = c THEN pc[d] = "failfast" /\ state[d] = None /\ pc'[d] = "urlrequired"
            ELSE pc'[d] = pc[d] /\ state'[d] = state[d]
    BY DEF IInv, TypeOK, Shape, CallShape, FailFastError, Goto, Issue
  <2>4. \A x : x \in sessions' <=>
            x # None /\ \E d \in Calls : pc'[d] \in Running /\ state'[d] = x
    BY <2>2, <2>3 DEF IInv, Sessions, SessionsMatchFlows
  <2>. QED BY <2>1, <2>4 DEF Sessions, SessionsMatchFlows
<1>7. Provenance'
    BY IssueKeepsProvenance DEF IInv, TypeOK, Pending!TypeOK, FailFastError, Goto,
        CreateEntry, Pending!Create, Prompted
<1>. QED BY <1>1, <1>2, <1>3, <1>4, <1>5, <1>6, <1>7 DEF IInv

\* The new state is issued to the user of the call, its session opened.
LEMMA CreatePendingInv ==
    ASSUME IInv, NEW c \in Calls, NEW k \in States, CreatePending(c, k) PROVE IInv'
<1>1. TypeOK'
    BY CreateTyping DEF IInv, TypeOK, Shape, CallShape, CreatePending
<1>2. Shape'
    BY DEF IInv, TypeOK, Pending!TypeOK, Shape, CallShape, HookShape, CreatePending,
        Issue, CreateEntry, Pending!Create
<1>3. Ownership'
  <2>1. FlowOwnership'
    BY <1>1 DEF IInv, TypeOK, Pending!TypeOK, Ownership, FlowOwnership, IssuedTo,
        CreatePending, Issue, CreateEntry, Pending!Create
  <2>2. TokenOwnership'
    BY DEF IInv, TypeOK, Ownership, TokenOwnership, CreatePending, Issue
  <2>. QED BY <2>1, <2>2 DEF Ownership
<1>4. SingleUse'
    BY DEF IInv, TypeOK, Pending!TypeOK, Ownership, FlowOwnership, IssuedTo, SingleUse,
        PoppedIsGone, StateUsedOnce, EntryLifetime, CreatePending,
        Issue, CreateEntry, Pending!Create
<1>5. OkMeansStored'
    BY DEF IInv, TypeOK, Pending!TypeOK, OkMeansStored, HasToken, CreatePending, Issue,
        CreateEntry, Pending!Create
<1>6. Sessions'
  <2>1. DistinctFlows'
    BY DEF IInv, TypeOK, Sessions, DistinctFlows, Ownership, FlowOwnership, IssuedTo,
        CreatePending, Issue
  <2>2. sessions' = sessions \cup {k}
    BY DEF CreatePending
  <2>3. \A d \in Calls : IF d = c THEN state[d] = None /\ pc'[d] = "elicit" /\ state'[d] = k
                         ELSE pc'[d] = pc[d] /\ state'[d] = state[d]
    BY DEF IInv, TypeOK, Shape, CallShape, CreatePending, Issue
  <2>4. \A x : x \in sessions' <=>
            x # None /\ \E d \in Calls : pc'[d] \in Running /\ state'[d] = x
    BY <2>2, <2>3 DEF IInv, Sessions, SessionsMatchFlows
  <2>. QED BY <2>1, <2>4 DEF Sessions, SessionsMatchFlows
<1>7. Provenance'
  <2>1. user[c] \in Subs /\ now \in Nat /\ now + LinkTTL \in Nat
    BY LinkTTLNat DEF IInv, TypeOK, Pending!TypeOK, Shape, CallShape, CreatePending
  <2>2. pending'[k] # None
    BY <2>1 DEF IInv, TypeOK, Pending!TypeOK, CreatePending, CreateEntry, Pending!Create
  <2>. QED BY <2>2, IssueKeepsProvenance DEF IInv, TypeOK, Pending!TypeOK, CreatePending,
      CreateEntry, Pending!Create
<1>. QED BY <1>1, <1>2, <1>3, <1>4, <1>5, <1>6, <1>7 DEF IInv

\* A call that leaves a step, and with it a wait, without touching anything else
\* but the result it waited for.
LEMMA LeaveInv ==
    ASSUME IInv, NEW c \in Calls, pc[c] \in Running,
           NEW p \in {"error", "notcompleted", "crashed", "declining"}, Goto(c, p),
           p = "declining" => pc[c] = "elicit",
           Pending!TypeOK',
           \A d \in Calls : waiting'[d] = IF d = c THEN None ELSE waiting[d],
           \A k \in States : done'[k] \in {done[k], None},
           UNCHANGED <<now, pending, signal, tokens, user, state, held, hookVars, history>>
    PROVE  IInv'
<1>1. TypeOK'
    BY GotoTyping DEF IInv, TypeOK
<1>2. \A d \in Calls : pc'[d] = IF d = c THEN p ELSE pc[d]
    BY DEF IInv, TypeOK, Goto
<1>3. Shape'
    BY <1>2 DEF IInv, Shape, CallShape, HookShape
<1>4. Ownership'
    BY DEF IInv, Ownership, FlowOwnership, TokenOwnership, IssuedTo
<1>5. SingleUse'
    BY <1>2 DEF IInv, SingleUse, PoppedIsGone, StateUsedOnce, EntryLifetime
<1>6. OkMeansStored'
    BY DEF IInv, OkMeansStored, HasToken
<1>7. Sessions'
    BY GotoKeepsSessions
<1>8. Provenance'
    BY <1>2, ProvenanceStep DEF IInv, Provenance, TokensFromRedirects, Prompted
<1>. QED BY <1>1, <1>3, <1>4, <1>5, <1>6, <1>7, <1>8 DEF IInv

\* No state was issued when Create fails.
LEMMA CreateFailedInv ==
    ASSUME IInv, NEW c \in Calls, CreateFailed(c) PROVE IInv'
<1>1. /\ Pending!TypeOK'
      /\ \A d \in Calls : waiting'[d] = IF d = c THEN None ELSE waiting[d]
      /\ \A k \in States : done'[k] \in {done[k], None}
    BY DEF IInv, TypeOK, Pending!TypeOK, Shape, CallShape, CreateFailed
<1>. QED BY <1>1, LeaveInv DEF CreateFailed

\* The call starts to wait for its own state.
LEMMA ElicitAcceptInv ==
    ASSUME IInv, NEW c \in Calls, ElicitAccept(c) PROVE IInv'
<1>1. TypeOK'
    BY DEF IInv, TypeOK, Pending!TypeOK, Shape, CallShape, ElicitAccept, Goto,
        Pending!StartWait
<1>2. Shape'
    BY DEF IInv, TypeOK, Pending!TypeOK, Shape, CallShape, HookShape, ElicitAccept,
        Goto, Pending!StartWait
<1>3. Ownership'
    BY DEF IInv, TypeOK, Pending!TypeOK, Ownership, FlowOwnership, TokenOwnership,
        IssuedTo, ElicitAccept, Pending!StartWait
<1>4. SingleUse'
    BY DEF IInv, TypeOK, Pending!TypeOK, SingleUse, PoppedIsGone, StateUsedOnce,
        EntryLifetime, ElicitAccept, Goto, Pending!StartWait
<1>5. OkMeansStored'
    BY DEF IInv, TypeOK, Pending!TypeOK, OkMeansStored, HasToken, ElicitAccept,
        Pending!StartWait
<1>6. Sessions'
  <2>1. pc[c] \in {"idle"} \cup Running /\ UNCHANGED state
    BY DEF ElicitAccept
  <2>2. \E p \in Running \cup Ended : Goto(c, p)
    BY DEF ElicitAccept, OnMiss
  <2>. QED BY <2>1, <2>2, GotoKeepsSessions
<1>7. Provenance'
    BY ProvenanceStep DEF IInv, TypeOK, Pending!TypeOK, Provenance,
        TokensFromRedirects, Prompted, ElicitAccept, Goto, Pending!StartWait
<1>. QED BY <1>1, <1>2, <1>3, <1>4, <1>5, <1>6, <1>7 DEF IInv

\* A decline changes nothing before the Pop.
LEMMA ElicitDeclineInv ==
    ASSUME IInv, NEW c \in Calls, ElicitDecline(c) PROVE IInv'
<1>1. /\ Pending!TypeOK'
      /\ \A d \in Calls : waiting'[d] = IF d = c THEN None ELSE waiting[d]
      /\ \A k \in States : done'[k] \in {done[k], None}
    BY DEF IInv, TypeOK, Pending!TypeOK, Shape, CallShape, ElicitDecline
<1>. QED BY <1>1, LeaveInv DEF ElicitDecline

\* The Pop of a declined prompt removes the entry for good.
LEMMA DeclinePopInv ==
    ASSUME IInv, NEW c \in Calls, DeclinePop(c) PROVE IInv'
<1>1. TypeOK'
  <2>1. Pending!TypeOK'
    BY DEF IInv, TypeOK, Pending!TypeOK, DeclinePop, Pending!Pop
  <2>2. withdrawn' \subseteq States
    BY DEF IInv, TypeOK, Shape, CallShape, DeclinePop, Withdraw
  <2>. QED BY <2>1, <2>2, GotoTyping DEF IInv, TypeOK, Pending!TypeOK, DeclinePop
<1>2. Shape'
    BY DEF IInv, TypeOK, Pending!TypeOK, Shape, CallShape, HookShape, DeclinePop, Goto,
        Pending!Pop
<1>3. Ownership'
  <2>1. FlowOwnership'
    BY DEF IInv, Ownership, FlowOwnership, IssuedTo, TypeOK, Pending!TypeOK, Shape,
        DeclinePop, Pending!Pop
  <2>2. TokenOwnership'
    BY DEF IInv, Ownership, TokenOwnership, DeclinePop
  <2>. QED BY <2>1, <2>2 DEF Ownership
<1>4. SingleUse'
    BY DEF IInv, TypeOK, Pending!TypeOK, Shape, CallShape, HookShape, SingleUse,
        PoppedIsGone, StateUsedOnce, EntryLifetime, DeclinePop,
        Goto, Pending!Pop
<1>5. OkMeansStored'
    BY DEF IInv, TypeOK, Pending!TypeOK, OkMeansStored, HasToken, DeclinePop, Pending!Pop
<1>6. Sessions'
  <2>1. pc[c] \in {"idle"} \cup Running /\ UNCHANGED state
    BY DEF DeclinePop
  <2>2. \E p \in Running \cup Ended : Goto(c, p)
    BY DEF DeclinePop, OnMiss
  <2>. QED BY <2>1, <2>2, GotoKeepsSessions
<1>7. Provenance'
  <2>1. CASE UNCHANGED <<storeVars, withdrawn>>
    BY <2>1, ProvenanceStep DEF IInv, TypeOK, Provenance, TokensFromRedirects, Prompted,
        DeclinePop, Goto
  <2>2. CASE Pending!Pop(state[c]) /\ Withdraw(state[c])
    <3>1. \A j : Redeemed(j)' <=> Redeemed(j)
        BY DEF DeclinePop, Redeemed
    <3>2. TokensFromRedirects'
        BY <3>1 DEF IInv, Provenance, TokensFromRedirects, DeclinePop
    <3>3. state[c] \in States /\ issued[state[c]] # None
        BY DEF IInv, Shape, CallShape, Ownership, FlowOwnership, IssuedTo, DeclinePop
    <3>4. pending[state[c]] # None => ~Redeemed(state[c])
        BY DEF IInv, SingleUse, PoppedIsGone, Redeemed
    <3>5. WithdrawnIsGone'
        BY <2>2, <3>1, <3>3, <3>4 DEF IInv, TypeOK, Pending!TypeOK, Provenance,
            WithdrawnIsGone, DeclinePop, Pending!Pop, Withdraw
    <3>6. ASSUME NEW d \in Calls, pc'[d] \in Prompted
          PROVE  d # c /\ pc[d] \in Prompted /\ pending'[state[d]] = pending[state[d]]
      <4>1. d # c /\ pc[d] \in Prompted
        BY <3>6 DEF IInv, TypeOK, DeclinePop, Goto, Prompted
      <4>2. state[d] \in States /\ state[d] # state[c]
        BY <3>3, <4>1 DEF IInv, Shape, CallShape, Sessions, DistinctFlows, Prompted
      <4>. QED BY <2>2, <4>1, <4>2 DEF IInv, TypeOK, Pending!TypeOK, Pending!Pop
    <3>7. EntryIsKept'
        BY <2>2, <3>1, <3>6 DEF IInv, Provenance, EntryIsKept, DeclinePop, Pending!Pop
    <3>. QED BY <3>2, <3>5, <3>7 DEF Provenance
  <2>. QED BY <2>1, <2>2 DEF DeclinePop
<1>. QED BY <1>1, <1>2, <1>3, <1>4, <1>5, <1>6, <1>7 DEF IInv

\* A failing client: the entry stays, the session goes.
LEMMA ElicitErrorInv ==
    ASSUME IInv, NEW c \in Calls, ElicitError(c) PROVE IInv'
<1>1. /\ Pending!TypeOK'
      /\ \A d \in Calls : waiting'[d] = IF d = c THEN None ELSE waiting[d]
      /\ \A k \in States : done'[k] \in {done[k], None}
    BY DEF IInv, TypeOK, Pending!TypeOK, Shape, CallShape, ElicitError
<1>. QED BY <1>1, LeaveInv DEF ElicitError

\* An "ok" the call is given was recorded after the store.
LEMMA SignalledInv ==
    ASSUME IInv, NEW c \in Calls, Signalled(c) PROVE IInv'
<1>1. TypeOK'
    BY DEF IInv, TypeOK, Pending!TypeOK, Signalled, Goto, Pending!Deliver
<1>2. Shape'
    BY DEF IInv, TypeOK, Pending!TypeOK, Shape, CallShape, HookShape, Signalled, Goto,
        Pending!Deliver
<1>3. Ownership'
    BY DEF IInv, TypeOK, Pending!TypeOK, Ownership, FlowOwnership, TokenOwnership,
        IssuedTo, Signalled, Pending!Deliver
<1>4. SingleUse'
    BY DEF IInv, TypeOK, Pending!TypeOK, SingleUse, PoppedIsGone, StateUsedOnce,
        EntryLifetime, Signalled, Goto, Pending!Deliver
<1>5. OkMeansStored'
    BY DEF IInv, TypeOK, Pending!TypeOK, Shape, CallShape, Ownership, FlowOwnership,
        IssuedTo, OkMeansStored, HasToken, Signalled, Pending!Deliver
<1>6. Sessions'
  <2>1. pc[c] \in {"idle"} \cup Running /\ UNCHANGED state
    BY DEF Signalled
  <2>2. \E p \in Running \cup Ended : Goto(c, p)
    BY DEF Signalled, OnMiss
  <2>. QED BY <2>1, <2>2, GotoKeepsSessions
<1>7. Provenance'
    BY ProvenanceStep DEF IInv, TypeOK, Pending!TypeOK, Provenance,
        TokensFromRedirects, Prompted, Signalled, Goto, Pending!Deliver
<1>. QED BY <1>1, <1>2, <1>3, <1>4, <1>5, <1>6, <1>7 DEF IInv

\* A timeout leaves the stores alone.
LEMMA WaitTimeoutInv ==
    ASSUME IInv, NEW c \in Calls, WaitTimeout(c) PROVE IInv'
<1>1. /\ Pending!TypeOK'
      /\ \A d \in Calls : waiting'[d] = IF d = c THEN None ELSE waiting[d]
      /\ \A k \in States : done'[k] \in {done[k], None}
    BY DEF IInv, TypeOK, Pending!TypeOK, Shape, CallShape, WaitTimeout, Pending!TimeOut
<1>. QED BY <1>1, LeaveInv DEF WaitTimeout, Pending!TimeOut

\* An aborted wait gives up its place and at most the result it waited for.
LEMMA AbortLeaves ==
    ASSUME IInv, NEW c \in Calls, Pending!Abort(c)
    PROVE  /\ Pending!TypeOK'
           /\ \A d \in Calls : waiting'[d] = IF d = c THEN None ELSE waiting[d]
           /\ \A k \in States : done'[k] \in {done[k], None}
<1>1. waiting[c].key \in States
    BY DEF IInv, TypeOK, Pending!TypeOK, Pending!Abort
<1>2. /\ waiting' \in [Calls -> Pending!Wait \cup {None}]
      /\ \A d \in Calls : waiting'[d] = IF d = c THEN None ELSE waiting[d]
    BY DEF IInv, TypeOK, Pending!TypeOK, Pending!Abort
<1>3. /\ done' \in [States -> Pending!DoneEntry \cup {None}]
      /\ \A k \in States : done'[k] \in {done[k], None}
    BY <1>1 DEF IInv, TypeOK, Pending!TypeOK, Pending!Abort
<1>. QED BY <1>2, <1>3 DEF IInv, TypeOK, Pending!TypeOK, Pending!Abort

\* A cancelled context or a failing backend ends the wait.
LEMMA WaitAbortInv ==
    ASSUME IInv, NEW c \in Calls, WaitAbort(c) PROVE IInv'
<1>1. /\ Pending!TypeOK'
      /\ \A d \in Calls : waiting'[d] = IF d = c THEN None ELSE waiting[d]
      /\ \A k \in States : done'[k] \in {done[k], None}
    BY AbortLeaves DEF WaitAbort
<1>. QED BY <1>1, LeaveInv DEF WaitAbort, Pending!Abort

\* A crash takes at most the awaited result along, whatever the call was doing.
LEMMA CrashCallInv ==
    ASSUME IInv, NEW c \in Calls, CrashCall(c) PROVE IInv'
<1>1. /\ Pending!TypeOK'
      /\ \A d \in Calls : waiting'[d] = IF d = c THEN None ELSE waiting[d]
      /\ \A k \in States : done'[k] \in {done[k], None}
  <2>1. CASE pc[c] = "wait"
    BY <2>1, AbortLeaves DEF CrashCall
  <2>2. CASE pc[c] # "wait"
    BY <2>2 DEF IInv, TypeOK, Pending!TypeOK, Shape, CallShape, CrashCall
  <2>. QED BY <2>1, <2>2
<1>. QED BY <1>1, LeaveInv DEF CrashCall, Pending!Abort

(***************************************************************************)
(* The actions of a callback.                                              *)
(***************************************************************************)

\* An error redirect records a result for an issued state, never "ok".
LEMMA CallbackErrorInv ==
    ASSUME IInv, NEW h \in Callbacks, NEW k \in States, CallbackError(h, k) PROVE IInv'
<1>1. TypeOK'
    BY DEF IInv, TypeOK, Pending!TypeOK, CallbackError, HookGoto, Pending!SetResult
<1>2. Shape'
    BY DEF IInv, TypeOK, Pending!TypeOK, Shape, CallShape, HookShape, CallbackError,
        HookGoto, Pending!SetResult
<1>3. Ownership'
    BY DEF IInv, TypeOK, Pending!TypeOK, Shape, HookShape, Ownership, FlowOwnership,
        TokenOwnership, IssuedTo, CallbackError, Pending!SetResult
<1>4. SingleUse'
    BY DEF IInv, TypeOK, Pending!TypeOK, Shape, HookShape, SingleUse, PoppedIsGone,
        StateUsedOnce, EntryLifetime, CallbackError,
        Pending!SetResult
<1>5. OkMeansStored'
    BY DEF IInv, TypeOK, Pending!TypeOK, OkMeansStored, HasToken, CallbackError,
        HookGoto, Pending!SetResult
<1>6. Sessions'
    BY DEF IInv, TypeOK, Sessions, DistinctFlows, SessionsMatchFlows, CallbackError
<1>7. Provenance'
  <2>1. hsub[h] = None
    BY DEF IInv, Shape, HookShape, CallbackError
  <2>2. \A j : Redeemed(j)' <=> Redeemed(j)
    BY <2>1 DEF IInv, TypeOK, Redeemed, CallbackError
  <2>. QED BY <2>2 DEF IInv, Provenance, TokensFromRedirects, WithdrawnIsGone, EntryIsKept,
      CallbackError, Pending!SetResult
<1>. QED BY <1>1, <1>2, <1>3, <1>4, <1>5, <1>6, <1>7 DEF IInv

\* The callback that gets the entry takes its subject; nobody else popped it,
\* for then it would not be there.
LEMMA CallbackPopInv ==
    ASSUME IInv, NEW h \in Callbacks, NEW k \in States, CallbackPop(h, k) PROVE IInv'
<1>1. TypeOK'
  <2>1. Pending!TypeOK'
    BY DEF IInv, TypeOK, Pending!TypeOK, CallbackPop, Pending!Pop
  <2>2. hsub' \in [Callbacks -> Subs \cup {None}]
    BY DEF IInv, TypeOK, Pending!TypeOK, CallbackPop, Pending!Lookup, Pending!Live
  <2>3. /\ hpc' \in [Callbacks -> {"idle"} \cup HookRunning \cup HookEnded]
        /\ hstate' \in [Callbacks -> States \cup {None}]
    BY DEF IInv, TypeOK, CallbackPop, HookGoto
  <2>. QED BY <2>1, <2>2, <2>3 DEF IInv, TypeOK, CallbackPop
<1>2. Shape'
    BY DEF IInv, TypeOK, Pending!TypeOK, Shape, CallShape, HookShape, CallbackPop,
        HookGoto, Pending!Pop, Pending!Lookup, Pending!Live
<1>3. Ownership'
  <2>1. FlowOwnership'
    BY DEF IInv, TypeOK, Pending!TypeOK, Shape, HookShape, Ownership, FlowOwnership,
        IssuedTo, CallbackPop, Pending!Pop, Pending!Lookup, Pending!Live
  <2>2. TokenOwnership'
    BY DEF IInv, TypeOK, Ownership, TokenOwnership, CallbackPop
  <2>. QED BY <2>1, <2>2 DEF Ownership
<1>4. SingleUse'
    BY <1>1 DEF IInv, TypeOK, Pending!TypeOK, Shape, CallShape, HookShape, SingleUse,
        PoppedIsGone, StateUsedOnce, EntryLifetime, CallbackPop,
        Pending!Pop, Pending!Lookup, Pending!Live
<1>5. OkMeansStored'
  <2>1. \A g \in Callbacks : hpc'[g] = "signal" => g # h
    BY DEF IInv, TypeOK, CallbackPop, HookGoto
  <2>2. \A g \in Callbacks : g # h => hpc'[g] = hpc[g] /\ hsub'[g] = hsub[g]
    BY DEF IInv, TypeOK, CallbackPop, HookGoto
  <2>3. UNCHANGED <<done, signal, user, issued, tokens, erased>>
    BY DEF CallbackPop, Pending!Pop
  <2>. QED BY <2>1, <2>2, <2>3 DEF IInv, OkMeansStored, HasToken
<1>6. Sessions'
    BY DEF IInv, TypeOK, Sessions, DistinctFlows, SessionsMatchFlows, CallbackPop
<1>7. Provenance'
  <2>1. hsub[h] = None
    BY DEF IInv, Shape, HookShape, CallbackPop
  <2>2. \A j : Redeemed(j) => Redeemed(j)'
    BY <2>1 DEF IInv, TypeOK, Redeemed, CallbackPop
  <2>3. \A j : Redeemed(j)' => Redeemed(j) \/ (j = k /\ Pending!Live(k))
    BY <2>1 DEF IInv, TypeOK, Redeemed, CallbackPop, Pending!Lookup
  <2>4. TokensFromRedirects'
    BY <2>2 DEF IInv, Provenance, TokensFromRedirects, CallbackPop
  <2>5. WithdrawnIsGone'
    BY <2>3 DEF IInv, TypeOK, Pending!TypeOK, Provenance, WithdrawnIsGone, CallbackPop,
        Pending!Pop, Pending!Live
  <2>6. pending'[k] # None \/ Redeemed(k)' \/ pending[k] = None
            \/ now > issued[k].at + LinkTTL
    <3>1. CASE UNCHANGED storeVars
        BY <3>1
    <3>2. CASE Pending!Live(k) /\ hsub' = [hsub EXCEPT ![h] = Pending!Lookup(k)]
        BY <3>2 DEF IInv, TypeOK, Pending!TypeOK, Redeemed, CallbackPop, Pending!Lookup,
            Pending!Live
    <3>3. CASE ~Pending!Live(k)
        BY <3>3, LinkTTLNat DEF IInv, TypeOK, Pending!TypeOK, Ownership, FlowOwnership,
            IssuedTo, SingleUse, EntryLifetime, Pending!Live
    <3>. QED BY <3>1, <3>2, <3>3 DEF CallbackPop
  <2>7. \A j \in States : j # k => pending'[j] = pending[j]
    BY DEF IInv, TypeOK, Pending!TypeOK, CallbackPop, Pending!Pop
  <2>8. \A d \in Calls : pc[d] \in Prompted => state[d] \in States
    BY DEF IInv, Shape, CallShape, Prompted
  <2>9. EntryIsKept'
    BY <2>2, <2>6, <2>7, <2>8 DEF IInv, Provenance, EntryIsKept, CallbackPop, Pending!Pop
  <2>. QED BY <2>4, <2>5, <2>9 DEF Provenance
<1>. QED BY <1>1, <1>2, <1>3, <1>4, <1>5, <1>6, <1>7 DEF IInv

\* A malformed redirect changes nothing.
LEMMA CallbackMalformedInv ==
    ASSUME IInv, NEW h \in Callbacks, CallbackMalformed(h) PROVE IInv'
<1>1. TypeOK'
    BY DEF IInv, TypeOK, Pending!TypeOK, CallbackMalformed, HookGoto
<1>2. Shape'
    BY DEF IInv, TypeOK, Shape, CallShape, HookShape, CallbackMalformed, HookGoto
<1>3. Ownership'
    BY DEF IInv, Ownership, FlowOwnership, TokenOwnership, IssuedTo, CallbackMalformed
<1>4. SingleUse'
    BY DEF IInv, SingleUse, PoppedIsGone, StateUsedOnce, EntryLifetime, CallbackMalformed
<1>5. OkMeansStored'
    BY DEF IInv, TypeOK, OkMeansStored, HasToken, CallbackMalformed, HookGoto
<1>6. Sessions'
    BY DEF IInv, Sessions, DistinctFlows, SessionsMatchFlows, CallbackMalformed
<1>7. Provenance'
    BY ProvenanceStep DEF IInv, TypeOK, Pending!TypeOK, Provenance,
        TokensFromRedirects, Prompted, CallbackMalformed
<1>. QED BY <1>1, <1>2, <1>3, <1>4, <1>5, <1>6, <1>7 DEF IInv

\* The token in the hands of a callback descends from the state it popped.
LEMMA ExchangeInv ==
    ASSUME IInv, NEW h \in Callbacks, Exchange(h) PROVE IInv'
<1>1. TypeOK'
  <2>1. CASE UNCHANGED hheld
    BY <2>1 DEF IInv, TypeOK, Pending!TypeOK, Exchange, HookGoto
  <2>2. ASSUME NEW r \in Responses, hheld' = [hheld EXCEPT ![h] = Normalize(hstate[h], r)]
        PROVE  TypeOK'
    <3>1. hstate[h] \in States /\ now \in Nat
        BY DEF IInv, TypeOK, Pending!TypeOK, Shape, HookShape, Exchange
    <3>2. Normalize(hstate[h], r) \in TokenEntry
        BY <3>1, NormalizeTyping
    <3>. QED BY <2>2, <3>2 DEF IInv, TypeOK, Pending!TypeOK, Exchange, HookGoto
  <2>. QED BY <2>1, <2>2 DEF Exchange, TokenAnswers
<1>2. Shape'
  <2>1. hpc'[h] = "store" => hheld'[h] \in TokenEntry /\ hheld'[h].flow = hstate[h]
    <3>1. hstate[h] \in States /\ now \in Nat
        BY DEF IInv, TypeOK, Pending!TypeOK, Shape, HookShape, Exchange
    <3>2. hpc'[h] = "store" =>
            \E r \in Responses : hheld' = [hheld EXCEPT ![h] = Normalize(hstate[h], r)]
        BY DEF IInv, TypeOK, Exchange, HookGoto, TokenAnswers
    <3>3. ASSUME NEW r \in Responses, hheld' = [hheld EXCEPT ![h] = Normalize(hstate[h], r)]
          PROVE  hheld'[h] = Normalize(hstate[h], r)
        BY <3>3 DEF IInv, TypeOK
    <3>4. \A r \in Responses : Normalize(hstate[h], r) \in TokenEntry
                                /\ Normalize(hstate[h], r).flow = hstate[h]
        BY <3>1, NormalizeTyping
    <3>. QED BY <3>2, <3>3, <3>4
  <2>. QED BY <1>1, <2>1 DEF IInv, TypeOK, Shape, CallShape, HookShape, Exchange, HookGoto
<1>3. Ownership'
    BY DEF IInv, TypeOK, Ownership, FlowOwnership, TokenOwnership, IssuedTo, Exchange,
        TokenAnswers
<1>4. SingleUse'
    BY DEF IInv, TypeOK, SingleUse, PoppedIsGone, StateUsedOnce, EntryLifetime, Exchange, TokenAnswers
<1>5. OkMeansStored'
    BY DEF IInv, TypeOK, OkMeansStored, HasToken, Exchange, HookGoto, TokenAnswers
<1>6. Sessions'
    BY DEF IInv, TypeOK, Sessions, DistinctFlows, SessionsMatchFlows, Exchange
<1>7. Provenance'
    BY ProvenanceStep DEF IInv, TypeOK, Pending!TypeOK, Provenance,
        TokensFromRedirects, Prompted, Exchange
<1>. QED BY <1>1, <1>2, <1>3, <1>4, <1>5, <1>6, <1>7 DEF IInv

\* A failed exchange is signalled as an error.
LEMMA SignalFailureInv ==
    ASSUME IInv, NEW h \in Callbacks, SignalFailure(h) PROVE IInv'
<1>1. TypeOK'
    BY DEF IInv, TypeOK, Pending!TypeOK, SignalFailure, HookGoto, Pending!SetResult
<1>2. Shape'
    BY DEF IInv, TypeOK, Pending!TypeOK, Shape, CallShape, HookShape, SignalFailure,
        HookGoto, Pending!SetResult
<1>3. Ownership'
    BY DEF IInv, TypeOK, Pending!TypeOK, Ownership, FlowOwnership, TokenOwnership,
        IssuedTo, SignalFailure, Pending!SetResult
<1>4. SingleUse'
    BY DEF IInv, TypeOK, Pending!TypeOK, SingleUse, PoppedIsGone, StateUsedOnce,
        EntryLifetime, SignalFailure, Pending!SetResult
<1>5. OkMeansStored'
    BY DEF IInv, TypeOK, Pending!TypeOK, Shape, HookShape, Ownership, FlowOwnership,
        IssuedTo, OkMeansStored, HasToken, SignalFailure, HookGoto, Pending!SetResult
<1>6. Sessions'
    BY DEF IInv, Sessions, DistinctFlows, SessionsMatchFlows, SignalFailure
<1>7. Provenance'
    BY ProvenanceStep DEF IInv, TypeOK, Pending!TypeOK, Provenance,
        TokensFromRedirects, Prompted, SignalFailure, Pending!SetResult
<1>. QED BY <1>1, <1>2, <1>3, <1>4, <1>5, <1>6, <1>7 DEF IInv

\* The token is stored for the subject the state was issued to, and only then
\* the callback goes on to signal.
LEMMA StoreTokenInv ==
    ASSUME IInv, NEW h \in Callbacks, StoreToken(h) PROVE IInv'
<1>1. TypeOK'
  <2>1. tokens' \in [Subs -> TokenEntry \cup {None}] /\ erased' \subseteq Subs
    BY DEF IInv, TypeOK, StoreToken, PutToken
  <2>2. hpc' \in [Callbacks -> {"idle"} \cup HookRunning \cup HookEnded]
    BY DEF IInv, TypeOK, StoreToken, HookGoto
  <2>. QED BY <2>1, <2>2 DEF IInv, TypeOK, Pending!TypeOK, StoreToken
<1>2. Shape'
    BY DEF IInv, TypeOK, Pending!TypeOK, Shape, CallShape, HookShape, StoreToken,
        HookGoto, PutToken
<1>3. Ownership'
    BY DEF IInv, TypeOK, Pending!TypeOK, Shape, HookShape, Ownership, FlowOwnership,
        TokenOwnership, IssuedTo, StoreToken, PutToken
<1>4. SingleUse'
    BY DEF IInv, TypeOK, SingleUse, PoppedIsGone, StateUsedOnce, EntryLifetime, StoreToken, PutToken
<1>5. OkMeansStored'
  <2>1. TypeOK /\ hsub[h] \in Subs /\ hheld[h] \in TokenEntry
    BY DEF IInv, TypeOK, Shape, HookShape, StoreToken
  <2>2. \A t \in Subs : HasToken(t) => HasToken(t)'
    <3>1. CASE PutToken(hsub[h], hheld[h])
        BY <2>1, <3>1, PutKeepsTokens
    <3>2. CASE UNCHANGED <<tokens, erased>>
        BY <3>2 DEF HasToken
    <3>. QED BY <3>1, <3>2 DEF StoreToken
  <2>3. hpc'[h] = "signal" => HasToken(hsub[h])'
    <3>1. CASE PutToken(hsub[h], hheld[h])
        BY <2>1, <3>1 DEF TypeOK, PutToken, HasToken, StoreToken
    <3>2. CASE HookGoto(h, "storefailed")
        BY <2>1, <3>2 DEF TypeOK, HookGoto
    <3>. QED BY <3>1, <3>2 DEF StoreToken
  <2>4. \A g \in Callbacks : g # h => hpc'[g] = hpc[g]
    BY DEF IInv, TypeOK, StoreToken, HookGoto
  <2>. QED BY <2>2, <2>3, <2>4 DEF IInv, TypeOK, Pending!TypeOK, Shape, CallShape,
      HookShape, OkMeansStored, HasToken, StoreToken
<1>6. Sessions'
    BY DEF IInv, Sessions, DistinctFlows, SessionsMatchFlows, StoreToken
<1>7. Provenance'
    BY ProvenanceStep DEF IInv, TypeOK, Pending!TypeOK, Provenance,
        TokensFromRedirects, Prompted, StoreToken, PutToken, Shape, HookShape,
        Redeemed
<1>. QED BY <1>1, <1>2, <1>3, <1>4, <1>5, <1>6, <1>7 DEF IInv

\* "ok" is recorded after the store.
LEMMA SignalSuccessInv ==
    ASSUME IInv, NEW h \in Callbacks, SignalSuccess(h) PROVE IInv'
<1>1. TypeOK'
  <2>1. CASE Pending!SetResult(hstate[h], "ok", ResultTTL)
    <3>1. hstate[h] \in States
        BY DEF IInv, Shape, HookShape, SignalSuccess
    <3>2. Pending!TypeOK'
        BY <2>1, <3>1 DEF IInv, TypeOK, Pending!TypeOK, Pending!SetResult
    <3>. QED BY <3>2 DEF IInv, TypeOK, Pending!TypeOK, SignalSuccess, HookGoto
  <2>2. CASE UNCHANGED storeVars
    BY <2>2 DEF IInv, TypeOK, Pending!TypeOK, SignalSuccess, HookGoto
  <2>. QED BY <2>1, <2>2 DEF SignalSuccess
<1>2. Shape'
    BY DEF IInv, TypeOK, Shape, CallShape, HookShape, SignalSuccess, HookGoto,
        Pending!SetResult
<1>3. Ownership'
    BY DEF IInv, TypeOK, Pending!TypeOK, Ownership, FlowOwnership, TokenOwnership,
        IssuedTo, SignalSuccess, Pending!SetResult
<1>4. SingleUse'
    BY DEF IInv, TypeOK, Pending!TypeOK, SingleUse, PoppedIsGone, StateUsedOnce,
        EntryLifetime, SignalSuccess, Pending!SetResult
<1>5. OkMeansStored'
    BY DEF IInv, TypeOK, Pending!TypeOK, Shape, HookShape, Ownership, FlowOwnership,
        IssuedTo, OkMeansStored, HasToken, SignalSuccess, HookGoto, Pending!SetResult
<1>6. Sessions'
    BY DEF IInv, Sessions, DistinctFlows, SessionsMatchFlows, SignalSuccess
<1>7. Provenance'
    BY ProvenanceStep DEF IInv, TypeOK, Pending!TypeOK, Provenance,
        TokensFromRedirects, Prompted, SignalSuccess, Pending!SetResult
<1>. QED BY <1>1, <1>2, <1>3, <1>4, <1>5, <1>6, <1>7 DEF IInv

\* A crashed callback keeps the state it popped out of reach.
LEMMA CrashCallbackInv ==
    ASSUME IInv, NEW h \in Callbacks, CrashCallback(h) PROVE IInv'
<1>1. TypeOK'
    BY DEF IInv, TypeOK, Pending!TypeOK, CrashCallback, HookGoto
<1>2. Shape'
    BY DEF IInv, TypeOK, Shape, CallShape, HookShape, CrashCallback, HookGoto
<1>3. Ownership'
    BY DEF IInv, Ownership, FlowOwnership, TokenOwnership, IssuedTo, CrashCallback
<1>4. SingleUse'
    BY DEF IInv, SingleUse, PoppedIsGone, StateUsedOnce, EntryLifetime, CrashCallback
<1>5. OkMeansStored'
    BY DEF IInv, TypeOK, OkMeansStored, HasToken, CrashCallback, HookGoto
<1>6. Sessions'
    BY DEF IInv, Sessions, DistinctFlows, SessionsMatchFlows, CrashCallback
<1>7. Provenance'
    BY ProvenanceStep DEF IInv, TypeOK, Pending!TypeOK, Provenance,
        TokensFromRedirects, Prompted, CrashCallback
<1>. QED BY <1>1, <1>2, <1>3, <1>4, <1>5, <1>6, <1>7 DEF IInv

(***************************************************************************)
(* The rest of the system.                                                 *)
(***************************************************************************)

\* An invalidation is on record.
LEMMA InvalidateTokenInv ==
    ASSUME IInv, NEW s \in Subs, InvalidateToken(s) PROVE IInv'
<1>1. TypeOK'
    BY DEF IInv, TypeOK, Pending!TypeOK, InvalidateToken, DeleteToken
<1>2. Shape'
    BY DEF IInv, TypeOK, Shape, CallShape, HookShape, InvalidateToken, DeleteToken
<1>3. Ownership'
    BY DEF IInv, TypeOK, Ownership, FlowOwnership, TokenOwnership, IssuedTo,
        InvalidateToken, DeleteToken
<1>4. SingleUse'
    BY DEF IInv, TypeOK, SingleUse, PoppedIsGone, StateUsedOnce, EntryLifetime, InvalidateToken, DeleteToken
<1>5. OkMeansStored'
    BY DEF IInv, TypeOK, OkMeansStored, HasToken, InvalidateToken, DeleteToken
<1>6. Sessions'
    BY DEF IInv, Sessions, DistinctFlows, SessionsMatchFlows, InvalidateToken
<1>7. Provenance'
    BY ProvenanceStep DEF IInv, TypeOK, Pending!TypeOK, Provenance,
        TokensFromRedirects, Prompted, InvalidateToken, DeleteToken
<1>. QED BY <1>1, <1>2, <1>3, <1>4, <1>5, <1>6, <1>7 DEF IInv

\* A result that lapses takes no promise with it.
LEMMA LapseResultInv ==
    ASSUME IInv, NEW k \in States, LapseResult(k) PROVE IInv'
<1>1. TypeOK'
    BY DEF IInv, TypeOK, Pending!TypeOK, LapseResult, Pending!Lapse
<1>2. Shape'
    BY DEF IInv, TypeOK, Pending!TypeOK, Shape, CallShape, HookShape, LapseResult,
        Pending!Lapse
<1>3. Ownership'
    BY DEF IInv, TypeOK, Pending!TypeOK, Ownership, FlowOwnership, TokenOwnership,
        IssuedTo, LapseResult, Pending!Lapse
<1>4. SingleUse'
    BY DEF IInv, TypeOK, Pending!TypeOK, SingleUse, PoppedIsGone, StateUsedOnce,
        EntryLifetime, LapseResult, Pending!Lapse
<1>5. OkMeansStored'
    BY DEF IInv, TypeOK, Pending!TypeOK, OkMeansStored, HasToken, LapseResult, Pending!Lapse
<1>6. Sessions'
    BY DEF IInv, Sessions, DistinctFlows, SessionsMatchFlows, LapseResult
<1>7. Provenance'
    BY ProvenanceStep DEF IInv, TypeOK, Pending!TypeOK, Provenance,
        TokensFromRedirects, Prompted, LapseResult, Pending!Lapse
<1>. QED BY <1>1, <1>2, <1>3, <1>4, <1>5, <1>6, <1>7 DEF IInv

\* Time passes.
LEMMA TickInv ==
    ASSUME IInv, Tick PROVE IInv'
<1>1. TypeOK'
    BY DEF IInv, TypeOK, Pending!TypeOK, Tick, Pending!Tick
<1>2. Shape'
    BY DEF IInv, Shape, CallShape, HookShape, Tick, Pending!Tick
<1>3. Ownership'
    BY DEF IInv, Ownership, FlowOwnership, TokenOwnership, IssuedTo, Tick, Pending!Tick
<1>4. SingleUse'
    BY DEF IInv, SingleUse, PoppedIsGone, StateUsedOnce, EntryLifetime, Tick, Pending!Tick
<1>5. OkMeansStored'
    BY DEF IInv, OkMeansStored, HasToken, Tick, Pending!Tick
<1>6. Sessions'
    BY DEF IInv, Sessions, DistinctFlows, SessionsMatchFlows, Tick
<1>7. Provenance'
    BY ProvenanceStep DEF IInv, TypeOK, Pending!TypeOK, Provenance,
        TokensFromRedirects, Prompted, Tick, Pending!Tick
<1>. QED BY <1>1, <1>2, <1>3, <1>4, <1>5, <1>6, <1>7 DEF IInv

\* A stuttering step.
LEMMA StutterInv == ASSUME IInv, UNCHANGED vars PROVE IInv'
<1>. USE DEF vars
<1>1. TypeOK' /\ Shape'
    BY DEF IInv, TypeOK, Pending!TypeOK, Shape, CallShape, HookShape
<1>2. Ownership'
    BY DEF IInv, Ownership, FlowOwnership, TokenOwnership, IssuedTo
<1>3. SingleUse'
    BY DEF IInv, SingleUse, PoppedIsGone, StateUsedOnce, EntryLifetime
<1>4. OkMeansStored'
    BY DEF IInv, OkMeansStored, HasToken
<1>5. Sessions'
    BY DEF IInv, Sessions, DistinctFlows, SessionsMatchFlows
<1>6. Provenance'
    BY ProvenanceStep DEF IInv, Provenance, TokensFromRedirects
<1>. QED BY <1>1, <1>2, <1>3, <1>4, <1>5, <1>6 DEF IInv

\* Every step preserves the invariant.
LEMMA NextInv == IInv /\ [Next]_vars => IInv'
<1> SUFFICES ASSUME IInv, [Next]_vars PROVE IInv'
    OBVIOUS
<1>1. ASSUME NEW c \in Calls, CallNext(c) PROVE IInv'
    BY <1>1, BeginInv, ReadTokenInv, RefreshInv, DropInv, SaveInv, FailFastErrorInv,
        CreatePendingInv, CreateFailedInv, ElicitAcceptInv, ElicitDeclineInv,
        DeclinePopInv, ElicitErrorInv, SignalledInv, WaitTimeoutInv, WaitAbortInv,
        CrashCallInv DEF CallNext
<1>2. ASSUME NEW h \in Callbacks, CallbackNext(h) PROVE IInv'
    BY <1>2, CallbackErrorInv, CallbackPopInv, CallbackMalformedInv, ExchangeInv,
        SignalFailureInv, StoreTokenInv, SignalSuccessInv, CrashCallbackInv
        DEF CallbackNext
<1>3. ASSUME NEW s \in Subs, InvalidateToken(s) PROVE IInv'
    BY <1>3, InvalidateTokenInv
<1>4. ASSUME NEW k \in States, LapseResult(k) PROVE IInv'
    BY <1>4, LapseResultInv
<1>5. CASE Tick
    BY <1>5, TickInv
<1>6. CASE UNCHANGED vars
    BY <1>6, StutterInv
<1>. QED BY <1>1, <1>2, <1>3, <1>4, <1>5, <1>6 DEF Next

\* The inductive invariant holds throughout.
LEMMA Inductive == Spec => []IInv
<1>. QED BY InitInv, NextInv, PTL DEF Spec

(***************************************************************************)
(* The theorems.                                                           *)
(***************************************************************************)

\* TypeOK holds in every state of every instance.
THEOREM TypeCorrect == Spec => []TypeOK
<1>1. IInv => TypeOK
    BY DEF IInv
<1>. QED BY <1>1, Inductive, PTL

\* A subject only ever gets a token of a flow issued to that subject, whatever
\* the interleaving of tool calls, redirects, refreshes and crashes.
THEOREM TokensStayWithOwner == Spec => []TokenOwnership
<1>1. IInv => TokenOwnership
    BY DEF IInv, Ownership
<1>. QED BY <1>1, Inductive, PTL

\* However many redirects carry a state, HandleCallback exchanges its code once.
THEOREM StatesAreSingleUse == Spec => []StateUsedOnce
<1>1. IInv => StateUsedOnce
    BY DEF IInv, SingleUse
<1>. QED BY <1>1, Inductive, PTL

\* "ok" reaches a call only after its subject's token reached the store.
THEOREM OkAfterStore == Spec => []SignalAfterStore
<1>1. IInv => SignalAfterStore
    BY DEF IInv, OkMeansStored, HasToken, SignalAfterStore
<1>. QED BY <1>1, Inductive, PTL

\* What the Pop of a declined prompt took out of the store is never redeemed, and no
\* token descends from it, whatever redirects were or are under way.
THEOREM DeclinedIsDead == Spec => []DeclinedFlowIsDead
<1>1. IInv => DeclinedFlowIsDead
    BY DEF IInv, Provenance, TokensFromRedirects, WithdrawnIsGone, DeclinedFlowIsDead
<1>. QED BY <1>1, Inductive, PTL

\* A session is registered exactly while the flow of a call is in progress: the
\* deferred delete leaks none and removes no session of another call.
THEOREM SessionsNeverLeak == Spec => []SessionsMatchFlows
<1>1. IInv => SessionsMatchFlows
    BY DEF IInv, Sessions
<1>. QED BY <1>1, Inductive, PTL

\* For every timeout, slack and resolution of the clock: a link that dies unused under
\* a waiting call was accepted too late.
THEOREM LinkLifetime == Spec => []LinkOutlivesWait
<1>1. ASSUME IInv, NEW c \in Calls, pc[c] = "wait", now <= waiting[c].deadline,
             ~Pending!Live(state[c]), ~Redeemed(state[c])
      PROVE  waiting[c].deadline - TokenTimeout
                > issued[state[c]].at + PendingSlack - (TokenTimeout - WholeSeconds(TokenTimeout))
  <2>1. state[c] \in States /\ issued[state[c]] # None /\ waiting[c] # None
    BY <1>1 DEF IInv, Shape, CallShape, Ownership, FlowOwnership, IssuedTo
  <2>2. /\ now \in Nat
        /\ issued[state[c]] \in [sub: Subs, at: Nat]
        /\ waiting[c] \in Pending!Wait
    BY <1>1, <2>1 DEF IInv, TypeOK, Pending!TypeOK
  <2>3. now > issued[state[c]].at + LinkTTL
    BY <1>1, <2>1, <2>2, LinkTTLNat DEF IInv, TypeOK, Pending!TypeOK, SingleUse,
        EntryLifetime, Provenance, EntryIsKept, Prompted, Pending!Live
  <2>. QED BY <1>1, <2>2, <2>3, LinkTTLNat DEF LinkTTL
<1>2. IInv => LinkOutlivesWait
    BY <1>1 DEF LinkOutlivesWait
<1>. QED BY <1>2, Inductive, PTL

\* Save never replaces an entry that has a refresh token by one that has none.
THEOREM RefreshTokenIsKept == Spec => RefreshKeepsRefreshToken
<1>1. ASSUME IInv, NEW c \in Calls, Save(c), tokens[user[c]] # None, tokens[user[c]].refresh
      PROVE  tokens'[user[c]].refresh
  <2>1. user[c] \in Subs /\ held[c].refresh
    BY <1>1 DEF IInv, Shape, CallShape, Save
  <2>2. CASE PutToken(user[c], held[c])
    BY <1>1, <2>1, <2>2 DEF IInv, TypeOK, PutToken
  <2>3. CASE UNCHANGED <<tokens, erased>>
    BY <1>1, <2>3
  <2>. QED BY <1>1, <2>2, <2>3 DEF Save
<1>2. IInv => [\A c \in Calls :
                LET before == tokens[user[c]]
                    after == tokens'[user[c]]
                IN  Save(c) /\ before # None /\ before.refresh => after.refresh]_vars
    BY <1>1
<1>. QED BY <1>2, Inductive, PTL DEF RefreshKeepsRefreshToken
=============================================================================
