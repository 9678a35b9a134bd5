-------------------------- MODULE FilePendingStore --------------------------
(***************************************************************************)
(* store.FilePendingStore (store/file.go): a flow is a metadata file, its  *)
(* result a ".done" sidecar.  There is no lock; goroutines and replicas    *)
(* interleave between any two system calls, so every call on the file      *)
(* system is a step.  All replicas share one encryption key.               *)
(***************************************************************************)
EXTENDS Integers, FiniteSets

CONSTANTS
    Keys, Values, Procs, TTLs, Timeouts, None,
    Torn,          \* the content of a file that is not completely written
    Faults,        \* system calls may fail
    MaxTime        \* bound on the clock

ASSUME FileAssumption ==
    /\ TTLs \cup Timeouts \cup {MaxTime} \subseteq Nat
    /\ Faults \in BOOLEAN
    /\ None # Torn /\ None \notin Nat

VARIABLES
    now,
    files,     \* path -> content
    tmp,       \* process -> content of its ".tmp-*" file
    pc,        \* process -> next system call
    op,        \* process -> the operation it executes
    rec,       \* process -> the record it writes or has read
    created,   \* keys given to Create (generateID does not repeat)
    taken,     \* history: key -> processes a Pop returned its metadata to
    firstExpiry \* history: key -> earliest expiry of a result stored for it

fileVars == <<files, tmp>>
history == <<created, taken, firstExpiry>>
vars == <<now, fileVars, pc, op, rec, history>>

Kinds == {"create", "setresult", "get", "pop", "wait"}
Paths == {"meta", "done"} \X Keys
MetaPath(k) == <<"meta", k>>
DonePath(k) == <<"done", k>>

Record == [val: Values, expires: Nat]
Operation == [kind: Kinds, path: Paths, deadline: Nat]

\* nil and the torn content are no records.
ASSUME ContentAssumption == None \notin Record \cup Operation /\ Torn \notin Record

TypeOK ==
    /\ now \in Nat
    /\ files \in [Paths -> Record \cup {None, Torn}]
    /\ tmp \in [Procs -> Record \cup {None, Torn}]
    /\ pc \in [Procs -> {"idle", "stage", "write", "rename", "read", "expire",
                         "unlink", "poll", "sleep", "crashed"}]
    /\ op \in [Procs -> Operation \cup {None}]
    /\ rec \in [Procs -> Record \cup {None}]
    /\ created \subseteq Keys
    /\ taken \in [Keys -> SUBSET Procs]
    /\ firstExpiry \in [Keys -> Nat \cup {None}]

Init ==
    /\ now = 0
    /\ files = [f \in Paths |-> None]
    /\ tmp = [p \in Procs |-> None]
    /\ pc = [p \in Procs |-> "idle"]
    /\ op = [p \in Procs |-> None]
    /\ rec = [p \in Procs |-> None]
    /\ created = {}
    /\ taken = [k \in Keys |-> {}]
    /\ firstExpiry = [k \in Keys |-> None]

Goto(p, l) == pc' = [pc EXCEPT ![p] = l]

Call(p, kind, path, deadline, l) ==
    /\ pc[p] = "idle"
    /\ op' = [op EXCEPT ![p] = [kind |-> kind, path |-> path, deadline |-> deadline]]
    /\ Goto(p, l)

Return(p) ==
    /\ pc' = [pc EXCEPT ![p] = "idle"]
    /\ op' = [op EXCEPT ![p] = None]
    /\ rec' = [rec EXCEPT ![p] = None]

(***************************************************************************)
(* writeRecord and atomicWriteFile: temporary file, then rename.           *)
(***************************************************************************)
\* Mutant: the expiry is left out of the record.
NewRecordNoExpiry(v, ttl) == [val |-> v]

NewRecord(v, ttl) == [val |-> v, expires |-> now + ttl]

Create(p, k, v, ttl) ==
    /\ k \notin created
    /\ created' = created \cup {k}
    /\ Call(p, "create", MetaPath(k), 0, "stage")
    /\ rec' = [rec EXCEPT ![p] = NewRecord(v, ttl)]
    /\ UNCHANGED <<now, fileVars, taken, firstExpiry>>

\* Nothing keeps a key from being given to SetResult again: the error redirect
\* of HandleCallback signals without popping the flow.
SetResult(p, k, v, ttl) ==
    /\ k \in created
    /\ Call(p, "setresult", DonePath(k), 0, "stage")
    /\ rec' = [rec EXCEPT ![p] = NewRecord(v, ttl)]
    /\ UNCHANGED <<now, fileVars, history>>

\* Mutant: the temporary file is renamed before it is written.
StageFileRenamesFirst(p) ==
    /\ pc[p] = "stage"
    /\ tmp' = [tmp EXCEPT ![p] = Torn]
    /\ Goto(p, "rename")
    /\ UNCHANGED <<now, files, op, rec, history>>

\* os.CreateTemp
StageFile(p) ==
    /\ pc[p] = "stage"
    /\ \/ tmp' = [tmp EXCEPT ![p] = Torn] /\ Goto(p, "write") /\ UNCHANGED <<op, rec>>
       \/ Faults /\ Return(p) /\ UNCHANGED tmp
    /\ UNCHANGED <<now, files, history>>

\* tmp.Write and tmp.Close; a failure removes the temporary file.
WriteFile(p) ==
    /\ pc[p] = "write"
    /\ \/ tmp' = [tmp EXCEPT ![p] = rec[p]] /\ Goto(p, "rename") /\ UNCHANGED <<op, rec>>
       \/ Faults /\ tmp' = [tmp EXCEPT ![p] = None] /\ Return(p)
    /\ UNCHANGED <<now, files, history>>

Earlier(e, t) == IF e = None \/ t < e THEN t ELSE e

\* A failed rename leaves the temporary file behind.
RenameFile(p) ==
    /\ pc[p] = "rename"
    /\ \/ /\ files' = [files EXCEPT ![op[p].path] = tmp[p]]
          /\ tmp' = [tmp EXCEPT ![p] = None]
          /\ firstExpiry' = [k \in Keys |->
               IF op[p].path = DonePath(k) THEN Earlier(firstExpiry[k], rec[p].expires)
               ELSE firstExpiry[k]]
       \/ Faults /\ UNCHANGED <<fileVars, firstExpiry>>
    /\ Return(p)
    /\ UNCHANGED <<now, created, taken>>

(***************************************************************************)
(* Get, Pop and WaitForResult, which share readRecord.                     *)
(***************************************************************************)
Get(p, k) ==
    /\ Call(p, "get", MetaPath(k), 0, "read")
    /\ UNCHANGED <<now, fileVars, rec, history>>

Pop(p, k) ==
    /\ k \in created
    /\ Call(p, "pop", MetaPath(k), 0, "read")
    /\ UNCHANGED <<now, fileVars, rec, history>>

WaitForResult(p, k, timeout) ==
    /\ k \in created
    /\ now + timeout < MaxTime
    /\ Call(p, "wait", DonePath(k), now + timeout, "read")
    /\ UNCHANGED <<now, fileVars, rec, history>>

\* readRecord found nothing: Get returns, Pop still calls Remove, a waiter
\* looks at its deadline.
NotFound(p) ==
    /\ rec' = [rec EXCEPT ![p] = None]
    /\ CASE op[p].kind = "pop"  -> Goto(p, "unlink") /\ UNCHANGED op
         [] op[p].kind = "wait" -> Goto(p, "poll") /\ UNCHANGED op
         [] OTHER               -> Return(p)

\* A failing read: Get and Pop return the error, a waiter ignores it.
ReadFailed(p) ==
    IF op[p].kind = "wait" THEN Goto(p, "poll") /\ UNCHANGED <<op, rec>> ELSE Return(p)

\* os.ReadFile, Decrypt and Unmarshal, which fail on a torn file, and the
\* expiry test.
Expired(r) == now > r.expires
Unusable(r) == r # Torn => Expired(r)

ReadRecord(p) ==
    /\ pc[p] = "read"
    /\ LET r == files[op[p].path] IN
        \/ r = None /\ NotFound(p)
        \/ Faults /\ ReadFailed(p)
        \/ /\ r # None
           /\ IF Unusable(r)
              THEN Goto(p, "expire") /\ UNCHANGED <<op, rec>>
              ELSE IF op[p].kind = "get" THEN Return(p)
              ELSE /\ rec' = [rec EXCEPT ![p] = r]
                   /\ Goto(p, "unlink")
                   /\ UNCHANGED op
    /\ UNCHANGED <<now, fileVars, history>>

\* os.Remove of a record found expired; the error is ignored.
Remove(path) ==
    \/ files' = [files EXCEPT ![path] = None]
    \/ Faults /\ UNCHANGED files

RemoveExpired(p) ==
    /\ pc[p] = "expire"
    /\ Remove(op[p].path)
    /\ NotFound(p)
    /\ UNCHANGED <<now, tmp, history>>

\* The os.Remove after readRecord in Pop and in WaitForResult, and the return.
RemoveTaken(p) ==
    /\ pc[p] = "unlink"
    /\ Remove(op[p].path)
    /\ taken' = [k \in Keys |->
         IF rec[p] # None /\ op[p].path = MetaPath(k) THEN taken[k] \cup {p} ELSE taken[k]]
    /\ Return(p)
    /\ UNCHANGED <<now, tmp, created, firstExpiry>>

\* Mutants: a waiter that gives up cleans the sidecar up; the deadline is not
\* looked at.
CheckDeadlineCleansUp(p) ==
    /\ pc[p] = "poll"
    /\ IF now > op[p].deadline
       THEN Return(p) /\ files' = [files EXCEPT ![op[p].path] = None]
       ELSE Goto(p, "sleep") /\ UNCHANGED <<op, rec, files>>
    /\ UNCHANGED <<now, tmp, history>>

PollForever(p) ==
    /\ pc[p] = "poll"
    /\ Goto(p, "sleep")
    /\ UNCHANGED <<now, fileVars, op, rec, history>>

CheckDeadline(p) ==
    /\ pc[p] = "poll"
    /\ IF now > op[p].deadline THEN Return(p) ELSE Goto(p, "sleep") /\ UNCHANGED <<op, rec>>
    /\ UNCHANGED <<now, fileVars, history>>

\* filePollInterval elapses.
Wake(p) ==
    /\ pc[p] = "sleep"
    /\ Goto(p, "read")
    /\ UNCHANGED <<now, fileVars, op, rec, history>>

\* ctx.Done() during the sleep.
Abort(p) ==
    /\ pc[p] = "sleep"
    /\ Return(p)
    /\ UNCHANGED <<now, fileVars, history>>

\* A process dies between two system calls; its temporary file stays.
Crash(p) ==
    /\ pc[p] \notin {"idle", "crashed"}
    /\ pc' = [pc EXCEPT ![p] = "crashed"]
    /\ op' = [op EXCEPT ![p] = None]
    /\ rec' = [rec EXCEPT ![p] = None]
    /\ UNCHANGED <<now, fileVars, history>>

Tick ==
    /\ now < MaxTime
    /\ now' = now + 1
    /\ UNCHANGED <<fileVars, pc, op, rec, history>>

Step(p) ==
    \/ StageFile(p) \/ WriteFile(p) \/ RenameFile(p)
    \/ ReadRecord(p) \/ RemoveExpired(p) \/ RemoveTaken(p)
    \/ CheckDeadline(p) \/ Wake(p)

Next ==
    \/ \E p \in Procs :
        \/ \E k \in Keys :
            \/ \E v \in Values, ttl \in TTLs : Create(p, k, v, ttl) \/ SetResult(p, k, v, ttl)
            \/ Get(p, k)
            \/ Pop(p, k)
            \/ \E t \in Timeouts : WaitForResult(p, k, t)
        \/ Step(p)
        \/ Abort(p)
        \/ Crash(p)
    \/ Tick

\* A started operation is executed, and time passes.
Fairness == WF_vars(Tick) /\ \A p \in Procs : WF_vars(Step(p))

Spec == Init /\ [][Next]_vars /\ Fairness

(***************************************************************************)
(* Properties.                                                             *)
(***************************************************************************)

\* A reader never finds a partially written file, whichever process died at
\* whichever point (atomicWriteFile).
RecordsAreWhole == \A f \in Paths : files[f] # Torn

\* Pop hands the metadata of a flow out once ("atomic get+delete").
PopOnce == \A k \in Keys : Cardinality(taken[k]) <= 1

\* The step takes a result that is within its TTL away, and not for a waiter that
\* returns one: whoever still waits for it blocks until its deadline.
SignalDropped(k) ==
    /\ files[DonePath(k)] # None /\ ~Unusable(files[DonePath(k)])
    /\ files'[DonePath(k)] = None
    /\ \A p \in Procs :
        ~(pc[p] = "unlink" /\ pc'[p] = "idle" /\ op[p].path = DonePath(k) /\ rec[p] # None)

\* A result within its TTL is removed only by a waiter that returns a result.
SignalNotLost == [][\A k \in Keys : ~SignalDropped(k)]_vars

\* However often a flow is signalled and however many wait for it: a usable result
\* is dropped only by the clean-up of an older one (readRecord), so never before
\* some result stored for the flow has outlived its own TTL.
SignalKeptWithinTTL ==
    [][\A k \in Keys : SignalDropped(k) => now > firstExpiry[k]]_vars

\* WaitForResult returns by its deadline, or its process is gone.
WaitReturns ==
    \A p \in Procs : pc[p] \in {"read", "poll", "sleep"} ~> pc[p] \in {"idle", "crashed"}
=============================================================================
