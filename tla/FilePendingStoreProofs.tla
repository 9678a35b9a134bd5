----------------------- MODULE FilePendingStoreProofs -----------------------

(***************************************************************************)
(* Proofs about FilePendingStore, for any number of processes, keys and    *)
(* values, with and without failing system calls.                          *)
(***************************************************************************)
EXTENDS FilePendingStore, TLAPS

(***************************************************************************)
(* The inductive invariant.                                                *)
(***************************************************************************)

\* What a process has in its hands before each system call.
ShapeOf(p) ==
    /\ pc[p] \notin {"idle", "crashed"} => op[p] \in Operation
    /\ pc[p] \in {"stage", "write"} => rec[p] \in Record
    /\ pc[p] = "rename" => rec[p] \in Record /\ tmp[p] = rec[p]
    /\ pc[p] = "unlink" /\ rec[p] = None => op[p].kind = "pop"
    /\ pc[p] \notin {"idle", "crashed"} /\ op[p].kind = "pop" =>
        \A k \in Keys : op[p].path # DonePath(k)

ProcessShape == \A p \in Procs : ShapeOf(p)

\* A reader is about to remove the result of k, which it found expired.
Expiring(p, k) == pc[p] = "expire" /\ op[p].path = DonePath(k)

\* The result of k expires no earlier than the first stored for it, and that one has
\* expired when a reader sets out to remove the result of k.
ResultsDated ==
    \A k \in Keys :
        /\ files[DonePath(k)] # None =>
            firstExpiry[k] \in Nat /\ firstExpiry[k] <= files[DonePath(k)].expires
        /\ \A p \in Procs : Expiring(p, k) => firstExpiry[k] \in Nat /\ now > firstExpiry[k]

IInv == TypeOK /\ ProcessShape /\ RecordsAreWhole /\ ResultsDated

USE FileAssumption, ContentAssumption
USE DEF fileVars, history, Kinds

(***************************************************************************)
(* Lemmas.                                                                 *)
(***************************************************************************)

\* The two files of a key, and those of different keys, have different paths.
LEMMA PathsDiffer ==
    ASSUME NEW j \in Keys, NEW k \in Keys
    PROVE  /\ MetaPath(j) \in Paths /\ DonePath(j) \in Paths
           /\ MetaPath(j) # DonePath(k)
           /\ DonePath(j) = DonePath(k) => j = k
BY DEF Paths, MetaPath, DonePath

\* The initial state.
LEMMA InitInv == Init => IInv
<1> SUFFICES ASSUME Init PROVE IInv
  OBVIOUS
<1>1. TypeOK
  BY DEF Init, TypeOK
<1> QED
  BY <1>1, PathsDiffer DEF Init, IInv, ProcessShape, ShapeOf, RecordsAreWhole, ResultsDated,
      Expiring

\* A step of p that writes no file and sets out to remove only a result that has
\* expired.
LEMMA DatedFrame ==
    ASSUME IInv, NEW p \in Procs, UNCHANGED <<now, firstExpiry>>,
           \A q \in Procs : q # p => pc'[q] = pc[q] /\ op'[q] = op[q],
           \A f \in Paths : files'[f] \in {files[f], None},
           \A k \in Keys : Expiring(p, k)' =>
               Expiring(p, k) \/ (files[DonePath(k)] # None /\ Expired(files[DonePath(k)]))
    PROVE  ResultsDated'
<1> SUFFICES ASSUME NEW k \in Keys
             PROVE  /\ files'[DonePath(k)] # None =>
                        /\ firstExpiry[k] \in Nat
                        /\ firstExpiry[k] <= files'[DonePath(k)].expires
                    /\ \A q \in Procs : Expiring(q, k)' =>
                        firstExpiry[k] \in Nat /\ now > firstExpiry[k]
  BY DEF ResultsDated, DonePath
<1>1. \A q \in Procs : Expiring(q, k)' =>
        Expiring(q, k) \/ (files[DonePath(k)] # None /\ Expired(files[DonePath(k)]))
  BY DEF Expiring, DonePath
<1>2. files'[DonePath(k)] \in {files[DonePath(k)], None}
  BY PathsDiffer
<1>3. /\ now \in Nat
      /\ files[DonePath(k)] # None => files[DonePath(k)].expires \in Nat
  BY PathsDiffer DEF IInv, TypeOK, RecordsAreWhole, Record
<1>4. files[DonePath(k)] # None /\ Expired(files[DonePath(k)]) =>
        firstExpiry[k] \in Nat /\ now > firstExpiry[k]
  BY <1>3 DEF IInv, ResultsDated, Expired
<1> HIDE DEF Expiring, Expired
<1> QED BY <1>1, <1>2, <1>4 DEF IInv, ResultsDated

\* What a step of one process may touch.
Alone(p) ==
    \A q \in Procs : q # p => pc'[q] = pc[q] /\ op'[q] = op[q] /\ rec'[q] = rec[q]

\* A step of p that may remove files but writes none and sets out
\* to remove only a result that has expired.
LEMMA LocalInv ==
    ASSUME IInv, NEW p \in Procs, Alone(p), UNCHANGED <<now, created, firstExpiry>>,
           pc' \in [Procs -> {"idle", "stage", "write", "rename", "read", "expire",
                              "unlink", "poll", "sleep", "crashed"}],
           op' \in [Procs -> Operation \cup {None}],
           rec' \in [Procs -> Record \cup {None}],
           tmp' \in [Procs -> Record \cup {None, Torn}],
           \A q \in Procs : q # p => tmp'[q] = tmp[q],
           taken' \in [Keys -> SUBSET Procs],
           files' \in [Paths -> Record \cup {None, Torn}],
           \A f \in Paths : files'[f] \in {files[f], None},
           ShapeOf(p)',
           \A k \in Keys : Expiring(p, k)' =>
               Expiring(p, k) \/ (files[DonePath(k)] # None /\ Expired(files[DonePath(k)]))
    PROVE  IInv'
<1>1. TypeOK'
  BY DEF IInv, TypeOK
<1>2. ProcessShape'
  <2>1. \A q \in Procs : q # p => (ShapeOf(q) => ShapeOf(q)')
    BY DEF Alone, ShapeOf, DonePath
  <2> QED BY <2>1 DEF IInv, ProcessShape
<1>3. RecordsAreWhole'
  BY DEF IInv, RecordsAreWhole
<1>4. ResultsDated'
  BY DatedFrame DEF Alone
<1> QED BY <1>1, <1>2, <1>3, <1>4 DEF IInv

\* The end of an operation, or of its process, at any point.
LEMMA LeaveInv ==
    ASSUME IInv, NEW p \in Procs, NEW l \in {"idle", "crashed"},
           pc' = [pc EXCEPT ![p] = l], op' = [op EXCEPT ![p] = None],
           rec' = [rec EXCEPT ![p] = None],
           UNCHANGED <<now, created, firstExpiry>>,
           tmp' \in [Procs -> Record \cup {None, Torn}],
           \A q \in Procs : q # p => tmp'[q] = tmp[q],
           taken' \in [Keys -> SUBSET Procs],
           files' \in [Paths -> Record \cup {None, Torn}],
           \A f \in Paths : files'[f] \in {files[f], None}
    PROVE  IInv'
<1>1. /\ Alone(p) /\ pc'[p] = l
      /\ pc' \in [Procs -> {"idle", "stage", "write", "rename", "read", "expire",
                            "unlink", "poll", "sleep", "crashed"}]
      /\ op' \in [Procs -> Operation \cup {None}]
      /\ rec' \in [Procs -> Record \cup {None}]
  BY DEF IInv, TypeOK, Alone
<1>2. ShapeOf(p)' /\ \A k \in Keys : ~Expiring(p, k)'
  BY <1>1 DEF ShapeOf, Expiring
<1> QED BY <1>1, <1>2, LocalInv

\* The step to another system call of the same operation.
LEMMA MoveInv ==
    ASSUME IInv, NEW p \in Procs,
           NEW l \in {"write", "rename", "read", "expire", "unlink", "poll", "sleep"},
           pc[p] \notin {"idle", "crashed"},
           pc' = [pc EXCEPT ![p] = l], UNCHANGED op,
           NEW r \in Record \cup {None}, rec' = [rec EXCEPT ![p] = r],
           UNCHANGED <<now, created, taken, firstExpiry>>,
           tmp' \in [Procs -> Record \cup {None, Torn}],
           \A q \in Procs : q # p => tmp'[q] = tmp[q],
           files' \in [Paths -> Record \cup {None, Torn}],
           \A f \in Paths : files'[f] \in {files[f], None},
           l \in {"write", "rename"} => pc[p] \in {"stage", "write"},
           l = "write" => r = rec[p],
           l = "rename" => r \in Record /\ tmp'[p] = r,
           l = "unlink" /\ r = None => op[p].kind = "pop",
           l = "expire" => files[op[p].path] # None /\ Expired(files[op[p].path])
    PROVE  IInv'
<1>1. /\ Alone(p) /\ pc'[p] = l /\ rec'[p] = r
      /\ pc' \in [Procs -> {"idle", "stage", "write", "rename", "read", "expire",
                            "unlink", "poll", "sleep", "crashed"}]
      /\ op' \in [Procs -> Operation \cup {None}]
      /\ rec' \in [Procs -> Record \cup {None}]
      /\ taken' \in [Keys -> SUBSET Procs]
  BY DEF IInv, TypeOK, Alone
<1>2. ShapeOf(p)'
  BY <1>1 DEF IInv, ProcessShape, ShapeOf, DonePath
<1>3. \A k \in Keys : Expiring(p, k)' =>
        files[DonePath(k)] # None /\ Expired(files[DonePath(k)])
  BY <1>1 DEF Expiring, DonePath
<1> QED BY <1>1, <1>2, <1>3, LocalInv

(***************************************************************************)
(* One lemma per step.                                                     *)
(***************************************************************************)

\* Create and SetResult: the start of a write.
LEMMA WriteCallInv ==
    ASSUME IInv, NEW p \in Procs, NEW path \in Paths, NEW kind \in {"create", "setresult"},
           NEW v \in Values, NEW ttl \in TTLs,
           Call(p, kind, path, 0, "stage"), rec' = [rec EXCEPT ![p] = NewRecord(v, ttl)],
           created' \subseteq Keys, UNCHANGED <<now, fileVars, taken, firstExpiry>>
    PROVE  IInv'
<1> DEFINE o == [kind |-> kind, path |-> path, deadline |-> 0]
<1>1. NewRecord(v, ttl) \in Record /\ o \in Operation
  BY DEF IInv, TypeOK, NewRecord, Record, Operation
<1>2. /\ pc[p] = "idle" /\ pc' = [pc EXCEPT ![p] = "stage"] /\ op' = [op EXCEPT ![p] = o]
      /\ o.kind = kind /\ o.path = path
  BY DEF Call, Goto
<1> HIDE DEF o
<1>3. TypeOK'
  BY <1>1, <1>2 DEF IInv, TypeOK
<1>4. ProcessShape'
  BY <1>1, <1>2 DEF IInv, TypeOK, ProcessShape, ShapeOf
<1>5. RecordsAreWhole'
  BY DEF IInv, RecordsAreWhole
<1>6. Alone(p) /\ pc'[p] = "stage"
  BY <1>2 DEF IInv, TypeOK, Alone
<1>7. ResultsDated'
  BY <1>6, DatedFrame DEF Alone, Expiring
<1> QED BY <1>3, <1>4, <1>5, <1>7 DEF IInv

\* The calls of Get, Pop and WaitForResult.
LEMMA ReadCallInv ==
    ASSUME IInv, NEW p \in Procs, NEW kind \in {"get", "pop", "wait"}, NEW path \in Paths,
           NEW t \in Nat, kind = "pop" => \A k \in Keys : path # DonePath(k),
           Call(p, kind, path, t, "read"), UNCHANGED <<now, fileVars, rec, history>>
    PROVE  IInv'
<1> DEFINE o == [kind |-> kind, path |-> path, deadline |-> t]
<1>1. o \in Operation /\ o.kind = kind /\ o.path = path
  BY DEF Operation
<1>2. pc' = [pc EXCEPT ![p] = "read"] /\ op' = [op EXCEPT ![p] = o]
  BY DEF Call, Goto
<1> HIDE DEF o
<1>3. /\ Alone(p) /\ pc'[p] = "read" /\ op'[p] = o
      /\ pc' \in [Procs -> {"idle", "stage", "write", "rename", "read", "expire",
                            "unlink", "poll", "sleep", "crashed"}]
      /\ op' \in [Procs -> Operation \cup {None}]
      /\ rec' \in [Procs -> Record \cup {None}]
      /\ tmp' \in [Procs -> Record \cup {None, Torn}]
      /\ files' \in [Paths -> Record \cup {None, Torn}]
      /\ taken' \in [Keys -> SUBSET Procs]
  BY <1>1, <1>2 DEF IInv, TypeOK, Alone
<1>4. ShapeOf(p)' /\ \A k \in Keys : ~Expiring(p, k)'
  BY <1>1, <1>3 DEF ShapeOf, Expiring, DonePath
<1> QED BY <1>3, <1>4, LocalInv

\* StageFile and WriteFile.
LEMMA PrepareInv ==
    ASSUME IInv, NEW p \in Procs, StageFile(p) \/ WriteFile(p)
    PROVE  IInv'
<1>1. /\ tmp \in [Procs -> Record \cup {None, Torn}] /\ files \in [Paths -> Record \cup {None, Torn}]
      /\ taken \in [Keys -> SUBSET Procs]
      /\ rec \in [Procs -> Record \cup {None}] /\ rec[p] \in Record
      /\ rec = [rec EXCEPT ![p] = rec[p]]
  BY DEF IInv, TypeOK, ProcessShape, ShapeOf, StageFile, WriteFile
<1>2. CASE Goto(p, "write") /\ StageFile(p) /\ UNCHANGED <<op, rec>> /\ tmp' = [tmp EXCEPT ![p] = Torn]
  BY <1>1, <1>2, MoveInv DEF StageFile, Goto
<1>3. CASE Goto(p, "rename") /\ WriteFile(p) /\ UNCHANGED <<op, rec>> /\ tmp' = [tmp EXCEPT ![p] = rec[p]]
  <2>1. tmp'[p] = rec[p] /\ tmp' \in [Procs -> Record \cup {None, Torn}]
        /\ \A q \in Procs : q # p => tmp'[q] = tmp[q]
    BY <1>1, <1>3
  <2> QED BY <1>1, <1>3, <2>1, MoveInv DEF WriteFile, Goto
<1>4. CASE Return(p) /\ tmp' \in {tmp, [tmp EXCEPT ![p] = None]} /\ UNCHANGED <<now, files, history>>
  <2>1. tmp' \in [Procs -> Record \cup {None, Torn}] /\ \A q \in Procs : q # p => tmp'[q] = tmp[q]
    BY <1>1, <1>4
  <2> QED BY <1>1, <1>4, <2>1, LeaveInv DEF Return
<1> QED BY <1>2, <1>3, <1>4 DEF StageFile, WriteFile

\* Remove takes one file away or nothing.
LEMMA RemoveEffect ==
    ASSUME TypeOK, NEW f \in Paths, Remove(f)
    PROVE  /\ files' \in [Paths -> Record \cup {None, Torn}]
           /\ \A g \in Paths : files'[g] \in {files[g], None}
           /\ \A g \in Paths : g # f => files'[g] = files[g]
BY DEF TypeOK, Remove

\* The ways on from a record that is not there.
LEMMA NotFoundInv ==
    ASSUME IInv, NEW p \in Procs, pc[p] \notin {"idle", "crashed"}, NotFound(p),
           files' \in [Paths -> Record \cup {None, Torn}],
           \A f \in Paths : files'[f] \in {files[f], None},
           UNCHANGED <<now, tmp, history>>
    PROVE  IInv'
<1>1. tmp \in [Procs -> Record \cup {None, Torn}] /\ taken \in [Keys -> SUBSET Procs]
  BY DEF IInv, TypeOK
<1>2. CASE op[p].kind = "pop"
  BY <1>1, <1>2, MoveInv DEF NotFound, Goto
<1>3. CASE op[p].kind = "wait"
  BY <1>1, <1>3, MoveInv DEF NotFound, Goto
<1>4. CASE op[p].kind \notin {"pop", "wait"}
  BY <1>1, <1>4, LeaveInv DEF NotFound, Return
<1> QED BY <1>2, <1>3, <1>4

\* ReadRecord.
LEMMA ReadRecordInv ==
    ASSUME IInv, NEW p \in Procs, ReadRecord(p)
    PROVE  IInv'
<1> DEFINE r == files[op[p].path]
<1>1. /\ tmp \in [Procs -> Record \cup {None, Torn}] /\ files \in [Paths -> Record \cup {None, Torn}]
      /\ taken \in [Keys -> SUBSET Procs]
      /\ rec \in [Procs -> Record \cup {None}] /\ rec = [rec EXCEPT ![p] = rec[p]]
      /\ op[p] \in Operation /\ op[p].path \in Paths /\ op[p].kind \in Kinds
      /\ r \in Record \cup {None}
      /\ pc[p] = "read" /\ UNCHANGED <<now, fileVars, history>>
  BY DEF IInv, TypeOK, ProcessShape, ShapeOf, RecordsAreWhole, ReadRecord, Operation
<1>2. CASE NotFound(p)
  BY <1>1, <1>2, NotFoundInv
<1>3. CASE ReadFailed(p)
  <2>1. CASE op[p].kind = "wait"
    BY <1>1, <1>3, <2>1, MoveInv DEF ReadFailed, Goto
  <2>2. CASE op[p].kind # "wait"
    BY <1>1, <1>3, <2>2, LeaveInv DEF ReadFailed, Return
  <2> QED BY <2>1, <2>2
<1>4. CASE r # None /\ Unusable(r) /\ Goto(p, "expire") /\ UNCHANGED <<op, rec>>
  <2>1. Expired(r)
    BY <1>1, <1>4 DEF Unusable
  <2> QED BY <1>1, <1>4, <2>1, MoveInv DEF Goto
<1>5. CASE Return(p)
  BY <1>1, <1>5, LeaveInv DEF Return
<1>6. CASE r # None /\ rec' = [rec EXCEPT ![p] = r] /\ Goto(p, "unlink") /\ UNCHANGED op
  BY <1>1, <1>6, MoveInv DEF Goto
<1> QED BY <1>2, <1>3, <1>4, <1>5, <1>6 DEF ReadRecord

\* RemoveExpired.
LEMMA RemoveExpiredInv ==
    ASSUME IInv, NEW p \in Procs, RemoveExpired(p)
    PROVE  IInv'
<1>1. op[p].path \in Paths
  BY DEF IInv, ProcessShape, ShapeOf, RemoveExpired, Operation
<1>2. /\ files' \in [Paths -> Record \cup {None, Torn}]
      /\ \A g \in Paths : files'[g] \in {files[g], None}
  BY <1>1, RemoveEffect DEF IInv, RemoveExpired
<1> QED BY <1>2, NotFoundInv DEF RemoveExpired

\* RemoveTaken.
LEMMA RemoveTakenInv ==
    ASSUME IInv, NEW p \in Procs, RemoveTaken(p)
    PROVE  IInv'
<1>1. op[p].path \in Paths
  BY DEF IInv, ProcessShape, ShapeOf, RemoveTaken, Operation
<1>2. /\ files' \in [Paths -> Record \cup {None, Torn}]
      /\ \A g \in Paths : files'[g] \in {files[g], None}
  BY <1>1, RemoveEffect DEF IInv, RemoveTaken
<1>3. taken' \in [Keys -> SUBSET Procs] /\ tmp' \in [Procs -> Record \cup {None, Torn}]
  BY <1>1 DEF IInv, TypeOK, RemoveTaken
<1> QED BY <1>2, <1>3, LeaveInv DEF RemoveTaken, Return

\* RenameFile: the record of a result that appears is the first to expire, or there was
\* an earlier one.
LEMMA RenameFileInv ==
    ASSUME IInv, NEW p \in Procs, RenameFile(p)
    PROVE  IInv'
<1> DEFINE f == op[p].path
<1>1. /\ f \in Paths /\ tmp[p] \in Record /\ tmp[p] # None /\ tmp[p] # Torn /\ pc[p] = "rename"
      /\ files \in [Paths -> Record \cup {None, Torn}]
      /\ tmp \in [Procs -> Record \cup {None, Torn}]
      /\ taken \in [Keys -> SUBSET Procs]
      /\ rec[p] = tmp[p] /\ Return(p) /\ UNCHANGED <<now, created, taken>>
  BY DEF IInv, TypeOK, ProcessShape, ShapeOf, RenameFile, Operation
<1>2. CASE UNCHANGED <<fileVars, firstExpiry>>
  BY <1>1, <1>2, LeaveInv DEF Return
<1>3. CASE /\ files' = [files EXCEPT ![f] = tmp[p]] /\ tmp' = [tmp EXCEPT ![p] = None]
           /\ firstExpiry' = [k \in Keys |->
                IF f = DonePath(k) THEN Earlier(firstExpiry[k], rec[p].expires)
                ELSE firstExpiry[k]]
  <2>a. /\ firstExpiry \in [Keys -> Nat \cup {None}] /\ rec[p].expires \in Nat
        /\ \A k \in Keys : /\ Earlier(firstExpiry[k], rec[p].expires) \in Nat
                           /\ Earlier(firstExpiry[k], rec[p].expires) <= rec[p].expires
                           /\ firstExpiry[k] \in Nat =>
                                Earlier(firstExpiry[k], rec[p].expires) <= firstExpiry[k]
    BY <1>1 DEF IInv, TypeOK, Earlier, Record
  <2>1. TypeOK'
    <3>1. firstExpiry' \in [Keys -> Nat \cup {None}]
      BY <1>3, <2>a
    <3> QED BY <1>1, <1>3, <3>1 DEF IInv, TypeOK, Return
  <2>2. Alone(p) /\ pc'[p] = "idle"
    BY DEF IInv, TypeOK, Alone, RenameFile, Return
  <2>3. ProcessShape'
    BY <1>1, <1>3, <2>2 DEF IInv, ProcessShape, ShapeOf, Alone, DonePath
  <2>4. RecordsAreWhole'
    BY <1>1, <1>3 DEF IInv, RecordsAreWhole
  <2>5. \A q \in Procs, k \in Keys : Expiring(q, k)' => Expiring(q, k)
    BY <2>2 DEF Expiring, Alone, DonePath
  <2>6. \A k \in Keys :
          IF f = DonePath(k)
          THEN /\ files'[DonePath(k)] = rec[p]
               /\ firstExpiry'[k] = Earlier(firstExpiry[k], rec[p].expires)
          ELSE files'[DonePath(k)] = files[DonePath(k)] /\ firstExpiry'[k] = firstExpiry[k]
    BY <1>1, <1>3, PathsDiffer
  <2>7. \A k \in Keys : \A q \in Procs : Expiring(q, k) =>
          firstExpiry[k] \in Nat /\ now > firstExpiry[k]
    BY DEF IInv, ResultsDated
  <2> HIDE DEF Expiring, Earlier, f
  <2>8. ASSUME NEW k \in Keys
        PROVE  /\ files'[DonePath(k)] # None =>
                    /\ firstExpiry'[k] \in Nat
                    /\ firstExpiry'[k] <= files'[DonePath(k)].expires
               /\ \A q \in Procs : Expiring(q, k)' =>
                    firstExpiry'[k] \in Nat /\ now > firstExpiry'[k]
    <3>1. CASE f = DonePath(k)
      <4>1. firstExpiry'[k] \in Nat /\ firstExpiry'[k] <= files'[DonePath(k)].expires
        BY <3>1, <2>6, <2>a
      <4>2. ASSUME NEW q \in Procs, Expiring(q, k)' PROVE now > firstExpiry'[k]
        <5>1. firstExpiry[k] \in Nat /\ now > firstExpiry[k]
          BY <4>2, <2>5, <2>7
        <5>2. firstExpiry'[k] <= firstExpiry[k]
          BY <5>1, <3>1, <2>6, <2>a
        <5> QED BY <4>1, <5>1, <5>2 DEF IInv, TypeOK
      <4> QED BY <4>1, <4>2
    <3>2. CASE f # DonePath(k)
      BY <3>2, <2>5, <2>6, <2>7 DEF IInv, ResultsDated
    <3> QED BY <3>1, <3>2
  <2>9. ResultsDated'
    BY <1>1, <2>8 DEF ResultsDated, DonePath
  <2> QED BY <2>1, <2>3, <2>4, <2>9 DEF IInv
<1> QED BY <1>2, <1>3 DEF RenameFile

\* CheckDeadline, Wake, Abort and Crash.
LEMMA PollInv ==
    ASSUME IInv, NEW p \in Procs, CheckDeadline(p) \/ Wake(p) \/ Abort(p) \/ Crash(p)
    PROVE  IInv'
<1>1. /\ tmp \in [Procs -> Record \cup {None, Torn}] /\ files \in [Paths -> Record \cup {None, Torn}]
      /\ taken \in [Keys -> SUBSET Procs]
      /\ rec[p] \in Record \cup {None} /\ rec = [rec EXCEPT ![p] = rec[p]]
      /\ UNCHANGED <<now, fileVars, history>>
  BY DEF IInv, TypeOK, CheckDeadline, Wake, Abort, Crash
<1>2. CASE \E l \in {"sleep", "read"} :
             pc[p] \in {"poll", "sleep"} /\ Goto(p, l) /\ UNCHANGED <<op, rec>>
  BY <1>1, <1>2, MoveInv DEF Goto
<1>3. CASE Return(p)
  BY <1>1, <1>3, LeaveInv DEF Return
<1>4. CASE Crash(p)
  BY <1>1, <1>4, LeaveInv DEF Crash
<1> QED BY <1>2, <1>3, <1>4 DEF CheckDeadline, Wake, Abort

\* Time passes: what has expired stays expired.
LEMMA TickInv == ASSUME IInv, Tick PROVE IInv'
<1>1. TypeOK'
  BY DEF IInv, TypeOK, Tick
<1>2. ProcessShape' /\ RecordsAreWhole'
  BY DEF IInv, ProcessShape, ShapeOf, RecordsAreWhole, Tick, DonePath
<1>3. \A n \in Nat : now > n => now' > n
  BY DEF IInv, TypeOK, Tick
<1>4. ResultsDated'
  <2> SUFFICES ASSUME NEW k \in Keys
               PROVE  /\ files'[DonePath(k)] # None =>
                          /\ firstExpiry'[k] \in Nat
                          /\ firstExpiry'[k] <= files'[DonePath(k)].expires
                      /\ \A q \in Procs : Expiring(q, k)' =>
                          firstExpiry'[k] \in Nat /\ now' > firstExpiry'[k]
    BY DEF ResultsDated, DonePath
  <2>1. /\ files' = files /\ firstExpiry' = firstExpiry
        /\ \A q \in Procs : Expiring(q, k)' = Expiring(q, k)
    BY DEF Tick, Expiring, DonePath
  <2> HIDE DEF Expiring
  <2> QED BY <1>3, <2>1 DEF IInv, ResultsDated
<1> QED BY <1>1, <1>2, <1>4 DEF IInv

\* Every step preserves the invariant.
LEMMA NextInv == IInv /\ [Next]_vars => IInv'
<1> SUFFICES ASSUME IInv, [Next]_vars PROVE IInv'
  OBVIOUS
<1>1. CASE UNCHANGED vars
  BY <1>1 DEF vars, IInv, TypeOK, ProcessShape, ShapeOf, RecordsAreWhole, ResultsDated,
      Expiring, DonePath
<1>2. ASSUME NEW p \in Procs, NEW k \in Keys, Get(p, k) \/ Pop(p, k)
      PROVE  IInv'
  <2>1. MetaPath(k) \in Paths /\ \A j \in Keys : MetaPath(k) # DonePath(j)
    BY PathsDiffer
  <2> QED BY <1>2, <2>1, ReadCallInv DEF Get, Pop
<1>3. ASSUME NEW p \in Procs, NEW k \in Keys, NEW t \in Timeouts, WaitForResult(p, k, t)
      PROVE  IInv'
  <2>1. DonePath(k) \in Paths /\ now + t \in Nat
    BY PathsDiffer DEF IInv, TypeOK
  <2> QED BY <1>3, <2>1, ReadCallInv DEF WaitForResult
<1>4. ASSUME NEW p \in Procs, Step(p)
      PROVE  IInv'
  BY <1>4, PrepareInv, RenameFileInv, ReadRecordInv, RemoveExpiredInv, RemoveTakenInv,
      PollInv DEF Step
<1>5. ASSUME NEW p \in Procs, NEW k \in Keys, NEW v \in Values, NEW ttl \in TTLs,
             Create(p, k, v, ttl) \/ SetResult(p, k, v, ttl)
      PROVE  IInv'
  <2>1. MetaPath(k) \in Paths /\ DonePath(k) \in Paths /\ created \subseteq Keys
    BY PathsDiffer DEF IInv, TypeOK
  <2> QED BY <1>5, <2>1, WriteCallInv DEF Create, SetResult
<1> QED
  BY <1>1, <1>2, <1>3, <1>4, <1>5, PollInv, TickInv DEF Next

\* The invariant holds throughout.
LEMMA InvHolds == Spec => []IInv
BY InitInv, NextInv, PTL DEF Spec

(***************************************************************************)
(* Theorems.                                                               *)
(***************************************************************************)

\* Every variable keeps its type; a waiter is never given a torn record.
THEOREM TypeCorrect == Spec => []TypeOK
<1>1. IInv => TypeOK
  BY DEF IInv
<1> QED BY <1>1, InvHolds, PTL

\* atomicWriteFile: no file is ever visible half written, whichever process dies or
\* fails at whichever system call.
THEOREM NoTornRecord == Spec => []RecordsAreWhole
<1>1. IInv => RecordsAreWhole
  BY DEF IInv
<1> QED BY <1>1, InvHolds, PTL

\* Three steps change a file.
LEMMA FileSteps ==
    ASSUME Next, files' # files
    PROVE  \E p \in Procs : RenameFile(p) \/ RemoveExpired(p) \/ RemoveTaken(p)
BY DEF Next, Step, Create, SetResult, Get, Pop, WaitForResult, StageFile, WriteFile,
    ReadRecord, CheckDeadline, Wake, Abort, Crash, Tick

\* A usable result that is dropped is dropped after the first result of its key has
\* expired.
LEMMA DroppedLate ==
    ASSUME IInv, Next, NEW k \in Keys, SignalDropped(k)
    PROVE  now > firstExpiry[k]
<1>1. PICK p \in Procs : RenameFile(p) \/ RemoveExpired(p) \/ RemoveTaken(p)
  BY FileSteps DEF SignalDropped
<1>2. pc[p] \notin {"idle", "crashed"} /\ op[p] \in Operation /\ op[p].path \in Paths
  BY <1>1 DEF IInv, ProcessShape, ShapeOf, RenameFile, RemoveExpired, RemoveTaken, Operation
<1>3. ~RenameFile(p)
  <2> SUFFICES ASSUME RenameFile(p) PROVE FALSE
    OBVIOUS
  <2>1. tmp[p] # None
    BY DEF IInv, ProcessShape, ShapeOf, RenameFile
  <2>2. files \in [Paths -> Record \cup {None, Torn}] /\ DonePath(k) \in Paths
    BY PathsDiffer DEF IInv, TypeOK
  <2> QED BY <1>2, <2>1, <2>2 DEF RenameFile, SignalDropped
<1>4. op[p].path = DonePath(k)
  BY <1>1, <1>2, <1>3, RemoveEffect, PathsDiffer
      DEF IInv, RemoveExpired, RemoveTaken, SignalDropped
<1>5. ~RemoveTaken(p)
  <2> SUFFICES ASSUME RemoveTaken(p) PROVE FALSE
    OBVIOUS
  <2>1. pc[p] = "unlink" /\ pc'[p] = "idle"
    BY DEF RemoveTaken, Return, IInv, TypeOK
  <2>2. rec[p] # None
    BY <1>4, <2>1 DEF IInv, ProcessShape, ShapeOf
  <2> QED BY <1>4, <2>1, <2>2 DEF SignalDropped
<1>6. Expiring(p, k)
  BY <1>1, <1>3, <1>4, <1>5 DEF RemoveExpired, Expiring
<1> QED BY <1>6 DEF IInv, ResultsDated

\* However often a key is signalled, however many wait for it and whichever process
\* fails or dies: until some result stored for the key has outlived its TTL, a usable
\* result is removed only by a waiter that returns one.
THEOREM SignalKept == Spec => SignalKeptWithinTTL
<1>1. IInv /\ [Next]_vars =>
        [\A k \in Keys : SignalDropped(k) => now > firstExpiry[k]]_vars
  BY DroppedLate
<1> QED BY <1>1, InvHolds, PTL DEF Spec, SignalKeptWithinTTL
=============================================================================
