-------------------------- MODULE AsyncStoreProofs --------------------------
(***************************************************************************)
(* Machine-checked proofs about the asynchronous store, for every set of   *)
(* entries and readers and every queue and batch size.  The lemmas about   *)
(* its steps also serve the proofs of AuditPipeline.                       *)
(***************************************************************************)
EXTENDS AsyncStore, TLAPS, SequenceTheorems

-----------------------------------------------------------------------------
(* Sequences of records.                                                   *)

\* Where the elements of a concatenation come from.
LEMMA ConcatElements ==
    ASSUME NEW R, NEW s \in Seq(R), NEW t \in Seq(R)
    PROVE  /\ s \o t \in Seq(R)
           /\ Len(s \o t) = Len(s) + Len(t)
           /\ Len(s) \in Nat /\ Len(t) \in Nat
           /\ \A i \in 1..Len(s) : (s \o t)[i] = s[i]
           /\ \A i \in 1..Len(t) : (s \o t)[Len(s) + i] = t[i]
           /\ \A i \in 1..Len(s \o t) :
                 i \in 1..Len(s) \/ \E j \in 1..Len(t) : i = Len(s) + j
<1>1. Len(s) \in Nat /\ Len(t) \in Nat
  BY LenProperties
<1>2. /\ s \o t \in Seq(R)
      /\ Len(s \o t) = Len(s) + Len(t)
      /\ \A i \in 1..Len(s) + Len(t) : (s \o t)[i] =
            IF i <= Len(s) THEN s[i] ELSE t[i - Len(s)]
  BY ConcatProperties
<1>3. \A i \in 1..Len(t) : (s \o t)[Len(s) + i] = t[i]
  BY <1>1, <1>2
<1>4. ASSUME NEW i \in 1..Len(s \o t)
      PROVE  i \in 1..Len(s) \/ \E j \in 1..Len(t) : i = Len(s) + j
  <2>1. CASE i <= Len(s)
    BY <2>1, <1>1, <1>2
  <2>2. CASE ~(i <= Len(s))
    <3>1. i - Len(s) \in 1..Len(t) /\ i = Len(s) + (i - Len(s))
      BY <2>2, <1>1, <1>2
    <3>2. QED
      BY <3>1
  <2>3. QED
    BY <2>1, <2>2
<1>5. QED
  BY <1>1, <1>2, <1>3, <1>4

\* An identity is in a concatenation when it is in one of the parts.
LEMMA InSeqConcat ==
    ASSUME NEW R, NEW s \in Seq(R), NEW t \in Seq(R), NEW e
    PROVE  InSeq(e, s \o t) <=> InSeq(e, s) \/ InSeq(e, t)
<1>1. InSeq(e, s \o t) => InSeq(e, s) \/ InSeq(e, t)
  BY ConcatElements DEF InSeq
<1>2. InSeq(e, s) => InSeq(e, s \o t)
  BY ConcatElements DEF InSeq
<1>3. ASSUME InSeq(e, t) PROVE InSeq(e, s \o t)
  <2>1. PICK i \in 1..Len(t) : t[i].id = e
    BY <1>3 DEF InSeq
  <2>2. Len(s) + i \in 1..Len(s \o t) /\ (s \o t)[Len(s) + i] = t[i]
    BY ConcatElements
  <2>3. QED
    BY <2>1, <2>2 DEF InSeq
<1>4. QED
  BY <1>1, <1>2, <1>3

\* Concatenation is associative, for four parts.
LEMMA FourParts ==
    ASSUME NEW R, NEW s \in Seq(R), NEW b \in Seq(R),
           NEW h \in Seq(R), NEW u \in Seq(R)
    PROVE  (s \o (b \o h)) \o u = (s \o b) \o (h \o u)
<1>1. s \o b \in Seq(R)
  BY ConcatProperties
<1>2. ASSUME NEW v \in Seq(R) PROVE s \o (v \o h) = (s \o v) \o h
  BY ConcatAssociative, SMTT(60)
<1>3. ASSUME NEW t \in Seq(R) PROVE (t \o h) \o u = t \o (h \o u)
  BY ConcatAssociative, SMTT(60)
<1>4. QED
  BY <1>1, <1>2, <1>3

\* Taking the head of the queue into the batch leaves the line as it is.
LEMMA LineReceive ==
    \A s, b, q \in Seq(Records) :
       q # <<>> => s \o Append(b, Head(q)) \o Tail(q) = s \o b \o q
<1> SUFFICES ASSUME NEW s \in Seq(Records), NEW b \in Seq(Records),
                    NEW q \in Seq(Records), q # <<>>
             PROVE  s \o Append(b, Head(q)) \o Tail(q) = s \o b \o q
  OBVIOUS
<1>1. /\ Head(q) \in Records /\ Tail(q) \in Seq(Records) /\ q = <<Head(q)>> \o Tail(q)
  BY HeadTailProperties
<1>2. Append(b, Head(q)) = b \o <<Head(q)>> /\ <<Head(q)>> \in Seq(Records)
  BY <1>1, AppendIsConcat
<1>3. (s \o (b \o <<Head(q)>>)) \o Tail(q) = (s \o b) \o (<<Head(q)>> \o Tail(q))
  BY <1>1, <1>2, FourParts, SMTT(60)
<1>4. QED
  BY <1>1, <1>2, <1>3, Zenon

\* An accepted entry joins the line at its end.
LEMMA LineEnqueue ==
    ASSUME NEW R, NEW l \in Seq(R), NEW q \in Seq(R), NEW r \in R
    PROVE  l \o Append(q, r) = Append(l \o q, r)
<1>1. Append(q, r) = q \o <<r>> /\ <<r>> \in Seq(R)
  BY AppendIsConcat
<1>2. l \o q \in Seq(R) /\ l \o (q \o <<r>>) = (l \o q) \o <<r>>
  BY <1>1, ConcatAssociative, ConcatProperties
<1>3. QED
  BY <1>1, <1>2, AppendIsConcat

-----------------------------------------------------------------------------
(* Type correctness.                                                       *)

\* The record of an entry with a body is a Record.
LEMMA RecordType ==
    ASSUME NEW e \in Entries, NEW b \in Bodies
    PROVE  [id |-> e, body |-> b] \in Records
BY DEF Records

\* What the two outcomes of a backend append do to the backend.
LEMMA AppendTypes ==
    ASSUME StoreTypeOK, NEW b \in Seq(Records), AppendBatchOk(b) \/ AppendBatchFailed(b)
    PROVE  StoreTypeOK'
<1>1. stored \in Seq(Records) /\ Len(stored) \in Nat /\ synced \in 0..Len(stored)
  BY LenProperties DEF StoreTypeOK
<1>2. CASE AppendBatchOk(b)
  <2>1. stored' \in Seq(Records) /\ Len(stored') = Len(stored) + Len(b) /\ Len(b) \in Nat
    BY <1>1, <1>2, ConcatElements DEF AppendBatchOk
  <2>2. QED
    BY <1>1, <1>2, <2>1, DurableAssumption DEF AppendBatchOk, StoreTypeOK
<1>3. CASE AppendBatchFailed(b)
  <2>1. PICK k \in 0..Len(b) : stored' = stored \o SubSeq(b, 1, k)
    BY <1>3 DEF AppendBatchFailed
  <2>2. SubSeq(b, 1, k) \in Seq(Records)
    BY <2>1, SubSeqProperties, LenProperties
  <2>3. /\ stored' \in Seq(Records)
        /\ Len(stored') = Len(stored) + Len(SubSeq(b, 1, k))
        /\ Len(SubSeq(b, 1, k)) \in Nat
    BY <1>1, <2>1, <2>2, ConcatElements
  <2>4. QED
    BY <1>1, <1>3, <2>3 DEF AppendBatchFailed, StoreTypeOK
<1>4. QED
  BY <1>2, <1>3

CallTypes ==
    /\ pc \in [Callers -> CallPCs]
    /\ ret \in [Callers -> {"none", "ok", "err", "found", "absent"}]

\* Moving a caller to a label keeps the program counters typed.
LEMMA GotoType ==
    ASSUME CallTypes, NEW p, NEW l \in CallPCs, Goto(p, l)
    PROVE  CallTypes'
BY DEF CallTypes, Goto

\* A call that returns keeps the program counters and results typed.
LEMMA ReturnType ==
    ASSUME CallTypes, NEW p, NEW r \in {"none", "ok", "err", "found", "absent"},
           Return(p, r)
    PROVE  CallTypes'
BY DEF CallTypes, Return, CallPCs

\* What a caller does after its flush keeps the program counters typed.
LEMMA AfterFlushType ==
    ASSUME AsyncTypeOK, NEW p \in Callers, NEW failed \in BOOLEAN, AfterFlush(p, failed)
    PROVE  CallTypes'
<1>1. CallTypes /\ then[p] \in {"return", "sync", "query"}
  BY DEF AsyncTypeOK, CallTypes
<1>2. CASE failed \/ then[p] = "return"
  BY <1>1, <1>2, ReturnType DEF AfterFlush, ErrIf
<1>3. CASE ~(failed \/ then[p] = "return")
  BY <1>1, <1>3, GotoType DEF AfterFlush, CallPCs
<1>4. QED
  BY <1>2, <1>3

\* A step that moves callers and leaves the rest alone keeps the types.
LEMMA OnlyCallers ==
    ASSUME AsyncTypeOK, CallTypes',
           UNCHANGED <<storeVars, queue, workerVars, closeVars, then, arg, due>>
    PROVE  AsyncTypeOK'
BY DEF AsyncTypeOK, StoreTypeOK, CallTypes,
       storeVars, workerVars, closeVars

\* The steps of a caller inside the store keep the types.
LEMMA TypeCaller ==
    ASSUME AsyncTypeOK, NEW e \in Entries, CallerStep(e)
    PROVE  AsyncTypeOK'
<1>0. CallTypes /\ err \in BOOLEAN /\ e \in Callers
  BY DEF AsyncTypeOK, CallTypes, Callers
<1>1. CASE AppendCheckErr(e)
  BY <1>0, <1>1, GotoType, ReturnType, OnlyCallers DEF AppendCheckErr, CallPCs
<1>2. CASE AppendRLock(e)
  BY <1>0, <1>2, GotoType, ReturnType, OnlyCallers DEF AppendRLock, CallPCs
<1>3. ASSUME Enqueue(e)
      PROVE  CallTypes' /\ queue' \in Seq(Records) /\ Len(queue') <= QueueSize
  <2>1. [id |-> e, body |-> arg[e]] \in Records
    BY RecordType DEF AsyncTypeOK
  <2>2. queue' \in Seq(Records) /\ Len(queue') <= QueueSize
    BY <1>3, <2>1, AppendProperties, AsyncAssumption, LenProperties
       DEF Enqueue, AsyncTypeOK
  <2>3. CallTypes'
    BY <1>0, <1>3, GotoType, ReturnType DEF Enqueue, CallPCs
  <2>4. QED
    BY <2>2, <2>3
<1>4. ASSUME CallTypes', queue' \in Seq(Records), Len(queue') <= QueueSize,
             UNCHANGED <<storeVars, workerVars, closeVars, then, arg, due>>
      PROVE  AsyncTypeOK'
  BY <1>4 DEF AsyncTypeOK, StoreTypeOK, CallTypes,
              storeVars, workerVars, closeVars
<1>5. CASE AppendSend(e)
  <2>1. CASE Enqueue(e)
    BY <1>3, <1>4, <1>5, <2>1 DEF AppendSend
  <2>2. CASE Goto(e, "blocked") /\ UNCHANGED queue
    BY <1>0, <1>5, <2>2, GotoType, OnlyCallers DEF AppendSend, CallPCs
  <2>3. QED
    BY <1>5, <2>1, <2>2 DEF AppendSend
<1>6. CASE AppendBlocked(e)
  <2>1. CASE Enqueue(e)
    BY <1>3, <1>4, <1>6, <2>1 DEF AppendBlocked
  <2>2. CASE Return(e, "err") /\ UNCHANGED queue
    BY <1>0, <1>6, <2>2, ReturnType, OnlyCallers DEF AppendBlocked
  <2>3. QED
    BY <1>6, <2>1, <2>2 DEF AppendBlocked
<1>7. CASE FlushDone(e)
  BY <1>0, <1>7, AfterFlushType, OnlyCallers DEF FlushDone
<1>8. CASE DirectLock(e)
  BY <1>0, <1>8, GotoType, ReturnType, OnlyCallers DEF DirectLock, CallPCs
<1>9. ASSUME StoreTypeOK', CallTypes',
             UNCHANGED <<queue, workerVars, closeVars, then, arg, due>>
      PROVE  AsyncTypeOK'
  BY <1>9 DEF AsyncTypeOK, CallTypes, workerVars, closeVars
<1>10. CASE DirectAppend(e)
  <2>1. <<[id |-> e, body |-> arg[e]]>> \in Seq(Records)
    BY RecordType DEF AsyncTypeOK
  <2>2. StoreTypeOK'
    BY <1>10, <2>1, AppendTypes DEF DirectAppend, AsyncTypeOK
  <2>3. CallTypes'
    BY <1>0, <1>10, ReturnType DEF DirectAppend
  <2>4. QED
    BY <1>9, <1>10, <2>2, <2>3 DEF DirectAppend
<1>11. CASE LookupWait(e)
  BY <1>0, <1>11, GotoType, OnlyCallers DEF LookupWait, CallPCs
<1>12. CASE LookupRead(e)
  BY <1>0, <1>12, ReturnType, OnlyCallers DEF LookupRead
<1>13. CASE SyncWait(e)
  BY <1>0, <1>13, GotoType, OnlyCallers DEF SyncWait, CallPCs
<1>14. CASE SyncBackend(e)
  <2>1. StoreTypeOK'
    BY <1>14, LenProperties DEF SyncBackend, SyncOk, AsyncTypeOK, StoreTypeOK, storeVars
  <2>2. CallTypes'
    BY <1>0, <1>14, ReturnType DEF SyncBackend
  <2>3. QED
    BY <1>9, <1>14, <2>1, <2>2 DEF SyncBackend
<1>15. QED
  BY <1>1, <1>2, <1>5, <1>6, <1>7, <1>8, <1>10, <1>11, <1>12, <1>13, <1>14
     DEF CallerStep, AppendStep, RetryStep

\* The steps of the worker goroutine keep the types.
LEMMA TypeWorker ==
    ASSUME AsyncTypeOK, WorkerInv, WorkerStep
    PROVE  AsyncTypeOK'
<1> USE DEF AsyncTypeOK, workerVars, closeVars, callVars
<1>1. ASSUME NEW loop \in {"select", "drain"}, Receive(loop)
      PROVE  /\ queue' \in Seq(Records) /\ Len(queue') <= QueueSize
             /\ batch' \in Seq(Records)
             /\ wpc' \in WorkerPCs
             /\ wnext' \in {"select", "drain", "reply", "exit"}
  <2>1. /\ Head(queue) \in Records /\ Tail(queue) \in Seq(Records)
        /\ Len(Tail(queue)) = Len(queue) - 1 /\ Len(queue) \in Nat
    BY <1>1, HeadTailProperties, LenProperties DEF Receive
  <2>2. Append(batch, Head(queue)) \in Seq(Records)
    BY <2>1, AppendProperties
  <2>3. QED
    BY <1>1, <2>1, <2>2, AsyncAssumption DEF Receive, WorkerPCs
<1>2. CASE WorkerReceive
  BY <1>1, <1>2 DEF WorkerReceive, StoreTypeOK, storeVars
<1>3. CASE WorkerClosed
  BY <1>3 DEF WorkerClosed, WorkerPCs, StoreTypeOK, storeVars
<1>4. CASE WorkerTick
  BY <1>4 DEF WorkerTick, WorkerPCs, StoreTypeOK, storeVars
<1>5. CASE DrainReceive
  <2>1. remaining' \in 0..QueueSize
    BY <1>5, AsyncAssumption DEF DrainReceive
  <2>2. QED
    BY <1>1, <1>5, <2>1 DEF DrainReceive, StoreTypeOK, storeVars
<1>6. CASE DrainEnd
  BY <1>6 DEF DrainEnd, WorkerPCs, StoreTypeOK, storeVars
<1>7. CASE WriteBatch
  <2>1. StoreTypeOK'
    BY <1>7, AppendTypes DEF WriteBatch, StoreTypeOK, storeVars
  <2>2. /\ batch' = batch \/ batch' = <<>>
        /\ wpc' = wnext \/ wpc' = "fail"
        /\ UNCHANGED <<queue, wnext, remaining, client, err, closeVars, callVars>>
    BY <1>7 DEF WriteBatch
  <2>3. batch' \in Seq(Records) /\ wpc' \in WorkerPCs
    BY <2>2, EmptySeq DEF WorkerPCs
  <2>4. QED
    BY <2>1, <2>2, <2>3
<1>8. CASE WorkerSetErr
  BY <1>8 DEF WorkerSetErr, WorkerPCs, StoreTypeOK, storeVars
<1>9. CASE WorkerReply
  <2>1. client \in Callers
    BY <1>9 DEF WorkerReply, WorkerInv, Serving
  <2>2. CallTypes'
    BY <1>9, <2>1, AfterFlushType DEF WorkerReply
  <2>3. QED
    BY <1>9, <2>2 DEF WorkerReply, WorkerPCs, StoreTypeOK, storeVars, CallTypes
<1>10. CASE WorkerExit
  BY <1>10 DEF WorkerExit, WorkerPCs, StoreTypeOK, storeVars
<1>11. QED
  BY <1>2, <1>3, <1>4, <1>5, <1>6, <1>7, <1>8, <1>9, <1>10 DEF WorkerStep

\* Close, and the steps of a reader, keep the types.
LEMMA TypeOthers ==
    ASSUME AsyncTypeOK,
           \/ CloseCall \/ CloseStep
           \/ \E p \in Callers : FlushSend(p)
           \/ \E r \in Readers : QueryCall(r) \/ ReaderStep(r)
    PROVE  AsyncTypeOK'
<1>0. CallTypes /\ err \in BOOLEAN
  BY DEF AsyncTypeOK, CallTypes
<1>1. CASE CloseCall
  BY <1>1 DEF CloseCall, AsyncTypeOK, StoreTypeOK, storeVars, workerVars, callVars
<1>2. CASE CloseLocked
  BY <1>2 DEF CloseLocked, AsyncTypeOK, StoreTypeOK, storeVars, workerVars, callVars
<1>3. CASE CloseStore
  BY <1>3 DEF CloseStore, CloseBackend, ErrIf, AsyncTypeOK, StoreTypeOK, workerVars, callVars
<1>4. ASSUME NEW p \in Callers, FlushSend(p) PROVE AsyncTypeOK'
  <2>1. CallTypes'
    BY <1>0, <1>4, GotoType DEF FlushSend, CallPCs
  <2>2. remaining' \in 0..QueueSize
    BY <1>4, AsyncAssumption, LenProperties DEF FlushSend, AsyncTypeOK
  <2>3. QED
    BY <1>4, <2>1, <2>2 DEF FlushSend, AsyncTypeOK, StoreTypeOK, CallTypes,
       WorkerPCs, storeVars, closeVars
<1>5. ASSUME NEW r \in Readers, QueryCall(r) PROVE AsyncTypeOK'
  <2>1. CallTypes'
    BY <1>0, <1>5, GotoType DEF QueryCall, CallPCs
  <2>2. Acked \in SUBSET Entries
    BY DEF Acked
  <2>3. QED
    BY <1>5, <2>1, <2>2 DEF QueryCall, AsyncTypeOK, StoreTypeOK, CallTypes,
       storeVars, workerVars, closeVars
<1>6. ASSUME NEW r \in Readers, FlushDone(r) PROVE AsyncTypeOK'
  BY <1>0, <1>6, AfterFlushType, OnlyCallers DEF FlushDone, Callers
<1>7. ASSUME NEW r \in Readers, QueryRead(r) PROVE AsyncTypeOK'
  BY <1>0, <1>7, ReturnType, OnlyCallers DEF QueryRead
<1>8. QED
  BY <1>1, <1>2, <1>3, <1>4, <1>5, <1>6, <1>7 DEF CloseStep, ReaderStep

-----------------------------------------------------------------------------
(* The worker, its client and the lock.                                    *)

\* A caller that is not waiting for a reply moves to a place that does not
\* hold the lock: the worker and the lock are as before.
LEMMA QuietCaller ==
    ASSUME AsyncTypeOK, WorkerInv, CloseExcludesWriters, UNCHANGED <<queue, workerVars, closed>>,
           NEW p \in Callers, pc[p] # "reply",
           NEW l \in CallPCs, l # "reply", closed => l \notin {"send", "blocked", "direct"},
           pc' = [pc EXCEPT ![p] = l]
    PROVE  WorkerInv' /\ CloseExcludesWriters'
<1>1. pc \in [Callers -> CallPCs] /\ Entries \subseteq Callers
  BY DEF AsyncTypeOK, Callers
<1>2. WorkerInv'
  BY <1>1 DEF WorkerInv, Serving, workerVars
<1>3. CloseExcludesWriters'
  BY <1>1 DEF CloseExcludesWriters, Holding
<1>4. QED
  BY <1>2, <1>3

\* The steps of a caller inside the store.
LEMMA WorkerInvCaller ==
    ASSUME AsyncTypeOK, WorkerInv, CloseExcludesWriters, NEW e \in Entries, CallerStep(e)
    PROVE  WorkerInv' /\ CloseExcludesWriters'
<1>0. e \in Callers /\ pc \in [Callers -> CallPCs] /\ then[e] \in {"return", "sync", "query"}
  BY DEF AsyncTypeOK, Callers
<1>1. CASE AppendCheckErr(e)
  BY <1>0, <1>1, QuietCaller DEF AppendCheckErr, Goto, Return, CallPCs, closeVars
<1>2. CASE AppendRLock(e)
  BY <1>0, <1>2, QuietCaller DEF AppendRLock, Goto, Return, CallPCs, closeVars
<1>3. ASSUME pc[e] \in {"send", "blocked"}, Enqueue(e), UNCHANGED <<workerVars, closeVars>>
      PROVE  WorkerInv' /\ CloseExcludesWriters'
  <2>1. ~closed
    BY <1>3 DEF CloseExcludesWriters, Holding
  <2>2. Len(queue') = Len(queue) + 1 /\ Len(queue) \in Nat
    BY <1>3, AppendProperties, LenProperties DEF Enqueue, AsyncTypeOK
  <2>3. /\ remaining \in Nat
        /\ \E l \in {"flush", "idle"} : pc' = [pc EXCEPT ![e] = l]
    BY <1>3 DEF Enqueue, Goto, Return, AsyncTypeOK
  <2>4. WorkerInv'
    BY <1>0, <1>3, <2>1, <2>2, <2>3 DEF WorkerInv, Serving, workerVars, closeVars
  <2>5. CloseExcludesWriters'
    BY <1>0, <1>3, <2>1 DEF CloseExcludesWriters, closeVars
  <2>6. QED
    BY <2>4, <2>5
<1>4. CASE AppendSend(e)
  <2>1. closed => FALSE
    BY <1>4 DEF AppendSend, CloseExcludesWriters, Holding
  <2>2. CASE Enqueue(e)
    BY <1>3, <1>4, <2>2 DEF AppendSend
  <2>3. CASE Goto(e, "blocked") /\ UNCHANGED queue
    BY <1>0, <1>4, <2>1, <2>3, QuietCaller DEF AppendSend, Goto, CallPCs, closeVars
  <2>4. QED
    BY <1>4, <2>2, <2>3 DEF AppendSend
<1>5. CASE AppendBlocked(e)
  <2>1. CASE Enqueue(e)
    BY <1>3, <1>5, <2>1 DEF AppendBlocked
  <2>2. CASE Return(e, "err") /\ UNCHANGED queue
    BY <1>0, <1>5, <2>2, QuietCaller DEF AppendBlocked, Return, CallPCs, closeVars
  <2>3. QED
    BY <1>5, <2>1, <2>2 DEF AppendBlocked
<1>6. CASE FlushDone(e)
  BY <1>0, <1>6, QuietCaller DEF FlushDone, AfterFlush, Goto, Return, CallPCs, closeVars
<1>7. CASE DirectLock(e)
  BY <1>0, <1>7, QuietCaller DEF DirectLock, Goto, Return, CallPCs, closeVars
<1>8. CASE DirectAppend(e)
  BY <1>0, <1>8, QuietCaller DEF DirectAppend, Return, CallPCs, closeVars
<1>9. CASE LookupWait(e)
  BY <1>0, <1>9, QuietCaller DEF LookupWait, Goto, CallPCs, closeVars
<1>10. CASE LookupRead(e)
  BY <1>0, <1>10, QuietCaller DEF LookupRead, Return, CallPCs, closeVars
<1>11. CASE SyncWait(e)
  BY <1>0, <1>11, QuietCaller DEF SyncWait, Goto, CallPCs, closeVars
<1>12. CASE SyncBackend(e)
  BY <1>0, <1>12, QuietCaller DEF SyncBackend, Return, CallPCs, closeVars
<1>13. QED
  BY <1>1, <1>2, <1>4, <1>5, <1>6, <1>7, <1>8, <1>9, <1>10, <1>11, <1>12
     DEF CallerStep, AppendStep, RetryStep

\* The steps of the worker.
LEMMA WorkerInvWorker ==
    ASSUME AsyncTypeOK, WorkerInv, CloseExcludesWriters, WorkerStep
    PROVE  WorkerInv' /\ CloseExcludesWriters'
<1>0. /\ pc \in [Callers -> CallPCs] /\ wpc \in WorkerPCs /\ err \in BOOLEAN
      /\ wnext \in {"select", "drain", "reply", "exit"}
      /\ queue \in Seq(Records) /\ Len(queue) \in Nat /\ remaining \in Nat
      /\ NoCaller \notin Callers
  BY LenProperties, AsyncAssumption DEF AsyncTypeOK
<1>1. ASSUME NEW loop \in {"select", "drain"}, Receive(loop)
      PROVE  Len(queue') = Len(queue) - 1
  BY <1>0, <1>1, HeadTailProperties DEF Receive
<1>2. ASSUME UNCHANGED <<closeVars, callVars>> PROVE CloseExcludesWriters'
  BY <1>2 DEF CloseExcludesWriters, Holding, closeVars, callVars
<1> USE DEF WorkerInv, Serving, WorkerPCs, closeVars, callVars
<1>3. CASE WorkerReceive
  BY <1>0, <1>2, <1>3 DEF WorkerReceive, Receive
<1>4. CASE WorkerClosed
  BY <1>0, <1>2, <1>4 DEF WorkerClosed
<1>5. CASE WorkerTick
  BY <1>0, <1>2, <1>5 DEF WorkerTick
<1>6. CASE DrainReceive
  BY <1>0, <1>1, <1>2, <1>6 DEF DrainReceive, Receive
<1>7. CASE DrainEnd
  BY <1>0, <1>2, <1>7 DEF DrainEnd
<1>8. CASE WriteBatch
  <2>1. /\ (batch' = <<>> /\ wpc' = wnext) \/ (batch' = batch /\ wpc' = "fail")
        /\ UNCHANGED <<queue, wnext, remaining, client, err, closeVars, callVars>>
    BY <1>8 DEF WriteBatch
  <2>2. QED
    BY <1>0, <1>2, <1>8, <2>1 DEF WriteBatch
<1>9. CASE WorkerSetErr
  BY <1>0, <1>2, <1>9 DEF WorkerSetErr
<1>10. CASE WorkerReply
  <2>1. /\ client \in Callers /\ pc[client] = "reply"
        /\ \A p \in Callers : pc[p] = "reply" => client = p
    BY <1>10 DEF WorkerReply
  <2>2. \E l \in {"idle", "sync", "query"} : pc' = [pc EXCEPT ![client] = l]
    BY <1>10, <2>1 DEF WorkerReply, AfterFlush, Goto, Return, AsyncTypeOK
  <2>3. WorkerInv'
    BY <1>0, <1>10, <2>1, <2>2 DEF WorkerReply
  <2>4. CloseExcludesWriters'
    BY <1>0, <1>10, <2>2 DEF WorkerReply, CloseExcludesWriters, Holding, Callers
  <2>5. QED
    BY <2>3, <2>4
<1>11. CASE WorkerExit
  BY <1>0, <1>2, <1>11 DEF WorkerExit
<1>12. QED
  BY <1>3, <1>4, <1>5, <1>6, <1>7, <1>8, <1>9, <1>10, <1>11 DEF WorkerStep

\* Close, flush requests and readers.
LEMMA WorkerInvOthers ==
    ASSUME AsyncTypeOK, WorkerInv, CloseExcludesWriters,
           \/ CloseCall \/ CloseStep
           \/ \E p \in Callers : FlushSend(p)
           \/ \E r \in Readers : QueryCall(r) \/ ReaderStep(r)
    PROVE  WorkerInv' /\ CloseExcludesWriters'
<1>0. /\ pc \in [Callers -> CallPCs] /\ Readers \subseteq Callers /\ Entries \subseteq Callers
      /\ Len(queue) \in Nat /\ err \in BOOLEAN
  BY LenProperties DEF AsyncTypeOK, Callers
<1>1. CASE CloseCall
  BY <1>1 DEF CloseCall, WorkerInv, Serving, CloseExcludesWriters, Holding,
              workerVars, callVars
<1>2. CASE CloseLocked
  BY <1>0, <1>2 DEF CloseLocked, WorkerInv, Serving, CloseExcludesWriters,
              Holding, workerVars, callVars
<1>3. CASE CloseStore
  BY <1>3 DEF CloseStore, WorkerInv, Serving, CloseExcludesWriters, Holding,
              workerVars, callVars
<1>4. ASSUME NEW p \in Callers, FlushSend(p) PROVE WorkerInv' /\ CloseExcludesWriters'
  BY <1>0, <1>4 DEF FlushSend, Goto, WorkerInv, Serving, CloseExcludesWriters,
              Holding, closeVars
<1>5. ASSUME NEW r \in Readers, QueryCall(r) PROVE WorkerInv' /\ CloseExcludesWriters'
  BY <1>0, <1>5, QuietCaller DEF QueryCall, Goto, CallPCs, closeVars
<1>6. ASSUME NEW r \in Readers, FlushDone(r) PROVE WorkerInv' /\ CloseExcludesWriters'
  <2>1. then[r] \in {"return", "sync", "query"}
    BY <1>0 DEF AsyncTypeOK
  <2>2. QED
    BY <1>0, <1>6, <2>1, QuietCaller DEF FlushDone, AfterFlush, Goto, Return, CallPCs, closeVars
<1>7. ASSUME NEW r \in Readers, QueryRead(r) PROVE WorkerInv' /\ CloseExcludesWriters'
  BY <1>0, <1>7, QuietCaller DEF QueryRead, Return, CallPCs, closeVars
<1>8. QED
  BY <1>1, <1>2, <1>3, <1>4, <1>5, <1>6, <1>7 DEF CloseStep, ReaderStep

\* The beginning of an append.
LEMMA AppendCallStep ==
    ASSUME AsyncTypeOK, WorkerInv, CloseExcludesWriters, NEW e \in Entries, NEW b \in Bodies, AppendCall(e, b)
    PROVE  AsyncTypeOK' /\ WorkerInv' /\ CloseExcludesWriters'
<1>1. e \in Callers /\ CallTypes
  BY DEF Callers, CallTypes, AsyncTypeOK
<1>2. CallTypes'
  BY <1>1, GotoType DEF AppendCall, CallPCs
<1>3. AsyncTypeOK'
  BY <1>2 DEF AppendCall, AsyncTypeOK, StoreTypeOK, CallTypes, storeVars, workerVars, closeVars
<1>4. WorkerInv' /\ CloseExcludesWriters'
  BY <1>1, QuietCaller DEF AppendCall, Goto, CallPCs, closeVars
<1>5. QED
  BY <1>3, <1>4

-----------------------------------------------------------------------------
(* What was queued, and what a flush covers.                               *)

\* The record of e is on its way, or stored.
Accounted(e) == InSeq(e, stored) \/ InSeq(e, batch) \/ InSeq(e, queue)
Draining == wpc = "drain" \/ (wpc = "write" /\ wnext = "drain")
Ahead(e) == InSeq(e, stored) \/ InSeq(e, batch) \/ (Draining /\ \E i \in 1..remaining : queue[i].id = e)

LEMMA CallParts ==
    /\ QueuedInv <=> \A e \in Entries : (Queued(e) /\ ~Failed => Accounted(e)) /\ (ret[e] # "none" => pc[e] = "idle")
    /\ CoverInv <=> \A r \in Readers :
          /\ due[r] \subseteq Acked
          /\ pc[r] = "query" => \A e \in due[r] : InSeq(e, stored)
          /\ Serving /\ client = r /\ ~Failed => \A e \in due[r] : Ahead(e)
BY DEF QueuedInv, CoverInv, Accounted, Ahead, Draining

LEMMA PartsAfter ==
    ASSUME \A e \in Entries : (Queued(e)' /\ ~Failed' => Accounted(e)') /\ (ret'[e] # "none" => pc'[e] = "idle"),
           \A r \in Readers :
              /\ due'[r] \subseteq Acked'
              /\ pc'[r] = "query" => \A e \in due'[r] : InSeq(e, stored')
              /\ Serving' /\ client' = r /\ ~Failed' => \A e \in due'[r] : Ahead(e)'
    PROVE  QueuedInv' /\ CoverInv'
BY DEF QueuedInv, CoverInv, Accounted, Ahead, Draining

\* A caller that the worker does not serve moves, and may add to the queue.
LEMMA CallerMoves ==
    ASSUME AsyncInv, UNCHANGED <<stored, workerVars, due>>, NEW p \in Callers, NEW l \in CallPCs, l # "reply",
           pc' = [pc EXCEPT ![p] = l], NEW x, ret' = [ret EXCEPT ![p] = x],
           \A e : InSeq(e, queue) => InSeq(e, queue'), \A i \in 1..Len(queue) : queue'[i] = queue[i],
           p \in Entries => /\ ret[p] = "none" /\ (x # "none" => l = "idle")
                            /\ (x = "ok" \/ l = "flush") /\ ~Failed => Accounted(p)',
           p \in Readers /\ l = "query" => \A e \in due[p] : InSeq(e, stored)
    PROVE  QueuedInv' /\ CoverInv'
<1>1. /\ pc \in [Callers -> CallPCs] /\ DOMAIN ret = Callers /\ Entries \cap Readers = {}
      /\ Entries \subseteq Callers /\ Readers \subseteq Callers
  BY AsyncAssumption DEF AsyncInv, AsyncTypeOK, Callers
<1>2. /\ wpc' = wpc /\ wnext' = wnext /\ remaining' = remaining /\ client' = client /\ err' = err
      /\ batch' = batch /\ stored' = stored /\ due' = due
  BY DEF workerVars
<1>3. (Failed' <=> Failed) /\ (Serving' <=> Serving)
  BY <1>2 DEF Failed, Serving
<1>4. ASSUME NEW e \in Entries
      PROVE  (Queued(e)' /\ ~Failed' => Accounted(e)') /\ (ret'[e] # "none" => pc'[e] = "idle")
  <2>1. CASE e = p
    BY <1>1, <1>3, <2>1 DEF Queued
  <2>2. CASE e # p
    <3>1. pc'[e] = pc[e] /\ ret'[e] = ret[e]
      BY <1>1, <2>2
    <3>2. Accounted(e) => Accounted(e)'
      BY <1>2 DEF Accounted
    <3>3. QED
      BY <1>3, <3>1, <3>2, CallParts DEF AsyncInv, Queued
  <2>3. QED
    BY <2>1, <2>2
<1>5. ASSUME NEW r \in Readers
      PROVE  /\ due'[r] \subseteq Acked'
             /\ pc'[r] = "query" => \A e \in due'[r] : InSeq(e, stored')
             /\ Serving' /\ client' = r /\ ~Failed' => \A e \in due'[r] : Ahead(e)'
  <2>1. Acked \subseteq Acked'
    BY <1>1 DEF Acked
  <2>2. pc'[r] = "query" => \A e \in due'[r] : InSeq(e, stored')
    BY <1>1, <1>2, CallParts DEF AsyncInv
  <2>3. \A e : Draining /\ (\E i \in 1..remaining : queue[i].id = e)
               => (\E i \in 1..remaining : queue'[i].id = e)
    <3>1. Draining => remaining <= Len(queue) /\ remaining \in Nat /\ Len(queue) \in Nat
      BY LenProperties DEF Draining, AsyncInv, WorkerInv, AsyncTypeOK
    <3>2. QED
      BY <3>1
  <2>4. \A e : Ahead(e) => Ahead(e)'
    BY <1>2, <2>3 DEF Ahead, Draining
  <2>5. QED
    BY <1>2, <1>3, <2>1, <2>2, <2>4, CallParts DEF AsyncInv
<1>6. QED
  BY <1>4, <1>5, PartsAfter

\* The steps of an append.
LEMMA CallsAppend ==
    ASSUME AsyncInv, NEW e \in Entries, AppendStep(e) \/ \E b \in Bodies : ret[e] = "none" /\ AppendCall(e, b)
    PROVE  QueuedInv' /\ CoverInv'
<1>1. /\ e \in Callers /\ e \notin Readers /\ pc \in [Callers -> CallPCs] /\ DOMAIN ret = Callers
      /\ queue \in Seq(Records) /\ arg[e] \in Bodies /\ then[e] \in {"return", "sync", "query"}
      /\ err \in BOOLEAN /\ ret[e] \in {"none", "ok", "err", "found", "absent"}
  BY AsyncAssumption DEF AsyncInv, AsyncTypeOK, Callers
<1>2. pc[e] # "idle" => ret[e] = "none"
  BY DEF AsyncInv, QueuedInv
<1>3. ret = [ret EXCEPT ![e] = ret[e]]
  BY <1>1 DEF AsyncInv, AsyncTypeOK
<1>4. ASSUME UNCHANGED <<storeVars, queue, workerVars, due>>, ret[e] = "none", NEW l \in CallPCs,
             l \notin {"reply", "flush"}, pc' = [pc EXCEPT ![e] = l],
             ret' = ret \/ (ret' = [ret EXCEPT ![e] = "err"] /\ l = "idle")
      PROVE  QueuedInv' /\ CoverInv'
  <2>1. CASE ret' = ret
    BY <1>1, <1>3, <1>4, <2>1, CallerMoves DEF storeVars
  <2>2. CASE ret' = [ret EXCEPT ![e] = "err"] /\ l = "idle"
    BY <1>1, <1>4, <2>2, CallerMoves DEF storeVars
  <2>3. QED
    BY <1>4, <2>1, <2>2
<1>5. ASSUME UNCHANGED <<storeVars, workerVars, due>>, ret[e] = "none", Enqueue(e)
      PROVE  QueuedInv' /\ CoverInv'
  <2>1. PICK rec : rec = [id |-> e, body |-> arg[e]]
    OBVIOUS
  <2>2. rec \in Records /\ rec.id = e /\ queue' = Append(queue, rec)
    BY <1>1, <1>5, <2>1, RecordType DEF Enqueue
  <2>3. /\ Len(queue') = Len(queue) + 1 /\ Len(queue) \in Nat /\ queue'[Len(queue) + 1] = rec
        /\ \A i \in 1..Len(queue) : queue'[i] = queue[i]
    BY <1>1, <2>2, AppendProperties, LenProperties
  <2>4. InSeq(e, queue') /\ \A f : InSeq(f, queue) => InSeq(f, queue')
    BY <2>2, <2>3 DEF InSeq
  <2>5. Accounted(e)'
    BY <2>4 DEF Accounted
  <2>6. CASE pc' = [pc EXCEPT ![e] = "flush"] /\ ret' = ret
    BY <1>1, <1>3, <1>5, <2>3, <2>4, <2>5, <2>6, CallerMoves DEF storeVars, CallPCs
  <2>7. CASE pc' = [pc EXCEPT ![e] = "idle"] /\ ret' = [ret EXCEPT ![e] = "ok"]
    BY <1>1, <1>5, <2>3, <2>4, <2>5, <2>7, CallerMoves DEF storeVars, CallPCs
  <2>8. QED
    BY <1>5, <2>6, <2>7 DEF Enqueue, Goto, Return
<1>6. CASE AppendCheckErr(e)
  BY <1>2, <1>4, <1>6 DEF AppendCheckErr, Goto, Return, CallPCs
<1>7. CASE AppendRLock(e)
  BY <1>2, <1>4, <1>7 DEF AppendRLock, Goto, Return, CallPCs
<1>8. CASE AppendSend(e)
  BY <1>2, <1>4, <1>5, <1>8 DEF AppendSend, Goto, CallPCs
<1>9. CASE AppendBlocked(e)
  BY <1>2, <1>4, <1>5, <1>9 DEF AppendBlocked, Return, CallPCs
<1>10. CASE FlushDone(e)
  <2>1. /\ UNCHANGED <<storeVars, queue, workerVars, due>> /\ ret[e] = "none" /\ wpc = "done"
        /\ pc[e] = "flush" /\ AfterFlush(e, err)
    BY <1>2, <1>10 DEF FlushDone, WorkerDone
  <2>2. CASE err
    BY <1>4, <2>1, <2>2 DEF AfterFlush, ErrIf, Return, CallPCs
  <2>3. CASE ~err
    <3>1. Accounted(e)'
      BY <2>1, <2>3 DEF AsyncInv, QueuedInv, Queued, Failed, Accounted, storeVars, workerVars
    <3>2. CASE then[e] = "return"
      BY <1>1, <2>1, <2>3, <3>1, <3>2, CallerMoves DEF AfterFlush, ErrIf, Return, CallPCs, storeVars
    <3>3. CASE then[e] # "return"
      BY <1>1, <1>4, <2>1, <2>3, <3>3 DEF AfterFlush, Goto, CallPCs
    <3>4. QED
      BY <3>2, <3>3
  <2>4. QED
    BY <2>2, <2>3
<1>11. CASE \E b \in Bodies : ret[e] = "none" /\ AppendCall(e, b)
  BY <1>4, <1>11 DEF AppendCall, Goto, CallPCs
<1>12. QED
  BY <1>6, <1>7, <1>8, <1>9, <1>10, <1>11 DEF AppendStep

\* The backend only grows.
LEMMA StoredGrows ==
    ASSUME StoreTypeOK, NEW b \in Seq(Records), AppendBatchOk(b) \/ AppendBatchFailed(b), NEW e
    PROVE  /\ InSeq(e, stored) => InSeq(e, stored')
           /\ AppendBatchOk(b) /\ InSeq(e, b) => InSeq(e, stored')
<1>1. stored \in Seq(Records)
  BY DEF StoreTypeOK
<1>2. CASE AppendBatchOk(b)
  BY <1>1, <1>2, InSeqConcat DEF AppendBatchOk
<1>3. CASE AppendBatchFailed(b) /\ ~AppendBatchOk(b)
  <2>1. PICK k \in 0..Len(b) : stored' = stored \o SubSeq(b, 1, k)
    BY <1>3 DEF AppendBatchFailed
  <2>2. SubSeq(b, 1, k) \in Seq(Records)
    BY <2>1, SubSeqProperties, LenProperties
  <2>3. QED
    BY <1>1, <1>3, <2>1, <2>2, InSeqConcat
<1>4. QED
  BY <1>2, <1>3

\* The worker takes the head of the queue.
LEMMA ReceiveKeeps ==
    ASSUME AsyncTypeOK, NEW loop, Receive(loop), NEW e
    PROVE  /\ InSeq(e, batch) \/ InSeq(e, queue) => InSeq(e, batch') \/ InSeq(e, queue')
           /\ InSeq(e, batch) => InSeq(e, batch')
           /\ queue[1].id = e => InSeq(e, batch')
           /\ \A i \in 2..Len(queue) : queue'[i - 1] = queue[i]
           /\ Len(queue') = Len(queue) - 1 /\ Len(queue) \in Nat \ {0}
<1>1. queue \in Seq(Records) /\ batch \in Seq(Records) /\ Len(queue) \in Nat /\ Len(batch) \in Nat
  BY LenProperties DEF AsyncTypeOK
<1>2. /\ Head(queue) \in Records /\ Head(queue) = queue[1]
      /\ queue' = Tail(queue) /\ batch' = Append(batch, Head(queue)) /\ Len(queue) # 0
  BY <1>1, HeadTailProperties, EmptySeq DEF Receive
<1>3. /\ Len(queue') = Len(queue) - 1
      /\ \A i \in 1..Len(queue) - 1 : queue'[i] = queue[i + 1]
  BY <1>1, <1>2, HeadTailProperties
<1>4. \A i \in 2..Len(queue) : queue'[i - 1] = queue[i] /\ i - 1 \in 1..Len(queue')
  BY <1>1, <1>3
<1>5. /\ Len(batch') = Len(batch) + 1 /\ batch'[Len(batch) + 1] = queue[1]
      /\ \A i \in 1..Len(batch) : batch'[i] = batch[i]
  BY <1>1, <1>2, AppendProperties
<1>6. queue[1].id = e => InSeq(e, batch')
  BY <1>1, <1>5 DEF InSeq
<1>7. InSeq(e, batch) => InSeq(e, batch')
  BY <1>1, <1>5 DEF InSeq
<1>8. InSeq(e, queue) => InSeq(e, batch') \/ InSeq(e, queue')
  <2>1. SUFFICES ASSUME NEW i \in 1..Len(queue), queue[i].id = e
                 PROVE  InSeq(e, batch') \/ InSeq(e, queue')
    BY DEF InSeq
  <2>2. CASE i = 1
    BY <1>6, <2>1, <2>2
  <2>3. CASE i # 1
    <3>1. i \in 2..Len(queue)
      BY <1>1, <2>3
    <3>2. QED
      BY <1>4, <2>1, <3>1 DEF InSeq
  <2>4. QED
    BY <2>2, <2>3
<1>9. QED
  BY <1>1, <1>2, <1>3, <1>4, <1>6, <1>7, <1>8

\* The worker moves and the callers do not.
LEMMA WorkerMoves ==
    ASSUME AsyncInv, UNCHANGED callVars, Failed => Failed',
           ~Failed' => \A e : Accounted(e) => Accounted(e)',
           \A e : InSeq(e, stored) => InSeq(e, stored'),
           Serving' /\ ~Failed' => Serving /\ client' = client /\ \A e : Ahead(e) => Ahead(e)'
    PROVE  QueuedInv' /\ CoverInv'
<1>1. pc' = pc /\ ret' = ret /\ due' = due
  BY DEF callVars
<1>2. ASSUME NEW e \in Entries
      PROVE  (Queued(e)' /\ ~Failed' => Accounted(e)') /\ (ret'[e] # "none" => pc'[e] = "idle")
  BY <1>1, CallParts DEF AsyncInv, Queued
<1>3. ASSUME NEW r \in Readers
      PROVE  /\ due'[r] \subseteq Acked'
             /\ pc'[r] = "query" => \A e \in due'[r] : InSeq(e, stored')
             /\ Serving' /\ client' = r /\ ~Failed' => \A e \in due'[r] : Ahead(e)'
  BY <1>1, CallParts DEF AsyncInv, Acked
<1>4. QED
  BY <1>2, <1>3, PartsAfter

LEMMA CallsWorker ==
    ASSUME AsyncInv, WorkerStep, ~WorkerReply
    PROVE  QueuedInv' /\ CoverInv'
<1>1. /\ AsyncTypeOK /\ WorkerInv /\ StoreTypeOK /\ batch \in Seq(Records) /\ wpc \in WorkerPCs
      /\ wnext \in {"select", "drain", "reply", "exit"} /\ err \in BOOLEAN
      /\ remaining \in Nat /\ Len(queue) \in Nat
  BY LenProperties DEF AsyncInv, AsyncTypeOK
<1>2. CASE WorkerReceive
  <2>1. Receive("select") /\ UNCHANGED <<storeVars, err, callVars>> /\ wpc = "select"
    BY <1>2 DEF WorkerReceive
  <2>2. ~Serving' /\ (Failed' <=> Failed)
    BY <2>1 DEF Receive, Serving, Failed
  <2>3. \A e : (Accounted(e) => Accounted(e)') /\ (InSeq(e, stored) => InSeq(e, stored'))
    BY <1>1, <2>1, ReceiveKeeps DEF Accounted, storeVars
  <2>4. QED
    BY <2>1, <2>2, <2>3, WorkerMoves
<1>3. CASE WorkerClosed \/ WorkerTick \/ DrainEnd \/ WorkerExit
  <2>1. UNCHANGED <<storeVars, queue, batch, remaining, client, err, callVars>>
    BY <1>3 DEF WorkerClosed, WorkerTick, DrainEnd, WorkerExit
  <2>2. \A e : (Accounted(e) => Accounted(e)') /\ (InSeq(e, stored) => InSeq(e, stored'))
    BY <2>1 DEF Accounted, storeVars
  <2>3. (Failed' <=> Failed) /\ (Serving' => DrainEnd)
    BY <1>3, <2>1 DEF WorkerClosed, WorkerTick, DrainEnd, WorkerExit, Failed, Serving
  <2>4. ASSUME DrainEnd PROVE Serving /\ \A e : Ahead(e) => Ahead(e)'
    <3>1. remaining = 0
      BY <1>1, <2>4, EmptySeq DEF DrainEnd, WorkerInv
    <3>2. QED
      BY <2>1, <2>4, <3>1 DEF DrainEnd, Serving, Ahead, storeVars
  <2>5. QED
    BY <2>1, <2>2, <2>3, <2>4, WorkerMoves
<1>4. CASE DrainReceive
  <2>1. /\ Receive("drain") /\ UNCHANGED <<storeVars, client, err, callVars>> /\ wpc = "drain"
        /\ remaining > 0 /\ remaining' = remaining - 1
    BY <1>4 DEF DrainReceive
  <2>2. Draining' /\ Serving /\ Draining /\ (Failed' <=> Failed)
    BY <2>1 DEF Receive, Draining, Serving, Failed
  <2>3. \A e : (Accounted(e) => Accounted(e)') /\ (InSeq(e, stored) => InSeq(e, stored'))
    BY <1>1, <2>1, ReceiveKeeps DEF Accounted, storeVars
  <2>4. ASSUME NEW e, Ahead(e) PROVE Ahead(e)'
    <3>1. CASE InSeq(e, stored) \/ InSeq(e, batch)
      BY <1>1, <2>1, <3>1, ReceiveKeeps DEF Ahead, storeVars
    <3>2. CASE \E i \in 1..remaining : queue[i].id = e
      <4>1. PICK i \in 1..remaining : queue[i].id = e
        BY <3>2
      <4>2. CASE i = 1
        BY <1>1, <2>1, <4>1, <4>2, ReceiveKeeps DEF Ahead
      <4>3. CASE i # 1
        <5>1. remaining <= Len(queue)
          BY <1>1, <2>1 DEF WorkerInv
        <5>2. i \in 2..Len(queue) /\ i - 1 \in 1..remaining'
          BY <1>1, <2>1, <4>1, <4>3, <5>1
        <5>3. queue'[i - 1] = queue[i]
          BY <1>1, <2>1, <5>2, ReceiveKeeps
        <5>4. QED
          BY <2>2, <4>1, <5>2, <5>3 DEF Ahead
      <4>4. QED
        BY <4>2, <4>3
    <3>3. QED
      BY <2>4, <3>1, <3>2 DEF Ahead
  <2>5. QED
    BY <2>1, <2>2, <2>3, <2>4, WorkerMoves
<1>5. CASE WriteBatch
  <2>1. UNCHANGED <<queue, wnext, remaining, client, err, callVars>> /\ wpc = "write"
    BY <1>5 DEF WriteBatch
  <2>2. \A e : InSeq(e, stored) => InSeq(e, stored')
    BY <1>1, <1>5, StoredGrows DEF WriteBatch, storeVars
  <2>3. CASE wpc' = "fail"
    <3>1. Failed'
      BY <2>3 DEF Failed
    <3>2. QED
      BY <2>1, <2>2, <3>1, WorkerMoves
  <2>4. CASE wpc' # "fail"
    <3>1. wpc' = wnext /\ (batch = <<>> \/ AppendBatchOk(batch)) /\ batch' = <<>>
      BY <1>5, <2>4 DEF WriteBatch
    <3>2. \A e : InSeq(e, batch) => InSeq(e, stored')
      <4>1. CASE batch = <<>>
        BY <4>1 DEF InSeq
      <4>2. CASE AppendBatchOk(batch)
        BY <1>1, <4>2, StoredGrows
      <4>3. QED
        BY <3>1, <4>1, <4>2
    <3>3. \A e : (Accounted(e) => Accounted(e)') /\ (Ahead(e) => Ahead(e)')
      BY <2>1, <2>2, <3>1, <3>2 DEF Accounted, Ahead, Draining
    <3>4. (Failed' <=> Failed) /\ (Serving' => Serving)
      BY <1>1, <2>1, <2>4, <3>1 DEF Failed, Serving
    <3>5. QED
      BY <2>1, <2>2, <3>3, <3>4, WorkerMoves
  <2>5. QED
    BY <2>3, <2>4
<1>6. CASE WorkerSetErr
  BY <1>6, WorkerMoves DEF WorkerSetErr, Failed, storeVars
<1>7. QED
  BY <1>2, <1>3, <1>4, <1>5, <1>6 DEF WorkerStep

\* The reply: whoever is told that the flush succeeded has its records stored.
LEMMA CallsReply ==
    ASSUME AsyncInv, WorkerReply
    PROVE  QueuedInv' /\ CoverInv'
<1>1. /\ wpc = "reply" /\ AfterFlush(client, err) /\ UNCHANGED <<storeVars, queue, batch, err, due>>
      /\ wpc' = IF err THEN "exit" ELSE "select"
  BY DEF WorkerReply
<1>2. /\ client \in Callers /\ pc[client] = "reply" /\ (~err => batch = <<>>)
  BY <1>1 DEF AsyncInv, WorkerInv, Serving
<1>3. /\ pc \in [Callers -> CallPCs] /\ DOMAIN ret = Callers /\ Entries \cap Readers = {}
      /\ Entries \subseteq Callers /\ Readers \subseteq Callers /\ then[client] \in {"return", "sync", "query"}
      /\ err \in BOOLEAN
  BY <1>2, AsyncAssumption DEF AsyncInv, AsyncTypeOK, Callers
<1>4. ~Serving' /\ (Failed' <=> err) /\ (Failed <=> err) /\ Serving
  BY <1>1, <1>3 DEF Serving, Failed
<1>5. \A q \in Callers : q # client => pc'[q] = pc[q] /\ ret'[q] = ret[q]
  BY <1>1, <1>2, <1>3 DEF AfterFlush, Goto, Return
<1>6. /\ ret'[client] # ret[client] => pc'[client] = "idle" /\ ret'[client] \in {"ok", "err"}
      /\ pc'[client] \in {"idle", "sync", "query"} /\ (pc'[client] = "query" => ~err)
      /\ ret'[client] = "ok" /\ ret'[client] # ret[client] => ~err
  BY <1>1, <1>2, <1>3 DEF AfterFlush, Goto, Return, ErrIf
<1>7. \A e : (Accounted(e)' <=> Accounted(e)) /\ (InSeq(e, stored') <=> InSeq(e, stored))
  BY <1>1 DEF Accounted, storeVars
<1>8. ASSUME NEW e \in Entries
      PROVE  (Queued(e)' /\ ~Failed' => Accounted(e)') /\ (ret'[e] # "none" => pc'[e] = "idle")
  BY <1>2, <1>3, <1>4, <1>5, <1>6, <1>7, CallParts DEF AsyncInv, Queued
<1>9. ASSUME NEW r \in Readers
      PROVE  /\ due'[r] \subseteq Acked'
             /\ pc'[r] = "query" => \A e \in due'[r] : InSeq(e, stored')
             /\ Serving' /\ client' = r /\ ~Failed' => \A e \in due'[r] : Ahead(e)'
  <2>1. \A e \in Entries : ret[e] = "ok" => e # client
    BY <1>2, CallParts DEF AsyncInv
  <2>2. due'[r] \subseteq Acked'
    BY <1>1, <1>3, <1>5, <2>1, CallParts DEF AsyncInv, Acked
  <2>3. ASSUME pc'[r] = "query", NEW e \in due[r] PROVE InSeq(e, stored')
    <3>1. CASE r = client
      <4>1. ~err /\ Ahead(e) /\ batch = <<>>
        BY <1>2, <1>4, <1>6, <2>3, <3>1, CallParts DEF AsyncInv
      <4>2. ~InSeq(e, batch)
        BY <4>1 DEF InSeq
      <4>3. QED
        BY <1>1, <1>7, <4>1, <4>2 DEF Ahead, Draining
    <3>2. CASE r # client
      BY <1>3, <1>5, <1>7, <2>3, <3>2, CallParts DEF AsyncInv
    <3>3. QED
      BY <3>1, <3>2
  <2>4. QED
    BY <1>1, <1>4, <2>2, <2>3
<1>10. QED
  BY <1>8, <1>9, PartsAfter

\* Flush requests, readers and Close.
LEMMA CallsOthers ==
    ASSUME AsyncInv,
           \/ CloseCall \/ CloseStep
           \/ \E p \in Callers : FlushSend(p)
           \/ \E r \in Readers : QueryCall(r) \/ ReaderStep(r)
    PROVE  QueuedInv' /\ CoverInv'
<1>1. /\ pc \in [Callers -> CallPCs] /\ DOMAIN ret = Callers /\ Entries \cap Readers = {}
      /\ Entries \subseteq Callers /\ Readers \subseteq Callers
      /\ err \in BOOLEAN /\ due \in [Readers -> SUBSET Entries] /\ Len(queue) \in Nat
  BY LenProperties, AsyncAssumption DEF AsyncInv, AsyncTypeOK, Callers
<1>2. CASE CloseCall \/ CloseStep
  <2>1. UNCHANGED <<stored, queue, workerVars, callVars>>
    BY <1>2 DEF CloseCall, CloseStep, CloseLocked, CloseStore, CloseBackend, storeVars
  <2>2. QED
    BY <2>1, WorkerMoves DEF workerVars, Failed, Accounted, Serving, Ahead, Draining
<1>3. ASSUME NEW p \in Callers, FlushSend(p) PROVE QueuedInv' /\ CoverInv'
  <2>1. /\ pc[p] = "flush" /\ wpc = "select" /\ wpc' = "drain" /\ client' = p /\ remaining' = Len(queue)
        /\ UNCHANGED <<stored, queue, batch, err, due, ret>> /\ pc' = [pc EXCEPT ![p] = "reply"]
    BY <1>3 DEF FlushSend, Goto, storeVars
  <2>2. (Failed' <=> Failed) /\ Draining'
    BY <2>1 DEF Failed, Draining
  <2>3. ASSUME NEW e \in Entries
        PROVE  (Queued(e)' /\ ~Failed' => Accounted(e)') /\ (ret'[e] # "none" => pc'[e] = "idle")
    BY <1>1, <2>1, <2>2, CallParts DEF AsyncInv, Queued, Accounted
  <2>4. ASSUME NEW r \in Readers
        PROVE  /\ due'[r] \subseteq Acked'
               /\ pc'[r] = "query" => \A e \in due'[r] : InSeq(e, stored')
               /\ Serving' /\ client' = r /\ ~Failed' => \A e \in due'[r] : Ahead(e)'
    <3>1. due'[r] \subseteq Acked' /\ (pc'[r] = "query" => \A e \in due'[r] : InSeq(e, stored'))
      BY <1>1, <2>1, CallParts DEF AsyncInv, Acked
    <3>2. ASSUME ~Failed', NEW e \in due[r] PROVE Ahead(e)'
      <4>1. Accounted(e)
        BY <1>1, <2>2, <3>2, CallParts DEF AsyncInv, Acked, Queued
      <4>2. QED
        BY <1>1, <2>1, <2>2, <4>1 DEF Accounted, Ahead, InSeq
    <3>3. QED
      BY <2>1, <3>1, <3>2
  <2>5. QED
    BY <2>3, <2>4, PartsAfter
<1>4. ASSUME NEW r \in Readers, QueryCall(r) PROVE QueuedInv' /\ CoverInv'
  <2>1. /\ pc[r] = "idle" /\ pc' = [pc EXCEPT ![r] = "flush"] /\ due' = [due EXCEPT ![r] = Acked]
        /\ UNCHANGED <<stored, queue, workerVars, ret>>
    BY <1>4 DEF QueryCall, Goto, storeVars
  <2>2. (Failed' <=> Failed) /\ (Serving' <=> Serving) /\ client' = client /\ Acked' = Acked
        /\ \A e : (Accounted(e)' <=> Accounted(e)) /\ (Ahead(e)' <=> Ahead(e))
    BY <2>1 DEF Failed, Serving, Acked, Accounted, Ahead, Draining, workerVars
  <2>3. ASSUME NEW e \in Entries
        PROVE  (Queued(e)' /\ ~Failed' => Accounted(e)') /\ (ret'[e] # "none" => pc'[e] = "idle")
    BY <1>1, <2>1, <2>2, CallParts DEF AsyncInv, Queued
  <2>4. Serving => client # r
    BY <1>1, <2>1 DEF AsyncInv, WorkerInv
  <2>5. ASSUME NEW q \in Readers
        PROVE  /\ due'[q] \subseteq Acked'
               /\ pc'[q] = "query" => \A e \in due'[q] : InSeq(e, stored')
               /\ Serving' /\ client' = q /\ ~Failed' => \A e \in due'[q] : Ahead(e)'
    BY <1>1, <2>1, <2>2, <2>4, CallParts DEF AsyncInv
  <2>6. QED
    BY <2>3, <2>5, PartsAfter
<1>5. ASSUME NEW r \in Readers, FlushDone(r) PROVE QueuedInv' /\ CoverInv'
  <2>1. /\ UNCHANGED <<stored, queue, workerVars, due>> /\ wpc = "done" /\ AfterFlush(r, err)
        /\ then[r] \in {"return", "sync", "query"} /\ r \in Callers /\ r \notin Entries
    BY <1>1, <1>5 DEF FlushDone, WorkerDone, AsyncInv, AsyncTypeOK, storeVars
  <2>2. ret = [ret EXCEPT ![r] = ret[r]]
    BY <1>1, <2>1 DEF AsyncInv, AsyncTypeOK
  <2>3. PICK l \in {"idle", "sync", "query"}, x \in {ret[r], "ok", "err"} :
           pc' = [pc EXCEPT ![r] = l] /\ ret' = [ret EXCEPT ![r] = x] /\ (l = "query" => ~err)
    BY <2>1, <2>2 DEF AfterFlush, Goto, Return, ErrIf
  <2>4. ASSUME ~err, NEW e \in due[r] PROVE InSeq(e, stored)
    <3>1. queue = <<>> /\ batch = <<>>
      BY <2>1, <2>4 DEF AsyncInv, WorkerInv
    <3>2. ~InSeq(e, queue) /\ ~InSeq(e, batch)
      BY <3>1 DEF InSeq
    <3>3. Accounted(e)
      BY <1>1, <2>1, <2>4, CallParts DEF AsyncInv, Acked, Queued, Failed
    <3>4. QED
      BY <3>2, <3>3 DEF Accounted
  <2>5. QED
    BY <2>1, <2>3, <2>4, CallerMoves DEF CallPCs
<1>6. ASSUME NEW r \in Readers, QueryRead(r) PROVE QueuedInv' /\ CoverInv'
  <2>1. /\ UNCHANGED <<stored, queue, workerVars, due>> /\ pc' = [pc EXCEPT ![r] = "idle"]
        /\ \E x \in {"ok", "err"} : ret' = [ret EXCEPT ![r] = x]
        /\ r \in Callers /\ r \notin Entries
    BY <1>1, <1>6 DEF QueryRead, Return, storeVars
  <2>2. QED
    BY <2>1, CallerMoves DEF CallPCs
<1>7. QED
  BY <1>2, <1>3, <1>4, <1>5, <1>6 DEF ReaderStep

-----------------------------------------------------------------------------
(* The theorems.                                                           *)

LEMMA AsyncInitInv == AsyncInit => AsyncInv
<1> SUFFICES ASSUME AsyncInit PROVE AsyncInv
  OBVIOUS
<1>1. /\ <<>> \in Seq(Records) /\ Len(<<>>) = 0 /\ NoCaller \notin Callers /\ QueueSize \in Nat
      /\ (CHOOSE b \in Bodies : TRUE) \in Bodies
  BY AsyncAssumption
<1>2. AsyncTypeOK
  <2>1. StoreTypeOK
    BY <1>1 DEF AsyncInit, StoreInit, StoreTypeOK
  <2>2. /\ pc \in [Callers -> CallPCs] /\ then \in [Callers -> {"return", "sync", "query"}]
        /\ arg \in [Entries -> Bodies] /\ due \in [Readers -> SUBSET Entries]
        /\ ret \in [Callers -> {"none", "ok", "err", "found", "absent"}]
    BY <1>1 DEF AsyncInit, CallPCs
  <2>3. /\ queue \in Seq(Records) /\ Len(queue) <= QueueSize /\ batch \in Seq(Records)
        /\ remaining \in 0..QueueSize
    BY <1>1 DEF AsyncInit
  <2>4. /\ wpc \in WorkerPCs /\ wnext \in {"select", "drain", "reply", "exit"}
        /\ client \in Callers \cup {NoCaller} /\ err \in BOOLEAN /\ closed \in BOOLEAN
        /\ cpc \in {"idle", "lock", "wait", "closed"} /\ closeRet \in {"none", "ok", "err"}
    BY DEF AsyncInit, WorkerPCs
  <2>5. QED
    BY <2>1, <2>2, <2>3, <2>4 DEF AsyncTypeOK
<1>3. WorkerInv /\ CloseExcludesWriters
  BY DEF AsyncInit, WorkerInv, Serving, CloseExcludesWriters
<1>4. QueuedInv /\ CoverInv
  BY DEF AsyncInit, QueuedInv, Queued, CoverInv, Serving, Callers
<1>5. QED
  BY <1>2, <1>3, <1>4 DEF AsyncInit, AsyncInv

\* Close returns nil only behind a worker that stopped without an error.
LEMMA CloseResult ==
    ASSUME AsyncInv, AsyncNext
    PROVE  closeRet' = "ok" => WorkerDone' /\ ~err'
<1>1. CASE CloseStore
  BY <1>1 DEF CloseStore, ErrIf, WorkerDone, workerVars, AsyncInv, AsyncTypeOK
<1>2. CASE WorkerStep
  BY <1>2 DEF WorkerStep, WorkerReceive, WorkerClosed, WorkerTick, DrainReceive, DrainEnd, WriteBatch,
     WorkerSetErr, WorkerReply, WorkerExit, WorkerDone, AsyncInv, closeVars
<1>3. CASE CloseCall \/ CloseLocked
  BY <1>3 DEF CloseCall, CloseLocked, WorkerDone, workerVars, AsyncInv
<1>4. CASE \E p \in Callers : FlushSend(p)
  BY <1>4 DEF FlushSend, WorkerDone, AsyncInv, closeVars
<1>5. CASE \/ \E e \in Entries : AppendStep(e)
           \/ \E r \in Readers : QueryCall(r) \/ ReaderStep(r)
           \/ \E e \in Entries, b \in Bodies : AppendCall(e, b)
  <2>1. UNCHANGED <<workerVars, closeVars>>
    BY <1>5 DEF AppendStep, AppendCheckErr, AppendRLock, AppendSend, AppendBlocked, FlushDone, QueryCall,
       ReaderStep, QueryRead, AppendCall
  <2>2. QED
    BY <2>1 DEF workerVars, closeVars, AsyncInv, WorkerDone
<1>6. QED
  BY <1>1, <1>2, <1>3, <1>4, <1>5 DEF AsyncNext, WriteStep, CloseStep

LEMMA AsyncNextInv == AsyncInv /\ [AsyncNext]_asyncVars => AsyncInv'
<1> SUFFICES ASSUME AsyncInv, [AsyncNext]_asyncVars PROVE AsyncInv'
  OBVIOUS
<1>1. AsyncTypeOK /\ WorkerInv /\ CloseExcludesWriters
  BY DEF AsyncInv
<1>2. CASE AsyncNext
  <2>1. AsyncTypeOK' /\ WorkerInv' /\ CloseExcludesWriters'
    BY <1>1, <1>2, TypeCaller, TypeWorker, TypeOthers, WorkerInvCaller, WorkerInvWorker, WorkerInvOthers,
       AppendCallStep DEF AsyncNext, WriteStep, CallerStep
  <2>2. QueuedInv' /\ CoverInv'
    BY <1>2, CallsAppend, CallsWorker, CallsReply, CallsOthers DEF AsyncNext, WriteStep
  <2>3. QED
    BY <1>2, <2>1, <2>2, CloseResult DEF AsyncInv
<1>3. CASE UNCHANGED asyncVars
  <2>1. AsyncTypeOK' /\ WorkerInv' /\ CloseExcludesWriters'
    BY <1>1, <1>3 DEF AsyncTypeOK, StoreTypeOK, WorkerInv, Serving, CloseExcludesWriters, Holding,
       asyncVars, storeVars, workerVars, closeVars, callVars
  <2>2. QueuedInv' /\ CoverInv'
    BY <1>3, WorkerMoves DEF asyncVars, storeVars, workerVars, Failed, Accounted, Serving, Ahead, Draining
  <2>3. QED
    BY <1>3, <2>1, <2>2 DEF AsyncInv, WorkerDone, asyncVars, workerVars, closeVars
<1>4. QED
  BY <1>2, <1>3

\* AsyncInv holds for every number of callers and readers, every queue and batch
\* size and both durability modes: no goroutine of Append, Flush, Close or the
\* worker finds a channel, the batch or the reply in a state it does not expect.
THEOREM AsyncCorrect == AsyncSafetySpec => []AsyncInv
<1>1. AsyncInit => AsyncInv
  BY AsyncInitInv
<1>2. AsyncInv /\ [AsyncNext]_asyncVars => AsyncInv'
  BY AsyncNextInv
<1>3. QED
  BY <1>1, <1>2, PTL DEF AsyncSafetySpec

\* For all queues, batches and interleavings of appends, flushes and Close: when
\* the worker stopped without an error, or Close returned nil, the backend holds
\* every record whose append returned nil.
THEOREM AsyncNoSilentLoss == AsyncSafetySpec => []NoSilentLoss
<1>1. AsyncInv => NoSilentLoss
  <2>1. SUFFICES ASSUME AsyncInv, (WorkerDone /\ ~err) \/ closeRet = "ok", NEW e \in Acked
                 PROVE  InSeq(e, stored)
    BY DEF NoSilentLoss
  <2>2. WorkerDone /\ ~err
    BY <2>1 DEF AsyncInv
  <2>3. queue = <<>> /\ batch = <<>> /\ ~Failed
    BY <2>1, <2>2 DEF AsyncInv, WorkerInv, WorkerDone, Failed
  <2>4. ~InSeq(e, queue) /\ ~InSeq(e, batch)
    BY <2>3 DEF InSeq
  <2>5. QED
    BY <2>1, <2>3, <2>4 DEF AsyncInv, QueuedInv, Queued, Acked
<1>2. QED
  BY <1>1, AsyncCorrect, PTL

\* A Query or Stats that gets past its Flush reads a backend that holds every
\* record acknowledged before it was called, although the worker only drains
\* what the queue held when it took the request.
THEOREM AsyncFlushCovers == AsyncSafetySpec => []FlushCoversAcked
<1>1. AsyncInv => FlushCoversAcked
  BY DEF AsyncInv, CoverInv, FlushCoversAcked
<1>2. QED
  BY <1>1, AsyncCorrect, PTL

\* One sequence is the other with something appended.
LEMMA PrefixOfLonger ==
    ASSUME NEW R, NEW s \in Seq(R), NEW t \in Seq(R)
    PROVE  SeqExt!IsPrefix(s, s \o t) /\ SeqExt!IsPrefix(s, s)
<1>1. /\ s \o t \in Seq(R) /\ Len(s) \in Nat /\ Len(t) \in Nat /\ Len(s \o t) = Len(s) + Len(t)
      /\ \A i \in 1..Len(s) : (s \o t)[i] = s[i]
  BY ConcatElements
<1>2. SubSeq(s, 1, Len(s)) = SubSeq(s \o t, 1, Len(s))
  BY <1>1
<1>3. QED
  BY <1>1, <1>2 DEF SeqExt!IsPrefix

\* What the callers do to the line: an append adds to its end.
LEMMA OrderAppend ==
    ASSUME AsyncTypeOK, NEW e \in Entries, Enqueue(e), UNCHANGED <<stored, batch>>
    PROVE  SeqExt!IsPrefix(Line, Line')
<1>1. PICK rec : rec = [id |-> e, body |-> arg[e]]
  OBVIOUS
<1>2. /\ rec \in Records /\ queue' = Append(queue, rec)
      /\ stored \in Seq(Records) /\ batch \in Seq(Records) /\ queue \in Seq(Records)
  BY <1>1, RecordType DEF Enqueue, AsyncTypeOK, StoreTypeOK
<1>3. stored \o batch \in Seq(Records) /\ Line \in Seq(Records) /\ <<rec>> \in Seq(Records)
  BY <1>2, ConcatProperties DEF Line
<1>4. Line' = Append(Line, rec)
  BY <1>2, <1>3, LineEnqueue, SMTT(60) DEF Line
<1>5. Append(Line, rec) = Line \o <<rec>>
  BY <1>2, <1>3, AppendIsConcat
<1>6. QED
  BY <1>3, <1>4, <1>5, PrefixOfLonger

\* The worker moves what is in the line along.
LEMMA OrderWorker ==
    ASSUME AsyncTypeOK, WorkerStep, ~Failed'
    PROVE  Line' = Line
<1>1. stored \in Seq(Records) /\ batch \in Seq(Records) /\ queue \in Seq(Records)
  BY DEF AsyncTypeOK, StoreTypeOK
<1>2. CASE WorkerReceive \/ DrainReceive
  <2>1. queue # <<>> /\ queue' = Tail(queue) /\ batch' = Append(batch, Head(queue)) /\ stored' = stored
    BY <1>2 DEF WorkerReceive, DrainReceive, Receive, storeVars
  <2>2. QED
    BY <1>1, <2>1, LineReceive DEF Line
<1>3. CASE WriteBatch
  <2>1. CASE batch = <<>>
    BY <1>3, <2>1 DEF WriteBatch, Line, storeVars
  <2>2. CASE batch # <<>>
    <3>1. stored' = stored \o batch /\ batch' = <<>> /\ queue' = queue
      BY <1>3, <2>2 DEF WriteBatch, AppendBatchOk, Failed
    <3>2. stored' \o <<>> = stored'
      BY <1>1, <3>1, ConcatProperties, ConcatEmptySeq
    <3>3. QED
      BY <3>1, <3>2 DEF Line
  <2>3. QED
    BY <2>1, <2>2
<1>4. CASE WorkerClosed \/ WorkerTick \/ DrainEnd \/ WorkerSetErr \/ WorkerReply \/ WorkerExit
  BY <1>4 DEF WorkerClosed, WorkerTick, DrainEnd, WorkerSetErr, WorkerReply, WorkerExit, Line, storeVars
<1>5. QED
  BY <1>2, <1>3, <1>4 DEF WorkerStep

\* Until a write fails, no step drops, duplicates or reorders a record on its way
\* from the channel through the batch to the backend.
THEOREM AsyncOrder == AsyncSafetySpec => PipelineOrder
<1>1. ASSUME AsyncTypeOK, [AsyncNext]_asyncVars
      PROVE  [~Failed' => SeqExt!IsPrefix(Line, Line')]_asyncVars
  <2>1. SUFFICES ASSUME AsyncNext, ~Failed' PROVE SeqExt!IsPrefix(Line, Line')
    BY <1>1
  <2>2. Line \in Seq(Records) /\ SeqExt!IsPrefix(Line, Line)
    <3>1. Line \in Seq(Records)
      BY <1>1, ConcatProperties DEF Line, AsyncTypeOK, StoreTypeOK
    <3>2. QED
      BY <3>1, PrefixOfLonger
  <2>3. CASE WorkerStep
    BY <1>1, <2>1, <2>2, <2>3, OrderWorker
  <2>4. ASSUME NEW e \in Entries, Enqueue(e), UNCHANGED <<stored, batch>> PROVE SeqExt!IsPrefix(Line, Line')
    BY <1>1, <2>4, OrderAppend
  <2>5. CASE \E e \in Entries : AppendStep(e)
    <3>1. PICK e \in Entries : AppendStep(e)
      BY <2>5
    <3>2. UNCHANGED <<stored, batch>> /\ (Enqueue(e) \/ UNCHANGED queue)
      BY <3>1 DEF AppendStep, AppendCheckErr, AppendRLock, AppendSend, AppendBlocked, FlushDone,
         storeVars, workerVars
    <3>3. QED
      BY <2>2, <2>4, <3>2 DEF Line
  <2>6. CASE \/ CloseCall \/ CloseStep
             \/ \E p \in Callers : FlushSend(p)
             \/ \E r \in Readers : QueryCall(r) \/ ReaderStep(r)
             \/ \E e \in Entries, b \in Bodies : AppendCall(e, b)
    <3>1. UNCHANGED <<stored, batch, queue>>
      BY <2>6 DEF CloseCall, CloseStep, CloseLocked, CloseStore, CloseBackend, FlushSend, QueryCall, ReaderStep,
         FlushDone, QueryRead, AppendCall, storeVars, workerVars
    <3>2. QED
      BY <2>2, <3>1 DEF Line
  <2>7. QED
    BY <2>1, <2>3, <2>5, <2>6 DEF AsyncNext, WriteStep
<1>2. AsyncInv => AsyncTypeOK
  BY DEF AsyncInv
<1>3. QED
  BY <1>1, <1>2, AsyncCorrect, PTL DEF AsyncSafetySpec, PipelineOrder
=============================================================================
