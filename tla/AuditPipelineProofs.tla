------------------------- MODULE AuditPipelineProofs ------------------------
(***************************************************************************)
(* Machine-checked proofs about AuditPipeline, for every set of operations *)
(* and completions, every queue and batch size, and all four combinations  *)
(* of audit.async and audit.durability.                                    *)
(***************************************************************************)
EXTENDS AuditPipelineInv, AsyncStoreProofs

-----------------------------------------------------------------------------
(* Sequences of records.                                                   *)

\* A new identity keeps a sequence free of duplicates.
LEMMA DistinctAppend ==
    ASSUME NEW R, NEW s \in Seq(R), NEW r \in R, Distinct(s), ~InSeq(r.id, s)
    PROVE  Distinct(Append(s, r))
<1>1. /\ Len(Append(s, r)) = Len(s) + 1
      /\ \A i \in 1..Len(s) : Append(s, r)[i] = s[i]
      /\ Append(s, r)[Len(s) + 1] = r
      /\ Len(s) \in Nat
  BY AppendProperties, LenProperties
<1>2. QED
  BY <1>1 DEF Distinct, InSeq

\* A prefix of a sequence without duplicates has none.
LEMMA DistinctPrefix ==
    ASSUME NEW R, NEW s \in Seq(R), NEW t \in Seq(R), Distinct(s \o t)
    PROVE  Distinct(s)
<1> SUFFICES ASSUME NEW i \in 1..Len(s), NEW j \in 1..Len(s), s[i].id = s[j].id
             PROVE  i = j
  BY DEF Distinct
<1>1. /\ i \in 1..Len(s \o t) /\ (s \o t)[i] = s[i]
      /\ j \in 1..Len(s \o t) /\ (s \o t)[j] = s[j]
  BY ConcatElements
<1>2. QED
  BY <1>1 DEF Distinct

-----------------------------------------------------------------------------
(* Type correctness.                                                       *)

\* The steps of Finalize keep the types.
LEMMA TypeOperation ==
    ASSUME TypeOK, ControlInv, NEW o \in Entries,
           OperationStep(o) \/ \E c \in Bodies : FinalizeStart(o, c)
    PROVE  TypeOK'
<1> USE DEF TypeOK
<1>0. CallTypes /\ o \in Callers
  BY DEF AsyncTypeOK, CallTypes, Callers
<1>1. ASSUME UNCHANGED asyncVars PROVE AsyncTypeOK'
  BY <1>1 DEF asyncVars, AsyncTypeOK, StoreTypeOK, storeVars, workerVars, closeVars, callVars
<1>2. ASSUME NEW b \in Bodies, StoreAppend(o, b) \/ StoreLookup(o, b)
      PROVE  AsyncTypeOK'
  <2>1. CallTypes'
    BY <1>0, <1>2, GotoType DEF StoreAppend, StoreLookup, AppendCall, LookupCall, CallPCs
  <2>2. /\ then' \in [Callers -> {"return", "sync", "query"}]
        /\ arg' \in [Entries -> Bodies]
    BY <1>2 DEF StoreAppend, StoreLookup, AppendCall, LookupCall, AsyncTypeOK
  <2>3. UNCHANGED <<storeVars, queue, workerVars, closeVars, due>>
    BY <1>2 DEF StoreAppend, StoreLookup, AppendCall, LookupCall
  <2>4. QED
    BY <2>1, <2>2, <2>3 DEF AsyncTypeOK, StoreTypeOK, CallTypes, storeVars, workerVars, closeVars
<1>3. ASSUME StoreSync(o) PROVE AsyncTypeOK'
  <2>1. CallTypes'
    BY <1>0, <1>3, GotoType DEF StoreSync, SyncCall, CallPCs
  <2>2. then' \in [Callers -> {"return", "sync", "query"}]
    BY <1>3 DEF StoreSync, SyncCall, AsyncTypeOK
  <2>3. UNCHANGED <<storeVars, queue, workerVars, closeVars, arg, due>>
    BY <1>3 DEF StoreSync, SyncCall
  <2>4. QED
    BY <2>1, <2>2, <2>3 DEF AsyncTypeOK, StoreTypeOK, CallTypes, storeVars, workerVars, closeVars
<1>4. ASSUME NEW c \in Bodies, FinalizeStart(o, c) PROVE TypeOK'
  BY <1>1, <1>4 DEF FinalizeStart, Attempts
<1>5. CASE RecordPrepared(o)
  BY <1>2, <1>5 DEF RecordPrepared, ControlInv
<1>6. ASSUME AttemptOk(o) \/ AttemptFailed(o) PROVE TypeOK'
  <2>1. CASE AttemptOk(o)
    BY <1>1, <2>1 DEF AttemptOk
  <2>2. CASE AttemptFailed(o)
    <3>1. attempt' \in [Entries -> 1..Attempts]
      BY <2>2 DEF AttemptFailed, Attempts
    <3>2. fpc' \in [Entries -> {"idle", "attempt", "lookup", "append"}]
      BY <2>2 DEF AttemptFailed
    <3>3. QED
      BY <1>1, <2>2, <3>1, <3>2 DEF AttemptFailed
  <2>3. QED
    BY <1>6, <2>1, <2>2
<1>7. CASE RecordFound(o)
  BY <1>3, <1>6, <1>7 DEF RecordFound
<1>8. CASE RecordAbsent(o)
  BY <1>2, <1>8 DEF RecordAbsent, ControlInv
<1>9. CASE RecordReturned(o)
  BY <1>6, <1>9 DEF RecordReturned
<1>10. QED
  BY <1>4, <1>5, <1>7, <1>8, <1>9 DEF OperationStep

-----------------------------------------------------------------------------
(* The worker, its client and the lock.                                    *)

\* What the lemmas about the asynchronous store start from.
LEMMA AsyncParts == IInv => AsyncTypeOK /\ WorkerInv /\ CloseExcludesWriters
BY DEF IInv, TypeOK, LockInv

\* The steps of Finalize.
LEMMA WorkerInvOperation ==
    ASSUME IInv, NEW o \in Entries,
           OperationStep(o) \/ \E c \in Bodies : FinalizeStart(o, c)
    PROVE  WorkerInv' /\ LockInv'
<1>0. o \in Callers /\ (~Async => ~closed)
  BY DEF Callers, IInv, LockInv
<1>1. ASSUME UNCHANGED asyncVars PROVE WorkerInv' /\ LockInv'
  BY <1>1 DEF asyncVars, workerVars, closeVars, callVars, IInv, WorkerInv, Serving, LockInv,
              CloseExcludesWriters, Holding
<1>2. ASSUME NEW b, StoreAppend(o, b) PROVE WorkerInv' /\ LockInv'
  BY <1>0, <1>2, QuietCaller, AsyncParts DEF StoreAppend, AppendCall, Goto, CallPCs, closeVars, LockInv
<1>3. ASSUME NEW b, StoreLookup(o, b) PROVE WorkerInv' /\ LockInv'
  BY <1>0, <1>3, QuietCaller, AsyncParts DEF StoreLookup, LookupCall, Goto, CallPCs, closeVars, LockInv
<1>4. ASSUME StoreSync(o) PROVE WorkerInv' /\ LockInv'
  BY <1>0, <1>4, QuietCaller, AsyncParts DEF StoreSync, SyncCall, Goto, CallPCs, closeVars, LockInv
<1>5. ASSUME AttemptOk(o) \/ AttemptFailed(o) PROVE WorkerInv' /\ LockInv'
  BY <1>1, <1>5 DEF AttemptOk, AttemptFailed
<1>6. QED
  BY <1>1, <1>2, <1>3, <1>4, <1>5 DEF OperationStep, FinalizeStart, RecordPrepared,
     RecordFound, RecordAbsent, RecordReturned

\* Every step.
LEMMA WorkerInvStep ==
    ASSUME IInv, Next
    PROVE  WorkerInv' /\ LockInv'
<1>1. CASE Async /\ AsyncStep
  BY <1>1, AsyncParts, WorkerInvCaller, WorkerInvWorker, WorkerInvOthers
     DEF AsyncStep, WriteStep, CallerStep, LockInv
<1>2. CASE \E o \in Entries : BackendStep(o)
  <2>1. PICK o \in Entries : CallerStep(o)
    BY <1>2 DEF BackendStep, CallerStep, AppendStep, RetryStep
  <2>2. closed' = closed
    BY <2>1 DEF CallerStep, AppendStep, RetryStep, AppendCheckErr, AppendRLock, AppendSend, AppendBlocked,
       FlushDone, DirectLock, DirectAppend, LookupWait, LookupRead, SyncWait, SyncBackend, closeVars
  <2>3. QED
    BY <2>1, <2>2, AsyncParts, WorkerInvCaller DEF IInv, LockInv
<1>3. CASE CloseDirect
  BY <1>3 DEF CloseDirect, IInv, WorkerInv, Serving, LockInv, CloseExcludesWriters, Holding,
              workerVars, callVars
<1>4. CASE \E o \in Entries : OperationStep(o) \/ \E c \in Bodies : FinalizeStart(o, c)
  BY <1>4, WorkerInvOperation
<1>5. QED
  BY <1>1, <1>2, <1>3, <1>4 DEF Next

\* Every step keeps the types.
LEMMA TypeStep ==
    ASSUME IInv, Next
    PROVE  TypeOK'
<1>0. TypeOK /\ WorkerInv /\ ControlInv
  BY DEF IInv
<1>1. CASE (AsyncStep \/ \E o \in Entries : BackendStep(o)) /\ UNCHANGED opVars
  <2>1. AsyncStep => AsyncTypeOK'
    BY AsyncParts, TypeCaller, TypeWorker, TypeOthers DEF AsyncStep, WriteStep, CallerStep
  <2>2. (\E o \in Entries : BackendStep(o)) => AsyncTypeOK'
    BY AsyncParts, TypeCaller DEF BackendStep, CallerStep, AppendStep, RetryStep
  <2>3. QED
    BY <1>0, <1>1, <2>1, <2>2 DEF TypeOK, opVars
<1>2. CASE CloseDirect
  BY <1>0, <1>2 DEF CloseDirect, CloseBackend, ErrIf, TypeOK, AsyncTypeOK, StoreTypeOK,
     opVars, workerVars, callVars
<1>3. CASE \E o \in Entries : OperationStep(o) \/ \E c \in Bodies : FinalizeStart(o, c)
  BY <1>0, <1>3, TypeOperation
<1>4. QED
  BY <1>1, <1>2, <1>3 DEF Next

-----------------------------------------------------------------------------
(* Where Finalize is, against where its store call is.                     *)

\* What ControlInv says of one operation.
OwnControl(o) ==
    /\ want[o] = prepared[o]
    /\ fpc[o] # "idle" => prepared[o] \in Bodies
    /\ fpc[o] \in {"lookup", "append"} => arg[o] = prepared[o]
    /\ fpc[o] \in {"idle", "attempt"} => pc[o] = "idle"
    /\ fpc[o] = "lookup" => pc[o] \in {"idle", "lwait", "lread"}
    /\ pc[o] \in {"flush", "reply"} => then[o] \in {"return", "sync"}
    /\ pc[o] \in AppendPCs \ {"direct"} => then[o] = "return"
    /\ pc[o] \in {"waitdone", "direct"} => err \/ ~Async
    /\ pc[o] \in {"lwait", "lread"} => fpc[o] = "lookup"

ReaderControl ==
    \A r \in Readers :
       /\ pc[r] \in {"idle", "flush", "reply", "query"}
       /\ pc[r] \in {"flush", "reply"} => then[r] = "query"

\* The control invariant splits into the readers and one part per operation.
LEMMA ControlParts == ControlInv <=> ReaderControl /\ \A o \in Entries : OwnControl(o)
BY DEF ControlInv, ReaderControl, OwnControl

\* One caller moved: it is enough to look at it.
LEMMA MovedCaller ==
    ASSUME IInv, UNCHANGED <<then, arg, opVars>>, err => err',
           NEW p \in Callers, NEW l \in CallPCs, pc' = [pc EXCEPT ![p] = l],
           p \in Entries => OwnControl(p)',
           p \in Readers => l \in {"idle", "flush", "reply", "query"}
                            /\ (l \in {"flush", "reply"} => then[p] = "query")
    PROVE  ControlInv'
<1>0. /\ pc \in [Callers -> CallPCs] /\ Readers \subseteq Callers /\ Entries \subseteq Callers
      /\ ReaderControl /\ \A o \in Entries : OwnControl(o)
  BY ControlParts DEF IInv, TypeOK, AsyncTypeOK, Callers
<1>1. ReaderControl'
  BY <1>0 DEF ReaderControl
<1>2. ASSUME NEW o \in Entries, o # p PROVE OwnControl(o)'
  BY <1>0, <1>2 DEF OwnControl, opVars
<1>3. QED
  BY <1>1, <1>2 DEF ControlInv, ReaderControl, OwnControl

\* The steps of a caller inside the store.
LEMMA ControlCaller ==
    ASSUME IInv, UNCHANGED opVars, NEW e \in Entries, CallerStep(e)
    PROVE  ControlInv'
<1>0. /\ e \in Callers /\ e \notin Readers /\ pc \in [Callers -> CallPCs] /\ OwnControl(e)
      /\ then[e] \in {"return", "sync", "query"}
      /\ (err => wpc \in {"reply", "exit", "done"})
      /\ (wpc \in {"exit", "done"} /\ ~err => closed)
  BY ControlParts, AsyncAssumption DEF IInv, TypeOK, AsyncTypeOK, Callers, WorkerInv
<1> DEFINE Moved(l) == pc' = [pc EXCEPT ![e] = l]
<1>1. ASSUME NEW l \in CallPCs, Moved(l), UNCHANGED <<then, arg, workerVars>>,
             l \in {"flush", "reply"} => then[e] \in {"return", "sync"},
             l \in AppendPCs \ {"direct"} => then[e] = "return",
             l \in {"waitdone", "direct"} => err \/ ~Async,
             l \in {"lwait", "lread"} => pc[e] \in {"lwait", "lread"},
             pc[e] # "idle",
             pc[e] \in {"lwait", "lread"} => l \in {"idle", "lread"}
      PROVE  ControlInv'
  <2>1. OwnControl(e)'
    BY <1>0, <1>1 DEF OwnControl, opVars, workerVars
  <2>2. QED
    BY <1>0, <1>1, <2>1, MovedCaller DEF workerVars
<1>2. CASE AppendCheckErr(e)
  BY <1>0, <1>1, <1>2 DEF AppendCheckErr, OwnControl, AppendPCs, CallPCs, Goto, Return, WorkerDone
<1>3. CASE AppendRLock(e)
  BY <1>0, <1>1, <1>3 DEF AppendRLock, OwnControl, AppendPCs, CallPCs, Goto, Return, WorkerDone
<1>4. CASE AppendSend(e)
  BY <1>0, <1>1, <1>4 DEF AppendSend, Enqueue, OwnControl, AppendPCs, CallPCs, Goto, Return, WorkerDone
<1>5. CASE AppendBlocked(e)
  BY <1>0, <1>1, <1>5 DEF AppendBlocked, Enqueue, OwnControl, AppendPCs, CallPCs, Goto, Return, WorkerDone
<1>6. CASE FlushDone(e)
  BY <1>0, <1>1, <1>6 DEF FlushDone, AfterFlush, OwnControl, AppendPCs, CallPCs, Goto, Return, WorkerDone
<1>7. CASE DirectLock(e)
  BY <1>0, <1>1, <1>7 DEF DirectLock, OwnControl, AppendPCs, CallPCs, Goto, Return, WorkerDone
<1>8. CASE DirectAppend(e)
  BY <1>0, <1>1, <1>8 DEF DirectAppend, OwnControl, AppendPCs, CallPCs, Goto, Return, WorkerDone
<1>9. CASE LookupWait(e)
  BY <1>0, <1>1, <1>9 DEF LookupWait, OwnControl, AppendPCs, CallPCs, Goto, Return, WorkerDone
<1>10. CASE LookupRead(e)
  BY <1>0, <1>1, <1>10 DEF LookupRead, OwnControl, AppendPCs, CallPCs, Goto, Return, WorkerDone
<1>11. CASE SyncWait(e)
  BY <1>0, <1>1, <1>11 DEF SyncWait, OwnControl, AppendPCs, CallPCs, Goto, Return, WorkerDone
<1>12. CASE SyncBackend(e)
  BY <1>0, <1>1, <1>12 DEF SyncBackend, OwnControl, AppendPCs, CallPCs, Goto, Return, WorkerDone
<1>13. QED
  BY <1>2, <1>3, <1>4, <1>5, <1>6, <1>7, <1>8, <1>9, <1>10, <1>11, <1>12 DEF CallerStep, AppendStep, RetryStep

\* The steps of the worker, of Close, of flush requests and of readers.
LEMMA ControlOthers ==
    ASSUME IInv, UNCHANGED opVars,
           \/ WorkerStep \/ CloseCall \/ CloseStep
           \/ \E p \in Callers : FlushSend(p)
           \/ \E r \in Readers : QueryCall(r) \/ ReaderStep(r)
    PROVE  ControlInv'
<1>0. /\ pc \in [Callers -> CallPCs] /\ then \in [Callers -> {"return", "sync", "query"}]
      /\ Readers \subseteq Callers /\ Entries \subseteq Callers /\ Readers \cap Entries = {}
      /\ ReaderControl /\ \A o \in Entries : OwnControl(o)
  BY ControlParts, AsyncAssumption DEF IInv, TypeOK, AsyncTypeOK, Callers
<1>1. ASSUME UNCHANGED callVars, err => err' PROVE ControlInv'
  BY <1>0, <1>1 DEF ControlInv, ReaderControl, OwnControl, callVars, opVars
<1>2. CASE WorkerStep /\ ~WorkerReply
  BY <1>1, <1>2 DEF WorkerStep, WorkerReceive, WorkerClosed, WorkerTick, DrainReceive, DrainEnd,
     WriteBatch, WorkerSetErr, WorkerExit
<1>3. CASE WorkerReply
  <2>1. PICK p \in Callers : p = client /\ pc[p] = "reply"
    BY <1>3 DEF WorkerReply, IInv, WorkerInv, Serving
  <2>2. CASE p \in Entries
    <3>1. then[p] \in {"return", "sync"} /\ fpc[p] \notin {"idle", "attempt", "lookup"}
      BY <1>0, <2>1, <2>2 DEF OwnControl
    <3>2. PICK l \in {"idle", "sync"} : pc' = [pc EXCEPT ![p] = l]
      BY <1>3, <2>1, <3>1 DEF WorkerReply, AfterFlush, Goto, Return
    <3>3. OwnControl(p)'
      BY <1>0, <1>3, <2>1, <2>2, <3>1, <3>2 DEF WorkerReply, OwnControl, AppendPCs, opVars
    <3>4. QED
      BY <1>0, <1>3, <2>1, <2>2, <3>2, <3>3, MovedCaller DEF WorkerReply, CallPCs
  <2>3. CASE p \in Readers
    <3>1. then[p] = "query"
      BY <1>0, <2>1, <2>3 DEF ReaderControl
    <3>2. PICK l \in {"idle", "query"} : pc' = [pc EXCEPT ![p] = l]
      BY <1>3, <2>1, <3>1 DEF WorkerReply, AfterFlush, Goto, Return
    <3>3. QED
      BY <1>0, <1>3, <2>1, <2>3, <3>1, <3>2, MovedCaller DEF WorkerReply, CallPCs
  <2>4. QED
    BY <2>1, <2>2, <2>3 DEF Callers
<1>4. CASE CloseCall \/ CloseStep
  BY <1>1, <1>4 DEF CloseCall, CloseStep, CloseLocked, CloseStore, workerVars
<1>5. ASSUME NEW p \in Callers, FlushSend(p) PROVE ControlInv'
  <2>1. p \in Entries => OwnControl(p)'
    BY <1>0, <1>5 DEF FlushSend, Goto, OwnControl, AppendPCs, opVars
  <2>2. p \in Readers => then[p] = "query"
    BY <1>0, <1>5 DEF FlushSend, ReaderControl
  <2>3. QED
    BY <1>0, <1>5, <2>1, <2>2, MovedCaller DEF FlushSend, Goto, CallPCs
<1>6. ASSUME NEW r \in Readers, QueryCall(r) PROVE ControlInv'
  BY <1>0, <1>6 DEF QueryCall, Goto, ControlInv, ReaderControl, OwnControl, opVars, workerVars
<1>7. ASSUME NEW r \in Readers, ReaderStep(r) PROVE ControlInv'
  <2>1. pc[r] = "flush" => then[r] = "query"
    BY <1>0 DEF ReaderControl
  <2>2. PICK l \in {"idle", "query"} : pc' = [pc EXCEPT ![r] = l]
    BY <1>7, <2>1 DEF ReaderStep, FlushDone, QueryRead, AfterFlush, Goto, Return
  <2>3. UNCHANGED <<then, arg, workerVars>>
    BY <1>7 DEF ReaderStep, FlushDone, QueryRead
  <2>4. QED
    BY <1>0, <2>2, <2>3, MovedCaller DEF CallPCs, workerVars
<1>8. QED
  BY <1>2, <1>3, <1>4, <1>5, <1>6, <1>7

\* The steps of Finalize.
LEMMA ControlOperation ==
    ASSUME IInv, NEW o \in Entries,
           OperationStep(o) \/ \E c \in Bodies : FinalizeStart(o, c)
    PROVE  ControlInv'
<1>0. /\ pc \in [Callers -> CallPCs] /\ then \in [Callers -> {"return", "sync", "query"}]
      /\ arg \in [Entries -> Bodies] /\ prepared \in [Entries -> Bodies \cup {NoBody}]
      /\ want \in [Entries -> Bodies \cup {NoBody}]
      /\ fpc \in [Entries -> {"idle", "attempt", "lookup", "append"}]
      /\ o \in Callers /\ Entries \subseteq Callers /\ Readers \subseteq Callers /\ o \notin Readers
      /\ ReaderControl /\ \A x \in Entries : OwnControl(x)
  BY ControlParts, AsyncAssumption DEF IInv, TypeOK, AsyncTypeOK, Callers
<1>1. ASSUME OwnControl(o)', ReaderControl', \A x \in Entries \ {o} : OwnControl(x)'
      PROVE  ControlInv'
  BY <1>1 DEF ControlInv, ReaderControl, OwnControl
<1>2. ASSUME NEW c \in Bodies, FinalizeStart(o, c) PROVE ControlInv'
  BY <1>0, <1>1, <1>2, PipelineAssumption
     DEF FinalizeStart, asyncVars, workerVars, callVars, OwnControl, ReaderControl
<1>3. ASSUME AttemptOk(o) \/ AttemptFailed(o), pc[o] = "idle", fpc[o] # "idle"
      PROVE  ControlInv'
  <2>1. /\ \E l \in {"idle", "attempt"} : fpc' = [fpc EXCEPT ![o] = l]
        /\ UNCHANGED <<asyncVars, prepared, want>>
    BY <1>3 DEF AttemptOk, AttemptFailed
  <2>2. QED
    BY <1>0, <1>1, <1>3, <2>1 DEF asyncVars, workerVars, callVars, OwnControl, ReaderControl,
       AppendPCs
<1>4. ASSUME NEW l \in {"lookup", "append"}, fpc' = [fpc EXCEPT ![o] = l], pc[o] = "idle",
             fpc[o] # "idle", UNCHANGED <<prepared, want>>, err' = err,
             NEW m \in CallPCs, pc' = [pc EXCEPT ![o] = m],
             NEW t \in {"return", "sync", "query"}, then' = [then EXCEPT ![o] = t],
             arg' = [arg EXCEPT ![o] = prepared[o]],
             l = "lookup" <=> m \in {"lwait", "lread"},
             m \in {"flush", "reply"} => t \in {"return", "sync"},
             m \in AppendPCs \ {"direct"} => t = "return",
             m \in {"waitdone", "direct"} => err \/ ~Async
      PROVE  ControlInv'
  BY <1>0, <1>1, <1>4 DEF OwnControl, ReaderControl
<1>5. then = [then EXCEPT ![o] = then[o]] /\ then[o] \in {"return", "sync", "query"}
  BY <1>0
<1>6. CASE RecordPrepared(o)
  <2>1. pc[o] = "idle" /\ fpc[o] # "idle" /\ UNCHANGED <<prepared, want>>
    BY <1>0, <1>6 DEF RecordPrepared, OwnControl
  <2>2. CASE attempted[o]
    BY <1>4, <1>5, <1>6, <2>1, <2>2 DEF RecordPrepared, StoreLookup, LookupCall, Goto, CallPCs,
       AppendPCs, workerVars
  <2>3. CASE ~attempted[o]
    BY <1>4, <1>5, <1>6, <2>1, <2>3 DEF RecordPrepared, StoreAppend, AppendCall, Goto, CallPCs,
       AppendPCs, workerVars
  <2>4. QED
    BY <2>2, <2>3
<1>7. CASE RecordAbsent(o)
  BY <1>4, <1>5, <1>7 DEF RecordAbsent, StoreAppend, AppendCall, Goto, CallPCs,
     AppendPCs, workerVars
<1>8. CASE RecordFound(o)
  <2>1. CASE Durable
    <3>1. arg = [arg EXCEPT ![o] = prepared[o]]
      BY <1>0, <1>8 DEF RecordFound, OwnControl
    <3>2. QED
      BY <1>4, <1>5, <1>8, <2>1, <3>1 DEF RecordFound, StoreSync, SyncCall, Goto, CallPCs,
         AppendPCs, workerVars
  <2>2. CASE ~Durable
    BY <1>3, <1>8, <2>2 DEF RecordFound
  <2>3. QED
    BY <2>1, <2>2
<1>9. CASE RecordReturned(o)
  BY <1>3, <1>9 DEF RecordReturned
<1>10. QED
  BY <1>2, <1>6, <1>7, <1>8, <1>9 DEF OperationStep

\* Every step.
LEMMA ControlStep ==
    ASSUME IInv, Next
    PROVE  ControlInv'
<1>1. CASE Async /\ AsyncStep /\ UNCHANGED opVars
  BY <1>1, ControlCaller, ControlOthers DEF AsyncStep, WriteStep, CallerStep
<1>2. CASE (\E o \in Entries : BackendStep(o)) /\ UNCHANGED opVars
  BY <1>2, ControlCaller DEF BackendStep, CallerStep, AppendStep, RetryStep
<1>3. CASE CloseDirect
  BY <1>3 DEF CloseDirect, IInv, ControlInv, workerVars, callVars, opVars
<1>4. CASE \E o \in Entries : OperationStep(o) \/ \E c \in Bodies : FinalizeStart(o, c)
  BY <1>4, ControlOperation
<1>5. QED
  BY <1>1, <1>2, <1>3, <1>4 DEF Next

-----------------------------------------------------------------------------
(* Operations that do not move.                                            *)

OnDisk(o) == \E i \in 1..synced : stored[i].id = o
\* The flush being served covers the record of o.
Reached(o) == \E i \in 1..Covered : Line[i].id = o

\* What OwnerInv, FlushInv and AckInv say of one operation.
Owned(o) ==
    /\ ~Dead /\ InSeq(o, Line) => finalized[o] \/ Told(o) \/ Awaiting(o)
    /\ Appending(o) => ~InSeq(o, stored)
    /\ Confirming(o) => InSeq(o, stored)
    /\ finalized[o] => fpc[o] = "idle" /\ attempted[o]
    /\ Durable /\ ~Dead /\ Awaiting(o) =>
          InSeq(o, Line) /\ (pc[o] = "reply" => Reached(o))
    /\ finalized[o] \/ Told(o) =>
          (Durable => OnDisk(o)) /\ (~Async => InSeq(o, stored))

\* The records and ownership invariants are one statement per operation.
LEMMA OwnedParts ==
    OwnerInv /\ FlushInv /\ AckInv <=> \A o \in Entries : Owned(o)
BY DEF OwnerInv, FlushInv, AckInv, Owned, OnDisk, Reached

\* The operation o and its store call stay where they are.
Kept(o) ==
    /\ pc'[o] = pc[o] /\ then'[o] = then[o] /\ ret'[o] = ret[o]
    /\ fpc'[o] = fpc[o] /\ attempted'[o] = attempted[o] /\ finalized'[o] = finalized[o]

\* The backend loses nothing.
StoreGrows ==
    /\ Len(stored) <= Len(stored') /\ \A i \in 1..Len(stored) : stored'[i] = stored[i]
    /\ synced <= synced'

\* What is stored or on disk stays so when the backend only grows.
LEMMA GrowsKeeps ==
    ASSUME TypeOK, TypeOK', StoreGrows, NEW o
    PROVE  /\ InSeq(o, stored) => InSeq(o, stored')
           /\ OnDisk(o) => OnDisk(o)'
<1>1. /\ Len(stored) \in Nat /\ Len(stored') \in Nat
      /\ synced \in 0..Len(stored) /\ synced' \in 0..Len(stored')
  BY LenProperties DEF TypeOK, AsyncTypeOK, StoreTypeOK
<1>2. \A i \in 1..Len(stored) : i \in 1..Len(stored') /\ stored'[i] = stored[i]
  BY <1>1 DEF StoreGrows
<1>3. \A i \in 1..synced : i \in 1..Len(stored) /\ i \in 1..synced'
  BY <1>1 DEF StoreGrows
<1>4. QED
  BY <1>2, <1>3, Zenon DEF InSeq, OnDisk

\* An operation that stays where it is keeps its invariant, if its record is
\* neither dropped from the line nor slipped into it.
LEMMA OthersOwned ==
    ASSUME IInv, TypeOK', NEW o \in Entries, Kept(o), StoreGrows, Dead => Dead',
           ~Dead' => (InSeq(o, Line') <=> InSeq(o, Line)),
           InSeq(o, stored') => InSeq(o, stored) \/ (~Dead /\ InSeq(o, Line)),
           Durable /\ ~Dead' /\ pc[o] = "reply" /\ Reached(o) => Reached(o)'
    PROVE  Owned(o)'
<1>1. TypeOK /\ Owned(o)
  BY OwnedParts DEF IInv
<1>2. (InSeq(o, stored) => InSeq(o, stored')) /\ (OnDisk(o) => OnDisk(o)')
  BY <1>1, GrowsKeeps
<1>3. /\ Told(o)' <=> Told(o)
      /\ Awaiting(o)' <=> Awaiting(o)
      /\ Appending(o)' <=> Appending(o)
      /\ Confirming(o)' <=> Confirming(o)
  BY DEF Kept, Told, Awaiting, Appending, Confirming
<1>4. Appending(o) => ~finalized[o] /\ ~Told(o) /\ ~Awaiting(o)
  BY <1>1 DEF Owned, Appending, AppendPCs, Told, Awaiting
<1>5. QED
  BY <1>1, <1>2, <1>3, <1>4 DEF Owned, Kept

\* A step that leaves the records and the worker alone: only the operation
\* that moves has to be looked at.
LEMMA QuietOwned ==
    ASSUME IInv, TypeOK', UNCHANGED <<stored, synced, batch, queue, workerVars>>,
           NEW o \in Entries, Kept(o)
    PROVE  Owned(o)'
<1>1. Dead' = Dead /\ Line' = Line /\ Covered' = Covered
  BY DEF Dead, Failed, Line, Covered, workerVars
<1>2. StoreGrows
  BY LenProperties DEF StoreGrows, IInv, TypeOK, AsyncTypeOK, StoreTypeOK
<1>3. Reached(o)' <=> Reached(o)
  BY <1>1 DEF Reached
<1>4. QED
  BY <1>1, <1>2, <1>3, OthersOwned

-----------------------------------------------------------------------------
(* Steps of a caller that leave the records alone.                         *)

\* Where an operation is when its store call is running.
LEMMA InCall ==
    ASSUME IInv, NEW e \in Entries, pc[e] # "idle"
    PROVE  /\ e \in Callers /\ pc[e] \in CallPCs /\ Owned(e) /\ OwnControl(e)
           /\ ~finalized[e] /\ ~Told(e)
           /\ fpc[e] = "append" \/ (fpc[e] = "lookup" /\ pc[e] \in {"lwait", "lread"})
           /\ pc[e] \in {"lwait", "lread"} => fpc[e] = "lookup"
<1>1. /\ e \in Callers /\ pc[e] \in CallPCs /\ Owned(e) /\ OwnControl(e)
      /\ fpc[e] \in {"idle", "attempt", "lookup", "append"}
  BY OwnedParts, ControlParts DEF IInv, TypeOK, AsyncTypeOK, Callers
<1>2. QED
  BY <1>1 DEF Owned, OwnControl, Told

\* A healthy line holds nothing of an operation that waits for no answer.
LEMMA NotInLine ==
    ASSUME IInv, NEW e \in Entries, pc[e] # "idle", ~Awaiting(e)
    PROVE  Dead \/ ~InSeq(e, Line)
BY InCall DEF Owned

\* The line and the backend look the same when none of their variables changes.
LEMMA QuietSame ==
    ASSUME UNCHANGED <<stored, synced, batch, queue, workerVars>>, NEW o
    PROVE  /\ Dead' = Dead /\ Line' = Line /\ Covered' = Covered
           /\ InSeq(o, Line') <=> InSeq(o, Line)
           /\ InSeq(o, stored') <=> InSeq(o, stored)
           /\ OnDisk(o)' <=> OnDisk(o)
           /\ Reached(o)' <=> Reached(o)
<1>1. Dead' = Dead /\ Line' = Line /\ Covered' = Covered
  BY DEF Dead, Failed, Line, Covered, workerVars
<1>2. QED
  BY <1>1 DEF OnDisk, Reached

\* A call that returns an error owes nothing.
LEMMA ErrOwned ==
    ASSUME IInv, NEW e \in Entries, pc[e] # "idle",
           UNCHANGED <<stored, synced, batch, queue, workerVars, then, opVars>>,
           pc'[e] = "idle", ret'[e] = "err",
           Dead \/ ~InSeq(e, Line)
    PROVE  Owned(e)'
<1>1. /\ Dead' = Dead /\ (InSeq(e, Line') <=> InSeq(e, Line))
  BY QuietSame
<1>2. /\ ~finalized'[e] /\ fpc'[e] \in {"append", "lookup"}
  BY InCall DEF opVars
<1>3. ~Told(e)' /\ ~Awaiting(e)' /\ ~Appending(e)' /\ ~Confirming(e)'
  BY <1>2 DEF Told, Awaiting, Appending, Confirming, AppendPCs
<1>4. QED
  BY <1>1, <1>2, <1>3 DEF Owned

\* A call that moves on inside an append, a confirmation or a lookup.
LEMMA MoveOwned ==
    ASSUME IInv, NEW e \in Entries,
           UNCHANGED <<stored, synced, batch, queue, workerVars, then, opVars>>,
           \/ pc[e] \in AppendPCs /\ pc'[e] \in AppendPCs
           \/ pc[e] \in {"lwait", "lread"} /\ pc'[e] \in {"lwait", "lread"}
           \/ pc[e] = "swait" /\ pc'[e] = "sync"
           \/ pc[e] = "flush" /\ then[e] # "return" /\ pc'[e] = "sync"
    PROVE  Owned(e)'
<1>0. pc[e] # "idle"
  BY DEF AppendPCs
<1>1. /\ Dead' = Dead /\ (InSeq(e, Line') <=> InSeq(e, Line))
      /\ InSeq(e, stored') <=> InSeq(e, stored)
  BY QuietSame
<1>2. /\ ~finalized'[e] /\ fpc'[e] = fpc[e] /\ then'[e] = then[e] /\ Owned(e) /\ OwnControl(e)
      /\ fpc[e] = "append" \/ (fpc[e] = "lookup" /\ pc[e] \in {"lwait", "lread"})
      /\ pc[e] \in {"lwait", "lread"} => fpc[e] = "lookup"
  BY <1>0, InCall DEF opVars
<1>3. ~Awaiting(e) /\ ~Told(e)' /\ ~Awaiting(e)'
  BY <1>2 DEF Told, Awaiting, AppendPCs
<1>4. Dead \/ ~InSeq(e, Line)
  BY <1>0, <1>3, NotInLine
<1>5. Appending(e)' => Appending(e)
  BY <1>2 DEF Appending, AppendPCs
<1>6. Confirming(e)' => Confirming(e)
  <2>1. then[e] # "return" /\ pc[e] = "flush" => then[e] = "sync"
    BY <1>2 DEF OwnControl
  <2>2. QED
    BY <1>2, <2>1 DEF Confirming, AppendPCs
<1>7. QED
  BY <1>1, <1>2, <1>3, <1>4, <1>5, <1>6 DEF Owned

\* The answers of a lookup.
LEMMA LookupOwned ==
    ASSUME IInv, NEW e \in Entries, LookupRead(e), UNCHANGED opVars
    PROVE  Owned(e)'
<1>1. UNCHANGED <<stored, synced, batch, queue, workerVars, then, opVars>>
  BY DEF LookupRead, storeVars, workerVars
<1>2. pc[e] = "lread" /\ pc[e] # "idle"
  BY DEF LookupRead
<1>3. /\ fpc[e] = "lookup" /\ ~finalized[e] /\ fpc'[e] = "lookup" /\ ~finalized'[e]
      /\ pc \in [Callers -> CallPCs] /\ e \in Callers
      /\ ret \in [Callers -> {"none", "ok", "err", "found", "absent"}]
  BY <1>2, InCall DEF opVars, IInv, TypeOK, AsyncTypeOK
<1>4. ~Awaiting(e) /\ ~Awaiting(e)' /\ ~Told(e)'
  BY <1>3 DEF Awaiting, Told
<1>5. /\ Dead \/ ~InSeq(e, Line)
      /\ Dead' = Dead /\ (InSeq(e, Line') <=> InSeq(e, Line))
      /\ InSeq(e, stored') <=> InSeq(e, stored)
  BY <1>1, <1>2, <1>4, NotInLine, QuietSame
<1>6. pc'[e] = "idle"
  BY <1>3 DEF LookupRead, Return
<1>7. ret'[e] = "absent" => ~InSeq(e, stored)
  BY <1>3 DEF LookupRead, Return, LookupAbsent
<1>8. ret'[e] = "found" => InSeq(e, stored)
  BY <1>3 DEF LookupRead, Return, LookupFound, InSeq
<1>9. (Appending(e)' => ret'[e] = "absent") /\ (Confirming(e)' => ret'[e] = "found")
  BY <1>3, <1>6 DEF Appending, Confirming
<1>10. QED
  BY <1>3, <1>4, <1>5, <1>7, <1>8, <1>9 DEF Owned

\* What an acknowledged operation owes.
LEMMA ToldOwned ==
    ASSUME NEW e, fpc'[e] = "append", pc'[e] = "idle", ret'[e] = "ok", ~finalized'[e],
           Durable => OnDisk(e)', ~Async => InSeq(e, stored')
    PROVE  Owned(e)'
<1>1. Told(e)' /\ ~Awaiting(e)' /\ ~Appending(e)' /\ ~Confirming(e)'
  BY DEF Told, Awaiting, Appending, Confirming, AppendPCs
<1>2. QED
  BY <1>1 DEF Owned

\* Flush that met a stopped worker.
LEMMA FlushDoneOwned ==
    ASSUME IInv, Async, NEW e \in Entries, FlushDone(e), UNCHANGED opVars
    PROVE  Owned(e)'
<1>1. UNCHANGED <<stored, synced, batch, queue, workerVars, then, opVars>>
  BY DEF FlushDone, storeVars, workerVars
<1>2. pc[e] = "flush" /\ pc[e] # "idle" /\ wpc = "done"
  BY DEF FlushDone, WorkerDone
<1>3. /\ fpc[e] = "append" /\ fpc'[e] = "append" /\ ~finalized'[e] /\ Owned(e) /\ e \in Callers
      /\ pc \in [Callers -> CallPCs] /\ then[e] \in {"return", "sync"}
      /\ ret \in [Callers -> {"none", "ok", "err", "found", "absent"}]
  BY <1>2, InCall DEF opVars, IInv, TypeOK, AsyncTypeOK, OwnControl
<1>4. CASE err
  <2>1. pc'[e] = "idle" /\ ret'[e] = "err" /\ Dead
    BY <1>3, <1>4 DEF FlushDone, AfterFlush, Return, ErrIf, Dead, Failed
  <2>2. QED
    BY <1>1, <1>2, <2>1, ErrOwned
<1>5. CASE ~err /\ then[e] = "sync"
  <2>1. pc'[e] = "sync"
    BY <1>3, <1>5 DEF FlushDone, AfterFlush, Goto
  <2>2. QED
    BY <1>1, <1>2, <1>5, <2>1, MoveOwned
<1>6. CASE ~err /\ then[e] = "return"
  <2>1. pc'[e] = "idle" /\ ret'[e] = "ok"
    BY <1>3, <1>6 DEF FlushDone, AfterFlush, Return, ErrIf
  <2>2. ~Dead /\ Awaiting(e)
    BY <1>2, <1>3, <1>6 DEF Dead, Failed, Awaiting
  <2>3. Line = stored
    <3>1. queue = <<>> /\ batch = <<>> /\ stored \in Seq(Records)
      BY <1>2, <1>6 DEF IInv, WorkerInv, TypeOK, AsyncTypeOK, StoreTypeOK
    <3>2. QED
      BY <3>1, ConcatEmptySeq DEF Line
  <2>4. Durable => OnDisk(e)'
    <3>1. Durable => InSeq(e, stored) /\ synced = Len(stored)
      BY <1>3, <2>2, <2>3 DEF Owned, IInv, RecordInv
    <3>2. QED
      BY <1>1, <3>1 DEF InSeq, OnDisk
  <2>5. QED
    BY <1>3, <2>1, <2>4, ToldOwned
<1>7. QED
  BY <1>3, <1>4, <1>5, <1>6

\* The backend's answer to Sync.
LEMMA SyncOwned ==
    ASSUME IInv, NEW e \in Entries, SyncBackend(e), UNCHANGED opVars
    PROVE  Owned(e)'
<1>2. pc[e] = "sync" /\ pc[e] # "idle"
  BY DEF SyncBackend
<1>3. /\ fpc[e] = "append" /\ fpc'[e] = "append" /\ ~finalized'[e] /\ Owned(e) /\ e \in Callers
      /\ pc \in [Callers -> CallPCs]
      /\ ret \in [Callers -> {"none", "ok", "err", "found", "absent"}]
  BY <1>2, InCall DEF opVars, IInv, TypeOK, AsyncTypeOK
<1>4. CASE SyncOk /\ Return(e, "ok")
  <2>1. InSeq(e, stored)
    BY <1>2, <1>3 DEF Owned, Confirming
  <2>2. OnDisk(e)' /\ InSeq(e, stored')
    BY <1>4, <2>1 DEF SyncOk, OnDisk, InSeq
  <2>3. pc'[e] = "idle" /\ ret'[e] = "ok"
    BY <1>3, <1>4 DEF Return
  <2>4. QED
    BY <1>3, <2>2, <2>3, ToldOwned
<1>5. CASE UNCHANGED storeVars /\ Return(e, "err")
  <2>1. pc'[e] = "idle" /\ ret'[e] = "err"
    BY <1>3, <1>5 DEF Return
  <2>2. UNCHANGED <<stored, synced, batch, queue, workerVars, then, opVars>>
    BY <1>5 DEF SyncBackend, storeVars, workerVars
  <2>3. Dead \/ ~InSeq(e, Line)
    BY <1>2, NotInLine DEF Awaiting
  <2>4. QED
    BY <1>2, <2>1, <2>2, <2>3, ErrOwned
<1>6. QED
  BY <1>4, <1>5 DEF SyncBackend

-----------------------------------------------------------------------------
(* Steps of a caller that add a record.                                    *)

\* A record that joins a sequence of records.
LEMMA OneMore ==
    ASSUME NEW s \in Seq(Records), NEW r \in Records, NEW o
    PROVE  /\ Append(s, r) \in Seq(Records) /\ Len(s) \in Nat
           /\ Len(Append(s, r)) = Len(s) + 1
           /\ \A i \in 1..Len(s) : Append(s, r)[i] = s[i]
           /\ Append(s, r)[Len(s) + 1] = r
           /\ InSeq(o, Append(s, r)) <=> InSeq(o, s) \/ o = r.id
<1>1. /\ Append(s, r) \in Seq(Records) /\ Len(s) \in Nat
      /\ Len(Append(s, r)) = Len(s) + 1
      /\ \A i \in 1..Len(s) : Append(s, r)[i] = s[i]
      /\ Append(s, r)[Len(s) + 1] = r
  BY AppendProperties, LenProperties
<1>2. QED
  BY <1>1 DEF InSeq

\* The channel accepts the record of e.
LEMMA EnqueueOwned ==
    ASSUME IInv, Async, TypeOK', NEW e \in Entries, pc[e] \in {"send", "blocked"}, Enqueue(e),
           UNCHANGED <<storeVars, workerVars, closeVars, then, arg, due, opVars>>
    PROVE  RecordInv' /\ \A o \in Entries : Owned(o)'
<1>0. TypeOK /\ pc[e] # "idle"
  BY DEF IInv
<1>1. /\ fpc[e] = "append" /\ fpc'[e] = "append" /\ ~finalized'[e] /\ e \in Callers
      /\ then[e] = "return" /\ arg[e] = prepared[e] /\ ~Awaiting(e)
  BY <1>0, InCall DEF OwnControl, AppendPCs, Awaiting, opVars
<1>2. Dead' = Dead /\ Covered' = Covered /\ UNCHANGED <<stored, batch, synced, prepared>>
  BY DEF Dead, Failed, Covered, storeVars, workerVars, opVars
<1> DEFINE r == [id |-> e, body |-> arg[e]]
<1>3. r \in Records /\ queue' = Append(queue, r)
  BY RecordType DEF Enqueue, IInv, TypeOK, AsyncTypeOK
<1>4. stored \in Seq(Records) /\ batch \in Seq(Records) /\ queue \in Seq(Records)
      /\ stored \o batch \in Seq(Records) /\ Line \in Seq(Records)
  BY ConcatProperties DEF Line, IInv, TypeOK, AsyncTypeOK, StoreTypeOK
<1>5. Line' = Append(Line, r)
  BY <1>2, <1>3, <1>4, LineEnqueue DEF Line
<1>6. Dead \/ ~InSeq(e, Line)
  BY <1>0, <1>1, NotInLine
<1>7. RecordInv'
  <2>1. Distinct(Line) /\ ~InSeq(e, Line) => Distinct(Line')
    BY <1>3, <1>4, <1>5, DistinctAppend
  <2>2. Frozen(queue)'
    BY <1>1, <1>2, <1>3, <1>4, OneMore DEF Frozen, IInv, RecordInv
  <2>3. Distinct(stored)' /\ Frozen(stored)' /\ Frozen(batch)'
    BY <1>2 DEF IInv, RecordInv, Frozen, Distinct
  <2>4. QED
    BY <1>2, <1>6, <2>1, <2>2, <2>3 DEF IInv, RecordInv
<1>8. ASSUME NEW o \in Entries, o # e PROVE Owned(o)'
  <2>1. Kept(o)
    BY <1>8 DEF Kept, Enqueue, Goto, Return, opVars, IInv, TypeOK, AsyncTypeOK, Callers
  <2>2. StoreGrows
    BY <1>2, <1>4, LenProperties DEF StoreGrows, IInv, TypeOK, AsyncTypeOK, StoreTypeOK
  <2>3. InSeq(o, Line') <=> InSeq(o, Line)
    BY <1>3, <1>4, <1>5, <1>8, OneMore
  <2>4. Reached(o) => Reached(o)'
    <3>1. Covered \in Nat /\ Covered <= Len(Line)
      <4>1. /\ Len(stored) \in Nat /\ Len(batch) \in Nat /\ Len(queue) \in Nat /\ remaining \in Nat
            /\ Len(stored \o batch) = Len(stored) + Len(batch)
            /\ Len(Line) = Len(stored \o batch) + Len(queue)
        BY <1>4, ConcatProperties, LenProperties, AsyncAssumption
           DEF Line, IInv, TypeOK, AsyncTypeOK
      <4>2. QED
        BY <4>1 DEF Covered, IInv, WorkerInv
    <3>2. QED
      BY <1>2, <1>3, <1>4, <1>5, <3>1, OneMore DEF Reached
  <2>5. QED
    BY <1>2, <2>1, <2>2, <2>3, <2>4, OthersOwned
<1>9. Owned(e)'
  <2>1. CASE Durable
    <3>1. pc'[e] = "flush" /\ then'[e] = "return"
      BY <1>1, <2>1 DEF Enqueue, Goto, IInv, TypeOK, AsyncTypeOK
    <3>2. Awaiting(e)' /\ ~Told(e)' /\ ~Appending(e)' /\ ~Confirming(e)'
      BY <1>1, <3>1 DEF Awaiting, Told, Appending, Confirming, AppendPCs
    <3>3. InSeq(e, Line')
      BY <1>3, <1>4, <1>5, OneMore
    <3>4. QED
      BY <1>1, <3>1, <3>2, <3>3 DEF Owned
  <2>2. CASE ~Durable
    <3>1. pc'[e] = "idle" /\ ret'[e] = "ok"
      BY <1>1, <2>2 DEF Enqueue, Return, IInv, TypeOK, AsyncTypeOK
    <3>2. QED
      BY <1>1, <2>2, <3>1, ToldOwned
  <2>3. QED
    BY <2>1, <2>2
<1>10. QED
  BY <1>7, <1>8, <1>9

\* An append that bypasses the queue.
LEMMA DirectOwned ==
    ASSUME IInv, TypeOK', NEW e \in Entries, DirectAppend(e), UNCHANGED opVars
    PROVE  RecordInv' /\ \A o \in Entries : Owned(o)'
<1>0. TypeOK /\ pc[e] = "direct" /\ pc[e] # "idle"
  BY DEF IInv, DirectAppend
<1>1. /\ fpc[e] = "append" /\ fpc'[e] = "append" /\ ~finalized'[e] /\ e \in Callers
      /\ arg[e] = prepared[e] /\ Dead /\ ~InSeq(e, stored)
  BY <1>0, InCall DEF OwnControl, Owned, Appending, AppendPCs, opVars, Dead, Failed
<1>2. Dead' /\ UNCHANGED <<batch, queue, prepared>>
  BY <1>1 DEF DirectAppend, Dead, Failed, workerVars, opVars
<1> DEFINE r == [id |-> e, body |-> arg[e]]
<1>3. r \in Records /\ stored \in Seq(Records) /\ Len(stored) \in Nat /\ synced \in 0..Len(stored)
      /\ pc \in [Callers -> CallPCs]
      /\ ret \in [Callers -> {"none", "ok", "err", "found", "absent"}]
  BY RecordType, LenProperties DEF IInv, TypeOK, AsyncTypeOK, StoreTypeOK
<1>4. stored \o <<r>> = Append(stored, r)
  BY <1>3, AppendIsConcat
<1>5. \/ AppendBatchOk(<<r>>) /\ Return(e, "ok") /\ stored' = Append(stored, r)
      \/ Return(e, "err") /\ stored' = Append(stored, r) /\ synced' = synced
      \/ Return(e, "err") /\ stored' = stored /\ synced' = synced
  <2>1. ASSUME AppendBatchFailed(<<r>>)
        PROVE  (stored' = Append(stored, r) \/ stored' = stored) /\ synced' = synced
    <3>1. PICK k \in 0..1 : stored' = stored \o SubSeq(<<r>>, 1, k)
      BY <2>1 DEF AppendBatchFailed
    <3>2. CASE k = 0
      <4>1. SubSeq(<<r>>, 1, k) = <<>>
        BY <3>2
      <4>2. QED
        BY <1>3, <2>1, <3>1, <4>1, ConcatEmptySeq DEF AppendBatchFailed
    <3>3. CASE k = 1
      <4>1. <<r>> \in Seq(Records) /\ Len(<<r>>) = 1
        BY <1>3
      <4>2. SubSeq(<<r>>, 1, Len(<<r>>)) = <<r>>
        BY <4>1, SubSeqFull
      <4>3. QED
        BY <1>4, <2>1, <3>1, <3>3, <4>1, <4>2 DEF AppendBatchFailed
    <3>4. QED
      BY <3>1, <3>2, <3>3
  <2>2. AppendBatchOk(<<r>>) => stored' = Append(stored, r)
    BY <1>4 DEF AppendBatchOk
  <2>3. QED
    BY <2>1, <2>2 DEF DirectAppend
<1>6. StoreGrows
  <2>1. /\ Len(Append(stored, r)) = Len(stored) + 1
        /\ \A i \in 1..Len(stored) : Append(stored, r)[i] = stored[i]
    BY <1>3, OneMore
  <2>2. synced <= synced'
    BY <1>3, <1>5, <2>1 DEF AppendBatchOk
  <2>3. stored' = stored \/ stored' = Append(stored, r)
    BY <1>5
  <2>4. Len(stored) <= Len(stored') /\ \A i \in 1..Len(stored) : stored'[i] = stored[i]
    BY <1>3, <2>1, <2>3
  <2>5. QED
    BY <2>2, <2>4 DEF StoreGrows
<1>7. RecordInv'
  <2>1. Distinct(stored')
    BY <1>1, <1>3, <1>5, DistinctAppend DEF IInv, RecordInv
  <2>2. Frozen(stored)'
    <3>1. \A i \in 1..Len(stored) : stored[i].body = prepared[stored[i].id]
      BY DEF IInv, RecordInv, Frozen
    <3>2. r.body = prepared[r.id]
      BY <1>1
    <3>3. stored' = stored \/ stored' = Append(stored, r)
      BY <1>5
    <3>4. \A i \in 1..Len(stored') : stored'[i] = r \/ (i \in 1..Len(stored) /\ stored'[i] = stored[i])
      <4>1. CASE stored' = stored
        BY <4>1
      <4>2. CASE stored' = Append(stored, r)
        <5>1. /\ Len(Append(stored, r)) = Len(stored) + 1
              /\ \A i \in 1..Len(stored) : Append(stored, r)[i] = stored[i]
              /\ Append(stored, r)[Len(stored) + 1] = r
          BY <1>3, OneMore
        <5>2. \A i \in 1..Len(stored) + 1 : i \in 1..Len(stored) \/ i = Len(stored) + 1
          BY <1>3
        <5>3. QED
          BY <4>2, <5>1, <5>2, Zenon
      <4>3. QED
        BY <3>3, <4>1, <4>2
    <3>5. \A i \in 1..Len(stored') : stored'[i].body = prepared[stored'[i].id]
      BY <3>1, <3>2, <3>4, Zenon
    <3>6. QED
      BY <1>2, <3>5 DEF Frozen
  <2>3. Frozen(batch)' /\ Frozen(queue)'
    BY <1>2 DEF IInv, RecordInv, Frozen
  <2>4. QED
    BY <1>2, <2>1, <2>2, <2>3 DEF RecordInv
<1>8. ASSUME NEW o \in Entries, o # e PROVE Owned(o)'
  <2>1. Kept(o)
    <3>1. \E a : Return(e, a)
      BY <1>5
    <3>2. UNCHANGED then
      BY DEF DirectAppend
    <3>3. QED
      BY <1>3, <1>8, <3>1, <3>2 DEF Kept, Return, opVars, Callers
  <2>2. InSeq(o, stored') => InSeq(o, stored)
    <3>1. InSeq(o, Append(stored, r)) <=> InSeq(o, stored) \/ o = r.id
      BY <1>3, OneMore
    <3>2. stored' = stored \/ stored' = Append(stored, r)
      BY <1>5
    <3>3. QED
      BY <1>8, <3>1, <3>2
  <2>3. QED
    BY <1>2, <1>6, <2>1, <2>2, OthersOwned
<1>9. Owned(e)'
  <2>1. CASE AppendBatchOk(<<r>>) /\ Return(e, "ok") /\ stored' = Append(stored, r)
    <3>1. pc'[e] = "idle" /\ ret'[e] = "ok"
      BY <1>1, <1>3, <2>1 DEF Return
    <3>2. InSeq(e, stored') /\ (Durable => OnDisk(e)')
      BY <1>3, <2>1, OneMore DEF AppendBatchOk, InSeq, OnDisk
    <3>3. QED
      BY <1>1, <3>1, <3>2, ToldOwned
  <2>2. CASE Return(e, "err")
    <3>1. pc'[e] = "idle" /\ ret'[e] = "err"
      BY <1>1, <1>3, <2>2 DEF Return
    <3>2. ~Told(e)' /\ ~Awaiting(e)' /\ ~Appending(e)' /\ ~Confirming(e)'
      BY <1>1, <3>1 DEF Told, Awaiting, Appending, Confirming, AppendPCs
    <3>3. QED
      BY <1>1, <1>2, <3>2 DEF Owned
  <2>3. QED
    BY <1>5, <2>1, <2>2
<1>10. QED
  BY <1>7, <1>8, <1>9

\* RecordInv is about the records, the prepared completions and the worker.
LEMMA QuietRecord ==
    ASSUME IInv, UNCHANGED <<stored, synced, batch, queue, workerVars, prepared>>
    PROVE  RecordInv'
<1>1. Dead' = Dead /\ Line' = Line
  BY DEF Dead, Failed, Line, workerVars
<1>2. Frozen(stored)' /\ Frozen(batch)' /\ Frozen(queue)'
  BY DEF Frozen, IInv, RecordInv
<1>3. QED
  BY <1>1, <1>2 DEF IInv, RecordInv

\* A caller that moves without touching a record.
LEMMA QuietMove ==
    ASSUME IInv, TypeOK', NEW e \in Callers, NEW l, pc' = [pc EXCEPT ![e] = l],
           NEW a, ret' = [ret EXCEPT ![e] = a],
           UNCHANGED <<stored, synced, batch, queue, workerVars, then, opVars>>,
           e \in Entries => Owned(e)'
    PROVE  RecordInv' /\ \A o \in Entries : Owned(o)'
<1>1. RecordInv'
  BY QuietRecord DEF opVars
<1>2. ASSUME NEW o \in Entries, o # e PROVE Owned(o)'
  <2>1. Kept(o)
    BY <1>2 DEF Kept, opVars, IInv, TypeOK, AsyncTypeOK, Callers
  <2>2. QED
    BY <2>1, QuietOwned
<1>3. QED
  BY <1>1, <1>2

\* A confirmation changes how much is on disk.
LEMMA SyncOkOwned ==
    ASSUME IInv, TypeOK', NEW e \in Entries, SyncBackend(e), SyncOk, UNCHANGED opVars
    PROVE  RecordInv' /\ \A o \in Entries : Owned(o)'
<1>0. UNCHANGED <<stored, batch, queue, workerVars, then, opVars>> /\ synced' = Len(stored)
  BY DEF SyncBackend, SyncOk, workerVars
<1>1. Dead' = Dead /\ Line' = Line /\ Covered' = Covered
  BY <1>0 DEF Dead, Failed, Line, Covered, workerVars
<1>2. RecordInv'
  <2>1. Frozen(stored)' /\ Frozen(batch)' /\ Frozen(queue)'
    BY <1>0 DEF Frozen, IInv, RecordInv, opVars
  <2>2. QED
    BY <1>0, <1>1, <2>1 DEF IInv, RecordInv
<1>3. StoreGrows
  BY <1>0, LenProperties DEF StoreGrows, IInv, TypeOK, AsyncTypeOK, StoreTypeOK
<1>4. ASSUME NEW o \in Entries, o # e PROVE Owned(o)'
  <2>1. Kept(o)
    BY <1>0, <1>4 DEF SyncBackend, Return, Kept, opVars, IInv, TypeOK, AsyncTypeOK, Callers
  <2>2. Reached(o) => Reached(o)'
    BY <1>1 DEF Reached
  <2>3. QED
    BY <1>0, <1>1, <1>3, <2>1, <2>2, OthersOwned
<1>5. QED
  BY <1>2, <1>4, SyncOwned

\* The steps of a caller inside the store.  Without the wrapper only the
\* calls that reach the backend exist.
LEMMA OwnedCaller ==
    ASSUME IInv, TypeOK', UNCHANGED opVars, NEW e \in Entries,
           BackendStep(e) \/ (Async /\ CallerStep(e))
    PROVE  RecordInv' /\ \A o \in Entries : Owned(o)'
<1>0. /\ e \in Callers /\ pc \in [Callers -> CallPCs]
      /\ ret \in [Callers -> {"none", "ok", "err", "found", "absent"}]
      /\ ret = [ret EXCEPT ![e] = ret[e]]
  BY DEF IInv, TypeOK, AsyncTypeOK, Callers
<1>1. ASSUME NEW l \in AppendPCs, Goto(e, l), pc[e] \in AppendPCs,
             UNCHANGED <<stored, synced, batch, queue, workerVars, then>>
      PROVE  RecordInv' /\ \A o \in Entries : Owned(o)'
  <2>1. Owned(e)'
    BY <1>0, <1>1, MoveOwned DEF Goto
  <2>2. QED
    BY <1>0, <1>1, <2>1, QuietMove DEF Goto
<1>2. ASSUME Return(e, "err"), pc[e] # "idle", ~Awaiting(e),
             UNCHANGED <<stored, synced, batch, queue, workerVars, then>>
      PROVE  RecordInv' /\ \A o \in Entries : Owned(o)'
  <2>1. pc'[e] = "idle" /\ ret'[e] = "err"
    BY <1>0, <1>2 DEF Return
  <2>2. Owned(e)'
    BY <1>2, <2>1, ErrOwned, NotInLine
  <2>3. QED
    BY <1>0, <1>2, <2>2, QuietMove DEF Return
<1>3. CASE AppendCheckErr(e)
  BY <1>1, <1>2, <1>3 DEF AppendCheckErr, AppendPCs, Awaiting, storeVars, workerVars
<1>4. CASE AppendRLock(e)
  BY <1>1, <1>2, <1>4 DEF AppendRLock, AppendPCs, Awaiting, storeVars, workerVars
<1>5. CASE Async /\ AppendSend(e)
  <2>1. CASE Enqueue(e)
    BY <1>5, <2>1, EnqueueOwned DEF AppendSend
  <2>2. CASE Goto(e, "blocked") /\ UNCHANGED queue
    BY <1>1, <1>5, <2>2 DEF AppendSend, AppendPCs, storeVars, workerVars
  <2>3. QED
    BY <1>5, <2>1, <2>2 DEF AppendSend
<1>6. CASE Async /\ AppendBlocked(e)
  <2>1. CASE Enqueue(e)
    BY <1>6, <2>1, EnqueueOwned DEF AppendBlocked
  <2>2. CASE Return(e, "err") /\ UNCHANGED queue
    BY <1>2, <1>6, <2>2 DEF AppendBlocked, Awaiting, storeVars, workerVars
  <2>3. QED
    BY <1>6, <2>1, <2>2 DEF AppendBlocked
<1>7. CASE Async /\ FlushDone(e)
  <2>1. Owned(e)'
    BY <1>7, FlushDoneOwned
  <2>2. UNCHANGED <<stored, synced, batch, queue, workerVars, then>>
    BY <1>7 DEF FlushDone, storeVars, workerVars
  <2>3. \E l, a : pc' = [pc EXCEPT ![e] = l] /\ ret' = [ret EXCEPT ![e] = a]
    BY <1>0, <1>7 DEF FlushDone, AfterFlush, Goto, Return
  <2>4. QED
    BY <1>0, <2>1, <2>2, <2>3, QuietMove
<1>8. CASE DirectLock(e)
  BY <1>1, <1>2, <1>8 DEF DirectLock, AppendPCs, Awaiting, storeVars, workerVars
<1>9. CASE DirectAppend(e)
  BY <1>9, DirectOwned
<1>10. CASE LookupWait(e) \/ SyncWait(e)
  <2>1. UNCHANGED <<stored, synced, batch, queue, workerVars, then>>
    BY <1>10 DEF LookupWait, SyncWait, storeVars, workerVars
  <2>2. Owned(e)'
    BY <1>0, <1>10, <2>1, MoveOwned DEF LookupWait, SyncWait, Goto
  <2>3. QED
    BY <1>0, <1>10, <2>1, <2>2, QuietMove DEF LookupWait, SyncWait, Goto
<1>11. CASE LookupRead(e)
  <2>1. UNCHANGED <<stored, synced, batch, queue, workerVars, then>>
    BY <1>11 DEF LookupRead, storeVars, workerVars
  <2>2. QED
    BY <1>0, <1>11, <2>1, LookupOwned, QuietMove DEF LookupRead, Return
<1>12. CASE SyncBackend(e)
  <2>1. CASE SyncOk
    BY <1>12, <2>1, SyncOkOwned
  <2>2. CASE UNCHANGED storeVars /\ Return(e, "err")
    BY <1>2, <1>12, <2>2 DEF SyncBackend, Awaiting, storeVars, workerVars
  <2>3. QED
    BY <1>12, <2>1, <2>2 DEF SyncBackend
<1>13. QED
  BY <1>3, <1>4, <1>5, <1>6, <1>7, <1>8, <1>9, <1>10, <1>11, <1>12 DEF CallerStep, AppendStep, RetryStep, BackendStep

-----------------------------------------------------------------------------
(* Steps of the worker.                                                    *)

\* The lengths behind Covered, and where an element of the line is.
LEMMA LineFacts ==
    ASSUME TypeOK
    PROVE  /\ stored \in Seq(Records) /\ batch \in Seq(Records) /\ queue \in Seq(Records)
           /\ stored \o batch \in Seq(Records) /\ Line \in Seq(Records)
           /\ Len(stored) \in Nat /\ Len(batch) \in Nat /\ Len(queue) \in Nat
           /\ remaining \in Nat /\ synced \in 0..Len(stored)
           /\ Len(Line) = Len(stored) + Len(batch) + Len(queue)
           /\ \A i \in 1..Len(stored) : Line[i] = stored[i]
           /\ \A i \in 1..Len(batch) : Line[Len(stored) + i] = batch[i]
<1>1. /\ stored \in Seq(Records) /\ batch \in Seq(Records) /\ queue \in Seq(Records)
      /\ Len(stored) \in Nat /\ Len(batch) \in Nat /\ Len(queue) \in Nat
      /\ remaining \in Nat /\ synced \in 0..Len(stored)
  BY LenProperties, AsyncAssumption DEF TypeOK, AsyncTypeOK, StoreTypeOK
<1>2. /\ stored \o batch \in Seq(Records)
      /\ Len(stored \o batch) = Len(stored) + Len(batch)
      /\ \A i \in 1..Len(stored) : (stored \o batch)[i] = stored[i]
      /\ \A i \in 1..Len(batch) : (stored \o batch)[Len(stored) + i] = batch[i]
  BY <1>1, ConcatElements
<1>3. /\ Line \in Seq(Records)
      /\ Len(Line) = Len(stored \o batch) + Len(queue)
      /\ \A i \in 1..Len(stored \o batch) : Line[i] = (stored \o batch)[i]
  BY <1>1, <1>2, ConcatElements DEF Line
<1>4. ASSUME NEW i \in 1..Len(batch) PROVE Line[Len(stored) + i] = batch[i]
  <2>1. Len(stored) + i \in 1..Len(stored \o batch)
    BY <1>1, <1>2
  <2>2. QED
    BY <1>2, <1>3, <2>1
<1>5. ASSUME NEW i \in 1..Len(stored) PROVE Line[i] = stored[i]
  <2>1. i \in 1..Len(stored \o batch)
    BY <1>1, <1>2
  <2>2. QED
    BY <1>2, <1>3, <2>1
<1>6. QED
  BY <1>1, <1>2, <1>3, <1>4, <1>5

\* Records only move along the line, and the worker still reaches those it
\* owes to its client.
LEMMA LineKept ==
    ASSUME IInv, TypeOK', Line' = Line, StoreGrows, Dead' = Dead,
           UNCHANGED <<callVars, opVars>>,
           Serving => Covered' = Covered,
           \A o \in Entries : InSeq(o, stored') => InSeq(o, stored) \/ (~Dead /\ InSeq(o, Line))
    PROVE  \A o \in Entries : Owned(o)'
<1> TAKE o \in Entries
<1>1. Kept(o)
  BY DEF Kept, callVars, opVars
<1>2. pc[o] = "reply" => Serving
  BY DEF IInv, WorkerInv, Callers
<1>3. pc[o] = "reply" /\ Reached(o) => Reached(o)'
  BY <1>2 DEF Reached
<1>4. QED
  BY <1>1, <1>3, OthersOwned

\* The worker moves and no record does.
LEMMA WorkerQuiet ==
    ASSUME IInv, TypeOK', UNCHANGED <<stored, synced, batch, queue, callVars, opVars>>,
           Dead' = Dead, Serving => Covered' = Covered
    PROVE  RecordInv' /\ \A o \in Entries : Owned(o)'
<1>1. Line' = Line
  BY DEF Line
<1>2. StoreGrows
  BY LineFacts DEF StoreGrows, IInv
<1>3. RecordInv'
  BY <1>1 DEF IInv, RecordInv, Frozen, opVars
<1>4. QED
  BY <1>1, <1>2, <1>3, LineKept

\* The head of the queue goes into the batch.
LEMMA ReceiveOwned ==
    ASSUME IInv, Async, TypeOK', NEW loop \in {"select", "drain"}, wpc = loop, Receive(loop),
           UNCHANGED <<storeVars, err, callVars, opVars>>,
           loop = "drain" => remaining > 0 /\ remaining' = remaining - 1
    PROVE  RecordInv' /\ \A o \in Entries : Owned(o)'
<1>0. TypeOK /\ RecordInv
  BY DEF IInv
<1>1. queue # <<>> /\ queue' = Tail(queue) /\ batch' = Append(batch, Head(queue))
      /\ UNCHANGED <<stored, synced, prepared>>
  BY DEF Receive, storeVars, opVars
<1>2. Line' = Line
  <2>1. stored \in Seq(Records) /\ batch \in Seq(Records) /\ queue \in Seq(Records)
    BY <1>0, LineFacts
  <2>2. stored \o Append(batch, Head(queue)) \o Tail(queue) = stored \o batch \o queue
    BY <1>1, <2>1, LineReceive, Zenon
  <2>3. QED
    BY <1>1, <2>2 DEF Line
<1>3. wpc' \in {wpc, "write"} /\ Dead' = Dead
  BY DEF Receive, Dead, Failed
<1>4. StoreGrows
  BY <1>0, <1>1, LineFacts DEF StoreGrows
<1>5. Serving => Covered' = Covered
  <2>1. Len(batch') = Len(batch) + 1
    <3>1. batch \in Seq(Records) /\ Head(queue) \in Records
      BY <1>0, <1>1, LineFacts, HeadTailProperties
    <3>2. QED
      BY <1>1, <3>1, OneMore
  <2>2. CASE loop = "drain"
    <3>1. /\ Len(stored) \in Nat /\ Len(batch) \in Nat /\ remaining \in Nat
          /\ Len(stored') = Len(stored)
      BY <1>0, <1>1, LineFacts
    <3>2. wpc' = "drain" \/ (wpc' = "write" /\ wnext' = "drain")
      BY <2>2 DEF Receive
    <3>3. Covered = Len(stored) + Len(batch) + remaining
      BY <2>2 DEF Covered
    <3>4. Covered' = Len(stored') + Len(batch') + remaining'
      BY <3>2 DEF Covered
    <3>5. QED
      BY <2>1, <2>2, <3>1, <3>3, <3>4
  <2>3. CASE loop = "select"
    BY <2>3 DEF Serving
  <2>4. QED
    BY <2>2, <2>3
<1>6. RecordInv'
  <2>1. /\ Head(queue) \in Records /\ Tail(queue) \in Seq(Records) /\ Len(queue) \in Nat
        /\ Len(Tail(queue)) = Len(queue) - 1
        /\ \A i \in 1..Len(Tail(queue)) : Tail(queue)[i] = queue[i + 1]
        /\ Head(queue) = queue[1] /\ Len(queue) > 0
    BY <1>0, <1>1, LineFacts, HeadTailProperties, EmptySeq
  <2>2. Frozen(queue)'
    BY <1>0, <1>1, <2>1 DEF Frozen, RecordInv
  <2>3. /\ Len(Append(batch, Head(queue))) = Len(batch) + 1 /\ Len(batch) \in Nat
        /\ \A i \in 1..Len(batch) : Append(batch, Head(queue))[i] = batch[i]
        /\ Append(batch, Head(queue))[Len(batch) + 1] = Head(queue)
    BY <1>0, <2>1, LineFacts, OneMore
  <2>4. Head(queue).body = prepared[Head(queue).id]
    BY <1>0, <2>1 DEF Frozen, RecordInv
  <2>5. Frozen(batch)'
    BY <1>0, <1>1, <2>3, <2>4 DEF Frozen, RecordInv
  <2>6. QED
    BY <1>0, <1>1, <1>2, <1>3, <2>2, <2>5 DEF RecordInv, Frozen
<1>7. QED
  BY <1>1, <1>2, <1>3, <1>4, <1>5, <1>6, LineKept

\* What the backend holds after a batch, or a part of it, was written.
LEMMA WrittenPrefix ==
    ASSUME TypeOK, NEW k \in 0..Len(batch), stored' = stored \o SubSeq(batch, 1, k)
    PROVE  /\ Len(stored') = Len(stored) + k
           /\ \A i \in 1..Len(stored) : stored'[i] = stored[i]
           /\ \A i \in 1..Len(stored') : i \in 1..Len(Line) /\ stored'[i] = Line[i]
<1> DEFINE b == SubSeq(batch, 1, k)
<1>0. /\ batch \in Seq(Records) /\ stored \in Seq(Records) /\ Len(batch) \in Nat
      /\ Len(stored) \in Nat /\ Len(queue) \in Nat
      /\ Len(Line) = Len(stored) + Len(batch) + Len(queue)
      /\ \A i \in 1..Len(stored) : Line[i] = stored[i]
      /\ \A i \in 1..Len(batch) : Line[Len(stored) + i] = batch[i]
  BY LineFacts
<1>1. b \in Seq(Records) /\ Len(b) = k /\ \A i \in 1..k : b[i] = batch[i]
  BY <1>0
<1>2. /\ Len(stored') = Len(stored) + k
      /\ \A i \in 1..Len(stored) : stored'[i] = stored[i]
      /\ \A i \in 1..k : stored'[Len(stored) + i] = b[i]
      /\ \A i \in 1..Len(stored') :
            i \in 1..Len(stored) \/ \E j \in 1..k : i = Len(stored) + j
  <2>1. /\ Len(stored \o b) = Len(stored) + Len(b)
        /\ \A i \in 1..Len(stored) : (stored \o b)[i] = stored[i]
        /\ \A i \in 1..Len(b) : (stored \o b)[Len(stored) + i] = b[i]
        /\ \A i \in 1..Len(stored \o b) :
              i \in 1..Len(stored) \/ \E j \in 1..Len(b) : i = Len(stored) + j
    <3>1. ASSUME NEW s \in Seq(Records), NEW t \in Seq(Records)
          PROVE  /\ Len(s \o t) = Len(s) + Len(t)
                 /\ \A i \in 1..Len(s) : (s \o t)[i] = s[i]
                 /\ \A i \in 1..Len(t) : (s \o t)[Len(s) + i] = t[i]
                 /\ \A i \in 1..Len(s \o t) :
                       i \in 1..Len(s) \/ \E j \in 1..Len(t) : i = Len(s) + j
      BY ConcatElements
    <3> HIDE DEF b
    <3>2. stored \in Seq(Records) /\ b \in Seq(Records)
      BY <1>0, <1>1
    <3>3. QED
      BY <3>1, <3>2, Zenon
  <2>2. stored' = stored \o b
    OBVIOUS
  <2> HIDE DEF b
  <2>3. QED
    BY <1>1, <2>1, <2>2
<1>3. ASSUME NEW i \in 1..Len(stored') PROVE i \in 1..Len(Line) /\ stored'[i] = Line[i]
  <2>1. CASE i \in 1..Len(stored)
    BY <1>0, <1>2, <2>1
  <2>2. ASSUME NEW j \in 1..k, i = Len(stored) + j
        PROVE  i \in 1..Len(Line) /\ stored'[i] = Line[i]
    <3> HIDE DEF b
    <3>0. k \in Nat /\ k <= Len(batch) /\ j \in Nat /\ 1 <= j /\ j <= k
      BY <1>0, <2>2
    <3>1. /\ j \in 1..Len(batch) /\ i \in 1..Len(Line)
          /\ stored'[i] = batch[j]
      <4>1. j \in 1..Len(batch) /\ i \in 1..Len(Line)
        BY <1>0, <2>2, <3>0
      <4>2. stored'[Len(stored) + j] = b[j] /\ b[j] = batch[j]
        BY <1>1, <1>2
      <4>3. QED
        BY <2>2, <4>1, <4>2
    <3>2. QED
      BY <1>0, <2>2, <3>1
  <2>3. QED
    BY <1>2, <2>1, <2>2
<1>4. QED
  BY <1>2, <1>3

\* A batch that was written moves within the line.
LEMMA WriteOkOwned ==
    ASSUME IInv, Async, TypeOK', wpc = "write", AppendBatchOk(batch), batch' = <<>>, wpc' = wnext,
           UNCHANGED <<queue, wnext, remaining, client, err, callVars, opVars>>
    PROVE  RecordInv' /\ \A o \in Entries : Owned(o)'
<1>0. /\ TypeOK /\ RecordInv /\ ~Dead /\ ~err
      /\ stored' = stored \o batch /\ synced' = IF Durable THEN Len(stored') ELSE synced
      /\ UNCHANGED prepared /\ wnext \in {"select", "drain", "reply", "exit"}
  BY DEF IInv, WorkerInv, Dead, Failed, AppendBatchOk, opVars, TypeOK, AsyncTypeOK
<1>1. ~Dead'
  BY <1>0 DEF Dead, Failed
<1>2. /\ stored \in Seq(Records) /\ batch \in Seq(Records) /\ queue \in Seq(Records)
      /\ stored' \in Seq(Records)
      /\ Len(stored) \in Nat /\ Len(batch) \in Nat /\ remaining \in Nat
      /\ Len(Line) = Len(stored) + Len(batch) + Len(queue) /\ Len(queue) \in Nat
      /\ synced \in 0..Len(stored)
  BY <1>0, LineFacts
<1>3. Line' = Line
  <2>1. stored' \o <<>> = stored'
    BY <1>2, ConcatEmptySeq
  <2>2. QED
    BY <1>0, <2>1 DEF Line
<1>4. /\ Len(stored') = Len(stored) + Len(batch)
      /\ \A i \in 1..Len(stored) : stored'[i] = stored[i]
      /\ \A i \in 1..Len(stored') : i \in 1..Len(Line) /\ stored'[i] = Line[i]
  <2>1. stored' = stored \o SubSeq(batch, 1, Len(batch)) /\ Len(batch) \in 0..Len(batch)
    <3>1. SubSeq(batch, 1, Len(batch)) = batch
      BY <1>2, SubSeqFull, Zenon
    <3>2. QED
      BY <1>0, <1>2, <3>1
  <2>2. QED
    BY <1>0, <2>1, WrittenPrefix
<1>5. StoreGrows
  BY <1>0, <1>2, <1>4 DEF StoreGrows
<1>6. Serving => Covered' = Covered
  <2>1. Len(batch') = 0
    BY EmptySeq
  <2>2. wpc' = "drain" \/ (wpc' = "write" /\ wnext' = "drain") <=> wnext = "drain"
    BY <1>0
  <2>3. QED
    BY <1>2, <1>4, <2>1, <2>2 DEF Covered
<1>7. RecordInv'
  <2>1. Distinct(stored') /\ Distinct(Line')
    <3>1. Distinct(Line)
      BY <1>0 DEF RecordInv
    <3>2. QED
      BY <1>3, <1>4, <3>1 DEF Distinct
  <2>2. Frozen(stored)'
    <3>1. Frozen(stored) /\ Frozen(batch)
      BY <1>0 DEF RecordInv
    <3>2. ASSUME NEW i \in 1..Len(stored')
          PROVE  stored'[i].body = prepared[stored'[i].id]
      <4>1. CASE i \in 1..Len(stored)
        BY <1>4, <3>1, <4>1 DEF Frozen
      <4>2. CASE i \notin 1..Len(stored)
        <5>1. i - Len(stored) \in 1..Len(batch) /\ i = Len(stored) + (i - Len(stored))
          BY <1>2, <1>4, <4>2
        <5>2. Line[Len(stored) + (i - Len(stored))] = batch[i - Len(stored)]
          BY <1>0, <5>1, LineFacts
        <5>3. QED
          BY <1>4, <3>1, <5>1, <5>2 DEF Frozen
      <4>3. QED
        BY <4>1, <4>2
    <3>3. QED
      BY <1>0, <3>2 DEF Frozen
  <2>3. Frozen(batch)' /\ Frozen(queue)'
    BY <1>0, EmptySeq DEF RecordInv, Frozen
  <2>4. QED
    BY <1>0, <2>1, <2>2, <2>3 DEF RecordInv
<1>8. ASSUME NEW o \in Entries, InSeq(o, stored') PROVE InSeq(o, Line)
  BY <1>4, <1>8 DEF InSeq
<1>9. Dead' = Dead
  BY <1>0, <1>1 DEF Dead, Failed
<1>10. QED
  BY <1>0, <1>3, <1>5, <1>6, <1>7, <1>8, <1>9, LineKept

\* A batch that failed leaves a prefix of it, and the line dies.
LEMMA WriteFailedOwned ==
    ASSUME IInv, Async, TypeOK', wpc = "write", AppendBatchFailed(batch), wpc' = "fail",
           UNCHANGED <<queue, batch, callVars, opVars>>
    PROVE  RecordInv' /\ \A o \in Entries : Owned(o)'
<1>0. TypeOK /\ RecordInv /\ ~Dead /\ Dead' /\ UNCHANGED <<prepared, synced>>
  BY DEF IInv, WorkerInv, Dead, Failed, AppendBatchFailed, opVars
<1>1. PICK k \in 0..Len(batch) : stored' = stored \o SubSeq(batch, 1, k)
  BY DEF AppendBatchFailed
<1>2. /\ Len(stored') = Len(stored) + k
      /\ \A i \in 1..Len(stored) : stored'[i] = stored[i]
      /\ \A i \in 1..Len(stored') : i \in 1..Len(Line) /\ stored'[i] = Line[i]
  BY <1>0, <1>1, WrittenPrefix
<1>3. Len(stored) \in Nat /\ Len(batch) \in Nat /\ synced \in 0..Len(stored)
  BY <1>0, LineFacts
<1>4. StoreGrows
  BY <1>0, <1>2, <1>3 DEF StoreGrows
<1>5. RecordInv'
  <2>1. Distinct(stored')
    BY <1>0, <1>2 DEF RecordInv, Distinct
  <2>2. Frozen(stored)'
    <3>1. Frozen(stored) /\ Frozen(batch)
      BY <1>0 DEF RecordInv
    <3>2. ASSUME NEW i \in 1..Len(stored')
          PROVE  stored'[i].body = prepared[stored'[i].id]
      <4>1. CASE i \in 1..Len(stored)
        BY <1>2, <3>1, <4>1 DEF Frozen
      <4>2. CASE i \notin 1..Len(stored)
        <5>1. i - Len(stored) \in 1..Len(batch) /\ i = Len(stored) + (i - Len(stored))
          BY <1>2, <1>3, <4>2
        <5>2. Line[Len(stored) + (i - Len(stored))] = batch[i - Len(stored)]
          BY <1>0, <5>1, LineFacts
        <5>3. QED
          BY <1>2, <3>1, <5>1, <5>2 DEF Frozen
      <4>3. QED
        BY <4>1, <4>2
    <3>3. QED
      BY <1>0, <3>2 DEF Frozen
  <2>3. Frozen(batch)' /\ Frozen(queue)'
    BY <1>0 DEF RecordInv, Frozen
  <2>4. QED
    BY <1>0, <2>1, <2>2, <2>3 DEF RecordInv
<1>6. ASSUME NEW o \in Entries PROVE Owned(o)'
  <2>1. InSeq(o, stored') => InSeq(o, Line)
    BY <1>2 DEF InSeq
  <2>2. Kept(o)
    BY DEF Kept, callVars, opVars
  <2>3. QED
    BY <1>0, <1>4, <2>1, <2>2, OthersOwned
<1>7. QED
  BY <1>5, <1>6

\* The reply to a flush: the client's record is on disk, or the line is dead.
LEMMA ReplyOwned ==
    ASSUME IInv, Async, TypeOK', WorkerReply, UNCHANGED opVars
    PROVE  RecordInv' /\ \A o \in Entries : Owned(o)'
<1>0. /\ TypeOK /\ RecordInv /\ wpc = "reply" /\ err \in BOOLEAN
      /\ UNCHANGED <<stored, synced, batch, queue, then, opVars>>
      /\ pc \in [Callers -> CallPCs]
      /\ ret \in [Callers -> {"none", "ok", "err", "found", "absent"}]
  BY DEF WorkerReply, IInv, TypeOK, AsyncTypeOK, storeVars
<1>1. PICK p \in Callers : p = client /\ pc[p] = "reply"
  BY <1>0 DEF IInv, WorkerInv, Serving
<1>2. Line' = Line /\ Dead' = Dead
  BY <1>0 DEF WorkerReply, Line, Dead, Failed
<1>3. RecordInv'
  <2>1. Frozen(stored)' /\ Frozen(batch)' /\ Frozen(queue)'
    BY <1>0 DEF Frozen, RecordInv, opVars
  <2>2. QED
    BY <1>0, <1>2, <2>1 DEF RecordInv
<1>4. PICK l, a : pc' = [pc EXCEPT ![p] = l] /\ ret' = [ret EXCEPT ![p] = a]
  <2>1. ret = [ret EXCEPT ![p] = ret[p]]
    BY <1>0
  <2>2. QED
    BY <1>1, <2>1 DEF WorkerReply, AfterFlush, Goto, Return
<1>5. ASSUME NEW o \in Entries, o # p PROVE Owned(o)'
  <2>1. Kept(o)
    BY <1>0, <1>4, <1>5 DEF Kept, opVars, Callers
  <2>2. pc[o] # "reply"
    BY <1>1, <1>5 DEF IInv, WorkerInv, Callers
  <2>3. StoreGrows
    BY <1>0, LineFacts DEF StoreGrows
  <2>4. QED
    BY <1>0, <1>2, <2>1, <2>2, <2>3, OthersOwned
<1>6. ASSUME p \in Entries PROVE Owned(p)'
  <2>1. /\ Owned(p) /\ OwnControl(p) /\ fpc[p] = "append" /\ fpc'[p] = "append" /\ ~finalized'[p]
        /\ then[p] \in {"return", "sync"} /\ then'[p] = then[p]
    BY <1>0, <1>1, <1>6, InCall DEF OwnControl, opVars
  <2>2. CASE err
    <3>1. pc'[p] = "idle" /\ ret'[p] = "err" /\ Dead'
      BY <1>0, <1>1, <1>2, <2>2 DEF WorkerReply, AfterFlush, Return, ErrIf, Dead, Failed
    <3>2. ~Told(p)' /\ ~Awaiting(p)' /\ ~Appending(p)' /\ ~Confirming(p)'
      BY <2>1, <3>1 DEF Told, Awaiting, Appending, Confirming, AppendPCs
    <3>3. QED
      BY <2>1, <3>1, <3>2 DEF Owned
  <2>3. CASE ~err /\ then[p] = "sync"
    <3>1. pc'[p] = "sync"
      BY <1>0, <1>1, <2>3 DEF WorkerReply, AfterFlush, Goto
    <3>2. /\ ~Told(p)' /\ ~Awaiting(p)' /\ ~Appending(p)' /\ ~Awaiting(p)
          /\ Confirming(p)
      BY <1>1, <2>1, <2>3, <3>1 DEF Told, Awaiting, Appending, Confirming, AppendPCs
    <3>3. Dead \/ ~InSeq(p, Line)
      BY <1>1, <1>6, <3>2, NotInLine
    <3>4. QED
      BY <1>0, <1>2, <2>1, <3>2, <3>3 DEF Owned
  <2>4. CASE ~err /\ then[p] = "return"
    <3>1. pc'[p] = "idle" /\ ret'[p] = "ok"
      BY <1>0, <1>1, <2>4 DEF WorkerReply, AfterFlush, Return, ErrIf
    <3>2. ~Dead /\ Awaiting(p) /\ batch = <<>>
      BY <1>0, <1>1, <2>1, <2>4 DEF Dead, Failed, Awaiting, IInv, WorkerInv
    <3>3. Covered = Len(stored)
      <4>1. Len(batch) = 0 /\ Len(stored) \in Nat
        BY <1>0, <3>2, EmptySeq, LineFacts
      <4>2. QED
        BY <1>0, <4>1 DEF Covered
    <3>4. Durable => OnDisk(p)'
      <4>1. Durable => Reached(p) /\ synced = Len(stored)
        BY <1>0, <1>1, <2>1, <3>2 DEF Owned, RecordInv
      <4>2. QED
        BY <1>0, <3>3, <4>1, LineFacts DEF Reached, OnDisk
    <3>5. QED
      BY <2>1, <3>1, <3>4, ToldOwned
  <2>5. QED
    BY <1>0, <2>1, <2>2, <2>3, <2>4
<1>7. QED
  BY <1>3, <1>5, <1>6

\* The steps of the worker goroutine.
LEMMA OwnedWorker ==
    ASSUME IInv, Async, TypeOK', WorkerStep, UNCHANGED opVars
    PROVE  RecordInv' /\ \A o \in Entries : Owned(o)'
<1>0. TypeOK /\ WorkerInv
  BY DEF IInv
<1>1. CASE WorkerReceive
  BY <1>1, ReceiveOwned DEF WorkerReceive
<1>2. CASE DrainReceive
  BY <1>2, ReceiveOwned DEF DrainReceive
<1>3. CASE WorkerClosed \/ WorkerTick \/ WorkerExit
  <2>1. /\ UNCHANGED <<stored, synced, batch, queue, callVars, opVars>>
        /\ ~Serving /\ Dead' = Dead
    BY <1>3 DEF WorkerClosed, WorkerTick, WorkerExit, storeVars, Serving, Dead, Failed
  <2>2. QED
    BY <2>1, WorkerQuiet
<1>4. CASE DrainEnd
  <2>1. UNCHANGED <<stored, synced, batch, queue, callVars, opVars>> /\ Dead' = Dead
    BY <1>4 DEF DrainEnd, storeVars, Dead, Failed
  <2>2. remaining = 0
    <3>1. queue = <<>> => Len(queue) = 0
      BY EmptySeq
    <3>2. QED
      BY <1>0, <1>4, <3>1, LineFacts DEF DrainEnd, WorkerInv
  <2>3. Covered' = Covered
    <3>1. Covered = Len(stored) + Len(batch) + 0
      BY <1>4, <2>2 DEF DrainEnd, Covered
    <3>2. Covered' = Len(stored) + Len(batch) + 0
      BY <1>4, <2>1 DEF DrainEnd, Covered
    <3>3. QED
      BY <3>1, <3>2
  <2>4. QED
    BY <2>1, <2>3, WorkerQuiet
<1>5. CASE WriteBatch
  <2>1. CASE batch = <<>> /\ wpc' = wnext /\ UNCHANGED <<storeVars, batch>>
    <3>1. /\ UNCHANGED <<stored, synced, batch, queue, wnext, remaining, callVars, opVars>>
          /\ wpc = "write" /\ err' = err /\ wnext \in {"select", "drain", "reply", "exit"}
      BY <1>0, <1>5, <2>1 DEF WriteBatch, storeVars, TypeOK, AsyncTypeOK
    <3>2. Dead' = Dead
      BY <2>1, <3>1 DEF Dead, Failed
    <3>3. Covered' = Covered
      BY <2>1, <3>1 DEF Covered
    <3>4. QED
      BY <3>1, <3>2, <3>3, WorkerQuiet
  <2>2. CASE AppendBatchOk(batch) /\ batch' = <<>> /\ wpc' = wnext
    BY <1>5, <2>2, WriteOkOwned DEF WriteBatch
  <2>3. CASE AppendBatchFailed(batch) /\ wpc' = "fail" /\ UNCHANGED batch
    BY <1>5, <2>3, WriteFailedOwned DEF WriteBatch
  <2>4. QED
    BY <1>5, <2>1, <2>2, <2>3 DEF WriteBatch
<1>6. CASE WorkerSetErr
  <2>1. /\ UNCHANGED <<stored, synced, batch, queue, callVars, opVars>>
        /\ Dead /\ Dead'
    BY <1>6 DEF WorkerSetErr, storeVars, Dead, Failed
  <2>2. RecordInv'
    BY <2>1 DEF IInv, RecordInv, Frozen, opVars
  <2>3. ASSUME NEW o \in Entries PROVE Owned(o)'
    <3>1. Kept(o) /\ StoreGrows
      BY <1>0, <2>1, LineFacts DEF Kept, callVars, opVars, StoreGrows
    <3>2. QED
      BY <2>1, <3>1, OthersOwned
  <2>4. QED
    BY <2>2, <2>3
<1>7. CASE WorkerReply
  BY <1>7, ReplyOwned
<1>8. QED
  BY <1>1, <1>2, <1>3, <1>4, <1>5, <1>6, <1>7 DEF WorkerStep

-----------------------------------------------------------------------------
(* Flush requests, readers and Close.                                      *)

\* A flush request snapshots the whole queue: it covers the line.
LEMMA FlushSendOwned ==
    ASSUME IInv, TypeOK', NEW p \in Callers, FlushSend(p), UNCHANGED opVars
    PROVE  RecordInv' /\ \A o \in Entries : Owned(o)'
<1>0. /\ TypeOK /\ RecordInv /\ wpc = "select" /\ wpc' = "drain" /\ remaining' = Len(queue)
      /\ UNCHANGED <<stored, synced, batch, queue, then, opVars>> /\ err' = err
      /\ pc[p] = "flush" /\ pc' = [pc EXCEPT ![p] = "reply"] /\ ret' = ret
      /\ pc \in [Callers -> CallPCs]
  BY DEF FlushSend, Goto, IInv, TypeOK, AsyncTypeOK, storeVars
<1>1. Line' = Line /\ Dead' = Dead
  BY <1>0 DEF Line, Dead, Failed
<1>2. RecordInv'
  <2>1. Frozen(stored)' /\ Frozen(batch)' /\ Frozen(queue)'
    BY <1>0 DEF Frozen, RecordInv, opVars
  <2>2. QED
    BY <1>0, <1>1, <2>1 DEF RecordInv
<1>3. ASSUME NEW o \in Entries, o # p PROVE Owned(o)'
  <2>1. Kept(o)
    BY <1>0, <1>3 DEF Kept, opVars, Callers
  <2>2. pc[o] # "reply"
    BY <1>0 DEF IInv, WorkerInv, Serving, Callers
  <2>3. StoreGrows
    BY <1>0, LineFacts DEF StoreGrows
  <2>4. QED
    BY <1>0, <1>1, <2>1, <2>2, <2>3, OthersOwned
<1>4. ASSUME p \in Entries PROVE Owned(p)'
  <2>1. Owned(p) /\ fpc[p] = "append" /\ fpc'[p] = "append" /\ ~finalized[p] /\ ~finalized'[p]
    BY <1>0, <1>4, InCall DEF opVars
  <2>2. /\ ~Told(p) /\ ~Told(p)' /\ ~Appending(p)'
        /\ Awaiting(p)' <=> Awaiting(p)
        /\ Confirming(p)' => Confirming(p)
    BY <1>0, <2>1 DEF Told, Awaiting, Appending, Confirming, AppendPCs
  <2>3. InSeq(p, Line) => Reached(p)'
    <3>1. Covered' = Len(stored) + Len(batch) + Len(queue)
      BY <1>0 DEF Covered
    <3>2. Covered' = Len(Line)
      BY <1>0, <3>1, LineFacts
    <3>3. QED
      BY <1>1, <3>2 DEF InSeq, Reached
  <2>4. QED
    BY <1>0, <1>1, <2>1, <2>2, <2>3 DEF Owned
<1>5. QED
  BY <1>2, <1>3, <1>4

\* Readers and Close have no record of their own.
LEMMA OwnedOthers ==
    ASSUME IInv, TypeOK', UNCHANGED opVars,
           \/ CloseCall \/ CloseStep \/ CloseDirect
           \/ \E r \in Readers : QueryCall(r) \/ ReaderStep(r)
    PROVE  RecordInv' /\ \A o \in Entries : Owned(o)'
<1>1. UNCHANGED <<stored, synced, batch, queue, workerVars>>
  BY DEF CloseCall, CloseStep, CloseLocked, CloseStore, CloseDirect, CloseBackend, QueryCall,
     ReaderStep, FlushDone, QueryRead, storeVars, workerVars
<1>2. RecordInv'
  BY <1>1, QuietRecord DEF opVars
<1>3. ASSUME NEW o \in Entries PROVE Owned(o)'
  <2>0. /\ pc \in [Callers -> CallPCs] /\ then \in [Callers -> {"return", "sync", "query"}]
        /\ ret \in [Callers -> {"none", "ok", "err", "found", "absent"}]
        /\ o \in Callers /\ o \notin Readers
    BY AsyncAssumption DEF IInv, TypeOK, AsyncTypeOK, Callers
  <2>1. pc'[o] = pc[o] /\ then'[o] = then[o] /\ ret'[o] = ret[o]
    <3>1. CASE CloseCall \/ CloseStep \/ CloseDirect
      BY <3>1 DEF CloseCall, CloseStep, CloseLocked, CloseStore, CloseDirect, callVars
    <3>2. ASSUME NEW r \in Readers, QueryCall(r) \/ ReaderStep(r)
          PROVE  pc'[o] = pc[o] /\ then'[o] = then[o] /\ ret'[o] = ret[o]
      BY <2>0, <3>2 DEF QueryCall, ReaderStep, FlushDone, QueryRead, AfterFlush, Goto, Return
    <3>3. QED
      BY <3>1, <3>2
  <2>2. Kept(o)
    BY <2>1 DEF Kept, opVars
  <2>3. QED
    BY <1>1, <2>2, QuietOwned
<1>4. QED
  BY <1>2, <1>3

-----------------------------------------------------------------------------
(* Steps of Finalize.                                                      *)

\* A record that exists has a frozen completion, which Finalize leaves alone.
LEMMA OperationRecord ==
    ASSUME IInv, NEW o \in Entries, UNCHANGED <<stored, synced, batch, queue, workerVars>>,
           prepared' = prepared \/ (prepared[o] = NoBody /\ \E c : prepared' = [prepared EXCEPT ![o] = c])
    PROVE  RecordInv'
<1>0. /\ TypeOK /\ RecordInv /\ prepared \in [Entries -> Bodies \cup {NoBody}]
  BY DEF IInv, TypeOK
<1>1. Dead' = Dead /\ Line' = Line
  BY DEF Dead, Failed, Line, workerVars
<1>2. ASSUME NEW s \in Seq(Records), \A i \in 1..Len(s) : s[i].body = prepared[s[i].id]
      PROVE  \A i \in 1..Len(s) : s[i].body = prepared'[s[i].id]
  <2> TAKE i \in 1..Len(s)
  <2>1. s[i].id \in Entries /\ s[i].body \in Bodies
    <3>1. s[i] \in Records
      BY ElementOfSeq
    <3>2. QED
      BY <3>1 DEF Records
  <2>2. QED
    BY <1>0, <1>2, <2>1, PipelineAssumption
<1>3. Frozen(stored)' /\ Frozen(batch)' /\ Frozen(queue)'
  <2>1. stored \in Seq(Records) /\ batch \in Seq(Records) /\ queue \in Seq(Records)
    BY <1>0, LineFacts
  <2>2. \A s \in Seq(Records) : Frozen(s) => \A i \in 1..Len(s) : s[i].body = prepared'[s[i].id]
    BY <1>2, Zenon DEF Frozen
  <2>3. Frozen(stored) /\ Frozen(batch) /\ Frozen(queue)
    BY <1>0 DEF RecordInv
  <2>4. QED
    BY <2>1, <2>2, <2>3, Zenon DEF Frozen
<1>4. QED
  BY <1>0, <1>1, <1>3 DEF RecordInv

\* The steps of Finalize and recordPrepared preserve ownership.
LEMMA OwnedOperation ==
    ASSUME IInv, TypeOK', NEW o \in Entries,
           OperationStep(o) \/ \E c \in Bodies : FinalizeStart(o, c)
    PROVE  RecordInv' /\ \A x \in Entries : Owned(x)'
<1>0. /\ TypeOK /\ Owned(o) /\ OwnControl(o) /\ o \in Callers /\ Entries \subseteq Callers
      /\ pc \in [Callers -> CallPCs] /\ then \in [Callers -> {"return", "sync", "query"}]
      /\ ret \in [Callers -> {"none", "ok", "err", "found", "absent"}]
      /\ fpc \in [Entries -> {"idle", "attempt", "lookup", "append"}]
      /\ attempted \in [Entries -> BOOLEAN] /\ finalized \in [Entries -> BOOLEAN]
      /\ prepared \in [Entries -> Bodies \cup {NoBody}] /\ Async \in BOOLEAN
  BY OwnedParts, ControlParts, PipelineAssumption DEF IInv, TypeOK, AsyncTypeOK, Callers
<1>1. ASSUME UNCHANGED <<stored, synced, batch, queue, workerVars>>,
             prepared' = prepared
                \/ (prepared[o] = NoBody /\ \E c : prepared' = [prepared EXCEPT ![o] = c]),
             \A x \in Entries \ {o} : Kept(x), Owned(o)'
      PROVE  RecordInv' /\ \A x \in Entries : Owned(x)'
  BY <1>1, OperationRecord, QuietOwned
<1>2. ASSUME UNCHANGED <<stored, synced, batch, queue, workerVars>>
      PROVE  /\ Dead' = Dead /\ (InSeq(o, Line') <=> InSeq(o, Line))
             /\ InSeq(o, stored') <=> InSeq(o, stored)
             /\ OnDisk(o)' <=> OnDisk(o)
  BY <1>2, QuietSame
<1>3. UNCHANGED asyncVars =>
         UNCHANGED <<stored, synced, batch, queue, workerVars, pc, then, ret>>
  BY DEF asyncVars, storeVars, workerVars, callVars
<1>4. ASSUME NEW c \in Bodies, FinalizeStart(o, c)
      PROVE  RecordInv' /\ \A x \in Entries : Owned(x)'
  <2>1. /\ UNCHANGED <<stored, synced, batch, queue, workerVars, pc, then, ret>>
        /\ UNCHANGED <<finalized, attempted>> /\ fpc[o] = "idle" /\ ~finalized[o]
        /\ fpc' = [fpc EXCEPT ![o] = "attempt"]
    BY <1>3, <1>4 DEF FinalizeStart
  <2>2. prepared' = prepared
           \/ (prepared[o] = NoBody /\ \E d : prepared' = [prepared EXCEPT ![o] = d])
    <3>1. CASE prepared[o] = NoBody
      <4>1. prepared' = [prepared EXCEPT ![o] = c]
        BY <1>0, <1>4, <3>1 DEF FinalizeStart
      <4>2. QED
        BY <3>1, <4>1
    <3>2. CASE prepared[o] # NoBody
      <4>1. prepared' = [prepared EXCEPT ![o] = prepared[o]]
        BY <1>4, <3>2 DEF FinalizeStart
      <4>2. QED
        BY <1>0, <4>1
    <3>3. QED
      BY <3>1, <3>2
  <2>3. \A x \in Entries \ {o} : Kept(x)
    BY <1>0, <2>1 DEF Kept
  <2>4. /\ ~Told(o) /\ ~Awaiting(o) /\ ~Told(o)' /\ ~Awaiting(o)' /\ ~Confirming(o)'
        /\ Appending(o)' <=> Appending(o)
    BY <1>0, <2>1 DEF Told, Awaiting, Confirming, Appending
  <2>5. Owned(o)'
    BY <1>0, <1>2, <2>1, <2>4 DEF Owned
  <2>6. QED
    BY <1>1, <2>1, <2>2, <2>3, <2>5
<1>5. ASSUME AttemptOk(o), fpc[o] \in {"lookup", "append"},
             Durable => OnDisk(o), ~Async => InSeq(o, stored)
      PROVE  RecordInv' /\ \A x \in Entries : Owned(x)'
  <2>1. /\ UNCHANGED <<stored, synced, batch, queue, workerVars, pc, then, ret, prepared>>
        /\ fpc' = [fpc EXCEPT ![o] = "idle"] /\ attempted' = [attempted EXCEPT ![o] = TRUE]
        /\ finalized' = [finalized EXCEPT ![o] = TRUE]
    BY <1>3, <1>5 DEF AttemptOk
  <2>2. \A x \in Entries \ {o} : Kept(x)
    BY <1>0, <2>1 DEF Kept
  <2>3. /\ ~Told(o)' /\ ~Awaiting(o)' /\ ~Confirming(o)' /\ ~Appending(o)'
    BY <1>0, <2>1 DEF Told, Awaiting, Confirming, Appending
  <2>4. Owned(o)'
    BY <1>0, <1>2, <1>5, <2>1, <2>3 DEF Owned
  <2>5. QED
    BY <1>1, <2>1, <2>2, <2>4
<1>6. ASSUME AttemptFailed(o), fpc[o] \in {"lookup", "append"}, pc[o] = "idle", ret[o] = "err"
      PROVE  RecordInv' /\ \A x \in Entries : Owned(x)'
  <2>1. /\ UNCHANGED <<stored, synced, batch, queue, workerVars, pc, then, ret, prepared, finalized>>
        /\ attempted' = [attempted EXCEPT ![o] = TRUE]
        /\ \E l \in {"idle", "attempt"} : fpc' = [fpc EXCEPT ![o] = l]
    BY <1>3, <1>6 DEF AttemptFailed
  <2>2. \A x \in Entries \ {o} : Kept(x)
    BY <1>0, <2>1 DEF Kept
  <2>3. /\ ~Told(o)' /\ ~Awaiting(o)' /\ ~Confirming(o)' /\ ~Appending(o)'
        /\ ~Told(o) /\ ~Awaiting(o) /\ ~finalized[o] /\ ~finalized'[o]
    BY <1>0, <1>6, <2>1 DEF Told, Awaiting, Confirming, Appending, Owned
  <2>4. Owned(o)'
    BY <1>0, <1>2, <2>1, <2>3 DEF Owned
  <2>5. QED
    BY <1>1, <2>1, <2>2, <2>4
<1>7. ASSUME NEW l \in {"lookup", "append"}, fpc' = [fpc EXCEPT ![o] = l],
             NEW m \in CallPCs, pc' = [pc EXCEPT ![o] = m], pc[o] = "idle",
             NEW t \in {"return", "sync", "query"}, then' = [then EXCEPT ![o] = t],
             UNCHANGED <<stored, synced, batch, queue, workerVars, ret, prepared, finalized, attempted>>,
             fpc[o] \in {"attempt", "lookup"},
             \/ l = "lookup" /\ m \in {"lwait", "lread"}
             \/ l = "append" /\ m \in AppendPCs /\ Appending(o)
             \/ l = "append" /\ (m \in {"swait", "sync"} \/ (m = "flush" /\ t = "sync"))
                /\ Confirming(o)
      PROVE  RecordInv' /\ \A x \in Entries : Owned(x)'
  <2>1. \A x \in Entries \ {o} : Kept(x)
    BY <1>0, <1>7 DEF Kept
  <2>2. pc'[o] = m /\ fpc'[o] = l /\ then'[o] = t
    BY <1>0, <1>7
  <2>3. /\ ~Told(o)' /\ ~Awaiting(o)' /\ ~Told(o) /\ ~Awaiting(o)
        /\ ~finalized[o] /\ ~finalized'[o]
    BY <1>0, <1>7, <2>2 DEF Told, Awaiting, Owned, AppendPCs
  <2>4. (Appending(o)' => Appending(o)) /\ (Confirming(o)' => Confirming(o))
    <3>1. CASE l = "lookup" /\ m \in {"lwait", "lread"}
      BY <2>2, <3>1 DEF Appending, Confirming
    <3>2. CASE l = "append" /\ m \in AppendPCs /\ Appending(o)
      BY <2>2, <3>2 DEF Confirming, AppendPCs
    <3>3. CASE l = "append" /\ (m \in {"swait", "sync"} \/ (m = "flush" /\ t = "sync"))
               /\ Confirming(o)
      BY <2>2, <3>3 DEF Appending, AppendPCs
    <3>4. QED
      BY <1>7, <3>1, <3>2, <3>3
  <2>5. Owned(o)'
    BY <1>0, <1>2, <1>7, <2>3, <2>4 DEF Owned
  <2>6. QED
    BY <1>1, <1>7, <2>1, <2>5
<1>8. then = [then EXCEPT ![o] = then[o]] /\ then[o] \in {"return", "sync", "query"}
  BY <1>0
<1>9. CASE RecordPrepared(o)
  <2>1. /\ pc[o] = "idle" /\ fpc[o] = "attempt" /\ UNCHANGED <<prepared, finalized, attempted>>
        /\ ~attempted[o] => Appending(o)
    BY <1>0, <1>9 DEF RecordPrepared, OwnControl, Appending
  <2>2. CASE attempted[o]
    BY <1>7, <1>8, <1>9, <2>1, <2>2 DEF RecordPrepared, StoreLookup, LookupCall, Goto, CallPCs,
       workerVars, storeVars
  <2>3. CASE ~attempted[o]
    BY <1>7, <1>8, <1>9, <2>1, <2>3 DEF RecordPrepared, StoreAppend, AppendCall, Goto, CallPCs,
       AppendPCs, workerVars, storeVars
  <2>4. QED
    BY <1>0, <2>2, <2>3
<1>10. CASE RecordAbsent(o)
  <2>1. Appending(o)
    BY <1>10 DEF RecordAbsent, Appending
  <2>2. QED
    BY <1>7, <1>8, <1>10, <2>1 DEF RecordAbsent, StoreAppend, AppendCall, Goto, CallPCs,
       AppendPCs, workerVars, storeVars
<1>11. CASE RecordFound(o)
  <2>1. Confirming(o) /\ InSeq(o, stored) /\ pc[o] = "idle" /\ fpc[o] = "lookup"
    BY <1>0, <1>11 DEF RecordFound, Confirming, Owned
  <2>2. CASE Durable
    BY <1>7, <1>8, <1>11, <2>1, <2>2 DEF RecordFound, StoreSync, SyncCall, Goto, CallPCs,
       workerVars, storeVars
  <2>3. CASE ~Durable
    BY <1>5, <1>11, <2>1, <2>3 DEF RecordFound
  <2>4. QED
    BY <2>2, <2>3
<1>12. CASE RecordReturned(o)
  <2>1. CASE fpc[o] = "append" /\ ret[o] = "ok" /\ AttemptOk(o)
    <3>1. Told(o)
      BY <1>12, <2>1 DEF RecordReturned, Told
    <3>2. QED
      BY <1>0, <1>5, <2>1, <3>1 DEF Owned
  <2>2. CASE fpc[o] \in {"lookup", "append"} /\ ret[o] = "err" /\ AttemptFailed(o)
    BY <1>6, <1>12, <2>2 DEF RecordReturned
  <2>3. QED
    BY <1>12, <2>1, <2>2 DEF RecordReturned
<1>13. QED
  BY <1>4, <1>9, <1>10, <1>11, <1>12 DEF OperationStep

\* Every step.
LEMMA OwnedStep ==
    ASSUME IInv, Next
    PROVE  RecordInv' /\ OwnerInv' /\ FlushInv' /\ AckInv'
<1>0. TypeOK'
  BY TypeStep
<1>1. ASSUME \A o \in Entries : Owned(o)' PROVE OwnerInv' /\ FlushInv' /\ AckInv'
  BY <1>1 DEF OwnerInv, FlushInv, AckInv, Owned, OnDisk, Reached
<1>2. CASE Async /\ AsyncStep /\ UNCHANGED opVars
  BY <1>0, <1>1, <1>2, OwnedCaller, OwnedWorker, FlushSendOwned, OwnedOthers DEF AsyncStep, WriteStep, CallerStep
<1>3. CASE (\E o \in Entries : BackendStep(o)) /\ UNCHANGED opVars
  BY <1>0, <1>1, <1>3, OwnedCaller
<1>4. CASE CloseDirect
  BY <1>0, <1>1, <1>4, OwnedOthers DEF CloseDirect
<1>5. CASE \E o \in Entries : OperationStep(o) \/ \E c \in Bodies : FinalizeStart(o, c)
  BY <1>0, <1>1, <1>5, OwnedOperation
<1>6. QED
  BY <1>2, <1>3, <1>4, <1>5 DEF Next

-----------------------------------------------------------------------------
(* The induction and its theorems.                                         *)

\* Nothing recorded, nobody waiting: the initial state satisfies IInv.
LEMMA InitInv == Init => IInv
<1> SUFFICES ASSUME Init PROVE IInv
  OBVIOUS
<1> USE DEF Init, AsyncInit, StoreInit
<1>1. TypeOK
  <2>1. Len(<<>>) = 0 /\ <<>> \in Seq(Records)
    BY EmptySeq
  <2>2. StoreTypeOK /\ queue \in Seq(Records) /\ batch \in Seq(Records) /\ Len(queue) <= QueueSize
    BY <2>1, AsyncAssumption DEF StoreTypeOK
  <2>3. (CHOOSE b \in Bodies : TRUE) \in Bodies
    BY AsyncAssumption
  <2>4. remaining \in 0..QueueSize
    BY AsyncAssumption
  <2>5. arg \in [Entries -> Bodies]
    <3>1. arg = [e \in Entries |-> CHOOSE b \in Bodies : TRUE]
      OBVIOUS
    <3>2. QED
      BY <2>3, <3>1
  <2>6. /\ pc \in [Callers -> CallPCs]
        /\ then \in [Callers -> {"return", "sync", "query"}]
        /\ ret \in [Callers -> {"none", "ok", "err", "found", "absent"}]
        /\ due \in [Readers -> SUBSET Entries]
    BY DEF CallPCs
  <2>7. AsyncTypeOK
    BY <2>2, <2>4, <2>5, <2>6 DEF AsyncTypeOK, WorkerPCs
  <2>8. attempt \in [Entries -> 1..Attempts]
    BY DEF Attempts
  <2>9. QED
    BY <2>7, <2>8 DEF TypeOK
<1>2. WorkerInv /\ LockInv
  BY DEF WorkerInv, Serving, LockInv, CloseExcludesWriters, Callers
<1>3. ControlInv
  BY AsyncAssumption, PipelineAssumption DEF ControlInv, Callers, AppendPCs
<1>4. Line = <<>> /\ Len(<<>>) = 0
  <2>1. <<>> \in Seq(Records) /\ Len(<<>>) = 0
    BY EmptySeq
  <2>2. <<>> \o <<>> = <<>>
    BY <2>1, ConcatEmptySeq
  <2>3. QED
    BY <2>1, <2>2 DEF Line
<1>5. RecordInv
  BY <1>4 DEF RecordInv, Distinct, Frozen
<1>6. ASSUME NEW o \in Entries PROVE Owned(o)
  <2>1. ~Told(o) /\ ~Awaiting(o) /\ ~Confirming(o) /\ ~InSeq(o, stored) /\ ~InSeq(o, Line)
    BY <1>4 DEF Told, Awaiting, Confirming, InSeq
  <2>2. QED
    BY <2>1 DEF Owned
<1>7. QED
  BY <1>1, <1>2, <1>3, <1>5, <1>6, OwnedParts DEF IInv

\* Every step of the pipeline preserves the inductive invariant.
LEMMA NextInv == IInv /\ [Next]_vars => IInv'
<1> SUFFICES ASSUME IInv, [Next]_vars PROVE IInv'
  OBVIOUS
<1>1. CASE Next
  BY <1>1, TypeStep, WorkerInvStep, ControlStep, OwnedStep DEF IInv
<1>2. CASE UNCHANGED vars
  <2>1. UNCHANGED <<asyncVars, opVars>>
    BY <1>2 DEF vars
  <2> USE <2>1 DEF asyncVars, storeVars, workerVars, closeVars, callVars, opVars
  <2>2. TypeOK'
    BY DEF IInv, TypeOK, AsyncTypeOK, StoreTypeOK
  <2>3. WorkerInv' /\ LockInv'
    BY DEF IInv, WorkerInv, Serving, LockInv, CloseExcludesWriters, Holding
  <2>4. ControlInv'
    BY DEF IInv, ControlInv
  <2>5. RecordInv'
    BY QuietRecord
  <2>6. ASSUME NEW o \in Entries PROVE Owned(o)'
    BY <2>2, QuietOwned DEF Kept
  <2>7. OwnerInv' /\ FlushInv' /\ AckInv'
    BY <2>6 DEF OwnerInv, FlushInv, AckInv, Owned, OnDisk, Reached
  <2>8. QED
    BY <2>2, <2>3, <2>4, <2>5, <2>7 DEF IInv
<1>3. QED
  BY <1>1, <1>2

\* The strengthening of the safety properties is an invariant of the pipeline:
\* Operation.Finalize over AsyncStore or the backend, with any failures.
THEOREM InductiveInvariant == SafetySpec => []IInv
<1>1. Init => IInv
  BY InitInv
<1>2. IInv /\ [Next]_vars => IInv'
  BY NextInv
<1>3. QED
  BY <1>1, <1>2, PTL DEF SafetySpec

\* Every variable of the pipeline keeps its type; the entries channel never
\* holds more than its capacity.
THEOREM TypeCorrect == SafetySpec => []TypeOK
<1>1. IInv => TypeOK
  BY DEF IInv
<1>2. QED
  BY <1>1, InductiveInvariant, PTL

\* However appends fail, are retried, bypass the stopped worker or race with
\* Close, no operation has two records: Finalize looks its identity up before
\* it appends again, and what a failed worker still holds is never written.
THEOREM OneRecord == SafetySpec => []AtMostOneRecord
<1>1. IInv => AtMostOneRecord
  BY DEF IInv, RecordInv, Distinct, AtMostOneRecord
<1>2. QED
  BY <1>1, InductiveInvariant, PTL

\* With audit.durability = "sync", Finalize returns nil only for a record on
\* disk with the completion that invocation was given, with or without the
\* asynchronous queue.
THEOREM DurableFinalize == SafetySpec => []FinalizedIsDurable
<1>1. IInv => FinalizedIsDurable
  <2> SUFFICES ASSUME IInv, Durable, NEW o \in Entries, finalized[o]
               PROVE  \E i \in 1..synced : stored[i] = [id |-> o, body |-> want[o]]
    BY DEF FinalizedIsDurable
  <2>1. PICK i \in 1..synced : stored[i].id = o
    BY DEF IInv, AckInv
  <2>2. i \in 1..Len(stored) /\ stored[i] \in Records
    BY LineFacts, ElementOfSeq DEF IInv
  <2>3. stored[i].body = want[o]
    BY <2>1, <2>2 DEF IInv, RecordInv, Frozen, ControlInv
  <2>4. QED
    BY <2>1, <2>2, <2>3 DEF Records
<1>2. QED
  BY <1>1, InductiveInvariant, PTL

\* Without the queue Finalize returns nil only for a record the backend holds.
THEOREM StoredFinalize == SafetySpec => []FinalizedIsStored
<1>1. IInv => FinalizedIsStored
  <2> SUFFICES ASSUME IInv, ~Async, NEW o \in Entries, finalized[o]
               PROVE  \E i \in 1..Len(stored) : stored[i] = [id |-> o, body |-> want[o]]
    BY DEF FinalizedIsStored
  <2>1. PICK i \in 1..Len(stored) : stored[i].id = o
    BY DEF IInv, AckInv, InSeq
  <2>2. stored[i] \in Records
    BY LineFacts, ElementOfSeq DEF IInv
  <2>3. stored[i].body = want[o]
    BY <2>1, <2>2 DEF IInv, RecordInv, Frozen, ControlInv
  <2>4. QED
    BY <2>1, <2>2, <2>3 DEF Records
<1>2. QED
  BY <1>1, InductiveInvariant, PTL

\* The closeMu protocol: when the entries channel is closed nobody is about to
\* send on it, and nobody writes past the worker to a closing backend.
THEOREM CloseIsExclusive == SafetySpec => []CloseExcludesWriters
<1>1. IInv => CloseExcludesWriters
  BY DEF IInv, LockInv
<1>2. QED
  BY <1>1, InductiveInvariant, PTL

-----------------------------------------------------------------------------
(* The durable pipeline implements AuditLedger, step by step under the     *)
(* mapping of AuditPipeline.  First: the backend only grows.               *)

\* A batch that was written, in full or in part, is behind what was there.
LEMMA AppendGrows ==
    ASSUME TypeOK, NEW b \in Seq(Records), AppendBatchOk(b) \/ AppendBatchFailed(b)
    PROVE  StoreGrows
<1>1. stored \in Seq(Records) /\ Len(stored) \in Nat /\ synced \in 0..Len(stored) /\ Len(b) \in Nat
  BY LenProperties DEF TypeOK, AsyncTypeOK, StoreTypeOK
<1>2. CASE AppendBatchOk(b)
  BY <1>1, <1>2, ConcatElements DEF AppendBatchOk, StoreGrows
<1>3. CASE AppendBatchFailed(b)
  <2>1. PICK k \in 0..Len(b) : stored' = stored \o SubSeq(b, 1, k) /\ synced' = synced
    BY <1>3 DEF AppendBatchFailed
  <2>2. SubSeq(b, 1, k) \in Seq(Records)
    BY <1>1, SubSeqProperties
  <2>3. QED
    BY <1>1, <2>1, <2>2, ConcatElements DEF StoreGrows
<1>4. QED
  BY <1>2, <1>3

LEMMA SameGrows ==
    ASSUME TypeOK, UNCHANGED <<stored, synced>>
    PROVE  StoreGrows
BY LenProperties DEF StoreGrows, TypeOK, AsyncTypeOK, StoreTypeOK

\* No step of a caller takes a record out of the backend.
LEMMA CallerGrows ==
    ASSUME TypeOK, NEW p \in Callers, BackendStep(p) \/ CallerStep(p)
    PROVE  p \in Entries => StoreGrows
<1> SUFFICES ASSUME p \in Entries PROVE StoreGrows
  OBVIOUS
<1>1. CASE DirectAppend(p)
  <2>1. <<[id |-> p, body |-> arg[p]]>> \in Seq(Records)
    <3>1. [id |-> p, body |-> arg[p]] \in Records
      BY DEF TypeOK, AsyncTypeOK, Records
    <3>2. QED
      BY <3>1
  <2>2. QED
    BY <1>1, <2>1, AppendGrows DEF DirectAppend
<1>2. CASE SyncBackend(p)
  <2>1. stored' = stored /\ synced' \in {synced, Len(stored)}
    BY <1>2 DEF SyncBackend, SyncOk, storeVars
  <2>2. QED
    BY <2>1, LenProperties DEF StoreGrows, TypeOK, AsyncTypeOK, StoreTypeOK
<1>3. CASE \/ AppendCheckErr(p) \/ AppendRLock(p) \/ AppendSend(p) \/ AppendBlocked(p)
           \/ FlushDone(p) \/ DirectLock(p) \/ LookupWait(p) \/ LookupRead(p) \/ SyncWait(p)
  <2>1. UNCHANGED <<stored, synced>>
    BY <1>3 DEF AppendCheckErr, AppendRLock, AppendSend, AppendBlocked, FlushDone, DirectLock,
                LookupWait, LookupRead, SyncWait, storeVars
  <2>2. QED
    BY <2>1, SameGrows
<1>4. QED
  BY <1>1, <1>2, <1>3 DEF BackendStep, CallerStep, AppendStep, RetryStep

\* Nor does the worker, Close, a reader or Finalize itself.
LEMMA BackendGrows ==
    ASSUME TypeOK, [Next]_vars
    PROVE  StoreGrows
<1>1. CASE \E e \in Entries : BackendStep(e) \/ CallerStep(e)
  BY <1>1, CallerGrows DEF Callers
<1>2. CASE WriteBatch
  <2>1. UNCHANGED <<stored, synced>> \/ AppendBatchOk(batch) \/ AppendBatchFailed(batch)
    BY <1>2 DEF WriteBatch, storeVars
  <2>2. QED
    BY <2>1, AppendGrows, SameGrows DEF TypeOK, AsyncTypeOK
<1>3. CASE \/ WorkerReceive \/ WorkerClosed \/ WorkerTick \/ DrainReceive \/ DrainEnd
           \/ WorkerSetErr \/ WorkerReply \/ WorkerExit
           \/ CloseCall \/ CloseStep \/ CloseDirect
           \/ \E p \in Callers : FlushSend(p)
           \/ \E r \in Readers : QueryCall(r) \/ ReaderStep(r)
  <2>1. UNCHANGED <<stored, synced>>
    BY <1>3 DEF WorkerReceive, WorkerClosed, WorkerTick, DrainReceive, DrainEnd, WorkerSetErr,
                WorkerReply, WorkerExit, CloseCall, CloseStep, CloseLocked, CloseStore, CloseDirect,
                CloseBackend, FlushSend, QueryCall, ReaderStep, FlushDone, QueryRead, storeVars
  <2>2. QED
    BY <2>1, SameGrows
<1>4. CASE \E o \in Entries : OperationStep(o) \/ \E c \in Bodies : FinalizeStart(o, c)
  <2>1. UNCHANGED <<stored, synced>>
    BY <1>4 DEF OperationStep, RecordPrepared, RecordFound, RecordAbsent, RecordReturned, AttemptOk,
                AttemptFailed, FinalizeStart, StoreAppend, StoreLookup, StoreSync, AppendCall,
                LookupCall, SyncCall, asyncVars, storeVars
  <2>2. QED
    BY <2>1, SameGrows
<1>5. CASE UNCHANGED vars
  BY <1>5, SameGrows DEF vars, asyncVars, storeVars
<1>6. QED
  BY <1>1, <1>2, <1>3, <1>4, <1>5 DEF Next, AsyncStep, WriteStep, WorkerStep, CallerStep

-----------------------------------------------------------------------------
(* The mapping.                                                            *)

\* DiskRecord shows what an operation has on disk.
Mapped(o) ==
    /\ \A i \in 1..synced : stored[i].id = o => DiskRecord(o) = stored[i].body
    /\ ~OnDisk(o) => DiskRecord(o) = NoBody
    /\ OnDisk(o) => DiskRecord(o) \in Bodies

AllMapped == \A o \in Entries : Mapped(o)

\* With one record per operation, the choice in DiskRecord is no choice.
LEMMA DiskRecordIs == IInv => AllMapped
<1> SUFFICES ASSUME IInv, NEW o \in Entries PROVE Mapped(o)
  BY DEF AllMapped
<1>1. /\ Distinct(stored) /\ stored \in Seq(Records)
      /\ Len(stored) \in Nat /\ synced \in 0..Len(stored)
  BY LenProperties DEF IInv, RecordInv, TypeOK, AsyncTypeOK, StoreTypeOK
<1>2. \A i \in 1..synced : i \in 1..Len(stored)
  BY <1>1
<1>3. ASSUME NEW i \in 1..synced, stored[i].id = o
      PROVE  DiskRecord(o) = stored[i].body /\ stored[i].body \in Bodies
  <2> DEFINE k == CHOOSE j \in 1..synced : stored[j].id = o
  <2>1. k \in 1..synced /\ stored[k].id = o
    BY <1>3
  <2>2. k = i
    BY <1>1, <1>2, <1>3, <2>1 DEF Distinct
  <2>3. DiskRecord(o) = stored[k].body
    BY <1>3 DEF DiskRecord
  <2>4. stored[i] \in Records
    BY <1>1, <1>2, ElementOfSeq
  <2>5. QED
    BY <2>2, <2>3, <2>4 DEF Records
<1>4. QED
  BY <1>3 DEF Mapped, OnDisk, DiskRecord

\* So it does in the next state.
LEMMA DiskRecordIsNext == IInv' => AllMapped'
BY DiskRecordIs, PTL

\* A record on disk stays what it is.
LEMMA DiskRecordStays ==
    ASSUME IInv, IInv', StoreGrows, NEW o \in Entries, DiskRecord(o) # NoBody
    PROVE  DiskRecord(o)' = DiskRecord(o)
<1>1. PICK i \in 1..synced : stored[i].id = o
  BY DiskRecordIs DEF AllMapped, Mapped, OnDisk
<1>2. /\ synced \in 0..Len(stored) /\ Len(stored) \in Nat
      /\ synced' \in 0..Len(stored') /\ Len(stored') \in Nat
  BY LenProperties DEF IInv, TypeOK, AsyncTypeOK, StoreTypeOK
<1>3. i \in 1..synced' /\ stored'[i] = stored[i]
  BY <1>2 DEF StoreGrows
<1>4. DiskRecord(o) = stored[i].body
  BY <1>1, DiskRecordIs DEF AllMapped, Mapped
<1>5. DiskRecord(o)' = stored'[i].body
  <2>1. \A j \in 1..synced' : stored'[j].id = o => DiskRecord(o)' = stored'[j].body
    BY DiskRecordIsNext DEF AllMapped, Mapped
  <2>2. QED
    BY <1>1, <1>3, <2>1
<1>6. QED
  BY <1>3, <1>4, <1>5

-----------------------------------------------------------------------------
(* The refinement.                                                         *)

\* Only an attempt that succeeded finalizes its operation.
LEMMA OnlyAttemptOk ==
    ASSUME [Next]_vars
    PROVE  finalized' = finalized \/ \E o \in Entries : AttemptOk(o)
<1>1. CASE UNCHANGED opVars
  BY <1>1 DEF opVars
<1>2. ASSUME NEW o \in Entries, OperationStep(o) \/ \E c \in Bodies : FinalizeStart(o, c)
      PROVE  finalized' = finalized \/ AttemptOk(o)
  BY <1>2 DEF OperationStep, RecordPrepared, RecordFound, RecordAbsent, RecordReturned,
              AttemptFailed, FinalizeStart
<1>3. QED
  BY <1>1, <1>2 DEF Next, CloseDirect, vars

\* Nothing is on disk, nothing is acknowledged.
LEMMA LedgerStart ==
    ASSUME Init
    PROVE  Ledger!LedgerInit
<1>1. synced = 0 /\ finalized = [o \in Entries |-> FALSE]
  BY DEF Init, AsyncInit, StoreInit
<1>2. ASSUME NEW o \in Entries PROVE DiskRecord(o) = NoBody
  <2>1. ~\E i \in 1..synced : stored[i].id = o
    BY <1>1
  <2>2. QED
    BY <2>1 DEF DiskRecord
<1>3. QED
  BY <1>1, <1>2 DEF Ledger!LedgerInit

\* Every step of the pipeline is a step of the ledger: several records may
\* reach the disk in it, or one operation is acknowledged.
LEMMA LedgerStep ==
    ASSUME Durable, IInv, IInv', [Next]_vars
    PROVE  [Ledger!LedgerNext]_(Ledger!ledgerVars)
<1>1. StoreGrows
  BY BackendGrows DEF IInv
<1>2. \A o \in Entries : DiskRecord(o) # NoBody => DiskRecord(o)' = DiskRecord(o)
  BY <1>1, DiskRecordStays
<1>3. \A o \in Entries : DiskRecord(o)' \in Bodies \cup {NoBody}
  BY DiskRecordIsNext DEF AllMapped, Mapped
<1>4. CASE finalized' = finalized
  <2>1. {o \in Entries : finalized[o]}' = {o \in Entries : finalized[o]}
    BY <1>4
  <2>2. Ledger!Persist
    BY <1>2, <1>3, <2>1 DEF Ledger!Persist
  <2>3. QED
    BY <2>2 DEF Ledger!LedgerNext
<1>5. ASSUME NEW o \in Entries, AttemptOk(o)
      PROVE  Ledger!Acknowledge(o)
  <2>1. finalized' = [finalized EXCEPT ![o] = TRUE] /\ UNCHANGED <<stored, synced>>
    BY <1>5 DEF AttemptOk, asyncVars, storeVars
  <2>2. finalized \in [Entries -> BOOLEAN]
    BY DEF IInv, TypeOK
  <2>3. OnDisk(o)
    <3>1. finalized'[o] /\ (OnDisk(o)' <=> OnDisk(o))
      BY <2>1, <2>2 DEF OnDisk
    <3>2. OnDisk(o)'
      BY <3>1 DEF IInv, AckInv, OnDisk
    <3>3. QED
      BY <3>1, <3>2
  <2>4. DiskRecord(o) # NoBody
    BY <2>3, DiskRecordIs, PipelineAssumption DEF AllMapped, Mapped
  <2>5. {e \in Entries : finalized[e]}' = {e \in Entries : finalized[e]} \cup {o}
    BY <2>1, <2>2
  <2>6. \A e \in Entries : DiskRecord(e)' = DiskRecord(e)
    BY <2>1 DEF DiskRecord
  <2>7. QED
    BY <2>4, <2>5, <2>6 DEF Ledger!Acknowledge
<1>6. QED
  BY <1>4, <1>5, OnlyAttemptOk DEF Ledger!LedgerNext

\* With audit.durability = "sync" the pipeline implements AuditLedger, over the
\* queue and over the backend alone: no failed batch, retry, direct append or
\* Close replaces a record on disk, or acknowledges an operation without one.
THEOREM LedgerImplemented == ASSUME Durable PROVE SafetySpec => ImplementsLedger
<1>1. Init => Ledger!LedgerInit
  BY LedgerStart
<1>2. IInv /\ IInv' /\ [Next]_vars => [Ledger!LedgerNext]_(Ledger!ledgerVars)
  BY LedgerStep
<1>3. QED
  BY <1>1, <1>2, InductiveInvariant, PTL DEF SafetySpec, ImplementsLedger, Ledger!LedgerSpec
=============================================================================
