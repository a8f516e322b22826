----------------------------- MODULE AsyncStore -----------------------------
(***************************************************************************)
(* The asynchronous store wrapper (internal/audit/storage/async.go and the *)
(* AsyncStore methods of durable.go): callers append through a bounded     *)
(* channel, one worker goroutine batches and writes, a failed write stops  *)
(* the worker and leaves a sticky error, Close drains and stops it.        *)
(*                                                                         *)
(* Every entry of Entries is appended by the goroutine that owns it, so an *)
(* entry names both a record identity and a caller.  Readers are the       *)
(* callers of Query and Stats, which start with a Flush.                   *)
(***************************************************************************)
EXTENDS AuditStore

CONSTANTS Readers,     \* goroutines calling Query and Stats
          QueueSize,   \* capacity of the entries channel
          BatchSize,   \* entries written per batch
          NoCaller     \* no flush request is being served

Callers == Entries \cup Readers

ASSUME AsyncAssumption ==
    /\ QueueSize \in Nat \ {0}
    /\ BatchSize \in Nat \ {0}
    /\ Entries \cap Readers = {}
    /\ NoCaller \notin Callers
    /\ Bodies # {}

VARIABLES
    queue,      \* the buffered entries channel
    batch,      \* the worker's batch
    wpc,        \* where the worker is
    wnext,      \* where it goes once the batch is written
    remaining,  \* loop counter of drainAndFlush
    client,     \* the caller whose flush request the worker serves
    err,        \* the sticky worker error is set
    closed,     \* AsyncStore.closed; the entries channel is closed with it
    cpc,        \* where Close is
    closeRet,   \* what Close returned
    pc,         \* where each caller is inside its call
    then,       \* what a caller does after a successful Flush
    arg,        \* the record body a caller appends
    ret,        \* what its last call returned
    due         \* history: entries acknowledged when a reader began to flush

workerVars == <<batch, wpc, wnext, remaining, client, err>>
closeVars  == <<closed, cpc, closeRet>>
callVars   == <<pc, then, arg, ret, due>>
asyncVars  == <<storeVars, queue, workerVars, closeVars, callVars>>

WorkerPCs == {"select", "drain", "write", "fail", "reply", "exit", "done"}
CallPCs == {"idle", "append", "rlock", "send", "blocked", "flush", "reply",
            "waitdone", "direct", "lwait", "lread", "swait", "sync", "query"}

\* close(done) has happened.
WorkerDone == wpc = "done"
\* These callers hold closeMu for reading.
Holding(p) == pc[p] \in {"send", "blocked", "direct"}
Acked == {e \in Entries : ret[e] = "ok"}

AsyncTypeOK ==
    /\ StoreTypeOK
    /\ queue \in Seq(Records) /\ Len(queue) <= QueueSize
    /\ batch \in Seq(Records)
    /\ wpc \in WorkerPCs
    /\ wnext \in {"select", "drain", "reply", "exit"}
    /\ remaining \in 0..QueueSize
    /\ client \in Callers \cup {NoCaller}
    /\ err \in BOOLEAN
    /\ closed \in BOOLEAN
    /\ cpc \in {"idle", "lock", "wait", "closed"}
    /\ closeRet \in {"none", "ok", "err"}
    /\ pc \in [Callers -> CallPCs]
    /\ then \in [Callers -> {"return", "sync", "query"}]
    /\ arg \in [Entries -> Bodies]
    /\ ret \in [Callers -> {"none", "ok", "err", "found", "absent"}]
    /\ due \in [Readers -> SUBSET Entries]

AsyncInit ==
    /\ StoreInit
    /\ queue = <<>> /\ batch = <<>>
    /\ wpc = "select" /\ wnext = "select"
    /\ remaining = 0 /\ client = NoCaller
    /\ err = FALSE
    /\ closed = FALSE /\ cpc = "idle" /\ closeRet = "none"
    /\ pc = [p \in Callers |-> "idle"]
    /\ then = [p \in Callers |-> "return"]
    /\ arg = [e \in Entries |-> CHOOSE b \in Bodies : TRUE]
    /\ ret = [p \in Callers |-> "none"]
    /\ due = [r \in Readers |-> {}]

-----------------------------------------------------------------------------
(* Steps of a caller.                                                      *)

Goto(p, l) == pc' = [pc EXCEPT ![p] = l] /\ UNCHANGED ret
Return(p, r) ==
    /\ pc' = [pc EXCEPT ![p] = "idle"]
    /\ ret' = [ret EXCEPT ![p] = r]
\* A call that returned an error, or nil, as the Boolean says.
ErrIf(failed) == IF failed THEN "err" ELSE "ok"

\* Append, or AppendDurable when durable batching is on: the sticky error
\* sends AppendDurable past the stopped worker, straight to the backend.
AppendCall(e, b) ==
    /\ pc[e] = "idle"
    /\ Goto(e, IF Durable /\ err THEN "waitdone" ELSE "append")
    /\ arg' = [arg EXCEPT ![e] = b]
    /\ then' = [then EXCEPT ![e] = "return"]
    /\ UNCHANGED <<storeVars, queue, workerVars, closeVars, due>>

\* Append returns the sticky error before it takes the lock.
AppendCheckErr(e) ==
    /\ pc[e] = "append"
    /\ IF err THEN Return(e, "err") ELSE Goto(e, "rlock")
    /\ UNCHANGED <<storeVars, queue, workerVars, closeVars, then, arg, due>>

\* closeMu.RLock waits while Close waits for the write lock.
AppendRLock(e) ==
    /\ pc[e] = "rlock"
    /\ cpc # "lock"
    /\ IF closed \/ WorkerDone THEN Return(e, "err") ELSE Goto(e, "send")
    /\ UNCHANGED <<storeVars, queue, workerVars, closeVars, then, arg, due>>
\* The channel took the entry; AppendDurable goes on to Flush.
Enqueue(e) ==
    /\ Len(queue) < QueueSize
    /\ queue' = Append(queue, [id |-> e, body |-> arg[e]])
    /\ IF Durable THEN Goto(e, "flush") ELSE Return(e, "ok")

\* The select with a default: send, or fall through to the blocking select.
AppendSend(e) ==
    /\ pc[e] = "send"
    /\ \/ Enqueue(e)
       \/ /\ Len(queue) = QueueSize
          /\ Goto(e, "blocked")
          /\ UNCHANGED queue
    /\ UNCHANGED <<storeVars, workerVars, closeVars, then, arg, due>>
\* Mutant: a blocked append does not watch done.
AppendBlockedForever(e) ==
    /\ pc[e] = "blocked"
    /\ Enqueue(e)
    /\ UNCHANGED <<storeVars, workerVars, closeVars, then, arg, due>>

\* Backpressure: wait for room, or for the worker to stop.
AppendBlocked(e) ==
    /\ pc[e] = "blocked"
    /\ \/ Enqueue(e)
       \/ /\ WorkerDone
          /\ Return(e, "err")
          /\ UNCHANGED queue
    /\ UNCHANGED <<storeVars, workerVars, closeVars, then, arg, due>>

\* Query and Stats start with Flush.
QueryCall(r) ==
    /\ pc[r] = "idle"
    /\ Goto(r, "flush")
    /\ then' = [then EXCEPT ![r] = "query"]
    /\ due' = [due EXCEPT ![r] = Acked]
    /\ UNCHANGED <<storeVars, queue, workerVars, closeVars, arg>>

\* Where a caller goes when its Flush returned, with an error if failed.
AfterFlush(p, failed) ==
    IF failed \/ then[p] = "return"
    THEN Return(p, ErrIf(failed))
    ELSE Goto(p, then[p])
\* Mutant: the worker writes its batch and leaves the queue alone.
FlushSendNoSnapshot(p) ==
    /\ pc[p] = "flush"
    /\ wpc = "select"
    /\ Goto(p, "reply")
    /\ client' = p
    /\ wpc' = "drain"
    /\ remaining' = 0
    /\ UNCHANGED <<storeVars, queue, batch, wnext, err, closeVars, then, arg, due>>

\* Flush meets the worker in its select; the worker snapshots the queue length.
FlushSend(p) ==
    /\ pc[p] = "flush"
    /\ wpc = "select"
    /\ Goto(p, "reply")
    /\ client' = p
    /\ wpc' = "drain"
    /\ remaining' = Len(queue)
    /\ UNCHANGED <<storeVars, queue, batch, wnext, err, closeVars, then, arg, due>>

\* Flush finds the worker stopped and returns its sticky error, if any.
FlushDone(p) ==
    /\ pc[p] = "flush"
    /\ WorkerDone
    /\ AfterFlush(p, err)
    /\ UNCHANGED <<storeVars, queue, workerVars, closeVars, then, arg, due>>

\* Query and Stats read the backend.
QueryRead(r) ==
    /\ pc[r] = "query"
    /\ \/ open /\ Return(r, "ok")
       \/ Return(r, "err")
    /\ UNCHANGED <<storeVars, queue, workerVars, closeVars, then, arg, due>>

\* AppendDurable after a worker error: <-done, then RLock and the closed check.
DirectLock(e) ==
    /\ pc[e] = "waitdone"
    /\ WorkerDone
    /\ cpc # "lock"
    /\ IF closed THEN Return(e, "err") ELSE Goto(e, "direct")
    /\ UNCHANGED <<storeVars, queue, workerVars, closeVars, then, arg, due>>

\* The backend's own AppendDurable, still under the read lock.
DirectAppend(e) ==
    /\ pc[e] = "direct"
    /\ LET b == <<[id |-> e, body |-> arg[e]]>>
       IN \/ AppendBatchOk(b) /\ Return(e, "ok")
          \/ AppendBatchFailed(b) /\ Return(e, "err")
    /\ UNCHANGED <<queue, workerVars, closeVars, then, arg, due>>

\* LookupEntry waits for a failed worker before it reads; it never flushes.
LookupCall(e, b) ==
    /\ pc[e] = "idle"
    /\ Goto(e, IF err THEN "lwait" ELSE "lread")
    /\ arg' = [arg EXCEPT ![e] = b]
    /\ UNCHANGED <<storeVars, queue, workerVars, closeVars, then, due>>

LookupWait(e) ==
    /\ pc[e] = "lwait"
    /\ WorkerDone
    /\ Goto(e, "lread")
    /\ UNCHANGED <<storeVars, queue, workerVars, closeVars, then, arg, due>>

\* The lookup itself, with the comparison recordPrepared makes; a conflicting
\* or duplicated identity is an error, and so is any failed read.
LookupRead(e) ==
    /\ pc[e] = "lread"
    /\ \/ LookupFound([id |-> e, body |-> arg[e]]) /\ Return(e, "found")
       \/ LookupAbsent(e) /\ Return(e, "absent")
       \/ Return(e, "err")
    /\ UNCHANGED <<storeVars, queue, workerVars, closeVars, then, arg, due>>

\* Sync waits for a stopped worker, or flushes through a live one.
SyncCall(e) ==
    /\ pc[e] = "idle"
    /\ Goto(e, IF err THEN "swait" ELSE "flush")
    /\ then' = [then EXCEPT ![e] = "sync"]
    /\ UNCHANGED <<storeVars, queue, workerVars, closeVars, arg, due>>

SyncWait(e) ==
    /\ pc[e] = "swait"
    /\ WorkerDone
    /\ Goto(e, "sync")
    /\ UNCHANGED <<storeVars, queue, workerVars, closeVars, then, arg, due>>
SyncBackend(e) ==
    /\ pc[e] = "sync"
    /\ \/ SyncOk /\ Return(e, "ok")
       \/ UNCHANGED storeVars /\ Return(e, "err")
    /\ UNCHANGED <<queue, workerVars, closeVars, then, arg, due>>

-----------------------------------------------------------------------------
(* Steps of the worker goroutine (run, drainAndFlush, writeBatch).         *)
\* Mutant: the newest entry goes to the front of the batch.
ReceiveReversed(loop) ==
    /\ queue # <<>>
    /\ queue' = Tail(queue)
    /\ batch' = <<Head(queue)>> \o batch
    /\ IF Len(batch) + 1 >= BatchSize
       THEN wpc' = "write" /\ wnext' = loop
       ELSE UNCHANGED <<wpc, wnext>>

\* Take the head of the channel into the batch; a full batch is written next,
\* and the worker then resumes the loop it was in.
Receive(loop) ==
    /\ queue # <<>>
    /\ queue' = Tail(queue)
    /\ batch' = Append(batch, Head(queue))
    /\ IF Len(batch) + 1 >= BatchSize
       THEN wpc' = "write" /\ wnext' = loop
       ELSE UNCHANGED <<wpc, wnext>>

WorkerReceive ==
    /\ wpc = "select"
    /\ Receive("select")
    /\ UNCHANGED <<storeVars, remaining, client, err, closeVars, callVars>>
\* Mutant: the worker returns without writing its last batch.
WorkerClosedDrops ==
    /\ wpc = "select"
    /\ closed /\ queue = <<>>
    /\ wpc' = "exit"
    /\ UNCHANGED <<storeVars, queue, batch, wnext, remaining, client, err, closeVars, callVars>>

\* The closed channel is drained: write what is left and return.
WorkerClosed ==
    /\ wpc = "select"
    /\ closed /\ queue = <<>>
    /\ wpc' = "write" /\ wnext' = "exit"
    /\ UNCHANGED <<storeVars, queue, batch, remaining, client, err, closeVars, callVars>>

\* The flush ticker; with an empty batch it does nothing.
WorkerTick ==
    /\ wpc = "select"
    /\ batch # <<>>
    /\ wpc' = "write" /\ wnext' = "select"
    /\ UNCHANGED <<storeVars, queue, batch, remaining, client, err, closeVars, callVars>>

DrainReceive ==
    /\ wpc = "drain"
    /\ remaining > 0
    /\ Receive("drain")
    /\ remaining' = remaining - 1
    /\ UNCHANGED <<storeVars, client, err, closeVars, callVars>>
\* Mutant: the reply is sent before the final writeBatch.
DrainEndEarly ==
    /\ wpc = "drain"
    /\ remaining = 0 \/ queue = <<>>
    /\ wpc' = "reply" /\ wnext' = "reply"
    /\ UNCHANGED <<storeVars, queue, batch, remaining, client, err, closeVars, callVars>>

\* The snapshot is exhausted, or the channel ran empty: final writeBatch.
DrainEnd ==
    /\ wpc = "drain"
    /\ remaining = 0 \/ queue = <<>>
    /\ wpc' = "write" /\ wnext' = "reply"
    /\ UNCHANGED <<storeVars, queue, batch, remaining, client, err, closeVars, callVars>>

\* writeBatch: nothing to do for an empty batch; an error keeps the batch.
WriteBatch ==
    /\ wpc = "write"
    /\ \/ /\ batch = <<>>
          /\ wpc' = wnext
          /\ UNCHANGED <<storeVars, batch>>
       \/ /\ batch # <<>>
          /\ AppendBatchOk(batch)
          /\ batch' = <<>>
          /\ wpc' = wnext
       \/ /\ batch # <<>>
          /\ AppendBatchFailed(batch)
          /\ wpc' = "fail"
          /\ UNCHANGED batch
    /\ UNCHANGED <<queue, wnext, remaining, client, err, closeVars, callVars>>

\* setErr makes the error sticky; a flush still gets its reply.
WorkerSetErr ==
    /\ wpc = "fail"
    /\ err' = TRUE
    /\ wpc' = IF wnext \in {"drain", "reply"} THEN "reply" ELSE "exit"
    /\ UNCHANGED <<storeVars, queue, batch, wnext, remaining, client, closeVars, callVars>>

\* reply <- err; the worker stops if the flush failed.
WorkerReply ==
    /\ wpc = "reply"
    /\ AfterFlush(client, err)
    /\ client' = NoCaller
    /\ wpc' = IF err THEN "exit" ELSE "select"
    /\ UNCHANGED <<storeVars, queue, batch, wnext, remaining, err, closeVars, then, arg, due>>

\* The deferred close(done).
WorkerExit ==
    /\ wpc = "exit"
    /\ wpc' = "done"
    /\ UNCHANGED <<storeVars, queue, batch, wnext, remaining, client, err, closeVars, callVars>>

-----------------------------------------------------------------------------
(* Close.                                                                  *)

CloseCall ==
    /\ cpc = "idle"
    /\ cpc' = "lock"
    /\ UNCHANGED <<storeVars, queue, workerVars, closed, closeRet, callVars>>
\* Mutant: Close does not wait for the readers of closeMu.
CloseUnlocked ==
    /\ cpc = "lock"
    /\ closed' = TRUE
    /\ cpc' = "wait"
    /\ UNCHANGED <<storeVars, queue, workerVars, closeRet, callVars>>

\* closeMu.Lock is granted once no reader holds it; the channel is closed.
CloseLocked ==
    /\ cpc = "lock"
    /\ \A p \in Callers : ~Holding(p)
    /\ closed' = TRUE
    /\ cpc' = "wait"
    /\ UNCHANGED <<storeVars, queue, workerVars, closeRet, callVars>>

\* <-done, then the backend is closed and both errors are joined.
CloseStore ==
    /\ cpc = "wait"
    /\ WorkerDone
    /\ CloseBackend
    /\ cpc' = "closed"
    /\ \E failed \in BOOLEAN : closeRet' = ErrIf(err \/ failed)
    /\ UNCHANGED <<queue, workerVars, closed, callVars>>

-----------------------------------------------------------------------------

WorkerStep ==
    \/ WorkerReceive \/ WorkerClosed \/ WorkerTick
    \/ DrainReceive \/ DrainEnd
    \/ WriteBatch \/ WorkerSetErr \/ WorkerReply \/ WorkerExit

CloseStep == CloseLocked \/ CloseStore

\* A caller inside Append or AppendDurable, or in the flush they end with.
AppendStep(p) ==
    \/ AppendCheckErr(p) \/ AppendRLock(p) \/ AppendSend(p) \/ AppendBlocked(p)
    \/ FlushDone(p)

\* A caller that goes past the queue: AppendDurable after the worker failed, and
\* LookupEntry and Sync, which only a retry calls.
RetryStep(p) ==
    \/ DirectLock(p) \/ DirectAppend(p)
    \/ LookupWait(p) \/ LookupRead(p)
    \/ SyncWait(p) \/ SyncBackend(p)

CallerStep(p) == AppendStep(p) \/ RetryStep(p)

ReaderStep(r) == FlushDone(r) \/ QueryRead(r)

\* The worker, Close, the readers, and the appends that have begun.
WriteStep ==
    \/ WorkerStep
    \/ CloseCall \/ CloseStep
    \/ \E p \in Callers : FlushSend(p)
    \/ \E e \in Entries : AppendStep(e)
    \/ \E r \in Readers : QueryCall(r) \/ ReaderStep(r)

\* Every step but the beginning of an append, a lookup or a sync.
AsyncStep == WriteStep \/ \E e \in Entries : RetryStep(e)

\* The wrapper on its own, with buffered appends: every entry is appended once.
\* Durable appends and their retries come with the pipeline (AuditPipeline).
AsyncNext ==
    \/ WriteStep
    \/ \E e \in Entries, b \in Bodies : ret[e] = "none" /\ AppendCall(e, b)

\* The callers that ever flush: readers, and appenders when appends are durable.
Flushers == IF Durable THEN Callers ELSE Readers

\* Scheduling: the goroutines keep running and backend calls return.  Go picks
\* among the ready cases of the worker's select at random, so a case that is
\* ready again and again is taken: strong fairness for the channel, for its
\* closing and for every sender on the unbuffered flushRequests channel.
AsyncFairness ==
    /\ WF_asyncVars(WorkerStep)
    /\ SF_asyncVars(WorkerReceive)
    /\ SF_asyncVars(WorkerClosed)
    /\ WF_asyncVars(CloseStep)
    /\ \A e \in Entries : WF_asyncVars(CallerStep(e))
    /\ \A r \in Readers : WF_asyncVars(ReaderStep(r))
    /\ \A p \in Flushers : SF_asyncVars(FlushSend(p))

AsyncSafetySpec == AsyncInit /\ [][AsyncNext]_asyncVars

AsyncSpec == AsyncSafetySpec /\ AsyncFairness

-----------------------------------------------------------------------------
(* Properties.                                                             *)

SeqExt == INSTANCE SequencesExt

\* The records on their way, oldest first.
Line == stored \o batch \o queue

\* A write failed: what is still in the batch or the queue is never written.
Failed == wpc = "fail" \/ err

\* Close excludes writers (the closeMu protocol of Append, AppendDurable and
\* Close): once the entries channel is closed no caller is about to send on
\* it, which would panic, and no caller that bypasses the stopped worker
\* writes to a backend that Close may be closing.
CloseExcludesWriters ==
    closed => \A e \in Entries : ~Holding(e)

\* Evidence is not discarded silently: when the worker has stopped without a
\* sticky error, every append that returned nil is in the backend; so it is
\* when Close returned nil.
NoSilentLoss ==
    (WorkerDone /\ ~err) \/ closeRet = "ok"
       => \A e \in Acked : InSeq(e, stored)

\* Flush "persists all entries queued before the flush completes": when the
\* Flush of a Query or Stats has returned nil, every append acknowledged
\* before that call began is in the backend it is about to read.
FlushCoversAcked ==
    \A r \in Readers : pc[r] = "query" => \A e \in due[r] : InSeq(e, stored)

\* Until a write fails no step of any goroutine drops, duplicates or reorders
\* what was accepted: backend, batch and queue, read in that order, only grow
\* at the end.
PipelineOrder ==
    [][~Failed' => SeqExt!IsPrefix(Line, Line')]_asyncVars

\* No goroutine waits forever: appends blocked on a full queue, Close waiting for
\* the lock such an append holds, and the flush of every Query and Stats return,
\* whatever the worker does meanwhile.
CallsReturn ==
    /\ <>[](/\ \A e \in Entries : pc[e] = "idle"
            /\ cpc \in {"idle", "closed"})
    /\ \A r \in Readers : []<>(pc[r] = "idle")

-----------------------------------------------------------------------------
(* The inductive invariant behind NoSilentLoss and FlushCoversAcked.       *)

\* The worker owes its client a reply.
Serving ==
    \/ wpc \in {"drain", "reply"}
    \/ wpc \in {"write", "fail"} /\ wnext \in {"drain", "reply"}

\* Where the worker is says whom it serves, and what is left in batch and queue.
WorkerInv ==
    /\ err => wpc \in {"reply", "exit", "done"}
    /\ Serving => client \in Callers /\ pc[client] = "reply"
    /\ \A p \in Callers : pc[p] = "reply" => Serving /\ client = p
    /\ wpc = "drain" \/ (wpc = "write" /\ wnext = "drain") => remaining <= Len(queue)
    /\ wpc = "reply" /\ ~err => batch = <<>>
    /\ wpc = "write" /\ wnext = "exit" => closed /\ queue = <<>>
    /\ wpc \in {"exit", "done"} /\ ~err => closed /\ queue = <<>> /\ batch = <<>>

\* The append has put its record into the channel.
Queued(e) == ret[e] = "ok" \/ pc[e] \in {"flush", "reply"}

\* Until a write fails, what was queued is in the channel, the batch or the
\* backend; an append that returned is over.
QueuedInv ==
    \A e \in Entries :
       /\ Queued(e) /\ ~Failed => InSeq(e, stored) \/ InSeq(e, batch) \/ InSeq(e, queue)
       /\ ret[e] # "none" => pc[e] = "idle"

\* The flush that the worker serves has written, or is going to write, what was
\* acknowledged when its reader called.
CoverInv ==
    \A r \in Readers :
       /\ due[r] \subseteq Acked
       /\ pc[r] = "query" => \A e \in due[r] : InSeq(e, stored)
       /\ Serving /\ client = r /\ ~Failed => \A e \in due[r] :
             \/ InSeq(e, stored) \/ InSeq(e, batch)
             \/ /\ wpc = "drain" \/ (wpc = "write" /\ wnext = "drain")
                /\ \E i \in 1..remaining : queue[i].id = e

\* Close excludes writers, the worker owes at most the one client that waits for
\* it, and what an append or a flush counts on is on its way until a write fails.
AsyncInv ==
    /\ AsyncTypeOK
    /\ WorkerInv /\ CloseExcludesWriters
    /\ QueuedInv /\ CoverInv
    /\ closeRet = "ok" => WorkerDone /\ ~err
=============================================================================
