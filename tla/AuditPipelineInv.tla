-------------------------- MODULE AuditPipelineInv --------------------------
(***************************************************************************)
(* The inductive invariant behind AtMostOneRecord and FinalizedIsDurable.  *)
(* TLC checks it on the small instances, AuditPipelineProofs proves it.    *)
(*                                                                         *)
(* The argument.  While the worker is healthy, backend, batch and queue    *)
(* read in that order form one line that only grows at the end, and whoever*)
(* is in the line is waiting for its acknowledgement or has it.  Once a    *)
(* write failed nothing of the batch or the queue is ever written: only an *)
(* owner whose record the backend does not hold appends, directly.         *)
(***************************************************************************)
EXTENDS AuditPipeline

\* Nothing is written through the queue any more, or there is no queue.
Dead == Failed \/ ~Async

Distinct(s) == \A i, j \in 1..Len(s) : s[i].id = s[j].id => i = j

\* The records of s say what their operations froze.
Frozen(s) == \A i \in 1..Len(s) : s[i].body = prepared[s[i].id]

\* The part of the line that the flush being served will have written.
Covered ==
    Len(stored) + Len(batch) +
       (IF wpc = "drain" \/ (wpc = "write" /\ wnext = "drain")
        THEN remaining ELSE 0)

LockInv ==
    /\ CloseExcludesWriters
    /\ ~Async => ~closed

\* Which calls a Finalize at fpc may be inside of.
AppendPCs == {"append", "rlock", "send", "blocked", "waitdone", "direct"}
ControlInv ==
    /\ \A r \in Readers :
          /\ pc[r] \in {"idle", "flush", "reply", "query"}
          /\ pc[r] \in {"flush", "reply"} => then[r] = "query"
    /\ \A o \in Entries :
          /\ want[o] = prepared[o]
          /\ fpc[o] # "idle" => prepared[o] \in Bodies
          /\ fpc[o] \in {"lookup", "append"} => arg[o] = prepared[o]
          /\ fpc[o] \in {"idle", "attempt"} => pc[o] = "idle"
          /\ fpc[o] = "lookup" => pc[o] \in {"idle", "lwait", "lread"}
          /\ pc[o] \in {"flush", "reply"} => then[o] \in {"return", "sync"}
          /\ pc[o] \in AppendPCs \ {"direct"} => then[o] = "return"
          /\ pc[o] \in {"waitdone", "direct"} => err \/ ~Async
          /\ pc[o] \in {"lwait", "lread"} => fpc[o] = "lookup"

\* The operation was told that its record is stored.
Told(o) == fpc[o] = "append" /\ pc[o] = "idle" /\ ret[o] = "ok"
\* Its append is queued and its flush not yet answered.
Awaiting(o) == fpc[o] = "append" /\ pc[o] \in {"flush", "reply"} /\ then[o] = "return"
\* It looks for, or is about to write, a record that is not there.
Appending(o) ==
    \/ fpc[o] = "append" /\ pc[o] \in AppendPCs
    \/ fpc[o] = "lookup" /\ pc[o] = "idle" /\ ret[o] = "absent"
    \/ fpc[o] \in {"idle", "attempt"} /\ ~attempted[o]
\* It found its record and is confirming it.
Confirming(o) ==
    \/ fpc[o] = "append" /\ pc[o] \in {"swait", "sync"}
    \/ fpc[o] = "append" /\ pc[o] \in {"flush", "reply"} /\ then[o] = "sync"
    \/ fpc[o] = "lookup" /\ pc[o] = "idle" /\ ret[o] = "found"

RecordInv ==
    /\ Distinct(stored)
    /\ ~Dead => Distinct(Line)
    /\ Frozen(stored) /\ Frozen(batch) /\ Frozen(queue)
    /\ Durable /\ ~Dead => synced = Len(stored)

OwnerInv ==
    \A o \in Entries :
       /\ ~Dead /\ InSeq(o, Line) => finalized[o] \/ Told(o) \/ Awaiting(o)
       /\ Appending(o) => ~InSeq(o, stored)
       /\ Confirming(o) => InSeq(o, stored)
       /\ finalized[o] => fpc[o] = "idle" /\ attempted[o]

FlushInv ==
    \A o \in Entries : Durable /\ ~Dead /\ Awaiting(o) =>
       /\ InSeq(o, Line)
       /\ pc[o] = "reply" => \E i \in 1..Covered : Line[i].id = o

AckInv ==
    \A o \in Entries : finalized[o] \/ Told(o) =>
       /\ Durable => \E i \in 1..synced : stored[i].id = o
       /\ ~Async => InSeq(o, stored)

IInv ==
    /\ TypeOK
    /\ WorkerInv /\ LockInv /\ ControlInv
    /\ RecordInv /\ OwnerInv /\ FlushInv /\ AckInv
=============================================================================
