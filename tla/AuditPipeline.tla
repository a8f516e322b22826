--------------------------- MODULE AuditPipeline ----------------------------
(***************************************************************************)
(* Operation.Finalize (internal/audit/operation.go) and recordPrepared     *)
(* (internal/audit/logger.go) over the store that openStore composed: the  *)
(* asynchronous wrapper, or the backend itself.  An operation              *)
(* freezes one prepared record, tries to persist it up to Attempts times   *)
(* per Finalize, and resolves an uncertain append by looking its identity  *)
(* up before it appends again.                                             *)
(*                                                                         *)
(* Operations are the Entries of AsyncStore: each has one record identity. *)
(* Operation.mu is held for the whole of Finalize, so two invocations on   *)
(* one operation follow each other; different operations interleave.       *)
(***************************************************************************)
EXTENDS AsyncStore

CONSTANTS NoBody,  \* nothing prepared yet
          Async    \* TRUE when audit.async is enabled

ASSUME PipelineAssumption ==
    /\ NoBody \notin Bodies
    /\ Async \in BOOLEAN

Attempts == 3

VARIABLES
    prepared,    \* Operation.prepared: the frozen record
    finalized,   \* Operation.finalized
    attempted,   \* Operation.attempted
    fpc,         \* where Finalize is
    attempt,     \* its loop counter
    want         \* the completion the running Finalize was given

opVars == <<prepared, finalized, attempted, fpc, attempt, want>>
vars == <<asyncVars, opVars>>

TypeOK ==
    /\ AsyncTypeOK
    /\ prepared \in [Entries -> Bodies \cup {NoBody}]
    /\ finalized \in [Entries -> BOOLEAN]
    /\ attempted \in [Entries -> BOOLEAN]
    /\ fpc \in [Entries -> {"idle", "attempt", "lookup", "append"}]
    /\ attempt \in [Entries -> 1..Attempts]
    /\ want \in [Entries -> Bodies \cup {NoBody}]

Init ==
    /\ AsyncInit
    /\ prepared = [o \in Entries |-> NoBody]
    /\ finalized = [o \in Entries |-> FALSE]
    /\ attempted = [o \in Entries |-> FALSE]
    /\ fpc = [o \in Entries |-> "idle"]
    /\ attempt = [o \in Entries |-> 1]
    /\ want = [o \in Entries |-> NoBody]

\* Freeze the completion on the first call, insist on it on a later one.  A
\* Finalize that returns before any attempt changes nothing: the operation is
\* finalized, another completion is frozen, or signing the record failed.
FinalizeStart(o, c) ==
    /\ fpc[o] = "idle"
    /\ ~finalized[o]
    /\ prepared[o] \in {NoBody, c}
    /\ prepared' = [prepared EXCEPT ![o] = IF @ = NoBody THEN c ELSE @]
    /\ want' = [want EXCEPT ![o] = c]
    /\ fpc' = [fpc EXCEPT ![o] = "attempt"]
    /\ attempt' = [attempt EXCEPT ![o] = 1]
    /\ UNCHANGED <<asyncVars, finalized, attempted>>

\* openStore: with audit.async the logger calls the AsyncStore, without it the
\* backend, whose calls are then one step each.
StoreAppend(o, b) ==
    IF Async
    THEN AppendCall(o, b)
    ELSE /\ pc[o] = "idle"
         /\ Goto(o, "direct")
         /\ arg' = [arg EXCEPT ![o] = b]
         /\ UNCHANGED <<storeVars, queue, workerVars, closeVars, then, due>>

StoreLookup(o, b) ==
    IF Async
    THEN LookupCall(o, b)
    ELSE /\ pc[o] = "idle"
         /\ Goto(o, "lread")
         /\ arg' = [arg EXCEPT ![o] = b]
         /\ UNCHANGED <<storeVars, queue, workerVars, closeVars, then, due>>

StoreSync(o) ==
    IF Async
    THEN SyncCall(o)
    ELSE /\ pc[o] = "idle"
         /\ Goto(o, "sync")
         /\ UNCHANGED <<storeVars, queue, workerVars, closeVars, then, arg, due>>

\* Without the wrapper Close goes to the backend and waits for nobody.
CloseDirect ==
    /\ ~Async
    /\ cpc = "idle"
    /\ CloseBackend
    /\ cpc' = "closed"
    /\ \E failed \in BOOLEAN : closeRet' = ErrIf(failed)
    /\ UNCHANGED <<queue, workerVars, closed, callVars, opVars>>

BackendStep(o) == DirectAppend(o) \/ LookupRead(o) \/ SyncBackend(o)
\* Mutant: a retry appends without a lookup.
RecordPreparedBlind(o) ==
    /\ fpc[o] = "attempt"
    /\ StoreAppend(o, prepared[o])
    /\ fpc' = [fpc EXCEPT ![o] = "append"]
    /\ UNCHANGED <<prepared, finalized, attempted, attempt, want>>

\* recordPrepared: the first attempt appends, a retry looks the record up.
RecordPrepared(o) ==
    /\ fpc[o] = "attempt"
    /\ IF attempted[o]
       THEN /\ StoreLookup(o, prepared[o])
            /\ fpc' = [fpc EXCEPT ![o] = "lookup"]
       ELSE /\ StoreAppend(o, prepared[o])
            /\ fpc' = [fpc EXCEPT ![o] = "append"]
    /\ UNCHANGED <<prepared, finalized, attempted, attempt, want>>

AttemptOk(o) ==
    /\ attempted' = [attempted EXCEPT ![o] = TRUE]
    /\ finalized' = [finalized EXCEPT ![o] = TRUE]
    /\ fpc' = [fpc EXCEPT ![o] = "idle"]
    /\ UNCHANGED <<asyncVars, prepared, attempt, want>>
\* Mutant: the last failed attempt finalizes the operation.
AttemptFailedFinalizes(o) ==
    /\ attempted' = [attempted EXCEPT ![o] = TRUE]
    /\ IF attempt[o] < Attempts
       THEN /\ fpc' = [fpc EXCEPT ![o] = "attempt"]
            /\ attempt' = [attempt EXCEPT ![o] = @ + 1]
            /\ UNCHANGED finalized
       ELSE /\ fpc' = [fpc EXCEPT ![o] = "idle"]
            /\ finalized' = [finalized EXCEPT ![o] = TRUE]
            /\ UNCHANGED attempt
    /\ UNCHANGED <<asyncVars, prepared, want>>

\* Mutant: the attempts are not counted.
AttemptFailedForever(o) ==
    /\ attempted' = [attempted EXCEPT ![o] = TRUE]
    /\ fpc' = [fpc EXCEPT ![o] = "attempt"]
    /\ UNCHANGED <<asyncVars, prepared, finalized, attempt, want>>

AttemptFailed(o) ==
    /\ attempted' = [attempted EXCEPT ![o] = TRUE]
    /\ IF attempt[o] < Attempts
       THEN /\ fpc' = [fpc EXCEPT ![o] = "attempt"]
            /\ attempt' = [attempt EXCEPT ![o] = @ + 1]
       ELSE /\ fpc' = [fpc EXCEPT ![o] = "idle"]
            /\ UNCHANGED attempt
    /\ UNCHANGED <<asyncVars, prepared, finalized, want>>
\* Mutant: a record that was found is not confirmed on disk.
RecordFoundUnconfirmed(o) ==
    /\ fpc[o] = "lookup" /\ pc[o] = "idle" /\ ret[o] = "found"
    /\ AttemptOk(o)

\* The lookup found the record: confirm it on disk, or accept it as it is.
RecordFound(o) ==
    /\ fpc[o] = "lookup" /\ pc[o] = "idle" /\ ret[o] = "found"
    /\ IF Durable
       THEN /\ StoreSync(o)
            /\ fpc' = [fpc EXCEPT ![o] = "append"]
            /\ UNCHANGED <<prepared, finalized, attempted, attempt, want>>
       ELSE AttemptOk(o)

\* The lookup did not find it: append again.
RecordAbsent(o) ==
    /\ fpc[o] = "lookup" /\ pc[o] = "idle" /\ ret[o] = "absent"
    /\ StoreAppend(o, prepared[o])
    /\ fpc' = [fpc EXCEPT ![o] = "append"]
    /\ UNCHANGED <<prepared, finalized, attempted, attempt, want>>

RecordReturned(o) ==
    /\ pc[o] = "idle"
    /\ \/ fpc[o] = "append" /\ ret[o] = "ok" /\ AttemptOk(o)
       \/ fpc[o] \in {"lookup", "append"} /\ ret[o] = "err" /\ AttemptFailed(o)

OperationStep(o) ==
    RecordPrepared(o) \/ RecordFound(o) \/ RecordAbsent(o) \/ RecordReturned(o)

Next ==
    \/ Async /\ AsyncStep /\ UNCHANGED opVars
    \/ ~Async /\ (\E o \in Entries : BackendStep(o)) /\ UNCHANGED opVars
    \/ CloseDirect
    \/ \E o \in Entries :
          \/ \E c \in Bodies : FinalizeStart(o, c)
          \/ OperationStep(o)

SafetySpec == Init /\ [][Next]_vars

Fairness ==
    /\ AsyncFairness
    /\ \A o \in Entries : WF_vars(OperationStep(o))

Spec == SafetySpec /\ Fairness

-----------------------------------------------------------------------------
(* Properties.                                                             *)

\* The finalizer "guarantees at most one terminal entry" per operation
\* (ARCHITECTURE.md): no identity is stored twice, whatever fails, is retried
\* or is closed meanwhile.
AtMostOneRecord ==
    \A i, j \in 1..Len(stored) : stored[i].id = stored[j].id => i = j

\* With durability on, Finalize returns nil only for a record that is on disk
\* and says what that invocation of Finalize was told.
FinalizedIsDurable ==
    Durable => \A o \in Entries : finalized[o] =>
        \E i \in 1..synced : stored[i] = [id |-> o, body |-> want[o]]

\* Without the queue Finalize returns nil only for a record the backend holds,
\* even when an earlier attempt left it there and returned an error.
FinalizedIsStored ==
    ~Async => \A o \in Entries : finalized[o] =>
        \E i \in 1..Len(stored) : stored[i] = [id |-> o, body |-> want[o]]

\* Every Finalize returns, after at most Attempts tries.
FinalizeReturns == \A o \in Entries : fpc[o] # "idle" ~> fpc[o] = "idle"

\* What an operation has on disk.
DiskRecord(o) ==
    IF \E i \in 1..synced : stored[i].id = o
    THEN stored[CHOOSE i \in 1..synced : stored[i].id = o].body
    ELSE NoBody

Ledger == INSTANCE AuditLedger
    WITH Ops <- Entries, Outcomes <- Bodies, None <- NoBody,
         ledger <- [o \in Entries |-> DiskRecord(o)],
         acked <- {o \in Entries : finalized[o]}

\* Through worker failures, retries, direct appends and Close, the durable
\* pipeline implements the ledger: a record on disk is never replaced, and an
\* operation is acknowledged only when its record is there.
ImplementsLedger == Ledger!LedgerSpec
=============================================================================
