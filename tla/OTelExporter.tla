---------------------------- MODULE OTelExporter ----------------------------
(***************************************************************************)
(* The OTLP exporter (internal/otel/exporter.go): callers put audit        *)
(* entries into a bounded channel, one worker sends them in batches with   *)
(* retries, and Close waits for the worker until its deadline.             *)
(***************************************************************************)
EXTENDS Retry, Sequences, SequencesExt, FiniteSets

CONSTANTS
    Entries,       \* audit entries of tools/call
    QueueSize, BatchSize, MaxRetries,
    Responses      \* status codes of the collector

ASSUME ExporterAssumption ==
    /\ QueueSize \in Nat \ {0} /\ BatchSize \in Nat \ {0} /\ MaxRetries \in Nat

VARIABLES
    entries,    \* the channel
    closed,     \* closed flag and closed channel, set together under closeMu
    exporting,  \* callers that hold closeMu and are about to send
    wpc,        \* where the worker is
    batch,
    attempt,
    accepted,   \* history: entries the channel took
    exported,   \* entries counted as exported
    dropped,    \* entries counted as dropped, with the reason
    received    \* history: entries the collector took

exporterVars == <<entries, closed, exporting, wpc, batch, attempt, accepted, exported, dropped, received>>
workerVars == <<wpc, batch, attempt, exported, received>>

ExporterInit ==
    /\ entries = <<>> /\ batch = <<>>
    /\ closed = FALSE
    /\ exporting = {}
    /\ wpc = "select"
    /\ attempt = 0
    /\ accepted = {} /\ exported = {} /\ dropped = {} /\ received = {}

\* ExportAuditEntry takes closeMu and finds the exporter open.
ExportLock(e) ==
    /\ ~closed
    /\ exporting' = exporting \cup {e}
    /\ UNCHANGED <<entries, closed, workerVars, accepted, dropped>>

\* It is closed: the entry is refused.
ExportRefused(e) ==
    /\ closed
    /\ UNCHANGED exporterVars

\* The send does not wait; what does not fit is counted.
ExportSend(e) ==
    /\ e \in exporting
    /\ exporting' = exporting \ {e}
    /\ IF Len(entries) < QueueSize
       THEN /\ entries' = Append(entries, e)
            /\ accepted' = accepted \cup {e}
            /\ UNCHANGED dropped
       ELSE /\ dropped' = dropped \cup {<<e, "queue_full">>}
            /\ UNCHANGED <<entries, accepted>>
    /\ UNCHANGED <<closed, workerVars>>

\* Close: once, with closeMu held for writing.
CloseChannel ==
    /\ ~closed
    /\ exporting = {}
    /\ closed' = TRUE
    /\ UNCHANGED <<entries, exporting, workerVars, accepted, dropped>>

RunReceive ==
    /\ wpc = "select"
    /\ entries # <<>>
    /\ entries' = Tail(entries)
    /\ batch' = Append(batch, Head(entries))
    /\ wpc' = IF Len(batch') >= BatchSize THEN "encode" ELSE "select"
    /\ UNCHANGED <<closed, exporting, attempt, accepted, exported, dropped, received>>

RunTick ==
    /\ wpc = "select"
    /\ batch # <<>>
    /\ wpc' = "encode"
    /\ UNCHANGED <<entries, closed, exporting, batch, attempt, accepted, exported, dropped, received>>

\* Mutant: the worker leaves without a last flush.
RunClosedAtOnce ==
    /\ wpc = "select"
    /\ closed /\ entries = <<>>
    /\ wpc' = "done"
    /\ batch' = <<>>
    /\ UNCHANGED <<entries, closed, exporting, attempt, accepted, exported, dropped, received>>

\* The channel is closed and empty: a last flush, then the worker returns.
RunClosed ==
    /\ wpc = "select"
    /\ closed /\ entries = <<>>
    /\ wpc' = IF batch = <<>> THEN "done" ELSE "encode"
    /\ UNCHANGED <<entries, closed, exporting, batch, attempt, accepted, exported, dropped, received>>

\* flush ends and the batch is reused.
FlushEnds ==
    /\ batch' = <<>>
    /\ wpc' = "select"
    /\ attempt' = 0

\* requestBody: one span that cannot be made costs the whole batch.
FlushEncode ==
    /\ wpc = "encode"
    /\ \/ wpc' = "post" /\ UNCHANGED <<batch, attempt, dropped>>
       \/ /\ dropped' = dropped \cup (ToSet(batch) \X {"encode_error"})
          /\ FlushEnds
    /\ UNCHANGED <<entries, closed, exporting, accepted, exported, received>>

\* A rejected batch is dropped when the error is permanent or the attempts are
\* used up, and posted again after a pause otherwise.
PostFailed(status, err) ==
    LET p == [statuses |-> {s \in Responses : ShouldRetry(s)}]
        label == IF IsRetryable(p, status, err) THEN "error" ELSE "permanent_error"
    IN  IF ~IsRetryable(p, status, err) \/ attempt = MaxRetries
        THEN /\ dropped' = dropped \cup (ToSet(batch) \X {label})
             /\ FlushEnds
        ELSE /\ wpc' = "sleep"
             /\ attempt' = attempt + 1
             /\ UNCHANGED <<batch, dropped>>

\* One POST.  When it fails the collector may have the batch all the same.
ExportPayload ==
    /\ wpc = "post"
    /\ \/ /\ exported' = exported \cup ToSet(batch)
          /\ received' = received \cup ToSet(batch)
          /\ FlushEnds
          /\ UNCHANGED dropped
       \/ /\ \E status \in Responses : PostFailed(status, FALSE)
          /\ UNCHANGED <<exported, received>>
       \/ /\ PostFailed(0, TRUE)
          /\ received' \in {received, received \cup ToSet(batch)}
          /\ UNCHANGED exported
    /\ UNCHANGED <<entries, closed, exporting, accepted>>

SleepEnds ==
    /\ wpc = "sleep"
    /\ wpc' = "post"
    /\ UNCHANGED <<entries, closed, exporting, batch, attempt, accepted, exported, dropped, received>>

WorkerStep == RunReceive \/ RunTick \/ RunClosed \/ FlushEncode \/ ExportPayload \/ SleepEnds

-----------------------------------------------------------------------------
(* Properties *)

ExporterTypeOK ==
    /\ entries \in Seq(Entries) /\ Len(entries) <= QueueSize
    /\ batch \in Seq(Entries) /\ Len(batch) <= BatchSize
    /\ closed \in BOOLEAN
    /\ exporting \subseteq Entries /\ accepted \subseteq Entries
    /\ exported \subseteq Entries /\ received \subseteq Entries
    /\ dropped \subseteq Entries \X {"queue_full", "encode_error", "error", "permanent_error"}
    /\ wpc \in {"select", "encode", "post", "sleep", "done"}
    /\ attempt \in 0..MaxRetries
    /\ wpc = "select" => Len(batch) < BatchSize

\* Entries counted as dropped.
Lost == {d[1] : d \in dropped}

\* The counters account for every entry: one that was offered is in the channel,
\* in the worker's batch, exported or dropped, and in only one place; when the
\* worker is done nothing is left.  What counts as exported reached the collector.
SpansAccounted ==
    /\ accepted = ToSet(entries) \cup ToSet(batch) \cup exported
                  \cup {e \in Lost : <<e, "queue_full">> \notin dropped}
    /\ IsInjective(entries) /\ IsInjective(batch)
    /\ ToSet(entries) \cap ToSet(batch) = {}
    /\ exported \cap (ToSet(entries) \cup ToSet(batch)) = {}
    /\ Lost \cap (ToSet(entries) \cup ToSet(batch) \cup exported) = {}
    /\ \A d, x \in dropped : d[1] = x[1] => d = x
    /\ wpc = "done" => entries = <<>> /\ batch = <<>>
    /\ exported \subseteq received

\* No caller is about to send when the channel is closed: it would panic.
NoSendOnClosed == closed => exporting = {}
=============================================================================
