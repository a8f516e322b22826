# A verification project for mcp-audit

`mcp-audit` is a proxy that sits between an MCP client and an MCP server and
keeps evidence: one terminal audit record for each operation it accepts. This
directory holds TLA+ modules that model the parts that carry that promise,
TLC configurations that check them on small instances, and TLAPS proofs of the
most important properties for every value of the parameters.

## 1. Inventory

| Part | State | Operations | Hard behaviour |
|---|---|---|---|
| Operation finalizer, `internal/audit/operation.go` | prepared record, frozen completion, attempted, finalized | `NewOperation`, `Finalize` | retry of an append whose outcome is unknown; competing terminal events |
| Logger, `internal/audit/logger.go` | none | `recordPrepared`, `Record`, `Query`, `Stats` | lookup before a repeated append |
| Asynchronous store, `storage/async.go`, `durable.go` | queue, worker batch, sticky error, `closed`, `done` | `Append`, `AppendDurable`, `Flush`, `LookupEntry`, `Sync`, `Query`, `Close`, the worker | five kinds of callers, one worker, two locks, a full queue, failure of the worker while callers wait |
| JSONL backend, `storage/jsonl.go`, `durable.go` | active file, buffered writer with a sticky error, archives, rotation cutoff | `appendBatch`, `rotate`, `applyRetention`, `Query`, `LookupEntry`, `Sync`, `Close`, reopen | torn lines, failed rollback, failed rename, directory durability, names made from a clock and a Stat that may fail, crash |
| SQLite backend, `storage/sqlite.go` | one table, a pool of connections, one mutex | migration, `AppendBatch`, `LookupEntry`, `Query`, `Close` | uncertain commit, failed rollback, times compared as text |
| Stdio proxy, `proxy/stdio.go` | two maps of pending calls | `Run`, two pipes, cleanup ticker | response, TTL, broken pipe and shutdown race for one call |
| HTTP proxy, `proxy/http.go`, `retry/retry.go` | pending calls of one request, the server's life | `ServeHTTP`, upstream retries, plain and event-stream responses, `ListenAndServe` | retries of unsafe requests, batches denied half way, streams that end early, Retry-After overflow, shutdown under handlers |
| Policy and limiter, `policy/policy.go`, `middleware/ratelimit.go` | rules; one bucket per client and tool | `Evaluate`, `Allow` | order of rules; concurrent handlers on one bucket |
| OTLP exporter, `otel/exporter.go` | queue, batch, `closed` | `ExportAuditEntry`, worker, `Close` | bounded queue, export racing with Close, retries of a batch |
| Dashboard, `dashboard/server.go` | failures per principal | authentication, entries, statistics | fixed windows, eviction at the limit, queries next to a failing writer |
| Integrity and verification, `audit/integrity`, `audit/verify`, `cmd/mcp-audit/verify.go` | the artifact and the checkpoint file | sign, `verify`, `checkpoint` | artifact that grows while it is read, edited evidence, killed checkpoint writers, two writers of one output |
| Composition root, `cmd/mcp-audit/main.go`, `config` | configuration, open components | load, validate, start, shut down | `os.Exit` skipping deferred closes, servers that fail in the background |
| Auth, MCP inspection, metrics, HTTP client | none | parse, check, count | none that a model would add to |

A proxy accepts a message, creates an operation, asks the policy and the
limiter, remembers the call under its JSON-RPC id, forwards the message, and
finalizes the operation when a response, a timeout, a failure or the shutdown
reaches it. Finalize hands the signed record to the store that `openStore`
composed: the asynchronous wrapper around a backend, or the backend itself. A
record that was stored is offered to the exporter. `main` opens all of this,
waits for the proxy and closes it in the reverse order; the two evidence
commands read the artifact from other processes.

What makes each part correct:

* finalizer and stores: one record per operation whatever fails; an
  acknowledgement that can be trusted; nothing accepted is dropped silently;
  every call returns;
* JSONL: what a durable append acknowledged survives a crash; repeated appends
  never duplicate a retained record; rotation loses and reorders nothing beyond the
  cases section 3 names;
* SQLite: no connection goes back to the pool inside a transaction; queries
  select the same entries as those of JSONL;
* proxies: each accepted operation gets exactly one terminal outcome, a success
  only if its answer reached the client; nothing denied is forwarded; a request
  with effects is carried out at most once;
* exporter: every entry offered is exported, counted as dropped or still queued;
  Close neither blocks for ever nor makes a sender panic;
* composition root: nothing starts unsigned or anonymous against its
  configuration; what was acknowledged outlives the process; a signal ends it;
* dashboard: password guesses are bounded; answers show committed rows;
* evidence commands: `verify` accepts only what the proxy signed, and complains
  only about what is wrong.

## 2. Modules

| Module | Models | State and actions |
|---|---|---|
| `AuditStore` | what a backend promises | `stored`, `synced`, `open`; a batch is one step, an error may leave any prefix |
| `AsyncStore` (extends `AuditStore`) | `async.go` and the async half of `durable.go` | one program counter per caller and for the worker and `Close`; each lock, channel operation and backend call is a step |
| `AuditPipeline` (extends `AsyncStore`) | `Finalize`, `recordPrepared` | `prepared`, `finalized`, `attempted`, the attempt loop; with `Async = FALSE` it calls the backend directly |
| `AuditLedger` | the abstract promise | `ledger`, `acked` |
| `AuditPipelineInv` | | the inductive invariant `IInv` of the pipeline |
| `JSONLStore` | `jsonl.go` and the JSONL half of `durable.go` | inodes with the contents a crash may leave, the directory and the directories a crash may expose, the file handle, the writer's error, the wall clock; what retention or an overwriting rotation took (`gone`) |
| `SQLiteStore` | `sqlite.go` | committed rows, the schema, each connection with its transaction, where `AppendBatch` is; failures of each statement, commit and rollback |
| `Dashboard` (extends `SQLiteStore`) | `dashboard/server.go` | the failure limiter, the query of each handler with its connection and the rows it sees |
| `StdioProxy` | `stdio.go` | the two maps, what each goroutine holds in its hand, the lines being handled, the life of context and upstream |
| `Retry` | `retry/retry.go` | operators: `CanRetry`, the classifiers, `Delay`, `ParseRetryAfter` on durations of `Width` bits |
| `Policy` | `policy/policy.go`, `middleware/ratelimit.go` | operators: first-match evaluation; the token bucket per client and tool |
| `HTTPProxy` (extends `Policy`, `Retry`) | `http.go` | one program counter per handler, its pending calls, attempts and stream, what was relayed, the life of the server |
| `OTelExporter` (extends `Retry`) | `otel/exporter.go` | queue, batch, `closed`, the worker's program counter; accepted, exported and dropped entries |
| `Settings` | `config` and its resolution in `main.go` | operators: precedence of secrets and the checks of a configuration |
| `Service` (extends `OTelExporter`, `Settings`) | `main.go` | where `main` is, background servers and their error channel, the context, operations in flight, the store, the exit status |
| `Verification` | `verify.go`, `audit/verify`, `audit/integrity`, `signer.go` | the artifact, a line being appended, the checkpoint file, each command with its locals |
| `MC...` | | instances and symmetry sets for TLC |
| `AuditPipelineProofs` | | proofs about the pipeline and its ledger |
| `AsyncStoreProofs`, `JSONLProofs`, `StdioProxyProofs`, `HTTPProxyProofs`, `ServiceProofs`, `VerificationProofs`, `DashboardProofs` | | proofs about the module of that name, the last also about `SQLiteStore` (section 4) |

Compositions: `AuditPipeline` joins the finalizer, the asynchronous store and the
backend contract; `HTTPProxy` the handlers, the policy, the shared limiter and the
retry policy; `Service` the process, its operations and the exporter; `Dashboard`
its server and the SQLite store. Refinements: `AuditPipeline` implements
`AuditLedger` (`ImplementsLedger`), and both backends the contract `AuditStore` the
pipeline is built on (`ImplementsStore`, `SQLiteImplementsStore`).

Abstractions that matter:

* A record is an identity and a body. In `JSONLStore` a line is the set of the
  identities whose bytes it holds and two bits: whether it is one JSON document and
  whether a newline ends it. Appending after an unterminated line yields one line
  that holds bytes of both records and is no document.
* A file and the directory are modelled by what a crash may leave: a write
  adds contents to that set, a successful fsync leaves one. An fsync that
  returns nil is trusted.
* Any file operation of a JSONL call may fail, the Stat behind an archive's name
  included: `nextArchivePath` is the set of names it may return, and a rename onto
  an existing one replaces that archive. `Tick` sets the wall clock to any time, also
  back; `latest` is the latest time it has shown.
* Retention is modelled in `JSONLStore` and not in `AuditStore`: the pipeline
  results speak of records that retention has not removed.
* `Encode` fails only with the buffered writer: the raw messages of an entry
  come from parsed JSON.
* `SQLiteStore` keeps a time as its second and the digits of its fraction, since
  RFC 3339 with nanoseconds drops trailing zeros and the column is compared as
  text. The driver is external: a transaction is atomic, and a statement, a
  commit or a rollback may fail.
* In `StdioProxy` the TTL is abstracted to "the n oldest operations have
  expired", and Finalize to the event that reaches the operation.
* In `HTTPProxy` the gates before a message is looked at (method, origin, size,
  authentication, JSON) are one refusal; the map of pending calls is the set of
  the positions of their messages, so a repeated id overwrites as in the code.
* A duration has `Width` bits and wraps where the code's multiplication does.
* In `Settings` a text is what the checks tell apart (empty, blank, spaced, clean).
* `Service` has the store as `AsyncStore` promises it: acknowledged entries wait in
  a queue, reach the backend at any time, or are left behind by a failure.
* In `Verification` cryptography is ideal: an HMAC is the pair of its secret and
  what it covers, a digest the sequence it was computed from. The core of an entry
  is the text of id, time, method, tool and params one after the other. The legacy
  signature covers that text as it is written, and neither where a field ends
  (`split`) nor the other fields (`rest`); Integrity v2 covers all fields and
  not the writing of the params (`form`). The JSONL encoder writes raw params its own way after they were
  signed (`encode`), the columns of SQLite keep their text. Edits happen between commands,
  appends at any time.
* Definitions marked as mutants in the modules are faulty variants of the code,
  used only to show that a property can fail.

## 3. Runs

| Run | Checks | Bounds |
|---|---|---|
| `async` | `AsyncInv`, `NoSilentLoss`, `FlushCoversAcked`, `PipelineOrder`, `CallsReturn` | 3 buffered appends, 1 reader, queue 1, batch 2, fair goroutines |
| `pipeline_durable` | `AtMostOneRecord`, `FinalizedIsDurable`, `IInv`, `ImplementsLedger` | 2 operations, 2 completions, durable queue of 1, batch 2 |
| `pipeline_sync` | `FinalizedIsStored`, `FinalizeReturns` | 2 operations, 2 completions on the backend itself |
| `jsonl` | `JSONLInv`, `AckedSurvivesCrash`, `LookupNeverDenies`, `ReadsInAppendOrder`, `ImplementsStore` | 4 records, batches of 2, files of 2 lines; seven configurations: rotation by size and time (3 appends and 2 faults, or 4 and 1), retention by age with a crash (3 and 2, 4 and 1, or 2 and 3 in files of 1 line), buffered with one archive kept, with and without a crash; a clock of 2 to 4 values that may be set back |
| `jsonl_retention` (violation) | `RetentionKeepsNewest` | `max_files` 2, four rotations in one second |
| `stdio_duplex` | `StdioInv`, `NothingForgotten` | 1 client and 1 server operation, lines of 2 messages |
| `stdio_batches` | `SuccessWasRelayed`, `TerminalOutcome` | 2 client operations, lines of 2 messages, fair goroutines |
| `stdio_reuse` (violation) | `NothingForgotten` | 2 client operations that may share an id |
| `http` | `HTTPInv`, `OneOutcome`, `SuccessWasRelayed`, `UnsafeAtMostOnce`, `OnlyAdmitted`, `Terminates` | 2 handlers, 7 shapes of request, 2 retries, streams of 2 events, a bucket of 1 token and 1 refill, durations of 6 bits, fair handlers |
| `service` | `ServiceInv`, `FailClosed`, `AckedOutlivesProcess`, `SpansFollowRecords`, `SignalEnds` | 34 ways to start (every transport and kind of store, and each check failing once), 2 operations, exporter queue 1, batch 2, 1 retry |
| `dashboard` | `DashboardInv`, `BackendsAgree`, `GuessesBounded`, `SQLiteImplementsStore`, `CallsEnd` | 2 handlers and the writer on 2 connections; either 2 entries in one second, batches of 2, 2 faults and 1 restart, or 3 ticks of the clock; 2 principals with room for 1, 2 failures in windows of 2 ticks |
| `evidence` | `EvidenceInv`, `CleanIsAuthentic`, `CheckpointIsExact`, `OnlyRealMismatches` | 2 processes, 7 commands, 2 appends signed either way (over raw params) or unsigned, 1 edit of the artifact, which may move bytes between fields |

Seven runs check the types of their module together with the safety properties its
state rests on. For those marked (i) the invariant is inductive, and TLC checks on the
instance what section 4 proves in general:

| Invariant | Conjuncts besides the types |
|---|---|
| `AsyncInv` (i) | `CloseExcludesWriters`: nobody sends on the closed channel or passes the worker while Close runs; `WorkerInv`, `QueuedInv`, `CoverInv`: whom the worker serves, where an entry that was queued is, what the flush being served covers |
| `JSONLInv` (i) | `UniqueIdentity`: no identity that is not `gone` is stored twice although failed appends are repeated; `DirInv`, `HistoryInv`, `SettledInv`, `UniqueInv`: what the directories and contents a crash may leave have in common; `NamesInv`: the archives of the latest second are numbered without a gap unless `max_files` removes some |
| `StdioInv` (i) | `OneTerminalEvent`: no operation is finalized by two of the goroutines that compete for it; the maps, hands and lines it rests on |
| `HTTPInv` (i) | `BackoffBounded`: the proxy sleeps a positive time within its interval, whatever Retry-After says; calls, attempts and tokens are accounted for |
| `ServiceInv` (i) | `SpansAccounted`, `NoSendOnClosed`: the exporter's counters add up, and its channel is not closed under a sender; `OpsFollowed`, `MainInv`: operations and `main` agree with it |
| `DashboardInv` (i) | `PoolIsClean`, `AnswersCommitted`: uncommitted rows reach neither the pool nor an answer; `WriterInv`, `ReaderInv`, `WindowInv`: who has which connection and which rows, and what the windows of a principal have counted |
| `EvidenceInv` (i) | `DeliveredStays`: a checkpoint reported as written is never touched again; where signatures and checkpoints come from, what the counters and the digest of a command say |

`OnlyAdmitted` of the HTTP proxy joins `DeniedNeverForwarded` and `RateBound`. The
`http` run has POST requests only, to stay small; the proofs cover every method.

The bounds make the interesting cases happen: a queue of one slot blocks the
second of two appends; three appends make one wait in `Append`, one in the
queue and one in the batch while the worker fails; a batch of two can be stored
by half; four records in files of two lines rotate twice, and the second rotation
retires the first archive, by its age or because only one is kept; two faulty calls
let a failed rollback be followed by a failed directory sync, or a failed statement
by a failed rollback; one of them makes a rotation overwrite an archive with acknowledged
records; a clock set back by one tick names an archive before an older one; two handlers
take both connections while the writer waits until its deadline, or one of them and the
writer while the other handler waits; the limiter's windows touch, and three refusals, more than the limit
of one window, fall within one; the second handler takes the token the first one looked for;
a Retry-After of 7 seconds overflows 6 bits; two entries of one second, with and
without a fraction, sort differently as text and as times; room for one principal
forces an eviction; two commands can write one output; a legacy record passes with its bytes in other
fields, and one of the proxy fails because the encoder rewrote its params. Every bound is a constant
named in its module. Deadlock is not checked where the bound ends the behaviour (all
entries or requests used up) or the program does (`Run` or `main` returned).

### What some of the properties leave open

* `OneOutcome` exempts a call that a later message of the same batch with the same
  id displaced from the map (`http.go:530`); the stdio proxy does the same to
  requests on different lines (`stdio_reuse`).
* `SuccessWasRelayed` of the HTTP proxy admits a request of the upstream that has
  the id of the call: the proxy matches a message by its id alone.
* A durable JSONL store can lose records it acknowledged without a crash. `nextArchivePath`
  takes any error of `os.Stat` for a free name (`jsonl.go:328`): when the Stat of an existing
  archive fails for another reason, the rename (`jsonl.go:311`) replaces it. The run `jsonl`
  reaches this. `AckedSurvivesCrash`, `LookupNeverDenies`, `UniqueIdentity` and
  `ReadsInAppendOrder` exempt the records of the archive that was overwritten (`gone`), as they
  exempt what retention removed: they say that nothing else is lost, and not that this
  is right. `docs/V1.3_MIGRATION.md:17` calls a successful durable append one that passed a durability
  barrier, and `README.md:307` has numeric suffixes keep archives apart.
* `UniqueIdentity` exempts these identities also because an archive whose removal was not
  synced comes back with a crash, and its record may have been appended again in between,
  because the lookup of a failed append no longer found it. It also exempts a buffered
  store after a crash, which may leave a record that was rolled back.
* `ReadsInAppendOrder` and `ImplementsStore` are for a durable store without crashes, which bring
  removed names back. That what was read stays holds in every configuration; the order, and with it
  `ImplementsStore`, only where names tell it: until a second has an
  eleventh archive (names are sorted as text, and `.10` comes before `.2`), without `max_files`,
  which frees names that are used again (`jsonl_retention`), in steps at the latest time of the
  clock (one that was set back names the newest archive before older ones, `jsonl.go:271`), and
  when no archive is overwritten. `ImplementsStore` leaves out retention by age as well, since
  the contract has none. What they order is what a query reads; `LimitNewest` keeps that
  order among entries of one timestamp only.
* `LookupNeverDenies` counts a record as gone when an archive with bytes of it is
  removed or overwritten, also when they were part of a line that is no document.
* `BackoffBounded` is for a positive initial interval, as the defaults have it.
* `AckedOutlivesProcess` exempts the queue of a store that is asynchronous and not
  durable: `os.Exit` after a failed stdio proxy or background server skips the
  deferred Close, and a Close that fails is only logged.
  The errors of an HTTP proxy never reach that test: the `err` of its branch
  shadows the one tested (`main.go:322`, `main.go:367`).
* `GuessesBounded` is twice the limit, because windows are fixed and two of them may
  touch, and speaks of principals that were neither authenticated nor evicted.
* `CleanIsAuthentic` promises everything a v2 record says, field by field. Of a legacy record it
  promises the signed bytes only: the signature is over a concatenation without separators
  (`signer.go:30`, as `docs/AUDIT_INTEGRITY.md:9` says), so a record whose bytes were moved
  between method, tool and params, with its Integrity v2 taken away, passes as legacy. Policy v2 refuses it.
* `OnlyRealMismatches` exempts a legacy record that is not written as it was signed. The proxy makes
  such records itself: the signature covers the params as the client sent them
  (`signer.go:35`), the JSONL encoder compacts and escapes them (`jsonl.go:137`), and only redaction
  would have done so before (`redact.go:34`). A v2 record is never reported for its writing.

### What the violations show

* `jsonl_retention`. `nextArchivePath` takes the first free name of the current
  second. Once retention has deleted the oldest archive of that second, the next
  rotation reuses its name, sorts first and is deleted at once, while older
  archives stay. `TestJSONLStoreRetentionKeepsNewestArchives`
  (`internal/audit/storage/jsonl_test.go:266`) stops one rotation earlier.
* `stdio_reuse`. `rememberClient` overwrites a pending call of the same JSON-RPC
  id, and the first operation never gets an outcome, although
  `docs/V1.2_SECURITY_INVARIANTS.md:9` promises one outcome per accepted
  operation and does not assume unique request ids.

### Fairness

* `AsyncFairness`: goroutines keep running and backend calls return (weak
  fairness). Go chooses at random among the ready cases of a select, so a case
  that is ready again and again is taken: strong fairness for the entries
  channel, its closing, and each sender on `flushRequests`.
* `AuditPipeline!Fairness`: also the goroutine inside `Finalize` runs.
* `StdioProxy!Fairness`: a line that was read is handled and taken calls are
  recorded; every pending call passes the TTL and the ticker fires afterwards; a
  cancelled `Run` shuts down and the process it kills exits. Nothing is assumed
  of the client or of an upstream that was not killed.
* `HTTPProxy!Fairness`: handlers keep running, since the upstream client has a
  timeout and a backoff ends; `Shutdown` has a deadline. Nothing makes a request
  arrive or a client stay.
* `Service!Fairness`: `main`, the operations in flight and the exporter's worker keep
  running, and the proxy returns once the context is done. The collector, the
  background servers and the signal are free.
* `Dashboard!Spec`: the steps of a database call happen and a query that has its
  rows ends; a query waiting for the pool gets a connection that is
  free again and again, since `database/sql` serves its waiters in order (strong
  fairness for each handler). The writer needs no more than weak fairness: its wait has a
  deadline.

## 4. Proofs

Every theorem is of the form `Spec => []P` (or `Spec => [][A]_vars`, or
`Spec => AbstractSpec`) and holds for every value of the constants that satisfies the
assumptions of the modules. Fairness plays no part: where the specification states
some, the theorem is about the specification without it (`SafetySpec`,
`AsyncSafetySpec`), which has more behaviours.

| Module | Theorem | Establishes |
|---|---|---|
| `AuditPipelineProofs` | `InductiveInvariant`, `TypeCorrect` | `IInv`, `TypeOK` |
| | `OneRecord` | `AtMostOneRecord` |
| | `DurableFinalize`, `StoredFinalize` | `FinalizedIsDurable`, `FinalizedIsStored` |
| | `CloseIsExclusive` | `CloseExcludesWriters`, within the pipeline |
| | `LedgerImplemented` | `ImplementsLedger`, with durability on |
| `AsyncStoreProofs` | `AsyncCorrect` | `AsyncInv` |
| | `AsyncNoSilentLoss`, `AsyncFlushCovers` | `NoSilentLoss`, `FlushCoversAcked` |
| | `AsyncOrder` | the action property `PipelineOrder` |
| `JSONLProofs` | `JSONLCorrect` | `JSONLInv` |
| | `JSONLAckedSurvives`, `JSONLLookup` | `AckedSurvivesCrash`, `LookupNeverDenies` |
| | `JSONLReadOrder` | the action property `ReadsInAppendOrder` |
| | `JSONLContract` | `ImplementsStore` |
| `StdioProxyProofs` | `StdioCorrect` | `StdioInv`, also when ids are used again |
| | `StdioNothingForgotten`, `StdioSuccessWasRelayed` | `NothingForgotten`, `SuccessWasRelayed`, when they are not |
| `HTTPProxyProofs` | `HTTPCorrect` | `HTTPInv` |
| | `HTTPOneOutcome`, `HTTPUnsafeAtMostOnce`, `HTTPOnlyAdmitted`, `HTTPSuccessWasRelayed` | `OneOutcome`, `UnsafeAtMostOnce`, `OnlyAdmitted`, `SuccessWasRelayed` |
| `ServiceProofs` | `ServiceCorrect` | `ServiceInv` |
| | `AckedSurvives`, `SpansAreEvidence`, `SigningFailsClosed` | `AckedOutlivesProcess`, `SpansFollowRecords`, `FailClosed` |
| `VerificationProofs` | `EvidenceCorrect` | `EvidenceInv` |
| | `CleanEvidence`, `ExactCheckpoint`, `NoFalseAlarm` | `CleanIsAuthentic`, `CheckpointIsExact`, `OnlyRealMismatches` |
| `DashboardProofs` | `DashboardCorrect` | `DashboardInv` |
| | `DashboardGuesses` | `GuessesBounded` |
| | `SQLiteContract` | `SQLiteImplementsStore` |
| | `BackendsAlike` | `BackendsAgree` |

### Assumptions

They are named in the module that declares the constants, and TLC evaluates them on
every run: queue and batch sizes are positive; `Durable`, `Async` and `Reuse` are
Booleans; `NoBody`, `NoCaller`, `NoId` and `None` are none of the values they stand in
for, and the mark of a connection without a transaction is no entry; a time has at most `Digits` digits in its fraction and the bounds of a filter are times or absent; the dashboard's limits and window are positive; operations and readers are different callers; a policy has the actions `Validate`
admits; the retry policy has a positive initial interval within its maximum, as the
defaults have it; a launch has the fields of a configuration, and so has a JSONL store, whose
bounds are numbers; an evidence command is one of the
two, its flags are Booleans and a key is an id with a secret; an entry is signed and written in one of the ways there are. `Retry` also assumes
`2^Width \in Nat \ {0}`: it follows from `Width \in Nat` by an induction the prover
cannot do, and TLC evaluates it.

### The arguments

*The pipeline* (`IInv`). `AtMostOneRecord` is not inductive. A second record would come
from an operation that appends while its record is stored already, or still on its
way: in the queue or in the worker's batch. The parts of `IInv`:

1. `WorkerInv`, `LockInv`, `ControlInv`: who waits for whom. A sticky error means
   the worker has stopped, the flush being served belongs to exactly one waiting
   caller, and a caller bypasses the queue only after the worker failed.
2. `RecordInv`: `stored` holds no identity twice, and as long as the worker can
   still write, neither does the whole line `stored \o batch \o queue`; every
   record says what its operation froze. Once the worker is dead, what is left in
   its batch and in the queue does not count: nothing writes it any more.
3. `OwnerInv`: a record in a live line belongs to an operation that was told so
   or awaits its flush, so no operation that is about to append has one; an
   operation about to append has none in the backend.
4. `FlushInv`, `AckInv`: an operation that waits for a flush has its record within
   the part of the line the flush covers, so when the reply is nil the record is
   on disk.

`AuditPipelineProofs` takes sequences and types first, then the control part, then the
records and their owners, one lemma per kind of step.

*The ledger* (`LedgerImplemented`). The ledger is the durable prefix of the backend and the
operations that are finalized. `IInv` and the same in the next state turn each step
into a step of `AuditLedger` or a stutter: the backend only grows (`StoreGrows`), so does
its durable prefix; the records that become durable have identities that are new to it
(`RecordInv`); and a `Finalize` that ends well has its record there (`AckInv`).

*The asynchronous store* (`AsyncInv`). `NoSilentLoss` and `FlushCoversAcked` speak of the moment the
worker has stopped and of a flush that has returned. Until a write fails, what was
queued is in channel, batch or backend (`QueuedInv`); the worker leaves only with both
empty (`WorkerInv`); and what was acknowledged before the flush it serves is stored, in
the batch, or among the `remaining` entries it still has to drain (`CoverInv`), which is
where a record that is queued meanwhile cannot push in. `AsyncOrder` needs the types
only: it looks at one step.

*The JSONL store* (`JSONLInv`, `Inv`). A crash chooses a directory and the content of each of its
files, so the invariant speaks of all of them. In durable mode every file that is not the
active one is complete and on disk as it is read (`SettledInv`), because `appendBatch` syncs a
file before `rotate` renames it; the active file is an archive in none of the directories
(`DirInv`); and a file that only a crash can bring back, because it was removed or overwritten, holds records of `gone`
only (`HistoryInv`).
A new document is of an identity that no file of the directory has: a new one, or one the lookup
did not find. So no two contents that a crash can leave together share an identity that
is not gone (`UniqueInv`), and `UniqueIdentity` is the special case of what is read. `Inv` adds that
the bytes of an acknowledged record are in a retained file (`Present`), also for a buffered store,
where the record may be glued to a torn line: the lookup then fails instead of denying it. A call
that acknowledges in durable mode leaves one directory and settled files, so what is
present survives. The invariant is stated for any files and directories (`DiskInv`, `Kept`), and a
call is a chain of lemmas: write, rename, create, remove, then the directory sync
(`WriteStep`, `RenameStep`, `CreateStep`, `RemoveStep`, `SettleStep`); the rename may drop an archive,
and what is left after it is covered by what was there without the lost records (`Lost`, `Covers`); a crash and a confirmation are `SnapshotStep`.

*What a query of the JSONL store reads* (`NamesInv`). Neither property is about names, but both hold
because of them: `rotate` gives the active file, which is read last, the first suffix of the
current second that it takes for free. That sorts after every archive only if it is free (`FreeName`), none is of a later second and the
suffixes in use are `0..n - 1`. `Consecutive` says so of the latest second the clock has shown, and stays true while the
clock is behind it; it survives retention by age because an
archive that is removed is of an earlier second. So a rename moves no file before another
(`RenameOrder`, `RotateMoved`), a write adds lines behind those of the active file (`WriteGrown`),
and `FollowsOrder` turns both into the order of two records before and after a call. That
a record stays at all needs no names (`KeptHits`): a file leaves the directory only into `gone`. The
contract compares sequences: the reader's order is total and irreflexive on the records
it visits (`VisitedOrder`), a record is at the position given by the number of those before it,
and each position has exactly one (`RankedAll`). A write adds records that come after all
others, so the positions of the old ones stay and the new ones follow in the order of the
batch (`ExtendsOrder`, `StreamGrows`). `AckedAll` adds that without retention the acknowledged
records are all those read after a call that returned nil, which is what `synced` counts.

*The stdio proxy* (`StdioInv`, `Full`, `RelayInv`). A call is taken out of its map under the lock, so it is
pending, or in one hand, or has its outcome. That needs that the maps are injective:
each call is found under its own id (`MapInv`). `NothingForgotten` is false when a
client uses an id again while its call is pending (the run `stdio_reuse`), so its theorem has the hypothesis `~Reuse`; the invariant then
adds that the requests of the line in hand have new ids, one each (`LineInv`), and each
accepted request is pending, held or finalized. `SuccessWasRelayed` follows the response:
`RelayInv` ties the id in the answer to the operation that was forwarded under it.

*The HTTP proxy* (`HTTPInv`, `AllBacked`). Per handler: the stage it is in says what it has done (`StageInv`), every call that was
not overwritten is pending or has its one outcome (`OutcomeInv`), only a request safe to
repeat is sent a second time (`RetryInv`), and what was looked at was admitted (`PolicyInv`).
Over all handlers, `TokenInv`: the calls let through for a key plus the tokens left never
exceed the bucket plus the refills; the limiter is shared, so this is the one part that is
not local to a handler. `UnsafeAtMostOnce` compares the code's classifier with a list of
what acts, and `OnlyAdmitted` the first-match loop with the least matching rule. That a
success was relayed (`AllBacked`) is a second invariant on top of `HTTPInv`.

*The service* (`ServiceInv`). A span is in exactly one place (`SpansAccounted`) because an operation offers its
entry once and under `closeMu` (`OpsFollowed`). `MainInv` is what `main` has done by the time it is somewhere: on every path out of it
either the deferred Close emptied the queue or its error is known, or `os.Exit` skipped it.

*Evidence* (`EvidenceInv`). Nothing but the proxy has the secret, so every signature in the artifact, or
read from it, is one the proxy made, whatever was edited (`ProvenanceInv`). Nobody with another key can
issue a checkpoint: it needs an artifact that is not empty and in which every record
verifies as v2 under the key of the command; so each one that was issued is sealed with the proxy's key over
the digest that was read (`CheckpointInv`). `ReadInv` says that the counters are zero exactly
when all the records read so far pass, that the digest covers them, and that the exit status is decided by just that;
`DeliveryInv` that O_EXCL lets one command write the file. `CleanEvidence` then compares what a signature
covers with the record that bears it; an HMAC is taken to be unforgeable and injective in the bytes it is over,
never in how they are split into fields. `NoFalseAlarm` is the converse of the
other two: what the proxy wrote passes, for the encoder changes nothing Integrity v2 covers (`EncodeFacts`). The theorems are about every way to sign and
to write the params (`Inputs`), the run about three.

*The SQLite store and the dashboard* (`DashboardInv`). The only connection with a transaction is the
one `AppendBatch` holds, and what it has inserted followed by what is left is the batch
(`WriterInv`). So a connection that goes back to the pool has none (`PoolIsClean`), and a query,
which has a connection of its own (`ReaderInv`), sees the committed rows and no others. The
mapping to `AuditStore` takes the committed rows as stored and the number of those known to be
on disk as synced: rows are distinct, so after an acknowledged commit that is all of them. A
commit whose error hides that it happened is a failed append that left the whole batch. `GuessesBounded` needs `WindowInv`: the windows of a principal do not
overlap and each counts a failure once, so one holds at most the limit; and three windows
that do not overlap do not fit into the time of one.

*The two queries* (`BackendsAgree`). SQLite compares texts, the reference compares instants. Padded to
the same number of digits, the first digit in which two texts differ decides both
comparisons: the numbers read so far are equal up to it, and from there on the
smaller one stays behind, since a digit is less than ten (`TextLessIsBefore`). So the two
`WHERE` clauses select the same rows and the two orders on them are the same, and so are the
rows at each rank and what the limit leaves of them.

### Only model-checked

* Liveness (`CallsReturn`, `FinalizeReturns`, `TerminalOutcome`, `Terminates`, `SignalEnds`,
  `CallsEnd`): it needs fairness and `ENABLED`, which are out of the prover's reach.
* `RetentionKeepsNewest`, which is false (`jsonl_retention`).

Every other property of the runs is proved. Where an argument is an induction over data (a finite
set has a greatest element, the value of a time read digit by digit), the proof takes
a least counterexample: the library's induction theorems have an operator as a parameter,
which the provers cannot instantiate, and `WFMin` of `WellFoundedInduction` speaks of a set.

## 5. Not modelled

The instrumented store, metrics and the HTTP client (they delegate and count);
authentication, around a JWT library, of which the HTTP proxy sees a principal or a
refusal; MCP parsing and inspection; redaction, canonical encoding and the wording of
records, spans and pages (data); the numbers `Stats` returns; flags, headers, TLS and
URLs; the scanner limits of 16 MiB; the windows on which a write to a slow client or
upstream blocks a pipe. `PROJECT.json` lists every component with its status and
every hazard with the properties that cover it.

## 6. Plan

1. Done: the modules of section 2 and their runs; the proofs of section 4, which cover every
   invariant, action property and refinement of the passing runs.
2. Left to TLC: liveness. A change to a module is first run through its configuration; the
   proof steps that fail afterwards are the argument that has to be made again.
