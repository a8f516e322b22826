------------------------------ MODULE Service -------------------------------
(***************************************************************************)
(* The process (cmd/mcp-audit/main.go): it loads the configuration, starts *)
(* the exporter, the store and the servers, runs the proxy and shuts down  *)
(* along the deferred calls of main, or with os.Exit, which skips them.    *)
(*                                                                         *)
(* Operations are recorded by goroutines of the proxy.  The store is what  *)
(* AsyncStore promises: an append is acknowledged once its record is       *)
(* stored, or once it is queued when async is on and durable off; Close    *)
(* stores the queue or reports an error.                                   *)
(***************************************************************************)
EXTENDS OTelExporter, Settings

CONSTANTS Launches   \* the ways to start the process: a sequence of [file, config, env]

\* Config is a struct: the fields that are read are there, the switches Boolean.
ASSUME LaunchAssumption ==
    \A k \in DOMAIN Launches :
        /\ {"async", "durable", "otel", "sign", "secret", "bearer", "keyID", "transport", "auth",
            "subject", "authClient", "proxyClient"} \subseteq DOMAIN Launches[k].config
        /\ \A f \in {"async", "durable", "otel", "sign"} : Launches[k].config[f] \in BOOLEAN
        /\ Launches[k].env.preferredSet \in BOOLEAN

VARIABLES
    launch,      \* the one of Launches
    main,        \* where main is
    servers,     \* background servers still running
    errs,        \* the channel of their results
    ctx,         \* "live", or "done" after a signal or stop()
    proxyErr,    \* the variable err that is tested after the proxy returned
    op,          \* entry -> where its operation is
    acked,       \* entries whose append returned nil
    queued, stored,
    store,       \* "none", "open", "failed" (sticky error) or "closed"
    closeErr,    \* store.Close returned an error, which is logged
    exit         \* "none", or the status the process exited with

storeVars == <<queued, stored, store, closeErr>>
mainVars == <<main, servers, errs, ctx, proxyErr, exit>>
vars == <<launch, mainVars, op, acked, storeVars, exporterVars>>

config == resolveConfig(Launches[launch].config, Launches[launch].env)

Init ==
    /\ launch \in DOMAIN Launches
    /\ main = "load"
    /\ servers = {}
    /\ errs = <<>>
    /\ ctx = "live"
    /\ proxyErr = FALSE
    /\ op = [e \in Entries |-> "new"]
    /\ acked = {} /\ queued = {} /\ stored = {}
    /\ store = "none"
    /\ closeErr = FALSE
    /\ exit = "none"
    /\ ExporterInit

\* os.Exit(1): deferred calls do not run, goroutines stop where they are.
OsExit ==
    /\ exit' = "1"
    /\ main' = "exited"

-----------------------------------------------------------------------------
(* Start *)

LoadConfig ==
    /\ main = "load"
    /\ IF loadConfig(Launches[launch].file, Launches[launch].config, Launches[launch].env)
       THEN main' = "open" /\ UNCHANGED exit
       ELSE OsExit
    /\ UNCHANGED <<launch, servers, errs, ctx, proxyErr, op, acked, storeVars, exporterVars>>

\* The exporter and the store are opened, policy and authenticator are made;
\* any of them may fail.  Nothing has been acknowledged yet.
Open ==
    /\ main = "open"
    /\ \/ main' = "start" /\ store' = "open" /\ UNCHANGED exit
       \/ OsExit /\ store' \in {"none", "open"}
    /\ UNCHANGED <<launch, servers, errs, ctx, proxyErr, op, acked, queued, stored, closeErr, exporterVars>>

\* The background servers are started, then the proxy; the HTTP proxy may refuse
\* its settings.
Start ==
    /\ main = "start"
    /\ servers' = (IF config.dashboard THEN {"dashboard"} ELSE {})
                  \cup (IF config.metrics THEN {"metrics"} ELSE {})
    /\ \/ main' = "serving" /\ UNCHANGED exit
       \/ config.transport = "http" /\ OsExit
    /\ UNCHANGED <<launch, errs, ctx, proxyErr, op, acked, storeVars, exporterVars>>

Signal ==
    /\ main = "serving"
    /\ ctx = "live"
    /\ ctx' = "done"
    /\ UNCHANGED <<launch, main, servers, errs, proxyErr, exit, op, acked, storeVars, exporterVars>>

\* A background server fails, or stops when the context is done.
ServerEnds(s) ==
    /\ exit = "none"
    /\ s \in servers
    /\ servers' = servers \ {s}
    /\ \/ errs' = Append(errs, "error")
       \/ ctx = "done" /\ errs' = Append(errs, "nil")
    /\ UNCHANGED <<launch, main, ctx, proxyErr, exit, op, acked, storeVars, exporterVars>>

-----------------------------------------------------------------------------
(* Operations *)

Begin(e) ==
    /\ main = "serving"
    /\ op[e] = "new"
    /\ op' = [op EXCEPT ![e] = "running"]
    /\ UNCHANGED <<launch, mainVars, acked, storeVars, exporterVars>>

AppendOk(e) ==
    /\ acked' = acked \cup {e}
    /\ IF config.async /\ ~config.durable
       THEN queued' = queued \cup {e} /\ UNCHANGED stored
       ELSE stored' = stored \cup {e} /\ UNCHANGED queued

\* Mutant: the entry is exported whatever became of the append.
RecordExportsAlways(e) ==
    /\ exit = "none"
    /\ op[e] = "running"
    /\ op' = [op EXCEPT ![e] = "export"]
    /\ \/ store = "open" /\ AppendOk(e)
       \/ UNCHANGED <<acked, stored, queued>>
    /\ UNCHANGED <<launch, mainVars, store, closeErr, exporterVars>>

\* recordPrepared: append, then offer the entry to the exporter.  A failed
\* append may have stored the record.
Record(e) ==
    /\ exit = "none"
    /\ op[e] = "running"
    /\ \/ /\ store = "open"
          /\ AppendOk(e)
          /\ op' = [op EXCEPT ![e] = IF config.otel THEN "export" ELSE "done"]
       \/ /\ op' = [op EXCEPT ![e] = "done"]
          /\ stored' \in {stored} \cup (IF store = "open" THEN {stored \cup {e}} ELSE {})
          /\ UNCHANGED <<acked, queued>>
    /\ UNCHANGED <<launch, mainVars, store, closeErr, exporterVars>>

Export(e) ==
    /\ exit = "none"
    /\ \/ op[e] = "export" /\ ExportLock(e) /\ op' = [op EXCEPT ![e] = "send"]
       \/ op[e] = "export" /\ ExportRefused(e) /\ op' = [op EXCEPT ![e] = "done"]
       \/ op[e] = "send" /\ ExportSend(e) /\ op' = [op EXCEPT ![e] = "done"]
    /\ UNCHANGED <<launch, mainVars, acked, storeVars>>

\* The worker of the asynchronous store writes what it has, or fails for good.
Persist ==
    /\ exit = "none"
    /\ store = "open"
    /\ queued # {}
    /\ \/ stored' = stored \cup queued /\ queued' = {} /\ UNCHANGED store
       \/ store' = "failed" /\ UNCHANGED <<queued, stored>>
    /\ UNCHANGED <<launch, mainVars, op, acked, closeErr, exporterVars>>

ExporterWorker ==
    /\ exit = "none"
    /\ WorkerStep
    /\ UNCHANGED <<launch, mainVars, op, acked, storeVars>>

-----------------------------------------------------------------------------
(* Shutdown *)

\* The proxy returns, in order after the context ended, or with an error.  The
\* stdio proxy may leave pipes draining and the HTTP proxy, after the deadline
\* of its shutdown or a failed listener, handlers.  An error of the HTTP proxy
\* is assigned to the err of the case clause, which shadows the one tested later.
ProxyReturns ==
    /\ main = "serving"
    /\ \E failed \in BOOLEAN :
          /\ failed \/ ctx = "done" \/ config.transport = "stdio"
          /\ config.transport = "http" /\ ~failed => \A e \in Entries : op[e] \in {"new", "done"}
          /\ proxyErr' = (failed /\ config.transport = "stdio")
    /\ ctx' = "done"
    /\ main' = "check"
    /\ UNCHANGED <<launch, servers, errs, exit, op, acked, storeVars, exporterVars>>

\* Mutant: main waits for the result of a background server.
CheckErrorsWaits ==
    /\ main = "check"
    /\ errs # <<>>
    /\ IF proxyErr \/ Head(errs) = "error" THEN OsExit ELSE main' = "closeStore" /\ UNCHANGED exit
    /\ errs' = Tail(errs)
    /\ UNCHANGED <<launch, servers, ctx, proxyErr, op, acked, storeVars, exporterVars>>

\* The error of the proxy, then at most one result of the background servers.
CheckErrors ==
    /\ main = "check"
    /\ IF proxyErr \/ (errs # <<>> /\ Head(errs) = "error")
       THEN OsExit
       ELSE main' = "closeStore" /\ UNCHANGED exit
    /\ errs' = IF proxyErr \/ errs = <<>> THEN errs ELSE Tail(errs)
    /\ UNCHANGED <<launch, servers, ctx, proxyErr, op, acked, storeVars, exporterVars>>

\* Mutant: the store is left to the operating system.
CloseStoreSkipped ==
    /\ main = "closeStore"
    /\ main' = "closeExporter"
    /\ store' = "closed"
    /\ UNCHANGED <<launch, servers, errs, ctx, proxyErr, exit, op, acked, queued, stored, closeErr, exporterVars>>

\* Deferred calls run last in, first out: the store before the exporter.
CloseStore ==
    /\ main = "closeStore"
    /\ main' = "closeExporter"
    /\ store' = "closed"
    /\ \/ store = "open" /\ stored' = stored \cup queued /\ queued' = {} /\ UNCHANGED closeErr
       \/ closeErr' = TRUE /\ stored' \in {stored \cup S : S \in SUBSET queued} /\ UNCHANGED queued
    /\ UNCHANGED <<launch, servers, errs, ctx, proxyErr, exit, op, acked, exporterVars>>

\* The exporter is closed; main waits for its worker, at most ten seconds.
CloseExporter ==
    /\ main = "closeExporter"
    /\ IF config.otel
       THEN main' = "waitExporter" /\ CloseChannel
       ELSE main' = "return" /\ UNCHANGED exporterVars
    /\ UNCHANGED <<launch, servers, errs, ctx, proxyErr, exit, op, acked, storeVars>>

WaitExporter ==
    /\ main = "waitExporter"
    /\ main' \in {"return"} \cup (IF wpc = "done" THEN {"returnFlushed"} ELSE {})
    /\ UNCHANGED <<launch, servers, errs, ctx, proxyErr, exit, op, acked, storeVars, exporterVars>>

Return ==
    /\ main \in {"return", "returnFlushed"}
    /\ exit' = "0"
    /\ UNCHANGED <<launch, main, servers, errs, ctx, proxyErr, op, acked, storeVars, exporterVars>>

MainStep ==
    \/ LoadConfig \/ Open \/ Start
    \/ CheckErrors \/ CloseStore \/ CloseExporter \/ WaitExporter
    \/ Return /\ exit = "none"

Next ==
    \/ MainStep
    \/ ProxyReturns
    \/ Signal
    \/ \E s \in servers : ServerEnds(s)
    \/ \E e \in Entries : Begin(e) \/ Record(e) \/ Export(e)
    \/ Persist
    \/ ExporterWorker

\* main and the goroutines keep running.  The proxy returns once the context is
\* done: its shutdown has a deadline.
Fairness ==
    /\ WF_vars(MainStep)
    /\ WF_vars(ctx = "done" /\ ProxyReturns)
    /\ \A e \in Entries : WF_vars(Record(e)) /\ WF_vars(Export(e))
    /\ WF_vars(ExporterWorker)

Spec == Init /\ [][Next]_vars /\ Fairness

-----------------------------------------------------------------------------
(* Properties *)

ServiceTypeOK ==
    /\ ExporterTypeOK
    /\ launch \in DOMAIN Launches
    /\ main \in {"load", "open", "start", "serving", "check", "closeStore", "closeExporter",
                 "waitExporter", "return", "returnFlushed", "exited"}
    /\ servers \subseteq {"dashboard", "metrics"}
    /\ errs \in Seq({"nil", "error"})
    /\ Len(errs) + Cardinality(servers) <= 2
    /\ op \in [Entries -> {"new", "running", "export", "send", "done"}]
    /\ queued \subseteq acked /\ acked \subseteq queued \cup stored
    /\ store \in {"none", "open", "failed", "closed"}
    /\ ctx \in {"live", "done"} /\ proxyErr \in BOOLEAN /\ closeErr \in BOOLEAN
    /\ exit \in {"none", "0", "1"}

\* An operation and the exporter agree: whoever is about to send holds closeMu,
\* an entry is offered once and only after its append was acknowledged.
OpsFollowed ==
    /\ \A e \in Entries :
          /\ op[e] = "send" <=> e \in exporting
          /\ op[e] \in {"new", "running", "export", "send"} => e \notin accepted \cup Lost
          /\ op[e] \in {"export", "send"} => e \in acked
    /\ accepted \cup Lost \subseteq acked

\* What main has done by the time it is somewhere: a configuration that is in
\* force was validated, the queue is the asynchronous store's, the deferred
\* Close emptied it or reported an error, and the exporter was closed once.
MainInv ==
    /\ main \notin {"load", "exited"} =>
          loadConfig(Launches[launch].file, Launches[launch].config, Launches[launch].env)
    /\ main \in {"load", "open", "start"} => errs = <<>> /\ servers = {}
    /\ queued # {} => config.async /\ ~config.durable
    /\ main \in {"closeExporter", "waitExporter", "return", "returnFlushed"} => store = "closed"
    /\ store = "closed" => queued = {} \/ closeErr
    /\ exit = "0" => main \in {"return", "returnFlushed"}
    /\ wpc = "done" => closed
    /\ closed => main \in {"waitExporter", "return", "returnFlushed"}
    /\ main = "returnFlushed" => wpc = "done"

\* State and channels are well formed, also of the exporter: it accounts for every
\* span (SpansAccounted) and nobody sends on its closed channel (NoSendOnClosed),
\* whatever operations are still running when main closes it.
ServiceInv == ServiceTypeOK /\ SpansAccounted /\ NoSendOnClosed /\ OpsFollowed /\ MainInv

\* Enabled signing is fail-closed, and so is identity: before any server, proxy or
\* upstream starts the secret in force, wherever it comes from, is not empty, and
\* policy has a configured or an authenticated principal.
FailClosed ==
    main \notin {"load", "open", "exited"} =>
        LET c == Launches[launch].config
            env == Launches[launch].env
            secret == CASE env.preferredSet -> env.preferred
                        [] ~env.preferredSet /\ env.legacy # "" -> env.legacy
                        [] ~env.preferredSet /\ env.legacy = "" -> c.secret
        IN  /\ c.sign => secret \notin {"", "blank"}
            /\ c.auth = "oidc" \/ (c.subject # "" /\ {c.authClient, c.proxyClient} # {""})

\* What the store acknowledged survives the process: the deferred Close runs
\* whenever main returns, before status 0, also when handlers are still running.
\* Only the queue of a store that is asynchronous and not durable is lost, to an
\* os.Exit after a failed stdio proxy or background server, or to a Close whose
\* error was logged.
AckedOutlivesProcess ==
    exit # "none" =>
        \/ acked \subseteq stored
        \/ config.async /\ ~config.durable /\ (exit = "1" \/ closeErr)

\* Spans are evidence of stored records: only what the store acknowledged is
\* offered to the exporter, and a Close within its deadline leaves none behind.
SpansFollowRecords ==
    /\ accepted \cup Lost \subseteq acked
    /\ main = "returnFlushed" => accepted \subseteq exported \cup Lost

\* A signal ends the process, whatever the collector, the background servers and
\* the operations in flight do.
SignalEnds == (ctx = "done") ~> (exit # "none")
=============================================================================
