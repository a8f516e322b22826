----------------------------- MODULE StdioProxy -----------------------------
(***************************************************************************)
(* The stdio proxy (internal/proxy/stdio.go): the two pipe goroutines, the *)
(* cleanup goroutine and Run itself share the two maps of pending calls.   *)
(* A goroutine takes calls out of a map under rpcState.mu and finalizes    *)
(* them after it released the lock; `hand' is what it has taken.           *)
(*                                                                         *)
(* Policy and rate limiter are the verdict a message meets.  Finalize is   *)
(* the terminal event an operation receives; whether it is persisted is    *)
(* the subject of AuditPipeline.  The upstream answers only requests it    *)
(* was sent, possibly more than once, and writes junk when it likes.       *)
(***************************************************************************)
EXTENDS Naturals, FiniteSets, Sequences, SequencesExt

CONSTANTS
    Ids,         \* JSON-RPC ids
    NoId,        \* the id of a notification
    NumClient,   \* bound: operations the client starts
    NumServer,   \* bound: operations the server starts
    Verdicts,    \* what policy and rate limiter say of a message
    MaxLine,     \* bound: messages in one line (a JSON-RPC batch)
    Reuse        \* TRUE when an id may be used again, also while it is pending

ASSUME StdioAssumption ==
    /\ NoId \notin Ids
    /\ NumClient \in Nat /\ NumServer \in Nat /\ MaxLine \in Nat \ {0}
    /\ Verdicts \subseteq {"allow", "denied", "rate_limited"}
    /\ Reuse \in BOOLEAN

VARIABLES
    clientPending, serverPending,  \* id -> operation waiting for its response
    order,      \* the accepted operations, oldest first
    opId,       \* operation -> its JSON-RPC id
    outcome,    \* operation -> the terminal events it received
    pc,         \* where each goroutine is
    todo,       \* pipe -> messages of the current line not yet observed
    line,       \* requests of the client's current line
    hand,       \* goroutine -> calls taken and not yet finalized, with their outcome
    relayed,    \* ids of server requests written to the client
    forwarded,  \* client requests written to the upstream
    answered,   \* client requests whose response was written to the client
    cancelled,  \* ctx is done
    stopped,    \* cleanupCtx is done
    alive       \* the upstream process runs

pendingVars == <<clientPending, serverPending>>
opVars == <<order, opId, outcome>>
wireVars == <<relayed, forwarded, answered>>
lifeVars == <<cancelled, stopped, alive>>
vars == <<pendingVars, opVars, pc, todo, line, hand, wireVars, lifeVars>>

ClientOps == 1..NumClient
ServerOps == NumClient + 1..NumClient + NumServer
Ops == ClientOps \cup ServerOps
Pipes == {"client", "server"}
Goroutines == Pipes \cup {"cleanup", "main"}
Outcomes == {"success", "upstream_error", "denied", "rate_limited", "timeout",
             "client_disconnect", "malformed_upstream_response", "cancelled"}

Running == pc["main"] # "returned"
Free(g) == Running /\ hand[g] = {}
Goto(g, l) == pc' = [pc EXCEPT ![g] = l]
Pending == Range(clientPending) \cup Range(serverPending)
NoCalls == <<>>                       \* the empty map
Without(m, ids) == [i \in DOMAIN m \ ids |-> m[i]]

\* NewOperation for the next message of a side that starts an operation.
NextOp(side) == CHOOSE o \in side \ ToSet(order) : TRUE
Accept(o, id) ==
    /\ order' = Append(order, o)
    /\ opId' = [opId EXCEPT ![o] = id]

\* Goroutine g took the calls ops and will finalize them with outcome c.
Take(g, ops, c) == hand' = [hand EXCEPT ![g] = ops \X {c}]

\* Mutant: both maps are cleared, only the client's calls are finalized.
takeAllClients(g, c) ==
    /\ Take(g, Range(clientPending), c)
    /\ clientPending' = NoCalls
    /\ serverPending' = NoCalls

takeAll(g, c) ==
    /\ Take(g, Pending, c)
    /\ clientPending' = NoCalls
    /\ serverPending' = NoCalls

takeClients(g, c) ==
    /\ Take(g, Range(clientPending), c)
    /\ clientPending' = NoCalls
    /\ UNCHANGED serverPending

takeExpired(g, old) ==
    /\ Take(g, Pending \cap old, "timeout")
    /\ clientPending' = Without(clientPending, {i \in DOMAIN clientPending : clientPending[i] \in old})
    /\ serverPending' = Without(serverPending, {i \in DOMAIN serverPending : serverPending[i] \in old})

rememberClient(id, o) ==
    /\ clientPending' = [i \in DOMAIN clientPending \cup {id} |->
                            IF i = id THEN o ELSE clientPending[i]]
    /\ UNCHANGED serverPending

rememberServer(id, o) ==
    /\ serverPending' = [i \in DOMAIN serverPending \cup {id} |->
                            IF i = id THEN o ELSE serverPending[i]]
    /\ UNCHANGED clientPending

\* Mutant: the call stays in the map.
takeClientKeeps(id) ==
    /\ IF id \in DOMAIN clientPending
       THEN Take("server", {clientPending[id]}, "success")
       ELSE UNCHANGED hand
    /\ UNCHANGED pendingVars

\* A response takes the call of its id, if there is one.
takeClient(id) ==
    /\ IF id \in DOMAIN clientPending
       THEN \E c \in {"success", "upstream_error"} : Take("server", {clientPending[id]}, c)
       ELSE UNCHANGED hand
    /\ clientPending' = Without(clientPending, {id})
    /\ UNCHANGED serverPending

takeServer(id) ==
    /\ IF id \in DOMAIN serverPending
       THEN \E c \in {"success", "upstream_error"} : Take("client", {serverPending[id]}, c)
       ELSE UNCHANGED hand
    /\ serverPending' = Without(serverPending, {id})
    /\ UNCHANGED clientPending

Init ==
    /\ clientPending = NoCalls /\ serverPending = NoCalls
    /\ order = <<>>
    /\ opId = [o \in Ops |-> NoId]
    /\ outcome = [o \in Ops |-> <<>>]
    /\ pc = [g \in Goroutines |-> CASE g \in Pipes -> "scan"
                                    [] g = "cleanup" -> "wait"
                                    [] g = "main" -> "select"]
    /\ todo = [p \in Pipes |-> <<>>]
    /\ line = {}
    /\ hand = [g \in Goroutines |-> {}]
    /\ relayed = {} /\ forwarded = {} /\ answered = {}
    /\ cancelled = FALSE /\ stopped = FALSE /\ alive = TRUE

\* record: one call of the hand meets Operation.Finalize.
Record(g) ==
    /\ Running
    /\ \E call \in hand[g] :
          /\ outcome' = [outcome EXCEPT ![call[1]] = Append(@, call[2])]
          /\ hand' = [hand EXCEPT ![g] = @ \ {call}]
    /\ UNCHANGED <<pendingVars, order, opId, pc, todo, line, wireVars, lifeVars>>

-----------------------------------------------------------------------------
(* Messages *)

Request(id, v) == [kind |-> "request", id |-> id, verdict |-> v]
Notification(v) == [kind |-> "notification", id |-> NoId, verdict |-> v]
Response(id) == [kind |-> "response", id |-> id, verdict |-> "allow"]
Starts(l) == {k \in 1..Len(l) : l[k].kind # "response"}

\* The lines over the messages ms that a side may write, within its operations.
LinesOver(ms, side) ==
    LET used == {opId[o] : o \in side \cap ToSet(order)}
        room == side \ ToSet(order)
        requests(l) == {k \in Starts(l) : l[k].id # NoId}
    IN  {l \in UNION {[1..n -> ms] : n \in 1..MaxLine} :
            /\ Cardinality(Starts(l)) <= Cardinality(room)
            /\ Reuse \/ \A j, k \in requests(l) : l[j].id \notin used /\ (l[j].id = l[k].id => j = k)}

ClientLines ==
    LinesOver({Request(i, v) : i \in Ids, v \in Verdicts}
              \cup {Notification(v) : v \in Verdicts}
              \cup {Response(i) : i \in relayed}, ClientOps)

\* A response answers a request the upstream holds: its id is that request's.
ServerLines ==
    LinesOver({Request(i, "allow") : i \in Ids} \cup {Notification("allow")}
              \cup {Response(opId[o]) : o \in forwarded}, ServerOps)

-----------------------------------------------------------------------------
(* pipeClientToServer *)

ClientScan ==
    /\ Free("client") /\ pc["client"] = "scan"
    /\ \E l \in ClientLines : todo' = [todo EXCEPT !["client"] = l]
    /\ Goto("client", "observe")
    /\ UNCHANGED <<pendingVars, opVars, line, hand, wireVars, lifeVars>>

\* A line that is no JSON-RPC is forwarded without being inspected.
ClientScanOpaque ==
    /\ Free("client") /\ pc["client"] = "scan"
    /\ Goto("client", "write")
    /\ UNCHANGED <<pendingVars, opVars, todo, line, hand, wireVars, lifeVars>>

\* End of input, or an error of the scanner.
ClientEnd ==
    /\ Free("client") /\ pc["client"] = "scan"
    /\ \/ UNCHANGED <<pendingVars, hand>>
       \/ takeAll("client", "client_disconnect")
    /\ Goto("client", "return")
    /\ UNCHANGED <<opVars, todo, line, wireVars, lifeVars>>

\* observeClientMessage on one message.  A denied or limited one is finalized,
\* answered by the proxy, and the whole line is dropped.
ObserveClient ==
    LET m == Head(todo["client"])
        o == NextOp(ClientOps)
        next == /\ todo' = [todo EXCEPT !["client"] = Tail(@)]
                /\ UNCHANGED pc
    IN  /\ Free("client") /\ pc["client"] = "observe" /\ todo["client"] # <<>>
        /\ \/ /\ m.kind # "response" /\ m.verdict # "allow"
              /\ Accept(o, m.id)
              /\ Take("client", {o}, m.verdict)
              /\ todo' = [todo EXCEPT !["client"] = <<>>]
              /\ line' = {}
              /\ Goto("client", "scan")
              /\ UNCHANGED pendingVars
           \/ /\ m.kind = "request" /\ m.verdict = "allow"
              /\ Accept(o, m.id)
              /\ rememberClient(m.id, o)
              /\ line' = line \cup {o}
              /\ next
              /\ UNCHANGED hand
           \/ /\ m.kind = "notification" /\ m.verdict = "allow"
              /\ Accept(o, m.id)
              /\ Take("client", {o}, "success")
              /\ next
              /\ UNCHANGED <<pendingVars, line>>
           \/ /\ m.kind = "response"
              /\ takeServer(m.id)
              /\ next
              /\ UNCHANGED <<order, opId, line>>
        /\ UNCHANGED <<outcome, wireVars, lifeVars>>

ClientObserved ==
    /\ Free("client") /\ pc["client"] = "observe" /\ todo["client"] = <<>>
    /\ Goto("client", "write")
    /\ UNCHANGED <<pendingVars, opVars, todo, line, hand, wireVars, lifeVars>>

ClientWrite ==
    /\ Free("client") /\ pc["client"] = "write"
    /\ alive
    /\ forwarded' = forwarded \cup line
    /\ line' = {}
    /\ Goto("client", IF cancelled THEN "return" ELSE "scan")
    /\ UNCHANGED <<pendingVars, opVars, todo, hand, relayed, answered, lifeVars>>

ClientWriteFailed ==
    /\ Free("client") /\ pc["client"] = "write"
    /\ takeAll("client", "upstream_error")
    /\ line' = {}
    /\ Goto("client", "return")
    /\ UNCHANGED <<opVars, todo, wireVars, lifeVars>>

-----------------------------------------------------------------------------
(* pipeServerToClient: a line is written to the client before it is observed *)

ServerScan ==
    /\ Free("server") /\ pc["server"] = "scan"
    /\ \E l \in ServerLines :
          LET ids(kind) == {l[k].id : k \in {j \in 1..Len(l) : l[j].kind = kind}}
          IN  /\ todo' = [todo EXCEPT !["server"] = l]
              /\ relayed' = relayed \cup ids("request")
              /\ answered' = answered \cup {o \in forwarded : opId[o] \in ids("response")}
    /\ Goto("server", "observe")
    /\ UNCHANGED <<pendingVars, opVars, line, hand, forwarded, lifeVars>>

\* A line that is no JSON-RPC is relayed, and every client call is finalized.
ServerScanJunk ==
    /\ Free("server") /\ pc["server"] = "scan"
    /\ Goto("server", "junk")
    /\ UNCHANGED <<pendingVars, opVars, todo, line, hand, wireVars, lifeVars>>

ServerWriteFailed ==
    /\ Free("server") /\ pc["server"] = "scan"
    /\ takeAll("server", "client_disconnect")
    /\ Goto("server", "return")
    /\ UNCHANGED <<opVars, todo, line, wireVars, lifeVars>>

\* End of the upstream's output, or an error of the scanner; cmd.Wait closes the
\* pipe, so lines still in it may be lost.
ServerEnd ==
    /\ Free("server") /\ pc["server"] = "scan"
    /\ \/ ~alive /\ UNCHANGED <<pendingVars, hand>>
       \/ takeAll("server", "upstream_error")
    /\ Goto("server", "return")
    /\ UNCHANGED <<opVars, todo, line, wireVars, lifeVars>>

ObserveServer ==
    LET m == Head(todo["server"])
        o == NextOp(ServerOps)
    IN  /\ Free("server") /\ pc["server"] = "observe" /\ todo["server"] # <<>>
        /\ \/ /\ m.kind = "request"
              /\ Accept(o, m.id)
              /\ rememberServer(m.id, o)
              /\ UNCHANGED hand
           \/ /\ m.kind = "notification"
              /\ Accept(o, m.id)
              /\ Take("server", {o}, "success")
              /\ UNCHANGED pendingVars
           \/ /\ m.kind = "response"
              /\ takeClient(m.id)
              /\ UNCHANGED <<order, opId>>
        /\ todo' = [todo EXCEPT !["server"] = Tail(@)]
        /\ UNCHANGED <<outcome, pc, line, wireVars, lifeVars>>

\* Mutant: any output of the upstream counts as the answer.
ObserveJunkAsAnswer ==
    /\ Free("server") /\ pc["server"] = "junk"
    /\ takeClients("server", "success")
    /\ Goto("server", "observe")
    /\ UNCHANGED <<opVars, todo, line, wireVars, lifeVars>>

ObserveJunk ==
    /\ Free("server") /\ pc["server"] = "junk"
    /\ takeClients("server", "malformed_upstream_response")
    /\ Goto("server", "observe")
    /\ UNCHANGED <<opVars, todo, line, wireVars, lifeVars>>

ServerObserved ==
    /\ Free("server") /\ pc["server"] = "observe" /\ todo["server"] = <<>>
    /\ Goto("server", IF cancelled THEN "return" ELSE "scan")
    /\ UNCHANGED <<pendingVars, opVars, todo, line, hand, wireVars, lifeVars>>

-----------------------------------------------------------------------------
(* cleanupLoop: the n oldest operations have passed the TTL at this tick *)

\* Mutant: the cleanup goroutine ends after its first tick.
CleanupTickOnce(n) ==
    /\ Free("cleanup") /\ pc["cleanup"] = "wait"
    /\ Pending \cap ToSet(SubSeq(order, 1, n)) # {}
    /\ takeExpired("cleanup", ToSet(SubSeq(order, 1, n)))
    /\ Goto("cleanup", "return")
    /\ UNCHANGED <<opVars, todo, line, wireVars, lifeVars>>

CleanupTick(n) ==
    /\ Free("cleanup") /\ pc["cleanup"] = "wait"
    /\ Pending \cap ToSet(SubSeq(order, 1, n)) # {}
    /\ takeExpired("cleanup", ToSet(SubSeq(order, 1, n)))
    /\ UNCHANGED <<opVars, pc, todo, line, wireVars, lifeVars>>

CleanupStop ==
    /\ Free("cleanup") /\ pc["cleanup"] = "wait"
    /\ stopped \/ cancelled
    /\ Goto("cleanup", "return")
    /\ UNCHANGED <<pendingVars, opVars, todo, line, hand, wireVars, lifeVars>>

-----------------------------------------------------------------------------
(* Run, and the world around it *)

\* ctx.Done: interrupt the upstream, and kill it when it does not exit.
RunCancelled ==
    /\ Running /\ pc["main"] = "select" /\ cancelled
    /\ stopped' = TRUE
    /\ Goto("main", "shutdown")
    /\ UNCHANGED <<pendingVars, opVars, todo, line, hand, wireVars, cancelled, alive>>

\* waitErr: the upstream exited by itself.
RunExited ==
    /\ Running /\ pc["main"] = "select" /\ ~alive
    /\ stopped' = TRUE
    /\ Goto("main", "drain_exited")
    /\ UNCHANGED <<pendingVars, opVars, todo, line, hand, wireVars, cancelled, alive>>

ShutdownUpstream ==
    /\ Running /\ pc["main"] = "shutdown" /\ ~alive
    /\ Goto("main", "drain_cancelled")
    /\ UNCHANGED <<pendingVars, opVars, todo, line, hand, wireVars, lifeVars>>

\* waitForPipes ends when both pipes returned or after one second; then finalizeAll.
WaitForPipes ==
    /\ Running
    /\ \/ pc["main"] = "drain_cancelled" /\ takeAll("main", "cancelled")
       \/ pc["main"] = "drain_exited" /\ takeAll("main", "upstream_error")
    /\ Goto("main", "finalize")
    /\ UNCHANGED <<opVars, todo, line, wireVars, lifeVars>>

RunReturn ==
    /\ Free("main") /\ pc["main"] = "finalize"
    /\ Goto("main", "returned")
    /\ UNCHANGED <<pendingVars, opVars, todo, line, hand, wireVars, lifeVars>>

Cancel ==
    /\ Running /\ ~cancelled
    /\ cancelled' = TRUE
    /\ UNCHANGED <<pendingVars, opVars, pc, todo, line, hand, wireVars, stopped, alive>>

UpstreamExit ==
    /\ Running /\ alive
    /\ alive' = FALSE
    /\ UNCHANGED <<pendingVars, opVars, pc, todo, line, hand, wireVars, cancelled, stopped>>

ClientStep ==
    \/ ClientScan \/ ClientScanOpaque \/ ClientEnd \/ ObserveClient
    \/ ClientObserved \/ ClientWrite \/ ClientWriteFailed

ServerStep ==
    \/ ServerScan \/ ServerScanJunk \/ ServerWriteFailed \/ ServerEnd
    \/ ObserveServer \/ ObserveJunk \/ ServerObserved

MainStep == RunCancelled \/ RunExited \/ ShutdownUpstream \/ WaitForPipes \/ RunReturn

Next ==
    \/ \E g \in Goroutines : Record(g)
    \/ ClientStep \/ ServerStep \/ MainStep
    \/ \E n \in 1..Len(order) : CleanupTick(n)
    \/ CleanupStop
    \/ Cancel \/ UpstreamExit

SafetySpec == Init /\ [][Next]_vars

\* A goroutine that is not blocked on the client or the upstream goes on: a line
\* that was read is handled, taken calls are recorded.  Pending calls pass the TTL
\* and the ticker fires after they did.  A cancelled Run shuts down, and the
\* upstream it kills exits.
Fairness ==
    /\ WF_vars(\E g \in Goroutines : Record(g))
    /\ WF_vars(ObserveClient \/ ClientObserved \/ ClientWrite \/ ClientWriteFailed)
    /\ WF_vars(ObserveServer \/ ObserveJunk \/ ServerObserved)
    /\ WF_vars(\E n \in 1..Len(order) : CleanupTick(n))
    /\ WF_vars(MainStep \/ (pc["main"] = "shutdown" /\ UpstreamExit))

Spec == SafetySpec /\ Fairness

-----------------------------------------------------------------------------
(* Properties *)

Messages ==
    {m \in [kind : {"request", "notification", "response"}, id : Ids \cup {NoId},
            verdict : {"allow", "denied", "rate_limited"}] :
        m.kind = "notification" <=> m.id = NoId}

StdioTypeOK ==
    /\ DOMAIN clientPending \subseteq Ids /\ DOMAIN serverPending \subseteq Ids
    /\ order \in Seq(Ops) /\ IsInjective(order)
    /\ opId \in [Ops -> Ids \cup {NoId}]
    /\ outcome \in [Ops -> Seq(Outcomes)]
    /\ DOMAIN pc = Goroutines
    /\ pc["client"] \in {"scan", "observe", "write", "return"}
    /\ pc["server"] \in {"scan", "observe", "junk", "return"}
    /\ pc["cleanup"] \in {"wait", "return"}
    /\ pc["main"] \in {"select", "shutdown", "drain_cancelled", "drain_exited", "finalize", "returned"}
    /\ todo \in [Pipes -> Seq(Messages)]
    /\ hand \in [Goroutines -> SUBSET (Ops \X Outcomes)]
    /\ relayed \subseteq Ids
    /\ line \subseteq ClientOps /\ forwarded \subseteq ClientOps /\ answered \subseteq forwarded
    /\ cancelled \in BOOLEAN /\ stopped \in BOOLEAN /\ alive \in BOOLEAN

\* The operations goroutine g took and has not finalized.
Held(g) == {call[1] : call \in hand[g]}

\* Every accepted operation that has no terminal outcome yet is still on its way
\* to one: it is pending in a map, or some goroutine took it and will finalize
\* it.  No interleaving of responses, timeouts, failing pipes and shutdown drops
\* one between the maps and the goroutines.
NothingForgotten ==
    \A o \in ToSet(order) :
        outcome[o] = <<>> => o \in Pending \/ \E g \in Goroutines : o \in Held(g)

\* Competing terminal events, such as a late response, the TTL, a broken pipe and
\* shutdown, never finalize one operation twice: the goroutine that takes the call
\* out of the map under rpcState.mu is the only one that holds it.
OneTerminalEvent ==
    \A o \in Ops :
        /\ Len(outcome[o]) <= 1
        /\ o \in Pending => outcome[o] = <<>>
        /\ \A g \in Goroutines : o \in Held(g) =>
              /\ outcome[o] = <<>> /\ o \notin Pending
              /\ \A f \in Goroutines : o \in Held(f) => f = g

\* The calls of a map belong to the side that sent them and are found under
\* their own ids.
MapInv(pending, side) ==
    \A i \in DOMAIN pending :
        pending[i] \in side /\ pending[i] \in ToSet(order) /\ opId[pending[i]] = i

\* What a goroutine holds was accepted, with one outcome per call; only the
\* final drain gives Run something to hold.
HandInv(g) ==
    /\ Held(g) \subseteq ToSet(order)
    /\ \A c, d \in hand[g] : c[1] = d[1] => c = d
    /\ g = "main" /\ pc["main"] # "finalize" => hand[g] = {}

\* The rest of a line fits the operations its side may still start, and its
\* requests have ids that are new, one each, when ids are not used again.
LineInv(l, side) ==
    /\ Cardinality(Starts(l)) <= Cardinality(side \ ToSet(order))
    /\ Reuse \/ \A j, k \in Starts(l) : l[j].id # NoId =>
          /\ \A o \in side : o \in ToSet(order) => opId[o] # l[j].id
          /\ l[j].id = l[k].id => j = k

\* The upstream is sent requests that were accepted.
WireInv == \A o \in line \cup forwarded : o \in ToSet(order) /\ opId[o] # NoId

\* The inductive invariant: the maps, hands and lines are well formed, and no
\* operation is in two places or has an outcome and is in one (OneTerminalEvent).
StdioInv ==
    /\ StdioTypeOK /\ OneTerminalEvent
    /\ \A o \in Ops : outcome[o] # <<>> => o \in ToSet(order)
    /\ MapInv(clientPending, ClientOps) /\ MapInv(serverPending, ServerOps)
    /\ \A g \in Goroutines : HandInv(g)
    /\ WireInv
    /\ LineInv(todo["client"], ClientOps) /\ LineInv(todo["server"], ServerOps)

\* A request is recorded as a success only when its own response reached the
\* client, even if the answer arrives after another goroutine expired the call.
SuccessWasRelayed ==
    \A o \in ClientOps :
        opId[o] # NoId /\ "success" \in ToSet(outcome[o]) => o \in answered

\* Every accepted operation eventually receives a terminal outcome, unless Run
\* returns first: a response, the TTL, or finalizeAll reaches each pending call,
\* so that from some moment on none is open.
TerminalOutcome ==
    <>[](\A o \in ToSet(order) : outcome[o] # <<>> \/ ~Running)
=============================================================================
