----------------------------- MODULE HTTPProxy ------------------------------
(***************************************************************************)
(* The HTTP proxy (internal/proxy/http.go): concurrent ServeHTTP handlers, *)
(* each with its own map of pending calls, the limiter they share, the     *)
(* retries of doUpstreamRequest, plain and event-stream responses, and     *)
(* ListenAndServe with its graceful shutdown.                              *)
(*                                                                         *)
(* A handler serves one request.  Its operations are the positions of the  *)
(* request's messages; the map of pending calls is the set of positions it *)
(* holds, because a call is keyed by its id, or by its own operation id    *)
(* when it has none.  Recording an outcome is Operation.Finalize, which    *)
(* AuditPipeline models.                                                   *)
(***************************************************************************)
EXTENDS Policy, Retry, FiniteSets

CONSTANTS
    Handlers,      \* goroutines of net/http, one request each
    Inbox,         \* handler -> the requests that may arrive there
    NoId,          \* the message has no id: a notification
    Statuses,      \* status codes the upstream answers with
    RetryAfters,   \* seconds its Retry-After header may say; 0 is none
    RetryPolicy,   \* what retryPolicy() returns
    MaxEvents,     \* bound: handler -> events of its stream
    MaxRefills     \* bound: tokens that time adds

\* NewHTTPProxy makes the intervals positive and the larger one the limit; the
\* milliseconds it is given are taken to fit a Duration.
ASSUME HTTPAssumption ==
    /\ \A h \in Handlers : \A r \in Inbox[h] : Len(r.msgs) \in Nat
    /\ Statuses \subseteq Nat \ {0}
    /\ RetryAfters \subseteq Nat
    /\ RetryPolicy.maxRetries \in Nat
    /\ RetryPolicy.max \in Nat
    /\ RetryPolicy.initial \in 1..RetryPolicy.max

VARIABLES
    pc, req,
    next,      \* position of the message observeHTTPRequest is at
    pending,   \* positions in the map of pending calls
    outcome,   \* outcomes recorded, as pairs of position and outcome
    attempt,   \* loop counter of doUpstreamRequest
    backoff,   \* its backoffAttempt
    wait,      \* the delay it sleeps, 0 when it does not
    executed,  \* history: how often the upstream carried the request out
    status,    \* status code of the response; 0 before there is one
    relayed,   \* history: what the client was sent, as pairs of id and kind
    events,    \* events of the stream so far
    gone,      \* the client has disconnected: the request context is cancelled
    server,    \* where ListenAndServe is
    refills

requestVars == <<req, next, pending, outcome, relayed>>
localVars == <<attempt, backoff, wait, events, gone>>
upstreamVars == <<executed, status>>
sharedVars == <<limiters, refills, server>>
vars == <<pc, requestVars, localVars, upstreamVars, sharedVars>>

NoMethod == ""   \* the method of a response
NoRequest == [method |-> NoMethod, client |-> "", msgs |-> <<>>]
Outcomes == {"success", "denied", "rate_limited", "upstream_error", "timeout",
             "client_disconnect", "malformed_upstream_response", "cancelled"}
Kinds == {"result", "error", "request"}

Msg(h, k) == req[h].msgs[k]
Positions(h) == 1..Len(req[h].msgs)
Ids(h) == {Msg(h, k).id : k \in Positions(h)} \ {NoId}

Init ==
    /\ pc = [h \in Handlers |-> "idle"]
    /\ req = [h \in Handlers |-> NoRequest]
    /\ next = [h \in Handlers |-> 1]
    /\ pending = [h \in Handlers |-> {}]
    /\ outcome = [h \in Handlers |-> {}]
    /\ attempt = [h \in Handlers |-> 0]
    /\ backoff = [h \in Handlers |-> 0]
    /\ wait = [h \in Handlers |-> 0]
    /\ executed = [h \in Handlers |-> 0]
    /\ status = [h \in Handlers |-> 0]
    /\ relayed = [h \in Handlers |-> {}]
    /\ events = [h \in Handlers |-> 0]
    /\ gone = [h \in Handlers |-> FALSE]
    /\ limiters = <<>>
    /\ refills = 0
    /\ server = "serving"

Goto(h, l) == pc' = [pc EXCEPT ![h] = l]

\* Record the outcomes S; the positions keep stay pending.
Record(h, S, keep) ==
    /\ outcome' = [outcome EXCEPT ![h] = @ \cup S]
    /\ pending' = [pending EXCEPT ![h] = keep]

-----------------------------------------------------------------------------
(* The request *)

\* The checks before the body is inspected: host, origin, authentication, the
\* size and the reading of the body, and the MCP metadata headers.  A request
\* that fails one is answered and leaves no operation.
Refuse(h) ==
    /\ pc[h] = "idle"
    /\ server = "serving"
    /\ Goto(h, "done")
    /\ UNCHANGED <<requestVars, localVars, upstreamVars, sharedVars>>

ServeHTTP(h, r) ==
    /\ pc[h] = "idle"
    /\ server = "serving"
    /\ Goto(h, "observe")
    /\ req' = [req EXCEPT ![h] = r]
    /\ UNCHANGED <<next, pending, outcome, relayed, localVars, upstreamVars, sharedVars>>

\* What the engine is asked about the message m of a client.
PolicyRequest(client, m) ==
    [client_id |-> {client}, method |-> {m.method}, name |-> {m.name},
     tool_name |-> {IF m.method = "tools/call" THEN m.name ELSE ""}, role |-> {}]

evaluatePolicy(h, k) == Evaluate(PolicyRequest(req[h].client, Msg(h, k)))

LimiterKey(h, k) == <<req[h].client, Msg(h, k).name>>
NeedsToken(h, k) == Msg(h, k).method = "tools/call"

\* Mutant: a denied message is left out and the rest of the batch is served.
SkipRejected(h, o) ==
    /\ Record(h, {<<next[h], o>>}, pending[h])
    /\ UNCHANGED pc
    /\ next' = [next EXCEPT ![h] = @ + 1]

\* A denied or limited message answers the whole request: the calls before it
\* are cancelled, the messages after it are not looked at.
Rejected(h, o) ==
    /\ Record(h, {<<next[h], o>>} \cup (pending[h] \X {"cancelled"}), {})
    /\ Goto(h, "done")
    /\ next' = [next EXCEPT ![h] = @ + 1]

\* A call with the id of a pending one takes its place in the map.
Accepted(h) ==
    LET k == next[h]
        same == {j \in pending[h] : Msg(h, j).id = Msg(h, k).id /\ Msg(h, k).id # NoId}
    IN  /\ pending' = [pending EXCEPT ![h] = (@ \ same) \cup {k}]
        /\ next' = [next EXCEPT ![h] = k + 1]
        /\ UNCHANGED <<outcome, pc>>

\* One turn of the loop of observeHTTPRequest.  Responses have no method and
\* are passed over.
ObserveMessage(h) ==
    LET k == next[h]
    IN  /\ pc[h] = "observe"
        /\ k \in Positions(h)
        /\ \/ /\ Msg(h, k).method = NoMethod
              /\ next' = [next EXCEPT ![h] = k + 1]
              /\ UNCHANGED <<pc, pending, outcome, limiters>>
           \/ /\ Msg(h, k).method # NoMethod
              /\ evaluatePolicy(h, k) = "deny"
              /\ Rejected(h, "denied")
              /\ UNCHANGED limiters
           \/ /\ Msg(h, k).method # NoMethod
              /\ evaluatePolicy(h, k) = "allow"
              /\ \/ NeedsToken(h, k) /\ Limited(LimiterKey(h, k)) /\ Rejected(h, "rate_limited")
                 \/ NeedsToken(h, k) /\ Take(LimiterKey(h, k)) /\ Accepted(h)
                 \/ ~NeedsToken(h, k) /\ Accepted(h) /\ UNCHANGED limiters
        /\ UNCHANGED <<req, relayed, localVars, upstreamVars, refills, server>>

ObserveEnd(h) ==
    /\ pc[h] = "observe"
    /\ next[h] \notin Positions(h)
    /\ Goto(h, "send")
    /\ UNCHANGED <<requestVars, localVars, upstreamVars, sharedVars>>

-----------------------------------------------------------------------------
(* The upstream *)

safeJSONRPCMethod(method) ==
    method \in {"initialize", "ping", "tools/list", "resources/list", "resources/read",
                "resources/templates/list", "prompts/list", "prompts/get", "completion/complete"}

\* Mutant: one safe message makes the request safe.
safeToRetryAny(h) ==
    \/ req[h].method \in {"GET", "HEAD", "OPTIONS"}
    \/ \E k \in Positions(h) : safeJSONRPCMethod(Msg(h, k).method)

\* A body that does not decode has no messages.
safeToRetry(h) ==
    \/ req[h].method \in {"GET", "HEAD", "OPTIONS"}
    \/ /\ req[h].method = "POST"
       /\ req[h].msgs # <<>>
       /\ \A k \in Positions(h) : safeJSONRPCMethod(Msg(h, k).method)

shouldRetryUpstream(h, bodyRead, code, err) ==
    /\ safeToRetry(h)
    /\ ~(err /\ bodyRead)
    /\ CanRetry(RetryPolicy, attempt[h], code, err)

httpFailureOutcome(cause) ==
    CASE cause = "timeout" -> "timeout"
      [] cause = "canceled" -> "client_disconnect"
      [] cause = "network" -> "upstream_error"
\* The request context is cancelled only by the client.
Causes(h) == {"timeout", "network"} \cup (IF gone[h] THEN {"canceled"} ELSE {})

\* The handler returns and its local variables are gone.
Return(h) ==
    /\ Goto(h, "done")
    /\ attempt' = [attempt EXCEPT ![h] = 0]
    /\ backoff' = [backoff EXCEPT ![h] = 0]
    /\ wait' = [wait EXCEPT ![h] = 0]
    /\ events' = [events EXCEPT ![h] = 0]
    /\ gone' = [gone EXCEPT ![h] = FALSE]

\* The handler ends with one outcome for whatever is pending.
finalizeHTTPPending(h, o) ==
    /\ Record(h, pending[h] \X {o}, {})
    /\ Return(h)

\* Sleep before the next attempt; Retry-After replaces the exponential delay
\* and does not count as a backoff.
Sleep(h, retryAfter) ==
    LET d == Delay(RetryPolicy, backoff[h], retryAfter)
    IN  /\ wait' = [wait EXCEPT ![h] = IF d <= 0 THEN RetryPolicy.initial ELSE d]
        /\ backoff' = [backoff EXCEPT ![h] = IF retryAfter <= 0 THEN @ + 1 ELSE @]
        /\ Goto(h, "backoff")
        /\ UNCHANGED <<pending, outcome, attempt, events, gone>>

\* client.Do fails, before or after the transport read the body; what reached
\* the upstream may have been carried out.
DoFails(h) ==
    /\ pc[h] = "send"
    /\ \E cause \in Causes(h), bodyRead \in {FALSE, req[h].method = "POST"}, ran \in 0..1 :
          /\ ran = 1 => bodyRead \/ req[h].method # "POST"
          /\ executed' = [executed EXCEPT ![h] = @ + ran]
          /\ IF shouldRetryUpstream(h, bodyRead, 0, TRUE)
             THEN Sleep(h, 0)
             ELSE finalizeHTTPPending(h, httpFailureOutcome(cause))
    /\ UNCHANGED <<req, next, relayed, status, sharedVars>>

\* client.Do returns a response.
DoAnswers(h) ==
    /\ pc[h] = "send"
    /\ \E code \in Statuses, sse \in BOOLEAN, seconds \in RetryAfters :
          /\ seconds # 0 => code \in RetryPolicy.statuses
          /\ executed' = [executed EXCEPT ![h] = @ + 1]
          /\ IF shouldRetryUpstream(h, TRUE, code, FALSE)
             THEN Sleep(h, ParseRetryAfter(seconds)) /\ UNCHANGED status
             ELSE /\ status' = [status EXCEPT ![h] = code]
                  /\ Goto(h, IF sse THEN "stream" ELSE "read")
                  /\ UNCHANGED <<pending, outcome, localVars>>
    /\ UNCHANGED <<req, next, relayed, sharedVars>>

\* Mutant: the sleep listens to the client only.
BackoffEndsOnCancel(h) ==
    /\ pc[h] = "backoff"
    /\ gone[h] /\ finalizeHTTPPending(h, httpFailureOutcome("canceled"))
    /\ UNCHANGED <<req, next, relayed, upstreamVars, sharedVars>>

\* The sleep ends, or the client leaves during it.
BackoffEnds(h) ==
    /\ pc[h] = "backoff"
    /\ \/ /\ Goto(h, "send")
          /\ wait' = [wait EXCEPT ![h] = 0]
          /\ attempt' = [attempt EXCEPT ![h] = @ + 1]
          /\ UNCHANGED <<pending, outcome, backoff, events, gone>>
       \/ gone[h] /\ finalizeHTTPPending(h, httpFailureOutcome("canceled"))
    /\ UNCHANGED <<req, next, relayed, upstreamVars, sharedVars>>

-----------------------------------------------------------------------------
(* The response *)

\* Outcomes observeHTTPResponse records for the calls that msgs answers.
Answered(h, msgs) ==
    {<<k, IF status[h] >= 400 \/ <<Msg(h, k).id, "error">> \in msgs
          THEN "upstream_error" ELSE "success">> :
        k \in {j \in pending[h] : \E kind \in Kinds : <<Msg(h, j).id, kind>> \in msgs}}

\* Mutant: what was not answered counts as done.
RemainderSucceeds(h, P) ==
    {<<k, IF status[h] >= 400 THEN "upstream_error" ELSE "success">> : k \in P}

\* Outcomes finalizeHTTPRemainder records for the calls P left at the end.
Remainder(h, P) ==
    {<<k, CASE status[h] >= 400 -> "upstream_error"
            [] status[h] < 400 /\ Msg(h, k).id = NoId -> "success"
            [] status[h] < 400 /\ Msg(h, k).id # NoId -> "malformed_upstream_response">> : k \in P}

\* Reading the response, or writing it to the client, fails.
ResponseFails(h) ==
    /\ pc[h] \in {"read", "stream"}
    /\ \/ \E cause \in Causes(h) : finalizeHTTPPending(h, httpFailureOutcome(cause))
       \/ finalizeHTTPPending(h, "client_disconnect")
    /\ UNCHANGED <<req, next, relayed, upstreamVars, sharedVars>>

\* A body that was read and written to the client is observed; one that does
\* not decode answers nothing.
Respond(h) ==
    /\ pc[h] = "read"
    /\ \E A \in SUBSET Ids(h) : \E kind \in [A -> {"result", "error"}] :
          LET msgs == {<<i, kind[i]>> : i \in A}
              done == Answered(h, msgs)
              left == {k \in pending[h] : \A o \in Outcomes : <<k, o>> \notin done}
          IN  /\ relayed' = [relayed EXCEPT ![h] = @ \cup msgs]
              /\ Record(h, done \cup Remainder(h, left), {})
    /\ Return(h)
    /\ UNCHANGED <<req, next, upstreamVars, sharedVars>>

\* An event of the stream is written to the client and then observed.  Only its
\* id is looked at: a request of the upstream is taken for the answer to the
\* pending call with that id.
StreamEvent(h) ==
    /\ pc[h] = "stream"
    /\ events[h] < MaxEvents[h]
    /\ events' = [events EXCEPT ![h] = @ + 1]
    /\ \E m \in Ids(h) \X Kinds :
          /\ relayed' = [relayed EXCEPT ![h] = @ \cup {m}]
          /\ Record(h, Answered(h, {m}), {k \in pending[h] : Msg(h, k).id # m[1]})
    /\ UNCHANGED <<pc, req, next, attempt, backoff, wait, gone, upstreamVars, sharedVars>>

\* An event that does not decode ends the accounting, not the stream.
StreamJunk(h) ==
    /\ pc[h] = "stream"
    /\ events[h] < MaxEvents[h]
    /\ events' = [events EXCEPT ![h] = @ + 1]
    /\ Record(h, Remainder(h, pending[h]), {})
    /\ UNCHANGED <<pc, req, next, relayed, attempt, backoff, wait, gone, upstreamVars, sharedVars>>

\* Mutant: the end of the stream leaves the unanswered calls alone.
StreamEndForgets(h) ==
    /\ pc[h] = "stream"
    /\ Goto(h, "done")
    /\ UNCHANGED <<requestVars, localVars, upstreamVars, sharedVars>>

StreamEnd(h) ==
    /\ pc[h] = "stream"
    /\ Record(h, Remainder(h, pending[h]), {})
    /\ Return(h)
    /\ UNCHANGED <<req, next, relayed, upstreamVars, sharedVars>>

-----------------------------------------------------------------------------
(* The client, time and the server *)

Disconnect(h) ==
    /\ pc[h] \notin {"idle", "done"}
    /\ ~gone[h]
    /\ gone' = [gone EXCEPT ![h] = TRUE]
    /\ UNCHANGED <<pc, requestVars, attempt, backoff, wait, events, upstreamVars, sharedVars>>

RefillBucket ==
    /\ refills < MaxRefills
    /\ \E key \in DOMAIN limiters : Refill(key)
    /\ refills' = refills + 1
    /\ UNCHANGED <<pc, requestVars, localVars, upstreamVars, server>>

\* The context of ListenAndServe ends, or the listener fails on its own.
ServeEnds ==
    /\ server = "serving"
    /\ server' \in {"draining", "failed"}
    /\ UNCHANGED <<pc, requestVars, localVars, upstreamVars, limiters, refills>>

\* Shutdown waits for the handlers; after its deadline ListenAndServe returns
\* an error while they still run.
Shutdown ==
    /\ server = "draining"
    /\ \/ server' = "stopped" /\ \A h \in Handlers : pc[h] \in {"idle", "done"}
       \/ server' = "failed"
    /\ UNCHANGED <<pc, requestVars, localVars, upstreamVars, limiters, refills>>

HandlerStep(h) ==
    \/ ObserveMessage(h) \/ ObserveEnd(h)
    \/ DoFails(h) \/ DoAnswers(h) \/ BackoffEnds(h)
    \/ ResponseFails(h) \/ Respond(h)
    \/ StreamEvent(h) \/ StreamJunk(h) \/ StreamEnd(h)

Next ==
    \/ \E h \in Handlers :
          \/ Refuse(h)
          \/ \E r \in Inbox[h] : ServeHTTP(h, r)
          \/ HandlerStep(h)
          \/ Disconnect(h)
    \/ RefillBucket
    \/ ServeEnds
    \/ Shutdown

\* Handlers keep running: the client of the upstream has a timeout that covers
\* the attempt and its response, sleeps end, and Shutdown has a deadline.
Fairness ==
    /\ \A h \in Handlers : WF_vars(HandlerStep(h))
    /\ WF_vars(Shutdown)

SafetySpec == Init /\ [][Next]_vars
Spec == SafetySpec /\ Fairness

-----------------------------------------------------------------------------
(* Properties *)

HTTPTypeOK ==
    /\ pc \in [Handlers -> {"idle", "observe", "send", "backoff", "read", "stream", "done"}]
    /\ DOMAIN req = Handlers /\ \A h \in Handlers : req[h] \in Inbox[h] \cup {NoRequest}
    /\ next \in [Handlers -> Nat \ {0}]
    /\ pending \in [Handlers -> SUBSET Nat]
    /\ outcome \in [Handlers -> SUBSET (Nat \X Outcomes)]
    /\ DOMAIN relayed = Handlers
    /\ attempt \in [Handlers -> 0..RetryPolicy.maxRetries]
    /\ backoff \in [Handlers -> 0..RetryPolicy.maxRetries]
    /\ wait \in [Handlers -> 0..RetryPolicy.max]
    /\ executed \in [Handlers -> 0..RetryPolicy.maxRetries + 1]
    /\ status \in [Handlers -> Statuses \cup {0}]
    /\ events \in [Handlers -> Nat]
    /\ gone \in [Handlers -> BOOLEAN]
    /\ \A key \in DOMAIN limiters : limiters[key] \in 0..RequestsPerMinute
    /\ refills \in Nat
    /\ server \in {"serving", "draining", "stopped", "failed"}

\* Messages that became operations, and those a later message of the same
\* request took the map entry from.
Operations(h) == {k \in 1..next[h] - 1 : Msg(h, k).method # NoMethod}
Overwritten(h) ==
    {k \in Operations(h) : \E j \in Operations(h) :
        j > k /\ Msg(h, j).id = Msg(h, k).id /\ Msg(h, k).id # NoId}
Recorded(h) == {p[1] : p \in outcome[h]}

\* "Accepted requests have one terminal audit outcome": no call gets two, and
\* when its handler has returned each has one, whichever of denial, failure,
\* retry, plain response and stream ended it.  So it is for all of them when
\* ListenAndServe has returned nil, before main closes the store.  The one
\* exception is a call whose id a later message of the same batch repeats:
\* http.go:530 forgets it.
OneOutcome ==
    \A h \in Handlers :
        /\ \A p, q \in outcome[h] : p[1] = q[1] => p = q
        /\ pc[h] = "done" \/ server = "stopped" =>
              pending[h] = {} /\ Operations(h) \ Overwritten(h) \subseteq Recorded(h)

\* A call is recorded as a success only when a message with its id and without
\* an error was relayed to the client, a notification only when the upstream
\* took the request.  The message is the call's answer unless it is a request
\* of the upstream that happens to use the same id.
SuccessWasRelayed ==
    \A h \in Handlers : \A k \in Positions(h) : <<k, "success">> \in outcome[h] =>
        IF Msg(h, k).id = NoId
        THEN executed[h] > 0 /\ status[h] < 400
        ELSE relayed[h] \cap {<<Msg(h, k).id, "result">>, <<Msg(h, k).id, "request">>} # {}

\* Methods and messages of MCP that do something: a call, a change of what the
\* server does for the client, a notification, a response.
Acting == {NoMethod, "tools/call", "logging/setLevel", "resources/subscribe", "resources/unsubscribe",
           "notifications/initialized", "notifications/progress", "notifications/cancelled"}

\* Retries never repeat an effect: a request with a body that does not decode,
\* or that holds a message that does something, is carried out by the upstream
\* at most once, although failures say nothing about whether it was.
UnsafeAtMostOnce ==
    \A h \in Handlers :
        executed[h] > 1 /\ req[h].method \notin {"GET", "HEAD", "OPTIONS"} =>
            /\ req[h].msgs # <<>>
            /\ \A k \in Positions(h) : Msg(h, k).method \notin Acting

\* The first rule that selects the message allows it, or none does and the
\* default action allows it.
Permitted(client, m) ==
    LET hit == Matching(PolicyRequest(client, m))
    IN  \/ m.method = NoMethod \/ ~Engine.enabled
        \/ Engine.scope = "tools_only" /\ m.method # "tools/call"
        \/ hit = {} /\ Engine.default = "allow"
        \/ \E i \in hit : Engine.rules[i].action = "allow" /\ \A j \in hit : i <= j

\* No message that policy denies or the limiter refused reaches the upstream,
\* not even in a batch with messages that are allowed.
DeniedNeverForwarded ==
    \A h \in Handlers : pc[h] \in {"send", "backoff", "read", "stream"} \/ executed[h] > 0 =>
        \A k \in Positions(h) :
            /\ Permitted(req[h].client, Msg(h, k))
            /\ {<<k, "denied">>, <<k, "rate_limited">>} \cap outcome[h] = {}

\* Tool calls that the limiter let through.
Admitted(h) ==
    {k \in Operations(h) :
        NeedsToken(h, k) /\ {<<k, "denied">>, <<k, "rate_limited">>} \cap outcome[h] = {}}
AdmittedFor(key) ==
    UNION {{h} \X {k \in Admitted(h) : LimiterKey(h, k) = key} : h \in Handlers}

\* Concurrent handlers together never get more tool calls of one client past
\* the limiter than its bucket held and time added.
RateBound ==
    \A h \in Handlers : \A k \in Admitted(h) :
        Cardinality(AdmittedFor(LimiterKey(h, k))) <= RequestsPerMinute + refills

\* What reaches the upstream was admitted: by policy and limiter each message of
\* its batch (DeniedNeverForwarded), and by the shared bucket in number (RateBound).
OnlyAdmitted == DeniedNeverForwarded /\ RateBound

\* Whatever Retry-After says, also a number of seconds that overflows, the
\* proxy sleeps for a positive time within the configured interval.
BackoffBounded ==
    \A h \in Handlers : pc[h] = "backoff" => wait[h] \in 1..RetryPolicy.max

\* Where a handler is says what it has done so far.
StageInv(h) ==
    /\ pc[h] = "idle" => req[h] = NoRequest /\ next[h] = 1
    /\ next[h] <= Len(req[h].msgs) + 1
    /\ pc[h] \in {"send", "backoff", "read", "stream"} \/ executed[h] > 0 =>
          next[h] = Len(req[h].msgs) + 1
    /\ pc[h] \in {"idle", "observe", "send", "backoff"} => outcome[h] = {} /\ status[h] = 0
    /\ pc[h] \in {"idle", "observe"} => executed[h] = 0
    /\ pc[h] = "done" => pending[h] = {}

\* Every call that was not overwritten is pending or has its one outcome.
OutcomeInv(h) ==
    /\ pending[h] \subseteq Operations(h) \ Recorded(h)
    /\ Recorded(h) \subseteq Operations(h)
    /\ \A p, q \in outcome[h] : p[1] = q[1] => p = q
    /\ Operations(h) \ Overwritten(h) \subseteq Recorded(h) \cup pending[h]

\* An attempt carries the request out once at most, and only a request that is
\* safe to repeat gets a second one.
RetryInv(h) ==
    /\ pc[h] \in {"idle", "observe"} => attempt[h] = 0 /\ backoff[h] = 0
    /\ pc[h] = "send" => backoff[h] <= attempt[h] /\ executed[h] <= attempt[h]
    /\ pc[h] = "backoff" =>
          attempt[h] < RetryPolicy.maxRetries /\ backoff[h] <= attempt[h] + 1
          /\ executed[h] <= attempt[h] + 1
    /\ pc[h] \in {"read", "stream"} => executed[h] > 0
    /\ executed[h] > 1 \/ (executed[h] > 0 /\ pc[h] \in {"send", "backoff"}) => safeToRetry(h)

\* The messages looked at so far were admitted, unless one ended the request.
PolicyInv(h) ==
    /\ pc[h] = "observe" \/ executed[h] > 0 \/ pc[h] \in {"send", "backoff", "read", "stream"} =>
          /\ \A k \in 1..next[h] - 1 : Permitted(req[h].client, Msg(h, k))
          /\ \A p \in outcome[h] : p[2] \notin {"denied", "rate_limited"}

\* Tokens are neither lost nor made: what was let through and what is left come
\* from the full bucket and from time.
TokenInv ==
    /\ \A h \in Handlers : \A k \in Admitted(h) : LimiterKey(h, k) \in DOMAIN limiters
    /\ \A key \in DOMAIN limiters :
          /\ IsFiniteSet(AdmittedFor(key))
          /\ Cardinality(AdmittedFor(key)) + limiters[key] <= RequestsPerMinute + refills

\* The inductive invariant: the handlers' state is well formed, the attempts
\* within MaxRetries and the sleeps within their bounds (BackoffBounded), calls
\* and tokens are accounted for, and a stopped server has no running handler.
HTTPInv ==
    /\ HTTPTypeOK /\ BackoffBounded /\ TokenInv
    /\ \A h \in Handlers : StageInv(h) /\ OutcomeInv(h) /\ RetryInv(h) /\ PolicyInv(h)
    /\ server = "stopped" => \A h \in Handlers : pc[h] \in {"idle", "done"}

\* Every handler returns, and so does ListenAndServe once its context ends.
Terminates ==
    <>[](/\ \A h \in Handlers : pc[h] \in {"idle", "done"}
         /\ server # "draining")
=============================================================================
