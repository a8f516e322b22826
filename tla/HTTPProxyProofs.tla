--------------------------- MODULE HTTPProxyProofs --------------------------
(***************************************************************************)
(* The HTTP proxy for every set of handlers and requests, every policy,    *)
(* bucket size and retry policy: HTTPInv is inductive, and the properties  *)
(* of the run follow from it.                                              *)
(*                                                                         *)
(* Handlers share the limiter only.  A step of one handler leaves what the *)
(* invariant says of another alone (Rests), so the induction looks at the  *)
(* handler that moves, and at the tokens separately.                       *)
(***************************************************************************)
EXTENDS HTTPProxy, FiniteSetTheorems, WellFoundedInduction, TLAPS

-----------------------------------------------------------------------------
(* Policy and delays.                                                      *)

LEMMA RangeNat == ASSUME NEW n \in Nat PROVE 1..n \subseteq Nat
OBVIOUS

\* A set of positions has a first one.
LEMMA FirstExists ==
    ASSUME NEW T, T \subseteq Nat, T # {}
    PROVE  Min(T) \in T /\ \A j \in T : Min(T) <= j
<1>1. PICK x \in T : \A y \in T : ~(<<y, x>> \in OpToRel(<, Nat))
  BY WFMin, NatLessThanWellFounded
<1>2. ASSUME NEW y \in T, y < x PROVE FALSE
  <2>1. x \in Nat /\ y \in Nat
    OBVIOUS
  <2>2. <<y, x>> \in OpToRel(<, Nat)
    BY <1>2, <2>1 DEF OpToRel
  <2>3. QED
    BY <1>1, <2>2
<1>3. \A y \in T : x <= y
  BY <1>2
<1>4. QED
  BY <1>3 DEF Min

\* What the engine allows is permitted: the first matching rule decides.
LEMMA AllowedIsPermitted ==
    ASSUME NEW client, NEW m, m.method # NoMethod,
           Evaluate(PolicyRequest(client, m)) = "allow"
    PROVE  Permitted(client, m)
<1> DEFINE r == PolicyRequest(client, m)
           hit == Matching(r)
<1>1. hit \subseteq Nat
  <2>1. \A i \in hit : i \in 1..Len(Engine.rules)
    BY DEF Matching
  <2>2. Len(Engine.rules) \in Nat
    BY PolicyAssumption
  <2>3. QED
    BY <2>1, <2>2, RangeNat, Zenon
<1>2. r["method"] # {"tools/call"} => m.method # "tools/call"
  BY DEF PolicyRequest
<1>3. CASE hit # {} /\ Engine.rules[Min(hit)].action = "allow"
  <2>1. Min(hit) \in hit /\ \A j \in hit : Min(hit) <= j
    BY <1>1, <1>3, FirstExists
  <2>2. QED
    BY <1>3, <2>1 DEF Permitted
<1>4. CASE hit = {} /\ Engine.default = "allow"
  BY <1>4 DEF Permitted
<1>5. CASE ~Engine.enabled \/ (Engine.scope = "tools_only" /\ r["method"] # {"tools/call"})
  BY <1>2, <1>5 DEF Permitted
<1>6. QED
  BY <1>3, <1>4, <1>5 DEF Evaluate

\* Sleep waits for a positive time within the interval, whatever the header
\* said and however often the proxy backed off.
LEMMA DelayBounded ==
    ASSUME NEW n \in Nat, NEW retryAfter \in Int
    PROVE  LET d == Delay(RetryPolicy, n, retryAfter)
           IN  (IF d <= 0 THEN RetryPolicy.initial ELSE d) \in 1..RetryPolicy.max
<1>1. /\ RetryPolicy.initial \in Nat /\ RetryPolicy.max \in Nat
      /\ RetryPolicy.initial > 0 /\ RetryPolicy.initial <= RetryPolicy.max
  BY HTTPAssumption
<1>2. RetryPolicy.initial * 2^n \in Int /\ MaxInt \in Int
  BY <1>1, RetryAssumption DEF MaxInt
<1>3. \A x \in Int : capDelay(x, RetryPolicy.max) \in Int /\ capDelay(x, RetryPolicy.max) <= RetryPolicy.max
  BY <1>1 DEF capDelay
<1>4. Delay(RetryPolicy, n, retryAfter) \in Int /\ Delay(RetryPolicy, n, retryAfter) <= RetryPolicy.max
  BY <1>1, <1>2, <1>3 DEF Delay
<1>5. QED
  BY <1>1, <1>4

LEMMA RetryAfterInt == ASSUME NEW s \in Nat PROVE ParseRetryAfter(s) \in Int
BY RetryAssumption DEF ParseRetryAfter, Wrap

-----------------------------------------------------------------------------
(* One handler.                                                            *)

\* What HTTPInv says of one handler.
HandlerInv(h) ==
    /\ StageInv(h) /\ OutcomeInv(h) /\ RetryInv(h) /\ PolicyInv(h)
    /\ pc[h] = "backoff" => wait[h] \in 1..RetryPolicy.max

StoppedInv == server = "stopped" => \A h \in Handlers : pc[h] \in {"idle", "done"}

LEMMA InvParts ==
    HTTPInv <=> HTTPTypeOK /\ TokenInv /\ StoppedInv /\ \A h \in Handlers : HandlerInv(h)
BY DEF HTTPInv, HandlerInv, StoppedInv, BackoffBounded

\* The handler g stays as it is; a disconnect and its stream do not matter.
Rests(g) ==
    /\ pc'[g] = pc[g] /\ req'[g] = req[g] /\ next'[g] = next[g]
    /\ pending'[g] = pending[g] /\ outcome'[g] = outcome[g] /\ relayed'[g] = relayed[g]
    /\ attempt'[g] = attempt[g] /\ backoff'[g] = backoff[g] /\ wait'[g] = wait[g]
    /\ executed'[g] = executed[g] /\ status'[g] = status[g]

\* The messages of a request do not change while the handler has it.
LEMMA SameMessages ==
    ASSUME NEW h, req'[h] = req[h]
    PROVE  /\ \A k : Msg(h, k)' = Msg(h, k)
           /\ Positions(h)' = Positions(h) /\ Ids(h)' = Ids(h)
           /\ safeToRetry(h)' <=> safeToRetry(h)
<1>1. Positions(h)' = Positions(h) /\ \A k : Msg(h, k)' = Msg(h, k)
  BY DEF Msg, Positions
<1>2. Ids(h)' = Ids(h)
  BY <1>1 DEF Ids
<1>3. safeToRetry(h)' <=> safeToRetry(h)
  BY <1>1 DEF safeToRetry
<1>4. QED
  BY <1>1, <1>2, <1>3

LEMMA SameOperations ==
    ASSUME NEW h, req'[h] = req[h], next'[h] = next[h]
    PROVE  Operations(h)' = Operations(h) /\ Overwritten(h)' = Overwritten(h)
<1>1. Operations(h)' = Operations(h)
  BY SameMessages DEF Operations
<1>2. QED
  BY <1>1, SameMessages DEF Overwritten

LEMMA RestsKeeps ==
    ASSUME NEW g, Rests(g), HandlerInv(g)
    PROVE  HandlerInv(g)'
<1>1. /\ \A k : Msg(g, k)' = Msg(g, k)
      /\ Positions(g)' = Positions(g) /\ (safeToRetry(g)' <=> safeToRetry(g))
      /\ Operations(g)' = Operations(g) /\ Overwritten(g)' = Overwritten(g)
  BY SameMessages, SameOperations DEF Rests
<1>2. Recorded(g)' = Recorded(g)
  BY DEF Recorded, Rests
<1>3. StageInv(g)' /\ (pc[g] = "backoff" => wait[g] \in 1..RetryPolicy.max)'
  BY DEF HandlerInv, StageInv, Rests
<1>4. OutcomeInv(g)'
  BY <1>1, <1>2 DEF HandlerInv, OutcomeInv, Rests
<1>5. RetryInv(g)'
  BY <1>1 DEF HandlerInv, RetryInv, Rests
<1>6. PolicyInv(g)'
  BY <1>1 DEF HandlerInv, PolicyInv, Rests
<1>7. QED
  BY <1>3, <1>4, <1>5, <1>6 DEF HandlerInv

\* A handler takes calls out of the map and gives each its outcome.
LEMMA RecordKeeps ==
    ASSUME HTTPTypeOK, NEW h \in Handlers, OutcomeInv(h), req'[h] = req[h], next'[h] = next[h],
           NEW S, NEW keep, Record(h, S, keep),
           S \subseteq pending[h] \X Outcomes,
           \A p, q \in S : p[1] = q[1] => p = q,
           keep \subseteq pending[h],
           \A k \in keep : \A p \in S : p[1] # k,
           \A k \in pending[h] : k \in keep \/ \E p \in S : p[1] = k
    PROVE  OutcomeInv(h)'
<1>1. outcome'[h] = outcome[h] \cup S /\ pending'[h] = keep
  BY DEF Record, HTTPTypeOK
<1>2. Operations(h)' = Operations(h) /\ Overwritten(h)' = Overwritten(h)
  BY SameOperations
<1>3. Recorded(h)' = Recorded(h) \cup {p[1] : p \in S}
  BY <1>1 DEF Recorded
<1>4. \A k \in {p[1] : p \in S} : k \in pending[h] /\ k \notin keep
  OBVIOUS
<1>5. pending[h] \subseteq keep \cup {p[1] : p \in S}
  OBVIOUS
<1>6. pending[h] \subseteq Operations(h) \ Recorded(h) /\ Recorded(h) \subseteq Operations(h)
  BY DEF OutcomeInv
<1>7. \A p \in outcome[h], q \in S : p[1] # q[1]
  <2>1. \A p \in outcome[h] : p[1] \in Recorded(h)
    BY DEF Recorded
  <2>2. QED
    BY <1>4, <1>6, <2>1
<1>8. \A p, q \in outcome'[h] : p[1] = q[1] => p = q
  BY <1>1, <1>7 DEF OutcomeInv
<1>9. Operations(h) \ Overwritten(h) \subseteq Recorded(h) \cup pending[h]
  BY DEF OutcomeInv
<1>10. QED
  BY <1>1, <1>2, <1>3, <1>4, <1>5, <1>6, <1>8, <1>9 DEF OutcomeInv

\* The others rest when only the variables of h change.
Others(h) == \A g \in Handlers \ {h} : Rests(g)

LEMMA RecordType ==
    ASSUME HTTPTypeOK, NEW h \in Handlers, NEW S, NEW keep, Record(h, S, keep),
           S \subseteq Nat \X Outcomes, keep \subseteq Nat
    PROVE  /\ outcome' \in [Handlers -> SUBSET (Nat \X Outcomes)]
           /\ pending' \in [Handlers -> SUBSET Nat]
           /\ outcome'[h] = outcome[h] \cup S /\ pending'[h] = keep
           /\ \A g \in Handlers \ {h} : outcome'[g] = outcome[g] /\ pending'[g] = pending[g]
<1>1. outcome[h] \cup S \subseteq Nat \X Outcomes
  BY DEF HTTPTypeOK
<1>2. QED
  BY <1>1 DEF HTTPTypeOK, Record

LEMMA ReturnType ==
    ASSUME HTTPTypeOK, NEW h \in Handlers, Return(h)
    PROVE  /\ pc' \in [Handlers -> {"idle", "observe", "send", "backoff", "read", "stream", "done"}]
           /\ attempt' \in [Handlers -> 0..RetryPolicy.maxRetries]
           /\ backoff' \in [Handlers -> 0..RetryPolicy.maxRetries]
           /\ wait' \in [Handlers -> 0..RetryPolicy.max]
           /\ events' \in [Handlers -> Nat]
           /\ gone' \in [Handlers -> BOOLEAN]
           /\ pc'[h] = "done"
           /\ \A g \in Handlers \ {h} : /\ pc'[g] = pc[g] /\ attempt'[g] = attempt[g]
                                        /\ backoff'[g] = backoff[g] /\ wait'[g] = wait[g]
<1>1. RetryPolicy.maxRetries \in Nat /\ RetryPolicy.max \in Nat
  BY HTTPAssumption
<1>2. QED
  BY <1>1 DEF HTTPTypeOK, Return, Goto

\* The ways a handler that reached the upstream returns.
LEMMA HandlerEnds ==
    ASSUME HTTPInv, NEW h \in Handlers, pc[h] \in {"send", "backoff", "read", "stream"},
           NEW S, Record(h, S, {}), Return(h),
           S \subseteq pending[h] \X (Outcomes \ {"denied", "rate_limited"}),
           \A p, q \in S : p[1] = q[1] => p = q,
           \A k \in pending[h] : \E p \in S : p[1] = k,
           UNCHANGED <<req, next, status, sharedVars>>,
           DOMAIN relayed' = Handlers, \A g \in Handlers \ {h} : relayed'[g] = relayed[g],
           NEW ran \in 0..1, ran = 1 => pc[h] = "send",
           executed' = [executed EXCEPT ![h] = @ + ran]
    PROVE  HTTPTypeOK' /\ HandlerInv(h)' /\ Others(h)
<1>1. HTTPTypeOK /\ HandlerInv(h)
  BY InvParts
<1>2. pending[h] \subseteq Nat /\ executed[h] \in 0..RetryPolicy.maxRetries + 1
  BY <1>1 DEF HTTPTypeOK
<1>3. /\ outcome' \in [Handlers -> SUBSET (Nat \X Outcomes)]
      /\ pending' \in [Handlers -> SUBSET Nat]
      /\ outcome'[h] = outcome[h] \cup S /\ pending'[h] = {}
      /\ \A g \in Handlers \ {h} : outcome'[g] = outcome[g] /\ pending'[g] = pending[g]
  BY <1>1, <1>2, RecordType
<1>4. RetryPolicy.maxRetries \in Nat /\ attempt[h] \in 0..RetryPolicy.maxRetries
  BY <1>1, HTTPAssumption DEF HTTPTypeOK
<1>5. executed[h] + ran \in 0..RetryPolicy.maxRetries + 1
  <2>1. CASE ran = 0
    BY <1>2, <1>4, <2>1
  <2>2. CASE ran = 1
    BY <1>1, <1>2, <1>4, <2>2 DEF HandlerInv, RetryInv
  <2>3. QED
    BY <2>1, <2>2
<1>6. /\ executed' \in [Handlers -> 0..RetryPolicy.maxRetries + 1]
      /\ executed'[h] = executed[h] + ran
      /\ \A g \in Handlers \ {h} : executed'[g] = executed[g]
  BY <1>1, <1>5 DEF HTTPTypeOK
<1>7. HTTPTypeOK'
  BY <1>1, <1>3, <1>6, ReturnType DEF HTTPTypeOK, sharedVars
<1>8. Others(h)
  BY <1>1, <1>3, <1>6, ReturnType DEF Others, Rests
<1>9. pc'[h] = "done" /\ req'[h] = req[h] /\ next'[h] = next[h]
  BY <1>1, ReturnType
<1>10. OutcomeInv(h)'
  BY <1>1, <1>9, RecordKeeps DEF HandlerInv
<1>11. StageInv(h)'
  BY <1>1, <1>3, <1>9 DEF HandlerInv, StageInv
<1>12. RetryInv(h)'
  <2>1. executed'[h] > 1 => safeToRetry(h)
    BY <1>1, <1>2, <1>6 DEF HandlerInv, RetryInv
  <2>2. QED
    BY <1>9, <2>1, SameMessages DEF RetryInv
<1>13. PolicyInv(h)'
  <2>1. /\ \A k \in 1..next[h] - 1 : Permitted(req[h].client, Msg(h, k))
        /\ \A p \in outcome[h] : p[2] \notin {"denied", "rate_limited"}
    BY <1>1 DEF HandlerInv, PolicyInv
  <2>2. QED
    BY <1>3, <1>9, <2>1, SameMessages, SMTT(60) DEF PolicyInv
<1>14. QED
  BY <1>7, <1>8, <1>9, <1>10, <1>11, <1>12, <1>13 DEF HandlerInv

LEMMA FinalizeEnds ==
    ASSUME HTTPInv, NEW h \in Handlers, pc[h] \in {"send", "backoff", "read", "stream"},
           NEW o \in Outcomes \ {"denied", "rate_limited"}, finalizeHTTPPending(h, o),
           UNCHANGED <<req, next, relayed, status, sharedVars>>,
           NEW ran \in 0..1, ran = 1 => pc[h] = "send",
           executed' = [executed EXCEPT ![h] = @ + ran]
    PROVE  HTTPTypeOK' /\ HandlerInv(h)' /\ Others(h)
<1> DEFINE S == pending[h] \X {o}
<1>1. Record(h, S, {}) /\ Return(h)
  BY DEF finalizeHTTPPending
<1>2. /\ S \subseteq pending[h] \X (Outcomes \ {"denied", "rate_limited"})
      /\ \A p, q \in S : p[1] = q[1] => p = q
  OBVIOUS
<1>3. \A k \in pending[h] : \E p \in S : p[1] = k
  <2> TAKE k \in pending[h]
  <2>1. <<k, o>> \in S /\ <<k, o>>[1] = k
    OBVIOUS
  <2>2. QED
    BY <2>1
<1>4. DOMAIN relayed' = Handlers /\ \A g \in Handlers \ {h} : relayed'[g] = relayed[g]
  BY InvParts DEF HTTPTypeOK
<1> HIDE DEF S
<1>5. QED
  BY <1>1, <1>2, <1>3, <1>4, HandlerEnds

\* The handler goes to sleep before another attempt.
LEMMA HandlerSleeps ==
    ASSUME HTTPInv, NEW h \in Handlers, pc[h] = "send",
           NEW retryAfter \in Int, Sleep(h, retryAfter),
           attempt[h] < RetryPolicy.maxRetries, safeToRetry(h),
           UNCHANGED <<req, next, relayed, status, sharedVars>>,
           NEW ran \in 0..1, executed' = [executed EXCEPT ![h] = @ + ran]
    PROVE  HTTPTypeOK' /\ HandlerInv(h)' /\ Others(h)
<1>1. HTTPTypeOK /\ HandlerInv(h)
  BY InvParts
<1>2. /\ RetryPolicy.maxRetries \in Nat /\ RetryPolicy.max \in Nat
      /\ attempt[h] \in 0..RetryPolicy.maxRetries /\ backoff[h] \in 0..RetryPolicy.maxRetries
      /\ executed[h] \in 0..RetryPolicy.maxRetries + 1
      /\ backoff[h] <= attempt[h] /\ executed[h] <= attempt[h]
  BY <1>1, HTTPAssumption DEF HTTPTypeOK, HandlerInv, RetryInv
<1>3. PICK w \in 1..RetryPolicy.max : wait' = [wait EXCEPT ![h] = w]
  <2> DEFINE d == Delay(RetryPolicy, backoff[h], retryAfter)
             w == IF d <= 0 THEN RetryPolicy.initial ELSE d
  <2>1. w \in 1..RetryPolicy.max
    BY <1>2, DelayBounded
  <2>2. wait' = [wait EXCEPT ![h] = w]
    BY DEF Sleep
  <2> HIDE DEF w
  <2>3. QED
    BY <2>1, <2>2
<1>4. PICK b \in 0..1 : backoff' = [backoff EXCEPT ![h] = @ + b]
  <2>1. CASE retryAfter <= 0
    BY <2>1 DEF Sleep
  <2>2. CASE ~(retryAfter <= 0)
    <3>1. backoff' = [backoff EXCEPT ![h] = @] /\ backoff[h] + 0 = backoff[h] /\ 0 \in 0..1
      BY <1>2, <2>2 DEF Sleep
    <3>2. QED
      BY <3>1
  <2>3. QED
    BY <2>1, <2>2
<1>5. /\ wait' \in [Handlers -> 0..RetryPolicy.max] /\ wait'[h] = w
      /\ \A g \in Handlers \ {h} : wait'[g] = wait[g]
  BY <1>1, <1>2, <1>3 DEF HTTPTypeOK
<1>6. /\ backoff' \in [Handlers -> 0..RetryPolicy.maxRetries] /\ backoff'[h] <= attempt[h] + 1
      /\ \A g \in Handlers \ {h} : backoff'[g] = backoff[g]
  BY <1>1, <1>2, <1>4 DEF HTTPTypeOK
<1>7. /\ executed' \in [Handlers -> 0..RetryPolicy.maxRetries + 1]
      /\ executed'[h] <= attempt[h] + 1
      /\ \A g \in Handlers \ {h} : executed'[g] = executed[g]
  BY <1>1, <1>2 DEF HTTPTypeOK
<1>8. /\ pc' \in [Handlers -> {"idle", "observe", "send", "backoff", "read", "stream", "done"}]
      /\ pc'[h] = "backoff" /\ \A g \in Handlers \ {h} : pc'[g] = pc[g]
  BY <1>1 DEF HTTPTypeOK, Sleep, Goto
<1>9. UNCHANGED <<pending, outcome, attempt, events, gone>>
  BY DEF Sleep
<1>10. HTTPTypeOK'
  BY <1>1, <1>5, <1>6, <1>7, <1>8, <1>9 DEF HTTPTypeOK, sharedVars
<1>11. Others(h)
  BY <1>1, <1>5, <1>6, <1>7, <1>8, <1>9 DEF Others, Rests
<1>12. StageInv(h)'
  BY <1>1, <1>8, <1>9 DEF HandlerInv, StageInv
<1>13. Recorded(h)' = Recorded(h) /\ Operations(h)' = Operations(h) /\ Overwritten(h)' = Overwritten(h)
  BY <1>9, SameOperations DEF Recorded
<1>14. OutcomeInv(h)'
  BY <1>1, <1>9, <1>13 DEF HandlerInv, OutcomeInv
<1>15. RetryInv(h)'
  BY <1>6, <1>7, <1>8, <1>9, SameMessages DEF RetryInv
<1>16. PolicyInv(h)'
  BY <1>1, <1>8, <1>9, SameMessages DEF HandlerInv, PolicyInv
<1>17. QED
  BY <1>5, <1>10, <1>11, <1>12, <1>14, <1>15, <1>16 DEF HandlerInv

LEMMA DoFailsInv ==
    ASSUME HTTPInv, NEW h \in Handlers, DoFails(h)
    PROVE  HTTPTypeOK' /\ HandlerInv(h)' /\ Others(h)
<1>1. PICK cause \in Causes(h), bodyRead \in {FALSE, req[h].method = "POST"}, ran \in 0..1 :
          /\ executed' = [executed EXCEPT ![h] = @ + ran]
          /\ IF shouldRetryUpstream(h, bodyRead, 0, TRUE)
             THEN Sleep(h, 0)
             ELSE finalizeHTTPPending(h, httpFailureOutcome(cause))
  BY DEF DoFails
<1>2. httpFailureOutcome(cause) \in Outcomes \ {"denied", "rate_limited"}
  BY DEF httpFailureOutcome, Causes, Outcomes
<1>3. pc[h] = "send" /\ UNCHANGED <<req, next, relayed, status, sharedVars>>
  BY DEF DoFails
<1>4. CASE shouldRetryUpstream(h, bodyRead, 0, TRUE)
  <2>1. attempt[h] < RetryPolicy.maxRetries /\ safeToRetry(h)
    BY <1>4 DEF shouldRetryUpstream, CanRetry
  <2>2. Sleep(h, 0) /\ 0 \in Int
    BY <1>1, <1>4
  <2>3. QED
    BY <1>1, <1>3, <2>1, <2>2, HandlerSleeps
<1>5. CASE ~shouldRetryUpstream(h, bodyRead, 0, TRUE)
  BY <1>1, <1>2, <1>3, <1>5, FinalizeEnds
<1>6. QED
  BY <1>4, <1>5

\* No call ends and none begins.
LEMMA OutcomeRests ==
    ASSUME NEW h, OutcomeInv(h), req'[h] = req[h], next'[h] = next[h],
           pending'[h] = pending[h], outcome'[h] = outcome[h]
    PROVE  OutcomeInv(h)'
<1>1. Recorded(h)' = Recorded(h) /\ Operations(h)' = Operations(h) /\ Overwritten(h)' = Overwritten(h)
  BY SameOperations DEF Recorded
<1>2. QED
  BY <1>1 DEF OutcomeInv

\* Nothing that was admitted is denied later.
LEMMA PolicyRests ==
    ASSUME NEW h, PolicyInv(h), pc[h] \in {"observe", "send", "backoff", "read", "stream"},
           req'[h] = req[h], next'[h] = next[h],
           \A p \in outcome'[h] : p \in outcome[h] \/ p[2] \notin {"denied", "rate_limited"}
    PROVE  PolicyInv(h)'
<1>1. /\ \A k \in 1..next[h] - 1 : Permitted(req[h].client, Msg(h, k))
      /\ \A p \in outcome[h] : p[2] \notin {"denied", "rate_limited"}
  BY DEF PolicyInv
<1>2. \A k \in 1..next'[h] - 1 : Permitted(req'[h].client, Msg(h, k)')
  BY <1>1, SameMessages
<1>3. QED
  BY <1>1, <1>2 DEF PolicyInv

LEMMA DoAnswersInv ==
    ASSUME HTTPInv, NEW h \in Handlers, DoAnswers(h)
    PROVE  HTTPTypeOK' /\ HandlerInv(h)' /\ Others(h)
<1>1. PICK code \in Statuses, sse \in BOOLEAN, seconds \in RetryAfters :
          /\ executed' = [executed EXCEPT ![h] = @ + 1]
          /\ IF shouldRetryUpstream(h, TRUE, code, FALSE)
             THEN Sleep(h, ParseRetryAfter(seconds)) /\ UNCHANGED status
             ELSE /\ status' = [status EXCEPT ![h] = code]
                  /\ Goto(h, IF sse THEN "stream" ELSE "read")
                  /\ UNCHANGED <<pending, outcome, localVars>>
  BY DEF DoAnswers
<1>2. pc[h] = "send" /\ UNCHANGED <<req, next, relayed, sharedVars>>
  BY DEF DoAnswers
<1>3. CASE shouldRetryUpstream(h, TRUE, code, FALSE)
  <2>1. attempt[h] < RetryPolicy.maxRetries /\ safeToRetry(h)
    BY <1>3 DEF shouldRetryUpstream, CanRetry
  <2>2. Sleep(h, ParseRetryAfter(seconds)) /\ UNCHANGED status /\ ParseRetryAfter(seconds) \in Int
    BY <1>1, <1>3, RetryAfterInt, HTTPAssumption
  <2>3. 1 \in 0..1
    OBVIOUS
  <2>4. QED
    BY <1>1, <1>2, <2>1, <2>2, <2>3, HandlerSleeps
<1>4. CASE ~shouldRetryUpstream(h, TRUE, code, FALSE)
  <2>1. HTTPTypeOK /\ HandlerInv(h)
    BY InvParts
  <2>2. /\ RetryPolicy.maxRetries \in Nat
        /\ attempt[h] \in 0..RetryPolicy.maxRetries
        /\ executed[h] \in 0..RetryPolicy.maxRetries + 1 /\ executed[h] <= attempt[h]
    BY <1>2, <2>1, HTTPAssumption DEF HTTPTypeOK, HandlerInv, RetryInv
  <2>3. /\ executed' \in [Handlers -> 0..RetryPolicy.maxRetries + 1]
        /\ executed'[h] = executed[h] + 1
        /\ \A g \in Handlers \ {h} : executed'[g] = executed[g]
    BY <1>1, <2>1, <2>2 DEF HTTPTypeOK
  <2>4. /\ status' \in [Handlers -> Statuses \cup {0}]
        /\ \A g \in Handlers \ {h} : status'[g] = status[g]
    BY <1>1, <1>4, <2>1 DEF HTTPTypeOK
  <2>5. /\ pc' \in [Handlers -> {"idle", "observe", "send", "backoff", "read", "stream", "done"}]
        /\ pc'[h] \in {"read", "stream"}
        /\ \A g \in Handlers \ {h} : pc'[g] = pc[g]
    BY <1>1, <1>4, <2>1 DEF HTTPTypeOK, Goto
  <2>6. UNCHANGED <<pending, outcome, attempt, backoff, wait, events, gone>>
    BY <1>1, <1>4 DEF localVars
  <2>7. HTTPTypeOK'
    BY <1>2, <2>1, <2>3, <2>4, <2>5, <2>6 DEF HTTPTypeOK, sharedVars
  <2>8. Others(h)
    BY <1>2, <2>3, <2>4, <2>5, <2>6 DEF Others, Rests
  <2>9. StageInv(h)'
    BY <1>2, <2>1, <2>5, <2>6 DEF HandlerInv, StageInv
  <2>10. OutcomeInv(h)'
    BY <1>2, <2>1, <2>6, OutcomeRests DEF HandlerInv
  <2>11. RetryInv(h)'
    <3>1. executed'[h] > 1 => safeToRetry(h)
      BY <1>2, <2>1, <2>2, <2>3 DEF HandlerInv, RetryInv
    <3>2. executed'[h] > 0
      BY <2>2, <2>3
    <3>3. QED
      BY <1>2, <2>5, <3>1, <3>2, SameMessages DEF RetryInv
  <2>12. PolicyInv(h)'
    BY <1>2, <2>1, <2>6, PolicyRests DEF HandlerInv
  <2>13. QED
    BY <2>5, <2>7, <2>8, <2>9, <2>10, <2>11, <2>12 DEF HandlerInv
<1>5. QED
  BY <1>3, <1>4

\* A step that leaves the upstream and the numbers of executions alone.
LEMMA NotExecuted ==
    ASSUME HTTPTypeOK, NEW h \in Handlers, UNCHANGED executed
    PROVE  executed' = [executed EXCEPT ![h] = @ + 0]
BY HTTPAssumption DEF HTTPTypeOK

LEMMA FinalizeAfter ==
    ASSUME HTTPInv, NEW h \in Handlers, pc[h] \in {"send", "backoff", "read", "stream"},
           NEW o \in Outcomes \ {"denied", "rate_limited"}, finalizeHTTPPending(h, o),
           UNCHANGED <<req, next, relayed, executed, status, sharedVars>>
    PROVE  HTTPTypeOK' /\ HandlerInv(h)' /\ Others(h)
<1>1. 0 \in 0..1 /\ (0 = 1 => pc[h] = "send")
  OBVIOUS
<1>2. executed' = [executed EXCEPT ![h] = @ + 0]
  BY InvParts, NotExecuted
<1>3. QED
  BY <1>1, <1>2, FinalizeEnds

LEMMA BackoffEndsInv ==
    ASSUME HTTPInv, NEW h \in Handlers, BackoffEnds(h)
    PROVE  HTTPTypeOK' /\ HandlerInv(h)' /\ Others(h)
<1>1. HTTPTypeOK /\ HandlerInv(h)
  BY InvParts
<1>2. pc[h] = "backoff" /\ UNCHANGED <<req, next, relayed, executed, status, sharedVars>>
  BY DEF BackoffEnds, upstreamVars
<1>3. CASE finalizeHTTPPending(h, httpFailureOutcome("canceled"))
  <2>1. httpFailureOutcome("canceled") \in Outcomes \ {"denied", "rate_limited"}
    BY DEF httpFailureOutcome, Outcomes
  <2>2. QED
    BY <1>2, <1>3, <2>1, FinalizeAfter
<1>4. CASE /\ Goto(h, "send")
           /\ wait' = [wait EXCEPT ![h] = 0]
           /\ attempt' = [attempt EXCEPT ![h] = @ + 1]
           /\ UNCHANGED <<pending, outcome, backoff, events, gone>>
  <2>1. /\ RetryPolicy.maxRetries \in Nat /\ RetryPolicy.max \in Nat
        /\ attempt[h] \in 0..RetryPolicy.maxRetries /\ attempt[h] < RetryPolicy.maxRetries
        /\ backoff[h] \in 0..RetryPolicy.maxRetries /\ backoff[h] <= attempt[h] + 1
        /\ executed[h] \in 0..RetryPolicy.maxRetries + 1 /\ executed[h] <= attempt[h] + 1
    BY <1>1, <1>2, HTTPAssumption DEF HTTPTypeOK, HandlerInv, RetryInv
  <2>2. /\ attempt' \in [Handlers -> 0..RetryPolicy.maxRetries] /\ attempt'[h] = attempt[h] + 1
        /\ \A g \in Handlers \ {h} : attempt'[g] = attempt[g]
    BY <1>1, <1>4, <2>1 DEF HTTPTypeOK
  <2>3. /\ wait' \in [Handlers -> 0..RetryPolicy.max]
        /\ \A g \in Handlers \ {h} : wait'[g] = wait[g]
    BY <1>1, <1>4, <2>1 DEF HTTPTypeOK
  <2>4. /\ pc' \in [Handlers -> {"idle", "observe", "send", "backoff", "read", "stream", "done"}]
        /\ pc'[h] = "send" /\ \A g \in Handlers \ {h} : pc'[g] = pc[g]
    BY <1>1, <1>4 DEF HTTPTypeOK, Goto
  <2>5. HTTPTypeOK'
    BY <1>1, <1>2, <1>4, <2>2, <2>3, <2>4 DEF HTTPTypeOK, sharedVars
  <2>6. Others(h)
    BY <1>2, <1>4, <2>2, <2>3, <2>4 DEF Others, Rests
  <2>7. StageInv(h)'
    BY <1>1, <1>2, <1>4, <2>4 DEF HandlerInv, StageInv
  <2>8. OutcomeInv(h)'
    BY <1>1, <1>2, <1>4, OutcomeRests DEF HandlerInv
  <2>9. RetryInv(h)'
    <3>1. executed[h] > 0 => safeToRetry(h)
      BY <1>1, <1>2 DEF HandlerInv, RetryInv
    <3>2. executed[h] > 1 => executed[h] > 0
      BY <2>1
    <3>3. QED
      BY <1>2, <1>4, <2>1, <2>2, <2>4, <3>1, <3>2, SameMessages DEF RetryInv
  <2>10. PolicyInv(h)'
    BY <1>1, <1>2, <1>4, PolicyRests DEF HandlerInv
  <2>11. QED
    BY <2>4, <2>5, <2>6, <2>7, <2>8, <2>9, <2>10 DEF HandlerInv
<1>5. QED
  BY <1>3, <1>4 DEF BackoffEnds

-----------------------------------------------------------------------------
(* Responses and streams.                                                  *)

\* Each call that the messages answer gets one outcome.
LEMMA AnsweredFacts ==
    ASSUME NEW h, NEW msgs
    PROVE  /\ Answered(h, msgs) \subseteq pending[h] \X {"success", "upstream_error"}
           /\ \A p, q \in Answered(h, msgs) : p[1] = q[1] => p = q
           /\ \A p \in Answered(h, msgs) : \E kind \in Kinds : <<Msg(h, p[1]).id, kind>> \in msgs
           /\ \A k \in pending[h] : (\E kind \in Kinds : <<Msg(h, k).id, kind>> \in msgs) =>
                 \E p \in Answered(h, msgs) : p[1] = k
           /\ \A p \in Answered(h, msgs) : p[2] = "success" =>
                 ~(status[h] >= 400) /\ <<Msg(h, p[1]).id, "error">> \notin msgs
<1> DEFINE o(k) == IF status[h] >= 400 \/ <<Msg(h, k).id, "error">> \in msgs
                   THEN "upstream_error" ELSE "success"
           A == {j \in pending[h] : \E kind \in Kinds : <<Msg(h, j).id, kind>> \in msgs}
<1>1. Answered(h, msgs) = {<<k, o(k)>> : k \in A}
  BY DEF Answered
<1>2. \A k : o(k) \in {"success", "upstream_error"}
  OBVIOUS
<1>3. \A k : o(k) = "success" => ~(status[h] >= 400) /\ <<Msg(h, k).id, "error">> \notin msgs
  OBVIOUS
<1> HIDE DEF o
<1>4. \A p \in Answered(h, msgs) : p[1] \in A /\ p[2] = o(p[1]) /\ p = <<p[1], o(p[1])>>
  BY <1>1
<1>5. \A k \in A : <<k, o(k)>> \in Answered(h, msgs) /\ <<k, o(k)>>[1] = k
  BY <1>1
<1>6. /\ Answered(h, msgs) \subseteq pending[h] \X {"success", "upstream_error"}
      /\ \A p \in Answered(h, msgs) : \E kind \in Kinds : <<Msg(h, p[1]).id, kind>> \in msgs
  BY <1>2, <1>4
<1>7. \A p, q \in Answered(h, msgs) : p[1] = q[1] => p = q
  BY <1>4
<1>8. \A k \in A : \E p \in Answered(h, msgs) : p[1] = k
  BY <1>5
<1>9. QED
  BY <1>3, <1>4, <1>6, <1>7, <1>8

\* At the end each remaining call gets one outcome, a success only for a
\* notification.
LEMMA RemainderFacts ==
    ASSUME NEW h, NEW P, status[h] \in Nat
    PROVE  /\ Remainder(h, P) \subseteq P \X {"success", "upstream_error", "malformed_upstream_response"}
           /\ \A p, q \in Remainder(h, P) : p[1] = q[1] => p = q
           /\ \A k \in P : \E p \in Remainder(h, P) : p[1] = k
           /\ \A p \in Remainder(h, P) : p[2] = "success" => status[h] < 400 /\ Msg(h, p[1]).id = NoId
<1> DEFINE o(k) == CASE status[h] >= 400 -> "upstream_error"
                     [] status[h] < 400 /\ Msg(h, k).id = NoId -> "success"
                     [] status[h] < 400 /\ Msg(h, k).id # NoId -> "malformed_upstream_response"
<1>1. Remainder(h, P) = {<<k, o(k)>> : k \in P}
  BY DEF Remainder
<1>2. \A k : o(k) \in {"success", "upstream_error", "malformed_upstream_response"}
  OBVIOUS
<1>3. \A k : o(k) = "success" => status[h] < 400 /\ Msg(h, k).id = NoId
  OBVIOUS
<1> HIDE DEF o
<1>4. \A p \in Remainder(h, P) : p[1] \in P /\ p[2] = o(p[1]) /\ p = <<p[1], o(p[1])>>
  BY <1>1
<1>5. \A k \in P : <<k, o(k)>> \in Remainder(h, P) /\ <<k, o(k)>>[1] = k
  BY <1>1
<1>6. Remainder(h, P) \subseteq P \X {"success", "upstream_error", "malformed_upstream_response"}
  BY <1>2, <1>4
<1>7. \A p, q \in Remainder(h, P) : p[1] = q[1] => p = q
  BY <1>4
<1>8. \A k \in P : \E p \in Remainder(h, P) : p[1] = k
  BY <1>5
<1>9. QED
  BY <1>3, <1>4, <1>6, <1>7, <1>8

LEMMA StatusNat == ASSUME HTTPInv, NEW h \in Handlers PROVE status[h] \in Nat
<1>1. status[h] \in Statuses \cup {0}
  BY InvParts DEF HTTPTypeOK
<1>2. \A c \in Statuses : c \in Nat
  BY HTTPAssumption
<1>3. 0 \in Nat
  OBVIOUS
<1>4. QED
  BY <1>1, <1>2, <1>3, Zenon

LEMMA ResponseFailsInv ==
    ASSUME HTTPInv, NEW h \in Handlers, ResponseFails(h)
    PROVE  HTTPTypeOK' /\ HandlerInv(h)' /\ Others(h)
<1>1. PICK o \in Outcomes \ {"denied", "rate_limited"} : finalizeHTTPPending(h, o)
  <2>1. \A cause \in Causes(h) : httpFailureOutcome(cause) \in Outcomes \ {"denied", "rate_limited"}
    BY DEF httpFailureOutcome, Causes, Outcomes
  <2>2. "client_disconnect" \in Outcomes \ {"denied", "rate_limited"}
    BY DEF Outcomes
  <2>3. QED
    BY <2>1, <2>2 DEF ResponseFails
<1>2. /\ pc[h] \in {"send", "backoff", "read", "stream"}
      /\ UNCHANGED <<req, next, relayed, executed, status, sharedVars>>
  BY DEF ResponseFails, upstreamVars
<1>3. QED
  BY <1>1, <1>2, FinalizeAfter

\* What Respond and StreamEnd record for the calls still in the map.
LEMMA ResponseEnds ==
    ASSUME HTTPInv, NEW h \in Handlers, pc[h] \in {"read", "stream"},
           NEW S, Record(h, S, {}), Return(h),
           S \subseteq pending[h] \X {"success", "upstream_error", "malformed_upstream_response"},
           \A p, q \in S : p[1] = q[1] => p = q,
           \A k \in pending[h] : \E p \in S : p[1] = k,
           UNCHANGED <<req, next, upstreamVars, sharedVars>>,
           DOMAIN relayed' = Handlers, \A g \in Handlers \ {h} : relayed'[g] = relayed[g]
    PROVE  HTTPTypeOK' /\ HandlerInv(h)' /\ Others(h)
<1>1. 0 \in 0..1 /\ (0 = 1 => pc[h] = "send")
  OBVIOUS
<1>2. executed' = [executed EXCEPT ![h] = @ + 0] /\ UNCHANGED <<req, next, status, sharedVars>>
  BY InvParts, NotExecuted DEF upstreamVars
<1>3. S \subseteq pending[h] \X (Outcomes \ {"denied", "rate_limited"})
  BY DEF Outcomes
<1>4. QED
  BY <1>1, <1>2, <1>3, HandlerEnds

LEMMA StreamEndInv ==
    ASSUME HTTPInv, NEW h \in Handlers, StreamEnd(h)
    PROVE  HTTPTypeOK' /\ HandlerInv(h)' /\ Others(h)
<1>1. status[h] \in Nat /\ DOMAIN relayed = Handlers
  BY StatusNat, InvParts DEF HTTPTypeOK
<1>2. /\ pc[h] \in {"read", "stream"} /\ Record(h, Remainder(h, pending[h]), {}) /\ Return(h)
      /\ UNCHANGED <<req, next, upstreamVars, sharedVars>> /\ UNCHANGED relayed
  BY DEF StreamEnd
<1>3. QED
  BY <1>1, <1>2, RemainderFacts, ResponseEnds

LEMMA RespondInv ==
    ASSUME HTTPInv, NEW h \in Handlers, Respond(h)
    PROVE  HTTPTypeOK' /\ HandlerInv(h)' /\ Others(h)
<1>0. PICK A \in SUBSET Ids(h) : \E kind \in [A -> {"result", "error"}] :
          LET msgs == {<<i, kind[i]>> : i \in A}
              done == Answered(h, msgs)
              left == {k \in pending[h] : \A o \in Outcomes : <<k, o>> \notin done}
          IN  /\ relayed' = [relayed EXCEPT ![h] = @ \cup msgs]
              /\ Record(h, done \cup Remainder(h, left), {})
  BY DEF Respond
<1>1. PICK kind \in [A -> {"result", "error"}] :
          LET msgs == {<<i, kind[i]>> : i \in A}
              done == Answered(h, msgs)
              left == {k \in pending[h] : \A o \in Outcomes : <<k, o>> \notin done}
          IN  /\ relayed' = [relayed EXCEPT ![h] = @ \cup msgs]
              /\ Record(h, done \cup Remainder(h, left), {})
  BY <1>0
<1> DEFINE msgs == {<<i, kind[i]>> : i \in A}
           done == Answered(h, msgs)
           left == {k \in pending[h] : \A o \in Outcomes : <<k, o>> \notin done}
           rest == Remainder(h, left)
           S == done \cup rest
<1>2. relayed' = [relayed EXCEPT ![h] = @ \cup msgs] /\ Record(h, S, {})
  BY <1>1
<1> HIDE DEF left
<1>3. status[h] \in Nat /\ DOMAIN relayed = Handlers
  BY StatusNat, InvParts DEF HTTPTypeOK
<1>4. DOMAIN relayed' = Handlers /\ \A g \in Handlers \ {h} : relayed'[g] = relayed[g]
  BY <1>2, <1>3
<1>5. /\ done \subseteq pending[h] \X {"success", "upstream_error"}
      /\ \A p, q \in done : p[1] = q[1] => p = q
  BY AnsweredFacts
<1>6. /\ rest \subseteq left \X {"success", "upstream_error", "malformed_upstream_response"}
      /\ \A p, q \in rest : p[1] = q[1] => p = q
      /\ \A k \in left : \E p \in rest : p[1] = k
  BY <1>3, RemainderFacts
<1> HIDE DEF done, rest, msgs
<1>7. \A p \in done : p[1] \notin left
  <2>1. \A p \in done : p = <<p[1], p[2]>> /\ p[2] \in Outcomes
    BY <1>5 DEF Outcomes
  <2>2. QED
    BY <2>1 DEF left
<1>8. \A k \in pending[h] : k \in left \/ \E p \in done : p[1] = k
  <2>1. ASSUME NEW k \in pending[h], k \notin left PROVE \E p \in done : p[1] = k
    <3>1. PICK o \in Outcomes : <<k, o>> \in done
      BY <2>1 DEF left
    <3>2. <<k, o>>[1] = k
      OBVIOUS
    <3>3. QED
      BY <3>1, <3>2
  <2>2. QED
    BY <2>1
<1>9. left \subseteq pending[h]
  BY DEF left
<1>10. S \subseteq pending[h] \X {"success", "upstream_error", "malformed_upstream_response"}
  BY <1>5, <1>6, <1>9
<1>11. \A p, q \in S : p[1] = q[1] => p = q
  BY <1>5, <1>6, <1>7
<1>12. \A k \in pending[h] : \E p \in S : p[1] = k
  BY <1>6, <1>8
<1>13. /\ pc[h] \in {"read", "stream"} /\ Return(h)
       /\ UNCHANGED <<req, next, upstreamVars, sharedVars>>
  BY DEF Respond
<1> HIDE DEF S
<1>14. QED
  BY <1>2, <1>4, <1>10, <1>11, <1>12, <1>13, ResponseEnds

\* A stream goes on: some calls are taken from the map with their outcomes.
LEMMA StreamGoesOn ==
    ASSUME HTTPInv, NEW h \in Handlers, pc[h] = "stream",
           NEW S, NEW keep, Record(h, S, keep),
           S \subseteq pending[h] \X {"success", "upstream_error", "malformed_upstream_response"},
           \A p, q \in S : p[1] = q[1] => p = q,
           keep \subseteq pending[h],
           \A k \in keep : \A p \in S : p[1] # k,
           \A k \in pending[h] : k \in keep \/ \E p \in S : p[1] = k,
           events' = [events EXCEPT ![h] = @ + 1],
           UNCHANGED <<pc, req, next, attempt, backoff, wait, gone, upstreamVars, sharedVars>>,
           DOMAIN relayed' = Handlers, \A g \in Handlers \ {h} : relayed'[g] = relayed[g]
    PROVE  HTTPTypeOK' /\ HandlerInv(h)' /\ Others(h)
<1>1. HTTPTypeOK /\ HandlerInv(h) /\ pending[h] \subseteq Nat
  BY InvParts DEF HTTPTypeOK
<1>2. S \subseteq Nat \X Outcomes /\ S \subseteq pending[h] \X Outcomes /\ keep \subseteq Nat
  BY <1>1 DEF Outcomes
<1>3. /\ outcome' \in [Handlers -> SUBSET (Nat \X Outcomes)]
      /\ pending' \in [Handlers -> SUBSET Nat]
      /\ outcome'[h] = outcome[h] \cup S
      /\ \A g \in Handlers \ {h} : outcome'[g] = outcome[g] /\ pending'[g] = pending[g]
  BY <1>1, <1>2, RecordType
<1>4. events' \in [Handlers -> Nat]
  BY <1>1 DEF HTTPTypeOK
<1>5. HTTPTypeOK'
  BY <1>1, <1>3, <1>4 DEF HTTPTypeOK, upstreamVars, sharedVars
<1>6. Others(h)
  BY <1>3 DEF Others, Rests, upstreamVars
<1>7. StageInv(h)'
  BY <1>1 DEF HandlerInv, StageInv, upstreamVars
<1>8. OutcomeInv(h)'
  BY <1>1, <1>2, RecordKeeps DEF HandlerInv
<1>9. RetryInv(h)'
  BY <1>1, SameMessages DEF HandlerInv, RetryInv, upstreamVars
<1>10. PolicyInv(h)'
  <2>1. \A p \in S : p[2] \notin {"denied", "rate_limited"}
    OBVIOUS
  <2>2. QED
    BY <1>1, <1>3, <2>1, PolicyRests DEF HandlerInv
<1>11. QED
  BY <1>5, <1>6, <1>7, <1>8, <1>9, <1>10 DEF HandlerInv

LEMMA StreamJunkInv ==
    ASSUME HTTPInv, NEW h \in Handlers, StreamJunk(h)
    PROVE  HTTPTypeOK' /\ HandlerInv(h)' /\ Others(h)
<1>1. status[h] \in Nat /\ DOMAIN relayed = Handlers
  BY StatusNat, InvParts DEF HTTPTypeOK
<1> DEFINE S == Remainder(h, pending[h])
           keep == {}
<1>2. /\ pc[h] = "stream" /\ Record(h, S, keep)
      /\ events' = [events EXCEPT ![h] = @ + 1] /\ UNCHANGED relayed
      /\ UNCHANGED <<pc, req, next, attempt, backoff, wait, gone, upstreamVars, sharedVars>>
  BY DEF StreamJunk
<1>3. /\ S \subseteq pending[h] \X {"success", "upstream_error", "malformed_upstream_response"}
      /\ \A p, q \in S : p[1] = q[1] => p = q
      /\ \A k \in pending[h] : \E p \in S : p[1] = k
  BY <1>1, RemainderFacts
<1> HIDE DEF S
<1>4. /\ keep \subseteq pending[h] /\ \A k \in keep : \A p \in S : p[1] # k
      /\ \A k \in pending[h] : k \in keep \/ \E p \in S : p[1] = k
  BY <1>3
<1>5. DOMAIN relayed' = Handlers /\ \A g \in Handlers \ {h} : relayed'[g] = relayed[g]
  BY <1>1, <1>2
<1> HIDE DEF keep
<1>6. QED
  BY <1>2, <1>3, <1>4, <1>5, StreamGoesOn

LEMMA StreamEventInv ==
    ASSUME HTTPInv, NEW h \in Handlers, StreamEvent(h)
    PROVE  HTTPTypeOK' /\ HandlerInv(h)' /\ Others(h)
<1>1. PICK m \in Ids(h) \X Kinds :
          /\ relayed' = [relayed EXCEPT ![h] = @ \cup {m}]
          /\ Record(h, Answered(h, {m}), {k \in pending[h] : Msg(h, k).id # m[1]})
  BY DEF StreamEvent
<1> DEFINE S == Answered(h, {m})
           keep == {k \in pending[h] : Msg(h, k).id # m[1]}
<1>2. DOMAIN relayed' = Handlers /\ \A g \in Handlers \ {h} : relayed'[g] = relayed[g]
  BY <1>1, InvParts DEF HTTPTypeOK
<1>3. m = <<m[1], m[2]>> /\ m[2] \in Kinds
  OBVIOUS
<1>4. /\ S \subseteq pending[h] \X {"success", "upstream_error"}
      /\ \A p, q \in S : p[1] = q[1] => p = q
      /\ \A p \in S : \E kind \in Kinds : <<Msg(h, p[1]).id, kind>> \in {m}
      /\ \A k \in pending[h] : (\E kind \in Kinds : <<Msg(h, k).id, kind>> \in {m}) =>
            \E p \in S : p[1] = k
  BY AnsweredFacts
<1> HIDE DEF S
<1>5. \A p \in S : Msg(h, p[1]).id = m[1]
  BY <1>3, <1>4
<1>6. \A k \in keep : \A p \in S : p[1] # k
  BY <1>5
<1>7. \A k \in pending[h] : k \in keep \/ \E p \in S : p[1] = k
  <2>1. ASSUME NEW k \in pending[h], Msg(h, k).id = m[1] PROVE \E p \in S : p[1] = k
    <3>1. <<Msg(h, k).id, m[2]>> \in {m}
      BY <1>3, <2>1
    <3>2. QED
      BY <1>3, <1>4, <3>1
  <2>2. QED
    BY <2>1
<1>8. keep \subseteq pending[h]
  OBVIOUS
<1>9. /\ pc[h] = "stream" /\ events' = [events EXCEPT ![h] = @ + 1] /\ Record(h, S, keep)
      /\ UNCHANGED <<pc, req, next, attempt, backoff, wait, gone, upstreamVars, sharedVars>>
  BY <1>1 DEF StreamEvent, S
<1> HIDE DEF keep
<1>10. S \subseteq pending[h] \X {"success", "upstream_error", "malformed_upstream_response"}
  BY <1>4
<1>11. QED
  BY <1>2, <1>4, <1>6, <1>7, <1>8, <1>9, <1>10, StreamGoesOn

-----------------------------------------------------------------------------
(* The request.                                                            *)

\* Every request has finitely many messages.
LEMMA RequestLength == ASSUME HTTPTypeOK, NEW h \in Handlers PROVE Len(req[h].msgs) \in Nat
<1>1. req[h] = NoRequest \/ req[h] \in Inbox[h]
  BY DEF HTTPTypeOK
<1>2. Len(NoRequest.msgs) \in Nat
  BY DEF NoRequest
<1>3. QED
  BY <1>1, <1>2, HTTPAssumption

\* A step of h that changes nothing but pc before the upstream is reached.
LEMMA RefuseInv ==
    ASSUME HTTPInv, NEW h \in Handlers, Refuse(h)
    PROVE  HTTPTypeOK' /\ HandlerInv(h)' /\ Others(h)
<1>1. HTTPTypeOK /\ HandlerInv(h)
  BY InvParts
<1>2. /\ pc[h] = "idle"
      /\ UNCHANGED <<req, next, pending, outcome, relayed, attempt, backoff, wait, events, gone,
                     executed, status, limiters, refills, server>>
  BY DEF Refuse, requestVars, localVars, upstreamVars, sharedVars
<1>3. /\ pc' \in [Handlers -> {"idle", "observe", "send", "backoff", "read", "stream", "done"}]
      /\ pc'[h] = "done" /\ \A g \in Handlers \ {h} : pc'[g] = pc[g]
  BY <1>1 DEF HTTPTypeOK, Refuse, Goto
<1>4. HTTPTypeOK' /\ Others(h)
  BY <1>1, <1>2, <1>3 DEF HTTPTypeOK, Others, Rests
<1>5. pending[h] = {}
  <2>1. Operations(h) = {}
    <3>1. next[h] = 1
      BY <1>1, <1>2 DEF HandlerInv, StageInv
    <3>2. QED
      BY <3>1 DEF Operations
  <2>2. QED
    BY <1>1, <2>1 DEF HandlerInv, OutcomeInv
<1>6. StageInv(h)'
  BY <1>1, <1>2, <1>3, <1>5 DEF HandlerInv, StageInv
<1>7. OutcomeInv(h)'
  BY <1>1, <1>2, OutcomeRests DEF HandlerInv
<1>8. executed[h] = 0
  BY <1>1, <1>2 DEF HandlerInv, StageInv
<1>9. RetryInv(h)' /\ PolicyInv(h)'
  BY <1>2, <1>3, <1>8 DEF RetryInv, PolicyInv
<1>10. QED
  BY <1>3, <1>4, <1>6, <1>7, <1>9 DEF HandlerInv

LEMMA ServeInv ==
    ASSUME HTTPInv, NEW h \in Handlers, NEW r \in Inbox[h], ServeHTTP(h, r)
    PROVE  HTTPTypeOK' /\ HandlerInv(h)' /\ Others(h)
<1>1. HTTPTypeOK /\ HandlerInv(h)
  BY InvParts
<1>2. /\ pc[h] = "idle"
      /\ UNCHANGED <<next, pending, outcome, relayed, attempt, backoff, wait, events, gone,
                     executed, status, limiters, refills, server>>
  BY DEF ServeHTTP, localVars, upstreamVars, sharedVars
<1>3. /\ pc' \in [Handlers -> {"idle", "observe", "send", "backoff", "read", "stream", "done"}]
      /\ pc'[h] = "observe" /\ \A g \in Handlers \ {h} : pc'[g] = pc[g]
  BY <1>1 DEF HTTPTypeOK, ServeHTTP, Goto
<1>4. /\ DOMAIN req' = Handlers
      /\ req'[h] = r /\ \A g \in Handlers \ {h} : req'[g] = req[g]
  BY <1>1 DEF HTTPTypeOK, ServeHTTP
<1>5. HTTPTypeOK' /\ Others(h)
  BY <1>1, <1>2, <1>3, <1>4 DEF HTTPTypeOK, Others, Rests
<1>6. next[h] = 1 /\ executed[h] = 0 /\ outcome[h] = {} /\ status[h] = 0
  BY <1>1, <1>2 DEF HandlerInv, StageInv
<1>7. Operations(h) = {} /\ Operations(h)' = {}
  BY <1>2, <1>6 DEF Operations
<1>8. Len(r.msgs) \in Nat
  BY HTTPAssumption
<1>9. StageInv(h)'
  BY <1>2, <1>3, <1>4, <1>6, <1>8 DEF StageInv
<1>10. OutcomeInv(h)'
  BY <1>1, <1>2, <1>6, <1>7 DEF HandlerInv, OutcomeInv, Recorded
<1>11. RetryInv(h)'
  BY <1>1, <1>2, <1>3, <1>6 DEF HandlerInv, RetryInv
<1>12. PolicyInv(h)'
  BY <1>2, <1>6 DEF PolicyInv
<1>13. QED
  BY <1>3, <1>5, <1>9, <1>10, <1>11, <1>12 DEF HandlerInv

LEMMA ObserveEndInv ==
    ASSUME HTTPInv, NEW h \in Handlers, ObserveEnd(h)
    PROVE  HTTPTypeOK' /\ HandlerInv(h)' /\ Others(h)
<1>1. HTTPTypeOK /\ HandlerInv(h)
  BY InvParts
<1>2. /\ pc[h] = "observe"
      /\ UNCHANGED <<req, next, pending, outcome, relayed, attempt, backoff, wait, events, gone,
                     executed, status, limiters, refills, server>>
  BY DEF ObserveEnd, requestVars, localVars, upstreamVars, sharedVars
<1>3. /\ pc' \in [Handlers -> {"idle", "observe", "send", "backoff", "read", "stream", "done"}]
      /\ pc'[h] = "send" /\ \A g \in Handlers \ {h} : pc'[g] = pc[g]
  BY <1>1 DEF HTTPTypeOK, ObserveEnd, Goto
<1>4. HTTPTypeOK' /\ Others(h)
  BY <1>1, <1>2, <1>3 DEF HTTPTypeOK, Others, Rests
<1>5. next[h] = Len(req[h].msgs) + 1
  BY <1>1, RequestLength DEF ObserveEnd, Positions, HandlerInv, StageInv, HTTPTypeOK
<1>6. executed[h] = 0 /\ attempt[h] = 0 /\ backoff[h] = 0
  BY <1>1, <1>2 DEF HandlerInv, StageInv, RetryInv
<1>7. StageInv(h)'
  BY <1>1, <1>2, <1>3, <1>5 DEF HandlerInv, StageInv
<1>8. OutcomeInv(h)' /\ PolicyInv(h)'
  BY <1>1, <1>2, OutcomeRests, PolicyRests DEF HandlerInv
<1>9. RetryInv(h)'
  BY <1>2, <1>3, <1>6 DEF RetryInv
<1>10. QED
  BY <1>3, <1>4, <1>7, <1>8, <1>9 DEF HandlerInv

\* The loop of observeHTTPRequest moves on to the next message.
LEMMA OneMore ==
    ASSUME NEW h, req'[h] = req[h], next[h] \in Nat \ {0}, next'[h] = next[h] + 1
    PROVE  /\ \A k : k \in Operations(h)' <=>
                 k \in Operations(h) \/ (k = next[h] /\ Msg(h, k).method # NoMethod)
           /\ \A k \in Operations(h) : k \in Nat /\ k < next[h]
           /\ Overwritten(h) \subseteq Overwritten(h)'
<1>1. \A k : k \in 1..next'[h] - 1 <=> k \in 1..next[h] - 1 \/ k = next[h]
  OBVIOUS
<1>2. \A k : k \in Operations(h)' <=>
                 k \in Operations(h) \/ (k = next[h] /\ Msg(h, k).method # NoMethod)
  <2>1. next[h] \notin 1..next[h] - 1
    OBVIOUS
  <2>2. QED
    BY <1>1, <2>1, SameMessages DEF Operations
<1>3. \A k \in Operations(h) : k \in Nat /\ k < next[h]
  <2>1. \A k \in Operations(h) : k \in 1..next[h] - 1
    BY DEF Operations
  <2>2. \A k \in 1..next[h] - 1 : k \in Nat /\ k < next[h]
    OBVIOUS
  <2>3. QED
    BY <2>1, <2>2
<1>4. Overwritten(h) \subseteq Overwritten(h)'
  BY <1>2, SameMessages DEF Overwritten
<1>5. QED
  BY <1>2, <1>3, <1>4

\* What all turns of that loop have in common.
LEMMA ObserveFacts ==
    ASSUME HTTPInv, NEW h \in Handlers, ObserveMessage(h)
    PROVE  /\ pc[h] = "observe" /\ next[h] \in Positions(h) /\ next[h] <= Len(req[h].msgs)
           /\ HTTPTypeOK /\ HandlerInv(h) /\ next[h] \in Nat \ {0} /\ Len(req[h].msgs) \in Nat
           /\ executed[h] = 0 /\ attempt[h] = 0 /\ backoff[h] = 0 /\ outcome[h] = {} /\ status[h] = 0
           /\ UNCHANGED <<req, relayed, attempt, backoff, wait, events, gone, executed, status,
                          refills, server>>
<1>1. HTTPTypeOK /\ HandlerInv(h) /\ Len(req[h].msgs) \in Nat
  BY InvParts, RequestLength
<1>2. pc[h] = "observe" /\ next[h] \in Positions(h) /\ next[h] \in Nat \ {0}
  BY <1>1 DEF ObserveMessage, HTTPTypeOK
<1>3. next[h] <= Len(req[h].msgs)
  BY <1>1, <1>2 DEF Positions
<1>4. executed[h] = 0 /\ attempt[h] = 0 /\ backoff[h] = 0 /\ outcome[h] = {} /\ status[h] = 0
  BY <1>1, <1>2 DEF HandlerInv, StageInv, RetryInv
<1>5. QED
  BY <1>1, <1>2, <1>3, <1>4 DEF ObserveMessage, localVars, upstreamVars

\* The message was looked at and the request goes on.
LEMMA ObserveGoesOn ==
    ASSUME HTTPInv, NEW h \in Handlers, ObserveMessage(h),
           UNCHANGED <<pc, outcome>>, next' = [next EXCEPT ![h] = @ + 1],
           pending' \in [Handlers -> SUBSET Nat], \A g \in Handlers \ {h} : pending'[g] = pending[g],
           \A key \in DOMAIN limiters' : limiters'[key] \in 0..RequestsPerMinute,
           OutcomeInv(h)', Permitted(req[h].client, Msg(h, next[h]))
    PROVE  HTTPTypeOK' /\ HandlerInv(h)' /\ Others(h)
<1>1. /\ pc[h] = "observe" /\ next[h] <= Len(req[h].msgs)
      /\ HTTPTypeOK /\ HandlerInv(h) /\ next[h] \in Nat \ {0} /\ Len(req[h].msgs) \in Nat
      /\ executed[h] = 0 /\ attempt[h] = 0 /\ backoff[h] = 0 /\ outcome[h] = {} /\ status[h] = 0
      /\ UNCHANGED <<req, relayed, attempt, backoff, wait, events, gone, executed, status,
                     refills, server>>
  BY ObserveFacts
<1>2. /\ next' \in [Handlers -> Nat \ {0}] /\ next'[h] = next[h] + 1
      /\ \A g \in Handlers \ {h} : next'[g] = next[g]
  BY <1>1 DEF HTTPTypeOK
<1>3. HTTPTypeOK'
  BY <1>1, <1>2 DEF HTTPTypeOK
<1>4. Others(h)
  BY <1>1, <1>2 DEF Others, Rests
<1>5. StageInv(h)'
  BY <1>1, <1>2 DEF StageInv
<1>6. RetryInv(h)'
  BY <1>1 DEF RetryInv
<1>7. PolicyInv(h)'
  <2>1. \A k \in 1..next[h] - 1 : Permitted(req[h].client, Msg(h, k))
    BY <1>1 DEF HandlerInv, PolicyInv
  <2>2. \A k \in 1..next'[h] - 1 : k \in 1..next[h] - 1 \/ k = next[h]
    BY <1>1, <1>2
  <2>3. \A k \in 1..next'[h] - 1 : Permitted(req[h].client, Msg(h, k))
    BY <2>1, <2>2
  <2>4. \A k : Msg(h, k)' = Msg(h, k)
    BY <1>1, SameMessages
  <2>5. QED
    BY <1>1, <2>3, <2>4 DEF PolicyInv
<1>8. QED
  BY <1>1, <1>3, <1>4, <1>5, <1>6, <1>7 DEF HandlerInv

\* A call is accepted: the calls it takes the place of are overwritten.
LEMMA AcceptedOutcome ==
    ASSUME HTTPInv, NEW h \in Handlers, ObserveMessage(h), Accepted(h), Msg(h, next[h]).method # NoMethod
    PROVE  /\ UNCHANGED <<pc, outcome>> /\ next' = [next EXCEPT ![h] = @ + 1]
           /\ pending' \in [Handlers -> SUBSET Nat]
           /\ \A g \in Handlers \ {h} : pending'[g] = pending[g]
           /\ OutcomeInv(h)'
<1> DEFINE k == next[h]
           same == {j \in pending[h] : Msg(h, j).id = Msg(h, k).id /\ Msg(h, k).id # NoId}
<1>1. /\ HTTPTypeOK /\ HandlerInv(h) /\ next[h] \in Nat \ {0} /\ outcome[h] = {} /\ UNCHANGED req
  BY ObserveFacts
<1>2. /\ UNCHANGED <<pc, outcome>> /\ next' = [next EXCEPT ![h] = k + 1]
      /\ pending' = [pending EXCEPT ![h] = (@ \ same) \cup {k}]
  BY DEF Accepted
<1>3. next'[h] = k + 1 /\ next' = [next EXCEPT ![h] = @ + 1]
  BY <1>1, <1>2 DEF HTTPTypeOK
<1>4. pending[h] \subseteq Nat
  BY <1>1 DEF HTTPTypeOK
<1>5. /\ pending' \in [Handlers -> SUBSET Nat] /\ pending'[h] = (pending[h] \ same) \cup {k}
      /\ \A g \in Handlers \ {h} : pending'[g] = pending[g]
  <2>1. (pending[h] \ same) \cup {k} \in SUBSET Nat
    BY <1>1, <1>4
  <2>2. QED
    BY <1>1, <1>2, <2>1 DEF HTTPTypeOK
<1>6. /\ \A x : x \in Operations(h)' <=> x \in Operations(h) \/ x = k
      /\ \A x \in Operations(h) : x \in Nat /\ x < k
      /\ Overwritten(h) \subseteq Overwritten(h)'
  BY <1>1, <1>3, OneMore
<1>7. \A x \in same : x \in Operations(h) => x \in Overwritten(h)'
  <2>1. \A x : Msg(h, x)' = Msg(h, x)
    BY <1>1, SameMessages
  <2>2. ASSUME NEW x \in same, x \in Operations(h) PROVE x \in Overwritten(h)'
    <3>1. k > x /\ Msg(h, k).id = Msg(h, x).id /\ Msg(h, x).id # NoId
      BY <1>1, <1>6, <2>2
    <3>2. x \in Operations(h)' /\ k \in Operations(h)'
      BY <1>6, <2>2
    <3>3. QED
      BY <2>1, <3>1, <3>2 DEF Overwritten
  <2>3. QED
    BY <2>2
<1> HIDE DEF same
<1>8. Recorded(h) = {} /\ Recorded(h)' = {}
  BY <1>1, <1>2 DEF Recorded
<1>9. pending[h] \subseteq Operations(h) /\ Operations(h) \ Overwritten(h) \subseteq pending[h]
  BY <1>1, <1>8 DEF HandlerInv, OutcomeInv
<1>10. pending'[h] \subseteq Operations(h)' \ Recorded(h)'
  BY <1>5, <1>6, <1>8, <1>9
<1>11. Operations(h)' \ Overwritten(h)' \subseteq pending'[h]
  BY <1>5, <1>6, <1>7, <1>9
<1>12. OutcomeInv(h)'
  BY <1>1, <1>2, <1>8, <1>10, <1>11 DEF OutcomeInv
<1>13. QED
  BY <1>2, <1>3, <1>5, <1>12

\* A message is rejected: it and the calls before it get their outcomes.
LEMMA RejectedInv ==
    ASSUME HTTPInv, NEW h \in Handlers, ObserveMessage(h), Msg(h, next[h]).method # NoMethod,
           NEW o \in Outcomes, Rejected(h, o),
           \A key \in DOMAIN limiters' : limiters'[key] \in 0..RequestsPerMinute
    PROVE  HTTPTypeOK' /\ HandlerInv(h)' /\ Others(h)
<1>0. PICK k : k = next[h]
  OBVIOUS
<1> DEFINE S == {<<k, o>>} \cup (pending[h] \X {"cancelled"})
<1>1. /\ pc[h] = "observe" /\ k <= Len(req[h].msgs)
      /\ HTTPTypeOK /\ HandlerInv(h) /\ k \in Nat \ {0} /\ Len(req[h].msgs) \in Nat
      /\ executed[h] = 0 /\ attempt[h] = 0 /\ backoff[h] = 0 /\ outcome[h] = {} /\ status[h] = 0
      /\ UNCHANGED <<req, relayed, attempt, backoff, wait, events, gone, executed, status,
                     refills, server>>
  BY <1>0, ObserveFacts
<1>2. Record(h, S, {}) /\ Goto(h, "done") /\ next' = [next EXCEPT ![h] = @ + 1]
  BY <1>0 DEF Rejected
<1>3. pending[h] \subseteq Nat
  BY <1>1 DEF HTTPTypeOK
<1>4. S \subseteq Nat \X Outcomes
  <2>1. "cancelled" \in Outcomes
    BY DEF Outcomes
  <2>2. QED
    BY <1>1, <1>3, <2>1
<1>42. /\ \A p \in S : p = <<k, o>> \/ (p[1] \in pending[h] /\ p = <<p[1], "cancelled">>)
       /\ <<k, o>> \in S /\ \A x \in pending[h] : <<x, "cancelled">> \in S
  OBVIOUS
<1> HIDE DEF S
<1>5. /\ outcome' \in [Handlers -> SUBSET (Nat \X Outcomes)]
      /\ pending' \in [Handlers -> SUBSET Nat]
      /\ outcome'[h] = S /\ pending'[h] = {}
      /\ \A g \in Handlers \ {h} : outcome'[g] = outcome[g] /\ pending'[g] = pending[g]
  <2>1. PICK none : none = {}
    OBVIOUS
  <2>2. Record(h, S, none) /\ none \subseteq Nat
    BY <1>2, <2>1
  <2>3. /\ outcome' \in [Handlers -> SUBSET (Nat \X Outcomes)]
        /\ pending' \in [Handlers -> SUBSET Nat]
        /\ outcome'[h] = outcome[h] \cup S /\ pending'[h] = none
        /\ \A g \in Handlers \ {h} : outcome'[g] = outcome[g] /\ pending'[g] = pending[g]
    BY <1>1, <1>4, <2>2, RecordType
  <2>4. QED
    BY <1>1, <2>1, <2>3
<1>6. /\ next' \in [Handlers -> Nat \ {0}] /\ next'[h] = k + 1
      /\ \A g \in Handlers \ {h} : next'[g] = next[g]
  BY <1>0, <1>1, <1>2 DEF HTTPTypeOK
<1>7. /\ pc' \in [Handlers -> {"idle", "observe", "send", "backoff", "read", "stream", "done"}]
      /\ pc'[h] = "done" /\ \A g \in Handlers \ {h} : pc'[g] = pc[g]
  BY <1>1, <1>2 DEF HTTPTypeOK, Goto
<1>8. HTTPTypeOK'
  BY <1>1, <1>5, <1>6, <1>7 DEF HTTPTypeOK
<1>9. Others(h)
  BY <1>1, <1>5, <1>6, <1>7 DEF Others, Rests
<1>10. /\ \A x : x \in Operations(h)' <=> x \in Operations(h) \/ x = k
       /\ \A x \in Operations(h) : x \in Nat /\ x < k
       /\ Overwritten(h) \subseteq Overwritten(h)'
  BY <1>0, <1>1, <1>6, OneMore
<1>11. Recorded(h) = {}
  BY <1>1 DEF Recorded
<1>12. /\ pending[h] \subseteq Operations(h) /\ Operations(h) \ Overwritten(h) \subseteq pending[h]
       /\ k \notin pending[h]
  <2>1. pending[h] \subseteq Operations(h) /\ Operations(h) \ Overwritten(h) \subseteq pending[h]
    BY <1>1, <1>11 DEF HandlerInv, OutcomeInv
  <2>2. k \notin Operations(h)
    BY <1>1, <1>10
  <2>3. QED
    BY <2>1, <2>2
<1>13. \A x : x \in Recorded(h)' <=> x = k \/ x \in pending[h]
  <2>1. Recorded(h)' = {p[1] : p \in S}
    BY <1>5 DEF Recorded
  <2>2. \A p \in S : p[1] = k \/ p[1] \in pending[h]
    BY <1>42
  <2>3. <<k, o>> \in S /\ <<k, o>>[1] = k
    BY <1>42
  <2>4. \A x \in pending[h] : <<x, "cancelled">> \in S /\ <<x, "cancelled">>[1] = x
    BY <1>42
  <2>5. QED
    BY <2>1, <2>2, <2>3, <2>4
<1>14. \A p, q \in S : p[1] = q[1] => p = q
  BY <1>12, <1>42
<1>15. OutcomeInv(h)'
  <2>1. pending'[h] \subseteq Operations(h)' \ Recorded(h)'
    BY <1>5
  <2>2. Recorded(h)' \subseteq Operations(h)'
    BY <1>10, <1>12, <1>13
  <2>3. Operations(h)' \ Overwritten(h)' \subseteq Recorded(h)' \cup pending'[h]
    BY <1>10, <1>12, <1>13
  <2>4. \A p, q \in outcome'[h] : p[1] = q[1] => p = q
    BY <1>5, <1>14
  <2>5. QED
    BY <2>1, <2>2, <2>3, <2>4 DEF OutcomeInv
<1>16. StageInv(h)'
  BY <1>1, <1>5, <1>6, <1>7 DEF StageInv
<1>17. RetryInv(h)' /\ PolicyInv(h)'
  BY <1>1, <1>7 DEF RetryInv, PolicyInv
<1>18. QED
  BY <1>7, <1>8, <1>9, <1>15, <1>16, <1>17 DEF HandlerInv

-----------------------------------------------------------------------------
(* The limiter.                                                            *)

\* A bucket that has just been used, and one that refused.
LEMMA BucketType ==
    ASSUME HTTPTypeOK, NEW key, Take(key) \/ Limited(key)
    PROVE  \A k \in DOMAIN limiters' : limiters'[k] \in 0..RequestsPerMinute
<1>1. RequestsPerMinute \in Nat \ {0}
  BY PolicyAssumption
<1>2. Bucket(key) \in 0..RequestsPerMinute
  BY <1>1 DEF Bucket, HTTPTypeOK
<1>3. PICK n \in 0..RequestsPerMinute : SetBucket(key, n)
  BY <1>1, <1>2 DEF Take, Limited
<1>4. QED
  BY <1>3 DEF SetBucket, HTTPTypeOK

\* A bucket that refuses has been there: a new one is full.
LEMMA LimitedIsKnown ==
    ASSUME HTTPTypeOK, NEW key, Limited(key)
    PROVE  /\ key \in DOMAIN limiters /\ DOMAIN limiters' = DOMAIN limiters
           /\ \A k \in DOMAIN limiters : limiters'[k] = limiters[k]
<1>1. RequestsPerMinute # 0
  BY PolicyAssumption
<1>2. key \in DOMAIN limiters /\ limiters[key] = 0
  BY <1>1 DEF Limited, Bucket
<1>3. QED
  BY <1>2 DEF Limited, SetBucket

LEMMA ObserveInv ==
    ASSUME HTTPInv, NEW h \in Handlers, ObserveMessage(h)
    PROVE  HTTPTypeOK' /\ HandlerInv(h)' /\ Others(h)
<1>0. PICK k : k = next[h]
  OBVIOUS
<1>1. /\ HTTPTypeOK /\ HandlerInv(h) /\ next[h] \in Nat \ {0} /\ outcome[h] = {} /\ UNCHANGED req
  BY ObserveFacts
<1>2. limiters' = limiters => \A key \in DOMAIN limiters' : limiters'[key] \in 0..RequestsPerMinute
  BY <1>1 DEF HTTPTypeOK
<1>3. CASE /\ Msg(h, k).method = NoMethod
           /\ next' = [next EXCEPT ![h] = k + 1]
           /\ UNCHANGED <<pc, pending, outcome, limiters>>
  <2>1. next' = [next EXCEPT ![h] = @ + 1] /\ next'[h] = next[h] + 1
    BY <1>0, <1>1, <1>3 DEF HTTPTypeOK
  <2>2. Permitted(req[h].client, Msg(h, next[h]))
    BY <1>0, <1>3 DEF Permitted
  <2>3. Operations(h)' = Operations(h)
    BY <1>0, <1>1, <1>3, <2>1, OneMore
  <2>4. Overwritten(h)' = Overwritten(h)
    BY <1>1, <2>3, SameMessages DEF Overwritten
  <2>5. Recorded(h)' = Recorded(h)
    BY <1>3 DEF Recorded
  <2>6. OutcomeInv(h)'
    BY <1>1, <1>3, <2>3, <2>4, <2>5 DEF HandlerInv, OutcomeInv
  <2>7. pending' \in [Handlers -> SUBSET Nat] /\ \A g \in Handlers \ {h} : pending'[g] = pending[g]
    BY <1>1, <1>3 DEF HTTPTypeOK
  <2>8. QED
    BY <1>2, <1>3, <2>1, <2>2, <2>6, <2>7, ObserveGoesOn
<1>4. CASE Msg(h, k).method # NoMethod /\ Rejected(h, "denied") /\ UNCHANGED limiters
  <2>1. "denied" \in Outcomes
    BY DEF Outcomes
  <2>2. QED
    BY <1>0, <1>2, <1>4, <2>1, RejectedInv
<1>5. CASE Msg(h, k).method # NoMethod /\ Limited(LimiterKey(h, k)) /\ Rejected(h, "rate_limited")
  <2>1. "rate_limited" \in Outcomes
    BY DEF Outcomes
  <2>2. QED
    BY <1>0, <1>1, <1>5, <2>1, BucketType, RejectedInv
<1>6. CASE /\ Msg(h, k).method # NoMethod /\ evaluatePolicy(h, k) = "allow" /\ Accepted(h)
           /\ Take(LimiterKey(h, k)) \/ UNCHANGED limiters
  <2>1. \A key \in DOMAIN limiters' : limiters'[key] \in 0..RequestsPerMinute
    BY <1>1, <1>2, <1>6, BucketType
  <2>2. Permitted(req[h].client, Msg(h, next[h]))
    BY <1>0, <1>6, AllowedIsPermitted DEF evaluatePolicy
  <2>3. /\ UNCHANGED <<pc, outcome>> /\ next' = [next EXCEPT ![h] = @ + 1]
        /\ pending' \in [Handlers -> SUBSET Nat]
        /\ \A g \in Handlers \ {h} : pending'[g] = pending[g]
        /\ OutcomeInv(h)'
    BY <1>0, <1>6, AcceptedOutcome
  <2>4. QED
    BY <2>1, <2>2, <2>3, ObserveGoesOn
<1>7. QED
  BY <1>0, <1>3, <1>4, <1>5, <1>6 DEF ObserveMessage

\* The union over the handlers, spelled out, now and after the step.
LEMMA AdmittedForIs ==
    ASSUME NEW key, NEW x
    PROVE  /\ x \in AdmittedFor(key) <=>
                 \E g \in Handlers : \E k \in Admitted(g) : LimiterKey(g, k) = key /\ x = <<g, k>>
           /\ x \in AdmittedFor(key)' <=>
                 \E g \in Handlers : \E k \in Admitted(g)' : LimiterKey(g, k)' = key /\ x = <<g, k>>
<1>1. x \in AdmittedFor(key) <=>
          \E g \in Handlers : \E k \in Admitted(g) : LimiterKey(g, k) = key /\ x = <<g, k>>
  BY DEF AdmittedFor
<1>2. x \in AdmittedFor(key)' <=>
          \E g \in Handlers : \E k \in Admitted(g)' : LimiterKey(g, k)' = key /\ x = <<g, k>>
  BY DEF AdmittedFor
<1>3. QED
  BY <1>1, <1>2

\* A step that admits nothing, while tokens come from time only.
LEMMA TokensKept ==
    ASSUME HTTPTypeOK, TokenInv, HTTPTypeOK', DOMAIN limiters' = DOMAIN limiters,
           \A key \in DOMAIN limiters : limiters'[key] + refills <= limiters[key] + refills',
           \A g \in Handlers : \A k \in Admitted(g)' :
              k \in Admitted(g) /\ LimiterKey(g, k)' = LimiterKey(g, k)
    PROVE  TokenInv'
<1>1. \A g \in Handlers : \A k \in Admitted(g)' : LimiterKey(g, k)' \in DOMAIN limiters'
  BY DEF TokenInv
<1>2. ASSUME NEW key \in DOMAIN limiters
      PROVE  /\ IsFiniteSet(AdmittedFor(key)')
             /\ Cardinality(AdmittedFor(key)') + limiters'[key] <= RequestsPerMinute + refills'
  <2>1. AdmittedFor(key)' \subseteq AdmittedFor(key)
    BY AdmittedForIs
  <2>2. /\ IsFiniteSet(AdmittedFor(key))
        /\ Cardinality(AdmittedFor(key)) + limiters[key] <= RequestsPerMinute + refills
    BY <1>2 DEF TokenInv
  <2>3. /\ IsFiniteSet(AdmittedFor(key)')
        /\ Cardinality(AdmittedFor(key)') <= Cardinality(AdmittedFor(key))
        /\ Cardinality(AdmittedFor(key)') \in Nat /\ Cardinality(AdmittedFor(key)) \in Nat
    BY <2>1, <2>2, FS_Subset, FS_CardinalityType
  <2>4. /\ limiters[key] \in Int /\ limiters'[key] \in Int /\ refills \in Nat /\ refills' \in Nat
        /\ RequestsPerMinute \in Nat
        /\ limiters'[key] + refills <= limiters[key] + refills'
    BY <1>2, PolicyAssumption DEF HTTPTypeOK
  <2>5. QED
    BY <2>2, <2>3, <2>4
<1>3. QED
  BY <1>1, <1>2 DEF TokenInv

\* A call with a token: one more is admitted, one token less is left.
LEMMA TokenTaken ==
    ASSUME HTTPTypeOK, TokenInv, HTTPTypeOK', UNCHANGED refills,
           NEW h \in Handlers, NEW k, NEW key, Take(key),
           LimiterKey(h, k)' = key,
           \A g \in Handlers : \A j \in Admitted(g)' :
              \/ g = h /\ j = k
              \/ j \in Admitted(g) /\ LimiterKey(g, j)' = LimiterKey(g, j)
    PROVE  TokenInv'
<1>1. /\ RequestsPerMinute \in Nat \ {0} /\ refills \in Nat
      /\ \A c \in DOMAIN limiters : limiters[c] \in Int
      /\ DOMAIN limiters' = DOMAIN limiters \cup {key}
      /\ limiters'[key] = Bucket(key) - 1
      /\ \A c \in DOMAIN limiters \ {key} : limiters'[c] = limiters[c]
  BY PolicyAssumption DEF HTTPTypeOK, Take, SetBucket
<1>2. \A g \in Handlers : \A j \in Admitted(g)' : LimiterKey(g, j)' \in DOMAIN limiters'
  BY <1>1 DEF TokenInv
<1>3. ASSUME NEW c \in DOMAIN limiters, c # key
      PROVE  /\ IsFiniteSet(AdmittedFor(c)')
             /\ Cardinality(AdmittedFor(c)') + limiters'[c] <= RequestsPerMinute + refills'
  <2>1. AdmittedFor(c)' \subseteq AdmittedFor(c)
    BY <1>3, AdmittedForIs
  <2>2. /\ IsFiniteSet(AdmittedFor(c))
        /\ Cardinality(AdmittedFor(c)) + limiters[c] <= RequestsPerMinute + refills
    BY <1>3 DEF TokenInv
  <2>3. /\ IsFiniteSet(AdmittedFor(c)')
        /\ Cardinality(AdmittedFor(c)') <= Cardinality(AdmittedFor(c))
        /\ Cardinality(AdmittedFor(c)') \in Nat /\ Cardinality(AdmittedFor(c)) \in Nat
    BY <2>1, <2>2, FS_Subset, FS_CardinalityType
  <2>4. QED
    BY <1>1, <1>3, <2>2, <2>3
<1>4. /\ IsFiniteSet(AdmittedFor(key)) /\ Cardinality(AdmittedFor(key)) \in Nat
      /\ Cardinality(AdmittedFor(key)) + Bucket(key) <= RequestsPerMinute + refills
  <2>1. CASE key \in DOMAIN limiters
    BY <2>1, FS_CardinalityType DEF TokenInv, Bucket
  <2>2. CASE key \notin DOMAIN limiters
    <3>1. AdmittedFor(key) = {}
      <4>1. \A x : x \notin AdmittedFor(key)
        BY <2>2, AdmittedForIs DEF TokenInv
      <4>2. QED
        BY <4>1
    <3>2. IsFiniteSet(AdmittedFor(key)) /\ Cardinality(AdmittedFor(key)) = 0
      BY <3>1, FS_EmptySet
    <3>3. QED
      BY <1>1, <2>2, <3>2 DEF Bucket
  <2>3. QED
    BY <2>1, <2>2
<1>5. /\ IsFiniteSet(AdmittedFor(key)')
      /\ Cardinality(AdmittedFor(key)') + limiters'[key] <= RequestsPerMinute + refills'
  <2>1. AdmittedFor(key)' \subseteq AdmittedFor(key) \cup {<<h, k>>}
    BY AdmittedForIs
  <2>2. /\ IsFiniteSet(AdmittedFor(key) \cup {<<h, k>>})
        /\ Cardinality(AdmittedFor(key) \cup {<<h, k>>}) <= Cardinality(AdmittedFor(key)) + 1
        /\ Cardinality(AdmittedFor(key) \cup {<<h, k>>}) \in Nat
    <3> DEFINE A == AdmittedFor(key)
               B == A \cup {<<h, k>>}
    <3>1. IsFiniteSet(B) /\ (Cardinality(B) = Cardinality(A) \/ Cardinality(B) = Cardinality(A) + 1)
      BY <1>4, FS_AddElement
    <3> HIDE DEF A, B
    <3>2. Cardinality(A) \in Nat
      BY <1>4 DEF A
    <3>3. Cardinality(B) \in Nat /\ Cardinality(B) <= Cardinality(A) + 1
      BY <3>1, <3>2
    <3>4. QED
      BY <3>1, <3>3 DEF A, B
  <2>3. /\ IsFiniteSet(AdmittedFor(key)')
        /\ Cardinality(AdmittedFor(key)') <= Cardinality(AdmittedFor(key) \cup {<<h, k>>})
        /\ Cardinality(AdmittedFor(key)') \in Nat
    BY <2>1, <2>2, FS_Subset, FS_CardinalityType
  <2>4. Bucket(key) \in Int
    BY <1>1 DEF Bucket
  <2>5. QED
    BY <1>1, <1>4, <2>2, <2>3, <2>4
<1>6. QED
  BY <1>1, <1>2, <1>3, <1>5 DEF TokenInv

\* Only the loop of observeHTTPRequest admits calls.
LEMMA AdmittedRests ==
    ASSUME NEW g, req'[g] = req[g], next'[g] = next[g], outcome[g] \subseteq outcome'[g]
    PROVE  \A k \in Admitted(g)' : k \in Admitted(g) /\ LimiterKey(g, k)' = LimiterKey(g, k)
<1>1. Operations(g)' = Operations(g) /\ \A k : Msg(g, k)' = Msg(g, k)
  BY SameOperations, SameMessages
<1>2. \A k : LimiterKey(g, k)' = LimiterKey(g, k) /\ (NeedsToken(g, k)' <=> NeedsToken(g, k))
  BY <1>1 DEF LimiterKey, NeedsToken
<1>3. QED
  BY <1>1, <1>2 DEF Admitted

LEMMA TokensUntouched ==
    ASSUME HTTPTypeOK, TokenInv, HTTPTypeOK', UNCHANGED <<limiters, refills>>,
           \A g \in Handlers : \A k \in Admitted(g)' :
              k \in Admitted(g) /\ LimiterKey(g, k)' = LimiterKey(g, k)
    PROVE  TokenInv'
<1>1. \A key \in DOMAIN limiters : limiters'[key] + refills <= limiters[key] + refills'
  BY DEF HTTPTypeOK
<1>2. QED
  BY <1>1, TokensKept

\* After the loop a handler only adds outcomes.
LEMMA RecordTokens ==
    ASSUME HTTPInv, HTTPTypeOK', NEW h \in Handlers, Others(h), UNCHANGED <<limiters, refills>>,
           req'[h] = req[h], next'[h] = next[h], outcome[h] \subseteq outcome'[h]
    PROVE  TokenInv'
<1>1. HTTPTypeOK /\ TokenInv
  BY InvParts
<1>2. \A g \in Handlers : req'[g] = req[g] /\ next'[g] = next[g] /\ outcome[g] \subseteq outcome'[g]
  BY DEF Others, Rests
<1>3. QED
  BY <1>1, <1>2, AdmittedRests, TokensUntouched

LEMMA ObserveTokens ==
    ASSUME HTTPInv, HTTPTypeOK', NEW h \in Handlers, ObserveMessage(h), Others(h)
    PROVE  TokenInv'
<1>0. PICK k : k = next[h]
  OBVIOUS
<1>1. /\ HTTPTypeOK /\ TokenInv /\ next[h] \in Nat \ {0} /\ outcome[h] = {} /\ UNCHANGED <<req, refills>>
  BY ObserveFacts, InvParts
<1>2. next'[h] = next[h] + 1
  BY <1>0, <1>1 DEF ObserveMessage, Rejected, Accepted, HTTPTypeOK
<1>3. \A j : LimiterKey(h, j)' = LimiterKey(h, j) /\ (NeedsToken(h, j)' <=> NeedsToken(h, j))
  BY <1>1, SameMessages DEF LimiterKey, NeedsToken
<1>4. \A j \in Operations(h)' : j \in Operations(h) \/ (j = k /\ Msg(h, k).method # NoMethod)
  BY <1>0, <1>1, <1>2, OneMore
<1>5. \A j \in Admitted(h)' :
          /\ j \in Admitted(h) \/ (j = k /\ NeedsToken(h, k) /\ Msg(h, k).method # NoMethod)
          /\ {<<j, "denied">>, <<j, "rate_limited">>} \cap outcome'[h] = {}
  BY <1>1, <1>3, <1>4 DEF Admitted
<1>6. \A g \in Handlers \ {h} : \A j \in Admitted(g)' :
          j \in Admitted(g) /\ LimiterKey(g, j)' = LimiterKey(g, j)
  BY AdmittedRests DEF Others, Rests
<1>7. CASE k \notin Admitted(h)' /\ UNCHANGED limiters
  BY <1>1, <1>3, <1>5, <1>6, <1>7, TokensUntouched
<1>8. CASE k \notin Admitted(h)' /\ Limited(LimiterKey(h, k))
  <2>1. /\ DOMAIN limiters' = DOMAIN limiters
        /\ \A c \in DOMAIN limiters : limiters'[c] = limiters[c]
    BY <1>1, <1>8, LimitedIsKnown
  <2>2. \A c \in DOMAIN limiters : limiters'[c] + refills <= limiters[c] + refills'
    BY <1>1, <2>1 DEF HTTPTypeOK
  <2>3. QED
    BY <1>1, <1>3, <1>5, <1>6, <1>8, <2>1, <2>2, TokensKept
<1>9. CASE Take(LimiterKey(h, k))
  <2>1. PICK key : key = LimiterKey(h, k)
    OBVIOUS
  <2>2. \A g \in Handlers : \A j \in Admitted(g)' :
              \/ g = h /\ j = k
              \/ j \in Admitted(g) /\ LimiterKey(g, j)' = LimiterKey(g, j)
    BY <1>3, <1>5, <1>6
  <2>3. QED
    BY <1>1, <1>3, <1>9, <2>1, <2>2, TokenTaken
<1>10. ASSUME NEW o \in {"denied", "rate_limited"}, Rejected(h, o) PROVE k \notin Admitted(h)'
  <2>1. <<k, o>> \in outcome'[h]
    BY <1>0, <1>1, <1>10 DEF Rejected, Record, HTTPTypeOK
  <2>2. QED
    BY <1>5, <2>1
<1>11. k \notin Admitted(h)
  <2>1. k \notin Operations(h)
    BY <1>0, <1>1, <1>2, OneMore
  <2>2. QED
    BY <2>1 DEF Admitted
<1>12. (~NeedsToken(h, k) \/ Msg(h, k).method = NoMethod) => k \notin Admitted(h)'
  BY <1>5, <1>11
<1>13. \/ k \notin Admitted(h)' /\ UNCHANGED limiters
       \/ k \notin Admitted(h)' /\ Limited(LimiterKey(h, k))
       \/ Take(LimiterKey(h, k))
  BY <1>0, <1>10, <1>12 DEF ObserveMessage
<1>14. QED
  BY <1>7, <1>8, <1>9, <1>13

LEMMA ServeTokens ==
    ASSUME HTTPInv, HTTPTypeOK', NEW h \in Handlers, NEW r \in Inbox[h], ServeHTTP(h, r), Others(h)
    PROVE  TokenInv'
<1>1. HTTPTypeOK /\ TokenInv /\ HandlerInv(h)
  BY InvParts
<1>2. pc[h] = "idle" /\ UNCHANGED <<next, limiters, refills>>
  BY DEF ServeHTTP, sharedVars
<1>3. Admitted(h)' = {}
  <2>1. next'[h] = 1
    BY <1>1, <1>2 DEF HandlerInv, StageInv
  <2>2. Operations(h)' = {}
    BY <2>1 DEF Operations
  <2>3. QED
    BY <2>2 DEF Admitted
<1>4. \A g \in Handlers \ {h} : \A j \in Admitted(g)' :
          j \in Admitted(g) /\ LimiterKey(g, j)' = LimiterKey(g, j)
  BY AdmittedRests DEF Others, Rests
<1>5. QED
  BY <1>1, <1>2, <1>3, <1>4, TokensUntouched

\* Time adds a token to one bucket.
LEMMA RefillInv ==
    ASSUME HTTPInv, RefillBucket
    PROVE  HTTPTypeOK' /\ TokenInv'
<1>1. HTTPTypeOK /\ TokenInv
  BY InvParts
<1>2. PICK key \in DOMAIN limiters : Refill(key)
  BY DEF RefillBucket
<1>3. /\ refills' = refills + 1
      /\ UNCHANGED <<pc, req, next, pending, outcome, relayed, attempt, backoff, wait, events, gone,
                     executed, status, server>>
  BY DEF RefillBucket, requestVars, localVars, upstreamVars
<1>4. /\ DOMAIN limiters' = DOMAIN limiters /\ limiters[key] < RequestsPerMinute
      /\ limiters'[key] = limiters[key] + 1
      /\ \A c \in DOMAIN limiters \ {key} : limiters'[c] = limiters[c]
  BY <1>2 DEF Refill
<1>5. refills \in Nat /\ \A c \in DOMAIN limiters : limiters[c] \in 0..RequestsPerMinute
  BY <1>1 DEF HTTPTypeOK
<1>6. \A c \in DOMAIN limiters' : limiters'[c] \in 0..RequestsPerMinute
  BY <1>4, <1>5, PolicyAssumption
<1>7. HTTPTypeOK'
  BY <1>1, <1>3, <1>5, <1>6 DEF HTTPTypeOK
<1>8. \A c \in DOMAIN limiters : limiters'[c] + refills <= limiters[c] + refills'
  BY <1>3, <1>4, <1>5
<1>9. \A g \in Handlers : \A k \in Admitted(g)' :
          k \in Admitted(g) /\ LimiterKey(g, k)' = LimiterKey(g, k)
  BY <1>3, AdmittedRests
<1>10. QED
  BY <1>1, <1>4, <1>7, <1>8, <1>9, TokensKept

-----------------------------------------------------------------------------
(* The induction.                                                          *)

\* Finalizing steps add outcomes; the others leave them.
LEMMA OutcomesGrow ==
    ASSUME HTTPInv, NEW h \in Handlers, Refuse(h) \/ HandlerStep(h), ~ObserveMessage(h)
    PROVE  /\ req'[h] = req[h] /\ next'[h] = next[h] /\ outcome[h] \subseteq outcome'[h]
           /\ UNCHANGED <<limiters, refills>>
<1>1. HTTPTypeOK
  BY InvParts
<1>2. \A S, keep : Record(h, S, keep) => outcome[h] \subseteq outcome'[h]
  BY <1>1 DEF Record, HTTPTypeOK
<1>3. CASE Refuse(h) \/ ObserveEnd(h)
  BY <1>3 DEF Refuse, ObserveEnd, requestVars, sharedVars
<1>4. CASE DoFails(h)
  BY <1>2, <1>4 DEF DoFails, Sleep, finalizeHTTPPending, sharedVars
<1>5. CASE DoAnswers(h)
  BY <1>5 DEF DoAnswers, Sleep, sharedVars
<1>6. CASE BackoffEnds(h)
  BY <1>2, <1>6 DEF BackoffEnds, finalizeHTTPPending, sharedVars
<1>7. CASE ResponseFails(h)
  BY <1>2, <1>7 DEF ResponseFails, finalizeHTTPPending, sharedVars
<1>8. CASE Respond(h)
  BY <1>2, <1>8 DEF Respond, sharedVars
<1>9. CASE StreamEvent(h) \/ StreamJunk(h) \/ StreamEnd(h)
  BY <1>2, <1>9 DEF StreamEvent, StreamJunk, StreamEnd, sharedVars
<1>10. QED
  BY <1>3, <1>4, <1>5, <1>6, <1>7, <1>8, <1>9 DEF HandlerStep

\* A step of one handler keeps the invariant.
LEMMA HandlerMoves ==
    ASSUME HTTPInv, NEW h \in Handlers,
           Refuse(h) \/ (\E r \in Inbox[h] : ServeHTTP(h, r)) \/ HandlerStep(h)
    PROVE  HTTPTypeOK' /\ HandlerInv(h)' /\ Others(h) /\ TokenInv' /\ StoppedInv'
<1>1. HTTPTypeOK' /\ HandlerInv(h)' /\ Others(h)
  <2>1. CASE Refuse(h)
    BY <2>1, RefuseInv
  <2>2. CASE \E r \in Inbox[h] : ServeHTTP(h, r)
    BY <2>2, ServeInv
  <2>3. CASE HandlerStep(h)
    BY <2>3, ObserveInv, ObserveEndInv, DoFailsInv, DoAnswersInv, BackoffEndsInv, ResponseFailsInv,
       RespondInv, StreamEventInv, StreamJunkInv, StreamEndInv DEF HandlerStep
  <2>4. QED
    BY <2>1, <2>2, <2>3
<1>2. TokenInv'
  <2>1. CASE ObserveMessage(h)
    BY <1>1, <2>1, ObserveTokens
  <2>2. CASE \E r \in Inbox[h] : ServeHTTP(h, r)
    BY <1>1, <2>2, ServeTokens
  <2>3. CASE (Refuse(h) \/ HandlerStep(h)) /\ ~ObserveMessage(h)
    BY <1>1, <2>3, OutcomesGrow, RecordTokens
  <2>4. QED
    BY <2>1, <2>2, <2>3
<1>3. server # "stopped"
  <2>1. server = "serving" \/ pc[h] \notin {"idle", "done"}
    BY DEF Refuse, ServeHTTP, HandlerStep, ObserveMessage, ObserveEnd, DoFails, DoAnswers, BackoffEnds,
           ResponseFails, Respond, StreamEvent, StreamJunk, StreamEnd
  <2>2. QED
    BY <2>1, InvParts DEF StoppedInv
<1>4. server' = server
  BY DEF Refuse, ServeHTTP, HandlerStep, ObserveMessage, ObserveEnd, DoFails, DoAnswers, BackoffEnds,
         ResponseFails, Respond, StreamEvent, StreamJunk, StreamEnd, sharedVars
<1>5. QED
  BY <1>1, <1>2, <1>3, <1>4 DEF StoppedInv

LEMMA HTTPInitInv == Init => HTTPInv
<1> SUFFICES ASSUME Init PROVE HTTPInv
  OBVIOUS
<1>1. HTTPTypeOK
  BY HTTPAssumption DEF Init, HTTPTypeOK
<1>2. ASSUME NEW h \in Handlers PROVE HandlerInv(h) /\ Admitted(h) = {}
  <2>1. /\ pc[h] = "idle" /\ req[h] = NoRequest /\ next[h] = 1 /\ pending[h] = {} /\ outcome[h] = {}
        /\ attempt[h] = 0 /\ backoff[h] = 0 /\ executed[h] = 0 /\ status[h] = 0
    BY DEF Init
  <2>2. Operations(h) = {} /\ Recorded(h) = {}
    BY <2>1 DEF Operations, Recorded
  <2>3. StageInv(h) /\ RetryInv(h) /\ PolicyInv(h)
    BY <1>1, <2>1, RequestLength DEF StageInv, RetryInv, PolicyInv
  <2>4. OutcomeInv(h)
    BY <2>1, <2>2 DEF OutcomeInv
  <2>5. QED
    BY <2>1, <2>2, <2>3, <2>4 DEF HandlerInv, Admitted
<1>3. TokenInv
  <2>1. DOMAIN limiters = {}
    BY DEF Init
  <2>2. QED
    BY <1>2, <2>1 DEF TokenInv
<1>4. StoppedInv
  BY DEF Init, StoppedInv
<1>5. QED
  BY <1>1, <1>2, <1>3, <1>4, InvParts

LEMMA HTTPNextInv == HTTPInv /\ [Next]_vars => HTTPInv'
<1> SUFFICES ASSUME HTTPInv, [Next]_vars PROVE HTTPInv'
  OBVIOUS
<1>0. HTTPTypeOK /\ TokenInv /\ StoppedInv /\ \A h \in Handlers : HandlerInv(h)
  BY InvParts
<1>P. HTTPTypeOK' /\ TokenInv' /\ StoppedInv' /\ (\A h \in Handlers : HandlerInv(h)') => HTTPInv'
  BY DEF HTTPInv, HandlerInv, StoppedInv, BackoffBounded
<1>1. ASSUME NEW h \in Handlers,
             Refuse(h) \/ (\E r \in Inbox[h] : ServeHTTP(h, r)) \/ HandlerStep(h)
      PROVE  HTTPInv'
  <2>1. HTTPTypeOK' /\ HandlerInv(h)' /\ Others(h) /\ TokenInv' /\ StoppedInv'
    BY <1>1, HandlerMoves
  <2>2. \A g \in Handlers : HandlerInv(g)'
    BY <1>0, <2>1, RestsKeeps DEF Others
  <2>3. QED
    BY <1>P, <2>1, <2>2
<1>2. ASSUME \A g \in Handlers : Rests(g) PROVE \A g \in Handlers : HandlerInv(g)'
  BY <1>0, <1>2, RestsKeeps
<1>3. CASE RefillBucket
  <2>1. \A g \in Handlers : Rests(g)
    BY <1>3 DEF RefillBucket, Rests, requestVars, localVars, upstreamVars
  <2>2. StoppedInv'
    BY <1>0, <1>3 DEF RefillBucket, StoppedInv
  <2>3. QED
    BY <1>P, <1>2, <1>3, <2>1, <2>2, RefillInv
<1>4. CASE \/ UNCHANGED vars \/ ServeEnds \/ Shutdown \/ \E h \in Handlers : Disconnect(h)
  <2>1. /\ UNCHANGED <<pc, req, next, pending, outcome, relayed, attempt, backoff, wait, events,
                       executed, status, limiters, refills>>
    BY <1>4 DEF vars, ServeEnds, Shutdown, Disconnect, requestVars, localVars, upstreamVars, sharedVars
  <2>2. \A g \in Handlers : Rests(g)
    BY <2>1 DEF Rests
  <2>3. server' \in {"serving", "draining", "stopped", "failed"} /\ gone' \in [Handlers -> BOOLEAN]
    BY <1>0, <1>4 DEF vars, ServeEnds, Shutdown, Disconnect, localVars, sharedVars, HTTPTypeOK
  <2>4. HTTPTypeOK'
    BY <1>0, <2>1, <2>3 DEF HTTPTypeOK
  <2>5. TokenInv'
    BY <1>0, <2>1, <2>4, AdmittedRests, TokensUntouched
  <2>6. StoppedInv'
    BY <1>0, <1>4, <2>1 DEF StoppedInv, vars, ServeEnds, Shutdown, Disconnect, sharedVars
  <2>7. QED
    BY <1>P, <1>2, <2>2, <2>4, <2>5, <2>6
<1>5. QED
  BY <1>1, <1>3, <1>4 DEF Next

\* For all handlers, requests and policies: the state of the proxy is well
\* formed, its sleeps positive and bounded, its calls and tokens accounted for.
THEOREM HTTPCorrect == SafetySpec => []HTTPInv
<1>1. Init => HTTPInv
  BY HTTPInitInv
<1>2. HTTPInv /\ [Next]_vars => HTTPInv'
  BY HTTPNextInv
<1>3. QED
  BY <1>1, <1>2, PTL DEF SafetySpec

\* A call is finalized once, and before its handler returns or the server has
\* stopped.
LEMMA InvOneOutcome == HTTPInv => OneOutcome
<1> SUFFICES ASSUME HTTPInv, NEW h \in Handlers
             PROVE  /\ \A p, q \in outcome[h] : p[1] = q[1] => p = q
                    /\ pc[h] = "done" \/ server = "stopped" =>
                          pending[h] = {} /\ Operations(h) \ Overwritten(h) \subseteq Recorded(h)
  BY DEF OneOutcome
<1>1. StageInv(h) /\ OutcomeInv(h) /\ StoppedInv
  BY InvParts DEF HandlerInv
<1>2. pc[h] = "idle" => Operations(h) = {}
  BY <1>1 DEF StageInv, Operations
<1>3. pc[h] \in {"idle", "done"} => pending[h] = {}
  BY <1>1, <1>2 DEF StageInv, OutcomeInv
<1>4. QED
  BY <1>1, <1>3 DEF OutcomeInv, StoppedInv

\* For all handlers, requests and policies: a call gets one outcome, whichever
\* of denial, failure, retry, plain response and stream ends it.
THEOREM HTTPOneOutcome == SafetySpec => []OneOutcome
BY HTTPCorrect, InvOneOutcome, PTL

LEMMA InvUnsafeAtMostOnce == HTTPInv => UnsafeAtMostOnce
<1> SUFFICES ASSUME HTTPInv, NEW h \in Handlers,
                    executed[h] > 1, req[h].method \notin {"GET", "HEAD", "OPTIONS"}
             PROVE  /\ req[h].msgs # <<>>
                    /\ \A k \in Positions(h) : Msg(h, k).method \notin Acting
  BY DEF UnsafeAtMostOnce
<1>1. safeToRetry(h)
  BY InvParts DEF HandlerInv, RetryInv
<1>2. \A m \in Acting : ~safeJSONRPCMethod(m)
  BY Zenon DEF Acting, safeJSONRPCMethod, NoMethod
<1>3. QED
  BY <1>1, <1>2 DEF safeToRetry

\* For all handlers, requests and retry policies: a request that does something
\* is carried out by the upstream at most once.
THEOREM HTTPUnsafeAtMostOnce == SafetySpec => []UnsafeAtMostOnce
BY HTTPCorrect, InvUnsafeAtMostOnce, PTL

LEMMA InvOnlyAdmitted == HTTPInv => OnlyAdmitted
<1> SUFFICES ASSUME HTTPInv PROVE DeniedNeverForwarded /\ RateBound
  BY DEF OnlyAdmitted
<1>1. ASSUME NEW h \in Handlers, pc[h] \in {"send", "backoff", "read", "stream"} \/ executed[h] > 0,
             NEW k \in Positions(h)
      PROVE  /\ Permitted(req[h].client, Msg(h, k))
             /\ {<<k, "denied">>, <<k, "rate_limited">>} \cap outcome[h] = {}
  <2>1. StageInv(h) /\ PolicyInv(h) /\ Len(req[h].msgs) \in Nat
    BY InvParts, RequestLength DEF HandlerInv
  <2>2. k \in 1..next[h] - 1
    BY <1>1, <2>1 DEF StageInv, Positions
  <2>3. <<k, "denied">> \notin outcome[h] /\ <<k, "rate_limited">> \notin outcome[h]
    <3>1. \A p \in outcome[h] : p[2] \notin {"denied", "rate_limited"}
      BY <1>1, <2>1 DEF PolicyInv
    <3>2. <<k, "denied">>[2] = "denied" /\ <<k, "rate_limited">>[2] = "rate_limited"
      OBVIOUS
    <3>3. QED
      BY <3>1, <3>2
  <2>4. QED
    BY <1>1, <2>1, <2>2, <2>3 DEF PolicyInv
<1>2. DeniedNeverForwarded
  BY <1>1 DEF DeniedNeverForwarded
<1>3. RateBound
  <2> SUFFICES ASSUME NEW h \in Handlers, NEW k \in Admitted(h)
               PROVE  Cardinality(AdmittedFor(LimiterKey(h, k))) <= RequestsPerMinute + refills
    BY DEF RateBound
  <2>1. PICK key : key = LimiterKey(h, k)
    OBVIOUS
  <2>2. /\ key \in DOMAIN limiters /\ IsFiniteSet(AdmittedFor(key))
        /\ Cardinality(AdmittedFor(key)) + limiters[key] <= RequestsPerMinute + refills
    BY <2>1, InvParts DEF TokenInv
  <2>3. limiters[key] \in Nat /\ refills \in Nat /\ RequestsPerMinute \in Nat
    BY <2>2, InvParts, PolicyAssumption DEF HTTPTypeOK
  <2>4. Cardinality(AdmittedFor(key)) \in Nat
    BY <2>2, FS_CardinalityType
  <2>5. QED
    BY <2>1, <2>2, <2>3, <2>4
<1>4. QED
  BY <1>2, <1>3

\* For all policies, limits and batches: what reaches the upstream was admitted
\* by the policy, message by message, and by the shared bucket, in number.
THEOREM HTTPOnlyAdmitted == SafetySpec => []OnlyAdmitted
BY HTTPCorrect, InvOnlyAdmitted, PTL

-----------------------------------------------------------------------------
(* A success is backed by what the client was sent.  Its induction needs   *)
(* HTTPInv: nothing is recorded before there is a status, and a response   *)
(* comes from an upstream that carried the request out.                    *)

\* What stands behind the success of the call k.
Backed(h, k) ==
    IF Msg(h, k).id = NoId
    THEN executed[h] > 0 /\ status[h] < 400
    ELSE relayed[h] \cap {<<Msg(h, k).id, "result">>, <<Msg(h, k).id, "request">>} # {}
SuccessOf(h) == \A p \in outcome[h] : p[2] = "success" => Backed(h, p[1])
AllBacked == \A h \in Handlers : SuccessOf(h)

LEMMA ExecutedNat == ASSUME HTTPTypeOK, NEW h \in Handlers PROVE executed[h] \in Nat
BY HTTPAssumption DEF HTTPTypeOK

\* Outcomes are added, and each success among them is backed.
LEMMA SuccessKept ==
    ASSUME HTTPTypeOK, NEW h \in Handlers, SuccessOf(h), req'[h] = req[h],
           executed'[h] \in Nat, executed[h] <= executed'[h],
           relayed[h] \subseteq relayed'[h], outcome[h] = {} \/ status'[h] = status[h],
           NEW S, outcome'[h] \subseteq outcome[h] \cup S,
           \A p \in S : p[2] = "success" => Backed(h, p[1])'
    PROVE  SuccessOf(h)'
<1>1. \A k : Msg(h, k)' = Msg(h, k)
  BY SameMessages
<1>2. executed[h] \in Nat
  BY ExecutedNat
<1>3. ASSUME NEW k, Backed(h, k), status'[h] = status[h] PROVE Backed(h, k)'
  BY <1>1, <1>2, <1>3 DEF Backed
<1>4. QED
  BY <1>3 DEF SuccessOf

\* Steps that record no success.
LEMMA NoNewSuccess ==
    ASSUME HTTPTypeOK, HTTPTypeOK', NEW h \in Handlers, SuccessOf(h), req'[h] = req[h],
           executed[h] <= executed'[h], relayed[h] \subseteq relayed'[h],
           outcome[h] = {} \/ status'[h] = status[h],
           \A p \in outcome'[h] : p \in outcome[h] \/ p[2] # "success"
    PROVE  SuccessOf(h)'
<1> DEFINE S == {p \in outcome'[h] : p[2] # "success"}
<1>1. outcome'[h] \subseteq outcome[h] \cup S /\ \A p \in S : p[2] # "success"
  OBVIOUS
<1>2. executed'[h] \in Nat
  BY HTTPAssumption DEF HTTPTypeOK
<1> HIDE DEF S
<1>3. QED
  BY <1>1, <1>2, SuccessKept

\* The failures of a handler are no successes.
LEMMA FailureRecords ==
    ASSUME HTTPTypeOK, NEW h \in Handlers, NEW o, o # "success",
           finalizeHTTPPending(h, o)
    PROVE  \A p \in outcome'[h] : p \in outcome[h] \/ p[2] # "success"
<1>1. outcome'[h] = outcome[h] \cup (pending[h] \X {o})
  BY DEF finalizeHTTPPending, Record, HTTPTypeOK
<1>2. QED
  BY <1>1

\* The outcomes that a response gives are backed once it is relayed.
LEMMA ResponseBacked ==
    ASSUME HTTPInv, NEW h \in Handlers, pc[h] \in {"read", "stream"},
           UNCHANGED <<req, executed, status>>, relayed[h] \subseteq relayed'[h]
    PROVE  /\ \A msgs : msgs \subseteq relayed'[h] =>
                 \A p \in Answered(h, msgs) : p[2] = "success" => Backed(h, p[1])'
           /\ \A P : \A p \in Remainder(h, P) : p[2] = "success" => Backed(h, p[1])'
<1>1. status[h] \in Nat /\ executed[h] > 0
  BY StatusNat, InvParts DEF HandlerInv, RetryInv
<1>2. \A k : Msg(h, k)' = Msg(h, k)
  BY SameMessages
<1>3. ASSUME NEW msgs, msgs \subseteq relayed'[h], NEW p \in Answered(h, msgs), p[2] = "success"
      PROVE  Backed(h, p[1])'
  <2>1. PICK kind \in Kinds : <<Msg(h, p[1]).id, kind>> \in msgs
    BY AnsweredFacts
  <2>2. ~(status[h] >= 400) /\ <<Msg(h, p[1]).id, "error">> \notin msgs
    BY <1>3, AnsweredFacts
  <2>3. kind \in {"result", "request"}
    BY <2>1, <2>2 DEF Kinds
  <2>4. QED
    BY <1>1, <1>2, <1>3, <2>1, <2>2, <2>3 DEF Backed
<1>4. ASSUME NEW P, NEW p \in Remainder(h, P), p[2] = "success"
      PROVE  Backed(h, p[1])'
  <2>1. status[h] < 400 /\ Msg(h, p[1]).id = NoId
    BY <1>1, <1>4, RemainderFacts
  <2>2. QED
    BY <1>1, <1>2, <2>1 DEF Backed
<1>5. QED
  BY <1>3, <1>4

LEMMA ResponseSuccess ==
    ASSUME HTTPInv, HTTPTypeOK', NEW h \in Handlers, SuccessOf(h),
           Respond(h) \/ StreamEvent(h) \/ StreamJunk(h) \/ StreamEnd(h)
    PROVE  SuccessOf(h)'
<1>1. HTTPTypeOK /\ executed[h] \in Nat
  BY InvParts, ExecutedNat
<1>2. /\ pc[h] \in {"read", "stream"} /\ UNCHANGED <<req, executed, status>>
      /\ relayed[h] \subseteq relayed'[h]
  <2>1. \A msgs : relayed' = [relayed EXCEPT ![h] = @ \cup msgs] => relayed[h] \subseteq relayed'[h]
    BY <1>1 DEF HTTPTypeOK
  <2>2. relayed' = relayed \/ \E msgs : relayed' = [relayed EXCEPT ![h] = @ \cup msgs]
    BY DEF Respond, StreamEvent, StreamJunk, StreamEnd
  <2>3. pc[h] \in {"read", "stream"} /\ UNCHANGED <<req, executed, status>>
    BY DEF Respond, StreamEvent, StreamJunk, StreamEnd, upstreamVars
  <2>4. QED
    BY <2>1, <2>2, <2>3
<1>3. \A S, keep : Record(h, S, keep) => outcome'[h] = outcome[h] \cup S
  BY <1>1 DEF Record, HTTPTypeOK
<1>4. ASSUME NEW S, outcome'[h] = outcome[h] \cup S,
             \A p \in S : p[2] = "success" => Backed(h, p[1])'
      PROVE  SuccessOf(h)'
  BY <1>1, <1>2, <1>4, SuccessKept
<1>5. CASE StreamJunk(h) \/ StreamEnd(h)
  <2>1. outcome'[h] = outcome[h] \cup Remainder(h, pending[h])
    BY <1>3, <1>5 DEF StreamJunk, StreamEnd
  <2>2. QED
    BY <1>2, <1>4, <2>1, ResponseBacked
<1>6. CASE StreamEvent(h)
  <2>1. PICK m \in Ids(h) \X Kinds :
           /\ relayed' = [relayed EXCEPT ![h] = @ \cup {m}]
           /\ Record(h, Answered(h, {m}), {k \in pending[h] : Msg(h, k).id # m[1]})
    BY <1>6 DEF StreamEvent
  <2>2. {m} \subseteq relayed'[h]
    BY <1>1, <2>1 DEF HTTPTypeOK
  <2>3. outcome'[h] = outcome[h] \cup Answered(h, {m})
    BY <1>3, <2>1
  <2>4. QED
    BY <1>2, <1>4, <2>2, <2>3, ResponseBacked
<1>7. CASE Respond(h)
  <2>1. PICK msgs, left :
           /\ relayed' = [relayed EXCEPT ![h] = @ \cup msgs]
           /\ Record(h, Answered(h, msgs) \cup Remainder(h, left), {})
    BY <1>7 DEF Respond
  <2>2. msgs \subseteq relayed'[h]
    BY <1>1, <2>1 DEF HTTPTypeOK
  <2>3. outcome'[h] = outcome[h] \cup (Answered(h, msgs) \cup Remainder(h, left))
    BY <1>3, <2>1
  <2>4. \A p \in Answered(h, msgs) \cup Remainder(h, left) : p[2] = "success" => Backed(h, p[1])'
    BY <1>2, <2>2, ResponseBacked
  <2>5. QED
    BY <1>4, <2>3, <2>4
<1>8. QED
  BY <1>5, <1>6, <1>7

\* A message that is observed records a denial, or nothing.
LEMMA ObserveSuccess ==
    ASSUME HTTPInv, HTTPTypeOK', NEW h \in Handlers, SuccessOf(h), ObserveMessage(h)
    PROVE  SuccessOf(h)'
<1>1. HTTPTypeOK /\ executed[h] \in Nat
  BY InvParts, ExecutedNat
<1>2. UNCHANGED <<req, relayed, executed, status>>
  BY DEF ObserveMessage, upstreamVars
<1>3. outcome' = outcome \/ Rejected(h, "denied") \/ Rejected(h, "rate_limited")
  BY DEF ObserveMessage, Accepted
<1>4. \A o : Rejected(h, o) =>
        outcome'[h] = outcome[h] \cup ({<<next[h], o>>} \cup (pending[h] \X {"cancelled"}))
  BY <1>1 DEF Rejected, Record, HTTPTypeOK
<1>5. \A p \in outcome'[h] : p \in outcome[h] \/ p[2] # "success"
  BY <1>3, <1>4
<1>6. QED
  BY <1>1, <1>2, <1>5, NoNewSuccess

LEMMA UpstreamSuccess ==
    ASSUME HTTPInv, HTTPTypeOK', NEW h \in Handlers, SuccessOf(h),
           DoFails(h) \/ DoAnswers(h) \/ BackoffEnds(h) \/ ResponseFails(h)
    PROVE  SuccessOf(h)'
<1>1. HTTPTypeOK /\ executed[h] \in Nat
  BY InvParts, ExecutedNat
<1>2. \A cause \in Causes(h) : httpFailureOutcome(cause) # "success"
  BY DEF Causes, httpFailureOutcome
<1>3. httpFailureOutcome("canceled") # "success"
  BY DEF httpFailureOutcome
<1>4. req' = req /\ relayed' = relayed
  BY DEF DoFails, DoAnswers, BackoffEnds, ResponseFails
<1>5. executed[h] <= executed'[h]
  <2>1. executed' = executed \/ \E ran \in 0..1 : executed' = [executed EXCEPT ![h] = @ + ran]
    <3>1. 1 \in 0..1
      OBVIOUS
    <3>2. CASE DoFails(h)
      BY <3>2 DEF DoFails
    <3>3. CASE DoAnswers(h)
      BY <3>1, <3>3 DEF DoAnswers
    <3>4. QED
      BY <3>2, <3>3 DEF BackoffEnds, ResponseFails, upstreamVars
  <2>2. \A ran \in 0..1 : executed' = [executed EXCEPT ![h] = @ + ran] => executed'[h] = executed[h] + ran
    BY <1>1 DEF HTTPTypeOK
  <2>3. QED
    BY <1>1, <2>1, <2>2
<1>6. outcome[h] = {} \/ status'[h] = status[h]
  <2>1. pc[h] = "send" => outcome[h] = {}
    BY InvParts DEF HandlerInv, StageInv
  <2>2. QED
    BY <2>1 DEF DoFails, DoAnswers, BackoffEnds, ResponseFails, upstreamVars
<1>7. outcome' = outcome \/ \E o : o # "success" /\ finalizeHTTPPending(h, o)
  <2>1. CASE DoFails(h)
    BY <1>2, <2>1 DEF DoFails, Sleep
  <2>2. CASE DoAnswers(h)
    BY <2>2 DEF DoAnswers, Sleep
  <2>3. CASE BackoffEnds(h)
    BY <1>3, <2>3 DEF BackoffEnds
  <2>4. CASE ResponseFails(h)
    BY <1>2, <2>4 DEF ResponseFails
  <2>5. QED
    BY <2>1, <2>2, <2>3, <2>4
<1>8. \A p \in outcome'[h] : p \in outcome[h] \/ p[2] # "success"
  BY <1>1, <1>7, FailureRecords
<1>9. QED
  BY <1>1, <1>4, <1>5, <1>6, <1>8, NoNewSuccess

LEMMA SuccessMoves ==
    ASSUME HTTPInv, HTTPTypeOK', NEW h \in Handlers, SuccessOf(h),
           Refuse(h) \/ (\E r \in Inbox[h] : ServeHTTP(h, r)) \/ HandlerStep(h)
    PROVE  SuccessOf(h)'
<1>1. HTTPTypeOK /\ executed[h] \in Nat
  BY InvParts, ExecutedNat
<1>2. CASE Refuse(h) \/ ObserveEnd(h)
  BY <1>1, <1>2, NoNewSuccess DEF Refuse, ObserveEnd, requestVars, upstreamVars
<1>3. CASE \E r \in Inbox[h] : ServeHTTP(h, r)
  <2>1. outcome'[h] = {}
    BY <1>3, InvParts DEF ServeHTTP, HandlerInv, StageInv
  <2>2. QED
    BY <2>1 DEF SuccessOf
<1>4. CASE HandlerStep(h) /\ ~ObserveEnd(h)
  BY <1>4, ObserveSuccess, UpstreamSuccess, ResponseSuccess DEF HandlerStep
<1>5. QED
  BY <1>2, <1>3, <1>4

LEMMA SuccessRests ==
    ASSUME NEW g, Rests(g), SuccessOf(g)
    PROVE  SuccessOf(g)'
<1>1. \A k : Backed(g, k)' <=> Backed(g, k)
  BY SameMessages DEF Backed, Rests
<1>2. QED
  BY <1>1 DEF SuccessOf, Rests

\* For all handlers, requests and answers of the upstream: no call is recorded
\* as a success without a message with its id and without an error having been
\* relayed, no notification without an upstream that took it.
THEOREM HTTPSuccessWasRelayed == SafetySpec => []SuccessWasRelayed
<1>1. Init => AllBacked
  BY DEF Init, AllBacked, SuccessOf
<1>2. HTTPInv /\ HTTPInv' /\ AllBacked /\ [Next]_vars => AllBacked'
  <2> SUFFICES ASSUME HTTPInv, HTTPInv', AllBacked, [Next]_vars, NEW g \in Handlers
               PROVE  SuccessOf(g)'
    BY DEF AllBacked
  <2>1. SuccessOf(g) /\ HTTPTypeOK'
    BY DEF AllBacked, HTTPInv
  <2>2. CASE Rests(g)
    BY <2>1, <2>2, SuccessRests
  <2>3. CASE \E h \in Handlers :
                Refuse(h) \/ (\E r \in Inbox[h] : ServeHTTP(h, r)) \/ HandlerStep(h)
    <3>1. PICK h \in Handlers : Refuse(h) \/ (\E r \in Inbox[h] : ServeHTTP(h, r)) \/ HandlerStep(h)
      BY <2>3
    <3>2. CASE g = h
      BY <2>1, <3>1, <3>2, SuccessMoves
    <3>3. CASE g # h
      <4>1. Others(h)
        BY <3>1, HandlerMoves
      <4>2. QED
        BY <2>2, <3>3, <4>1 DEF Others
    <3>4. QED
      BY <3>2, <3>3
  <2>4. CASE \/ UNCHANGED vars \/ RefillBucket \/ ServeEnds \/ Shutdown
             \/ \E h \in Handlers : Disconnect(h)
    <3>1. Rests(g)
      BY <2>4 DEF Rests, vars, RefillBucket, ServeEnds, Shutdown, Disconnect, requestVars, localVars,
                  upstreamVars
    <3>2. QED
      BY <2>2, <3>1
  <2>5. QED
    BY <2>3, <2>4 DEF Next
<1>3. AllBacked => SuccessWasRelayed
  <2> SUFFICES ASSUME AllBacked, NEW h \in Handlers, NEW k \in Positions(h), <<k, "success">> \in outcome[h]
               PROVE  Backed(h, k)
    BY DEF SuccessWasRelayed, Backed
  <2>1. <<k, "success">>[1] = k /\ <<k, "success">>[2] = "success"
    OBVIOUS
  <2>2. QED
    BY <2>1 DEF AllBacked, SuccessOf
<1>4. SafetySpec => []HTTPInv
  BY HTTPCorrect
<1>5. QED
  BY <1>1, <1>2, <1>3, <1>4, PTL DEF SafetySpec
=============================================================================
