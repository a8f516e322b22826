----------------------------- MODULE Dashboard ------------------------------
(***************************************************************************)
(* The dashboard (internal/dashboard/server.go): bearer authentication     *)
(* with a limiter of failures per principal, and queries that share the    *)
(* connection pool of the SQLite store with the writer.                    *)
(***************************************************************************)
EXTENDS SQLiteStore

CONSTANTS
    Principals,      \* remote addresses
    Handlers,        \* HTTP handlers that query at a time
    FailureLimit, Window, MaxPrincipals

ASSUME DashboardAssumption ==
    FailureLimit \in Nat \ {0} /\ Window \in Nat \ {0} /\ MaxPrincipals \in Nat \ {0}

VARIABLES
    now,
    attempts,        \* principal -> [start, failures]
    refusals,        \* history: the 401 answers to a principal since its last success
                     \* or eviction, within the last Window: the nth at its time,
                     \* and the bucket, by its start, with the failure it was
    reader           \* handler -> its query [at, conn, rows, expect]; expect holds
                     \* what was acknowledged when it began

dashboardVars == <<now, attempts, refusals, reader>>
vars == <<sqliteVars, dashboardVars>>

MaxTime == bounds.time   \* bound of the clock

Idle == [at |-> "idle", conn |-> None, rows |-> <<>>, expect |-> {}]
without(f, S) == [p \in DOMAIN f \ S |-> f[p]]
Expired(bucket) == now - bucket.start >= Window
Forget(S) == {r \in refusals : r.principal \notin S}

Init ==
    /\ SQLiteInit
    /\ now = 0
    /\ attempts = <<>>
    /\ refusals = {}
    /\ reader = [h \in Handlers |-> Idle]

-----------------------------------------------------------------------------
(* Authentication *)

\* Principals ensureCapacity may remove: when the map is full the expired ones,
\* and if that is not enough the one whose window began first.
ensureCapacity ==
    LET expired == {p \in DOMAIN attempts : Expired(attempts[p])}
        live == DOMAIN attempts \ expired
        oldest == {p \in live : \A q \in live : attempts[p].start <= attempts[q].start}
    IN  IF Cardinality(DOMAIN attempts) < MaxPrincipals THEN {{}}
        ELSE IF Cardinality(live) < MaxPrincipals THEN {expired}
        ELSE {expired \cup {p} : p \in oldest}

\* Mutant: a new window begins with every failure.
BucketAlwaysNew(p) == [start |-> now, failures |-> 1]

\* The bucket of p after one more failure.  The count of failures beyond the limit
\* is immaterial and capped.
Bucket(p) ==
    IF p \notin DOMAIN attempts \/ Expired(attempts[p])
    THEN [start |-> now, failures |-> 1]
    ELSE [attempts[p] EXCEPT !.failures = IF @ > FailureLimit THEN @ ELSE @ + 1]

\* recordFailure, and 401 while it allows, 429 after.
RecordFailure(p) ==
    \E S \in IF p \in DOMAIN attempts THEN {{}} ELSE ensureCapacity :
        LET b == Bucket(p)
            kept == Forget({q \in S : ~Expired(attempts[q])})
        IN  /\ attempts' = [q \in (DOMAIN attempts \ S) \cup {p} |-> IF q = p THEN b ELSE attempts[q]]
            /\ refusals' = IF b.failures > FailureLimit THEN kept ELSE kept \cup
                   {[principal |-> p, time |-> now,
                     nth |-> Cardinality({r \in kept : r.principal = p /\ r.time = now}) + 1,
                     start |-> b.start, failure |-> b.failures]}

Unauthorized(p) ==
    /\ apc # "init"
    /\ RecordFailure(p)
    /\ UNCHANGED <<sqliteVars, now, reader>>

\* A valid token resets the failures; the handler then asks the store.
Authorized(p, h) ==
    /\ apc # "init"
    /\ reader[h] = Idle
    /\ attempts' = without(attempts, {p})
    /\ refusals' = Forget({p})
    /\ reader' = [reader EXCEPT ![h] = [Idle EXCEPT !.at = "query", !.expect = acked]]
    /\ UNCHANGED <<sqliteVars, now>>

-----------------------------------------------------------------------------
(* Queries *)

\* The query runs on a connection of the pool, when one is left, and sees one snapshot.
QueryStarts(h) ==
    /\ reader[h].at = "query"
    /\ \E c \in Usable :
          /\ conn' = [conn EXCEPT ![c] = "used"]
          /\ reader' = [reader EXCEPT ![h].at = "scan", ![h].conn = c, ![h].rows = Visible(c)]
    /\ UNCHANGED <<bounds, table, schema, tx, apc, callVars, acked, failed, faults, crashes,
                   now, attempts, refusals>>

\* The store is closed while the dashboard still serves: the answer is an error.
QueryRefused(h) ==
    /\ reader[h].at = "query"
    /\ apc = "closed"
    /\ reader' = [reader EXCEPT ![h] = Idle]
    /\ UNCHANGED <<sqliteVars, now, attempts, refusals>>

\* Mutant: the rows are not closed.
QueryEndsLeaks(h) ==
    /\ reader[h].at = "scan"
    /\ reader' = [reader EXCEPT ![h] = Idle]
    /\ UNCHANGED <<sqliteVars, now, attempts, refusals>>

\* The rows are scanned, and the connection goes back.
QueryEnds(h) ==
    /\ reader[h].at = "scan"
    /\ conn' = [conn EXCEPT ![reader[h].conn] = IF apc = "closed" THEN "none" ELSE "idle"]
    /\ reader' = [reader EXCEPT ![h] = Idle]
    /\ UNCHANGED <<bounds, table, schema, tx, apc, callVars, acked, failed, faults, crashes,
                   now, attempts, refusals>>

QueryStep(h) == QueryStarts(h) \/ QueryRefused(h) \/ QueryEnds(h)

Tick ==
    /\ now < MaxTime
    /\ now' = now + 1
    /\ refusals' = {r \in refusals : r.time > now' - Window}
    /\ UNCHANGED <<sqliteVars, attempts, reader>>

Restart ==
    /\ Crash
    /\ attempts' = <<>> /\ refusals' = {}
    /\ reader' = [h \in Handlers |-> Idle]
    /\ UNCHANGED now

Next ==
    \/ (SQLiteStep \/ \E b \in Batches : AppendBatch(b)) /\ UNCHANGED dashboardVars
    \/ (Close \/ \E e \in Entries : Confirm(e)) /\ UNCHANGED dashboardVars
    \/ \E p \in Principals : Unauthorized(p) \/ \E h \in Handlers : Authorized(p, h)
    \/ \E h \in Handlers : QueryStep(h)
    \/ Tick
    \/ Restart

Spec ==
    /\ Init /\ [][Next]_vars
    /\ WF_vars(SQLiteStep /\ UNCHANGED dashboardVars)
    /\ \A h \in Handlers : SF_vars(QueryStep(h))

-----------------------------------------------------------------------------
(* Properties *)

DashboardTypeOK ==
    /\ SQLiteTypeOK
    /\ now \in Nat
    /\ DOMAIN attempts \subseteq Principals
    /\ IsFiniteSet(DOMAIN attempts) /\ Cardinality(DOMAIN attempts) <= MaxPrincipals
    /\ \A p \in DOMAIN attempts : attempts[p] \in [start : 0..now, failures : 1..FailureLimit + 1]
    /\ IsFiniteSet(refusals)
    /\ refusals \subseteq [principal : Principals, time : 0..now, nth : Nat, start : 0..now,
                           failure : 1..FailureLimit]
    /\ reader \in [Handlers -> [at : {"idle", "query", "scan"}, conn : Conns \cup {None},
                                rows : Seq(Entries), expect : SUBSET Entries]]

\* The windows are fixed, so two of them may touch: a principal that was neither
\* authenticated nor evicted gets at most twice the limit of guesses in any
\* interval of one window.
Recent(p) == {r \in refusals : r.principal = p /\ r.time > now - Window}
GuessesBounded == \A p \in Principals : Cardinality(Recent(p)) <= 2 * FailureLimit

\* An answer is made of committed rows only, also when the writer fails next to
\* it, and of every row that was acknowledged before the request.
AnswersCommitted ==
    \A h \in Handlers : reader[h].at = "scan" =>
        Ids(reader[h].rows) \subseteq Ids(table) /\ reader[h].expect \subseteq Ids(reader[h].rows)

\* The windows of a principal do not overlap, and in each a failure is counted once.
WindowInv ==
    /\ \A r \in refusals : r.start <= r.time /\ r.time < r.start + Window
    /\ \A r, s \in refusals : r.principal = s.principal =>
          \/ r.start + Window <= s.start \/ s.start + Window <= r.start
          \/ r.start = s.start /\ (r.failure = s.failure => r = s)
    /\ \A r \in refusals :
          IF r.principal \notin DOMAIN attempts THEN r.start + Window <= now
          ELSE LET b == attempts[r.principal]
               IN  \/ r.start + Window <= b.start
                   \/ r.start = b.start /\ r.failure <= b.failures

\* Each query has a connection of its own.
ReaderInv ==
    \A h \in Handlers :
        /\ reader[h].conn = None <=> reader[h].at # "scan"
        /\ reader[h].at = "scan" => /\ conn[reader[h].conn] = "used" /\ reader[h].conn # writer
                                   /\ \A g \in Handlers : reader[g].conn = reader[h].conn => g = h
        /\ reader[h].expect \subseteq acked

\* Limiter and pool are well formed, and rows that are not committed stay with
\* their writer: no connection takes them to the pool (PoolIsClean) and no answer
\* shows them (AnswersCommitted).
DashboardInv ==
    /\ DashboardTypeOK /\ WriterInv /\ ReaderInv /\ WindowInv
    /\ PoolIsClean /\ AnswersCommitted

\* No call waits for ever: appends and queries end although they compete for a pool
\* that has fewer connections than callers.
CallsEnd ==
    /\ []<>(apc \in {"idle", "closed"})
    /\ \A h \in Handlers : []<>(reader[h] = Idle)
=============================================================================
