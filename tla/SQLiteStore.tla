---------------------------- MODULE SQLiteStore -----------------------------
(***************************************************************************)
(* The SQLite backend (internal/audit/storage/sqlite.go, durable.go): the  *)
(* schema migration, AppendBatch as a transaction on a pooled connection,  *)
(* with commits and rollbacks that fail, and Query on a snapshot.          *)
(*                                                                         *)
(* A row is an entry.  Its timestamp is a second and the digits of its     *)
(* fraction, without trailing zeros as RFC3339Nano writes them.            *)
(***************************************************************************)
EXTENDS Integers, Sequences, SequencesExt, FiniteSetsExt

CONSTANTS
    Entries,
    TimeOf,      \* entry -> <<second, digits of the fraction>>
    Digits,      \* digits of a full fraction (9 in the code)
    Filters,     \* [from, to, limit, match]: match is the set of entries the
                 \* method, tool and client select; <<>> is an unset bound
    Conns,       \* connections the pool may open
    None,        \* no connection
    MaxBatch,    \* bound: entries in one AppendBatch
    Bounds       \* the bounds an instance is explored with

\* Times are written with at most Digits digits.
Times == {t \in Int \X Seq(0..9) : Len(t[2]) <= Digits}

ASSUME SQLiteAssumption ==
    /\ None \notin Conns /\ "none" \notin Entries /\ MaxBatch \in Nat
    /\ Digits \in Nat /\ TimeOf \in [Entries -> Times]
    /\ \A f \in Filters : {f.from, f.to} \subseteq Times \cup {<<>>} /\ f.limit \in Int
    /\ Bounds \subseteq [entries : SUBSET Entries, faults : Nat, crashes : Nat, time : Nat]

VARIABLES
    bounds,
    table,       \* committed rows, in rowid order
    schema,      \* migrated columns
    conn,        \* connection -> "none" (not open), "idle" (in the pool) or "used"
    tx,          \* connection -> rows of its open transaction, or NoTx
    apc,         \* where AppendBatch is; its caller holds the mutex
    writer,      \* the connection it uses
    todo,        \* entries still to insert
    current,     \* its batch
    acked,       \* entries the caller knows to be on disk: acknowledged, or
                 \* committed before an acknowledged one
    failed,      \* entries whose append returned an error
    faults, crashes

sqliteVars == <<bounds, table, schema, conn, tx, apc, writer, todo, current, acked, failed, faults, crashes>>
callVars == <<writer, todo, current>>

MaxFaults == bounds.faults     \* bound: operations of SQLite that fail
MaxCrashes == bounds.crashes   \* bound: crashes

NoTx == <<"none">>
Ids(s) == ToSet(s)

\* Columns added to tables of older versions, in this order.
Migrations == <<"request_id", "principal", "mcp_name", "policy", "audit_operation_id",
                "outcome", "integrity">>
Columns == ToSet(Migrations)

-----------------------------------------------------------------------------
(* Reading *)

Dot == -1
Zulu == 10

\* The column: '2006-01-02T15:04:05' and then 'Z' or '.digitsZ'.
Text(t) == <<t[1]>> \o (IF t[2] = <<>> THEN <<Zulu>> ELSE <<Dot>> \o t[2] \o <<Zulu>>)
Padded(digits) == SubSeq(digits \o [k \in 1..Digits |-> 0], 1, Digits)

\* rtrim(x, 'Z'), of a text that ends in at most one Z.
TrimZulu(x) == IF x # <<>> /\ x[Len(x)] = Zulu THEN SubSeq(x, 1, Len(x) - 1) ELSE x

\* Mutant: the column is compared as it is.
sqliteTimestampRaw(x) == x

\* The expression the index and ORDER BY use: what follows the 20th character,
\* without the Z, padded with zeros.
sqliteTimestamp(x) == <<x[1]>> \o Padded(TrimZulu(SubSeq(x, 3, Len(x))))

\* Comparison of texts.
TextLess(a, b) ==
    \/ \E k \in DOMAIN a \cap DOMAIN b : a[k] < b[k] /\ \A j \in 1..k - 1 : a[j] = b[j]
    \/ IsStrictPrefix(a, b)

TextOf(e) == sqliteTimestamp(Text(TimeOf[e]))
\* A bound is formatted with all its digits.
Bound(t) == <<t[1]>> \o Padded(t[2])

\* The rows at the positions hits, sorted by `before' and cut off at the limit.
Limit(f) == IF f.limit <= 0 THEN 100 ELSE f.limit
Sorted(rows, hits, before(_, _)) ==
    [n \in 1..Cardinality(hits) |->
        rows[CHOOSE k \in hits : Cardinality({j \in hits : before(j, k)}) = n - 1]]
Limited(s, f) == SubSeq(s, 1, Min({Len(s), Limit(f)}))

\* Query: newest first, rows of one time in the order they were appended.
Query(rows, f) ==
    LET hits == {k \in 1..Len(rows) :
                    /\ rows[k] \in f.match
                    /\ f.from # <<>> => ~TextLess(TextOf(rows[k]), Bound(f.from))
                    /\ f.to # <<>> => ~TextLess(Bound(f.to), TextOf(rows[k]))}
        before(j, k) ==
            \/ TextLess(TextOf(rows[k]), TextOf(rows[j]))
            \/ TextOf(rows[j]) = TextOf(rows[k]) /\ j < k
    IN  Limited(Sorted(rows, hits, before), f)

\* A time as a number, digit by digit.
Value(t) ==
    LET value[k \in 0..Digits] ==
            IF k = 0 THEN t[1] ELSE 10 * value[k - 1] + Padded(t[2])[k]
    IN  value
Instant(t) == Value(t)[Digits]

\* What the JSONL backend answers: MatchFilter compares times, LimitNewest sorts
\* by them and keeps the order of equal ones.
QueryReference(rows, f) ==
    LET time(k) == Instant(TimeOf[rows[k]])
        hits == {k \in 1..Len(rows) :
                    /\ rows[k] \in f.match
                    /\ f.from # <<>> => ~(time(k) < Instant(f.from))
                    /\ f.to # <<>> => ~(time(k) > Instant(f.to))}
        before(j, k) == time(j) > time(k) \/ (time(j) = time(k) /\ j < k)
    IN  Limited(Sorted(rows, hits, before), f)

\* The rows a statement on connection c sees: its own transaction included.
Visible(c) == table \o (IF tx[c] = NoTx THEN <<>> ELSE tx[c])

\* LookupEntry, on some connection of the pool.
LookupEntry(e, c) == IF e \in Ids(Visible(c)) THEN "found" ELSE "absent"
Usable == {c \in Conns : apc # "closed" /\ conn[c] # "used"}

-----------------------------------------------------------------------------
(* Opening *)

SQLiteInit ==
    /\ bounds \in Bounds
    /\ table = <<>>
    /\ schema \in {{}, Columns}     \* an old table, or one CREATE TABLE makes
    /\ conn = [c \in Conns |-> "none"]
    /\ tx = [c \in Conns |-> NoTx]
    /\ apc = "init"
    /\ writer = None /\ todo = <<>> /\ current = <<>>
    /\ acked = {} /\ failed = {}
    /\ faults = 0 /\ crashes = 0

\* init adds the first column that is missing; a duplicate column is no error.
Migrate ==
    /\ apc = "init"
    /\ schema # Columns
    /\ \E k \in DOMAIN Migrations :
          /\ Migrations[k] \notin schema
          /\ \A j \in 1..k - 1 : Migrations[j] \in schema
          /\ schema' = schema \cup {Migrations[k]}
    /\ UNCHANGED <<bounds, table, conn, tx, apc, callVars, acked, failed, faults, crashes>>

Opened ==
    /\ apc = "init"
    /\ schema = Columns
    /\ apc' = "idle"
    /\ UNCHANGED <<bounds, table, schema, conn, tx, callVars, acked, failed, faults, crashes>>

-----------------------------------------------------------------------------
(* AppendBatch *)

Fault == faults < MaxFaults /\ faults' = faults + 1

\* New entries, or one whose append failed and that the lookup did not find.
Batches ==
    {b \in UNION {[1..n -> (Entries \cap bounds.entries) \ (acked \cup failed \cup Ids(table))] :
                    n \in 1..MaxBatch} : IsInjective(b)}
    \cup {<<e>> : e \in {x \in failed : \E c \in Usable : LookupEntry(x, c) = "absent"}}

AppendBatch(b) ==
    /\ apc = "idle"
    /\ apc' = "conn"
    /\ current' = b /\ todo' = b
    /\ UNCHANGED <<bounds, table, schema, conn, tx, writer, acked, failed, faults, crashes>>

\* AppendBatch returns; conn.Close puts the connection back, unless it is dead.
Returned(err, dead) ==
    /\ apc' = "idle"
    /\ writer' = None /\ todo' = <<>> /\ current' = <<>>
    /\ conn' = [c \in Conns |-> IF c = writer THEN (IF dead THEN "none" ELSE "idle") ELSE conn[c]]
    /\ IF err
       THEN failed' = failed \cup Ids(current) /\ UNCHANGED acked
       ELSE acked' = acked \cup Ids(current) \cup Ids(table') /\ failed' = failed \ Ids(current)

\* A connection of the pool or a new one; the wait for one has a deadline.
AcquireConn ==
    /\ apc = "conn"
    /\ \/ \E c \in Usable :
             /\ conn' = [conn EXCEPT ![c] = "used"]
             /\ writer' = c
             /\ apc' = "begin"
             /\ UNCHANGED <<todo, current, acked, failed, faults>>
       \/ (Usable # {} => Fault) /\ (Usable = {} => UNCHANGED faults) /\ Returned(TRUE, FALSE)
    /\ UNCHANGED <<bounds, table, schema, tx, crashes>>

\* BEGIN fails inside an open transaction, or because the database is locked.
BeginTx ==
    /\ apc = "begin"
    /\ \/ /\ tx[writer] = NoTx
          /\ tx' = [tx EXCEPT ![writer] = <<>>]
          /\ apc' = "insert"
          /\ UNCHANGED <<conn, callVars, acked, failed, faults>>
       \/ /\ IF tx[writer] = NoTx THEN Fault ELSE UNCHANGED faults
          /\ Returned(TRUE, FALSE)
          /\ UNCHANGED tx
    /\ UNCHANGED <<bounds, table, schema, crashes>>

\* INSERT of the next entry; a stored id violates the primary key.
Insert ==
    /\ apc = "insert"
    /\ todo # <<>>
    /\ \/ /\ Head(todo) \notin Ids(Visible(writer))
          /\ tx' = [tx EXCEPT ![writer] = Append(@, Head(todo))]
          /\ todo' = Tail(todo)
          /\ UNCHANGED <<apc, faults>>
       \/ /\ IF Head(todo) \notin Ids(Visible(writer)) THEN Fault ELSE UNCHANGED faults
          /\ apc' = "rollback"
          /\ UNCHANGED <<tx, todo>>
    /\ UNCHANGED <<bounds, table, schema, conn, writer, current, acked, failed, crashes>>

\* Mutant: the error of Commit is ignored.
CommitIgnored ==
    /\ apc = "insert"
    /\ todo = <<>>
    /\ table' \in {table, table \o tx[writer]}
    /\ tx' = [tx EXCEPT ![writer] = NoTx]
    /\ Returned(FALSE, FALSE)
    /\ UNCHANGED <<bounds, schema, faults, crashes>>

\* Commit returns nil, or an error with the transaction open, or an error
\* although it took effect.
Commit ==
    /\ apc = "insert"
    /\ todo = <<>>
    /\ \/ /\ table' = table \o tx[writer]
          /\ tx' = [tx EXCEPT ![writer] = NoTx]
          /\ Returned(FALSE, FALSE)
          /\ UNCHANGED faults
       \/ /\ Fault
          /\ apc' = "rollback"
          /\ \/ UNCHANGED <<table, tx>>
             \/ table' = table \o tx[writer] /\ tx' = [tx EXCEPT ![writer] = NoTx]
          /\ UNCHANGED <<conn, callVars, acked, failed>>
    /\ UNCHANGED <<bounds, schema, crashes>>

\* Mutant: a failed commit is not rolled back by hand, and the connection goes
\* back to the pool.
RollbackSkipped ==
    /\ apc = "rollback"
    /\ Returned(TRUE, FALSE)
    /\ UNCHANGED <<bounds, table, schema, tx, faults, crashes>>

\* The deferred rollback, by hand after a failed Commit.  When it fails, as it
\* does when nothing is open, the connection is thrown away and its transaction
\* with it.
Rollback ==
    /\ apc = "rollback"
    /\ \/ tx[writer] # NoTx /\ Returned(TRUE, FALSE) /\ UNCHANGED faults
       \/ tx[writer] = NoTx /\ Returned(TRUE, TRUE) /\ UNCHANGED faults
       \/ tx[writer] # NoTx /\ Returned(TRUE, TRUE) /\ Fault
    /\ tx' = [tx EXCEPT ![writer] = NoTx]
    /\ UNCHANGED <<bounds, table, schema, crashes>>

\* recordPrepared finds the record of a failed append; Sync has nothing to do.
Confirm(e) ==
    /\ apc = "idle"
    /\ e \in failed
    /\ \E c \in Usable : LookupEntry(e, c) = "found"
    /\ acked' = acked \cup Ids(table) \cup {e}
    /\ failed' = failed \ {e}
    /\ UNCHANGED <<bounds, table, schema, conn, tx, apc, callVars, faults, crashes>>

\* db.Close: idle connections are closed, those in use when they come back.
Close ==
    /\ apc = "idle"
    /\ apc' = "closed"
    /\ conn' = [c \in Conns |-> IF conn[c] = "used" THEN "used" ELSE "none"]
    /\ UNCHANGED <<bounds, table, schema, tx, callVars, acked, failed, faults, crashes>>

\* The process ends anywhere and is started again: open transactions are gone.
Crash ==
    /\ apc # "closed"
    /\ crashes < MaxCrashes
    /\ crashes' = crashes + 1
    /\ conn' = [c \in Conns |-> "none"]
    /\ tx' = [c \in Conns |-> NoTx]
    /\ apc' = "init"
    /\ writer' = None /\ todo' = <<>> /\ current' = <<>>
    /\ failed' = {}
    /\ UNCHANGED <<bounds, table, schema, acked, faults>>

SQLiteStep == Migrate \/ Opened \/ AcquireConn \/ BeginTx \/ Insert \/ Commit \/ Rollback

-----------------------------------------------------------------------------
(* Properties *)

SQLiteTypeOK ==
    /\ table \in Seq(Entries)
    /\ schema \subseteq Columns
    /\ apc \in {"init", "idle", "conn", "begin", "insert", "rollback", "closed"}
    /\ apc # "init" => schema = Columns
    /\ conn \in [Conns -> {"none", "idle", "used"}]
    /\ tx \in [Conns -> Seq(Entries) \cup {NoTx}]
    /\ writer \in Conns \cup {None}
    /\ todo \in Seq(Entries) /\ current \in Seq(Entries)
    /\ acked \subseteq Entries /\ failed \subseteq Entries

\* A connection in the pool has no open transaction, whatever failed on it: the
\* next writer could not begin, and a reader would see rows that were never
\* committed.
PoolIsClean == \A c \in Conns : conn[c] # "used" => tx[c] = NoTx

\* Only the connection AppendBatch uses has a transaction: the part of the batch it
\* has inserted, none of it stored before.  What is known to be on disk is there.
WriterInv ==
    /\ writer = None <=> apc \in {"init", "idle", "conn", "closed"}
    /\ writer # None => conn[writer] = "used"
    /\ apc \in {"conn", "begin"} => todo = current
    /\ apc = "insert" => tx[writer] # NoTx /\ tx[writer] \o todo = current
    /\ \A c \in Conns : tx[c] # NoTx => c = writer /\ apc \in {"insert", "rollback"}
    /\ IsInjective(table) /\ \A c \in Conns : IsInjective(Visible(c))
    /\ acked \subseteq Ids(table)

\* Both backends answer a query alike, although SQLite compares timestamps as
\* texts of different length.
BackendsAgree == \A f \in Filters : Query(table, f) = QueryReference(table, f)

\* Every database the store opened implements the contract AuditStore: a batch is
\* all or nothing, and an error leaves what the lookup will find.
Contract == INSTANCE AuditStore WITH
    Bodies <- {TRUE}, Durable <- TRUE,
    stored <- [k \in 1..Len(table) |-> [id |-> table[k], body |-> TRUE]],
    synced <- Cardinality(acked),
    open <- apc # "closed"

SQLiteImplementsStore ==
    /\ Contract!StoreInit
    /\ [][LET b == [k \in 1..Len(current) |-> [id |-> current[k], body |-> TRUE]]
          IN  Contract!AppendBatchOk(b) \/ Contract!AppendBatchFailed(b)
              \/ Contract!SyncOk \/ Contract!CloseBackend]_(Contract!storeVars)
=============================================================================
