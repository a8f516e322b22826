--------------------------- MODULE DashboardProofs --------------------------
(***************************************************************************)
(* The SQLite store and the dashboard on top of it, for every set of       *)
(* entries, connections and principals, every batch size and limit:        *)
(* DashboardInv is inductive, guesses are bounded, the store implements    *)
(* the contract of the backends, and its paged query answers as the        *)
(* reference filter both backends are compared with (BackendsAlike).       *)
(*                                                                         *)
(* Store, query and limiter are three parts of the state that meet in few  *)
(* places: a step of the store leaves the query its connection and its     *)
(* rows (Calm), and the limiter is a matter of its own.                    *)
(***************************************************************************)
EXTENDS Dashboard, SequenceTheorems, FiniteSetTheorems, WellFoundedInduction, TLAPS

-----------------------------------------------------------------------------
(* Sequences of entries.                                                   *)

LEMMA SeqFacts ==
    ASSUME NEW S, NEW s \in Seq(S)
    PROVE  /\ Len(s) \in Nat /\ DOMAIN s = 1..Len(s)
           /\ \A i \in 1..Len(s) : s[i] \in S
BY LenProperties, ElementOfSeq

LEMMA IdsSubset ==
    ASSUME NEW S, NEW s \in Seq(S)
    PROVE  Ids(s) \subseteq S
BY SeqFacts DEF Ids, ToSet

\* Concatenation, element by element.
LEMMA ConcatFacts ==
    ASSUME NEW S, NEW s \in Seq(S), NEW t \in Seq(S)
    PROVE  /\ s \o t \in Seq(S) /\ DOMAIN (s \o t) = 1..Len(s) + Len(t)
           /\ \A i \in 1..Len(s) : (s \o t)[i] = s[i]
           /\ \A i \in 1..Len(t) : (s \o t)[Len(s) + i] = t[i]
           /\ \A i \in 1..Len(s) + Len(t) :
                 i \in 1..Len(s) \/ \E j \in 1..Len(t) : i = Len(s) + j
<1>1. Len(s) \in Nat /\ Len(t) \in Nat
  BY SeqFacts
<1>2. /\ s \o t \in Seq(S) /\ Len(s \o t) = Len(s) + Len(t)
      /\ \A i \in 1..Len(s) + Len(t) : (s \o t)[i] = IF i <= Len(s) THEN s[i] ELSE t[i - Len(s)]
  BY ConcatProperties
<1>3. DOMAIN (s \o t) = 1..Len(s) + Len(t)
  BY <1>2, SeqFacts
<1>4. ASSUME NEW i \in 1..Len(t) PROVE (s \o t)[Len(s) + i] = t[i]
  <2>1. Len(s) + i \in 1..Len(s) + Len(t) /\ ~(Len(s) + i <= Len(s)) /\ (Len(s) + i) - Len(s) = i
    BY <1>1
  <2>2. QED
    BY <1>2, <2>1
<1>5. ASSUME NEW i \in 1..Len(s) PROVE (s \o t)[i] = s[i]
  <2>1. i \in 1..Len(s) + Len(t) /\ i <= Len(s)
    BY <1>1
  <2>2. QED
    BY <1>2, <2>1
<1>6. ASSUME NEW i \in 1..Len(s) + Len(t), i \notin 1..Len(s)
      PROVE  \E j \in 1..Len(t) : i = Len(s) + j
  <2>1. i - Len(s) \in 1..Len(t) /\ i = Len(s) + (i - Len(s))
    BY <1>1, <1>6
  <2>2. QED
    BY <2>1
<1>7. QED
  BY <1>2, <1>3, <1>4, <1>5, <1>6

LEMMA IdsConcat ==
    ASSUME NEW S, NEW s \in Seq(S), NEW t \in Seq(S)
    PROVE  Ids(s \o t) = Ids(s) \cup Ids(t)
<1>0. /\ DOMAIN (s \o t) = 1..Len(s) + Len(t)
      /\ \A i \in 1..Len(s) : (s \o t)[i] = s[i]
      /\ \A i \in 1..Len(t) : (s \o t)[Len(s) + i] = t[i]
      /\ \A i \in 1..Len(s) + Len(t) : i \in 1..Len(s) \/ \E j \in 1..Len(t) : i = Len(s) + j
  BY ConcatFacts
<1>1. DOMAIN s = 1..Len(s) /\ DOMAIN t = 1..Len(t) /\ Len(s) \in Nat /\ Len(t) \in Nat
  BY SeqFacts
<1>2. ASSUME NEW i \in 1..Len(s) + Len(t) PROVE (s \o t)[i] \in Ids(s) \cup Ids(t)
  <2>1. CASE i \in 1..Len(s)
    <3>1. (s \o t)[i] = s[i]
      BY <1>0, <2>1
    <3>2. QED
      BY <1>1, <2>1, <3>1 DEF Ids, ToSet
  <2>2. CASE \E j \in 1..Len(t) : i = Len(s) + j
    <3>1. PICK j \in 1..Len(t) : i = Len(s) + j
      BY <2>2
    <3>2. (s \o t)[i] = t[j]
      BY <1>0, <3>1
    <3>3. QED
      BY <1>1, <3>2 DEF Ids, ToSet
  <2>3. QED
    BY <1>0, <2>1, <2>2
<1>3. ASSUME NEW i \in 1..Len(s) PROVE s[i] \in Ids(s \o t)
  <2>1. i \in DOMAIN (s \o t) /\ (s \o t)[i] = s[i]
    <3>1. i \in 1..Len(s) + Len(t)
      BY <1>1
    <3>2. QED
      BY <1>0, <3>1
  <2>2. QED
    BY <2>1 DEF Ids, ToSet
<1>4. ASSUME NEW i \in 1..Len(t) PROVE t[i] \in Ids(s \o t)
  <2>1. Len(s) + i \in 1..Len(s) + Len(t)
    BY <1>1
  <2>2. Len(s) + i \in DOMAIN (s \o t) /\ (s \o t)[Len(s) + i] = t[i]
    BY <1>0, <2>1
  <2>3. QED
    BY <2>2 DEF Ids, ToSet
<1>5. QED
  <2>1. Ids(s \o t) \subseteq Ids(s) \cup Ids(t)
    <3>1. DOMAIN (s \o t) = 1..Len(s) + Len(t)
      BY <1>0
    <3>2. QED
      BY <1>2, <3>1 DEF Ids, ToSet
  <2>2. Ids(s) \subseteq Ids(s \o t) /\ Ids(t) \subseteq Ids(s \o t)
    BY <1>1, <1>3, <1>4 DEF Ids, ToSet
  <2>3. QED
    BY <2>1, <2>2

LEMMA AppendFacts ==
    ASSUME NEW S, NEW s \in Seq(S), NEW x \in S
    PROVE  /\ Append(s, x) \in Seq(S)
           /\ DOMAIN s = 1..Len(s) /\ Len(s) \in Nat /\ DOMAIN Append(s, x) = 1..Len(s) + 1
           /\ \A k \in 1..Len(s) : Append(s, x)[k] = s[k]
           /\ Append(s, x)[Len(s) + 1] = x
OBVIOUS

\* A new element keeps a sequence free of duplicates.
LEMMA InjectiveAppend ==
    ASSUME NEW S, NEW s \in Seq(S), NEW x \in S, IsInjective(s), x \notin Ids(s)
    PROVE  IsInjective(Append(s, x))
<1>1. \A k \in 1..Len(s) : s[k] # x
  BY AppendFacts DEF Ids, ToSet
<1>2. \A k : k \in 1..Len(s) + 1 => k \in 1..Len(s) \/ k = Len(s) + 1
  BY AppendFacts
<1>3. \A j, k \in 1..Len(s) : s[j] = s[k] => j = k
  BY AppendFacts DEF IsInjective
<1>4. SUFFICES ASSUME NEW j \in 1..Len(s) + 1, NEW k \in 1..Len(s) + 1, Append(s, x)[j] = Append(s, x)[k]
               PROVE  j = k
  BY AppendFacts DEF IsInjective
<1>5. QED
  BY <1>1, <1>2, <1>3, <1>4, AppendFacts

LEMMA AppendConcat ==
    ASSUME NEW S, NEW s \in Seq(S), NEW t \in Seq(S), NEW x \in S
    PROVE  s \o Append(t, x) = Append(s \o t, x)
<1>1. s \o t \in Seq(S) /\ Append(t, x) \in Seq(S) /\ Len(s) \in Nat /\ Len(t) \in Nat
      /\ Len(Append(t, x)) = Len(t) + 1 /\ Len(s \o t) = Len(s) + Len(t)
  BY ConcatProperties, AppendFacts, SeqFacts
<1>2. /\ s \o Append(t, x) \in Seq(S) /\ Append(s \o t, x) \in Seq(S)
      /\ Len(s \o Append(t, x)) = Len(s) + (Len(t) + 1) /\ Len(Append(s \o t, x)) = (Len(s) + Len(t)) + 1
  BY <1>1, ConcatProperties, AppendFacts
<1>3. ASSUME NEW i \in 1..Len(s) + (Len(t) + 1) PROVE (s \o Append(t, x))[i] = Append(s \o t, x)[i]
  <2>1. CASE i \in 1..Len(s)
    <3>1. i \in 1..Len(s \o t)
      BY <1>1, <2>1
    <3>2. (s \o Append(t, x))[i] = s[i] /\ Append(s \o t, x)[i] = (s \o t)[i] /\ (s \o t)[i] = s[i]
      BY <1>1, <2>1, <3>1, ConcatFacts, AppendFacts
    <3>3. QED
      BY <3>2
  <2>2. CASE i \notin 1..Len(s)
    <3>1. PICK j \in 1..Len(t) + 1 : i = Len(s) + j
      <4>1. i - Len(s) \in 1..Len(t) + 1 /\ i = Len(s) + (i - Len(s))
        BY <1>1, <2>2
      <4>2. QED
        BY <4>1
    <3>2. (s \o Append(t, x))[i] = Append(t, x)[j]
      BY <1>1, <3>1, ConcatFacts
    <3>3. CASE j = Len(t) + 1
      BY <1>1, <3>1, <3>2, <3>3, AppendFacts
    <3>4. CASE j # Len(t) + 1
      <4>1. j \in 1..Len(t) /\ i \in 1..Len(s \o t)
        BY <1>1, <3>1, <3>4
      <4>2. Append(t, x)[j] = t[j] /\ Append(s \o t, x)[i] = (s \o t)[i]
        BY <1>1, <4>1, AppendFacts
      <4>3. (s \o t)[i] = t[j]
        BY <3>1, <4>1, ConcatFacts
      <4>4. QED
        BY <3>2, <4>2, <4>3
    <3>5. QED
      BY <3>3, <3>4
  <2>3. QED
    BY <2>1, <2>2
<1>4. QED
  BY <1>1, <1>2, <1>3, SeqEqual

\* The first element may move from one sequence to the end of the other.
LEMMA MoveHead ==
    ASSUME NEW S, NEW s \in Seq(S), NEW t \in Seq(S), t # <<>>
    PROVE  Append(s, Head(t)) \o Tail(t) = s \o t
<1>1. /\ Head(t) \in S /\ Tail(t) \in Seq(S) /\ Len(Tail(t)) = Len(t) - 1 /\ Head(t) = t[1]
      /\ \A i \in 1..Len(Tail(t)) : Tail(t)[i] = t[i + 1]
      /\ Len(t) \in Nat \ {0} /\ Len(s) \in Nat
  BY HeadTailProperties, EmptySeq, SeqFacts
<1>2. Append(s, Head(t)) \in Seq(S) /\ Len(Append(s, Head(t))) = Len(s) + 1
      /\ Append(s, Head(t))[Len(s) + 1] = t[1]
      /\ \A i \in 1..Len(s) : Append(s, Head(t))[i] = s[i]
  BY <1>1, AppendFacts
<1> DEFINE a == Append(s, Head(t))
           d == Tail(t)
<1> HIDE DEF a, d
<1>3. a \in Seq(S) /\ d \in Seq(S) /\ Len(a) = Len(s) + 1 /\ Len(d) = Len(t) - 1
      /\ a[Len(s) + 1] = t[1] /\ (\A i \in 1..Len(s) : a[i] = s[i])
      /\ \A i \in 1..Len(d) : d[i] = t[i + 1]
  BY <1>1, <1>2 DEF a, d
<1>4. a \o d \in Seq(S) /\ s \o t \in Seq(S) /\ Len(a \o d) = Len(a) + Len(d) /\ Len(s \o t) = Len(s) + Len(t)
  BY <1>3, ConcatProperties
<1>5. Len(a \o d) = Len(s \o t)
  BY <1>1, <1>3, <1>4
<1>6. ASSUME NEW i \in 1..Len(s) + Len(t) PROVE (a \o d)[i] = (s \o t)[i]
  <2>1. CASE i \in 1..Len(s)
    <3>1. i \in 1..Len(a)
      BY <1>1, <1>3, <2>1
    <3>2. (a \o d)[i] = a[i] /\ (s \o t)[i] = s[i]
      BY <1>3, <2>1, <3>1, ConcatFacts
    <3>3. QED
      BY <1>3, <2>1, <3>2
  <2>2. CASE i = Len(s) + 1
    <3>1. i \in 1..Len(a) /\ 1 \in 1..Len(t)
      BY <1>1, <1>3, <2>2
    <3>2. (a \o d)[i] = a[i]
      BY <1>3, <3>1, ConcatFacts
    <3>3. (s \o t)[i] = t[1]
      BY <2>2, <3>1, ConcatFacts
    <3>4. QED
      BY <1>3, <2>2, <3>2, <3>3
  <2>3. CASE i \notin 1..Len(s) + 1
    <3>1. PICK j \in 1..Len(d) : i = Len(a) + j
      <4>1. i - Len(a) \in 1..Len(d) /\ i = Len(a) + (i - Len(a))
        BY <1>1, <1>3, <2>3
      <4>2. QED
        BY <4>1
    <3>2. (a \o d)[i] = d[j] /\ d[j] = t[j + 1]
      <4>1. a \in Seq(S) /\ d \in Seq(S)
        BY <1>3
      <4>2. (a \o d)[Len(a) + j] = d[j]
        BY <4>1, ConcatFacts
      <4>3. QED
        BY <1>3, <3>1, <4>2
    <3>3. j + 1 \in 1..Len(t) /\ i = Len(s) + (j + 1)
      BY <1>1, <1>3, <3>1
    <3>4. (s \o t)[i] = t[j + 1]
      BY <3>3, ConcatFacts
    <3>5. QED
      BY <3>2, <3>4
  <2>4. i \in 1..Len(s) + 1 => i \in 1..Len(s) \/ i = Len(s) + 1
    BY <1>1
  <2>5. QED
    BY <2>1, <2>2, <2>3, <2>4
<1>7. QED
  BY <1>4, <1>5, <1>6, SeqEqual DEF a, d

-----------------------------------------------------------------------------
(* The store.                                                              *)

StoreInv == SQLiteTypeOK /\ WriterInv

\* What a step of the store leaves to a query: the connection, and the rows that
\* were there.
Calm ==
    /\ Ids(table) \subseteq Ids(table') /\ acked \subseteq acked'
    /\ \A c \in Conns : conn[c] = "used" /\ c # writer => conn'[c] = "used" /\ c # writer'

LEMMA NoTxIsNone == NoTx \notin Seq(Entries)
<1>1. SUFFICES ASSUME <<"none">> \in Seq(Entries) PROVE FALSE
  BY DEF NoTx
<1>2. <<"none">>[1] \in Entries
  <2>1. Len(<<"none">>) = 1
    OBVIOUS
  <2>2. 1 \in 1..Len(<<"none">>)
    BY <2>1
  <2>3. QED
    BY <1>1, <2>2, ElementOfSeq
<1>3. QED
  BY <1>2, SQLiteAssumption

\* The rows a connection sees.
LEMMA VisibleFacts ==
    ASSUME SQLiteTypeOK, NEW c \in Conns
    PROVE  /\ tx[c] = NoTx => Visible(c) = table
           /\ tx[c] # NoTx => tx[c] \in Seq(Entries) /\ Visible(c) = table \o tx[c]
<1>1. table \in Seq(Entries) /\ tx[c] \in Seq(Entries) \cup {NoTx}
  BY DEF SQLiteTypeOK
<1>2. table \o <<>> = table
  BY <1>1, ConcatEmptySeq
<1>3. QED
  BY <1>1, <1>2 DEF Visible

LEMMA VisibleNext ==
    ASSUME SQLiteTypeOK', NEW c \in Conns
    PROVE  /\ tx'[c] = NoTx => Visible(c)' = table'
           /\ tx'[c] # NoTx => tx'[c] \in Seq(Entries) /\ Visible(c)' = table' \o tx'[c]
<1>1. table' \in Seq(Entries) /\ tx'[c] \in Seq(Entries) \cup {NoTx}
  BY DEF SQLiteTypeOK
<1>2. table' \o <<>> = table'
  BY <1>1, ConcatEmptySeq
<1>3. QED
  BY <1>1, <1>2 DEF Visible

LEMMA VisibleSame ==
    ASSUME NEW c \in Conns, table' = table, tx'[c] = tx[c]
    PROVE  Visible(c)' = Visible(c)
BY DEF Visible

LEMMA BatchType ==
    ASSUME SQLiteTypeOK, NEW b \in Batches
    PROVE  b \in Seq(Entries)
<1> DEFINE new == (Entries \cap bounds.entries) \ (acked \cup failed \cup Ids(table))
<1>1. CASE \E n \in 1..MaxBatch : b \in [1..n -> new]
  <2>1. PICK n \in 1..MaxBatch : b \in [1..n -> new]
    BY <1>1
  <2>2. n \in Nat
    BY SQLiteAssumption
  <2>3. b \in [1..n -> Entries]
    BY <2>1
  <2>4. QED
    BY <2>2, <2>3, SeqDef
<1>2. CASE \E e \in failed : b = <<e>>
  BY <1>2 DEF SQLiteTypeOK
<1>3. QED
  BY <1>1, <1>2 DEF Batches

LEMMA StoreStarts == SQLiteInit => StoreInv
<1>1. SUFFICES ASSUME SQLiteInit PROVE StoreInv
  OBVIOUS
<1>2. SQLiteTypeOK
  BY <1>1 DEF SQLiteInit, SQLiteTypeOK
<1>3. \A c \in Conns : tx[c] = NoTx /\ Visible(c) = table
  BY <1>1, <1>2, VisibleFacts DEF SQLiteInit
<1>4. IsInjective(table) /\ acked \subseteq Ids(table)
  BY <1>1 DEF SQLiteInit, IsInjective
<1>5. WriterInv
  BY <1>1, <1>3, <1>4 DEF SQLiteInit, WriterInv
<1>6. QED
  BY <1>2, <1>5 DEF StoreInv

\* AppendBatch returns: its connection has no transaction any more, and what it
\* acknowledges is in the table.
LEMMA ReturnedStep ==
    ASSUME StoreInv, NEW err \in BOOLEAN, NEW dead \in BOOLEAN, Returned(err, dead),
           schema' = schema, apc # "init", tx' \in [Conns -> {NoTx}],
           table' \in Seq(Entries), IsInjective(table'), Ids(table) \subseteq Ids(table'),
           ~err => Ids(current) \subseteq Ids(table')
    PROVE  StoreInv' /\ Calm
<1>1. SQLiteTypeOK /\ WriterInv
  BY DEF StoreInv
<1>2. /\ apc' = "idle" /\ writer' = None /\ todo' = <<>> /\ current' = <<>>
      /\ conn' = [c \in Conns |-> IF c = writer THEN (IF dead THEN "none" ELSE "idle") ELSE conn[c]]
      /\ IF err THEN failed' = failed \cup Ids(current) /\ acked' = acked
         ELSE acked' = acked \cup Ids(current) \cup Ids(table') /\ failed' = failed \ Ids(current)
  BY DEF Returned
<1>3. Ids(current) \subseteq Entries /\ Ids(table') \subseteq Entries
  BY <1>1, IdsSubset DEF SQLiteTypeOK
<1>4. acked' \subseteq Entries /\ failed' \subseteq Entries /\ acked \subseteq acked'
  BY <1>1, <1>2, <1>3 DEF SQLiteTypeOK
<1>5. acked' \subseteq Ids(table')
  BY <1>1, <1>2 DEF WriterInv
<1>6. SQLiteTypeOK'
  BY <1>1, <1>2, <1>4 DEF SQLiteTypeOK
<1>7. \A c \in Conns : tx'[c] = NoTx /\ Visible(c)' = table'
  BY <1>6, VisibleNext
<1>8. WriterInv'
  BY <1>2, <1>5, <1>7 DEF WriterInv
<1>9. Calm
  BY <1>1, <1>2, <1>4, SQLiteAssumption DEF Calm, SQLiteTypeOK
<1>10. QED
  BY <1>6, <1>8, <1>9 DEF StoreInv

\* Steps that move no row and leave the transactions alone.
LEMMA RowsRest ==
    ASSUME StoreInv, SQLiteTypeOK', table' = table, tx' = tx, acked' \subseteq Ids(table),
           acked \subseteq acked', acked' \subseteq Entries
    PROVE  /\ IsInjective(table') /\ (\A c \in Conns : IsInjective(Visible(c)'))
           /\ acked' \subseteq Ids(table')
           /\ Ids(table) \subseteq Ids(table')
<1>1. \A c \in Conns : Visible(c)' = Visible(c)
  BY VisibleSame
<1>2. QED
  BY <1>1 DEF StoreInv, WriterInv

LEMMA OpeningStep ==
    ASSUME StoreInv, Migrate \/ Opened
    PROVE  StoreInv' /\ Calm
<1>1. SQLiteTypeOK /\ WriterInv
  BY DEF StoreInv
<1>2. UNCHANGED <<table, conn, tx, callVars, acked, failed>> /\ apc = "init" /\ apc' \in {"init", "idle"}
  BY DEF Migrate, Opened
<1>3. schema' \subseteq Columns /\ (apc' # "init" => schema' = Columns)
  BY <1>1, <1>2 DEF Migrate, Opened, Columns, ToSet, SQLiteTypeOK
<1>4. SQLiteTypeOK'
  BY <1>1, <1>2, <1>3 DEF SQLiteTypeOK, callVars
<1>5. acked' = acked /\ acked \subseteq Ids(table) /\ acked \subseteq Entries
  BY <1>1, <1>2 DEF WriterInv, SQLiteTypeOK
<1>6. WriterInv'
  BY <1>1, <1>2, <1>4, <1>5, RowsRest DEF WriterInv, callVars
<1>7. Calm
  BY <1>1, <1>2 DEF Calm, callVars
<1>8. QED
  BY <1>4, <1>6, <1>7 DEF StoreInv

LEMMA AppendBatchStep ==
    ASSUME StoreInv, NEW b \in Batches, AppendBatch(b)
    PROVE  StoreInv' /\ Calm
<1>1. SQLiteTypeOK /\ WriterInv /\ b \in Seq(Entries)
  BY BatchType DEF StoreInv
<1>2. /\ UNCHANGED <<table, schema, conn, tx, writer, acked, failed>>
      /\ apc = "idle" /\ apc' = "conn" /\ current' = b /\ todo' = b
  BY DEF AppendBatch
<1>3. SQLiteTypeOK'
  BY <1>1, <1>2 DEF SQLiteTypeOK
<1>4. acked' = acked /\ acked \subseteq Ids(table) /\ acked \subseteq Entries
  BY <1>1, <1>2 DEF WriterInv, SQLiteTypeOK
<1>5. WriterInv'
  BY <1>1, <1>2, <1>3, <1>4, RowsRest DEF WriterInv
<1>6. Calm
  BY <1>1, <1>2 DEF Calm
<1>7. QED
  BY <1>3, <1>5, <1>6 DEF StoreInv

\* Without a writer no connection has a transaction.
LEMMA NoWriterNoTx ==
    ASSUME StoreInv, writer = None
    PROVE  tx \in [Conns -> {NoTx}]
<1>1. \A c \in Conns : tx[c] = NoTx
  BY SQLiteAssumption DEF StoreInv, WriterInv
<1>2. QED
  BY <1>1 DEF StoreInv, SQLiteTypeOK

LEMMA AcquireStep ==
    ASSUME StoreInv, AcquireConn
    PROVE  StoreInv' /\ Calm
<1>1. SQLiteTypeOK /\ WriterInv /\ apc = "conn" /\ writer = None
  BY DEF StoreInv, WriterInv, AcquireConn
<1>2. UNCHANGED <<table, schema, tx>>
  BY DEF AcquireConn
<1>3. ASSUME NEW c \in Usable, conn' = [conn EXCEPT ![c] = "used"], writer' = c, apc' = "begin",
             UNCHANGED <<todo, current, acked, failed>>
      PROVE  StoreInv' /\ Calm
  <2>1. c \in Conns /\ conn[c] # "used" /\ c # None
    BY <1>3, SQLiteAssumption DEF Usable
  <2>2. SQLiteTypeOK'
    BY <1>1, <1>2, <1>3, <2>1 DEF SQLiteTypeOK
  <2>3. acked' = acked /\ acked \subseteq Ids(table) /\ acked \subseteq Entries
    BY <1>1, <1>3 DEF WriterInv, SQLiteTypeOK
  <2>4. \A d \in Conns : tx'[d] = NoTx
    BY <1>1, <1>2, NoWriterNoTx
  <2>5. conn'[c] = "used"
    BY <1>1, <1>3, <2>1 DEF SQLiteTypeOK
  <2>6. WriterInv'
    BY <1>1, <1>2, <1>3, <2>1, <2>2, <2>3, <2>4, <2>5, RowsRest DEF WriterInv
  <2>7. Calm
    BY <1>1, <1>2, <1>3, <2>1, <2>3 DEF Calm, SQLiteTypeOK
  <2>8. QED
    BY <2>2, <2>6, <2>7 DEF StoreInv
<1>4. CASE Returned(TRUE, FALSE)
  BY <1>1, <1>2, <1>4, NoWriterNoTx, ReturnedStep DEF SQLiteTypeOK, WriterInv
<1>5. QED
  BY <1>3, <1>4 DEF AcquireConn

LEMMA BeginStep ==
    ASSUME StoreInv, BeginTx
    PROVE  StoreInv' /\ Calm
<1>1. SQLiteTypeOK /\ WriterInv /\ apc = "begin" /\ writer \in Conns /\ tx \in [Conns -> Seq(Entries) \cup {NoTx}]
  BY DEF StoreInv, WriterInv, BeginTx, SQLiteTypeOK
<1>2. UNCHANGED <<table, schema>> /\ table \in Seq(Entries)
  BY <1>1 DEF BeginTx, SQLiteTypeOK
<1>3. \A c \in Conns : tx[c] = NoTx
  BY <1>1 DEF WriterInv
<1>4. CASE tx' = [tx EXCEPT ![writer] = <<>>] /\ apc' = "insert" /\ UNCHANGED <<conn, callVars, acked, failed>>
  <2>1. <<>> \in Seq(Entries) /\ <<>> # NoTx
    BY NoTxIsNone, EmptySeq
  <2>2. SQLiteTypeOK'
    BY <1>1, <1>2, <1>4, <2>1 DEF SQLiteTypeOK, callVars
  <2>3. todo = current /\ current \in Seq(Entries) /\ <<>> \o todo = todo
    BY <1>1, ConcatEmptySeq DEF WriterInv, SQLiteTypeOK
  <2>4. \A c \in Conns : tx'[c] = IF c = writer THEN <<>> ELSE NoTx
    BY <1>1, <1>3, <1>4
  <2>5. table \o <<>> = table
    BY <1>2, ConcatEmptySeq
  <2>6. \A c \in Conns : Visible(c)' = table
    BY <1>2, <2>1, <2>2, <2>4, <2>5, VisibleNext
  <2>7. WriterInv'
    BY <1>1, <1>2, <1>4, <2>1, <2>3, <2>4, <2>6 DEF WriterInv, callVars
  <2>8. Calm
    BY <1>2, <1>4 DEF Calm, callVars
  <2>9. QED
    BY <2>2, <2>7, <2>8 DEF StoreInv
<1>5. CASE Returned(TRUE, FALSE) /\ tx' = tx
  <2>1. tx' \in [Conns -> {NoTx}]
    BY <1>1, <1>3, <1>5
  <2>2. QED
    BY <1>1, <1>2, <1>5, <2>1, ReturnedStep DEF WriterInv
<1>6. QED
  BY <1>4, <1>5 DEF BeginTx

\* The transaction of a batch, while it is open.
LEMMA OpenTx ==
    ASSUME StoreInv, apc \in {"insert", "rollback"}
    PROVE  /\ writer \in Conns /\ conn[writer] = "used"
           /\ \A c \in Conns : c # writer => tx[c] = NoTx
           /\ tx[writer] # NoTx => /\ tx[writer] \in Seq(Entries)
                                   /\ Visible(writer) = table \o tx[writer]
                                   /\ IsInjective(table \o tx[writer])
<1>1. SQLiteTypeOK /\ WriterInv
  BY DEF StoreInv
<1>2. writer \in Conns /\ conn[writer] = "used" /\ \A c \in Conns : c # writer => tx[c] = NoTx
  BY <1>1 DEF WriterInv, SQLiteTypeOK
<1>3. tx[writer] # NoTx => tx[writer] \in Seq(Entries) /\ Visible(writer) = table \o tx[writer]
  BY <1>1, <1>2, VisibleFacts
<1>4. IsInjective(Visible(writer))
  BY <1>1, <1>2 DEF WriterInv
<1>5. QED
  BY <1>2, <1>3, <1>4

LEMMA InsertStep ==
    ASSUME StoreInv, Insert
    PROVE  StoreInv' /\ Calm
<1>1. SQLiteTypeOK /\ WriterInv /\ apc = "insert" /\ todo # <<>>
  BY DEF StoreInv, Insert
<1>2. /\ UNCHANGED <<table, schema, conn, writer, current, acked, failed>>
      /\ acked \subseteq Ids(table) /\ acked \subseteq Entries
  BY <1>1 DEF Insert, WriterInv, SQLiteTypeOK
<1>3. /\ writer \in Conns /\ tx[writer] # NoTx /\ tx[writer] \in Seq(Entries)
      /\ IsInjective(table \o tx[writer]) /\ Visible(writer) = table \o tx[writer]
      /\ \A c \in Conns : c # writer => tx[c] = NoTx
  BY <1>1, OpenTx DEF WriterInv
<1>4. Head(todo) \in Entries /\ Tail(todo) \in Seq(Entries) /\ todo \in Seq(Entries)
      /\ table \in Seq(Entries) /\ tx \in [Conns -> Seq(Entries) \cup {NoTx}]
  BY <1>1, HeadTailProperties DEF SQLiteTypeOK
<1>5. CASE /\ Head(todo) \notin Ids(Visible(writer))
           /\ tx' = [tx EXCEPT ![writer] = Append(@, Head(todo))]
           /\ todo' = Tail(todo) /\ apc' = apc
  <2> DEFINE new == Append(tx[writer], Head(todo))
  <2>1. new \in Seq(Entries) /\ new # NoTx
    <3>1. new \in Seq(Entries)
      BY <1>3, <1>4, AppendFacts
    <3>2. QED
      BY <3>1, NoTxIsNone
  <2>2. new \o Tail(todo) = current
    <3>1. tx[writer] \o todo = current
      BY <1>1 DEF WriterInv
    <3>2. new \o Tail(todo) = tx[writer] \o todo
      BY <1>1, <1>3, <1>4, MoveHead
    <3>3. QED
      BY <3>1, <3>2
  <2>3. table \o new = Append(table \o tx[writer], Head(todo))
    BY <1>3, <1>4, AppendConcat
  <2>4. IsInjective(table \o new)
    <3>1. table \o tx[writer] \in Seq(Entries)
      BY <1>3, <1>4, ConcatProperties
    <3>2. QED
      BY <1>3, <1>4, <1>5, <2>3, <3>1, InjectiveAppend
  <2> HIDE DEF new
  <2>5. \A c \in Conns : tx'[c] = IF c = writer THEN new ELSE NoTx
    BY <1>3, <1>4, <1>5 DEF new
  <2>6. SQLiteTypeOK'
    <3>1. tx' \in [Conns -> Seq(Entries) \cup {NoTx}]
      BY <1>3, <1>4, <1>5, <2>1 DEF new
    <3>2. QED
      BY <1>1, <1>2, <1>4, <1>5, <3>1 DEF SQLiteTypeOK
  <2>7. \A c \in Conns : Visible(c)' = IF c = writer THEN table \o new ELSE table
    BY <1>2, <2>1, <2>5, <2>6, VisibleNext
  <2>8. WriterInv'
    BY <1>1, <1>2, <1>3, <1>5, <2>1, <2>2, <2>4, <2>5, <2>7 DEF WriterInv
  <2>9. Calm
    BY <1>2 DEF Calm
  <2>10. QED
    BY <2>6, <2>8, <2>9 DEF StoreInv
<1>6. CASE apc' = "rollback" /\ UNCHANGED <<tx, todo>>
  <2>1. SQLiteTypeOK'
    BY <1>1, <1>2, <1>6 DEF SQLiteTypeOK
  <2>2. WriterInv'
    BY <1>1, <1>2, <1>3, <1>6, <2>1, RowsRest DEF WriterInv
  <2>3. Calm
    BY <1>2 DEF Calm
  <2>4. QED
    BY <2>1, <2>2, <2>3 DEF StoreInv
<1>7. QED
  BY <1>5, <1>6 DEF Insert

\* Whatever a commit returns, it stores the batch as a whole or not at all.
LEMMA CommitStep ==
    ASSUME StoreInv, Commit
    PROVE  StoreInv' /\ Calm
<1>1. SQLiteTypeOK /\ WriterInv /\ apc = "insert" /\ todo = <<>> /\ schema' = schema
  BY DEF StoreInv, Commit
<1>2. /\ writer \in Conns /\ tx[writer] # NoTx /\ tx[writer] \in Seq(Entries)
      /\ IsInjective(table \o tx[writer])
      /\ \A c \in Conns : c # writer => tx[c] = NoTx
      /\ conn[writer] = "used"
  BY <1>1, OpenTx DEF WriterInv
<1>3. table \in Seq(Entries) /\ tx \in [Conns -> Seq(Entries) \cup {NoTx}]
      /\ acked \subseteq Ids(table) /\ acked \subseteq Entries
  BY <1>1 DEF SQLiteTypeOK, WriterInv
<1>4. tx[writer] = current
  BY <1>1, <1>2, ConcatEmptySeq DEF WriterInv
<1>5. /\ table \o tx[writer] \in Seq(Entries)
      /\ Ids(table \o tx[writer]) = Ids(table) \cup Ids(current)
  BY <1>2, <1>3, <1>4, ConcatProperties, IdsConcat
<1>6. tx' = [tx EXCEPT ![writer] = NoTx] => tx' \in [Conns -> {NoTx}]
  BY <1>2, <1>3
<1>7. CASE /\ table' = table \o tx[writer] /\ tx' = [tx EXCEPT ![writer] = NoTx]
           /\ Returned(FALSE, FALSE)
  BY <1>1, <1>2, <1>5, <1>6, <1>7, ReturnedStep
<1>8. CASE apc' = "rollback" /\ UNCHANGED <<conn, callVars, acked, failed, table, tx>>
  <2>1. SQLiteTypeOK'
    BY <1>1, <1>8 DEF SQLiteTypeOK, callVars
  <2>2. WriterInv'
    BY <1>1, <1>2, <1>3, <1>8, <2>1, RowsRest DEF WriterInv, callVars
  <2>3. Calm
    BY <1>8 DEF Calm, callVars
  <2>4. QED
    BY <2>1, <2>2, <2>3 DEF StoreInv
<1>9. CASE /\ apc' = "rollback" /\ UNCHANGED <<conn, callVars, acked, failed>>
           /\ table' = table \o tx[writer] /\ tx' = [tx EXCEPT ![writer] = NoTx]
  <2>1. SQLiteTypeOK'
    <3>1. tx' \in [Conns -> Seq(Entries) \cup {NoTx}]
      BY <1>6, <1>9
    <3>2. QED
      BY <1>1, <1>5, <1>9, <3>1 DEF SQLiteTypeOK, callVars
  <2>2. \A c \in Conns : tx'[c] = NoTx /\ Visible(c)' = table'
    BY <1>6, <1>9, <2>1, VisibleNext
  <2>3. Ids(table) \subseteq Ids(table') /\ acked' = acked
    BY <1>5, <1>9
  <2>4. WriterInv'
    BY <1>1, <1>2, <1>3, <1>9, <2>2, <2>3 DEF WriterInv, callVars
  <2>5. Calm
    BY <1>9, <2>3 DEF Calm, callVars
  <2>6. QED
    BY <2>1, <2>4, <2>5 DEF StoreInv
<1>10. QED
  BY <1>7, <1>8, <1>9 DEF Commit

LEMMA RollbackStep ==
    ASSUME StoreInv, Rollback
    PROVE  StoreInv' /\ Calm
<1>1. SQLiteTypeOK /\ WriterInv /\ apc = "rollback" /\ UNCHANGED <<schema, table>>
  BY DEF StoreInv, Rollback
<1>2. writer \in Conns /\ (\A c \in Conns : c # writer => tx[c] = NoTx)
      /\ tx \in [Conns -> Seq(Entries) \cup {NoTx}]
  BY <1>1, OpenTx DEF SQLiteTypeOK
<1>3. tx' \in [Conns -> {NoTx}]
  BY <1>2 DEF Rollback
<1>4. PICK dead \in BOOLEAN : Returned(TRUE, dead)
  BY DEF Rollback
<1>5. table' \in Seq(Entries) /\ IsInjective(table')
  BY <1>1 DEF SQLiteTypeOK, WriterInv
<1>6. QED
  BY <1>1, <1>3, <1>4, <1>5, ReturnedStep

LEMMA ConfirmStep ==
    ASSUME StoreInv, NEW e \in Entries, Confirm(e)
    PROVE  /\ StoreInv' /\ Calm
           /\ acked' = Ids(table) /\ table' = table /\ apc' = apc
<1>1. SQLiteTypeOK /\ WriterInv /\ apc = "idle" /\ writer = None
  BY DEF StoreInv, WriterInv, Confirm
<1>2. UNCHANGED <<table, schema, conn, tx, apc, callVars>> /\ failed' = failed \ {e}
      /\ acked' = acked \cup Ids(table) \cup {e}
  BY DEF Confirm
<1>3. e \in Ids(table)
  <2>1. PICK c \in Conns : e \in Ids(Visible(c))
    BY DEF Confirm, Usable, LookupEntry
  <2>2. Visible(c) = table
    BY <1>1, NoWriterNoTx, VisibleFacts
  <2>3. QED
    BY <2>1, <2>2
<1>4. acked' = Ids(table) /\ acked \subseteq acked' /\ Ids(table) \subseteq Entries
  BY <1>1, <1>2, <1>3, IdsSubset DEF WriterInv, SQLiteTypeOK
<1>5. SQLiteTypeOK'
  BY <1>1, <1>2, <1>4 DEF SQLiteTypeOK, callVars
<1>6. WriterInv'
  BY <1>1, <1>2, <1>4, <1>5, RowsRest DEF WriterInv, callVars
<1>7. Calm
  BY <1>1, <1>2, <1>4 DEF Calm, callVars
<1>8. QED
  BY <1>2, <1>4, <1>5, <1>6, <1>7 DEF StoreInv

LEMMA CloseStep ==
    ASSUME StoreInv, Close
    PROVE  StoreInv' /\ Calm
<1>1. SQLiteTypeOK /\ WriterInv /\ apc = "idle" /\ apc' = "closed" /\ writer = None
  BY DEF StoreInv, WriterInv, Close
<1>2. UNCHANGED <<table, schema, tx, callVars, acked, failed>>
      /\ conn' = [c \in Conns |-> IF conn[c] = "used" THEN "used" ELSE "none"]
      /\ acked \subseteq Ids(table) /\ acked \subseteq Entries
  BY <1>1 DEF Close, WriterInv, SQLiteTypeOK
<1>3. SQLiteTypeOK'
  BY <1>1, <1>2 DEF SQLiteTypeOK, callVars
<1>4. WriterInv'
  BY <1>1, <1>2, <1>3, RowsRest, SQLiteAssumption DEF WriterInv, callVars
<1>5. Calm
  BY <1>1, <1>2 DEF Calm, callVars
<1>6. QED
  BY <1>3, <1>4, <1>5 DEF StoreInv

\* Nothing that was committed is lost with the process.
LEMMA CrashStep ==
    ASSUME StoreInv, Crash
    PROVE  StoreInv'
<1>1. SQLiteTypeOK /\ WriterInv
  BY DEF StoreInv
<1>2. /\ UNCHANGED <<table, schema, acked>> /\ apc' = "init" /\ writer' = None
      /\ todo' = <<>> /\ current' = <<>> /\ failed' = {}
      /\ conn' = [c \in Conns |-> "none"] /\ tx' = [c \in Conns |-> NoTx]
  BY DEF Crash
<1>3. SQLiteTypeOK'
  BY <1>1, <1>2 DEF SQLiteTypeOK
<1>4. \A c \in Conns : tx'[c] = NoTx /\ Visible(c)' = table'
  BY <1>2, <1>3, VisibleNext
<1>5. WriterInv'
  BY <1>1, <1>2, <1>4 DEF WriterInv
<1>6. QED
  BY <1>3, <1>5 DEF StoreInv

StoreStep ==
    SQLiteStep \/ (\E b \in Batches : AppendBatch(b)) \/ Close \/ \E e \in Entries : Confirm(e)

LEMMA StoreStepInv ==
    ASSUME StoreInv, StoreStep
    PROVE  StoreInv' /\ Calm
BY OpeningStep, AppendBatchStep, AcquireStep, BeginStep, InsertStep, CommitStep, RollbackStep,
   ConfirmStep, CloseStep DEF StoreStep, SQLiteStep

-----------------------------------------------------------------------------
(* The query.                                                              *)

QueryInv ==
    /\ reader \in [Handlers -> [at : {"idle", "query", "scan"}, conn : Conns \cup {None},
                                rows : Seq(Entries), expect : SUBSET Entries]]
    /\ ReaderInv /\ AnswersCommitted

LEMMA QueryKept ==
    ASSUME QueryInv, Calm, reader' = reader
    PROVE  QueryInv'
<1>1. \A h \in Handlers : reader[h].at = "scan" => reader[h].conn \in Conns
  BY DEF QueryInv, ReaderInv
<1>2. ReaderInv' /\ AnswersCommitted'
  BY <1>1 DEF QueryInv, ReaderInv, AnswersCommitted, Calm
<1>3. QED
  BY <1>2 DEF QueryInv

LEMMA IdleQueries ==
    ASSUME reader' = [h \in Handlers |-> Idle]
    PROVE  QueryInv'
BY EmptySeq DEF QueryInv, ReaderInv, AnswersCommitted, Idle

LEMMA AskedQuery ==
    ASSUME NEW q, q = [Idle EXCEPT !.at = "query", !.expect = acked]
    PROVE  q = [at |-> "query", conn |-> None, rows |-> <<>>, expect |-> acked]
BY DEF Idle

\* A handler that has no connection does not disturb the others.
LEMMA QueryMoves ==
    ASSUME QueryInv, NEW h \in Handlers, NEW q,
           UNCHANGED <<table, conn, writer, acked>>, acked \subseteq Entries,
           reader' = [reader EXCEPT ![h] = q],
           q \in [at : {"idle", "query"}, conn : {None}, rows : {<<>>}, expect : SUBSET acked]
    PROVE  QueryInv'
<1>1. reader' \in [Handlers -> [at : {"idle", "query", "scan"}, conn : Conns \cup {None},
                                rows : Seq(Entries), expect : SUBSET Entries]]
  BY EmptySeq DEF QueryInv
<1>2. reader'[h] = q /\ \A g \in Handlers : g # h => reader'[g] = reader[g]
  BY DEF QueryInv
<1>3. q.at # "scan" /\ q.conn = None /\ q.expect \subseteq acked
  OBVIOUS
<1>4. \A g \in Handlers : reader'[g].at = "scan" => g # h /\ reader[g].at = "scan"
  BY <1>2, <1>3
<1>5. ReaderInv'
  BY <1>2, <1>3, <1>4, SQLiteAssumption DEF QueryInv, ReaderInv
<1>6. AnswersCommitted'
  BY <1>2, <1>4 DEF QueryInv, AnswersCommitted
<1>7. QED
  BY <1>1, <1>5, <1>6 DEF QueryInv

\* A query that gets a connection of the pool sees the committed rows.
LEMMA QueryStartsStep ==
    ASSUME StoreInv, QueryInv, NEW h \in Handlers, QueryStarts(h)
    PROVE  StoreInv' /\ QueryInv'
<1>1. SQLiteTypeOK /\ WriterInv
  BY DEF StoreInv
<1>2. PICK c \in Usable : /\ conn' = [conn EXCEPT ![c] = "used"]
                          /\ reader' = [reader EXCEPT ![h].at = "scan", ![h].conn = c, ![h].rows = Visible(c)]
  BY DEF QueryStarts
<1>3. UNCHANGED <<table, schema, tx, apc, callVars, acked, failed>> /\ reader[h].at = "query"
      /\ acked \subseteq Ids(table) /\ acked \subseteq Entries /\ table \in Seq(Entries)
  BY <1>1 DEF QueryStarts, WriterInv, SQLiteTypeOK
<1>4. c \in Conns /\ conn[c] # "used" /\ c # writer /\ c # None /\ tx[c] = NoTx
  BY <1>1, <1>2, SQLiteAssumption DEF Usable, WriterInv
<1>5. Visible(c) = table
  BY <1>1, <1>4, VisibleFacts
<1>6. SQLiteTypeOK'
  BY <1>1, <1>2, <1>3, <1>4 DEF SQLiteTypeOK, callVars
<1>7. conn'[c] = "used" /\ \A d \in Conns : conn[d] = "used" => conn'[d] = "used"
  BY <1>1, <1>2, <1>4 DEF SQLiteTypeOK
<1>8. WriterInv'
  BY <1>1, <1>2, <1>3, <1>6, <1>7, RowsRest DEF WriterInv, callVars, SQLiteTypeOK
<1>9. /\ reader'[h] = [at |-> "scan", conn |-> c, rows |-> table, expect |-> reader[h].expect]
      /\ reader[h].expect \subseteq acked /\ reader[h].expect \subseteq Entries
      /\ \A g \in Handlers : g # h => reader'[g] = reader[g]
  BY <1>2, <1>5 DEF QueryInv, ReaderInv
<1>10. reader' \in [Handlers -> [at : {"idle", "query", "scan"}, conn : Conns \cup {None},
                                 rows : Seq(Entries), expect : SUBSET Entries]]
  <2>1. reader' = [g \in Handlers |-> reader'[g]]
    BY <1>2 DEF QueryInv
  <2>2. reader'[h] \in [at : {"idle", "query", "scan"}, conn : Conns \cup {None},
                        rows : Seq(Entries), expect : SUBSET Entries]
    BY <1>3, <1>4, <1>9
  <2>3. \A g \in Handlers : g # h =>
           reader'[g] \in [at : {"idle", "query", "scan"}, conn : Conns \cup {None},
                           rows : Seq(Entries), expect : SUBSET Entries]
    BY <1>9 DEF QueryInv
  <2>4. QED
    BY <2>1, <2>2, <2>3
<1>11. \A g \in Handlers : g # h => reader[g].conn # c
  BY <1>4 DEF QueryInv, ReaderInv
<1>12. ReaderInv'
  <2>1. ASSUME NEW g \in Handlers
        PROVE  /\ reader'[g].conn = None <=> reader'[g].at # "scan"
               /\ reader'[g].at = "scan" =>
                     /\ conn'[reader'[g].conn] = "used" /\ reader'[g].conn # writer'
                     /\ \A f \in Handlers : reader'[f].conn = reader'[g].conn => f = g
               /\ reader'[g].expect \subseteq acked'
    <3>1. writer' = writer /\ acked' = acked
      BY <1>3 DEF callVars
    <3>2. CASE g = h
      BY <1>4, <1>7, <1>9, <1>11, <3>1, <3>2 DEF QueryInv, ReaderInv
    <3>3. CASE g # h
      <4>1. reader'[g] = reader[g]
        BY <1>9, <3>3
      <4>2. reader[g].at = "scan" => reader[g].conn \in Conns
        BY DEF QueryInv, ReaderInv
      <4>3. reader[g].at = "scan" => \A f \in Handlers : reader'[f].conn = reader[g].conn => f = g
        BY <1>9, <1>11, <3>3 DEF QueryInv, ReaderInv
      <4>4. QED
        BY <1>7, <3>1, <4>1, <4>2, <4>3 DEF QueryInv, ReaderInv
    <3>4. QED
      BY <3>2, <3>3
  <2>2. QED
    BY <2>1 DEF ReaderInv
<1>13. AnswersCommitted'
  BY <1>3, <1>9 DEF QueryInv, AnswersCommitted
<1>14. QED
  BY <1>6, <1>8, <1>10, <1>12, <1>13 DEF StoreInv, QueryInv

LEMMA QueryEndsStep ==
    ASSUME StoreInv, QueryInv, NEW h \in Handlers, QueryEnds(h)
    PROVE  StoreInv' /\ QueryInv'
<1> DEFINE d == reader[h].conn
<1>1. SQLiteTypeOK /\ WriterInv
  BY DEF StoreInv
<1>2. /\ conn' = [conn EXCEPT ![d] = IF apc = "closed" THEN "none" ELSE "idle"]
      /\ reader' = [reader EXCEPT ![h] = Idle]
      /\ UNCHANGED <<table, schema, tx, apc, callVars, acked, failed>>
      /\ acked \subseteq Ids(table) /\ acked \subseteq Entries
  BY <1>1 DEF QueryEnds, WriterInv, SQLiteTypeOK
<1>3. /\ d \in Conns /\ d # writer
      /\ \A g \in Handlers : reader[g].conn = d => g = h
  BY DEF QueryEnds, QueryInv, ReaderInv
<1> HIDE DEF d
<1>4. SQLiteTypeOK'
  BY <1>1, <1>2, <1>3 DEF SQLiteTypeOK, callVars
<1>5. writer # None => conn'[writer] = conn[writer]
  BY <1>1, <1>2, <1>3 DEF SQLiteTypeOK
<1>6. WriterInv'
  BY <1>1, <1>2, <1>4, <1>5, RowsRest DEF WriterInv, callVars
<1>7. /\ reader'[h] = Idle
      /\ \A g \in Handlers : g # h => reader'[g] = reader[g] /\ reader[g].conn # d
  BY <1>2, <1>3 DEF QueryInv
<1>8. reader' \in [Handlers -> [at : {"idle", "query", "scan"}, conn : Conns \cup {None},
                                rows : Seq(Entries), expect : SUBSET Entries]]
  BY <1>2, EmptySeq DEF QueryInv, Idle
<1>9. \A g \in Handlers : reader'[g].at = "scan" =>
         g # h /\ reader[g].at = "scan" /\ reader[g].conn \in Conns
         /\ conn'[reader[g].conn] = conn[reader[g].conn]
  BY <1>1, <1>2, <1>7 DEF Idle, QueryInv, ReaderInv, SQLiteTypeOK
<1>10. writer' = writer /\ acked' = acked /\ table' = table /\ None \notin Conns
  BY <1>2, SQLiteAssumption DEF callVars
<1>11. ReaderInv'
  <2>1. reader'[h].at = "idle" /\ reader'[h].conn = None /\ reader'[h].expect = {}
    BY <1>7 DEF Idle
  <2>2. ASSUME NEW g \in Handlers, g # h
        PROVE  /\ reader'[g].conn = None <=> reader'[g].at # "scan"
               /\ reader'[g].at = "scan" =>
                     /\ conn'[reader'[g].conn] = "used" /\ reader'[g].conn # writer'
                     /\ \A f \in Handlers : reader'[f].conn = reader'[g].conn => f = g
               /\ reader'[g].expect \subseteq acked'
    <3>1. reader'[g] = reader[g]
      BY <1>7, <2>2
    <3>2. reader[g].at = "scan" => \A f \in Handlers : reader'[f].conn = reader[g].conn => f = g
      BY <1>7, <1>9, <1>10, <2>1, <3>1 DEF QueryInv, ReaderInv
    <3>3. QED
      BY <1>9, <1>10, <3>1, <3>2 DEF QueryInv, ReaderInv
  <2>3. QED
    BY <2>1, <2>2 DEF ReaderInv
<1>12. AnswersCommitted'
  BY <1>7, <1>9, <1>10 DEF QueryInv, AnswersCommitted
<1>13. QED
  BY <1>4, <1>6, <1>8, <1>11, <1>12 DEF StoreInv, QueryInv

-----------------------------------------------------------------------------
(* The limiter.                                                            *)

LimiterInv ==
    /\ now \in Nat
    /\ DOMAIN attempts \subseteq Principals
    /\ IsFiniteSet(DOMAIN attempts) /\ Cardinality(DOMAIN attempts) <= MaxPrincipals
    /\ \A p \in DOMAIN attempts : attempts[p] \in [start : 0..now, failures : 1..FailureLimit + 1]
    /\ IsFiniteSet(refusals)
    /\ refusals \subseteq [principal : Principals, time : 0..now, nth : Nat, start : 0..now,
                           failure : 1..FailureLimit]
    /\ WindowInv

\* A map that is full makes room for one principal.
LEMMA CapacityKept ==
    ASSUME LimiterInv, NEW p \in Principals,
           NEW S \in IF p \in DOMAIN attempts THEN {{}} ELSE ensureCapacity
    PROVE  LET D == (DOMAIN attempts \ S) \cup {p}
           IN  IsFiniteSet(D) /\ Cardinality(D) <= MaxPrincipals
<1> DEFINE A == DOMAIN attempts
           expired == {q \in A : Expired(attempts[q])}
           live == A \ expired
<1>1. IsFiniteSet(A) /\ Cardinality(A) \in Nat /\ Cardinality(A) <= MaxPrincipals /\ MaxPrincipals \in Nat
  BY FS_CardinalityType, DashboardAssumption DEF LimiterInv
<1>2. IsFiniteSet(live) /\ Cardinality(live) \in Nat /\ Cardinality(live) <= Cardinality(A)
  <2>1. live \in SUBSET A
    OBVIOUS
  <2>2. QED
    BY <1>1, <2>1, FS_Subset, FS_CardinalityType
<1>3. ASSUME NEW T, IsFiniteSet(T), Cardinality(T) < MaxPrincipals, Cardinality(T) \in Nat
      PROVE  IsFiniteSet(T \cup {p}) /\ Cardinality(T \cup {p}) <= MaxPrincipals
  <2>1. IsFiniteSet(T \cup {p}) /\ Cardinality(T \cup {p}) \in {Cardinality(T), Cardinality(T) + 1}
    BY <1>3, FS_AddElement
  <2>2. QED
    BY <1>1, <1>3, <2>1
<1>4. CASE p \in A
  <2>1. (A \ S) \cup {p} = A
    BY <1>4
  <2>2. QED
    BY <1>1, <2>1
<1>5. CASE p \notin A
  <2>1. \/ S = {} /\ Cardinality(A) < MaxPrincipals
        \/ S = expired /\ Cardinality(live) < MaxPrincipals
        \/ \E o \in live : S = expired \cup {o}
    BY <1>5 DEF ensureCapacity
  <2>2. CASE S = {} /\ Cardinality(A) < MaxPrincipals
    <3>1. A \ S = A
      BY <2>2
    <3>2. QED
      BY <1>1, <1>3, <2>2, <3>1
  <2>3. CASE S = expired /\ Cardinality(live) < MaxPrincipals
    <3>1. A \ S = live
      BY <2>3
    <3>2. QED
      BY <1>2, <1>3, <2>3, <3>1
  <2>4. CASE \E o \in live : S = expired \cup {o}
    <3>1. PICK o \in live : S = expired \cup {o}
      BY <2>4
    <3>2. A \ S = live \ {o}
      BY <3>1
    <3>3. IsFiniteSet(live \ {o}) /\ Cardinality(live \ {o}) = Cardinality(live) - 1
      BY <1>2, FS_RemoveElement
    <3>4. Cardinality(live \ {o}) \in Nat
      BY <3>3, FS_CardinalityType
    <3>5. Cardinality(live \ {o}) < MaxPrincipals
      BY <1>1, <1>2, <3>3
    <3>6. QED
      BY <1>3, <3>2, <3>3, <3>4, <3>5
  <2>5. QED
    BY <2>1, <2>2, <2>3, <2>4
<1>6. QED
  BY <1>4, <1>5

\* The bucket of a failure begins in the current window, after those of the
\* refusals before it or with them, and counts one more.
LEMMA BucketFacts ==
    ASSUME LimiterInv, NEW p \in Principals
    PROVE  /\ Bucket(p) \in [start : 0..now, failures : 1..FailureLimit + 1]
           /\ now < Bucket(p).start + Window
           /\ \A r \in refusals : r.principal = p =>
                 \/ r.start + Window <= Bucket(p).start
                 \/ /\ r.start = Bucket(p).start /\ r.failure <= Bucket(p).failures
                    /\ Bucket(p).failures <= FailureLimit => r.failure < Bucket(p).failures
<1>1. now \in Nat /\ Window \in Nat \ {0} /\ FailureLimit \in Nat \ {0}
  BY DashboardAssumption DEF LimiterInv
<1>2. \A r \in refusals : r.start \in 0..now /\ r.failure \in 1..FailureLimit
  BY DEF LimiterInv
<1>3. CASE p \notin DOMAIN attempts
  <2>1. Bucket(p) = [start |-> now, failures |-> 1]
    BY <1>3 DEF Bucket
  <2>2. \A r \in refusals : r.principal = p => r.start + Window <= now
    BY <1>3 DEF LimiterInv, WindowInv
  <2>3. QED
    BY <1>1, <2>1, <2>2
<1>4. CASE p \in DOMAIN attempts
  <2> DEFINE a == attempts[p]
  <2>1. a \in [start : 0..now, failures : 1..FailureLimit + 1]
    BY <1>4 DEF LimiterInv
  <2>2. \A r \in refusals : r.principal = p =>
           r.start + Window <= a.start \/ (r.start = a.start /\ r.failure <= a.failures)
    BY <1>4 DEF LimiterInv, WindowInv
  <2>3. CASE Expired(a)
    <3>1. Bucket(p) = [start |-> now, failures |-> 1]
      BY <2>3 DEF Bucket
    <3>2. a.start + Window <= now
      BY <1>1, <2>1, <2>3 DEF Expired
    <3>3. \A r \in refusals : r.principal = p => r.start + Window <= now
      BY <1>1, <1>2, <2>1, <2>2, <3>2
    <3>4. QED
      BY <1>1, <3>1, <3>3
  <2>4. CASE ~Expired(a)
    <3>1. Bucket(p) = [a EXCEPT !.failures = IF @ > FailureLimit THEN @ ELSE @ + 1]
      BY <1>4, <2>4 DEF Bucket
    <3>2. /\ Bucket(p) \in [start : 0..now, failures : 1..FailureLimit + 1]
          /\ Bucket(p).start = a.start
          /\ Bucket(p).failures = IF a.failures > FailureLimit THEN a.failures ELSE a.failures + 1
      BY <1>1, <2>1, <3>1
    <3>3. now < a.start + Window
      BY <1>1, <2>1, <2>4 DEF Expired
    <3>4. QED
      BY <1>1, <1>2, <2>1, <2>2, <3>2, <3>3
  <2>5. QED
    BY <2>3, <2>4
<1>5. QED
  BY <1>3, <1>4

\* A failure, with the principals it makes room at the cost of.
LEMMA FailureStep ==
    ASSUME LimiterInv, NEW p \in Principals, RecordFailure(p), now' = now
    PROVE  LimiterInv'
<1> DEFINE b == Bucket(p)
           kept(S) == Forget({q \in S : ~Expired(attempts[q])})
           same(S) == {r \in kept(S) : r.principal = p /\ r.time = now}
           refusal(S) == [principal |-> p, time |-> now, nth |-> Cardinality(same(S)) + 1,
                          start |-> b.start, failure |-> b.failures]
<1>1. PICK S \in IF p \in DOMAIN attempts THEN {{}} ELSE ensureCapacity :
         /\ attempts' = [q \in (DOMAIN attempts \ S) \cup {p} |-> IF q = p THEN b ELSE attempts[q]]
         /\ refusals' = IF b.failures > FailureLimit THEN kept(S) ELSE kept(S) \cup {refusal(S)}
  BY DEF RecordFailure
<1> DEFINE r0 == refusal(S)
<1>2. now \in Nat /\ Window \in Nat \ {0} /\ FailureLimit \in Nat \ {0}
  BY DashboardAssumption DEF LimiterInv
<1>3. /\ b \in [start : 0..now, failures : 1..FailureLimit + 1] /\ now < b.start + Window
      /\ \A r \in refusals : r.principal = p =>
                 \/ r.start + Window <= b.start
                 \/ /\ r.start = b.start /\ r.failure <= b.failures
                    /\ b.failures <= FailureLimit => r.failure < b.failures
  BY BucketFacts
<1> HIDE DEF b
<1>4. DOMAIN attempts' = (DOMAIN attempts \ S) \cup {p} /\ attempts'[p] = b
      /\ \A q \in DOMAIN attempts \ S : q # p => attempts'[q] = attempts[q]
  BY <1>1
<1>5. DOMAIN attempts' \subseteq Principals
      /\ IsFiniteSet(DOMAIN attempts') /\ Cardinality(DOMAIN attempts') <= MaxPrincipals
  BY <1>4, CapacityKept DEF LimiterInv
<1>6. \A q \in DOMAIN attempts' : attempts'[q] \in [start : 0..now, failures : 1..FailureLimit + 1]
  BY <1>3, <1>4 DEF LimiterInv
<1>7. \A r \in refusals' : r \in kept(S) \/ (r = r0 /\ b.failures <= FailureLimit)
  BY <1>1, <1>2, <1>3
<1>8. kept(S) \subseteq refusals
  BY DEF Forget
<1>9. \A r \in refusals : /\ r.principal \in Principals /\ r.time \in 0..now
                          /\ r.start \in 0..now /\ r.failure \in 1..FailureLimit
  BY DEF LimiterInv
<1>10. /\ IsFiniteSet(refusals')
       /\ refusals' \subseteq [principal : Principals, time : 0..now, nth : Nat, start : 0..now,
                               failure : 1..FailureLimit]
  <2>1. kept(S) \in SUBSET refusals /\ same(S) \in SUBSET refusals /\ IsFiniteSet(refusals)
    BY <1>8 DEF LimiterInv
  <2>2. IsFiniteSet(kept(S)) /\ IsFiniteSet(same(S))
    BY <2>1, FS_Subset
  <2>3. Cardinality(same(S)) \in Nat /\ IsFiniteSet(kept(S) \cup {r0})
    BY <2>2, FS_CardinalityType, FS_AddElement
  <2>4. refusals' = kept(S) \/ refusals' = kept(S) \cup {r0}
    BY <1>1
  <2> HIDE DEF kept, same
  <2>5. b.failures <= FailureLimit =>
           r0 \in [principal : Principals, time : 0..now, nth : Nat, start : 0..now,
                   failure : 1..FailureLimit]
    BY <1>2, <1>3, <2>3
  <2> HIDE DEF r0
  <2>6. QED
    BY <1>7, <1>8, <2>2, <2>3, <2>4, <2>5 DEF LimiterInv
<1>11. r0.principal = p /\ r0.time = now /\ r0.start = b.start /\ r0.failure = b.failures
  OBVIOUS
<1> HIDE DEF r0, kept, same, refusal
<1>12. \A r \in refusals' : r.start <= r.time /\ r.time < r.start + Window
  <2> TAKE r \in refusals'
  <2>1. CASE r \in kept(S)
    BY <1>8, <2>1 DEF LimiterInv, WindowInv
  <2>2. CASE r = r0
    BY <1>2, <1>3, <1>11, <2>2
  <2>3. QED
    BY <1>7, <2>1, <2>2
<1>13. ASSUME NEW r \in refusals', NEW s \in refusals', r.principal = s.principal
       PROVE  \/ r.start + Window <= s.start \/ s.start + Window <= r.start
              \/ r.start = s.start /\ (r.failure = s.failure => r = s)
  <2>1. CASE r \in kept(S) /\ s \in kept(S)
    BY <1>8, <1>13, <2>1 DEF LimiterInv, WindowInv
  <2>2. CASE r = r0 /\ s = r0
    BY <2>2
  <2>3. CASE r \in kept(S) /\ s = r0 /\ b.failures <= FailureLimit
    BY <1>3, <1>8, <1>9, <1>11, <1>13, <2>3
  <2>4. CASE s \in kept(S) /\ r = r0 /\ b.failures <= FailureLimit
    BY <1>3, <1>8, <1>9, <1>11, <1>13, <2>4
  <2>5. QED
    BY <1>7, <2>1, <2>2, <2>3, <2>4
<1>14. ASSUME NEW r \in refusals'
       PROVE  IF r.principal \notin DOMAIN attempts' THEN r.start + Window <= now
              ELSE \/ r.start + Window <= attempts'[r.principal].start
                   \/ r.start = attempts'[r.principal].start /\ r.failure <= attempts'[r.principal].failures
  <2>1. CASE r = r0
    BY <1>3, <1>4, <1>11, <2>1
  <2>2. CASE r \in kept(S) /\ r.principal = p
    BY <1>3, <1>4, <1>8, <2>2
  <2>3. CASE r \in kept(S) /\ r.principal # p
    <3> DEFINE q == r.principal
    <3>1. r \in refusals /\ (q \in S => Expired(attempts[q]))
      BY <2>3 DEF kept, Forget
    <3>2. IF q \notin DOMAIN attempts THEN r.start + Window <= now
          ELSE r.start + Window <= attempts[q].start
               \/ (r.start = attempts[q].start /\ r.failure <= attempts[q].failures)
      BY <3>1 DEF LimiterInv, WindowInv
    <3>3. CASE q \notin DOMAIN attempts
      BY <1>4, <2>3, <3>2, <3>3
    <3>4. CASE q \in DOMAIN attempts \ S
      BY <1>4, <2>3, <3>2, <3>4
    <3>5. CASE q \in DOMAIN attempts /\ q \in S
      <4>1. attempts[q].start \in 0..now
        BY <3>5 DEF LimiterInv
      <4>2. attempts[q].start + Window <= now
        BY <1>2, <3>1, <3>5, <4>1 DEF Expired
      <4>3. r.start + Window <= now
        BY <1>2, <1>9, <3>1, <3>2, <3>5, <4>1, <4>2
      <4>4. q \notin DOMAIN attempts'
        BY <1>4, <2>3, <3>5
      <4>5. QED
        BY <4>3, <4>4
    <3>6. QED
      BY <3>3, <3>4, <3>5
  <2>4. QED
    BY <1>7, <2>1, <2>2, <2>3
<1>15. WindowInv'
  BY <1>12, <1>13, <1>14 DEF WindowInv
<1>16. QED
  BY <1>2, <1>5, <1>6, <1>10, <1>15 DEF LimiterInv

\* A success forgets the failures and the refusals of its principal.
LEMMA SuccessStep ==
    ASSUME LimiterInv, NEW p \in Principals, attempts' = without(attempts, {p}),
           refusals' = Forget({p}), now' = now
    PROVE  LimiterInv'
<1>1. DOMAIN attempts' = DOMAIN attempts \ {p} /\ \A q \in DOMAIN attempts' : attempts'[q] = attempts[q]
  BY DEF without
<1>2. refusals' \subseteq refusals /\ \A r \in refusals' : r.principal # p
  BY DEF Forget
<1>3. IsFiniteSet(DOMAIN attempts') /\ Cardinality(DOMAIN attempts') <= MaxPrincipals
  <2>1. IsFiniteSet(DOMAIN attempts) /\ Cardinality(DOMAIN attempts) <= MaxPrincipals
        /\ Cardinality(DOMAIN attempts) \in Nat /\ MaxPrincipals \in Nat
    BY FS_CardinalityType, DashboardAssumption DEF LimiterInv
  <2>2. DOMAIN attempts' \in SUBSET (DOMAIN attempts)
    BY <1>1
  <2>3. IsFiniteSet(DOMAIN attempts') /\ Cardinality(DOMAIN attempts') <= Cardinality(DOMAIN attempts)
        /\ Cardinality(DOMAIN attempts') \in Nat
    BY <2>1, <2>2, FS_Subset, FS_CardinalityType
  <2>4. QED
    BY <2>1, <2>3
<1>4. WindowInv'
  <2>1. \A r \in refusals' : r.principal \in DOMAIN attempts' <=> r.principal \in DOMAIN attempts
    BY <1>1, <1>2
  <2>2. /\ \A r \in refusals' : r.start <= r.time /\ r.time < r.start + Window
        /\ \A r, s \in refusals' : r.principal = s.principal =>
              \/ r.start + Window <= s.start \/ s.start + Window <= r.start
              \/ r.start = s.start /\ (r.failure = s.failure => r = s)
    BY <1>2, ZenonT(60) DEF LimiterInv, WindowInv
  <2>3. \A r \in refusals' :
          IF r.principal \notin DOMAIN attempts' THEN r.start + Window <= now
          ELSE LET b == attempts'[r.principal]
               IN  \/ r.start + Window <= b.start
                   \/ r.start = b.start /\ r.failure <= b.failures
    BY <1>1, <1>2, <2>1, ZenonT(60) DEF LimiterInv, WindowInv
  <2>4. QED
    BY <2>2, <2>3 DEF WindowInv
<1>5. IsFiniteSet(refusals')
  BY <1>2, FS_Subset DEF LimiterInv
<1>6. QED
  BY <1>1, <1>2, <1>3, <1>4, <1>5 DEF LimiterInv

LEMMA TickStep ==
    ASSUME LimiterInv, Tick
    PROVE  LimiterInv'
<1>1. now' = now + 1 /\ attempts' = attempts /\ refusals' \subseteq refusals
      /\ now \in Nat /\ Window \in Nat
  BY DashboardAssumption DEF Tick, LimiterInv
<1>2. 0..now \subseteq 0..now' /\ now' \in Nat
  BY <1>1
<1>3. WindowInv'
  <2>1. \A r \in refusals : r.start \in 0..now
    BY DEF LimiterInv
  <2>2. QED
    BY <1>1, <2>1 DEF LimiterInv, WindowInv
<1>4. \A p \in DOMAIN attempts : attempts[p] \in [start : 0..now', failures : 1..FailureLimit + 1]
  BY <1>2 DEF LimiterInv
<1>5. refusals \subseteq [principal : Principals, time : 0..now', nth : Nat, start : 0..now',
                          failure : 1..FailureLimit]
  BY <1>2 DEF LimiterInv
<1>6. IsFiniteSet(refusals')
  BY <1>1, FS_Subset DEF LimiterInv
<1>7. QED
  BY <1>1, <1>2, <1>3, <1>4, <1>5, <1>6 DEF LimiterInv

LEMMA FreshLimiter ==
    ASSUME attempts = <<>>, refusals = {}, now \in Nat
    PROVE  LimiterInv
<1>1. DOMAIN attempts = {}
  OBVIOUS
<1>2. QED
  BY <1>1, FS_EmptySet, DashboardAssumption DEF LimiterInv, WindowInv

LEMMA FreshLimiterNext ==
    ASSUME attempts' = <<>>, refusals' = {}, now' \in Nat
    PROVE  LimiterInv'
<1>1. DOMAIN attempts' = {}
  OBVIOUS
<1>2. QED
  BY <1>1, FS_EmptySet, DashboardAssumption DEF LimiterInv, WindowInv

-----------------------------------------------------------------------------
(* The invariant.                                                          *)

LEMMA DashboardParts == DashboardInv <=> StoreInv /\ QueryInv /\ LimiterInv
<1>1. ASSUME StoreInv PROVE PoolIsClean
  BY <1>1, SQLiteAssumption DEF StoreInv, WriterInv, PoolIsClean
<1>2. QED
  BY <1>1 DEF DashboardInv, DashboardTypeOK, StoreInv, QueryInv, LimiterInv

LEMMA DashboardInit == Init => DashboardInv
<1>1. SUFFICES ASSUME Init PROVE DashboardInv
  OBVIOUS
<1>2. StoreInv
  BY <1>1, StoreStarts DEF Init
<1>3. QueryInv
  BY <1>1, EmptySeq DEF Init, QueryInv, ReaderInv, AnswersCommitted, Idle
<1>4. LimiterInv
  BY <1>1, FreshLimiter DEF Init
<1>5. QED
  BY <1>2, <1>3, <1>4, DashboardParts

LEMMA StoreSame ==
    ASSUME StoreInv, UNCHANGED sqliteVars
    PROVE  StoreInv' /\ Calm
<1>1. UNCHANGED <<table, schema, conn, tx, apc, writer, todo, current, acked, failed>>
  BY DEF sqliteVars
<1>2. SQLiteTypeOK'
  BY <1>1 DEF StoreInv, SQLiteTypeOK
<1>3. WriterInv'
  BY <1>1, <1>2, RowsRest DEF StoreInv, WriterInv, SQLiteTypeOK
<1>4. Calm
  BY <1>1 DEF Calm
<1>5. QED
  BY <1>2, <1>3, <1>4 DEF StoreInv

LEMMA LimiterSame ==
    ASSUME LimiterInv, UNCHANGED <<now, attempts, refusals>>
    PROVE  LimiterInv'
BY DEF LimiterInv, WindowInv

LEMMA DashboardNext == DashboardInv /\ [Next]_vars => DashboardInv'
<1>1. SUFFICES ASSUME StoreInv, QueryInv, LimiterInv, [Next]_vars
               PROVE  StoreInv' /\ QueryInv' /\ LimiterInv'
  <2>1. DashboardInv' <=> StoreInv' /\ QueryInv' /\ LimiterInv'
    BY DashboardParts, PTL
  <2>2. QED
    BY <2>1, DashboardParts
<1>2. CASE StoreStep /\ UNCHANGED dashboardVars
  BY <1>1, <1>2, StoreStepInv, QueryKept, LimiterSame DEF dashboardVars
<1>3. ASSUME NEW p \in Principals, Unauthorized(p)
      PROVE  StoreInv' /\ QueryInv' /\ LimiterInv'
  BY <1>1, <1>3, StoreSame, QueryKept, FailureStep DEF Unauthorized
<1>4. ASSUME NEW p \in Principals, NEW h \in Handlers, Authorized(p, h)
      PROVE  StoreInv' /\ QueryInv' /\ LimiterInv'
  <2>1. StoreInv' /\ UNCHANGED <<table, conn, writer, acked>> /\ acked \subseteq Entries
    BY <1>1, <1>4, StoreSame DEF Authorized, sqliteVars, StoreInv, SQLiteTypeOK
  <2>2. LimiterInv'
    BY <1>1, <1>4, SuccessStep DEF Authorized
  <2>3. reader' = [reader EXCEPT ![h] = [at |-> "query", conn |-> None, rows |-> <<>>, expect |-> acked]]
    BY <1>4, AskedQuery DEF Authorized
  <2>4. QueryInv'
    BY <1>1, <2>1, <2>3, QueryMoves
  <2>5. QED
    BY <2>1, <2>2, <2>4
<1>5. ASSUME NEW h \in Handlers, QueryStarts(h)
      PROVE  StoreInv' /\ QueryInv' /\ LimiterInv'
  BY <1>1, <1>5, QueryStartsStep, LimiterSame DEF QueryStarts
<1>6. ASSUME NEW h \in Handlers, QueryEnds(h)
      PROVE  StoreInv' /\ QueryInv' /\ LimiterInv'
  BY <1>1, <1>6, QueryEndsStep, LimiterSame DEF QueryEnds
<1>7. ASSUME NEW h \in Handlers, QueryRefused(h)
      PROVE  StoreInv' /\ QueryInv' /\ LimiterInv'
  <2>1. StoreInv' /\ UNCHANGED <<table, conn, writer, acked>> /\ acked \subseteq Entries
    BY <1>1, <1>7, StoreSame DEF QueryRefused, sqliteVars, StoreInv, SQLiteTypeOK
  <2>2. reader' = [reader EXCEPT ![h] = [at |-> "idle", conn |-> None, rows |-> <<>>, expect |-> {}]]
    BY <1>7 DEF QueryRefused, Idle
  <2>3. QueryInv'
    BY <1>1, <2>1, <2>2, QueryMoves
  <2>4. QED
    BY <1>1, <1>7, <2>1, <2>3, LimiterSame DEF QueryRefused
<1>8. CASE Tick
  BY <1>1, <1>8, StoreSame, QueryKept, TickStep DEF Tick
<1>9. CASE Restart
  BY <1>1, <1>9, CrashStep, IdleQueries, FreshLimiterNext DEF Restart, LimiterInv
<1>10. CASE UNCHANGED vars
  BY <1>1, <1>10, StoreSame, QueryKept, LimiterSame DEF vars, dashboardVars
<1>11. QED
  BY <1>1, <1>2, <1>3, <1>4, <1>5, <1>6, <1>7, <1>8, <1>9, <1>10 DEF Next, StoreStep, QueryStep

\* DashboardInv holds in every state: a failed commit or rollback never puts a
\* connection with an open transaction back into the pool (AppendBatch and its
\* deferred rollback, sqlite.go), a query never shows a row that was not committed
\* and misses none that was acknowledged, and the failure limiter stays within
\* MaxPrincipals (authFailureLimiter, server.go).
THEOREM DashboardCorrect == Spec => []DashboardInv
<1>1. QED
  BY DashboardInit, DashboardNext, PTL DEF Spec

-----------------------------------------------------------------------------
(* Guesses.                                                                *)

RecentIn(p, start) == {r \in Recent(p) : r.start = start}

\* One window holds at most FailureLimit refusals: each is another failure.
LEMMA OneWindow ==
    ASSUME LimiterInv, NEW p \in Principals, NEW start
    PROVE  LET W == RecentIn(p, start)
           IN  IsFiniteSet(W) /\ Cardinality(W) \in Nat /\ Cardinality(W) <= FailureLimit
<1> DEFINE W == RecentIn(p, start)
           f == [r \in W |-> r.failure]
<1>1. FailureLimit \in Nat \ {0} /\ Window \in Nat \ {0}
  BY DashboardAssumption
<1>2. \A r \in W : r \in refusals /\ r.principal = p /\ r.start = start
  BY DEF RecentIn, Recent
<1>3. \A r \in refusals : r.start \in 0..now /\ r.failure \in 1..FailureLimit /\ now \in Nat
  BY DEF LimiterInv
<1>4. f \in [W -> 1..FailureLimit]
  BY <1>2, <1>3
<1>5. ASSUME NEW r \in W, NEW s \in W, r.failure = s.failure PROVE r = s
  <2>1. r.start \in Nat /\ ~(r.start + Window <= r.start)
    BY <1>1, <1>2, <1>3
  <2>2. QED
    BY <1>2, <1>5, <2>1 DEF LimiterInv, WindowInv
<1>6. f \in Injection(W, 1..FailureLimit)
  BY <1>4, <1>5 DEF Injection, IsInjective
<1>7. IsFiniteSet(1..FailureLimit) /\ Cardinality(1..FailureLimit) = FailureLimit
  BY <1>1, FS_Interval
<1>8. QED
  BY <1>6, <1>7, FS_Injection, FS_CardinalityType

\* Refusals of three windows do not fit into the time of one.
LEMMA ThreeWindows ==
    ASSUME LimiterInv, NEW p \in Principals,
           NEW r \in Recent(p), NEW s \in Recent(p), NEW t \in Recent(p),
           r.start # s.start, s.start # t.start, r.start # t.start
    PROVE  FALSE
<1>1. /\ {r, s, t} \subseteq refusals /\ r.principal = p /\ s.principal = p /\ t.principal = p
      /\ r.time > now - Window /\ s.time > now - Window /\ t.time > now - Window
  BY DEF Recent
<1>2. Window \in Nat \ {0} /\ now \in Nat
  BY DashboardAssumption DEF LimiterInv
<1>3. \A x \in {r, s, t} : x.start \in 0..now /\ x.time \in 0..now /\ x.time < x.start + Window
  BY <1>1 DEF LimiterInv, WindowInv
<1>4. /\ r.start + Window <= s.start \/ s.start + Window <= r.start
      /\ s.start + Window <= t.start \/ t.start + Window <= s.start
      /\ r.start + Window <= t.start \/ t.start + Window <= r.start
  BY <1>1 DEF LimiterInv, WindowInv
<1>5. QED
  BY <1>1, <1>2, <1>3, <1>4

\* No principal gets more than twice FailureLimit guesses within one Window, for
\* every limit, window and number of principals (authFailureLimiter.recordFailure).
THEOREM DashboardGuesses == Spec => []GuessesBounded
<1>1. ASSUME LimiterInv, NEW p \in Principals
      PROVE  Cardinality(Recent(p)) <= 2 * FailureLimit
  <2>1. FailureLimit \in Nat \ {0}
    BY DashboardAssumption
  <2>2. CASE Recent(p) = {}
    <3>1. Cardinality(Recent(p)) = 0
      BY <2>2, FS_EmptySet
    <3>2. QED
      BY <2>1, <3>1
  <2>3. ASSUME NEW r \in Recent(p), \A t \in Recent(p) : t.start = r.start
        PROVE  Cardinality(Recent(p)) <= 2 * FailureLimit
    <3>1. Recent(p) = RecentIn(p, r.start)
      BY <2>3 DEF RecentIn
    <3>2. Cardinality(Recent(p)) \in Nat /\ Cardinality(Recent(p)) <= FailureLimit
      BY <1>1, <3>1, OneWindow
    <3>3. QED
      BY <2>1, <3>2
  <2>4. ASSUME NEW r \in Recent(p), NEW s \in Recent(p), s.start # r.start
        PROVE  Cardinality(Recent(p)) <= 2 * FailureLimit
    <3> DEFINE A == RecentIn(p, r.start)
               B == RecentIn(p, s.start)
    <3>1. \A t \in Recent(p) : t.start = r.start \/ t.start = s.start
      BY <1>1, <2>4, ThreeWindows
    <3>2. Recent(p) = A \cup B
      BY <3>1 DEF RecentIn
    <3>3. A \cap B = {}
      BY <2>4 DEF RecentIn
    <3>4. /\ IsFiniteSet(A) /\ Cardinality(A) \in Nat /\ Cardinality(A) <= FailureLimit
          /\ IsFiniteSet(B) /\ Cardinality(B) \in Nat /\ Cardinality(B) <= FailureLimit
      BY <1>1, OneWindow
    <3> HIDE DEF A, B
    <3>5. Cardinality(A \cup B) = Cardinality(A) + Cardinality(B) - Cardinality(A \cap B)
      BY <3>4, FS_Union
    <3>6. Cardinality(A \cap B) = 0
      BY <3>3, FS_EmptySet
    <3>7. QED
      BY <2>1, <3>2, <3>4, <3>5, <3>6
  <2>5. QED
    BY <2>2, <2>3, <2>4
<1>2. DashboardInv => GuessesBounded
  BY <1>1, DashboardParts DEF GuessesBounded
<1>3. QED
  BY <1>2, DashboardCorrect, PTL

-----------------------------------------------------------------------------
(* The contract of the backends.                                           *)

\* The rows as the records of AuditStore.
AsRecords(s) == [k \in 1..Len(s) |-> [id |-> s[k], body |-> TRUE]]

LEMMA IsSeq ==
    ASSUME NEW R, NEW n \in Nat, NEW f \in [1..n -> R]
    PROVE  f \in Seq(R)
BY SeqDef

LEMMA AsRecordsFacts ==
    ASSUME NEW s \in Seq(Entries)
    PROVE  AsRecords(s) \in Seq([id : Entries, body : {TRUE}]) /\ Len(AsRecords(s)) = Len(s)
<1>1. Len(s) \in Nat /\ \A k \in 1..Len(s) : s[k] \in Entries
  BY SeqFacts
<1>2. AsRecords(s) \in [1..Len(s) -> [id : Entries, body : {TRUE}]]
  BY <1>1 DEF AsRecords
<1>3. AsRecords(s) \in Seq([id : Entries, body : {TRUE}])
  BY <1>1, <1>2, IsSeq
<1>4. DOMAIN AsRecords(s) = 1..Len(s)
  BY DEF AsRecords
<1>5. QED
  BY <1>1, <1>3, <1>4, LenProperties

LEMMA AsRecordsConcat ==
    ASSUME NEW s \in Seq(Entries), NEW t \in Seq(Entries)
    PROVE  AsRecords(s \o t) = AsRecords(s) \o AsRecords(t)
<1>0. /\ \A i \in 1..Len(t) : (s \o t)[Len(s) + i] = t[i]
      /\ \A i \in 1..Len(s) + Len(t) : i \in 1..Len(s) \/ \E j \in 1..Len(t) : i = Len(s) + j
  BY ConcatFacts
<1> DEFINE R == [id : Entries, body : {TRUE}]
           a == AsRecords(s)
           b == AsRecords(t)
           c == AsRecords(s \o t)
<1>1. Len(s) \in Nat /\ Len(t) \in Nat /\ s \o t \in Seq(Entries) /\ Len(s \o t) = Len(s) + Len(t)
  BY SeqFacts, ConcatProperties
<1>2. a \in Seq(R) /\ b \in Seq(R) /\ c \in Seq(R) /\ Len(a) = Len(s) /\ Len(b) = Len(t)
      /\ Len(c) = Len(s) + Len(t)
  BY <1>1, AsRecordsFacts
<1>3. a \o b \in Seq(R) /\ Len(a \o b) = Len(s) + Len(t)
  BY <1>2, ConcatProperties
<1>4. /\ \A i \in 1..Len(s) : a[i] = [id |-> s[i], body |-> TRUE]
      /\ \A i \in 1..Len(t) : b[i] = [id |-> t[i], body |-> TRUE]
      /\ \A i \in 1..Len(s) + Len(t) : c[i] = [id |-> (s \o t)[i], body |-> TRUE]
  BY <1>1 DEF AsRecords
<1> HIDE DEF a, b, c, R
<1>5. ASSUME NEW i \in 1..Len(s) + Len(t) PROVE c[i] = (a \o b)[i]
  <2>1. CASE i \in 1..Len(s)
    <3>1. (a \o b)[i] = a[i] /\ (s \o t)[i] = s[i]
      BY <1>2, <2>1, ConcatFacts
    <3>2. QED
      BY <1>4, <2>1, <3>1
  <2>2. CASE \E j \in 1..Len(t) : i = Len(s) + j
    <3>1. PICK j \in 1..Len(t) : i = Len(s) + j
      BY <2>2
    <3>2. (a \o b)[Len(a) + j] = b[j]
      BY <1>2, ConcatFacts
    <3>3. (s \o t)[Len(s) + j] = t[j]
      BY <1>0
    <3>4. b[j] = [id |-> t[j], body |-> TRUE] /\ c[i] = [id |-> (s \o t)[i], body |-> TRUE]
      BY <1>4
    <3>5. QED
      BY <1>2, <3>1, <3>2, <3>3, <3>4
  <2>3. QED
    BY <1>0, <2>1, <2>2
<1>6. c = a \o b
  BY <1>2, <1>3, <1>5, SeqEqual
<1>7. QED
  BY <1>6 DEF a, b, c

\* A table without duplicates has as many rows as entries.
LEMMA RowsCounted ==
    ASSUME NEW s \in Seq(Entries), IsInjective(s)
    PROVE  Cardinality(Ids(s)) = Len(s)
<1>1. Len(s) \in Nat /\ DOMAIN s = 1..Len(s) /\ s \in [1..Len(s) -> Entries]
  BY LenProperties
<1>2. s \in [1..Len(s) -> Ids(s)]
  BY <1>1 DEF Ids, ToSet
<1>3. s \in Bijection(1..Len(s), Ids(s))
  BY <1>1, <1>2 DEF Bijection, Injection, Surjection, Ids, ToSet
<1>4. IsFiniteSet(1..Len(s)) /\ Cardinality(1..Len(s)) = Len(s)
  BY <1>1, FS_Interval
<1>5. QED
  BY <1>3, <1>4, FS_Bijection DEF ExistsBijection

ContractStep ==
    LET b == AsRecords(current)
    IN  Contract!AppendBatchOk(b) \/ Contract!AppendBatchFailed(b)
        \/ Contract!SyncOk \/ Contract!CloseBackend

LEMMA ContractRests ==
    ASSUME table' = table, acked' = acked, apc' = "closed" <=> apc = "closed"
    PROVE  UNCHANGED Contract!storeVars
BY DEF Contract!storeVars

LEMMA ContractCommit ==
    ASSUME StoreInv, Commit
    PROVE  ContractStep \/ UNCHANGED Contract!storeVars
<1>1. SQLiteTypeOK /\ WriterInv /\ apc = "insert" /\ todo = <<>> /\ StoreInv'
  BY CommitStep DEF StoreInv, Commit
<1>2. /\ writer \in Conns /\ tx[writer] # NoTx /\ tx[writer] \in Seq(Entries)
      /\ table \in Seq(Entries)
  BY <1>1, OpenTx DEF WriterInv, SQLiteTypeOK
<1>3. tx[writer] = current
  BY <1>1, <1>2, ConcatEmptySeq DEF WriterInv
<1>4. AsRecords(table \o current) = AsRecords(table) \o AsRecords(current)
  BY <1>2, <1>3, AsRecordsConcat
<1>5. CASE table' = table \o tx[writer] /\ Returned(FALSE, FALSE)
  <2>1. acked' = acked \cup Ids(current) \cup Ids(table') /\ apc' = "idle"
    BY <1>5 DEF Returned
  <2>2. acked' = Ids(table')
    BY <1>1, <2>1 DEF StoreInv, WriterInv
  <2>3. Cardinality(acked') = Len(table')
    BY <1>1, <2>2, RowsCounted DEF StoreInv, WriterInv, SQLiteTypeOK
  <2>4. Len(AsRecords(table')) = Len(table')
    BY <1>1, AsRecordsFacts DEF StoreInv, SQLiteTypeOK
  <2>5. Contract!AppendBatchOk(AsRecords(current))
    BY <1>1, <1>3, <1>4, <1>5, <2>1, <2>3, <2>4 DEF Contract!AppendBatchOk, AsRecords
  <2>6. QED
    BY <2>5 DEF ContractStep
<1>6. CASE apc' = "rollback" /\ acked' = acked /\ table' = table
  BY <1>1, <1>6, ContractRests
<1>7. CASE apc' = "rollback" /\ acked' = acked /\ table' = table \o tx[writer]
  <2>1. /\ AsRecords(current) \in Seq([id : Entries, body : {TRUE}])
        /\ Len(AsRecords(current)) \in Nat
    BY <1>2, <1>3, AsRecordsFacts, LenProperties
  <2>2. SubSeq(AsRecords(current), 1, Len(AsRecords(current))) = AsRecords(current)
    BY <2>1, SubSeqFull
  <2>3. AsRecords(table') = AsRecords(table) \o SubSeq(AsRecords(current), 1, Len(AsRecords(current)))
    BY <1>3, <1>4, <1>7, <2>2
  <2>4. Contract!AppendBatchFailed(AsRecords(current))
    <3> DEFINE b == AsRecords(current)
               n == Len(b)
    <3>1. n \in 0..n
      BY <2>1
    <3>2. AsRecords(table') = AsRecords(table) \o SubSeq(b, 1, n)
      BY <2>3
    <3> HIDE DEF b, n
    <3>3. \E k \in 0..n : (k > 0 => apc # "closed") /\ AsRecords(table') = AsRecords(table) \o SubSeq(b, 1, k)
      BY <1>1, <3>1, <3>2
    <3>4. \E k \in 0..Len(b) : (k > 0 => apc # "closed") /\ AsRecords(table') = AsRecords(table) \o SubSeq(b, 1, k)
      BY <3>3 DEF n
    <3>5. Cardinality(acked)' = Cardinality(acked) /\ (apc # "closed")' = (apc # "closed")
      BY <1>1, <1>7
    <3>6. Contract!AppendBatchFailed(b)
      BY <3>4, <3>5 DEF Contract!AppendBatchFailed, AsRecords
    <3>7. QED
      BY <3>6 DEF b
  <2>5. QED
    BY <2>4 DEF ContractStep
<1>8. QED
  BY <1>5, <1>6, <1>7 DEF Commit

LEMMA ContractNext ==
    ASSUME StoreInv, [Next]_vars
    PROVE  ContractStep \/ UNCHANGED Contract!storeVars
<1>1. CASE Migrate \/ Opened \/ AcquireConn \/ BeginTx \/ Insert \/ Rollback \/ \E b \in Batches : AppendBatch(b)
  BY <1>1, ContractRests DEF Migrate, Opened, AcquireConn, BeginTx, Insert, Rollback, AppendBatch, Returned
<1>2. CASE Commit
  BY <1>2, ContractCommit
<1>3. ASSUME NEW e \in Entries, Confirm(e) PROVE ContractStep
  <2>1. acked' = Ids(table) /\ table' = table /\ apc' = apc /\ apc = "idle"
    BY <1>3, ConfirmStep DEF Confirm
  <2>2. Cardinality(acked') = Len(table) /\ Len(AsRecords(table)) = Len(table)
    BY <2>1, RowsCounted, AsRecordsFacts DEF StoreInv, WriterInv, SQLiteTypeOK
  <2>3. Contract!SyncOk
    BY <2>1, <2>2 DEF Contract!SyncOk, AsRecords
  <2>4. QED
    BY <2>3 DEF ContractStep
<1>4. CASE Close
  BY <1>4 DEF Close, ContractStep, Contract!CloseBackend
<1>5. CASE Crash
  BY <1>5, ContractRests DEF Crash
<1>6. CASE UNCHANGED <<table, acked, apc>>
  BY <1>6, ContractRests
<1>7. CASE \/ \E p \in Principals : Unauthorized(p) \/ \E h \in Handlers : Authorized(p, h)
           \/ \E h \in Handlers : QueryStep(h)
           \/ Tick \/ UNCHANGED vars
  BY <1>6, <1>7 DEF QueryStep, Unauthorized, Authorized, QueryStarts, QueryRefused, QueryEnds, Tick, vars, sqliteVars
<1>8. QED
  BY <1>1, <1>2, <1>3, <1>4, <1>5, <1>7 DEF Next, SQLiteStep, Restart

\* The SQLite store keeps the contract of AuditStore that the audit pipeline is
\* built on, whichever statement, commit or rollback fails and whenever the process
\* ends: a batch is stored as a whole, an error leaves nothing or all of it, and
\* what was acknowledged is on disk.
THEOREM SQLiteContract == Spec => SQLiteImplementsStore
<1>1. Init => Contract!StoreInit
  <2>1. SUFFICES ASSUME Init PROVE Contract!StoreInit
    OBVIOUS
  <2>2. AsRecords(table) = <<>> /\ Cardinality(acked) = 0
    BY <2>1, FS_EmptySet DEF Init, SQLiteInit, AsRecords
  <2>3. QED
    BY <2>1, <2>2 DEF Init, SQLiteInit, Contract!StoreInit, AsRecords
<1>2. DashboardInv /\ [Next]_vars => [ContractStep]_(Contract!storeVars)
  BY DashboardParts, ContractNext
<1>3. Spec => [][ContractStep]_(Contract!storeVars)
  BY <1>2, DashboardCorrect, PTL DEF Spec
<1>4. QED
  BY <1>1, <1>3, PTL DEF Spec, SQLiteImplementsStore, ContractStep, AsRecords

-----------------------------------------------------------------------------
(* The backends agree: the order of the padded texts is the order of the   *)
(* times.  Induction is the search for the least number that fails.        *)

\* A set of numbers has a least element.
LEMMA LeastNumber ==
    ASSUME NEW S, S \subseteq Nat, S # {}
    PROVE  \E x \in S : \A y \in S : x <= y
<1>1. IsWellFoundedOn(OpToRel(<, Nat), Nat)
  BY NatLessThanWellFounded
<1>2. PICK x \in S : \A y \in S : ~(<<y, x>> \in OpToRel(<, Nat))
  BY <1>1, WFMin
<1>3. \A y \in S : y \in Nat /\ x \in Nat /\ ~(y < x)
  BY <1>2 DEF OpToRel
<1>4. QED
  BY <1>3

\* The digits of a fraction, padded.
LEMMA PaddedFacts ==
    ASSUME NEW ds \in Seq(0..9), Len(ds) <= Digits
    PROVE  /\ Padded(ds) \in Seq(0..9) /\ Len(Padded(ds)) = Digits
           /\ \A k \in 1..Digits : Padded(ds)[k] \in 0..9
<1> DEFINE zeros == [k \in 1..Digits |-> 0]
<1>1. Digits \in Nat /\ Len(ds) \in Nat
  BY SQLiteAssumption, SeqFacts
<1>2. zeros \in Seq(0..9) /\ Len(zeros) = Digits
  BY <1>1, IsASeq
<1>3. ds \o zeros \in Seq(0..9) /\ Len(ds \o zeros) = Len(ds) + Digits
  BY <1>2, ConcatProperties
<1>4. Padded(ds) \in Seq(0..9) /\ Len(Padded(ds)) = Digits
  <2>1. Padded(ds) = SubSeq(ds \o zeros, 1, Digits)
    BY DEF Padded
  <2> HIDE DEF zeros
  <2>2. QED
    BY <1>1, <1>3, <2>1, SubSeqProperties
<1>5. QED
  BY <1>4, SeqFacts

\* What RFC3339Nano writes, padded by the expression of the index, has all digits.
LEMMA TextPadded ==
    ASSUME NEW t \in Times
    PROVE  sqliteTimestamp(Text(t)) = Bound(t)
<1> DEFINE ds == t[2]
<1>1. ds \in Seq(0..9) /\ t[1] \in Int
  BY DEF Times
<1>2. SUFFICES Text(t)[1] = t[1] /\ TrimZulu(SubSeq(Text(t), 3, Len(Text(t)))) = ds
  BY DEF sqliteTimestamp, Bound
<1>3. CASE ds = <<>>
  <2>0. Text(t) = <<t[1]>> \o <<Zulu>> /\ <<t[1]>> \in Seq(Int) /\ <<Zulu>> \in Seq(Int)
    BY <1>1, <1>3 DEF Text, Zulu
  <2>1. Text(t)[1] = t[1] /\ Len(Text(t)) = 2
    BY <2>0, ConcatProperties
  <2>2. SubSeq(Text(t), 3, Len(Text(t))) = <<>>
    BY <2>1, SubSeqEmpty
  <2>3. QED
    BY <1>3, <2>1, <2>2 DEF TrimZulu
<1>4. CASE ds # <<>>
  <2> DEFINE S == Int
             x == Text(t)
             n == Len(ds)
  <2>1. ds \in Seq(S) /\ n \in Nat \ {0} /\ Len(ds) = n
    BY <1>1, <1>4, SeqFacts
  <2>2. \A k \in 1..n : ds[k] \in 0..9
    BY <1>1, SeqFacts
  <2>3. x = <<t[1]>> \o (<<Dot>> \o ds \o <<Zulu>>)
    BY <1>4 DEF Text
  <2>4. <<t[1]>> \in Seq(S) /\ <<Dot>> \in Seq(S) /\ <<Zulu>> \in Seq(S)
    BY <1>1 DEF Dot, Zulu
  <2>5. /\ x \in Seq(S) /\ Len(x) = n + 3 /\ x[1] = t[1] /\ x[n + 3] = Zulu
        /\ \A k \in 1..n : x[k + 2] = ds[k]
    <3> DEFINE u == <<t[1]>>
               v == <<Dot>>
               w == <<Zulu>>
               y == v \o ds
               z == y \o w
    <3>0. /\ u \in Seq(S) /\ Len(u) = 1 /\ u[1] = t[1]
          /\ v \in Seq(S) /\ Len(v) = 1 /\ w \in Seq(S) /\ Len(w) = 1 /\ w[1] = Zulu
      BY <2>4
    <3> HIDE DEF S, n, u, v, w
    <3>1. y \in Seq(S) /\ Len(y) = n + 1 /\ \A k \in 1..n + 1 : y[k] = IF k <= 1 THEN v[k] ELSE ds[k - 1]
      <4>1. /\ y \in Seq(S) /\ Len(y) = Len(v) + Len(ds)
            /\ \A k \in 1..Len(v) + Len(ds) : y[k] = IF k <= Len(v) THEN v[k] ELSE ds[k - Len(v)]
        BY <2>1, <3>0, ConcatProperties, Zenon
      <4> HIDE DEF y, ds
      <4>2. QED
        BY <2>1, <3>0, <4>1
    <3> HIDE DEF y
    <3>2. z \in Seq(S) /\ Len(z) = n + 2 /\ \A k \in 1..n + 2 : z[k] = IF k <= n + 1 THEN y[k] ELSE w[k - (n + 1)]
      <4>1. /\ z \in Seq(S) /\ Len(z) = Len(y) + Len(w)
            /\ \A k \in 1..Len(y) + Len(w) : z[k] = IF k <= Len(y) THEN y[k] ELSE w[k - Len(y)]
        BY <3>0, <3>1, ConcatProperties, Zenon
      <4> HIDE DEF z
      <4>2. QED
        BY <2>1, <3>0, <3>1, <4>1
    <3>3. x \in Seq(S) /\ Len(x) = n + 3 /\ \A k \in 1..n + 3 : x[k] = IF k <= 1 THEN u[k] ELSE z[k - 1]
      <4>1. x = u \o z
        BY <2>3 DEF u, v, w, y
      <4> HIDE DEF x, z
      <4>5. u \in Seq(S) /\ z \in Seq(S)
        BY <3>0, <3>2
      <4> DEFINE uz == u \o z
      <4>2. /\ uz \in Seq(S) /\ Len(uz) = Len(u) + Len(z)
            /\ \A k \in 1..Len(u) + Len(z) : uz[k] = IF k <= Len(u) THEN u[k] ELSE z[k - Len(u)]
        BY <4>5, ConcatProperties, Zenon
      <4>3. x = uz
        BY <4>1
      <4> HIDE DEF uz
      <4>4. QED
        BY <2>1, <3>0, <3>2, <4>2, <4>3
    <3> HIDE DEF x, y, z, n
    <3>4. x[1] = t[1] /\ x[n + 3] = Zulu
      <4>1. n + 3 \in 1..n + 3 /\ n + 2 \in 1..n + 2 /\ (n + 3) - 1 = n + 2 /\ (n + 2) - (n + 1) = 1 /\ 1 \in 1..n + 3
        BY <2>1
      <4>2. x[n + 3] = z[n + 2] /\ x[1] = u[1]
        BY <2>1, <3>3, <4>1
      <4>4. z[n + 2] = w[1]
        BY <2>1, <3>2, <4>1
      <4>3. QED
        BY <3>0, <4>2, <4>4
    <3>5. ASSUME NEW k \in 1..n PROVE x[k + 2] = ds[k]
      <4>1. k + 2 \in 1..n + 3 /\ ~(k + 2 <= 1) /\ (k + 2) - 1 = k + 1 /\ k + 1 \in 1..n + 2 /\ k + 1 <= n + 1 /\ k + 1 \in 1..n + 1 /\ (k + 1) - 1 = k
        BY <2>1
      <4>2. x[k + 2] = z[k + 1]
        BY <3>3, <4>1
      <4>3. z[k + 1] = y[k + 1]
        BY <2>1, <3>2, <4>1
      <4>4. y[k + 1] = ds[k]
        BY <2>1, <3>1, <4>1
      <4>5. QED
        BY <4>2, <4>3, <4>4
    <3>6. QED
      BY <3>3, <3>4, <3>5
  <2> DEFINE u == SubSeq(x, 3, Len(x))
  <2> HIDE DEF x, n
  <2>6. /\ u \in Seq(S) /\ Len(u) = n + 1 /\ \A k \in 1..n + 1 : u[k] = x[k + 2]
    <3>1. \A k \in 3..n + 3 : x[k] \in S
      BY <2>1, <2>5, SeqFacts
    <3>2. /\ u \in Seq(S) /\ Len(u) = IF 3 <= n + 3 THEN (n + 3) - 3 + 1 ELSE 0
          /\ \A k \in 1..(n + 3) - 3 + 1 : u[k] = x[3 + k - 1]
      BY <2>1, <2>5, <3>1, SubSeqProperties
    <3>3. (n + 3) - 3 + 1 = n + 1 /\ 3 <= n + 3 /\ \A k \in 1..n + 1 : 3 + k - 1 = k + 2
      BY <2>1
    <3> HIDE DEF u
    <3>4. QED
      BY <3>2, <3>3
  <2> HIDE DEF u
  <2>7. u # <<>> /\ u[Len(u)] = Zulu
    <3>1. n + 1 \in 1..n + 1 /\ (n + 1) + 2 = n + 3 /\ n + 1 # 0
      BY <2>1
    <3>2. u[n + 1] = x[n + 3]
      BY <2>6, <3>1
    <3>3. QED
      BY <2>5, <2>6, <3>1, <3>2, SeqFacts
  <2>8. TrimZulu(u) = SubSeq(u, 1, n)
    BY <2>1, <2>6, <2>7 DEF TrimZulu
  <2>9. SubSeq(u, 1, n) = ds
    <3>1. SubSeq(u, 1, n) \in Seq(S) /\ Len(SubSeq(u, 1, n)) = n /\ \A k \in 1..n : SubSeq(u, 1, n)[k] = u[k]
      BY <2>1, <2>6, SubSeqProperties
    <3>2. ASSUME NEW k \in 1..n PROVE SubSeq(u, 1, n)[k] = ds[k]
      <4>1. k \in 1..n + 1
        BY <2>1
      <4>2. QED
        BY <2>5, <2>6, <3>1, <4>1
    <3>3. QED
      BY <2>1, <3>1, <3>2, SeqEqual
  <2>10. QED
    BY <2>5, <2>8, <2>9 DEF u, x, n
<1>5. QED
  BY <1>3, <1>4

\* The recursive function Value exists, and its values are numbers.
LEMMA ValueFacts ==
    ASSUME NEW t \in Times
    PROVE  /\ \A k \in 0..Digits : Value(t)[k] \in Int
           /\ Value(t)[0] = t[1]
           /\ \A k \in 1..Digits : Value(t)[k] = 10 * Value(t)[k - 1] + Padded(t[2])[k]
<1> DEFINE P == Padded(t[2])
           G(n, v) == v = [k \in 0..n |-> IF k = 0 THEN t[1] ELSE 10 * v[k - 1] + P[k]]
           bad == {n \in 0..Digits : ~\E v : G(n, v)}
<1>1. Digits \in Nat /\ t[1] \in Int /\ \A k \in 1..Digits : P[k] \in Int
  <2>1. \A k \in 1..Digits : P[k] \in 0..9
    BY PaddedFacts DEF Times
  <2> HIDE DEF P
  <2>2. Digits \in Nat
    BY SQLiteAssumption
  <2>3. t[1] \in Int
    BY DEF Times
  <2>4. QED
    BY <2>1, <2>2, <2>3
<1> HIDE DEF P
<1>2. bad = {}
  <2>1. SUFFICES ASSUME bad # {} PROVE FALSE
    OBVIOUS
  <2>2. PICK n \in bad : \A m \in bad : n <= m
    <3>1. bad \subseteq Nat
      BY <1>1
    <3> HIDE DEF bad
    <3>2. QED
      BY <2>1, <3>1, LeastNumber
  <2>3. CASE n = 0
    <3>1. G(0, [k \in 0..0 |-> t[1]])
      OBVIOUS
    <3>2. QED
      BY <2>2, <2>3, <3>1
  <2>4. CASE n # 0
    <3>1. n \in 1..Digits /\ n - 1 \in 0..Digits /\ ~(n <= n - 1)
      BY <1>1, <2>2, <2>4
    <3>2. PICK v : G(n - 1, v)
      BY <2>2, <3>1
    <3> DEFINE w == [k \in 0..n |-> IF k = n THEN 10 * v[n - 1] + P[n] ELSE v[k]]
    <3>3. ASSUME NEW k \in 0..n PROVE w[k] = IF k = 0 THEN t[1] ELSE 10 * w[k - 1] + P[k]
      <4>1. CASE k = n
        <5>1. k # 0 /\ k - 1 \in 0..n /\ k - 1 # n /\ w[k - 1] = v[n - 1]
          BY <3>1, <4>1
        <5>2. QED
          BY <4>1, <5>1
      <4>2. CASE k # n
        <5>1. k \in 0..n - 1 /\ w[k] = v[k]
          BY <3>1, <4>2
        <5>2. v[k] = IF k = 0 THEN t[1] ELSE 10 * v[k - 1] + P[k]
          BY <3>2, <5>1
        <5>3. k # 0 => k - 1 \in 0..n /\ k - 1 # n /\ w[k - 1] = v[k - 1]
          BY <3>1, <5>1
        <5>4. QED
          BY <5>1, <5>2, <5>3
      <4>3. QED
        BY <4>1, <4>2
    <3>4. G(n, w)
      <4>1. w = [k \in 0..n |-> w[k]]
        OBVIOUS
      <4> HIDE DEF w
      <4>2. QED
        BY <3>3, <4>1
    <3> HIDE DEF G
    <3>5. QED
      BY <2>2, <3>4
  <2>5. QED
    BY <2>3, <2>4
<1>3. PICK v : G(Digits, v)
  <2>1. Digits \in 0..Digits
    BY <1>1
  <2> HIDE DEF G
  <2>2. QED
    BY <1>2, <2>1
<1>4. Value(t) = CHOOSE u : G(Digits, u)
  BY DEF Value, P
<1>5. G(Digits, Value(t))
  <2> HIDE DEF G
  <2>1. QED
    BY <1>3, <1>4
<1> DEFINE V == Value(t)
<1> HIDE DEF V
<1>6. \A k \in 0..Digits : V[k] = IF k = 0 THEN t[1] ELSE 10 * V[k - 1] + P[k]
  BY <1>5 DEF V
<1> HIDE DEF G, bad
<1>7. V[0] = t[1]
  BY <1>1, <1>6
<1>8. ASSUME NEW k \in 1..Digits PROVE V[k] = 10 * V[k - 1] + P[k]
  BY <1>1, <1>6
<1>9. \A k \in 0..Digits : V[k] \in Int
  <2> DEFINE odd == {k \in 0..Digits : V[k] \notin Int}
  <2>1. SUFFICES ASSUME odd # {} PROVE FALSE
    OBVIOUS
  <2>2. PICK n \in odd : \A m \in odd : n <= m
    <3>1. odd \subseteq Nat
      BY <1>1
    <3> HIDE DEF odd
    <3>2. QED
      BY <2>1, <3>1, LeastNumber
  <2>3. n # 0
    BY <1>1, <1>7, <2>2
  <2>4. n \in 1..Digits /\ n - 1 \in 0..Digits /\ ~(n <= n - 1)
    BY <1>1, <2>2, <2>3
  <2>5. V[n - 1] \in Int
    BY <2>2, <2>4
  <2>6. V[n] \in Int
    BY <1>1, <1>8, <2>4, <2>5
  <2>7. QED
    BY <2>2, <2>6
<1>10. QED
  BY <1>7, <1>8, <1>9 DEF V, P

\* A time that is ahead at some digit stays ahead.
LEMMA StaysAhead ==
    ASSUME NEW a \in Times, NEW b \in Times, NEW m \in 0..Digits, Value(a)[m] < Value(b)[m]
    PROVE  Instant(a) < Instant(b)
<1> DEFINE A == Value(a)
           B == Value(b)
           bad == {n \in m..Digits : ~(A[n] < B[n])}
<1>0. Digits \in Nat /\ m \in Nat
  BY SQLiteAssumption
<1>1. /\ \A k \in 0..Digits : A[k] \in Int /\ B[k] \in Int
      /\ \A k \in 1..Digits : A[k] = 10 * A[k - 1] + Padded(a[2])[k] /\ B[k] = 10 * B[k - 1] + Padded(b[2])[k]
  BY ValueFacts
<1>2. \A k \in 1..Digits : Padded(a[2])[k] \in 0..9 /\ Padded(b[2])[k] \in 0..9
  BY PaddedFacts DEF Times
<1>3. A[m] < B[m]
  OBVIOUS
<1>4. bad = {}
  <2>1. SUFFICES ASSUME bad # {} PROVE FALSE
    OBVIOUS
  <2>2. PICK n \in bad : \A l \in bad : n <= l
    <3>1. bad \subseteq Nat
      BY <1>0
    <3> HIDE DEF bad
    <3>2. QED
      BY <2>1, <3>1, LeastNumber
  <2> HIDE DEF A, B
  <2>3. n # m
    BY <1>3, <2>2
  <2>4. n \in 1..Digits /\ n - 1 \in m..Digits /\ n - 1 \in 0..Digits /\ ~(n <= n - 1)
    BY <1>0, <2>2, <2>3
  <2>5. A[n - 1] < B[n - 1]
    BY <2>2, <2>4
  <2>6. A[n] < B[n]
    <3>1. A[n - 1] \in Int /\ B[n - 1] \in Int /\ Padded(a[2])[n] \in 0..9 /\ Padded(b[2])[n] \in 0..9
      BY <1>1, <1>2, <2>4
    <3>2. A[n] = 10 * A[n - 1] + Padded(a[2])[n] /\ B[n] = 10 * B[n - 1] + Padded(b[2])[n]
      BY <1>1, <2>4
    <3>3. QED
      BY <2>5, <3>1, <3>2
  <2>7. QED
    BY <2>2, <2>6
<1>5. Digits \in m..Digits
  BY <1>0
<1>6. QED
  BY <1>4, <1>5 DEF Instant

\* Equal digits so far, equal values so far.
LEMMA SameSoFar ==
    ASSUME NEW a \in Times, NEW b \in Times, a[1] = b[1], NEW m \in 0..Digits,
           \A k \in 1..m : Padded(a[2])[k] = Padded(b[2])[k]
    PROVE  Value(a)[m] = Value(b)[m]
<1> DEFINE A == Value(a)
           B == Value(b)
           bad == {n \in 0..m : A[n] # B[n]}
<1>0. Digits \in Nat /\ m \in Nat
  BY SQLiteAssumption
<1>1. /\ A[0] = a[1] /\ B[0] = b[1]
      /\ \A k \in 1..Digits : A[k] = 10 * A[k - 1] + Padded(a[2])[k] /\ B[k] = 10 * B[k - 1] + Padded(b[2])[k]
  BY ValueFacts
<1>2. bad = {}
  <2>1. SUFFICES ASSUME bad # {} PROVE FALSE
    OBVIOUS
  <2>2. PICK n \in bad : \A l \in bad : n <= l
    <3>1. bad \subseteq Nat
      BY <1>0
    <3> HIDE DEF bad
    <3>2. QED
      BY <2>1, <3>1, LeastNumber
  <2> HIDE DEF A, B
  <2>3. n # 0
    BY <1>1, <2>2
  <2>4. n \in 1..Digits /\ n \in 1..m /\ n - 1 \in 0..m /\ ~(n <= n - 1)
    BY <1>0, <2>2, <2>3
  <2>5. A[n - 1] = B[n - 1]
    BY <2>2, <2>4
  <2>6. A[n] = B[n]
    BY <1>1, <2>4, <2>5
  <2>7. QED
    BY <2>2, <2>6
<1>3. m \in 0..m
  BY <1>0
<1>4. QED
  BY <1>2, <1>3

\* The text of a bound, character by character.
LEMMA BoundFacts ==
    ASSUME NEW t \in Times
    PROVE  /\ Bound(t) \in Seq(Int) /\ Len(Bound(t)) = Digits + 1
           /\ DOMAIN Bound(t) = 1..Digits + 1
           /\ Bound(t)[1] = t[1] /\ \A k \in 1..Digits : Bound(t)[k + 1] = Padded(t[2])[k]
<1>1. Digits \in Nat /\ <<t[1]>> \in Seq(Int) /\ Len(<<t[1]>>) = 1
  BY SQLiteAssumption DEF Times
<1>2. Padded(t[2]) \in Seq(0..9) /\ Len(Padded(t[2])) = Digits /\ \A k \in 1..Digits : Padded(t[2])[k] \in 0..9
  BY PaddedFacts DEF Times
<1>3. Padded(t[2]) \in Seq(Int)
  BY <1>1, <1>2, IsASeq, SeqFacts
<1>4. /\ Bound(t) \in Seq(Int) /\ Len(Bound(t)) = Digits + 1
      /\ DOMAIN Bound(t) = 1..1 + Digits
      /\ \A i \in 1..1 : Bound(t)[i] = <<t[1]>>[i]
      /\ \A i \in 1..Digits : Bound(t)[1 + i] = Padded(t[2])[i]
  BY <1>1, <1>2, <1>3, ConcatFacts, ConcatProperties DEF Bound
<1>5. 1 + Digits = Digits + 1 /\ 1 \in 1..1 /\ \A k \in 1..Digits : k + 1 = 1 + k
  BY <1>1
<1>6. QED
  BY <1>4, <1>5

\* A text that is less belongs to an earlier time.
LEMMA TextLessIsBefore ==
    ASSUME NEW a \in Times, NEW b \in Times, TextLess(Bound(a), Bound(b))
    PROVE  Instant(a) < Instant(b)
<1> DEFINE x == Bound(a)
           y == Bound(b)
<1>0. Digits \in Nat
  BY SQLiteAssumption
<1>1. /\ x \in Seq(Int) /\ Len(x) = Digits + 1 /\ DOMAIN x = 1..Digits + 1
      /\ y \in Seq(Int) /\ Len(y) = Digits + 1 /\ DOMAIN y = 1..Digits + 1
      /\ x[1] = a[1] /\ y[1] = b[1]
      /\ \A k \in 1..Digits : x[k + 1] = Padded(a[2])[k] /\ y[k + 1] = Padded(b[2])[k]
  BY BoundFacts
<1>2. TextLess(x, y)
  OBVIOUS
<1> HIDE DEF x, y
<1>3. ~IsStrictPrefix(x, y)
  <2>1. SubSeq(x, 1, Len(x)) = x /\ SubSeq(y, 1, Len(x)) = y
    BY <1>1, SubSeqFull
  <2>2. QED
    BY <2>1 DEF IsStrictPrefix, IsPrefix
<1>4. PICK k \in 1..Digits + 1 : x[k] < y[k] /\ \A j \in 1..k - 1 : x[j] = y[j]
  BY <1>1, <1>2, <1>3 DEF TextLess
<1> DEFINE A == Value(a)
           B == Value(b)
<1>5. /\ \A n \in 0..Digits : A[n] \in Int /\ B[n] \in Int
      /\ A[0] = a[1] /\ B[0] = b[1]
      /\ \A n \in 1..Digits : A[n] = 10 * A[n - 1] + Padded(a[2])[n] /\ B[n] = 10 * B[n - 1] + Padded(b[2])[n]
  BY ValueFacts
<1>6. \A n \in 1..Digits : Padded(a[2])[n] \in 0..9 /\ Padded(b[2])[n] \in 0..9
  BY PaddedFacts DEF Times
<1>7. k - 1 \in 0..Digits /\ A[k - 1] < B[k - 1]
  <2>1. CASE k = 1
    <3> HIDE DEF A, B
    <3>1. A[0] < B[0]
      BY <1>1, <1>4, <1>5, <2>1
    <3>2. k - 1 = 0 /\ 0 \in 0..Digits
      BY <1>0, <2>1
    <3>3. QED
      BY <3>1, <3>2
  <2>2. CASE k # 1
    <3> DEFINE n == k - 1
    <3>1. n \in 1..Digits /\ n + 1 = k /\ n - 1 \in 0..Digits /\ 1 \in 1..k - 1
      BY <1>0, <1>4, <2>2
    <3>2. a[1] = b[1]
      BY <1>1, <1>4, <3>1
    <3>3. ASSUME NEW j \in 1..n - 1 PROVE Padded(a[2])[j] = Padded(b[2])[j]
      <4>1. j \in 1..Digits /\ j + 1 \in 1..k - 1
        BY <1>0, <1>4, <3>1
      <4>2. QED
        BY <1>1, <1>4, <4>1
    <3> HIDE DEF n
    <3>4. A[n - 1] = B[n - 1]
      BY <3>1, <3>2, <3>3, SameSoFar
    <3> HIDE DEF A, B
    <3>5. Padded(a[2])[n] < Padded(b[2])[n]
      BY <1>1, <1>4, <3>1
    <3>6. A[n] < B[n]
      <4>1. A[n - 1] \in Int /\ Padded(a[2])[n] \in 0..9 /\ Padded(b[2])[n] \in 0..9
        BY <1>5, <1>6, <3>1
      <4>2. A[n] = 10 * A[n - 1] + Padded(a[2])[n] /\ B[n] = 10 * B[n - 1] + Padded(b[2])[n]
        BY <1>5, <3>1
      <4>3. QED
        BY <3>4, <3>5, <4>1, <4>2
    <3>7. n \in 0..Digits
      BY <1>0, <3>1
    <3>8. QED
      BY <3>6, <3>7 DEF n
  <2>3. QED
    BY <2>1, <2>2
<1>8. QED
  BY <1>7, StaysAhead

\* The order of the texts is the order of the times.
LEMMA TextOrder ==
    ASSUME NEW a \in Times, NEW b \in Times
    PROVE  /\ TextLess(Bound(a), Bound(b)) <=> Instant(a) < Instant(b)
           /\ Bound(a) = Bound(b) <=> Instant(a) = Instant(b)
<1> DEFINE x == Bound(a)
           y == Bound(b)
<1>0. Digits \in Nat /\ Instant(a) \in Int /\ Instant(b) \in Int
  <2>1. Digits \in Nat
    BY SQLiteAssumption
  <2>2. Digits \in 0..Digits
    BY <2>1
  <2>3. QED
    BY <2>1, <2>2, ValueFacts DEF Instant
<1>1. /\ x \in Seq(Int) /\ Len(x) = Digits + 1 /\ DOMAIN x = 1..Digits + 1
      /\ y \in Seq(Int) /\ Len(y) = Digits + 1 /\ DOMAIN y = 1..Digits + 1
      /\ x[1] = a[1] /\ y[1] = b[1]
      /\ \A k \in 1..Digits : x[k + 1] = Padded(a[2])[k] /\ y[k + 1] = Padded(b[2])[k]
  BY BoundFacts
<1>2. TextLess(x, y) => Instant(a) < Instant(b)
  BY TextLessIsBefore
<1>3. TextLess(y, x) => Instant(b) < Instant(a)
  BY TextLessIsBefore
<1> HIDE DEF x, y
<1>4. x = y => Instant(a) = Instant(b)
  <2>1. SUFFICES ASSUME x = y PROVE Instant(a) = Instant(b)
    OBVIOUS
  <2>2. a[1] = b[1] /\ (\A k \in 1..Digits : Padded(a[2])[k] = Padded(b[2])[k]) /\ Digits \in 0..Digits
    BY <1>0, <1>1, <2>1
  <2>3. QED
    BY <2>2, SameSoFar DEF Instant
<1>5. x # y => TextLess(x, y) \/ TextLess(y, x)
  <2>1. SUFFICES ASSUME x # y PROVE TextLess(x, y) \/ TextLess(y, x)
    OBVIOUS
  <2> DEFINE differ == {k \in 1..Digits + 1 : x[k] # y[k]}
  <2>2. differ # {}
    BY <1>1, <2>1, SeqEqual
  <2>3. PICK k \in differ : \A l \in differ : k <= l
    <3>1. differ \subseteq Nat
      BY <1>0
    <3> HIDE DEF differ
    <3>2. QED
      BY <2>2, <3>1, LeastNumber
  <2>4. k \in 1..Digits + 1 /\ x[k] # y[k] /\ x[k] \in Int /\ y[k] \in Int
    BY <1>1, <2>3, SeqFacts
  <2>5. ASSUME NEW j \in 1..k - 1 PROVE x[j] = y[j] /\ y[j] = x[j]
    <3>1. j \in 1..Digits + 1 /\ ~(k <= j)
      BY <1>0, <2>4
    <3>2. QED
      BY <2>3, <3>1
  <2>6. x[k] < y[k] \/ y[k] < x[k]
    BY <2>4
  <2>7. QED
    BY <1>1, <2>4, <2>5, <2>6 DEF TextLess
<1>6. QED
  BY <1>0, <1>2, <1>3, <1>4, <1>5 DEF x, y

\* Whatever was committed, SQLite answers every query as the JSONL backend does,
\* for fractions of any length: sqliteTimestamp makes the order of the texts the
\* order of the times.
THEOREM BackendsAlike == Spec => []BackendsAgree
<1>1. DashboardInv => BackendsAgree
  <2>1. SUFFICES ASSUME DashboardInv, NEW f \in Filters PROVE Query(table, f) = QueryReference(table, f)
    BY DEF BackendsAgree
  <2>2. table \in Seq(Entries)
    BY <2>1, DashboardParts DEF StoreInv, SQLiteTypeOK
  <2> DEFINE time(k) == Instant(TimeOf[table[k]])
             text(k) == TextOf(table[k])
             sHits == {k \in 1..Len(table) :
                          /\ table[k] \in f.match
                          /\ f.from # <<>> => ~TextLess(text(k), Bound(f.from))
                          /\ f.to # <<>> => ~TextLess(Bound(f.to), text(k))}
             sBefore(j, k) == TextLess(text(k), text(j)) \/ (text(j) = text(k) /\ j < k)
             jHits == {k \in 1..Len(table) :
                          /\ table[k] \in f.match
                          /\ f.from # <<>> => ~(time(k) < Instant(f.from))
                          /\ f.to # <<>> => ~(time(k) > Instant(f.to))}
             jBefore(j, k) == time(j) > time(k) \/ (time(j) = time(k) /\ j < k)
  <2>3. \A k \in 1..Len(table) : TimeOf[table[k]] \in Times /\ text(k) = Bound(TimeOf[table[k]])
    BY <2>2, SeqFacts, TextPadded, SQLiteAssumption DEF TextOf
  <2>4. ASSUME NEW t \in Times, NEW u \in Times
        PROVE  /\ TextLess(Bound(t), Bound(u)) <=> Instant(t) < Instant(u)
               /\ Bound(t) = Bound(u) <=> Instant(t) = Instant(u)
               /\ Instant(t) < Instant(u) <=> Instant(u) > Instant(t)
    BY TextOrder
  <2>5. f.from \in Times \cup {<<>>} /\ f.to \in Times \cup {<<>>}
    BY SQLiteAssumption
  <2>6. ASSUME NEW k \in 1..Len(table)
        PROVE  /\ f.from # <<>> => (TextLess(text(k), Bound(f.from)) <=> time(k) < Instant(f.from))
               /\ f.to # <<>> => (TextLess(Bound(f.to), text(k)) <=> time(k) > Instant(f.to))
    BY <2>3, <2>4, <2>5
  <2>7. sHits = jHits
    BY <2>6
  <2>8. ASSUME NEW j \in 1..Len(table), NEW k \in 1..Len(table)
        PROVE  sBefore(j, k) <=> jBefore(j, k)
    BY <2>3, <2>4
  <2>9. ASSUME NEW k \in jHits PROVE {j \in jHits : sBefore(j, k)} = {j \in jHits : jBefore(j, k)}
    BY <2>8
  <2>10. Sorted(table, sHits, sBefore) = Sorted(table, jHits, jBefore)
    <3> DEFINE sPick(n) == CHOOSE k \in jHits : Cardinality({j \in jHits : sBefore(j, k)}) = n - 1
               jPick(n) == CHOOSE k \in jHits : Cardinality({j \in jHits : jBefore(j, k)}) = n - 1
    <3>1. Sorted(table, jHits, sBefore) = Sorted(table, jHits, jBefore)
      <4>1. ASSUME NEW n \in 1..Cardinality(jHits)
            PROVE  sPick(n) = jPick(n)
        <5> HIDE DEF jHits, sBefore, jBefore
        <5>1. \A k : (k \in jHits /\ Cardinality({j \in jHits : sBefore(j, k)}) = n - 1)
                        <=> (k \in jHits /\ Cardinality({j \in jHits : jBefore(j, k)}) = n - 1)
          BY <2>9
        <5>2. QED
          BY <5>1
      <4> HIDE DEF jHits, sBefore, jBefore
      <4>2. /\ Sorted(table, jHits, sBefore) = [n \in 1..Cardinality(jHits) |-> table[sPick(n)]]
            /\ Sorted(table, jHits, jBefore) = [n \in 1..Cardinality(jHits) |-> table[jPick(n)]]
        BY Zenon DEF Sorted
      <4> HIDE DEF sPick, jPick
      <4>3. QED
        BY <4>1, <4>2, Zenon
    <3>2. QED
      BY <2>7, <3>1
  <2>11. QED
    BY <2>10 DEF Query, QueryReference
<1>2. QED
  BY <1>1, DashboardCorrect, PTL
=============================================================================
