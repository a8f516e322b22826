----------------------------- MODULE JSONLProofs ----------------------------
(***************************************************************************)
(* The JSONL store, for every configuration, number of entries and batch   *)
(* size, every failing file operation and crash: its invariant, the        *)
(* survival of what a durable store acknowledged, the strict lookup, the   *)
(* order in which a query reads the entries of successive writes, and      *)
(* the contract of the backends.                                           *)
(*                                                                         *)
(* A call changes the contents of the active file, then the directory by a *)
(* rename, a creation and removals, and then a directory sync may narrow   *)
(* what a crash exposes.  The invariant is stated for any files and        *)
(* directories (DiskInv), so that each of these is a lemma of its own.     *)
(*                                                                         *)
(* The name of a new archive may be that of another, when Stat fails: what *)
(* the other holds is then gone (Lost), and the rest stays.                *)
(*                                                                         *)
(* The order rests on the names: the archives of the latest second are     *)
(* numbered without a gap (Consecutive).  As long as the clock shows that  *)
(* second and no archive is overwritten (Undisturbed), a rotation gives    *)
(* the active file a name that sorts after every archive, and what a query *)
(* visited first it still visits first.  The contract adds that a query    *)
(* reads each record by its rank among the records it visits, and that a   *)
(* write adds last ranks.                                                  *)
(***************************************************************************)
EXTENDS JSONLStore, SequenceTheorems, FiniteSetTheorems, WellFoundedInduction, TLAPS

-----------------------------------------------------------------------------
(* Numbers and names.                                                      *)

\* A finite set of numbers has a greatest element.
LEMMA MaxExists ==
    ASSUME NEW S, IsFiniteSet(S), S \subseteq Nat, S # {}
    PROVE  \E x \in S : \A y \in S : x >= y
<1> DEFINE T == {X \in SUBSET S : X # {} /\ ~\E x \in X : \A y \in X : x >= y}
<1>1. SUFFICES ASSUME T # {} PROVE FALSE
  OBVIOUS
<1>2. IsWellFoundedOn(StrictSubsetOrdering(S), SUBSET S)
  BY FS_StrictSubsetOrderingWellFounded, FS_FiniteSubsetsOfFinite
<1>3. PICK X \in T : \A Y \in T : <<Y, X>> \notin StrictSubsetOrdering(S)
  <2>1. T \subseteq SUBSET S
    OBVIOUS
  <2> HIDE DEF T
  <2>2. QED
    BY <1>1, <1>2, <2>1, WFMin
<1>4. PICK x \in X : TRUE
  BY <1>3
<1>5. X \ {x} \notin T
  <2>1. <<X \ {x}, X>> \in StrictSubsetOrdering(S)
    BY <1>3, <1>4 DEF StrictSubsetOrdering
  <2>2. QED
    BY <1>3, <2>1
<1>6. CASE X \ {x} = {}
  BY <1>3, <1>4, <1>6
<1>7. CASE X \ {x} # {}
  <2>1. PICK y \in X \ {x} : \A z \in X \ {x} : y >= z
    BY <1>3, <1>5, <1>7
  <2>2. x \in Nat /\ y \in Nat /\ \A z \in X : z \in Nat
    BY <1>3, <1>4, <2>1
  <2>3. CASE x >= y
    BY <1>3, <1>4, <2>1, <2>2, <2>3
  <2>4. CASE y >= x
    BY <1>3, <1>4, <2>1, <2>2, <2>4
  <2>5. QED
    BY <2>2, <2>3, <2>4
<1>8. QED
  BY <1>6, <1>7

\* The greater of two numbers.
LEMMA MaxOfTwo ==
    ASSUME NEW x \in Nat, NEW y \in Nat
    PROVE  Max({x, y}) \in Nat /\ x <= Max({x, y}) /\ y <= Max({x, y})
<1>1. CASE x >= y
  <2>1. x \in {x, y} /\ \A z \in {x, y} : x >= z
    BY <1>1
  <2>2. QED
    BY <2>1 DEF Max
<1>2. CASE y >= x
  <2>1. y \in {x, y} /\ \A z \in {x, y} : y >= z
    BY <1>2
  <2>2. QED
    BY <2>1 DEF Max
<1>3. QED
  BY <1>1, <1>2

\* A new inode is new.
LEMMA NewInodeFacts ==
    ASSUME NEW fs, IsFiniteSet(DOMAIN fs), DOMAIN fs \subseteq Nat
    PROVE  NewInode(fs) \in Nat /\ NewInode(fs) \notin DOMAIN fs
<1> DEFINE S == DOMAIN fs \cup {0}
<1>1. IsFiniteSet(S) /\ S \subseteq Nat /\ S # {} /\ {0} \cup DOMAIN fs = S
  BY FS_AddElement
<1>2. \E x \in S : \A y \in S : x >= y
  BY <1>1, MaxExists
<1>3. Max(S) \in S /\ \A y \in S : Max(S) >= y
  BY <1>2 DEF Max
<1>4. NewInode(fs) = 1 + Max(S)
  BY <1>1 DEF NewInode
<1>5. PICK m \in Nat : NewInode(fs) = m + 1 /\ \A y \in DOMAIN fs : m >= y /\ y \in Nat
  BY <1>1, <1>3, <1>4
<1>6. QED
  BY <1>5

\* The name a rotation gives to the active file: the lower suffixes of its second are
\* taken.
LEMMA NextArchiveFacts ==
    ASSUME NEW d, IsFiniteSet(DOMAIN d), NEW t \in Nat, NEW fault,
           NEW name \in nextArchivePath(d, t, fault)
    PROVE  /\ name \in Nat \X Nat /\ name # Active
           /\ name[1] = t /\ \A m \in 0..name[2] - 1 : <<t, m>> \in DOMAIN d
<1>1. PICK n \in 0..Cardinality(DOMAIN d) :
         name = <<t, n>> /\ \A m \in 0..n - 1 : <<t, m>> \in DOMAIN d
  BY DEF nextArchivePath
<1>2. n \in Nat
  BY FS_CardinalityType
<1>3. <<t, n>> # <<>>
  OBVIOUS
<1>4. QED
  BY <1>1, <1>2, <1>3 DEF Active


-----------------------------------------------------------------------------
(* Lines.                                                                  *)

LEMMA SeqFacts ==
    ASSUME NEW S, NEW s \in Seq(S)
    PROVE  /\ Len(s) \in Nat /\ DOMAIN s = 1..Len(s)
           /\ \A k \in 1..Len(s) : s[k] \in S
BY LenProperties, ElementOfSeq

LEMMA ConcatFacts ==
    ASSUME NEW S, NEW s \in Seq(S), NEW t \in Seq(S)
    PROVE  /\ s \o t \in Seq(S) /\ Len(s \o t) = Len(s) + Len(t)
           /\ \A k \in 1..Len(s) : (s \o t)[k] = s[k]
           /\ \A k \in 1..Len(t) : (s \o t)[Len(s) + k] = t[k]
<1>1. Len(s) \in Nat /\ Len(t) \in Nat
  BY SeqFacts
<1>2. /\ s \o t \in Seq(S) /\ Len(s \o t) = Len(s) + Len(t)
      /\ \A i \in 1..Len(s) + Len(t) : (s \o t)[i] = IF i <= Len(s) THEN s[i] ELSE t[i - Len(s)]
  BY ConcatProperties
<1>3. ASSUME NEW k \in 1..Len(t) PROVE (s \o t)[Len(s) + k] = t[k]
  <2>1. Len(s) + k \in 1..Len(s) + Len(t) /\ ~(Len(s) + k <= Len(s)) /\ (Len(s) + k) - Len(s) = k
    BY <1>1
  <2>2. QED
    BY <1>2, <2>1
<1>4. QED
  BY <1>1, <1>2, <1>3

LEMMA InMentioned ==
    ASSUME NEW c, NEW e
    PROVE  e \in Mentioned(c) <=> \E k \in 1..Len(c) : e \in c[k].ids
BY DEF Mentioned

LEMMA InIds ==
    ASSUME NEW c, NEW e
    PROVE  e \in Ids(c) <=> \E k \in 1..Len(c) : c[k].whole /\ e \in c[k].ids
BY InMentioned DEF Ids, Documents

LEMMA EmptyContent ==
    /\ <<>> \in Seq(Lines) /\ Len(<<>>) = 0
    /\ Mentioned(<<>>) = {} /\ Ids(<<>>) = {}
<1>1. <<>> \in Seq(Lines) /\ Len(<<>>) = 0 /\ 1..0 = {}
  BY EmptySeq
<1>2. QED
  BY <1>1, InMentioned, InIds

LEMMA DocumentFacts ==
    ASSUME NEW e
    PROVE  /\ Document(e).ids = {e} /\ Document(e).whole /\ Document(e).nl
           /\ e \in Entries => Document(e) \in Lines
BY DEF Document, Lines

\* The lines x are what is put out of the batch b, or of the first part of it.
Writes(x, b) ==
    /\ x \in Seq(Lines) /\ Len(x) <= Len(b)
    /\ \A k \in 1..Len(x) : x[k].ids = {b[k]}
    /\ Tidy(x)

LEMMA EncodedWrites ==
    ASSUME NEW b \in Seq(Entries)
    PROVE  /\ Writes(Encoded(b), b) /\ Len(Encoded(b)) = Len(b)
           /\ \A k \in 1..Len(b) : Encoded(b)[k] = Document(b[k])
<1>1. Len(b) \in Nat /\ \A k \in 1..Len(b) : b[k] \in Entries
  BY SeqFacts
<1>2. \A k \in 1..Len(b) : Document(b[k]) \in Lines
  BY <1>1, DocumentFacts
<1>3. Encoded(b) \in Seq(Lines) /\ Len(Encoded(b)) = Len(b)
      /\ \A k \in 1..Len(b) : Encoded(b)[k] = Document(b[k])
  BY <1>1, <1>2, IsASeq, LenProperties DEF Encoded
<1>4. QED
  BY <1>1, <1>3, DocumentFacts DEF Writes, Tidy

LEMMA TornWrites ==
    ASSUME NEW b \in Seq(Entries), NEW x \in Torn(b)
    PROVE  Writes(x, b)
<1> DEFINE ls == Encoded(b)
<1>1. /\ ls \in Seq(Lines) /\ Len(ls) = Len(b) /\ Len(b) \in Nat
      /\ \A k \in 1..Len(b) : ls[k] = Document(b[k]) /\ b[k] \in Entries
  BY EncodedWrites, SeqFacts DEF Writes
<1> HIDE DEF ls
<1>2. ASSUME NEW k \in 0..Len(b)
      PROVE  /\ SubSeq(ls, 1, k) \in Seq(Lines) /\ Len(SubSeq(ls, 1, k)) = k
             /\ \A j \in 1..k : SubSeq(ls, 1, k)[j] = Document(b[j])
  <2>1. \A j \in 1..k : j \in 1..Len(b) /\ 1 + j - 1 = j
    BY <1>1
  <2>2. /\ SubSeq(ls, 1, k) \in Seq(Lines)
        /\ Len(SubSeq(ls, 1, k)) = IF 1 <= k THEN k - 1 + 1 ELSE 0
        /\ \A j \in 1..k - 1 + 1 : SubSeq(ls, 1, k)[j] = ls[1 + j - 1]
    BY <1>1, <2>1, SubSeqProperties
  <2>3. QED
    BY <1>1, <2>1, <2>2
<1>3. CASE \E k \in 0..Len(b) - 1 : x = SubSeq(ls, 1, k)
  <2>1. PICK k \in 0..Len(b) - 1 : x = SubSeq(ls, 1, k)
    BY <1>3
  <2>2. k \in 0..Len(b)
    BY <1>1
  <2>3. x \in Seq(Lines) /\ Len(x) = k /\ \A j \in 1..k : x[j] = Document(b[j])
    BY <1>2, <2>1, <2>2
  <2>4. k <= Len(b)
    BY <1>1, <2>2
  <2>5. QED
    BY <2>3, <2>4, DocumentFacts DEF Writes, Tidy
<1>4. CASE \E k \in 1..Len(b) : \E l \in Unterminated(b[k]) : x = Append(SubSeq(ls, 1, k - 1), l)
  <2>0. PICK k \in 1..Len(b) : \E l \in Unterminated(b[k]) : x = Append(SubSeq(ls, 1, k - 1), l)
    BY <1>4
  <2>1. PICK l \in Unterminated(b[k]) : x = Append(SubSeq(ls, 1, k - 1), l)
    BY <2>0
  <2> DEFINE s == SubSeq(ls, 1, k - 1)
  <2>2. k - 1 \in 0..Len(b)
    BY <1>1
  <2>3. s \in Seq(Lines) /\ Len(s) = k - 1 /\ \A j \in 1..k - 1 : s[j] = Document(b[j])
    BY <1>2, <2>2
  <2>4. l \in Lines /\ l.ids = {b[k]} /\ ~l.nl
    <3>1. PICK w \in BOOLEAN : l = [ids |-> {b[k]}, whole |-> w, nl |-> FALSE]
      BY <2>1 DEF Unterminated
    <3>2. b[k] \in Entries /\ FALSE \in BOOLEAN
      BY <1>1
    <3>3. l \in [ids : SUBSET Entries, whole : BOOLEAN, nl : BOOLEAN]
      BY <3>1, <3>2
    <3>4. QED
      BY <3>1, <3>2, <3>3 DEF Lines
  <2> HIDE DEF s
  <2>5. /\ x \in Seq(Lines) /\ Len(x) = k /\ x[k] = l
        /\ \A j \in 1..k - 1 : x[j] = s[j]
    BY <1>1, <2>1, <2>3, <2>4, AppendProperties DEF s
  <2>6. (\A j \in 1..k : j = k \/ j \in 1..k - 1) /\ k <= Len(b)
    BY <1>1
  <2>7. \A j \in 1..k - 1 : x[j] = Document(b[j])
    BY <2>3, <2>5
  <2>8. \A j \in 1..k : x[j].ids = {b[j]}
    BY <2>4, <2>5, <2>6, <2>7, DocumentFacts
  <2>9. Tidy(x)
    BY <2>4, <2>5, <2>6, <2>7, DocumentFacts DEF Tidy
  <2>10. QED
    BY <2>5, <2>6, <2>8, <2>9 DEF Writes
<1>5. QED
  BY <1>3, <1>4 DEF Torn, ls

\* Lines x put behind content c: a document of the result is one of c, at its place,
\* or one of x, and a record that c or x has bytes of is mentioned.
LEMMA GlueFacts ==
    ASSUME NEW c \in Seq(Lines), NEW x \in Seq(Lines)
    PROVE  LET g == Glue(c, x)
               o == Len(g) - Len(x)
           IN  /\ g \in Seq(Lines) /\ Len(g) \in Nat /\ o \in Int
               /\ Mentioned(g) = Mentioned(c) \cup Mentioned(x)
               /\ CleanTail(c) => g = c \o x
               /\ \A k \in 1..Len(g) : g[k].whole =>
                     \/ k \in 1..Len(c) /\ g[k] = c[k]
                     \/ k - o \in 1..Len(x) /\ g[k] = x[k - o]
<1> DEFINE g == Glue(c, x)
           o == Len(g) - Len(x)
<1>1. Len(c) \in Nat /\ Len(x) \in Nat
  BY SeqFacts
<1>2. CASE CleanTail(c) \/ x = <<>>
  <2>1. g = c \o x
    BY <1>2 DEF Glue
  <2>2. /\ g \in Seq(Lines) /\ Len(g) = Len(c) + Len(x)
        /\ \A k \in 1..Len(c) : g[k] = c[k]
        /\ \A k \in 1..Len(x) : g[Len(c) + k] = x[k]
    BY <2>1, ConcatFacts
  <2> HIDE DEF g
  <2>3. \A k \in 1..Len(g) : k \in 1..Len(c) \/ (k - Len(c) \in 1..Len(x) /\ Len(c) + (k - Len(c)) = k)
    BY <1>1, <2>2
  <2>4. \A k \in 1..Len(g) : \/ k \in 1..Len(c) /\ g[k] = c[k]
                             \/ k - Len(c) \in 1..Len(x) /\ g[k] = x[k - Len(c)]
    BY <2>2, <2>3
  <2>5. /\ \A k \in 1..Len(c) : k \in 1..Len(g)
        /\ \A k \in 1..Len(x) : Len(c) + k \in 1..Len(g)
    BY <1>1, <2>2
  <2>6. ASSUME NEW e PROVE e \in Mentioned(g) <=> e \in Mentioned(c) \cup Mentioned(x)
    <3>1. ASSUME NEW k \in 1..Len(g), e \in g[k].ids PROVE e \in Mentioned(c) \cup Mentioned(x)
      BY <2>4, <3>1, InMentioned
    <3>2. ASSUME NEW k \in 1..Len(c), e \in c[k].ids PROVE e \in Mentioned(g)
      BY <2>2, <2>5, <3>2, InMentioned
    <3>3. ASSUME NEW k \in 1..Len(x), e \in x[k].ids PROVE e \in Mentioned(g)
      <4>1. e \in g[Len(c) + k].ids /\ Len(c) + k \in 1..Len(g)
        BY <2>2, <2>5, <3>3
      <4>2. QED
        BY <4>1, InMentioned
    <3>4. QED
      BY <3>1, <3>2, <3>3, InMentioned
  <2>7. o = Len(c) /\ Len(g) \in Nat /\ o \in Int
    BY <1>1, <2>2
  <2>8. QED
    BY <2>1, <2>2, <2>4, <2>6, <2>7 DEF g
<1>3. CASE ~CleanTail(c) /\ x # <<>>
  <2> DEFINE n == Len(c)
             l == [ids |-> c[n].ids \cup x[1].ids, whole |-> FALSE, nl |-> x[1].nl]
             h == [c EXCEPT ![n] = l]
  <2>1. n \in 1..n /\ 1 \in 1..Len(x)
    BY <1>1, <1>3, EmptySeq, SeqEqual, LenProperties DEF CleanTail
  <2>2. l \in Lines
    <3>1. c[n] \in Lines /\ x[1] \in Lines
      BY <2>1, SeqFacts
    <3>2. c[n].ids \cup x[1].ids \in SUBSET Entries /\ x[1].nl \in BOOLEAN
      BY <3>1 DEF Lines
    <3>3. QED
      BY <3>2 DEF Lines
  <2>3. g = h \o Tail(x)
    BY <1>3 DEF Glue
  <2> HIDE DEF l
  <2>4. h \in Seq(Lines) /\ Len(h) = n /\ h[n] = l /\ \A k \in 1..n - 1 : h[k] = c[k]
    BY <1>1, <2>1, <2>2, ExceptSeq, LenProperties
  <2>5. /\ Tail(x) \in Seq(Lines) /\ Len(Tail(x)) = Len(x) - 1
        /\ \A k \in 1..Len(x) - 1 : Tail(x)[k] = x[k + 1]
    BY <1>1, <1>3, <2>1, HeadTailProperties
  <2> HIDE DEF h, g, n
  <2>6. /\ g \in Seq(Lines) /\ Len(g) = n + (Len(x) - 1)
        /\ \A k \in 1..n : g[k] = h[k]
        /\ \A k \in 1..Len(x) - 1 : g[n + k] = x[k + 1]
    <3> DEFINE t == Tail(x)
    <3>1. t \in Seq(Lines) /\ g = h \o t
      BY <2>3, <2>5
    <3> HIDE DEF t
    <3>2. /\ g \in Seq(Lines) /\ Len(g) = Len(h) + Len(t)
          /\ \A k \in 1..Len(h) : g[k] = h[k]
          /\ \A k \in 1..Len(t) : g[Len(h) + k] = t[k]
      <4>1. h \in Seq(Lines) /\ t \in Seq(Lines)
        BY <2>4, <3>1
      <4>2. /\ h \o t \in Seq(Lines) /\ Len(h \o t) = Len(h) + Len(t)
            /\ \A k \in 1..Len(h) : (h \o t)[k] = h[k]
            /\ \A k \in 1..Len(t) : (h \o t)[Len(h) + k] = t[k]
        BY <4>1, ConcatFacts
      <4>3. QED
        BY <3>1, <4>2
    <3>3. Len(t) = Len(x) - 1 /\ \A k \in 1..Len(x) - 1 : t[k] = x[k + 1]
      BY <2>5 DEF t
    <3>4. QED
      BY <2>4, <3>2, <3>3
  <2> USE DEF n
  <2>7. /\ g[n] = l /\ \A k \in 1..n - 1 : g[k] = c[k]
        /\ \A k \in 2..Len(x) : g[n - 1 + k] = x[k]
    <3>1. \A k \in 1..n - 1 : k \in 1..n
      BY <1>1
    <3>2. ASSUME NEW k \in 2..Len(x) PROVE g[n - 1 + k] = x[k]
      <4>1. k - 1 \in 1..Len(x) - 1 /\ n + (k - 1) = n - 1 + k /\ (k - 1) + 1 = k
        BY <1>1
      <4>2. QED
        BY <2>6, <4>1
    <3>3. QED
      BY <2>1, <2>4, <2>6, <3>1, <3>2
  <2>8. o = n - 1 /\ Len(g) \in Nat /\ o \in Int
    BY <1>1, <2>1, <2>6
  <2>9. \A k \in 1..Len(g) : \/ k \in 1..n - 1 /\ k \in 1..n
                             \/ k = n
                             \/ k - o \in 2..Len(x) /\ k - o \in 1..Len(x) /\ n - 1 + (k - o) = k
    <3>1. \A k \in 1..Len(g) : \/ k \in 1..n - 1 /\ k \in 1..n
                               \/ k = n
                               \/ /\ k - (n - 1) \in 2..Len(x) /\ k - (n - 1) \in 1..Len(x)
                                  /\ n - 1 + (k - (n - 1)) = k
      BY <1>1, <2>1, <2>6
    <3>2. QED
      BY <2>8, <3>1
  <2>10. ~l.whole /\ l.ids = c[n].ids \cup x[1].ids
    BY DEF l
  <2>11. ASSUME NEW k \in 1..Len(g), g[k].whole
         PROVE  \/ k \in 1..n /\ g[k] = c[k]
                \/ k - o \in 1..Len(x) /\ g[k] = x[k - o]
    BY <2>7, <2>9, <2>10, <2>11
  <2>12. ASSUME NEW e PROVE e \in Mentioned(g) <=> e \in Mentioned(c) \cup Mentioned(x)
    <3>1. ASSUME NEW k \in 1..Len(g), e \in g[k].ids PROVE e \in Mentioned(c) \cup Mentioned(x)
      <4>1. CASE k \in 1..n - 1 /\ k \in 1..n
        BY <2>7, <3>1, <4>1, InMentioned
      <4>2. CASE k = n
        BY <2>1, <2>7, <2>10, <3>1, <4>2, InMentioned
      <4>3. CASE k - o \in 2..Len(x) /\ k - o \in 1..Len(x) /\ n - 1 + (k - o) = k
        BY <2>7, <3>1, <4>3, InMentioned
      <4>4. QED
        BY <2>9, <4>1, <4>2, <4>3
    <3>2. ASSUME NEW k \in 1..n, e \in c[k].ids PROVE e \in Mentioned(g)
      <4>1. k \in 1..Len(g) /\ (k = n \/ k \in 1..n - 1)
        BY <1>1, <2>1, <2>6
      <4>2. e \in g[k].ids
        BY <2>7, <2>10, <3>2, <4>1
      <4>3. QED
        BY <4>1, <4>2, InMentioned
    <3>3. ASSUME NEW k \in 1..Len(x), e \in x[k].ids PROVE e \in Mentioned(g)
      <4>1. n \in 1..Len(g) /\ (k = 1 \/ (k \in 2..Len(x) /\ n - 1 + k \in 1..Len(g)))
        BY <1>1, <2>1, <2>6
      <4>2. e \in g[n].ids \/ (n - 1 + k \in 1..Len(g) /\ e \in g[n - 1 + k].ids)
        BY <2>7, <2>10, <3>3, <4>1
      <4>3. QED
        BY <4>1, <4>2, InMentioned
    <3>4. QED
      BY <3>1, <3>2, <3>3, InMentioned
  <2>13. QED
    BY <1>3, <2>6, <2>8, <2>11, <2>12 DEF g
<1>4. QED
  BY <1>2, <1>3

\* e has at most one document in c.
One(e, c) == \A k, l \in Documents(e, c) : k = l

\* g is content c with records of b behind it.
Grown(g, c, b) ==
    /\ g \in Seq(Lines)
    /\ Mentioned(c) \subseteq Mentioned(g) /\ Mentioned(g) \subseteq Mentioned(c) \cup ToSet(b)
    /\ Ids(g) \subseteq Ids(c) \cup ToSet(b)
    /\ \A e : One(e, c) /\ (e \in ToSet(b) => e \notin Ids(c)) => One(e, g)
    /\ Sound(c) => Tidy(g) /\ ToSet(c) \subseteq ToSet(g)

LEMMA GrownSame ==
    ASSUME NEW c \in Seq(Lines), NEW b
    PROVE  Grown(c, c, b)
BY DEF Grown, Sound, Tidy

LEMMA GlueGrown ==
    ASSUME NEW c \in Seq(Lines), NEW b \in Seq(Entries), IsInjective(b), NEW x, Writes(x, b)
    PROVE  Grown(Glue(c, x), c, b)
<1> DEFINE g == Glue(c, x)
           o == Len(g) - Len(x)
<1>1. /\ Len(c) \in Nat /\ Len(x) \in Nat /\ Len(b) \in Nat /\ DOMAIN b = 1..Len(b)
      /\ x \in Seq(Lines) /\ Len(x) <= Len(b) /\ \A k \in 1..Len(x) : x[k].ids = {b[k]} /\ k \in 1..Len(b)
  BY SeqFacts DEF Writes
<1>2. /\ g \in Seq(Lines) /\ Len(g) \in Nat /\ o \in Int
      /\ Mentioned(g) = Mentioned(c) \cup Mentioned(x)
      /\ CleanTail(c) => g = c \o x
      /\ \A k \in 1..Len(g) : g[k].whole =>
            \/ k \in 1..Len(c) /\ g[k] = c[k]
            \/ k - o \in 1..Len(x) /\ g[k] = x[k - o]
  BY <1>1, GlueFacts
<1> HIDE DEF g, o
<1>3. \A k \in 1..Len(x) : b[k] \in ToSet(b)
  BY <1>1 DEF ToSet
<1>4. Mentioned(x) \subseteq ToSet(b)
  BY <1>1, <1>3, InMentioned
<1>5. Ids(g) \subseteq Ids(c) \cup ToSet(b)
  <2>1. ASSUME NEW e, NEW k \in 1..Len(g), g[k].whole, e \in g[k].ids
        PROVE  e \in Ids(c) \cup ToSet(b)
    <3>1. CASE k \in 1..Len(c) /\ g[k] = c[k]
      BY <2>1, <3>1, InIds
    <3>2. CASE k - o \in 1..Len(x) /\ g[k] = x[k - o]
      BY <1>1, <1>3, <2>1, <3>2
    <3>3. QED
      BY <1>2, <2>1, <3>1, <3>2
  <2>2. QED
    BY <2>1, InIds
<1>6. ASSUME NEW e, One(e, c), e \in ToSet(b) => e \notin Ids(c),
             NEW k \in Documents(e, g), NEW l \in Documents(e, g)
      PROVE  k = l
  <2>1. /\ k \in 1..Len(g) /\ g[k].whole /\ e \in g[k].ids
        /\ l \in 1..Len(g) /\ g[l].whole /\ e \in g[l].ids
    BY <1>6 DEF Documents
  <2>2. \/ k \in Documents(e, c) /\ e \in Ids(c)
        \/ k - o \in 1..Len(x) /\ e = b[k - o] /\ e \in ToSet(b)
    <3>1. CASE k \in 1..Len(c) /\ g[k] = c[k]
      BY <2>1, <3>1, InIds DEF Documents
    <3>2. CASE k - o \in 1..Len(x) /\ g[k] = x[k - o]
      BY <1>1, <1>3, <2>1, <3>2
    <3>3. QED
      BY <1>2, <2>1, <3>1, <3>2
  <2>3. \/ l \in Documents(e, c) /\ e \in Ids(c)
        \/ l - o \in 1..Len(x) /\ e = b[l - o] /\ e \in ToSet(b)
    <3>1. CASE l \in 1..Len(c) /\ g[l] = c[l]
      BY <2>1, <3>1, InIds DEF Documents
    <3>2. CASE l - o \in 1..Len(x) /\ g[l] = x[l - o]
      BY <1>1, <1>3, <2>1, <3>2
    <3>3. QED
      BY <1>2, <2>1, <3>1, <3>2
  <2>4. CASE k \in Documents(e, c) /\ l \in Documents(e, c)
    BY <1>6, <2>4 DEF One
  <2>5. CASE /\ k - o \in 1..Len(x) /\ e = b[k - o]
             /\ l - o \in 1..Len(x) /\ e = b[l - o]
    <3>1. k - o = l - o
      BY <1>1, <2>5 DEF IsInjective
    <3>2. k \in Int /\ l \in Int
      BY <2>1
    <3>3. QED
      BY <1>2, <3>1, <3>2
  <2>6. QED
    BY <1>6, <2>2, <2>3, <2>4, <2>5
<1>7. ASSUME Sound(c) PROVE Tidy(g) /\ ToSet(c) \subseteq ToSet(g)
  <2>1. CleanTail(c)
    <3>1. ASSUME c # <<>> PROVE Len(c) \in 1..Len(c)
      BY <1>1, <3>1, EmptySeq, SeqEqual
    <3>2. QED
      BY <1>7, <3>1 DEF CleanTail, Sound
  <2>2. /\ Len(g) = Len(c) + Len(x)
        /\ \A k \in 1..Len(c) : g[k] = c[k]
        /\ \A k \in 1..Len(x) : g[Len(c) + k] = x[k]
    BY <1>1, <1>2, <2>1, ConcatFacts
  <2>3. ASSUME NEW k \in 1..Len(g), k < Len(g) \/ g[k].nl PROVE g[k].whole /\ g[k].nl
    <3>1. CASE k \in 1..Len(c)
      BY <1>7, <2>2, <3>1 DEF Sound
    <3>2. CASE k \notin 1..Len(c)
      <4>1. k - Len(c) \in 1..Len(x) /\ Len(c) + (k - Len(c)) = k
            /\ (k < Len(g) => k - Len(c) < Len(x))
        BY <1>1, <2>2, <3>2
      <4>2. g[k] = x[k - Len(c)]
        BY <2>2, <4>1
      <4>3. QED
        BY <2>3, <4>1, <4>2 DEF Writes, Tidy
    <3>3. QED
      BY <3>1, <3>2
  <2>4. ToSet(c) \subseteq ToSet(g)
    <3>1. DOMAIN c = 1..Len(c) /\ DOMAIN g = 1..Len(g)
      BY <1>2, SeqFacts
    <3>2. \A k \in 1..Len(c) : k \in 1..Len(g)
      BY <1>1, <2>2
    <3>3. QED
      BY <2>2, <3>1, <3>2 DEF ToSet
  <2>5. QED
    BY <2>3, <2>4 DEF Tidy
<1>8. QED
  BY <1>2, <1>4, <1>5, <1>6, <1>7 DEF Grown, One, g

\* A batch that was written as a whole.
LEMMA GlueSound ==
    ASSUME NEW c \in Seq(Lines), NEW b \in Seq(Entries), Sound(c)
    PROVE  Sound(Glue(c, Encoded(b)))
<1> DEFINE x == Encoded(b)
<1>1. /\ Len(c) \in Nat /\ Len(x) \in Nat /\ x \in Seq(Lines)
      /\ \A k \in 1..Len(x) : x[k].whole /\ x[k].nl
  BY SeqFacts, EncodedWrites, DocumentFacts DEF Writes
<1> HIDE DEF x
<1>2. CleanTail(c)
  <2>1. ASSUME c # <<>> PROVE Len(c) \in 1..Len(c)
    BY <1>1, <2>1, EmptySeq, SeqEqual
  <2>2. QED
    BY <2>1 DEF CleanTail, Sound
<1>3. Glue(c, x) = c \o x
  BY <1>2 DEF Glue
<1>4. /\ Len(c \o x) = Len(c) + Len(x)
      /\ \A k \in 1..Len(c) : (c \o x)[k] = c[k]
      /\ \A k \in 1..Len(x) : (c \o x)[Len(c) + k] = x[k]
  BY <1>1, ConcatFacts
<1>5. \A k \in 1..Len(c) + Len(x) :
         k \in 1..Len(c) \/ (k - Len(c) \in 1..Len(x) /\ Len(c) + (k - Len(c)) = k)
  BY <1>1
<1>6. Sound(c \o x)
  <2> DEFINE g == c \o x
  <2> HIDE DEF g
  <2>1. ASSUME NEW k \in 1..Len(g) PROVE g[k].whole /\ g[k].nl
    <3>1. CASE k \in 1..Len(c)
      BY <1>4, <3>1 DEF Sound, g
    <3>2. CASE k - Len(c) \in 1..Len(x) /\ Len(c) + (k - Len(c)) = k
      BY <1>1, <1>4, <3>2 DEF g
    <3>3. QED
      BY <1>4, <1>5, <3>1, <3>2 DEF g
  <2>2. QED
    BY <2>1 DEF Sound, g
<1>7. QED
  BY <1>3, <1>6 DEF x

-----------------------------------------------------------------------------
(* The invariant of files fs and directories: d as the process sees it, D    *)
(* those a crash may expose.  fr is the next identity, ret the gone ones,    *)
(* u whether identities are unique.                                          *)

FilesOK(fs) ==
    /\ DOMAIN fs \subseteq Nat /\ IsFiniteSet(DOMAIN fs)
    /\ \A i \in DOMAIN fs : /\ fs[i] \in [lines : Seq(Lines), disk : SUBSET Seq(Lines)]
                            /\ fs[i].lines \in fs[i].disk

DirOK(fs, x) ==
    /\ x \in [DOMAIN x -> DOMAIN fs] /\ IsInjective(x)
    /\ DOMAIN x \subseteq Names /\ IsFiniteSet(DOMAIN x)

DirsOK(fs, d, D) ==
    /\ d \in D
    /\ \A x \in D : DirOK(fs, x)
    /\ \A x \in D : \A n \in DOMAIN x : Active \in DOMAIN d /\ x[n] = d[Active] => n = Active

HistoryOK(fs, d, fr, ret) ==
    /\ \A i \in DOMAIN fs : \A c \in fs[i].disk : Mentioned(c) \subseteq 1..fr - 1
    /\ \A i \in DOMAIN fs \ Range(d) : Mentioned(fs[i].lines) \subseteq ret
    /\ ret \subseteq 1..fr - 1

Settled(f) == f.disk = {f.lines} /\ Sound(f.lines)

SettledOK(fs, d) ==
    Durable => \A i \in DOMAIN fs :
        /\ \A c \in fs[i].disk : Tidy(c)
        /\ (Active \in DOMAIN d /\ i = d[Active]) \/ Settled(fs[i])

dirs(d, D) == IF Durable THEN D ELSE {d}
contents(f) == IF Durable THEN f.disk ELSE {f.lines}

UniqueOK(fs, d, D, ret) ==
    \A x \in dirs(d, D) : \A i, j \in Range(x) :
        \A c \in contents(fs[i]), g \in contents(fs[j]) :
            \A e \in (Ids(c) \cap Ids(g)) \ ret : i = j /\ (c = g => One(e, c))

DiskInv(fs, d, D, fr, ret, u) ==
    /\ FilesOK(fs) /\ DirsOK(fs, d, D) /\ HistoryOK(fs, d, fr, ret)
    /\ SettledOK(fs, d) /\ (u => UniqueOK(fs, d, D, ret))

LEMMA InRange ==
    ASSUME NEW x, NEW i
    PROVE  i \in Range(x) <=> \E n \in DOMAIN x : x[n] = i
BY DEF Range

\* A directory sync, or none: fewer directories are exposed, and the inodes of the
\* others are gone.
LEMMA NarrowStep ==
    ASSUME NEW fs, NEW d, NEW D, NEW fr, NEW ret, NEW u, DiskInv(fs, d, D, fr, ret, u),
           NEW E, E \subseteq D, d \in E
    PROVE  LET fs2 == [i \in UNION {Range(x) : x \in E} |-> fs[i]]
           IN  DiskInv(fs2, d, E, fr, ret, u)
<1> DEFINE fs2 == [i \in UNION {Range(x) : x \in E} |-> fs[i]]
<1>1. FilesOK(fs) /\ DirsOK(fs, d, D) /\ HistoryOK(fs, d, fr, ret) /\ SettledOK(fs, d)
      /\ (u => UniqueOK(fs, d, D, ret))
  BY DEF DiskInv
<1>2. \A x \in E : Range(x) \subseteq DOMAIN fs2 /\ DirOK(fs, x)
  BY <1>1 DEF DirsOK
<1>3. DOMAIN fs2 \subseteq DOMAIN fs
  <2>1. \A x \in E : Range(x) \subseteq DOMAIN fs
    BY <1>2 DEF DirOK, Range
  <2>2. QED
    BY <2>1
<1>4. \A i \in DOMAIN fs2 : fs2[i] = fs[i]
  OBVIOUS
<1> HIDE DEF fs2
<1>5. FilesOK(fs2)
  <2>1. IsFiniteSet(DOMAIN fs2)
    BY <1>1, <1>3, FS_Subset DEF FilesOK
  <2>2. QED
    BY <1>1, <1>3, <1>4, <2>1 DEF FilesOK
<1>6. DirsOK(fs2, d, E)
  <2>1. ASSUME NEW x \in E PROVE DirOK(fs2, x)
    <3>1. x \in [DOMAIN x -> DOMAIN fs2]
      BY <1>2, <2>1 DEF DirOK, Range
    <3>2. QED
      BY <1>2, <3>1 DEF DirOK
  <2>2. QED
    BY <1>1, <2>1 DEF DirsOK
<1>7. HistoryOK(fs2, d, fr, ret)
  BY <1>1, <1>3, <1>4 DEF HistoryOK
<1>8. SettledOK(fs2, d)
  BY <1>1, <1>3, <1>4 DEF SettledOK
<1>9. ASSUME u PROVE UniqueOK(fs2, d, E, ret)
  <2>1. \A x \in dirs(d, E) : x \in dirs(d, D) /\ x \in E
    BY DEF dirs
  <2>2. \A x \in dirs(d, E) : \A i \in Range(x) : fs2[i] = fs[i]
    BY <1>2, <1>4, <2>1
  <2>3. QED
    BY <1>1, <1>9, <2>1, <2>2 DEF UniqueOK
<1>10. QED
  BY <1>5, <1>6, <1>7, <1>8, <1>9 DEF DiskInv, fs2

\* The active file of d gets other contents: its own, with records of b behind them.
LEMMA WriteStep ==
    ASSUME NEW fs, NEW d, NEW D, NEW fr \in Nat, NEW ret, NEW u, DiskInv(fs, d, D, fr, ret, u),
           Active \in DOMAIN d,
           NEW b, NEW f \in [lines : Seq(Lines), disk : SUBSET Seq(Lines)], f.lines \in f.disk,
           Grown(f.lines, fs[d[Active]].lines, b),
           \A g \in f.disk : g \in fs[d[Active]].disk \/ Grown(g, fs[d[Active]].lines, b),
           Durable => Sound(fs[d[Active]].lines),
           NEW fr2 \in Nat, fr <= fr2, ToSet(b) \subseteq 1..fr2 - 1,
           \A j \in Range(d) : \A e \in ToSet(b) : e \notin Ids(fs[j].lines)
    PROVE  DiskInv([fs EXCEPT ![d[Active]] = f], d, D, fr2, ret, u)
<1> DEFINE i == d[Active]
           c == fs[i].lines
           fs2 == [fs EXCEPT ![i] = f]
<1>1. FilesOK(fs) /\ DirsOK(fs, d, D) /\ HistoryOK(fs, d, fr, ret) /\ SettledOK(fs, d)
      /\ (u => UniqueOK(fs, d, D, ret))
  BY DEF DiskInv
<1>2. i \in DOMAIN fs /\ i \in Range(d)
  BY <1>1 DEF DirsOK, DirOK, Range
<1>3. DOMAIN fs2 = DOMAIN fs /\ fs2[i] = f /\ \A j \in DOMAIN fs : j # i => fs2[j] = fs[j]
  BY <1>2
<1>4. c \in fs[i].disk /\ Grown(f.lines, c, b) /\ \A g \in f.disk : g \in fs[i].disk \/ Grown(g, c, b)
  BY <1>1, <1>2 DEF FilesOK
<1>5. 1..fr - 1 \subseteq 1..fr2 - 1
  OBVIOUS
<1> HIDE DEF fs2, i, c
<1>6. FilesOK(fs2)
  <2>1. ASSUME NEW j \in DOMAIN fs2
        PROVE  fs2[j] \in [lines : Seq(Lines), disk : SUBSET Seq(Lines)] /\ fs2[j].lines \in fs2[j].disk
    BY <1>1, <1>3 DEF FilesOK
  <2>2. QED
    BY <1>1, <1>3, <2>1 DEF FilesOK
<1>7. DirsOK(fs2, d, D)
  BY <1>1, <1>3 DEF DirsOK, DirOK
<1>8. HistoryOK(fs2, d, fr2, ret)
  <2>1. ASSUME NEW g \in f.disk PROVE Mentioned(g) \subseteq 1..fr2 - 1
    <3>1. CASE g \in fs[i].disk
      BY <1>1, <1>2, <1>5, <3>1 DEF HistoryOK
    <3>2. CASE Grown(g, c, b)
      <4>1. Mentioned(c) \subseteq 1..fr2 - 1
        BY <1>1, <1>2, <1>4, <1>5 DEF HistoryOK
      <4>2. QED
        BY <3>2, <4>1 DEF Grown
    <3>3. QED
      BY <1>4, <3>1, <3>2
  <2>2. ASSUME NEW j \in DOMAIN fs2, NEW g \in fs2[j].disk PROVE Mentioned(g) \subseteq 1..fr2 - 1
    <3>1. CASE j = i
      BY <1>3, <2>1, <2>2, <3>1
    <3>2. CASE j # i
      BY <1>1, <1>3, <1>5, <2>2, <3>2 DEF HistoryOK
    <3>3. QED
      BY <3>1, <3>2
  <2>3. \A j \in DOMAIN fs2 \ Range(d) : Mentioned(fs2[j].lines) \subseteq ret
    BY <1>1, <1>2, <1>3 DEF HistoryOK
  <2>4. QED
    BY <1>1, <1>5, <2>2, <2>3 DEF HistoryOK
<1>9. SettledOK(fs2, d)
  <2>1. SUFFICES ASSUME Durable, NEW j \in DOMAIN fs2
                 PROVE  /\ \A g \in fs2[j].disk : Tidy(g)
                        /\ (Active \in DOMAIN d /\ j = d[Active]) \/ Settled(fs2[j])
    BY DEF SettledOK
  <2>2. CASE j = i
    <3>1. \A g \in f.disk : Tidy(g)
      BY <1>1, <1>2, <1>4, <2>1 DEF SettledOK, Grown, c, i
    <3>2. QED
      BY <1>3, <2>2, <3>1 DEF i
  <2>3. CASE j # i
    BY <1>1, <1>3, <2>1, <2>3 DEF SettledOK
  <2>4. QED
    BY <2>2, <2>3
<1>10. ASSUME u PROVE UniqueOK(fs2, d, D, ret)
  <2>1. \A x \in dirs(d, D) : DirOK(fs, x) /\ Range(x) \subseteq DOMAIN fs
    BY <1>1 DEF dirs, DirsOK, DirOK, Range
  <2>2. c \in contents(fs[i])
    BY <1>4 DEF contents, c
  <2>3. ASSUME NEW g \in contents(f)
        PROVE  g \in contents(fs[i]) \/ Grown(g, c, b)
    BY <1>4, <2>3 DEF contents
  \* Another file holds no record of b that is not gone.
  <2>4. ASSUME NEW x \in dirs(d, D), NEW j \in Range(x), j # i, NEW h \in contents(fs[j]),
               NEW e \in Ids(h) \ ret
        PROVE  e \notin ToSet(b)
    <3>1. j \in DOMAIN fs
      BY <2>1, <2>4
    <3>2. h = fs[j].lines
      BY <1>1, <2>4, <3>1 DEF SettledOK, Settled, contents, i
    <3>3. CASE j \in Range(d)
      BY <2>4, <3>2, <3>3
    <3>4. CASE j \notin Range(d)
      <4>1. Mentioned(fs[j].lines) \subseteq ret
        BY <1>1, <3>1, <3>4 DEF HistoryOK
      <4>2. Ids(fs[j].lines) \subseteq Mentioned(fs[j].lines)
        BY DEF Ids
      <4>3. QED
        BY <2>4, <3>2, <4>1, <4>2
    <3>5. QED
      BY <3>3, <3>4
  <2>5. ASSUME NEW g \in contents(f), NEW e \in Ids(g) \ ret PROVE One(e, g)
    <3>1. \E x \in dirs(d, D) : i \in Range(x)
      BY <1>1, <1>2 DEF dirs, DirsOK
    <3>2. CASE g \in contents(fs[i])
      BY <1>1, <1>10, <2>5, <3>1, <3>2 DEF UniqueOK
    <3>3. CASE Grown(g, c, b)
      <4>1. e \in ToSet(b) => e \notin Ids(c)
        BY <1>2 DEF c
      <4>2. One(e, c)
        <5>1. CASE e \in Ids(c)
          BY <1>1, <1>10, <2>2, <2>5, <3>1, <5>1 DEF UniqueOK
        <5>2. CASE e \notin Ids(c)
          BY <5>2, InIds DEF One, Documents
        <5>3. QED
          BY <5>1, <5>2
      <4>3. QED
        BY <3>3, <4>1, <4>2 DEF Grown
    <3>4. QED
      BY <2>3, <2>5, <3>2, <3>3
  <2>6. ASSUME NEW x \in dirs(d, D), i \in Range(x), NEW j \in Range(x), j # i,
               NEW g \in contents(f), NEW h \in contents(fs[j]), NEW e \in (Ids(g) \cap Ids(h)) \ ret
        PROVE  FALSE
    <3>1. e \notin ToSet(b)
      BY <2>4, <2>6
    <3>2. PICK k \in contents(fs[i]) : e \in Ids(k)
      <4>1. CASE g \in contents(fs[i])
        BY <2>6, <4>1
      <4>2. CASE Grown(g, c, b)
        BY <2>2, <2>6, <3>1, <4>2 DEF Grown
      <4>3. QED
        BY <2>3, <2>6, <4>1, <4>2
    <3>3. QED
      BY <1>1, <1>10, <2>6, <3>2 DEF UniqueOK
  <2>7. ASSUME NEW x \in dirs(d, D), NEW j \in Range(x), NEW k \in Range(x),
               NEW g \in contents(fs2[j]), NEW h \in contents(fs2[k]), NEW e \in (Ids(g) \cap Ids(h)) \ ret
        PROVE  j = k /\ (g = h => One(e, g))
    <3>1. j \in DOMAIN fs /\ k \in DOMAIN fs
      BY <2>1, <2>7
    <3>2. CASE j = i /\ k = i
      BY <1>3, <2>5, <2>7, <3>2
    <3>3. CASE j = i /\ k # i
      BY <1>3, <2>6, <2>7, <3>1, <3>3
    <3>4. CASE j # i /\ k = i
      BY <1>3, <2>6, <2>7, <3>1, <3>4
    <3>5. CASE j # i /\ k # i
      <4>1. g \in contents(fs[j]) /\ h \in contents(fs[k])
        BY <1>3, <2>7, <3>1, <3>5
      <4>2. QED
        BY <1>1, <1>10, <2>7, <4>1 DEF UniqueOK
    <3>6. QED
      BY <3>2, <3>3, <3>4, <3>5
  <2>8. QED
    BY <2>7 DEF UniqueOK
<1>11. QED
  BY <1>6, <1>7, <1>8, <1>9, <1>10 DEF DiskInv, fs2, i

\* One more directory, with inodes of d only.
LEMMA UniqueMore ==
    ASSUME NEW fs, NEW d, NEW D, NEW ret, UniqueOK(fs, d, D, ret), d \in D,
           NEW d2, NEW E, NEW ret2, ret \subseteq ret2,
           \A x \in E \cup {d2} : x \in D \/ Range(x) \subseteq Range(d), Range(d2) \subseteq Range(d)
    PROVE  UniqueOK(fs, d2, E, ret2)
<1>1. ASSUME NEW x \in dirs(d2, E)
      PROVE  \E y \in dirs(d, D) : Range(x) \subseteq Range(y)
  BY <1>1 DEF dirs
<1>2. QED
  BY <1>1 DEF UniqueOK

\* The rename of a rotation, over an archive if the name is one's.
LEMMA RenameStep ==
    ASSUME NEW fs, NEW d, NEW D, NEW fr, NEW ret, NEW u, DiskInv(fs, d, D, fr, ret, u),
           Active \in DOMAIN d, Durable => Settled(fs[d[Active]]),
           NEW name \in Nat \X Nat, name # Active,
           NEW ret2, ret \subseteq ret2, ret2 \subseteq 1..fr - 1,
           name \in DOMAIN d => Mentioned(fs[d[name]].lines) \subseteq ret2
    PROVE  LET r == Named(without(d, {Active}), name, d[Active])
           IN  /\ DiskInv(fs, r, D \cup {r}, fr, ret2, u)
               /\ Active \notin DOMAIN r /\ Range(r) \subseteq Range(d)
               /\ \A i \in Range(d) : i \in Range(r) \/ Mentioned(fs[i].lines) \subseteq ret2
<1> DEFINE r == Named(without(d, {Active}), name, d[Active])
<1>1. FilesOK(fs) /\ DirsOK(fs, d, D) /\ HistoryOK(fs, d, fr, ret) /\ SettledOK(fs, d)
      /\ (u => UniqueOK(fs, d, D, ret))
  BY DEF DiskInv
<1>2. d \in D /\ d \in [DOMAIN d -> DOMAIN fs] /\ IsInjective(d)
      /\ DOMAIN d \subseteq Names /\ IsFiniteSet(DOMAIN d)
  BY <1>1 DEF DirsOK, DirOK
<1>3. /\ r = [n \in DOMAIN r |-> r[n]]
      /\ DOMAIN r = (DOMAIN d \ {Active}) \cup {name} /\ r[name] = d[Active]
      /\ \A n \in DOMAIN d \ {Active, name} : r[n] = d[n]
  BY DEF Named, without
<1> HIDE DEF r
<1>4. Active \notin DOMAIN r
  BY <1>3
<1>5. Range(r) \subseteq Range(d)
  BY <1>3, InRange
<1>6. ASSUME NEW i \in Range(d) PROVE i \in Range(r) \/ Mentioned(fs[i].lines) \subseteq ret2
  <2>1. PICK n \in DOMAIN d : d[n] = i
    BY InRange
  <2>2. CASE n = name
    BY <2>1, <2>2
  <2>3. CASE n # name
    BY <1>3, <2>1, <2>3, InRange
  <2>4. QED
    BY <2>2, <2>3
<1>7. DirOK(fs, r)
  <2>1. r \in [DOMAIN r -> DOMAIN fs]
    BY <1>2, <1>3
  <2>2. IsInjective(r)
    <3>1. ASSUME NEW m \in DOMAIN r, NEW n \in DOMAIN r, r[m] = r[n] PROVE m = n
      BY <1>2, <1>3, <3>1 DEF IsInjective
    <3>2. QED
      BY <3>1 DEF IsInjective
  <2>3. IsFiniteSet(DOMAIN r)
    <3>1. IsFiniteSet(DOMAIN d \ {Active})
      BY <1>2, FS_Subset
    <3>2. QED
      BY <1>3, <3>1, FS_AddElement
  <2>4. DOMAIN r \subseteq Names
    BY <1>2, <1>3 DEF Names
  <2>5. QED
    BY <2>1, <2>2, <2>3, <2>4 DEF DirOK
<1>8. DirsOK(fs, r, D \cup {r})
  BY <1>1, <1>4, <1>7 DEF DirsOK
<1>9. HistoryOK(fs, r, fr, ret2)
  BY <1>1, <1>6 DEF HistoryOK
<1>10. SettledOK(fs, r)
  BY <1>1 DEF SettledOK
<1>11. u => UniqueOK(fs, r, D \cup {r}, ret2)
  BY <1>1, <1>2, <1>5, UniqueMore
<1>12. QED
  BY <1>1, <1>4, <1>5, <1>6, <1>8, <1>9, <1>10, <1>11 DEF DiskInv, r

LEMMA EmptyFacts ==
    /\ Empty \in [lines : Seq(Lines), disk : SUBSET Seq(Lines)] /\ Empty.lines = <<>>
    /\ Empty.disk = {<<>>} /\ Settled(Empty) /\ Tidy(<<>>)
    /\ \A c \in contents(Empty) : Ids(c) = {}
<1>1. /\ Empty.lines = <<>> /\ Empty.disk = {<<>>}
      /\ Empty \in [lines : Seq(Lines), disk : SUBSET Seq(Lines)]
  BY EmptyContent DEF Empty
<1>2. Sound(<<>>) /\ Tidy(<<>>)
  <2>1. 1..Len(<<>>) = {}
    BY EmptyContent
  <2>2. QED
    BY <2>1 DEF Sound, Tidy
<1>3. QED
  BY <1>1, <1>2, EmptyContent DEF Settled, contents

\* A new active file where there is none.
LEMMA CreateStep ==
    ASSUME NEW fs, NEW d, NEW D, NEW fr, NEW ret, NEW u, DiskInv(fs, d, D, fr, ret, u),
           Active \notin DOMAIN d
    PROVE  LET i == NewInode(fs)
               fs1 == Named(fs, i, Empty)
               c == Named(d, Active, i)
           IN  /\ DiskInv(fs1, c, D \cup {c}, fr, ret, u)
               /\ i \notin DOMAIN fs /\ DOMAIN fs1 = DOMAIN fs \cup {i} /\ fs1[i] = Empty
               /\ \A j \in DOMAIN fs : fs1[j] = fs[j]
               /\ DOMAIN c = DOMAIN d \cup {Active} /\ c[Active] = i
               /\ \A n \in DOMAIN d : c[n] = d[n]
               /\ Range(c) = Range(d) \cup {i}
<1> DEFINE i == NewInode(fs)
           fs1 == Named(fs, i, Empty)
           c == Named(d, Active, i)
<1>1. FilesOK(fs) /\ DirsOK(fs, d, D) /\ HistoryOK(fs, d, fr, ret) /\ SettledOK(fs, d)
      /\ (u => UniqueOK(fs, d, D, ret))
  BY DEF DiskInv
<1>2. i \in Nat /\ i \notin DOMAIN fs
  BY <1>1, NewInodeFacts DEF FilesOK
<1>3. d \in D /\ d \in [DOMAIN d -> DOMAIN fs] /\ IsInjective(d)
      /\ DOMAIN d \subseteq Names /\ IsFiniteSet(DOMAIN d)
  BY <1>1 DEF DirsOK, DirOK
<1> HIDE DEF i
<1>4. /\ DOMAIN fs1 = DOMAIN fs \cup {i} /\ fs1[i] = Empty /\ \A j \in DOMAIN fs : fs1[j] = fs[j]
      /\ c = [n \in DOMAIN c |-> c[n]]
      /\ DOMAIN c = DOMAIN d \cup {Active} /\ c[Active] = i /\ \A n \in DOMAIN d : c[n] = d[n]
  BY <1>2 DEF Named
<1> HIDE DEF fs1, c
<1>5. Range(c) = Range(d) \cup {i} /\ Range(d) \subseteq DOMAIN fs
  <2>1. ASSUME NEW j PROVE j \in Range(c) <=> j \in Range(d) \/ j = i
    <3>1. j \in Range(c) => j \in Range(d) \/ j = i
      BY <1>4, InRange
    <3>2. j \in Range(d) \/ j = i => j \in Range(c)
      BY <1>4, InRange
    <3>3. QED
      BY <3>1, <3>2
  <2>2. Range(d) \subseteq DOMAIN fs
    BY <1>3, InRange
  <2>3. QED
    BY <2>1, <2>2
<1>6. FilesOK(fs1)
  <2>1. IsFiniteSet(DOMAIN fs1) /\ DOMAIN fs1 \subseteq Nat
    BY <1>1, <1>2, <1>4, FS_AddElement DEF FilesOK
  <2>2. ASSUME NEW j \in DOMAIN fs1
        PROVE  fs1[j] \in [lines : Seq(Lines), disk : SUBSET Seq(Lines)] /\ fs1[j].lines \in fs1[j].disk
    <3>1. CASE j \in DOMAIN fs
      BY <1>1, <1>4, <3>1 DEF FilesOK
    <3>2. CASE j = i
      BY <1>4, <3>2, EmptyFacts
    <3>3. QED
      BY <1>4, <3>1, <3>2
  <2>3. QED
    BY <2>1, <2>2 DEF FilesOK
<1>7. DirsOK(fs1, c, D \cup {c})
  <2>1. ASSUME NEW x \in D PROVE DirOK(fs1, x) /\ \A n \in DOMAIN x : x[n] # i
    <3>1. DirOK(fs, x)
      BY <1>1, <2>1 DEF DirsOK
    <3>2. QED
      BY <1>2, <1>4, <3>1 DEF DirOK
  <2>2. DirOK(fs1, c)
    <3>1. c \in [DOMAIN c -> DOMAIN fs1]
      BY <1>3, <1>4
    <3>2. IsInjective(c)
      <4>1. ASSUME NEW m \in DOMAIN c, NEW n \in DOMAIN c, c[m] = c[n] PROVE m = n
        <5>1. \A k \in DOMAIN d : c[k] # i /\ c[k] = d[k]
          BY <1>2, <1>3, <1>4
        <5>2. QED
          BY <1>3, <1>4, <4>1, <5>1 DEF IsInjective
      <4>2. QED
        BY <4>1 DEF IsInjective
    <3>3. IsFiniteSet(DOMAIN c) /\ DOMAIN c \subseteq Names
      BY <1>3, <1>4, FS_AddElement DEF Names
    <3>4. QED
      BY <3>1, <3>2, <3>3 DEF DirOK
  <2>3. \A n \in DOMAIN c : c[n] = c[Active] => n = Active
    BY <1>2, <1>3, <1>4
  <2>4. QED
    BY <1>4, <2>1, <2>2, <2>3 DEF DirsOK
<1>8. HistoryOK(fs1, c, fr, ret)
  <2>1. ASSUME NEW j \in DOMAIN fs1, NEW g \in fs1[j].disk PROVE Mentioned(g) \subseteq 1..fr - 1
    <3>1. CASE j \in DOMAIN fs
      BY <1>1, <1>4, <2>1, <3>1 DEF HistoryOK
    <3>2. CASE j = i
      BY <1>4, <2>1, <3>2, EmptyFacts, EmptyContent
    <3>3. QED
      BY <1>4, <3>1, <3>2
  <2>2. \A j \in DOMAIN fs1 \ Range(c) : Mentioned(fs1[j].lines) \subseteq ret
    BY <1>1, <1>4, <1>5 DEF HistoryOK
  <2>3. QED
    BY <1>1, <2>1, <2>2 DEF HistoryOK
<1>9. SettledOK(fs1, c)
  <2>1. SUFFICES ASSUME Durable, NEW j \in DOMAIN fs1
                 PROVE  (\A g \in fs1[j].disk : Tidy(g)) /\ Settled(fs1[j])
    BY DEF SettledOK
  <2>2. CASE j \in DOMAIN fs
    BY <1>1, <1>4, <2>1, <2>2 DEF SettledOK
  <2>3. CASE j = i
    BY <1>4, <2>3, EmptyFacts
  <2>4. QED
    BY <1>4, <2>2, <2>3
<1>10. ASSUME u PROVE UniqueOK(fs1, c, D \cup {c}, ret)
  <2>1. ASSUME NEW x \in dirs(c, D \cup {c})
        PROVE  \E y \in dirs(d, D) : Range(x) \subseteq Range(y) \cup {i} /\ Range(y) \subseteq DOMAIN fs
    <3>1. CASE x \in D /\ Durable
      <4>1. Range(x) \subseteq DOMAIN fs
        BY <1>1, <3>1 DEF DirsOK, DirOK, Range
      <4>2. QED
        BY <3>1, <4>1 DEF dirs
    <3>2. CASE x = c
      BY <1>3, <1>5, <3>2 DEF dirs
    <3>3. QED
      BY <2>1, <3>1, <3>2 DEF dirs
  <2>2. \A g \in contents(fs1[i]) : Ids(g) = {}
    BY <1>4, EmptyFacts
  <2>3. ASSUME NEW x \in dirs(c, D \cup {c}), NEW j \in Range(x), NEW k \in Range(x),
               NEW g \in contents(fs1[j]), NEW h \in contents(fs1[k]), NEW e \in (Ids(g) \cap Ids(h)) \ ret
        PROVE  j = k /\ (g = h => One(e, g))
    <3>1. j # i /\ k # i
      BY <2>2, <2>3
    <3>2. PICK y \in dirs(d, D) : Range(x) \subseteq Range(y) \cup {i} /\ Range(y) \subseteq DOMAIN fs
      BY <2>1, <2>3
    <3>3. j \in Range(y) /\ k \in Range(y) /\ fs1[j] = fs[j] /\ fs1[k] = fs[k]
      BY <1>4, <2>3, <3>1, <3>2
    <3>4. QED
      BY <1>1, <1>10, <2>3, <3>2, <3>3 DEF UniqueOK
  <2>4. QED
    BY <2>3 DEF UniqueOK
<1>11. QED
  BY <1>2, <1>4, <1>5, <1>6, <1>7, <1>8, <1>9, <1>10 DEF DiskInv, fs1, c, i

\* Retention removes archives.
LEMMA RemoveStep ==
    ASSUME NEW fs, NEW d, NEW D, NEW fr, NEW ret, NEW u, DiskInv(fs, d, D, fr, ret, u),
           Active \in DOMAIN d, NEW R, R \subseteq DOMAIN d \ {Active}
    PROVE  LET w == without(d, R)
               E == D \cup {without(d, S) : S \in SUBSET R} \cup {w}
               ret2 == ret \cup UNION {Mentioned(fs[d[n]].lines) : n \in R}
           IN  DiskInv(fs, w, E, fr, ret2, u)
<1> DEFINE w == without(d, R)
           E == D \cup {without(d, S) : S \in SUBSET R} \cup {w}
           ret2 == ret \cup UNION {Mentioned(fs[d[n]].lines) : n \in R}
<1>1. FilesOK(fs) /\ DirsOK(fs, d, D) /\ HistoryOK(fs, d, fr, ret) /\ SettledOK(fs, d)
      /\ (u => UniqueOK(fs, d, D, ret))
  BY DEF DiskInv
<1>2. d \in D /\ d \in [DOMAIN d -> DOMAIN fs] /\ IsInjective(d)
      /\ DOMAIN d \subseteq Names /\ IsFiniteSet(DOMAIN d)
  BY <1>1 DEF DirsOK, DirOK
<1>3. ASSUME NEW S \in SUBSET R
      PROVE  LET x == without(d, S)
             IN  /\ DirOK(fs, x) /\ Range(x) \subseteq Range(d)
                 /\ Active \in DOMAIN x /\ x[Active] = d[Active]
                 /\ \A n \in DOMAIN x : x[n] = d[Active] => n = Active
                 /\ DOMAIN x = DOMAIN d \ S /\ \A n \in DOMAIN x : x[n] = d[n]
  <2> DEFINE x == without(d, S)
  <2>1. x = [n \in DOMAIN x |-> x[n]] /\ DOMAIN x = DOMAIN d \ S /\ \A n \in DOMAIN x : x[n] = d[n]
    BY DEF without
  <2> HIDE DEF x
  <2>2. IsFiniteSet(DOMAIN x)
    BY <1>2, <2>1, FS_Subset
  <2>3. x \in [DOMAIN x -> DOMAIN fs] /\ IsInjective(x) /\ DOMAIN x \subseteq Names
    BY <1>2, <2>1 DEF IsInjective
  <2>4. Range(x) \subseteq Range(d)
    BY <2>1, InRange
  <2>5. Active \in DOMAIN x /\ x[Active] = d[Active]
    BY <1>3, <2>1
  <2>6. \A n \in DOMAIN x : x[n] = d[Active] => n = Active
    BY <1>2, <2>1 DEF IsInjective
  <2>7. QED
    BY <2>1, <2>2, <2>3, <2>4, <2>5, <2>6 DEF DirOK, x
<1>4. \A x \in E : x \in D \/ \E S \in SUBSET R : x = without(d, S)
  OBVIOUS
<1>5. /\ w = without(d, R) /\ R \in SUBSET R /\ w \in E /\ ret \subseteq ret2
      /\ \A n \in R : Mentioned(fs[d[n]].lines) \subseteq ret2
      /\ \A e \in ret2 : e \in ret \/ \E n \in R : e \in Mentioned(fs[d[n]].lines)
  OBVIOUS
<1> HIDE DEF w, E, ret2
<1>6. w[Active] = d[Active] /\ Active \in DOMAIN w /\ Range(w) \subseteq Range(d)
      /\ DOMAIN w = DOMAIN d \ R /\ \A n \in DOMAIN w : w[n] = d[n]
  BY <1>3, <1>5
<1>7. DirsOK(fs, w, E)
  <2>1. ASSUME NEW x \in E
        PROVE  DirOK(fs, x) /\ \A n \in DOMAIN x : x[n] = d[Active] => n = Active
    <3>1. CASE x \in D
      BY <1>1, <3>1 DEF DirsOK
    <3>2. CASE \E S \in SUBSET R : x = without(d, S)
      BY <1>3, <3>2
    <3>3. QED
      BY <1>4, <3>1, <3>2
  <2>2. QED
    BY <1>5, <1>6, <2>1 DEF DirsOK
<1>8. HistoryOK(fs, w, fr, ret2)
  <2>1. ASSUME NEW j \in DOMAIN fs \ Range(w) PROVE Mentioned(fs[j].lines) \subseteq ret2
    <3>1. CASE j \notin Range(d)
      BY <1>1, <1>5, <3>1 DEF HistoryOK
    <3>2. CASE j \in Range(d)
      <4>1. PICK n \in DOMAIN d : d[n] = j
        BY <3>2, InRange
      <4>2. n \in R
        BY <1>6, <2>1, <4>1, InRange
      <4>3. QED
        BY <1>5, <4>1, <4>2
    <3>3. QED
      BY <3>1, <3>2
  <2>2. ret2 \subseteq 1..fr - 1
    <3>1. \A n \in R : Mentioned(fs[d[n]].lines) \subseteq 1..fr - 1
      <4>1. \A n \in R : d[n] \in DOMAIN fs /\ fs[d[n]].lines \in fs[d[n]].disk
        BY <1>1, <1>2 DEF FilesOK
      <4>2. QED
        BY <1>1, <4>1 DEF HistoryOK
    <3>2. QED
      BY <1>1, <1>5, <3>1 DEF HistoryOK
  <2>3. QED
    BY <1>1, <2>1, <2>2 DEF HistoryOK
<1>9. SettledOK(fs, w)
  BY <1>1, <1>6 DEF SettledOK
<1>10. u => UniqueOK(fs, w, E, ret2)
  <2>1. \A x \in E \cup {w} : x \in D \/ Range(x) \subseteq Range(d)
    BY <1>3, <1>4, <1>6
  <2>2. QED
    BY <1>1, <1>2, <1>5, <1>6, <2>1, UniqueMore
<1>11. QED
  BY <1>1, <1>7, <1>8, <1>9, <1>10 DEF DiskInv, w, E, ret2

-----------------------------------------------------------------------------
(* What was acknowledged, ak: the files d names hold bytes of it (Present),  *)
(* and in durable mode every state a crash can leave holds it (Survives).    *)

Present(fs, d, ak, ret) == \A e \in ak \ ret : \E i \in Range(d) : e \in Mentioned(fs[i].lines)

Survives(fs, D, ak, ret) ==
    Durable => \A e \in ak \ ret : \A x \in D : \E i \in Range(x) :
        \A c \in fs[i].disk : Document(e) \in ToSet(c)

LEMMA DocumentMentioned ==
    ASSUME NEW c \in Seq(Lines), NEW e, Document(e) \in ToSet(c)
    PROVE  e \in Mentioned(c) /\ e \in Ids(c)
<1>1. DOMAIN c = 1..Len(c)
  BY SeqFacts
<1>2. PICK k \in 1..Len(c) : c[k] = Document(e)
  BY <1>1 DEF ToSet
<1>3. QED
  BY <1>2, DocumentFacts, InMentioned, InIds

\* A record mentioned in sound content has a document there.
LEMMA SoundDocument ==
    ASSUME NEW c \in Seq(Lines), Sound(c), NEW e \in Mentioned(c)
    PROVE  Document(e) \in ToSet(c)
<1>1. DOMAIN c = 1..Len(c) /\ \A k \in 1..Len(c) : c[k] \in Lines
  BY SeqFacts
<1>2. PICK k \in 1..Len(c) : e \in c[k].ids
  BY InMentioned
<1>3. c[k].whole /\ c[k].nl
  BY DEF Sound
<1>4. c[k].ids = {e} /\ c[k] \in [ids : SUBSET Entries, whole : BOOLEAN, nl : BOOLEAN]
  BY <1>1, <1>2, <1>3 DEF Lines
<1>5. c[k] = [ids |-> {e}, whole |-> TRUE, nl |-> TRUE]
  BY <1>3, <1>4
<1>6. QED
  BY <1>1, <1>5 DEF Document, ToSet

\* When every file is on disk as it is read, what is present survives.
LEMMA SettledSurvives ==
    ASSUME NEW fs, NEW d, NEW ak, NEW ret, FilesOK(fs), DirOK(fs, d), Present(fs, d, ak, ret),
           Durable => \A i \in Range(d) : Settled(fs[i])
    PROVE  Survives(fs, {d}, ak, ret)
<1>1. SUFFICES ASSUME Durable, NEW e \in ak \ ret
               PROVE  \E i \in Range(d) : \A c \in fs[i].disk : Document(e) \in ToSet(c)
  BY DEF Survives
<1>2. PICK i \in Range(d) : e \in Mentioned(fs[i].lines)
  BY <1>1 DEF Present
<1>3. i \in DOMAIN fs
  BY <1>2, InRange DEF DirOK
<1>4. fs[i].lines \in Seq(Lines) /\ Sound(fs[i].lines) /\ fs[i].disk = {fs[i].lines}
  BY <1>1, <1>2, <1>3 DEF FilesOK, Settled
<1>5. QED
  BY <1>2, <1>4, SoundDocument

LEMMA SurvivesPresent ==
    ASSUME NEW fs, NEW d, NEW D, NEW ak, NEW ret, FilesOK(fs), DirsOK(fs, d, D),
           Survives(fs, D, ak, ret), Durable
    PROVE  Present(fs, d, ak, ret)
<1>1. SUFFICES ASSUME NEW e \in ak \ ret
               PROVE  \E i \in Range(d) : e \in Mentioned(fs[i].lines)
  BY DEF Present
<1>2. PICK i \in Range(d) : \A c \in fs[i].disk : Document(e) \in ToSet(c)
  BY <1>1 DEF Survives, DirsOK
<1>3. i \in DOMAIN fs
  BY <1>2, InRange DEF DirsOK, DirOK
<1>4. fs[i].lines \in Seq(Lines) /\ fs[i].lines \in fs[i].disk
  BY <1>3 DEF FilesOK
<1>5. QED
  BY <1>2, <1>4, DocumentMentioned

\* What is written behind the lines of the active file takes nothing away.
LEMMA WriteKeeps ==
    ASSUME NEW fs, NEW d, NEW D, FilesOK(fs), DirsOK(fs, d, D), Active \in DOMAIN d,
           NEW b, NEW f,
           Grown(f.lines, fs[d[Active]].lines, b),
           \A g \in f.disk : g \in fs[d[Active]].disk \/ Grown(g, fs[d[Active]].lines, b),
           Durable => Sound(fs[d[Active]].lines),
           NEW pk, NEW ak, NEW ret, Present(fs, d, pk, ret), Survives(fs, D, ak, ret)
    PROVE  LET fs2 == [fs EXCEPT ![d[Active]] = f]
           IN  Present(fs2, d, pk, ret) /\ Survives(fs2, D, ak, ret)
<1> DEFINE i == d[Active]
           fs2 == [fs EXCEPT ![i] = f]
<1>1. i \in DOMAIN fs
  BY DEF DirsOK, DirOK
<1>2. fs2[i] = f /\ \A j \in DOMAIN fs : j # i => fs2[j] = fs[j]
  BY <1>1
<1>3. \A x \in D : Range(x) \subseteq DOMAIN fs
  BY InRange DEF DirsOK, DirOK
<1>4. fs[i].lines \in fs[i].disk /\ d \in D
  BY <1>1 DEF FilesOK, DirsOK
<1>5. /\ Grown(f.lines, fs[i].lines, b) /\ (Durable => Sound(fs[i].lines))
      /\ \A g \in f.disk : g \in fs[i].disk \/ Grown(g, fs[i].lines, b)
  OBVIOUS
<1> HIDE DEF fs2, i
<1>6. Present(fs2, d, pk, ret)
  <2>1. ASSUME NEW e, NEW j \in Range(d), e \in Mentioned(fs[j].lines)
        PROVE  e \in Mentioned(fs2[j].lines)
    <3>1. CASE j = i
      BY <1>2, <1>5, <2>1, <3>1 DEF Grown
    <3>2. CASE j # i
      BY <1>2, <1>3, <1>4, <2>1, <3>2
    <3>3. QED
      BY <3>1, <3>2
  <2>2. QED
    BY <2>1 DEF Present
<1>7. Survives(fs2, D, ak, ret)
  <2>1. SUFFICES ASSUME Durable, NEW e \in ak \ ret, NEW x \in D
                 PROVE  \E j \in Range(x) : \A c \in fs2[j].disk : Document(e) \in ToSet(c)
    BY DEF Survives
  <2>2. PICK j \in Range(x) : \A c \in fs[j].disk : Document(e) \in ToSet(c)
    BY <2>1 DEF Survives
  <2>3. CASE j = i
    <3>1. Document(e) \in ToSet(fs[i].lines)
      BY <1>4, <2>2, <2>3
    <3>2. ASSUME NEW c \in fs2[j].disk PROVE Document(e) \in ToSet(c)
      BY <1>2, <1>5, <2>1, <2>2, <2>3, <3>1, <3>2 DEF Grown
    <3>3. QED
      BY <2>2, <3>2
  <2>4. CASE j # i
    BY <1>2, <1>3, <2>1, <2>2, <2>4
  <2>5. QED
    BY <2>3, <2>4
<1>8. QED
  BY <1>6, <1>7 DEF fs2, i

\* Directories that hold the files of d take nothing away.
LEMMA MoreKeeps ==
    ASSUME NEW fs, NEW d, NEW D, d \in D, NEW pk, NEW ak, NEW ret,
           Present(fs, d, pk, ret), Survives(fs, D, ak, ret),
           NEW fs2, NEW d2, NEW E,
           \A x \in D : x \in E \/ x = d => \A i \in Range(x) : fs2[i] = fs[i],
           \A x \in E : x \in D \/ Range(d) \subseteq Range(x), Range(d) \subseteq Range(d2)
    PROVE  Present(fs2, d2, pk, ret) /\ Survives(fs2, E, ak, ret)
<1>1. Present(fs2, d2, pk, ret)
  BY DEF Present
<1>2. Survives(fs2, E, ak, ret)
  <2>1. SUFFICES ASSUME Durable, NEW e \in ak \ ret, NEW x \in E
                 PROVE  \E j \in Range(x) : \A c \in fs2[j].disk : Document(e) \in ToSet(c)
    BY DEF Survives
  <2>2. PICK y \in D : Range(y) \subseteq Range(x) /\ (y \in E \/ y = d)
    BY <2>1
  <2>3. PICK j \in Range(y) : \A c \in fs[j].disk : Document(e) \in ToSet(c)
    BY <2>1, <2>2 DEF Survives
  <2>4. QED
    BY <2>2, <2>3
<1>3. QED
  BY <1>1, <1>2

\* Directory w has the files of d, but for what is in ret2.
Covers(fs, d, w, ret2) ==
    \A i \in Range(d) : i \in Range(w) \/ Mentioned(fs[i].lines) \subseteq ret2

\* Directories that lack some files of d take away what is then gone.
LEMMA LackKeeps ==
    ASSUME NEW fs, NEW d, NEW D, FilesOK(fs), DirsOK(fs, d, D), NEW pk, NEW ak, NEW ret,
           Present(fs, d, pk, ret), Survives(fs, D, ak, ret), NEW ret2, ret \subseteq ret2,
           NEW w, Covers(fs, d, w, ret2), NEW E, \A x \in E : x \in D \/ Covers(fs, d, x, ret2)
    PROVE  Present(fs, w, pk, ret2) /\ Survives(fs, E, ak, ret2)
<1>1. Present(fs, w, pk, ret2)
  BY DEF Present, Covers
<1>2. Survives(fs, E, ak, ret2)
  <2>1. SUFFICES ASSUME Durable, NEW e \in ak \ ret2, NEW x \in E
                 PROVE  \E j \in Range(x) : \A c \in fs[j].disk : Document(e) \in ToSet(c)
    BY DEF Survives
  <2>2. CASE x \in D
    BY <2>1, <2>2 DEF Survives
  <2>3. CASE Covers(fs, d, x, ret2)
    <3>1. PICK i \in Range(d) : \A c \in fs[i].disk : Document(e) \in ToSet(c)
      BY <2>1 DEF Survives, DirsOK
    <3>2. i \in DOMAIN fs
      BY <3>1, InRange DEF DirsOK, DirOK
    <3>3. fs[i].lines \in Seq(Lines) /\ fs[i].lines \in fs[i].disk
      BY <3>2 DEF FilesOK
    <3>4. e \in Mentioned(fs[i].lines)
      BY <3>1, <3>3, DocumentMentioned
    <3>5. QED
      BY <2>1, <2>3, <3>1, <3>4 DEF Covers
  <2>4. QED
    BY <2>1, <2>2, <2>3
<1>3. QED
  BY <1>1, <1>2

\* Removed archives take away what is then gone.
LEMMA RemoveKeeps ==
    ASSUME NEW fs, NEW d, NEW D, FilesOK(fs), DirsOK(fs, d, D), NEW pk, NEW ak, NEW ret,
           Present(fs, d, pk, ret), Survives(fs, D, ak, ret), NEW R,
           NEW w, w = without(d, R),
           NEW E, \A x \in E : x \in D \/ \E S \in SUBSET R : x = without(d, S),
           NEW ret2, ret \subseteq ret2, \A n \in R : Mentioned(fs[d[n]].lines) \subseteq ret2
    PROVE  Present(fs, w, pk, ret2) /\ Survives(fs, E, ak, ret2)
<1>1. ASSUME NEW S \in SUBSET R, NEW i \in Range(d)
      PROVE  i \in Range(without(d, S)) \/ Mentioned(fs[i].lines) \subseteq ret2
  <2>1. PICK n \in DOMAIN d : d[n] = i
    BY InRange
  <2>2. CASE n \in S
    BY <2>1, <2>2
  <2>3. CASE n \notin S
    <3>1. n \in DOMAIN without(d, S) /\ without(d, S)[n] = i
      BY <2>1, <2>3 DEF without
    <3>2. QED
      BY <3>1, InRange
  <2>4. QED
    BY <2>2, <2>3
<1>2. Covers(fs, d, w, ret2)
  BY <1>1 DEF Covers
<1>3. \A x \in E : x \in D \/ Covers(fs, d, x, ret2)
  BY <1>1 DEF Covers
<1>4. QED
  BY <1>2, <1>3, LackKeeps

-----------------------------------------------------------------------------
(* The directory part of a call.                                           *)

\* The files fs are written and synced: all of pk is read and ak survives.
Kept(fs, d, D, fr, ret, u, pk, ak) ==
    /\ DiskInv(fs, d, D, fr, ret, u)
    /\ Present(fs, d, pk, ret) /\ Survives(fs, D, ak, ret)
    /\ Durable => \A i \in DOMAIN fs : Settled(fs[i])

LEMMA SettleStep ==
    ASSUME NEW fs, NEW d, NEW D, NEW fr, NEW ret, NEW u, NEW pk, NEW ak,
           Kept(fs, d, D, fr, ret, u, pk, ak),
           NEW ds, dirDisk \cup ds \cup {d} \subseteq D, NEW synced, Settle(fs, d, ds, synced)
    PROVE  /\ Kept(files', dir', dirDisk', fr, ret, u, pk, ak) /\ dir' = d
           /\ DOMAIN files' = UNION {Range(x) : x \in dirDisk'}
           /\ synced => dirDisk' = {dir'}
<1> DEFINE E == IF synced THEN {d} ELSE dirDisk \cup ds \cup {d}
           fs2 == [i \in UNION {Range(x) : x \in E} |-> fs[i]]
<1>1. dir' = d /\ dirDisk' = E /\ files' = fs2
  BY DEF Settle
<1>2. E \subseteq D /\ d \in E /\ d \in D
  OBVIOUS
<1>3. synced => E = {d}
  OBVIOUS
<1> HIDE DEF E
<1>4. DiskInv(fs2, d, E, fr, ret, u)
  BY <1>2, NarrowStep DEF Kept
<1>5. (\A x \in E : \A i \in Range(x) : fs2[i] = fs[i]) /\ DOMAIN fs2 = UNION {Range(x) : x \in E}
  OBVIOUS
<1> HIDE DEF fs2
<1>6. Present(fs2, d, pk, ret) /\ Survives(fs2, E, ak, ret)
  BY <1>2, <1>5, MoreKeeps DEF Kept
<1>7. ASSUME Durable, NEW i \in DOMAIN fs2 PROVE Settled(fs2[i])
  <2>1. PICK x \in E : i \in Range(x)
    BY <1>5, <1>7
  <2>2. i \in DOMAIN fs
    BY <1>2, <2>1, InRange DEF Kept, DiskInv, DirsOK, DirOK
  <2>3. QED
    BY <1>5, <1>7, <2>1, <2>2 DEF Kept
<1>8. Kept(fs2, d, E, fr, ret, u, pk, ak)
  BY <1>4, <1>6, <1>7 DEF Kept
<1>9. QED
  BY <1>1, <1>3, <1>5, <1>8

LEMMA CutoffType ==
    ASSUME config \in Configs, NEW t \in Nat
    PROVE  nextRotationCutoff(t) \in Nat
<1>1. Interval \in Nat
  BY JSONLAssumption DEF Interval
<1>2. CASE Interval = 0
  BY <1>2 DEF nextRotationCutoff
<1>3. CASE Interval # 0
  <2>1. ASSUME NEW k \in Nat, NEW m \in Nat PROVE (k + 1) * m \in Nat
    OBVIOUS
  <2>2. t \div Interval \in Nat
    BY <1>1, <1>3
  <2>3. QED
    BY <1>1, <1>3, <2>1, <2>2 DEF nextRotationCutoff
<1>4. QED
  BY <1>2, <1>3

LEMMA RetentionFacts ==
    ASSUME NEW d, NEW t, NEW fault, NEW R \in applyRetention(d, t, fault)
    PROVE  R \subseteq DOMAIN d \ {Active}
<1> DEFINE some(S) == IF fault THEN SUBSET S ELSE {S}
           aged == {a \in archivePaths(d) : MaxAge > 0 /\ a[1] + MaxAge < t}
           excess(x) == {a \in archivePaths(x) : MaxFiles > 0
                            /\ Cardinality({b \in archivePaths(x) : NameLess(a, b)}) >= MaxFiles}
<1>1. \A S : \A X \in some(S) : X \subseteq S
  OBVIOUS
<1>2. R \in UNION {{A \cup E : E \in some(excess(without(d, A)))} : A \in some(aged)}
  BY DEF applyRetention
<1>3. aged \subseteq DOMAIN d \ {Active} /\ \A x : excess(x) \subseteq DOMAIN x \ {Active}
  BY DEF archivePaths
<1> HIDE DEF some, aged, excess
<1>4. PICK A \in some(aged) : \E E \in some(excess(without(d, A))) : R = A \cup E
  BY <1>2
<1>5. PICK E \in some(excess(without(d, A))) : R = A \cup E
  BY <1>4
<1>6. DOMAIN without(d, A) \subseteq DOMAIN d
  BY DEF without
<1>7. A \subseteq DOMAIN d \ {Active} /\ E \subseteq DOMAIN without(d, A) \ {Active}
  BY <1>1, <1>3, <1>4, <1>5
<1>8. QED
  BY <1>5, <1>6, <1>7

LEMMA CreateKept ==
    ASSUME NEW fs, NEW d, NEW D, NEW fr, NEW ret, NEW u, NEW pk, NEW ak,
           Kept(fs, d, D, fr, ret, u, pk, ak), Active \notin DOMAIN d
    PROVE  LET i == NewInode(fs)
               c == Named(d, Active, i)
           IN  Kept(Named(fs, i, Empty), c, D \cup {c}, fr, ret, u, pk, ak) /\ Active \in DOMAIN c
<1> DEFINE i == NewInode(fs)
           fs1 == Named(fs, i, Empty)
           c == Named(d, Active, i)
           E == D \cup {c}
<1>1. DiskInv(fs, d, D, fr, ret, u)
  BY DEF Kept
<1>2. DiskInv(fs1, c, E, fr, ret, u)
  BY <1>1, CreateStep
<1>3. /\ i \notin DOMAIN fs /\ DOMAIN fs1 = DOMAIN fs \cup {i} /\ fs1[i] = Empty
      /\ \A j \in DOMAIN fs : fs1[j] = fs[j]
      /\ Range(c) = Range(d) \cup {i} /\ DOMAIN c = DOMAIN d \cup {Active}
  BY <1>1, CreateStep
<1>4. \A x \in E : x \in D \/ Range(d) \subseteq Range(x)
  BY <1>3
<1> HIDE DEF i, fs1, c, E
<1>5. Present(fs1, c, pk, ret) /\ Survives(fs1, E, ak, ret)
  <2>1. Present(fs, d, pk, ret) /\ Survives(fs, D, ak, ret) /\ d \in D
        /\ \A x \in D : Range(x) \subseteq DOMAIN fs
    BY InRange DEF Kept, DiskInv, DirsOK, DirOK
  <2>2. \A x \in D : \A j \in Range(x) : fs1[j] = fs[j]
    BY <1>3, <2>1
  <2>3. Range(d) \subseteq Range(c)
    BY <1>3
  <2>4. QED
    BY <1>4, <2>1, <2>2, <2>3, MoreKeeps
<1>6. ASSUME Durable, NEW j \in DOMAIN fs1 PROVE Settled(fs1[j])
  <2>1. CASE j \in DOMAIN fs
    BY <1>3, <1>6, <2>1 DEF Kept
  <2>2. CASE j = i
    BY <1>3, <2>2, EmptyFacts
  <2>3. QED
    BY <1>3, <2>1, <2>2
<1>7. QED
  BY <1>2, <1>3, <1>5, <1>6 DEF Kept, i, fs1, c, E

\* What a rotation, complete or not, leaves.
Rotated(fr, u, pk, synced) ==
    /\ Kept(files', dir', dirDisk', fr, gone', u, pk, acked)
    /\ DOMAIN files' = UNION {Range(x) : x \in dirDisk'}
    /\ synced => dirDisk' = {dir'}
    /\ cutoff' \in Nat
    /\ handle' \in {"open", "broken", "none"}
    /\ handle' \in {"open", "broken"} => Active \in DOMAIN dir'

\* A rotation, from the name it gives to the active file: the directories it makes,
\* and what is gone when the name was an archive's.
Renamed(n) == Named(without(dir, {Active}), n, dir[Active])
Created(fs, n) == Named(Renamed(n), Active, NewInode(fs))
WithNew(fs) == Named(fs, NewInode(fs), Empty)
Lost(fs, n) == gone \cup UNION {Mentioned(fs[dir[m]].lines) : m \in {n} \cap DOMAIN dir}

Removes(fs, n, R, synced) ==
    /\ gone' = Lost(fs, n) \cup UNION {Mentioned(WithNew(fs)[Created(fs, n)[m]].lines) : m \in R}
    /\ Settle(WithNew(fs), without(Created(fs, n), R),
              {Renamed(n)} \cup {without(Created(fs, n), S) : S \in SUBSET R}, synced)

Rotates(fs, n, synced, fault) ==
    \/ /\ \E R \in applyRetention(Created(fs, n), now, fault) : Removes(fs, n, R, synced)
       /\ handle' = "open"
       /\ cutoff' = IF cutoff # 0 /\ now >= cutoff THEN nextRotationCutoff(now) ELSE cutoff
    \/ /\ Settle(fs, dir, {}, synced)
       /\ handle' \in {"broken", "open", "none"}
       /\ UNCHANGED <<cutoff, gone>>
    \/ /\ Settle(fs, Renamed(n), {}, synced)
       /\ handle' = "none" /\ gone' = Lost(fs, n)
       /\ UNCHANGED cutoff

LEMMA RotateCases ==
    ASSUME NEW fs, NEW synced, NEW fault, rotate(fs, synced, fault)
    PROVE  \E n \in nextArchivePath(dir, now, fault) : Rotates(fs, n, synced, fault)
<1> DEFINE lost(n, R) == UNION ({Mentioned(Content(Created(fs, n), WithNew(fs), m)) : m \in R}
                                \cup {Mentioned(Content(dir, fs, m)) : m \in {n} \cap DOMAIN dir})
<1>1. PICK n \in nextArchivePath(dir, now, fault) :
         \/ /\ \E R \in applyRetention(Created(fs, n), now, fault) :
                  /\ gone' = gone \cup lost(n, R)
                  /\ Settle(WithNew(fs), without(Created(fs, n), R),
                            {Renamed(n)} \cup {without(Created(fs, n), S) : S \in SUBSET R}, synced)
            /\ handle' = "open"
            /\ cutoff' = IF cutoff # 0 /\ now >= cutoff THEN nextRotationCutoff(now) ELSE cutoff
         \/ /\ handle' \in {"broken", "open", "none"}
            /\ Settle(fs, dir, {}, synced)
            /\ UNCHANGED <<cutoff, gone>>
         \/ /\ handle' = "none"
            /\ Settle(fs, Renamed(n), {}, synced)
            /\ gone' = gone \cup lost(n, {})
            /\ UNCHANGED cutoff
  BY DEF rotate, Renamed, Created, WithNew
<1>2. ASSUME NEW R
      PROVE  gone \cup lost(n, R)
             = Lost(fs, n) \cup UNION {Mentioned(WithNew(fs)[Created(fs, n)[m]].lines) : m \in R}
  BY DEF Lost, Content
<1>3. gone \cup lost(n, {}) = Lost(fs, n)
  BY DEF Lost, Content
<1> HIDE DEF lost
<1>4. QED
  BY <1>1, <1>2, <1>3 DEF Rotates, Removes

LEMMA LostFacts ==
    ASSUME NEW fs, NEW fr, FilesOK(fs), DirsOK(fs, dir, dirDisk), HistoryOK(fs, dir, fr, gone), NEW n
    PROVE  /\ gone \subseteq Lost(fs, n) /\ Lost(fs, n) \subseteq 1..fr - 1
           /\ n \in DOMAIN dir => Mentioned(fs[dir[n]].lines) \subseteq Lost(fs, n)
<1>1. ASSUME n \in DOMAIN dir PROVE Mentioned(fs[dir[n]].lines) \subseteq 1..fr - 1
  <2>1. dir[n] \in DOMAIN fs
    BY <1>1 DEF DirsOK, DirOK
  <2>2. QED
    BY <2>1 DEF FilesOK, HistoryOK
<1>2. \A e \in Lost(fs, n) : e \in gone \/ (n \in DOMAIN dir /\ e \in Mentioned(fs[dir[n]].lines))
  BY DEF Lost
<1>3. n \in DOMAIN dir => Mentioned(fs[dir[n]].lines) \subseteq Lost(fs, n)
  BY DEF Lost
<1>4. gone \subseteq Lost(fs, n)
  BY DEF Lost
<1>5. QED
  BY <1>1, <1>2, <1>3, <1>4 DEF HistoryOK

LEMMA RotateStep ==
    ASSUME config \in Configs, now \in Nat, cutoff \in Nat,
           NEW fs, NEW fr, NEW u, NEW pk, Kept(fs, dir, dirDisk, fr, gone, u, pk, acked),
           Active \in DOMAIN dir, NEW synced, NEW fault, rotate(fs, synced, fault)
    PROVE  Rotated(fr, u, pk, synced)
<1>1. DiskInv(fs, dir, dirDisk, fr, gone, u) /\ FilesOK(fs) /\ DirsOK(fs, dir, dirDisk)
      /\ HistoryOK(fs, dir, fr, gone)
  BY DEF Kept, DiskInv
<1>2. IsFiniteSet(DOMAIN dir) /\ dir \in dirDisk /\ dir[Active] \in DOMAIN fs
  BY <1>1 DEF DirsOK, DirOK
<1>3. PICK name \in nextArchivePath(dir, now, fault) : Rotates(fs, name, synced, fault)
  BY RotateCases
<1>4. name \in Nat \X Nat /\ name # Active
  BY <1>2, NextArchiveFacts
<1> DEFINE r == Renamed(name)
           c == Created(fs, name)
           fs1 == WithNew(fs)
           ret == Lost(fs, name)
           D1 == dirDisk \cup {r}
           D2 == D1 \cup {c}
<1>5. Kept(fs, r, D1, fr, ret, u, pk, acked) /\ Active \notin DOMAIN r
  <2>1. Durable => Settled(fs[dir[Active]])
    BY <1>2 DEF Kept
  <2>2. gone \subseteq ret /\ ret \subseteq 1..fr - 1
        /\ (name \in DOMAIN dir => Mentioned(fs[dir[name]].lines) \subseteq ret)
    BY <1>1, LostFacts
  <2> HIDE DEF ret
  <2>3. /\ DiskInv(fs, r, D1, fr, ret, u) /\ Active \notin DOMAIN r
        /\ Covers(fs, dir, r, ret)
    BY <1>1, <1>4, <2>1, <2>2, RenameStep DEF Renamed, Covers
  <2> HIDE DEF r
  <2>4. \A x \in D1 : x \in dirDisk \/ Covers(fs, dir, x, ret)
    BY <2>3
  <2>5. Present(fs, dir, pk, gone) /\ Survives(fs, dirDisk, acked, gone)
    BY DEF Kept
  <2> HIDE DEF D1
  <2>6. Present(fs, r, pk, ret) /\ Survives(fs, D1, acked, ret)
    BY <1>1, <2>2, <2>3, <2>4, <2>5, LackKeeps
  <2>7. DiskInv(fs, r, D1, fr, ret, u) /\ Active \notin DOMAIN r
    BY <2>3 DEF D1
  <2>8. Durable => \A i \in DOMAIN fs : Settled(fs[i])
    BY DEF Kept
  <2>9. QED
    BY <2>6, <2>7, <2>8 DEF Kept
<1>6. CASE Settle(fs, r, {}, synced) /\ handle' = "none" /\ gone' = ret /\ UNCHANGED cutoff
  <2>1. dirDisk \cup {} \cup {r} \subseteq D1
    OBVIOUS
  <2> HIDE DEF r, D1, ret
  <2>2. /\ Kept(files', dir', dirDisk', fr, ret, u, pk, acked)
        /\ DOMAIN files' = UNION {Range(x) : x \in dirDisk'} /\ (synced => dirDisk' = {dir'})
    BY <1>5, <1>6, <2>1, SettleStep
  <2>3. QED
    BY <1>6, <2>2 DEF Rotated
<1>7. CASE /\ Settle(fs, dir, {}, synced) /\ handle' \in {"broken", "open", "none"}
           /\ UNCHANGED <<cutoff, gone>>
  <2>1. dirDisk \cup {} \cup {dir} \subseteq dirDisk
    BY <1>2
  <2>2. /\ Kept(files', dir', dirDisk', fr, gone, u, pk, acked) /\ dir' = dir
        /\ DOMAIN files' = UNION {Range(x) : x \in dirDisk'} /\ (synced => dirDisk' = {dir'})
    BY <1>7, <2>1, SettleStep
  <2>3. QED
    BY <1>7, <2>2 DEF Rotated
<1>8. CASE /\ \E R \in applyRetention(c, now, fault) : Removes(fs, name, R, synced)
           /\ handle' = "open"
           /\ cutoff' = IF cutoff # 0 /\ now >= cutoff THEN nextRotationCutoff(now) ELSE cutoff
  <2> HIDE DEF r, D1, ret
  <2>1. Kept(fs1, c, D2, fr, ret, u, pk, acked) /\ Active \in DOMAIN c
    BY <1>5, CreateKept DEF Created, WithNew, r
  <2>2. DiskInv(fs1, c, D2, fr, ret, u)
        /\ Present(fs1, c, pk, ret) /\ Survives(fs1, D2, acked, ret)
    BY <2>1 DEF Kept
  <2>3. Durable => \A j \in DOMAIN fs1 : Settled(fs1[j])
    BY <2>1 DEF Kept
  <2>4. PICK R \in applyRetention(c, now, fault) :
           /\ gone' = ret \cup UNION {Mentioned(fs1[c[n]].lines) : n \in R}
           /\ Settle(fs1, without(c, R), {r} \cup {without(c, S) : S \in SUBSET R}, synced)
    BY <1>8 DEF Removes, ret, r
  <2> HIDE DEF c, fs1
  <2> DEFINE w == without(c, R)
             ds == {r} \cup {without(c, S) : S \in SUBSET R}
             D3 == D2 \cup {without(c, S) : S \in SUBSET R} \cup {w}
             ret2 == ret \cup UNION {Mentioned(fs1[c[n]].lines) : n \in R}
  <2>5. R \subseteq DOMAIN c \ {Active}
    BY RetentionFacts
  <2>6. DiskInv(fs1, w, D3, fr, ret2, u)
    BY <2>1, <2>2, <2>5, RemoveStep
  <2>7. Present(fs1, w, pk, ret2) /\ Survives(fs1, D3, acked, ret2)
    <3>1. FilesOK(fs1) /\ DirsOK(fs1, c, D2)
      BY <2>2 DEF DiskInv
    <3>2. \A x \in D3 : x \in D2 \/ \E S \in SUBSET R : x = without(c, S)
      OBVIOUS
    <3>3. ret \subseteq ret2 /\ \A n \in R : Mentioned(fs1[c[n]].lines) \subseteq ret2
      OBVIOUS
    <3>4. w = without(c, R)
      OBVIOUS
    <3> HIDE DEF w, D2, D3, ret2
    <3>5. QED
      BY <2>2, <3>1, <3>2, <3>3, <3>4, RemoveKeeps
  <2>8. dirDisk \cup ds \cup {w} \subseteq D3
    BY DEF D1
  <2>9. Active \in DOMAIN w
    BY <2>1, <2>5 DEF without
  <2> HIDE DEF w, ds, D3, ret2
  <2>10. Kept(fs1, w, D3, fr, ret2, u, pk, acked)
    BY <2>3, <2>6, <2>7 DEF Kept
  <2>11. Settle(fs1, w, ds, synced) /\ gone' = ret2
    BY <2>4 DEF w, ds, ret2
  <2>12. /\ Kept(files', dir', dirDisk', fr, ret2, u, pk, acked) /\ dir' = w
         /\ DOMAIN files' = UNION {Range(x) : x \in dirDisk'} /\ (synced => dirDisk' = {dir'})
    BY <2>8, <2>10, <2>11, SettleStep
  <2>13. cutoff' \in Nat
    BY <1>8, CutoffType
  <2>14. QED
    BY <1>8, <2>9, <2>11, <2>12, <2>13 DEF Rotated
<1>9. QED
  BY <1>3, <1>6, <1>7, <1>8 DEF Rotates

LEMMA RotateIfNeededStep ==
    ASSUME config \in Configs, now \in Nat, cutoff \in Nat, handle = "open",
           NEW fs, NEW fr, NEW u, NEW pk, Kept(fs, dir, dirDisk, fr, gone, u, pk, acked),
           Active \in DOMAIN dir, NEW wasEmpty, NEW synced, NEW fault,
           rotateIfNeeded(fs, wasEmpty, synced, fault)
    PROVE  Rotated(fr, u, pk, synced)
<1>1. CASE rotate(fs, synced, fault)
  BY <1>1, RotateStep
<1>2. CASE /\ Settle(fs, dir, {}, synced) /\ UNCHANGED <<handle, gone>>
           /\ cutoff' = cutoff \/ cutoff' = nextRotationCutoff(now)
  <2>1. dirDisk \cup {} \cup {dir} \subseteq dirDisk
    BY DEF Kept, DiskInv, DirsOK
  <2>2. /\ Kept(files', dir', dirDisk', fr, gone, u, pk, acked) /\ dir' = dir
        /\ DOMAIN files' = UNION {Range(x) : x \in dirDisk'} /\ (synced => dirDisk' = {dir'})
    BY <1>2, <2>1, SettleStep
  <2>3. cutoff' \in Nat
    BY <1>2, CutoffType
  <2>4. QED
    BY <1>2, <2>2, <2>3 DEF Rotated
<1>3. QED
  BY <1>1, <1>2 DEF rotateIfNeeded

-----------------------------------------------------------------------------
(* The invariant of the store.                                             *)

Inv == FilesInv /\ Present(files, dir, acked, gone) /\ AckedSurvivesCrash

LEMMA InvDisk ==
    ASSUME Inv
    PROVE  /\ DiskInv(files, dir, dirDisk, fresh, gone, Durable \/ crashes = 0)
           /\ Present(files, dir, acked, gone) /\ Survives(files, dirDisk, acked, gone)
<1>1. JSONLTypeOK /\ DirInv /\ HistoryInv /\ SettledInv /\ UniqueInv
  BY DEF Inv, FilesInv
<1>2. FilesOK(files) /\ DirsOK(files, dir, dirDisk) /\ HistoryOK(files, dir, fresh, gone)
  BY <1>1 DEF JSONLTypeOK, DirInv, HistoryInv, FilesOK, DirsOK, DirOK, HistoryOK
<1>3. SettledOK(files, dir)
  BY <1>1 DEF SettledInv, SettledOK, Settled
<1>4. (Durable \/ crashes = 0) => UniqueOK(files, dir, dirDisk, gone)
  BY <1>1 DEF UniqueInv, UniqueOK, dirs, contents, One
<1>5. QED
  BY <1>2, <1>3, <1>4 DEF DiskInv, Inv, AckedSurvivesCrash, Survives

\* The state after a call has the invariant.
LEMMA InvPrimed ==
    ASSUME config \in Configs, UNCHANGED config,
           DiskInv(files', dir', dirDisk', fresh', gone', Durable \/ crashes' = 0),
           Present(files', dir', acked', gone'), Survives(files', dirDisk', acked', gone'),
           DOMAIN files' = UNION {Range(x) : x \in dirDisk'},
           handle' \in {"open", "broken", "none", "closed", "down"},
           handle' \in {"open", "broken"} => Active \in DOMAIN dir',
           sticky' \in BOOLEAN, cutoff' \in Nat,
           now' \in Nat, latest' \in Nat, now' <= latest',
           fresh' \in 1..NumEntries + 1, acked' \cup failed' \subseteq 1..fresh' - 1,
           faults' \in 0..MaxFaults, crashes' \in 0..MaxCrashes
    PROVE  Inv'
<1>1. FilesOK(files') /\ DirsOK(files', dir', dirDisk') /\ HistoryOK(files', dir', fresh', gone')
      /\ SettledOK(files', dir')
      /\ (Durable \/ crashes' = 0 => UniqueOK(files', dir', dirDisk', gone'))
  BY DEF DiskInv
<1>2. Durable' = Durable /\ MaxFaults' = MaxFaults /\ MaxCrashes' = MaxCrashes
  BY DEF Durable, MaxFaults, MaxCrashes
<1>3. JSONLTypeOK'
  BY <1>1, <1>2 DEF JSONLTypeOK, FilesOK, DirsOK
<1>4. DirInv'
  BY <1>1 DEF DirInv, DirsOK, DirOK
<1>5. HistoryInv'
  BY <1>1 DEF HistoryInv, HistoryOK
<1>6. SettledInv'
  BY <1>1, <1>2 DEF SettledInv, SettledOK, Settled
<1>7. UniqueInv'
  BY <1>1, <1>2 DEF UniqueInv, UniqueOK, dirs, contents, One
<1>8. UniqueIdentity'
  <2>1. SUFFICES ASSUME Durable \/ crashes' = 0, NEW e \in Entries \ gone',
                        NEW p \in Hits(e)', NEW q \in Hits(e)'
                 PROVE  p = q
    BY <1>2 DEF UniqueIdentity
  <2>2. UniqueOK(files', dir', dirDisk', gone')
    BY <1>1, <2>1
  <2>3. dir' \in dirs(dir', dirDisk') /\ \A i \in Range(dir') : files'[i].lines \in contents(files'[i])
    <3>1. Range(dir') \subseteq DOMAIN files'
      BY <1>1, InRange DEF DirsOK, DirOK
    <3>2. QED
      BY <1>1, <3>1 DEF dirs, contents, DirsOK, FilesOK
  <2>4. ASSUME NEW i \in Range(dir'), NEW k \in Documents(e, files'[i].lines)
        PROVE  e \in Ids(files'[i].lines)
    BY <2>4, InIds DEF Documents
  <2>5. PICK i \in Range(dir') : \E k \in Documents(e, files'[i].lines) : p = <<i, k>>
    BY <2>1 DEF Hits
  <2>6. PICK k \in Documents(e, files'[i].lines) : p = <<i, k>>
    BY <2>5
  <2>7. PICK j \in Range(dir') : \E l \in Documents(e, files'[j].lines) : q = <<j, l>>
    BY <2>1 DEF Hits
  <2>8. PICK l \in Documents(e, files'[j].lines) : q = <<j, l>>
    BY <2>7
  <2>9. e \in (Ids(files'[i].lines) \cap Ids(files'[j].lines)) \ gone'
    BY <2>1, <2>4, <2>6, <2>8
  <2>10. i = j /\ One(e, files'[i].lines)
    BY <2>2, <2>3, <2>9 DEF UniqueOK
  <2>11. k = l
    BY <2>6, <2>8, <2>10 DEF One
  <2>12. QED
    BY <2>6, <2>8, <2>10, <2>11
<1>9. AckedSurvivesCrash'
  BY <1>2 DEF AckedSurvivesCrash, Survives
<1>10. Present(files, dir, acked, gone)'
  BY DEF Present
<1>11. QED
  BY <1>3, <1>4, <1>5, <1>6, <1>7, <1>8, <1>9, <1>10 DEF Inv, FilesInv

\* What a caller may append: entries that no retained file holds.
LEMMA BatchFacts ==
    ASSUME Inv, NEW b \in Batches
    PROVE  LET fr2 == IF b[1] = fresh THEN fresh + Len(b) ELSE fresh
           IN  /\ b \in Seq(Entries) /\ IsInjective(b)
               /\ fresh \in Nat /\ fr2 \in 1..NumEntries + 1 /\ fresh <= fr2
               /\ ToSet(b) \subseteq 1..fr2 - 1
               /\ \A j \in Range(dir) : \A e \in ToSet(b) : e \notin Ids(files[j].lines)
<1> DEFINE fr2 == IF b[1] = fresh THEN fresh + Len(b) ELSE fresh
<1>1. /\ config \in Configs /\ fresh \in 1..NumEntries + 1 /\ NumEntries \in Nat /\ MaxBatch \in Nat
      /\ MaxAppends \in 0..NumEntries /\ failed \subseteq 1..fresh - 1
  <2>1. config \in Configs /\ fresh \in 1..NumEntries + 1 /\ failed \subseteq 1..fresh - 1
    BY DEF Inv, FilesInv, JSONLTypeOK, HistoryInv
  <2>2. QED
    BY <2>1, JSONLAssumption DEF MaxAppends
<1>2. ASSUME NEW k \in 1..MaxBatch, fresh + k - 1 <= MaxAppends, b = [j \in 1..k |-> fresh + j - 1]
      PROVE  /\ b \in Seq(Entries) /\ IsInjective(b)
             /\ fresh \in Nat /\ fr2 \in 1..NumEntries + 1 /\ fresh <= fr2
             /\ ToSet(b) \subseteq 1..fr2 - 1
             /\ \A j \in Range(dir) : \A e \in ToSet(b) : e \notin Ids(files[j].lines)
  <2>1. k \in Nat /\ 1 \in 1..k /\ \A j \in 1..k : fresh + j - 1 \in Entries
    BY <1>1, <1>2 DEF Entries
  <2>2. b \in Seq(Entries) /\ Len(b) = k /\ DOMAIN b = 1..k /\ \A j \in 1..k : b[j] = fresh + j - 1
    BY <1>2, <2>1, IsASeq, LenProperties
  <2>3. b[1] = fresh
    BY <1>1, <2>1, <2>2
  <2>4. fr2 = fresh + k
    BY <2>2, <2>3
  <2>5. IsInjective(b)
    BY <1>1, <2>2 DEF IsInjective
  <2>6. \A e \in ToSet(b) : e \in fresh..fresh + k - 1
    BY <1>1, <2>2 DEF ToSet
  <2>7. ASSUME NEW j \in Range(dir), NEW e \in ToSet(b) PROVE e \notin Ids(files[j].lines)
    <3>1. j \in DOMAIN files
      BY InvDisk, InRange DEF DiskInv, DirsOK, DirOK
    <3>2. files[j].lines \in files[j].disk
      BY <3>1, InvDisk DEF DiskInv, FilesOK
    <3>3. Mentioned(files[j].lines) \subseteq 1..fresh - 1
      BY <3>1, <3>2, InvDisk DEF DiskInv, HistoryOK
    <3>4. e \notin 1..fresh - 1
      BY <1>1, <2>6
    <3>5. QED
      BY <3>3, <3>4 DEF Ids
  <2>8. fresh \in Nat /\ fresh + k \in 1..NumEntries + 1 /\ fresh <= fresh + k
        /\ fresh..fresh + k - 1 \subseteq 1..fresh + k - 1
    BY <1>1, <1>2
  <2>9. QED
    BY <2>2, <2>4, <2>5, <2>6, <2>7, <2>8
<1>3. ASSUME NEW e \in failed, LookupEntry(e) = "absent", b = <<e>>
      PROVE  /\ b \in Seq(Entries) /\ IsInjective(b)
             /\ fresh \in Nat /\ fr2 \in 1..NumEntries + 1 /\ fresh <= fr2
             /\ ToSet(b) \subseteq 1..fr2 - 1
             /\ \A j \in Range(dir) : \A x \in ToSet(b) : x \notin Ids(files[j].lines)
  <2>1. e \in 1..fresh - 1 /\ e \in Entries /\ e # fresh
    BY <1>1, <1>3 DEF Entries
  <2>2. b \in Seq(Entries) /\ Len(b) = 1 /\ DOMAIN b = {1} /\ b[1] = e
    BY <1>3, <2>1
  <2>3. fr2 = fresh /\ ToSet(b) = {e} /\ IsInjective(b)
    BY <2>1, <2>2 DEF ToSet, IsInjective
  <2>4. Hits(e) = {}
    BY <1>3 DEF LookupEntry
  <2>5. ASSUME NEW j \in Range(dir), e \in Ids(files[j].lines) PROVE FALSE
    <3>1. PICK k \in Documents(e, files[j].lines) : TRUE
      BY <2>5, InIds DEF Documents
    <3>2. <<j, k>> \in Hits(e)
      BY DEF Hits
    <3>3. QED
      BY <2>4, <3>2
  <2>6. QED
    BY <1>1, <2>1, <2>2, <2>3, <2>5
<1>4. CASE \E k \in 1..MaxBatch : fresh + k - 1 <= MaxAppends /\ b = [j \in 1..k |-> fresh + j - 1]
  BY <1>2, <1>4
<1>5. CASE \E e \in failed : LookupEntry(e) = "absent" /\ b = <<e>>
  BY <1>3, <1>5
<1>6. QED
  BY <1>4, <1>5 DEF Batches

\* A durable store writes behind complete lines only.
LEMMA WritableSound ==
    ASSUME Inv, Writable, Durable
    PROVE  Sound(files[dir[Active]].lines)
<1> DEFINE c == files[dir[Active]].lines
<1>1. Active \in DOMAIN dir
  BY DEF Inv, FilesInv, JSONLTypeOK, Writable
<1>2. dir[Active] \in DOMAIN files
  BY <1>1, InvDisk DEF DiskInv, DirsOK, DirOK
<1>3. c \in Seq(Lines) /\ Tidy(c)
  BY <1>2, InvDisk DEF DiskInv, FilesOK, SettledOK
<1>4. CleanTail(c)
  BY DEF Writable, Content
<1> HIDE DEF c
<1>5. Len(c) \in Nat
  BY <1>3, SeqFacts
<1>6. ASSUME NEW k \in 1..Len(c) PROVE c[k].whole /\ c[k].nl
  <2>1. CASE k < Len(c)
    BY <1>3, <2>1 DEF Tidy
  <2>2. CASE k = Len(c)
    <3>1. c # <<>>
      BY <1>5, <1>6, EmptyContent
    <3>2. QED
      BY <1>3, <1>4, <2>2, <3>1 DEF Tidy, CleanTail
  <2>3. QED
    BY <1>5, <1>6, <2>1, <2>2
<1>7. QED
  BY <1>6 DEF Sound, c

-----------------------------------------------------------------------------
(* The operations.                                                         *)

LEMMA FreshMore ==
    ASSUME NEW fs, NEW d, NEW D, NEW fr \in Nat, NEW ret, NEW u, DiskInv(fs, d, D, fr, ret, u),
           NEW fr2 \in Nat, fr <= fr2
    PROVE  DiskInv(fs, d, D, fr2, ret, u)
<1>1. 1..fr - 1 \subseteq 1..fr2 - 1
  OBVIOUS
<1>2. HistoryOK(fs, d, fr2, ret)
  BY <1>1 DEF DiskInv, HistoryOK
<1>3. QED
  BY <1>2 DEF DiskInv

LEMMA ChargeFacts ==
    ASSUME Inv, NEW fault, Charge(fault)
    PROVE  faults' \in 0..MaxFaults
<1>1. config \in Configs /\ faults \in 0..MaxFaults
  BY DEF Inv, FilesInv, JSONLTypeOK
<1>2. MaxFaults \in Nat
  BY <1>1, JSONLAssumption DEF MaxFaults
<1>3. QED
  BY <1>1, <1>2 DEF Charge

LEMMA InvScalars ==
    ASSUME Inv
    PROVE  /\ config \in Configs /\ DOMAIN files = UNION {Range(x) : x \in dirDisk}
           /\ handle \in {"open", "broken", "none", "closed", "down"}
           /\ handle \in {"open", "broken"} => Active \in DOMAIN dir
           /\ sticky \in BOOLEAN /\ cutoff \in Nat
           /\ now \in Nat /\ latest \in Nat /\ now <= latest
           /\ fresh \in 1..NumEntries + 1 /\ acked \cup failed \subseteq 1..fresh - 1
           /\ faults \in 0..MaxFaults /\ crashes \in 0..MaxCrashes
BY DEF Inv, FilesInv, JSONLTypeOK, HistoryInv

\* A call that returned nil vouches for what is present, and in durable mode for what
\* the synced files hold.
LEMMA AckedFacts ==
    ASSUME NEW fr, NEW u, DiskInv(files', dir', dirDisk', fr, gone', u), NEW ids,
           Present(files', dir', acked \cup ids, gone'), acked \cup ids \subseteq 1..fr - 1,
           Durable => dirDisk' = {dir'} /\ \A i \in Range(dir') : Settled(files'[i]),
           Acked(ids)
    PROVE  /\ Present(files', dir', acked', gone') /\ Survives(files', dirDisk', acked', gone')
           /\ acked' \subseteq 1..fr - 1 /\ failed' \subseteq failed
<1>1. FilesOK(files') /\ DirOK(files', dir') /\ HistoryOK(files', dir', fr, gone')
  BY DEF DiskInv, DirsOK
<1>2. Range(dir') \subseteq DOMAIN files'
  BY <1>1, InRange DEF DirOK
<1>3. \A i \in Range(dir') : Ids(files'[i].lines) \subseteq Mentioned(files'[i].lines)
  BY DEF Ids
<1>4. \A e \in acked' : e \in acked \cup ids \/ \E i \in Range(dir') : e \in Ids(files'[i].lines)
  BY DEF Acked
<1>5. Present(files', dir', acked', gone')
  BY <1>3, <1>4 DEF Present
<1>6. acked' \subseteq 1..fr - 1
  <2>1. \A i \in Range(dir') : Mentioned(files'[i].lines) \subseteq 1..fr - 1
    BY <1>1, <1>2 DEF HistoryOK, FilesOK
  <2>2. QED
    BY <1>3, <1>4, <2>1
<1>7. Survives(files', dirDisk', acked', gone')
  <2>1. CASE Durable
    <3>1. Survives(files', {dir'}, acked', gone')
      BY <1>1, <1>5, <2>1, SettledSurvives
    <3>2. QED
      BY <2>1, <3>1
  <2>2. CASE ~Durable
    BY <2>2 DEF Survives
  <2>3. QED
    BY <2>1, <2>2
<1>8. QED
  BY <1>5, <1>6, <1>7 DEF Acked

LEMMA AppendRefusedStep ==
    ASSUME Inv, NEW b \in Batches, AppendRefused(b)
    PROVE  Inv'
<1> DEFINE fr2 == IF b[1] = fresh THEN fresh + Len(b) ELSE fresh
<1>1. fresh \in Nat /\ fr2 \in 1..NumEntries + 1 /\ fresh <= fr2 /\ ToSet(b) \subseteq 1..fr2 - 1
  BY BatchFacts
<1>2. fresh' = fr2 /\ failed' = failed \cup ToSet(b) /\ acked' = acked
  BY DEF AppendRefused, Failed, Submitted
<1> HIDE DEF fr2
<1>3. UNCHANGED <<config, files, dir, dirDisk, handle, sticky, cutoff, now, latest, gone, crashes>>
  BY DEF AppendRefused, diskVars, clockVars
<1>4. fr2 \in Nat /\ 1..fresh - 1 \subseteq 1..fr2 - 1
  BY <1>1
<1>5. DiskInv(files', dir', dirDisk', fresh', gone', Durable \/ crashes' = 0)
  BY <1>1, <1>2, <1>3, <1>4, InvDisk, FreshMore
<1>6. Present(files', dir', acked', gone') /\ Survives(files', dirDisk', acked', gone')
  BY <1>2, <1>3, InvDisk
<1>7. acked' \cup failed' \subseteq 1..fresh' - 1
  BY <1>1, <1>2, <1>4, InvScalars
<1>8. faults' \in 0..MaxFaults
  BY ChargeFacts DEF AppendRefused
<1>9. QED
  BY <1>1, <1>2, <1>3, <1>5, <1>6, <1>7, <1>8, InvScalars, InvPrimed

\* The active file after some of b was written behind its lines.
LEMMA Written ==
    ASSUME Inv, NEW b \in Batches, Writable,
           NEW f \in [lines : Seq(Lines), disk : SUBSET Seq(Lines)], f.lines \in f.disk,
           Grown(f.lines, files[dir[Active]].lines, b),
           \A g \in f.disk : g \in files[dir[Active]].disk \/ Grown(g, files[dir[Active]].lines, b)
    PROVE  LET fs == [files EXCEPT ![dir[Active]] = f]
               fr2 == IF b[1] = fresh THEN fresh + Len(b) ELSE fresh
           IN  /\ DiskInv(fs, dir, dirDisk, fr2, gone, Durable \/ crashes = 0)
               /\ Present(fs, dir, acked, gone) /\ Survives(fs, dirDisk, acked, gone)
               /\ DOMAIN fs = DOMAIN files
<1> DEFINE fr2 == IF b[1] = fresh THEN fresh + Len(b) ELSE fresh
<1>1. /\ fresh \in Nat /\ fr2 \in 1..NumEntries + 1 /\ fresh <= fr2 /\ ToSet(b) \subseteq 1..fr2 - 1
      /\ \A j \in Range(dir) : \A e \in ToSet(b) : e \notin Ids(files[j].lines)
  BY BatchFacts
<1> HIDE DEF fr2
<1>2. Active \in DOMAIN dir
  BY InvScalars DEF Writable
<1>3. Durable => Sound(files[dir[Active]].lines)
  BY WritableSound
<1>4. fr2 \in Nat
  BY <1>1
<1>5. DiskInv([files EXCEPT ![dir[Active]] = f], dir, dirDisk, fr2, gone, Durable \/ crashes = 0)
  <2>1. DiskInv(files, dir, dirDisk, fresh, gone, Durable \/ crashes = 0)
    BY InvDisk
  <2>2. QED
    BY <1>1, <1>2, <1>3, <1>4, <2>1, WriteStep
<1>6. /\ Present([files EXCEPT ![dir[Active]] = f], dir, acked, gone)
      /\ Survives([files EXCEPT ![dir[Active]] = f], dirDisk, acked, gone)
  <2>1. /\ FilesOK(files) /\ DirsOK(files, dir, dirDisk)
        /\ Present(files, dir, acked, gone) /\ Survives(files, dirDisk, acked, gone)
    BY InvDisk DEF DiskInv
  <2>2. QED
    BY <1>2, <1>3, <2>1, WriteKeeps
<1>7. QED
  BY <1>5, <1>6 DEF fr2

\* The contents a write of b may leave.
LEMMA WrittenContents ==
    ASSUME Inv, NEW b \in Batches, Writable
    PROVE  LET c == files[dir[Active]].lines
           IN  /\ dir[Active] \in DOMAIN files /\ Active \in DOMAIN dir /\ dir[Active] \in Range(dir)
               /\ files[dir[Active]] \in [lines : Seq(Lines), disk : SUBSET Seq(Lines)]
               /\ c \in files[dir[Active]].disk /\ c \in Seq(Lines) /\ Grown(c, c, b)
               /\ Grown(Glue(c, Encoded(b)), c, b) /\ ToSet(b) \subseteq Mentioned(Glue(c, Encoded(b)))
               /\ \A w \in Partial(c, b) : Grown(w, c, b)
               /\ Durable => Sound(c) /\ Sound(Glue(c, Encoded(b)))
<1> DEFINE c == files[dir[Active]].lines
<1>1. Active \in DOMAIN dir
  BY InvScalars DEF Writable
<1>2. dir[Active] \in DOMAIN files /\ dir[Active] \in Range(dir)
  BY <1>1, InvDisk, InRange DEF DiskInv, DirsOK, DirOK
<1>3. /\ files[dir[Active]] \in [lines : Seq(Lines), disk : SUBSET Seq(Lines)]
      /\ c \in files[dir[Active]].disk /\ c \in Seq(Lines)
  BY <1>2, InvDisk DEF DiskInv, FilesOK
<1>4. b \in Seq(Entries) /\ IsInjective(b)
  BY BatchFacts
<1>5. Durable => Sound(c)
  BY WritableSound
<1> HIDE DEF c
<1>6. Grown(c, c, b)
  BY <1>3, GrownSame
<1>7. Grown(Glue(c, Encoded(b)), c, b)
  BY <1>3, <1>4, EncodedWrites, GlueGrown
<1>8. ToSet(b) \subseteq Mentioned(Glue(c, Encoded(b)))
  <2>1. /\ Encoded(b) \in Seq(Lines) /\ Len(Encoded(b)) = Len(b)
        /\ \A k \in 1..Len(b) : Encoded(b)[k] = Document(b[k])
    BY <1>4, EncodedWrites DEF Writes
  <2>2. Mentioned(Glue(c, Encoded(b))) = Mentioned(c) \cup Mentioned(Encoded(b))
    BY <1>3, <2>1, GlueFacts
  <2>3. DOMAIN b = 1..Len(b)
    BY <1>4, SeqFacts
  <2>4. ASSUME NEW k \in 1..Len(b) PROVE b[k] \in Mentioned(Encoded(b))
    BY <2>1, DocumentFacts, InMentioned
  <2>5. QED
    BY <2>2, <2>3, <2>4 DEF ToSet
<1>9. ASSUME NEW w \in Partial(c, b) PROVE Grown(w, c, b)
  <2>1. PICK x \in Torn(b) : w = Glue(c, x)
    BY <1>9 DEF Partial
  <2>2. QED
    BY <1>3, <1>4, <2>1, TornWrites, GlueGrown
<1>10. Durable => Sound(Glue(c, Encoded(b)))
  BY <1>3, <1>4, <1>5, GlueSound
<1>11. QED
  BY <1>1, <1>2, <1>3, <1>5, <1>6, <1>7, <1>8, <1>9, <1>10 DEF c

LEMMA AppendRolledBackStep ==
    ASSUME Inv, NEW b \in Batches, AppendRolledBack(b)
    PROVE  Inv'
<1> DEFINE i == dir[Active]
           c == files[i].lines
           full == Glue(c, Encoded(b))
           written == IF sticky THEN {c} ELSE Partial(c, b) \cup (IF Durable THEN {full} ELSE {})
           onDisk == files[i].disk \cup written
           fr2 == IF b[1] = fresh THEN fresh + Len(b) ELSE fresh
<1>1. Writable
  BY DEF AppendRolledBack
<1>2. /\ i \in DOMAIN files /\ files[i] \in [lines : Seq(Lines), disk : SUBSET Seq(Lines)]
      /\ c \in files[i].disk /\ c \in Seq(Lines) /\ Grown(c, c, b) /\ Grown(full, c, b)
      /\ \A w \in Partial(c, b) : Grown(w, c, b)
  BY <1>1, WrittenContents, ZenonT(40)
<1>3. PICK fault \in {~sticky, TRUE} :
         /\ Charge(fault)
         /\ \/ /\ \E ds \in {IF Durable THEN {c} ELSE onDisk} \cup (IF fault THEN {onDisk} ELSE {}) :
                     files' = [files EXCEPT ![i].disk = ds]
               /\ sticky' = FALSE
            \/ /\ fault
               /\ \E w \in written :
                     /\ files' = [files EXCEPT ![i] = [lines |-> w, disk |-> onDisk]]
                     /\ sticky' = (sticky \/ w # full)
  BY DEF AppendRolledBack
<1>4. \A w \in written : Grown(w, c, b)
  BY <1>2
<1> HIDE DEF written
<1>5. \A w \in written : w \in Seq(Lines)
  BY <1>4 DEF Grown
<1>6. onDisk \in SUBSET Seq(Lines) /\ c \in onDisk /\ written \subseteq onDisk
      /\ \A g \in onDisk : g \in files[i].disk \/ Grown(g, c, b)
  BY <1>2, <1>4, <1>5
<1> HIDE DEF onDisk, full
<1>7. \E f \in [lines : Seq(Lines), disk : SUBSET Seq(Lines)] :
         /\ f.lines \in f.disk /\ Grown(f.lines, c, b)
         /\ \A g \in f.disk : g \in files[i].disk \/ Grown(g, c, b)
         /\ files' = [files EXCEPT ![i] = f] /\ sticky' \in BOOLEAN
  <2>1. ASSUME NEW ds \in {{c}, onDisk}, files' = [files EXCEPT ![i].disk = ds], sticky' = FALSE
        PROVE  \E f \in [lines : Seq(Lines), disk : SUBSET Seq(Lines)] :
                  /\ f.lines \in f.disk /\ Grown(f.lines, c, b)
                  /\ \A g \in f.disk : g \in files[i].disk \/ Grown(g, c, b)
                  /\ files' = [files EXCEPT ![i] = f] /\ sticky' \in BOOLEAN
    <3> DEFINE f == [lines |-> c, disk |-> ds]
    <3>1. ds \in SUBSET Seq(Lines) /\ c \in ds /\ \A g \in ds : g \in files[i].disk \/ Grown(g, c, b)
      BY <1>2, <1>6, <2>1
    <3>2. [files[i] EXCEPT !.disk = ds] = f
      BY <1>2
    <3>3. files' = [files EXCEPT ![i] = f]
      BY <1>2, <2>1, <3>2
    <3>4. f \in [lines : Seq(Lines), disk : SUBSET Seq(Lines)] /\ f.lines = c /\ f.disk = ds
      BY <1>2, <3>1
    <3> HIDE DEF f, c, i
    <3>5. QED
      BY <1>2, <2>1, <3>1, <3>3, <3>4
  <2>2. ASSUME NEW w \in written, files' = [files EXCEPT ![i] = [lines |-> w, disk |-> onDisk]],
               sticky' = (sticky \/ w # full)
        PROVE  \E f \in [lines : Seq(Lines), disk : SUBSET Seq(Lines)] :
                  /\ f.lines \in f.disk /\ Grown(f.lines, c, b)
                  /\ \A g \in f.disk : g \in files[i].disk \/ Grown(g, c, b)
                  /\ files' = [files EXCEPT ![i] = f] /\ sticky' \in BOOLEAN
    <3> DEFINE f == [lines |-> w, disk |-> onDisk]
    <3>1. f \in [lines : Seq(Lines), disk : SUBSET Seq(Lines)] /\ f.lines = w /\ f.disk = onDisk
      BY <1>5, <1>6
    <3>2. files' = [files EXCEPT ![i] = f]
      BY <2>2
    <3>3. sticky' \in BOOLEAN
      BY <2>2, InvScalars
    <3> HIDE DEF f, c, i
    <3>4. QED
      BY <1>4, <1>6, <2>2, <3>1, <3>2, <3>3
  <2> HIDE DEF c, i
  <2>3. QED
    BY <1>3, <2>1, <2>2
<1>8. PICK f \in [lines : Seq(Lines), disk : SUBSET Seq(Lines)] :
         /\ f.lines \in f.disk /\ Grown(f.lines, c, b)
         /\ \A g \in f.disk : g \in files[i].disk \/ Grown(g, c, b)
         /\ files' = [files EXCEPT ![i] = f] /\ sticky' \in BOOLEAN
  BY <1>7
<1>9. /\ DiskInv(files', dir, dirDisk, fr2, gone, Durable \/ crashes = 0)
      /\ Present(files', dir, acked, gone) /\ Survives(files', dirDisk, acked, gone)
      /\ DOMAIN files' = DOMAIN files
  BY <1>1, <1>8, Written
<1>10. fresh \in Nat /\ fr2 \in 1..NumEntries + 1 /\ fresh <= fr2 /\ ToSet(b) \subseteq 1..fr2 - 1
  BY BatchFacts
<1>11. fresh' = fr2 /\ failed' = failed \cup ToSet(b) /\ acked' = acked
  BY DEF AppendRolledBack, Failed, Submitted
<1> HIDE DEF fr2, c, i
<1>12. UNCHANGED <<config, dir, dirDisk, handle, cutoff, now, latest, gone, crashes>>
  BY DEF AppendRolledBack, clockVars
<1>13. acked' \cup failed' \subseteq 1..fresh' - 1
  <2>1. 1..fresh - 1 \subseteq 1..fr2 - 1
    BY <1>10
  <2>2. QED
    BY <1>10, <1>11, <2>1, InvScalars
<1>14. faults' \in 0..MaxFaults
  BY <1>3, ChargeFacts
<1>15. DOMAIN files' = UNION {Range(x) : x \in dirDisk'}
  BY <1>9, <1>12, InvScalars
<1>16. QED
  BY <1>8, <1>9, <1>10, <1>11, <1>12, <1>13, <1>14, <1>15, InvScalars, InvPrimed

LEMMA AppendStoredStep ==
    ASSUME Inv, NEW b \in Batches, AppendStored(b)
    PROVE  Inv'
<1> DEFINE i == dir[Active]
           c == files[i].lines
           full == Glue(c, Encoded(b))
           ds == IF Durable THEN {full} ELSE files[i].disk \cup Partial(c, b) \cup {full}
           f == [lines |-> full, disk |-> ds]
           fs == [files EXCEPT ![i] = f]
           fr2 == IF b[1] = fresh THEN fresh + Len(b) ELSE fresh
           u == Durable \/ crashes = 0
<1>1. Writable
  BY DEF AppendStored
<1>2. /\ i \in DOMAIN files /\ i \in Range(dir) /\ Active \in DOMAIN dir
      /\ files[i] \in [lines : Seq(Lines), disk : SUBSET Seq(Lines)]
      /\ Grown(full, c, b) /\ ToSet(b) \subseteq Mentioned(full)
      /\ \A w \in Partial(c, b) : Grown(w, c, b)
      /\ Durable => Sound(full)
  BY <1>1, WrittenContents
<1>3. PICK fault \in BOOLEAN, dirSynced \in BOOLEAN :
         /\ Charge(fault)
         /\ rotateIfNeeded(fs, c = <<>>, Durable /\ dirSynced, fault)
         /\ IF Durable /\ ~dirSynced THEN Failed(b) ELSE Submitted(b) /\ Acked(ToSet(b))
  <2>1. [files EXCEPT ![i] = [lines |-> full,
             disk |-> IF Durable THEN {full} ELSE @.disk \cup Partial(c, b) \cup {full}]] = fs
    OBVIOUS
  <2>2. QED
    BY <2>1 DEF AppendStored
<1>4. /\ fresh \in Nat /\ fr2 \in 1..NumEntries + 1 /\ fresh <= fr2 /\ ToSet(b) \subseteq 1..fr2 - 1
  BY BatchFacts
<1>5. fresh' = fr2
  BY <1>3 DEF Failed, Submitted
<1>6. UNCHANGED <<config, sticky, now, latest, crashes>>
  BY DEF AppendStored, clockVars
<1>7. ds \in SUBSET Seq(Lines) /\ full \in ds /\ full \in Seq(Lines)
      /\ \A g \in ds : g \in files[i].disk \/ Grown(g, c, b)
  <2>1. full \in Seq(Lines) /\ \A w \in Partial(c, b) : w \in Seq(Lines)
    BY <1>2 DEF Grown
  <2> HIDE DEF full, c
  <2>2. QED
    BY <1>2, <2>1
<1>8. Durable => ds = {full}
  OBVIOUS
<1> HIDE DEF ds, full
<1>9. f \in [lines : Seq(Lines), disk : SUBSET Seq(Lines)] /\ f.lines = full /\ f.disk = ds
  BY <1>7
<1> HIDE DEF f
<1>10. /\ DiskInv(fs, dir, dirDisk, fr2, gone, u) /\ DOMAIN fs = DOMAIN files
       /\ Present(fs, dir, acked, gone) /\ Survives(fs, dirDisk, acked, gone)
  <2>1. f.lines \in f.disk /\ Grown(f.lines, c, b) /\ \A g \in f.disk : g \in files[i].disk \/ Grown(g, c, b)
    BY <1>2, <1>7, <1>9
  <2>2. QED
    BY <1>1, <1>9, <2>1, Written
<1>11. fs[i] = f /\ \A j \in DOMAIN files : j # i => fs[j] = files[j]
  BY <1>2
<1> HIDE DEF fs, fr2, u, c
<1>12. Present(fs, dir, acked \cup ToSet(b), gone)
  <2>1. ASSUME NEW e \in ToSet(b) PROVE e \in Mentioned(fs[i].lines)
    BY <1>2, <1>9, <1>11
  <2>2. QED
    BY <1>2, <1>10, <2>1 DEF Present
<1>13. ASSUME Durable, NEW j \in DOMAIN fs PROVE Settled(fs[j])
  <2>1. CASE j = i
    BY <1>2, <1>8, <1>9, <1>11, <1>13, <2>1 DEF Settled
  <2>2. CASE j # i
    BY <1>10, <1>13, <2>2 DEF DiskInv, SettledOK
  <2>3. QED
    BY <2>1, <2>2
<1>14. Kept(fs, dir, dirDisk, fr2, gone, u, acked \cup ToSet(b), acked)
  BY <1>10, <1>12, <1>13 DEF Kept
<1>15. Rotated(fr2, u, acked \cup ToSet(b), Durable /\ dirSynced)
  <2>1. config \in Configs /\ now \in Nat /\ cutoff \in Nat /\ handle = "open"
    BY <1>1, InvScalars DEF Writable
  <2> DEFINE empty == (c = <<>>)
             synced == Durable /\ dirSynced
  <2>2. rotateIfNeeded(fs, empty, synced, fault)
    BY <1>3
  <2> HIDE DEF empty, synced
  <2>3. Rotated(fr2, u, acked \cup ToSet(b), synced)
    BY <1>2, <1>14, <2>1, <2>2, RotateIfNeededStep
  <2>4. QED
    BY <2>3 DEF synced
<1>16. /\ Kept(files', dir', dirDisk', fr2, gone', u, acked \cup ToSet(b), acked)
       /\ DOMAIN files' = UNION {Range(x) : x \in dirDisk'}
       /\ (Durable /\ dirSynced => dirDisk' = {dir'})
       /\ cutoff' \in Nat /\ handle' \in {"open", "broken", "none"}
       /\ (handle' \in {"open", "broken"} => Active \in DOMAIN dir')
  BY <1>15 DEF Rotated
<1>17. /\ DiskInv(files', dir', dirDisk', fr2, gone', u)
       /\ Present(files', dir', acked \cup ToSet(b), gone') /\ Survives(files', dirDisk', acked, gone')
       /\ (Durable => \A j \in DOMAIN files' : Settled(files'[j]))
  BY <1>16 DEF Kept
<1>18. 1..fresh - 1 \subseteq 1..fr2 - 1
  BY <1>4
<1>19. acked \cup ToSet(b) \subseteq 1..fr2 - 1 /\ failed \subseteq 1..fr2 - 1
  BY <1>4, <1>18, InvScalars
<1>20. /\ Present(files', dir', acked', gone') /\ Survives(files', dirDisk', acked', gone')
       /\ acked' \cup failed' \subseteq 1..fr2 - 1
  <2>1. CASE Durable /\ ~dirSynced
    <3>1. failed' = failed \cup ToSet(b) /\ acked' = acked
      BY <1>3, <2>1 DEF Failed
    <3>2. Present(files', dir', acked, gone')
      BY <1>17 DEF Present
    <3>3. QED
      BY <1>17, <1>19, <3>1, <3>2
  <2>2. CASE ~(Durable /\ ~dirSynced)
    <3>1. Acked(ToSet(b))
      BY <1>3, <2>2
    <3>2. Durable => dirDisk' = {dir'} /\ \A j \in Range(dir') : Settled(files'[j])
      <4>1. Range(dir') \subseteq DOMAIN files'
        BY <1>17, InRange DEF DiskInv, DirsOK, DirOK
      <4>2. QED
        BY <1>16, <1>17, <2>2, <4>1
    <3>3. /\ Present(files', dir', acked', gone') /\ Survives(files', dirDisk', acked', gone')
          /\ acked' \subseteq 1..fr2 - 1 /\ failed' \subseteq failed
      BY <1>17, <1>19, <3>1, <3>2, AckedFacts
    <3>4. QED
      BY <1>19, <3>3
  <2>3. QED
    BY <2>1, <2>2
<1>21. faults' \in 0..MaxFaults
  BY <1>3, ChargeFacts
<1>22. DiskInv(files', dir', dirDisk', fresh', gone', Durable \/ crashes' = 0)
  BY <1>5, <1>6, <1>17 DEF u
<1>23. QED
  BY <1>4, <1>5, <1>6, <1>16, <1>20, <1>21, <1>22, InvScalars, InvPrimed

\* Directory x and content c[i] of each of its files are all there is on disk.
LEMMA SnapshotStep ==
    ASSUME NEW fs, NEW d, NEW D, NEW fr, NEW ret, NEW u, DiskInv(fs, d, D, fr, ret, u),
           NEW x \in D, NEW c, \A i \in Range(x) : c[i] \in fs[i].disk,
           NEW u2, u2 => u /\ Durable
    PROVE  LET fs2 == [i \in Range(x) |-> [lines |-> c[i], disk |-> {c[i]}]]
           IN  DiskInv(fs2, x, {x}, fr, ret, u2)
<1> DEFINE fs2 == [i \in Range(x) |-> [lines |-> c[i], disk |-> {c[i]}]]
<1>1. FilesOK(fs) /\ DirsOK(fs, d, D) /\ HistoryOK(fs, d, fr, ret) /\ SettledOK(fs, d)
      /\ (u => UniqueOK(fs, d, D, ret))
  BY DEF DiskInv
<1>2. DirOK(fs, x) /\ Range(x) \subseteq DOMAIN fs
  BY <1>1, InRange DEF DirsOK, DirOK
<1>3. DOMAIN fs2 = Range(x) /\ \A i \in Range(x) : fs2[i] = [lines |-> c[i], disk |-> {c[i]}]
  OBVIOUS
<1> HIDE DEF fs2
<1>4. \A i \in Range(x) : fs2[i].lines = c[i] /\ fs2[i].disk = {c[i]}
  BY <1>3
<1>5. \A i \in Range(x) : c[i] \in Seq(Lines)
  BY <1>1, <1>2 DEF FilesOK
<1>6. FilesOK(fs2)
  <2>1. IsFiniteSet(DOMAIN fs2)
    BY <1>1, <1>2, <1>3, FS_Subset DEF FilesOK
  <2>2. \A i \in Range(x) : fs2[i] \in [lines : Seq(Lines), disk : SUBSET Seq(Lines)]
    BY <1>3, <1>5
  <2>3. QED
    BY <1>1, <1>2, <1>3, <1>4, <2>1, <2>2 DEF FilesOK
<1>7. DirsOK(fs2, x, {x})
  <2>1. x \in [DOMAIN x -> DOMAIN fs2]
    BY <1>2, <1>3, InRange DEF DirOK
  <2>2. DirOK(fs2, x)
    BY <1>2, <2>1 DEF DirOK
  <2>3. \A n \in DOMAIN x : Active \in DOMAIN x /\ x[n] = x[Active] => n = Active
    BY <1>2 DEF DirOK, IsInjective
  <2>4. QED
    BY <2>2, <2>3 DEF DirsOK
<1>8. HistoryOK(fs2, x, fr, ret)
  BY <1>1, <1>2, <1>3, <1>4 DEF HistoryOK
<1>9. SettledOK(fs2, x)
  <2>1. SUFFICES ASSUME Durable, NEW i \in Range(x)
                 PROVE  Tidy(c[i]) /\ ((Active \in DOMAIN x /\ i = x[Active]) \/ Sound(c[i]))
    BY <1>3, <1>4 DEF SettledOK, Settled
  <2>2. Tidy(c[i])
    BY <1>1, <1>2, <2>1 DEF SettledOK
  <2>3. CASE Active \in DOMAIN d /\ i = d[Active]
    <3>1. PICK n \in DOMAIN x : x[n] = i
      BY <2>1, InRange
    <3>2. n = Active
      BY <1>1, <2>3, <3>1 DEF DirsOK
    <3>3. QED
      BY <2>2, <3>1, <3>2
  <2>4. CASE Settled(fs[i])
    BY <2>1, <2>2, <2>4 DEF Settled
  <2>5. QED
    BY <1>1, <1>2, <2>1, <2>3, <2>4 DEF SettledOK
<1>10. ASSUME u2 PROVE UniqueOK(fs2, x, {x}, ret)
  <2>1. UniqueOK(fs, d, D, ret) /\ Durable
    BY <1>1, <1>10
  <2>2. \A i \in Range(x) : contents(fs2[i]) = {c[i]} /\ c[i] \in contents(fs[i])
    BY <1>4, <2>1 DEF contents
  <2>3. dirs(x, {x}) = {x} /\ x \in dirs(d, D)
    BY <2>1 DEF dirs
  <2>4. QED
    BY <2>1, <2>2, <2>3 DEF UniqueOK
<1>11. QED
  BY <1>6, <1>7, <1>8, <1>9, <1>10 DEF DiskInv, fs2

\* A lookup that finds a record has read every line.
LEMMA FoundFacts ==
    ASSUME Inv, NEW e, LookupEntry(e) = "found"
    PROVE  /\ \A i \in Range(dir) : Sound(files[i].lines)
           /\ \E i \in Range(dir) : e \in Mentioned(files[i].lines)
<1>1. /\ \A i \in Range(dir) : \A l \in ToSet(files[i].lines) : l.whole /\ l.nl
      /\ Hits(e) # {}
  BY DEF LookupEntry
<1>2. ASSUME NEW i \in Range(dir) PROVE Sound(files[i].lines)
  <2>1. files[i].lines \in Seq(Lines)
    BY InvDisk, InRange DEF DiskInv, FilesOK, DirsOK, DirOK
  <2>2. \A k \in 1..Len(files[i].lines) : files[i].lines[k] \in ToSet(files[i].lines)
    BY <2>1, SeqFacts DEF ToSet
  <2>3. QED
    BY <1>1, <2>2 DEF Sound
<1>3. PICK i \in Range(dir) : Documents(e, files[i].lines) # {}
  BY <1>1 DEF Hits
<1>4. e \in Mentioned(files[i].lines)
  BY <1>3, InMentioned DEF Documents
<1>5. QED
  BY <1>2, <1>4

LEMMA SyncedFile ==
    ASSUME NEW f \in [lines : Seq(Lines), disk : SUBSET Seq(Lines)], NEW ds
    PROVE  [f EXCEPT !.disk = ds] = [lines |-> f.lines, disk |-> ds]
OBVIOUS

LEMMA ConfirmStep ==
    ASSUME Inv, NEW e, Confirm(e)
    PROVE  Inv'
<1> DEFINE u == Durable \/ crashes = 0
<1>1. /\ e \in failed /\ LookupEntry(e) = "found" /\ Acked({e})
      /\ UNCHANGED <<config, handle, sticky, cutoff, now, latest, fresh, gone, faults, crashes>>
  BY DEF Confirm, clockVars
<1>2. /\ \A i \in Range(dir) : Sound(files[i].lines)
      /\ \E i \in Range(dir) : e \in Mentioned(files[i].lines)
  BY <1>1, FoundFacts
<1>3. /\ DiskInv(files, dir, dirDisk, fresh, gone, u)
      /\ Present(files, dir, acked, gone) /\ dir \in dirDisk
      /\ \A i \in Range(dir) : /\ files[i] \in [lines : Seq(Lines), disk : SUBSET Seq(Lines)]
                               /\ files[i].lines \in files[i].disk
  BY InvDisk, InRange DEF DiskInv, FilesOK, DirsOK, DirOK
<1>4. /\ DiskInv(files', dir', dirDisk', fresh, gone, u) /\ dir' = dir
      /\ \A i \in Range(dir) : files'[i].lines = files[i].lines
      /\ DOMAIN files' = UNION {Range(x) : x \in dirDisk'}
      /\ (Durable => dirDisk' = {dir'} /\ \A i \in Range(dir') : Settled(files'[i]))
  <2>1. CASE Durable
    <3> DEFINE c == [i \in Range(dir) |-> files[i].lines]
               fs2 == [i \in Range(dir) |-> [lines |-> c[i], disk |-> {c[i]}]]
    <3>1. dir' = dir /\ dirDisk' = {dir}
          /\ files' = [i \in Range(dir) |-> [files[i] EXCEPT !.disk = {files[i].lines}]]
      BY <2>1 DEF Confirm, Sync
    <3>2. \A i \in Range(dir) : c[i] = files[i].lines
      OBVIOUS
    <3>3. ASSUME NEW i \in Range(dir)
          PROVE  [files[i] EXCEPT !.disk = {files[i].lines}] = [lines |-> c[i], disk |-> {c[i]}]
      <4>1. files[i] \in [lines : Seq(Lines), disk : SUBSET Seq(Lines)]
        BY <1>3
      <4>2. [files[i] EXCEPT !.disk = {files[i].lines}] = [lines |-> files[i].lines, disk |-> {files[i].lines}]
        BY <4>1, SyncedFile
      <4>3. QED
        BY <3>2, <4>2
    <3>4. files' = fs2
      BY <3>1, <3>3
    <3> HIDE DEF c
    <3>5. \A i \in Range(dir) : c[i] \in files[i].disk
      BY <1>3, <3>2
    <3> HIDE DEF u
    <3>6. u => u /\ Durable
      BY <2>1
    <3>7. DiskInv(fs2, dir, {dir}, fresh, gone, u)
      BY <1>3, <3>5, <3>6, SnapshotStep
    <3>8. DOMAIN fs2 = Range(dir) /\ \A i \in Range(dir) : fs2[i].lines = c[i] /\ fs2[i].disk = {c[i]}
      OBVIOUS
    <3> HIDE DEF fs2
    <3>9. \A i \in Range(dir) : Settled(fs2[i])
      BY <1>2, <3>2, <3>8 DEF Settled
    <3>10. UNION {Range(x) : x \in {dir}} = Range(dir)
      OBVIOUS
    <3>11. QED
      BY <3>1, <3>2, <3>4, <3>7, <3>8, <3>9, <3>10
  <2>2. CASE ~Durable
    <3>1. UNCHANGED <<files, dir, dirDisk>>
      BY <2>2 DEF Confirm, diskVars
    <3>2. QED
      BY <1>3, <2>2, <3>1, InvScalars
  <2>3. QED
    BY <2>1, <2>2
<1> HIDE DEF u
<1>5. Present(files', dir', acked \cup {e}, gone')
  <2>1. \A i \in Range(dir) : Mentioned(files'[i].lines) = Mentioned(files[i].lines)
    BY <1>4
  <2>2. QED
    BY <1>1, <1>2, <1>3, <1>4, <2>1 DEF Present
<1>6. acked \cup {e} \subseteq 1..fresh - 1
  BY <1>1, InvScalars
<1>7. /\ Present(files', dir', acked', gone') /\ Survives(files', dirDisk', acked', gone')
      /\ acked' \subseteq 1..fresh - 1 /\ failed' \subseteq failed
  <2>1. DiskInv(files', dir', dirDisk', fresh, gone', u)
    BY <1>1, <1>4
  <2>2. QED
    BY <1>1, <1>4, <1>5, <1>6, <2>1, AckedFacts
<1>8. DiskInv(files', dir', dirDisk', fresh', gone', Durable \/ crashes' = 0)
  BY <1>1, <1>4 DEF u
<1>9. acked' \cup failed' \subseteq 1..fresh' - 1
  BY <1>1, <1>7, InvScalars
<1>10. QED
  BY <1>1, <1>4, <1>7, <1>8, <1>9, InvScalars, InvPrimed

LEMMA CloseStep ==
    ASSUME Inv, Close
    PROVE  Inv'
<1>1. UNCHANGED <<config, files, dir, dirDisk, sticky, cutoff, now, latest, fresh, acked, failed, gone, crashes>>
  BY DEF Close, diskVars, callerVars, clockVars
<1>2. handle' \in {"broken", "closed"} /\ (handle' = "broken" => handle \in {"open", "broken"})
  BY DEF Close
<1>3. faults' \in 0..MaxFaults
  BY ChargeFacts DEF Close
<1>4. QED
  BY <1>1, <1>2, <1>3, InvScalars, InvDisk, InvPrimed

LEMMA CrashStep ==
    ASSUME Inv, Crash
    PROVE  Inv'
<1>1. /\ crashes < MaxCrashes /\ crashes' = crashes + 1 /\ handle' = "down" /\ sticky' = FALSE
      /\ acked' = (IF Durable THEN acked ELSE {}) /\ failed' = {}
      /\ UNCHANGED <<config, cutoff, now, latest, fresh, gone, faults>>
  BY DEF Crash, clockVars
<1>2. PICK d \in dirDisk :
         \E c : /\ \A i \in Range(d) : c[i] \in files[i].disk
                /\ files' = [i \in Range(d) |-> [lines |-> c[i], disk |-> {c[i]}]]
                /\ dir' = d /\ dirDisk' = {d}
  BY DEF Crash
<1>3. PICK c : /\ \A i \in Range(d) : c[i] \in files[i].disk
               /\ files' = [i \in Range(d) |-> [lines |-> c[i], disk |-> {c[i]}]]
               /\ dir' = d /\ dirDisk' = {d}
  BY <1>2
<1>4. crashes \in 0..MaxCrashes /\ MaxCrashes \in Nat
  <2>1. config \in Configs /\ crashes \in 0..MaxCrashes
    BY InvScalars
  <2>2. QED
    BY <2>1, JSONLAssumption DEF MaxCrashes
<1>5. crashes' \in 0..MaxCrashes /\ crashes' # 0
  BY <1>1, <1>4
<1>6. DiskInv(files', dir', dirDisk', fresh', gone', Durable \/ crashes' = 0)
  <2> DEFINE u == Durable \/ crashes = 0
             u2 == Durable \/ crashes' = 0
  <2>1. DiskInv(files, dir, dirDisk, fresh, gone, u)
    BY InvDisk
  <2>2. u2 => u /\ Durable
    BY <1>5
  <2> HIDE DEF u, u2
  <2>3. DiskInv([i \in Range(d) |-> [lines |-> c[i], disk |-> {c[i]}]], d, {d}, fresh, gone, u2)
    BY <1>3, <2>1, <2>2, SnapshotStep
  <2>4. QED
    BY <1>1, <1>3, <2>3 DEF u2
<1>7. DOMAIN files' = Range(d) /\ UNION {Range(x) : x \in {d}} = Range(d)
      /\ \A i \in Range(d) : files'[i].disk = {c[i]}
  BY <1>3
<1>8. Survives(files', dirDisk', acked', gone')
  <2>1. SUFFICES ASSUME Durable, NEW e \in acked \ gone
                 PROVE  \E i \in Range(d) : Document(e) \in ToSet(c[i])
    BY <1>1, <1>3, <1>7 DEF Survives
  <2>2. PICK i \in Range(d) : \A g \in files[i].disk : Document(e) \in ToSet(g)
    BY <2>1, InvDisk DEF Survives
  <2>3. QED
    BY <1>3, <2>2
<1>9. Present(files', dir', acked', gone')
  <2>1. CASE Durable
    <3>1. FilesOK(files') /\ DirsOK(files', dir', dirDisk')
      BY <1>6 DEF DiskInv
    <3>2. QED
      BY <1>8, <2>1, <3>1, SurvivesPresent
  <2>2. CASE ~Durable
    BY <1>1, <2>2 DEF Present
  <2>3. QED
    BY <2>1, <2>2
<1>10. acked' \cup failed' \subseteq 1..fresh' - 1
  BY <1>1, InvScalars
<1>11. DOMAIN files' = UNION {Range(x) : x \in dirDisk'}
  BY <1>3, <1>7
<1>12. QED
  BY <1>1, <1>5, <1>6, <1>8, <1>9, <1>10, <1>11, InvScalars, InvPrimed

LEMMA NewJSONLStoreStep ==
    ASSUME Inv, NewJSONLStore
    PROVE  Inv'
<1> DEFINE u == Durable \/ crashes = 0
<1>1. /\ handle' = "open" /\ cutoff' = nextRotationCutoff(now)
      /\ UNCHANGED <<config, sticky, now, latest, fresh, acked, failed, gone, faults, crashes>>
  BY DEF NewJSONLStore, callerVars, clockVars
<1>2. cutoff' \in Nat
  BY <1>1, InvScalars, CutoffType
<1>3. /\ DiskInv(files, dir, dirDisk, fresh, gone, u)
      /\ Present(files, dir, acked, gone) /\ Survives(files, dirDisk, acked, gone)
  BY InvDisk
<1>4. /\ DiskInv(files', dir', dirDisk', fresh, gone, u)
      /\ Present(files', dir', acked, gone) /\ Survives(files', dirDisk', acked, gone)
      /\ DOMAIN files' = UNION {Range(x) : x \in dirDisk'} /\ Active \in DOMAIN dir'
  <2>1. CASE Active \in DOMAIN dir
    <3>1. UNCHANGED <<files, dir, dirDisk>>
      BY <2>1 DEF NewJSONLStore, diskVars
    <3>2. QED
      BY <1>3, <2>1, <3>1, InvScalars
  <2>2. CASE Active \notin DOMAIN dir
    <3> DEFINE i == NewInode(files)
               fs1 == Named(files, i, Empty)
               c == Named(dir, Active, i)
               D == dirDisk \cup {c}
    <3>1. Settle(fs1, c, {}, FALSE)
      BY <2>2 DEF NewJSONLStore
    <3>2. Kept(files, dir, dirDisk, fresh, gone, u, acked, acked)
      BY <1>3, <2>2 DEF Kept, DiskInv, SettledOK
    <3> HIDE DEF u
    <3>3. Kept(fs1, c, D, fresh, gone, u, acked, acked) /\ Active \in DOMAIN c
      BY <2>2, <3>2, CreateKept
    <3>4. dirDisk \cup {} \cup {c} \subseteq D
      OBVIOUS
    <3> HIDE DEF fs1, c, D
    <3>5. /\ Kept(files', dir', dirDisk', fresh, gone, u, acked, acked) /\ dir' = c
          /\ DOMAIN files' = UNION {Range(x) : x \in dirDisk'}
      BY <3>1, <3>3, <3>4, SettleStep
    <3>6. QED
      BY <3>3, <3>5 DEF Kept
  <2>3. QED
    BY <2>1, <2>2
<1>5. DiskInv(files', dir', dirDisk', fresh', gone', Durable \/ crashes' = 0)
  BY <1>1, <1>4
<1>6. QED
  BY <1>1, <1>2, <1>4, <1>5, InvScalars, InvPrimed

LEMMA TickStep ==
    ASSUME Inv, Tick
    PROVE  Inv'
<1>1. /\ now' \in 0..MaxTime \ {now} /\ latest' = Max({latest, now'})
      /\ UNCHANGED <<config, files, dir, dirDisk, handle, sticky, cutoff, fresh, acked, failed,
                     gone, faults, crashes>>
  BY DEF Tick, diskVars, callerVars
<1>2. now' \in Nat /\ latest \in Nat
  BY <1>1, InvScalars
<1>3. latest' \in Nat /\ now' <= latest'
  BY <1>1, <1>2, MaxOfTwo
<1>4. QED
  BY <1>1, <1>2, <1>3, InvScalars, InvDisk, InvPrimed

LEMMA StutterStep ==
    ASSUME Inv, UNCHANGED vars
    PROVE  Inv'
<1>1. UNCHANGED <<config, files, dir, dirDisk, handle, sticky, cutoff, now, latest, fresh, acked, failed,
                  gone, faults, crashes>>
  BY DEF vars, diskVars, callerVars, clockVars
<1>2. QED
  BY <1>1, InvScalars, InvDisk, InvPrimed

LEMMA InvInit ==
    ASSUME Init
    PROVE  Inv
<1>1. /\ config \in Configs /\ files = [i \in {1} |-> Empty] /\ dir = [n \in {Active} |-> 1]
      /\ dirDisk = {dir} /\ handle = "open" /\ sticky = FALSE /\ now = 0 /\ latest = 0
      /\ cutoff = nextRotationCutoff(0) /\ fresh = 1
      /\ acked = {} /\ failed = {} /\ gone = {} /\ faults = 0 /\ crashes = 0
  BY DEF Init
<1>2. /\ DOMAIN files = {1} /\ files[1] = Empty /\ DOMAIN dir = {Active} /\ dir[Active] = 1
      /\ Range(dir) = {1} /\ UNION {Range(d) : d \in dirDisk} = {1}
  <2>1. DOMAIN files = {1} /\ files[1] = Empty /\ DOMAIN dir = {Active} /\ dir[Active] = 1
    BY <1>1
  <2>2. \A i : i \in Range(dir) <=> i = 1
    BY <2>1, InRange
  <2>3. QED
    BY <1>1, <2>1, <2>2
<1>3. files[1].lines = <<>> /\ files[1].disk = {<<>>}
      /\ files[1] \in [lines : Seq(Lines), disk : SUBSET Seq(Lines)]
      /\ Settled(files[1]) /\ Tidy(<<>>)
  BY <1>2, EmptyFacts
<1>4. JSONLTypeOK
  <2>1. cutoff \in Nat
    BY <1>1, CutoffType
  <2>2. NumEntries \in Nat /\ MaxFaults \in Nat /\ MaxCrashes \in Nat
    BY <1>1, JSONLAssumption DEF MaxFaults, MaxCrashes
  <2>3. IsFiniteSet({1})
    BY FS_Singleton
  <2>4. fresh \in 1..NumEntries + 1 /\ faults \in 0..MaxFaults /\ crashes \in 0..MaxCrashes
        /\ now \in Nat /\ latest \in Nat /\ now <= latest
    BY <1>1, <2>2
  <2>5. /\ DOMAIN files \subseteq Nat /\ IsFiniteSet(DOMAIN files) /\ dir \in dirDisk
        /\ DOMAIN files = UNION {Range(d) : d \in dirDisk}
    <3>1. {1} \subseteq Nat
      OBVIOUS
    <3>2. QED
      BY <1>1, <1>2, <2>3, <3>1, Zenon
  <2>6. QED
    BY <1>1, <1>2, <1>3, <2>1, <2>4, <2>5 DEF JSONLTypeOK
<1>5. DirInv
  <2>1. IsFiniteSet({Active})
    BY FS_Singleton
  <2>2. dir \in [DOMAIN dir -> DOMAIN files]
    BY <1>1, <1>2
  <2>3. QED
    BY <1>1, <1>2, <2>1, <2>2 DEF DirInv, IsInjective, Names
<1>6. HistoryInv
  BY <1>1, <1>2, <1>3, EmptyContent DEF HistoryInv
<1>7. SettledInv
  BY <1>1, <1>2, <1>3 DEF SettledInv, Settled
<1>8. UniqueInv
  <2>1. \A i \in Range(dir) : \A c \in files[i].disk : Ids(c) = {}
    BY <1>2, <1>3, EmptyContent
  <2>2. \A i \in Range(dir) : Ids(files[i].lines) = {}
    BY <1>2, <1>3, EmptyContent
  <2>3. QED
    BY <1>1, <2>1, <2>2 DEF UniqueInv
<1>9. UniqueIdentity
  <2>1. \A e : Documents(e, <<>>) = {}
    BY EmptyContent DEF Documents
  <2>2. \A e : Hits(e) = {}
    BY <1>2, <1>3, <2>1 DEF Hits
  <2>3. QED
    BY <2>2 DEF UniqueIdentity
<1>10. Present(files, dir, acked, gone) /\ AckedSurvivesCrash
  BY <1>1 DEF Present, AckedSurvivesCrash
<1>11. QED
  BY <1>4, <1>5, <1>6, <1>7, <1>8, <1>9, <1>10 DEF Inv, FilesInv

LEMMA InvStep ==
    ASSUME Inv, [Next]_vars
    PROVE  Inv'
<1>1. ASSUME NEW b \in Batches, appendBatch(b) PROVE Inv'
  BY <1>1, AppendRefusedStep, AppendRolledBackStep, AppendStoredStep DEF appendBatch
<1>2. ASSUME NEW e \in Entries, Confirm(e) PROVE Inv'
  BY <1>2, ConfirmStep
<1>3. QED
  BY <1>1, <1>2, CloseStep, CrashStep, NewJSONLStoreStep, TickStep, StutterStep DEF Next

LEMMA InvAlways ==
    Spec => []Inv
<1>1. Init => Inv
  BY InvInit
<1>2. Inv /\ [Next]_vars => Inv'
  BY InvStep
<1>3. QED
  BY <1>1, <1>2, PTL DEF Spec

\* Every state a crash can leave holds what a durable append or confirmation
\* acknowledged, unless retention removed its archive or a rotation overwrote it
\* (appendBatch's syncs and their order).
THEOREM JSONLAckedSurvives == Spec => []AckedSurvivesCrash
<1>1. Inv => AckedSurvivesCrash
  BY DEF Inv
<1>2. QED
  BY <1>1, InvAlways, PTL

\* LookupEntry never denies a record that was acknowledged, not even one glued to
\* the torn line of an earlier failure, unless its archive was removed or overwritten.
THEOREM JSONLLookup == Spec => []LookupNeverDenies
<1>1. ASSUME Inv, NEW e \in acked \ gone PROVE LookupEntry(e) # "absent"
  <2>1. SUFFICES ASSUME LookupEntry(e) = "absent" PROVE FALSE
    OBVIOUS
  <2>2. /\ \A i \in Range(dir) : \A l \in ToSet(files[i].lines) : l.whole /\ l.nl
        /\ Hits(e) = {}
    BY <2>1 DEF LookupEntry
  <2>3. PICK i \in Range(dir) : e \in Mentioned(files[i].lines)
    BY <1>1 DEF Inv, Present
  <2>4. files[i].lines \in Seq(Lines)
    BY <1>1, <2>3, InvDisk, InRange DEF DiskInv, FilesOK, DirsOK, DirOK
  <2>5. PICK k \in 1..Len(files[i].lines) : e \in files[i].lines[k].ids
    BY <2>3, InMentioned
  <2>6. files[i].lines[k].whole
    BY <2>2, <2>3, <2>4, SeqFacts DEF ToSet
  <2>7. <<i, k>> \in Hits(e)
    BY <2>3, <2>5, <2>6 DEF Hits, Documents
  <2>8. QED
    BY <2>2, <2>7
<1>2. Inv => LookupNeverDenies
  BY <1>1 DEF LookupNeverDenies
<1>3. QED
  BY <1>2, InvAlways, PTL

-----------------------------------------------------------------------------
(* The names of the archives.                                              *)

\* Without max_files, retention removes archives of earlier seconds only.
LEMMA AgedOnly ==
    ASSUME MaxFiles = 0, NEW d, NEW t, NEW fault, NEW R \in applyRetention(d, t, fault)
    PROVE  \A n \in R : n \in DOMAIN d \ {Active} /\ MaxAge > 0 /\ n[1] + MaxAge < t
<1> DEFINE some(S) == IF fault THEN SUBSET S ELSE {S}
           aged == {a \in archivePaths(d) : MaxAge > 0 /\ a[1] + MaxAge < t}
           excess(x) == {a \in archivePaths(x) : MaxFiles > 0
                            /\ Cardinality({b \in archivePaths(x) : NameLess(a, b)}) >= MaxFiles}
<1>1. \A S : \A X \in some(S) : X \subseteq S
  OBVIOUS
<1>2. R \in UNION {{A \cup E : E \in some(excess(without(d, A)))} : A \in some(aged)}
  BY DEF applyRetention
<1>3. \A x : excess(x) = {}
  OBVIOUS
<1>4. \A n \in aged : n \in DOMAIN d \ {Active} /\ MaxAge > 0 /\ n[1] + MaxAge < t
  BY DEF archivePaths
<1> HIDE DEF some, aged, excess
<1>5. PICK A \in some(aged) : \E E \in some(excess(without(d, A))) : R = A \cup E
  BY <1>2
<1>6. R \subseteq aged
  BY <1>1, <1>3, <1>5
<1>7. QED
  BY <1>4, <1>6

LEMMA NameType ==
    ASSUME NEW d, DOMAIN d \subseteq Names, NEW n \in archivePaths(d)
    PROVE  n \in Nat \X Nat /\ n \in DOMAIN d /\ n # Active
BY DEF archivePaths, Names

\* A new archive follows the others of its second, if that is the latest.
LEMMA RenameNames ==
    ASSUME NEW d, DOMAIN d \subseteq Names, IsFiniteSet(DOMAIN d), NEW T \in Nat, Consecutive(d, T),
           NEW t \in Nat, t <= T, NEW fault, NEW name \in nextArchivePath(d, t, fault)
    PROVE  LET r == Named(without(d, {Active}), name, d[Active])
           IN  /\ Consecutive(r, T)
               /\ DOMAIN r = archivePaths(d) \cup {name}
<1> DEFINE r == Named(without(d, {Active}), name, d[Active])
<1>1. /\ name \in Nat \X Nat /\ name # Active
      /\ name[1] = t /\ \A m \in 0..name[2] - 1 : <<t, m>> \in DOMAIN d
  BY NextArchiveFacts
<1>2. DOMAIN r = archivePaths(d) \cup {name}
  BY DEF Named, without, archivePaths
<1> HIDE DEF r
<1>3. archivePaths(r) = DOMAIN r
  BY <1>1, <1>2 DEF archivePaths
<1>4. ASSUME NEW m, <<T, m>> \in DOMAIN d PROVE <<T, m>> \in DOMAIN r
  <2>1. <<T, m>> # Active
    BY DEF Active
  <2>2. QED
    BY <1>2, <1>4, <2>1 DEF archivePaths
<1>5. ASSUME NEW n \in archivePaths(r)
      PROVE  n[1] <= T /\ (n[1] = T => \A m \in 0..n[2] - 1 : <<T, m>> \in DOMAIN r)
  <2>1. CASE n = name
    BY <1>1, <1>4, <2>1
  <2>2. CASE n \in archivePaths(d)
    BY <1>4, <2>2 DEF Consecutive
  <2>3. QED
    BY <1>2, <1>3, <1>5, <2>1, <2>2
<1>6. QED
  BY <1>2, <1>5 DEF Consecutive, r

\* A new active file and the removal of old archives leave the names consecutive.
LEMMA CreateNames ==
    ASSUME NEW d, NEW t, Consecutive(d, t), NEW i
    PROVE  LET c == Named(d, Active, i)
           IN  Consecutive(c, t) /\ archivePaths(c) = archivePaths(d) /\ DOMAIN c = DOMAIN d \cup {Active}
<1> DEFINE c == Named(d, Active, i)
<1>1. DOMAIN c = DOMAIN d \cup {Active}
  BY DEF Named
<1> HIDE DEF c
<1>2. archivePaths(c) = archivePaths(d)
  BY <1>1 DEF archivePaths
<1>3. QED
  BY <1>1, <1>2 DEF Consecutive, c

LEMMA RemoveNames ==
    ASSUME NEW d, DOMAIN d \subseteq Names, NEW t \in Nat, Consecutive(d, t), NEW S,
           \A n \in S : n[1] < t
    PROVE  Consecutive(without(d, S), t)
<1> DEFINE w == without(d, S)
<1>1. DOMAIN w = DOMAIN d \ S
  BY DEF without
<1> HIDE DEF w
<1>2. \A m : <<t, m>> \notin S
  <2>1. ASSUME NEW m, <<t, m>> \in S PROVE FALSE
    <3>1. <<t, m>>[1] < t
      BY <2>1
    <3>2. QED
      BY <3>1
  <2>2. QED
    BY <2>1
<1>3. archivePaths(w) \subseteq archivePaths(d)
  BY <1>1 DEF archivePaths
<1>4. QED
  BY <1>1, <1>2, <1>3 DEF Consecutive, w

LEMMA SettleNames ==
    ASSUME NEW fs, NEW d, NEW ds, NEW synced, Settle(fs, d, ds, synced), NEW t,
           \A x \in dirDisk : Consecutive(x, t), \A x \in ds : Consecutive(x, t), Consecutive(d, t)
    PROVE  \A x \in dirDisk' : Consecutive(x, t)
BY DEF Settle

LEMMA RotateNames ==
    ASSUME Inv, MaxFiles = 0, \A x \in dirDisk : Consecutive(x, latest), Active \in DOMAIN dir,
           NEW fs, NEW synced, NEW fault, rotate(fs, synced, fault)
    PROVE  \A x \in dirDisk' : Consecutive(x, latest)
<1>1. /\ dir \in dirDisk /\ DOMAIN dir \subseteq Names /\ IsFiniteSet(DOMAIN dir)
      /\ now \in Nat /\ latest \in Nat /\ now <= latest
  BY InvDisk, InvScalars DEF DiskInv, DirsOK, DirOK
<1>2. PICK name \in nextArchivePath(dir, now, fault) : Rotates(fs, name, synced, fault)
  BY RotateCases
<1> DEFINE r == Renamed(name)
           c == Created(fs, name)
           fs1 == WithNew(fs)
<1>3. Consecutive(r, latest) /\ DOMAIN r = archivePaths(dir) \cup {name}
  <2>1. Consecutive(dir, latest)
    BY <1>1
  <2> HIDE DEF r
  <2>2. QED
    BY <1>1, <2>1, RenameNames DEF Renamed, r
<1>4. name \in Nat \X Nat
  BY <1>1, NextArchiveFacts
<1> HIDE DEF r
<1>5. Consecutive(c, latest) /\ DOMAIN c = DOMAIN r \cup {Active}
  BY <1>3, CreateNames DEF Created, r
<1> HIDE DEF c
<1>6. DOMAIN c \subseteq Names
  BY <1>1, <1>3, <1>4, <1>5 DEF Names, archivePaths
<1>7. CASE Settle(fs, r, {}, synced)
  BY <1>1, <1>3, <1>7, SettleNames
<1>8. CASE Settle(fs, dir, {}, synced)
  BY <1>1, <1>8, SettleNames
<1>9. CASE \E R \in applyRetention(c, now, fault) : Removes(fs, name, R, synced)
  <2>1. PICK R \in applyRetention(c, now, fault) :
           Settle(fs1, without(c, R), {r} \cup {without(c, S) : S \in SUBSET R}, synced)
    BY <1>9 DEF Removes, r, c
  <2> HIDE DEF fs1
  <2>2. \A n \in R : n \in DOMAIN c \ {Active} /\ MaxAge > 0 /\ n[1] + MaxAge < now
    BY AgedOnly
  <2>3. MaxAge \in Nat
    BY InvScalars, JSONLAssumption DEF MaxAge
  <2>4. ASSUME NEW n \in R PROVE n[1] < latest
    <3>1. n \in Nat \X Nat
      BY <1>6, <2>2 DEF Names
    <3>2. QED
      BY <1>1, <2>2, <2>3, <3>1
  <2>5. \A S \in SUBSET R : Consecutive(without(c, S), latest)
    BY <1>1, <1>5, <1>6, <2>4, RemoveNames
  <2> DEFINE ds == {r} \cup {without(c, S) : S \in SUBSET R}
             w == without(c, R)
  <2>6. Settle(fs1, w, ds, synced) /\ Consecutive(w, latest) /\ \A x \in ds : Consecutive(x, latest)
    BY <1>3, <2>1, <2>5
  <2> HIDE DEF ds, w
  <2>7. QED
    BY <1>1, <2>6, SettleNames
<1>10. QED
  BY <1>2, <1>7, <1>8, <1>9 DEF Rotates, r, c

LEMMA NamesRest ==
    ASSUME NamesInv, UNCHANGED <<config, latest>>, dirDisk' \subseteq dirDisk,
           handle' = "down" => crashes' > 0
    PROVE  NamesInv'
BY DEF NamesInv, MaxFiles

LEMMA NamesStep ==
    ASSUME Inv, NamesInv, [Next]_vars
    PROVE  NamesInv'
<1>1. /\ dir \in dirDisk /\ DOMAIN dir \subseteq Names /\ now \in Nat /\ config \in Configs
      /\ latest \in Nat /\ crashes \in Nat /\ MaxFiles \in Nat
  BY InvDisk, InvScalars, JSONLAssumption DEF DiskInv, DirsOK, DirOK, MaxFiles, MaxCrashes
<1>2. ASSUME NEW b \in Batches, AppendRefused(b) PROVE NamesInv'
  <2>1. UNCHANGED <<config, latest, dirDisk, handle, crashes>>
    BY <1>2 DEF AppendRefused, diskVars, clockVars
  <2>2. QED
    BY <2>1, NamesRest DEF NamesInv
<1>3. ASSUME NEW b \in Batches, AppendRolledBack(b) PROVE NamesInv'
  <2>1. UNCHANGED <<config, latest, dirDisk, handle, crashes>>
    BY <1>3 DEF AppendRolledBack, clockVars
  <2>2. QED
    BY <2>1, NamesRest DEF NamesInv
<1>4. ASSUME NEW b \in Batches, AppendStored(b) PROVE NamesInv'
  <2>1. handle = "open" /\ UNCHANGED <<config, latest, crashes>>
    BY <1>4 DEF AppendStored, Writable, clockVars
  <2>2. PICK fs, empty, synced, fault : rotateIfNeeded(fs, empty, synced, fault)
    BY <1>4 DEF AppendStored
  <2>3. Active \in DOMAIN dir
    BY <2>1, InvScalars
  <2>4. CASE rotate(fs, synced, fault)
    <3>1. handle' # "down"
      BY <2>4 DEF rotate
    <3>2. ASSUME MaxFiles = 0
          PROVE  \A x \in dirDisk' : Consecutive(x, latest)
      BY <2>3, <2>4, <3>2, RotateNames DEF NamesInv
    <3>3. QED
      BY <2>1, <3>1, <3>2 DEF NamesInv, MaxFiles
  <2>5. CASE Settle(fs, dir, {}, synced) /\ UNCHANGED <<handle, gone>>
    <3>1. dirDisk' \subseteq dirDisk
      BY <1>1, <2>5 DEF Settle
    <3>2. QED
      BY <2>1, <2>5, <3>1, NamesRest
  <2>6. QED
    BY <2>2, <2>4, <2>5 DEF rotateIfNeeded
<1>5. ASSUME NEW e, Confirm(e) PROVE NamesInv'
  <2>1. dirDisk' \subseteq dirDisk /\ UNCHANGED <<config, latest, handle, crashes>>
    BY <1>1, <1>5 DEF Confirm, Sync, diskVars, clockVars
  <2>2. QED
    BY <2>1, NamesRest DEF NamesInv
<1>6. ASSUME Close PROVE NamesInv'
  <2>1. UNCHANGED <<config, latest, dirDisk, crashes>> /\ handle' # "down"
    BY <1>6 DEF Close, diskVars, clockVars
  <2>2. QED
    BY <2>1, NamesRest
<1>7. ASSUME Crash PROVE NamesInv'
  <2>1. dirDisk' \subseteq dirDisk /\ UNCHANGED <<config, latest>> /\ crashes' = crashes + 1
    BY <1>7 DEF Crash, clockVars
  <2>2. crashes' > 0
    BY <1>1, <2>1
  <2>3. QED
    BY <2>1, <2>2, NamesRest
<1>8. ASSUME NewJSONLStore PROVE NamesInv'
  <2>1. UNCHANGED <<config, latest, crashes>> /\ handle' = "open"
    BY <1>8 DEF NewJSONLStore, clockVars
  <2>2. CASE UNCHANGED diskVars
    BY <2>1, <2>2, NamesRest DEF diskVars
  <2>3. CASE Settle(Named(files, NewInode(files), Empty), Named(dir, Active, NewInode(files)), {}, FALSE)
    <3>1. ASSUME MaxFiles = 0 PROVE \A x \in dirDisk' : Consecutive(x, latest)
      <4>1. Consecutive(dir, latest) /\ \A x \in dirDisk : Consecutive(x, latest)
        BY <1>1, <3>1 DEF NamesInv
      <4>2. Consecutive(Named(dir, Active, NewInode(files)), latest)
        BY <4>1, CreateNames
      <4> DEFINE fs1 == Named(files, NewInode(files), Empty)
                 c == Named(dir, Active, NewInode(files))
      <4>3. Settle(fs1, c, {}, FALSE) /\ Consecutive(c, latest)
        BY <2>3, <4>2
      <4> HIDE DEF fs1, c
      <4>4. dirDisk' = dirDisk \cup {c}
        BY <4>3 DEF Settle
      <4>5. QED
        BY <4>1, <4>3, <4>4
    <3>2. QED
      BY <2>1, <3>1 DEF NamesInv, MaxFiles
  <2>4. QED
    BY <1>8, <2>2, <2>3 DEF NewJSONLStore
<1>9. ASSUME Tick PROVE NamesInv'
  <2>1. now' \in Nat /\ latest' = Max({latest, now'}) /\ UNCHANGED <<config, dirDisk, handle, crashes>>
    BY <1>9 DEF Tick, diskVars
  <2>2. latest' \in Nat /\ latest <= latest'
    BY <1>1, <2>1, MaxOfTwo
  <2>3. ASSUME NEW x \in dirDisk, Consecutive(x, latest) PROVE Consecutive(x, latest')
    <3>1. DOMAIN x \subseteq Names
      BY InvDisk DEF DiskInv, DirsOK, DirOK
    <3>2. CASE latest' = latest
      BY <2>3, <3>2
    <3>3. CASE latest' # latest
      <4>1. ASSUME NEW n \in archivePaths(x) PROVE n[1] <= latest' /\ n[1] # latest'
        <5>1. n \in Nat \X Nat
          BY <3>1, NameType
        <5>2. n[1] <= latest
          BY <2>3 DEF Consecutive
        <5>3. QED
          BY <1>1, <2>2, <3>3, <5>1, <5>2
      <4>2. QED
        BY <4>1 DEF Consecutive
    <3>4. QED
      BY <3>2, <3>3
  <2>4. QED
    BY <2>1, <2>3 DEF NamesInv, MaxFiles
<1>10. ASSUME UNCHANGED vars PROVE NamesInv'
  BY <1>10, NamesRest DEF NamesInv, vars, diskVars, clockVars
<1>11. QED
  BY <1>2, <1>3, <1>4, <1>5, <1>6, <1>7, <1>8, <1>9, <1>10 DEF Next, appendBatch

LEMMA NamesAlways ==
    Spec => [](Inv /\ NamesInv)
<1>1. ASSUME Init PROVE NamesInv
  <2>1. dirDisk = {dir} /\ DOMAIN dir = {Active} /\ handle = "open"
    BY <1>1 DEF Init
  <2>2. archivePaths(dir) = {}
    BY <2>1 DEF archivePaths
  <2>3. QED
    BY <2>1, <2>2 DEF NamesInv, Consecutive
<1>2. Inv /\ NamesInv /\ [Next]_vars => NamesInv'
  BY NamesStep
<1>3. QED
  BY <1>1, <1>2, InvAlways, PTL DEF Spec

\* The files are well formed and no retained file holds a second document of an
\* identity that was in no removed or overwritten archive, whatever fails, Stat
\* included, whenever the machine stops and however the clock is set (appendBatch,
\* rotate, applyRetention and the lookup that precedes a retry); the archives of the
\* latest second are numbered without a gap (nextArchivePath).
THEOREM JSONLCorrect == Spec => []JSONLInv
<1>1. Inv /\ NamesInv => JSONLInv
  BY DEF Inv, JSONLInv
<1>2. QED
  BY <1>1, NamesAlways, PTL

-----------------------------------------------------------------------------
(* The order in which the files are read.  A call leaves files fs2 and     *)
(* directory d2 in the place of fs and d: what is not gone stays where     *)
(* it is, in the same order, and new lines are read last.                  *)

InodeFirst(d, i, j) == \E a, b \in DOMAIN d : d[a] = i /\ d[b] = j /\ queryPaths(a, b)

Old(fs, d, i, k) == i \in Range(d) /\ k \in 1..Len(fs[i].lines)

\* Content g begins with content c.
Begins(c, g) == \A k \in 1..Len(c) : k \in 1..Len(g) /\ g[k] = c[k]

Keeps(fs, d, fs2, d2, ret2) ==
    \A i \in Range(d) : \/ i \in Range(d2) /\ Begins(fs[i].lines, fs2[i].lines)
                        \/ i \notin Range(d2) /\ Mentioned(fs[i].lines) \subseteq ret2

InOrder(d, d2) ==
    \A i, j \in Range(d) \cap Range(d2) : InodeFirst(d, i, j) => InodeFirst(d2, i, j)

Follows(fs, d, fs2, d2) ==
    /\ InOrder(d, d2)
    /\ \A i \in Range(d2) : \A k \in 1..Len(fs2[i].lines) :
          Old(fs, d, i, k) \/ \A j \in Range(d) \cap Range(d2) : j # i => InodeFirst(d2, j, i)

NothingNew(fs, d, fs2, d2) ==
    \A i \in Range(d2) : \A k \in 1..Len(fs2[i].lines) : Old(fs, d, i, k)

LEMMA InHits ==
    ASSUME NEW e, NEW p \in Hits(e)
    PROVE  \E i \in Range(dir) : \E k \in 1..Len(files[i].lines) :
              p = <<i, k>> /\ files[i].lines[k].whole /\ e \in files[i].lines[k].ids
BY DEF Hits, Documents

LEMMA HitsIn ==
    ASSUME NEW e, NEW i \in Range(dir), NEW k \in 1..Len(files[i].lines),
           files[i].lines[k].whole, e \in files[i].lines[k].ids
    PROVE  <<i, k>> \in Hits(e)
BY DEF Hits, Documents

LEMMA InHitsNext ==
    ASSUME NEW e, NEW p \in Hits(e)'
    PROVE  \E i \in Range(dir') : \E k \in 1..Len(files'[i].lines) :
              p = <<i, k>> /\ files'[i].lines[k].whole /\ e \in files'[i].lines[k].ids
BY DEF Hits, Documents

LEMMA HitsInNext ==
    ASSUME NEW e, NEW i \in Range(dir'), NEW k \in 1..Len(files'[i].lines),
           files'[i].lines[k].whole, e \in files'[i].lines[k].ids
    PROVE  <<i, k>> \in Hits(e)'
BY DEF Hits, Documents

LEMMA Visiting ==
    ASSUME NEW d, NEW i, NEW k, NEW j, NEW l
    PROVE  VisitedFirst(d, <<i, k>>, <<j, l>>) <=> (i = j /\ k < l) \/ InodeFirst(d, i, j)
BY DEF VisitedFirst, InodeFirst

\* What a step does to the documents that it Keeps.
LEMMA KeptHits ==
    ASSUME Keeps(files, dir, files', dir', gone'), NEW x \in Entries \ gone',
           NEW i \in Range(dir), NEW k \in 1..Len(files[i].lines),
           files[i].lines[k].whole, x \in files[i].lines[k].ids
    PROVE  /\ i \in Range(dir') /\ k \in 1..Len(files'[i].lines)
           /\ files'[i].lines[k] = files[i].lines[k] /\ <<i, k>> \in Hits(x)'
<1>1. x \in Mentioned(files[i].lines)
  BY InMentioned
<1>2. i \in Range(dir') /\ Begins(files[i].lines, files'[i].lines)
  BY <1>1 DEF Keeps
<1>3. k \in 1..Len(files'[i].lines) /\ files'[i].lines[k] = files[i].lines[k]
  BY <1>2 DEF Begins
<1>4. QED
  BY <1>2, <1>3, HitsInNext

LEMMA KeptReturned ==
    ASSUME Keeps(files, dir, files', dir', gone'), NEW e \in Entries \ gone', Returned(e)
    PROVE  Returned(e)'
<1>1. PICK p \in Hits(e) : TRUE
  BY DEF Returned
<1>2. PICK i \in Range(dir) : \E k \in 1..Len(files[i].lines) :
         p = <<i, k>> /\ files[i].lines[k].whole /\ e \in files[i].lines[k].ids
  BY <1>1, InHits
<1>3. p \in Hits(e)'
  BY <1>2, KeptHits
<1>4. QED
  BY <1>3 DEF Returned

\* What a step that Keeps and Follows does to the order of the records.
LEMMA FollowsOrder ==
    ASSUME Inv, Keeps(files, dir, files', dir', gone'), Follows(files, dir, files', dir'),
           NEW e \in Entries \ gone', Returned(e), NEW f \in Entries \ gone'
    PROVE  IF Returned(f) THEN ReturnedFirst(e, f) => ReturnedFirst(e, f)'
                          ELSE Returned(f)' => ReturnedFirst(e, f)'
<1>1. PICK p \in Hits(e) : TRUE
  BY DEF Returned
<1>2. PICK i \in Range(dir) : \E k \in 1..Len(files[i].lines) :
         p = <<i, k>> /\ files[i].lines[k].whole /\ e \in files[i].lines[k].ids
  BY <1>1, InHits
<1>3. PICK k \in 1..Len(files[i].lines) :
         p = <<i, k>> /\ files[i].lines[k].whole /\ e \in files[i].lines[k].ids
  BY <1>2
<1>4. p \in Hits(e)' /\ i \in Range(dir')
  BY <1>3, KeptHits
<1>5. ASSUME ReturnedFirst(e, f) PROVE ReturnedFirst(e, f)'
  <2>1. PICK q \in Hits(e), r \in Hits(f) : VisitedFirst(dir, q, r)
    BY <1>5 DEF ReturnedFirst
  <2>2a. PICK m \in Range(dir) : \E x \in 1..Len(files[m].lines) :
           q = <<m, x>> /\ files[m].lines[x].whole /\ e \in files[m].lines[x].ids
    BY <2>1, InHits
  <2>2. PICK x \in 1..Len(files[m].lines) :
           q = <<m, x>> /\ files[m].lines[x].whole /\ e \in files[m].lines[x].ids
    BY <2>2a
  <2>3a. PICK n \in Range(dir) : \E y \in 1..Len(files[n].lines) :
           r = <<n, y>> /\ files[n].lines[y].whole /\ f \in files[n].lines[y].ids
    BY <2>1, InHits
  <2>3. PICK y \in 1..Len(files[n].lines) :
           r = <<n, y>> /\ files[n].lines[y].whole /\ f \in files[n].lines[y].ids
    BY <2>3a
  <2>4. q \in Hits(e)' /\ m \in Range(dir') /\ r \in Hits(f)' /\ n \in Range(dir')
    BY <2>2, <2>3, KeptHits
  <2>5. (m = n /\ x < y) \/ InodeFirst(dir, m, n)
    BY <2>1, <2>2, <2>3, Visiting
  <2>6. (m = n /\ x < y) \/ InodeFirst(dir', m, n)
    BY <2>4, <2>5 DEF Follows, InOrder
  <2>7. VisitedFirst(dir', q, r)
    BY <2>2, <2>3, <2>6, Visiting
  <2>8. QED
    BY <2>4, <2>7 DEF ReturnedFirst
<1>6. ASSUME ~Returned(f), Returned(f)' PROVE ReturnedFirst(e, f)'
  <2>1. PICK r \in Hits(f)' : TRUE
    BY <1>6 DEF Returned
  <2>2a. PICK n \in Range(dir') : \E y \in 1..Len(files'[n].lines) :
           r = <<n, y>> /\ files'[n].lines[y].whole /\ f \in files'[n].lines[y].ids
    BY <2>1, InHitsNext
  <2>2. PICK y \in 1..Len(files'[n].lines) :
           r = <<n, y>> /\ files'[n].lines[y].whole /\ f \in files'[n].lines[y].ids
    BY <2>2a
  <2>3. Len(files[i].lines) \in Nat
    BY InvDisk, InRange, SeqFacts DEF DiskInv, FilesOK, DirsOK, DirOK
  <2>4. ~Old(files, dir, n, y)
    <3>1. SUFFICES ASSUME n \in Range(dir), y \in 1..Len(files[n].lines) PROVE FALSE
      BY DEF Old
    <3>2. files'[n].lines[y] = files[n].lines[y]
      BY <2>2, <3>1 DEF Keeps, Begins
    <3>3. <<n, y>> \in Hits(f)
      BY <2>2, <3>1, <3>2, HitsIn
    <3>4. QED
      BY <1>6, <3>3 DEF Returned
  <2>5. CASE n = i
    <3>1. k < y
      BY <1>3, <2>2, <2>3, <2>4, <2>5 DEF Old
    <3>2. QED
      BY <1>3, <1>4, <2>1, <2>2, <2>5, <3>1, Visiting DEF ReturnedFirst
  <2>6. CASE n # i
    <3>1. InodeFirst(dir', i, n)
      BY <1>3, <1>4, <2>2, <2>4, <2>6 DEF Follows
    <3>2. QED
      BY <1>3, <1>4, <2>1, <2>2, <3>1, Visiting DEF ReturnedFirst
  <2>7. QED
    BY <2>5, <2>6
<1>7. QED
  BY <1>5, <1>6

\* The order of the files survives a rotation that takes a free name: the new archive
\* sorts behind those of its second, and the others keep their names.
LEMMA RenameOrder ==
    ASSUME NEW d, DOMAIN d \subseteq Names, IsFiniteSet(DOMAIN d), IsInjective(d), NEW t \in Nat,
           Active \in DOMAIN d, Consecutive(d, t), NEW fault,
           NEW name \in nextArchivePath(d, t, fault), name \notin DOMAIN d, NEW d2,
           \A n \in archivePaths(d2) : \/ n = name /\ d2[n] = d[Active]
                                       \/ n \in archivePaths(d) /\ d2[n] = d[n],
           \A n \in archivePaths(d2) : n[2] < 10,
           Active \in DOMAIN d2 => d2[Active] \notin Range(d),
           NEW i \in Range(d) \cap Range(d2), NEW j \in Range(d) \cap Range(d2), InodeFirst(d, i, j)
    PROVE  InodeFirst(d2, i, j)
<1>1. /\ name \in Nat \X Nat /\ name \notin DOMAIN d /\ name # Active
      /\ name[1] = t /\ \A m \in 0..name[2] - 1 : <<t, m>> \in DOMAIN d
  BY NextArchiveFacts
<1>2. PICK a \in DOMAIN d, b \in DOMAIN d : d[a] = i /\ d[b] = j /\ queryPaths(a, b)
  BY DEF InodeFirst
<1>3. \A n, m \in DOMAIN d : d[n] = d[m] => n = m
  BY DEF IsInjective
<1>4. PICK a2 \in DOMAIN d2 : d2[a2] = i
  BY InRange
<1>5. PICK b2 \in DOMAIN d2 : d2[b2] = j
  BY InRange
<1>6. a2 # Active /\ b2 # Active /\ a2 \in archivePaths(d2) /\ b2 \in archivePaths(d2)
  BY <1>4, <1>5 DEF archivePaths
<1>7. a # Active /\ a \in archivePaths(d) /\ a \in Nat \X Nat
  BY <1>2 DEF queryPaths, archivePaths, Names
<1>8. a2 = a
  <2>1. a2 = name => d[a] = d[Active]
    BY <1>1, <1>2, <1>4, <1>6 DEF archivePaths
  <2>2. a2 # name
    BY <1>2, <1>3, <1>7, <2>1
  <2>3. a2 \in archivePaths(d) /\ d[a2] = i
    BY <1>4, <1>6, <2>2
  <2>4. QED
    BY <1>2, <1>3, <2>3 DEF archivePaths
<1>9. a[2] < 10 /\ b2[2] < 10
  BY <1>6, <1>8
<1>10. CASE b2 = name
  <2>1. a[1] <= t /\ (a[1] = t => \A m \in 0..a[2] - 1 : <<t, m>> \in DOMAIN d)
    BY <1>7 DEF Consecutive
  <2>2. ASSUME a[1] < t PROVE NameLess(a, b2)
    BY <1>1, <1>10, <2>2 DEF NameLess
  <2>3. ASSUME a[1] = t PROVE NameLess(a, b2)
    <3>1. name = <<t, name[2]>> /\ a = <<t, a[2]>> /\ name[2] \in Nat /\ a[2] \in Nat
      BY <1>1, <1>7, <2>3
    <3>2. name[2] # a[2]
      BY <1>1, <1>2, <3>1
    <3>3. ~(name[2] < a[2])
      <4>1. SUFFICES ASSUME name[2] < a[2] PROVE FALSE
        OBVIOUS
      <4>2. name[2] \in 0..a[2] - 1
        BY <3>1, <4>1
      <4>3. QED
        BY <1>1, <2>1, <2>3, <3>1, <4>2
    <3>4. a[2] < name[2] /\ a[2] < 10 /\ name[2] < 10
      BY <1>9, <1>10, <3>1, <3>2, <3>3
    <3>5. SuffixKey(a[2]) < SuffixKey(name[2])
      BY <3>1, <3>4 DEF SuffixKey
    <3>6. QED
      BY <1>1, <1>10, <2>3, <3>5 DEF NameLess
  <2>4. NameLess(a, b2)
    BY <1>7, <2>1, <2>2, <2>3
  <2>5. QED
    BY <1>4, <1>5, <1>6, <1>8, <2>4 DEF InodeFirst, queryPaths
<1>11. CASE b2 # name
  <2>1. b2 \in archivePaths(d) /\ d[b2] = j
    BY <1>5, <1>6, <1>11
  <2>2. b2 = b
    BY <1>2, <1>3, <2>1 DEF archivePaths
  <2>3. QED
    BY <1>2, <1>4, <1>5, <1>8, <2>2 DEF InodeFirst
<1>12. QED
  BY <1>10, <1>11

\* Nothing that breaks the order of the archives.
Undisturbed == MaxFiles = 0 /\ SuffixesSort' /\ now = latest /\ ~Overwritten

\* What a call that rotated the written files fs left of them.
Moved(fs) ==
    /\ Keeps(fs, dir, files', dir', gone') /\ NothingNew(fs, dir, files', dir')
    /\ \A i \in Range(dir) \cap Range(dir') : files'[i].lines = fs[i].lines
    /\ Undisturbed => /\ InOrder(dir, dir')
                      /\ MaxAge = 0 => Range(dir) \subseteq Range(dir')

LEMMA BeginsSame ==
    ASSUME NEW c
    PROVE  Begins(c, c)
BY DEF Begins

LEMMA SettleFiles ==
    ASSUME NEW fs, NEW d, NEW ds, NEW synced, Settle(fs, d, ds, synced)
    PROVE  dir' = d /\ \A i \in Range(d) : files'[i] = fs[i]
<1>1. dir' = d /\ d \in dirDisk' /\ files' = [i \in UNION {Range(x) : x \in dirDisk'} |-> fs[i]]
  BY DEF Settle
<1>2. QED
  BY <1>1

LEMMA StayMoved ==
    ASSUME NEW fs, dir' = dir, \A i \in Range(dir) : files'[i].lines = fs[i].lines
    PROVE  Moved(fs)
<1>1. Keeps(fs, dir, files', dir', gone')
  BY BeginsSame DEF Keeps
<1>2. NothingNew(fs, dir, files', dir')
  BY DEF NothingNew, Old
<1>3. InOrder(dir, dir')
  BY DEF InOrder
<1>4. QED
  BY <1>1, <1>2, <1>3 DEF Moved

\* A rotation that gave the active file the name `name'.
Archived(fs, name) ==
    /\ \A n \in archivePaths(dir') : \/ n = name /\ dir'[n] = dir[Active]
                                     \/ n \in archivePaths(dir) /\ n # name /\ dir'[n] = dir[n]
    /\ Active \in DOMAIN dir' => /\ dir'[Active] \notin Range(dir)
                                 /\ files'[dir'[Active]].lines = <<>>
    /\ \A i \in Range(dir) \cap Range(dir') : files'[i].lines = fs[i].lines
    /\ \A i \in Range(dir) \ Range(dir') : Mentioned(fs[i].lines) \subseteq gone'
    /\ MaxFiles = 0 =>
          \A n \in (archivePaths(dir) \cup {name}) \ DOMAIN dir' : MaxAge > 0 /\ n[1] + MaxAge < now

\* An archive that is replaced is overwritten: it is of this second, too young to be
\* removed.
LEMMA FreeName ==
    ASSUME Inv, Undisturbed, Active \in DOMAIN dir, NEW fs, NEW fault,
           NEW name \in nextArchivePath(dir, now, fault), Archived(fs, name)
    PROVE  name \notin DOMAIN dir /\ name \in DOMAIN dir'
<1>1. IsFiniteSet(DOMAIN dir) /\ IsInjective(dir) /\ now \in Nat /\ MaxAge \in Nat
  BY InvDisk, InvScalars, JSONLAssumption DEF DiskInv, DirsOK, DirOK, MaxAge
<1>2. name \in Nat \X Nat /\ name # Active /\ name[1] = now
  BY <1>1, NextArchiveFacts
<1>3. name \in DOMAIN dir'
  BY <1>1, <1>2 DEF Archived, Undisturbed
<1>4. ASSUME name \in DOMAIN dir PROVE FALSE
  <2>1. dir'[name] = dir[Active]
    BY <1>2, <1>3 DEF Archived, archivePaths
  <2>2. dir[name] # dir[Active]
    BY <1>1, <1>2, <1>4 DEF IsInjective
  <2>3. QED
    BY <1>2, <1>3, <1>4, <2>1, <2>2 DEF Undisturbed, Overwritten, archivePaths
<1>5. QED
  BY <1>3, <1>4

LEMMA ArchivedMoved ==
    ASSUME Inv, NamesInv, Active \in DOMAIN dir, NEW fs, NEW fault,
           NEW name \in nextArchivePath(dir, now, fault), Archived(fs, name)
    PROVE  Moved(fs)
<1>1. DOMAIN dir \subseteq Names /\ IsFiniteSet(DOMAIN dir) /\ IsInjective(dir) /\ dir \in dirDisk
  BY InvDisk DEF DiskInv, DirsOK, DirOK
<1>2. now \in Nat /\ MaxAge \in Nat
  BY InvScalars, JSONLAssumption DEF MaxAge
<1>3. ASSUME Undisturbed PROVE InOrder(dir, dir')
  <2>1. Consecutive(dir, now) /\ name \notin DOMAIN dir
    BY <1>1, <1>3, FreeName DEF Undisturbed, NamesInv
  <2>2. \A n \in archivePaths(dir') : n[2] < 10
    BY <1>3 DEF Undisturbed, SuffixesSort, archivePaths
  <2> DEFINE d2 == dir'
  <2>3. /\ \A n \in archivePaths(d2) : \/ n = name /\ d2[n] = dir[Active]
                                       \/ n \in archivePaths(dir) /\ d2[n] = dir[n]
        /\ \A n \in archivePaths(d2) : n[2] < 10
        /\ Active \in DOMAIN d2 => d2[Active] \notin Range(dir)
    BY <2>2 DEF Archived
  <2> HIDE DEF d2
  <2>4. InOrder(dir, d2)
    BY <1>1, <1>2, <2>1, <2>3, RenameOrder DEF InOrder
  <2>5. QED
    BY <2>4 DEF d2
<1>4. ASSUME Undisturbed, MaxAge = 0 PROVE Range(dir) \subseteq Range(dir')
  <2>1. name \notin DOMAIN dir /\ name \in DOMAIN dir' /\ name # Active
    BY <1>1, <1>2, <1>4, FreeName, NextArchiveFacts
  <2>2. \A n \in archivePaths(dir) : n \in DOMAIN dir'
    BY <1>4 DEF Archived, Undisturbed
  <2>3. ASSUME NEW n \in DOMAIN dir PROVE dir[n] \in Range(dir')
    <3>1. CASE n = Active
      BY <2>1, <3>1, InRange DEF Archived, archivePaths
    <3>2. CASE n # Active
      BY <2>1, <2>2, <3>2, InRange DEF Archived, archivePaths
    <3>3. QED
      BY <3>1, <3>2
  <2>4. QED
    BY <2>3, InRange
<1>5. NothingNew(fs, dir, files', dir')
  <2>1. SUFFICES ASSUME NEW i \in Range(dir'), NEW k \in 1..Len(files'[i].lines)
                 PROVE  Old(fs, dir, i, k)
    BY DEF NothingNew
  <2>2. CASE i \in Range(dir)
    BY <2>1, <2>2 DEF Old, Archived
  <2>3. CASE i \notin Range(dir)
    <3>1. PICK n \in DOMAIN dir' : dir'[n] = i
      BY InRange
    <3>2. n = Active
      BY <2>3, <3>1, InRange DEF Archived, archivePaths
    <3>3. files'[i].lines = <<>>
      BY <3>1, <3>2 DEF Archived
    <3>4. QED
      BY <2>1, <3>3, EmptyContent
  <2>4. QED
    BY <2>2, <2>3
<1>6. Keeps(fs, dir, files', dir', gone')
  BY BeginsSame DEF Keeps, Archived
<1>7. QED
  BY <1>3, <1>4, <1>5, <1>6 DEF Moved, Archived

LEMMA RotateMoved ==
    ASSUME Inv, NamesInv, Active \in DOMAIN dir,
           NEW fs, DOMAIN fs = DOMAIN files, NEW synced, NEW fault, rotate(fs, synced, fault)
    PROVE  Moved(fs)
<1>1. /\ DOMAIN dir \subseteq Names /\ IsFiniteSet(DOMAIN dir) /\ now \in Nat
      /\ Range(dir) \subseteq DOMAIN fs /\ IsFiniteSet(DOMAIN fs) /\ DOMAIN fs \subseteq Nat
  BY InvDisk, InvScalars, InRange DEF DiskInv, FilesOK, DirsOK, DirOK
<1>2. PICK name \in nextArchivePath(dir, now, fault) : Rotates(fs, name, synced, fault)
  BY RotateCases
<1> DEFINE r == Renamed(name)
           i == NewInode(fs)
           c == Created(fs, name)
           fs1 == WithNew(fs)
<1>3. name # Active
  BY <1>1, NextArchiveFacts
<1>4. i \notin Range(dir) /\ i \notin DOMAIN fs
  BY <1>1, NewInodeFacts
<1>5. /\ DOMAIN r = archivePaths(dir) \cup {name} /\ r[name] = dir[Active]
      /\ \A n \in archivePaths(dir) \ {name} : r[n] = dir[n]
  BY <1>3 DEF Renamed, Named, without, archivePaths
<1>6. /\ DOMAIN c = DOMAIN r \cup {Active} /\ c[Active] = i
      /\ \A n \in DOMAIN r : c[n] = r[n]
  BY <1>3, <1>5 DEF Created, Named, archivePaths
<1>7. /\ fs1[i] = Empty /\ \A j \in Range(dir) : fs1[j] = fs[j]
  BY <1>1, <1>4 DEF WithNew, Named
<1>8. ASSUME NEW j \in Range(dir), ~(\E n \in DOMAIN r : r[n] = j)
      PROVE  Mentioned(fs[j].lines) \subseteq Lost(fs, name)
  <2>1. PICK n \in DOMAIN dir : dir[n] = j
    BY InRange
  <2>2. n = name
    BY <1>5, <1>8, <2>1 DEF archivePaths
  <2>3. QED
    BY <2>1, <2>2 DEF Lost
<1> HIDE DEF r, c, i, fs1
<1>9. CASE Settle(fs, dir, {}, synced)
  BY <1>9, SettleFiles, StayMoved
<1>10. CASE Settle(fs, r, {}, synced) /\ gone' = Lost(fs, name)
  <2>1. dir' = r /\ \A j \in Range(r) : files'[j] = fs[j]
    BY <1>10, SettleFiles
  <2>2. \A n \in archivePaths(dir') : \/ n = name /\ dir'[n] = dir[Active]
                                      \/ n \in archivePaths(dir) /\ n # name /\ dir'[n] = dir[n]
    BY <1>5, <2>1 DEF archivePaths
  <2>3. Active \notin DOMAIN dir' /\ (archivePaths(dir) \cup {name}) \ DOMAIN dir' = {}
    BY <1>3, <1>5, <2>1 DEF archivePaths
  <2>4. \A j \in Range(dir) \ Range(dir') : Mentioned(fs[j].lines) \subseteq gone'
    BY <1>8, <1>10, <2>1, InRange
  <2>5. Archived(fs, name)
    BY <2>1, <2>2, <2>3, <2>4 DEF Archived
  <2>6. QED
    BY <2>5, ArchivedMoved
<1>11. CASE \E R \in applyRetention(c, now, fault) : Removes(fs, name, R, synced)
  <2>1. PICK R \in applyRetention(c, now, fault) :
                /\ gone' = Lost(fs, name) \cup UNION {Mentioned(fs1[c[n]].lines) : n \in R}
                /\ Settle(fs1, without(c, R), {r} \cup {without(c, S) : S \in SUBSET R}, synced)
    BY <1>11 DEF Removes, r, c, fs1
  <2>2. MaxFiles = 0 => \A n \in R : n \in DOMAIN c \ {Active} /\ MaxAge > 0 /\ n[1] + MaxAge < now
    BY AgedOnly
  <2>3. dir' = without(c, R) /\ \A j \in Range(without(c, R)) : files'[j] = fs1[j]
    <3> DEFINE ds == {r} \cup {without(c, S) : S \in SUBSET R}
               w == without(c, R)
    <3>1. Settle(fs1, w, ds, synced)
      BY <2>1
    <3> HIDE DEF ds, w
    <3>2. dir' = w /\ \A j \in Range(w) : files'[j] = fs1[j]
      BY <3>1, SettleFiles
    <3>3. QED
      BY <3>2 DEF w
  <2>4. DOMAIN dir' = DOMAIN c \ R /\ \A n \in DOMAIN dir' : dir'[n] = c[n]
    BY <2>3 DEF without
  <2>5. \A n \in archivePaths(dir') : \/ n = name /\ dir'[n] = dir[Active]
                                      \/ n \in archivePaths(dir) /\ n # name /\ dir'[n] = dir[n]
    BY <1>5, <1>6, <2>4 DEF archivePaths
  <2>6. Active \in DOMAIN dir' => /\ dir'[Active] \notin Range(dir)
                                  /\ files'[dir'[Active]].lines = <<>>
    <3>1. SUFFICES ASSUME Active \in DOMAIN dir'
                   PROVE  dir'[Active] \notin Range(dir) /\ files'[dir'[Active]].lines = <<>>
      OBVIOUS
    <3>2. dir'[Active] = i /\ i \in Range(without(c, R))
      BY <1>6, <2>3, <2>4, <3>1, InRange
    <3>3. files'[i] = Empty
      BY <1>7, <2>3, <3>2
    <3>4. QED
      BY <1>4, <3>2, <3>3 DEF Empty
  <2>7. \A j \in Range(dir) \cap Range(dir') : files'[j].lines = fs[j].lines
    BY <1>7, <2>3
  <2>8. ASSUME NEW j \in Range(dir) \ Range(dir') PROVE Mentioned(fs[j].lines) \subseteq gone'
    <3>1. CASE \E n \in DOMAIN r : r[n] = j
      <4>1. PICK n \in DOMAIN r : r[n] = j
        BY <3>1
      <4>2. n \in DOMAIN c /\ c[n] = j
        BY <1>6, <4>1
      <4>3. n \in R
        BY <2>4, <2>8, <4>2, InRange
      <4>4. fs1[c[n]] = fs[j]
        BY <1>7, <2>8, <4>2
      <4>5. QED
        BY <2>1, <4>3, <4>4
    <3>2. CASE ~(\E n \in DOMAIN r : r[n] = j)
      BY <1>8, <2>1, <2>8, <3>2
    <3>3. QED
      BY <3>1, <3>2
  <2>9. MaxFiles = 0 =>
          \A n \in (archivePaths(dir) \cup {name}) \ DOMAIN dir' : MaxAge > 0 /\ n[1] + MaxAge < now
    BY <1>5, <1>6, <2>2, <2>4
  <2>10. Archived(fs, name)
    BY <2>5, <2>6, <2>7, <2>8, <2>9 DEF Archived
  <2>11. QED
    BY <2>10, ArchivedMoved
<1>12. QED
  BY <1>2, <1>9, <1>10, <1>11 DEF Rotates, r, c

LEMMA RotateIfNeededMoved ==
    ASSUME Inv, NamesInv, Active \in DOMAIN dir, NEW fs, DOMAIN fs = DOMAIN files,
           NEW wasEmpty, NEW synced, NEW fault, rotateIfNeeded(fs, wasEmpty, synced, fault)
    PROVE  Moved(fs)
<1>1. CASE rotate(fs, synced, fault)
  BY <1>1, RotateMoved
<1>2. CASE Settle(fs, dir, {}, synced)
  BY <1>2, SettleFiles, StayMoved
<1>3. QED
  BY <1>1, <1>2 DEF rotateIfNeeded

\* What a call leaves of the files it found.
StreamGrown ==
    /\ Keeps(files, dir, files', dir', gone')
    /\ Undisturbed => Follows(files, dir, files', dir')

\* A write at the end of the active file, then a rotation.
LEMMA WriteGrown ==
    ASSUME Inv, Active \in DOMAIN dir, NEW fs, Moved(fs),
           \A j \in Range(dir) : j # dir[Active] => fs[j].lines = files[j].lines,
           Begins(files[dir[Active]].lines, fs[dir[Active]].lines)
    PROVE  StreamGrown
<1> DEFINE i == dir[Active]
<1>1. Keeps(fs, dir, files', dir', gone') /\ NothingNew(fs, dir, files', dir')
  BY DEF Moved
<1>2. \A j \in Range(dir) : Begins(files[j].lines, fs[j].lines)
  BY BeginsSame
<1>3. ASSUME NEW j \in Range(dir)
      PROVE  \/ j \in Range(dir') /\ Begins(files[j].lines, files'[j].lines)
             \/ j \notin Range(dir') /\ Mentioned(files[j].lines) \subseteq gone'
  <2>1. CASE j \in Range(dir') /\ Begins(fs[j].lines, files'[j].lines)
    BY <1>2, <2>1 DEF Begins
  <2>2. CASE j \notin Range(dir') /\ Mentioned(fs[j].lines) \subseteq gone'
    <3>1. Mentioned(files[j].lines) \subseteq Mentioned(fs[j].lines)
      BY <1>2, InMentioned DEF Begins
    <3>2. QED
      BY <2>2, <3>1
  <2>3. QED
    BY <1>1, <2>1, <2>2 DEF Keeps
<1>4. ASSUME Undisturbed,
             NEW j \in Range(dir'), NEW k \in 1..Len(files'[j].lines), ~Old(files, dir, j, k),
             NEW m \in Range(dir) \cap Range(dir'), m # j
      PROVE  InodeFirst(dir', m, j)
  <2>1. j \in Range(dir) /\ k \in 1..Len(fs[j].lines)
    BY <1>1, <1>4 DEF NothingNew, Old
  <2>2. j = i
    BY <1>4, <2>1 DEF Old
  <2>3. PICK n \in DOMAIN dir : dir[n] = m
    BY InRange
  <2>4. queryPaths(n, Active)
    BY <1>4, <2>2, <2>3 DEF queryPaths
  <2>5. InodeFirst(dir, m, j)
    BY <2>2, <2>3, <2>4 DEF InodeFirst
  <2>6. QED
    BY <1>4, <2>1, <2>5 DEF Moved, InOrder
<1>5. QED
  BY <1>3, <1>4 DEF StreamGrown, Keeps, Follows, Moved

\* A durable append writes the lines x behind those of the active file, which leaves
\* the files fs, and may rotate.
Wrote(fs, x) ==
    /\ Active \in DOMAIN dir /\ dir[Active] \in Range(dir)
    /\ fs[dir[Active]].lines = files[dir[Active]].lines \o x
    /\ \A j \in Range(dir) : j # dir[Active] => fs[j].lines = files[j].lines
    /\ Moved(fs)

LEMMA DurableGlue ==
    ASSUME Inv, Durable, Writable, NEW x \in Seq(Lines)
    PROVE  Glue(files[dir[Active]].lines, x) = files[dir[Active]].lines \o x
<1>1. CleanTail(files[dir[Active]].lines)
  BY DEF Writable, Content
<1>2. dir[Active] \in DOMAIN files
  BY InvDisk, InvScalars DEF DiskInv, DirsOK, DirOK, Writable
<1>3. files[dir[Active]].lines \in Seq(Lines)
  BY <1>2, InvDisk DEF DiskInv, FilesOK
<1>4. QED
  BY <1>1, <1>3, GlueFacts

LEMMA WroteGrown ==
    ASSUME Inv, NEW fs, NEW x \in Seq(Lines), Wrote(fs, x)
    PROVE  StreamGrown
<1> DEFINE c == files[dir[Active]].lines
<1>1. c \in Seq(Lines)
  BY InvDisk, InRange DEF DiskInv, FilesOK, DirsOK, DirOK, Wrote
<1> HIDE DEF c
<1>2. Len(c) \in Nat /\ Len(x) \in Nat /\ Len(c \o x) = Len(c) + Len(x)
      /\ \A k \in 1..Len(c) : (c \o x)[k] = c[k]
  BY <1>1, SeqFacts, ConcatFacts
<1>3. Begins(c, c \o x)
  BY <1>2 DEF Begins
<1>4. QED
  BY <1>3, WriteGrown DEF Wrote, c

LEMMA RolledBackWrote ==
    ASSUME Inv, Durable, NEW b \in Batches, AppendRolledBack(b)
    PROVE  \E x : Writes(x, b) /\ Wrote(files', x)
<1> DEFINE i == dir[Active]
           c == files[i].lines
           full == Glue(c, Encoded(b))
           written == IF sticky THEN {c} ELSE Partial(c, b) \cup (IF Durable THEN {full} ELSE {})
           onDisk == files[i].disk \cup written
<1>1. Writable /\ dir' = dir
  BY DEF AppendRolledBack
<1>2. /\ i \in DOMAIN files /\ Active \in DOMAIN dir /\ i \in Range(dir) /\ c \in Seq(Lines)
      /\ files[i] \in [lines : Seq(Lines), disk : SUBSET Seq(Lines)] /\ Range(dir) \subseteq DOMAIN files
  <2>1. Range(dir) \subseteq DOMAIN files
    BY InvDisk, InRange DEF DiskInv, DirsOK, DirOK
  <2>2. QED
    BY <1>1, <2>1, WrittenContents
<1>3. \/ \E ds : files' = [files EXCEPT ![i].disk = ds]
      \/ \E w \in written : files' = [files EXCEPT ![i] = [lines |-> w, disk |-> onDisk]]
  BY DEF AppendRolledBack
<1>4. b \in Seq(Entries)
  BY BatchFacts
<1>5. Writes(<<>>, b) /\ c \o <<>> = c
  <2>1. Len(b) \in Nat /\ Len(c) \in Nat
    BY <1>2, <1>4, SeqFacts
  <2>2. Writes(<<>>, b)
    BY <2>1, EmptyContent DEF Writes, Tidy
  <2> HIDE DEF c
  <2>3. QED
    BY <1>2, <2>2, ConcatEmptySeq
<1>6. ASSUME NEW w \in written PROVE \E x : Writes(x, b) /\ w = c \o x
  <2>1. CASE w = c
    BY <1>5, <2>1
  <2>2. CASE w = full
    <3>1. Writes(Encoded(b), b)
      BY <1>4, EncodedWrites
    <3>2. full = c \o Encoded(b)
      BY <1>1, <3>1, DurableGlue DEF Writes
    <3>3. QED
      BY <2>2, <3>1, <3>2
  <2>3. CASE w \in Partial(c, b)
    <3>1. PICK x \in Torn(b) : w = Glue(c, x)
      BY <2>3 DEF Partial
    <3>2. Writes(x, b)
      BY <1>4, TornWrites
    <3>3. w = c \o x
      BY <1>1, <3>1, <3>2, DurableGlue DEF Writes
    <3>4. QED
      BY <3>2, <3>3
  <2>4. QED
    BY <1>6, <2>1, <2>2, <2>3
<1> HIDE DEF written, onDisk, full
<1>7. \E x : Writes(x, b) /\ files'[i].lines = c \o x /\ \A j \in Range(dir) : j # i => files'[j] = files[j]
  <2>1. ASSUME NEW ds, files' = [files EXCEPT ![i].disk = ds]
        PROVE  files'[i].lines = c /\ \A j \in Range(dir) : j # i => files'[j] = files[j]
    BY <1>2, <2>1
  <2>2. ASSUME NEW w \in written, files' = [files EXCEPT ![i] = [lines |-> w, disk |-> onDisk]]
        PROVE  files'[i].lines = w /\ \A j \in Range(dir) : j # i => files'[j] = files[j]
    BY <1>2, <2>2
  <2>3. QED
    BY <1>3, <1>5, <1>6, <2>1, <2>2
<1>8. Moved(files')
  BY <1>1, StayMoved
<1>9. QED
  BY <1>2, <1>7, <1>8 DEF Wrote

LEMMA StoredWrote ==
    ASSUME Inv, NamesInv, Durable, NEW b \in Batches, AppendStored(b)
    PROVE  \E fs : Wrote(fs, Encoded(b))
<1> DEFINE i == dir[Active]
           c == files[i].lines
           full == Glue(c, Encoded(b))
           f == [lines |-> full, disk |-> {full}]
           fs == [files EXCEPT ![i] = f]
<1>1. Writable
  BY DEF AppendStored
<1>2. i \in DOMAIN files /\ Active \in DOMAIN dir /\ i \in Range(dir) /\ Range(dir) \subseteq DOMAIN files
  <2>1. Range(dir) \subseteq DOMAIN files
    BY InvDisk, InRange DEF DiskInv, DirsOK, DirOK
  <2>2. QED
    BY <1>1, <2>1, WrittenContents
<1>3. PICK fault \in BOOLEAN, dirSynced \in BOOLEAN : rotateIfNeeded(fs, c = <<>>, Durable /\ dirSynced, fault)
  <2>1. [files EXCEPT ![i] = [lines |-> full,
             disk |-> IF Durable THEN {full} ELSE @.disk \cup Partial(c, b) \cup {full}]] = fs
    OBVIOUS
  <2>2. QED
    BY <2>1 DEF AppendStored
<1>4. full = c \o Encoded(b)
  <2>1. Encoded(b) \in Seq(Lines)
    BY BatchFacts, EncodedWrites DEF Writes
  <2>2. QED
    BY <1>1, <2>1, DurableGlue
<1>5. fs[i].lines = full /\ (\A j \in Range(dir) : j # i => fs[j] = files[j]) /\ DOMAIN fs = DOMAIN files
  BY <1>2
<1> HIDE DEF fs, f, full
<1>6. Moved(fs)
  <2> DEFINE empty == (c = <<>>)
             synced == Durable /\ dirSynced
  <2>1. rotateIfNeeded(fs, empty, synced, fault)
    BY <1>3
  <2> HIDE DEF empty, synced
  <2>2. QED
    BY <1>2, <1>5, <2>1, RotateIfNeededMoved
<1>7. QED
  BY <1>2, <1>4, <1>5, <1>6 DEF Wrote

LEMMA SameGrown ==
    ASSUME dir' = dir, \A i \in Range(dir) : files'[i].lines = files[i].lines
    PROVE  StreamGrown
BY StayMoved DEF Moved, StreamGrown, Follows, NothingNew

LEMMA OpenGrown ==
    ASSUME Inv, Active \notin DOMAIN dir,
           Settle(Named(files, NewInode(files), Empty), Named(dir, Active, NewInode(files)), {}, FALSE)
    PROVE  StreamGrown
<1> DEFINE i == NewInode(files)
           fs1 == Named(files, i, Empty)
           c == Named(dir, Active, i)
<1>1. Range(dir) \subseteq DOMAIN files /\ IsFiniteSet(DOMAIN files) /\ DOMAIN files \subseteq Nat
  BY InvDisk, InRange DEF DiskInv, FilesOK, DirsOK, DirOK
<1>2. i \notin DOMAIN files
  BY <1>1, NewInodeFacts
<1>3. /\ DOMAIN c = DOMAIN dir \cup {Active} /\ c[Active] = i /\ \A n \in DOMAIN dir : c[n] = dir[n]
      /\ fs1[i] = Empty /\ \A j \in Range(dir) : fs1[j] = files[j]
  BY <1>1, <1>2 DEF Named
<1>4. Settle(fs1, c, {}, FALSE)
  OBVIOUS
<1> HIDE DEF i, fs1, c
<1>5. dir' = c /\ \A j \in Range(c) : files'[j] = fs1[j]
  BY <1>4, SettleFiles
<1>6. \A j \in Range(dir) : j \in Range(c)
  BY <1>3, InRange
<1>7. \A j \in Range(c) : j \in Range(dir) \/ j = i
  BY <1>3, InRange
<1>8. \A j \in Range(dir) : j \in Range(dir') /\ files'[j].lines = files[j].lines
  BY <1>3, <1>5, <1>6
<1>9. ASSUME NEW j, NEW m, InodeFirst(dir, j, m) PROVE InodeFirst(dir', j, m)
  BY <1>3, <1>5, <1>9 DEF InodeFirst
<1>10. ASSUME NEW j \in Range(dir'), NEW k \in 1..Len(files'[j].lines) PROVE Old(files, dir, j, k)
  <2>1. CASE j \in Range(dir)
    BY <1>8, <1>10, <2>1 DEF Old
  <2>2. CASE j = i
    BY <1>3, <1>5, <1>10, <2>2, EmptyContent DEF Empty
  <2>3. QED
    BY <1>5, <1>7, <2>1, <2>2
<1>11. QED
  BY <1>8, <1>9, <1>10, BeginsSame DEF StreamGrown, Keeps, Follows, InOrder

LEMMA ConfirmLines ==
    ASSUME Inv, NEW e, Confirm(e)
    PROVE  dir' = dir /\ \A i \in Range(dir) : files'[i].lines = files[i].lines
<1>1. CASE Durable
  <2>1. dir' = dir /\ files' = [i \in Range(dir) |-> [files[i] EXCEPT !.disk = {files[i].lines}]]
    BY <1>1 DEF Confirm, Sync
  <2>2. ASSUME NEW i \in Range(dir) PROVE files'[i].lines = files[i].lines
    <3>1. files[i] \in [lines : Seq(Lines), disk : SUBSET Seq(Lines)]
      BY InvDisk, InRange DEF DiskInv, FilesOK, DirsOK, DirOK
    <3>2. QED
      BY <2>1, <3>1, SyncedFile
  <2>3. QED
    BY <2>1, <2>2
<1>2. CASE ~Durable
  BY <1>2 DEF Confirm, diskVars
<1>3. QED
  BY <1>1, <1>2

LEMMA GrownStep ==
    ASSUME Inv, NamesInv, [Next]_vars, Durable, crashes' = crashes
    PROVE  StreamGrown
<1>1. CASE UNCHANGED <<files, dir>>
  BY <1>1, SameGrown
<1>2. ASSUME NEW b \in Batches, AppendRefused(b) PROVE UNCHANGED <<files, dir>>
  BY <1>2 DEF AppendRefused, diskVars
<1>3. ASSUME NEW b \in Batches, AppendRolledBack(b) PROVE StreamGrown
  BY <1>3, RolledBackWrote, WroteGrown DEF Writes
<1>4. ASSUME NEW b \in Batches, AppendStored(b) PROVE StreamGrown
  <2>1. Encoded(b) \in Seq(Lines)
    BY BatchFacts, EncodedWrites DEF Writes
  <2>2. QED
    BY <1>4, <2>1, StoredWrote, WroteGrown
<1>5. ASSUME NEW e \in Entries, Confirm(e) PROVE StreamGrown
  BY <1>5, ConfirmLines, SameGrown
<1>6. ASSUME Close \/ Tick \/ UNCHANGED vars PROVE UNCHANGED <<files, dir>>
  BY <1>6 DEF Close, Tick, vars, diskVars
<1>7. ASSUME Crash PROVE FALSE
  BY <1>7, InvScalars DEF Crash
<1>8. ASSUME NewJSONLStore PROVE StreamGrown
  BY <1>1, <1>8, OpenGrown DEF NewJSONLStore, diskVars
<1>9. QED
  BY <1>1, <1>2, <1>3, <1>4, <1>5, <1>6, <1>7, <1>8 DEF Next, appendBatch

LEMMA StreamOrder ==
    ASSUME Inv, NamesInv, [Next]_vars, Durable, crashes' = crashes,
           NEW e \in Entries \ gone', Returned(e)
    PROVE  /\ Returned(e)'
           /\ Undisturbed =>
                 \A f \in Entries \ gone' :
                     IF Returned(f) THEN ReturnedFirst(e, f) => ReturnedFirst(e, f)'
                                    ELSE Returned(f)' => ReturnedFirst(e, f)'
<1>1. StreamGrown
  BY GrownStep
<1>2. Keeps(files, dir, files', dir', gone') /\ (Undisturbed => Follows(files, dir, files', dir'))
  BY <1>1 DEF StreamGrown
<1>3. QED
  BY <1>2, KeptReturned, FollowsOrder

\* ReadsInAppendOrder: the retained stream of a durable store is append-only until
\* it crashes, whatever file operation fails and however the clock is set: what is in
\* no retired or overwritten archive stays (appendBatch, rotate); its order stays too
\* while nothing disturbs that of the names (nextArchivePath, queryPaths, walkEntries).
THEOREM JSONLReadOrder == Spec => ReadsInAppendOrder
<1> DEFINE Ordered ==
      Durable /\ crashes' = crashes =>
          \A e \in Entries \ gone' : Returned(e) =>
              /\ Returned(e)'
              /\ MaxFiles = 0 /\ SuffixesSort' /\ now = latest /\ ~Overwritten =>
                    \A f \in Entries \ gone' :
                        IF Returned(f) THEN ReturnedFirst(e, f) => ReturnedFirst(e, f)'
                                       ELSE Returned(f)' => ReturnedFirst(e, f)'
<1>1. Inv /\ NamesInv /\ [Next]_vars => [Ordered]_vars
  BY StreamOrder DEF Undisturbed
<1>2. QED
  BY <1>1, NamesAlways, PTL DEF Spec, ReadsInAppendOrder

-----------------------------------------------------------------------------
(* The retained stream as one sequence: Query numbers the documents by how *)
(* many are visited before them.                                           *)

Below(S, R, p) == {y \in S : <<y, p>> \in R}

Ordered(S, R) ==
    /\ \A p \in S : <<p, p>> \notin R
    /\ \A p, q \in S : p # q => <<p, q>> \in R \/ <<q, p>> \in R
    /\ \A p, q, r \in S : <<p, q>> \in R /\ <<q, r>> \in R => <<p, r>> \in R

LEMMA IntervalSizes ==
    ASSUME NEW n \in Nat
    PROVE  /\ IsFiniteSet(1..n) /\ Cardinality(1..n) = n
           /\ IsFiniteSet(0..n - 1) /\ Cardinality(0..n - 1) = n
<1>1. IsFiniteSet(1..n) /\ Cardinality(1..n) = IF 1 > n THEN 0 ELSE n - 1 + 1
  BY FS_Interval
<1>2. n - 1 \in Int
  OBVIOUS
<1>3. IsFiniteSet(0..n - 1) /\ Cardinality(0..n - 1) = IF 0 > n - 1 THEN 0 ELSE n - 1 - 0 + 1
  BY <1>2, FS_Interval
<1>4. QED
  BY <1>1, <1>3

\* Every number below the size of an ordered set is the rank of one element.
LEMMA RankedAll ==
    ASSUME NEW S, IsFiniteSet(S), NEW R, Ordered(S, R), NEW n \in 1..Cardinality(S)
    PROVE  \E p \in S : /\ Cardinality(Below(S, R, p)) = n - 1
                         /\ \A q \in S : Cardinality(Below(S, R, q)) = n - 1 => q = p
<1> DEFINE C == Cardinality(S)
           f == [p \in S |-> Cardinality(Below(S, R, p))]
<1>1. C \in Nat
  BY FS_CardinalityType
<1>2. ASSUME NEW p \in S PROVE IsFiniteSet(Below(S, R, p)) /\ Cardinality(Below(S, R, p)) \in 0..C - 1
  <2> DEFINE T == Below(S, R, p)
  <2>1. T \subseteq S /\ p \in S \ T
    BY DEF Below, Ordered
  <2> HIDE DEF T
  <2>2. IsFiniteSet(T) /\ Cardinality(T) <= C /\ Cardinality(T) # C /\ Cardinality(T) \in Nat
    BY <2>1, FS_Subset, FS_CardinalityType
  <2>3. QED
    BY <1>1, <2>2 DEF T
<1>3. ASSUME NEW p \in S, NEW q \in S, <<p, q>> \in R
      PROVE  Cardinality(Below(S, R, p)) < Cardinality(Below(S, R, q))
  <2> DEFINE T == Below(S, R, p)
             U == Below(S, R, q)
  <2>1. T \subseteq U /\ p \in U \ T
    BY <1>3 DEF Below, Ordered
  <2>2. IsFiniteSet(U) /\ Cardinality(U) \in Nat /\ Cardinality(T) \in Nat
    BY <1>1, <1>2
  <2> HIDE DEF T, U
  <2>3. Cardinality(T) <= Cardinality(U) /\ Cardinality(T) # Cardinality(U)
    BY <2>1, <2>2, FS_Subset
  <2>4. QED
    BY <2>2, <2>3 DEF T, U
<1>4. f \in [S -> 0..C - 1]
  BY <1>2
<1>5. ASSUME NEW p \in S, NEW q \in S, f[p] = f[q] PROVE p = q
  <2>1. ~(<<p, q>> \in R) /\ ~(<<q, p>> \in R)
    <3>1. f[p] \in 0..C - 1 /\ f[q] \in 0..C - 1
      BY <1>4
    <3>2. <<p, q>> \in R => f[p] < f[q]
      BY <1>3
    <3>3. <<q, p>> \in R => f[q] < f[p]
      BY <1>3
    <3> HIDE DEF f
    <3>4. QED
      BY <1>1, <1>5, <3>1, <3>2, <3>3
  <2>2. QED
    BY <2>1 DEF Ordered
<1>6. f \in Injection(S, 0..C - 1)
  BY <1>4, <1>5 DEF Injection, IsInjective
<1>7. IsFiniteSet(0..C - 1) /\ Cardinality(0..C - 1) = C
  BY <1>1, IntervalSizes
<1> HIDE DEF f, C
<1>8. f \in Surjection(S, 0..C - 1)
  BY <1>6, <1>7, FS_Injection DEF C
<1>9. n - 1 \in 0..C - 1
  BY <1>1 DEF C
<1>10. \E p \in S : f[p] = n - 1
  BY <1>8, <1>9 DEF Surjection
<1>11. \A p, q \in S : f[p] = f[q] => p = q
  BY <1>5
<1>12. QED
  BY <1>10, <1>11 DEF f

\* The elements t[1], ..., t[m] are put behind those of S.
Behind(S, R, T, Q, t, m) ==
    /\ m \in Nat /\ DOMAIN t = 1..m /\ T = S \cup Range(t) /\ Range(t) \cap S = {}
    /\ \A p, q \in S : <<p, q>> \in Q <=> <<p, q>> \in R
    /\ \A p \in S : <<p, p>> \notin R
    /\ \A p \in S, q \in Range(t) : <<p, q>> \in Q /\ <<q, p>> \notin Q
    /\ \A k, l \in 1..m : <<t[k], t[l]>> \in Q <=> k < l

\* The others keep their ranks.
LEMMA RankedMore ==
    ASSUME NEW S, IsFiniteSet(S), NEW R, NEW T, NEW Q, NEW m, NEW t, Behind(S, R, T, Q, t, m)
    PROVE  /\ Cardinality(S) \in Nat /\ Cardinality(T) = Cardinality(S) + m
           /\ \A p \in S : Below(T, Q, p) = Below(S, R, p) /\ Cardinality(Below(S, R, p)) \in 0..Cardinality(S) - 1
           /\ \A l \in 1..m : Cardinality(Below(T, Q, t[l])) = Cardinality(S) + (l - 1)
<1> DEFINE C == Cardinality(S)
           First(l) == {t[k] : k \in 1..l}
<1> USE DEF Behind
<1>1. C \in Nat
  BY FS_CardinalityType
<1>2. \A k \in 1..m : t[k] \in Range(t) /\ t[k] \notin S
  BY InRange
<1>3. ASSUME NEW k \in 1..m, NEW l \in 1..m, t[k] = t[l] PROVE k = l
  <2>1. ~(k < l) /\ ~(l < k)
    <3>1. <<t[k], t[l]>> \in Q <=> k < l
      OBVIOUS
    <3>2. <<t[l], t[k]>> \in Q <=> l < k
      OBVIOUS
    <3>3. <<t[k], t[k]>> \in Q <=> k < k
      OBVIOUS
    <3>4. QED
      BY <1>3, <3>1, <3>2, <3>3
  <2>2. QED
    BY <2>1
<1>4. ASSUME NEW l \in 0..m PROVE IsFiniteSet(S \cup First(l)) /\ Cardinality(S \cup First(l)) = C + l
  <2> DEFINE g == [k \in 1..l |-> t[k]]
             F == First(l)
  <2>1. g \in Bijection(1..l, F)
    BY <1>3 DEF Bijection, Injection, Surjection, IsInjective
  <2>2. IsFiniteSet(1..l) /\ Cardinality(1..l) = l
    BY IntervalSizes
  <2>3. F \cap S = {}
    BY <1>2
  <2> HIDE DEF F, g
  <2>4. IsFiniteSet(F) /\ Cardinality(F) = l
    BY <2>1, <2>2, FS_Bijection DEF ExistsBijection
  <2>5. S \cap F = {} /\ Cardinality(S \cap F) = 0
    BY <2>3, FS_EmptySet
  <2>6. Cardinality(S \cup F) = C + l - 0 /\ IsFiniteSet(S \cup F)
    BY <2>4, <2>5, FS_Union
  <2>7. QED
    BY <1>1, <2>6 DEF F
<1>5. Range(t) = First(m)
  BY InRange
<1>6. Cardinality(T) = C + m
  <2>1. m \in 0..m /\ T = S \cup First(m)
    BY <1>5
  <2> HIDE DEF First, C
  <2>2. QED
    BY <1>4, <2>1
<1>7. ASSUME NEW p \in S PROVE Below(T, Q, p) = Below(S, R, p) /\ Cardinality(Below(S, R, p)) \in 0..C - 1
  <2>1. Below(T, Q, p) = Below(S, R, p)
    BY DEF Below
  <2> DEFINE U == Below(S, R, p)
  <2>2. U \subseteq S /\ p \in S \ U
    BY DEF Below
  <2> HIDE DEF U
  <2>3. Cardinality(U) <= C /\ Cardinality(U) # C /\ Cardinality(U) \in Nat
    BY <2>2, FS_Subset, FS_CardinalityType
  <2>4. QED
    BY <1>1, <2>1, <2>3 DEF U
<1>8. ASSUME NEW l \in 1..m PROVE Cardinality(Below(T, Q, t[l])) = C + (l - 1)
  <2>1. Below(T, Q, t[l]) = S \cup First(l - 1)
    <3>1. ASSUME NEW y \in Below(T, Q, t[l]) PROVE y \in S \cup First(l - 1)
      <4>1. y \in S \cup Range(t) /\ <<y, t[l]>> \in Q
        BY DEF Below
      <4>2. CASE y \in Range(t)
        <5>1. PICK k \in 1..m : t[k] = y
          BY <4>2, InRange
        <5>2. k < l
          BY <4>1, <5>1
        <5>3. k \in 1..l - 1
          BY <5>2
        <5>4. QED
          BY <5>1, <5>3
      <4>3. QED
        BY <4>1, <4>2
    <3>2. ASSUME NEW y \in S PROVE y \in Below(T, Q, t[l])
      BY <1>2 DEF Below
    <3>3. ASSUME NEW k \in 1..l - 1 PROVE t[k] \in Below(T, Q, t[l])
      <4>1. k \in 1..m /\ k < l
        OBVIOUS
      <4>2. QED
        BY <1>2, <4>1 DEF Below
    <3>4. ASSUME NEW y \in First(l - 1) PROVE y \in Below(T, Q, t[l])
      <4>1. PICK k \in 1..l - 1 : y = t[k]
        OBVIOUS
      <4>2. QED
        BY <3>3, <4>1
    <3> HIDE DEF First
    <3>5. QED
      BY <3>1, <3>2, <3>4
  <2>2. l - 1 \in 0..m
    OBVIOUS
  <2> HIDE DEF First
  <2>3. QED
    BY <1>4, <2>1, <2>2
<1>9. QED
  BY <1>1, <1>6, <1>7, <1>8

-----------------------------------------------------------------------------
(* The order of the names and of the files.                                *)

LEMMA SuffixKeyFacts ==
    /\ \A n \in Nat : SuffixKey(n) \in Nat
    /\ \A n, m \in Nat : SuffixKey(n) = SuffixKey(m) => n = m
BY DEF SuffixKey

LEMMA NameOrder ==
    /\ \A a \in Names : ~queryPaths(a, a)
    /\ \A a, b \in Names : a # b => queryPaths(a, b) \/ queryPaths(b, a)
    /\ \A a, b, c \in Names : queryPaths(a, b) /\ queryPaths(b, c) => queryPaths(a, c)
<1>1. \A a \in Names : a = Active \/ a \in Nat \X Nat
  BY DEF Names
<1>2. ASSUME NEW a \in Nat \X Nat
      PROVE  a = <<a[1], a[2]>> /\ a[1] \in Nat /\ a[2] \in Nat /\ SuffixKey(a[2]) \in Nat
  BY SuffixKeyFacts
<1>3. \A a \in Nat \X Nat : ~NameLess(a, a)
  BY <1>2 DEF NameLess
<1>4. ASSUME NEW a \in Nat \X Nat, NEW b \in Nat \X Nat, a # b PROVE NameLess(a, b) \/ NameLess(b, a)
  <2>1. a[1] # b[1] \/ a[2] # b[2]
    BY <1>2, <1>4
  <2>2. a[2] # b[2] => SuffixKey(a[2]) # SuffixKey(b[2])
    BY <1>2, SuffixKeyFacts
  <2>3. QED
    BY <1>2, <2>1, <2>2 DEF NameLess
<1>5. ASSUME NEW a \in Nat \X Nat, NEW b \in Nat \X Nat, NEW c \in Nat \X Nat,
             NameLess(a, b), NameLess(b, c)
      PROVE  NameLess(a, c)
  BY <1>2, <1>5 DEF NameLess
<1>6. QED
  BY <1>1, <1>3, <1>4, <1>5 DEF queryPaths

LEMMA InodeOrder ==
    ASSUME NEW d, IsInjective(d), DOMAIN d \subseteq Names
    PROVE  /\ \A i : ~InodeFirst(d, i, i)
           /\ \A i, j \in Range(d) : i # j => InodeFirst(d, i, j) \/ InodeFirst(d, j, i)
           /\ \A i, j, k : InodeFirst(d, i, j) /\ InodeFirst(d, j, k) => InodeFirst(d, i, k)
           /\ \A i, j : ~(InodeFirst(d, i, j) /\ InodeFirst(d, j, i))
<1>1. \A a, b \in DOMAIN d : d[a] = d[b] => a = b
  BY DEF IsInjective
<1>2. \A i : ~InodeFirst(d, i, i)
  BY <1>1, NameOrder DEF InodeFirst
<1>3. ASSUME NEW i \in Range(d), NEW j \in Range(d), i # j
      PROVE  InodeFirst(d, i, j) \/ InodeFirst(d, j, i)
  <2>1. PICK a \in DOMAIN d : d[a] = i
    BY InRange
  <2>2. PICK b \in DOMAIN d : d[b] = j
    BY InRange
  <2>3. queryPaths(a, b) \/ queryPaths(b, a)
    BY <1>3, <2>1, <2>2, NameOrder
  <2>4. QED
    BY <2>1, <2>2, <2>3 DEF InodeFirst
<1>4. ASSUME NEW i, NEW j, NEW k, InodeFirst(d, i, j), InodeFirst(d, j, k) PROVE InodeFirst(d, i, k)
  <2>1. PICK a \in DOMAIN d, b \in DOMAIN d : d[a] = i /\ d[b] = j /\ queryPaths(a, b)
    BY <1>4 DEF InodeFirst
  <2>2. PICK x \in DOMAIN d, y \in DOMAIN d : d[x] = j /\ d[y] = k /\ queryPaths(x, y)
    BY <1>4 DEF InodeFirst
  <2>3. x = b
    BY <1>1, <2>1, <2>2
  <2>4. queryPaths(a, y)
    BY <2>1, <2>2, <2>3, NameOrder
  <2>5. QED
    BY <2>1, <2>2, <2>4 DEF InodeFirst
<1>5. QED
  BY <1>2, <1>3, <1>4

LEMMA InVisited ==
    ASSUME NEW d, NEW fs, NEW p
    PROVE  p \in Visited(d, fs) <=>
              \E i \in Range(d) : \E k \in 1..Len(fs[i].lines) : p = <<i, k>> /\ fs[i].lines[k].whole
BY DEF Visited

\* The documents of files fs in directory d, ordered as walkEntries visits them.
Before(d, fs) == {pq \in Visited(d, fs) \X Visited(d, fs) : VisitedFirst(d, pq[1], pq[2])}

LEMMA InBefore ==
    ASSUME NEW d, NEW fs, NEW p \in Visited(d, fs), NEW q \in Visited(d, fs)
    PROVE  <<p, q>> \in Before(d, fs) <=> VisitedFirst(d, p, q)
BY DEF Before

\* What FilesInv says of the files that are read.
Readable(d, fs) ==
    /\ IsInjective(d) /\ DOMAIN d \subseteq Names
    /\ \A i \in Range(d) : fs[i].lines \in Seq(Lines)
    /\ \A e \in Entries : \A i, j \in Range(d) :
          \A k \in Documents(e, fs[i].lines), l \in Documents(e, fs[j].lines) : i = j /\ k = l

IdsIn(d, fs) == UNION {Ids(fs[i].lines) : i \in Range(d)}

LEMMA VisitedOrder ==
    ASSUME NEW d, NEW fs, Readable(d, fs)
    PROVE  Ordered(Visited(d, fs), Before(d, fs))
<1> DEFINE V == Visited(d, fs)
           R == Before(d, fs)
<1>1. \A i \in Range(d) : Len(fs[i].lines) \in Nat
  BY SeqFacts DEF Readable
<1>2. ASSUME NEW p \in V
      PROVE  p = <<p[1], p[2]>> /\ p[1] \in Range(d) /\ p[2] \in Nat
  BY <1>1, InVisited
<1>3. ASSUME NEW p \in V, NEW q \in V
      PROVE  <<p, q>> \in R <=> (p[1] = q[1] /\ p[2] < q[2]) \/ InodeFirst(d, p[1], q[1])
  BY InBefore DEF VisitedFirst, InodeFirst
<1>4. /\ \A i : ~InodeFirst(d, i, i)
      /\ \A i, j \in Range(d) : i # j => InodeFirst(d, i, j) \/ InodeFirst(d, j, i)
      /\ \A i, j, k : InodeFirst(d, i, j) /\ InodeFirst(d, j, k) => InodeFirst(d, i, k)
  BY InodeOrder DEF Readable
<1> HIDE DEF V, R
<1>5. \A p \in V : <<p, p>> \notin R
  BY <1>2, <1>3, <1>4
<1>6. ASSUME NEW p \in V, NEW q \in V, p # q PROVE <<p, q>> \in R \/ <<q, p>> \in R
  <2>1. p[1] # q[1] \/ p[2] < q[2] \/ q[2] < p[2]
    <3>1. p[1] # q[1] \/ p[2] # q[2]
      BY <1>2, <1>6
    <3>2. p[2] \in Nat /\ q[2] \in Nat
      BY <1>2
    <3>3. QED
      BY <3>1, <3>2
  <2>2. QED
    BY <1>2, <1>3, <1>4, <2>1
<1>7. ASSUME NEW p \in V, NEW q \in V, NEW r \in V, <<p, q>> \in R, <<q, r>> \in R PROVE <<p, r>> \in R
  <2>1. (p[1] = q[1] /\ p[2] < q[2]) \/ InodeFirst(d, p[1], q[1])
    BY <1>3, <1>7
  <2>2. (q[1] = r[1] /\ q[2] < r[2]) \/ InodeFirst(d, q[1], r[1])
    BY <1>3, <1>7
  <2>3. p[2] \in Nat /\ q[2] \in Nat /\ r[2] \in Nat
    BY <1>2
  <2>4. (p[1] = r[1] /\ p[2] < r[2]) \/ InodeFirst(d, p[1], r[1])
    <3>1. p[2] < q[2] /\ q[2] < r[2] => p[2] < r[2]
      BY <2>3
    <3>2. QED
      BY <1>4, <2>1, <2>2, <3>1
  <2>5. QED
    BY <1>3, <2>4
<1>8. QED
  BY <1>5, <1>6, <1>7 DEF Ordered, V, R

\* There are as many documents as identities that have one.
LEMMA VisitedCounted ==
    ASSUME NEW d, NEW fs, Readable(d, fs)
    PROVE  IsFiniteSet(Visited(d, fs)) /\ Cardinality(IdsIn(d, fs)) = Cardinality(Visited(d, fs))
<1> DEFINE V == Visited(d, fs)
           E == IdsIn(d, fs)
           Who(p) == CHOOSE e \in fs[p[1]].lines[p[2]].ids : TRUE
           g == [p \in V |-> Who(p)]
<1>1. ASSUME NEW p \in V
      PROVE  /\ p = <<p[1], p[2]>> /\ p[1] \in Range(d) /\ p[2] \in 1..Len(fs[p[1]].lines)
             /\ fs[p[1]].lines[p[2]].whole /\ fs[p[1]].lines[p[2]].ids = {Who(p)} /\ Who(p) \in Entries
  <2>1. PICK i \in Range(d) : \E k \in 1..Len(fs[i].lines) : p = <<i, k>> /\ fs[i].lines[k].whole
    BY <1>1, InVisited
  <2>2. PICK k \in 1..Len(fs[i].lines) : p = <<i, k>> /\ fs[i].lines[k].whole
    BY <2>1
  <2>3. fs[i].lines[k] \in Lines
    BY <2>2, SeqFacts DEF Readable
  <2>4. PICK e \in Entries : fs[i].lines[k].ids = {e}
    BY <2>2, <2>3 DEF Lines
  <2>5. Who(p) = e
    BY <2>2, <2>4
  <2>6. QED
    BY <2>2, <2>4, <2>5
<1>2. ASSUME NEW p \in V PROVE p[2] \in Documents(Who(p), fs[p[1]].lines)
  BY <1>1 DEF Documents
<1> HIDE DEF Who, V
<1>3. ASSUME NEW p \in V PROVE Who(p) \in E
  BY <1>1, InIds DEF IdsIn
<1>4. ASSUME NEW p \in V, NEW q \in V, Who(p) = Who(q) PROVE p = q
  <2> DEFINE e == Who(p)
  <2>1. e \in Entries /\ p[1] \in Range(d) /\ q[1] \in Range(d)
    BY <1>1
  <2>2. p[2] \in Documents(e, fs[p[1]].lines) /\ q[2] \in Documents(e, fs[q[1]].lines)
    BY <1>2, <1>4
  <2> HIDE DEF e
  <2>3. \A i, j \in Range(d) : \A k \in Documents(e, fs[i].lines), l \in Documents(e, fs[j].lines) :
           i = j /\ k = l
    BY <2>1 DEF Readable
  <2>4. p[1] = q[1] /\ p[2] = q[2]
    BY <2>1, <2>2, <2>3
  <2>5. QED
    BY <1>1, <2>4
<1>5. ASSUME NEW e \in E PROVE e \in Entries /\ \E p \in V : Who(p) = e
  <2>1. PICK i \in Range(d) : e \in Ids(fs[i].lines)
    BY DEF IdsIn
  <2>2. PICK k \in 1..Len(fs[i].lines) : fs[i].lines[k].whole /\ e \in fs[i].lines[k].ids
    BY <2>1, InIds
  <2>3. <<i, k>> \in V
    BY <2>2, InVisited DEF V
  <2>4. Who(<<i, k>>) = e /\ Who(<<i, k>>) \in Entries
    BY <1>1, <2>2, <2>3
  <2>5. QED
    BY <2>3, <2>4
<1>6. g \in Bijection(V, E)
  BY <1>3, <1>4, <1>5 DEF Bijection, Injection, Surjection, IsInjective
<1>7. IsFiniteSet(Entries) /\ E \subseteq Entries
  BY <1>5, IntervalSizes, JSONLAssumption DEF Entries
<1> HIDE DEF g, E
<1>8. IsFiniteSet(E)
  BY <1>7, FS_Subset
<1>9. IsFiniteSet(V)
  BY <1>6, <1>8, FS_Injection DEF Bijection
<1>10. QED
  BY <1>6, <1>9, FS_Bijection DEF ExistsBijection, V, E

\* Lines x, of which the first m are documents, are written behind those of inode i,
\* the last one of directory d that is read; directory d2 may have one more file.
Extends(d, fs, d2, fs2, i, x, m) ==
    /\ Readable(d, fs) /\ Readable(d2, fs2)
    /\ i \in Range(d) /\ Range(d) \subseteq Range(d2)
    /\ x \in Seq(Lines) /\ m \in 0..Len(x)
    /\ \A l \in 1..Len(x) : x[l].whole <=> l <= m
    /\ fs2[i].lines = fs[i].lines \o x
    /\ \A j \in Range(d) : j # i => fs2[j].lines = fs[j].lines /\ InodeFirst(d, j, i)
    /\ \A j \in Range(d2) : \A k \in 1..Len(fs2[j].lines) : j \in Range(d)
    /\ \A j, k \in Range(d) : InodeFirst(d, j, k) => InodeFirst(d2, j, k)

Added(i, c, m) == [l \in 1..m |-> <<i, Len(c) + l>>]

LEMMA ExtendsOrder ==
    ASSUME NEW d, NEW fs, NEW d2, NEW fs2, NEW i, NEW x, NEW m, Extends(d, fs, d2, fs2, i, x, m)
    PROVE  LET S == Visited(d, fs)
               T == Visited(d2, fs2)
               R == Before(d, fs)
               Q == Before(d2, fs2)
               t == Added(i, fs[i].lines, m)
           IN  /\ Behind(S, R, T, Q, t, m)
               /\ \A p \in S : fs2[p[1]].lines[p[2]] = fs[p[1]].lines[p[2]]
               /\ \A l \in 1..m : fs2[t[l][1]].lines[t[l][2]] = x[l]
<1> DEFINE S == Visited(d, fs)
           T == Visited(d2, fs2)
           R == Before(d, fs)
           Q == Before(d2, fs2)
           c == fs[i].lines
           n == Len(c)
           t == Added(i, c, m)
<1>1. /\ c \in Seq(Lines) /\ x \in Seq(Lines) /\ n \in Nat /\ Len(x) \in Nat /\ m \in 0..Len(x)
      /\ \A j \in Range(d) : Len(fs[j].lines) \in Nat
  BY SeqFacts DEF Extends, Readable
<1>2. m \in Nat
  BY <1>1
<1>3. /\ DOMAIN t = 1..m /\ (\A l \in 1..m : t[l] = <<i, n + l>>)
  BY DEF Added
<1>4. /\ Len(c \o x) = n + Len(x)
      /\ \A k \in 1..n : (c \o x)[k] = c[k]
      /\ \A k \in 1..Len(x) : (c \o x)[n + k] = x[k]
  BY <1>1, ConcatFacts
<1>5. fs2[i].lines = c \o x
  BY DEF Extends
<1> HIDE DEF c, n, t
<1>6. ASSUME NEW p \in S
      PROVE  /\ p \in T /\ p = <<p[1], p[2]>> /\ p[1] \in Range(d) /\ p[2] \in Nat
             /\ p[1] = i => p[2] <= n
             /\ fs2[p[1]].lines[p[2]] = fs[p[1]].lines[p[2]]
  <2>1. PICK j \in Range(d) : \E k \in 1..Len(fs[j].lines) : p = <<j, k>> /\ fs[j].lines[k].whole
    BY InVisited
  <2>2. PICK k \in 1..Len(fs[j].lines) : p = <<j, k>> /\ fs[j].lines[k].whole
    BY <2>1
  <2>3. k \in 1..Len(fs2[j].lines) /\ fs2[j].lines[k] = fs[j].lines[k]
    <3>1. CASE j = i
      <4>1. k \in 1..n /\ k \in 1..n + Len(x)
        BY <1>1, <2>2, <3>1 DEF n, c
      <4>2. QED
        BY <1>4, <1>5, <3>1, <4>1 DEF c
    <3>2. CASE j # i
      BY <2>2, <3>2 DEF Extends
    <3>3. QED
      BY <3>1, <3>2
  <2>4. p \in T
    BY <2>2, <2>3, InVisited DEF Extends
  <2>5. k \in Nat /\ (j = i => k <= n)
    BY <1>1, <2>2 DEF n, c
  <2>6. QED
    BY <2>2, <2>3, <2>4, <2>5
<1>7. ASSUME NEW l \in 1..m
      PROVE  t[l] \in T /\ t[l] \notin S /\ fs2[t[l][1]].lines[t[l][2]] = x[l]
  <2>1. l \in 1..Len(x) /\ n + l \in 1..n + Len(x) /\ ~(n + l <= n)
    BY <1>1
  <2>2. n + l \in 1..Len(fs2[i].lines) /\ fs2[i].lines[n + l] = x[l]
    BY <1>4, <1>5, <2>1
  <2>3. x[l].whole /\ i \in Range(d2)
    BY <1>1, <2>1 DEF Extends
  <2>4. <<i, n + l>> \in T
    BY <2>2, <2>3, InVisited
  <2>5. <<i, n + l>> \notin S
    BY <1>6, <2>1
  <2>6. QED
    BY <1>3, <2>2, <2>4, <2>5
<1>8. ASSUME NEW p \in T PROVE p \in S \/ \E l \in 1..m : p = t[l]
  <2>1. PICK j \in Range(d2) : \E k \in 1..Len(fs2[j].lines) : p = <<j, k>> /\ fs2[j].lines[k].whole
    BY InVisited
  <2>2. PICK k \in 1..Len(fs2[j].lines) : p = <<j, k>> /\ fs2[j].lines[k].whole
    BY <2>1
  <2>3. j \in Range(d)
    BY <2>2 DEF Extends
  <2>4. CASE j # i
    <3>1. fs2[j].lines = fs[j].lines
      BY <2>3, <2>4 DEF Extends
    <3>2. QED
      BY <2>2, <2>3, <3>1, InVisited
  <2>5. CASE j = i /\ k <= n
    <3>1. k \in 1..n
      BY <1>1, <1>4, <1>5, <2>2, <2>5
    <3>2. c[k].whole
      BY <1>4, <1>5, <2>2, <2>5, <3>1
    <3>3. QED
      BY <2>2, <2>3, <2>5, <3>1, <3>2, InVisited DEF c, n
  <2>6. CASE j = i /\ ~(k <= n)
    <3>1. k - n \in 1..Len(x) /\ k = n + (k - n)
      BY <1>1, <1>4, <1>5, <2>2, <2>6
    <3>2. x[k - n].whole
      BY <1>4, <1>5, <2>2, <2>6, <3>1
    <3>3. k - n <= m
      BY <3>1, <3>2 DEF Extends
    <3>4. k - n \in 1..m
      BY <1>1, <3>1, <3>3
    <3>5. QED
      BY <1>3, <2>2, <2>6, <3>1, <3>4
  <2>7. QED
    BY <2>4, <2>5, <2>6
<1>9. \A q \in Range(t) : \E l \in 1..m : q = t[l]
  BY <1>3, InRange
<1>10. \A l \in 1..m : t[l] \in Range(t)
  BY <1>3, InRange
<1>11. T = S \cup Range(t) /\ Range(t) \cap S = {}
  <2>1. \A q \in Range(t) : q \in T /\ q \notin S
    BY <1>7, <1>9
  <2>2. \A p \in T : p \in S \/ p \in Range(t)
    BY <1>8, <1>10
  <2>3. \A p \in S : p \in T
    BY <1>6
  <2> HIDE DEF S, T
  <2>4. QED
    BY <2>1, <2>2, <2>3
<1>12. ASSUME NEW p \in T, NEW q \in T
       PROVE  <<p, q>> \in Q <=> (p[1] = q[1] /\ p[2] < q[2]) \/ InodeFirst(d2, p[1], q[1])
  BY InBefore DEF VisitedFirst, InodeFirst
<1>13. ASSUME NEW p \in S, NEW q \in S
       PROVE  <<p, q>> \in R <=> (p[1] = q[1] /\ p[2] < q[2]) \/ InodeFirst(d, p[1], q[1])
  BY InBefore DEF VisitedFirst, InodeFirst
<1>14. /\ \A j : ~InodeFirst(d2, j, j)
       /\ \A j, k : ~(InodeFirst(d2, j, k) /\ InodeFirst(d2, k, j))
  BY InodeOrder DEF Extends, Readable
<1>15. \A j, k \in Range(d) : InodeFirst(d, j, k) <=> InodeFirst(d2, j, k)
  <2>1. /\ \A j, k \in Range(d) : InodeFirst(d, j, k) => InodeFirst(d2, j, k)
        /\ \A j, k \in Range(d) : j # k => InodeFirst(d, j, k) \/ InodeFirst(d, k, j)
    BY InodeOrder DEF Extends, Readable
  <2>2. QED
    BY <1>14, <2>1
<1> HIDE DEF S, T, R, Q
<1>16. \A p, q \in S : <<p, q>> \in Q <=> <<p, q>> \in R
  BY <1>6, <1>12, <1>13, <1>15
<1>17. ASSUME NEW p \in S PROVE <<p, p>> \notin R
  <2>1. p[2] \in Nat /\ ~InodeFirst(d, p[1], p[1])
    BY <1>6, <1>14, <1>15
  <2>2. QED
    BY <1>13, <2>1
<1>18. ASSUME NEW p \in S, NEW l \in 1..m PROVE <<p, t[l]>> \in Q /\ <<t[l], p>> \notin Q
  <2>1. p \in T /\ t[l] \in T /\ t[l] = <<i, n + l>> /\ p[1] \in Range(d) /\ p[2] \in Nat
        /\ (p[1] = i => p[2] <= n)
    BY <1>3, <1>6, <1>7
  <2>2. CASE p[1] = i
    <3>1. p[2] < n + l /\ ~(n + l < p[2])
      BY <1>1, <2>1, <2>2
    <3>2. QED
      BY <1>12, <1>14, <2>1, <2>2, <3>1
  <2>3. CASE p[1] # i
    <3>1. InodeFirst(d, p[1], i) /\ i \in Range(d)
      BY <2>1, <2>3 DEF Extends
    <3>2. InodeFirst(d2, p[1], i) /\ ~InodeFirst(d2, i, p[1])
      BY <1>14, <1>15, <2>1, <3>1
    <3>3. QED
      BY <1>12, <2>1, <2>3, <3>2
  <2>4. QED
    BY <2>2, <2>3
<1>19. ASSUME NEW k \in 1..m, NEW l \in 1..m PROVE <<t[k], t[l]>> \in Q <=> k < l
  <2>1. t[k] \in T /\ t[l] \in T /\ t[k] = <<i, n + k>> /\ t[l] = <<i, n + l>>
    BY <1>3, <1>7
  <2>2. n + k < n + l <=> k < l
    BY <1>1
  <2>3. QED
    BY <1>12, <1>14, <2>1, <2>2
<1>20. \A p \in S, q \in Range(t) : <<p, q>> \in Q /\ <<q, p>> \notin Q
  BY <1>9, <1>18
<1>21. Behind(S, R, T, Q, t, m)
  BY <1>2, <1>3, <1>11, <1>16, <1>17, <1>19, <1>20 DEF Behind
<1>22. QED
  BY <1>6, <1>7, <1>21 DEF S, T, R, Q, t, c

\* Query, of any files.
ReadAll(d, fs) ==
    LET docs == Visited(d, fs)
    IN  [n \in 1..Cardinality(docs) |->
            LET p == CHOOSE x \in docs : Cardinality({y \in docs : VisitedFirst(d, y, x)}) = n - 1
            IN  fs[p[1]].lines[p[2]]]

LEMMA ReadPlace ==
    ASSUME NEW d, NEW fs, Readable(d, fs), NEW n \in 1..Cardinality(Visited(d, fs)),
           NEW p \in Visited(d, fs), Cardinality(Below(Visited(d, fs), Before(d, fs), p)) = n - 1
    PROVE  ReadAll(d, fs)[n] = fs[p[1]].lines[p[2]]
<1> DEFINE V == Visited(d, fs)
           B == Before(d, fs)
<1>1. IsFiniteSet(V) /\ Ordered(V, B)
  BY VisitedOrder, VisitedCounted
<1>2. \A x \in V : {y \in V : VisitedFirst(d, y, x)} = Below(V, B, x)
  BY InBefore DEF Below
<1>3. ReadAll(d, fs)[n] = LET r == CHOOSE x \in V : Cardinality({y \in V : VisitedFirst(d, y, x)}) = n - 1
                          IN  fs[r[1]].lines[r[2]]
  BY DEF ReadAll
<1> DEFINE r == CHOOSE x \in V : Cardinality({y \in V : VisitedFirst(d, y, x)}) = n - 1
<1> HIDE DEF V, B
<1>4. \A q \in V : Cardinality(Below(V, B, q)) = n - 1 => q = p
  <2>1. PICK s \in V : \A q \in V : Cardinality(Below(V, B, q)) = n - 1 => q = s
    BY <1>1, RankedAll DEF V
  <2>2. QED
    BY <2>1 DEF V, B
<1>5. r \in V /\ Cardinality({y \in V : VisitedFirst(d, y, r)}) = n - 1
  <2>1. p \in V /\ Cardinality({y \in V : VisitedFirst(d, y, p)}) = n - 1
    BY <1>2 DEF V, B
  <2>2. QED
    BY <2>1
<1>6. r = p
  BY <1>2, <1>4, <1>5
<1>7. QED
  BY <1>3, <1>6

LEMMA StreamGrows ==
    ASSUME NEW d, NEW fs, NEW d2, NEW fs2, NEW i, NEW x, NEW m, Extends(d, fs, d2, fs2, i, x, m)
    PROVE  LET C == Cardinality(Visited(d, fs))
           IN  /\ C \in Nat /\ Cardinality(Visited(d2, fs2)) = C + m
               /\ \A n \in 1..C : ReadAll(d2, fs2)[n] = ReadAll(d, fs)[n]
               /\ \A l \in 1..m : ReadAll(d2, fs2)[C + l] = x[l]
<1> DEFINE S == Visited(d, fs)
           T == Visited(d2, fs2)
           R == Before(d, fs)
           Q == Before(d2, fs2)
           t == Added(i, fs[i].lines, m)
           C == Cardinality(S)
<1>1. Readable(d, fs) /\ Readable(d2, fs2)
  BY DEF Extends
<1>2. IsFiniteSet(S) /\ Ordered(S, R)
  BY <1>1, VisitedOrder, VisitedCounted
<1>3. /\ Behind(S, R, T, Q, t, m)
      /\ \A p \in S : fs2[p[1]].lines[p[2]] = fs[p[1]].lines[p[2]]
      /\ \A l \in 1..m : fs2[t[l][1]].lines[t[l][2]] = x[l]
  BY ExtendsOrder
<1> HIDE DEF S, T, R, Q, t
<1>4. /\ C \in Nat /\ m \in Nat /\ Cardinality(T) = C + m
      /\ \A p \in S : Below(T, Q, p) = Below(S, R, p)
      /\ \A l \in 1..m : Cardinality(Below(T, Q, t[l])) = C + (l - 1)
  <2>1. m \in Nat
    BY <1>3 DEF Behind
  <2>2. QED
    BY <1>2, <1>3, <2>1, RankedMore
<1> HIDE DEF C
<1>5. ASSUME NEW n \in 1..C PROVE ReadAll(d2, fs2)[n] = ReadAll(d, fs)[n]
  <2>1. PICK p \in S : Cardinality(Below(S, R, p)) = n - 1
    BY <1>2, RankedAll DEF C
  <2>2. ReadAll(d, fs)[n] = fs[p[1]].lines[p[2]]
    BY <1>1, <2>1, ReadPlace DEF S, R, C
  <2>3. n \in 1..Cardinality(T)
    BY <1>4
  <2>4. p \in T /\ Cardinality(Below(T, Q, p)) = n - 1
    BY <1>3, <1>4, <2>1 DEF Behind
  <2>5. ReadAll(d2, fs2)[n] = fs2[p[1]].lines[p[2]]
    BY <1>1, <2>3, <2>4, ReadPlace DEF T, Q
  <2>6. QED
    BY <1>3, <2>2, <2>5
<1>6. ASSUME NEW l \in 1..m PROVE ReadAll(d2, fs2)[C + l] = x[l]
  <2> DEFINE n == C + l
  <2>1. n \in 1..Cardinality(T) /\ C + (l - 1) = n - 1
    BY <1>4
  <2>2. t[l] \in T
    BY <1>3, InRange DEF Behind
  <2> HIDE DEF n
  <2>3. Cardinality(Below(T, Q, t[l])) = n - 1
    BY <1>4, <2>1
  <2>4. ReadAll(d2, fs2)[n] = fs2[t[l][1]].lines[t[l][2]]
    BY <1>1, <2>1, <2>2, <2>3, ReadPlace DEF T, Q
  <2>5. QED
    BY <1>3, <2>4 DEF n
<1>7. QED
  BY <1>4, <1>5, <1>6 DEF C, S, T

AsRecords(q) == [k \in 1..Len(q) |-> [id |-> CHOOSE e \in q[k].ids : TRUE, body |-> TRUE]]
BatchRecords(b) == [k \in 1..Len(b) |-> [id |-> b[k], body |-> TRUE]]

LEMMA FunctionSeq ==
    ASSUME NEW C \in Nat, NEW f, f = [n \in 1..C |-> f[n]], NEW S, \A n \in 1..C : f[n] \in S
    PROVE  f \in Seq(S) /\ Len(f) = C
<1>1. [n \in 1..C |-> f[n]] \in Seq(S)
  BY IsASeq
<1>2. QED
  BY <1>1, LenProperties

LEMMA ReadAllSeq ==
    ASSUME NEW d, NEW fs, Readable(d, fs)
    PROVE  LET C == Cardinality(Visited(d, fs))
           IN  /\ C \in Nat /\ Len(ReadAll(d, fs)) = C
               /\ AsRecords(ReadAll(d, fs)) = [k \in 1..C |-> AsRecords(ReadAll(d, fs))[k]]
               /\ \A k \in 1..C : AsRecords(ReadAll(d, fs))[k] =
                     [id |-> CHOOSE e \in ReadAll(d, fs)[k].ids : TRUE, body |-> TRUE]
<1> DEFINE C == Cardinality(Visited(d, fs))
           a == ReadAll(d, fs)
<1>1. C \in Nat
  BY VisitedCounted, FS_CardinalityType
<1>2. a = [n \in 1..C |-> a[n]]
  BY DEF ReadAll
<1> HIDE DEF C, a
<1>3. Len(a) = C
  <2> DEFINE S == {a[n] : n \in 1..C}
  <2>1. \A n \in 1..C : a[n] \in S
    OBVIOUS
  <2> HIDE DEF S
  <2>2. QED
    BY <1>1, <1>2, <2>1, FunctionSeq
<1>4. QED
  BY <1>1, <1>3 DEF AsRecords, C, a

\* The records of the stream: those of a batch are appended to it.
LEMMA RecordsGrow ==
    ASSUME NEW d, NEW fs, NEW d2, NEW fs2, NEW i, NEW x, NEW m, Extends(d, fs, d2, fs2, i, x, m),
           NEW b \in Seq(Entries), Writes(x, b)
    PROVE  /\ AsRecords(ReadAll(d2, fs2)) = AsRecords(ReadAll(d, fs)) \o SubSeq(BatchRecords(b), 1, m)
           /\ m \in 0..Len(BatchRecords(b))
<1> DEFINE C == Cardinality(Visited(d, fs))
           a == ReadAll(d, fs)
           g == ReadAll(d2, fs2)
           u == AsRecords(a)
           v == AsRecords(g)
           w == SubSeq(BatchRecords(b), 1, m)
           S == {u[n] : n \in 1..C} \cup {v[n] : n \in 1..C + m} \cup {BatchRecords(b)[n] : n \in 1..Len(b)}
<1>1. Readable(d, fs) /\ Readable(d2, fs2) /\ x \in Seq(Lines) /\ m \in 0..Len(x) /\ Len(x) <= Len(b)
      /\ \A k \in 1..Len(x) : x[k].ids = {b[k]}
  BY DEF Extends, Writes
<1>2. Len(x) \in Nat /\ Len(b) \in Nat
  BY <1>1, SeqFacts
<1>3. m \in Nat /\ m <= Len(b) /\ m <= Len(x)
  BY <1>1, <1>2
<1>4. /\ C \in Nat /\ Cardinality(Visited(d2, fs2)) = C + m
      /\ \A n \in 1..C : g[n] = a[n]
      /\ \A l \in 1..m : g[C + l] = x[l]
  BY StreamGrows
<1>5. /\ Len(a) = C /\ u = [k \in 1..C |-> u[k]]
      /\ \A k \in 1..C : u[k] = [id |-> CHOOSE e \in a[k].ids : TRUE, body |-> TRUE]
  BY <1>1, ReadAllSeq
<1>6. /\ Len(g) = C + m /\ v = [k \in 1..C + m |-> v[k]]
      /\ \A k \in 1..C + m : v[k] = [id |-> CHOOSE e \in g[k].ids : TRUE, body |-> TRUE]
  <2> DEFINE D == Cardinality(Visited(d2, fs2))
  <2>1. /\ Len(g) = D /\ v = [k \in 1..D |-> v[k]]
        /\ \A k \in 1..D : v[k] = [id |-> CHOOSE e \in g[k].ids : TRUE, body |-> TRUE]
    BY <1>1, ReadAllSeq
  <2>2. D = C + m
    BY <1>4
  <2> HIDE DEF D, C, g, v
  <2>3. QED
    BY <2>1, <2>2
<1>7. BatchRecords(b) = [n \in 1..Len(b) |-> BatchRecords(b)[n]]
      /\ \A k \in 1..Len(b) : BatchRecords(b)[k] = [id |-> b[k], body |-> TRUE]
  BY DEF BatchRecords
<1>8. (\A n \in 1..C : u[n] \in S) /\ (\A n \in 1..C + m : v[n] \in S)
      /\ \A n \in 1..Len(b) : BatchRecords(b)[n] \in S
  OBVIOUS
<1> HIDE DEF C, a, g, u, v, S
<1>9. C + m \in Nat
  BY <1>3, <1>4
<1>10. u \in Seq(S) /\ Len(u) = C /\ v \in Seq(S) /\ Len(v) = C + m
       /\ BatchRecords(b) \in Seq(S) /\ Len(BatchRecords(b)) = Len(b)
  <2>1. u \in Seq(S) /\ Len(u) = C
    BY <1>4, <1>5, <1>8, FunctionSeq
  <2>2. v \in Seq(S) /\ Len(v) = C + m
    BY <1>6, <1>8, <1>9, FunctionSeq
  <2>3. BatchRecords(b) \in Seq(S) /\ Len(BatchRecords(b)) = Len(b)
    BY <1>2, <1>7, <1>8, FunctionSeq
  <2>4. QED
    BY <2>1, <2>2, <2>3
<1>11. w \in Seq(S) /\ Len(w) = m /\ \A l \in 1..m : w[l] = BatchRecords(b)[l]
  <2>1. \A n \in 1..m : BatchRecords(b)[n] \in S
    BY <1>2, <1>3, <1>8
  <2>2. /\ w \in Seq(S) /\ Len(w) = (IF 1 <= m THEN m - 1 + 1 ELSE 0)
        /\ \A l \in 1..m - 1 + 1 : w[l] = BatchRecords(b)[1 + l - 1]
    BY <1>3, <2>1, SubSeqProperties
  <2> HIDE DEF w
  <2>3. QED
    BY <1>3, <2>2
<1> HIDE DEF w
<1>12. /\ u \o w \in Seq(S) /\ Len(u \o w) = C + m
       /\ \A k \in 1..C : (u \o w)[k] = u[k]
       /\ \A k \in 1..m : (u \o w)[C + k] = w[k]
  BY <1>10, <1>11, ConcatFacts
<1>13. ASSUME NEW n \in 1..C + m PROVE v[n] = (u \o w)[n]
  <2>1. CASE n <= C
    <3>1. n \in 1..C
      BY <1>4, <2>1
    <3>2. (CHOOSE e \in g[n].ids : TRUE) = (CHOOSE e \in a[n].ids : TRUE)
      BY <1>4, <3>1
    <3>3. v[n] = u[n]
      BY <1>5, <1>6, <3>1, <3>2
    <3>4. QED
      BY <1>12, <3>1, <3>3
  <2>2. CASE ~(n <= C)
    <3>1. n - C \in 1..m /\ n = C + (n - C)
      BY <1>3, <1>4, <2>2
    <3>2. g[n] = x[n - C]
      BY <1>4, <3>1
    <3>3. n - C \in 1..Len(x) /\ n - C \in 1..Len(b)
      BY <1>2, <1>3, <3>1
    <3>4. g[n].ids = {b[n - C]}
      BY <1>1, <3>2, <3>3
    <3>5. (CHOOSE e \in g[n].ids : TRUE) = b[n - C]
      BY <3>4
    <3>6. v[n] = BatchRecords(b)[n - C]
      BY <1>6, <1>7, <3>3, <3>5
    <3>7. (u \o w)[n] = BatchRecords(b)[n - C]
      BY <1>11, <1>12, <3>1
    <3>8. QED
      BY <3>6, <3>7
  <2>3. QED
    BY <2>1, <2>2
<1>14. v = u \o w
  BY <1>10, <1>12, <1>13, SeqEqual
<1>15. QED
  BY <1>2, <1>3, <1>10, <1>14 DEF u, v, a, g, w

-----------------------------------------------------------------------------
(* The files implement AuditStore.                                         *)

LEMMA ReadableFrom ==
    ASSUME NEW fs, NEW d, FilesOK(fs), DirOK(fs, d),
           \A e \in Entries : \A p, q \in UNION {{i} \X Documents(e, fs[i].lines) : i \in Range(d)} : p = q
    PROVE  Readable(d, fs)
<1>1. Range(d) \subseteq DOMAIN fs
  BY InRange DEF DirOK
<1>2. \A i \in Range(d) : fs[i].lines \in Seq(Lines)
  BY <1>1 DEF FilesOK
<1>3. ASSUME NEW e \in Entries, NEW i \in Range(d), NEW j \in Range(d),
             NEW k \in Documents(e, fs[i].lines), NEW l \in Documents(e, fs[j].lines)
      PROVE  i = j /\ k = l
  <2> DEFINE H == UNION {{m} \X Documents(e, fs[m].lines) : m \in Range(d)}
  <2>1. <<i, k>> \in H /\ <<j, l>> \in H
    OBVIOUS
  <2>2. \A p, q \in H : p = q
    OBVIOUS
  <2> HIDE DEF H
  <2>3. <<i, k>> = <<j, l>>
    BY <2>1, <2>2
  <2>4. QED
    BY <2>3
<1>4. QED
  BY <1>2, <1>3 DEF Readable, DirOK

LEMMA InvReadable ==
    ASSUME Inv, Durable, gone = {}
    PROVE  Readable(dir, files)
<1>1. FilesOK(files) /\ DirOK(files, dir)
  BY InvDisk DEF DiskInv, DirsOK
<1>2. \A e \in Entries : \A p, q \in Hits(e) : p = q
  BY DEF Inv, FilesInv, UniqueIdentity
<1>3. QED
  BY <1>1, <1>2, ReadableFrom DEF Hits

\* After a call, every acknowledged identity has a document.
LEMMA InvReadableNext ==
    ASSUME Inv', Durable', gone' = {}
    PROVE  Readable(dir', files') /\ acked' \subseteq IdsIn(dir', files')
<1>1. JSONLTypeOK' /\ DirInv' /\ UniqueIdentity' /\ AckedSurvivesCrash'
  BY DEF Inv, FilesInv
<1>2. FilesOK(files') /\ DirOK(files', dir') /\ dir' \in dirDisk'
  BY <1>1 DEF JSONLTypeOK, DirInv, FilesOK, DirOK
<1>3. \A e \in Entries : \A p, q \in Hits(e)' : p = q
  BY <1>1 DEF UniqueIdentity
<1>4. Readable(dir', files')
  <2> DEFINE d == dir'
             fs == files'
  <2>1. FilesOK(fs) /\ DirOK(fs, d)
        /\ \A e \in Entries : \A p, q \in UNION {{i} \X Documents(e, fs[i].lines) : i \in Range(d)} : p = q
    BY <1>2, <1>3 DEF Hits
  <2> HIDE DEF d, fs
  <2>2. Readable(d, fs)
    BY <2>1, ReadableFrom
  <2>3. QED
    BY <2>2 DEF d, fs
<1>5. ASSUME NEW e \in acked' PROVE e \in IdsIn(dir', files')
  <2>1. PICK i \in Range(dir') : \A c \in files'[i].disk : Document(e) \in ToSet(c)
    BY <1>1, <1>2 DEF AckedSurvivesCrash
  <2>2. i \in DOMAIN files'
    BY <1>2, InRange DEF DirOK
  <2>3. files'[i].lines \in files'[i].disk /\ files'[i].lines \in Seq(Lines)
    BY <1>2, <2>2 DEF FilesOK
  <2>4. PICK k \in 1..Len(files'[i].lines) : files'[i].lines[k] = Document(e)
    BY <2>1, <2>3, SeqFacts DEF ToSet
  <2>5. e \in Ids(files'[i].lines)
    BY <2>4, InIds DEF Document
  <2>6. QED
    BY <2>5 DEF IdsIn
<1>6. QED
  BY <1>4, <1>5

\* The documents of a write that stopped early are a prefix of it.
LEMMA TidyPrefix ==
    ASSUME NEW x \in Seq(Lines), Tidy(x)
    PROVE  \E m \in 0..Len(x) : \A l \in 1..Len(x) : x[l].whole <=> l <= m
<1>1. Len(x) \in Nat /\ \A l \in 1..Len(x) : l < Len(x) => x[l].whole
  BY SeqFacts DEF Tidy
<1>2. CASE Len(x) = 0
  BY <1>2
<1>3. CASE Len(x) # 0 /\ x[Len(x)].whole
  <2>1. Len(x) \in 0..Len(x) /\ \A l \in 1..Len(x) : x[l].whole /\ l <= Len(x)
    BY <1>1, <1>3
  <2>2. QED
    BY <2>1
<1>4. CASE Len(x) # 0 /\ ~x[Len(x)].whole
  <2>1. Len(x) - 1 \in 0..Len(x) /\ \A l \in 1..Len(x) : l < Len(x) <=> l <= Len(x) - 1
    BY <1>1, <1>4
  <2>2. \A l \in 1..Len(x) : l < Len(x) \/ l = Len(x)
    BY <1>1
  <2>3. \A l \in 1..Len(x) : x[l].whole <=> l < Len(x)
    BY <1>1, <1>4, <2>2
  <2>4. QED
    BY <2>1, <2>3
<1>5. QED
  BY <1>2, <1>3, <1>4

LEMMA WroteExtends ==
    ASSUME Inv, Inv', Durable, Durable', Undisturbed, MaxAge = 0, gone = {}, gone' = {},
           NEW x \in Seq(Lines), Tidy(x), NEW fs, Wrote(fs, x)
    PROVE  \E m : Extends(dir, files, dir', files', dir[Active], x, m)
<1> DEFINE i == dir[Active]
<1>1. Readable(dir, files) /\ Readable(dir', files')
  BY InvReadable, InvReadableNext
<1>2. PICK m \in 0..Len(x) : \A l \in 1..Len(x) : x[l].whole <=> l <= m
  BY TidyPrefix
<1>3. /\ Active \in DOMAIN dir /\ i \in Range(dir) /\ fs[i].lines = files[i].lines \o x
      /\ \A j \in Range(dir) : j # i => fs[j].lines = files[j].lines
      /\ Moved(fs)
  BY DEF Wrote
<1>4. /\ Range(dir) \subseteq Range(dir') /\ \A j \in Range(dir) : files'[j].lines = fs[j].lines
      /\ NothingNew(fs, dir, files', dir') /\ InOrder(dir, dir')
  BY <1>3 DEF Moved
<1>5. ASSUME NEW j \in Range(dir), j # i PROVE InodeFirst(dir, j, i)
  BY <1>3, <1>5, InRange DEF InodeFirst, queryPaths
<1>6. \A j, k \in Range(dir) : InodeFirst(dir, j, k) => InodeFirst(dir', j, k)
  BY <1>4 DEF InOrder
<1>7. \A j \in Range(dir') : \A k \in 1..Len(files'[j].lines) : j \in Range(dir)
  BY <1>4 DEF NothingNew, Old
<1>8. files'[i].lines = files[i].lines \o x
      /\ \A j \in Range(dir) : j # i => files'[j].lines = files[j].lines
  BY <1>3, <1>4
<1> HIDE DEF i
<1>9. Extends(dir, files, dir', files', i, x, m)
  BY <1>1, <1>2, <1>3, <1>4, <1>5, <1>6, <1>7, <1>8 DEF Extends
<1>10. QED
  BY <1>9 DEF i

LEMMA QueryReads ==
    Query = ReadAll(dir, files) /\ Query' = ReadAll(dir', files')
BY DEF Query, ReadAll

LEMMA AppendsOk ==
    ASSUME NEW b \in Batches, AsRecords(Query') = AsRecords(Query) \o BatchRecords(b),
           Cardinality(acked') = Len(AsRecords(Query')), handle # "closed", handle' # "closed"
    PROVE  ContractNext
<1> DEFINE cb == BatchRecords(b)
<1>1. cb \in ContractBatches
  BY DEF ContractBatches, BatchRecords
<1>2. Contract!AppendBatchOk(cb)
  BY DEF Contract!AppendBatchOk, AsRecords
<1> HIDE DEF cb
<1>3. QED
  BY <1>1, <1>2 DEF ContractNext

LEMMA AppendsSome ==
    ASSUME NEW b \in Batches, NEW k \in 0..Len(BatchRecords(b)),
           AsRecords(Query') = AsRecords(Query) \o SubSeq(BatchRecords(b), 1, k),
           acked' = acked, handle # "closed", handle' # "closed"
    PROVE  ContractNext
<1> DEFINE cb == BatchRecords(b)
<1>1. cb \in ContractBatches
  BY DEF ContractBatches, BatchRecords
<1> HIDE DEF cb
<1>2. Contract!AppendBatchFailed(cb)
  <2>1. k \in 0..Len(cb) /\ AsRecords(Query') = AsRecords(Query) \o SubSeq(cb, 1, k)
    BY DEF cb
  <2>2. QED
    BY <2>1 DEF Contract!AppendBatchFailed, AsRecords
<1>3. QED
  BY <1>1, <1>2 DEF ContractNext

LEMMA ContractRests ==
    ASSUME Query' = Query, acked' = acked, handle' = "closed" <=> handle = "closed"
    PROVE  UNCHANGED Contract!storeVars
BY DEF Contract!storeVars

LEMMA ContractCloses ==
    ASSUME Query' = Query, acked' = acked, handle' = "closed"
    PROVE  ContractNext
BY DEF ContractNext, Contract!CloseBackend

LEMMA ContractSyncs ==
    ASSUME Query' = Query, handle # "closed", handle' # "closed",
           Cardinality(acked') = Len(AsRecords(Query))
    PROVE  ContractNext
BY DEF ContractNext, Contract!SyncOk, AsRecords

LEMMA SameStream ==
    ASSUME NEW d, NEW fs, NEW fs2, Readable(d, fs), Readable(d, fs2),
           \A i \in Range(d) : fs2[i].lines = fs[i].lines
    PROVE  ReadAll(d, fs2) = ReadAll(d, fs)
<1> DEFINE V == Visited(d, fs)
           C == Cardinality(V)
<1>1. Visited(d, fs2) = V
  <2>1. \A p : p \in Visited(d, fs2) <=> p \in V
    BY InVisited
  <2>2. QED
    BY <2>1
<1>2. Before(d, fs2) = Before(d, fs)
  BY <1>1 DEF Before
<1>3. IsFiniteSet(V) /\ Ordered(V, Before(d, fs))
  BY VisitedOrder, VisitedCounted
<1>4. \A p \in V : p[1] \in Range(d)
  BY InVisited
<1>5. ReadAll(d, fs) = [n \in 1..C |-> ReadAll(d, fs)[n]] /\ ReadAll(d, fs2) = [n \in 1..C |-> ReadAll(d, fs2)[n]]
  <2>1. ReadAll(d, fs2) = [n \in 1..Cardinality(Visited(d, fs2)) |-> ReadAll(d, fs2)[n]]
    BY DEF ReadAll
  <2>2. ReadAll(d, fs) = [n \in 1..C |-> ReadAll(d, fs)[n]]
    BY DEF ReadAll
  <2>3. QED
    BY <1>1, <2>1, <2>2
<1> HIDE DEF V
<1>6. ASSUME NEW n \in 1..C PROVE ReadAll(d, fs2)[n] = ReadAll(d, fs)[n]
  <2>1. PICK p \in V : Cardinality(Below(V, Before(d, fs), p)) = n - 1
    BY <1>3, RankedAll
  <2>2. ReadAll(d, fs)[n] = fs[p[1]].lines[p[2]]
    BY <2>1, ReadPlace DEF V
  <2>3. ReadAll(d, fs2)[n] = fs2[p[1]].lines[p[2]]
    <3>1. /\ n \in 1..Cardinality(Visited(d, fs2)) /\ p \in Visited(d, fs2)
          /\ Cardinality(Below(Visited(d, fs2), Before(d, fs2), p)) = n - 1
      BY <1>1, <1>2, <2>1
    <3>2. QED
      BY <3>1, ReadPlace
  <2>4. QED
    BY <1>4, <2>2, <2>3
<1>7. QED
  BY <1>5, <1>6

\* What a durable call that returned nil vouches for is the whole stream.
LEMMA AckedAll ==
    ASSUME Inv', Durable, Durable', gone' = {}, NEW ids, Acked(ids)
    PROVE  Cardinality(acked') = Len(AsRecords(Query'))
<1> DEFINE d == dir'
           fs == files'
           C == Cardinality(Visited(d, fs))
           u == AsRecords(ReadAll(d, fs))
<1>1. Readable(d, fs) /\ acked' \subseteq IdsIn(d, fs)
  BY InvReadableNext
<1>2. IdsIn(d, fs) \subseteq acked'
  BY DEF Acked, IdsIn
<1>3. acked' = IdsIn(d, fs)
  BY <1>1, <1>2
<1>4. Query' = ReadAll(d, fs)
  BY QueryReads
<1> HIDE DEF d, fs
<1>5. C \in Nat /\ u = [k \in 1..C |-> u[k]] /\ Cardinality(acked') = C
  BY <1>1, <1>3, ReadAllSeq, VisitedCounted
<1> HIDE DEF C, u
<1>6. Len(u) = C
  <2> DEFINE S == {u[n] : n \in 1..C}
  <2>1. \A n \in 1..C : u[n] \in S
    OBVIOUS
  <2> HIDE DEF S
  <2>2. QED
    BY <1>5, <2>1, FunctionSeq
<1>7. QED
  BY <1>4, <1>5, <1>6 DEF u

LEMMA GoneGrows ==
    ASSUME [Next]_vars
    PROVE  gone \subseteq gone'
<1>1. ASSUME NEW fs, NEW synced, NEW fault, rotate(fs, synced, fault) PROVE gone \subseteq gone'
  BY <1>1 DEF rotate
<1>2. ASSUME NEW b \in Batches, AppendStored(b) PROVE gone \subseteq gone'
  BY <1>1, <1>2 DEF AppendStored, rotateIfNeeded
<1>3. ASSUME ~ \E b \in Batches : AppendStored(b) PROVE gone' = gone
  BY <1>3 DEF Next, appendBatch, AppendRefused, AppendRolledBack, Confirm, Close, Crash,
              NewJSONLStore, Tick, vars
<1>4. QED
  BY <1>2, <1>3

LEMMA StepFacts ==
    ASSUME Inv, NamesInv, [Next]_vars, Plain
    PROVE  /\ Durable /\ Durable' /\ Undisturbed /\ MaxAge = 0
           /\ gone = {} /\ gone' = {} /\ crashes = 0 /\ handle # "down" /\ MaxCrashes = 0
<1>1. config' = config
  BY DEF Next, appendBatch, AppendRefused, AppendRolledBack, AppendStored, Confirm, Close, Crash,
         NewJSONLStore, Tick, vars
<1>2. Durable /\ Undisturbed /\ MaxAge = 0 /\ MaxCrashes = 0 /\ gone' = {}
  BY DEF Plain, Undisturbed
<1>3. Durable'
  BY <1>1, <1>2 DEF Durable
<1>4. gone = {}
  BY <1>2, GoneGrows
<1>5. crashes = 0
  BY <1>2, InvScalars
<1>6. handle # "down"
  BY <1>5 DEF NamesInv
<1>7. QED
  BY <1>2, <1>3, <1>4, <1>5, <1>6

\* The lines x of a write of b, of which the first m are documents.
LEMMA WroteRecords ==
    ASSUME Inv, NamesInv, Inv', NamesInv', [Next]_vars, Plain, NEW b \in Batches,
           NEW x, Writes(x, b), NEW fs, Wrote(fs, x)
    PROVE  \E m \in 0..Len(BatchRecords(b)) :
              /\ AsRecords(Query') = AsRecords(Query) \o SubSeq(BatchRecords(b), 1, m)
              /\ m \in 0..Len(x) /\ \A l \in 1..Len(x) : x[l].whole <=> l <= m
<1>1. x \in Seq(Lines) /\ Tidy(x) /\ b \in Seq(Entries)
  BY BatchFacts DEF Writes
<1>2. PICK m : Extends(dir, files, dir', files', dir[Active], x, m)
  BY <1>1, StepFacts, WroteExtends
<1> DEFINE d == dir'
           gs == files'
           i == dir[Active]
<1>3. Extends(dir, files, d, gs, i, x, m) /\ Query = ReadAll(dir, files) /\ Query' = ReadAll(d, gs)
  BY <1>2, QueryReads
<1> HIDE DEF d, gs, i
<1>4. /\ AsRecords(ReadAll(d, gs)) = AsRecords(ReadAll(dir, files)) \o SubSeq(BatchRecords(b), 1, m)
      /\ m \in 0..Len(BatchRecords(b))
  BY <1>1, <1>3, RecordsGrow
<1>5. m \in 0..Len(x) /\ \A l \in 1..Len(x) : x[l].whole <=> l <= m
  BY <1>3 DEF Extends
<1>6. QED
  BY <1>3, <1>4, <1>5

LEMMA ContractRolledBack ==
    ASSUME Inv, NamesInv, Inv', NamesInv', [Next]_vars, Plain, NEW b \in Batches, AppendRolledBack(b)
    PROVE  ContractNext
<1>1. PICK x : Writes(x, b) /\ Wrote(files', x)
  BY StepFacts, RolledBackWrote
<1>2. PICK m \in 0..Len(BatchRecords(b)) :
         AsRecords(Query') = AsRecords(Query) \o SubSeq(BatchRecords(b), 1, m)
  <2> DEFINE fs == files'
  <2>1. Writes(x, b) /\ Wrote(fs, x)
    BY <1>1
  <2> HIDE DEF fs
  <2>2. QED
    BY <2>1, WroteRecords
<1>3. acked' = acked /\ handle = "open" /\ handle' = handle
  BY DEF AppendRolledBack, Failed, Writable
<1>4. QED
  BY <1>2, <1>3, AppendsSome

LEMMA ContractStored ==
    ASSUME Inv, NamesInv, Inv', NamesInv', [Next]_vars, Plain, NEW b \in Batches, AppendStored(b)
    PROVE  ContractNext
<1> DEFINE n == Len(BatchRecords(b))
<1>1. PICK fs : Wrote(fs, Encoded(b))
  BY StepFacts, StoredWrote
<1>2. b \in Seq(Entries) /\ Len(b) \in Nat
  BY BatchFacts, SeqFacts
<1>3. /\ Writes(Encoded(b), b) /\ Len(Encoded(b)) = Len(b)
      /\ \A k \in 1..Len(b) : Encoded(b)[k].whole
  <2>1. \A k \in 1..Len(b) : Document(b[k]).whole
    BY DEF Document
  <2> HIDE DEF n
  <2>2. QED
    BY <1>2, <2>1, EncodedWrites
<1>4. PICK m \in 0..n :
         /\ AsRecords(Query') = AsRecords(Query) \o SubSeq(BatchRecords(b), 1, m)
         /\ m \in 0..Len(b) /\ \A l \in 1..Len(b) : l <= m
  <2>1. PICK m \in 0..n :
           /\ AsRecords(Query') = AsRecords(Query) \o SubSeq(BatchRecords(b), 1, m)
           /\ m \in 0..Len(Encoded(b)) /\ \A l \in 1..Len(Encoded(b)) : Encoded(b)[l].whole <=> l <= m
    BY <1>1, <1>3, WroteRecords
  <2>2. QED
    BY <1>3, <2>1
<1>5. m = Len(b)
  <2>1. CASE Len(b) = 0
    BY <1>4, <2>1
  <2>2. CASE Len(b) # 0
    <3>1. Len(b) \in 1..Len(b)
      BY <1>2, <2>2
    <3>2. QED
      BY <1>2, <1>4, <3>1
  <2>3. QED
    BY <2>1, <2>2
<1>6. n = Len(b) /\ SubSeq(BatchRecords(b), 1, n) = BatchRecords(b)
  <2> DEFINE r == BatchRecords(b)
             S == {r[k] : k \in 1..Len(b)}
  <2>1. r = [k \in 1..Len(b) |-> r[k]] /\ \A k \in 1..Len(b) : r[k] \in S
    BY DEF BatchRecords
  <2> HIDE DEF r, S
  <2>2. r \in Seq(S) /\ Len(r) = Len(b)
    BY <1>2, <2>1, FunctionSeq
  <2>3. SubSeq(r, 1, Len(r)) = r
    BY <2>2, SubSeqFull
  <2>4. QED
    BY <2>2, <2>3 DEF r
<1>7. handle = "open" /\ handle' # "closed"
  <2>1. handle = "open"
    BY DEF AppendStored, Writable
  <2>2. handle' \in {"open", "broken", "none"}
    BY <2>1 DEF AppendStored, rotateIfNeeded, rotate
  <2>3. QED
    BY <2>1, <2>2
<1>8. Failed(b) \/ Acked(ToSet(b))
  BY DEF AppendStored
<1>9. CASE Failed(b)
  <2>1. acked' = acked
    BY <1>9 DEF Failed
  <2> HIDE DEF n
  <2>2. QED
    BY <1>4, <1>7, <2>1, AppendsSome DEF n
<1>10. CASE Acked(ToSet(b))
  <2>1. Cardinality(acked') = Len(AsRecords(Query'))
    BY <1>10, StepFacts, AckedAll
  <2>2. AsRecords(Query') = AsRecords(Query) \o BatchRecords(b)
    BY <1>4, <1>5, <1>6
  <2>3. QED
    BY <1>7, <2>1, <2>2, AppendsOk
<1>11. QED
  BY <1>8, <1>9, <1>10

LEMMA ContractConfirm ==
    ASSUME Inv, NamesInv, Inv', NamesInv', [Next]_vars, Plain, NEW e, Confirm(e)
    PROVE  ContractNext
<1>1. dir' = dir /\ \A i \in Range(dir) : files'[i].lines = files[i].lines
  BY ConfirmLines
<1>2. Readable(dir, files) /\ Readable(dir', files')
  BY StepFacts, InvReadable, InvReadableNext
<1>3. Query' = Query
  <2> DEFINE gs == files'
  <2>1. Readable(dir, files) /\ Readable(dir, gs) /\ \A i \in Range(dir) : gs[i].lines = files[i].lines
    BY <1>1, <1>2
  <2>2. Query' = ReadAll(dir, gs) /\ Query = ReadAll(dir, files)
    BY <1>1, QueryReads
  <2> HIDE DEF gs
  <2>3. QED
    BY <2>1, <2>2, SameStream
<1>4. Cardinality(acked') = Len(AsRecords(Query'))
  BY StepFacts, AckedAll DEF Confirm
<1>5. handle # "closed" /\ handle' = handle
  BY DEF Confirm, LookupEntry
<1>6. QED
  BY <1>3, <1>4, <1>5, ContractSyncs

LEMMA ContractStep ==
    ASSUME Inv, NamesInv, Inv', NamesInv', [Next]_vars, Plain
    PROVE  ContractNext \/ UNCHANGED Contract!storeVars
<1>1. crashes = 0 /\ handle # "down" /\ MaxCrashes = 0
  BY StepFacts
<1>2. ASSUME UNCHANGED <<files, dir>> PROVE Query' = Query
  BY <1>2, QueryReads
<1>3. ASSUME NEW b \in Batches, AppendRefused(b) PROVE UNCHANGED Contract!storeVars
  BY <1>2, <1>3, ContractRests DEF AppendRefused, Failed, diskVars
<1>4. ASSUME NEW b \in Batches, AppendRolledBack(b) PROVE ContractNext
  BY <1>4, ContractRolledBack
<1>5. ASSUME NEW b \in Batches, AppendStored(b) PROVE ContractNext
  BY <1>5, ContractStored
<1>6. ASSUME NEW e \in Entries, Confirm(e) PROVE ContractNext
  BY <1>6, ContractConfirm
<1>7. ASSUME Close PROVE ContractNext \/ UNCHANGED Contract!storeVars
  <2>1. UNCHANGED <<files, dir, acked>> /\ handle # "closed"
    BY <1>7 DEF Close, diskVars, callerVars
  <2>2. QED
    BY <1>2, <2>1, ContractRests, ContractCloses
<1>8. ASSUME Crash \/ NewJSONLStore PROVE FALSE
  BY <1>1, <1>8 DEF Crash, NewJSONLStore
<1>9. ASSUME Tick \/ UNCHANGED vars PROVE UNCHANGED Contract!storeVars
  BY <1>2, <1>9, ContractRests DEF Tick, vars, diskVars, callerVars
<1>10. QED
  BY <1>3, <1>4, <1>5, <1>6, <1>7, <1>8, <1>9 DEF Next, appendBatch

\* ImplementsStore: a durable JSONL store without retention and crashes keeps the
\* contract of AuditStore, whichever file operation fails and as long as no archive is
\* overwritten and the clock is not behind (jsonl.go, durable.go).
THEOREM JSONLContract == Spec => ImplementsStore
<1>1. Init => Contract!StoreInit
  <2>1. SUFFICES ASSUME Init PROVE Contract!StoreInit
    OBVIOUS
  <2>2. Visited(dir, files) = {}
    <3>1. \A i \in Range(dir) : Len(files[i].lines) = 0
      BY <2>1, InRange, EmptyContent DEF Init, Empty
    <3>2. QED
      BY <3>1, InVisited
  <2>3. Len(Query) = 0 /\ Cardinality(acked) = 0
    <3>1. Cardinality(Visited(dir, files)) = 0 /\ Cardinality(acked) = 0
      BY <2>1, <2>2, FS_EmptySet DEF Init
    <3>2. Query = [n \in 1..0 |-> Query[n]]
      BY <3>1 DEF Query
    <3>3. QED
      BY <3>1, <3>2, FunctionSeq
  <2>4. AsRecords(Query) = <<>>
    BY <2>3 DEF AsRecords
  <2>5. QED
    BY <2>1, <2>3, <2>4 DEF Init, Contract!StoreInit, AsRecords
<1>2. Inv /\ NamesInv /\ (Inv /\ NamesInv)' /\ [Next]_vars => [Plain => ContractNext]_(Contract!storeVars)
  BY ContractStep
<1>3. Spec => [][Plain => ContractNext]_(Contract!storeVars)
  BY <1>2, NamesAlways, PTL DEF Spec
<1>4. QED
  BY <1>1, <1>3, PTL DEF Spec, ImplementsStore
=============================================================================
