-------------------------- MODULE StdioProxyProofs --------------------------
(***************************************************************************)
(* The stdio proxy for every set of ids, every number of operations and    *)
(* every length of a line: StdioInv is inductive, and the properties of    *)
(* the runs follow.                                                        *)
(*                                                                         *)
(* An operation is in one of four places: not accepted, in a map, in the   *)
(* hand of a goroutine, or finalized.  A step moves it between two of them *)
(* in one of four ways (TakeCalls, AcceptPending, AcceptHeld, RecordCall), *)
(* and each keeps the books.                                               *)
(***************************************************************************)
EXTENDS StdioProxy, FiniteSetTheorems, TLAPS

-----------------------------------------------------------------------------
(* Sequences, sides and lines.                                             *)

LEMMA AppendedSet ==
    ASSUME NEW S, NEW s \in Seq(S), NEW x \in S
    PROVE  ToSet(Append(s, x)) = ToSet(s) \cup {x}
<1>1. /\ DOMAIN s = 1..Len(s) /\ DOMAIN Append(s, x) = 1..Len(s) + 1 /\ Len(s) \in Nat
      /\ \A k \in 1..Len(s) : Append(s, x)[k] = s[k]
      /\ Append(s, x)[Len(s) + 1] = x
  OBVIOUS
<1>2. 1..Len(s) + 1 = 1..Len(s) \cup {Len(s) + 1}
  BY <1>1
<1>3. QED
  BY <1>1, <1>2, ZenonT(60) DEF ToSet

LEMMA AppendedInjective ==
    ASSUME NEW S, NEW s \in Seq(S), NEW x \in S, x \notin ToSet(s), IsInjective(s)
    PROVE  IsInjective(Append(s, x))
<1>1. /\ DOMAIN s = 1..Len(s) /\ DOMAIN Append(s, x) = 1..Len(s) + 1 /\ Len(s) \in Nat
      /\ \A k \in 1..Len(s) : Append(s, x)[k] = s[k]
      /\ Append(s, x)[Len(s) + 1] = x
  OBVIOUS
<1>2. \A k \in 1..Len(s) : s[k] # x
  BY <1>1 DEF ToSet
<1>3. QED
  BY <1>1, <1>2 DEF IsInjective

LEMMA Sides ==
    /\ ClientOps \cap ServerOps = {} /\ ClientOps \cup ServerOps = Ops
    /\ IsFiniteSet(ClientOps) /\ IsFiniteSet(ServerOps)
<1>1. NumClient \in Nat /\ NumServer \in Nat
  BY StdioAssumption
<1>2. IsFiniteSet(ClientOps) /\ IsFiniteSet(ServerOps)
  BY <1>1, FS_Interval DEF ClientOps, ServerOps
<1>3. QED
  BY <1>1, <1>2 DEF ClientOps, ServerOps, Ops

LEMMA StartsFinite ==
    ASSUME NEW l \in Seq(Messages)
    PROVE  IsFiniteSet(Starts(l)) /\ Cardinality(Starts(l)) \in Nat
<1>1. Len(l) \in Nat /\ Starts(l) \subseteq 1..Len(l)
  BY DEF Starts
<1>2. IsFiniteSet(1..Len(l))
  BY <1>1, FS_Interval
<1>3. QED
  BY <1>1, <1>2, FS_Subset, FS_CardinalityType

\* The rest of a line has the operations of the line but for the first message.
LEMMA StartsTail ==
    ASSUME NEW l \in Seq(Messages), l # <<>>
    PROVE  /\ Tail(l) \in Seq(Messages) /\ Head(l) \in Messages
           /\ \A k \in Starts(Tail(l)) : k + 1 \in Starts(l) /\ Tail(l)[k] = l[k + 1] /\ k \in Nat \ {0}
           /\ 1 \in Starts(l) <=> Head(l).kind # "response"
           /\ Cardinality(Starts(Tail(l)))
                 <= IF Head(l).kind # "response" THEN Cardinality(Starts(l)) - 1
                    ELSE Cardinality(Starts(l))
<1>1. /\ Len(l) \in Nat \ {0} /\ Tail(l) \in Seq(Messages) /\ Head(l) = l[1] /\ Head(l) \in Messages
      /\ Len(Tail(l)) = Len(l) - 1 /\ \A k \in 1..Len(l) - 1 : Tail(l)[k] = l[k + 1]
  OBVIOUS
<1>2. \A k \in Starts(Tail(l)) : k + 1 \in Starts(l) /\ Tail(l)[k] = l[k + 1] /\ k \in Nat \ {0}
  BY <1>1 DEF Starts
<1>3. 1 \in Starts(l) <=> Head(l).kind # "response"
  BY <1>1 DEF Starts
<1>4. IsFiniteSet(Starts(l) \ {1})
      /\ Cardinality(Starts(l) \ {1}) = IF 1 \in Starts(l) THEN Cardinality(Starts(l)) - 1
                                        ELSE Cardinality(Starts(l))
  BY StartsFinite, FS_RemoveElement
<1>5. Cardinality(Starts(Tail(l))) <= Cardinality(Starts(l) \ {1})
  <2> DEFINE f == [k \in Starts(Tail(l)) |-> k + 1]
  <2>1. f \in [Starts(Tail(l)) -> Starts(l) \ {1}]
    BY <1>2
  <2>2. IsInjective(f)
    BY <1>2 DEF IsInjective
  <2>3. f \in Injection(Starts(Tail(l)), Starts(l) \ {1})
    BY <2>1, <2>2 DEF Injection
  <2> HIDE DEF f
  <2>4. QED
    BY <1>4, <2>3, FS_Injection
<1>6. QED
  BY <1>1, <1>2, <1>3, <1>4, <1>5

LEMMA NoStarts == Starts(<<>>) = {} /\ Cardinality(Starts(<<>>)) = 0
<1>1. Starts(<<>>) = {}
  BY DEF Starts
<1>2. QED
  BY <1>1, FS_EmptySet

\* A line that starts an operation has one left.
LEMMA NextOpFresh ==
    ASSUME NEW side, IsFiniteSet(side), NEW l \in Seq(Messages), LineInv(l, side), 1 \in Starts(l)
    PROVE  NextOp(side) \in side /\ NextOp(side) \notin ToSet(order)
<1>1. side \ ToSet(order) # {}
  <2>1. Cardinality(Starts(l)) \in Nat /\ Cardinality(Starts(l)) # 0
    <3>1. Cardinality(Starts(l) \ {1}) = Cardinality(Starts(l)) - 1 /\ Cardinality(Starts(l) \ {1}) \in Nat
      BY StartsFinite, FS_RemoveElement, FS_CardinalityType
    <3>2. QED
      BY <3>1, StartsFinite
  <2>2. Cardinality({}) = 0
    BY FS_EmptySet
  <2>3. Cardinality(Starts(l)) <= Cardinality(side \ ToSet(order))
    BY DEF LineInv
  <2>4. ASSUME side \ ToSet(order) = {} PROVE FALSE
    <3>1. Cardinality(side \ ToSet(order)) = 0
      BY <2>2, <2>4, Zenon
    <3>2. QED
      BY <2>1, <2>3, <3>1
  <2>5. QED
    BY <2>4
<1>2. QED
  BY <1>1 DEF NextOp

\* LineInv of the line l once order and opId have changed.
LineNext(l, side) ==
    /\ Cardinality(Starts(l)) <= Cardinality(side \ ToSet(order'))
    /\ Reuse \/ \A j, k \in Starts(l) : l[j].id # NoId =>
          /\ \A o \in side : o \in ToSet(order') => opId'[o] # l[j].id
          /\ l[j].id = l[k].id => j = k

LEMMA LineAfter ==
    /\ LineInv(todo["client"], ClientOps)' <=> LineNext(todo'["client"], ClientOps)
    /\ LineInv(todo["server"], ServerOps)' <=> LineNext(todo'["server"], ServerOps)
<1>1. ClientOps' = ClientOps /\ ServerOps' = ServerOps
  BY DEF ClientOps, ServerOps
<1>2. QED
  BY <1>1 DEF LineInv, LineNext, Starts

\* The operations of the side are as they were.
SameSide(side) ==
    \A o \in side : (o \in ToSet(order') <=> o \in ToSet(order)) /\ opId'[o] = opId[o]

LEMMA LineKept ==
    ASSUME NEW l, NEW side, LineInv(l, side), SameSide(side)
    PROVE  LineNext(l, side)
<1>1. side \ ToSet(order') = side \ ToSet(order)
  BY DEF SameSide
<1>2. QED
  BY <1>1 DEF LineInv, LineNext, SameSide

LEMMA LineEmpty ==
    ASSUME NEW side, IsFiniteSet(side)
    PROVE  LineNext(<<>>, side)
<1>1. Cardinality(side \ ToSet(order')) \in Nat
  BY FS_Difference, FS_CardinalityType
<1>2. QED
  BY <1>1, NoStarts DEF LineNext

\* A response leaves the line with the operations it starts.
LEMMA LineResponse ==
    ASSUME NEW side, IsFiniteSet(side), NEW l \in Seq(Messages), l # <<>>, LineInv(l, side),
           Head(l).kind = "response", SameSide(side)
    PROVE  LineNext(Tail(l), side)
<1>0. Cardinality(side \ ToSet(order)) \in Nat
  BY FS_Difference, FS_CardinalityType
<1>1. Cardinality(side \ ToSet(order')) = Cardinality(side \ ToSet(order))
  <2>1. side \ ToSet(order') = side \ ToSet(order)
    BY DEF SameSide
  <2>2. QED
    BY <2>1
<1>2. Cardinality(Starts(Tail(l))) <= Cardinality(Starts(l))
  BY StartsTail
<1>3. Cardinality(Starts(Tail(l))) \in Nat /\ Cardinality(Starts(l)) \in Nat
  BY StartsFinite, StartsTail
<1>4. Cardinality(Starts(Tail(l))) <= Cardinality(side \ ToSet(order'))
  <2>1. Cardinality(Starts(l)) <= Cardinality(side \ ToSet(order))
    BY DEF LineInv
  <2>2. QED
    BY <1>0, <1>1, <1>2, <1>3, <2>1
<1>5. ASSUME ~Reuse, NEW j \in Starts(Tail(l)), NEW k \in Starts(Tail(l)), Tail(l)[j].id # NoId
      PROVE  /\ \A o \in side : o \in ToSet(order') => opId'[o] # Tail(l)[j].id
             /\ Tail(l)[j].id = Tail(l)[k].id => j = k
  <2>1. /\ j + 1 \in Starts(l) /\ Tail(l)[j] = l[j + 1] /\ j \in Nat
        /\ k + 1 \in Starts(l) /\ Tail(l)[k] = l[k + 1] /\ k \in Nat
    BY StartsTail
  <2>2. PICK t, u : t = Tail(l)[j] /\ u = Tail(l)[k]
    OBVIOUS
  <2>3. /\ \A o \in side : o \in ToSet(order) => opId[o] # t.id
        /\ t.id = u.id => j + 1 = k + 1
    BY <1>5, <2>1, <2>2 DEF LineInv
  <2>4. /\ \A o \in side : o \in ToSet(order') => opId'[o] # t.id
        /\ t.id = u.id => j = k
    BY <2>1, <2>3 DEF SameSide
  <2>5. QED
    BY <2>2, <2>4
<1>6. QED
  BY <1>4, <1>5 DEF LineNext

\* A message that starts an operation takes one of its side.
LEMMA LineStarts ==
    ASSUME NEW side, IsFiniteSet(side), NEW l \in Seq(Messages), l # <<>>, LineInv(l, side),
           NEW m, m = Head(l), m.kind # "response", NEW o \in side, o \notin ToSet(order),
           ToSet(order') = ToSet(order) \cup {o}, opId'[o] = m.id,
           \A p \in side \ {o} : opId'[p] = opId[p]
    PROVE  LineNext(Tail(l), side)
<1>0. IsFiniteSet(side \ ToSet(order))
  BY FS_Difference
<1>1. Cardinality(side \ ToSet(order')) = Cardinality(side \ ToSet(order)) - 1
  <2>1. PICK room : room = side \ ToSet(order)
    OBVIOUS
  <2>2. side \ ToSet(order') = room \ {o} /\ o \in room /\ IsFiniteSet(room)
    BY <1>0, <2>1
  <2>3. Cardinality(room \ {o}) = Cardinality(room) - 1
    BY <2>2, FS_RemoveElement
  <2>4. QED
    BY <2>1, <2>2, <2>3
<1>2. Cardinality(side \ ToSet(order)) \in Nat
  BY <1>0, FS_CardinalityType
<1>3. Cardinality(Starts(Tail(l))) \in Nat /\ Cardinality(Starts(l)) \in Nat
  BY StartsFinite, StartsTail
<1>4. Cardinality(Starts(Tail(l))) <= Cardinality(Starts(l)) - 1
  BY StartsTail
<1>5. Cardinality(Starts(Tail(l))) <= Cardinality(side \ ToSet(order'))
  BY <1>1, <1>2, <1>3, <1>4 DEF LineInv
<1>6. ASSUME ~Reuse, NEW j \in Starts(Tail(l)), NEW k \in Starts(Tail(l)), Tail(l)[j].id # NoId
      PROVE  /\ \A p \in side : p \in ToSet(order') => opId'[p] # Tail(l)[j].id
             /\ Tail(l)[j].id = Tail(l)[k].id => j = k
  <2>1. /\ j + 1 \in Starts(l) /\ Tail(l)[j] = l[j + 1] /\ j \in Nat \ {0}
        /\ k + 1 \in Starts(l) /\ Tail(l)[k] = l[k + 1] /\ k \in Nat
    BY StartsTail
  <2>2. 1 \in Starts(l) /\ m = l[1]
    BY StartsTail
  <2>3. PICK t, u : t = Tail(l)[j] /\ u = Tail(l)[k]
    OBVIOUS
  <2>L. \A x, y \in Starts(l) : l[x].id # NoId =>
          /\ \A p \in side : p \in ToSet(order) => opId[p] # l[x].id
          /\ l[x].id = l[y].id => x = y
    BY <1>6 DEF LineInv
  <2>T. t = l[j + 1] /\ u = l[k + 1] /\ t.id # NoId
    BY <1>6, <2>1, <2>3
  <2>4. /\ \A p \in side : p \in ToSet(order) => opId[p] # t.id
        /\ t.id = u.id => j + 1 = k + 1
        /\ t.id = m.id => j + 1 = 1
    BY <2>1, <2>2, <2>L, <2>T
  <2>5. opId'[o] # t.id
    <3>1. j + 1 # 1
      BY <2>1
    <3>2. t.id # m.id
      BY <2>4, <3>1, Zenon
    <3>3. QED
      BY <3>2, Zenon
  <2>6. /\ \A p \in side : p \in ToSet(order') => opId'[p] # t.id
        /\ t.id = u.id => j = k
    BY <2>1, <2>4, <2>5
  <2>7. QED
    BY <2>3, <2>6
<1>7. QED
  BY <1>5, <1>6 DEF LineNext

\* A line that is read fits.
LEMMA LineRead ==
    ASSUME NEW ms, ms \subseteq Messages, NEW side, NEW l \in LinesOver(ms, side),
           UNCHANGED <<order, opId>>
    PROVE  l \in Seq(Messages) /\ LineNext(l, side)
<1>1. PICK n \in 1..MaxLine : l \in [1..n -> ms]
  BY DEF LinesOver
<1>2. l \in Seq(Messages)
  BY <1>1, StdioAssumption
<1>3. Cardinality(Starts(l)) <= Cardinality(side \ ToSet(order'))
  BY DEF LinesOver
<1>4. ASSUME ~Reuse, NEW j \in Starts(l), NEW k \in Starts(l), l[j].id # NoId
      PROVE  /\ \A o \in side : o \in ToSet(order') => opId'[o] # l[j].id
             /\ l[j].id = l[k].id => j = k
  <2>1. \A x, y \in {z \in Starts(l) : l[z].id # NoId} :
           /\ l[x].id \notin {opId[o] : o \in side \cap ToSet(order)}
           /\ l[x].id = l[y].id => x = y
    BY <1>4 DEF LinesOver
  <2>2. QED
    BY <1>4, <2>1
<1>5. QED
  BY <1>2, <1>3, <1>4 DEF LineNext

-----------------------------------------------------------------------------
(* The books: where the accepted operations are.                           *)

Books ==
    /\ OneTerminalEvent
    /\ \A o \in Ops : outcome[o] # <<>> => o \in ToSet(order)
    /\ MapInv(clientPending, ClientOps) /\ MapInv(serverPending, ServerOps)
    /\ \A g \in Goroutines : HandInv(g)
    /\ Reuse \/ NothingForgotten

\* The map q is the map p without some of its calls.
Shrinks(p, q) == DOMAIN q \subseteq DOMAIN p /\ \A i \in DOMAIN q : q[i] = p[i]

\* Where Run is does not matter to what it holds.
MainRests == pc'["main"] = pc["main"] \/ hand'["main"] = {}

\* What the maps and hands say about an operation.
Places ==
    /\ \A o \in Pending : o \in ToSet(order) /\ outcome[o] = <<>>
    /\ \A g \in Goroutines : \A o \in Held(g) : o \in ToSet(order) /\ outcome[o] = <<>> /\ o \notin Pending
    /\ \A f, g \in Goroutines : \A o \in Held(g) : o \in Held(f) => f = g

LEMMA BooksPlaces ==
    ASSUME StdioTypeOK, Books
    PROVE  /\ Places
           /\ Pending \subseteq Ops /\ ToSet(order) \subseteq Ops
           /\ \A g \in Goroutines : Held(g) \subseteq Ops
<1>1. Pending \subseteq Ops /\ \A o \in Pending : o \in ToSet(order)
  BY Sides DEF Books, MapInv, Pending, Range
<1>2. \A g \in Goroutines : Held(g) \subseteq Ops
  BY DEF StdioTypeOK, Held
<1>3. ToSet(order) \subseteq Ops
  BY DEF StdioTypeOK, ToSet
<1>4. Places
  BY <1>1, <1>2 DEF Books, OneTerminalEvent, HandInv, Places
<1>5. QED
  BY <1>1, <1>2, <1>3, <1>4

\* What a goroutine holds after it took the operations T.
LEMMA HeldAfter ==
    ASSUME NEW g \in Goroutines, hand[g] = {}, NEW T, NEW c, hand'[g] = T \X {c},
           \A f \in Goroutines \ {g} : hand'[f] = hand[f]
    PROVE  Held(g)' = T /\ Held(g) = {} /\ \A f \in Goroutines \ {g} : Held(f)' = Held(f)
<1>1. \A x \in T : <<x, c>> \in T \X {c} /\ <<x, c>>[1] = x
  OBVIOUS
<1>2. \A call \in T \X {c} : call[1] \in T
  OBVIOUS
<1>3. Held(g)' = {call[1] : call \in T \X {c}}
  BY DEF Held
<1>4. \A x : x \in {call[1] : call \in T \X {c}} <=> x \in T
  BY <1>1, <1>2, ZenonT(60)
<1>5. Held(g)' = T
  BY <1>3, <1>4
<1>6. QED
  BY <1>5 DEF Held

\* A goroutine takes calls out of the maps.
LEMMA TakeCalls ==
    ASSUME StdioTypeOK, Books, NEW g \in Goroutines, hand[g] = {}, NEW T, NEW c,
           Take(g, T, c), T \subseteq Pending, T \cap Pending' = {}, Pending \subseteq Pending' \cup T,
           Shrinks(clientPending, clientPending'), Shrinks(serverPending, serverPending'),
           UNCHANGED opVars,
           g = "main" => pc'["main"] = "finalize", g # "main" => pc'["main"] = pc["main"]
    PROVE  Books'
<1>1. /\ Places /\ Pending \subseteq Ops
      /\ \A f \in Goroutines : Held(f) \subseteq Ops
  BY BooksPlaces
<1>2. hand'[g] = T \X {c} /\ \A f \in Goroutines \ {g} : hand'[f] = hand[f]
  BY DEF Take, StdioTypeOK
<1>3. Held(g)' = T /\ Held(g) = {} /\ \A f \in Goroutines \ {g} : Held(f)' = Held(f)
  BY <1>2, HeldAfter
<1>4. Pending' \subseteq Pending
  BY DEF Pending, Range, Shrinks
<1>5. order' = order /\ opId' = opId /\ outcome' = outcome
  BY DEF opVars
<1>6. OneTerminalEvent'
  <2>1. \A o \in Ops : Len(outcome[o]) <= 1
    BY DEF Books, OneTerminalEvent
  <2>2. \A f \in Goroutines : \A o \in Held(f)' : o \in Pending \/ (f # g /\ o \in Held(f))
    BY <1>3
  <2>3. \A f \in Goroutines : \A o \in Held(f)' : outcome[o] = <<>> /\ o \notin Pending'
    BY <1>1, <1>3, <1>4, <2>2 DEF Places
  <2>4. \A f, h \in Goroutines : \A o \in Held(f)' : o \in Held(h)' => h = f
    BY <1>1, <1>3 DEF Places
  <2>5. QED
    BY <1>1, <1>4, <1>5, <2>1, <2>3, <2>4 DEF OneTerminalEvent, Places
<1>7. MapInv(clientPending, ClientOps)' /\ MapInv(serverPending, ServerOps)'
  BY <1>5 DEF Books, MapInv, Shrinks, ClientOps, ServerOps
<1>8. ASSUME NEW f \in Goroutines PROVE HandInv(f)'
  <2>1. CASE f = g
    BY <1>1, <1>2, <1>3, <1>5, <2>1 DEF HandInv, Places
  <2>2. CASE f # g
    BY <1>2, <1>3, <1>5, <2>2 DEF Books, HandInv
  <2>3. QED
    BY <2>1, <2>2
<1>9. (Reuse \/ NothingForgotten)'
  BY <1>3, <1>5 DEF Books, NothingForgotten
<1>10. QED
  BY <1>5, <1>6, <1>7, <1>8, <1>9 DEF Books, Ops, ClientOps, ServerOps

\* Nothing moves.
LEMMA BooksSame ==
    ASSUME StdioTypeOK, Books, UNCHANGED <<opVars, hand>>, MainRests, Pending' = Pending,
           Shrinks(clientPending, clientPending'), Shrinks(serverPending, serverPending')
    PROVE  Books'
<1>1. hand' = hand /\ order' = order /\ opId' = opId /\ outcome' = outcome
  BY DEF opVars
<1>2. Pending' = Pending /\ \A g \in Goroutines : Held(g)' = Held(g)
  BY <1>1 DEF Held
<1>3. OneTerminalEvent' /\ (Reuse \/ NothingForgotten)'
  BY <1>1, <1>2 DEF Books, OneTerminalEvent, NothingForgotten, Ops, ClientOps, ServerOps
<1>4. MapInv(clientPending, ClientOps)' /\ MapInv(serverPending, ServerOps)'
  BY <1>1 DEF Books, MapInv, Shrinks, ClientOps, ServerOps
<1>5. \A g \in Goroutines : HandInv(g)'
  BY <1>1, <1>2 DEF Books, HandInv, MainRests
<1>6. QED
  BY <1>1, <1>3, <1>4, <1>5 DEF Books, Ops, ClientOps, ServerOps

LEMMA BooksRest ==
    ASSUME StdioTypeOK, Books, UNCHANGED <<pendingVars, opVars, hand>>, MainRests
    PROVE  Books'
<1>1. /\ Pending' = Pending
      /\ Shrinks(clientPending, clientPending') /\ Shrinks(serverPending, serverPending')
  BY DEF pendingVars, Pending, Shrinks
<1>2. QED
  BY <1>1, BooksSame

\* A new operation is accepted and waits in the map of its side.
LEMMA AcceptPending ==
    ASSUME StdioTypeOK, Books, NEW o \in Ops, o \notin ToSet(order), NEW i \in Ids, Accept(o, i),
           \/ o \in ClientOps /\ rememberClient(i, o) /\ (Reuse \/ i \notin DOMAIN clientPending)
           \/ o \in ServerOps /\ rememberServer(i, o) /\ (Reuse \/ i \notin DOMAIN serverPending),
           UNCHANGED <<outcome, hand>>, pc'["main"] = pc["main"]
    PROVE  Books'
<1>1. /\ Places /\ ToSet(order) \subseteq Ops
      /\ \A f \in Goroutines : Held(f) \subseteq Ops
  BY BooksPlaces
<1>2. ToSet(order)' = ToSet(order) \cup {o}
  BY AppendedSet DEF StdioTypeOK, Accept
<1>3. opId'[o] = i /\ \A p \in Ops \ {o} : opId'[p] = opId[p]
  BY DEF StdioTypeOK, Accept
<1>4. \A g \in Goroutines : Held(g)' = Held(g)
  BY DEF Held
<1>5. Pending' \subseteq Pending \cup {o} /\ o \in Pending' /\ (Reuse \/ Pending \subseteq Pending')
  BY DEF Pending, Range, rememberClient, rememberServer
<1>6. MapInv(clientPending, ClientOps)' /\ MapInv(serverPending, ServerOps)'
  BY <1>2, <1>3, Sides DEF Books, MapInv, rememberClient, rememberServer, ClientOps, ServerOps
<1>7. OneTerminalEvent'
  <2>1. outcome[o] = <<>> /\ \A g \in Goroutines : o \notin Held(g)
    BY <1>1 DEF Books, Places
  <2>2. QED
    BY <1>1, <1>4, <1>5, <2>1 DEF Books, OneTerminalEvent, Places, Ops, ClientOps, ServerOps
<1>8. \A g \in Goroutines : HandInv(g)'
  BY <1>2, <1>4 DEF Books, HandInv
<1>9. (Reuse \/ NothingForgotten)'
  BY <1>2, <1>4, <1>5 DEF Books, NothingForgotten
<1>10. QED
  BY <1>2, <1>6, <1>7, <1>8, <1>9 DEF Books, Ops, ClientOps, ServerOps

\* A new operation is accepted and finalized by the pipe that read it.
LEMMA AcceptHeld ==
    ASSUME StdioTypeOK, Books, NEW o \in Ops, o \notin ToSet(order), NEW i, Accept(o, i),
           NEW g \in Pipes, hand[g] = {}, NEW c, Take(g, {o}, c),
           UNCHANGED <<pendingVars, outcome>>, pc'["main"] = pc["main"]
    PROVE  Books'
<1>1. /\ Places /\ ToSet(order) \subseteq Ops /\ Pending \subseteq Ops
      /\ \A f \in Goroutines : Held(f) \subseteq Ops
  BY BooksPlaces
<1>2. ToSet(order)' = ToSet(order) \cup {o}
  BY AppendedSet DEF StdioTypeOK, Accept
<1>3. \A p \in Ops \ {o} : opId'[p] = opId[p]
  BY DEF StdioTypeOK, Accept
<1>4. g \in Goroutines /\ g # "main"
  BY DEF Pipes, Goroutines
<1>5. hand'[g] = {o} \X {c} /\ \A f \in Goroutines \ {g} : hand'[f] = hand[f]
  BY <1>4 DEF Take, StdioTypeOK
<1>6. Held(g)' = {o} /\ Held(g) = {} /\ \A f \in Goroutines \ {g} : Held(f)' = Held(f)
  BY <1>4, <1>5, HeldAfter
<1>7. Pending' = Pending /\ clientPending' = clientPending /\ serverPending' = serverPending
  BY DEF Pending, pendingVars
<1>8. MapInv(clientPending, ClientOps)' /\ MapInv(serverPending, ServerOps)'
  BY <1>2, <1>3, <1>7, Sides DEF Books, MapInv, ClientOps, ServerOps
<1>9. OneTerminalEvent'
  <2>1. outcome[o] = <<>> /\ o \notin Pending /\ \A f \in Goroutines : o \notin Held(f)
    BY <1>1 DEF Books, Places
  <2>2. \A f \in Goroutines : \A p \in Held(f)' : outcome[p] = <<>> /\ p \notin Pending
    BY <1>1, <1>6, <2>1 DEF Places
  <2>3. \A f, h \in Goroutines : \A p \in Held(f)' : p \in Held(h)' => h = f
    BY <1>1, <1>6, <2>1 DEF Places
  <2>4. QED
    BY <1>7, <2>2, <2>3 DEF Books, OneTerminalEvent, Ops, ClientOps, ServerOps
<1>10. ASSUME NEW f \in Goroutines PROVE HandInv(f)'
  <2>1. CASE f = g
    BY <1>2, <1>4, <1>5, <1>6, <2>1 DEF HandInv
  <2>2. CASE f # g
    BY <1>2, <1>5, <1>6, <2>2 DEF Books, HandInv
  <2>3. QED
    BY <2>1, <2>2
<1>11. (Reuse \/ NothingForgotten)'
  BY <1>2, <1>4, <1>6, <1>7 DEF Books, NothingForgotten
<1>12. QED
  BY <1>2, <1>8, <1>9, <1>10, <1>11 DEF Books, Ops, ClientOps, ServerOps

\* A call that a goroutine holds meets Finalize.
LEMMA RecordCall ==
    ASSUME StdioTypeOK, Books, NEW g \in Goroutines, Record(g)
    PROVE  Books' /\ outcome' \in [Ops -> Seq(Outcomes)] /\ hand' \in [Goroutines -> SUBSET (Ops \X Outcomes)]
<1>1. /\ Places /\ \A f \in Goroutines : Held(f) \subseteq Ops
  BY BooksPlaces
<1>2. PICK call \in hand[g] :
         /\ outcome' = [outcome EXCEPT ![call[1]] = Append(@, call[2])]
         /\ hand' = [hand EXCEPT ![g] = @ \ {call}]
  BY DEF Record
<1>3. PICK o, c : o = call[1] /\ c = call[2]
  OBVIOUS
<1>4. o \in Ops /\ c \in Outcomes /\ o \in Held(g) /\ outcome[o] = <<>> /\ o \notin Pending
  <2>1. call \in Ops \X Outcomes
    BY <1>2 DEF StdioTypeOK
  <2>2. o \in Held(g)
    BY <1>3 DEF Held
  <2>3. QED
    BY <1>1, <1>3, <2>1, <2>2 DEF Places
<1>5. /\ outcome'[o] = <<c>> /\ \A p \in Ops \ {o} : outcome'[p] = outcome[p]
      /\ outcome' \in [Ops -> Seq(Outcomes)]
  <2>1. outcome \in [Ops -> Seq(Outcomes)] /\ outcome' = [outcome EXCEPT ![o] = Append(@, c)]
    BY <1>2, <1>3 DEF StdioTypeOK
  <2>2. Append(outcome[o], c) = <<c>> /\ <<c>> \in Seq(Outcomes)
    BY <1>4
  <2>3. QED
    BY <1>4, <2>1, <2>2
<1>6. /\ hand'[g] = hand[g] \ {call} /\ \A f \in Goroutines \ {g} : hand'[f] = hand[f]
      /\ hand' \in [Goroutines -> SUBSET (Ops \X Outcomes)]
  BY <1>2 DEF StdioTypeOK
<1>7. Held(g)' = Held(g) \ {o} /\ \A f \in Goroutines \ {g} : Held(f)' = Held(f)
  <2>1. \A d \in hand[g] : d[1] = o => d = call
    BY <1>3 DEF Books, HandInv
  <2>2. Held(g)' = Held(g) \ {o}
    BY <1>3, <1>6, <2>1 DEF Held
  <2>3. QED
    BY <1>6, <2>2 DEF Held
<1>8. /\ Pending' = Pending /\ clientPending' = clientPending /\ serverPending' = serverPending
      /\ order' = order /\ opId' = opId /\ pc' = pc
  BY DEF Record, Pending, pendingVars
<1>9. OneTerminalEvent'
  <2>1. Len(outcome'[o]) = 1
    BY <1>5
  <2>2. ASSUME NEW p \in Ops PROVE Len(outcome'[p]) <= 1
    <3>1. Len(outcome[p]) <= 1
      BY DEF Books, OneTerminalEvent
    <3>2. CASE p = o
      <4>1. outcome'[p] = <<c>> /\ Len(<<c>>) = 1
        BY <1>5, <3>2
      <4>2. QED
        BY <4>1
    <3>3. CASE p # o
      <4>1. outcome'[p] = outcome[p]
        BY <1>5, <3>3
      <4>2. QED
        BY <3>1, <4>1
    <3>4. QED
      BY <3>2, <3>3
  <2>3. \A f \in Goroutines : \A p \in Held(f)' : p # o /\ p \in Held(f)
    BY <1>1, <1>4, <1>7 DEF Places
  <2>4. \A f \in Goroutines : \A p \in Held(f)' : outcome'[p] = <<>> /\ p \notin Pending'
    BY <1>1, <1>5, <1>8, <2>3 DEF Places
  <2>5. \A f, h \in Goroutines : \A p \in Held(f)' : p \in Held(h)' => h = f
    BY <1>1, <2>3 DEF Places
  <2>6. \A p \in Ops : p \in Pending' => outcome'[p] = <<>>
    BY <1>1, <1>4, <1>5, <1>8 DEF Places
  <2>7. QED
    BY <2>2, <2>4, <2>5, <2>6 DEF OneTerminalEvent, Ops, ClientOps, ServerOps
<1>10. MapInv(clientPending, ClientOps)' /\ MapInv(serverPending, ServerOps)'
  BY <1>8 DEF Books, MapInv, ClientOps, ServerOps
<1>11. \A f \in Goroutines : HandInv(f)'
  BY <1>6, <1>7, <1>8 DEF Books, HandInv
<1>12. (Reuse \/ NothingForgotten)'
  <2>1. outcome'[o] # <<>>
    BY <1>5
  <2>2. \A p \in ToSet(order) : p \in Ops
    BY BooksPlaces
  <2>3. QED
    BY <1>5, <1>7, <1>8, <2>1, <2>2 DEF Books, NothingForgotten
<1>13. \A p \in Ops : outcome'[p] # <<>> => p \in ToSet(order)'
  BY <1>1, <1>4, <1>5, <1>8 DEF Books, Places
<1>14. QED
  BY <1>5, <1>6, <1>9, <1>10, <1>11, <1>12, <1>13 DEF Books, Ops, ClientOps, ServerOps

-----------------------------------------------------------------------------
(* Steps.                                                                  *)

Lines == LineInv(todo["client"], ClientOps) /\ LineInv(todo["server"], ServerOps)
Full == StdioTypeOK /\ Books /\ Lines /\ WireInv

LEMMA FullParts == Full <=> StdioInv /\ (Reuse \/ NothingForgotten)
BY DEF Full, StdioInv, Books, Lines

LEMMA LinesRest ==
    ASSUME Lines, UNCHANGED <<order, opId, todo>>
    PROVE  Lines'
<1>1. SameSide(ClientOps) /\ SameSide(ServerOps)
  BY DEF SameSide
<1>2. QED
  BY <1>1, LineKept, LineAfter DEF Lines

\* What the maps hold once calls were taken from them.
LEMMA ShrunkMaps ==
    ASSUME StdioTypeOK, Shrinks(clientPending, clientPending'), Shrinks(serverPending, serverPending')
    PROVE  DOMAIN clientPending' \subseteq Ids /\ DOMAIN serverPending' \subseteq Ids
BY DEF StdioTypeOK, Shrinks

LEMMA TakenHand ==
    ASSUME StdioTypeOK, NEW g \in Goroutines, NEW T, T \subseteq Ops, NEW c \in Outcomes, Take(g, T, c)
    PROVE  hand' \in [Goroutines -> SUBSET (Ops \X Outcomes)]
BY DEF StdioTypeOK, Take

LEMMA TakenAll ==
    ASSUME NEW g, NEW c, takeAll(g, c)
    PROVE  /\ Shrinks(clientPending, clientPending') /\ Shrinks(serverPending, serverPending')
           /\ Pending' = {}
BY DEF takeAll, Shrinks, NoCalls, Pending, Range

LEMMA TakenClients ==
    ASSUME StdioTypeOK, Books, NEW g, NEW c, takeClients(g, c)
    PROVE  /\ Shrinks(clientPending, clientPending') /\ Shrinks(serverPending, serverPending')
           /\ Pending' = Range(serverPending) /\ Range(clientPending) \cap Range(serverPending) = {}
<1>1. Range(clientPending) \subseteq ClientOps /\ Range(serverPending) \subseteq ServerOps
  BY DEF Books, MapInv, Range
<1>2. QED
  BY <1>1, Sides DEF takeClients, Shrinks, NoCalls, Pending, Range

LEMMA TakenExpired ==
    ASSUME NEW g, NEW old, takeExpired(g, old)
    PROVE  /\ Shrinks(clientPending, clientPending') /\ Shrinks(serverPending, serverPending')
           /\ Pending' = Pending \ old
BY DEF takeExpired, Shrinks, Without, Pending, Range

\* A goroutine takes all calls, those of the client or those that expired.
LEMMA TakeStep ==
    ASSUME Full, NEW g \in Goroutines, hand[g] = {}, NEW c \in Outcomes,
           takeAll(g, c) \/ takeClients(g, c) \/ (c = "timeout" /\ \E old : takeExpired(g, old)),
           UNCHANGED <<opVars, todo>>,
           g = "main" => pc'["main"] = "finalize", g # "main" => pc'["main"] = pc["main"]
    PROVE  /\ Books' /\ Lines' /\ hand' \in [Goroutines -> SUBSET (Ops \X Outcomes)]
           /\ DOMAIN clientPending' \subseteq Ids /\ DOMAIN serverPending' \subseteq Ids
<1>1. PICK T : /\ Take(g, T, c) /\ T \subseteq Pending /\ T \cap Pending' = {}
               /\ Pending \subseteq Pending' \cup T
               /\ Shrinks(clientPending, clientPending') /\ Shrinks(serverPending, serverPending')
  <2>1. CASE takeAll(g, c)
    BY <2>1, TakenAll DEF takeAll
  <2>2. CASE takeClients(g, c)
    BY <2>2, TakenClients DEF takeClients, Pending, Full
  <2>3. CASE c = "timeout" /\ \E old : takeExpired(g, old)
    BY <2>3, TakenExpired DEF takeExpired
  <2>4. QED
    BY <2>1, <2>2, <2>3
<1>2. T \subseteq Ops
  BY <1>1, BooksPlaces DEF Full
<1>3. Books'
  BY <1>1, TakeCalls DEF Full
<1>4. Lines'
  BY LinesRest DEF Full, opVars
<1>5. QED
  BY <1>1, <1>2, <1>3, <1>4, TakenHand, ShrunkMaps DEF Full

\* A response takes the call of its id, if there is one.
LEMMA ResponseStep ==
    ASSUME Full, NEW g \in Pipes, hand[g] = {}, NEW i,
           (g = "server" /\ takeClient(i)) \/ (g = "client" /\ takeServer(i)),
           UNCHANGED opVars, pc'["main"] = pc["main"]
    PROVE  /\ Books' /\ hand' \in [Goroutines -> SUBSET (Ops \X Outcomes)]
           /\ DOMAIN clientPending' \subseteq Ids /\ DOMAIN serverPending' \subseteq Ids
<1>1. StdioTypeOK /\ Books /\ g \in Goroutines /\ g # "main"
  BY DEF Full, Pipes, Goroutines
<1>2. Shrinks(clientPending, clientPending') /\ Shrinks(serverPending, serverPending')
  BY DEF takeClient, takeServer, Without, Shrinks
<1>3. /\ Range(clientPending) \subseteq ClientOps /\ Range(serverPending) \subseteq ServerOps
      /\ \A j, k \in DOMAIN clientPending : clientPending[j] = clientPending[k] => j = k
      /\ \A j, k \in DOMAIN serverPending : serverPending[j] = serverPending[k] => j = k
  BY <1>1 DEF Books, MapInv, Range
<1>4. CASE /\ g = "server" => i \notin DOMAIN clientPending
           /\ g = "client" => i \notin DOMAIN serverPending
  <2>1. hand' = hand
    BY <1>4 DEF takeClient, takeServer
  <2>2. Pending' = Pending
    BY <1>4 DEF takeClient, takeServer, Without, Pending, Range
  <2>3. Books'
    BY <1>1, <1>2, <2>1, <2>2, BooksSame DEF MainRests
  <2>4. QED
    BY <1>1, <1>2, <2>1, <2>3, ShrunkMaps DEF StdioTypeOK
<1>5. CASE g = "server" /\ i \in DOMAIN clientPending
  <2>1. PICK o : o = clientPending[i]
    OBVIOUS
  <2>2. PICK c \in {"success", "upstream_error"} : Take(g, {o}, c)
    BY <1>5, <2>1 DEF takeClient, takeServer
  <2>3. /\ {o} \subseteq Pending /\ Pending \subseteq Pending' \cup {o} /\ {o} \cap Pending' = {}
    <3>1. o \in ClientOps /\ o \notin Range(serverPending) /\ o \in Pending
      BY <1>3, <1>5, <2>1, Sides DEF Pending, Range
    <3>2. Range(clientPending)' = Range(clientPending) \ {o} /\ serverPending' = serverPending
      BY <1>3, <1>5, <2>1 DEF takeClient, takeServer, Without, Range
    <3>3. QED
      BY <3>1, <3>2 DEF Pending
  <2>4. {o} \subseteq Ops /\ c \in Outcomes
    BY <1>1, <2>3, BooksPlaces DEF Outcomes
  <2>5. Books'
    BY <1>1, <1>2, <1>5, <2>2, <2>3, TakeCalls
  <2>6. QED
    BY <1>1, <1>2, <2>2, <2>4, <2>5, TakenHand, ShrunkMaps
<1>6. CASE g = "client" /\ i \in DOMAIN serverPending
  <2>1. PICK o : o = serverPending[i]
    OBVIOUS
  <2>2. PICK c \in {"success", "upstream_error"} : Take(g, {o}, c)
    BY <1>6, <2>1 DEF takeClient, takeServer
  <2>3. /\ {o} \subseteq Pending /\ Pending \subseteq Pending' \cup {o} /\ {o} \cap Pending' = {}
    <3>1. o \in ServerOps /\ o \notin Range(clientPending) /\ o \in Pending
      BY <1>3, <1>6, <2>1, Sides DEF Pending, Range
    <3>2. Range(serverPending)' = Range(serverPending) \ {o} /\ clientPending' = clientPending
      BY <1>3, <1>6, <2>1 DEF takeClient, takeServer, Without, Range
    <3>3. QED
      BY <3>1, <3>2 DEF Pending
  <2>4. {o} \subseteq Ops /\ c \in Outcomes
    BY <1>1, <2>3, BooksPlaces DEF Outcomes
  <2>5. Books'
    BY <1>1, <1>2, <1>6, <2>2, <2>3, TakeCalls
  <2>6. QED
    BY <1>1, <1>2, <2>2, <2>4, <2>5, TakenHand, ShrunkMaps
<1>7. QED
  BY <1>4, <1>5, <1>6 DEF Pipes

\* What is true once the first message m of the line l became the operation o.
Accepted(side, l, m, o) ==
    /\ o \in side /\ o \notin ToSet(order) /\ m \in Messages
    /\ order' \in Seq(Ops) /\ IsInjective(order') /\ ToSet(order') = ToSet(order) \cup {o}
    /\ opId' \in [Ops -> Ids \cup {NoId}] /\ opId'[o] = m.id
    /\ \A p \in Ops \ {o} : opId'[p] = opId[p]
    /\ LineNext(Tail(l), side)
    /\ \A other : other \subseteq Ops /\ side \cap other = {} => SameSide(other)
    /\ Reuse \/ m.id = NoId \/ \A p \in side : p \in ToSet(order) => opId[p] # m.id

LEMMA AcceptFacts ==
    ASSUME StdioTypeOK, NEW side, IsFiniteSet(side), side \subseteq Ops,
           NEW l \in Seq(Messages), l # <<>>, LineInv(l, side),
           NEW m, m = Head(l), m.kind # "response", NEW o, o = NextOp(side), Accept(o, m.id)
    PROVE  Accepted(side, l, m, o)
<1>1. 1 \in Starts(l) /\ m \in Messages /\ m = l[1]
  BY StartsTail
<1>2. o \in side /\ o \notin ToSet(order) /\ o \in Ops
  BY <1>1, NextOpFresh
<1>3. m.id \in Ids \cup {NoId}
  BY <1>1 DEF Messages
<1>4. /\ order \in Seq(Ops) /\ IsInjective(order) /\ opId \in [Ops -> Ids \cup {NoId}]
      /\ order' = Append(order, o) /\ opId' = [opId EXCEPT ![o] = m.id]
  BY DEF StdioTypeOK, Accept
<1>5. order' \in Seq(Ops) /\ IsInjective(order') /\ ToSet(order') = ToSet(order) \cup {o}
  BY <1>2, <1>4, AppendedSet, AppendedInjective
<1>6. opId' \in [Ops -> Ids \cup {NoId}] /\ opId'[o] = m.id /\ \A p \in Ops \ {o} : opId'[p] = opId[p]
  BY <1>2, <1>3, <1>4
<1>7. LineNext(Tail(l), side)
  BY <1>2, <1>5, <1>6, LineStarts
<1>8. \A other : other \subseteq Ops /\ side \cap other = {} => SameSide(other)
  BY <1>2, <1>5, <1>6 DEF SameSide
<1>9. Reuse \/ m.id = NoId \/ \A p \in side : p \in ToSet(order) => opId[p] # m.id
  BY <1>1 DEF LineInv
<1>10. QED
  BY <1>1, <1>2, <1>5, <1>6, <1>7, <1>8, <1>9 DEF Accepted

\* Messages that start an operation: it waits in the map of its side, or the
\* pipe finalizes it at once.
LEMMA StartStep ==
    ASSUME Full, NEW g \in Pipes, hand[g] = {},
           NEW side, side = IF g = "client" THEN ClientOps ELSE ServerOps,
           NEW l, l = todo[g], l # <<>>, NEW m, m = Head(l), m.kind # "response",
           NEW o, o = NextOp(side), Accept(o, m.id),
           \/ /\ m.kind = "request"
              /\ IF g = "client" THEN rememberClient(m.id, o) ELSE rememberServer(m.id, o)
              /\ UNCHANGED hand
           \/ UNCHANGED pendingVars /\ \E c \in Outcomes : Take(g, {o}, c),
           UNCHANGED outcome, pc'["main"] = pc["main"],
           todo' = [todo EXCEPT ![g] = Tail(@)] \/ todo' = [todo EXCEPT ![g] = <<>>]
    PROVE  /\ Books' /\ Lines' /\ hand' \in [Goroutines -> SUBSET (Ops \X Outcomes)]
           /\ DOMAIN clientPending' \subseteq Ids /\ DOMAIN serverPending' \subseteq Ids
           /\ todo' \in [Pipes -> Seq(Messages)] /\ o \in side
           /\ order' \in Seq(Ops) /\ IsInjective(order') /\ opId' \in [Ops -> Ids \cup {NoId}]
<1>1. /\ StdioTypeOK /\ Books /\ Lines /\ todo \in [Pipes -> Seq(Messages)]
      /\ hand \in [Goroutines -> SUBSET (Ops \X Outcomes)]
      /\ DOMAIN clientPending \subseteq Ids /\ DOMAIN serverPending \subseteq Ids
  BY DEF Full, StdioTypeOK
<1>2. IsFiniteSet(side) /\ side \subseteq Ops /\ LineInv(l, side) /\ l \in Seq(Messages)
  BY <1>1, Sides DEF Lines, Pipes
<1>3. /\ o \in side /\ o \notin ToSet(order) /\ m \in Messages
      /\ order' \in Seq(Ops) /\ IsInjective(order')
      /\ opId' \in [Ops -> Ids \cup {NoId}]
      /\ LineNext(Tail(l), side) /\ \A other : other \subseteq Ops /\ side \cap other = {} => SameSide(other)
      /\ Reuse \/ m.id = NoId \/ \A p \in side : p \in ToSet(order) => opId[p] # m.id
  <2>1. Accepted(side, l, m, o)
    BY <1>1, <1>2, AcceptFacts
  <2>2. QED
    BY <2>1, Zenon DEF Accepted
<1>4. todo' \in [Pipes -> Seq(Messages)]
  <2>1. Tail(l) \in Seq(Messages) /\ <<>> \in Seq(Messages)
    BY <1>2, StartsTail
  <2>2. QED
    BY <1>1, <2>1
<1>5. Lines'
  <2>1. todo'[g] = Tail(l) \/ todo'[g] = <<>>
    BY <1>1
  <2>2. LineNext(todo'[g], side)
    BY <1>2, <1>3, <2>1, LineEmpty
  <2>3. CASE g = "client"
    <3>1. todo'["server"] = todo["server"] /\ SameSide(ServerOps)
      BY <1>1, <1>3, <2>3, Sides DEF Pipes
    <3>2. QED
      BY <1>1, <2>2, <2>3, <3>1, LineKept, LineAfter DEF Lines
  <2>4. CASE g = "server"
    <3>1. todo'["client"] = todo["client"] /\ SameSide(ClientOps)
      BY <1>1, <1>3, <2>4, Sides DEF Pipes
    <3>2. QED
      BY <1>1, <2>2, <2>4, <3>1, LineKept, LineAfter DEF Lines
  <2>5. QED
    BY <2>3, <2>4 DEF Pipes
<1>6. CASE UNCHANGED pendingVars /\ \E c \in Outcomes : Take(g, {o}, c)
  <2>1. PICK c \in Outcomes : Take(g, {o}, c)
    BY <1>6
  <2>2. Books'
    BY <1>1, <1>2, <1>3, <1>6, <2>1, AcceptHeld
  <2>3. hand' \in [Goroutines -> SUBSET (Ops \X Outcomes)]
    BY <1>1, <1>2, <1>3, <2>1, TakenHand DEF Pipes, Goroutines
  <2>4. QED
    BY <1>1, <1>3, <1>4, <1>5, <1>6, <2>2, <2>3 DEF pendingVars
<1>7. CASE /\ m.kind = "request" /\ UNCHANGED hand
           /\ IF g = "client" THEN rememberClient(m.id, o) ELSE rememberServer(m.id, o)
  <2>1. m.id \in Ids /\ m.id # NoId
    BY <1>3, <1>7 DEF Messages
  <2>2. \/ o \in ClientOps /\ rememberClient(m.id, o) /\ (Reuse \/ m.id \notin DOMAIN clientPending)
        \/ o \in ServerOps /\ rememberServer(m.id, o) /\ (Reuse \/ m.id \notin DOMAIN serverPending)
    BY <1>1, <1>3, <1>7, <2>1 DEF Books, MapInv, Pipes
  <2>3. Books'
    BY <1>1, <1>2, <1>3, <1>7, <2>1, <2>2, AcceptPending
  <2>4. DOMAIN clientPending' \subseteq Ids /\ DOMAIN serverPending' \subseteq Ids
    BY <1>1, <2>1, <2>2 DEF rememberClient, rememberServer
  <2>5. QED
    BY <1>1, <1>3, <1>4, <1>5, <1>7, <2>3, <2>4
<1>8. QED
  BY <1>6, <1>7

\* A response leaves the line.
LEMMA AnswerStep ==
    ASSUME Full, NEW g \in Pipes, hand[g] = {}, todo[g] # <<>>, NEW m, m = Head(todo[g]), m.kind = "response",
           (g = "server" /\ takeClient(m.id)) \/ (g = "client" /\ takeServer(m.id)),
           todo' = [todo EXCEPT ![g] = Tail(@)], UNCHANGED opVars, pc'["main"] = pc["main"]
    PROVE  /\ Books' /\ Lines' /\ hand' \in [Goroutines -> SUBSET (Ops \X Outcomes)]
           /\ DOMAIN clientPending' \subseteq Ids /\ DOMAIN serverPending' \subseteq Ids
           /\ todo' \in [Pipes -> Seq(Messages)]
<1>1. Lines /\ todo \in [Pipes -> Seq(Messages)]
  BY DEF Full, StdioTypeOK
<1>2. SameSide(ClientOps) /\ SameSide(ServerOps)
  BY DEF SameSide, opVars
<1>3. todo' \in [Pipes -> Seq(Messages)] /\ todo'[g] = Tail(todo[g])
  <2>1. Tail(todo[g]) \in Seq(Messages)
    BY <1>1, StartsTail
  <2>2. QED
    BY <1>1, <2>1
<1>4. Lines'
  <2>1. CASE g = "client"
    <3>1. todo'["server"] = todo["server"] /\ LineNext(Tail(todo["client"]), ClientOps)
      BY <1>1, <1>2, <2>1, LineResponse, Sides DEF Lines, Pipes
    <3>2. QED
      BY <1>1, <1>2, <1>3, <2>1, <3>1, LineKept, LineAfter DEF Lines
  <2>2. CASE g = "server"
    <3>1. todo'["client"] = todo["client"] /\ LineNext(Tail(todo["server"]), ServerOps)
      BY <1>1, <1>2, <2>2, LineResponse, Sides DEF Lines, Pipes
    <3>2. QED
      BY <1>1, <1>2, <1>3, <2>2, <3>1, LineKept, LineAfter DEF Lines
  <2>3. QED
    BY <2>1, <2>2 DEF Pipes
<1>5. QED
  BY <1>3, <1>4, ResponseStep

\* The goroutines, the lines on the wire and the life of Run.
RestOK ==
    /\ DOMAIN pc = Goroutines
    /\ pc["client"] \in {"scan", "observe", "write", "return"}
    /\ pc["server"] \in {"scan", "observe", "junk", "return"}
    /\ pc["cleanup"] \in {"wait", "return"}
    /\ pc["main"] \in {"select", "shutdown", "drain_cancelled", "drain_exited", "finalize", "returned"}
    /\ relayed \subseteq Ids
    /\ line \subseteq ClientOps /\ forwarded \subseteq ClientOps /\ answered \subseteq forwarded
    /\ cancelled \in BOOLEAN /\ stopped \in BOOLEAN /\ alive \in BOOLEAN

\* The operations and their calls.
CallsOK ==
    /\ DOMAIN clientPending \subseteq Ids /\ DOMAIN serverPending \subseteq Ids
    /\ order \in Seq(Ops) /\ IsInjective(order)
    /\ opId \in [Ops -> Ids \cup {NoId}]
    /\ outcome \in [Ops -> Seq(Outcomes)]
    /\ todo \in [Pipes -> Seq(Messages)]
    /\ hand \in [Goroutines -> SUBSET (Ops \X Outcomes)]

LEMMA TypeParts == StdioTypeOK <=> RestOK /\ CallsOK
BY DEF StdioTypeOK, RestOK, CallsOK

LEMMA FullAfter == RestOK' /\ CallsOK' /\ Books' /\ Lines' /\ WireInv' => Full'
<1>1. RestOK /\ CallsOK /\ Books /\ Lines /\ WireInv => Full
  BY TypeParts DEF Full
<1>2. QED
  BY <1>1, PTL

LEMMA Places4 ==
    /\ {"client", "server", "cleanup", "main"} = Goroutines
    /\ "client" \in Pipes /\ "server" \in Pipes
BY DEF Goroutines, Pipes

\* Steps that leave the operations, the maps and the hands alone.
LEMMA IdleStep ==
    ASSUME Full,
           \/ ClientScanOpaque \/ ClientObserved \/ ClientWrite \/ ServerScanJunk \/ ServerObserved
           \/ CleanupStop \/ RunCancelled \/ RunExited \/ ShutdownUpstream \/ RunReturn
           \/ Cancel \/ UpstreamExit \/ UNCHANGED vars
           \/ (ClientEnd \/ ServerEnd) /\ UNCHANGED <<pendingVars, hand>>
    PROVE  Full'
<1>1. StdioTypeOK /\ Books /\ Lines /\ WireInv
  BY DEF Full
<1>2. RestOK /\ CallsOK
  BY <1>1, TypeParts
<1>3. UNCHANGED <<pendingVars, opVars, hand, todo>>
  BY DEF ClientScanOpaque, ClientObserved, ClientWrite, ServerScanJunk, ServerObserved, CleanupStop,
         RunCancelled, RunExited, ShutdownUpstream, RunReturn, Cancel, UpstreamExit, vars,
         ClientEnd, ServerEnd
<1>4. RestOK'
  <2>1. CASE RunCancelled \/ RunExited \/ ShutdownUpstream \/ RunReturn \/ Cancel
    BY <1>2, <2>1 DEF RestOK, Goto, RunCancelled, RunExited, ShutdownUpstream, RunReturn, Cancel,
         wireVars, lifeVars, Goroutines, Pipes
  <2>2. CASE ClientScanOpaque \/ ClientObserved \/ ClientWrite \/ ServerScanJunk \/ ServerObserved
    BY <1>2, <2>2 DEF RestOK, Goto, ClientScanOpaque, ClientObserved, ClientWrite,
         ServerScanJunk, ServerObserved, wireVars, lifeVars, Goroutines, Pipes
  <2>3. CASE CleanupStop \/ UpstreamExit \/ UNCHANGED vars \/ ClientEnd \/ ServerEnd
    BY <1>2, <2>3 DEF RestOK, Goto, CleanupStop, UpstreamExit, vars, ClientEnd, ServerEnd,
         wireVars, lifeVars, Goroutines, Pipes
  <2>4. QED
    BY <2>1, <2>2, <2>3
<1>5. MainRests
  <2>1. pc["main"] # "finalize" => hand["main"] = {}
    BY <1>1 DEF Books, HandInv, Goroutines
  <2>2. CASE RunCancelled \/ RunExited \/ ShutdownUpstream \/ RunReturn
    BY <1>3, <2>1, <2>2 DEF RunCancelled, RunExited, ShutdownUpstream, RunReturn, Free, MainRests
  <2>3. CASE ~(RunCancelled \/ RunExited \/ ShutdownUpstream \/ RunReturn)
    BY <1>2, <2>3 DEF RestOK, Goto, ClientScanOpaque, ClientObserved, ClientWrite, ServerScanJunk,
         ServerObserved, CleanupStop, Cancel, UpstreamExit, vars, ClientEnd, ServerEnd, MainRests,
         Goroutines
  <2>4. QED
    BY <2>2, <2>3
<1>6. Books' /\ Lines'
  BY <1>1, <1>3, <1>5, BooksRest, LinesRest DEF opVars
<1>7. WireInv'
  <2>1. line' \cup forwarded' \subseteq line \cup forwarded
    BY DEF ClientScanOpaque, ClientObserved, ClientWrite, ServerScanJunk, ServerObserved, CleanupStop,
         RunCancelled, RunExited, ShutdownUpstream, RunReturn, Cancel, UpstreamExit, vars,
         ClientEnd, ServerEnd, wireVars
  <2>2. QED
    BY <1>1, <1>3, <2>1 DEF WireInv, opVars
<1>8. CallsOK'
  BY <1>2, <1>3 DEF CallsOK, pendingVars, opVars
<1>9. QED
  BY <1>4, <1>6, <1>7, <1>8, FullAfter

\* Steps that take calls out of the maps, other than a response.
LEMMA TakingStep ==
    ASSUME Full,
           \/ ClientEnd /\ takeAll("client", "client_disconnect")
           \/ ServerEnd /\ takeAll("server", "upstream_error")
           \/ ClientWriteFailed \/ ServerWriteFailed \/ ObserveJunk
           \/ (\E n \in 1..Len(order) : CleanupTick(n))
           \/ WaitForPipes
    PROVE  Full'
<1>1. StdioTypeOK /\ Books /\ Lines /\ WireInv
  BY DEF Full
<1>2. RestOK /\ CallsOK
  BY <1>1, TypeParts
<1>3. UNCHANGED <<opVars, todo>>
  BY DEF ClientEnd, ServerEnd, ClientWriteFailed, ServerWriteFailed, ObserveJunk, CleanupTick, WaitForPipes
<1>4. RestOK'
  BY <1>2 DEF RestOK, Goto, ClientEnd, ServerEnd, ClientWriteFailed, ServerWriteFailed, ObserveJunk,
         CleanupTick, WaitForPipes, wireVars, lifeVars, Goroutines, Pipes
<1>5. PICK g \in Goroutines, c \in Outcomes :
         /\ hand[g] = {}
         /\ takeAll(g, c) \/ takeClients(g, c) \/ (c = "timeout" /\ \E old : takeExpired(g, old))
         /\ g = "main" => pc'["main"] = "finalize"
         /\ g # "main" => pc'["main"] = pc["main"]
  <2>0. {"client_disconnect", "upstream_error", "cancelled", "timeout", "malformed_upstream_response"}
           \subseteq Outcomes
    BY DEF Outcomes
  <2>1. CASE ClientEnd /\ takeAll("client", "client_disconnect")
    BY <1>2, <2>0, <2>1, Places4 DEF ClientEnd, Free, Goto, RestOK
  <2>2. CASE ServerEnd /\ takeAll("server", "upstream_error")
    BY <1>2, <2>0, <2>2, Places4 DEF ServerEnd, Free, Goto, RestOK
  <2>3. CASE ClientWriteFailed
    BY <1>2, <2>0, <2>3, Places4 DEF ClientWriteFailed, Free, Goto, RestOK
  <2>4. CASE ServerWriteFailed
    BY <1>2, <2>0, <2>4, Places4 DEF ServerWriteFailed, Free, Goto, RestOK
  <2>5. CASE ObserveJunk
    BY <1>2, <2>0, <2>5, Places4 DEF ObserveJunk, Free, Goto, RestOK
  <2>6. CASE \E n \in 1..Len(order) : CleanupTick(n)
    BY <1>2, <2>0, <2>6, Places4 DEF CleanupTick, Free, Goto, RestOK
  <2>7. CASE WaitForPipes
    <3>1. hand["main"] = {}
      BY <1>1, <2>7, Places4 DEF WaitForPipes, Books, HandInv
    <3>2. QED
      BY <1>2, <2>0, <2>7, <3>1, Places4 DEF WaitForPipes, Goto, RestOK
  <2>8. QED
    BY <2>1, <2>2, <2>3, <2>4, <2>5, <2>6, <2>7
<1>6. /\ Books' /\ Lines' /\ hand' \in [Goroutines -> SUBSET (Ops \X Outcomes)]
      /\ DOMAIN clientPending' \subseteq Ids /\ DOMAIN serverPending' \subseteq Ids
  BY <1>3, <1>5, TakeStep
<1>7. CallsOK'
  BY <1>2, <1>3, <1>6 DEF CallsOK, opVars
<1>8. WireInv'
  <2>1. line' \cup forwarded' \subseteq line \cup forwarded
    BY DEF ClientEnd, ServerEnd, ClientWriteFailed, ServerWriteFailed, ObserveJunk, CleanupTick,
         WaitForPipes, wireVars
  <2>2. QED
    BY <1>1, <1>3, <2>1 DEF WireInv, opVars
<1>9. QED
  BY <1>4, <1>6, <1>7, <1>8, FullAfter

LEMMA RecordStep ==
    ASSUME Full, NEW g \in Goroutines, Record(g)
    PROVE  Full'
<1>1. StdioTypeOK /\ Books /\ Lines /\ WireInv
  BY DEF Full
<1>2. RestOK /\ CallsOK
  BY <1>1, TypeParts
<1>3. UNCHANGED <<pendingVars, order, opId, pc, todo, line, wireVars, lifeVars>>
  BY DEF Record
<1>4. /\ Books' /\ outcome' \in [Ops -> Seq(Outcomes)]
      /\ hand' \in [Goroutines -> SUBSET (Ops \X Outcomes)]
  BY <1>1, RecordCall
<1>5. RestOK' /\ CallsOK'
  BY <1>2, <1>3, <1>4 DEF RestOK, CallsOK, pendingVars, wireVars, lifeVars
<1>6. Lines' /\ WireInv'
  BY <1>1, <1>3, LinesRest DEF WireInv, wireVars
<1>7. QED
  BY <1>4, <1>5, <1>6, FullAfter

\* The lines of a side are made of messages.
LEMMA LineMessages ==
    ASSUME Full
    PROVE  /\ \A l \in ClientLines : UNCHANGED <<order, opId>> =>
                 l \in Seq(Messages) /\ LineNext(l, ClientOps)
           /\ \A l \in ServerLines : UNCHANGED <<order, opId>> =>
                 l \in Seq(Messages) /\ LineNext(l, ServerOps)
<1>1. /\ relayed \subseteq Ids /\ forwarded \subseteq ClientOps /\ NoId \notin Ids
      /\ Verdicts \subseteq {"allow", "denied", "rate_limited"} /\ opId \in [Ops -> Ids \cup {NoId}]
      /\ \A o \in forwarded : opId[o] # NoId
  BY StdioAssumption DEF Full, StdioTypeOK, WireInv
<1>2. \A o \in forwarded : opId[o] \in Ids
  BY <1>1, Sides
<1>3. /\ \A i \in Ids, v \in {"allow", "denied", "rate_limited"} : Request(i, v) \in Messages
      /\ \A v \in {"allow", "denied", "rate_limited"} : Notification(v) \in Messages
      /\ \A i \in Ids : Response(i) \in Messages
  BY <1>1 DEF Messages, Request, Notification, Response
<1>4. {Request(i, v) : i \in Ids, v \in Verdicts} \cup {Notification(v) : v \in Verdicts}
         \cup {Response(i) : i \in relayed} \subseteq Messages
  BY <1>1, <1>3
<1>5. {Request(i, "allow") : i \in Ids} \cup {Notification("allow")}
         \cup {Response(opId[o]) : o \in forwarded} \subseteq Messages
  BY <1>2, <1>3
<1>6. ASSUME UNCHANGED <<order, opId>>
      PROVE  /\ \A l \in ClientLines : l \in Seq(Messages) /\ LineNext(l, ClientOps)
             /\ \A l \in ServerLines : l \in Seq(Messages) /\ LineNext(l, ServerOps)
  BY <1>4, <1>5, <1>6, LineRead DEF ClientLines, ServerLines
<1>7. QED
  BY <1>6

\* A line is read.
LEMMA ScanStep ==
    ASSUME Full, ClientScan \/ ServerScan
    PROVE  Full'
<1>1. StdioTypeOK /\ Books /\ Lines /\ WireInv
  BY DEF Full
<1>2. RestOK /\ CallsOK
  BY <1>1, TypeParts
<1>3. UNCHANGED <<pendingVars, opVars, hand, line, forwarded>>
  BY DEF ClientScan, ServerScan, wireVars
<1>4. MainRests
  BY <1>2 DEF ClientScan, ServerScan, Goto, RestOK, MainRests, Goroutines
<1>5. Books' /\ WireInv'
  BY <1>1, <1>3, <1>4, BooksRest DEF WireInv, opVars
<1>6. SameSide(ClientOps) /\ SameSide(ServerOps) /\ UNCHANGED <<order, opId>>
  BY <1>3 DEF SameSide, opVars
<1>7. CASE ClientScan
  <2>1. PICK l \in ClientLines : todo' = [todo EXCEPT !["client"] = l]
    BY <1>7 DEF ClientScan
  <2>2. l \in Seq(Messages) /\ LineNext(l, ClientOps)
    BY <1>6, LineMessages
  <2>3. todo'["client"] = l /\ todo'["server"] = todo["server"] /\ todo' \in [Pipes -> Seq(Messages)]
    BY <1>2, <2>1, <2>2, Places4 DEF CallsOK
  <2>4. Lines'
    BY <1>1, <1>6, <2>2, <2>3, LineKept, LineAfter DEF Lines
  <2>5. CallsOK'
    BY <1>2, <1>3, <2>3 DEF CallsOK, pendingVars, opVars
  <2>6. RestOK'
    BY <1>2, <1>7 DEF RestOK, ClientScan, Goto, wireVars, lifeVars, Goroutines
  <2>7. QED
    BY <1>5, <2>4, <2>5, <2>6, FullAfter
<1>8. CASE ServerScan
  <2>1. PICK l \in ServerLines :
          LET ids(kind) == {l[k].id : k \in {j \in 1..Len(l) : l[j].kind = kind}}
          IN  /\ todo' = [todo EXCEPT !["server"] = l]
              /\ relayed' = relayed \cup ids("request")
              /\ answered' = answered \cup {o \in forwarded : opId[o] \in ids("response")}
    BY <1>8 DEF ServerScan
  <2>2. l \in Seq(Messages) /\ LineNext(l, ServerOps)
    BY <1>6, LineMessages
  <2>3. todo'["server"] = l /\ todo'["client"] = todo["client"] /\ todo' \in [Pipes -> Seq(Messages)]
    BY <1>2, <2>1, <2>2, Places4 DEF CallsOK
  <2>4. Lines'
    BY <1>1, <1>6, <2>2, <2>3, LineKept, LineAfter DEF Lines
  <2>5. CallsOK'
    BY <1>2, <1>3, <2>3 DEF CallsOK, pendingVars, opVars
  <2>6. relayed' \subseteq Ids /\ answered' \subseteq forwarded'
    <3>1. \A k \in 1..Len(l) : l[k] \in Messages
      BY <2>2
    <3>2. \A k \in 1..Len(l) : l[k].kind = "request" => l[k].id \in Ids
      BY <3>1 DEF Messages
    <3>3. relayed \subseteq Ids /\ answered \subseteq forwarded
      BY <1>2 DEF RestOK
    <3>4. QED
      BY <1>3, <2>1, <3>2, <3>3
  <2>7. RestOK'
    BY <1>2, <1>3, <1>8, <2>6 DEF RestOK, ServerScan, Goto, lifeVars, Goroutines
  <2>8. QED
    BY <1>5, <2>4, <2>5, <2>7, FullAfter
<1>9. QED
  BY <1>7, <1>8

\* A message of the server is observed.
LEMMA ObserveServerStep ==
    ASSUME Full, ObserveServer
    PROVE  Full'
<1>1. StdioTypeOK /\ Books /\ Lines /\ WireInv
  BY DEF Full
<1>2. RestOK /\ CallsOK
  BY <1>1, TypeParts
<1>3. PICK m, o : m = Head(todo["server"]) /\ o = NextOp(ServerOps)
  OBVIOUS
<1>4. /\ hand["server"] = {} /\ todo["server"] # <<>>
      /\ todo' = [todo EXCEPT !["server"] = Tail(@)]
      /\ UNCHANGED <<outcome, pc, line, wireVars, lifeVars>>
  BY DEF ObserveServer, Free
<1>5. RestOK'
  BY <1>2, <1>4 DEF RestOK, wireVars, lifeVars
<1>6. CASE m.kind = "response"
  <2>1. takeClient(m.id) /\ UNCHANGED <<order, opId>>
    BY <1>3, <1>6 DEF ObserveServer
  <2>2. /\ Books' /\ Lines' /\ hand' \in [Goroutines -> SUBSET (Ops \X Outcomes)]
        /\ DOMAIN clientPending' \subseteq Ids /\ DOMAIN serverPending' \subseteq Ids
        /\ todo' \in [Pipes -> Seq(Messages)]
    BY <1>3, <1>4, <1>6, <2>1, AnswerStep, Places4 DEF opVars
  <2>3. CallsOK' /\ WireInv'
    BY <1>1, <1>2, <1>4, <2>1, <2>2 DEF CallsOK, WireInv, wireVars
  <2>4. QED
    BY <1>5, <2>2, <2>3, FullAfter
<1>7. CASE m.kind # "response"
  <2>1. /\ Accept(o, m.id)
        /\ \/ m.kind = "request" /\ rememberServer(m.id, o) /\ UNCHANGED hand
           \/ UNCHANGED pendingVars /\ Take("server", {o}, "success")
    BY <1>3, <1>7 DEF ObserveServer
  <2>2. "success" \in Outcomes
    BY DEF Outcomes
  <2>3. /\ Books' /\ Lines' /\ hand' \in [Goroutines -> SUBSET (Ops \X Outcomes)]
        /\ DOMAIN clientPending' \subseteq Ids /\ DOMAIN serverPending' \subseteq Ids
        /\ todo' \in [Pipes -> Seq(Messages)] /\ o \in ServerOps
        /\ order' \in Seq(Ops) /\ IsInjective(order') /\ opId' \in [Ops -> Ids \cup {NoId}]
    BY <1>3, <1>4, <1>7, <2>1, <2>2, StartStep, Places4
  <2>4. CallsOK'
    BY <1>2, <1>4, <2>3 DEF CallsOK
  <2>5. WireInv'
    <3>1. ToSet(order)' = ToSet(order) \cup {o} /\ \A p \in Ops \ {o} : opId'[p] = opId[p]
      BY <1>2, <2>1, <2>3, AppendedSet, Sides DEF CallsOK, Accept
    <3>2. line \cup forwarded \subseteq Ops \ {o}
      BY <1>2, <2>3, Sides DEF RestOK
    <3>3. QED
      BY <1>1, <1>4, <3>1, <3>2 DEF WireInv, wireVars
  <2>6. QED
    BY <1>5, <2>3, <2>4, <2>5, FullAfter
<1>8. QED
  BY <1>6, <1>7

\* A message of the client is observed.
LEMMA ObserveClientStep ==
    ASSUME Full, ObserveClient
    PROVE  Full'
<1>1. StdioTypeOK /\ Books /\ Lines /\ WireInv
  BY DEF Full
<1>2. RestOK /\ CallsOK
  BY <1>1, TypeParts
<1>3. PICK m, o : m = Head(todo["client"]) /\ o = NextOp(ClientOps)
  OBVIOUS
<1>4. /\ hand["client"] = {} /\ todo["client"] # <<>>
      /\ todo' = [todo EXCEPT !["client"] = Tail(@)] \/ todo' = [todo EXCEPT !["client"] = <<>>]
      /\ pc' = pc \/ Goto("client", "scan")
      /\ UNCHANGED <<outcome, wireVars, lifeVars>>
  BY DEF ObserveClient, Free
<1>5. pc'["main"] = pc["main"]
  BY <1>2, <1>4 DEF RestOK, Goto, Goroutines
<1>P. /\ DOMAIN pc' = Goroutines
      /\ pc'["client"] \in {"scan", "observe", "write", "return"}
      /\ pc'["server"] = pc["server"] /\ pc'["cleanup"] = pc["cleanup"]
  BY <1>2, <1>4 DEF RestOK, Goto, Goroutines, Pipes
<1>6. m \in Messages
  BY <1>2, <1>3, <1>4, StartsTail, Places4 DEF CallsOK
<1>7. CASE m.kind = "response"
  <2>1. takeServer(m.id) /\ UNCHANGED <<order, opId, line>> /\ todo' = [todo EXCEPT !["client"] = Tail(@)]
    BY <1>3, <1>7 DEF ObserveClient
  <2>2. /\ Books' /\ Lines' /\ hand' \in [Goroutines -> SUBSET (Ops \X Outcomes)]
        /\ DOMAIN clientPending' \subseteq Ids /\ DOMAIN serverPending' \subseteq Ids
        /\ todo' \in [Pipes -> Seq(Messages)]
    BY <1>3, <1>4, <1>5, <1>7, <2>1, AnswerStep, Places4 DEF opVars
  <2>3. CallsOK' /\ WireInv'
    BY <1>1, <1>2, <1>4, <2>1, <2>2 DEF CallsOK, WireInv, wireVars
  <2>4. RestOK'
    BY <1>2, <1>4, <1>5, <1>P, <2>1 DEF RestOK, wireVars, lifeVars
  <2>5. QED
    BY <2>2, <2>3, <2>4, FullAfter
<1>8. CASE m.kind # "response"
  <2>1. /\ Accept(o, m.id)
        /\ \/ m.kind = "request" /\ rememberClient(m.id, o) /\ UNCHANGED hand /\ line' = line \cup {o}
           \/ /\ UNCHANGED pendingVars /\ line' \subseteq line
              /\ \E c \in {"success", m.verdict} : Take("client", {o}, c) /\ (c = "success" \/ m.verdict # "allow")
    BY <1>3, <1>8 DEF ObserveClient
  <2>2. m.verdict # "allow" => m.verdict \in Outcomes
    BY <1>6 DEF Messages, Outcomes
  <2>3. "success" \in Outcomes
    BY DEF Outcomes
  <2>4. \/ m.kind = "request" /\ rememberClient(m.id, o) /\ UNCHANGED hand
        \/ UNCHANGED pendingVars /\ \E c \in Outcomes : Take("client", {o}, c)
    BY <2>1, <2>2, <2>3
  <2>5. /\ Books' /\ Lines' /\ hand' \in [Goroutines -> SUBSET (Ops \X Outcomes)]
        /\ DOMAIN clientPending' \subseteq Ids /\ DOMAIN serverPending' \subseteq Ids
        /\ todo' \in [Pipes -> Seq(Messages)] /\ o \in ClientOps
        /\ order' \in Seq(Ops) /\ IsInjective(order') /\ opId' \in [Ops -> Ids \cup {NoId}]
    BY <1>3, <1>4, <1>5, <1>8, <2>1, <2>4, StartStep, Places4
  <2>6. CallsOK'
    BY <1>2, <1>4, <2>5 DEF CallsOK
  <2>7. RestOK'
    <3>1. line' \subseteq ClientOps
      BY <1>2, <2>1, <2>5 DEF RestOK
    <3>2. QED
      BY <1>2, <1>4, <1>5, <1>P, <3>1 DEF RestOK, wireVars, lifeVars
  <2>8. WireInv'
    <3>1. /\ ToSet(order)' = ToSet(order) \cup {o} /\ \A p \in Ops \ {o} : opId'[p] = opId[p]
          /\ opId'[o] = m.id
      BY <1>2, <2>1, <2>5, AppendedSet, Sides DEF CallsOK, Accept
    <3>2. o \notin ToSet(order)
      BY <1>1, <1>2, <1>3, <1>4, <1>8, Sides, NextOpFresh, StartsTail, Places4 DEF Lines, CallsOK
    <3>3. m.kind = "request" => m.id # NoId
      BY <1>6 DEF Messages
    <3>4. line \cup forwarded \subseteq Ops
      BY <1>2, Sides DEF RestOK
    <3>5. QED
      BY <1>1, <1>4, <2>1, <3>1, <3>2, <3>3, <3>4 DEF WireInv, wireVars
  <2>9. QED
    BY <2>5, <2>6, <2>7, <2>8, FullAfter
<1>9. QED
  BY <1>7, <1>8

LEMMA StdioInitFull == Init => Full
<1> SUFFICES ASSUME Init PROVE Full
  OBVIOUS
<1>1. ToSet(order) = {} /\ Pending = {} /\ \A g \in Goroutines : Held(g) = {}
  BY DEF Init, ToSet, Pending, Range, NoCalls, Held
<1>2. RestOK
  BY DEF Init, RestOK, Goroutines, Pipes
<1>3. CallsOK
  <2>1. <<>> \in Seq(Outcomes) /\ <<>> \in Seq(Messages) /\ order \in Seq(Ops) /\ IsInjective(order)
    BY DEF Init, IsInjective
  <2>2. QED
    BY <2>1 DEF Init, CallsOK, NoCalls
<1>4. Books
  <2>1. \A o \in Ops : outcome[o] = <<>> /\ Len(outcome[o]) = 0
    BY DEF Init
  <2>2. OneTerminalEvent
    BY <1>1, <2>1 DEF OneTerminalEvent
  <2>3. MapInv(clientPending, ClientOps) /\ MapInv(serverPending, ServerOps)
    BY DEF Init, MapInv, NoCalls
  <2>4. \A g \in Goroutines : HandInv(g)
    BY <1>1 DEF Init, HandInv
  <2>5. QED
    BY <1>1, <2>1, <2>2, <2>3, <2>4 DEF Books, NothingForgotten
<1>5. Lines
  <2>1. todo["client"] = <<>> /\ todo["server"] = <<>>
    BY Places4 DEF Init
  <2>2. ASSUME NEW side, IsFiniteSet(side) PROVE LineInv(<<>>, side)
    <3>1. Cardinality(side \ ToSet(order)) \in Nat
      BY <2>2, FS_Difference, FS_CardinalityType
    <3>2. QED
      BY <3>1, NoStarts DEF LineInv
  <2>3. QED
    BY <2>1, <2>2, Sides DEF Lines
<1>6. WireInv
  BY DEF Init, WireInv
<1>7. QED
  BY <1>2, <1>3, <1>4, <1>5, <1>6, TypeParts DEF Full

LEMMA StdioNextFull == Full /\ [Next]_vars => Full'
<1> SUFFICES ASSUME Full, [Next]_vars PROVE Full'
  OBVIOUS
<1>1. CASE \E g \in Goroutines : Record(g)
  BY <1>1, RecordStep
<1>2. CASE ClientStep
  BY <1>2, IdleStep, TakingStep, ScanStep, ObserveClientStep DEF ClientStep, ClientEnd
<1>3. CASE ServerStep
  BY <1>3, IdleStep, TakingStep, ScanStep, ObserveServerStep DEF ServerStep, ServerEnd
<1>4. CASE MainStep \/ (\E n \in 1..Len(order) : CleanupTick(n)) \/ CleanupStop \/ Cancel \/ UpstreamExit
           \/ UNCHANGED vars
  BY <1>4, IdleStep, TakingStep DEF MainStep
<1>5. QED
  BY <1>1, <1>2, <1>3, <1>4 DEF Next

LEMMA StdioFull == SafetySpec => []Full
<1>1. Init => Full
  BY StdioInitFull
<1>2. Full /\ [Next]_vars => Full'
  BY StdioNextFull
<1>3. QED
  BY <1>1, <1>2, PTL DEF SafetySpec

\* For all ids, operations and lines, also when ids are used again: no operation
\* is finalized twice or is in two places, and the maps, hands and lines are well
\* formed.
THEOREM StdioCorrect == SafetySpec => []StdioInv
<1>1. Full => StdioInv
  BY FullParts
<1>2. QED
  BY <1>1, StdioFull, PTL

\* When a client or server does not use an id again, no interleaving of
\* responses, timeouts, failing pipes and shutdown forgets an operation.
THEOREM StdioNothingForgotten ==
    ASSUME ~Reuse
    PROVE  SafetySpec => []NothingForgotten
<1>1. Full => NothingForgotten
  BY FullParts
<1>2. QED
  BY <1>1, StdioFull, PTL

-----------------------------------------------------------------------------
(* A success is backed by a response that was written to the client.  When *)
(* ids are not used again, the call that a response takes is the request   *)
(* that it answers.                                                        *)

\* A request of the client whose response was written to it.
Relayed(o) == o \in ClientOps /\ opId[o] # NoId => o \in answered

UniqueIds ==
    \A o, p \in ClientOps :
        o \in ToSet(order) /\ p \in ToSet(order) /\ opId[o] = opId[p] /\ opId[o] # NoId => o = p
AnswersKnown ==
    \A k \in 1..Len(todo["server"]) : todo["server"][k].kind = "response" =>
        \E o \in answered : opId[o] = todo["server"][k].id
HandsRelayed == \A g \in Goroutines : \A call \in hand[g] : call[2] = "success" => Relayed(call[1])
OutcomesRelayed == \A o \in Ops : \A k \in 1..Len(outcome[o]) : outcome[o][k] = "success" => Relayed(o)
RelayInv == UniqueIds /\ AnswersKnown /\ HandsRelayed /\ OutcomesRelayed

\* Accepted operations keep their ids, responses that were written stay written.
Stable == answered \subseteq answered' /\ \A p \in Ops : p \in ToSet(order) => opId'[p] = opId[p]

LEMMA RelayedStays ==
    ASSUME Stable, NEW o \in Ops, o \in ToSet(order), Relayed(o)
    PROVE  Relayed(o)'
BY DEF Stable, Relayed, ClientOps

\* Steps that accept no operation and observe no message.
QuietStep ==
    \/ ClientScan \/ ClientScanOpaque \/ ClientEnd \/ ClientObserved \/ ClientWrite \/ ClientWriteFailed
    \/ ServerScanJunk \/ ServerWriteFailed \/ ServerEnd \/ ObserveJunk \/ ServerObserved
    \/ MainStep \/ (\E n \in 1..Len(order) : CleanupTick(n)) \/ CleanupStop
    \/ Cancel \/ UpstreamExit \/ UNCHANGED vars

\* What the step does to the hands: calls that are taken without a response are
\* no successes.
LEMMA QuietHands ==
    ASSUME Full, QuietStep
    PROVE  /\ UNCHANGED <<opVars, answered>> /\ todo'["server"] = todo["server"]
           /\ \A g \in Goroutines : \A call \in hand'[g] : call \in hand[g] \/ call[2] # "success"
<1>1. hand \in [Goroutines -> SUBSET (Ops \X Outcomes)] /\ todo \in [Pipes -> Seq(Messages)]
  BY DEF Full, StdioTypeOK
<1>2. UNCHANGED <<opVars, answered>> /\ todo'["server"] = todo["server"]
  BY <1>1, Places4 DEF QuietStep, ClientScan, ClientScanOpaque, ClientEnd, ClientObserved, ClientWrite,
     ClientWriteFailed, ServerScanJunk, ServerWriteFailed, ServerEnd, ObserveJunk, ServerObserved,
     MainStep, RunCancelled, RunExited, ShutdownUpstream, WaitForPipes, RunReturn, CleanupTick,
     CleanupStop, Cancel, UpstreamExit, vars, wireVars
<1>3. UNCHANGED hand \/ \E g \in Goroutines : \E T, c : c # "success" /\ Take(g, T, c)
  BY Places4 DEF QuietStep, ClientScan, ClientScanOpaque, ClientEnd, ClientObserved, ClientWrite,
     ClientWriteFailed, ServerScanJunk, ServerWriteFailed, ServerEnd, ObserveJunk, ServerObserved,
     MainStep, RunCancelled, RunExited, ShutdownUpstream, WaitForPipes, RunReturn, CleanupTick,
     CleanupStop, Cancel, UpstreamExit, vars, takeAll, takeClients, takeExpired
<1>4. \A g \in Goroutines : \A T, c : c # "success" /\ Take(g, T, c) =>
         \A f \in Goroutines : \A call \in hand'[f] : call \in hand[f] \/ call[2] # "success"
  BY <1>1 DEF Take
<1>5. QED
  BY <1>2, <1>3, <1>4

LEMMA QuietRelay ==
    ASSUME Full, RelayInv, QuietStep
    PROVE  RelayInv'
<1>1. /\ UNCHANGED <<opVars, answered>> /\ todo'["server"] = todo["server"]
      /\ \A g \in Goroutines : \A call \in hand'[g] : call \in hand[g] \/ call[2] # "success"
  BY QuietHands
<1>2. order' = order /\ opId' = opId /\ outcome' = outcome /\ answered' = answered
  BY <1>1 DEF opVars
<1>3. \A o : Relayed(o)' <=> Relayed(o)
  BY <1>2 DEF Relayed, ClientOps
<1>4. UniqueIds' /\ AnswersKnown'
  BY <1>1, <1>2 DEF RelayInv, UniqueIds, AnswersKnown, ClientOps
<1>5. HandsRelayed' /\ OutcomesRelayed'
  BY <1>1, <1>2, <1>3 DEF RelayInv, HandsRelayed, OutcomesRelayed, Ops, ClientOps, ServerOps
<1>6. QED
  BY <1>4, <1>5 DEF RelayInv

LEMMA RecordRelay ==
    ASSUME Full, RelayInv, NEW g \in Goroutines, Record(g)
    PROVE  RelayInv'
<1>1. order' = order /\ opId' = opId /\ answered' = answered /\ todo' = todo
  BY DEF Record, wireVars
<1>2. \A o : Relayed(o)' <=> Relayed(o)
  BY <1>1 DEF Relayed, ClientOps
<1>3. UniqueIds' /\ AnswersKnown'
  BY <1>1 DEF RelayInv, UniqueIds, AnswersKnown, ClientOps
<1>4. /\ hand \in [Goroutines -> SUBSET (Ops \X Outcomes)] /\ outcome \in [Ops -> Seq(Outcomes)]
  BY DEF Full, StdioTypeOK
<1>5. PICK call \in hand[g] :
         /\ outcome' = [outcome EXCEPT ![call[1]] = Append(@, call[2])]
         /\ hand' = [hand EXCEPT ![g] = @ \ {call}]
  BY DEF Record
<1>6. HandsRelayed'
  BY <1>2, <1>4, <1>5 DEF RelayInv, HandsRelayed
<1>7. OutcomesRelayed'
  <2>1. ASSUME NEW o \in Ops, NEW k \in 1..Len(outcome'[o]), outcome'[o][k] = "success"
        PROVE  Relayed(o)
    <3>0. outcome[o] \in Seq(Outcomes) /\ Len(outcome[o]) \in Nat
      BY <1>4
    <3>1. CASE o = call[1]
      <4>1. outcome'[o] = Append(outcome[o], call[2])
        BY <1>4, <1>5, <3>1
      <4>2. k = Len(outcome[o]) + 1 \/ (k \in 1..Len(outcome[o]) /\ outcome'[o][k] = outcome[o][k])
        BY <3>0, <4>1
      <4>3. k = Len(outcome[o]) + 1 => outcome'[o][k] = call[2]
        BY <3>0, <4>1
      <4>4. QED
        BY <2>1, <3>1, <4>2, <4>3 DEF RelayInv, HandsRelayed, OutcomesRelayed
    <3>2. CASE o # call[1]
      <4>1. outcome'[o] = outcome[o]
        BY <1>4, <1>5, <3>2
      <4>2. QED
        BY <2>1, <4>1 DEF RelayInv, OutcomesRelayed
    <3>3. QED
      BY <3>1, <3>2
  <2>2. QED
    BY <1>2, <2>1 DEF OutcomesRelayed, Ops, ClientOps, ServerOps
<1>8. QED
  BY <1>3, <1>6, <1>7 DEF RelayInv

\* What the server sends is written to the client before it is observed.
LEMMA ScanRelay ==
    ASSUME Full, RelayInv, ServerScan
    PROVE  RelayInv'
<1>1. UNCHANGED <<opVars, hand, forwarded>>
  BY DEF ServerScan
<1>2. order' = order /\ opId' = opId /\ outcome' = outcome /\ hand' = hand
  BY <1>1 DEF opVars
<1>3. PICK l \in ServerLines :
        LET ids(kind) == {l[k].id : k \in {j \in 1..Len(l) : l[j].kind = kind}}
        IN  /\ todo' = [todo EXCEPT !["server"] = l]
            /\ relayed' = relayed \cup ids("request")
            /\ answered' = answered \cup {o \in forwarded : opId[o] \in ids("response")}
  BY DEF ServerScan
<1>4. todo'["server"] = l
  BY <1>3, Places4 DEF Full, StdioTypeOK
<1>5. \A k \in 1..Len(l) : l[k].kind = "response" => \E o \in forwarded : opId[o] = l[k].id
  <2>1. PICK n \in 1..MaxLine :
           l \in [1..n -> {Request(i, "allow") : i \in Ids} \cup {Notification("allow")}
                          \cup {Response(opId[o]) : o \in forwarded}]
    BY DEF ServerLines, LinesOver
  <2>2. Len(l) = n
    BY <2>1, StdioAssumption
  <2>3. QED
    BY <2>1, <2>2 DEF Request, Notification, Response
<1>6. answered \subseteq answered' /\ \A k \in 1..Len(l) : l[k].kind = "response" =>
        \E o \in answered' : opId[o] = l[k].id
  BY <1>3, <1>5
<1>7. AnswersKnown' /\ UniqueIds'
  BY <1>2, <1>4, <1>6 DEF RelayInv, AnswersKnown, UniqueIds, ClientOps
<1>8. HandsRelayed' /\ OutcomesRelayed'
  <2>1. \A o : Relayed(o) => Relayed(o)'
    BY <1>2, <1>6 DEF Relayed, ClientOps
  <2>2. QED
    BY <1>2, <2>1 DEF RelayInv, HandsRelayed, OutcomesRelayed, Ops, ClientOps, ServerOps
<1>9. QED
  BY <1>7, <1>8 DEF RelayInv

\* Hands and outcomes stay backed when new successes are.
LEMMA RelayAfter ==
    ASSUME Full, RelayInv, Stable, UNCHANGED outcome,
           \A g \in Goroutines : \A call \in hand'[g] :
              call \in hand[g] \/ (call[2] = "success" => Relayed(call[1])')
    PROVE  HandsRelayed' /\ OutcomesRelayed'
<1>1. /\ hand \in [Goroutines -> SUBSET (Ops \X Outcomes)] /\ outcome \in [Ops -> Seq(Outcomes)]
      /\ \A g \in Goroutines : Held(g) \subseteq ToSet(order)
      /\ \A o \in Ops : outcome[o] # <<>> => o \in ToSet(order)
  BY DEF Full, StdioTypeOK, Books, HandInv
<1>2. ASSUME NEW g \in Goroutines, NEW call \in hand[g], call[2] = "success"
      PROVE  Relayed(call[1])'
  <2>1. call[1] \in Ops /\ call[1] \in ToSet(order)
    BY <1>1 DEF Held
  <2>2. Relayed(call[1])
    BY <1>2 DEF RelayInv, HandsRelayed
  <2>3. QED
    BY <2>1, <2>2, RelayedStays
<1>3. HandsRelayed'
  BY <1>2 DEF HandsRelayed, Goroutines, Pipes
<1>4. ASSUME NEW o \in Ops, NEW k \in 1..Len(outcome[o]), outcome[o][k] = "success"
      PROVE  Relayed(o)'
  <2>1. outcome[o] \in Seq(Outcomes) /\ outcome[o] # <<>>
    BY <1>1
  <2>2. o \in ToSet(order) /\ Relayed(o)
    BY <1>1, <1>4, <2>1 DEF RelayInv, OutcomesRelayed
  <2>3. QED
    BY <2>2, RelayedStays
<1>5. OutcomesRelayed'
  BY <1>4 DEF OutcomesRelayed, Ops, ClientOps, ServerOps
<1>6. QED
  BY <1>3, <1>5

\* The answers of the line that are still to be observed stay known.
LEMMA AnswersAfter ==
    ASSUME Full, AnswersKnown, Stable,
           todo'["server"] = todo["server"] \/ (todo["server"] # <<>> /\ todo'["server"] = Tail(todo["server"]))
    PROVE  AnswersKnown'
<1>1. \A q \in answered : q \in answered' /\ opId'[q] = opId[q]
  <2>1. answered \subseteq forwarded /\ answered \subseteq Ops /\ answered \subseteq ToSet(order)
    BY Sides DEF Full, StdioTypeOK, WireInv
  <2>2. QED
    BY <2>1 DEF Stable
<1>2. PICK l : l = todo["server"]
  OBVIOUS
<1>3. l \in Seq(Messages) /\ Len(l) \in Nat
  BY <1>2, Places4 DEF Full, StdioTypeOK
<1>4. \A k \in 1..Len(todo'["server"]) : \E j \in 1..Len(l) : todo'["server"][k] = l[j]
  <2>1. CASE todo'["server"] = l
    BY <2>1
  <2>2. CASE l # <<>> /\ todo'["server"] = Tail(l)
    <3>1. Len(Tail(l)) = Len(l) - 1 /\ \A k \in 1..Len(Tail(l)) : k + 1 \in 1..Len(l) /\ Tail(l)[k] = l[k + 1]
      BY <1>3, <2>2
    <3>2. QED
      BY <2>2, <3>1
  <2>3. QED
    BY <1>2, <2>1, <2>2
<1>5. \A j \in 1..Len(l) : l[j].kind = "response" => \E o \in answered : opId[o] = l[j].id
  BY <1>2 DEF AnswersKnown
<1>6. SUFFICES ASSUME NEW k \in 1..Len(todo'["server"]), todo'["server"][k].kind = "response"
               PROVE  \E o \in answered' : opId'[o] = todo'["server"][k].id
  BY DEF AnswersKnown
<1>7. PICK j \in 1..Len(l) : todo'["server"][k] = l[j]
  BY <1>4
<1>8. PICK q \in answered : opId[q] = l[j].id
  BY <1>5, <1>6, <1>7
<1>9. QED
  BY <1>1, <1>7, <1>8

\* An operation of its side is accepted; a success it receives at once is that of
\* a notification, or of something the server started.
LEMMA StartRelay ==
    ASSUME ~Reuse, Full, RelayInv, NEW g \in Pipes,
           NEW side, side = IF g = "client" THEN ClientOps ELSE ServerOps,
           NEW l, l = todo[g], l # <<>>, NEW m, m = Head(l), m.kind # "response",
           NEW o, o = NextOp(side), Accept(o, m.id),
           UNCHANGED <<outcome, answered>>,
           \/ UNCHANGED hand
           \/ \E c \in Outcomes : Take(g, {o}, c) /\ (c = "success" => g = "server" \/ m.kind = "notification"),
           todo'["server"] = todo["server"] \/ (todo["server"] # <<>> /\ todo'["server"] = Tail(todo["server"]))
    PROVE  RelayInv'
<1>1. /\ StdioTypeOK /\ Lines /\ todo \in [Pipes -> Seq(Messages)]
      /\ hand \in [Goroutines -> SUBSET (Ops \X Outcomes)]
  BY DEF Full, StdioTypeOK
<1>2. IsFiniteSet(side) /\ side \subseteq Ops /\ LineInv(l, side) /\ l \in Seq(Messages)
  BY <1>1, Sides DEF Lines, Pipes
<1>3. /\ o \in side /\ o \notin ToSet(order) /\ m \in Messages
      /\ ToSet(order') = ToSet(order) \cup {o} /\ opId'[o] = m.id
      /\ \A p \in Ops \ {o} : opId'[p] = opId[p]
      /\ Reuse \/ m.id = NoId \/ \A p \in side : p \in ToSet(order) => opId[p] # m.id
  <2>1. Accepted(side, l, m, o)
    BY <1>1, <1>2, AcceptFacts
  <2>2. QED
    BY <2>1, Zenon DEF Accepted
<1>4. Stable
  BY <1>3 DEF Stable
<1>5. AnswersKnown'
  BY <1>4, AnswersAfter DEF RelayInv
<1>6. UniqueIds'
  <2>1. SUFFICES ASSUME NEW p \in ClientOps, NEW q \in ClientOps, p \in ToSet(order'), q \in ToSet(order'),
                        opId'[p] = opId'[q], opId'[p] # NoId
                 PROVE  p = q
    BY DEF UniqueIds, ClientOps
  <2>2. p \in Ops /\ q \in Ops
    BY DEF Ops
  <2>3. CASE p # o /\ q # o
    BY <1>3, <2>1, <2>2, <2>3 DEF RelayInv, UniqueIds
  <2>4. CASE p = o \/ q = o
    <3>1. side = ClientOps
      BY <1>3, <2>4, Sides
    <3>2. \A r \in ClientOps : r \in ToSet(order) => opId[r] # m.id \/ m.id = NoId
      BY <1>3, <3>1
    <3>3. QED
      BY <1>3, <2>1, <2>2, <2>4, <3>2
  <2>5. QED
    BY <2>3, <2>4
<1>7. \A f \in Goroutines : \A call \in hand'[f] :
        call \in hand[f] \/ (call[2] = "success" => Relayed(call[1])')
  <2>1. CASE UNCHANGED hand
    BY <2>1
  <2>2. ASSUME NEW c \in Outcomes, Take(g, {o}, c), c = "success" => g = "server" \/ m.kind = "notification"
        PROVE  \A f \in Goroutines : \A call \in hand'[f] :
                  call \in hand[f] \/ (call[2] = "success" => Relayed(call[1])')
    <3>1. \A f \in Goroutines : \A call \in hand'[f] : call \in hand[f] \/ (call[1] = o /\ call[2] = c)
      BY <1>1, <2>2 DEF Take
    <3>2. c = "success" => Relayed(o)'
      <4>1. m.kind = "notification" => opId'[o] = NoId
        BY <1>3 DEF Messages
      <4>2. g = "server" => o \notin ClientOps
        BY <1>3, Sides
      <4>3. QED
        BY <2>2, <4>1, <4>2 DEF Relayed, ClientOps
    <3>3. QED
      BY <3>1, <3>2
  <2>3. QED
    BY <2>1, <2>2
<1>8. QED
  BY <1>4, <1>5, <1>6, <1>7, RelayAfter DEF RelayInv

\* A response takes the call it answers.
LEMMA AnswerRelay ==
    ASSUME Full, RelayInv, UNCHANGED <<opVars, answered>>,
           \/ /\ todo["server"] # <<>> /\ Head(todo["server"]).kind = "response"
              /\ takeClient(Head(todo["server"]).id)
              /\ todo'["server"] = Tail(todo["server"])
           \/ todo'["server"] = todo["server"] /\ \E id : takeServer(id)
    PROVE  RelayInv'
<1>1. /\ hand \in [Goroutines -> SUBSET (Ops \X Outcomes)] /\ todo["server"] \in Seq(Messages)
      /\ MapInv(clientPending, ClientOps) /\ MapInv(serverPending, ServerOps)
  BY Places4 DEF Full, StdioTypeOK, Books
<1>2. order' = order /\ opId' = opId /\ outcome' = outcome /\ answered' = answered
  BY DEF opVars
<1>3. Stable /\ UniqueIds'
  BY <1>2 DEF Stable, RelayInv, UniqueIds, ClientOps
<1>4. AnswersKnown'
  BY <1>3, AnswersAfter DEF RelayInv
<1>5. \A f \in Goroutines : \A call \in hand'[f] : call \in hand[f] \/ Relayed(call[1])'
  <2>1. ASSUME NEW o, NEW c, NEW g \in Goroutines, Take(g, {o}, c), Relayed(o)
        PROVE  \A f \in Goroutines : \A call \in hand'[f] : call \in hand[f] \/ Relayed(call[1])'
    <3>1. Relayed(o)'
      BY <1>2, <2>1 DEF Relayed, ClientOps
    <3>2. \A f \in Goroutines : \A call \in hand'[f] : call \in hand[f] \/ call[1] = o
      BY <1>1, <2>1 DEF Take
    <3>3. QED
      BY <3>1, <3>2
  <2>2. CASE UNCHANGED hand
    BY <2>2
  <2>3. ASSUME NEW id, takeServer(id), id \in DOMAIN serverPending
        PROVE  \E c : Take("client", {serverPending[id]}, c) /\ Relayed(serverPending[id])
    <3>1. serverPending[id] \notin ClientOps
      BY <1>1, <2>3, Sides DEF MapInv
    <3>2. QED
      BY <2>3, <3>1 DEF takeServer, Relayed
  <2>4. ASSUME NEW m, m = Head(todo["server"]), todo["server"] # <<>>, m.kind = "response",
               takeClient(m.id), m.id \in DOMAIN clientPending
        PROVE  \E c : Take("server", {clientPending[m.id]}, c) /\ Relayed(clientPending[m.id])
    <3>1. 1 \in 1..Len(todo["server"]) /\ todo["server"][1] = m
      BY <1>1, <2>4
    <3>2. PICK q \in answered : opId[q] = m.id
      BY <2>4, <3>1 DEF RelayInv, AnswersKnown
    <3>3. q \in ClientOps /\ q \in ToSet(order) /\ opId[q] # NoId
      BY DEF Full, StdioTypeOK, WireInv
    <3>4. /\ clientPending[m.id] \in ClientOps /\ clientPending[m.id] \in ToSet(order)
          /\ opId[clientPending[m.id]] = m.id
      BY <1>1, <2>4 DEF MapInv
    <3>5. clientPending[m.id] = q
      BY <3>2, <3>3, <3>4 DEF RelayInv, UniqueIds
    <3>6. QED
      BY <2>4, <3>2, <3>5 DEF takeClient, Relayed
  <2>5. CASE \E id : takeServer(id)
    BY <2>1, <2>2, <2>3, <2>5, Places4 DEF takeServer
  <2>6. CASE /\ todo["server"] # <<>> /\ Head(todo["server"]).kind = "response"
             /\ takeClient(Head(todo["server"]).id)
    BY <2>1, <2>2, <2>4, <2>6, Places4 DEF takeClient
  <2>7. QED
    BY <2>5, <2>6
<1>6. QED
  BY <1>2, <1>3, <1>4, <1>5, RelayAfter DEF RelayInv

LEMMA ObserveServerRelay ==
    ASSUME ~Reuse, Full, RelayInv, ObserveServer
    PROVE  RelayInv'
<1>1. PICK m, o : m = Head(todo["server"]) /\ o = NextOp(ServerOps)
  OBVIOUS
<1>2. todo["server"] # <<>> /\ todo'["server"] = Tail(todo["server"]) /\ UNCHANGED <<outcome, answered>>
  BY Places4 DEF ObserveServer, wireVars, Full, StdioTypeOK
<1>3. CASE m.kind = "response"
  <2>1. takeClient(m.id) /\ UNCHANGED opVars
    BY <1>1, <1>2, <1>3 DEF ObserveServer, opVars
  <2>2. QED
    BY <1>1, <1>2, <1>3, <2>1, AnswerRelay
<1>4. CASE m.kind # "response"
  <2>1. /\ Accept(o, m.id)
        /\ UNCHANGED hand \/ Take("server", {o}, "success")
    BY <1>1, <1>4 DEF ObserveServer
  <2>2. "success" \in Outcomes
    BY DEF Outcomes
  <2>3. QED
    BY <1>1, <1>2, <1>4, <2>1, <2>2, StartRelay, Places4
<1>5. QED
  BY <1>3, <1>4

LEMMA ObserveClientRelay ==
    ASSUME ~Reuse, Full, RelayInv, ObserveClient
    PROVE  RelayInv'
<1>1. PICK m, o : m = Head(todo["client"]) /\ o = NextOp(ClientOps)
  OBVIOUS
<1>2. /\ todo["client"] # <<>> /\ UNCHANGED <<outcome, answered>>
      /\ todo["client"] \in Seq(Messages) /\ todo'["server"] = todo["server"]
  BY Places4 DEF ObserveClient, wireVars, Full, StdioTypeOK
<1>3. CASE m.kind = "response"
  <2>1. takeServer(m.id) /\ UNCHANGED opVars
    BY <1>1, <1>2, <1>3 DEF ObserveClient, opVars
  <2>2. QED
    BY <1>2, <2>1, AnswerRelay
<1>4. CASE m.kind # "response"
  <2>1. m \in Messages
    BY <1>1, <1>2, StartsTail
  <2>2. /\ Accept(o, m.id)
        /\ \/ UNCHANGED hand
           \/ m.kind = "notification" /\ Take("client", {o}, "success")
           \/ m.verdict # "allow" /\ Take("client", {o}, m.verdict)
    BY <1>1, <1>4 DEF ObserveClient
  <2>3. "success" \in Outcomes /\ (m.verdict # "allow" => m.verdict \in Outcomes /\ m.verdict # "success")
    BY <2>1 DEF Messages, Outcomes
  <2>4. \/ UNCHANGED hand
        \/ \E c \in Outcomes : Take("client", {o}, c) /\ (c = "success" => m.kind = "notification")
    BY <2>2, <2>3
  <2>5. QED
    BY <1>1, <1>2, <1>4, <2>2, <2>4, StartRelay, Places4
<1>5. QED
  BY <1>3, <1>4

LEMMA RelayInit == Init => RelayInv
<1> SUFFICES ASSUME Init PROVE RelayInv
  OBVIOUS
<1>1. order = <<>> /\ todo["server"] = <<>> /\ \A g \in Goroutines : hand[g] = {}
  BY Places4 DEF Init
<1>2. \A o \in Ops : outcome[o] = <<>>
  BY DEF Init
<1>3. QED
  BY <1>1, <1>2 DEF RelayInv, UniqueIds, AnswersKnown, HandsRelayed, OutcomesRelayed, ToSet

LEMMA RelayNext ==
    ASSUME ~Reuse
    PROVE  Full /\ RelayInv /\ [Next]_vars => RelayInv'
<1> SUFFICES ASSUME Full, RelayInv, [Next]_vars PROVE RelayInv'
  OBVIOUS
<1>1. \/ \E g \in Goroutines : Record(g)
      \/ ServerScan \/ ObserveServer \/ ObserveClient \/ QuietStep
  BY DEF Next, ClientStep, ServerStep, QuietStep
<1>2. QED
  BY <1>1, RecordRelay, ScanRelay, ObserveServerRelay, ObserveClientRelay, QuietRelay

\* When ids are not used again, a request of the client is a success in the audit
\* trail only if the response to that very request was written to the client,
\* however late it is and whatever the other goroutines took meanwhile.
THEOREM StdioSuccessWasRelayed ==
    ASSUME ~Reuse
    PROVE  SafetySpec => []SuccessWasRelayed
<1>1. Full /\ RelayInv => SuccessWasRelayed
  <2>1. SUFFICES ASSUME Full, RelayInv, NEW o \in ClientOps, opId[o] # NoId, "success" \in ToSet(outcome[o])
                 PROVE  o \in answered
    BY DEF SuccessWasRelayed
  <2>2. o \in Ops /\ outcome[o] \in Seq(Outcomes)
    BY <2>1, Sides DEF Full, StdioTypeOK
  <2>3. PICK k \in 1..Len(outcome[o]) : outcome[o][k] = "success"
    BY <2>1, <2>2 DEF ToSet
  <2>4. QED
    BY <2>1, <2>2, <2>3 DEF RelayInv, OutcomesRelayed, Relayed
<1>2. QED
  BY <1>1, RelayInit, RelayNext, StdioFull, PTL DEF SafetySpec
=============================================================================
