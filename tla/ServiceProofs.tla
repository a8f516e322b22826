---------------------------- MODULE ServiceProofs ---------------------------
(***************************************************************************)
(* Machine-checked proofs about Service and its OTelExporter, for every    *)
(* sequence of launch configurations, every set of entries, all sizes of   *)
(* the channel and of a batch, and every set of collector responses.       *)
(***************************************************************************)
EXTENDS Service, TLAPS, SequenceTheorems, FiniteSetTheorems

-----------------------------------------------------------------------------
(* Sequences without duplicates.                                           *)

\* What is in a sequence that was extended.
LEMMA AppendElements ==
    ASSUME NEW S, NEW s \in Seq(S), NEW e \in S, IsInjective(s), e \notin ToSet(s)
    PROVE  /\ Append(s, e) \in Seq(S)
           /\ Len(Append(s, e)) = Len(s) + 1
           /\ ToSet(Append(s, e)) = ToSet(s) \cup {e}
           /\ IsInjective(Append(s, e))
<1>1. /\ Append(s, e) \in Seq(S)
      /\ Len(s) \in Nat /\ Len(Append(s, e)) = Len(s) + 1
      /\ DOMAIN s = 1..Len(s) /\ DOMAIN Append(s, e) = 1..Len(s) + 1
      /\ \A i \in 1..Len(s) : Append(s, e)[i] = s[i]
      /\ Append(s, e)[Len(s) + 1] = e
  BY AppendProperties, LenProperties
<1>2. \A i \in 1..Len(s) + 1 : i \in 1..Len(s) \/ i = Len(s) + 1
  BY <1>1
<1>3. ToSet(Append(s, e)) = ToSet(s) \cup {e}
  BY <1>1, <1>2 DEF ToSet
<1>4. IsInjective(Append(s, e))
  BY <1>1, <1>2 DEF ToSet, IsInjective
<1>5. QED
  BY <1>1, <1>3, <1>4

\* What is in a sequence that lost its head.
LEMMA TailElements ==
    ASSUME NEW S, NEW s \in Seq(S), s # <<>>, IsInjective(s)
    PROVE  /\ Head(s) \in S /\ Tail(s) \in Seq(S)
           /\ Len(Tail(s)) = Len(s) - 1 /\ Len(s) \in Nat
           /\ ToSet(s) = ToSet(Tail(s)) \cup {Head(s)}
           /\ Head(s) \notin ToSet(Tail(s))
           /\ IsInjective(Tail(s))
<1>1. /\ Head(s) \in S /\ Tail(s) \in Seq(S) /\ Head(s) = s[1]
      /\ Len(s) \in Nat /\ Len(s) > 0 /\ Len(Tail(s)) = Len(s) - 1
      /\ DOMAIN s = 1..Len(s) /\ DOMAIN Tail(s) = 1..Len(s) - 1
      /\ \A i \in 1..Len(s) - 1 : Tail(s)[i] = s[i + 1]
  BY HeadTailProperties, EmptySeq, LenProperties
<1>2. \A i \in 1..Len(s) : i = 1 \/ (i - 1 \in 1..Len(s) - 1 /\ i = (i - 1) + 1)
  BY <1>1
<1>3. \A i \in 1..Len(s) - 1 : i + 1 \in 1..Len(s) /\ i + 1 # 1
  BY <1>1
<1>4. ToSet(s) = ToSet(Tail(s)) \cup {Head(s)}
  <2>1. ASSUME NEW x \in ToSet(s) PROVE x \in ToSet(Tail(s)) \cup {Head(s)}
    <3>1. PICK i \in 1..Len(s) : x = s[i]
      BY <1>1, <2>1 DEF ToSet
    <3>2. CASE i = 1
      BY <1>1, <3>1, <3>2
    <3>3. CASE i # 1
      <4>1. i - 1 \in DOMAIN Tail(s) /\ Tail(s)[i - 1] = x
        BY <1>1, <1>2, <3>1, <3>3
      <4>2. QED
        BY <4>1 DEF ToSet
    <3>4. QED
      BY <3>2, <3>3
  <2>2. ASSUME NEW x \in ToSet(Tail(s)) \cup {Head(s)} PROVE x \in ToSet(s)
    BY <1>1, <1>3, <2>2 DEF ToSet
  <2>3. QED
    BY <2>1, <2>2
<1>5. Head(s) \notin ToSet(Tail(s))
  BY <1>1, <1>3 DEF ToSet, IsInjective
<1>6. IsInjective(Tail(s))
  BY <1>1, <1>3 DEF IsInjective
<1>7. QED
  BY <1>1, <1>4, <1>5, <1>6

\* The empty sequence holds nothing.
LEMMA EmptyElements ==
    /\ ToSet(<<>>) = {} /\ IsInjective(<<>>) /\ Len(<<>>) = 0
    /\ \A S : <<>> \in Seq(S)
BY DEF ToSet, IsInjective

-----------------------------------------------------------------------------
(* The exporter.                                                           *)

\* What the exporter guarantees on its own.
ExporterInv ==
    /\ ExporterTypeOK /\ SpansAccounted /\ NoSendOnClosed
    /\ wpc = "done" => closed

\* The first components of what is dropped.
LEMMA LostPairs ==
    ASSUME NEW B, NEW r
    PROVE  {d[1] : d \in B \X {r}} = B
<1>1. ASSUME NEW x \in B PROVE x \in {d[1] : d \in B \X {r}}
  <2>1. <<x, r>> \in B \X {r} /\ <<x, r>>[1] = x
    BY <1>1
  <2>2. QED
    BY <2>1
<1>2. {d[1] : d \in B \X {r}} \subseteq B
  OBVIOUS
<1>3. QED
  BY <1>1, <1>2

\* More is dropped.
LEMMA FirstsUnion ==
    ASSUME NEW A, NEW B
    PROVE  {d[1] : d \in A \cup B} = {d[1] : d \in A} \cup {d[1] : d \in B}
OBVIOUS

LEMMA LostGrows ==
    ASSUME NEW D, dropped' = dropped \cup D
    PROVE  Lost' = Lost \cup {d[1] : d \in D}
BY DEF Lost

\* An entry that is new to the exporter is offered: it is taken or counted.
LEMMA SendStep ==
    ASSUME ExporterInv, NEW e \in Entries, e \notin accepted \cup Lost, ExportSend(e)
    PROVE  ExporterInv' /\ (accepted \cup Lost)' = accepted \cup Lost \cup {e}
<1> USE DEF ExporterInv
<1>0. /\ QueueSize \in Nat /\ Len(entries) \in Nat /\ entries \in Seq(Entries)
      /\ e \notin ToSet(entries) /\ e \notin ToSet(batch) /\ e \notin exported
      /\ ~closed /\ wpc # "done"
  BY ExporterAssumption, LenProperties DEF ExportSend, ExporterTypeOK, SpansAccounted, NoSendOnClosed
<1>1. CASE Len(entries) < QueueSize
  <2>1. /\ entries' = Append(entries, e) /\ accepted' = accepted \cup {e}
        /\ exporting' = exporting \ {e}
        /\ UNCHANGED <<dropped, closed, wpc, batch, attempt, exported, received>>
    BY <1>1 DEF ExportSend, workerVars
  <2>2. /\ entries' \in Seq(Entries) /\ Len(entries') = Len(entries) + 1
        /\ ToSet(entries') = ToSet(entries) \cup {e} /\ IsInjective(entries')
    BY <1>0, <2>1, AppendElements DEF SpansAccounted
  <2>3. ExporterTypeOK'
    BY <1>0, <1>1, <2>1, <2>2 DEF ExporterTypeOK
  <2>4. Lost' = Lost
    BY <2>1 DEF Lost
  <2>5. SpansAccounted'
    BY <1>0, <2>1, <2>2, <2>4 DEF SpansAccounted
  <2>6. QED
    BY <1>0, <2>1, <2>3, <2>4, <2>5 DEF NoSendOnClosed
<1>2. CASE ~(Len(entries) < QueueSize)
  <2>1. /\ dropped' = dropped \cup {<<e, "queue_full">>}
        /\ exporting' = exporting \ {e}
        /\ UNCHANGED <<entries, accepted, closed, wpc, batch, attempt, exported, received>>
    BY <1>2 DEF ExportSend, workerVars
  <2>2. ExporterTypeOK'
    BY <2>1 DEF ExporterTypeOK
  <2>3. Lost' = Lost \cup {e}
    <3>1. {d[1] : d \in {<<e, "queue_full">>}} = {e}
      OBVIOUS
    <3>2. QED
      BY <2>1, <3>1, LostGrows
  <2>4. \A d \in Entries : <<d, "queue_full">> \in dropped'
                         <=> <<d, "queue_full">> \in dropped \/ d = e
    BY <2>1
  <2>5. \A d, x \in dropped' : d[1] = x[1] => d = x
    <3>1. \A d \in dropped : d[1] # e
      BY DEF Lost
    <3>2. QED
      BY <2>1, <3>1 DEF SpansAccounted
  <2>6. SpansAccounted'
    BY <1>0, <2>1, <2>3, <2>4, <2>5 DEF SpansAccounted
  <2>7. QED
    BY <1>0, <2>1, <2>2, <2>3, <2>6 DEF NoSendOnClosed
<1>3. QED
  BY <1>1, <1>2

\* The worker's batch is counted as dropped: every entry of it, once.
LEMMA BatchDropped ==
    ASSUME ExporterInv, NEW r \in {"encode_error", "error", "permanent_error"},
           dropped' = dropped \cup (ToSet(batch) \X {r}), FlushEnds,
           UNCHANGED <<entries, closed, exporting, accepted, exported>>,
           received \subseteq received', received' \subseteq Entries,
           wpc # "done"
    PROVE  ExporterInv' /\ Lost' = Lost \cup ToSet(batch)
<1> USE DEF ExporterInv
<1>1. batch' = <<>> /\ wpc' = "select" /\ attempt' = 0
  BY DEF FlushEnds
<1>2. ToSet(batch) \subseteq Entries
  BY DEF ToSet, ExporterTypeOK
<1>3. ExporterTypeOK'
  BY <1>1, <1>2, EmptyElements, ExporterAssumption DEF ExporterTypeOK
<1>4. Lost' = Lost \cup ToSet(batch)
  <2>1. Lost' = Lost \cup {d[1] : d \in ToSet(batch) \X {r}}
    BY LostGrows, Zenon
  <2>2. {d[1] : d \in ToSet(batch) \X {r}} = ToSet(batch)
    BY LostPairs, Zenon
  <2>3. QED
    BY <2>1, <2>2
<1>5. \A e : <<e, "queue_full">> \in dropped' <=> <<e, "queue_full">> \in dropped
  OBVIOUS
<1>6. \A e \in ToSet(batch) : <<e, "queue_full">> \notin dropped
  <2>1. \A e : <<e, "queue_full">> \in dropped => e \in Lost
    <3>1. \A e : <<e, "queue_full">>[1] = e
      OBVIOUS
    <3>2. QED
      BY <3>1 DEF Lost
  <2>2. QED
    BY <2>1 DEF SpansAccounted
<1>7. \A d, x \in dropped' : d[1] = x[1] => d = x
  <2>1. \A d \in dropped : d[1] \notin ToSet(batch)
    BY DEF SpansAccounted, Lost
  <2>2. QED
    BY <2>1 DEF SpansAccounted
<1>8. SpansAccounted'
  BY <1>1, <1>4, <1>5, <1>6, <1>7, EmptyElements DEF SpansAccounted
<1>9. QED
  BY <1>1, <1>3, <1>4, <1>8 DEF NoSendOnClosed

\* Whatever a rejected POST leads to.
LEMMA PostFailedStep ==
    ASSUME ExporterInv, wpc = "post", NEW status, NEW err, PostFailed(status, err),
           UNCHANGED <<entries, closed, exporting, accepted, exported>>,
           received \subseteq received', received' \subseteq Entries
    PROVE  /\ ExporterInv'
           /\ Lost' = Lost \/ Lost' = Lost \cup ToSet(batch)
<1> DEFINE p == [statuses |-> {s \in Responses : ShouldRetry(s)}]
           giveUp == ~IsRetryable(p, status, err) \/ attempt = MaxRetries
<1>1. CASE giveUp
  <2>1. PICK r \in {"error", "permanent_error"} :
            dropped' = dropped \cup (ToSet(batch) \X {r}) /\ FlushEnds
    BY <1>1, Zenon DEF PostFailed
  <2>2. QED
    BY <2>1, BatchDropped
<1>2. CASE ~giveUp
  <2>1. /\ wpc' = "sleep" /\ attempt' = attempt + 1 /\ attempt # MaxRetries
        /\ UNCHANGED <<batch, dropped>>
    BY <1>2 DEF PostFailed
  <2>2. Lost' = Lost
    BY <2>1 DEF Lost
  <2>3. ExporterTypeOK'
    BY <2>1, ExporterAssumption DEF ExporterTypeOK, ExporterInv
  <2>4. SpansAccounted'
    BY <2>1, <2>2 DEF SpansAccounted, ExporterInv
  <2>5. QED
    BY <2>1, <2>2, <2>3, <2>4 DEF ExporterInv, NoSendOnClosed
<1>3. QED
  BY <1>1, <1>2

\* The worker moves entries along, and never one twice.
LEMMA WorkerStepInv ==
    ASSUME ExporterInv, WorkerStep
    PROVE  /\ ExporterInv'
           /\ UNCHANGED <<accepted, closed, exporting>>
           /\ wpc # "done"
           /\ (accepted \cup Lost)' = accepted \cup Lost
<1> USE DEF ExporterInv
<1>0. /\ QueueSize \in Nat /\ BatchSize \in Nat /\ BatchSize > 0 /\ MaxRetries \in Nat
      /\ Len(entries) \in Nat /\ Len(batch) \in Nat
      /\ ToSet(batch) \subseteq accepted
  BY ExporterAssumption, LenProperties DEF ExporterTypeOK, SpansAccounted
<1>1. CASE RunReceive
  <2>1. /\ wpc = "select" /\ entries # <<>> /\ entries' = Tail(entries)
        /\ batch' = Append(batch, Head(entries)) /\ wpc' \in {"select", "encode"}
        /\ wpc' = "select" => Len(batch') < BatchSize
        /\ UNCHANGED <<closed, exporting, attempt, accepted, exported, dropped, received>>
    <3>1. Len(batch') \in Nat
      BY <1>1, TailElements, LenProperties, AppendProperties DEF RunReceive, ExporterTypeOK, SpansAccounted
    <3>2. QED
      BY <1>0, <1>1, <3>1 DEF RunReceive
  <2>2. /\ Head(entries) \in Entries /\ Tail(entries) \in Seq(Entries)
        /\ Len(Tail(entries)) = Len(entries) - 1
        /\ ToSet(entries) = ToSet(Tail(entries)) \cup {Head(entries)}
        /\ Head(entries) \notin ToSet(Tail(entries))
        /\ IsInjective(Tail(entries))
    BY <2>1, TailElements DEF ExporterTypeOK, SpansAccounted
  <2>3. Head(entries) \notin ToSet(batch)
    BY <2>2 DEF SpansAccounted
  <2>4. /\ batch' \in Seq(Entries) /\ Len(batch') = Len(batch) + 1
        /\ ToSet(batch') = ToSet(batch) \cup {Head(entries)} /\ IsInjective(batch')
    BY <2>1, <2>2, <2>3, AppendElements DEF ExporterTypeOK, SpansAccounted
  <2>5. ExporterTypeOK'
    BY <1>0, <2>1, <2>2, <2>4 DEF ExporterTypeOK
  <2>6. Lost' = Lost
    BY <2>1 DEF Lost
  <2>7. SpansAccounted'
    BY <2>1, <2>2, <2>4, <2>6 DEF SpansAccounted
  <2>8. QED
    BY <2>1, <2>5, <2>6, <2>7 DEF NoSendOnClosed
<1>2. CASE RunTick \/ RunClosed \/ SleepEnds
  <2>1. /\ wpc # "done" /\ wpc' \in {"encode", "post", "done"}
        /\ wpc' = "done" => closed /\ entries = <<>> /\ batch = <<>>
        /\ UNCHANGED <<entries, closed, exporting, batch, attempt, accepted, exported, dropped, received>>
    BY <1>2 DEF RunTick, RunClosed, SleepEnds
  <2>2. Lost' = Lost
    BY <2>1 DEF Lost
  <2>3. ExporterTypeOK'
    BY <2>1 DEF ExporterTypeOK
  <2>4. SpansAccounted'
    BY <2>1, <2>2 DEF SpansAccounted
  <2>5. QED
    BY <2>1, <2>2, <2>3, <2>4 DEF NoSendOnClosed
<1>3. CASE FlushEncode
  <2>1. wpc = "encode" /\ UNCHANGED <<entries, closed, exporting, accepted, exported, received>>
    BY <1>3 DEF FlushEncode
  <2>2. CASE wpc' = "post" /\ UNCHANGED <<batch, attempt, dropped>>
    <3>1. Lost' = Lost
      BY <2>2 DEF Lost
    <3>2. ExporterTypeOK'
      BY <2>1, <2>2 DEF ExporterTypeOK
    <3>3. SpansAccounted'
      BY <2>1, <2>2, <3>1 DEF SpansAccounted
    <3>4. QED
      BY <2>1, <2>2, <3>1, <3>2, <3>3 DEF NoSendOnClosed
  <2>3. CASE dropped' = dropped \cup (ToSet(batch) \X {"encode_error"}) /\ FlushEnds
    <3>1. ExporterInv' /\ Lost' = Lost \cup ToSet(batch)
      BY <2>1, <2>3, BatchDropped DEF ExporterTypeOK
    <3>2. QED
      BY <1>0, <2>1, <3>1
  <2>4. QED
    BY <1>3, <2>2, <2>3 DEF FlushEncode
<1>4. CASE ExportPayload
  <2>1. wpc = "post" /\ UNCHANGED <<entries, closed, exporting, accepted>>
    BY <1>4 DEF ExportPayload
  <2>2. ToSet(batch) \subseteq Entries /\ received \subseteq Entries
    BY DEF ToSet, ExporterTypeOK
  <2>3. CASE /\ exported' = exported \cup ToSet(batch)
             /\ received' = received \cup ToSet(batch)
             /\ FlushEnds
             /\ UNCHANGED dropped
    <3>1. batch' = <<>> /\ wpc' = "select" /\ attempt' = 0
      BY <2>3 DEF FlushEnds
    <3>2. Lost' = Lost
      BY <2>3 DEF Lost
    <3>3. ExporterTypeOK'
      BY <1>0, <2>1, <2>2, <2>3, <3>1, EmptyElements DEF ExporterTypeOK
    <3>4. SpansAccounted'
      BY <2>1, <2>3, <3>1, <3>2, EmptyElements DEF SpansAccounted
    <3>5. QED
      BY <2>1, <3>1, <3>2, <3>3, <3>4 DEF NoSendOnClosed
  <2>4. CASE \/ /\ \E status \in Responses : PostFailed(status, FALSE)
                /\ UNCHANGED <<exported, received>>
             \/ /\ PostFailed(0, TRUE)
                /\ received' \in {received, received \cup ToSet(batch)}
                /\ UNCHANGED exported
    <3>1. received \subseteq received' /\ received' \subseteq Entries /\ UNCHANGED exported
      BY <2>2, <2>4
    <3>2. PICK status, err : PostFailed(status, err)
      BY <2>4
    <3>3. ExporterInv' /\ (Lost' = Lost \/ Lost' = Lost \cup ToSet(batch))
      BY <2>1, <3>1, <3>2, PostFailedStep
    <3>4. QED
      BY <1>0, <2>1, <3>3
  <2>5. QED
    BY <1>4, <2>3, <2>4 DEF ExportPayload
<1>5. QED
  BY <1>1, <1>2, <1>3, <1>4 DEF WorkerStep

-----------------------------------------------------------------------------
(* The process.                                                            *)

\* The exporter's part of the invariant.
LEMMA ServiceExporter == ServiceInv => ExporterInv
BY DEF ServiceInv, ServiceTypeOK, MainInv, ExporterInv

\* The background servers are counted.
LEMMA ServersFinite ==
    ASSUME NEW S, S \subseteq {"dashboard", "metrics"}
    PROVE  /\ IsFiniteSet(S) /\ Cardinality(S) \in 0..2
           /\ \A s \in S : Cardinality(S \ {s}) = Cardinality(S) - 1
<1>1. IsFiniteSet({"dashboard", "metrics"}) /\ Cardinality({"dashboard", "metrics"}) = 2
  <2>1. {"dashboard", "metrics"} = {"dashboard"} \cup {"metrics"} /\ "metrics" \notin {"dashboard"}
    OBVIOUS
  <2>2. IsFiniteSet({"dashboard"}) /\ Cardinality({"dashboard"}) = 1
    BY FS_Singleton
  <2>3. /\ IsFiniteSet({"dashboard"} \cup {"metrics"})
        /\ Cardinality({"dashboard"} \cup {"metrics"}) = 1 + 1
    BY <2>1, <2>2, FS_AddElement, Zenon
  <2>4. QED
    BY <2>1, <2>3
<1>2. IsFiniteSet(S) /\ Cardinality(S) <= 2 /\ Cardinality(S) \in Nat
  BY <1>1, FS_Subset, FS_CardinalityType
<1>3. QED
  BY <1>2, FS_RemoveElement

LEMMA ServiceInit == Init => ServiceInv
<1> SUFFICES ASSUME Init PROVE ServiceInv
  OBVIOUS
<1> USE ExporterAssumption DEF Init, ExporterInit
<1>1. Lost = {}
  BY DEF Lost
<1>2. ExporterTypeOK /\ SpansAccounted /\ NoSendOnClosed
  <2>1. ExporterTypeOK
    <3>1. entries \in Seq(Entries) /\ Len(entries) = 0 /\ batch \in Seq(Entries) /\ Len(batch) = 0
      BY EmptyElements
    <3>2. attempt \in 0..MaxRetries
      OBVIOUS
    <3>3. /\ exporting \subseteq Entries /\ accepted \subseteq Entries
          /\ exported \subseteq Entries /\ received \subseteq Entries
          /\ dropped \subseteq Entries \X {"queue_full", "encode_error", "error", "permanent_error"}
      OBVIOUS
    <3>4. Len(entries) <= QueueSize /\ Len(batch) < BatchSize /\ Len(batch) <= BatchSize
      BY <3>1
    <3>5. wpc = "select"
      OBVIOUS
    <3>6. closed \in BOOLEAN
      OBVIOUS
    <3>7. QED
      BY ONLY <3>1, <3>2, <3>3, <3>4, <3>5, <3>6 DEF ExporterTypeOK
  <2>2. SpansAccounted
    BY <1>1, EmptyElements DEF SpansAccounted
  <2>3. QED
    BY <2>1, <2>2 DEF NoSendOnClosed
<1>3. Cardinality({}) = 0
  BY FS_EmptySet
<1>4. ServiceTypeOK
  <2>1. errs \in Seq({"nil", "error"}) /\ Len(errs) + Cardinality(servers) = 0
    BY <1>3, EmptyElements
  <2>2. op \in [Entries -> {"new", "running", "export", "send", "done"}]
    OBVIOUS
  <2>3. proxyErr \in BOOLEAN /\ closeErr \in BOOLEAN
    OBVIOUS
  <2>4. QED
    BY <1>2, <2>1, <2>2, <2>3 DEF ServiceTypeOK
<1>5. OpsFollowed
  BY <1>1 DEF OpsFollowed
<1>6. MainInv
  BY DEF MainInv
<1>7. QED
  BY <1>2, <1>4, <1>5, <1>6 DEF ServiceInv

\* A step that leaves the exporter and the operations alone keeps their parts.
LEMMA RestUnchanged ==
    ASSUME ServiceInv, UNCHANGED exporterVars, UNCHANGED <<launch, op, acked>>
    PROVE  /\ ExporterTypeOK' /\ SpansAccounted' /\ NoSendOnClosed'
           /\ OpsFollowed' /\ config' = config
           /\ UNCHANGED <<wpc, closed>>
           /\ (launch \in DOMAIN Launches)'
<1>1. Lost' = Lost /\ config' = config
  BY DEF Lost, config, exporterVars
<1>2. QED
  BY <1>1 DEF ServiceInv, ServiceTypeOK, exporterVars, ExporterTypeOK, SpansAccounted, NoSendOnClosed, OpsFollowed

\* main moves, and the background servers report.
LEMMA MainStepInv ==
    ASSUME ServiceInv,
           \/ LoadConfig \/ Open \/ Start \/ CheckErrors \/ WaitExporter
           \/ Return /\ exit = "none"
           \/ Signal \/ ProxyReturns
           \/ \E s \in servers : ServerEnds(s)
    PROVE  ServiceInv'
<1> USE DEF ServiceInv
<1>1. /\ UNCHANGED exporterVars
      /\ UNCHANGED <<launch, op, acked, queued, stored, closeErr>>
  BY DEF LoadConfig, Open, Start, CheckErrors, WaitExporter, Return, Signal, ProxyReturns, ServerEnds,
         storeVars, exporterVars
<1>2. /\ ExporterTypeOK' /\ SpansAccounted' /\ NoSendOnClosed'
      /\ OpsFollowed' /\ config' = config
      /\ UNCHANGED <<wpc, closed>>
      /\ (launch \in DOMAIN Launches)'
  BY <1>1, RestUnchanged
<1>3. /\ IsFiniteSet(servers) /\ Cardinality(servers) \in 0..2
      /\ Len(errs) \in Nat /\ errs \in Seq({"nil", "error"})
      /\ servers \subseteq {"dashboard", "metrics"}
  BY ServersFinite, LenProperties DEF ServiceTypeOK
<1>4. CASE LoadConfig
  <2>1. ServiceTypeOK'
    BY <1>1, <1>2, <1>3, <1>4 DEF LoadConfig, OsExit, ServiceTypeOK, storeVars
  <2>2. MainInv'
    BY <1>1, <1>2, <1>4 DEF LoadConfig, OsExit, MainInv, ServiceTypeOK, storeVars
  <2>3. QED
    BY <1>2, <2>1, <2>2
<1>5. CASE Open
  <2>1. ServiceTypeOK'
    BY <1>1, <1>2, <1>3, <1>5 DEF Open, OsExit, ServiceTypeOK
  <2>2. MainInv'
    BY <1>1, <1>2, <1>5 DEF Open, OsExit, MainInv, ServiceTypeOK
  <2>3. QED
    BY <1>2, <2>1, <2>2
<1>6. CASE Start
  <2>1. /\ servers' \subseteq {"dashboard", "metrics"} /\ errs' = errs /\ errs = <<>>
        /\ main' \in {"serving", "exited"} /\ exit' \in {exit, "1"}
        /\ UNCHANGED <<ctx, proxyErr, store>>
    BY <1>6 DEF Start, OsExit, MainInv, storeVars
  <2>2. Cardinality(servers') \in 0..2
    BY <2>1, ServersFinite
  <2>3. Len(<<>>) = 0
    OBVIOUS
  <2>4. ServiceTypeOK'
    BY <1>1, <1>2, <1>3, <2>1, <2>2, <2>3 DEF ServiceTypeOK
  <2>5. MainInv'
    BY <1>1, <1>2, <1>6, <2>1 DEF Start, MainInv, ServiceTypeOK
  <2>6. QED
    BY <1>2, <2>4, <2>5
<1>7. CASE CheckErrors
  <2>1. errs' \in Seq({"nil", "error"}) /\ Len(errs') <= Len(errs) /\ Len(errs') \in Nat
    BY <1>3, <1>7, HeadTailProperties, LenProperties DEF CheckErrors
  <2>2. ServiceTypeOK'
    BY <1>1, <1>2, <1>3, <1>7, <2>1 DEF CheckErrors, OsExit, ServiceTypeOK, storeVars
  <2>3. MainInv'
    BY <1>1, <1>2, <1>7 DEF CheckErrors, OsExit, MainInv, ServiceTypeOK, storeVars
  <2>4. QED
    BY <1>2, <2>2, <2>3
<1>8. CASE WaitExporter
  <2>1. ServiceTypeOK'
    BY <1>1, <1>2, <1>3, <1>8 DEF WaitExporter, ServiceTypeOK, storeVars
  <2>2. MainInv'
    BY <1>1, <1>2, <1>8 DEF WaitExporter, MainInv, ServiceTypeOK, storeVars
  <2>3. QED
    BY <1>2, <2>1, <2>2
<1>9. CASE Return /\ exit = "none"
  <2>1. ServiceTypeOK'
    BY <1>1, <1>2, <1>3, <1>9 DEF Return, ServiceTypeOK, storeVars
  <2>2. MainInv'
    BY <1>1, <1>2, <1>9 DEF Return, MainInv, ServiceTypeOK, storeVars
  <2>3. QED
    BY <1>2, <2>1, <2>2
<1>10. CASE Signal
  <2>1. ServiceTypeOK'
    BY <1>1, <1>2, <1>3, <1>10 DEF Signal, ServiceTypeOK, storeVars
  <2>2. MainInv'
    BY <1>1, <1>2, <1>10 DEF Signal, MainInv, ServiceTypeOK, storeVars
  <2>3. QED
    BY <1>2, <2>1, <2>2
<1>11. CASE ProxyReturns
  <2>1. ServiceTypeOK'
    BY <1>1, <1>2, <1>3, <1>11 DEF ProxyReturns, ServiceTypeOK, storeVars
  <2>2. MainInv'
    BY <1>1, <1>2, <1>11 DEF ProxyReturns, MainInv, ServiceTypeOK, storeVars
  <2>3. QED
    BY <1>2, <2>1, <2>2
<1>12. ASSUME NEW s \in servers, ServerEnds(s) PROVE ServiceInv'
  <2>1. PICK r \in {"nil", "error"} : errs' = Append(errs, r)
    BY <1>12 DEF ServerEnds
  <2>2. errs' \in Seq({"nil", "error"}) /\ Len(errs') = Len(errs) + 1
    BY <1>3, <2>1, AppendProperties
  <2>3. /\ servers' \subseteq {"dashboard", "metrics"}
        /\ Cardinality(servers') = Cardinality(servers) - 1
    BY <1>3, <1>12, ServersFinite DEF ServerEnds
  <2>4. ServiceTypeOK'
    BY <1>1, <1>2, <1>3, <1>12, <2>2, <2>3 DEF ServerEnds, ServiceTypeOK, storeVars
  <2>5. MainInv'
    BY <1>1, <1>2, <1>3, <1>12 DEF ServerEnds, MainInv, ServiceTypeOK, storeVars
  <2>6. QED
    BY <1>2, <2>4, <2>5
<1>13. QED
  BY <1>4, <1>5, <1>6, <1>7, <1>8, <1>9, <1>10, <1>11, <1>12

\* A goroutine of the proxy begins, records or offers an operation.
LEMMA OperationStepInv ==
    ASSUME ServiceInv, NEW e \in Entries, Begin(e) \/ Record(e) \/ Export(e)
    PROVE  ServiceInv'
<1> USE DEF ServiceInv
<1>0. op \in [Entries -> {"new", "running", "export", "send", "done"}]
  BY DEF ServiceTypeOK
<1>1. CASE Begin(e)
  <2>1. /\ op' = [op EXCEPT ![e] = "running"] /\ op[e] = "new"
        /\ UNCHANGED <<launch, main, servers, errs, ctx, proxyErr, exit, acked, queued, stored, store,
                       closeErr, exporterVars>>
    BY <1>1 DEF Begin, mainVars, storeVars
  <2>2. Lost' = Lost /\ config' = config
    BY <2>1 DEF Lost, config, exporterVars
  <2>3. /\ ExporterTypeOK' /\ SpansAccounted' /\ NoSendOnClosed'
    BY <2>1, <2>2 DEF ServiceTypeOK, ExporterTypeOK, SpansAccounted, NoSendOnClosed, exporterVars
  <2>4. ServiceTypeOK'
    BY <1>0, <2>1, <2>3 DEF ServiceTypeOK
  <2>5. OpsFollowed'
    BY <1>0, <2>1, <2>2 DEF OpsFollowed, exporterVars
  <2>6. MainInv'
    BY <2>1, <2>2 DEF MainInv, exporterVars
  <2>7. QED
    BY <2>3, <2>4, <2>5, <2>6
<1>2. CASE Record(e)
  <2>1. /\ exit = "none" /\ op[e] = "running"
        /\ UNCHANGED <<launch, main, servers, errs, ctx, proxyErr, exit, store, closeErr, exporterVars>>
    BY <1>2 DEF Record, mainVars
  <2>2. Lost' = Lost /\ config' = config
    BY <2>1 DEF Lost, config, exporterVars
  <2>3. /\ ExporterTypeOK' /\ SpansAccounted' /\ NoSendOnClosed'
    BY <2>1, <2>2 DEF ServiceTypeOK, ExporterTypeOK, SpansAccounted, NoSendOnClosed, exporterVars
  <2>4. CASE /\ store = "open"
             /\ AppendOk(e)
             /\ op' = [op EXCEPT ![e] = IF config.otel THEN "export" ELSE "done"]
    <3>1. PICK l \in {"export", "done"} : op' = [op EXCEPT ![e] = l]
      BY <2>4, Zenon
    <3>2. /\ acked' = acked \cup {e} /\ queued \subseteq queued' /\ stored \subseteq stored'
          /\ queued' \subseteq queued \cup {e} /\ e \in queued' \cup stored'
          /\ queued' # queued => config.async /\ ~config.durable
      BY <2>4 DEF AppendOk
    <3>3. ServiceTypeOK'
      BY <1>0, <2>1, <2>3, <3>1, <3>2 DEF ServiceTypeOK
    <3>4. OpsFollowed'
      BY <1>0, <2>1, <2>2, <3>1, <3>2 DEF OpsFollowed, exporterVars
    <3>5. MainInv'
      BY <2>1, <2>2, <2>4, <3>2 DEF MainInv, exporterVars
    <3>6. QED
      BY <2>3, <3>3, <3>4, <3>5
  <2>5. CASE /\ op' = [op EXCEPT ![e] = "done"]
             /\ stored' \in {stored} \cup (IF store = "open" THEN {stored \cup {e}} ELSE {})
             /\ UNCHANGED <<acked, queued>>
    <3>1. stored \subseteq stored'
      BY <2>5
    <3>2. ServiceTypeOK'
      BY <1>0, <2>1, <2>3, <2>5, <3>1 DEF ServiceTypeOK
    <3>3. OpsFollowed'
      BY <1>0, <2>1, <2>2, <2>5 DEF OpsFollowed, exporterVars
    <3>4. MainInv'
      BY <2>1, <2>2, <2>5 DEF MainInv, exporterVars
    <3>5. QED
      BY <2>3, <3>2, <3>3, <3>4
  <2>6. QED
    BY <1>2, <2>4, <2>5 DEF Record
<1>3. CASE Export(e)
  <2>1. UNCHANGED <<launch, main, servers, errs, ctx, proxyErr, exit, acked, queued, stored, store, closeErr>>
    BY <1>3 DEF Export, mainVars, storeVars
  <2>2. config' = config
    BY <2>1 DEF config
  <2>3. CASE op[e] = "export" /\ ExportLock(e) /\ op' = [op EXCEPT ![e] = "send"]
    <3>1. /\ ~closed /\ exporting' = exporting \cup {e}
          /\ UNCHANGED <<entries, closed, wpc, batch, attempt, accepted, exported, dropped, received>>
      BY <2>3 DEF ExportLock, workerVars
    <3>2. Lost' = Lost
      BY <3>1 DEF Lost
    <3>3. /\ ExporterTypeOK' /\ SpansAccounted' /\ NoSendOnClosed'
      BY <3>1, <3>2 DEF ServiceTypeOK, ExporterTypeOK, SpansAccounted, NoSendOnClosed
    <3>4. ServiceTypeOK'
      BY <1>0, <2>1, <2>3, <3>3 DEF ServiceTypeOK
    <3>5. OpsFollowed'
      BY <1>0, <2>1, <2>3, <3>1, <3>2 DEF OpsFollowed
    <3>6. MainInv'
      BY <2>1, <2>2, <3>1 DEF MainInv
    <3>7. QED
      BY <3>3, <3>4, <3>5, <3>6
  <2>4. CASE op[e] = "export" /\ ExportRefused(e) /\ op' = [op EXCEPT ![e] = "done"]
    <3>1. UNCHANGED exporterVars
      BY <2>4 DEF ExportRefused
    <3>2. Lost' = Lost
      BY <3>1 DEF Lost, exporterVars
    <3>3. /\ ExporterTypeOK' /\ SpansAccounted' /\ NoSendOnClosed'
      BY <3>1, <3>2 DEF ServiceTypeOK, ExporterTypeOK, SpansAccounted, NoSendOnClosed, exporterVars
    <3>4. ServiceTypeOK'
      BY <1>0, <2>1, <2>4, <3>3 DEF ServiceTypeOK
    <3>5. OpsFollowed'
      BY <1>0, <2>1, <2>4, <3>1, <3>2 DEF OpsFollowed, exporterVars
    <3>6. MainInv'
      BY <2>1, <2>2, <3>1 DEF MainInv, exporterVars
    <3>7. QED
      BY <3>3, <3>4, <3>5, <3>6
  <2>5. CASE op[e] = "send" /\ ExportSend(e) /\ op' = [op EXCEPT ![e] = "done"]
    <3>1. e \notin accepted \cup Lost /\ e \in acked
      BY <2>5 DEF OpsFollowed
    <3>2. ExporterInv' /\ (accepted \cup Lost)' = accepted \cup Lost \cup {e}
      BY <2>5, <3>1, ServiceExporter, SendStep
    <3>3. exporting' = exporting \ {e} /\ UNCHANGED <<closed, wpc>>
      BY <2>5 DEF ExportSend, workerVars
    <3>4. ServiceTypeOK'
      BY <1>0, <2>1, <2>5, <3>2 DEF ServiceTypeOK, ExporterInv
    <3>5. OpsFollowed'
      BY <1>0, <2>1, <2>5, <3>1, <3>2, <3>3 DEF OpsFollowed
    <3>6. MainInv'
      BY <2>1, <2>2, <3>3 DEF MainInv
    <3>7. QED
      BY <3>2, <3>4, <3>5, <3>6 DEF ExporterInv
  <2>6. QED
    BY <1>3, <2>3, <2>4, <2>5 DEF Export
<1>4. QED
  BY <1>1, <1>2, <1>3

\* The worker of the exporter takes a step.
LEMMA ExporterWorkerInv ==
    ASSUME ServiceInv, ExporterWorker
    PROVE  ServiceInv'
<1> USE DEF ServiceInv
<1>1. /\ ExporterInv' /\ UNCHANGED <<accepted, closed, exporting>> /\ wpc # "done"
      /\ (accepted \cup Lost)' = accepted \cup Lost
  BY ServiceExporter, WorkerStepInv DEF ExporterWorker
<1>2. UNCHANGED <<launch, main, servers, errs, ctx, proxyErr, exit, op, acked, queued, stored, store, closeErr>>
  BY DEF ExporterWorker, mainVars, storeVars
<1>3. config' = config
  BY <1>2 DEF config
<1>4. ServiceTypeOK'
  BY <1>1, <1>2 DEF ServiceTypeOK, ExporterInv
<1>5. OpsFollowed'
  BY <1>1, <1>2 DEF OpsFollowed
<1>6. MainInv'
  BY <1>1, <1>2, <1>3 DEF MainInv, ExporterInv
<1>7. QED
  BY <1>1, <1>4, <1>5, <1>6 DEF ExporterInv

\* The store writes its queue, fails, or is closed by main.
LEMMA StoreStepInv ==
    ASSUME ServiceInv, Persist \/ CloseStore
    PROVE  ServiceInv'
<1> USE DEF ServiceInv
<1>1. UNCHANGED exporterVars /\ UNCHANGED <<launch, servers, errs, ctx, proxyErr, exit, op, acked>>
  BY DEF Persist, CloseStore, mainVars
<1>2. /\ ExporterTypeOK' /\ SpansAccounted' /\ NoSendOnClosed'
      /\ OpsFollowed' /\ config' = config
      /\ UNCHANGED <<wpc, closed>>
      /\ (launch \in DOMAIN Launches)'
  BY <1>1, RestUnchanged
<1>3. /\ queued' \subseteq queued /\ stored \subseteq stored' /\ queued \subseteq queued' \cup stored'
  BY DEF Persist, CloseStore
<1>4. CASE Persist
  <2>1. store' \in {"open", "failed"} /\ UNCHANGED <<main, closeErr>>
    BY <1>4 DEF Persist, mainVars
  <2>2. ServiceTypeOK'
    BY <1>1, <1>2, <1>3, <2>1 DEF ServiceTypeOK
  <2>3. MainInv'
    BY <1>1, <1>2, <1>3, <1>4, <2>1 DEF Persist, MainInv
  <2>4. QED
    BY <1>2, <2>2, <2>3
<1>5. CASE CloseStore
  <2>1. /\ main = "closeStore" /\ main' = "closeExporter" /\ store' = "closed"
        /\ queued' = {} \/ closeErr'
    BY <1>5 DEF CloseStore
  <2>2. closeErr' \in BOOLEAN
    BY <1>5 DEF CloseStore, ServiceTypeOK
  <2>3. ServiceTypeOK'
    BY <1>1, <1>2, <1>3, <2>1, <2>2 DEF ServiceTypeOK
  <2>4. MainInv'
    BY <1>1, <1>2, <1>3, <2>1 DEF MainInv
  <2>5. QED
    BY <1>2, <2>3, <2>4
<1>6. QED
  BY <1>4, <1>5

\* main closes the channel of the exporter.
LEMMA CloseExporterInv ==
    ASSUME ServiceInv, CloseExporter
    PROVE  ServiceInv'
<1> USE DEF ServiceInv
<1>0. main = "closeExporter" /\ ~closed
  BY DEF CloseExporter, MainInv
<1>1. /\ main' \in {"waitExporter", "return"}
      /\ UNCHANGED <<launch, servers, errs, ctx, proxyErr, exit, op, acked, queued, stored, store, closeErr>>
      /\ UNCHANGED <<entries, exporting, wpc, batch, attempt, accepted, exported, dropped, received>>
      /\ closed' \in BOOLEAN
      /\ closed' => exporting = {} /\ main' = "waitExporter"
  <2>1. CASE main' = "waitExporter" /\ CloseChannel
    BY <2>1 DEF CloseExporter, CloseChannel, storeVars, workerVars
  <2>2. CASE main' = "return" /\ UNCHANGED exporterVars
    BY <1>0, <2>2 DEF CloseExporter, storeVars, exporterVars, ServiceTypeOK, ExporterTypeOK
  <2>3. QED
    BY <2>1, <2>2 DEF CloseExporter
<1>2. Lost' = Lost /\ config' = config /\ wpc # "done"
  BY <1>0, <1>1 DEF Lost, config, MainInv
<1>3. ExporterTypeOK' /\ SpansAccounted' /\ NoSendOnClosed'
  BY <1>0, <1>1, <1>2 DEF ServiceTypeOK, ExporterTypeOK, SpansAccounted, NoSendOnClosed
<1>4. ServiceTypeOK'
  BY <1>1, <1>3 DEF ServiceTypeOK
<1>5. OpsFollowed'
  BY <1>1, <1>2 DEF OpsFollowed
<1>6. MainInv'
  BY <1>0, <1>1, <1>2 DEF MainInv
<1>7. QED
  BY <1>3, <1>4, <1>5, <1>6

LEMMA ServiceNext == ServiceInv /\ [Next]_vars => ServiceInv'
<1> SUFFICES ASSUME ServiceInv, [Next]_vars PROVE ServiceInv'
  OBVIOUS
<1>1. CASE \/ LoadConfig \/ Open \/ Start \/ CheckErrors \/ WaitExporter
           \/ Return /\ exit = "none"
           \/ Signal \/ ProxyReturns
           \/ \E s \in servers : ServerEnds(s)
  BY <1>1, MainStepInv
<1>2. CASE Persist \/ CloseStore
  BY <1>2, StoreStepInv
<1>3. CASE CloseExporter
  BY <1>3, CloseExporterInv
<1>4. CASE \E e \in Entries : Begin(e) \/ Record(e) \/ Export(e)
  BY <1>4, OperationStepInv
<1>5. CASE ExporterWorker
  BY <1>5, ExporterWorkerInv
<1>6. CASE UNCHANGED vars
  <2>1. /\ ExporterTypeOK' /\ SpansAccounted' /\ NoSendOnClosed'
        /\ OpsFollowed' /\ config' = config
        /\ UNCHANGED <<wpc, closed>>
        /\ (launch \in DOMAIN Launches)'
    BY <1>6, RestUnchanged DEF vars
  <2>2. ServiceTypeOK'
    BY <1>6, <2>1 DEF vars, mainVars, storeVars, ServiceTypeOK, ServiceInv
  <2>3. MainInv'
    BY <1>6, <2>1 DEF vars, mainVars, storeVars, MainInv, ServiceInv
  <2>4. QED
    BY <2>1, <2>2, <2>3 DEF ServiceInv
<1>7. QED
  BY <1>1, <1>2, <1>3, <1>4, <1>5, <1>6 DEF Next, MainStep

-----------------------------------------------------------------------------
(* The theorems.                                                           *)

\* Operations, exporter, store and main never disagree about what was
\* acknowledged, offered, sent and counted (exporter.go, main.go): each span is
\* in one place, and no caller sends on the channel that Close closed.
THEOREM ServiceCorrect == Spec => []ServiceInv
BY ServiceInit, ServiceNext, PTL DEF Spec

\* What the store acknowledged survives the process on every path out of main
\* but the two that are named: os.Exit, and a Close whose error is logged.
THEOREM AckedSurvives == Spec => []AckedOutlivesProcess
<1>1. ServiceInv => AckedOutlivesProcess
  <2> SUFFICES ASSUME ServiceInv, exit # "none", ~(acked \subseteq stored)
               PROVE  config.async /\ ~config.durable /\ (exit = "1" \/ closeErr)
    BY DEF AckedOutlivesProcess
  <2>1. queued # {} /\ exit \in {"0", "1"}
    BY DEF ServiceInv, ServiceTypeOK
  <2>2. config.async /\ ~config.durable
    BY <2>1 DEF ServiceInv, MainInv
  <2>3. exit = "0" => closeErr
    BY <2>1 DEF ServiceInv, MainInv
  <2>4. QED
    BY <2>1, <2>2, <2>3
<1>2. QED
  BY <1>1, ServiceCorrect, PTL

\* Spans are evidence of stored records, and a Close that meets its deadline
\* leaves none behind (logger.go offers an entry only after its append).
THEOREM SpansAreEvidence == Spec => []SpansFollowRecords
<1>1. ServiceInv => SpansFollowRecords
  <2> SUFFICES ASSUME ServiceInv PROVE SpansFollowRecords
    OBVIOUS
  <2>1. accepted \cup Lost \subseteq acked
    BY DEF ServiceInv, OpsFollowed
  <2>2. ASSUME main = "returnFlushed" PROVE accepted \subseteq exported \cup Lost
    <3>1. entries = <<>> /\ batch = <<>>
      BY <2>2 DEF ServiceInv, MainInv, SpansAccounted
    <3>2. QED
      BY <3>1, EmptyElements DEF ServiceInv, SpansAccounted
  <2>3. QED
    BY <2>1, <2>2 DEF SpansFollowRecords
<1>2. QED
  BY <1>1, ServiceCorrect, PTL

\* What validation says about the secret and the principal.
LEMMA ValidIsSafe ==
    ASSUME NEW c, validateConfig(c)
    PROVE  /\ c.sign => c.secret \notin {"", "blank"}
           /\ c.auth = "oidc" \/ (c.subject # "" /\ (c.authClient # "" \/ c.proxyClient # ""))
<1>1. validateSigning(c) /\ validateAuthConfig(c)
  BY DEF validateConfig
<1>2. c.sign => c.secret \notin {"", "blank"}
  BY <1>1 DEF validateSigning, Trimmed
<1>3. c.auth = "oidc" \/ validateStaticPrincipal(c)
  BY <1>1 DEF validateAuthConfig
<1>4. QED
  BY <1>2, <1>3 DEF validateStaticPrincipal

\* A configuration that loadConfig accepts has the secret and the principal that
\* signing and policy need, wherever the environment put them.
LEMMA LoadedIsSafe ==
    ASSUME NEW k \in DOMAIN Launches,
           loadConfig(Launches[k].file, Launches[k].config, Launches[k].env)
    PROVE  LET c == Launches[k].config
               env == Launches[k].env
               secret == CASE env.preferredSet -> env.preferred
                           [] ~env.preferredSet /\ env.legacy # "" -> env.legacy
                           [] ~env.preferredSet /\ env.legacy = "" -> c.secret
           IN  /\ c.sign => secret \notin {"", "blank"}
               /\ c.auth = "oidc" \/ (c.subject # "" /\ {c.authClient, c.proxyClient} # {""})
<1> DEFINE c == Launches[k].config
           env == Launches[k].env
           d == resolveConfig(c, env)
<1>1. /\ {"sign", "secret", "bearer", "keyID", "transport", "auth",
          "subject", "authClient", "proxyClient"} \subseteq DOMAIN c
      /\ env.preferredSet \in BOOLEAN
  BY LaunchAssumption
<1>2. validateConfig(d)
  BY DEF loadConfig
<1>3. /\ d.sign = c.sign /\ d.auth = c.auth /\ d.subject = c.subject
      /\ d.authClient = c.authClient /\ d.proxyClient = c.proxyClient
      /\ d.secret = IF env.preferredSet THEN env.preferred
                    ELSE IF env.legacy # "" THEN env.legacy ELSE c.secret
  BY <1>1 DEF resolveConfig, resolveSigningSecret
<1>4. /\ d.sign => d.secret \notin {"", "blank"}
      /\ d.auth = "oidc" \/ (d.subject # "" /\ (d.authClient # "" \/ d.proxyClient # ""))
  BY <1>2, ValidIsSafe
<1>5. QED
  BY <1>1, <1>3, <1>4

\* Signing and identity are fail-closed: nothing is served without the secret
\* and the principal that the configuration calls for (main.go, loadConfig).
THEOREM SigningFailsClosed == Spec => []FailClosed
<1>1. ServiceInv => FailClosed
  <2> SUFFICES ASSUME ServiceInv, main \notin {"load", "open", "exited"} PROVE FailClosed
    BY DEF FailClosed
  <2>1. /\ launch \in DOMAIN Launches
        /\ loadConfig(Launches[launch].file, Launches[launch].config, Launches[launch].env)
    BY DEF ServiceInv, ServiceTypeOK, MainInv
  <2>2. QED
    BY <2>1, LoadedIsSafe DEF FailClosed
<1>2. QED
  BY <1>1, ServiceCorrect, PTL
=============================================================================
