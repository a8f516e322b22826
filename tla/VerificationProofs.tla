------------------------- MODULE VerificationProofs -------------------------
(***************************************************************************)
(* EvidenceInv is inductive, for any number of commands, appends and edits *)
(* and any options and keys, and the properties of the evidence commands   *)
(* follow from it.                                                         *)
(***************************************************************************)
EXTENDS Verification, SequenceTheorems, TLAPS

Lines == Entries \cup {Blank, Malformed}
Records == Entries \cup {Malformed}
Fields == {"at", "opt", "format", "last", "line", "read", "result", "digest", "checkpoint", "exit"}

-----------------------------------------------------------------------------
(* Entries, sequences and counters.                                        *)

LEMMA IdleFields == DOMAIN Idle = Fields
BY DEF Idle, Fields

LEMMA Shapes ==
    /\ Malformed \notin Entries /\ Blank \notin Entries /\ Blank # Malformed
    /\ Malformed.line = "malformed" /\ Blank.line = "blank"
    /\ \A e \in Entries : e.line = "entry"
<1>1. Malformed.line = "malformed" /\ Blank.line = "blank"
  BY DEF Malformed, Blank
<1>2. \A e \in Entries : e.line = "entry"
  BY DEF Entries
<1>3. QED
  BY <1>1, <1>2

LEMMA PrepareType ==
    ASSUME NEW n \in Nat, NEW kind \in Kinds, NEW form \in Forms
    PROVE  prepare(n, kind, form) \in Entries /\ prepare(n, kind, form).core = n
BY DEF prepare, Entries, Kinds, Splits, Legacy, V2, Unsigned, NoIntegrity

\* The encoder leaves signatures and contents as they are.
LEMMA EncodeFacts ==
    ASSUME NEW e \in Entries
    PROVE  /\ encode(e) \in Entries
           /\ encode(e).signature = e.signature /\ encode(e).integrity = e.integrity
BY DEF encode, Entries, Forms

\* What the signatures of an entry of the proxy cover.
LEMMA WrittenMeans ==
    ASSUME NEW w, NEW kind \in Kinds, NEW form \in Forms, w = prepare(w.core, kind, form)
    PROVE  /\ w.rest = w.core /\ w.split = "kept"
           /\ w.signature = IF kind = "unsigned" THEN Unsigned ELSE <<Secret, w.core, w.form>>
           /\ w.integrity = IF kind = "v2" THEN [version |-> 2, keyID |-> KeyID,
                                                 mac |-> <<Secret, w.core, "kept", w.core>>]
                            ELSE NoIntegrity
           /\ <<Secret, w.core, w.form>> # Unsigned
           /\ [version |-> 2, keyID |-> KeyID, mac |-> <<Secret, w.core, "kept", w.core>>] # NoIntegrity
BY DEF prepare, Kinds, Legacy, V2, Unsigned, NoIntegrity

LEMMA RecordStep ==
    ASSUME NEW r \in [Counters -> Nat], NEW e, NEW o, NEW n, n = record(r, e, o.key, requireV2(o))
    PROVE  /\ n \in [Counters -> Nat] /\ n.total = r.total + 1
           /\ n.invalid = 0 /\ n.unsigned = 0
                 <=> r.invalid = 0 /\ r.unsigned = 0 /\ Passes(e, o)
<1> DEFINE class == IF e = Malformed THEN "invalid" ELSE verify(e, o.key, requireV2(o))
<1>1. verify(e, o.key, requireV2(o)) \in Classes
  BY DEF verify, Classes
<1>2. class \in Classes /\ (class \in {"verified", "legacy"} <=> Passes(e, o))
  BY <1>1 DEF Classes, Passes
<1>3. n = [k \in Counters |-> IF k \in {"total", class} THEN r[k] + 1 ELSE r[k]]
  BY DEF record
<1> HIDE DEF class
<1>4. n \in [Counters -> Nat]
  BY <1>3
<1>5. /\ n.total = r.total + 1
      /\ n.invalid = IF class = "invalid" THEN r.invalid + 1 ELSE r.invalid
      /\ n.unsigned = IF class = "unsigned" THEN r.unsigned + 1 ELSE r.unsigned
      /\ r.invalid \in Nat /\ r.unsigned \in Nat
  BY <1>2, <1>3 DEF Counters, Classes
<1>6. QED
  BY <1>2, <1>4, <1>5 DEF Classes

LEMMA HalfLine ==
    ASSUME NEW r \in [Counters -> Nat], NEW key, NEW n, n = record(r, Malformed, key, TRUE)
    PROVE  n \in [Counters -> Nat] /\ n.total = r.total + 1 /\ n.invalid # 0
<1>1. n = [k \in Counters |-> IF k \in {"total", "invalid"} THEN r[k] + 1 ELSE r[k]]
  BY DEF record
<1>2. n \in [Counters -> Nat]
  <2>1. \A k \in Counters : (IF k \in {"total", "invalid"} THEN r[k] + 1 ELSE r[k]) \in Nat
    OBVIOUS
  <2>2. QED
    BY <1>1, <2>1, Zenon
<1>3. n.total = r.total + 1 /\ n.invalid = r.invalid + 1 /\ r.invalid \in Nat
  BY <1>1 DEF Counters, Classes
<1>4. r.invalid + 1 # 0
  BY <1>3
<1>5. QED
  BY <1>2, <1>3, <1>4, Zenon

LEMMA NoResultType == NoResult \in [Counters -> Nat] /\ NoResult.total = 0
                      /\ NoResult.invalid = 0 /\ NoResult.unsigned = 0
BY DEF NoResult, Counters, Classes

LEMMA AppendFacts ==
    ASSUME NEW S, NEW s \in Seq(S), NEW x \in S
    PROVE  /\ Append(s, x) \in Seq(S) /\ Len(s) \in Nat /\ Len(Append(s, x)) = Len(s) + 1
           /\ DOMAIN s = 1..Len(s) /\ DOMAIN Append(s, x) = 1..Len(s) + 1
           /\ \A k \in 1..Len(s) : Append(s, x)[k] = s[k]
           /\ Append(s, x)[Len(s) + 1] = x
OBVIOUS

\* What the digest covers is an entry.
LEMMA CanonicalType ==
    ASSUME NEW e \in Entries, NEW f
    PROVE  canonical(e, f) \in Entries
BY DEF canonical, Entries, Forms

LEMMA RemoveAtFacts ==
    \A S : \A s \in Seq(S) : \A k \in DOMAIN s :
       /\ RemoveAt(s, k) \in Seq(S)
       /\ \A i \in DOMAIN RemoveAt(s, k) : \E j \in DOMAIN s : RemoveAt(s, k)[i] = s[j]
<1> TAKE S
<1> TAKE s \in Seq(S)
<1> TAKE k \in DOMAIN s
<1>1. k \in 1..Len(s) /\ Len(s) \in Nat /\ DOMAIN s = 1..Len(s)
  OBVIOUS
<1> DEFINE a == SubSeq(s, 1, k - 1)
           b == SubSeq(s, k + 1, Len(s))
<1>2. a \in Seq(S) /\ Len(a) = k - 1 /\ \A i \in 1..k - 1 : a[i] = s[i]
  BY <1>1
<1>3. b \in Seq(S) /\ Len(b) = Len(s) - k /\ \A i \in 1..Len(s) - k : b[i] = s[k + i]
  BY <1>1, SMTT(30)
<1> HIDE DEF a, b
<1>4. /\ a \o b \in Seq(S) /\ DOMAIN (a \o b) = 1..Len(a) + Len(b)
      /\ \A i \in 1..Len(a) + Len(b) : (a \o b)[i] = IF i <= Len(a) THEN a[i] ELSE b[i - Len(a)]
  <2>1. /\ a \o b \in Seq(S) /\ Len(a \o b) = Len(a) + Len(b)
        /\ \A i \in 1..Len(a) + Len(b) : (a \o b)[i] = IF i <= Len(a) THEN a[i] ELSE b[i - Len(a)]
    BY <1>2, <1>3, ConcatProperties
  <2>2. DOMAIN (a \o b) = 1..Len(a \o b)
    BY <2>1, LenProperties
  <2>3. QED
    BY <2>1, <2>2
<1>5. ASSUME NEW i \in 1..Len(a) + Len(b) PROVE \E j \in 1..Len(s) : (a \o b)[i] = s[j]
  <2>1. CASE i <= k - 1
    <3>1. i \in 1..k - 1 /\ i \in 1..Len(s)
      BY <1>1, <1>2, <1>3, <2>1
    <3>2. (a \o b)[i] = s[i]
      BY <1>2, <1>4, <2>1, <3>1
    <3>3. QED
      BY <3>1, <3>2
  <2>2. CASE ~(i <= k - 1)
    <3>1. i - (k - 1) \in 1..Len(s) - k /\ k + (i - (k - 1)) = i + 1 /\ i + 1 \in 1..Len(s)
      BY <1>1, <1>2, <1>3, <2>2, SMTT(30)
    <3>2. b[i - (k - 1)] = s[i + 1]
      BY <1>3, <3>1
    <3>3. QED
      BY <1>2, <1>4, <2>2, <3>1, <3>2
  <2>3. QED
    BY <2>1, <2>2
<1>6. QED
  BY <1>1, <1>4, <1>5 DEF RemoveAt, a, b

-----------------------------------------------------------------------------
(* What a step leaves alone.                                               *)

LEMMA GenuineStays ==
    ASSUME NEW e, Genuine(e), written \subseteq written'
    PROVE  e.line = "entry" => \E w \in written' : e.signature = w.signature
                                                   /\ e.integrity \in {w.integrity, NoIntegrity}
BY DEF Genuine

\* The command of c neither moves nor loses sight of the artifact.
LEMMA ReadStays ==
    ASSUME NEW c \in Cmds, ReadInv(c), cmd'[c] = cmd[c], format' = format,
           cmd[c].at = "scan" => cmd[c].last <= Len(artifact')
    PROVE  ReadInv(c)'
<1>1. Covered(c)' = Covered(c) /\ (Loaded(c)' <=> Loaded(c))
  BY DEF Covered, Loaded
<1>2. QED
  BY <1>1 DEF ReadInv

\* The proxy or an editor changes the artifact.
LEMMA ArtifactStep ==
    ASSUME EvidenceInv, UNCHANGED <<format, file, cmd, issued, delivered, replaced>>,
           artifact' \in Seq(Lines), partial' \in Entries \cup {None}, appends' \in Nat,
           written \subseteq written', written' \subseteq Entries,
           \A w \in written' \ written :
              \E kind \in Kinds, form \in Forms : w = prepare(w.core, kind, form),
           partial' # None => \E w \in written' : partial' = encode(w),
           \A k \in DOMAIN artifact' : Genuine(artifact[k])',
           Len(artifact) <= Len(artifact') \/ \A c \in Cmds : cmd[c].at # "scan"
    PROVE  EvidenceInv'
<1>0. EvidenceTypeOK /\ ProvenanceInv /\ CheckpointInv /\ DeliveryInv /\ \A c \in Cmds : ReadInv(c)
  BY DEF EvidenceInv
<1>1. EvidenceTypeOK'
  BY <1>0 DEF EvidenceTypeOK, Lines
<1>2. ProvenanceInv'
  <2>1. \A w \in written' : \E kind \in Kinds, form \in Forms : w = prepare(w.core, kind, form)
    BY <1>0 DEF ProvenanceInv
  <2>2. ASSUME NEW c \in Cmds, NEW k \in DOMAIN cmd'[c].read PROVE Genuine(cmd[c].read[k])'
    <3>1. Genuine(cmd[c].read[k])
      BY <1>0, <2>2 DEF ProvenanceInv
    <3>2. QED
      BY <3>1, GenuineStays DEF Genuine
  <2>3. partial' # None => \E w \in written' : partial' = encode(w)'
    BY DEF encode
  <2>4. QED
    BY <2>1, <2>2, <2>3 DEF ProvenanceInv
<1>3. CheckpointInv'
  BY <1>0 DEF CheckpointInv, FromIssued, Seal, Loaded
<1>4. DeliveryInv'
  BY <1>0 DEF DeliveryInv, DeliveredStays
<1>5. ASSUME NEW c \in Cmds PROVE ReadInv(c)'
  <2>1. cmd[c].at = "scan" => cmd[c].last <= Len(artifact')
    <3>1. cmd[c].at = "scan" => cmd[c].last <= Len(artifact) /\ Len(artifact) <= Len(artifact')
      BY <1>0 DEF ReadInv
    <3>2. cmd[c].last \in Nat /\ Len(artifact) \in Nat /\ Len(artifact') \in Nat
      BY <1>0, LenProperties DEF EvidenceTypeOK, CommandTypeOK, Lines
    <3>3. QED
      BY <3>1, <3>2
  <2>2. QED
    BY <1>0, <2>1, ReadStays
<1>6. QED
  BY <1>1, <1>2, <1>3, <1>4, <1>5 DEF EvidenceInv

\* A command takes a step: what concerns the other commands stays.
LEMMA CommandStep ==
    ASSUME EvidenceInv, NEW c \in Cmds, UNCHANGED <<artifactVars, written, replaced>>,
           DOMAIN cmd' = Cmds, CommandTypeOK(cmd[c])', \A d \in Cmds \ {c} : cmd'[d] = cmd[d],
           \A k \in DOMAIN cmd'[c].read : Genuine(cmd[c].read[k])',
           ReadInv(c)', CheckpointInv', DeliveryInv'
    PROVE  EvidenceInv'
<1>0. EvidenceTypeOK /\ ProvenanceInv /\ \A d \in Cmds : ReadInv(d)
  BY DEF EvidenceInv
<1>1. EvidenceTypeOK'
  <2>1. ASSUME NEW d \in Cmds PROVE CommandTypeOK(cmd[d])'
    BY <1>0 DEF EvidenceTypeOK, CommandTypeOK
  <2>2. QED
    BY <1>0, <2>1 DEF EvidenceTypeOK, artifactVars
<1>2. ProvenanceInv'
  <2>1. ASSUME NEW d \in Cmds, NEW k \in DOMAIN cmd'[d].read PROVE Genuine(cmd[d].read[k])'
    <3>1. CASE d = c
      BY <2>1, <3>1
    <3>2. CASE d # c
      <4>1. Genuine(cmd[d].read[k]) /\ cmd'[d] = cmd[d]
        BY <1>0, <2>1, <3>2 DEF ProvenanceInv
      <4>2. QED
        BY <4>1 DEF Genuine
    <3>3. QED
      BY <3>1, <3>2
  <2>2. QED
    BY <1>0, <2>1 DEF ProvenanceInv, artifactVars, Genuine, encode
<1>3. ASSUME NEW d \in Cmds PROVE ReadInv(d)'
  <2>1. CASE d = c
    BY <2>1
  <2>2. CASE d # c
    <3>1. cmd[d].at = "scan" => cmd[d].last <= Len(artifact')
      BY <1>0 DEF ReadInv, artifactVars
    <3>2. QED
      BY <1>0, <2>2, <3>1, ReadStays DEF artifactVars
  <2>3. QED
    BY <2>1, <2>2
<1>4. QED
  BY <1>1, <1>2, <1>3 DEF EvidenceInv

\* What CheckpointInv says of one command.
HoldsIssued(c) ==
    /\ cmd[c].at \in {"open", "scan"} \/ (cmd[c].at = "done" /\ cmd[c].opt # NoCommand)
          => (Loaded(c) => FromIssued(cmd[c].checkpoint))
    /\ cmd[c].at \in {"create", "write", "sync"} => \E i \in issued : cmd[c].checkpoint = i[1]

\* Checkpoints are only added.
LEMMA CheckpointStays ==
    ASSUME CheckpointInv, NEW c \in Cmds, format' = format, issued \subseteq issued',
           \A i \in issued' \ issued : i = <<Seal(i[2]), i[2]>>,
           \A d \in Cmds \ {c} : cmd'[d] = cmd[d],
           file' \in {file, Torn} \/ FromIssued(file)', HoldsIssued(c)'
    PROVE  CheckpointInv'
<1>1. \A d \in Cmds : HoldsIssued(d)
  BY DEF CheckpointInv, HoldsIssued
<1>2. ASSUME NEW d \in Cmds PROVE HoldsIssued(d)'
  BY <1>1 DEF HoldsIssued, Loaded, FromIssued
<1>3. \A i \in issued' : i = <<Seal(i[2])', i[2]>>
  BY DEF CheckpointInv, Seal
<1>4. file' \notin {Absent, Torn} => FromIssued(file)'
  <2>1. CASE file' = file
    BY <2>1 DEF CheckpointInv, FromIssued
  <2>2. QED
    BY <2>1
<1>5. QED
  BY <1>2, <1>3, <1>4 DEF CheckpointInv, HoldsIssued

\* A command outside of the writing of the file.
LEMMA DeliveryStays ==
    ASSUME DeliveryInv, NEW c \in Cmds, \A d \in Cmds \ {c} : cmd'[d] = cmd[d],
           UNCHANGED <<file, delivered, replaced>>, cmd'[c].at \notin {"write", "sync"}
    PROVE  DeliveryInv'
BY DEF DeliveryInv, DeliveredStays

-----------------------------------------------------------------------------
(* Steps on the artifact.                                                  *)

LEMMA AppendEntryStep ==
    ASSUME EvidenceInv, NEW kind \in Kinds, NEW form \in Forms, AppendEntry(kind, form)
    PROVE  EvidenceInv'
<1>0. EvidenceTypeOK /\ ProvenanceInv
  BY DEF EvidenceInv
<1>1. appends + 1 \in Nat
  BY <1>0 DEF EvidenceTypeOK
<1>2. LET e == prepare(appends + 1, kind, form)
      IN  /\ written' = written \cup {e}
          /\ \/ artifact' = Append(artifact, encode(e)) /\ partial' = partial
             \/ artifact' = artifact /\ partial' = encode(e)
  BY DEF AppendEntry
<1> DEFINE w0 == prepare(appends + 1, kind, form)
           e == encode(w0)
<1>3. /\ written' = written \cup {w0} /\ appends' = appends + 1
      /\ UNCHANGED <<format, file, cmd, issued, delivered, replaced>>
      /\ \/ artifact' = Append(artifact, e) /\ partial' = partial
         \/ artifact' = artifact /\ partial' = e
      /\ partial = None
  BY <1>2 DEF AppendEntry
<1>10. w0 \in Entries /\ w0 = prepare(w0.core, kind, form)
  BY <1>1, PrepareType
<1>11. e \in Entries /\ e.signature = w0.signature /\ e.integrity = w0.integrity
  BY <1>10, EncodeFacts
<1>12. e = encode(w0)
  OBVIOUS
<1> HIDE DEF e, w0
<1>4. artifact \in Seq(Lines) /\ e \in Lines /\ Len(artifact) \in Nat
  BY <1>0, <1>11 DEF EvidenceTypeOK, Lines
<1>5. artifact' \in Seq(Lines) /\ Len(artifact) <= Len(artifact')
      /\ \A k \in DOMAIN artifact' : (k \in DOMAIN artifact /\ artifact'[k] = artifact[k]) \/ artifact'[k] = e
  BY <1>3, <1>4, AppendFacts
<1>6. ASSUME NEW k \in DOMAIN artifact' PROVE Genuine(artifact[k])'
  <2>1. CASE k \in DOMAIN artifact /\ artifact'[k] = artifact[k]
    <3>1. Genuine(artifact[k])
      BY <1>0, <2>1 DEF ProvenanceInv
    <3>2. QED
      BY <1>3, <2>1, <3>1, GenuineStays DEF Genuine
  <2>2. CASE artifact'[k] = e
    BY <1>3, <1>11, <2>2 DEF Genuine
  <2>3. QED
    BY <1>5, <1>6, <2>1, <2>2
<1>7. partial' \in Entries \cup {None} /\ (partial' # None => \E w \in written' : partial' = encode(w))
  BY <1>3, <1>11, <1>12
<1>8. /\ written' \subseteq Entries
      /\ \A w \in written' \ written : \E y \in Kinds, z \in Forms : w = prepare(w.core, y, z)
  BY <1>0, <1>3, <1>10 DEF EvidenceTypeOK
<1>9. QED
  BY <1>1, <1>3, <1>5, <1>6, <1>7, <1>8, ArtifactStep

LEMMA AppendEndsStep ==
    ASSUME EvidenceInv, AppendEnds
    PROVE  EvidenceInv'
<1>0. EvidenceTypeOK /\ ProvenanceInv
  BY DEF EvidenceInv
<1>1. PICK e \in {partial, Malformed} : artifact' = Append(artifact, e)
  BY DEF AppendEnds
<1>2. /\ UNCHANGED <<format, file, cmd, issued, delivered, replaced, written, appends>>
      /\ partial' = None /\ partial # None
  BY DEF AppendEnds, historyVars
<1>3. artifact \in Seq(Lines) /\ e \in Lines /\ Len(artifact) \in Nat
  BY <1>0, <1>2 DEF EvidenceTypeOK, Lines
<1>4. artifact' \in Seq(Lines) /\ Len(artifact) <= Len(artifact')
      /\ \A k \in DOMAIN artifact' : (k \in DOMAIN artifact /\ artifact'[k] = artifact[k]) \/ artifact'[k] = e
  BY <1>1, <1>3, AppendFacts
<1>5. ASSUME NEW k \in DOMAIN artifact' PROVE Genuine(artifact[k])'
  <2>1. CASE k \in DOMAIN artifact /\ artifact'[k] = artifact[k]
    <3>1. Genuine(artifact[k])
      BY <1>0, <2>1 DEF ProvenanceInv
    <3>2. QED
      BY <1>2, <2>1, <3>1 DEF Genuine
  <2>2. CASE artifact'[k] = e
    <3>1. CASE e = Malformed
      BY <2>2, <3>1, Shapes DEF Genuine
    <3>2. CASE e = partial
      <4>1. PICK w \in written : partial = encode(w)
        BY <1>0, <1>2 DEF ProvenanceInv
      <4>2. w \in Entries
        BY <1>0 DEF EvidenceTypeOK
      <4>3. e.signature = w.signature /\ e.integrity = w.integrity
        BY <3>2, <4>1, <4>2, EncodeFacts
      <4>4. QED
        BY <1>2, <2>2, <4>3 DEF Genuine
    <3>3. QED
      BY <3>1, <3>2
  <2>3. QED
    BY <1>4, <1>5, <2>1, <2>2
<1>6. QED
  BY <1>0, <1>2, <1>4, <1>5, ArtifactStep DEF EvidenceTypeOK

\* No edit makes up a signature.
LEMMA VariantFacts ==
    ASSUME NEW e \in Lines, Genuine(e), NEW v \in Variants(e)
    PROVE  v \in Lines /\ Genuine(v)
<1>1. e \in Entries /\ e.line = "entry"
  BY Shapes DEF Variants, Lines
<1>2. CASE v = Malformed
  BY <1>2, Shapes DEF Lines, Genuine
<1>3. CASE v # Malformed
  <2>1. \/ v = [e EXCEPT !.core = 0]
        \/ v = [e EXCEPT !.extra = TRUE]
        \/ v = [e EXCEPT !.rest = 0]
        \/ v = [e EXCEPT !.split = "moved"]
        \/ v = [e EXCEPT !.integrity = NoIntegrity]
        \/ v = [[e EXCEPT !.rest = 0] EXCEPT !.integrity = NoIntegrity]
        \/ v = [[e EXCEPT !.split = "moved"] EXCEPT !.integrity = NoIntegrity]
        \/ \E f \in Forms : v = [e EXCEPT !.form = f]
    BY <1>1, <1>3 DEF Variants
  <2>2. v \in Entries /\ v.signature = e.signature /\ v.integrity \in {e.integrity, NoIntegrity}
    <3>1. CASE v = [e EXCEPT !.core = 0]
      BY <1>1, <3>1 DEF Entries
    <3>2. CASE v = [e EXCEPT !.extra = TRUE]
      BY <1>1, <3>2 DEF Entries
    <3>3. CASE v = [e EXCEPT !.rest = 0]
      BY <1>1, <3>3 DEF Entries
    <3>4. CASE v = [e EXCEPT !.split = "moved"]
      BY <1>1, <3>4 DEF Entries, Splits
    <3>5. CASE v = [e EXCEPT !.integrity = NoIntegrity]
      BY <1>1, <3>5 DEF Entries
    <3>6. CASE v = [[e EXCEPT !.rest = 0] EXCEPT !.integrity = NoIntegrity]
      BY <1>1, <3>6 DEF Entries
    <3>7. CASE v = [[e EXCEPT !.split = "moved"] EXCEPT !.integrity = NoIntegrity]
      BY <1>1, <3>7 DEF Entries, Splits
    <3>8. CASE \E f \in Forms : v = [e EXCEPT !.form = f]
      BY <1>1, <3>8 DEF Entries
    <3>9. QED
      BY <2>1, <3>1, <3>2, <3>3, <3>4, <3>5, <3>6, <3>7, <3>8
  <2>3. QED
    BY <1>1, <2>2 DEF Genuine, Lines
<1>4. QED
  BY <1>2, <1>3

LEMMA EditStep ==
    ASSUME EvidenceInv, Edit
    PROVE  EvidenceInv'
<1>0. EvidenceTypeOK /\ ProvenanceInv
  BY DEF EvidenceInv
<1>1. /\ UNCHANGED <<format, partial, file, cmd, issued, delivered, replaced, written, appends>>
      /\ \A c \in Cmds : cmd[c].at # "scan"
  BY DEF Edit, historyVars
<1>2. artifact \in Seq(Lines) /\ Len(artifact) \in Nat /\ DOMAIN artifact = 1..Len(artifact)
      /\ \A k \in DOMAIN artifact : artifact[k] \in Lines /\ Genuine(artifact[k])
  BY <1>0 DEF EvidenceTypeOK, Lines, ProvenanceInv
<1> DEFINE Fine(s) == s \in Seq(Lines) /\ \A k \in DOMAIN s : Genuine(s[k])
<1>3. \A k \in DOMAIN artifact : Fine(RemoveAt(artifact, k))
  <2> TAKE k \in DOMAIN artifact
  <2>0. artifact \in Seq(Lines)
    BY <1>2
  <2>1. /\ RemoveAt(artifact, k) \in Seq(Lines)
        /\ \A i \in DOMAIN RemoveAt(artifact, k) :
              \E j \in DOMAIN artifact : RemoveAt(artifact, k)[i] = artifact[j]
    BY <2>0, RemoveAtFacts
  <2>2. QED
    BY <1>2, <2>1, Zenon
<1>4. \A k \in 1..Len(artifact) - 1 : Fine(Swapped(artifact, k))
  <2> TAKE k \in 1..Len(artifact) - 1
  <2>1. k \in 1..Len(artifact) /\ k + 1 \in 1..Len(artifact)
    BY <1>2
  <2>2. QED
    BY <1>2, <2>1 DEF Swapped
<1>5. \A k \in DOMAIN artifact : \A e \in Variants(artifact[k]) : Fine([artifact EXCEPT ![k] = e])
  <2> TAKE k \in DOMAIN artifact
  <2> TAKE e \in Variants(artifact[k])
  <2>1. e \in Lines /\ Genuine(e)
    BY <1>2, VariantFacts
  <2>2. QED
    BY <1>2, <2>1
<1>6. \A e \in Lines : Genuine(e) => Fine(Append(artifact, e))
  <2> TAKE e \in Lines
  <2> HAVE Genuine(e)
  <2>1. \A k \in DOMAIN Append(artifact, e) :
           (k \in DOMAIN artifact /\ Append(artifact, e)[k] = artifact[k]) \/ Append(artifact, e)[k] = e
    BY <1>2, AppendFacts
  <2>2. QED
    BY <1>2, <2>1, AppendFacts
<1>7. Blank \in Lines /\ Genuine(Blank)
  BY Shapes DEF Lines, Genuine
<1> HIDE DEF Fine
<1>8. Fine(artifact')
  BY <1>2, <1>3, <1>4, <1>5, <1>6, <1>7 DEF Edit
<1>9. artifact' \in Seq(Lines) /\ \A k \in DOMAIN artifact' : Genuine(artifact[k])'
  BY <1>1, <1>8 DEF Fine, Genuine
<1>10. QED
  BY <1>0, <1>1, <1>9, ArtifactStep DEF EvidenceTypeOK, ProvenanceInv

\* An edited checkpoint keeps the signature it had.
LEMMA EditCheckpointStep ==
    ASSUME EvidenceInv, EditCheckpoint
    PROVE  EvidenceInv'
<1>0. EvidenceTypeOK /\ ProvenanceInv /\ CheckpointInv /\ DeliveryInv /\ \A c \in Cmds : ReadInv(c)
  BY DEF EvidenceInv
<1>1. UNCHANGED <<format, artifact, partial, cmd, historyVars, appends, edits>> /\ replaced' = TRUE
      /\ file \notin {Absent, Torn}
  BY DEF EditCheckpoint
<1>2. FromIssued(file)
  BY <1>0, <1>1 DEF CheckpointInv
<1>3. file' = Torn \/ (FromIssued(file)' /\ file' # Absent)
  <2>1. \/ file' = Torn
        \/ file' = [file EXCEPT !.version = 2]
        \/ \E f \in Formats : file' = [file EXCEPT !.format = f]
        \/ \E n, d : file' = [file EXCEPT !.records = n, !.digest = d]
    BY DEF EditCheckpoint
  <2>2. QED
    BY <1>1, <1>2, <2>1 DEF FromIssued, historyVars, Absent
<1>4. CheckpointInv'
  BY <1>0, <1>1, <1>3 DEF CheckpointInv, FromIssued, Seal, Loaded, historyVars
<1>5. DeliveryInv'
  BY <1>0, <1>1, <1>3 DEF DeliveryInv, DeliveredStays, historyVars, Torn, Absent
<1>6. ASSUME NEW c \in Cmds PROVE ReadInv(c)'
  BY <1>0, <1>1, ReadStays DEF ReadInv
<1>7. EvidenceTypeOK' /\ ProvenanceInv'
  BY <1>0, <1>1 DEF EvidenceTypeOK, ProvenanceInv, Genuine, historyVars, encode
<1>8. QED
  BY <1>4, <1>5, <1>6, <1>7 DEF EvidenceInv

-----------------------------------------------------------------------------
(* Steps of a command.                                                     *)

LEMMA Parts ==
    ASSUME EvidenceInv, NEW c \in Cmds
    PROVE  /\ EvidenceTypeOK /\ ProvenanceInv /\ CheckpointInv /\ DeliveryInv /\ ReadInv(c)
           /\ CommandTypeOK(cmd[c]) /\ DOMAIN cmd = Cmds /\ DOMAIN cmd[c] = Fields
           /\ HoldsIssued(c)
BY IdleFields DEF EvidenceInv, EvidenceTypeOK, CommandTypeOK, CheckpointInv, HoldsIssued

\* Nothing remains of a command that ended.
LEMMA ExitFacts ==
    ASSUME EvidenceInv, NEW c \in Cmds, NEW code, Exit(c, code), UNCHANGED <<artifactVars, written>>
    PROVE  /\ DOMAIN cmd' = Cmds /\ \A d \in Cmds \ {c} : cmd'[d] = cmd[d]
           /\ cmd'[c].at = "done"
           /\ CommandTypeOK(cmd[c])' /\ ReadInv(c)' /\ HoldsIssued(c)'
           /\ \A k \in DOMAIN cmd'[c].read : Genuine(cmd[c].read[k])'
<1>1. DOMAIN cmd = Cmds
  BY Parts
<1>2. /\ DOMAIN cmd' = Cmds /\ \A d \in Cmds \ {c} : cmd'[d] = cmd[d]
      /\ cmd'[c] = [Idle EXCEPT !.at = "done", !.exit = code]
  BY <1>1 DEF Exit
<1>3. /\ DOMAIN cmd'[c] = DOMAIN Idle /\ cmd'[c].at = "done" /\ cmd'[c].opt = NoCommand
      /\ cmd'[c].read = <<>> /\ cmd'[c].digest = <<>> /\ cmd'[c].result = NoResult
      /\ cmd'[c].last = 0 /\ cmd'[c].line = 0
  BY <1>2, IdleFields DEF Idle, Fields
<1>4. CommandTypeOK(cmd[c])'
  BY <1>3, NoResultType DEF CommandTypeOK
<1>5. DOMAIN cmd'[c].read = {}
  BY <1>3
<1>6. ReadInv(c)'
  BY <1>3, <1>5 DEF ReadInv
<1>7. HoldsIssued(c)'
  BY <1>3 DEF HoldsIssued
<1>8. QED
  BY <1>2, <1>3, <1>4, <1>5, <1>6, <1>7

\* A command ends without success, or is killed; it may have torn the file that it
\* was writing.
LEMMA ExitStep ==
    ASSUME EvidenceInv, NEW c \in Cmds, NEW code, Exit(c, code),
           UNCHANGED <<artifactVars, historyVars, replaced>>,
           file' = file \/ (file' = Torn /\ cmd[c].at = "write")
    PROVE  EvidenceInv'
<1>0. CheckpointInv /\ DeliveryInv
  BY Parts
<1>1. UNCHANGED <<artifactVars, written, issued, delivered>> /\ format' = format
  BY DEF historyVars, artifactVars
<1>2. /\ DOMAIN cmd' = Cmds /\ \A d \in Cmds \ {c} : cmd'[d] = cmd[d]
      /\ cmd'[c].at = "done"
      /\ CommandTypeOK(cmd[c])' /\ ReadInv(c)' /\ HoldsIssued(c)'
      /\ \A k \in DOMAIN cmd'[c].read : Genuine(cmd[c].read[k])'
  BY <1>1, ExitFacts
<1>3. CheckpointInv'
  BY <1>0, <1>1, <1>2, CheckpointStays
<1>4. DeliveryInv'
  <2>1. CASE file' = file
    BY <1>0, <1>1, <1>2, <2>1, DeliveryStays
  <2>2. CASE file' = Torn /\ cmd[c].at = "write"
    <3>1. delivered = {} /\ \A d \in Cmds \ {c} : cmd[d].at \notin {"write", "sync"}
      BY <1>0, <2>2 DEF DeliveryInv
    <3>2. \A d \in Cmds : cmd'[d].at \notin {"write", "sync"}
      BY <1>2, <3>1
    <3>3. QED
      BY <1>1, <3>1, <3>2 DEF DeliveryInv, DeliveredStays
  <2>3. QED
    BY <2>1, <2>2
<1>5. QED
  BY <1>1, <1>2, <1>3, <1>4, CommandStep

LEMMA StartStep ==
    ASSUME EvidenceInv, NEW c \in Cmds, NEW o \in Commands, Start(c, o)
    PROVE  EvidenceInv'
<1>0. /\ CheckpointInv /\ DeliveryInv /\ ReadInv(c) /\ CommandTypeOK(cmd[c])
      /\ DOMAIN cmd = Cmds /\ DOMAIN cmd[c] = Fields
  BY Parts
<1>1. cmd[c].at = "idle" /\ UNCHANGED <<artifactVars, file, historyVars, replaced>>
  BY DEF Start
<1>2. CASE Usage(o)
  BY <1>1, <1>2, ExitStep DEF Start
<1>3. CASE ~Usage(o)
  <2>1. cmd' = [cmd EXCEPT ![c].at = IF o.checkpoint THEN "load" ELSE "open", ![c].opt = o]
    BY <1>3 DEF Start
  <2>2. /\ DOMAIN cmd' = Cmds /\ \A d \in Cmds \ {c} : cmd'[d] = cmd[d]
        /\ cmd'[c].at = IF o.checkpoint THEN "load" ELSE "open"
        /\ cmd'[c].opt = o /\ DOMAIN cmd'[c] = Fields
        /\ \A x \in Fields \ {"at", "opt"} : cmd'[c][x] = cmd[c][x]
    BY <1>0, <2>1 DEF Fields
  <2>3. /\ cmd'[c].read = <<>> /\ cmd'[c].result = NoResult /\ cmd'[c].digest = <<>>
        /\ cmd'[c].last = cmd[c].last /\ cmd'[c].line = cmd[c].line
    BY <1>0, <1>1, <2>2 DEF ReadInv, Fields
  <2>4. CommandTypeOK(cmd[c])'
    BY <1>0, <2>2, <2>3, IdleFields, NoResultType DEF CommandTypeOK
  <2>5. DOMAIN cmd'[c].read = {}
    BY <2>3
  <2>6. ReadInv(c)'
    BY <2>2, <2>3 DEF ReadInv
  <2>7. HoldsIssued(c)'
    <3>1. cmd'[c].at = "open" => ~Loaded(c)'
      BY <2>2 DEF Loaded
    <3>2. QED
      BY <2>2, <3>1 DEF HoldsIssued
  <2>8. CheckpointInv' /\ DeliveryInv'
    BY <1>0, <1>1, <2>2, <2>7, CheckpointStays, DeliveryStays DEF historyVars, artifactVars
  <2>9. QED
    BY <1>1, <2>2, <2>4, <2>5, <2>6, <2>8, CommandStep DEF historyVars
<1>4. QED
  BY <1>2, <1>3

LEMMA LoadStep ==
    ASSUME EvidenceInv, NEW c \in Cmds, loadCheckpoint(c)
    PROVE  EvidenceInv'
<1>0. /\ CheckpointInv /\ DeliveryInv /\ ReadInv(c) /\ CommandTypeOK(cmd[c])
      /\ DOMAIN cmd = Cmds /\ DOMAIN cmd[c] = Fields
  BY Parts
<1>1. cmd[c].at = "load" /\ UNCHANGED <<artifactVars, file, historyVars, replaced>>
  BY DEF loadCheckpoint
<1>2. CASE file \in {Absent, Torn}
  BY <1>1, <1>2, ExitStep DEF loadCheckpoint
<1>3. CASE file \notin {Absent, Torn}
  <2>1. cmd' = [cmd EXCEPT ![c].at = "open", ![c].checkpoint = file]
    BY <1>3 DEF loadCheckpoint
  <2>2. /\ DOMAIN cmd' = Cmds /\ \A d \in Cmds \ {c} : cmd'[d] = cmd[d]
        /\ cmd'[c].at = "open" /\ cmd'[c].checkpoint = file /\ DOMAIN cmd'[c] = Fields
        /\ \A x \in Fields \ {"at", "checkpoint"} : cmd'[c][x] = cmd[c][x]
    BY <1>0, <2>1 DEF Fields
  <2>3. /\ cmd'[c].read = <<>> /\ cmd'[c].result = NoResult /\ cmd'[c].digest = <<>>
        /\ cmd'[c].last = cmd[c].last /\ cmd'[c].line = cmd[c].line /\ cmd'[c].opt = cmd[c].opt
    BY <1>0, <1>1, <2>2 DEF ReadInv, Fields
  <2>4. CommandTypeOK(cmd[c])'
    BY <1>0, <1>1, <2>2, <2>3, IdleFields, NoResultType DEF CommandTypeOK
  <2>5. DOMAIN cmd'[c].read = {}
    BY <2>3
  <2>6. ReadInv(c)'
    BY <2>2, <2>3 DEF ReadInv
  <2>7. HoldsIssued(c)'
    BY <1>0, <1>1, <1>3, <2>2 DEF HoldsIssued, CheckpointInv, FromIssued, historyVars
  <2>8. CheckpointInv' /\ DeliveryInv'
    BY <1>0, <1>1, <2>2, <2>7, CheckpointStays, DeliveryStays DEF historyVars, artifactVars
  <2>9. QED
    BY <1>1, <2>2, <2>4, <2>5, <2>6, <2>8, CommandStep DEF historyVars
<1>4. QED
  BY <1>2, <1>3

LEMMA OpenStep ==
    ASSUME EvidenceInv, NEW c \in Cmds, Open(c)
    PROVE  EvidenceInv'
<1>0. /\ CheckpointInv /\ DeliveryInv /\ ReadInv(c) /\ CommandTypeOK(cmd[c])
      /\ DOMAIN cmd = Cmds /\ DOMAIN cmd[c] = Fields /\ HoldsIssued(c)
  BY Parts
<1>1. cmd[c].at = "open" /\ UNCHANGED <<artifactVars, file, historyVars, replaced>>
  BY DEF Open
<1>2. CASE Exit(c, 2)
  BY <1>1, <1>2, ExitStep
<1>3. ASSUME NEW f, cmd' = [cmd EXCEPT ![c].at = "scan", ![c].format = f, ![c].last = Len(artifact)]
      PROVE  EvidenceInv'
  <2>1. Len(artifact) \in Nat
    BY Parts DEF EvidenceTypeOK
  <2>2. /\ DOMAIN cmd' = Cmds /\ \A d \in Cmds \ {c} : cmd'[d] = cmd[d]
        /\ cmd'[c].at = "scan" /\ cmd'[c].last = Len(artifact) /\ DOMAIN cmd'[c] = Fields
        /\ \A x \in Fields \ {"at", "format", "last"} : cmd'[c][x] = cmd[c][x]
    BY <1>0, <1>3 DEF Fields
  <2>3. /\ cmd'[c].read = <<>> /\ cmd'[c].result = NoResult /\ cmd'[c].digest = <<>>
        /\ cmd'[c].line = cmd[c].line /\ cmd'[c].opt = cmd[c].opt
        /\ cmd'[c].checkpoint = cmd[c].checkpoint
    BY <1>0, <1>1, <2>2 DEF ReadInv, Fields
  <2>4. CommandTypeOK(cmd[c])'
    BY <1>0, <1>1, <2>1, <2>2, <2>3, IdleFields, NoResultType DEF CommandTypeOK
  <2>5. DOMAIN cmd'[c].read = {} /\ Len(cmd'[c].read) = 0
    BY <2>3
  <2>6. ReadInv(c)'
    <3>1. Covered(c)' = <<>>
      BY <2>5 DEF Covered
    <3>2. cmd'[c].last <= Len(artifact')
      BY <1>1, <2>1, <2>2 DEF artifactVars
    <3>3. QED
      BY <2>2, <2>3, <2>5, <3>1, <3>2, NoResultType DEF ReadInv
  <2>7. HoldsIssued(c)'
    BY <1>0, <1>1, <2>2, <2>3 DEF HoldsIssued, FromIssued, Loaded, historyVars
  <2>8. CheckpointInv' /\ DeliveryInv'
    BY <1>0, <1>1, <2>2, <2>7, CheckpointStays, DeliveryStays DEF historyVars, artifactVars
  <2>9. QED
    BY <1>1, <2>2, <2>4, <2>5, <2>6, <2>8, CommandStep DEF historyVars
<1>4. QED
  BY <1>2, <1>3 DEF Open

\* The next line or row of the artifact.
LEMMA NextLine ==
    ASSUME EvidenceInv, NEW c \in Cmds, cmd[c].at = "scan", cmd[c].line < End(c)
    PROVE  artifact[cmd[c].line + 1] \in Lines /\ Genuine(artifact[cmd[c].line + 1])
<1>1. /\ artifact \in Seq(Lines) /\ Len(artifact) \in Nat /\ cmd[c].line \in Nat /\ cmd[c].last \in Nat
      /\ \A k \in DOMAIN artifact : Genuine(artifact[k])
  BY Parts DEF EvidenceTypeOK, CommandTypeOK, ProvenanceInv, Lines
<1>2. cmd[c].last <= Len(artifact)
  BY Parts DEF ReadInv
<1>3. cmd[c].line + 1 \in 1..Len(artifact)
  BY <1>1, <1>2 DEF End
<1>4. QED
  BY <1>1, <1>3

\* The digest of the records read, and of one more.
LEMMA CoveredAppend ==
    ASSUME NEW s \in Seq(Records), NEW e \in Entries, NEW f
    PROVE  LET cover(r) == [k \in DOMAIN r |-> canonical(r[k], f)]
           IN  cover(Append(s, e)) = Append(cover(s), canonical(e, f))
<1> DEFINE cover(r) == [k \in DOMAIN r |-> canonical(r[k], f)]
           x == canonical(e, f)
<1>1. /\ Append(s, e) \in Seq(Records) /\ Len(s) \in Nat
      /\ DOMAIN s = 1..Len(s) /\ DOMAIN Append(s, e) = 1..Len(s) + 1
      /\ \A k \in 1..Len(s) : Append(s, e)[k] = s[k]
      /\ Append(s, e)[Len(s) + 1] = e
  BY AppendFacts DEF Records
<1>2. cover(s) \in Seq({canonical(s[k], f) : k \in 1..Len(s)} \cup {x}) /\ Len(cover(s)) = Len(s)
  BY <1>1
<1>3. /\ DOMAIN Append(cover(s), x) = 1..Len(s) + 1
      /\ \A k \in 1..Len(s) : Append(cover(s), x)[k] = cover(s)[k]
      /\ Append(cover(s), x)[Len(s) + 1] = x
  <2> DEFINE u == cover(s)
             U == {canonical(s[k], f) : k \in 1..Len(s)} \cup {x}
  <2>1. u \in Seq(U) /\ x \in U /\ Len(u) = Len(s)
    BY <1>2
  <2> HIDE DEF u, U
  <2>2. QED
    BY <2>1, AppendFacts DEF u
<1>4. \A k \in 1..Len(s) + 1 : cover(Append(s, e))[k] = Append(cover(s), x)[k]
  <2> TAKE k \in 1..Len(s) + 1
  <2>1. CASE k \in 1..Len(s)
    BY <1>1, <1>3, <2>1
  <2>2. CASE k = Len(s) + 1
    BY <1>1, <1>3, <2>2
  <2>3. QED
    BY <1>1, <2>1, <2>2
<1>5. DOMAIN cover(Append(s, e)) = 1..Len(s) + 1
  BY <1>1
<1>6. cover(Append(s, e)) = Append(cover(s), x)
  <2>1. cover(Append(s, e)) = [k \in 1..Len(s) + 1 |-> cover(Append(s, e))[k]]
    BY <1>5
  <2>2. Append(cover(s), x) = [k \in 1..Len(s) + 1 |-> Append(cover(s), x)[k]]
    <3> DEFINE u == cover(s)
               U == {canonical(s[k], f) : k \in 1..Len(s)} \cup {x}
    <3>1. u \in Seq(U) /\ x \in U
      BY <1>2
    <3> HIDE DEF u, U, x
    <3>2. Append(u, x) \in Seq(U)
      BY <3>1, AppendFacts
    <3>3. DOMAIN Append(u, x) = 1..Len(s) + 1
      BY <1>3 DEF u
    <3>4. Append(u, x) = [k \in DOMAIN Append(u, x) |-> Append(u, x)[k]]
      <4>1. Append(u, x) \in [1..Len(Append(u, x)) -> U]
        BY <3>2, LenProperties, Zenon
      <4>2. QED
        BY <4>1
    <3>5. QED
      BY <3>3, <3>4 DEF u
  <2>3. QED
    BY <1>4, <2>1, <2>2, Zenon
<1>7. QED
  BY <1>6

\* A blank line is passed over.
LEMMA ScanBlank ==
    ASSUME EvidenceInv, NEW c \in Cmds, cmd[c].at = "scan", cmd' = [cmd EXCEPT ![c].line = @ + 1],
           UNCHANGED <<artifactVars, file, historyVars, replaced>>
    PROVE  EvidenceInv'
<1>0. /\ CheckpointInv /\ DeliveryInv /\ ReadInv(c) /\ CommandTypeOK(cmd[c]) /\ ProvenanceInv
      /\ DOMAIN cmd = Cmds /\ DOMAIN cmd[c] = Fields /\ HoldsIssued(c)
  BY Parts
<1>1. /\ DOMAIN cmd' = Cmds /\ \A d \in Cmds \ {c} : cmd'[d] = cmd[d]
      /\ DOMAIN cmd'[c] = Fields /\ cmd'[c].line = cmd[c].line + 1
      /\ \A x \in Fields \ {"line"} : cmd'[c][x] = cmd[c][x]
  BY <1>0 DEF Fields
<1>2. /\ cmd'[c].at = "scan" /\ cmd'[c].opt = cmd[c].opt /\ cmd'[c].format = cmd[c].format
      /\ cmd'[c].last = cmd[c].last /\ cmd'[c].read = cmd[c].read /\ cmd'[c].result = cmd[c].result
      /\ cmd'[c].digest = cmd[c].digest /\ cmd'[c].checkpoint = cmd[c].checkpoint
  BY <1>1 DEF Fields
<1>3. CommandTypeOK(cmd[c])'
  BY <1>0, <1>1, <1>2 DEF CommandTypeOK
<1>4. Covered(c)' = Covered(c)
  BY <1>2 DEF Covered, artifactVars
<1>5. ReadInv(c)'
  BY <1>0, <1>2, <1>4 DEF ReadInv, artifactVars
<1>6. HoldsIssued(c)'
  BY <1>0, <1>2 DEF HoldsIssued, FromIssued, Loaded, historyVars
<1>7. CheckpointInv' /\ DeliveryInv'
  BY <1>0, <1>1, <1>2, <1>6, CheckpointStays, DeliveryStays DEF historyVars, artifactVars
<1>8. \A k \in DOMAIN cmd'[c].read : Genuine(cmd[c].read[k])'
  BY <1>0, <1>2 DEF ProvenanceInv, Genuine, historyVars
<1>9. QED
  BY <1>1, <1>3, <1>5, <1>7, <1>8, CommandStep DEF historyVars

LEMMA ScanStep ==
    ASSUME EvidenceInv, NEW c \in Cmds, Scan(c)
    PROVE  EvidenceInv'
<1> DEFINE s == cmd[c]
           e == IF s.format = format THEN artifact[s.line + 1] ELSE Malformed
<1>0. /\ CheckpointInv /\ DeliveryInv /\ ReadInv(c) /\ CommandTypeOK(cmd[c]) /\ ProvenanceInv
      /\ DOMAIN cmd = Cmds /\ DOMAIN cmd[c] = Fields /\ HoldsIssued(c)
  BY Parts
<1>1. s.at = "scan" /\ s.line < End(c) /\ UNCHANGED <<artifactVars, file, historyVars, replaced>>
  BY DEF Scan
<1>2. e \in Lines /\ Genuine(e) /\ (s.format # format => e = Malformed)
  BY <1>1, NextLine, Shapes DEF Lines, Genuine
<1>3. CASE e = Blank
  BY <1>1, <1>3, ScanBlank DEF Scan
<1>4. CASE e # Blank
  <2>1. cmd' = [cmd EXCEPT ![c].line = @ + 1, ![c].read = Append(@, e),
                           ![c].result = record(@, e, s.opt.key, requireV2(s.opt)),
                           ![c].digest = IF e = Malformed THEN @ ELSE add(@, e, format)]
    BY <1>4 DEF Scan
  <2> HIDE DEF e
  <2>2. /\ DOMAIN cmd' = Cmds /\ \A d \in Cmds \ {c} : cmd'[d] = cmd[d]
        /\ DOMAIN cmd'[c] = Fields /\ cmd'[c].line = s.line + 1 /\ cmd'[c].read = Append(s.read, e)
        /\ cmd'[c].result = record(s.result, e, s.opt.key, requireV2(s.opt))
        /\ cmd'[c].digest = IF e = Malformed THEN s.digest ELSE add(s.digest, e, format)
        /\ \A x \in Fields \ {"line", "read", "result", "digest"} : cmd'[c][x] = cmd[c][x]
    BY <1>0, <2>1 DEF Fields
  <2>3. /\ cmd'[c].at = "scan" /\ cmd'[c].opt = s.opt /\ cmd'[c].format = s.format
        /\ cmd'[c].last = s.last /\ cmd'[c].checkpoint = s.checkpoint
    BY <1>1, <2>2 DEF Fields
  <2>4. /\ e \in Records /\ s.read \in Seq(Records) /\ s.digest \in Seq(Entries)
        /\ s.result \in [Counters -> Nat] /\ (e # Malformed => e \in Entries)
    BY <1>0, <1>2, <1>4 DEF Records, Lines, CommandTypeOK
  <2>5. /\ cmd'[c].read \in Seq(Records) /\ Len(s.read) \in Nat
        /\ Len(cmd'[c].read) = Len(s.read) + 1
        /\ DOMAIN s.read = 1..Len(s.read) /\ DOMAIN cmd'[c].read = 1..Len(s.read) + 1
        /\ \A k \in 1..Len(s.read) : cmd'[c].read[k] = s.read[k]
        /\ cmd'[c].read[Len(s.read) + 1] = e
    BY <2>2, <2>4, AppendFacts
  <2>6. \A k : k \in DOMAIN cmd'[c].read <=> k \in DOMAIN s.read \/ k = Len(s.read) + 1
    BY <2>5
  <2>7. cmd'[c].digest \in Seq(Entries)
    <3>1. CASE e = Malformed
      BY <2>2, <2>4, <3>1
    <3>2. CASE e # Malformed
      BY <2>2, <2>4, <3>2, CanonicalType DEF add
    <3>3. QED
      BY <3>1, <3>2
  <2>8. /\ cmd'[c].result \in [Counters -> Nat] /\ cmd'[c].result.total = s.result.total + 1
        /\ cmd'[c].result.invalid = 0 /\ cmd'[c].result.unsigned = 0
              <=> s.result.invalid = 0 /\ s.result.unsigned = 0 /\ Passes(e, s.opt)
    BY <2>2, <2>4, RecordStep, ZenonT(60)
  <2>9. CommandTypeOK(cmd[c])'
    BY <1>0, <1>1, <2>2, <2>3, <2>5, <2>7, <2>8, IdleFields DEF CommandTypeOK, Records
  <2>10. (\A k \in DOMAIN cmd'[c].read : cmd'[c].read[k] # Malformed) => cmd'[c].digest = Covered(c)'
    <3>1. SUFFICES ASSUME \A k \in DOMAIN cmd'[c].read : cmd'[c].read[k] # Malformed
                   PROVE  cmd'[c].digest = Covered(c)'
      OBVIOUS
    <3>2. e # Malformed /\ \A k \in DOMAIN s.read : s.read[k] # Malformed
      BY <2>5, <2>6, <3>1
    <3>3. s.digest = Covered(c)
      BY <1>0, <1>1, <3>2 DEF ReadInv
    <3>4. [k \in DOMAIN Append(s.read, e) |-> canonical(Append(s.read, e)[k], format)]
             = Append([k \in DOMAIN s.read |-> canonical(s.read[k], format)], canonical(e, format))
      BY <2>4, <3>2, CoveredAppend
    <3>5. QED
      BY <1>1, <2>2, <3>2, <3>3, <3>4 DEF Covered, add, artifactVars
  <2>11. ReadInv(c)'
    <3>1. s.format # format => \A k \in DOMAIN cmd'[c].read : cmd'[c].read[k] = Malformed
      BY <1>0, <1>1, <1>2, <2>5, <2>6 DEF ReadInv
    <3>2. (\A k \in DOMAIN cmd'[c].read : Passes(cmd'[c].read[k], s.opt))
             <=> (\A k \in DOMAIN s.read : Passes(s.read[k], s.opt)) /\ Passes(e, s.opt)
      BY <2>5, <2>6
    <3>3. /\ s.last <= Len(artifact) /\ s.result.total = Len(s.read)
          /\ s.result.invalid = 0 /\ s.result.unsigned = 0
                <=> \A k \in DOMAIN s.read : Passes(s.read[k], s.opt)
      BY <1>0, <1>1 DEF ReadInv
    <3>4. cmd'[c].result.total = Len(cmd'[c].read)
      BY <2>5, <2>8, <3>3
    <3>5. cmd'[c].result.invalid = 0 /\ cmd'[c].result.unsigned = 0
             <=> \A k \in DOMAIN cmd'[c].read : Passes(cmd'[c].read[k], cmd'[c].opt)
      BY <2>3, <2>8, <3>2, <3>3
    <3>6. QED
      BY <1>1, <2>3, <2>10, <3>1, <3>3, <3>4, <3>5 DEF ReadInv, artifactVars
  <2>12. HoldsIssued(c)'
    BY <1>0, <1>1, <2>3 DEF HoldsIssued, FromIssued, Loaded, historyVars
  <2>13. CheckpointInv' /\ DeliveryInv'
    BY <1>0, <1>1, <2>2, <2>3, <2>12, CheckpointStays, DeliveryStays DEF historyVars, artifactVars
  <2>14. ASSUME NEW k \in DOMAIN cmd'[c].read PROVE Genuine(cmd[c].read[k])'
    <3>1. Genuine(cmd'[c].read[k])
      BY <1>0, <1>2, <2>5, <2>6, <2>14 DEF ProvenanceInv
    <3>2. QED
      BY <1>1, <3>1 DEF Genuine, historyVars
  <2>15. QED
    BY <1>1, <2>2, <2>9, <2>11, <2>13, <2>14, CommandStep DEF historyVars
<1>5. QED
  BY <1>3, <1>4

\* The end of the input of verify: the exit code is the verdict on what was read.
LEMMA VerifyEnds ==
    ASSUME EvidenceInv, NEW c \in Cmds, cmd[c].at = "scan", cmd[c].opt.name = "verify",
           NEW half \in BOOLEAN, NEW n, NEW seen, NEW code \in {0, 1},
           n = IF half THEN record(cmd[c].result, Malformed, cmd[c].opt.key, TRUE) ELSE cmd[c].result,
           seen = IF half THEN Append(cmd[c].read, Malformed) ELSE cmd[c].read,
           code = 0 <=> Clean(n, requireV2(cmd[c].opt),
                              cmd[c].opt.checkpoint => verifyCheckpoint(cmd[c].checkpoint, cmd[c].format,
                                                                        cmd[c].digest, cmd[c].opt.key)),
           cmd' = [cmd EXCEPT ![c] = [cmd[c] EXCEPT !.at = "done", !.last = 0, !.line = 0, !.digest = <<>>,
                                                    !.read = seen, !.result = n,
                                                    !.exit = code]],
           UNCHANGED <<artifactVars, file, historyVars, replaced>>
    PROVE  EvidenceInv'
<1> DEFINE s == cmd[c]
           o == cmd[c].opt
           checked == o.checkpoint => verifyCheckpoint(s.checkpoint, s.format, s.digest, o.key)
<1>0. /\ CheckpointInv /\ DeliveryInv /\ ReadInv(c) /\ CommandTypeOK(cmd[c]) /\ ProvenanceInv
      /\ DOMAIN cmd = Cmds /\ DOMAIN cmd[c] = Fields /\ HoldsIssued(c)
  BY Parts
<1>1. /\ DOMAIN cmd' = Cmds /\ \A d \in Cmds \ {c} : cmd'[d] = cmd[d]
      /\ DOMAIN cmd'[c] = Fields /\ cmd'[c].at = "done" /\ cmd'[c].last = 0 /\ cmd'[c].line = 0
      /\ cmd'[c].digest = <<>> /\ cmd'[c].read = seen /\ cmd'[c].result = n
      /\ cmd'[c].exit = code
      /\ cmd'[c].opt = o /\ cmd'[c].format = s.format /\ cmd'[c].checkpoint = s.checkpoint
  BY <1>0 DEF Fields
<1>2. /\ s.read \in Seq(Records) /\ s.result \in [Counters -> Nat] /\ Malformed \in Records
      /\ Len(s.read) \in Nat /\ DOMAIN s.read = 1..Len(s.read)
  BY <1>0 DEF CommandTypeOK, Records
<1>3. /\ o \in Commands /\ o # NoCommand
  <2>1. o \in Commands
    BY <1>0 DEF CommandTypeOK
  <2>2. QED
    BY <2>1 DEF NoCommand
<1>4. seen \in Seq(Records) /\ n \in [Counters -> Nat]
  BY <1>2, AppendFacts, HalfLine
<1>5. CommandTypeOK(cmd[c])'
  <2>1. DOMAIN cmd'[c] = DOMAIN Idle /\ cmd'[c].opt \in Commands
    BY <1>1, <1>3, IdleFields
  <2>2. cmd'[c].read \in Seq(Entries \cup {Malformed}) /\ cmd'[c].result \in [Counters -> Nat]
    BY <1>1, <1>4 DEF Records
  <2>3. cmd'[c].last \in Nat /\ cmd'[c].line \in Nat /\ cmd'[c].digest \in Seq(Entries)
    BY <1>1, EmptySeq
  <2>4. QED
    BY <1>1, <2>1, <2>2, <2>3, Zenon DEF CommandTypeOK
<1>6. /\ s.result.total = Len(s.read)
      /\ s.result.invalid = 0 /\ s.result.unsigned = 0 <=> \A k \in DOMAIN s.read : Passes(s.read[k], o)
      /\ (\A k \in DOMAIN s.read : s.read[k] # Malformed) => s.digest = Covered(c)
      /\ s.format # format => \A k \in DOMAIN s.read : s.read[k] = Malformed
  BY <1>0 DEF ReadInv
<1> DEFINE verdict == /\ \A k \in DOMAIN seen : Passes(seen[k], o)
                      /\ requireV2(o) => seen # <<>>
                      /\ o.checkpoint => verifyCheckpoint(s.checkpoint, s.format, Covered(c)', o.key)
<1>7. ASSUME ~half
      PROVE  /\ code = 0 <=> verdict
             /\ s.format # format => \A k \in DOMAIN seen : seen[k] = Malformed
             /\ \A k \in DOMAIN seen : Genuine(seen[k])
  <2>1. n = s.result /\ seen = s.read
    BY <1>7
  <2>2. Covered(c)' = Covered(c)
    BY <1>1, <2>1 DEF Covered, artifactVars
  <2>3. code = 0 <=> /\ \A k \in DOMAIN s.read : Passes(s.read[k], o)
                     /\ requireV2(o) => s.result.total # 0
                     /\ checked
    BY <1>6, <2>1 DEF Clean
  <2>4. s.result.total # 0 <=> s.read # <<>>
    BY <1>2, <1>6, EmptySeq
  <2>5. (\A k \in DOMAIN s.read : Passes(s.read[k], o)) => s.digest = Covered(c)
    BY <1>6 DEF Passes
  <2>6. code = 0 <=> verdict
    BY <2>1, <2>2, <2>3, <2>4, <2>5
  <2>7. s.format # format => \A k \in DOMAIN seen : seen[k] = Malformed
    BY <1>6, <2>1
  <2>8. \A k \in DOMAIN seen : Genuine(seen[k])
    BY <1>0, <2>1 DEF ProvenanceInv
  <2>9. QED
    BY <2>6, <2>7, <2>8
<1>8. ASSUME half
      PROVE  /\ code = 0 <=> verdict
             /\ s.format # format => \A k \in DOMAIN seen : seen[k] = Malformed
             /\ \A k \in DOMAIN seen : Genuine(seen[k])
  <2>1. /\ DOMAIN seen = 1..Len(s.read) + 1 /\ seen[Len(s.read) + 1] = Malformed
        /\ \A k \in 1..Len(s.read) : seen[k] = s.read[k]
        /\ \A k \in DOMAIN seen : k \in DOMAIN s.read \/ k = Len(s.read) + 1
        /\ Len(s.read) + 1 \in DOMAIN seen
    BY <1>2, <1>8, AppendFacts
  <2>2. n.invalid # 0
    <3>1. n = record(s.result, Malformed, o.key, TRUE)
      BY <1>8
    <3>2. QED
      BY <1>2, <3>1, HalfLine, Zenon
  <2>3. code # 0
    BY <2>2 DEF Clean
  <2>4. ~verdict
    BY <2>1 DEF Passes
  <2>5. s.format # format => \A k \in DOMAIN seen : seen[k] = Malformed
    BY <1>2, <1>6, <2>1
  <2>6. \A k \in DOMAIN seen : Genuine(seen[k])
    BY <1>0, <1>2, <2>1, Shapes DEF ProvenanceInv, Genuine
  <2>7. QED
    BY <2>3, <2>4, <2>5, <2>6
<1>9. /\ code = 0 <=> verdict
      /\ s.format # format => \A k \in DOMAIN seen : seen[k] = Malformed
      /\ \A k \in DOMAIN seen : Genuine(seen[k])
  BY <1>7, <1>8
<1>10. ReadInv(c)'
  <2>1. format' = format
    BY DEF artifactVars
  <2>2. QED
    BY <1>1, <1>9, <2>1 DEF ReadInv, Loaded
<1>11. HoldsIssued(c)'
  BY <1>0, <1>1, <1>3 DEF HoldsIssued, FromIssued, Loaded, historyVars
<1>12. CheckpointInv' /\ DeliveryInv'
  BY <1>0, <1>1, <1>11, CheckpointStays, DeliveryStays DEF historyVars, artifactVars
<1>13. ASSUME NEW k \in DOMAIN cmd'[c].read PROVE Genuine(cmd[c].read[k])'
  <2>1. Genuine(cmd'[c].read[k]) /\ written' = written
    BY <1>1, <1>9, <1>13 DEF historyVars
  <2>2. QED
    BY <2>1 DEF Genuine
<1>14. QED
  BY <1>1, <1>5, <1>10, <1>12, <1>13, CommandStep DEF historyVars

\* A checkpoint is made of entries the proxy signed, so with the key of the proxy.
LEMMA CheckpointEnds ==
    ASSUME EvidenceInv, NEW c \in Cmds, cmd[c].at = "scan", cmd[c].opt.name = "checkpoint",
           Clean(cmd[c].result, requireV2(cmd[c].opt), TRUE), NEW made,
           made = CreateCheckpoint(cmd[c].format, cmd[c].opt.format, cmd[c].digest, cmd[c].opt.key),
           cmd' = [cmd EXCEPT ![c] = [Idle EXCEPT !.at = "create", !.opt = cmd[c].opt, !.checkpoint = made]],
           issued' = issued \cup {<<made, cmd[c].digest>>},
           UNCHANGED <<artifactVars, file, written, delivered, replaced>>
    PROVE  EvidenceInv'
<1> DEFINE s == cmd[c]
           o == cmd[c].opt
<1>0. /\ CheckpointInv /\ DeliveryInv /\ ReadInv(c) /\ CommandTypeOK(cmd[c]) /\ ProvenanceInv
      /\ DOMAIN cmd = Cmds
  BY Parts
<1>1. /\ DOMAIN cmd' = Cmds /\ \A d \in Cmds \ {c} : cmd'[d] = cmd[d]
      /\ cmd'[c] = [Idle EXCEPT !.at = "create", !.opt = o, !.checkpoint = made]
  BY <1>0
<1>2. /\ DOMAIN cmd'[c] = DOMAIN Idle /\ cmd'[c].at = "create" /\ cmd'[c].opt = o
      /\ cmd'[c].checkpoint = made
      /\ cmd'[c].read = <<>> /\ cmd'[c].digest = <<>> /\ cmd'[c].result = NoResult
      /\ cmd'[c].last = 0 /\ cmd'[c].line = 0
  BY <1>1, IdleFields DEF Idle, Fields
<1>3. o \in Commands
  BY <1>0 DEF CommandTypeOK
<1>4. CommandTypeOK(cmd[c])'
  <2>1. 0 \in Nat /\ <<>> \in Seq(Entries) /\ <<>> \in Seq(Entries \cup {Malformed})
    OBVIOUS
  <2>2. QED
    BY <1>2, <1>3, <2>1, NoResultType, Zenon DEF CommandTypeOK
<1>5. DOMAIN cmd'[c].read = {}
  BY <1>2
<1>6. ReadInv(c)'
  BY <1>2 DEF ReadInv
<1>7. /\ Len(s.read) # 0 /\ requireV2(o)
      /\ \A k \in DOMAIN s.read : Passes(s.read[k], o)
      /\ s.format # format => \A k \in DOMAIN s.read : s.read[k] = Malformed
  BY <1>0 DEF ReadInv, Clean, requireV2
<1>8. 1 \in DOMAIN s.read /\ s.read[1] \in Records
  <2>1. s.read \in Seq(Records)
    BY <1>0 DEF CommandTypeOK, Records
  <2>2. Len(s.read) \in Nat /\ DOMAIN s.read = 1..Len(s.read)
    BY <2>1, LenProperties
  <2>3. 1 \in 1..Len(s.read)
    BY <1>7, <2>2
  <2>4. QED
    BY <2>1, <2>2, <2>3, ElementOfSeq
<1> DEFINE e == s.read[1]
<1>9. /\ e \in Entries /\ s.format = format
      /\ verify(e, o.key, requireV2(o)) \in {"verified", "legacy"}
  BY <1>7, <1>8 DEF Passes, Records
<1>10. e.integrity # NoIntegrity /\ VerifyV2(e, o.key)
  BY <1>7, <1>9 DEF verify
<1>11. o.key.id = KeyID /\ o.key.secret = Secret
  <2>1. e.integrity.keyID = KeyID /\ e.integrity.mac \in {Secret} \X Nat \X Splits \X Nat
    BY <1>9, <1>10 DEF Entries
  <2>2. e.integrity.keyID = o.key.id /\ e.integrity.mac = <<o.key.secret, e.core, e.split, e.rest>>
    BY <1>10 DEF VerifyV2, V2
  <2>3. QED
    BY <2>1, <2>2
<1>12. made = Seal(s.digest)
  BY <1>9, <1>11 DEF CreateCheckpoint, Seal
<1>13. \A i \in issued' \ issued : i = <<Seal(i[2]), i[2]>>
  BY <1>12
<1>14. HoldsIssued(c)'
  <2>1. <<made, s.digest>> \in issued' /\ <<made, s.digest>>[1] = made
    OBVIOUS
  <2>2. QED
    BY <1>2, <2>1 DEF HoldsIssued
<1>15. CheckpointInv'
  BY <1>0, <1>1, <1>13, <1>14, CheckpointStays DEF artifactVars
<1>16. DeliveryInv'
  BY <1>0, <1>1, <1>2, DeliveryStays
<1>17. QED
  BY <1>1, <1>4, <1>5, <1>6, <1>15, <1>16, CommandStep

LEMMA ScanEndsStep ==
    ASSUME EvidenceInv, NEW c \in Cmds, ScanEnds(c)
    PROVE  EvidenceInv'
<1> DEFINE s == cmd[c]
           o == cmd[c].opt
           n(half) == IF half THEN record(s.result, Malformed, o.key, TRUE) ELSE s.result
           checked == o.checkpoint => verifyCheckpoint(s.checkpoint, s.format, s.digest, o.key)
           clean(half) == Clean(n(half), requireV2(o), checked)
           made == CreateCheckpoint(s.format, o.format, s.digest, o.key)
           seen(half) == IF half THEN Append(s.read, Malformed) ELSE s.read
<1>1. PICK half \in BOOLEAN :
         IF o.name = "verify"
         THEN /\ cmd' = [cmd EXCEPT ![c] =
                            [s EXCEPT !.at = "done", !.last = 0, !.line = 0, !.digest = <<>>,
                                      !.read = seen(half), !.result = n(half),
                                      !.exit = IF clean(half) THEN 0 ELSE 1]]
              /\ UNCHANGED issued
         ELSE IF clean(half)
         THEN /\ cmd' = [cmd EXCEPT ![c] =
                            [Idle EXCEPT !.at = "create", !.opt = o, !.checkpoint = made]]
              /\ issued' = issued \cup {<<made, s.digest>>}
         ELSE Exit(c, 2) /\ UNCHANGED issued
  BY DEF ScanEnds
<1>2. s.at = "scan" /\ UNCHANGED <<artifactVars, file, written, delivered, replaced>>
  BY DEF ScanEnds
<1>3. CommandTypeOK(s)
  BY Parts
<1>4. o \in Commands /\ o.name \in {"verify", "checkpoint"}
  BY <1>2, <1>3, CommandsAssumption DEF CommandTypeOK
<1>5. CASE o.name = "verify"
  <2> DEFINE code == IF clean(half) THEN 0 ELSE 1
  <2>1. code \in {0, 1}
    OBVIOUS
  <2>2. code = 0 <=> clean(half)
    <3> HIDE DEF clean
    <3>1. CASE clean(half)
      BY <3>1
    <3>2. CASE ~clean(half)
      BY <3>2
    <3>3. QED
      BY <3>1, <3>2
  <2>3. cmd' = [cmd EXCEPT ![c] =
                   [s EXCEPT !.at = "done", !.last = 0, !.line = 0, !.digest = <<>>,
                             !.read = seen(half), !.result = n(half), !.exit = code]]
    BY <1>1, <1>5
  <2>4. UNCHANGED <<artifactVars, file, historyVars, replaced>>
    BY <1>1, <1>2, <1>5 DEF historyVars
  <2> HIDE DEF code
  <2>5. QED
    BY <1>2, <1>5, <2>1, <2>2, <2>3, <2>4, VerifyEnds, ZenonT(60)
<1>6. CASE o.name # "verify" /\ clean(half)
  <2>1. ~half
    <3>1. SUFFICES ASSUME half PROVE FALSE
      OBVIOUS
    <3>2. n(half).invalid # 0
      <4>1. n(half) = record(s.result, Malformed, o.key, TRUE) /\ s.result \in [Counters -> Nat]
        BY <1>3, <3>1 DEF CommandTypeOK
      <4>2. QED
        BY <4>1, HalfLine, ZenonT(60)
    <3>3. QED
      BY <1>6, <3>2 DEF Clean
  <2>2. Clean(s.result, requireV2(o), TRUE)
    BY <1>6, <2>1 DEF Clean
  <2>3. cmd' = [cmd EXCEPT ![c] = [Idle EXCEPT !.at = "create", !.opt = o, !.checkpoint = made]]
        /\ issued' = issued \cup {<<made, s.digest>>}
    BY <1>1, <1>6
  <2>4. QED
    BY <1>2, <1>4, <1>6, <2>2, <2>3, CheckpointEnds
<1>7. CASE o.name # "verify" /\ ~clean(half)
  BY <1>1, <1>2, <1>7, ExitStep DEF historyVars
<1>8. QED
  BY <1>5, <1>6, <1>7

\* A command that only moves on in the writing of the file.
LEMMA MovesOn ==
    ASSUME EvidenceInv, NEW c \in Cmds, NEW l \in {"write", "sync"}, cmd' = [cmd EXCEPT ![c].at = l],
           cmd[c].at \in {"create", "write"}, UNCHANGED <<artifactVars, historyVars, replaced>>
    PROVE  /\ DOMAIN cmd' = Cmds /\ \A d \in Cmds \ {c} : cmd'[d] = cmd[d]
           /\ cmd'[c].at = l /\ cmd'[c].checkpoint = cmd[c].checkpoint
           /\ CommandTypeOK(cmd[c])' /\ ReadInv(c)' /\ HoldsIssued(c)'
           /\ \A k \in DOMAIN cmd'[c].read : Genuine(cmd[c].read[k])'
<1>0. /\ CommandTypeOK(cmd[c]) /\ ProvenanceInv /\ DOMAIN cmd = Cmds /\ DOMAIN cmd[c] = Fields
      /\ HoldsIssued(c)
  BY Parts
<1>1. /\ DOMAIN cmd' = Cmds /\ \A d \in Cmds \ {c} : cmd'[d] = cmd[d]
      /\ cmd'[c].at = l /\ DOMAIN cmd'[c] = Fields
      /\ \A x \in Fields \ {"at"} : cmd'[c][x] = cmd[c][x]
  BY <1>0 DEF Fields
<1>2. /\ cmd'[c].opt = cmd[c].opt /\ cmd'[c].last = cmd[c].last /\ cmd'[c].line = cmd[c].line
      /\ cmd'[c].read = cmd[c].read /\ cmd'[c].result = cmd[c].result
      /\ cmd'[c].digest = cmd[c].digest /\ cmd'[c].checkpoint = cmd[c].checkpoint
  BY <1>1 DEF Fields
<1>3. CommandTypeOK(cmd[c])'
  BY <1>0, <1>1, <1>2 DEF CommandTypeOK
<1>4. ReadInv(c)'
  BY <1>1 DEF ReadInv
<1>5. HoldsIssued(c)'
  BY <1>0, <1>1, <1>2 DEF HoldsIssued, historyVars
<1>6. \A k \in DOMAIN cmd'[c].read : Genuine(cmd[c].read[k])'
  BY <1>0, <1>2 DEF ProvenanceInv, Genuine, historyVars
<1>7. QED
  BY <1>1, <1>2, <1>3, <1>4, <1>5, <1>6

LEMMA CreateFileStep ==
    ASSUME EvidenceInv, NEW c \in Cmds, CreateFile(c)
    PROVE  EvidenceInv'
<1>0. CheckpointInv /\ DeliveryInv
  BY Parts
<1>1. cmd[c].at = "create" /\ UNCHANGED <<artifactVars, historyVars, replaced>>
  BY DEF CreateFile
<1>2. CASE Exit(c, 2) /\ UNCHANGED file
  BY <1>1, <1>2, ExitStep
<1>3. CASE file = Absent /\ cmd' = [cmd EXCEPT ![c].at = "write"] /\ file' = Torn
  <2>1. /\ DOMAIN cmd' = Cmds /\ \A d \in Cmds \ {c} : cmd'[d] = cmd[d]
        /\ cmd'[c].at = "write"
        /\ CommandTypeOK(cmd[c])' /\ ReadInv(c)' /\ HoldsIssued(c)'
        /\ \A k \in DOMAIN cmd'[c].read : Genuine(cmd[c].read[k])'
    BY <1>1, <1>3, MovesOn
  <2>2. CheckpointInv'
    BY <1>0, <1>1, <1>3, <2>1, CheckpointStays DEF historyVars, artifactVars
  <2>3. DeliveryInv'
    <3>1. delivered = {} /\ \A d \in Cmds : cmd[d].at \notin {"write", "sync"}
      BY <1>0, <1>3 DEF DeliveryInv
    <3>2. Torn # Absent
      BY DEF Torn, Absent
    <3>3. QED
      BY <1>1, <1>3, <2>1, <3>1, <3>2 DEF DeliveryInv, DeliveredStays, historyVars
  <2>4. QED
    BY <1>1, <2>1, <2>2, <2>3, CommandStep DEF historyVars
<1>4. QED
  BY <1>2, <1>3 DEF CreateFile

LEMMA WriteFileStep ==
    ASSUME EvidenceInv, NEW c \in Cmds, WriteFile(c)
    PROVE  EvidenceInv'
<1>0. CheckpointInv /\ DeliveryInv /\ HoldsIssued(c)
  BY Parts
<1>1. cmd[c].at = "write" /\ UNCHANGED <<artifactVars, historyVars, replaced>>
  BY DEF WriteFile
<1>2. CASE file' = Torn /\ Exit(c, 2)
  BY <1>1, <1>2, ExitStep
<1>3. CASE file' = cmd[c].checkpoint /\ cmd' = [cmd EXCEPT ![c].at = "sync"]
  <2>1. /\ DOMAIN cmd' = Cmds /\ \A d \in Cmds \ {c} : cmd'[d] = cmd[d]
        /\ cmd'[c].at = "sync" /\ cmd'[c].checkpoint = cmd[c].checkpoint
        /\ CommandTypeOK(cmd[c])' /\ ReadInv(c)' /\ HoldsIssued(c)'
        /\ \A k \in DOMAIN cmd'[c].read : Genuine(cmd[c].read[k])'
    BY <1>1, <1>3, MovesOn
  <2>2. PICK i \in issued : file' = i[1] /\ i = <<Seal(i[2]), i[2]>>
    BY <1>0, <1>1, <1>3 DEF HoldsIssued, CheckpointInv
  <2>3. file' = Seal(i[2])
    BY <2>2
  <2>4. FromIssued(file)' /\ file' # Absent
    <3>1. file' = [version |-> 1, keyID |-> KeyID, format |-> format, records |-> Len(i[2]),
                   digest |-> i[2], signature |-> file'.signature]
      BY <2>3 DEF Seal, Sealed
    <3>2. file' = [version |-> file'.version, keyID |-> file'.keyID, format |-> file'.format,
                   records |-> file'.records, digest |-> file'.digest, signature |-> file'.signature]
      BY <3>1
    <3>3. DOMAIN file' # DOMAIN Absent
      BY <3>1 DEF Absent
    <3>4. i \in issued' /\ file'.signature = i[1].signature
      BY <1>1, <2>2 DEF historyVars
    <3>5. QED
      BY <3>2, <3>3, <3>4, Zenon DEF FromIssued
  <2>5. CheckpointInv'
    BY <1>0, <1>1, <2>1, <2>4, CheckpointStays DEF historyVars, artifactVars
  <2>6. DeliveryInv'
    <3>1. delivered = {} /\ \A d \in Cmds \ {c} : cmd[d].at \notin {"write", "sync"}
      BY <1>0, <1>1 DEF DeliveryInv
    <3>2. QED
      BY <1>1, <1>3, <2>1, <2>4, <3>1 DEF DeliveryInv, DeliveredStays, historyVars
  <2>7. QED
    BY <1>1, <2>1, <2>5, <2>6, CommandStep DEF historyVars
<1>4. QED
  BY <1>2, <1>3 DEF WriteFile

LEMMA SyncFileStep ==
    ASSUME EvidenceInv, NEW c \in Cmds, SyncFile(c)
    PROVE  EvidenceInv'
<1>0. CheckpointInv /\ DeliveryInv
  BY Parts
<1>1. cmd[c].at = "sync" /\ UNCHANGED <<artifactVars, file, written, issued, replaced>>
  BY DEF SyncFile
<1>2. CASE Exit(c, 2) /\ UNCHANGED delivered
  BY <1>1, <1>2, ExitStep DEF historyVars
<1>3. CASE Exit(c, 0) /\ delivered' = delivered \cup {cmd[c].checkpoint}
  <2>1. /\ DOMAIN cmd' = Cmds /\ \A d \in Cmds \ {c} : cmd'[d] = cmd[d]
        /\ cmd'[c].at = "done"
        /\ CommandTypeOK(cmd[c])' /\ ReadInv(c)' /\ HoldsIssued(c)'
        /\ \A k \in DOMAIN cmd'[c].read : Genuine(cmd[c].read[k])'
    BY <1>1, <1>3, ExitFacts
  <2>2. CheckpointInv'
    BY <1>0, <1>1, <2>1, CheckpointStays DEF artifactVars
  <2>3. DeliveryInv'
    <3>1. /\ delivered = {} /\ \A d \in Cmds \ {c} : cmd[d].at \notin {"write", "sync"}
          /\ file # Absent /\ (~replaced => file = cmd[c].checkpoint)
      BY <1>0, <1>1 DEF DeliveryInv
    <3>2. \A d \in Cmds : cmd'[d].at \notin {"write", "sync"}
      BY <2>1, <3>1
    <3>3. delivered' = {cmd[c].checkpoint}
      BY <1>3, <3>1
    <3>4. QED
      BY <1>1, <3>1, <3>2, <3>3 DEF DeliveryInv, DeliveredStays
  <2>4. QED
    BY <1>1, <2>1, <2>2, <2>3, CommandStep
<1>4. QED
  BY <1>2, <1>3 DEF SyncFile

-----------------------------------------------------------------------------
(* The theorems.                                                           *)

LEMMA EvidenceInit == Init => EvidenceInv
<1> SUFFICES ASSUME Init PROVE EvidenceInv
  OBVIOUS
<1>2. \A c \in Cmds : /\ cmd[c].at = "idle" /\ cmd[c].opt = NoCommand /\ cmd[c].read = <<>>
                      /\ cmd[c].result = NoResult /\ cmd[c].digest = <<>>
                      /\ cmd[c].last = 0 /\ cmd[c].line = 0 /\ DOMAIN cmd[c] = DOMAIN Idle
  BY IdleFields DEF Init, Idle, Fields
<1>3. EvidenceTypeOK
  <2>1. ASSUME NEW c \in Cmds PROVE CommandTypeOK(cmd[c])
    <3>1. 0 \in Nat /\ <<>> \in Seq(Entries) /\ <<>> \in Seq(Entries \cup {Malformed})
      OBVIOUS
    <3>2. QED
      BY <1>2, <3>1, NoResultType, Zenon DEF CommandTypeOK
  <2>2. DOMAIN cmd = Cmds
    BY DEF Init
  <2>3. artifact \in Seq(Entries \cup {Blank, Malformed}) /\ appends \in Nat
    BY EmptySeq DEF Init
  <2>4. QED
    BY <2>1, <2>2, <2>3, Zenon DEF Init, EvidenceTypeOK
<1>4. ProvenanceInv
  BY <1>2 DEF ProvenanceInv, Init
<1>5. CheckpointInv
  BY <1>2 DEF CheckpointInv, Init
<1>6. DeliveryInv
  BY <1>2 DEF DeliveryInv, DeliveredStays, Init
<1>7. ASSUME NEW c \in Cmds PROVE ReadInv(c)
  BY <1>2 DEF ReadInv
<1>8. QED
  BY <1>3, <1>4, <1>5, <1>6, <1>7 DEF EvidenceInv

LEMMA EvidenceNext == EvidenceInv /\ [Next]_vars => EvidenceInv'
<1>1. SUFFICES ASSUME EvidenceInv, [Next]_vars PROVE EvidenceInv'
  OBVIOUS
<1>2. ASSUME NEW i \in Inputs, AppendEntry(i.kind, i.form) PROVE EvidenceInv'
  <2>1. i.kind \in Kinds /\ i.form \in Forms
    BY CommandsAssumption
  <2>2. QED
    BY <1>1, <1>2, <2>1, AppendEntryStep
<1>3. CASE AppendEnds
  BY <1>1, <1>3, AppendEndsStep
<1>4. CASE Edit
  BY <1>1, <1>4, EditStep
<1>5. CASE EditCheckpoint
  BY <1>1, <1>5, EditCheckpointStep
<1>6. ASSUME NEW c \in Cmds, NEW o \in Commands, Start(c, o) PROVE EvidenceInv'
  BY <1>1, <1>6, StartStep
<1>7. ASSUME NEW c \in Cmds, loadCheckpoint(c) \/ Open(c) \/ Scan(c) \/ ScanEnds(c) PROVE EvidenceInv'
  BY <1>1, <1>7, LoadStep, OpenStep, ScanStep, ScanEndsStep
<1>8. ASSUME NEW c \in Cmds, CreateFile(c) \/ WriteFile(c) \/ SyncFile(c) PROVE EvidenceInv'
  BY <1>1, <1>8, CreateFileStep, WriteFileStep, SyncFileStep
<1>9. ASSUME NEW c \in Cmds, ScanFails(c) PROVE EvidenceInv'
  BY <1>1, <1>9, ExitStep DEF ScanFails
<1>10. ASSUME NEW c \in Cmds, Killed(c) PROVE EvidenceInv'
  BY <1>1, <1>10, ExitStep DEF Killed
<1>11. CASE UNCHANGED vars
  <2>1. EvidenceTypeOK /\ ProvenanceInv
    BY <1>1 DEF EvidenceInv
  <2>2. UNCHANGED <<format, file, cmd, issued, delivered, replaced, artifact, partial, appends, written>>
    BY <1>11 DEF vars
  <2>3. artifact \in Seq(Lines) /\ Len(artifact) <= Len(artifact')
    BY <2>1, <2>2, LenProperties DEF EvidenceTypeOK, Lines
  <2>4. \A k \in DOMAIN artifact' : Genuine(artifact[k])'
    BY <2>1, <2>2 DEF ProvenanceInv, Genuine
  <2>5. QED
    BY <1>1, <2>1, <2>2, <2>3, <2>4, ArtifactStep DEF EvidenceTypeOK, ProvenanceInv
<1>12. QED
  BY <1>1, <1>2, <1>3, <1>4, <1>5, <1>6, <1>7, <1>8, <1>9, <1>10, <1>11 DEF Next

\* For any number of commands, appends and edits, any flags and any keys: every
\* signature comes from Logger.prepare of the proxy and every checkpoint from its
\* key, what verify counts and digests is what it read, and neither a second
\* command nor one that fails or is killed replaces a checkpoint that was delivered.
THEOREM EvidenceCorrect == Spec => []EvidenceInv
<1>1. QED
  BY EvidenceInit, EvidenceNext, PTL DEF Spec

\* What the policy has to hold of an entry that is called authentic.
Authentic(e, o) ==
    \E w \in written :
        /\ w.signature # Unsigned
        /\ \/ /\ w.integrity # NoIntegrity /\ e.integrity # NoIntegrity
              /\ <<w.core, w.split, w.rest>> = <<e.core, e.split, e.rest>>
           \/ /\ ~requireV2(o) /\ e.integrity = NoIntegrity
              /\ <<w.core, w.form>> = <<e.core, e.form>>

\* A record that passes was signed by the proxy: with Integrity v2 in every field,
\* without as the bytes of its core.
LEMMA PassesMeans ==
    ASSUME EvidenceInv, NEW e \in Records, Genuine(e), NEW o \in Commands, Passes(e, o)
    PROVE  e # Malformed /\ Authentic(e, o)
<1>1. /\ e \in Entries /\ e.line = "entry" /\ e # Malformed
      /\ verify(e, o.key, requireV2(o)) \in {"verified", "legacy"}
  BY Shapes DEF Passes, Records
<1>2. PICK w \in written : e.signature = w.signature /\ e.integrity \in {w.integrity, NoIntegrity}
  BY <1>1 DEF Genuine
<1>3. PICK kind \in Kinds, form \in Forms : w = prepare(w.core, kind, form)
  BY DEF EvidenceInv, ProvenanceInv
<1>4. /\ w.rest = w.core /\ w.split = "kept"
      /\ w.signature = IF kind = "unsigned" THEN Unsigned ELSE <<Secret, w.core, w.form>>
      /\ w.integrity = IF kind = "v2" THEN [version |-> 2, keyID |-> KeyID,
                                            mac |-> <<Secret, w.core, "kept", w.core>>]
                       ELSE NoIntegrity
      /\ <<Secret, w.core, w.form>> # Unsigned
  BY <1>3, WrittenMeans
<1>5. CASE e.integrity # NoIntegrity
  <2>1. e.integrity = w.integrity /\ kind = "v2"
    BY <1>2, <1>4, <1>5
  <2>2. VerifyV2(e, o.key)
    BY <1>1, <1>5 DEF verify
  <2>3. <<Secret, w.core, "kept", w.core>> = <<o.key.secret, e.core, e.split, e.rest>>
    BY <1>4, <2>1, <2>2 DEF VerifyV2, V2
  <2>4. w.core = e.core /\ w.split = e.split /\ w.rest = e.rest
    BY <1>4, <2>3
  <2>5. w.signature # Unsigned
    BY <1>4, <2>1
  <2>6. w.integrity # NoIntegrity
    BY <1>5, <2>1
  <2>7. QED
    BY <1>1, <1>5, <2>4, <2>5, <2>6 DEF Authentic
<1>6. CASE e.integrity = NoIntegrity
  <2>1. ~requireV2(o) /\ e.signature # Unsigned /\ VerifyLegacy(e, o.key)
    BY <1>1, <1>6 DEF verify
  <2>2. kind # "unsigned" /\ <<Secret, w.core, w.form>> = <<o.key.secret, e.core, e.form>>
    BY <1>2, <1>4, <2>1 DEF VerifyLegacy, Legacy
  <2>3. w.core = e.core /\ w.form = e.form
    BY <2>2
  <2>4. QED
    BY <1>1, <1>2, <1>6, <2>1, <2>3 DEF Authentic
<1>7. QED
  BY <1>5, <1>6

\* What is known of a verify command that ended.
LEMMA VerifyEnded ==
    ASSUME EvidenceInv, NEW c \in Cmds, NEW code \in {0, 1}, Done(c, "verify", code)
    PROVE  /\ cmd[c].opt \in Commands /\ cmd[c].opt # NoCommand
           /\ cmd[c].read \in Seq(Records) /\ Len(cmd[c].read) \in Nat
           /\ \A k \in DOMAIN cmd[c].read : cmd[c].read[k] \in Records /\ Genuine(cmd[c].read[k])
           /\ code = 0 <=> /\ \A k \in DOMAIN cmd[c].read : Passes(cmd[c].read[k], cmd[c].opt)
                           /\ requireV2(cmd[c].opt) => cmd[c].read # <<>>
                           /\ Loaded(c) => verifyCheckpoint(cmd[c].checkpoint, cmd[c].format,
                                                            Covered(c), cmd[c].opt.key)
           /\ Loaded(c) => FromIssued(cmd[c].checkpoint)
<1>1. CommandTypeOK(cmd[c]) /\ ReadInv(c) /\ ProvenanceInv /\ HoldsIssued(c)
  BY Parts
<1>2. NoCommand.name = "none" /\ cmd[c].at = "done" /\ cmd[c].opt.name = "verify" /\ cmd[c].exit = code
  BY DEF NoCommand, Done
<1>3. cmd[c].opt \in Commands /\ cmd[c].opt # NoCommand
  BY <1>1, <1>2 DEF CommandTypeOK
<1>4. cmd[c].read \in Seq(Records)
  BY <1>1 DEF CommandTypeOK, Records
<1>5. Len(cmd[c].read) \in Nat /\ \A k \in DOMAIN cmd[c].read : cmd[c].read[k] \in Records
  BY <1>4
<1>6. \A k \in DOMAIN cmd[c].read : Genuine(cmd[c].read[k])
  BY <1>1 DEF ProvenanceInv
<1>7. Loaded(c) => FromIssued(cmd[c].checkpoint)
  BY <1>1, <1>2, <1>3 DEF HoldsIssued
<1>8. code = 0 <=> /\ \A k \in DOMAIN cmd[c].read : Passes(cmd[c].read[k], cmd[c].opt)
                   /\ requireV2(cmd[c].opt) => cmd[c].read # <<>>
                   /\ Loaded(c) => verifyCheckpoint(cmd[c].checkpoint, cmd[c].format,
                                                    Covered(c), cmd[c].opt.key)
  BY <1>1, <1>2, <1>3 DEF ReadInv
<1>9. QED
  BY <1>3, <1>4, <1>5, <1>6, <1>7, <1>8

\* Whoever edits the artifact, with any key and any flags: when verify exits with
\* 0, each record that has Integrity v2 or has to have it says in every field what
\* the proxy signed (canonical.go), and the core of a legacy record is, to the byte,
\* a text the proxy signed (Signer.Sign), in whichever fields the bytes are.
THEOREM CleanEvidence == Spec => []CleanIsAuthentic
<1>1. ASSUME EvidenceInv PROVE CleanIsAuthentic
  <2>1. SUFFICES ASSUME NEW c \in Cmds, Done(c, "verify", 0)
                 PROVE  /\ \A k \in DOMAIN cmd[c].read :
                              cmd[c].read[k] # Malformed /\ Authentic(cmd[c].read[k], cmd[c].opt)
                        /\ requireV2(cmd[c].opt) => cmd[c].read # <<>>
    BY Zenon DEF CleanIsAuthentic, Authentic
  <2>2. /\ cmd[c].opt \in Commands
        /\ \A k \in DOMAIN cmd[c].read : /\ cmd[c].read[k] \in Records /\ Genuine(cmd[c].read[k])
                                         /\ Passes(cmd[c].read[k], cmd[c].opt)
        /\ requireV2(cmd[c].opt) => cmd[c].read # <<>>
    BY <1>1, <2>1, VerifyEnded
  <2>3. QED
    BY <1>1, <2>2, PassesMeans
<1>2. QED
  BY <1>1, EvidenceCorrect, PTL

\* Whatever was done to the artifact and to the file: when verify exits with 0
\* under a checkpoint, a checkpoint command issued it and read the same records in
\* the same order.
THEOREM ExactCheckpoint == Spec => []CheckpointIsExact
<1>1. ASSUME EvidenceInv PROVE CheckpointIsExact
  <2>1. SUFFICES ASSUME NEW c \in Cmds, Done(c, "verify", 0), Loaded(c)
                 PROVE  \E i \in issued : i[1] = cmd[c].checkpoint /\ i[2] = Covered(c)
    BY DEF CheckpointIsExact
  <2> DEFINE p == cmd[c].checkpoint
             key == cmd[c].opt.key
  <2>2. FromIssued(p) /\ verifyCheckpoint(p, cmd[c].format, Covered(c), key)
    BY <1>1, <2>1, VerifyEnded
  <2>3. PICK i \in issued : p.signature = i[1].signature
    BY <2>2 DEF FromIssued
  <2>4. i = <<Seal(i[2]), i[2]>>
    BY <1>1 DEF EvidenceInv, CheckpointInv
  <2>5. i[1] = Seal(i[2])
    BY <2>4
  <2> DEFINE q == [version |-> 1, keyID |-> KeyID, format |-> format,
                   records |-> Len(i[2]), digest |-> i[2]]
  <2>6. i[1].signature = <<Secret, q>>
    BY <2>5 DEF Seal, Sealed
  <2>7. p.signature = <<key.secret, Payload(p)>> /\ p.digest = Covered(c)
    BY <2>2 DEF verifyCheckpoint
  <2>8. Payload(p) = q
    BY <2>3, <2>6, <2>7
  <2>9. /\ p.version = 1 /\ p.keyID = KeyID /\ p.format = format
        /\ p.records = Len(i[2]) /\ p.digest = i[2]
    BY <2>8 DEF Payload
  <2>10. p.signature = <<Secret, q>>
    BY <2>3, <2>6
  <2>11. p = [version |-> p.version, keyID |-> p.keyID, format |-> p.format, records |-> p.records,
              digest |-> p.digest, signature |-> p.signature]
    BY <2>2 DEF FromIssued
  <2>12. p = [version |-> 1, keyID |-> KeyID, format |-> format, records |-> Len(i[2]),
              digest |-> i[2], signature |-> <<Secret, q>>]
    <3> HIDE DEF p, q
    <3>1. QED
      BY <2>9, <2>10, <2>11
  <2>13. Seal(i[2]) = [version |-> 1, keyID |-> KeyID, format |-> format, records |-> Len(i[2]),
                       digest |-> i[2], signature |-> <<Secret, q>>]
    BY DEF Seal, Sealed
  <2>14. QED
    BY <2>5, <2>7, <2>9, <2>12, <2>13
<1>2. QED
  BY <1>1, EvidenceCorrect, PTL

\* A record of the proxy that the policy accepts passes under the key of the proxy.
LEMMA ProperPasses ==
    ASSUME EvidenceInv, NEW e \in Records, Genuine(e), NEW o \in Commands, Proper(e, o),
           o.key = [id |-> KeyID, secret |-> Secret]
    PROVE  Passes(e, o)
<1>1. e \in Entries /\ e.line = "entry" /\ e # Malformed
  BY Shapes DEF Proper, Records
<1>2. PICK w \in written : e.signature = w.signature /\ e.integrity \in {w.integrity, NoIntegrity}
  BY <1>1 DEF Genuine
<1>3. PICK v \in written : /\ v.core = e.core /\ v.signature = e.signature /\ e.signature # Unsigned
                           /\ IF e.integrity # NoIntegrity
                              THEN v.split = e.split /\ v.rest = e.rest
                              ELSE v.form = e.form /\ ~requireV2(o)
  BY DEF Proper
<1>4. /\ w.rest = w.core /\ w.signature \in {Unsigned, <<Secret, w.core, w.form>>}
      /\ w.integrity \in {NoIntegrity, [version |-> 2, keyID |-> KeyID,
                                        mac |-> <<Secret, w.core, "kept", w.core>>]}
  <2>1. PICK kind \in Kinds, form \in Forms : w = prepare(w.core, kind, form)
    BY DEF EvidenceInv, ProvenanceInv
  <2>2. QED
    BY <2>1, WrittenMeans
<1>5. v.rest = v.core /\ v.split = "kept" /\ v.signature \in {Unsigned, <<Secret, v.core, v.form>>}
  <2>1. PICK kind \in Kinds, form \in Forms : v = prepare(v.core, kind, form)
    BY DEF EvidenceInv, ProvenanceInv
  <2>2. QED
    BY <2>1, WrittenMeans
<1>6. <<Secret, w.core, w.form>> = <<Secret, v.core, v.form>>
  BY <1>2, <1>3, <1>4, <1>5
<1>7. w.core = v.core
  BY <1>6
<1>8. o.key.id = KeyID /\ o.key.secret = Secret /\ Secret # None
  BY CommandsAssumption
<1>9. CASE e.integrity # NoIntegrity
  <2>1. e.integrity = [version |-> 2, keyID |-> KeyID, mac |-> <<Secret, e.core, e.split, e.rest>>]
    BY <1>2, <1>3, <1>4, <1>5, <1>7, <1>9
  <2>2. VerifyV2(e, o.key)
    BY <1>8, <2>1 DEF VerifyV2, V2
  <2>3. QED
    BY <1>1, <1>9, <2>2 DEF Passes, verify
<1>10. CASE e.integrity = NoIntegrity
  <2>1. e.signature = <<Secret, e.core, e.form>> /\ ~requireV2(o)
    BY <1>3, <1>5, <1>10
  <2>2. VerifyLegacy(e, o.key)
    BY <1>8, <2>1 DEF VerifyLegacy, Legacy
  <2>3. QED
    BY <1>1, <1>3, <1>10, <2>1, <2>2 DEF Passes, verify
<1>11. QED
  BY <1>9, <1>10

\* With the key of the proxy and the format of the artifact, verify never exits
\* with 1 over records of the proxy that meet the policy and, under a checkpoint,
\* are the ones it was issued for: those with Integrity v2 however they are written,
\* legacy ones as they were signed (Signer.Verify, Verifier.Verify).
THEOREM NoFalseAlarm == Spec => []OnlyRealMismatches
<1>1. ASSUME EvidenceInv PROVE OnlyRealMismatches
  <2>1. SUFFICES ASSUME NEW c \in Cmds, Done(c, "verify", 1),
                        cmd[c].opt.key = [id |-> KeyID, secret |-> Secret],
                        cmd[c].format = format,
                        \A k \in DOMAIN cmd[c].read : Proper(cmd[c].read[k], cmd[c].opt),
                        requireV2(cmd[c].opt) => cmd[c].read # <<>>,
                        Loaded(c) => <<cmd[c].checkpoint, Covered(c)>> \in issued
                 PROVE  FALSE
    BY DEF OnlyRealMismatches
  <2> DEFINE p == cmd[c].checkpoint
             key == cmd[c].opt.key
  <2>2. /\ cmd[c].opt \in Commands
        /\ \A k \in DOMAIN cmd[c].read : cmd[c].read[k] \in Records /\ Genuine(cmd[c].read[k])
        /\ ~( /\ \A k \in DOMAIN cmd[c].read : Passes(cmd[c].read[k], cmd[c].opt)
              /\ requireV2(cmd[c].opt) => cmd[c].read # <<>>
              /\ Loaded(c) => verifyCheckpoint(p, cmd[c].format, Covered(c), key))
    BY <1>1, <2>1, VerifyEnded
  <2>3. \A k \in DOMAIN cmd[c].read : Passes(cmd[c].read[k], cmd[c].opt)
    BY <1>1, <2>1, <2>2, ProperPasses
  <2>4. Loaded(c) /\ ~verifyCheckpoint(p, cmd[c].format, Covered(c), key)
    BY <2>1, <2>2, <2>3
  <2>5. p = Seal(Covered(c))
    <3>1. <<p, Covered(c)>> = <<Seal(<<p, Covered(c)>>[2]), <<p, Covered(c)>>[2]>>
      BY <1>1, <2>1, <2>4 DEF EvidenceInv, CheckpointInv
    <3>2. QED
      BY <3>1
  <2>6. key.id = KeyID /\ key.secret = Secret /\ Secret # None
    BY <2>1, CommandsAssumption
  <2>7. verifyCheckpoint(p, cmd[c].format, Covered(c), key)
    <3> DEFINE d == Covered(c)
               q == [version |-> 1, keyID |-> KeyID, format |-> format, records |-> Len(d), digest |-> d]
    <3> HIDE DEF d
    <3>1. p = Sealed(q, Secret)
      BY <2>5 DEF Seal, d
    <3>2. /\ p.version = 1 /\ p.keyID = KeyID /\ p.format = format /\ p.records = Len(d)
          /\ p.digest = d /\ p.signature = <<Secret, q>>
      BY <3>1 DEF Sealed
    <3>3. Payload(p) = q
      BY <3>2 DEF Payload
    <3> HIDE DEF p, q
    <3>4. QED
      BY <2>1, <2>6, <3>2, <3>3 DEF verifyCheckpoint, d
  <2>8. QED
    BY <2>4, <2>7
<1>2. QED
  BY <1>1, EvidenceCorrect, PTL
=============================================================================
