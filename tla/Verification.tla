---------------------------- MODULE Verification ----------------------------
(***************************************************************************)
(* Stored evidence and the commands that check it: `mcp-audit verify` and  *)
(* `mcp-audit checkpoint` (cmd/mcp-audit/verify.go, internal/audit/verify, *)
(* internal/audit/integrity, internal/audit/signer.go), while the proxy    *)
(* appends to the artifact and somebody edits it between two commands.     *)
(*                                                                         *)
(* Cryptography is ideal: an HMAC is the pair of its secret and what it    *)
(* covers, and a digest is the sequence it was computed from.              *)
(*                                                                         *)
(* The core of an entry is the text of id, time, method, tool and params   *)
(* one after the other.  `split' says whether its bytes are still in the   *)
(* field they were written in, and `form' how the params are written:      *)
(* "raw" as a client may send them, or "encoded" as encoding/json compacts *)
(* and escapes them.  `rest' is all other fields.                          *)
(***************************************************************************)
EXTENDS Integers, Sequences, SequencesExt, FiniteSets

CONSTANTS
    Cmds,           \* processes, each runs one command
    Commands,       \* [name, format, key, requireV2, checkpoint, output]
    KeyID, Secret,  \* the key of the proxy
    None,           \* no secret or checkpoint
    Inputs,         \* [kind, form]: how the entries of an instance are signed and written
    MaxAppends, MaxEdits   \* bounds

Kinds == {"v2", "legacy", "unsigned"}
Forms == {"raw", "encoded"}

\* The options of a command are what parseVerifyOptions makes of its flags, a key
\* is an id and a secret, and no key is no secret.
ASSUME CommandsAssumption ==
    /\ Secret # None /\ Inputs \subseteq [kind : Kinds, form : Forms]
    /\ \A o \in Commands : /\ o.name \in {"verify", "checkpoint"}
                          /\ o.requireV2 \in BOOLEAN /\ o.checkpoint \in BOOLEAN /\ o.output \in BOOLEAN
                          /\ o.key = [id |-> o.key.id, secret |-> o.key.secret]

VARIABLES
    format,         \* of the artifact
    artifact,       \* its lines, or rows in rowid order
    partial,        \* the line a JSONL append is writing, or None
    file,           \* the checkpoint file: Absent, Torn or a checkpoint
    cmd,            \* process -> its command and locals
    written,        \* history: entries as the proxy stored them
    issued,         \* history: <<checkpoint, entries it was computed from>>
    delivered,      \* history: checkpoints whose command reported success
    appends, edits, replaced   \* replaced: the file was edited

vars == <<format, artifact, partial, file, cmd, written, issued, delivered, appends, edits, replaced>>
historyVars == <<written, issued, delivered>>

Absent == [file |-> "absent"]
Torn == [file |-> "torn"]       \* not one JSON document of the known fields
Blank == [line |-> "blank"]
Malformed == [line |-> "malformed"]
Formats == {"jsonl", "sqlite"}
Splits == {"kept", "moved"}

-----------------------------------------------------------------------------
(* Signatures *)

Unsigned == <<>>
NoIntegrity == [version |-> 0]

\* Signer.Sign concatenates the fields without separators, as they are written;
\* the canonical JSON of Integrity v2 keeps the fields apart and not the writing.
Legacy(secret, e) == <<secret, e.core, e.form>>
V2(secret, e) == <<secret, e.core, e.split, e.rest>>

\* Logger.prepare with a secret, of a version before Integrity v2, or without one.
\* Redaction encodes the params again, without it they are as the client sent them.
prepare(n, kind, form) ==
    LET e == [core |-> n, split |-> "kept", form |-> form, rest |-> n]
    IN  [line |-> "entry", core |-> n, split |-> "kept", form |-> form, rest |-> n, extra |-> FALSE,
         signature |-> IF kind = "unsigned" THEN Unsigned ELSE Legacy(Secret, e),
         integrity |-> IF kind = "v2" THEN [version |-> 2, keyID |-> KeyID, mac |-> V2(Secret, e)]
                       ELSE NoIntegrity]

\* integrity.Verifier.Verify and audit.Signer.Verify, with the key of the command.
VerifyV2(e, key) ==
    /\ e.integrity.version = 2
    /\ e.integrity.keyID = key.id /\ key.secret # None
    /\ e.integrity.mac = V2(key.secret, e)
VerifyLegacy(e, key) == key.secret # None /\ e.signature = Legacy(key.secret, e)

\* Mutant: an entry whose Integrity v2 does not verify is tried as a legacy one.
verifyFallsBack(e, key, requireV2) ==
    IF e.integrity # NoIntegrity /\ VerifyV2(e, key) THEN "verified"
    ELSE IF e.signature = Unsigned THEN "unsigned"
    ELSE IF VerifyLegacy(e, key) THEN "legacy" ELSE "invalid"

\* entryVerifier.verify.
verify(e, key, requireV2) ==
    IF e.integrity # NoIntegrity THEN IF VerifyV2(e, key) THEN "verified" ELSE "invalid"
    ELSE IF requireV2 THEN "invalid"
    ELSE IF e.signature = Unsigned THEN "unsigned"
    ELSE IF VerifyLegacy(e, key) THEN "legacy" ELSE "invalid"

\* Result.
Classes == {"verified", "invalid", "legacy", "unsigned"}
Counters == {"total"} \cup Classes
NoResult == [n \in Counters |-> 0]

\* Result.record and Result.malformed.
record(result, e, key, requireV2) ==
    LET class == IF e = Malformed THEN "invalid" ELSE verify(e, key, requireV2)
    IN  [n \in Counters |-> IF n \in {"total", class} THEN result[n] + 1 ELSE result[n]]

\* What the digest covers, however it is written: the whole JSON document of a
\* line, and the columns of an entry of a row.
canonical(e, f) == [e EXCEPT !.form = "encoded", !.extra = IF f = "sqlite" THEN FALSE ELSE @]

\* Mutant: the digest does not depend on the order of the records.
addUnordered(digest, e, f) ==
    LET S == ToSet(digest) \cup {canonical(e, f)}
    IN  SetToSortSeq(S, LAMBDA a, b : a.core < b.core)

\* orderedDigest.add: each record is preceded by its size, so the digest tells
\* sequences apart.
add(digest, e, f) == Append(digest, canonical(e, f))

-----------------------------------------------------------------------------
(* Checkpoints *)

Payload(c) == [version |-> c.version, keyID |-> c.keyID, format |-> c.format,
               records |-> c.records, digest |-> c.digest]
Sealed(p, secret) == [version |-> p.version, keyID |-> p.keyID, format |-> p.format,
                      records |-> p.records, digest |-> p.digest, signature |-> <<secret, p>>]

\* Checkpoint.verify: only the key of the command is known.
verifyCheckpoint(c, f, digest, key) ==
    /\ c.version = 1 /\ c.format = f
    /\ c.keyID = key.id /\ key.secret # None
    /\ c.signature = <<key.secret, Payload(c)>>
    /\ c.records = Len(digest) /\ c.digest = digest

\* Mutant: the requested format is written although it may be "auto".
CreateCheckpointUnresolved(f, requested, digest, key) ==
    Sealed([version |-> 1, keyID |-> key.id, format |-> requested,
            records |-> Len(digest), digest |-> digest], key.secret)

\* The checkpoint of a digest; f is the format that was detected or requested.
CreateCheckpoint(f, requested, digest, key) ==
    Sealed([version |-> 1, keyID |-> key.id, format |-> f,
            records |-> Len(digest), digest |-> digest], key.secret)

-----------------------------------------------------------------------------
(* The artifact *)

NoCommand == [name |-> "none"]
Idle == [at |-> "idle", opt |-> NoCommand, format |-> None, last |-> 0, line |-> 0, read |-> <<>>,
         result |-> NoResult, digest |-> <<>>, checkpoint |-> None, exit |-> None]

Init ==
    /\ format \in Formats
    /\ artifact = <<>> /\ partial = None
    /\ file = Absent
    /\ cmd = [c \in Cmds |-> Idle]
    /\ written = {} /\ issued = {} /\ delivered = {}
    /\ appends = 0 /\ edits = 0 /\ replaced = FALSE

\* What is stored of an entry: the columns hold the text of its params, the encoder
\* of the JSONL backend writes them its own way, after they were signed.
encode(e) == IF format = "sqlite" THEN e ELSE [e EXCEPT !.form = "encoded"]

\* The proxy appends: a row at once, a line while a reader may look at it.
AppendEntry(kind, form) ==
    /\ appends < MaxAppends
    /\ partial = None
    /\ LET e == prepare(appends + 1, kind, form)
       IN  /\ written' = written \cup {e}
           /\ IF format = "sqlite"
              THEN artifact' = Append(artifact, encode(e)) /\ UNCHANGED partial
              ELSE partial' = encode(e) /\ UNCHANGED artifact
    /\ appends' = appends + 1
    /\ UNCHANGED <<format, file, cmd, issued, delivered, edits, replaced>>

\* The line is complete, or the writer was killed and left half of it.
AppendEnds ==
    /\ partial # None
    /\ artifact' \in {Append(artifact, partial), Append(artifact, Malformed)}
    /\ partial' = None
    /\ UNCHANGED <<format, file, cmd, historyVars, appends, edits, replaced>>

\* What a line may be changed into: other content, or bytes moved from one field
\* to the next, with or without Integrity v2 taken away, the same content written
\* another way, a field no reader knows, or garbage.
Variants(e) ==
    IF e.line # "entry" THEN {}
    ELSE LET changed == {[e EXCEPT !.rest = 0], [e EXCEPT !.split = "moved"]}
         IN  changed \cup {[x EXCEPT !.integrity = NoIntegrity] : x \in changed \cup {e}}
             \cup {[e EXCEPT !.form = f] : f \in Forms \ {e.form}}
             \cup {[e EXCEPT !.core = 0], [e EXCEPT !.extra = TRUE], Malformed}
Swapped(s, k) == [s EXCEPT ![k] = s[k + 1], ![k + 1] = s[k]]

\* Somebody edits the artifact while no command reads it.  Ids are unique in a
\* table, and only a text file has blank lines.
Edit ==
    /\ edits < MaxEdits
    /\ edits' = edits + 1
    /\ partial = None
    /\ \A c \in Cmds : cmd[c].at # "scan"
    /\ \/ \E k \in DOMAIN artifact : artifact' = RemoveAt(artifact, k)
       \/ \E k \in 1..Len(artifact) - 1 : artifact' = Swapped(artifact, k)
       \/ \E k \in DOMAIN artifact : \E e \in Variants(artifact[k]) : artifact' = [artifact EXCEPT ![k] = e]
       \/ /\ format = "jsonl"
          /\ \E k \in DOMAIN artifact : artifact' \in {Append(artifact, artifact[k]), Append(artifact, Blank)}
    /\ UNCHANGED <<format, partial, file, cmd, historyVars, appends, replaced>>

IsEntry(e) == e.line = "entry"

\* Somebody edits the checkpoint without the secret: a field, its contents to fit
\* the artifact, or all of it.  Once is enough: two edits make one.
EditCheckpoint ==
    /\ ~replaced
    /\ file \notin {Absent, Torn}
    /\ \/ file' = Torn
       \/ file' = [file EXCEPT !.version = 2]
       \/ \E f \in Formats : file' = [file EXCEPT !.format = f]
       \/ LET now == LET es == SelectSeq(artifact, IsEntry)
                     IN  [k \in DOMAIN es |-> canonical(es[k], format)]
          IN  file' = [file EXCEPT !.records = Len(now), !.digest = now]
    /\ replaced' = TRUE
    /\ UNCHANGED <<format, artifact, partial, cmd, historyVars, appends, edits>>

-----------------------------------------------------------------------------
(* Commands *)

\* The command ends; nothing remains of one that failed or was killed.
Exit(c, code) == cmd' = [cmd EXCEPT ![c] = [Idle EXCEPT !.at = "done", !.exit = code]]
artifactVars == <<format, artifact, partial, appends, edits>>

\* parseVerifyOptions and the flags each command refuses.
Usage(o) ==
    \/ o.name = "verify" /\ o.output
    \/ o.name = "checkpoint" /\ (~o.output \/ o.checkpoint \/ o.requireV2)

Start(c, o) ==
    /\ cmd[c].at = "idle"
    /\ IF Usage(o) THEN Exit(c, 2)
       ELSE cmd' = [cmd EXCEPT ![c].at = IF o.checkpoint THEN "load" ELSE "open", ![c].opt = o]
    /\ UNCHANGED <<artifactVars, file, historyVars, replaced>>

loadCheckpoint(c) ==
    /\ cmd[c].at = "load"
    /\ IF file \in {Absent, Torn} THEN Exit(c, 2)
       ELSE cmd' = [cmd EXCEPT ![c].at = "open", ![c].checkpoint = file]
    /\ UNCHANGED <<artifactVars, file, historyVars, replaced>>

\* detectFormat reads the header; an empty file is JSONL.
Resolved(o) == IF o.format = "auto" THEN format ELSE o.format

\* A checkpoint needs a secret.  The input may be missing, a database lack the
\* table or a column, and a text is no database.  A query sees the rows of now, a
\* scan also lines that are appended to the file.
Open(c) ==
    LET o == cmd[c].opt
        f == Resolved(o)
    IN  /\ cmd[c].at = "open"
        /\ \/ Exit(c, 2)
           \/ /\ o.name = "checkpoint" => o.key.secret # None
              /\ f \in Formats
              /\ f = "sqlite" => format = "sqlite"
              /\ cmd' = [cmd EXCEPT ![c].at = "scan", ![c].format = f, ![c].last = Len(artifact)]
        /\ UNCHANGED <<artifactVars, file, historyVars, replaced>>

\* VerifyPath: a checkpoint, loaded or to be made, implies the v2 policy.
requireV2(o) == o.requireV2 \/ o.checkpoint \/ o.name = "checkpoint"

\* The last line or row the command gets to see.
End(c) == IF format = "sqlite" THEN cmd[c].last ELSE Len(artifact)

\* One line or row; blank lines are skipped.  A database read as text has only
\* malformed lines.
Scan(c) ==
    LET s == cmd[c]
        e == IF s.format = format THEN artifact[s.line + 1] ELSE Malformed
    IN  /\ s.at = "scan"
        /\ s.line < End(c)
        /\ IF e = Blank THEN cmd' = [cmd EXCEPT ![c].line = @ + 1]
           ELSE cmd' = [cmd EXCEPT ![c].line = @ + 1,
                                   ![c].read = Append(@, e),
                                   ![c].result = record(@, e, s.opt.key, requireV2(s.opt)),
                                   ![c].digest = IF e = Malformed THEN @ ELSE add(@, e, format)]
        /\ UNCHANGED <<artifactVars, file, historyVars, replaced>>

\* The scan fails: a line that is too long, or the disk.
ScanFails(c) ==
    /\ cmd[c].at = "scan"
    /\ Exit(c, 2)
    /\ UNCHANGED <<artifactVars, file, historyVars, replaced>>

\* Result.Clean, with the policy failures VerifyPath adds.
Clean(result, needV2, checkpointOK) ==
    /\ result.invalid = 0 /\ result.unsigned = 0
    /\ needV2 => result.total # 0
    /\ checkpointOK

\* The end of the input; half of a line that is being written may be seen.
ScanEnds(c) ==
    LET s == cmd[c]
        o == s.opt
    IN  /\ s.at = "scan"
        /\ s.line = End(c)
        /\ \E half \in IF partial = None \/ s.format # "jsonl" THEN {FALSE} ELSE BOOLEAN :
              LET result == IF half THEN record(s.result, Malformed, o.key, TRUE) ELSE s.result
                  checked == o.checkpoint => verifyCheckpoint(s.checkpoint, s.format, s.digest, o.key)
                  clean == Clean(result, requireV2(o), checked)
                  made == CreateCheckpoint(s.format, o.format, s.digest, o.key)
                  seen == IF half THEN Append(s.read, Malformed) ELSE s.read
              IN  IF o.name = "verify"
                  THEN /\ cmd' = [cmd EXCEPT ![c] =
                                     [s EXCEPT !.at = "done", !.last = 0, !.line = 0, !.digest = <<>>,
                                               !.read = seen, !.result = result,
                                               !.exit = IF clean THEN 0 ELSE 1]]
                       /\ UNCHANGED issued
                  ELSE IF clean
                  THEN /\ cmd' = [cmd EXCEPT ![c] =
                                     [Idle EXCEPT !.at = "create", !.opt = o, !.checkpoint = made]]
                       /\ issued' = issued \cup {<<made, s.digest>>}
                  ELSE Exit(c, 2) /\ UNCHANGED issued
        /\ UNCHANGED <<artifactVars, file, written, delivered, replaced>>

\* Mutant: an existing file is truncated.
CreateFileTruncates(c) ==
    /\ cmd[c].at = "create"
    /\ \/ cmd' = [cmd EXCEPT ![c].at = "write"] /\ file' = Torn
       \/ Exit(c, 2) /\ UNCHANGED file
    /\ UNCHANGED <<artifactVars, historyVars, replaced>>

\* os.OpenFile with O_EXCL.
CreateFile(c) ==
    /\ cmd[c].at = "create"
    /\ \/ file = Absent /\ cmd' = [cmd EXCEPT ![c].at = "write"] /\ file' = Torn
       \/ Exit(c, 2) /\ UNCHANGED file
    /\ UNCHANGED <<artifactVars, historyVars, replaced>>

\* Write; one that fails leaves a part.  The file is closed in either case.
WriteFile(c) ==
    /\ cmd[c].at = "write"
    /\ \/ file' = cmd[c].checkpoint /\ cmd' = [cmd EXCEPT ![c].at = "sync"]
       \/ file' = Torn /\ Exit(c, 2)
    /\ UNCHANGED <<artifactVars, historyVars, replaced>>

\* Sync, Close and the report: an error of either is an error of the command.
SyncFile(c) ==
    /\ cmd[c].at = "sync"
    /\ \/ Exit(c, 0) /\ delivered' = delivered \cup {cmd[c].checkpoint}
       \/ Exit(c, 2) /\ UNCHANGED delivered
    /\ UNCHANGED <<artifactVars, file, written, issued, replaced>>

\* The process is killed and leaves the file as it is.
Killed(c) ==
    /\ cmd[c].at \in {"create", "write", "sync"}
    /\ Exit(c, None)
    /\ UNCHANGED <<artifactVars, file, historyVars, replaced>>

Next ==
    \/ \E i \in Inputs : AppendEntry(i.kind, i.form)
    \/ AppendEnds \/ Edit \/ EditCheckpoint
    \/ \E c \in Cmds :
          \/ \E o \in Commands : Start(c, o)
          \/ loadCheckpoint(c) \/ Open(c) \/ Scan(c) \/ ScanFails(c) \/ ScanEnds(c)
          \/ CreateFile(c) \/ WriteFile(c) \/ SyncFile(c) \/ Killed(c)

Spec == Init /\ [][Next]_vars

-----------------------------------------------------------------------------
(* Properties *)

Done(c, name, code) == cmd[c].at = "done" /\ cmd[c].opt.name = name /\ cmd[c].exit = code
Loaded(c) == cmd[c].opt.checkpoint
\* What a digest of the records that were read covers.
Covered(c) == [k \in DOMAIN cmd[c].read |-> canonical(cmd[c].read[k], format)]

\* verify succeeds only on evidence the proxy wrote.  A record with Integrity v2,
\* and every one when the policy requires it, says in each field what was signed;
\* there is one then.  Of a legacy record only the text of its core is as it was
\* signed, to the byte: the signature does not tell which field a byte is in.
CleanIsAuthentic ==
    \A c \in Cmds : Done(c, "verify", 0) =>
        /\ \A k \in DOMAIN cmd[c].read :
              LET e == cmd[c].read[k]
              IN  /\ e # Malformed
                  /\ \E w \in written :
                        /\ w.signature # Unsigned
                        /\ \/ /\ w.integrity # NoIntegrity /\ e.integrity # NoIntegrity
                              /\ <<w.core, w.split, w.rest>> = <<e.core, e.split, e.rest>>
                           \/ /\ ~requireV2(cmd[c].opt) /\ e.integrity = NoIntegrity
                              /\ <<w.core, w.form>> = <<e.core, e.form>>
        /\ requireV2(cmd[c].opt) => cmd[c].read # <<>>

\* verify succeeds with a checkpoint only on the records, in the order and number,
\* that a checkpoint command read, whatever was done to artifact and checkpoint.
CheckpointIsExact ==
    \A c \in Cmds : Done(c, "verify", 0) /\ Loaded(c) =>
        \E i \in issued : i[1] = cmd[c].checkpoint /\ i[2] = Covered(c)

\* An entry of the proxy that the policy of the command accepts: with Integrity v2 in
\* the fields it was signed with, however it is written, without in the same bytes.
Proper(e, o) ==
    /\ e # Malformed
    /\ \E w \in written :
          /\ w.core = e.core /\ w.signature = e.signature /\ e.signature # Unsigned
          /\ IF e.integrity # NoIntegrity
             THEN w.split = e.split /\ w.rest = e.rest
             ELSE w.form = e.form /\ ~requireV2(o)

\* verify reports a mismatch only when there is one: a record that is no entry of
\* the proxy or lacks what the policy asks, an empty artifact under the v2 policy,
\* the wrong key or format, or other records than the checkpoint was made from.
\* A record with Integrity v2 is never reported for the way it is written, so none
\* that the JSONL encoder wrote is.  A legacy record is when it is not written as it
\* was signed, which the encoder itself does to params that redaction left alone.
OnlyRealMismatches ==
    \A c \in Cmds : Done(c, "verify", 1) =>
        LET s == cmd[c]
        IN  \/ s.opt.key # [id |-> KeyID, secret |-> Secret]
            \/ s.format # format
            \/ \E k \in DOMAIN s.read : ~Proper(s.read[k], s.opt)
            \/ requireV2(s.opt) /\ s.read = <<>>
            \/ Loaded(c) /\ <<s.checkpoint, Covered(c)>> \notin issued

\* A checkpoint whose command reported success is what the file holds: neither a
\* second command for the same output nor one that failed or was killed touches it.
DeliveredStays ==
    delivered # {} /\ ~replaced => delivered = {file}

-----------------------------------------------------------------------------
(* The inductive invariant *)

Entries ==
    [line : {"entry"}, core : Nat, split : Splits, form : Forms, rest : Nat, extra : BOOLEAN,
     signature : {Unsigned} \cup ({Secret} \X Nat \X Forms),
     integrity : {NoIntegrity}
                 \cup [version : {2}, keyID : {KeyID}, mac : {Secret} \X Nat \X Splits \X Nat]]

CommandTypeOK(s) ==
    /\ DOMAIN s = DOMAIN Idle
    /\ s.at \in {"idle", "load", "open", "scan", "create", "write", "sync", "done"}
    /\ s.opt \in Commands \/ (s.opt = NoCommand /\ s.at \in {"idle", "done"})
    /\ s.last \in Nat /\ s.line \in Nat
    /\ s.read \in Seq(Entries \cup {Malformed})
    /\ s.result \in [Counters -> Nat]
    /\ s.digest \in Seq(Entries)

EvidenceTypeOK ==
    /\ format \in Formats
    /\ artifact \in Seq(Entries \cup {Blank, Malformed}) /\ partial \in Entries \cup {None}
    /\ DOMAIN cmd = Cmds /\ \A c \in Cmds : CommandTypeOK(cmd[c])
    /\ written \subseteq Entries
    /\ appends \in Nat /\ replaced \in BOOLEAN

\* Every entry carries the signatures of one the proxy wrote, or has lost them.
Genuine(e) ==
    e.line = "entry" => \E w \in written : e.signature = w.signature
                                           /\ e.integrity \in {w.integrity, NoIntegrity}
ProvenanceInv ==
    /\ \A w \in written : \E kind \in Kinds, form \in Forms : w = prepare(w.core, kind, form)
    /\ partial # None => \E w \in written : partial = encode(w)
    /\ \A k \in DOMAIN artifact : Genuine(artifact[k])
    /\ \A c \in Cmds : \A k \in DOMAIN cmd[c].read : Genuine(cmd[c].read[k])

\* Every checkpoint in the file or in memory has the signature of one that was
\* issued, and only the key of the proxy issues one.
Seal(digest) ==
    Sealed([version |-> 1, keyID |-> KeyID, format |-> format,
            records |-> Len(digest), digest |-> digest], Secret)
FromIssued(k) ==
    /\ k = [version |-> k.version, keyID |-> k.keyID, format |-> k.format, records |-> k.records,
            digest |-> k.digest, signature |-> k.signature]
    /\ \E i \in issued : k.signature = i[1].signature
CheckpointInv ==
    /\ \A i \in issued : i = <<Seal(i[2]), i[2]>>
    /\ file \notin {Absent, Torn} => FromIssued(file)
    /\ \A c \in Cmds :
          /\ cmd[c].at \in {"open", "scan"} \/ (cmd[c].at = "done" /\ cmd[c].opt # NoCommand)
                => (Loaded(c) => FromIssued(cmd[c].checkpoint))
          /\ cmd[c].at \in {"create", "write", "sync"} => \E i \in issued : cmd[c].checkpoint = i[1]

\* What a command knows while it reads: the counters tell whether every record
\* so far passes, and the digest covers the records unless one is malformed.
Passes(e, o) == e # Malformed /\ verify(e, o.key, requireV2(o)) \in {"verified", "legacy"}
ReadInv(c) ==
    LET s == cmd[c]
        passes == \A k \in DOMAIN s.read : Passes(s.read[k], s.opt)
    IN  /\ s.at \in {"idle", "load", "open"}
              => s.read = <<>> /\ s.result = NoResult /\ s.digest = <<>>
        /\ s.at \in {"scan", "done"} /\ s.format # format
              => \A k \in DOMAIN s.read : s.read[k] = Malformed
        /\ s.at = "scan" =>
              /\ s.last <= Len(artifact)
              /\ s.result.total = Len(s.read)
              /\ s.result.invalid = 0 /\ s.result.unsigned = 0 <=> passes
              /\ (\A k \in DOMAIN s.read : s.read[k] # Malformed) => s.digest = Covered(c)
        /\ s.at = "done" /\ s.opt # NoCommand =>
              /\ s.opt.name = "verify" /\ s.exit \in {0, 1}
              /\ s.exit = 0 <=> /\ passes
                                /\ requireV2(s.opt) => s.read # <<>>
                                /\ Loaded(c) => verifyCheckpoint(s.checkpoint, s.format, Covered(c), s.opt.key)

\* One command writes the file, and none once a checkpoint was delivered.
DeliveryInv ==
    /\ \A c, d \in Cmds : cmd[c].at \in {"write", "sync"} /\ cmd[d].at \in {"write", "sync"} => c = d
    /\ \A c \in Cmds : cmd[c].at \in {"write", "sync"} => file # Absent /\ delivered = {}
    /\ \A c \in Cmds : cmd[c].at = "sync" /\ ~replaced => file = cmd[c].checkpoint
    /\ delivered # {} => file # Absent
    /\ DeliveredStays

\* Nothing but the proxy signs entries and nothing but its key issues checkpoints;
\* a command's counters and digest say what it read, and a checkpoint that was
\* delivered stays.
EvidenceInv ==
    /\ EvidenceTypeOK /\ ProvenanceInv /\ CheckpointInv /\ DeliveryInv
    /\ \A c \in Cmds : ReadInv(c)
=============================================================================
