----------------------------- MODULE JSONLStore -----------------------------
(***************************************************************************)
(* The JSONL backend (internal/audit/storage/jsonl.go and durable.go) on a *)
(* file system that can fail and crash.  Every method runs under s.mu, so  *)
(* one call is one step; a crash inside a call is a call that failed at    *)
(* that point followed by Crash.                                           *)
(*                                                                         *)
(* The disk is modelled by what a crash may leave.  `disk' of an inode is  *)
(* the set of contents, `dirDisk' the set of directories it may expose; a  *)
(* successful fsync of the file or of the directory leaves only one.       *)
(*                                                                         *)
(* A line is the identities of the records whose bytes it holds, with two  *)
(* bits: whether its bytes are one JSON document and whether a newline     *)
(* ends it.  File sizes count lines.                                       *)
(* Encode fails only when the buffered writer does: entries hold valid     *)
(* JSON, so between calls the buffer is empty or its error is sticky.      *)
(***************************************************************************)
EXTENDS Naturals, FiniteSets, Sequences, SequencesExt

CONSTANTS
    NumEntries,  \* identities 1..NumEntries, in the order they are first appended
    MaxBatch,    \* bound: entries in one AppendBatch
    Configs      \* the configurations a store is opened with

ASSUME JSONLAssumption ==
    /\ {NumEntries, MaxBatch} \subseteq Nat
    /\ Configs \subseteq [durable : BOOLEAN, size : Nat, files : Nat, interval : Nat,
                          age : Nat, time : Nat, appends : 0..NumEntries, faults : Nat,
                          crashes : Nat]

VARIABLES
    config,   \* JSONLConfig, with the bounds of the instance
    files,    \* inode -> [lines, disk]
    dir,      \* file name -> inode, as the process sees it
    dirDisk,  \* the directories a crash may expose
    handle,   \* s.file: "open", "broken" (Close failed), "none", "closed", "down"
    sticky,   \* the buffered writer holds an error
    cutoff,   \* s.nextTimeCutoff; 0 is the zero time
    now,      \* config.now, the wall clock, in seconds of the archive names
    latest,   \* history: the latest time the wall clock has shown
    fresh,    \* the next identity that was never appended
    acked,    \* identities whose append or confirmation returned nil
    failed,   \* identities whose append returned an error, not yet resolved
    gone,     \* history: identities in archives that retention removed or that a
              \* rotation overwrote
    faults, crashes

diskVars == <<files, dir, dirDisk>>
callerVars == <<fresh, acked, failed>>
clockVars == <<now, latest>>
vars == <<config, diskVars, handle, sticky, cutoff, clockVars, callerVars, gone, faults, crashes>>

Durable    == config.durable   \* audit.durability = "sync"
MaxSize    == config.size      \* audit.rotation.max_size_bytes, in lines; 0 disables
MaxFiles   == config.files     \* audit.rotation.max_files; 0 disables
Interval   == config.interval  \* audit.rotation.interval, in clock ticks; 0 disables
MaxAge     == config.age       \* audit.rotation.max_age_days, in clock ticks; 0 disables
MaxTime    == config.time      \* bound: the last clock tick
MaxAppends == config.appends   \* bound: entries that are appended
MaxFaults  == config.faults    \* bound: calls in which file operations fail
MaxCrashes == config.crashes   \* bound: crashes

Entries == 1..NumEntries
Active == <<>>                       \* the name s.path; archives are <<second, suffix>>
Names == {Active} \cup (Nat \X Nat)
Lines == {l \in [ids : SUBSET Entries, whole : BOOLEAN, nl : BOOLEAN] :
             l.whole => \E e \in Entries : l.ids = {e}}

\* The documents of e in content c, and the records c holds bytes of.
Documents(e, c) == {k \in 1..Len(c) : c[k].whole /\ e \in c[k].ids}
Mentioned(c) == UNION {c[k].ids : k \in 1..Len(c)}
Ids(c) == {e \in Mentioned(c) : Documents(e, c) # {}}

-----------------------------------------------------------------------------
(* Files *)

Document(e) == [ids |-> {e}, whole |-> TRUE, nl |-> TRUE]
Unterminated(e) == {[ids |-> {e}, whole |-> w, nl |-> FALSE] : w \in BOOLEAN}
Encoded(b) == [k \in 1..Len(b) |-> Document(b[k])]

\* The last byte is a newline.
CleanTail(c) == c # <<>> => c[Len(c)].nl

\* Bytes appended after an unterminated line continue that line: it is no
\* longer one JSON document.
Glue(c, ls) ==
    IF CleanTail(c) \/ ls = <<>>
    THEN c \o ls
    ELSE [c EXCEPT ![Len(c)] = [ids |-> @.ids \cup ls[1].ids, whole |-> FALSE, nl |-> ls[1].nl]]
         \o Tail(ls)

\* What a write of the batch b may have put out when it stops early.
Torn(b) ==
    {SubSeq(Encoded(b), 1, k) : k \in 0..Len(b) - 1}
    \cup UNION {{Append(SubSeq(Encoded(b), 1, k - 1), l) : l \in Unterminated(b[k])} : k \in 1..Len(b)}
Partial(c, b) == {Glue(c, ls) : ls \in Torn(b)}

Empty == [lines |-> <<>>, disk |-> {<<>>}]
NewInode(fs) == 1 + Max({0} \cup DOMAIN fs)
Named(f, x, v) == [y \in DOMAIN f \cup {x} |-> IF y = x THEN v ELSE f[y]]
without(f, S) == [x \in DOMAIN f \ S |-> f[x]]
Content(d, fs, name) == fs[d[name]].lines

\* Directory d takes effect; ds are the states it went through.  A directory
\* sync makes d the only one a crash can expose.
Settle(fs, d, ds, synced) ==
    LET exposed == IF synced THEN {d} ELSE dirDisk \cup ds \cup {d}
    IN  /\ dir' = d
        /\ dirDisk' = exposed
        /\ files' = [i \in UNION {Range(x) : x \in exposed} |-> fs[i]]

-----------------------------------------------------------------------------
(* Archive names, and the order in which the files are read *)

\* Position of suffix n among the strings "", ".1", ".10", ".11", ..., ".2":
\* sort.Strings compares archive names as text (n < 100).
SuffixKey(n) == IF n < 10 THEN n * 11 ELSE (n \div 10) * 11 + 1 + (n % 10)

NameLess(a, b) ==
    \/ a[1] < b[1]
    \/ a[1] = b[1] /\ SuffixKey(a[2]) < SuffixKey(b[2])

archivePaths(d) == DOMAIN d \ {Active}

\* Mutant: the active file is read first.
queryPathsActiveFirst(a, b) == b # Active /\ (a = Active \/ NameLess(a, b))

\* queryPaths puts a before b: archives by their names, then the active file.
queryPaths(a, b) == a # Active /\ (b = Active \/ NameLess(a, b))

\* The first name that os.Stat does not find.  A Stat that fails, whatever the
\* error, takes the name of an archive for a free one.
nextArchivePath(d, t, fault) ==
    {<<t, n>> : n \in {k \in 0..Cardinality(DOMAIN d) :
                          /\ <<t, k>> \notin DOMAIN d \/ fault
                          /\ \A m \in 0..k - 1 : <<t, m>> \in DOMAIN d}}

nextRotationCutoff(t) == IF Interval = 0 THEN 0 ELSE (t \div Interval + 1) * Interval

\* Where e is found, by inode and line: no two names share an inode.
Hits(e) == UNION {{i} \X Documents(e, files[i].lines) : i \in Range(dir)}

\* walkEntries visits p before q.
VisitedFirst(d, p, q) ==
    \/ p[1] = q[1] /\ p[2] < q[2]
    \/ \E a, b \in DOMAIN d : d[a] = p[1] /\ d[b] = q[1] /\ queryPaths(a, b)

\* Query and Stats skip the lines that are not one JSON document.
Visited(d, fs) ==
    UNION {{i} \X {k \in 1..Len(fs[i].lines) : fs[i].lines[k].whole} : i \in Range(d)}

\* The documents of the retained stream, in the order they are visited.  LimitNewest
\* keeps that order among entries of one timestamp (SQLiteStore!QueryReference).
Query ==
    LET docs == Visited(dir, files)
    IN  [n \in 1..Cardinality(docs) |->
            LET p == CHOOSE x \in docs : Cardinality({y \in docs : VisitedFirst(dir, y, x)}) = n - 1
            IN  files[p[1]].lines[p[2]]]

\* Mutant: lines that are not valid JSON are skipped, as Query does.
LookupEntryLenient(e) ==
    IF handle \notin {"open", "broken"} \/ sticky \/ \E p, q \in Hits(e) : p # q
    THEN "error"
    ELSE IF Hits(e) # {} THEN "found" ELSE "absent"

\* LookupEntry(e) reads the whole stream strictly: any doubt is an error.
LookupEntry(e) ==
    IF \/ handle \notin {"open", "broken"}
       \/ sticky
       \/ \E i \in Range(dir) : \E l \in ToSet(files[i].lines) : ~(l.whole /\ l.nl)
       \/ \E p, q \in Hits(e) : p # q
    THEN "error"
    ELSE IF Hits(e) # {} THEN "found" ELSE "absent"

-----------------------------------------------------------------------------
(* Rotation *)

\* Archives applyRetention removes at time t from d: the aged ones first, then
\* the first names beyond MaxFiles.  A removal that fails is only logged.
applyRetention(d, t, fault) ==
    LET some(S) == IF fault THEN SUBSET S ELSE {S}
        aged == {a \in archivePaths(d) : MaxAge > 0 /\ a[1] + MaxAge < t}
        excess(x) == {a \in archivePaths(x) : MaxFiles > 0
                         /\ Cardinality({b \in archivePaths(x) : NameLess(a, b)}) >= MaxFiles}
    IN  UNION {{A \cup E : E \in some(excess(without(d, A)))} : A \in some(aged)}

\* rotate(now) on the written files fs.  The active file is renamed to `name', over
\* an archive of that name if there is one.
rotate(fs, synced, fault) ==
    \E name \in nextArchivePath(dir, now, fault) :
        LET renamed == Named(without(dir, {Active}), name, dir[Active])
            inode == NewInode(fs)
            created == Named(renamed, Active, inode)
            fs1 == Named(fs, inode, Empty)
            lost(R) == UNION ({Mentioned(Content(created, fs1, n)) : n \in R}
                              \cup {Mentioned(Content(dir, fs, n)) : n \in {name} \cap DOMAIN dir})
        IN  \/ /\ \E R \in applyRetention(created, now, fault) :
                    /\ gone' = gone \cup lost(R)
                    /\ Settle(fs1, without(created, R),
                              {renamed} \cup {without(created, S) : S \in SUBSET R}, synced)
               /\ handle' = "open"
               /\ cutoff' = IF cutoff # 0 /\ now >= cutoff THEN nextRotationCutoff(now) ELSE cutoff
            \/ /\ fault                          \* Stat or Close fails, or the rename does
               /\ handle' \in {"broken", "open", "none"}
               /\ Settle(fs, dir, {}, synced)
               /\ UNCHANGED <<cutoff, gone>>
            \/ /\ fault                          \* the new active file cannot be opened
               /\ handle' = "none"
               /\ Settle(fs, renamed, {}, synced)
               /\ gone' = gone \cup lost({})
               /\ UNCHANGED cutoff

\* A time trigger on a file that was empty before the append only moves the
\* cutoff.  Errors of the rotation are logged, not returned.
rotateIfNeeded(fs, wasEmpty, synced, fault) ==
    LET sizeTriggered == MaxSize > 0 /\ Len(Content(dir, fs, Active)) >= MaxSize
        timeDue == cutoff # 0 /\ now >= cutoff
    IN  IF sizeTriggered \/ (timeDue /\ ~wasEmpty)
        THEN rotate(fs, synced, fault)
        ELSE /\ Settle(fs, dir, {}, synced)
             /\ cutoff' \in {IF timeDue THEN nextRotationCutoff(now) ELSE cutoff}
                           \cup (IF fault THEN {cutoff} ELSE {})
             /\ UNCHANGED <<handle, gone>>

-----------------------------------------------------------------------------
(* Operations *)

Init ==
    /\ config \in Configs
    /\ files = [i \in {1} |-> Empty]
    /\ dir = [n \in {Active} |-> 1]
    /\ dirDisk = {dir}
    /\ handle = "open"
    /\ sticky = FALSE
    /\ now = 0 /\ latest = 0
    /\ cutoff = nextRotationCutoff(now)
    /\ fresh = 1
    /\ acked = {} /\ failed = {} /\ gone = {}
    /\ faults = 0 /\ crashes = 0

\* Mutant: a failed append is repeated without looking for its record.
BatchesBlind ==
    {[j \in 1..k |-> fresh + j - 1] : k \in {m \in 1..MaxBatch : fresh + m - 1 <= MaxAppends}}
    \cup {<<e>> : e \in failed}

\* The callers: new entries in one batch, or one whose append failed and that
\* the lookup of recordPrepared did not find.
Batches ==
    {[j \in 1..k |-> fresh + j - 1] : k \in {m \in 1..MaxBatch : fresh + m - 1 <= MaxAppends}}
    \cup {<<e>> : e \in {x \in failed : LookupEntry(x) = "absent"}}

Submitted(b) == fresh' = IF b[1] = fresh THEN fresh + Len(b) ELSE fresh
Failed(b) ==
    /\ Submitted(b)
    /\ failed' = failed \cup ToSet(b)
    /\ UNCHANGED acked

\* What a call that returned nil vouches for.  A durability barrier covers the
\* whole retained stream.
Acked(ids) ==
    /\ acked' = acked \cup ids \cup (IF Durable THEN UNION {Ids(files'[i].lines) : i \in Range(dir')} ELSE {})
    /\ failed' = failed \ ids

\* A call counts as faulty when some file operation in it fails.
Charge(fault) ==
    /\ fault => faults < MaxFaults
    /\ faults' = IF fault THEN faults + 1 ELSE faults

\* A durable append refuses a file whose last record is incomplete.
Writable ==
    /\ handle = "open"
    /\ Durable => CleanTail(Content(dir, files, Active))

\* appendBatch returns before it writes: no file, an incomplete tail, or an
\* error of Stat or ReadAt.
AppendRefused(b) ==
    /\ handle # "down"
    /\ Charge(Writable)
    /\ Failed(b)
    /\ UNCHANGED <<config, diskVars, handle, sticky, cutoff, clockVars, gone, crashes>>

\* Encode, Flush or Sync fails and the batch is rolled back.  When Truncate
\* fails too, the partial output and the writer's error stay.
AppendRolledBack(b) ==
    LET i == dir[Active]
        c == files[i].lines
        full == Glue(c, Encoded(b))
        written == IF sticky THEN {c} ELSE Partial(c, b) \cup (IF Durable THEN {full} ELSE {})
        onDisk == files[i].disk \cup written
    IN  /\ Writable
        /\ \E fault \in {~sticky, TRUE} :
              /\ Charge(fault)
              /\ \/ /\ \E ds \in {IF Durable THEN {c} ELSE onDisk} \cup (IF fault THEN {onDisk} ELSE {}) :
                          files' = [files EXCEPT ![i].disk = ds]
                    /\ sticky' = FALSE
                 \/ /\ fault
                    /\ \E w \in written :
                          /\ files' = [files EXCEPT ![i] = [lines |-> w, disk |-> onDisk]]
                          /\ sticky' = (sticky \/ w # full)
        /\ Failed(b)
        /\ UNCHANGED <<config, dir, dirDisk, handle, cutoff, clockVars, gone, crashes>>

\* Mutant: the file is synced after the rotation, which is then the new one.
AppendStoredLateSync(b) ==
    LET i == dir[Active]
        c == files[i].lines
        full == Glue(c, Encoded(b))
        fs == [files EXCEPT ![i] = [lines |-> full, disk |-> @.disk \cup Partial(c, b) \cup {full}]]
    IN  /\ Writable
        /\ ~sticky
        /\ Charge(FALSE)
        /\ rotateIfNeeded(fs, c = <<>>, Durable, FALSE)
        /\ Submitted(b) /\ Acked(ToSet(b))
        /\ UNCHANGED <<config, sticky, clockVars, crashes>>

\* Mutant: the writer's buffer is not reset after a failed batch, whose records
\* come out with the next one.
AppendStoredLeftover(b) ==
    LET i == dir[Active]
        c == files[i].lines
        left == SetToSeq({e \in failed : LookupEntry(e) = "absent"} \ ToSet(b))
        full == Glue(c, Encoded(left \o b))
        fs == [files EXCEPT ![i] = [lines |-> full, disk |-> IF Durable THEN {full} ELSE @.disk \cup {full}]]
    IN  /\ Writable
        /\ ~sticky
        /\ Charge(FALSE)
        /\ rotateIfNeeded(fs, c = <<>>, Durable, FALSE)
        /\ Submitted(b) /\ Acked(ToSet(b))
        /\ UNCHANGED <<config, sticky, clockVars, crashes>>

\* The batch is written, synced when durable, and the file rotated; a failed
\* directory sync is an error although the batch is stored.
AppendStored(b) ==
    LET i == dir[Active]
        c == files[i].lines
        full == Glue(c, Encoded(b))
        fs == [files EXCEPT ![i] =
                  [lines |-> full,
                   disk |-> IF Durable THEN {full} ELSE @.disk \cup Partial(c, b) \cup {full}]]
    IN  /\ Writable
        /\ ~sticky
        /\ \E fault \in BOOLEAN, dirSynced \in BOOLEAN :
              /\ Charge(fault)
              /\ dirSynced \/ fault
              /\ rotateIfNeeded(fs, c = <<>>, Durable /\ dirSynced, fault)
              /\ IF Durable /\ ~dirSynced
                 THEN Failed(b)
                 ELSE Submitted(b) /\ Acked(ToSet(b))
        /\ UNCHANGED <<config, sticky, clockVars, crashes>>

appendBatch(b) == AppendRefused(b) \/ AppendRolledBack(b) \/ AppendStored(b)

\* Sync of every retained file and of the directory; one that fails may have
\* synced some, which only narrows what a crash can leave.
Sync ==
    /\ files' = [i \in Range(dir) |-> [files[i] EXCEPT !.disk = {files[i].lines}]]
    /\ dirDisk' = {dir}
    /\ UNCHANGED dir

\* recordPrepared finds the record of a failed append and confirms it.
Confirm(e) ==
    /\ e \in failed
    /\ LookupEntry(e) = "found"
    /\ IF Durable THEN Sync ELSE UNCHANGED diskVars
    /\ Acked({e})
    /\ UNCHANGED <<config, handle, sticky, cutoff, clockVars, fresh, gone, faults, crashes>>

Close ==
    /\ handle \in {"open", "broken", "none"}
    /\ handle' \in CASE handle = "open" -> {"closed", "broken"}
                     [] handle = "broken" -> {"broken"}
                     [] handle = "none" -> {"closed"}
    /\ Charge(handle = "open" /\ handle' = "broken")
    /\ UNCHANGED <<config, diskVars, sticky, cutoff, clockVars, callerVars, gone, crashes>>

\* The machine stops: unsynced contents and directory changes may be lost, and
\* so are the operations that were being retried.
Crash ==
    /\ handle # "down"
    /\ crashes < MaxCrashes
    /\ crashes' = crashes + 1
    /\ \E d \in dirDisk :
          \E c \in {f \in [Range(d) -> UNION {files[i].disk : i \in Range(d)}] :
                       \A i \in Range(d) : f[i] \in files[i].disk} :
             /\ files' = [i \in Range(d) |-> [lines |-> c[i], disk |-> {c[i]}]]
             /\ dir' = d
             /\ dirDisk' = {d}
    /\ handle' = "down"
    /\ sticky' = FALSE
    /\ acked' = IF Durable THEN acked ELSE {}
    /\ failed' = {}
    /\ UNCHANGED <<config, cutoff, clockVars, fresh, gone, faults>>

NewJSONLStore ==
    LET inode == NewInode(files)
    IN  /\ handle = "down"
        /\ handle' = "open"
        /\ cutoff' = nextRotationCutoff(now)
        /\ IF Active \in DOMAIN dir
           THEN UNCHANGED diskVars
           ELSE Settle(Named(files, inode, Empty), Named(dir, Active, inode), {}, FALSE)
        /\ UNCHANGED <<config, sticky, clockVars, callerVars, gone, faults, crashes>>

\* The wall clock goes on, jumps or is set back.
Tick ==
    /\ now' \in 0..MaxTime \ {now}
    /\ latest' = Max({latest, now'})
    /\ UNCHANGED <<config, diskVars, handle, sticky, cutoff, callerVars, gone, faults, crashes>>

Next ==
    \/ \E b \in Batches : appendBatch(b)
    \/ \E e \in Entries : Confirm(e)
    \/ Close
    \/ Crash
    \/ NewJSONLStore
    \/ Tick

Spec == Init /\ [][Next]_vars

-----------------------------------------------------------------------------
(* Properties *)

JSONLTypeOK ==
    /\ config \in Configs
    /\ DOMAIN files = UNION {Range(d) : d \in dirDisk}
    /\ DOMAIN files \subseteq Nat /\ IsFiniteSet(DOMAIN files)
    /\ \A i \in DOMAIN files :
          /\ files[i] \in [lines : Seq(Lines), disk : SUBSET Seq(Lines)]
          /\ files[i].lines \in files[i].disk
    /\ dir \in dirDisk
    /\ handle \in {"open", "broken", "none", "closed", "down"}
    /\ handle \in {"open", "broken"} => Active \in DOMAIN dir
    /\ sticky \in BOOLEAN
    /\ now \in Nat /\ latest \in Nat /\ now <= latest /\ cutoff \in Nat
    /\ fresh \in 1..NumEntries + 1
    /\ faults \in 0..MaxFaults /\ crashes \in 0..MaxCrashes

\* A directory never holds an inode twice, and the active file was never an archive
\* in a directory that a crash may bring back.
DirInv ==
    \A d \in dirDisk :
        /\ d \in [DOMAIN d -> DOMAIN files] /\ IsInjective(d)
        /\ DOMAIN d \subseteq Names /\ IsFiniteSet(DOMAIN d)
        /\ \A n \in DOMAIN d : Active \in DOMAIN dir /\ d[n] = dir[Active] => n = Active

\* New identities are nowhere, and what only a crash brings back is gone.
HistoryInv ==
    /\ \A i \in DOMAIN files : \A c \in files[i].disk : Mentioned(c) \subseteq 1..fresh - 1
    /\ \A i \in DOMAIN files \ Range(dir) : Mentioned(files[i].lines) \subseteq gone
    /\ acked \cup failed \cup gone \subseteq 1..fresh - 1

\* Content with complete lines only, and with at most the last one unterminated.
Sound(c) == \A k \in 1..Len(c) : c[k].whole /\ c[k].nl
Tidy(c) == \A k \in 1..Len(c) : k < Len(c) \/ c[k].nl => c[k].whole /\ c[k].nl

\* In durable mode only the active file may not be on disk as it is read, and only
\* its last line may be torn.
SettledInv ==
    Durable => \A i \in DOMAIN files :
        /\ \A c \in files[i].disk : Tidy(c)
        /\ \/ Active \in DOMAIN dir /\ i = dir[Active]
           \/ files[i].disk = {files[i].lines} /\ Sound(files[i].lines)

\* No identity has two documents, in what is read and, in durable mode, in what a
\* crash may leave.
UniqueInv ==
    LET dirs == IF Durable THEN dirDisk ELSE {dir}
        contents(i) == IF Durable THEN files[i].disk ELSE {files[i].lines}
    IN  Durable \/ crashes = 0 =>
            \A d \in dirs : \A i, j \in Range(d) :
                \A c \in contents(i), g \in contents(j) :
                    \A e \in (Ids(c) \cap Ids(g)) \ gone :
                        i = j /\ (c = g => \A k, l \in Documents(e, c) : k = l)

\* A record that a durable append or confirmation acknowledged is in every state
\* a crash can leave, unless retention removed its archive or a rotation whose Stat
\* failed overwrote it: appendBatch syncs the file before it rotates and the
\* directory before it returns nil.
AckedSurvivesCrash ==
    Durable =>
        \A e \in acked \ gone : \A d \in dirDisk : \E i \in Range(d) :
            \A c \in files[i].disk : Document(e) \in ToSet(c)

\* The strict lookup never denies a record the store acknowledged, not even one
\* glued to the torn line of an earlier failure: LookupEntry then reports an
\* error, so recordPrepared does not append the record again.
LookupNeverDenies ==
    \A e \in acked \ gone : LookupEntry(e) # "absent"

\* The retained files never hold two documents of one identity, although
\* failed appends are repeated: what a failed append left is found by the lookup
\* that precedes the next one, in the active file or in an archive.  Two cases are
\* left open.  An archive whose removal was not synced comes back with a crash,
\* when its record may have been appended again.  And a crash of a buffered store
\* may leave a record that was rolled back.
UniqueIdentity ==
    Durable \/ crashes = 0 => \A e \in Entries \ gone : \A p, q \in Hits(e) : p = q

\* The files are well formed and hold no identity twice (UniqueIdentity).
FilesInv ==
    /\ JSONLTypeOK /\ DirInv /\ HistoryInv /\ SettledInv /\ UniqueInv
    /\ UniqueIdentity

\* No archive is of a later second than t, and those of t have consecutive
\* suffixes, unless max_files removes archives that are still young.
Consecutive(d, t) ==
    \A n \in archivePaths(d) :
        /\ n[1] <= t
        /\ n[1] = t => \A m \in 0..n[2] - 1 : <<t, m>> \in DOMAIN d

\* The names of the archives are in the order they were made in as long as no
\* retention frees a suffix and the clock is not behind; the process is down only
\* after a crash.
NamesInv ==
    /\ MaxFiles = 0 => \A d \in dirDisk : Consecutive(d, latest)
    /\ handle = "down" => crashes > 0

JSONLInv == FilesInv /\ NamesInv

\* No second has an eleventh archive: its suffix .10 sorts before .2.
SuffixesSort == \A n \in archivePaths(dir) : n[2] < 10

\* A query meets e among the retained documents, and meets it before f.
Returned(e) == Hits(e) # {}
ReturnedFirst(e, f) == \E p \in Hits(e), q \in Hits(f) : VisitedFirst(dir, p, q)

\* A rotation put the active file in the place of an archive.
Overwritten == \E n \in archivePaths(dir) \cap DOMAIN dir' : dir'[n] # dir[n]

\* The stream of a durable store is append-only until it crashes: what a reader saw
\* it sees after the next call, unless its archive was retired or overwritten.  It
\* sees it in the same order and before all that is new, for the archive of a second
\* sorts behind those created before it.  Three things break the order: retention by
\* max_files, which frees names that the next archive takes (RetentionKeepsNewest), a
\* clock that was set back, and an archive that takes the name of another.  (A
\* buffered append may continue a torn line and take a record away: see
\* LookupNeverDenies.)
ReadsInAppendOrder ==
    [][Durable /\ crashes' = crashes =>
          \A e \in Entries \ gone' : Returned(e) =>
              /\ Returned(e)'
              /\ MaxFiles = 0 /\ SuffixesSort' /\ now = latest /\ ~Overwritten =>
                    \A f \in Entries \ gone' :
                        IF Returned(f) THEN ReturnedFirst(e, f) => ReturnedFirst(e, f)'
                                       ELSE Returned(f)' => ReturnedFirst(e, f)']_vars

\* Retention by max_files keeps the newest archives: an archive is retained only
\* together with every archive rotated after it.
RetentionKeepsNewest ==
    Active \in DOMAIN dir =>
        \A n \in DOMAIN dir \ {Active} : dir[n]..dir[Active] \subseteq Range(dir)

\* The backend contract the asynchronous store and the pipeline are built on.
Contract == INSTANCE AuditStore WITH
    Bodies <- {TRUE}, Durable <- TRUE,
    stored <- LET q == Query IN [k \in 1..Len(q) |-> [id |-> CHOOSE e \in q[k].ids : TRUE, body |-> TRUE]],
    synced <- Cardinality(acked),
    open <- handle # "closed"

ContractBatches == {[k \in 1..Len(b) |-> [id |-> b[k], body |-> TRUE]] : b \in Batches}

ContractNext ==
    \/ \E b \in ContractBatches : Contract!AppendBatchOk(b) \/ Contract!AppendBatchFailed(b)
    \/ Contract!SyncOk
    \/ Contract!CloseBackend

\* Durable, without retention and crashes, while no archive is overwritten and the
\* clock is not behind, the files implement AuditStore: a batch whose append returned
\* nil follows what was stored, a failed one leaves a prefix, and nothing else changes
\* the retained stream.
Plain ==
    /\ Durable /\ MaxFiles = 0 /\ MaxAge = 0 /\ MaxCrashes = 0
    /\ SuffixesSort' /\ now = latest /\ ~Overwritten /\ gone' = {}
ImplementsStore ==
    /\ Contract!StoreInit
    /\ [][Plain => ContractNext]_(Contract!storeVars)
=============================================================================
