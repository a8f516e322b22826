----------------------------- MODULE AuditStore -----------------------------
(***************************************************************************)
(* What the audit backend promises to the layers above it: the interfaces  *)
(* Store, DurableAppender, EntryLookup and Syncer of internal/audit, with  *)
(* the outcomes the JSONL and SQLite backends can produce.  A batch is     *)
(* written under the backend's own mutex (or in one transaction), so one   *)
(* batch is one step.  An error says nothing about how much was stored:    *)
(* a failed rollback leaves a prefix, a failed directory sync or an        *)
(* unacknowledged commit leaves the whole batch.                           *)
(***************************************************************************)
EXTENDS Naturals, Sequences

CONSTANTS Entries,   \* identities (Entry.ID) of the audit records
          Bodies,    \* what a record says: its outcome, result and error
          Durable    \* TRUE when audit.durability = "sync"

ASSUME DurableAssumption == Durable \in BOOLEAN

VARIABLES stored,    \* the records the backend holds, in append order
          synced,    \* how many of them are known to be on disk
          open       \* FALSE once the backend was closed

storeVars == <<stored, synced, open>>

Records == [id : Entries, body : Bodies]

\* Some record of the sequence s carries identity e.
InSeq(e, s) == \E i \in 1..Len(s) : s[i].id = e

StoreTypeOK ==
    /\ stored \in Seq(Records)
    /\ synced \in 0..Len(stored)
    /\ open \in BOOLEAN

StoreInit ==
    /\ stored = <<>>
    /\ synced = 0
    /\ open = TRUE

\* AppendBatch, or AppendBatchDurable when Durable, that returned nil.
AppendBatchOk(b) ==
    /\ open
    /\ stored' = stored \o b
    /\ synced' = IF Durable THEN Len(stored') ELSE synced
    /\ UNCHANGED open

\* Mutant: the rollback truncates the file to nothing.
AppendBatchFailedTruncates(b) ==
    /\ stored' = <<>>
    /\ synced' = 0
    /\ UNCHANGED open

\* AppendBatch that returned an error: any prefix of b may have been stored.
AppendBatchFailed(b) ==
    /\ \E k \in 0..Len(b) :
          /\ k > 0 => open
          /\ stored' = stored \o SubSeq(b, 1, k)
    /\ UNCHANGED <<synced, open>>

\* Syncer.Sync that returned nil; one that failed changes nothing.
SyncOk ==
    /\ open
    /\ synced' = Len(stored)
    /\ UNCHANGED <<stored, open>>

CloseBackend ==
    /\ open' = FALSE
    /\ UNCHANGED <<stored, synced>>

\* EntryLookup.LookupEntry(e) = (entry, true, nil) with an entry equal to r.
LookupFound(r) ==
    /\ open
    /\ \E i \in 1..Len(stored) : stored[i] = r
    /\ \A i, j \in 1..Len(stored) :
          stored[i].id = r.id /\ stored[j].id = r.id => i = j

LookupAbsent(e) == open /\ ~InSeq(e, stored)
=============================================================================
