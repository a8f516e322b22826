---------------------------- MODULE AuditLedger -----------------------------
(***************************************************************************)
(* What the audit pipeline promises about accepted operations, without     *)
(* queues, batches, retries or failures: at most one terminal record per   *)
(* operation, which never changes once it is on disk, and an               *)
(* acknowledgement only for an operation whose record is on disk.          *)
(***************************************************************************)
CONSTANTS Ops,       \* accepted operations
          Outcomes,  \* terminal completions
          None       \* not recorded

VARIABLES ledger,    \* the terminal record each operation has on disk
          acked      \* operations whose Finalize returned nil

ledgerVars == <<ledger, acked>>

LedgerInit ==
    /\ ledger = [o \in Ops |-> None]
    /\ acked = {}

\* Records reach the disk, several at once when they share a batch.
Persist ==
    /\ ledger' \in [Ops -> Outcomes \cup {None}]
    /\ \A o \in Ops : ledger[o] # None => ledger'[o] = ledger[o]
    /\ UNCHANGED acked

Acknowledge(o) ==
    /\ ledger[o] # None
    /\ acked' = acked \cup {o}
    /\ UNCHANGED ledger

LedgerNext == Persist \/ \E o \in Ops : Acknowledge(o)

LedgerSpec == LedgerInit /\ [][LedgerNext]_ledgerVars
=============================================================================
