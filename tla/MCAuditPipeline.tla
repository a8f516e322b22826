--------------------------- MODULE MCAuditPipeline --------------------------
(* Finalize over the asynchronous store, for TLC. *)
EXTENDS AuditPipelineInv, TLC

\* Operations are interchangeable; only runs without liveness properties use
\* the symmetry.
Symmetry == Permutations(Entries)
=============================================================================
