---------------------------- MODULE MCStdioProxy ----------------------------
(* The stdio proxy, for TLC. *)
EXTENDS StdioProxy

\* JSON-RPC ids are interchangeable; only safety runs use the symmetry.
Symmetry == Permutations(Ids)
=============================================================================
