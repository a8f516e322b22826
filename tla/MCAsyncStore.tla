---------------------------- MODULE MCAsyncStore ----------------------------
(* The asynchronous store on its own, for TLC. *)
EXTENDS AsyncStore, TLC

\* Entries are interchangeable; only safety runs use the symmetry.
Symmetry == Permutations(Entries)
=============================================================================
