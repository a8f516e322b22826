---------------------------- MODULE MCJSONLStore ----------------------------
(* The JSONL backend on a failing disk, for TLC. *)
EXTENDS JSONLStore

Base == [durable |-> TRUE, size |-> 2, files |-> 0, interval |-> 0, age |-> 0,
         time |-> 1, appends |-> 4, faults |-> 2, crashes |-> 0]

\* Rotation by size and time in the same and in later seconds.
Rotating == [Base EXCEPT !.interval = 2, !.time = 2]
\* Rotation by size and time, retention by age, and a crash.
Ageing == [Base EXCEPT !.interval = 1, !.age = 1, !.time = 2, !.crashes = 1]
\* Not durable, with retention by number of archives.
Buffered == [Base EXCEPT !.durable = FALSE, !.files = 1]
\* An archive whose removal was not synced comes back with the crash.
Restored == [Base EXCEPT !.size = 1, !.age = 1, !.time = 3, !.appends = 2, !.faults = 3, !.crashes = 1]
\* Not durable, and the crash loses what was acknowledged.
Lossy == [Buffered EXCEPT !.appends = 3, !.crashes = 1]
\* The setting of TestJSONLStoreRetentionKeepsNewestArchives.
TwoArchives == [Base EXCEPT !.size = 1, !.files = 2, !.faults = 0]

AllConfigs ==
    {[Rotating EXCEPT !.appends = 3], [Rotating EXCEPT !.faults = 1], Buffered, Lossy, Restored,
     [Ageing EXCEPT !.appends = 3], [Ageing EXCEPT !.faults = 1]}
RetentionConfigs == {TwoArchives}
=============================================================================
