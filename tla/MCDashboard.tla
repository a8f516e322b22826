---------------------------- MODULE MCDashboard -----------------------------
(* A small instance of dashboard and SQLite store for TLC. *)
EXTENDS Dashboard

\* A whole second, and two fractions of it whose order the texts hide.
MCTimeOf == [e \in Entries |-> CASE e = "e1" -> <<5, <<>>>>
                                 [] e = "e2" -> <<5, <<5>>>>
                                 [] e = "e3" -> <<5, <<0, 5>>>>]

\* The competition for the pool, with failures and a crash; and the limiter, whose
\* windows pass, without appends.
MCBounds ==
    {[entries |-> Entries, faults |-> 2, crashes |-> 1, time |-> 0],
     [entries |-> {}, faults |-> 0, crashes |-> 0, time |-> 3]}

MCFilters ==
    {[from |-> <<>>, to |-> <<>>, limit |-> 0, match |-> Entries],
     [from |-> <<5, <<0, 5>>>>, to |-> <<5, <<5>>>>, limit |-> 1, match |-> Entries]}
=============================================================================
