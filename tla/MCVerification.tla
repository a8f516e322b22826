--------------------------- MODULE MCVerification ---------------------------
(* A small instance of the evidence commands for TLC. *)
EXTENDS Verification, TLC

MCKey == [id |-> KeyID, secret |-> Secret]
Command(name, f, key, v2, checkpoint, output) ==
    [name |-> name, format |-> f, key |-> key, requireV2 |-> v2,
     checkpoint |-> checkpoint, output |-> output]

MCCommands ==
    {Command("verify", "auto", MCKey, FALSE, FALSE, FALSE),
     Command("verify", "jsonl", MCKey, TRUE, FALSE, FALSE),
     Command("verify", "auto", MCKey, FALSE, TRUE, FALSE),
     Command("verify", "auto", [id |-> "other", secret |-> Secret], FALSE, TRUE, FALSE),
     Command("checkpoint", "auto", MCKey, FALSE, FALSE, TRUE),
     Command("checkpoint", "sqlite", [id |-> KeyID, secret |-> None], FALSE, FALSE, TRUE),
     Command("checkpoint", "auto", MCKey, TRUE, FALSE, TRUE)}

\* Each way to sign.  Signed params are as a client may send them, so that the JSONL
\* encoder changes them after they were signed.
MCInputs ==
    {[kind |-> "v2", form |-> "raw"], [kind |-> "legacy", form |-> "raw"],
     [kind |-> "unsigned", form |-> "encoded"]}

MCSymmetry == Permutations(Cmds)
=============================================================================
