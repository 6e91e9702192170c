---------------------------- MODULE MCEphemeral -----------------------------
(* Instances of EphemeralSsh for TLC. *)
EXTENDS EphemeralSsh

\* A command and a journal, and a VM with boot notifications.
AnyOptions == {[execute |-> TRUE, journal |-> TRUE, notify |-> FALSE],
               [execute |-> FALSE, journal |-> FALSE, notify |-> TRUE]}

OnlyExecute == {[execute |-> TRUE, journal |-> FALSE, notify |-> FALSE]}
ExecuteAndNotify == {[execute |-> TRUE, journal |-> FALSE, notify |-> TRUE]}

Plain == {[execute |-> FALSE, journal |-> FALSE, notify |-> FALSE]}

AllCommands == {"run", "run-ssh", "to-disk"}
OnlyRun == {"run"}
=============================================================================
