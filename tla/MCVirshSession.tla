--------------------------- MODULE MCVirshSession ---------------------------
(* An instance of VirshSession for TLC.  Times are quarters of a second.   *)
EXTENDS VirshSession, TLC

CONSTANTS p1, p2
Of(op, uri) == [op |-> op, uri |-> uri]
Ask(first, second) == (p1 :> first) @@ (p2 :> second)

User == [root |-> FALSE, env |-> None]
Root == [root |-> TRUE, env |-> "session"]

Running(net, sshd) ==
  [defined |-> TRUE, state |-> "running", key |-> "base64", port |-> TRUE,
   net |-> Seconds(net), sshd |-> Seconds(sshd)]
ShutOff == [Running(0, 0) EXCEPT !.state = "shut off"]

Up(t) == [state |-> "up", at |-> t]
Exiting(t) == [state |-> "exiting", at |-> t]
Gone == [state |-> "gone", at |-> 0]

World(u, a, v, d, k, o) ==
  [user |-> u, asked |-> a, vm |-> v, daemon |-> d, faults |-> [kills |-> k, offs |-> o]]

Up0 == Running(0, 0)

\* The daemon has just begun or ended to exit, or is about to.
ExitWorlds ==
  {World(User, Ask({Of("ssh", None), Of("status", "system")}, {Of("start", None)}),
         v, d, 0, 0) : v \in {Up0, ShutOff}, d \in {Up(1), Exiting(Seconds(30)), Gone}}

\* It is terminated during a command.
KillWorlds ==
  {World(User, Ask({Of("ssh", "session"), Of("status", None)}, {}), Up0, d, 2, 0) :
     d \in {Up(Seconds(100)), Exiting(Seconds(30))}}

\* The guest is slow, powers off, or is not one of bcvk.
GuestWorlds ==
  {World(Root, Ask({Of("ssh", None), Of("run --ssh", None), Of("ssh", "system")}, {}),
         v, Up(Seconds(200)), 0, 1) :
     v \in {Running(54, 54), Running(48, 50), Running(55, 55), Running(170, 172)}}
  \cup {World(User, Ask({Of("start --ssh", None)}, {}), ShutOff, Gone, 0, 0)}
  \cup {World(Root, Ask({Of("ssh", None), Of("run --ssh-wait", None)}, {}), v, Gone, 0, 0) :
          v \in {[Up0 EXCEPT !.key = "none"], [Up0 EXCEPT !.defined = FALSE],
                 [Up0 EXCEPT !.key = "legacy"]}}

SomeWorlds == ExitWorlds \cup KillWorlds \cup GuestWorlds

SomeExitTimes == {1, Seconds(30)}
SomeSpawnTimes == {0, Seconds(2)}
SomeBootTimes == {[net |-> Seconds(n), sshd |-> Seconds(n)] : n \in {10, 29, 58}}
=============================================================================
