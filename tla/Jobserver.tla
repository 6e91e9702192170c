----------------------------- MODULE Jobserver ------------------------------
(***************************************************************************)
(* The VM jobserver of crates/itest: a pipe with one byte for every 128    *)
(* MiB of memory the host has for VMs.  A test that is not root reads the  *)
(* tokens of its VM from the pipe, starts the VM, runs in it, and writes   *)
(* the tokens back.                                                        *)
(*                                                                         *)
(* The bytes are all alike; here each is a token of its own, one certain   *)
(* piece of the host's memory, so that two VMs on the same memory show.    *)
(***************************************************************************)
EXTENDS FiniteSets, Integers

CONSTANTS
  Tests,     \* the tests that start a VM
  Procs,     \* the test processes: one per test, or one for several threads
  ProcOf,    \* ProcOf[t]: the process that runs test t
  Wrapper,   \* the process of my-tests --vm-jobserver
  Inherited, \* whether the tests were started by the wrapper
  Tokens,    \* compute_token_count: the pieces of 128 MiB
  Need,      \* Need[t]: the tokens of the VM of test t
  Booted,    \* the tests for libvirt run; the others use ephemeral run-ssh
  MaxKills   \* bound: the test processes that are killed

ASSUME JobserverAssumption ==
  /\ ProcOf \in [Tests -> Procs]
  /\ Wrapper \notin Procs
  /\ Inherited \in BOOLEAN
  /\ IsFiniteSet(Tokens)
  /\ Tokens # {}   \* .max(1)
  /\ Need \in [Tests -> Nat \ {0}]
  /\ Booted \subseteq Tests
  /\ MaxKills \in Nat

VARIABLES
  pipe,   \* pipe[s]: the tokens in the pipe that process s has made
  made,   \* the processes that have made a pipe
  pc,     \* pc[t]: where require_root is for test t
  got,    \* got[t]: the tokens t has read and not written back
  vm,     \* vm[t]: whether the VM of t is running
  kills   \* the processes killed so far

vars == <<pipe, made, pc, got, vm, kills>>

Servers == Procs \cup {Wrapper}

\* ITEST_VM_FDS names the wrapper's pipe; without it every process has its own.
Server(t) == IF Inherited THEN Wrapper ELSE ProcOf[t]

\* _permit is in scope.
Permit == {"launch", "boot", "guest", "rm", "drop"}
Labels == {"new", "acquire", "done", "killed"} \cup Permit
Ended == {"done", "killed"}

Goto(t, label) == pc' = [pc EXCEPT ![t] = label]

Init ==
  /\ made = IF Inherited THEN {Wrapper} ELSE {}
  /\ pipe = [s \in Servers |-> IF s \in made THEN Tokens ELSE {}]
  /\ pc = [t \in Tests |-> "new"]
  /\ got = [t \in Tests |-> {}]
  /\ vm = [t \in Tests |-> FALSE]
  /\ kills = 0

\* vm_jobserver: the first test of a process inherits or makes the pipe.
GetJobserver(t) ==
  /\ pc[t] = "new"
  /\ made' = made \cup {Server(t)}
  /\ pipe' = [pipe EXCEPT ![Server(t)] = IF Server(t) \in made THEN @ ELSE Tokens]
  /\ Goto(t, "acquire")
  /\ UNCHANGED <<got, vm, kills>>

Missing(t) == Need[t] - Cardinality(got[t])

\* The bytes that one read of at most n gets from a pipe that has some.
ReadSize(s, n) == IF Cardinality(pipe[s]) < n THEN Cardinality(pipe[s]) ELSE n

Take(t, S) ==
  /\ pipe' = [pipe EXCEPT ![Server(t)] = @ \ S]
  /\ got' = [got EXCEPT ![t] = @ \cup S]
  /\ UNCHANGED <<made, vm, kills>>

\* Mutant: read in place of read_exact, which goes on with what it has got.
AcquireOnce(t) ==
  /\ pc[t] = "acquire"
  /\ \E S \in SUBSET pipe[Server(t)] :
       /\ S # {}
       /\ Cardinality(S) = ReadSize(Server(t), Missing(t))
       /\ Take(t, S)
  /\ Goto(t, "launch")

\* read_exact: one read after another, each of which blocks on an empty pipe
\* and takes what there is, until the test has all the tokens it needs.
Acquire(t) ==
  /\ pc[t] = "acquire"
  /\ \E S \in SUBSET pipe[Server(t)] :
       /\ S # {}
       /\ Cardinality(S) = ReadSize(Server(t), Missing(t))
       /\ Take(t, S)
       /\ Goto(t, IF Cardinality(S) = Missing(t) THEN "launch" ELSE "acquire")

\* The command starts the VM, or fails before it has.
Launch(t) ==
  /\ pc[t] = "launch"
  /\ \/ vm' = [vm EXCEPT ![t] = TRUE] /\ Goto(t, "boot")
     \/ UNCHANGED vm /\ Goto(t, "drop")
  /\ UNCHANGED <<pipe, made, got, kills>>

\* The command waits for SSH.  On a timeout run-ssh removes its VM and libvirt
\* run leaves it.
Boot(t) ==
  /\ pc[t] = "boot"
  /\ \/ UNCHANGED vm /\ Goto(t, "guest")
     \/ vm' = [vm EXCEPT ![t] = t \in Booted] /\ Goto(t, "drop")
  /\ UNCHANGED <<pipe, made, got, kills>>

\* The test ends in the guest.
Guest(t) ==
  /\ pc[t] = "guest"
  /\ \/ t \in Booted /\ UNCHANGED vm /\ Goto(t, "rm")
     \/ t \notin Booted /\ vm' = [vm EXCEPT ![t] = FALSE] /\ Goto(t, "drop")
  /\ UNCHANGED <<pipe, made, got, kills>>

\* libvirt rm, whose failure is a warning.
Remove(t) ==
  /\ pc[t] = "rm"
  /\ \/ vm' = [vm EXCEPT ![t] = FALSE]
     \/ UNCHANGED vm
  /\ Goto(t, "drop")
  /\ UNCHANGED <<pipe, made, got, kills>>

\* Mutant: an error path that forgets the permit.
DropForgotten(t) ==
  /\ pc[t] = "drop"
  /\ got' = [got EXCEPT ![t] = {}]
  /\ Goto(t, "done")
  /\ UNCHANGED <<pipe, made, vm, kills>>

\* Mutant: the permit is returned and dropped once more at the end.
DropTwice(t) ==
  /\ pc[t] = "drop"
  /\ pipe' = [pipe EXCEPT ![Server(t)] = @ \cup got[t]]
  /\ Goto(t, "done")
  /\ UNCHANGED <<made, got, vm, kills>>

\* The drop of VmPermit.
Drop(t) ==
  /\ pc[t] = "drop"
  /\ pipe' = [pipe EXCEPT ![Server(t)] = @ \cup got[t]]
  /\ got' = [got EXCEPT ![t] = {}]
  /\ Goto(t, "done")
  /\ UNCHANGED <<made, vm, kills>>

\* A test process is killed: no destructor of its tests runs, and no VM stops.
Kill(p) ==
  /\ kills < MaxKills
  /\ \E t \in Tests : ProcOf[t] = p /\ pc[t] \notin Ended
  /\ kills' = kills + 1
  /\ pc' = [t \in Tests |-> IF ProcOf[t] = p /\ pc[t] \notin Ended THEN "killed" ELSE pc[t]]
  /\ UNCHANGED <<pipe, made, got, vm>>

TestStep(t) ==
  \/ GetJobserver(t) \/ Acquire(t) \/ Launch(t) \/ Boot(t) \/ Guest(t)
  \/ Remove(t) \/ Drop(t)

Next == (\E t \in Tests : TestStep(t)) \/ (\E p \in Procs : Kill(p))

Spec == Init /\ [][Next]_vars

\* A thread that can run does, a wait for SSH has a timeout, and what runs in
\* a guest ends.
FairSpec == Spec /\ \A t \in Tests : WF_vars(TestStep(t))

-----------------------------------------------------------------------------
\* Every variable keeps its type.
TypeOK ==
  /\ pipe \in [Servers -> SUBSET Tokens]
  /\ made \subseteq Servers
  /\ pc \in [Tests -> Labels]
  /\ got \in [Tests -> SUBSET Tokens]
  /\ vm \in [Tests -> BOOLEAN]
  /\ kills \in 0..MaxKills

\* What a test has read is what require_root says at that point: a part of
\* what it needs, or, for as long as its permit lives, all of it.
Held ==
  \A t \in Tests :
    /\ pc[t] \in {"new", "done"} => got[t] = {}
    /\ pc[t] = "acquire" => Cardinality(got[t]) < Need[t] /\ Server(t) \in made
    /\ pc[t] \in Permit => Cardinality(got[t]) = Need[t] /\ Server(t) \in made
    /\ got[t] # {} => Server(t) \in made
    /\ vm[t] /\ pc[t] # "done" => Cardinality(got[t]) = Need[t]

\* acquire and the drop of VmPermit neither make nor lose a token: each is in
\* the pipe, or with one test, be it a killed one.
TokensConserved ==
  \A s \in made :
    LET users == {t \in Tests : Server(t) = s} IN
    /\ \A t \in users : got[t] \cap pipe[s] = {}
    /\ \A t, u \in users : t # u => got[t] \cap got[u] = {}
    /\ \A k \in Tokens : k \in pipe[s] \/ \E t \in users : k \in got[t]

\* What holds whatever tests do, fail or are killed: no token is made or lost,
\* and each test has as many as its point in require_root says.
TokenInv == TypeOK /\ Held /\ TokensConserved

\* The memory of the VM of test t is accounted for: t has a token for every
\* piece, and no other test has one of them.
Backed(t) ==
  /\ Cardinality(got[t]) = Need[t]
  /\ \A u \in Tests \ {t} : got[t] \cap got[u] = {}

\* resources.rs, "limits total VM memory across all concurrent test
\* processes": whatever tests do, are killed or fail, the VMs of tests that
\* have not returned from require_root are on memory of their own.
VmsBacked == \A t \in Tests : vm[t] /\ pc[t] # "done" => Backed(t)

\* resources.rs, acquire "blocks until enough tokens are available": a test
\* waits for nothing but the return of somebody's permit.
NeverStuck ==
  kills = 0 =>
    \A t \in Tests : pc[t] = "acquire" =>
      \/ pipe[Server(t)] # {}
      \/ \E u \in Tests : Server(u) = Server(t) /\ pc[u] \in Permit

Users(s) == {t \in Tests : Server(t) = s}

\* Test t waits with a part of its tokens, and it needs more than there are, or
\* more than a test that has ended and whose tokens are back.
Outgrows(t) ==
  /\ pc[t] = "acquire"
  /\ got[t] # {}
  /\ \/ Need[t] > Cardinality(Tokens)
     \/ \E u \in Users(Server(t)) : pc[u] = "done" /\ Need[u] < Need[t]

\* What NeverStuck comes to where tests need different numbers: waiting tests
\* are stuck with the tokens among them only if one that holds a part is larger
\* than a test that has ended, or than the budget.
StuckOnlyBySize ==
  kills = 0 =>
    \A t \in Tests : pc[t] = "acquire" =>
      \/ pipe[Server(t)] # {}
      \/ \E u \in Users(Server(t)) : pc[u] \in Permit \/ Outgrows(u)

\* Why that is so: what the last permit returned is enough for a whole test of
\* its size, so that only a larger one can be left with a part.
EnoughLeft ==
  kills = 0 =>
    \A s \in made :
      \/ pipe[s] = Tokens
      \/ \E u \in Users(s) : pc[u] = "done" /\ Cardinality(pipe[s]) >= Need[u]
      \/ \E u \in Users(s) : pc[u] \in Permit \/ Outgrows(u)

\* The jobserver implements VmBudget: tokens a waiting test has read so far
\* are still free, and its permit is there once it has read them all.
Budget == INSTANCE VmBudget
            WITH Allotments <- [t \in Tests |-> {S \in SUBSET Tokens : Cardinality(S) = Need[t]}],
                 free <- pipe[Wrapper] \cup UNION {got[t] : t \in {u \in Tests : pc[u] = "acquire"}},
                 permit <- [t \in Tests |-> IF Cardinality(got[t]) = Need[t] THEN got[t] ELSE {}]

JobserverIsBudget == Budget!Spec

\* The users of pipe s hold its tokens in parts, one of them too large.  Nobody
\* can take a step then but one that has not begun to wait, or a kill.
Deadlocked(s) ==
  /\ pipe[s] = {}
  /\ \A u \in Users(s) : pc[u] \notin Permit
  /\ \E u \in Users(s) : Outgrows(u)

\* Unless a process is killed or tests of different sizes hold all tokens in
\* parts, every test gets its VM's tokens and ends.
EveryTestEnds ==
  \A t \in Tests : <>(pc[t] = "done" \/ kills > 0 \/ Deadlocked(Server(t)))
=============================================================================
