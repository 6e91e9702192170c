---------------------------- MODULE VirshSession ----------------------------
(***************************************************************************)
(* Commands that talk to libvirt through virsh, and then to a guest        *)
(* through SSH: every call of virsh is tried again while the daemon of a   *)
(* user's session is exiting or starting, and the session of a user is     *)
(* opened once a test connection has succeeded (virsh.rs, ssh.rs, start.rs,*)
(* status.rs, the end of run.rs, and utils::wait_for_readiness).           *)
(*                                                                         *)
(* Time is counted in quarters of a second.  It passes from one event to   *)
(* the next, when nothing is due.                                          *)
(***************************************************************************)
EXTENDS Integers, Sequences, FiniteSets

CONSTANTS
  Procs,         \* bcvk processes, which work on one domain
  Worlds,        \* [user, asked, vm, daemon, faults], see the variables
  ExitTimes,     \* how long the daemon may take to exit
  SpawnTimes,    \* how long it may take to listen
  BootTimes,     \* how long the guest may take until sshd answers
  None

Seconds(n) == 4 * n
Never == Seconds(1000000)

VARIABLES
  now,
  user,   \* [root, env], where env is LIBVIRT_DEFAULT_URI
  asked,  \* what each process may be asked for
  daemon, \* [state, at]: up (idle till at, if nobody is connected), exiting
          \* or starting (till at), or gone
  exits,  \* how often the daemon has begun to exit
  faults, \* [kills, offs]: how often somebody else may yet terminate it, and
          \* how often the guest may yet power off
  vm,     \* the domain: [defined, state, key, port, net, sshd]; while it is
          \* running, it has a network from net on and answers SSH from sshd on
  lost,   \* the domain has been powered off by its guest
  pc,
  job,    \* what each process does
  ran,    \* processes whose command of virsh has been executed by libvirt
  cut     \* history: processes whose connection was lost during a command

world == <<user, asked, vm, lost>>
vars == <<now, user, asked, daemon, exits, faults, vm, lost, pc, job, ran, cut>>

-----------------------------------------------------------------------------
(* The calls of virsh and the waits of every command, in order.            *)

Virsh(cmd) == [cmd |-> cmd, limit |-> 0, poll |-> 0, test |-> 0]
Wait(limit, poll, test) ==
  [cmd |-> "wait", limit |-> limit, poll |-> poll, test |-> test]

\* verify_domain_running and extract_ssh_config.
Prepare == <<Virsh("dominfo"), Virsh("domstate"), Virsh("dumpxml")>>

\* `libvirt ssh` with its --timeout, which bounds each test connection.
Ssh(timeout) ==
  Prepare \o <<Wait(Seconds(60), Seconds(1), timeout), Virsh("session")>>

\* `libvirt start`, which leaves out `virsh start` if the domain is running.
StartSteps == <<Virsh("state"), Virsh("start")>>

\* `libvirt status`.
StatusSteps == <<Virsh("version"), Virsh("list"), Virsh("count")>>

Steps(op) ==
  CASE op = "ssh" -> Ssh(Seconds(5))
    [] op = "start" -> StartSteps
    [] op = "start --ssh" -> StartSteps \o Ssh(Seconds(30))
    [] op = "run --ssh-wait" -> Prepare \o <<Wait(Seconds(180), Seconds(2), Seconds(5))>>
    [] op = "run --ssh" -> Prepare \o <<Wait(Seconds(180), Seconds(2), Seconds(5))>>
                       \o Ssh(Seconds(30))
    [] op = "status" -> StatusSteps

ConnectRetryTimeoutShort == Seconds(20)
ConnectRetryTimeout == Seconds(60)
InitialBackoff == 1
MaxBackoff == Seconds(4)

\* A URI is the end of its path, without the query; None stands for libvirt's
\* own choice.  The daemon of a session is started by its clients.
UsesSessionDaemon(uri, root) ==
  IF uri = None THEN ~root ELSE uri = "session"

\* VirshCommand::new takes LIBVIRT_DEFAULT_URI for the URI that is missing,
\* and `status` passes none on.
Uri(req) ==
  LET given == IF req.op = "status" THEN None ELSE req.uri
  IN  IF given # None THEN given ELSE user.env

RetryConnect(req) == UsesSessionDaemon(Uri(req), user.root)

\* libvirt's own choice of a daemon.
OnSession(req) ==
  IF Uri(req) # None THEN Uri(req) = "session" ELSE ~user.root

\* What a call of virsh has returned: the messages of the connection and of
\* the socket or the stream, and the answer.
Output(ok, connect, error, answer) ==
  [ok |-> ok, connect |-> connect, error |-> error, answer |-> answer]
Answer(a) == Output(TRUE, FALSE, "none", a)
Failure(connect, error) == Output(FALSE, connect, error, "none")

\* Mutant: an end of file is retried whoever reports it.
IsTransientStream(output) ==
  ~output.ok /\ output.error \in {"no socket", "refused", "end of file"}

IsTransientConnectFailure(output) ==
  /\ ~output.ok
  /\ output.connect
  /\ output.error \in {"no socket", "refused", "end of file"}

NextBackoff(b) == IF 2 * b < MaxBackoff THEN 2 * b ELSE MaxBackoff

-----------------------------------------------------------------------------

NoJob == [req |-> None, todo |-> <<>>, at |-> 0, deadline |-> 0, backoff |-> 0,
          since |-> 0, reply |-> None, version |-> FALSE]
Job(req, todo, version) ==
  [NoJob EXCEPT !.req = req, !.todo = todo, !.version = version]

Init ==
  /\ now = 0
  /\ \E w \in Worlds : /\ /\ user = w.user /\ asked = w.asked /\ vm = w.vm
                      /\ daemon = w.daemon /\ faults = w.faults
  /\ exits = IF daemon.state = "exiting" THEN 1 ELSE 0
  /\ lost = FALSE
  /\ pc = [p \in Procs |-> "idle"]
  /\ job = [p \in Procs |-> NoJob]
  /\ ran = {}
  /\ cut = {}

Step(p) == Head(job[p].todo)
Due(p) == job[p].at <= now

Goto(p, label, j) ==
  /\ pc' = [pc EXCEPT ![p] = label]
  /\ job' = [job EXCEPT ![p] = j]

\* The next call or wait of the command: `output` sets its deadline,
\* wait_for_readiness takes the time.
Proceed(p, j) ==
  /\ ran' = ran \ {p}
  /\ IF j.todo = <<>> THEN Goto(p, "done", j)
     ELSE CASE Head(j.todo).cmd = "wait" ->
                 Goto(p, "poll", [j EXCEPT !.since = now, !.at = now])
            [] Head(j.todo).cmd = "session" ->
                 Goto(p, "session", [j EXCEPT !.at = now])
            [] OTHER ->
                 Goto(p, "attempt", [j EXCEPT !.at = now, !.backoff = InitialBackoff,
                                              !.deadline = now + ConnectRetryTimeout])

\* An error return.
Fail(p) ==
  /\ ran' = ran \ {p}
  /\ Goto(p, "failed", Job(job[p].req, <<>>, FALSE))

Begin(p, req) ==
  /\ pc[p] = "idle"
  /\ Proceed(p, Job(req, Steps(req.op), FALSE))
  /\ UNCHANGED <<now, world, daemon, exits, faults, cut>>

\* What the callers make of the output: an error of any kind is "not found",
\* except that `status` goes on without a version and without a state.
Accepts(cmd, output) ==
  CASE cmd \in {"version", "count"} -> TRUE
    [] cmd = "domstate" -> output.ok /\ output.answer = "running"
    [] cmd = "dumpxml" -> /\ output.ok
                          /\ output.answer.key \in {"base64", "legacy"}
                          /\ output.answer.port
    [] OTHER -> output.ok

Return(p, output) ==
  LET j == job[p]
      known == Step(p).cmd = "version" /\ output.ok
      running == Step(p).cmd = "state" /\ output.answer = "running"
  IN  IF ~Accepts(Step(p).cmd, output) THEN Fail(p)
      ELSE Proceed(p, Job(j.req, IF running THEN Tail(Tail(j.todo)) ELSE Tail(j.todo),
                          j.version \/ known))

\* output_with_retry, after an attempt of virsh.
Attempted(p, output) ==
  IF \/ ~RetryConnect(job[p].req)
     \/ ~IsTransientConnectFailure(output)
     \/ now >= job[p].deadline
  THEN Return(p, output)
  ELSE /\ Goto(p, "backoff", [job[p] EXCEPT !.at = now + job[p].backoff,
                                            !.backoff = NextBackoff(@),
                                            !.reply = None])
       /\ UNCHANGED ran

Retry(p) ==
  /\ pc[p] = "backoff" /\ Due(p)
  /\ Goto(p, "attempt", job[p])
  /\ UNCHANGED <<now, world, daemon, exits, faults, ran, cut>>

-----------------------------------------------------------------------------
(* virsh and the daemon, as the documentation of virsh.rs has them.        *)

\* The daemon that the process talks to is there; a system daemon always is.
Served(p) == OnSession(job[p].req) => daemon.state = "up"

\* virsh connects, or starts a daemon and waits five seconds for its socket.
Attempt(p) ==
  /\ pc[p] = "attempt"
  /\ \/ Served(p) /\ Goto(p, "opening", job[p]) /\ UNCHANGED daemon
     \/ /\ ~Served(p)
        /\ Goto(p, "socket", [job[p] EXCEPT !.at = now + Seconds(5)])
        /\ \/ daemon.state \in {"exiting", "starting"} /\ UNCHANGED daemon
           \/ /\ daemon.state = "gone"
              /\ \E t \in SpawnTimes :
                    daemon' = [state |-> "starting", at |-> now + t]
  /\ UNCHANGED <<now, world, exits, faults, ran, cut>>

\* The socket is there, but nobody listens yet.
Refused(p) ==
  /\ pc[p] = "socket"
  /\ daemon.state = "starting"
  /\ Attempted(p, Failure(TRUE, "refused"))
  /\ UNCHANGED <<now, world, daemon, exits, faults, cut>>

SocketAppears(p) ==
  /\ pc[p] = "socket"
  /\ daemon.state = "up"
  /\ Goto(p, "opening", job[p])
  /\ UNCHANGED <<now, world, daemon, exits, faults, ran, cut>>

SocketTimeout(p) ==
  /\ pc[p] = "socket" /\ Due(p)
  /\ daemon.state # "up"
  /\ Attempted(p, Failure(TRUE, "no socket"))
  /\ UNCHANGED <<now, world, daemon, exits, faults, cut>>

\* What a command prints.
Reply(cmd) ==
  CASE cmd \in {"version", "list"} -> Answer("ok")
    [] cmd \in {"state", "domstate", "count"} /\ vm.defined -> Answer(vm.state)
    [] cmd = "dumpxml" /\ vm.defined -> Answer([key |-> vm.key, port |-> vm.port])
    [] cmd = "dominfo" /\ vm.defined -> Answer("ok")
    [] cmd = "start" /\ vm.defined /\ vm.state = "shut off" -> Answer("ok")
    [] OTHER -> Failure(FALSE, "domain")

\* The connection is open and libvirt executes the command.
Opened(p) ==
  /\ pc[p] = "opening"
  /\ Served(p)
  /\ Goto(p, "command", [job[p] EXCEPT !.at = 0, !.reply = Reply(Step(p).cmd)])
  /\ ran' = ran \cup {p}
  /\ IF Step(p).cmd = "start" /\ Reply("start").ok
     THEN \E b \in BootTimes : vm' = [vm EXCEPT !.state = "running",
                                               !.net = now + b.net, !.sshd = now + b.sshd]
     ELSE UNCHANGED vm
  /\ daemon' = IF OnSession(job[p].req) THEN [daemon EXCEPT !.at = Never] ELSE daemon
  /\ UNCHANGED <<now, user, asked, lost, exits, faults, cut>>

Connected == {p \in Procs : pc[p] = "command" /\ OnSession(job[p].req)}

\* The daemon is idle for 120 seconds from its last client on.
Answered(p) ==
  /\ pc[p] = "command"
  /\ Served(p)
  /\ Attempted(p, job[p].reply)
  /\ daemon' = IF Connected = {p} THEN [daemon EXCEPT !.at = now + Seconds(120)]
               ELSE daemon
  /\ UNCHANGED <<now, world, exits, faults, cut>>

\* The daemon exits while virsh opens the connection, or during a command.
Dropped(p) ==
  /\ pc[p] \in {"opening", "command"}
  /\ ~Served(p)
  /\ Attempted(p, Failure(pc[p] = "opening", "end of file"))
  /\ cut' = IF pc[p] = "command" THEN cut \cup {p} ELSE cut
  /\ UNCHANGED <<now, world, daemon, exits, faults>>

Exit ==
  /\ daemon.state = "up"
  /\ \E t \in ExitTimes : daemon' = [state |-> "exiting", at |-> now + t]
  /\ exits' = exits + 1
  /\ UNCHANGED <<now, world, pc, job, ran, cut>>

IdleExit ==
  /\ daemon.at <= now
  /\ Connected = {}
  /\ Exit
  /\ UNCHANGED faults

\* An upgrade of libvirt, or the end of the user's session.
Terminate ==
  /\ faults.kills > 0
  /\ Exit
  /\ faults' = [faults EXCEPT !.kills = @ - 1]

Exited ==
  /\ daemon.state = "exiting" /\ daemon.at <= now
  /\ daemon' = [daemon EXCEPT !.state = "gone"]
  /\ UNCHANGED <<now, world, exits, faults, pc, job, ran, cut>>

Listens ==
  /\ daemon.state = "starting" /\ daemon.at <= now
  /\ daemon' = [state |-> "up", at |-> now + Seconds(120)]
  /\ UNCHANGED <<now, world, exits, faults, pc, job, ran, cut>>

-----------------------------------------------------------------------------
(* SSH to the guest.                                                       *)

Reachable == vm.state = "running" /\ vm.sshd <= now

\* One round of wait_for_readiness: a test connection succeeds at once, or
\* it is refused, or, as long as the guest has no network, it takes as long as
\* ssh waits for an answer.
Poll(p) ==
  /\ pc[p] = "poll" /\ Due(p)
  /\ IF now - job[p].since >= Step(p).limit THEN Fail(p)
     ELSE IF Reachable THEN Proceed(p, Job(job[p].req, Tail(job[p].todo), job[p].version))
     ELSE /\ Goto(p, "test",
                  [job[p] EXCEPT !.at = now + IF now < vm.net THEN Step(p).test ELSE 1])
          /\ UNCHANGED ran
  /\ UNCHANGED <<now, world, daemon, exits, faults, cut>>

\* A guest that came up during the test may have answered it.
TestEnds(p) ==
  /\ pc[p] = "test" /\ Due(p)
  /\ \/ Reachable /\ Proceed(p, Job(job[p].req, Tail(job[p].todo), job[p].version))
     \/ /\ Goto(p, "poll", [job[p] EXCEPT !.at = now + Step(p).poll])
        /\ UNCHANGED ran
  /\ UNCHANGED <<now, world, daemon, exits, faults, cut>>

\* exec_ssh_session connects again, once.
Session(p) ==
  /\ pc[p] = "session"
  /\ IF Reachable THEN Proceed(p, Job(job[p].req, Tail(job[p].todo), job[p].version)) ELSE Fail(p)
  /\ UNCHANGED <<now, world, daemon, exits, faults, cut>>

PowerOff ==
  /\ faults.offs > 0
  /\ Reachable
  /\ faults' = [faults EXCEPT !.offs = @ - 1]
  /\ vm' = [vm EXCEPT !.state = "shut off"]
  /\ lost' = TRUE
  /\ UNCHANGED <<now, user, asked, daemon, exits, pc, job, ran, cut>>

-----------------------------------------------------------------------------

Timed == {"backoff", "socket", "poll", "test"}
Timers ==
  {job[p].at : p \in {q \in Procs : pc[q] \in Timed}}
    \cup (IF daemon.state = "gone" THEN {} ELSE {daemon.at})

Over == \A p \in Procs : pc[p] \in {"done", "failed"} \/ asked[p] = {}

\* Nothing is due, and the clock goes to the next thing that will be.
Advance ==
  /\ ~Over
  /\ \A p \in Procs : pc[p] \in Timed \cup {"idle", "done", "failed"}
  /\ \A p \in Procs : pc[p] = "socket" => daemon.state # "up"
  /\ \A t \in Timers : t > now
  /\ \E t \in Timers : /\ t < Never
                       /\ \A u \in Timers : t <= u
                       /\ now' = t
  /\ UNCHANGED <<world, daemon, exits, faults, pc, job, ran, cut>>

Next ==
  \/ \E p \in Procs :
       \/ \E req \in asked[p] : Begin(p, req)
       \/ Attempt(p) \/ Refused(p) \/ SocketAppears(p) \/ SocketTimeout(p)
       \/ Opened(p) \/ Answered(p) \/ Dropped(p) \/ Retry(p)
       \/ Poll(p) \/ TestEnds(p) \/ Session(p)
  \/ IdleExit \/ Terminate \/ Exited \/ Listens
  \/ PowerOff
  \/ Advance
  \/ Over /\ UNCHANGED vars

Spec == Init /\ [][Next]_vars

-----------------------------------------------------------------------------
(* Properties.                                                             *)

\* A command of virsh that libvirt has executed is never tried again: a
\* connection that ends while the command runs must be told from one that
\* ends before (virsh.rs, is_transient_connect_failure).
RetriesOnlyUnstarted == \A p \in Procs : pc[p] = "backoff" => p \notin ran

\* The last moment at which sshd may come up to be found by the wait: a test
\* connection may have begun just before, and a poll interval follows it.
InTime(p) == vm.sshd + Step(p).test + Step(p).poll <= job[p].since + Step(p).limit

Asked(p, ops) == job[p].req # None /\ job[p].req.op \in ops

\* What a command may rightly fail for: trouble with the daemon that the
\* retry is not made for, a domain that is not there, not running or not made
\* by bcvk, a second `start`, and a guest that comes up too late.
Excused(p) ==
  \/ exits > 1 \/ p \in cut' \/ lost
  \/ ~vm.defined
  \/ Step(p).cmd = "domstate" /\ job[p].reply = Answer("shut off")
  \/ vm.key \notin {"base64", "legacy"} \/ ~vm.port
  \/ Step(p).cmd = "start" /\ \E q \in Procs \ {p} : Asked(q, {"start", "start --ssh"})
  \/ Step(p).cmd = "wait" /\ ~InTime(p)

\* One exit of the libvirt daemon, at whatever moment and however long it
\* takes, is not seen by any command, and a guest that comes up in time gets
\* its session: no command fails on a domain that is running, and `status`
\* knows libvirt's version (virsh.rs, output_with_retry; utils.rs,
\* wait_for_readiness; ssh.rs, run_ssh_impl).
CommandsReach ==
  [][\A p \in Procs :
       /\ pc[p] # "failed" /\ pc'[p] = "failed" => Excused(p)
       /\ /\ pc[p] # "done" /\ pc'[p] = "done"
          /\ Asked(p, {"status"})
          => job'[p].version \/ exits > 1 \/ p \in cut']_vars
=============================================================================
