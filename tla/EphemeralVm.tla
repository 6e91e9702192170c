---------------------------- MODULE EphemeralVm -----------------------------
(***************************************************************************)
(* The inside of an ephemeral VM's container: the main task of             *)
(* container-entrypoint (run_impl), the tasks and threads it starts, QEMU  *)
(* and its guest, and the status file that tells the outside about them.   *)
(*                                                                         *)
(* What blocks whom is the point of this module.  The main task is async,  *)
(* but calls that block block all of it.  Timers, signals and the wake-up  *)
(* of tasks need a worker thread of the runtime that is not blocked.       *)
(* Output is counted in units, of which a pipe holds PipeSize.             *)
(***************************************************************************)
EXTENDS Integers, Sequences

CONSTANTS
  Options,     \* what a VM may be asked for: see OptionSet
  Streams,     \* the journal ports, of the initrd and of the real root
  Workers,     \* the worker threads of the runtime, one per CPU
  Mounts,      \* the virtiofsd processes, one for the root and one per mount
  PipeSize,    \* the units of output a pipe holds
  MaxWritten,  \* bound: the units a guest writes to one port
  MaxNotes     \* bound: the notifications systemd sends

OptionSet == [execute : BOOLEAN,  \* --execute
              journal : BOOLEAN,  \* --log-dir=journal or --output=journal
              notify  : BOOLEAN]  \* vsock, and a systemd with vmm.notify_socket

ASSUME EphemeralAssumption ==
  /\ Options \subseteq OptionSet
  /\ Streams \subseteq {"journal", "initrd"}
  /\ {Workers, Mounts, PipeSize} \subseteq Nat \ {0}
  /\ {MaxWritten, MaxNotes} \subseteq Nat

VARIABLES
  container,  \* podman's state of the container
  opts,       \* what this VM was asked for
  main,       \* where the main task is
  result,     \* how the entrypoint ended; "stopped" is the Ok of a signal
  awaited,    \* the virtiofsd sockets the main task still has to see
  signalled,  \* the entrypoint's handlers have got a SIGTERM or SIGINT
  qemu,       \* the QEMU process
  guest,      \* what the guest is doing
  listening,  \* where the guest's sshd listens: on vsock, on TCP
  code,       \* the ExecMainStatus in the executestatus pipe
  planned,    \* the units of output the command of --execute has to write
  written,    \* written[p]: the units the guest has written to port p
  copied,     \* copied[p]: those that have been taken from the pipe
  drain,      \* drain[s]: the task that drains journal stream s
  monitor,    \* the task monitor_boot_progress
  access,     \* its ssh_access
  writer,     \* who holds the write end of the notification pipe
  notes,      \* the notifications in that pipe
  sent,       \* how many were sent
  status,     \* /run/supervisor-status.json
  events      \* whether inotify has an event of the status file queued

runVars == <<container, opts, main, result, awaited, signalled>>
guestVars == <<qemu, guest, listening, code, planned, written, sent>>
outputVars == <<copied, drain>>
notifyVars == <<monitor, access, writer, notes>>
statusVars == <<status, events>>
vmVars == <<runVars, guestVars, outputVars, notifyVars, statusVars>>

Ports == Streams \cup {"execute"}

NoStatus == [state |-> "none", ssh |-> FALSE, running |-> FALSE, mtime |-> 0]

Init ==
  /\ container = "none"
  /\ opts \in Options
  /\ main = "absent"
  /\ result = "none"
  /\ awaited = 0
  /\ signalled = FALSE
  /\ qemu = "none" /\ guest = "off" /\ listening = {} /\ code = "none"
  /\ planned \in IF opts.execute THEN 0..MaxWritten ELSE {0}
  /\ written = [p \in Ports |-> 0]
  /\ copied = [p \in Ports |-> 0]
  /\ drain = [s \in Streams |-> "none"]
  /\ monitor = "none" /\ access = FALSE /\ writer = "none"
  /\ notes = <<>> /\ sent = 0
  /\ status = NoStatus
  /\ events = FALSE

Goto(label) == main' = label

\* atomic_write: a rename, which inotify sees.  The clock of mtime is coarse:
\* two writes may have the same.
WriteStatus(state, ssh, running) ==
  /\ \E t \in {status.mtime, status.mtime + 1} :
       t > 0 /\ status' = [state |-> state, ssh |-> ssh, running |-> running,
                           mtime |-> t]
  /\ events' = TRUE

\* A worker thread is free: monitor_boot_progress keeps the one it is on
\* while it reads, as its reads block.
Driven == Workers > 1 \/ monitor # "reading"

\* The container goes, and every process in it.
Gone(state, r) ==
  /\ container' = state
  /\ main' = "exited"
  /\ result' = r
  /\ qemu' = IF qemu = "running" THEN "killed" ELSE qemu
  /\ guest' = "off"
  /\ listening' = {}
  /\ monitor' = IF monitor = "none" THEN "none" ELSE "gone"
  /\ drain' = [s \in Streams |-> IF drain[s] = "reading" THEN "gone" ELSE drain[s]]
  /\ writer' = "none"
  /\ notes' = <<>>
  /\ awaited' = 0
  /\ signalled' = FALSE
  /\ access' = FALSE
  /\ UNCHANGED <<opts, code, planned, written, copied, sent, statusVars>>

-----------------------------------------------------------------------------
(* The main task                                                           *)

\* run_impl up to its first await.  A failure leaves a status that says that
\* the VM is running.
CheckBinaries ==
  /\ main = "begin"
  /\ \/ /\ Goto("unwind")
        /\ UNCHANGED statusVars
     \/ /\ Goto("prepare")
        /\ WriteStatus("waiting", FALSE, TRUE)
  /\ UNCHANGED <<container, opts, result, awaited, signalled, guestVars, outputVars,
                 notifyVars>>

StartDrains == drain' = [s \in Streams |-> IF opts.journal THEN "reading" ELSE "none"]

StartMonitor ==
  IF opts.notify
    THEN /\ monitor' = "spawned"
         /\ writer' = "config"
         /\ UNCHANGED statusVars
    ELSE /\ WriteStatus("none", FALSE, TRUE)
         /\ UNCHANGED <<monitor, writer>>

\* The boot files, mounts, units and devices, any of which may fail.
Prepare ==
  /\ main = "prepare"
  /\ \/ /\ Goto("unwind")
        /\ UNCHANGED <<awaited, drain, monitor, writer, statusVars>>
     \/ /\ Goto("virtiofsd")
        /\ awaited' = Mounts
        /\ StartDrains
        /\ StartMonitor
  /\ UNCHANGED <<container, opts, result, signalled, guestVars, copied, access, notes>>

\* RunningQemu::spawn has failed.  The abort only works on a task that has
\* not begun: one that blocks never sees it.
SpawnFailed(holder) ==
  /\ Goto("unwind")
  /\ writer' = holder
  /\ monitor' = IF monitor = "spawned" THEN "gone" ELSE monitor
  /\ UNCHANGED <<container, opts, result, awaited, signalled, guestVars, outputVars,
                 access, notes, statusVars>>

\* Mutant: one socket too many.
SocketSeenMore ==
  /\ awaited' = awaited - 1
  /\ Goto(IF awaited = 0 THEN "launch" ELSE "virtiofsd")
  /\ UNCHANGED <<container, opts, result, signalled, guestVars, outputVars, notifyVars,
                 statusVars>>

SocketSeen ==
  /\ awaited' = awaited - 1
  /\ Goto(IF awaited = 1 THEN "launch" ELSE "virtiofsd")
  /\ UNCHANGED <<container, opts, result, signalled, guestVars, outputVars, notifyVars,
                 statusVars>>

\* The first look at a socket needs no timer.
LookForSocket ==
  /\ main = "virtiofsd"
  /\ \/ SocketSeen
     \/ /\ Goto("sleep")
        /\ UNCHANGED <<container, opts, result, awaited, signalled, guestVars, outputVars,
                       notifyVars, statusVars>>

\* The select of the socket, the exit of virtiofsd and the timeout.
AwaitSocket ==
  /\ main = "sleep"
  /\ Driven
  /\ SocketSeen \/ SpawnFailed("none")

\* The select around run_impl, where run_impl awaits: the runtime is shut down
\* in the background, which waits for nobody.
CatchSignal ==
  /\ main \in {"sleep", "copy"} \/ (main = "drain" /\ opts.journal)
  /\ Driven
  /\ signalled
  /\ Gone("exited", "stopped")

\* The sockets are there.  Without a CID the notification socket cannot be
\* had; the thread that serves it never ends and keeps the pipe.
LaunchQemu ==
  /\ main = "launch"
  /\ \/ SpawnFailed("none")
     \/ opts.notify /\ SpawnFailed("copier")
     \/ /\ Goto("wait")
        /\ writer' = IF opts.notify THEN "copier" ELSE "none"
        /\ qemu' = "running"
        /\ guest' = "boot"
        /\ UNCHANGED <<container, opts, result, awaited, signalled, listening, code,
                       planned, written, sent, outputVars, monitor, access, notes, statusVars>>

Over == qemu \in {"ok", "failed"}

\* Child::wait blocks the task, and with it all that is joined with it.  With
\* --execute the exit status of QEMU is discarded.
WaitForQemu ==
  /\ main = "wait"
  /\ Over
  /\ Goto(IF opts.execute THEN "copy" ELSE IF qemu = "ok" THEN "drain" ELSE "unwind")
  /\ UNCHANGED <<container, opts, result, awaited, signalled, guestVars, outputVars,
                 notifyVars, statusVars>>

\* output_copier and status_reader, up to the end of both pipes.
CopyOutput ==
  /\ main = "copy"
  /\ copied' = [copied EXCEPT !["execute"] = written["execute"]]
  /\ Goto("drain")
  /\ UNCHANGED <<container, opts, result, awaited, signalled, guestVars, drain,
                 notifyVars, statusVars>>

\* Mutant: nobody waits for the tasks that drain the journal.
JoinDrainsNot ==
  /\ main = "drain"
  /\ Goto(IF opts.execute /\ code = "fail" THEN "unwind" ELSE "finish")
  /\ UNCHANGED <<container, opts, result, awaited, signalled, guestVars, outputVars,
                 notifyVars, statusVars>>

\* join_all, then the exit code of the command.  A command that never reported
\* one has succeeded.
JoinDrains ==
  /\ main = "drain"
  /\ \A s \in Streams : drain[s] # "reading"
  /\ Goto(IF opts.execute /\ code = "fail" THEN "unwind" ELSE "finish")
  /\ UNCHANGED <<container, opts, result, awaited, signalled, guestVars, outputVars,
                 notifyVars, statusVars>>

Finish ==
  /\ main = "finish"
  /\ Goto("return")
  /\ WriteStatus("none", FALSE, FALSE)
  /\ UNCHANGED <<container, opts, result, awaited, signalled, guestVars, outputVars,
                 notifyVars>>

\* main returns: shutdown_background.
Return ==
  /\ main = "return"
  /\ Gone("exited", "ok")

\* main returns an error: the runtime is dropped, and that waits for the
\* threads that run a task at the moment.
Unwind ==
  /\ main = "unwind"
  /\ monitor # "reading"
  /\ Gone("exited", "err")

MainTask ==
  \/ CheckBinaries \/ Prepare \/ LookForSocket \/ AwaitSocket \/ CatchSignal
  \/ LaunchQemu \/ WaitForQemu \/ CopyOutput \/ JoinDrains \/ Finish \/ Return \/ Unwind

-----------------------------------------------------------------------------
(* Tasks and threads                                                       *)

\* monitor_boot_progress
MonitorStart ==
  /\ monitor = "spawned"
  /\ monitor' = "reading"
  /\ WriteStatus("waiting", FALSE, TRUE)
  /\ UNCHANGED <<runVars, guestVars, outputVars, access, writer, notes>>

MonitorRead ==
  /\ monitor = "reading"
  /\ notes # <<>>
  /\ notes' = Tail(notes)
  /\ access' = (access \/ Head(notes) = "ssh-access")
  /\ WriteStatus("reached", access', TRUE)
  /\ UNCHANGED <<runVars, guestVars, outputVars, monitor, writer>>

MonitorEnd ==
  /\ monitor = "reading"
  /\ notes = <<>>
  /\ writer = "none"
  /\ monitor' = "gone"
  /\ UNCHANGED <<runVars, guestVars, outputVars, access, writer, notes, statusVars>>

Monitor == MonitorStart \/ MonitorRead \/ MonitorEnd

\* Mutant: the configuration is kept, with the write ends it holds.
PortsClosedLate == main = "exited"

\* QEMU and the configuration both hold the write ends of the ports.
PortsClosed == qemu # "running" /\ main \notin {"virtiofsd", "sleep", "launch"}

\* A task that drains a journal stream, until the end of its pipe.
Drain(s) ==
  /\ drain[s] = "reading"
  /\ Driven
  /\ IF copied[s] < written[s]
       THEN copied' = [copied EXCEPT ![s] = @ + 1] /\ UNCHANGED drain
       ELSE PortsClosed /\ drain' = [drain EXCEPT ![s] = "done"] /\ UNCHANGED copied
  /\ UNCHANGED <<runVars, guestVars, notifyVars, statusVars>>

-----------------------------------------------------------------------------
(* QEMU and the guest                                                      *)

GuestStep == UNCHANGED <<runVars, outputVars, monitor, access, writer, statusVars>>

Boot ==
  /\ guest = "boot"
  /\ guest' = IF opts.execute THEN "exec" ELSE "up"
  /\ UNCHANGED <<qemu, listening, code, planned, written, sent, notes>>
  /\ GuestStep

\* sshd-vsock.socket, which activates ssh-access.target, and sshd.service.
Listen(where) ==
  /\ guest \in {"boot", "up", "exec"}
  /\ listening' = listening \cup {where}
  /\ UNCHANGED <<qemu, guest, code, planned, written, sent, notes>>
  /\ GuestStep

\* systemd notifies of a target; the thread of the vsock copies it.
Notify ==
  /\ guest # "off"
  /\ writer = "copier"
  /\ sent < MaxNotes
  /\ sent' = sent + 1
  /\ \E n \in {"target"} \cup (IF "vsock" \in listening THEN {"ssh-access"} ELSE {}) :
       notes' = Append(notes, n)
  /\ UNCHANGED <<qemu, guest, listening, code, planned, written>>
  /\ GuestStep

\* A guest that writes to a full pipe has to wait.
Write(p) ==
  /\ written[p] - copied[p] < PipeSize
  /\ written' = [written EXCEPT ![p] = @ + 1]
  /\ UNCHANGED <<qemu, guest, listening, code, planned, sent, notes>>
  /\ GuestStep

WriteJournal(s) ==
  /\ guest # "off"
  /\ opts.journal
  /\ written[s] < MaxWritten
  /\ Write(s)

\* bootc-execute.service
WriteOutput ==
  /\ guest = "exec"
  /\ written["execute"] < planned
  /\ Write("execute")

\* bootc-execute-finish.service
Report ==
  /\ guest = "exec"
  /\ written["execute"] = planned
  /\ code' \in {"ok", "fail"}
  /\ guest' = "halt"
  /\ UNCHANGED <<qemu, listening, planned, written, sent, notes>>
  /\ GuestStep

QemuEnds(exit) ==
  /\ qemu' = exit
  /\ guest' = "off"
  /\ listening' = {}
  /\ UNCHANGED <<code, planned, written, sent, notes>>
  /\ GuestStep

PowerOff == guest = "halt" /\ QemuEnds("ok")

Shutdown == guest = "up" /\ QemuEnds("ok")

QemuFails == qemu = "running" /\ QemuEnds("failed")

Command == Boot \/ WriteOutput \/ Report \/ PowerOff

Guest ==
  \/ Command
  \/ \E where \in {"vsock", "tcp"} : Listen(where)
  \/ Notify
  \/ \E s \in Streams : WriteJournal(s)
  \/ Shutdown
  \/ QemuFails

\* A signal to the entrypoint.  What it does is up to the entrypoint.
Signal ==
  /\ container = "running"
  /\ ~signalled
  /\ signalled' = TRUE
  /\ UNCHANGED <<container, opts, main, result, awaited, guestVars, outputVars,
                 notifyVars, statusVars>>

Container == MainTask \/ Monitor \/ (\E s \in Streams : Drain(s)) \/ Guest \/ Signal

\* Threads that can run do run, and the guest boots, runs the command of
\* --execute and powers off.  Nothing makes a guest without one power off.
ContainerFairness ==
  /\ WF_vmVars(MainTask)
  /\ WF_vmVars(Monitor)
  /\ \A s \in Streams : WF_vmVars(Drain(s))
  /\ WF_vmVars(Command)

-----------------------------------------------------------------------------
(* Properties                                                              *)

VmTypeOK ==
  /\ container \in {"none", "running", "exited", "removed"}
  /\ opts \in Options
  /\ main \in {"absent", "begin", "prepare", "virtiofsd", "sleep", "launch", "wait",
               "copy", "drain", "finish", "return", "unwind", "exited"}
  /\ result \in {"none", "ok", "stopped", "err", "killed"}
  /\ awaited \in 0..Mounts
  /\ signalled \in BOOLEAN
  /\ qemu \in {"none", "running", "ok", "failed", "killed"}
  /\ guest \in {"off", "boot", "up", "exec", "halt"}
  /\ listening \subseteq {"vsock", "tcp"}
  /\ code \in {"none", "ok", "fail"}
  /\ planned \in 0..MaxWritten
  /\ written \in [Ports -> Nat]
  /\ copied \in [Ports -> Nat]
  /\ \A p \in Ports : written[p] - copied[p] \in 0..PipeSize
  /\ drain \in [Streams -> {"none", "reading", "done", "gone"}]
  /\ monitor \in {"none", "spawned", "reading", "gone"}
  /\ access \in BOOLEAN
  /\ writer \in {"none", "config", "copier"}
  /\ notes \in Seq({"target", "ssh-access"})
  /\ sent \in Nat
  /\ status \in [state : {"none", "waiting", "reached"}, ssh : BOOLEAN,
                 running : BOOLEAN, mtime : Nat]
  /\ events \in BOOLEAN

\* An entrypoint that returns success, and not for a signal, has passed on all
\* output of the guest, the journal's last lines included, and no command has
\* reported a failure.
OutputComplete == result = "ok" => copied = written /\ code # "fail"

\* Once QEMU has gone the entrypoint exits, unless it has an error to report
\* and boot notifications were on: then it waits for a task that never ends.
VmOverEnds ==
  Over ~> (container # "running" \/ (main = "unwind" /\ monitor = "reading"))

\* The output of --execute reaches the caller while the command runs: whatever
\* is written is copied.
StreamsOutput ==
  \A n \in 1..MaxWritten :
    written["execute"] >= n ~> (copied["execute"] >= n \/ container # "running")

\* No task that is still running keeps the entrypoint from exiting.
NeverBlocksOnTasks == main = "unwind" ~> container # "running"

\* The entrypoint handles SIGTERM and SIGINT itself.
SignalEnds == signalled ~> container # "running"
=============================================================================
