--------------------------- MODULE EphemeralSsh -----------------------------
(***************************************************************************)
(* The host side of an ephemeral VM: bcvk ephemeral run, which becomes     *)
(* podman, and bcvk ephemeral run-ssh and bcvk to-disk, which start the    *)
(* container in the background, wait until SSH works, run a command over   *)
(* SSH and remove the container.  The wait has a thread that reads the     *)
(* output of `monitor-status`, which runs in the container and follows its *)
(* status file, a thread that polls SSH, and a channel from both.          *)
(***************************************************************************)
EXTENDS EphemeralVm

CONSTANTS
  Commands,  \* of "run", "run-ssh" and "to-disk"
  MaxKills   \* bound: the commands that are killed

ASSUME SshAssumption ==
  /\ Commands \subseteq {"run", "run-ssh", "to-disk"}
  /\ MaxKills \in {0, 1}

VARIABLES
  cmd,      \* the command
  host,     \* where it is
  outcome,  \* whether it has worked
  expired,  \* SSH_TIMEOUT has passed
  chan,     \* the channel from the two threads
  poll,     \* the thread that polls SSH
  follow,   \* the status monitor in the container
  last,     \* its last_mtime, 0 for None and when it has ended
  disk      \* the target of to-disk

waitVars == <<expired, chan, poll, follow, last>>
hostVars == <<cmd, host, outcome, waitVars, disk>>
vars == <<vmVars, hostVars>>

SshInit ==
  /\ Init
  /\ cmd \in Commands
  /\ host = "start"
  /\ outcome = "none"
  /\ expired = FALSE
  /\ chan = <<>>
  /\ poll = "none"
  /\ follow = "none"
  /\ last = 0
  /\ disk = "none"

At(label) == host' = label

End(label, how) == At(label) /\ outcome' = how

\* No step of the container.
Outside == UNCHANGED vmVars

\* run_detached, or the exec of podman: the container starts or podman fails.
\* to-disk has made an empty disk by then, and leaves it when podman fails.
Launch ==
  /\ host = "start"
  /\ disk' = IF cmd = "to-disk" THEN "empty" ELSE "none"
  /\ \/ /\ End("done", "err")
        /\ UNCHANGED <<container, main>>
     \/ /\ At(IF cmd = "run" THEN "podman" ELSE "check")
        /\ UNCHANGED outcome
        /\ container' = "running"
        /\ main' = "begin"
  /\ UNCHANGED <<opts, result, awaited, signalled, guestVars, outputVars, notifyVars,
                 statusVars, cmd, waitVars>>

\* podman run in the foreground ends with the container.
PodmanEnds ==
  /\ host = "podman"
  /\ container # "running"
  /\ End("done", IF result \in {"ok", "stopped"} THEN "ok" ELSE "err")
  /\ UNCHANGED <<cmd, waitVars, disk>>
  /\ Outside

\* wait_for_ssh_ready: is the container running, then start both threads.
Check ==
  /\ host = "check"
  /\ IF container = "running"
       THEN /\ At("wait")
            /\ UNCHANGED outcome
            /\ poll' = "trying"
            /\ follow' \in {"start", "none"}
       ELSE /\ End("cleanup", "err")
            /\ UNCHANGED <<poll, follow>>
  /\ UNCHANGED <<cmd, expired, chan, last, disk>>
  /\ Outside

\* When the wait is over the monitor is killed, and nobody reads the channel.
StopThreads ==
  /\ follow' = IF follow = "none" THEN "none" ELSE "ended"
  /\ last' = 0
  /\ chan' = <<>>

\* Mutant: returns as soon as the status has seen ssh-access.target.
ReceiveEarly ==
  /\ host = "wait"
  /\ ~expired
  /\ chan # <<>>
  /\ IF Head(chan) \in {"ssh", "line-ssh-access"}
       THEN At("session") /\ StopThreads
       ELSE chan' = Tail(chan) /\ UNCHANGED <<host, follow, last>>
  /\ UNCHANGED <<cmd, outcome, expired, poll, disk>>
  /\ Outside

\* An event from one of the threads.  Only the SSH poll counts: sshd may listen
\* on vsock, which is what ssh-access.target means, before it does on TCP.
Receive ==
  /\ host = "wait"
  /\ ~expired
  /\ chan # <<>>
  /\ IF Head(chan) = "ssh"
       THEN At("session") /\ StopThreads
       ELSE chan' = Tail(chan) /\ UNCHANGED <<host, follow, last>>
  /\ UNCHANGED <<cmd, outcome, expired, poll, disk>>
  /\ Outside

\* Mutant: the time is only looked at when an event has come.
TimeOutOnEvent ==
  /\ host = "wait"
  /\ expired
  /\ chan # <<>>
  /\ End("cleanup", "err")
  /\ StopThreads
  /\ UNCHANGED <<cmd, expired, poll, disk>>
  /\ Outside

\* The time is up, looked at before the channel is.
TimeOut ==
  /\ host = "wait"
  /\ expired
  /\ End("cleanup", "err")
  /\ StopThreads
  /\ UNCHANGED <<cmd, expired, poll, disk>>
  /\ Outside

\* The command over SSH: it works, it fails, the connection breaks.  The
\* install of to-disk writes to the disk all the while.
Session ==
  /\ host = "session"
  /\ \/ /\ container = "running"
        /\ "tcp" \in listening
        /\ End("cleanup", "ok")
        /\ disk' = IF cmd = "to-disk" THEN "full" ELSE disk
     \/ /\ End("cleanup", "err")
        /\ disk' \in IF cmd = "to-disk" THEN {"empty", "full"} ELSE {disk}
  /\ UNCHANGED <<cmd, waitVars>>
  /\ Outside

\* podman rm -f, by the guard of run-ssh and by to-disk.
RemoveContainer ==
  IF container = "running" THEN Gone("removed", "killed")
  ELSE /\ container' = "removed"
       /\ UNCHANGED <<opts, main, result, awaited, signalled, guestVars, outputVars,
                      notifyVars, statusVars>>

\* Mutant: the guard does not run on the way out with an error.
CleanupOk ==
  /\ host = "cleanup"
  /\ IF outcome = "ok" THEN RemoveContainer ELSE UNCHANGED vmVars
  /\ At(IF cmd = "to-disk" THEN "label" ELSE "done")
  /\ UNCHANGED <<cmd, outcome, waitVars, disk>>

Cleanup ==
  /\ host = "cleanup"
  /\ RemoveContainer
  /\ At(IF cmd = "to-disk" THEN "label" ELSE "done")
  /\ UNCHANGED <<cmd, outcome, waitVars, disk>>

\* Mutant: the metadata is written whatever the result is.
LabelAlways ==
  /\ host = "label"
  /\ disk' \in {disk, "cached"}
  /\ At("done")
  /\ UNCHANGED <<cmd, outcome, waitVars>>
  /\ Outside

\* to-disk writes the metadata, which may fail, or removes the disk.
Label ==
  /\ host = "label"
  /\ disk' \in IF outcome = "ok" THEN {disk, "cached"} ELSE {"none"}
  /\ At("done")
  /\ UNCHANGED <<cmd, outcome, waitVars>>
  /\ Outside

\* The command dies; its monitor dies with it, the container does not.
Kill ==
  /\ MaxKills = 1
  /\ host \in {"check", "wait", "session", "cleanup", "label"}
  /\ End("killed", "err")
  /\ StopThreads
  /\ UNCHANGED <<cmd, expired, poll, disk>>
  /\ Outside

Expire ==
  /\ host = "wait"
  /\ ~expired
  /\ expired' = TRUE
  /\ UNCHANGED <<cmd, host, outcome, chan, poll, follow, last, disk>>
  /\ Outside

\* The thread that polls SSH: an attempt that succeeds is the last one.
PollSsh ==
  /\ host = "wait"
  /\ poll = "trying"
  /\ container = "running"
  /\ "tcp" \in listening
  /\ poll' = "done"
  /\ chan' = Append(chan, "ssh")
  /\ UNCHANGED <<cmd, host, outcome, expired, follow, last, disk>>
  /\ Outside

-----------------------------------------------------------------------------
(* monitor-status                                                          *)

Follows == UNCHANGED <<cmd, host, outcome, expired, poll, disk>>

\* The watch is there before the file is first looked at.
FollowStart ==
  /\ follow = "start"
  /\ container = "running"
  /\ follow' = "stat"
  /\ events' = FALSE
  /\ UNCHANGED <<runVars, guestVars, outputVars, notifyVars, status, chan, last>>
  /\ Follows

Changed == status.mtime # 0 /\ status.mtime # last

\* try_read_status_if_changed, up to the read of the file.
FollowStat ==
  /\ follow = "stat"
  /\ container = "running"
  /\ follow' = IF Changed THEN "read" ELSE "block"
  /\ last' = IF Changed THEN status.mtime ELSE last
  /\ UNCHANGED chan
  /\ Follows
  /\ Outside

\* Mutant: the monitor empties the queue after a read and waits for the next.
FollowReadBlock ==
  /\ follow = "read"
  /\ container = "running"
  /\ chan' = Append(chan, IF status.ssh THEN "line-ssh-access" ELSE "line")
  /\ follow' = IF status.running THEN "block" ELSE "ended"
  /\ events' = FALSE
  /\ UNCHANGED <<runVars, guestVars, outputVars, notifyVars, status, last>>
  /\ Follows

\* The status goes to the host's thread as a line; one that says that QEMU is
\* not running is the last.
FollowRead ==
  /\ follow = "read"
  /\ container = "running"
  /\ chan' = Append(chan, IF status.ssh THEN "line-ssh-access" ELSE "line")
  /\ follow' = IF status.running THEN "stat" ELSE "ended"
  /\ UNCHANGED last
  /\ Follows
  /\ Outside

\* The events there are lead to a look at the file.
FollowWake ==
  /\ follow = "block"
  /\ container = "running"
  /\ events
  /\ events' = FALSE
  /\ follow' = "stat"
  /\ UNCHANGED <<runVars, guestVars, outputVars, notifyVars, status, chan, last>>
  /\ Follows

\* The container has gone, and the monitor's output ends.
FollowEnd ==
  /\ follow \in {"start", "stat", "read", "block"}
  /\ container # "running"
  /\ follow' = "ended"
  /\ last' = 0
  /\ UNCHANGED chan
  /\ Follows
  /\ Outside

Follow == FollowStart \/ FollowStat \/ FollowRead \/ FollowWake \/ FollowEnd

HostStep ==
  \/ Launch \/ PodmanEnds \/ Check \/ Receive \/ TimeOut \/ Session \/ Cleanup \/ Label

InContainer == container = "running" /\ Container /\ UNCHANGED hostVars

Next ==
  \/ HostStep \/ Kill \/ Expire \/ PollSsh \/ Follow
  \/ InContainer

Spec == SshInit /\ [][Next]_vars

\* The host's commands go on, time passes, and sessions end.
FairSpec ==
  /\ Spec
  /\ ContainerFairness
  /\ WF_vars(HostStep)
  /\ WF_vars(Expire)
  /\ WF_vars(Follow)

-----------------------------------------------------------------------------
(* Properties                                                              *)

\* Types.
TypeOK ==
  /\ VmTypeOK
  /\ cmd \in Commands
  /\ host \in {"start", "podman", "check", "wait", "session", "cleanup", "label", "done",
               "killed"}
  /\ outcome \in {"none", "ok", "err"}
  /\ expired \in BOOLEAN
  /\ chan \in Seq({"ssh", "line", "line-ssh-access"})
  /\ poll \in {"none", "trying", "done"}
  /\ follow \in {"none", "start", "stat", "read", "block", "ended"}
  /\ last \in Nat
  /\ disk \in {"none", "empty", "full", "cached"}

\* wait_for_ssh_ready returns only when sshd has answered on TCP, never on what
\* the status file says: a session finds sshd there, or the guest has gone.
SessionNeedsSsh == host = "session" => "tcp" \in listening \/ guest = "off"

\* No wake-up is lost: when the status monitor waits and has no event queued, it
\* has looked at the file since the last write.
MonitorCurrent == follow = "block" /\ ~events => last = status.mtime

\* A disk with metadata, which the next to-disk will reuse, is one that an
\* install has ended well on, and no VM has it open any more.
DiskComplete == disk = "cached" => outcome = "ok" /\ container = "removed"

VmState ==
  CASE container = "none" -> "absent" [] container = "running" -> "on" [] OTHER -> "off"

UserState ==
  CASE host = "start" -> "out"
    [] host \in {"podman", "check", "wait"} -> "waiting"
    [] host = "session" -> "in"
    [] host = "cleanup" -> IF poll = "done" THEN "in" ELSE "waiting"
    [] host = "killed" /\ container # "removed" -> "killed"
    [] OTHER -> "left"

Lease == INSTANCE EphemeralLease WITH vm <- VmState, answered <- poll = "done",
                                      user <- UserState

\* The commands keep the promise of EphemeralLease.
LeaseKept == Lease!Spec

\* run-ssh and to-disk end, whatever becomes of the VM.
CommandEnds == cmd # "run" => <>(host \in {"done", "killed"})
=============================================================================
