-------------------------- MODULE EphemeralProofs ---------------------------
(***************************************************************************)
(* Proofs about EphemeralSsh: the types, the output is complete, sessions  *)
(* find sshd, no wake-up is lost, disks are complete, and the lease is     *)
(* kept.                                                                   *)
(*                                                                         *)
(* Three invariants are inductive together with the types.  PlaceInv says  *)
(* where the main task is when QEMU runs and what the container's state    *)
(* follows from; PortInv says which pipes have been read to their end at   *)
(* which place; HostInv says what the host may rely on at each of its      *)
(* places.                                                                 *)
(***************************************************************************)
EXTENDS EphemeralSsh, TLAPS

-----------------------------------------------------------------------------
(* Types                                                                   *)

\* The count of sockets does not run below 0.
SocketsLeft == main \in {"virtiofsd", "sleep"} => awaited > 0

VmTypeInv == VmTypeOK /\ SocketsLeft

HostTypeOK ==
  /\ cmd \in Commands
  /\ host \in {"start", "podman", "check", "wait", "session", "cleanup", "label", "done",
               "killed"}
  /\ outcome \in {"none", "ok", "err"}
  /\ expired \in BOOLEAN
  /\ chan \in Seq({"ssh", "line", "line-ssh-access"})
  /\ poll \in {"none", "trying", "done"}
  /\ follow \in {"none", "start", "stat", "read", "block", "ended"}
  /\ last \in Nat
  /\ disk \in {"none", "empty", "full", "cached"}

\* A status that is written is a status.
LEMMA WriteStatusType ==
  ASSUME VmTypeOK,
         NEW s \in {"none", "waiting", "reached"}, NEW a \in BOOLEAN, NEW r \in BOOLEAN,
         WriteStatus(s, a, r)
  PROVE  /\ status' \in [state : {"none", "waiting", "reached"}, ssh : BOOLEAN,
                         running : BOOLEAN, mtime : Nat]
         /\ events' \in BOOLEAN
BY DEF VmTypeOK, WriteStatus

LEMMA NoNotes == <<>> \in Seq({"target", "ssh-access"})
OBVIOUS

\* The removal of the container, and its exit.
LEMMA GoneTypes ==
  ASSUME VmTypeInv,
         NEW c \in {"exited", "removed"}, NEW r \in {"ok", "stopped", "err", "killed"},
         Gone(c, r)
  PROVE  VmTypeInv'
<1> USE DEF VmTypeInv, VmTypeOK, SocketsLeft, Gone, statusVars, Ports
<1>1. awaited' \in 0..Mounts BY EphemeralAssumption
<1>2. drain' \in [Streams -> {"none", "reading", "done", "gone"}] OBVIOUS
<1>3. qemu' \in {"none", "running", "ok", "failed", "killed"} OBVIOUS
<1>4. monitor' \in {"none", "spawned", "reading", "gone"} OBVIOUS
<1>5. notes' \in Seq({"target", "ssh-access"})
  <2>1. notes' = <<>> OBVIOUS
  <2> HIDE DEF VmTypeInv, VmTypeOK, SocketsLeft, Gone, statusVars, Ports
  <2> QED BY <2>1, NoNotes
<1>6. /\ UNCHANGED <<opts, code, planned, written, copied, sent, status, events>>
      /\ container' = c /\ main' = "exited" /\ result' = r
      /\ guest' = "off" /\ listening' = {} /\ writer' = "none"
      /\ signalled' = FALSE /\ access' = FALSE
  OBVIOUS
<1>7. \A p \in Ports : written'[p] - copied'[p] \in 0..PipeSize BY <1>6
<1>8. status' \in [state : {"none", "waiting", "reached"}, ssh : BOOLEAN,
                   running : BOOLEAN, mtime : Nat]
  BY <1>6
<1>9. written' \in [Ports -> Nat] /\ copied' \in [Ports -> Nat] BY <1>6
<1>10. /\ opts' \in Options /\ code' \in {"none", "ok", "fail"}
       /\ planned' \in 0..MaxWritten /\ sent' \in Nat /\ events' \in BOOLEAN
  BY <1>6
<1> HIDE DEF Gone, VmTypeInv, VmTypeOK, SocketsLeft, Ports
<1>11. VmTypeOK' /\ SocketsLeft'
  BY <1>1, <1>2, <1>3, <1>4, <1>5, <1>6, <1>7, <1>8, <1>9, <1>10 DEF VmTypeOK, SocketsLeft
<1> QED BY <1>11 DEF VmTypeInv

\* Each step of the main task.
LEMMA MainTypes == ASSUME VmTypeInv, MainTask PROVE VmTypeInv'
<1> USE DEF VmTypeInv, SocketsLeft, Goto, runVars, guestVars, outputVars, notifyVars,
            statusVars
<1>1. CASE CheckBinaries
  <2>1. main' \in {"unwind", "prepare"} BY <1>1 DEF CheckBinaries
  <2>2. /\ status' \in [state : {"none", "waiting", "reached"}, ssh : BOOLEAN,
                        running : BOOLEAN, mtime : Nat]
        /\ events' \in BOOLEAN
    BY <1>1, WriteStatusType DEF CheckBinaries, VmTypeOK
  <2> QED BY <1>1, <2>1, <2>2 DEF CheckBinaries, VmTypeOK, Ports
<1>2. CASE Prepare
  <2>1. /\ status' \in [state : {"none", "waiting", "reached"}, ssh : BOOLEAN,
                        running : BOOLEAN, mtime : Nat]
        /\ events' \in BOOLEAN
    BY <1>2, WriteStatusType DEF Prepare, StartMonitor, VmTypeOK
  <2>2. main' \in {"unwind", "virtiofsd"} BY <1>2 DEF Prepare
  <2>3. awaited' \in 0..Mounts /\ (main' = "virtiofsd" => awaited' > 0)
    BY <1>2, EphemeralAssumption DEF Prepare, VmTypeOK
  <2>4. drain' \in [Streams -> {"none", "reading", "done", "gone"}]
    BY <1>2 DEF Prepare, StartDrains, VmTypeOK
  <2>5. /\ monitor' \in {"none", "spawned", "reading", "gone"}
        /\ writer' \in {"none", "config", "copier"}
    BY <1>2 DEF Prepare, StartMonitor, VmTypeOK
  <2> QED BY <1>2, <2>1, <2>2, <2>3, <2>4, <2>5 DEF Prepare, VmTypeOK, Ports
<1>3. ASSUME SocketSeen, main \in {"virtiofsd", "sleep"} PROVE VmTypeInv'
  <2>1. /\ main' \in {"launch", "virtiofsd"}
        /\ awaited' \in 0..Mounts
        /\ main' = "virtiofsd" => awaited' > 0
    BY <1>3, EphemeralAssumption DEF SocketSeen, VmTypeOK
  <2> QED BY <1>3, <2>1 DEF SocketSeen, VmTypeOK, Ports
<1>4. ASSUME NEW w \in {"none", "copier"}, SpawnFailed(w) PROVE VmTypeInv'
  BY <1>4 DEF SpawnFailed, VmTypeOK, Ports
<1>5. CASE LookForSocket
  <2>1. CASE SocketSeen BY <1>3, <1>5, <2>1 DEF LookForSocket
  <2>2. CASE /\ main' = "sleep"
             /\ UNCHANGED <<container, opts, result, awaited, signalled, guestVars,
                            outputVars, notifyVars, statusVars>>
    BY <1>5, <2>2 DEF LookForSocket, VmTypeOK, Ports
  <2> QED BY <1>5, <2>1, <2>2 DEF LookForSocket
<1>6. CASE AwaitSocket BY <1>3, <1>4, <1>6 DEF AwaitSocket
<1>7. CASE CatchSignal BY <1>7, GoneTypes DEF CatchSignal
<1>8. CASE LaunchQemu
  <2>1. CASE SpawnFailed("none") \/ SpawnFailed("copier") BY <1>4, <2>1
  <2>2. CASE /\ main' = "wait"
             /\ writer' = IF opts.notify THEN "copier" ELSE "none"
             /\ qemu' = "running"
             /\ guest' = "boot"
             /\ UNCHANGED <<container, opts, result, awaited, signalled, listening, code,
                            planned, written, sent, outputVars, monitor, access, notes,
                            statusVars>>
    BY <1>8, <2>2 DEF VmTypeOK, Ports
  <2> QED BY <1>8, <2>1, <2>2 DEF LaunchQemu
<1>9. CASE WaitForQemu
  <2>1. main' \in {"copy", "drain", "unwind"} BY <1>9 DEF WaitForQemu
  <2> QED BY <1>9, <2>1 DEF WaitForQemu, VmTypeOK, Ports
<1>10. CASE CopyOutput
  <2>1. copied' \in [Ports -> Nat] BY <1>10 DEF CopyOutput, VmTypeOK, Ports
  <2>2. \A p \in Ports : written'[p] - copied'[p] \in 0..PipeSize
    BY <1>10, EphemeralAssumption DEF CopyOutput, VmTypeOK, Ports
  <2> QED BY <1>10, <2>1, <2>2 DEF CopyOutput, VmTypeOK, Ports
<1>11. CASE JoinDrains
  <2>1. main' \in {"finish", "unwind"} BY <1>11 DEF JoinDrains
  <2> QED BY <1>11, <2>1 DEF JoinDrains, VmTypeOK, Ports
<1>12. CASE Finish
  <2>1. /\ status' \in [state : {"none", "waiting", "reached"}, ssh : BOOLEAN,
                        running : BOOLEAN, mtime : Nat]
        /\ events' \in BOOLEAN
    BY <1>12, WriteStatusType DEF Finish
  <2> QED BY <1>12, <2>1 DEF Finish, VmTypeOK, Ports
<1>13. CASE Return BY <1>13, GoneTypes DEF Return
<1>14. CASE Unwind BY <1>14, GoneTypes DEF Unwind
<1> QED BY <1>1, <1>2, <1>5, <1>6, <1>7, <1>8, <1>9, <1>10, <1>11, <1>12, <1>13, <1>14
        DEF MainTask

\* Each step of the tasks and threads.
LEMMA TaskTypes ==
  ASSUME VmTypeInv, Monitor \/ \E s \in Streams : Drain(s)
  PROVE  VmTypeInv'
<1> USE DEF VmTypeInv, SocketsLeft, runVars, guestVars, outputVars, notifyVars, statusVars
<1>1. CASE MonitorStart
  <2>1. /\ status' \in [state : {"none", "waiting", "reached"}, ssh : BOOLEAN,
                        running : BOOLEAN, mtime : Nat]
        /\ events' \in BOOLEAN
    BY <1>1, WriteStatusType DEF MonitorStart
  <2> QED BY <1>1, <2>1 DEF MonitorStart, VmTypeOK, Ports
<1>2. CASE MonitorRead
  <2>1. notes' \in Seq({"target", "ssh-access"}) BY <1>2 DEF MonitorRead, VmTypeOK
  <2>2. access' \in BOOLEAN BY <1>2 DEF MonitorRead
  <2>3. /\ status' \in [state : {"none", "waiting", "reached"}, ssh : BOOLEAN,
                        running : BOOLEAN, mtime : Nat]
        /\ events' \in BOOLEAN
    BY <1>2, <2>2, WriteStatusType DEF MonitorRead
  <2> QED BY <1>2, <2>1, <2>2, <2>3 DEF MonitorRead, VmTypeOK, Ports
<1>3. CASE MonitorEnd BY <1>3 DEF MonitorEnd, VmTypeOK, Ports
<1>4. ASSUME NEW s \in Streams, Drain(s) PROVE VmTypeInv'
  <2>1. /\ copied' \in [Ports -> Nat]
        /\ \A p \in Ports : written'[p] - copied'[p] \in 0..PipeSize
    <3>1. CASE copied[s] < written[s]
      <4>1. s \in Ports /\ copied[s] \in Nat /\ written[s] \in Nat
        BY DEF VmTypeOK, Ports
      <4>2. copied' = [copied EXCEPT ![s] = @ + 1] /\ written' = written
        BY <1>4, <3>1 DEF Drain
      <4>3. copied' \in [Ports -> Nat] BY <4>1, <4>2 DEF VmTypeOK
      <4>4. ASSUME NEW p \in Ports PROVE written'[p] - copied'[p] \in 0..PipeSize
        BY <3>1, <4>1, <4>2, EphemeralAssumption DEF VmTypeOK
      <4> QED BY <4>3, <4>4
    <3>2. CASE ~(copied[s] < written[s]) BY <1>4, <3>2 DEF Drain, VmTypeOK
    <3> QED BY <3>1, <3>2
  <2>2. drain' \in [Streams -> {"none", "reading", "done", "gone"}]
    BY <1>4 DEF Drain, VmTypeOK
  <2>3. UNCHANGED <<runVars, guestVars, notifyVars, statusVars>> BY <1>4 DEF Drain
  <2> QED BY <2>1, <2>2, <2>3 DEF VmTypeOK
<1> QED BY <1>1, <1>2, <1>3, <1>4 DEF Monitor

\* Each step of QEMU and the guest, and a signal.
LEMMA GuestTypes == ASSUME VmTypeInv, Guest \/ Signal PROVE VmTypeInv'
<1> USE DEF VmTypeInv, SocketsLeft, GuestStep, runVars, guestVars, outputVars,
            notifyVars, statusVars
<1>1. ASSUME NEW e \in {"ok", "failed"}, QemuEnds(e) PROVE VmTypeInv'
  <2>1. /\ qemu' \in {"ok", "failed"} /\ guest' = "off" /\ listening' = {}
        /\ UNCHANGED <<code, planned, written, sent, notes>>
        /\ UNCHANGED <<runVars, outputVars, monitor, access, writer, statusVars>>
    BY <1>1 DEF QemuEnds
  <2>2. VmTypeOK'
    <3> HIDE DEF SocketsLeft, GuestStep, guestVars, notifyVars
    <3> QED BY <2>1 DEF VmTypeOK, Ports
  <2> QED BY <2>1, <2>2
<1>2. ASSUME NEW p \in Ports, Write(p),
             UNCHANGED <<qemu, guest, listening, code, planned, sent, notes>>
      PROVE  VmTypeInv'
  <2>1. /\ written' \in [Ports -> Nat]
        /\ \A q \in Ports : written'[q] - copied'[q] \in 0..PipeSize
    BY <1>2, EphemeralAssumption DEF Write, VmTypeOK
  <2> QED BY <1>2, <2>1 DEF Write, VmTypeOK
<1>3. CASE Boot BY <1>3 DEF Boot, VmTypeOK, Ports
<1>4. CASE WriteOutput BY <1>2, <1>4 DEF WriteOutput, Write, Ports
<1>5. CASE Report BY <1>5 DEF Report, VmTypeOK, Ports
<1>6. CASE PowerOff BY <1>1, <1>6 DEF PowerOff
<1>7. ASSUME NEW w \in {"vsock", "tcp"}, Listen(w) PROVE VmTypeInv'
  BY <1>7 DEF Listen, VmTypeOK, Ports
<1>8. CASE Notify
  <2>1. notes' \in Seq({"target", "ssh-access"}) BY <1>8 DEF Notify, VmTypeOK
  <2>2. sent' \in Nat BY <1>8 DEF Notify, VmTypeOK
  <2> QED BY <1>8, <2>1, <2>2 DEF Notify, VmTypeOK, Ports
<1>9. ASSUME NEW s \in Streams, WriteJournal(s) PROVE VmTypeInv'
  BY <1>2, <1>9 DEF WriteJournal, Write, Ports
<1>10. CASE Shutdown BY <1>1, <1>10 DEF Shutdown
<1>11. CASE QemuFails BY <1>1, <1>11 DEF QemuFails
<1>12. CASE Signal BY <1>12 DEF Signal, VmTypeOK, Ports
<1> QED BY <1>3, <1>4, <1>5, <1>6, <1>7, <1>8, <1>9, <1>10, <1>11, <1>12
        DEF Guest, Command

\* Each step inside the container.
LEMMA ContainerTypes == ASSUME VmTypeInv, Container PROVE VmTypeInv'
BY MainTypes, TaskTypes, GuestTypes DEF Container

-----------------------------------------------------------------------------
(* The host                                                                *)

\* A step that leaves the container alone.
LEMMA OutsideTypes == ASSUME VmTypeInv, UNCHANGED vmVars PROVE VmTypeInv'
BY DEF VmTypeInv, VmTypeOK, SocketsLeft, Ports, vmVars, runVars, guestVars, outputVars,
       notifyVars, statusVars

\* A queue without its head is a queue.
LEMMA TailType ==
  ASSUME NEW S, NEW q \in Seq(S), q # <<>>
  PROVE  Tail(q) \in Seq(S)
OBVIOUS

\* A step that takes the events of the status file.
LEMMA EventsTypes ==
  ASSUME VmTypeInv, events' = FALSE,
         UNCHANGED <<runVars, guestVars, outputVars, notifyVars, status>>
  PROVE  VmTypeInv'
<1>1. events' \in BOOLEAN OBVIOUS
<1>2. UNCHANGED <<runVars, guestVars, outputVars, notifyVars, status>> OBVIOUS
<1>3. VmTypeInv OBVIOUS
<1> QED BY <1>1, <1>2, <1>3
        DEF VmTypeInv, VmTypeOK, SocketsLeft, Ports, runVars, guestVars, outputVars, notifyVars

\* Each step of the host, on both sides.
LEMMA HostTypes ==
  ASSUME VmTypeInv, HostTypeOK, HostStep \/ Kill \/ Expire \/ PollSsh
  PROVE  VmTypeInv' /\ HostTypeOK'
<1> USE DEF HostTypeOK, At, End, Outside, StopThreads, waitVars
<1>1. CASE Launch
  <2>1. VmTypeInv'
    BY <1>1 DEF Launch, VmTypeInv, VmTypeOK, SocketsLeft, Ports, guestVars, outputVars,
                notifyVars, statusVars
  <2> QED BY <1>1, <2>1 DEF Launch
<1>2. CASE PodmanEnds BY <1>2, OutsideTypes DEF PodmanEnds
<1>3. CASE Check BY <1>3, OutsideTypes DEF Check
<1>4. CASE Receive
  <2>1. chan' \in Seq({"ssh", "line", "line-ssh-access"})
    <3>1. chan # <<>> /\ (chan' = Tail(chan) \/ chan' = <<>>) BY <1>4 DEF Receive
    <3>2. CASE chan' = Tail(chan) BY <3>1, <3>2, TailType, Zenon
    <3>3. CASE chan' = <<>> BY <3>3
    <3> QED BY <3>1, <3>2, <3>3
  <2> QED BY <1>4, <2>1, OutsideTypes DEF Receive
<1>5. CASE TimeOut BY <1>5, OutsideTypes DEF TimeOut
<1>6. CASE Session BY <1>6, OutsideTypes DEF Session
<1>7. CASE Cleanup
  <2>1. VmTypeInv'
    <3>1. CASE Gone("removed", "killed") BY <3>1, GoneTypes
    <3>2. CASE /\ container' = "removed"
               /\ UNCHANGED <<opts, main, result, awaited, signalled, guestVars,
                              outputVars, notifyVars, statusVars>>
      BY <3>2 DEF VmTypeInv, VmTypeOK, SocketsLeft, Ports, guestVars, outputVars,
                  notifyVars, statusVars
    <3> QED BY <1>7, <3>1, <3>2 DEF Cleanup, RemoveContainer
  <2> QED BY <1>7, <2>1 DEF Cleanup
<1>8. CASE Label BY <1>8, OutsideTypes DEF Label
<1>9. CASE Kill BY <1>9, OutsideTypes DEF Kill
<1>10. CASE Expire BY <1>10, OutsideTypes DEF Expire
<1>11. CASE PollSsh
  <2>1. chan' \in Seq({"ssh", "line", "line-ssh-access"}) BY <1>11 DEF PollSsh
  <2> QED BY <1>11, <2>1, OutsideTypes DEF PollSsh
<1> QED BY <1>1, <1>2, <1>3, <1>4, <1>5, <1>6, <1>7, <1>8, <1>9, <1>10, <1>11 DEF HostStep

\* Each step of the status monitor.
LEMMA FollowTypes ==
  ASSUME VmTypeInv, HostTypeOK, Follow
  PROVE  VmTypeInv' /\ HostTypeOK'
<1> USE DEF HostTypeOK, Follows, Outside
<1>2. CASE FollowStart BY <1>2, EventsTypes DEF FollowStart
<1>3. CASE FollowStat
  <2>1. last' \in Nat BY <1>3 DEF FollowStat, VmTypeInv, VmTypeOK
  <2>2. follow' \in {"read", "block"} BY <1>3 DEF FollowStat
  <2> QED BY <1>3, <2>1, <2>2, OutsideTypes DEF FollowStat
<1>4. CASE FollowRead
  <2>1. chan' \in Seq({"ssh", "line", "line-ssh-access"}) BY <1>4 DEF FollowRead
  <2>2. follow' \in {"stat", "ended"} BY <1>4 DEF FollowRead
  <2> QED BY <1>4, <2>1, <2>2, OutsideTypes DEF FollowRead
<1>5. CASE FollowWake BY <1>5, EventsTypes DEF FollowWake
<1>6. CASE FollowEnd BY <1>6, OutsideTypes DEF FollowEnd
<1> QED BY <1>2, <1>3, <1>4, <1>5, <1>6 DEF Follow

\* The initial states have the types.
LEMMA InitTypes == ASSUME SshInit PROVE VmTypeInv /\ HostTypeOK
<1>1. VmTypeInv
  <2> USE DEF SshInit, Init
  <2>1. /\ awaited \in 0..Mounts
        /\ planned \in 0..MaxWritten
    BY EphemeralAssumption
  <2>2. /\ written \in [Ports -> Nat]
        /\ copied \in [Ports -> Nat]
        /\ \A p \in Ports : written[p] - copied[p] \in 0..PipeSize
    BY EphemeralAssumption
  <2>3. drain \in [Streams -> {"none", "reading", "done", "gone"}] OBVIOUS
  <2>4. notes \in Seq({"target", "ssh-access"}) OBVIOUS
  <2>5. status \in [state : {"none", "waiting", "reached"}, ssh : BOOLEAN,
                    running : BOOLEAN, mtime : Nat]
    BY DEF NoStatus
  <2> QED BY <2>1, <2>2, <2>3, <2>4, <2>5 DEF VmTypeInv, VmTypeOK, SocketsLeft
<1>2. HostTypeOK
  <2>1. chan \in Seq({"ssh", "line", "line-ssh-access"}) BY DEF SshInit
  <2> QED BY <2>1 DEF SshInit, HostTypeOK
<1> QED BY <1>1, <1>2

\* Every step keeps the types.
LEMMA StepTypes ==
  ASSUME VmTypeInv, HostTypeOK, [Next]_vars
  PROVE  VmTypeInv' /\ HostTypeOK'
<1>1. CASE InContainer
  <2>1. VmTypeInv' BY <1>1, ContainerTypes DEF InContainer
  <2>2. HostTypeOK' BY <1>1 DEF InContainer, HostTypeOK, hostVars, waitVars
  <2> QED BY <2>1, <2>2
<1>2. CASE UNCHANGED vars
  <2>1. VmTypeInv' BY <1>2, OutsideTypes DEF vars
  <2>2. HostTypeOK' BY <1>2 DEF vars, HostTypeOK, hostVars, waitVars
  <2> QED BY <2>1, <2>2
<1> QED BY <1>1, <1>2, HostTypes, FollowTypes DEF Next

\* Every variable keeps its type, whatever the VM is asked for and whatever
\* becomes of it.
THEOREM TypeCorrect == Spec => []TypeOK
<1>1. SshInit => VmTypeInv /\ HostTypeOK BY InitTypes
<1>2. VmTypeInv /\ HostTypeOK /\ [Next]_vars => VmTypeInv' /\ HostTypeOK' BY StepTypes
<1>3. VmTypeInv /\ HostTypeOK => TypeOK BY DEF TypeOK, VmTypeInv, HostTypeOK
<1> QED BY <1>1, <1>2, <1>3, PTL DEF Spec

-----------------------------------------------------------------------------
(* The invariants                                                          *)

Before == {"absent", "begin", "prepare"}
Starting == {"virtiofsd", "sleep", "launch"}

PlaceInv ==
  /\ container = "none" <=> main = "absent"
  /\ container = "running" <=> main \notin {"absent", "exited"}
  /\ main # "exited" => result = "none"
  /\ guest # "off" <=> qemu = "running"
  /\ qemu = "running" => main = "wait"
  /\ main \in Before \cup Starting => qemu = "none"
  /\ listening # {} => qemu = "running"

PortInv ==
  /\ guest \in {"exec", "halt"} => opts.execute
  /\ code = "fail" => opts.execute
  /\ ~opts.execute => planned = 0 /\ written["execute"] = 0
  /\ ~opts.journal => \A s \in Streams : written[s] = 0
  /\ main \in Before => \A s \in Streams : drain[s] = "none"
  /\ main \in Starting \cup {"wait", "copy", "drain", "finish", "return"} /\ opts.journal
       => \A s \in Streams : drain[s] \in {"reading", "done"}
  /\ \A s \in Streams :
       drain[s] = "done" =>
         copied[s] = written[s] /\ guest = "off" /\ main \notin Starting
  /\ main \in {"drain", "finish", "return"} => copied["execute"] = written["execute"]
  /\ main \in {"finish", "return"} =>
       code # "fail" /\ \A s \in Streams : drain[s] # "reading"
  /\ OutputComplete

HostInv ==
  /\ host = "start" => container = "none"
  /\ host \in {"podman", "check", "wait", "session", "cleanup"} =>
       container \in {"running", "exited"}
  /\ host = "label" => container = "removed"
  /\ host \in {"start", "podman", "check"} => poll = "none"
  /\ host = "session" => poll = "done"
  /\ poll = "done" => qemu # "none" /\ ("tcp" \in listening \/ guest = "off")
  /\ \A i \in 1..Len(chan) : chan[i] = "ssh" => poll = "done"
  /\ disk = "cached" => host = "done" /\ outcome = "ok" /\ container = "removed"
  /\ status.mtime = 0 => last = 0
  /\ MonitorCurrent

-----------------------------------------------------------------------------
(* Where the main task is                                                  *)

\* The end of the container, seen from the invariants.
LEMMA GonePlace ==
  ASSUME VmTypeInv, PlaceInv, container # "none",
         NEW c \in {"exited", "removed"}, NEW r \in {"ok", "stopped", "err", "killed"},
         Gone(c, r)
  PROVE  PlaceInv'
BY DEF VmTypeInv, VmTypeOK, PlaceInv, Gone, Before, Starting

\* Each step of the main task.
LEMMA MainPlace ==
  ASSUME VmTypeInv, PlaceInv, container = "running", MainTask
  PROVE  PlaceInv'
<1> USE DEF PlaceInv, Before, Starting, Goto, runVars, guestVars, outputVars, notifyVars,
            statusVars
<1>1. CASE CheckBinaries BY <1>1 DEF CheckBinaries
<1>2. CASE Prepare BY <1>2 DEF Prepare
<1>3. CASE LookForSocket BY <1>3 DEF LookForSocket, SocketSeen
<1>4. CASE AwaitSocket BY <1>4 DEF AwaitSocket, SocketSeen, SpawnFailed
<1>5. CASE CatchSignal BY <1>5, GonePlace DEF CatchSignal
<1>6. CASE LaunchQemu BY <1>6 DEF LaunchQemu, SpawnFailed
<1>7. CASE WaitForQemu BY <1>7 DEF WaitForQemu, Over
<1>8. CASE CopyOutput BY <1>8 DEF CopyOutput
<1>9. CASE JoinDrains BY <1>9 DEF JoinDrains
<1>10. CASE Finish BY <1>10 DEF Finish
<1>11. CASE Return BY <1>11, GonePlace DEF Return
<1>12. CASE Unwind BY <1>12, GonePlace DEF Unwind
<1> QED BY <1>1, <1>2, <1>3, <1>4, <1>5, <1>6, <1>7, <1>8, <1>9, <1>10, <1>11, <1>12
        DEF MainTask

\* Each step inside the container.
LEMMA ContainerPlace ==
  ASSUME VmTypeInv, PlaceInv, container = "running", Container
  PROVE  PlaceInv'
<1> USE DEF PlaceInv, Before, Starting, runVars, guestVars, outputVars, notifyVars,
            statusVars
<1>1. CASE MainTask BY <1>1, MainPlace
<1>2. CASE Monitor BY <1>2 DEF Monitor, MonitorStart, MonitorRead, MonitorEnd
<1>3. ASSUME NEW s \in Streams, Drain(s) PROVE PlaceInv' BY <1>3 DEF Drain
<1>4. CASE Guest
  <2> USE DEF GuestStep
  <2>1. ASSUME NEW e \in {"ok", "failed"}, QemuEnds(e), qemu = "running"
        PROVE  PlaceInv'
    BY <2>1 DEF QemuEnds
  <2>2. CASE Command
    <3>1. CASE PowerOff BY <2>1, <3>1 DEF PowerOff
    <3>2. CASE Boot BY <3>2 DEF Boot
    <3>3. CASE WriteOutput BY <3>3 DEF WriteOutput, Write
    <3>4. CASE Report BY <3>4 DEF Report
    <3> QED BY <2>2, <3>1, <3>2, <3>3, <3>4 DEF Command
  <2>3. ASSUME NEW w \in {"vsock", "tcp"}, Listen(w) PROVE PlaceInv' BY <2>3 DEF Listen
  <2>4. CASE Notify BY <2>4 DEF Notify
  <2>5. ASSUME NEW s \in Streams, WriteJournal(s) PROVE PlaceInv'
    BY <2>5 DEF WriteJournal, Write
  <2>6. CASE Shutdown BY <2>1, <2>6 DEF Shutdown
  <2>7. CASE QemuFails BY <2>1, <2>7 DEF QemuFails
  <2> QED BY <1>4, <2>2, <2>3, <2>4, <2>5, <2>6, <2>7 DEF Guest
<1>5. CASE Signal BY <1>5 DEF Signal
<1> QED BY <1>1, <1>2, <1>3, <1>4, <1>5 DEF Container

\* The removal of a container leaves a place that fits.
LEMMA RemovePlace ==
  ASSUME VmTypeInv, PlaceInv, container \in {"running", "exited"}, RemoveContainer
  PROVE  PlaceInv'
<1>1. CASE container = "running" BY <1>1, GonePlace DEF RemoveContainer
<1>2. CASE container # "running"
  BY <1>2 DEF RemoveContainer, PlaceInv, guestVars, Before, Starting, VmTypeInv, VmTypeOK
<1> QED BY <1>1, <1>2

\* The start of a container, its removal, and every step that leaves it alone.
LEMMA HostPlace ==
  ASSUME VmTypeInv, PlaceInv, HostInv, HostStep \/ Kill \/ Expire \/ PollSsh \/ Follow
  PROVE  PlaceInv'
<1>1. ASSUME UNCHANGED <<runVars, guestVars>> PROVE PlaceInv'
  BY <1>1 DEF PlaceInv, runVars, guestVars, Before, Starting
<1>2. CASE Launch
  <2>1. CASE UNCHANGED <<container, main>>
    BY <1>1, <1>2, <2>1 DEF Launch, runVars
  <2>2. CASE container' = "running" /\ main' = "begin"
    BY <1>2, <2>2 DEF Launch, PlaceInv, HostInv, guestVars, Before, Starting
  <2> QED BY <1>2, <2>1, <2>2 DEF Launch
<1>3. CASE Cleanup BY <1>3, RemovePlace DEF Cleanup, HostInv
<1>4. CASE PodmanEnds \/ Check \/ Receive \/ TimeOut \/ Session \/ Label
  BY <1>1, <1>4 DEF PodmanEnds, Check, Receive, TimeOut, Session, Label, Outside, vmVars
<1>5. CASE Kill \/ Expire \/ PollSsh
  BY <1>1, <1>5 DEF Kill, Expire, PollSsh, Outside, vmVars
<1>6. CASE Follow
  BY <1>1, <1>6 DEF Follow, FollowStart, FollowStat, FollowRead, FollowWake, FollowEnd,
                    Outside, vmVars
<1> QED BY <1>2, <1>3, <1>4, <1>5, <1>6 DEF HostStep

-----------------------------------------------------------------------------
(* What has been read                                                      *)

\* A port with nothing written has nothing copied, and a main task that is
\* about to return has read all.
LEMMA AllRead ==
  ASSUME VmTypeInv, PortInv, main \in {"finish", "return"}
  PROVE  copied = written /\ code # "fail"
<1>1. ASSUME NEW p \in Ports PROVE copied[p] = written[p]
  <2>1. CASE p = "execute" BY <2>1 DEF PortInv
  <2>2. CASE p \in Streams /\ opts.journal BY <2>2 DEF PortInv
  <2>3. CASE p \in Streams /\ ~opts.journal
    <3>1. /\ written[p] = 0 /\ copied[p] \in Nat
          /\ written[p] - copied[p] \in 0..PipeSize
      BY <2>3 DEF PortInv, VmTypeInv, VmTypeOK
    <3> QED BY <3>1, EphemeralAssumption
  <2> QED BY <2>1, <2>2, <2>3 DEF Ports
<1>2. copied \in [Ports -> Nat] /\ written \in [Ports -> Nat] BY DEF VmTypeInv, VmTypeOK
<1>3. copied = written BY <1>1, <1>2
<1> QED BY <1>3 DEF PortInv

\* The exit: success only comes with all output read.
LEMMA GonePorts ==
  ASSUME VmTypeInv, PortInv,
         NEW c \in {"exited", "removed"}, NEW r \in {"ok", "stopped", "err", "killed"},
         Gone(c, r), r = "ok" => copied = written /\ code # "fail"
  PROVE  PortInv'
<1> USE DEF PortInv, OutputComplete, Gone, Before, Starting
<1>1. ASSUME NEW s \in Streams, drain'[s] = "done" PROVE drain[s] = "done"
  BY <1>1
<1> QED BY <1>1

\* Each step of the main task; Prepare starts the drains, JoinDrains waits for
\* them.
LEMMA MainPorts ==
  ASSUME VmTypeInv, PlaceInv, PortInv, container = "running", MainTask
  PROVE  PortInv'
<1> USE DEF PortInv, OutputComplete, Before, Starting, Goto, runVars, guestVars,
            outputVars, notifyVars, statusVars
<1>0. result = "none" BY DEF PlaceInv, VmTypeInv, VmTypeOK
<1>1. CASE CheckBinaries BY <1>1 DEF CheckBinaries
<1>2. CASE Prepare
  <2>1. \/ main' = "unwind" /\ UNCHANGED drain
        \/ main' = "virtiofsd" /\ StartDrains
    BY <1>2 DEF Prepare
  <2>2. main = "prepare" /\ UNCHANGED <<opts, result, guestVars, copied>>
    BY <1>2 DEF Prepare
  <2>3. CASE main' = "unwind" /\ UNCHANGED drain BY <2>2, <2>3
  <2>4. CASE main' = "virtiofsd" /\ StartDrains BY <2>2, <2>4, <1>0 DEF StartDrains
  <2> QED BY <2>1, <2>3, <2>4
<1>3. CASE LookForSocket BY <1>3 DEF LookForSocket, SocketSeen
<1>4. CASE AwaitSocket BY <1>4 DEF AwaitSocket, SocketSeen, SpawnFailed
<1>5. CASE CatchSignal BY <1>5, GonePorts DEF CatchSignal
<1>6. CASE LaunchQemu BY <1>6 DEF LaunchQemu, SpawnFailed
<1>7. CASE WaitForQemu
  <2>1. CASE main' = "drain"
    <3>1. ~opts.execute BY <1>7, <2>1 DEF WaitForQemu
    <3>2. written["execute"] = 0 BY <3>1
    <3>3. copied["execute"] = 0
      BY <3>2, EphemeralAssumption DEF VmTypeInv, VmTypeOK, Ports
    <3> QED BY <1>7, <2>1, <3>2, <3>3 DEF WaitForQemu
  <2>2. CASE main' \in {"copy", "unwind"} BY <1>7, <2>2 DEF WaitForQemu
  <2> QED BY <1>7, <2>1, <2>2 DEF WaitForQemu
<1>8. CASE CopyOutput
  <2>1. \A s \in Streams : copied'[s] = copied[s]
    BY <1>8, EphemeralAssumption DEF CopyOutput, VmTypeInv, VmTypeOK, Ports
  <2>2. copied'["execute"] = written["execute"]
    BY <1>8 DEF CopyOutput, VmTypeInv, VmTypeOK, Ports
  <2> QED BY <1>0, <1>8, <2>1, <2>2 DEF CopyOutput
<1>9. CASE JoinDrains BY <1>9 DEF JoinDrains
<1>10. CASE Finish BY <1>10 DEF Finish
<1>11. CASE Return BY <1>11, AllRead, GonePorts DEF Return
<1>12. CASE Unwind BY <1>12, GonePorts DEF Unwind
<1> QED BY <1>1, <1>2, <1>3, <1>4, <1>5, <1>6, <1>7, <1>8, <1>9, <1>10, <1>11, <1>12
        DEF MainTask

\* Each step inside the container; a guest only writes while the main task
\* waits.
LEMMA ContainerPorts ==
  ASSUME VmTypeInv, PlaceInv, PortInv, container = "running", Container
  PROVE  PortInv'
<1> USE DEF PortInv, OutputComplete, Before, Starting, runVars, guestVars, outputVars,
            notifyVars, statusVars
<1>0. result = "none" BY DEF PlaceInv, VmTypeInv, VmTypeOK
<1>1. CASE MainTask BY <1>1, MainPorts
<1>2. CASE Monitor BY <1>2 DEF Monitor, MonitorStart, MonitorRead, MonitorEnd
<1>3. ASSUME NEW s \in Streams, Drain(s) PROVE PortInv'
  <2>1. /\ drain[s] = "reading"
        /\ UNCHANGED <<runVars, guestVars>>
        /\ main \notin Before
    BY <1>3 DEF Drain
  <2>2. s # "execute" /\ s \in Ports BY EphemeralAssumption DEF Ports
  <2>3. CASE copied' = [copied EXCEPT ![s] = @ + 1] /\ UNCHANGED drain
    <3>1. \A q \in Ports : q # s => copied'[q] = copied[q]
      BY <2>3 DEF VmTypeInv, VmTypeOK
    <3>2. copied'["execute"] = copied["execute"] BY <2>2, <3>1 DEF Ports
    <3>3. \A q \in Streams : drain[q] = "done" => copied'[q] = copied[q]
      BY <2>1, <3>1 DEF Ports
    <3> QED BY <1>0, <2>1, <2>3, <3>2, <3>3
  <2>4. CASE /\ copied[s] >= written[s] /\ PortsClosed
             /\ drain' = [drain EXCEPT ![s] = "done"] /\ UNCHANGED copied
    <3>1. copied[s] = written[s]
      BY <2>2, <2>4, EphemeralAssumption DEF VmTypeInv, VmTypeOK
    <3>2. guest = "off" /\ main \notin Starting BY <2>4 DEF PortsClosed, PlaceInv
    <3>3. \A q \in Streams : drain'[q] = IF q = s THEN "done" ELSE drain[q]
      BY <2>4 DEF VmTypeInv, VmTypeOK
    <3> QED BY <1>0, <2>1, <2>4, <3>1, <3>2, <3>3
  <2>5. copied[s] \in Nat /\ written[s] \in Nat BY <2>2 DEF VmTypeInv, VmTypeOK
  <2> QED BY <1>3, <2>3, <2>4, <2>5 DEF Drain
<1>4. CASE Guest
  <2> USE DEF GuestStep
  <2>1. ASSUME NEW e \in {"ok", "failed"}, QemuEnds(e) PROVE PortInv'
    BY <2>1 DEF QemuEnds
  <2>2. ASSUME NEW p \in Ports, Write(p), guest # "off",
               UNCHANGED <<qemu, guest, listening, code, planned, sent, notes>>,
               p = "execute" => opts.execute, p \in Streams => opts.journal
        PROVE  PortInv'
    <3>1. main = "wait" BY <2>2 DEF PlaceInv
    <3>2. \A q \in Ports : q # p => written'[q] = written[q]
      BY <2>2 DEF Write, VmTypeInv, VmTypeOK
    <3>3. UNCHANGED <<runVars, outputVars>> BY <2>2 DEF Write
    <3>4. \A s \in Streams : drain[s] # "done" BY <2>2
    <3>5. ~opts.execute => written'["execute"] = 0 BY <2>2, <3>2 DEF Ports
    <3>6. ~opts.journal => \A s \in Streams : written'[s] = 0 BY <2>2, <3>2 DEF Ports
    <3> QED BY <1>0, <2>2, <3>1, <3>3, <3>4, <3>5, <3>6
  <2>3. CASE Command
    <3>1. CASE PowerOff BY <2>1, <3>1 DEF PowerOff
    <3>2. CASE Boot BY <3>2 DEF Boot
    <3>3. CASE WriteOutput
      <4>1. "execute" \in Ports /\ "execute" \notin Streams
        BY EphemeralAssumption DEF Ports
      <4> QED BY <2>2, <3>3, <4>1 DEF WriteOutput, Write
    <3>4. CASE Report BY <1>0, <3>4 DEF Report, PlaceInv
    <3> QED BY <2>3, <3>1, <3>2, <3>3, <3>4 DEF Command
  <2>4. ASSUME NEW w \in {"vsock", "tcp"}, Listen(w) PROVE PortInv' BY <2>4 DEF Listen
  <2>5. CASE Notify BY <2>5 DEF Notify
  <2>6. ASSUME NEW s \in Streams, WriteJournal(s) PROVE PortInv'
    <3>1. s \in Ports /\ s # "execute" BY EphemeralAssumption DEF Ports
    <3> QED BY <2>2, <2>6, <3>1 DEF WriteJournal, Write
  <2>7. CASE Shutdown BY <2>1, <2>7 DEF Shutdown
  <2>8. CASE QemuFails BY <2>1, <2>8 DEF QemuFails
  <2> QED BY <1>4, <2>3, <2>4, <2>5, <2>6, <2>7, <2>8 DEF Guest
<1>5. CASE Signal BY <1>5 DEF Signal
<1> QED BY <1>1, <1>2, <1>3, <1>4, <1>5 DEF Container

\* The host reads no pipe: it starts and removes the container.
LEMMA HostPorts ==
  ASSUME VmTypeInv, PlaceInv, PortInv, HostInv,
         HostStep \/ Kill \/ Expire \/ PollSsh \/ Follow
  PROVE  PortInv'
<1>1. ASSUME UNCHANGED <<opts, main, result, guestVars, outputVars>> PROVE PortInv'
  BY <1>1 DEF PortInv, OutputComplete, guestVars, outputVars, Before, Starting
<1>2. CASE Launch
  <2>1. CASE UNCHANGED <<container, main>> BY <1>1, <1>2, <2>1 DEF Launch
  <2>2. CASE container' = "running" /\ main' = "begin"
    <3>1. main = "absent" BY <1>2 DEF Launch, HostInv, PlaceInv
    <3>2. UNCHANGED <<opts, result, guestVars, outputVars>> BY <1>2 DEF Launch
    <3> QED BY <2>2, <3>1, <3>2
            DEF PortInv, OutputComplete, guestVars, outputVars, Before, Starting
  <2> QED BY <1>2, <2>1, <2>2 DEF Launch
<1>3. CASE Cleanup
  <2>1. CASE Gone("removed", "killed") BY <2>1, GonePorts
  <2>2. CASE UNCHANGED <<opts, main, result, guestVars, outputVars>> BY <1>1, <2>2
  <2> QED BY <1>3, <2>1, <2>2 DEF Cleanup, RemoveContainer
<1>4. CASE PodmanEnds \/ Check \/ Receive \/ TimeOut \/ Session \/ Label
  BY <1>1, <1>4 DEF PodmanEnds, Check, Receive, TimeOut, Session, Label, Outside, vmVars,
                    runVars
<1>5. CASE Kill \/ Expire \/ PollSsh
  BY <1>1, <1>5 DEF Kill, Expire, PollSsh, Outside, vmVars, runVars
<1>6. CASE Follow
  BY <1>1, <1>6 DEF Follow, FollowStart, FollowStat, FollowRead, FollowWake, FollowEnd,
                    Outside, vmVars, runVars
<1> QED BY <1>2, <1>3, <1>4, <1>5, <1>6 DEF HostStep

-----------------------------------------------------------------------------
(* What the host relies on                                                 *)

\* All that a step inside the container does to what the host looks at.
ContainerEffect ==
  /\ container' \in {"running", "exited"}
  /\ qemu # "none" => qemu' # "none"
  /\ qemu # "none" /\ ("tcp" \in listening \/ guest = "off")
       => "tcp" \in listening' \/ guest' = "off"
  /\ UNCHANGED statusVars \/ (status'.mtime > 0 /\ events')

\* A write of the status queues an event.
LEMMA WriteStatusEffect ==
  ASSUME VmTypeInv, NEW s, NEW a, NEW r, WriteStatus(s, a, r)
  PROVE  status'.mtime > 0 /\ events'
BY DEF VmTypeInv, VmTypeOK, WriteStatus

\* Each step of the main task.
LEMMA MainEffect ==
  ASSUME VmTypeInv, PlaceInv, container = "running", MainTask
  PROVE  ContainerEffect
<1> USE DEF ContainerEffect, Goto, runVars, guestVars, outputVars, notifyVars
<1>0. ASSUME NEW r, Gone("exited", r) PROVE ContainerEffect BY <1>0 DEF Gone
<1>1. CASE CheckBinaries BY <1>1, WriteStatusEffect DEF CheckBinaries
<1>2. CASE Prepare BY <1>2, WriteStatusEffect DEF Prepare, StartMonitor
<1>3. CASE LookForSocket BY <1>3 DEF LookForSocket, SocketSeen
<1>4. CASE AwaitSocket BY <1>4 DEF AwaitSocket, SocketSeen, SpawnFailed
<1>5. CASE CatchSignal BY <1>0, <1>5 DEF CatchSignal
<1>6. CASE LaunchQemu
  <2>1. qemu = "none" BY <1>6 DEF LaunchQemu, PlaceInv, Before, Starting
  <2> QED BY <1>6, <2>1 DEF LaunchQemu, SpawnFailed
<1>7. CASE WaitForQemu BY <1>7 DEF WaitForQemu
<1>8. CASE CopyOutput BY <1>8 DEF CopyOutput
<1>9. CASE JoinDrains BY <1>9 DEF JoinDrains
<1>10. CASE Finish BY <1>10, WriteStatusEffect DEF Finish
<1>11. CASE Return BY <1>0, <1>11 DEF Return
<1>12. CASE Unwind BY <1>0, <1>12 DEF Unwind
<1> QED BY <1>1, <1>2, <1>3, <1>4, <1>5, <1>6, <1>7, <1>8, <1>9, <1>10, <1>11, <1>12
        DEF MainTask

\* Each step inside the container.
LEMMA Effect ==
  ASSUME VmTypeInv, PlaceInv, container = "running", Container
  PROVE  ContainerEffect
<1> USE DEF ContainerEffect, runVars, guestVars, outputVars, notifyVars
<1>1. CASE MainTask BY <1>1, MainEffect
<1>2. CASE Monitor
  <2>1. UNCHANGED <<runVars, guestVars>>
    BY <1>2 DEF Monitor, MonitorStart, MonitorRead, MonitorEnd
  <2>2. UNCHANGED statusVars \/ (status'.mtime > 0 /\ events')
    BY <1>2, WriteStatusEffect DEF Monitor, MonitorStart, MonitorRead, MonitorEnd
  <2> QED BY <2>1, <2>2
<1>3. ASSUME NEW s \in Streams, Drain(s) PROVE ContainerEffect BY <1>3 DEF Drain
<1>4. CASE Guest
  <2> USE DEF GuestStep
  <2>1. CASE Boot BY <2>1 DEF Boot
  <2>2. CASE WriteOutput BY <2>2 DEF WriteOutput, Write
  <2>3. CASE Report BY <2>3 DEF Report
  <2>4. CASE PowerOff \/ Shutdown \/ QemuFails
    BY <2>4 DEF PowerOff, Shutdown, QemuFails, QemuEnds
  <2>5. ASSUME NEW w \in {"vsock", "tcp"}, Listen(w) PROVE ContainerEffect
    BY <2>5 DEF Listen
  <2>6. CASE Notify BY <2>6 DEF Notify
  <2>7. ASSUME NEW s \in Streams, WriteJournal(s) PROVE ContainerEffect
    BY <2>7 DEF WriteJournal, Write
  <2> QED BY <1>4, <2>1, <2>2, <2>3, <2>4, <2>5, <2>6, <2>7 DEF Guest, Command
<1>5. CASE Signal BY <1>5 DEF Signal
<1> QED BY <1>1, <1>2, <1>3, <1>4, <1>5 DEF Container

\* What a step inside the container cannot take from the host.
LEMMA ContainerHost ==
  ASSUME VmTypeInv, HostTypeOK, PlaceInv, HostInv, InContainer
  PROVE  HostInv'
<1>1. ContainerEffect /\ container = "running" BY Effect DEF InContainer
<1>2. UNCHANGED hostVars BY DEF InContainer
<1>3. MonitorCurrent' /\ (status'.mtime = 0 => last' = 0)
  <2>1. CASE UNCHANGED statusVars
    BY <1>2, <2>1 DEF HostInv, MonitorCurrent, hostVars, waitVars, statusVars
  <2>2. CASE status'.mtime > 0 /\ events' BY <2>2 DEF MonitorCurrent
  <2> QED BY <1>1, <2>1, <2>2 DEF ContainerEffect
<1> QED BY <1>1, <1>2, <1>3 DEF HostInv, hostVars, waitVars, ContainerEffect

\* Each step of the host, which leaves the channel as it is, shorter, or empty,
\* or adds the answer of the poll.
LEMMA HostHost ==
  ASSUME VmTypeInv, HostTypeOK, PlaceInv, HostInv,
         HostStep \/ Kill \/ Expire \/ PollSsh
  PROVE  HostInv'
<1> USE DEF HostInv, MonitorCurrent, At, End, Outside, StopThreads, vmVars, runVars,
            guestVars, statusVars, waitVars, HostTypeOK
<1>1. CASE Launch
  <2>1. disk' # "cached" /\ poll = "none" BY <1>1 DEF Launch
  <2>2. UNCHANGED <<guestVars, statusVars, waitVars>> BY <1>1 DEF Launch
  <2>3. CASE host' = "done" BY <2>1, <2>2, <2>3
  <2>4. CASE host' \in {"podman", "check"} /\ container' = "running"
    BY <2>1, <2>2, <2>4
  <2> QED BY <1>1, <2>3, <2>4 DEF Launch
<1>2. CASE PodmanEnds BY <1>2 DEF PodmanEnds
<1>3. CASE Check BY <1>3 DEF Check
<1>4. CASE Receive
  <2>1. chan # <<>> /\ Len(chan) \in Nat /\ Len(chan) > 0 BY <1>4 DEF Receive
  <2>2. CASE Head(chan) = "ssh"
    <3>1. poll = "done" BY <2>1, <2>2
    <3>2. chan' = <<>> /\ host' = "session" BY <1>4, <2>2 DEF Receive
    <3> QED BY <1>4, <2>2, <3>1, <3>2 DEF Receive
  <2>3. CASE Head(chan) # "ssh"
    <3>1. chan' = Tail(chan) /\ UNCHANGED <<host, follow, last>>
      BY <1>4, <2>3 DEF Receive
    <3>2. \A i \in 1..Len(chan') : chan'[i] = chan[i + 1] /\ i + 1 \in 1..Len(chan)
      BY <2>1, <3>1
    <3> QED BY <1>4, <3>1, <3>2 DEF Receive
  <2> QED BY <2>2, <2>3
<1>5. CASE TimeOut BY <1>5 DEF TimeOut
<1>6. CASE Session BY <1>6 DEF Session
<1>7. CASE Cleanup
  <2>1. /\ container' = "removed"
        /\ qemu # "none" => qemu' # "none"
        /\ qemu # "none" /\ ("tcp" \in listening \/ guest = "off")
             => "tcp" \in listening' \/ guest' = "off"
        /\ UNCHANGED statusVars
    <3>1. CASE Gone("removed", "killed") BY <3>1 DEF Gone
    <3>2. CASE container' = "removed" /\ UNCHANGED <<guestVars, statusVars>> BY <3>2
    <3> QED BY <1>7, <3>1, <3>2 DEF Cleanup, RemoveContainer
  <2> QED BY <1>7, <2>1 DEF Cleanup
<1>8. CASE Label BY <1>8 DEF Label
<1>9. CASE Kill BY <1>9 DEF Kill
<1>10. CASE Expire BY <1>10 DEF Expire
<1>11. CASE PollSsh
  <2>1. qemu = "running" BY <1>11 DEF PollSsh, PlaceInv
  <2> QED BY <1>11, <2>1 DEF PollSsh
<1> QED BY <1>1, <1>2, <1>3, <1>4, <1>5, <1>6, <1>7, <1>8, <1>9, <1>10, <1>11 DEF HostStep

\* A line at the end of the channel is not an answer.
LEMMA LineIsNoAnswer ==
  ASSUME NEW q \in Seq({"ssh", "line", "line-ssh-access"}), NEW d \in BOOLEAN,
         NEW l \in {"line", "line-ssh-access"},
         \A i \in 1..Len(q) : q[i] = "ssh" => d
  PROVE  \A i \in 1..Len(Append(q, l)) : Append(q, l)[i] = "ssh" => d
OBVIOUS

\* Each step of the status monitor.
LEMMA FollowHost ==
  ASSUME VmTypeInv, HostTypeOK, HostInv, Follow
  PROVE  HostInv'
<1> USE DEF HostInv, MonitorCurrent, Follows, Outside, vmVars, runVars, guestVars,
            statusVars, HostTypeOK
<1>1. CASE FollowStart BY <1>1 DEF FollowStart
<1>2. CASE FollowStat BY <1>2 DEF FollowStat, Changed
<1>3. CASE FollowRead
  <2>1. PICK l \in {"line", "line-ssh-access"} : chan' = Append(chan, l)
    BY <1>3 DEF FollowRead
  <2>2. \A i \in 1..Len(chan') : chan'[i] = "ssh" => poll = "done"
    BY <2>1, LineIsNoAnswer
  <2> QED BY <1>3, <2>2 DEF FollowRead
<1>4. CASE FollowWake BY <1>4 DEF FollowWake
<1>5. CASE FollowEnd BY <1>5 DEF FollowEnd
<1> QED BY <1>1, <1>2, <1>3, <1>4, <1>5 DEF Follow

-----------------------------------------------------------------------------
(* The invariants and what follows from them                               *)

IInv == VmTypeInv /\ HostTypeOK /\ PlaceInv /\ PortInv /\ HostInv

\* All of it holds at first.
LEMMA InitInv == ASSUME SshInit PROVE IInv
<1>1. VmTypeInv /\ HostTypeOK BY InitTypes
<1>2. PlaceInv BY DEF SshInit, Init, PlaceInv, Before, Starting
<1>3. PortInv
  <2>1. "execute" \in Ports BY DEF Ports
  <2>2. ~opts.execute => planned = 0 BY DEF SshInit, Init
  <2>3. \A q \in Ports : written[q] = 0 BY DEF SshInit, Init
  <2> QED BY <2>1, <2>2, <2>3
          DEF SshInit, Init, PortInv, OutputComplete, Before, Starting, Ports
<1>4. HostInv BY DEF SshInit, Init, HostInv, MonitorCurrent, NoStatus
<1> QED BY <1>1, <1>2, <1>3, <1>4 DEF IInv

\* Every step keeps all of it.
LEMMA StepInv == ASSUME IInv, [Next]_vars PROVE IInv'
<1> USE DEF IInv
<1>1. VmTypeInv' /\ HostTypeOK' BY StepTypes
<1>2. CASE InContainer
  <2>1. container = "running" /\ Container BY <1>2 DEF InContainer
  <2> QED BY <1>1, <1>2, <2>1, ContainerPlace, ContainerPorts, ContainerHost
<1>3. CASE HostStep \/ Kill \/ Expire \/ PollSsh
  BY <1>1, <1>3, HostPlace, HostPorts, HostHost
<1>4. CASE Follow BY <1>1, <1>4, HostPlace, HostPorts, FollowHost
<1>5. CASE UNCHANGED vars
  <2> USE <1>5 DEF vars, vmVars, runVars, guestVars, outputVars, statusVars, hostVars,
                   waitVars
  <2>1. PlaceInv' BY DEF PlaceInv, Before, Starting
  <2>2. PortInv' BY DEF PortInv, OutputComplete, Before, Starting
  <2>3. HostInv' BY DEF HostInv, MonitorCurrent
  <2> QED BY <1>1, <2>1, <2>2, <2>3
<1> QED BY <1>2, <1>3, <1>4, <1>5 DEF Next

\* The strengthening holds in every state of every behaviour.
THEOREM Invariance == Spec => []IInv
<1>1. SshInit => IInv BY InitInv
<1>2. IInv /\ [Next]_vars => IInv' BY StepInv
<1> QED BY <1>1, <1>2, PTL DEF Spec

\* An entrypoint that returns success has passed on all output of the guest,
\* whatever number of ports, units and mounts there is, and however the tasks
\* that read the pipes are scheduled.
THEOREM AllOutput == Spec => []OutputComplete
<1>1. IInv => OutputComplete BY DEF IInv, PortInv
<1> QED BY <1>1, Invariance, PTL

\* No command of run-ssh or to-disk begins before sshd has answered on TCP.
THEOREM SessionSafe == Spec => []SessionNeedsSsh
<1>1. IInv => SessionNeedsSsh BY DEF IInv, HostInv, SessionNeedsSsh
<1> QED BY <1>1, Invariance, PTL

\* The status monitor never waits for an event that has been already: every
\* write it has not looked at has one queued.
THEOREM NoLostWakeup == Spec => []MonitorCurrent
<1>1. IInv => MonitorCurrent BY DEF IInv, HostInv
<1> QED BY <1>1, Invariance, PTL

\* A disk with metadata is complete, and its VM has gone.
THEOREM DiskSafe == Spec => []DiskComplete
<1>1. IInv => DiskComplete BY DEF IInv, HostInv, DiskComplete
<1> QED BY <1>1, Invariance, PTL

-----------------------------------------------------------------------------
(* The lease                                                               *)

\* The lease begins when the command does.
LEMMA LeaseInit == ASSUME SshInit PROVE Lease!Init
BY DEF SshInit, Init, Lease!Init, VmState, UserState

\* A step in the container ends it or leaves the lease alone.
LEMMA ContainerLease ==
  ASSUME IInv, InContainer
  PROVE  [Lease!Next]_Lease!vars
<1>1. /\ container = "running" /\ container' \in {"running", "exited"}
      /\ UNCHANGED <<host, poll>>
  BY Effect DEF IInv, InContainer, ContainerEffect, hostVars, waitVars
<1>2. CASE container' = "running"
  BY <1>1, <1>2 DEF Lease!vars, VmState, UserState
<1>3. CASE container' = "exited"
  <2>1. UserState' = UserState BY <1>1, <1>3 DEF UserState
  <2> QED BY <1>1, <1>3, <2>1 DEF Lease!Next, Lease!Over, VmState
<1> QED BY <1>1, <1>2, <1>3

\* Each step of the host is one of the lease, or none.
LEMMA HostLease ==
  ASSUME IInv, HostStep \/ Kill \/ Expire \/ PollSsh \/ Follow
  PROVE  [Lease!Next]_Lease!vars
<1> USE DEF IInv, HostInv, HostTypeOK, At, End, Outside, vmVars, runVars, VmState, UserState,
            Lease!Next, Lease!vars
<1>1. CASE Launch BY <1>1 DEF Launch, Lease!Start, waitVars
<1>2. CASE PodmanEnds BY <1>2 DEF PodmanEnds, Lease!Leave, waitVars
<1>3. CASE Check BY <1>3 DEF Check
<1>4. CASE Receive
  <2>1. CASE Head(chan) = "ssh"
    <3>1. chan # <<>> /\ Len(chan) \in Nat /\ Len(chan) > 0 BY <1>4 DEF Receive
    <3>2. poll = "done" BY <2>1, <3>1
    <3> QED BY <1>4, <2>1, <3>2 DEF Receive, Lease!Enter
  <2>2. CASE Head(chan) # "ssh" BY <1>4, <2>2 DEF Receive
  <2> QED BY <2>1, <2>2
<1>5. CASE TimeOut BY <1>5 DEF TimeOut, Lease!Enter
<1>6. CASE Session BY <1>6 DEF Session, waitVars
<1>7. CASE Cleanup
  <2>1. container' = "removed" BY <1>7 DEF Cleanup, RemoveContainer, Gone
  <2> QED BY <1>7, <2>1 DEF Cleanup, Lease!Leave, waitVars
<1>8. CASE Label BY <1>8 DEF Label, waitVars
<1>9. CASE Kill BY <1>9 DEF Kill, Lease!Abandon
<1>10. CASE Expire BY <1>10 DEF Expire
<1>11. CASE PollSsh BY <1>11 DEF PollSsh, Lease!Answer
<1>12. CASE Follow
  <2>1. UNCHANGED <<container, host, poll>>
    BY <1>12 DEF Follow, FollowStart, FollowStat, FollowRead, FollowWake, FollowEnd, Follows
  <2> QED BY <2>1
<1> QED BY <1>1, <1>2, <1>3, <1>4, <1>5, <1>6, <1>7, <1>8, <1>9, <1>10, <1>11, <1>12
        DEF HostStep

\* run, run-ssh and to-disk keep the promise of EphemeralLease: they work in a
\* VM only after its sshd has answered, and it goes with them.
THEOREM LeaseRefinement == Spec => LeaseKept
<1>1. SshInit => Lease!Init BY LeaseInit
<1>2. IInv /\ [Next]_vars => [Lease!Next]_Lease!vars
  <2> SUFFICES ASSUME IInv, [Next]_vars PROVE [Lease!Next]_Lease!vars OBVIOUS
  <2>1. CASE UNCHANGED vars
    BY <2>1 DEF vars, vmVars, runVars, hostVars, waitVars, Lease!vars, VmState, UserState
  <2> QED BY <2>1, ContainerLease, HostLease DEF Next
<1> QED BY <1>1, <1>2, Invariance, PTL DEF Spec, LeaseKept, Lease!Spec
=============================================================================
