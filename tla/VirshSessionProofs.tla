------------------------- MODULE VirshSessionProofs -------------------------
(* For any number of processes, whatever they are asked for, any times of  *)
(* the daemon and the guest: virsh is never run again for a command that   *)
(* libvirt has executed.                                                   *)
EXTENDS VirshSession, TLAPS

\* Assignments to the reply of a job have an effect.
IsJob(j) == "reply" \in DOMAIN j

Shapes ==
  /\ DOMAIN pc = Procs
  /\ DOMAIN job = Procs
  /\ \A p \in Procs : IsJob(job[p])

\* libvirt has executed the command of a process only while that process
\* waits for the answer.
RanAreWaiting == \A p \in Procs : p \in ran => pc[p] = "command"

\* An answer of libvirt is not a failure to connect.
RepliesAreLibvirts ==
  \A p \in Procs : pc[p] = "command" => ~IsTransientConnectFailure(job[p].reply)

RetryInv == Shapes /\ RanAreWaiting /\ RepliesAreLibvirts

LEMMA ReplyNotTransient ==
  \A cmd : ~IsTransientConnectFailure(Reply(cmd))
BY DEF IsTransientConnectFailure, Reply, Answer, Failure, Output

LEMMA JobIsJob ==
  \A req, todo, version : IsJob(Job(req, todo, version))
BY DEF IsJob, Job, NoJob

\* A step of one process that goes to another label than "command" and takes
\* it out of ran, or leaves it as it is when it is not in.
LEMMA GotoKeeps ==
  ASSUME RetryInv, NEW p \in Procs
  PROVE  \A label, j :
           /\ IsJob(j)
           /\ label # "command"
           /\ Goto(p, label, j)
           /\ ran' = ran \ {p} \/ (ran' = ran /\ p \notin ran)
           => RetryInv'
<1> SUFFICES ASSUME NEW label, NEW j, IsJob(j), label # "command", Goto(p, label, j),
                    \/ ran' = ran \ {p}
                    \/ ran' = ran /\ p \notin ran
             PROVE  RetryInv'
  OBVIOUS
<1>1. Shapes'
  BY DEF RetryInv, Shapes, Goto
<1>2. RanAreWaiting'
  BY DEF RetryInv, Shapes, RanAreWaiting, Goto
<1>3. RepliesAreLibvirts'
  BY DEF RetryInv, Shapes, RepliesAreLibvirts, Goto, IsTransientConnectFailure
<1> QED BY <1>1, <1>2, <1>3 DEF RetryInv

LEMMA ProceedKeeps ==
  ASSUME RetryInv, NEW p \in Procs
  PROVE  \A j : IsJob(j) /\ Proceed(p, j) => RetryInv'
<1> SUFFICES ASSUME NEW j, IsJob(j), Proceed(p, j) PROVE RetryInv'
  OBVIOUS
<1>1. ran' = ran \ {p}
  BY DEF Proceed
<1>2. PICK label, i : /\ label \in {"done", "poll", "session", "attempt"}
                    /\ IsJob(i) /\ Goto(p, label, i)
  <2>1. CASE j.todo = <<>>
    BY <2>1 DEF Proceed
  <2>2. CASE j.todo # <<>> /\ Head(j.todo).cmd = "wait"
    <3>1. IsJob([j EXCEPT !.since = now, !.at = now])
      BY DEF IsJob
    <3> QED BY <2>2, <3>1 DEF Proceed
  <2>3. CASE j.todo # <<>> /\ Head(j.todo).cmd = "session"
    <3>1. IsJob([j EXCEPT !.at = now])
      BY DEF IsJob
    <3> QED BY <2>3, <3>1 DEF Proceed
  <2>4. CASE j.todo # <<>> /\ Head(j.todo).cmd \notin {"wait", "session"}
    <3>1. IsJob([j EXCEPT !.at = now, !.backoff = InitialBackoff,
                          !.deadline = now + ConnectRetryTimeout])
      BY DEF IsJob
    <3> QED BY <2>4, <3>1 DEF Proceed
  <2> QED BY <2>1, <2>2, <2>3, <2>4
<1> QED BY <1>1, <1>2, GotoKeeps

LEMMA FailKeeps ==
  ASSUME RetryInv, NEW p \in Procs, Fail(p)
  PROVE  RetryInv'
BY JobIsJob, GotoKeeps DEF Fail

LEMMA ReturnKeeps ==
  ASSUME RetryInv, NEW p \in Procs
  PROVE  \A output : Return(p, output) => RetryInv'
<1> SUFFICES ASSUME NEW output, Return(p, output) PROVE RetryInv'
  OBVIOUS
<1>1. CASE Fail(p)
  BY <1>1, FailKeeps
<1>2. CASE ~Fail(p)
  <2>1. PICK todo, version : Proceed(p, Job(job[p].req, todo, version))
    BY <1>2 DEF Return
  <2> QED BY <2>1, JobIsJob, ProceedKeeps
<1> QED BY <1>1, <1>2

\* An attempt may fail in any way before libvirt has executed the command,
\* and not for the connection afterwards.
LEMMA AttemptedKeeps ==
  ASSUME RetryInv, NEW p \in Procs
  PROVE  \A output :
           /\ Attempted(p, output)
           /\ p \notin ran \/ ~IsTransientConnectFailure(output)
           => RetryInv'
<1> SUFFICES ASSUME NEW output, Attempted(p, output),
                    p \notin ran \/ ~IsTransientConnectFailure(output)
             PROVE  RetryInv'
  OBVIOUS
<1>1. CASE Return(p, output)
  BY <1>1, ReturnKeeps
<1>2. CASE ~Return(p, output)
  <2> DEFINE j == [job[p] EXCEPT !.at = now + job[p].backoff,
                                 !.backoff = NextBackoff(@), !.reply = None]
  <2>1. Goto(p, "backoff", j) /\ ran' = ran /\ p \notin ran
    BY <1>2 DEF Attempted
  <2>2. IsJob(j)
    BY DEF RetryInv, Shapes, IsJob
  <2> QED BY <2>1, <2>2, GotoKeeps
<1> QED BY <1>1, <1>2

\* A process that is not waiting for an answer has nothing executed.
LEMMA NotWaiting ==
  ASSUME RetryInv, NEW p \in Procs, pc[p] # "command"
  PROVE  p \notin ran
BY DEF RetryInv, RanAreWaiting

LEMMA RetryInit == Init => RetryInv
<1> SUFFICES ASSUME Init PROVE RetryInv
  OBVIOUS
<1>1. Shapes
  BY DEF Init, Shapes, IsJob, NoJob
<1> QED BY <1>1 DEF Init, RetryInv, RanAreWaiting, RepliesAreLibvirts

LEMMA OpenedKeeps ==
  ASSUME RetryInv, NEW p \in Procs, Opened(p)
  PROVE  RetryInv'
<1> DEFINE j == [job[p] EXCEPT !.at = 0, !.reply = Reply(Step(p).cmd)]
<1>1. Goto(p, "command", j) /\ ran' = ran \cup {p}
  BY DEF Opened
<1>2. IsJob(j) /\ j.reply = Reply(Step(p).cmd)
  BY DEF RetryInv, Shapes, IsJob
<1> HIDE DEF j
<1>3. Shapes'
  BY <1>1, <1>2 DEF RetryInv, Shapes, Goto
<1>4. RanAreWaiting'
  BY <1>1 DEF RetryInv, Shapes, RanAreWaiting, Goto
<1>5. RepliesAreLibvirts'
  BY <1>1, <1>2, ReplyNotTransient
  DEF RetryInv, Shapes, RepliesAreLibvirts, Goto, IsTransientConnectFailure
<1> QED BY <1>3, <1>4, <1>5 DEF RetryInv

LEMMA StutterKeeps ==
  ASSUME RetryInv, UNCHANGED <<pc, job, ran>>
  PROVE  RetryInv'
BY DEF RetryInv, Shapes, RanAreWaiting, RepliesAreLibvirts, IsTransientConnectFailure

LEMMA RetryStep == RetryInv /\ [Next]_vars => RetryInv'
<1> SUFFICES ASSUME RetryInv, [Next]_vars PROVE RetryInv'
  OBVIOUS
<1>1. ASSUME NEW p \in Procs, NEW req, Begin(p, req) PROVE RetryInv'
  BY <1>1, JobIsJob, ProceedKeeps DEF Begin
<1>2. ASSUME NEW p \in Procs, Attempt(p) PROVE RetryInv'
  <2> DEFINE j == [job[p] EXCEPT !.at = now + Seconds(5)]
  <2>1. IsJob(job[p]) /\ IsJob(j)
    BY DEF RetryInv, Shapes, IsJob
  <2>2. Goto(p, "opening", job[p]) \/ Goto(p, "socket", j)
    BY <1>2 DEF Attempt
  <2>3. ran' = ran /\ p \notin ran
    BY <1>2, NotWaiting DEF Attempt
  <2> QED BY <2>1, <2>2, <2>3, GotoKeeps
<1>3. ASSUME NEW p \in Procs, Refused(p) PROVE RetryInv'
  BY <1>3, NotWaiting, AttemptedKeeps DEF Refused
<1>4. ASSUME NEW p \in Procs, SocketAppears(p) PROVE RetryInv'
  <2>1. IsJob(job[p])
    BY DEF RetryInv, Shapes
  <2> QED BY <1>4, <2>1, NotWaiting, GotoKeeps DEF SocketAppears
<1>5. ASSUME NEW p \in Procs, SocketTimeout(p) PROVE RetryInv'
  BY <1>5, NotWaiting, AttemptedKeeps DEF SocketTimeout
<1>6. ASSUME NEW p \in Procs, Opened(p) PROVE RetryInv'
  BY <1>6, OpenedKeeps
<1>7. ASSUME NEW p \in Procs, Answered(p) PROVE RetryInv'
  <2>1. ~IsTransientConnectFailure(job[p].reply)
    BY <1>7 DEF Answered, RetryInv, RepliesAreLibvirts
  <2> QED BY <1>7, <2>1, AttemptedKeeps DEF Answered
<1>8. ASSUME NEW p \in Procs, Dropped(p) PROVE RetryInv'
  <2>1. p \notin ran \/ ~IsTransientConnectFailure(Failure(pc[p] = "opening", "end of file"))
    BY NotWaiting DEF IsTransientConnectFailure, Failure, Output
  <2> QED BY <1>8, <2>1, AttemptedKeeps DEF Dropped
<1>9. ASSUME NEW p \in Procs, Retry(p) PROVE RetryInv'
  <2>1. IsJob(job[p])
    BY DEF RetryInv, Shapes
  <2> QED BY <1>9, <2>1, NotWaiting, GotoKeeps DEF Retry
<1>10. ASSUME NEW p \in Procs, Poll(p) PROVE RetryInv'
  <2> DEFINE i == [job[p] EXCEPT !.at = now + IF now < vm.net THEN Step(p).test ELSE 1]
  <2>1. IsJob(i)
    BY DEF RetryInv, Shapes, IsJob
  <2>2. \/ Fail(p)
        \/ Proceed(p, Job(job[p].req, Tail(job[p].todo), job[p].version))
        \/ Goto(p, "test", i) /\ ran' = ran
    BY <1>10 DEF Poll
  <2>3. p \notin ran
    BY <1>10, NotWaiting DEF Poll
  <2> QED BY <2>1, <2>2, <2>3, FailKeeps, ProceedKeeps, JobIsJob, GotoKeeps
<1>11. ASSUME NEW p \in Procs, TestEnds(p) PROVE RetryInv'
  <2> DEFINE i == [job[p] EXCEPT !.at = now + Step(p).poll]
  <2>1. IsJob(i)
    BY DEF RetryInv, Shapes, IsJob
  <2>2. \/ Proceed(p, Job(job[p].req, Tail(job[p].todo), job[p].version))
        \/ Goto(p, "poll", i) /\ ran' = ran
    BY <1>11 DEF TestEnds
  <2>3. p \notin ran
    BY <1>11, NotWaiting DEF TestEnds
  <2> QED BY <2>1, <2>2, <2>3, ProceedKeeps, JobIsJob, GotoKeeps
<1>12. ASSUME NEW p \in Procs, Session(p) PROVE RetryInv'
  BY <1>12, FailKeeps, ProceedKeeps, JobIsJob DEF Session
<1>13. CASE IdleExit \/ Terminate \/ Exited \/ Listens \/ PowerOff \/ Advance
  BY <1>13, StutterKeeps DEF IdleExit, Terminate, Exit, Exited, Listens, PowerOff, Advance
<1>14. CASE UNCHANGED vars
  BY <1>14, StutterKeeps DEF vars
<1> QED BY <1>1, <1>2, <1>3, <1>4, <1>5, <1>6, <1>7, <1>8, <1>9, <1>10, <1>11,
           <1>12, <1>13, <1>14 DEF Next

\* The claim of virsh.rs that a retry is always safe: a process that waits to
\* run virsh again has had nothing executed by the run before.
THEOREM RetrySafe == Spec => []RetriesOnlyUnstarted
<1>1. RetryInv => RetriesOnlyUnstarted
  BY DEF RetryInv, RanAreWaiting, RetriesOnlyUnstarted
<1> QED BY <1>1, RetryInit, RetryStep, PTL DEF Spec
=============================================================================
