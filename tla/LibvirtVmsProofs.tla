-------------------------- MODULE LibvirtVmsProofs ---------------------------
(***************************************************************************)
(* Proofs about LibvirtVms, for any number of processes, images and VMs:   *)
(* types, the cache of base disks implements AtomicCache, a prune spares   *)
(* the backing file of every disk it has listed, and what commands that    *)
(* are given one after the other keep.                                     *)
(***************************************************************************)
EXTENDS LibvirtVms, TLAPS

-----------------------------------------------------------------------------
(***************************************************************************)
(* Type correctness.  TypeOK is not inductive: that a step keeps it        *)
(* depends on what the label of a process says of its local variables      *)
(* (LocalOK), a base disk's key being known once the image was inspected,  *)
(* say.                                                                    *)
(***************************************************************************)

Basing == {"find", "check", "rm_stale", "mktemp", "refresh"} \cup Installing \cup Cloning
WithVm == Cloning \cup
  {"create", "define", "start", "start_state", "stop_state", "stop", "rm_state",
   "rm_info", "rm_destroy", "rm_disk", "rm_undefine", "rmall_destroy",
   "rmall_disk", "rmall_undefine"}

\* What label l says of the local variables j of a process.
LocalOK(l, j) ==
  /\ l \in Basing \cup {"create"} => j.key \in Keys
  /\ l \in Basing \cup {"inspect"} => j.cmd \in {"run", "to-base-disk"}
  /\ l \in Installing => j.tmp \in Temps
  /\ l \in WithVm => j.vm \in VMs
  /\ j.cmd = "run" => j.vm \in VMs
  /\ l \in {"prune_check", "prune_delete"} => j.cand \in Volumes

TypeInv == TypeOK /\ \A p \in Procs : LocalOK(pc[p], job[p])

\* p goes to label l with local variables j; the others do not move.
Moves(p, l, j) ==
  /\ l \in Labels
  /\ j \in Jobs
  /\ LocalOK(l, j)
  /\ pc' = [pc EXCEPT ![p] = l]
  /\ job' = [job EXCEPT ![p] = j]

LocalStep(p) == \E l, j : Moves(p, l, j)

\* A LocalStep keeps the types of pc and job and the facts of LocalOK.
LEMMA LocalStepType ==
  ASSUME TypeInv, NEW p \in Procs, LocalStep(p)
  PROVE  /\ pc' \in [Procs -> Labels]
         /\ job' \in [Procs -> Jobs]
         /\ \A q \in Procs : LocalOK(pc'[q], job'[q])
<1>1. PICK l, j : Moves(p, l, j) BY DEF LocalStep
<1>2. pc \in [Procs -> Labels] /\ job \in [Procs -> Jobs]
  BY DEF TypeInv, TypeOK
<1>3. pc' \in [Procs -> Labels] BY <1>1, <1>2 DEF Moves
<1>4. job' \in [Procs -> Jobs] BY <1>1, <1>2 DEF Moves
<1>5. /\ pc'[p] = l
      /\ \A q \in Procs : q # p => pc'[q] = pc[q]
  BY <1>1, <1>2 DEF Moves
<1>6. /\ job'[p] = j
      /\ \A q \in Procs : q # p => job'[q] = job[q]
  BY <1>1, <1>2 DEF Moves
<1>7. ASSUME NEW q \in Procs PROVE LocalOK(pc'[q], job'[q])
  BY <1>1, <1>5, <1>6 DEF Moves, TypeInv
<1> QED BY <1>3, <1>4, <1>7

\* The locals of an idle process are typed.
LEMMA NoJobType == NoJob \in Jobs
BY DEF NoJob, Jobs, DomStates

-----------------------------------------------------------------------------
(* The labels and the local variables.                                     *)

\* A command that ends, goes on, or stays where it is makes a LocalStep.
LEMMA ReturnLocal ==
  ASSUME NEW p \in Procs, Return(p)
  PROVE  LocalStep(p)
<1>1. LocalOK("idle", NoJob)
  BY DEF LocalOK, NoJob, Basing, Installing, Cloning, WithVm
<1>2. Moves(p, "idle", NoJob) BY <1>1, NoJobType DEF Moves, Return, Goto, Labels
<1> QED BY <1>2 DEF LocalStep

\* It goes on with the locals it has.
LEMMA GotoLocal ==
  ASSUME TypeInv, NEW p \in Procs, NEW l \in Labels, Goto(p, l), UNCHANGED job,
         LocalOK(l, job[p])
  PROVE  LocalStep(p)
<1>1. job' = [job EXCEPT ![p] = job[p]] /\ job[p] \in Jobs BY DEF TypeInv, TypeOK
<1> QED BY <1>1 DEF LocalStep, Moves, Goto

\* It stays where it is.
LEMMA StayLocal ==
  ASSUME TypeInv, NEW p \in Procs, UNCHANGED <<pc, job>>
  PROVE  LocalStep(p)
<1>1. pc' = [pc EXCEPT ![p] = pc[p]] /\ job' = [job EXCEPT ![p] = job[p]]
  BY DEF TypeInv, TypeOK
<1>2. pc[p] \in Labels /\ job[p] \in Jobs /\ LocalOK(pc[p], job[p])
  BY DEF TypeInv, TypeOK
<1> QED BY <1>1, <1>2 DEF LocalStep, Moves

\* So does one that has got its base disk.
LEMMA WithBaseLocal ==
  ASSUME TypeInv, NEW p \in Procs, pc[p] \in {"check", "refresh"}, WithBase(p)
  PROVE  LocalStep(p)
<1>1. CASE job[p].cmd = "to-base-disk"
  <2>1. Return(p) BY <1>1 DEF WithBase
  <2> QED BY <2>1, ReturnLocal
<1>2. CASE job[p].cmd # "to-base-disk" /\ job[p].transient
  <2>1. Goto(p, "create") /\ UNCHANGED job BY <1>2 DEF WithBase
  <2>2. LocalOK("create", job[p])
    BY <1>2
    DEF TypeInv, LocalOK, Basing, Installing, Cloning, WithVm
  <2> QED BY <2>1, <2>2, GotoLocal DEF Labels
<1>3. CASE job[p].cmd # "to-base-disk" /\ ~job[p].transient
  <2>1. Goto(p, "clone_refresh") /\ UNCHANGED job BY <1>3 DEF WithBase
  <2>2. LocalOK("clone_refresh", job[p])
    BY <1>3
    DEF TypeInv, LocalOK, Basing, Installing, Cloning, WithVm
  <2> QED BY <2>1, <2>2, GotoLocal DEF Labels
<1> QED BY <1>1, <1>2, <1>3

\* Inspect: the key is known from here on.
LEMMA InspectLocal ==
  ASSUME TypeInv, NEW p \in Procs, Inspect(p)
  PROVE  LocalStep(p)
<1> DEFINE j == [job[p] EXCEPT !.key = tag]
<1>0. tag \in Keys /\ job[p] \in Jobs /\ LocalOK("inspect", job[p])
  BY DEF TypeInv, TypeOK, Inspect
<1>1. j \in Jobs BY <1>0 DEF Jobs
<1>2. LocalOK("find", j)
  <2>1. j.key \in Keys /\ j.cmd = job[p].cmd /\ j.vm = job[p].vm BY <1>0 DEF Jobs
  <2> QED BY <1>0, <2>1 DEF LocalOK, Basing, Installing, Cloning, WithVm
<1>3. Moves(p, "find", j) BY <1>1, <1>2 DEF Moves, Inspect, Goto, Labels
<1> QED BY <1>3 DEF LocalStep

\* CheckBase and RefreshPool end in WithBase.
LEMMA CheckBaseLocal ==
  ASSUME TypeInv, NEW p \in Procs, CheckBase(p)
  PROVE  LocalStep(p)
BY ReturnLocal, GotoLocal, StayLocal, WithBaseLocal
DEF CheckBase, TypeInv, LocalOK, Basing, Installing, Cloning, WithVm, Labels

\* CreateTemp: the temporary file is known from here on.
LEMMA CreateTempLocal ==
  ASSUME TypeInv, NEW p \in Procs, CreateTemp(p)
  PROVE  LocalStep(p)
<1>1. CASE Return(p) BY <1>1, ReturnLocal
<1>2. CASE ~Return(p)
  <2>1. PICK t \in Temps : job' = [job EXCEPT ![p] = [job[p] EXCEPT !.tmp = t]]
    BY <1>2 DEF CreateTemp
  <2> DEFINE j == [job[p] EXCEPT !.tmp = t]
  <2>0. job[p] \in Jobs /\ LocalOK("mktemp", job[p]) BY DEF TypeInv, TypeOK, CreateTemp
  <2>2. j \in Jobs BY <2>0 DEF Jobs
  <2>3. LocalOK("install", j)
    <3>1. /\ j.tmp \in Temps /\ j.key = job[p].key
          /\ j.cmd = job[p].cmd /\ j.vm = job[p].vm
      BY <2>0 DEF Jobs
    <3> QED BY <2>0, <3>1 DEF LocalOK, Basing, Installing, Cloning, WithVm
  <2>4. Moves(p, "install", j)
    BY <1>2, <2>1, <2>2, <2>3 DEF Moves, CreateTemp, Goto, Labels
  <2> QED BY <2>4 DEF LocalStep
<1> QED BY <1>1, <1>2

\* Persist: the temporary file is forgotten.
LEMMA PersistLocal ==
  ASSUME TypeInv, NEW p \in Procs, Persist(p)
  PROVE  LocalStep(p)
<1>1. CASE Return(p) BY <1>1, ReturnLocal
<1>2. CASE ~Return(p)
  <2> DEFINE j == [job[p] EXCEPT !.tmp = NoTemp]
  <2>0. job[p] \in Jobs /\ LocalOK("persist", job[p]) BY DEF TypeInv, TypeOK, Persist
  <2>1. j \in Jobs BY <2>0 DEF Jobs
  <2>2. LocalOK("refresh", j)
    <3>1. j.key = job[p].key /\ j.cmd = job[p].cmd /\ j.vm = job[p].vm
      BY <2>0 DEF Jobs
    <3> QED BY <2>0, <3>1 DEF LocalOK, Basing, Installing, Cloning, WithVm
  <2>3. Moves(p, "refresh", j) BY <1>2, <2>1, <2>2 DEF Moves, Persist, Goto, Labels
  <2> QED BY <2>3 DEF LocalStep
<1> QED BY <1>1, <1>2

\* RefreshPool: the new base disk is in place.
LEMMA RefreshPoolLocal ==
  ASSUME TypeInv, NEW p \in Procs, RefreshPool(p)
  PROVE  LocalStep(p)
BY ReturnLocal, GotoLocal, StayLocal, WithBaseLocal
DEF RefreshPool, TypeInv, LocalOK, Basing, Installing, Cloning, WithVm, Labels

\* The prune: the candidates, the disks, and the disks still to ask.
LEMMA PruneListBasesLocal ==
  ASSUME TypeInv, NEW p \in Procs, PruneListBases(p)
  PROVE  LocalStep(p)
<1> DEFINE C ==
      {BaseVol(k) : k \in {b \in Keys : base[b] # 0}}
        \cup {TempVol(t) : t \in {u \in Temps : temp[u] # 0}}
        \cup {VmVol(v) : v \in {w \in BaseNamed : HasDisk(w)}}
<1>0. C \subseteq Volumes BY BaseNamedAssumption DEF Volumes
<1>1. job' = [job EXCEPT ![p] = [job[p] EXCEPT !.cands = C]] BY DEF PruneListBases
<1> HIDE DEF C
<1> DEFINE j == [job[p] EXCEPT !.cands = C]
<1>2. job[p] \in Jobs /\ LocalOK("prune_bases", job[p])
  BY DEF TypeInv, TypeOK, PruneListBases
<1>3. j \in Jobs /\ LocalOK("prune_vols", j)
  <2>1. j \in Jobs BY <1>0, <1>2 DEF Jobs
  <2>2. j.cmd = job[p].cmd /\ j.vm = job[p].vm BY <1>2 DEF Jobs
  <2> QED BY <1>2, <2>1, <2>2 DEF LocalOK, Basing, Installing, Cloning, WithVm
<1>4. Moves(p, "prune_vols", j)
  BY <1>1, <1>3
  DEF Moves, PruneListBases, Goto, Labels
<1> QED BY <1>4 DEF LocalStep

\* PruneListVolumes: the disks to ask about every candidate.
LEMMA PruneListVolumesLocal ==
  ASSUME TypeInv, NEW p \in Procs, PruneListVolumes(p)
  PROVE  LocalStep(p)
<1> DEFINE j == [job[p] EXCEPT !.vols = {v \in VMs \ BaseNamed : HasDisk(v)}]
<1>1. j \in Jobs BY DEF TypeInv, TypeOK, Jobs
<1>2. LocalOK("prune_next", j)
  BY DEF TypeInv, TypeOK, Jobs, PruneListVolumes, LocalOK, Basing, Installing, Cloning,
      WithVm
<1>3. Moves(p, "prune_next", j)
  BY <1>1, <1>2
  DEF Moves, PruneListVolumes, Goto, Labels
<1> QED BY <1>3 DEF LocalStep

\* PruneNext: a candidate, and all disks to ask.
LEMMA PruneNextLocal ==
  ASSUME TypeInv, NEW p \in Procs, PruneNext(p)
  PROVE  LocalStep(p)
<1>1. CASE Return(p) BY <1>1, ReturnLocal
<1>2. CASE ~Return(p)
  <2>1. PICK c \in job[p].cands :
          job' = [job EXCEPT ![p] = [job[p] EXCEPT !.cands = @ \ {c}, !.cand = c,
                                                   !.todo = job[p].vols]]
    BY <1>2 DEF PruneNext
  <2> DEFINE j == [job[p] EXCEPT !.cands = @ \ {c}, !.cand = c, !.todo = job[p].vols]
  <2>5. c \in Volumes /\ job[p] \in Jobs BY DEF TypeInv, TypeOK, Jobs
  <2>2. j \in Jobs /\ c \in Volumes BY <2>5 DEF Jobs
  <2>3. LocalOK("prune_check", j)
    BY <2>2
    DEF TypeInv, TypeOK, Jobs, PruneNext, LocalOK, Basing, Installing, Cloning,
        WithVm
  <2>4. Moves(p, "prune_check", j)
    BY <1>2, <2>1, <2>2, <2>3 DEF Moves, PruneNext, Goto, Labels
  <2> QED BY <2>4 DEF LocalStep
<1> QED BY <1>1, <1>2

\* PruneCheck: one disk less to ask.
LEMMA PruneCheckLocal ==
  ASSUME TypeInv, NEW p \in Procs, PruneCheck(p)
  PROVE  LocalStep(p)
<1>1. CASE UNCHANGED job
  <2>1. CASE Goto(p, "prune_next")
    BY <1>1, <2>1, GotoLocal
    DEF TypeInv, LocalOK, Basing, Installing, Cloning, WithVm, Labels, PruneCheck
  <2>2. CASE Goto(p, "prune_delete")
    BY <1>1, <2>2, GotoLocal
    DEF TypeInv, LocalOK, Basing, Installing, Cloning, WithVm, Labels, PruneCheck
  <2>3. CASE UNCHANGED pc BY <1>1, <2>3, StayLocal
  <2> QED BY <1>1, <2>1, <2>2, <2>3 DEF PruneCheck
<1>2. CASE ~UNCHANGED job
  <2>1. PICK v \in job[p].todo :
          job' = [job EXCEPT ![p] = [job[p] EXCEPT !.todo = @ \ {v}]]
    BY <1>2 DEF PruneCheck
  <2> DEFINE j == [job[p] EXCEPT !.todo = @ \ {v}]
  <2>2. j \in Jobs BY DEF TypeInv, TypeOK, Jobs
  <2>3. LocalOK("prune_check", j)
    BY DEF TypeInv, TypeOK, Jobs, PruneCheck, LocalOK, Basing, Installing, Cloning,
        WithVm
  <2>4. pc' = [pc EXCEPT ![p] = "prune_check"]
    BY <1>2 DEF PruneCheck, TypeInv, TypeOK
  <2>5. Moves(p, "prune_check", j) BY <2>1, <2>2, <2>3, <2>4 DEF Moves, Labels
  <2> QED BY <2>5 DEF LocalStep
<1> QED BY <1>1, <1>2

\* The start of a command: its VM is known if it has one.
LEMMA BeginLocal ==
  ASSUME TypeInv, NEW p \in Procs, NEW cmd \in Commands, NEW v, NEW tr \in BOOLEAN,
         NEW l \in {"inspect", "rm_state", "rmall_list", "start_state", "stop_state",
                    "prune_bases"},
         cmd = "run" \/ l \in {"rm_state", "start_state", "stop_state"} => v \in VMs,
         l = "inspect" => cmd \in {"run", "to-base-disk"},
         v \in VMs \cup {NoKey}, Begin(p, cmd, v, tr, l)
  PROVE  LocalStep(p)
<1> DEFINE j == [NoJob EXCEPT !.cmd = cmd, !.vm = v, !.transient = tr]
<1>1. j \in Jobs BY NoJobType, CommandsAssumption DEF Jobs
<1>2. LocalOK(l, j)
  BY NoJobType DEF NoJob, Jobs, LocalOK, Basing, Installing, Cloning, WithVm
<1>3. Moves(p, l, j) BY <1>1, <1>2 DEF Moves, Begin, Goto, Labels
<1> QED BY <1>3 DEF LocalStep

\* The removal of a domain, in rm or in run.
LEMMA RmDoneLocal ==
  ASSUME TypeInv, NEW p \in Procs,
         pc[p] \in {"rm_state", "rm_destroy", "rm_undefine"}, RmDone(p)
  PROVE  LocalStep(p)
BY ReturnLocal, GotoLocal
DEF RmDone, TypeInv, LocalOK, Basing, Installing, Cloning, WithVm, Labels

\* RmState and RmInfo keep what they read of the domain.
LEMMA RmStateLocal ==
  ASSUME TypeInv, NEW p \in Procs, RmState(p)
  PROVE  LocalStep(p)
<1>1. CASE RmDone(p) BY <1>1, RmDoneLocal DEF RmState
<1>2. CASE ~RmDone(p)
  <2> DEFINE j == [job[p] EXCEPT !.state = dom[job[p].vm].state]
  <2>1. job[p].vm \in VMs
    BY DEF RmState, TypeInv, LocalOK, Basing, Installing, Cloning, WithVm
  <2>2. dom[job[p].vm].state \in DomStates BY <2>1 DEF TypeInv, TypeOK, Domain
  <2>3. j \in Jobs BY <2>2 DEF TypeInv, TypeOK, Jobs
  <2>4. LocalOK("rm_info", j)
    BY DEF TypeInv, TypeOK, Jobs, RmState, LocalOK, Basing, Installing, Cloning, WithVm
  <2>5. Moves(p, "rm_info", j) BY <1>2, <2>3, <2>4 DEF Moves, RmState, Goto, Labels
  <2> QED BY <2>5 DEF LocalStep
<1> QED BY <1>1, <1>2

\* RmInfo: whether to destroy comes from the state read before.
LEMMA RmInfoLocal ==
  ASSUME TypeInv, NEW p \in Procs, RmInfo(p)
  PROVE  LocalStep(p)
<1>1. CASE Return(p) BY <1>1, ReturnLocal
<1>2. CASE ~Return(p)
  <2> DEFINE d == dom[job[p].vm]
             j == [job[p] EXCEPT !.persistent = d.persistent, !.base = d.base]
             l == IF job[p].state = "running" THEN "rm_destroy" ELSE "rm_disk"
  <2>1. job[p].vm \in VMs
    BY DEF RmInfo, TypeInv, LocalOK, Basing, Installing, Cloning, WithVm
  <2>2. d \in Domain BY <2>1 DEF TypeInv, TypeOK
  <2>9. job[p] \in Jobs BY DEF TypeInv, TypeOK
  <2>8. d.persistent \in BOOLEAN /\ d.base \in Keys \cup {NoKey} BY <2>2 DEF Domain
  <2> HIDE DEF d
  <2>3. j \in Jobs BY <2>8, <2>9 DEF Jobs
  <2> USE DEF d
  <2>4. LocalOK(l, j)
    BY <2>1
    DEF TypeInv, TypeOK, Jobs, RmInfo, LocalOK, Basing, Installing, Cloning, WithVm
  <2>5. Moves(p, l, j) BY <1>2, <2>3, <2>4 DEF Moves, RmInfo, Goto, Labels
  <2> QED BY <2>5 DEF LocalStep
<1> QED BY <1>1, <1>2

\* RmDestroy: the removal ends here for a transient domain.
LEMMA RmDestroyLocal ==
  ASSUME TypeInv, NEW p \in Procs, RmDestroy(p)
  PROVE  LocalStep(p)
BY ReturnLocal, GotoLocal, StayLocal, RmDoneLocal
DEF RmDestroy, TypeInv, LocalOK, Basing, Installing, Cloning, WithVm, Labels

\* RmUndefine: the last step of a removal.
LEMMA RmUndefineLocal ==
  ASSUME TypeInv, NEW p \in Procs, RmUndefine(p)
  PROVE  LocalStep(p)
BY ReturnLocal, GotoLocal, StayLocal, RmDoneLocal
DEF RmUndefine, TypeInv, LocalOK, Basing, Installing, Cloning, WithVm, Labels

\* rm-all keeps the list of the domains, then what it read of each.
LEMMA RmAllListLocal ==
  ASSUME TypeInv, NEW p \in Procs, RmAllList(p)
  PROVE  LocalStep(p)
<1> DEFINE j == [job[p] EXCEPT !.todo = {v \in VMs : Exists(v)}]
<1>1. j \in Jobs BY DEF TypeInv, TypeOK, Jobs
<1>2. LocalOK("rmall_info", j)
  BY DEF TypeInv, TypeOK, Jobs, RmAllList, LocalOK, Basing, Installing, Cloning, WithVm
<1>3. Moves(p, "rmall_info", j) BY <1>1, <1>2 DEF Moves, RmAllList, Goto, Labels
<1> QED BY <1>3 DEF LocalStep

\* RmAllInfo: one domain of the list after another.
LEMMA RmAllInfoLocal ==
  ASSUME TypeInv, NEW p \in Procs, RmAllInfo(p)
  PROVE  LocalStep(p)
<1>1. CASE UNCHANGED job /\ Goto(p, "rmall_next")
  BY <1>1, GotoLocal
  DEF RmAllInfo, TypeInv, LocalOK, Basing, Installing, Cloning, WithVm, Labels
<1>2. CASE ~(UNCHANGED job /\ Goto(p, "rmall_next"))
  <2> DEFINE E(v) == [vm |-> v, state |-> dom[v].state, base |-> dom[v].base]
             j(v) == [job[p] EXCEPT !.todo = @ \ {v},
                                    !.snap = IF Exists(v) THEN @ \cup {E(v)} ELSE @]
  <2>1. PICK v \in job[p].todo : job' = [job EXCEPT ![p] = j(v)] /\ UNCHANGED pc
    BY <1>2 DEF RmAllInfo
  <2>2. v \in VMs BY DEF TypeInv, TypeOK, Jobs
  <2>3. E(v) \in Listed BY <2>2 DEF TypeInv, TypeOK, Domain, Listed
  <2> HIDE DEF E
  <2>9. job[p] \in Jobs BY DEF TypeInv, TypeOK
  <2>8. (IF Exists(v) THEN job[p].snap \cup {E(v)} ELSE job[p].snap) \in SUBSET Listed
    BY <2>3, <2>9 DEF Jobs
  <2>4. j(v) \in Jobs BY <2>8, <2>9 DEF Jobs
  <2>5. LocalOK("rmall_info", j(v))
    BY DEF TypeInv, TypeOK, Jobs, RmAllInfo, LocalOK, Basing, Installing, Cloning,
        WithVm
  <2>6. pc' = [pc EXCEPT ![p] = "rmall_info"]
    BY <2>1 DEF RmAllInfo, TypeInv, TypeOK
  <2>7. Moves(p, "rmall_info", j(v)) BY <2>1, <2>4, <2>5, <2>6 DEF Moves, Labels
  <2> QED BY <2>7 DEF LocalStep
<1> QED BY <1>1, <1>2

\* RmAllNext: the domain to remove next.
LEMMA RmAllNextLocal ==
  ASSUME TypeInv, NEW p \in Procs, RmAllNext(p)
  PROVE  LocalStep(p)
<1>1. CASE Return(p) BY <1>1, ReturnLocal
<1>2. CASE ~Return(p)
  <2> DEFINE j(e) == [job[p] EXCEPT !.snap = @ \ {e}, !.vm = e.vm, !.base = e.base]
  <2>1. PICK e \in job[p].snap :
          /\ job' = [job EXCEPT ![p] = j(e)]
          /\ \/ Goto(p, "rmall_destroy") \/ Goto(p, "rmall_disk") \/ UNCHANGED pc
    BY <1>2 DEF RmAllNext
  <2>2. e \in Listed /\ job[p] \in Jobs BY DEF TypeInv, TypeOK, Jobs
  <2>3. j(e) \in Jobs BY <2>2 DEF Jobs, Listed
  <2>4. PICK l \in {"rmall_destroy", "rmall_disk", "rmall_next"} :
          pc' = [pc EXCEPT ![p] = l]
    <3>1. pc \in [Procs -> Labels] /\ pc[p] = "rmall_next"
      BY DEF TypeInv, TypeOK, RmAllNext
    <3>2. CASE UNCHANGED pc BY <3>1, <3>2
    <3>3. CASE ~UNCHANGED pc BY <2>1, <3>3 DEF Goto
    <3> QED BY <3>2, <3>3
  <2>5. LocalOK(l, j(e))
    <3>1. j(e).vm \in VMs BY <2>2 DEF Jobs, Listed
    <3> QED BY <3>1 DEF LocalOK, Basing, Installing, Cloning, WithVm
  <2>6. Moves(p, l, j(e)) BY <2>1, <2>3, <2>4, <2>5 DEF Moves, Labels
  <2> QED BY <2>6 DEF LocalStep
<1> QED BY <1>1, <1>2

\* The actions that only go on to another label.
LEMMA PlainLocal ==
  ASSUME TypeInv, NEW p \in Procs,
         \/ FindBase(p) \/ RemoveStale(p) \/ Install(p) \/ Validate(p)
         \/ CloneRefresh(p) \/ CloneVolDelete(p) \/ CloneRemoveFile(p) \/ CloneCreate(p)
         \/ PruneDelete(p) \/ GiveUp(p) \/ Create(p) \/ Define(p) \/ Start(p)
         \/ RmDisk(p) \/ RmAllDestroy(p) \/ RmAllDisk(p) \/ RmAllUndefine(p)
         \/ StartState(p) \/ StopState(p) \/ Stop(p) \/ Crash(p)
  PROVE  LocalStep(p)
<1> USE ReturnLocal, GotoLocal
    DEF TypeInv, LocalOK, Basing, Installing, Cloning, WithVm, Labels
<1>1. CASE FindBase(p) \/ RemoveStale(p) BY <1>1 DEF FindBase, RemoveStale
<1>2. CASE Install(p) \/ Validate(p) BY <1>2 DEF Install, Validate
<1>3. CASE CloneRefresh(p) \/ CloneVolDelete(p) BY <1>3 DEF CloneRefresh, CloneVolDelete
<1>4. CASE CloneRemoveFile(p) \/ CloneCreate(p) BY <1>4 DEF CloneRemoveFile, CloneCreate
<1>5. CASE PruneDelete(p) \/ GiveUp(p) BY <1>5 DEF PruneDelete, GiveUp
<1>6. CASE Create(p) \/ Define(p) \/ Start(p) BY <1>6 DEF Create, Define, Start
<1>7. CASE RmDisk(p) \/ RmAllDisk(p) BY <1>7 DEF RmDisk, RmAllDisk
<1>8. CASE RmAllDestroy(p) \/ RmAllUndefine(p) BY <1>8 DEF RmAllDestroy, RmAllUndefine
<1>9. CASE StartState(p) \/ StopState(p) BY <1>9 DEF StartState, StopState
<1>10. CASE Stop(p) \/ Crash(p) BY <1>10 DEF Stop, Crash
<1> QED BY <1>1, <1>2, <1>3, <1>4, <1>5, <1>6, <1>7, <1>8, <1>9, <1>10

\* The actions that start a command.
LEMMA BeginsLocal ==
  ASSUME TypeInv, NEW p \in Procs,
         \/ \E v \in VMs : \/ BeginRun(p, v) \/ BeginRm(p, v)
                           \/ BeginStart(p, v) \/ BeginStop(p, v)
         \/ BeginToBaseDisk(p) \/ BeginRmAll(p) \/ BeginPrune(p)
  PROVE  LocalStep(p)
<1>1. CASE \E v \in VMs : \/ BeginRun(p, v) \/ BeginRm(p, v)
                          \/ BeginStart(p, v) \/ BeginStop(p, v)
  BY <1>1, BeginLocal, CommandsAssumption
  DEF BeginRun, BeginRm, BeginStart, BeginStop, Begin
<1>2. CASE BeginToBaseDisk(p) \/ BeginRmAll(p) \/ BeginPrune(p)
  BY <1>2, BeginLocal DEF BeginToBaseDisk, BeginRmAll, BeginPrune, Begin
<1> QED BY <1>1, <1>2

\* Every step of a process is a LocalStep.
LEMMA ProcStepLocal ==
  ASSUME TypeInv, NEW p \in Procs, ProcStep(p)
  PROVE  LocalStep(p)
BY PlainLocal, BeginsLocal, InspectLocal, CheckBaseLocal, CreateTempLocal, PersistLocal,
   RefreshPoolLocal, PruneListBasesLocal, PruneListVolumesLocal, PruneNextLocal,
   PruneCheckLocal, RmStateLocal, RmInfoLocal, RmDestroyLocal, RmUndefineLocal,
   RmAllListLocal, RmAllInfoLocal, RmAllNextLocal
DEF ProcStep, CacheStep

-----------------------------------------------------------------------------
(* The pool and the domains.                                               *)

\* The operations of StoragePool keep its type invariant.
LEMMA PoolRefreshPool ==
  ASSUME PoolTypeOK, UNCHANGED <<base, temp, vmdisk, meta, nextIno, pinned>>, PoolRefresh
  PROVE  PoolTypeOK'
BY DEF PoolRefresh, PoolTypeOK, Volumes

\* Removing a base disk.
LEMMA RemoveBasePool ==
  ASSUME PoolTypeOK, NEW k, RemoveBase(k),
         UNCHANGED <<temp, vmdisk, known, meta, nextIno, pinned>>
  PROVE  PoolTypeOK'
BY DEF RemoveBase, PoolTypeOK

\* Removing a temporary file.
LEMMA RemoveTempPool ==
  ASSUME PoolTypeOK, NEW t, RemoveTemp(t),
         UNCHANGED <<base, vmdisk, known, meta, nextIno, pinned>>
  PROVE  PoolTypeOK'
BY DEF RemoveTemp, PoolTypeOK

\* Removing a VM disk.
LEMMA RemoveVmDiskPool ==
  ASSUME PoolTypeOK, NEW v, RemoveVmDisk(v),
         UNCHANGED <<base, temp, known, meta, nextIno>>
  PROVE  PoolTypeOK'
BY DEF RemoveVmDisk, PoolTypeOK

\* vol-delete.
LEMMA VolDeletePool ==
  ASSUME PoolTypeOK, NEW vol, VolDelete(vol)
  PROVE  PoolTypeOK'
BY DEF VolDelete, PoolTypeOK, RemoveBase, RemoveTemp, RemoveVmDisk

\* vol-create-as.
LEMMA VolCreateAsPool ==
  ASSUME PoolTypeOK, NEW v \in VMs, NEW k \in Keys, VolCreateAs(v, k)
  PROVE  PoolTypeOK'
BY DEF VolCreateAs, PoolTypeOK, CanCreateVol, Volumes, Overlay, VmVol

\* So do the creation of a temporary file and the installation in one.
LEMMA CreateTempPool ==
  ASSUME TypeInv, NEW p \in Procs, CreateTemp(p)
  PROVE  PoolTypeOK'
<1>0. PoolTypeOK BY DEF TypeInv, TypeOK
<1>1. CASE UNCHANGED <<temp, nextIno>> BY <1>0, <1>1 DEF CreateTemp, PoolTypeOK
<1>2. CASE ~UNCHANGED <<temp, nextIno>>
  <2>1. PICK t \in Temps : temp' = [temp EXCEPT ![t] = nextIno]
    BY <1>2 DEF CreateTemp
  <2>2. nextIno \in Inodes /\ nextIno' \in 2..(MaxInodes + 1)
    BY <1>0, <1>2, PoolAssumption DEF CreateTemp, PoolTypeOK, Inodes
  <2> QED BY <1>0, <2>1, <2>2 DEF CreateTemp, PoolTypeOK
<1> QED BY <1>1, <1>2

\* The metadata an installation sets.
LEMMA InstallPool ==
  ASSUME TypeInv, NEW p \in Procs, Install(p)
  PROVE  PoolTypeOK'
<1>0. PoolTypeOK /\ tag \in Keys BY DEF TypeInv, TypeOK
<1>1. CASE UNCHANGED meta BY <1>0, <1>1, RemoveTempPool DEF Install, PoolTypeOK
<1>2. CASE ~UNCHANGED meta
  <2>1. PICK k \in {tag, NoKey} : meta' = [meta EXCEPT ![temp[job[p].tmp]] = k]
    BY <1>2 DEF Install
  <2> QED BY <1>0, <1>2, <2>1 DEF Install, PoolTypeOK
<1> QED BY <1>1, <1>2

\* And so does every step of a process.
LEMMA ProcStepPool ==
  ASSUME TypeInv, NEW p \in Procs, ProcStep(p)
  PROVE  PoolTypeOK'
<1>0. PoolTypeOK BY DEF TypeInv, TypeOK
<1>1. CASE RemoveStale(p)
  BY <1>0, <1>1, RemoveBasePool
  DEF PoolTypeOK, TypeInv, TypeOK, RemoveStale, poolVars
<1>2. CASE CreateTemp(p)
  BY <1>0, <1>2, CreateTempPool DEF PoolTypeOK, TypeInv, TypeOK
<1>3. CASE Install(p)
  BY <1>0, <1>3, InstallPool DEF PoolTypeOK, TypeInv, TypeOK
<1>4. CASE Validate(p)
  BY <1>0, <1>4 DEF PoolTypeOK, TypeInv, TypeOK, Validate, RemoveTemp
<1>5. CASE Persist(p)
  BY <1>0, <1>5
  DEF PoolTypeOK, TypeInv, TypeOK, Persist, RemoveTemp, Inodes, Jobs, LocalOK,
      Basing, Installing, Cloning, WithVm
<1>6. CASE RefreshPool(p)
  BY <1>0, <1>6, PoolRefreshPool DEF PoolTypeOK, TypeInv, TypeOK, RefreshPool
<1>7. CASE CloneRefresh(p)
  BY <1>0, <1>7, PoolRefreshPool DEF PoolTypeOK, TypeInv, TypeOK, CloneRefresh
<1>8. CASE CloneVolDelete(p)
  BY <1>0, <1>8, VolDeletePool
  DEF PoolTypeOK, TypeInv, TypeOK, CloneVolDelete, poolVars
<1>9. CASE CloneRemoveFile(p)
  BY <1>0, <1>9, RemoveVmDiskPool DEF PoolTypeOK, TypeInv, TypeOK, CloneRemoveFile
<1>10. CASE CloneCreate(p)
  BY <1>0, <1>10, VolCreateAsPool
  DEF PoolTypeOK, TypeInv, TypeOK, CloneCreate, poolVars, LocalOK, Basing,
      Installing, Cloning, WithVm
<1>11. CASE PruneListVolumes(p)
  BY <1>0, <1>11 DEF PoolTypeOK, TypeInv, TypeOK, PruneListVolumes
<1>12. CASE PruneNext(p)
  BY <1>0, <1>12 DEF PoolTypeOK, TypeInv, TypeOK, PruneNext
<1>13. CASE PruneDelete(p)
  BY <1>0, <1>13, VolDeletePool DEF PoolTypeOK, TypeInv, TypeOK, PruneDelete
<1>14. CASE RmDisk(p)
  BY <1>0, <1>14, RemoveVmDiskPool, RemoveBasePool
  DEF PoolTypeOK, TypeInv, TypeOK, RmDisk, RemoveDiskFile
<1>15. CASE RmAllDisk(p)
  BY <1>0, <1>15, RemoveVmDiskPool, RemoveBasePool
  DEF PoolTypeOK, TypeInv, TypeOK, RmAllDisk, RemoveDiskFile
<1>16. CASE RmUndefine(p)
  BY <1>0, <1>16, VolDeletePool
  DEF PoolTypeOK, TypeInv, TypeOK, RmUndefine, poolVars
<1>17. CASE Crash(p)
  BY <1>0, <1>17 DEF PoolTypeOK, TypeInv, TypeOK, Crash
<1>18. CASE UNCHANGED poolVars BY <1>0, <1>18 DEF PoolTypeOK, poolVars
<1> QED
  BY <1>1, <1>2, <1>3, <1>4, <1>5, <1>6, <1>7, <1>8, <1>9, <1>10, <1>11, <1>12,
      <1>13, <1>14, <1>15, <1>16, <1>17, <1>18
  DEF ProcStep, CacheStep, Inspect, FindBase, CheckBase, PruneListBases, PruneCheck,
      BeginRun, BeginToBaseDisk, BeginRm, BeginRmAll, BeginStart, BeginStop, BeginPrune,
      Begin, GiveUp, Create, Define, Start, RmState, RmInfo, RmDestroy, RmAllList,
      RmAllInfo, RmAllNext, RmAllDestroy, RmAllUndefine, StartState, StopState, Stop

\* What is left of a domain that stops is a domain.
LEMMA DestroyedType ==
  ASSUME TypeOK, NEW v \in VMs
  PROVE  Destroyed(v) \in Domain
BY DEF TypeOK, Destroyed, Domain, NoDomain, DomStates

\* libvirt's domains, the tag and the count of crashes.
LEMMA ProcStepDom ==
  ASSUME TypeInv, NEW p \in Procs, ProcStep(p)
  PROVE  tag' \in Keys /\ dom' \in [VMs -> Domain] /\ crashes' \in 0..MaxCrashes
<1> DEFINE Goal == tag' \in Keys /\ dom' \in [VMs -> Domain] /\ crashes' \in 0..MaxCrashes
<1>0. /\ TypeOK /\ NoDomain \in Domain
      /\ \A v \in VMs : RemovalFailed(v) \in [VMs -> Domain]
  BY DEF TypeInv, TypeOK, Domain, NoDomain, DomStates, RemovalFailed
<1>1. CASE UNCHANGED <<tag, dom, crashes>> BY <1>0, <1>1 DEF TypeOK
<1>2. CASE Create(p)
  <2>1. job[p].key \in Keys BY <1>2 DEF Create, TypeInv, LocalOK, Basing
  <2>2. [state |-> "running", persistent |-> FALSE, base |-> job[p].key,
        failed |-> FALSE] \in Domain
    BY <2>1 DEF Domain, DomStates
  <2> QED BY <1>0, <1>2, <2>2 DEF Create, TypeOK
<1>3. CASE Define(p)
  <2>1. [state |-> "shut off", persistent |-> TRUE, base |-> NoKey,
        failed |-> FALSE] \in Domain
    BY DEF Domain, DomStates
  <2> QED BY <1>0, <1>3, <2>1 DEF Define, TypeOK
<1>4. CASE Start(p)
  <2>1. job[p].vm \in VMs BY <1>4 DEF Start, TypeInv, LocalOK, WithVm
  <2>2. [dom[job[p].vm] EXCEPT !.state = "running"] \in Domain
    BY <1>0, <2>1 DEF TypeOK, Domain, DomStates
  <2> QED BY <1>0, <1>4, <2>2 DEF Start, TypeOK
<1>5. CASE RmDestroy(p) \/ RmAllDestroy(p) \/ Stop(p)
  <2>1. job[p].vm \in VMs
    BY <1>5 DEF RmDestroy, RmAllDestroy, Stop, TypeInv, LocalOK, WithVm
  <2>2. Destroyed(job[p].vm) \in Domain BY <1>0, <2>1, DestroyedType
  <2> QED BY <1>0, <1>5, <2>2 DEF RmDestroy, RmAllDestroy, Stop, TypeOK
<1>6. CASE RmUndefine(p)
  <2>1. job[p].vm \in VMs BY <1>6 DEF RmUndefine, TypeInv, LocalOK, WithVm
  <2> QED BY <1>0, <1>6, <2>1 DEF RmUndefine, TypeOK
<1>7. CASE RmAllUndefine(p)
  <2>1. job[p].vm \in VMs BY <1>7 DEF RmAllUndefine, TypeInv, LocalOK, WithVm
  <2>2. [dom[job[p].vm] EXCEPT !.persistent = FALSE] \in Domain
    BY <1>0, <2>1 DEF TypeOK, Domain
  <2> QED BY <1>0, <1>7, <2>1, <2>2 DEF RmAllUndefine, TypeOK
<1>8. CASE Crash(p) BY <1>0, <1>8, CommandsAssumption DEF Crash, TypeOK
<1>9. CASE CacheStep(p) /\ UNCHANGED <<dom, crashes>>
  BY <1>1, <1>9
  DEF CacheStep, Inspect, FindBase, CheckBase, RemoveStale, CreateTemp,
    Install, Validate, Persist, RefreshPool, CloneRefresh, CloneVolDelete,
    CloneRemoveFile, CloneCreate, PruneListBases, PruneListVolumes, PruneNext,
    PruneCheck, PruneDelete
<1> QED
  BY <1>1, <1>2, <1>3, <1>4, <1>5, <1>6, <1>7, <1>8, <1>9
  DEF ProcStep, BeginRun, BeginToBaseDisk, BeginRm, BeginRmAll, BeginStart,
      BeginStop,
      BeginPrune, Begin, GiveUp, RmState, RmInfo, RmDisk, RmAllList, RmAllInfo,
      RmAllNext, RmAllDisk, StartState, StopState

\* TypeInv is inductive.
LEMMA TypeInit == Init => TypeInv
<1> SUFFICES ASSUME Init PROVE TypeInv OBVIOUS
<1>1. PoolTypeOK
  BY PoolAssumption DEF Init, PoolInit, PoolTypeOK, Inodes, StaleIno, Volumes
<1>2. TypeOK
  BY <1>1, NoJobType, CommandsAssumption
  DEF Init, TypeOK, Labels, Domain, NoDomain, DomStates
<1>3. \A p \in Procs : LocalOK(pc[p], job[p])
  BY DEF Init, LocalOK, NoJob, Basing, Installing, Cloning, WithVm
<1> QED BY <1>2, <1>3 DEF TypeInv

\* No step of a process, a guest or podman breaks TypeInv.
LEMMA TypeStep == TypeInv /\ [Next]_vars => TypeInv'
<1> SUFFICES ASSUME TypeInv, [Next]_vars PROVE TypeInv' OBVIOUS
<1>1. ASSUME NEW p \in Procs, ProcStep(p) PROVE TypeInv'
  BY <1>1, ProcStepLocal, LocalStepType, ProcStepPool, ProcStepDom
  DEF TypeInv, TypeOK
<1>2. CASE Environment
  <2>1. UNCHANGED <<poolVars, pc, job>>
    BY <1>2 DEF Environment, GuestOff, GuestPause, Retag, cacheVars
  <2>2. tag' \in Keys /\ dom' \in [VMs -> Domain] /\ crashes' \in 0..MaxCrashes
    <3>0. TypeOK BY DEF TypeInv
    <3>1. ASSUME NEW v \in VMs, GuestOff(v) PROVE dom' \in [VMs -> Domain]
      BY <3>0, <3>1, DestroyedType DEF GuestOff, TypeOK
    <3>2. ASSUME NEW v \in VMs, GuestPause(v) PROVE dom' \in [VMs -> Domain]
      <4>1. [dom[v] EXCEPT !.state = "paused"] \in Domain
        BY <3>0 DEF TypeOK, Domain, DomStates
      <4> QED BY <3>0, <3>2, <4>1 DEF GuestPause, TypeOK
    <3> QED
      BY <1>2, <3>0, <3>1, <3>2
      DEF Environment, GuestOff, GuestPause, Retag, cacheVars, TypeOK
  <2> QED BY <2>1, <2>2 DEF TypeInv, TypeOK, PoolTypeOK, poolVars
<1>3. CASE UNCHANGED vars
  BY <1>3 DEF vars, cacheVars, poolVars, TypeInv, TypeOK, PoolTypeOK
<1> QED BY <1>1, <1>2, <1>3 DEF Next

\* In every reachable state the locals of a process are what its label says.
LEMMA TypeInvariant == Spec => []TypeInv
BY TypeInit, TypeStep, PTL DEF Spec

\* Every variable keeps its type, whatever the commands do and in whatever order
\* (run, to-base-disk, rm, rm-all, start, stop and prune).
THEOREM TypeCorrect == Spec => []TypeOK
<1>1. TypeInv => TypeOK BY DEF TypeInv
<1> QED BY TypeInvariant, <1>1, PTL

-----------------------------------------------------------------------------
(***************************************************************************)
(* The cache of base disks.  CacheInv is inductive over TypeInv.  Only     *)
(* five actions of a process can disturb it; the others are quiet: they    *)
(* create no file, change no metadata, and claim nothing.                  *)
(***************************************************************************)

Settling == Cloning \cup {"refresh"}

\* No file comes into being and none changes its inode or its metadata.
Shrink ==
  /\ \A k \in Keys : base'[k] \in {base[k], 0}
  /\ \A t \in Temps : temp'[t] \in {temp[t], 0}
  /\ UNCHANGED <<meta, nextIno>>

\* p does not start to build, to publish or to rely on a base disk.
NoClaim(p) ==
  /\ pc'[p] \in Installing => pc[p] \in Installing /\ job'[p].tmp = job[p].tmp
  /\ pc'[p] = "persist" => pc[p] = "persist" /\ job'[p].key = job[p].key
  /\ pc'[p] \in Settling => pc[p] \in Settling /\ job'[p].key = job[p].key

Others(p) == \A q \in Procs : q # p => pc'[q] = pc[q] /\ job'[q] = job[q]

\* Only p moves.
LEMMA OthersStay ==
  ASSUME TypeInv, NEW p \in Procs, LocalStep(p)
  PROVE  Others(p)
<1>1. PICK l, j : Moves(p, l, j) BY DEF LocalStep
<1>2. pc \in [Procs -> Labels] /\ job \in [Procs -> Jobs] BY DEF TypeInv, TypeOK
<1>3. \A q \in Procs : q # p => pc'[q] = pc[q] BY <1>1, <1>2 DEF Moves
<1>4. \A q \in Procs : q # p => job'[q] = job[q] BY <1>1, <1>2 DEF Moves
<1> QED BY <1>3, <1>4 DEF Others

\* The key and the temporary file a process works with.
LEMMA LocalsTyped ==
  ASSUME TypeInv, NEW p \in Procs
  PROVE  /\ pc[p] \in Settling \cup Installing => job[p].key \in Keys
         /\ pc[p] \in Installing => job[p].tmp \in Temps
BY DEF TypeInv, LocalOK, Basing, Settling, Installing, Cloning

\* The bounds on the inodes in use, after a step that creates none.
LEMMA ShrinkInodes ==
  ASSUME TypeOK, CacheInv, Shrink
  PROVE  /\ \A t \in Temps : temp'[t] < nextIno'
         /\ \A k \in Keys : base'[k] < nextIno'
         /\ \A t, u \in Temps : temp'[t] # 0 /\ temp'[t] = temp'[u] => t = u
         /\ \A t \in Temps, k \in Keys : temp'[t] # 0 => temp'[t] # base'[k]
<1>1. nextIno \in Nat /\ nextIno > 0 /\ nextIno' = nextIno
  BY PoolAssumption DEF TypeOK, PoolTypeOK, Shrink
<1> QED BY <1>1 DEF CacheInv, Shrink

\* A step after which fewer files exist and p claims nothing keeps CacheInv.
LEMMA QuietStep ==
  ASSUME TypeInv, CacheInv, Shrink, NEW p \in Procs, Others(p), NoClaim(p)
  PROVE  CacheInv'
<1>0. TypeOK BY DEF TypeInv
<1>1. \A q, r \in Procs :
        q # r /\ pc'[q] \in Installing /\ pc'[r] \in Installing => job'[q].tmp # job'[r].tmp
  BY DEF CacheInv, Others, NoClaim
<1>2. ASSUME NEW q \in Procs, pc'[q] = "persist", temp'[job'[q].tmp] # 0
      PROVE  meta'[temp'[job'[q].tmp]] = job'[q].key
  <2>1. pc[q] = "persist" /\ job'[q].tmp = job[q].tmp /\ job'[q].key = job[q].key
    BY <1>2 DEF Others, NoClaim, Installing
  <2>2. job[q].tmp \in Temps BY <2>1, LocalsTyped DEF Installing
  <2>3. temp'[job[q].tmp] = temp[job[q].tmp] BY <1>2, <2>1, <2>2 DEF Shrink
  <2> QED BY <1>2, <2>1, <2>3 DEF CacheInv, Shrink
<1>3. ASSUME NEW q \in Procs, pc'[q] \in Settling
      PROVE  Content(job[q].key)' # "stale"
  <2>1. pc[q] \in Settling /\ job'[q].key = job[q].key
    BY <1>3 DEF Others, NoClaim
  <2>2. job[q].key \in Keys BY <2>1, LocalsTyped
  <2>3. Content(job[q].key) # "stale" BY <2>1 DEF CacheInv, Settling
  <2> QED BY <2>1, <2>2, <2>3 DEF Content, Shrink
<1> QED BY <1>0, <1>1, <1>2, <1>3, ShrinkInodes DEF CacheInv, Settling

\* Files that are left alone do not grow.
LEMMA SameShrink ==
  ASSUME TypeOK, UNCHANGED <<base, temp, meta, nextIno>>
  PROVE  Shrink
BY DEF Shrink

\* vol-delete only removes files.
LEMMA VolDeleteShrink ==
  ASSUME TypeOK, NEW vol, VolDelete(vol)
  PROVE  Shrink
BY DEF VolDelete, RemoveBase, RemoveTemp, Shrink, TypeOK, PoolTypeOK

\* So does the removal of a domain's disk.
LEMMA RemoveDiskFileShrink ==
  ASSUME TypeOK, NEW p, RemoveDiskFile(p)
  PROVE  Shrink
BY DEF RemoveDiskFile, RemoveBase, Shrink, TypeOK, PoolTypeOK

\* A command that ends claims nothing.
LEMMA ReturnNoClaim ==
  ASSUME TypeInv, NEW p \in Procs, Return(p)
  PROVE  NoClaim(p)
<1>1. pc'[p] = "idle" BY DEF Return, Goto, TypeInv, TypeOK
<1> QED BY <1>1 DEF NoClaim, Installing, Settling, Cloning

\* Nor does one that goes on to any other part of its work.
LEMMA GotoNoClaim ==
  ASSUME TypeInv, NEW p \in Procs, NEW l, Goto(p, l),
         l \notin Installing \cup Settling
  PROVE  NoClaim(p)
<1>1. pc'[p] = l BY DEF Goto, TypeInv, TypeOK
<1> QED BY <1>1 DEF NoClaim, Installing, Settling, Cloning

\* Or stays where it is.
LEMMA StayNoClaim ==
  ASSUME NEW p \in Procs, UNCHANGED pc, pc[p] \notin Installing \cup Settling
  PROVE  NoClaim(p)
BY DEF NoClaim, Installing, Settling, Cloning

\* Or goes from one step of a clone to the next.
LEMMA CloneNoClaim ==
  ASSUME TypeInv, NEW p \in Procs, NEW l, Goto(p, l), UNCHANGED job,
         pc[p] \in Settling, l \notin Installing
  PROVE  NoClaim(p)
<1>1. pc'[p] = l BY DEF Goto, TypeInv, TypeOK
<1> QED BY <1>1 DEF NoClaim, Installing

\* The actions outside create_base_disk create no file.
LEMMA QuietFiles ==
  ASSUME TypeInv, NEW p \in Procs, ProcStep(p),
         ~CreateTemp(p), ~Install(p), ~Validate(p), ~Persist(p)
  PROVE  Shrink
<1>0. TypeOK BY DEF TypeInv
<1>1. CASE RemoveStale(p)
  BY <1>0, <1>1 DEF RemoveStale, RemoveBase, Shrink, TypeOK, PoolTypeOK
<1>2. CASE CloneVolDelete(p) \/ PruneDelete(p) \/ RmUndefine(p)
  BY <1>0, <1>2, VolDeleteShrink, SameShrink
  DEF CloneVolDelete, PruneDelete, RmUndefine, poolVars
<1>3. CASE RmDisk(p) \/ RmAllDisk(p)
  BY <1>0, <1>3, RemoveDiskFileShrink DEF RmDisk, RmAllDisk
<1>4. CASE UNCHANGED <<base, temp, meta, nextIno>> BY <1>0, <1>4, SameShrink
<1> QED
  BY <1>1, <1>2, <1>3, <1>4
  DEF ProcStep, CacheStep, Inspect, FindBase, CheckBase, RefreshPool, CloneRefresh,
      CloneRemoveFile, CloneCreate, VolCreateAs, PruneListBases, PruneListVolumes,
      PruneNext, PruneCheck, BeginRun, BeginToBaseDisk, BeginRm, BeginRmAll,
      BeginStart, BeginStop, BeginPrune, Begin, GiveUp, Create, Define, Start,
      RmState, RmInfo, RmDestroy, RmAllList, RmAllInfo, RmAllNext, RmAllDestroy,
      RmAllUndefine, StartState, StopState, Stop, Crash, poolVars

\* And p claims nothing with it.
LEMMA QuietProcess ==
  ASSUME TypeInv, NEW p \in Procs, ProcStep(p),
         ~CheckBase(p), ~CreateTemp(p), ~Install(p), ~Validate(p), ~Persist(p)
  PROVE  NoClaim(p)
<1> USE ReturnNoClaim, GotoNoClaim DEF Installing, Settling, Cloning
<1>1. CASE \/ Inspect(p) \/ FindBase(p) \/ RemoveStale(p) \/ PruneListBases(p)
           \/ PruneListVolumes(p) \/ PruneNext(p) \/ PruneDelete(p)
  BY <1>1
  DEF Inspect, FindBase, RemoveStale, PruneListBases, PruneListVolumes, PruneNext,
      PruneDelete
<1>2. CASE \/ RefreshPool(p) \/ CloneRefresh(p) \/ CloneVolDelete(p)
           \/ CloneRemoveFile(p) \/ CloneCreate(p)
  BY <1>2, CloneNoClaim
  DEF RefreshPool, WithBase, CloneRefresh, CloneVolDelete, CloneRemoveFile, CloneCreate
<1>3. CASE PruneCheck(p) \/ RmAllInfo(p) \/ RmAllNext(p)
  BY <1>3, StayNoClaim DEF PruneCheck, RmAllInfo, RmAllNext
<1>4. CASE \/ GiveUp(p) \/ Create(p) \/ Define(p) \/ Start(p) \/ RmState(p) \/ RmInfo(p)
           \/ RmDestroy(p) \/ RmDisk(p) \/ RmUndefine(p)
  BY <1>4
  DEF GiveUp, Create, Define, Start, RmState, RmInfo, RmDestroy, RmDisk, RmUndefine, RmDone
<1>5. CASE RmAllList(p) \/ RmAllDestroy(p) \/ RmAllDisk(p) \/ RmAllUndefine(p)
  BY <1>5 DEF RmAllList, RmAllDestroy, RmAllDisk, RmAllUndefine
<1>6. CASE StartState(p) \/ StopState(p) \/ Stop(p) \/ Crash(p)
  BY <1>6 DEF StartState, StopState, Stop, Crash
<1>7. CASE \/ \E v \in VMs : \/ BeginRun(p, v) \/ BeginRm(p, v)
                             \/ BeginStart(p, v) \/ BeginStop(p, v)
           \/ BeginToBaseDisk(p) \/ BeginRmAll(p) \/ BeginPrune(p)
  BY <1>7
  DEF BeginRun, BeginRm, BeginStart, BeginStop, BeginToBaseDisk, BeginRmAll,
      BeginPrune, Begin
<1> QED
  BY <1>1, <1>2, <1>3, <1>4, <1>5, <1>6, <1>7 DEF ProcStep, CacheStep

\* A base disk found with the right metadata is not stale.
LEMMA CheckBaseCache ==
  ASSUME TypeInv, CacheInv, NEW p \in Procs, CheckBase(p), Others(p)
  PROVE  CacheInv'
<1>0. TypeOK /\ Shrink BY SameShrink DEF TypeInv, CheckBase, poolVars
<1>1. CASE NoClaim(p) BY <1>0, <1>1, QuietStep
<1>2. CASE ~NoClaim(p)
  <2>1. /\ meta[base[job[p].key]] = job[p].key
        /\ pc' = [pc EXCEPT ![p] = "clone_refresh"]
        /\ job' = job
    BY <1>2, ReturnNoClaim, GotoNoClaim
    DEF CheckBase, WithBase, Goto, Installing, Settling, Cloning
  <2>2. pc'[p] = "clone_refresh" BY <2>1 DEF TypeInv, TypeOK
  <2>3. Content(job[p].key)' # "stale"
    BY <2>1 DEF CheckBase, poolVars, Content
  <2>4. \A q \in Procs : pc'[q] \in Settling => Content(job[q].key)' # "stale"
    BY <2>1, <2>3 DEF CacheInv, Others, Settling, CheckBase, poolVars, Content
  <2>5. \A q \in Procs : pc'[q] \in Installing => q # p
    BY <2>2 DEF Installing
  <2> QED
    BY <1>0, <2>1, <2>4, <2>5, ShrinkInodes
    DEF CacheInv, Others, Settling, CheckBase, poolVars, Installing
<1> QED BY <1>1, <1>2

\* A new temporary file is nobody else's, and its inode is new.
LEMMA CreateTempCache ==
  ASSUME TypeInv, CacheInv, NEW p \in Procs, CreateTemp(p), Others(p)
  PROVE  CacheInv'
<1>0. TypeOK BY DEF TypeInv
<1>1. CASE Return(p) /\ UNCHANGED <<temp, nextIno>>
  <2>1. Shrink BY <1>0, <1>1, SameShrink DEF CreateTemp
  <2> QED BY <1>1, <2>1, ReturnNoClaim, QuietStep
<1>2. CASE ~(Return(p) /\ UNCHANGED <<temp, nextIno>>)
  <2>1. PICK t \in Temps :
          /\ \A q \in Procs : job[q].tmp # t
          /\ temp' = [temp EXCEPT ![t] = nextIno]
          /\ job' = [job EXCEPT ![p].tmp = t]
    BY <1>2 DEF CreateTemp
  <2>2. /\ nextIno \in Nat \ {0}
        /\ nextIno' = nextIno + 1
        /\ UNCHANGED <<base, meta>>
    BY <1>0, <1>2, PoolAssumption DEF CreateTemp, TypeOK, PoolTypeOK
  <2>3. /\ temp'[t] = nextIno
        /\ \A u \in Temps : u # t => temp'[u] = temp[u]
    BY <1>0, <2>1 DEF TypeOK, PoolTypeOK
  <2>4. pc'[p] = "install" BY <1>0, <1>2 DEF CreateTemp, Goto, TypeOK
  <2>5. job'[p].tmp = t BY <1>0, <2>1 DEF TypeOK, Jobs
  <2>6. /\ \A u \in Temps : temp[u] \in Nat
        /\ \A k \in Keys : base[k] \in Nat
    BY <1>0 DEF TypeOK, PoolTypeOK, Inodes
  <2>7. /\ \A u \in Temps : temp'[u] < nextIno'
        /\ \A k \in Keys : base'[k] < nextIno'
    BY <2>2, <2>3, <2>6 DEF CacheInv
  <2>8. \A u, w \in Temps : temp'[u] # 0 /\ temp'[u] = temp'[w] => u = w
    BY <2>2, <2>3, <2>6 DEF CacheInv
  <2>9. \A u \in Temps, k \in Keys : temp'[u] # 0 => temp'[u] # base'[k]
    BY <2>2, <2>3, <2>6 DEF CacheInv
  <2>10. \A q, r \in Procs :
           q # r /\ pc'[q] \in Installing /\ pc'[r] \in Installing =>
             job'[q].tmp # job'[r].tmp
    BY <2>1, <2>5 DEF CacheInv, Others
  <2>11. ASSUME NEW q \in Procs, pc'[q] = "persist", temp'[job'[q].tmp] # 0
         PROVE  meta'[temp'[job'[q].tmp]] = job'[q].key
    <3>1. q # p BY <2>4, <2>11
    <3>2. job[q].tmp \in Temps /\ job[q].tmp # t
      BY <2>1, <2>11, <3>1, LocalsTyped DEF Others, Installing
    <3> QED BY <2>2, <2>3, <2>11, <3>1, <3>2 DEF CacheInv, Others
  <2>12. ASSUME NEW q \in Procs, pc'[q] \in Settling
         PROVE  Content(job[q].key)' # "stale"
    BY <2>2, <2>4, <2>12 DEF CacheInv, Others, Settling, Cloning, Content
  <2> QED BY <2>7, <2>8, <2>9, <2>10, <2>11, <2>12 DEF CacheInv, Settling
<1> QED BY <1>1, <1>2

\* The metadata set by the installation are those of a file nobody else builds
\* in and nobody has published.
LEMMA InstallCache ==
  ASSUME TypeInv, CacheInv, NEW p \in Procs, Install(p), Others(p)
  PROVE  CacheInv'
<1>0. TypeOK BY DEF TypeInv
<1> DEFINE t == job[p].tmp
<1>1. t \in Temps /\ pc[p] \in Installing
  BY LocalsTyped DEF Install, Installing
<1>2. CASE RemoveTemp(t) /\ Return(p) /\ UNCHANGED meta
  <2>1. Shrink BY <1>0, <1>2 DEF Install, RemoveTemp, Shrink, TypeOK, PoolTypeOK
  <2> QED BY <1>2, <2>1, ReturnNoClaim, QuietStep
<1>3. CASE ~(RemoveTemp(t) /\ Return(p) /\ UNCHANGED meta)
  <2>1. /\ UNCHANGED <<base, temp, nextIno, job>>
        /\ pc'[p] = "validate"
    BY <1>0, <1>3 DEF Install, Goto, TypeOK
  <2>2. \A i \in Inodes : temp[t] = 0 \/ i # temp[t] => meta'[i] = meta[i]
    BY <1>0, <1>3 DEF Install, TypeOK, PoolTypeOK
  <2>3. ASSUME NEW k \in Keys PROVE Content(k)' = Content(k)
    <3>1. base[k] # 0 => base[k] \in Inodes BY <1>0 DEF TypeOK, PoolTypeOK
    <3> QED BY <1>1, <2>1, <2>2, <3>1 DEF CacheInv, Content
  <2>4. ASSUME NEW q \in Procs, pc'[q] = "persist", temp'[job'[q].tmp] # 0
        PROVE  meta'[temp'[job'[q].tmp]] = job'[q].key
    <3>1. q # p /\ pc[q] = "persist" BY <2>1, <2>4 DEF Others
    <3>2. job[q].tmp # t BY <1>1, <3>1 DEF CacheInv, Installing
    <3>3. job[q].tmp \in Temps BY <3>1, LocalsTyped DEF Installing
    <3>4. temp[job[q].tmp] # temp[t] /\ temp[job[q].tmp] \in Inodes
      BY <1>0, <1>1, <2>1, <2>4, <3>2, <3>3 DEF CacheInv, TypeOK, PoolTypeOK
    <3> QED BY <2>1, <2>2, <2>4, <3>1, <3>4 DEF CacheInv
  <2>5. ASSUME NEW q \in Procs, pc'[q] \in Settling
        PROVE  Content(job[q].key)' # "stale"
    <3>1. pc[q] \in Settling BY <2>1, <2>5 DEF Others, Settling, Cloning
    <3>2. job[q].key \in Keys BY <3>1, LocalsTyped
    <3> QED BY <2>1, <2>3, <3>1, <3>2 DEF CacheInv, Settling, Content
  <2>6. \A q, r \in Procs :
          q # r /\ pc'[q] \in Installing /\ pc'[r] \in Installing =>
            job'[q].tmp # job'[r].tmp
    BY <1>1, <2>1 DEF CacheInv, Others
  <2> QED BY <2>1, <2>4, <2>5, <2>6 DEF CacheInv, Settling
<1> QED BY <1>2, <1>3

\* A process that goes on to publish has just read the right metadata.
LEMMA ValidateCache ==
  ASSUME TypeInv, CacheInv, NEW p \in Procs, Validate(p), Others(p)
  PROVE  CacheInv'
<1>0. TypeOK BY DEF TypeInv
<1> DEFINE t == job[p].tmp
<1>1. t \in Temps /\ pc[p] = "validate"
  BY LocalsTyped DEF Validate, Installing
<1>2. CASE RemoveTemp(t) /\ Return(p)
  <2>1. Shrink BY <1>0, <1>2 DEF Validate, RemoveTemp, Shrink, TypeOK, PoolTypeOK
  <2> QED BY <1>2, <2>1, ReturnNoClaim, QuietStep
<1>3. CASE ~(RemoveTemp(t) /\ Return(p))
  <2>1. /\ UNCHANGED <<base, temp, meta, nextIno, job>>
        /\ pc'[p] = "persist"
        /\ meta[temp[t]] = job[p].key
    BY <1>0, <1>3 DEF Validate, Goto, TypeOK
  <2>2. \A q, r \in Procs :
          q # r /\ pc'[q] \in Installing /\ pc'[r] \in Installing =>
            job'[q].tmp # job'[r].tmp
    BY <1>1, <2>1 DEF CacheInv, Others, Installing
  <2>3. \A q \in Procs : pc'[q] = "persist" /\ temp'[job'[q].tmp] # 0 =>
          meta'[temp'[job'[q].tmp]] = job'[q].key
    BY <2>1 DEF CacheInv, Others
  <2>4. \A q \in Procs : pc'[q] \in Settling => Content(job[q].key)' # "stale"
    BY <2>1 DEF CacheInv, Others, Settling, Cloning, Content
  <2> QED BY <2>1, <2>2, <2>3, <2>4 DEF CacheInv, Settling
<1> QED BY <1>2, <1>3

\* The rename moves a file with the right metadata to the base disk's name.
LEMMA PersistCache ==
  ASSUME TypeInv, CacheInv, NEW p \in Procs, Persist(p), Others(p)
  PROVE  CacheInv'
<1>0. TypeOK BY DEF TypeInv
<1> DEFINE t == job[p].tmp
           k == job[p].key
<1>1. t \in Temps /\ k \in Keys /\ pc[p] = "persist"
  BY LocalsTyped DEF Persist, Installing
<1>2. CASE temp[t] = 0
  <2>1. Return(p) /\ Shrink BY <1>0, <1>2, SameShrink DEF Persist
  <2> QED BY <2>1, ReturnNoClaim, QuietStep
<1>3. CASE temp[t] # 0
  <2>1. /\ base' = [base EXCEPT ![k] = temp[t]]
        /\ temp' = [temp EXCEPT ![t] = 0]
        /\ job' = [job EXCEPT ![p].tmp = NoTemp]
        /\ UNCHANGED <<meta, nextIno>>
        /\ pc'[p] = "refresh"
    BY <1>0, <1>3 DEF Persist, RemoveTemp, Goto, TypeOK
  <2>2. /\ base'[k] = temp[t]
        /\ \A b \in Keys : b # k => base'[b] = base[b]
        /\ temp'[t] = 0
        /\ \A u \in Temps : u # t => temp'[u] = temp[u]
    BY <1>0, <1>1, <2>1 DEF TypeOK, PoolTypeOK
  <2>3. job'[p].key = k BY <1>0, <2>1 DEF TypeOK, Jobs
  <2>4. Content(k)' = "complete"
    BY <1>1, <1>3, <2>1, <2>2 DEF CacheInv, Content
  <2>5. \A b \in Keys : b # k => Content(b)' = Content(b)
    BY <2>1, <2>2 DEF Content
  <2>6. \A q \in Procs : pc'[q] \in Settling => Content(job[q].key)' # "stale"
    <3>1. SUFFICES ASSUME NEW q \in Procs, pc'[q] \in Settling
                   PROVE  Content(job[q].key)' # "stale"
      OBVIOUS
    <3>2. CASE q = p
      BY <2>3, <2>4, <3>2 DEF Content
    <3>3. CASE q # p
      <4>1. pc[q] \in Settling /\ job'[q].key = job[q].key
        BY <3>1, <3>3 DEF Others
      <4>2. job[q].key \in Keys BY <4>1, LocalsTyped
      <4>3. CASE job[q].key = k
        <5>1. meta[temp[t]] = k BY <1>1, <1>3 DEF CacheInv
        <5> QED BY <1>1, <1>3, <2>1, <2>2, <4>1, <4>3, <5>1 DEF Content
      <4>4. CASE job[q].key # k
        <5>1. Content(job[q].key) # "stale" BY <4>1 DEF CacheInv, Settling
        <5> QED BY <2>1, <2>2, <4>1, <4>2, <4>4, <5>1 DEF Content
      <4> QED BY <4>3, <4>4
    <3> QED BY <3>2, <3>3
  <2>7. nextIno \in Nat /\ nextIno' = nextIno /\ nextIno > 0
    BY <1>0, <2>1, PoolAssumption DEF TypeOK, PoolTypeOK
  <2>8. /\ \A u \in Temps : temp'[u] < nextIno'
        /\ \A b \in Keys : base'[b] < nextIno'
        /\ \A u, w \in Temps : temp'[u] # 0 /\ temp'[u] = temp'[w] => u = w
        /\ \A u \in Temps, b \in Keys : temp'[u] # 0 => temp'[u] # base'[b]
    BY <1>1, <2>2, <2>7 DEF CacheInv
  <2>9. \A q, r \in Procs :
          q # r /\ pc'[q] \in Installing /\ pc'[r] \in Installing =>
            job'[q].tmp # job'[r].tmp
    BY <2>1 DEF CacheInv, Others, Installing
  <2>10. ASSUME NEW q \in Procs, pc'[q] = "persist", temp'[job'[q].tmp] # 0
         PROVE  meta'[temp'[job'[q].tmp]] = job'[q].key
    <3>1. q # p /\ pc[q] = "persist" /\ job'[q] = job[q]
      BY <2>1, <2>10 DEF Others
    <3>2. job[q].tmp \in Temps /\ job[q].tmp # t
      BY <1>1, <3>1, LocalsTyped DEF CacheInv, Installing
    <3> QED BY <2>1, <2>2, <2>10, <3>1, <3>2 DEF CacheInv
  <2> QED BY <2>6, <2>8, <2>9, <2>10 DEF CacheInv, Settling
<1> QED BY <1>2, <1>3

CacheIInv == TypeInv /\ CacheInv

\* Nothing is being built at first.
LEMMA CacheInit == Init => CacheInv
<1> SUFFICES ASSUME Init PROVE CacheInv OBVIOUS
<1>1. /\ nextIno = 2
      /\ \A k \in Keys : base[k] \in {0, 1}
      /\ \A t \in Temps : temp[t] = 0
      /\ \A p \in Procs : pc[p] = "idle"
  BY DEF Init, PoolInit, StaleIno
<1> QED BY <1>1 DEF CacheInv, Installing, Cloning

\* CacheInv is inductive over TypeInv.
LEMMA CacheStepInv == TypeInv /\ CacheInv /\ [Next]_vars => CacheInv'
<1> SUFFICES ASSUME TypeInv, CacheInv, [Next]_vars PROVE CacheInv' OBVIOUS
<1>1. ASSUME NEW p \in Procs, ProcStep(p) PROVE CacheInv'
  <2>1. Others(p) BY <1>1, ProcStepLocal, OthersStay
  <2>2. CASE CheckBase(p) BY <2>1, <2>2, CheckBaseCache
  <2>3. CASE CreateTemp(p) BY <2>1, <2>3, CreateTempCache
  <2>4. CASE Install(p) BY <2>1, <2>4, InstallCache
  <2>5. CASE Validate(p) BY <2>1, <2>5, ValidateCache
  <2>6. CASE Persist(p) BY <2>1, <2>6, PersistCache
  <2> QED BY <1>1, <2>1, <2>2, <2>3, <2>4, <2>5, <2>6, QuietFiles, QuietProcess, QuietStep
<1>2. CASE UNCHANGED <<base, temp, meta, nextIno, pc, job>>
  BY <1>2 DEF CacheInv, Content
<1>3. Environment => UNCHANGED <<base, temp, meta, nextIno, pc, job>>
  BY DEF Environment, GuestOff, GuestPause, Retag, cacheVars, poolVars
<1>4. UNCHANGED vars => UNCHANGED <<base, temp, meta, nextIno, pc, job>>
  BY DEF vars, cacheVars, poolVars
<1> QED BY <1>1, <1>2, <1>3, <1>4 DEF Next

\* base_disks.rs: however many processes build base disks, no two share a
\* temporary file, and what is validated is what is published.
THEOREM CacheInvariant == Spec => []CacheInv
<1>1. Init => CacheIInv BY TypeInit, CacheInit DEF CacheIInv
<1>2. CacheIInv /\ [Next]_vars => CacheIInv'
  BY TypeStep, CacheStepInv DEF CacheIInv
<1>3. CacheIInv => CacheInv BY DEF CacheIInv
<1> QED BY <1>1, <1>2, <1>3, PTL DEF Spec

-----------------------------------------------------------------------------
(* The temporary files.                                                    *)

Owner(t, q) == job[q].tmp = t /\ pc[q] \in Installing

\* While nobody is killed, whoever builds in a file removes or publishes it
\* before going on to anything else.
LEMMA OwnerStep ==
  ASSUME TypeInv, NEW p \in Procs, NEW t \in Temps,
         Install(p) \/ Validate(p) \/ Persist(p),
         Owner(t, p), temp'[t] # 0
  PROVE  Owner(t, p)'
<1>0. TypeOK BY DEF TypeInv
<1>1. ~RemoveTemp(t) BY <1>0 DEF RemoveTemp, TypeOK, PoolTypeOK
<1>2. CASE Install(p)
  BY <1>0, <1>1, <1>2 DEF Install, Owner, Goto, Installing, TypeOK
<1>3. CASE Validate(p)
  BY <1>0, <1>1, <1>3 DEF Validate, Owner, Goto, Installing, TypeOK
<1>4. CASE Persist(p)
  <2>1. Return(p) /\ UNCHANGED temp BY <1>1, <1>4 DEF Persist, Owner
  <2>2. temp[t] = 0 BY <1>1, <1>4 DEF Persist, Owner
  <2> QED BY <2>1, <2>2
<1> QED BY <1>2, <1>3, <1>4

\* A file that no action of p creates is still its owner's.
LEMMA OldTempStep ==
  ASSUME TypeInv, TempsOwned, crashes = 0, NEW p \in Procs, ProcStep(p), ~Crash(p),
         NEW t \in Temps, temp[t] # 0, temp'[t] # 0
  PROVE  \E q \in Procs : Owner(t, q)'
<1>1. Others(p) BY ProcStepLocal, OthersStay
<1>2. PICK q \in Procs : Owner(t, q) BY DEF TempsOwned, Owner, Installing
<1>3. CASE q # p BY <1>1, <1>2, <1>3 DEF Others, Owner
<1>4. CASE q = p
  <2>1. pc[p] \in {"install", "validate", "persist"}
    BY <1>2, <1>4 DEF Owner, Installing
  <2>2. Install(p) \/ Validate(p) \/ Persist(p)
    BY <2>1
    DEF ProcStep, CacheStep, Inspect, FindBase, CheckBase, RemoveStale, CreateTemp,
        RefreshPool, CloneRefresh, CloneVolDelete, CloneRemoveFile, CloneCreate,
        PruneListBases, PruneListVolumes, PruneNext, PruneCheck, PruneDelete,
        BeginRun, BeginToBaseDisk, BeginRm, BeginRmAll, BeginStart, BeginStop,
        BeginPrune, Begin, GiveUp, Create, Define, Start, RmState, RmInfo, RmDestroy,
        RmDisk, RmUndefine, RmAllList, RmAllInfo, RmAllNext, RmAllDestroy, RmAllDisk,
        RmAllUndefine, StartState, StopState, Stop
  <2>3. Owner(t, p)' BY <1>2, <1>4, <2>2, OwnerStep
  <2> QED BY <2>3
<1> QED BY <1>3, <1>4

\* A new file belongs to the process that makes it.
LEMMA NewTempStep ==
  ASSUME TypeInv, NEW p \in Procs, ProcStep(p),
         NEW t \in Temps, temp[t] = 0, temp'[t] # 0
  PROVE  Owner(t, p)'
<1>0. TypeOK BY DEF TypeInv
<1>1. CreateTemp(p)
  <2>1. CASE Install(p) \/ Validate(p) \/ Persist(p)
    BY <1>0, <2>1
    DEF Install, Validate, Persist, RemoveTemp, TypeOK, PoolTypeOK
  <2> QED BY <2>1, QuietFiles DEF Shrink
<1>2. PICK u \in Temps : /\ temp' = [temp EXCEPT ![u] = nextIno]
                         /\ job' = [job EXCEPT ![p].tmp = u]
                         /\ Goto(p, "install")
  BY <1>1 DEF CreateTemp
<1>3. t = u BY <1>0, <1>2 DEF TypeOK, PoolTypeOK
<1>4. job'[p].tmp = u BY <1>0, <1>2 DEF TypeOK, Jobs
<1>5. pc'[p] = "install" BY <1>0, <1>2 DEF Goto, TypeOK
<1> QED BY <1>3, <1>4, <1>5 DEF Owner, Installing

\* TempsOwned is inductive over TypeInv.
LEMMA TempsStep == TypeInv /\ TempsOwned /\ [Next]_vars => TempsOwned'
<1> SUFFICES ASSUME TypeInv, TempsOwned, [Next]_vars, crashes' = 0,
                    NEW t \in Temps, temp'[t] # 0
             PROVE  \E q \in Procs : Owner(t, q)'
  BY DEF TempsOwned, Owner, Installing
<1>1. ASSUME NEW p \in Procs, ProcStep(p) PROVE \E q \in Procs : Owner(t, q)'
  <2>1. ~Crash(p) BY DEF Crash, TypeInv, TypeOK
  <2>2. crashes = 0
    BY <1>1, <2>1
    DEF ProcStep, GiveUp, Create, Define, Start, RmState, RmInfo, RmDestroy, RmDisk,
        RmUndefine, RmAllList, RmAllInfo, RmAllNext, RmAllDestroy, RmAllDisk,
        RmAllUndefine, StartState, StopState, Stop, BeginRun, BeginToBaseDisk, BeginRm,
        BeginRmAll, BeginStart, BeginStop, BeginPrune, Begin
  <2> QED BY <1>1, <2>1, <2>2, OldTempStep, NewTempStep
<1>2. CASE UNCHANGED <<temp, pc, job, crashes>>
  BY <1>2 DEF TempsOwned, Owner, Installing
<1>3. Environment => UNCHANGED <<temp, pc, job, crashes>>
  BY DEF Environment, GuestOff, GuestPause, Retag, cacheVars, poolVars
<1>4. UNCHANGED vars => UNCHANGED <<temp, pc, job, crashes>>
  BY DEF vars, cacheVars, poolVars
<1> QED BY <1>1, <1>2, <1>3, <1>4 DEF Next

\* base_disks.rs: however many processes build, prune and remove, no error path
\* of create_base_disk leaves its temporary file behind; only a kill does.
THEOREM TempsAccounted == Spec => []TempsOwned
<1>1. Init => TempsOwned BY DEF Init, PoolInit, TempsOwned
<1> QED BY <1>1, TypeInit, TypeStep, TempsStep, PTL DEF Spec

-----------------------------------------------------------------------------
(* The refinement of AtomicCache.                                          *)

\* At first a base disk is missing or stale, and there are no clones.
LEMMA CacheInitRefines == Init => Cache!Init
<1> SUFFICES ASSUME Init PROVE Cache!Init OBVIOUS
<1>1. /\ \A k \in Keys : base[k] \in {0, StaleIno}
      /\ \A i \in Inodes : meta[i] = NoKey
      /\ vmdisk = [v \in VMs |-> NoDisk]
      /\ StaleIno \in Inodes
  BY PoolAssumption DEF Init, PoolInit, StaleIno, Inodes
<1>2. \A k \in Keys : Content(k) \in {"none", "stale"}
  BY <1>1, PoolAssumption DEF Content
<1>3. [k \in Keys |-> Content(k)] \in [Keys -> {"none", "stale"}] BY <1>2
<1>4. [v \in VMs |-> vmdisk[v].back] = [v \in VMs |-> NoKey] BY <1>1 DEF NoDisk
<1> QED BY <1>3, <1>4 DEF Cache!Init

Store == [k \in Keys |-> Content(k)]
Clones == [v \in VMs |-> vmdisk[v].back]

\* A step that touches neither base disks, metadata nor VM disks.
LEMMA RefineStutter ==
  ASSUME UNCHANGED <<base, meta, vmdisk>>
  PROVE  UNCHANGED <<Store, Clones>>
BY DEF Store, Clones, Content

\* A base disk is removed.
LEMMA RefineRemove ==
  ASSUME TypeOK, NEW k \in Keys, RemoveBase(k), UNCHANGED <<meta, vmdisk>>
  PROVE  Cache!Next
<1>1. base' = [base EXCEPT ![k] = 0] /\ base \in [Keys -> Inodes \cup {0}]
  BY DEF RemoveBase, TypeOK, PoolTypeOK
<1>2. Content(k)' = "none" BY <1>1 DEF Content
<1>3. \A b \in Keys : b # k => Content(b)' = Content(b) BY <1>1 DEF Content
<1>4. [b \in Keys |-> Content(b)]' = [[b \in Keys |-> Content(b)] EXCEPT ![k] = "none"]
  BY <1>2, <1>3
<1>5. UNCHANGED [v \in VMs |-> vmdisk[v].back] OBVIOUS
<1>6. Cache!Remove(k) BY <1>4, <1>5 DEF Cache!Remove
<1> QED BY <1>6 DEF Cache!Next

\* A VM disk is removed.
LEMMA RefineDiscard ==
  ASSUME TypeOK, NEW v \in VMs, RemoveVmDisk(v), UNCHANGED <<base, meta>>
  PROVE  Cache!Next
<1>1. vmdisk' = [vmdisk EXCEPT ![v] = NoDisk] /\ vmdisk \in [VMs -> Overlay \cup {NoDisk}]
  BY DEF RemoveVmDisk, TypeOK, PoolTypeOK
<1>2. [w \in VMs |-> vmdisk[w].back]' = [[w \in VMs |-> vmdisk[w].back] EXCEPT ![v] = NoKey]
  BY <1>1 DEF NoDisk
<1>3. UNCHANGED [k \in Keys |-> Content(k)] BY DEF Content
<1>4. Cache!Discard(v) BY <1>2, <1>3 DEF Cache!Discard
<1> QED BY <1>4 DEF Cache!Next

CacheNext == [Cache!Next]_<<Store, Clones>>

\* vol-delete removes one of either, or a temporary file.
LEMMA RefineVolDelete ==
  ASSUME TypeOK, NEW vol \in Volumes, VolDelete(vol)
  PROVE  CacheNext
<1>1. CASE RemoveBase(vol.name) /\ vol.kind = "base" /\ UNCHANGED vmdisk
  <2>1. vol.name \in Keys BY <1>1 DEF Volumes, BaseVol, TempVol, VmVol
  <2> QED BY <1>1, <2>1, RefineRemove DEF VolDelete, CacheNext
<1>2. CASE UNCHANGED <<base, vmdisk>>
  BY <1>2, RefineStutter DEF VolDelete, CacheNext
<1>3. CASE RemoveVmDisk(vol.name) /\ vol.kind = "vm" /\ UNCHANGED base
  <2>1. vol.name \in VMs BY <1>3 DEF Volumes, BaseVol, TempVol, VmVol
  <2> QED BY <1>3, <2>1, RefineDiscard DEF VolDelete, CacheNext
<1> QED BY <1>1, <1>2, <1>3 DEF VolDelete

\* A domain's disk is one of either.
LEMMA RefineDiskFile ==
  ASSUME TypeInv, NEW p \in Procs, RemoveDiskFile(p), job[p].vm \in VMs
  PROVE  CacheNext
<1>1. TypeOK /\ job[p].base \in Keys \cup {NoKey} BY DEF TypeInv, TypeOK, Jobs
<1>2. CASE job[p].base = NoKey
  BY <1>1, <1>2, RefineDiscard DEF RemoveDiskFile, CacheNext
<1>3. CASE job[p].base # NoKey
  BY <1>1, <1>3, RefineRemove DEF RemoveDiskFile, CacheNext
<1> QED BY <1>2, <1>3

\* The installation writes to a file that no key names.
LEMMA RefineInstall ==
  ASSUME TypeInv, CacheInv, NEW p \in Procs, Install(p)
  PROVE  CacheNext
<1> DEFINE t == job[p].tmp
<1>1. t \in Temps BY LocalsTyped DEF Install, Installing
<1>2. TypeOK /\ UNCHANGED <<base, vmdisk>> BY DEF TypeInv, Install
<1>3. \A i \in Inodes : temp[t] = 0 \/ i # temp[t] => meta'[i] = meta[i]
  BY <1>2 DEF Install, TypeOK, PoolTypeOK
<1>4. ASSUME NEW k \in Keys PROVE Content(k)' = Content(k)
  <2>1. base[k] # 0 => base[k] \in Inodes BY <1>2 DEF TypeOK, PoolTypeOK
  <2> QED BY <1>1, <1>2, <1>3, <2>1 DEF CacheInv, Content
<1>5. UNCHANGED <<Store, Clones>> BY <1>2, <1>4 DEF Store, Clones
<1> QED BY <1>5 DEF CacheNext

\* The rename publishes a complete base disk in one step.
LEMMA RefinePersist ==
  ASSUME TypeInv, CacheInv, NEW p \in Procs, Persist(p)
  PROVE  CacheNext
<1>0. PICK t \in Temps, k \in Keys : t = job[p].tmp /\ k = job[p].key
  BY LocalsTyped DEF Persist, Installing
<1>1. pc[p] = "persist" /\ TypeOK BY DEF Persist, TypeInv
<1>2. CASE temp[t] = 0
  <2>1. UNCHANGED <<base, meta, vmdisk>> BY <1>0, <1>2 DEF Persist
  <2> QED BY <2>1, RefineStutter DEF CacheNext
<1>3. CASE temp[t] # 0
  <2>1. base' = [base EXCEPT ![k] = temp[t]] /\ UNCHANGED <<meta, vmdisk>>
    BY <1>0, <1>3 DEF Persist
  <2>2. base \in [Keys -> Inodes \cup {0}] BY <1>1 DEF TypeOK, PoolTypeOK
  <2>3. meta[temp[t]] = k BY <1>0, <1>1, <1>3 DEF CacheInv
  <2>4. base'[k] = temp[t] BY <2>1, <2>2
  <2>5. Content(k)' = "complete" BY <1>3, <2>1, <2>3, <2>4 DEF Content
  <2>6. \A b \in Keys : b # k => Content(b)' = Content(b) BY <2>1, <2>2 DEF Content
  <2>7. [b \in Keys |-> Content(b)]' = [[b \in Keys |-> Content(b)] EXCEPT ![k] = "complete"]
    BY <2>5, <2>6
  <2>8. UNCHANGED [v \in VMs |-> vmdisk[v].back] BY <2>1
  <2>9. Cache!Publish(k) BY <2>7, <2>8 DEF Cache!Publish
  <2> QED BY <2>9 DEF Cache!Next, CacheNext
<1> QED BY <1>2, <1>3

\* The clone is made of a base disk that is not stale and exists.
LEMMA RefineClone ==
  ASSUME TypeInv, CacheInv, NEW p \in Procs, CloneCreate(p)
  PROVE  CacheNext
<1>0. PICK v \in VMs, k \in Keys : v = job[p].vm /\ k = job[p].key
  BY LocalsTyped DEF CloneCreate, TypeInv, LocalOK, WithVm, Cloning, Settling
<1>1. TypeOK BY DEF TypeInv
<1>2. CASE UNCHANGED poolVars
  BY <1>2, RefineStutter DEF poolVars, CacheNext
<1>3. CASE VolCreateAs(v, k)
  <2>1. /\ vmdisk' = [vmdisk EXCEPT ![v] = [back |-> k, ino |-> base[k]]]
        /\ UNCHANGED <<base, meta>>
        /\ base[k] # 0
        /\ vmdisk[v] = NoDisk
    BY <1>3 DEF VolCreateAs, CanCreateVol, HasDisk
  <2>2. vmdisk \in [VMs -> Overlay \cup {NoDisk}] BY <1>1 DEF TypeOK, PoolTypeOK
  <2>3. Content(k) # "stale" BY <1>0 DEF CacheInv, CloneCreate, Cloning
  <2>4. [b \in Keys |-> Content(b)][k] = "complete" BY <2>1, <2>3 DEF Content
  <2>5. [w \in VMs |-> vmdisk[w].back][v] = NoKey BY <2>1 DEF NoDisk
  <2>6. [w \in VMs |-> vmdisk[w].back]' = [[w \in VMs |-> vmdisk[w].back] EXCEPT ![v] = k]
    BY <2>1, <2>2
  <2>7. UNCHANGED [b \in Keys |-> Content(b)] BY <2>1 DEF Content
  <2>8. Cache!Clone(v, k) BY <2>4, <2>5, <2>6, <2>7 DEF Cache!Clone
  <2> QED BY <2>8 DEF Cache!Next, CacheNext
<1> QED BY <1>0, <1>2, <1>3 DEF CloneCreate

\* Every step is a step of AtomicCache or leaves what it describes alone.
LEMMA CacheStepRefines ==
  ASSUME TypeInv, CacheInv, [Next]_vars
  PROVE  CacheNext
<1>0. TypeOK BY DEF TypeInv
<1>1. ASSUME NEW p \in Procs, ProcStep(p) PROVE CacheNext
  <2>1. CASE RemoveStale(p)
    <3>1. job[p].key \in Keys BY <2>1 DEF RemoveStale, TypeInv, LocalOK, Basing
    <3>2. CASE RemoveBase(job[p].key)
      BY <1>0, <2>1, <3>1, <3>2, RefineRemove DEF RemoveStale, CacheNext
    <3> QED BY <2>1, <3>2, RefineStutter DEF RemoveStale, CacheNext
  <2>2. CASE Install(p) BY <2>2, RefineInstall
  <2>3. CASE Persist(p) BY <2>3, RefinePersist
  <2>4. CASE CloneVolDelete(p)
    <3>1. VmVol(job[p].vm) \in Volumes
      BY <2>4 DEF CloneVolDelete, TypeInv, LocalOK, WithVm, Cloning, Volumes
    <3> QED
      BY <1>0, <2>4, <3>1, RefineVolDelete, RefineStutter
      DEF CloneVolDelete, poolVars, CacheNext
  <2>5. CASE CloneRemoveFile(p)
    <3>1. job[p].vm \in VMs
      BY <2>5
      DEF CloneRemoveFile, TypeInv, LocalOK, WithVm, Cloning
    <3> QED BY <1>0, <2>5, <3>1, RefineDiscard DEF CloneRemoveFile, CacheNext
  <2>6. CASE CloneCreate(p) BY <2>6, RefineClone
  <2>7. CASE PruneDelete(p)
    <3>1. job[p].cand \in Volumes BY <2>7 DEF PruneDelete, TypeInv, LocalOK
    <3> QED
      BY <1>0, <2>7, <3>1, RefineVolDelete, RefineStutter
      DEF PruneDelete, CacheNext
  <2>8. CASE RmDisk(p) \/ RmAllDisk(p)
    <3>1. job[p].vm \in VMs BY <2>8 DEF RmDisk, RmAllDisk, TypeInv, LocalOK, WithVm
    <3> QED BY <2>8, <3>1, RefineDiskFile DEF RmDisk, RmAllDisk
  <2>9. CASE RmUndefine(p)
    <3>1. VmVol(job[p].vm) \in Volumes
      BY <2>9 DEF RmUndefine, TypeInv, LocalOK, WithVm, Volumes
    <3> QED
      BY <1>0, <2>9, <3>1, RefineVolDelete, RefineStutter
      DEF RmUndefine, poolVars, CacheNext
  <2>10. CASE UNCHANGED <<base, meta, vmdisk>> BY <2>10, RefineStutter DEF CacheNext
  <2> QED
    BY <1>1, <2>1, <2>2, <2>3, <2>4, <2>5, <2>6, <2>7, <2>8, <2>9, <2>10
    DEF ProcStep, CacheStep, Inspect, FindBase, CheckBase, CreateTemp, Validate,
        RefreshPool, CloneRefresh, PruneListBases, PruneListVolumes, PruneNext,
        PruneCheck, BeginRun, BeginToBaseDisk, BeginRm, BeginRmAll, BeginStart,
        BeginStop, BeginPrune, Begin, GiveUp, Create, Define, Start, RmState, RmInfo,
        RmDestroy, RmAllList, RmAllInfo, RmAllNext, RmAllDestroy, RmAllUndefine,
        StartState, StopState, Stop, Crash, poolVars
<1>2. Environment \/ UNCHANGED vars => UNCHANGED <<base, meta, vmdisk>>
  BY DEF Environment, GuestOff, GuestPause, Retag, vars, cacheVars, poolVars
<1> QED BY <1>1, <1>2, RefineStutter DEF Next, CacheNext

\* base_disks.rs implements AtomicCache: processes that race see and clone
\* only complete base disks, and publish one in a single step.
THEOREM CacheRefinement == Spec => CacheIsAtomic
<1>1. Init => Cache!Init BY CacheInitRefines
<1>2. TypeInv /\ CacheInv /\ [Next]_vars =>
        [Cache!Next]_<<[k \in Keys |-> Content(k)], [v \in VMs |-> vmdisk[v].back]>>
  BY CacheStepRefines DEF CacheNext, Store, Clones
<1> QED
  BY <1>1, <1>2, TypeInvariant, CacheInvariant, PTL
  DEF Spec, CacheIsAtomic, Cache!Spec

-----------------------------------------------------------------------------
(***************************************************************************)
(* A prune and the disks it has listed.  PruneInv is inductive over        *)
(* TypeInv: the other processes may remove a disk a prune listed, and make *)
(* a new one under its name, but never change what a disk that still       *)
(* exists refers to.                                                       *)
(***************************************************************************)

Pruning == {"prune_next", "prune_check", "prune_delete"}

\* PruneInv of one process.
PruneOK(q) ==
  /\ \A v \in pinned[q] : HasDisk(v)
  /\ pc[q] \in Pruning => pinned[q] \subseteq job[q].vols
  /\ pc[q] = "prune_check" =>
       \A v \in pinned[q] : v \in job[q].todo \/ ~RefersTo(v, job[q].cand)
  /\ pc[q] = "prune_delete" =>
       \A v \in pinned[q] : ~RefersTo(v, job[q].cand)

\* The listed disks of q that survive the step are what they were.
KeepsDisks(q) ==
  /\ pinned'[q] \subseteq pinned[q]
  /\ \A v \in pinned'[q] : vmdisk'[v] = vmdisk[v]

-----------------------------------------------------------------------------
(* What a step does to the disks that were listed.                         *)

\* Nothing, if it leaves the disks alone.
LEMMA SameKeeps ==
  ASSUME TypeOK, UNCHANGED <<vmdisk, pinned>>
  PROVE  \A q \in Procs : KeepsDisks(q)
BY DEF KeepsDisks

\* A disk that is removed is no longer counted on.
LEMMA RemoveVmDiskKeeps ==
  ASSUME TypeOK, NEW v, RemoveVmDisk(v)
  PROVE  \A q \in Procs : KeepsDisks(q)
BY DEF RemoveVmDisk, KeepsDisks, TypeOK, PoolTypeOK

\* vol-delete removes at most one disk.
LEMMA VolDeleteKeeps ==
  ASSUME TypeOK, NEW vol, VolDelete(vol)
  PROVE  \A q \in Procs : KeepsDisks(q)
BY SameKeeps, RemoveVmDiskKeeps DEF VolDelete

\* Nor does the removal of a domain's disk file do more.
LEMMA RemoveDiskFileKeeps ==
  ASSUME TypeOK, NEW p, RemoveDiskFile(p)
  PROVE  \A q \in Procs : KeepsDisks(q)
BY SameKeeps, RemoveVmDiskKeeps DEF RemoveDiskFile

\* A new disk takes a name that no listed disk has.
LEMMA VolCreateAsKeeps ==
  ASSUME TypeOK, PruneInv, NEW v, NEW k, VolCreateAs(v, k)
  PROVE  \A q \in Procs : KeepsDisks(q)
<1>1. \A q \in Procs : v \notin pinned[q] BY DEF PruneInv, VolCreateAs, CanCreateVol
<1>2. \A w : w # v => vmdisk'[w] = vmdisk[w] \/ w \notin VMs
  BY DEF VolCreateAs, TypeOK, PoolTypeOK
<1>3. \A q \in Procs : pinned'[q] = pinned[q] /\ pinned[q] \subseteq VMs
  BY DEF VolCreateAs, TypeOK, PoolTypeOK
<1> QED BY <1>1, <1>2, <1>3 DEF KeepsDisks

\* A prune that ends, or is killed, counts on nothing.
LEMMA UnpinKeeps ==
  ASSUME TypeOK, NEW p, pinned' = [pinned EXCEPT ![p] = {}], UNCHANGED vmdisk
  PROVE  \A q \in Procs : KeepsDisks(q)
BY DEF KeepsDisks, TypeOK, PoolTypeOK

\* Every step but the listing itself keeps the listed disks; the listing keeps
\* those of the others.
LEMMA ProcStepKeeps ==
  ASSUME TypeInv, PruneInv, NEW p \in Procs, ProcStep(p)
  PROVE  /\ ~PruneListVolumes(p) => \A q \in Procs : KeepsDisks(q)
         /\ \A q \in Procs : q # p => KeepsDisks(q)
<1>0. TypeOK BY DEF TypeInv
<1>1. CASE CloneVolDelete(p)
  BY <1>0, <1>1, SameKeeps, VolDeleteKeeps DEF CloneVolDelete, poolVars
<1>2. CASE CloneRemoveFile(p)
  BY <1>0, <1>2, RemoveVmDiskKeeps DEF CloneRemoveFile
<1>3. CASE CloneCreate(p)
  BY <1>0, <1>3, SameKeeps, VolCreateAsKeeps DEF CloneCreate, poolVars
<1>4. CASE PruneListVolumes(p)
  <2>1. \A q \in Procs : q # p => KeepsDisks(q)
    BY <1>0, <1>4 DEF PruneListVolumes, KeepsDisks, TypeOK, PoolTypeOK
  <2> QED BY <1>4, <2>1
<1>5. CASE PruneNext(p) BY <1>0, <1>5, SameKeeps, UnpinKeeps DEF PruneNext
<1>6. CASE PruneDelete(p)
  BY <1>0, <1>6, VolDeleteKeeps, UnpinKeeps DEF PruneDelete
<1>7. CASE RmDisk(p) \/ RmAllDisk(p)
  BY <1>0, <1>7, RemoveDiskFileKeeps DEF RmDisk, RmAllDisk
<1>8. CASE RmUndefine(p)
  BY <1>0, <1>8, SameKeeps, VolDeleteKeeps DEF RmUndefine, poolVars
<1>9. CASE Crash(p) BY <1>0, <1>9, UnpinKeeps DEF Crash
<1>10. CASE UNCHANGED <<vmdisk, pinned>> BY <1>0, <1>10, SameKeeps
<1> QED
  BY <1>1, <1>2, <1>3, <1>4, <1>5, <1>6, <1>7, <1>8, <1>9, <1>10
  DEF ProcStep, CacheStep, Inspect, FindBase, CheckBase, RemoveStale, CreateTemp,
      Install, Validate, Persist, RefreshPool, CloneRefresh, PruneListBases,
      PruneCheck, BeginRun, BeginToBaseDisk, BeginRm, BeginRmAll, BeginStart,
      BeginStop, BeginPrune, Begin, GiveUp, Create, Define, Start, RmState, RmInfo,
      RmDestroy, RmAllList, RmAllInfo, RmAllNext, RmAllDestroy, RmAllUndefine,
      StartState, StopState, Stop, poolVars

-----------------------------------------------------------------------------
(* The process that moves, and the others.                                 *)

\* A process that does not move keeps its part of PruneInv.
LEMMA StillPruneOK ==
  ASSUME PruneInv, NEW q \in Procs, KeepsDisks(q), pc'[q] = pc[q], job'[q] = job[q]
  PROVE  PruneOK(q)'
<1>1. \A v \in pinned'[q] : v \in pinned[q] /\ vmdisk'[v] = vmdisk[v] BY DEF KeepsDisks
<1>2. PruneOK(q) BY DEF PruneInv, PruneOK, Pruning
<1> QED BY <1>1, <1>2 DEF PruneOK, HasDisk, RefersTo

\* Nor has one to show more that is, or arrives, between two candidates.
LEMMA NextPruneOK ==
  ASSUME PruneInv, NEW q \in Procs, KeepsDisks(q),
         \/ pc'[q] \notin Pruning
         \/ pc'[q] = "prune_next" /\ pc[q] \in Pruning /\ job'[q].vols = job[q].vols
  PROVE  PruneOK(q)'
<1>1. \A v \in pinned'[q] : v \in pinned[q] /\ vmdisk'[v] = vmdisk[v] BY DEF KeepsDisks
<1>2. PruneOK(q) BY DEF PruneInv, PruneOK, Pruning
<1> QED BY <1>1, <1>2 DEF PruneOK, HasDisk, Pruning

\* The disks listed exist, and all of them are to be asked.
LEMMA PruneListVolumesOK ==
  ASSUME TypeInv, NEW p \in Procs, PruneListVolumes(p)
  PROVE  PruneOK(p)'
<1>1. /\ pinned'[p] = {v \in VMs \ BaseNamed : HasDisk(v)}
      /\ job'[p].vols = {v \in VMs \ BaseNamed : HasDisk(v)}
      /\ pc'[p] = "prune_next"
      /\ UNCHANGED vmdisk
  BY DEF PruneListVolumes, Goto, TypeInv, TypeOK, PoolTypeOK, Jobs
<1> QED BY <1>1 DEF PruneOK, HasDisk

\* For the next candidate every listed disk is to be asked again.
LEMMA PruneNextOK ==
  ASSUME TypeInv, PruneInv, NEW p \in Procs, PruneNext(p), KeepsDisks(p)
  PROVE  PruneOK(p)'
<1>1. CASE Return(p)
  <2>1. pc'[p] = "idle" BY <1>1 DEF Return, Goto, TypeInv, TypeOK
  <2> QED BY <2>1, NextPruneOK DEF Pruning
<1>2. CASE ~Return(p)
  <2>1. PICK c \in job[p].cands :
          job' = [job EXCEPT ![p] = [job[p] EXCEPT !.cands = @ \ {c}, !.cand = c,
                                                   !.todo = job[p].vols]]
    BY <1>2 DEF PruneNext
  <2>2. job[p] \in Jobs /\ job \in [Procs -> Jobs] BY DEF TypeInv, TypeOK
  <2>3. job'[p].todo = job[p].vols /\ job'[p].vols = job[p].vols
    BY <2>1, <2>2 DEF Jobs
  <2>4. pc'[p] = "prune_check" /\ pc[p] = "prune_next"
    BY <1>2 DEF PruneNext, Goto, TypeInv, TypeOK
  <2>5. pinned[p] \subseteq job[p].vols /\ (\A v \in pinned[p] : HasDisk(v))
    BY <2>4 DEF PruneInv
  <2>6. pinned'[p] \subseteq pinned[p] /\ (\A v \in pinned'[p] : vmdisk'[v] = vmdisk[v])
    BY DEF KeepsDisks
  <2> QED BY <2>3, <2>4, <2>5, <2>6 DEF PruneOK, HasDisk
<1> QED BY <1>1, <1>2

\* A disk leaves the list of those to ask with the answer no.
LEMMA PruneCheckOK ==
  ASSUME TypeInv, PruneInv, NEW p \in Procs, PruneCheck(p)
  PROVE  PruneOK(p)'
<1>0. /\ job[p] \in Jobs
      /\ job \in [Procs -> Jobs]
      /\ pc[p] = "prune_check"
      /\ UNCHANGED <<vmdisk, pinned>>
  BY DEF TypeInv, TypeOK, PruneCheck, poolVars
<1>1. /\ \A v \in pinned[p] : HasDisk(v)
      /\ pinned[p] \subseteq job[p].vols
      /\ \A v \in pinned[p] : v \in job[p].todo \/ ~RefersTo(v, job[p].cand)
  BY <1>0 DEF PruneInv
<1>2. CASE Goto(p, "prune_next") /\ UNCHANGED job
  <2>1. pc'[p] = "prune_next" BY <1>2 DEF Goto, TypeInv, TypeOK
  <2> QED BY <1>0, <1>1, <1>2, <2>1 DEF PruneOK, HasDisk
<1>3. CASE Goto(p, "prune_delete") /\ UNCHANGED job /\ job[p].todo = {}
  <2>1. pc'[p] = "prune_delete" BY <1>3 DEF Goto, TypeInv, TypeOK
  <2> QED BY <1>0, <1>1, <1>3, <2>1 DEF PruneOK, HasDisk, RefersTo
<1>4. ASSUME NEW v \in job[p].todo, ~RefersTo(v, job[p].cand), UNCHANGED pc,
             job' = [job EXCEPT ![p].todo = @ \ {v}]
      PROVE  PruneOK(p)'
  <2>1. /\ job'[p].todo = job[p].todo \ {v}
        /\ job'[p].cand = job[p].cand
        /\ job'[p].vols = job[p].vols
    BY <1>0, <1>4 DEF Jobs
  <2>2. pc'[p] = "prune_check" BY <1>0, <1>4
  <2> QED BY <1>0, <1>1, <1>4, <2>1, <2>2 DEF PruneOK, HasDisk, RefersTo
<1> QED BY <1>2, <1>3, <1>4 DEF PruneCheck

\* After a deletion the prune goes on to the next candidate, or ends.
LEMMA PruneDeleteOK ==
  ASSUME TypeInv, PruneInv, NEW p \in Procs, PruneDelete(p), KeepsDisks(p)
  PROVE  PruneOK(p)'
<1>1. pc[p] \in Pruning BY DEF PruneDelete, Pruning
<1>2. \/ pc'[p] = "prune_next" /\ UNCHANGED job
      \/ pc'[p] = "idle"
  BY DEF PruneDelete, Return, Goto, TypeInv, TypeOK
<1> QED BY <1>1, <1>2, NextPruneOK DEF Pruning

\* No other step leads into the loop over the candidates.
LEMMA NotPruning ==
  ASSUME TypeInv, NEW p \in Procs, ProcStep(p),
         ~PruneListVolumes(p), ~PruneNext(p), ~PruneCheck(p), ~PruneDelete(p)
  PROVE  pc'[p] \notin Pruning
<1>1. \A l : Goto(p, l) => pc'[p] = l BY DEF Goto, TypeInv, TypeOK
<1>2. Return(p) => pc'[p] = "idle" BY <1>1 DEF Return
<1>3. CASE \/ Inspect(p) \/ FindBase(p) \/ CheckBase(p) \/ RemoveStale(p) \/ CreateTemp(p)
           \/ Install(p) \/ Validate(p) \/ Persist(p) \/ RefreshPool(p)
  BY <1>1, <1>2, <1>3
  DEF Inspect, FindBase, CheckBase, RemoveStale, CreateTemp, Install, Validate,
      Persist, RefreshPool, WithBase, Pruning
<1>4. CASE \/ CloneRefresh(p) \/ CloneVolDelete(p) \/ CloneRemoveFile(p)
           \/ CloneCreate(p) \/ PruneListBases(p)
  BY <1>1, <1>2, <1>4
  DEF CloneRefresh, CloneVolDelete, CloneRemoveFile, CloneCreate, PruneListBases, Pruning
<1>5. CASE \/ GiveUp(p) \/ Create(p) \/ Define(p) \/ Start(p) \/ RmState(p) \/ RmInfo(p)
           \/ RmDestroy(p) \/ RmDisk(p) \/ RmUndefine(p)
  BY <1>1, <1>2, <1>5
  DEF GiveUp, Create, Define, Start, RmState, RmInfo, RmDestroy, RmDisk, RmUndefine,
      RmDone, Pruning
<1>6. CASE RmAllList(p) \/ RmAllDestroy(p) \/ RmAllDisk(p) \/ RmAllUndefine(p)
  BY <1>1, <1>2, <1>6 DEF RmAllList, RmAllDestroy, RmAllDisk, RmAllUndefine, Pruning
<1>7. CASE RmAllInfo(p) \/ RmAllNext(p)
  BY <1>1, <1>2, <1>7 DEF RmAllInfo, RmAllNext, Pruning
<1>8. CASE StartState(p) \/ StopState(p) \/ Stop(p) \/ Crash(p)
  BY <1>1, <1>2, <1>8 DEF StartState, StopState, Stop, Crash, Pruning
<1>9. CASE \/ \E v \in VMs : \/ BeginRun(p, v) \/ BeginRm(p, v)
                             \/ BeginStart(p, v) \/ BeginStop(p, v)
           \/ BeginToBaseDisk(p) \/ BeginRmAll(p) \/ BeginPrune(p)
  BY <1>1, <1>9
  DEF BeginRun, BeginRm, BeginStart, BeginStop, BeginToBaseDisk, BeginRmAll,
      BeginPrune, Begin, Pruning
<1> QED
  BY <1>3, <1>4, <1>5, <1>6, <1>7, <1>8, <1>9 DEF ProcStep, CacheStep

\* p's own part of PruneInv after a step of p.
LEMMA MovedPruneOK ==
  ASSUME TypeInv, PruneInv, NEW p \in Procs, ProcStep(p)
  PROVE  PruneOK(p)'
<1>1. CASE PruneListVolumes(p) BY <1>1, PruneListVolumesOK
<1>2. CASE ~PruneListVolumes(p)
  <2>1. KeepsDisks(p) BY <1>2, ProcStepKeeps
  <2>2. CASE PruneNext(p) BY <2>1, <2>2, PruneNextOK
  <2>3. CASE PruneCheck(p) BY <2>3, PruneCheckOK
  <2>4. CASE PruneDelete(p) BY <2>1, <2>4, PruneDeleteOK
  <2>5. CASE ~PruneNext(p) /\ ~PruneCheck(p) /\ ~PruneDelete(p)
    BY <1>2, <2>1, <2>5, NotPruning, NextPruneOK
  <2> QED BY <2>2, <2>3, <2>4, <2>5
<1> QED BY <1>1, <1>2

-----------------------------------------------------------------------------
\* No prune has listed anything at first.
LEMMA PruneInit == Init => PruneInv
<1> SUFFICES ASSUME Init PROVE PruneInv OBVIOUS
<1>1. \A p \in Procs : pinned[p] = {} BY DEF Init, PoolInit
<1> QED BY <1>1 DEF PruneInv

\* PruneInv is inductive over TypeInv.
LEMMA PruneStep == TypeInv /\ PruneInv /\ [Next]_vars => PruneInv'
<1> SUFFICES ASSUME TypeInv, PruneInv, [Next]_vars PROVE PruneInv' OBVIOUS
<1>1. ASSUME NEW p \in Procs, ProcStep(p), NEW q \in Procs PROVE PruneOK(q)'
  <2>1. CASE q = p BY <1>1, <2>1, MovedPruneOK
  <2>2. CASE q # p
    <3>1. PICK l, j : Moves(p, l, j) BY <1>1, ProcStepLocal DEF LocalStep
    <3>2. pc'[q] = pc[q] /\ job'[q] = job[q]
      BY <2>2, <3>1 DEF Moves, TypeInv, TypeOK
    <3>3. KeepsDisks(q) BY <1>1, <2>2, ProcStepKeeps
    <3> QED BY <3>2, <3>3, StillPruneOK
  <2> QED BY <2>1, <2>2
<1>2. Environment \/ UNCHANGED vars => UNCHANGED <<vmdisk, pinned, pc, job>>
  BY DEF Environment, GuestOff, GuestPause, Retag, vars, cacheVars, poolVars
<1>3. CASE UNCHANGED <<vmdisk, pinned, pc, job>>
  BY <1>3 DEF PruneInv, HasDisk, RefersTo
<1>4. CASE \E p \in Procs : ProcStep(p)
  <2>1. \A q \in Procs : PruneOK(q)' BY <1>1, <1>4
  <2> QED BY <2>1 DEF PruneInv, PruneOK, Pruning
<1> QED BY <1>2, <1>3, <1>4 DEF Next

\* What a VM disk told a prune stays true for as long as the disk exists.
THEOREM PruneInvariant == Spec => []PruneInv
<1>1. Init => TypeInv /\ PruneInv BY TypeInit, PruneInit
<1>2. TypeInv /\ PruneInv /\ [Next]_vars => TypeInv' /\ PruneInv' BY TypeStep, PruneStep
<1> QED BY <1>1, <1>2, PTL DEF Spec

\* base_disks.rs, prune: no interleaving with runs, removals and other prunes
\* makes a prune delete the backing file of a disk it listed and that has not
\* been removed since.
THEOREM PruneSafe == Spec => []PruneSparesPinned
<1>1. PruneInv => PruneSparesPinned BY DEF PruneInv, PruneSparesPinned
<1> QED BY <1>1, PruneInvariant, PTL

-----------------------------------------------------------------------------
(***************************************************************************)
(* Proofs about LibvirtVms when commands are given one after the other:    *)
(* each of them may be killed at any point, and guests stop and pause by   *)
(* themselves, but no two commands run at once.  Then disks keep what they *)
(* were cloned from, a domain that is defined can be started, and only the *)
(* right commands remove base disks and VM disks.                          *)
(*                                                                         *)
(* SerialInv is what the commands rely on without asking again.  It is     *)
(* inductive together with the types, the invariant of the cache and that  *)
(* of prune.  With several processes it is false, and so is what follows   *)
(* from it: the configurations MCInstallRace and MCNameRace show how.      *)
(***************************************************************************)


\* One process, whose VMs are persistent and have no name that starts with
\* bootc-base-.
OneAtATime ==
  /\ \A p, q \in Procs : p = q
  /\ Transients \subseteq {FALSE}
  /\ BaseNamed = {}

-----------------------------------------------------------------------------
(* Where a process is.                                                     *)

Making ==
  {"inspect", "find", "check", "rm_stale", "mktemp", "refresh", "define"}
    \cup Installing \cup Cloning
Removing == {"rm_disk", "rm_undefine", "rmall_disk", "rmall_undefine"}
Undefining == {"rm_undefine", "rmall_undefine"}
RmAlling == {"rmall_info", "rmall_next", "rmall_destroy", "rmall_disk", "rmall_undefine"}

-----------------------------------------------------------------------------
(* The invariant.                                                          *)

\* A domain without its disk.
Lost(v) == Exists(v) /\ ~HasDisk(v)

\* Each disk lies on the base disk of the image it names.
DisksOK ==
  \A v \in VMs : HasDisk(v) =>
    /\ base[vmdisk[v].back] = vmdisk[v].ino
    /\ meta[vmdisk[v].ino] = vmdisk[v].back

\* What p knows of the pool.
PoolOK(p) ==
  /\ pc[p] = "rm_stale" =>
       base[job[p].key] = 0 \/ meta[base[job[p].key]] # job[p].key
  /\ pc[p] \in {"mktemp"} \cup Installing => base[job[p].key] = 0
  /\ pc[p] \in Pruning => \A v \in VMs : HasDisk(v) => v \in pinned[p]
  /\ \A c \in job[p].cands : c.kind # "vm"
  /\ job[p].cand.kind # "vm"
  /\ pc[p] \in {"clone_rmfile", "clone_create"} => VmVol(job[p].vm) \notin known
  /\ pc[p] = "clone_create" => ~HasDisk(job[p].vm)

\* p opens no base disk for a domain.
OwnDisk(p) ==
  /\ pc[p] # "create" /\ ~job[p].transient /\ job[p].base = NoKey
  /\ \A e \in job[p].snap : e.base = NoKey

\* What p knows of the domains.
DomOK(p) ==
  /\ pc[p] \in Making /\ (job[p].cmd = "run" \/ pc[p] \in Cloning \cup {"define"}) =>
       ~Exists(job[p].vm)
  /\ pc[p] \in Removing => dom[job[p].vm].state # "running"
  /\ pc[p] = "rm_info" /\ job[p].state # "running" => dom[job[p].vm].state # "running"
  /\ pc[p] \notin RmAlling => job[p].snap = {}
  /\ pc[p] = "rm_destroy" /\ ~job[p].persistent => ~dom[job[p].vm].persistent
  /\ \A e \in job[p].snap :
       /\ e.state # "running" => dom[e.vm].state # "running"
       /\ e.vm \notin job[p].todo
       /\ pc[p] \in {"rmall_destroy", "rmall_disk", "rmall_undefine"} => e.vm # job[p].vm
       /\ \A f \in job[p].snap : e.vm = f.vm => e = f

\* No domain opens a base disk; one that is not persistent is gone when it stops.
DomShape(v) ==
  dom[v].base = NoKey /\ (dom[v].state = "shut off" => dom[v].persistent)

\* v has its disk, or is being undefined; or its removal has failed, or it goes
\* when its guest does.
VmKeeps(v) ==
  Lost(v) => \/ dom[v].failed
             \/ ~dom[v].persistent
             \/ \E p \in Procs : job[p].vm = v /\ pc[p] \in Undefining

\* The domain p is about to define has its disk.
ProcKeeps(p) == pc[p] = "define" => HasDisk(job[p].vm)

\* A command that is killed may leave a domain without its disk.
LossOK ==
  crashes = 0 => (\A v \in VMs : VmKeeps(v)) /\ (\A p \in Procs : ProcKeeps(p))

SerialInv ==
  /\ DisksOK
  /\ LossOK
  /\ \A v \in VMs : DomShape(v)
  /\ \A p \in Procs : PoolOK(p) /\ OwnDisk(p) /\ DomOK(p)

-----------------------------------------------------------------------------
(* The local variables.                                                    *)

\* Where a process is after a step, and what it knows after it returns.
LEMMA After ==
  ASSUME TypeInv, NEW p \in Procs
  PROVE  /\ \A l : Goto(p, l) => pc'[p] = l
         /\ Return(p) => pc'[p] = "idle" /\ job'[p] = NoJob
         /\ pc[p] \in Labels /\ job[p] \in Jobs /\ LocalOK(pc[p], job[p])
BY DEF Goto, Return, TypeInv, TypeOK

\* A command that has returned knows nothing that could be wrong.
LEMMA ReturnOK ==
  ASSUME TypeInv, NEW p \in Procs, Return(p)
  PROVE  PoolOK(p)' /\ OwnDisk(p)' /\ DomOK(p)'
<1>1. pc'[p] = "idle" /\ job'[p] = NoJob BY After
<1> QED
  BY <1>1
  DEF NoJob, NoVol, PoolOK, OwnDisk, DomOK, Installing, Cloning, Pruning, Making, Removing,
      RmAlling

\* Nor does one that begins, on a name that is not in use.
LEMMA BeginOK ==
  ASSUME TypeInv, NEW p \in Procs, NEW cmd, NEW v, NEW l, Begin(p, cmd, v, FALSE, l),
         l \in {"inspect", "rm_state", "rmall_list", "start_state", "stop_state",
                "prune_bases"},
         l = "inspect" /\ cmd = "run" => ~Exists(v)
  PROVE  PoolOK(p)' /\ OwnDisk(p)' /\ DomOK(p)'
<1>1. /\ pc'[p] = l
      /\ job'[p] = [NoJob EXCEPT !.cmd = cmd, !.vm = v, !.transient = FALSE]
      /\ dom' = dom
  BY After DEF Begin, TypeInv, TypeOK
<1>2. /\ job'[p].cmd = cmd /\ job'[p].vm = v /\ ~job'[p].transient
      /\ job'[p].base = NoKey /\ job'[p].snap = {} /\ job'[p].cands = {}
      /\ job'[p].cand = NoVol
  BY <1>1 DEF NoJob
<1> QED
  BY <1>1, <1>2
  DEF NoVol, PoolOK, OwnDisk, DomOK, Installing, Cloning, Pruning, Making, Removing,
      RmAlling, Exists

\* The start of any command.
LEMMA BeginsOK ==
  ASSUME TypeInv, OneAtATime, NEW p \in Procs,
         \/ \E v \in VMs : \/ BeginRun(p, v) \/ BeginRm(p, v)
                           \/ BeginStart(p, v) \/ BeginStop(p, v)
         \/ BeginToBaseDisk(p) \/ BeginRmAll(p) \/ BeginPrune(p)
  PROVE  PoolOK(p)' /\ OwnDisk(p)' /\ DomOK(p)'
BY BeginOK
DEF OneAtATime, BeginRun, BeginRm, BeginStart, BeginStop, BeginToBaseDisk, BeginRmAll,
    BeginPrune

-----------------------------------------------------------------------------
(* What the actions do to the local variables that matter here.            *)

\* p works on the same VM, and knows the same of it.
SameVm(p) ==
  /\ job'[p].cmd = job[p].cmd /\ job'[p].vm = job[p].vm
  /\ job'[p].transient = job[p].transient /\ job'[p].base = job[p].base
  /\ job'[p].snap = job[p].snap /\ job'[p].state = job[p].state
  /\ job'[p].persistent = job[p].persistent

\* p, a prune, still has the same files to look at.
SameCands(p) == job'[p].cands = job[p].cands /\ job'[p].cand = job[p].cand

\* The key and the temporary file are not what a VM or a candidate is.
LEMMA RunLocals ==
  ASSUME TypeInv, NEW p \in Procs, Inspect(p) \/ CreateTemp(p) \/ Persist(p), ~Return(p)
  PROVE  /\ SameVm(p) /\ SameCands(p)
         /\ Inspect(p) => pc'[p] = "find"
         /\ CreateTemp(p) => pc'[p] = "install" /\ job'[p].key = job[p].key
         /\ Persist(p) => pc'[p] = "refresh" /\ job'[p].key = job[p].key
<1>0. job \in [Procs -> Jobs] /\ job[p] \in Jobs BY DEF TypeInv, TypeOK
<1>1. CASE Inspect(p)
  <2>1. SameVm(p) /\ SameCands(p) BY <1>0, <1>1 DEF Inspect, SameVm, SameCands, Jobs
  <2> QED BY <1>1, <2>1, After DEF Inspect, CreateTemp, Persist
<1>2. CASE CreateTemp(p)
  <2>1. PICK t : job' = [job EXCEPT ![p].tmp = t] BY <1>2 DEF CreateTemp
  <2>2. SameVm(p) /\ SameCands(p) /\ job'[p].key = job[p].key
    BY <1>0, <2>1 DEF SameVm, SameCands, Jobs
  <2> QED BY <1>2, <2>2, After DEF Inspect, CreateTemp, Persist
<1>3. CASE Persist(p)
  <2>1. job' = [job EXCEPT ![p].tmp = NoTemp] BY <1>3 DEF Persist
  <2>2. SameVm(p) /\ SameCands(p) /\ job'[p].key = job[p].key
    BY <1>0, <2>1 DEF SameVm, SameCands, Jobs
  <2> QED BY <1>3, <2>2, After DEF Inspect, CreateTemp, Persist
<1> QED BY <1>1, <1>2, <1>3

\* A prune goes through the files it takes for base disks.
LEMMA PruneLocals ==
  ASSUME TypeInv, NEW p \in Procs, ~Return(p),
         PruneListBases(p) \/ PruneListVolumes(p) \/ PruneNext(p) \/ PruneCheck(p)
  PROVE  /\ SameVm(p)
         /\ PruneListBases(p) =>
              /\ pc'[p] = "prune_vols" /\ job'[p].cand = job[p].cand
              /\ BaseNamed = {} => \A c \in job'[p].cands : c.kind # "vm"
         /\ PruneListVolumes(p) => pc'[p] = "prune_next" /\ SameCands(p)
         /\ PruneNext(p) =>
              /\ pc'[p] = "prune_check"
              /\ job'[p].cands \subseteq job[p].cands /\ job'[p].cand \in job[p].cands
         /\ PruneCheck(p) => pc'[p] \in Pruning /\ SameCands(p)
<1>0. job \in [Procs -> Jobs] /\ job[p] \in Jobs BY DEF TypeInv, TypeOK
<1>1. CASE PruneListBases(p)
  <2> DEFINE C ==
        {BaseVol(k) : k \in {b \in Keys : base[b] # 0}}
          \cup {TempVol(t) : t \in {u \in Temps : temp[u] # 0}}
          \cup {VmVol(v) : v \in {w \in BaseNamed : HasDisk(w)}}
  <2>1. job' = [job EXCEPT ![p].cands = C] BY <1>1 DEF PruneListBases
  <2>2. BaseNamed = {} => \A c \in C : c.kind # "vm" BY DEF BaseVol, TempVol
  <2> HIDE DEF C
  <2>3. SameVm(p) /\ job'[p].cand = job[p].cand /\ job'[p].cands = C
    BY <1>0, <2>1 DEF SameVm, Jobs
  <2> QED
    BY <1>1, <2>2, <2>3, After
    DEF PruneListBases, PruneListVolumes, PruneNext, PruneCheck
<1>2. CASE PruneListVolumes(p)
  <2>1. PICK V : job' = [job EXCEPT ![p].vols = V] BY <1>2 DEF PruneListVolumes
  <2>2. SameVm(p) /\ SameCands(p) BY <1>0, <2>1 DEF SameVm, SameCands, Jobs
  <2> QED
    BY <1>2, <2>2, After
    DEF PruneListBases, PruneListVolumes, PruneNext, PruneCheck
<1>3. CASE PruneNext(p)
  <2>1. PICK c \in job[p].cands :
          job' = [job EXCEPT ![p].cands = @ \ {c}, ![p].cand = c, ![p].todo = job[p].vols]
    BY <1>3 DEF PruneNext
  <2>2. /\ SameVm(p)
        /\ job'[p].cands \subseteq job[p].cands /\ job'[p].cand \in job[p].cands
    BY <1>0, <2>1 DEF SameVm, Jobs
  <2> QED
    BY <1>3, <2>2, After
    DEF PruneListBases, PruneListVolumes, PruneNext, PruneCheck
<1>4. CASE PruneCheck(p)
  <2>1. UNCHANGED job \/ \E T : job' = [job EXCEPT ![p].todo = T]
    BY <1>4 DEF PruneCheck
  <2>2. SameVm(p) /\ SameCands(p) BY <1>0, <2>1 DEF SameVm, SameCands, Jobs
  <2> QED
    BY <1>4, <2>2, After
    DEF PruneListBases, PruneListVolumes, PruneNext, PruneCheck, Pruning
<1> QED BY <1>1, <1>2, <1>3, <1>4

\* A removal notes the domain's state, and whether it is persistent.
LEMMA RmLocals ==
  ASSUME TypeInv, NEW p \in Procs
  PROVE  /\ RmState(p) /\ ~RmDone(p) =>
              /\ SameCands(p) /\ pc'[p] = "rm_info" /\ job'[p].vm = job[p].vm
              /\ job'[p].state = dom[job[p].vm].state
              /\ job'[p].transient = job[p].transient
              /\ job'[p].base = job[p].base /\ job'[p].snap = job[p].snap
         /\ RmInfo(p) /\ ~Return(p) =>
              /\ SameCands(p) /\ job'[p].vm = job[p].vm
              /\ pc'[p] = IF job[p].state = "running" THEN "rm_destroy" ELSE "rm_disk"
              /\ job'[p].base = dom[job[p].vm].base
              /\ job'[p].persistent = dom[job[p].vm].persistent
              /\ job'[p].transient = job[p].transient /\ job'[p].snap = job[p].snap
<1>0. job \in [Procs -> Jobs] /\ job[p] \in Jobs BY DEF TypeInv, TypeOK
<1>1. ASSUME RmState(p), ~RmDone(p)
      PROVE  /\ SameCands(p) /\ pc'[p] = "rm_info" /\ job'[p].vm = job[p].vm
             /\ job'[p].state = dom[job[p].vm].state
             /\ job'[p].transient = job[p].transient
             /\ job'[p].base = job[p].base /\ job'[p].snap = job[p].snap
  BY <1>0, <1>1, After DEF RmState, SameCands, Jobs
<1>2. ASSUME RmInfo(p), ~Return(p)
      PROVE  /\ SameCands(p) /\ job'[p].vm = job[p].vm
             /\ pc'[p] = IF job[p].state = "running" THEN "rm_destroy" ELSE "rm_disk"
             /\ job'[p].base = dom[job[p].vm].base
             /\ job'[p].persistent = dom[job[p].vm].persistent
             /\ job'[p].transient = job[p].transient /\ job'[p].snap = job[p].snap
  BY <1>0, <1>2, After DEF RmInfo, SameCands, Jobs
<1> QED BY <1>1, <1>2

\* What rm-all notes of a domain.
Entry(v) == [vm |-> v, state |-> dom[v].state, base |-> dom[v].base]

\* rm-all notes every domain, and then takes one after the other.
LEMMA RmAllLocals ==
  ASSUME TypeInv, NEW p \in Procs,
         RmAllList(p) \/ RmAllInfo(p) \/ (RmAllNext(p) /\ ~Return(p))
  PROVE  /\ SameCands(p) /\ job'[p].transient = job[p].transient /\ pc'[p] \in RmAlling
         /\ RmAllList(p) => pc'[p] = "rmall_info" /\ SameVm(p)
         /\ RmAllInfo(p) =>
              /\ pc'[p] \in {"rmall_info", "rmall_next"} /\ job'[p].base = job[p].base
              /\ \/ SameVm(p) /\ job'[p].todo \subseteq job[p].todo
                 \/ \E v \in job[p].todo :
                      /\ job'[p].todo = job[p].todo \ {v}
                      /\ job'[p].snap = job[p].snap \cup {Entry(v)}
         /\ RmAllNext(p) =>
              \E e \in job[p].snap :
                /\ job'[p].snap = job[p].snap \ {e} /\ job'[p].todo = job[p].todo
                /\ job'[p].vm = e.vm /\ job'[p].base = e.base
                /\ \/ pc'[p] \in {"rmall_destroy", "rmall_next"} /\ e.state = "running"
                   \/ pc'[p] = "rmall_disk" /\ e.state # "running"
<1>0. /\ job \in [Procs -> Jobs] /\ job[p] \in Jobs /\ pc \in [Procs -> Labels]
      /\ \A l : Goto(p, l) => pc'[p] = l
  BY After DEF TypeInv, TypeOK
<1> USE DEF RmAllList, RmAllInfo, RmAllNext, RmAlling
<1>1. CASE RmAllList(p)
  <2>1. PICK T : job' = [job EXCEPT ![p].todo = T] BY <1>1
  <2>2. SameVm(p) /\ SameCands(p) BY <1>0, <2>1 DEF SameVm, SameCands, Jobs
  <2> QED BY <1>0, <1>1, <2>2 DEF SameVm
<1>2. CASE RmAllInfo(p)
  <2>1. CASE UNCHANGED job BY <1>0, <1>2, <2>1 DEF SameVm, SameCands
  <2>2. CASE ~UNCHANGED job
    <3>1. PICK v \in job[p].todo :
            job' = [job EXCEPT ![p].todo = @ \ {v},
                               ![p].snap = IF Exists(v) THEN @ \cup {Entry(v)} ELSE @]
      BY <1>2, <2>2 DEF Entry
    <3>2. /\ SameCands(p) /\ job'[p].transient = job[p].transient
          /\ job'[p].base = job[p].base
          /\ job'[p].todo = job[p].todo \ {v}
      BY <1>0, <3>1 DEF SameCands, Jobs
    <3>3. \/ job'[p].snap = job[p].snap \cup {Entry(v)}
          \/ SameVm(p)
      BY <1>0, <3>1 DEF SameVm, Jobs
    <3> QED BY <1>0, <1>2, <2>2, <3>2, <3>3
  <2> QED BY <2>1, <2>2
<1>3. CASE RmAllNext(p) /\ ~Return(p)
  <2>0. pc[p] = "rmall_next" BY <1>3
  <2>1. PICK e \in job[p].snap :
          /\ job' = [job EXCEPT ![p].snap = @ \ {e}, ![p].vm = e.vm, ![p].base = e.base]
          /\ \/ e.state = "running" /\ (Goto(p, "rmall_destroy") \/ UNCHANGED pc)
             \/ e.state # "running" /\ Goto(p, "rmall_disk")
    BY <1>3
  <2>2. /\ SameCands(p) /\ job'[p].transient = job[p].transient
        /\ job'[p].snap = job[p].snap \ {e} /\ job'[p].todo = job[p].todo
        /\ job'[p].vm = e.vm /\ job'[p].base = e.base
    BY <1>0, <2>1 DEF SameCands, Jobs
  <2>3. \/ pc'[p] \in {"rmall_destroy", "rmall_next"} /\ e.state = "running"
        \/ pc'[p] = "rmall_disk" /\ e.state # "running"
    <3>1. CASE e.state = "running" /\ (Goto(p, "rmall_destroy") \/ UNCHANGED pc)
      BY <1>0, <2>0, <3>1
    <3>2. CASE e.state # "running" /\ Goto(p, "rmall_disk") BY <1>0, <3>2
    <3> QED BY <2>1, <3>1, <3>2
  <2>4. ~RmAllList(p) /\ ~RmAllInfo(p) BY <2>0
  <2>5. pc'[p] \in RmAlling BY <2>3
  <2>6. \E f \in job[p].snap :
          /\ job'[p].snap = job[p].snap \ {f} /\ job'[p].todo = job[p].todo
          /\ job'[p].vm = f.vm /\ job'[p].base = f.base
          /\ \/ pc'[p] \in {"rmall_destroy", "rmall_next"} /\ f.state = "running"
             \/ pc'[p] = "rmall_disk" /\ f.state # "running"
    BY <2>2, <2>3
  <2> HIDE DEF RmAllList, RmAllInfo, RmAllNext, RmAlling
  <2> QED BY <2>2, <2>4, <2>5, <2>6
<1> QED BY <1>1, <1>2, <1>3

-----------------------------------------------------------------------------
(* Base disks stay the domains' backing files, never their own.            *)

\* No process opens a base disk.
LEMMA OwnDiskStep ==
  ASSUME TypeInv, OneAtATime, SerialInv, NEW p \in Procs, ProcStep(p)
  PROVE  OwnDisk(p)'
<1>0. /\ pc[p] # "create" /\ ~job[p].transient /\ job[p].base = NoKey
      /\ \A e \in job[p].snap : e.base = NoKey
      /\ \A v \in VMs : dom[v].base = NoKey
  BY DEF SerialInv, OwnDisk, DomShape
<1>1. CASE Return(p) BY <1>1, ReturnOK
<1>2. CASE job' = job /\ pc'[p] # "create" BY <1>0, <1>2 DEF OwnDisk
<1>3. CASE ~Return(p) /\ (Inspect(p) \/ CreateTemp(p) \/ Persist(p))
  BY <1>0, <1>3, RunLocals DEF OwnDisk, SameVm
<1>4. CASE CheckBase(p) \/ RefreshPool(p)
  BY <1>0, <1>1, <1>2, <1>4, After DEF CheckBase, RefreshPool, WithBase
<1>5. CASE ~Return(p) /\ (PruneListBases(p) \/ PruneListVolumes(p) \/ PruneNext(p)
                            \/ PruneCheck(p))
  BY <1>0, <1>5, PruneLocals DEF OwnDisk, SameVm, Pruning
<1>6. CASE RmState(p)
  BY <1>0, <1>1, <1>2, <1>6, After, RmLocals DEF RmDone, OwnDisk
<1>7. CASE RmInfo(p) /\ ~Return(p)
  BY <1>0, <1>7, After, RmLocals DEF RmInfo, LocalOK, WithVm, OwnDisk
<1>8. CASE RmAllList(p) \/ RmAllInfo(p) \/ (RmAllNext(p) /\ ~Return(p))
  <2>1. /\ pc'[p] # "create" /\ ~job'[p].transient
    BY <1>0, <1>8, RmAllLocals DEF RmAlling
  <2>2. job[p].todo \subseteq VMs BY After DEF Jobs
  <2>3. job'[p].base = NoKey /\ \A e \in job'[p].snap : e.base = NoKey
    BY <1>0, <1>8, <2>2, RmAllLocals DEF SameVm, Entry
  <2> QED BY <2>1, <2>3 DEF OwnDisk
<1>9. CASE \/ \E v \in VMs : \/ BeginRun(p, v) \/ BeginRm(p, v)
                             \/ BeginStart(p, v) \/ BeginStop(p, v)
           \/ BeginToBaseDisk(p) \/ BeginRmAll(p) \/ BeginPrune(p)
  BY <1>9, BeginsOK
<1>10. CASE \/ FindBase(p) \/ RemoveStale(p) \/ Install(p) \/ Validate(p)
            \/ CloneRefresh(p) \/ CloneVolDelete(p) \/ CloneRemoveFile(p) \/ CloneCreate(p)
            \/ PruneDelete(p)
  BY <1>1, <1>2, <1>10, After
  DEF FindBase, RemoveStale, Install, Validate, CloneRefresh, CloneVolDelete,
      CloneRemoveFile, CloneCreate, PruneDelete
<1>11. CASE \/ GiveUp(p) \/ Create(p) \/ Define(p) \/ Start(p) \/ RmDestroy(p)
            \/ RmDisk(p) \/ RmUndefine(p) \/ RmAllDestroy(p) \/ RmAllDisk(p)
            \/ RmAllUndefine(p) \/ StartState(p) \/ StopState(p) \/ Stop(p) \/ Crash(p)
  BY <1>1, <1>2, <1>11, After
  DEF GiveUp, Create, Define, Start, RmDestroy, RmDisk, RmUndefine, RmDone, RmAllDestroy,
      RmAllDisk, RmAllUndefine, StartState, StopState, Stop, Crash
<1> QED
  BY <1>1, <1>3, <1>4, <1>5, <1>6, <1>7, <1>8, <1>9, <1>10, <1>11
  DEF ProcStep, CacheStep

-----------------------------------------------------------------------------
(* The domains.                                                            *)

\* Nor does any domain, and those that are shut off are persistent.
LEMMA DomShapeStep ==
  ASSUME TypeInv, SerialInv, [Next]_vars
  PROVE  \A v \in VMs : DomShape(v)'
<1>1. /\ \A v \in VMs : DomShape(v)
      /\ \A p \in Procs : pc[p] # "create"
      /\ dom \in [VMs -> Domain]
  BY DEF SerialInv, OwnDisk, TypeInv, TypeOK
<1>2. CASE UNCHANGED dom BY <1>1, <1>2 DEF DomShape
<1>3. ASSUME NEW v \in VMs, dom' = [dom EXCEPT ![v] = Destroyed(v)]
      PROVE  \A w \in VMs : DomShape(w)'
  BY <1>1, <1>3 DEF Destroyed, NoDomain, Domain, DomShape
<1>4. ASSUME NEW v \in VMs, dom' = [dom EXCEPT ![v] = NoDomain]
      PROVE  \A w \in VMs : DomShape(w)'
  BY <1>1, <1>4 DEF NoDomain, DomShape
<1>5. ASSUME NEW v \in VMs, dom' = RemovalFailed(v)
      PROVE  \A w \in VMs : DomShape(w)'
  BY <1>1, <1>5 DEF RemovalFailed, Domain, DomShape
<1>6. ASSUME NEW p \in Procs, ProcStep(p)
      PROVE  \A v \in VMs : DomShape(v)'
  <2>1. pc[p] \in WithVm => job[p].vm \in VMs BY After DEF LocalOK
  <2>2. CASE Define(p) BY <1>1, <2>1, <2>2 DEF Define, WithVm, Domain, DomShape
  <2>3. CASE Start(p) BY <1>1, <1>2, <2>1, <2>3 DEF Start, WithVm, Domain, DomShape
  <2>4. CASE RmUndefine(p) BY <1>4, <1>5, <2>1, <2>4 DEF RmUndefine, WithVm
  <2>5. CASE RmAllUndefine(p)
    <3>1. job[p].vm \in VMs BY <2>1, <2>5 DEF RmAllUndefine, WithVm
    <3>2. CASE Active(job[p].vm) /\ dom' = [dom EXCEPT ![job[p].vm].persistent = FALSE]
      BY <1>1, <3>1, <3>2 DEF Active, Domain, DomShape
    <3> QED BY <1>4, <1>5, <2>5, <3>1, <3>2 DEF RmAllUndefine
  <2>6. CASE RmDestroy(p) \/ RmAllDestroy(p) \/ Stop(p)
    BY <1>2, <1>3, <2>1, <2>6 DEF RmDestroy, RmAllDestroy, Stop, WithVm
  <2> QED
    BY <1>1, <1>2, <1>6, <2>2, <2>3, <2>4, <2>5, <2>6
    DEF ProcStep, BeginRun, BeginRm, BeginRmAll, BeginStart, BeginStop,
        BeginToBaseDisk, BeginPrune, Begin, GiveUp, Create, RmState, RmInfo, RmDisk,
        RmAllList, RmAllInfo, RmAllNext, RmAllDisk, StartState, StopState, Crash
<1>7. CASE Environment
  BY <1>1, <1>2, <1>3, <1>7 DEF Environment, GuestOff, GuestPause, Domain, DomShape
<1> QED BY <1>2, <1>6, <1>7 DEF Next, vars

\* A step between the parts of a run that leaves the domains alone.
LEMMA DomQuiet ==
  ASSUME NEW p \in Procs, DomOK(p), UNCHANGED dom, SameVm(p), pc[p] \notin RmAlling,
         pc'[p] \notin Removing \cup RmAlling \cup {"rm_info", "rm_destroy"},
         pc'[p] \in Making => pc[p] \in Making,
         pc'[p] \in Cloning \cup {"define"} =>
           pc[p] \in Cloning \cup {"define"} \/ job[p].cmd = "run"
  PROVE  DomOK(p)'
BY DEF DomOK, SameVm, Exists, Making

\* What a process knows of the domains stays true in its own steps.
LEMMA DomStep ==
  ASSUME TypeInv, OneAtATime, SerialInv, NEW p \in Procs, ProcStep(p)
  PROVE  DomOK(p)'
<1>0. /\ DomOK(p)
      /\ pc[p] \in WithVm => job[p].vm \in VMs
      /\ pc[p] \in Basing \cup {"inspect"} => job[p].cmd \in {"run", "to-base-disk"}
      /\ dom \in [VMs -> Domain]
      /\ job[p].todo \subseteq VMs
      /\ \A e \in job[p].snap : e.vm \in VMs
  BY After DEF SerialInv, LocalOK, TypeInv, TypeOK, Jobs, Listed
<1>1. CASE Return(p) BY <1>1, ReturnOK
<1>2. UNCHANGED job => SameVm(p) BY DEF SameVm
<1>3. CASE CacheStep(p) /\ UNCHANGED <<dom, crashes>>
  <2> USE DEF Making, Removing, RmAlling, Installing, Cloning, Basing
  <2>1. CASE Return(p) BY <2>1, <1>1
  <2>2. CASE ~Return(p) /\ (Inspect(p) \/ CreateTemp(p) \/ Persist(p))
    BY <1>0, <1>3, <2>2, RunLocals, DomQuiet DEF Inspect, CreateTemp, Persist
  <2>3. CASE ~Return(p) /\ (CheckBase(p) \/ RefreshPool(p))
    BY <1>0, <1>2, <1>3, <2>3, After, DomQuiet DEF CheckBase, RefreshPool, WithBase
  <2>4. CASE ~Return(p) /\ (PruneListBases(p) \/ PruneListVolumes(p) \/ PruneNext(p)
                              \/ PruneCheck(p))
    BY <1>0, <1>3, <2>4, PruneLocals, DomQuiet
    DEF PruneListBases, PruneListVolumes, PruneNext, PruneCheck, Pruning
  <2>5. CASE ~Return(p) /\ (FindBase(p) \/ RemoveStale(p) \/ Install(p) \/ Validate(p))
    BY <1>0, <1>2, <1>3, <2>5, After, DomQuiet
    DEF FindBase, RemoveStale, Install, Validate
  <2>6. CASE ~Return(p) /\ (\/ CloneRefresh(p) \/ CloneVolDelete(p) \/ CloneRemoveFile(p)
                            \/ CloneCreate(p) \/ PruneDelete(p))
    BY <1>0, <1>2, <1>3, <2>6, After, DomQuiet
    DEF CloneRefresh, CloneVolDelete, CloneRemoveFile, CloneCreate, PruneDelete
  <2> QED BY <1>3, <2>1, <2>2, <2>3, <2>4, <2>5, <2>6 DEF CacheStep
<1>4. CASE \/ \E v \in VMs : \/ BeginRun(p, v) \/ BeginRm(p, v)
                             \/ BeginStart(p, v) \/ BeginStop(p, v)
           \/ BeginToBaseDisk(p) \/ BeginRmAll(p) \/ BeginPrune(p)
  BY <1>4, BeginsOK
<1>5. CASE GiveUp(p) \/ Create(p) \/ Start(p) \/ Stop(p) \/ Crash(p)
  BY <1>1, <1>5 DEF GiveUp, Create, Start, Stop, Crash
<1>6. CASE Define(p)
  BY <1>0, <1>6, After DEF Define, DomOK, Making, Removing, RmAlling, Installing, Cloning
<1>7. CASE StartState(p) \/ StopState(p)
  BY <1>0, <1>1, <1>2, <1>7, After, DomQuiet
  DEF StartState, StopState, Making, Removing, RmAlling, Installing, Cloning
<1>8. CASE RmState(p)
  <2>1. CASE RmDone(p)
    BY <1>0, <1>1, <1>8, <2>1, After
    DEF RmState, RmDone, Exists, DomOK, Making, Removing, RmAlling, Installing, Cloning
  <2>2. CASE ~RmDone(p)
    BY <1>0, <1>8, <2>2, RmLocals
    DEF RmState, DomOK, Making, Removing, RmAlling, Installing, Cloning
  <2> QED BY <2>1, <2>2
<1>9. CASE RmInfo(p) /\ ~Return(p)
  <2>1. /\ pc[p] = "rm_info" /\ dom' = dom /\ job[p].snap = {}
        /\ job[p].state # "running" => dom[job[p].vm].state # "running"
    BY <1>0, <1>9 DEF RmInfo, DomOK, RmAlling
  <2>2. /\ pc'[p] = IF job[p].state = "running" THEN "rm_destroy" ELSE "rm_disk"
        /\ job'[p].vm = job[p].vm /\ job'[p].snap = {}
        /\ job'[p].persistent = dom[job[p].vm].persistent
    BY <1>9, <2>1, RmLocals
  <2> QED BY <2>1, <2>2 DEF DomOK, Making, Removing, RmAlling, Installing, Cloning
<1>10. CASE RmDestroy(p) /\ ~Return(p)
  <2>1. /\ pc[p] = "rm_destroy" /\ job[p].vm \in VMs /\ job' = job /\ job[p].snap = {}
        /\ dom' = [dom EXCEPT ![job[p].vm] = Destroyed(job[p].vm)]
    BY <1>0, <1>10 DEF RmDestroy, RmDone, WithVm, DomOK, RmAlling
  <2>2. CASE pc'[p] = "rm_disk"
    <3>1. dom'[job[p].vm].state # "running"
      BY <1>0, <2>1 DEF Destroyed, NoDomain, Domain
    <3> QED BY <2>1, <2>2, <3>1 DEF DomOK, Making, RmAlling, Installing, Cloning
  <2>3. CASE pc'[p] = "inspect" /\ ~job[p].persistent
    <3>1. dom'[job[p].vm].state = "absent"
      BY <1>0, <2>1, <2>3 DEF DomOK, Destroyed, NoDomain
    <3> QED BY <2>1, <2>3, <3>1 DEF DomOK, Exists, Removing, RmAlling
  <2> QED BY <1>10, <2>2, <2>3, After DEF RmDestroy, RmDone
<1>11. CASE RmDisk(p)
  BY <1>0, <1>11, After
  DEF RmDisk, DomOK, Making, Removing, RmAlling, Installing, Cloning, WithVm
<1>12. CASE RmUndefine(p) /\ ~Return(p)
  <2>1. /\ pc[p] = "rm_undefine" /\ job[p].vm \in VMs /\ job' = job /\ job[p].snap = {}
        /\ pc'[p] = "inspect" /\ dom' = [dom EXCEPT ![job[p].vm] = NoDomain]
    BY <1>0, <1>12, After DEF RmUndefine, RmDone, WithVm, DomOK, RmAlling
  <2>2. dom'[job[p].vm].state = "absent" BY <1>0, <2>1 DEF NoDomain
  <2> QED BY <2>1, <2>2 DEF DomOK, Exists, Removing, RmAlling
<1>13. CASE RmAllList(p)
  BY <1>0, <1>13, RmAllLocals
  DEF RmAllList, SameVm, DomOK, Making, Removing, RmAlling, Installing, Cloning
<1>14. CASE RmAllInfo(p)
  <2>1. /\ pc[p] = "rmall_info" /\ UNCHANGED dom /\ pc'[p] \in {"rmall_info", "rmall_next"}
    BY <1>14, RmAllLocals DEF RmAllInfo
  <2>2. ASSUME NEW e \in job'[p].snap
        PROVE  /\ e.state # "running" => dom[e.vm].state # "running"
               /\ e.vm \notin job'[p].todo
               /\ \A f \in job'[p].snap : e.vm = f.vm => e = f
    <3>1. CASE SameVm(p) /\ job'[p].todo \subseteq job[p].todo
      BY <1>0, <3>1 DEF SameVm, DomOK
    <3>2. CASE \E v \in job[p].todo : /\ job'[p].todo = job[p].todo \ {v}
                                      /\ job'[p].snap = job[p].snap \cup {Entry(v)}
      <4>1. PICK v \in job[p].todo : /\ job'[p].todo = job[p].todo \ {v}
                                     /\ job'[p].snap = job[p].snap \cup {Entry(v)}
        BY <3>2
      <4>2. Entry(v).vm = v /\ Entry(v).state = dom[v].state BY DEF Entry
      <4> QED BY <1>0, <2>2, <4>1, <4>2 DEF DomOK
    <3> QED BY <1>14, <3>1, <3>2, RmAllLocals
  <2> QED BY <2>1, <2>2 DEF DomOK, Making, Removing, RmAlling, Installing, Cloning
<1>15. CASE RmAllNext(p) /\ ~Return(p)
  <2>1. pc[p] = "rmall_next" /\ UNCHANGED dom BY <1>15 DEF RmAllNext
  <2>2. PICK e \in job[p].snap :
          /\ job'[p].snap = job[p].snap \ {e} /\ job'[p].todo = job[p].todo
          /\ job'[p].vm = e.vm /\ job'[p].base = e.base
          /\ \/ pc'[p] \in {"rmall_destroy", "rmall_next"} /\ e.state = "running"
             \/ pc'[p] = "rmall_disk" /\ e.state # "running"
    BY <1>15, RmAllLocals
  <2> QED
    BY <1>0, <2>1, <2>2 DEF DomOK, Making, Removing, RmAlling, Installing, Cloning
<1>16. CASE RmAllDestroy(p)
  <2>1. /\ pc[p] = "rmall_destroy" /\ job[p].vm \in VMs /\ job' = job
        /\ \A e \in job[p].snap : e.vm # job[p].vm
    BY <1>0, <1>16 DEF RmAllDestroy, WithVm, DomOK
  <2>2. CASE pc'[p] = "rmall_next" /\ UNCHANGED dom
    BY <1>0, <2>1, <2>2 DEF DomOK, Making, Removing, RmAlling, Installing, Cloning
  <2>3. CASE pc'[p] = "rmall_disk" /\ dom' = [dom EXCEPT ![job[p].vm] = Destroyed(job[p].vm)]
    <3>1. dom'[job[p].vm].state # "running"
      BY <1>0, <2>1, <2>3 DEF Destroyed, NoDomain, Domain
    <3>2. \A e \in job[p].snap : dom'[e.vm] = dom[e.vm] BY <1>0, <2>1, <2>3
    <3> QED
      BY <1>0, <2>1, <2>3, <3>1, <3>2
      DEF DomOK, Making, Removing, RmAlling, Installing, Cloning
  <2> QED BY <1>16, <2>2, <2>3, After DEF RmAllDestroy
<1>17. CASE RmAllDisk(p)
  BY <1>0, <1>17, After
  DEF RmAllDisk, DomOK, Making, Removing, RmAlling, Installing, Cloning, WithVm
<1>18. CASE RmAllUndefine(p)
  <2>1. /\ pc[p] = "rmall_undefine" /\ job[p].vm \in VMs /\ job' = job
        /\ pc'[p] = "rmall_next"
        /\ \A e \in job[p].snap : e.vm # job[p].vm
        /\ \A v \in VMs : v # job[p].vm => dom'[v] = dom[v]
    BY <1>0, <1>18, After DEF RmAllUndefine, RemovalFailed, WithVm, DomOK
  <2> QED BY <1>0, <2>1 DEF DomOK, Making, Removing, RmAlling, Installing, Cloning
<1> QED
  BY <1>1, <1>3, <1>4, <1>5, <1>6, <1>7, <1>8, <1>9, <1>10, <1>11, <1>12, <1>13, <1>14,
     <1>15, <1>16, <1>17, <1>18
  DEF ProcStep

-----------------------------------------------------------------------------
(* The pool.                                                               *)

\* A step to a part of the work that needs nothing of the pool.
LEMMA PoolQuiet ==
  ASSUME NEW p \in Procs, PoolOK(p), SameCands(p),
         pc'[p] \notin {"rm_stale", "mktemp", "clone_rmfile", "clone_create"}
                         \cup Installing \cup Pruning
  PROVE  PoolOK(p)'
BY DEF PoolOK, SameCands

\* What a process knows of the pool stays true in its own steps.
LEMMA PoolStep ==
  ASSUME TypeInv, OneAtATime, SerialInv, NEW p \in Procs, ProcStep(p)
  PROVE  PoolOK(p)'
<1>0. /\ PoolOK(p)
      /\ pc[p] \in WithVm => job[p].vm \in VMs
      /\ pc[p] \in Basing => job[p].key \in Keys
      /\ base \in [Keys -> Inodes \cup {0}]
      /\ vmdisk \in [VMs -> Overlay \cup {NoDisk}]
      /\ pinned \in [Procs -> SUBSET VMs]
  BY After DEF SerialInv, LocalOK, TypeInv, TypeOK, PoolTypeOK
<1>1. CASE Return(p) BY <1>1, ReturnOK
<1>2. UNCHANGED job => SameCands(p) BY DEF SameCands
<1>3. CASE ~Return(p) /\ (Inspect(p) \/ Persist(p))
  BY <1>0, <1>3, RunLocals, PoolQuiet DEF Installing, Pruning
<1>4. CASE ~Return(p) /\ (RefreshPool(p) \/ CloneRefresh(p) \/ CloneCreate(p))
  BY <1>0, <1>2, <1>4, After, PoolQuiet
  DEF RefreshPool, WithBase, CloneRefresh, CloneCreate, Installing, Pruning
<1>5. CASE FindBase(p)
  BY <1>0, <1>2, <1>5, After DEF FindBase, poolVars, PoolOK, Installing, Pruning
<1>6. CASE CheckBase(p) /\ ~Return(p)
  BY <1>0, <1>2, <1>6, After
  DEF CheckBase, WithBase, poolVars, PoolOK, Installing, Pruning
<1>7. CASE RemoveStale(p) /\ ~Return(p)
  BY <1>0, <1>2, <1>7, After
  DEF RemoveStale, RemoveBase, PoolOK, Installing, Pruning, Basing
<1>8. CASE CreateTemp(p) /\ ~Return(p)
  BY <1>0, <1>8, RunLocals DEF CreateTemp, PoolOK, SameCands, Installing, Pruning
<1>9. CASE ~Return(p) /\ (Install(p) \/ Validate(p))
  BY <1>0, <1>9, After DEF Install, Validate, PoolOK, Installing, Pruning
<1>10. CASE CloneVolDelete(p)
  <2>1. VmVol(job[p].vm) \notin known'
    BY <1>10 DEF CloneVolDelete, VolDelete, poolVars
  <2> QED BY <1>0, <1>10, <2>1, After DEF CloneVolDelete, PoolOK, Installing, Pruning
<1>11. CASE CloneRemoveFile(p) /\ ~Return(p)
  <2>1. ~HasDisk(job[p].vm)'
    BY <1>0, <1>11 DEF CloneRemoveFile, RemoveVmDisk, HasDisk, WithVm, Cloning
  <2> QED BY <1>0, <1>11, <2>1, After DEF CloneRemoveFile, PoolOK, Installing, Pruning
<1>12. CASE PruneListBases(p) /\ ~Return(p)
  BY <1>0, <1>12, PruneLocals DEF OneAtATime, PoolOK, Installing, Pruning
<1>13. CASE PruneListVolumes(p) /\ ~Return(p)
  <2>1. /\ UNCHANGED vmdisk
        /\ \A v \in VMs : HasDisk(v) => v \in pinned'[p]
    BY <1>0, <1>13 DEF PruneListVolumes, OneAtATime
  <2> QED
    BY <1>0, <1>13, <2>1, PruneLocals DEF PoolOK, SameCands, HasDisk, Installing
<1>14. CASE PruneNext(p) /\ ~Return(p)
  BY <1>0, <1>14, PruneLocals DEF PruneNext, PoolOK, HasDisk, Installing, Pruning
<1>15. CASE PruneCheck(p) /\ ~Return(p)
  BY <1>0, <1>15, PruneLocals
  DEF PruneCheck, poolVars, PoolOK, SameCands, HasDisk, Installing, Pruning
<1>16. CASE PruneDelete(p) /\ ~Return(p)
  <2>1. UNCHANGED <<vmdisk, pinned>>
    BY <1>0, <1>16 DEF PruneDelete, VolDelete, PoolOK
  <2> QED
    BY <1>0, <1>16, <2>1, After DEF PruneDelete, PoolOK, HasDisk, Installing, Pruning
<1>17. CASE \/ \E v \in VMs : \/ BeginRun(p, v) \/ BeginRm(p, v)
                             \/ BeginStart(p, v) \/ BeginStop(p, v)
           \/ BeginToBaseDisk(p) \/ BeginRmAll(p) \/ BeginPrune(p)
  BY <1>17, BeginsOK
<1>18. CASE \/ RmState(p) \/ RmInfo(p) \/ RmAllList(p) \/ RmAllInfo(p) \/ RmAllNext(p)
  BY <1>0, <1>1, <1>2, <1>18, After, RmLocals, RmAllLocals, PoolQuiet
  DEF RmDone, RmAlling, Installing, Pruning
<1>19. CASE \/ GiveUp(p) \/ Create(p) \/ Define(p) \/ Start(p) \/ RmDestroy(p)
            \/ RmDisk(p) \/ RmUndefine(p) \/ RmAllDestroy(p) \/ RmAllDisk(p)
            \/ RmAllUndefine(p) \/ StartState(p) \/ StopState(p) \/ Stop(p) \/ Crash(p)
  BY <1>0, <1>1, <1>2, <1>19, After, PoolQuiet
  DEF GiveUp, Create, Define, Start, RmDestroy, RmDisk, RmUndefine, RmDone, RmAllDestroy,
      RmAllDisk, RmAllUndefine, StartState, StopState, Stop, Crash, Installing, Pruning
<1> QED
  BY <1>1, <1>3, <1>4, <1>5, <1>6, <1>7, <1>8, <1>9, <1>10, <1>11, <1>12, <1>13, <1>14,
     <1>15, <1>16, <1>17, <1>18, <1>19
  DEF ProcStep, CacheStep

\* A disk that is left alone on a base disk that is left alone.
LEMMA DisksKept ==
  ASSUME DisksOK,
         \A v \in VMs : /\ vmdisk'[v] \in {vmdisk[v], NoDisk}
                        /\ vmdisk'[v] # NoDisk =>
                             /\ base'[vmdisk[v].back] = base[vmdisk[v].back]
                             /\ meta'[vmdisk[v].ino] = meta[vmdisk[v].ino]
  PROVE  DisksOK'
BY DEF DisksOK, HasDisk

\* No command takes a base disk away from a disk, or puts another one there.
LEMMA DisksStep ==
  ASSUME TypeInv, CacheInv, PruneInv, OneAtATime, SerialInv, NEW p \in Procs, ProcStep(p)
  PROVE  DisksOK'
<1>0. /\ DisksOK /\ PoolOK(p) /\ OwnDisk(p)
      /\ pc[p] \in WithVm => job[p].vm \in VMs
      /\ pc[p] \in Basing => job[p].key \in Keys
      /\ pc[p] \in Installing => job[p].tmp \in Temps
      /\ base \in [Keys -> Inodes \cup {0}]
      /\ temp \in [Temps -> Inodes \cup {0}]
      /\ meta \in [Inodes -> Keys \cup {NoKey}]
      /\ \A v \in VMs : HasDisk(v) => vmdisk[v].back \in Keys /\ vmdisk[v].ino \in Inodes
      /\ vmdisk \in [VMs -> Overlay \cup {NoDisk}]
  BY After DEF SerialInv, LocalOK, TypeInv, TypeOK, PoolTypeOK, HasDisk, Overlay
<1>1. \A v \in VMs : HasDisk(v) =>
        /\ base[vmdisk[v].back] = vmdisk[v].ino /\ base[vmdisk[v].back] # 0
        /\ meta[base[vmdisk[v].back]] = vmdisk[v].back
  BY <1>0 DEF DisksOK, Inodes
<1>2. CASE UNCHANGED <<base, vmdisk, meta>> BY <1>0, <1>2, DisksKept
<1>3. ASSUME NEW v \in VMs, RemoveVmDisk(v), UNCHANGED <<base, meta>>
      PROVE  DisksOK'
  BY <1>0, <1>3, DisksKept DEF RemoveVmDisk
<1>4. ASSUME NEW k \in Keys, NEW i, base' = [base EXCEPT ![k] = i],
             \A v \in VMs : HasDisk(v) => vmdisk[v].back # k,
             UNCHANGED <<vmdisk, meta>>
      PROVE  DisksOK'
  BY <1>0, <1>4, DisksKept DEF HasDisk
<1>5. CASE RemoveStale(p)
  <2>1. CASE base[job[p].key] = 0 BY <1>2, <1>5, <2>1 DEF RemoveStale
  <2>2. CASE base[job[p].key] # 0
    <3>1. \A v \in VMs : HasDisk(v) => vmdisk[v].back # job[p].key
      BY <1>0, <1>1, <1>5, <2>2 DEF RemoveStale, PoolOK
    <3> QED BY <1>0, <1>4, <1>5, <2>2, <3>1 DEF RemoveStale, RemoveBase, Basing
  <2> QED BY <2>1, <2>2
<1>6. CASE Install(p)
  <2>1. CASE UNCHANGED meta BY <1>2, <1>6, <2>1 DEF Install
  <2>2. CASE ~UNCHANGED meta
    <3> DEFINE t == job[p].tmp
    <3>1. /\ t \in Temps /\ temp[t] # 0 /\ UNCHANGED <<base, vmdisk>>
          /\ \E k : meta' = [meta EXCEPT ![temp[t]] = k]
      BY <1>0, <1>6, <2>2 DEF Install, Installing
    <3>2. \A v \in VMs : HasDisk(v) => vmdisk[v].ino # temp[t]
      BY <1>0, <1>1, <3>1 DEF CacheInv
    <3>3. \A v \in VMs : HasDisk(v) => meta'[vmdisk[v].ino] = meta[vmdisk[v].ino]
      BY <1>0, <3>1, <3>2
    <3> QED BY <1>0, <3>1, <3>3, DisksKept DEF HasDisk
  <2> QED BY <2>1, <2>2
<1>7. CASE Persist(p)
  <2>1. \A v \in VMs : HasDisk(v) => vmdisk[v].back # job[p].key
    BY <1>0, <1>1, <1>7 DEF Persist, PoolOK, Installing
  <2>2. job[p].key \in Keys BY <1>0, <1>7 DEF Persist, Basing, Installing
  <2> QED BY <1>2, <1>4, <1>7, <2>1, <2>2 DEF Persist
<1>8. CASE CloneVolDelete(p) \/ RmUndefine(p)
  <2>1. job[p].vm \in VMs
    BY <1>0, <1>8 DEF CloneVolDelete, RmUndefine, WithVm, Cloning
  <2>2. VolDelete(VmVol(job[p].vm)) \/ UNCHANGED poolVars
    BY <1>8 DEF CloneVolDelete, RmUndefine
  <2>3. CASE UNCHANGED poolVars BY <1>2, <2>3 DEF poolVars
  <2>4. CASE VolDelete(VmVol(job[p].vm))
    <3>1. RemoveVmDisk(job[p].vm) /\ UNCHANGED <<base, meta>>
      BY <2>4 DEF VolDelete, VmVol
    <3> QED BY <1>3, <2>1, <3>1
  <2> QED BY <2>2, <2>3, <2>4
<1>9. CASE CloneRemoveFile(p)
  BY <1>0, <1>3, <1>9 DEF CloneRemoveFile, WithVm, Cloning
<1>10. CASE RmDisk(p) \/ RmAllDisk(p)
  BY <1>0, <1>3, <1>10 DEF RmDisk, RmAllDisk, RemoveDiskFile, OwnDisk, WithVm
<1>11. CASE CloneCreate(p)
  <2>1. CASE UNCHANGED poolVars BY <1>2, <2>1 DEF poolVars
  <2>2. CASE ~UNCHANGED poolVars
    <3> DEFINE v == job[p].vm
               k == job[p].key
    <3>1. VolCreateAs(v, k) BY <1>11, <2>2 DEF CloneCreate
    <3>2. v \in VMs /\ k \in Keys
      BY <1>0, <1>11 DEF CloneCreate, WithVm, Basing, Cloning
    <3>3. base[k] # 0 /\ meta[base[k]] = k
      <4>1. Content(k) # "stale" BY <1>11 DEF CacheInv, CloneCreate, Cloning
      <4> QED BY <3>1, <4>1 DEF VolCreateAs, CanCreateVol, Content
    <3>4. /\ vmdisk'[v].back = k /\ vmdisk'[v].ino = base[k]
          /\ \A w \in VMs : w # v => vmdisk'[w] = vmdisk[w]
          /\ UNCHANGED <<base, meta>>
      BY <1>0, <3>1, <3>2 DEF VolCreateAs
    <3> QED BY <1>0, <3>3, <3>4 DEF DisksOK, HasDisk
  <2> QED BY <2>1, <2>2
<1>12. CASE PruneDelete(p)
  <2>1. CASE VolDelete(job[p].cand)
    <3>1. UNCHANGED <<vmdisk, meta>>
      BY <1>0, <1>12, <2>1 DEF VolDelete, PoolOK
    <3>2. CASE job[p].cand.kind # "base"
      BY <1>2, <2>1, <3>1, <3>2 DEF VolDelete
    <3>3. CASE job[p].cand.kind = "base"
      <4> DEFINE k == job[p].cand.name
      <4>1. k \in Keys /\ job[p].cand = BaseVol(k)
        BY <1>12, <3>3, After
        DEF PruneDelete, LocalOK, Volumes, BaseVol, TempVol, VmVol
      <4>2. \A v \in VMs : HasDisk(v) => ~RefersTo(v, job[p].cand)
        BY <1>0, <1>12 DEF PruneDelete, PoolOK, Pruning, PruneInv
      <4>3. \A v \in VMs : HasDisk(v) => vmdisk[v].back # k
        BY <4>1, <4>2 DEF RefersTo
      <4>4. base' = [base EXCEPT ![k] = 0]
        BY <2>1, <3>3 DEF VolDelete, RemoveBase
      <4> QED BY <1>4, <3>1, <4>1, <4>3, <4>4
    <3> QED BY <3>2, <3>3
  <2>2. CASE ~VolDelete(job[p].cand) BY <1>2, <1>12, <2>2 DEF PruneDelete
  <2> QED BY <2>1, <2>2
<1> QED
  BY <1>2, <1>5, <1>6, <1>7, <1>8, <1>9, <1>10, <1>11, <1>12
  DEF ProcStep, CacheStep, Inspect, FindBase, CheckBase, CreateTemp, Validate,
      RefreshPool, CloneRefresh, PruneListBases, PruneListVolumes, PruneNext, PruneCheck,
      BeginRun, BeginRm, BeginStart, BeginStop, BeginToBaseDisk, BeginRmAll, BeginPrune,
      Begin, GiveUp, Create, Define, Start, RmState, RmInfo, RmDestroy, RmAllList,
      RmAllInfo, RmAllNext, RmAllDestroy, RmAllUndefine, StartState, StopState, Stop,
      Crash, poolVars

-----------------------------------------------------------------------------
(* The disks of the domains, if no command was killed.                     *)

\* A domain loses its disk only to a removal that goes on to undefine it.
LEMMA VmKeepsStep ==
  ASSUME TypeInv, OneAtATime, SerialInv, NEW p \in Procs, ProcStep(p), ~Crash(p),
         \A w \in VMs : VmKeeps(w), ProcKeeps(p), NEW v \in VMs
  PROVE  VmKeeps(v)'
<1>0. /\ PoolOK(p) /\ OwnDisk(p) /\ DomOK(p)
      /\ pc[p] \in WithVm => job[p].vm \in VMs
      /\ dom \in [VMs -> Domain]
      /\ vmdisk \in [VMs -> Overlay \cup {NoDisk}]
  BY After DEF SerialInv, LocalOK, TypeInv, TypeOK, PoolTypeOK
<1>1. pc[p] \notin Undefining /\ Lost(v) => dom[v].failed \/ ~dom[v].persistent
  BY DEF VmKeeps, OneAtATime
<1>2. CASE pc[p] \notin Undefining /\ dom'[v] = dom[v] /\ (HasDisk(v) => HasDisk(v)')
  BY <1>1, <1>2 DEF VmKeeps, Lost, Exists
<1>3. CASE ~Exists(v)' \/ HasDisk(v)' BY <1>3 DEF VmKeeps, Lost
<1>4. CASE CloneVolDelete(p) /\ UNCHANGED dom
  <2>1. job[p].vm \in VMs /\ pc[p] = "clone_voldel"
    BY <1>0, <1>4 DEF CloneVolDelete, WithVm, Cloning
  <2>2. v # job[p].vm => vmdisk'[v] = vmdisk[v]
    BY <1>0, <1>4, <2>1 DEF CloneVolDelete, VolDelete, VmVol, RemoveVmDisk, poolVars
  <2>3. ~Exists(job[p].vm)
    BY <1>0, <2>1 DEF DomOK, Making, Cloning
  <2> QED BY <1>2, <1>3, <1>4, <2>1, <2>2, <2>3 DEF Undefining, HasDisk, Exists
<1>5. CASE CloneRemoveFile(p) /\ UNCHANGED dom
  <2>1. job[p].vm \in VMs /\ pc[p] = "clone_rmfile"
    BY <1>0, <1>5 DEF CloneRemoveFile, WithVm, Cloning
  <2>2. v # job[p].vm => vmdisk'[v] = vmdisk[v]
    BY <1>0, <1>5, <2>1 DEF CloneRemoveFile, RemoveVmDisk
  <2>3. ~Exists(job[p].vm)
    BY <1>0, <2>1 DEF DomOK, Making, Cloning
  <2> QED BY <1>2, <1>3, <1>5, <2>1, <2>2, <2>3 DEF Undefining, HasDisk, Exists
<1>6. CASE CloneCreate(p) /\ UNCHANGED dom
  <2>1. HasDisk(v) => HasDisk(v)'
    BY <1>0, <1>6 DEF CloneCreate, VolCreateAs, CanCreateVol, HasDisk, poolVars
  <2> QED BY <1>2, <1>6, <2>1 DEF CloneCreate, Undefining
<1>7. CASE PruneDelete(p) /\ UNCHANGED dom
  <2>1. UNCHANGED vmdisk BY <1>0, <1>7 DEF PruneDelete, VolDelete, PoolOK
  <2> QED BY <1>2, <1>7, <2>1 DEF PruneDelete, Undefining, HasDisk
<1>8. CASE /\ UNCHANGED <<dom, vmdisk>>
           /\ pc[p] \notin Undefining
  BY <1>2, <1>8 DEF HasDisk
<1>9. CASE Define(p)
  <2>1. v = job[p].vm => HasDisk(v)'
    BY <1>9 DEF Define, ProcKeeps, HasDisk, poolVars
  <2>2. v # job[p].vm => dom'[v] = dom[v] BY <1>0, <1>9 DEF Define
  <2> QED
    BY <1>2, <1>3, <1>9, <2>1, <2>2 DEF Define, Undefining, HasDisk, poolVars
<1>10. CASE Start(p)
  <2>1. UNCHANGED vmdisk /\ pc[p] \notin Undefining BY <1>10 DEF Start, poolVars, Undefining
  <2>2. CASE UNCHANGED dom BY <1>8, <2>1, <2>2
  <2>3. CASE ~UNCHANGED dom
    <3>1. HasDisk(job[p].vm) /\ dom' = [dom EXCEPT ![job[p].vm].state = "running"]
      BY <1>10, <2>3 DEF Start, CanStart
    <3> QED BY <1>0, <1>2, <1>3, <2>1, <3>1 DEF HasDisk
  <2> QED BY <2>2, <2>3
<1>11. CASE RmDestroy(p) \/ RmAllDestroy(p) \/ Stop(p)
  <2>1. UNCHANGED vmdisk /\ pc[p] \notin Undefining
    BY <1>11 DEF RmDestroy, RmAllDestroy, Stop, poolVars, Undefining
  <2>2. CASE UNCHANGED dom BY <1>8, <2>1, <2>2
  <2>3. CASE Active(job[p].vm) /\ dom' = [dom EXCEPT ![job[p].vm] = Destroyed(job[p].vm)]
    <3>1. \/ ~Exists(v)'
          \/ /\ dom'[v].failed = dom[v].failed /\ dom'[v].persistent = dom[v].persistent
             /\ Exists(v)
      BY <1>0, <2>3 DEF Destroyed, NoDomain, Exists, Active, Domain
    <3> QED BY <1>1, <1>3, <2>1, <3>1 DEF VmKeeps, Lost, HasDisk
  <2> QED BY <1>11, <2>2, <2>3 DEF RmDestroy, RmAllDestroy, Stop
<1>12. CASE RmDisk(p) \/ RmAllDisk(p)
  <2>1. /\ job[p].vm \in VMs /\ pc[p] \in {"rm_disk", "rmall_disk"} /\ UNCHANGED <<dom, job>>
        /\ pc'[p] \in Undefining
    BY <1>0, <1>12, After DEF RmDisk, RmAllDisk, WithVm, Undefining
  <2>2. v # job[p].vm => vmdisk'[v] = vmdisk[v]
    BY <1>0, <1>12, <2>1
    DEF RmDisk, RmAllDisk, RemoveDiskFile, RemoveVmDisk, OwnDisk
  <2>3. CASE v = job[p].vm BY <2>1, <2>3 DEF VmKeeps
  <2>4. CASE v # job[p].vm BY <1>2, <2>1, <2>2, <2>4 DEF Undefining, HasDisk
  <2> QED BY <2>3, <2>4
<1>13. CASE RmUndefine(p) \/ RmAllUndefine(p)
  <2> DEFINE u == job[p].vm
  <2>1. /\ u \in VMs /\ pc[p] \in Undefining /\ pc[p] \in Removing
    BY <1>0, <1>13 DEF RmUndefine, RmAllUndefine, WithVm, Undefining, Removing
  <2>2. CASE v # u
    <3>1. dom'[v] = dom[v]
      BY <1>0, <1>13, <2>2 DEF RmUndefine, RmAllUndefine, RemovalFailed
    <3>2. vmdisk'[v] = vmdisk[v]
      BY <1>0, <1>13, <2>1, <2>2
      DEF RmUndefine, RmAllUndefine, VolDelete, VmVol, RemoveVmDisk, poolVars
    <3>3. Lost(v) => dom[v].failed \/ ~dom[v].persistent
      BY <2>2 DEF VmKeeps, OneAtATime
    <3> QED BY <3>1, <3>2, <3>3 DEF VmKeeps, Lost, Exists, HasDisk
  <2>3. CASE v = u
    <3>1. Exists(v)' => dom'[v].failed \/ ~dom'[v].persistent
      <4>1. CASE dom' = [dom EXCEPT ![v] = NoDomain]
        BY <1>0, <4>1 DEF NoDomain, Exists
      <4>2. CASE dom' = RemovalFailed(v) /\ Exists(v)
        <5>1. dom'[v] = [dom[v] EXCEPT !.failed = TRUE]
          BY <1>0, <4>2 DEF RemovalFailed
        <5>2. dom'[v].failed = TRUE BY <1>0, <5>1 DEF Domain
        <5> QED BY <5>2
      <4>3. CASE dom' = RemovalFailed(v) /\ ~Exists(v)
        BY <4>3 DEF RemovalFailed, Exists
      <4>4. CASE dom' = [dom EXCEPT ![v].persistent = FALSE]
        <5>1. dom'[v].persistent = FALSE BY <1>0, <4>4 DEF Domain
        <5> QED BY <5>1
      <4> QED
        BY <1>13, <2>3, <4>1, <4>2, <4>3, <4>4 DEF RmUndefine, RmAllUndefine
    <3> QED BY <3>1 DEF VmKeeps, Lost
  <2> QED BY <2>2, <2>3
<1>14. CASE CacheStep(p) /\ UNCHANGED <<dom, crashes>>
  BY <1>4, <1>5, <1>6, <1>7, <1>8, <1>14
  DEF CacheStep, Inspect, FindBase, CheckBase, RemoveStale, CreateTemp, Install,
      Validate, Persist, RefreshPool, CloneRefresh, PruneListBases, PruneListVolumes,
      PruneNext, PruneCheck, Undefining, poolVars
<1>15. ~Create(p) BY <1>0 DEF Create, OwnDisk
<1> QED
  BY <1>8, <1>9, <1>10, <1>11, <1>12, <1>13, <1>14, <1>15
  DEF ProcStep, BeginRun, BeginRm, BeginStart, BeginStop, BeginToBaseDisk, BeginRmAll,
      BeginPrune, Begin, GiveUp, RmState, RmInfo, RmAllList, RmAllInfo, RmAllNext,
      StartState, StopState, Undefining, poolVars

\* A domain is defined right after its disk was made.
LEMMA ProcKeepsStep ==
  ASSUME TypeInv, NEW p \in Procs, ProcStep(p)
  PROVE  ProcKeeps(p)'
<1>0. /\ pc[p] \in WithVm => job[p].vm \in VMs
      /\ pc[p] \in Basing => job[p].key \in Keys
      /\ vmdisk \in [VMs -> Overlay \cup {NoDisk}]
  BY After DEF LocalOK, TypeInv, TypeOK, PoolTypeOK
<1>1. CASE pc'[p] # "define" BY <1>1 DEF ProcKeeps
<1>2. CASE CloneCreate(p) /\ ~Return(p)
  <2>1. /\ job[p].vm \in VMs /\ job[p].key \in Keys /\ job' = job
        /\ VolCreateAs(job[p].vm, job[p].key)
    BY <1>0, <1>2 DEF CloneCreate, WithVm, Basing, Cloning
  <2>2. vmdisk'[job[p].vm].back = job[p].key BY <1>0, <2>1 DEF VolCreateAs
  <2>3. HasDisk(job[p].vm)' BY <2>1, <2>2, PoolAssumption DEF HasDisk, NoDisk
  <2> QED BY <2>1, <2>3 DEF ProcKeeps
<1>3. Return(p) => pc'[p] # "define" BY After
<1>4. RmDone(p) => pc'[p] # "define" BY <1>3, After DEF RmDone
<1>5. CASE CacheStep(p) /\ ~CloneCreate(p)
  <2>1. CASE \/ Inspect(p) \/ FindBase(p) \/ CheckBase(p) \/ RemoveStale(p)
             \/ CreateTemp(p) \/ Install(p) \/ Validate(p) \/ Persist(p) \/ RefreshPool(p)
    BY <1>1, <1>3, <2>1, After
    DEF Inspect, FindBase, CheckBase, RemoveStale, CreateTemp, Install, Validate,
        Persist, RefreshPool, WithBase
  <2>2. CASE CloneRefresh(p) \/ CloneVolDelete(p) \/ CloneRemoveFile(p)
    BY <1>1, <1>3, <2>2, After DEF CloneRefresh, CloneVolDelete, CloneRemoveFile
  <2>3. CASE \/ PruneListBases(p) \/ PruneListVolumes(p) \/ PruneNext(p)
             \/ PruneCheck(p) \/ PruneDelete(p)
    BY <1>1, <1>3, <2>3, After
    DEF PruneListBases, PruneListVolumes, PruneNext, PruneCheck, PruneDelete
  <2> QED BY <1>5, <2>1, <2>2, <2>3 DEF CacheStep
<1>6. CASE \/ \E v \in VMs : \/ BeginRun(p, v) \/ BeginRm(p, v)
                             \/ BeginStart(p, v) \/ BeginStop(p, v)
           \/ BeginToBaseDisk(p) \/ BeginRmAll(p) \/ BeginPrune(p)
  BY <1>1, <1>6, After
  DEF BeginRun, BeginRm, BeginStart, BeginStop, BeginToBaseDisk, BeginRmAll, BeginPrune,
      Begin
<1>7. CASE \/ GiveUp(p) \/ Create(p) \/ Define(p) \/ Start(p) \/ Stop(p) \/ StartState(p)
           \/ StopState(p) \/ Crash(p)
  BY <1>1, <1>3, <1>7, After
  DEF GiveUp, Create, Define, Start, Stop, StartState, StopState, Crash
<1>8. CASE RmState(p) \/ RmInfo(p) \/ RmDestroy(p) \/ RmDisk(p) \/ RmUndefine(p)
  BY <1>1, <1>3, <1>4, <1>8, After
  DEF RmState, RmInfo, RmDestroy, RmDisk, RmUndefine
<1>9. CASE \/ RmAllList(p) \/ RmAllInfo(p) \/ RmAllNext(p) \/ RmAllDestroy(p)
           \/ RmAllDisk(p) \/ RmAllUndefine(p)
  BY <1>1, <1>3, <1>9, After
  DEF RmAllList, RmAllInfo, RmAllNext, RmAllDestroy, RmAllDisk, RmAllUndefine
<1> QED BY <1>2, <1>3, <1>1, <1>5, <1>6, <1>7, <1>8, <1>9 DEF ProcStep, CacheStep

-----------------------------------------------------------------------------
(* SerialInv is inductive.                                                 *)

\* A guest that goes off or is paused takes no disk away and runs no longer.  Its
\* domain is gone, or is as persistent, and its removal as failed, as before.
LEMMA GuestStep ==
  ASSUME TypeInv, SerialInv, NEW u \in VMs, GuestOff(u) \/ GuestPause(u)
  PROVE  SerialInv'
<1>0. /\ dom \in [VMs -> Domain] /\ Active(u)
      /\ \A p \in Procs : /\ pc[p] \in WithVm => job[p].vm \in VMs
                          /\ job[p].cmd = "run" => job[p].vm \in VMs
                          /\ \A e \in job[p].snap : e.vm \in VMs
      /\ UNCHANGED <<poolVars, pc, job, crashes>>
  BY After
  DEF LocalOK, TypeInv, TypeOK, Jobs, Listed, GuestOff, GuestPause, Active, cacheVars
<1>1. /\ dom'[u].state \in {"absent", "shut off", "paused"}
      /\ dom'[u].persistent => dom[u].persistent
      /\ Exists(u)' => /\ dom'[u].failed = dom[u].failed
                       /\ dom'[u].persistent = dom[u].persistent
      /\ \A v \in VMs : v # u => dom'[v] = dom[v]
  <2>1. CASE GuestOff(u)
    BY <1>0, <2>1 DEF GuestOff, Destroyed, NoDomain, Domain, Exists
  <2>2. CASE GuestPause(u) BY <1>0, <2>2 DEF GuestPause, Domain
  <2> QED BY <2>1, <2>2
<1>2. \A v \in VMs : /\ Exists(v)' => Exists(v)
                     /\ dom'[v].state = "running" => dom[v].state = "running"
                     /\ Exists(v)' => /\ dom'[v].failed = dom[v].failed
                                      /\ dom'[v].persistent = dom[v].persistent
                     /\ HasDisk(v)' <=> HasDisk(v)
  BY <1>0, <1>1 DEF Exists, Active, HasDisk, poolVars
<1>3. DisksOK' BY <1>0 DEF SerialInv, DisksOK, HasDisk, poolVars
<1>4. \A v \in VMs : DomShape(v)'
  BY DomShapeStep DEF Next, Environment
<1>5. ASSUME NEW p \in Procs PROVE PoolOK(p)' /\ OwnDisk(p)' /\ DomOK(p)'
  <2>1. PoolOK(p) /\ OwnDisk(p) /\ DomOK(p) BY DEF SerialInv
  <2>2. PoolOK(p)' /\ OwnDisk(p)' BY <1>0, <2>1 DEF PoolOK, OwnDisk, HasDisk, poolVars
  <2>3. DomOK(p)'
    BY <1>0, <1>1, <1>2, <2>1
    DEF DomOK, WithVm, Making, Removing, Cloning, Installing, Exists
  <2> QED BY <2>2, <2>3
<1>6. LossOK'
  <2>1. ASSUME crashes' = 0 PROVE /\ \A v \in VMs : VmKeeps(v)'
                                 /\ \A p \in Procs : ProcKeeps(p)'
    <3>1. /\ \A v \in VMs : VmKeeps(v)
          /\ \A p \in Procs : ProcKeeps(p)
      BY <1>0, <2>1 DEF SerialInv, LossOK
    <3>2. \A v \in VMs : VmKeeps(v)' BY <1>0, <1>2, <3>1 DEF VmKeeps, Lost
    <3>3. \A p \in Procs : ProcKeeps(p)'
      BY <1>0, <1>2, <3>1 DEF ProcKeeps, WithVm
    <3> QED BY <3>2, <3>3
  <2> QED BY <2>1 DEF LossOK
<1> QED BY <1>3, <1>4, <1>5, <1>6 DEF SerialInv

\* The pool and the domains are empty at first, but for a stale base disk.
LEMMA SerialInit == Init => SerialInv
<1> SUFFICES ASSUME Init PROVE SerialInv OBVIOUS
<1>1. /\ \A v \in VMs : ~HasDisk(v) /\ ~Exists(v) /\ DomShape(v)
      /\ \A p \in Procs : pc[p] = "idle" /\ job[p] = NoJob
  BY DEF Init, PoolInit, HasDisk, Exists, NoDomain, DomShape
<1>2. \A p \in Procs : /\ job[p].snap = {} /\ job[p].cands = {} /\ job[p].cand = NoVol
                       /\ ~job[p].transient /\ job[p].base = NoKey
  BY <1>1 DEF NoJob
<1> QED
  BY <1>1, <1>2
  DEF SerialInv, DisksOK, LossOK, VmKeeps, ProcKeeps, Lost, PoolOK, OwnDisk, DomOK, NoVol,
      Making, Removing, RmAlling, Installing, Cloning, Pruning

\* Every step of the one command that runs keeps SerialInv.
LEMMA SerialStep ==
  ASSUME OneAtATime
  PROVE  TypeInv /\ CacheInv /\ PruneInv /\ SerialInv /\ [Next]_vars => SerialInv'
<1> SUFFICES ASSUME TypeInv, CacheInv, PruneInv, SerialInv, [Next]_vars PROVE SerialInv'
  OBVIOUS
<1>1. ASSUME NEW p \in Procs, ProcStep(p) PROVE SerialInv'
  <2>1. \A q \in Procs : q = p BY DEF OneAtATime
  <2>2. PoolOK(p)' /\ OwnDisk(p)' /\ DomOK(p)' BY <1>1, PoolStep, OwnDiskStep, DomStep
  <2>3. DisksOK' BY <1>1, DisksStep
  <2>4. \A v \in VMs : DomShape(v)' BY DomShapeStep
  <2>5. LossOK'
    <3>1. SUFFICES ASSUME crashes' = 0
                   PROVE  /\ \A v \in VMs : VmKeeps(v)'
                          /\ \A q \in Procs : ProcKeeps(q)'
      BY DEF LossOK
    <3>2. ~Crash(p) BY <3>1 DEF Crash, TypeInv, TypeOK
    <3>3. crashes = 0
      BY <1>1, <3>1, <3>2
      DEF ProcStep, GiveUp, Create, Define, Start, RmState, RmInfo, RmDestroy, RmDisk,
          RmUndefine, RmAllList, RmAllInfo, RmAllNext, RmAllDestroy, RmAllDisk,
          RmAllUndefine, StartState, StopState, Stop, BeginRun, BeginToBaseDisk, BeginRm,
          BeginRmAll, BeginStart, BeginStop, BeginPrune, Begin
    <3>4. (\A v \in VMs : VmKeeps(v)) /\ ProcKeeps(p) BY <3>3 DEF SerialInv, LossOK
    <3>5. \A v \in VMs : VmKeeps(v)' BY <1>1, <3>2, <3>4, VmKeepsStep
    <3>6. ProcKeeps(p)' BY <1>1, ProcKeepsStep
    <3> QED BY <2>1, <3>5, <3>6
  <2> QED BY <2>1, <2>2, <2>3, <2>4, <2>5 DEF SerialInv
<1>2. CASE UNCHANGED <<poolVars, pc, job, dom, crashes>>
  <2>1. DisksOK' BY <1>2 DEF SerialInv, DisksOK, HasDisk, poolVars
  <2>2. \A v \in VMs : DomShape(v)' BY <1>2 DEF SerialInv, DomShape
  <2>3. ASSUME NEW p \in Procs PROVE PoolOK(p)' /\ OwnDisk(p)' /\ DomOK(p)'
    <3>1. PoolOK(p) /\ OwnDisk(p) /\ DomOK(p) BY DEF SerialInv
    <3>2. UNCHANGED <<base, meta, pinned, known, vmdisk>> /\ pc'[p] = pc[p] /\ job'[p] = job[p]
      BY <1>2 DEF poolVars
    <3>3. PoolOK(p)'
      BY <3>1, <3>2 DEF PoolOK, HasDisk
    <3>4. OwnDisk(p)' BY <3>1, <3>2 DEF OwnDisk
    <3>5. DomOK(p)' BY <1>2, <3>1 DEF DomOK, Exists
    <3> QED BY <3>3, <3>4, <3>5
  <2>4. LossOK'
    BY <1>2 DEF SerialInv, LossOK, VmKeeps, ProcKeeps, Lost, HasDisk, Exists, poolVars
  <2> QED BY <2>1, <2>2, <2>3, <2>4 DEF SerialInv
<1>3. CASE Environment
  BY <1>2, <1>3, GuestStep DEF Environment, Retag
<1>4. UNCHANGED vars => UNCHANGED <<poolVars, pc, job, dom, crashes>>
  BY DEF vars, cacheVars
<1> QED BY <1>1, <1>2, <1>3, <1>4 DEF Next

\* The inductive invariant.
SerialIInv == TypeInv /\ CacheInv /\ PruneInv /\ SerialInv

\* Of commands given one after the other, killed or not.
LEMMA SerialInvariant == ASSUME OneAtATime PROVE Spec => []SerialIInv
<1>1. Init => SerialIInv BY TypeInit, CacheInit, PruneInit, SerialInit DEF SerialIInv
<1>2. SerialIInv /\ [Next]_vars => SerialIInv'
  BY TypeStep, CacheStepInv, PruneStep, SerialStep DEF SerialIInv
<1> QED BY <1>1, <1>2, PTL DEF Spec

-----------------------------------------------------------------------------
(* What SerialInv is for.                                                  *)

\* base_disks.rs, rm.rs, rm_all.rs: commands given one after the other, killed
\* at any point, leave every VM disk on the very base disk it was cloned from.
THEOREM BackingKept == ASSUME OneAtATime PROVE Spec => []BackingIntact
<1>1. SerialIInv => BackingIntact BY DEF SerialIInv, SerialInv, DisksOK, BackingIntact
<1> QED BY <1>1, SerialInvariant, PTL

\* run.rs, rm.rs, rm_all.rs, stop.rs: no sequence of commands, however each of
\* them ends and whatever becomes of the guests in between, leaves a VM defined
\* that cannot be started, but one whose removal has failed.
THEOREM DefinedStarts == ASSUME OneAtATime PROVE Spec => []DefinedCanStart
<1>1. 0 \notin Inodes BY PoolAssumption DEF Inodes
<1>2. SerialIInv => DefinedCanStart
  <2> SUFFICES ASSUME SerialIInv, crashes = 0, \A p \in Procs : pc[p] = "idle",
                      NEW v \in VMs, dom[v].state = "shut off", ~dom[v].failed
               PROVE  CanStart(v)
    BY DEF DefinedCanStart
  <2>1. HasDisk(v)
    BY DEF SerialIInv, SerialInv, LossOK, VmKeeps, DomShape, Lost, Exists, Undefining
  <2>2. base[vmdisk[v].back] = vmdisk[v].ino
    BY <2>1 DEF SerialIInv, SerialInv, DisksOK
  <2>3. vmdisk[v].ino \in Inodes
    BY <2>1 DEF SerialIInv, TypeInv, TypeOK, PoolTypeOK, HasDisk, Overlay
  <2> QED BY <2>1, <2>2, <2>3, <1>1 DEF CanStart
<1> QED BY <1>2, SerialInvariant, PTL

\* clone_from_base: whatever a killed or failed command left under the VM's
\* name is out of the way by the time the disk is made.
THEOREM NameFree == ASSUME OneAtATime PROVE Spec => []NameReusable
<1>1. SerialIInv => NameReusable BY DEF SerialIInv, SerialInv, PoolOK, NameReusable
<1> QED BY <1>1, SerialInvariant, PTL

\* base_disks.rs: of commands given one after the other only a prune takes a
\* complete base disk out of the cache.
THEOREM BasesKept == ASSUME OneAtATime PROVE Spec => BasesOnlyPruned
<1> DEFINE A == \A k \in Keys : Content(k) = "complete" /\ Content(k)' = "none" =>
                  \E p \in Procs : pc[p] = "prune_delete"
<1>1. SerialIInv /\ [Next]_vars => [A]_vars
  <2> SUFFICES ASSUME SerialIInv, Next, NEW k \in Keys,
                      Content(k) = "complete", Content(k)' = "none"
               PROVE  \E p \in Procs : pc[p] = "prune_delete"
    OBVIOUS
  <2>1. base[k] # 0 /\ meta[base[k]] = k /\ base'[k] = 0 BY DEF Content
  <2>2. ~Environment
    BY <2>1 DEF Environment, GuestOff, GuestPause, Retag, cacheVars, poolVars
  <2>3. PICK p \in Procs : ProcStep(p) BY <2>2 DEF Next
  <2>4. /\ base \in [Keys -> Inodes \cup {0}]
        /\ PoolOK(p) /\ OwnDisk(p)
        /\ pc[p] \in Basing => job[p].key \in Keys
    BY DEF SerialIInv, SerialInv, TypeInv, TypeOK, PoolTypeOK, LocalOK
  <2>5. ~RemoveStale(p) BY <2>1, <2>4 DEF RemoveStale, RemoveBase, PoolOK
  <2>6. ~Persist(p) BY <2>1, <2>4 DEF Persist
  <2>7. ~CloneVolDelete(p) /\ ~RmUndefine(p)
    BY <2>1 DEF CloneVolDelete, RmUndefine, VolDelete, VmVol, poolVars
  <2>8. ~RmDisk(p) /\ ~RmAllDisk(p)
    BY <2>1, <2>4 DEF RmDisk, RmAllDisk, RemoveDiskFile, OwnDisk
  <2>9. ~CloneCreate(p)
    BY <2>1 DEF CloneCreate, VolCreateAs, poolVars
  <2>10. PruneDelete(p)
    BY <2>1, <2>3, <2>5, <2>6, <2>7, <2>8, <2>9
    DEF ProcStep, CacheStep, Inspect, FindBase, CheckBase, CreateTemp, Install, Validate,
        RefreshPool, CloneRefresh, CloneRemoveFile, PruneListBases, PruneListVolumes,
        PruneNext, PruneCheck, BeginRun, BeginRm, BeginStart, BeginStop, BeginToBaseDisk,
        BeginRmAll, BeginPrune, Begin, GiveUp, Create, Define, Start, RmState, RmInfo,
        RmDestroy, RmAllList, RmAllInfo, RmAllNext, RmAllDestroy, RmAllUndefine,
        StartState, StopState, Stop, Crash, poolVars
  <2> QED BY <2>10 DEF PruneDelete
<1> QED BY <1>1, SerialInvariant, PTL DEF Spec, BasesOnlyPruned

\* run.rs, base_disks.rs: of commands given one after the other only the
\* removal of a VM takes its disk away; run and prune never do.
THEOREM DisksStay == ASSUME OneAtATime PROVE Spec => DisksOnlyRemovedWithVm
<1> DEFINE A == \A v \in VMs : Exists(v) /\ HasDisk(v) /\ ~HasDisk(v)' =>
                  \E p \in Procs : /\ job[p].vm = v
                                   /\ pc[p] \in {"rm_disk", "rm_undefine", "rmall_disk"}
<1>1. SerialIInv /\ [Next]_vars => [A]_vars
  <2> SUFFICES ASSUME SerialIInv, Next, NEW v \in VMs,
                      Exists(v), HasDisk(v), ~HasDisk(v)'
               PROVE  \E p \in Procs : /\ job[p].vm = v
                                       /\ pc[p] \in {"rm_disk", "rm_undefine", "rmall_disk"}
    OBVIOUS
  <2>1. vmdisk'[v] # vmdisk[v] BY DEF HasDisk
  <2>2. ~Environment
    BY <2>1 DEF Environment, GuestOff, GuestPause, Retag, cacheVars, poolVars
  <2>3. PICK p \in Procs : ProcStep(p) BY <2>2 DEF Next
  <2>4. /\ vmdisk \in [VMs -> Overlay \cup {NoDisk}]
        /\ PoolOK(p) /\ OwnDisk(p) /\ DomOK(p)
    BY DEF SerialIInv, SerialInv, TypeInv, TypeOK, PoolTypeOK
  <2>5. ~CloneVolDelete(p) /\ ~CloneRemoveFile(p)
    <3>1. pc[p] \in Cloning => job[p].vm # v BY <2>4 DEF DomOK, Making
    <3> QED
      BY <2>1, <2>4, <3>1
      DEF CloneVolDelete, CloneRemoveFile, VolDelete, VmVol, RemoveVmDisk, Cloning, poolVars
  <2>6. ~CloneCreate(p)
    BY <2>1, <2>4 DEF CloneCreate, VolCreateAs, CanCreateVol, HasDisk, poolVars
  <2>7. ~PruneDelete(p) BY <2>1, <2>4 DEF PruneDelete, VolDelete, PoolOK
  <2>8. RmDisk(p) \/ RmAllDisk(p) \/ RmUndefine(p)
    BY <2>1, <2>3, <2>5, <2>6, <2>7
    DEF ProcStep, CacheStep, Inspect, FindBase, CheckBase, RemoveStale, CreateTemp,
        Install, Validate, Persist, RefreshPool, CloneRefresh, PruneListBases,
        PruneListVolumes, PruneNext, PruneCheck, BeginRun, BeginRm, BeginStart, BeginStop,
        BeginToBaseDisk, BeginRmAll, BeginPrune, Begin, GiveUp, Create, Define, Start,
        RmState, RmInfo, RmDestroy, RmAllList, RmAllInfo, RmAllNext, RmAllDestroy,
        RmAllUndefine, StartState, StopState, Stop, Crash, poolVars
  <2>9. job[p].vm = v
    BY <2>1, <2>4, <2>8
    DEF RmDisk, RmAllDisk, RmUndefine, RemoveDiskFile, RemoveVmDisk, VolDelete, VmVol,
        OwnDisk, poolVars
  <2> QED BY <2>8, <2>9 DEF RmDisk, RmAllDisk, RmUndefine
<1> QED BY <1>1, SerialInvariant, PTL DEF Spec, DisksOnlyRemovedWithVm
=============================================================================
