-------------------------- MODULE DomainSetupProofs --------------------------
(* For any number of processes, VMs, images, ports and kills: what a run    *)
(* puts around a domain is the run's own, and removed with the domain; the  *)
(* pool is repaired; volumes are filled; a session is with the right guest. *)
(*                                                                          *)
(* A step of a process touches its own locals and the VM it works on, which *)
(* no other process works on, unless the VM is a shared one.  So the        *)
(* invariant has a part for each process and a part for each VM, which say  *)
(* nothing of shared VMs; Frame says that the others stay as they are, and  *)
(* the lemmas have to look at the process of the step and at its VM only.   *)
(* What a guest has in common with its domain holds of shared VMs too.      *)
EXTENDS DomainSetup, TLAPS

PoolPlaces == {"pool_info", "pool_reuse", "pool_define", "pool_start"}
UpPlaces == {"up_pool", "up_delete", "up_create", "up_upload"}
RunPlaces == {"clone", "port", "vars", "ignition", "define"}
DestroyPlaces == {"rm_destroy", "rmall_destroy"}
RemovePlaces == {"rm_disk", "rm_ignition", "rm_undefine", "rmall_disk", "rmall_undefine"}

\* Where the code goes on after ensure_default_pool.
Target(p) == IF pc[p] \in PoolPlaces THEN job[p].next ELSE pc[p]

\* The locals that are set at each label.
LocalOK(p) ==
  /\ pc[p] = "idle" => job[p] = Idle
  /\ pc[p] \in PoolPlaces => job[p].next \in {"clone", "vars", "ignition"}
  /\ pc[p] \in UpPlaces => job[p].image \in Images /\ job[p].vm = NoVM
  /\ pc[p] \notin UpPlaces \cup {"idle"} => job[p].vm \in VMs
  /\ Target(p) \in {"vars", "ignition", "define"} =>
       job[p].gen # 0 /\ job[p].port \in Ports

TypeInv == TypeOK /\ \A p \in Procs : LocalOK(p)

\* No two processes work on one VM, unless it is shared.
Exclusive ==
  \A p, q \in Procs, v \in VMs \ shared : WorksOn(p, v) /\ WorksOn(q, v) => p = q

\* libvirt has been asked to start the pool.
Tried == pool \in {"active", "failed"}

PoolOK(p) ==
  /\ Target(p) \in {"port", "vars", "ignition", "define"} => pool # "none"
  /\ pc[p] \in {"vars", "ignition"} => Tried
  /\ pc[p] \in {"pool_define", "pool_start"} => job[p].next = "clone"
  /\ pc[p] = "clone" /\ ~Tried => job[p].lost
  /\ pc[p] \in {"pool_reuse", "pool_start", "clone"} => pool # "none"

PoolInv ==
  /\ \A p \in Procs : PoolOK(p)
  /\ pool = "inactive" => kills > 0 \/ \E q \in Procs : Creating(q)

\* A VM, or the process that works on it, has the keypair of generation g.
Owns(g, v) ==
  \/ dom[v].gen = g
  \/ \E p \in Procs : job[p].vm = v /\ job[p].gen = g

GenInv ==
  /\ \A g \in Nat, v \in VMs : Owns(g, v) => g <= gens
  /\ \A g \in Nat \ {0}, v, w \in VMs : Owns(g, v) /\ Owns(g, w) => v = w

Fileless(v) == disk[v] = 0 /\ fwvars[v] = 0 /\ ign[v] = 0

\* A run that has yet to define or create its domain.
Building(p) == Target(p) \in RunPlaces

ProcOK(p) ==
  LET v == job[p].vm
      opts == job[p].opts IN
  /\ Building(p) => ~Defined(v)
  /\ Target(p) = "vars" => opts.secure
  /\ Target(p) = "ignition" => opts.ignition
  /\ Target(p) \in {"ignition", "define"} /\ opts.secure => fwvars[v] = job[p].gen
  /\ Target(p) = "define" /\ opts.ignition => ign[v] = job[p].gen
  /\ Building(p) /\ v \notin strays => (opts.secure \/ fwvars[v] = 0) /\ (opts.ignition \/ ign[v] = 0)
  /\ Target(p) = "clone" /\ v \notin strays => Fileless(v)
  /\ pc[p] \in DestroyPlaces =>
       IF Defined(v) THEN dom[v].opts = opts ELSE opts.transient /\ v \in strays
  /\ pc[p] \in RemovePlaces =>
       IF opts.transient THEN ~Defined(v) /\ v \in strays
                         ELSE Defined(v) /\ dom[v].opts = opts /\ ~Running(v)
  /\ pc[p] \in {"rm_disk", "rm_ignition", "rm_undefine"} => ~opts.transient
  /\ pc[p] \in {"rm_ignition", "rm_undefine"} => disk[v] = 0
  /\ pc[p] = "rm_undefine" /\ dom[v].opts.ignition => ign[v] = 0

BuiltBy(v) == {p \in Procs : job[p].vm = v /\ Building(p)}

VmOK(v) ==
  /\ Running(v) => /\ guest[v].fwvars \in {0, guest[v].gen}
                   /\ guest[v].ign \in {0, guest[v].gen}
  /\ Defined(v) /\ dom[v].opts.secure => fwvars[v] = dom[v].gen
  /\ Defined(v) /\ dom[v].opts.ignition => ign[v] \in {0, dom[v].gen}
  /\ Defined(v) /\ v \notin strays =>
       (dom[v].opts.secure \/ fwvars[v] = 0) /\ (dom[v].opts.ignition \/ ign[v] = 0)
  /\ ~Defined(v) /\ v \notin strays /\ BuiltBy(v) = {} => Fileless(v)

\* The session of `ssh` has the key of its VM.
SshInv == \A p \in Procs : pc[p] \in {"ssh_poll", "session"} => job[p].gen # 0

RunInv ==
  /\ \A p \in Procs : job[p].vm \in VMs \ shared => ProcOK(p)
  /\ \A v \in VMs \ shared : VmOK(v)

\* A guest is its domain's, and a transient domain goes with its guest.
GuestOK(v) ==
  /\ Running(v) => Defined(v) /\ guest[v].gen = dom[v].gen
  /\ Defined(v) /\ dom[v].opts.transient => Running(v)

GuestInv == \A v \in VMs : GuestOK(v)

IInv ==
  /\ TypeInv
  /\ Exclusive
  /\ PoolInv
  /\ VolumeComplete
  /\ GenInv
  /\ SshInv
  /\ GuestInv
  /\ RunInv

-----------------------------------------------------------------------------
(* Types *)

LEMMA IdleIsJob == Idle \in Jobs /\ NoOpts \in OptionSet /\ NoDom \in Doms /\ Off \in Guests
BY DEF Idle, Jobs, NoOpts, OptionSet, NoDom, Doms, Off, Guests

LEMMA TypesInit == Init => TypeInv
<1> SUFFICES ASSUME Init PROVE TypeInv
  OBVIOUS
<1>1. TypeOK
  BY IdleIsJob DEF Init, TypeOK, Labels
<1>2. \A p \in Procs : LocalOK(p)
  BY DEF Init, LocalOK, Target, PoolPlaces, UpPlaces
<1> QED BY <1>1, <1>2 DEF TypeInv

\* The locals of a process after a change of some of them.
LEMMA JobFields ==
  ASSUME NEW j \in Jobs
  PROVE  /\ \A b \in BOOLEAN : [j EXCEPT !.lost = b] \in Jobs
         /\ \A o \in OptionSet : [j EXCEPT !.opts = o] \in Jobs
         /\ \A n \in {"vars", "ignition", "define"} : [j EXCEPT !.next = n] \in Jobs
         /\ \A g \in Nat, port \in Ports : [j EXCEPT !.gen = g, !.port = port] \in Jobs
<1>1. \A b \in BOOLEAN : [j EXCEPT !.lost = b] \in Jobs
  BY DEF Jobs
<1>2. \A o \in OptionSet : [j EXCEPT !.opts = o] \in Jobs
  BY DEF Jobs
<1>3. \A n \in {"vars", "ignition", "define"} : [j EXCEPT !.next = n] \in Jobs
  BY DEF Jobs
<1>4. \A g \in Nat, port \in Ports : [j EXCEPT !.gen = g, !.port = port] \in Jobs
  BY DEF Jobs
<1> QED BY <1>1, <1>2, <1>3, <1>4

\* A process that ends is idle, and its locals are reset.
LEMMA EndTypes ==
  ASSUME TypeInv, NEW p \in Procs, End(p)
  PROVE  /\ pc' \in [Procs -> Labels] /\ job' \in [Procs -> Jobs]
         /\ LocalOK(p)'
         /\ \A q \in Procs \ {p} : pc'[q] = pc[q] /\ job'[q] = job[q]
BY IdleIsJob DEF TypeInv, TypeOK, LocalOK, End, Labels, Target, PoolPlaces, UpPlaces

\* What is left of TypeInv once a step of p has kept the locals' types.
LEMMA TypesOfStep ==
  ASSUME TypeInv, NEW p \in Procs, TypeOK', LocalOK(p)',
         \A q \in Procs \ {p} : pc'[q] = pc[q] /\ job'[q] = job[q]
  PROVE  TypeInv'
<1>1. ASSUME NEW q \in Procs PROVE LocalOK(q)'
  <2>1. CASE q = p
    BY <2>1
  <2>2. CASE q # p
    BY <2>2 DEF TypeInv, LocalOK, Target
  <2> QED BY <2>1, <2>2
<1> QED BY <1>1 DEF TypeInv

LEMMA TypesBegin ==
  ASSUME TypeInv, NEW p \in Procs
  PROVE  \A cmd, v, opts, l :
           /\ v \in VMs /\ opts \in OptionSet
           /\ l \in {"pool_info", "rm_look", "rmall_look", "start", "ssh_verify"}
           /\ Begin(p, cmd, v, opts, l)
           => TypeInv'
<1> SUFFICES ASSUME NEW cmd, NEW v \in VMs, NEW opts \in OptionSet,
                    NEW l \in {"pool_info", "rm_look", "rmall_look", "start", "ssh_verify"},
                    Begin(p, cmd, v, opts, l)
             PROVE  TypeInv'
  OBVIOUS
<1>1. TypeOK'
  BY DEF Begin, Goto, TypeInv, TypeOK, Labels, Jobs, Idle, poolVars, fileVars, domVars
<1>2. LocalOK(p)'
  BY DEF Begin, Goto, TypeInv, TypeOK, LocalOK, Target, PoolPlaces, UpPlaces, Idle
<1> QED BY <1>1, <1>2, TypesOfStep DEF Begin, Goto, TypeInv, TypeOK

LEMMA TypesGotoFile ==
  ASSUME TypeInv, NEW p \in Procs
  PROVE  \A j, l :
           /\ j \in Jobs /\ j.gen # 0 /\ j.port \in Ports /\ j.vm \in VMs
           /\ GotoFile(p, j, l)
           => /\ pc' \in [Procs -> Labels] /\ job' \in [Procs -> Jobs]
              /\ LocalOK(p)'
              /\ \A q \in Procs \ {p} : pc'[q] = pc[q] /\ job'[q] = job[q]
<1> SUFFICES ASSUME NEW j \in Jobs, NEW l, j.gen # 0, j.port \in Ports, j.vm \in VMs,
                    GotoFile(p, j, l)
             PROVE  /\ pc' \in [Procs -> Labels] /\ job' \in [Procs -> Jobs]
                    /\ LocalOK(p)'
                    /\ \A q \in Procs \ {p} : pc'[q] = pc[q] /\ job'[q] = job[q]
  OBVIOUS
<1>1. NextFile(l, j.opts) \in {"vars", "ignition", "define"}
  BY DEF NextFile
<1> DEFINE n == NextFile(l, j.opts)
           there == IF n = "define" THEN n ELSE "pool_info"
<1>2. pc' = [pc EXCEPT ![p] = there] /\ job' = [job EXCEPT ![p] = [j EXCEPT !.next = n]]
  BY DEF GotoFile, Goto
<1> HIDE DEF n
<1>3. [j EXCEPT !.next = n] \in Jobs
  BY <1>1, JobFields DEF n
<1> QED BY <1>1, <1>2, <1>3 DEF TypeInv, TypeOK, Labels, LocalOK, Target, PoolPlaces, UpPlaces, Jobs, n

LEMMA TypesPool ==
  ASSUME TypeInv, NEW p \in Procs, EnsurePool(p), UNCHANGED <<kills, fileVars, domVars>>
  PROVE  TypeInv'
<1> USE DEF TypeInv, TypeOK, Goto, poolVars, fileVars, domVars
<1>1. CASE PoolInfo(p)
  <2>1. TypeOK'
    <3>1. pc' \in [Procs -> Labels]
      BY <1>1 DEF PoolInfo, Labels
    <3>2. [job[p] EXCEPT !.lost = FALSE] \in Jobs
      BY JobFields
    <3>3. job' = [job EXCEPT ![p] = [job[p] EXCEPT !.lost = FALSE]]
      BY <1>1 DEF PoolInfo
    <3>4. job' \in [Procs -> Jobs]
      BY <3>2, <3>3
    <3>5. UNCHANGED <<pool, vol>>
      BY <1>1 DEF PoolInfo
    <3> QED BY <3>1, <3>4, <3>5
  <2>2. LocalOK(p)'
    BY <1>1 DEF PoolInfo, LocalOK, Target, PoolPlaces, UpPlaces, Jobs
  <2> QED BY <1>1, <2>1, <2>2, TypesOfStep DEF PoolInfo
<1>2. CASE PoolReuse(p)
  <2>1. TypeOK'
    BY <1>2 DEF PoolReuse, Labels, LocalOK, PoolPlaces
  <2>2. LocalOK(p)'
    BY <1>2 DEF PoolReuse, LocalOK, Target, PoolPlaces, UpPlaces
  <2> QED BY <1>2, <2>1, <2>2, TypesOfStep DEF PoolReuse
<1>5. CASE PoolDefine(p) /\ End(p)
  BY <1>5, EndTypes, TypesOfStep DEF PoolDefine
<1>3. CASE PoolDefine(p) /\ ~End(p)
  <2>1. TypeOK'
    <3>1. job[p].next \in Labels
      BY <1>3 DEF PoolDefine, Labels, LocalOK, PoolPlaces
    <3>2. pc' \in [Procs -> Labels]
      BY <1>3, <3>1 DEF PoolDefine, Labels
    <3>3. job' \in [Procs -> Jobs]
      <4>1. job' = job \/ job' = [job EXCEPT ![p].lost = TRUE]
        BY <1>3 DEF PoolDefine
      <4>2. [job[p] EXCEPT !.lost = TRUE] \in Jobs
        BY JobFields
      <4> QED BY <4>1, <4>2
    <3> QED BY <1>3, <3>2, <3>3 DEF PoolDefine
  <2>2. LocalOK(p)'
    BY <1>3 DEF PoolDefine, LocalOK, Target, PoolPlaces, UpPlaces, Jobs
  <2> QED BY <1>3, <2>1, <2>2, TypesOfStep DEF PoolDefine
<1>4. CASE PoolStart(p)
  <2>1. CASE End(p)
    BY <1>4, <2>1, EndTypes, TypesOfStep DEF PoolStart
  <2>2. CASE ~End(p)
    <3>1. TypeOK'
      BY <1>4, <2>2 DEF PoolStart, Labels, LocalOK, PoolPlaces
    <3>2. LocalOK(p)'
      BY <1>4, <2>2 DEF PoolStart, LocalOK, Target, PoolPlaces, UpPlaces
    <3> QED BY <1>4, <2>2, <3>1, <3>2, TypesOfStep DEF PoolStart
  <2> QED BY <2>1, <2>2
<1> QED BY <1>1, <1>2, <1>3, <1>4, <1>5 DEF EnsurePool

LEMMA TypesUpload ==
  ASSUME TypeInv, NEW p \in Procs, Upload(p), UNCHANGED <<kills, fileVars, domVars>>
  PROVE  TypeInv'
<1> USE DEF TypeInv, TypeOK, Goto, poolVars, fileVars, domVars
<1>1. TypeOK'
  <2>1. CASE UploadPool(p)
    BY <2>1, EndTypes DEF UploadPool, Labels
  <2>2. CASE UploadDelete(p)
    BY <2>2 DEF UploadDelete, Labels
  <2>3. CASE UploadCreate(p)
    BY <2>3, EndTypes DEF UploadCreate, Labels
  <2>4. CASE UploadFill(p)
    BY <2>4, EndTypes DEF UploadFill, Spoil, Labels, LocalOK, UpPlaces
  <2> QED BY <2>1, <2>2, <2>3, <2>4 DEF Upload
<1>2. LocalOK(p)'
  <2>1. CASE End(p)
    BY <2>1, EndTypes
  <2>2. CASE ~End(p)
    BY <2>2 DEF Upload, UploadPool, UploadDelete, UploadCreate, UploadFill, LocalOK, Target,
                PoolPlaces, UpPlaces
  <2> QED BY <2>1, <2>2
<1>3. \A q \in Procs \ {p} : pc'[q] = pc[q] /\ job'[q] = job[q]
  BY DEF Upload, UploadPool, UploadDelete, UploadCreate, UploadFill, End
<1> QED BY <1>1, <1>2, <1>3, TypesOfStep

\* The steps of a run, up to the definition of its domain.
LEMMA TypesRun ==
  ASSUME TypeInv, NEW p \in Procs,
         \/ Clone(p) \/ Port(p) \/ Vars(p) \/ VarsFail(p) \/ Ignition(p) \/ GiveUp(p)
         \/ Define(p) \/ Create(p) \/ Start(p)
  PROVE  TypeInv'
<1> USE DEF TypeInv, TypeOK, poolVars, fileVars, domVars
<1>1. CASE Clone(p)
  <2>1. job[p].vm \in VMs
    BY <1>1 DEF Clone, LocalOK, UpPlaces
  <2>2. CASE Fail(p)
    <3>1. TypeOK'
      BY <1>1, <2>1, <2>2, EndTypes DEF Clone, Fail
    <3> QED BY <1>1, <2>2, <3>1, EndTypes, TypesOfStep DEF Fail
  <2>3. CASE ~Fail(p)
    <3>1. TypeOK'
      BY <1>1, <2>1, <2>3 DEF Clone, Goto, Labels
    <3>2. LocalOK(p)'
      BY <1>1, <2>1, <2>3 DEF Clone, Goto, LocalOK, Target, PoolPlaces, UpPlaces
    <3> QED BY <1>1, <2>3, <3>1, <3>2, TypesOfStep DEF Clone, Goto
  <2> QED BY <2>2, <2>3
<1>2. CASE Port(p)
  <2>1. job[p] \in Jobs /\ job[p].vm \in VMs
    BY <1>2 DEF Port, LocalOK, UpPlaces
  <2>2. PICK port \in Ports : GotoFile(p, [job[p] EXCEPT !.gen = gens + 1, !.port = port], "port")
    BY <1>2 DEF Port, FreePorts
  <2> DEFINE j == [job[p] EXCEPT !.gen = gens + 1, !.port = port]
  <2>3. gens + 1 \in Nat /\ gens + 1 # 0 /\ gens' = gens + 1
    <3>1. gens \in Nat
      OBVIOUS
    <3>2. gens' = gens + 1
      BY <1>2 DEF Port
    <3> QED BY <3>1, <3>2
  <2>4. j \in Jobs /\ j.gen # 0 /\ j.port \in Ports /\ j.vm \in VMs
    BY <2>1, <2>3 DEF Jobs
  <2>5. /\ pc' \in [Procs -> Labels] /\ job' \in [Procs -> Jobs]
        /\ LocalOK(p)'
        /\ \A q \in Procs \ {p} : pc'[q] = pc[q] /\ job'[q] = job[q]
    BY <2>2, <2>4, TypesGotoFile
  <2>6. TypeOK'
    BY <1>2, <2>3, <2>5 DEF Port
  <2> QED BY <2>5, <2>6, TypesOfStep
<1>3. CASE Vars(p) \/ Ignition(p)
  <2>1. /\ job[p] \in Jobs /\ job[p].vm \in VMs
        /\ job[p].gen # 0 /\ job[p].port \in Ports
    BY <1>3 DEF Vars, Ignition, LocalOK, Target, PoolPlaces, UpPlaces
  <2>2. /\ pc' \in [Procs -> Labels] /\ job' \in [Procs -> Jobs]
        /\ LocalOK(p)'
        /\ \A q \in Procs \ {p} : pc'[q] = pc[q] /\ job'[q] = job[q]
    BY <1>3, <2>1, TypesGotoFile DEF Vars, Ignition
  <2>3. TypeOK'
    BY <1>3, <2>1, <2>2 DEF Vars, Ignition, Jobs
  <2> QED BY <2>2, <2>3, TypesOfStep
<1>4. CASE VarsFail(p) \/ GiveUp(p)
  <2>1. job[p].vm \in VMs /\ End(p)
    BY <1>4 DEF VarsFail, GiveUp, Fail, LocalOK, UpPlaces
  <2>2. TypeOK'
    BY <1>4, <2>1, EndTypes DEF VarsFail, GiveUp, Fail
  <2> QED BY <2>1, <2>2, EndTypes, TypesOfStep
<1>5. CASE Define(p) \/ Create(p)
  <2>1. /\ pc[p] = "define" /\ job[p] \in Jobs /\ job[p].vm \in VMs
        /\ job[p].gen # 0 /\ job[p].port \in Ports
    BY <1>5 DEF Define, Create, LocalOK, Target, PoolPlaces, UpPlaces
  <2>2. NewDom(job[p]) \in Doms
    BY <2>1 DEF NewDom, Doms, Jobs
  <2>3. CASE Define(p)
    <3>1. TypeOK'
      BY <2>1, <2>2, <2>3 DEF Define, Goto, Labels
    <3>2. LocalOK(p)'
      BY <2>1, <2>3 DEF Define, Goto, LocalOK, Target, PoolPlaces, UpPlaces
    <3> QED BY <2>3, <3>1, <3>2, TypesOfStep DEF Define, Goto
  <2>4. CASE Create(p) /\ Fail(p) /\ UNCHANGED <<dom, guest>>
    <3>1. TypeOK'
      BY <2>1, <2>4, EndTypes DEF Create, Fail
    <3> QED BY <2>4, <3>1, EndTypes, TypesOfStep DEF Fail
  <2>5. CASE Create(p) /\ ~(Fail(p) /\ UNCHANGED <<dom, guest>>)
    <3> DEFINE d == NewDom(job[p])
    <3>1. Started(job[p].vm, d) \in Guests
      BY <2>1, <2>2 DEF Started, Guests, NewDom, Jobs
    <3>2. /\ dom' = [dom EXCEPT ![job[p].vm] = d]
          /\ guest' = [guest EXCEPT ![job[p].vm] = Started(job[p].vm, d)]
          /\ AfterStart(p, d.opts) /\ strays' = strays
      BY <2>5 DEF Create
    <3>3. /\ pc' \in [Procs -> Labels] /\ job' \in [Procs -> Jobs] /\ LocalOK(p)'
          /\ \A q \in Procs \ {p} : pc'[q] = pc[q] /\ job'[q] = job[q]
      <4>1. CASE End(p)
        BY <4>1, EndTypes
      <4>2. CASE ~End(p)
        BY <2>1, <3>2, <4>2 DEF AfterStart, Goto, Labels, LocalOK, Target, PoolPlaces, UpPlaces
      <4> QED BY <4>1, <4>2
    <3>4. TypeOK'
      BY <2>1, <2>2, <2>5, <3>1, <3>2, <3>3 DEF Create
    <3> QED BY <3>3, <3>4, TypesOfStep
  <2> QED BY <1>5, <2>3, <2>4, <2>5
<1>6. CASE Start(p)
  <2>1. pc[p] = "start" /\ job[p] \in Jobs /\ job[p].vm \in VMs
    BY <1>6 DEF Start, LocalOK, UpPlaces
  <2>2. Started(job[p].vm, dom[job[p].vm]) \in Guests
    BY <2>1, IdleIsJob DEF Started, Guests, Doms, NoDom
  <2>3. /\ pc' \in [Procs -> Labels] /\ job' \in [Procs -> Jobs] /\ LocalOK(p)'
        /\ \A q \in Procs \ {p} : pc'[q] = pc[q] /\ job'[q] = job[q]
    <3>1. CASE End(p)
      BY <3>1, EndTypes
    <3>2. CASE ~End(p)
      BY <1>6, <2>1, <3>2 DEF Start, AfterStart, Goto, Labels, LocalOK, Target, PoolPlaces, UpPlaces
    <3> QED BY <3>1, <3>2
  <2>4. TypeOK'
    BY <1>6, <2>1, <2>2, <2>3 DEF Start
  <2> QED BY <2>3, <2>4, TypesOfStep
<1> QED BY <1>1, <1>2, <1>3, <1>4, <1>5, <1>6

LEMMA TypesRm ==
  ASSUME TypeInv, NEW p \in Procs,
         RmLook(p) \/ RmDestroy(p) \/ RmDisk(p) \/ RmIgnition(p) \/ RmUndefine(p)
  PROVE  TypeInv'
<1> USE DEF TypeInv, TypeOK, poolVars, fileVars, domVars
<1>1. job[p] \in Jobs /\ job[p].vm \in VMs /\ dom[job[p].vm].opts \in OptionSet
  <2>1. job[p].vm \in VMs
    BY DEF RmLook, RmDestroy, RmDisk, RmIgnition, RmUndefine, LocalOK, UpPlaces
  <2> QED BY <2>1, IdleIsJob DEF Doms, NoDom
<1>2. /\ pc' \in [Procs -> Labels] /\ job' \in [Procs -> Jobs] /\ LocalOK(p)'
      /\ \A q \in Procs \ {p} : pc'[q] = pc[q] /\ job'[q] = job[q]
  <2>1. CASE End(p)
    BY <2>1, EndTypes
  <2>2. CASE ~End(p) /\ RmLook(p)
    <3> DEFINE j == [job[p] EXCEPT !.opts = dom[job[p].vm].opts]
    <3>1. j \in Jobs /\ j.vm = job[p].vm
      BY <1>1, JobFields DEF Jobs
    <3>2. job' = [job EXCEPT ![p] = j]
      BY <2>2 DEF RmLook
    <3>3. PICK l \in {"destroy", "disk"} : pc' = [pc EXCEPT ![p] = Place(pc[p] = "rm_look", l)]
      BY <2>2 DEF RmLook, Goto
    <3> HIDE DEF j
    <3>4. pc'[p] \in DestroyPlaces \cup RemovePlaces /\ job'[p] = j
      BY <3>2, <3>3 DEF DestroyPlaces, RemovePlaces, Place
    <3>5. LocalOK(p)'
      BY <1>1, <3>1, <3>4 DEF LocalOK, Target, DestroyPlaces, RemovePlaces, PoolPlaces, UpPlaces
    <3>6. pc' \in [Procs -> Labels] /\ job' \in [Procs -> Jobs]
      BY <3>1, <3>2, <3>3, <3>4 DEF Labels, DestroyPlaces, RemovePlaces
    <3> QED BY <3>2, <3>3, <3>5, <3>6
  <2>3. CASE ~End(p) /\ ~RmLook(p)
    BY <1>1, <2>3 DEF RmDestroy, RmDisk, RmIgnition, RmUndefine, Goto, Place, Labels,
                      LocalOK, Target, PoolPlaces, UpPlaces
  <2> QED BY <2>1, <2>2, <2>3
<1>3. TypeOK'
  <2>1. CASE RmLook(p)
    BY <1>2, <2>1 DEF RmLook
  <2>2. CASE RmDestroy(p)
    BY <1>1, <1>2, <2>2, IdleIsJob DEF RmDestroy, Halt
  <2>3. CASE RmDisk(p)
    BY <1>1, <1>2, <2>3 DEF RmDisk
  <2>4. CASE RmIgnition(p)
    BY <1>1, <1>2, <2>4 DEF RmIgnition
  <2>5. CASE RmUndefine(p)
    <3> DEFINE d == dom[job[p].vm]
               e == [d EXCEPT !.opts.transient = TRUE]
    <3>1. d # NoDom => e \in Doms
      <4>1. d \in Doms /\ [d.opts EXCEPT !.transient = TRUE] \in OptionSet
        BY <1>1 DEF OptionSet
      <4> QED BY <4>1 DEF Doms
    <3>2. \/ dom' = dom
          \/ dom' = [dom EXCEPT ![job[p].vm] = NoDom]
          \/ d # NoDom /\ dom' = [dom EXCEPT ![job[p].vm] = e]
      BY <1>1, <2>5 DEF RmUndefine, Defined
    <3> HIDE DEF d, e
    <3>3. dom' \in [VMs -> Doms]
      BY <1>1, <3>1, <3>2, IdleIsJob
    <3> QED BY <1>1, <1>2, <2>5, <3>3 DEF RmUndefine
  <2> QED BY <2>1, <2>2, <2>3, <2>4, <2>5
<1> QED BY <1>2, <1>3, TypesOfStep

LEMMA TypesSsh ==
  ASSUME TypeInv, NEW p \in Procs,
         SshVerify(p) \/ SshConfig(p) \/ SshPoll(p) \/ SessionEnds(p)
  PROVE  TypeInv'
<1> USE DEF TypeInv, TypeOK, poolVars, fileVars, domVars
<1>1. /\ job[p] \in Jobs /\ job[p].vm \in VMs
      /\ dom[job[p].vm].gen \in Nat /\ dom[job[p].vm].port \in Ports \cup {NoPort}
  <2>1. job[p].vm \in VMs
    BY DEF SshVerify, SshConfig, SshPoll, SessionEnds, LocalOK, UpPlaces
  <2> QED BY <2>1 DEF Doms, NoDom
<1>2. /\ pc' \in [Procs -> Labels] /\ job' \in [Procs -> Jobs] /\ LocalOK(p)'
      /\ \A q \in Procs \ {p} : pc'[q] = pc[q] /\ job'[q] = job[q]
  <2>1. CASE End(p)
    BY <2>1, EndTypes
  <2>2. CASE ~End(p) /\ SshConfig(p)
    <3> DEFINE d == dom[job[p].vm]
               j == [job[p] EXCEPT !.gen = d.gen, !.port = d.port]
    <3>1. d.gen \in Nat /\ d.port \in Ports
      BY <1>1, <2>2 DEF SshConfig, Defined, Doms
    <3>2. j \in Jobs /\ j.vm = job[p].vm
      BY <1>1, <3>1, JobFields DEF Jobs
    <3>3. pc' = [pc EXCEPT ![p] = "ssh_poll"] /\ job' = [job EXCEPT ![p] = j]
      BY <2>2 DEF SshConfig, Goto
    <3> HIDE DEF d, j
    <3>4. LocalOK(p)'
      BY <1>1, <3>2, <3>3 DEF LocalOK, Target, PoolPlaces, UpPlaces
    <3> QED BY <3>2, <3>3, <3>4 DEF Labels
  <2>3. CASE ~End(p) /\ ~SshConfig(p)
    BY <1>1, <2>3 DEF SshVerify, SshPoll, SessionEnds, Goto, Labels, LocalOK, Target,
                      PoolPlaces, UpPlaces
  <2> QED BY <2>1, <2>2, <2>3
<1>3. TypeOK'
  BY <1>2 DEF SshVerify, SshConfig, SshPoll, SessionEnds
<1> QED BY <1>2, <1>3, TypesOfStep

LEMMA TypesStep == TypeInv /\ [Next]_vars => TypeInv'
<1> SUFFICES ASSUME TypeInv, [Next]_vars PROVE TypeInv'
  OBVIOUS
<1>1. CASE UNCHANGED vars
  BY <1>1 DEF vars, poolVars, fileVars, domVars, TypeInv, TypeOK, LocalOK, Target
<1>2. ASSUME NEW v \in VMs, PowerOff(v) PROVE TypeInv'
  <2>1. TypeOK'
    BY <1>2, IdleIsJob DEF PowerOff, Halt, TypeInv, TypeOK, poolVars, fileVars
  <2> QED BY <1>2, <2>1 DEF PowerOff, TypeInv, LocalOK, Target
<1>3. ASSUME NEW p \in Procs, Kill(p) PROVE TypeInv'
  <2>1. TypeOK'
    BY <1>3, EndTypes DEF Kill, Spoil, TypeInv, TypeOK, LocalOK, UpPlaces, fileVars
  <2> QED BY <1>3, <2>1, EndTypes, TypesOfStep DEF Kill
<1>4. ASSUME NEW p \in Procs, RunStep(p) PROVE TypeInv'
  <2>1. ASSUME NEW v \in VMs,
               BeginRun(p, v) \/ BeginRm(p, v) \/ BeginRmAll(p, v) \/ BeginStart(p, v) \/ BeginSsh(p, v)
        PROVE  TypeInv'
    BY <2>1, TypesBegin, IdleIsJob, OptionsAssumption
       DEF BeginRun, BeginRm, BeginRmAll, BeginStart, BeginSsh
  <2>2. ASSUME NEW i \in Images, BeginUpload(p, i) PROVE TypeInv'
    <3>1. TypeOK'
      BY <2>2, IdleIsJob
         DEF BeginUpload, Goto, TypeInv, TypeOK, Labels, Jobs, Idle, poolVars, fileVars, domVars
    <3>2. LocalOK(p)'
      BY <2>2 DEF BeginUpload, Goto, TypeInv, TypeOK, LocalOK, Target, PoolPlaces, UpPlaces, Idle
    <3> QED BY <2>2, <3>1, <3>2, TypesOfStep DEF BeginUpload, Goto, TypeInv, TypeOK
  <2> QED BY <1>4, <2>1, <2>2, TypesPool, TypesUpload, TypesRun, TypesRm, TypesSsh DEF RunStep
<1> QED BY <1>1, <1>2, <1>3, <1>4 DEF Next

\* The types, for any number of processes, VMs, images and ports.
THEOREM TypeCorrect == Spec => []TypeOK
<1>1. TypeInv => TypeOK
  BY DEF TypeInv
<1> QED BY <1>1, TypesInit, TypesStep, PTL DEF Spec

-----------------------------------------------------------------------------
(* What a step leaves alone *)

SameVm(v) ==
  /\ dom'[v] = dom[v] /\ guest'[v] = guest[v]
  /\ disk'[v] = disk[v] /\ fwvars'[v] = fwvars[v] /\ ign'[v] = ign[v]
  /\ v \in strays' <=> v \in strays

Frame(p) ==
  /\ \A q \in Procs \ {p} : pc'[q] = pc[q] /\ job'[q] = job[q]
  /\ \A v \in VMs \ {job[p].vm} : SameVm(v)

\* The steps of a command that has begun, and its first step.
PoolStep(p) == EnsurePool(p) /\ UNCHANGED <<kills, fileVars, domVars>>
UploadStep(p) == Upload(p) /\ UNCHANGED <<kills, fileVars, domVars>>
BuildStep(p) == Clone(p) \/ Port(p) \/ Vars(p) \/ VarsFail(p) \/ Ignition(p) \/ GiveUp(p)
DomainStep(p) == Define(p) \/ Create(p) \/ Start(p)
RmStep(p) == RmLook(p) \/ RmDestroy(p) \/ RmDisk(p) \/ RmIgnition(p) \/ RmUndefine(p)
SshStep(p) == SshVerify(p) \/ SshConfig(p) \/ SshPoll(p) \/ SessionEnds(p)
Works(p) ==
  \/ PoolStep(p) \/ UploadStep(p) \/ BuildStep(p) \/ DomainStep(p) \/ RmStep(p) \/ SshStep(p)
  \/ Kill(p)

BeginOn(p, v) ==
  \E cmd \in Commands, opts \in OptionSet,
     l \in {"pool_info", "rm_look", "rmall_look", "start", "ssh_verify"} :
    /\ Begin(p, cmd, v, opts, l)
    /\ l = "pool_info" => ~Defined(v)
Begins(p) == (\E v \in VMs : BeginOn(p, v)) \/ (\E i \in Images : BeginUpload(p, i))

LEMMA StepsAre ==
  ASSUME NEW p \in Procs, RunStep(p) \/ Kill(p)
  PROVE  Works(p) \/ Begins(p)
<1>1. ASSUME NEW v \in VMs, BeginRun(p, v) PROVE BeginOn(p, v)
  <2>1. PICK opts \in Options : ~Defined(v) /\ Begin(p, "run", v, opts, "pool_info")
    BY <1>1 DEF BeginRun
  <2>2. opts \in OptionSet /\ "run" \in Commands
    BY <2>1, OptionsAssumption DEF Begin
  <2> QED BY <2>1, <2>2 DEF BeginOn
<1>2. ASSUME NEW v \in VMs, BeginRm(p, v) PROVE BeginOn(p, v)
  BY <1>2, IdleIsJob DEF BeginRm, BeginOn, Begin
<1>3. ASSUME NEW v \in VMs, BeginRmAll(p, v) PROVE BeginOn(p, v)
  BY <1>3, IdleIsJob DEF BeginRmAll, BeginOn, Begin
<1>4. ASSUME NEW v \in VMs, BeginStart(p, v) PROVE BeginOn(p, v)
  BY <1>4, IdleIsJob DEF BeginStart, BeginOn, Begin
<1>5. ASSUME NEW v \in VMs, BeginSsh(p, v) PROVE BeginOn(p, v)
  BY <1>5, IdleIsJob DEF BeginSsh, BeginOn, Begin
<1> QED BY <1>1, <1>2, <1>3, <1>4, <1>5
        DEF RunStep, Works, Begins, PoolStep, UploadStep, BuildStep, DomainStep, RmStep, SshStep

LEMMA BeginFacts ==
  ASSUME TypeInv, NEW p \in Procs, NEW v \in VMs, BeginOn(p, v)
  PROVE  /\ pc[p] = "idle" /\ job[p].vm = NoVM
         /\ pc'[p] # "ssh_verify" /\ v \notin shared' => ~Busy(v)
         /\ shared \subseteq shared'
         /\ pc'[p] \in {"pool_info", "rm_look", "rmall_look", "start", "ssh_verify"}
         /\ pc'[p] = "pool_info" => ~Defined(v)
         /\ job'[p].vm = v /\ job'[p].gen = 0 /\ job'[p].next = "clone"
         /\ \A q \in Procs \ {p} : pc'[q] = pc[q] /\ job'[q] = job[q]
         /\ UNCHANGED <<pool, vol, kills, disk, fwvars, ign, dom, guest, gens, strays>>
BY DEF BeginOn, Begin, SshPlaces, Goto, TypeInv, TypeOK, LocalOK, Idle, poolVars, fileVars, domVars

\* A command that has begun goes on with its VM, or ends.
LEMMA VmKept ==
  ASSUME TypeInv, NEW p \in Procs, Works(p)
  PROVE  job'[p].vm \in {job[p].vm, NoVM}
<1> USE DEF TypeInv, TypeOK, Jobs
<1>1. CASE End(p)
  BY <1>1 DEF End, Idle
<1>2. CASE ~End(p) /\ (PoolStep(p) \/ UploadStep(p))
  BY <1>2 DEF PoolStep, EnsurePool, PoolInfo, PoolReuse, PoolDefine, PoolStart,
              UploadStep, Upload, UploadPool, UploadDelete, UploadCreate, UploadFill
<1>3. CASE Port(p)
  BY <1>3 DEF Port, GotoFile
<1>4. CASE Vars(p) \/ Ignition(p)
  BY <1>4 DEF Vars, Ignition, GotoFile
<1>5. CASE ~End(p) /\ ~Port(p) /\ ~Vars(p) /\ ~Ignition(p)
           /\ (BuildStep(p) \/ DomainStep(p) \/ RmStep(p) \/ SshStep(p) \/ Kill(p))
  <2>1. CASE BuildStep(p) \/ Kill(p)
    BY <1>5, <2>1 DEF BuildStep, Clone, VarsFail, GiveUp, Fail, Kill
  <2>2. CASE DomainStep(p)
    <3>1. CASE Define(p) \/ Start(p)
      BY <1>5, <3>1 DEF Define, Start, AfterStart
    <3>2. CASE Create(p)
      BY <1>5, <3>2 DEF Create, Fail, AfterStart
    <3> QED BY <2>2, <3>1, <3>2 DEF DomainStep
  <2>3. CASE RmStep(p)
    <3>1. CASE RmLook(p) \/ RmDestroy(p)
      BY <1>5, <3>1 DEF RmLook, RmDestroy
    <3>2. CASE RmDisk(p) \/ RmIgnition(p) \/ RmUndefine(p)
      BY <1>5, <3>2 DEF RmDisk, RmIgnition, RmUndefine
    <3> QED BY <2>3, <3>1, <3>2 DEF RmStep
  <2>4. CASE SshStep(p)
    BY <1>5, <2>4 DEF SshStep, SshVerify, SshConfig, SshPoll, SessionEnds
  <2> QED BY <1>5, <2>1, <2>2, <2>3, <2>4
<1> QED BY <1>1, <1>2, <1>3, <1>4, <1>5 DEF Works, BuildStep

LEMMA FrameStep ==
  ASSUME TypeInv, NEW p \in Procs, RunStep(p) \/ Kill(p)
  PROVE  Frame(p)
<1> USE DEF TypeInv, TypeOK, Goto, End, poolVars, fileVars, domVars
<1>1. ASSUME NEW q \in Procs \ {p} PROVE pc'[q] = pc[q] /\ job'[q] = job[q]
  <2>1. CASE PoolStep(p) \/ UploadStep(p)
    BY <2>1 DEF PoolStep, EnsurePool, PoolInfo, PoolReuse, PoolDefine, PoolStart,
                UploadStep, Upload, UploadPool, UploadDelete, UploadCreate, UploadFill
  <2>2. CASE BuildStep(p) \/ DomainStep(p)
    <3>1. CASE Clone(p) \/ VarsFail(p) \/ GiveUp(p)
      BY <3>1 DEF Clone, VarsFail, GiveUp, Fail
    <3>2. CASE Port(p) \/ Vars(p) \/ Ignition(p)
      BY <3>2 DEF Port, Vars, Ignition, GotoFile
    <3>3. CASE DomainStep(p)
      BY <3>3 DEF DomainStep, Fail, Define, Create, Start, AfterStart
    <3> QED BY <2>2, <3>1, <3>2, <3>3 DEF BuildStep
  <2>3. CASE RmStep(p) \/ SshStep(p) \/ Kill(p)
    <3>1. CASE RmStep(p)
      BY <3>1 DEF RmStep, RmLook, RmDestroy, RmDisk, RmIgnition, RmUndefine
    <3>2. CASE SshStep(p)
      BY <3>2 DEF SshStep, SshVerify, SshConfig, SshPoll, SessionEnds
    <3> QED BY <2>3, <3>1, <3>2 DEF Kill
  <2>4. CASE Begins(p)
    BY <2>4 DEF Begins, BeginOn, Begin, BeginUpload
  <2> QED BY <2>1, <2>2, <2>3, <2>4, StepsAre DEF Works
<1>2. ASSUME NEW v \in VMs \ {job[p].vm} PROVE SameVm(v)
  <2>1. CASE PoolStep(p) \/ UploadStep(p) \/ SshStep(p) \/ Begins(p)
    BY <2>1 DEF PoolStep, UploadStep, SshStep, SshVerify, SshConfig, SshPoll, SessionEnds,
                Begins, BeginOn, Begin, BeginUpload, SameVm
  <2>2. CASE BuildStep(p)
    BY <2>2 DEF BuildStep, Clone, Port, Vars, VarsFail, Ignition, GiveUp, Fail, SameVm
  <2>3. CASE DomainStep(p)
    BY <2>3 DEF DomainStep, Define, Create, Start, Fail, SameVm
  <2>4. CASE RmStep(p) \/ Kill(p)
    BY <2>4 DEF RmStep, RmLook, RmDestroy, Halt, RmDisk, RmIgnition, RmUndefine, Kill, SameVm
  <2> QED BY <2>1, <2>2, <2>3, <2>4, StepsAre DEF Works
<1> QED BY <1>1, <1>2 DEF Frame

LEMMA SharedGrows ==
  ASSUME TypeInv, [Next]_vars
  PROVE  /\ shared \subseteq shared'
         /\ \A p \in Procs : Works(p) => shared' = shared
<1>1. ASSUME NEW p \in Procs, Works(p) PROVE shared' = shared
  BY <1>1 DEF Works, PoolStep, UploadStep, BuildStep, DomainStep, RmStep, SshStep,
       Clone, Port, Vars, VarsFail, Ignition, GiveUp, Define, Create, Start,
       RmLook, RmDestroy, RmDisk, RmIgnition, RmUndefine,
       SshVerify, SshConfig, SshPoll, SessionEnds, Kill, domVars
<1>2. ASSUME NEW p \in Procs, Begins(p) PROVE shared \subseteq shared'
  BY <1>2, BeginFacts DEF Begins, BeginUpload, domVars
<1> QED BY <1>1, <1>2, StepsAre DEF Next, PowerOff, vars, domVars

\* A command that works on its VM has done so before, if it has begun.
LEMMA WorkKept ==
  ASSUME TypeInv, NEW p \in Procs, Works(p), NEW v \in VMs, WorksOn(p, v)'
  PROVE  WorksOn(p, v)
<1>1. job[p].vm = v
  BY VmKept, SetupAssumption DEF WorksOn
<1>2. ASSUME pc[p] \in SshPlaces PROVE pc'[p] \in SshPlaces \cup {"idle"}
  <2>1. SshStep(p) \/ Kill(p)
    BY <1>2 DEF Works, PoolStep, EnsurePool, PoolInfo, PoolReuse, PoolDefine, PoolStart,
         UploadStep, Upload, UploadPool, UploadDelete, UploadCreate, UploadFill,
         BuildStep, DomainStep, RmStep, Clone, Port, Vars, VarsFail, Ignition, GiveUp,
         Define, Create, Start, RmLook, RmDestroy, RmDisk, RmIgnition, RmUndefine, SshPlaces
  <2> QED BY <2>1 DEF SshStep, SshVerify, SshConfig, SshPoll, SessionEnds, Kill, End, Goto, SshPlaces,
                      TypeInv, TypeOK
<1>3. ASSUME pc'[p] = "idle" PROVE FALSE
  <2>1. LocalOK(p)'
    BY TypesStep, StepsAre DEF TypeInv, Next, Works, RunStep, PoolStep, UploadStep, BuildStep,
                               DomainStep, RmStep, SshStep
  <2> QED BY <1>3, <2>1, SetupAssumption DEF LocalOK, Idle, WorksOn
<1> QED BY <1>1, <1>2, <1>3 DEF WorksOn

LEMMA ExclusiveStep == TypeInv /\ Exclusive /\ [Next]_vars => Exclusive'
<1> SUFFICES ASSUME TypeInv, Exclusive, [Next]_vars PROVE Exclusive'
  OBVIOUS
<1>0. shared \subseteq shared'
  BY SharedGrows
<1>1. CASE UNCHANGED vars \/ \E v \in VMs : PowerOff(v)
  BY <1>0, <1>1 DEF vars, PowerOff, Exclusive, WorksOn, domVars
<1>2. ASSUME NEW p \in Procs, Works(p), Frame(p) PROVE Exclusive'
  <2>1. ASSUME NEW q \in Procs, NEW v \in VMs, WorksOn(q, v)' PROVE WorksOn(q, v)
    BY <1>2, <2>1, WorkKept DEF WorksOn, Frame
  <2> QED BY <1>0, <2>1 DEF Exclusive
<1>3. ASSUME NEW p \in Procs, Begins(p), Frame(p) PROVE Exclusive'
  <2>1. ASSUME NEW q \in Procs \ {p}, NEW v \in VMs, WorksOn(q, v)' PROVE WorksOn(q, v)
    BY <1>3, <2>1 DEF WorksOn, Frame
  <2>2. ASSUME NEW v \in VMs, BeginOn(p, v) PROVE Exclusive'
    <3>1. \A w \in VMs : WorksOn(p, w)' => w = v /\ pc'[p] # "ssh_verify"
      BY <2>2, BeginFacts DEF WorksOn, SshPlaces
    <3>2. pc'[p] # "ssh_verify" /\ v \notin shared' => ~Busy(v)
      BY <2>2, BeginFacts
    <3> QED BY <1>0, <2>1, <3>1, <3>2 DEF Exclusive, Busy
  <2>3. ASSUME NEW i \in Images, BeginUpload(p, i) PROVE Exclusive'
    <3>1. job'[p].vm = NoVM
      BY <2>3 DEF BeginUpload, Idle, TypeInv, TypeOK
    <3>2. \A v \in VMs : ~WorksOn(p, v)'
      BY <3>1, SetupAssumption DEF WorksOn
    <3> QED BY <1>0, <2>1, <3>2 DEF Exclusive
  <2> QED BY <1>3, <2>2, <2>3 DEF Begins
<1> QED BY <1>1, <1>2, <1>3, FrameStep, StepsAre DEF Next

-----------------------------------------------------------------------------
(* The pool and the volumes *)

LEMMA NextFileIs ==
  \A l, o : NextFile(l, o) \in {"vars", "ignition", "define"}
BY DEF NextFile

LEMMA NextGen ==
  ASSUME TypeInv
  PROVE  /\ gens + 1 \in Nat /\ gens + 1 # 0
         /\ \A p \in Procs, port \in Ports :
              [job[p] EXCEPT !.gen = gens + 1, !.port = port] \in Jobs
<1>1. gens \in Nat
  BY DEF TypeInv, TypeOK
<1>2. gens + 1 \in Nat /\ gens + 1 # 0
  BY <1>1
<1>3. \A p \in Procs : job[p] \in Jobs
  BY DEF TypeInv, TypeOK
<1> QED BY <1>2, <1>3, JobFields

\* The locals of a process that writes the next file or defines the domain.
LEMMA FileGoto ==
  ASSUME TypeInv, NEW p \in Procs
  PROVE  \A j, l :
           j \in Jobs /\ GotoFile(p, j, l) =>
             /\ Target(p)' = NextFile(l, j.opts)
             /\ pc'[p] \in {"pool_info", "define"}
             /\ job'[p].vm = j.vm /\ job'[p].gen = j.gen /\ job'[p].port = j.port
             /\ job'[p].opts = j.opts /\ job'[p].next = NextFile(l, j.opts)
<1> SUFFICES ASSUME NEW j \in Jobs, NEW l, GotoFile(p, j, l)
             PROVE  /\ Target(p)' = NextFile(l, j.opts)
                    /\ pc'[p] \in {"pool_info", "define"}
                    /\ job'[p].vm = j.vm /\ job'[p].gen = j.gen /\ job'[p].port = j.port
                    /\ job'[p].opts = j.opts /\ job'[p].next = NextFile(l, j.opts)
  OBVIOUS
<1> DEFINE n == NextFile(l, j.opts)
           there == IF n = "define" THEN n ELSE "pool_info"
<1>1. n \in {"vars", "ignition", "define"}
  BY NextFileIs
<1>2. pc' = [pc EXCEPT ![p] = there] /\ job' = [job EXCEPT ![p] = [j EXCEPT !.next = n]]
  BY DEF GotoFile, Goto
<1> HIDE DEF n
<1>3. job'[p] = [j EXCEPT !.next = n] /\ pc'[p] = there
  BY <1>2 DEF TypeInv, TypeOK
<1>4. Target(p)' = n
  BY <1>1, <1>3 DEF Target, PoolPlaces, Jobs
<1> QED BY <1>3, <1>4 DEF Jobs, n

\* Nothing takes the pool away, or makes it one that has never been started.
LEMMA PoolGrows ==
  ASSUME TypeInv, NEW p \in Procs, RunStep(p) \/ Kill(p)
  PROVE  (Tried => Tried') /\ (pool # "none" => pool' # "none")
<1> USE DEF Tried
<1>1. CASE PoolStep(p) \/ UploadStep(p)
  BY <1>1 DEF PoolStep, EnsurePool, PoolInfo, PoolReuse, PoolDefine, PoolStart, poolVars,
              UploadStep, Upload, UploadPool, UploadDelete, UploadCreate, UploadFill
<1>2. CASE ~PoolStep(p) /\ ~UploadStep(p)
  BY <1>2, StepsAre
     DEF Works, BuildStep, DomainStep, RmStep, SshStep, Clone, Port, Vars, VarsFail, Ignition,
         GiveUp, Define, Create, Start, RmLook, RmDestroy, RmDisk, RmIgnition, RmUndefine,
         SshVerify, SshConfig, SshPoll, SessionEnds, Kill, Begins, BeginOn, Begin, BeginUpload,
         poolVars
<1> QED BY <1>1, <1>2

LEMMA PoolOKStep ==
  ASSUME TypeInv, NEW p \in Procs, RunStep(p) \/ Kill(p), \A q \in Procs : PoolOK(q)
  PROVE  \A q \in Procs : PoolOK(q)'
<1> USE DEF TypeInv, TypeOK, Goto, Target, PoolPlaces, PoolOK, poolVars
<1>1. ASSUME NEW q \in Procs, q # p PROVE PoolOK(q)'
  BY <1>1, FrameStep, PoolGrows DEF Frame
<1>2. PoolOK(p)'
  <2>1. CASE End(p)
    BY <2>1 DEF End
  <2>2. CASE PoolInfo(p)
    BY <2>2, PoolGrows DEF PoolInfo, LocalOK, Jobs
  <2>3. CASE PoolReuse(p)
    BY <2>3 DEF PoolReuse, LocalOK, Tried
  <2>4. CASE PoolDefine(p) /\ ~End(p)
    BY <2>4 DEF PoolDefine, LocalOK, Jobs
  <2>5. CASE PoolStart(p) /\ ~End(p)
    BY <2>5 DEF PoolStart, LocalOK, Tried
  <2>6. CASE UploadStep(p) /\ ~End(p)
    BY <2>6 DEF UploadStep, Upload, UploadPool, UploadDelete, UploadCreate, UploadFill
  <2>7. CASE Clone(p) /\ ~Fail(p)
    BY <2>7 DEF Clone
  <2>8. CASE Port(p)
    <3>1. PICK port \in Ports : GotoFile(p, [job[p] EXCEPT !.gen = gens + 1, !.port = port], "port")
      BY <2>8 DEF Port, FreePorts
    <3>2. [job[p] EXCEPT !.gen = gens + 1, !.port = port] \in Jobs
      BY NextGen
    <3>3. pool' # "none"
      BY <2>8 DEF Port
    <3> HIDE DEF Target
    <3>4. pc'[p] \in {"pool_info", "define"}
      BY <3>1, <3>2, FileGoto
    <3> QED BY <3>3, <3>4
  <2>9. CASE Vars(p) \/ Ignition(p)
    <3>1. pool' # "none"
      BY <2>9 DEF Vars, Ignition
    <3>2. job[p] \in Jobs
      OBVIOUS
    <3> HIDE DEF Target
    <3>3. pc'[p] \in {"pool_info", "define"}
      BY <2>9, <3>2, FileGoto DEF Vars, Ignition
    <3> QED BY <3>1, <3>3
  <2>10. CASE (DomainStep(p) \/ RmStep(p) \/ SshStep(p)) /\ ~End(p)
    <3>1. CASE DomainStep(p)
      BY <2>10, <3>1 DEF DomainStep, Define, Create, Start, AfterStart, Fail
    <3>2. CASE RmStep(p)
      <4>1. pc'[p] \in DestroyPlaces \cup RemovePlaces
        BY <2>10, <3>2 DEF RmStep, RmLook, RmDestroy, RmDisk, RmIgnition, RmUndefine,
                           Place, DestroyPlaces, RemovePlaces
      <4> QED BY <4>1 DEF DestroyPlaces, RemovePlaces
    <3>3. CASE SshStep(p)
      BY <2>10, <3>3 DEF SshStep, SshVerify, SshConfig, SshPoll, SessionEnds
    <3> QED BY <2>10, <3>1, <3>2, <3>3
  <2>11. ASSUME NEW v \in VMs, BeginOn(p, v) PROVE PoolOK(p)'
    BY <2>11, BeginFacts
  <2>12. ASSUME NEW i \in Images, BeginUpload(p, i) PROVE PoolOK(p)'
    BY <2>12 DEF BeginUpload
  <2>13. CASE VarsFail(p) \/ GiveUp(p) \/ Kill(p) \/ Fail(p)
    BY <2>1, <2>13 DEF VarsFail, GiveUp, Fail, Kill
  <2>14. CASE PoolStep(p)
    BY <2>1, <2>2, <2>3, <2>4, <2>5, <2>14 DEF PoolStep, EnsurePool
  <2> HIDE DEF TypeInv, TypeOK, Goto, Target, PoolPlaces, PoolOK, poolVars
  <2>15. CASE BuildStep(p)
    BY <2>1, <2>7, <2>8, <2>9, <2>13, <2>15 DEF BuildStep
  <2>16. CASE Begins(p)
    BY <2>11, <2>12, <2>16 DEF Begins
  <2> QED BY <2>1, <2>6, <2>10, <2>13, <2>14, <2>15, <2>16, StepsAre DEF Works
<1> QED BY <1>1, <1>2

LEMMA PoolStepInv == TypeInv /\ PoolInv /\ [Next]_vars => PoolInv'
<1> SUFFICES ASSUME TypeInv, PoolInv, [Next]_vars PROVE PoolInv'
  OBVIOUS
<1>1. CASE UNCHANGED vars \/ \E v \in VMs : PowerOff(v)
  BY <1>1 DEF vars, PowerOff, poolVars, PoolInv, PoolOK, Tried, Target, Creating
<1>2. ASSUME NEW p \in Procs, RunStep(p) \/ Kill(p) PROVE PoolInv'
  <2>1. \A q \in Procs : PoolOK(q)'
    BY <1>2, PoolOKStep DEF PoolInv
  <2>2. ASSUME pool' = "inactive" PROVE kills' > 0 \/ \E q \in Procs : Creating(q)'
    <3>1. CASE Kill(p)
      BY <3>1 DEF Kill, TypeInv, TypeOK
    <3>2. CASE PoolDefine(p) /\ pool = "none"
      BY <2>2, <3>2 DEF PoolDefine, Creating, Goto, TypeInv, TypeOK
    <3>3. CASE pool = "inactive" /\ ~Kill(p)
      <4>1. kills' = kills
        BY <1>2, <3>3, StepsAre
           DEF Works, PoolStep, UploadStep, BuildStep, DomainStep, RmStep, SshStep,
               Clone, Port, Vars, VarsFail, Ignition, GiveUp, Define, Create, Start,
               RmLook, RmDestroy, RmDisk, RmIgnition, RmUndefine,
               SshVerify, SshConfig, SshPoll, SessionEnds, Begins, BeginOn, Begin, BeginUpload
      <4>2. ASSUME NEW q \in Procs, Creating(q) PROVE Creating(q)'
        <5>1. CASE q # p
          BY <4>2, <5>1, <1>2, FrameStep DEF Frame, Creating
        <5>2. CASE q = p
          BY <2>2, <3>3, <4>2, <5>2, <1>2, StepsAre
             DEF Creating, Works, PoolStep, EnsurePool, PoolInfo, PoolReuse, PoolDefine, PoolStart,
                 UploadStep, Upload, UploadPool, UploadDelete, UploadCreate, UploadFill,
                 BuildStep, DomainStep, RmStep, SshStep,
                 Clone, Port, Vars, VarsFail, Ignition, GiveUp, Define, Create, Start,
                 RmLook, RmDestroy, RmDisk, RmIgnition, RmUndefine,
                 SshVerify, SshConfig, SshPoll, SessionEnds, Begins, BeginOn, Begin, BeginUpload
        <5> QED BY <5>1, <5>2
      <4> QED BY <3>3, <4>1, <4>2 DEF PoolInv
    <3>4. pool = "none" /\ ~Kill(p) => PoolDefine(p)
      BY <1>2, <2>2, StepsAre
         DEF Works, PoolStep, EnsurePool, PoolInfo, PoolReuse, PoolStart, poolVars,
             UploadStep, Upload, UploadPool, UploadDelete, UploadCreate, UploadFill,
             BuildStep, DomainStep, RmStep, SshStep,
             Clone, Port, Vars, VarsFail, Ignition, GiveUp, Define, Create, Start,
             RmLook, RmDestroy, RmDisk, RmIgnition, RmUndefine,
             SshVerify, SshConfig, SshPoll, SessionEnds, Begins, BeginOn, Begin, BeginUpload
    <3>5. pool \notin {"active", "failed"}
      BY <1>2, <2>2, PoolGrows DEF Tried
    <3> QED BY <3>1, <3>2, <3>3, <3>4, <3>5 DEF TypeInv, TypeOK
  <2> QED BY <2>1, <2>2 DEF PoolInv
<1> QED BY <1>1, <1>2 DEF Next

LEMMA PoolInvReady == TypeInv /\ PoolInv => PoolReady
BY DEF TypeInv, TypeOK, PoolInv, PoolOK, Tried, PoolReady, PastEnsure, Target, PoolPlaces

LEMMA VolumeStep == TypeInv /\ VolumeComplete /\ [Next]_vars => VolumeComplete'
<1> SUFFICES ASSUME TypeInv, VolumeComplete, [Next]_vars,
                    NEW i \in Images, vol'[i] = "empty"
             PROVE  \E p \in Procs : pc'[p] = "up_upload" /\ job'[p].image = i
  BY DEF VolumeComplete
<1> USE DEF TypeInv, TypeOK, VolumeComplete, poolVars
<1>1. CASE UNCHANGED vars \/ \E v \in VMs : PowerOff(v)
  BY <1>1 DEF vars, PowerOff
<1>2. ASSUME NEW p \in Procs, RunStep(p) \/ Kill(p)
      PROVE  \E q \in Procs : pc'[q] = "up_upload" /\ job'[q].image = i
  <2>1. CASE UploadCreate(p) /\ job[p].image = i /\ pc'[p] = "up_upload"
    BY <2>1 DEF UploadCreate, End, Goto
  <2>2. CASE ~(UploadCreate(p) /\ job[p].image = i /\ pc'[p] = "up_upload")
    <3>1. vol[i] = vol'[i]
      <4>1. CASE UploadStep(p)
        BY <2>2, <4>1 DEF UploadStep, Upload, UploadPool, UploadDelete, UploadCreate, UploadFill, Spoil, Goto
      <4>2. CASE ~UploadStep(p)
        BY <1>2, <4>2, StepsAre
           DEF Works, PoolStep, EnsurePool, PoolInfo, PoolReuse, PoolDefine, PoolStart,
               BuildStep, DomainStep, RmStep, SshStep,
               Clone, Port, Vars, VarsFail, Ignition, GiveUp, Define, Create, Start,
               RmLook, RmDestroy, RmDisk, RmIgnition, RmUndefine,
               SshVerify, SshConfig, SshPoll, SessionEnds, Kill, Spoil, Begins, BeginOn, Begin, BeginUpload
      <4> QED BY <4>1, <4>2
    <3>2. PICK q \in Procs : pc[q] = "up_upload" /\ job[q].image = i
      BY <3>1
    <3>3. CASE q # p
      BY <1>2, <3>2, <3>3, FrameStep DEF Frame
    <3>4. CASE q = p
      <4>1. CASE UploadFill(p)
        BY <3>1, <3>2, <3>4, <4>1 DEF UploadFill, Spoil
      <4>2. CASE Kill(p)
        BY <3>1, <3>2, <3>4, <4>2 DEF Kill, Spoil
      <4>3. CASE ~UploadFill(p) /\ ~Kill(p)
        BY <1>2, <3>2, <3>4, <4>3, StepsAre
           DEF Works, PoolStep, EnsurePool, PoolInfo, PoolReuse, PoolDefine, PoolStart,
               UploadStep, Upload, UploadPool, UploadDelete, UploadCreate,
               BuildStep, DomainStep, RmStep, SshStep,
               Clone, Port, Vars, VarsFail, Ignition, GiveUp, Define, Create, Start,
               RmLook, RmDestroy, RmDisk, RmIgnition, RmUndefine,
               SshVerify, SshConfig, SshPoll, SessionEnds, Begins, BeginOn, Begin, BeginUpload
      <4> QED BY <4>1, <4>2, <4>3
    <3> QED BY <3>3, <3>4
  <2> QED BY <2>1, <2>2
<1> QED BY <1>1, <1>2 DEF Next

-----------------------------------------------------------------------------
(* Keypairs *)

\* A step gives nobody a keypair of another VM.
LEMMA OwnsStep ==
  ASSUME TypeInv, [Next]_vars, NEW g \in Nat \ {0}, NEW v \in VMs, Owns(g, v)'
  PROVE  Owns(g, v) \/ (gens' = gens + 1 /\ g = gens + 1 /\ \E p \in Procs : Port(p) /\ job[p].vm = v)
<1> USE DEF TypeInv, TypeOK, Owns
<1>1. CASE UNCHANGED vars
  BY <1>1 DEF vars, domVars
<1>2. ASSUME NEW w \in VMs, PowerOff(w) PROVE Owns(g, v)
  BY <1>2 DEF PowerOff, Halt, NoDom
<1>3. ASSUME NEW p \in Procs, RunStep(p) \/ Kill(p), ~Port(p) PROVE Owns(g, v)
  <2>1. CASE dom'[v].gen = g /\ dom[v].gen # g
    <3>1. CASE Define(p) \/ Create(p)
      BY <2>1, <3>1 DEF Define, Create, NewDom
    <3>2. CASE RmDestroy(p) \/ RmUndefine(p)
      <4>1. g # NoDom.gen
        BY DEF NoDom
      <4>2. CASE RmDestroy(p)
        BY <2>1, <4>1, <4>2 DEF RmDestroy, Halt
      <4>3. CASE RmUndefine(p)
        <5>1. \A u \in VMs : [dom[u] EXCEPT !.opts.transient = TRUE].gen = dom[u].gen
          BY DEF Doms, NoDom
        <5>2. \/ dom' = dom
              \/ dom' = [dom EXCEPT ![job[p].vm] = NoDom]
              \/ dom' = [dom EXCEPT ![job[p].vm] = [dom[job[p].vm] EXCEPT !.opts.transient = TRUE]]
          BY <4>3 DEF RmUndefine
        <5> QED BY <2>1, <4>1, <5>1, <5>2
      <4> QED BY <3>2, <4>2, <4>3
    <3>3. CASE ~Define(p) /\ ~Create(p) /\ ~RmDestroy(p) /\ ~RmUndefine(p)
      BY <2>1, <3>3, <1>3, StepsAre
         DEF Works, PoolStep, UploadStep, BuildStep, DomainStep, RmStep, SshStep,
             Clone, Vars, VarsFail, Ignition, GiveUp, Start, RmLook, RmDisk, RmIgnition,
             SshVerify, SshConfig, SshPoll, SessionEnds, Kill, Begins, BeginOn, Begin, BeginUpload,
             domVars
    <3> QED BY <3>1, <3>2, <3>3
  <2>2. ASSUME NEW q \in Procs, job'[q].vm = v, job'[q].gen = g PROVE Owns(g, v)
    <3>1. CASE q # p
      BY <1>3, <2>2, <3>1, FrameStep DEF Frame
    <3>2. CASE q = p /\ Begins(p)
      <4>1. ASSUME NEW w \in VMs, BeginOn(p, w) PROVE FALSE
        BY <2>2, <3>2, <4>1, BeginFacts
      <4>2. ASSUME NEW i \in Images, BeginUpload(p, i) PROVE FALSE
        BY <2>2, <3>2, <4>2 DEF BeginUpload, Idle
      <4> QED BY <3>2, <4>1, <4>2 DEF Begins
    <3>3. CASE q = p /\ Works(p)
      <4>1. job[p].vm = v
        BY <2>2, <3>3, VmKept, SetupAssumption
      <4>2. CASE SshConfig(p)
        BY <2>2, <3>3, <4>1, <4>2 DEF SshConfig, Jobs, End, Idle
      <4>3. CASE ~SshConfig(p)
        <5>1. job'[p].gen \in {job[p].gen, 0}
          <6>1. CASE End(p)
            BY <6>1 DEF End, Idle
          <6>2. CASE Vars(p) \/ Ignition(p)
            <7>1. job[p] \in Jobs
              OBVIOUS
            <7> QED BY <6>2, <7>1, FileGoto DEF Vars, Ignition
          <6>3. CASE ~End(p) /\ ~Vars(p) /\ ~Ignition(p)
            <7>1. job[p] \in Jobs
              OBVIOUS
            <7>2. CASE PoolStep(p) \/ UploadStep(p)
              BY <6>3, <7>1, <7>2
                 DEF PoolStep, EnsurePool, PoolInfo, PoolReuse, PoolDefine, PoolStart,
                     UploadStep, Upload, UploadPool, UploadDelete, UploadCreate, UploadFill, Jobs
            <7>3. CASE BuildStep(p) \/ Kill(p)
              BY <1>3, <6>3, <7>1, <7>3 DEF BuildStep, Clone, VarsFail, GiveUp, Fail, Kill
            <7>4. CASE DomainStep(p)
              BY <6>3, <7>1, <7>4 DEF DomainStep, Fail, Define, Create, Start, AfterStart
            <7>5. CASE RmStep(p)
              BY <6>3, <7>1, <7>5
                 DEF RmStep, RmLook, RmDestroy, RmDisk, RmIgnition, RmUndefine, Jobs
            <7>6. CASE SshStep(p)
              BY <4>3, <6>3, <7>1, <7>6 DEF SshStep, SshVerify, SshPoll, SessionEnds
            <7> QED BY <3>3, <7>2, <7>3, <7>4, <7>5, <7>6 DEF Works
          <6> QED BY <6>1, <6>2, <6>3
        <5> QED BY <2>2, <3>3, <4>1, <5>1
      <4> QED BY <4>2, <4>3
    <3> QED BY <1>3, <3>1, <3>2, <3>3, StepsAre
  <2> QED BY <2>1, <2>2
<1>4. ASSUME NEW p \in Procs, Port(p), ~Owns(g, v)
      PROVE  gens' = gens + 1 /\ g = gens + 1 /\ job[p].vm = v
  <2>1. PICK port \in Ports : GotoFile(p, [job[p] EXCEPT !.gen = gens + 1, !.port = port], "port")
    BY <1>4 DEF Port, FreePorts
  <2> DEFINE j == [job[p] EXCEPT !.gen = gens + 1, !.port = port]
  <2>2. j \in Jobs /\ j.gen = gens + 1 /\ j.vm = job[p].vm
    BY NextGen DEF Jobs
  <2>3. job'[p].gen = gens + 1 /\ job'[p].vm = job[p].vm
    <3>1. GotoFile(p, j, "port")
      BY <2>1
    <3> HIDE DEF j
    <3> QED BY <2>2, <3>1, FileGoto
  <2>4. dom' = dom /\ gens' = gens + 1
    BY <1>4 DEF Port
  <2>5. RunStep(p)
    BY <1>4 DEF RunStep
  <2> QED BY <1>4, <2>3, <2>4, <2>5, FrameStep DEF Frame
<1> QED BY <1>1, <1>2, <1>3, <1>4 DEF Next

LEMMA GensGrow ==
  ASSUME TypeInv, [Next]_vars PROVE gens' \in {gens, gens + 1}
BY StepsAre
   DEF Next, vars, domVars, PowerOff, Works, PoolStep, UploadStep, BuildStep, DomainStep, RmStep, SshStep,
       Clone, Port, Vars, VarsFail, Ignition, GiveUp, Define, Create, Start,
       RmLook, RmDestroy, RmDisk, RmIgnition, RmUndefine,
       SshVerify, SshConfig, SshPoll, SessionEnds, Kill, Begins, BeginOn, Begin, BeginUpload

LEMMA GenStep == TypeInv /\ Exclusive /\ GenInv /\ [Next]_vars => GenInv'
<1> SUFFICES ASSUME TypeInv, Exclusive, GenInv, [Next]_vars PROVE GenInv'
  OBVIOUS
<1>1. gens \in Nat /\ gens' \in {gens, gens + 1}
  BY GensGrow DEF TypeInv, TypeOK
<1>2. ASSUME NEW g \in Nat, NEW v \in VMs, Owns(g, v)' PROVE g <= gens'
  <2>1. CASE g = 0
    BY <1>1, <2>1
  <2>2. CASE g # 0
    <3>1. g <= gens \/ (g = gens + 1 /\ gens' = gens + 1)
      BY <1>2, <2>2, OwnsStep DEF GenInv
    <3> QED BY <1>1, <3>1
  <2> QED BY <2>1, <2>2
<1>3. ASSUME NEW g \in Nat \ {0}, NEW v \in VMs, NEW w \in VMs, Owns(g, v)', Owns(g, w)'
      PROVE  v = w
  <2>1. CASE g = gens + 1
    <3>1. ~Owns(g, v) /\ ~Owns(g, w)
      BY <1>1, <2>1 DEF GenInv
    <3>2. PICK p \in Procs : Port(p) /\ job[p].vm = v
      BY <1>3, <3>1, OwnsStep
    <3>3. PICK q \in Procs : Port(q) /\ job[q].vm = w
      BY <1>3, <3>1, OwnsStep
    <3>4. p = q
      <4>1. pc'[p] # "port"
        <5>1. PICK port \in Ports : GotoFile(p, [job[p] EXCEPT !.gen = gens + 1, !.port = port], "port")
          BY <3>2 DEF Port, FreePorts
        <5> QED BY <5>1, NextGen, FileGoto
      <4>2. RunStep(q) /\ pc[p] = "port"
        BY <3>2, <3>3 DEF RunStep, Port
      <4> QED BY <4>1, <4>2, FrameStep DEF Frame
    <3> QED BY <3>2, <3>3, <3>4
  <2>2. CASE g # gens + 1
    <3>1. Owns(g, v) /\ Owns(g, w)
      BY <1>3, <2>2, OwnsStep
    <3> QED BY <3>1 DEF GenInv
  <2> QED BY <2>1, <2>2
<1> QED BY <1>2, <1>3 DEF GenInv

LEMMA SshStepInv ==
  ASSUME TypeInv, SshInv, [Next]_vars
  PROVE  SshInv'
<1> SUFFICES ASSUME NEW q \in Procs, pc'[q] \in {"ssh_poll", "session"}
             PROVE  job'[q].gen # 0
  BY DEF SshInv
<1> USE DEF TypeInv, TypeOK, SshInv
<1>1. CASE UNCHANGED vars \/ \E v \in VMs : PowerOff(v)
  BY <1>1 DEF vars, PowerOff
<1>2. ASSUME NEW p \in Procs, RunStep(p) \/ Kill(p) PROVE job'[q].gen # 0
  <2>1. CASE q # p
    BY <1>2, <2>1, FrameStep DEF Frame
  <2>2. CASE q = p /\ SshConfig(p)
    <3>1. job[p].vm \in VMs
      BY <2>2 DEF SshConfig, LocalOK, UpPlaces
    <3>2. dom[job[p].vm].gen # 0
      BY <2>2, <3>1 DEF SshConfig, End, Defined, Doms
    <3> QED BY <2>2, <3>2 DEF SshConfig, End, Jobs
  <2>3. CASE q = p /\ (Port(p) \/ Vars(p) \/ Ignition(p))
    <3>1. PICK j \in Jobs, l \in {"port", "vars", "ignition"} : GotoFile(p, j, l)
      <4>1. CASE Port(p)
        <5>1. PICK port \in Ports : GotoFile(p, [job[p] EXCEPT !.gen = gens + 1, !.port = port], "port")
          BY <4>1 DEF Port, FreePorts
        <5> QED BY <5>1, NextGen
      <4>2. CASE Vars(p) \/ Ignition(p)
        BY <4>2 DEF Vars, Ignition
      <4> QED BY <2>3, <4>1, <4>2
    <3> QED BY <2>3, <3>1, FileGoto
  <2>4. CASE q = p /\ ~SshConfig(p) /\ ~Port(p) /\ ~Vars(p) /\ ~Ignition(p)
    <3>1. CASE End(p)
      BY <2>4, <3>1 DEF End
    <3>2. CASE ~End(p) /\ PoolStep(p)
      <4>1. pc'[p] \in {"pool_reuse", "pool_define", "pool_start", job[p].next}
        BY <3>2 DEF PoolStep, EnsurePool, PoolInfo, PoolReuse, PoolDefine, PoolStart, Goto
      <4>2. job[p].next \in {"clone", "vars", "ignition"}
        BY <3>2 DEF PoolStep, EnsurePool, PoolInfo, PoolReuse, PoolDefine, PoolStart, LocalOK, PoolPlaces
      <4> QED BY <2>4, <4>1, <4>2
    <3>4. CASE ~End(p) /\ UploadStep(p)
      <4>1. CASE UploadPool(p) \/ UploadDelete(p)
        BY <2>4, <3>4, <4>1 DEF UploadPool, UploadDelete, Goto
      <4>2. CASE UploadCreate(p)
        BY <2>4, <3>4, <4>2 DEF UploadCreate, Goto
      <4>3. CASE UploadFill(p)
        BY <3>4, <4>3 DEF UploadFill
      <4> QED BY <3>4, <4>1, <4>2, <4>3 DEF UploadStep, Upload
    <3>3. CASE ~End(p) /\ ~PoolStep(p) /\ ~UploadStep(p)
      BY <1>2, <2>4, <3>3, StepsAre
         DEF Works, BuildStep, DomainStep, RmStep, SshStep,
             Clone, VarsFail, GiveUp, Fail, Define, Create, Start, AfterStart,
             RmLook, RmDestroy, Place, RmDisk, RmIgnition, RmUndefine,
             SshVerify, SshPoll, SessionEnds, Kill, Begins, BeginOn, Begin, BeginUpload, Goto
    <3> QED BY <3>1, <3>2, <3>3, <3>4
  <2> QED BY <2>1, <2>2, <2>3, <2>4
<1> QED BY <1>1, <1>2 DEF Next

-----------------------------------------------------------------------------
(* Guests and their domains *)

LEMMA GuestStep == TypeInv /\ GuestInv /\ [Next]_vars => GuestInv'
<1> SUFFICES ASSUME TypeInv, GuestInv, [Next]_vars, NEW v \in VMs PROVE GuestOK(v)'
  BY DEF GuestInv
<1>0. GuestOK(v) /\ dom \in [VMs -> Doms] /\ guest \in [VMs -> Guests]
  BY DEF GuestInv, TypeInv, TypeOK
<1>1. CASE UNCHANGED vars
  BY <1>0, <1>1 DEF vars, domVars, GuestOK, Defined, Running
<1>2. ASSUME NEW w \in VMs, Halt(w) PROVE GuestOK(v)'
  BY <1>0, <1>2 DEF Halt, GuestOK, Defined, Running
<1>3. ASSUME NEW p \in Procs, RunStep(p) \/ Kill(p) PROVE GuestOK(v)'
  <2>1. CASE v # job[p].vm
    BY <1>0, <1>3, <2>1, FrameStep DEF Frame, SameVm, GuestOK, Defined, Running
  <2>2. CASE dom' = dom /\ guest' = guest
    BY <1>0, <2>2 DEF GuestOK, Defined, Running
  <2>3. CASE v = job[p].vm /\ Define(p)
    <3>1. /\ ~Defined(v) /\ ~Running(v) /\ guest' = guest
          /\ dom'[v] = NewDom(job[p]) /\ ~job[p].opts.transient
      BY <1>0, <2>3 DEF Define, GuestOK
    <3> QED BY <3>1 DEF GuestOK, NewDom, Running, Defined
  <2>4. CASE v = job[p].vm /\ Create(p) /\ ~(dom' = dom /\ guest' = guest)
    <3>1. job[p].gen # 0
      BY <2>4 DEF Create, TypeInv, LocalOK, Target, PoolPlaces
    <3>2. dom'[v] = NewDom(job[p]) /\ guest'[v] = Started(v, NewDom(job[p]))
      BY <1>0, <2>4 DEF Create
    <3>3. dom'[v].gen = job[p].gen /\ guest'[v].gen = job[p].gen
      BY <3>2 DEF NewDom, Started
    <3>4. dom'[v] # NoDom /\ guest'[v] # Off
      BY <3>1, <3>3 DEF NoDom, Off
    <3> QED BY <3>3, <3>4 DEF GuestOK, Defined, Running
  <2>5. CASE v = job[p].vm /\ Start(p) /\ guest' # guest
    <3>1. Defined(v) /\ dom' = dom /\ guest'[v] = Started(v, dom[v])
      BY <1>0, <2>5 DEF Start
    <3>2. dom[v].gen # 0 /\ guest'[v].gen = dom[v].gen
      BY <1>0, <3>1 DEF Defined, Doms, Started
    <3>3. guest'[v] # Off
      BY <3>2 DEF Off
    <3> QED BY <3>1, <3>2, <3>3 DEF GuestOK, Defined, Running
  <2>6. CASE v = job[p].vm /\ RmDestroy(p)
    BY <1>2, <2>2, <2>6 DEF RmDestroy
  <2>7. CASE v = job[p].vm /\ RmUndefine(p)
    <3> DEFINE e == [dom[v] EXCEPT !.opts.transient = TRUE]
    <3>1. CASE Running(v) /\ dom'[v] = e /\ guest' = guest
      <4>1. Defined(v) /\ dom[v].gen # 0 /\ e.gen = dom[v].gen
        BY <1>0, <3>1 DEF GuestOK, Defined, Doms
      <4> QED BY <1>0, <3>1, <4>1 DEF GuestOK, Defined, Running, NoDom
    <3>2. CASE ~Running(v) /\ dom'[v] = NoDom /\ guest' = guest
      BY <1>0, <3>2 DEF GuestOK, Defined, Running
    <3> QED BY <1>0, <2>2, <2>7, <3>1, <3>2 DEF RmUndefine
  <2> QED BY <1>3, <2>1, <2>2, <2>3, <2>4, <2>5, <2>6, <2>7, StepsAre
          DEF Works, PoolStep, UploadStep, BuildStep, DomainStep, RmStep, SshStep,
              Clone, Port, Vars, VarsFail, Ignition, GiveUp, Define, Start, RmLook, RmDisk, RmIgnition,
              SshVerify, SshConfig, SshPoll, SessionEnds, Kill, Begins, BeginOn, Begin, BeginUpload,
              fileVars, domVars
<1> QED BY <1>1, <1>2, <1>3 DEF Next, PowerOff

-----------------------------------------------------------------------------
(* Files and domains *)

LEMMA NextFileFacts ==
  \A l, o :
    /\ NextFile(l, o) = "vars" => o.secure
    /\ NextFile(l, o) = "ignition" => o.ignition
    /\ l = "port" /\ NextFile(l, o) # "vars" => ~o.secure
    /\ l \in {"vars", "ignition"} => NextFile(l, o) # "vars"
    /\ l \in {"port", "vars"} /\ NextFile(l, o) = "define" => ~o.ignition
    /\ l = "ignition" => NextFile(l, o) = "define"
BY DEF NextFile

\* What a process works on when ProcOK says something of it.
Placed(p) == pc[p] \in PoolPlaces \cup RunPlaces \cup DestroyPlaces \cup RemovePlaces

\* A process that does none of the work that ProcOK is about.
LEMMA ProcElsewhere ==
  ASSUME NEW p \in Procs, ~Placed(p)'
  PROVE  ProcOK(p)'
BY DEF Placed, ProcOK, Building, Target, PoolPlaces, RunPlaces, DestroyPlaces, RemovePlaces

LEMMA ProcEnd ==
  ASSUME TypeInv, NEW p \in Procs, End(p)
  PROVE  ProcOK(p)'
BY ProcElsewhere
   DEF Placed, TypeInv, TypeOK, End, PoolPlaces, RunPlaces, DestroyPlaces, RemovePlaces

\* A step of another process, which leaves the VM of q alone or is a step of a
\* session.
LEMMA ProcOthers ==
  ASSUME TypeInv, Exclusive, NEW p \in Procs, Works(p) \/ Begins(p), Frame(p),
         NEW q \in Procs \ {p}, job[q].vm \in VMs \ shared, ProcOK(q)
  PROVE  ProcOK(q)'
<1>1. pc'[q] = pc[q] /\ job'[q] = job[q]
  BY DEF Frame
<1> DEFINE v == job[q].vm
<1>2. CASE SameVm(v)
  BY <1>1, <1>2 DEF ProcOK, SameVm, Target, Building, Defined, Running, Fileless
<1>3. CASE pc[q] \in SshPlaces
  BY <1>1, <1>3, ProcElsewhere
     DEF Placed, SshPlaces, PoolPlaces, RunPlaces, DestroyPlaces, RemovePlaces
<1>4. CASE ~SameVm(v) /\ pc[q] \notin SshPlaces
  <2>1. job[p].vm = v
    BY <1>4 DEF Frame
  <2>2. pc[p] \in SshPlaces
    BY <1>4, <2>1 DEF Exclusive, WorksOn
  <2>3. /\ UNCHANGED <<disk, fwvars, ign, dom, guest>>
        /\ strays \subseteq strays'
    BY <2>2 DEF Works, PoolStep, EnsurePool, PoolInfo, PoolReuse, PoolDefine, PoolStart,
         UploadStep, Upload, UploadPool, UploadDelete, UploadCreate, UploadFill,
         BuildStep, DomainStep, RmStep, Clone, Port, Vars, VarsFail, Ignition, GiveUp,
         Define, Create, Start, RmLook, RmDestroy, RmDisk, RmIgnition, RmUndefine,
         SshStep, SshVerify, SshConfig, SshPoll, SessionEnds, Kill,
         Begins, BeginOn, Begin, BeginUpload, SshPlaces, fileVars, domVars
  <2> QED BY <1>1, <2>3 DEF ProcOK, Target, Building, Defined, Running, Fileless
<1> QED BY <1>2, <1>3, <1>4

LEMMA VmOthers ==
  ASSUME TypeInv, NEW p \in Procs, Frame(p), NEW v \in VMs \ {job[p].vm}, VmOK(v)
  PROVE  VmOK(v)'
<1>1. SameVm(v)
  BY DEF Frame
<1>2. BuiltBy(v) \subseteq BuiltBy(v)'
  BY DEF Frame, BuiltBy, Building, Target
<1> QED BY <1>1, <1>2 DEF VmOK, SameVm, Defined, Running, Fileless

LEMMA ProcBegins ==
  ASSUME TypeInv, RunInv, NEW p \in Procs, Begins(p), job'[p].vm \in VMs \ shared'
  PROVE  ProcOK(p)'
<1>1. ASSUME NEW v \in VMs, BeginOn(p, v) PROVE ProcOK(p)'
  <2>1. CASE pc'[p] = "pool_info"
    <3>0. job'[p].vm = v /\ v \notin shared /\ ~Busy(v)
      BY <1>1, <2>1, BeginFacts
    <3>1. ~Defined(v)
      BY <1>1, <2>1, BeginFacts
    <3>2. BuiltBy(v) = {}
      BY <3>0 DEF BuiltBy, Busy, WorksOn, Building, Target, SshPlaces, PoolPlaces, RunPlaces
    <3>3. v \notin strays => Fileless(v)
      BY <3>0, <3>1, <3>2 DEF RunInv, VmOK
    <3>4. /\ pc'[p] = "pool_info" /\ job'[p].vm = v /\ job'[p].next = "clone"
          /\ UNCHANGED <<disk, fwvars, ign, dom, guest, strays>>
      BY <1>1, <2>1, BeginFacts
    <3> QED BY <3>1, <3>3, <3>4
            DEF ProcOK, Building, Target, PoolPlaces, RunPlaces, DestroyPlaces, RemovePlaces,
                Defined, Running, Fileless
  <2>2. CASE pc'[p] # "pool_info"
    BY <1>1, <2>2, BeginFacts, ProcElsewhere
       DEF Placed, PoolPlaces, RunPlaces, DestroyPlaces, RemovePlaces
  <2> QED BY <2>1, <2>2
<1>2. ASSUME NEW i \in Images, BeginUpload(p, i) PROVE ProcOK(p)'
  BY <1>2, ProcElsewhere
     DEF Placed, BeginUpload, Goto, TypeInv, TypeOK, PoolPlaces, RunPlaces, DestroyPlaces, RemovePlaces
<1> QED BY <1>1, <1>2 DEF Begins

\* A process that works on a VM it shares with nobody.
WorksAlone(p, v) == v = job[p].vm /\ v \notin shared /\ Frame(p)

LEMMA ProcPool ==
  ASSUME TypeInv, RunInv, PoolInv, NEW p \in Procs, PoolStep(p), NEW v \in VMs, WorksAlone(p, v)
  PROVE  ProcOK(p)' /\ VmOK(v)'
<1> USE DEF TypeInv, TypeOK, Goto, fileVars, domVars
<1>1. job[p].next \in {"clone", "vars", "ignition"} /\ pc[p] \in PoolPlaces
  BY DEF PoolStep, EnsurePool, PoolInfo, PoolReuse, PoolDefine, PoolStart, LocalOK, PoolPlaces, UpPlaces
<1>2. v = job[p].vm /\ ProcOK(p) /\ VmOK(v)
  BY DEF WorksAlone, RunInv
<1>3. SameVm(v)
  BY DEF PoolStep, SameVm
<1>4. CASE ~End(p)
  <2>1. /\ job'[p].vm = v /\ job'[p].opts = job[p].opts /\ job'[p].gen = job[p].gen
        /\ job'[p].next = job[p].next
    BY <1>2, <1>4 DEF PoolStep, EnsurePool, PoolInfo, PoolReuse, PoolDefine, PoolStart, Jobs
  <2>2. pc'[p] \in PoolPlaces \cup {job[p].next}
    BY <1>4 DEF PoolStep, EnsurePool, PoolInfo, PoolReuse, PoolDefine, PoolStart, PoolPlaces
  <2>3. Target(p)' = job[p].next /\ Target(p) = job[p].next
    BY <1>1, <2>1, <2>2 DEF Target
  <2>4. ProcOK(p)'
    <3>1. /\ pc'[p] \notin DestroyPlaces \cup RemovePlaces
          /\ Building(p)' <=> Building(p)
      BY <1>1, <2>2, <2>3 DEF Building, PoolPlaces, DestroyPlaces, RemovePlaces
    <3>2. /\ Defined(v)' <=> Defined(v)
          /\ Running(v)' <=> Running(v)
          /\ Fileless(v)' <=> Fileless(v)
          /\ fwvars'[v] = fwvars[v] /\ ign'[v] = ign[v] /\ (v \in strays' <=> v \in strays)
      BY <1>3 DEF SameVm, Defined, Running, Fileless
    <3> HIDE DEF TypeInv, TypeOK
    <3> QED BY <1>2, <2>1, <2>3, <3>1, <3>2 DEF ProcOK, RemovePlaces
  <2>5. BuiltBy(v) \subseteq BuiltBy(v)'
    BY <1>2, <2>1, <2>3 DEF WorksAlone, BuiltBy, Building, Frame, Target
  <2>6. VmOK(v)'
    BY <1>2, <1>3, <2>5 DEF VmOK, SameVm, Defined, Running, Fileless
  <2> QED BY <2>4, <2>6
<1>5. CASE End(p)
  <2>1. pc[p] \in {"pool_define", "pool_start"}
    <3>1. pc[p] \in {"pool_info", "pool_reuse"} => pc'[p] # "idle"
      BY <1>1 DEF PoolStep, EnsurePool, PoolInfo, PoolReuse, PoolDefine, PoolStart
    <3> QED BY <1>1, <1>5, <3>1 DEF End, PoolPlaces
  <2>2. Target(p) = "clone"
    BY <2>1 DEF PoolInv, PoolOK, Target, PoolPlaces
  <2>3. /\ ~Defined(v)
        /\ v \notin strays => Fileless(v)
    BY <1>2, <2>2 DEF ProcOK, Building, RunPlaces
  <2>4. VmOK(v)'
    BY <1>2, <1>3, <2>3 DEF VmOK, SameVm, Defined, Running, Fileless
  <2> QED BY <1>5, <2>4, ProcEnd
<1> QED BY <1>4, <1>5

LEMMA ProcSsh ==
  ASSUME TypeInv, RunInv, NEW p \in Procs, SshStep(p), NEW v \in VMs, WorksAlone(p, v)
  PROVE  ProcOK(p)' /\ VmOK(v)'
<1> USE DEF TypeInv, TypeOK, Goto, fileVars, domVars
<1>1. ProcOK(p)'
  <2>1. CASE End(p)
    BY <2>1, ProcEnd
  <2>2. CASE ~End(p)
    <3>1. pc'[p] \in {"ssh_config", "ssh_poll", "session"}
      BY <2>2 DEF SshStep, SshVerify, SshConfig, SshPoll, SessionEnds
    <3> QED BY <3>1, ProcElsewhere DEF Placed, PoolPlaces, RunPlaces, DestroyPlaces, RemovePlaces
  <2> QED BY <2>1, <2>2
<1>2. SameVm(v)
  BY DEF SshStep, SshVerify, SshConfig, SshPoll, SessionEnds, SameVm
<1>3. ~Building(p)
  BY DEF SshStep, SshVerify, SshConfig, SshPoll, SessionEnds, Building, Target, PoolPlaces, RunPlaces
<1>4. BuiltBy(v) \subseteq BuiltBy(v)'
  BY <1>3 DEF WorksAlone, BuiltBy, Building, Frame, Target
<1> QED BY <1>1, <1>2, <1>4 DEF WorksAlone, RunInv, VmOK, SameVm, Defined, Running, Fileless

\* A process that gives up or is killed leaves a stray, whatever it has made.
LEMMA RunGivenUp ==
  ASSUME TypeInv, RunInv, NEW p \in Procs, End(p), NEW v \in VMs, WorksAlone(p, v),
         strays' = strays \cup {v}, UNCHANGED <<disk, fwvars, ign, dom, guest>>
  PROVE  ProcOK(p)' /\ VmOK(v)'
<1>1. VmOK(v)'
  BY DEF WorksAlone, RunInv, VmOK, Defined, Running
<1> QED BY <1>1, ProcEnd

\* The step to the next file: what ProcOK asks for there.
LEMMA RunGoesOn ==
  ASSUME TypeInv, RunInv, GuestInv, NEW p \in Procs, Building(p), NEW v \in VMs, WorksAlone(p, v),
         NEW j \in Jobs, NEW l \in {"port", "vars", "ignition"}, GotoFile(p, j, l),
         j.vm = v, j.opts = job[p].opts,
         UNCHANGED <<disk, dom, guest, strays>>,
         l = "port" => UNCHANGED <<fwvars, ign>>,
         l = "vars" => /\ j.opts.secure
                       /\ fwvars' = [fwvars EXCEPT ![v] = j.gen] /\ ign' = ign,
         l = "ignition" => /\ j.opts.ignition
                           /\ ign' = [ign EXCEPT ![v] = j.gen] /\ fwvars' = fwvars
                           /\ j.opts.secure => fwvars[v] = j.gen
  PROVE  ProcOK(p)' /\ VmOK(v)'
<1> DEFINE n == NextFile(l, j.opts)
<1>1. /\ Target(p)' = n /\ pc'[p] \in {"pool_info", "define"}
      /\ job'[p].vm = v /\ job'[p].gen = j.gen /\ job'[p].opts = j.opts
  BY FileGoto
<1>2. /\ n \in {"vars", "ignition", "define"}
      /\ n = "vars" => j.opts.secure
      /\ n = "ignition" => j.opts.ignition
      /\ l = "port" /\ n # "vars" => ~j.opts.secure
      /\ l \in {"vars", "ignition"} => n # "vars"
      /\ l \in {"port", "vars"} /\ n = "define" => ~j.opts.ignition
      /\ l = "ignition" => n = "define"
  BY NextFileIs, NextFileFacts
<1> HIDE DEF n
<1>3. ~Defined(v) /\ ~Running(v)
  BY DEF WorksAlone, RunInv, ProcOK, GuestInv, GuestOK
<1>4. v \notin strays => /\ j.opts.secure \/ fwvars[v] = 0
                         /\ j.opts.ignition \/ ign[v] = 0
  BY DEF WorksAlone, RunInv, ProcOK
<1>5. fwvars'[v] = (IF l = "vars" THEN j.gen ELSE fwvars[v]) /\ ign'[v] = (IF l = "ignition" THEN j.gen ELSE ign[v])
  BY DEF TypeInv, TypeOK
<1>6. ProcOK(p)'
  BY <1>1, <1>2, <1>3, <1>4, <1>5
     DEF ProcOK, Building, Defined, Running, RunPlaces, DestroyPlaces, RemovePlaces
<1>7. p \in BuiltBy(v)'
  BY <1>1, <1>2 DEF BuiltBy, Building, RunPlaces
<1>8. VmOK(v)'
  BY <1>3, <1>7 DEF VmOK, Defined, Running
<1> QED BY <1>6, <1>8

LEMMA ProcBuild ==
  ASSUME TypeInv, RunInv, GuestInv, NEW p \in Procs, BuildStep(p), NEW v \in VMs, WorksAlone(p, v)
  PROVE  ProcOK(p)' /\ VmOK(v)'
<1>1. v = job[p].vm /\ ProcOK(p) /\ VmOK(v)
  BY DEF WorksAlone, RunInv
<1>2. pc[p] \in RunPlaces /\ Target(p) = pc[p] /\ Building(p)
  BY DEF BuildStep, Clone, Port, Vars, VarsFail, Ignition, GiveUp, RunPlaces, PoolPlaces, Target, Building
<1>3. ~Defined(v) /\ ~Running(v)
  BY <1>1, <1>2 DEF ProcOK, GuestInv, GuestOK
<1>4. CASE Clone(p) /\ ~Fail(p)
  <2>1. /\ pc'[p] = "port" /\ job' = job
        /\ UNCHANGED <<fwvars, ign, dom, guest, strays>>
    BY <1>4 DEF Clone, Goto, TypeInv, TypeOK
  <2>2. Target(p)' = "port" /\ p \in BuiltBy(v)'
    BY <1>1, <2>1 DEF Target, PoolPlaces, BuiltBy, Building, RunPlaces
  <2>3. ProcOK(p)'
    BY <1>1, <1>2, <2>1, <2>2
       DEF ProcOK, Building, Defined, Running, RunPlaces, DestroyPlaces, RemovePlaces
  <2>4. VmOK(v)'
    BY <1>3, <2>1, <2>2 DEF VmOK, Defined, Running
  <2> QED BY <2>3, <2>4
<1>5. CASE Port(p)
  <2>1. PICK port \in Ports : GotoFile(p, [job[p] EXCEPT !.gen = gens + 1, !.port = port], "port")
    BY <1>5 DEF Port, FreePorts
  <2> DEFINE j == [job[p] EXCEPT !.gen = gens + 1, !.port = port]
  <2>2. j \in Jobs /\ j.vm = v /\ j.opts = job[p].opts
    BY <1>1, NextGen DEF TypeInv, TypeOK, Jobs
  <2>3. GotoFile(p, j, "port")
    BY <2>1
  <2> HIDE DEF j
  <2> QED BY <1>1, <1>2, <1>5, <2>2, <2>3, RunGoesOn DEF Port, fileVars
<1>6. CASE Vars(p)
  <2>1. job[p] \in Jobs /\ job[p].opts.secure
    BY <1>1, <1>2, <1>6 DEF Vars, ProcOK, TypeInv, TypeOK
  <2> QED BY <1>1, <1>2, <1>6, <2>1, RunGoesOn DEF Vars, domVars
<1>7. CASE Ignition(p)
  <2>1. /\ job[p] \in Jobs /\ job[p].opts.ignition
        /\ job[p].opts.secure => fwvars[v] = job[p].gen
    BY <1>1, <1>2, <1>7 DEF Ignition, ProcOK, TypeInv, TypeOK
  <2> QED BY <1>1, <1>2, <1>7, <2>1, RunGoesOn DEF Ignition, domVars
<1>8. CASE Fail(p) /\ UNCHANGED <<disk, fwvars, ign, dom, guest>>
  BY <1>1, <1>8, RunGivenUp DEF Fail
<1>9. CASE Clone(p) /\ Fail(p)
  <2>1. UNCHANGED <<disk, fwvars, ign, dom, guest>>
    BY <1>9 DEF Clone, Fail, End, Goto, TypeInv, TypeOK
  <2> QED BY <1>8, <1>9, <2>1
<1> QED BY <1>4, <1>5, <1>6, <1>7, <1>8, <1>9 DEF BuildStep, VarsFail, GiveUp, fileVars

LEMMA ProcDomain ==
  ASSUME TypeInv, RunInv, GuestInv, NEW p \in Procs, DomainStep(p), NEW v \in VMs, WorksAlone(p, v)
  PROVE  ProcOK(p)' /\ VmOK(v)'
<1>1. Frame(p) /\ ProcOK(p) /\ VmOK(v)
  BY DEF WorksAlone, RunInv
<1>2. v = job[p].vm
  BY DEF WorksAlone
<1>3. ASSUME pc[p] = "define"
      PROVE  /\ ~Defined(v) /\ ~Running(v)
             /\ job[p].opts.secure => fwvars[v] = job[p].gen
             /\ job[p].opts.ignition => ign[v] = job[p].gen
             /\ v \notin strays => /\ job[p].opts.secure \/ fwvars[v] = 0
                                   /\ job[p].opts.ignition \/ ign[v] = 0
             /\ NewDom(job[p]) # NoDom
  <2>1. Target(p) = "define" /\ Building(p)
    BY <1>3 DEF Target, Building, PoolPlaces, RunPlaces
  <2>2. NewDom(job[p]) # NoDom
    BY <2>1 DEF TypeInv, LocalOK, NewDom, NoDom
  <2> QED BY <1>1, <1>2, <2>1, <2>2 DEF ProcOK, GuestInv, GuestOK
<1>4. CASE Define(p)
  <2>1. /\ pc[p] = "define" /\ pc'[p] = "start" /\ dom'[v] = NewDom(job[p])
        /\ UNCHANGED <<disk, fwvars, ign, guest, strays>>
    BY <1>2, <1>4 DEF Define, Goto, TypeInv, TypeOK, fileVars
  <2>2. ProcOK(p)'
    BY <2>1, ProcElsewhere DEF Placed, PoolPlaces, RunPlaces, DestroyPlaces, RemovePlaces
  <2>3. VmOK(v)'
    BY <1>3, <2>1 DEF VmOK, Defined, Running, NewDom
  <2> QED BY <2>2, <2>3
<1>5. CASE Create(p) /\ Fail(p) /\ UNCHANGED <<dom, guest>>
  BY <1>2, <1>5, RunGivenUp DEF Create, Fail, fileVars
<1>6. ASSUME AfterStart(p, job[p].opts) PROVE ProcOK(p)'
  <2>1. CASE End(p)
    BY <2>1, ProcEnd
  <2>2. CASE ~End(p)
    <3>1. pc'[p] = "ssh_verify"
      BY <1>6, <2>2 DEF AfterStart, Goto, TypeInv, TypeOK
    <3> QED BY <3>1, ProcElsewhere DEF Placed, PoolPlaces, RunPlaces, DestroyPlaces, RemovePlaces
  <2> QED BY <2>1, <2>2
<1>7. CASE Create(p) /\ ~(Fail(p) /\ UNCHANGED <<dom, guest>>)
  <2> DEFINE d == NewDom(job[p])
  <2>1. /\ pc[p] = "define" /\ dom'[v] = d /\ guest'[v] = Started(v, d)
        /\ AfterStart(p, d.opts) /\ UNCHANGED <<disk, fwvars, ign, strays>>
    BY <1>2, <1>7 DEF Create, TypeInv, TypeOK, fileVars
  <2>2. /\ d.gen = job[p].gen /\ d.opts = job[p].opts
        /\ guest'[v].gen = d.gen
        /\ guest'[v].fwvars = (IF d.opts.secure THEN fwvars[v] ELSE 0)
        /\ guest'[v].ign = (IF d.opts.ignition THEN ign[v] ELSE 0)
    BY <2>1 DEF Started, NewDom
  <2>3. d # NoDom
    BY <1>3, <2>1
  <2> HIDE DEF d
  <2>4. VmOK(v)'
    BY <1>3, <2>1, <2>2, <2>3 DEF VmOK, Defined, Running
  <2> QED BY <1>6, <2>1, <2>2, <2>4
<1>8. CASE Start(p) /\ guest' = guest
  <2>1. ProcOK(p)'
    BY <1>6, <1>8, ProcEnd DEF Start
  <2>2. pc[p] = "start" /\ SameVm(v)
    BY <1>8 DEF Start, SameVm, fileVars
  <2>3. BuiltBy(v) \subseteq BuiltBy(v)'
    BY <1>1, <2>2 DEF BuiltBy, Building, Target, Frame, PoolPlaces, RunPlaces
  <2>4. VmOK(v)'
    BY <1>1, <2>2, <2>3 DEF VmOK, SameVm, Defined, Running, Fileless
  <2> QED BY <2>1, <2>4
<1>9. CASE Start(p) /\ guest' # guest
  <2>1. /\ Defined(v) /\ guest'[v] = Started(v, dom[v]) /\ AfterStart(p, job[p].opts)
        /\ UNCHANGED <<disk, fwvars, ign, dom, strays>>
    BY <1>2, <1>9 DEF Start, TypeInv, TypeOK, fileVars
  <2>2. /\ guest'[v].gen = dom[v].gen
        /\ guest'[v].fwvars = (IF dom[v].opts.secure THEN fwvars[v] ELSE 0)
        /\ guest'[v].ign = (IF dom[v].opts.ignition THEN ign[v] ELSE 0)
    BY <2>1 DEF Started
  <2>3. VmOK(v)'
    BY <1>1, <2>1, <2>2 DEF VmOK, Defined, Running
  <2> QED BY <1>6, <2>1, <2>3
<1> QED BY <1>4, <1>5, <1>7, <1>8, <1>9 DEF DomainStep

LEMMA ProcRm ==
  ASSUME TypeInv, RunInv, GuestInv, NEW p \in Procs, RmStep(p), NEW v \in VMs, WorksAlone(p, v)
  PROVE  ProcOK(p)' /\ VmOK(v)'
<1> USE DEF fileVars, domVars
<1>1. Frame(p) /\ ProcOK(p) /\ VmOK(v) /\ GuestOK(v)
  BY DEF WorksAlone, RunInv, GuestInv
<1>2. v = job[p].vm
  BY DEF WorksAlone
<1>3. p \notin BuiltBy(v)
  BY DEF RmStep, RmLook, RmDestroy, RmDisk, RmIgnition, RmUndefine,
         BuiltBy, Building, Target, PoolPlaces, RunPlaces
<1>4. BuiltBy(v) \subseteq BuiltBy(v)'
  BY <1>1, <1>3 DEF BuiltBy, Building, Target, Frame
<1>5. CASE RmLook(p)
  <2>1. SameVm(v)
    BY <1>5 DEF RmLook, SameVm
  <2>2. ProcOK(p)'
    <3>1. CASE Defined(v)
      <4>1. /\ job'[p].vm = v /\ job'[p].opts = dom[v].opts
            /\ dom' = dom /\ guest' = guest
            /\ pc'[p] \in IF Running(v) THEN DestroyPlaces ELSE {"rm_disk", "rmall_disk"}
        BY <1>2, <1>5, <3>1 DEF RmLook, Goto, Place, TypeInv, TypeOK, Jobs, DestroyPlaces
      <4>2. ~Running(v) => ~dom[v].opts.transient
        BY <1>1, <3>1 DEF GuestOK
      <4> QED BY <3>1, <4>1, <4>2
              DEF ProcOK, Building, Target, PoolPlaces, RunPlaces, DestroyPlaces, RemovePlaces,
                  Defined, Running
    <3>2. CASE ~Defined(v)
      BY <1>2, <1>5, <3>2, ProcEnd DEF RmLook
    <3> QED BY <3>1, <3>2
  <2>3. VmOK(v)'
    BY <1>1, <1>4, <2>1 DEF VmOK, SameVm, Defined, Running, Fileless
  <2> QED BY <2>2, <2>3
<1>6. CASE RmDestroy(p)
  <2>1. CASE ~Running(v)
    <3>1. End(p) /\ SameVm(v)
      BY <1>2, <1>6, <2>1 DEF RmDestroy, SameVm
    <3>2. VmOK(v)'
      BY <1>1, <1>4, <3>1 DEF VmOK, SameVm, Defined, Running, Fileless
    <3> QED BY <3>1, <3>2, ProcEnd
  <2>2. CASE Running(v)
    <3>1. Defined(v) /\ dom[v].opts = job[p].opts
      BY <1>1, <1>2, <1>6, <2>2 DEF GuestOK, RmDestroy, ProcOK, DestroyPlaces
    <3>2. /\ guest'[v] = Off /\ UNCHANGED <<disk, fwvars, ign>>
          /\ IF job[p].opts.transient THEN dom'[v] = NoDom /\ v \in strays'
                                       ELSE dom' = dom /\ strays' = strays
      BY <1>2, <1>6, <2>2, <3>1 DEF RmDestroy, Halt, TypeInv, TypeOK
    <3>3. VmOK(v)'
      BY <1>1, <1>4, <3>2 DEF VmOK, Defined, Running, Fileless
    <3>4. CASE End(p)
      BY <3>3, <3>4, ProcEnd
    <3>5. CASE ~End(p)
      <4>1. /\ job' = job
            /\ pc'[p] = (IF job[p].opts.transient THEN "rmall_disk" ELSE pc'[p])
            /\ pc'[p] \in {"rm_disk", "rmall_disk"}
        BY <1>2, <1>6, <2>2, <3>5 DEF RmDestroy, Goto, Place, TypeInv, TypeOK
      <4>2. ProcOK(p)'
        BY <1>2, <3>1, <3>2, <4>1
           DEF ProcOK, Building, Target, PoolPlaces, RunPlaces, DestroyPlaces, RemovePlaces, Defined, Running
      <4> QED BY <3>3, <4>2
    <3> QED BY <3>4, <3>5
  <2> QED BY <2>1, <2>2
<1>7. ASSUME RmDisk(p) \/ RmIgnition(p) \/ RmUndefine(p)
      PROVE  /\ pc[p] \in RemovePlaces
             /\ IF job[p].opts.transient THEN ~Defined(v) /\ v \in strays
                                         ELSE Defined(v) /\ dom[v].opts = job[p].opts /\ ~Running(v)
  BY <1>1, <1>2, <1>7 DEF RmDisk, RmIgnition, RmUndefine, ProcOK, RemovePlaces
<1>8. CASE RmDisk(p)
  <2>1. /\ pc'[p] = (IF pc[p] = "rm_disk" THEN "rm_ignition" ELSE "rmall_undefine")
        /\ pc[p] \in {"rm_disk", "rmall_disk"} /\ job' = job
        /\ disk'[v] = (IF job[p].opts.transient THEN disk[v] ELSE 0)
        /\ UNCHANGED <<fwvars, ign, dom, guest, strays>>
    BY <1>2, <1>8 DEF RmDisk, Goto, TypeInv, TypeOK
  <2>2. ProcOK(p)'
    BY <1>1, <1>2, <1>7, <1>8, <2>1
       DEF ProcOK, Building, Target, PoolPlaces, RunPlaces, DestroyPlaces, RemovePlaces, Defined, Running
  <2>3. VmOK(v)'
    BY <1>1, <1>4, <1>7, <1>8, <2>1 DEF VmOK, Defined, Running, Fileless
  <2> QED BY <2>2, <2>3
<1>9. CASE RmIgnition(p)
  <2>1. /\ pc[p] = "rm_ignition" /\ pc'[p] = "rm_undefine" /\ job' = job
        /\ ign'[v] = (IF dom[v].opts.ignition THEN 0 ELSE ign[v])
        /\ UNCHANGED <<disk, fwvars, dom, guest, strays>>
    BY <1>2, <1>9 DEF RmIgnition, Goto, TypeInv, TypeOK
  <2>2. disk[v] = 0 /\ ~job[p].opts.transient
    BY <1>1, <1>2, <2>1 DEF ProcOK
  <2>3. ProcOK(p)'
    BY <1>2, <1>7, <1>9, <2>1, <2>2
       DEF ProcOK, Building, Target, PoolPlaces, RunPlaces, DestroyPlaces, RemovePlaces, Defined, Running
  <2>4. VmOK(v)'
    BY <1>1, <1>7, <1>9, <2>1, <2>2 DEF VmOK, Defined, Running
  <2> QED BY <2>3, <2>4
<1>10. CASE RmUndefine(p) /\ ~Defined(v)
  <2>1. End(p) /\ SameVm(v)
    BY <1>2, <1>10 DEF RmUndefine, SameVm
  <2>2. VmOK(v)'
    BY <1>1, <1>4, <2>1 DEF VmOK, SameVm, Defined, Running, Fileless
  <2> QED BY <2>1, <2>2, ProcEnd
<1>11. CASE RmUndefine(p) /\ Defined(v)
  <2>0. ~Running(v) /\ ~dom[v].opts.transient /\ dom[v].opts = job[p].opts
    BY <1>7, <1>11
  <2>1. /\ dom'[v] = NoDom /\ End(p)
        /\ fwvars'[v] = (IF dom[v].opts.secure THEN 0 ELSE fwvars[v])
        /\ UNCHANGED <<disk, ign, guest>>
        /\ IF pc[p] = "rm_undefine" THEN strays' = strays ELSE v \in strays'
    BY <1>2, <1>11, <2>0 DEF RmUndefine, TypeInv, TypeOK
  <2>2. pc[p] = "rm_undefine" => disk[v] = 0 /\ (dom[v].opts.ignition => ign[v] = 0)
    BY <1>1, <1>2 DEF ProcOK
  <2>3. v \notin strays => /\ dom[v].opts.secure \/ fwvars[v] = 0
                           /\ dom[v].opts.ignition \/ ign[v] = 0
    BY <1>1, <1>11 DEF VmOK
  <2>4. VmOK(v)'
    BY <1>11, <2>0, <2>1, <2>2, <2>3 DEF VmOK, Defined, Running, Fileless
  <2> QED BY <2>1, <2>4, ProcEnd
<1> QED BY <1>5, <1>6, <1>8, <1>9, <1>10, <1>11 DEF RmStep

LEMMA ProcKill ==
  ASSUME TypeInv, RunInv, NEW p \in Procs, Kill(p), NEW v \in VMs, WorksAlone(p, v)
  PROVE  ProcOK(p)' /\ VmOK(v)'
<1>1. /\ End(p) /\ strays' = strays \cup {v}
      /\ UNCHANGED <<disk, fwvars, ign, dom, guest>>
  BY DEF Kill, WorksAlone, fileVars
<1> QED BY <1>1, RunGivenUp

LEMMA RunPowerOff ==
  ASSUME TypeInv, RunInv, GuestInv, NEW v \in VMs, PowerOff(v)
  PROVE  RunInv'
<1>1. /\ Running(v) /\ Defined(v) /\ UNCHANGED <<pc, job, disk, fwvars, ign, shared>>
      /\ guest'[v] = Off
      /\ IF dom[v].opts.transient THEN dom'[v] = NoDom /\ v \in strays' ELSE UNCHANGED <<dom, strays>>
      /\ strays \subseteq strays'
      /\ \A w \in VMs \ {v} : SameVm(w)
  BY DEF PowerOff, Halt, TypeInv, TypeOK, fileVars, SameVm, GuestInv, GuestOK
<1>2. ASSUME NEW w \in VMs, VmOK(w) PROVE VmOK(w)'
  <2>1. BuiltBy(w) \subseteq BuiltBy(w)'
    BY <1>1 DEF BuiltBy, Building, Target
  <2>2. CASE w # v
    BY <1>1, <1>2, <2>1, <2>2 DEF VmOK, SameVm, Defined, Running, Fileless
  <2>3. CASE w = v
    BY <1>1, <1>2, <2>1, <2>3 DEF VmOK, Defined, Running, Fileless
  <2> QED BY <2>2, <2>3
<1>3. ASSUME NEW p \in Procs, job[p].vm \in VMs, ProcOK(p) PROVE ProcOK(p)'
  <2>1. CASE job[p].vm = v
    <3>1. ~Building(p) /\ pc[p] \notin RemovePlaces
      BY <1>1, <1>3, <2>1 DEF ProcOK
    <3>2. /\ pc'[p] = pc[p] /\ job'[p] = job[p] /\ Target(p)' = Target(p)
          /\ Target(p) \notin RunPlaces
      BY <1>1, <3>1 DEF Building, Target
    <3>3. pc[p] \in DestroyPlaces =>
            IF Defined(v)' THEN dom'[v].opts = job[p].opts
                           ELSE job[p].opts.transient /\ v \in strays'
      <4>1. CASE dom[v].opts.transient
        BY <1>1, <1>3, <2>1, <4>1 DEF ProcOK, Defined
      <4>2. CASE ~dom[v].opts.transient
        BY <1>1, <1>3, <2>1, <4>2 DEF ProcOK, Defined
      <4> QED BY <4>1, <4>2
    <3> QED BY <2>1, <3>1, <3>2, <3>3
            DEF ProcOK, Building, RunPlaces, RemovePlaces, Defined
  <2>2. CASE job[p].vm # v
    BY <1>1, <1>3, <2>2 DEF ProcOK, Building, Target, SameVm, Defined, Running, Fileless
  <2> QED BY <2>1, <2>2
<1> QED BY <1>1, <1>2, <1>3 DEF RunInv

LEMMA RunStepInv ==
  TypeInv /\ Exclusive /\ PoolInv /\ GuestInv /\ RunInv /\ [Next]_vars => RunInv'
<1> SUFFICES ASSUME TypeInv, Exclusive, PoolInv, GuestInv, RunInv, [Next]_vars PROVE RunInv'
  OBVIOUS
<1>0. shared \subseteq shared'
  BY SharedGrows
<1>1. CASE UNCHANGED vars
  <2>1. ASSUME NEW p \in Procs, ProcOK(p) PROVE ProcOK(p)'
    BY <1>1, <2>1 DEF vars, fileVars, domVars, ProcOK, Building, Target,
                      Defined, Running, Fileless
  <2>2. ASSUME NEW v \in VMs, VmOK(v) PROVE VmOK(v)'
    <3>1. BuiltBy(v)' = BuiltBy(v)
      BY <1>1 DEF vars, BuiltBy, Building, Target
    <3> QED BY <1>1, <2>2, <3>1 DEF vars, fileVars, domVars, VmOK, Defined, Running, Fileless
  <2> QED BY <1>1, <2>1, <2>2 DEF vars, domVars, RunInv
<1>2. ASSUME NEW p \in Procs, RunStep(p) \/ Kill(p) PROVE RunInv'
  <2>1. Frame(p) /\ (Works(p) \/ Begins(p))
    BY <1>2, FrameStep, StepsAre
  <2>2. ASSUME NEW v \in VMs \ shared, v = job[p].vm PROVE ProcOK(p)' /\ VmOK(v)'
    <3>1. WorksAlone(p, v)
      BY <2>1, <2>2 DEF WorksAlone
    <3>2. pc[p] \notin UpPlaces \cup {"idle"}
      BY <2>2, SetupAssumption DEF TypeInv, LocalOK, Idle
    <3>3. ~Begins(p)
      BY <3>2 DEF Begins, BeginOn, Begin, BeginUpload
    <3>4. ~UploadStep(p)
      BY <3>2 DEF UploadStep, Upload, UploadPool, UploadDelete, UploadCreate, UploadFill, UpPlaces
    <3> QED BY <2>1, <3>1, <3>3, <3>4, ProcPool, ProcSsh, ProcBuild, ProcDomain, ProcRm, ProcKill DEF Works
  <2>3. ASSUME NEW v \in VMs \ shared' PROVE VmOK(v)'
    BY <1>0, <2>1, <2>2, <2>3, VmOthers DEF RunInv
  <2>4. ASSUME NEW q \in Procs, job'[q].vm \in VMs \ shared' PROVE ProcOK(q)'
    <3>1. CASE q # p
      BY <1>0, <2>1, <2>4, <3>1, ProcOthers DEF RunInv, Frame
    <3>2. CASE q = p /\ Begins(p)
      BY <2>4, <3>2, ProcBegins
    <3>3. CASE q = p /\ Works(p)
      BY <1>0, <2>2, <2>4, <3>3, VmKept, SetupAssumption
    <3> QED BY <2>1, <3>1, <3>2, <3>3
  <2> QED BY <2>3, <2>4 DEF RunInv
<1> QED BY <1>1, <1>2, RunPowerOff DEF Next

-----------------------------------------------------------------------------
(* The theorems *)

LEMMA InvInit == Init => IInv
<1> SUFFICES ASSUME Init PROVE IInv
  OBVIOUS
<1>1. Exclusive /\ PoolInv /\ VolumeComplete /\ SshInv /\ GuestInv
  BY SetupAssumption
     DEF Init, Exclusive, WorksOn, GuestInv, GuestOK, Defined, Running, PoolInv, Tried, PoolOK, VolumeComplete, SshInv, Target, PoolPlaces, Idle
<1>2. \A g \in Nat, v \in VMs : Owns(g, v) => g = 0
  BY DEF Init, Owns, Idle, NoDom
<1>3. GenInv
  BY <1>2 DEF Init, GenInv
<1>4. RunInv
  BY DEF Init, RunInv, ProcOK, VmOK, Building, Target, Defined, Running, Fileless,
         PoolPlaces, RunPlaces, DestroyPlaces, RemovePlaces
<1> QED BY <1>1, <1>3, <1>4, TypesInit DEF IInv

LEMMA InvStep == IInv /\ [Next]_vars => IInv'
BY TypesStep, ExclusiveStep, PoolStepInv, VolumeStep, GenStep, SshStepInv, GuestStep, RunStepInv DEF IInv

LEMMA InvHolds == Spec => []IInv
BY InvInit, InvStep, PTL DEF Spec

LEMMA InvFiles == IInv => OwnFiles /\ NothingLeft /\ OwnGuest
<1> SUFFICES ASSUME IInv PROVE OwnFiles /\ NothingLeft /\ OwnGuest
  OBVIOUS
<1>1. OwnFiles
  BY DEF IInv, RunInv, VmOK, OwnFiles
<1>2. NothingLeft
  <2> SUFFICES ASSUME NEW v \in VMs, disk[v] + fwvars[v] + ign[v] > 0,
                      ~Defined(v), v \notin strays \cup shared
               PROVE  Busy(v)
    BY DEF NothingLeft
  <2>1. ~Fileless(v)
    BY DEF Fileless
  <2>2. BuiltBy(v) # {}
    BY <2>1 DEF IInv, RunInv, VmOK
  <2> QED BY <2>2 DEF BuiltBy, Busy, WorksOn, Building, Target, SshPlaces, PoolPlaces, RunPlaces
<1>3. OwnGuest
  <2> SUFFICES ASSUME NEW p \in Procs, pc[p] = "session", NEW v \in Answers(p)
               PROVE  v = job[p].vm
    BY DEF OwnGuest
  <2>1. v \in VMs /\ Running(v) /\ guest[v].gen = job[p].gen
    BY DEF Answers, Listeners
  <2>2. dom[v].gen = job[p].gen
    BY <2>1 DEF IInv, GuestInv, GuestOK
  <2>3. job[p].vm \in VMs /\ job[p].gen \in Nat \ {0}
    BY DEF IInv, TypeInv, TypeOK, Jobs, LocalOK, UpPlaces, SshInv
  <2>4. Owns(job[p].gen, v) /\ Owns(job[p].gen, job[p].vm)
    BY <2>2 DEF Owns
  <2> QED BY <2>1, <2>3, <2>4 DEF IInv, GenInv
<1> QED BY <1>1, <1>2, <1>3

\* Whoever makes the pool, and whoever is killed at it, a process that needs
\* it finds it active or refused by libvirt, or has lost the race of
\* pool-define.
THEOREM PoolRepaired == Spec => []PoolReady
<1>1. IInv => PoolReady
  BY PoolInvReady DEF IInv
<1> QED BY <1>1, InvHolds, PTL

\* A volume that has been created is being filled.
THEOREM VolumesFilled == Spec => []VolumeComplete
<1>1. IInv => VolumeComplete
  BY DEF IInv
<1> QED BY <1>1, InvHolds, PTL

\* A VM whose name no two commands have worked on at once runs with the OVMF
\* variables and the Ignition config of its own run.
THEOREM FilesOwn == Spec => []OwnFiles
<1>1. IInv => OwnFiles
  BY InvFiles
<1> QED BY <1>1, InvHolds, PTL

\* Every file in the pool has a domain, a command that works on it, or a name
\* at which a command has failed or left it, or two have met.
THEOREM FilesOwned == Spec => []NothingLeft
<1>1. IInv => NothingLeft
  BY InvFiles
<1> QED BY <1>1, InvHolds, PTL

\* Whoever has got the port meanwhile, a session is with its own guest.
THEOREM GuestOwn == Spec => []OwnGuest
<1>1. IInv => OwnGuest
  BY InvFiles
<1> QED BY <1>1, InvHolds, PTL

=============================================================================
