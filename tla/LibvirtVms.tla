----------------------------- MODULE LibvirtVms -----------------------------
(***************************************************************************)
(* bcvk libvirt run, rm, rm-all, start, stop and base-disks create/prune:  *)
(* several bcvk processes that share the storage pool, the cache of base   *)
(* disks and libvirt's domains, and coordinate through nothing else.       *)
(*                                                                         *)
(* A persistent domain opens the VM's own disk, an overlay on a base disk. *)
(* A transient one opens the base disk itself, under an overlay that QEMU  *)
(* keeps outside the pool, and vanishes when it stops.                     *)
(***************************************************************************)
EXTENDS BaseDisks

CONSTANTS
  Commands,    \* the commands users give
  Transients,  \* the values --transient takes
  MaxCrashes   \* bound: the bcvk processes that are killed

ASSUME CommandsAssumption ==
  /\ Commands \subseteq
       {"run", "to-base-disk", "rm", "rm-all", "start", "stop", "prune"}
  /\ Transients \subseteq BOOLEAN
  /\ MaxCrashes \in Nat

VARIABLES
  dom,     \* libvirt's domains
  crashes  \* the processes killed so far

vars == <<cacheVars, dom, crashes>>

\* failed is history: a removal of the domain has ended in an error.
Domain == [state: DomStates, persistent: BOOLEAN, base: Keys \cup {NoKey},
           failed: BOOLEAN]
NoDomain == [state |-> "absent", persistent |-> FALSE, base |-> NoKey, failed |-> FALSE]

Exists(v) == dom[v].state # "absent"
RemovalFailed(v) == IF Exists(v) THEN [dom EXCEPT ![v].failed = TRUE] ELSE dom
Active(v) == dom[v].state \in {"running", "paused"}

\* virsh destroy, or a guest that powers off: the transient domain vanishes.
Destroyed(v) == IF dom[v].persistent THEN [dom[v] EXCEPT !.state = "shut off"]
                ELSE NoDomain

Init ==
  /\ PoolInit
  /\ pc = [p \in Procs |-> "idle"]
  /\ job = [p \in Procs |-> NoJob]
  /\ tag \in Keys
  /\ dom = [v \in VMs |-> NoDomain]
  /\ crashes = 0

-----------------------------------------------------------------------------
(* The start of a command.                                                 *)

Begin(p, cmd, v, transient, label) ==
  /\ pc[p] = "idle"
  /\ cmd \in Commands
  /\ job' = [job EXCEPT ![p] = [NoJob EXCEPT !.cmd = cmd, !.vm = v,
                                             !.transient = transient]]
  /\ Goto(p, label)
  /\ UNCHANGED <<poolVars, tag, dom, crashes>>

\* Mutant: a name in use is neither removed nor refused.
BeginRunAnyName(p, v) ==
  \E transient \in Transients : Begin(p, "run", v, transient, "inspect")

\* run lists the domains once.  A name that is taken is a VM to remove first,
\* with --replace, and an error that changes nothing without.
BeginRun(p, v) ==
  \E transient \in Transients :
    \/ ~Exists(v) /\ Begin(p, "run", v, transient, "inspect")
    \/ Exists(v) /\ Begin(p, "run", v, transient, "rm_state")

BeginToBaseDisk(p) == Begin(p, "to-base-disk", NoKey, FALSE, "inspect")
BeginRm(p, v) == Begin(p, "rm", v, FALSE, "rm_state")
BeginRmAll(p) == Begin(p, "rm-all", NoKey, FALSE, "rmall_list")
BeginStart(p, v) == Begin(p, "start", v, FALSE, "start_state")
BeginStop(p, v) == Begin(p, "stop", v, FALSE, "stop_state")
BeginPrune(p) == Begin(p, "prune", NoKey, FALSE, "prune_bases")

-----------------------------------------------------------------------------
(* create_libvirt_domain_from_disk.  Making its keys, firmware variables   *)
(* and XML may fail first; the disk then stays behind without a domain.    *)

GiveUp(p) ==
  /\ pc[p] \in {"define", "create"}
  /\ Return(p)
  /\ UNCHANGED <<poolVars, tag, dom, crashes>>

\* virsh create of a transient domain, which QEMU starts on the base disk.
Create(p) ==
  LET v == job[p].vm
      k == job[p].key IN
  /\ pc[p] = "create"
  /\ ~Exists(v)
  /\ base[k] # 0
  /\ dom' = [dom EXCEPT ![v] = [state |-> "running", persistent |-> FALSE, base |-> k,
                                 failed |-> FALSE]]
  /\ Return(p)
  /\ UNCHANGED <<poolVars, tag, crashes>>

\* virsh define: the XML carries no UUID, so a name in use is an error.
Define(p) ==
  LET v == job[p].vm IN
  /\ pc[p] = "define"
  /\ ~Exists(v)
  /\ dom' = [dom EXCEPT ![v] = [state |-> "shut off", persistent |-> TRUE, base |-> NoKey,
                                 failed |-> FALSE]]
  /\ Goto(p, "start")
  /\ UNCHANGED <<poolVars, job, tag, crashes>>

\* virsh start: QEMU opens the VM's disk and, by name, its backing file.  It
\* can still fail: another process may have taken the SSH port.
CanStart(v) ==
  /\ dom[v].state = "shut off"
  /\ HasDisk(v)
  /\ base[vmdisk[v].back] # 0

Start(p) ==
  LET v == job[p].vm IN
  /\ pc[p] = "start"
  /\ \/ CanStart(v) /\ dom' = [dom EXCEPT ![v].state = "running"]
     \/ UNCHANGED dom
  /\ Return(p)
  /\ UNCHANGED <<poolVars, tag, crashes>>

-----------------------------------------------------------------------------
(* rm --force, and the removal in run --replace.                           *)

\* run goes on to make the new VM once the old one is gone; rm is done.
RmDone(p) ==
  IF job[p].cmd = "run" THEN Goto(p, "inspect") /\ UNCHANGED job ELSE Return(p)

\* domstate.  In run, a domain that has gone by now needs no removal.
RmState(p) ==
  LET v == job[p].vm IN
  /\ pc[p] = "rm_state"
  /\ \/ /\ Exists(v)
        /\ job' = [job EXCEPT ![p].state = dom[v].state]
        /\ Goto(p, "rm_info")
     \/ ~Exists(v) /\ RmDone(p)
  /\ UNCHANGED <<poolVars, tag, dom, crashes>>

\* dominfo and dumpxml: whether the domain is persistent, and its disk's path.
RmInfo(p) ==
  LET d == dom[job[p].vm] IN
  /\ pc[p] = "rm_info"
  /\ \/ /\ d # NoDomain
        /\ job' = [job EXCEPT ![p].persistent = d.persistent, ![p].base = d.base]
        /\ Goto(p, IF job[p].state = "running" THEN "rm_destroy" ELSE "rm_disk")
     \/ /\ d = NoDomain
        /\ Return(p)
  /\ UNCHANGED <<poolVars, tag, dom, crashes>>

RmDestroy(p) ==
  LET v == job[p].vm IN
  /\ pc[p] = "rm_destroy"
  /\ \/ /\ Active(v)
        /\ dom' = [dom EXCEPT ![v] = Destroyed(v)]
        /\ IF job[p].persistent THEN Goto(p, "rm_disk") /\ UNCHANGED job
           ELSE RmDone(p)
     \/ /\ ~Active(v)
        /\ Return(p)
        /\ UNCHANGED dom
  /\ UNCHANGED <<poolVars, tag, crashes>>

\* remove_file(disk_path), which for a transient domain is the base disk.
RemoveDiskFile(p) ==
  /\ \/ /\ job[p].base = NoKey
        /\ RemoveVmDisk(job[p].vm)
        /\ UNCHANGED base
     \/ /\ job[p].base # NoKey
        /\ RemoveBase(job[p].base)
        /\ UNCHANGED <<vmdisk, pinned>>
  /\ UNCHANGED <<temp, known, meta, nextIno>>

RmDisk(p) ==
  /\ pc[p] = "rm_disk"
  /\ RemoveDiskFile(p)
  /\ Goto(p, "rm_undefine")
  /\ UNCHANGED <<job, tag, dom, crashes>>

\* Mutant: an undefine that fails is not an error of the command.
RmUndefineIgnored(p) ==
  LET v == job[p].vm IN
  /\ pc[p] = "rm_undefine"
  /\ \/ dom[v].state = "shut off" /\ dom' = [dom EXCEPT ![v] = NoDomain]
     \/ UNCHANGED dom
  /\ RmDone(p)
  /\ UNCHANGED <<poolVars, tag, crashes>>

\* undefine --nvram --remove-all-storage: only of a persistent domain that is
\* not active; the disk's volume goes if libvirt lists it.  If it fails, the
\* command does, and leaves the domain without its disk.
RmUndefine(p) ==
  LET v == job[p].vm IN
  /\ pc[p] = "rm_undefine"
  /\ \/ /\ dom[v].state = "shut off"
        /\ dom' = [dom EXCEPT ![v] = NoDomain]
        /\ IF VmVol(v) \in known THEN VolDelete(VmVol(v)) ELSE UNCHANGED poolVars
        /\ RmDone(p)
     \/ /\ dom' = RemovalFailed(v)
        /\ Return(p)
        /\ UNCHANGED poolVars
  /\ UNCHANGED <<tag, crashes>>

-----------------------------------------------------------------------------
(* rm-all --force, with or without --stop.                                 *)

RmAllList(p) ==
  /\ pc[p] = "rmall_list"
  /\ job' = [job EXCEPT ![p].todo = {v \in VMs : Exists(v)}]
  /\ Goto(p, "rmall_info")
  /\ UNCHANGED <<poolVars, tag, dom, crashes>>

\* dumpxml and domstate of one domain after another, before any is removed; a
\* domain that has gone is left out.
RmAllInfo(p) ==
  /\ pc[p] = "rmall_info"
  /\ \/ \E v \in job[p].todo :
          LET e == [vm |-> v, state |-> dom[v].state, base |-> dom[v].base] IN
          /\ job' = [job EXCEPT ![p].todo = @ \ {v},
                                ![p].snap = IF Exists(v) THEN @ \cup {e} ELSE @]
          /\ UNCHANGED pc
     \/ /\ job[p].todo = {}
        /\ Goto(p, "rmall_next")
        /\ UNCHANGED job
  /\ UNCHANGED <<poolVars, tag, dom, crashes>>

\* The loop over the domains listed.  One that was running is destroyed with
\* --stop and skipped without.
RmAllNext(p) ==
  /\ pc[p] = "rmall_next"
  /\ \/ \E e \in job[p].snap :
          /\ job' = [job EXCEPT ![p].snap = @ \ {e}, ![p].vm = e.vm,
                                ![p].base = e.base]
          /\ \/ e.state = "running" /\ Goto(p, "rmall_destroy")
             \/ e.state = "running" /\ UNCHANGED pc
             \/ e.state # "running" /\ Goto(p, "rmall_disk")
     \/ /\ job[p].snap = {}
        /\ Return(p)
  /\ UNCHANGED <<poolVars, tag, dom, crashes>>

\* A domain that cannot be destroyed is counted and left alone.
RmAllDestroy(p) ==
  LET v == job[p].vm IN
  /\ pc[p] = "rmall_destroy"
  /\ \/ /\ Active(v)
        /\ dom' = [dom EXCEPT ![v] = Destroyed(v)]
        /\ Goto(p, "rmall_disk")
     \/ /\ ~Active(v)
        /\ Goto(p, "rmall_next")
        /\ UNCHANGED dom
  /\ UNCHANGED <<poolVars, job, tag, crashes>>

RmAllDisk(p) ==
  /\ pc[p] = "rmall_disk"
  /\ RemoveDiskFile(p)
  /\ Goto(p, "rmall_undefine")
  /\ UNCHANGED <<job, tag, dom, crashes>>

\* undefine --nvram: an active persistent domain goes on as a transient one;
\* there is nothing to undefine of a transient domain.  A failure is counted.
RmAllUndefine(p) ==
  LET v == job[p].vm IN
  /\ pc[p] = "rmall_undefine"
  /\ \/ dom[v].state = "shut off" /\ dom' = [dom EXCEPT ![v] = NoDomain]
     \/ Active(v) /\ dom' = [dom EXCEPT ![v].persistent = FALSE]
     \/ dom' = RemovalFailed(v)
  /\ Goto(p, "rmall_next")
  /\ UNCHANGED <<poolVars, job, tag, crashes>>

-----------------------------------------------------------------------------
(* start and stop: the state first, then the operation.                    *)

StartState(p) ==
  LET v == job[p].vm IN
  /\ pc[p] = "start_state"
  /\ \/ dom[v].state \in {"absent", "running"} /\ Return(p)
     \/ dom[v].state \in {"shut off", "paused"} /\ Goto(p, "start") /\ UNCHANGED job
  /\ UNCHANGED <<poolVars, tag, dom, crashes>>

StopState(p) ==
  LET v == job[p].vm IN
  /\ pc[p] = "stop_state"
  /\ \/ dom[v].state # "running" /\ Return(p)
     \/ dom[v].state = "running" /\ Goto(p, "stop") /\ UNCHANGED job
  /\ UNCHANGED <<poolVars, tag, dom, crashes>>

\* destroy with --force; without, shutdown asks the guest and returns at once.
Stop(p) ==
  LET v == job[p].vm IN
  /\ pc[p] = "stop"
  /\ \/ Active(v) /\ dom' = [dom EXCEPT ![v] = Destroyed(v)]
     \/ UNCHANGED dom
  /\ Return(p)
  /\ UNCHANGED <<poolVars, tag, crashes>>

-----------------------------------------------------------------------------
(* The guests, podman, and the death of a bcvk process.                    *)

\* A guest powers off, because of a shutdown request or by itself; or QEMU,
\* even of a paused guest, is destroyed with virsh, killed, or lost with the host.
GuestOff(v) ==
  /\ Active(v)
  /\ dom' = [dom EXCEPT ![v] = Destroyed(v)]
  /\ UNCHANGED <<cacheVars, crashes>>

\* QEMU pauses the guest on an I/O error, a full disk say.
GuestPause(v) ==
  /\ dom[v].state = "running"
  /\ dom' = [dom EXCEPT ![v].state = "paused"]
  /\ UNCHANGED <<cacheVars, crashes>>

\* A killed process leaves everything as it is; nobody removes its temporary
\* file.
Crash(p) ==
  /\ pc[p] # "idle"
  /\ crashes < MaxCrashes
  /\ crashes' = crashes + 1
  /\ Return(p)
  /\ pinned' = [pinned EXCEPT ![p] = {}]
  /\ UNCHANGED <<base, temp, vmdisk, known, meta, nextIno, tag, dom>>

-----------------------------------------------------------------------------
ProcStep(p) ==
  \/ CacheStep(p) /\ UNCHANGED <<dom, crashes>>
  \/ \E v \in VMs : BeginRun(p, v) \/ BeginRm(p, v) \/ BeginStart(p, v) \/ BeginStop(p, v)
  \/ BeginToBaseDisk(p) \/ BeginRmAll(p) \/ BeginPrune(p)
  \/ GiveUp(p) \/ Create(p) \/ Define(p) \/ Start(p)
  \/ RmState(p) \/ RmInfo(p) \/ RmDestroy(p) \/ RmDisk(p) \/ RmUndefine(p)
  \/ RmAllList(p) \/ RmAllInfo(p) \/ RmAllNext(p) \/ RmAllDestroy(p)
  \/ RmAllDisk(p) \/ RmAllUndefine(p)
  \/ StartState(p) \/ StopState(p) \/ Stop(p)
  \/ Crash(p)

Environment ==
  \/ \E v \in VMs : GuestOff(v) \/ GuestPause(v)
  \/ \E k \in Keys : Retag(k) /\ UNCHANGED <<dom, crashes>>

Next == (\E p \in Procs : ProcStep(p)) \/ Environment

Spec == Init /\ [][Next]_vars

-----------------------------------------------------------------------------
(* Properties of every interleaving of any number of processes.            *)

\* Every variable keeps its type; job[p] holds the locals of the command.
TypeOK ==
  /\ PoolTypeOK
  /\ pc \in [Procs -> Labels]
  /\ job \in [Procs -> Jobs]
  /\ tag \in Keys
  /\ dom \in [VMs -> Domain]
  /\ crashes \in 0..MaxCrashes

\* base_disks.rs builds a base disk in a temporary file and renames it into
\* place once its metadata is right, so processes that race only ever see, and
\* clone, complete base disks: this code implements AtomicCache.
Content(k) ==
  IF base[k] = 0 THEN "none"
  ELSE IF meta[base[k]] = k THEN "complete" ELSE "stale"

Cache == INSTANCE AtomicCache
           WITH store <- [k \in Keys |-> Content(k)],
                clone <- [v \in VMs |-> vmdisk[v].back]

CacheIsAtomic == Cache!Spec

\* base-disks prune never deletes the backing file of a VM disk that existed
\* when it listed the pool and has existed ever since: it asks every disk in
\* turn, and what a disk answers stays true.
PruneSparesPinned ==
  \A p \in Procs :
    pc[p] = "prune_delete" =>
      \A v \in pinned[p] : ~RefersTo(v, job[p].cand)

\* Why CacheIsAtomic holds: no two processes build in the same file, and no
\* file that is being built is a published one; the metadata a process has
\* validated is still right when it renames the file; and a key that a process
\* has checked or published never becomes stale again.
CacheInv ==
  /\ \A t \in Temps : temp[t] < nextIno
  /\ \A k \in Keys : base[k] < nextIno
  /\ \A t, u \in Temps : temp[t] # 0 /\ temp[t] = temp[u] => t = u
  /\ \A t \in Temps, k \in Keys : temp[t] # 0 => temp[t] # base[k]
  /\ \A p, q \in Procs :
       p # q /\ pc[p] \in Installing /\ pc[q] \in Installing => job[p].tmp # job[q].tmp
  /\ \A p \in Procs :
       pc[p] = "persist" /\ temp[job[p].tmp] # 0 =>
         meta[temp[job[p].tmp]] = job[p].key
  /\ \A p \in Procs :
       pc[p] \in Cloning \cup {"refresh"} => Content(job[p].key) # "stale"

\* Why PruneSparesPinned holds: a disk a prune listed is, as long as it exists,
\* still to be asked about the candidate or has said no.
PruneInv ==
  \A p \in Procs :
    /\ \A v \in pinned[p] : HasDisk(v)
    /\ pc[p] \in {"prune_next", "prune_check", "prune_delete"} => pinned[p] \subseteq job[p].vols
    /\ pc[p] = "prune_check" =>
         \A v \in pinned[p] : v \in job[p].todo \/ ~RefersTo(v, job[p].cand)
    /\ pc[p] = "prune_delete" =>
         \A v \in pinned[p] : ~RefersTo(v, job[p].cand)

\* Unless a process is killed, every temporary file belongs to one that is
\* building a base disk in it: no error path of create_base_disk leaks it.
TempsOwned ==
  crashes = 0 =>
    \A t \in Temps : temp[t] # 0 =>
      \E p \in Procs : job[p].tmp = t /\ pc[p] \in {"install", "validate", "persist"}

-----------------------------------------------------------------------------
(* Properties of commands given one after the other.                       *)

\* The base disk every VM disk was cloned from is still there, and still the
\* same file: a qcow2 overlay is worthless on any other.
BackingIntact == \A v \in VMs : HasDisk(v) => base[vmdisk[v].back] = vmdisk[v].ino

\* Between commands, and if none was killed, a domain that is shut off can be
\* started, its disk and the backing file of its disk exist, unless its removal
\* has failed: rm and rm-all take the disk of a guest that is paused before they
\* undefine it, and a user who saw no error has no VM without a disk.
DefinedCanStart ==
  crashes = 0 /\ (\A p \in Procs : pc[p] = "idle") =>
    \A v \in VMs : dom[v].state = "shut off" /\ ~dom[v].failed => CanStart(v)

\* What an earlier command left under a VM's name, as a file or in libvirt's
\* list, after an error or a crash, is out of the way when clone_from_base
\* makes the disk.
NameReusable ==
  \A p \in Procs : pc[p] = "clone_create" =>
    ~HasDisk(job[p].vm) /\ VmVol(job[p].vm) \notin known

\* Only a prune takes a complete base disk out of the cache.
BasesOnlyPruned ==
  [][\A k \in Keys : Content(k) = "complete" /\ Content(k)' = "none" =>
       \E p \in Procs : pc[p] = "prune_delete"]_vars

\* rm-all takes the disk of a VM away, and leaves the base disks alone.
RmAllKeepsBases ==
  [][\A k \in Keys, p \in Procs :
       pc[p] = "rmall_disk" /\ base[k] # 0 /\ pc'[p] = "rmall_undefine" =>
         base[k]' # 0]_vars

\* Only the removal of a VM takes the disk of an existing domain away: run
\* refuses a name in use, and prune deletes base disks.
DisksOnlyRemovedWithVm ==
  [][\A v \in VMs : Exists(v) /\ HasDisk(v) /\ ~HasDisk(v)' =>
       \E p \in Procs : /\ job[p].vm = v
                        /\ pc[p] \in {"rm_disk", "rm_undefine", "rmall_disk"}]_vars
=============================================================================
