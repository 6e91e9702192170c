----------------------------- MODULE BaseDisks -----------------------------
(***************************************************************************)
(* The cache of base disks (crates/kit/src/libvirt/base_disks.rs): finding *)
(* or creating the base disk of an image, cloning it to the disk of a VM,  *)
(* and pruning the base disks no VM disk refers to.                        *)
(*                                                                         *)
(* Every bcvk process runs one command.  pc[p] names the call it is about  *)
(* to make and job[p] holds its local variables.  Between two calls any    *)
(* other process may run: nothing in this code takes a lock.               *)
(***************************************************************************)
EXTENDS StoragePool

CONSTANT BaseNamed  \* the VMs whose names start with "bootc-base-"

ASSUME BaseNamedAssumption == BaseNamed \subseteq VMs

VARIABLES
  pc,   \* the next call of each process
  job,  \* the local variables of each process
  tag   \* the key the image's tag stands for now; a pull moves the tag

cacheVars == <<poolVars, pc, job, tag>>

NoVol == [kind |-> "none", name |-> NoKey]

DomStates == {"absent", "shut off", "running", "paused"}

\* A domain as a listing shows it: its name and state, and the base disk it
\* opens directly (NoKey if its disk is the VM's own).
Listed == [vm: VMs, state: DomStates, base: Keys \cup {NoKey}]

NoJob ==
  [cmd |-> "none", vm |-> NoKey, transient |-> FALSE, key |-> NoKey,
   tmp |-> NoTemp, state |-> "absent", persistent |-> FALSE, base |-> NoKey,
   vols |-> {}, todo |-> {}, cands |-> {}, cand |-> NoVol, snap |-> {}]

Jobs ==
  [cmd: {"none", "run", "to-base-disk", "rm", "rm-all", "start", "stop", "prune"},
   vm: VMs \cup {NoKey}, transient: BOOLEAN, key: Keys \cup {NoKey},
   tmp: Temps \cup {NoTemp}, state: DomStates, persistent: BOOLEAN,
   base: Keys \cup {NoKey}, vols: SUBSET VMs, todo: SUBSET VMs,
   cands: SUBSET Volumes, cand: Volumes \cup {NoVol}, snap: SUBSET Listed]

Labels ==
  {"idle", "inspect", "find", "check", "rm_stale", "mktemp", "install", "validate",
   "persist", "refresh", "clone_refresh", "clone_voldel", "clone_rmfile",
   "clone_create", "define", "start", "create", "prune_bases", "prune_vols",
   "prune_next", "prune_check", "prune_delete", "rm_state", "rm_info", "rm_destroy",
   "rm_disk", "rm_undefine", "rmall_list", "rmall_info", "rmall_next",
   "rmall_destroy", "rmall_disk", "rmall_undefine", "start_state", "stop_state",
   "stop"}

\* Building a base disk in a temporary file; cloning one.
Installing == {"install", "validate", "persist"}
Cloning == {"clone_refresh", "clone_voldel", "clone_rmfile", "clone_create"}

Goto(p, label) == pc' = [pc EXCEPT ![p] = label]

\* The command returns, with success or with an error.
Return(p) ==
  /\ Goto(p, "idle")
  /\ job' = [job EXCEPT ![p] = NoJob]

-----------------------------------------------------------------------------
(* find_or_create_base_disk                                                *)

\* images::inspect: the digest of the image decides the name of the base disk.
Inspect(p) ==
  /\ pc[p] = "inspect"
  /\ job' = [job EXCEPT ![p].key = tag]
  /\ Goto(p, "find")
  /\ UNCHANGED <<poolVars, tag>>

\* What the command does once it has its base disk: nothing more for
\* to-base-disk, `virsh create` for a transient VM, else a clone.
WithBase(p) ==
  IF job[p].cmd = "to-base-disk" THEN Return(p)
  ELSE Goto(p, IF job[p].transient THEN "create" ELSE "clone_refresh") /\ UNCHANGED job

\* base_disk_path.exists()
FindBase(p) ==
  /\ pc[p] = "find"
  /\ Goto(p, IF base[job[p].key] = 0 THEN "mktemp" ELSE "check")
  /\ UNCHANGED <<poolVars, job, tag>>

\* Mutant: the metadata of a cached disk never matches.
CheckBaseNeverValid(p) ==
  /\ pc[p] = "check"
  /\ Goto(p, "rm_stale")
  /\ UNCHANGED <<poolVars, job, tag>>

\* check_cached_disk: an error if the file has gone since exists().
CheckBase(p) ==
  LET k == job[p].key IN
  /\ pc[p] = "check"
  /\ \/ base[k] # 0 /\ meta[base[k]] = k /\ WithBase(p)
     \/ base[k] # 0 /\ meta[base[k]] # k /\ Goto(p, "rm_stale") /\ UNCHANGED job
     \/ base[k] = 0 /\ Return(p)
  /\ UNCHANGED <<poolVars, tag>>

\* fs::remove_file of whatever has the base disk's name by now.
RemoveStale(p) ==
  LET k == job[p].key IN
  /\ pc[p] = "rm_stale"
  /\ \/ base[k] # 0 /\ RemoveBase(k) /\ Goto(p, "mktemp") /\ UNCHANGED job
     \/ base[k] = 0 /\ Return(p) /\ UNCHANGED base
  /\ UNCHANGED <<temp, vmdisk, known, meta, nextIno, pinned, tag>>

-----------------------------------------------------------------------------
(* create_base_disk                                                        *)

\* Mutant: the name of the temporary file may be in use.
CreateTempShared(p) ==
  /\ pc[p] = "mktemp"
  /\ nextIno <= MaxInodes
  /\ \E t \in Temps :
       /\ temp' = [temp EXCEPT ![t] = nextIno]
       /\ job' = [job EXCEPT ![p].tmp = t]
  /\ nextIno' = nextIno + 1
  /\ Goto(p, "install")
  /\ UNCHANGED <<base, vmdisk, known, meta, pinned, tag>>

\* tempfile_in: an empty file under a name nobody uses.  It may fail.
CreateTemp(p) ==
  /\ pc[p] = "mktemp"
  /\ \/ /\ nextIno <= MaxInodes
        /\ \E t \in Temps :
             /\ temp[t] = 0
             /\ \A q \in Procs : job[q].tmp # t
             /\ temp' = [temp EXCEPT ![t] = nextIno]
             /\ job' = [job EXCEPT ![p].tmp = t]
        /\ nextIno' = nextIno + 1
        /\ Goto(p, "install")
     \/ /\ Return(p)
        /\ UNCHANGED <<temp, nextIno>>
  /\ UNCHANGED <<base, vmdisk, known, meta, pinned, tag>>

\* to_disk::run on the temporary file.  If the installation succeeds,
\* write_disk_metadata inspects the image again and sets the xattrs, its own
\* failure being ignored; if it fails the file goes, and the command with it.
Install(p) ==
  LET t == job[p].tmp IN
  /\ pc[p] = "install"
  /\ \/ /\ \E k \in {tag, NoKey} :
             meta' = IF temp[t] = 0 THEN meta ELSE [meta EXCEPT ![temp[t]] = k]
        /\ Goto(p, "validate")
        /\ UNCHANGED <<temp, job>>
     \/ /\ RemoveTemp(t)
        /\ Return(p)
        /\ UNCHANGED meta
  /\ UNCHANGED <<base, vmdisk, known, nextIno, pinned, tag>>

\* Mutant: whatever the installation left is published.
ValidateNothing(p) ==
  /\ pc[p] = "validate"
  /\ Goto(p, "persist")
  /\ UNCHANGED <<poolVars, job, tag>>

\* Mutant: the temporary file is not removed on a mismatch.
ValidateLeaks(p) ==
  LET t == job[p].tmp IN
  /\ pc[p] = "validate"
  /\ IF temp[t] # 0 /\ meta[temp[t]] = job[p].key
     THEN Goto(p, "persist") /\ UNCHANGED job
     ELSE Return(p)
  /\ UNCHANGED <<poolVars, tag>>

\* check_cached_disk on the result; dropping temp_file removes it on a mismatch.
Validate(p) ==
  LET t == job[p].tmp IN
  /\ pc[p] = "validate"
  /\ \/ /\ temp[t] # 0
        /\ meta[temp[t]] = job[p].key
        /\ Goto(p, "persist")
        /\ UNCHANGED <<temp, job>>
     \/ /\ temp[t] # 0 => meta[temp[t]] # job[p].key
        /\ RemoveTemp(t)
        /\ Return(p)
  /\ UNCHANGED <<base, vmdisk, known, meta, nextIno, pinned, tag>>

\* temp_file.persist: a rename, which replaces whatever has the base disk's
\* name by now, and fails if the temporary file is gone.
Persist(p) ==
  LET t == job[p].tmp IN
  /\ pc[p] = "persist"
  /\ \/ /\ temp[t] # 0
        /\ base' = [base EXCEPT ![job[p].key] = temp[t]]
        /\ RemoveTemp(t)
        /\ job' = [job EXCEPT ![p].tmp = NoTemp]
        /\ Goto(p, "refresh")
     \/ /\ temp[t] = 0
        /\ Return(p)
        /\ UNCHANGED <<base, temp>>
  /\ UNCHANGED <<vmdisk, known, meta, nextIno, pinned, tag>>

\* pool-refresh, whose failure is only logged.
RefreshPool(p) ==
  /\ pc[p] = "refresh"
  /\ PoolRefresh \/ UNCHANGED known
  /\ WithBase(p)
  /\ UNCHANGED <<base, temp, vmdisk, meta, nextIno, pinned, tag>>

-----------------------------------------------------------------------------
(* clone_from_base                                                         *)

CloneRefresh(p) ==
  /\ pc[p] = "clone_refresh"
  /\ PoolRefresh \/ UNCHANGED known
  /\ Goto(p, "clone_voldel")
  /\ UNCHANGED <<base, temp, vmdisk, meta, nextIno, pinned, job, tag>>

\* Mutant: the volume stays in libvirt's list.
CloneVolDeleteSkipped(p) ==
  /\ pc[p] = "clone_voldel"
  /\ Goto(p, "clone_rmfile")
  /\ UNCHANGED <<poolVars, job, tag>>

\* vol-delete of a disk of that name; "no storage vol" is fine.
CloneVolDelete(p) ==
  LET vol == VmVol(job[p].vm) IN
  /\ pc[p] = "clone_voldel"
  /\ VolDelete(vol) \/ (vol \notin known /\ UNCHANGED poolVars)
  /\ Goto(p, "clone_rmfile")
  /\ UNCHANGED <<job, tag>>

\* The untracked file, if there is one, is removed; then qemu-img info needs
\* the base disk.
CloneRemoveFile(p) ==
  /\ pc[p] = "clone_rmfile"
  /\ RemoveVmDisk(job[p].vm)
  /\ IF base[job[p].key] # 0
     THEN Goto(p, "clone_create") /\ UNCHANGED job
     ELSE Return(p)
  /\ UNCHANGED <<base, temp, known, meta, nextIno, tag>>

CloneCreate(p) ==
  LET v == job[p].vm
      k == job[p].key IN
  /\ pc[p] = "clone_create"
  /\ \/ /\ VolCreateAs(v, k)
        /\ Goto(p, "define")
        /\ UNCHANGED job
     \/ /\ ~CanCreateVol(v, k)
        /\ Return(p)
        /\ UNCHANGED poolVars
  /\ UNCHANGED tag

-----------------------------------------------------------------------------
(* prune_base_disks                                                        *)

\* list_base_disks: every "bootc-base-*.qcow2" in the directory, the files
\* that are still being built and the disks of VMs so named included.
PruneListBases(p) ==
  /\ pc[p] = "prune_bases"
  /\ job' = [job EXCEPT ![p].cands =
               {BaseVol(k) : k \in {b \in Keys : base[b] # 0}}
          \cup {TempVol(t) : t \in {u \in Temps : temp[u] # 0}}
          \cup {VmVol(v) : v \in {w \in BaseNamed : HasDisk(w)}}]
  /\ Goto(p, "prune_vols")
  /\ UNCHANGED <<poolVars, tag>>

\* list_storage_pool_volumes without the base disks: the VM disks, listed once
\* for the whole prune.
PruneListVolumes(p) ==
  LET disks == {v \in VMs \ BaseNamed : HasDisk(v)} IN
  /\ pc[p] = "prune_vols"
  /\ job' = [job EXCEPT ![p].vols = disks]
  /\ pinned' = [pinned EXCEPT ![p] = disks]
  /\ Goto(p, "prune_next")
  /\ UNCHANGED <<base, temp, vmdisk, known, meta, nextIno, tag>>

\* Mutant: the disks asked for one candidate are not asked for the next.
PruneNextNoReset(p) ==
  /\ pc[p] = "prune_next"
  /\ \/ \E c \in job[p].cands :
          /\ job' = [job EXCEPT ![p].cands = @ \ {c}, ![p].cand = c]
          /\ Goto(p, "prune_check")
        /\ UNCHANGED pinned
     \/ /\ job[p].cands = {}
        /\ Return(p)
        /\ pinned' = [pinned EXCEPT ![p] = {}]
  /\ UNCHANGED <<base, temp, vmdisk, known, meta, nextIno, tag>>

\* The loop over the base disks; the command ends after the last one.
PruneNext(p) ==
  /\ pc[p] = "prune_next"
  /\ \/ \E c \in job[p].cands :
          /\ job' = [job EXCEPT ![p].cands = @ \ {c}, ![p].cand = c,
                                ![p].todo = job[p].vols]
          /\ Goto(p, "prune_check")
        /\ UNCHANGED pinned
     \/ /\ job[p].cands = {}
        /\ Return(p)
        /\ pinned' = [pinned EXCEPT ![p] = {}]
  /\ UNCHANGED <<base, temp, vmdisk, known, meta, nextIno, tag>>

\* A disk's qcow2 header names the candidate as its backing file.
RefersTo(v, vol) == HasDisk(v) /\ vol = BaseVol(vmdisk[v].back)

\* Mutant: the answer of one VM disk decides.
PruneCheckFirst(p) ==
  /\ pc[p] = "prune_check"
  /\ \/ \E v \in job[p].todo :
          Goto(p, IF ~HasDisk(v) \/ RefersTo(v, job[p].cand) THEN "prune_next"
                  ELSE "prune_delete")
     \/ job[p].todo = {} /\ Goto(p, "prune_delete")
  /\ UNCHANGED <<poolVars, job, tag>>

\* check_base_disk_referenced: qemu-img info on one VM disk after another.  A
\* disk that cannot be read counts as a reference.
PruneCheck(p) ==
  /\ pc[p] = "prune_check"
  /\ \/ \E v \in job[p].todo :
          \/ /\ ~HasDisk(v) \/ RefersTo(v, job[p].cand)
             /\ Goto(p, "prune_next")
             /\ UNCHANGED job
          \/ /\ HasDisk(v)
             /\ ~RefersTo(v, job[p].cand)
             /\ job' = [job EXCEPT ![p].todo = @ \ {v}]
             /\ UNCHANGED pc
     \/ /\ job[p].todo = {}
        /\ Goto(p, "prune_delete")
        /\ UNCHANGED job
  /\ UNCHANGED <<poolVars, tag>>

\* vol-delete of the unreferenced disk; its failure ends the whole command.
PruneDelete(p) ==
  /\ pc[p] = "prune_delete"
  /\ \/ /\ VolDelete(job[p].cand)
        /\ Goto(p, "prune_next")
        /\ UNCHANGED job
     \/ /\ job[p].cand \notin known
        /\ Return(p)
        /\ pinned' = [pinned EXCEPT ![p] = {}]
        /\ UNCHANGED <<base, temp, vmdisk, known, meta, nextIno>>
  /\ UNCHANGED tag

-----------------------------------------------------------------------------
CacheStep(p) ==
  \/ Inspect(p) \/ FindBase(p) \/ CheckBase(p) \/ RemoveStale(p)
  \/ CreateTemp(p) \/ Install(p) \/ Validate(p) \/ Persist(p) \/ RefreshPool(p)
  \/ CloneRefresh(p) \/ CloneVolDelete(p) \/ CloneRemoveFile(p) \/ CloneCreate(p)
  \/ PruneListBases(p) \/ PruneListVolumes(p) \/ PruneNext(p) \/ PruneCheck(p)
  \/ PruneDelete(p)

\* podman pull (or tag, or build) moves the image's tag to another digest.
Retag(k) ==
  /\ tag # k
  /\ tag' = k
  /\ UNCHANGED <<poolVars, pc, job>>
=============================================================================
