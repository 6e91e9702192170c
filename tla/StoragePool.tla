---------------------------- MODULE StoragePool ----------------------------
(***************************************************************************)
(* The directory of the "default" libvirt storage pool, and libvirt's own  *)
(* list of the volumes in it.                                              *)
(*                                                                         *)
(* The files are of three kinds: base disks "bootc-base-<hash>.qcow2",     *)
(* the temporary files "bootc-base-<hash>.XXXXXX.tmp.qcow2" base disks are *)
(* built in, and VM disks "<vm>.qcow2", qcow2 overlays whose backing file  *)
(* is a base disk.  A base disk or temporary file is an inode, so that a   *)
(* rename and the replacement of a file by another are visible; 0 is "no   *)
(* such file".  libvirt's view of the pool is brought up to date only by   *)
(* the operations that go through virsh, and by pool-refresh.              *)
(***************************************************************************)
EXTENDS Naturals, FiniteSets

CONSTANTS
  Keys,      \* cache keys: a digest, image reference and install options
  NoKey,     \* no key
  Temps,     \* names of temporary files
  NoTemp,    \* no temporary file
  VMs,       \* domain names
  Procs,     \* bcvk processes
  MaxInodes  \* bound: the disk images that are ever created

ASSUME PoolAssumption ==
  /\ NoKey \notin Keys
  /\ NoTemp \notin Temps
  /\ MaxInodes \in Nat \ {0}

VARIABLES
  base,     \* inode of the base disk of each key, 0 if there is none
  temp,     \* inode of each temporary file, 0 if there is none
  vmdisk,   \* the overlay that is the disk of each VM
  known,    \* the volumes libvirt lists in the pool
  meta,     \* the cache key in the xattrs of each inode, NoKey if none
  nextIno,  \* the next inode number
  pinned    \* history: the VM disks a prune has listed that still exist

poolVars == <<base, temp, vmdisk, known, meta, nextIno, pinned>>

Inodes == 1..MaxInodes

\* A file under a base disk's name that bcvk did not put there with valid
\* metadata: one whose xattrs were lost in a copy, say.
StaleIno == 1

NoDisk == [back |-> NoKey, ino |-> 0]
Overlay == [back: Keys, ino: Inodes]
HasDisk(v) == vmdisk[v] # NoDisk

BaseVol(k) == [kind |-> "base", name |-> k]
TempVol(t) == [kind |-> "temp", name |-> t]
VmVol(v) == [kind |-> "vm", name |-> v]

Volumes ==
       {BaseVol(k) : k \in Keys} \cup {TempVol(t) : t \in Temps}
  \cup {VmVol(v) : v \in VMs}

PoolTypeOK ==
  /\ base \in [Keys -> Inodes \cup {0}]
  /\ temp \in [Temps -> Inodes \cup {0}]
  /\ vmdisk \in [VMs -> Overlay \cup {NoDisk}]
  /\ known \subseteq Volumes
  /\ meta \in [Inodes -> Keys \cup {NoKey}]
  /\ nextIno \in 2..(MaxInodes + 1)
  /\ pinned \in [Procs -> SUBSET VMs]

\* The pool is empty, or holds a stale file under the name of one base disk.
PoolInit ==
  /\ \E S \in {{}} \cup {{k} : k \in Keys} :
       base = [k \in Keys |-> IF k \in S THEN StaleIno ELSE 0]
  /\ temp = [t \in Temps |-> 0]
  /\ vmdisk = [v \in VMs |-> NoDisk]
  /\ known = {}
  /\ meta = [i \in Inodes |-> NoKey]
  /\ nextIno = 2
  /\ pinned = [p \in Procs |-> {}]

-----------------------------------------------------------------------------
(* The file system.  Each operator gives the next value of one file.       *)

RemoveBase(k) == base' = [base EXCEPT ![k] = 0]
RemoveTemp(t) == temp' = [temp EXCEPT ![t] = 0]

\* Removing a VM disk: a prune that listed it can no longer rely on it.
RemoveVmDisk(v) ==
  /\ vmdisk' = [vmdisk EXCEPT ![v] = NoDisk]
  /\ pinned' = [p \in Procs |-> pinned[p] \ {v}]

-----------------------------------------------------------------------------
(* What virsh's storage commands do.                                       *)

\* pool-refresh: libvirt lists the files that are in the directory now.
PoolRefresh ==
  known' = {BaseVol(k) : k \in {b \in Keys : base[b] # 0}}
      \cup {TempVol(t) : t \in {u \in Temps : temp[u] # 0}}
      \cup {VmVol(v) : v \in {w \in VMs : HasDisk(w)}}

\* vol-delete: the volume goes out of the list and its file is unlinked, a
\* file that is already gone being no error.  It fails, with no effect, on a
\* volume that libvirt does not list.
VolDelete(vol) ==
  /\ vol \in known
  /\ known' = known \ {vol}
  /\ \/ /\ vol.kind = "base"
        /\ RemoveBase(vol.name)
        /\ UNCHANGED <<temp, vmdisk, pinned>>
     \/ /\ vol.kind = "temp"
        /\ RemoveTemp(vol.name)
        /\ UNCHANGED <<base, vmdisk, pinned>>
     \/ /\ vol.kind = "vm"
        /\ RemoveVmDisk(vol.name)
        /\ UNCHANGED <<base, temp>>
  /\ UNCHANGED <<meta, nextIno>>

\* Mutant: the backing volume is only looked up in the list.
CanCreateVolListed(v, k) ==
  BaseVol(k) \in known /\ VmVol(v) \notin known /\ ~HasDisk(v)

\* vol-create-as --backing-vol: a new overlay on the base disk of key k.  It
\* needs the backing volume in the pool's list and on disk, and neither a
\* volume nor a file of that name.
CanCreateVol(v, k) ==
  /\ BaseVol(k) \in known
  /\ base[k] # 0
  /\ VmVol(v) \notin known
  /\ ~HasDisk(v)

VolCreateAs(v, k) ==
  /\ CanCreateVol(v, k)
  /\ vmdisk' = [vmdisk EXCEPT ![v] = [back |-> k, ino |-> base[k]]]
  /\ known' = known \cup {VmVol(v)}
  /\ UNCHANGED <<base, temp, meta, nextIno, pinned>>
=============================================================================
