---------------------------- MODULE DefaultPool ----------------------------
(***************************************************************************)
(* The "default" storage pool as bcvk makes it, and the volumes that the   *)
(* two upload commands put into it.                                        *)
(*                                                                         *)
(* Every command that needs the pool calls ensure_default_pool, which asks *)
(* libvirt, defines and starts the pool in separate virsh calls.  Several  *)
(* first commands may do so at the same time, and one that is killed       *)
(* between the calls leaves the pool defined and inactive.                 *)
(***************************************************************************)
EXTENDS Naturals, FiniteSets

CONSTANTS
  Procs,    \* bcvk processes
  VMs,      \* domain names
  NoVM,     \* no domain
  Images,   \* image digests, which name the volumes of an upload
  NoImage,  \* no image
  Ports,    \* the range find_available_ssh_port draws from
  NoPort,   \* no port
  Commands, \* the commands that are run
  MaxGens,  \* bound: keypairs generated, one per domain that is created
  MaxKills, \* bound: processes killed
  MaxMeets  \* bound: names on which commands meet

ASSUME SetupAssumption ==
  /\ NoVM \notin VMs
  /\ NoImage \notin Images
  /\ NoPort \notin Ports
  /\ Ports # {}
  /\ MaxGens \in Nat
  /\ MaxKills \in Nat
  /\ MaxMeets \in Nat

VARIABLES
  pool,   \* "none", "inactive" when defined and never started, "active", or
          \* "failed" when it is inactive because pool-start has failed
  vol,    \* the volume of each image: "none", "empty", "full", or "spoilt" by
          \* an upload that failed or was killed
  pc,     \* where each process is, "idle" between commands
  job,    \* the locals of its command
  kills   \* processes killed

poolVars == <<pool, vol>>

NoOpts == [secure |-> FALSE, ignition |-> FALSE, transient |-> FALSE, wait |-> FALSE]

Idle == [vm |-> NoVM, image |-> NoImage, gen |-> 0, port |-> NoPort,
         opts |-> NoOpts, next |-> "idle", lost |-> FALSE]

Goto(p, l) == pc' = [pc EXCEPT ![p] = l]

\* The command ends, whether it has done its work or returns an error.
End(p) ==
  /\ pc' = [pc EXCEPT ![p] = "idle"]
  /\ job' = [job EXCEPT ![p] = Idle]

-----------------------------------------------------------------------------
(* ensure_default_pool, called with the label to go on at in job[p].next.   *)

\* pool-info: does the pool exist?
PoolInfo(p) ==
  /\ pc[p] = "pool_info"
  /\ Goto(p, IF pool = "none" THEN "pool_define" ELSE "pool_reuse")
  /\ job' = [job EXCEPT ![p].lost = FALSE]
  /\ UNCHANGED poolVars

\* Mutant: a pool that exists is taken to be active.
PoolReuseNot(p) ==
  /\ pc[p] = "pool_reuse"
  /\ Goto(p, job[p].next)
  /\ UNCHANGED <<poolVars, job>>

\* pool-start of a pool that exists, whose errors are ignored: the pool may be
\* active, or its directory may be gone or denied.
PoolReuse(p) ==
  /\ pc[p] = "pool_reuse"
  /\ pool' \in IF pool = "active" THEN {pool} ELSE {"active", "failed"}
  /\ Goto(p, job[p].next)
  /\ UNCHANGED <<vol, job>>

\* The pool's directory and pool-define.  Another process may have defined the
\* pool since the look at it: "already exists" is no error, and that one is
\* taken to start it.
PoolDefine(p) ==
  /\ pc[p] = "pool_define"
  /\ \/ /\ pool = "none"
        /\ pool' = "inactive"
        /\ Goto(p, "pool_start")
        /\ job' = job
     \/ /\ pool # "none"
        /\ pool' = pool
        /\ Goto(p, job[p].next)
        /\ job' = [job EXCEPT ![p].lost = TRUE]
     \/ End(p) /\ pool' = pool
  /\ UNCHANGED vol

\* pool-build, whose errors are ignored, and pool-start, whose errors are not:
\* it fails too if a process that found the pool defined has started it.
PoolStart(p) ==
  /\ pc[p] = "pool_start"
  /\ \/ /\ pool # "active"
        /\ pool' = "active"
        /\ Goto(p, job[p].next)
        /\ job' = job
     \/ /\ pool' = IF pool = "active" THEN pool ELSE "failed"
        /\ End(p)
  /\ UNCHANGED vol

EnsurePool(p) == PoolInfo(p) \/ PoolReuse(p) \/ PoolDefine(p) \/ PoolStart(p)

\* A process that has the pool's path from ensure_default_pool.
PastEnsure(p) == pc[p] \in {"clone", "vars", "ignition"}

\* A process that has defined the pool and will start it.
Creating(p) == pc[p] = "pool_start"

-----------------------------------------------------------------------------
(* bcvk libvirt upload and bcvk libvirt-upload-disk, after to-disk has made *)
(* the image in a temporary directory.                                      *)

\* check_pool_exists, which makes no pool.
UploadPool(p) ==
  /\ pc[p] = "up_pool"
  /\ \/ pool # "none" /\ Goto(p, "up_delete") /\ job' = job
     \/ pool = "none" /\ End(p)
  /\ UNCHANGED poolVars

\* vol-delete of a volume of that name; errors are ignored.
UploadDelete(p) ==
  /\ pc[p] = "up_delete"
  /\ vol' = [vol EXCEPT ![job[p].image] = IF pool = "active" THEN "none" ELSE @]
  /\ Goto(p, "up_create")
  /\ UNCHANGED <<pool, job>>

\* Mutant: a volume that is there is left as it is.
UploadCreateOnly(p) ==
  LET i == job[p].image IN
  /\ pc[p] = "up_create"
  /\ vol' = [vol EXCEPT ![i] = IF pool = "active" /\ @ = "none" THEN "empty" ELSE @]
  /\ End(p)
  /\ UNCHANGED pool

\* vol-create-as fails if the pool is not active or the name is taken.
UploadCreate(p) ==
  LET i == job[p].image IN
  /\ pc[p] = "up_create"
  /\ \/ /\ pool = "active" /\ vol[i] = "none"
        /\ vol' = [vol EXCEPT ![i] = "empty"]
        /\ Goto(p, "up_upload")
        /\ job' = job
     \/ /\ pool # "active" \/ vol[i] # "none"
        /\ vol' = vol
        /\ End(p)
  /\ UNCHANGED pool

\* A vol-upload that ends half-way.
Spoil(p) ==
  vol' = IF pc[p] = "up_upload"
           THEN [vol EXCEPT ![job[p].image] = IF @ = "none" THEN @ ELSE "spoilt"]
           ELSE vol

\* vol-upload fills the volume of that name, whoever has created it, or fails
\* after a part of it.
UploadFill(p) ==
  LET i == job[p].image IN
  /\ pc[p] = "up_upload"
  /\ \/ vol[i] # "none" /\ vol' = [vol EXCEPT ![i] = "full"]
     \/ Spoil(p)
  /\ End(p)
  /\ UNCHANGED pool

Upload(p) == UploadPool(p) \/ UploadDelete(p) \/ UploadCreate(p) \/ UploadFill(p)

=============================================================================
