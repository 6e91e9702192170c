---------------------------- MODULE DomainSetup ----------------------------
(***************************************************************************)
(* What `libvirt run` puts around a domain: its disk, the OVMF variables   *)
(* with the user's keys, the copy of the Ignition config, a TCP port and a *)
(* keypair; what `rm`, `rm-all` and the end of a transient VM leave of it; *)
(* and the SSH session that must find the right guest through the port.    *)
(*                                                                         *)
(* A file in the pool is the number of the `run` that wrote it, its        *)
(* generation, 0 if there is none; a domain has the generation of the run  *)
(* that defined it, which also stands for its keypair.  Nothing keeps two  *)
(* commands off one name; `shared` remembers the names it has happened to. *)
(***************************************************************************)
EXTENDS DefaultPool

CONSTANT Options  \* what `run` is asked for, records like NoOpts

VARIABLES
  disk,   \* 1 if there is a <vm>.qcow2
  fwvars, \* the generation of <vm>_OVMF_VARS.fd
  ign,    \* the generation of <vm>_ignition.json
  dom,    \* the domains libvirt has
  guest,  \* the running VMs and what they have been started with
  gens,   \* keypairs generated
  strays, \* history: names a run of which failed or was killed, or whose
          \* domain has gone in another way than by `rm`
  shared  \* history: names two commands have changed at the same time

fileVars == <<disk, fwvars, ign>>
domVars == <<dom, guest, gens, strays, shared>>
vars == <<poolVars, pc, job, kills, fileVars, domVars>>

NoDom == [gen |-> 0, port |-> NoPort, opts |-> NoOpts]
Off == [gen |-> 0, fwvars |-> 0, ign |-> 0]

Defined(v) == dom[v] # NoDom
Running(v) == guest[v] # Off

\* A session of ssh reads of a VM and changes nothing.
SshPlaces == {"ssh_verify", "ssh_config", "ssh_poll", "session"}
WorksOn(p, v) == job[p].vm = v /\ pc[p] \notin SshPlaces
Busy(v) == \E p \in Procs : WorksOn(p, v)

\* QEMU of these VMs listens on the port.
Listeners(port) == {v \in VMs : Running(v) /\ dom[v].port = port}
FreePorts == {port \in Ports : Listeners(port) = {}}

Init ==
  /\ pool = "none"
  /\ vol = [i \in Images |-> "none"]
  /\ pc = [p \in Procs |-> "idle"]
  /\ job = [p \in Procs |-> Idle]
  /\ kills = 0
  /\ disk = [v \in VMs |-> 0]
  /\ fwvars = [v \in VMs |-> 0]
  /\ ign = [v \in VMs |-> 0]
  /\ dom = [v \in VMs |-> NoDom]
  /\ guest = [v \in VMs |-> Off]
  /\ gens = 0
  /\ strays = {}
  /\ shared = {}

\* An error return of a command that leaves what it has made.
Fail(p) ==
  /\ End(p)
  /\ strays' = strays \cup {job[p].vm}

-----------------------------------------------------------------------------
(* Commands *)

\* No lock is taken on the name.
Begin(p, cmd, v, opts, l) ==
  LET meets == Busy(v) /\ l \notin SshPlaces IN
  /\ pc[p] = "idle"
  /\ cmd \in Commands
  /\ meets => Cardinality(shared) < MaxMeets
  /\ Goto(p, l)
  /\ job' = [job EXCEPT ![p] = [Idle EXCEPT !.vm = v, !.opts = opts, !.next = "clone"]]
  /\ shared' = IF meets THEN shared \cup {v} ELSE shared
  /\ UNCHANGED <<poolVars, kills, fileVars, dom, guest, gens, strays>>

\* A name that is taken is an error without --replace.
BeginRun(p, v) ==
  \E opts \in Options : ~Defined(v) /\ Begin(p, "run", v, opts, "pool_info")

BeginRm(p, v) == Begin(p, "rm", v, NoOpts, "rm_look")
BeginRmAll(p, v) == Begin(p, "rm-all", v, NoOpts, "rmall_look")
BeginStart(p, v) == Begin(p, "start", v, NoOpts, "start")
BeginSsh(p, v) == Begin(p, "ssh", v, NoOpts, "ssh_verify")

BeginUpload(p, i) ==
  /\ pc[p] = "idle"
  /\ "upload" \in Commands
  /\ Goto(p, "up_pool")
  /\ job' = [job EXCEPT ![p] = [Idle EXCEPT !.image = i]]
  /\ UNCHANGED <<poolVars, kills, fileVars, domVars>>

-----------------------------------------------------------------------------
(* run *)

\* The VM's disk is cloned from a base disk, which takes an active pool; a
\* transient VM gets the base disk itself.
Clone(p) ==
  LET v == job[p].vm IN
  /\ pc[p] = "clone"
  /\ \/ /\ job[p].opts.transient
        /\ Goto(p, "port")
        /\ UNCHANGED <<disk, job, strays>>
     \/ /\ ~job[p].opts.transient /\ pool = "active"
        /\ disk' = [disk EXCEPT ![v] = 1]
        /\ Goto(p, "port")
        /\ UNCHANGED <<job, strays>>
     \/ Fail(p) /\ UNCHANGED disk
  /\ UNCHANGED <<poolVars, kills, fwvars, ign, dom, guest, gens, shared>>

\* The label that follows l when the options o are the ones asked for: what
\* is next of the OVMF variables, the Ignition config and the definition.
\* Both files are preceded by a look for the pool's path.
NextFile(l, o) ==
  CASE l = "port" /\ o.secure -> "vars"
    [] l \in {"port", "vars"} /\ ~(l = "port" /\ o.secure) /\ o.ignition -> "ignition"
    [] OTHER -> "define"

GotoFile(p, j, l) ==
  LET n == NextFile(l, j.opts) IN
  /\ Goto(p, IF n = "define" THEN n ELSE "pool_info")
  /\ job' = [job EXCEPT ![p] = [j EXCEPT !.next = n]]

\* Mutant: one keypair for all VMs.
PortOldKey(p) ==
  /\ pc[p] = "port"
  /\ gens < MaxGens
  /\ gens' = 1
  /\ \E port \in IF FreePorts = {} THEN Ports ELSE FreePorts :
       GotoFile(p, [job[p] EXCEPT !.gen = 1, !.port = port], "port")
  /\ UNCHANGED <<poolVars, kills, fileVars, dom, guest, strays, shared>>

\* Mutant: no port when none is free.
PortNone(p) ==
  /\ pc[p] = "port"
  /\ gens < MaxGens
  /\ gens' = gens + 1
  /\ \E port \in IF FreePorts = {} THEN {NoPort} ELSE FreePorts :
       GotoFile(p, [job[p] EXCEPT !.gen = gens + 1, !.port = port], "port")
  /\ UNCHANGED <<poolVars, kills, fileVars, dom, guest, strays, shared>>

\* find_available_ssh_port binds a port of the range and closes it again; the
\* first one is the fallback when none is free.  Then ssh-keygen.
Port(p) ==
  /\ pc[p] = "port"
  /\ gens < MaxGens
  /\ gens' = gens + 1
  /\ \E port \in IF FreePorts = {} THEN Ports ELSE FreePorts :
       GotoFile(p, [job[p] EXCEPT !.gen = gens + 1, !.port = port], "port")
  /\ UNCHANGED <<poolVars, kills, fileVars, dom, guest, strays, shared>>

\* Mutant: a file that is there is used.
VarsCached(p) ==
  /\ pc[p] = "vars"
  /\ fwvars' = [fwvars EXCEPT ![job[p].vm] = IF @ # 0 THEN @ ELSE job[p].gen]
  /\ GotoFile(p, job[p], "vars")
  /\ UNCHANGED <<poolVars, kills, disk, ign, domVars>>

\* setup_secure_boot.  The variables are made anew: a file left behind may
\* have other keys.
Vars(p) ==
  /\ pc[p] = "vars"
  /\ fwvars' = [fwvars EXCEPT ![job[p].vm] = job[p].gen]
  /\ GotoFile(p, job[p], "vars")
  /\ UNCHANGED <<poolVars, kills, disk, ign, domVars>>

\* The copy of the Ignition config to the pool.
Ignition(p) ==
  /\ pc[p] = "ignition"
  /\ ign' = [ign EXCEPT ![job[p].vm] = job[p].gen]
  /\ GotoFile(p, job[p], "ignition")
  /\ UNCHANGED <<poolVars, kills, disk, fwvars, domVars>>

\* The keys are incomplete, or virt-fw-vars fails.
VarsFail(p) ==
  /\ pc[p] = "vars"
  /\ Fail(p)
  /\ UNCHANGED <<poolVars, kills, fileVars, dom, guest, gens, shared>>

\* Firmware, mounts, storage and log files may be refused, before and after
\* the Ignition config has been written.
GiveUp(p) ==
  /\ pc[p] \in {"ignition", "define"}
  /\ Fail(p)
  /\ UNCHANGED <<poolVars, kills, fileVars, dom, guest, gens, shared>>

NewDom(j) == [gen |-> j.gen, port |-> j.port, opts |-> j.opts]

\* virsh define of a domain; GiveUp stands for its failure, which is certain
\* when the name has been taken since the look at it.
Define(p) ==
  LET v == job[p].vm IN
  /\ pc[p] = "define"
  /\ ~job[p].opts.transient
  /\ ~Defined(v)
  /\ dom' = [dom EXCEPT ![v] = NewDom(job[p])]
  /\ Goto(p, "start")
  /\ UNCHANGED <<poolVars, job, kills, fileVars, guest, gens, strays, shared>>

\* QEMU opens the files the XML names, and binds the port.
CanStart(v, d) ==
  /\ Listeners(d.port) = {}
  /\ d.opts.transient \/ disk[v] # 0
  /\ d.opts.secure => fwvars[v] # 0
  /\ d.opts.ignition => ign[v] # 0

Started(v, d) ==
  [gen |-> d.gen,
   fwvars |-> IF d.opts.secure THEN fwvars[v] ELSE 0,
   ign |-> IF d.opts.ignition THEN ign[v] ELSE 0]

AfterStart(p, opts) ==
  IF opts.wait
    THEN Goto(p, "ssh_verify") /\ job' = job
    ELSE End(p)

\* virsh create of a transient domain.
Create(p) ==
  LET v == job[p].vm
      d == NewDom(job[p]) IN
  /\ pc[p] = "define"
  /\ job[p].opts.transient
  /\ \/ /\ ~Defined(v) /\ CanStart(v, d)
        /\ dom' = [dom EXCEPT ![v] = d]
        /\ guest' = [guest EXCEPT ![v] = Started(v, d)]
        /\ AfterStart(p, d.opts)
        /\ strays' = strays
     \/ Fail(p) /\ UNCHANGED <<dom, guest>>
  /\ UNCHANGED <<poolVars, kills, fileVars, gens, shared>>

\* virsh start, of run and of start.  The domain stays defined if it fails.
Start(p) ==
  LET v == job[p].vm IN
  /\ pc[p] = "start"
  /\ \/ /\ Defined(v) /\ ~Running(v)
        /\ CanStart(v, dom[v])
        /\ guest' = [guest EXCEPT ![v] = Started(v, dom[v])]
        /\ AfterStart(p, job[p].opts)
     \/ End(p) /\ UNCHANGED guest
  /\ UNCHANGED <<poolVars, kills, fileVars, dom, gens, strays, shared>>

-----------------------------------------------------------------------------
(* rm and rm-all, of one VM *)

Place(rm, l) ==
  CASE l = "destroy" -> IF rm THEN "rm_destroy" ELSE "rmall_destroy"
    [] l = "disk" -> IF rm THEN "rm_disk" ELSE "rmall_disk"

\* QEMU of a VM ends; a transient domain vanishes with it.
Halt(v) ==
  /\ guest' = [guest EXCEPT ![v] = Off]
  /\ IF dom[v].opts.transient
       THEN /\ dom' = [dom EXCEPT ![v] = NoDom]
            /\ strays' = strays \cup {v}
       ELSE UNCHANGED <<dom, strays>>

\* The state, whether it is persistent and the disk's path are looked up.
RmLook(p) ==
  LET v == job[p].vm
      l == IF Running(v) THEN "destroy" ELSE "disk" IN
  /\ pc[p] \in {"rm_look", "rmall_look"}
  /\ IF Defined(v)
       THEN /\ Goto(p, Place(pc[p] = "rm_look", l))
            /\ job' = [job EXCEPT ![p].opts = dom[v].opts]
       ELSE End(p)
  /\ UNCHANGED <<poolVars, kills, fileVars, domVars>>

\* virsh destroy of a domain that ran at the look at it.  A transient one is
\* gone then, and its files stay: rm is done, and rm-all goes on without it.
RmDestroy(p) ==
  LET v == job[p].vm
      rm == pc[p] = "rm_destroy" IN
  /\ pc[p] \in {"rm_destroy", "rmall_destroy"}
  /\ \/ /\ Running(v)
        /\ Halt(v)
        /\ IF rm /\ job[p].opts.transient
             THEN End(p)
             ELSE Goto(p, Place(rm, "disk")) /\ job' = job
     \/ ~Running(v) /\ End(p) /\ UNCHANGED <<dom, guest, strays>>
  /\ UNCHANGED <<poolVars, kills, fileVars, gens, shared>>

\* The disk at the path that was looked up: a transient VM's is the base disk,
\* as LibvirtVms has it.
RmDisk(p) ==
  LET rm == pc[p] = "rm_disk" IN
  /\ pc[p] \in {"rm_disk", "rmall_disk"}
  /\ disk' = IF job[p].opts.transient THEN disk ELSE [disk EXCEPT ![job[p].vm] = 0]
  /\ Goto(p, IF rm THEN "rm_ignition" ELSE "rmall_undefine")
  /\ UNCHANGED <<poolVars, job, kills, fwvars, ign, domVars>>

\* Mutant: the XML is asked for when the domain has gone.
RmIgnitionLate(p) ==
  /\ pc[p] = "rm_ignition"
  /\ Goto(p, "rm_undefine")
  /\ UNCHANGED <<poolVars, job, kills, fileVars, domVars>>

\* The path of the config is in the domain's XML.
RmIgnition(p) ==
  LET v == job[p].vm IN
  /\ pc[p] = "rm_ignition"
  /\ ign' = IF dom[v].opts.ignition THEN [ign EXCEPT ![v] = 0] ELSE ign
  /\ Goto(p, "rm_undefine")
  /\ UNCHANGED <<poolVars, job, kills, disk, fwvars, domVars>>

\* virsh undefine --nvram.  rm asks for the removal of the storage too, which
\* virsh refuses of a running domain; without that a running domain is made a
\* transient one.  rm-all has left the Ignition config.
RmUndefine(p) ==
  LET v == job[p].vm
      rm == pc[p] = "rm_undefine" IN
  /\ pc[p] \in {"rm_undefine", "rmall_undefine"}
  /\ IF Defined(v) /\ ~dom[v].opts.transient /\ ~(rm /\ Running(v))
       THEN /\ fwvars' = IF dom[v].opts.secure THEN [fwvars EXCEPT ![v] = 0] ELSE fwvars
            /\ dom' = IF Running(v) THEN [dom EXCEPT ![v].opts.transient = TRUE]
                                    ELSE [dom EXCEPT ![v] = NoDom]
            /\ strays' = IF rm THEN strays ELSE strays \cup {v}
       ELSE UNCHANGED <<fwvars, dom, strays>>
  /\ End(p)
  /\ UNCHANGED <<poolVars, kills, disk, ign, guest, gens, shared>>

-----------------------------------------------------------------------------
(* ssh, and run --ssh and --ssh-wait *)

\* dominfo and domstate: the domain exists and runs.
SshVerify(p) ==
  LET v == job[p].vm IN
  /\ pc[p] = "ssh_verify"
  /\ \/ Running(v) /\ Goto(p, "ssh_config") /\ job' = job
     \/ ~Running(v) /\ End(p)
  /\ UNCHANGED <<poolVars, kills, fileVars, domVars>>

\* dumpxml has the key and the port, if the domain is still there.
SshConfig(p) ==
  LET v == job[p].vm IN
  /\ pc[p] = "ssh_config"
  /\ \/ /\ Defined(v)
        /\ job' = [job EXCEPT ![p].gen = dom[v].gen, ![p].port = dom[v].port]
        /\ Goto(p, "ssh_poll")
     \/ ~Defined(v) /\ End(p)
  /\ UNCHANGED <<poolVars, kills, fileVars, domVars>>

\* A guest lets in who has its key.
Answers(p) == {v \in Listeners(job[p].port) : guest[v].gen = job[p].gen}

\* `ssh -- true` until it succeeds or the time is over.
SshPoll(p) ==
  /\ pc[p] = "ssh_poll"
  /\ \/ Answers(p) # {} /\ Goto(p, "session") /\ job' = job
     \/ End(p)
  /\ UNCHANGED <<poolVars, kills, fileVars, domVars>>

\* The session is a connection of its own and may fail as well.
SessionEnds(p) ==
  /\ pc[p] = "session"
  /\ End(p)
  /\ UNCHANGED <<poolVars, kills, fileVars, domVars>>

-----------------------------------------------------------------------------
(* The environment *)

\* A guest powers off.
PowerOff(v) ==
  /\ Running(v)
  /\ Halt(v)
  /\ UNCHANGED <<poolVars, pc, job, kills, fileVars, gens, shared>>

Kill(p) ==
  /\ pc[p] # "idle"
  /\ kills < MaxKills
  /\ kills' = kills + 1
  /\ Spoil(p)
  /\ strays' = strays \cup ({job[p].vm} \cap VMs)
  /\ End(p)
  /\ UNCHANGED <<pool, fileVars, dom, guest, gens, shared>>

RunStep(p) ==
  \/ \E v \in VMs : BeginRun(p, v) \/ BeginRm(p, v) \/ BeginRmAll(p, v)
                      \/ BeginStart(p, v) \/ BeginSsh(p, v)
  \/ \E i \in Images : BeginUpload(p, i)
  \/ EnsurePool(p) /\ UNCHANGED <<kills, fileVars, domVars>>
  \/ Upload(p) /\ UNCHANGED <<kills, fileVars, domVars>>
  \/ Clone(p) \/ Port(p) \/ Vars(p) \/ VarsFail(p) \/ Ignition(p) \/ GiveUp(p)
  \/ Define(p) \/ Create(p) \/ Start(p)
  \/ RmLook(p) \/ RmDestroy(p) \/ RmDisk(p) \/ RmIgnition(p) \/ RmUndefine(p)
  \/ SshVerify(p) \/ SshConfig(p) \/ SshPoll(p) \/ SessionEnds(p)

Next ==
  \/ \E p \in Procs : RunStep(p) \/ Kill(p)
  \/ \E v \in VMs : PowerOff(v)

Spec == Init /\ [][Next]_vars

-----------------------------------------------------------------------------
(* Properties *)

Labels ==
  {"idle", "pool_info", "pool_reuse", "pool_define", "pool_start", "clone", "port",
   "vars", "ignition", "define", "start", "rm_look", "rm_destroy", "rm_disk",
   "rm_ignition", "rm_undefine", "rmall_look", "rmall_destroy", "rmall_disk",
   "rmall_undefine", "ssh_verify", "ssh_config", "ssh_poll", "session", "up_pool", "up_delete",
   "up_create", "up_upload"}

OptionSet == [secure : BOOLEAN, ignition : BOOLEAN, transient : BOOLEAN, wait : BOOLEAN]

ASSUME OptionsAssumption == Options \subseteq OptionSet

Jobs == [vm : VMs \cup {NoVM}, image : Images \cup {NoImage}, gen : Nat,
         port : Ports \cup {NoPort}, opts : OptionSet,
         next : {"idle", "clone", "vars", "ignition", "define"}, lost : BOOLEAN]
Doms == {NoDom} \cup [gen : Nat \ {0}, port : Ports, opts : OptionSet]
Guests == [gen : Nat, fwvars : Nat, ign : Nat]

TypeOK ==
  /\ pool \in {"none", "inactive", "active", "failed"}
  /\ vol \in [Images -> {"none", "empty", "full", "spoilt"}]
  /\ pc \in [Procs -> Labels]
  /\ job \in [Procs -> Jobs]
  /\ kills \in Nat
  /\ disk \in [VMs -> Nat] /\ fwvars \in [VMs -> Nat] /\ ign \in [VMs -> Nat]
  /\ dom \in [VMs -> Doms]
  /\ guest \in [VMs -> Guests]
  /\ gens \in Nat
  /\ strays \subseteq VMs
  /\ shared \subseteq VMs

\* A process that has been told the pool's path finds a pool that is active or
\* that libvirt has refused to start: ensure_default_pool repairs what a process
\* killed between pool-define and pool-start has left.  Only a process that lost
\* the race of pool-define goes on with a pool nobody has tried to start, while
\* the winner has yet to do so or was killed.
PoolReady ==
  \A p \in Procs :
    PastEnsure(p) /\ pool \notin {"active", "failed"} =>
      /\ job[p].lost
      /\ kills > 0 \/ \E q \in Procs : Creating(q)

\* A volume that has been created is being filled by a command, whatever other
\* uploads of the image delete, create and fill meanwhile; only an upload that
\* fails or is killed half-way leaves a volume that is not whole.
VolumeComplete ==
  \A i \in Images :
    vol[i] = "empty" => \E p \in Procs : pc[p] = "up_upload" /\ job[p].image = i

\* A VM runs with the variables and the config its own run has made, never
\* with those an earlier VM of the name has left in the pool, unless another
\* command has worked on the name at the same time.
OwnFiles ==
  \A v \in VMs \ shared : Running(v) =>
    /\ guest[v].fwvars \in {0, guest[v].gen}
    /\ guest[v].ign \in {0, guest[v].gen}

\* Every file in the pool belongs to a domain or to a command that works on
\* its name; only failed and killed runs, transient VMs, rm-all and commands
\* that met on one name leave some.
NothingLeft ==
  \A v \in VMs :
    disk[v] + fwvars[v] + ign[v] > 0 => Defined(v) \/ Busy(v) \/ v \in strays \cup shared

\* What answers a session through the port of a VM is that VM, though others
\* may have got the same port since, or the VM may have been replaced.
OwnGuest ==
  \A p \in Procs : pc[p] = "session" => Answers(p) \subseteq {job[p].vm}

=============================================================================
