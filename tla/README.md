# bcvk: a TLA+ model

bcvk runs bootable container images as virtual machines: short-lived ones in a
podman container (`bcvk ephemeral`), disk images (`bcvk to-disk`), and VMs of
libvirt (`bcvk libvirt`). It has no daemon. Every command is a process of its
own, and processes meet in libvirt's storage pool, in libvirt's list of
domains, in extended attributes of files, in a pipe of tokens. Nothing else
coordinates them. What is modelled here is what happens to shared state when
several bcvk processes, each correct alone, run at the same time, fail half-way
or are killed, and, inside one ephemeral VM, who waits for whom.

Paths below are relative to the root of the repository; `kit` is `crates/kit/src`.

## The system

| Part | Code | State | Operations | Hard behaviour | Correct when |
|---|---|---|---|---|---|
| storage pool | `kit/libvirt/run.rs`, `base_disks.rs` | files, libvirt's list of volumes, metadata xattrs | refresh, delete, create an overlay, rename, remove | libvirt's list is not the directory: it learns of files on a refresh | nobody acts on the wrong one of the two |
| cache of base disks | `kit/libvirt/base_disks.rs`, `base_disks_cli.rs`, `cache_metadata.rs` | `bootc-base-*.qcow2`, temporary files | find, create, clone, prune | processes race to build, check, replace and prune | a reader sees a complete base disk or none; overlays keep their backing file |
| libvirt VM commands | `kit/libvirt/{run,rm,rm_all,start,stop}.rs`, `kit/domain_list.rs` | domains | run, rm, rm-all, start, stop | a state is read, then acted on some virsh calls later | a command changes only the VM it names |
| to-disk | `kit/to_disk.rs` | the target file and its metadata | install, reuse, clean up | failure half-way; the tag moves | the metadata describes the content |
| VM jobserver | `crates/itest/src/{resources,privilege,harness}.rs` | a pipe of tokens | create, acquire, drop | several processes, killed tests, partial reads | running VMs fit into memory, tests end |
| readiness | `kit/{run_ephemeral_ssh,boot_progress,status_monitor,supervisor_status}.rs` | the status file, a channel | notify, monitor, poll, time out | three threads, a watcher, a timeout | readiness means SSH works; no update is missed; the container goes with its command |
| ephemeral VM | `kit/{run_ephemeral,container_entrypoint,main}.rs`, `crates/bcvk-qemu/src/*.rs` | QEMU, virtiofsd, pipes, tasks of a runtime | spawn, drain, wait, finish | calls that block in async tasks, pipes that are full | all output is passed on; nothing outlives QEMU |
| default pool, uploads | `kit/libvirt/{run,upload}.rs`, `kit/libvirt_upload_disk.rs` | the pool's state, volumes | ask, define, start; delete, create, fill | several first commands, a process killed between two calls | an active pool; a volume that is found is filled |
| what surrounds a domain | `kit/libvirt/{run,secureboot,rm,rm_all,ssh}.rs` | OVMF variables, Ignition config, port, keypair | write, find by name, remove one by one | files of an earlier VM of the name; a port somebody else has got | a VM runs with its own files, a session is with its own guest |
| domain XML and firmware | `kit/libvirt/{run,domain,secureboot}.rs` | none | options to XML | the same thing under several names, numbered in several functions | the guest gets what was asked for, libvirt can start it |
| container configuration | `kit/run_ephemeral.rs`, `kit/kernel.rs`, `kit/cpio.rs`, `bcvk-qemu/src/qemu.rs` | none | options to podman, to boot files, to the command line of QEMU | a directory has six names, a pipe is numbered four times | the guest gets what was asked for |
| virsh runner | `kit/libvirt/{virsh,ssh,start,status}.rs`, `kit/utils.rs` | none | run, retry until a deadline, wait for SSH | retry against a deadline, while the daemon exits and starts | one exit of the daemon is not seen; nothing is executed twice |

The other parts (image lists, listings, varlink, command line, developer tools)
are thin wrappers. `PROJECT.json` lists each with the reason it is left out.

How they interact: `libvirt run` inspects the image (podman), finds or builds a
base disk (to-disk, which runs an ephemeral VM and waits for its SSH), clones it
into the pool, and defines and starts a domain (virsh). `rm`, `rm-all` and
`base-disks prune` take away what it made. The integration tests run all of it
in parallel, under the jobserver.

## Modules

| Module | Models | Extends |
|---|---|---|
| `StoragePool` | the pool: `base`, `temp`, `vmdisk` are the directory, `known` is libvirt's list, `meta` the xattr of each file | |
| `BaseDisks` | `base_disks.rs`: one action per system call or virsh command, with the locals of a command in `job[p]` and its place in the code in `pc[p]` | `StoragePool` |
| `LibvirtVms` | domains and the commands, guests that power off or pause, processes that are killed; the properties | `BaseDisks` |
| `AtomicCache` | what the cache promises: each image has no, a stale or a complete base disk, one step publishes it, and only a complete one is cloned | |
| `LibvirtVmsProofs` | proofs | `LibvirtVms` |
| `MCLibvirtVms` | instances for TLC | `LibvirtVms` |
| `Jobserver` | the pipe of tokens, `acquire` read by read, `require_root` around the VM | |
| `VmBudget` | what the jobserver promises: all tokens of a VM at once, each to one test | |
| `JobserverProofs`, `MCJobserver` | proofs, instances | `Jobserver` |
| `EphemeralVm` | the container: the entrypoint's main task in `main`, its tasks and threads, QEMU and the guest, the status file | |
| `EphemeralSsh` | the host: `ephemeral run`, `run-ssh`, `to-disk`; the composition of both, and the properties | `EphemeralVm` |
| `EphemeralLease` | what a command that works in a VM promises: it enters after sshd has answered, and the VM goes with it | |
| `EphemeralProofs`, `MCEphemeral` | proofs, instances | `EphemeralSsh` |
| `DefaultPool` | `ensure_default_pool` call by call, and the two uploads | |
| `DomainSetup` | run, rm, rm-all, start, ssh and the files, ports and keypairs around a domain; the composition with the pool | `DefaultPool` |
| `DomainSetupProofs`, `MCDomainSetup` | proofs, instance | `DomainSetup` |
| `VirshSession` | the calls of virsh of a command, their retry, and the wait for SSH, in time | |
| `VirshSessionProofs`, `MCVirshSession` | proofs, instance | `VirshSession` |
| `GuestCredentials` | systemd credentials, names of mount units, and what systemd in the guest makes of them | |
| `GuestCredentialProofs` | lemmas about sequences, credentials and names of units | `GuestCredentials` |
| `VmConfig` | `libvirt run`: from options to the XML of the domain | `GuestCredentials` |
| `VmConfigProofs`, `MCVmConfig` | proofs, instance | `VmConfig` |
| `EphemeralConfig` | `ephemeral run`: from options to podman, boot files, credentials and QEMU | `GuestCredentials` |
| `EphemeralConfigProofs`, `MCEphemeralConfig` | proofs, instance | `EphemeralConfig` |

### Storage pool, cache and VMs

A file is an inode number, so that a file that is replaced under its name is
another file: `base[k]` is the inode of the base disk of image `k`, 0 if there
is none. A VM's disk remembers the name of its backing file, which is what
qcow2 stores, and the inode that the name stood for, which is what its contents
depend on. `meta[i]` is the image that the xattr of inode `i` names. Images are
keys: the digest and the install options that go into the name of the base disk
and into the cache hash. `tag` is the image that the user's tag names now;
`Retag` moves it at any moment, so the second inspect of `write_disk_metadata`
may see another image than the one that was installed.

The install (`to_disk::run`, minutes of an ephemeral VM) is one step that fills
the temporary file, writes the metadata or fails to, or fails. Each error path
of `create_base_disk` removes the temporary file. `CreateTemp` takes a name that
no process uses, as `tempfile` does. Processes that are killed leave everything
as it is, except in memory.

A persistent domain opens the VM's own overlay. A transient one has the base
disk itself in its XML, under an overlay that QEMU keeps outside the pool, and
vanishes when it stops. `rm` and `rm-all` are modelled with `--force`; without
it they only print or ask. Confirmation, dry runs and listings change nothing.
Errors of virsh are modelled where they have a cause in the modelled state (a
name in use, a domain that has gone, a volume libvirt does not list), where the
code handles them, and for the refresh of the pool. A domain that is running or
paused may lose its QEMU at any moment: the guest powers off, somebody destroys
it, the host restarts. `failed` of a domain is history: `rm` or `rm-all` has
taken its disk and ended in an error, as the undefine of a paused domain does.

`pinned` is history: the disks that existed when a prune listed the pool, and
have existed ever since.

### Jobserver

The bytes in the pipe are all alike. In the model each is a token of its own,
a piece of 128 MiB of the host, so that "these VMs share memory" is "these sets
intersect". A read takes what there is, at most what is asked for, as read(2)
does on a pipe; `read_exact` repeats it. Tests may need different numbers of tokens,
and a test may need more than there are. `Server(t)` is the pipe that test `t`
uses: the wrapper's when the tests were started by `--vm-jobserver`
(`Inherited`), else the one of its process. A VM may fail before or after it
starts, the removal of a libvirt VM may fail, and a test process may be killed,
which stops no VM and returns no token.

### Ephemeral VM

`main` is the entrypoint's place in `run_impl`, `RunningQemu::spawn` and `main`:
`begin` and `prepare` up to its first await, `virtiofsd` and `sleep` while it
looks for sockets, `launch`, `wait` in the blocking `Child::wait`, `copy` and
`drain` for the output, `finish`, then `return` with success or `unwind` with an
error. A label where the code awaits lets other things happen to the task (a
signal); one where it blocks does not. `Driven` says that a worker thread of the
runtime is free: `monitor_boot_progress` blocks the one it runs on.

Output is counted: `written[p]` and `copied[p]` are the units a guest has written
to port `p` and those that have been read, and a pipe holds `PipeSize`. The
drain tasks may read while QEMU runs, the copy of a command's output happens as
one step after QEMU has exited, since nothing else can happen to the task in
`join!` once the blocking wait is over.

The pipe of boot notifications ends when nobody holds its write end: `writer` is
the configuration of QEMU first, then the thread that serves the vsock, which
never ends. So `monitor` reads for ever, which only `shutdown_background` does
not mind.

The status file has the fields of `SupervisorStatus` and an mtime, which may be
the same for two writes. The status monitor is five steps, because the order of
the look at the mtime, the read and the wait for an event matters; `events` says
that inotify has something queued. Its lines and the result of the SSH poll go
into `chan`. On the host `host` is the place of the command. `to-disk` has a disk that is
`empty`, `full` after an install, `cached` once it has metadata.

Assumed: `podman rm -f` removes the container, podman ends with it, and writes
to the status file succeed after the first.

### What surrounds a domain

`LibvirtVms` is about the disk a VM shares with others; `DomainSetup` is about
what is its own. A file is the number of the `run` that wrote it (`disk`,
`fwvars`, `ign`; 0 is none) and a domain has the number of the run that defined
it, which stands for its keypair too. So a file that is left from an earlier VM
of the name can be told from the one the VM should have. `guest[v]` is what QEMU
has been started with. The pool is `none`, `inactive`, `active`, or `failed` once
libvirt has refused to start it, which the code reports when it has just defined
the pool and ignores when it has found it; each virsh
call of `ensure_default_pool` is a step (`job[p].next` says where its caller goes
on), since a process can be killed between pool-define and pool-start. A volume
of an upload is `none`, `empty`, `full`, or `spoilt` by a `vol-upload` that ended
half-way.
`find_available_ssh_port` looks at the port and lets it go; two VMs may be
given one port, and then the second does not start. `strays` is history: names
at which a run has failed or was killed, or whose domain has gone in another way
than by `rm`. Nothing keeps two commands off one name, so they meet here too, on
at most `MaxMeets` names; `shared` is history: the names on which they did. What
is promised of a VM's files is promised of the other names.

### virsh and the SSH wait

A command is a list of calls and waits (`Steps`). A call of virsh is an attempt,
which connects, runs and answers; a failure to connect is followed by a pause
and another attempt until the deadline. The daemon of a user's session is `up`
and exits when it has been idle, is `exiting` (connections are refused or reset),
`gone` (the client spawns one) or `starting`; two clients may spawn one at the
same time. What a failure says is modelled by the words that
`is_transient_connect_failure` goes by: the same end of a connection has other
words before libvirt has executed the command than after. Time is counted in
quarters of a second and passes from one event to the next, when nothing is due:
a step that is due is taken before time goes on, which bounds the time a step
takes. Nothing else makes the steps happen, so what the module says is safety.

### Configuration

`VmConfig` and `EphemeralConfig` have one process and no concurrency. What can go
wrong is that one thing is named and numbered in several functions. They start
with any of the requests and hosts (initial states), then each action is one
function or part of one, in the order of the code, which adds to the builder, the
credentials, the XML, the mounts, the command line; an error return leads to
`failed`. The properties compare the request with what the guest makes of the
result: `GuestCredentials` has systemd's part of it (which credential becomes
which unit, what a drop-in wants, how a path becomes a unit's name), and the
modules have QEMU's (which file two devices open, which descriptor a character
device has). Wording and syntax are left out; a path is a sequence of symbols as
far as escaping depends on it.

A directory of the host in `EphemeralConfig` is a mount of podman, a virtiofsd
with a socket, a character device, a tag and a mount unit. Its name is a path:
with `--bind DIR:a/b` podman makes a directory `a`, and the entrypoint, which
reads one directory and not the tree, shares that one; `DIR` is found in it at
`b`. Whether an entry is read-only is asked again in the container with
access(2), and reaches the unit from there. A pipe of the guest is a device, a character device, a member of an
fdset and a descriptor, counted from different numbers, and somebody reads it.

## Runs

Each run asks one question. Bounds are the constants of its `.cfg`.

| Run | Question | Bounds |
|---|---|---|
| `sequential` | Commands one after the other, any sequence: do base disks and VM disks stay consistent? | 1 process, 2 images, 2 VMs, 1 kill, 3 inodes, persistent VMs |
| `concurrent` | Two commands at the same time: is the cache atomic, are temporary files owned, does a prune spare the backing files of disks it has listed? | 2 processes, 1 image, 1 VM, persistent or transient, 3 inodes |
| `jobserver` | Tests that fail and are killed: is memory accounted for, who can get stuck, does everybody else end? | 3 tests, 2 processes, 5 tokens, needs of 2, 4 and 3, 1 kill |
| `ephemeral` | A VM under each command, with every failure, signals and a killed command: is output complete, readiness real, the container removed, does everything end? | 2 VMs (command and journal; notifications), 1 unit of output per port, 1 notification, 1 virtiofsd, 2 workers, 1 kill |
| `domain_setup` | Commands on VMs at the same time, with kills: is the pool active, are volumes filled, files and guests one's own, is nothing left? | 2 processes, 2 VMs, 1 name on which they meet, 1 image, 1 port, 2 keypairs, 1 kill; a VM with everything, a transient one with everything, one with nothing |
| `vm_config` | Does the domain have what was asked for, and can it start? | some hundred requests in which options that interact are varied together; 9 hosts |
| `ephemeral_config` | The same of the container, the boot files and QEMU | 189 requests, 150 hosts and images |
| `session` | Two commands, a daemon that exits, a guest that boots: does every command reach libvirt and its guest, is nothing executed twice? | 2 processes, at most 2 terminations of the daemon, 1 power-off, times at both sides of each limit |
| `install_race`, `transient_rm_all`, `token_deadlock`, `execute_output` | Four claims of the code's comments, docs and tests that it does not keep | the smallest that shows it |

Why the bounds are enough. Races over the cache need two processes and one image
they share; that a prune is not misled by a second image and a second VM, a disk
that is asked about and one that is not, is what `MCPrune.cfg` checks, which is
kept beside the runs. Three inodes are a base disk, the one that replaces it and
one in the making, enough for a disk to be
cloned from a file that is replaced later. The proofs below remove the bounds
for the properties that matter most. The jobserver's needs are all different and
5 tokens are no multiple of any, so that waiting tests do hold parts: the tests
of 4 and 3 tokens get stuck once the one of 2 has ended. Tests
that share a process die together. An ephemeral VM's tasks for the two journal streams
are alike, so one stream stands for both; a port with one unit can be empty,
full and read late; one notification is enough for readiness that is announced
too early. `run-ssh`'s and `to-disk`'s waits see any interleaving of that status
with the poll, the timeout and the end of the container. More than one unit
than a pipe holds needs the run `execute_output`.

One port in `domain_setup` makes every second VM get a port that is taken, or
that another has had; two keypairs are the two VMs, or two VMs of one name. The
run without options shows that nothing is written that was not asked for. In the
configurations a list has no, one or two entries: with two, the second index and
the second list are reached, and a third would be treated as the second. The
times in `session` put an event just before and just after a limit (the guest
comes up at 54, 55 and 170 seconds, for waits of 60 and 180), and leave the
daemon exiting for a moment or for half of the retry's minute.

Deadlock is checked in `sequential`, `concurrent` and `session`. In the
others it is not: a model of commands ends when its bounds are used up,
and the tests of the jobserver end or get stuck. `StuckOnlyBySize` and `EveryTestEnds` say of the
jobserver what deadlock checking would, `VmOverEnds` and `CommandEnds` of the
ephemeral VM.

### Properties

- `CacheIsAtomic` (refinement of `AtomicCache`): the promise of the temporary
  file and the rename. `CacheInv` is why.
- `PruneSparesPinned`, `PruneInv`: prune reads references disk by disk while
  others change them, and is still right about every disk it listed.
- `TempsOwned`: unless a process is killed, no error path leaks a temporary file.
- `BackingIntact`, `DefinedCanStart`, `NameReusable`, `BasesOnlyPruned`,
  `DisksOnlyRemovedWithVm`: of commands in sequence. The violation runs show
  which of them concurrency breaks. `DefinedCanStart` excepts a domain whose
  removal has failed: `rm` and `rm-all` remove the disk first, and the undefine
  of a paused domain fails. What it says is that no user is left with such a
  domain who has not seen that error.
- `TokenInv`, `VmsBacked`, `JobserverIsBudget`: of the jobserver's tokens.
- `StuckOnlyBySize`, `EnoughLeft`, `EveryTestEnds`: tests of different sizes can
  be left with a part of their tokens each, and then wait for ever; nothing else
  keeps a test from its tokens. `Outgrows` is the condition: a test that waits
  with a part needs more than a test that has ended and returned its own. With
  tests of one size, and a budget that is enough for one, it never holds.
- `OutputComplete`: an entrypoint that returns success has read all output.
- `VmOverEnds`: once QEMU has gone the container ends, except where `MCErrorExit.cfg`
  shows that it does not.
- `SessionNeedsSsh`: a session never starts before sshd listens on TCP, whatever
  the status file says.
- `MonitorCurrent`: no lost wake-up between the file and its inotify events.
- `DiskComplete`: only a disk that is complete and closed gets the metadata that
  makes it reusable.
- `LeaseKept` (refinement of `EphemeralLease`) and `CommandEnds`: of the
  commands.
- `PoolReady`: who has been told the pool's path finds it active, or refused by
  libvirt, whoever was
  killed at making it; only who has lost the race of pool-define may be early.
- `VolumeComplete`: a volume that has been created is being filled, however many
  uploads of its image meet; only one that ends half-way leaves it not whole.
- `OwnFiles`, `NothingLeft`: a VM boots with the variables and the config of its
  own run; what `rm` removes, in its order, is everything there is. Names on
  which two commands have met are excepted, as nothing locks a name.
- `OwnGuest`: a port of a VM that has gone may be another VM's by the time of the
  session; the keypair tells them apart.
- `GuestServesRequest`, `DomainStarts`, `FirmwareAgrees`, `MetadataTrue`: of the
  domain. `MountsAsAsked`, `DevicesServed`, `BootsOneArtifact`: of the container.
  Files are tested for emptiness before the bootconfig is taken off, so that an
  initramfs that is nothing else boots with the appended units alone;
  `BootsOneArtifact` says that what the image has is there, not that it is
  enough.
- `RetriesOnlyUnstarted`: no command is repeated that libvirt has executed.
- `CommandsReach`: one exit of the daemon, whenever and however long, is not
  seen; a guest that comes up in time gets its session. `Excused` has everything
  else a command may fail for. Its conditions are as tight as TLC allows: two
  exits in a row can take longer than the retry's minute; a guest must be up a
  test and a pause before the end of the wait, since the last pause of
  `wait_for_readiness` is not followed by a test. As `start --ssh` lets each
  test take 30 seconds, its 60 seconds may miss a guest that is up after 29.

Every property of a passing run has a mutant in `PROJECT.json`: a definition
with a plausible bug in it, under which TLC finds the property violated.

### Fairness

The libvirt models and the configurations are checked for safety only, so
`LibvirtVms`, `DomainSetup`, `VirshSession`, `VmConfig` and `EphemeralConfig`
assume none. In
`EphemeralSsh`, `FairSpec` has weak fairness of each task and thread that can
run, of the host's command, and of the clock. A guest that is to run a command
boots, runs it and powers off; a guest that is not may run for ever. SSH need
never answer, sshd need never start, and nothing makes a VM fail or a
process be killed. In
`Jobserver`, `FairSpec` has weak fairness of each test's steps: the kernel runs
a thread that can run, a read of a pipe that has bytes returns, the waits for
SSH have timeouts, and the test in the guest is taken to end. Nothing makes a
process be killed or a VM fail.

## What is proved

TLAPS checks these for every value of the constants (any number of processes,
images, VMs, files, kills, tests, tokens, mounts, units of output,
notifications and workers; any options, hosts and images).

| Theorem | Module | Says |
|---|---|---|
| `TypeCorrect` | `LibvirtVmsProofs` | `Spec => []TypeOK` |
| `CacheInvariant` | `LibvirtVmsProofs` | `Spec => []CacheInv` |
| `CacheRefinement` | `LibvirtVmsProofs` | `Spec => CacheIsAtomic` |
| `TempsAccounted` | `LibvirtVmsProofs` | `Spec => []TempsOwned` |
| `PruneInvariant`, `PruneSafe` | `LibvirtVmsProofs` | `Spec => []PruneInv`, `Spec => []PruneSparesPinned` |
| `BackingKept`, `DefinedStarts`, `NameFree` | `LibvirtVmsProofs` | `OneAtATime` gives `Spec => []P` for `BackingIntact`, `DefinedCanStart`, `NameReusable` |
| `BasesKept`, `DisksStay` | `LibvirtVmsProofs` | `OneAtATime` gives `Spec => P` for `BasesOnlyPruned`, `DisksOnlyRemovedWithVm` |
| `TokenInvariant` | `JobserverProofs` | `Spec => []TokenInv` |
| `VmsOnOwnMemory` | `JobserverProofs` | `Inherited` gives `Spec => []VmsBacked` |
| `EnoughInvariant`, `StuckBySize` | `JobserverProofs` | `Spec => []EnoughLeft`, `Spec => []StuckOnlyBySize` |
| `BudgetRefinement` | `JobserverProofs` | `Inherited` gives `Spec => JobserverIsBudget` |
| `TypeCorrect` | `EphemeralProofs` | `Spec => []TypeOK` |
| `AllOutput`, `SessionSafe`, `NoLostWakeup`, `DiskSafe` | `EphemeralProofs` | `Spec => []P` for `OutputComplete`, `SessionNeedsSsh`, `MonitorCurrent`, `DiskComplete` |
| `LeaseRefinement` | `EphemeralProofs` | `Spec => LeaseKept` |
| `TypeCorrect` | `DomainSetupProofs` | `Spec => []TypeOK` |
| `PoolRepaired`, `VolumesFilled` | `DomainSetupProofs` | `Spec => []P` for `PoolReady`, `VolumeComplete` |
| `FilesOwn`, `FilesOwned`, `GuestOwn` | `DomainSetupProofs` | `Spec => []P` for `OwnFiles`, `NothingLeft`, `OwnGuest` |
| `RetrySafe` | `VirshSessionProofs` | `Spec => []RetriesOnlyUnstarted` |
| `FirmwareCorrect` | `VmConfigProofs` | `Spec => []FirmwareAgrees` |
| `GuestCorrect`, `DomainCorrect`, `MetadataCorrect` | `VmConfigProofs` | `Apart` of every request gives `Spec => []P` for `GuestServesRequest`, `DomainStarts`, `MetadataTrue` |
| `EphemeralConfigInvariant` | `EphemeralConfigProofs` | `Spec => []IInv` |
| `BootCorrect` | `EphemeralConfigProofs` | `Spec => []BootsOneArtifact` |
| `MountsCorrect` | `EphemeralConfigProofs` | `Unnested` of every request gives `Spec => []MountsAsAsked` |
| `DevicesCorrect` | `EphemeralConfigProofs` | `Apart` of every request gives `Spec => []DevicesServed` |

The assumptions are the named ASSUMEs of the modules, which TLC evaluates in the
runs, and `Inherited`, `OneAtATime`, `Apart` and `Unnested` where a theorem names
them.
Without `Inherited` (`cargo test` without `--vm-jobserver`, where each forked
test makes a jobserver of its own) TLC refutes `VmsBacked`. `OneAtATime` is one process, which
gives commands one after the other and may be killed in any of them, with
persistent VMs whose names do not start with `bootc-base-`. With two processes
TLC refutes `BackingIntact` (`MCInstallRace.cfg`) and `DisksOnlyRemovedWithVm`
(`MCNameRace.cfg`); with transient VMs `rm-all` removes a base disk
(`MCTransientRmAll.cfg`).

`InputAssumption` of the two configurations says what a parsed command line and
a host are: fields of the right kind, and lists of any length with any entries.
The name of a directory is a path of components that are not empty, `.` or `..`
and have no colon, after which podman reads options.
A guest path or the name of a directory has no symbol `\x2d`: the
code escapes a dash as those four characters and leaves a backslash alone, so a
path with the four characters in it has the unit name of another path, and
injectivity of unit names, which the proofs need, would be false. `Apart` is what the user must
not do because the code does not reject it: in `VmConfig` give two filesystems
one tag, two mounts one path, two forwarded ports one number, or one of those
that `run` takes itself; in `EphemeralConfig` name a disk `swap` or `ignition`
when there is one of `run`'s own. `Unnested` is that no directory is bound below
another one: below one that is read-only it comes out read-only, whatever was
asked for. TLC evaluates both for the requests of the runs.
Directories with one name need no assumption in `EphemeralConfig`, since podman
refuses the second.

The arguments:

- *Types.* `TypeOK` is not inductive: the locals of a command matter only at
  some points of it. `TypeInv` adds `LocalOK`, which says of each label which
  locals are set.
- *Cache.* `CacheInv` says that no two processes build in one file, that no
  published file is being built in, that a validated file stays right until it
  is renamed, and that a checked key does not turn stale again. With `TypeInv`
  it is inductive. Every step of the code then is a step of `AtomicCache` or
  leaves its variables alone: the rename publishes, the clone reads.
- *Prune.* A disk a prune listed either is still to be asked, or has said no,
  and what it said stays true, since an overlay never changes its backing file
  while it exists.
- *Temporary files.* A file of the pool directory that exists is the `tmp` of a
  process at work on it. A process leaves the three labels of the install only
  with the file gone or renamed, and a new file is one that does not exist.
- *One command at a time.* `SerialInv` ties what a command has noted to what is
  still there. The inode of a disk's backing file is that of its base disk, which
  has the metadata of the disk's image; so a base disk that is stale, or absent
  and to be installed, has no disk on it. The disks a prune has listed are all
  the disks. A domain that is not running when `rm` asks does not run later,
  and rm-all asks once for each. A domain without its disk is about to be
  undefined, or its removal has failed. It is inductive with `TypeInv`, `CacheInv` and `PruneInv`.
- *Tokens.* `TokenInv` has what a test holds at each point. Whoever returns a
  permit leaves as many tokens as it needed, so a test that is no larger finds
  enough; one that is left short has emptied the pipe, and is larger than a test
  that has ended, or somebody else has a permit. That is `EnoughLeft`, which is
  inductive with `TokenInv`, and `StuckOnlyBySize` is what it says of an empty
  pipe.

- *Ephemeral VM.* The types need that a socket is only counted down while there
  is one left. The rest needs `PlaceInv` (QEMU only runs while the main task
  waits for it, and once it is gone it never comes back), `PortInv` (a drain that
  is done has read all, and no guest writes any more) and `HostInv` (an answer of
  SSH came from a sshd that still listens or whose guest has gone; a command
  past its clean-up has no container). Each is inductive given the others and
  was first checked by TLC.
- *Around a domain.* `IInv` has a part for each process (`ProcOK`: what a run
  has written so far, what `rm` has yet to remove) and one for each VM (`VmOK`:
  the files a domain names are those of its run), if no two commands have met on
  it. On the other names no two processes work on one VM
  (`Exclusive`), so a step leaves the parts of all others alone: `Frame` says so
  once for every action, and each action is only looked at for its own process
  and its own VM. `Owns(g, v)` says that keypair `g` is known for `v`; a step gives
  nobody a keypair of another VM (`GenInv`), which is why a session cannot be
  with another guest. The pool is never taken away, and while it is inactive
  and nobody has failed to start it, somebody is about to or was killed (`PoolInv`).
- *Retry.* The invariant `RetryInv` ties three things: a process is in `ran` only
  while it waits for the answer, an answer of libvirt is none of the words the
  retry goes by, and so who leaves for a pause was never executed.

- *Configurations.* The parts run in one order, so the invariant (`IInv` in both
  modules) has for each variable what it holds once the part that sets it is
  done, as an expression in the options and the host: `VmConfig`'s filesystems,
  credentials and arguments, `EphemeralConfig`'s volumes, block devices, ports
  and, for some order of the shared directories, everything that is made of
  them. It is inductive part by part. What is left is no longer about steps but
  about that one XML or command line. Lists are concatenations (`ConcatIs`,
  `ConcatPair`), and of a property such as "no name twice" it is shown that a
  concatenation has it if both halves have it and their names are different
  (`ConcatKeyed` for credentials, `ConcatPart` for the command line, whose
  ten parts have names of different kinds). Names of units are injective in
  guest paths (`UnitNameInjective`) and no service has the name of a mount
  (`UnitNameApart`). So the guest receives every credential, an identifier on
  the command line has one thing behind it, and each chain of names
  is followed from the guest back to the option it came from. A directory bound
  below an entry of `/run/host-mounts` is found through the entry: the names of
  volumes are different, and none is below another. That two things
  do not share a volume, a disk or a tag is what podman has made sure of.
- *Boot.* `find_kernel` returns the only candidate of the first place that has
  one, so no other artifact precedes it; what `Extract` and `AppendUnits` write
  stays.

Only model-checked: `CommandsReach`, whose proof would be
arithmetic on every path through the retry; and all liveness (`EveryTestEnds`,
`VmOverEnds`, `CommandEnds`), as liveness under fairness and ENABLED are out of
the prover's reach. So are induction over data and recursive operators, which
these modules do without.

## Findings

Runs that TLC must find violated, each quoted with its line in `PROJECT.json`:

1. `install_race`: two runs of an image that is not cached both install it, and
   the slower rename replaces the backing file of a VM disk.
2. `transient_rm_all`: removing a transient VM removes the shared base disk.
3. `token_deadlock`: two tests can each hold a part of the tokens they need and
   wait for each other for ever.
4. `execute_output`: the output of `--execute` is only read after QEMU has
   exited; a command that writes more than a pipe holds blocks for ever.

More configurations are kept beside the runs. All but `MCPrune.cfg`, which passes,
have a counterexample. `tlc -config <cfg> <module>` gives:

| Configuration | Module | Shows |
|---|---|---|
| `MCNameRace.cfg` | `MCLibvirtVms` | a second run of the same name deletes the first one's disk (`libvirt/run.rs:447`) |
| `MCSameName.cfg` | `MCDomainSetup` | two runs of one name write each other's OVMF variables or Ignition config (`libvirt/run.rs:447`) |
| `MCPrune.cfg` | `MCLibvirtVms` | the two properties of prune with two images and two VMs |
| `MCErrorExit.cfg` | `MCEphemeral` | with boot notifications an entrypoint that fails never exits: the runtime it drops waits for a blocking read (`kit/main.rs:368`) |
| `MCSignal.cfg` | `MCEphemeral` | the entrypoint catches SIGTERM and does nothing about it while QEMU runs (`kit/container_entrypoint.rs:91`) |
| `MCInitrdJournal.cfg` | `MCEphemeralConfig` | for a systemd before 256 the journal units are not in the initramfs they are to be copied from (`kit/cpio.rs:77`, `units/bcvk-copy-units.service:11`) |
| `MCIgnitionArch.cfg` | `MCVmConfig` | `--ignition` fails on an architecture its man page names |

`BaseNamed` holds the VMs whose names start with `bootc-base-`; prune takes
their disks for base disks. The runs leave it empty.

What the models show beside, and no run states, as nothing in the repository says
otherwise: an unreachable daemon is reported as a domain that is not found;
`status` does not take `--connect` into account; an interactive `ssh` replaces
the process and leaves the temporary file with the key; whoever loses the race of
pool-define may fail on a pool that is not started yet; `rm-all` leaves the
Ignition config; a transient VM leaves its OVMF variables.

## Not modelled

- Podman's labels and other flags, DNS, bind mounts of the host's systemd units
  (`inject_systemd_units`), the varlink service, the command line, the developer
  tools: wrappers without state.
- Listings (`list`, `inspect`, `list-volumes`, `images`): they print.
- `rm` and `rm-all` without `--force`, dry runs: they only ask or print.
- The syntax of XML, JSON, cpio archives and units, and their parsers.
- Sizes: `parse_size` multiplies without a check, but no state depends on it.
- Names that collide because the user chose them so: a raw volume with a tag of
  the form bcvk generates, two directories for one guest path, a guest path with
  doubled or trailing slashes, a forwarded port that is the SSH port, a journal
  file that is also the console log, a disk named `swap`, a comma in a disk's
  name, `\x2d` in the name of a mount, a directory bound below another, options
  of podman after a name. The instances leave these out, and the
  theorems where they depend on it; the code does not check for them.
- `--mount-disk-file` with a new file named `.qcow2` (it is created raw);
  `--network host`, which shares one port.
- Options that have no effect in the code: `--virtio-serial-out` of `ephemeral`,
  `--network` and `--detach` of `libvirt run`, `--keep-temp` of the upload.

## Plan

In this order.

1. `StoragePool`, `BaseDisks`, `LibvirtVms`, `AtomicCache` and their proofs. Done.
2. `Jobserver`, `VmBudget` and their proofs. Done.
3. `EphemeralVm`, `EphemeralSsh`, `EphemeralLease` and their proofs. Done.
4. `DefaultPool`, `DomainSetup` and their proofs. Done.
5. `VirshSession` and the proof of `RetriesOnlyUnstarted`. Done.
6. `GuestCredentials`, `VmConfig`, `EphemeralConfig` and their proofs. Done.
7. Proofs of `TempsOwned` and `EnoughLeft`, and of the properties of commands
   given one after the other. Done.
8. Tests of different sizes, a pool that does not start, commands that meet on
   one name, guests that are lost while paused, names of several components. Done.
9. `stop` with fairness of guests, the flush of the journal's last line.
