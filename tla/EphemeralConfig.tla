-------------------------- MODULE EphemeralConfig --------------------------
(***************************************************************************)
(* What `bcvk ephemeral run` makes of its options: the podman container    *)
(* (prepare_run_command_with_temp), in it the boot files, the credentials, *)
(* the virtiofsd instances and the QEMU configuration (run_impl), and the  *)
(* command line of QEMU (qemu.rs).  One VM is modelled, one action per     *)
(* part, from the options to the start of QEMU; an error return leads to   *)
(* "failed".  EphemeralVm models what the parts do while the VM runs.      *)
(*                                                                         *)
(* A directory of the host is shared in five steps, each with a name of    *)
(* its own: a mount of podman, a virtiofsd with its socket, a character    *)
(* device, a tag, and a mount unit.  A port of the guest is drained in as  *)
(* many: a device, a character device, an fdset, a descriptor, a reader.   *)
(***************************************************************************)
EXTENDS GuestCredentials, FiniteSetsExt

CONSTANTS
  Requests,  \* the command lines, records like Plain
  Hosts,     \* host, image and guest, records like PlainHost
  None,      \* Option::None
  MaxCid     \* bound: the last vsock CID that is tried

VARIABLES
  pc,        \* the part that is next
  req,       \* RunEphemeralOpts
  host,      \* what is found on the host and in the image
  files,     \* the disk files of the host, with the format of their content
  mounts,    \* the -v options of podman
  env,       \* BOOTC_DISK_FILES, BCVK_JOURNAL_FDS, BCVK_CONSOLE_PATH
  boot,      \* /run/qemu/kernel and /run/qemu/initramfs
  creds,     \* mount_unit_smbios_creds
  config,    \* the QemuConfig
  readers,   \* who reads which pipe, and where its lines go
  argv       \* the command line of QEMU

vars == <<pc, req, host, files, mounts, env, boot, creds, config, readers, argv>>

\* The options of a `run` that asks for nothing.
Plain ==
  [disks |-> <<>>, storage |-> FALSE, rw |-> <<>>, ro |-> <<>>, ignition |-> None,
   journal |-> FALSE, consoleLog |-> FALSE, output |-> "console",
   execute |-> FALSE, ssh |-> FALSE, swap |-> FALSE, console |-> FALSE,
   memory |-> 4096, vcpus |-> 2]

\* The directories say whether they are one and whether they are writable, the
\* image holds boot artifacts.
PlainHost ==
  [arch |-> "x86_64", qemu |-> 10, files |-> << >>, dirs |-> << >>, storage |-> None,
   labels |-> << >>, kvm |-> TRUE, vsock |-> TRUE, cids |-> {}, systemd |-> 257,
   cloudInit |-> FALSE, readonlyFlag |-> TRUE, tools |-> TRUE, image |-> {}]

Streams == req.output = "journal" \/ req.journal

-----------------------------------------------------------------------------
(* What a command line and a host are.                                     *)

\* The name of a bind is a path of components, each a sequence of symbols: what
\* follows a colon is an option of podman, and no component is empty, "." or "..".
NameOk(name) ==
  /\ IsSeq(name) /\ name # <<>>
  /\ \A c \in Range(name) : /\ IsSeq(c) /\ c \notin {<<>>, <<".">>, <<".", ".">>}
                            /\ Range(c) \cap {"/", ":", "\\x2d"} = {}

RequestOk(r) ==
  /\ DOMAIN r = DOMAIN Plain
  /\ \A s \in {r.disks, r.rw, r.ro} : IsSeq(s)
  /\ \A b \in Range(r.rw) \cup Range(r.ro) : NameOk(b.name)

\* The two halves of a boot artifact belong together.
HostOk(h) ==
  /\ IsFiniteSet(h.image)
  /\ \A a \in h.image :
       /\ a.at \in {"aboot", "esp", "modules", "version"}
       /\ DOMAIN a.kernel = {"of", "zstd", "size"} /\ a.kernel.size \in Nat
       /\ a.initramfs # None =>
            /\ DOMAIN a.initramfs = {"of", "size", "trailer"}
            /\ a.initramfs.of = a.kernel.of
            /\ a.initramfs.size \in Nat /\ a.initramfs.trailer \in Nat

ASSUME InputAssumption ==
  (\A r \in Requests : RequestOk(r)) /\ (\A h \in Hosts : HostOk(h))

-----------------------------------------------------------------------------
(* The host: prepare_run_command_with_temp.                                *)

Init ==
  /\ pc = "ignition"
  /\ req \in Requests
  /\ host \in Hosts
  /\ files = host.files
  /\ mounts = <<>>
  /\ env = [disks |-> <<>>, journal |-> <<>>, console |-> None]
  /\ boot = None
  /\ creds = <<>>
  /\ config = None
  /\ readers = <<>>
  /\ argv = <<>>

Unchanged(rest) == UNCHANGED <<req, host, rest>>
Fail == /\ pc' = "failed"
        /\ UNCHANGED <<req, host, files, mounts, env, boot, creds, config, readers,
                       argv>>

CheckIgnition ==
  /\ pc = "ignition"
  /\ IF req.ignition # None /\ ~SupportsIgnition(host.labels) THEN Fail
     ELSE /\ pc' = "disks"
          /\ Unchanged(<<files, mounts, env, boot, creds, config, readers, argv>>)

DiskName(spec) == IF spec.name = None THEN "output" ELSE spec.name
DiskFormat(spec) ==
  CASE spec.format # None -> spec.format
    [] spec.format = None /\ spec.qcow2Named -> "qcow2"
    [] OTHER -> "raw"
DiskPath(spec) == <<"disk-files", DiskName(spec)>>

\* A file that is not there is created, sparse, whatever its format.
ProcessDisks ==
  LET asked == Range(req.disks)
      bad(spec) == \/ DiskFormat(spec) \notin {"raw", "qcow2"}
                   \/ spec.file \in DOMAIN files /\ files[spec.file] = "directory"
      new == {spec.file : spec \in asked} \ DOMAIN files
  IN  /\ pc = "disks"
      /\ IF \E spec \in asked : bad(spec) THEN Fail
         ELSE /\ pc' = "binds"
              /\ files' = [f \in DOMAIN files \cup new |->
                            IF f \in new THEN "raw" ELSE files[f]]
              /\ env' = [env EXCEPT !.disks = [i \in DOMAIN req.disks |->
                          [file |-> DiskPath(req.disks[i]),
                           serial |-> DiskName(req.disks[i]),
                           format |-> DiskFormat(req.disks[i])]]]
              /\ Unchanged(<<mounts, boot, creds, config, readers, argv>>)

StorageValid == host.storage # None /\ host.storage \in DOMAIN host.dirs
StorageName == <<<<"hoststorage">>>>
Volume(from, to, ro) == [from |-> from, to |-> to, ro |-> ro]
BindVolumes(binds, ro) ==
  [i \in DOMAIN binds |->
     Volume(binds[i].dir, <<"host-mounts">> \o binds[i].name, ro)]

HostMounts ==
  /\ pc = "binds"
  /\ IF \/ req.storage /\ ~StorageValid
        \/ req.ignition # None /\ req.ignition \notin DOMAIN files THEN Fail
     ELSE /\ pc' = "podman"
          /\ mounts' =
               (IF req.storage
                THEN <<Volume(host.storage, <<"host-mounts">> \o StorageName, TRUE)>>
                ELSE <<>>)
               \o BindVolumes(req.rw, FALSE) \o BindVolumes(req.ro, TRUE)
               \o [i \in DOMAIN req.disks |->
                     Volume(req.disks[i].file, DiskPath(req.disks[i]), FALSE)]
               \o (IF req.ignition = None THEN <<>>
                   ELSE <<Volume(req.ignition, <<"ignition">>, TRUE)>>)
          /\ env' = [env EXCEPT
               !.journal = IF req.journal
                           THEN <<"journal.json", "journal-initrd.json">> ELSE <<>>,
               !.console = IF req.consoleLog THEN "console.txt" ELSE None]
          /\ Unchanged(<<files, boot, creds, config, readers, argv>>)

\* podman refuses a volume whose source is missing, and two with one target.
Podman ==
  LET there(v) == v.from \in DOMAIN files \/ v.from \in DOMAIN host.dirs
  IN  /\ pc = "podman"
      /\ IF \/ \E v \in Range(mounts) : ~there(v)
            \/ \E i, j \in DOMAIN mounts : i # j /\ mounts[i].to = mounts[j].to
         THEN Fail
         ELSE /\ pc' = "kernel"
              /\ Unchanged(<<files, mounts, env, boot, creds, config, readers, argv>>)

-----------------------------------------------------------------------------
(* The container: run_impl.  A boot artifact is a Unified Kernel Image, an *)
(* Android boot image, something else with the name of one, or a pair of   *)
(* files next to the modules; `kernel` and `initramfs` are what it holds.  *)

Artifacts(places) == {a \in host.image : a.at \in places}

\* A kernel without its initramfs next to the modules is not one.
Traditional == {a \in Artifacts({"version"}) : a.initramfs # None}

\* The candidates of the place that comes first.
Candidates ==
  CASE Artifacts({"aboot"}) # {} -> Artifacts({"aboot"})
    [] Artifacts({"aboot"}) = {} /\ Artifacts({"esp", "modules"}) # {} ->
         Artifacts({"esp", "modules"})
    [] OTHER -> Traditional

FindKernel ==
  IF Cardinality(Candidates) # 1 \/ \E a \in Candidates : a.kind = "other" THEN None
  ELSE CHOOSE a \in Candidates : TRUE

\* A zstd zboot kernel is unpacked for a QEMU that cannot do it.
QemuSupportsZstd == host.qemu # None /\ host.qemu >= 11
MustUnzip(kernel) == host.arch = "aarch64" /\ kernel.zstd /\ ~QemuSupportsZstd

\* The files are looked at before the bootconfig trailer goes: an initramfs that
\* is nothing else passes, and is empty afterwards.
Extractable(a) ==
  /\ a.initramfs # None
  /\ a.kind \in {"uki", "android"} => host.tools
  /\ MustUnzip(a.kernel) => host.tools
  /\ a.kernel.size > 0 /\ a.initramfs.size + a.initramfs.trailer > 0
  /\ a.initramfs.trailer > 0 => host.tools

Extract ==
  LET a == FindKernel
  IN  /\ pc = "kernel"
      /\ IF ~host.kvm \/ a = None THEN Fail
         ELSE IF ~Extractable(a) THEN Fail
         ELSE /\ pc' = "units"
              /\ boot' = [kernel |-> [a.kernel EXCEPT !.zstd = @ /\ ~MustUnzip(a.kernel)],
                          initramfs |-> a.initramfs, unitsAt |-> None]
              /\ Unchanged(<<files, mounts, env, creds, config, readers, argv>>)

RoundUp(n) == ((n + 3) \div 4) * 4

\* Mutant: the archive starts where the file ends.
AppendUnaligned ==
  /\ pc = "units"
  /\ pc' = "mounts"
  /\ boot' = [boot EXCEPT !.initramfs.trailer = 0, !.unitsAt = boot.initramfs.size]
  /\ Unchanged(<<files, mounts, env, creds, config, readers, argv>>)

\* The bootconfig trailer goes, then padding and the archive are appended.
AppendUnits ==
  /\ pc = "units"
  /\ pc' = "mounts"
  /\ boot' = [boot EXCEPT !.initramfs.trailer = 0,
                          !.unitsAt = RoundUp(boot.initramfs.size)]
  /\ Unchanged(<<files, mounts, env, creds, config, readers, argv>>)

\* The units of the archive that stream the journal.
Embedded == {JournalService}

\* access(2): a volume of podman, and what is behind it.
IsReadonly(v) == v.ro \/ ~host.dirs[v.from].writable

MountPoint(name) == <<"/", "run", "/", "virtiofs", "-", "mnt", "-">> \o name
MountTag(name) == <<"mount_">> \o name
Socket(name) == <<"virtiofs-">> \o name \o <<".sock">>

\* An entry of /run/host-mounts is a volume, or a directory podman made on the
\* way to volumes below it; such a one can be written.
At(n) == <<"host-mounts", n>>
EntryReadonly(n) == \E v \in Range(mounts) : v.to = At(n) /\ IsReadonly(v)

\* The virtiofsd of an entry, its tag and its unit.
Shared(n) ==
  [daemon |-> [socket |-> Socket(n), shared |-> At(n), readonly |-> EntryReadonly(n)],
   tag |-> MountTag(n),
   unit |-> MountUnit(MountTag(n), MountPoint(n), EntryReadonly(n))]

Orders(set) == {s \in [1..Cardinality(set) -> set] : Range(s) = set}

NewConfig ==
  [daemons |-> <<>>, mounts |-> <<>>, fdset |-> <<>>, serial |-> <<>>, blk |-> <<>>,
   smbios |-> <<>>, fwCfg |-> <<>>, cmdline |-> {}, hostfwd |-> <<>>,
   console |-> FALSE, serialLog |-> None, vsock |-> FALSE, notify |-> FALSE]

\* The directory is read in any order, and only its own entries are.
PrepareMounts ==
  /\ pc = "mounts"
  /\ pc' = "services"
  /\ \E entries \in Orders({v.to[2] : v \in {v \in Range(mounts) :
                                               Head(v.to) = "host-mounts"}}) :
       LET shared == [i \in DOMAIN entries |-> Shared(entries[i])]
           names == {shared[i].unit.name : i \in DOMAIN shared}
       IN  /\ config' = [NewConfig EXCEPT
                !.daemons = [i \in DOMAIN shared |-> shared[i].daemon],
                !.mounts = [i \in DOMAIN shared |->
                  [socket |-> shared[i].daemon.socket, tag |-> shared[i].tag]]]
           /\ creds' = [i \in DOMAIN shared |-> shared[i].unit]
                \o (IF names = {} THEN <<>>
                    ELSE <<DropIn("remote-fs.target", "bcvk-mounts", names)>>)
  /\ Unchanged(<<files, mounts, env, boot, readers, argv>>)

ExecuteService == "bootc-execute.service"
FinishService == "bootc-execute-finish.service"
ExecuteUnits ==
  <<Service(ExecuteService), Service(FinishService),
    DropIn("multi-user.target", "bcvk-execute",
           {<<ExecuteService>>, <<FinishService>>})>>

SwapService == "dev-disk-by\\x2did-virtio\\x2dswap.swap"
SwapUnits ==
  <<Service(SwapService), DropIn("basic.target", "bcvk-swap", {<<SwapService>>})>>

PrepareUnits ==
  /\ pc = "services"
  /\ pc' = "config"
  /\ creds' = creds \o (IF Streams THEN JournalStream ELSE <<>>)
                    \o (IF req.execute THEN ExecuteUnits ELSE <<>>)
  /\ Unchanged(<<files, mounts, env, boot, config, readers, argv>>)

-----------------------------------------------------------------------------
(* The configuration of QEMU.                                              *)

SshCredential == "opt/io.systemd.credentials/tmpfiles.extra"
IgnitionFwCfg == "opt/com.coreos/config"

AddBlk(c, file, serial, format, ro) ==
  [c EXCEPT !.blk = Append(@, [file |-> file, serial |-> serial, format |-> format,
                               ro |-> ro])]
AddFwCfg(c, name, file) == [c EXCEPT !.fwCfg = Append(@, [name |-> name, file |-> file])]

\* add_virtio_serial_pipe: the write end is in the fdset, and the file of the
\* port is the place it has there.  A pipe goes by the name of its port.
AddPipe(c, port) ==
  [c EXCEPT !.fdset = Append(@, port),
            !.serial = Append(@, [name |-> port, fdset |-> Len(c.fdset) + 1])]

Cmdline ==
  {"systemd.mask", "selinux=0"}
    \cup (IF req.console THEN {"console=hvc0"} ELSE {})
    \cup (IF host.cloudInit THEN {"cloud-init=disabled"} ELSE {})
    \cup (IF req.ignition # None THEN {"ignition.platform.id=qemu"} ELSE {})

\* The key goes through fw_cfg, and the port to it is a fixed one.
Configure ==
  LET base == [config EXCEPT !.vsock = host.vsock, !.cmdline = Cmdline,
                             !.console = req.console, !.serialLog = env.console,
                             !.notify = host.vsock /\ host.systemd >= 254]
      keyed == AddFwCfg(base, SshCredential, "key")
  IN  /\ pc = "config"
      /\ pc' = "devices"
      /\ config' = IF req.ssh THEN [keyed EXCEPT !.hostfwd = <<[from |-> 2222, to |-> 22]>>]
                   ELSE base
      /\ Unchanged(<<files, mounts, env, boot, creds, readers, argv>>)

AddSwap(c) ==
  IF req.swap THEN AddBlk(c, <<"swapfile">>, "swap", "raw", FALSE) ELSE c

Devices ==
  LET to(c) == config' = AddSwap(c)
      fwCfg == req.ignition # None /\ host.arch \in {"x86_64", "aarch64"}
      disk == req.ignition # None /\ host.arch \in {"s390x", "powerpc64le"}
  IN  /\ pc = "devices"
      /\ \/ /\ req.ignition = None
            /\ to(config)
         \/ fwCfg /\ to(AddFwCfg(config, IgnitionFwCfg, <<"ignition">>))
         \/ disk /\ to(AddBlk(config, <<"ignition">>, "ignition", "raw", TRUE))
      /\ pc' = "journal"
      /\ creds' = creds \o (IF req.swap THEN SwapUnits ELSE <<>>)
      /\ Unchanged(<<files, mounts, env, boot, readers, argv>>)

\* No way to hand over an Ignition config is known for the architecture.
DevicesFail ==
  /\ pc = "devices"
  /\ req.ignition # None
  /\ host.arch \notin {"x86_64", "aarch64", "s390x", "powerpc64le"}
  /\ Fail

JournalPort == "org.bcvk.journal"
InitrdPort == "org.bcvk.journal.initrd"
ToStdout(asked) == IF asked THEN {"stdout"} ELSE {}
Reader(pipe, to) == <<[pipe |-> pipe, to |-> to]>>

JournalPipes ==
  /\ pc = "journal"
  /\ pc' = "wire"
  /\ IF ~Streams THEN UNCHANGED <<config, readers>>
     ELSE /\ config' = AddPipe(AddPipe(config, JournalPort), InitrdPort)
          /\ readers' =
               Reader(JournalPort, ToStdout(req.output = "journal")
                                   \cup (IF req.journal THEN {env.journal[1]} ELSE {}))
               \o Reader(InitrdPort, IF req.journal THEN {env.journal[2]} ELSE {})
  /\ Unchanged(<<files, mounts, env, boot, creds, argv>>)

AddDisks(c) ==
  [c EXCEPT !.blk = @ \o [i \in DOMAIN env.disks |->
                            [file |-> env.disks[i].file, serial |-> env.disks[i].serial,
                             format |-> env.disks[i].format, ro |-> FALSE]]]

\* The pipes of --execute come after those of the journal, the disks last.
Wire ==
  LET executed == IF req.execute THEN AddPipe(AddPipe(config, "execute"), "executestatus")
                  ELSE config
  IN  /\ pc = "wire"
      /\ pc' = "spawn"
      /\ config' = [AddDisks(executed) EXCEPT !.smbios = creds]
      /\ readers' = readers \o (IF req.execute
                                THEN Reader("execute", {"stdout"})
                                     \o Reader("executestatus", {"exit code"})
                                ELSE <<>>)
      /\ Unchanged(<<files, mounts, env, boot, creds, argv>>)

-----------------------------------------------------------------------------
(* The command line of QEMU.                                               *)

FreeCids == (3..MaxCid) \ host.cids

Valid ==
  /\ req.memory \in 128..1048576
  /\ req.vcpus \in 1..256

\* virtiofsd shares directories only.
DaemonsStart(c) ==
  \A i \in DOMAIN c.daemons :
     \A v \in Range(mounts) : v.to = c.daemons[i].shared => host.dirs[v.from].dir

\* Mutant: the number of the set is counted from zero, like the descriptor.
AddFdsFromZero(c) ==
  [i \in DOMAIN c.fdset |->
     [opt |-> "-add-fd", fd |-> 99 + i, set |-> i - 1, pipe |-> c.fdset[i]]]

\* Descriptors are counted from 100, sets from 1.
AddFds(c) ==
  [i \in DOMAIN c.fdset |->
     [opt |-> "-add-fd", fd |-> 99 + i, set |-> i, pipe |-> c.fdset[i]]]

Drives(c) ==
  [i \in DOMAIN c.blk |->
     [opt |-> "-drive", id |-> i - 1, file |-> c.blk[i].file,
      format |-> c.blk[i].format, ro |-> c.blk[i].ro]]
BlkDevices(c) ==
  [i \in DOMAIN c.blk |->
     [opt |-> "-device", driver |-> "virtio-blk-pci", drive |-> i - 1,
      serial |-> c.blk[i].serial]]

RootSocket == <<"virtiofs.sock">>
Chardev(id, backend, path) ==
  [opt |-> "-chardev", id |-> id, backend |-> backend, path |-> path]
FsDevice(id, tag) ==
  [opt |-> "-device", driver |-> "vhost-user-fs-pci", chardev |-> id, tag |-> tag]

BootArgs ==
  <<[opt |-> "-kernel", file |-> boot], Chardev(<<"char", 0>>, "socket", RootSocket),
    FsDevice(<<"char", 0>>, <<"rootfs">>)>>

\* Mutant: the root filesystem's character device is forgotten in the count.
VirtiofsArgsFromZero(c) ==
  [i \in DOMAIN c.mounts |-> Chardev(<<"char", i - 1>>, "socket", c.mounts[i].socket)]
    \o [i \in DOMAIN c.mounts |-> FsDevice(<<"char", i - 1>>, c.mounts[i].tag)]

VirtiofsArgs(c) ==
  [i \in DOMAIN c.mounts |-> Chardev(<<"char", i>>, "socket", c.mounts[i].socket)]
    \o [i \in DOMAIN c.mounts |-> FsDevice(<<"char", i>>, c.mounts[i].tag)]

SerialArgs(c) ==
  [i \in DOMAIN c.serial |->
     Chardev(<<"serial_char", i - 1>>, "file", c.serial[i].fdset)]
    \o [i \in DOMAIN c.serial |->
          [opt |-> "-device", driver |-> "virtserialport",
           chardev |-> <<"serial_char", i - 1>>, name |-> c.serial[i].name]]

ConsoleArgs(c) ==
  <<[opt |-> "-serial", file |-> c.serialLog]>>
    \o (IF c.console THEN <<[opt |-> "-device", driver |-> "virtconsole",
                             chardev |-> <<"console", 0>>],
                            Chardev(<<"console", 0>>, "stdio", None)>>
        ELSE <<>>)

\* Without a free CID the VM has no vsock.
VsockArgs(c) ==
  IF c.vsock /\ FreeCids # {}
  THEN <<[opt |-> "-device", driver |-> "vhost-vsock-pci", cid |-> Min(FreeCids)]>>
  ELSE <<>>

\* The notify socket is an extra credential; it needs the vsock.
CredentialArgs(c) ==
  [i \in DOMAIN c.smbios |-> [opt |-> "-smbios", value |-> c.smbios[i]]]
    \o (IF c.notify
        THEN <<[opt |-> "-smbios", value |-> [kind |-> "vmm.notify_socket",
                                              name |-> <<>>, content |-> << >>]]>>
        ELSE <<>>)
    \o [i \in DOMAIN c.fwCfg |-> [opt |-> "-fw_cfg", name |-> c.fwCfg[i].name,
                                  file |-> c.fwCfg[i].file]]

Spawn ==
  /\ pc = "spawn"
  /\ IF ~DaemonsStart(config) \/ ~Valid \/ (config.notify /\ FreeCids = {}) THEN Fail
     ELSE /\ pc' = "done"
          /\ argv' = AddFds(config) \o Drives(config) \o BlkDevices(config) \o BootArgs
                     \o VirtiofsArgs(config) \o SerialArgs(config)
                     \o <<[opt |-> "-netdev", hostfwd |-> config.hostfwd]>>
                     \o ConsoleArgs(config) \o VsockArgs(config) \o CredentialArgs(config)
          /\ Unchanged(<<files, mounts, env, boot, creds, config, readers>>)

Next ==
  \/ CheckIgnition \/ ProcessDisks \/ HostMounts \/ Podman \/ Extract \/ AppendUnits
  \/ PrepareMounts \/ PrepareUnits \/ Configure \/ Devices \/ DevicesFail
  \/ JournalPipes \/ Wire \/ Spawn

Spec == Init /\ [][Next]_vars

-----------------------------------------------------------------------------
(* The command line, read as QEMU, the kernel and systemd read it.         *)

ArgsAt(opt) == {i \in DOMAIN argv : argv[i].opt = opt}
ArgsOf(opt) == {argv[i] : i \in ArgsAt(opt)}
DeviceArgs(driver) == {a \in ArgsOf("-device") : a.driver = driver}

\* An identifier that is given twice ends QEMU: nothing is behind it.
Behind(id, backend) ==
  LET at == {i \in ArgsAt("-chardev") : argv[i].id = id}
  IN  {argv[i].path : i \in {i \in at : at = {i} /\ argv[i].backend = backend}}

GuestCreds == [i \in ArgsAt("-smbios") |-> argv[i].value]

\* systemd imports units as credentials from version 256 on.
ImportsUnits == host.systemd >= 256

\* virtiofsd lets the guest write unless it was told not to and knows how, or
\* the volume behind it cannot be written.
Writable(d, v) ==
  /\ ~(d.readonly /\ host.readonlyFlag)
  /\ ~v.ro
  /\ host.dirs[v.from].writable

\* What is behind a tag, and what a mount unit makes of it.
DaemonsOf(tag) ==
  {d \in Range(config.daemons) :
     \E dev \in DeviceArgs("vhost-user-fs-pci") :
        dev.tag = tag /\ d.socket \in Behind(dev.chardev, "socket")}
VolumesOf(d) == {v \in Range(mounts) : IsPrefix(d.shared, v.to)}
Mounted(m, d, v) ==
  [path |-> m.where, below |-> Tail(Tail(v.to)), dir |-> v.from,
   rw |-> ~m.ro /\ Writable(d, v)]
GuestMounts ==
  UNION {UNION {{Mounted(m, d, v) : v \in VolumesOf(d)} : d \in DaemonsOf(m.what)} :
           m \in Mounts(GuestCreds)}

AskedMount(name, dir, ro) ==
  [path |-> MountPoint(Head(name)), below |-> Tail(name), dir |-> dir,
   rw |-> ~ro /\ host.dirs[dir].writable]
AskedMounts ==
  {AskedMount(b.name, b.dir, FALSE) : b \in Range(req.rw)}
    \cup {AskedMount(b.name, b.dir, TRUE) : b \in Range(req.ro)}
    \cup (IF req.storage THEN {AskedMount(StorageName, host.storage, TRUE)} ELSE {})

\* No directory is asked for below another.  Nothing in the code rejects that:
\* what is below one that cannot be written cannot be written either.
Names(r) ==
  {b.name : b \in Range(r.rw) \cup Range(r.ro)}
    \cup (IF r.storage THEN {StorageName} ELSE {})
Unnested(r) == \A m, n \in Names(r) : IsPrefix(m, n) => m = n

\* Every directory that was asked for, and no other, is found in the guest at
\* the place its name gives, from the directory of the host, and can be written
\* exactly if it was asked for with --bind and can be written on the host: the
\* names of the volume, the virtiofsd socket, the character device, the tag and
\* the unit all agree, directories with one first component come through one
\* daemon, the root filesystem has its own, and what access(2) reports in the
\* container reaches the unit (run_impl, qemu.rs).
MountsAsAsked == pc = "done" /\ ImportsUnits => GuestMounts = AskedMounts

\* The pipes behind a port: device, character device, fdset, descriptor.
PipesOf(port) ==
  {a.pipe : a \in {a \in ArgsOf("-add-fd") :
     \E d \in DeviceArgs("virtserialport") :
        d.name = port /\ a.set \in Behind(d.chardev, "file")}}
Drained(port) ==
  [to |-> UNION {r.to : r \in {r \in Range(readers) : r.pipe \in PipesOf(port)}},
   pipes |-> Cardinality(PipesOf(port))]

JournalTo ==
  ToStdout(req.output = "journal") \cup (IF req.journal THEN {"journal.json"} ELSE {})
AskedPorts ==
  (IF Streams THEN {JournalPort, InitrdPort} ELSE {})
    \cup (IF req.execute THEN {"execute", "executestatus"} ELSE {})
AskedTo(port) ==
  CASE port = JournalPort -> JournalTo
    [] port = InitrdPort -> IF req.journal THEN {"journal-initrd.json"} ELSE {}
    [] port = "execute" -> {"stdout"}
    [] port = "executestatus" -> {"exit code"}

\* A disk of the guest: its name in /dev/disk/by-id, and the file behind it.
FileBehind(path) ==
  LET vs == {v \in Range(mounts) : v.to = path}
  IN  IF vs = {} THEN Head(path) ELSE (CHOOSE v \in vs : TRUE).from
GuestDisk(serial, file, format, ro) ==
  [serial |-> serial, file |-> file, format |-> format, ro |-> ro]
GuestDisks ==
  UNION {{GuestDisk(dev.serial, FileBehind(d.file), d.format, d.ro) :
            d \in {d \in ArgsOf("-drive") : d.id = dev.drive}} :
           dev \in DeviceArgs("virtio-blk-pci")}
AskedDisks ==
  {GuestDisk(DiskName(d), d.file, DiskFormat(d), FALSE) : d \in Range(req.disks)}
    \cup (IF req.swap
          THEN {GuestDisk("swap", "swapfile", "raw", FALSE)} ELSE {})
    \cup (IF req.ignition # None /\ host.arch \in {"s390x", "powerpc64le"}
          THEN {GuestDisk("ignition", req.ignition, "raw", TRUE)} ELSE {})

\* Disks that are not named like those of `run` itself.  Nothing in the code
\* rejects such a name.
Apart(r) ==
  \A d \in Range(r.disks) : /\ r.swap => DiskName(d) # "swap"
                            /\ r.ignition # None => DiskName(d) # "ignition"

\* Each port the units of the guest write to exists and is drained by a
\* reader of its own, which writes where that stream was asked to go: the
\* journals of the initrd and of the system to their own files, the output of
\* --execute to stdout, its status to the exit code.  The pipes, the fdset,
\* the descriptors and the character devices are numbered in four places
\* (add_virtio_serial_pipe, spawn, run_impl).  Each disk has the file and the
\* format its own --mount-disk-file gave, and no other disk has its name.
DevicesServed ==
  pc = "done" =>
    /\ {d.name : d \in DeviceArgs("virtserialport")} = AskedPorts
    /\ \A port \in AskedPorts : Drained(port) = [to |-> AskedTo(port), pipes |-> 1]
    /\ GuestDisks = AskedDisks
    /\ \A d, e \in AskedDisks : d.serial = e.serial => d = e

\* The kernel finds the units bcvk appends: an archive is looked for at
\* multiples of four, and none after a bootconfig.
UnitsFound == boot.unitsAt % 4 = 0 /\ boot.initramfs.trailer = 0
Rank(a) == CASE a.at = "aboot" -> 1 [] a.at \in {"esp", "modules"} -> 2 [] OTHER -> 3

\* QEMU boots the kernel and the initramfs of one artifact of the image, of a
\* kind no other artifact precedes, in a format this QEMU can unpack; the files
\* are not empty, what the image has in the initramfs is all there, and the
\* units that make the root filesystem writable are found behind it
\* (find_kernel, run_impl).
BootsOneArtifact ==
  pc = "done" =>
    /\ UnitsFound
    /\ boot.kernel.size > 0
    /\ ~(host.arch = "aarch64" /\ boot.kernel.zstd /\ ~QemuSupportsZstd)
    /\ \E a \in host.image :
         /\ boot.kernel.of = a.kernel.of /\ boot.initramfs.of = a.kernel.of
         /\ a.initramfs # None /\ boot.initramfs.size = a.initramfs.size
         /\ a.initramfs.size + a.initramfs.trailer > 0
         /\ \A b \in host.image \ {a} : b.initramfs # None => Rank(a) < Rank(b)

\* bcvk-copy-units.service, for a systemd that does not import units: what is
\* in the archive is copied and started if the journal was asked for.
GuestStreams ==
  IF ImportsUnits THEN Services(GuestCreds) \cap {JournalService, JournalInitrdService}
  ELSE IF Streams THEN {JournalService, JournalInitrdService} \cap Embedded ELSE {}

\* bcvk-copy-units.service:11-13 says that the units are embedded in the
\* initramfs and copied, for a systemd before 256: a journal that was asked
\* for is streamed whichever systemd the image has.
JournalOnEverySystemd ==
  pc = "done" /\ Streams => GuestStreams = {JournalService, JournalInitrdService}
=============================================================================
