------------------------ MODULE EphemeralConfigProofs ------------------------
(***************************************************************************)
(* Proofs about EphemeralConfig, for all command lines, hosts and images:  *)
(* one boot artifact is booted, the devices and the mounts of the guest    *)
(* are those that were asked for.                                          *)
(*                                                                         *)
(* The parts are gone through in one order.  The invariant says of each    *)
(* variable what it holds once the part that sets it has been done.        *)
(***************************************************************************)
EXTENDS EphemeralConfig, GuestCredentialProofs

-----------------------------------------------------------------------------
(* Where each part has been done.                                          *)

AfterSpawn == {"done"}
AfterWire == {"spawn"} \cup AfterSpawn
AfterJournal == {"wire"} \cup AfterWire
AfterDevices == {"journal"} \cup AfterJournal
AfterConfig == {"devices"} \cup AfterDevices
AfterUnits == {"config"} \cup AfterConfig
AfterMounts == {"services"} \cup AfterUnits
AfterAppend == {"mounts"} \cup AfterMounts
AfterExtract == {"units"} \cup AfterAppend
AfterPodman == {"kernel"} \cup AfterExtract
AfterBinds == {"podman"} \cup AfterPodman
AfterDisks == {"binds"} \cup AfterBinds

\* Well-formed options, on a well-formed host.
Inputs == RequestOk(req) /\ HostOk(host)

\* What podman is told to mount.
StorageVolumes ==
  IF req.storage
  THEN <<Volume(host.storage, <<"host-mounts">> \o StorageName, TRUE)>> ELSE <<>>
DiskVolumes ==
  [i \in DOMAIN req.disks |-> Volume(req.disks[i].file, DiskPath(req.disks[i]), FALSE)]
IgnitionVolumes ==
  IF req.ignition = None THEN <<>> ELSE <<Volume(req.ignition, <<"ignition">>, TRUE)>>
AllVolumes ==
  StorageVolumes \o BindVolumes(req.rw, FALSE) \o BindVolumes(req.ro, TRUE)
    \o DiskVolumes \o IgnitionVolumes

EnvDisks ==
  [i \in DOMAIN req.disks |-> [file |-> DiskPath(req.disks[i]),
                               serial |-> DiskName(req.disks[i]),
                               format |-> DiskFormat(req.disks[i])]]

\* The container has each volume at a place of its own.
HostInv ==
  /\ DOMAIN env = {"disks", "journal", "console"}
  /\ pc \in AfterDisks => env.disks = EnvDisks
  /\ pc \in AfterBinds =>
       /\ mounts = AllVolumes
       /\ req.journal => env.journal = <<"journal.json", "journal-initrd.json">>
  /\ pc \in AfterPodman =>
       \A i, j \in DOMAIN mounts : mounts[i].to = mounts[j].to => i = j

\* One artifact is taken, unpacked if it has to be, and the units follow it.
BootInv ==
  /\ pc \in AfterExtract =>
       LET a == FindKernel IN
       /\ a # None /\ Extractable(a)
       /\ DOMAIN boot = {"kernel", "initramfs", "unitsAt"}
       /\ DOMAIN boot.initramfs = {"of", "size", "trailer"}
       /\ boot.kernel.of = a.kernel.of /\ boot.kernel.size = a.kernel.size
       /\ ~(MustUnzip(a.kernel) /\ boot.kernel.zstd)
       /\ boot.kernel.zstd => a.kernel.zstd
       /\ boot.initramfs.of = a.kernel.of /\ boot.initramfs.size = a.initramfs.size
  /\ pc \in AfterAppend =>
       boot.unitsAt = RoundUp(boot.initramfs.size) /\ boot.initramfs.trailer = 0

\* What is shared with the guest, and what an order of it becomes.
DirVolumes == {v \in Range(AllVolumes) : Head(v.to) = "host-mounts"}
Entries == {v.to[2] : v \in DirVolumes}
EntryDaemons(e) == [i \in DOMAIN e |-> Shared(e[i]).daemon]
EntryMounts(e) ==
  [i \in DOMAIN e |-> [socket |-> Shared(e[i]).daemon.socket, tag |-> Shared(e[i]).tag]]
EntryUnits(e) == [i \in DOMAIN e |-> Shared(e[i]).unit]
UnitNames(e) == {Shared(e[i]).unit.name : i \in DOMAIN e}
EntryCreds(e) ==
  EntryUnits(e) \o (IF UnitNames(e) = {} THEN <<>>
                    ELSE <<DropIn("remote-fs.target", "bcvk-mounts", UnitNames(e))>>)

StreamCreds == IF Streams THEN JournalStream ELSE <<>>
ExecuteCreds == IF req.execute THEN ExecuteUnits ELSE <<>>
SwapCreds == IF req.swap THEN SwapUnits ELSE <<>>
ServiceCreds(e) == EntryCreds(e) \o StreamCreds \o ExecuteCreds
AllCreds(e) == ServiceCreds(e) \o SwapCreds

\* Everything that is made of an entry is made of the same one.
MountsInv ==
  pc \in AfterMounts =>
    \E e \in Orders(Entries) :
      /\ config.daemons = EntryDaemons(e) /\ config.mounts = EntryMounts(e)
      /\ creds = IF pc = "services" THEN EntryCreds(e)
                 ELSE IF pc \in {"config", "devices"} THEN ServiceCreds(e)
                 ELSE AllCreds(e)
      /\ pc \in AfterWire => config.smbios = AllCreds(e)

\* The ports of the guest, and what is numbered like them.
JournalPorts == IF Streams THEN <<JournalPort, InitrdPort>> ELSE <<>>
ExecutePorts == IF req.execute THEN <<"execute", "executestatus">> ELSE <<>>
AllPorts == JournalPorts \o ExecutePorts
Numbered(p) == [i \in DOMAIN p |-> [name |-> p[i], fdset |-> i]]
Drains(p) == [i \in DOMAIN p |-> [pipe |-> p[i], to |-> AskedTo(p[i])]]

PortsAre(p) == config.fdset = p /\ config.serial = Numbered(p) /\ readers = Drains(p)
PortsInv ==
  /\ pc \in AfterMounts =>
       PortsAre(IF pc \in AfterWire THEN AllPorts
                ELSE IF pc \in AfterJournal THEN JournalPorts ELSE <<>>)
  /\ pc \notin AfterMounts \cup {"failed"} => readers = <<>>

\* The block devices, in the order they are added in.
Blk(file, serial, format, ro) ==
  [file |-> file, serial |-> serial, format |-> format, ro |-> ro]
IgnitionBlk ==
  IF req.ignition # None /\ host.arch \in {"s390x", "powerpc64le"}
  THEN <<Blk(<<"ignition">>, "ignition", "raw", TRUE)>> ELSE <<>>
SwapBlk == IF req.swap THEN <<Blk(<<"swapfile">>, "swap", "raw", FALSE)>> ELSE <<>>
DiskBlk ==
  [i \in DOMAIN req.disks |->
     Blk(DiskPath(req.disks[i]), DiskName(req.disks[i]), DiskFormat(req.disks[i]), FALSE)]
AllBlk == IgnitionBlk \o SwapBlk \o DiskBlk

BlkInv ==
  pc \in AfterMounts =>
    /\ DOMAIN config = DOMAIN NewConfig
    /\ IsSeq(config.fwCfg)
    /\ config.blk = IF pc \in AfterWire THEN AllBlk
                    ELSE IF pc \in AfterDevices THEN IgnitionBlk \o SwapBlk ELSE <<>>

\* The command line has a part for everything in the configuration.
ArgvInv ==
  pc = "done" =>
    argv = AddFds(config) \o Drives(config) \o BlkDevices(config) \o BootArgs
           \o VirtiofsArgs(config) \o SerialArgs(config)
           \o <<[opt |-> "-netdev", hostfwd |-> config.hostfwd]>>
           \o ConsoleArgs(config) \o VsockArgs(config) \o CredentialArgs(config)

-----------------------------------------------------------------------------
(* Inputs, and the order of the parts.                                     *)

LEMMA Stages ==
  /\ AfterSpawn = {"done"}
  /\ AfterWire = {"spawn", "done"}
  /\ AfterJournal = {"wire", "spawn", "done"}
  /\ AfterDevices = {"journal", "wire", "spawn", "done"}
  /\ AfterConfig = {"devices", "journal", "wire", "spawn", "done"}
  /\ AfterUnits = {"config"} \cup AfterConfig
  /\ AfterMounts = {"services"} \cup AfterUnits
  /\ AfterAppend = {"mounts"} \cup AfterMounts
  /\ AfterExtract = {"units"} \cup AfterAppend
  /\ AfterPodman = {"kernel"} \cup AfterExtract
  /\ AfterBinds = {"podman"} \cup AfterPodman
  /\ AfterDisks = {"binds"} \cup AfterBinds
BY DEF AfterSpawn, AfterWire, AfterJournal, AfterDevices, AfterConfig, AfterUnits,
       AfterMounts, AfterAppend, AfterExtract, AfterPodman, AfterBinds, AfterDisks

\* A part is followed by the next one or by the end; what it does not set
\* stays, and no part changes the options or the host.
LEMMA Acts ==
  ASSUME [Next]_vars
  PROVE  /\ UNCHANGED <<req, host>>
         /\ \/ UNCHANGED vars
            \/ pc' = "failed" /\ UNCHANGED <<env, mounts, boot, config, creds, readers, argv>>
            \/ /\ pc = "ignition" /\ pc' = "disks"
               /\ UNCHANGED <<env, mounts, boot, config, creds, readers, argv>>
            \/ /\ pc = "disks" /\ pc' = "binds" /\ ProcessDisks
               /\ UNCHANGED <<mounts, boot, config, creds, readers, argv>>
            \/ /\ pc = "binds" /\ pc' = "podman" /\ HostMounts
               /\ UNCHANGED <<boot, config, creds, readers, argv>>
            \/ /\ pc = "podman" /\ pc' = "kernel" /\ Podman
               /\ UNCHANGED <<env, mounts, boot, config, creds, readers, argv>>
            \/ /\ pc = "kernel" /\ pc' = "units" /\ Extract
               /\ UNCHANGED <<env, mounts, config, creds, readers, argv>>
            \/ /\ pc = "units" /\ pc' = "mounts" /\ AppendUnits
               /\ UNCHANGED <<env, mounts, config, creds, readers, argv>>
            \/ /\ pc = "mounts" /\ pc' = "services" /\ PrepareMounts
               /\ UNCHANGED <<env, mounts, boot, readers, argv>>
            \/ /\ pc = "services" /\ pc' = "config" /\ PrepareUnits
               /\ UNCHANGED <<env, mounts, boot, config, readers, argv>>
            \/ /\ pc = "config" /\ pc' = "devices" /\ Configure
               /\ UNCHANGED <<env, mounts, boot, creds, readers, argv>>
            \/ /\ pc = "devices" /\ pc' = "journal" /\ Devices
               /\ UNCHANGED <<env, mounts, boot, readers, argv>>
            \/ /\ pc = "journal" /\ pc' = "wire" /\ JournalPipes
               /\ UNCHANGED <<env, mounts, boot, creds, argv>>
            \/ /\ pc = "wire" /\ pc' = "spawn" /\ Wire
               /\ UNCHANGED <<env, mounts, boot, creds, argv>>
            \/ /\ pc = "spawn" /\ pc' = "done" /\ Spawn
               /\ UNCHANGED <<env, mounts, boot, config, creds, readers>>
<1>1. CASE UNCHANGED vars
  BY <1>1 DEF vars
<1>2. CASE CheckIgnition
  BY <1>2 DEF CheckIgnition, Unchanged, Fail
<1>3. CASE ProcessDisks
  BY <1>3 DEF ProcessDisks, Unchanged, Fail
<1>4. CASE HostMounts
  BY <1>4 DEF HostMounts, Unchanged, Fail
<1>5. CASE Podman
  BY <1>5 DEF Podman, Unchanged, Fail
<1>6. CASE Extract
  BY <1>6 DEF Extract, Unchanged, Fail
<1>7. CASE AppendUnits
  BY <1>7 DEF AppendUnits, Unchanged
<1>8. CASE PrepareMounts
  BY <1>8 DEF PrepareMounts, Unchanged
<1>9. CASE PrepareUnits
  BY <1>9 DEF PrepareUnits, Unchanged
<1>10. CASE Configure
  BY <1>10 DEF Configure, Unchanged
<1>11. CASE Devices
  BY <1>11 DEF Devices, Unchanged
<1>12. CASE DevicesFail
  BY <1>12 DEF DevicesFail, Fail
<1>13. CASE JournalPipes
  BY <1>13 DEF JournalPipes, Unchanged
<1>14. CASE Wire
  BY <1>14 DEF Wire, Unchanged
<1>15. CASE Spawn
  BY <1>15 DEF Spawn, Unchanged, Fail
<1> QED BY <1>1, <1>2, <1>3, <1>4, <1>5, <1>6, <1>7, <1>8, <1>9, <1>10, <1>11, <1>12,
           <1>13, <1>14, <1>15 DEF Next

LEMMA InputsStep == Inputs /\ [Next]_vars => Inputs'
BY Acts DEF Inputs, HostOk, RequestOk

LEMMA PartsFrame ==
  ASSUME UNCHANGED <<req, host>>
  PROVE  /\ AllVolumes' = AllVolumes /\ EnvDisks' = EnvDisks /\ Candidates' = Candidates
         /\ FindKernel' = FindKernel
         /\ \A a : /\ Extractable(a)' = Extractable(a)
                  /\ MustUnzip(a.kernel)' = MustUnzip(a.kernel)
BY DEF AllVolumes, StorageVolumes, BindVolumes, DiskVolumes, IgnitionVolumes, EnvDisks,
       Candidates, FindKernel, Artifacts, Traditional, Extractable, MustUnzip,
       QemuSupportsZstd

LEMMA HostInvStep == Inputs /\ HostInv /\ [Next]_vars => HostInv'
<1> SUFFICES ASSUME Inputs, HostInv, [Next]_vars PROVE HostInv'
  OBVIOUS
<1>1. UNCHANGED <<req, host>> /\ AllVolumes' = AllVolumes /\ EnvDisks' = EnvDisks
  BY Acts, PartsFrame
<1>2. CASE pc = "disks" /\ pc' = "binds" /\ ProcessDisks /\ UNCHANGED mounts
  <2>1. env' = [env EXCEPT !.disks = EnvDisks]
    BY <1>2 DEF ProcessDisks, EnvDisks, Fail
  <2>2. DOMAIN env' = {"disks", "journal", "console"} /\ env'.disks = EnvDisks
    BY <2>1 DEF HostInv
  <2> QED BY <1>1, <1>2, <2>2, Stages DEF HostInv
<1>3. CASE pc = "binds" /\ pc' = "podman" /\ HostMounts
  <2>1. /\ mounts' = AllVolumes
        /\ env' = [env EXCEPT !.journal = IF req.journal
                               THEN <<"journal.json", "journal-initrd.json">> ELSE <<>>,
                             !.console = IF req.consoleLog THEN "console.txt" ELSE None]
    BY <1>3 DEF HostMounts, AllVolumes, StorageVolumes, DiskVolumes, IgnitionVolumes, Fail
  <2>2. /\ DOMAIN env' = {"disks", "journal", "console"} /\ env'.disks = env.disks
        /\ req.journal => env'.journal = <<"journal.json", "journal-initrd.json">>
    BY <2>1 DEF HostInv
  <2> QED BY <1>1, <1>3, <2>1, <2>2, Stages DEF HostInv
<1>4. CASE pc = "podman" /\ pc' = "kernel" /\ Podman /\ UNCHANGED <<env, mounts>>
  <2>1. \A i, j \in DOMAIN mounts : mounts[i].to = mounts[j].to => i = j
    BY <1>4 DEF Podman, Fail
  <2> QED BY <1>1, <1>4, <2>1, Stages DEF HostInv
<1>5. CASE pc' = "failed" /\ UNCHANGED env
  BY <1>5, Stages DEF HostInv
<1>6. CASE /\ UNCHANGED <<env, mounts>>
           /\ pc' \in AfterDisks => pc \in AfterDisks
           /\ pc' \in AfterBinds => pc \in AfterBinds
           /\ pc' \in AfterPodman => pc \in AfterPodman
  BY <1>1, <1>6 DEF HostInv
<1> QED
  BY <1>2, <1>3, <1>4, <1>5, <1>6, Acts, Stages DEF vars

\* What find_kernel returns is the only candidate.
LEMMA Found ==
  ASSUME HostOk(host), FindKernel # None
  PROVE  FindKernel \in host.image /\ Candidates = {FindKernel}
<1>1. Cardinality(Candidates) = 1 /\ FindKernel = CHOOSE a \in Candidates : TRUE
  BY DEF FindKernel
<1>2. Candidates \subseteq host.image
  BY DEF Candidates, Artifacts, Traditional
<1>3. IsFiniteSet(Candidates)
  BY <1>2, FS_Subset DEF HostOk
<1>4. PICK x : Candidates = {x}
  BY <1>1, <1>3, FS_Singleton
<1> QED BY <1>1, <1>2, <1>4

LEMMA BootInvStep == Inputs /\ BootInv /\ [Next]_vars => BootInv'
<1> SUFFICES ASSUME Inputs, BootInv, [Next]_vars PROVE BootInv'
  OBVIOUS
<1> DEFINE a == FindKernel
           unzip == MustUnzip(a.kernel)
           ok == Extractable(a)
<1>1. UNCHANGED <<req, host>> /\ a' = a /\ ok' = ok /\ unzip' = unzip
  BY Acts, PartsFrame
<1>2. CASE pc = "kernel" /\ pc' = "units" /\ Extract
  <2>1. /\ a # None /\ ok
        /\ boot' = [kernel |-> [a.kernel EXCEPT !.zstd = @ /\ ~unzip],
                    initramfs |-> a.initramfs, unitsAt |-> None]
    BY <1>2 DEF Extract, Fail
  <2>2. a \in host.image /\ a.initramfs # None
    BY <2>1, Found DEF Inputs, Extractable
  <2>3. /\ DOMAIN a.initramfs = {"of", "size", "trailer"} /\ a.initramfs.of = a.kernel.of
        /\ DOMAIN a.kernel = {"of", "zstd", "size"}
    BY <2>2 DEF Inputs, HostOk
  <2> HIDE DEF a, ok, unzip
  <2>4. /\ DOMAIN boot' = {"kernel", "initramfs", "unitsAt"} /\ boot'.initramfs = a.initramfs
        /\ boot'.kernel = [a.kernel EXCEPT !.zstd = @ /\ ~unzip]
    BY <2>1
  <2>5. /\ boot'.kernel.of = a.kernel.of /\ boot'.kernel.size = a.kernel.size
        /\ boot'.kernel.zstd = (a.kernel.zstd /\ ~unzip)
    BY <2>3, <2>4
  <2>6. pc' \notin AfterAppend
    BY <1>2, Stages
  <2> QED BY <1>1, <2>1, <2>3, <2>4, <2>5, <2>6 DEF BootInv, a, ok, unzip
<1>3. CASE pc = "units" /\ pc' = "mounts" /\ AppendUnits
  <2>1. /\ boot' = [boot EXCEPT !.initramfs.trailer = 0,
                                !.unitsAt = RoundUp(boot.initramfs.size)]
        /\ DOMAIN boot = {"kernel", "initramfs", "unitsAt"}
        /\ DOMAIN boot.initramfs = {"of", "size", "trailer"}
        /\ pc \in AfterExtract
    BY <1>3, Stages DEF AppendUnits, BootInv
  <2>2. /\ DOMAIN boot' = DOMAIN boot /\ boot'.kernel = boot.kernel
        /\ boot'.unitsAt = RoundUp(boot.initramfs.size)
        /\ boot'.initramfs = [boot.initramfs EXCEPT !.trailer = 0]
    BY <2>1
  <2>3. /\ DOMAIN boot'.initramfs = DOMAIN boot.initramfs
        /\ boot'.initramfs.of = boot.initramfs.of /\ boot'.initramfs.size = boot.initramfs.size
        /\ boot'.initramfs.trailer = 0
    BY <2>1, <2>2
  <2>4. boot'.unitsAt = RoundUp(boot'.initramfs.size)
    BY <2>2, <2>3
  <2> HIDE DEF a, ok, unzip
  <2> QED BY <1>1, <2>1, <2>2, <2>3, <2>4 DEF BootInv, a, ok, unzip, RoundUp
<1>4. CASE pc' = "failed"
  BY <1>4, Stages DEF BootInv
<1>5. CASE /\ UNCHANGED boot
           /\ pc' \in AfterExtract => pc \in AfterExtract
           /\ pc' \in AfterAppend => pc \in AfterAppend
  <2> HIDE DEF a, ok, unzip
  <2> QED BY <1>1, <1>5 DEF BootInv, a, ok, unzip, RoundUp
<1> HIDE DEF a, ok, unzip
<1> QED BY <1>2, <1>3, <1>4, <1>5, Acts, Stages DEF vars

LEMMA RoundUpIs ==
  ASSUME NEW n \in Nat
  PROVE  RoundUp(n) % 4 = 0
BY DEF RoundUp

\* An artifact with a kernel and an initramfs that is not the one that is
\* found comes after it.
LEMMA FoundFirst ==
  ASSUME HostOk(host), FindKernel # None, NEW b \in host.image \ {FindKernel},
         b.initramfs # None
  PROVE  Rank(FindKernel) < Rank(b)
<1> DEFINE a == FindKernel
<1>1. a \in host.image /\ Candidates = {a}
  BY Found
<1>2. {a.at, b.at} \subseteq {"aboot", "esp", "modules", "version"}
  BY <1>1 DEF HostOk
<1> HIDE DEF a
<1>3. CASE Artifacts({"aboot"}) # {}
  <2>1. Candidates = Artifacts({"aboot"})
    BY <1>3 DEF Candidates
  <2>2. a.at = "aboot" /\ b.at # "aboot"
    BY <1>1, <2>1 DEF Artifacts, a
  <2> QED BY <1>2, <2>2 DEF Rank, a
<1>4. CASE Artifacts({"aboot"}) = {} /\ Artifacts({"esp", "modules"}) # {}
  <2>1. Candidates = Artifacts({"esp", "modules"})
    BY <1>4 DEF Candidates
  <2>2. a.at \in {"esp", "modules"} /\ b.at \notin {"esp", "modules", "aboot"}
    BY <1>1, <1>4, <2>1 DEF Artifacts, a
  <2> QED BY <1>2, <2>2 DEF Rank, a
<1>5. CASE Artifacts({"aboot"}) = {} /\ Artifacts({"esp", "modules"}) = {}
  <2>1. Candidates = Traditional
    BY <1>5 DEF Candidates
  <2>2. b.at = "version"
    BY <1>2, <1>5 DEF Artifacts
  <2>3. b \in Traditional
    BY <2>2 DEF Traditional, Artifacts
  <2> QED BY <1>1, <2>1, <2>3 DEF a
<1> QED BY <1>3, <1>4, <1>5

\* QEMU boots one artifact.
LEMMA Boots == Inputs /\ BootInv => BootsOneArtifact
<1> SUFFICES ASSUME Inputs, BootInv, pc = "done" PROVE BootsOneArtifact
  BY DEF BootsOneArtifact
<1> DEFINE a == FindKernel
<1>1. pc \in AfterAppend /\ pc \in AfterExtract
  BY Stages
<1>2. /\ a # None /\ Extractable(a)
      /\ boot.kernel.of = a.kernel.of /\ boot.kernel.size = a.kernel.size
      /\ ~(MustUnzip(a.kernel) /\ boot.kernel.zstd) /\ (boot.kernel.zstd => a.kernel.zstd)
      /\ boot.initramfs.of = a.kernel.of /\ boot.initramfs.size = a.initramfs.size
      /\ boot.unitsAt = RoundUp(boot.initramfs.size) /\ boot.initramfs.trailer = 0
  BY <1>1 DEF BootInv
<1>3. HostOk(host) /\ a \in host.image /\ a.initramfs # None
  BY <1>2, Found DEF Inputs, Extractable
<1>4. \A b \in host.image \ {a} : b.initramfs # None => Rank(a) < Rank(b)
  BY <1>2, <1>3, FoundFirst
<1> HIDE DEF a
<1>5. /\ a.kernel.size > 0 /\ a.initramfs.size + a.initramfs.trailer > 0
      /\ a.initramfs.size \in Nat
  BY <1>2, <1>3 DEF Extractable, HostOk
<1>6. UnitsFound
  BY <1>2, <1>5, RoundUpIs DEF UnitsFound
<1>7. ~(host.arch = "aarch64" /\ boot.kernel.zstd /\ ~QemuSupportsZstd)
  BY <1>2 DEF MustUnzip
<1> QED BY <1>2, <1>3, <1>4, <1>5, <1>6, <1>7 DEF BootsOneArtifact

-----------------------------------------------------------------------------
(* The configuration: what each part writes, and what it keeps.            *)

Kept(c, d) ==
  /\ DOMAIN d = DOMAIN c
  /\ d.daemons = c.daemons /\ d.mounts = c.mounts

LEMMA FieldsAre ==
  DOMAIN NewConfig = {"daemons", "mounts", "fdset", "serial", "blk", "smbios", "fwCfg",
                      "cmdline", "hostfwd", "console", "serialLog", "vsock", "notify"}
BY DEF NewConfig

LEMMA BlkAdded ==
  ASSUME NEW c, DOMAIN c = DOMAIN NewConfig, IsSeq(c.blk), NEW x
  PROVE  LET d == [c EXCEPT !.blk = Append(c.blk, x)] IN
         /\ Kept(c, d) /\ d.fdset = c.fdset /\ d.serial = c.serial /\ d.fwCfg = c.fwCfg
         /\ d.blk = c.blk \o <<x>>
<1> DEFINE d == [c EXCEPT !.blk = Append(c.blk, x)]
<1>1. Append(c.blk, x) = c.blk \o <<x>>
  BY AppendIs
<1>2. DOMAIN d = DOMAIN c /\ d.daemons = c.daemons /\ d.mounts = c.mounts
      /\ d.fdset = c.fdset /\ d.serial = c.serial /\ d.fwCfg = c.fwCfg
      /\ d.blk = Append(c.blk, x)
  BY FieldsAre
<1> HIDE DEF d
<1> QED BY <1>1, <1>2 DEF Kept, d

LEMMA FwCfgAdded ==
  ASSUME NEW c, DOMAIN c = DOMAIN NewConfig, IsSeq(c.fwCfg), NEW name, NEW file
  PROVE  LET d == AddFwCfg(c, name, file) IN
         /\ Kept(c, d) /\ d.fdset = c.fdset /\ d.serial = c.serial /\ d.blk = c.blk
         /\ IsSeq(d.fwCfg)
<1> DEFINE x == [name |-> name, file |-> file]
           d == AddFwCfg(c, name, file)
<1>1. d = [c EXCEPT !.fwCfg = Append(c.fwCfg, x)]
  BY DEF AddFwCfg
<1>2. IsSeq(Append(c.fwCfg, x))
  BY AppendPlaces
<1> HIDE DEF x, d
<1>3. DOMAIN d = DOMAIN c /\ d.daemons = c.daemons /\ d.mounts = c.mounts
      /\ d.fdset = c.fdset /\ d.serial = c.serial /\ d.blk = c.blk
      /\ d.fwCfg = Append(c.fwCfg, x)
  BY <1>1, FieldsAre
<1> QED BY <1>2, <1>3 DEF Kept, d

\* The next port has the next number, and its reader its pipe.
LEMMA NextPort ==
  ASSUME NEW p, IsSeq(p), NEW port
  PROVE  LET q == Append(p, port) IN
         /\ IsSeq(q)
         /\ Numbered(q) = Append(Numbered(p), [name |-> port, fdset |-> Len(p) + 1])
         /\ Drains(q) = Append(Drains(p), [pipe |-> port, to |-> AskedTo(port)])
<1> DEFINE q == Append(p, port)
           n == Numbered(p)
           m == Append(n, [name |-> port, fdset |-> Len(p) + 1])
           r == Drains(p)
           t == Append(r, [pipe |-> port, to |-> AskedTo(port)])
<1>1. IsSeq(q) /\ Len(q) = Len(p) + 1 /\ Len(p) \in Nat /\ DOMAIN p = 1..Len(p)
      /\ DOMAIN q = 1..(Len(p) + 1) /\ q[Len(p) + 1] = port
      /\ \A i \in 1..Len(p) : q[i] = p[i]
  BY AppendPlaces
<1>2. IsSeq(n) /\ Len(n) = Len(p) /\ IsSeq(r) /\ Len(r) = Len(p)
      /\ IsSeq(Numbered(q)) /\ Len(Numbered(q)) = Len(q)
      /\ IsSeq(Drains(q)) /\ Len(Drains(q)) = Len(q)
  BY <1>1, MappedIs DEF Numbered, Drains
<1>5. Len(p) \in Nat
  BY <1>1
<1> HIDE DEF q, n, r
<1>3. Numbered(q) = m
  <2>1. \A i \in 1..Len(p) : n[i] = [name |-> p[i], fdset |-> i]
    BY <1>1 DEF n, Numbered
  <2>2. \A i \in 1..(Len(p) + 1) : Numbered(q)[i] = [name |-> q[i], fdset |-> i]
    BY <1>1 DEF Numbered
  <2>3. /\ IsSeq(m) /\ Len(m) = Len(p) + 1 /\ DOMAIN m = 1..(Len(p) + 1)
        /\ m[Len(p) + 1] = [name |-> port, fdset |-> Len(p) + 1]
        /\ \A i \in 1..Len(p) : m[i] = n[i]
    BY <1>2, AppendPlaces
  <2> HIDE DEF m
  <2>4. \A i \in DOMAIN m : m[i] = Numbered(q)[i]
    <3> SUFFICES ASSUME NEW i \in 1..(Len(p) + 1) PROVE m[i] = Numbered(q)[i]
      BY <2>3
    <3>1. CASE i = Len(p) + 1
      BY <1>1, <2>2, <2>3, <3>1
    <3>2. CASE i \in 1..Len(p)
      <4>1. m[i] = n[i] /\ q[i] = p[i]
        BY <1>1, <2>3, <3>2
      <4> HIDE DEF m
      <4>2. n[i] = [name |-> p[i], fdset |-> i]
        BY <2>1, <3>2
      <4>3. Numbered(q)[i] = [name |-> q[i], fdset |-> i]
        BY <2>2
      <4> QED BY <4>1, <4>2, <4>3
    <3>3. i = Len(p) + 1 \/ i \in 1..Len(p)
      BY <1>5
    <3> QED BY <3>1, <3>2, <3>3
  <2>5. IsSeq(m) /\ IsSeq(Numbered(q)) /\ Len(m) = Len(Numbered(q))
    BY <1>1, <1>2, <2>3
  <2> QED BY <2>4, <2>5, SamePlaces
<1>4. Drains(q) = t
  <2>1. \A i \in 1..Len(p) : r[i] = [pipe |-> p[i], to |-> AskedTo(p[i])]
    BY <1>1 DEF r, Drains
  <2>2. \A i \in 1..(Len(p) + 1) : Drains(q)[i] = [pipe |-> q[i], to |-> AskedTo(q[i])]
    BY <1>1 DEF Drains
  <2>3. /\ IsSeq(t) /\ Len(t) = Len(p) + 1 /\ DOMAIN t = 1..(Len(p) + 1)
        /\ t[Len(p) + 1] = [pipe |-> port, to |-> AskedTo(port)]
        /\ \A i \in 1..Len(p) : t[i] = r[i]
    BY <1>2, AppendPlaces
  <2> HIDE DEF t
  <2>4. \A i \in DOMAIN t : t[i] = Drains(q)[i]
    <3> SUFFICES ASSUME NEW i \in 1..(Len(p) + 1) PROVE t[i] = Drains(q)[i]
      BY <2>3
    <3>1. CASE i = Len(p) + 1
      BY <1>1, <2>2, <2>3, <3>1
    <3>2. CASE i \in 1..Len(p)
      <4>1. t[i] = r[i] /\ q[i] = p[i]
        BY <1>1, <2>3, <3>2
      <4> HIDE DEF t
      <4>2. r[i] = [pipe |-> p[i], to |-> AskedTo(p[i])]
        BY <2>1, <3>2
      <4>3. Drains(q)[i] = [pipe |-> q[i], to |-> AskedTo(q[i])]
        BY <2>2
      <4> QED BY <4>1, <4>2, <4>3
    <3>3. i = Len(p) + 1 \/ i \in 1..Len(p)
      BY <1>5
    <3> QED BY <3>1, <3>2, <3>3
  <2>5. IsSeq(t) /\ IsSeq(Drains(q)) /\ Len(t) = Len(Drains(q))
    BY <1>1, <1>2, <2>3
  <2> QED BY <2>4, <2>5, SamePlaces
<1> QED BY <1>1, <1>3, <1>4 DEF q, n, r

LEMMA PipeAdded ==
  ASSUME NEW c, DOMAIN c = DOMAIN NewConfig, IsSeq(c.fdset), c.serial = Numbered(c.fdset),
         NEW port
  PROVE  LET d == AddPipe(c, port) IN
         /\ Kept(c, d) /\ d.fwCfg = c.fwCfg /\ d.blk = c.blk
         /\ d.fdset = Append(c.fdset, port) /\ IsSeq(d.fdset)
         /\ d.serial = Numbered(d.fdset)
<1> DEFINE d == AddPipe(c, port)
           x == [name |-> port, fdset |-> Len(c.fdset) + 1]
<1>1. d = [c EXCEPT !.fdset = Append(c.fdset, port), !.serial = Append(c.serial, x)]
  BY DEF AddPipe
<1>2. IsSeq(Append(c.fdset, port)) /\ Numbered(Append(c.fdset, port)) = Append(c.serial, x)
  BY NextPort
<1> HIDE DEF x, d
<1>3. DOMAIN d = DOMAIN c /\ d.daemons = c.daemons /\ d.mounts = c.mounts
      /\ d.fwCfg = c.fwCfg /\ d.blk = c.blk /\ d.fdset = Append(c.fdset, port)
      /\ d.serial = Append(c.serial, x)
  BY <1>1, FieldsAre
<1> QED BY <1>2, <1>3 DEF Kept, d

LEMMA MountsFields ==
  ASSUME pc = "mounts", PrepareMounts
  PROVE  \E e \in Orders({v.to[2] : v \in {v \in Range(mounts) :
                                         Head(v.to) = "host-mounts"}}) :
           /\ DOMAIN config' = DOMAIN NewConfig /\ config'.fwCfg = <<>>
           /\ config'.blk = <<>> /\ config'.fdset = <<>> /\ config'.serial = <<>>
           /\ config'.daemons = EntryDaemons(e) /\ config'.mounts = EntryMounts(e)
           /\ creds' = EntryCreds(e)
<1> DEFINE sharedOf(e) == [i \in DOMAIN e |-> Shared(e[i])]
           daemonsOf(e) == [i \in DOMAIN sharedOf(e) |-> sharedOf(e)[i].daemon]
           mountsOf(e) == [i \in DOMAIN sharedOf(e) |->
                             [socket |-> sharedOf(e)[i].daemon.socket,
                              tag |-> sharedOf(e)[i].tag]]
           unitsOf(e) == [i \in DOMAIN sharedOf(e) |-> sharedOf(e)[i].unit]
           namesOf(e) == {sharedOf(e)[i].unit.name : i \in DOMAIN sharedOf(e)}
<1>1. PICK e \in Orders({v.to[2] : v \in {v \in Range(mounts) :
                                         Head(v.to) = "host-mounts"}}) :
        /\ config' = [NewConfig EXCEPT !.daemons = daemonsOf(e), !.mounts = mountsOf(e)]
        /\ creds' = unitsOf(e)
             \o (IF namesOf(e) = {} THEN <<>>
                 ELSE <<DropIn("remote-fs.target", "bcvk-mounts", namesOf(e))>>)
  BY DEF PrepareMounts
<1>2. /\ DOMAIN sharedOf(e) = DOMAIN e
      /\ \A i \in DOMAIN e : sharedOf(e)[i] = Shared(e[i])
  OBVIOUS
<1>3. /\ daemonsOf(e) = EntryDaemons(e) /\ mountsOf(e) = EntryMounts(e)
      /\ unitsOf(e) = EntryUnits(e)
  BY DEF EntryDaemons, EntryMounts, EntryUnits
<1>4. namesOf(e) = UnitNames(e)
  BY DEF UnitNames
<1> HIDE DEF sharedOf, daemonsOf, mountsOf, unitsOf, namesOf
<1>5. creds' = EntryCreds(e)
  BY <1>1, <1>3, <1>4 DEF EntryCreds
<1>6. /\ DOMAIN config' = DOMAIN NewConfig
      /\ config'.daemons = daemonsOf(e) /\ config'.mounts = mountsOf(e)
      /\ config'.fwCfg = <<>> /\ config'.blk = <<>> /\ config'.fdset = <<>>
      /\ config'.serial = <<>>
  BY <1>1 DEF NewConfig
<1> QED BY <1>1, <1>3, <1>5, <1>6

LEMMA ConfigureFields ==
  ASSUME pc = "config", Configure, DOMAIN config = DOMAIN NewConfig, IsSeq(config.fwCfg)
  PROVE  /\ Kept(config, config') /\ IsSeq(config'.fwCfg) /\ config'.blk = config.blk
         /\ config'.fdset = config.fdset /\ config'.serial = config.serial
<1> DEFINE base == [config EXCEPT !.vsock = host.vsock, !.cmdline = Cmdline,
                                  !.console = req.console, !.serialLog = env.console,
                                  !.notify = host.vsock /\ host.systemd >= 254]
           keyed == AddFwCfg(base, SshCredential, "key")
           to == <<[from |-> 2222, to |-> 22]>>
<1>1. config' = IF req.ssh THEN [keyed EXCEPT !.hostfwd = to] ELSE base
  BY DEF Configure
<1>2. /\ Kept(config, base) /\ base.fwCfg = config.fwCfg /\ base.blk = config.blk
      /\ base.fdset = config.fdset /\ base.serial = config.serial
  BY FieldsAre DEF Kept
<1> HIDE DEF base
<1>3. /\ Kept(base, keyed) /\ IsSeq(keyed.fwCfg) /\ keyed.blk = base.blk
      /\ keyed.fdset = base.fdset /\ keyed.serial = base.serial
  BY <1>2, FwCfgAdded DEF Kept
<1> HIDE DEF keyed, to
<1>4. LET last == [keyed EXCEPT !.hostfwd = to] IN
      /\ Kept(keyed, last) /\ last.fwCfg = keyed.fwCfg /\ last.blk = keyed.blk
      /\ last.fdset = keyed.fdset /\ last.serial = keyed.serial
  BY <1>2, <1>3, FieldsAre DEF Kept
<1> QED BY <1>1, <1>2, <1>3, <1>4 DEF Kept

LEMMA SwapAdded ==
  ASSUME NEW c, DOMAIN c = DOMAIN NewConfig, IsSeq(c.blk)
  PROVE  LET d == AddSwap(c) IN
         /\ Kept(c, d) /\ d.fdset = c.fdset /\ d.serial = c.serial /\ d.fwCfg = c.fwCfg
         /\ d.blk = c.blk \o SwapBlk
<1>1. CASE req.swap
  <2> DEFINE x == Blk(<<"swapfile">>, "swap", "raw", FALSE)
             d == [c EXCEPT !.blk = Append(c.blk, x)]
  <2>1. AddSwap(c) = d /\ SwapBlk = <<x>>
    BY <1>1 DEF AddSwap, AddBlk, SwapBlk, Blk
  <2> HIDE DEF x
  <2>2. /\ Kept(c, d) /\ d.fdset = c.fdset /\ d.serial = c.serial /\ d.fwCfg = c.fwCfg
        /\ d.blk = c.blk \o <<x>>
    BY BlkAdded
  <2> HIDE DEF d
  <2> QED BY <2>1, <2>2
<1>2. CASE ~req.swap
  <2>1. c.blk \o <<>> = c.blk
    BY EmptyConcat
  <2> QED BY <1>2, <2>1 DEF AddSwap, SwapBlk, Kept
<1> QED BY <1>1, <1>2

LEMMA DevicesFields ==
  ASSUME pc = "devices", Devices, DOMAIN config = DOMAIN NewConfig, IsSeq(config.fwCfg),
         config.blk = <<>>
  PROVE  /\ Kept(config, config') /\ IsSeq(config'.fwCfg)
         /\ config'.blk = IgnitionBlk \o SwapBlk
         /\ config'.fdset = config.fdset /\ config'.serial = config.serial
         /\ creds' = creds \o SwapCreds
<1>1. creds' = creds \o SwapCreds
  BY DEF Devices, SwapCreds
<1>2. ASSUME NEW c, Kept(config, c), c.fdset = config.fdset, c.serial = config.serial,
             IsSeq(c.fwCfg), c.blk = IgnitionBlk, config' = AddSwap(c)
      PROVE  /\ Kept(config, config') /\ IsSeq(config'.fwCfg)
             /\ config'.blk = IgnitionBlk \o SwapBlk
             /\ config'.fdset = config.fdset /\ config'.serial = config.serial
  <2>1. IsSeq(c.blk)
    BY <1>2, EmptyIs, OneIs DEF IgnitionBlk
  <2> QED BY <1>2, <2>1, SwapAdded DEF Kept
<1>3. CASE req.ignition = None /\ config' = AddSwap(config)
  BY <1>1, <1>2, <1>3 DEF Kept, IgnitionBlk
<1>4. CASE /\ req.ignition # None /\ host.arch \in {"x86_64", "aarch64"}
           /\ config' = AddSwap(AddFwCfg(config, IgnitionFwCfg, <<"ignition">>))
  <2> DEFINE c == AddFwCfg(config, IgnitionFwCfg, <<"ignition">>)
  <2>1. /\ Kept(config, c) /\ c.fdset = config.fdset /\ c.serial = config.serial
        /\ c.blk = config.blk /\ IsSeq(c.fwCfg)
    BY FwCfgAdded
  <2> HIDE DEF c
  <2>2. c.blk = IgnitionBlk
    BY <1>4, <2>1 DEF IgnitionBlk
  <2> QED BY <1>1, <1>2, <1>4, <2>1, <2>2 DEF c
<1>5. CASE /\ req.ignition # None /\ host.arch \in {"s390x", "powerpc64le"}
           /\ config' = AddSwap(AddBlk(config, <<"ignition">>, "ignition", "raw", TRUE))
  <2> DEFINE x == Blk(<<"ignition">>, "ignition", "raw", TRUE)
             c == [config EXCEPT !.blk = Append(config.blk, x)]
  <2>1. config' = AddSwap(c) /\ IgnitionBlk = <<x>>
    BY <1>5 DEF AddBlk, IgnitionBlk, Blk
  <2> HIDE DEF x
  <2>2. /\ Kept(config, c) /\ c.fdset = config.fdset /\ c.serial = config.serial
        /\ c.fwCfg = config.fwCfg /\ c.blk = config.blk \o <<x>>
    BY EmptyIs, BlkAdded
  <2>3. <<>> \o <<x>> = <<x>>
    BY EmptyConcat, OneIs
  <2> HIDE DEF c
  <2> QED BY <1>1, <1>2, <2>1, <2>2, <2>3
<1> QED BY <1>3, <1>4, <1>5 DEF Devices

LEMMA JournalFields ==
  ASSUME pc = "journal", JournalPipes, DOMAIN config = DOMAIN NewConfig,
         config.fdset = <<>>, config.serial = Numbered(<<>>), readers = Drains(<<>>),
         req.journal => env.journal = <<"journal.json", "journal-initrd.json">>
  PROVE  /\ Kept(config, config') /\ config'.fwCfg = config.fwCfg
         /\ config'.blk = config.blk
         /\ config'.fdset = JournalPorts /\ config'.serial = Numbered(JournalPorts)
         /\ readers' = Drains(JournalPorts)
<1>1. CASE ~Streams
  BY <1>1 DEF JournalPipes, JournalPorts, Kept
<1>2. CASE Streams
  <2> DEFINE c == AddPipe(config, JournalPort)
             d == AddPipe(c, InitrdPort)
             p == <<JournalPort>>
             q == <<JournalPort, InitrdPort>>
             to == ToStdout(req.output = "journal")
                     \cup (IF req.journal THEN {env.journal[1]} ELSE {})
             to2 == IF req.journal THEN {env.journal[2]} ELSE {}
  <2>1. config' = d /\ readers' = Reader(JournalPort, to) \o Reader(InitrdPort, to2)
    BY <1>2 DEF JournalPipes
  <2>2. /\ Append(<<>>, JournalPort) = p /\ Append(p, InitrdPort) = q
        /\ IsSeq(<<>>) /\ IsSeq(p) /\ JournalPorts = q
    BY <1>2, EmptyIs, OneIs, PairIs DEF JournalPorts
  <2>3. /\ Kept(config, c) /\ c.fwCfg = config.fwCfg /\ c.blk = config.blk
        /\ c.fdset = p /\ c.serial = Numbered(p)
    BY <2>2, PipeAdded
  <2> HIDE DEF c, p
  <2>4. /\ Kept(c, d) /\ d.fwCfg = c.fwCfg /\ d.blk = c.blk
        /\ d.fdset = q /\ d.serial = Numbered(q)
    BY <2>2, <2>3, PipeAdded DEF Kept
  <2>5. AskedTo(JournalPort) = to /\ AskedTo(InitrdPort) = to2
    <3>1. req.journal => env.journal[1] = "journal.json" /\ env.journal[2] = "journal-initrd.json"
      OBVIOUS
    <3> QED BY <3>1 DEF AskedTo, JournalTo, JournalPort, InitrdPort
  <2> HIDE DEF to, to2, d
  <2>6. readers' = <<[pipe |-> JournalPort, to |-> to], [pipe |-> InitrdPort, to |-> to2]>>
    BY <2>1, PairIs DEF Reader
  <2>7. Drains(q) = readers'
    BY <2>5, <2>6 DEF Drains
  <2> QED BY <2>1, <2>2, <2>3, <2>4, <2>7 DEF Kept
<1> QED BY <1>1, <1>2

LEMMA PortsAreSeq ==
  /\ IsSeq(JournalPorts) /\ IsSeq(ExecutePorts) /\ IsSeq(AllPorts)
  /\ Range(AllPorts) = AskedPorts
<1>1. IsSeq(JournalPorts) /\ IsSeq(ExecutePorts)
  BY TwoIs, EmptyIs DEF JournalPorts, ExecutePorts
<1>2. Range(JournalPorts) = IF Streams THEN {JournalPort, InitrdPort} ELSE {}
  <2>1. CASE Streams
    BY <2>1, TwoIs DEF JournalPorts
  <2>2. CASE ~Streams
    BY <2>2, EmptyIs DEF JournalPorts
  <2> QED BY <2>1, <2>2
<1>3. Range(ExecutePorts) = IF req.execute THEN {"execute", "executestatus"} ELSE {}
  <2>1. CASE req.execute
    BY <2>1, TwoIs DEF ExecutePorts
  <2>2. CASE ~req.execute
    BY <2>2, EmptyIs DEF ExecutePorts
  <2> QED BY <2>1, <2>2
<1> QED BY <1>1, <1>2, <1>3, ConcatIs DEF AllPorts, AskedPorts

LEMMA WireFields ==
  ASSUME pc = "wire", Wire, Inputs, DOMAIN config = DOMAIN NewConfig,
         config.blk = IgnitionBlk \o SwapBlk, env.disks = EnvDisks,
         config.fdset = JournalPorts, config.serial = Numbered(JournalPorts),
         readers = Drains(JournalPorts)
  PROVE  /\ Kept(config, config') /\ config'.fwCfg = config.fwCfg
         /\ config'.blk = AllBlk /\ config'.smbios = creds
         /\ config'.fdset = AllPorts /\ config'.serial = Numbered(AllPorts)
         /\ readers' = Drains(AllPorts)
<1> DEFINE c == IF req.execute THEN AddPipe(AddPipe(config, "execute"), "executestatus")
                ELSE config
           e == AddDisks(c)
<1>1. /\ config' = [e EXCEPT !.smbios = creds]
      /\ readers' = readers \o (IF req.execute
                                THEN Reader("execute", {"stdout"})
                                     \o Reader("executestatus", {"exit code"})
                                ELSE <<>>)
  BY DEF Wire
<1>2. /\ Kept(config, c) /\ c.fwCfg = config.fwCfg /\ c.blk = config.blk
      /\ c.fdset = AllPorts /\ c.serial = Numbered(AllPorts)
      /\ readers' = Drains(AllPorts)
  <2>1. CASE ~req.execute
    <3>1. AllPorts = JournalPorts
      BY <2>1, EmptyConcat, PortsAreSeq DEF AllPorts, ExecutePorts
    <3>2. IsSeq(Drains(JournalPorts))
      BY MappedIs, PortsAreSeq DEF Drains
    <3>3. readers' = readers
      BY <1>1, <2>1, <3>2, EmptyConcat
    <3> QED BY <2>1, <3>1, <3>3 DEF Kept
  <2>2. CASE req.execute
    <3> DEFINE f == AddPipe(config, "execute")
               g == AddPipe(f, "executestatus")
               p == JournalPorts
               q == Append(p, "execute")
               r == Append(q, "executestatus")
               x == [pipe |-> "execute", to |-> {"stdout"}]
               y == [pipe |-> "executestatus", to |-> {"exit code"}]
    <3>1. IsSeq(p) /\ IsSeq(q)
      BY PortsAreSeq, AppendPlaces
    <3>2. r = AllPorts
      BY <2>2, <3>1, TwoAppended DEF AllPorts, ExecutePorts
    <3>3. /\ Kept(config, f) /\ f.fwCfg = config.fwCfg /\ f.blk = config.blk
          /\ f.fdset = q /\ f.serial = Numbered(q)
      BY <3>1, PipeAdded
    <3> HIDE DEF f, q
    <3>4. /\ Kept(f, g) /\ g.fwCfg = f.fwCfg /\ g.blk = f.blk
          /\ g.fdset = r /\ g.serial = Numbered(r)
      <4>1. DOMAIN f = DOMAIN NewConfig /\ IsSeq(f.fdset) /\ f.serial = Numbered(f.fdset)
        BY <3>1, <3>3 DEF Kept
      <4> QED BY <3>3, <4>1, PipeAdded
    <3>5. c = g
      BY <2>2 DEF f
    <3>6. AskedTo("execute") = {"stdout"} /\ AskedTo("executestatus") = {"exit code"}
      BY DEF AskedTo, JournalPort, InitrdPort
    <3> HIDE DEF g
    <3>7. Drains(q) = Append(readers, x)
      <4>1. Drains(q) = Append(Drains(p), [pipe |-> "execute", to |-> AskedTo("execute")])
        BY <3>1, NextPort DEF q
      <4> HIDE DEF p
      <4> QED BY <3>6, <4>1 DEF p
    <3>8. Drains(r) = Append(Append(readers, x), y)
      <4>1. Drains(r) = Append(Drains(q), [pipe |-> "executestatus",
                                           to |-> AskedTo("executestatus")])
        BY <3>1, NextPort
      <4> HIDE DEF r, x
      <4> QED BY <3>6, <3>7, <4>1
    <3>9. IsSeq(readers)
      BY <3>1, MappedIs DEF Drains
    <3>10. Reader("execute", {"stdout"}) \o Reader("executestatus", {"exit code"}) = <<x, y>>
      BY PairIs DEF Reader
    <3>11. readers' = Drains(r)
      <4> HIDE DEF r, x, y
      <4>1. Append(Append(readers, x), y) = readers \o <<x, y>>
        BY <3>9, TwoAppended
      <4> QED BY <1>1, <2>2, <3>8, <3>10, <4>1
    <3> QED BY <3>2, <3>3, <3>4, <3>5, <3>11 DEF Kept
  <2> QED BY <2>1, <2>2
<1>3. IsSeq(req.disks) /\ DOMAIN DiskBlk = DOMAIN req.disks
  BY DEF Inputs, RequestOk, DiskBlk
<1> DEFINE more == [i \in DOMAIN env.disks |->
                      [file |-> env.disks[i].file, serial |-> env.disks[i].serial,
                       format |-> env.disks[i].format, ro |-> FALSE]]
<1>4. more = DiskBlk
  <2>1. DOMAIN env.disks = DOMAIN req.disks
    BY DEF EnvDisks
  <2>2. ASSUME NEW i \in DOMAIN req.disks PROVE more[i] = DiskBlk[i]
    <3> DEFINE d == req.disks[i]
               x == env.disks[i]
    <3>1. x = [file |-> DiskPath(d), serial |-> DiskName(d), format |-> DiskFormat(d)]
      BY DEF EnvDisks
    <3>2. more[i] = [file |-> x.file, serial |-> x.serial, format |-> x.format,
                     ro |-> FALSE]
      BY <2>1
    <3>3. DiskBlk[i] = [file |-> DiskPath(d), serial |-> DiskName(d),
                        format |-> DiskFormat(d), ro |-> FALSE]
      BY DEF DiskBlk, Blk
    <3> HIDE DEF d, x, more
    <3> QED BY <3>1, <3>2, <3>3
  <2> QED BY <2>1, <2>2 DEF DiskBlk
<1> HIDE DEF c, more
<1>5. e = [c EXCEPT !.blk = c.blk \o more]
  BY DEF AddDisks, more
<1> HIDE DEF e
<1>6. /\ Kept(c, e) /\ e.fwCfg = c.fwCfg /\ e.blk = AllBlk
      /\ e.fdset = c.fdset /\ e.serial = c.serial
  <2>1. c.blk \o more = AllBlk
    BY <1>2, <1>4 DEF AllBlk
  <2> QED BY <1>2, <1>5, <2>1, FieldsAre DEF Kept
<1>7. /\ Kept(e, config') /\ config'.fwCfg = e.fwCfg /\ config'.blk = e.blk
      /\ config'.fdset = e.fdset /\ config'.serial = e.serial /\ config'.smbios = creds
  BY <1>1, <1>2, <1>6, FieldsAre DEF Kept
<1> QED BY <1>2, <1>6, <1>7 DEF Kept

-----------------------------------------------------------------------------
(* The invariant is kept.                                                  *)

LEMMA ConfigFrame ==
  ASSUME UNCHANGED <<req, host>>
  PROVE  /\ JournalPorts' = JournalPorts /\ AllPorts' = AllPorts
         /\ \A p : Numbered(p)' = Numbered(p) /\ Drains(p)' = Drains(p)
         /\ IgnitionBlk' = IgnitionBlk /\ SwapBlk' = SwapBlk /\ AllBlk' = AllBlk
<1>1. Streams' = Streams /\ JournalTo' = JournalTo
  BY DEF Streams, JournalTo, ToStdout
<1>2. JournalPorts' = JournalPorts /\ AllPorts' = AllPorts
  BY <1>1 DEF JournalPorts, ExecutePorts, AllPorts
<1>3. \A p : Numbered(p)' = Numbered(p) /\ Drains(p)' = Drains(p)
  BY <1>1 DEF Numbered, Drains, AskedTo
<1>4. IgnitionBlk' = IgnitionBlk /\ SwapBlk' = SwapBlk /\ AllBlk' = AllBlk
  BY DEF IgnitionBlk, SwapBlk, DiskBlk, AllBlk
<1> QED BY <1>2, <1>3, <1>4

\* What is made of the entries depends on the volumes too.
LEMMA EntryFrame ==
  ASSUME UNCHANGED <<req, host, mounts>>
  PROVE  /\ Entries' = Entries
         /\ \A e : /\ EntryDaemons(e)' = EntryDaemons(e) /\ EntryMounts(e)' = EntryMounts(e)
                   /\ EntryCreds(e)' = EntryCreds(e) /\ ServiceCreds(e)' = ServiceCreds(e)
                   /\ AllCreds(e)' = AllCreds(e)
<1>1. Streams' = Streams
  BY DEF Streams
<1>2. Entries' = Entries
  BY PartsFrame DEF Entries, DirVolumes
<1>3. \A n : Shared(n)' = Shared(n)
  BY DEF Shared, EntryReadonly, IsReadonly
<1>4. \A e : /\ EntryDaemons(e)' = EntryDaemons(e) /\ EntryMounts(e)' = EntryMounts(e)
             /\ EntryUnits(e)' = EntryUnits(e) /\ UnitNames(e)' = UnitNames(e)
  BY <1>3 DEF EntryDaemons, EntryMounts, EntryUnits, UnitNames
<1>5. \A e : EntryCreds(e)' = EntryCreds(e)
  BY <1>4 DEF EntryCreds
<1>6. \A e : ServiceCreds(e)' = ServiceCreds(e) /\ AllCreds(e)' = AllCreds(e)
  BY <1>1, <1>5 DEF ServiceCreds, AllCreds, StreamCreds, ExecuteCreds, SwapCreds
<1> QED BY <1>2, <1>4, <1>5, <1>6

LEMMA BlkInvStep == Inputs /\ HostInv /\ PortsInv /\ BlkInv /\ [Next]_vars => BlkInv'
<1> SUFFICES ASSUME Inputs, HostInv, PortsInv, BlkInv, [Next]_vars PROVE BlkInv'
  OBVIOUS
<1>1. /\ IgnitionBlk' = IgnitionBlk /\ SwapBlk' = SwapBlk /\ AllBlk' = AllBlk
      /\ (DOMAIN NewConfig)' = DOMAIN NewConfig
  BY Acts, ConfigFrame DEF NewConfig
<1>2. CASE pc = "mounts" /\ pc' = "services" /\ PrepareMounts
  <2>1. DOMAIN config' = DOMAIN NewConfig /\ config'.fwCfg = <<>> /\ config'.blk = <<>>
    BY <1>2, MountsFields
  <2> QED BY <1>1, <1>2, <2>1, EmptyIs, Stages DEF BlkInv
<1>3. CASE pc = "config" /\ pc' = "devices" /\ Configure
  <2>1. DOMAIN config = DOMAIN NewConfig /\ IsSeq(config.fwCfg) /\ config.blk = <<>>
    BY <1>3, Stages DEF BlkInv
  <2>2. Kept(config, config') /\ IsSeq(config'.fwCfg) /\ config'.blk = config.blk
    BY <1>3, <2>1, ConfigureFields
  <2> QED BY <1>1, <1>3, <2>1, <2>2, Stages DEF BlkInv, Kept
<1>4. CASE pc = "devices" /\ pc' = "journal" /\ Devices
  <2>1. DOMAIN config = DOMAIN NewConfig /\ IsSeq(config.fwCfg) /\ config.blk = <<>>
    BY <1>4, Stages DEF BlkInv
  <2>2. /\ Kept(config, config') /\ IsSeq(config'.fwCfg)
        /\ config'.blk = IgnitionBlk \o SwapBlk
    BY <1>4, <2>1, DevicesFields
  <2> QED BY <1>1, <1>4, <2>1, <2>2, Stages DEF BlkInv, Kept
<1>5. CASE pc = "journal" /\ pc' = "wire" /\ JournalPipes
  <2>1. /\ DOMAIN config = DOMAIN NewConfig /\ IsSeq(config.fwCfg)
        /\ config.blk = IgnitionBlk \o SwapBlk
        /\ config.fdset = <<>> /\ config.serial = Numbered(<<>>) /\ readers = Drains(<<>>)
        /\ req.journal => env.journal = <<"journal.json", "journal-initrd.json">>
    BY <1>5, Stages DEF BlkInv, PortsInv, PortsAre, HostInv
  <2>2. Kept(config, config') /\ config'.fwCfg = config.fwCfg /\ config'.blk = config.blk
    BY <1>5, <2>1, JournalFields
  <2> QED BY <1>1, <1>5, <2>1, <2>2, Stages DEF BlkInv, Kept
<1>6. CASE pc = "wire" /\ pc' = "spawn" /\ Wire
  <2>1. /\ DOMAIN config = DOMAIN NewConfig /\ IsSeq(config.fwCfg)
        /\ config.blk = IgnitionBlk \o SwapBlk /\ env.disks = EnvDisks
        /\ config.fdset = JournalPorts /\ config.serial = Numbered(JournalPorts)
        /\ readers = Drains(JournalPorts)
    BY <1>6, Stages DEF BlkInv, PortsInv, PortsAre, HostInv
  <2>2. Kept(config, config') /\ config'.fwCfg = config.fwCfg /\ config'.blk = AllBlk
    BY <1>6, <2>1, WireFields
  <2> QED BY <1>1, <1>6, <2>1, <2>2, Stages DEF BlkInv, Kept
<1>7. CASE pc' \notin AfterMounts
  BY <1>7 DEF BlkInv
<1>8. CASE /\ UNCHANGED config
           /\ pc' \in AfterMounts => pc \in AfterMounts
           /\ pc' \in AfterDevices <=> pc \in AfterDevices
           /\ pc' \in AfterWire <=> pc \in AfterWire
  BY <1>1, <1>8 DEF BlkInv
<1> QED BY <1>2, <1>3, <1>4, <1>5, <1>6, <1>7, <1>8, Acts, Stages DEF vars

LEMMA PortsInvStep == Inputs /\ HostInv /\ PortsInv /\ BlkInv /\ [Next]_vars => PortsInv'
<1> SUFFICES ASSUME Inputs, HostInv, PortsInv, BlkInv, [Next]_vars PROVE PortsInv'
  OBVIOUS
<1>1. /\ JournalPorts' = JournalPorts /\ AllPorts' = AllPorts
      /\ \A p : Numbered(p)' = Numbered(p) /\ Drains(p)' = Drains(p)
  BY Acts, ConfigFrame
<1>2. Numbered(<<>>) = <<>> /\ Drains(<<>>) = <<>>
  BY DEF Numbered, Drains
<1>3. CASE pc = "mounts" /\ pc' = "services" /\ PrepareMounts /\ UNCHANGED readers
  <2>1. config'.fdset = <<>> /\ config'.serial = <<>>
    BY <1>3, MountsFields
  <2>2. readers' = <<>>
    BY <1>3, Stages DEF PortsInv
  <2> QED BY <1>1, <1>2, <1>3, <2>1, <2>2, Stages DEF PortsInv, PortsAre
<1>4. CASE pc = "config" /\ pc' = "devices" /\ Configure /\ UNCHANGED readers
  <2>1. DOMAIN config = DOMAIN NewConfig /\ IsSeq(config.fwCfg) /\ PortsAre(<<>>)
    BY <1>4, Stages DEF BlkInv, PortsInv
  <2>2. config'.fdset = config.fdset /\ config'.serial = config.serial
    BY <1>4, <2>1, ConfigureFields
  <2> QED BY <1>1, <1>4, <2>1, <2>2, Stages DEF PortsInv, PortsAre
<1>5. CASE pc = "devices" /\ pc' = "journal" /\ Devices /\ UNCHANGED readers
  <2>1. /\ DOMAIN config = DOMAIN NewConfig /\ IsSeq(config.fwCfg) /\ config.blk = <<>>
        /\ PortsAre(<<>>)
    BY <1>5, Stages DEF BlkInv, PortsInv
  <2>2. config'.fdset = config.fdset /\ config'.serial = config.serial
    BY <1>5, <2>1, DevicesFields
  <2> QED BY <1>1, <1>5, <2>1, <2>2, Stages DEF PortsInv, PortsAre
<1>6. CASE pc = "journal" /\ pc' = "wire" /\ JournalPipes
  <2>1. /\ DOMAIN config = DOMAIN NewConfig
        /\ config.fdset = <<>> /\ config.serial = Numbered(<<>>) /\ readers = Drains(<<>>)
        /\ req.journal => env.journal = <<"journal.json", "journal-initrd.json">>
    BY <1>6, Stages DEF BlkInv, PortsInv, PortsAre, HostInv
  <2>2. /\ config'.fdset = JournalPorts /\ config'.serial = Numbered(JournalPorts)
        /\ readers' = Drains(JournalPorts)
    BY <1>6, <2>1, JournalFields
  <2> QED BY <1>1, <1>6, <2>2, Stages DEF PortsInv, PortsAre
<1>7. CASE pc = "wire" /\ pc' = "spawn" /\ Wire
  <2>1. /\ DOMAIN config = DOMAIN NewConfig
        /\ config.blk = IgnitionBlk \o SwapBlk /\ env.disks = EnvDisks
        /\ config.fdset = JournalPorts /\ config.serial = Numbered(JournalPorts)
        /\ readers = Drains(JournalPorts)
    BY <1>7, Stages DEF BlkInv, PortsInv, PortsAre, HostInv
  <2>2. /\ config'.fdset = AllPorts /\ config'.serial = Numbered(AllPorts)
        /\ readers' = Drains(AllPorts)
    BY <1>7, <2>1, WireFields
  <2> QED BY <1>1, <1>7, <2>2, Stages DEF PortsInv, PortsAre
<1>8. CASE pc' = "failed"
  BY <1>8, Stages DEF PortsInv
<1>9. CASE /\ UNCHANGED readers
           /\ pc' \notin AfterMounts /\ pc' # "failed"
           /\ pc \notin AfterMounts /\ pc # "failed"
  BY <1>9 DEF PortsInv
<1>10. CASE /\ UNCHANGED <<config, readers>>
            /\ pc' \in AfterMounts <=> pc \in AfterMounts
            /\ pc' \in AfterJournal <=> pc \in AfterJournal
            /\ pc' \in AfterWire <=> pc \in AfterWire
            /\ pc' = "failed" <=> pc = "failed"
  BY <1>1, <1>10 DEF PortsInv, PortsAre
<1> QED BY <1>3, <1>4, <1>5, <1>6, <1>7, <1>8, <1>9, <1>10, Acts, Stages DEF vars

LEMMA MountsInvStep ==
  Inputs /\ HostInv /\ PortsInv /\ BlkInv /\ MountsInv /\ [Next]_vars => MountsInv'
<1> SUFFICES ASSUME Inputs, HostInv, PortsInv, BlkInv, MountsInv, [Next]_vars
             PROVE  MountsInv'
  OBVIOUS
<1> DEFINE CredsAt(e, p) == IF p = "services" THEN EntryCreds(e)
                            ELSE IF p \in {"config", "devices"} THEN ServiceCreds(e)
                            ELSE AllCreds(e)
<1>1. ASSUME UNCHANGED mounts
      PROVE  /\ Entries' = Entries /\ Orders(Entries)' = Orders(Entries)
             /\ \A e : /\ EntryDaemons(e)' = EntryDaemons(e)
                       /\ EntryMounts(e)' = EntryMounts(e)
                       /\ EntryCreds(e)' = EntryCreds(e) /\ ServiceCreds(e)' = ServiceCreds(e)
                       /\ AllCreds(e)' = AllCreds(e)
  BY <1>1, Acts, EntryFrame DEF Orders
<1>2. CASE pc = "mounts" /\ pc' = "services" /\ PrepareMounts /\ UNCHANGED mounts
  <2>1. mounts = AllVolumes
    BY <1>2, Stages DEF HostInv
  <2>2. PICK e \in Orders(Entries) :
          /\ config'.daemons = EntryDaemons(e) /\ config'.mounts = EntryMounts(e)
          /\ creds' = EntryCreds(e)
    BY <1>2, <2>1, MountsFields DEF Entries, DirVolumes
  <2>3. pc' \notin AfterWire
    BY <1>2, Stages
  <2> QED BY <1>1, <1>2, <2>2, <2>3 DEF MountsInv
<1>3. ASSUME pc \in AfterMounts, UNCHANGED mounts,
             \A e \in Orders(Entries) :
               creds = CredsAt(e, pc) => creds' = CredsAt(e, pc'),
             config'.daemons = config.daemons, config'.mounts = config.mounts,
             pc' \in AfterWire => \/ pc \in AfterWire /\ config'.smbios = config.smbios
                                  \/ config'.smbios = creds /\ pc = "wire"
      PROVE  MountsInv'
  <2>1. PICK e \in Orders(Entries) :
          /\ config.daemons = EntryDaemons(e) /\ config.mounts = EntryMounts(e)
          /\ creds = CredsAt(e, pc)
          /\ pc \in AfterWire => config.smbios = AllCreds(e)
    BY <1>3 DEF MountsInv
  <2>2. creds' = CredsAt(e, pc') /\ (pc = "wire" => creds = AllCreds(e))
    BY <1>3, <2>1
  <2> HIDE DEF CredsAt
  <2>3. /\ config'.daemons = EntryDaemons(e) /\ config'.mounts = EntryMounts(e)
        /\ pc' \in AfterWire => config'.smbios = AllCreds(e)
    BY <1>3, <2>1, <2>2
  <2> QED BY <1>1, <1>3, <2>2, <2>3 DEF MountsInv, CredsAt
<1> HIDE DEF CredsAt
<1>4. CASE pc = "services" /\ pc' = "config" /\ PrepareUnits /\ UNCHANGED <<mounts, config>>
  <2>1. creds' = creds \o StreamCreds \o ExecuteCreds
    BY <1>4 DEF PrepareUnits, StreamCreds, ExecuteCreds
  <2>2. pc \in AfterMounts /\ pc' \notin AfterWire
    BY <1>4, Stages
  <2> QED BY <1>3, <1>4, <2>1, <2>2 DEF ServiceCreds, CredsAt
<1>5. CASE pc = "config" /\ pc' = "devices" /\ Configure /\ UNCHANGED <<mounts, creds>>
  <2>1. DOMAIN config = DOMAIN NewConfig /\ IsSeq(config.fwCfg)
    BY <1>5, Stages DEF BlkInv
  <2>2. Kept(config, config')
    BY <1>5, <2>1, ConfigureFields
  <2>3. pc \in AfterMounts /\ pc' \notin AfterWire
    BY <1>5, Stages
  <2> QED BY <1>3, <1>5, <2>2, <2>3 DEF CredsAt, Kept
<1>6. CASE pc = "devices" /\ pc' = "journal" /\ Devices /\ UNCHANGED mounts
  <2>1. DOMAIN config = DOMAIN NewConfig /\ IsSeq(config.fwCfg) /\ config.blk = <<>>
    BY <1>6, Stages DEF BlkInv
  <2>2. Kept(config, config') /\ creds' = creds \o SwapCreds
    BY <1>6, <2>1, DevicesFields
  <2>3. pc \in AfterMounts /\ pc' \notin AfterWire
    BY <1>6, Stages
  <2> QED BY <1>3, <1>6, <2>2, <2>3 DEF CredsAt, AllCreds, Kept
<1>7. CASE pc = "journal" /\ pc' = "wire" /\ JournalPipes /\ UNCHANGED <<mounts, creds>>
  <2>1. /\ DOMAIN config = DOMAIN NewConfig
        /\ config.fdset = <<>> /\ config.serial = Numbered(<<>>) /\ readers = Drains(<<>>)
        /\ req.journal => env.journal = <<"journal.json", "journal-initrd.json">>
    BY <1>7, Stages DEF BlkInv, PortsInv, PortsAre, HostInv
  <2>2. Kept(config, config')
    BY <1>7, <2>1, JournalFields
  <2>3. pc \in AfterMounts /\ pc' \notin AfterWire
    BY <1>7, Stages
  <2> QED BY <1>3, <1>7, <2>2, <2>3 DEF CredsAt, Kept
<1>8. CASE pc = "wire" /\ pc' = "spawn" /\ Wire /\ UNCHANGED <<mounts, creds>>
  <2>1. /\ DOMAIN config = DOMAIN NewConfig
        /\ config.blk = IgnitionBlk \o SwapBlk /\ env.disks = EnvDisks
        /\ config.fdset = JournalPorts /\ config.serial = Numbered(JournalPorts)
        /\ readers = Drains(JournalPorts)
    BY <1>8, Stages DEF BlkInv, PortsInv, PortsAre, HostInv
  <2>2. Kept(config, config') /\ config'.smbios = creds
    BY <1>8, <2>1, WireFields
  <2>3. pc \in AfterMounts
    BY <1>8, Stages
  <2> QED BY <1>3, <1>8, <2>2, <2>3 DEF CredsAt, Kept
<1>9. CASE pc = "spawn" /\ pc' = "done" /\ UNCHANGED <<mounts, config, creds>>
  <2>1. pc \in AfterMounts /\ pc \in AfterWire
    BY <1>9, Stages
  <2> QED BY <1>3, <1>9, <2>1 DEF CredsAt
<1>10. CASE pc' \notin AfterMounts
  BY <1>10 DEF MountsInv
<1>11. CASE UNCHANGED vars /\ pc \in AfterMounts
  BY <1>3, <1>11 DEF vars
<1> QED BY <1>2, <1>4, <1>5, <1>6, <1>7, <1>8, <1>9, <1>10, <1>11, Acts, Stages DEF vars

AllArgs ==
  AddFds(config) \o Drives(config) \o BlkDevices(config) \o BootArgs
    \o VirtiofsArgs(config) \o SerialArgs(config)
    \o <<[opt |-> "-netdev", hostfwd |-> config.hostfwd]>>
    \o ConsoleArgs(config) \o VsockArgs(config) \o CredentialArgs(config)

LEMMA ArgvInvStep == ArgvInv /\ [Next]_vars => ArgvInv'
<1> SUFFICES ASSUME ArgvInv, [Next]_vars PROVE ArgvInv'
  OBVIOUS
<1>1. ASSUME UNCHANGED <<host, boot, config>> PROVE AllArgs' = AllArgs
  BY <1>1 DEF AllArgs, AddFds, Drives, BlkDevices, BootArgs, Chardev, FsDevice,
              VirtiofsArgs, SerialArgs, ConsoleArgs, VsockArgs, FreeCids, CredentialArgs
<1>2. CASE pc' # "done"
  BY <1>2 DEF ArgvInv
<1>3. CASE pc = "spawn" /\ pc' = "done" /\ Spawn
  <2>1. UNCHANGED <<host, boot, config>> /\ argv' = AllArgs
    BY <1>3 DEF Spawn, Unchanged, Fail, AllArgs
  <2> QED BY <1>1, <2>1 DEF ArgvInv, AllArgs
<1>4. CASE UNCHANGED vars
  <2>1. pc = "done" => argv = AllArgs
    BY DEF ArgvInv, AllArgs
  <2>2. UNCHANGED <<host, boot, config, argv, pc>>
    BY <1>4 DEF vars
  <2> QED BY <1>1, <2>1, <2>2 DEF ArgvInv, AllArgs
<1> QED BY <1>2, <1>3, <1>4, Acts DEF vars

\* The invariant of the specification.
IInv == Inputs /\ HostInv /\ BootInv /\ MountsInv /\ PortsInv /\ BlkInv /\ ArgvInv

LEMMA Initially == Init => IInv
<1> SUFFICES ASSUME Init PROVE IInv
  OBVIOUS
<1>1. Inputs
  BY InputAssumption DEF Init, Inputs
<1>2. pc = "ignition" /\ readers = <<>> /\ DOMAIN env = {"disks", "journal", "console"}
  BY DEF Init
<1> QED BY <1>1, <1>2, Stages
        DEF IInv, HostInv, BootInv, MountsInv, PortsInv, BlkInv, ArgvInv

-----------------------------------------------------------------------------
(* The command line: a part for each list, and the names in it.            *)

\* What is known when the command line has been made.
Built(e) ==
  /\ IInv /\ pc = "done" /\ e \in Orders(Entries)
  /\ config.daemons = EntryDaemons(e) /\ config.mounts = EntryMounts(e)
  /\ config.smbios = AllCreds(e)

LEMMA DoneIsBuilt == IInv /\ pc = "done" => \E e : Built(e)
BY Stages DEF IInv, MountsInv, Built

\* The identifier of a character device, or the name of a credential.
Named(x) == x.opt \in {"-chardev", "-smbios"}
NameOf(x) ==
  IF x.opt = "-chardev" THEN x.id ELSE <<"-smbios", x.value.kind, x.value.name>>

\* A part of a command line that gives no name twice, and none but those of N.
Part(s, N) ==
  /\ IsSeq(s)
  /\ \A i \in DOMAIN s : Named(s[i]) => NameOf(s[i]) \in N
  /\ \A i, j \in DOMAIN s :
       Named(s[i]) /\ Named(s[j]) /\ NameOf(s[i]) = NameOf(s[j]) => i = j

LEMMA ConcatPart ==
  ASSUME NEW s, NEW t, NEW M, NEW N, Part(s, M), Part(t, N), M \cap N = {}
  PROVE  Part(s \o t, M \cup N)
<1> DEFINE c == s \o t
<1>1. IsSeq(s) /\ IsSeq(t) /\ IsSeq(c)
  BY ConcatIs DEF Part
<1>2. /\ \A x \in Range(s) : Named(x) => NameOf(x) \in M
      /\ \A x \in Range(t) : Named(x) => NameOf(x) \in N
  BY DEF Part, Range
<1>3. \A x \in Range(c) : Named(x) => NameOf(x) \in M \cup N
  BY <1>1, <1>2, ConcatIs
<1>4. ASSUME NEW i \in DOMAIN c, NEW j \in DOMAIN c, i # j,
             Named(c[i]), Named(c[j]), NameOf(c[i]) = NameOf(c[j])
      PROVE  FALSE
  <2>1. \/ \E k, l \in DOMAIN s : k # l /\ c[i] = s[k] /\ c[j] = s[l]
        \/ \E k, l \in DOMAIN t : k # l /\ c[i] = t[k] /\ c[j] = t[l]
        \/ c[i] \in Range(s) /\ c[j] \in Range(t)
        \/ c[i] \in Range(t) /\ c[j] \in Range(s)
    BY <1>1, <1>4, ConcatPair
  <2> HIDE DEF c
  <2> QED BY <1>2, <1>4, <2>1 DEF Part
<1> HIDE DEF c
<1>5. \A i \in DOMAIN c : Named(c[i]) => NameOf(c[i]) \in M \cup N
  BY <1>3 DEF Range
<1> QED BY <1>1, <1>4, <1>5 DEF Part, c

LEMMA NamelessPart ==
  ASSUME NEW s, IsSeq(s), \A i \in DOMAIN s : ~Named(s[i])
  PROVE  Part(s, {})
BY DEF Part

LEMMA OnePart ==
  ASSUME NEW x, NEW n, Named(x) => NameOf(x) = n
  PROVE  Part(<<x>>, {n})
<1>1. IsSeq(<<x>>) /\ DOMAIN <<x>> = {1} /\ <<x>>[1] = x
  BY OneIs
<1> QED BY <1>1 DEF Part

\* The names of the ten parts.
RootNames == {<<"char", 0>>}
FsNames == {<<"char", i>> : i \in Nat \ {0}}
PortNames == {<<"serial_char", i>> : i \in Nat}
ConsoleNames == {<<"console", 0>>}
NotifyCred == [kind |-> "vmm.notify_socket", name |-> <<>>, content |-> << >>]
CredNames ==
  {<<"-smbios", c.kind, c.name>> : c \in Range(config.smbios) \cup {NotifyCred}}

LEMMA NamesApart ==
  /\ RootNames \cap FsNames = {} /\ RootNames \cap PortNames = {}
  /\ RootNames \cap ConsoleNames = {} /\ RootNames \cap CredNames = {}
  /\ FsNames \cap PortNames = {} /\ FsNames \cap ConsoleNames = {}
  /\ FsNames \cap CredNames = {} /\ PortNames \cap ConsoleNames = {}
  /\ PortNames \cap CredNames = {} /\ ConsoleNames \cap CredNames = {}
<1>1. /\ \A n \in RootNames : n[1] = "char" /\ n[2] = 0
      /\ \A n \in FsNames : n[1] = "char" /\ n[2] # 0
      /\ \A n \in PortNames : n[1] = "serial_char"
      /\ \A n \in ConsoleNames : n[1] = "console"
      /\ \A n \in CredNames : n[1] = "-smbios"
  BY DEF RootNames, FsNames, PortNames, ConsoleNames, CredNames
<1> QED BY <1>1

LEMMA VirtiofsPart ==
  ASSUME NEW c, IsSeq(c.mounts)
  PROVE  Part(VirtiofsArgs(c), FsNames)
<1> DEFINE a == [i \in DOMAIN c.mounts |-> Chardev(<<"char", i>>, "socket", c.mounts[i].socket)]
           b == [i \in DOMAIN c.mounts |-> FsDevice(<<"char", i>>, c.mounts[i].tag)]
<1>1. IsSeq(a) /\ IsSeq(b)
  BY MappedIs
<1>2. \A i \in DOMAIN a : i \in Nat \ {0} /\ Named(a[i]) /\ NameOf(a[i]) = <<"char", i>>
  BY SeqIs DEF Chardev, Named, NameOf
<1>3. \A i \in DOMAIN b : ~Named(b[i])
  BY DEF FsDevice, Named
<1>4. Part(b, {})
  BY <1>1, <1>3, NamelessPart
<1> HIDE DEF a, b
<1>5. Part(a, FsNames)
  BY <1>1, <1>2 DEF Part, FsNames
<1>6. Part(a \o b, FsNames)
  BY <1>4, <1>5, ConcatPart
<1> QED BY <1>6 DEF VirtiofsArgs, a, b

LEMMA SerialPart ==
  ASSUME NEW c, IsSeq(c.serial)
  PROVE  Part(SerialArgs(c), PortNames)
<1> DEFINE a == [i \in DOMAIN c.serial |->
                   Chardev(<<"serial_char", i - 1>>, "file", c.serial[i].fdset)]
           b == [i \in DOMAIN c.serial |->
                   [opt |-> "-device", driver |-> "virtserialport",
                    chardev |-> <<"serial_char", i - 1>>, name |-> c.serial[i].name]]
<1>1. IsSeq(a) /\ IsSeq(b)
  BY MappedIs
<1>2. \A i \in DOMAIN a : /\ i \in Nat \ {0} /\ i - 1 \in Nat
                          /\ Named(a[i]) /\ NameOf(a[i]) = <<"serial_char", i - 1>>
  BY SeqIs DEF Chardev, Named, NameOf
<1>3. \A i \in DOMAIN b : ~Named(b[i])
  BY DEF Named
<1>4. Part(b, {})
  BY <1>1, <1>3, NamelessPart
<1> HIDE DEF a, b
<1>5. ASSUME NEW i \in DOMAIN a, NEW j \in DOMAIN a, NameOf(a[i]) = NameOf(a[j])
      PROVE  i = j
  <2>1. i - 1 = j - 1
    BY <1>2, <1>5
  <2> QED BY <1>2, <2>1
<1>6. Part(a, PortNames)
  BY <1>1, <1>2, <1>5 DEF Part, PortNames
<1>7. Part(a \o b, PortNames)
  BY <1>4, <1>6, ConcatPart
<1> QED BY <1>7 DEF SerialArgs, a, b

LEMMA ConsolePart ==
  ASSUME NEW c
  PROVE  Part(ConsoleArgs(c), ConsoleNames)
<1> DEFINE a == [opt |-> "-serial", file |-> c.serialLog]
           b == [opt |-> "-device", driver |-> "virtconsole", chardev |-> <<"console", 0>>]
           d == Chardev(<<"console", 0>>, "stdio", None)
           more == IF c.console THEN <<b, d>> ELSE <<>>
<1>1. ~Named(a) /\ ~Named(b) /\ NameOf(d) = <<"console", 0>>
  BY DEF Named, Chardev, NameOf
<1> HIDE DEF a, b, d
<1>2. Part(<<a>>, {}) /\ Part(<<b>>, {})
  BY <1>1, OneIs, NamelessPart
<1>3. Part(<<d>>, ConsoleNames)
  BY <1>1, OnePart DEF ConsoleNames
<1>4. Part(<<b, d>>, ConsoleNames)
  <2>1. Part(<<b>> \o <<d>>, ConsoleNames)
    BY <1>2, <1>3, ConcatPart
  <2>2. <<b>> \o <<d>> = <<b, d>>
    BY PairIs
  <2> QED BY <2>1, <2>2
<1>5. Part(<<>>, ConsoleNames)
  BY EmptyIs DEF Part
<1>6. Part(more, ConsoleNames)
  BY <1>4, <1>5
<1> HIDE DEF more
<1>7. Part(<<a>> \o more, ConsoleNames)
  BY <1>2, <1>6, ConcatPart
<1> QED BY <1>7 DEF ConsoleArgs, a, b, d, more

LEMMA RootPart == Part(BootArgs, RootNames)
<1> DEFINE a == [opt |-> "-kernel", file |-> boot]
           b == Chardev(<<"char", 0>>, "socket", RootSocket)
           d == FsDevice(<<"char", 0>>, <<"rootfs">>)
<1>1. ~Named(a) /\ NameOf(b) = <<"char", 0>> /\ ~Named(d)
  BY DEF Named, Chardev, FsDevice, NameOf
<1> HIDE DEF a, b, d
<1>2. IsSeq(<<a, b, d>>) /\ DOMAIN <<a, b, d>> = {1, 2, 3}
      /\ <<a, b, d>>[1] = a /\ <<a, b, d>>[2] = b /\ <<a, b, d>>[3] = d
  BY ThreeIs
<1>3. Part(<<a, b, d>>, RootNames)
  <2> DEFINE s == <<a, b, d>>
  <2>1. \A i \in DOMAIN s : Named(s[i]) => i = 2 /\ s[i] = b
    BY <1>1, <1>2
  <2> HIDE DEF s
  <2> QED BY <1>1, <1>2, <2>1 DEF Part, RootNames, s
<1> QED BY <1>3 DEF BootArgs, a, b, d

LEMMA CredentialPart ==
  ASSUME IsSeq(config.smbios), Keyed(config.smbios), IsSeq(config.fwCfg),
         \A c \in Range(config.smbios) : c.kind # "vmm.notify_socket"
  PROVE  Part(CredentialArgs(config), CredNames)
<1> DEFINE c == config
           a == [i \in DOMAIN c.smbios |-> [opt |-> "-smbios", value |-> c.smbios[i]]]
           n == [opt |-> "-smbios", value |-> NotifyCred]
           b == IF c.notify THEN <<n>> ELSE <<>>
           f == [i \in DOMAIN c.fwCfg |-> [opt |-> "-fw_cfg", name |-> c.fwCfg[i].name,
                                           file |-> c.fwCfg[i].file]]
           Keys == {<<"-smbios", x.kind, x.name>> : x \in Range(c.smbios)}
           key == <<"-smbios", "vmm.notify_socket", <<>>>>
<1>1. IsSeq(a) /\ IsSeq(f)
  BY MappedIs
<1>2. \A i \in DOMAIN f : ~Named(f[i])
  BY DEF Named
<1>3. Part(f, {})
  BY <1>1, <1>2, NamelessPart
<1>4. \A i \in DOMAIN a : NameOf(a[i]) = <<"-smbios", c.smbios[i].kind, c.smbios[i].name>>
  BY DEF NameOf
<1>5. NameOf(n) = key
  BY DEF NameOf, NotifyCred
<1>6. DOMAIN a = DOMAIN c.smbios
  OBVIOUS
<1> HIDE DEF a, f, n
<1>7. Part(a, Keys)
  <2>1. \A i \in DOMAIN a : NameOf(a[i]) \in Keys
    BY <1>4, <1>6 DEF Range
  <2>2. \A i, j \in DOMAIN a : NameOf(a[i]) = NameOf(a[j]) => i = j
    BY <1>4, <1>6 DEF Keyed
  <2> QED BY <1>1, <2>1, <2>2 DEF Part
<1>8. Part(<<n>>, {key}) /\ Part(<<>>, {key})
  BY <1>5, OnePart, EmptyIs DEF Part
<1>9. Part(b, {key})
  BY <1>8
<1>10. Keys \cap {key} = {}
  OBVIOUS
<1>11. Keys \cup {key} = CredNames
  <2>1. key = <<"-smbios", NotifyCred.kind, NotifyCred.name>>
    BY DEF NotifyCred
  <2> HIDE DEF key
  <2> QED BY <2>1 DEF CredNames
<1> HIDE DEF b, Keys, key
<1>12. Part(a \o b, CredNames)
  BY <1>7, <1>9, <1>10, <1>11, ConcatPart
<1>13. Part(a \o b \o f, CredNames)
  BY <1>3, <1>12, ConcatPart
<1> QED BY <1>13 DEF CredentialArgs, a, b, f, n, NotifyCred

\* The parts, and the command line they make.
P1 == AddFds(config)
P2 == Drives(config)
P3 == BlkDevices(config)
P5 == VirtiofsArgs(config)
P6 == SerialArgs(config)
P7 == <<[opt |-> "-netdev", hostfwd |-> config.hostfwd]>>
P8 == ConsoleArgs(config)
P9 == VsockArgs(config)
P10 == CredentialArgs(config)

\* The parts of a command line that names nothing twice.
PartsOk ==
  /\ Part(P1, {}) /\ Part(P2, {}) /\ Part(P3, {}) /\ Part(BootArgs, RootNames)
  /\ Part(P5, FsNames) /\ Part(P6, PortNames) /\ Part(P7, {}) /\ Part(P8, ConsoleNames)
  /\ Part(P9, {}) /\ Part(P10, CredNames)

AllNames == RootNames \cup FsNames \cup PortNames \cup ConsoleNames \cup CredNames

LEMMA WholePart ==
  ASSUME PartsOk
  PROVE  /\ Part(AllArgs, AllNames)
         /\ Range(AllArgs) = Range(P1) \cup Range(P2) \cup Range(P3) \cup Range(BootArgs)
              \cup Range(P5) \cup Range(P6) \cup Range(P7) \cup Range(P8) \cup Range(P9)
              \cup Range(P10)
<1> DEFINE s2 == P1 \o P2
           s3 == s2 \o P3
           s4 == s3 \o BootArgs
           s5 == s4 \o P5
           s6 == s5 \o P6
           s7 == s6 \o P7
           s8 == s7 \o P8
           s9 == s8 \o P9
           s10 == s9 \o P10
<1>a. ASSUME NEW s, NEW t, NEW M, NEW N, Part(s, M), Part(t, N), M \cap N = {}
      PROVE  Part(s \o t, M \cup N) /\ Range(s \o t) = Range(s) \cup Range(t)
  BY <1>a, ConcatPart, ConcatIs DEF Part
<1>b. ASSUME NEW s, NEW t, NEW M, Part(s, M), Part(t, {})
      PROVE  Part(s \o t, M) /\ Range(s \o t) = Range(s) \cup Range(t)
  <2>1. Part(s \o t, M \cup {}) /\ Range(s \o t) = Range(s) \cup Range(t)
    BY <1>b, <1>a
  <2> QED BY <2>1
<1>2. Part(s2, {}) /\ Range(s2) = Range(P1) \cup Range(P2)
  BY <1>b DEF PartsOk
<1> HIDE DEF s2
<1>3. Part(s3, {}) /\ Range(s3) = Range(s2) \cup Range(P3)
  BY <1>2, <1>b DEF PartsOk
<1> HIDE DEF s3
<1>4. Part(s4, RootNames) /\ Range(s4) = Range(s3) \cup Range(BootArgs)
  BY <1>3, <1>a DEF PartsOk
<1> HIDE DEF s4
<1>5. Part(s5, RootNames \cup FsNames) /\ Range(s5) = Range(s4) \cup Range(P5)
  BY <1>4, <1>a, NamesApart DEF PartsOk
<1> HIDE DEF s5
<1>6. /\ Part(s6, RootNames \cup FsNames \cup PortNames)
      /\ Range(s6) = Range(s5) \cup Range(P6)
  <2>1. (RootNames \cup FsNames) \cap PortNames = {}
    BY NamesApart
  <2> QED BY <1>5, <1>a, <2>1 DEF PartsOk
<1> HIDE DEF s6
<1> DEFINE n6 == RootNames \cup FsNames \cup PortNames
<1>7. Part(s7, n6) /\ Range(s7) = Range(s6) \cup Range(P7)
  <2> HIDE DEF n6
  <2> QED BY <1>6, <1>b DEF PartsOk, n6
<1> HIDE DEF s7
<1>8. Part(s8, n6 \cup ConsoleNames) /\ Range(s8) = Range(s7) \cup Range(P8)
  <2>1. n6 \cap ConsoleNames = {}
    BY NamesApart
  <2> HIDE DEF n6
  <2> QED BY <1>7, <1>a, <2>1 DEF PartsOk
<1> HIDE DEF s8
<1>9. Part(s9, n6 \cup ConsoleNames) /\ Range(s9) = Range(s8) \cup Range(P9)
  <2> HIDE DEF n6
  <2> QED BY <1>8, <1>b DEF PartsOk
<1> HIDE DEF s9
<1>10. Part(s10, n6 \cup ConsoleNames \cup CredNames) /\ Range(s10) = Range(s9) \cup Range(P10)
  <2>1. (n6 \cup ConsoleNames) \cap CredNames = {}
    BY NamesApart
  <2> HIDE DEF n6
  <2> QED BY <1>9, <1>a, <2>1 DEF PartsOk
<1>11. s10 = AllArgs
  BY DEF AllArgs, P1, P2, P3, P5, P6, P7, P8, P9, P10, s2, s3, s4, s5, s6, s7, s8, s9
<1>12. AllNames = n6 \cup ConsoleNames \cup CredNames
  BY DEF AllNames
<1> HIDE DEF s10, n6
<1> QED BY <1>2, <1>3, <1>4, <1>5, <1>6, <1>7, <1>8, <1>9, <1>10, <1>11, <1>12

-----------------------------------------------------------------------------
(* What is shared, and under which names.                                  *)

LEMMA VolumesAre ==
  ASSUME Inputs
  PROVE  /\ IsSeq(StorageVolumes) /\ IsSeq(BindVolumes(req.rw, FALSE))
         /\ IsSeq(BindVolumes(req.ro, TRUE)) /\ IsSeq(DiskVolumes) /\ IsSeq(IgnitionVolumes)
         /\ IsSeq(AllVolumes)
         /\ Range(AllVolumes) = Range(StorageVolumes) \cup Range(BindVolumes(req.rw, FALSE))
              \cup Range(BindVolumes(req.ro, TRUE)) \cup Range(DiskVolumes)
              \cup Range(IgnitionVolumes)
<1> DEFINE a == StorageVolumes
           b == BindVolumes(req.rw, FALSE)
           c == BindVolumes(req.ro, TRUE)
           d == DiskVolumes
           i == IgnitionVolumes
<1>1. IsSeq(req.rw) /\ IsSeq(req.ro) /\ IsSeq(req.disks)
  BY DEF Inputs, RequestOk
<1>2. IsSeq(b) /\ IsSeq(c) /\ IsSeq(d)
  BY <1>1, MappedIs DEF BindVolumes, DiskVolumes
<1>3. IsSeq(a) /\ IsSeq(i)
  BY EmptyIs, OneIs DEF StorageVolumes, IgnitionVolumes
<1> HIDE DEF a, b, c, d, i
<1>4. IsSeq(a \o b) /\ Range(a \o b) = Range(a) \cup Range(b)
  BY <1>2, <1>3, ConcatIs
<1>5. IsSeq(a \o b \o c) /\ Range(a \o b \o c) = Range(a \o b) \cup Range(c)
  BY <1>2, <1>4, ConcatIs
<1>6. IsSeq(a \o b \o c \o d) /\ Range(a \o b \o c \o d) = Range(a \o b \o c) \cup Range(d)
  BY <1>2, <1>5, ConcatIs
<1>7. /\ IsSeq(a \o b \o c \o d \o i)
      /\ Range(a \o b \o c \o d \o i) = Range(a \o b \o c \o d) \cup Range(i)
  BY <1>3, <1>6, ConcatIs
<1>8. AllVolumes = a \o b \o c \o d \o i
  BY DEF AllVolumes, a, b, c, d, i
<1> QED BY <1>2, <1>3, <1>4, <1>5, <1>6, <1>7, <1>8 DEF a, b, c, d, i

\* The volumes of the directories, and those of files.
LEMMA VolumesFrom ==
  ASSUME Inputs
  PROVE  /\ \A v \in Range(StorageVolumes) :
              /\ req.storage /\ v.from = host.storage /\ v.ro = TRUE
              /\ v.to = <<"host-mounts">> \o StorageName
         /\ \A v \in Range(BindVolumes(req.rw, FALSE)) : \E b \in Range(req.rw) :
              v.from = b.dir /\ v.to = <<"host-mounts">> \o b.name /\ v.ro = FALSE
         /\ \A v \in Range(BindVolumes(req.ro, TRUE)) : \E b \in Range(req.ro) :
              v.from = b.dir /\ v.to = <<"host-mounts">> \o b.name /\ v.ro = TRUE
         /\ \A v \in Range(DiskVolumes) : \E d \in Range(req.disks) :
              v = Volume(d.file, DiskPath(d), FALSE)
         /\ \A v \in Range(IgnitionVolumes) :
              /\ req.ignition # None /\ v.to = <<"ignition">> /\ v.from = req.ignition
<1>1. \A v \in Range(StorageVolumes) :
        /\ req.storage /\ v.from = host.storage /\ v.ro = TRUE
        /\ v.to = <<"host-mounts">> \o StorageName
  <2>1. CASE req.storage
    <3> DEFINE w == Volume(host.storage, <<"host-mounts">> \o StorageName, TRUE)
    <3>1. w.from = host.storage /\ w.ro = TRUE /\ w.to = <<"host-mounts">> \o StorageName
      BY DEF Volume
    <3>2. StorageVolumes = <<w>>
      BY <2>1 DEF StorageVolumes
    <3> HIDE DEF w
    <3> QED BY <2>1, <3>1, <3>2, OneIs
  <2>2. CASE ~req.storage
    BY <2>2, EmptyIs DEF StorageVolumes
  <2> QED BY <2>1, <2>2
<1>2. ASSUME NEW v \in Range(BindVolumes(req.rw, FALSE))
      PROVE  \E b \in Range(req.rw) :
               v.from = b.dir /\ v.to = <<"host-mounts">> \o b.name /\ v.ro = FALSE
  <2>1. PICK i \in DOMAIN BindVolumes(req.rw, FALSE) : v = BindVolumes(req.rw, FALSE)[i]
    BY DEF Range
  <2>2. i \in DOMAIN req.rw /\ req.rw[i] \in Range(req.rw)
    BY DEF BindVolumes, Range
  <2>3. v.from = req.rw[i].dir /\ v.to = <<"host-mounts">> \o req.rw[i].name /\ v.ro = FALSE
    BY <2>1, <2>2 DEF BindVolumes, Volume
  <2> QED BY <2>2, <2>3
<1>3. ASSUME NEW v \in Range(BindVolumes(req.ro, TRUE))
      PROVE  \E b \in Range(req.ro) :
               v.from = b.dir /\ v.to = <<"host-mounts">> \o b.name /\ v.ro = TRUE
  <2>1. PICK i \in DOMAIN BindVolumes(req.ro, TRUE) : v = BindVolumes(req.ro, TRUE)[i]
    BY DEF Range
  <2>2. i \in DOMAIN req.ro /\ req.ro[i] \in Range(req.ro)
    BY DEF BindVolumes, Range
  <2>3. v.from = req.ro[i].dir /\ v.to = <<"host-mounts">> \o req.ro[i].name /\ v.ro = TRUE
    BY <2>1, <2>2 DEF BindVolumes, Volume
  <2> QED BY <2>2, <2>3
<1>4. \A v \in Range(DiskVolumes) : \E d \in Range(req.disks) :
        v = Volume(d.file, DiskPath(d), FALSE)
  BY DEF DiskVolumes, Range
<1>5. \A v \in Range(IgnitionVolumes) :
        req.ignition # None /\ v.to = <<"ignition">> /\ v.from = req.ignition
  <2>1. CASE req.ignition # None
    <3> DEFINE w == Volume(req.ignition, <<"ignition">>, TRUE)
    <3>1. w.from = req.ignition /\ w.to = <<"ignition">>
      BY DEF Volume
    <3>2. IgnitionVolumes = <<w>>
      BY <2>1 DEF IgnitionVolumes
    <3> HIDE DEF w
    <3> QED BY <2>1, <3>1, <3>2, OneIs
  <2>2. CASE req.ignition = None
    BY <2>2, EmptyIs DEF IgnitionVolumes
  <2> QED BY <2>1, <2>2
<1> QED BY <1>1, <1>2, <1>3, <1>4, <1>5

LEMMA PathHeads ==
  /\ \A n : IsSeq(n) => Head(<<"host-mounts">> \o n) = "host-mounts"
                        /\ Tail(<<"host-mounts">> \o n) = n
  /\ \A d : Head(DiskPath(d)) = "disk-files"
  /\ Head(<<"ignition">>) = "ignition" /\ Head(<<"swapfile">>) = "swapfile"
<1>1. \A n : IsSeq(n) => Head(<<"host-mounts">> \o n) = "host-mounts"
                        /\ Tail(<<"host-mounts">> \o n) = n
  BY ConsIs
<1>2. \A d : Head(DiskPath(d)) = "disk-files"
  BY DEF DiskPath
<1> QED BY <1>1, <1>2

\* One sequence comes first in another.
LEMMA PrefixIs ==
  ASSUME NEW s, NEW t, IsSeq(s), IsSeq(t)
  PROVE  IsPrefix(s, t) <=> Len(s) <= Len(t) /\ \A i \in DOMAIN s : s[i] = t[i]
<1>1. /\ Len(s) \in Nat /\ DOMAIN s = 1..Len(s) /\ Len(t) \in Nat /\ DOMAIN t = 1..Len(t)
      /\ s \in Seq(Range(s)) /\ t \in Seq(Range(t))
  BY SeqIs
<1> SUFFICES ASSUME Len(s) <= Len(t)
             PROVE  SubSeq(s, 1, Len(s)) = SubSeq(t, 1, Len(s))
                      <=> \A i \in DOMAIN s : s[i] = t[i]
  BY DEF IsPrefix
<1> DEFINE a == SubSeq(s, 1, Len(s))
           b == SubSeq(t, 1, Len(s))
<1>2. a \in Seq(Range(s)) /\ Len(a) = Len(s) /\ \A i \in 1..Len(s) : a[i] = s[i]
  BY <1>1
<1>3. b \in Seq(Range(t)) /\ Len(b) = Len(s) /\ \A i \in 1..Len(s) : b[i] = t[i]
  BY <1>1
<1> HIDE DEF a, b
<1>4. IsSeq(a) /\ IsSeq(b) /\ DOMAIN a = 1..Len(s)
  BY <1>1, <1>2, <1>3 DEF IsSeq, Range
<1>5. (\A i \in 1..Len(s) : s[i] = t[i]) => a = b
  BY <1>2, <1>3, <1>4, SamePlaces
<1> QED BY <1>1, <1>2, <1>3, <1>5 DEF a, b

\* The name of a volume, and the entry it is or is below.
LEMMA NameParts ==
  ASSUME NEW n, NameOk(n)
  PROVE  LET t == <<"host-mounts">> \o n IN
         /\ IsSeq(n) /\ IsSeq(n[1]) /\ "\\x2d" \notin Range(n[1])
         /\ Head(n) = n[1] /\ t[2] = n[1] /\ Head(t) = "host-mounts" /\ Tail(t) = n
         /\ \A k : IsPrefix(At(k), t) <=> k = n[1]
         /\ \A k : t = At(k) <=> n = <<k>>
         /\ \A k : IsPrefix(<<k>>, n) <=> k = n[1]
<1> DEFINE t == <<"host-mounts">> \o n
<1>1. IsSeq(n) /\ Len(n) \in Nat /\ DOMAIN n = 1..Len(n) /\ n \in Seq(Range(n))
  BY SeqIs DEF NameOk
<1>2. Len(n) > 0 /\ 1 \in DOMAIN n /\ Head(n) = n[1] /\ n[1] \in Range(n)
  BY <1>1 DEF NameOk, Range
<1>3. IsSeq(n[1]) /\ "\\x2d" \notin Range(n[1])
  BY <1>2 DEF NameOk
<1>4. Head(t) = "host-mounts" /\ Tail(t) = n
  BY <1>1, ConsIs
<1>5. IsSeq(t) /\ Len(t) = 1 + Len(n) /\ t[1] = "host-mounts" /\ t[2] = n[1]
  <2>1. /\ IsSeq(<<"host-mounts">>) /\ Len(<<"host-mounts">>) = 1
        /\ DOMAIN <<"host-mounts">> = {1} /\ <<"host-mounts">>[1] = "host-mounts"
    BY OneIs
  <2> QED BY <1>1, <1>2, <2>1, ConcatIs
<1> HIDE DEF t
<1>6. ASSUME NEW k PROVE IsPrefix(At(k), t) <=> k = n[1]
  <2>1. /\ IsSeq(At(k)) /\ DOMAIN At(k) = {1, 2} /\ Len(At(k)) = 2
        /\ At(k)[1] = "host-mounts" /\ At(k)[2] = k
    BY TwoIs DEF At
  <2>2. IsPrefix(At(k), t) <=>
          Len(At(k)) <= Len(t) /\ \A i \in DOMAIN At(k) : At(k)[i] = t[i]
    BY <1>5, <2>1, PrefixIs
  <2>3. 2 <= Len(t)
    BY <1>1, <1>2, <1>5
  <2> HIDE DEF At
  <2> QED BY <1>5, <2>1, <2>2, <2>3
<1>7. ASSUME NEW k PROVE t = At(k) <=> n = <<k>>
  <2>1. ASSUME n = <<k>> PROVE t = At(k)
    BY <2>1, PairIs DEF t, At
  <2>2. ASSUME t = At(k) PROVE n = <<k>>
    <3>1. At(k) = <<"host-mounts">> \o <<k>> /\ IsSeq(<<k>>)
      BY PairIs, OneIs DEF At
    <3>2. Tail(At(k)) = <<k>>
      BY <3>1, ConsIs
    <3> QED BY <1>4, <2>2, <3>2
  <2> QED BY <2>1, <2>2
<1>8. ASSUME NEW k PROVE IsPrefix(<<k>>, n) <=> k = n[1]
  <2>1. IsSeq(<<k>>) /\ DOMAIN <<k>> = {1} /\ Len(<<k>>) = 1 /\ <<k>>[1] = k
    BY OneIs
  <2> QED BY <1>1, <1>2, <2>1, PrefixIs
<1> QED BY <1>1, <1>2, <1>3, <1>4, <1>5, <1>6, <1>7, <1>8 DEF t

LEMMA StorageNameOk == NameOk(StorageName)
<1> DEFINE c == <<"hoststorage">>
<1>1. IsSeq(c) /\ Range(c) = {"hoststorage"} /\ Len(c) = 1 /\ c[1] = "hoststorage"
  BY OneIs
<1>2. c # <<>> /\ c # <<".">> /\ c # <<".", ".">>
  OBVIOUS
<1>3. StorageName = <<c>>
  BY DEF StorageName
<1> HIDE DEF c
<1>4. IsSeq(<<c>>) /\ Range(<<c>>) = {c} /\ <<c>> # <<>>
  BY OneIs
<1> QED BY <1>1, <1>2, <1>3, <1>4 DEF NameOk

\* What a volume at v becomes in the guest, and whether that was asked for.
MountOf(v) ==
  [path |-> MountPoint(Head(Tail(v.to))), below |-> Tail(Tail(v.to)), dir |-> v.from,
   rw |-> ~v.ro /\ host.dirs[v.from].writable]

\* The name of a shared directory, and what is asked of it.
LEMMA EntryIs ==
  ASSUME Inputs, NEW v \in DirVolumes
  PROVE  LET n == Tail(v.to) IN
         /\ NameOk(n) /\ n \in Names(req)
         /\ v.to = <<"host-mounts">> \o n
         /\ v \in Range(AllVolumes)
         /\ v.ro \in BOOLEAN
         /\ MountOf(v) \in AskedMounts
<1> DEFINE Good(n) ==
      /\ NameOk(n) /\ n \in Names(req)
      /\ v.to = <<"host-mounts">> \o n
      /\ v \in Range(AllVolumes)
      /\ v.ro \in BOOLEAN
      /\ [path |-> MountPoint(Head(n)), below |-> Tail(n), dir |-> v.from,
          rw |-> ~v.ro /\ host.dirs[v.from].writable] \in AskedMounts
<1>1. v \in Range(AllVolumes) /\ Head(v.to) = "host-mounts"
  BY DEF DirVolumes
<1>2. ASSUME NEW n, Good(n) PROVE Good(Tail(v.to))
  <2>1. IsSeq(n) /\ v.to = <<"host-mounts">> \o n
    BY <1>2 DEF NameOk
  <2>2. Tail(v.to) = n
    BY <2>1, PathHeads
  <2> HIDE DEF Good
  <2> QED BY <1>2, <2>2
<1>3. ASSUME v \in Range(StorageVolumes) PROVE Good(Tail(v.to))
  <2>1. /\ req.storage /\ v.from = host.storage /\ v.ro = TRUE
        /\ v.to = <<"host-mounts">> \o StorageName
    BY <1>3, VolumesFrom
  <2>2. AskedMount(StorageName, host.storage, TRUE) \in AskedMounts
    BY <2>1 DEF AskedMounts
  <2>3. [path |-> MountPoint(Head(StorageName)), below |-> Tail(StorageName),
         dir |-> v.from, rw |-> ~v.ro /\ host.dirs[v.from].writable] \in AskedMounts
    BY <2>1, <2>2 DEF AskedMount
  <2>4. StorageName \in Names(req)
    BY <2>1 DEF Names
  <2>5. Good(StorageName)
    BY <1>1, <2>1, <2>3, <2>4, StorageNameOk
  <2> HIDE DEF Good
  <2> QED BY <1>2, <2>5
<1>4. ASSUME v \in Range(BindVolumes(req.rw, FALSE)) PROVE Good(Tail(v.to))
  <2>1. PICK b \in Range(req.rw) :
          v.from = b.dir /\ v.to = <<"host-mounts">> \o b.name /\ v.ro = FALSE
    BY <1>4, VolumesFrom
  <2>2. NameOk(b.name) /\ b.name \in Names(req)
    BY DEF Inputs, RequestOk, Names
  <2>3. AskedMount(b.name, b.dir, FALSE) \in AskedMounts
    BY DEF AskedMounts
  <2>4. [path |-> MountPoint(Head(b.name)), below |-> Tail(b.name), dir |-> v.from,
         rw |-> ~v.ro /\ host.dirs[v.from].writable] \in AskedMounts
    BY <2>1, <2>3 DEF AskedMount
  <2>5. Good(b.name)
    BY <1>1, <2>1, <2>2, <2>4
  <2> HIDE DEF Good
  <2> QED BY <1>2, <2>5
<1>5. ASSUME v \in Range(BindVolumes(req.ro, TRUE)) PROVE Good(Tail(v.to))
  <2>1. PICK b \in Range(req.ro) :
          v.from = b.dir /\ v.to = <<"host-mounts">> \o b.name /\ v.ro = TRUE
    BY <1>5, VolumesFrom
  <2>2. NameOk(b.name) /\ b.name \in Names(req)
    BY DEF Inputs, RequestOk, Names
  <2>3. AskedMount(b.name, b.dir, TRUE) \in AskedMounts
    BY DEF AskedMounts
  <2>4. [path |-> MountPoint(Head(b.name)), below |-> Tail(b.name), dir |-> v.from,
         rw |-> ~v.ro /\ host.dirs[v.from].writable] \in AskedMounts
    BY <2>1, <2>3 DEF AskedMount
  <2>5. Good(b.name)
    BY <1>1, <2>1, <2>2, <2>4
  <2> HIDE DEF Good
  <2> QED BY <1>2, <2>5
<1>6. v \notin Range(DiskVolumes) /\ v \notin Range(IgnitionVolumes)
  BY <1>1, VolumesFrom, PathHeads DEF Volume
<1>7. Good(Tail(v.to)) => MountOf(v) \in AskedMounts
  BY DEF MountOf
<1> HIDE DEF Good
<1>8. Good(Tail(v.to))
  BY <1>1, <1>3, <1>4, <1>5, <1>6, VolumesAre
<1> QED BY <1>7, <1>8 DEF Good

\* Every directory that is asked for is a volume.
LEMMA AskedIsEntry ==
  ASSUME Inputs, NEW m \in AskedMounts
  PROVE  \E v \in DirVolumes : m = MountOf(v)
<1>1. ASSUME NEW v \in Range(AllVolumes), NEW n, IsSeq(n), v.to = <<"host-mounts">> \o n
      PROVE  v \in DirVolumes /\ Tail(v.to) = n
  BY <1>1, PathHeads DEF DirVolumes
<1>2. CASE req.storage /\ m = AskedMount(StorageName, host.storage, TRUE)
  <2> DEFINE v == Volume(host.storage, <<"host-mounts">> \o StorageName, TRUE)
  <2>1. v.from = host.storage /\ v.ro = TRUE /\ v.to = <<"host-mounts">> \o StorageName
    BY DEF Volume
  <2>2. StorageVolumes = <<v>>
    BY <1>2 DEF StorageVolumes
  <2> HIDE DEF v
  <2>3. v \in Range(AllVolumes)
    BY <2>2, OneIs, VolumesAre
  <2>4. v \in DirVolumes /\ Tail(v.to) = StorageName
    BY <1>1, <2>1, <2>3, StorageNameOk DEF NameOk
  <2> QED BY <1>2, <2>1, <2>4 DEF AskedMount, MountOf
<1>3. ASSUME NEW b \in Range(req.rw), m = AskedMount(b.name, b.dir, FALSE)
      PROVE  \E v \in DirVolumes : m = MountOf(v)
  <2>1. PICK i \in DOMAIN req.rw : b = req.rw[i]
    BY DEF Range
  <2> DEFINE v == BindVolumes(req.rw, FALSE)[i]
  <2>2. v.from = b.dir /\ v.ro = FALSE /\ v.to = <<"host-mounts">> \o b.name
        /\ v \in Range(BindVolumes(req.rw, FALSE))
    BY <2>1 DEF BindVolumes, Volume, Range
  <2> HIDE DEF v
  <2>3. v \in Range(AllVolumes) /\ IsSeq(b.name)
    BY <2>2, VolumesAre DEF Inputs, RequestOk, NameOk
  <2>4. v \in DirVolumes /\ Tail(v.to) = b.name
    BY <1>1, <2>2, <2>3
  <2> QED BY <1>3, <2>2, <2>4 DEF AskedMount, MountOf
<1>4. ASSUME NEW b \in Range(req.ro), m = AskedMount(b.name, b.dir, TRUE)
      PROVE  \E v \in DirVolumes : m = MountOf(v)
  <2>1. PICK i \in DOMAIN req.ro : b = req.ro[i]
    BY DEF Range
  <2> DEFINE v == BindVolumes(req.ro, TRUE)[i]
  <2>2. v.from = b.dir /\ v.ro = TRUE /\ v.to = <<"host-mounts">> \o b.name
        /\ v \in Range(BindVolumes(req.ro, TRUE))
    BY <2>1 DEF BindVolumes, Volume, Range
  <2> HIDE DEF v
  <2>3. v \in Range(AllVolumes) /\ IsSeq(b.name)
    BY <2>2, VolumesAre DEF Inputs, RequestOk, NameOk
  <2>4. v \in DirVolumes /\ Tail(v.to) = b.name
    BY <1>1, <2>2, <2>3
  <2> QED BY <1>4, <2>2, <2>4 DEF AskedMount, MountOf
<1> QED BY <1>2, <1>3, <1>4 DEF AskedMounts

\* What is not a directory is in none of them.
LEMMA PlainPlaces ==
  ASSUME Inputs, NEW v \in Range(AllVolumes), NEW k, IsPrefix(At(k), v.to)
  PROVE  Head(v.to) = "host-mounts"
<1>1. IsSeq(At(k)) /\ Len(At(k)) = 2 /\ 1 \in DOMAIN At(k) /\ At(k)[1] = "host-mounts"
  BY TwoIs DEF At
<1>2. ASSUME NEW t, IsSeq(t), t # <<>>, Head(t) # "host-mounts" PROVE t # v.to
  <2>1. t[1] # "host-mounts"
    BY <1>2, SeqIs
  <2> QED BY <1>1, <1>2, <2>1, PrefixIs
<1>3. CASE v \in Range(StorageVolumes)
  BY <1>3, VolumesFrom, PathHeads, StorageNameOk DEF NameOk
<1>4. CASE v \in Range(BindVolumes(req.rw, FALSE))
  <2>1. PICK b \in Range(req.rw) : v.to = <<"host-mounts">> \o b.name
    BY <1>4, VolumesFrom
  <2>2. IsSeq(b.name)
    BY DEF Inputs, RequestOk, NameOk
  <2> QED BY <2>1, <2>2, PathHeads
<1>5. CASE v \in Range(BindVolumes(req.ro, TRUE))
  <2>1. PICK b \in Range(req.ro) : v.to = <<"host-mounts">> \o b.name
    BY <1>5, VolumesFrom
  <2>2. IsSeq(b.name)
    BY DEF Inputs, RequestOk, NameOk
  <2> QED BY <2>1, <2>2, PathHeads
<1>6. CASE v \in Range(DiskVolumes)
  <2>1. PICK d \in Range(req.disks) : v = Volume(d.file, DiskPath(d), FALSE)
    BY <1>6, VolumesFrom
  <2>2. v.to = DiskPath(d) /\ IsSeq(DiskPath(d)) /\ DiskPath(d) # <<>>
    BY <2>1, TwoIs DEF Volume, DiskPath
  <2>3. Head(DiskPath(d)) # "host-mounts"
    BY PathHeads
  <2> QED BY <1>2, <2>2, <2>3
<1>7. CASE v \in Range(IgnitionVolumes)
  <2>1. v.to = <<"ignition">> /\ IsSeq(<<"ignition">>) /\ <<"ignition">> # <<>>
    BY <1>7, VolumesFrom, OneIs
  <2>2. Head(<<"ignition">>) # "host-mounts"
    BY PathHeads
  <2> QED BY <1>2, <2>1, <2>2
<1> QED BY <1>3, <1>4, <1>5, <1>6, <1>7, VolumesAre

LEMMA RangeFinite ==
  ASSUME NEW s, IsSeq(s)
  PROVE  IsFiniteSet(Range(s))
<1>1. Len(s) \in Nat /\ DOMAIN s = 1..Len(s) /\ s \in Seq(Range(s))
  BY SeqIs
<1>2. IsFiniteSet(1..Len(s))
  BY <1>1, FS_Interval
<1>3. s \in [1..Len(s) -> Range(s)]
  BY <1>1
<1>4. s \in Surjection(1..Len(s), Range(s))
  BY <1>1, <1>3 DEF Surjection, Range
<1> QED BY <1>2, <1>4, FS_Surjection

\* An order of a finite set holds each element once.
LEMMA OrderIs ==
  ASSUME NEW S, IsFiniteSet(S), NEW e \in Orders(S)
  PROVE  IsSeq(e) /\ Range(e) = S /\ \A i, j \in DOMAIN e : e[i] = e[j] => i = j
<1> DEFINE n == Cardinality(S)
<1>1. n \in Nat /\ e \in [1..n -> S] /\ Range(e) = S
  BY FS_CardinalityType DEF Orders
<1>2. IsFiniteSet(1..n) /\ Cardinality(1..n) = n
  BY <1>1, FS_Interval
<1>3. e \in Surjection(1..n, S)
  BY <1>1 DEF Surjection, Range
<1>4. e \in Injection(1..n, S)
  BY <1>2, <1>3, FS_Surjection
<1>5. \A i, j \in DOMAIN e : e[i] = e[j] => i = j
  BY <1>1, <1>4 DEF Injection, IsInjective
<1>6. IsSeq(e)
  BY <1>1 DEF IsSeq
<1> QED BY <1>1, <1>5, <1>6

\* podman gives each volume a place of its own.
LEMMA TargetsApart ==
  ASSUME IInv, pc = "done"
  PROVE  /\ mounts = AllVolumes
         /\ \A i, j \in DOMAIN mounts : mounts[i].to = mounts[j].to => i = j
         /\ \A v, w \in Range(mounts) : v.to = w.to => v = w
<1>1. pc \in AfterBinds /\ pc \in AfterPodman
  BY Stages
<1>2. /\ mounts = AllVolumes
      /\ \A i, j \in DOMAIN mounts : mounts[i].to = mounts[j].to => i = j
  BY <1>1 DEF IInv, HostInv
<1> QED BY <1>2 DEF Range

\* The names things are given can be told apart if those of the directories can.
LEMMA MountPointIs ==
  ASSUME NEW n, IsSeq(n)
  PROVE  /\ "\\x2d" \notin Range(n) => GuestPath(MountPoint(n))
         /\ \A m : IsSeq(m) /\ MountPoint(m) = MountPoint(n) => m = n
<1> DEFINE p == <<"/", "run", "/", "virtiofs", "-", "mnt", "-">>
<1>1. Range(p) = {"/", "run", "virtiofs", "-", "mnt"} /\ Len(p) = 7
      /\ DOMAIN p = 1..7 /\ p[1] = "/"
  BY DEF Range
<1>2. IsSeq(p)
  BY <1>1 DEF IsSeq
<1>3. MountPoint(n) = p \o n
  BY DEF MountPoint
<1>4. \A m : IsSeq(m) /\ MountPoint(m) = MountPoint(n) => m = n
  <2> SUFFICES ASSUME NEW m, IsSeq(m), MountPoint(m) = MountPoint(n) PROVE m = n
    OBVIOUS
  <2>1. MountPoint(m) = p \o m
    BY DEF MountPoint
  <2> HIDE DEF p
  <2> QED BY <1>2, <1>3, <2>1, PrefixInjective
<1> DEFINE c == p \o n
<1> HIDE DEF p
<1>5. /\ IsSeq(c) /\ Range(c) = Range(p) \cup Range(n) /\ Len(c) = Len(p) + Len(n)
      /\ c[1] = "/" /\ Len(n) \in Nat
  <2>1. IsSeq(c) /\ Range(c) = Range(p) \cup Range(n) /\ Len(c) = Len(p) + Len(n)
    BY <1>2, ConcatIs
  <2>2. \A i \in DOMAIN p : c[i] = p[i]
    BY <1>2, ConcatIs
  <2>3. 1 \in DOMAIN p
    BY <1>1
  <2> QED BY <1>1, <2>1, <2>2, <2>3, SeqIs
<1> HIDE DEF c
<1>6. c # <<>> /\ Head(c) = "/"
  <2>1. c \in Seq(Range(c)) /\ Len(c) > 0
    BY <1>1, <1>5, SeqIs
  <2> QED BY <1>5, <2>1
<1>7. "\\x2d" \notin Range(p)
  BY <1>1
<1>8. "\\x2d" \notin Range(n) => GuestPath(c)
  BY <1>5, <1>6, <1>7 DEF GuestPath
<1> QED BY <1>3, <1>4, <1>8 DEF c

LEMMA TagsApart ==
  ASSUME NEW m, NEW n, IsSeq(m), IsSeq(n), m # n
  PROVE  MountTag(m) # MountTag(n) /\ Socket(m) # Socket(n)
<1>1. MountTag(m) # MountTag(n)
  BY OneIs, PrefixInjective DEF MountTag
<1>2. Socket(m) # Socket(n)
  <2> DEFINE a == <<"virtiofs-">>
             z == <<".sock">>
  <2>1. IsSeq(a) /\ IsSeq(z)
    BY OneIs
  <2>2. Socket(m) = a \o m \o z /\ Socket(n) = a \o n \o z
    BY DEF Socket
  <2> HIDE DEF a, z
  <2>3. IsSeq(a \o m) /\ IsSeq(a \o n)
    BY <2>1, ConcatIs
  <2>4. a \o m # a \o n
    BY <2>1, PrefixInjective
  <2> QED BY <2>1, <2>2, <2>3, <2>4, SuffixInjective
<1> QED BY <1>1, <1>2

LEMMA TagIs ==
  ASSUME NEW n, IsSeq(n)
  PROVE  MountTag(n) # <<"rootfs">>
<1>1. <<"mount_">>[1] = "mount_" /\ DOMAIN <<"mount_">> = {1} /\ IsSeq(<<"mount_">>)
  BY OneIs
<1>2. (<<"mount_">> \o n)[1] = "mount_"
  BY <1>1, ConcatIs
<1>3. <<"rootfs">>[1] = "rootfs"
  OBVIOUS
<1> DEFINE a == MountTag(n)
           b == <<"rootfs">>
<1>4. a[1] = "mount_" /\ b[1] = "rootfs"
  BY <1>2, <1>3 DEF MountTag
<1> HIDE DEF a, b
<1>5. a # b
  BY <1>4
<1> QED BY <1>5 DEF a, b

\* The entries in the order the directory is read in.
LEMMA EntryOrder ==
  ASSUME NEW e, Built(e)
  PROVE  /\ IsSeq(e) /\ Range(e) = Entries /\ Inputs
         /\ \A i \in DOMAIN e :
              e[i] \in Entries /\ IsSeq(e[i]) /\ GuestPath(MountPoint(e[i]))
         /\ \A i, j \in DOMAIN e : e[i] = e[j] => i = j
<1>1. Inputs /\ e \in Orders(Entries)
  BY DEF Built, IInv
<1>2. IsFiniteSet(Entries)
  <2>1. IsFiniteSet(DirVolumes)
    BY <1>1, VolumesAre, RangeFinite, FS_Subset DEF DirVolumes
  <2> DEFINE f == [v \in DirVolumes |-> v.to[2]]
  <2>2. f \in Surjection(DirVolumes, Entries)
    BY DEF Surjection, Entries
  <2> HIDE DEF f
  <2> QED BY <2>1, <2>2, FS_Surjection
<1>3. /\ IsSeq(e) /\ Range(e) = Entries
      /\ \A i, j \in DOMAIN e : e[i] = e[j] => i = j
  BY <1>1, <1>2, OrderIs
<1>4. \A i \in DOMAIN e : e[i] \in Entries
  BY <1>3 DEF Range
<1>5. ASSUME NEW k \in Entries PROVE IsSeq(k) /\ "\\x2d" \notin Range(k)
  <2>1. PICK v \in DirVolumes : k = v.to[2]
    BY DEF Entries
  <2>2. NameOk(Tail(v.to)) /\ v.to = <<"host-mounts">> \o Tail(v.to)
    BY <1>1, EntryIs
  <2> QED BY <2>1, <2>2, NameParts
<1>6. \A i \in DOMAIN e : IsSeq(e[i]) /\ GuestPath(MountPoint(e[i]))
  BY <1>4, <1>5, MountPointIs
<1> QED BY <1>1, <1>3, <1>4, <1>6

-----------------------------------------------------------------------------
(* The credentials: no two of them have one name.                          *)

\* Units of services S and drop-ins F, given once.
Svc(s, S, F) ==
  /\ IsSeq(s) /\ Keyed(s)
  /\ \A c \in Range(s) :
       \/ c.kind = "systemd.extra-unit" /\ \E x \in S : c.name = <<x>>
       \/ c.kind = "systemd.unit-dropin" /\ c.name \in F

LEMMA ThreeSvc ==
  ASSUME NEW a, NEW b, a # b, NEW t, NEW f, NEW w
  PROVE  Svc(<<Service(a), Service(b), DropIn(t, f, w)>>, {a, b}, {<<t, f>>})
<1> DEFINE x == Service(a)
           y == Service(b)
           z == DropIn(t, f, w)
           s == <<x, y, z>>
<1>1. /\ x.kind = "systemd.extra-unit" /\ x.name = <<a>>
      /\ y.kind = "systemd.extra-unit" /\ y.name = <<b>>
      /\ z.kind = "systemd.unit-dropin" /\ z.name = <<t, f>>
  BY ServicesAre
<1> HIDE DEF x, y, z
<1>2. IsSeq(s) /\ Range(s) = {x, y, z} /\ DOMAIN s = {1, 2, 3}
      /\ s[1] = x /\ s[2] = y /\ s[3] = z
  BY ThreeIs
<1> HIDE DEF s
<1>3. <<a>> # <<b>>
  OBVIOUS
<1>4. Keyed(s)
  BY <1>1, <1>2, <1>3 DEF Keyed
<1>5. Svc(s, {a, b}, {<<t, f>>})
  BY <1>1, <1>2, <1>4 DEF Svc
<1> QED BY <1>5 DEF s, x, y, z

LEMMA TwoSvc ==
  ASSUME NEW a, NEW t, NEW f, NEW w
  PROVE  Svc(<<Service(a), DropIn(t, f, w)>>, {a}, {<<t, f>>})
<1> DEFINE x == Service(a)
           z == DropIn(t, f, w)
           s == <<x, z>>
<1>1. /\ x.kind = "systemd.extra-unit" /\ x.name = <<a>>
      /\ z.kind = "systemd.unit-dropin" /\ z.name = <<t, f>>
  BY ServicesAre
<1> HIDE DEF x, z
<1>2. IsSeq(s) /\ Range(s) = {x, z} /\ DOMAIN s = {1, 2} /\ s[1] = x /\ s[2] = z
  BY TwoIs
<1> HIDE DEF s
<1>4. Keyed(s)
  BY <1>1, <1>2 DEF Keyed
<1>5. Svc(s, {a}, {<<t, f>>})
  BY <1>1, <1>2, <1>4 DEF Svc
<1> QED BY <1>5 DEF s, x, z

LEMMA NoSvc == \A S, F : Svc(<<>>, S, F)
BY EmptyIs DEF Svc, Keyed

StreamSvcs == {JournalService, JournalInitrdService}
ExecuteSvcs == {ExecuteService, FinishService}
SwapSvcs == {SwapService}

LEMMA SvcsAre ==
  /\ Svc(StreamCreds, StreamSvcs, {<<"sysinit.target", "bcvk-journal">>})
  /\ Svc(ExecuteCreds, ExecuteSvcs, {<<"multi-user.target", "bcvk-execute">>})
  /\ Svc(SwapCreds, SwapSvcs, {<<"basic.target", "bcvk-swap">>})
<1>1. JournalService # JournalInitrdService /\ ExecuteService # FinishService
  BY DEF JournalService, JournalInitrdService, ExecuteService, FinishService
<1>2. Svc(StreamCreds, StreamSvcs, {<<"sysinit.target", "bcvk-journal">>})
  BY <1>1, ThreeSvc, NoSvc DEF StreamCreds, JournalStream, StreamSvcs
<1>3. Svc(ExecuteCreds, ExecuteSvcs, {<<"multi-user.target", "bcvk-execute">>})
  BY <1>1, ThreeSvc, NoSvc DEF ExecuteCreds, ExecuteUnits, ExecuteSvcs
<1>4. Svc(SwapCreds, SwapSvcs, {<<"basic.target", "bcvk-swap">>})
  BY TwoSvc, NoSvc DEF SwapCreds, SwapUnits, SwapSvcs
<1> QED BY <1>2, <1>3, <1>4

\* The units of the services, in one sequence.
OwnSvcs == StreamSvcs \cup ExecuteSvcs \cup SwapSvcs
OwnDropIns ==
  {<<"sysinit.target", "bcvk-journal">>, <<"multi-user.target", "bcvk-execute">>,
   <<"basic.target", "bcvk-swap">>}

LEMMA EntryUnitsKeyed ==
  ASSUME NEW e, Built(e)
  PROVE  /\ IsSeq(EntryUnits(e)) /\ Keyed(EntryUnits(e))
         /\ \A i \in DOMAIN e :
              LET u == Shared(e[i]).unit IN
              /\ u.kind = "systemd.extra-unit"
              /\ u.name = UnitName(MountPoint(e[i]))
              /\ u.content = [what |-> MountTag(e[i]),
                              where |-> MountPoint(e[i]), ro |-> EntryReadonly(e[i])]
         /\ Range(EntryUnits(e)) = {Shared(e[i]).unit : i \in DOMAIN e}
<1>1. /\ IsSeq(e)
      /\ \A i \in DOMAIN e : IsSeq(e[i]) /\ GuestPath(MountPoint(e[i]))
      /\ \A i, j \in DOMAIN e : e[i] = e[j] => i = j
  BY EntryOrder
<1>2. IsSeq(EntryUnits(e)) /\ DOMAIN EntryUnits(e) = DOMAIN e
      /\ \A i \in DOMAIN e : EntryUnits(e)[i] = Shared(e[i]).unit
  BY <1>1, MappedIs DEF EntryUnits
<1>3. \A i \in DOMAIN e :
        LET u == Shared(e[i]).unit IN
        /\ u.kind = "systemd.extra-unit"
        /\ u.name = UnitName(MountPoint(e[i]))
        /\ u.content = [what |-> MountTag(e[i]),
                        where |-> MountPoint(e[i]), ro |-> EntryReadonly(e[i])]
  BY DEF Shared, MountUnit, Unit
<1>4. ASSUME NEW i \in DOMAIN e, NEW j \in DOMAIN e,
             EntryUnits(e)[i].name = EntryUnits(e)[j].name
      PROVE  i = j
  <2>1. UnitName(MountPoint(e[i])) = UnitName(MountPoint(e[j]))
    BY <1>2, <1>3, <1>4
  <2>2. MountPoint(e[i]) = MountPoint(e[j])
    BY <1>1, <2>1, UnitNameInjective
  <2>3. e[i] = e[j]
    BY <1>1, <2>2, MountPointIs
  <2> QED BY <1>1, <2>3
<1>5. Keyed(EntryUnits(e))
  BY <1>2, <1>4 DEF Keyed
<1>6. Range(EntryUnits(e)) = {Shared(e[i]).unit : i \in DOMAIN e}
  BY <1>2 DEF Range
<1> QED BY <1>2, <1>3, <1>5, <1>6

DropIns(e) ==
  IF UnitNames(e) = {} THEN <<>>
  ELSE <<DropIn("remote-fs.target", "bcvk-mounts", UnitNames(e))>>

LEMMA CredsAre ==
  ASSUME NEW e, Built(e)
  PROVE  LET c == config.smbios IN
         /\ IsSeq(c) /\ Keyed(c)
         /\ \A x \in Range(c) : x.kind \in {"systemd.extra-unit", "systemd.unit-dropin"}
         /\ Range(c) = {Shared(e[i]).unit : i \in DOMAIN e} \cup Range(DropIns(e))
              \cup Range(StreamCreds) \cup Range(ExecuteCreds) \cup Range(SwapCreds)
<1> DEFINE u == EntryUnits(e)
           d == DropIns(e)
           a == u \o d
<1>1. /\ IsSeq(u) /\ Keyed(u)
      /\ \A x \in Range(u) : /\ x.kind = "systemd.extra-unit"
                             /\ \E p : GuestPath(p) /\ x.name = UnitName(p)
      /\ Range(u) = {Shared(e[i]).unit : i \in DOMAIN e}
  <2>1. Range(u) = {Shared(e[i]).unit : i \in DOMAIN e} /\ IsSeq(u) /\ Keyed(u)
    BY EntryUnitsKeyed
  <2>2. \A i \in DOMAIN e : /\ Shared(e[i]).unit.kind = "systemd.extra-unit"
                            /\ Shared(e[i]).unit.name = UnitName(MountPoint(e[i]))
                            /\ GuestPath(MountPoint(e[i]))
    BY EntryUnitsKeyed, EntryOrder
  <2> HIDE DEF u
  <2> QED BY <2>1, <2>2
<1>2. Svc(d, {}, {<<"remote-fs.target", "bcvk-mounts">>})
  <2> DEFINE x == DropIn("remote-fs.target", "bcvk-mounts", UnitNames(e))
  <2>1. x.kind = "systemd.unit-dropin" /\ x.name = <<"remote-fs.target", "bcvk-mounts">>
    BY ServicesAre
  <2> HIDE DEF x
  <2>2. Svc(<<x>>, {}, {<<"remote-fs.target", "bcvk-mounts">>})
    BY <2>1, OneIs DEF Svc, Keyed
  <2> QED BY <2>2, NoSvc DEF DropIns, x
<1> HIDE DEF u, d
<1>3. /\ IsSeq(a) /\ Keyed(a) /\ Range(a) = Range(u) \cup Range(d)
      /\ \A x \in Range(d) : x.kind = "systemd.unit-dropin"
                             /\ x.name = <<"remote-fs.target", "bcvk-mounts">>
  <2>1. \A x \in Range(d) : x.kind = "systemd.unit-dropin"
                             /\ x.name = <<"remote-fs.target", "bcvk-mounts">>
    BY <1>2 DEF Svc
  <2>2. IsSeq(d) /\ Keyed(d)
    BY <1>2 DEF Svc
  <2>3. \A x \in Range(u), y \in Range(d) : x.kind # y.kind \/ x.name # y.name
    BY <1>1, <2>1
  <2>4. Keyed(u \o d)
    BY <1>1, <2>2, <2>3, ConcatKeyed
  <2>5. IsSeq(u \o d) /\ Range(u \o d) = Range(u) \cup Range(d)
    BY <1>1, <2>2, ConcatIs
  <2> QED BY <2>1, <2>4, <2>5
<1> HIDE DEF a
<1>4. ASSUME NEW s, NEW t, NEW S, NEW F, IsSeq(s), Keyed(s), Svc(t, S, F),
             ".mount" \notin S,
             \A x \in Range(s) : \/ x \in Range(u) \cup Range(d)
                                 \/ x.kind = "systemd.extra-unit" /\ \E y \in OwnSvcs \ S : x.name = <<y>>
                                 \/ x.kind = "systemd.unit-dropin" /\ x.name \in OwnDropIns \ F,
             <<"remote-fs.target", "bcvk-mounts">> \notin F
      PROVE  IsSeq(s \o t) /\ Keyed(s \o t) /\ Range(s \o t) = Range(s) \cup Range(t)
  <2>1. ASSUME NEW x \in Range(s), NEW y \in Range(t), x.kind = y.kind, x.name = y.name
        PROVE  FALSE
    <3>1. CASE x \in Range(u)
      <4>1. PICK p : GuestPath(p) /\ x.name = UnitName(p)
        BY <1>1, <3>1
      <4>2. PICK z \in S : y.name = <<z>>
        BY <1>1, <1>4, <2>1, <3>1 DEF Svc
      <4>3. z # ".mount"
        BY <1>4
      <4> QED BY <2>1, <4>1, <4>2, <4>3, UnitNameApart
    <3>2. CASE x \in Range(d)
      BY <1>3, <1>4, <2>1, <3>2 DEF Svc
    <3>3. CASE x.kind = "systemd.extra-unit" /\ \E z \in OwnSvcs \ S : x.name = <<z>>
      <4>1. PICK z \in OwnSvcs \ S : x.name = <<z>>
        BY <3>3
      <4>2. PICK w \in S : y.name = <<w>>
        BY <1>4, <2>1, <3>3 DEF Svc
      <4>3. <<z>> = <<w>>
        BY <2>1, <4>1, <4>2
      <4>4. z = w
        BY <4>3
      <4> QED BY <4>4
    <3>4. CASE x.kind = "systemd.unit-dropin" /\ x.name \in OwnDropIns \ F
      BY <1>4, <2>1, <3>4 DEF Svc
    <3> QED BY <1>4, <3>1, <3>2, <3>3, <3>4
  <2>2. IsSeq(t) /\ Keyed(t)
    BY <1>4 DEF Svc
  <2>3. Keyed(s \o t)
    BY <1>4, <2>1, <2>2, ConcatKeyed
  <2> QED BY <1>4, <2>2, <2>3, ConcatIs
<1> DEFINE b == a \o StreamCreds
           c == b \o ExecuteCreds
           f == c \o SwapCreds
<1>5. /\ ".mount" \notin OwnSvcs /\ <<"remote-fs.target", "bcvk-mounts">> \notin OwnDropIns
      /\ StreamSvcs \cap ExecuteSvcs = {} /\ StreamSvcs \cap SwapSvcs = {}
      /\ ExecuteSvcs \cap SwapSvcs = {}
      /\ <<"sysinit.target", "bcvk-journal">> # <<"multi-user.target", "bcvk-execute">>
      /\ <<"sysinit.target", "bcvk-journal">> # <<"basic.target", "bcvk-swap">>
      /\ <<"multi-user.target", "bcvk-execute">> # <<"basic.target", "bcvk-swap">>
  BY DEF OwnSvcs, StreamSvcs, ExecuteSvcs, SwapSvcs, OwnDropIns, JournalService,
         JournalInitrdService, ExecuteService, FinishService, SwapService
<1> DEFINE F1 == <<"sysinit.target", "bcvk-journal">>
           F2 == <<"multi-user.target", "bcvk-execute">>
           F3 == <<"basic.target", "bcvk-swap">>
<1>6. /\ Svc(StreamCreds, StreamSvcs, {F1}) /\ Svc(ExecuteCreds, ExecuteSvcs, {F2})
      /\ Svc(SwapCreds, SwapSvcs, {F3})
  BY SvcsAre
<1>7. OwnSvcs = StreamSvcs \cup ExecuteSvcs \cup SwapSvcs /\ OwnDropIns = {F1, F2, F3}
      /\ F1 # F2 /\ F1 # F3 /\ F2 # F3
  BY <1>5 DEF OwnSvcs, OwnDropIns
<1> HIDE DEF F1, F2, F3
<1>8. IsSeq(b) /\ Keyed(b) /\ Range(b) = Range(a) \cup Range(StreamCreds)
  BY <1>3, <1>4, <1>5, <1>6, <1>7
<1> HIDE DEF b
<1>9. IsSeq(c) /\ Keyed(c) /\ Range(c) = Range(b) \cup Range(ExecuteCreds)
  <2>1. \A x \in Range(StreamCreds) :
          \/ x.kind = "systemd.extra-unit" /\ \E y \in OwnSvcs \ ExecuteSvcs : x.name = <<y>>
          \/ x.kind = "systemd.unit-dropin" /\ x.name \in OwnDropIns \ {F2}
    BY <1>5, <1>6, <1>7 DEF Svc
  <2>2. ".mount" \notin ExecuteSvcs /\ <<"remote-fs.target", "bcvk-mounts">> \notin {F2}
    BY <1>5, <1>7
  <2> QED BY <1>3, <1>4, <1>6, <1>8, <2>1, <2>2
<1> HIDE DEF c
<1>10. IsSeq(f) /\ Keyed(f) /\ Range(f) = Range(c) \cup Range(SwapCreds)
  <2>1. \A x \in Range(StreamCreds) \cup Range(ExecuteCreds) :
          \/ x.kind = "systemd.extra-unit" /\ \E y \in OwnSvcs \ SwapSvcs : x.name = <<y>>
          \/ x.kind = "systemd.unit-dropin" /\ x.name \in OwnDropIns \ {F3}
    BY <1>5, <1>6, <1>7 DEF Svc
  <2>2. ".mount" \notin SwapSvcs /\ <<"remote-fs.target", "bcvk-mounts">> \notin {F3}
    BY <1>5, <1>7
  <2> QED BY <1>3, <1>4, <1>6, <1>8, <1>9, <2>1, <2>2
<1>11. config.smbios = f
  BY DEF Built, AllCreds, ServiceCreds, EntryCreds, f, c, b, a, u, d, DropIns
<1> HIDE DEF f
<1>12. \A x \in Range(f) : x.kind \in {"systemd.extra-unit", "systemd.unit-dropin"}
  <2>1. \A x \in Range(StreamCreds) \cup Range(ExecuteCreds) \cup Range(SwapCreds) :
          x.kind \in {"systemd.extra-unit", "systemd.unit-dropin"}
    BY <1>6 DEF Svc
  <2> QED BY <1>1, <1>3, <1>8, <1>9, <1>10, <2>1
<1>13. Range(f) = Range(u) \cup Range(d) \cup Range(StreamCreds) \cup Range(ExecuteCreds)
                  \cup Range(SwapCreds)
  BY <1>3, <1>8, <1>9, <1>10
<1> QED BY <1>1, <1>10, <1>11, <1>12, <1>13 DEF d

-----------------------------------------------------------------------------
(* The command line, read.                                                 *)

LEMMA DiskBlkIs ==
  ASSUME Inputs
  PROVE  /\ IsSeq(AllBlk)
         /\ Range(AllBlk) = Range(IgnitionBlk) \cup Range(SwapBlk) \cup Range(DiskBlk)
<1>1. IsSeq(IgnitionBlk) /\ IsSeq(SwapBlk)
  BY OneIs, EmptyIs DEF IgnitionBlk, SwapBlk
<1>2. IsSeq(DiskBlk)
  BY MappedIs DEF DiskBlk, Inputs, RequestOk
<1> DEFINE a == IgnitionBlk \o SwapBlk
<1>3. IsSeq(a) /\ Range(a) = Range(IgnitionBlk) \cup Range(SwapBlk)
  BY <1>1, ConcatIs
<1> HIDE DEF a
<1>4. IsSeq(a \o DiskBlk) /\ Range(a \o DiskBlk) = Range(a) \cup Range(DiskBlk)
  BY <1>2, <1>3, ConcatIs
<1> QED BY <1>3, <1>4 DEF AllBlk, a

\* What the configuration holds when the command line is made.
LEMMA ConfigIs ==
  ASSUME NEW e, Built(e)
  PROVE  /\ Inputs /\ argv = AllArgs /\ config.blk = AllBlk /\ IsSeq(config.blk)
         /\ config.fdset = AllPorts /\ IsSeq(config.fdset)
         /\ config.serial = Numbered(AllPorts) /\ IsSeq(config.serial)
         /\ readers = Drains(AllPorts)
         /\ config.mounts = EntryMounts(e) /\ IsSeq(config.mounts) /\ IsSeq(config.fwCfg)
<1>1. Inputs /\ PortsInv /\ BlkInv /\ ArgvInv /\ pc = "done"
  BY DEF Built, IInv
<1>2. pc \in AfterMounts /\ pc \in AfterWire
  BY <1>1, Stages
<1>3. config.blk = AllBlk /\ IsSeq(config.fwCfg)
  BY <1>1, <1>2 DEF BlkInv
<1>4. /\ config.fdset = AllPorts /\ config.serial = Numbered(AllPorts)
      /\ readers = Drains(AllPorts)
  BY <1>1, <1>2 DEF PortsInv, PortsAre
<1>5. IsSeq(AllPorts) /\ IsSeq(Numbered(AllPorts))
  BY PortsAreSeq, MappedIs DEF Numbered
<1>6. config.mounts = EntryMounts(e) /\ IsSeq(EntryMounts(e))
  BY EntryOrder, MappedIs DEF Built, EntryMounts
<1>7. argv = AllArgs
  BY <1>1 DEF ArgvInv, AllArgs
<1> QED BY <1>1, <1>3, <1>4, <1>5, <1>6, <1>7, DiskBlkIs

LEMMA BuiltParts ==
  ASSUME NEW e, Built(e)
  PROVE  PartsOk
<1>1. /\ IsSeq(config.blk) /\ IsSeq(config.fdset) /\ IsSeq(config.serial)
      /\ IsSeq(config.mounts) /\ IsSeq(config.fwCfg)
  BY ConfigIs
<1>2. IsSeq(P1) /\ IsSeq(P2) /\ IsSeq(P3)
  BY <1>1, MappedIs DEF P1, AddFds, P2, Drives, P3, BlkDevices
<1>3. Part(P1, {})
  BY <1>2, NamelessPart DEF P1, AddFds, Named
<1>4. Part(P2, {})
  BY <1>2, NamelessPart DEF P2, Drives, Named
<1>5. Part(P3, {})
  BY <1>2, NamelessPart DEF P3, BlkDevices, Named
<1>6. Part(P7, {})
  <2> DEFINE x == [opt |-> "-netdev", hostfwd |-> config.hostfwd]
  <2>1. ~Named(x)
    BY DEF Named
  <2> HIDE DEF x
  <2> QED BY <2>1, OneIs, NamelessPart DEF P7, x
<1>7. Part(P9, {})
  <2> DEFINE x == [opt |-> "-device", driver |-> "vhost-vsock-pci", cid |-> Min(FreeCids)]
  <2>1. ~Named(x)
    BY DEF Named
  <2> HIDE DEF x
  <2>2. Part(<<x>>, {}) /\ Part(<<>>, {})
    BY <2>1, OneIs, EmptyIs, NamelessPart
  <2>3. P9 = <<x>> \/ P9 = <<>>
    BY DEF P9, VsockArgs, x
  <2> QED BY <2>2, <2>3
<1>8. Part(P10, CredNames)
  <2>1. /\ IsSeq(config.smbios) /\ Keyed(config.smbios)
        /\ \A c \in Range(config.smbios) : c.kind # "vmm.notify_socket"
    BY CredsAre
  <2> QED BY <1>1, <2>1, CredentialPart DEF P10
<1>9. Part(BootArgs, RootNames) /\ Part(P5, FsNames) /\ Part(P6, PortNames)
      /\ Part(P8, ConsoleNames)
  BY <1>1, RootPart, VirtiofsPart, SerialPart, ConsolePart DEF P5, P6, P8
<1> QED BY <1>3, <1>4, <1>5, <1>6, <1>7, <1>8, <1>9 DEF PartsOk

\* Which options are in which part.
LEMMA PartKinds ==
  ASSUME NEW e, Built(e)
  PROVE  /\ \A x \in Range(P1) : x.opt = "-add-fd"
         /\ \A x \in Range(P2) : x.opt = "-drive"
         /\ \A x \in Range(P3) : x.opt = "-device" /\ x.driver = "virtio-blk-pci"
         /\ \A x \in Range(BootArgs) :
              \/ x.opt \in {"-kernel", "-chardev"}
              \/ x = FsDevice(<<"char", 0>>, <<"rootfs">>)
         /\ \A x \in Range(P5) :
              \/ x.opt = "-chardev"
              \/ \E i \in DOMAIN config.mounts :
                   x = FsDevice(<<"char", i>>, config.mounts[i].tag)
         /\ \A x \in Range(P6) :
              \/ x.opt = "-chardev"
              \/ x.opt = "-device" /\ x.driver = "virtserialport"
         /\ \A x \in Range(P7) : x.opt = "-netdev"
         /\ \A x \in Range(P8) :
              \/ x.opt \in {"-serial", "-chardev"}
              \/ x.opt = "-device" /\ x.driver = "virtconsole"
         /\ \A x \in Range(P9) : x.opt = "-device" /\ x.driver = "vhost-vsock-pci"
         /\ \A x \in Range(P10) : x.opt \in {"-smbios", "-fw_cfg"}
<1>1. /\ IsSeq(config.blk) /\ IsSeq(config.fdset) /\ IsSeq(config.serial)
      /\ IsSeq(config.mounts) /\ IsSeq(config.fwCfg) /\ IsSeq(config.smbios)
  BY ConfigIs, CredsAre
<1>2. \A x \in Range(P1) : x.opt = "-add-fd"
  <2> SUFFICES ASSUME NEW x \in Range(P1) PROVE x.opt = "-add-fd"
    OBVIOUS
  <2>1. PICK i \in DOMAIN P1 : x = P1[i]
    BY DEF Range
  <2> QED BY <2>1 DEF P1, AddFds
<1>3. \A x \in Range(P2) : x.opt = "-drive"
  <2> SUFFICES ASSUME NEW x \in Range(P2) PROVE x.opt = "-drive"
    OBVIOUS
  <2>1. PICK i \in DOMAIN P2 : x = P2[i]
    BY DEF Range
  <2> QED BY <2>1 DEF P2, Drives
<1>4. \A x \in Range(P3) : x.opt = "-device" /\ x.driver = "virtio-blk-pci"
  <2> SUFFICES ASSUME NEW x \in Range(P3) PROVE x.opt = "-device" /\ x.driver = "virtio-blk-pci"
    OBVIOUS
  <2>1. PICK i \in DOMAIN P3 : x = P3[i]
    BY DEF Range
  <2> QED BY <2>1 DEF P3, BlkDevices
<1>5. \A x \in Range(BootArgs) :
        x.opt \in {"-kernel", "-chardev"} \/ x = FsDevice(<<"char", 0>>, <<"rootfs">>)
  <2> DEFINE a == [opt |-> "-kernel", file |-> boot]
             b == Chardev(<<"char", 0>>, "socket", RootSocket)
             d == FsDevice(<<"char", 0>>, <<"rootfs">>)
  <2>1. a.opt = "-kernel" /\ b.opt = "-chardev"
    BY DEF Chardev
  <2> HIDE DEF a, b, d
  <2>2. BootArgs = <<a, b, d>>
    BY DEF BootArgs, a, b, d
  <2> QED BY <2>1, <2>2, ThreeIs DEF d
<1>6. \A x \in Range(P5) :
        \/ x.opt = "-chardev"
        \/ \E i \in DOMAIN config.mounts : x = FsDevice(<<"char", i>>, config.mounts[i].tag)
  <2> DEFINE c == config
             a == [i \in DOMAIN c.mounts |->
                     Chardev(<<"char", i>>, "socket", c.mounts[i].socket)]
             b == [i \in DOMAIN c.mounts |-> FsDevice(<<"char", i>>, c.mounts[i].tag)]
  <2>1. IsSeq(a) /\ IsSeq(b)
    BY <1>1, MappedIs
  <2>2. \A x \in Range(a) : x.opt = "-chardev"
    <3> SUFFICES ASSUME NEW x \in Range(a) PROVE x.opt = "-chardev"
      OBVIOUS
    <3>1. PICK i \in DOMAIN a : x = a[i]
      BY DEF Range
    <3> QED BY <3>1 DEF Chardev
  <2>3. \A x \in Range(b) : \E i \in DOMAIN c.mounts : x = FsDevice(<<"char", i>>, c.mounts[i].tag)
    <3> SUFFICES ASSUME NEW x \in Range(b)
                 PROVE  \E i \in DOMAIN c.mounts :
                          x = FsDevice(<<"char", i>>, c.mounts[i].tag)
      OBVIOUS
    <3>1. PICK i \in DOMAIN b : x = b[i]
      BY DEF Range
    <3>2. i \in DOMAIN c.mounts /\ b[i] = FsDevice(<<"char", i>>, c.mounts[i].tag)
      BY <3>1
    <3> QED BY <3>1, <3>2
  <2>4. P5 = a \o b
    BY DEF P5, VirtiofsArgs
  <2> HIDE DEF a, b
  <2>5. Range(P5) = Range(a) \cup Range(b)
    BY <2>1, <2>4, ConcatIs
  <2> QED BY <2>2, <2>3, <2>5
<1>7. \A x \in Range(P6) :
        \/ x.opt = "-chardev"
        \/ x.opt = "-device" /\ x.driver = "virtserialport"
  <2> DEFINE c == config
             a == [i \in DOMAIN c.serial |->
                     Chardev(<<"serial_char", i - 1>>, "file", c.serial[i].fdset)]
             b == [i \in DOMAIN c.serial |->
                     [opt |-> "-device", driver |-> "virtserialport",
                      chardev |-> <<"serial_char", i - 1>>, name |-> c.serial[i].name]]
  <2>1. IsSeq(a) /\ IsSeq(b)
    BY <1>1, MappedIs
  <2>2. \A x \in Range(a) : x.opt = "-chardev"
    <3> SUFFICES ASSUME NEW x \in Range(a) PROVE x.opt = "-chardev"
      OBVIOUS
    <3>1. PICK i \in DOMAIN a : x = a[i]
      BY DEF Range
    <3> QED BY <3>1 DEF Chardev
  <2>3. \A x \in Range(b) : x.opt = "-device" /\ x.driver = "virtserialport"
    <3> SUFFICES ASSUME NEW x \in Range(b) PROVE x.opt = "-device" /\ x.driver = "virtserialport"
      OBVIOUS
    <3>1. PICK i \in DOMAIN b : x = b[i]
      BY DEF Range
    <3> QED BY <3>1
  <2>4. P6 = a \o b
    BY DEF P6, SerialArgs
  <2> HIDE DEF a, b
  <2>5. Range(P6) = Range(a) \cup Range(b)
    BY <2>1, <2>4, ConcatIs
  <2> QED BY <2>2, <2>3, <2>5
<1>8. \A x \in Range(P7) : x.opt = "-netdev"
  <2> DEFINE a == [opt |-> "-netdev", hostfwd |-> config.hostfwd]
  <2>1. a.opt = "-netdev" /\ P7 = <<a>>
    BY DEF P7
  <2> HIDE DEF a
  <2> QED BY <2>1, OneIs
<1>9. \A x \in Range(P8) :
        \/ x.opt \in {"-serial", "-chardev"}
        \/ x.opt = "-device" /\ x.driver = "virtconsole"
  <2> DEFINE c == config
             a == [opt |-> "-serial", file |-> c.serialLog]
             b == [opt |-> "-device", driver |-> "virtconsole", chardev |-> <<"console", 0>>]
             d == Chardev(<<"console", 0>>, "stdio", None)
             more == IF c.console THEN <<b, d>> ELSE <<>>
  <2>1. a.opt = "-serial" /\ b.opt = "-device" /\ b.driver = "virtconsole"
        /\ d.opt = "-chardev"
    BY DEF Chardev
  <2>2. P8 = <<a>> \o more
    BY DEF P8, ConsoleArgs
  <2> HIDE DEF a, b, d
  <2>3. IsSeq(more) /\ Range(more) \subseteq {b, d}
    BY TwoIs, EmptyIs
  <2>4. IsSeq(<<a>>) /\ Range(<<a>>) = {a}
    BY OneIs
  <2> HIDE DEF more
  <2>5. Range(P8) \subseteq {a, b, d}
    BY <2>2, <2>3, <2>4, ConcatIs
  <2> QED BY <2>1, <2>5
<1>10. \A x \in Range(P9) : x.opt = "-device" /\ x.driver = "vhost-vsock-pci"
  <2> DEFINE a == [opt |-> "-device", driver |-> "vhost-vsock-pci", cid |-> Min(FreeCids)]
  <2>1. a.opt = "-device" /\ a.driver = "vhost-vsock-pci"
    OBVIOUS
  <2>2. P9 = <<a>> \/ P9 = <<>>
    BY DEF P9, VsockArgs
  <2> HIDE DEF a
  <2> QED BY <2>1, <2>2, OneIs, EmptyIs
<1>11. \A x \in Range(P10) : x.opt \in {"-smbios", "-fw_cfg"}
  <2> DEFINE c == config
             a == [i \in DOMAIN c.smbios |-> [opt |-> "-smbios", value |-> c.smbios[i]]]
             n == [opt |-> "-smbios", value |-> NotifyCred]
             b == IF c.notify THEN <<n>> ELSE <<>>
             f == [i \in DOMAIN c.fwCfg |-> [opt |-> "-fw_cfg", name |-> c.fwCfg[i].name,
                                             file |-> c.fwCfg[i].file]]
  <2>1. IsSeq(a) /\ IsSeq(f)
    BY <1>1, MappedIs
  <2>8. \A x \in Range(a) : x.opt = "-smbios"
    <3> SUFFICES ASSUME NEW x \in Range(a) PROVE x.opt = "-smbios"
      OBVIOUS
    <3>1. PICK i \in DOMAIN a : x = a[i]
      BY DEF Range
    <3> QED BY <3>1
  <2>2. (\A x \in Range(a) : x.opt = "-smbios") /\ n.opt = "-smbios"
    BY <2>8
  <2>3. \A x \in Range(f) : x.opt = "-fw_cfg"
    <3> SUFFICES ASSUME NEW x \in Range(f) PROVE x.opt = "-fw_cfg"
      OBVIOUS
    <3>1. PICK i \in DOMAIN f : x = f[i]
      BY DEF Range
    <3> QED BY <3>1
  <2>4. P10 = a \o b \o f
    BY DEF P10, CredentialArgs, NotifyCred
  <2> HIDE DEF a, n, f
  <2>5. IsSeq(b) /\ Range(b) \subseteq {n}
    BY OneIs, EmptyIs
  <2> HIDE DEF b
  <2>6. IsSeq(a \o b) /\ Range(a \o b) = Range(a) \cup Range(b)
    BY <2>1, <2>5, ConcatIs
  <2>7. Range(P10) = Range(a) \cup Range(b) \cup Range(f)
    BY <2>1, <2>4, <2>6, ConcatIs
  <2> QED BY <2>2, <2>3, <2>5, <2>7
<1> QED BY <1>2, <1>3, <1>4, <1>5, <1>6, <1>7, <1>8, <1>9, <1>10, <1>11

\* The command line is a sequence of options, and an option is in one part of it.
LEMMA ArgsOfIs == \A opt : ArgsOf(opt) = {x \in Range(argv) : x.opt = opt}
BY DEF ArgsOf, ArgsAt, Range

LEMMA FsDeviceIs ==
  \A id, tag :
    /\ FsDevice(id, tag).opt = "-device" /\ FsDevice(id, tag).driver = "vhost-user-fs-pci"
    /\ FsDevice(id, tag).chardev = id /\ FsDevice(id, tag).tag = tag
BY DEF FsDevice

LEMMA ArgsRead ==
  ASSUME NEW e, Built(e)
  PROVE  /\ ArgsOf("-add-fd") = Range(P1) /\ ArgsOf("-drive") = Range(P2)
         /\ DeviceArgs("virtio-blk-pci") = Range(P3)
         /\ DeviceArgs("virtserialport") = {x \in Range(P6) : x.opt = "-device"}
         /\ DeviceArgs("vhost-user-fs-pci") =
              {x \in Range(BootArgs) \cup Range(P5) : x.opt = "-device"}
         /\ ArgsOf("-smbios") = {x \in Range(P10) : x.opt = "-smbios"}
<1>1. Range(argv) = Range(P1) \cup Range(P2) \cup Range(P3) \cup Range(BootArgs)
              \cup Range(P5) \cup Range(P6) \cup Range(P7) \cup Range(P8) \cup Range(P9)
              \cup Range(P10)
  BY ConfigIs, BuiltParts, WholePart
<1>2. /\ \A x \in Range(P1) : x.opt = "-add-fd"
      /\ \A x \in Range(P2) : x.opt = "-drive"
      /\ \A x \in Range(P3) : x.opt = "-device" /\ x.driver = "virtio-blk-pci"
      /\ \A x \in Range(BootArgs) : \/ x.opt \in {"-kernel", "-chardev"}
                                    \/ x = FsDevice(<<"char", 0>>, <<"rootfs">>)
      /\ \A x \in Range(P5) : \/ x.opt = "-chardev"
                              \/ \E i \in DOMAIN config.mounts :
                                   x = FsDevice(<<"char", i>>, config.mounts[i].tag)
      /\ \A x \in Range(P6) : \/ x.opt = "-chardev"
                              \/ x.opt = "-device" /\ x.driver = "virtserialport"
      /\ \A x \in Range(P7) : x.opt = "-netdev"
      /\ \A x \in Range(P8) : \/ x.opt \in {"-serial", "-chardev"}
                              \/ x.opt = "-device" /\ x.driver = "virtconsole"
      /\ \A x \in Range(P9) : x.opt = "-device" /\ x.driver = "vhost-vsock-pci"
      /\ \A x \in Range(P10) : x.opt \in {"-smbios", "-fw_cfg"}
  BY PartKinds
<1>3. \A x \in Range(BootArgs) \cup Range(P5) :
        \/ x.opt \in {"-kernel", "-chardev"}
        \/ x.opt = "-device" /\ x.driver = "vhost-user-fs-pci"
  <2>1. ASSUME NEW x, NEW id, NEW tag, x = FsDevice(id, tag)
        PROVE  x.opt = "-device" /\ x.driver = "vhost-user-fs-pci"
    BY <2>1, FsDeviceIs
  <2>2. ASSUME NEW x \in Range(BootArgs), x.opt \notin {"-kernel", "-chardev"}
        PROVE  x.opt = "-device" /\ x.driver = "vhost-user-fs-pci"
    <3>1. x = FsDevice(<<"char", 0>>, <<"rootfs">>)
      BY <1>2, <2>2
    <3> QED BY <2>1, <3>1
  <2>3. ASSUME NEW x \in Range(P5), x.opt # "-chardev"
        PROVE  x.opt = "-device" /\ x.driver = "vhost-user-fs-pci"
    <3>1. PICK i \in DOMAIN config.mounts : x = FsDevice(<<"char", i>>, config.mounts[i].tag)
      BY <1>2, <2>3
    <3> QED BY <2>1, <3>1
  <2> QED BY <2>2, <2>3
<1>4. ArgsOf("-add-fd") = Range(P1) /\ ArgsOf("-drive") = Range(P2)
      /\ ArgsOf("-smbios") = {x \in Range(P10) : x.opt = "-smbios"}
  <2>1. \A opt : ArgsOf(opt) = {x \in Range(argv) : x.opt = opt}
    BY ArgsOfIs
  <2>2. \A x \in Range(argv) : x.opt = "-add-fd" <=> x \in Range(P1)
    BY <1>1, <1>2, <1>3
  <2>3. \A x \in Range(argv) : x.opt = "-drive" <=> x \in Range(P2)
    BY <1>1, <1>2, <1>3
  <2>4. \A x \in Range(argv) : x.opt = "-smbios" => x \in Range(P10)
    BY <1>1, <1>2, <1>3
  <2> QED BY <1>1, <2>1, <2>2, <2>3, <2>4
<1> DEFINE dev(d) == {x \in Range(argv) : x.opt = "-device" /\ x.driver = d}
<1>5. \A d : DeviceArgs(d) = dev(d)
  BY ArgsOfIs DEF DeviceArgs
<1>6. dev("virtio-blk-pci") = Range(P3)
  BY <1>1, <1>2, <1>3
<1>7. dev("virtserialport") = {x \in Range(P6) : x.opt = "-device"}
  BY <1>1, <1>2, <1>3
<1>8. dev("vhost-user-fs-pci") = {x \in Range(BootArgs) \cup Range(P5) : x.opt = "-device"}
  BY <1>1, <1>2, <1>3
<1> HIDE DEF dev
<1> QED BY <1>4, <1>5, <1>6, <1>7, <1>8

\* A character device whose identifier is given once has what it names behind it.
LEMMA BehindIs ==
  ASSUME NEW e, Built(e), NEW x \in Range(argv), x.opt = "-chardev"
  PROVE  Behind(x.id, x.backend) = {x.path}
<1>1. Part(argv, AllNames)
  BY ConfigIs, BuiltParts, WholePart
<1>2. PICK k \in DOMAIN argv : argv[k] = x
  BY DEF Range
<1> DEFINE at == {i \in ArgsAt("-chardev") : argv[i].id = x.id}
<1>3. at = {k}
  <2>1. k \in at
    BY <1>2 DEF ArgsAt
  <2>2. ASSUME NEW i \in at PROVE i = k
    <3>1. i \in DOMAIN argv /\ argv[i].opt = "-chardev" /\ argv[i].id = x.id
      BY DEF ArgsAt
    <3>2. /\ Named(argv[i]) /\ NameOf(argv[i]) = x.id
          /\ Named(argv[k]) /\ NameOf(argv[k]) = x.id
      BY <1>2, <3>1 DEF Named, NameOf
    <3> QED BY <1>1, <3>1, <3>2 DEF Part
  <2> HIDE DEF at
  <2> QED BY <2>1, <2>2
<1>4. Behind(x.id, x.backend) =
        {argv[i].path : i \in {i \in at : at = {i} /\ argv[i].backend = x.backend}}
  BY DEF Behind
<1> HIDE DEF at
<1>5. {i \in at : at = {i} /\ argv[i].backend = x.backend} = {k}
  BY <1>2, <1>3
<1> QED BY <1>2, <1>4, <1>5

\* What virtiofsd serves under a tag.
LEMMA FsRead ==
  ASSUME NEW e, Built(e)
  PROVE  /\ \A x \in DeviceArgs("vhost-user-fs-pci") :
              \/ x = FsDevice(<<"char", 0>>, <<"rootfs">>)
              \/ \E i \in DOMAIN e : /\ x.chardev = <<"char", i>>
                                    /\ x.tag = MountTag(e[i])
         /\ \A i \in DOMAIN e :
              /\ FsDevice(<<"char", i>>, MountTag(e[i]))
                   \in DeviceArgs("vhost-user-fs-pci")
              /\ Behind(<<"char", i>>, "socket") = {Socket(e[i])}
<1>1. config.mounts = EntryMounts(e) /\ IsSeq(config.mounts)
  BY ConfigIs
<1>2. /\ DOMAIN config.mounts = DOMAIN e
      /\ \A i \in DOMAIN e : /\ config.mounts[i].socket = Socket(e[i])
                             /\ config.mounts[i].tag = MountTag(e[i])
  BY <1>1 DEF EntryMounts, Shared
<1>3. DeviceArgs("vhost-user-fs-pci") =
        {x \in Range(BootArgs) \cup Range(P5) : x.opt = "-device"}
  BY ArgsRead
<1>4. /\ \A x \in Range(BootArgs) : \/ x.opt \in {"-kernel", "-chardev"}
                                    \/ x = FsDevice(<<"char", 0>>, <<"rootfs">>)
      /\ \A x \in Range(P5) : \/ x.opt = "-chardev"
                              \/ \E i \in DOMAIN config.mounts :
                                   x = FsDevice(<<"char", i>>, config.mounts[i].tag)
  BY PartKinds
<1> DEFINE c == config
           a == [i \in DOMAIN c.mounts |->
                   Chardev(<<"char", i>>, "socket", c.mounts[i].socket)]
           b == [i \in DOMAIN c.mounts |-> FsDevice(<<"char", i>>, c.mounts[i].tag)]
<1>5. IsSeq(a) /\ IsSeq(b) /\ P5 = a \o b
  BY <1>1, MappedIs DEF P5, VirtiofsArgs
<1>6. \A i \in DOMAIN e : /\ Chardev(<<"char", i>>, "socket", c.mounts[i].socket) \in Range(a)
                          /\ FsDevice(<<"char", i>>, c.mounts[i].tag) \in Range(b)
  BY <1>2 DEF Range
<1> HIDE DEF a, b
<1>7. Range(P5) = Range(a) \cup Range(b)
  BY <1>5, ConcatIs
<1>8. Range(P5) \subseteq Range(argv)
  BY ConfigIs, BuiltParts, WholePart
<1>9. ASSUME NEW x \in DeviceArgs("vhost-user-fs-pci"),
             x # FsDevice(<<"char", 0>>, <<"rootfs">>)
      PROVE  \E i \in DOMAIN e : /\ x.chardev = <<"char", i>>
                                /\ x.tag = MountTag(e[i])
  <2>1. PICK i \in DOMAIN config.mounts : x = FsDevice(<<"char", i>>, config.mounts[i].tag)
    BY <1>3, <1>4, <1>9
  <2>2. x.chardev = <<"char", i>> /\ x.tag = config.mounts[i].tag
    BY <2>1, FsDeviceIs
  <2> QED BY <1>2, <2>2
<1>10. ASSUME NEW i \in DOMAIN e
       PROVE  /\ FsDevice(<<"char", i>>, MountTag(e[i]))
                    \in DeviceArgs("vhost-user-fs-pci")
              /\ Behind(<<"char", i>>, "socket") = {Socket(e[i])}
  <2> DEFINE x == Chardev(<<"char", i>>, "socket", c.mounts[i].socket)
             d == FsDevice(<<"char", i>>, c.mounts[i].tag)
  <2>1. /\ x.opt = "-chardev" /\ x.id = <<"char", i>> /\ x.backend = "socket"
        /\ x.path = c.mounts[i].socket
    BY DEF Chardev
  <2>2. d.opt = "-device"
    BY FsDeviceIs
  <2>3. x \in Range(a) /\ d \in Range(b)
    BY <1>6
  <2> HIDE DEF x
  <2>4. Behind(x.id, x.backend) = {x.path}
    BY <1>7, <1>8, <2>1, <2>3, BehindIs
  <2>5. d \in DeviceArgs("vhost-user-fs-pci")
    BY <1>3, <1>7, <2>2, <2>3
  <2> QED BY <1>2, <2>1, <2>4, <2>5
<1> QED BY <1>9, <1>10

-----------------------------------------------------------------------------
(* What is mounted in the guest.                                           *)

\* A tag has the virtiofsd of its entry behind it, and that has the volumes that
\* are the entry or are below it.
LEMMA Served ==
  ASSUME NEW e, Built(e), NEW i \in DOMAIN e
  PROVE  LET d == Shared(e[i]).daemon IN
         /\ DaemonsOf(MountTag(e[i])) = {d}
         /\ VolumesOf(d) = {v \in DirVolumes : v.to[2] = e[i]}
         /\ d.readonly = EntryReadonly(e[i])
<1> DEFINE d(k) == Shared(e[k]).daemon
<1>1. /\ \A k \in DOMAIN e : IsSeq(e[k])
      /\ \A k, j \in DOMAIN e : e[k] = e[j] => k = j
  BY EntryOrder
<1>2. \A k : d(k).socket = Socket(e[k]) /\ d(k).shared = At(e[k])
             /\ d(k).readonly = EntryReadonly(e[k])
  BY DEF Shared
<1>3. Range(config.daemons) = {d(k) : k \in DOMAIN e}
  BY DEF Built, EntryDaemons, Range
<1>4. /\ \A x \in DeviceArgs("vhost-user-fs-pci") :
           \/ x = FsDevice(<<"char", 0>>, <<"rootfs">>)
           \/ \E k \in DOMAIN e : x.chardev = <<"char", k>> /\ x.tag = MountTag(e[k])
      /\ \A k \in DOMAIN e :
           /\ FsDevice(<<"char", k>>, MountTag(e[k])) \in DeviceArgs("vhost-user-fs-pci")
           /\ Behind(<<"char", k>>, "socket") = {Socket(e[k])}
  BY FsRead
<1> HIDE DEF d
<1>5. \A k \in DOMAIN e :
        /\ MountTag(e[k]) # <<"rootfs">>
        /\ (MountTag(e[k]) = MountTag(e[i]) \/ Socket(e[k]) = Socket(e[i])) => k = i
  BY <1>1, TagIs, TagsApart
<1>6. d(i) \in DaemonsOf(MountTag(e[i]))
  <2> DEFINE x == FsDevice(<<"char", i>>, MountTag(e[i]))
  <2>1. x.tag = MountTag(e[i]) /\ x.chardev = <<"char", i>>
    BY FsDeviceIs
  <2>2. x \in DeviceArgs("vhost-user-fs-pci")
    BY <1>4
  <2> HIDE DEF x
  <2> QED BY <1>2, <1>3, <1>4, <2>1, <2>2 DEF DaemonsOf
<1>7. ASSUME NEW z \in DaemonsOf(MountTag(e[i])) PROVE z = d(i)
  <2>1. PICK k \in DOMAIN e : z = d(k)
    BY <1>3 DEF DaemonsOf
  <2>2. PICK x \in DeviceArgs("vhost-user-fs-pci") :
          x.tag = MountTag(e[i]) /\ z.socket \in Behind(x.chardev, "socket")
    BY DEF DaemonsOf
  <2>3. x # FsDevice(<<"char", 0>>, <<"rootfs">>)
    BY <1>5, <2>2, FsDeviceIs
  <2>4. PICK j \in DOMAIN e : x.chardev = <<"char", j>> /\ x.tag = MountTag(e[j])
    BY <1>4, <2>3
  <2>5. j = i
    BY <1>5, <2>2, <2>4
  <2>6. z.socket = Socket(e[i])
    BY <1>4, <2>2, <2>4, <2>5
  <2>7. k = i
    BY <1>2, <1>5, <2>1, <2>6
  <2> QED BY <2>1, <2>7
<1>8. DaemonsOf(MountTag(e[i])) = {d(i)}
  BY <1>6, <1>7
<1>9. VolumesOf(d(i)) = {v \in DirVolumes : v.to[2] = e[i]}
  <2>1. Inputs /\ Range(mounts) = Range(AllVolumes)
    BY TargetsApart DEF Built, IInv
  <2>2. ASSUME NEW v \in DirVolumes PROVE IsPrefix(At(e[i]), v.to) <=> v.to[2] = e[i]
    <3> DEFINE n == Tail(v.to)
               k == e[i]
    <3>1. NameOk(n) /\ v.to = <<"host-mounts">> \o n
      BY <2>1, EntryIs
    <3> HIDE DEF n, k
    <3>2. /\ IsPrefix(At(k), <<"host-mounts">> \o n) <=> k = n[1]
          /\ (<<"host-mounts">> \o n)[2] = n[1]
      BY <3>1, NameParts
    <3>3. IsPrefix(At(k), v.to) <=> v.to[2] = k
      BY <3>1, <3>2
    <3> QED BY <3>3 DEF k
  <2>3. ASSUME NEW v \in Range(AllVolumes), v \notin DirVolumes
        PROVE  ~IsPrefix(At(e[i]), v.to)
    BY <2>1, <2>3, PlainPlaces DEF DirVolumes
  <2>4. d(i).shared = At(e[i])
    BY <1>2
  <2> QED BY <2>1, <2>2, <2>3, <2>4 DEF VolumesOf, DirVolumes
<1> QED BY <1>2, <1>8, <1>9 DEF d

\* The guest receives every credential, and no other but that of the socket.
LEMMA CredsReceived ==
  ASSUME NEW e, Built(e)
  PROVE  /\ Received(GuestCreds) = Range(GuestCreds)
         /\ Range(config.smbios) \subseteq Range(GuestCreds)
         /\ Range(GuestCreds) \subseteq Range(config.smbios) \cup {NotifyCred}
<1> DEFINE g == GuestCreds
           v(x) == x.value
<1>1. DOMAIN g = ArgsAt("-smbios") /\ \A i \in DOMAIN g : g[i] = argv[i].value
  BY DEF GuestCreds
<1>2. \A i \in DOMAIN g : i \in DOMAIN argv /\ argv[i].opt = "-smbios"
  BY <1>1 DEF ArgsAt
<1> HIDE DEF g
<1>3. Keyed(g)
  <2>1. Part(argv, AllNames)
    BY ConfigIs, BuiltParts, WholePart
  <2>2. ASSUME NEW i \in DOMAIN g, NEW j \in DOMAIN g,
               g[i].kind = g[j].kind, g[i].name = g[j].name
        PROVE  i = j
    <3>1. /\ Named(argv[i]) /\ NameOf(argv[i]) = <<"-smbios", g[i].kind, g[i].name>>
          /\ Named(argv[j]) /\ NameOf(argv[j]) = <<"-smbios", g[j].kind, g[j].name>>
      BY <1>1, <1>2 DEF Named, NameOf
    <3>2. NameOf(argv[i]) = NameOf(argv[j])
      BY <2>2, <3>1
    <3> QED BY <1>2, <2>1, <3>1, <3>2 DEF Part
  <2> QED BY <2>2 DEF Keyed
<1>4. Range(g) = {x.value : x \in {x \in Range(P10) : x.opt = "-smbios"}}
  <2>1. Range(g) = {x.value : x \in ArgsOf("-smbios")}
    BY <1>1 DEF Range, ArgsOf
  <2> QED BY <2>1, ArgsRead
<1> DEFINE c == config
           a == [i \in DOMAIN c.smbios |-> [opt |-> "-smbios", value |-> c.smbios[i]]]
           n == [opt |-> "-smbios", value |-> NotifyCred]
           b == IF c.notify THEN <<n>> ELSE <<>>
           f == [i \in DOMAIN c.fwCfg |-> [opt |-> "-fw_cfg", name |-> c.fwCfg[i].name,
                                           file |-> c.fwCfg[i].file]]
<1>5. IsSeq(c.smbios) /\ IsSeq(c.fwCfg)
  BY ConfigIs, CredsAre
<1>6. IsSeq(a) /\ IsSeq(f)
  BY <1>5, MappedIs
<1>7. \A x \in Range(a) : x.opt = "-smbios" /\ x.value \in Range(c.smbios)
  <2> SUFFICES ASSUME NEW x \in Range(a)
               PROVE  x.opt = "-smbios" /\ x.value \in Range(c.smbios)
    OBVIOUS
  <2>1. PICK i \in DOMAIN a : x = a[i]
    BY DEF Range
  <2>2. i \in DOMAIN c.smbios /\ a[i].opt = "-smbios" /\ a[i].value = c.smbios[i]
    BY <2>1
  <2>3. c.smbios[i] \in Range(c.smbios)
    BY <2>2 DEF Range
  <2> QED BY <2>1, <2>2, <2>3
<1>8. \A y \in Range(c.smbios) : \E x \in Range(a) : x.opt = "-smbios" /\ x.value = y
  <2> SUFFICES ASSUME NEW y \in Range(c.smbios)
               PROVE  \E x \in Range(a) : x.opt = "-smbios" /\ x.value = y
    OBVIOUS
  <2>1. PICK i \in DOMAIN c.smbios : y = c.smbios[i]
    BY DEF Range
  <2>2. a[i] \in Range(a) /\ a[i].opt = "-smbios" /\ a[i].value = y
    BY <2>1 DEF Range
  <2> QED BY <2>2
<1>9. \A x \in Range(f) : x.opt = "-fw_cfg"
  <2> SUFFICES ASSUME NEW x \in Range(f) PROVE x.opt = "-fw_cfg"
    OBVIOUS
  <2>1. PICK i \in DOMAIN f : x = f[i]
    BY DEF Range
  <2> QED BY <2>1
<1>10. n.value = NotifyCred
  OBVIOUS
<1>11. P10 = a \o b \o f
  BY DEF P10, CredentialArgs, NotifyCred
<1> HIDE DEF a, n, f
<1>12. IsSeq(b) /\ Range(b) \subseteq {n}
  BY OneIs, EmptyIs
<1> HIDE DEF b
<1>13. IsSeq(a \o b) /\ Range(a \o b) = Range(a) \cup Range(b)
  BY <1>6, <1>12, ConcatIs
<1>14. Range(P10) = Range(a) \cup Range(b) \cup Range(f)
  BY <1>6, <1>11, <1>13, ConcatIs
<1>15. Range(c.smbios) \subseteq Range(g)
  BY <1>4, <1>8, <1>14
<1>16. Range(g) \subseteq Range(c.smbios) \cup {NotifyCred}
  <2> SUFFICES ASSUME NEW y \in Range(g) PROVE y \in Range(c.smbios) \cup {NotifyCred}
    OBVIOUS
  <2>1. PICK x \in Range(P10) : x.opt = "-smbios" /\ y = x.value
    BY <1>4
  <2>2. x \in Range(a) \/ x \in Range(b)
    BY <1>9, <1>14, <2>1
  <2> QED BY <1>7, <1>10, <1>12, <2>1, <2>2
<1>17. Received(g) = Range(g)
  BY <1>3, KeyedReceived
<1> QED BY <1>15, <1>16, <1>17 DEF g

\* Only the units of directories are mounts.
LEMMA NoOtherMounts ==
  ASSUME NEW e,
         NEW x \in Range(DropIns(e)) \cup Range(StreamCreds) \cup Range(ExecuteCreds)
                     \cup Range(SwapCreds) \cup {NotifyCred},
         x.kind = "systemd.extra-unit"
  PROVE  "where" \notin DOMAIN x.content
<1>1. ASSUME NEW s, x = Service(s) PROVE "where" \notin DOMAIN x.content
  <2>1. x.content = [exec |-> s]
    BY <1>1, ServicesAre
  <2> QED BY <2>1
<1>2. \A t, f, w : x # DropIn(t, f, w)
  BY ServicesAre
<1>3. x # NotifyCred
  BY DEF NotifyCred
<1>4. x \notin Range(DropIns(e))
  BY <1>2, OneIs, EmptyIs DEF DropIns
<1>5. x \in Range(StreamCreds) => \E s : x = Service(s)
  BY <1>2, ThreeIs, EmptyIs DEF StreamCreds, JournalStream
<1>6. x \in Range(ExecuteCreds) => \E s : x = Service(s)
  BY <1>2, ThreeIs, EmptyIs DEF ExecuteCreds, ExecuteUnits
<1>7. x \in Range(SwapCreds) => \E s : x = Service(s)
  BY <1>2, TwoIs, EmptyIs DEF SwapCreds, SwapUnits
<1> QED BY <1>1, <1>3, <1>4, <1>5, <1>6, <1>7

\* systemd mounts what the units of the directories say.
LEMMA GuestUnits ==
  ASSUME NEW e, Built(e)
  PROVE  Mounts(GuestCreds) = {Shared(e[i]).unit.content : i \in DOMAIN e}
<1> DEFINE g == GuestCreds
           u(i) == Shared(e[i]).unit
           others == Range(DropIns(e)) \cup Range(StreamCreds) \cup Range(ExecuteCreds)
                       \cup Range(SwapCreds) \cup {NotifyCred}
<1>1. /\ Received(g) = Range(g) /\ Range(config.smbios) \subseteq Range(g)
      /\ Range(g) \subseteq Range(config.smbios) \cup {NotifyCred}
  BY CredsReceived
<1>2. Range(config.smbios) = {u(i) : i \in DOMAIN e} \cup Range(DropIns(e))
        \cup Range(StreamCreds) \cup Range(ExecuteCreds) \cup Range(SwapCreds)
  BY CredsAre
<1>3. ASSUME NEW i \in DOMAIN e
      PROVE  u(i).kind = "systemd.extra-unit" /\ "where" \in DOMAIN u(i).content
  <2>1. /\ u(i).kind = "systemd.extra-unit"
        /\ u(i).content = [what |-> MountTag(e[i]),
                           where |-> MountPoint(e[i]), ro |-> EntryReadonly(e[i])]
    BY EntryUnitsKeyed
  <2> HIDE DEF u
  <2> QED BY <2>1
<1>4. \A x \in others : x.kind = "systemd.extra-unit" => "where" \notin DOMAIN x.content
  BY NoOtherMounts
<1>5. ASSUME NEW i \in DOMAIN e PROVE u(i).name \in Wanted(g)
  <2> DEFINE x == DropIn("remote-fs.target", "bcvk-mounts", UnitNames(e))
  <2>1. u(i).name \in UnitNames(e)
    BY DEF UnitNames
  <2>2. /\ x.kind = "systemd.unit-dropin" /\ x.content = [wants |-> UnitNames(e)]
    BY ServicesAre
  <2>3. DropIns(e) = <<x>>
    BY <2>1 DEF DropIns
  <2> HIDE DEF x, u
  <2>4. x \in Range(DropIns(e))
    BY <2>3, OneIs
  <2>5. x \in Received(g)
    BY <1>1, <1>2, <2>4
  <2>6. x.content.wants = UnitNames(e)
    BY <2>2
  <2> QED BY <2>1, <2>2, <2>5, <2>6 DEF Wanted
<1> HIDE DEF u, g
<1>6. \A x \in Range(g) : x \in {u(i) : i \in DOMAIN e} \/ x \in others
  BY <1>1, <1>2
<1> HIDE DEF others
<1> DEFINE W == {x \in Units(g) : "where" \in DOMAIN x.content}
<1>7. W = {u(i) : i \in DOMAIN e}
  <2>1. ASSUME NEW x \in W PROVE x \in {u(i) : i \in DOMAIN e}
    <3>1. x \in Range(g) /\ x.kind = "systemd.extra-unit" /\ "where" \in DOMAIN x.content
      BY <1>1 DEF Units
    <3> QED BY <1>4, <1>6, <3>1
  <2>2. ASSUME NEW i \in DOMAIN e PROVE u(i) \in W
    <3>1. u(i) \in Received(g)
      BY <1>1, <1>2
    <3> QED BY <1>3, <1>5, <3>1 DEF Units
  <2> HIDE DEF W
  <2> QED BY <2>1, <2>2
<1>8. Mounts(g) = {x.content : x \in W}
  BY DEF Mounts
<1> HIDE DEF W
<1>9. Mounts(g) = {u(i).content : i \in DOMAIN e}
  BY <1>7, <1>8
<1> QED BY <1>9 DEF u, g

\* No volume is below an entry that is one and cannot be written.
LEMMA EntryOfVolume ==
  ASSUME IInv, pc = "done", Unnested(req), NEW v \in DirVolumes,
         EntryReadonly(v.to[2])
  PROVE  IsReadonly(v)
<1> DEFINE n(x) == Tail(x.to)
<1>1. /\ Inputs /\ mounts = AllVolumes
      /\ \A x, y \in Range(mounts) : x.to = y.to => x = y
  BY TargetsApart DEF IInv
<1>2. PICK w \in Range(mounts) : w.to = At(v.to[2]) /\ IsReadonly(w)
  BY DEF EntryReadonly
<1>3. w \in DirVolumes
  <2>1. Head(At(v.to[2])) = "host-mounts"
    BY DEF At
  <2> QED BY <1>1, <1>2, <2>1 DEF DirVolumes
<1>4. \A x \in DirVolumes : /\ NameOk(n(x)) /\ n(x) \in Names(req)
                            /\ x.to = <<"host-mounts">> \o n(x) /\ x \in Range(mounts)
  BY <1>1, EntryIs
<1> HIDE DEF n
<1>5. n(w) = <<v.to[2]>>
  <2> DEFINE k == v.to[2]
             x == n(w)
  <2>1. NameOk(x) /\ <<"host-mounts">> \o x = At(k)
    BY <1>2, <1>3, <1>4
  <2> HIDE DEF k, x
  <2>2. <<"host-mounts">> \o x = At(k) <=> x = <<k>>
    BY <2>1, NameParts
  <2> QED BY <2>1, <2>2 DEF k, x
<1>6. v.to[2] = n(v)[1]
  BY <1>4, NameParts
<1>7. IsPrefix(n(w), n(v))
  BY <1>4, <1>5, <1>6, NameParts
<1>8. n(w) = n(v)
  BY <1>3, <1>4, <1>7 DEF Unnested
<1> QED BY <1>1, <1>2, <1>3, <1>4, <1>8

LEMMA Mount ==
  ASSUME IInv, Unnested(req)
  PROVE  MountsAsAsked
<1> SUFFICES ASSUME pc = "done" PROVE GuestMounts = AskedMounts
  BY DEF MountsAsAsked
<1>1. PICK e : Built(e)
  BY DoneIsBuilt
<1> DEFINE m(i) == Shared(e[i]).unit.content
           d(i) == Shared(e[i]).daemon
           at(i) == {v \in DirVolumes : v.to[2] = e[i]}
           by(x) == UNION {{Mounted(x, z, v) : v \in VolumesOf(z)} : z \in DaemonsOf(x.what)}
<1>2. Range(e) = Entries /\ Inputs
  BY <1>1, EntryOrder
<1>3. GuestMounts = UNION {by(x) : x \in Mounts(GuestCreds)}
  BY DEF GuestMounts
<1>4. Mounts(GuestCreds) = {m(i) : i \in DOMAIN e}
  BY <1>1, GuestUnits
<1>5. \A i \in DOMAIN e : by(m(i)) = {MountOf(v) : v \in at(i)}
  <2> SUFFICES ASSUME NEW i \in DOMAIN e PROVE by(m(i)) = {MountOf(v) : v \in at(i)}
    OBVIOUS
  <2>1. /\ m(i).what = MountTag(e[i]) /\ m(i).where = MountPoint(e[i])
        /\ m(i).ro = EntryReadonly(e[i])
    <3>1. m(i) = [what |-> MountTag(e[i]), where |-> MountPoint(e[i]),
                  ro |-> EntryReadonly(e[i])]
      BY <1>1, EntryUnitsKeyed
    <3> HIDE DEF m
    <3> QED BY <3>1
  <2>2. /\ DaemonsOf(MountTag(e[i])) = {d(i)} /\ VolumesOf(d(i)) = at(i)
        /\ d(i).readonly = EntryReadonly(e[i])
    BY <1>1, Served
  <2> HIDE DEF m, d
  <2>3. by(m(i)) = {Mounted(m(i), d(i), v) : v \in at(i)}
    BY <2>1, <2>2
  <2>4. ASSUME NEW v \in at(i) PROVE Mounted(m(i), d(i), v) = MountOf(v)
    <3>1. v \in DirVolumes /\ v.to[2] = e[i]
      OBVIOUS
    <3>2. EntryReadonly(e[i]) => IsReadonly(v)
      BY <3>1, EntryOfVolume
    <3>3. (~m(i).ro /\ Writable(d(i), v)) = (~v.ro /\ host.dirs[v.from].writable)
      BY <2>1, <2>2, <3>2 DEF Writable, IsReadonly
    <3>4. Head(Tail(v.to)) = e[i]
      <4>1. NameOk(Tail(v.to)) /\ v.to = <<"host-mounts">> \o Tail(v.to)
        BY <1>2, <3>1, EntryIs
      <4> QED BY <3>1, <4>1, NameParts
    <3> QED BY <2>1, <3>3, <3>4 DEF Mounted, MountOf
  <2> HIDE DEF at, by
  <2> QED BY <2>3, <2>4
<1> HIDE DEF by, m
<1>6. \A z : z \in GuestMounts <=> \E i \in DOMAIN e : \E v \in at(i) : z = MountOf(v)
  BY <1>3, <1>4, <1>5
<1>7. \A v \in DirVolumes : MountOf(v) \in AskedMounts /\ \E i \in DOMAIN e : v \in at(i)
  <2> SUFFICES ASSUME NEW v \in DirVolumes
               PROVE  MountOf(v) \in AskedMounts /\ \E i \in DOMAIN e : v \in at(i)
    OBVIOUS
  <2>1. v.to[2] \in Range(e)
    BY <1>2 DEF Entries
  <2>2. PICK i \in DOMAIN e : v.to[2] = e[i]
    BY <2>1 DEF Range
  <2> QED BY <1>2, <2>2, EntryIs
<1>8. \A z \in AskedMounts : \E v \in DirVolumes : z = MountOf(v)
  BY <1>2, AskedIsEntry
<1>9. \A i : at(i) \subseteq DirVolumes
  OBVIOUS
<1> HIDE DEF at
<1> QED BY <1>6, <1>7, <1>8, <1>9

-----------------------------------------------------------------------------
(* The ports and the disks of the guest.                                   *)

LEMMA PortsOnce == \A i, j \in DOMAIN AllPorts : AllPorts[i] = AllPorts[j] => i = j
<1> DEFINE s == JournalPorts
           t == ExecutePorts
<1>1. JournalPort # InitrdPort
  BY DEF JournalPort, InitrdPort
<1>2. /\ \A i, j \in DOMAIN s : s[i] = s[j] => i = j
      /\ Range(s) \subseteq {JournalPort, InitrdPort}
  <2>1. CASE Streams
    BY <1>1, <2>1, TwoIs DEF JournalPorts
  <2>2. CASE ~Streams
    BY <2>2, EmptyIs DEF JournalPorts
  <2> QED BY <2>1, <2>2
<1>3. /\ \A i, j \in DOMAIN t : t[i] = t[j] => i = j
      /\ Range(t) \subseteq {"execute", "executestatus"}
  <2>1. CASE req.execute
    BY <2>1, TwoIs DEF ExecutePorts
  <2>2. CASE ~req.execute
    BY <2>2, EmptyIs DEF ExecutePorts
  <2> QED BY <2>1, <2>2
<1>4. Range(s) \cap Range(t) = {}
  BY <1>2, <1>3 DEF JournalPort, InitrdPort
<1>5. IsSeq(s) /\ IsSeq(t)
  BY PortsAreSeq
<1> HIDE DEF s, t
<1>6. ASSUME NEW i \in DOMAIN (s \o t), NEW j \in DOMAIN (s \o t), (s \o t)[i] = (s \o t)[j]
      PROVE  i = j
  <2> SUFFICES ASSUME i # j PROVE FALSE
    OBVIOUS
  <2> DEFINE c == s \o t
  <2>1. \/ \E k, l \in DOMAIN s : k # l /\ c[i] = s[k] /\ c[j] = s[l]
        \/ \E k, l \in DOMAIN t : k # l /\ c[i] = t[k] /\ c[j] = t[l]
        \/ c[i] \in Range(s) /\ c[j] \in Range(t)
        \/ c[i] \in Range(t) /\ c[j] \in Range(s)
    BY <1>5, ConcatPair
  <2>2. c[i] = c[j]
    BY <1>6
  <2> HIDE DEF c
  <2> QED BY <1>2, <1>3, <1>4, <2>1, <2>2
<1> QED BY <1>6 DEF AllPorts, s, t

\* The device of a port has the number of the port behind it.
LEMMA SerialRead ==
  ASSUME NEW e, Built(e)
  PROVE  /\ \A x \in DeviceArgs("virtserialport") : \E i \in DOMAIN AllPorts :
              x.name = AllPorts[i] /\ Behind(x.chardev, "file") = {i}
         /\ \A i \in DOMAIN AllPorts : \E x \in DeviceArgs("virtserialport") :
              x.name = AllPorts[i] /\ Behind(x.chardev, "file") = {i}
<1> DEFINE c == config
           a == [i \in DOMAIN c.serial |->
                   Chardev(<<"serial_char", i - 1>>, "file", c.serial[i].fdset)]
           b == [i \in DOMAIN c.serial |->
                   [opt |-> "-device", driver |-> "virtserialport",
                    chardev |-> <<"serial_char", i - 1>>, name |-> c.serial[i].name]]
<1>1. c.serial = Numbered(AllPorts) /\ IsSeq(c.serial)
  BY ConfigIs
<1>2. /\ DOMAIN c.serial = DOMAIN AllPorts
      /\ \A i \in DOMAIN AllPorts : c.serial[i].name = AllPorts[i] /\ c.serial[i].fdset = i
  BY <1>1 DEF Numbered
<1>3. IsSeq(a) /\ IsSeq(b) /\ P6 = a \o b
  BY <1>1, MappedIs DEF P6, SerialArgs
<1>4. /\ DOMAIN a = DOMAIN AllPorts /\ DOMAIN b = DOMAIN AllPorts
      /\ \A i \in DOMAIN AllPorts :
           /\ a[i].opt = "-chardev" /\ a[i].id = <<"serial_char", i - 1>>
           /\ a[i].backend = "file" /\ a[i].path = i
           /\ b[i].opt = "-device" /\ b[i].chardev = <<"serial_char", i - 1>>
           /\ b[i].name = AllPorts[i]
  BY <1>2 DEF Chardev
<1> HIDE DEF a, b
<1>5. Range(P6) = Range(a) \cup Range(b) /\ Range(P6) \subseteq Range(argv)
  BY <1>3, ConcatIs, ConfigIs, BuiltParts, WholePart
<1>6. DeviceArgs("virtserialport") = {x \in Range(P6) : x.opt = "-device"}
  BY ArgsRead
<1>7. DeviceArgs("virtserialport") = Range(b)
  <2>1. \A x \in Range(a) : x.opt = "-chardev"
    BY <1>4 DEF Range
  <2>2. \A x \in Range(b) : x.opt = "-device"
    BY <1>4 DEF Range
  <2> QED BY <1>5, <1>6, <2>1, <2>2
<1>8. \A i \in DOMAIN AllPorts : b[i].name = AllPorts[i] /\ Behind(b[i].chardev, "file") = {i}
  <2> SUFFICES ASSUME NEW i \in DOMAIN AllPorts
               PROVE  b[i].name = AllPorts[i] /\ Behind(b[i].chardev, "file") = {i}
    OBVIOUS
  <2>1. a[i] \in Range(argv)
    BY <1>4, <1>5 DEF Range
  <2>2. Behind(a[i].id, a[i].backend) = {a[i].path}
    BY <1>4, <2>1, BehindIs
  <2> QED BY <1>4, <2>2
<1>9. \A x : x \in Range(b) <=> \E i \in DOMAIN AllPorts : x = b[i]
  BY <1>4 DEF Range
<1>10. ASSUME NEW x \in DeviceArgs("virtserialport")
       PROVE  \E i \in DOMAIN AllPorts : x.name = AllPorts[i] /\ Behind(x.chardev, "file") = {i}
  <2>1. PICK i \in DOMAIN AllPorts : x = b[i]
    BY <1>7, <1>9
  <2> QED BY <1>8, <2>1
<1>11. ASSUME NEW i \in DOMAIN AllPorts
       PROVE  \E x \in DeviceArgs("virtserialport") :
                x.name = AllPorts[i] /\ Behind(x.chardev, "file") = {i}
  <2>1. b[i] \in DeviceArgs("virtserialport")
    BY <1>7, <1>9
  <2> QED BY <1>8, <2>1
<1> QED BY <1>10, <1>11

\* A port has one pipe, and that is read where the port was asked to go.
LEMMA PortServed ==
  ASSUME NEW e, Built(e), NEW port \in AskedPorts
  PROVE  Drained(port) = [to |-> AskedTo(port), pipes |-> 1]
<1> DEFINE p == AllPorts
<1>1. /\ IsSeq(p) /\ config.fdset = p /\ IsSeq(config.fdset) /\ readers = Drains(p)
      /\ Range(p) = AskedPorts
  BY ConfigIs, PortsAreSeq
<1>2. PICK k \in DOMAIN p : port = p[k]
  BY <1>1 DEF Range
<1>3. \A i, j \in DOMAIN p : p[i] = p[j] => i = j
  BY PortsOnce
<1>4. /\ \A x \in DeviceArgs("virtserialport") : \E i \in DOMAIN p :
           x.name = p[i] /\ Behind(x.chardev, "file") = {i}
      /\ \A i \in DOMAIN p : \E x \in DeviceArgs("virtserialport") :
           x.name = p[i] /\ Behind(x.chardev, "file") = {i}
  BY SerialRead
<1> HIDE DEF p
<1>5. ArgsOf("-add-fd") = Range(P1)
  BY ArgsRead
<1>6. DOMAIN P1 = DOMAIN p /\ \A i \in DOMAIN p : P1[i].set = i /\ P1[i].pipe = p[i]
  BY <1>1 DEF P1, AddFds
<1>7. PipesOf(port) = {port}
  <2> DEFINE A == {a \in ArgsOf("-add-fd") :
                     \E d \in DeviceArgs("virtserialport") :
                        d.name = port /\ a.set \in Behind(d.chardev, "file")}
  <2>1. PipesOf(port) = {a.pipe : a \in A}
    BY DEF PipesOf
  <2>2. A = {P1[k]}
    <3>1. P1[k] \in A
      BY <1>2, <1>4, <1>5, <1>6 DEF Range
    <3>2. ASSUME NEW a \in A PROVE a = P1[k]
      <4>1. PICK i \in DOMAIN p : a = P1[i]
        BY <1>5, <1>6 DEF Range
      <4>2. PICK d \in DeviceArgs("virtserialport") :
              d.name = port /\ a.set \in Behind(d.chardev, "file")
        OBVIOUS
      <4>3. PICK j \in DOMAIN p : d.name = p[j] /\ Behind(d.chardev, "file") = {j}
        BY <1>4
      <4>4. j = k
        BY <1>2, <1>3, <4>2, <4>3
      <4>5. i = k
        BY <1>6, <4>1, <4>2, <4>3, <4>4
      <4> QED BY <4>1, <4>5
    <3> HIDE DEF A
    <3> QED BY <3>1, <3>2
  <2> HIDE DEF A
  <2> QED BY <1>2, <1>6, <2>1, <2>2
<1> DEFINE q == [pipe |-> port, to |-> AskedTo(port)]
           R == {r \in Range(readers) : r.pipe \in PipesOf(port)}
<1>8. R = {q}
  <2>1. DOMAIN readers = DOMAIN p
        /\ \A i \in DOMAIN p : readers[i] = [pipe |-> p[i], to |-> AskedTo(p[i])]
    BY <1>1 DEF Drains
  <2>2. q \in R
    BY <1>2, <1>7, <2>1 DEF Range
  <2>3. ASSUME NEW r \in R PROVE r = q
    <3>1. PICK i \in DOMAIN p : r = readers[i]
      BY <2>1 DEF Range
    <3>2. r.pipe = p[i] /\ r = [pipe |-> p[i], to |-> AskedTo(p[i])]
      BY <2>1, <3>1
    <3>3. p[i] = port
      BY <1>7, <3>2
    <3> QED BY <3>2, <3>3
  <2> HIDE DEF R, q
  <2> QED BY <2>2, <2>3
<1>9. UNION {r.to : r \in R} = AskedTo(port)
  <2>1. q.to = AskedTo(port)
    OBVIOUS
  <2> HIDE DEF R, q
  <2> QED BY <1>8, <2>1
<1>10. Cardinality(PipesOf(port)) = 1
  BY <1>7, FS_Singleton
<1> QED BY <1>9, <1>10 DEF Drained

LEMMA PortsServed ==
  ASSUME NEW e, Built(e)
  PROVE  {d.name : d \in DeviceArgs("virtserialport")} = AskedPorts
<1>1. Range(AllPorts) = AskedPorts
  BY PortsAreSeq
<1>2. \A x : x \in AskedPorts <=> \E d \in DeviceArgs("virtserialport") : x = d.name
  BY <1>1, SerialRead DEF Range
<1> QED BY <1>2

\* A volume is at the place it was given, and no other is.
LEMMA PlacesAre ==
  ASSUME IInv, pc = "done"
  PROVE  /\ \A d \in Range(req.disks) : FileBehind(DiskPath(d)) = d.file
         /\ req.ignition # None => FileBehind(<<"ignition">>) = req.ignition
         /\ FileBehind(<<"swapfile">>) = "swapfile"
<1>1. Inputs /\ mounts = AllVolumes /\ \A v, w \in Range(mounts) : v.to = w.to => v = w
  BY TargetsApart DEF IInv
<1>2. ASSUME NEW v \in Range(mounts) PROVE FileBehind(v.to) = v.from
  <2>1. {w \in Range(mounts) : w.to = v.to} = {v}
    BY <1>1
  <2> QED BY <2>1 DEF FileBehind
<1>3. ASSUME NEW d \in Range(req.disks) PROVE FileBehind(DiskPath(d)) = d.file
  <2> DEFINE v == Volume(d.file, DiskPath(d), FALSE)
  <2>1. v.from = d.file /\ v.to = DiskPath(d)
    BY DEF Volume
  <2>2. v \in Range(DiskVolumes)
    BY DEF DiskVolumes, Range
  <2> HIDE DEF v
  <2>3. v \in Range(mounts)
    BY <1>1, <2>2, VolumesAre
  <2> QED BY <1>2, <2>1, <2>3
<1>4. ASSUME req.ignition # None PROVE FileBehind(<<"ignition">>) = req.ignition
  <2> DEFINE v == Volume(req.ignition, <<"ignition">>, TRUE)
  <2>1. v.from = req.ignition /\ v.to = <<"ignition">>
    BY DEF Volume
  <2>2. IgnitionVolumes = <<v>>
    BY <1>4 DEF IgnitionVolumes
  <2> HIDE DEF v
  <2>3. v \in Range(mounts)
    BY <1>1, <2>2, OneIs, VolumesAre
  <2> QED BY <1>2, <2>1, <2>3
<1>5. FileBehind(<<"swapfile">>) = "swapfile"
  <2>1. ASSUME NEW v \in Range(mounts) PROVE Head(v.to) # "swapfile"
    <3>1. CASE v \in Range(StorageVolumes)
      <4>1. v.to = <<"host-mounts">> \o StorageName /\ IsSeq(StorageName)
        BY <1>1, <3>1, VolumesFrom, StorageNameOk DEF NameOk
      <4> QED BY <4>1, PathHeads
    <3>2. CASE v \in Range(BindVolumes(req.rw, FALSE)) \cup Range(BindVolumes(req.ro, TRUE))
      <4>1. PICK b \in Range(req.rw) \cup Range(req.ro) : v.to = <<"host-mounts">> \o b.name
        <5>1. CASE v \in Range(BindVolumes(req.rw, FALSE))
          <6>1. \E b \in Range(req.rw) : v.to = <<"host-mounts">> \o b.name
            BY <1>1, <5>1, VolumesFrom
          <6> QED BY <6>1
        <5>2. CASE v \in Range(BindVolumes(req.ro, TRUE))
          <6>1. \E b \in Range(req.ro) : v.to = <<"host-mounts">> \o b.name
            BY <1>1, <5>2, VolumesFrom
          <6> QED BY <6>1
        <5> QED BY <3>2, <5>1, <5>2
      <4>2. IsSeq(b.name)
        BY <1>1 DEF Inputs, RequestOk, NameOk
      <4> QED BY <4>1, <4>2, PathHeads
    <3>3. CASE v \in Range(DiskVolumes)
      <4>1. PICK d \in Range(req.disks) : v = Volume(d.file, DiskPath(d), FALSE)
        BY <1>1, <3>3, VolumesFrom
      <4>2. v.to = DiskPath(d)
        BY <4>1 DEF Volume
      <4> QED BY <4>2, PathHeads
    <3>4. CASE v \in Range(IgnitionVolumes)
      BY <1>1, <3>4, VolumesFrom, PathHeads
    <3> QED BY <1>1, <3>1, <3>2, <3>3, <3>4, VolumesAre
  <2>2. {v \in Range(mounts) : v.to = <<"swapfile">>} = {}
    BY <2>1, PathHeads
  <2> QED BY <2>2, PathHeads DEF FileBehind
<1> QED BY <1>3, <1>4, <1>5

\* A block device has the drive of its number, and that the file of its own.
LEMMA DisksRead ==
  ASSUME NEW e, Built(e)
  PROVE  \A x : x \in GuestDisks <=>
           \E b \in Range(AllBlk) : x = GuestDisk(b.serial, FileBehind(b.file), b.format, b.ro)
<1> DEFINE s == AllBlk
           of(k) == GuestDisk(s[k].serial, FileBehind(s[k].file), s[k].format, s[k].ro)
           with(v) == {d \in ArgsOf("-drive") : d.id = v.drive}
           at(v) == {GuestDisk(v.serial, FileBehind(d.file), d.format, d.ro) : d \in with(v)}
<1>1. config.blk = s /\ IsSeq(s)
  BY ConfigIs
<1>2. /\ DOMAIN P2 = DOMAIN s /\ DOMAIN P3 = DOMAIN s
      /\ \A k \in DOMAIN s :
           /\ P2[k].id = k - 1 /\ P2[k].file = s[k].file /\ P2[k].format = s[k].format
           /\ P2[k].ro = s[k].ro /\ P3[k].drive = k - 1 /\ P3[k].serial = s[k].serial
  <2> HIDE DEF s
  <2> QED BY <1>1 DEF P2, Drives, P3, BlkDevices
<1>3. ArgsOf("-drive") = Range(P2) /\ DeviceArgs("virtio-blk-pci") = Range(P3)
  BY ArgsRead
<1>4. \A k \in DOMAIN s : k \in Int
  BY <1>1, SeqIs
<1>5. GuestDisks = UNION {at(v) : v \in Range(P3)}
  BY <1>3 DEF GuestDisks
<1>6. \A k \in DOMAIN s : at(P3[k]) = {of(k)}
  <2> SUFFICES ASSUME NEW k \in DOMAIN s PROVE at(P3[k]) = {of(k)}
    OBVIOUS
  <2>1. with(P3[k]) = {P2[k]}
    <3>1. P2[k] \in with(P3[k])
      BY <1>2, <1>3 DEF Range
    <3>2. ASSUME NEW d \in with(P3[k]) PROVE d = P2[k]
      <4>1. PICK j \in DOMAIN s : d = P2[j]
        BY <1>2, <1>3 DEF Range
      <4>2. j - 1 = k - 1
        BY <1>2, <4>1
      <4>3. j = k
        BY <1>4, <4>2
      <4> QED BY <4>1, <4>3
    <3> HIDE DEF with
    <3> QED BY <3>1, <3>2
  <2> HIDE DEF with
  <2> QED BY <1>2, <2>1
<1> HIDE DEF at, of
<1>7. \A x : x \in GuestDisks <=> \E k \in DOMAIN s : x = of(k)
  BY <1>2, <1>5, <1>6 DEF Range
<1> QED BY <1>7 DEF of, Range

\* The disks of the guest are those that were asked for.
LEMMA DisksServed ==
  ASSUME NEW e, Built(e)
  PROVE  GuestDisks = AskedDisks
<1> DEFINE of(b) == GuestDisk(b.serial, FileBehind(b.file), b.format, b.ro)
           disk(d) == GuestDisk(DiskName(d), d.file, DiskFormat(d), FALSE)
           swap == GuestDisk("swap", "swapfile", "raw", FALSE)
           ign == GuestDisk("ignition", req.ignition, "raw", TRUE)
           I == req.ignition # None /\ host.arch \in {"s390x", "powerpc64le"}
<1>1. /\ \A d \in Range(req.disks) : FileBehind(DiskPath(d)) = d.file
      /\ req.ignition # None => FileBehind(<<"ignition">>) = req.ignition
      /\ FileBehind(<<"swapfile">>) = "swapfile"
  BY PlacesAre DEF Built
<1>2. Range(AllBlk) = Range(IgnitionBlk) \cup Range(SwapBlk) \cup Range(DiskBlk)
  BY DiskBlkIs DEF Built, IInv
<1>3. \A x : (\E b \in Range(IgnitionBlk) : x = of(b)) <=> I /\ x = ign
  <2> DEFINE b0 == Blk(<<"ignition">>, "ignition", "raw", TRUE)
  <2>1. CASE I
    <3>1. of(b0) = ign
      BY <1>1, <2>1 DEF Blk
    <3>2. IgnitionBlk = <<b0>>
      BY <2>1 DEF IgnitionBlk
    <3> HIDE DEF b0, of, ign, I
    <3> QED BY <2>1, <3>1, <3>2, OneIs
  <2>2. CASE ~I
    <3>1. IgnitionBlk = <<>>
      BY <2>2 DEF IgnitionBlk
    <3> HIDE DEF I
    <3> QED BY <2>2, <3>1, EmptyIs
  <2> QED BY <2>1, <2>2
<1>4. \A x : (\E b \in Range(SwapBlk) : x = of(b)) <=> req.swap /\ x = swap
  <2> DEFINE b0 == Blk(<<"swapfile">>, "swap", "raw", FALSE)
  <2>1. CASE req.swap
    <3>1. of(b0) = swap
      BY <1>1 DEF Blk
    <3>2. SwapBlk = <<b0>>
      BY <2>1 DEF SwapBlk
    <3> HIDE DEF b0, of, swap
    <3> QED BY <2>1, <3>1, <3>2, OneIs
  <2>2. CASE ~req.swap
    <3>1. SwapBlk = <<>>
      BY <2>2 DEF SwapBlk
    <3> QED BY <2>2, <3>1, EmptyIs
  <2> QED BY <2>1, <2>2
<1>5. \A x : (\E b \in Range(DiskBlk) : x = of(b)) <=> \E d \in Range(req.disks) : x = disk(d)
  <2> DEFINE blk(d) == Blk(DiskPath(d), DiskName(d), DiskFormat(d), FALSE)
  <2>1. \A d \in Range(req.disks) : of(blk(d)) = disk(d)
    BY <1>1 DEF Blk
  <2>2. \A b : b \in Range(DiskBlk) <=> \E d \in Range(req.disks) : b = blk(d)
    BY DEF DiskBlk, Range
  <2> HIDE DEF of, disk, blk
  <2> QED BY <2>1, <2>2
<1> HIDE DEF of, disk
<1>6. \A x : x \in GuestDisks <=> \E b \in Range(AllBlk) : x = of(b)
  BY DisksRead DEF of
<1>7. \A x : x \in AskedDisks <=> \/ \E d \in Range(req.disks) : x = disk(d)
                                  \/ req.swap /\ x = swap
                                  \/ I /\ x = ign
  BY DEF AskedDisks, disk
<1> HIDE DEF swap, ign, I
<1>8. \A x : x \in GuestDisks <=> x \in AskedDisks
  BY <1>2, <1>3, <1>4, <1>5, <1>6, <1>7
<1> QED BY <1>8

\* Volumes at places of their own, of which a part is taken.
TargetsOnce(s) == \A i, j \in DOMAIN s : s[i].to = s[j].to => i = j

LEMMA PartOnce ==
  ASSUME NEW s, NEW t, IsSeq(s), IsSeq(t), TargetsOnce(s \o t)
  PROVE  TargetsOnce(s) /\ TargetsOnce(t)
<1> DEFINE c == s \o t
<1>1. /\ \A i \in DOMAIN s : c[i] = s[i]
      /\ \A i \in DOMAIN t : c[Len(s) + i] = t[i]
      /\ DOMAIN c = 1..(Len(s) + Len(t))
  BY ConcatIs
<1>2. /\ DOMAIN s = 1..Len(s) /\ DOMAIN t = 1..Len(t)
      /\ Len(s) \in Nat /\ Len(t) \in Nat
  BY SeqIs
<1>3. \A i, j \in DOMAIN c : c[i].to = c[j].to => i = j
  BY DEF TargetsOnce
<1> HIDE DEF c
<1>4. \A i \in DOMAIN s : i \in DOMAIN c
  BY <1>1, <1>2
<1>5. \A i \in DOMAIN t : Len(s) + i \in DOMAIN c
  BY <1>1, <1>2
<1>6. ASSUME NEW i \in DOMAIN t, NEW j \in DOMAIN t, t[i].to = t[j].to
      PROVE  i = j
  <2>1. Len(s) + i = Len(s) + j
    BY <1>1, <1>3, <1>5, <1>6
  <2> QED BY <1>2, <2>1
<1> QED BY <1>1, <1>3, <1>4, <1>6 DEF TargetsOnce

\* No two disks that were asked for have one name.
LEMMA DiskVolumesApart ==
  ASSUME IInv, pc = "done", NEW i \in DOMAIN req.disks, NEW j \in DOMAIN req.disks,
         DiskName(req.disks[i]) = DiskName(req.disks[j])
  PROVE  i = j
<1> DEFINE a == StorageVolumes \o BindVolumes(req.rw, FALSE) \o BindVolumes(req.ro, TRUE)
           d == DiskVolumes
           b == a \o d
<1>1. Inputs /\ mounts = b \o IgnitionVolumes /\ TargetsOnce(mounts)
  BY TargetsApart DEF IInv, AllVolumes, TargetsOnce
<1>2. IsSeq(a) /\ IsSeq(d) /\ IsSeq(IgnitionVolumes)
  <2>1. IsSeq(StorageVolumes \o BindVolumes(req.rw, FALSE))
    BY <1>1, VolumesAre, ConcatIs
  <2> QED BY <1>1, <2>1, VolumesAre, ConcatIs
<1>3. /\ DOMAIN d = DOMAIN req.disks
      /\ \A k \in DOMAIN req.disks : d[k].to = DiskPath(req.disks[k])
  BY DEF DiskVolumes, Volume
<1> HIDE DEF a, d
<1>4. IsSeq(b)
  BY <1>2, ConcatIs
<1>5. TargetsOnce(b)
  <2> HIDE DEF b
  <2> QED BY <1>1, <1>2, <1>4, PartOnce
<1>6. TargetsOnce(d)
  BY <1>2, <1>5, PartOnce
<1> QED BY <1>3, <1>6 DEF TargetsOnce, DiskPath

LEMMA DisksApart ==
  ASSUME IInv, pc = "done", Apart(req), NEW d \in AskedDisks, NEW f \in AskedDisks,
         d.serial = f.serial
  PROVE  d = f
<1> DEFINE disk(x) == GuestDisk(DiskName(x), x.file, DiskFormat(x), FALSE)
           swap == GuestDisk("swap", "swapfile", "raw", FALSE)
           ign == GuestDisk("ignition", req.ignition, "raw", TRUE)
<1>1. \A x \in AskedDisks : \/ \E y \in Range(req.disks) : x = disk(y)
                            \/ req.swap /\ x = swap
                            \/ req.ignition # None /\ x = ign
  BY DEF AskedDisks
<1>2. swap.serial = "swap" /\ ign.serial = "ignition" /\ \A y : disk(y).serial = DiskName(y)
  BY DEF GuestDisk
<1>3. \A y \in Range(req.disks) : /\ req.swap => DiskName(y) # "swap"
                                  /\ req.ignition # None => DiskName(y) # "ignition"
  BY DEF Apart
<1>4. \A y, z \in Range(req.disks) : DiskName(y) = DiskName(z) => y = z
  BY DiskVolumesApart DEF Range
<1> HIDE DEF disk, swap, ign
<1>5. CASE \E y \in Range(req.disks) : d = disk(y)
  <2>1. PICK y \in Range(req.disks) : d = disk(y)
    BY <1>5
  <2>2. f # swap \/ ~req.swap
    BY <1>2, <1>3, <2>1
  <2>3. f # ign \/ req.ignition = None
    BY <1>2, <1>3, <2>1
  <2>4. PICK z \in Range(req.disks) : f = disk(z)
    BY <1>1, <2>2, <2>3
  <2>5. y = z
    BY <1>2, <1>4, <2>1, <2>4
  <2> QED BY <2>1, <2>4, <2>5
<1>6. CASE req.swap /\ d = swap
  <2>1. f # ign
    BY <1>2, <1>6
  <2>2. ~\E y \in Range(req.disks) : f = disk(y)
    BY <1>2, <1>3, <1>6
  <2> QED BY <1>1, <1>6, <2>1, <2>2
<1>7. CASE req.ignition # None /\ d = ign
  <2>1. f # swap
    BY <1>2, <1>7
  <2>2. ~\E y \in Range(req.disks) : f = disk(y)
    BY <1>2, <1>3, <1>7
  <2> QED BY <1>1, <1>7, <2>1, <2>2
<1> QED BY <1>1, <1>5, <1>6, <1>7

LEMMA Serve ==
  ASSUME IInv, Apart(req)
  PROVE  DevicesServed
<1> SUFFICES ASSUME pc = "done"
             PROVE  /\ {d.name : d \in DeviceArgs("virtserialport")} = AskedPorts
                    /\ \A port \in AskedPorts :
                         Drained(port) = [to |-> AskedTo(port), pipes |-> 1]
                    /\ GuestDisks = AskedDisks
                    /\ \A d, f \in AskedDisks : d.serial = f.serial => d = f
  BY DEF DevicesServed
<1>1. PICK e : Built(e)
  BY DoneIsBuilt
<1>2. {d.name : d \in DeviceArgs("virtserialport")} = AskedPorts
  BY <1>1, PortsServed
<1>3. \A port \in AskedPorts : Drained(port) = [to |-> AskedTo(port), pipes |-> 1]
  BY <1>1, PortServed
<1>4. GuestDisks = AskedDisks
  BY <1>1, DisksServed
<1>5. \A d, f \in AskedDisks : d.serial = f.serial => d = f
  BY DisksApart
<1> QED BY <1>2, <1>3, <1>4, <1>5

-----------------------------------------------------------------------------
\* What each part writes stays as the parts that read it expect it
\* (prepare_run_command_with_temp, run_impl, qemu.rs).
THEOREM EphemeralConfigInvariant == Spec => []IInv
<1>1. IInv /\ [Next]_vars => IInv'
  BY InputsStep, HostInvStep, BootInvStep, MountsInvStep, PortsInvStep, BlkInvStep,
     ArgvInvStep DEF IInv
<1> QED BY Initially, <1>1, PTL DEF Spec

\* QEMU boots one artifact of the image, the first of its kind, and finds the
\* units in its initramfs (find_kernel, run_impl).
THEOREM BootCorrect == Spec => []BootsOneArtifact
<1>1. IInv => BootsOneArtifact
  BY Boots DEF IInv
<1> QED BY EphemeralConfigInvariant, <1>1, PTL

\* Every directory that was asked for is found at its place in the guest, and no
\* other is, whatever their number, names and order, with a slash in the name or
\* without, unless one is asked for below another (run_impl, qemu.rs).
THEOREM MountsCorrect ==
  ASSUME \A r \in Requests : Unnested(r)
  PROVE  Spec => []MountsAsAsked
<1>1. Init => req \in Requests
  BY DEF Init
<1>2. req \in Requests /\ [Next]_vars => (req \in Requests)'
  BY Acts
<1>3. IInv /\ req \in Requests => MountsAsAsked
  BY Mount
<1> QED BY EphemeralConfigInvariant, <1>1, <1>2, <1>3, PTL DEF Spec

\* Every port is drained where it was asked to go, and every disk is the one
\* that was asked for, unless a disk has one of the two names that `run` uses
\* itself (add_virtio_serial_pipe, spawn, run_impl).
THEOREM DevicesCorrect ==
  ASSUME \A r \in Requests : Apart(r)
  PROVE  Spec => []DevicesServed
<1>1. Init => req \in Requests
  BY DEF Init
<1>2. req \in Requests /\ [Next]_vars => (req \in Requests)'
  BY Acts
<1>3. IInv /\ req \in Requests => DevicesServed
  BY Serve
<1> QED BY EphemeralConfigInvariant, <1>1, <1>2, <1>3, PTL DEF Spec
=============================================================================
