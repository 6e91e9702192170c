------------------------------ MODULE VmConfig ------------------------------
(***************************************************************************)
(* What `bcvk libvirt run` makes of its options: the domain XML, with the  *)
(* firmware, the devices, the credentials for systemd in the guest and the *)
(* metadata the other commands read.  One `run` is modelled, from the      *)
(* checks of its options to the XML it hands to virsh, one action per part *)
(* of create_libvirt_domain_from_disk; an error return leads to "failed".  *)
(*                                                                         *)
(* What the program finds on the host (its architecture, the firmware      *)
(* descriptors, directories, the version of libvirt) is in `host`.  Wording *)
(* is left out: an XML element is a record or a field, its text a value.   *)
(***************************************************************************)
EXTENDS GuestCredentials, FiniteSetsExt

CONSTANTS
  Requests,  \* the command lines, records like Plain
  Hosts,     \* the hosts, records like PlainHost
  None,      \* Option::None
  SshPort    \* the port find_available_ssh_port returns

VARIABLES
  pc,       \* the part of `run` that is next
  req,      \* the options
  host,     \* what is found on the host
  builder,  \* the DomainBuilder
  creds,    \* smbios_creds
  units,    \* mount_unit_names
  tmpfiles, \* tmpfiles_content
  sb,       \* secure_boot_config
  logs,     \* resolved paths of the two console logs
  args,     \* qemu_args
  xml       \* the domain XML

vars == <<pc, req, host, builder, creds, units, tmpfiles, sb, logs, args, xml>>

\* The options of a `run` that asks for nothing.
Plain ==
  [firmware |-> "uefi-secure", keys |-> FALSE, tpm |-> TRUE, transient |-> FALSE,
   itype |-> None, memory |-> 4096, cpus |-> 2, network |-> "user",
   raw |-> <<>>, rw |-> <<>>, ro |-> <<>>, storage |-> FALSE, fromHost |-> FALSE,
   ignition |-> None, ports |-> <<>>, firmwareLog |-> FALSE, graphical |-> FALSE,
   logDir |-> None, consoleLog |-> None, platformLog |-> None]

\* A host: its firmware descriptors and firmware files, the directories there
\* are with their canonical paths, and the labels of the image.
PlainHost ==
  [arch |-> "x86_64", descriptors |-> <<>>, files |-> {}, keys |-> TRUE,
   real |-> << >>, version |-> 11, storage |-> None, labels |-> << >>]

\* The sizes an instance type stands for.
Itypes ==
  [nano |-> [vcpus |-> 1, memory |-> 512],
   medium |-> [vcpus |-> 1, memory |-> 4096],
   large |-> [vcpus |-> 2, memory |-> 8192]]
ResolvedMemory == IF req.itype # None THEN Itypes[req.itype].memory ELSE req.memory
ResolvedCpus == IF req.itype # None THEN Itypes[req.itype].vcpus ELSE req.cpus

-----------------------------------------------------------------------------
(* What a command line and a host are.  None is none of the values that an *)
(* option, a descriptor or a path can be.                                  *)

RequestOk(r) ==
  /\ DOMAIN r = DOMAIN Plain
  /\ r.firmware \in {"uefi-secure", "uefi-insecure", "bios"}
  /\ {r.keys, r.transient, r.storage, r.fromHost} \subseteq BOOLEAN
  /\ r.itype \in {None} \cup DOMAIN Itypes
  /\ r.memory \in Nat
  /\ \A s \in {r.raw, r.rw, r.ro, r.ports} : IsSeq(s)
  /\ \A m \in Range(r.rw) \cup Range(r.ro) : IsSeq(m.path) /\ "\\x2d" \notin Range(m.path)
  /\ r.logDir # None =>
       /\ {r.logDir.journal, r.logDir.console} \subseteq BOOLEAN
       /\ None \notin {[dir |-> r.logDir.path, name |-> n] :
                       n \in {"journal.json", "journal-initrd.json"}}

HostOk(h) ==
  /\ IsSeq(h.descriptors)
  /\ \A d \in Range(h.descriptors) :
       /\ {d.parses, d.secure, d.enrolled} \subseteq BOOLEAN
       /\ None \notin {d, [of |-> d.vars, format |-> d.varsFormat],
                       [path |-> d.code, format |-> d.codeFormat],
                       [path |-> d.code, format |-> d.codeFormat, secure |-> "yes"]}
  /\ \A dir \in Range(h.real) : dir \in DOMAIN h.real /\ h.real[dir] = dir

ASSUME InputAssumption ==
  /\ \A r \in Requests : RequestOk(r)
  /\ \A h \in Hosts : HostOk(h)
  /\ None \notin Nat \cup {"ignition", "vm_ignition.json"}
  /\ \A s \in {"yes", "no"} : None # [path |-> None, format |-> None, secure |-> s]

-----------------------------------------------------------------------------
(* The builder, and what it writes.                                        *)

NewBuilder ==
  [memory |-> None, vcpus |-> None, transient |-> FALSE, network |-> None,
   graphical |-> FALSE, meta |-> << >>, filesystems |-> <<>>,
   firmware |-> None, tpm |-> TRUE, code |-> None, nvram |-> None,
   firmwareLog |-> FALSE, virtioLog |-> None, serialLog |-> None,
   fwCfg |-> <<>>, ignitionDisk |-> None, journal |-> None,
   journalInitrd |-> None, args |-> <<>>]

\* A chain of with_... calls: the fields of `new` replace those of b.
With(b, new) ==
  [f \in DOMAIN b \cup DOMAIN new |-> IF f \in DOMAIN new THEN new[f] ELSE b[f]]
WithMeta(b, new) == [b EXCEPT !.meta = With(@, new)]
WithFs(b, fs) == [b EXCEPT !.filesystems = Append(@, fs)]

Uefi(b) == b.firmware # "bios"
SecureBoot(b) == Uefi(b) /\ (b.firmware = "uefi-secure" \/ b.code # None)

\* ArchConfig::detect knows two architectures.
KnownArchs == {"x86_64", "aarch64"}
Machine(arch) == IF arch = "x86_64" THEN "q35" ELSE "virt"

Loader(b) ==
  CASE ~Uefi(b) -> None
    [] Uefi(b) /\ b.code # None ->
         [path |-> b.code.path, format |-> b.code.format,
          secure |-> IF SecureBoot(b) THEN "yes" ELSE None]
    [] Uefi(b) /\ b.code = None /\ SecureBoot(b) ->
         [path |-> None, format |-> None, secure |-> "yes"]
    [] Uefi(b) /\ b.code = None /\ b.firmware = "uefi-insecure" ->
         [path |-> None, format |-> None, secure |-> "no"]
    [] OTHER -> None

OsElement(b, arch) ==
  [efi |-> Uefi(b) /\ b.code = None,
   machine |-> Machine(arch),
   loader |-> Loader(b),
   nvram |-> IF Uefi(b) /\ b.code # None THEN b.nvram ELSE None]

Features(b, arch) ==
  {"acpi", "apic"}
    \cup (IF arch = "x86_64" THEN {"vmport=off"} ELSE {})
    \cup (IF arch = "x86_64" /\ SecureBoot(b) THEN {"smm"} ELSE {})

\* Writable disk of the VM, and the Ignition config as a read-only disk.
Disks(b) ==
  <<[dev |-> "vda", file |-> "disk", ro |-> FALSE, transient |-> b.transient,
     serial |-> None]>>
    \o (IF b.ignitionDisk = None THEN <<>>
        ELSE <<[dev |-> "vdb", file |-> b.ignitionDisk, ro |-> TRUE,
                transient |-> FALSE, serial |-> "ignition"]>>)

Interfaces(network) ==
  CASE network \in {"none", "default"} -> {}
    [] network = "user" -> {[type |-> "user", source |-> None]}
    [] network = "bridge" -> {[type |-> "bridge", source |-> "br0"]}
    [] OTHER -> {[type |-> "network", source |-> network]}

Consoles(b) == [serial |-> b.serialLog, virtio |-> b.virtioLog]

Channels(b) ==
  {c \in {[name |-> "org.bcvk.journal", file |-> b.journal],
          [name |-> "org.bcvk.journal.initrd", file |-> b.journalInitrd]} :
     c.file # None}

CommandLine(b) ==
  [i \in DOMAIN b.fwCfg |-> [arg |-> "-fw_cfg", value |-> b.fwCfg[i]]] \o b.args

BuildXml(b, arch) ==
  [os |-> OsElement(b, arch), features |-> Features(b, arch),
   memory |-> IF b.memory = None THEN 4096 ELSE b.memory,
   vcpus |-> b.vcpus,
   disks |-> Disks(b),
   interfaces |-> Interfaces(IF b.network = None THEN "default" ELSE b.network),
   consoles |-> Consoles(b),
   channels |-> Channels(b),
   debugcon |-> arch = "x86_64" /\ b.firmwareLog,
   spice |-> b.graphical,
   filesystems |-> b.filesystems,
   tpm |-> b.tpm,
   commandLine |-> CommandLine(b),
   meta |-> b.meta]

-----------------------------------------------------------------------------
(* The firmware descriptors of QEMU, in the order of their directories and *)
(* names.  One that does not parse ends the search.                        *)

Suitable(d, secure) ==
  /\ ~d.enrolled
  /\ host.arch \in d.archs
  /\ secure => d.secure
  /\ d.device # "memory"
  /\ d.code # None
  /\ d.vars # None

FindFirmware(secure) ==
  LET ds == host.descriptors
      stop == {i \in DOMAIN ds : ~ds[i].parses \/ Suitable(ds[i], secure)}
  IN  IF stop = {} \/ ~ds[Min(stop)].parses THEN None ELSE ds[Min(stop)]

\* find_secure_boot_firmware also wants the code to be there.
FindSecureBootFirmware ==
  LET d == FindFirmware(TRUE)
  IN  IF d = None \/ d.code \notin host.files THEN None ELSE d

-----------------------------------------------------------------------------
(* One action per part of `run` and create_libvirt_domain_from_disk.       *)

Init ==
  /\ pc = "options"
  /\ req \in Requests
  /\ host \in Hosts
  /\ builder = NewBuilder
  /\ creds = <<>>
  /\ units = {}
  /\ tmpfiles = {}
  /\ sb = None
  /\ logs = [virtio |-> None, serial |-> None]
  /\ args = <<>>
  /\ xml = None

made == <<builder, creds, units, tmpfiles, sb, logs, args, xml>>

Fail == pc' = "failed" /\ UNCHANGED <<req, host, made>>

Exists(dir) == dir \in DOMAIN host.real

OptionsOk ==
  /\ req.logDir # None => req.logDir.absolute
  /\ req.ignition # None => SupportsIgnition(host.labels)
                            /\ req.ignition \in host.files

\* --update-from-host implies --bind-storage-ro.
CheckOptions ==
  /\ pc = "options"
  /\ IF OptionsOk
     THEN /\ pc' = "firmware"
          /\ req' = [req EXCEPT !.storage = @ \/ req.fromHost]
          /\ tmpfiles' = RootKey("key")
          /\ UNCHANGED <<host, builder, creds, units, sb, logs, args, xml>>
     ELSE Fail

\* Mutant: the variables of any firmware.
SetupAnyFirmware ==
  LET d == FindFirmware(FALSE)
  IN  IF d = None \/ ~host.keys THEN None
      ELSE [of |-> d.vars, format |-> d.varsFormat]

\* setup_secure_boot: the user's keys go into a copy of the variables of the
\* first suitable firmware.
SetupSecureBoot ==
  LET d == FindFirmware(TRUE)
  IN  IF d = None \/ ~host.keys THEN None
      ELSE [of |-> d.vars, format |-> d.varsFormat]

Firmware ==
  /\ pc = "firmware"
  /\ IF req.keys /\ (req.firmware # "uefi-secure" \/ SetupSecureBoot = None)
     THEN Fail
     ELSE /\ pc' = "builder"
          /\ sb' = IF req.keys THEN SetupSecureBoot ELSE None
          /\ UNCHANGED <<req, host, builder, creds, units, tmpfiles, logs, args,
                         xml>>

BaseBuilder ==
  With(NewBuilder,
    [memory |-> ResolvedMemory, vcpus |-> ResolvedCpus,
     transient |-> req.transient, network |-> "none", firmware |-> req.firmware,
     tpm |-> req.tpm, firmwareLog |-> req.firmwareLog,
     graphical |-> req.graphical,
     meta |-> With(IF req.itype = None THEN << >> ELSE [itype |-> req.itype],
                   [memory |-> ResolvedMemory, vcpus |-> ResolvedCpus,
                    network |-> req.network, sshPort |-> SshPort])])

\* The code is looked up again, and must be of the same firmware.
Build ==
  LET d == FindSecureBootFirmware
  IN  /\ pc = "builder"
      /\ IF sb # None /\ d = None THEN Fail
         ELSE /\ pc' = "volumes"
              /\ builder' =
                   IF sb = None THEN BaseBuilder
                   ELSE WithMeta(With(BaseBuilder,
                          [code |-> [path |-> d.code, format |-> d.codeFormat],
                           nvram |-> sb]), [keys |-> TRUE])
              /\ UNCHANGED <<req, host, creds, units, tmpfiles, sb, logs, args,
                             xml>>

\* --volume: a tag of the user's own, which the guest does not mount by itself.
Volumes ==
  /\ pc = "volumes"
  /\ IF \E i \in DOMAIN req.raw : ~Exists(req.raw[i].dir) THEN Fail
     ELSE /\ pc' = "binds"
          /\ builder' = [builder EXCEPT !.filesystems = @ \o
               [i \in DOMAIN req.raw |->
                  [dir |-> req.raw[i].dir, tag |-> req.raw[i].tag, ro |-> FALSE]]]
          /\ UNCHANGED <<req, host, creds, units, tmpfiles, sb, logs, args, xml>>

ValidBind(m) == Exists(m.dir) /\ m.path # <<>> /\ Head(m.path) = "/"
BindTag(prefix, i) == <<prefix, i - 1>>

\* process_bind_mounts: a filesystem, a credential and a unit name for each.
ProcessBindMounts(mounts, prefix, ro) ==
  /\ \A i \in DOMAIN mounts : ValidBind(mounts[i])
  /\ builder' = [builder EXCEPT !.filesystems = @ \o
       [i \in DOMAIN mounts |->
          [dir |-> mounts[i].dir, tag |-> BindTag(prefix, i), ro |-> ro]]]
  /\ creds' = creds \o
       [i \in DOMAIN mounts |-> MountUnit(BindTag(prefix, i), mounts[i].path, ro)]
  /\ units' = units \cup {UnitName(mounts[i].path) : i \in DOMAIN mounts}

BindMounts ==
  /\ pc = "binds"
  /\ \/ /\ ProcessBindMounts(req.rw, "bcvk-bind-", FALSE)
        /\ pc' = "binds-ro"
        /\ UNCHANGED <<req, host, tmpfiles, sb, logs, args, xml>>
     \/ /\ \E i \in DOMAIN req.rw : ~ValidBind(req.rw[i])
        /\ Fail

\* Mutant: both kinds of bind mounts have one prefix.
BindMountsRoPrefix ==
  /\ pc = "binds-ro"
  /\ ProcessBindMounts(req.ro, "bcvk-bind-", TRUE)
  /\ pc' = "storage"
  /\ UNCHANGED <<req, host, tmpfiles, sb, logs, args, xml>>

BindMountsRo ==
  /\ pc = "binds-ro"
  /\ \/ /\ ProcessBindMounts(req.ro, "bcvk-bind-ro-", TRUE)
        /\ pc' = "storage"
        /\ UNCHANGED <<req, host, tmpfiles, sb, logs, args, xml>>
     \/ /\ \E i \in DOMAIN req.ro : ~ValidBind(req.ro[i])
        /\ Fail

\* The version virsh prints: none if it could not be parsed.
ReadonlySupported == host.version # None /\ host.version >= 11
StorageValid == host.storage # None /\ Exists(host.storage)

StorageTag == <<"hoststorage">>
StoragePath == <<"/", "run", "/", "host", "-", "container", "-", "storage">>

Storage ==
  /\ pc = "storage"
  /\ CASE ~req.storage ->
            /\ pc' = "ignition"
            /\ UNCHANGED <<req, host, made>>
       [] req.storage /\ ~(ReadonlySupported /\ StorageValid) -> Fail
       [] OTHER ->
            /\ pc' = "ignition"
            /\ builder' = WithMeta(
                 WithFs(builder, [dir |-> host.storage, tag |-> StorageTag, ro |-> TRUE]),
                 [storage |-> host.storage])
            /\ creds' = Append(creds, MountUnit(StorageTag, StoragePath, TRUE))
                        \o StorageOpts
            /\ units' = units \cup {UnitName(StoragePath)}
            /\ tmpfiles' = tmpfiles \cup StorageLines
            /\ UNCHANGED <<req, host, sb, logs, args, xml>>

\* std::env::consts::ARCH names POWER "powerpc64", whatever its byte order.
PoolIgnition == "vm_ignition.json"
\* Mutant: the file is used where the user has it.
IgnitionInPlace ==
  /\ pc = "ignition"
  /\ pc' = "journal"
  /\ builder' = IF req.ignition = None THEN builder
                ELSE [WithMeta(builder, [ignition |-> PoolIgnition])
                        EXCEPT !.fwCfg = Append(@, req.ignition)]
  /\ UNCHANGED <<req, host, creds, units, tmpfiles, sb, logs, args, xml>>

Ignition ==
  LET recorded == WithMeta(builder, [ignition |-> PoolIgnition])
  IN  /\ pc = "ignition"
      /\ CASE req.ignition = None ->
                pc' = "journal" /\ UNCHANGED <<req, host, made>>
           [] req.ignition # None /\ host.arch \in {"x86_64", "aarch64"} ->
                /\ pc' = "journal"
                /\ builder' = [recorded EXCEPT !.fwCfg = Append(@, PoolIgnition)]
                /\ UNCHANGED <<req, host, creds, units, tmpfiles, sb, logs, args, xml>>
           [] req.ignition # None /\ host.arch \in {"s390x", "powerpc64le"} ->
                /\ pc' = "journal"
                /\ builder' = [recorded EXCEPT !.ignitionDisk = PoolIgnition]
                /\ UNCHANGED <<req, host, creds, units, tmpfiles, sb, logs, args, xml>>
           [] OTHER -> Fail

MountDropIn ==
  IF units = {} THEN <<>>
  ELSE <<DropIn("remote-fs.target", "bcvk-mounts", units)>>

JournalAsked == req.logDir # None /\ req.logDir.journal
InLogDir(name) == [dir |-> req.logDir.path, name |-> name]

Journal ==
  /\ pc = "journal"
  /\ IF JournalAsked /\ ~Exists(req.logDir.path) THEN Fail
     ELSE /\ pc' = "args"
          /\ creds' = creds \o MountDropIn
                       \o (IF JournalAsked THEN JournalStream ELSE <<>>)
          /\ builder' = IF ~JournalAsked THEN builder
                        ELSE With(builder,
                          [journal |-> InLogDir("journal.json"),
                           journalInitrd |-> InLogDir("journal-initrd.json")])
          /\ UNCHANGED <<req, host, units, tmpfiles, sb, logs, args, xml>>

Smbios(cred) == [arg |-> "-smbios", value |-> cred]
Forward(from, to) == [from |-> from, to |-> to]
Forwards ==
  <<Forward(SshPort, 22)>>
    \o [i \in DOMAIN req.ports |-> Forward(req.ports[i].from, req.ports[i].to)]

QemuArgs ==
  /\ pc = "args"
  /\ pc' = "logs"
  /\ args' = <<Smbios(Tmpfiles(tmpfiles))>>
             \o [i \in DOMAIN creds |-> Smbios(creds[i])]
             \o <<[arg |-> "-netdev", value |-> Forwards],
                  [arg |-> "-device", value |-> "virtio-net-pci"]>>
  /\ UNCHANGED <<req, host, builder, creds, units, tmpfiles, sb, logs, xml>>

\* Mutant: the path as the user gave it.
Unresolved(path) == path

\* resolve_log_path: the directory's canonical path, and the file in it.
Resolve(path) == [dir |-> host.real[path.dir], name |-> path.name]
Resolvable(path) == path # None => Exists(path.dir)

VirtioLog ==
  IF req.logDir # None /\ req.logDir.console THEN InLogDir("console.txt")
  ELSE req.consoleLog

ResolvedLogs ==
  [virtio |-> IF VirtioLog = None THEN None ELSE Resolve(VirtioLog),
   serial |-> IF req.platformLog = None THEN None ELSE Resolve(req.platformLog)]

ConsoleLogs ==
  /\ pc = "logs"
  /\ IF \/ ~Resolvable(VirtioLog) \/ ~Resolvable(req.platformLog)
        \/ ResolvedLogs.virtio # None /\ ResolvedLogs.virtio = ResolvedLogs.serial
     THEN Fail
     ELSE /\ pc' = "xml"
          /\ logs' = ResolvedLogs
          /\ UNCHANGED <<req, host, builder, creds, units, tmpfiles, sb, args, xml>>

Xml ==
  /\ pc = "xml"
  /\ IF host.arch \notin KnownArchs THEN Fail
     ELSE /\ pc' = "done"
          /\ xml' = BuildXml(With(builder,
               [virtioLog |-> logs.virtio, serialLog |-> logs.serial, args |-> args]),
               host.arch)
          /\ UNCHANGED <<req, host, builder, creds, units, tmpfiles, sb, logs, args>>

Next ==
  \/ CheckOptions \/ Firmware \/ Build \/ Volumes \/ BindMounts \/ BindMountsRo
  \/ Storage \/ Ignition \/ Journal \/ QemuArgs \/ ConsoleLogs \/ Xml

Spec == Init /\ [][Next]_vars
-----------------------------------------------------------------------------
(* The XML, read as libvirt, QEMU and systemd in the guest read it.        *)

Arguments(arg) == {xml.commandLine[i].value : i \in
                     {i \in DOMAIN xml.commandLine : xml.commandLine[i].arg = arg}}
GuestCreds ==
  [i \in {i \in DOMAIN xml.commandLine : xml.commandLine[i].arg = "-smbios"} |->
     xml.commandLine[i].value]

Injective(seq) == \A i, j \in DOMAIN seq : seq[i] = seq[j] => i = j
Column(seq, field) == [i \in DOMAIN seq |-> seq[i][field]]

Mounted(m, f) ==
  [path |-> m.where, dir |-> f.dir, ro |-> m.ro /\ f.ro, rw |-> ~m.ro /\ ~f.ro]
GuestMounts ==
  UNION {{Mounted(m, f) : f \in {f \in Range(xml.filesystems) : f.tag = m.what}} :
           m \in Mounts(GuestCreds)}
AskedMount(path, dir, ro) == [path |-> path, dir |-> dir, ro |-> ro, rw |-> ~ro]
AskedMounts ==
  {AskedMount(m.path, m.dir, FALSE) : m \in Range(req.rw)}
    \cup {AskedMount(m.path, m.dir, TRUE) : m \in Range(req.ro)}
    \cup (IF req.storage THEN {AskedMount(StoragePath, host.storage, TRUE)} ELSE {})

\* Tags, guest paths and host ports that do not collide with each other or with
\* those `run` makes of its own accord.  Nothing in the code rejects others.
Apart(r) ==
  /\ Injective(Column(r.raw, "tag"))
  /\ \A v \in Range(r.raw) :
       v.tag # StorageTag /\ v.tag \notin {"bcvk-bind-", "bcvk-bind-ro-"} \X Nat
  /\ Injective(Column(r.rw, "path")) /\ Injective(Column(r.ro, "path"))
  /\ \A m \in Range(r.rw), n \in Range(r.ro) : m.path # n.path
  /\ (r.storage \/ r.fromHost) =>
       \A m \in Range(r.rw) \cup Range(r.ro) : m.path # StoragePath
  /\ Injective(Column(r.ports, "from"))
  /\ \A p \in Range(r.ports) : p.from # SshPort

\* What `run` was asked to give the guest is what systemd in the guest makes
\* of the credentials and the filesystems: each --bind and --bind-ro is
\* mounted at its path, from its directory, with its access, and nothing else
\* is; the SSH key, the storage options and the journal units all arrive
\* (process_bind_mounts, create_libvirt_domain_from_disk, credentials.rs).
GuestServesRequest ==
  pc = "done" =>
    /\ GuestMounts = AskedMounts
    /\ TmpfilesLines(GuestCreds)
         = RootKey("key") \cup (IF req.storage THEN StorageLines ELSE {})
    /\ Services(GuestCreds)
         = (IF req.storage THEN {StorageService} ELSE {})
             \cup (IF JournalAsked THEN {JournalService, JournalInitrdService} ELSE {})
    /\ Cardinality(xml.channels) = IF JournalAsked THEN 2 ELSE 0

\* The XML is one libvirt and QEMU can start: a loader of its own and the
\* choice of a loader by libvirt exclude each other, variables need a loader,
\* a secure loader needs SMM on x86_64, no tag, target or host port is used
\* twice, and the two consoles log into two files, whatever paths the user
\* gave (DomainBuilder::build_xml, resolve_log_path).
DomainStarts ==
  pc = "done" =>
    LET os == xml.os
        explicit == os.loader # None /\ os.loader.path # None
        file(path) == IF path = None THEN None
                      ELSE [dir |-> host.real[path.dir], name |-> path.name]
    IN  /\ ~(explicit /\ os.efi)
        /\ os.nvram # None => explicit
        /\ (os.loader # None /\ os.loader.secure = "yes" /\ host.arch = "x86_64")
             => os.machine = "q35" /\ "smm" \in xml.features
        /\ Injective(Column(xml.filesystems, "tag"))
        /\ Injective(Column(xml.disks, "dev"))
        /\ \A fw \in Arguments("-netdev") : Injective(Column(fw, "from"))
        /\ xml.consoles.serial # None
             => file(xml.consoles.serial) # file(xml.consoles.virtio)

\* The firmware is of the kind that was asked for, and with the user's keys
\* its code and its variables are the two halves of one descriptor, in the
\* formats it gives, found by two searches (setup_secure_boot and
\* find_secure_boot_firmware).
FirmwareAgrees ==
  pc = "done" =>
    LET os == xml.os
        ofOne(d) == /\ d.parses /\ d.secure /\ ~d.enrolled /\ host.arch \in d.archs
                    /\ os.loader.path = d.code /\ os.loader.format = d.codeFormat
                    /\ os.nvram = [of |-> d.vars, format |-> d.varsFormat]
    IN  /\ (os.loader # None /\ os.loader.secure = "yes")
             <=> req.firmware = "uefi-secure"
        /\ (os.loader # None /\ os.loader.secure = "no")
             <=> req.firmware = "uefi-insecure"
        /\ req.keys <=> os.nvram # None
        /\ req.keys => \E d \in Range(host.descriptors) : ofOne(d)

\* What the metadata says, which is all `ssh`, `rm` and `list` go by, is what
\* the domain has: the port `ssh` connects to is forwarded to the guest's
\* sshd, and the Ignition file `rm` deletes is the one QEMU reads.
MetadataTrue ==
  pc = "done" =>
    /\ xml.meta.memory = xml.memory /\ xml.meta.vcpus = xml.vcpus
    /\ "itype" \in DOMAIN xml.meta
         => xml.memory = Itypes[xml.meta.itype].memory
    /\ \A fw \in Arguments("-netdev") : Forward(xml.meta.sshPort, 22) \in Range(fw)
    /\ {xml.meta[k] : k \in DOMAIN xml.meta \cap {"ignition"}}
         = Arguments("-fw_cfg")
             \cup {d.file : d \in {d \in Range(xml.disks) : d.serial = "ignition"}}
    /\ {xml.meta[k] : k \in DOMAIN xml.meta \cap {"storage"}}
         = {f.dir : f \in {f \in Range(xml.filesystems) : f.tag = StorageTag}}

\* "Config is injected via fw_cfg on x86_64/aarch64, virtio-blk on
\* s390x/ppc64le" (bcvk-libvirt-run.md): an Ignition config the options allow
\* does not make `run` fail on one of these.
DocumentedArchs == {"x86_64", "aarch64", "s390x", "powerpc64"}
IgnitionOnDocumentedArchs ==
  (pc = "failed" /\ req.ignition # None /\ OptionsOk)
    => host.arch \notin DocumentedArchs
=============================================================================
