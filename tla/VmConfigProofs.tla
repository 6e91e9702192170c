--------------------------- MODULE VmConfigProofs ---------------------------
(***************************************************************************)
(* Proofs about VmConfig, for all command lines and hosts: the firmware is *)
(* of the kind that was asked for, the metadata is true, the domain starts *)
(* and the guest is given what was asked for.                              *)
(*                                                                         *)
(* `run` goes through its parts in one order.  The invariant says of each  *)
(* variable what it holds once the part that sets it has been done.        *)
(***************************************************************************)
EXTENDS VmConfig, GuestCredentialProofs, WellFoundedInduction

-----------------------------------------------------------------------------
(* Where each part has been done.                                          *)

AfterXml == {"done"}
AfterLogs == {"xml"} \cup AfterXml
AfterArgs == {"logs"} \cup AfterLogs
AfterJournal == {"args"} \cup AfterArgs
AfterIgnition == {"journal"} \cup AfterJournal
AfterStorage == {"ignition"} \cup AfterIgnition
AfterBindsRo == {"storage"} \cup AfterStorage
AfterBinds == {"binds-ro"} \cup AfterBindsRo
AfterVolumes == {"binds"} \cup AfterBinds
AfterBuild == {"volumes"} \cup AfterVolumes
AfterFirmware == {"builder"} \cup AfterBuild
AfterOptions == {"firmware"} \cup AfterFirmware

\* Well-formed options, on a well-formed host.
Inputs == host \in Hosts /\ HostOk(host) /\ RequestOk(req)

BuilderType == pc \in AfterBuild => DOMAIN builder = DOMAIN NewBuilder

\* The variables that have been set up, and the code that is looked up after
\* them, are of one descriptor.
FirmwareInv ==
  /\ pc \in AfterFirmware =>
       /\ sb = IF req.keys THEN SetupSecureBoot ELSE None
       /\ req.keys => req.firmware = "uefi-secure" /\ SetupSecureBoot # None
  /\ pc \in AfterBuild =>
       /\ builder.firmware = req.firmware
       /\ IF req.keys
            THEN LET d == FindSecureBootFirmware IN
                 /\ d # None
                 /\ builder.code = [path |-> d.code, format |-> d.codeFormat]
                 /\ builder.nvram = SetupSecureBoot
            ELSE builder.code = None /\ builder.nvram = None

\* The XML is what the builder writes.
XmlInv ==
  pc \in AfterXml =>
    /\ host.arch \in KnownArchs
    /\ xml = BuildXml(With(builder, [virtioLog |-> logs.virtio, serialLog |-> logs.serial,
                                     args |-> args]), host.arch)

\* What the parts have written, in the order they write it.
RawFs ==
  [i \in DOMAIN req.raw |-> [dir |-> req.raw[i].dir, tag |-> req.raw[i].tag, ro |-> FALSE]]
BindFs(mounts, prefix, ro) ==
  [i \in DOMAIN mounts |-> [dir |-> mounts[i].dir, tag |-> BindTag(prefix, i), ro |-> ro]]
StorageFs == [dir |-> host.storage, tag |-> StorageTag, ro |-> TRUE]
FsVolumes == <<>> \o RawFs
FsBinds == FsVolumes \o BindFs(req.rw, "bcvk-bind-", FALSE)
FsBindsRo == FsBinds \o BindFs(req.ro, "bcvk-bind-ro-", TRUE)
FsStorage == IF req.storage THEN Append(FsBindsRo, StorageFs) ELSE FsBindsRo

BindCreds(mounts, prefix, ro) ==
  [i \in DOMAIN mounts |-> MountUnit(BindTag(prefix, i), mounts[i].path, ro)]
CredsBinds == <<>> \o BindCreds(req.rw, "bcvk-bind-", FALSE)
CredsBindsRo == CredsBinds \o BindCreds(req.ro, "bcvk-bind-ro-", TRUE)
CredsStorage ==
  IF req.storage
  THEN Append(CredsBindsRo, MountUnit(StorageTag, StoragePath, TRUE)) \o StorageOpts
  ELSE CredsBindsRo

BindUnits(mounts) == {UnitName(mounts[i].path) : i \in DOMAIN mounts}
UnitsBinds == {} \cup BindUnits(req.rw)
UnitsBindsRo == UnitsBinds \cup BindUnits(req.ro)
UnitsStorage == UnitsBindsRo \cup (IF req.storage THEN {UnitName(StoragePath)} ELSE {})

CredsJournal ==
  CredsStorage
    \o (IF UnitsStorage = {} THEN <<>>
        ELSE <<DropIn("remote-fs.target", "bcvk-mounts", UnitsStorage)>>)
    \o (IF JournalAsked THEN JournalStream ELSE <<>>)

AllLines == RootKey("key") \cup (IF req.storage THEN StorageLines ELSE {})
Arguments1 ==
  <<Smbios(Tmpfiles(AllLines))>>
  \o [i \in DOMAIN CredsJournal |-> Smbios(CredsJournal[i])]
  \o <<[arg |-> "-netdev", value |-> Forwards],
       [arg |-> "-device", value |-> "virtio-net-pci"]>>

FsInv ==
  /\ pc = "volumes" => builder.filesystems = <<>>
  /\ pc = "binds" => builder.filesystems = FsVolumes
  /\ pc = "binds-ro" => builder.filesystems = FsBinds
  /\ pc = "storage" => builder.filesystems = FsBindsRo
  /\ pc \in AfterStorage => builder.filesystems = FsStorage

CredInv ==
  /\ pc \in {"options", "firmware", "builder", "volumes", "binds"} =>
       creds = <<>> /\ units = {}
  /\ pc = "binds-ro" => creds = CredsBinds /\ units = UnitsBinds
  /\ pc = "storage" => creds = CredsBindsRo /\ units = UnitsBindsRo
  /\ pc \in AfterStorage => units = UnitsStorage
  /\ pc \in {"ignition", "journal"} => creds = CredsStorage
  /\ pc \in AfterJournal => creds = CredsJournal
  /\ pc \in AfterBinds => \A i \in DOMAIN req.rw : ValidBind(req.rw[i])
  /\ pc \in AfterBindsRo => \A i \in DOMAIN req.ro : ValidBind(req.ro[i])

ArgsInv ==
  /\ pc = "options" => tmpfiles = {}
  /\ pc \in AfterOptions \ AfterStorage => tmpfiles = RootKey("key")
  /\ pc \in AfterStorage => tmpfiles = AllLines
  /\ pc \in AfterArgs => args = Arguments1

\* The two logs have been resolved, and differ.
LogInv ==
  pc \in AfterLogs =>
    /\ Resolvable(VirtioLog) /\ Resolvable(req.platformLog)
    /\ logs = ResolvedLogs
    /\ logs.virtio # None => logs.virtio # logs.serial

JournalInv ==
  pc \in AfterBuild =>
    IF pc \in AfterJournal /\ JournalAsked
      THEN /\ builder.journal = InLogDir("journal.json")
           /\ builder.journalInitrd = InLogDir("journal-initrd.json")
      ELSE builder.journal = None /\ builder.journalInitrd = None

\* The metadata, and where the Ignition config is.
MetaInv ==
  pc \in AfterBuild =>
    /\ builder.memory = ResolvedMemory /\ builder.vcpus = ResolvedCpus
    /\ {"memory", "vcpus", "sshPort"} \subseteq DOMAIN builder.meta
    /\ builder.meta.memory = ResolvedMemory /\ builder.meta.vcpus = ResolvedCpus
    /\ builder.meta.sshPort = SshPort
    /\ "itype" \in DOMAIN builder.meta => req.itype # None /\ builder.meta.itype = req.itype
    /\ IF pc \in AfterStorage /\ req.storage
         THEN "storage" \in DOMAIN builder.meta /\ builder.meta.storage = host.storage
         ELSE "storage" \notin DOMAIN builder.meta
    /\ IF pc \in AfterIgnition /\ req.ignition # None
         THEN /\ "ignition" \in DOMAIN builder.meta /\ builder.meta.ignition = PoolIgnition
              /\ \/ builder.fwCfg = <<PoolIgnition>> /\ builder.ignitionDisk = None
                 \/ builder.fwCfg = <<>> /\ builder.ignitionDisk = PoolIgnition
         ELSE /\ "ignition" \notin DOMAIN builder.meta
              /\ builder.fwCfg = <<>> /\ builder.ignitionDisk = None

-----------------------------------------------------------------------------
(* The records the model is made of.                                       *)

\* The fields of a record with new fields.
LEMMA WithIs ==
  ASSUME NEW b, NEW new
  PROVE  /\ DOMAIN With(b, new) = DOMAIN b \cup DOMAIN new
         /\ \A f \in DOMAIN new : With(b, new)[f] = new[f]
         /\ \A f \in DOMAIN b \ DOMAIN new : With(b, new)[f] = b[f]
BY DEF With

LEMMA BuilderFields ==
  DOMAIN NewBuilder = {"memory", "vcpus", "transient", "network", "graphical", "meta",
     "filesystems", "firmware", "tpm", "code", "nvram", "firmwareLog", "virtioLog",
     "serialLog", "fwCfg", "ignitionDisk", "journal", "journalInitrd", "args"}
BY DEF NewBuilder

LEMMA RequestFields ==
  DOMAIN Plain = {"firmware", "keys", "tpm", "transient", "itype", "memory", "cpus",
     "network", "raw", "rw", "ro", "storage", "fromHost", "ignition", "ports",
     "firmwareLog", "graphical", "logDir", "consoleLog", "platformLog"}
BY DEF Plain

\* A non-empty set of numbers has a minimum.
LEMMA MinIs ==
  ASSUME NEW S, S \subseteq Nat, S # {}
  PROVE  Min(S) \in S
<1>1. PICK x \in S : \A y \in S : ~(<<y, x>> \in OpToRel(<, Nat))
  BY NatLessThanWellFounded, WFMin, Zenon
<1>2. ASSUME NEW y \in S PROVE ~(y < x)
  BY <1>1, Zenon DEF OpToRel
<1>3. \A y \in S : x <= y
  BY <1>2
<1> QED BY <1>3 DEF Min

\* What is found is one of the descriptors, and suitable.
LEMMA FirmwareFound ==
  ASSUME HostOk(host), NEW secure \in BOOLEAN, FindFirmware(secure) # None
  PROVE  /\ FindFirmware(secure) \in Range(host.descriptors)
         /\ FindFirmware(secure).parses
         /\ Suitable(FindFirmware(secure), secure)
<1> DEFINE ds == host.descriptors
           stop == {i \in DOMAIN ds : ~ds[i].parses \/ Suitable(ds[i], secure)}
<1>1. stop \subseteq Nat
  BY DEF HostOk, IsSeq
<1>2. stop # {} /\ ds[Min(stop)].parses /\ FindFirmware(secure) = ds[Min(stop)]
  BY DEF FindFirmware
<1>3. Min(stop) \in stop
  BY <1>1, <1>2, MinIs
<1> QED BY <1>2, <1>3 DEF Range

-----------------------------------------------------------------------------
(* Inputs and firmware.                                                    *)

LEMMA InputsStep == Inputs /\ [Next]_vars => Inputs'
<1> SUFFICES ASSUME Inputs, [Next]_vars PROVE Inputs'
  OBVIOUS
<1>1. CASE UNCHANGED <<req, host>>
  BY <1>1 DEF Inputs, HostOk
<1>2. CASE CheckOptions /\ ~UNCHANGED <<req, host>>
  <2>1. req' = [req EXCEPT !.storage = @ \/ req.fromHost] /\ host' = host
    BY <1>2 DEF CheckOptions, Fail
  <2>2. DOMAIN req = DOMAIN Plain
    BY DEF Inputs, RequestOk
  <2>3. /\ DOMAIN req' = DOMAIN Plain
        /\ \A f \in DOMAIN Plain \ {"storage"} : req'[f] = req[f]
        /\ req'.storage = (req.storage \/ req.fromHost)
    BY <2>1, <2>2, RequestFields
  <2>4. RequestOk(req')
    BY <2>3, RequestFields DEF Inputs, RequestOk
  <2> QED BY <2>1, <2>4 DEF Inputs, HostOk
<1>3. Next => CheckOptions \/ UNCHANGED <<req, host>>
  BY DEF Next, Firmware, Build, Volumes, BindMounts, BindMountsRo, Storage, Ignition,
         Journal, QemuArgs, ConsoleLogs, Xml, Fail, ProcessBindMounts
<1> QED BY <1>1, <1>2, <1>3 DEF vars
-----------------------------------------------------------------------------
(* The order of the parts, and the builder.                                *)

Order ==
  {<<"options", "firmware">>, <<"firmware", "builder">>, <<"builder", "volumes">>,
   <<"volumes", "binds">>, <<"binds", "binds-ro">>, <<"binds-ro", "storage">>,
   <<"storage", "ignition">>, <<"ignition", "journal">>, <<"journal", "args">>,
   <<"args", "logs">>, <<"logs", "xml">>, <<"xml", "done">>}

\* A part is followed by the next one, or by the end of a failed `run`.
LEMMA InOrder ==
  ASSUME [Next]_vars
  PROVE  UNCHANGED vars \/ pc' = "failed" \/ <<pc, pc'>> \in Order
<1>1. CASE CheckOptions \/ Firmware \/ Build
  BY <1>1 DEF CheckOptions, Firmware, Build, Fail, Order
<1>2. CASE Volumes \/ BindMounts \/ BindMountsRo
  BY <1>2 DEF Volumes, BindMounts, BindMountsRo, Fail, Order
<1>3. CASE Storage \/ Ignition
  BY <1>3 DEF Storage, Ignition, Fail, Order
<1>4. CASE Journal \/ QemuArgs \/ ConsoleLogs \/ Xml
  BY <1>4 DEF Journal, QemuArgs, ConsoleLogs, Xml, Fail, Order
<1> QED BY <1>1, <1>2, <1>3, <1>4 DEF Next

Keeps(fields) == \A f \in fields : builder'[f] = builder[f]

\* What the parts after the builder do to it.
LEMMA BuilderFrame ==
  ASSUME BuilderType, [Next]_vars, pc \in AfterBuild
  PROVE  /\ UNCHANGED <<req, host, sb>>
         /\ DOMAIN builder' = DOMAIN builder
         /\ Keeps({"memory", "vcpus", "transient", "firmware", "code", "nvram"})
         /\ pc \in AfterStorage => Keeps({"filesystems"})
         /\ pc \notin {"storage", "ignition"} => Keeps({"meta"})
         /\ pc # "ignition" => Keeps({"fwCfg", "ignitionDisk"})
         /\ pc # "journal" => Keeps({"journal", "journalInitrd"})
<1> USE DEF BuilderType, Keeps
<1>1. CASE UNCHANGED <<req, host, sb, builder>>
  BY <1>1
<1>2. CASE \E fs : builder' = [builder EXCEPT !.filesystems = fs]
                  /\ UNCHANGED <<req, host, sb>> /\ pc \notin AfterStorage
  <2>1. PICK fs : builder' = [builder EXCEPT !.filesystems = fs]
    BY <1>2
  <2>2. /\ DOMAIN builder' = DOMAIN builder
        /\ \A f \in DOMAIN builder \ {"filesystems"} : builder'[f] = builder[f]
    BY <2>1
  <2> QED BY <1>2, <2>2, BuilderFields
<1>3. CASE Storage /\ ~UNCHANGED builder
  <2>1. /\ builder' = WithMeta(
             WithFs(builder, [dir |-> host.storage, tag |-> StorageTag, ro |-> TRUE]),
             [storage |-> host.storage])
        /\ pc = "storage" /\ UNCHANGED <<req, host, sb>>
    BY <1>3 DEF Storage, Fail, made
  <2>2. /\ DOMAIN builder' = DOMAIN builder
        /\ \A f \in DOMAIN builder \ {"filesystems", "meta"} : builder'[f] = builder[f]
    BY <2>1 DEF WithMeta, WithFs
  <2> QED BY <2>1, <2>2, BuilderFields DEF AfterStorage, AfterIgnition, AfterJournal,
             AfterArgs, AfterLogs, AfterXml
<1>4. CASE Ignition
  BY <1>4, BuilderFields DEF Ignition, WithMeta, Fail, made
<1>5. CASE Journal
  <2>1. \/ UNCHANGED builder
        \/ builder' = With(builder, [journal |-> InLogDir("journal.json"),
                                     journalInitrd |-> InLogDir("journal-initrd.json")])
    BY <1>5 DEF Journal, Fail, made
  <2>2. /\ DOMAIN builder' = DOMAIN builder
        /\ \A f \in DOMAIN builder \ {"journal", "journalInitrd"} : builder'[f] = builder[f]
    <3>1. CASE UNCHANGED builder
      BY <3>1
    <3>2. CASE ~UNCHANGED builder
      <4> DEFINE new == [journal |-> InLogDir("journal.json"),
                         journalInitrd |-> InLogDir("journal-initrd.json")]
      <4>1. builder' = With(builder, new) /\ DOMAIN new = {"journal", "journalInitrd"}
        BY <2>1, <3>2
      <4>2. DOMAIN builder' = DOMAIN builder \cup DOMAIN new
            /\ \A f \in DOMAIN builder \ DOMAIN new : builder'[f] = builder[f]
        <5> HIDE DEF new
        <5> QED BY <4>1, WithIs
      <4> QED BY <4>1, <4>2, BuilderFields
    <3> QED BY <3>1, <3>2
  <2>3. pc = "journal" /\ UNCHANGED <<req, host, sb>>
    BY <1>5 DEF Journal, Fail, made
  <2> QED BY <2>2, <2>3, BuilderFields
<1>6. CASE Volumes \/ BindMounts \/ BindMountsRo
  BY <1>1, <1>2, <1>6 DEF Volumes, BindMounts, BindMountsRo, ProcessBindMounts, Fail, made,
     AfterStorage, AfterIgnition, AfterJournal, AfterArgs, AfterLogs, AfterXml
<1>7. ~CheckOptions /\ ~Firmware /\ ~Build
  BY DEF CheckOptions, Firmware, Build, AfterBuild, AfterVolumes, AfterBinds, AfterBindsRo,
         AfterStorage, AfterIgnition, AfterJournal, AfterArgs, AfterLogs, AfterXml
<1>8. CASE QemuArgs \/ ConsoleLogs \/ Xml
  BY <1>1, <1>8 DEF QemuArgs, ConsoleLogs, Xml, Fail, made
<1>9. CASE UNCHANGED vars
  BY <1>1, <1>9 DEF vars
<1>10. CASE Storage /\ UNCHANGED builder
  BY <1>1, <1>10 DEF Storage, Fail, made
<1> QED BY <1>3, <1>4, <1>5, <1>6, <1>7, <1>8, <1>9, <1>10 DEF Next

-----------------------------------------------------------------------------
(* Firmware.                                                               *)

LEMMA Stages ==
  /\ AfterXml = {"done"}
  /\ AfterLogs = {"xml", "done"}
  /\ AfterArgs = {"logs", "xml", "done"}
  /\ AfterJournal = {"args", "logs", "xml", "done"}
  /\ AfterIgnition = {"journal", "args", "logs", "xml", "done"}
  /\ AfterStorage = {"ignition"} \cup AfterIgnition
  /\ AfterBindsRo = {"storage"} \cup AfterStorage
  /\ AfterBinds = {"binds-ro"} \cup AfterBindsRo
  /\ AfterVolumes = {"binds"} \cup AfterBinds
  /\ AfterBuild = {"volumes"} \cup AfterVolumes
  /\ AfterFirmware = {"builder"} \cup AfterBuild
BY DEF AfterXml, AfterLogs, AfterArgs, AfterJournal, AfterIgnition, AfterStorage,
       AfterBindsRo, AfterBinds, AfterVolumes, AfterBuild, AfterFirmware

\* What is done stays done: a stage is entered by the part that completes it.
LEMMA Entered ==
  ASSUME [Next]_vars
  PROVE  \/ UNCHANGED vars
         \/ pc' = "failed"
         \/ pc = "options" /\ pc' = "firmware"
         \/ pc = "firmware" /\ pc' = "builder"
         \/ pc = "builder" /\ pc' = "volumes"
         \/ pc \in AfterBuild /\ pc' \in AfterVolumes
BY InOrder, Stages DEF Order

LEMMA SearchFrame ==
  ASSUME UNCHANGED host
  PROVE  SetupSecureBoot' = SetupSecureBoot /\ FindSecureBootFirmware' = FindSecureBootFirmware
<1>1. FindFirmware(TRUE)' = FindFirmware(TRUE)
  BY DEF FindFirmware, Suitable
<1> QED BY <1>1 DEF SetupSecureBoot, FindSecureBootFirmware

\* The two searches find one descriptor.
LEMMA SecureBootFound ==
  ASSUME HostOk(host), FindSecureBootFirmware # None
  PROVE  /\ FindSecureBootFirmware = FindFirmware(TRUE)
         /\ FindSecureBootFirmware \in Range(host.descriptors)
         /\ FindSecureBootFirmware.parses
         /\ Suitable(FindSecureBootFirmware, TRUE)
BY FirmwareFound DEF FindSecureBootFirmware

\* The builder that the firmware is set in, and the metadata.
LEMMA BaseIs ==
  /\ DOMAIN BaseBuilder = DOMAIN NewBuilder
  /\ BaseBuilder.firmware = req.firmware
  /\ BaseBuilder.memory = ResolvedMemory /\ BaseBuilder.vcpus = ResolvedCpus
  /\ BaseBuilder.code = None /\ BaseBuilder.nvram = None
  /\ BaseBuilder.filesystems = <<>> /\ BaseBuilder.fwCfg = <<>>
  /\ BaseBuilder.ignitionDisk = None
  /\ BaseBuilder.journal = None /\ BaseBuilder.journalInitrd = None
<1> DEFINE new ==
      [memory |-> ResolvedMemory, vcpus |-> ResolvedCpus,
       transient |-> req.transient, network |-> "none", firmware |-> req.firmware,
       tpm |-> req.tpm, firmwareLog |-> req.firmwareLog,
       graphical |-> req.graphical,
       meta |-> With(IF req.itype = None THEN << >> ELSE [itype |-> req.itype],
                     [memory |-> ResolvedMemory, vcpus |-> ResolvedCpus,
                      network |-> req.network, sshPort |-> SshPort])]
<1>1. BaseBuilder = With(NewBuilder, new)
  BY DEF BaseBuilder
<1>2. /\ DOMAIN new = {"memory", "vcpus", "transient", "network", "firmware", "tpm",
                       "firmwareLog", "graphical", "meta"}
      /\ new.firmware = req.firmware /\ new.memory = ResolvedMemory
      /\ new.vcpus = ResolvedCpus
  OBVIOUS
<1> HIDE DEF new
<1>3. /\ DOMAIN BaseBuilder = DOMAIN NewBuilder \cup DOMAIN new
      /\ \A f \in DOMAIN new : BaseBuilder[f] = new[f]
      /\ \A f \in DOMAIN NewBuilder \ DOMAIN new : BaseBuilder[f] = NewBuilder[f]
  <2> DEFINE b == With(NewBuilder, new)
  <2>1. /\ DOMAIN b = DOMAIN NewBuilder \cup DOMAIN new
        /\ \A f \in DOMAIN new : b[f] = new[f]
        /\ \A f \in DOMAIN NewBuilder \ DOMAIN new : b[f] = NewBuilder[f]
    BY WithIs, Zenon
  <2> HIDE DEF b
  <2> QED BY <1>1, <2>1 DEF b
<1>4. /\ NewBuilder.code = None /\ NewBuilder.nvram = None
      /\ NewBuilder.filesystems = <<>> /\ NewBuilder.fwCfg = <<>>
      /\ NewBuilder.ignitionDisk = None
      /\ NewBuilder.journal = None /\ NewBuilder.journalInitrd = None
  BY DEF NewBuilder
<1> QED BY <1>2, <1>3, <1>4, BuilderFields

\* Its metadata.
LEMMA BaseMetaIs ==
  /\ DOMAIN BaseBuilder.meta = {"memory", "vcpus", "network", "sshPort"}
                                 \cup (IF req.itype = None THEN {} ELSE {"itype"})
  /\ BaseBuilder.meta.memory = ResolvedMemory /\ BaseBuilder.meta.vcpus = ResolvedCpus
  /\ BaseBuilder.meta.sshPort = SshPort
  /\ req.itype # None => BaseBuilder.meta.itype = req.itype
<1> DEFINE old == IF req.itype = None THEN << >> ELSE [itype |-> req.itype]
           new == [memory |-> ResolvedMemory, vcpus |-> ResolvedCpus,
                   network |-> req.network, sshPort |-> SshPort]
<1>1. BaseBuilder.meta = With(old, new)
  BY DEF BaseBuilder, With
<1>2. /\ DOMAIN old = IF req.itype = None THEN {} ELSE {"itype"}
      /\ req.itype # None => old.itype = req.itype
      /\ DOMAIN new = {"memory", "vcpus", "network", "sshPort"}
      /\ new.memory = ResolvedMemory /\ new.vcpus = ResolvedCpus /\ new.sshPort = SshPort
  OBVIOUS
<1> HIDE DEF old, new
<1>3. /\ DOMAIN BaseBuilder.meta = DOMAIN old \cup DOMAIN new
      /\ \A f \in DOMAIN new : BaseBuilder.meta[f] = new[f]
      /\ \A f \in DOMAIN old \ DOMAIN new : BaseBuilder.meta[f] = old[f]
  <2> DEFINE b == With(old, new)
  <2>1. /\ DOMAIN b = DOMAIN old \cup DOMAIN new
        /\ \A f \in DOMAIN new : b[f] = new[f]
        /\ \A f \in DOMAIN old \ DOMAIN new : b[f] = old[f]
    BY WithIs, Zenon
  <2> HIDE DEF b
  <2> QED BY <1>1, <2>1 DEF b
<1> QED BY <1>2, <1>3

\* What Build leaves.
LEMMA BuildIs ==
  ASSUME Build, pc' # "failed"
  PROVE  /\ pc' = "volumes" /\ UNCHANGED <<req, host, sb>>
         /\ DOMAIN builder' = DOMAIN NewBuilder
         /\ \A f \in DOMAIN NewBuilder \ {"code", "nvram", "meta"} :
              builder'[f] = BaseBuilder[f]
         /\ sb = None => builder' = BaseBuilder
         /\ sb # None => /\ FindSecureBootFirmware # None
                         /\ builder'.code = [path |-> FindSecureBootFirmware.code,
                                             format |-> FindSecureBootFirmware.codeFormat]
                         /\ builder'.nvram = sb
                         /\ builder'.meta = With(BaseBuilder.meta, [keys |-> TRUE])
<1>1. pc' = "volumes" /\ UNCHANGED <<req, host, sb>>
  BY DEF Build, Fail
<1>2. CASE sb = None
  BY <1>1, <1>2, BaseIs DEF Build, Fail
<1>3. CASE sb # None
  <2> DEFINE d == FindSecureBootFirmware
             new == [code |-> [path |-> d.code, format |-> d.codeFormat], nvram |-> sb]
             b == With(BaseBuilder, new)
  <2>1. d # None /\ builder' = [b EXCEPT !.meta = With(@, [keys |-> TRUE])]
    BY <1>3 DEF Build, Fail, WithMeta
  <2>2. /\ DOMAIN new = {"code", "nvram"} /\ new.nvram = sb
        /\ new.code = [path |-> d.code, format |-> d.codeFormat]
    OBVIOUS
  <2> HIDE DEF new
  <2>5. /\ DOMAIN b = DOMAIN BaseBuilder \cup DOMAIN new
        /\ \A f \in DOMAIN new : b[f] = new[f]
        /\ \A f \in DOMAIN BaseBuilder \ DOMAIN new : b[f] = BaseBuilder[f]
    BY WithIs, Zenon
  <2>3. /\ DOMAIN b = DOMAIN NewBuilder
        /\ \A f \in DOMAIN NewBuilder \ {"code", "nvram"} : b[f] = BaseBuilder[f]
        /\ b.code = new.code /\ b.nvram = new.nvram
    BY <2>2, <2>5, BaseIs, BuilderFields
  <2> HIDE DEF b, d
  <2>4. /\ DOMAIN builder' = DOMAIN b
        /\ \A f \in DOMAIN b \ {"meta"} : builder'[f] = b[f]
        /\ builder'.meta = With(b.meta, [keys |-> TRUE])
    BY <2>1, <2>3, BuilderFields
  <2> QED BY <1>1, <1>3, <2>1, <2>2, <2>3, <2>4, BuilderFields DEF d
<1> QED BY <1>2, <1>3

LEMMA IsBuild ==
  ASSUME [Next]_vars, pc = "builder", pc' = "volumes"
  PROVE  Build
BY DEF Next, vars, CheckOptions, Firmware, Volumes, BindMounts, BindMountsRo, Storage,
       Ignition, Journal, QemuArgs, ConsoleLogs, Xml

LEMMA BuilderTypeStep == BuilderType /\ [Next]_vars => BuilderType'
<1> SUFFICES ASSUME BuilderType, [Next]_vars PROVE BuilderType'
  OBVIOUS
<1>1. CASE UNCHANGED vars
  BY <1>1 DEF BuilderType, vars
<1>2. CASE pc \in AfterBuild
  BY <1>2, BuilderFrame, BuilderFields DEF BuilderType, NewBuilder
<1>3. CASE pc = "builder" /\ pc' = "volumes"
  BY <1>3, IsBuild, BuildIs, BuilderFields DEF BuilderType, NewBuilder
<1>4. CASE pc' \notin AfterBuild
  BY <1>4 DEF BuilderType, AfterBuild, AfterVolumes, AfterBinds, AfterBindsRo,
         AfterStorage, AfterIgnition, AfterJournal, AfterArgs, AfterLogs, AfterXml
<1> QED BY <1>1, <1>2, <1>3, <1>4, Entered, Stages

LEMMA FirmwareStep == Inputs /\ BuilderType /\ FirmwareInv /\ [Next]_vars => FirmwareInv'
<1> SUFFICES ASSUME Inputs, BuilderType, FirmwareInv, [Next]_vars PROVE FirmwareInv'
  OBVIOUS
<1>1. CASE UNCHANGED vars
  <2>1. SetupSecureBoot' = SetupSecureBoot /\ FindSecureBootFirmware' = FindSecureBootFirmware
    BY <1>1, SearchFrame DEF vars
  <2> QED BY <1>1, <2>1 DEF FirmwareInv, vars
<1>2. CASE pc = "firmware" /\ pc' = "builder"
  <2>1. Firmware /\ pc' # "failed"
    BY <1>2 DEF Next, vars, CheckOptions, Build, Volumes, BindMounts, BindMountsRo, Storage,
       Ignition, Journal, QemuArgs, ConsoleLogs, Xml
  <2>2. /\ UNCHANGED <<req, host>>
        /\ sb' = IF req.keys THEN SetupSecureBoot ELSE None
        /\ req.keys => req.firmware = "uefi-secure" /\ SetupSecureBoot # None
    BY <2>1 DEF Firmware, Fail
  <2>3. SetupSecureBoot' = SetupSecureBoot
    BY <2>2, SearchFrame
  <2> QED BY <1>2, <2>2, <2>3, Stages DEF FirmwareInv
<1>3. CASE pc = "builder" /\ pc' = "volumes"
  <2>1. Build
    BY <1>3, IsBuild
  <2>2. UNCHANGED <<req, host, sb>> /\ builder'.firmware = BaseBuilder.firmware
    BY <1>3, <2>1, BuildIs, BuilderFields
  <2>3. SetupSecureBoot' = SetupSecureBoot /\ FindSecureBootFirmware' = FindSecureBootFirmware
    BY <2>2, SearchFrame
  <2>4. /\ sb = IF req.keys THEN SetupSecureBoot ELSE None
        /\ req.keys => req.firmware = "uefi-secure" /\ SetupSecureBoot # None
    BY <1>3, Stages DEF FirmwareInv
  <2>5. req.keys => /\ FindSecureBootFirmware # None
                    /\ builder'.code = [path |-> FindSecureBootFirmware.code,
                                        format |-> FindSecureBootFirmware.codeFormat]
                    /\ builder'.nvram = SetupSecureBoot
    BY <1>3, <2>1, <2>4, BuildIs
  <2>6. ~req.keys => builder'.code = None /\ builder'.nvram = None
    BY <1>3, <2>1, <2>4, BuildIs, BaseIs
  <2> QED BY <1>3, <2>2, <2>3, <2>4, <2>5, <2>6, BaseIs DEF FirmwareInv
<1>4. CASE pc \in AfterBuild
  <2>1. UNCHANGED <<req, host, sb>> /\ Keeps({"firmware", "code", "nvram"})
    BY <1>4, BuilderFrame DEF Keeps
  <2>2. SetupSecureBoot' = SetupSecureBoot /\ FindSecureBootFirmware' = FindSecureBootFirmware
    BY <2>1, SearchFrame
  <2>3. /\ builder'.firmware = builder.firmware /\ builder'.code = builder.code
        /\ builder'.nvram = builder.nvram
    BY <2>1 DEF Keeps
  <2> QED BY <1>4, <2>1, <2>2, <2>3, Stages DEF FirmwareInv
<1>5. CASE pc' \in {"failed", "firmware"}
  BY <1>5, Stages DEF FirmwareInv
<1> QED BY <1>1, <1>2, <1>3, <1>4, <1>5, Entered

LEMMA XmlStep == XmlInv /\ [Next]_vars => XmlInv'
<1> SUFFICES ASSUME XmlInv, [Next]_vars, pc' = "done" PROVE XmlInv'
  BY DEF XmlInv, AfterXml
<1>1. CASE UNCHANGED vars
  BY <1>1 DEF XmlInv, vars
<1>2. CASE ~UNCHANGED vars
  <2>1. Xml
    BY <1>2 DEF Next, vars, CheckOptions, Firmware, Build, Volumes, BindMounts, BindMountsRo,
       Storage, Ignition, Journal, QemuArgs, ConsoleLogs, Fail, made, ProcessBindMounts
  <2> QED BY <2>1 DEF Xml, Fail, XmlInv
<1> QED BY <1>1, <1>2

-----------------------------------------------------------------------------
(* The builder of the XML.                                                 *)

Final == With(builder, [virtioLog |-> logs.virtio, serialLog |-> logs.serial, args |-> args])

LEMMA FinalIs ==
  ASSUME BuilderType, pc \in AfterBuild
  PROVE  /\ \A f \in DOMAIN NewBuilder \ {"virtioLog", "serialLog", "args"} :
              Final[f] = builder[f]
         /\ Final.virtioLog = logs.virtio /\ Final.serialLog = logs.serial
         /\ Final.args = args
<1> DEFINE new == [virtioLog |-> logs.virtio, serialLog |-> logs.serial, args |-> args]
<1>1. /\ DOMAIN new = {"virtioLog", "serialLog", "args"}
      /\ new.virtioLog = logs.virtio /\ new.serialLog = logs.serial /\ new.args = args
  OBVIOUS
<1> HIDE DEF new
<1>2. /\ \A f \in DOMAIN new : Final[f] = new[f]
      /\ \A f \in DOMAIN builder \ DOMAIN new : Final[f] = builder[f]
  <2> DEFINE b == With(builder, new)
  <2>1. /\ \A f \in DOMAIN new : b[f] = new[f]
        /\ \A f \in DOMAIN builder \ DOMAIN new : b[f] = builder[f]
    BY WithIs, Zenon
  <2>2. b = Final
    BY DEF Final, new
  <2> HIDE DEF b
  <2> QED BY <2>1, <2>2
<1> QED BY <1>1, <1>2 DEF BuilderType

\* The firmware is of the kind that was asked for, and the two halves are of
\* one descriptor.
LEMMA FirmwareHolds == Inputs /\ BuilderType /\ FirmwareInv /\ XmlInv => FirmwareAgrees
<1> SUFFICES ASSUME Inputs, BuilderType, FirmwareInv, XmlInv, pc = "done"
             PROVE  FirmwareAgrees
  BY DEF FirmwareAgrees
<1> DEFINE d == FindSecureBootFirmware
<1>1. /\ Final.firmware = req.firmware
      /\ IF req.keys
           THEN /\ d # None
                /\ Final.code = [path |-> d.code, format |-> d.codeFormat]
                /\ Final.nvram = SetupSecureBoot
           ELSE Final.code = None /\ Final.nvram = None
  BY Stages, FinalIs, BuilderFields DEF FirmwareInv
<1>2. /\ req.keys => req.firmware = "uefi-secure" /\ SetupSecureBoot # None
      /\ req.firmware \in {"uefi-secure", "uefi-insecure", "bios"} /\ req.keys \in BOOLEAN
  BY Stages DEF FirmwareInv, Inputs, RequestOk
<1>3. xml.os.loader = Loader(Final)
      /\ xml.os.nvram = IF Uefi(Final) /\ Final.code # None THEN Final.nvram ELSE None
  BY Stages DEF XmlInv, BuildXml, OsElement, Final
<1>4. CASE req.keys
  <2>1. /\ d = FindFirmware(TRUE) /\ d \in Range(host.descriptors) /\ d.parses
        /\ ~d.enrolled /\ host.arch \in d.archs /\ d.secure
    BY <1>1, <1>4, SecureBootFound DEF Inputs, Suitable
  <2>2. SetupSecureBoot = [of |-> d.vars, format |-> d.varsFormat]
    BY <1>2, <1>4, <2>1 DEF SetupSecureBoot
  <2>3. /\ Final.code # None
        /\ [path |-> d.code, format |-> d.codeFormat, secure |-> "yes"] # None
    BY <1>1, <1>4, <2>1 DEF Inputs, HostOk
  <2>4. xml.os.loader = [path |-> d.code, format |-> d.codeFormat, secure |-> "yes"]
    BY <1>1, <1>2, <1>3, <1>4, <2>3 DEF Loader, Uefi, SecureBoot
  <2>5. xml.os.nvram = SetupSecureBoot
    BY <1>1, <1>2, <1>3, <1>4, <2>3 DEF Uefi
  <2>6. /\ xml.os.loader # None /\ xml.os.loader.secure = "yes"
        /\ xml.os.loader.path = d.code /\ xml.os.loader.format = d.codeFormat
    BY <2>3, <2>4
  <2>7. xml.os.nvram # None /\ xml.os.nvram = [of |-> d.vars, format |-> d.varsFormat]
    BY <1>2, <1>4, <2>2, <2>5
  <2> HIDE DEF d
  <2> QED BY <1>2, <1>4, <2>1, <2>6, <2>7, Zenon DEF FirmwareAgrees
<1>5. CASE ~req.keys
  <2>1. xml.os.nvram = None
    BY <1>1, <1>3, <1>5
  <2>2. xml.os.loader = IF req.firmware = "bios" THEN None
                        ELSE [path |-> None, format |-> None,
                              secure |-> IF req.firmware = "uefi-secure" THEN "yes" ELSE "no"]
    BY <1>1, <1>2, <1>3, <1>5 DEF Loader, Uefi, SecureBoot
  <2>3. \A s \in {"yes", "no"} : None # [path |-> None, format |-> None, secure |-> s]
    BY InputAssumption
  <2> QED BY <1>2, <1>5, <2>1, <2>2, <2>3 DEF FirmwareAgrees
<1> QED BY <1>2, <1>4, <1>5

-----------------------------------------------------------------------------
(* What each part leaves, one part at a time.                              *)

\* A part that succeeds is the part whose turn it is.
LEMMA Acts ==
  ASSUME [Next]_vars, pc' # "failed", ~UNCHANGED vars
  PROVE  /\ pc = "options" => CheckOptions
         /\ pc = "firmware" => Firmware
         /\ pc = "builder" => Build
         /\ pc = "volumes" => Volumes
         /\ pc = "binds" => BindMounts
         /\ pc = "binds-ro" => BindMountsRo
         /\ pc = "storage" => Storage
         /\ pc = "ignition" => Ignition
         /\ pc = "journal" => Journal
         /\ pc = "args" => QemuArgs
         /\ pc = "logs" => ConsoleLogs
         /\ pc = "xml" => Xml
BY DEF Next, CheckOptions, Firmware, Build, Volumes, BindMounts, BindMountsRo, Storage,
       Ignition, Journal, QemuArgs, ConsoleLogs, Xml

\* What is written depends on the options and the host only.
LEMMA WrittenFrame ==
  ASSUME UNCHANGED <<req, host>>
  PROVE  /\ FsVolumes' = FsVolumes /\ FsBinds' = FsBinds /\ FsBindsRo' = FsBindsRo
         /\ FsStorage' = FsStorage
         /\ CredsBinds' = CredsBinds /\ CredsBindsRo' = CredsBindsRo
         /\ CredsStorage' = CredsStorage /\ CredsJournal' = CredsJournal
         /\ UnitsBinds' = UnitsBinds /\ UnitsBindsRo' = UnitsBindsRo
         /\ UnitsStorage' = UnitsStorage
         /\ AllLines' = AllLines /\ Arguments1' = Arguments1
<1>1. FsVolumes' = FsVolumes /\ FsBinds' = FsBinds /\ FsBindsRo' = FsBindsRo
      /\ FsStorage' = FsStorage
  BY DEF FsVolumes, FsBinds, FsBindsRo, FsStorage, RawFs, BindFs, StorageFs
<1>2. /\ CredsBinds' = CredsBinds /\ CredsBindsRo' = CredsBindsRo
      /\ CredsStorage' = CredsStorage
  BY DEF CredsBinds, CredsBindsRo, CredsStorage, BindCreds
<1>3. UnitsBinds' = UnitsBinds /\ UnitsBindsRo' = UnitsBindsRo /\ UnitsStorage' = UnitsStorage
  BY DEF UnitsBinds, UnitsBindsRo, UnitsStorage, BindUnits
<1>4. CredsJournal' = CredsJournal /\ AllLines' = AllLines
  BY <1>2, <1>3 DEF CredsJournal, JournalAsked, AllLines
<1>5. Forwards' = Forwards
  BY DEF Forwards
<1>6. Arguments1' = Arguments1
  BY <1>4, <1>5 DEF Arguments1
<1> QED BY <1>1, <1>2, <1>3, <1>4, <1>6

\* The parts that write filesystems.
LEMMA FsWritten ==
  ASSUME BuilderType, [Next]_vars, pc \in {"volumes", "binds", "binds-ro", "storage"},
         pc' # "failed", ~UNCHANGED vars
  PROVE  LET fs == builder.filesystems IN
         /\ pc = "volumes" => pc' = "binds" /\ builder'.filesystems = fs \o RawFs
         /\ pc = "binds" => pc' = "binds-ro" /\
              builder'.filesystems = fs \o BindFs(req.rw, "bcvk-bind-", FALSE)
         /\ pc = "binds-ro" => pc' = "storage" /\
              builder'.filesystems = fs \o BindFs(req.ro, "bcvk-bind-ro-", TRUE)
         /\ pc = "storage" => pc' = "ignition" /\
              builder'.filesystems = IF req.storage THEN Append(fs, StorageFs) ELSE fs
<1>1. DOMAIN builder = DOMAIN NewBuilder
  BY Stages DEF BuilderType
<1>2. CASE pc = "volumes"
  BY <1>1, <1>2, Acts, BuilderFields DEF Volumes, Fail, RawFs
<1>3. CASE pc = "binds"
  BY <1>1, <1>3, Acts, BuilderFields DEF BindMounts, ProcessBindMounts, Fail, BindFs
<1>4. CASE pc = "binds-ro"
  BY <1>1, <1>4, Acts, BuilderFields DEF BindMountsRo, ProcessBindMounts, Fail, BindFs
<1>5. CASE pc = "storage" /\ req.storage
  <2>1. Storage /\ pc' = "ignition"
    BY <1>5, Acts DEF Storage, Fail
  <2>2. builder' = WithMeta(WithFs(builder, StorageFs), [storage |-> host.storage])
    BY <2>1, <1>5, Acts DEF Storage, Fail, StorageFs
  <2> QED BY <1>1, <1>5, <2>1, <2>2, BuilderFields DEF WithMeta, WithFs
<1>6. CASE pc = "storage" /\ ~req.storage
  BY <1>6, Acts DEF Storage, Fail, made
<1> QED BY <1>2, <1>3, <1>4, <1>5, <1>6

LEMMA FsStep == BuilderType /\ FsInv /\ [Next]_vars => FsInv'
<1> SUFFICES ASSUME BuilderType, FsInv, [Next]_vars PROVE FsInv'
  OBVIOUS
<1>1. CASE UNCHANGED <<vars>>
  BY <1>1, WrittenFrame DEF FsInv, vars
<1>2. CASE pc \in AfterBuild /\ pc' # "failed" /\ ~UNCHANGED vars
  <2>1. UNCHANGED <<req, host>> /\ (pc \in AfterStorage => Keeps({"filesystems"}))
    BY <1>2, BuilderFrame
  <2>2. CASE pc \in AfterStorage
    <3>1. builder'.filesystems = builder.filesystems /\ pc' \in AfterStorage
      BY <2>1, <2>2, <1>2, InOrder, Stages DEF Keeps, Order
    <3> QED BY <2>1, <2>2, <3>1, WrittenFrame, Stages DEF FsInv
  <2>3. CASE pc \in {"volumes", "binds", "binds-ro", "storage"}
    BY <1>2, <2>1, <2>3, FsWritten, WrittenFrame, Stages
       DEF FsInv, FsVolumes, FsBinds, FsBindsRo, FsStorage
  <2> QED BY <1>2, <2>2, <2>3, Stages
<1>3. CASE pc = "builder" /\ pc' = "volumes"
  BY <1>3, IsBuild, BuildIs, BaseIs, BuilderFields, Stages DEF FsInv
<1>4. CASE pc' \in {"failed", "firmware", "builder"}
  BY <1>4, Stages DEF FsInv
<1> QED BY <1>1, <1>2, <1>3, <1>4, Entered

-----------------------------------------------------------------------------
(* Credentials, arguments, logs and the journal.                           *)

\* The options change in the first part only.
LEMMA OptionsFrame ==
  ASSUME [Next]_vars, pc # "options"
  PROVE  UNCHANGED <<req, host>>
BY DEF Next, vars, CheckOptions, Firmware, Build, Volumes, BindMounts, BindMountsRo, Storage,
       Ignition, Journal, QemuArgs, ConsoleLogs, Xml, Fail, ProcessBindMounts

\* What each part does to the credentials.
LEMMA CredsWritten ==
  ASSUME [Next]_vars, pc' # "failed", ~UNCHANGED vars
  PROVE  /\ pc \notin {"binds", "binds-ro", "storage", "journal"} => UNCHANGED <<creds, units>>
         /\ pc = "binds" =>
              /\ creds' = creds \o BindCreds(req.rw, "bcvk-bind-", FALSE)
              /\ units' = units \cup BindUnits(req.rw)
              /\ \A i \in DOMAIN req.rw : ValidBind(req.rw[i])
         /\ pc = "binds-ro" =>
              /\ creds' = creds \o BindCreds(req.ro, "bcvk-bind-ro-", TRUE)
              /\ units' = units \cup BindUnits(req.ro)
              /\ \A i \in DOMAIN req.ro : ValidBind(req.ro[i])
         /\ pc = "storage" =>
              /\ creds' = IF req.storage
                          THEN Append(creds, MountUnit(StorageTag, StoragePath, TRUE))
                                 \o StorageOpts
                          ELSE creds
              /\ units' = units \cup (IF req.storage THEN {UnitName(StoragePath)} ELSE {})
         /\ pc = "journal" =>
              /\ creds' = creds \o MountDropIn \o (IF JournalAsked THEN JournalStream ELSE <<>>)
              /\ units' = units
<1>1. CASE pc \notin {"binds", "binds-ro", "storage", "journal"}
  BY <1>1 DEF Next, CheckOptions, Firmware, Build, Volumes, BindMounts, BindMountsRo, Storage,
       Ignition, Journal, QemuArgs, ConsoleLogs, Xml, Fail, made
<1>2. CASE pc = "binds"
  BY <1>2, Acts DEF BindMounts, ProcessBindMounts, BindCreds, BindUnits, Fail
<1>3. CASE pc = "binds-ro"
  BY <1>3, Acts DEF BindMountsRo, ProcessBindMounts, BindCreds, BindUnits, Fail
<1>4. CASE pc = "storage"
  BY <1>4, Acts DEF Storage, Fail, made
<1>5. CASE pc = "journal"
  BY <1>5, Acts DEF Journal, Fail
<1> QED BY <1>1, <1>2, <1>3, <1>4, <1>5

LEMMA CredStep == CredInv /\ [Next]_vars => CredInv'
<1> SUFFICES ASSUME CredInv, [Next]_vars, pc' # "failed" PROVE CredInv'
  BY Stages DEF CredInv
<1>1. CASE UNCHANGED vars
  BY <1>1, WrittenFrame DEF CredInv, vars, ValidBind, Exists
<1>2. CASE ~UNCHANGED vars /\ pc # "options"
  <2>1. UNCHANGED <<req, host>> /\ <<pc, pc'>> \in Order
    BY <1>2, OptionsFrame, InOrder
  <2>2. \A m : ValidBind(m)' <=> ValidBind(m)
    BY <2>1 DEF ValidBind, Exists
  <2>3. /\ pc' \in AfterBinds => \A i \in DOMAIN req.rw : ValidBind(req.rw[i])
        /\ pc' \in AfterBindsRo => \A i \in DOMAIN req.ro : ValidBind(req.ro[i])
    BY <1>2, <2>1, CredsWritten, Stages DEF CredInv, Order
  <2>4. /\ pc' \in AfterBinds => \A i \in DOMAIN req'.rw : ValidBind(req.rw[i])'
        /\ pc' \in AfterBindsRo => \A i \in DOMAIN req'.ro : ValidBind(req.ro[i])'
    BY <2>1, <2>2, <2>3
  <2>5. CASE pc \notin {"binds", "binds-ro", "storage", "journal"}
    BY <1>2, <2>1, <2>4, <2>5, CredsWritten, WrittenFrame, Stages DEF CredInv, Order
  <2>6. CASE pc \in {"binds", "binds-ro"}
    BY <1>2, <2>1, <2>4, <2>6, CredsWritten, WrittenFrame, Stages
       DEF CredInv, Order, CredsBinds, CredsBindsRo, UnitsBinds, UnitsBindsRo
  <2>7. CASE pc = "storage"
    BY <1>2, <2>1, <2>4, <2>7, CredsWritten, WrittenFrame, Stages
       DEF CredInv, Order, CredsStorage, UnitsStorage
  <2>8. CASE pc = "journal"
    <3>1. creds' = CredsJournal /\ units' = UnitsStorage
      BY <1>2, <2>8, CredsWritten, Stages DEF CredInv, CredsJournal, MountDropIn
    <3> QED BY <1>2, <2>1, <2>4, <2>8, <3>1, WrittenFrame, Stages DEF CredInv, Order
  <2> QED BY <2>5, <2>6, <2>7, <2>8
<1>3. CASE pc = "options" /\ ~UNCHANGED vars
  <2>1. UNCHANGED <<creds, units>> /\ pc' = "firmware"
    BY <1>3, CredsWritten, InOrder DEF Order
  <2> QED BY <1>3, <2>1, Stages DEF CredInv
<1> QED BY <1>1, <1>2, <1>3

LEMMA ArgsStep == CredInv /\ ArgsInv /\ [Next]_vars => ArgsInv'
<1> SUFFICES ASSUME CredInv, ArgsInv, [Next]_vars, pc' # "failed" PROVE ArgsInv'
  BY Stages DEF ArgsInv, AfterOptions
<1> USE DEF AfterOptions
<1>1. CASE UNCHANGED vars
  BY <1>1, WrittenFrame DEF ArgsInv, vars
<1>2. CASE ~UNCHANGED vars /\ pc = "options"
  <2>1. tmpfiles' = RootKey("key") /\ pc' = "firmware"
    BY <1>2, Acts DEF CheckOptions, Fail
  <2> QED BY <2>1, Stages DEF ArgsInv, RootKey
<1>3. CASE ~UNCHANGED vars /\ pc # "options"
  <2>1. UNCHANGED <<req, host>> /\ <<pc, pc'>> \in Order
    BY <1>3, OptionsFrame, InOrder
  <2>2. AllLines' = AllLines /\ Arguments1' = Arguments1
    BY <2>1, WrittenFrame
  <2>3. CASE pc = "storage"
    <3>1. tmpfiles' = AllLines /\ pc' = "ignition"
      BY <1>3, <2>3, Acts, Stages DEF Storage, Fail, made, ArgsInv, AllLines, RootKey
    <3> QED BY <2>2, <3>1, Stages DEF ArgsInv
  <2>4. CASE pc = "args"
    <3>1. tmpfiles' = tmpfiles /\ pc' = "logs" /\ tmpfiles = AllLines /\ creds = CredsJournal
      BY <1>3, <2>4, Acts, Stages DEF QemuArgs, ArgsInv, CredInv
    <3>2. args' = Arguments1
      BY <1>3, <2>4, <3>1, Acts DEF QemuArgs, Arguments1
    <3> QED BY <2>2, <3>1, <3>2, Stages DEF ArgsInv
  <2>5. CASE pc \notin {"storage", "args"}
    <3>1. UNCHANGED <<tmpfiles, args>>
      BY <1>3, <2>5 DEF Next, CheckOptions, Firmware, Build, Volumes, BindMounts, BindMountsRo,
         Storage, Ignition, Journal, QemuArgs, ConsoleLogs, Xml, Fail, made, ProcessBindMounts
    <3> QED BY <1>3, <2>1, <2>2, <2>5, <3>1, Stages DEF ArgsInv, Order
  <2> QED BY <2>3, <2>4, <2>5
<1> QED BY <1>1, <1>2, <1>3

LEMMA LogStep == LogInv /\ [Next]_vars => LogInv'
<1> SUFFICES ASSUME LogInv, [Next]_vars, pc' \in AfterLogs PROVE LogInv'
  BY DEF LogInv, AfterLogs, AfterXml
<1>1. pc # "options" /\ pc' # "failed"
  BY Stages, InOrder DEF Order, vars
<1>2. UNCHANGED <<req, host>>
  BY <1>1, OptionsFrame
<1>3. VirtioLog' = VirtioLog /\ ResolvedLogs' = ResolvedLogs /\ req'.platformLog = req.platformLog
  BY <1>2 DEF VirtioLog, ResolvedLogs, Resolve, InLogDir
<1>4. Resolvable(VirtioLog)' = Resolvable(VirtioLog)
      /\ Resolvable(req.platformLog)' = Resolvable(req.platformLog)
  BY <1>2, <1>3 DEF Resolvable, Exists
<1>5. CASE pc = "logs" /\ ~UNCHANGED vars
  BY <1>1, <1>3, <1>4, <1>5, Acts DEF ConsoleLogs, Fail, LogInv, ResolvedLogs
<1>6. CASE pc # "logs" \/ UNCHANGED vars
  <2>1. pc \in AfterLogs
    BY <1>1, <1>6, InOrder, Stages DEF Order, vars
  <2>2. UNCHANGED logs
    BY <2>1, <1>6, Stages DEF Next, vars, CheckOptions, Firmware, Build, Volumes, BindMounts,
       BindMountsRo, Storage, Ignition, Journal, QemuArgs, ConsoleLogs, Xml, Fail, made
  <2> QED BY <1>3, <1>4, <2>1, <2>2 DEF LogInv
<1> QED BY <1>5, <1>6

LEMMA JournalStep == BuilderType /\ JournalInv /\ [Next]_vars => JournalInv'
<1> SUFFICES ASSUME BuilderType, JournalInv, [Next]_vars, pc' \in AfterBuild PROVE JournalInv'
  BY DEF JournalInv, AfterBuild, AfterVolumes, AfterBinds, AfterBindsRo, AfterStorage,
         AfterIgnition, AfterJournal, AfterArgs, AfterLogs, AfterXml
<1>1. CASE UNCHANGED vars
  BY <1>1, Stages DEF JournalInv, JournalAsked, InLogDir, vars
<1>2. CASE pc = "builder" /\ pc' = "volumes"
  BY <1>2, IsBuild, BuildIs, BaseIs, BuilderFields, Stages DEF JournalInv
<1>3. CASE pc \in AfterBuild /\ ~UNCHANGED vars
  <2>1. UNCHANGED <<req, host>> /\ DOMAIN builder = DOMAIN NewBuilder /\ pc' # "failed"
    BY <1>3, BuilderFrame, Stages DEF BuilderType
  <2>2. JournalAsked' = JournalAsked /\ \A name : InLogDir(name)' = InLogDir(name)
    BY <2>1 DEF JournalAsked, InLogDir
  <2>3. CASE pc # "journal"
    <3>1. builder'.journal = builder.journal /\ builder'.journalInitrd = builder.journalInitrd
      BY <1>3, <2>3, BuilderFrame DEF Keeps
    <3>2. pc' \in AfterJournal <=> pc \in AfterJournal
      BY <1>3, <2>1, <2>3, InOrder, Stages DEF Order
    <3> QED BY <1>3, <2>2, <3>1, <3>2 DEF JournalInv
  <2>4. CASE pc = "journal"
    <3> DEFINE new == [journal |-> InLogDir("journal.json"),
                       journalInitrd |-> InLogDir("journal-initrd.json")]
    <3>1. pc' = "args" /\ builder' = IF JournalAsked THEN With(builder, new) ELSE builder
      BY <1>3, <2>1, <2>4, Acts DEF Journal, Fail
    <3>2. /\ DOMAIN new = {"journal", "journalInitrd"}
          /\ new.journal = InLogDir("journal.json")
          /\ new.journalInitrd = InLogDir("journal-initrd.json")
      OBVIOUS
    <3> HIDE DEF new
    <3>3. /\ With(builder, new).journal = InLogDir("journal.json")
          /\ With(builder, new).journalInitrd = InLogDir("journal-initrd.json")
      <4>1. \A f \in DOMAIN new : With(builder, new)[f] = new[f]
        BY WithIs
      <4> QED BY <3>2, <4>1
    <3> QED BY <1>3, <2>2, <2>4, <3>1, <3>3, Stages DEF JournalInv
  <2> QED BY <2>3, <2>4
<1> QED BY <1>1, <1>2, <1>3, Entered, Stages

-----------------------------------------------------------------------------
(* The metadata.                                                           *)

\* What the parts that write metadata leave.
LEMMA StorageMeta ==
  ASSUME BuilderType, Storage, pc' # "failed"
  PROVE  /\ pc' = "ignition"
         /\ Keeps({"memory", "vcpus", "fwCfg", "ignitionDisk"})
         /\ builder'.meta = IF req.storage THEN With(builder.meta, [storage |-> host.storage])
                            ELSE builder.meta
<1>1. DOMAIN builder = DOMAIN NewBuilder
  BY Stages DEF BuilderType, Storage
<1>2. CASE req.storage
  <2>1. pc' = "ignition" /\
        builder' = WithMeta(WithFs(builder, StorageFs), [storage |-> host.storage])
    BY <1>2 DEF Storage, Fail, StorageFs
  <2> QED BY <1>1, <1>2, <2>1, BuilderFields DEF WithMeta, WithFs, Keeps
<1>3. CASE ~req.storage
  BY <1>3 DEF Storage, Fail, made, Keeps
<1> QED BY <1>2, <1>3

LEMMA IgnitionMeta ==
  ASSUME BuilderType, Ignition, pc' # "failed"
  PROVE  /\ pc' = "journal"
         /\ Keeps({"memory", "vcpus"})
         /\ req.ignition = None => UNCHANGED builder
         /\ req.ignition # None =>
              /\ builder'.meta = With(builder.meta, [ignition |-> PoolIgnition])
              /\ \/ /\ builder'.fwCfg = Append(builder.fwCfg, PoolIgnition)
                    /\ builder'.ignitionDisk = builder.ignitionDisk
                 \/ /\ builder'.ignitionDisk = PoolIgnition
                    /\ builder'.fwCfg = builder.fwCfg
<1>1. DOMAIN builder = DOMAIN NewBuilder
  BY Stages DEF BuilderType, Ignition
<1> DEFINE recorded == WithMeta(builder, [ignition |-> PoolIgnition])
<1>2. /\ DOMAIN recorded = DOMAIN NewBuilder
      /\ recorded.meta = With(builder.meta, [ignition |-> PoolIgnition])
      /\ \A f \in DOMAIN NewBuilder \ {"meta"} : recorded[f] = builder[f]
  BY <1>1, BuilderFields DEF WithMeta
<1>3. /\ pc' = "journal"
      /\ \/ req.ignition = None /\ UNCHANGED builder
         \/ req.ignition # None /\ builder' = [recorded EXCEPT !.fwCfg = Append(@, PoolIgnition)]
         \/ req.ignition # None /\ builder' = [recorded EXCEPT !.ignitionDisk = PoolIgnition]
  BY DEF Ignition, Fail, made
<1> HIDE DEF recorded
<1> QED BY <1>2, <1>3, BuilderFields DEF Keeps

LEMMA MetaStep == BuilderType /\ MetaInv /\ [Next]_vars => MetaInv'
<1> SUFFICES ASSUME BuilderType, MetaInv, [Next]_vars, pc' \in AfterBuild PROVE MetaInv'
  BY DEF MetaInv, AfterBuild, AfterVolumes, AfterBinds, AfterBindsRo, AfterStorage,
         AfterIgnition, AfterJournal, AfterArgs, AfterLogs, AfterXml
<1>1. CASE UNCHANGED vars
  BY <1>1, Stages DEF MetaInv, ResolvedMemory, ResolvedCpus, vars
<1>2. CASE pc = "builder" /\ pc' = "volumes"
  <2>1. Build /\ UNCHANGED <<req, host>>
    BY <1>2, IsBuild, BuildIs
  <2>2. /\ builder'.memory = ResolvedMemory /\ builder'.vcpus = ResolvedCpus
        /\ builder'.fwCfg = <<>> /\ builder'.ignitionDisk = None
    BY <1>2, <2>1, BuildIs, BaseIs, BuilderFields
  <2>3. builder'.meta = BaseBuilder.meta \/ builder'.meta = With(BaseBuilder.meta, [keys |-> TRUE])
    BY <1>2, <2>1, BuildIs
  <2>4. /\ DOMAIN builder'.meta \in {DOMAIN BaseBuilder.meta, DOMAIN BaseBuilder.meta \cup {"keys"}}
        /\ \A f \in DOMAIN BaseBuilder.meta \ {"keys"} : builder'.meta[f] = BaseBuilder.meta[f]
    <3> DEFINE new == [keys |-> TRUE]
               m == With(BaseBuilder.meta, new)
    <3>1. DOMAIN new = {"keys"}
      OBVIOUS
    <3> HIDE DEF new
    <3>2. /\ DOMAIN m = DOMAIN BaseBuilder.meta \cup DOMAIN new
          /\ \A f \in DOMAIN BaseBuilder.meta \ DOMAIN new : m[f] = BaseBuilder.meta[f]
      BY WithIs, Zenon
    <3>3. builder'.meta = BaseBuilder.meta \/ builder'.meta = m
      BY <2>3 DEF new
    <3> HIDE DEF m
    <3> QED BY <3>1, <3>2, <3>3
  <2>5. ResolvedMemory' = ResolvedMemory /\ ResolvedCpus' = ResolvedCpus
    BY <2>1 DEF ResolvedMemory, ResolvedCpus
  <2> QED BY <1>2, <2>1, <2>2, <2>4, <2>5, BaseMetaIs, Stages DEF MetaInv
<1>3. CASE pc \in AfterBuild /\ ~UNCHANGED vars
  <2>1. /\ UNCHANGED <<req, host>> /\ pc' # "failed"
        /\ builder'.memory = builder.memory /\ builder'.vcpus = builder.vcpus
    BY <1>3, BuilderFrame, Stages DEF Keeps
  <2>2. ResolvedMemory' = ResolvedMemory /\ ResolvedCpus' = ResolvedCpus
    BY <2>1 DEF ResolvedMemory, ResolvedCpus
  <2>3. CASE pc \notin {"storage", "ignition"}
    <3>1. /\ builder'.meta = builder.meta /\ builder'.fwCfg = builder.fwCfg
          /\ builder'.ignitionDisk = builder.ignitionDisk
      BY <1>3, <2>3, BuilderFrame DEF Keeps
    <3>2. /\ pc' \in AfterStorage <=> pc \in AfterStorage
          /\ pc' \in AfterIgnition <=> pc \in AfterIgnition
      BY <1>3, <2>1, <2>3, InOrder, Stages DEF Order
    <3> QED BY <1>3, <2>1, <2>2, <3>1, <3>2 DEF MetaInv
  <2>4. CASE pc = "storage"
    <3> DEFINE new == [storage |-> host.storage]
               m == With(builder.meta, new)
    <3>1. Storage /\ pc' = "ignition"
      BY <1>3, <2>1, <2>4, Acts, StorageMeta
    <3>2. /\ builder'.meta = IF req.storage THEN m ELSE builder.meta
          /\ builder'.fwCfg = builder.fwCfg /\ builder'.ignitionDisk = builder.ignitionDisk
      BY <2>1, <3>1, StorageMeta DEF Keeps
    <3>3. DOMAIN new = {"storage"} /\ new.storage = host.storage
      OBVIOUS
    <3> HIDE DEF new
    <3>4. /\ DOMAIN m = DOMAIN builder.meta \cup DOMAIN new
          /\ \A f \in DOMAIN new : m[f] = new[f]
          /\ \A f \in DOMAIN builder.meta \ DOMAIN new : m[f] = builder.meta[f]
      BY WithIs, Zenon
    <3> HIDE DEF m
    <3> QED BY <2>1, <2>2, <2>4, <3>1, <3>2, <3>3, <3>4, Stages DEF MetaInv
  <2>5. CASE pc = "ignition"
    <3> DEFINE new == [ignition |-> PoolIgnition]
               m == With(builder.meta, new)
    <3>1. Ignition /\ pc' = "journal"
      BY <1>3, <2>1, <2>5, Acts, IgnitionMeta
    <3>2. /\ req.ignition = None => builder' = builder
          /\ req.ignition # None =>
               /\ builder'.meta = m
               /\ \/ /\ builder'.fwCfg = Append(builder.fwCfg, PoolIgnition)
                     /\ builder'.ignitionDisk = builder.ignitionDisk
                  \/ /\ builder'.ignitionDisk = PoolIgnition
                     /\ builder'.fwCfg = builder.fwCfg
      BY <2>1, <3>1, IgnitionMeta
    <3>3. DOMAIN new = {"ignition"} /\ new.ignition = PoolIgnition
      OBVIOUS
    <3> HIDE DEF new
    <3>4. /\ DOMAIN m = DOMAIN builder.meta \cup DOMAIN new
          /\ \A f \in DOMAIN new : m[f] = new[f]
          /\ \A f \in DOMAIN builder.meta \ DOMAIN new : m[f] = builder.meta[f]
      BY WithIs, Zenon
    <3> HIDE DEF m
    <3>5. Append(<<>>, PoolIgnition) = <<PoolIgnition>>
      OBVIOUS
    <3> QED BY <2>1, <2>2, <2>5, <3>1, <3>2, <3>3, <3>4, <3>5, Stages DEF MetaInv
  <2> QED BY <2>3, <2>4, <2>5
<1> QED BY <1>1, <1>2, <1>3, Entered, Stages

-----------------------------------------------------------------------------
(* Columns.                                                                *)

\* No value of a column occurs twice if none does in either part, nor in both.
LEMMA ConcatInjective ==
  ASSUME NEW s, NEW t, IsSeq(s), IsSeq(t), NEW f,
         Injective(Column(s, f)), Injective(Column(t, f)),
         \A x \in Range(s), y \in Range(t) : x[f] # y[f]
  PROVE  Injective(Column(s \o t, f))
<1> DEFINE c == s \o t
<1> SUFFICES ASSUME NEW i \in DOMAIN c, NEW j \in DOMAIN c, c[i][f] = c[j][f]
             PROVE  i = j
  BY DEF Injective, Column
<1>1. \A k \in DOMAIN c : \/ k \in DOMAIN s /\ c[k] = s[k]
                          \/ /\ k \notin DOMAIN s /\ k - Len(s) \in DOMAIN t
                             /\ k \in Int /\ Len(s) \in Int /\ c[k] = t[k - Len(s)]
  BY ConcatFrom
<1> HIDE DEF c
<1>2. CASE i \in DOMAIN s /\ j \in DOMAIN s
  BY <1>1, <1>2 DEF Injective, Column
<1>3. CASE i \notin DOMAIN s /\ j \notin DOMAIN s
  <2>1. t[i - Len(s)][f] = t[j - Len(s)][f]
    BY <1>1, <1>3
  <2>2. i - Len(s) = j - Len(s)
    BY <1>1, <1>3, <2>1 DEF Injective, Column
  <2> QED BY <1>1, <1>3, <2>2
<1>4. CASE i \in DOMAIN s /\ j \notin DOMAIN s
  BY <1>1, <1>4 DEF Range
<1>5. CASE i \notin DOMAIN s /\ j \in DOMAIN s
  BY <1>1, <1>5 DEF Range
<1> QED BY <1>2, <1>3, <1>4, <1>5

-----------------------------------------------------------------------------
(* The filesystems, credentials and arguments that have been written.      *)

LEMMA BindsAre ==
  ASSUME NEW mounts, IsSeq(mounts), NEW prefix, NEW ro
  PROVE  /\ IsSeq(BindFs(mounts, prefix, ro)) /\ IsSeq(BindCreds(mounts, prefix, ro))
         /\ DOMAIN BindFs(mounts, prefix, ro) = DOMAIN mounts
         /\ DOMAIN BindCreds(mounts, prefix, ro) = DOMAIN mounts
         /\ \A i \in DOMAIN mounts :
              /\ BindFs(mounts, prefix, ro)[i]
                   = [dir |-> mounts[i].dir, tag |-> BindTag(prefix, i), ro |-> ro]
              /\ BindCreds(mounts, prefix, ro)[i]
                   = MountUnit(BindTag(prefix, i), mounts[i].path, ro)
<1>1. /\ DOMAIN BindFs(mounts, prefix, ro) = DOMAIN mounts
      /\ BindFs(mounts, prefix, ro)
           = [i \in DOMAIN BindFs(mounts, prefix, ro) |-> BindFs(mounts, prefix, ro)[i]]
  BY DEF BindFs
<1>2. /\ DOMAIN BindCreds(mounts, prefix, ro) = DOMAIN mounts
      /\ BindCreds(mounts, prefix, ro)
           = [i \in DOMAIN BindCreds(mounts, prefix, ro) |-> BindCreds(mounts, prefix, ro)[i]]
  BY DEF BindCreds
<1>3. IsSeq(BindFs(mounts, prefix, ro)) /\ IsSeq(BindCreds(mounts, prefix, ro))
  BY <1>1, <1>2, MappedIs
<1> QED BY <1>1, <1>2, <1>3 DEF BindFs, BindCreds

LEMMA RawIs == Inputs => IsSeq(RawFs) /\ IsSeq(req.rw) /\ IsSeq(req.ro) /\ IsSeq(req.raw)
<1> SUFFICES ASSUME Inputs PROVE IsSeq(RawFs) /\ IsSeq(req.rw) /\ IsSeq(req.ro) /\ IsSeq(req.raw)
  OBVIOUS
<1>1. IsSeq(req.raw) /\ IsSeq(req.rw) /\ IsSeq(req.ro)
  BY DEF Inputs, RequestOk
<1>2. DOMAIN RawFs = DOMAIN req.raw /\ RawFs = [i \in DOMAIN RawFs |-> RawFs[i]]
  BY DEF RawFs
<1> QED BY <1>1, <1>2, MappedIs

LEMMA FsAre ==
  ASSUME Inputs
  PROVE  /\ IsSeq(FsVolumes) /\ IsSeq(FsBinds) /\ IsSeq(FsBindsRo) /\ IsSeq(FsStorage)
         /\ FsVolumes = RawFs
         /\ Range(FsBinds) = Range(RawFs) \cup Range(BindFs(req.rw, "bcvk-bind-", FALSE))
         /\ Range(FsBindsRo) = Range(FsBinds) \cup Range(BindFs(req.ro, "bcvk-bind-ro-", TRUE))
         /\ req.storage => FsStorage = FsBindsRo \o <<StorageFs>>
         /\ Range(FsStorage) = Range(FsBindsRo) \cup (IF req.storage THEN {StorageFs} ELSE {})
<1>1. IsSeq(RawFs) /\ IsSeq(BindFs(req.rw, "bcvk-bind-", FALSE))
      /\ IsSeq(BindFs(req.ro, "bcvk-bind-ro-", TRUE))
  BY RawIs, BindsAre
<1>2. FsVolumes = RawFs
  BY <1>1, SeqIs DEF FsVolumes
<1>3. /\ IsSeq(FsBinds)
      /\ Range(FsBinds) = Range(RawFs) \cup Range(BindFs(req.rw, "bcvk-bind-", FALSE))
  BY <1>1, <1>2, ConcatIs DEF FsBinds
<1>4. /\ IsSeq(FsBindsRo)
      /\ Range(FsBindsRo) = Range(FsBinds) \cup Range(BindFs(req.ro, "bcvk-bind-ro-", TRUE))
  BY <1>1, <1>3, ConcatIs DEF FsBindsRo
<1>5. CASE req.storage
  <2>1. FsStorage = FsBindsRo \o <<StorageFs>>
    BY <1>4, <1>5, AppendIs DEF FsStorage
  <2>2. IsSeq(<<StorageFs>>) /\ Range(<<StorageFs>>) = {StorageFs}
    BY OneIs
  <2>3. IsSeq(FsStorage) /\ Range(FsStorage) = Range(FsBindsRo) \cup {StorageFs}
    BY <1>4, <2>1, <2>2, ConcatIs
  <2> QED BY <1>1, <1>2, <1>3, <1>4, <1>5, <2>1, <2>3
<1>6. CASE ~req.storage
  BY <1>1, <1>2, <1>3, <1>4, <1>6 DEF FsStorage
<1> QED BY <1>5, <1>6

MountsDropIn == DropIn("remote-fs.target", "bcvk-mounts", UnitsStorage)
StorageCred == MountUnit(StorageTag, StoragePath, TRUE)

LEMMA CredsAre ==
  ASSUME Inputs
  PROVE  /\ IsSeq(CredsBinds) /\ IsSeq(CredsBindsRo) /\ IsSeq(CredsStorage)
         /\ IsSeq(CredsJournal)
         /\ CredsBinds = BindCreds(req.rw, "bcvk-bind-", FALSE)
         /\ req.storage => CredsStorage = (CredsBindsRo \o <<StorageCred>>) \o StorageOpts
         /\ Range(CredsStorage) = Range(CredsBindsRo)
              \cup (IF req.storage THEN {StorageCred} \cup Range(StorageOpts) ELSE {})
         /\ Range(CredsBindsRo) = Range(BindCreds(req.rw, "bcvk-bind-", FALSE))
                                    \cup Range(BindCreds(req.ro, "bcvk-bind-ro-", TRUE))
         /\ Range(CredsJournal) = Range(CredsStorage)
              \cup (IF UnitsStorage = {} THEN {} ELSE {MountsDropIn})
              \cup (IF JournalAsked THEN Range(JournalStream) ELSE {})
<1> DEFINE rw == BindCreds(req.rw, "bcvk-bind-", FALSE)
           ro == BindCreds(req.ro, "bcvk-bind-ro-", TRUE)
           dropIn == IF UnitsStorage = {} THEN <<>> ELSE <<MountsDropIn>>
           journal == IF JournalAsked THEN JournalStream ELSE <<>>
<1>1. IsSeq(rw) /\ IsSeq(ro)
  BY RawIs, BindsAre
<1>2. IsSeq(StorageOpts) /\ IsSeq(JournalStream)
  BY TwoIs, ThreeIs DEF StorageOpts, JournalStream
<1>3. /\ IsSeq(dropIn) /\ Range(dropIn) = IF UnitsStorage = {} THEN {} ELSE {MountsDropIn}
      /\ IsSeq(journal) /\ Range(journal) = IF JournalAsked THEN Range(JournalStream) ELSE {}
  BY <1>2, EmptyIs, OneIs
<1>4. CredsBinds = rw
  <2> HIDE DEF rw
  <2> QED BY <1>1, SeqIs DEF CredsBinds, rw
<1>5. CredsBindsRo = rw \o ro
  BY <1>4 DEF CredsBindsRo
<1>6. CredsJournal = (CredsStorage \o dropIn) \o journal
  BY DEF CredsJournal, MountsDropIn
<1> HIDE DEF rw, ro, dropIn, journal
<1>7. IsSeq(CredsBindsRo) /\ Range(CredsBindsRo) = Range(rw) \cup Range(ro)
  BY <1>1, <1>5, ConcatIs
<1>8. /\ IsSeq(CredsStorage)
      /\ req.storage => CredsStorage = (CredsBindsRo \o <<StorageCred>>) \o StorageOpts
      /\ Range(CredsStorage) = Range(CredsBindsRo)
              \cup (IF req.storage THEN {StorageCred} \cup Range(StorageOpts) ELSE {})
  <2>1. CASE req.storage
    <3>1. CredsStorage = (CredsBindsRo \o <<StorageCred>>) \o StorageOpts
      BY <1>7, <2>1, AppendIs DEF CredsStorage, StorageCred
    <3>2. IsSeq(<<StorageCred>>) /\ Range(<<StorageCred>>) = {StorageCred}
      BY OneIs
    <3>3. /\ IsSeq(CredsBindsRo \o <<StorageCred>>)
          /\ Range(CredsBindsRo \o <<StorageCred>>) = Range(CredsBindsRo) \cup {StorageCred}
      BY <1>7, <3>2, ConcatIs
    <3> QED BY <1>2, <2>1, <3>1, <3>3, ConcatIs
  <2>2. CASE ~req.storage
    BY <1>7, <2>2 DEF CredsStorage
  <2> QED BY <2>1, <2>2
<1>9. /\ IsSeq(CredsStorage \o dropIn)
      /\ Range(CredsStorage \o dropIn) = Range(CredsStorage) \cup Range(dropIn)
  BY <1>3, <1>8, ConcatIs
<1>10. IsSeq(CredsJournal) /\ Range(CredsJournal) = Range(CredsStorage \o dropIn) \cup Range(journal)
  BY <1>3, <1>6, <1>9, ConcatIs
<1> QED BY <1>1, <1>3, <1>4, <1>7, <1>8, <1>9, <1>10 DEF rw, ro

-----------------------------------------------------------------------------
(* The command line of QEMU.                                               *)

FwArgs == [i \in DOMAIN builder.fwCfg |-> [arg |-> "-fw_cfg", value |-> builder.fwCfg[i]]]
CredArgs == [i \in DOMAIN CredsJournal |-> Smbios(CredsJournal[i])]
LinesArg == Smbios(Tmpfiles(AllLines))
NetArg == [arg |-> "-netdev", value |-> Forwards]
DeviceArg == [arg |-> "-device", value |-> "virtio-net-pci"]

IInv ==
  /\ Inputs /\ BuilderType /\ FirmwareInv /\ FsInv /\ CredInv /\ ArgsInv /\ LogInv
  /\ JournalInv /\ MetaInv /\ XmlInv

\* What is in the XML at the end.
LEMMA XmlIs ==
  ASSUME IInv, pc = "done"
  PROVE  /\ xml.filesystems = FsStorage
         /\ xml.commandLine = FwArgs \o ((<<LinesArg>> \o CredArgs) \o <<NetArg, DeviceArg>>)
         /\ xml.meta = builder.meta /\ xml.memory = ResolvedMemory /\ xml.vcpus = ResolvedCpus
         /\ xml.disks = Disks(builder) /\ xml.os = OsElement(Final, host.arch)
         /\ xml.features = Features(Final, host.arch)
         /\ xml.channels = Channels(builder)
         /\ xml.consoles = [serial |-> ResolvedLogs.serial, virtio |-> ResolvedLogs.virtio]
<1> USE DEF IInv
<1>1. /\ Final.filesystems = builder.filesystems /\ Final.fwCfg = builder.fwCfg
      /\ Final.ignitionDisk = builder.ignitionDisk /\ Final.transient = builder.transient
      /\ Final.meta = builder.meta /\ Final.memory = builder.memory
      /\ Final.vcpus = builder.vcpus /\ Final.journal = builder.journal
      /\ Final.journalInitrd = builder.journalInitrd
      /\ Final.virtioLog = logs.virtio /\ Final.serialLog = logs.serial /\ Final.args = args
  BY FinalIs, BuilderFields, Stages
<1>2. xml = BuildXml(Final, host.arch)
  BY Stages DEF XmlInv, Final
<1>3. /\ builder.filesystems = FsStorage /\ args = Arguments1 /\ logs = ResolvedLogs
      /\ builder.memory = ResolvedMemory /\ builder.vcpus = ResolvedCpus
  BY Stages DEF FsInv, ArgsInv, LogInv, MetaInv
<1>4. ResolvedMemory # None
  BY InputAssumption DEF Inputs, RequestOk, ResolvedMemory, Itypes
<1>5. xml.filesystems = FsStorage /\ xml.meta = builder.meta
      /\ xml.memory = ResolvedMemory /\ xml.vcpus = ResolvedCpus
  BY <1>1, <1>2, <1>3, <1>4 DEF BuildXml
<1>6. xml.disks = Disks(builder) /\ xml.channels = Channels(builder)
  BY <1>1, <1>2 DEF BuildXml, Disks, Channels
<1>7. xml.consoles = [serial |-> ResolvedLogs.serial, virtio |-> ResolvedLogs.virtio]
  BY <1>1, <1>2, <1>3 DEF BuildXml, Consoles
<1>8. xml.os = OsElement(Final, host.arch) /\ xml.features = Features(Final, host.arch)
  BY <1>2 DEF BuildXml
<1>9. xml.commandLine = FwArgs \o ((<<LinesArg>> \o CredArgs) \o <<NetArg, DeviceArg>>)
  <2>1. xml.commandLine = CommandLine(Final)
    BY <1>2 DEF BuildXml
  <2>2. CommandLine(Final) = FwArgs \o Arguments1
    BY <1>1, <1>3 DEF CommandLine, FwArgs
  <2> QED BY <2>1, <2>2 DEF Arguments1, LinesArg, CredArgs, NetArg, DeviceArg
<1> QED BY <1>5, <1>6, <1>7, <1>8, <1>9

LEMMA LineIs ==
  ASSUME IInv, pc = "done"
  PROVE  /\ IsSeq(FwArgs) /\ IsSeq(CredArgs) /\ IsSeq(xml.commandLine)
         /\ Range(FwArgs) = {[arg |-> "-fw_cfg", value |-> f] : f \in Range(builder.fwCfg)}
         /\ Range(CredArgs) = {Smbios(c) : c \in Range(CredsJournal)}
         /\ Range(xml.commandLine) = Range(FwArgs) \cup {LinesArg} \cup Range(CredArgs)
                                       \cup {NetArg, DeviceArg}
<1> DEFINE left == <<LinesArg>> \o CredArgs
           right == <<NetArg, DeviceArg>>
<1>1. Inputs /\ IsSeq(CredsJournal)
  BY CredsAre DEF IInv
<1>2. IsSeq(builder.fwCfg)
  <2>1. builder.fwCfg = <<>> \/ builder.fwCfg = <<PoolIgnition>>
    BY Stages DEF IInv, MetaInv
  <2>2. IsSeq(<<PoolIgnition>>)
    BY OneIs
  <2> QED BY <2>1, <2>2, EmptyIs
<1>3. /\ DOMAIN FwArgs = DOMAIN builder.fwCfg /\ FwArgs = [i \in DOMAIN FwArgs |-> FwArgs[i]]
      /\ DOMAIN CredArgs = DOMAIN CredsJournal
      /\ CredArgs = [i \in DOMAIN CredArgs |-> CredArgs[i]]
  BY DEF FwArgs, CredArgs
<1>4. IsSeq(FwArgs) /\ IsSeq(CredArgs)
  BY <1>1, <1>2, <1>3, MappedIs
<1>5. Range(FwArgs) = {[arg |-> "-fw_cfg", value |-> f] : f \in Range(builder.fwCfg)}
  BY DEF FwArgs, Range
<1>6. Range(CredArgs) = {Smbios(c) : c \in Range(CredsJournal)}
  BY DEF CredArgs, Range
<1>7. IsSeq(<<LinesArg>>) /\ Range(<<LinesArg>>) = {LinesArg}
      /\ IsSeq(right) /\ Range(right) = {NetArg, DeviceArg}
  BY OneIs, TwoIs
<1>8. xml.commandLine = FwArgs \o (left \o right)
  BY XmlIs
<1> HIDE DEF right
<1>9. IsSeq(left) /\ Range(left) = {LinesArg} \cup Range(CredArgs)
  BY <1>4, <1>7, ConcatIs
<1> HIDE DEF left
<1>10. IsSeq(left \o right) /\ Range(left \o right) = Range(left) \cup Range(right)
  BY <1>7, <1>9, ConcatIs
<1>11. IsSeq(xml.commandLine)
       /\ Range(xml.commandLine) = Range(FwArgs) \cup Range(left \o right)
  BY <1>4, <1>8, <1>10, ConcatIs
<1> QED BY <1>4, <1>5, <1>6, <1>7, <1>9, <1>10, <1>11

LEMMA ArgumentsAre ==
  ASSUME IInv, pc = "done"
  PROVE  Arguments("-netdev") = {Forwards} /\ Arguments("-fw_cfg") = Range(builder.fwCfg)
<1>1. \A a : Arguments(a) = {x.value : x \in {x \in Range(xml.commandLine) : x.arg = a}}
  BY DEF Arguments, Range
<1>2. /\ \A x \in Range(FwArgs) : x.arg = "-fw_cfg" /\ x.value \in Range(builder.fwCfg)
      /\ \A f \in Range(builder.fwCfg) : \E x \in Range(FwArgs) : x.arg = "-fw_cfg" /\ x.value = f
      /\ \A x \in Range(CredArgs) \cup {LinesArg} : x.arg = "-smbios"
  <2>1. Range(FwArgs) = {[arg |-> "-fw_cfg", value |-> f] : f \in Range(builder.fwCfg)}
    BY LineIs
  <2>2. Range(CredArgs) = {Smbios(c) : c \in Range(CredsJournal)}
    BY LineIs
  <2>3. \A c : Smbios(c).arg = "-smbios"
    BY DEF Smbios
  <2>4. \A x \in Range(CredArgs) \cup {LinesArg} : x.arg = "-smbios"
    BY <2>2, <2>3 DEF LinesArg
  <2>5. /\ \A x \in Range(FwArgs) : x.arg = "-fw_cfg" /\ x.value \in Range(builder.fwCfg)
        /\ \A f \in Range(builder.fwCfg) :
             \E x \in Range(FwArgs) : x.arg = "-fw_cfg" /\ x.value = f
    <3> DEFINE F(f) == [arg |-> "-fw_cfg", value |-> f]
    <3>1. \A f : F(f).arg = "-fw_cfg" /\ F(f).value = f
      OBVIOUS
    <3>2. Range(FwArgs) = {F(f) : f \in Range(builder.fwCfg)}
      BY <2>1
    <3> HIDE DEF F
    <3> QED BY <3>1, <3>2
  <2> QED BY <2>4, <2>5
<1>3. NetArg.arg = "-netdev" /\ NetArg.value = Forwards /\ DeviceArg.arg = "-device"
  BY DEF NetArg, DeviceArg
<1>4. {x \in Range(xml.commandLine) : x.arg = "-netdev"} = {NetArg}
  BY <1>2, <1>3, LineIs
<1>5. {x \in Range(xml.commandLine) : x.arg = "-fw_cfg"} = Range(FwArgs)
  BY <1>2, <1>3, LineIs
<1>6. {x.value : x \in Range(FwArgs)} = Range(builder.fwCfg)
  BY <1>2
<1> QED BY <1>1, <1>3, <1>4, <1>5, <1>6

-----------------------------------------------------------------------------
(* The metadata is true.                                                   *)

\* The tags `run` makes are none of the user's, nor of each other.
LEMMA TagsApart ==
  ASSUME Apart(req)
  PROVE  /\ \A i, p : BindTag(p, i) # StorageTag
         /\ \A i, j, p, q : BindTag(p, i) = BindTag(q, j) => p = q /\ i - 1 = j - 1
         /\ \A v \in Range(req.raw) : v.tag # StorageTag
         /\ \A v \in Range(req.raw), i \in Nat \ {0}, p \in {"bcvk-bind-", "bcvk-bind-ro-"} :
              v.tag # BindTag(p, i)
<1>1. \A i, p : BindTag(p, i) # StorageTag
  BY DEF BindTag, StorageTag
<1>2. \A i, j, p, q : BindTag(p, i) = BindTag(q, j) => p = q /\ i - 1 = j - 1
  BY DEF BindTag
<1>3. \A i \in Nat \ {0}, p \in {"bcvk-bind-", "bcvk-bind-ro-"} :
        BindTag(p, i) \in {"bcvk-bind-", "bcvk-bind-ro-"} \X Nat
  BY DEF BindTag
<1> QED BY <1>1, <1>2, <1>3 DEF Apart

LEMMA NoneApart == None # "ignition" /\ None # PoolIgnition /\ None \notin Nat
BY InputAssumption DEF PoolIgnition

LEMMA DisksAre ==
  /\ IsSeq(Disks(builder))
  /\ builder.ignitionDisk = None => DOMAIN Disks(builder) = {1}
  /\ {d.file : d \in {d \in Range(Disks(builder)) : d.serial = "ignition"}}
       = IF builder.ignitionDisk = None THEN {} ELSE {builder.ignitionDisk}
  /\ Injective(Column(Disks(builder), "dev"))
<1> DEFINE vda == [dev |-> "vda", file |-> "disk", ro |-> FALSE,
                   transient |-> builder.transient, serial |-> None]
           vdb == [dev |-> "vdb", file |-> builder.ignitionDisk, ro |-> TRUE,
                   transient |-> FALSE, serial |-> "ignition"]
           last == IF builder.ignitionDisk = None THEN <<>> ELSE <<vdb>>
<1>1. /\ vda.dev = "vda" /\ vdb.dev = "vdb" /\ vda.serial # "ignition"
      /\ vdb.serial = "ignition" /\ vdb.file = builder.ignitionDisk
  BY NoneApart
<1>2. Disks(builder) = <<vda>> \o last
  BY DEF Disks
<1> HIDE DEF vda, vdb
<1>3. /\ IsSeq(<<vda>>) /\ Range(<<vda>>) = {vda} /\ DOMAIN <<vda>> = {1} /\ Len(<<vda>>) = 1
      /\ IsSeq(<<vdb>>) /\ Range(<<vdb>>) = {vdb} /\ DOMAIN <<vdb>> = {1}
  BY OneIs
<1>4. /\ IsSeq(last)
      /\ Range(last) = IF builder.ignitionDisk = None THEN {} ELSE {vdb}
      /\ DOMAIN last \subseteq {1}
      /\ builder.ignitionDisk = None => Len(last) = 0
  BY <1>3, EmptyIs
<1> HIDE DEF last
<1>5. /\ IsSeq(Disks(builder)) /\ Range(Disks(builder)) = {vda} \cup Range(last)
      /\ DOMAIN Disks(builder) = 1..(1 + Len(last))
  <2> DEFINE s == <<vda>>
  <2>1. IsSeq(s) /\ Range(s) = {vda} /\ Len(s) = 1 /\ Disks(builder) = s \o last
    BY <1>2, <1>3
  <2> HIDE DEF s
  <2>2. /\ IsSeq(s \o last) /\ Range(s \o last) = Range(s) \cup Range(last)
        /\ DOMAIN (s \o last) = 1..(Len(s) + Len(last))
    BY <1>4, <2>1, ConcatIs
  <2> QED BY <2>1, <2>2
<1>6. Injective(Column(<<vda>>, "dev")) /\ Injective(Column(last, "dev"))
  BY <1>3, <1>4 DEF Injective, Column
<1>7. \A x \in Range(<<vda>>), y \in Range(last) : x["dev"] # y["dev"]
  BY <1>1, <1>3, <1>4
<1>8. Injective(Column(Disks(builder), "dev"))
  BY <1>2, <1>3, <1>4, <1>6, <1>7, ConcatInjective
<1>9. {d.file : d \in {d \in Range(Disks(builder)) : d.serial = "ignition"}}
        = IF builder.ignitionDisk = None THEN {} ELSE {builder.ignitionDisk}
  BY <1>1, <1>4, <1>5
<1>10. builder.ignitionDisk = None => DOMAIN Disks(builder) = {1}
  BY <1>4, <1>5
<1> QED BY <1>5, <1>8, <1>9, <1>10

\* The filesystem of the host's storage is the only one with its tag.
LEMMA StorageFound ==
  ASSUME Inputs, Apart(req)
  PROVE  {f.dir : f \in {f \in Range(FsStorage) : f.tag = StorageTag}}
           = IF req.storage THEN {host.storage} ELSE {}
<1>1. \A f \in Range(RawFs) : f.tag # StorageTag
  <2>1. \A i \in DOMAIN req.raw : RawFs[i].tag = req.raw[i].tag /\ req.raw[i] \in Range(req.raw)
    BY DEF RawFs, Range
  <2>2. \A f \in Range(RawFs) : \E i \in DOMAIN req.raw : f = RawFs[i]
    BY DEF RawFs, Range
  <2>3. \A v \in Range(req.raw) : v.tag # StorageTag
    BY TagsApart
  <2> QED BY <2>1, <2>2, <2>3
<1>2. \A mounts, prefix, ro : \A f \in Range(BindFs(mounts, prefix, ro)) : f.tag # StorageTag
  BY TagsApart DEF BindFs, Range
<1>3. \A f \in Range(FsBindsRo) : f.tag # StorageTag
  BY <1>1, <1>2, FsAre
<1>4. StorageFs.tag = StorageTag /\ StorageFs.dir = host.storage
  BY DEF StorageFs
<1>5. Range(FsStorage) = Range(FsBindsRo) \cup (IF req.storage THEN {StorageFs} ELSE {})
  BY FsAre
<1>6. {f \in Range(FsStorage) : f.tag = StorageTag} = IF req.storage THEN {StorageFs} ELSE {}
  BY <1>3, <1>4, <1>5
<1> QED BY <1>4, <1>6

LEMMA MetadataHolds ==
  ASSUME IInv, pc = "done" => Apart(req)
  PROVE  MetadataTrue
<1> SUFFICES ASSUME pc = "done" PROVE MetadataTrue
  BY DEF MetadataTrue
<1> DEFINE m == builder.meta
<1>1. Inputs /\ MetaInv /\ pc \in AfterBuild /\ pc \in AfterStorage /\ pc \in AfterIgnition
  BY Stages DEF IInv
<1>2. /\ m.memory = ResolvedMemory /\ m.vcpus = ResolvedCpus /\ m.sshPort = SshPort
      /\ "itype" \in DOMAIN m => req.itype # None /\ m.itype = req.itype
      /\ IF req.storage THEN "storage" \in DOMAIN m /\ m.storage = host.storage
                        ELSE "storage" \notin DOMAIN m
      /\ IF req.ignition # None
           THEN /\ "ignition" \in DOMAIN m /\ m.ignition = PoolIgnition
                /\ \/ builder.fwCfg = <<PoolIgnition>> /\ builder.ignitionDisk = None
                   \/ builder.fwCfg = <<>> /\ builder.ignitionDisk = PoolIgnition
           ELSE /\ "ignition" \notin DOMAIN m
                /\ builder.fwCfg = <<>> /\ builder.ignitionDisk = None
  BY <1>1 DEF MetaInv
<1>3. xml.meta = m /\ xml.memory = ResolvedMemory /\ xml.vcpus = ResolvedCpus
      /\ xml.disks = Disks(builder) /\ xml.filesystems = FsStorage
  BY XmlIs
<1>4. "itype" \in DOMAIN m => ResolvedMemory = Itypes[m.itype].memory
  BY <1>2 DEF ResolvedMemory
<1>5. \A fw \in Arguments("-netdev") : Forward(m.sshPort, 22) \in Range(fw)
  <2>1. Forward(SshPort, 22) \in Range(Forwards)
    <3> DEFINE ports == [i \in DOMAIN req.ports |-> Forward(req.ports[i].from, req.ports[i].to)]
    <3>1. IsSeq(req.ports) /\ DOMAIN ports = DOMAIN req.ports
      BY <1>1 DEF Inputs, RequestOk
    <3>2. IsSeq(ports) /\ Len(ports) \in Nat
      BY <3>1, MappedIs, SeqIs
    <3> DEFINE ssh == <<Forward(SshPort, 22)>>
    <3>3. IsSeq(ssh) /\ Range(ssh) = {Forward(SshPort, 22)}
      BY OneIs
    <3>4. Forwards = ssh \o ports
      BY DEF Forwards
    <3> HIDE DEF ports, ssh
    <3>5. Range(ssh \o ports) = Range(ssh) \cup Range(ports)
      BY <3>2, <3>3, ConcatIs
    <3> QED BY <3>3, <3>4, <3>5
  <2>2. m.sshPort = SshPort
    BY <1>2
  <2> QED BY <2>1, <2>2, ArgumentsAre
<1>6. {m[k] : k \in DOMAIN m \cap {"ignition"}}
        = Arguments("-fw_cfg")
            \cup {d.file : d \in {d \in Range(Disks(builder)) : d.serial = "ignition"}}
  <2>1. Range(<<PoolIgnition>>) = {PoolIgnition} /\ PoolIgnition # None
    BY OneIs, NoneApart
  <2>2. {m[k] : k \in DOMAIN m \cap {"ignition"}}
          = IF req.ignition # None THEN {PoolIgnition} ELSE {}
    BY <1>2
  <2>3. Range(builder.fwCfg) \cup (IF builder.ignitionDisk = None THEN {}
                                   ELSE {builder.ignitionDisk})
          = IF req.ignition # None THEN {PoolIgnition} ELSE {}
    BY <1>2, <2>1, EmptyIs
  <2> QED BY <2>2, <2>3, ArgumentsAre, DisksAre
<1>7. {m[k] : k \in DOMAIN m \cap {"storage"}}
        = {f.dir : f \in {f \in Range(FsStorage) : f.tag = StorageTag}}
  BY <1>1, <1>2, StorageFound
<1>8. m.memory = ResolvedMemory /\ m.vcpus = ResolvedCpus
  BY <1>2
<1> HIDE DEF m
<1>9. xml.meta.memory = xml.memory /\ xml.meta.vcpus = xml.vcpus
  BY <1>3, <1>8
<1>10. "itype" \in DOMAIN xml.meta => xml.memory = Itypes[xml.meta.itype].memory
  BY <1>3, <1>4
<1>11. \A fw \in Arguments("-netdev") : Forward(xml.meta.sshPort, 22) \in Range(fw)
  BY <1>3, <1>5
<1>12. {xml.meta[k] : k \in DOMAIN xml.meta \cap {"ignition"}}
         = Arguments("-fw_cfg")
             \cup {d.file : d \in {d \in Range(xml.disks) : d.serial = "ignition"}}
  BY <1>3, <1>6
<1>13. {xml.meta[k] : k \in DOMAIN xml.meta \cap {"storage"}}
         = {f.dir : f \in {f \in Range(xml.filesystems) : f.tag = StorageTag}}
  BY <1>3, <1>7
<1> QED BY <1>9, <1>10, <1>11, <1>12, <1>13 DEF MetadataTrue

-----------------------------------------------------------------------------
(* The domain starts.                                                      *)

LEMMA LoaderStarts ==
  ASSUME IInv, pc = "done"
  PROVE  LET os == xml.os
             explicit == os.loader # None /\ os.loader.path # None
         IN  /\ ~(explicit /\ os.efi)
             /\ os.nvram # None => explicit
             /\ (os.loader # None /\ os.loader.secure = "yes" /\ host.arch = "x86_64")
                  => os.machine = "q35" /\ "smm" \in xml.features
<1> DEFINE d == FindSecureBootFirmware
<1>1. /\ xml.os = OsElement(Final, host.arch) /\ xml.features = Features(Final, host.arch)
      /\ Inputs
  BY XmlIs DEF IInv
<1>2. /\ xml.os.loader = Loader(Final) /\ xml.os.efi = (Uefi(Final) /\ Final.code = None)
      /\ xml.os.machine = Machine(host.arch)
      /\ xml.os.nvram = IF Uefi(Final) /\ Final.code # None THEN Final.nvram ELSE None
  BY <1>1 DEF OsElement
<1>3. Final.firmware = req.firmware /\ req.firmware \in {"uefi-secure", "uefi-insecure", "bios"}
  BY Stages, FinalIs, BuilderFields DEF IInv, FirmwareInv, Inputs, RequestOk
<1>4. Final.code # None =>
        /\ d # None /\ Final.code = [path |-> d.code, format |-> d.codeFormat]
  BY Stages, FinalIs, BuilderFields DEF IInv, FirmwareInv
<1>5. d # None => d \in Range(host.descriptors) /\ d.code # None
  BY <1>1, SecureBootFound DEF Inputs, Suitable
<1>6. d # None => [path |-> d.code, format |-> d.codeFormat, secure |-> "yes"] # None
  BY <1>1, <1>5 DEF Inputs, HostOk
<1> HIDE DEF d
<1>7. CASE Uefi(Final) /\ Final.code # None
  <2>1. Loader(Final) = [path |-> d.code, format |-> d.codeFormat, secure |-> "yes"]
    BY <1>4, <1>7 DEF Loader, SecureBoot
  <2>2. SecureBoot(Final)
    BY <1>7 DEF SecureBoot
  <2>3. xml.os.loader # None /\ xml.os.loader.path = d.code /\ d.code # None
    BY <1>2, <1>4, <1>5, <1>6, <1>7, <2>1
  <2>4. ~xml.os.efi
    BY <1>2, <1>7
  <2>5. host.arch = "x86_64" => xml.os.machine = "q35" /\ "smm" \in xml.features
    BY <1>1, <1>2, <2>2 DEF Machine, Features
  <2> QED BY <2>3, <2>4, <2>5
<1>8. CASE Uefi(Final) /\ Final.code = None
  <2>1. Loader(Final) = [path |-> None, format |-> None,
                         secure |-> IF SecureBoot(Final) THEN "yes" ELSE "no"]
    BY <1>3, <1>8 DEF Loader, SecureBoot, Uefi
  <2> QED BY <1>1, <1>2, <1>8, <2>1 DEF Machine, Features
<1>9. CASE ~Uefi(Final)
  BY <1>2, <1>9 DEF Loader
<1> QED BY <1>7, <1>8, <1>9

\* A column a sequence copies from another stays without a repetition.
LEMMA SameColumn ==
  ASSUME NEW s, NEW t, NEW field, DOMAIN s = DOMAIN t,
         \A i \in DOMAIN t : s[i][field] = t[i][field], Injective(Column(t, field))
  PROVE  Injective(Column(s, field))
<1>1. Column(s, field) = Column(t, field)
  BY DEF Column
<1> QED BY <1>1

\* The tags of the bind mounts of one kind differ.
LEMMA BindTagsInjective ==
  ASSUME NEW mounts, IsSeq(mounts), NEW prefix, NEW ro
  PROVE  Injective(Column(BindFs(mounts, prefix, ro), "tag"))
<1>1. DOMAIN mounts \subseteq Nat
  BY SeqIs
<1>2. \A i \in DOMAIN mounts : BindFs(mounts, prefix, ro)[i].tag = <<prefix, i - 1>>
  BY DEF BindFs, BindTag
<1>3. \A i, j \in DOMAIN mounts : <<prefix, i - 1>> = <<prefix, j - 1>> => i = j
  BY <1>1
<1>4. DOMAIN BindFs(mounts, prefix, ro) = DOMAIN mounts
  BY DEF BindFs
<1> QED BY <1>2, <1>3, <1>4 DEF Injective, Column

LEMMA TagsInjective ==
  ASSUME Inputs, Apart(req)
  PROVE  Injective(Column(FsStorage, "tag"))
<1> DEFINE rw == BindFs(req.rw, "bcvk-bind-", FALSE)
           ro == BindFs(req.ro, "bcvk-bind-ro-", TRUE)
<1>1. IsSeq(rw) /\ IsSeq(ro) /\ IsSeq(RawFs) /\ IsSeq(req.rw) /\ IsSeq(req.ro)
  BY RawIs, BindsAre
<1>2. Injective(Column(rw, "tag")) /\ Injective(Column(ro, "tag"))
  BY <1>1, BindTagsInjective
<1>3. Injective(Column(RawFs, "tag"))
  <2>1. DOMAIN RawFs = DOMAIN req.raw /\ \A i \in DOMAIN req.raw : RawFs[i].tag = req.raw[i].tag
    BY DEF RawFs
  <2>2. Injective(Column(req.raw, "tag"))
    BY DEF Apart
  <2> QED BY <2>1, <2>2, SameColumn
<1>4. /\ \A x \in Range(RawFs) : \E v \in Range(req.raw) : x.tag = v.tag
      /\ \A x \in Range(rw) : \E i \in Nat \ {0} : x.tag = BindTag("bcvk-bind-", i)
      /\ \A x \in Range(ro) : \E i \in Nat \ {0} : x.tag = BindTag("bcvk-bind-ro-", i)
  <2>1. DOMAIN req.rw \subseteq Nat \ {0} /\ DOMAIN req.ro \subseteq Nat \ {0}
    BY <1>1, SeqIs
  <2>2. \A x \in Range(RawFs) : \E v \in Range(req.raw) : x.tag = v.tag
    <3>1. \A i \in DOMAIN RawFs : RawFs[i].tag = req.raw[i].tag /\ req.raw[i] \in Range(req.raw)
      BY DEF RawFs, Range
    <3> QED BY <3>1 DEF Range
  <2>3. \A x \in Range(rw) : \E i \in Nat \ {0} : x.tag = BindTag("bcvk-bind-", i)
    <3>1. DOMAIN rw = DOMAIN req.rw /\ \A i \in DOMAIN req.rw : rw[i].tag = BindTag("bcvk-bind-", i)
      BY DEF BindFs
    <3> HIDE DEF rw
    <3> QED BY <2>1, <3>1 DEF Range
  <2>4. \A x \in Range(ro) : \E i \in Nat \ {0} : x.tag = BindTag("bcvk-bind-ro-", i)
    <3>1. DOMAIN ro = DOMAIN req.ro /\ \A i \in DOMAIN req.ro : ro[i].tag = BindTag("bcvk-bind-ro-", i)
      BY DEF BindFs
    <3> HIDE DEF ro
    <3> QED BY <2>1, <3>1 DEF Range
  <2> QED BY <2>2, <2>3, <2>4
<1>5. /\ FsBinds = RawFs \o rw /\ FsBindsRo = FsBinds \o ro
      /\ IsSeq(FsBinds) /\ IsSeq(FsBindsRo)
      /\ Range(FsBinds) = Range(RawFs) \cup Range(rw)
      /\ Range(FsBindsRo) = Range(FsBinds) \cup Range(ro)
  BY FsAre DEF FsBinds, FsBindsRo
<1> HIDE DEF rw, ro
<1>6. \A x \in Range(RawFs), y \in Range(rw) : x["tag"] # y["tag"]
  BY <1>4, TagsApart
<1>7. Injective(Column(FsBinds, "tag"))
  BY <1>1, <1>2, <1>3, <1>5, <1>6, ConcatInjective
<1>8. \A x \in Range(FsBinds), y \in Range(ro) : x["tag"] # y["tag"]
  BY <1>4, <1>5, TagsApart
<1>9. Injective(Column(FsBindsRo, "tag"))
  BY <1>1, <1>2, <1>5, <1>7, <1>8, ConcatInjective
<1>10. CASE req.storage
  <2> DEFINE last == <<StorageFs>>
  <2>1. IsSeq(last) /\ DOMAIN last = {1} /\ Range(last) = {StorageFs}
    BY OneIs
  <2>2. FsStorage = FsBindsRo \o last
    BY <1>10, FsAre
  <2> HIDE DEF last
  <2>3. Injective(Column(last, "tag"))
    BY <2>1 DEF Injective, Column
  <2>4. \A x \in Range(FsBindsRo) : x.tag # StorageTag
    BY <1>4, <1>5, TagsApart
  <2>5. StorageFs.tag = StorageTag
    BY DEF StorageFs
  <2>6. \A x \in Range(FsBindsRo), y \in Range(last) : x["tag"] # y["tag"]
    BY <2>1, <2>4, <2>5
  <2> QED BY <1>5, <1>9, <2>1, <2>2, <2>3, <2>6, ConcatInjective
<1>11. CASE ~req.storage
  BY <1>9, <1>11 DEF FsStorage
<1> QED BY <1>10, <1>11

LEMMA PortsInjective ==
  ASSUME Inputs, Apart(req)
  PROVE  Injective(Column(Forwards, "from"))
<1> DEFINE ports == [i \in DOMAIN req.ports |-> Forward(req.ports[i].from, req.ports[i].to)]
           ssh == <<Forward(SshPort, 22)>>
<1>1. IsSeq(req.ports) /\ DOMAIN ports = DOMAIN req.ports
  BY DEF Inputs, RequestOk
<1>2. IsSeq(ports)
  BY <1>1, MappedIs
<1>3. \A i \in DOMAIN req.ports : ports[i].from = req.ports[i].from
  BY DEF Forward
<1>4. IsSeq(ssh) /\ DOMAIN ssh = {1} /\ Range(ssh) = {Forward(SshPort, 22)}
  BY OneIs
<1>5. Forwards = ssh \o ports
  BY DEF Forwards
<1> HIDE DEF ports, ssh
<1>6. Injective(Column(ports, "from"))
  <2>1. Injective(Column(req.ports, "from"))
    BY DEF Apart
  <2> QED BY <1>1, <1>3, <2>1, SameColumn
<1>7. Injective(Column(ssh, "from"))
  BY <1>4 DEF Injective, Column
<1>8. \A x \in Range(ssh), y \in Range(ports) : x["from"] # y["from"]
  <2>1. \A i \in DOMAIN req.ports : req.ports[i].from # SshPort
    BY DEF Apart, Range
  <2>2. \A x \in Range(ssh) : x.from = SshPort
    BY <1>4 DEF Forward
  <2>3. \A y \in Range(ports) : y.from # SshPort
    BY <1>1, <1>3, <2>1 DEF Range
  <2> QED BY <2>2, <2>3
<1> QED BY <1>2, <1>4, <1>5, <1>6, <1>7, <1>8, ConcatInjective

\* The logs go to two files.
LEMMA LogsApart ==
  ASSUME IInv, pc = "done"
  PROVE  LET file(path) == IF path = None THEN None
                           ELSE [dir |-> host.real[path.dir], name |-> path.name]
         IN  xml.consoles.serial # None
               => file(xml.consoles.serial) # file(xml.consoles.virtio)
<1> DEFINE file(path) == IF path = None THEN None
                         ELSE [dir |-> host.real[path.dir], name |-> path.name]
           serial == ResolvedLogs.serial
           virtio == ResolvedLogs.virtio
<1> SUFFICES ASSUME serial # None PROVE file(serial) # file(virtio)
  BY XmlIs
<1>1. /\ Resolvable(VirtioLog) /\ Resolvable(req.platformLog)
      /\ logs = ResolvedLogs /\ (logs.virtio # None => logs.virtio # logs.serial)
      /\ HostOk(host) /\ RequestOk(req)
  BY Stages DEF IInv, LogInv, Inputs
<1>2. /\ req.platformLog # None /\ serial = Resolve(req.platformLog)
      /\ req.platformLog.dir \in DOMAIN host.real
  BY <1>1 DEF ResolvedLogs, Resolvable, Exists
<1>3. virtio # None => /\ VirtioLog # None /\ virtio = Resolve(VirtioLog)
                       /\ VirtioLog.dir \in DOMAIN host.real
  BY <1>1 DEF ResolvedLogs, Resolvable, Exists
<1>4. ASSUME NEW path, path.dir \in DOMAIN host.real, Resolve(path) # None
      PROVE  file(Resolve(path)) = Resolve(path)
  <2>1. host.real[path.dir] \in Range(host.real)
    BY <1>4 DEF Range
  <2>2. host.real[host.real[path.dir]] = host.real[path.dir]
    BY <1>1, <2>1 DEF HostOk
  <2> QED BY <1>4, <2>2 DEF Resolve
<1>5. file(serial) = serial
  BY <1>2, <1>4
<1>6. CASE virtio = None
  BY <1>5, <1>6
<1>7. CASE virtio # None
  BY <1>1, <1>3, <1>4, <1>5, <1>7
<1> QED BY <1>6, <1>7

LEMMA DomainHolds ==
  ASSUME IInv, pc = "done" => Apart(req)
  PROVE  DomainStarts
<1> SUFFICES ASSUME pc = "done" PROVE DomainStarts
  BY DEF DomainStarts
<1>1. Injective(Column(xml.filesystems, "tag"))
  BY XmlIs, TagsInjective DEF IInv
<1>2. Injective(Column(xml.disks, "dev"))
  BY XmlIs, DisksAre
<1>3. \A fw \in Arguments("-netdev") : Injective(Column(fw, "from"))
  BY ArgumentsAre, PortsInjective DEF IInv
<1> QED BY <1>1, <1>2, <1>3, LoaderStarts, LogsApart, Zenon DEF DomainStarts

-----------------------------------------------------------------------------
(* The credentials the guest receives.                                     *)

ArgsKeyed(s) ==
  \A i, j \in DOMAIN s :
    /\ s[i].arg = "-smbios" /\ s[j].arg = "-smbios"
    /\ s[i].value.kind = s[j].value.kind /\ s[i].value.name = s[j].value.name
    => i = j

\* Two places of a concatenation are two places of one part or are of both.
LEMMA ConcatArgsKeyed ==
  ASSUME NEW s, NEW t, IsSeq(s), IsSeq(t), ArgsKeyed(s), ArgsKeyed(t),
         \A x \in Range(s), y \in Range(t) :
           \/ x.arg # "-smbios" \/ y.arg # "-smbios"
           \/ x.value.kind # y.value.kind \/ x.value.name # y.value.name
  PROVE  ArgsKeyed(s \o t)
<1> SUFFICES ASSUME NEW i \in DOMAIN (s \o t), NEW j \in DOMAIN (s \o t), i # j,
                    (s \o t)[i].arg = "-smbios", (s \o t)[j].arg = "-smbios",
                    (s \o t)[i].value.kind = (s \o t)[j].value.kind,
                    (s \o t)[i].value.name = (s \o t)[j].value.name
             PROVE  FALSE
  BY DEF ArgsKeyed
<1> DEFINE c == s \o t
<1>1. \/ \E k, l \in DOMAIN s : k # l /\ c[i] = s[k] /\ c[j] = s[l]
      \/ \E k, l \in DOMAIN t : k # l /\ c[i] = t[k] /\ c[j] = t[l]
      \/ c[i] \in Range(s) /\ c[j] \in Range(t)
      \/ c[i] \in Range(t) /\ c[j] \in Range(s)
  BY ConcatPair
<1>2. /\ c[i].arg = "-smbios" /\ c[j].arg = "-smbios"
      /\ c[i].value.kind = c[j].value.kind /\ c[i].value.name = c[j].value.name
  OBVIOUS
<1> HIDE DEF c
<1> QED BY <1>1, <1>2 DEF ArgsKeyed

\* The guest paths of the command line, and the host's storage.
LEMMA PathsAre ==
  ASSUME IInv, pc = "done"
  PROVE  /\ \A i \in DOMAIN req.rw : GuestPath(req.rw[i].path) /\ Exists(req.rw[i].dir)
         /\ \A i \in DOMAIN req.ro : GuestPath(req.ro[i].path) /\ Exists(req.ro[i].dir)
         /\ GuestPath(StoragePath)
<1>1. /\ \A m \in Range(req.rw) \cup Range(req.ro) :
           IsSeq(m.path) /\ "\\x2d" \notin Range(m.path)
      /\ \A i \in DOMAIN req.rw : ValidBind(req.rw[i])
      /\ \A i \in DOMAIN req.ro : ValidBind(req.ro[i])
  BY Stages DEF IInv, Inputs, RequestOk, CredInv
<1>2. /\ \A i \in DOMAIN req.rw : req.rw[i] \in Range(req.rw)
      /\ \A i \in DOMAIN req.ro : req.ro[i] \in Range(req.ro)
  BY DEF Range
<1>3. GuestPath(StoragePath)
  <2>1. StoragePath \in Seq(Range(StoragePath)) /\ StoragePath # <<>> /\ Head(StoragePath) = "/"
    <3>1. DOMAIN StoragePath = 1..8
      BY DEF StoragePath
    <3>2. Range(StoragePath) = {"/", "run", "host", "-", "container", "storage"}
      BY DEF StoragePath, Range
    <3> QED BY <3>1, <3>2 DEF StoragePath
  <2>2. "\\x2d" \notin Range(StoragePath)
    BY DEF StoragePath, Range
  <2> QED BY <2>1, <2>2 DEF GuestPath, IsSeq
<1> QED BY <1>1, <1>2, <1>3 DEF ValidBind, GuestPath

LEMMA BindsKeyed ==
  ASSUME NEW mounts, IsSeq(mounts), NEW prefix, NEW ro,
         \A i \in DOMAIN mounts : GuestPath(mounts[i].path), Injective(Column(mounts, "path"))
  PROVE  Keyed(BindCreds(mounts, prefix, ro))
<1> DEFINE s == BindCreds(mounts, prefix, ro)
<1>1. /\ DOMAIN s = DOMAIN mounts
      /\ \A i \in DOMAIN mounts : s[i].name = UnitName(mounts[i].path)
  BY DEF BindCreds, MountUnit, Unit
<1>2. \A i, j \in DOMAIN mounts : mounts[i].path = mounts[j].path => i = j
  BY DEF Injective, Column
<1> HIDE DEF s
<1>3. Keyed(s)
  BY <1>1, <1>2, UnitNameInjective DEF Keyed
<1> QED BY <1>3 DEF s

StorageNames == {<<StorageService>>, <<"sysinit.target", "bcvk-storage">>}
JournalNames ==
  {<<JournalService>>, <<JournalInitrdService>>, <<"sysinit.target", "bcvk-journal">>}
DropInNames == {<<"remote-fs.target", "bcvk-mounts">>}

LEMMA NamesApart ==
  /\ \A p, x : GuestPath(p) /\ x \in {<<StorageService>>, <<JournalService>>, <<JournalInitrdService>>}
                 => UnitName(p) # x
  /\ StorageNames \cap JournalNames = {}
  /\ DropInNames \cap (StorageNames \cup JournalNames) = {}
<1>1. StorageNames \cap JournalNames = {}
  BY DEF StorageNames, JournalNames, StorageService, JournalService, JournalInitrdService
<1>2. DropInNames \cap (StorageNames \cup JournalNames) = {}
  BY DEF StorageNames, JournalNames, DropInNames, StorageService, JournalService,
         JournalInitrdService
<1>3. \A p, x : GuestPath(p) /\ x \in {<<StorageService>>, <<JournalService>>, <<JournalInitrdService>>}
                  => UnitName(p) # x
  BY UnitNameApart DEF StorageService, JournalService, JournalInitrdService
<1> QED BY <1>1, <1>2, <1>3

LEMMA OptsAre ==
  /\ IsSeq(StorageOpts) /\ Keyed(StorageOpts)
  /\ \A c \in Range(StorageOpts) :
       /\ c.name \in StorageNames
       /\ c.kind = "systemd.extra-unit" => c.name = <<StorageService>>
<1> DEFINE a == Service(StorageService)
           b == DropIn("sysinit.target", "bcvk-storage", {<<StorageService>>})
<1>1. StorageOpts = <<a, b>>
  BY DEF StorageOpts
<1>2. /\ a.kind = "systemd.extra-unit" /\ a.name = <<StorageService>>
      /\ b.kind = "systemd.unit-dropin" /\ b.name = <<"sysinit.target", "bcvk-storage">>
  BY ServicesAre
<1> HIDE DEF a, b
<1>3. IsSeq(<<a, b>>) /\ Range(<<a, b>>) = {a, b} /\ DOMAIN <<a, b>> = {1, 2}
  BY TwoIs
<1>4. Keyed(<<a, b>>)
  BY <1>2, <1>3 DEF Keyed
<1> QED BY <1>1, <1>2, <1>3, <1>4 DEF StorageNames

LEMMA StreamIs ==
  /\ IsSeq(JournalStream) /\ Keyed(JournalStream)
  /\ \A c \in Range(JournalStream) :
       /\ c.name \in JournalNames
       /\ c.kind = "systemd.extra-unit" =>
            c.name \in {<<JournalService>>, <<JournalInitrdService>>}
<1> DEFINE a == Service(JournalService)
           b == Service(JournalInitrdService)
           d == DropIn("sysinit.target", "bcvk-journal",
                       {<<JournalService>>, <<JournalInitrdService>>})
<1>1. JournalStream = <<a, b, d>>
  BY DEF JournalStream
<1>2. /\ a.kind = "systemd.extra-unit" /\ a.name = <<JournalService>>
      /\ b.kind = "systemd.extra-unit" /\ b.name = <<JournalInitrdService>>
      /\ d.kind = "systemd.unit-dropin" /\ d.name = <<"sysinit.target", "bcvk-journal">>
  BY ServicesAre
<1>3. <<JournalService>> # <<JournalInitrdService>>
  BY DEF JournalService, JournalInitrdService
<1> HIDE DEF a, b, d
<1>4. /\ IsSeq(<<a, b, d>>) /\ Range(<<a, b, d>>) = {a, b, d}
      /\ DOMAIN <<a, b, d>> = {1, 2, 3}
      /\ <<a, b, d>>[1] = a /\ <<a, b, d>>[2] = b /\ <<a, b, d>>[3] = d
  BY ThreeIs
<1>5. Keyed(<<a, b, d>>)
  BY <1>2, <1>3, <1>4 DEF Keyed
<1> QED BY <1>1, <1>2, <1>4, <1>5 DEF JournalNames

\* No two credentials have one kind and name.
LEMMA CredsKeyed ==
  ASSUME IInv, pc = "done", Apart(req)
  PROVE  Keyed(CredsJournal)
<1> DEFINE rw == BindCreds(req.rw, "bcvk-bind-", FALSE)
           ro == BindCreds(req.ro, "bcvk-bind-ro-", TRUE)
           dropIn == IF UnitsStorage = {} THEN <<>> ELSE <<MountsDropIn>>
           journal == IF JournalAsked THEN JournalStream ELSE <<>>
           store == <<StorageCred>>
<1>1. /\ Inputs /\ IsSeq(req.rw) /\ IsSeq(req.ro) /\ IsSeq(rw) /\ IsSeq(ro)
      /\ Keyed(rw) /\ Keyed(ro)
  BY RawIs, BindsAre, PathsAre, BindsKeyed DEF IInv, Apart
<1>2. /\ \A c \in Range(rw) : \E m \in Range(req.rw) :
           /\ GuestPath(m.path) /\ c.kind = "systemd.extra-unit" /\ c.name = UnitName(m.path)
      /\ \A c \in Range(ro) : \E m \in Range(req.ro) :
           /\ GuestPath(m.path) /\ c.kind = "systemd.extra-unit" /\ c.name = UnitName(m.path)
  <2>1. \A i \in DOMAIN req.rw : /\ rw[i].kind = "systemd.extra-unit"
                                 /\ rw[i].name = UnitName(req.rw[i].path)
                                 /\ req.rw[i] \in Range(req.rw) /\ GuestPath(req.rw[i].path)
    <3>1. \A i \in DOMAIN req.rw : req.rw[i] \in Range(req.rw) /\ GuestPath(req.rw[i].path)
      BY PathsAre DEF Range
    <3> QED BY <3>1 DEF BindCreds, MountUnit, Unit
  <2>2. \A i \in DOMAIN req.ro : /\ ro[i].kind = "systemd.extra-unit"
                                 /\ ro[i].name = UnitName(req.ro[i].path)
                                 /\ req.ro[i] \in Range(req.ro) /\ GuestPath(req.ro[i].path)
    <3>1. \A i \in DOMAIN req.ro : req.ro[i] \in Range(req.ro) /\ GuestPath(req.ro[i].path)
      BY PathsAre DEF Range
    <3> QED BY <3>1 DEF BindCreds, MountUnit, Unit
  <2>3. DOMAIN rw = DOMAIN req.rw /\ DOMAIN ro = DOMAIN req.ro
    BY DEF BindCreds
  <2> HIDE DEF rw, ro
  <2> QED BY <2>1, <2>2, <2>3 DEF Range
<1> HIDE DEF rw, ro
<1>3. /\ CredsBindsRo = rw \o ro
      /\ req.storage => CredsStorage = (CredsBindsRo \o store) \o StorageOpts
      /\ CredsJournal = (CredsStorage \o dropIn) \o journal
      /\ IsSeq(CredsBindsRo) /\ IsSeq(CredsStorage)
      /\ Range(CredsBindsRo) = Range(rw) \cup Range(ro)
      /\ Range(CredsStorage) = Range(CredsBindsRo)
           \cup (IF req.storage THEN {StorageCred} \cup Range(StorageOpts) ELSE {})
  BY <1>1, CredsAre DEF CredsBindsRo, CredsJournal, MountsDropIn, rw, ro
<1>4. /\ IsSeq(store) /\ Range(store) = {StorageCred} /\ Keyed(store)
      /\ StorageCred.kind = "systemd.extra-unit" /\ StorageCred.name = UnitName(StoragePath)
      /\ GuestPath(StoragePath)
  <2>1. IsSeq(store) /\ Range(store) = {StorageCred} /\ DOMAIN store = {1}
    BY OneIs
  <2>2. Keyed(store)
    BY <2>1 DEF Keyed
  <2>3. StorageCred.kind = "systemd.extra-unit" /\ StorageCred.name = UnitName(StoragePath)
    BY DEF StorageCred, MountUnit, Unit
  <2> QED BY <2>1, <2>2, <2>3, PathsAre
<1>5. /\ IsSeq(dropIn) /\ Keyed(dropIn)
      /\ \A c \in Range(dropIn) : c.kind = "systemd.unit-dropin" /\ c.name \in DropInNames
  <2>1. /\ IsSeq(<<MountsDropIn>>) /\ Range(<<MountsDropIn>>) = {MountsDropIn}
        /\ DOMAIN <<MountsDropIn>> = {1}
    BY OneIs
  <2>2. MountsDropIn.kind = "systemd.unit-dropin" /\ MountsDropIn.name \in DropInNames
    BY DEF MountsDropIn, DropIn, DropInNames
  <2>3. Keyed(<<MountsDropIn>>) /\ Keyed(<<>>)
    BY <2>1, EmptyIs DEF Keyed
  <2> QED BY <2>1, <2>2, <2>3, EmptyIs
<1>6. /\ IsSeq(journal) /\ Keyed(journal)
      /\ \A c \in Range(journal) :
           /\ c.name \in JournalNames
           /\ c.kind = "systemd.extra-unit" =>
                c.name \in {<<JournalService>>, <<JournalInitrdService>>}
  <2>1. Keyed(<<>>)
    BY EmptyIs DEF Keyed
  <2> QED BY <2>1, EmptyIs, StreamIs
<1> HIDE DEF dropIn, journal, store
<1>7. Keyed(CredsBindsRo)
  <2>1. \A x \in Range(rw), y \in Range(ro) : x.name # y.name
    BY <1>2, UnitNameInjective DEF Apart
  <2> QED BY <1>1, <1>3, <2>1, ConcatKeyed
<1>8. Keyed(CredsStorage) /\
      \A c \in Range(CredsStorage) :
        \/ c.kind = "systemd.extra-unit" /\ \E p : GuestPath(p) /\ c.name = UnitName(p)
        \/ c.name \in StorageNames /\ (c.kind = "systemd.extra-unit" => c.name = <<StorageService>>)
  <2>1. \A c \in Range(CredsBindsRo) :
          c.kind = "systemd.extra-unit" /\ \E p : GuestPath(p) /\ c.name = UnitName(p)
    BY <1>2, <1>3
  <2>2. CASE req.storage
    <3>1. \A x \in Range(CredsBindsRo), y \in Range(store) : x.name # y.name
      <4>1. \A m \in Range(req.rw) \cup Range(req.ro) : m.path # StoragePath
        BY <2>2 DEF Apart
      <4>2. \A x \in Range(CredsBindsRo) : \E m \in Range(req.rw) \cup Range(req.ro) :
              GuestPath(m.path) /\ x.name = UnitName(m.path)
        BY <1>2, <1>3
      <4>3. \A m \in Range(req.rw) \cup Range(req.ro) :
              GuestPath(m.path) => UnitName(m.path) # UnitName(StoragePath)
        BY <1>4, <4>1, UnitNameInjective
      <4> QED BY <1>4, <4>2, <4>3
    <3>2. Keyed(CredsBindsRo \o store) /\ IsSeq(CredsBindsRo \o store)
          /\ Range(CredsBindsRo \o store) = Range(CredsBindsRo) \cup Range(store)
      BY <1>3, <1>4, <1>7, <3>1, ConcatKeyed, ConcatIs
    <3>3. \A x \in Range(CredsBindsRo \o store), y \in Range(StorageOpts) :
            x.kind # y.kind \/ x.name # y.name
      BY <1>4, <2>1, <3>2, OptsAre, NamesApart
    <3>4. Keyed(CredsStorage)
      <4> DEFINE c == CredsBindsRo \o store
      <4>1. IsSeq(c) /\ Keyed(c) /\ CredsStorage = c \o StorageOpts
            /\ \A x \in Range(c), y \in Range(StorageOpts) : x.kind # y.kind \/ x.name # y.name
        BY <1>3, <2>2, <3>2, <3>3
      <4> HIDE DEF c
      <4>2. Keyed(c \o StorageOpts)
        BY <4>1, OptsAre, ConcatKeyed
      <4> QED BY <4>1, <4>2
    <3> QED BY <1>3, <1>4, <2>1, <2>2, <3>4, OptsAre
  <2>3. CASE ~req.storage
    BY <1>3, <1>7, <2>1, <2>3 DEF CredsStorage
  <2> QED BY <2>2, <2>3
<1>9. /\ Keyed(CredsStorage \o dropIn) /\ IsSeq(CredsStorage \o dropIn)
      /\ Range(CredsStorage \o dropIn) = Range(CredsStorage) \cup Range(dropIn)
  <2>1. \A x \in Range(CredsStorage), y \in Range(dropIn) : x.kind # y.kind \/ x.name # y.name
    BY <1>5, <1>8, NamesApart
  <2> QED BY <1>3, <1>5, <1>8, <2>1, ConcatKeyed, ConcatIs
<1>10. \A x \in Range(CredsStorage \o dropIn), y \in Range(journal) :
         x.kind # y.kind \/ x.name # y.name
  BY <1>5, <1>6, <1>8, <1>9, NamesApart
<1> QED BY <1>3, <1>6, <1>9, <1>10, ConcatKeyed

-----------------------------------------------------------------------------
(* What systemd makes of them.                                             *)

RwCreds == BindCreds(req.rw, "bcvk-bind-", FALSE)
RoCreds == BindCreds(req.ro, "bcvk-bind-ro-", TRUE)
OptsDropIn == DropIn("sysinit.target", "bcvk-storage", {<<StorageService>>})
StreamDropIn ==
  DropIn("sysinit.target", "bcvk-journal", {<<JournalService>>, <<JournalInitrdService>>})

LEMMA BindCredsAre ==
  /\ DOMAIN RwCreds = DOMAIN req.rw /\ DOMAIN RoCreds = DOMAIN req.ro
  /\ \A i \in DOMAIN req.rw :
       RwCreds[i].kind = "systemd.extra-unit" /\ RwCreds[i].name = UnitName(req.rw[i].path)
  /\ \A i \in DOMAIN req.ro :
       RoCreds[i].kind = "systemd.extra-unit" /\ RoCreds[i].name = UnitName(req.ro[i].path)
  /\ \A c \in Range(RwCreds) : \E i \in DOMAIN req.rw : c = RwCreds[i]
  /\ \A c \in Range(RoCreds) : \E i \in DOMAIN req.ro : c = RoCreds[i]
<1>1. DOMAIN RwCreds = DOMAIN req.rw /\ DOMAIN RoCreds = DOMAIN req.ro
  BY DEF RwCreds, RoCreds, BindCreds
<1>2. \A i \in DOMAIN req.rw :
        RwCreds[i].kind = "systemd.extra-unit" /\ RwCreds[i].name = UnitName(req.rw[i].path)
  BY DEF RwCreds, BindCreds, MountUnit, Unit
<1>3. \A i \in DOMAIN req.ro :
        RoCreds[i].kind = "systemd.extra-unit" /\ RoCreds[i].name = UnitName(req.ro[i].path)
  BY DEF RoCreds, BindCreds, MountUnit, Unit
<1>4. /\ \A c \in Range(RwCreds) : \E i \in DOMAIN req.rw : c = RwCreds[i]
      /\ \A c \in Range(RoCreds) : \E i \in DOMAIN req.ro : c = RoCreds[i]
  BY <1>1 DEF Range
<1> QED BY <1>1, <1>2, <1>3, <1>4

\* The credentials, one by one.
LEMMA CredsByKind ==
  ASSUME Inputs
  PROVE  /\ Range(CredsJournal) = Range(RwCreds) \cup Range(RoCreds)
              \cup (IF req.storage THEN {StorageCred, Service(StorageService), OptsDropIn} ELSE {})
              \cup (IF UnitsStorage = {} THEN {} ELSE {MountsDropIn})
              \cup (IF JournalAsked
                    THEN {Service(JournalService), Service(JournalInitrdService), StreamDropIn}
                    ELSE {})
         /\ \A c \in Range(RwCreds) \cup Range(RoCreds)
                 \cup {StorageCred, Service(StorageService), Service(JournalService),
                       Service(JournalInitrdService)} : c.kind = "systemd.extra-unit"
         /\ \A c \in {OptsDropIn, MountsDropIn, StreamDropIn} : c.kind = "systemd.unit-dropin"
<1>1. Range(StorageOpts) = {Service(StorageService), OptsDropIn}
  BY TwoIs DEF StorageOpts, OptsDropIn
<1>2. Range(JournalStream) = {Service(JournalService), Service(JournalInitrdService), StreamDropIn}
  BY ThreeIs DEF JournalStream, StreamDropIn
<1>3. \A c \in Range(RwCreds) \cup Range(RoCreds) : c.kind = "systemd.extra-unit"
  BY BindCredsAre
<1>4. /\ StorageCred.kind = "systemd.extra-unit"
      /\ \A s : Service(s).kind = "systemd.extra-unit"
      /\ \A t, f, w : DropIn(t, f, w).kind = "systemd.unit-dropin"
  BY DEF StorageCred, MountUnit, Unit, Service, DropIn
<1>5. \A c \in {OptsDropIn, MountsDropIn, StreamDropIn} : c.kind = "systemd.unit-dropin"
  BY <1>4 DEF OptsDropIn, MountsDropIn, StreamDropIn
<1>6. /\ Range(CredsJournal) = Range(CredsStorage)
           \cup (IF UnitsStorage = {} THEN {} ELSE {MountsDropIn})
           \cup (IF JournalAsked THEN Range(JournalStream) ELSE {})
      /\ Range(CredsStorage) = Range(CredsBindsRo)
           \cup (IF req.storage THEN {StorageCred} \cup Range(StorageOpts) ELSE {})
      /\ Range(CredsBindsRo) = Range(RwCreds) \cup Range(RoCreds)
  BY CredsAre DEF RwCreds, RoCreds
<1> QED BY <1>1, <1>2, <1>3, <1>4, <1>5, <1>6

\* Every credential arrives.
LEMMA ReceivedAre ==
  ASSUME IInv, pc = "done", Apart(req)
  PROVE  Received(GuestCreds) = {Tmpfiles(AllLines)} \cup Range(CredsJournal)
<1> DEFINE left == <<LinesArg>> \o CredArgs
           right == <<NetArg, DeviceArg>>
           cl == xml.commandLine
<1>1. cl = FwArgs \o (left \o right) /\ Inputs
  BY XmlIs DEF IInv
<1>2. /\ IsSeq(FwArgs) /\ IsSeq(CredArgs)
      /\ Range(cl) = Range(FwArgs) \cup {LinesArg} \cup Range(CredArgs) \cup {NetArg, DeviceArg}
      /\ Range(CredArgs) = {Smbios(c) : c \in Range(CredsJournal)}
      /\ Range(FwArgs) = {[arg |-> "-fw_cfg", value |-> f] : f \in Range(builder.fwCfg)}
  BY LineIs
<1>3. /\ NetArg.arg # "-smbios" /\ DeviceArg.arg # "-smbios"
      /\ \A c : Smbios(c).arg = "-smbios" /\ Smbios(c).value = c
      /\ LinesArg.arg = "-smbios" /\ LinesArg.value = Tmpfiles(AllLines)
      /\ LinesArg.value.kind = "tmpfiles.extra"
  BY DEF NetArg, DeviceArg, Smbios, LinesArg, Tmpfiles
<1>4. \A x \in Range(FwArgs) : x.arg # "-smbios"
  <2>1. \A f : [arg |-> "-fw_cfg", value |-> f].arg # "-smbios"
    OBVIOUS
  <2> QED BY <1>2, <2>1
<1>5. \A x \in Range(CredArgs) : x.value \in Range(CredsJournal) /\ x.value.kind # "tmpfiles.extra"
  <2>1. \A c \in Range(CredsJournal) : c.kind # "tmpfiles.extra"
    BY <1>1, CredsByKind
  <2> QED BY <1>2, <1>3, <2>1
<1>6. ArgsKeyed(FwArgs)
  BY <1>4 DEF ArgsKeyed, Range
<1>7. ArgsKeyed(CredArgs)
  <2>1. Keyed(CredsJournal)
    BY CredsKeyed
  <2>2. DOMAIN CredArgs = DOMAIN CredsJournal
        /\ \A i \in DOMAIN CredsJournal : CredArgs[i].value = CredsJournal[i]
    BY <1>3 DEF CredArgs
  <2> QED BY <2>1, <2>2 DEF Keyed, ArgsKeyed
<1>8. /\ IsSeq(<<LinesArg>>) /\ Range(<<LinesArg>>) = {LinesArg} /\ ArgsKeyed(<<LinesArg>>)
  <2>1. IsSeq(<<LinesArg>>) /\ Range(<<LinesArg>>) = {LinesArg} /\ DOMAIN <<LinesArg>> = {1}
    BY OneIs
  <2> QED BY <2>1 DEF ArgsKeyed
<1>9. IsSeq(right) /\ Range(right) = {NetArg, DeviceArg} /\ ArgsKeyed(right)
  <2>1. IsSeq(right) /\ Range(right) = {NetArg, DeviceArg} /\ DOMAIN right = {1, 2}
        /\ right[1] = NetArg /\ right[2] = DeviceArg
    BY TwoIs
  <2> HIDE DEF right
  <2> QED BY <1>3, <2>1 DEF ArgsKeyed
<1>10. ArgsKeyed(left) /\ IsSeq(left) /\ Range(left) = {LinesArg} \cup Range(CredArgs)
  <2>1. \A x \in Range(<<LinesArg>>), y \in Range(CredArgs) : x.value.kind # y.value.kind
    BY <1>3, <1>5, <1>8
  <2>2. ArgsKeyed(left)
    BY <1>2, <1>7, <1>8, <2>1, ConcatArgsKeyed
  <2>3. IsSeq(left) /\ Range(left) = Range(<<LinesArg>>) \cup Range(CredArgs)
    BY <1>2, <1>8, ConcatIs
  <2> QED BY <1>8, <2>2, <2>3
<1> HIDE DEF left, right
<1>11. ArgsKeyed(left \o right) /\ IsSeq(left \o right)
  <2>1. \A x \in Range(left), y \in Range(right) : y.arg # "-smbios"
    BY <1>3, <1>9
  <2> QED BY <1>9, <1>10, <2>1, ConcatArgsKeyed, ConcatIs
<1>12. ArgsKeyed(cl)
  <2> DEFINE rest == left \o right
  <2>1. IsSeq(rest) /\ ArgsKeyed(rest) /\ cl = FwArgs \o rest
    BY <1>1, <1>11
  <2> HIDE DEF rest
  <2> QED BY <1>2, <1>4, <1>6, <2>1, ConcatArgsKeyed
<1>13. /\ DOMAIN GuestCreds = {i \in DOMAIN cl : cl[i].arg = "-smbios"}
       /\ \A i \in DOMAIN GuestCreds : GuestCreds[i] = cl[i].value
  BY DEF GuestCreds
<1> HIDE DEF cl
<1>14. Keyed(GuestCreds)
  BY <1>12, <1>13 DEF Keyed, ArgsKeyed
<1>15. Range(GuestCreds) = {x.value : x \in {x \in Range(cl) : x.arg = "-smbios"}}
  BY <1>13 DEF Range
<1>16. {x \in Range(cl) : x.arg = "-smbios"} = {LinesArg} \cup {Smbios(c) : c \in Range(CredsJournal)}
  BY <1>2, <1>3, <1>4
<1>17. Range(GuestCreds) = {Tmpfiles(AllLines)} \cup Range(CredsJournal)
  <2>1. \A c \in Range(CredsJournal) : Smbios(c).value = c
    BY <1>3
  <2> QED BY <1>3, <1>15, <1>16, <2>1
<1> QED BY <1>14, <1>17, KeyedReceived

\* The mounts, services and lines that come of them.
LEMMA GuestMakes ==
  ASSUME IInv, pc = "done", Apart(req)
  PROVE  /\ Mounts(GuestCreds) = {c.content : c \in Range(RwCreds) \cup Range(RoCreds)}
              \cup (IF req.storage THEN {StorageCred.content} ELSE {})
         /\ Services(GuestCreds) = (IF req.storage THEN {StorageService} ELSE {})
              \cup (IF JournalAsked THEN {JournalService, JournalInitrdService} ELSE {})
         /\ TmpfilesLines(GuestCreds) = AllLines
<1> DEFINE all == {Tmpfiles(AllLines)} \cup Range(CredsJournal)
           g == GuestCreds
           opts == IF req.storage THEN {StorageCred, Service(StorageService)} ELSE {}
           stream == IF JournalAsked
                     THEN {Service(JournalService), Service(JournalInitrdService)} ELSE {}
           wants == UnitsStorage \cup (IF req.storage THEN {<<StorageService>>} ELSE {})
                     \cup (IF JournalAsked
                           THEN {<<JournalService>>, <<JournalInitrdService>>} ELSE {})
<1>1. Received(g) = all /\ Inputs
  BY ReceivedAre DEF IInv
<1>2. /\ Tmpfiles(AllLines).kind = "tmpfiles.extra"
      /\ Tmpfiles(AllLines).content = [lines |-> AllLines]
  BY DEF Tmpfiles
<1>3. {c \in all : c.kind = "tmpfiles.extra"} = {Tmpfiles(AllLines)}
  BY <1>1, <1>2, CredsByKind
<1>4. {c \in all : c.kind = "systemd.unit-dropin"}
        = (IF req.storage THEN {OptsDropIn} ELSE {})
            \cup (IF UnitsStorage = {} THEN {} ELSE {MountsDropIn})
            \cup (IF JournalAsked THEN {StreamDropIn} ELSE {})
  BY <1>1, <1>2, CredsByKind
<1>5. {c \in all : c.kind = "systemd.extra-unit"}
        = Range(RwCreds) \cup Range(RoCreds) \cup opts \cup stream
  BY <1>1, <1>2, CredsByKind
<1>6. /\ OptsDropIn.content.wants = {<<StorageService>>}
      /\ MountsDropIn.content.wants = UnitsStorage
      /\ StreamDropIn.content.wants = {<<JournalService>>, <<JournalInitrdService>>}
  BY DEF OptsDropIn, MountsDropIn, StreamDropIn, DropIn
<1>7. Wanted(g) = wants
  BY <1>1, <1>4, <1>6 DEF Wanted
<1>8. \A c \in Range(RwCreds) \cup Range(RoCreds) \cup opts \cup stream : c.name \in wants
  <2>1. \A c \in Range(RwCreds) \cup Range(RoCreds) : c.name \in UnitsStorage
    <3>1. /\ \A i \in DOMAIN req.rw : UnitName(req.rw[i].path) \in UnitsStorage
          /\ \A i \in DOMAIN req.ro : UnitName(req.ro[i].path) \in UnitsStorage
      BY DEF UnitsStorage, UnitsBindsRo, UnitsBinds, BindUnits
    <3> QED BY <3>1, BindCredsAre
  <2>2. req.storage => StorageCred.name \in UnitsStorage
    BY DEF StorageCred, MountUnit, Unit, UnitsStorage
  <2>3. \A s : Service(s).name = <<s>>
    BY DEF Service, Unit
  <2> QED BY <2>1, <2>2, <2>3
<1>9. Units(g) = Range(RwCreds) \cup Range(RoCreds) \cup opts \cup stream
  BY <1>1, <1>5, <1>7, <1>8 DEF Units
<1>10. /\ \A c \in Range(RwCreds) \cup Range(RoCreds) \cup {StorageCred} :
            "where" \in DOMAIN c.content /\ "exec" \notin DOMAIN c.content
       /\ \A s : /\ "where" \notin DOMAIN Service(s).content
                 /\ "exec" \in DOMAIN Service(s).content
                 /\ Service(s).content.exec = s
  <2>1. \A c \in Range(RwCreds) \cup Range(RoCreds) : DOMAIN c.content = {"what", "where", "ro"}
    <3>2. /\ \A i \in DOMAIN req.rw : DOMAIN RwCreds[i].content = {"what", "where", "ro"}
          /\ \A i \in DOMAIN req.ro : DOMAIN RoCreds[i].content = {"what", "where", "ro"}
      BY DEF RwCreds, RoCreds, BindCreds, MountUnit, Unit
    <3> QED BY <3>2, BindCredsAre
  <2>2. DOMAIN StorageCred.content = {"what", "where", "ro"}
    BY DEF StorageCred, MountUnit, Unit
  <2>3. \A s : /\ DOMAIN Service(s).content = {"exec"} /\ Service(s).content.exec = s
    BY DEF Service, Unit
  <2> QED BY <2>1, <2>2, <2>3
<1>11. {u \in Units(g) : "where" \in DOMAIN u.content}
         = Range(RwCreds) \cup Range(RoCreds) \cup (IF req.storage THEN {StorageCred} ELSE {})
  BY <1>9, <1>10
<1>12. {u \in Units(g) : "exec" \in DOMAIN u.content}
         = (IF req.storage THEN {Service(StorageService)} ELSE {}) \cup stream
  BY <1>9, <1>10
<1>13. Mounts(g) = {c.content : c \in Range(RwCreds) \cup Range(RoCreds)}
                     \cup (IF req.storage THEN {StorageCred.content} ELSE {})
  BY <1>11 DEF Mounts
<1>14. Services(g) = (IF req.storage THEN {StorageService} ELSE {})
                       \cup (IF JournalAsked THEN {JournalService, JournalInitrdService} ELSE {})
  BY <1>10, <1>12 DEF Services
<1>15. TmpfilesLines(g) = AllLines
  BY <1>1, <1>2, <1>3 DEF TmpfilesLines
<1> QED BY <1>13, <1>14, <1>15

-----------------------------------------------------------------------------
(* The guest serves the request.                                           *)

\* A tag finds its filesystem.
LEMMA FsByTag ==
  ASSUME Inputs, Apart(req)
  PROVE  /\ \A i \in DOMAIN req.rw : {f \in Range(FsStorage) : f.tag = BindTag("bcvk-bind-", i)}
              = {[dir |-> req.rw[i].dir, tag |-> BindTag("bcvk-bind-", i), ro |-> FALSE]}
         /\ \A i \in DOMAIN req.ro : {f \in Range(FsStorage) : f.tag = BindTag("bcvk-bind-ro-", i)}
              = {[dir |-> req.ro[i].dir, tag |-> BindTag("bcvk-bind-ro-", i), ro |-> TRUE]}
         /\ req.storage => {f \in Range(FsStorage) : f.tag = StorageTag} = {StorageFs}
<1> DEFINE rw == BindFs(req.rw, "bcvk-bind-", FALSE)
           ro == BindFs(req.ro, "bcvk-bind-ro-", TRUE)
<1>1. /\ DOMAIN rw = DOMAIN req.rw /\ DOMAIN ro = DOMAIN req.ro
      /\ \A i \in DOMAIN req.rw :
           rw[i] = [dir |-> req.rw[i].dir, tag |-> BindTag("bcvk-bind-", i), ro |-> FALSE]
      /\ \A i \in DOMAIN req.ro :
           ro[i] = [dir |-> req.ro[i].dir, tag |-> BindTag("bcvk-bind-ro-", i), ro |-> TRUE]
      /\ \A i \in DOMAIN req.rw : rw[i].tag = BindTag("bcvk-bind-", i)
      /\ \A i \in DOMAIN req.ro : ro[i].tag = BindTag("bcvk-bind-ro-", i)
  BY DEF BindFs
<1>2. Range(FsStorage) = Range(RawFs) \cup Range(rw) \cup Range(ro)
                           \cup (IF req.storage THEN {StorageFs} ELSE {})
  BY FsAre
<1>3. DOMAIN req.rw \subseteq Nat \ {0} /\ DOMAIN req.ro \subseteq Nat \ {0}
  BY RawIs, SeqIs
<1>4. Injective(Column(FsStorage, "tag"))
  BY TagsInjective
<1>5. ASSUME NEW f \in Range(FsStorage), NEW h \in Range(FsStorage), f.tag = h.tag
      PROVE  f = h
  BY <1>4, <1>5 DEF Injective, Column, Range
<1> HIDE DEF rw, ro
<1>6. /\ \A i \in DOMAIN req.rw : rw[i] \in Range(FsStorage)
      /\ \A i \in DOMAIN req.ro : ro[i] \in Range(FsStorage)
      /\ req.storage => StorageFs \in Range(FsStorage)
  BY <1>1, <1>2 DEF Range
<1>7. StorageFs.tag = StorageTag
  BY DEF StorageFs
<1>8. \A i \in DOMAIN req.rw :
        {f \in Range(FsStorage) : f.tag = BindTag("bcvk-bind-", i)} = {rw[i]}
  BY <1>1, <1>5, <1>6
<1>9. \A i \in DOMAIN req.ro :
        {f \in Range(FsStorage) : f.tag = BindTag("bcvk-bind-ro-", i)} = {ro[i]}
  BY <1>1, <1>5, <1>6
<1>10. req.storage => {f \in Range(FsStorage) : f.tag = StorageTag} = {StorageFs}
  BY <1>5, <1>6, <1>7
<1> QED BY <1>1, <1>8, <1>9, <1>10

LEMMA MountsServed ==
  ASSUME IInv, pc = "done", Apart(req)
  PROVE  GuestMounts = AskedMounts
<1> DEFINE at(m) == {Mounted(m, f) : f \in {f \in Range(FsStorage) : f.tag = m.what}}
<1>1. Inputs /\ xml.filesystems = FsStorage
  BY XmlIs DEF IInv
<1>2. GuestMounts = UNION {at(m) : m \in Mounts(GuestCreds)}
  BY <1>1 DEF GuestMounts
<1>3. Mounts(GuestCreds) = {c.content : c \in Range(RwCreds) \cup Range(RoCreds)}
                             \cup (IF req.storage THEN {StorageCred.content} ELSE {})
  BY GuestMakes
<1>4. ASSUME NEW i \in DOMAIN req.rw
      PROVE  at(RwCreds[i].content) = {AskedMount(req.rw[i].path, req.rw[i].dir, FALSE)}
  <2> DEFINE m == RwCreds[i].content
             f == [dir |-> req.rw[i].dir, tag |-> BindTag("bcvk-bind-", i), ro |-> FALSE]
  <2>1. m.what = BindTag("bcvk-bind-", i) /\ m.where = req.rw[i].path /\ m.ro = FALSE
    BY DEF RwCreds, RoCreds, BindCreds, MountUnit, Unit
  <2>2. {h \in Range(FsStorage) : h.tag = m.what} = {f}
    BY <1>1, <2>1, FsByTag
  <2>3. f.dir = req.rw[i].dir /\ f.ro = FALSE
    OBVIOUS
  <2> HIDE DEF m, f
  <2>4. Mounted(m, f) = AskedMount(req.rw[i].path, req.rw[i].dir, FALSE)
    BY <2>1, <2>3 DEF Mounted, AskedMount
  <2>5. at(m) = {Mounted(m, f)}
    BY <2>2
  <2> QED BY <2>4, <2>5 DEF m
<1>5. ASSUME NEW i \in DOMAIN req.ro
      PROVE  at(RoCreds[i].content) = {AskedMount(req.ro[i].path, req.ro[i].dir, TRUE)}
  <2> DEFINE m == RoCreds[i].content
             f == [dir |-> req.ro[i].dir, tag |-> BindTag("bcvk-bind-ro-", i), ro |-> TRUE]
  <2>1. m.what = BindTag("bcvk-bind-ro-", i) /\ m.where = req.ro[i].path /\ m.ro = TRUE
    BY DEF RwCreds, RoCreds, BindCreds, MountUnit, Unit
  <2>2. {h \in Range(FsStorage) : h.tag = m.what} = {f}
    BY <1>1, <2>1, FsByTag
  <2>3. f.dir = req.ro[i].dir /\ f.ro = TRUE
    OBVIOUS
  <2> HIDE DEF m, f
  <2>4. Mounted(m, f) = AskedMount(req.ro[i].path, req.ro[i].dir, TRUE)
    BY <2>1, <2>3 DEF Mounted, AskedMount
  <2>5. at(m) = {Mounted(m, f)}
    BY <2>2
  <2> QED BY <2>4, <2>5 DEF m
<1>6. ASSUME req.storage
      PROVE  at(StorageCred.content) = {AskedMount(StoragePath, host.storage, TRUE)}
  <2> DEFINE m == StorageCred.content
  <2>1. m.what = StorageTag /\ m.where = StoragePath /\ m.ro = TRUE
    BY DEF StorageCred, MountUnit, Unit
  <2>2. {h \in Range(FsStorage) : h.tag = m.what} = {StorageFs}
    BY <1>1, <1>6, <2>1, FsByTag
  <2>3. StorageFs.dir = host.storage /\ StorageFs.ro = TRUE
    BY DEF StorageFs
  <2> HIDE DEF m
  <2>4. Mounted(m, StorageFs) = AskedMount(StoragePath, host.storage, TRUE)
    BY <2>1, <2>3 DEF Mounted, AskedMount
  <2>5. at(m) = {Mounted(m, StorageFs)}
    BY <2>2
  <2> QED BY <2>4, <2>5 DEF m
<1> HIDE DEF at
<1>7. \A z : z \in GuestMounts <=>
        \/ \E i \in DOMAIN req.rw : z \in at(RwCreds[i].content)
        \/ \E i \in DOMAIN req.ro : z \in at(RoCreds[i].content)
        \/ req.storage /\ z \in at(StorageCred.content)
  <2>1. \A z : z \in GuestMounts <=> \E m \in Mounts(GuestCreds) : z \in at(m)
    BY <1>2, Zenon
  <2>2. \A m : m \in Mounts(GuestCreds) <=>
          \/ \E c \in Range(RwCreds) \cup Range(RoCreds) : m = c.content
          \/ req.storage /\ m = StorageCred.content
    BY <1>3
  <2>3. /\ \A c : c \in Range(RwCreds) <=> \E i \in DOMAIN req.rw : c = RwCreds[i]
        /\ \A c : c \in Range(RoCreds) <=> \E i \in DOMAIN req.ro : c = RoCreds[i]
    BY BindCredsAre DEF Range
  <2>4. \A m : m \in Mounts(GuestCreds) <=>
          \/ \E i \in DOMAIN req.rw : m = RwCreds[i].content
          \/ \E i \in DOMAIN req.ro : m = RoCreds[i].content
          \/ req.storage /\ m = StorageCred.content
    BY <2>2, <2>3
  <2> QED BY <2>1, <2>4
<1>8. \A z : z \in AskedMounts <=>
        \/ \E i \in DOMAIN req.rw : z = AskedMount(req.rw[i].path, req.rw[i].dir, FALSE)
        \/ \E i \in DOMAIN req.ro : z = AskedMount(req.ro[i].path, req.ro[i].dir, TRUE)
        \/ req.storage /\ z = AskedMount(StoragePath, host.storage, TRUE)
  BY DEF AskedMounts, Range
<1>9. \A z : /\ \A i \in DOMAIN req.rw : z \in at(RwCreds[i].content)
                  <=> z = AskedMount(req.rw[i].path, req.rw[i].dir, FALSE)
             /\ \A i \in DOMAIN req.ro : z \in at(RoCreds[i].content)
                  <=> z = AskedMount(req.ro[i].path, req.ro[i].dir, TRUE)
             /\ req.storage => (z \in at(StorageCred.content)
                  <=> z = AskedMount(StoragePath, host.storage, TRUE))
  BY <1>4, <1>5, <1>6
<1>10. \A z : z \in GuestMounts <=> z \in AskedMounts
  BY <1>7, <1>8, <1>9
<1> QED BY <1>10

LEMMA ChannelsServed ==
  ASSUME IInv, pc = "done"
  PROVE  Cardinality(xml.channels) = IF JournalAsked THEN 2 ELSE 0
<1> DEFINE a == [name |-> "org.bcvk.journal", file |-> builder.journal]
           b == [name |-> "org.bcvk.journal.initrd", file |-> builder.journalInitrd]
<1>1. xml.channels = {c \in {a, b} : c.file # None}
  BY XmlIs DEF Channels
<1>2. a # b /\ a.file = builder.journal /\ b.file = builder.journalInitrd
  OBVIOUS
<1>3. IF JournalAsked
        THEN /\ builder.journal = InLogDir("journal.json")
             /\ builder.journalInitrd = InLogDir("journal-initrd.json")
        ELSE builder.journal = None /\ builder.journalInitrd = None
  BY Stages DEF IInv, JournalInv
<1>4. JournalAsked => InLogDir("journal.json") # None /\ InLogDir("journal-initrd.json") # None
  BY DEF IInv, Inputs, RequestOk, JournalAsked, InLogDir
<1> HIDE DEF a, b
<1>5. CASE JournalAsked
  <2>1. xml.channels = {a} \cup {b}
    BY <1>1, <1>2, <1>3, <1>4, <1>5
  <2>2. Cardinality({a}) = 1 /\ IsFiniteSet({a}) /\ b \notin {a}
    BY <1>2, FS_Singleton
  <2>3. Cardinality({a} \cup {b}) = 1 + 1
    BY <2>2, FS_AddElement
  <2> QED BY <1>5, <2>1, <2>3
<1>6. CASE ~JournalAsked
  <2>1. xml.channels = {}
    BY <1>1, <1>2, <1>3, <1>6
  <2> QED BY <1>6, <2>1, FS_EmptySet
<1> QED BY <1>5, <1>6

LEMMA GuestHolds ==
  ASSUME IInv, pc = "done" => Apart(req)
  PROVE  GuestServesRequest
<1> SUFFICES ASSUME pc = "done" PROVE GuestServesRequest
  BY DEF GuestServesRequest
<1> QED BY MountsServed, ChannelsServed, GuestMakes DEF GuestServesRequest, AllLines

-----------------------------------------------------------------------------
(* The theorems.                                                           *)

LEMMA InitHolds == Init => IInv
<1> SUFFICES ASSUME Init PROVE IInv
  OBVIOUS
<1>1. pc = "options" /\ req \in Requests /\ host \in Hosts /\ creds = <<>> /\ units = {}
      /\ tmpfiles = {}
  BY DEF Init
<1>2. Inputs
  BY <1>1, InputAssumption DEF Inputs
<1>3. /\ BuilderType /\ FirmwareInv /\ FsInv /\ LogInv /\ JournalInv /\ MetaInv /\ XmlInv
  BY <1>1, Stages DEF BuilderType, FirmwareInv, FsInv, LogInv, JournalInv, MetaInv, XmlInv
<1>4. CredInv
  BY <1>1, Stages DEF CredInv
<1>5. ArgsInv
  BY <1>1, Stages DEF ArgsInv, AfterOptions
<1> QED BY <1>2, <1>3, <1>4, <1>5 DEF IInv

LEMMA StepHolds == IInv /\ [Next]_vars => IInv'
BY InputsStep, BuilderTypeStep, FirmwareStep, FsStep, CredStep, ArgsStep, LogStep, JournalStep,
   MetaStep, XmlStep DEF IInv

\* Each variable holds what the parts that are done have put into it.
THEOREM VmConfigInvariant == Spec => []IInv
BY InitHolds, StepHolds, PTL DEF Spec

\* The firmware is of the kind that was asked for, and with the user's keys
\* the code and the variables of a domain are of one descriptor, although they
\* are found by two searches.
THEOREM FirmwareCorrect == Spec => []FirmwareAgrees
<1>1. IInv => FirmwareAgrees
  BY FirmwareHolds DEF IInv
<1> QED BY <1>1, VmConfigInvariant, PTL

\* Options that do not collide do not come to: only --update-from-host changes
\* one, and the path it adds has been counted.
LEMMA ApartStep == Inputs /\ Apart(req) /\ [Next]_vars => Apart(req)'
<1> SUFFICES ASSUME Inputs, Apart(req), [Next]_vars PROVE Apart(req)'
  OBVIOUS
<1>1. CASE UNCHANGED req
  BY <1>1 DEF Apart
<1>2. CASE ~UNCHANGED req
  <2>1. req' = [req EXCEPT !.storage = @ \/ req.fromHost]
    BY <1>2 DEF Next, vars, CheckOptions, Firmware, Build, Volumes, BindMounts, BindMountsRo,
       Storage, Ignition, Journal, QemuArgs, ConsoleLogs, Xml, Fail, ProcessBindMounts
  <2>2. DOMAIN req = DOMAIN Plain
    BY DEF Inputs, RequestOk
  <2>3. /\ req'.raw = req.raw /\ req'.rw = req.rw /\ req'.ro = req.ro
        /\ req'.ports = req.ports /\ req'.fromHost = req.fromHost
        /\ req'.storage = (req.storage \/ req.fromHost)
    BY <2>1, <2>2, RequestFields
  <2> QED BY <2>3 DEF Apart
<1> QED BY <1>1, <1>2

LEMMA StaysApart ==
  ASSUME \A r \in Requests : Apart(r)
  PROVE  Spec => []Apart(req)
<1>1. Init => Apart(req)
  BY DEF Init
<1>2. IInv /\ Apart(req) /\ [Next]_vars => Apart(req)'
  BY ApartStep DEF IInv
<1> QED BY <1>1, <1>2, VmConfigInvariant, PTL DEF Spec

\* What the metadata says of a domain is true of it: its size, the port that
\* is forwarded to sshd, the storage and the Ignition file.
THEOREM MetadataCorrect ==
  ASSUME \A r \in Requests : Apart(r)
  PROVE  Spec => []MetadataTrue
<1>1. IInv /\ Apart(req) => MetadataTrue
  BY MetadataHolds
<1> QED BY <1>1, VmConfigInvariant, StaysApart, PTL

\* The domain is one that libvirt and QEMU can start.
THEOREM DomainCorrect ==
  ASSUME \A r \in Requests : Apart(r)
  PROVE  Spec => []DomainStarts
<1>1. IInv /\ Apart(req) => DomainStarts
  BY DomainHolds
<1> QED BY <1>1, VmConfigInvariant, StaysApart, PTL

\* The guest mounts what was asked for where it was asked for, and nothing
\* else, and has every service, line and channel that goes with it.
THEOREM GuestCorrect ==
  ASSUME \A r \in Requests : Apart(r)
  PROVE  Spec => []GuestServesRequest
<1>1. IInv /\ Apart(req) => GuestServesRequest
  BY GuestHolds
<1> QED BY <1>1, VmConfigInvariant, StaysApart, PTL
=============================================================================
