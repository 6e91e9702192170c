------------------------- MODULE MCEphemeralConfig -------------------------
(* An instance of EphemeralConfig for TLC: options that interact are varied *)
(* together, the others are as in Plain.                                    *)
EXTENDS EphemeralConfig, TLC

\* --bind DIR:name and --bind DIR:first/second.
Bind(dir, name) == [dir |-> dir, name |-> <<name>>]
BindBelow(dir, first, second) == [dir |-> dir, name |-> <<first, second>>]
RwLists ==
  {<<>>, <<Bind("d1", <<"a">>)>>, <<Bind("locked", <<"a">>), Bind("d1", <<"b">>)>>,
   <<Bind("d1", <<"a", "-", "b">>), Bind("d2", <<"a">>)>>,
   <<Bind("missing", <<"a">>)>>, <<Bind("file", <<"a">>)>>,
   <<BindBelow("d1", <<"f">>, <<"a">>), BindBelow("file", <<"f">>, <<"b">>)>>,
   <<BindBelow("d1", <<"g">>, <<"a">>), Bind("d2", <<"a">>)>>}
RoLists ==
  {<<>>, <<Bind("d2", <<"c">>)>>, <<Bind("d2", <<"a">>)>>,
   <<BindBelow("d2", <<"f">>, <<"c">>), BindBelow("d1", <<"e">>, <<"a">>)>>,
   <<Bind("d1", <<"d">>), Bind("d2", <<"e">>)>>}

MountRequests ==
  {[Plain EXCEPT !.rw = r, !.ro = o, !.storage = s] :
     r \in RwLists, o \in RoLists, s \in BOOLEAN}

StreamRequests ==
  {[Plain EXCEPT !.journal = j, !.consoleLog = c, !.output = o, !.execute = e,
                 !.ssh = k, !.console = c, !.rw = r] :
     j \in BOOLEAN, c \in BOOLEAN, o \in {"console", "journal"}, e \in BOOLEAN,
     k \in BOOLEAN, r \in {<<>>, <<Bind("d1", <<"a">>)>>}}

Disk(file, name, format, named) ==
  [file |-> file, name |-> name, format |-> format, qcow2Named |-> named]
DeviceRequests ==
  {[Plain EXCEPT !.disks = d, !.ignition = i, !.swap = s, !.memory = m] :
     d \in {<<>>, <<Disk("raw", "data", None, FALSE)>>,
            <<Disk("qcow2", "data", None, TRUE), Disk("new", None, None, FALSE)>>,
            <<Disk("raw", "data", "vmdk", FALSE)>>,
            <<Disk("d1", "data", "raw", FALSE)>>,
            <<Disk("raw", None, None, FALSE), Disk("qcow2", None, "qcow2", TRUE)>>},
     i \in {None, "config.ign"}, s \in BOOLEAN, m \in {64, 4096}}

SomeRequests == MountRequests \cup StreamRequests \cup DeviceRequests
BootRequests == {Plain, [Plain EXCEPT !.journal = TRUE]}

Artifact(at, kind, of, zstd, size, trailer) ==
  [at |-> at, kind |-> kind, kernel |-> [of |-> of, zstd |-> zstd, size |-> 1],
   initramfs |-> [of |-> of, size |-> size, trailer |-> trailer]]
Pair(of, zstd) == Artifact("version", "traditional", of, zstd, 6, 0)
Uki == Artifact("modules", "uki", "uki", FALSE, 5, 0)
Esp == Artifact("esp", "uki", "esp", TRUE, 7, 2)
Android == Artifact("aboot", "android", "android", TRUE, 8, 0)
Strange == Artifact("aboot", "other", "strange", FALSE, 8, 0)
Lone == [Pair("lone", FALSE) EXCEPT !.initramfs = None]
Empty == Artifact("esp", "uki", "empty", FALSE, 0, 0)
OnlyTrailer == Artifact("esp", "uki", "trailer", FALSE, 0, 3)

Images ==
  {{}, {Pair("k1", FALSE)}, {Pair("k1", TRUE), Lone}, {Pair("k1", TRUE), Pair("k2", TRUE)},
   {Pair("k1", TRUE), Uki}, {Uki, Esp}, {Esp, Pair("k1", FALSE)}, {Android, Esp, Uki},
   {Android, Strange}, {Strange}, {Empty}, {OnlyTrailer}}

Dir(writable, dir) == [writable |-> writable, dir |-> dir]
Dirs ==
  ("d1" :> Dir(TRUE, TRUE)) @@ ("d2" :> Dir(TRUE, TRUE))
    @@ ("locked" :> Dir(FALSE, TRUE)) @@ ("file" :> Dir(TRUE, FALSE))
Files ==
  ("raw" :> "raw") @@ ("qcow2" :> "qcow2") @@ ("config.ign" :> "text")
    @@ ("d1" :> "directory")

Equipped ==
  [PlainHost EXCEPT !.files = Files, !.dirs = Dirs, !.storage = "d2",
     !.labels = ("coreos.ignition" :> "1"), !.image = {Pair("k1", FALSE)}]

BootHosts ==
  {[Equipped EXCEPT !.arch = a, !.qemu = q, !.tools = t, !.image = i] :
     a \in {"x86_64", "aarch64"}, q \in {10, 11, None}, t \in BOOLEAN, i \in Images}

OtherHosts ==
  {Equipped,
   [Equipped EXCEPT !.arch = "s390x", !.cids = {3}, !.cloudInit = TRUE],
   [Equipped EXCEPT !.arch = "powerpc64", !.vsock = FALSE],
   [Equipped EXCEPT !.systemd = 252, !.cids = 3..5, !.readonlyFlag = FALSE],
   [Equipped EXCEPT !.cids = 3..5],
   [Equipped EXCEPT !.labels = << >>, !.storage = None, !.readonlyFlag = FALSE],
   [Equipped EXCEPT !.kvm = FALSE]}

SomeHosts == BootHosts \cup OtherHosts

\* No disk is named like one of `run` itself, no bind is below another.
ASSUME SomeApart == \A r \in SomeRequests : Apart(r) /\ Unnested(r)
=============================================================================
