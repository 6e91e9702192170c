---------------------------- MODULE MCVmConfig ----------------------------
(* An instance of VmConfig for TLC: options that interact are varied       *)
(* together, the others are as in Plain.                                   *)
EXTENDS VmConfig

PathA == <<"/", "a", "/", "b">>
PathDash == <<"/", "a", "-", "b">>
PathRelative == <<"a">>
Log(dir, name) == [dir |-> dir, name |-> name]

\* Firmware: every type with and without keys, with options of the machine.
FirmwareRequests ==
  {[Plain EXCEPT !.firmware = f, !.keys = k, !.transient = t, !.tpm = t,
                 !.itype = i, !.firmwareLog = t] :
     f \in {"uefi-secure", "uefi-insecure", "bios"}, k \in BOOLEAN,
     t \in BOOLEAN, i \in {None, "nano", "large"}}

Bind(dir, path) == [dir |-> dir, path |-> path]
BindLists ==
  {<<>>, <<Bind("d1", PathA)>>, <<Bind("d1", PathA), Bind("d2", PathDash)>>,
   <<Bind("missing", PathA)>>, <<Bind("d1", PathRelative)>>}
BindRoLists ==
  {<<>>, <<Bind("d2", <<"/", "c">>)>>,
   <<Bind("d1", <<"/", "c">>), Bind("d1", <<"/", "c", "-", "d">>)>>}

MountRequests ==
  {[Plain EXCEPT !.raw = r, !.rw = b, !.ro = o, !.storage = s, !.fromHost = h] :
     r \in {<<>>, <<[dir |-> "d1", tag |-> <<"data">>]>>,
            <<[dir |-> "missing", tag |-> <<"data">>]>>},
     b \in BindLists, o \in BindRoLists, s \in BOOLEAN, h \in BOOLEAN}

LogRequests ==
  {[Plain EXCEPT !.logDir = l, !.consoleLog = c, !.platformLog = p, !.rw = b,
                 !.graphical = TRUE] :
     l \in {None} \cup {[path |-> d, absolute |-> a, journal |-> j, console |-> ~j] :
                        d \in {"d1", "missing"}, a \in BOOLEAN, j \in BOOLEAN},
     c \in {None, Log("d1", "c.txt"), Log("link", "c.txt"), Log("missing", "c.txt")},
     p \in {None, Log("d1", "c.txt"), Log("d1", "console.txt")},
     b \in {<<>>, <<Bind("d1", PathA)>>}}

OtherRequests ==
  {[Plain EXCEPT !.ignition = i, !.ports = p, !.network = n] :
     i \in {None, "config.ign"}, n \in {"user", "none"},
     p \in {<<>>, <<[from |-> 8080, to |-> 80]>>,
            <<[from |-> 8080, to |-> 80], [from |-> 8443, to |-> 443]>>}}

SomeRequests ==
  FirmwareRequests \cup MountRequests \cup LogRequests \cup OtherRequests

Descriptor(code, secure, enrolled, device) ==
  [parses |-> TRUE, enrolled |-> enrolled, archs |-> {"x86_64"},
   secure |-> secure, device |-> device, code |-> code, codeFormat |-> "raw",
   vars |-> <<code, "vars">>, varsFormat |-> IF secure THEN "raw" ELSE "qcow2"]
Broken == [Descriptor("broken", TRUE, FALSE, "flash") EXCEPT !.parses = FALSE]
Enrolled == Descriptor("enrolled", TRUE, TRUE, "flash")
NotSecure == Descriptor("plain", FALSE, FALSE, "flash")
Memory == Descriptor("memory", TRUE, FALSE, "memory")
Secure == Descriptor("secboot", TRUE, FALSE, "flash")
NoVars == [Secure EXCEPT !.vars = None]

Real == ("d1" :> "d1") @@ ("d2" :> "d2") @@ ("link" :> "d1")

Equipped ==
  [PlainHost EXCEPT !.descriptors = <<Enrolled, NotSecure, Memory, NoVars, Secure>>,
     !.files = {"secboot", "config.ign"}, !.real = Real, !.storage = "d2",
     !.labels = ("coreos.ignition" :> "1")]

\* No two of the options collide.
ASSUME SomeApart == \A r \in SomeRequests : Apart(r)

SomeHosts ==
  {Equipped,
   [Equipped EXCEPT !.arch = "aarch64"],
   [Equipped EXCEPT !.arch = "s390x"],
   [Equipped EXCEPT !.arch = "powerpc64"],
   [Equipped EXCEPT !.descriptors = <<NotSecure, Secure>>,
      !.labels = ("com.coreos.osname" :> "fcos")],
   [Equipped EXCEPT !.descriptors = <<Broken, Secure>>, !.version = 10],
   [Equipped EXCEPT !.descriptors = <<NotSecure>>, !.version = None],
   [Equipped EXCEPT !.files = {}, !.storage = "missing",
      !.labels = ("coreos.ignition" :> "")],
   [Equipped EXCEPT !.keys = FALSE]}
=============================================================================
