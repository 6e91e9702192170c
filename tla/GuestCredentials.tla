-------------------------- MODULE GuestCredentials --------------------------
(***************************************************************************)
(* The systemd credentials both kinds of VM are configured with, and what  *)
(* systemd in the guest makes of them.                                     *)
(*                                                                         *)
(* A guest path is a sequence of symbols, "/" and "-" among them; a tag of *)
(* a virtiofs filesystem is a sequence as well, so that a generated tag is *)
(* a prefix and an index.  A credential has a name and a content, and the  *)
(* content of a unit says what the unit does.                              *)
(***************************************************************************)
EXTENDS Naturals, Sequences, FiniteSets, SequencesExt

IsSeq(s) == s \in Seq(Range(s))

\* guest_path_to_unit_name: the leading slash goes, a dash is escaped, and
\* a slash becomes a dash.
Escape(symbol) ==
  CASE symbol = "-" -> "\\x2d"
    [] symbol = "/" -> "-"
    [] OTHER -> symbol
UnescapedDash(symbol) == IF symbol = "/" THEN "-" ELSE symbol
UnitName(path) ==
  LET rest == IF path # <<>> /\ Head(path) = "/" THEN Tail(path) ELSE path
  IN  [i \in 1..Len(rest) |-> Escape(rest[i])] \o <<".mount">>

Unit(name, content) ==
  [kind |-> "systemd.extra-unit", name |-> name, content |-> content]
DropIn(target, file, wants) ==
  [kind |-> "systemd.unit-dropin", name |-> <<target, file>>,
   content |-> [wants |-> wants]]
Tmpfiles(lines) ==
  [kind |-> "tmpfiles.extra", name |-> <<>>, content |-> [lines |-> lines]]

MountUnit(tag, path, ro) ==
  Unit(UnitName(path), [what |-> tag, where |-> path, ro |-> ro])

Service(name) == Unit(<<name>>, [exec |-> name])

StorageService == "bcvk-storage-opts.service"
StorageOpts ==
  <<Service(StorageService),
    DropIn("sysinit.target", "bcvk-storage", {<<StorageService>>})>>
StorageLines == {"environment.d", "system.conf.d"}

RootKey(key) == {key}

JournalService == "bcvk-journal-stream.service"
JournalInitrdService == "bcvk-journal-stream-initrd.service"
JournalStream ==
  <<Service(JournalService), Service(JournalInitrdService),
    DropIn("sysinit.target", "bcvk-journal",
           {<<JournalService>>, <<JournalInitrdService>>})>>

-----------------------------------------------------------------------------
\* check_ignition_support: a label counts if it is there and not empty.
SupportsIgnition(labels) ==
  \E l \in {"coreos.ignition", "com.coreos.osname"} :
    l \in DOMAIN labels /\ labels[l] # ""

-----------------------------------------------------------------------------
(* systemd in the guest.  A name that is carried twice has no definite     *)
(* content, so the guest is taken to have none for it.  A mount unit       *)
(* counts only under the name its path has, and only if a target wants it. *)

Received(creds) ==
  {c \in Range(creds) :
     Cardinality({i \in DOMAIN creds :
        creds[i].kind = c.kind /\ creds[i].name = c.name}) = 1}

Wanted(creds) ==
  UNION {c.content.wants : c \in {c \in Received(creds) :
                                    c.kind = "systemd.unit-dropin"}}

Units(creds) ==
  {c \in Received(creds) : c.kind = "systemd.extra-unit"
                           /\ c.name \in Wanted(creds)}

Mounts(creds) == {u.content : u \in {u \in Units(creds) :
                                       "where" \in DOMAIN u.content}}

Services(creds) == {u.content.exec : u \in {u \in Units(creds) :
                                              "exec" \in DOMAIN u.content}}

TmpfilesLines(creds) ==
  UNION {c.content.lines : c \in {c \in Received(creds) :
                                    c.kind = "tmpfiles.extra"}}
=============================================================================
