------------------------------- MODULE IpaVfs -------------------------------
(***************************************************************************)
(* The in-memory file system of crates/ipa_vfs: what an IPA archive decodes *)
(* to, which .app bundle it describes, and the archive it serialises to.    *)
(* Pure operators; the commands that use them are in IpaCli.                *)
(*                                                                          *)
(* A name inside the archive is split where find_app_prefix splits it: the  *)
(* Payload/<x>.app/ it starts with (0: none) and the rest.  Both parts are   *)
(* ranks in byte order: keys of different apps differ inside "<x>.app/", so *)
(* the first key of the BTreeMap that has an app has the least one.         *)
(***************************************************************************)
EXTENDS Integers, FiniteSets, Sequences

CONSTANTS
    Apps,           \* the .app directories, as their rank in byte order
    Files,          \* the rest of a name after it, as its rank in byte order
    DirFiles,       \* the ones that end in '/'
    InfoPlist,      \* "Info.plist"
    Contents,       \* file contents
    ExecOf,         \* CFBundleExecutable of a content read as a plist, or NoExec
    NoExec,         \* the content is no plist, or has no CFBundleExecutable
    Fws,            \* keys "<X>.framework", whatever <X> is
    FwBinary,       \* "Frameworks/<X>.framework/<X>", a directory if <X> is empty
    FlatFws,        \* the keys without a '/'
    NoFw,           \* no --framework: the main executable is meant
    MaxEntries      \* u16::MAX, the most entries an archive can have

ASSUME AppsAssumption == Apps \subseteq Nat \ {0}
ASSUME FilesAssumption ==
    /\ Files \subseteq Nat
    /\ DirFiles \subseteq Files
    /\ InfoPlist \in Files \ DirFiles
    /\ FwBinary \in [Fws -> Files \ {InfoPlist}]
    /\ FlatFws \subseteq Fws
    /\ NoFw \notin Fws
ASSUME ContentsAssumption ==
    /\ NoExec \notin Files
    /\ ExecOf \in [Contents -> Files \cup {NoExec}]
ASSUME MaxEntriesAssumption == MaxEntries \in Nat

Name == [app: Apps \cup {0}, file: Files]

IsDir(n) == n.file \in DirFiles

\* A VFS: a map from names to contents.
IsVfs(v) ==
    /\ DOMAIN v \subseteq Name
    /\ IsFiniteSet(DOMAIN v)
    /\ v \in [DOMAIN v -> Contents]

\* ok: read() finds the local header and can decompress the data.
Entry == [name: Name, data: Contents, ok: BOOLEAN]

\* The part of a VFS that opening the archive written from it gives back.
FilesOnly(v) == [n \in {m \in DOMAIN v : ~IsDir(m)} |-> v[n]]

InsertFile(files, n, d) ==
    [m \in DOMAIN files \cup {n} |-> IF m = n THEN d ELSE files[m]]

RemoveFile(files, n) == [m \in DOMAIN files \ {n} |-> files[m]]

-----------------------------------------------------------------------------
(* Opening.                                                                 *)

\* open() inserts the entries in directory order, skipping the names that
\* end in '/': the last entry of a name wins.
Decode(entries) ==
    LET kept(n) == {i \in DOMAIN entries : entries[i].name = n}
        last(n) == CHOOSE i \in kept(n) : \A k \in kept(n) : k <= i
    IN  [n \in {entries[i].name : i \in DOMAIN entries} \ {m \in Name : IsDir(m)} |->
            entries[last(n)].data]

AppsIn(files) == {n.app : n \in DOMAIN files} \ {0}

\* 0: MissingPayloadApp.
FindAppPrefix(files) ==
    IF AppsIn(files) = {} THEN 0
    ELSE CHOOSE a \in AppsIn(files) : \A b \in AppsIn(files) : a <= b

\* Any entry that is kept and cannot be read fails the whole open.
Opens(entries) ==
    /\ \A i \in DOMAIN entries : IsDir(entries[i].name) \/ entries[i].ok
    /\ FindAppPrefix(Decode(entries)) # 0

-----------------------------------------------------------------------------
(* The bundle view.  The prefix is the one cached by open().                *)

InApp(app, f) == [app |-> app, file |-> f]

HasMainPath(files, app) ==
    /\ InApp(app, InfoPlist) \in DOMAIN files
    /\ ExecOf[files[InApp(app, InfoPlist)]] # NoExec

MainPath(files, app) == InApp(app, ExecOf[files[InApp(app, InfoPlist)]])

\* bundle() succeeds.
HasBundle(files, app) ==
    /\ HasMainPath(files, app)
    /\ MainPath(files, app) \in DOMAIN files

\* What follows "Frameworks/" is split at its first '/', so a key with one is not met.
BundleFrameworks(files, app) ==
    {fw \in FlatFws : InApp(app, FwBinary[fw]) \in DOMAIN files}

\* What resolve_macho finds: the bytes of the main executable or of the
\* framework, as a set that is empty when it fails.
ResolveMacho(files, app, fw) ==
    IF ~HasBundle(files, app) THEN {}
    ELSE IF fw = NoFw THEN {files[MainPath(files, app)]}
    ELSE IF fw \in BundleFrameworks(files, app) THEN {files[InApp(app, FwBinary[fw])]}
    ELSE {}

-----------------------------------------------------------------------------
(* Serialising.                                                             *)

Before(m, n) == m.app < n.app \/ (m.app = n.app /\ m.file <= n.file)

\* The keys of the map in its order; names outside any .app come first.
KeySeq(S) ==
    [i \in 1..Cardinality(S) |->
        CHOOSE n \in S : Cardinality({m \in S : Before(m, n)}) = i]

ToBytesOk(files) == Cardinality(DOMAIN files) <= MaxEntries

ToBytes(files) ==
    LET keys == KeySeq(DOMAIN files)
    IN  [i \in DOMAIN keys |-> [name |-> keys[i], data |-> files[keys[i]], ok |-> TRUE]]
=============================================================================
