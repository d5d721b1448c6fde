------------------------------- MODULE IpaCli -------------------------------
(***************************************************************************)
(* The editing commands of the apple-re command line (add, rm, replace-bin, *)
(* pack) over the IPA files of a disk.  A command reads its input, edits    *)
(* the VFS, serialises it, creates (and so truncates) its output, and       *)
(* writes it.  It can be killed between any two of these steps, creating    *)
(* or writing the output can fail, and input and output may be one file.    *)
(* One command runs at a time.                                              *)
(***************************************************************************)
EXTENDS IpaEdits

CONSTANTS
    InitialDisks,   \* what the IPA files can hold to begin with
    MaxCommands     \* bound: the commands of a behaviour

\* What a file holds: nothing (absent, or cut short while it was written), or
\* an archive with these directory entries.
Missing == [kind |-> "missing", entries |-> <<>>]
Partial == [kind |-> "partial", entries |-> <<>>]
Zip(entries) == [kind |-> "zip", entries |-> entries]

Bytes == [kind : {"missing", "partial", "zip"}, entries : Seq(Entry)]

ASSUME DiskAssumption ==
    /\ InitialDisks \subseteq [Ipas -> Bytes]
    /\ MaxCommands \in Nat

VARIABLES
    disk,           \* [Ipas -> Bytes]
    pc,             \* how far the command has come; "idle" between commands
    cmd,            \* its arguments
    vfs,            \* the open IpaVfs: its files ...
    app,            \* ... and the .app it found when it was opened
    left,           \* commands still to come
    seen,           \* history: the files that opening the input gave
    old             \* history: what the output held before it was created

vars == <<disk, pc, cmd, vfs, app, left, seen, old>>

\* What opening a file gives.
View(b) == IF b.kind = "zip" /\ Opens(b.entries) THEN {Decode(b.entries)} ELSE {}

\* Until the output is written whole or given up, it counts as what it held.
contents ==
    [f \in Ipas |-> View(IF pc = "writing" /\ f = cmd.out THEN old ELSE disk[f])]

Store == INSTANCE BundleStore WITH store <- contents

NoCmd == CHOOSE c \in Command : TRUE

EmptyVfs == [n \in {} |-> n]

PCs == {"idle", "open", "opened", "edited", "writing"}

TypeOK ==
    /\ disk \in [Ipas -> Bytes]
    /\ pc \in PCs
    /\ cmd \in Command
    /\ IsVfs(vfs)
    /\ app \in Apps \cup {0}
    /\ left \in 0..MaxCommands
    /\ IsVfs(seen)
    /\ old \in Bytes

Init ==
    /\ disk \in InitialDisks
    /\ pc = "idle"
    /\ cmd = NoCmd
    /\ vfs = EmptyVfs
    /\ app = 0
    /\ left = MaxCommands
    /\ seen = EmptyVfs
    /\ old = Missing

-----------------------------------------------------------------------------
(* The process exits; its memory is gone, and so is the history.            *)
Exit ==
    /\ pc' = "idle"
    /\ cmd' = NoCmd
    /\ vfs' = EmptyVfs
    /\ app' = 0
    /\ seen' = EmptyVfs
    /\ old' = Missing

Reject == Exit /\ UNCHANGED <<disk, left>>

Start(c) ==
    /\ pc = "idle"
    /\ left > 0
    /\ left' = left - 1
    /\ pc' = "open"
    /\ cmd' = c
    /\ UNCHANGED <<disk, vfs, app, seen, old>>

\* Faulty variants: an archive that does not open is edited all the same; a
\* local file that cannot be read is inserted; rm writes its output when there
\* is nothing to remove; --framework is ignored.
OpenUnchecked ==
    /\ pc = "open"
    /\ vfs' = Decode(disk[cmd.ipa].entries)
    /\ app' = FindAppPrefix(vfs')
    /\ seen' = vfs'
    /\ pc' = "opened"
    /\ UNCHANGED <<disk, cmd, left, old>>

\* open_ipa: any error ends the command.
OpenIpa ==
    /\ pc = "open"
    /\ \/ /\ View(disk[cmd.ipa]) = {}
          /\ Reject
       \/ \E files \in View(disk[cmd.ipa]) :
            /\ vfs' = files
            /\ app' = FindAppPrefix(files)
            /\ seen' = files
            /\ pc' = "opened"
            /\ UNCHANGED <<disk, cmd, left, old>>

InsertUnread(n) ==
    /\ vfs' = InsertFile(vfs, n, cmd.file)
    /\ pc' = "edited"
    /\ UNCHANGED <<disk, cmd, app, left, seen, old>>

\* The tail of add and replace-bin: fs::read of the local file, insert.
InsertLocal(n) ==
    IF cmd.file = NoFile THEN Reject
    ELSE /\ vfs' = InsertFile(vfs, n, cmd.file)
         /\ pc' = "edited"
         /\ UNCHANGED <<disk, cmd, app, left, seen, old>>

EditAdd ==
    /\ pc = "opened" /\ cmd.op = "add"
    /\ InsertLocal(cmd.name)

RmAlways ==
    /\ pc = "opened" /\ cmd.op = "rm"
    /\ vfs' = RemoveFile(vfs, cmd.name)
    /\ pc' = "edited"
    /\ UNCHANGED <<disk, cmd, app, left, seen, old>>

EditRm ==
    /\ pc = "opened" /\ cmd.op = "rm"
    /\ IF cmd.name \notin DOMAIN vfs
       THEN Reject
       ELSE /\ vfs' = RemoveFile(vfs, cmd.name)
            /\ pc' = "edited"
            /\ UNCHANGED <<disk, cmd, app, left, seen, old>>

ReplaceMain ==
    /\ pc = "opened" /\ cmd.op = "replace-bin"
    /\ IF HasMainPath(vfs, app) THEN InsertLocal(MainPath(vfs, app)) ELSE Reject

\* A framework's binary goes where the framework would be, present or not.
EditReplaceBin ==
    /\ pc = "opened" /\ cmd.op = "replace-bin"
    /\ IF cmd.fw # NoFw THEN InsertLocal(InApp(app, FwBinary[cmd.fw]))
       ELSE IF HasMainPath(vfs, app) THEN InsertLocal(MainPath(vfs, app))
       ELSE Reject

EditPack ==
    /\ pc = "opened" /\ cmd.op = "pack"
    /\ pc' = "edited"
    /\ UNCHANGED <<disk, cmd, vfs, app, left, seen, old>>

\* write_ipa: to_bytes, then the half of fs::write that creates the file.
\* Creating it truncates it, or fails and leaves it as it was.
CreateOut ==
    /\ pc = "edited"
    /\ \/ Reject
       \/ /\ ToBytesOk(vfs)
          /\ disk' = [disk EXCEPT ![cmd.out] = Partial]
          /\ old' = disk[cmd.out]
          /\ pc' = "writing"
          /\ UNCHANGED <<cmd, vfs, app, left, seen>>

\* The other half: all of the bytes reach the file ...
WriteOut ==
    /\ pc = "writing"
    /\ disk' = [disk EXCEPT ![cmd.out] = Zip(ToBytes(vfs))]
    /\ Exit
    /\ UNCHANGED left

\* ... or the write fails and the file stays cut short.
WriteFails ==
    /\ pc = "writing"
    /\ Reject

\* The process is killed.
Crash ==
    /\ pc # "idle"
    /\ Reject

Step == OpenIpa \/ EditAdd \/ EditRm \/ EditReplaceBin \/ EditPack \/ CreateOut
        \/ WriteOut \/ WriteFails

Next == (\E c \in Command : Start(c)) \/ Step \/ Crash

Spec == Init /\ [][Next]_vars

-----------------------------------------------------------------------------
(* Properties.                                                              *)

\* While a command is at work on its output, its VFS is the archive it opened
\* with exactly the edit it was asked for, and the edit was one that can be
\* made: every check (of cmd_rm, of cmd_replace_bin, of the local file) comes
\* before the output is touched.  Names that end in '/' are in the VFS until
\* the archive is opened again.
EditIsOfWhatWasRead ==
    pc \in {"edited", "writing"} =>
        /\ Acceptable(cmd, seen)
        /\ FilesOnly(vfs) = Edited(cmd, seen)

\* Why it holds: the edit starts from the archive as it was opened, whose .app
\* is the one the command resolved, and which has no directory names; the
\* input is on disk until the output, if it is the same file, is created.
IInv ==
    /\ pc \in {"opened", "edited", "writing"} =>
        /\ app = FindAppPrefix(seen)
        /\ \A n \in DOMAIN seen : ~IsDir(n)
    /\ pc = "opened" => vfs = seen
    /\ pc \in {"opened", "edited"} => seen \in View(disk[cmd.ipa])
    /\ pc = "writing" =>
        /\ seen \in View(IF cmd.ipa = cmd.out THEN old ELSE disk[cmd.ipa])
        /\ disk[cmd.out] = Partial
    /\ EditIsOfWhatWasRead

\* The commands are atomic edits of the files' contents: whatever the order,
\* the aliasing of input and output, and the step at which one is killed, a
\* file ends as it was, as the edit of what its input held, or lost.
ImplementsStore == Store!Spec

\* The output of a replace-bin was written whole, over a bundle whose Info.plist
\* does not name itself as the executable.
ReplaceWritten ==
    /\ pc = "writing" /\ disk'[cmd.out].kind = "zip" /\ cmd.op = "replace-bin"
    /\ HasBundle(seen, app) /\ Target(cmd, seen).file # InfoPlist

\* What a command with the same --framework finds in the output.
ResolvedAfter ==
    LET files == Decode(disk'[cmd.out].entries)
    IN  ResolveMacho(files, FindAppPrefix(files), cmd.fw)

\* The .app found when the archive was opened is the one found when the output
\* is opened; the executable and the frameworks that bundle() can list are then
\* resolved to what replace-bin wrote, and a framework whose name is empty or
\* holds a '/' (cmd_replace_bin takes any name, main.rs:856) to nothing at all.
ReplaceBinResolves ==
    [][ReplaceWritten =>
         ResolvedAfter = IF cmd.fw \in FlatFws \cup {NoFw} /\ ~IsDir(Target(cmd, seen))
                         THEN {cmd.file} ELSE {}]_vars

\* "Add or overwrite a file inside the IPA and write a new archive"
\* (crates/apple_re_cli/src/main.rs:147): what add wrote is there when the
\* archive it wrote is opened.
AddedFileIsThere ==
    [][(pc = "writing" /\ disk'[cmd.out].kind = "zip" /\ cmd.op = "add")
       => cmd.name \in DOMAIN Decode(disk'[cmd.out].entries)]_vars
=============================================================================
