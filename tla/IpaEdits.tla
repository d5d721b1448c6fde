------------------------------ MODULE IpaEdits ------------------------------
(***************************************************************************)
(* The editing commands of apple-re, as what each makes of the archive it   *)
(* is given: the arguments a command line can have, which of them can be    *)
(* carried out on an archive, and the archive that results.                 *)
(***************************************************************************)
EXTENDS IpaVfs

CONSTANTS
    Ipas,           \* paths of IPA files on disk
    ArgNames,       \* the names users give on the command line
    NoFile          \* the local file given by --file cannot be read

ASSUME IpasAssumption == Ipas # {}
ASSUME ArgAssumption == ArgNames \subseteq Name /\ NoFile \notin Contents

Ops == {"add", "rm", "replace-bin", "pack"}

NoName == [app |-> 0, file |-> InfoPlist]

Arguments ==
    [op : Ops, ipa : Ipas, out : Ipas, name : ArgNames \cup {NoName},
     fw : Fws \cup {NoFw}, file : Contents \cup {NoFile}]

\* The arguments that op does not take have fixed values.
TakesArguments(c) ==
    /\ c.op \in {"add", "rm"} <=> c.name # NoName
    /\ c.fw # NoFw => c.op = "replace-bin"
    /\ c.op \in {"rm", "pack"} => c.file = NoFile

\* One command line.
Command == {c \in Arguments : TakesArguments(c)}

\* The name a command writes or removes.
Target(c, files) ==
    IF c.op # "replace-bin" THEN c.name
    ELSE IF c.fw = NoFw THEN MainPath(files, FindAppPrefix(files))
    ELSE InApp(FindAppPrefix(files), FwBinary[c.fw])

\* The archive with one name set, removed, or as it is.  A name that ends in
\* '/' is a directory: setting it adds no file.
Edited(c, files) ==
    CASE c.op = "pack" -> files
      [] c.op = "rm"   -> RemoveFile(files, c.name)
      [] OTHER         -> IF IsDir(Target(c, files)) THEN files
                          ELSE InsertFile(files, Target(c, files), c.file)

Acceptable(c, files) ==
    /\ c.op = "rm" => c.name \in DOMAIN files
    /\ c.op \in {"add", "replace-bin"} => c.file # NoFile
    /\ (c.op = "replace-bin" /\ c.fw = NoFw) => HasMainPath(files, FindAppPrefix(files))
=============================================================================
