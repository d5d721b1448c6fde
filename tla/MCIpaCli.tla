----------------------------- MODULE MCIpaCli ------------------------------
(***************************************************************************)
(* Two .app directories and, in each, an Info.plist, an executable, the     *)
(* binaries of three frameworks (one without a name, one with a '/' in it)  *)
(* and the directory itself (the empty rest of a name).  Two plists: one    *)
(* names the executable, the other has an empty CFBundleExecutable, which   *)
(* names the directory.                                                     *)
(***************************************************************************)
EXTENDS IpaCli, TLC

Empty == 0
Nameless == 1       \* Frameworks/.framework/
Nested == 2         \* Frameworks/A/B.framework/A/B
FwBin == 3          \* Frameworks/F.framework/F
Plist == 4
Main == 5

MCExecOf == [d \in {"plist", "emptyexec", "bin"} |->
                IF d = "plist" THEN Main ELSE IF d = "emptyexec" THEN Empty ELSE NoExec]
MCFwBinary == ("F.framework" :> FwBin) @@ (".framework" :> Nameless) @@ ("A/B.framework" :> Nested)

E(a, f, d) == [name |-> InApp(a, f), data |-> d, ok |-> TRUE]
Bad(a, f) == [name |-> InApp(a, f), data |-> "bin", ok |-> FALSE]

\* An archive as another tool writes it: a directory entry (never read, so it
\* may be unreadable) and a name that occurs twice.
Foreign == Zip(<<Bad(2, Empty), E(2, Main, "plist"), E(2, Plist, "plist"), E(2, Main, "bin")>>)
\* An empty executable name, and a file outside any .app.
NoExecName == Zip(<<E(2, Plist, "emptyexec"), E(0, Main, "bin")>>)
\* An entry that cannot be read.
Damaged == Zip(<<E(2, Plist, "plist"), Bad(2, Main)>>)

MCInitialDisks ==
    {("a.ipa" :> Foreign) @@ ("b.ipa" :> Missing),
     ("a.ipa" :> NoExecName) @@ ("b.ipa" :> Damaged)}

MCArgNames == {InApp(2, Main), InApp(2, Plist), InApp(1, Main), InApp(0, Empty)}
=============================================================================
