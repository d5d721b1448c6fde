--------------------------- MODULE MCOtoolFiles ----------------------------
(***************************************************************************)
(* Every thin file; every fat file of up to two slices of six of the        *)
(* architectures, whatever they hold; fat files of three slices; and two    *)
(* files on one command line.                                               *)
(***************************************************************************)
EXTENDS OtoolFiles

Fat(slices) == [kind |-> "fat", slices |-> slices]

Some == {s \in Slice : s.arch \notin {"armv7", "arm64_32"}}

Holding(archs, what) == {s \in Slice : s.arch \in archs /\ s.holds = what}

Of(n, slices) == {Fat(f) : f \in [1..n -> slices]}

Thin64 == [kind |-> "thin", slices |-> <<[arch |-> "x86_64", holds |-> "macho"]>>]

MCInputs ==
    {<<[kind |-> "thin", slices |-> <<s>>]>> : s \in Slice}
    \cup {<<f>> : f \in Of(0, Some) \cup Of(1, Some) \cup Of(2, Some)}
    \cup {<<f>> : f \in Of(3, Holding({"arm64", "arm64v8", "arm64e", "x86_64"}, "macho")
                              \cup Holding({"i386"}, "neither"))}
    \cup {<<f, Thin64>> : f \in Of(2, Holding({"arm64", "x86_64"}, "macho"))}
    \cup {<<f, g>> : f, g \in Of(2, Holding({"arm64", "x86_64"}, "macho")
                                    \cup Holding({"arm64"}, "archive"))}
=============================================================================
