-------------------------- MODULE MCChainedFixups --------------------------
(***************************************************************************)
(* A file of seven units (three pointers and a half) and two pages, a       *)
(* segment of two pages with one chain each, one whose page has two chains  *)
(* listed out of line, the first of them with no end, and one that starts   *)
(* past the first page; every group of pointer formats.                     *)
(***************************************************************************)
EXTENDS ChainedFixups

None == [none |-> TRUE, multi |-> TRUE, start |-> 0]
At(start) == [none |-> FALSE, multi |-> FALSE, start |-> start]
Multi(start) == [none |-> FALSE, multi |-> TRUE, start |-> start]

Segment(format, offset, pages, table) ==
    [format |-> format, offset |-> offset, pages |-> pages, table |-> table]

MCImports == <<"_objc_retain">>

W(b63, b62, next, value) == [b63 |-> b63, b62 |-> b62, next |-> next, value |-> value]

MCWords == {W(FALSE, FALSE, 0, 1), W(FALSE, FALSE, 1, 0), W(TRUE, FALSE, 1, 0),
            W(FALSE, TRUE, 0, 1), W(TRUE, TRUE, 1, 1)}

MCSegments ==
    {Segment("64", 0, 2, <<At(0), At(1)>>),
     Segment("64_OFFSET", 1, 1, <<Multi(1), At(2), Multi(0), At(1)>>),
     Segment("ARM64E", 0, 2, <<Multi(2), None, At(3)>>),
     Segment("ARM64E_KERNEL", 2, 1, <<At(0)>>),
     Segment("UNKNOWN", 0, 1, <<At(1)>>)}
=============================================================================
