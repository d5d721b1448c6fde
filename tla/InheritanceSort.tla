-------------------------- MODULE InheritanceSort --------------------------
(***************************************************************************)
(* sort_by_inheritance (crates/apple_metadata/src/dump.rs), the order in    *)
(* which class-dump -I lists classes: passes over the classes that remain,  *)
(* in name order, each of which takes the classes whose superclass is out   *)
(* of the way; a pass that takes none ends it.                              *)
(***************************************************************************)
EXTENDS Integers, SequencesExt

CONSTANTS
    Names,          \* class names, as their rank in byte order
    NSObject,       \* "NSObject"
    NoSuper,        \* superclass: None
    MaxClasses      \* bound: the classes of one dump

ASSUME NamesAssumption == Names \subseteq Nat /\ NSObject \in Nat /\ NoSuper \notin Nat
ASSUME MaxClassesAssumption == MaxClasses \in Nat

\* A superclass need not be in the image.
Class == [name : Names, super : Names \cup {NSObject, NoSuper}]

VARIABLES
    classes,        \* the argument, once it is in name order
    remaining,
    out,
    i,              \* index into remaining, from 1
    progressed,
    done

vars == <<classes, remaining, out, i, progressed, done>>

\* The sort by name is stable: a list that is in order stands for all the
\* lists that it is the order of.
InNameOrder(cs) == \A k \in 1..(Len(cs) - 1) : cs[k].name <= cs[k + 1].name

Init ==
    /\ classes \in {cs \in UNION {[1..n -> Class] : n \in 0..MaxClasses} : InNameOrder(cs)}
    /\ remaining = classes
    /\ out = <<>>
    /\ i = 1
    /\ progressed = FALSE
    /\ done = FALSE

-----------------------------------------------------------------------------

Named(cs, name) == \E k \in DOMAIN cs : cs[k].name = name

\* A faulty variant: a class is ready once its superclass is not waiting, which
\* forgets the superclasses that are listed and have a namesake that waits.
SuperNotWaiting(c) ==
    \/ c.super \in {NoSuper, NSObject}
    \/ ~Named(remaining, c.super)

SuperOk(c) ==
    \/ c.super \in {NoSuper, NSObject}
    \/ Named(out, c.super)
    \/ ~Named(remaining, c.super)

InPass == ~done /\ i <= Len(remaining)

\* A faulty variant: the index moves on past the class that slid into place.
TakeAndStep ==
    /\ InPass
    /\ SuperOk(remaining[i])
    /\ out' = Append(out, remaining[i])
    /\ remaining' = RemoveAt(remaining, i)
    /\ progressed' = TRUE
    /\ i' = i + 1
    /\ UNCHANGED <<classes, done>>

\* The next class slides into the place of the one that is taken.
Take ==
    /\ InPass
    /\ SuperOk(remaining[i])
    /\ out' = Append(out, remaining[i])
    /\ remaining' = RemoveAt(remaining, i)
    /\ progressed' = TRUE
    /\ UNCHANGED <<classes, i, done>>

Leave ==
    /\ InPass
    /\ ~SuperOk(remaining[i])
    /\ i' = i + 1
    /\ UNCHANGED <<classes, remaining, out, progressed, done>>

PassEnds == ~done /\ i > Len(remaining)

\* A faulty variant: progressed is not reset for the next pass.
NextPassProgressed ==
    /\ PassEnds
    /\ remaining # <<>>
    /\ progressed
    /\ i' = 1
    /\ UNCHANGED <<classes, remaining, out, progressed, done>>

NextPass ==
    /\ PassEnds
    /\ remaining # <<>>
    /\ progressed
    /\ i' = 1
    /\ progressed' = FALSE
    /\ UNCHANGED <<classes, remaining, out, done>>

\* A faulty variant: the classes that no pass can take are dropped.
GiveUp ==
    /\ PassEnds
    /\ remaining # <<>> => ~progressed
    /\ remaining' = <<>>
    /\ done' = TRUE
    /\ UNCHANGED <<classes, out, i, progressed>>

\* Nothing remains, or a pass took nothing: what remains is listed as it is.
Finish ==
    /\ PassEnds
    /\ remaining # <<>> => ~progressed
    /\ out' = out \o remaining
    /\ remaining' = <<>>
    /\ done' = TRUE
    /\ UNCHANGED <<classes, i, progressed>>

Next == Take \/ Leave \/ NextPass \/ Finish

\* A loop: it goes on.
Spec == Init /\ [][Next]_vars /\ WF_vars(Next)

-----------------------------------------------------------------------------
(* Properties.                                                              *)

TypeOK ==
    /\ classes \in Seq(Class)
    /\ remaining \in Seq(Class)
    /\ out \in Seq(Class)
    /\ i \in Nat \ {0}
    /\ ~done => i <= Len(remaining) + 1
    /\ progressed \in BOOLEAN
    /\ done \in BOOLEAN

\* Every class of the image is listed, as often as it occurs in it.
Occurrences(cs, c) == Cardinality({k \in DOMAIN cs : cs[k] = c})

NothingLost ==
    /\ Len(out) + Len(remaining) = Len(classes)
    /\ \A c \in Range(classes) :
        Occurrences(out, c) + Occurrences(remaining, c) = Occurrences(classes, c)

\* Whose superclass is waited for: one that is in the image and not NSObject.
Waits(c) == c.super \notin {NoSuper, NSObject} /\ Named(classes, c.super)

\* The classes whose line of superclasses never gets out of a cycle.
Stuck ==
    UNION {S \in SUBSET Range(classes) :
             \A c \in S : Waits(c) /\ \A d \in Range(classes) : d.name = c.super => d \in S}

\* Parents come before children: a class is listed after one that has the name
\* of its superclass, if the image has one, and only classes that inherit from
\* themselves are not, and they are listed after all the others.
ParentsFirst ==
    \A k \in DOMAIN out :
        IF out[k] \in Stuck
        THEN done /\ \A m \in k..Len(out) : out[m] \in Stuck
        ELSE Waits(out[k]) => \E m \in 1..(k - 1) : out[m].name = out[k].super

\* The reference for images where a name is one class.  A class waits one more
\* pass for every step up its line of superclasses where the name grows; the
\* list is in the order of these numbers, and by name where they are equal.
Super(n) ==
    LET c == CHOOSE c \in Range(classes) : c.name = n
    IN  IF Waits(c) THEN c.super ELSE NoSuper

Ancestors(n) ==
    LET up[k \in 0..MaxClasses] ==
            IF k = 0 THEN n ELSE IF up[k - 1] = NoSuper THEN NoSuper ELSE Super(up[k - 1])
    IN  up

PassOf(n) ==
    LET up == Ancestors(n)
    IN  IF up[MaxClasses] # NoSuper THEN MaxClasses + 1
        ELSE Cardinality({k \in 1..MaxClasses : up[k] # NoSuper /\ up[k] > up[k - 1]})

ListedByPassThenName ==
    IsInjective([k \in DOMAIN classes |-> classes[k].name]) =>
        \A k \in DOMAIN out : \A m \in 1..(k - 1) :
            \/ PassOf(out[m].name) < PassOf(out[k].name)
            \/ PassOf(out[m].name) = PassOf(out[k].name) /\ out[m].name < out[k].name

\* The passes come to an end, whatever the classes inherit from.
SortEnds == <>done

\* "parents before children when both present" (dump.rs:207), of the images in
\* which that can be: no class inherits from itself.
ParentsBeforeChildren ==
    LET above(S) == {d \in Range(classes) : \E c \in S : c.super = d.name}
        acyclic == \A S \in SUBSET Range(classes) : S \subseteq above(S) => S = {}
    IN  (done /\ acyclic) =>
            \A k \in DOMAIN out :
                Named(classes, out[k].super) => \E m \in 1..(k - 1) : out[m].name = out[k].super
=============================================================================
