----------------------------- MODULE ExportTrie -----------------------------
(***************************************************************************)
(* parse_exports_trie (crates/macho_core/src/dyld.rs): the walk of an       *)
(* export trie.  A node is wherever an edge says that one is, so a trie may *)
(* lead back to itself or out of the data; the walk is bounded by depth.    *)
(***************************************************************************)
EXTENDS Integers, SequencesExt

CONSTANTS
    MaxDepth,       \* 64
    Tries           \* the tries that are read

\* A trie is a sequence of nodes.  Of each are given what it exports, how much of it
\* is there, and its children, with the label of the edge and the node it leads to:
\* Outside is an offset past the data, Unreadable one (or a label) that is cut off.
Outside == 0
Unreadable == -1
Terminals == {"none", "export", "stub", "reexport"}
\* With "size" or "terminal" the data ends in these; with "count" before the children.
NodeCuts == {"none", "size", "terminal", "count"}

ASSUME MaxDepthAssumption == MaxDepth \in Nat

ASSUME TriesAssumption ==
    \A t \in Tries :
        /\ t \in Seq(Range(t))
        /\ \A n \in DOMAIN t :
             /\ t[n].terminal \in Terminals /\ t[n].cut \in NodeCuts
             /\ t[n].children \in Seq(Range(t[n].children))
             /\ \A c \in Range(t[n].children) :
                  c.to \in {Outside, Unreadable} \cup DOMAIN t /\ c.label \in Seq(Nat)

VARIABLES
    trie,
    walk,           \* the calls of parse_export_node that are open: node, prefix, next child
    exports,        \* out
    trieEnd         \* "reading", "ok" or "error"; "off" if no trie is read

exportVars == <<trie, walk, exports, trieEnd>>

Frame(node, prefix) == [node |-> node, prefix |-> prefix, child |-> 0]

ExportInit ==
    /\ trie \in Tries
    /\ walk = <<Frame(IF trie = <<>> THEN Outside ELSE 1, <<>>)>>
    /\ exports = <<>>
    /\ trieEnd = "reading"

ExportOff == trie = <<>> /\ walk = <<>> /\ exports = <<>> /\ trieEnd = "off"

Top == Last(walk)

\* The depth of the call is Len(walk) - 1.
\* A faulty variant: one level too few.
SkippedEarly == Len(walk) - 1 >= MaxDepth \/ Top.node = Outside

\* A faulty variant: one level too many.
SkippedLate == Len(walk) - 2 > MaxDepth \/ Top.node = Outside

Skipped == Len(walk) - 1 > MaxDepth \/ Top.node = Outside

Node == trie[Top.node]

Walking == trieEnd = "reading" /\ walk # <<>>

\* The children that are there to be read.
ChildCount == IF Node.cut = "count" THEN 0 ELSE Len(Node.children)

\* What the root exports has no name, and is not listed.
Exported(terminal, prefix) == terminal # "none" /\ prefix # <<>>

\* The call looks at the node: child is 0 until then.
Visit ==
    /\ Walking /\ Top.child = 0 /\ ~Skipped
    /\ Node.cut \notin {"size", "terminal"}
    /\ exports' = IF Exported(Node.terminal, Top.prefix)
                  THEN Append(exports, [name |-> Top.prefix, kind |-> Node.terminal])
                  ELSE exports
    /\ walk' = [walk EXCEPT ![Len(walk)].child = 1]
    /\ UNCHANGED <<trie, trieEnd>>

Child == Node.children[Top.child]

\* A faulty variant: a child outside of the data is met again and again.
DescendInPlace ==
    /\ Walking /\ ~Skipped /\ Top.child \in 1..ChildCount
    /\ Child.to # Unreadable
    /\ walk' = Append(IF Child.to = Outside THEN walk ELSE [walk EXCEPT ![Len(walk)].child = @ + 1],
                      Frame(Child.to, Top.prefix \o Child.label))
    /\ UNCHANGED <<trie, exports, trieEnd>>

Descend ==
    /\ Walking /\ ~Skipped /\ Top.child \in 1..ChildCount
    /\ Child.to # Unreadable
    /\ walk' = Append([walk EXCEPT ![Len(walk)].child = @ + 1],
                      Frame(Child.to, Top.prefix \o Child.label))
    /\ UNCHANGED <<trie, exports, trieEnd>>

Return ==
    /\ Walking /\ (~Skipped => Top.child > ChildCount)
    /\ walk' = Front(walk)
    /\ UNCHANGED <<trie, exports, trieEnd>>

\* One node that is cut off fails the whole trie; what was found is dropped.
CutOff ==
    /\ Walking /\ ~Skipped
    /\ \/ Top.child = 0 /\ Node.cut \in {"size", "terminal"}
       \/ Top.child \in 1..ChildCount /\ Child.to = Unreadable
    /\ exports' = <<>>
    /\ trieEnd' = "error"
    /\ UNCHANGED <<trie, walk>>

\* The byte order of names, which are sequences of labels: after what they share
\* the one ends, or has the lower byte.
Before(m, n) ==
    \E k \in 0..Len(m) :
        /\ k < Len(n) /\ \A j \in 1..k : m[j] = n[j]
        /\ k = Len(m) \/ m[k + 1] < n[k + 1]

\* The walk is over; the exports are put in order by a stable sort.
Sort ==
    /\ trieEnd = "reading" /\ walk = <<>>
    /\ LET upTo(k) == {j \in DOMAIN exports : \/ Before(exports[j].name, exports[k].name)
                                              \/ exports[j].name = exports[k].name /\ j <= k}
           at(i) == CHOOSE k \in DOMAIN exports : Cardinality(upTo(k)) = i
       IN  exports' = [i \in DOMAIN exports |-> exports[at(i)]]
    /\ trieEnd' = "ok"
    /\ UNCHANGED <<trie, walk>>

ExportNext == Visit \/ Descend \/ Return \/ CutOff \/ Sort

ExportSpec == ExportInit /\ [][ExportNext]_exportVars /\ WF_exportVars(ExportNext)

-----------------------------------------------------------------------------
(* Properties.                                                              *)

\* However the nodes lead back to each other, no more calls are open than the limit
\* allows: one at the limit, which looks at its node, and one past it, which returns
\* at once (dyld.rs:137).
DepthIsBounded == Len(walk) <= MaxDepth + 2

\* The ways down from the root, by the number of the child at each node.
Fan == Max({0} \cup {Len(trie[n].children) : n \in DOMAIN trie})

Ways == UNION {[1..n -> 1..Fan] : n \in 0..MaxDepth}

\* Where a way leads and the labels that it passes; nowhere if it leaves the trie.
EndOf(way) ==
    LET on(from, k) ==
            IF from.node \in DOMAIN trie /\ k \in DOMAIN trie[from.node].children
               /\ trie[from.node].cut = "none"
            THEN Frame(trie[from.node].children[k].to, from.prefix \o trie[from.node].children[k].label)
            ELSE Frame(Outside, <<>>)
        after[k \in 0..Len(way)] == IF k = 0 THEN Frame(1, <<>>) ELSE on(after[k - 1], way[k])
    IN  after[Len(way)]

Met == {way \in Ways : EndOf(way).node \in DOMAIN trie}

Broken(node) ==
    \/ node.cut \in {"size", "terminal"}
    \/ node.cut = "none" /\ \E c \in Range(node.children) : c.to = Unreadable

\* A symbol is listed once for each way of at most MaxDepth edges that leads from the
\* root to a node that exports it, under the labels on the way, in order; and there is
\* a list unless a node on such a way is cut off, which loses all of it
\* (parse_export_node and its `?`, dyld.rs:141-182).
ListsEveryWay ==
    /\ trieEnd = "ok" =>
        /\ \A e \in Range(exports) \cup {[name |-> EndOf(w).prefix, kind |-> trie[EndOf(w).node].terminal] : w \in Met} :
             Cardinality({k \in DOMAIN exports : exports[k] = e})
               = Cardinality({w \in Met : /\ EndOf(w).prefix = e.name /\ e.name # <<>>
                                          /\ trie[EndOf(w).node].terminal = e.kind /\ e.kind # "none"})
        /\ \A j, k \in DOMAIN exports : j < k => ~Before(exports[k].name, exports[j].name)
    /\ trieEnd \in {"ok", "error"} =>
        (trieEnd = "error" <=> \E w \in Met : Broken(trie[EndOf(w).node]))

\* Every trie is read to an end, however its nodes lead back to each other.
WalkEnds == (trieEnd = "reading") ~> (trieEnd \in {"ok", "error"})
=============================================================================
