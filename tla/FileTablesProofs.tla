-------------------------- MODULE FileTablesProofs --------------------------
(***************************************************************************)
(* Theorems about the readers of tables in a file, for every file: export   *)
(* tries, ar archives, symbol tables and code signatures.                   *)
(***************************************************************************)
EXTENDS ExportTrie, ArArchive, SymbolTable, CodeSignature,
        SequenceTheorems, FiniteSetTheorems, WellFoundedInduction, TLAPS

\* A sequence, of whatever elements.
Listed(s) == \E S : s \in Seq(S)

\* What is known of a sequence that gets one more element (Vec::push).
LEMMA Pushed ==
    ASSUME NEW s, Listed(s), NEW e
    PROVE  /\ Listed(Append(s, e))
           /\ Len(Append(s, e)) = Len(s) + 1
           /\ Len(s) \in Nat
           /\ Append(s, e)[Len(s) + 1] = e
           /\ \A k \in 1..Len(s) : Append(s, e)[k] = s[k]
           /\ DOMAIN s = 1..Len(s)
           /\ DOMAIN Append(s, e) = 1..(Len(s) + 1)
<1>1. PICK S : s \in Seq(S)
    BY DEF Listed
<1>2. s \in Seq(S \cup {e}) /\ e \in S \cup {e}
    BY <1>1
<1> HIDE DEF Listed
<1>3. Append(s, e) \in Seq(S \cup {e})
    BY <1>2
<1>4. Listed(Append(s, e))
    BY <1>3 DEF Listed
<1>5. /\ Len(Append(s, e)) = Len(s) + 1 /\ Len(s) \in Nat
      /\ Append(s, e)[Len(s) + 1] = e
      /\ \A k \in 1..Len(s) : Append(s, e)[k] = s[k]
      /\ DOMAIN s = 1..Len(s)
      /\ DOMAIN Append(s, e) = 1..(Len(s) + 1)
    BY <1>2
<1> QED
    BY <1>4, <1>5

\* The empty list.
LEMMA EmptyIsListed == Listed(<<>>) /\ DOMAIN <<>> = {} /\ Len(<<>>) = 0
<1>1. <<>> \in Seq({})
    OBVIOUS
<1> QED
    BY <1>1 DEF Listed

\* A set of numbers that is not empty has a least one.
LEMMA LeastIsThere ==
    ASSUME NEW S \in SUBSET Nat, S # {}
    PROVE  Min(S) \in S /\ \A y \in S : Min(S) <= y
<1> DEFINE R == OpToRel(<, Nat)
<1>1. IsWellFoundedOn(R, Nat)
    BY NatLessThanWellFounded
<1>2. \A x, y \in Nat : x < y => <<x, y>> \in R
    BY DEF OpToRel
<1> HIDE DEF R
<1>3. PICK x \in S : \A y \in S : ~(<<y, x>> \in R)
    BY <1>1, WFMin
<1>4. \A y \in S : ~(y < x)
    BY <1>2, <1>3
<1>5. \A y \in S : y \in Nat
    OBVIOUS
<1>6. x \in S /\ \A y \in S : x <= y
    BY <1>3, <1>4, <1>5
<1> QED
    BY <1>6 DEF Min

-----------------------------------------------------------------------------
(* Export tries.                                                            *)

\* The calls that are open are a stack that is never higher than the limit.
StackInv == Listed(walk) /\ DepthIsBounded

\* The start of the walk: one call is open.
LEMMA StackInit == ExportInit => StackInv
<1> SUFFICES ASSUME ExportInit PROVE StackInv
    OBVIOUS
<1> DEFINE f == Frame(IF trie = <<>> THEN Outside ELSE 1, <<>>)
<1>1. walk = <<f>>
    BY DEF ExportInit
<1> HIDE DEF f
<1>2. walk \in Seq({f}) /\ Len(walk) = 1
    BY <1>1
<1> QED
    BY <1>2, MaxDepthAssumption DEF StackInv, Listed, DepthIsBounded

\* A call that changes how far it has come leaves the stack as high as it is.
LEMMA Marked ==
    ASSUME NEW w, Listed(w), NEW n \in 1..Len(w), NEW v
    PROVE  Listed([w EXCEPT ![n] = v]) /\ Len([w EXCEPT ![n] = v]) = Len(w)
<1>1. PICK S : w \in Seq(S)
    BY DEF Listed
<1>2. w \in Seq(S \cup {v}) /\ v \in S \cup {v}
    BY <1>1
<1>3. [w EXCEPT ![n] = v] \in Seq(S \cup {v}) /\ Len([w EXCEPT ![n] = v]) = Len(w)
    BY <1>2, ExceptSeq
<1> QED
    BY <1>3 DEF Listed

\* Each step of the walk keeps the stack within the limit: a call is opened only from
\* one that is not past it (the test of parse_export_node).
LEMMA StackStep == StackInv /\ [ExportNext]_exportVars => StackInv'
<1> SUFFICES ASSUME StackInv, [ExportNext]_exportVars
             PROVE  StackInv'
    OBVIOUS
<1>0. Listed(walk) /\ Len(walk) <= MaxDepth + 2 /\ MaxDepth \in Nat
    BY MaxDepthAssumption DEF StackInv, DepthIsBounded
<1>00. Len(walk) \in Nat
    BY <1>0, Pushed
<1>01. Walking => Len(walk) \in 1..Len(walk)
    <2>1. PICK S : walk \in Seq(S)
        BY <1>0 DEF Listed
    <2> QED
        BY <2>1 DEF Walking
<1>1. CASE Visit
    <2> DEFINE v == [walk[Len(walk)] EXCEPT !.child = 1]
    <2>1. walk' = [walk EXCEPT ![Len(walk)] = v]
        BY <1>1 DEF Visit
    <2> HIDE DEF v
    <2>2. Listed(walk') /\ Len(walk') = Len(walk)
        <3>1. Len(walk) \in 1..Len(walk)
            BY <1>01, <1>1 DEF Visit
        <3>2. /\ Listed([walk EXCEPT ![Len(walk)] = v])
              /\ Len([walk EXCEPT ![Len(walk)] = v]) = Len(walk)
            BY <1>0, <3>1, Marked
        <3> QED
            BY <2>1, <3>2
    <2> QED
        BY <1>0, <2>2 DEF StackInv, DepthIsBounded
<1>2. CASE Descend
    <2> DEFINE v == [walk[Len(walk)] EXCEPT !.child = walk[Len(walk)].child + 1]
               w == [walk EXCEPT ![Len(walk)] = v]
               f == Frame(Child.to, Top.prefix \o Child.label)
    <2>1. walk' = Append(w, f)
        BY <1>2 DEF Descend
    <2> HIDE DEF v
    <2>2. Listed(w) /\ Len(w) = Len(walk)
        BY <1>0, <1>01, <1>2, Marked DEF Descend
    <2> HIDE DEF w, f
    <2>3. Listed(walk') /\ Len(walk') = Len(walk) + 1
        BY <2>1, <2>2, Pushed
    <2>4. Len(walk) - 1 <= MaxDepth
        BY <1>0, <1>00, <1>2 DEF Descend, Skipped
    <2>5. Len(walk') <= MaxDepth + 2
        BY <1>0, <1>00, <2>3, <2>4
    <2> QED
        BY <2>3, <2>5 DEF StackInv, DepthIsBounded
<1>3. CASE Return
    <2>1. walk # <<>> /\ walk' = SubSeq(walk, 1, Len(walk) - 1)
        BY <1>3 DEF Return, Walking, Front
    <2>2. PICK S : walk \in Seq(S)
        BY <1>0 DEF Listed
    <2>3. Len(walk) \in Nat \ {0}
        BY <2>1, <2>2
    <2>4. walk' \in Seq(S) /\ Len(walk') = Len(walk) - 1
        <3>1. 1 \in Int /\ Len(walk) - 1 \in Int /\ \A i \in 1..(Len(walk) - 1) : walk[i] \in S
            BY <2>2, <2>3
        <3>2. /\ SubSeq(walk, 1, Len(walk) - 1) \in Seq(S)
              /\ Len(SubSeq(walk, 1, Len(walk) - 1))
                    = IF 1 <= Len(walk) - 1 THEN Len(walk) - 1 - 1 + 1 ELSE 0
            BY <3>1, SubSeqProperties
        <3> DEFINE n == Len(walk)
                   t == SubSeq(walk, 1, Len(walk) - 1)
        <3>3. walk' = t /\ t \in Seq(S) /\ n \in Nat \ {0}
              /\ Len(t) = IF 1 <= n - 1 THEN n - 1 - 1 + 1 ELSE 0
            BY <2>1, <2>3, <3>2
        <3> HIDE DEF n, t
        <3>4. Len(t) = n - 1
            BY <3>3
        <3> QED
            BY <3>3, <3>4 DEF n
    <2>5. Len(walk') <= MaxDepth + 2
        BY <1>0, <2>3, <2>4
    <2> QED
        BY <2>4, <2>5 DEF StackInv, DepthIsBounded, Listed
<1>4. CASE UNCHANGED walk
    BY <1>4 DEF StackInv, DepthIsBounded
<1> QED
    BY <1>1, <1>2, <1>3, <1>4 DEF ExportNext, CutOff, Sort, exportVars

\* Whatever the nodes of an export trie lead to, themselves included, no more calls of
\* parse_export_node are open than its limit allows, for every limit and every trie.
THEOREM DepthAlwaysBounded == ExportSpec => []DepthIsBounded
<1>1. StackInv => DepthIsBounded
    BY DEF StackInv
<1> QED
    BY StackInit, StackStep, <1>1, PTL DEF ExportSpec

\* An edge that leads on from where a way has come: its node can be read so far.
Goes(t, from, k) ==
    /\ from.node \in DOMAIN t /\ k \in DOMAIN t[from.node].children
    /\ t[from.node].cut = "none"

\* Fan, for any trie.
FanIn(t) == Max({0} \cup {Len(t[n].children) : n \in DOMAIN t})

\* EndOf, for any trie.
EndIn(t, way) ==
    LET on(from, k) ==
            IF from.node \in DOMAIN t /\ k \in DOMAIN t[from.node].children
               /\ t[from.node].cut = "none"
            THEN Frame(t[from.node].children[k].to, from.prefix \o t[from.node].children[k].label)
            ELSE Frame(Outside, <<>>)
        after[k \in 0..Len(way)] == IF k = 0 THEN Frame(1, <<>>) ELSE on(after[k - 1], way[k])
    IN  after[Len(way)]

\* Met, for any trie.
MetIn(t) == {way \in UNION {[1..n -> 1..FanIn(t)] : n \in 0..MaxDepth} : EndIn(t, way).node \in DOMAIN t}

\* Of calls that have come to the children c: the way down to the i-th of them.  All but
\* the last are below the child that comes before.
PathTo(c, i) == [j \in 1..(i - 1) |-> c[j] - 1]

\* A way that begins with the way to the i-th call.
Along(c, i, v) == Len(v) >= i - 1 /\ \A j \in 1..(i - 1) : v[j] = c[j] - 1

\* A way that the i-th of n calls has looked at, or one that goes down by a child which it
\* is done with.
SeenAt(c, n, i, v) ==
    /\ Along(c, i, v)
    /\ \/ Len(v) = i - 1 /\ c[i] > 0
       \/ Len(v) >= i /\ v[i] < IF i = n THEN c[i] ELSE c[i] - 1

\* What n calls have seen; once the root has returned that is all.
Seen(c, n, v) == n = 0 \/ \E i \in 1..n : SeenAt(c, n, i, v)

\* How far each call of a walk has come.
Kids(wk) == [i \in 1..Len(wk) |-> wk[i].child]

\* A way to an export, and what is listed of it.
IsExport(t, w) == Exported(t[EndIn(t, w).node].terminal, EndIn(t, w).prefix)

ExportOf(t, w) == [name |-> EndIn(t, w).prefix, kind |-> t[EndIn(t, w).node].terminal]

\* The exports are those of the ways of S, one for each.
Lists(t, es, S) ==
    \E f \in [1..Len(es) -> S] :
        /\ \A j, k \in 1..Len(es) : f[j] = f[k] => j = k
        /\ \A w \in S : \E k \in 1..Len(es) : f[k] = w
        /\ \A k \in 1..Len(es) : es[k] = ExportOf(t, f[k])

\* The i-th of n calls, with the frame f, is at the end of the way to it; it has not looked
\* at its node unless it may, and those under which another is open are below a child.
CallOK(t, c, n, i, f) ==
    /\ c[i] \in Nat
    /\ IF f.node = Outside THEN EndIn(t, PathTo(c, i)).node \notin DOMAIN t \cup {Unreadable}
       ELSE f.node \in DOMAIN t /\ f.node = EndIn(t, PathTo(c, i)).node /\ f.prefix = EndIn(t, PathTo(c, i)).prefix
    /\ c[i] > 0 => /\ i - 1 <= MaxDepth /\ f.node # Outside
                   /\ t[f.node].cut \notin {"size", "terminal"}
    /\ i < n => c[i] > 1 /\ Goes(t, f, c[i] - 1)

\* The node at the end of a way.
NodeOf(t, w) == t[EndIn(t, w).node]

\* A walk whose calls are wk.
WalkOK(t, wk) == \A i \in 1..Len(wk) : CallOK(t, Kids(wk), Len(wk), i, wk[i])

\* What the calls of a walk have seen.
SeenIn(wk, v) == Seen(Kids(wk), Len(wk), v)

\* None of the nodes that it has seen is cut off as far as it was read.
NoneCut(t, wk) ==
    \A w \in MetIn(t) :
        /\ SeenIn(wk, w) => NodeOf(t, w).cut \notin {"size", "terminal"}
        /\ NodeOf(t, w).cut = "none" =>
             \A k \in DOMAIN NodeOf(t, w).children :
                NodeOf(t, w).children[k].to = Unreadable => ~SeenIn(wk, Append(w, k))

\* The ways to exports.
Exporting(t) == {w \in MetIn(t) : IsExport(t, w)}

\* The exports are those on the ways that have been seen, and nothing was in the way.
WalkedSoFar(t, wk, es) ==
    WalkOK(t, wk) /\ NoneCut(t, wk) /\ Lists(t, es, {w \in Exporting(t) : SeenIn(wk, w)})

\* The exports are in the order of their names.
InOrder(es) == \A j, k \in 1..Len(es) : j < k => ~Before(es[k].name, es[j].name)

\* A node that is met is cut off.
BrokenIn(t) == \E w \in MetIn(t) : Broken(NodeOf(t, w))

\* The calls that are open are all frames.
AreFrames(wk) == \A i \in 1..Len(wk) : DOMAIN wk[i] = {"node", "prefix", "child"}

\* While a trie is read the ways that were seen are those before the ones that lie ahead,
\* and each that leads to an export is listed; an end of the reading says what it should.
TrieInv ==
    /\ StackInv /\ trie \in Tries /\ Listed(exports) /\ AreFrames(walk)
    /\ trieEnd \in {"reading", "ok", "error"}
    /\ trieEnd = "reading" => WalkedSoFar(trie, walk, exports)
    /\ trieEnd = "ok" => Lists(trie, exports, Exporting(trie)) /\ InOrder(exports) /\ ~BrokenIn(trie)
    /\ trieEnd = "error" => BrokenIn(trie)

\* Induction, for a set of numbers.
LEMMA AllNumbers ==
    ASSUME NEW S \in SUBSET Nat, 0 \in S, \A n \in S : n + 1 \in S
    PROVE  \A n \in Nat : n \in S
<1> DEFINE rest == Nat \ S
           m == Min(rest)
<1> SUFFICES ASSUME rest # {} PROVE FALSE
    OBVIOUS
<1>1. m \in rest /\ \A y \in rest : m <= y
  <2>1. rest \in SUBSET Nat
      OBVIOUS
  <2> HIDE DEF rest
  <2> QED
      BY <2>1, LeastIsThere
<1> HIDE DEF m
<1>2. m \in Nat \ {0}
    BY <1>1
<1>3. m - 1 \in S
    BY <1>1, <1>2
<1>4. (m - 1) + 1 \in S /\ (m - 1) + 1 = m
    BY <1>2, <1>3
<1> QED
    BY <1>1, <1>4

\* Where one edge leads, and where the first k edges of a way do.
On(t, from, k) ==
    IF Goes(t, from, k)
    THEN Frame(t[from.node].children[k].to, from.prefix \o t[from.node].children[k].label)
    ELSE Frame(Outside, <<>>)

\* The stops of a way.
AreStops(t, f, way, n) == f = [k \in 0..n |-> IF k = 0 THEN Frame(1, <<>>) ELSE On(t, f[k - 1], way[k])]

StopsOf(t, way) == CHOOSE f : AreStops(t, f, way, Len(way))

Stop(t, way, k) == StopsOf(t, way)[k]

\* The recursive function of EndOf exists, and goes on by one edge.
LEMMA StopsAreThere ==
    ASSUME NEW t, NEW way, Len(way) \in Nat
    PROVE  /\ EndIn(t, way) = Stop(t, way, Len(way))
           /\ Stop(t, way, 0) = Frame(1, <<>>)
           /\ \A k \in 1..Len(way) : Stop(t, way, k) = On(t, Stop(t, way, k - 1), way[k])
<1> DEFINE N == {m \in Nat : \E f : AreStops(t, f, way, m)}
<1>1. 0 \in N
  <2> DEFINE f == [k \in 0..0 |-> Frame(1, <<>>)]
  <2>1. \A k \in 0..0 : k = 0
      OBVIOUS
  <2>2. f = [k \in 0..0 |-> IF k = 0 THEN Frame(1, <<>>) ELSE On(t, f[k - 1], way[k])]
      BY <2>1
  <2> HIDE DEF f
  <2> QED
      BY <2>2 DEF AreStops
<1>2. ASSUME NEW m \in N
      PROVE  m + 1 \in N
  <2>1. m \in Nat
      OBVIOUS
  <2>2. PICK f : AreStops(t, f, way, m)
      BY <2>1
  <2> DEFINE g == [k \in 0..(m + 1) |-> IF k = m + 1 THEN On(t, f[m], way[m + 1]) ELSE f[k]]
             h == [k \in 0..(m + 1) |-> IF k = 0 THEN Frame(1, <<>>) ELSE On(t, g[k - 1], way[k])]
  <2>3. ASSUME NEW k \in 0..(m + 1)
        PROVE  g[k] = h[k]
    <3>1. CASE k = m + 1
      <4>1. k # 0 /\ k - 1 = m /\ m \in 0..(m + 1) /\ m # m + 1
          BY <2>1, <3>1
      <4>2. g[k - 1] = f[m]
          BY <4>1
      <4> QED
          BY <3>1, <4>1, <4>2
    <3>2. CASE k # m + 1
      <4>1. k \in 0..m /\ (k # 0 => k - 1 \in 0..(m + 1) /\ k - 1 # m + 1)
          BY <2>1, <3>2
      <4>2. f[k] = IF k = 0 THEN Frame(1, <<>>) ELSE On(t, f[k - 1], way[k])
          BY <2>2, <4>1 DEF AreStops
      <4>3. k # 0 => g[k - 1] = f[k - 1]
          BY <4>1
      <4> QED
          BY <3>2, <4>2, <4>3
    <3> QED
        BY <3>1, <3>2
  <2>4. g = h
    <3>1. g = [k \in 0..(m + 1) |-> g[k]] /\ h = [k \in 0..(m + 1) |-> h[k]]
        OBVIOUS
    <3> HIDE DEF g, h
    <3> QED
        BY <2>3, <3>1
  <2>5. AreStops(t, g, way, m + 1)
      BY <2>4 DEF AreStops
  <2> HIDE DEF g
  <2> QED
      BY <2>1, <2>5
<1>3. N \in SUBSET Nat
    OBVIOUS
<1> HIDE DEF N
<1>4. Len(way) \in N
    BY <1>1, <1>2, <1>3, AllNumbers
<1>5. \E f : AreStops(t, f, way, Len(way))
    BY <1>4 DEF N
<1>6. AreStops(t, StopsOf(t, way), way, Len(way))
    BY <1>5 DEF StopsOf
<1>7. EndIn(t, way) = StopsOf(t, way)[Len(way)]
    BY DEF EndIn, StopsOf, AreStops, On, Goes
<1> QED
    BY <1>6, <1>7 DEF AreStops, Stop

\* Ways that begin alike stop at the same nodes.
LEMMA SameStops ==
    ASSUME NEW t, NEW v, NEW w, Len(v) \in Nat, Len(w) \in Nat, NEW n \in Nat, n <= Len(v), n <= Len(w),
           \A j \in 1..n : v[j] = w[j]
    PROVE  Stop(t, v, n) = Stop(t, w, n)
<1> DEFINE N == {m \in Nat : m <= n => Stop(t, v, m) = Stop(t, w, m)}
<1>1. 0 \in N
    BY StopsAreThere
<1>2. ASSUME NEW m \in N
      PROVE  m + 1 \in N
  <2> SUFFICES ASSUME m + 1 <= n
               PROVE  Stop(t, v, m + 1) = Stop(t, w, m + 1)
      OBVIOUS
  <2>1. m + 1 \in 1..Len(v) /\ m + 1 \in 1..Len(w) /\ (m + 1) - 1 = m /\ m + 1 \in 1..n /\ m <= n
      OBVIOUS
  <2>2. Stop(t, v, m + 1) = On(t, Stop(t, v, m), v[m + 1]) /\ Stop(t, w, m + 1) = On(t, Stop(t, w, m), w[m + 1])
    <3>1. Stop(t, v, m + 1) = On(t, Stop(t, v, (m + 1) - 1), v[m + 1])
        BY <2>1, StopsAreThere
    <3>2. Stop(t, w, m + 1) = On(t, Stop(t, w, (m + 1) - 1), w[m + 1])
        BY <2>1, StopsAreThere
    <3> QED
        BY <2>1, <3>1, <3>2
  <2> QED
      BY <2>1, <2>2
<1>3. N \in SUBSET Nat
    OBVIOUS
<1> HIDE DEF N
<1>4. n \in N
    BY <1>1, <1>2, <1>3, AllNumbers
<1> QED
    BY <1>4 DEF N

\* What is known of a trie that is read.
TrieOK(t) ==
    /\ Len(t) \in Nat /\ DOMAIN t = 1..Len(t)
    /\ \A n \in DOMAIN t :
         /\ t[n].terminal \in Terminals /\ t[n].cut \in NodeCuts
         /\ Len(t[n].children) \in Nat /\ DOMAIN t[n].children = 1..Len(t[n].children)
         /\ \A k \in DOMAIN t[n].children :
              /\ t[n].children[k].to \in {Outside, Unreadable} \cup DOMAIN t
              /\ t[n].children[k].label \in Seq(Nat)

\* TriesAssumption says so.
LEMMA TriesAreOK == \A t \in Tries : TrieOK(t)
<1> TAKE t \in Tries
<1>1. t \in Seq(Range(t)) /\ \A n \in DOMAIN t : t[n].children \in Seq(Range(t[n].children))
    BY TriesAssumption
<1>2. Len(t) \in Nat /\ DOMAIN t = 1..Len(t)
    BY <1>1
<1>3. ASSUME NEW n \in DOMAIN t
      PROVE  Len(t[n].children) \in Nat /\ DOMAIN t[n].children = 1..Len(t[n].children)
  <2> DEFINE cs == t[n].children
  <2>1. cs \in Seq(Range(cs))
      BY <1>1
  <2> HIDE DEF cs
  <2>2. Len(cs) \in Nat /\ DOMAIN cs = 1..Len(cs)
      BY <2>1
  <2> QED
      BY <2>2 DEF cs
<1> QED
    BY <1>2, <1>3, TriesAssumption DEF TrieOK, Range

\* A way that ends in the trie is in it all along.
LEMMA WaysGoOn ==
    ASSUME NEW t, TrieOK(t), NEW w, Len(w) \in Nat, EndIn(t, w).node \in DOMAIN t, NEW n \in Nat, n < Len(w)
    PROVE  Goes(t, Stop(t, w, n), w[n + 1])
<1> DEFINE lost == Frame(Outside, <<>>)
           N == {m \in Nat : n < m /\ m <= Len(w) => Stop(t, w, m) = lost}
<1>0. lost.node \notin DOMAIN t
    BY DEF TrieOK, Frame, Outside
<1> HIDE DEF lost
<1> SUFFICES ASSUME ~Goes(t, Stop(t, w, n), w[n + 1]) PROVE FALSE
    OBVIOUS
<1>1. 0 \in N
    OBVIOUS
<1>2. ASSUME NEW m \in N
      PROVE  m + 1 \in N
  <2> SUFFICES ASSUME n < m + 1, m + 1 <= Len(w)
               PROVE  Stop(t, w, m + 1) = lost
      OBVIOUS
  <2>1. m \in Nat /\ m + 1 \in 1..Len(w) /\ (m + 1) - 1 = m /\ m <= Len(w) /\ (m = n \/ n < m)
      OBVIOUS
  <2>2. Stop(t, w, m + 1) = On(t, Stop(t, w, m), w[m + 1])
    <3>1. Stop(t, w, m + 1) = On(t, Stop(t, w, (m + 1) - 1), w[m + 1])
        BY <2>1, StopsAreThere
    <3> QED
        BY <2>1, <3>1
  <2>3. ~Goes(t, Stop(t, w, m), w[m + 1])
    <3>1. CASE m = n
        BY <3>1
    <3>2. CASE n < m
      <4>1. Stop(t, w, m) = lost
          BY <2>1, <3>2
      <4> QED
          BY <1>0, <4>1 DEF Goes
    <3> QED
        BY <2>1, <3>1, <3>2
  <2> QED
      BY <2>2, <2>3 DEF On, lost
<1>3. N \in SUBSET Nat
    OBVIOUS
<1> HIDE DEF N
<1>4. Len(w) \in N
    BY <1>1, <1>2, <1>3, AllNumbers
<1>5. Stop(t, w, Len(w)) = lost
    BY <1>4 DEF N
<1> QED
    BY <1>0, <1>5, StopsAreThere

\* A bounded set of numbers that is not empty has a greatest one.
LEMMA GreatestIsThere ==
    ASSUME NEW S \in SUBSET Nat, S # {}, NEW b \in Nat, \A x \in S : x <= b
    PROVE  Max(S) \in S /\ \A y \in S : y <= Max(S)
<1> DEFINE D == {d \in Nat : \E x \in S : d = b - x}
           m == Min(D)
<1>1. D \in SUBSET Nat /\ D # {}
  <2>1. PICK x \in S : TRUE
      OBVIOUS
  <2>2. x \in Nat /\ x <= b
      OBVIOUS
  <2>3. b - x \in D
      BY <2>2
  <2> QED
      BY <2>3
<1>2. m \in D /\ \A d \in D : m <= d
    <2> HIDE DEF D
    <2> QED
        BY <1>1, LeastIsThere
<1> HIDE DEF m
<1>3. PICK x \in S : m = b - x
    BY <1>2
<1>4. \A y \in S : y <= x
  <2> TAKE y \in S
  <2>1. y \in Nat /\ y <= b /\ x \in Nat /\ x <= b
      OBVIOUS
  <2>2. b - y \in D
      BY <2>1
  <2>3. b - x <= b - y
      BY <1>2, <1>3, <2>2
  <2> QED
      BY <2>1, <2>3
<1>5. \A y \in S : y \in Nat
    OBVIOUS
<1>6. x \in S /\ \A y \in S : x >= y
    BY <1>4, <1>5
<1>7. Max(S) \in S /\ \A y \in S : Max(S) >= y
    BY <1>6 DEF Max
<1> QED
    BY <1>5, <1>7

\* No node has more children than Fan.
LEMMA FanIsGreatest ==
    ASSUME NEW t, TrieOK(t)
    PROVE  FanIn(t) \in Nat /\ \A n \in DOMAIN t : Len(t[n].children) <= FanIn(t)
<1> DEFINE len(n) == Len(t[n].children)
           N == {m \in Nat : m <= Len(t) => \E b \in Nat : \A n \in 1..m : len(n) <= b}
           S == {0} \cup {len(n) : n \in DOMAIN t}
<1>0. Len(t) \in Nat /\ DOMAIN t = 1..Len(t) /\ \A n \in 1..Len(t) : len(n) \in Nat
    BY DEF TrieOK
<1> HIDE DEF len
<1>1. 0 \in N
  <2>1. \A n \in 1..0 : len(n) <= 0
      OBVIOUS
  <2> QED
      BY <2>1
<1>2. ASSUME NEW m \in N
      PROVE  m + 1 \in N
  <2> SUFFICES ASSUME m + 1 <= Len(t)
               PROVE  \E b \in Nat : \A n \in 1..(m + 1) : len(n) <= b
      OBVIOUS
  <2>1. m \in Nat /\ m <= Len(t) /\ m + 1 \in 1..Len(t)
      BY <1>0
  <2>2. PICK b \in Nat : \A n \in 1..m : len(n) <= b
      BY <2>1
  <2> DEFINE l == len(m + 1)
             c == IF l <= b THEN b ELSE l
  <2>3. l \in Nat
      BY <1>0, <2>1
  <2> HIDE DEF l
  <2>4. c \in Nat /\ l <= c /\ b <= c
      BY <2>3
  <2> HIDE DEF c
  <2>5. ASSUME NEW n \in 1..(m + 1)
        PROVE  len(n) <= c
    <3>1. CASE n = m + 1
        BY <2>4, <3>1 DEF l
    <3>2. CASE n # m + 1
      <4>1. n \in 1..m /\ n \in 1..Len(t)
          BY <1>0, <2>1, <3>2
      <4>2. len(n) <= b /\ len(n) \in Nat
          BY <1>0, <2>2, <4>1
      <4> QED
          BY <2>4, <4>2
    <3> QED
        BY <3>1, <3>2
  <2> QED
      BY <2>4, <2>5
<1>3. N \in SUBSET Nat
    OBVIOUS
<1> HIDE DEF N
<1>4. Len(t) \in N
    BY <1>0, <1>1, <1>2, <1>3, AllNumbers
<1>5. PICK b \in Nat : \A n \in 1..Len(t) : len(n) <= b
    BY <1>4 DEF N
<1>6. S \in SUBSET Nat /\ 0 \in S /\ \A x \in S : x <= b
    BY <1>0, <1>5
<1>7. Max(S) \in S /\ \A y \in S : y <= Max(S)
  <2> HIDE DEF S
  <2>1. S # {}
      BY <1>6
  <2> QED
      BY <1>6, <2>1, GreatestIsThere
<1>8. FanIn(t) = Max(S)
    BY DEF FanIn, len
<1>9. \A n \in DOMAIN t : len(n) \in S
    OBVIOUS
<1> HIDE DEF S
<1>10. FanIn(t) \in Nat /\ \A n \in DOMAIN t : len(n) <= FanIn(t)
    BY <1>6, <1>7, <1>8, <1>9
<1> QED
    BY <1>10 DEF len

\* Every way of at most MaxDepth edges that ends in the trie is one of those counted.
LEMMA MetIs ==
    ASSUME NEW t, TrieOK(t)
    PROVE  \A w : w \in MetIn(t) <=> w \in Seq(Nat \ {0}) /\ Len(w) <= MaxDepth /\ EndIn(t, w).node \in DOMAIN t
<1>1. ASSUME NEW w \in MetIn(t)
      PROVE  w \in Seq(Nat \ {0}) /\ Len(w) <= MaxDepth
  <2>1. PICK n \in 0..MaxDepth : w \in [1..n -> 1..FanIn(t)]
      BY DEF MetIn
  <2>2. n \in Nat /\ n <= MaxDepth /\ FanIn(t) \in Nat
      BY <2>1, MaxDepthAssumption, FanIsGreatest
  <2>3. w \in [1..n -> Nat \ {0}]
      BY <2>1, <2>2
  <2>4. w \in Seq(Nat \ {0}) /\ Len(w) = n
      BY <2>2, <2>3
  <2> QED
      BY <2>2, <2>4
<1>2. ASSUME NEW w \in Seq(Nat \ {0}), Len(w) <= MaxDepth, EndIn(t, w).node \in DOMAIN t
      PROVE  w \in UNION {[1..n -> 1..FanIn(t)] : n \in 0..MaxDepth}
  <2>1. Len(w) \in Nat /\ w = [k \in 1..Len(w) |-> w[k]] /\ \A k \in 1..Len(w) : w[k] \in Nat \ {0}
      OBVIOUS
  <2>2. ASSUME NEW k \in 1..Len(w)
        PROVE  w[k] \in 1..FanIn(t)
    <3>1. k - 1 \in Nat /\ k - 1 < Len(w) /\ (k - 1) + 1 = k
        BY <2>1
    <3>2. Goes(t, Stop(t, w, k - 1), w[(k - 1) + 1])
        BY <1>2, <2>1, <3>1, WaysGoOn
    <3> DEFINE n == Stop(t, w, k - 1).node
    <3>3. n \in DOMAIN t /\ w[k] \in DOMAIN t[n].children
        BY <3>1, <3>2 DEF Goes
    <3> HIDE DEF n
    <3>4. /\ w[k] \in 1..Len(t[n].children) /\ Len(t[n].children) \in Nat
          /\ Len(t[n].children) <= FanIn(t) /\ FanIn(t) \in Nat
        BY <3>3, FanIsGreatest DEF TrieOK
    <3> QED
        BY <3>4
  <2>3. w \in [1..Len(w) -> 1..FanIn(t)]
      BY <2>1, <2>2
  <2>4. Len(w) \in 0..MaxDepth
      BY <1>2, <2>1, MaxDepthAssumption
  <2> QED
      BY <2>3, <2>4
<1>3. \A w \in MetIn(t) : EndIn(t, w).node \in DOMAIN t
    BY DEF MetIn
<1> QED
    BY <1>1, <1>2, <1>3 DEF MetIn

\* A way with one more edge leads one edge further.
LEMMA OneEdgeMore ==
    ASSUME NEW t, NEW w \in Seq(Nat), NEW c \in Nat
    PROVE  EndIn(t, Append(w, c)) = On(t, EndIn(t, w), c)
<1> DEFINE v == Append(w, c)
           n == Len(w)
<1>1. n \in Nat /\ Len(v) = n + 1 /\ v[n + 1] = c /\ \A j \in 1..n : v[j] = w[j]
    OBVIOUS
<1> HIDE DEF v
<1>2. Len(v) \in Nat /\ n + 1 \in 1..Len(v) /\ (n + 1) - 1 = n /\ n <= Len(v) /\ n <= Len(w)
    BY <1>1
<1>3. EndIn(t, v) = Stop(t, v, n + 1) /\ Stop(t, v, n + 1) = On(t, Stop(t, v, (n + 1) - 1), v[n + 1])
    BY <1>1, <1>2, StopsAreThere
<1>4. Stop(t, v, n) = Stop(t, w, n)
    BY <1>1, <1>2, SameStops
<1>5. EndIn(t, w) = Stop(t, w, n)
    BY <1>1, StopsAreThere
<1>6. EndIn(t, v) = On(t, EndIn(t, w), c)
    BY <1>1, <1>2, <1>3, <1>4, <1>5
<1> QED
    BY <1>6 DEF v

\* What a way passes is a name.
LEMMA NamesAreNames ==
    ASSUME NEW t, TrieOK(t), NEW w, Len(w) \in Nat
    PROVE  EndIn(t, w).prefix \in Seq(Nat)
<1> DEFINE N == {m \in Nat : m <= Len(w) => Stop(t, w, m).prefix \in Seq(Nat)}
<1>0. <<>> \in Seq(Nat) /\ \A n : Frame(n, <<>>).prefix = <<>>
    BY DEF Frame
<1>1. 0 \in N
  <2>1. Stop(t, w, 0).prefix \in Seq(Nat)
      BY <1>0, StopsAreThere
  <2> QED
      BY <2>1
<1>2. ASSUME NEW m \in N
      PROVE  m + 1 \in N
  <2> SUFFICES ASSUME m + 1 <= Len(w)
               PROVE  Stop(t, w, m + 1).prefix \in Seq(Nat)
      OBVIOUS
  <2>1. m \in Nat /\ m + 1 \in 1..Len(w) /\ (m + 1) - 1 = m /\ m <= Len(w)
      OBVIOUS
  <2> DEFINE from == Stop(t, w, m)
             k == w[m + 1]
  <2>2. from.prefix \in Seq(Nat)
      BY <2>1
  <2>3. Stop(t, w, m + 1) = On(t, from, k)
    <3>1. Stop(t, w, m + 1) = On(t, Stop(t, w, (m + 1) - 1), w[m + 1])
        BY <2>1, StopsAreThere
    <3> QED
        BY <2>1, <3>1
  <2> HIDE DEF from, k
  <2>4. CASE Goes(t, from, k)
    <3> DEFINE label == t[from.node].children[k].label
    <3>1. label \in Seq(Nat)
        BY <2>4 DEF Goes, TrieOK
    <3>2. On(t, from, k).prefix = from.prefix \o label
        BY <2>4 DEF On, Frame
    <3> HIDE DEF label
    <3> DEFINE prefix == from.prefix
    <3>3. prefix \in Seq(Nat)
        BY <2>2
    <3> HIDE DEF prefix
    <3>4. prefix \o label \in Seq(Nat)
        BY <3>1, <3>3
    <3> QED
        BY <2>3, <3>2, <3>4 DEF prefix
  <2>5. CASE ~Goes(t, from, k)
    <3>1. On(t, from, k) = Frame(Outside, <<>>)
        BY <2>5 DEF On
    <3> QED
        BY <1>0, <2>3, <3>1
  <2> QED
      BY <2>4, <2>5
<1>3. N \in SUBSET Nat
    OBVIOUS
<1> HIDE DEF N
<1>4. Len(w) \in N
    BY <1>1, <1>2, <1>3, AllNumbers
<1>5. Stop(t, w, Len(w)).prefix \in Seq(Nat)
    BY <1>4 DEF N
<1> QED
    BY <1>5, StopsAreThere

\* The way to a call that is open.
LEMMA PathIsWay ==
    ASSUME NEW n \in Nat \ {0}, NEW c, \A j \in 1..(n - 1) : c[j] \in Nat /\ c[j] > 1
    PROVE  /\ PathTo(c, n) \in Seq(Nat \ {0}) /\ Len(PathTo(c, n)) = n - 1
           /\ \A j \in 1..(n - 1) : PathTo(c, n)[j] = c[j] - 1
<1> DEFINE m == n - 1
<1>1. m \in Nat /\ \A j \in 1..m : c[j] - 1 \in Nat \ {0}
    OBVIOUS
<1>2. PathTo(c, n) = [j \in 1..m |-> c[j] - 1]
    BY DEF PathTo
<1> HIDE DEF m
<1>3. PathTo(c, n) \in [1..m -> Nat \ {0}]
    BY <1>1, <1>2
<1>4. PathTo(c, n) \in Seq(Nat \ {0}) /\ Len(PathTo(c, n)) = m
    BY <1>1, <1>3
<1>5. \A j \in 1..m : PathTo(c, n)[j] = c[j] - 1
    BY <1>2
<1> QED
    BY <1>4, <1>5 DEF m

\* What goes along it stops where it ends.
LEMMA AlongStops ==
    ASSUME NEW t, NEW n \in Nat \ {0}, NEW c, \A j \in 1..(n - 1) : c[j] \in Nat /\ c[j] > 1,
           NEW v, Len(v) \in Nat, Along(c, n, v)
    PROVE  Stop(t, v, n - 1) = EndIn(t, PathTo(c, n))
<1> DEFINE m == n - 1
           p == PathTo(c, n)
<1>1. m \in Nat /\ Len(v) >= m /\ \A j \in 1..m : v[j] = c[j] - 1
    BY DEF Along
<1>2. Len(p) = m /\ \A j \in 1..m : p[j] = c[j] - 1
    BY PathIsWay
<1> HIDE DEF m, p
<1>3. m <= Len(v) /\ m <= Len(p) /\ Len(p) \in Nat /\ \A j \in 1..m : v[j] = p[j]
    BY <1>1, <1>2
<1>4. Stop(t, v, m) = Stop(t, p, m)
    BY <1>1, <1>3, SameStops
<1>5. EndIn(t, p) = Stop(t, p, m)
    BY <1>2, <1>3, StopsAreThere
<1> QED
    BY <1>4, <1>5 DEF m, p

\* A call that looks at its node has seen the way to it, and had not before.
LEMMA VisitSees ==
    ASSUME NEW n \in Nat \ {0}, NEW c, \A j \in 1..(n - 1) : c[j] \in Nat /\ c[j] > 1, c[n] = 0,
           NEW d, d[n] = 1, \A j \in 1..(n - 1) : d[j] = c[j],
           NEW v \in Seq(Nat \ {0})
    PROVE  /\ Seen(d, n, v) <=> Seen(c, n, v) \/ v = PathTo(c, n)
           /\ v = PathTo(c, n) => ~Seen(c, n, v)
<1>0. n \in Nat /\ n # 0 /\ n \in 1..n /\ Len(v) \in Nat /\ \A j \in 1..Len(v) : v[j] \in Nat /\ v[j] > 0
    OBVIOUS
<1>a. \A i \in 1..n : i \in Nat /\ i >= 1 /\ (i # n => i \in 1..(n - 1) /\ i < n)
    BY <1>0
<1>1. ASSUME NEW i \in 1..n
      PROVE  Along(d, i, v) <=> Along(c, i, v)
  <2>1. \A j \in 1..(i - 1) : j \in 1..(n - 1)
      BY <1>0
  <2> QED
      BY <2>1 DEF Along
<1>2. \A i \in 1..n : i # n => (SeenAt(d, n, i, v) <=> SeenAt(c, n, i, v))
    BY <1>1, <1>a DEF SeenAt
<1>3. ~SeenAt(c, n, n, v)
  <2>1. ~(c[n] > 0) /\ (Len(v) >= n => ~(v[n] < c[n]))
      BY <1>0
  <2> QED
      BY <2>1 DEF SeenAt
<1>4. SeenAt(d, n, n, v) <=> Along(c, n, v) /\ Len(v) = n - 1
  <2>1. d[n] > 0 /\ (Len(v) >= n => ~(v[n] < d[n]))
      BY <1>0
  <2> QED
      BY <1>0, <1>1, <2>1 DEF SeenAt
<1>5. Along(c, n, v) /\ Len(v) = n - 1 <=> v = PathTo(c, n)
  <2> DEFINE p == PathTo(c, n)
  <2>1. p \in Seq(Nat \ {0}) /\ Len(p) = n - 1 /\ \A j \in 1..(n - 1) : p[j] = c[j] - 1
      BY PathIsWay
  <2> HIDE DEF p
  <2>2. ASSUME Len(v) = n - 1, \A j \in 1..(n - 1) : v[j] = p[j]
        PROVE  v = p
      BY <2>1, <2>2
  <2>3. Along(c, n, v) /\ Len(v) = n - 1 => v = p
      BY <2>1, <2>2 DEF Along
  <2>4. v = p => Along(c, n, v) /\ Len(v) = n - 1
      BY <2>1, <1>0 DEF Along
  <2> QED
      BY <2>3, <2>4 DEF p
<1>6. ASSUME v = PathTo(c, n), NEW i \in 1..n, i # n
      PROVE  ~SeenAt(c, n, i, v)
  <2>1. i \in 1..(n - 1) /\ i <= n - 1 /\ i - 1 # n - 1
      BY <1>0, <1>6
  <2>2. Len(v) = n - 1 /\ v[i] = c[i] - 1
      BY <1>5, <1>6, <2>1 DEF Along
  <2>3. c[i] \in Nat /\ ~(c[i] - 1 < c[i] - 1)
      BY <2>1
  <2> QED
      BY <1>6, <2>1, <2>2, <2>3 DEF SeenAt
<1> QED
    BY <1>0, <1>2, <1>3, <1>4, <1>5, <1>6 DEF Seen

\* Opening another call does not see anything yet.
LEMMA DescendSees ==
    ASSUME NEW n \in Nat \ {0}, NEW c, \A j \in 1..n : c[j] \in Nat, c[n] > 0,
           NEW d, d[n + 1] = 0, d[n] = c[n] + 1, \A j \in 1..(n - 1) : d[j] = c[j],
           NEW v \in Seq(Nat \ {0})
    PROVE  Seen(d, n + 1, v) <=> Seen(c, n, v)
<1>0. n \in Nat /\ n # 0 /\ n + 1 # 0 /\ Len(v) \in Nat /\ \A j \in 1..Len(v) : v[j] \in Nat /\ v[j] > 0
    OBVIOUS
<1>a. \A i : i \in 1..(n + 1) <=> i \in 1..n \/ i = n + 1
    OBVIOUS
<1>1. ASSUME NEW i \in 1..n
      PROVE  SeenAt(d, n + 1, i, v) <=> SeenAt(c, n, i, v)
  <2>1. \A j \in 1..(i - 1) : j \in 1..(n - 1)
      BY <1>0
  <2>2. Along(d, i, v) <=> Along(c, i, v)
      BY <2>1 DEF Along
  <2>3. i # n + 1
      OBVIOUS
  <2>4. CASE i = n
    <3>0. c[n] \in Nat
        BY <1>0
    <3>1. d[i] - 1 = c[i] /\ d[i] > 0 /\ c[i] > 0
        BY ONLY <2>4, <3>0, d[n] = c[n] + 1, c[n] > 0
    <3> QED
        BY <2>2, <2>3, <2>4, <3>1 DEF SeenAt
  <2>5. CASE i # n
    <3>1. i \in 1..(n - 1)
        BY <2>5
    <3>2. d[i] = c[i]
        BY <3>1
    <3> QED
        BY <2>2, <2>3, <2>5, <3>2 DEF SeenAt
  <2> QED
      BY <2>4, <2>5
<1>2. ~SeenAt(d, n + 1, n + 1, v)
  <2>1. ~(d[n + 1] > 0) /\ (Len(v) >= n + 1 => ~(v[n + 1] < d[n + 1]))
      BY <1>0
  <2> QED
      BY <2>1 DEF SeenAt
<1> QED
    BY <1>0, <1>a, <1>1, <1>2 DEF Seen

\* A call that returns has seen all that goes along it.
LEMMA ReturnSees ==
    ASSUME NEW n \in Nat \ {0}, NEW c, c[n] \in Nat, \A j \in 1..(n - 1) : c[j] \in Nat /\ c[j] > 1,
           NEW d, \A j \in 1..(n - 1) : d[j] = c[j],
           NEW v \in Seq(Nat \ {0})
    PROVE  /\ Seen(c, n, v) => Seen(d, n - 1, v)
           /\ Seen(d, n - 1, v) => \/ Seen(c, n, v)
                                   \/ Along(c, n, v) /\ (Len(v) = n - 1 => c[n] = 0)
                                                     /\ (Len(v) >= n => v[n] >= c[n])
<1> DEFINE m == n - 1
           all == Along(c, n, v) /\ (Len(v) = n - 1 => c[n] = 0) /\ (Len(v) >= n => v[n] >= c[n])
<1>0. n \in Nat /\ n # 0 /\ m \in Nat /\ m + 1 = n /\ Len(v) \in Nat /\ \A j \in 1..Len(v) : v[j] \in Nat /\ v[j] > 0
    OBVIOUS
<1>a. (\A i : i \in 1..n <=> i \in 1..m \/ i = n) /\ (\A i : i \in 1..m => i # n /\ i \in Nat)
    BY <1>0
<1>b. ~SeenAt(c, n, n, v) <=> (Along(c, n, v) => all)
  <2>1. n <= Len(v) => v[n] \in Nat
      BY <1>0
  <2> QED
      BY <1>0, <2>1 DEF SeenAt
<1>c. \A i \in 1..m : c[i] \in Nat /\ c[i] > 1 /\ d[i] = c[i]
    OBVIOUS
<1> HIDE DEF m
<1>1. ASSUME NEW i \in 1..m
      PROVE  Along(d, i, v) <=> Along(c, i, v)
  <2>1. \A j \in 1..(i - 1) : j \in 1..m
      BY <1>0
  <2> QED
      BY <1>c, <2>1 DEF Along
<1>2. ASSUME NEW i \in 1..m, i # m
      PROVE  SeenAt(d, m, i, v) <=> SeenAt(c, n, i, v)
    BY <1>a, <1>c, <1>1, <1>2 DEF SeenAt
<1>3. ASSUME m \in 1..m
      PROVE  SeenAt(d, m, m, v) <=> SeenAt(c, n, m, v) \/ Along(c, n, v)
  <2>0. m # n /\ m \in Nat /\ m >= 1 /\ d[m] = c[m] /\ c[m] \in Nat /\ c[m] > 1
      BY <1>a, <1>c, <1>3
  <2>1. Along(c, n, v) <=> Along(c, m, v) /\ Len(v) >= m /\ v[m] = c[m] - 1
    <3>1. \A j : j \in 1..(n - 1) <=> j \in 1..(m - 1) \/ j = m
        BY <1>0, <2>0
    <3>2. n - 1 = m /\ (Len(v) >= m => Len(v) >= m - 1)
        BY <1>0
    <3> QED
        BY <3>1, <3>2 DEF Along
  <2>2. Len(v) >= m => v[m] \in Nat
      BY <1>0, <2>0
  <2>3. Len(v) >= m => (v[m] < c[m] <=> v[m] < c[m] - 1 \/ v[m] = c[m] - 1)
      BY <2>0, <2>2
  <2>4. SeenAt(d, m, m, v) <=> Along(c, m, v) /\ (Len(v) = m - 1 \/ (Len(v) >= m /\ v[m] < c[m]))
      BY <1>1, <1>3, <2>0 DEF SeenAt
  <2>5. SeenAt(c, n, m, v) <=> Along(c, m, v) /\ (Len(v) = m - 1 \/ (Len(v) >= m /\ v[m] < c[m] - 1))
      BY <2>0 DEF SeenAt
  <2> QED
      BY <2>1, <2>3, <2>4, <2>5
<1>4. CASE m = 0
  <2>1. n = 1 /\ Along(c, n, v) /\ Seen(d, m, v)
      BY <1>0, <1>4 DEF Along, Seen
  <2>2. 1..m = {}
      BY <1>4
  <2>3. Seen(c, n, v) <=> SeenAt(c, n, n, v)
      BY <1>a, <2>1, <2>2 DEF Seen
  <2> QED
      BY <1>b, <2>1, <2>3 DEF m
<1>5. CASE m # 0
  <2>1. m \in 1..m
      BY <1>0, <1>5
  <2>2. Seen(d, m, v) <=> \E i \in 1..m : SeenAt(d, m, i, v)
      BY <1>5 DEF Seen
  <2>3. Seen(c, n, v) <=> SeenAt(c, n, n, v) \/ \E i \in 1..m : SeenAt(c, n, i, v)
      BY <1>0, <1>a DEF Seen
  <2>4. SeenAt(c, n, n, v) => Along(c, n, v)
      BY DEF SeenAt
  <2>5. Seen(c, n, v) => Seen(d, m, v)
      BY <1>2, <1>3, <2>1, <2>2, <2>3, <2>4
  <2>6. Seen(d, m, v) => Seen(c, n, v) \/ Along(c, n, v)
      BY <1>2, <1>3, <2>1, <2>2, <2>3
  <2>7. Seen(d, m, v) => Seen(c, n, v) \/ all
      BY <1>b, <2>3, <2>6
  <2> QED
      BY <2>5, <2>7 DEF m
<1> QED
    BY <1>4, <1>5

\* The byte order is an order, and of two names that are not the same one comes first.
LEMMA NoneBeforeItself ==
    ASSUME NEW m \in Seq(Nat)
    PROVE  ~Before(m, m)
<1>1. Len(m) \in Nat /\ \A j \in 1..Len(m) : m[j] \in Nat
    OBVIOUS
<1> SUFFICES ASSUME NEW k \in 0..Len(m), k < Len(m), m[k + 1] < m[k + 1]
             PROVE  FALSE
    BY <1>1 DEF Before
<1>2. k + 1 \in 1..Len(m)
    BY <1>1
<1> QED
    BY <1>1, <1>2

\* What is before a name is before what that is before.
LEMMA BeforeGoesOn ==
    ASSUME NEW m \in Seq(Nat), NEW n \in Seq(Nat), NEW p \in Seq(Nat), Before(m, n), Before(n, p)
    PROVE  Before(m, p)
<1>0. /\ Len(m) \in Nat /\ Len(n) \in Nat /\ Len(p) \in Nat
      /\ \A j \in 1..Len(m) : m[j] \in Nat
      /\ \A j \in 1..Len(n) : n[j] \in Nat
      /\ \A j \in 1..Len(p) : p[j] \in Nat
    OBVIOUS
<1>1. PICK k \in 0..Len(m) : /\ k < Len(n) /\ \A j \in 1..k : m[j] = n[j]
                             /\ k = Len(m) \/ m[k + 1] < n[k + 1]
    BY DEF Before
<1>2. PICK l \in 0..Len(n) : /\ l < Len(p) /\ \A j \in 1..l : n[j] = p[j]
                             /\ l = Len(n) \/ n[l + 1] < p[l + 1]
    BY DEF Before
<1>3. CASE k <= l
  <2>1. k \in Nat /\ l \in Nat /\ k < Len(p) /\ \A j \in 1..k : j \in 1..l
      BY <1>0, <1>1, <1>2, <1>3
  <2>2. \A j \in 1..k : m[j] = p[j]
      BY <1>1, <1>2, <2>1
  <2>3. ASSUME k # Len(m)
        PROVE  m[k + 1] < p[k + 1]
    <3>1. k + 1 \in 1..Len(m) /\ k + 1 \in 1..Len(n) /\ k + 1 \in 1..Len(p)
        BY <1>0, <1>1, <2>1, <2>3
    <3>2. m[k + 1] < n[k + 1] /\ m[k + 1] \in Nat /\ n[k + 1] \in Nat /\ p[k + 1] \in Nat
        BY <1>0, <1>1, <2>3, <3>1
    <3>3. CASE k = l
      <4>1. n[k + 1] < p[k + 1]
          BY <1>1, <1>2, <2>1, <3>3
      <4> QED
          BY <3>2, <4>1
    <3>4. CASE k # l
      <4>1. k + 1 \in 1..l
          BY <1>3, <2>1, <3>4
      <4> QED
          BY <1>2, <3>2, <4>1
    <3> QED
        BY <3>3, <3>4
  <2> QED
      BY <2>1, <2>2, <2>3 DEF Before
<1>4. CASE l < k
  <2>0. k \in Nat /\ l \in Nat /\ k <= Len(m) /\ k < Len(n)
      BY <1>0, <1>1, <1>2
  <2>1. l \in 0..Len(m) /\ l # Len(m) /\ l # Len(n) /\ l + 1 \in 1..k /\ \A j \in 1..l : j \in 1..k
      BY ONLY <1>0, <1>4, <2>0
  <2>2. \A j \in 1..l : m[j] = p[j]
      BY <1>1, <1>2, <2>1
  <2>3. m[l + 1] = n[l + 1] /\ n[l + 1] < p[l + 1]
      BY <1>1, <1>2, <2>1
  <2> QED
      BY <1>2, <2>1, <2>2, <2>3 DEF Before
<1> QED
    BY <1>0, <1>1, <1>2, <1>3, <1>4

\* Of two names one is before the other.
LEMMA OneIsBefore ==
    ASSUME NEW m \in Seq(Nat), NEW n \in Seq(Nat), m # n
    PROVE  Before(m, n) \/ Before(n, m)
<1> DEFINE D == {d \in Nat : d > 0 /\ (d > Len(m) \/ d > Len(n) \/ m[d] # n[d])}
           d == Min(D)
<1>0. /\ Len(m) \in Nat /\ Len(n) \in Nat
      /\ \A j \in 1..Len(m) : m[j] \in Nat
      /\ \A j \in 1..Len(n) : n[j] \in Nat
    OBVIOUS
<1>1. D \in SUBSET Nat /\ D # {}
  <2>1. Len(m) + 1 \in D
      BY <1>0
  <2> QED
      BY <2>1
<1>2. d \in D /\ \A y \in D : d <= y
    <2> HIDE DEF D
    <2> QED
        BY <1>1, LeastIsThere
<1> HIDE DEF d
<1> DEFINE k == d - 1
<1>3. k \in Nat /\ k + 1 = d /\ \A j \in 1..k : j \in Nat /\ j > 0 /\ j < d
    BY <1>2
<1>4. \A j \in 1..k : j <= Len(m) /\ j <= Len(n) /\ m[j] = n[j]
  <2> TAKE j \in 1..k
  <2>1. j \in Nat /\ j > 0 /\ j < d /\ d \in Nat
      BY <1>2, <1>3
  <2>2. j \notin D
    <3> HIDE DEF D
    <3> QED
        BY <1>2, <2>1
  <2> QED
      BY <1>0, <2>1, <2>2
<1>5. k <= Len(m) /\ k <= Len(n)
  <2>1. k = 0 \/ k \in 1..k
      BY <1>3
  <2> QED
      BY <1>0, <1>3, <1>4, <2>1
<1>6. d > Len(m) \/ d > Len(n) \/ m[d] # n[d]
    BY <1>2
<1> HIDE DEF k, D
<1>7. k \in 0..Len(m) /\ k \in 0..Len(n) /\ (\A j \in 1..k : m[j] = n[j]) /\ (\A j \in 1..k : n[j] = m[j])
    BY <1>0, <1>3, <1>4, <1>5
<1>8. CASE k = Len(m) /\ k < Len(n)
    BY <1>7, <1>8 DEF Before
<1>9. CASE k = Len(n) /\ k < Len(m)
    BY <1>7, <1>9 DEF Before
<1>10. CASE k = Len(m) /\ k = Len(n)
  <2>0. m = [j \in 1..Len(m) |-> m[j]] /\ n = [j \in 1..Len(n) |-> n[j]]
      OBVIOUS
  <2>1. m = n
      BY <1>7, <1>10, <2>0
  <2> QED
      BY <2>1
<1>11. CASE k < Len(m) /\ k < Len(n)
  <2>1. k + 1 \in 1..Len(m) /\ k + 1 \in 1..Len(n) /\ m[k + 1] # n[k + 1]
      BY <1>0, <1>3, <1>6, <1>11
  <2>2. m[k + 1] < n[k + 1] \/ n[k + 1] < m[k + 1]
      BY <1>0, <2>1
  <2> QED
      BY <1>7, <1>11, <2>2 DEF Before
<1> QED
    BY <1>0, <1>3, <1>5, <1>8, <1>9, <1>10, <1>11

\* The exports up to one of them, in order, and the one at a place in it (Sort).
UpTo(es, k) == {j \in DOMAIN es : \/ Before(es[j].name, es[k].name)
                                  \/ es[j].name = es[k].name /\ j <= k}

InPlace(es, i) == CHOOSE k \in DOMAIN es : Cardinality(UpTo(es, k)) = i

\* Sorting puts each export at one place and at each place one, and those before others
\* at lower places.
LEMMA SortPlacesAll ==
    ASSUME NEW es, Listed(es), \A k \in 1..Len(es) : es[k].name \in Seq(Nat)
    PROVE  /\ \A i \in 1..Len(es) : InPlace(es, i) \in 1..Len(es)
           /\ \A i, j \in 1..Len(es) : InPlace(es, i) = InPlace(es, j) => i = j
           /\ \A k \in 1..Len(es) : \E i \in 1..Len(es) : InPlace(es, i) = k
           /\ \A i, j \in 1..Len(es) :
                i < j => ~Before(es[InPlace(es, j)].name, es[InPlace(es, i)].name)
<1> DEFINE n == Len(es)
           g == [k \in 1..n |-> Cardinality(UpTo(es, k))]
<1>0. n \in Nat /\ n \in Int /\ DOMAIN es = 1..n
    BY Pushed
<1> HIDE DEF n
<1>a. IsFiniteSet(1..n) /\ Cardinality(1..n) = n
    BY <1>0, FS_Interval
<1>1. ASSUME NEW k \in 1..n
      PROVE  /\ UpTo(es, k) \in SUBSET (1..n) /\ k \in UpTo(es, k)
             /\ IsFiniteSet(UpTo(es, k)) /\ g[k] \in 1..n
  <2>1. UpTo(es, k) \in SUBSET (1..n) /\ k \in UpTo(es, k)
      BY <1>0 DEF UpTo
  <2>2. IsFiniteSet(UpTo(es, k)) /\ Cardinality(UpTo(es, k)) <= n
      BY <1>a, <2>1, FS_Subset
  <2>3. Cardinality(UpTo(es, k)) \in Nat /\ Cardinality(UpTo(es, k)) # 0
      BY <2>1, <2>2, FS_CardinalityType, FS_EmptySet
  <2> QED
      BY <1>0, <2>1, <2>2, <2>3
<1>2. ASSUME NEW k \in 1..n, NEW l \in 1..n, k # l,
             Before(es[k].name, es[l].name) \/ (es[k].name = es[l].name /\ k <= l)
      PROVE  g[k] < g[l]
  <2>0. es[k].name \in Seq(Nat) /\ es[l].name \in Seq(Nat) /\ k \in Int /\ l \in Int
      BY <1>0 DEF n
  <2>1. ASSUME NEW j \in UpTo(es, k)
        PROVE  j \in UpTo(es, l)
    <3>1. j \in 1..n /\ j \in Int /\ es[j].name \in Seq(Nat)
        BY <1>0, <1>1 DEF n
    <3>2. Before(es[j].name, es[k].name) \/ (es[j].name = es[k].name /\ j <= k)
        BY <2>1 DEF UpTo
    <3>3. Before(es[j].name, es[l].name) \/ (es[j].name = es[l].name /\ j <= l)
      <4>1. CASE Before(es[j].name, es[k].name)
          BY <1>2, <2>0, <3>1, <4>1, BeforeGoesOn
      <4>2. CASE es[j].name = es[k].name /\ j <= k
          BY <1>2, <2>0, <3>1, <4>2
      <4> QED
          BY <3>2, <4>1, <4>2
    <3> QED
        BY <1>0, <3>1, <3>3 DEF UpTo
  <2>2. l \notin UpTo(es, k)
    <3>1. ~Before(es[l].name, es[k].name)
      <4>1. CASE Before(es[k].name, es[l].name)
          BY <2>0, <4>1, BeforeGoesOn, NoneBeforeItself
      <4>2. CASE es[k].name = es[l].name
          BY <2>0, <4>2, NoneBeforeItself
      <4> QED
          BY <1>2, <4>1, <4>2
    <3>2. ~(es[l].name = es[k].name /\ l <= k)
        BY <1>2, <2>0, NoneBeforeItself
    <3> QED
        BY <3>1, <3>2 DEF UpTo
  <2>3. UpTo(es, k) \in SUBSET UpTo(es, l) /\ UpTo(es, k) # UpTo(es, l) /\ IsFiniteSet(UpTo(es, l))
      BY <1>1, <2>1, <2>2
  <2>4. Cardinality(UpTo(es, k)) <= Cardinality(UpTo(es, l)) /\ Cardinality(UpTo(es, k)) # Cardinality(UpTo(es, l))
      BY <2>3, FS_Subset
  <2>5. g[k] \in Nat /\ g[l] \in Nat /\ g[k] = Cardinality(UpTo(es, k)) /\ g[l] = Cardinality(UpTo(es, l))
      BY <1>1
  <2> HIDE DEF g
  <2> QED
      BY <2>4, <2>5
<1>3. ASSUME NEW k \in 1..n, NEW l \in 1..n, k # l
      PROVE  g[k] # g[l]
  <2>0. es[k].name \in Seq(Nat) /\ es[l].name \in Seq(Nat) /\ k \in Int /\ l \in Int /\ (k <= l \/ l <= k)
      BY <1>0 DEF n
  <2>1. \/ Before(es[k].name, es[l].name) \/ (es[k].name = es[l].name /\ k <= l)
        \/ Before(es[l].name, es[k].name) \/ (es[l].name = es[k].name /\ l <= k)
      BY <2>0, OneIsBefore
  <2>2. g[k] < g[l] \/ g[l] < g[k]
    <3> HIDE DEF g
    <3> QED
        BY <1>2, <1>3, <2>1
  <2>3. g[k] \in Nat /\ g[l] \in Nat
      BY <1>1
  <2> HIDE DEF g
  <2> QED
      BY <2>2, <2>3
<1>4. g \in [1..n -> 1..n]
    BY <1>1
<1>5. g \in Injection(1..n, 1..n)
  <2> HIDE DEF g
  <2> QED
      BY <1>3, <1>4 DEF Injection, IsInjective
<1>6. g \in Surjection(1..n, 1..n)
    BY <1>a, <1>5, FS_Injection
<1>7. \A i \in 1..n : \E k \in 1..n : g[k] = i
  <2> HIDE DEF g
  <2> QED
      BY <1>6 DEF Surjection
<1>8. \A k \in 1..n : g[k] = Cardinality(UpTo(es, k))
    OBVIOUS
<1> HIDE DEF g
<1>9. ASSUME NEW i \in 1..n
      PROVE  InPlace(es, i) \in 1..n /\ g[InPlace(es, i)] = i
  <2>1. \E k \in 1..n : Cardinality(UpTo(es, k)) = i
      BY <1>7, <1>8
  <2>2. InPlace(es, i) \in 1..n /\ Cardinality(UpTo(es, InPlace(es, i))) = i
      BY <1>0, <2>1 DEF InPlace
  <2> QED
      BY <1>8, <2>2
<1>10. ASSUME NEW k \in 1..n
       PROVE  \E i \in 1..n : InPlace(es, i) = k
  <2>1. g[k] \in 1..n
      BY <1>4
  <2>2. InPlace(es, g[k]) \in 1..n /\ g[InPlace(es, g[k])] = g[k]
      BY <1>9, <2>1
  <2> QED
      BY <1>3, <2>1, <2>2
<1>11. ASSUME NEW i \in 1..n, NEW j \in 1..n, i < j
       PROVE  ~Before(es[InPlace(es, j)].name, es[InPlace(es, i)].name)
  <2> SUFFICES ASSUME Before(es[InPlace(es, j)].name, es[InPlace(es, i)].name)
               PROVE  FALSE
      OBVIOUS
  <2>1. InPlace(es, i) \in 1..n /\ g[InPlace(es, i)] = i /\ InPlace(es, j) \in 1..n /\ g[InPlace(es, j)] = j
      BY <1>9
  <2>2. i \in Int /\ j \in Int /\ i # j
      BY <1>11
  <2>3. j < i
      BY <1>2, <2>1, <2>2
  <2> QED
      BY <1>11, <2>2, <2>3
<1> QED
    BY <1>9, <1>10, <1>11 DEF n

\* What it takes to list some ways.
LEMMA ThatLists ==
    ASSUME NEW t, NEW es, NEW S, NEW f \in [1..Len(es) -> S],
           \A j, k \in 1..Len(es) : f[j] = f[k] => j = k,
           \A w \in S : \E k \in 1..Len(es) : f[k] = w,
           \A k \in 1..Len(es) : es[k] = ExportOf(t, f[k])
    PROVE  Lists(t, es, S)
BY DEF Lists

\* Nothing lists nothing.
LEMMA NothingLists ==
    ASSUME NEW t, NEW es, Len(es) = 0
    PROVE  Lists(t, es, {})
<1> DEFINE f == [k \in 1..0 |-> 0]
<1>1. \A k \in 1..0 : FALSE
    OBVIOUS
<1>2. f \in [1..0 -> {}] /\ \A S : (\A k \in 1..0 : FALSE)
    BY <1>1
<1> HIDE DEF f
<1> QED
    BY <1>1, <1>2 DEF Lists

\* One more export lists one more way.
LEMMA OneMoreLists ==
    ASSUME NEW t, NEW es, Listed(es), NEW S, Lists(t, es, S), NEW w, w \notin S
    PROVE  Lists(t, Append(es, ExportOf(t, w)), S \cup {w})
<1> DEFINE n == Len(es)
           ds == Append(es, ExportOf(t, w))
           R == S \cup {w}
<1>1. n \in Nat /\ Len(ds) = n + 1 /\ ds[n + 1] = ExportOf(t, w) /\ \A k \in 1..n : ds[k] = es[k]
    BY Pushed
<1>2. PICK f \in [1..n -> S] :
        /\ \A j, k \in 1..n : f[j] = f[k] => j = k
        /\ \A v \in S : \E k \in 1..n : f[k] = v
        /\ \A k \in 1..n : es[k] = ExportOf(t, f[k])
    BY DEF Lists
<1> HIDE DEF n, ds
<1> DEFINE g == [k \in 1..(n + 1) |-> IF k = n + 1 THEN w ELSE f[k]]
<1>3. \A k : k \in 1..(n + 1) <=> k \in 1..n \/ k = n + 1
    BY <1>1
<1>4. n + 1 \notin 1..n
    BY <1>1
<1>5. g[n + 1] = w /\ \A k \in 1..n : g[k] = f[k] /\ f[k] \in S
    BY <1>3, <1>4
<1>6. g \in [1..(n + 1) -> R]
    BY <1>3, <1>4
<1> HIDE DEF g, R
<1>7. \A j, k \in 1..(n + 1) : g[j] = g[k] => j = k
    BY <1>2, <1>3, <1>5
<1>8. \A v \in R : \E k \in 1..(n + 1) : g[k] = v
    BY <1>2, <1>3, <1>5 DEF R
<1>9. \A k \in 1..(n + 1) : ds[k] = ExportOf(t, g[k])
    BY <1>1, <1>2, <1>3, <1>5
<1>10. Lists(t, ds, R)
  <2>1. /\ g \in [1..Len(ds) -> R]
        /\ \A j, k \in 1..Len(ds) : g[j] = g[k] => j = k
        /\ \A v \in R : \E k \in 1..Len(ds) : g[k] = v
        /\ \A k \in 1..Len(ds) : ds[k] = ExportOf(t, g[k])
      BY <1>1, <1>6, <1>7, <1>8, <1>9
  <2> QED
      BY ONLY <2>1, ThatLists
<1> QED
    BY <1>10 DEF ds, R

\* What is listed is so once sorted, in order.
LEMMA SortedLists ==
    ASSUME NEW t, TrieOK(t), NEW es, Listed(es), NEW S, Lists(t, es, S), \A w \in S : Len(w) \in Nat,
           NEW ds, ds = [i \in DOMAIN es |-> es[InPlace(es, i)]]
    PROVE  Listed(ds) /\ Lists(t, ds, S) /\ InOrder(ds)
<1> DEFINE n == Len(es)
<1>0. n \in Nat /\ DOMAIN es = 1..n
    BY Pushed
<1>1. PICK f \in [1..n -> S] :
        /\ \A j, k \in 1..n : f[j] = f[k] => j = k
        /\ \A v \in S : \E k \in 1..n : f[k] = v
        /\ \A k \in 1..n : es[k] = ExportOf(t, f[k])
    BY DEF Lists
<1>2. \A k \in 1..n : es[k].name \in Seq(Nat)
  <2> TAKE k \in 1..n
  <2>1. f[k] \in S /\ es[k].name = EndIn(t, f[k]).prefix
    <3>1. es[k] = ExportOf(t, f[k]) /\ f[k] \in S
        BY <1>1
    <3> DEFINE w == f[k]
    <3> HIDE DEF w
    <3>2. es[k] = ExportOf(t, w)
        BY <3>1 DEF w
    <3>3. es[k].name = EndIn(t, w).prefix
        BY ONLY <3>2 DEF ExportOf
    <3> QED
        BY <3>1, <3>3 DEF w
  <2> QED
      BY <2>1, NamesAreNames
<1>3. /\ \A i \in 1..n : InPlace(es, i) \in 1..n
      /\ \A i, j \in 1..n : InPlace(es, i) = InPlace(es, j) => i = j
      /\ \A k \in 1..n : \E i \in 1..n : InPlace(es, i) = k
      /\ \A i, j \in 1..n : i < j => ~Before(es[InPlace(es, j)].name, es[InPlace(es, i)].name)
    BY <1>2, SortPlacesAll
<1>4. ds \in [1..n -> {es[k] : k \in 1..n}]
  <2> HIDE DEF n
  <2> QED
      BY <1>0, <1>3
<1>5. Listed(ds) /\ Len(ds) = n /\ \A i \in 1..n : ds[i] = es[InPlace(es, i)]
  <2>1. ds \in Seq({es[k] : k \in 1..n}) /\ Len(ds) = n
    <3> DEFINE T == {es[k] : k \in 1..n}
    <3>1. ds \in [1..n -> T]
        BY <1>4
    <3> HIDE DEF T, n
    <3>2. ds \in Seq(T) /\ Len(ds) = n
        BY <1>0, <3>1
    <3> QED
        BY <3>2 DEF T
  <2> QED
      BY <1>0, <2>1 DEF Listed
<1> HIDE DEF n
<1> DEFINE g == [i \in 1..n |-> f[InPlace(es, i)]]
<1>6. g \in [1..n -> S] /\ \A i \in 1..n : g[i] = f[InPlace(es, i)]
    BY <1>3
<1> HIDE DEF g
<1>7. \A j, k \in 1..n : g[j] = g[k] => j = k
  <2> TAKE j, k \in 1..n
  <2> HAVE g[j] = g[k]
  <2>1. f[InPlace(es, j)] = f[InPlace(es, k)] /\ InPlace(es, j) \in 1..n /\ InPlace(es, k) \in 1..n
      BY <1>3, <1>6
  <2>2. InPlace(es, j) = InPlace(es, k)
      BY <1>1, <2>1
  <2> QED
      BY <1>3, <2>2
<1>8. \A v \in S : \E k \in 1..n : g[k] = v
  <2> TAKE v \in S
  <2>1. PICK k \in 1..n : f[k] = v
      BY <1>1
  <2>2. PICK i \in 1..n : InPlace(es, i) = k
      BY <1>3
  <2> QED
      BY <1>6, <2>1, <2>2
<1>9. \A k \in 1..n : ds[k] = ExportOf(t, g[k])
    BY <1>1, <1>3, <1>5, <1>6
<1>10. Lists(t, ds, S)
  <2>1. /\ g \in [1..Len(ds) -> S]
        /\ \A j, k \in 1..Len(ds) : g[j] = g[k] => j = k
        /\ \A v \in S : \E k \in 1..Len(ds) : g[k] = v
        /\ \A k \in 1..Len(ds) : ds[k] = ExportOf(t, g[k])
      BY <1>5, <1>6, <1>7, <1>8, <1>9
  <2> QED
      BY ONLY <2>1, ThatLists
<1>11. InOrder(ds)
    BY <1>3, <1>5 DEF InOrder
<1> QED
    BY <1>5, <1>10, <1>11

\* The places at which an export is listed, and the ways to it among some.
PlacesOf(es, e) == {k \in DOMAIN es : es[k] = e}

WaysTo(t, S, e) == {w \in S : ExportOf(t, w) = e}

\* Each export is listed as often as there are ways to it.
LEMMA ListsCount ==
    ASSUME NEW t, NEW es, Listed(es), NEW S, Lists(t, es, S), NEW e
    PROVE  Cardinality(PlacesOf(es, e)) = Cardinality(WaysTo(t, S, e))
<1> DEFINE n == Len(es)
           K == {k \in 1..n : es[k] = e}
           W == {w \in S : ExportOf(t, w) = e}
<1>0. n \in Nat /\ n \in Int /\ DOMAIN es = 1..n
    BY Pushed
<1>1. PICK f \in [1..n -> S] :
        /\ \A j, k \in 1..n : f[j] = f[k] => j = k
        /\ \A v \in S : \E k \in 1..n : f[k] = v
        /\ \A k \in 1..n : es[k] = ExportOf(t, f[k])
    BY DEF Lists
<1> HIDE DEF n
<1> DEFINE g == [k \in K |-> f[k]]
<1>2. g \in [K -> W] /\ (\A k \in K : g[k] = f[k] /\ k \in 1..n)
    BY <1>1
<1>3. \A w \in W : \E k \in K : g[k] = w
  <2> TAKE w \in W
  <2>1. PICK k \in 1..n : f[k] = w
      BY <1>1
  <2>2. k \in K
      BY <1>1, <2>1
  <2> QED
      BY <1>2, <2>1, <2>2
<1>4. IsFiniteSet(K)
  <2>1. K \in SUBSET (1..n) /\ IsFiniteSet(1..n)
      BY <1>0, FS_Interval
  <2> HIDE DEF K
  <2> QED
      BY <2>1, FS_Subset
<1> HIDE DEF g, K, W
<1>5. g \in Injection(K, W)
    BY <1>1, <1>2 DEF Injection, IsInjective
<1>6. g \in Surjection(K, W)
    BY <1>2, <1>3 DEF Surjection
<1>7. ExistsBijection(K, W)
    BY <1>5, <1>6 DEF ExistsBijection, Bijection
<1>8. Cardinality(K) = Cardinality(W)
    BY <1>4, <1>7, FS_Bijection
<1> QED
    BY <1>0, <1>8 DEF K, W, PlacesOf, WaysTo

\* What Frame puts together.
LEMMA FrameIs == \A n, p : Frame(n, p).node = n /\ Frame(n, p).prefix = p /\ Frame(n, p).child = 0
BY DEF Frame

\* What is known of each call of a walk, and of the way to the last.
LEMMA CallsAre ==
    ASSUME NEW t, NEW wk, WalkOK(t, wk), Len(wk) \in Nat \ {0}
    PROVE  /\ \A i \in 1..Len(wk) : /\ Kids(wk)[i] = wk[i].child /\ Kids(wk)[i] \in Nat
                                   /\ CallOK(t, Kids(wk), Len(wk), i, wk[i])
           /\ \A j \in 1..(Len(wk) - 1) : Kids(wk)[j] \in Nat /\ Kids(wk)[j] > 1
           /\ PathTo(Kids(wk), Len(wk)) \in Seq(Nat \ {0})
           /\ Len(PathTo(Kids(wk), Len(wk))) = Len(wk) - 1
<1>1. \A i \in 1..Len(wk) : Kids(wk)[i] = wk[i].child
    BY DEF Kids
<1>2. \A i \in 1..Len(wk) : CallOK(t, Kids(wk), Len(wk), i, wk[i])
    BY DEF WalkOK
<1>3. \A i \in 1..Len(wk) : Kids(wk)[i] \in Nat /\ (i < Len(wk) => Kids(wk)[i] > 1)
    BY <1>2 DEF CallOK
<1>4. \A j \in 1..(Len(wk) - 1) : j \in 1..Len(wk) /\ j < Len(wk)
    OBVIOUS
<1>5. \A j \in 1..(Len(wk) - 1) : Kids(wk)[j] \in Nat /\ Kids(wk)[j] > 1
    BY <1>3, <1>4
<1>6. PathTo(Kids(wk), Len(wk)) \in Seq(Nat \ {0}) /\ Len(PathTo(Kids(wk), Len(wk))) = Len(wk) - 1
    BY <1>5, PathIsWay
<1> QED
    BY <1>1, <1>2, <1>3, <1>5, <1>6

\* What a call depends on.
LEMMA CallStays ==
    ASSUME NEW t, NEW c, NEW d, NEW i \in Nat \ {0}, NEW n, NEW m, NEW f, NEW g,
           CallOK(t, c, n, i, f), \A j \in 1..i : d[j] = c[j], g.node = f.node, i < m => i < n
    PROVE  g.prefix = f.prefix => CallOK(t, d, m, i, g)
<1>1. d[i] = c[i] /\ \A j \in 1..(i - 1) : d[j] = c[j]
    OBVIOUS
<1>2. PathTo(d, i) = PathTo(c, i)
    BY <1>1 DEF PathTo
<1> QED
    BY <1>1, <1>2 DEF CallOK, Goes

\* A call that is within the limits and in the trie is at a node that is met.
LEMMA CallIsMet ==
    ASSUME NEW t, TrieOK(t), NEW wk, NEW n \in Nat \ {0}, Len(wk) = n, WalkOK(t, wk), NEW c, c = Kids(wk),
           wk[n].node # Outside, n - 1 <= MaxDepth
    PROVE  /\ PathTo(c, n) \in MetIn(t) /\ wk[n].node \in DOMAIN t
           /\ EndIn(t, PathTo(c, n)).node = wk[n].node /\ EndIn(t, PathTo(c, n)).prefix = wk[n].prefix
<1>1. CallOK(t, c, n, n, wk[n]) /\ PathTo(c, n) \in Seq(Nat \ {0}) /\ Len(PathTo(c, n)) = n - 1
  <2>1. n \in 1..n
      OBVIOUS
  <2> QED
      BY <2>1, CallsAre
<1>2. /\ wk[n].node \in DOMAIN t /\ EndIn(t, PathTo(c, n)).node = wk[n].node
      /\ EndIn(t, PathTo(c, n)).prefix = wk[n].prefix
    BY <1>1 DEF CallOK
<1> QED
    BY <1>1, <1>2, MetIs

\* The edges that cannot be read.
LEMMA ToUnreadable ==
    ASSUME NEW t, TrieOK(t), NEW w \in MetIn(t), NodeOf(t, w).cut = "none", NEW k \in DOMAIN NodeOf(t, w).children
    PROVE  /\ Append(w, k) \in Seq(Nat \ {0}) /\ Len(Append(w, k)) <= MaxDepth + 1
           /\ EndIn(t, Append(w, k)).node = NodeOf(t, w).children[k].to
           /\ Goes(t, EndIn(t, w), k)
<1>1. w \in Seq(Nat \ {0}) /\ Len(w) <= MaxDepth /\ EndIn(t, w).node \in DOMAIN t
    BY MetIs
<1>2. k \in Nat \ {0}
  <2> DEFINE n == EndIn(t, w).node
  <2>1. n \in DOMAIN t /\ k \in DOMAIN t[n].children
      BY <1>1 DEF NodeOf
  <2> HIDE DEF n
  <2>2. k \in 1..Len(t[n].children) /\ Len(t[n].children) \in Nat
      BY <2>1 DEF TrieOK
  <2> QED
      BY <2>2
<1>3. Append(w, k) \in Seq(Nat \ {0}) /\ Len(Append(w, k)) <= MaxDepth + 1
    BY <1>1, <1>2, MaxDepthAssumption
<1>4. Goes(t, EndIn(t, w), k)
    BY <1>1 DEF Goes, NodeOf
<1>5. EndIn(t, Append(w, k)) = On(t, EndIn(t, w), k)
  <2>1. w \in Seq(Nat) /\ k \in Nat
      BY <1>1, <1>2
  <2> QED
      BY <2>1, OneEdgeMore
<1>6. On(t, EndIn(t, w), k).node = NodeOf(t, w).children[k].to
    BY <1>4 DEF On, Frame, NodeOf
<1> QED
    BY <1>3, <1>4, <1>5, <1>6

\* What is not in a trie.
LEMMA NoSuchNode ==
    ASSUME NEW t, TrieOK(t)
    PROVE  Outside \notin DOMAIN t /\ Unreadable \notin DOMAIN t /\ Outside # Unreadable
BY DEF TrieOK, Outside, Unreadable

\* While the same ways to nodes and to what cannot be read are seen, all stays as it is.
LEMMA SeesTheSame ==
    ASSUME NEW t, TrieOK(t), NEW wk, NEW xk, NEW es, WalkedSoFar(t, wk, es), WalkOK(t, xk),
           \A w \in MetIn(t) : SeenIn(xk, w) <=> SeenIn(wk, w),
           \A w \in MetIn(t) : NodeOf(t, w).cut = "none" =>
                \A k \in DOMAIN NodeOf(t, w).children :
                    NodeOf(t, w).children[k].to = Unreadable =>
                        (SeenIn(xk, Append(w, k)) => SeenIn(wk, Append(w, k)))
    PROVE  WalkedSoFar(t, xk, es)
<1>1. NoneCut(t, xk)
    BY DEF WalkedSoFar, NoneCut
<1>2. {w \in Exporting(t) : SeenIn(xk, w)} = {w \in Exporting(t) : SeenIn(wk, w)}
    BY DEF Exporting
<1> QED
    BY <1>1, <1>2 DEF WalkedSoFar

\* The call looks at its node, and lists it if it is an export.
Visits(t, wk, es, xk, ds) ==
    LET n == Len(wk)
        f == wk[n]
    IN  /\ f.child = 0 /\ f.node # Outside /\ n - 1 <= MaxDepth /\ t[f.node].cut \notin {"size", "terminal"}
        /\ Len(xk) = n /\ \A j \in 1..(n - 1) : xk[j] = wk[j]
        /\ xk[n].node = f.node /\ xk[n].prefix = f.prefix /\ xk[n].child = 1
        /\ ds = IF Exported(t[f.node].terminal, f.prefix)
                THEN Append(es, [name |-> f.prefix, kind |-> t[f.node].terminal])
                ELSE es

\* A call looks at its node: one more way is seen, and listed if it leads to an export.
LEMMA VisitStep ==
    ASSUME NEW t, TrieOK(t), NEW wk, Len(wk) \in Nat \ {0}, NEW es, Listed(es), WalkedSoFar(t, wk, es),
           NEW xk, NEW ds, Visits(t, wk, es, xk, ds)
    PROVE  WalkedSoFar(t, xk, ds)
<1> PICK n : n = Len(wk)
    OBVIOUS
<1>v. /\ n \in Nat \ {0} /\ Len(wk) = n
      /\ wk[n].child = 0 /\ wk[n].node # Outside /\ n - 1 <= MaxDepth
      /\ t[wk[n].node].cut \notin {"size", "terminal"}
      /\ Len(xk) = n /\ \A j \in 1..(n - 1) : xk[j] = wk[j]
      /\ xk[n].node = wk[n].node /\ xk[n].prefix = wk[n].prefix /\ xk[n].child = 1
      /\ ds = IF Exported(t[wk[n].node].terminal, wk[n].prefix)
              THEN Append(es, [name |-> wk[n].prefix, kind |-> t[wk[n].node].terminal])
              ELSE es
    BY DEF Visits
<1> USE <1>v
<1> DEFINE c == Kids(wk)
           d == Kids(xk)
           p == PathTo(c, n)
           f == wk[n]
<1>0. n \in 1..n /\ WalkOK(t, wk) /\ NoneCut(t, wk) /\ \A j \in 1..(n - 1) : j \in 1..n /\ j \in Nat \ {0} /\ j < n
    BY DEF WalkedSoFar
<1>1. /\ \A i \in 1..n : c[i] = wk[i].child /\ c[i] \in Nat /\ CallOK(t, c, n, i, wk[i])
      /\ \A j \in 1..(n - 1) : c[j] \in Nat /\ c[j] > 1
    BY <1>0, CallsAre
<1>2. p \in MetIn(t) /\ f.node \in DOMAIN t /\ EndIn(t, p).node = f.node /\ EndIn(t, p).prefix = f.prefix
    BY <1>0, CallIsMet
<1>3. c[n] = 0 /\ d[n] = 1 /\ \A j \in 1..(n - 1) : d[j] = c[j]
    BY <1>0 DEF Kids
<1> HIDE DEF c, d, f, p
<1>4. WalkOK(t, xk)
  <2> SUFFICES ASSUME NEW i \in 1..n PROVE CallOK(t, d, n, i, xk[i])
      BY DEF WalkOK, d
  <2>1. CASE i = n
    <3>1. PathTo(d, n) = p
        BY <1>3 DEF PathTo, p
    <3>2. CallOK(t, c, n, n, f)
        BY <1>0, <1>1 DEF f
    <3> QED
        BY <1>2, <1>3, <2>1, <3>1, <3>2 DEF CallOK, f
  <2>2. CASE i # n
    <3>1. i \in 1..(n - 1) /\ i \in Nat \ {0} /\ CallOK(t, c, n, i, wk[i]) /\ xk[i] = wk[i]
        BY <1>0, <1>1, <2>2
    <3>2. \A j \in 1..i : j \in 1..(n - 1)
        BY <3>1
    <3>3. \A j \in 1..i : d[j] = c[j]
        BY <1>3, <3>2
    <3> QED
        BY <3>1, <3>3, CallStays
  <2> QED
      BY <2>1, <2>2
<1>5. \A v \in Seq(Nat \ {0}) : /\ SeenIn(xk, v) <=> SeenIn(wk, v) \/ v = p
                                /\ v = p => ~SeenIn(wk, v)
  <2> TAKE v \in Seq(Nat \ {0})
  <2>1. /\ Seen(d, n, v) <=> Seen(c, n, v) \/ v = PathTo(c, n)
        /\ v = PathTo(c, n) => ~Seen(c, n, v)
    <3>1. n \in Nat \ {0} /\ v \in Seq(Nat \ {0})
        OBVIOUS
    <3> HIDE DEF c, d
    <3> QED
        BY ONLY <1>1, <1>3, <3>1, VisitSees
  <2> QED
      BY <2>1 DEF SeenIn, c, d, p
<1>6. \A w \in MetIn(t) : w \in Seq(Nat \ {0}) /\ EndIn(t, w).node \in DOMAIN t
    BY MetIs
<1>7. NoneCut(t, xk)
  <2>1. NodeOf(t, p).cut \notin {"size", "terminal"}
      BY <1>2 DEF NodeOf, f
  <2>2. ASSUME NEW w \in MetIn(t), SeenIn(xk, w)
        PROVE  NodeOf(t, w).cut \notin {"size", "terminal"}
      BY <1>0, <1>5, <1>6, <2>1, <2>2 DEF NoneCut
  <2>3. ASSUME NEW w \in MetIn(t), NodeOf(t, w).cut = "none", NEW k \in DOMAIN NodeOf(t, w).children,
               NodeOf(t, w).children[k].to = Unreadable
        PROVE  ~SeenIn(xk, Append(w, k))
    <3>1. Append(w, k) \in Seq(Nat \ {0}) /\ EndIn(t, Append(w, k)).node = Unreadable
        BY <2>3, ToUnreadable
    <3>2. Append(w, k) # p
        BY <1>2, <3>1, NoSuchNode
    <3>3. ~SeenIn(wk, Append(w, k))
        BY <1>0, <2>3 DEF NoneCut
    <3> QED
        BY <1>5, <3>1, <3>2, <3>3
  <2> QED
      BY <2>2, <2>3 DEF NoneCut
<1> DEFINE S == {w \in Exporting(t) : SeenIn(wk, w)}
           R == {w \in Exporting(t) : SeenIn(xk, w)}
<1>8. IsExport(t, p) <=> Exported(t[f.node].terminal, f.prefix)
    BY <1>2 DEF IsExport
<1>9. Lists(t, es, S)
    BY DEF WalkedSoFar
<1>10. CASE IsExport(t, p)
  <2>1. R = S \cup {p} /\ p \notin S
      BY <1>2, <1>5, <1>6, <1>10 DEF Exporting
  <2>2. ExportOf(t, p) = [name |-> f.prefix, kind |-> t[f.node].terminal]
      BY <1>2 DEF ExportOf
  <2> HIDE DEF R, S
  <2>3. Lists(t, Append(es, ExportOf(t, p)), R)
      BY <1>9, <2>1, OneMoreLists
  <2> QED
      BY <1>4, <1>7, <1>8, <1>10, <2>2, <2>3 DEF WalkedSoFar, R, f
<1>11. CASE ~IsExport(t, p)
  <2>1. R = S
      BY <1>2, <1>5, <1>6, <1>11 DEF Exporting
  <2> QED
      BY <1>4, <1>7, <1>8, <1>9, <1>11, <2>1 DEF WalkedSoFar, f
<1> QED
    BY <1>10, <1>11

\* The call opens one for its next child.
Descends(t, wk, xk) ==
    LET n == Len(wk)
        f == wk[n]
        k == f.child
    IN  /\ f.node # Outside /\ n - 1 <= MaxDepth /\ k \in Nat \ {0}
        /\ t[f.node].cut # "count" /\ k \in DOMAIN t[f.node].children /\ t[f.node].children[k].to # Unreadable
        /\ Len(xk) = n + 1 /\ \A j \in 1..(n - 1) : xk[j] = wk[j]
        /\ xk[n].node = f.node /\ xk[n].prefix = f.prefix /\ xk[n].child = k + 1
        /\ xk[n + 1] = Frame(t[f.node].children[k].to, f.prefix \o t[f.node].children[k].label)

\* Then the same ways have been seen.
LEMMA DescendStep ==
    ASSUME NEW t, TrieOK(t), NEW wk, Len(wk) \in Nat \ {0}, NEW es, WalkedSoFar(t, wk, es),
           NEW xk, Descends(t, wk, xk)
    PROVE  WalkedSoFar(t, xk, es)
<1> PICK n : n = Len(wk)
    OBVIOUS
<1> PICK k : k = wk[n].child
    OBVIOUS
<1>v. /\ n \in Nat \ {0} /\ Len(wk) = n
      /\ wk[n].node # Outside /\ n - 1 <= MaxDepth /\ k = wk[n].child /\ k \in Nat \ {0}
      /\ t[wk[n].node].cut # "count" /\ k \in DOMAIN t[wk[n].node].children
      /\ t[wk[n].node].children[k].to # Unreadable
      /\ Len(xk) = n + 1 /\ \A j \in 1..(n - 1) : xk[j] = wk[j]
      /\ xk[n].node = wk[n].node /\ xk[n].prefix = wk[n].prefix /\ xk[n].child = k + 1
      /\ xk[n + 1] = Frame(t[wk[n].node].children[k].to, wk[n].prefix \o t[wk[n].node].children[k].label)
    BY DEF Descends
<1> USE <1>v
<1> DEFINE c == Kids(wk)
           d == Kids(xk)
           p == PathTo(c, n)
           f == wk[n]
           to == t[f.node].children[k].to
<1>0. /\ n \in 1..n /\ n + 1 \in 1..(n + 1) /\ n + 1 \in Nat \ {0} /\ WalkOK(t, wk) /\ NoneCut(t, wk)
      /\ \A j \in 1..(n - 1) : j \in 1..n /\ j \in 1..(n + 1) /\ j \in Nat \ {0} /\ j < n
      /\ n \in 1..(n + 1) /\ n # n + 1
    BY DEF WalkedSoFar
<1>1. /\ \A i \in 1..n : c[i] = wk[i].child /\ c[i] \in Nat /\ CallOK(t, c, n, i, wk[i])
      /\ \A j \in 1..(n - 1) : c[j] \in Nat /\ c[j] > 1
  <2>0. n \in Nat \ {0} /\ c = Kids(wk) /\ WalkOK(t, wk) /\ Len(wk) = n
      BY <1>0
  <2> HIDE DEF c
  <2>1. /\ \A i \in 1..n : c[i] = wk[i].child /\ c[i] \in Nat /\ CallOK(t, c, n, i, wk[i])
        /\ \A j \in 1..(n - 1) : c[j] \in Nat /\ c[j] > 1
        /\ PathTo(c, n) \in Seq(Nat \ {0}) /\ Len(PathTo(c, n)) = n - 1
      BY ONLY <2>0, CallsAre, Zenon
  <2> QED
      BY <2>1
<1>2. p \in MetIn(t) /\ f.node \in DOMAIN t /\ EndIn(t, p).node = f.node /\ EndIn(t, p).prefix = f.prefix
    BY <1>0, CallIsMet
<1>3. c[n] = k /\ d[n] = k + 1 /\ d[n + 1] = 0 /\ \A j \in 1..(n - 1) : d[j] = c[j]
  <2>1. xk[n + 1].child = 0
      BY FrameIs
  <2>2. /\ d[n] = xk[n].child /\ d[n + 1] = xk[n + 1].child /\ c[n] = wk[n].child
        /\ \A j \in 1..(n - 1) : d[j] = xk[j].child /\ c[j] = wk[j].child
      BY <1>0 DEF Kids
  <2> HIDE DEF c, d
  <2> QED
      BY <2>1, <2>2
<1>4. t[f.node].cut = "none"
  <2>1. CallOK(t, c, n, n, f) /\ c[n] > 0
      BY <1>0, <1>1, <1>3 DEF f
  <2>2. t[f.node].cut \notin {"size", "terminal"}
      BY <2>1 DEF CallOK
  <2> QED
      BY <1>2, <2>2 DEF TrieOK, NodeCuts, f
<1>5. Goes(t, f, k) /\ Goes(t, EndIn(t, p), k) /\ Goes(t, xk[n], k)
    BY <1>2, <1>4 DEF Goes, f
<1>6. xk[n + 1] = On(t, EndIn(t, p), k)
    BY <1>2, <1>5 DEF On, f
<1>7. xk[n + 1].node = to /\ (to = Outside \/ to \in DOMAIN t) /\ to # Unreadable
  <2>1. xk[n + 1].node = to
      BY FrameIs
  <2>2. f.node \in DOMAIN t /\ k \in DOMAIN t[f.node].children /\ to # Unreadable
      BY <1>2
  <2> HIDE DEF f
  <2>3. to \in {Outside, Unreadable} \cup DOMAIN t
      BY <2>2 DEF TrieOK
  <2> HIDE DEF to
  <2> QED
      BY <2>1, <2>2, <2>3
<1> HIDE DEF c, d, f, to
<1>7a. p \in Seq(Nat \ {0}) /\ Len(p) = n - 1
    BY <1>1, PathIsWay
<1> HIDE DEF p
<1>8. PathTo(d, n + 1) = Append(p, k)
  <2> DEFINE q == PathTo(d, n + 1)
             r == Append(p, k)
  <2>0. \A j \in 1..n : j = n \/ j \in 1..(n - 1)
      OBVIOUS
  <2>1. \A j \in 1..n : d[j] \in Nat /\ d[j] > 1
    <3>1. d[n] \in Nat /\ d[n] > 1
        BY <1>3
    <3> QED
        BY <1>1, <1>3, <2>0, <3>1
  <2>2. (n + 1) - 1 = n
      OBVIOUS
  <2> DEFINE m == n + 1
  <2> HIDE DEF m
  <2>a. m \in Nat \ {0} /\ m - 1 = n
      BY <1>0, <2>2 DEF m
  <2>b. PathTo(d, m) \in Seq(Nat \ {0}) /\ Len(PathTo(d, m)) = m - 1 /\ \A j \in 1..(m - 1) : PathTo(d, m)[j] = d[j] - 1
    <3>1. \A j \in 1..(m - 1) : d[j] \in Nat /\ d[j] > 1
        BY <2>1, <2>a
    <3> QED
        BY <2>a, <3>1, PathIsWay
  <2>3. q \in Seq(Nat \ {0}) /\ Len(q) = n /\ \A j \in 1..n : q[j] = d[j] - 1
      BY <2>a, <2>b DEF m
  <2>4. r \in Seq(Nat \ {0}) /\ Len(r) = n /\ r[n] = k /\ \A j \in 1..(n - 1) : r[j] = p[j]
      BY <1>7a
  <2>5. \A j \in 1..(n - 1) : p[j] = c[j] - 1
      BY DEF p, PathTo
  <2>6. q[n] = k
    <3>1. n \in Nat /\ n \in 1..n /\ k \in Nat /\ d[n] - 1 = k
        BY <1>0, <1>3
    <3> QED
        BY ONLY <2>3, <3>1
  <2> HIDE DEF q, r
  <2>7. \A j \in 1..n : q[j] = r[j]
    <3>1. \A j \in 1..(n - 1) : q[j] = r[j]
      <4>1. \A j \in 1..(n - 1) : j \in 1..n
          BY <1>0
      <4> QED
          BY ONLY <1>3, <2>3, <2>4, <2>5, <4>1
    <3> QED
        BY <2>0, <2>4, <2>6, <3>1
  <2>8. q = r
    <3>1. n \in Nat
        OBVIOUS
    <3> QED
        BY ONLY <2>3, <2>4, <2>7, <3>1
  <2> QED
      BY <2>8 DEF q, r
<1>9. EndIn(t, PathTo(d, n + 1)) = xk[n + 1]
  <2>1. p \in Seq(Nat) /\ k \in Nat
      BY <1>7a
  <2>2. EndIn(t, Append(p, k)) = On(t, EndIn(t, p), k)
      BY <2>1, OneEdgeMore
  <2> QED
      BY <1>6, <1>8, <2>2
<1>10. WalkOK(t, xk)
  <2> SUFFICES ASSUME NEW i \in 1..(n + 1) PROVE CallOK(t, d, n + 1, i, xk[i])
      BY DEF WalkOK, d
  <2>1. CASE i = n + 1
    <3>1. d[i] = 0 /\ ~(i < n + 1) /\ ~(0 > 0)
        BY <1>3, <2>1
    <3>2. d[i] \in Nat /\ ~(d[i] > 0)
        BY <3>1
    <3> QED
        BY <1>7, <1>9, <2>1, <3>1, <3>2, NoSuchNode DEF CallOK
  <2>2. CASE i = n
    <3>1. PathTo(d, n) = p
        BY <1>3 DEF PathTo, p
    <3>2. CallOK(t, c, n, n, f)
        BY <1>0, <1>1 DEF f
    <3>3. d[n] \in Nat /\ d[n] > 1 /\ d[n] - 1 = k
        BY <1>3
    <3>4. t[f.node].cut \notin {"size", "terminal"}
        BY <1>4
    <3> QED
        BY <1>2, <1>5, <2>2, <3>1, <3>3, <3>4 DEF CallOK, f
  <2>3. CASE i # n /\ i # n + 1
    <3>1. i \in 1..(n - 1) /\ i \in Nat \ {0} /\ CallOK(t, c, n, i, wk[i]) /\ xk[i] = wk[i] /\ i < n
        BY <1>0, <1>1, <2>3
    <3>2. \A j \in 1..i : j \in 1..(n - 1)
        BY <3>1
    <3>3. \A j \in 1..i : d[j] = c[j]
        BY <1>3, <3>2
    <3> QED
        BY <3>1, <3>3, CallStays
  <2> QED
      BY <2>1, <2>2, <2>3
<1>11. \A v \in Seq(Nat \ {0}) : SeenIn(xk, v) <=> SeenIn(wk, v)
  <2> TAKE v \in Seq(Nat \ {0})
  <2>1. (\A j \in 1..n : c[j] \in Nat) /\ c[n] > 0 /\ d[n] = c[n] + 1
      BY <1>1, <1>3
  <2>2. Seen(d, n + 1, v) <=> Seen(c, n, v)
      BY <1>3, <2>1, DescendSees
  <2> QED
      BY <2>2 DEF SeenIn, c, d
<1>12. \A w \in MetIn(t) : SeenIn(xk, w) <=> SeenIn(wk, w)
    BY <1>11, MetIs
<1>13. \A w \in MetIn(t) : NodeOf(t, w).cut = "none" =>
                \A j \in DOMAIN NodeOf(t, w).children :
                    NodeOf(t, w).children[j].to = Unreadable =>
                        (SeenIn(xk, Append(w, j)) => SeenIn(wk, Append(w, j)))
    BY <1>11, ToUnreadable
<1> QED
    BY <1>10, <1>12, <1>13, SeesTheSame

\* A way that goes on as far as it goes, along the last call that is open and past what
\* that one has seen, is that call's own, if it is beyond the limits or the trie.
LEMMA NothingIsMissed ==
    ASSUME NEW t, TrieOK(t), NEW wk, NEW n \in Nat \ {0}, Len(wk) = n, WalkOK(t, wk), NEW c, c = Kids(wk),
           \/ wk[n].node = Outside \/ n - 1 > MaxDepth
           \/ /\ wk[n].node \in DOMAIN t
              /\ wk[n].child > IF t[wk[n].node].cut = "count" THEN 0 ELSE Len(t[wk[n].node].children),
           NEW v \in Seq(Nat \ {0}), Len(v) <= MaxDepth + 1,
           \A m \in Nat : m < Len(v) => Goes(t, Stop(t, v, m), v[m + 1]),
           Along(c, n, v), Len(v) = n - 1 => c[n] = 0, Len(v) >= n => v[n] >= c[n]
    PROVE  EndIn(t, v) = EndIn(t, PathTo(c, n)) /\ Len(v) = n - 1 /\ (wk[n].node = Outside \/ n - 1 > MaxDepth)
<1> DEFINE p == PathTo(c, n)
<1>0. n \in 1..n /\ Len(v) \in Nat /\ Len(v) >= n - 1 /\ MaxDepth \in Nat
    BY MaxDepthAssumption DEF Along
<1>1. /\ c[n] = wk[n].child /\ c[n] \in Nat /\ CallOK(t, c, n, n, wk[n])
      /\ \A j \in 1..(n - 1) : c[j] \in Nat /\ c[j] > 1
    BY <1>0, CallsAre
<1>2. Stop(t, v, n - 1) = EndIn(t, p)
    BY <1>0, <1>1, AlongStops
<1>3. CASE Len(v) >= n
  <2>1. n - 1 \in Nat /\ n - 1 < Len(v) /\ (n - 1) + 1 = n
      BY <1>0, <1>3
  <2>2. Goes(t, EndIn(t, p), v[n])
    <3>1. Goes(t, Stop(t, v, n - 1), v[(n - 1) + 1])
        BY <2>1
    <3> QED
        BY <1>2, <2>1, <3>1
  <2> HIDE DEF p
  <2>3. ~(n - 1 > MaxDepth)
      BY <1>0, <1>3
  <2>4. wk[n].node # Outside
      BY <1>1, <2>2 DEF CallOK, Goes, p
  <2> DEFINE a == wk[n].node
  <2>5. a = EndIn(t, p).node
      BY <1>1, <2>4 DEF CallOK, p
  <2> HIDE DEF a
  <2>6. a \in DOMAIN t /\ v[n] \in DOMAIN t[a].children /\ t[a].cut = "none"
      BY <2>2, <2>5 DEF Goes
  <2>7. Len(t[a].children) \in Nat /\ v[n] \in Nat /\ v[n] <= Len(t[a].children)
      BY <2>6 DEF TrieOK
  <2>8. c[n] > Len(t[a].children)
    <3>1. t[a].cut # "count"
        BY <2>6
    <3> QED
        BY <1>1, <2>3, <2>4, <3>1 DEF a
  <2>9. v[n] >= c[n]
      BY <1>3
  <2> QED
      BY <1>1, <2>7, <2>8, <2>9
<1>4. CASE ~(Len(v) >= n)
  <2>1. Len(v) = n - 1
      BY <1>0, <1>4
  <2>2. EndIn(t, v) = EndIn(t, p)
      BY <1>0, <1>2, <2>1, StopsAreThere
  <2>3. ~(c[n] > IF t[wk[n].node].cut = "count" THEN 0 ELSE Len(t[wk[n].node].children)) \/ wk[n].node \notin DOMAIN t
    <3> DEFINE a == wk[n].node
    <3> HIDE DEF a
    <3>1. a \in DOMAIN t => Len(t[a].children) \in Nat
        BY DEF TrieOK
    <3>2. c[n] = 0
        BY <2>1
    <3>3. ~(c[n] > IF t[a].cut = "count" THEN 0 ELSE Len(t[a].children)) \/ a \notin DOMAIN t
        BY <3>1, <3>2
    <3> QED
        BY <3>3 DEF a
  <2> QED
      BY <1>1, <2>1, <2>2, <2>3
<1> QED
    BY <1>3, <1>4

\* A call returns: what goes along it has been seen.
LEMMA ReturnStep ==
    ASSUME NEW t, TrieOK(t), NEW wk, NEW n \in Nat \ {0}, Len(wk) = n, NEW es, WalkedSoFar(t, wk, es),
           \/ wk[n].node = Outside \/ n - 1 > MaxDepth
           \/ /\ wk[n].node \in DOMAIN t
              /\ wk[n].child > IF t[wk[n].node].cut = "count" THEN 0 ELSE Len(t[wk[n].node].children),
           NEW xk, Len(xk) = n - 1, \A j \in 1..(n - 1) : xk[j] = wk[j]
    PROVE  WalkedSoFar(t, xk, es)
<1> DEFINE c == Kids(wk)
           d == Kids(xk)
           p == PathTo(c, n)
           f == wk[n]
           skipped == f.node = Outside \/ n - 1 > MaxDepth
           rest(v) == /\ Along(c, n, v) /\ (Len(v) = n - 1 => c[n] = 0)
                      /\ (Len(v) >= n => v[n] >= c[n])
<1>0. /\ n \in 1..n /\ WalkOK(t, wk) /\ NoneCut(t, wk) /\ MaxDepth \in Nat
      /\ \A j \in 1..(n - 1) : j \in 1..n /\ j \in Nat \ {0} /\ j < n
    BY MaxDepthAssumption DEF WalkedSoFar
<1>1. /\ \A i \in 1..n : c[i] = wk[i].child /\ c[i] \in Nat /\ CallOK(t, c, n, i, wk[i])
      /\ \A j \in 1..(n - 1) : c[j] \in Nat /\ c[j] > 1
    BY <1>0, CallsAre
<1>2. CallOK(t, c, n, n, f)
    BY <1>0, <1>1
<1>3. \A j \in 1..(n - 1) : d[j] = c[j]
    BY <1>0 DEF Kids
<1>4. \A v \in Seq(Nat \ {0}) : /\ SeenIn(wk, v) => SeenIn(xk, v)
                                /\ SeenIn(xk, v) => SeenIn(wk, v) \/ rest(v)
  <2> TAKE v \in Seq(Nat \ {0})
  <2> HIDE DEF c, d
  <2>1. /\ Seen(c, n, v) => Seen(d, n - 1, v)
        /\ Seen(d, n - 1, v) => Seen(c, n, v) \/ rest(v)
      BY <1>0, <1>1, <1>3, ReturnSees
  <2> QED
      BY <2>1 DEF SeenIn, c, d
<1>5. WalkOK(t, xk)
  <2> SUFFICES ASSUME NEW i \in 1..(n - 1) PROVE CallOK(t, d, n - 1, i, xk[i])
      BY DEF WalkOK, d
  <2> HIDE DEF c, d
  <2>1. i \in Nat \ {0} /\ CallOK(t, c, n, i, wk[i]) /\ xk[i] = wk[i] /\ i < n
      BY <1>0, <1>1
  <2>2. \A j \in 1..i : d[j] = c[j]
      BY <1>3, <2>1
  <2> QED
      BY <2>1, <2>2, CallStays
<1>6. ASSUME NEW v \in Seq(Nat \ {0}), Len(v) <= MaxDepth + 1, rest(v),
             \A m \in Nat : m < Len(v) => Goes(t, Stop(t, v, m), v[m + 1])
      PROVE  EndIn(t, v) = EndIn(t, p) /\ Len(v) = n - 1 /\ skipped
    BY <1>0, <1>6, NothingIsMissed
<1> HIDE DEF c, d, p, f, rest
<1>7. ASSUME NEW w \in MetIn(t), SeenIn(xk, w)
      PROVE  SeenIn(wk, w)
  <2> SUFFICES ASSUME ~SeenIn(wk, w) PROVE FALSE
      OBVIOUS
  <2>1. w \in Seq(Nat \ {0}) /\ Len(w) \in Nat /\ Len(w) <= MaxDepth /\ EndIn(t, w).node \in DOMAIN t
      BY MetIs
  <2>2. rest(w)
      BY <1>4, <1>7, <2>1
  <2>3. \A m \in Nat : m < Len(w) => Goes(t, Stop(t, w, m), w[m + 1])
      BY <2>1, WaysGoOn
  <2>4. Len(w) <= MaxDepth + 1
      BY <1>0, <2>1
  <2>5. EndIn(t, w) = EndIn(t, p) /\ Len(w) = n - 1 /\ skipped
      BY <1>6, <2>1, <2>2, <2>3, <2>4
  <2>6. f.node = Outside
      BY <1>0, <2>1, <2>5
  <2> QED
      BY <1>2, <2>1, <2>5, <2>6 DEF CallOK, p
<1>8. ASSUME NEW w \in MetIn(t), NodeOf(t, w).cut = "none", NEW k \in DOMAIN NodeOf(t, w).children,
             NodeOf(t, w).children[k].to = Unreadable, SeenIn(xk, Append(w, k))
      PROVE  SeenIn(wk, Append(w, k))
  <2> DEFINE v == Append(w, k)
  <2> SUFFICES ASSUME ~SeenIn(wk, v) PROVE FALSE
      OBVIOUS
  <2>1. w \in Seq(Nat \ {0}) /\ Len(w) \in Nat /\ EndIn(t, w).node \in DOMAIN t
      BY MetIs
  <2>2. /\ v \in Seq(Nat \ {0}) /\ Len(v) <= MaxDepth + 1
        /\ EndIn(t, v).node = Unreadable /\ Goes(t, EndIn(t, w), k)
      BY <1>8, ToUnreadable
  <2>3. k \in Nat
    <3> DEFINE a == EndIn(t, w).node
    <3>1. a \in DOMAIN t /\ k \in DOMAIN t[a].children
        BY <2>1 DEF NodeOf
    <3> HIDE DEF a
    <3> QED
        BY <3>1 DEF TrieOK
  <2>4. Len(v) = Len(w) + 1 /\ v[Len(w) + 1] = k /\ \A j \in 1..Len(w) : v[j] = w[j]
      BY <2>1, <2>3
  <2>5. rest(v)
      BY <1>4, <1>8, <2>2
  <2> HIDE DEF v
  <2>6. ASSUME NEW m \in Nat, m < Len(v)
        PROVE  Goes(t, Stop(t, v, m), v[m + 1])
    <3>1. m <= Len(w) /\ m <= Len(v) /\ Len(v) \in Nat
        BY <2>1, <2>4, <2>6
    <3>2. \A j \in 1..m : v[j] = w[j]
        BY <2>1, <2>4, <3>1
    <3>3. Stop(t, v, m) = Stop(t, w, m)
        BY <2>1, <3>1, <3>2, SameStops
    <3>4. CASE m = Len(w)
      <4>1. Stop(t, w, m) = EndIn(t, w)
          BY <2>1, <3>4, StopsAreThere
      <4> QED
          BY <2>2, <2>4, <3>3, <3>4, <4>1
    <3>5. CASE m # Len(w)
      <4>1. m < Len(w) /\ m + 1 \in 1..Len(w)
          BY <2>1, <3>1, <3>5
      <4>2. Goes(t, Stop(t, w, m), w[m + 1])
          BY <2>1, <4>1, WaysGoOn
      <4> QED
          BY <2>4, <3>3, <4>1, <4>2
    <3> QED
        BY <3>4, <3>5
  <2>7. EndIn(t, v) = EndIn(t, p)
      BY <1>6, <2>2, <2>5, <2>6
  <2>8. EndIn(t, p).node = Unreadable
      BY <2>2, <2>7
  <2> QED
      BY <1>2, <2>8, NoSuchNode DEF CallOK, p
<1>9. \A w \in MetIn(t) : SeenIn(xk, w) <=> SeenIn(wk, w)
    BY <1>4, <1>7, MetIs
<1> QED
    BY <1>5, <1>8, <1>9, SeesTheSame

\* What cannot be read is on a way to a node that is met.
LEMMA CutStep ==
    ASSUME NEW t, TrieOK(t), NEW wk, NEW n \in Nat \ {0}, Len(wk) = n, WalkOK(t, wk),
           wk[n].node # Outside, n - 1 <= MaxDepth, NEW k, k = wk[n].child,
           \/ t[wk[n].node].cut \in {"size", "terminal"}
           \/ /\ k \in Nat \ {0} /\ t[wk[n].node].cut # "count" /\ k \in DOMAIN t[wk[n].node].children
              /\ t[wk[n].node].children[k].to = Unreadable
    PROVE  BrokenIn(t)
<1> DEFINE c == Kids(wk)
           p == PathTo(c, n)
           f == wk[n]
<1>1. p \in MetIn(t) /\ f.node \in DOMAIN t /\ EndIn(t, p).node = f.node
    BY CallIsMet
<1>2. NodeOf(t, p) = t[f.node]
    BY <1>1 DEF NodeOf
<1>3. c[n] = k /\ CallOK(t, c, n, n, f)
  <2>1. n \in 1..n
      OBVIOUS
  <2> QED
      BY <2>1, CallsAre
<1> HIDE DEF c, p
<1>4. CASE t[f.node].cut \in {"size", "terminal"}
    BY <1>1, <1>2, <1>4 DEF BrokenIn, Broken
<1>5. CASE t[f.node].cut \notin {"size", "terminal"}
  <2> DEFINE a == f.node
  <2>1. /\ t[a].cut # "count" /\ k \in DOMAIN t[a].children /\ t[a].children[k].to = Unreadable
        /\ a \in DOMAIN t
      BY <1>1, <1>5
  <2>2. t[a].cut \in NodeCuts /\ t[a].cut \notin {"size", "terminal"}
      BY <1>1, <1>5 DEF TrieOK
  <2> HIDE DEF a
  <2>3. t[a].cut = "none"
      BY <2>1, <2>2 DEF NodeCuts
  <2>4. Broken(t[a])
      BY <2>1, <2>3 DEF Broken, Range
  <2> QED
      BY <1>1, <1>2, <2>4 DEF BrokenIn, a
<1> QED
    BY <1>4, <1>5

\* When no call is open all ways have been seen.
LEMMA AllIsSeen ==
    ASSUME NEW t, NEW wk, Len(wk) = 0, NEW es, WalkedSoFar(t, wk, es)
    PROVE  Lists(t, es, Exporting(t)) /\ ~BrokenIn(t)
<1>1. \A v : SeenIn(wk, v)
    BY DEF SeenIn, Seen
<1>2. {w \in Exporting(t) : SeenIn(wk, w)} = Exporting(t)
    BY <1>1
<1>3. Lists(t, es, Exporting(t))
    BY <1>2 DEF WalkedSoFar
<1>4. ~BrokenIn(t)
  <2> SUFFICES ASSUME NEW w \in MetIn(t), Broken(NodeOf(t, w)) PROVE FALSE
      BY DEF BrokenIn
  <2>1. NodeOf(t, w).cut \notin {"size", "terminal"}
      BY <1>1 DEF WalkedSoFar, NoneCut
  <2>2. NodeOf(t, w).cut = "none" /\ \E k \in DOMAIN NodeOf(t, w).children : NodeOf(t, w).children[k].to = Unreadable
      BY <2>1 DEF Broken, Range
  <2> QED
      BY <1>1, <2>2 DEF WalkedSoFar, NoneCut
<1> QED
    BY <1>3, <1>4

\* Before the root is looked at no way has been seen.
LEMMA NothingIsSeen ==
    ASSUME NEW t, TrieOK(t), NEW wk, Len(wk) = 1, NEW es, Len(es) = 0,
           wk[1] = Frame(IF Len(t) = 0 THEN Outside ELSE 1, <<>>)
    PROVE  WalkedSoFar(t, wk, es)
<1> DEFINE c == Kids(wk)
           f == wk[1]
           p == PathTo(c, 1)
<1>1. c[1] = 0 /\ f.node = (IF Len(t) = 0 THEN Outside ELSE 1) /\ f.prefix = <<>>
    BY FrameIs DEF Kids
<1>2. EndIn(t, p) = Frame(1, <<>>)
  <2>1. p \in Seq(Nat \ {0}) /\ Len(p) = 0
    <3>1. 1 \in Nat \ {0} /\ 1..(1 - 1) = {} /\ 1 - 1 = 0
        OBVIOUS
    <3> HIDE DEF c
    <3>2. PathTo(c, 1) \in Seq(Nat \ {0}) /\ Len(PathTo(c, 1)) = 1 - 1
        BY <3>1, PathIsWay
    <3> QED
        BY <3>1, <3>2
  <2> HIDE DEF p
  <2> QED
      BY <2>1, StopsAreThere
<1>3. EndIn(t, p).node = 1 /\ EndIn(t, p).prefix = <<>>
    BY <1>2, FrameIs
<1>4. (1 \in DOMAIN t <=> Len(t) # 0) /\ Len(t) \in Nat
    BY DEF TrieOK
<1> HIDE DEF c, f, p
<1>5. CallOK(t, c, 1, 1, f)
  <2>1. c[1] \in Nat /\ ~(c[1] > 0) /\ ~(1 < 1) /\ 1 # Unreadable /\ 1 # Outside
      BY <1>1 DEF Unreadable, Outside
  <2> QED
      BY <1>1, <1>3, <1>4, <2>1 DEF CallOK, p
<1>6. WalkOK(t, wk)
  <2>1. \A i \in 1..1 : i = 1
      OBVIOUS
  <2> QED
      BY <1>5, <2>1 DEF WalkOK, c, f
<1>7. \A v \in Seq(Nat \ {0}) : ~SeenIn(wk, v)
  <2> SUFFICES ASSUME NEW v \in Seq(Nat \ {0}) PROVE ~SeenIn(wk, v)
      OBVIOUS
  <2>1. \A i \in 1..1 : i = 1
      OBVIOUS
  <2>2. Len(v) \in Nat /\ (Len(v) >= 1 => v[1] \in Nat)
      OBVIOUS
  <2>3. ~SeenAt(c, 1, 1, v)
      BY <1>1, <2>2 DEF SeenAt
  <2> QED
      BY <2>1, <2>3 DEF SeenIn, Seen, c
<1>8. NoneCut(t, wk)
    BY <1>7, MetIs, ToUnreadable DEF NoneCut
<1>9. {w \in Exporting(t) : SeenIn(wk, w)} = {}
    BY <1>7, MetIs DEF Exporting
<1>10. Lists(t, es, {})
    BY NothingLists
<1> QED
    BY <1>6, <1>8, <1>9, <1>10 DEF WalkedSoFar

\* The calls below the last.
LEMMA FrontIs ==
    ASSUME NEW w, Listed(w), w # <<>>
    PROVE  /\ Len(w) \in Nat \ {0} /\ Len(Front(w)) = Len(w) - 1
           /\ \A j \in 1..(Len(w) - 1) : Front(w)[j] = w[j]
<1> DEFINE n == Len(w)
           s == SubSeq(w, 1, n - 1)
<1>1. PICK S : w \in Seq(S)
    BY DEF Listed
<1>2. n \in Nat \ {0} /\ Front(w) = s
    BY <1>1 DEF Front
<1>3. \A i \in 1..(n - 1) : w[i] \in S
    BY <1>1, <1>2
<1>4. 1 \in Int /\ n - 1 \in Int
    BY <1>2
<1>5. /\ Len(s) = IF 1 <= n - 1 THEN n - 1 - 1 + 1 ELSE 0
      /\ \A i \in 1..(n - 1 - 1 + 1) : s[i] = w[1 + i - 1]
    BY <1>3, <1>4, SubSeqProperties
<1> HIDE DEF n, s
<1>6. Len(s) = n - 1 /\ n - 1 - 1 + 1 = n - 1
    BY <1>2, <1>5
<1>7. \A i \in 1..(n - 1) : 1 + i - 1 = i
    BY <1>2
<1>8. \A i \in 1..(n - 1) : s[i] = w[i]
    BY <1>5, <1>6, <1>7
<1> QED
    BY <1>2, <1>6, <1>8 DEF n

\* A frame of which only the child changes.
LEMMA OtherChild ==
    ASSUME NEW f, DOMAIN f = {"node", "prefix", "child"}, NEW k
    PROVE  /\ DOMAIN [f EXCEPT !.child = k] = {"node", "prefix", "child"}
           /\ [f EXCEPT !.child = k].node = f.node /\ [f EXCEPT !.child = k].prefix = f.prefix
           /\ [f EXCEPT !.child = k].child = k
OBVIOUS

\* One of the calls that are open goes on.
GoesOnIn(w, n, k, u) == u = [w EXCEPT ![n].child = k]

\* What is known of the calls that are open when one of them goes on.
LEMMA LastGoesOn ==
    ASSUME NEW w, Listed(w), AreFrames(w), NEW n \in 1..Len(w), NEW k, NEW u, GoesOnIn(w, n, k, u)
    PROVE  /\ Listed(u) /\ Len(u) = Len(w) /\ AreFrames(u)
           /\ \A j \in 1..Len(w) : j # n => u[j] = w[j]
           /\ u[n].node = w[n].node /\ u[n].prefix = w[n].prefix /\ u[n].child = k
<1> DEFINE v == [w[n] EXCEPT !.child = k]
<1>0. DOMAIN w = 1..Len(w)
    BY Pushed
<1>1. u = [w EXCEPT ![n] = v]
    BY DEF GoesOnIn
<1>2. DOMAIN w[n] = {"node", "prefix", "child"}
    BY DEF AreFrames
<1>3. /\ DOMAIN v = {"node", "prefix", "child"}
      /\ v.node = w[n].node /\ v.prefix = w[n].prefix /\ v.child = k
    BY <1>2, OtherChild
<1> HIDE DEF v
<1>4. Listed(u) /\ Len(u) = Len(w)
  <2>1. Listed([w EXCEPT ![n] = v]) /\ Len([w EXCEPT ![n] = v]) = Len(w)
      BY Marked
  <2> QED
      BY <1>1, <2>1
<1>5. u[n] = v /\ \A j \in 1..Len(w) : j # n => u[j] = w[j]
    BY <1>0, <1>1
<1>6. AreFrames(u)
    BY <1>3, <1>4, <1>5 DEF AreFrames
<1> QED
    BY <1>3, <1>4, <1>5, <1>6

\* A trie that is read is as TriesAssumption has it.
LEMMA TrieThatIsRead ==
    ASSUME TrieInv
    PROVE  TrieOK(trie) /\ Listed(walk) /\ AreFrames(walk) /\ Listed(exports)
BY TriesAreOK DEF TrieInv, StackInv

\* The call that runs.
LEMMA LastCall ==
    ASSUME TrieInv, Walking
    PROVE  /\ Len(walk) \in Nat \ {0} /\ Len(walk) \in 1..Len(walk) /\ Top = walk[Len(walk)]
           /\ WalkedSoFar(trie, walk, exports) /\ WalkOK(trie, walk)
<1>1. Len(walk) \in Nat \ {0}
    BY TrieThatIsRead, FrontIs DEF Walking
<1>2. Top = walk[Len(walk)]
    BY DEF Top, Last
<1>3. WalkedSoFar(trie, walk, exports)
    BY DEF TrieInv, Walking
<1> QED
    BY <1>1, <1>2, <1>3 DEF WalkedSoFar

\* A call that is not skipped is at a node, and its children are as many as they are.
LEMMA CallAtNode ==
    ASSUME TrieInv, Walking, ~Skipped
    PROVE  /\ Top.node # Outside /\ Len(walk) - 1 <= MaxDepth /\ Top.node \in DOMAIN trie
           /\ \A k : k \in 1..ChildCount =>
                k \in Nat \ {0} /\ Node.cut # "count" /\ k \in DOMAIN Node.children
<1>1. Top.node # Outside /\ Len(walk) - 1 <= MaxDepth
    BY LastCall, MaxDepthAssumption DEF Skipped
<1>2. Top.node \in DOMAIN trie
    BY <1>1, LastCall, TrieThatIsRead, CallIsMet
<1> DEFINE a == Top.node
<1> HIDE DEF a
<1>3. a \in DOMAIN trie => Len(trie[a].children) \in Nat /\ DOMAIN trie[a].children = 1..Len(trie[a].children)
    BY TrieThatIsRead DEF TrieOK
<1>4. ASSUME NEW k, k \in 1..ChildCount
      PROVE  k \in Nat \ {0} /\ Node.cut # "count" /\ k \in DOMAIN Node.children
  <2>1. Node = trie[a] /\ a \in DOMAIN trie
      BY <1>2 DEF Node, a
  <2>2. Node.cut # "count"
      BY <1>4 DEF ChildCount
  <2>3. k \in 1..Len(trie[a].children)
      BY <1>4, <2>1, <2>2 DEF ChildCount
  <2> QED
      BY <1>3, <2>1, <2>2, <2>3
<1> QED
    BY <1>1, <1>2, <1>4

\* At first no way has been seen.
LEMMA TrieInit == ExportInit => TrieInv
<1> SUFFICES ASSUME ExportInit PROVE TrieInv
    OBVIOUS
<1>1. StackInv /\ trie \in Tries /\ exports = <<>> /\ trieEnd = "reading"
    BY StackInit DEF ExportInit
<1>2. Listed(exports) /\ Len(exports) = 0
    BY <1>1, EmptyIsListed
<1>3. TrieOK(trie) /\ (trie = <<>> <=> Len(trie) = 0)
  <2>1. trie \in Seq(Range(trie))
      BY <1>1, TriesAssumption
  <2>2. trie = <<>> <=> Len(trie) = 0
      BY <2>1
  <2> QED
      BY <1>1, <2>2, TriesAreOK
<1> DEFINE f == Frame(IF trie = <<>> THEN Outside ELSE 1, <<>>)
<1>4. f = Frame(IF Len(trie) = 0 THEN Outside ELSE 1, <<>>)
    BY <1>3
<1>5. DOMAIN f = {"node", "prefix", "child"}
    BY DEF Frame
<1>6. walk = <<f>>
    BY DEF ExportInit
<1> HIDE DEF f
<1>7. Len(walk) = 1 /\ walk[1] = f
    BY <1>6
<1>8. AreFrames(walk)
  <2>1. \A i \in 1..1 : i = 1
      OBVIOUS
  <2> QED
      BY <1>5, <1>7, <2>1 DEF AreFrames
<1>9. WalkedSoFar(trie, walk, exports)
    BY <1>2, <1>3, <1>4, <1>7, NothingIsSeen
<1> QED
    BY <1>1, <1>2, <1>8, <1>9 DEF TrieInv

\* Each step of the walk keeps what is listed in line with the ways that it has seen.
LEMMA TrieStep == TrieInv /\ [ExportNext]_exportVars => TrieInv'
<1> SUFFICES ASSUME TrieInv, [ExportNext]_exportVars
             PROVE  TrieInv'
    OBVIOUS
<1>0. StackInv' /\ trie' = trie /\ trie \in Tries
  <2>1. StackInv'
      BY StackStep DEF TrieInv
  <2>2. trie' = trie
      BY DEF ExportNext, Visit, Descend, Return, CutOff, Sort, exportVars
  <2> QED
      BY <2>1, <2>2 DEF TrieInv
<1>a. TrieOK(trie) /\ Listed(walk) /\ AreFrames(walk) /\ Listed(exports)
    BY TrieThatIsRead
<1> DEFINE n == Len(walk)
<1>1. CASE Visit
  <2>1. /\ n \in Nat \ {0} /\ n \in 1..n /\ Top = walk[n] /\ WalkedSoFar(trie, walk, exports)
        /\ Top.node # Outside /\ n - 1 <= MaxDepth
      BY <1>1, LastCall, CallAtNode DEF Visit
  <2>2. /\ walk[n].child = 0 /\ trie[walk[n].node].cut \notin {"size", "terminal"}
        /\ walk' = [walk EXCEPT ![n].child = 1] /\ trieEnd' = "reading"
      BY <1>1, <2>1 DEF Visit, Node, Walking
  <2>3. exports' = IF Exported(trie[walk[n].node].terminal, walk[n].prefix)
                   THEN Append(exports, [name |-> walk[n].prefix, kind |-> trie[walk[n].node].terminal])
                   ELSE exports
      BY <1>1, <2>1 DEF Visit, Node
  <2>4. Listed(exports')
      BY <1>a, <2>3, Pushed
  <2>5. /\ Len(walk') = n /\ AreFrames(walk') /\ \A j \in 1..n : j # n => walk'[j] = walk[j]
        /\ walk'[n].node = walk[n].node /\ walk'[n].prefix = walk[n].prefix /\ walk'[n].child = 1
    <3>1. GoesOnIn(walk, n, 1, walk')
        BY <2>2 DEF GoesOnIn
    <3> QED
        BY <1>a, <2>1, <3>1, LastGoesOn
  <2>6. \A j \in 1..(n - 1) : j \in 1..n /\ j # n
      BY <2>1
  <2> HIDE DEF n
  <2>7. \A j \in 1..(n - 1) : walk'[j] = walk[j]
      BY <2>5, <2>6
  <2>8. Len(walk) = n
      BY DEF n
  <2>9. WalkedSoFar(trie, walk', exports')
    <3>1. Visits(trie, walk, exports, walk', exports')
        BY <2>1, <2>2, <2>3, <2>5, <2>7, <2>8 DEF Visits
    <3> QED
        BY <1>a, <2>1, <2>8, <3>1, VisitStep
  <2> QED
      BY <1>0, <2>2, <2>4, <2>5, <2>9 DEF TrieInv
<1>2. CASE Descend
  <2>1. /\ n \in Nat \ {0} /\ n \in 1..n /\ Top = walk[n] /\ WalkedSoFar(trie, walk, exports)
        /\ Top.node # Outside /\ n - 1 <= MaxDepth
      BY <1>2, LastCall, CallAtNode DEF Descend
  <2> DEFINE k == walk[n].child
             m == k + 1
             u == [walk EXCEPT ![n].child = m]
             f == Frame(trie[walk[n].node].children[k].to, walk[n].prefix \o trie[walk[n].node].children[k].label)
  <2>2. /\ k \in Nat \ {0} /\ trie[walk[n].node].cut # "count" /\ k \in DOMAIN trie[walk[n].node].children
        /\ trie[walk[n].node].children[k].to # Unreadable
    <3>1. k \in 1..ChildCount /\ Walking /\ ~Skipped /\ Child.to # Unreadable
        BY <1>2, <2>1 DEF Descend
    <3>2. k \in Nat \ {0} /\ Node.cut # "count" /\ k \in DOMAIN Node.children
        BY <3>1, CallAtNode
    <3> QED
        BY <2>1, <3>1, <3>2 DEF Node, Child
  <2>3. walk' = Append(u, f) /\ trieEnd' = "reading" /\ exports' = exports
      BY <1>2, <2>1 DEF Descend, Child, Node, Walking
  <2>4. DOMAIN f = {"node", "prefix", "child"}
      BY DEF Frame
  <2> HIDE DEF k, m, f
  <2>a. GoesOnIn(walk, n, m, u)
      BY DEF GoesOnIn
  <2> HIDE DEF u
  <2>5. /\ Listed(u) /\ Len(u) = n /\ AreFrames(u) /\ \A j \in 1..n : j # n => u[j] = walk[j]
        /\ u[n].node = walk[n].node /\ u[n].prefix = walk[n].prefix /\ u[n].child = m
      BY <1>a, <2>1, <2>a, LastGoesOn
  <2>6. \A j \in 1..(n - 1) : j \in 1..n /\ j # n
      BY <2>1
  <2> HIDE DEF n, u
  <2>7. /\ Len(walk') = n + 1 /\ walk'[n + 1] = f /\ \A j \in 1..n : walk'[j] = u[j]
      BY <2>3, <2>5, Pushed
  <2>8. Len(walk) = n /\ \A j \in 1..(n - 1) : walk'[j] = walk[j]
      BY <2>5, <2>6, <2>7 DEF n
  <2>9. \A j \in 1..(n + 1) : j \in 1..n \/ j = n + 1
      BY <2>1
  <2>10. AreFrames(walk')
      BY <2>4, <2>5, <2>7, <2>9 DEF AreFrames
  <2>11. walk'[n].node = walk[n].node /\ walk'[n].prefix = walk[n].prefix /\ walk'[n].child = k + 1
      BY <2>1, <2>5, <2>7 DEF m
  <2>12. WalkedSoFar(trie, walk', exports)
    <3>1. walk'[n + 1] = Frame(trie[walk[n].node].children[k].to,
                               walk[n].prefix \o trie[walk[n].node].children[k].label)
        BY <2>7 DEF f
    <3>2. k = walk[n].child /\ walk[n].node # Outside
        BY <2>1 DEF k
    <3>3. Descends(trie, walk, walk')
        BY <2>1, <2>2, <2>7, <2>8, <2>11, <3>1, <3>2 DEF Descends
    <3> QED
        BY <1>a, <2>1, <2>8, <3>3, DescendStep
  <2> QED
      BY <1>0, <1>a, <2>3, <2>10, <2>12 DEF TrieInv
<1>3. CASE Return
  <2>1. /\ n \in Nat \ {0} /\ n \in 1..n /\ Top = walk[n] /\ WalkedSoFar(trie, walk, exports) /\ Walking
      BY <1>3, LastCall DEF Return
  <2>2. trieEnd' = "reading" /\ exports' = exports /\ walk' = Front(walk)
      BY <1>3 DEF Return, Walking
  <2>3. Len(walk') = n - 1 /\ \A j \in 1..(n - 1) : walk'[j] = walk[j]
      BY <1>a, <2>1, <2>2, FrontIs DEF Walking
  <2>4. \/ walk[n].node = Outside \/ n - 1 > MaxDepth
        \/ /\ walk[n].node \in DOMAIN trie
           /\ walk[n].child > IF trie[walk[n].node].cut = "count" THEN 0 ELSE Len(trie[walk[n].node].children)
    <3>1. CASE Skipped
        BY <2>1, <3>1 DEF Skipped
    <3>2. CASE ~Skipped
        BY <1>3, <2>1, <3>2, CallAtNode DEF Return, ChildCount, Node
    <3> QED
        BY <3>1, <3>2
  <2>5. \A j \in 1..(n - 1) : j \in 1..n
      BY <2>1
  <2> HIDE DEF n
  <2>6. Len(walk) = n
      BY DEF n
  <2>7. AreFrames(walk')
      BY <1>a, <2>3, <2>5, <2>6 DEF AreFrames
  <2>8. WalkedSoFar(trie, walk', exports)
      BY <1>a, <2>1, <2>3, <2>4, <2>6, ReturnStep
  <2> QED
      BY <1>0, <1>a, <2>2, <2>7, <2>8 DEF TrieInv
<1>4. CASE CutOff
  <2>1. /\ n \in Nat \ {0} /\ Top = walk[n] /\ WalkOK(trie, walk) /\ Walking /\ ~Skipped
        /\ Top.node # Outside /\ n - 1 <= MaxDepth
      BY <1>4, LastCall, CallAtNode DEF CutOff
  <2> DEFINE k == walk[n].child
  <2>2. \/ trie[walk[n].node].cut \in {"size", "terminal"}
        \/ /\ k \in Nat \ {0} /\ trie[walk[n].node].cut # "count" /\ k \in DOMAIN trie[walk[n].node].children
           /\ trie[walk[n].node].children[k].to = Unreadable
      BY <1>4, <2>1, CallAtNode DEF CutOff, Node, Child
  <2>3. BrokenIn(trie)
      BY <1>a, <2>1, <2>2, CutStep
  <2>4. trieEnd' = "error" /\ exports' = <<>> /\ walk' = walk
      BY <1>4 DEF CutOff
  <2> QED
      BY <1>0, <1>a, <2>3, <2>4, EmptyIsListed DEF TrieInv
<1>5. CASE Sort
  <2>1. trieEnd = "reading" /\ Len(walk) = 0 /\ walk' = walk /\ trieEnd' = "ok"
      BY <1>5, EmptyIsListed DEF Sort
  <2>2. Lists(trie, exports, Exporting(trie)) /\ ~BrokenIn(trie)
      BY <2>1, AllIsSeen DEF TrieInv
  <2>3. exports' = [i \in DOMAIN exports |-> exports[InPlace(exports, i)]]
      BY <1>5 DEF Sort, InPlace, UpTo
  <2>4. \A w \in Exporting(trie) : Len(w) \in Nat
    <3>1. \A w \in Exporting(trie) : w \in Seq(Nat \ {0})
        BY <1>a, MetIs DEF Exporting
    <3> QED
        BY <3>1
  <2>5. Listed(exports') /\ Lists(trie, exports', Exporting(trie)) /\ InOrder(exports')
      BY <1>a, <2>2, <2>3, <2>4, SortedLists
  <2> QED
      BY <1>0, <1>a, <2>1, <2>2, <2>5 DEF TrieInv
<1>6. CASE UNCHANGED exportVars
  <2>1. trie' = trie /\ walk' = walk /\ exports' = exports /\ trieEnd' = trieEnd
      BY <1>6 DEF exportVars
  <2> QED
      BY <1>0, <2>1 DEF TrieInv
<1> QED
    BY <1>1, <1>2, <1>3, <1>4, <1>5, <1>6 DEF ExportNext

\* The nodes that are met and the ways to them are those of the trie that is read.
LEMMA AsInTrie == (\A w : EndOf(w) = EndIn(trie, w)) /\ Met = MetIn(trie)
<1>1. \A w : EndOf(w) = EndIn(trie, w)
    BY DEF EndOf, EndIn
<1>2. Ways = UNION {[1..n -> 1..FanIn(trie)] : n \in 0..MaxDepth}
    BY DEF Ways, Fan, FanIn
<1> QED
    BY <1>1, <1>2 DEF Met, MetIn

\* What the invariant says of a trie that has been read.
LEMMA TrieInvLists == TrieInv => ListsEveryWay
<1> SUFFICES ASSUME TrieInv PROVE ListsEveryWay
    OBVIOUS
<1>0. TrieOK(trie) /\ Listed(exports) /\ DOMAIN exports = 1..Len(exports)
    BY TrieThatIsRead, Pushed
<1>1. ASSUME trieEnd = "ok",
             NEW e \in Range(exports)
                      \cup {[name |-> EndOf(w).prefix, kind |-> trie[EndOf(w).node].terminal] : w \in Met}
      PROVE  Cardinality({k \in DOMAIN exports : exports[k] = e})
               = Cardinality({w \in Met : /\ EndOf(w).prefix = e.name /\ e.name # <<>>
                                          /\ trie[EndOf(w).node].terminal = e.kind /\ e.kind # "none"})
  <2> DEFINE W == {w \in Met : /\ EndOf(w).prefix = e.name /\ e.name # <<>>
                               /\ trie[EndOf(w).node].terminal = e.kind /\ e.kind # "none"}
  <2>1. Lists(trie, exports, Exporting(trie))
      BY <1>1 DEF TrieInv
  <2>2. \E v : e = ExportOf(trie, v)
    <3>1. CASE e \in Range(exports)
      <4>1. PICK k \in 1..Len(exports) : e = exports[k]
          BY <1>0, <3>1 DEF Range
      <4> QED
          BY <2>1, <4>1 DEF Lists
    <3>2. CASE e \notin Range(exports)
      <4>1. PICK w \in Met : e = [name |-> EndOf(w).prefix, kind |-> trie[EndOf(w).node].terminal]
          BY <1>1, <3>2
      <4> QED
          BY <4>1, AsInTrie DEF ExportOf
    <3> QED
        BY <3>1, <3>2
  <2>3. PICK v : e = ExportOf(trie, v)
      BY <2>2
  <2>4. e = [name |-> e.name, kind |-> e.kind]
      BY <2>3 DEF ExportOf
  <2>5. \A w : ExportOf(trie, w) = e <=> EndIn(trie, w).prefix = e.name /\ trie[EndIn(trie, w).node].terminal = e.kind
      BY <2>4 DEF ExportOf
  <2>6. \A w : IsExport(trie, w) <=> trie[EndIn(trie, w).node].terminal # "none" /\ EndIn(trie, w).prefix # <<>>
      BY DEF IsExport, Exported
  <2>7. \A w : w \in W <=> w \in MetIn(trie) /\ IsExport(trie, w) /\ ExportOf(trie, w) = e
      BY <2>5, <2>6, AsInTrie
  <2>8. W = {w \in Exporting(trie) : ExportOf(trie, w) = e}
    <3> HIDE DEF W
    <3> QED
        BY <2>7 DEF Exporting
  <2>9. Cardinality(PlacesOf(exports, e)) = Cardinality(WaysTo(trie, Exporting(trie), e))
      BY <1>0, <2>1, ListsCount
  <2> QED
      BY <2>8, <2>9 DEF PlacesOf, WaysTo
<1>2. trieEnd = "ok" => \A j, k \in DOMAIN exports : j < k => ~Before(exports[k].name, exports[j].name)
    BY <1>0 DEF TrieInv, InOrder
<1>3. BrokenIn(trie) <=> \E w \in Met : Broken(trie[EndOf(w).node])
    BY AsInTrie DEF BrokenIn, NodeOf
<1>4. trieEnd \in {"ok", "error"} => (trieEnd = "error" <=> BrokenIn(trie))
    BY DEF TrieInv
<1> QED
    BY <1>1, <1>2, <1>3, <1>4 DEF ListsEveryWay

\* In every trie, within every limit, a symbol is listed once for each way that leads to a
\* node that exports it, in the order of names, unless a node on such a way is cut off.
THEOREM EveryWayIsListed == ExportSpec => []ListsEveryWay
BY TrieInit, TrieStep, TrieInvLists, PTL DEF ExportSpec
-----------------------------------------------------------------------------
(* Symbol tables.                                                           *)

\* or_insert never changes the name that an address has.
LEMMA NeverReplaced ==
    ASSUME NEW va, NEW name, PutIfAbsent(va, name)
    PROVE  \A x \in DOMAIN byAddr : x \in DOMAIN byAddr' /\ byAddr'[x] = byAddr[x]
BY DEF PutIfAbsent, Put

\* insert keeps the other addresses, and all that had a name still have one.
LEMMA StillNamed ==
    ASSUME NEW va, NEW name, Put(va, name)
    PROVE  \A x \in DOMAIN byAddr : x \in DOMAIN byAddr'
BY DEF Put

\* No stub and no literal takes away or changes a name that an address has, and no
\* symbol takes one away: in every image the sources of names count in their turn.
THEOREM SourcesAlwaysInTurn == SymSpec => SourcesAreInTurn
<1> DEFINE A == \A va \in DOMAIN byAddr :
                    /\ va \in DOMAIN byAddr'
                    /\ symStage # "symbols" => byAddr'[va] = byAddr[va]
<1>1. [SymNext]_symVars => [A]_symVars
    <2> SUFFICES ASSUME SymNext PROVE A
        OBVIOUS
    <2>1. CASE TakeSymbol
        <3>1. symStage = "symbols"
            BY <2>1 DEF TakeSymbol, NameSymbols
        <3>2. CASE UNCHANGED byAddr
            BY <3>2
        <3>3. CASE ~UNCHANGED byAddr
            <4>1. \E va, name : Put(va, name)
                BY <2>1, <3>3 DEF TakeSymbol
            <4> QED
                BY <3>1, <4>1, StillNamed
        <3> QED
            BY <3>2, <3>3
    <2>2. CASE TakeStub
        <3>1. UNCHANGED byAddr \/ \E va, name : PutIfAbsent(va, name)
            BY <2>2 DEF TakeStub
        <3> QED
            BY <3>1, NeverReplaced
    <2>3. CASE TakeLiteral
        <3>1. \E va, name : PutIfAbsent(va, name)
            BY <2>3 DEF TakeLiteral
        <3> QED
            BY <3>1, NeverReplaced
    <2>4. CASE UNCHANGED byAddr
        BY <2>4
    <2> QED
        BY <2>1, <2>2, <2>3, <2>4 DEF SymNext, SymbolsEnd, StubsOfSectionEnd, StubsEnd,
           LiteralsEnd, SymbolsFail
<1> QED
    BY <1>1, PTL DEF SymSpec, SourcesAreInTurn

\* Where the search for names has come to: what the image says is taken in its turn.
Taken(e) ==
    CASE e[1] \in {1, 2} -> symStage = "symbols" => e[2] < at
      [] e[1] = 3 -> \/ symStage \in {"literals", "ok"}
                     \/ symStage = "stubs" /\ (e[2] < at \/ (e[2] = at /\ e[3] < stub))
      [] OTHER -> symStage = "ok" \/ (symStage = "literals" /\ e[2] < at)

SoFar(va) == {e \in Said(va) : Taken(e)}

\* What an address has is the best of what was said of it.
HasBest(va, names, said) ==
    /\ va \notin DOMAIN names => said = {}
    /\ va \in DOMAIN names =>
         \E best \in said : /\ \A other \in said : Outranks(best, other)
                            /\ names[va].name = best[4]
                            /\ best[1] \in {1, 2} => (names[va].start = "marked" <=> best[1] = 1)

\* The names are, at each point of the search, the best of what was said so far.
SymInv ==
    /\ table \in SymbolFiles
    /\ symStage \in {"symbols", "stubs", "literals", "ok", "error"}
    /\ at \in Nat \ {0} /\ stub \in Nat
    /\ symStage = "stubs" => table.symtab = "there"
    /\ symStage # "error" => \A va : HasBest(va, byAddr, SoFar(va))

\* The tables of an image, by their places.
LEMMA TablesAreTyped ==
    ASSUME table \in SymbolFiles
    PROVE  /\ DOMAIN table.stubs = 1..Len(table.stubs)
           /\ Len(table.symbols) \in Nat /\ Len(table.indirect) \in Nat
           /\ Len(table.stubs) \in Nat /\ Len(table.literals) \in Nat
           /\ \A k \in 1..Len(table.stubs) :
                table.stubs[k].first \in Nat /\ table.stubs[k].count \in Nat
           /\ \A k \in 1..Len(table.indirect) : table.indirect[k] \in Nat \cup {Local}
<1> DEFINE Stub == [addr : Nat, size : Nat, first : Nat, count : Nat]
<1>1. table.stubs \in Seq(Stub)
    BY SymbolFilesAssumption
<1>2. table.indirect \in Seq(Nat \cup {Local})
    BY SymbolFilesAssumption
<1>3. Len(table.symbols) \in Nat /\ Len(table.literals) \in Nat
    BY SymbolFilesAssumption
<1>4. \A k \in 1..Len(table.stubs) : table.stubs[k] \in Stub
    <2> HIDE DEF Stub
    <2> QED
        BY <1>1, ElementOfSeq
<1>5. DOMAIN table.stubs = 1..Len(table.stubs) /\ Len(table.stubs) \in Nat
    BY <1>1
<1> QED
    BY <1>2, <1>3, <1>4, <1>5

\* What an image says of the name of an address has a standing and a place in the image.
LEMMA SaidIsPlaced ==
    ASSUME table \in SymbolFiles, NEW va, NEW e \in Said(va)
    PROVE  \/ /\ e[1] \in {1, 2} /\ e[2] \in 1..Len(table.symbols) /\ e[3] = 0
              /\ table.symtab = "there" /\ e[4] = table.symbols[e[2]].name
              /\ Eligible(table.symbols[e[2]]) /\ table.symbols[e[2]].value = va
              /\ e[1] = 1 <=> table.symbols[e[2]].start = "marked"
           \/ /\ e[1] = 3 /\ e[2] \in 1..Len(table.stubs) /\ e[3] \in Nat
              /\ table.symtab = "there" /\ table.dysymtab = "there" /\ StubSays(e[2], e[3], va)
              /\ e[4] = table.symbols[table.indirect[table.stubs[e[2]].first + e[3] + 1] + 1].name
           \/ /\ e[1] = 4 /\ e[2] \in 1..Len(table.literals) /\ e[3] = 0
              /\ table.literals[e[2]].addr = va /\ e[4] = table.literals[e[2]].name
<1>1. /\ DOMAIN table.symbols = 1..Len(table.symbols)
      /\ DOMAIN table.stubs = 1..Len(table.stubs)
      /\ DOMAIN table.literals = 1..Len(table.literals)
    BY SymbolFilesAssumption
<1>2. CASE table.symtab = "there" /\ e \in SaidBySymbols(va)
    BY <1>1, <1>2 DEF SaidBySymbols
<1>3. CASE table.symtab = "there" /\ table.dysymtab = "there" /\ e \in SaidByStubs(va)
    <2>1. PICK q \in UNION {{k} \X (0..table.stubs[k].count) : k \in DOMAIN table.stubs} :
              /\ StubSays(q[1], q[2], va)
              /\ e = <<3, q[1], q[2],
                       table.symbols[table.indirect[table.stubs[q[1]].first + q[2] + 1] + 1].name>>
        BY <1>3 DEF SaidByStubs
    <2>2. q[1] \in DOMAIN table.stubs /\ q[2] \in Nat
        <3>1. PICK k \in DOMAIN table.stubs : q \in {k} \X (0..table.stubs[k].count)
            BY ONLY <2>1
        <3> QED
            BY ONLY <3>1
    <2> QED
        BY <1>1, <1>3, <2>1, <2>2
<1>4. CASE e \in SaidByLiterals(va)
    BY <1>1, <1>4 DEF SaidByLiterals
<1> QED
    BY <1>2, <1>3, <1>4 DEF Said

\* One thing more is said of an address, which nothing that was said before comes after:
\* or_insert keeps the best, and insert does when the one before is not as good.
LEMMA OneMore ==
    ASSUME NEW va, NEW names, NEW said, NEW e, NEW n, NEW new,
           HasBest(va, names, said),
           \A o \in said : Outranks(o, e) \/ (e[1] = 1 /\ o[1] # 1),
           \A o \in said \cup {e} : o[1] \in 1..4 /\ o[2] \in Nat /\ o[3] \in Nat,
           n.name = e[4], e[1] \in {1, 2} => (n.start = "marked" <=> e[1] = 1),
           e[1] \in {1, 2} => \A o \in said : o[1] \in {1, 2} /\ o[3] = 0 /\ o[2] < e[2],
           e[3] \in Nat,
           va \in DOMAIN new,
           \/ va \notin DOMAIN names /\ new[va] = n
           \/ va \in DOMAIN names /\ new[va] = n /\ names[va].start # "marked" /\ e[1] = 1
           \/ va \in DOMAIN names /\ new[va] = names[va]
              /\ ~(e[1] = 1 /\ names[va].start # "marked")
    PROVE  HasBest(va, new, said \cup {e})
<1>0. Outranks(e, e)
    BY DEF Outranks
<1>1. CASE va \notin DOMAIN names /\ new[va] = n
    BY <1>0, <1>1 DEF HasBest
<1>2. CASE va \in DOMAIN names /\ new[va] = n /\ names[va].start # "marked" /\ e[1] = 1
    <2>1. \A o \in said : o[1] = 2
        BY <1>2 DEF HasBest, Outranks
    <2>2. \A o \in said : Outranks(e, o)
        BY <1>2, <2>1 DEF Outranks
    <2> QED
        BY <1>0, <1>2, <2>2 DEF HasBest
<1>3. CASE /\ va \in DOMAIN names /\ new[va] = names[va]
           /\ ~(e[1] = 1 /\ names[va].start # "marked")
    <2>1. PICK best \in said : /\ \A other \in said : Outranks(best, other)
                               /\ names[va].name = best[4]
                               /\ best[1] \in {1, 2} => (names[va].start = "marked" <=> best[1] = 1)
        BY <1>3 DEF HasBest
    <2>2. Outranks(best, e)
        BY <1>3, <2>1 DEF Outranks
    <2> QED
        BY <1>3, <2>1, <2>2 DEF HasBest
<1> QED
    BY <1>1, <1>2, <1>3

\* What an image says does not change while it is read.
LEMMA SaidStays ==
    ASSUME UNCHANGED table, NEW va
    PROVE  Said(va)' = Said(va)
<1>1. SaidBySymbols(va)' = SaidBySymbols(va)
    BY DEF SaidBySymbols
<1>2. \A k, i : StubSays(k, i, va)' <=> StubSays(k, i, va)
    BY DEF StubSays
<1>3. SaidByStubs(va)' = SaidByStubs(va)
    BY <1>2 DEF SaidByStubs
<1>4. SaidByLiterals(va)' = SaidByLiterals(va)
    BY DEF SaidByLiterals
<1> QED
    BY <1>1, <1>3, <1>4 DEF Said

\* A step that takes nothing that is said keeps the names.
LEMMA NothingTaken ==
    ASSUME SymInv, symStage # "error", UNCHANGED <<table, byAddr>>,
           \A va : \A e \in Said(va) : Taken(e)' <=> Taken(e)
    PROVE  \A va : HasBest(va, byAddr, SoFar(va))'
<1> SUFFICES ASSUME NEW va PROVE HasBest(va, byAddr, SoFar(va))'
    OBVIOUS
<1>1. Said(va)' = Said(va)
    BY SaidStays
<1>2. SoFar(va)' = SoFar(va)
    BY <1>1 DEF SoFar
<1>3. HasBest(va, byAddr, SoFar(va))
    BY DEF SymInv
<1> QED
    BY <1>2, <1>3 DEF HasBest

\* The standing of what is said tells where it is from.
LEMMA SaidOnce ==
    ASSUME NEW x, NEW o \in Said(x)
    PROVE  /\ o[1] \in {1, 2} => o \in SaidBySymbols(x) /\ table.symtab = "there"
           /\ o[1] = 3 => o \in SaidByStubs(x) /\ table.symtab = "there" /\ table.dysymtab = "there"
           /\ o[1] = 4 => o \in SaidByLiterals(x)
<1>1. o \in SaidBySymbols(x) => o[1] \in {1, 2}
    BY DEF SaidBySymbols
<1>2. o \in SaidByStubs(x) => o[1] = 3
    <2>1. ASSUME o \in SaidByStubs(x)
          PROVE  \E a, b, c : o = <<3, a, b, c>>
        BY <2>1 DEF SaidByStubs
    <2> QED
        BY <2>1
<1>3. o \in SaidByLiterals(x) => o[1] = 4
    BY DEF SaidByLiterals
<1> QED
    BY <1>1, <1>2, <1>3 DEF Said

\* Nothing was said at the start.
LEMMA SymInitInv == SymInit => SymInv
<1> SUFFICES ASSUME SymInit PROVE SymInv
    OBVIOUS
<1>1. /\ table \in SymbolFiles /\ symStage = "symbols" /\ at = 1 /\ stub = 0
      /\ DOMAIN byAddr = {}
    BY DEF SymInit
<1>2. ASSUME NEW va PROVE SoFar(va) = {}
    <2> SUFFICES ASSUME NEW e \in Said(va), Taken(e) PROVE FALSE
        BY DEF SoFar
    <2> QED
        BY <1>1, SaidIsPlaced DEF Taken
<1> QED
    BY <1>1, <1>2 DEF SymInv, HasBest
\* A step that takes one thing that is said of an address, and changes the names as
\* insert or or_insert does, keeps the names the best.
LEMMA OneTaken ==
    ASSUME SymInv, symStage # "error", UNCHANGED table, NEW va, NEW e \in Said(va), NEW n,
           \A x : \A o \in Said(x) : Taken(o)' <=> (Taken(o) \/ (x = va /\ o = e)),
           \A o \in SoFar(va) : Outranks(o, e) \/ (e[1] = 1 /\ o[1] # 1),
           e[1] \in {1, 2} => \A o \in SoFar(va) : o[1] \in {1, 2} /\ o[2] < e[2],
           n.name = e[4], e[1] \in {1, 2} => (n.start = "marked" <=> e[1] = 1),
           \/ /\ va \in DOMAIN byAddr /\ UNCHANGED byAddr
              /\ ~(e[1] = 1 /\ byAddr[va].start # "marked")
           \/ /\ Put(va, n)
              /\ va \notin DOMAIN byAddr \/ (byAddr[va].start # "marked" /\ e[1] = 1)
    PROVE  \A x : HasBest(x, byAddr, SoFar(x))'
<1> SUFFICES ASSUME NEW x PROVE HasBest(x, byAddr, SoFar(x))'
    OBVIOUS
<1>1. Said(x)' = Said(x)
    BY SaidStays
<1>2. HasBest(x, byAddr, SoFar(x)) /\ table \in SymbolFiles
    BY DEF SymInv
<1>3. CASE x # va
    <2>1. SoFar(x)' = SoFar(x)
        BY <1>1, <1>3 DEF SoFar
    <2>2. (x \in DOMAIN byAddr' <=> x \in DOMAIN byAddr)
          /\ (x \in DOMAIN byAddr => byAddr'[x] = byAddr[x])
        BY <1>3 DEF Put
    <2> QED
        BY <1>2, <2>1, <2>2 DEF HasBest
<1>4. CASE x = va
    <2>1. SoFar(x)' = SoFar(x) \cup {e}
        BY <1>1, <1>4 DEF SoFar
    <2>2. \A o \in SoFar(x) \cup {e} : o \in Said(va)
        BY <1>4 DEF SoFar
    <2>3. \A o \in Said(va) : /\ o[1] \in 1..4 /\ o[2] \in Nat /\ o[3] \in Nat
                              /\ o[1] \in {1, 2} => o[3] = 0
        <3> SUFFICES ASSUME NEW o \in Said(va)
                     PROVE  /\ o[1] \in 1..4 /\ o[2] \in Nat /\ o[3] \in Nat
                            /\ o[1] \in {1, 2} => o[3] = 0
            OBVIOUS
        <3>1. table \in SymbolFiles
            BY <1>2
        <3> QED
            BY <3>1, SaidIsPlaced
    <2>4. /\ va \in DOMAIN byAddr'
          /\ \/ va \notin DOMAIN byAddr /\ byAddr'[va] = n
             \/ va \in DOMAIN byAddr /\ byAddr'[va] = n /\ byAddr[va].start # "marked" /\ e[1] = 1
             \/ va \in DOMAIN byAddr /\ byAddr'[va] = byAddr[va]
                /\ ~(e[1] = 1 /\ byAddr[va].start # "marked")
        BY DEF Put
    <2> DEFINE said == SoFar(va)
               names == byAddr
               new == byAddr'
    <2>5. HasBest(va, names, said)
        BY <1>2, <1>4
    <2>6. /\ \A o \in said : Outranks(o, e) \/ (e[1] = 1 /\ o[1] # 1)
          /\ \A o \in said \cup {e} : o[1] \in 1..4 /\ o[2] \in Nat /\ o[3] \in Nat
          /\ e[1] \in {1, 2} => \A o \in said : o[1] \in {1, 2} /\ o[3] = 0 /\ o[2] < e[2]
          /\ e[3] \in Nat
        BY <1>4, <2>2, <2>3
    <2>7. /\ va \in DOMAIN new
          /\ \/ va \notin DOMAIN names /\ new[va] = n
             \/ va \in DOMAIN names /\ new[va] = n /\ names[va].start # "marked" /\ e[1] = 1
             \/ va \in DOMAIN names /\ new[va] = names[va]
                /\ ~(e[1] = 1 /\ names[va].start # "marked")
        BY <2>4
    <2> HIDE DEF said, names, new
    <2>8. HasBest(va, new, said \cup {e})
        BY <2>5, <2>6, <2>7, OneMore
    <2> QED
        BY <1>4, <2>1, <2>8 DEF said, new, HasBest
<1> QED
    BY <1>3, <1>4

\* A symbol is taken: a name that is marked comes before one that is not.
LEMMA TakeSymbolKeeps == SymInv /\ TakeSymbol => SymInv'
<1> SUFFICES ASSUME SymInv, TakeSymbol PROVE SymInv'
    OBVIOUS
<1> DEFINE s == table.symbols[at]
           n == [name |-> s.name, start |-> s.start]
           e == <<IF s.start = "marked" THEN 1 ELSE 2, at, 0, s.name>>
<1>1. /\ table \in SymbolFiles /\ symStage = "symbols" /\ table.symtab = "there"
      /\ UNCHANGED <<table, symStage, stub>> /\ at' = at + 1 /\ at \in Nat \ {0}
      /\ stub \in Nat /\ at \in 1..Len(table.symbols)
    BY SymbolFilesAssumption DEF TakeSymbol, NameSymbols, SymInv
<1>2. DOMAIN table.symbols = 1..Len(table.symbols)
    BY <1>1, SymbolFilesAssumption
<1>3. ASSUME NEW x, NEW o \in Said(x)
      PROVE  /\ o[1] \in {1, 2, 3, 4} /\ o[2] \in Nat
             /\ Taken(o) <=> (o[1] \in {1, 2} /\ o[2] < at)
             /\ Taken(o)' <=> (o[1] \in {1, 2} /\ o[2] < at + 1)
    <2>1. o[1] \in {1, 2, 3, 4} /\ o[2] \in Nat
        BY <1>1, SaidIsPlaced
    <2> QED
        BY <1>1, <2>1 DEF Taken
<1>4. CASE Eligible(s)
    <2>1. e \in Said(s.value)
        BY <1>1, <1>2, <1>4 DEF Said, SaidBySymbols
    <2>2. ASSUME NEW x, NEW o \in Said(x), o[1] \in {1, 2}, o[2] = at
          PROVE  x = s.value /\ o = e
        <3>1. o \in SaidBySymbols(x)
            BY <2>2, SaidOnce
        <3> QED
            BY <3>1, <2>2 DEF SaidBySymbols
    <2>3. \A x : \A o \in Said(x) : Taken(o)' <=> (Taken(o) \/ (x = s.value /\ o = e))
        <3> SUFFICES ASSUME NEW x, NEW o \in Said(x)
                     PROVE  Taken(o)' <=> (Taken(o) \/ (x = s.value /\ o = e))
            OBVIOUS
        <3>1. /\ o[1] \in {1, 2, 3, 4} /\ o[2] \in Nat
              /\ Taken(o) <=> (o[1] \in {1, 2} /\ o[2] < at)
              /\ Taken(o)' <=> (o[1] \in {1, 2} /\ o[2] < at + 1)
            BY <1>3
        <3>2. o[1] \in {1, 2} /\ o[2] = at => x = s.value /\ o = e
            BY <2>2
        <3>3. o = e => o[1] \in {1, 2} /\ o[2] = at
            OBVIOUS
        <3> HIDE DEF s, e
        <3> QED
            BY <1>1, <3>1, <3>2, <3>3
    <2>4. \A o \in SoFar(s.value) : o[1] \in {1, 2} /\ o[2] < at
        BY <1>3 DEF SoFar
    <2>5. e[1] \in {1, 2} /\ e[2] = at /\ n.name = e[4] /\ (n.start = "marked" <=> e[1] = 1)
        OBVIOUS
    <2>6. IF s.value \notin DOMAIN byAddr \/ Replaces(byAddr[s.value], s)
          THEN Put(s.value, n) ELSE UNCHANGED byAddr
        BY <1>4 DEF TakeSymbol
    <2> DEFINE va == s.value
    <2>7. \A o \in SoFar(va) : Outranks(o, e) \/ (e[1] = 1 /\ o[1] # 1)
        <3> HIDE DEF e
        <3> QED
            BY <2>4, <2>5 DEF Outranks
    <2>8. \/ /\ va \in DOMAIN byAddr /\ UNCHANGED byAddr
             /\ ~(e[1] = 1 /\ byAddr[va].start # "marked")
          \/ /\ Put(va, n)
             /\ va \notin DOMAIN byAddr \/ (byAddr[va].start # "marked" /\ e[1] = 1)
        BY <2>6 DEF Replaces
    <2>9. symStage # "error" /\ UNCHANGED table
        BY <1>1
    <2> HIDE DEF va, e, n, s
    <2>10. \A x : HasBest(x, byAddr, SoFar(x))'
        BY <2>1, <2>3, <2>4, <2>5, <2>7, <2>8, <2>9, OneTaken DEF va
    <2> QED
        BY <1>1, <2>10 DEF SymInv
<1>5. CASE ~Eligible(s)
    <2>1. \A x : \A o \in Said(x) : ~(o[1] \in {1, 2} /\ o[2] = at)
        BY <1>1, <1>5, SaidIsPlaced
    <2>2. \A x : \A o \in Said(x) : Taken(o)' <=> Taken(o)
        <3> SUFFICES ASSUME NEW x, NEW o \in Said(x) PROVE Taken(o)' <=> Taken(o)
            OBVIOUS
        <3> QED
            BY <1>1, <1>3, <2>1
    <2>3. UNCHANGED <<table, byAddr>> /\ symStage # "error"
        BY <1>1, <1>5 DEF TakeSymbol
    <2>4. \A x : HasBest(x, byAddr, SoFar(x))'
        BY <2>2, <2>3, NothingTaken
    <2> QED
        BY <1>1, <2>4 DEF SymInv
<1> QED
    BY <1>4, <1>5

\* A stub is taken: it names an address that no symbol and no stub before it names.
LEMMA TakeStubKeeps == SymInv /\ TakeStub => SymInv'
<1> SUFFICES ASSUME SymInv, TakeStub PROVE SymInv'
    OBVIOUS
<1> DEFINE sect == table.stubs[at]
           va == sect.addr + stub * sect.size
           i == table.indirect[sect.first + stub + 1]
           s == table.symbols[i + 1]
           n == [name |-> s.name, start |-> s.start]
           e == <<3, at, stub, s.name>>
<1>1. /\ table \in SymbolFiles /\ symStage = "stubs" /\ table.symtab = "there"
      /\ table.dysymtab = "there"
      /\ UNCHANGED <<table, symStage, at>> /\ stub' = stub + 1 /\ at \in Nat \ {0}
      /\ stub \in Nat /\ at \in 1..Len(table.stubs) /\ sect.size # 0
    <2>1. Len(table.stubs) \in Nat /\ at \in Nat \ {0} /\ at <= Len(table.stubs)
        BY TablesAreTyped DEF TakeStub, InSection, SymInv
    <2>2. at \in 1..Len(table.stubs)
        BY <2>1
    <2> QED
        BY <2>1, <2>2 DEF TakeStub, InSection, NameStubs, SymInv, Section
<1>2. /\ DOMAIN table.stubs = 1..Len(table.stubs) /\ at \in DOMAIN table.stubs
      /\ sect.count \in Nat /\ sect.first \in Nat /\ Len(table.indirect) \in Nat
      /\ Len(table.symbols) \in Nat
    BY <1>1, TablesAreTyped
<1>3. stub < sect.count /\ sect.first + stub < Len(table.indirect)
    <2>1. stub < Min({sect.count, Max({0, Len(table.indirect) - sect.first})})
        BY DEF TakeStub, StubCount, Section
    <2> DEFINE c == sect.count
               d == Len(table.indirect) - sect.first
    <2>2. c \in Int /\ d \in Int /\ stub \in Nat /\ stub < Min({c, Max({0, d})})
        BY <1>1, <1>2, <2>1
    <2> HIDE DEF c, d
    <2>3. Max({0, d}) \in {0, d} /\ (Max({0, d}) = IF d > 0 THEN d ELSE 0)
        BY <2>2 DEF Max
    <2>4. stub < c /\ stub < Max({0, d})
        BY <2>2, <2>3 DEF Min
    <2>5. stub < c /\ stub < d
        BY <2>2, <2>3, <2>4
    <2> QED
        BY <1>1, <1>2, <2>5 DEF c, d
<1>4. i \in Nat \cup {Local}
    <2> DEFINE f == sect.first
               len == Len(table.indirect)
    <2>1. f \in Nat /\ stub \in Nat /\ len \in Nat /\ f + stub < len
        BY <1>1, <1>2, <1>3
    <2> HIDE DEF f, len
    <2>2. f + stub + 1 \in 1..len
        BY <2>1
    <2>3. \A k \in 1..len : table.indirect[k] \in Nat \cup {Local}
        BY <1>1, TablesAreTyped DEF len
    <2> QED
        BY <2>2, <2>3 DEF f
<1>5. ASSUME NEW x, NEW o \in Said(x)
      PROVE  /\ Taken(o) <=> \/ o[1] \in {1, 2}
                             \/ o[1] = 3 /\ (o[2] < at \/ (o[2] = at /\ o[3] < stub))
             /\ Taken(o)' <=> \/ o[1] \in {1, 2}
                              \/ o[1] = 3 /\ (o[2] < at \/ (o[2] = at /\ o[3] < stub + 1))
             /\ o[1] \in {1, 2, 3, 4} /\ o[2] \in Nat /\ o[3] \in Nat
    <2>1. o[1] \in {1, 2, 3, 4} /\ o[2] \in Nat /\ o[3] \in Nat
        BY <1>1, SaidIsPlaced
    <2> QED
        BY <1>1, <2>1 DEF Taken
<1>6. i # Local /\ i < Len(table.symbols) <=> i \in 0..(Len(table.symbols) - 1)
    BY <1>2, <1>4 DEF Local
<1> HIDE DEF va, s, i
<1>7. CASE i # Local /\ i < Len(table.symbols) /\ s.name # NoName
    <2>1. e \in Said(va)
        <3>1. StubSays(at, stub, va)
            BY <1>1, <1>3, <1>6, <1>7 DEF StubSays, va, s, i
        <3> DEFINE q == <<at, stub>>
        <3>2. q \in UNION {{k} \X (0..table.stubs[k].count) : k \in DOMAIN table.stubs}
            <4>1. q \in {at} \X (0..table.stubs[at].count)
                BY <1>1, <1>2, <1>3
            <4> QED
                BY <1>2, <4>1
        <3>3. e = <<3, q[1], q[2],
                   table.symbols[table.indirect[table.stubs[q[1]].first + q[2] + 1] + 1].name>>
            BY DEF s, i
        <3>4. StubSays(q[1], q[2], va)
            BY <3>1
        <3> HIDE DEF q, e
        <3>5. e \in SaidByStubs(va)
            BY <3>2, <3>3, <3>4 DEF SaidByStubs
        <3> QED
            BY <1>1, <3>5 DEF Said
    <2>2. ASSUME NEW x, NEW o \in Said(x), o[1] = 3, o[2] = at, o[3] = stub
          PROVE  x = va /\ o = e
        <3>1. o \in SaidByStubs(x)
            BY <2>2, SaidOnce
        <3>2. PICK q \in UNION {{k} \X (0..table.stubs[k].count) : k \in DOMAIN table.stubs} :
              /\ StubSays(q[1], q[2], x)
              /\ o = <<3, q[1], q[2],
                       table.symbols[table.indirect[table.stubs[q[1]].first + q[2] + 1] + 1].name>>
            BY <3>1 DEF SaidByStubs
        <3>3. q[1] = at /\ q[2] = stub
            BY <2>2, <3>2
        <3>4. StubSays(at, stub, x)
            BY <3>2, <3>3
        <3>5. x = va
            BY <3>4 DEF StubSays, va
        <3> QED
            BY <3>2, <3>3, <3>5 DEF s, i
    <2>3. \A x : \A o \in Said(x) : Taken(o)' <=> (Taken(o) \/ (x = va /\ o = e))
        <3> SUFFICES ASSUME NEW x, NEW o \in Said(x)
                     PROVE  Taken(o)' <=> (Taken(o) \/ (x = va /\ o = e))
            OBVIOUS
        <3>1. /\ Taken(o) <=> \/ o[1] \in {1, 2}
                              \/ o[1] = 3 /\ (o[2] < at \/ (o[2] = at /\ o[3] < stub))
              /\ Taken(o)' <=> \/ o[1] \in {1, 2}
                               \/ o[1] = 3 /\ (o[2] < at \/ (o[2] = at /\ o[3] < stub + 1))
              /\ o[1] \in {1, 2, 3, 4} /\ o[2] \in Nat /\ o[3] \in Nat
            BY <1>5
        <3>2. o[1] = 3 /\ o[2] = at /\ o[3] = stub => x = va /\ o = e
            BY <2>2
        <3>3. o = e => o[1] = 3 /\ o[2] = at /\ o[3] = stub
            OBVIOUS
        <3> HIDE DEF e
        <3> QED
            BY <1>1, <3>1, <3>2, <3>3
    <2>4. e[1] = 3 /\ e[2] = at /\ e[3] = stub /\ n.name = e[4]
        OBVIOUS
    <2>5. PutIfAbsent(va, n)
        BY <1>7 DEF TakeStub, Section, va, s, i
    <2> HIDE DEF e, n, sect
    <2>6. \A o \in SoFar(va) : Outranks(o, e)
        <3> SUFFICES ASSUME NEW o \in Said(va), Taken(o) PROVE Outranks(o, e)
            BY DEF SoFar
        <3>1. /\ \/ o[1] \in {1, 2}
                 \/ o[1] = 3 /\ (o[2] < at \/ (o[2] = at /\ o[3] < stub))
              /\ o[1] \in {1, 2, 3, 4} /\ o[2] \in Nat /\ o[3] \in Nat
            BY <1>5
        <3> QED
            BY <1>1, <2>4, <3>1 DEF Outranks
    <2>7. \/ va \in DOMAIN byAddr /\ UNCHANGED byAddr /\ ~(e[1] = 1 /\ byAddr[va].start # "marked")
          \/ Put(va, n) /\ (va \notin DOMAIN byAddr \/ (byAddr[va].start # "marked" /\ e[1] = 1))
        BY <2>4, <2>5 DEF PutIfAbsent
    <2>8. symStage # "error" /\ UNCHANGED table
        BY <1>1
    <2>9. \A x : HasBest(x, byAddr, SoFar(x))'
        <3>1. e[1] \notin {1, 2}
            BY <2>4
        <3> QED
            BY <2>1, <2>3, <2>4, <2>6, <2>7, <2>8, <3>1, OneTaken
    <2> QED
        BY <1>1, <2>9 DEF SymInv
<1>8. CASE ~(i # Local /\ i < Len(table.symbols) /\ s.name # NoName)
    <2>1. \A x : ~StubSays(at, stub, x)
        BY <1>6, <1>8 DEF StubSays, s, i
    <2>2. \A x : \A o \in Said(x) : Taken(o)' <=> Taken(o)
        <3> SUFFICES ASSUME NEW x, NEW o \in Said(x) PROVE Taken(o)' <=> Taken(o)
            OBVIOUS
        <3>1. ~(o[1] = 3 /\ o[2] = at /\ o[3] = stub)
            BY <1>1, <2>1, SaidIsPlaced
        <3>2. /\ Taken(o) <=> \/ o[1] \in {1, 2}
                              \/ o[1] = 3 /\ (o[2] < at \/ (o[2] = at /\ o[3] < stub))
              /\ Taken(o)' <=> \/ o[1] \in {1, 2}
                               \/ o[1] = 3 /\ (o[2] < at \/ (o[2] = at /\ o[3] < stub + 1))
              /\ o[1] \in {1, 2, 3, 4} /\ o[2] \in Nat /\ o[3] \in Nat
            BY <1>5
        <3> QED
            BY <1>1, <3>1, <3>2
    <2>3. UNCHANGED <<table, byAddr>> /\ symStage # "error"
        BY <1>1, <1>8 DEF TakeStub, Section, s, i
    <2>4. \A x : HasBest(x, byAddr, SoFar(x))'
        BY <2>2, <2>3, NothingTaken
    <2> QED
        BY <1>1, <2>4 DEF SymInv
<1> QED
    BY <1>7, <1>8

\* A literal is taken: it names an address that nothing before it names.
LEMMA TakeLiteralKeeps == SymInv /\ TakeLiteral => SymInv'
<1> SUFFICES ASSUME SymInv, TakeLiteral PROVE SymInv'
    OBVIOUS
<1> DEFINE s == table.literals[at]
           va == s.addr
           n == [name |-> s.name, start |-> "plain"]
           e == <<4, at, 0, s.name>>
<1>1. /\ table \in SymbolFiles /\ symStage = "literals"
      /\ UNCHANGED <<table, symStage, stub>> /\ at' = at + 1 /\ at \in Nat \ {0}
      /\ stub \in Nat /\ at \in DOMAIN table.literals
    BY SymbolFilesAssumption DEF TakeLiteral, SymInv
<1>2. ASSUME NEW x, NEW o \in Said(x)
      PROVE  /\ Taken(o) <=> (o[1] # 4 \/ o[2] < at)
             /\ Taken(o)' <=> (o[1] # 4 \/ o[2] < at + 1)
             /\ o[1] \in {1, 2, 3, 4} /\ o[2] \in Nat
             /\ o[1] = 4 => o[3] = 0
    <2>1. o[1] \in {1, 2, 3, 4} /\ o[2] \in Nat /\ (o[1] = 4 => o[3] = 0)
        BY <1>1, SaidIsPlaced
    <2> QED
        BY <1>1, <2>1 DEF Taken
<1>3. e \in Said(va)
    BY <1>1 DEF Said, SaidByLiterals
<1>4. ASSUME NEW x, NEW o \in Said(x), o[1] = 4, o[2] = at
      PROVE  x = va /\ o = e
    <2>1. o \in SaidByLiterals(x)
        BY <1>4, SaidOnce
    <2> QED
        BY <1>4, <2>1 DEF SaidByLiterals
<1>5. e[1] = 4 /\ e[2] = at /\ e[3] = 0 /\ n.name = e[4]
    OBVIOUS
<1>6. PutIfAbsent(va, n)
    BY DEF TakeLiteral
<1> HIDE DEF e, n, va, s
<1>7. \A x : \A o \in Said(x) : Taken(o)' <=> (Taken(o) \/ (x = va /\ o = e))
    <2> SUFFICES ASSUME NEW x, NEW o \in Said(x)
                 PROVE  Taken(o)' <=> (Taken(o) \/ (x = va /\ o = e))
        OBVIOUS
    <2>1. /\ Taken(o) <=> (o[1] # 4 \/ o[2] < at)
          /\ Taken(o)' <=> (o[1] # 4 \/ o[2] < at + 1)
          /\ o[1] \in {1, 2, 3, 4} /\ o[2] \in Nat
        BY <1>2
    <2>2. o[1] = 4 /\ o[2] = at => x = va /\ o = e
        BY <1>4
    <2> QED
        BY <1>1, <1>5, <2>1, <2>2
<1>8. \A o \in SoFar(va) : Outranks(o, e)
    <2> SUFFICES ASSUME NEW o \in Said(va), Taken(o) PROVE Outranks(o, e)
        BY DEF SoFar
    <2>1. (o[1] # 4 \/ o[2] < at) /\ o[1] \in {1, 2, 3, 4} /\ o[2] \in Nat
        BY <1>2
    <2> QED
        BY <1>1, <1>5, <2>1 DEF Outranks
<1>9. \/ va \in DOMAIN byAddr /\ UNCHANGED byAddr /\ ~(e[1] = 1 /\ byAddr[va].start # "marked")
      \/ Put(va, n) /\ (va \notin DOMAIN byAddr \/ (byAddr[va].start # "marked" /\ e[1] = 1))
    BY <1>5, <1>6 DEF PutIfAbsent
<1>10. symStage # "error" /\ UNCHANGED table /\ e[1] \notin {1, 2}
    BY <1>1, <1>5
<1>11. \A x : HasBest(x, byAddr, SoFar(x))'
    BY <1>3, <1>5, <1>7, <1>8, <1>9, <1>10, OneTaken
<1> QED
    BY <1>1, <1>11 DEF SymInv

\* The end of one source of names: nothing of it was left.
LEMMA SourceEnds ==
    SymInv /\ (SymbolsEnd \/ StubsOfSectionEnd \/ StubsEnd \/ LiteralsEnd) => SymInv'
<1> SUFFICES ASSUME SymInv, SymbolsEnd \/ StubsOfSectionEnd \/ StubsEnd \/ LiteralsEnd
             PROVE  SymInv'
    OBVIOUS
<1>1. /\ table \in SymbolFiles /\ at \in Nat \ {0} /\ stub \in Nat
      /\ symStage = "stubs" => table.symtab = "there"
    BY DEF SymInv
<1>2. /\ Len(table.symbols) \in Nat /\ Len(table.stubs) \in Nat /\ Len(table.literals) \in Nat
    BY <1>1, TablesAreTyped
<1>3. UNCHANGED <<table, byAddr>> /\ symStage \in {"symbols", "stubs", "literals"}
    BY DEF SymbolsEnd, NameSymbols, StubsOfSectionEnd, InSection, NameStubs, StubsEnd, LiteralsEnd
<1>4. /\ at' \in Nat \ {0} /\ stub' \in Nat
      /\ symStage' \in {"symbols", "stubs", "literals", "ok"}
      /\ symStage' = "stubs" => table.symtab = "there"
    BY <1>1 DEF SymbolsEnd, NameSymbols, StubsOfSectionEnd, InSection, NameStubs, StubsEnd,
       LiteralsEnd, GoTo
<1>5. ASSUME NEW x, NEW o \in Said(x)
      PROVE  Taken(o)' <=> Taken(o)
    <2>1. /\ o[1] \in {1, 2, 3, 4} /\ o[2] \in Nat \ {0} /\ o[3] \in Nat
          /\ o[1] \in {1, 2} => o[2] <= Len(table.symbols) /\ table.symtab = "there"
          /\ o[1] = 3 => /\ o[2] <= Len(table.stubs) /\ table.symtab = "there"
                         /\ table.dysymtab = "there" /\ StubSays(o[2], o[3], x)
          /\ o[1] = 4 => o[2] <= Len(table.literals)
        BY <1>1, <1>2, SaidIsPlaced
    <2>2. CASE SymbolsEnd
        BY <1>1, <1>2, <2>1, <2>2 DEF SymbolsEnd, NameSymbols, GoTo, Taken
    <2>3. CASE StubsOfSectionEnd
        <3>1. /\ symStage = "stubs" /\ symStage' = "stubs" /\ at \in 1..Len(table.stubs)
              /\ at' = at + 1 /\ stub' = 0
              /\ table.stubs[at].size = 0 \/ stub >= StubCount
            BY <1>1, <1>2, <2>3 DEF StubsOfSectionEnd, InSection, NameStubs, Section
        <3>2. o[1] = 3 /\ o[2] = at => o[3] < stub
            <4> SUFFICES ASSUME o[1] = 3, o[2] = at PROVE o[3] < stub
                OBVIOUS
            <4> DEFINE c == table.stubs[at].count
                       d == Len(table.indirect) - table.stubs[at].first
                       i == o[3]
            <4>1. /\ table.stubs[at].size # 0 /\ i < c
                  /\ table.stubs[at].first + i < Len(table.indirect)
                BY <2>1 DEF StubSays
            <4>2. c \in Nat /\ d \in Int /\ i \in Nat /\ i < c /\ i < d
                <5>1. table.stubs[at].first \in Nat /\ c \in Nat /\ Len(table.indirect) \in Nat
                    BY <1>1, <3>1, TablesAreTyped
                <5> QED
                    BY <2>1, <4>1, <5>1
            <4>3. stub >= Min({c, Max({0, d})})
                BY <3>1, <4>1 DEF StubCount, Section
            <4> HIDE DEF c, d, i
            <4>4. Max({0, d}) = d
                BY <4>2 DEF Max
            <4>5. Min({c, d}) \in {c, d}
                BY <4>2 DEF Min
            <4> QED
                BY <1>1, <4>2, <4>3, <4>4, <4>5 DEF i
        <3> QED
            BY <1>1, <2>1, <3>1, <3>2 DEF Taken
    <2>4. CASE StubsEnd
        BY <1>1, <1>2, <2>1, <2>4 DEF StubsEnd, NameStubs, GoTo, Taken
    <2>5. CASE LiteralsEnd
        BY <1>1, <1>2, <2>1, <2>5 DEF LiteralsEnd, GoTo, Taken
    <2> QED
        BY <2>2, <2>3, <2>4, <2>5
<1>6. \A x : HasBest(x, byAddr, SoFar(x))'
    BY <1>3, <1>5, NothingTaken
<1> QED
    BY <1>1, <1>3, <1>4, <1>6 DEF SymInv

\* Each step of from_macho keeps the names the best of what was said.
LEMMA SymStep == SymInv /\ [SymNext]_symVars => SymInv'
<1> SUFFICES ASSUME SymInv, [SymNext]_symVars PROVE SymInv'
    OBVIOUS
<1>1. CASE SymbolsFail
    BY <1>1 DEF SymInv, SymbolsFail, GoTo
<1>2. CASE UNCHANGED symVars
    <2>1. UNCHANGED <<table, symStage, at, stub, byAddr>>
        BY <1>2 DEF symVars
    <2>2. CASE symStage = "error"
        BY <2>1, <2>2 DEF SymInv
    <2>3. CASE symStage # "error"
        <3>1. \A x : \A o \in Said(x) : Taken(o)' <=> Taken(o)
            BY <2>1 DEF Taken
        <3>2. \A x : HasBest(x, byAddr, SoFar(x))'
            BY <2>1, <2>3, <3>1, NothingTaken
        <3> QED
            BY <2>1, <3>2 DEF SymInv
    <2> QED
        BY <2>2, <2>3
<1> QED
    BY <1>1, <1>2, TakeSymbolKeeps, TakeStubKeeps, TakeLiteralKeeps, SourceEnds DEF SymNext

\* In every image an address gets the best name that the image has for it, and no name
\* if it has none, whatever the order of its symbols, stubs and literals.
THEOREM BestNameAlwaysWins == SymSpec => []BestNameWins
<1>1. SymInv => BestNameWins
    <2> SUFFICES ASSUME SymInv, symStage = "ok", NEW va \in Addresses
                 PROVE  /\ va \in DOMAIN byAddr <=> Said(va) # {}
                        /\ Said(va) # {} =>
                             \E best \in Said(va) : /\ \A other \in Said(va) : Outranks(best, other)
                                                    /\ byAddr[va].name = best[4]
        BY DEF BestNameWins
    <2>1. SoFar(va) = Said(va)
        BY DEF SoFar, Taken
    <2>2. HasBest(va, byAddr, Said(va))
        BY <2>1 DEF SymInv
    <2> QED
        BY <2>2 DEF HasBest
<1> QED
    BY SymInitInv, SymStep, <1>1, PTL DEF SymSpec

-----------------------------------------------------------------------------
(* ar archives.                                                             *)

\* The members that were read lie one after the other before the header that is next.
ArInv ==
    /\ ArTypeOK
    /\ ContentsAreApart
    /\ archive \in Archives
    /\ Listed(members)
    /\ \A k \in DOMAIN members : members[k].offset + members[k].size <= off

\* Nothing was read at the start.
LEMMA ArInitInv == ArInit => ArInv
<1> SUFFICES ASSUME ArInit PROVE ArInv
    OBVIOUS
<1>1. members = <<>> /\ members \in Seq({}) /\ DOMAIN members = {}
    BY DEF ArInit
<1>2. off \in Nat /\ arEnd \in {"off", "reading", "ok", "error"} /\ archive \in Archives
    BY LengthsAssumption DEF ArInit
<1> QED
    BY <1>1, <1>2 DEF ArInv, ArTypeOK, ContentsAreApart, Listed

\* What is recorded of the member at a header lies between the header and the place
\* where the next one is looked for, whether its name is in its content or not.
LEMMA EntryIsInPlace ==
    ASSUME ArInv, AtHeader
    PROVE  /\ Entry.offset \in Nat /\ Entry.size \in Nat
           /\ Entry.offset >= off + HeaderLen
           /\ Entry.offset + Entry.size = DataEnd
           /\ DataEnd \in Nat /\ NextHeader \in Nat /\ DataEnd <= NextHeader
<1>1. off \in Nat /\ HeaderLen \in Nat
    BY LengthsAssumption DEF ArInv, ArTypeOK
<1>2. off \in DOMAIN archive.heads /\ archive \in Archives
    BY DEF AtHeader, ArInv
<1>3. /\ Header.size \in Nat \cup {NotANumber}
      /\ Header.field.kind = "inline" => Header.field.len \in Nat \cup {NotANumber}
    BY <1>2, ArchivesAssumption DEF Header
<1> DEFINE size == SizeOf(Header.size)
<1>4. size \in Nat
    BY <1>3 DEF SizeOf
<1>5. Data \in Nat /\ Data = off + HeaderLen /\ DataEnd = Data + size
    BY <1>1 DEF Data, DataEnd
<1> HIDE DEF size
<1>6. DataEnd \in Nat
    BY <1>4, <1>5
<1>7. NextHeader \in Nat /\ DataEnd <= NextHeader
    <2>1. DataEnd % 2 \in 0..1
        BY <1>6
    <2> QED
        BY <1>6, <2>1 DEF NextHeader
<1>8. CASE NameIsInside
    <2>1. Header.field.len \in Nat /\ Header.field.len <= size
        BY <1>3, <1>8 DEF NameIsInside, size
    <2>2. Entry.offset = Data + Header.field.len /\ Entry.size = size - Header.field.len
        BY <1>8 DEF Entry, size
    <2> QED
        BY <1>1, <1>4, <1>5, <1>6, <1>7, <2>1, <2>2
<1>9. CASE ~NameIsInside
    <2>1. Entry.offset = Data /\ Entry.size = size
        BY <1>9 DEF Entry, size
    <2> QED
        BY <1>1, <1>4, <1>5, <1>6, <1>7, <2>1
<1> QED
    BY <1>8, <1>9

\* Reading a member keeps the members apart: its header is behind the content of the
\* last one, and its content is in the file.
LEMMA ReadMemberKeepsApart == ArInv /\ ReadMember => ArInv'
<1> SUFFICES ASSUME ArInv, ReadMember PROVE ArInv'
    OBVIOUS
<1> DEFINE e == Entry
<1>1. /\ e.offset \in Nat /\ e.size \in Nat
      /\ e.offset >= off + HeaderLen
      /\ e.offset + e.size = DataEnd
      /\ DataEnd \in Nat /\ NextHeader \in Nat /\ DataEnd <= NextHeader
    BY EntryIsInPlace DEF ReadMember
<1>2. /\ members' = Append(members, e) /\ off' = NextHeader
      /\ archive' = archive /\ arEnd' = arEnd /\ DataEnd <= archive.len
    BY DEF ReadMember, Fits
<1> HIDE DEF e
<1> DEFINE n == Len(members)
<1>3. /\ Listed(members') /\ n \in Nat /\ members'[n + 1] = e
      /\ \A k \in 1..n : members'[k] = members[k]
      /\ DOMAIN members = 1..n /\ DOMAIN members' = 1..(n + 1)
    BY <1>2, Pushed DEF ArInv
<1>4. /\ off \in Nat /\ HeaderLen \in Nat /\ off + HeaderLen <= DataEnd /\ off <= NextHeader
    <2>1. off \in Nat /\ HeaderLen \in Nat
        BY LengthsAssumption DEF ArInv, ArTypeOK
    <2> QED
        BY <1>1, <2>1
<1> HIDE DEF n
<1>5. \A k \in 1..n : /\ members[k].offset \in Nat /\ members[k].size \in Nat
                      /\ members[k].offset + members[k].size <= off
                      /\ members[k].offset + members[k].size <= archive.len
    BY <1>3 DEF ArInv, ArTypeOK, ContentsAreApart
<1>6. \A k \in 1..(n + 1) : k \in 1..n \/ k = n + 1
    BY <1>3
<1>7. ArTypeOK'
    BY <1>1, <1>2, <1>3, <1>5, <1>6 DEF ArInv, ArTypeOK
<1>8. \A k \in DOMAIN members' : members'[k].offset + members'[k].size <= off'
    <2>1. \A k \in 1..n : members[k].offset + members[k].size <= NextHeader
        BY <1>1, <1>4, <1>5
    <2> QED
        BY <1>1, <1>2, <1>3, <1>6, <2>1
<1>9. ContentsAreApart'
    <2> SUFFICES ASSUME NEW k \in 1..(n + 1)
                 PROVE  /\ members'[k].offset + members'[k].size <= archive.len
                        /\ k > 1 => members'[k].offset >= members'[k - 1].offset
                                        + members'[k - 1].size + HeaderLen
        BY <1>2, <1>3 DEF ContentsAreApart
    <2>1. CASE k \in 1..n
        <3>1. k > 1 => k - 1 \in 1..n
            BY <1>3, <2>1
        <3> QED
            BY <1>3, <2>1, <3>1 DEF ArInv, ContentsAreApart
    <2>2. CASE k = n + 1
        <3>1. members'[k] = e /\ (k > 1 => k - 1 \in 1..n)
            BY <1>3, <2>2
        <3>2. k > 1 => /\ members'[k - 1] = members[k - 1]
                       /\ members[k - 1].offset \in Nat /\ members[k - 1].size \in Nat
                       /\ members[k - 1].offset + members[k - 1].size <= off
            BY <1>3, <1>5, <3>1
        <3>3. members'[k].offset + members'[k].size <= archive.len
            BY <1>1, <1>2, <3>1
        <3>4. ASSUME k > 1
              PROVE  members'[k].offset >= members'[k - 1].offset + members'[k - 1].size + HeaderLen
            <4> DEFINE p == members[k - 1].offset + members[k - 1].size
            <4>1. p \in Nat /\ p <= off
                BY <3>2, <3>4
            <4>2. members'[k - 1].offset + members'[k - 1].size = p
                BY <3>2, <3>4
            <4> HIDE DEF p
            <4>3. e.offset >= p + HeaderLen
                BY <1>1, <1>4, <4>1
            <4> QED
                BY <3>1, <4>2, <4>3
        <3> QED
            BY <3>3, <3>4
    <2> QED
        BY <1>6, <2>1, <2>2
<1> QED
    BY <1>2, <1>3, <1>7, <1>8, <1>9 DEF ArInv

\* Each step of ArArchive::open keeps the invariant.
LEMMA ArStep == ArInv /\ [ArNext]_arVars => ArInv'
<1> SUFFICES ASSUME ArInv, [ArNext]_arVars PROVE ArInv'
    OBVIOUS
<1>1. CASE ReadMember
    BY <1>1, ReadMemberKeepsApart
<1>2. CASE /\ UNCHANGED <<archive, off, members>>
           /\ arEnd' \in {"off", "reading", "ok", "error"}
    BY <1>2 DEF ArInv, ArTypeOK, ContentsAreApart, Listed
<1> QED
    BY <1>1, <1>2 DEF ArNext, Truncated, NoMore, arVars, ArInv, ArTypeOK

\* In every archive the contents of the members that were read lie in the file, apart
\* from each other, and every offset and size is a natural number.
THEOREM ContentsAlwaysApart == ArSpec => [](ArTypeOK /\ ContentsAreApart)
<1>1. ArInv => ArTypeOK /\ ContentsAreApart
    BY DEF ArInv
<1> QED
    BY ArInitInv, ArStep, <1>1, PTL DEF ArSpec

\* Of the parts t of a file that ar wrote: where the contents of one begin and end, and
\* where the header is that comes after m of them.
PartData(t, k) == t[k].at + HeaderLen
PartEnd(t, k) == t[k].offset + t[k].size
HeadAfter(t, m) == IF m = 0 THEN Magic ELSE Padded(PartEnd(t, m))

\* A member that was read is a part that was written.
IsPart(a, e, k) ==
    /\ e.offset = a.truth[k].offset /\ e.size = a.truth[k].size
    /\ PartEnd(a.truth, k) <= a.len
    /\ ~a.truth[k].long => e.name = Plain(a.truth[k].name, 0)

\* Of a file that ar wrote: the members that were read are its first parts, the next
\* header is that of the next part, and the loop ends for what follows.
ReadOf(a, ms, o, end) ==
    /\ end = "reading" => a.len >= Magic
    /\ Len(ms) <= a.sound => o = HeadAfter(a.truth, Len(ms))
    /\ \A k \in 1..Len(ms) : k <= a.sound => IsPart(a, ms[k], k)
    /\ a.sound = Len(a.truth) => Len(ms) <= Len(a.truth)
    /\ end = "ok" => \A k \in 1..a.sound : PartData(a.truth, k) <= a.len => k <= Len(ms)
    /\ (end = "error" /\ a.len >= Magic /\ a.sound = Len(a.truth)) =>
         \E k \in 1..Len(a.truth) : PartData(a.truth, k) <= a.len /\ PartEnd(a.truth, k) > a.len

PartsInv == IsWritten(archive) => ReadOf(archive, members, off, arEnd)

\* The parts of a file that ar wrote have natural offsets and sizes, and a header each,
\* after the content of the part before.
LEMMA PartsAreThere ==
    ASSUME NEW a \in Archives, IsWritten(a)
    PROVE  /\ Len(a.truth) \in Nat /\ a.sound \in 0..Len(a.truth) /\ a.len \in Nat
           /\ a.len <= HeadAfter(a.truth, Len(a.truth))
           /\ \A k \in 1..Len(a.truth) :
                /\ a.truth[k].at \in Nat /\ a.truth[k].size \in Nat /\ a.truth[k].offset \in Nat
                /\ PartData(a.truth, k) <= a.truth[k].offset
                /\ a.truth[k].at = HeadAfter(a.truth, k - 1)
                /\ a.truth[k].at \in DOMAIN a.heads
<1> DEFINE t == a.truth
           n == Len(t)
           head(k) == a.heads[t[k].at]
<1>1. /\ n \in Nat /\ a.sound \in 0..n /\ a.len \in Nat
      /\ a.len <= HeadAfter(t, n)
    BY ArchivesAssumption DEF IsWritten, HeadAfter, PartEnd
<1>2. ASSUME NEW k \in 1..n
      PROVE  /\ t[k].size \in Nat
             /\ t[k].at = HeadAfter(t, k - 1)
             /\ t[k].at \in DOMAIN a.heads
             /\ \/ t[k].offset = PartData(t, k)
                \/ \E i \in Nat : t[k].offset = PartData(t, k) + i
    <2>1. /\ t[k].at = IF k = 1 THEN Magic ELSE Padded(PartEnd(t, k - 1))
          /\ t[k].at \in DOMAIN a.heads
          /\ t[k].size \in Nat
        BY DEF IsWritten, PartEnd
    <2>2. IF head(k).field.kind = "inline"
          THEN head(k).field.len \in Nat /\ t[k].offset = PartData(t, k) + head(k).field.len
          ELSE t[k].offset = PartData(t, k)
        BY DEF IsWritten, PartData
    <2>3. CASE head(k).field.kind = "inline"
        BY <2>1, <2>2, <2>3 DEF HeadAfter
    <2>4. CASE head(k).field.kind # "inline"
        BY <2>1, <2>2, <2>4 DEF HeadAfter
    <2> QED
        BY <2>3, <2>4
<1>3. ASSUME NEW k \in 1..n, t[k].at \in Nat
      PROVE  /\ t[k].offset \in Nat /\ PartData(t, k) <= t[k].offset
             /\ HeadAfter(t, k) \in Nat
    <2>1. PartData(t, k) \in Nat
        BY <1>3, LengthsAssumption DEF PartData
    <2>2. PICK i \in Nat : t[k].offset = PartData(t, k) + i
        <3> DEFINE d == PartData(t, k)
                   o == t[k].offset
        <3>1. d \in Nat /\ (o = d \/ \E i \in Nat : o = d + i)
            BY <1>2, <2>1
        <3> HIDE DEF d, o
        <3>2. o = d => 0 \in Nat /\ o = d + 0
            BY <3>1
        <3>3. \E i \in Nat : o = d + i
            BY <3>1, <3>2
        <3> QED
            BY <3>3 DEF d, o
    <2>3. t[k].offset \in Nat /\ PartData(t, k) <= t[k].offset
        BY <2>1, <2>2
    <2>4. PartEnd(t, k) \in Nat
        BY <1>2, <2>3 DEF PartEnd
    <2> QED
        BY <1>1, <2>3, <2>4 DEF HeadAfter, Padded
<1> DEFINE bad == {k \in 1..n : t[k].at \notin Nat}
<1>4. bad = {}
    <2> SUFFICES ASSUME bad # {} PROVE FALSE
        OBVIOUS
    <2> DEFINE k == Min(bad)
    <2>1. k \in bad /\ \A j \in bad : k <= j
        <3>1. bad \in SUBSET Nat
            OBVIOUS
        <3> HIDE DEF bad
        <3> QED
            BY <3>1, LeastIsThere
    <2> HIDE DEF k
    <2>2. k \in 1..n /\ t[k].at = HeadAfter(t, k - 1)
        BY <1>2, <2>1
    <2>3. CASE k = 1
        BY <2>1, <2>2, <2>3, LengthsAssumption DEF HeadAfter
    <2>4. CASE k > 1
        <3>1. k - 1 \in 1..n /\ ~(k <= k - 1)
            BY <1>1, <2>2, <2>4
        <3>2. t[k - 1].at \in Nat
            BY <2>1, <3>1
        <3> QED
            BY <1>3, <2>1, <2>2, <3>1, <3>2
    <2> QED
        BY <1>1, <2>2, <2>3, <2>4
<1>5. \A k \in 1..n : t[k].at \in Nat
    BY <1>4
<1> QED
    BY <1>1, <1>2, <1>3, <1>5

\* The headers of a file that ar wrote come one after the other.
LEMMA PartsInOrder ==
    ASSUME NEW a \in Archives, IsWritten(a), NEW j \in 1..Len(a.truth), NEW k \in j..Len(a.truth)
    PROVE  a.truth[j].at <= a.truth[k].at
<1> DEFINE t == a.truth
           n == Len(t)
<1>1. /\ n \in Nat
      /\ \A i \in 1..n : /\ t[i].at \in Nat /\ t[i].size \in Nat /\ t[i].offset \in Nat
                         /\ PartData(t, i) <= t[i].offset /\ t[i].at = HeadAfter(t, i - 1)
    BY PartsAreThere
<1>2. ASSUME NEW i \in 2..n
      PROVE  i - 1 \in 1..n /\ t[i - 1].at <= t[i].at
    <2>1. i - 1 \in 1..n /\ i \in 1..n
        BY <1>1
    <2>2. t[i].at = Padded(PartEnd(t, i - 1))
        BY <1>1, <2>1 DEF HeadAfter
    <2> DEFINE p == t[i - 1].at
               o == t[i - 1].offset
               s == t[i - 1].size
    <2>3. p \in Nat /\ o \in Nat /\ s \in Nat /\ p + HeaderLen <= o /\ t[i].at = Padded(o + s)
        BY <1>1, <2>1, <2>2 DEF PartData, PartEnd
    <2> HIDE DEF p, o, s
    <2>4. p <= o + s /\ o + s \in Nat
        BY <2>3, LengthsAssumption
    <2>5. o + s <= Padded(o + s)
        BY <2>4 DEF Padded
    <2>6. Padded(o + s) \in Nat
        BY <2>4 DEF Padded
    <2>7. p <= t[i].at
        BY <2>3, <2>4, <2>5, <2>6
    <2> QED
        BY <2>1, <2>7 DEF p
<1> DEFINE bad == {i \in j..n : ~(t[j].at <= t[i].at)}
<1>3. bad = {}
    <2> SUFFICES ASSUME bad # {} PROVE FALSE
        OBVIOUS
    <2> DEFINE i == Min(bad)
    <2>1. i \in bad /\ \A l \in bad : i <= l
        <3>1. bad \in SUBSET Nat
            BY <1>1
        <3> HIDE DEF bad
        <3> QED
            BY <3>1, LeastIsThere
    <2> HIDE DEF i
    <2>2. i \in j..n /\ ~(t[j].at <= t[i].at)
        BY <2>1
    <2>3. CASE i = j
        BY <1>1, <2>2, <2>3
    <2>4. CASE i # j
        <3>1. i \in 2..n /\ i - 1 \in j..n /\ ~(i <= i - 1)
            BY <1>1, <2>2, <2>4
        <3>2. t[j].at <= t[i - 1].at
            BY <2>1, <3>1
        <3>3. t[i - 1].at <= t[i].at
            BY <1>2, <3>1
        <3>4. t[j].at \in Nat /\ t[i - 1].at \in Nat /\ t[i].at \in Nat
            <4>1. j \in 1..n /\ i - 1 \in 1..n /\ i \in 1..n
                BY <1>1, <3>1
            <4> QED
                BY <1>1, <4>1
        <3> QED
            BY <2>2, <3>2, <3>3, <3>4
    <2> QED
        BY <2>3, <2>4
<1> QED
    BY <1>3

\* At the header of a sound part what ReadMember records is that part, and the header
\* that it goes on to is the next one's.
LEMMA EntryIsPart ==
    ASSUME ArInv, AtHeader, IsWritten(archive),
           NEW k \in 1..archive.sound, off = archive.truth[k].at
    PROVE  /\ k \in 1..Len(archive.truth)
           /\ Data = PartData(archive.truth, k)
           /\ DataEnd = PartEnd(archive.truth, k)
           /\ NextHeader = HeadAfter(archive.truth, k)
           /\ Fits => IsPart(archive, Entry, k)
<1> DEFINE t == archive.truth
           h == archive.heads[off]
           o == t[k].offset
           s == t[k].size
<1>1. archive \in Archives
    BY DEF ArInv
<1>2. /\ Len(t) \in Nat /\ archive.sound \in 0..Len(t)
      /\ \A j \in 1..Len(t) : /\ t[j].at \in Nat /\ t[j].size \in Nat /\ t[j].offset \in Nat
                              /\ PartData(t, j) <= t[j].offset
    BY <1>1, PartsAreThere
<1>3. k \in 1..Len(t) /\ k # archive.sound + 1 /\ k # 0
    BY <1>2
<1>4. Header = h /\ Data = PartData(t, k) /\ Data \in Nat /\ o \in Nat /\ s \in Nat /\ Data <= o
    BY <1>2, <1>3, LengthsAssumption DEF Header, Data, PartData
<1>5. h.size = PartEnd(t, k) - PartData(t, k)
    BY <1>3 DEF IsWritten, PartEnd, PartData
<1>6. IF h.field.kind = "inline"
      THEN /\ h.field.len \in Nat
           /\ o = PartData(t, k) + h.field.len
           /\ ~t[k].long /\ TextAt(archive, PartData(t, k)) = t[k].name
      ELSE /\ o = PartData(t, k)
           /\ t[k].long \/ \E n \in 0..2 : h.field = Plain(t[k].name, n)
    BY <1>3 DEF IsWritten, PartData
<1>7. PartEnd(t, k) = o + s
    BY DEF PartEnd
<1> HIDE DEF h, o, s
<1>8. h.size = (o + s) - Data /\ h.size \in Nat
    BY <1>4, <1>5, <1>7
<1>9. SizeOf(Header.size) = (o + s) - Data
    BY <1>4, <1>8 DEF SizeOf, NotANumber
<1>10. DataEnd = o + s
    <2> DEFINE z == SizeOf(Header.size)
    <2>1. DataEnd = Data + z
        BY DEF DataEnd
    <2>2. z = (o + s) - Data
        BY <1>9
    <2> HIDE DEF z
    <2> QED
        BY <1>4, <2>1, <2>2
<1>11. NextHeader = HeadAfter(t, k)
    BY <1>3, <1>7, <1>10 DEF NextHeader, HeadAfter, Padded
<1>12. /\ Entry.offset = o /\ Entry.size = s
       /\ ~t[k].long => Entry.name = Plain(t[k].name, 0)
    <2>1. CASE h.field.kind = "inline"
        <3> DEFINE i == h.field.len
        <3>1. i \in Nat /\ o = Data + i /\ TextAt(archive, Data) = t[k].name
            BY <1>4, <1>6, <2>1
        <3>2. i <= (o + s) - Data /\ ((o + s) - Data) - i = s /\ i # NotANumber
            <4> HIDE DEF i
            <4> QED
                BY <1>4, <3>1 DEF NotANumber
        <3>3. NameIsInside
            BY <1>4, <1>9, <2>1, <3>2 DEF NameIsInside
        <3>4. Entry = [name |-> Plain(TextAt(archive, Data), 0), offset |-> Data + i,
                       size |-> ((o + s) - Data) - i]
            BY <1>4, <1>9, <3>3 DEF Entry
        <3> QED
            BY <3>1, <3>2, <3>4
    <2>2. CASE h.field.kind # "inline"
        <3>1. o = Data /\ (t[k].long \/ \E n \in 0..2 : h.field = Plain(t[k].name, n))
            BY <1>4, <1>6, <2>2
        <3>2. ~NameIsInside
            BY <1>4, <2>2 DEF NameIsInside
        <3>3. Entry = [name |-> ResolveName(archive, h.field, longNames), offset |-> Data,
                       size |-> (o + s) - Data]
            BY <1>4, <1>9, <3>2 DEF Entry
        <3>4. (o + s) - Data = s
            BY <1>4, <3>1
        <3>5. ASSUME ~t[k].long
              PROVE  ResolveName(archive, h.field, longNames) = Plain(t[k].name, 0)
            <4>1. PICK n \in 0..2 : h.field = Plain(t[k].name, n)
                BY <3>1, <3>5
            <4>2. h.field.kind = "plain" /\ h.field.base = t[k].name
                BY <4>1 DEF Plain
            <4> QED
                BY <4>2 DEF ResolveName, Trimmed
        <3> QED
            BY <3>1, <3>3, <3>4, <3>5
    <2> QED
        BY <2>1, <2>2
<1>13. Fits => PartEnd(t, k) <= archive.len
    BY <1>7, <1>10 DEF Fits
<1> QED
    BY <1>3, <1>4, <1>7, <1>10, <1>11, <1>12, <1>13 DEF IsPart, o, s

\* As long as not all of the sound parts were read, the loop is at the header of the next
\* of them.
LEMMA NextIsPart ==
    ASSUME ArInv, IsWritten(archive), ReadOf(archive, members, off, arEnd),
           Len(members) < archive.sound
    PROVE  /\ Len(members) + 1 \in 1..archive.sound
           /\ off = archive.truth[Len(members) + 1].at
           /\ off \in DOMAIN archive.heads
<1> DEFINE t == archive.truth
           m == Len(members)
<1>1. /\ Len(t) \in Nat /\ archive.sound \in 0..Len(t)
      /\ \A j \in 1..Len(t) : t[j].at = HeadAfter(t, j - 1) /\ t[j].at \in DOMAIN archive.heads
    BY PartsAreThere DEF ArInv
<1>2. m \in Nat
    BY Pushed DEF ArInv
<1>3. off = HeadAfter(t, m)
    BY <1>1, <1>2 DEF ReadOf
<1> HIDE DEF m
<1>4. m + 1 \in 1..archive.sound /\ m + 1 \in 1..Len(t) /\ (m + 1) - 1 = m
    BY <1>1, <1>2 DEF m
<1>5. t[m + 1].at = HeadAfter(t, m) /\ t[m + 1].at \in DOMAIN archive.heads
    BY <1>1, <1>4
<1> QED
    BY <1>3, <1>4, <1>5 DEF m

\* When every part was read there is no room for one more header.
LEMMA NoRoomForMore ==
    ASSUME ArInv, IsWritten(archive), ReadOf(archive, members, off, arEnd), AtHeader,
           archive.sound = Len(archive.truth)
    PROVE  Len(members) < archive.sound
<1> DEFINE t == archive.truth
<1>1. /\ Len(t) \in Nat /\ archive.len \in Nat /\ archive.len <= HeadAfter(t, Len(t))
    BY PartsAreThere DEF ArInv
<1>2. Len(members) \in Nat
    BY Pushed DEF ArInv
<1>3. Len(members) <= Len(t) /\ (Len(members) <= archive.sound => off = HeadAfter(t, Len(members)))
    BY DEF ReadOf
<1>4. off + HeaderLen <= archive.len /\ off \in Nat
    BY DEF AtHeader, ArInv, ArTypeOK
<1>5. ASSUME Len(members) = Len(t) PROVE FALSE
    <2>1. off = HeadAfter(t, Len(t))
        BY <1>1, <1>3, <1>5
    <2> QED
        BY <1>1, <1>4, <2>1, LengthsAssumption
<1> QED
    BY <1>1, <1>2, <1>3, <1>5

\* At the start nothing was read, and the first header is after the magic.
LEMMA PartsInit == ArInit => PartsInv
<1> SUFFICES ASSUME ArInit, IsWritten(archive) PROVE ReadOf(archive, members, off, arEnd)
    BY DEF PartsInv
<1>1. archive \in Archives /\ off = Magic
    BY DEF ArInit
<1>2. Len(archive.truth) \in Nat /\ archive.sound \in 0..Len(archive.truth) /\ archive.len \in Nat
    BY <1>1, PartsAreThere
<1>3. Len(members) = 0 /\ \A k \in 1..Len(members) : FALSE
    BY DEF ArInit
<1>4. /\ arEnd \in {"reading", "error"}
      /\ arEnd = "reading" => archive.len >= Magic
      /\ arEnd = "error" => ~(archive.len >= Magic)
    BY <1>2, LengthsAssumption DEF ArInit
<1>5. off = HeadAfter(archive.truth, Len(members))
    BY <1>1, <1>3 DEF HeadAfter
<1> QED
    BY <1>2, <1>3, <1>4, <1>5 DEF ReadOf

\* Reading a member keeps to the parts, in their order.
LEMMA ReadMemberKeepsParts ==
    ASSUME ArInv, PartsInv, ReadMember
    PROVE  PartsInv'
<1>0. archive' = archive /\ arEnd' = arEnd /\ off' = NextHeader
      /\ members' = Append(members, Entry) /\ AtHeader /\ Fits /\ arEnd = "reading"
    BY DEF ReadMember, AtHeader
<1> SUFFICES ASSUME IsWritten(archive) PROVE ReadOf(archive, members', off', arEnd')
    BY <1>0 DEF PartsInv
<1> DEFINE t == archive.truth
           n == Len(t)
           m == Len(members)
           e == Entry
<1>1. ReadOf(archive, members, off, arEnd)
    BY DEF PartsInv
<1>2. n \in Nat /\ archive.sound \in 0..n
    BY PartsAreThere DEF ArInv
<1>3. /\ m \in Nat /\ Len(members') = m + 1
      /\ members'[m + 1] = e
      /\ \A k \in 1..m : members'[k] = members[k]
    BY <1>0, Pushed DEF ArInv
<1>4. /\ archive.len >= Magic
      /\ m <= archive.sound => off = HeadAfter(t, m)
      /\ \A k \in 1..m : k <= archive.sound => IsPart(archive, members[k], k)
      /\ archive.sound = n => m <= n
    BY <1>0, <1>1 DEF ReadOf
<1>5. ASSUME m < archive.sound
      PROVE  NextHeader = HeadAfter(t, m + 1) /\ IsPart(archive, e, m + 1)
    <2>1. m + 1 \in 1..archive.sound /\ off = t[m + 1].at
        BY <1>1, <1>5, NextIsPart
    <2> HIDE DEF m
    <2> QED
        BY <1>0, <2>1, EntryIsPart
<1>6. archive.sound = n => m < n
    BY <1>0, <1>1, NoRoomForMore
<1> HIDE DEF m, n, t, e
<1>7. m + 1 <= archive.sound => off' = HeadAfter(t, m + 1)
    BY <1>0, <1>2, <1>3, <1>5
<1>8. ASSUME NEW k \in 1..(m + 1), k <= archive.sound
      PROVE  IsPart(archive, members'[k], k)
    <2>1. CASE k \in 1..m
        BY <1>3, <1>4, <1>8, <2>1
    <2>2. CASE k = m + 1
        BY <1>2, <1>3, <1>5, <1>8, <2>2
    <2> QED
        BY <1>3, <2>1, <2>2
<1>9. archive.sound = n => m + 1 <= n
    BY <1>2, <1>3, <1>6
<1> QED
    BY <1>0, <1>3, <1>4, <1>7, <1>8, <1>9 DEF ReadOf, n, t

\* A content that ends after the file is that of a part whose header is in the file.
LEMMA TruncatedKeepsParts ==
    ASSUME ArInv, PartsInv, Truncated
    PROVE  PartsInv'
<1>0. UNCHANGED <<archive, off, members>> /\ arEnd' = "error" /\ arEnd = "reading"
      /\ AtHeader /\ ~Fits
    BY DEF Truncated, AtHeader
<1> SUFFICES ASSUME IsWritten(archive) PROVE ReadOf(archive, members, off, arEnd')
    BY <1>0 DEF PartsInv
<1> DEFINE t == archive.truth
           k == Len(members) + 1
<1>1. ReadOf(archive, members, off, arEnd)
    BY DEF PartsInv
<1>2. ASSUME archive.sound = Len(t)
      PROVE  \E j \in 1..Len(t) : PartData(t, j) <= archive.len /\ PartEnd(t, j) > archive.len
    <2>1. k \in 1..archive.sound /\ off = t[k].at
        BY <1>0, <1>1, <1>2, NoRoomForMore, NextIsPart
    <2> HIDE DEF k
    <2>2. k \in 1..Len(t) /\ Data = PartData(t, k) /\ DataEnd = PartEnd(t, k)
        BY <1>0, <2>1, EntryIsPart
    <2>3. Data <= archive.len
        BY <1>0 DEF AtHeader, Data
    <2>4. DataEnd > archive.len
        <3>1. DataEnd \in Nat
            BY <1>0, EntryIsInPlace
        <3>2. archive.len \in Nat
            BY ArchivesAssumption DEF ArInv
        <3> QED
            BY <1>0, <3>1, <3>2 DEF Fits
    <2> QED
        BY <2>2, <2>3, <2>4
<1> QED
    BY <1>0, <1>1, <1>2 DEF ReadOf

\* When the loop finds no header, every part whose header is in the file was read.
LEMMA NoMoreKeepsParts ==
    ASSUME ArInv, PartsInv, NoMore
    PROVE  PartsInv'
<1>0. UNCHANGED <<archive, off, members>> /\ arEnd' = "ok" /\ arEnd = "reading" /\ ~AtHeader
    BY DEF NoMore
<1> SUFFICES ASSUME IsWritten(archive) PROVE ReadOf(archive, members, off, arEnd')
    BY <1>0 DEF PartsInv
<1> DEFINE t == archive.truth
           m == Len(members)
<1>1. ReadOf(archive, members, off, arEnd)
    BY DEF PartsInv
<1>2. ASSUME NEW k \in 1..archive.sound, PartData(t, k) <= archive.len, ~(k <= m)
      PROVE  FALSE
    <2>1. /\ Len(t) \in Nat /\ archive.sound \in 0..Len(t) /\ archive.len \in Nat
          /\ \A j \in 1..Len(t) : t[j].at \in Nat
        BY PartsAreThere DEF ArInv
    <2>2. m \in Nat
        BY Pushed DEF ArInv
    <2>3. m < archive.sound
        <3> HIDE DEF m
        <3> QED
            BY <1>2, <2>1, <2>2
    <2>4. m + 1 \in 1..archive.sound /\ off = t[m + 1].at /\ off \in DOMAIN archive.heads
        BY <1>1, <2>3, NextIsPart
    <2>5. ~(off + HeaderLen <= archive.len)
        BY <1>0, <2>4 DEF AtHeader
    <2> HIDE DEF m
    <2>6. m + 1 \in 1..Len(t) /\ k \in (m + 1)..Len(t) /\ k \in 1..Len(t)
        BY <1>2, <2>1, <2>2, <2>4
    <2>7. t[m + 1].at <= t[k].at
        BY <2>6, PartsInOrder DEF ArInv
    <2>8. t[m + 1].at \in Nat /\ t[k].at \in Nat /\ t[k].at + HeaderLen <= archive.len
        BY <1>2, <2>1, <2>6 DEF PartData
    <2> DEFINE p == t[m + 1].at
               q == t[k].at
    <2>9. /\ p \in Nat /\ q \in Nat /\ HeaderLen \in Nat /\ archive.len \in Nat
          /\ p <= q /\ q + HeaderLen <= archive.len /\ ~(p + HeaderLen <= archive.len)
        BY <2>1, <2>4, <2>5, <2>7, <2>8, LengthsAssumption
    <2> HIDE DEF p, q
    <2> QED
        BY <2>9
<1>3. \A k \in 1..archive.sound : PartData(t, k) <= archive.len => k <= m
    BY <1>2
<1> QED
    BY <1>0, <1>1, <1>3 DEF ReadOf

\* Each step of ArArchive::open keeps to the parts of the file.
LEMMA PartsStep == ArInv /\ PartsInv /\ [ArNext]_arVars => PartsInv'
<1> SUFFICES ASSUME ArInv, PartsInv, [ArNext]_arVars PROVE PartsInv'
    OBVIOUS
<1>1. CASE UNCHANGED arVars
    BY <1>1 DEF arVars, PartsInv
<1> QED
    BY <1>1, ReadMemberKeepsParts, TruncatedKeepsParts, NoMoreKeepsParts DEF ArNext

\* A member is found by its name, or one of the same name before it.
LEMMA FindFinds ==
    ASSUME Listed(members), NEW k \in 1..Len(members), NEW name, members[k].name = name
    PROVE  Find(name) \in 1..k
<1> DEFINE of == {j \in DOMAIN members : members[j].name = name \/ Trimmed(members[j].name) = name}
<1>1. DOMAIN members = 1..Len(members) /\ Len(members) \in Nat
    BY Pushed
<1>2. k \in of /\ of \in SUBSET Nat
    BY <1>1
<1>3. Find(name) = Min(of)
    BY <1>2 DEF Find
<1> HIDE DEF of
<1>4. Min(of) \in of /\ Min(of) <= k
    BY <1>2, LeastIsThere
<1>5. Min(of) \in 1..Len(members)
    BY <1>1, <1>4 DEF of
<1> QED
    BY <1>1, <1>3, <1>4, <1>5

\* When open is done, the invariant says what the property asks for.
LEMMA PartsAreRead == ArInv /\ PartsInv => ReadsWhatWasWritten
<1> SUFFICES ASSUME ArInv, PartsInv, arEnd \in {"ok", "error"}, archive.len >= Magic, IsWritten(archive)
             PROVE  ReadsWhatWasWritten
    BY DEF ReadsWhatWasWritten
<1> DEFINE t == archive.truth
           n == Len(t)
           m == Len(members)
           there == {k \in 1..archive.sound : PartData(t, k) <= archive.len}
<1>1. ReadOf(archive, members, off, arEnd)
    BY DEF PartsInv
<1>2. /\ n \in Nat /\ archive.sound \in 0..n /\ archive.len \in Nat
      /\ \A k \in 1..n : /\ t[k].at \in Nat /\ t[k].size \in Nat /\ t[k].offset \in Nat
                         /\ PartData(t, k) <= t[k].offset
    BY PartsAreThere DEF ArInv
<1>3. m \in Nat /\ DOMAIN members = 1..m
    BY Pushed DEF ArInv
<1>4. ASSUME arEnd = "ok"
      PROVE  /\ \A k \in there : k \in 1..m /\ IsPart(archive, members[k], k)
             /\ archive.sound = n => 1..m = there
    <2>1. ASSUME NEW k \in there
          PROVE  k \in 1..m /\ IsPart(archive, members[k], k)
        <3>1. k \in 1..archive.sound /\ k <= m
            BY <1>1, <1>4, <2>1 DEF ReadOf
        <3> HIDE DEF m
        <3>2. k \in 1..m
            BY <1>2, <1>3, <3>1
        <3> QED
            BY <1>1, <1>2, <3>1, <3>2 DEF ReadOf, m
    <2>2. ASSUME archive.sound = n, NEW k \in 1..m
          PROVE  k \in there
        <3>1. m <= n /\ (k <= archive.sound => IsPart(archive, members[k], k))
            BY <1>1, <2>2 DEF ReadOf
        <3>2. k \in 1..n /\ k <= archive.sound
            BY <1>2, <1>3, <2>2, <3>1
        <3>3. PartEnd(t, k) <= archive.len
            BY <3>1, <3>2 DEF IsPart
        <3>4. PartData(t, k) <= archive.len
            <4> DEFINE d == PartData(t, k)
                       o == t[k].offset
                       s == t[k].size
            <4>1. d <= o /\ o \in Nat /\ s \in Nat /\ o + s <= archive.len
                BY <1>2, <3>2, <3>3 DEF PartEnd
            <4>2. d \in Nat
                BY <1>2, <3>2, LengthsAssumption DEF PartData
            <4> HIDE DEF d, o, s
            <4>3. d <= archive.len
                BY <1>2, <4>1, <4>2
            <4> QED
                BY <4>3 DEF d
        <3> QED
            BY <2>2, <3>2, <3>4
    <2> QED
        BY <2>1, <2>2
<1>5. \A k \in there : k \in 1..n
    BY <1>2
<1>6. ASSUME archive.sound = n
      PROVE  arEnd = "error" <=> \E k \in there : PartEnd(t, k) > archive.len
    <2>1. arEnd = "error" => \E k \in there : PartEnd(t, k) > archive.len
        BY <1>1, <1>6 DEF ReadOf
    <2>2. ASSUME arEnd = "ok", NEW k \in there
          PROVE  ~(PartEnd(t, k) > archive.len)
        <3>1. PartEnd(t, k) <= archive.len
            BY <1>4, <2>2 DEF IsPart
        <3>2. PartEnd(t, k) \in Nat
            BY <1>2, <1>5, <2>2 DEF PartEnd
        <3> QED
            BY <1>2, <3>1, <3>2
    <2> QED
        BY <2>1, <2>2
<1>7. ASSUME arEnd = "ok", NEW k \in there
      PROVE  /\ k \in DOMAIN members
             /\ members[k].offset = t[k].offset /\ members[k].size = t[k].size
             /\ ~t[k].long => /\ members[k].name = Plain(t[k].name, 0)
                              /\ Find(Plain(t[k].name, 0)) \in 1..k
    <2>1. k \in 1..m /\ IsPart(archive, members[k], k)
        BY <1>4, <1>7
    <2>2. ~t[k].long => Find(Plain(t[k].name, 0)) \in 1..k
        BY <2>1, FindFinds DEF IsPart, ArInv
    <2> QED
        BY <1>3, <2>1, <2>2 DEF IsPart
<1>8. there = {k \in 1..archive.sound : t[k].at + HeaderLen <= archive.len}
    BY DEF PartData
<1> HIDE DEF there
<1> QED
    BY <1>3, <1>4, <1>6, <1>7, <1>8 DEF ReadsWhatWasWritten, PartEnd

\* Of every file that ar wrote, wherever it is cut off and whichever of its sizes is no
\* number, ArArchive::open reads the members that come before, with their contents and
\* names, and fails only if the file ends in a content.
THEOREM WrittenMembersAreRead == ArSpec => []ReadsWhatWasWritten
<1>1. ArInit => ArInv /\ PartsInv
    BY ArInitInv, PartsInit
<1>2. (ArInv /\ PartsInv) /\ [ArNext]_arVars => (ArInv /\ PartsInv)'
    BY ArStep, PartsStep
<1>3. ArInv /\ PartsInv => ReadsWhatWasWritten
    BY PartsAreRead
<1> QED
    BY <1>1, <1>2, <1>3, PTL DEF ArSpec

-----------------------------------------------------------------------------
(* Code signatures.                                                         *)

\* What was read of a code directory is what the format has of that blob.
ReadFrom(blob, cd) ==
    /\ blob.magic = "directory" /\ blob.version = cd.version
    /\ cd.codeLimit64 = AtFormat(blob, "codeLimit64")
    /\ cd.execSegBase = AtFormat(blob, "execSeg")
    /\ cd.execSegFlags = IF cd.execSegBase = None THEN None ELSE 80
    /\ cd.identifier = Text(blob, blob.ident)
    /\ cd.team = IF blob.version >= Format.team[3] THEN Text(blob, blob.team) ELSE None

\* The running position of parse_code_directory is, at each later field and in every
\* version, where the format has that field.
LEMMA FieldsOfOne ==
    ASSUME NEW blob, blob.magic = "directory", blob.version \in 0..ExecSeg, blob.len \in Nat
    PROVE  ReadFrom(blob, ParseCodeDirectory(blob))
<1> DEFINE v == blob.version
           cd == ParseCodeDirectory(blob)
<1>1. v \in {0, 1, 2, 3, 4}
    BY DEF ExecSeg
<1>2. Format.team[3] = 2
    BY DEF Format
<1>3. cd.version = v /\ cd.identifier = Text(blob, blob.ident)
    BY DEF ParseCodeDirectory
<1>4. cd.team = IF v >= Format.team[3] THEN Text(blob, blob.team) ELSE None
    BY <1>2 DEF ParseCodeDirectory, Team
<1>5. cd.codeLimit64 = AtFormat(blob, "codeLimit64")
    <2>1. cd.codeLimit64 = IF v >= 3 THEN Number(AfterSpare(v), 8, blob.len) ELSE None
        BY DEF ParseCodeDirectory, Limit64
    <2>2. AtFormat(blob, "codeLimit64") = IF v >= 3 /\ 56 + 8 <= blob.len THEN 56 ELSE None
        BY DEF AtFormat, Format
    <2>3. v >= 3 => AfterSpare(v) = 56
        BY <1>1 DEF AfterSpare, AfterTeam, AfterScatter, Scatter, Team, Limit64
    <2> QED
        BY <2>1, <2>2, <2>3 DEF Number
<1>6. cd.execSegBase = AtFormat(blob, "execSeg")
      /\ cd.execSegFlags = IF cd.execSegBase = None THEN None ELSE 80
    <2> DEFINE exec == IF v >= 4 THEN Number(AfterLimit(v), 24, blob.len) ELSE None
    <2>1. cd.execSegBase = exec /\ cd.execSegFlags = IF exec = None THEN None ELSE exec + 16
        BY DEF ParseCodeDirectory, ExecSeg
    <2>2. AtFormat(blob, "execSeg") = IF v >= 4 /\ 64 + 24 <= blob.len THEN 64 ELSE None
        BY DEF AtFormat, Format
    <2>3. v >= 4 => AfterLimit(v) = 64
        BY <1>1 DEF AfterLimit, AfterSpare, AfterTeam, AfterScatter, Scatter, Team, Limit64
    <2>4. exec = IF v >= 4 /\ 64 + 24 <= blob.len THEN 64 ELSE None
        BY <2>3 DEF Number
    <2> HIDE DEF exec, cd
    <2> QED
        BY <2>1, <2>2, <2>4 DEF None
<1> QED
    BY <1>3, <1>4, <1>5, <1>6 DEF ReadFrom

\* The blobs that the slots lead to.
BlobsRead == {signature.blobs[s.offset] : s \in {x \in Range(result.slots) : IsThere(signature, x.offset)}}

Found == {"slots", "directory", "alternates", "xml", "der", "cms", "requirements"}

\* The slots were cut to what is there, the next one is one of them, and each code
\* directory that was found was read from a blob that one of them leads to.
CsInv ==
    /\ CsTypeOK
    /\ signature \in Signatures
    /\ DOMAIN result = Found
    /\ Listed(result.slots) /\ Listed(result.directory) /\ Listed(result.alternates)
    /\ \A k \in DOMAIN result.directory : \E b \in BlobsRead : ReadFrom(b, result.directory[k])
    /\ \A k \in DOMAIN result.alternates : \E b \in BlobsRead : ReadFrom(b, result.alternates[k])

\* A list that was cut to at most n elements is a list of at most n.
LEMMA CutTo ==
    ASSUME NEW s, NEW n \in Int, NEW most \in Nat, n <= most
    PROVE  Listed(SubSeq(s, 1, n)) /\ Len(SubSeq(s, 1, n)) \in 0..most
<1> DEFINE S == {s[i] : i \in 1..n}
           t == SubSeq(s, 1, n)
<1>1. \A i \in 1..n : s[i] \in S
    OBVIOUS
<1>2. t \in Seq(S) /\ Len(t) = IF 1 <= n THEN n - 1 + 1 ELSE 0
    BY <1>1, SubSeqProperties
<1> HIDE DEF S, t
<1>3. Len(t) \in 0..most
    BY <1>2
<1> QED
    BY <1>2, <1>3 DEF Listed, t

\* The limit of slots is that of parse_code_signature.
LEMMA CsInitInv == CsInit => CsInv
<1> SUFFICES ASSUME CsInit PROVE CsInv
    OBVIOUS
<1> DEFINE s == signature
<1>0. s \in Signatures /\ slot = 1 /\ csEnd \in {"reading", "error"} /\ MaxSlots \in Nat
    BY SignaturesAssumption DEF CsInit
<1>1. /\ DOMAIN result = Found
      /\ result.directory = <<>> /\ result.alternates = <<>>
      /\ result.xml = None /\ result.der = None /\ result.cms = None
    BY DEF CsInit, NothingFound, Found
<1>2. Listed(result.slots) /\ Len(result.slots) \in 0..MaxSlots
    <2>1. CASE Accepted(s)
        <3>1. result.slots = SubSeq(s.slots, 1, Min({s.count, (s.len - HeadLen) \div SlotLen}))
            BY <2>1 DEF CsInit, NothingFound, SlotsRead
        <3>2. s.len \in Nat /\ s.count \in Nat /\ s.count <= MaxSlots
            BY <1>0, <2>1, SignaturesAssumption DEF Accepted
        <3> DEFINE m == (s.len - HeadLen) \div SlotLen
                   n == Min({s.count, m})
        <3>3. m \in Int
            BY <3>2 DEF HeadLen, SlotLen
        <3> HIDE DEF m
        <3>4. n \in Int /\ n <= s.count
            BY <3>2, <3>3 DEF Min
        <3> HIDE DEF n, s
        <3>5. n <= MaxSlots
            BY <1>0, <3>2, <3>4
        <3>6. Listed(SubSeq(s.slots, 1, n)) /\ Len(SubSeq(s.slots, 1, n)) \in 0..MaxSlots
            BY <1>0, <3>4, <3>5, CutTo
        <3> QED
            BY <3>1, <3>6 DEF n, m, s
    <2>2. CASE ~Accepted(s)
        <3>1. result.slots = <<>>
            BY <2>2 DEF CsInit, NothingFound
        <3> QED
            BY <1>0, <3>1, EmptyIsListed
    <2> QED
        BY <2>1, <2>2
<1>3. CsTypeOK
    BY <1>0, <1>1, <1>2 DEF CsTypeOK
<1> QED
    BY <1>0, <1>1, <1>2, <1>3, EmptyIsListed DEF CsInv

\* The slot that is next is one of the slots, and when it leads to a code directory that
\* can be read, what is read of it is read from a blob of the slots.
LEMMA DirectoryOfSlot ==
    ASSUME CsInv, Reading, IsThere(signature, Slot.offset),
           signature.blobs[Slot.offset].magic = "directory"
    PROVE  /\ signature.blobs[Slot.offset] \in BlobsRead
           /\ ReadFrom(signature.blobs[Slot.offset],
                       ParseCodeDirectory(signature.blobs[Slot.offset]))
<1>1. DOMAIN result.slots = 1..Len(result.slots) /\ slot \in 1..Len(result.slots)
    <2>1. DOMAIN result.slots = 1..Len(result.slots) /\ Len(result.slots) \in Nat
        BY Pushed DEF CsInv
    <2> QED
        BY <2>1 DEF Reading, CsInv, CsTypeOK
<1>2. Slot \in Range(result.slots)
    BY <1>1 DEF Slot, Range
<1>3. signature.blobs[Slot.offset] \in BlobsRead
    BY <1>2 DEF BlobsRead
<1>4. /\ signature.blobs[Slot.offset].version \in 0..ExecSeg
      /\ signature.blobs[Slot.offset].len \in Nat
    <2>1. signature \in Signatures /\ Slot.offset \in DOMAIN signature.blobs
        BY DEF CsInv, IsThere
    <2> QED
        BY <2>1, SignaturesAssumption
<1> QED
    BY <1>3, <1>4, FieldsOfOne

\* Each step of the loop over the slots keeps the invariant.
LEMMA CsStep == CsInv /\ [CsNext]_csVars => CsInv'
<1> SUFFICES ASSUME CsInv, [CsNext]_csVars PROVE CsInv'
    OBVIOUS
<1>1. ASSUME Reading
      PROVE  slot + 1 \in 1..(Len(result.slots) + 1)
    <2>1. Len(result.slots) \in Nat
        BY Pushed DEF CsInv
    <2> QED
        BY <1>1, <2>1 DEF Reading, CsInv, CsTypeOK
<1>2. CASE TakeDirectory
    <2> DEFINE blob == signature.blobs[Slot.offset]
               cd == ParseCodeDirectory(blob)
    <2>1. Reading /\ blob \in BlobsRead /\ ReadFrom(blob, cd)
        BY <1>2, DirectoryOfSlot DEF TakeDirectory
    <2>2. signature' = signature /\ csEnd' = csEnd /\ slot' = slot + 1
        BY <1>2 DEF TakeDirectory
    <2>3. \/ result' = [result EXCEPT !.directory = <<cd>>]
          \/ result' = [result EXCEPT !.alternates = Append(result.alternates, cd)]
        BY <1>2 DEF TakeDirectory
    <2> HIDE DEF cd, blob
    <2>4. /\ DOMAIN result' = Found
          /\ \A f \in Found \ {"directory", "alternates"} : result'[f] = result[f]
        BY <2>3 DEF CsInv, Found
    <2>5. result'.slots = result.slots /\ BlobsRead' = BlobsRead
        BY <2>2, <2>4 DEF Found, BlobsRead
    <2>6. CsTypeOK'
        BY <1>1, <2>1, <2>2, <2>4 DEF CsInv, CsTypeOK, Found
    <2>7. /\ Listed(result'.directory)
          /\ \A k \in DOMAIN result'.directory : \E b \in BlobsRead : ReadFrom(b, result'.directory[k])
        <3>1. result'.directory = result.directory \/ result'.directory = <<cd>>
            BY <2>3 DEF CsInv, Found
        <3>2. <<cd>> \in Seq({cd}) /\ DOMAIN <<cd>> = {1} /\ <<cd>>[1] = cd
            OBVIOUS
        <3>3. Listed(<<cd>>)
            BY <3>2 DEF Listed
        <3> QED
            BY <2>1, <3>1, <3>2, <3>3 DEF CsInv
    <2>8. /\ Listed(result'.alternates)
          /\ \A k \in DOMAIN result'.alternates : \E b \in BlobsRead : ReadFrom(b, result'.alternates[k])
        <3> DEFINE a == result.alternates
        <3>1. result'.alternates = a \/ result'.alternates = Append(a, cd)
            BY <2>3 DEF CsInv, Found
        <3>2. Listed(a) /\ \A k \in DOMAIN a : \E b \in BlobsRead : ReadFrom(b, a[k])
            BY DEF CsInv
        <3> HIDE DEF a
        <3>3. /\ Listed(Append(a, cd)) /\ Append(a, cd)[Len(a) + 1] = cd
              /\ \A k \in 1..Len(a) : Append(a, cd)[k] = a[k]
              /\ DOMAIN a = 1..Len(a) /\ DOMAIN Append(a, cd) = 1..(Len(a) + 1) /\ Len(a) \in Nat
            BY <3>2, Pushed
        <3>4. \A k \in 1..(Len(a) + 1) : k \in 1..Len(a) \/ k = Len(a) + 1
            BY <3>3
        <3> QED
            BY <2>1, <3>1, <3>2, <3>3, <3>4
    <2> QED
        BY <2>2, <2>4, <2>5, <2>6, <2>7, <2>8 DEF CsInv
<1>3. CASE TakeBlob
    <2>1. /\ Reading /\ Slot.offset \in DOMAIN signature.blobs
          /\ signature' = signature /\ csEnd' = csEnd /\ slot' = slot + 1
        BY <1>3 DEF TakeBlob, IsThere
    <2>2. /\ DOMAIN result' = Found
          /\ \A f \in {"slots", "directory", "alternates"} : result'[f] = result[f]
          /\ \A f \in {"xml", "der", "cms"} : result'[f] \in {result[f], Slot.offset}
        BY <1>3 DEF TakeBlob, CsInv, Found
    <2>3. BlobsRead' = BlobsRead
        BY <2>1, <2>2 DEF BlobsRead
    <2>4. CsTypeOK'
        BY <1>1, <2>1, <2>2 DEF CsInv, CsTypeOK
    <2> QED
        BY <2>1, <2>2, <2>3, <2>4 DEF CsInv
<1>4. CASE UNCHANGED <<signature, result>> /\ slot' \in 1..(Len(result.slots) + 1)
           /\ csEnd' \in {"off", "reading", "ok", "error"}
    BY <1>4 DEF CsInv, CsTypeOK, BlobsRead
<1> QED
    BY <1>1, <1>2, <1>3, <1>4 DEF CsNext, Skip, CsReturn, csVars, CsInv, CsTypeOK

\* In every signature the numbers and texts that are taken from a code directory are
\* where the format has them in its version, no more slots are read than the limit
\* allows, and what is remembered of the others is where a slot leads to.
THEOREM FieldsAlwaysInPlace == CsSpec => [](CsTypeOK /\ FieldsAreInPlace)
<1>1. CsInv => CsTypeOK /\ FieldsAreInPlace
    <2> SUFFICES ASSUME CsInv PROVE FieldsAreInPlace
        BY DEF CsInv
    <2> DEFINE a == result.alternates
               d == result.directory
    <2>1. \A cd \in Range(a \o d) : \E b \in BlobsRead : ReadFrom(b, cd)
        <3>1. PICK S : a \in Seq(S)
            BY DEF CsInv, Listed
        <3>2. PICK T : d \in Seq(T)
            BY DEF CsInv, Listed
        <3>3. a \in Seq(S \cup T) /\ d \in Seq(S \cup T)
            BY <3>1, <3>2
        <3>4. \A k \in DOMAIN (a \o d) :
                 \/ \E i \in DOMAIN a : (a \o d)[k] = a[i]
                 \/ \E i \in DOMAIN d : (a \o d)[k] = d[i]
            <4>1. Len(a \o d) = Len(a) + Len(d)
                  /\ \A i \in 1..(Len(a) + Len(d)) :
                        (a \o d)[i] = IF i <= Len(a) THEN a[i] ELSE d[i - Len(a)]
                BY <3>3, ConcatProperties
            <4>2. DOMAIN (a \o d) = 1..(Len(a) + Len(d)) /\ Len(a) \in Nat /\ Len(d) \in Nat
                  /\ DOMAIN a = 1..Len(a) /\ DOMAIN d = 1..Len(d)
                BY <3>3, <4>1, ConcatProperties, LenProperties
            <4> HIDE DEF a, d
            <4> SUFFICES ASSUME NEW k \in 1..(Len(a) + Len(d))
                         PROVE  \/ \E i \in 1..Len(a) : (a \o d)[k] = a[i]
                                \/ \E i \in 1..Len(d) : (a \o d)[k] = d[i]
                BY <4>2
            <4>3. CASE k <= Len(a)
                BY <4>1, <4>2, <4>3
            <4>4. CASE ~(k <= Len(a))
                <5>1. k - Len(a) \in 1..Len(d) /\ (a \o d)[k] = d[k - Len(a)]
                    BY <4>1, <4>2, <4>4
                <5> QED
                    BY <5>1
            <4> QED
                BY <4>3, <4>4
        <3> QED
            BY <3>4 DEF CsInv, Range
    <2> QED
        BY <2>1 DEF FieldsAreInPlace, ReadFrom, BlobsRead
<1> QED
    BY CsInitInv, CsStep, <1>1, PTL DEF CsSpec

\* The greatest of some numbers and one that is greater than they are.
LEMMA GreatestIsLast ==
    ASSUME NEW n \in Nat, NEW S \in SUBSET (1..n)
    PROVE  Max(S \cup {n + 1}) = n + 1
<1>1. \A y \in S \cup {n + 1} : y \in Nat /\ n + 1 >= y
    OBVIOUS
<1>2. \A x \in S \cup {n + 1} : (\A y \in S \cup {n + 1} : x >= y) => x = n + 1
    BY <1>1
<1> HIDE <1>1
<1> QED
    BY <1>1, <1>2 DEF Max

\* A blob of the signature that is a code directory is read when all is there that the
\* format has of it in front of what is optional.
LEMMA WholeIsParsed ==
    ASSUME NEW b, b.version \in 0..ExecSeg, b.len \in Nat
    PROVE  Parses(b) <=> b.len >= (IF b.version >= 2 THEN Format.team[1] + Format.team[2] ELSE 44)
<1>1. Format.team[1] = 48 /\ Format.team[2] = 4
    BY DEF Format
<1>2. b.version >= 2 => AfterScatter(b.version) = 48
    BY DEF AfterScatter, Scatter, ExecSeg
<1>3. b.version >= 2 => (Number(AfterScatter(b.version), 4, b.len) # None <=> b.len >= 52)
    BY <1>2 DEF Number, None
<1> QED
    BY <1>1, <1>3 DEF Parses, Team, ExecSeg

\* The slot that is next leads to a blob of a kind, and to a directory which is whole.
Here(m) == IsThere(signature, Slot.offset) /\ signature.blobs[Slot.offset].magic = m

HereWhole == Here("directory") /\ Parses(signature.blobs[Slot.offset])

\* What the next slot adds to the slots of each kind.
LEMMA SlotAdds ==
    ASSUME CsInv, Reading, NEW n, n = slot, UNCHANGED signature, result'.slots = result.slots
    PROVE  /\ n \in Nat \ {0} /\ n \in DOMAIN result.slots
           /\ \A m : Leads(m, n)' = Leads(m, n - 1) \cup (IF Here(m) THEN {n} ELSE {})
           /\ WholeDirectories(n)' = WholeDirectories(n - 1) \cup (IF HereWhole THEN {n} ELSE {})
           /\ MainDirectories(n)'
                = MainDirectories(n - 1)
                    \cup (IF HereWhole /\ Slot.type = "directory" THEN {n} ELSE {})
<1>1. n \in 1..Len(result.slots) /\ Len(result.slots) \in Nat /\ n \in DOMAIN result.slots
    <2>1. Len(result.slots) \in Nat /\ DOMAIN result.slots = 1..Len(result.slots)
        BY Pushed DEF CsInv
    <2> QED
        BY <2>1 DEF Reading, CsInv, CsTypeOK
<1>2. \A k : k \in 1..n <=> k \in 1..(n - 1) \/ k = n
    BY <1>1
<1>3. ASSUME NEW m
      PROVE  Leads(m, n)' = Leads(m, n - 1) \cup (IF Here(m) THEN {n} ELSE {})
    <2> DEFINE lead(k) == /\ IsThere(signature, result.slots[k].offset)
                          /\ signature.blobs[result.slots[k].offset].magic = m
    <2>1. Leads(m, n)' = {k \in 1..n : lead(k)}
        BY DEF Leads
    <2>2. Leads(m, n - 1) = {k \in 1..(n - 1) : lead(k)}
        BY DEF Leads
    <2>3. Here(m) <=> lead(n)
        BY DEF Here, Slot
    <2> HIDE DEF lead
    <2> QED
        BY <1>2, <2>1, <2>2, <2>3
<1> DEFINE whole(k) ==
        LET b == signature.blobs[result.slots[k].offset]
        IN  b.len >= (IF b.version >= 2 THEN Format.team[1] + Format.team[2] ELSE 44)
<1>4. WholeDirectories(n)' = {k \in Leads("directory", n)' : whole(k)}
    BY DEF WholeDirectories
<1>5. WholeDirectories(n - 1) = {k \in Leads("directory", n - 1) : whole(k)}
    BY DEF WholeDirectories
<1>6. Here("directory") => (whole(n) <=> Parses(signature.blobs[Slot.offset]))
    <2> SUFFICES ASSUME Here("directory")
                 PROVE  whole(n) <=> Parses(signature.blobs[Slot.offset])
        OBVIOUS
    <2> DEFINE b == signature.blobs[Slot.offset]
    <2>1. signature \in Signatures /\ Slot.offset \in DOMAIN signature.blobs /\ b.magic = "directory"
        BY DEF CsInv, Here, IsThere
    <2>2. b.version \in 0..ExecSeg /\ b.len \in Nat
        BY <2>1, SignaturesAssumption
    <2>3. b = signature.blobs[result.slots[n].offset]
        BY DEF Slot
    <2> HIDE DEF b
    <2>4. Parses(b) <=> b.len >= (IF b.version >= 2 THEN Format.team[1] + Format.team[2] ELSE 44)
        BY <2>2, WholeIsParsed
    <2> QED
        BY <2>3, <2>4 DEF b
<1> HIDE DEF whole
<1>7. WholeDirectories(n)' = WholeDirectories(n - 1) \cup (IF HereWhole THEN {n} ELSE {})
    <2>1. Leads("directory", n)'
            = Leads("directory", n - 1) \cup (IF Here("directory") THEN {n} ELSE {})
        BY <1>3
    <2> QED
        BY <1>4, <1>5, <1>6, <2>1 DEF HereWhole
<1>8. MainDirectories(n)'
         = MainDirectories(n - 1) \cup (IF HereWhole /\ Slot.type = "directory" THEN {n} ELSE {})
    <2>1. MainDirectories(n)' = {k \in WholeDirectories(n)' : result.slots[k].type = "directory"}
        BY DEF MainDirectories
    <2>2. MainDirectories(n - 1) = {k \in WholeDirectories(n - 1) : result.slots[k].type = "directory"}
        BY DEF MainDirectories
    <2>3. Slot.type = result.slots[n].type
        BY DEF Slot
    <2> QED
        BY <1>7, <2>1, <2>2, <2>3
<1> QED
    BY <1>1, <1>3, <1>7, <1>8

\* The slots of each kind are numbers, of which there are finitely many.
LEMMA SlotsAreNumbers ==
    ASSUME NEW n \in Nat
    PROVE  /\ \A m : Leads(m, n) \in SUBSET (1..n)
           /\ MainDirectories(n) \subseteq WholeDirectories(n)
           /\ WholeDirectories(n) \in SUBSET (1..n)
           /\ IsFiniteSet(WholeDirectories(n) \ MainDirectories(n))
<1>1. /\ \A m : Leads(m, n) \in SUBSET (1..n)
      /\ MainDirectories(n) \subseteq WholeDirectories(n)
      /\ WholeDirectories(n) \in SUBSET (1..n)
    BY DEF Leads, WholeDirectories, MainDirectories
<1>2. IsFiniteSet(1..n)
    BY FS_Interval
<1>3. IsFiniteSet(WholeDirectories(n) \ MainDirectories(n))
    BY <1>1, <1>2, FS_Subset
<1> QED
    BY <1>1, <1>3

\* The slot that comes after others of its kind is the last.
LEMMA LastAfter ==
    ASSUME NEW n \in Nat \ {0}, NEW before \in SUBSET (1..(n - 1))
    PROVE  Max(before \cup {n}) = n
<1>1. n - 1 \in Nat /\ (n - 1) + 1 = n
    OBVIOUS
<1>2. Max(before \cup {(n - 1) + 1}) = (n - 1) + 1
    BY <1>1, GreatestIsLast
<1> QED
    BY <1>1, <1>2

\* What one slot costs or adds: FoundUpTo of the slots before it and of it, by what it
\* leads to.
LEMMA FoundAfter ==
    ASSUME CsInv, Reading, NEW n, n = slot, UNCHANGED signature, result'.slots = result.slots,
           FoundUpTo(n - 1),
           result'.xml = IF Here("xml") THEN Slot.offset ELSE result.xml,
           result'.der = IF Here("der") THEN Slot.offset ELSE result.der,
           result'.cms = IF Here("cms") THEN Slot.offset ELSE result.cms,
           result'.requirements = (Here("requirements") \/ result.requirements),
           Len(result'.alternates) = Len(result.alternates)
               + (IF HereWhole /\ Slot.type # "directory" THEN 1 ELSE 0),
           result'.directory = IF HereWhole /\ Slot.type = "directory"
                               THEN <<ParseCodeDirectory(signature.blobs[Slot.offset])>>
                               ELSE result.directory
    PROVE  FoundUpTo(n)'
<1>1. /\ n \in Nat \ {0} /\ n - 1 \in Nat /\ Slot = result.slots[n]
      /\ \A m : Leads(m, n)' = Leads(m, n - 1) \cup (IF Here(m) THEN {n} ELSE {})
      /\ WholeDirectories(n)' = WholeDirectories(n - 1) \cup (IF HereWhole THEN {n} ELSE {})
      /\ MainDirectories(n)'
           = MainDirectories(n - 1)
               \cup (IF HereWhole /\ Slot.type = "directory" THEN {n} ELSE {})
    <2>1. n \in Nat \ {0}
        BY SlotAdds
    <2> QED
        BY <2>1, SlotAdds DEF Slot
<1>2. /\ \A m : Leads(m, n - 1) \in SUBSET (1..(n - 1))
      /\ MainDirectories(n - 1) \subseteq WholeDirectories(n - 1)
      /\ WholeDirectories(n - 1) \in SUBSET (1..(n - 1))
      /\ IsFiniteSet(WholeDirectories(n - 1) \ MainDirectories(n - 1))
    BY <1>1, SlotsAreNumbers
<1>3. ASSUME NEW m
      PROVE  LastOf(Leads(m, n))' = IF Here(m) THEN Slot.offset ELSE LastOf(Leads(m, n - 1))
    <2>1. CASE Here(m)
        <3>1. Leads(m, n)' = Leads(m, n - 1) \cup {n} /\ Max(Leads(m, n - 1) \cup {n}) = n
            BY <1>1, <1>2, <2>1, LastAfter
        <3> QED
            BY <1>1, <2>1, <3>1 DEF LastOf
    <2>2. CASE ~(Here(m))
        <3>1. Leads(m, n)' = Leads(m, n - 1)
            BY <1>1, <2>2
        <3> QED
            BY <2>2, <3>1 DEF LastOf
    <2> QED
        BY <2>1, <2>2
<1>4. LastOf(MainDirectories(n))'
        = IF HereWhole /\ Slot.type = "directory" THEN Slot.offset
          ELSE LastOf(MainDirectories(n - 1))
    <2>1. CASE HereWhole /\ Slot.type = "directory"
        <3>1. MainDirectories(n)' = MainDirectories(n - 1) \cup {n} /\ Max(MainDirectories(n - 1) \cup {n}) = n
            BY <1>1, <1>2, <2>1, LastAfter
        <3> QED
            BY <1>1, <2>1, <3>1 DEF LastOf
    <2>2. CASE ~(HereWhole /\ Slot.type = "directory")
        <3>1. MainDirectories(n)' = MainDirectories(n - 1)
            BY <1>1, <2>2
        <3> QED
            BY <2>2, <3>1 DEF LastOf
    <2> QED
        BY <2>1, <2>2
<1>5. /\ result'.xml = LastOf(Leads("xml", n))' /\ result'.der = LastOf(Leads("der", n))'
      /\ result'.cms = LastOf(Leads("cms", n))'
    BY <1>3 DEF FoundUpTo
<1>6. result'.requirements = (Leads("requirements", n)' # {})
    BY <1>1 DEF FoundUpTo
<1>7. Len(result'.alternates) = Cardinality(WholeDirectories(n)' \ MainDirectories(n)')
    <2> DEFINE before == WholeDirectories(n - 1) \ MainDirectories(n - 1)
               after == WholeDirectories(n)' \ MainDirectories(n)'
               add == HereWhole /\ Slot.type # "directory"
    <2>1. n \notin WholeDirectories(n - 1) /\ n \notin MainDirectories(n - 1)
        BY <1>1, <1>2
    <2>2. after = before \cup (IF add THEN {n} ELSE {})
        BY <1>1, <2>1
    <2>3. n \notin before /\ IsFiniteSet(before)
        BY <1>2, <2>1
    <2>4. Len(result.alternates) = Cardinality(before)
        BY DEF FoundUpTo
    <2>5. Cardinality(before) \in Nat
        BY <2>3, FS_CardinalityType
    <2>6. CASE add
        <3>1. Cardinality(after) = Cardinality(before) + 1
            <4> HIDE DEF before, after
            <4>1. Cardinality(before \cup {n}) = Cardinality(before) + 1
                BY <2>3, FS_AddElement
            <4> QED
                BY <2>2, <2>6, <4>1
        <3> QED
            BY <2>4, <2>6, <3>1
    <2>7. CASE ~add
        <3>1. after = before
            BY <2>2, <2>7
        <3>2. Len(result'.alternates) = Len(result.alternates) + 0
            BY <2>7
        <3>3. Len(result.alternates) + 0 = Len(result.alternates)
            BY <2>4, <2>5
        <3> QED
            BY <2>4, <3>1, <3>2, <3>3
    <2> QED
        BY <2>6, <2>7
<1>8. result'.directory = IF MainDirectories(n)' = {} THEN <<>>
                          ELSE <<ParseCodeDirectory(signature'.blobs[LastOf(MainDirectories(n))'])>>
    BY <1>1, <1>4 DEF FoundUpTo
<1> QED
    BY <1>5, <1>6, <1>7, <1>8 DEF FoundUpTo

\* The slots that were taken amount to what was found of them.
SlotInv ==
    /\ CsInv
    /\ csEnd = "reading" => FoundUpTo(slot - 1)
    /\ csEnd = "ok" => FoundUpTo(Len(result.slots))

\* No slot amounts to nothing found.
LEMMA SlotInitInv == CsInit => SlotInv
<1> SUFFICES ASSUME CsInit PROVE csEnd = "reading" => FoundUpTo(slot - 1)
    BY CsInitInv DEF SlotInv, CsInit
<1>1. slot - 1 = 0 /\ 1..0 = {}
    BY DEF CsInit
<1>2. /\ result.xml = None /\ result.der = None /\ result.cms = None
      /\ result.requirements = FALSE /\ result.directory = <<>> /\ result.alternates = <<>>
    BY DEF CsInit, NothingFound
<1>3. \A m : Leads(m, 0) = {}
    BY <1>1 DEF Leads
<1>4. WholeDirectories(0) = {} /\ MainDirectories(0) = {}
    BY <1>3 DEF WholeDirectories, MainDirectories
<1>5. Cardinality(WholeDirectories(0) \ MainDirectories(0)) = 0
    BY <1>4, FS_EmptySet
<1> QED
    BY <1>1, <1>2, <1>3, <1>4, <1>5, EmptyIsListed DEF FoundUpTo, LastOf

\* A slot is passed over, or its blob is taken.
LEMMA SlotStep ==
    ASSUME SlotInv, Skip \/ TakeDirectory \/ TakeBlob, NEW n, n = slot
    PROVE  FoundUpTo(n)'
<1>1. CsInv /\ Reading /\ UNCHANGED signature /\ FoundUpTo(n - 1) /\ DOMAIN result = Found
    BY DEF SlotInv, CsInv, Skip, TakeDirectory, TakeBlob, Reading
<1> DEFINE o == Slot.offset
           b == signature.blobs[o]
           cd == ParseCodeDirectory(b)
<1>2. \A m : Here(m) => IsThere(signature, o) /\ b.magic = m
    BY DEF Here
<1>3. Len(result.alternates) \in Nat /\ Listed(result.alternates)
    BY <1>1, Pushed DEF CsInv
<1>4. CASE Skip
    <2>1. ~Here("xml") /\ ~Here("der") /\ ~Here("cms") /\ ~Here("requirements") /\ ~HereWhole
        BY <1>4 DEF Skip, Here, HereWhole
    <2>2. result' = result
        BY <1>4 DEF Skip
    <2>3. /\ result'.slots = result.slots
          /\ result'.xml = IF Here("xml") THEN Slot.offset ELSE result.xml
          /\ result'.der = IF Here("der") THEN Slot.offset ELSE result.der
          /\ result'.cms = IF Here("cms") THEN Slot.offset ELSE result.cms
          /\ result'.directory = IF HereWhole /\ Slot.type = "directory"
                               THEN <<ParseCodeDirectory(signature.blobs[Slot.offset])>>
                               ELSE result.directory
        BY <2>1, <2>2
    <2>4. Len(result'.alternates) = Len(result.alternates)
               + (IF HereWhole /\ Slot.type # "directory" THEN 1 ELSE 0)
        BY <1>3, <2>1, <2>2
    <2>5. result'.requirements = (Here("requirements") \/ result.requirements)
        BY <1>1, <2>1, <2>2 DEF FoundUpTo
    <2> QED
        BY <1>1, <2>3, <2>4, <2>5, FoundAfter
<1>5. CASE TakeDirectory
    <2>1. /\ ~Here("xml") /\ ~Here("der") /\ ~Here("cms") /\ ~Here("requirements") /\ HereWhole
          /\ result' = IF Slot.type = "directory"
                       THEN [result EXCEPT !.directory = <<cd>>]
                       ELSE [result EXCEPT !.alternates = Append(result.alternates, cd)]
        BY <1>5 DEF TakeDirectory, Here, HereWhole
    <2> HIDE DEF cd
    <2>2. /\ result'.slots = result.slots /\ result'.requirements = result.requirements
          /\ result'.xml = result.xml /\ result'.der = result.der /\ result'.cms = result.cms
          /\ result'.directory = IF Slot.type = "directory" THEN <<cd>> ELSE result.directory
          /\ result'.alternates = IF Slot.type = "directory" THEN result.alternates
                                  ELSE Append(result.alternates, cd)
        BY <1>1, <2>1 DEF Found
    <2>3. Len(Append(result.alternates, cd)) = Len(result.alternates) + 1
        BY <1>3, Pushed
    <2>4. Len(result'.alternates) = Len(result.alternates)
               + (IF HereWhole /\ Slot.type # "directory" THEN 1 ELSE 0)
        <3>1. CASE Slot.type = "directory"
            BY <1>3, <2>2, <3>1
        <3>2. CASE Slot.type # "directory"
            BY <2>1, <2>2, <2>3, <3>2
        <3> QED
            BY <3>1, <3>2
    <2>5. result'.requirements = (Here("requirements") \/ result.requirements)
        BY <1>1, <2>1, <2>2 DEF FoundUpTo
    <2>6. /\ result'.xml = IF Here("xml") THEN Slot.offset ELSE result.xml
          /\ result'.der = IF Here("der") THEN Slot.offset ELSE result.der
          /\ result'.cms = IF Here("cms") THEN Slot.offset ELSE result.cms
          /\ result'.directory = IF HereWhole /\ Slot.type = "directory"
                               THEN <<ParseCodeDirectory(signature.blobs[Slot.offset])>>
                               ELSE result.directory
        BY <2>1, <2>2 DEF cd
    <2> QED
        BY <1>1, <2>2, <2>4, <2>5, <2>6, FoundAfter
<1>6. CASE TakeBlob
    <2>1. /\ IsThere(signature, o) /\ ~HereWhole
          /\ \/ b.magic = "xml" /\ result' = [result EXCEPT !.xml = o]
             \/ b.magic = "der" /\ result' = [result EXCEPT !.der = o]
             \/ b.magic = "cms" /\ result' = [result EXCEPT !.cms = o]
             \/ b.magic = "requirements" /\ result' = [result EXCEPT !.requirements = TRUE]
        BY <1>6 DEF TakeBlob, Here, HereWhole
    <2>2. \A m : Here(m) <=> b.magic = m
        BY <2>1 DEF Here
    <2> HIDE DEF o, b
    <2>3. /\ result'.slots = result.slots
          /\ result'.alternates = result.alternates /\ result'.directory = result.directory
          /\ result'.xml = IF Here("xml") THEN o ELSE result.xml
          /\ result'.der = IF Here("der") THEN o ELSE result.der
          /\ result'.cms = IF Here("cms") THEN o ELSE result.cms
          /\ result'.requirements = IF Here("requirements") THEN TRUE ELSE result.requirements
        BY <1>1, <2>1, <2>2 DEF Found
    <2>4. Len(result'.alternates) = Len(result.alternates)
               + (IF HereWhole /\ Slot.type # "directory" THEN 1 ELSE 0)
        BY <1>3, <2>1, <2>3
    <2>5. result'.requirements = (Here("requirements") \/ result.requirements)
        BY <1>1, <2>3 DEF FoundUpTo
    <2>6. result'.directory = IF HereWhole /\ Slot.type = "directory"
                               THEN <<ParseCodeDirectory(signature.blobs[Slot.offset])>>
                               ELSE result.directory
        BY <2>1, <2>3
    <2> QED
        BY <1>1, <2>3, <2>4, <2>5, <2>6, FoundAfter DEF o
<1> QED
    BY <1>4, <1>5, <1>6

\* What was found stays found while nothing is read.
LEMMA FoundStays ==
    ASSUME UNCHANGED <<signature, result>>, NEW n
    PROVE  FoundUpTo(n)' <=> FoundUpTo(n)
<1>1. \A m : Leads(m, n)' = Leads(m, n)
    BY DEF Leads
<1>2. WholeDirectories(n)' = WholeDirectories(n)
    BY <1>1 DEF WholeDirectories
<1>3. MainDirectories(n)' = MainDirectories(n)
    BY <1>2 DEF MainDirectories
<1>4. LastOf(MainDirectories(n))' = LastOf(MainDirectories(n))
    BY <1>3 DEF LastOf
<1>5. \A m : LastOf(Leads(m, n))' = LastOf(Leads(m, n))
    BY <1>1 DEF LastOf
<1> QED
    BY <1>1, <1>2, <1>3, <1>4, <1>5 DEF FoundUpTo

\* Each step of the loop over the slots keeps what was found in line with the slots.
LEMMA SlotInvStep == SlotInv /\ [CsNext]_csVars => SlotInv'
<1> SUFFICES ASSUME SlotInv, [CsNext]_csVars PROVE SlotInv'
    OBVIOUS
<1>1. CsInv' /\ CsInv
    BY CsStep DEF SlotInv
<1>2. slot \in Nat \ {0} /\ Len(result.slots) \in Nat /\ slot <= Len(result.slots) + 1
    <2>1. Len(result.slots) \in Nat
        BY <1>1, Pushed DEF CsInv
    <2> QED
        BY <1>1, <2>1 DEF CsInv, CsTypeOK
<1>3. CASE Skip \/ TakeDirectory \/ TakeBlob
    <2>1. slot' = slot + 1 /\ csEnd' = "reading"
        BY <1>3 DEF Skip, TakeDirectory, TakeBlob, Reading
    <2>2. PICK n : n = slot
        OBVIOUS
    <2>3. FoundUpTo(n)'
        BY <1>3, <2>2, SlotStep
    <2>4. slot' - 1 = n
        BY <1>2, <2>1, <2>2
    <2> QED
        BY <1>1, <2>1, <2>3, <2>4 DEF SlotInv
<1>4. CASE CsReturn
    <2>1. csEnd' = "ok" /\ UNCHANGED <<signature, result>> /\ FoundUpTo(slot - 1)
          /\ slot > Len(result.slots)
        BY <1>4 DEF CsReturn, SlotInv
    <2>2. slot - 1 = Len(result.slots)
        BY <1>2, <2>1
    <2>3. PICK n : n = Len(result.slots)
        OBVIOUS
    <2>4. FoundUpTo(n)'
        BY <2>1, <2>2, <2>3, FoundStays
    <2>5. Len(result'.slots) = n
        BY <2>1, <2>3
    <2> QED
        BY <1>1, <2>1, <2>4, <2>5 DEF SlotInv
<1>5. CASE UNCHANGED csVars
    <2>1. UNCHANGED <<signature, slot, result, csEnd>>
        BY <1>5 DEF csVars
    <2>2. PICK n : n = Len(result.slots)
        OBVIOUS
    <2>3. PICK k : k = slot - 1
        OBVIOUS
    <2>4. /\ FoundUpTo(n)' <=> FoundUpTo(n)
          /\ FoundUpTo(k)' <=> FoundUpTo(k)
        BY <2>1, FoundStays
    <2>5. Len(result'.slots) = n /\ slot' - 1 = k
        BY <2>1, <2>2, <2>3
    <2> QED
        BY <1>1, <2>1, <2>2, <2>3, <2>4, <2>5 DEF SlotInv
<1> QED
    BY <1>3, <1>4, <1>5 DEF CsNext

\* In every signature a slot that leads nowhere and a directory that is cut short cost
\* only themselves: the last blob of each kind is found, and every directory.
THEOREM OneBadSlotAlwaysLosesOnlyItself == CsSpec => []OneBadSlotLosesOnlyItself
<1>1. SlotInv => OneBadSlotLosesOnlyItself
    BY DEF SlotInv, OneBadSlotLosesOnlyItself
<1> QED
    BY SlotInitInv, SlotInvStep, <1>1, PTL DEF CsSpec

\* In every signature the next slot is one that is there or the end of them, and there
\* are no more than parse_code_signature accepts.
THEOREM CsTypeAlwaysOK == CsSpec => []CsTypeOK
BY FieldsAlwaysInPlace, PTL

\* In every archive all that was read of it is a natural number or a name.
THEOREM ArTypeAlwaysOK == ArSpec => []ArTypeOK
BY ContentsAlwaysApart, PTL
=============================================================================
