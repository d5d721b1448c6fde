------------------------ MODULE ChainedFixupsProofs -------------------------
(***************************************************************************)
(* Theorems about the walk over the chains of pointers, for all images.     *)
(***************************************************************************)
EXTENDS ChainedFixups, WellFoundedInduction, TLAPS

\* A set of numbers that is not empty has a least one.
LEMMA LeastIsThere ==
    ASSUME NEW S \in SUBSET Nat, S # {}
    PROVE  Min(S) \in S /\ \A y \in S : Min(S) <= y
<1> DEFINE R == OpToRel(<, Nat)
<1>1. IsWellFoundedOn(R, Nat)
    BY NatLessThanWellFounded
<1>2. \A x, y \in Nat : x < y => <<x, y>> \in R
    BY DEF OpToRel
<1> HIDE DEF R
<1>3. \E x \in S : \A y \in S : ~(<<y, x>> \in R)
    BY <1>1, WFMin
<1>4. \E x \in S : \A y \in S : x <= y
  <2>1. PICK x \in S : \A y \in S : ~(<<y, x>> \in R)
      BY <1>3
  <2>2. \A y \in S : ~(y < x)
      BY <1>2, <2>1
  <2>3. x \in Nat /\ \A y \in S : y \in Nat
      OBVIOUS
  <2>4. \A y \in S : x <= y
      BY <2>2, <2>3
  <2> QED
      BY <2>4
<1> QED
    BY <1>4 DEF Min

\* The chains of a page that the table has start at or after the page.
LEMMA StartsAreOffsets ==
    ASSUME NEW table \in Seq(PageStart), NEW p \in 1..Len(table)
    PROVE  ChainStarts(table, p) \in Seq(Nat)
<1>1. /\ \A k \in 1..Len(table) : table[k].start \in Nat
      /\ Len(table) \in Nat
  <2>1. \A k \in 1..Len(table) : table[k] \in PageStart
      OBVIOUS
  <2>2. \A e \in PageStart : e.start \in Nat
      BY DEF PageStart
  <2> QED
      BY <2>1, <2>2
<1>2. CASE table[p].none \/ ~table[p].multi
    BY <1>1, <1>2 DEF ChainStarts
<1>3. CASE ~table[p].none /\ table[p].multi
  <2> DEFINE first == table[p].start + 1
             lasts == {k \in first..Len(table) : table[k].multi}
             last  == IF lasts = {} THEN Len(table) ELSE Min(lasts)
  <2>1. first \in Nat \ {0}
      BY <1>1
  <2>2. lasts \in SUBSET Nat /\ \A k \in lasts : k \in first..Len(table)
      BY <1>1, <2>1
  <2> HIDE DEF first, lasts
  <2>3. lasts # {} => Min(lasts) \in lasts
      BY <2>2, LeastIsThere
  <2>4. last \in Nat /\ last <= Len(table)
    <3>1. CASE lasts = {}
        BY <1>1, <3>1
    <3>2. CASE lasts # {}
      <4>1. Min(lasts) \in first..Len(table) /\ last = Min(lasts)
          BY <2>2, <2>3, <3>2
      <4> HIDE DEF last
      <4> QED
          BY <1>1, <2>1, <4>1
    <3> QED
        BY <3>1, <3>2
  <2> HIDE DEF last
  <2>5. \A k \in 1..(last - first + 1) : table[first + k - 1].start \in Nat
      BY <1>1, <2>1, <2>4
  <2> DEFINE n == last - first + 1
             entry(k) == table[first + k - 1].start
  <2>6. n \in Int /\ \A k \in 1..n : entry(k) \in Nat
      BY <2>1, <2>4, <2>5
  <2>7. ChainStarts(table, p) = [k \in 1..n |-> entry(k)]
      BY <1>3 DEF ChainStarts, first, lasts, last
  <2> HIDE DEF n, entry
  <2>8. [k \in 1..n |-> entry(k)] \in Seq(Nat)
    <3>1. CASE n \in Nat
        BY <2>6, <3>1
    <3>2. CASE n \notin Nat
      <4>1. 1..n = 1..0
          BY <2>6, <3>2
      <4>2. [k \in 1..0 |-> entry(k)] \in Seq(Nat)
          OBVIOUS
      <4> QED
          BY <4>1, <4>2, Zenon
    <3> QED
        BY <3>1, <3>2
  <2> QED
      BY <2>7, <2>8
<1> QED
    BY <1>2, <1>3

\* An address is cut down to its width once.
LEMMA RebaseIsTarget ==
    ASSUME NEW n \in Nat
    PROVE  Rebase(n) \in Targets
<1> DEFINE m == n % VaWidth
<1>1. m \in 0..(VaWidth - 1)
    BY SizesAssumption
<1>2. m = n % VaWidth
    OBVIOUS
<1> HIDE DEF m
<1>3. m % VaWidth = m
    BY <1>1, SizesAssumption
<1>4. Rebase(m) = Rebase(n)
    BY <1>2, <1>3 DEF Rebase
<1> QED
    BY <1>1, <1>4 DEF Targets

\* What a pointer is decoded to, in any format.
LEMMA DecodedIsTarget ==
    ASSUME NEW w \in Words, NEW format
    PROVE  DecodePtr(w, format) \subseteq Targets
<1>1. w.value \in Values /\ w.value \in Nat /\ ImageBase \in Nat
    BY WordsAssumption, SizesAssumption DEF Word
<1>2. /\ Rebase(w.value) \in Targets /\ Rebase(ImageBase + w.value) \in Targets
      /\ Bind(w.value) \in Targets
    BY <1>1, RebaseIsTarget DEF Targets
<1> QED
    BY <1>2 DEF DecodePtr

\* Every link leads forward, or nowhere.
LEMMA DeltaIsForward ==
    ASSUME NEW w \in Words, NEW format
    PROVE  NextDelta(w, format) \in Nat
<1>1. w.next \in Nat /\ MaxNext \in Nat
    BY WordsAssumption, SizesAssumption DEF Word
<1>2. Stride(format) \in {1, 2}
    BY DEF Stride
<1> QED
    BY <1>1, <1>2 DEF NextDelta

-----------------------------------------------------------------------------
(* The invariant.                                                           *)

\* Between chains, the starts that are left are those of a page.
FixupInv ==
    /\ TypeOK
    /\ segments \in Seq(Segments)
    /\ starts \in Seq(Nat)
    /\ starts # <<>> => page >= 1

\* Nothing has been walked at first.
LEMMA FixupInit == Init => FixupInv
<1> SUFFICES ASSUME Init PROVE FixupInv
    OBVIOUS
<1>1. segments \in Seq(Segments)
    BY SizesAssumption DEF Init
<1>2. DOMAIN fixups = {} /\ DOMAIN word = {}
    BY DEF Init
<1> QED
    BY <1>1, <1>2 DEF Init, FixupInv, TypeOK, NoChain

\* Every step of the walk keeps it.
LEMMA FixupStep == FixupInv /\ [Next]_vars => FixupInv'
<1> SUFFICES ASSUME FixupInv, [Next]_vars PROVE FixupInv'
    OBVIOUS
<1>1. /\ seg \in 1..(Len(segments) + 1) /\ page \in Nat /\ at \in Nat \cup {NoChain}
      /\ segments \in Seq(Segments) /\ starts \in Seq(Nat) /\ Len(segments) \in Nat
      /\ starts # <<>> => page >= 1
    BY DEF FixupInv, TypeOK
<1>2. ~Done => /\ segments[seg] \in Segments /\ seg \in 1..Len(segments)
               /\ segments[seg].offset \in Nat
               /\ segments[seg].table \in Seq(PageStart)
               /\ segments[seg].pages \in 0..Len(segments[seg].table)
  <2>1. ~Done => seg \in 1..Len(segments)
      BY <1>1 DEF Done
  <2> QED
      BY <1>1, <2>1, SegmentsAssumption
<1>3. CASE NextPage
  <2>1. /\ page' = page + 1 /\ page' \in 1..Len(segments[seg].table)
        /\ starts' = ChainStarts(segments[seg].table, page')
        /\ UNCHANGED <<segments, seg, at, fixups, word>>
    <3>1. Len(segments[seg].table) \in Nat
        BY <1>2, <1>3 DEF NextPage, PageIsDone
    <3> QED
        BY <1>1, <1>2, <1>3, <3>1 DEF NextPage, PageIsDone
  <2>2. starts' \in Seq(Nat)
      BY <1>2, <1>3, <2>1, StartsAreOffsets DEF NextPage, PageIsDone
  <2> QED
      BY <1>1, <2>1, <2>2 DEF FixupInv, TypeOK
<1>4. CASE NextSegment
    BY <1>1, <1>2, <1>4 DEF NextSegment, PageIsDone, FixupInv, TypeOK
<1>5. CASE StartChain
  <2>1. Head(starts) \in Nat /\ Tail(starts) \in Seq(Nat) /\ page >= 1
      BY <1>1, <1>5 DEF StartChain
  <2>2. segments[seg].offset \in Nat /\ PageSize \in Nat /\ page - 1 \in Nat
      BY <1>1, <1>2, <1>5, <2>1, SizesAssumption DEF StartChain
  <2>3. (page - 1) * PageSize \in Nat
      BY <2>2
  <2>4. segments[seg].offset + (page - 1) * PageSize + Head(starts) \in Nat
      BY <2>1, <2>2, <2>3
  <2> QED
      BY <1>1, <1>5, <2>1, <2>4 DEF StartChain, FixupInv, TypeOK
<1>6. CASE LeaveFile
    BY <1>1, <1>6 DEF LeaveFile, FixupInv, TypeOK
<1>7. ASSUME NEW w \in Words, Walk(w)
      PROVE  FixupInv'
  <2> DEFINE format == segments[seg].format
             delta == NextDelta(w, format)
             targets == DecodePtr(w, format)
  <2>1. /\ ReadWord(w) /\ InsertFixup(targets)
        /\ at' = IF delta = 0 THEN NoChain ELSE at + delta
        /\ UNCHANGED <<segments, seg, page, starts>>
      BY <1>7 DEF Walk
  <2>2. delta \in Nat
      BY DeltaIsForward
  <2>3. targets \subseteq Targets
      BY DecodedIsTarget
  <2> HIDE DEF delta, targets
  <2>4. /\ at \in Nat /\ at \in 0..(FileSize - 2)
        /\ word' = [o \in DOMAIN word \cup {at} |-> IF o = at THEN w ELSE word[o]]
      BY <1>1, <2>1, SizesAssumption DEF ReadWord, Readable
  <2>5. at' \in Nat \cup {NoChain}
      BY <2>1, <2>2, <2>4
  <2>6. \A o \in DOMAIN word' : o \in 0..(FileSize - 2) /\ word'[o] \in Word
    <3>1. w \in Word
        BY WordsAssumption
    <3>2. \A o \in DOMAIN word : o \in 0..(FileSize - 2) /\ word[o] \in Word
        BY DEF FixupInv, TypeOK
    <3> QED
        BY <2>4, <3>1, <3>2
  <2>7. DOMAIN fixups' \subseteq DOMAIN word' /\ \A o \in DOMAIN fixups' : fixups'[o] \in Targets
    <3>1. DOMAIN fixups \subseteq DOMAIN word /\ \A o \in DOMAIN fixups : fixups[o] \in Targets
        BY DEF FixupInv, TypeOK
    <3>2. CASE targets = {}
        BY <2>1, <2>4, <3>1, <3>2 DEF InsertFixup
    <3>3. CASE targets # {}
      <4>1. PICK t \in targets :
               fixups' = [o \in DOMAIN fixups \cup {at} |-> IF o = at THEN t ELSE fixups[o]]
          BY <2>1, <3>3 DEF InsertFixup
      <4> QED
          BY <2>3, <2>4, <3>1, <4>1
    <3> QED
        BY <3>2, <3>3
  <2> QED
      BY <1>1, <2>1, <2>5, <2>6, <2>7 DEF FixupInv, TypeOK
<1>8. CASE UNCHANGED vars
    BY <1>8 DEF vars, FixupInv, TypeOK, Targets
<1> QED
    BY <1>3, <1>4, <1>5, <1>6, <1>7, <1>8 DEF Next

\* Whatever the chains are, in whatever formats, and wherever they run together, the
\* walk reads no pointer that is not all in the file, records none that it has not
\* read, and every address it records fits its width.
THEOREM WalkStaysInTheFile == Spec => []TypeOK
<1>1. FixupInv => TypeOK
    BY DEF FixupInv
<1> QED
    BY <1>1, FixupInit, FixupStep, PTL DEF Spec

-----------------------------------------------------------------------------
(* Which pointers are on the chains of a segment.                           *)

\* Of the words w of the file and the segment s: a link that leads from p to o, and
\* what puts o on a chain if the pointers in C are on one.
Link(w, s, p, o) == p < o /\ p + NextDelta(w[p], s.format) = o
Reached(w, s, C, o) == o \in StartsOf(s) \/ \E p \in C : Link(w, s, p, o)

\* The pointers in C are those that starts and links reach.
AreOnChains(w, s, C) ==
    C \subseteq DOMAIN w /\ \A o \in DOMAIN w : o \in C <=> Reached(w, s, C, o)

\* Links lead forward, so no two sets of pointers are those that are reached.
LEMMA ChainsAreUnique ==
    ASSUME NEW w, DOMAIN w \subseteq Nat, NEW s, NEW C, NEW D,
           AreOnChains(w, s, C), AreOnChains(w, s, D)
    PROVE  C = D
<1> DEFINE differ == {o \in DOMAIN w : ~(o \in C <=> o \in D)}
<1>1. differ = {}
  <2> SUFFICES ASSUME differ # {} PROVE FALSE
      OBVIOUS
  <2>1. differ \in SUBSET Nat
      OBVIOUS
  <2> DEFINE o == Min(differ)
  <2>2. o \in differ /\ \A p \in differ : o <= p
    <3> HIDE DEF differ
    <3> QED
        BY <2>1, LeastIsThere
  <2> HIDE DEF o
  <2>3. o \in DOMAIN w /\ o \in Nat
      BY <2>2
  <2>4. \A p \in DOMAIN w : p < o => (p \in C <=> p \in D)
    <3> SUFFICES ASSUME NEW p \in DOMAIN w, p < o PROVE p \notin differ
        OBVIOUS
    <3>1. p \in Nat /\ ~(o <= p)
        BY <2>3
    <3> QED
        BY <2>2, <3>1
  <2>5. Reached(w, s, C, o) <=> Reached(w, s, D, o)
      BY <2>4 DEF Reached, Link, AreOnChains
  <2> QED
      BY <2>2, <2>3, <2>5 DEF AreOnChains
<1> QED
    BY <1>1 DEF AreOnChains

\* There is one: the pointers that are in every set that starts and links do not leave.
LEMMA ChainsAreThere ==
    ASSUME NEW w, DOMAIN w \subseteq Nat, NEW s
    PROVE  \E C : AreOnChains(w, s, C)
<1> DEFINE Kept(S) == \A o \in DOMAIN w : Reached(w, s, S, o) => o \in S
           C == {o \in DOMAIN w : \A S \in SUBSET (DOMAIN w) : Kept(S) => o \in S}
<1>1. C \subseteq DOMAIN w
    OBVIOUS
<1>2. ASSUME NEW o \in DOMAIN w, Reached(w, s, C, o)
      PROVE  o \in C
  <2> SUFFICES ASSUME NEW S \in SUBSET (DOMAIN w), Kept(S) PROVE o \in S
      OBVIOUS
  <2>1. C \subseteq S
      OBVIOUS
  <2> HIDE DEF C
  <2>2. Reached(w, s, S, o)
      BY <1>2, <2>1 DEF Reached
  <2> QED
      BY <2>2
<1>3. ASSUME NEW o \in C
      PROVE  Reached(w, s, C, o)
  <2> SUFFICES ASSUME ~Reached(w, s, C, o) PROVE FALSE
      OBVIOUS
  <2> DEFINE S == C \ {o}
  <2>1. S \in SUBSET (DOMAIN w) /\ S \subseteq C /\ o \notin S
      BY <1>1
  <2>2. Kept(S)
    <3> SUFFICES ASSUME NEW q \in DOMAIN w, Reached(w, s, S, q) PROVE q \in S
        OBVIOUS
    <3> HIDE DEF C
    <3>1. Reached(w, s, C, q)
        BY <2>1 DEF Reached
    <3> QED
        BY <1>2, <3>1
  <2>3. o \in S
    <3> HIDE DEF S
    <3> QED
        BY <2>1, <2>2
  <2> QED
      BY <2>1, <2>3
<1>4. AreOnChains(w, s, C)
  <2> HIDE DEF C
  <2> QED
      BY <1>1, <1>2, <1>3 DEF AreOnChains
<1> QED
    BY <1>4

\* The recursive definition of OnChainsOf is of that set.
LEMMA OnChainsAreReached ==
    ASSUME DOMAIN word \subseteq Nat, NEW s
    PROVE  AreOnChains(word, s, OnChainsOf(s))
<1> DEFINE rule(f) == [o \in DOMAIN word |->
                          \/ o \in StartsOf(s)
                          \/ \E p \in DOMAIN word :
                               p < o /\ p + NextDelta(word[p], s.format) = o /\ f[p]]
           on == CHOOSE f : f = rule(f)
<1>1. OnChainsOf(s) = {o \in DOMAIN word : on[o]}
    BY DEF OnChainsOf
<1>2. PICK C : AreOnChains(word, s, C)
    BY ChainsAreThere
<1> DEFINE g == [o \in DOMAIN word |-> o \in C]
<1>3. g = rule(g)
  <2>1. \A o \in DOMAIN word : g[o] <=> rule(g)[o]
      BY <1>2 DEF AreOnChains, Reached, Link
  <2>2. \A o \in DOMAIN word : g[o] \in BOOLEAN /\ rule(g)[o] \in BOOLEAN
      OBVIOUS
  <2>3. \A o \in DOMAIN word : g[o] = rule(g)[o]
      BY <2>1, <2>2
  <2> QED
      BY <2>3
<1>4. on = rule(on)
  <2> HIDE DEF g, rule
  <2> QED
      BY <1>3
<1>5. \A o \in DOMAIN word : on[o] <=> rule(on)[o]
  <2> HIDE DEF on, rule
  <2> QED
      BY <1>4
<1> HIDE DEF on
<1>6. \A o \in DOMAIN word :
         on[o] <=> \/ o \in StartsOf(s)
                   \/ \E p \in DOMAIN word : Link(word, s, p, o) /\ on[p]
    BY <1>5 DEF Link
<1> QED
    BY <1>1, <1>6 DEF AreOnChains, Reached

\* Where a page is, where its chains start, and where those start that are left of it.
Base(s, p) == s.offset + (p - 1) * PageSize
StartsIn(table, p) ==
    {table[k].start : k \in {j \in DOMAIN table : ~table[p].none /\ StartsChain(table, p, j)}}
PageStarts(s, p) == {Base(s, p) + x : x \in StartsIn(s.table, p)}
Left(s, p, ss) == {Base(s, p) + ss[i] : i \in 1..Len(ss)}

\* The list that ChainStarts makes of the entries of a page has each that starts a chain
\* of the page, up to the last one and no further, and no other.
LEMMA StartsAreListed ==
    ASSUME NEW table \in Seq(PageStart), NEW p \in 1..Len(table)
    PROVE  /\ \A i \in 1..Len(ChainStarts(table, p)) : ChainStarts(table, p)[i] \in StartsIn(table, p)
           /\ \A x \in StartsIn(table, p) :
                \E i \in 1..Len(ChainStarts(table, p)) : ChainStarts(table, p)[i] = x
<1> DEFINE c == ChainStarts(table, p)
<1>1. /\ \A k \in 1..Len(table) : table[k].start \in Nat
      /\ Len(table) \in Nat /\ DOMAIN table = 1..Len(table)
  <2>1. \A k \in 1..Len(table) : table[k] \in PageStart
      OBVIOUS
  <2>2. \A e \in PageStart : e.start \in Nat
      BY DEF PageStart
  <2> QED
      BY <2>1, <2>2
<1>2. CASE table[p].none
  <2>1. c = <<>> /\ StartsIn(table, p) = {}
      BY <1>2 DEF ChainStarts, StartsIn
  <2>2. Len(c) = 0
      BY <2>1
  <2>3. \A i \in 1..Len(c) : FALSE
      BY <2>2
  <2> QED
      BY <2>1, <2>3
<1>3. CASE ~table[p].none /\ ~table[p].multi
  <2>1. c = <<table[p].start>>
      BY <1>3 DEF ChainStarts
  <2> DEFINE x == table[p].start
  <2>2. Len(c) = 1 /\ c[1] = x
      BY <2>1
  <2>3. \A i \in 1..Len(c) : i = 1
      BY <2>2
  <2>4. \A k \in DOMAIN table : StartsChain(table, p, k) <=> k = p
      BY <1>3 DEF StartsChain
  <2>5. StartsIn(table, p) = {x}
      BY <1>1, <1>3, <2>4 DEF StartsIn
  <2> HIDE DEF x, c
  <2>6. 1 \in 1..Len(c)
      BY <2>2
  <2>7. \A i \in 1..Len(c) : c[i] = x
      BY <2>2, <2>3
  <2>8. \A y \in StartsIn(table, p) : c[1] = y
      BY <2>2, <2>5
  <2> QED
      BY <2>5, <2>6, <2>7, <2>8 DEF c
<1>4. CASE ~table[p].none /\ table[p].multi
  <2> DEFINE first == table[p].start + 1
             lasts == {k \in first..Len(table) : table[k].multi}
             last  == IF lasts = {} THEN Len(table) ELSE Min(lasts)
             n == last - first + 1
             entry(k) == table[first + k - 1].start
  <2>1. first \in Nat \ {0}
      BY <1>1
  <2>2. lasts \in SUBSET Nat
      BY <1>1, <2>1
  <2>3. /\ last \in Nat /\ last <= Len(table)
        /\ \A k \in first..Len(table) : k <= last <=> \A j \in first..(k - 1) : ~table[j].multi
    <3>1. CASE lasts = {}
      <4>1. last = Len(table)
          BY <3>1
      <4>2. \A j \in first..Len(table) : ~table[j].multi
          BY <3>1
      <4> HIDE DEF first, lasts, last
      <4>3. ASSUME NEW k \in first..Len(table)
            PROVE  k <= last <=> \A j \in first..(k - 1) : ~table[j].multi
        <5>1. k <= last
            BY <1>1, <2>1, <4>1
        <5>2. \A j \in first..(k - 1) : j \in first..Len(table)
            BY <1>1, <2>1
        <5> QED
            BY <4>2, <5>1, <5>2
      <4> QED
          BY <1>1, <4>1, <4>3
    <3>2. CASE lasts # {}
      <4>1. last = Min(lasts)
          BY <3>2
      <4> HIDE DEF last
      <4>2. last \in lasts /\ \A k \in lasts : last <= k
        <5> HIDE DEF lasts
        <5> QED
            BY <2>2, <3>2, <4>1, LeastIsThere
      <4>3. last \in first..Len(table) /\ table[last].multi
            /\ \A j \in first..Len(table) : table[j].multi => last <= j
          BY <4>2
      <4> HIDE DEF first, lasts
      <4>4. ASSUME NEW k \in first..Len(table)
            PROVE  k <= last <=> \A j \in first..(k - 1) : ~table[j].multi
        <5>1. ASSUME k <= last, NEW j \in first..(k - 1) PROVE ~table[j].multi
          <6>1. j \in first..Len(table) /\ ~(last <= j)
              BY <1>1, <2>1, <4>3, <5>1
          <6> QED
              BY <4>3, <6>1
        <5>2. ASSUME ~(k <= last) PROVE last \in first..(k - 1)
            BY <1>1, <2>1, <4>3, <5>2
        <5> QED
            BY <4>3, <5>1, <5>2
      <4> QED
          BY <1>1, <2>1, <4>3, <4>4
    <3> QED
        BY <3>1, <3>2
  <2>4. c = [k \in 1..n |-> entry(k)]
      BY <1>4 DEF ChainStarts
  <2>5. \A k \in DOMAIN table :
            StartsChain(table, p, k) <=> k >= first /\ \A j \in first..(k - 1) : ~table[j].multi
      BY <1>4 DEF StartsChain
  <2>6. StartsIn(table, p) = {table[k].start : k \in {j \in DOMAIN table : StartsChain(table, p, j)}}
      BY <1>4 DEF StartsIn
  <2> HIDE DEF first, lasts, last, c
  <2>7. \A k \in 1..Len(table) : StartsChain(table, p, k) <=> k \in first..last
    <3> SUFFICES ASSUME NEW k \in 1..Len(table)
                 PROVE  StartsChain(table, p, k) <=> k \in first..last
        OBVIOUS
    <3>1. StartsChain(table, p, k) <=> k >= first /\ \A j \in first..(k - 1) : ~table[j].multi
        BY <1>1, <2>5
    <3>2. k >= first => k \in first..Len(table)
        BY <1>1, <2>1
    <3>3. k >= first => (k <= last <=> \A j \in first..(k - 1) : ~table[j].multi)
        BY <2>3, <3>2
    <3>4. k \in first..last <=> k >= first /\ k <= last
        BY <1>1, <2>1, <2>3
    <3> QED
        BY <3>1, <3>3, <3>4
  <2>8. \A i \in 1..n : first + i - 1 \in 1..Len(table) /\ first + i - 1 \in first..last
      BY <1>1, <2>1, <2>3
  <2>9. n \in Int /\ DOMAIN c = 1..n
      BY <2>1, <2>3, <2>4
  <2>10. c \in Seq(Nat) /\ DOMAIN c = 1..Len(c)
      BY StartsAreOffsets DEF c
  <2>11. 1..Len(c) = 1..n
      BY <2>9, <2>10
  <2>12. ASSUME NEW i \in 1..Len(c)
         PROVE  c[i] \in StartsIn(table, p)
    <3>1. i \in 1..n /\ c[i] = table[first + i - 1].start
        BY <2>4, <2>11
    <3>2. first + i - 1 \in DOMAIN table /\ StartsChain(table, p, first + i - 1)
        BY <1>1, <2>7, <2>8, <3>1
    <3> HIDE DEF n
    <3> QED
        BY <2>6, <3>1, <3>2
  <2>13. ASSUME NEW x \in StartsIn(table, p)
         PROVE  \E i \in 1..Len(c) : c[i] = x
    <3>1. PICK k \in DOMAIN table : StartsChain(table, p, k) /\ x = table[k].start
        BY <2>6
    <3>2. k \in first..last /\ k \in Nat
        BY <1>1, <2>7, <3>1
    <3> DEFINE i == k - first + 1
    <3>3. i \in 1..n /\ first + i - 1 = k
        BY <2>1, <2>3, <3>2
    <3> HIDE DEF i
    <3>4. c[i] = table[first + i - 1].start
        BY <2>4, <3>3
    <3> QED
        BY <2>11, <3>1, <3>3, <3>4
  <2> QED
      BY <2>12, <2>13 DEF c
<1> QED
    BY <1>2, <1>3, <1>4

\* The chains of a segment start in its pages.
LEMMA StartsAreOfPages ==
    ASSUME NEW s \in Segments, NEW o
    PROVE  o \in StartsOf(s) <=> \E p \in 1..s.pages : o \in PageStarts(s, p)
<1> DEFINE r(p, k) == ~s.table[p].none /\ StartsChain(s.table, p, k)
<1>1. o \in StartsOf(s) <=>
        \E q \in (1..s.pages) \X DOMAIN s.table :
            r(q[1], q[2]) /\ o = s.offset + (q[1] - 1) * PageSize + s.table[q[2]].start
    BY DEF StartsOf
<1>2. \A p : o \in PageStarts(s, p) <=>
        \E k \in DOMAIN s.table : r(p, k) /\ o = s.offset + (p - 1) * PageSize + s.table[k].start
    BY DEF PageStarts, StartsIn, Base
<1> HIDE DEF r
<1>3. ASSUME o \in StartsOf(s)
      PROVE  \E p \in 1..s.pages : o \in PageStarts(s, p)
  <2>1. PICK q \in (1..s.pages) \X DOMAIN s.table :
            r(q[1], q[2]) /\ o = s.offset + (q[1] - 1) * PageSize + s.table[q[2]].start
      BY <1>1, <1>3
  <2>2. q[1] \in 1..s.pages /\ q[2] \in DOMAIN s.table
      OBVIOUS
  <2> QED
      BY <1>2, <2>1, <2>2
<1>4. ASSUME NEW p \in 1..s.pages, o \in PageStarts(s, p)
      PROVE  o \in StartsOf(s)
  <2>1. PICK k \in DOMAIN s.table :
            r(p, k) /\ o = s.offset + (p - 1) * PageSize + s.table[k].start
      BY <1>2, <1>4
  <2> DEFINE q == <<p, k>>
  <2>2. q \in (1..s.pages) \X DOMAIN s.table /\ q[1] = p /\ q[2] = k
      OBVIOUS
  <2> HIDE DEF q
  <2> QED
      BY <1>1, <2>1, <2>2
<1> QED
    BY <1>3, <1>4

-----------------------------------------------------------------------------
(* The invariant.  C are the pointers of a segment that were walked.        *)

\* Of a segment that is done: what is on its chains was walked, and no more.
Walked(w, s, C) ==
    /\ C \subseteq DOMAIN w
    /\ \A o \in C : Reached(w, s, C, o)
    /\ \A o \in Nat : Readable(o) /\ Reached(w, s, C, o) => o \in C

\* Of the one that is walked: what is missing is a start that is left of this page or of
\* the later ones, or the pointer that the walk is at.
Walking(w, s, C, p, ss, a) ==
    /\ C \subseteq DOMAIN w
    /\ \A o \in C : Reached(w, s, C, o)
    /\ a = NoChain \/ Reached(w, s, C, a)
    /\ p \in 0..s.pages
    /\ Left(s, p, ss) \subseteq StartsOf(s)
    /\ \A q \in 1..p : \A o \in PageStarts(s, q) :
         Readable(o) => o \in C \/ o = a \/ o \in Left(s, p, ss)
    /\ \A q \in C : \A o \in Nat : Link(w, s, q, o) /\ Readable(o) => o \in C \/ o = a

\* What a segment says of a pointer, if it is one that was walked.
Told(w, s, C, o) == IF o \in C THEN DecodePtr(w[o], s.format) ELSE {}

\* The fixups are what the segments say, the last one of those that say something.
Fixed(fx, w, segs, cs) ==
    /\ \A o : o \in DOMAIN fx <=> \E k \in 1..Len(segs) : Told(w, segs[k], cs[k], o) # {}
    /\ \A k \in 1..Len(segs) : \A o \in cs[k] :
         (/\ Told(w, segs[k], cs[k], o) # {}
          /\ \A later \in 1..Len(segs) : later > k => Told(w, segs[later], cs[later], o) = {})
         => Told(w, segs[k], cs[k], o) = {fx[o]}

ChainsAre(cs, segs, sg, p, ss, a, fx, w) ==
    /\ \A k \in 1..Len(segs) : k < sg => Walked(w, segs[k], cs[k])
    /\ \A k \in 1..Len(segs) : k > sg => cs[k] = {}
    /\ sg <= Len(segs) => Walking(w, segs[sg], cs[sg], p, ss, a)
    /\ sg > Len(segs) => a = NoChain
    /\ Fixed(fx, w, segs, cs)

ChainsInv == \E cs : ChainsAre(cs, segments, seg, page, starts, at, fixups, word)

\* A word that is read later changes nothing of what was walked before.
LEMMA WordsStay ==
    ASSUME NEW w, NEW w2, DOMAIN w \subseteq DOMAIN w2, \A o \in DOMAIN w : w2[o] = w[o],
           NEW s, NEW C, C \subseteq DOMAIN w
    PROVE  /\ \A p \in C : \A o : Link(w2, s, p, o) <=> Link(w, s, p, o)
           /\ \A o : Reached(w2, s, C, o) <=> Reached(w, s, C, o)
           /\ Walked(w, s, C) => Walked(w2, s, C)
           /\ \A o : Told(w2, s, C, o) = Told(w, s, C, o)
<1>1. \A p \in C : w2[p] = w[p]
    OBVIOUS
<1>2. \A p \in C : \A o : Link(w2, s, p, o) <=> Link(w, s, p, o)
    BY <1>1 DEF Link
<1>3. \A o : Reached(w2, s, C, o) <=> Reached(w, s, C, o)
    BY <1>2 DEF Reached
<1>4. Walked(w, s, C) => Walked(w2, s, C)
    BY <1>3 DEF Walked
<1>5. \A o : Told(w2, s, C, o) = Told(w, s, C, o)
    BY <1>1 DEF Told
<1> QED
    BY <1>2, <1>3, <1>4, <1>5

\* A pointer has one target or none.
LEMMA OneTarget ==
    ASSUME NEW w, NEW format
    PROVE  DecodePtr(w, format) = {} \/ \E t : DecodePtr(w, format) = {t}
<1> DEFINE g == IF w.b63 THEN Bind(w.value)
                ELSE Rebase(IF format = "64" THEN w.value ELSE ImageBase + w.value)
           a == IF w.b62 THEN Bind(w.value)
                ELSE Rebase(IF format = "ARM64E" THEN w.value ELSE ImageBase + w.value)
<1>1. DecodePtr(w, format) \in {{g}, {a}, {}}
    BY DEF DecodePtr
<1> HIDE DEF g, a
<1> QED
    BY <1>1

\* Nothing was walked at first.
LEMMA ChainsInit == Init => ChainsInv
<1> SUFFICES ASSUME Init PROVE ChainsInv
    OBVIOUS
<1> DEFINE cs == [k \in 1..Len(segments) |-> {}]
<1>0. segments \in Seq(Segments) /\ Len(segments) \in Nat
    BY SizesAssumption DEF Init
<1>1. seg = 1 /\ page = 0 /\ starts = <<>> /\ at = NoChain /\ DOMAIN fixups = {}
    BY DEF Init
<1>2. Len(starts) = 0 /\ \A i \in 1..Len(starts) : FALSE
    BY <1>1
<1>3. \A k \in 1..Len(segments) : cs[k] = {}
    OBVIOUS
<1> HIDE DEF cs
<1>4. ASSUME seg <= Len(segments)
      PROVE  Walking(word, segments[seg], cs[seg], page, starts, at)
  <2>1. seg \in 1..Len(segments)
      BY <1>0, <1>1, <1>4
  <2>2. cs[seg] = {} /\ segments[seg] \in Segments
      BY <1>0, <1>3, <2>1
  <2>3. segments[seg].pages \in Nat
      BY <2>2, SegmentsAssumption
  <2>4. Left(segments[seg], page, starts) = {}
      BY <1>2 DEF Left
  <2>5. \A q \in 1..page : FALSE
      BY <1>1
  <2> QED
      BY <1>1, <2>2, <2>3, <2>4, <2>5 DEF Walking
<1>5. Fixed(fixups, word, segments, cs)
    BY <1>1, <1>3 DEF Fixed, Told
<1> HIDE DEF cs
<1>6. \A k \in 1..Len(segments) : ~(k < seg)
    BY <1>0, <1>1
<1>7. ChainsAre(cs, segments, seg, page, starts, at, fixups, word)
    BY <1>1, <1>3, <1>4, <1>5, <1>6 DEF ChainsAre
<1> QED
    BY <1>7 DEF ChainsInv

\* What is known of the loops.
LEMMA LoopsAre ==
    ASSUME FixupInv
    PROVE  /\ seg \in 1..(Len(segments) + 1) /\ page \in Nat /\ at \in Nat \cup {NoChain}
           /\ Len(segments) \in Nat
           /\ starts \in Seq(Nat) /\ (starts # <<>> => page >= 1)
           /\ \A o \in DOMAIN word : o \in Nat /\ Readable(o)
           /\ \A k \in 1..Len(segments) : segments[k] \in Segments
           /\ seg <= Len(segments) <=> ~Done
           /\ seg <= Len(segments) => seg \in 1..Len(segments)
<1>1. /\ seg \in 1..(Len(segments) + 1) /\ page \in Nat /\ at \in Nat \cup {NoChain}
      /\ starts \in Seq(Nat) /\ (starts # <<>> => page >= 1)
      /\ segments \in Seq(Segments) /\ Len(segments) \in Nat
      /\ \A o \in DOMAIN word : o \in 0..(FileSize - 2)
    BY DEF FixupInv, TypeOK
<1>2. \A o \in DOMAIN word : o \in Nat /\ Readable(o)
  <2>1. \A o \in 0..(FileSize - 2) : o \in Nat /\ o + 2 <= FileSize
      BY SizesAssumption
  <2> QED
      BY <1>1, <2>1 DEF Readable
<1>3. seg <= Len(segments) <=> ~Done
    BY <1>1 DEF Done
<1>4. seg <= Len(segments) => seg \in 1..Len(segments)
    BY <1>1
<1> QED
    BY <1>1, <1>2, <1>3, <1>4

\* Offsets at which chains start are natural numbers.
LEMMA StartsAreNat ==
    ASSUME NEW s \in Segments, NEW p \in 1..s.pages, NEW o \in PageStarts(s, p)
    PROVE  o \in Nat
<1>1. s.offset \in Nat /\ PageSize \in Nat /\ s.pages \in Nat /\ s.table \in Seq(PageStart)
    BY SegmentsAssumption, SizesAssumption
<1>2. p - 1 \in Nat
    BY <1>1
<1>3. (p - 1) * PageSize \in Nat
    BY <1>1, <1>2
<1>4. PICK k \in DOMAIN s.table : o = Base(s, p) + s.table[k].start
    BY DEF PageStarts, StartsIn
<1>5. s.table[k] \in PageStart
    BY <1>1
<1> DEFINE b == (p - 1) * PageSize
           f == s.offset
           x == s.table[k].start
<1>6. x \in Nat
    BY <1>5 DEF PageStart
<1>7. f \in Nat /\ b \in Nat /\ o = f + b + x
    BY <1>1, <1>3, <1>4 DEF Base
<1> HIDE DEF b, f, x
<1> QED
    BY <1>6, <1>7

\* The next page: its starts are those of the table.
LEMMA NextPageKeepsChains ==
    ASSUME FixupInv, ChainsInv, NextPage
    PROVE  ChainsInv'
<1>1. PICK cs : ChainsAre(cs, segments, seg, page, starts, at, fixups, word)
    BY DEF ChainsInv
<1>2. /\ ~Done /\ at = NoChain /\ starts = <<>> /\ page < segments[seg].pages
      /\ page' = page + 1
      /\ starts' = ChainStarts(segments[seg].table, page')
      /\ UNCHANGED <<segments, seg, at, fixups, word>>
    BY DEF NextPage, PageIsDone
<1> DEFINE s == segments[seg]
           C == cs[seg]
           p == page + 1
           ss == ChainStarts(s.table, p)
<1>3. seg \in 1..Len(segments) /\ s \in Segments /\ page \in Nat /\ seg <= Len(segments)
      /\ \A o \in DOMAIN word : o \in Nat /\ Readable(o)
    BY <1>2, LoopsAre
<1>4. /\ s.pages \in Nat /\ p \in 1..s.pages
      /\ s.table \in Seq(PageStart) /\ p \in 1..Len(s.table)
  <2>1. s.pages \in 0..Len(s.table) /\ s.table \in Seq(PageStart) /\ Len(s.table) \in Nat
      BY <1>3, SegmentsAssumption
  <2> HIDE DEF s
  <2>2. page < s.pages
      BY <1>2 DEF s
  <2> QED
      BY <1>3, <2>1, <2>2
<1>5. Walking(word, s, C, page, starts, at)
    BY <1>1, <1>3 DEF ChainsAre
<1>6. Left(s, p, ss) = PageStarts(s, p)
  <2>1. \A o : o \in Left(s, p, ss) <=> \E i \in 1..Len(ss) : o = Base(s, p) + ss[i]
      BY DEF Left
  <2>2. \A o : o \in PageStarts(s, p) <=> \E x \in StartsIn(s.table, p) : o = Base(s, p) + x
      BY DEF PageStarts
  <2>3. /\ \A i \in 1..Len(ss) : ss[i] \in StartsIn(s.table, p)
        /\ \A x \in StartsIn(s.table, p) : \E i \in 1..Len(ss) : ss[i] = x
      BY <1>4, StartsAreListed
  <2> HIDE DEF s, p, ss
  <2>4. \A o : o \in Left(s, p, ss) <=> o \in PageStarts(s, p)
      BY <2>1, <2>2, <2>3
  <2> QED
      BY <2>4
<1>7. \A i \in 1..Len(starts) : FALSE
  <2>1. Len(starts) = 0
      BY <1>2
  <2> QED
      BY <2>1
<1>8. Left(s, page, starts) = {}
    BY <1>7 DEF Left
<1> HIDE DEF s, C, p, ss
<1>9. PageStarts(s, p) \subseteq StartsOf(s)
    BY <1>3, <1>4, StartsAreOfPages DEF s
<1>10. ASSUME NEW q \in 1..p, NEW o \in PageStarts(s, q), Readable(o)
       PROVE  o \in C \/ o = at \/ o \in Left(s, p, ss)
  <2>1. CASE q = p
      BY <1>6, <1>10, <2>1
  <2>2. CASE q # p
    <3>1. q \in 1..page
        BY <1>3, <2>2 DEF p
    <3>2. o \in C \/ o = at \/ o \in Left(s, page, starts)
        BY <1>5, <1>10, <3>1 DEF Walking
    <3> QED
        BY <1>8, <3>2
  <2> QED
      BY <2>1, <2>2
<1>11. p \in 0..s.pages
    BY <1>4
<1>12. Walking(word, s, C, p, ss, at)
    BY <1>5, <1>6, <1>9, <1>10, <1>11 DEF Walking
<1>13. page' = p /\ starts' = ss
    BY <1>2 DEF p, s, ss
<1>14. ChainsAre(cs, segments, seg, p, ss, at, fixups, word)
    BY <1>1, <1>12 DEF ChainsAre, s, C
<1>15. ChainsAre(cs, segments', seg', page', starts', at', fixups', word')
    BY <1>2, <1>13, <1>14
<1> QED
    BY <1>15 DEF ChainsInv

\* At the end of a segment all that is on its chains was walked.
LEMMA NextSegmentKeepsChains ==
    ASSUME FixupInv, ChainsInv, NextSegment
    PROVE  ChainsInv'
<1>1. PICK cs : ChainsAre(cs, segments, seg, page, starts, at, fixups, word)
    BY DEF ChainsInv
<1>2. /\ ~Done /\ at = NoChain /\ starts = <<>> /\ page = segments[seg].pages
      /\ seg' = seg + 1 /\ page' = 0
      /\ UNCHANGED <<segments, starts, at, fixups, word>>
    BY DEF NextSegment, PageIsDone
<1> DEFINE s == segments[seg]
           C == cs[seg]
<1>3. /\ seg \in 1..Len(segments) /\ s \in Segments /\ page \in Nat /\ seg <= Len(segments)
      /\ Len(segments) \in Nat /\ \A k \in 1..Len(segments) : segments[k] \in Segments
      /\ \A o \in DOMAIN word : o \in Nat /\ Readable(o)
    BY <1>2, LoopsAre
<1>4. Walking(word, s, C, page, starts, at)
    BY <1>1, <1>3 DEF ChainsAre
<1>5. \A i \in 1..Len(starts) : FALSE
  <2>1. Len(starts) = 0
      BY <1>2
  <2> QED
      BY <2>1
<1>6. \A t, p : Left(t, p, starts) = {}
    BY <1>5 DEF Left
<1>7. Walked(word, s, C)
  <2>1. ASSUME NEW o \in Nat, Readable(o), Reached(word, s, C, o)
        PROVE  o \in C
    <3>1. o # at
        BY <1>2 DEF NoChain
    <3>2. CASE o \in StartsOf(s)
      <4>1. PICK q \in 1..s.pages : o \in PageStarts(s, q)
          BY <1>3, <3>2, StartsAreOfPages
      <4>2. o \in C \/ o = at \/ o \in Left(s, page, starts)
          BY <1>2, <1>4, <2>1, <4>1 DEF Walking
      <4> QED
          BY <1>6, <3>1, <4>2
    <3>3. CASE \E q \in C : Link(word, s, q, o)
        BY <1>4, <2>1, <3>1, <3>3 DEF Walking
    <3> QED
        BY <2>1, <3>2, <3>3 DEF Reached
  <2> QED
      BY <1>4, <2>1 DEF Walking, Walked
<1>8. \A k \in 1..Len(segments) : k < seg + 1 => Walked(word, segments[k], cs[k])
  <2> SUFFICES ASSUME NEW k \in 1..Len(segments), k < seg + 1
               PROVE  Walked(word, segments[k], cs[k])
      OBVIOUS
  <2>1. k < seg \/ k = seg
      BY <1>3
  <2> QED
      BY <1>1, <1>7, <2>1 DEF ChainsAre
<1>9. \A k \in 1..Len(segments) : k > seg + 1 => cs[k] = {}
  <2>1. \A k \in 1..Len(segments) : k > seg + 1 => k > seg
      BY <1>3
  <2> QED
      BY <1>1, <2>1 DEF ChainsAre
<1>10. ASSUME seg + 1 <= Len(segments)
       PROVE  Walking(word, segments[seg + 1], cs[seg + 1], 0, starts, at)
  <2>1. seg + 1 \in 1..Len(segments) /\ seg + 1 > seg
      BY <1>3, <1>10
  <2>2. cs[seg + 1] = {} /\ segments[seg + 1] \in Segments
      BY <1>1, <1>3, <2>1 DEF ChainsAre
  <2>3. 0 \in 0..segments[seg + 1].pages
      BY <2>2, SegmentsAssumption
  <2>4. \A q \in 1..0 : FALSE
      OBVIOUS
  <2> QED
      BY <1>2, <1>6, <2>2, <2>3, <2>4 DEF Walking
<1>11. ChainsAre(cs, segments, seg + 1, 0, starts, at, fixups, word)
    BY <1>1, <1>2, <1>8, <1>9, <1>10 DEF ChainsAre
<1>12. ChainsAre(cs, segments', seg', page', starts', at', fixups', word')
    BY <1>2, <1>11
<1> QED
    BY <1>12 DEF ChainsInv

\* A chain is begun: its start is no longer left, but where the walk is.
LEMMA StartChainKeepsChains ==
    ASSUME FixupInv, ChainsInv, StartChain
    PROVE  ChainsInv'
<1>1. PICK cs : ChainsAre(cs, segments, seg, page, starts, at, fixups, word)
    BY DEF ChainsInv
<1> DEFINE s == segments[seg]
           C == cs[seg]
           a == Base(s, page) + Head(starts)
           rest == Tail(starts)
<1>2. /\ ~Done /\ at = NoChain /\ starts # <<>>
      /\ at' = a /\ starts' = rest
      /\ UNCHANGED <<segments, seg, page, fixups, word>>
    BY DEF StartChain, Base
<1>3. /\ seg \in 1..Len(segments) /\ s \in Segments /\ page \in Nat /\ seg <= Len(segments)
      /\ Len(segments) \in Nat /\ starts \in Seq(Nat)
      /\ \A o \in DOMAIN word : o \in Nat /\ Readable(o)
    BY <1>2, LoopsAre
<1>4. Walking(word, s, C, page, starts, at)
    BY <1>1, <1>3 DEF ChainsAre
<1>5. \A o : o \in Left(s, page, starts) <=> o = a \/ o \in Left(s, page, rest)
  <2>1. /\ Len(starts) \in Nat /\ Len(rest) = Len(starts) - 1 /\ Len(starts) >= 1
        /\ \A i \in 1..Len(rest) : rest[i] = starts[i + 1]
        /\ Head(starts) = starts[1]
      BY <1>2, <1>3
  <2> DEFINE b == Base(s, page)
  <2>2. /\ \A o : o \in Left(s, page, starts) <=> \E i \in 1..Len(starts) : o = b + starts[i]
        /\ \A o : o \in Left(s, page, rest) <=> \E i \in 1..Len(rest) : o = b + rest[i]
      BY DEF Left
  <2> HIDE DEF b, s, rest
  <2>3. \A i \in 1..Len(rest) : i + 1 \in 1..Len(starts)
      BY <2>1
  <2>4. \A i \in 1..Len(starts) : i = 1 \/ (i - 1 \in 1..Len(rest) /\ starts[i] = rest[i - 1])
    <3> SUFFICES ASSUME NEW i \in 1..Len(starts), i # 1
                 PROVE  i - 1 \in 1..Len(rest) /\ starts[i] = rest[i - 1]
        OBVIOUS
    <3>1. i - 1 \in 1..Len(rest) /\ (i - 1) + 1 = i
        BY <2>1
    <3>2. rest[i - 1] = starts[(i - 1) + 1]
        BY <2>1, <3>1
    <3> QED
        BY <3>1, <3>2
  <2>5. 1 \in 1..Len(starts)
      BY <2>1
  <2> QED
      BY <2>1, <2>2, <2>3, <2>4, <2>5 DEF b
<1> HIDE DEF s, C, rest, a
<1>6. a \in StartsOf(s) /\ Left(s, page, rest) \subseteq StartsOf(s)
    BY <1>4, <1>5 DEF Walking
<1>7. ASSUME NEW q \in 1..page, NEW o \in PageStarts(s, q), Readable(o)
      PROVE  o \in C \/ o = a \/ o \in Left(s, page, rest)
  <2>1. o \in C \/ o = at \/ o \in Left(s, page, starts)
      BY <1>4, <1>7 DEF Walking
  <2>2. o \in Nat
    <3>1. s.pages \in Nat /\ page \in 0..s.pages
        BY <1>3, <1>4, SegmentsAssumption DEF Walking
    <3>2. q \in 1..s.pages
        BY <3>1
    <3> QED
        BY <1>3, <3>2, StartsAreNat
  <2> QED
      BY <1>2, <1>5, <2>1, <2>2 DEF NoChain
<1>8. ASSUME NEW q \in C, NEW o \in Nat, Link(word, s, q, o), Readable(o)
      PROVE  o \in C \/ o = a
    BY <1>2, <1>4, <1>8 DEF Walking, NoChain
<1>9. Walking(word, s, C, page, rest, a)
    BY <1>4, <1>6, <1>7, <1>8 DEF Walking, Reached
<1>10. seg <= Len(segments) /\ ~(seg > Len(segments))
    BY <1>3
<1>11. ChainsAre(cs, segments, seg, page, rest, a, fixups, word)
    BY <1>1, <1>9, <1>10 DEF ChainsAre, s, C
<1>12. ChainsAre(cs, segments', seg', page', starts', at', fixups', word')
    BY <1>2, <1>11
<1> QED
    BY <1>12 DEF ChainsInv

\* A chain that leaves the file leads to nothing that can be read.
LEMMA LeaveFileKeepsChains ==
    ASSUME FixupInv, ChainsInv, LeaveFile
    PROVE  ChainsInv'
<1>1. PICK cs : ChainsAre(cs, segments, seg, page, starts, at, fixups, word)
    BY DEF ChainsInv
<1>2. /\ ~Readable(at) /\ at' = NoChain
      /\ UNCHANGED <<segments, seg, page, starts, fixups, word>>
    BY DEF LeaveFile
<1>3. ASSUME seg <= Len(segments)
      PROVE  Walking(word, segments[seg], cs[seg], page, starts, NoChain)
  <2>1. Walking(word, segments[seg], cs[seg], page, starts, at)
      BY <1>1, <1>3 DEF ChainsAre
  <2> QED
      BY <1>2, <2>1 DEF Walking
<1>4. ChainsAre(cs, segments, seg, page, starts, NoChain, fixups, word)
    BY <1>1, <1>3 DEF ChainsAre
<1>5. ChainsAre(cs, segments', seg', page', starts', at', fixups', word')
    BY <1>2, <1>4
<1> QED
    BY <1>5 DEF ChainsInv

\* The pointer a is inserted, if it has a target, and joins those of segment n.
Inserted(fx, fx2, a, targets) ==
    IF targets = {} THEN fx2 = fx
    ELSE \E t \in targets : fx2 = [o \in DOMAIN fx \cup {a} |-> IF o = a THEN t ELSE fx[o]]

Joined(cs, cs2, segs, n, a) ==
    cs2 = [k \in 1..Len(segs) |-> IF k = n THEN cs[n] \cup {a} ELSE cs[k]]

Extended(w, w2, a) ==
    DOMAIN w \subseteq DOMAIN w2 /\ a \in DOMAIN w2 /\ \A o \in DOMAIN w : w2[o] = w[o]

NoneAfter(cs, segs, n, w) ==
    /\ Len(segs) \in Nat /\ n \in 1..Len(segs)
    /\ \A k \in 1..Len(segs) : (k > n => cs[k] = {}) /\ cs[k] \subseteq DOMAIN w

\* The pointer that is walked joins those of its segment, and what it is decoded to
\* replaces what an earlier segment said of it.
LEMMA FixedStays ==
    ASSUME NEW w, NEW w2, NEW fx, NEW fx2, NEW segs, NEW cs, NEW cs2, NEW n, NEW a,
           NoneAfter(cs, segs, n, w), Extended(w, w2, a), Joined(cs, cs2, segs, n, a),
           Fixed(fx, w, segs, cs),
           Inserted(fx, fx2, a, DecodePtr(w2[a], segs[n].format))
    PROVE  Fixed(fx2, w2, segs, cs2)
<1> DEFINE targets == DecodePtr(w2[a], segs[n].format)
<1>0. Inserted(fx, fx2, a, targets)
    OBVIOUS
<1>00. targets = {} \/ \E t : targets = {t}
    BY OneTarget
<1>000. targets = DecodePtr(w2[a], segs[n].format)
    OBVIOUS
<1> HIDE DEF targets
<1> USE DEF NoneAfter, Extended, Joined
<1> DEFINE T(k, o) == Told(w, segs[k], cs[k], o)
           T2(k, o) == Told(w2, segs[k], cs2[k], o)
<1>1. ASSUME NEW k \in 1..Len(segs), NEW o, k # n \/ o # a
      PROVE  T2(k, o) = T(k, o)
  <2>1. o \in cs2[k] <=> o \in cs[k]
      BY <1>1
  <2>2. o \in cs[k] => w2[o] = w[o]
      OBVIOUS
  <2> QED
      BY <2>1, <2>2 DEF Told
<1>2. T2(n, a) = targets
    BY <1>000 DEF Told
<1>3. \A k \in 1..Len(segs) : k > n => \A o : T2(k, o) = {}
  <2> SUFFICES ASSUME NEW k \in 1..Len(segs), k > n, NEW o PROVE T2(k, o) = {}
      OBVIOUS
  <2>1. k # n /\ cs[k] = {}
      OBVIOUS
  <2> QED
      BY <1>1, <2>1 DEF Told
<1>4. \A k \in 1..Len(segs) : k > n => \A o : T(k, o) = {}
    BY DEF Told
<1>5. /\ \A o : o \in DOMAIN fx <=> \E k \in 1..Len(segs) : T(k, o) # {}
      /\ \A k \in 1..Len(segs) : \A o \in cs[k] :
           (/\ T(k, o) # {}
            /\ \A later \in 1..Len(segs) : later > k => T(later, o) = {})
           => T(k, o) = {fx[o]}
    BY ONLY Fixed(fx, w, segs, cs) DEF Fixed
<1>6. /\ \A o : o # a => (o \in DOMAIN fx2 <=> o \in DOMAIN fx)
      /\ \A o \in DOMAIN fx : o # a => fx2[o] = fx[o]
      /\ targets # {} => a \in DOMAIN fx2 /\ targets = {fx2[a]}
      /\ targets = {} => fx2 = fx
  <2>1. CASE targets = {}
      BY <1>0, <2>1 DEF Inserted
  <2>2. CASE targets # {}
    <3>1. PICK t \in targets : fx2 = [o \in DOMAIN fx \cup {a} |-> IF o = a THEN t ELSE fx[o]]
        BY <1>0, <2>2 DEF Inserted
    <3>2. targets = {t}
        BY <1>00, <3>1
    <3>3. fx2[a] = t /\ a \in DOMAIN fx2
        BY <3>1
    <3> QED
        BY <2>2, <3>1, <3>2, <3>3
  <2> QED
      BY <2>1, <2>2
<1>7. ASSUME NEW o, o # a
      PROVE  o \in DOMAIN fx2 <=> \E k \in 1..Len(segs) : T2(k, o) # {}
  <2> HIDE DEF T, T2
  <2> QED
      BY <1>1, <1>5, <1>6, <1>7
<1>9. a \in cs[n] => T(n, a) = targets
    BY <1>000 DEF Told
<1>10. T(n, a) # {} => a \in cs[n]
    BY DEF Told
<1>11. targets = {} => \A k \in 1..Len(segs) : \A o : T2(k, o) = T(k, o)
  <2> HIDE DEF T, T2
  <2> SUFFICES ASSUME targets = {}, NEW k \in 1..Len(segs), NEW o PROVE T2(k, o) = T(k, o)
      OBVIOUS
  <2>1. T(n, a) = {}
      BY <1>9, <1>10
  <2>2. CASE k = n /\ o = a
      BY <1>2, <2>1, <2>2
  <2>3. CASE k # n \/ o # a
      BY <1>1, <2>3
  <2> QED
      BY <2>2, <2>3
<1>12. a \in DOMAIN fx2 <=> \E k \in 1..Len(segs) : T2(k, a) # {}
  <2> HIDE DEF T, T2
  <2>1. CASE targets = {}
      BY <1>5, <1>6, <1>11, <2>1
  <2>2. CASE targets # {}
      BY <1>2, <1>6, <2>2
  <2> QED
      BY <2>1, <2>2
<1>13. ASSUME NEW k \in 1..Len(segs), NEW o \in cs2[k], T2(k, o) # {},
              \A later \in 1..Len(segs) : later > k => T2(later, o) = {}
       PROVE  T2(k, o) = {fx2[o]}
  <2>1. o \in cs[k] \/ (k = n /\ o = a)
      BY <1>13
  <2> HIDE DEF T, T2
  <2>2. CASE k = n /\ o = a
      BY <1>2, <1>6, <1>13, <2>2
  <2>3. CASE ~(k = n /\ o = a) /\ o # a
    <3>1. o \in cs[k] /\ T(k, o) # {} /\ \A later \in 1..Len(segs) : later > k => T(later, o) = {}
        BY <1>1, <1>13, <2>1, <2>3
    <3>2. T(k, o) = {fx[o]} /\ o \in DOMAIN fx
        BY <1>5, <3>1
    <3> QED
        BY <1>1, <1>6, <2>3, <3>2
  <2>4. CASE ~(k = n /\ o = a) /\ o = a
    <3>1. k # n /\ o \in cs[k] /\ T(k, a) # {}
        BY <1>1, <1>13, <2>1, <2>4
    <3>2. ~(k > n)
        BY <1>4, <3>1
    <3>3. n > k
        BY <3>1, <3>2
    <3>4. T2(n, a) = {}
        BY <1>13, <2>4, <3>3
    <3>5. targets = {}
        BY <1>2, <3>4
    <3>6. \A later \in 1..Len(segs) : later > k => T(later, a) = {}
        BY <1>11, <1>13, <2>4, <3>5
    <3>7. T(k, a) = {fx[a]}
        BY <1>5, <2>4, <3>1, <3>6
    <3> QED
        BY <1>6, <1>11, <2>4, <3>5, <3>7
  <2> QED
      BY <2>2, <2>3, <2>4
<1>14. \A o : o \in DOMAIN fx2 <=> \E k \in 1..Len(segs) : T2(k, o) # {}
  <2> HIDE DEF T2
  <2> QED
      BY <1>7, <1>12
<1>15. \A k \in 1..Len(segs) : \A o \in cs2[k] :
          (T2(k, o) # {} /\ \A later \in 1..Len(segs) : later > k => T2(later, o) = {})
             => T2(k, o) = {fx2[o]}
  <2> HIDE DEF T2
  <2> QED
      BY <1>13
<1> QED
    BY ONLY <1>14, <1>15 DEF Fixed

\* A pointer is walked: it was reached, and what it leads to is where the walk is next.
LEMMA WalkKeepsChains ==
    ASSUME FixupInv, ChainsInv, NEW w \in Words, Walk(w)
    PROVE  ChainsInv'
<1>1. PICK cs : ChainsAre(cs, segments, seg, page, starts, at, fixups, word)
    BY DEF ChainsInv
<1> DEFINE s == segments[seg]
           C == cs[seg]
           w2 == [o \in DOMAIN word \cup {at} |-> IF o = at THEN w ELSE word[o]]
           delta == NextDelta(w, s.format)
           a == IF delta = 0 THEN NoChain ELSE at + delta
           targets == DecodePtr(w, s.format)
           cs2 == [k \in 1..Len(segments) |-> IF k = seg THEN cs[seg] \cup {at} ELSE cs[k]]
<1>2. /\ at # NoChain /\ Readable(at) /\ (at \in DOMAIN word => w = word[at])
      /\ word' = w2 /\ InsertFixup(targets) /\ at' = a
      /\ UNCHANGED <<segments, seg, page, starts>>
    BY DEF Walk, ReadWord
<1>3. seg <= Len(segments)
  <2>1. seg \in 1..(Len(segments) + 1) /\ Len(segments) \in Nat
      BY LoopsAre
  <2> QED
      BY <1>1, <1>2, <2>1 DEF ChainsAre
<1>4. /\ seg \in 1..Len(segments) /\ s \in Segments /\ Len(segments) \in Nat
      /\ at \in Nat /\ \A o \in DOMAIN word : o \in Nat /\ Readable(o)
    BY <1>2, <1>3, LoopsAre
<1>5. Walking(word, s, C, page, starts, at)
    BY <1>1, <1>3 DEF ChainsAre
<1>6. delta \in Nat
    BY DeltaIsForward
<1>7. DOMAIN word \subseteq DOMAIN w2 /\ at \in DOMAIN w2 /\ w2[at] = w
      /\ \A o \in DOMAIN word : w2[o] = word[o]
    BY <1>2
<1>8. cs2[seg] = C \cup {at} /\ \A k \in 1..Len(segments) : k # seg => cs2[k] = cs[k]
    BY <1>4
<1> DEFINE D == C \cup {at}
<1>9. InsertFixup(targets) <=>
         IF targets = {} THEN fixups' = fixups
         ELSE \E t \in targets : fixups' = [o \in DOMAIN fixups \cup {at} |-> IF o = at THEN t ELSE fixups[o]]
    BY DEF InsertFixup
<1> HIDE DEF s, C, w2, delta, targets, cs2
<1>10. /\ \A p \in C : \A o : Link(w2, s, p, o) <=> Link(word, s, p, o)
       /\ \A o : Reached(w2, s, C, o) <=> Reached(word, s, C, o)
  <2>1. C \subseteq DOMAIN word
      BY <1>5 DEF Walking
  <2>2. \A p \in C : \A o : Link(w2, s, p, o) <=> Link(word, s, p, o)
      BY <1>7, <2>1, WordsStay
  <2>3. \A o : Reached(w2, s, C, o) <=> Reached(word, s, C, o)
      BY <1>7, <2>1, WordsStay
  <2> QED
      BY <2>2, <2>3
<1>11. \A o : Link(w2, s, at, o) <=> at < o /\ at + delta = o
    BY <1>7 DEF Link, delta
<1>12. Walking(w2, s, D, page, starts, a)
  <2>1. D \subseteq DOMAIN w2
      BY <1>5, <1>7 DEF Walking
  <2>2. \A o : Reached(word, s, C, o) => Reached(w2, s, D, o)
    <3>1. \A o : Reached(w2, s, C, o) => Reached(w2, s, D, o)
        BY DEF Reached
    <3> QED
        BY <1>10, <3>1
  <2>3. \A o \in D : Reached(w2, s, D, o)
      BY <1>2, <1>5, <2>2 DEF Walking
  <2>4. a = NoChain \/ Reached(w2, s, D, a)
    <3>1. CASE delta = 0
        BY <3>1
    <3>2. CASE delta # 0
      <4>1. a = at + delta /\ at < a
          BY <1>4, <1>6, <3>2
      <4>2. Link(w2, s, at, a) /\ at \in D
          BY <1>11, <4>1
      <4> QED
          BY <4>2 DEF Reached
    <3> QED
        BY <3>1, <3>2
  <2>5. \A q \in 1..page : \A o \in PageStarts(s, q) :
          Readable(o) => o \in D \/ o = a \/ o \in Left(s, page, starts)
      BY <1>5 DEF Walking
  <2>6. ASSUME NEW q \in D, NEW o \in Nat, Link(w2, s, q, o), Readable(o)
        PROVE  o \in D \/ o = a
    <3>1. CASE q \in C
        BY <1>5, <1>10, <2>6, <3>1 DEF Walking
    <3>2. CASE q = at
      <4>1. at < o /\ at + delta = o
          BY <1>11, <2>6, <3>2
      <4>2. delta # 0
          BY <1>4, <4>1
      <4> QED
          BY <4>1, <4>2
    <3> QED
        BY <3>1, <3>2
  <2> HIDE DEF a, D
  <2> QED
      BY <1>5, <2>1, <2>3, <2>4, <2>5, <2>6 DEF Walking
<1>13. \A k \in 1..Len(segments) : k < seg => Walked(w2, segments[k], cs2[k])
  <2> SUFFICES ASSUME NEW k \in 1..Len(segments), k < seg
               PROVE  Walked(w2, segments[k], cs2[k])
      OBVIOUS
  <2>1. Walked(word, segments[k], cs[k]) /\ cs2[k] = cs[k]
      BY <1>1, <1>4, <1>8 DEF ChainsAre
  <2>2. cs[k] \subseteq DOMAIN word
      BY <2>1 DEF Walked
  <2>3. Walked(w2, segments[k], cs[k])
      BY <1>7, <2>1, <2>2, WordsStay
  <2> QED
      BY <2>1, <2>3
<1>14. \A k \in 1..Len(segments) : k > seg => cs2[k] = {}
    BY <1>1, <1>4, <1>8 DEF ChainsAre
<1>15. Fixed(fixups', w2, segments, cs2)
  <2>1. \A k \in 1..Len(segments) : cs[k] \subseteq DOMAIN word
    <3> SUFFICES ASSUME NEW k \in 1..Len(segments) PROVE cs[k] \subseteq DOMAIN word
        OBVIOUS
    <3>1. CASE k < seg
        BY <1>1, <3>1 DEF ChainsAre, Walked
    <3>2. CASE k = seg
        BY <1>5, <3>2 DEF Walking, C
    <3>3. CASE k > seg
        BY <1>1, <3>3 DEF ChainsAre
    <3> QED
        BY <1>4, <3>1, <3>2, <3>3
  <2>2. targets = DecodePtr(w2[at], segments[seg].format)
      BY <1>7 DEF targets, s
  <2>3. Joined(cs, cs2, segments, seg, at)
      BY DEF cs2, Joined
  <2>4. Inserted(fixups, fixups', at, DecodePtr(w2[at], segments[seg].format))
      BY <1>2, <1>9, <2>2 DEF Inserted
  <2>5. Fixed(fixups, word, segments, cs) /\ NoneAfter(cs, segments, seg, word)
      BY <1>1, <1>4, <2>1 DEF ChainsAre, NoneAfter
  <2>6. Extended(word, w2, at)
      BY <1>7 DEF Extended
  <2> QED
      BY <2>3, <2>4, <2>5, <2>6, FixedStays
<1>16. ~(seg > Len(segments))
    BY <1>3, <1>4
<1> HIDE DEF a
<1>17. ChainsAre(cs2, segments, seg, page, starts, a, fixups', w2)
    BY <1>8, <1>12, <1>13, <1>14, <1>15, <1>16 DEF ChainsAre, s
<1>18. ChainsAre(cs2, segments', seg', page', starts', at', fixups', word')
    BY <1>2, <1>17
<1> QED
    BY <1>18 DEF ChainsInv

\* Every step of the walk keeps to the chains.
LEMMA ChainsStep == FixupInv /\ ChainsInv /\ [Next]_vars => ChainsInv'
<1> SUFFICES ASSUME FixupInv, ChainsInv, [Next]_vars PROVE ChainsInv'
    OBVIOUS
<1>1. CASE UNCHANGED vars
    BY <1>1 DEF vars, ChainsInv
<1>2. CASE \E w \in Words : Walk(w)
    BY <1>2, WalkKeepsChains
<1> QED
    BY <1>1, <1>2, NextPageKeepsChains, NextSegmentKeepsChains, StartChainKeepsChains,
       LeaveFileKeepsChains DEF Next

\* When every segment was walked the fixups are what their chains say.
LEMMA ChainsAreFixed == FixupInv /\ ChainsInv => FixupsAreTheChains
<1> SUFFICES ASSUME FixupInv, ChainsInv, Done PROVE FixupsAreTheChains
    BY DEF FixupsAreTheChains
<1>1. PICK cs : ChainsAre(cs, segments, seg, page, starts, at, fixups, word)
    BY DEF ChainsInv
<1>2. /\ Len(segments) \in Nat /\ seg \in 1..(Len(segments) + 1) /\ ~(seg <= Len(segments))
      /\ \A o \in DOMAIN word : o \in Nat /\ Readable(o)
    BY LoopsAre
<1>3. DOMAIN segments = 1..Len(segments)
  <2>1. segments \in Seq(Segments)
      BY DEF FixupInv
  <2> QED
      BY <2>1
<1>4. ASSUME NEW k \in 1..Len(segments)
      PROVE  /\ OnChainsOf(segments[k]) = cs[k]
             /\ DOMAIN Decoded(segments[k]) = {o \in cs[k] : Told(word, segments[k], cs[k], o) # {}}
             /\ \A o \in DOMAIN Decoded(segments[k]) :
                  \A t : Told(word, segments[k], cs[k], o) = {t} => Decoded(segments[k])[o] = t
  <2>1. k < seg
      BY <1>2
  <2>2. Walked(word, segments[k], cs[k])
      BY <1>1, <2>1 DEF ChainsAre
  <2>3. DOMAIN word \subseteq Nat
      BY <1>2
  <2>4. AreOnChains(word, segments[k], cs[k])
      BY <1>2, <2>2 DEF Walked, AreOnChains
  <2>5. AreOnChains(word, segments[k], OnChainsOf(segments[k]))
      BY <2>3, OnChainsAreReached
  <2>6. OnChainsOf(segments[k]) = cs[k]
      BY <2>3, <2>4, <2>5, ChainsAreUnique
  <2>7. Decoded(segments[k]) =
          [o \in {x \in cs[k] : DecodePtr(word[x], segments[k].format) # {}} |->
              CHOOSE t \in DecodePtr(word[o], segments[k].format) : TRUE]
      BY <2>6 DEF Decoded
  <2>8. \A o \in cs[k] : Told(word, segments[k], cs[k], o) = DecodePtr(word[o], segments[k].format)
      BY DEF Told
  <2> QED
      BY <2>6, <2>7, <2>8
<1> DEFINE said(k) == DOMAIN Decoded(segments[k])
<1>5. Fixed(fixups, word, segments, cs)
    BY <1>1 DEF ChainsAre
<1>6. \A k \in 1..Len(segments) : \A o : o \in said(k) <=> Told(word, segments[k], cs[k], o) # {}
    BY <1>4 DEF Told
<1>7. ASSUME NEW k \in 1..Len(segments), NEW o \in said(k),
             \A later \in 1..Len(segments) : later > k => o \notin said(later)
      PROVE  fixups[o] = Decoded(segments[k])[o]
  <2>1. o \in cs[k] /\ Told(word, segments[k], cs[k], o) # {}
      BY <1>4, <1>6, <1>7
  <2>2. \A later \in 1..Len(segments) : later > k => Told(word, segments[later], cs[later], o) = {}
      BY <1>6, <1>7
  <2>3. Told(word, segments[k], cs[k], o) = {fixups[o]}
      BY <1>5, <2>1, <2>2 DEF Fixed
  <2> QED
      BY <1>4, <2>3
<1>8. \A o : o \in DOMAIN fixups <=> \E k \in 1..Len(segments) : o \in said(k)
    BY <1>5, <1>6 DEF Fixed
<1> HIDE DEF said
<1>9. DOMAIN fixups = UNION {said(k) : k \in DOMAIN segments}
    BY <1>3, <1>8
<1> QED
    BY <1>3, <1>7, <1>9 DEF FixupsAreTheChains, said

\* In every image the fixups are those of its chains: none is left out, none gets in that
\* is on no chain, and the later segment has its way where the chains of two meet.
THEOREM FixupsAreOfTheChains == Spec => []FixupsAreTheChains
<1>1. Init => FixupInv /\ ChainsInv
    BY FixupInit, ChainsInit
<1>2. (FixupInv /\ ChainsInv) /\ [Next]_vars => (FixupInv /\ ChainsInv)'
    BY FixupStep, ChainsStep
<1> QED
    BY <1>1, <1>2, ChainsAreFixed, PTL DEF Spec
=============================================================================
