----------------------- MODULE InheritanceSortProofs ------------------------
(***************************************************************************)
(* Theorems about sort_by_inheritance, for every list of classes.           *)
(***************************************************************************)
EXTENDS InheritanceSort, SequenceTheorems, FiniteSetTheorems, FunctionTheorems,
        WellFoundedInduction, TLAPS

(* Lists.                                                                   *)

\* A list is what comes before an element, the element, and what comes after it;
\* without the element it is the two parts (Vec::remove).
LEMMA Split ==
    ASSUME NEW S, NEW s \in Seq(S), NEW k \in 1..Len(s)
    PROVE  LET l == SubSeq(s, 1, k - 1)
               r == SubSeq(s, k + 1, Len(s))
           IN  /\ l \in Seq(S) /\ r \in Seq(S) /\ <<s[k]>> \in Seq(S)
               /\ Len(l) = k - 1 /\ Len(r) = Len(s) - k
               /\ RemoveAt(s, k) = l \o r
               /\ s = (l \o <<s[k]>>) \o r
<1> DEFINE l == SubSeq(s, 1, k - 1)
           r == SubSeq(s, k + 1, Len(s))
           n == Len(s)
<1>1. n \in Nat /\ k \in Nat \ {0} /\ k <= n /\ \A j \in 1..n : s[j] \in S
    BY LenProperties, ElementOfSeq
<1>2. /\ l \in Seq(S) /\ Len(l) = k - 1 /\ \A j \in 1..(k - 1) : l[j] = s[j]
    <2>1. 1 \in Int /\ k - 1 \in Int /\ \A j \in 1..(k - 1) : s[j] \in S
        BY <1>1
    <2>2. /\ l \in Seq(S) /\ Len(l) = IF 1 <= k - 1 THEN k - 1 - 1 + 1 ELSE 0
          /\ \A j \in 1..(k - 1 - 1 + 1) : l[j] = s[1 + j - 1]
        BY <2>1, SubSeqProperties
    <2> HIDE DEF l
    <2> QED
        BY <1>1, <2>2
<1>3. /\ r \in Seq(S) /\ Len(r) = n - k /\ \A j \in 1..(n - k) : r[j] = s[k + j]
    <2>1. k + 1 \in Int /\ n \in Int /\ \A j \in (k + 1)..n : s[j] \in S
        BY <1>1
    <2>2. /\ r \in Seq(S) /\ Len(r) = IF k + 1 <= n THEN n - (k + 1) + 1 ELSE 0
          /\ \A j \in 1..(n - (k + 1) + 1) : r[j] = s[k + 1 + j - 1]
        BY <2>1, SubSeqProperties
    <2> HIDE DEF r
    <2> QED
        BY <1>1, <2>2
<1>4. RemoveAt(s, k) = l \o r
    BY DEF RemoveAt
<1> DEFINE m == <<s[k]>>
<1>5. m \in Seq(S) /\ Len(m) = 1 /\ m[1] = s[k]
    BY <1>1
<1> HIDE DEF l, r, m
<1> DEFINE lm == l \o m
           all == lm \o r
<1>6. /\ lm \in Seq(S) /\ Len(lm) = k
      /\ \A j \in 1..k : lm[j] = IF j <= k - 1 THEN l[j] ELSE m[j - (k - 1)]
    <2>1. /\ lm \in Seq(S) /\ Len(lm) = Len(l) + Len(m)
          /\ \A j \in 1..(Len(l) + Len(m)) : lm[j] = IF j <= Len(l) THEN l[j] ELSE m[j - Len(l)]
        BY <1>2, <1>5, ConcatProperties
    <2> HIDE DEF lm
    <2>2. Len(l) + Len(m) = k
        BY <1>1, <1>2, <1>5
    <2> QED
        BY <1>2, <2>1, <2>2
<1> HIDE DEF lm
<1>7. /\ all \in Seq(S) /\ Len(all) = n
      /\ \A j \in 1..n : all[j] = IF j <= k THEN lm[j] ELSE r[j - k]
    <2>1. /\ all \in Seq(S) /\ Len(all) = Len(lm) + Len(r)
          /\ \A j \in 1..(Len(lm) + Len(r)) : all[j] = IF j <= Len(lm) THEN lm[j] ELSE r[j - Len(lm)]
        BY <1>3, <1>6, ConcatProperties
    <2> HIDE DEF all
    <2>2. Len(lm) + Len(r) = n
        BY <1>1, <1>3, <1>6
    <2> QED
        BY <1>6, <2>1, <2>2
<1> HIDE DEF all
<1>8. \A j \in 1..n : s[j] = all[j]
    <2> SUFFICES ASSUME NEW j \in 1..n
                 PROVE  s[j] = all[j]
        OBVIOUS
    <2>1. CASE j < k
        <3>1. j \in 1..(k - 1) /\ j \in 1..k /\ j <= k
            BY <1>1, <2>1
        <3> QED
            BY <1>2, <1>6, <1>7, <3>1
    <2>2. CASE j = k
        <3>1. k \in 1..k /\ ~(k <= k - 1) /\ k - (k - 1) = 1
            BY <1>1
        <3> QED
            BY <1>5, <1>6, <1>7, <2>2, <3>1
    <2>3. CASE j > k
        <3>1. j - k \in 1..(n - k) /\ k + (j - k) = j /\ ~(j <= k)
            BY <1>1, <2>3
        <3>2. r[j - k] = s[k + (j - k)]
            BY <1>3, <3>1
        <3> QED
            BY <1>7, <3>1, <3>2
    <2> QED
        BY <1>1, <2>1, <2>2, <2>3
<1>9. s = all
    BY <1>7, <1>8, SeqEqual
<1> QED
    BY <1>2, <1>3, <1>4, <1>5, <1>9 DEF l, r, m, lm, all

\* The positions of an element in a list are finitely many.
LEMMA PositionsAreFinite ==
    ASSUME NEW S, NEW s \in Seq(S), NEW c
    PROVE  IsFiniteSet({k \in DOMAIN s : s[k] = c}) /\ Occurrences(s, c) \in Nat
<1> DEFINE P == {k \in DOMAIN s : s[k] = c}
<1>1. DOMAIN s = 1..Len(s) /\ Len(s) \in Nat
    BY LenProperties
<1>2. IsFiniteSet(1..Len(s))
    BY <1>1, FS_Interval
<1>3. P \in SUBSET (1..Len(s))
    BY <1>1
<1>4. IsFiniteSet(P)
    BY <1>2, <1>3, FS_Subset
<1> QED
    BY <1>4, FS_CardinalityType DEF Occurrences

\* An element occurs in two lists, one after the other, as often as in the one and in
\* the other together.
LEMMA OccurrencesAdd ==
    ASSUME NEW S, NEW s \in Seq(S), NEW t \in Seq(S), NEW c
    PROVE  Occurrences(s \o t, c) = Occurrences(s, c) + Occurrences(t, c)
<1> DEFINE m == Len(s)
           n == Len(t)
           A == {k \in DOMAIN s : s[k] = c}
           B == {k \in DOMAIN t : t[k] = c}
           D == {k \in DOMAIN (s \o t) : (s \o t)[k] = c}
           C == {m + k : k \in B}
           f == [k \in B |-> m + k]
<1>1. m \in Nat /\ n \in Nat /\ DOMAIN s = 1..m /\ DOMAIN t = 1..n
    BY LenProperties
<1>2. /\ DOMAIN (s \o t) = 1..(m + n)
      /\ \A k \in 1..(m + n) : (s \o t)[k] = IF k <= m THEN s[k] ELSE t[k - m]
    <2>1. s \o t \in Seq(S) /\ Len(s \o t) = m + n
        BY ConcatProperties
    <2>2. DOMAIN (s \o t) = 1..(m + n)
        BY <2>1, LenProperties
    <2> QED
        BY <2>2, ConcatProperties
<1>3. IsFiniteSet(A) /\ IsFiniteSet(B)
    BY PositionsAreFinite
<1>4. D = A \cup C
    <2>1. ASSUME NEW k \in D PROVE k \in A \cup C
        <3>1. k \in 1..(m + n) /\ (s \o t)[k] = c
            BY <1>2
        <3>2. CASE k <= m
            <4>1. k \in 1..m /\ s[k] = c
                BY <1>1, <1>2, <3>1, <3>2
            <4> QED
                BY <1>1, <4>1
        <3>3. CASE ~(k <= m)
            <4>1. k - m \in 1..n /\ t[k - m] = c /\ k = m + (k - m)
                BY <1>1, <1>2, <3>1, <3>3
            <4> QED
                BY <1>1, <4>1
        <3> QED
            BY <3>2, <3>3
    <2>2. ASSUME NEW k \in A PROVE k \in D
        <3>1. k \in 1..m /\ s[k] = c
            BY <1>1
        <3>2. k \in 1..(m + n) /\ k <= m
            BY <1>1, <3>1
        <3> QED
            BY <1>2, <3>1, <3>2
    <2>3. ASSUME NEW k \in B PROVE m + k \in D
        <3>1. k \in 1..n /\ t[k] = c
            BY <1>1
        <3>2. m + k \in 1..(m + n) /\ ~(m + k <= m) /\ (m + k) - m = k
            BY <1>1, <3>1
        <3> QED
            BY <1>2, <3>1, <3>2
    <2> QED
        BY <2>1, <2>2, <2>3
<1>5. A \cap C = {}
    <2> SUFFICES ASSUME NEW k \in A, NEW j \in B, k = m + j
                 PROVE  FALSE
        OBVIOUS
    <2>1. k \in 1..m /\ j \in 1..n
        BY <1>1
    <2> QED
        BY <1>1, <2>1
<1>6. IsFiniteSet(C) /\ Cardinality(C) = Cardinality(B)
    <2>1. \A j, k \in B : m + j = m + k => j = k
        <3> SUFFICES ASSUME NEW j \in B, NEW k \in B, m + j = m + k
                     PROVE  j = k
            OBVIOUS
        <3>1. j \in 1..n /\ k \in 1..n
            BY <1>1
        <3> QED
            BY <1>1, <3>1
    <2> HIDE DEF B
    <2>2. f \in Bijection(B, C)
        BY <2>1 DEF Bijection, Injection, Surjection, IsInjective
    <2>3. ExistsBijection(B, C)
        BY <2>2 DEF ExistsBijection
    <2> QED
        BY <1>3, <2>3, FS_Bijection
<1> HIDE DEF A, B, C, D
<1>7. Cardinality(D) = Cardinality(A) + Cardinality(B)
    <2>1. Cardinality(A \cup C) = Cardinality(A) + Cardinality(C) - Cardinality(A \cap C)
        BY <1>3, <1>6, FS_Union
    <2>2. Cardinality(A \cap C) = 0
        BY <1>5, FS_EmptySet
    <2>3. Cardinality(A) \in Nat /\ Cardinality(C) \in Nat
        BY <1>3, <1>6, FS_CardinalityType
    <2> QED
        BY <1>4, <1>6, <2>1, <2>2, <2>3
<1> QED
    BY <1>7 DEF A, B, D, Occurrences

\* What taking an element out of a list leaves of it.
LEMMA TakenOut ==
    ASSUME NEW S, NEW s \in Seq(S), NEW k \in 1..Len(s)
    PROVE  /\ RemoveAt(s, k) \in Seq(S) /\ Len(RemoveAt(s, k)) = Len(s) - 1
           /\ Range(s) = Range(RemoveAt(s, k)) \cup {s[k]}
           /\ \A c : Occurrences(s, c) = Occurrences(RemoveAt(s, k), c) + Occurrences(<<s[k]>>, c)
<1> DEFINE l == SubSeq(s, 1, k - 1)
           r == SubSeq(s, k + 1, Len(s))
           m == <<s[k]>>
<1>1. /\ l \in Seq(S) /\ r \in Seq(S) /\ m \in Seq(S)
      /\ Len(l) = k - 1 /\ Len(r) = Len(s) - k
      /\ RemoveAt(s, k) = l \o r
      /\ s = (l \o m) \o r
    BY Split
<1>2. Range(m) = {s[k]}
    BY DEF Range
<1> HIDE DEF l, r, m
<1>3. l \o r \in Seq(S) /\ l \o m \in Seq(S) /\ Len(l \o r) = Len(l) + Len(r)
    BY <1>1, ConcatProperties
<1>4. Range(l \o r) = Range(l) \cup Range(r)
    BY <1>1, RangeConcatenation
<1>5. Range((l \o m) \o r) = (Range(l) \cup Range(m)) \cup Range(r)
    <2>1. Range((l \o m) \o r) = Range(l \o m) \cup Range(r)
        <3> DEFINE lm == l \o m
        <3>1. lm \in Seq(S) /\ r \in Seq(S)
            BY <1>1, <1>3
        <3> HIDE DEF lm
        <3>2. Range(lm \o r) = Range(lm) \cup Range(r)
            BY <3>1, RangeConcatenation
        <3> QED
            BY <3>2 DEF lm
    <2>2. Range(l \o m) = Range(l) \cup Range(m)
        BY <1>1, RangeConcatenation
    <2> QED
        BY <2>1, <2>2
<1>6. ASSUME NEW c
      PROVE  Occurrences(s, c) = Occurrences(l \o r, c) + Occurrences(m, c)
    <2>1. Occurrences(l \o r, c) = Occurrences(l, c) + Occurrences(r, c)
        BY <1>1, OccurrencesAdd
    <2>2. Occurrences(l \o m, c) = Occurrences(l, c) + Occurrences(m, c)
        BY <1>1, OccurrencesAdd
    <2>3. Occurrences((l \o m) \o r, c) = Occurrences(l \o m, c) + Occurrences(r, c)
        BY <1>1, <1>3, OccurrencesAdd
    <2>4. Occurrences(l, c) \in Nat /\ Occurrences(r, c) \in Nat /\ Occurrences(m, c) \in Nat
        BY <1>1, PositionsAreFinite
    <2>5. Occurrences(s, c) = Occurrences((l \o m) \o r, c)
        BY <1>1
    <2> QED
        BY <2>1, <2>2, <2>3, <2>4, <2>5
<1>7. Len(RemoveAt(s, k)) = Len(s) - 1
    <2>1. Len(s) \in Nat /\ k \in Nat
        BY LenProperties
    <2>2. Len(RemoveAt(s, k)) = Len(l \o r)
        BY <1>1
    <2> QED
        BY <1>1, <1>3, <2>1, <2>2
<1>8. RemoveAt(s, k) \in Seq(S)
    BY <1>1, <1>3
<1>9. Range(s) = Range(RemoveAt(s, k)) \cup {s[k]}
    <2>1. Range(s) = Range((l \o m) \o r) /\ Range(RemoveAt(s, k)) = Range(l \o r)
        BY <1>1
    <2> QED
        BY <1>2, <1>4, <1>5, <2>1
<1>10. ASSUME NEW c
       PROVE  Occurrences(s, c) = Occurrences(RemoveAt(s, k), c) + Occurrences(<<s[k]>>, c)
    <2>1. RemoveAt(s, k) = l \o r /\ m = <<s[k]>>
        BY <1>1 DEF m
    <2> QED
        BY <1>6, <2>1
<1> QED
    BY <1>7, <1>8, <1>9, <1>10

-----------------------------------------------------------------------------
(* The invariant.                                                           *)

\* What holds of the classes that are listed while the passes go on: none of them waits
\* for itself, and each that waits for a class comes after one of that name.
Placed ==
    \A k \in DOMAIN out :
        /\ out[k] \notin Stuck
        /\ Waits(out[k]) => \E m \in 1..(k - 1) : out[m].name = out[k].super

\* A pass that has taken nothing yet has found nothing that is ready.
NoneReady == \A k \in 1..(i - 1) : ~SuperOk(remaining[k])

SortInv ==
    /\ TypeOK
    /\ NothingLost
    /\ Range(out) \cup Range(remaining) = Range(classes)
    /\ ~done => Placed
    /\ ~done /\ ~progressed => NoneReady
    /\ ParentsFirst

\* Classes that were placed after their superclass are in the order of the property.
LEMMA PlacedInOrder == Placed => ParentsFirst
    BY DEF Placed, ParentsFirst

\* The start: all classes remain.
LEMMA SortInit == Init => SortInv
<1> SUFFICES ASSUME Init PROVE SortInv
    OBVIOUS
<1>1. classes \in Seq(Class)
    <2>1. PICK n \in 0..MaxClasses : classes \in [1..n -> Class]
        BY DEF Init
    <2>2. n \in Nat
        BY <2>1, MaxClassesAssumption
    <2> QED
        BY <2>1, <2>2
<1>2. remaining = classes /\ out = <<>> /\ i = 1 /\ progressed = FALSE /\ done = FALSE
    BY DEF Init
<1>3. Len(classes) \in Nat /\ Len(<<>>) = 0 /\ <<>> \in Seq(Class) /\ DOMAIN <<>> = {}
    BY <1>1
<1>4. TypeOK
    <2>1. 1 \in Nat \ {0} /\ 1 <= Len(classes) + 1
        BY <1>3
    <2>2. out \in Seq(Class)
        BY <1>2, <1>3
    <2> QED
        BY <1>1, <1>2, <2>1, <2>2 DEF TypeOK
<1>5. \A c : Occurrences(<<>>, c) = 0 /\ Occurrences(classes, c) \in Nat
    <2>1. \A c : {k \in DOMAIN <<>> : <<>>[k] = c} = {}
        BY <1>3
    <2>2. \A c : Occurrences(<<>>, c) = 0
        BY <2>1, FS_EmptySet DEF Occurrences
    <2>3. \A c : Occurrences(classes, c) \in Nat
        BY <1>1, PositionsAreFinite
    <2> QED
        BY <2>2, <2>3
<1>6. NothingLost
    BY <1>2, <1>3, <1>5 DEF NothingLost
<1>7. Range(out) \cup Range(remaining) = Range(classes)
    BY <1>2, <1>3 DEF Range
<1>8. Placed /\ NoneReady
    BY <1>2, <1>3 DEF Placed, NoneReady
<1> QED
    BY <1>4, <1>6, <1>7, <1>8, PlacedInOrder DEF SortInv

\* A class that is ready is not one that waits for itself, and the class that it waits
\* for, if any, is listed.
LEMMA ReadyIsPlaced ==
    ASSUME SortInv, ~done, NEW c \in Range(remaining), SuperOk(c)
    PROVE  /\ c \notin Stuck
           /\ Waits(c) => \E m \in DOMAIN out : out[m].name = c.super
<1>1. Waits(c) => \E m \in DOMAIN out : out[m].name = c.super
    <2> SUFFICES ASSUME Waits(c)
                 PROVE  \E m \in DOMAIN out : out[m].name = c.super
        OBVIOUS
    <2>1. c.super \notin {NoSuper, NSObject} /\ Named(classes, c.super)
        BY DEF Waits
    <2>2. CASE Named(out, c.super)
        BY <2>2 DEF Named
    <2>3. CASE ~Named(remaining, c.super)
        <3>1. PICK d \in Range(classes) : d.name = c.super
            BY <2>1 DEF Named, Range
        <3>2. d \notin Range(remaining)
            BY <2>3, <3>1 DEF Named, Range
        <3>3. d \in Range(out)
            BY <3>1, <3>2 DEF SortInv
        <3> QED
            BY <3>1, <3>3 DEF Range
    <2> QED
        BY <2>1, <2>2, <2>3 DEF SuperOk
<1>2. ASSUME c \in Stuck PROVE FALSE
    <2>1. PICK S \in SUBSET Range(classes) :
              /\ c \in S
              /\ \A b \in S : Waits(b) /\ \A d \in Range(classes) : d.name = b.super => d \in S
        BY <1>2 DEF Stuck
    <2>2. PICK m \in DOMAIN out : out[m].name = c.super
        BY <1>1, <2>1
    <2>3. out[m] \in Range(classes)
        BY DEF SortInv, Range
    <2>4. out[m] \in S
        BY <2>1, <2>2, <2>3
    <2>5. out[m] \in Stuck
        BY <2>1, <2>4 DEF Stuck
    <2> QED
        BY <2>5 DEF SortInv, Placed
<1> QED
    BY <1>1, <1>2

\* Taking a class that is ready keeps the invariant.
LEMMA TakeStep == SortInv /\ Take => SortInv'
<1> SUFFICES ASSUME SortInv, Take PROVE SortInv'
    OBVIOUS
<1> DEFINE c == remaining[i]
           n == Len(out)
<1>1. /\ ~done /\ i \in 1..Len(remaining) /\ SuperOk(c)
      /\ out' = Append(out, c) /\ remaining' = RemoveAt(remaining, i)
      /\ progressed' = TRUE /\ classes' = classes /\ i' = i /\ done' = done
    BY DEF Take, InPass, SortInv, TypeOK
<1>2. out \in Seq(Class) /\ remaining \in Seq(Class) /\ classes \in Seq(Class)
    BY DEF SortInv, TypeOK
<1>3. c \in Class /\ c \in Range(remaining)
    BY <1>1, <1>2 DEF Range
<1> HIDE DEF c
<1>4. /\ RemoveAt(remaining, i) \in Seq(Class)
      /\ Len(RemoveAt(remaining, i)) = Len(remaining) - 1
      /\ Range(remaining) = Range(RemoveAt(remaining, i)) \cup {c}
      /\ \A d : Occurrences(remaining, d)
                 = Occurrences(RemoveAt(remaining, i), d) + Occurrences(<<c>>, d)
    BY <1>1, <1>2, TakenOut DEF c
<1>5. /\ out' = out \o <<c>> /\ out' \in Seq(Class) /\ Len(out') = n + 1
      /\ \A k \in 1..n : out'[k] = out[k]
      /\ out'[n + 1] = c
      /\ DOMAIN out = 1..n /\ DOMAIN out' = 1..(n + 1) /\ n \in Nat
    BY <1>1, <1>2, <1>3, AppendProperties, AppendIsConcat
<1>6. <<c>> \in Seq(Class) /\ Range(<<c>>) = {c}
    BY <1>3 DEF Range
<1>7. TypeOK'
    <2>1. i \in Nat \ {0} /\ i <= (Len(remaining) - 1) + 1
        BY <1>1, <1>2
    <2> QED
        BY <1>1, <1>2, <1>4, <1>5, <2>1 DEF SortInv, TypeOK
<1>8. NothingLost'
    <2>1. Len(out') + Len(remaining') = Len(classes)
        <3>1. Len(out) + Len(remaining) = Len(classes) /\ Len(remaining) \in Nat
            BY <1>2 DEF SortInv, NothingLost
        <3>2. Len(out') = n + 1 /\ Len(remaining') = Len(remaining) - 1
            BY <1>1, <1>4, <1>5
        <3> QED
            BY <1>5, <3>1, <3>2
    <2>2. ASSUME NEW d \in Range(classes)
          PROVE  Occurrences(out', d) + Occurrences(remaining', d) = Occurrences(classes, d)
        <3>1. Occurrences(out \o <<c>>, d) = Occurrences(out, d) + Occurrences(<<c>>, d)
            BY <1>2, <1>6, OccurrencesAdd
        <3>2. Occurrences(out, d) + Occurrences(remaining, d) = Occurrences(classes, d)
            BY DEF SortInv, NothingLost
        <3>3. /\ Occurrences(out, d) \in Nat /\ Occurrences(<<c>>, d) \in Nat
              /\ Occurrences(RemoveAt(remaining, i), d) \in Nat
            BY <1>2, <1>4, <1>6, PositionsAreFinite
        <3>4. Occurrences(remaining, d)
                 = Occurrences(RemoveAt(remaining, i), d) + Occurrences(<<c>>, d)
            BY <1>4
        <3>5. /\ Occurrences(out', d) = Occurrences(out \o <<c>>, d)
              /\ Occurrences(remaining', d) = Occurrences(RemoveAt(remaining, i), d)
            BY <1>1, <1>5
        <3> QED
            BY <3>1, <3>2, <3>3, <3>4, <3>5
    <2> QED
        BY <1>1, <2>1, <2>2 DEF NothingLost, Occurrences
<1>9. (Range(out) \cup Range(remaining) = Range(classes))'
    <2>1. Range(out') = Range(out) \cup {c}
        <3>1. Range(out \o <<c>>) = Range(out) \cup Range(<<c>>)
            <4> DEFINE one == <<c>>
            <4>1. one \in Seq(Class)
                BY <1>6
            <4> HIDE DEF one
            <4>2. Range(out \o one) = Range(out) \cup Range(one)
                BY <1>2, <4>1, RangeConcatenation
            <4> QED
                BY <4>2 DEF one
        <3> QED
            BY <1>5, <1>6, <3>1
    <2>2. Range(remaining') \cup {c} = Range(remaining)
        BY <1>1, <1>4
    <2> QED
        BY <1>1, <2>1, <2>2 DEF SortInv
<1>10. Placed'
    <2>1. /\ c \notin Stuck
          /\ Waits(c) => \E m \in DOMAIN out : out[m].name = c.super
        BY <1>1, <1>3, ReadyIsPlaced
    <2>2. \A k \in 1..n : /\ out[k] \notin Stuck
                          /\ Waits(out[k]) => \E m \in 1..(k - 1) : out[m].name = out[k].super
        BY <1>1, <1>5 DEF SortInv, Placed
    <2>3. Stuck' = Stuck /\ \A d : Waits(d)' <=> Waits(d)
        BY <1>1 DEF Stuck, Waits, Named
    <2> SUFFICES ASSUME NEW k \in 1..(n + 1)
                 PROVE  /\ out'[k] \notin Stuck
                        /\ Waits(out'[k]) => \E m \in 1..(k - 1) : out'[m].name = out'[k].super
        BY <1>1, <1>5 DEF Placed, Stuck, Waits, Named
    <2>4. CASE k \in 1..n
        <3>1. \A m \in 1..(k - 1) : out'[m] = out[m]
            BY <1>5, <2>4
        <3> QED
            BY <1>5, <2>2, <2>4, <3>1
    <2>5. CASE k = n + 1
        <3>1. \A m \in 1..n : m \in 1..(k - 1) /\ out'[m] = out[m]
            BY <1>5, <2>5
        <3> QED
            BY <1>5, <2>1, <2>5, <3>1
    <2>6. k \in 1..n \/ k = n + 1
        BY <1>5
    <2> QED
        BY <2>4, <2>5, <2>6
<1>11. ParentsFirst'
    BY <1>10, PlacedInOrder, PTL
<1> QED
    BY <1>1, <1>7, <1>8, <1>9, <1>10, <1>11 DEF SortInv

\* What does not depend on where the pass stands.
LEMMA KeptAsItIs ==
    ASSUME UNCHANGED <<classes, remaining, out, done>>
    PROVE  /\ NothingLost => NothingLost'
           /\ ParentsFirst => ParentsFirst'
           /\ Placed => Placed'
           /\ Range(out) \cup Range(remaining) = Range(classes)
                => (Range(out) \cup Range(remaining) = Range(classes))'
<1>1. /\ classes' = classes /\ remaining' = remaining /\ out' = out /\ done' = done
    OBVIOUS
<1>2. Stuck' = Stuck
    BY <1>1 DEF Stuck, Waits, Named
<1>3. ParentsFirst => ParentsFirst'
    BY <1>1, <1>2 DEF ParentsFirst, Waits, Named
<1>4. Placed => Placed'
    BY <1>1, <1>2 DEF Placed, Waits, Named
<1>5. NothingLost => NothingLost'
    BY <1>1 DEF NothingLost, Occurrences
<1> QED
    BY <1>1, <1>3, <1>4, <1>5

\* A class that is left where it is was not ready.
LEMMA LeaveStep == SortInv /\ Leave => SortInv'
<1> SUFFICES ASSUME SortInv, Leave PROVE SortInv'
    OBVIOUS
<1>1. /\ ~done /\ i \in Nat \ {0} /\ i <= Len(remaining) /\ ~SuperOk(remaining[i])
      /\ i' = i + 1 /\ classes' = classes /\ remaining' = remaining /\ out' = out
      /\ progressed' = progressed /\ done' = done
    BY DEF Leave, InPass, SortInv, TypeOK
<1>2. TypeOK'
    <2>1. Len(remaining) \in Nat
        BY DEF SortInv, TypeOK
    <2>2. i + 1 \in Nat \ {0} /\ i + 1 <= Len(remaining) + 1
        BY <1>1, <2>1
    <2> QED
        BY <1>1, <2>2 DEF SortInv, TypeOK
<1>3. (~done /\ ~progressed => NoneReady)'
    <2> SUFFICES ASSUME ~progressed, NEW k \in 1..i
                 PROVE  ~SuperOk(remaining[k])
        BY <1>1 DEF NoneReady, SuperOk, Named
    <2>1. k \in 1..(i - 1) \/ k = i
        BY <1>1
    <2> QED
        BY <1>1, <2>1 DEF SortInv, NoneReady
<1>4. /\ NothingLost' /\ ParentsFirst' /\ (~done => Placed)'
      /\ (Range(out) \cup Range(remaining) = Range(classes))'
    BY <1>1, KeptAsItIs DEF SortInv
<1> QED
    BY <1>2, <1>3, <1>4 DEF SortInv

\* A new pass has found nothing yet.
LEMMA NextPassStep == SortInv /\ NextPass => SortInv'
<1> SUFFICES ASSUME SortInv, NextPass PROVE SortInv'
    OBVIOUS
<1>1. /\ i' = 1 /\ progressed' = FALSE /\ classes' = classes /\ remaining' = remaining
      /\ out' = out /\ done' = done
    BY DEF NextPass
<1>2. TypeOK'
    <2>1. Len(remaining) \in Nat
        BY DEF SortInv, TypeOK
    <2>2. 1 \in Nat \ {0} /\ 1 <= Len(remaining) + 1
        BY <2>1
    <2> QED
        BY <1>1, <2>2 DEF SortInv, TypeOK
<1>3. NoneReady'
    BY <1>1 DEF NoneReady
<1>4. /\ NothingLost' /\ ParentsFirst' /\ (~done => Placed)'
      /\ (Range(out) \cup Range(remaining) = Range(classes))'
    BY <1>1, KeptAsItIs DEF SortInv
<1> QED
    BY <1>2, <1>3, <1>4 DEF SortInv

\* The classes that the last pass leaves wait for each other.
LEMMA LeftAreStuck ==
    ASSUME SortInv, Finish
    PROVE  Range(remaining) \subseteq Stuck
<1>1. CASE remaining = <<>>
    BY <1>1 DEF Range
<1>2. CASE remaining # <<>>
    <2>1. ~done /\ ~progressed /\ i > Len(remaining)
        BY <1>2 DEF Finish, PassEnds
    <2>2. \A k \in DOMAIN remaining : ~SuperOk(remaining[k])
        <3>1. DOMAIN remaining = 1..Len(remaining) /\ i \in Nat /\ Len(remaining) \in Nat
            BY LenProperties DEF SortInv, TypeOK
        <3>2. \A k \in 1..Len(remaining) : k \in 1..(i - 1)
            BY <2>1, <3>1
        <3> QED
            BY <2>1, <3>1, <3>2 DEF SortInv, NoneReady
    <2>3. Range(remaining) \subseteq Range(classes)
        BY DEF SortInv
    <2>4. ASSUME NEW c \in Range(remaining)
          PROVE  /\ Waits(c)
                 /\ \A d \in Range(classes) : d.name = c.super => d \in Range(remaining)
        <3>1. /\ c.super \notin {NoSuper, NSObject}
              /\ ~Named(out, c.super) /\ Named(remaining, c.super)
            BY <2>2, <2>4 DEF SuperOk, Range
        <3>2. Named(classes, c.super)
            <4>1. PICK d \in Range(remaining) : d.name = c.super
                BY <3>1 DEF Named, Range
            <4>2. d \in Range(classes)
                BY <2>3, <4>1
            <4> QED
                BY <4>1, <4>2 DEF Named, Range
        <3>3. ASSUME NEW d \in Range(classes), d.name = c.super
              PROVE  d \in Range(remaining)
            <4>1. d \notin Range(out)
                BY <3>1, <3>3 DEF Named, Range
            <4> QED
                BY <3>3, <4>1 DEF SortInv
        <3> QED
            BY <3>1, <3>2, <3>3 DEF Waits
    <2> QED
        BY <2>3, <2>4 DEF Stuck
<1> QED
    BY <1>1, <1>2

\* The end lists what is left behind what was taken.
LEMMA FinishStep == SortInv /\ Finish => SortInv'
<1> SUFFICES ASSUME SortInv, Finish PROVE SortInv'
    OBVIOUS
<1> DEFINE m == Len(out)
           n == Len(remaining)
<1>1. /\ ~done /\ out' = out \o remaining /\ remaining' = <<>> /\ done' = TRUE
      /\ classes' = classes /\ i' = i /\ progressed' = progressed
    BY DEF Finish, PassEnds
<1>2. out \in Seq(Class) /\ remaining \in Seq(Class) /\ classes \in Seq(Class)
    BY DEF SortInv, TypeOK
<1>3. /\ m \in Nat /\ n \in Nat /\ DOMAIN out = 1..m /\ DOMAIN remaining = 1..n
    BY <1>2, LenProperties
<1>4. /\ out' \in Seq(Class) /\ Len(out') = m + n /\ DOMAIN out' = 1..(m + n)
      /\ \A k \in 1..(m + n) : out'[k] = IF k <= m THEN out[k] ELSE remaining[k - m]
    <2>1. /\ out \o remaining \in Seq(Class) /\ Len(out \o remaining) = m + n
          /\ \A k \in 1..(m + n) : (out \o remaining)[k]
                                     = IF k <= m THEN out[k] ELSE remaining[k - m]
        BY <1>2, ConcatProperties
    <2>2. DOMAIN (out \o remaining) = 1..(m + n)
        BY <2>1, LenProperties
    <2> QED
        BY <1>1, <2>1, <2>2
<1>5. <<>> \in Seq(Class) /\ Len(<<>>) = 0 /\ Range(<<>>) = {} /\ DOMAIN <<>> = {}
    BY DEF Range
<1>6. TypeOK'
    BY <1>1, <1>2, <1>4, <1>5 DEF SortInv, TypeOK
<1>7. NothingLost'
    <2>1. Len(out') + Len(remaining') = Len(classes)
        <3>1. m + n = Len(classes)
            BY DEF SortInv, NothingLost
        <3>2. Len(remaining') = 0
            BY <1>1, <1>5
        <3> QED
            BY <1>3, <1>4, <3>1, <3>2
    <2>2. ASSUME NEW d \in Range(classes)
          PROVE  Occurrences(out', d) + Occurrences(remaining', d) = Occurrences(classes, d)
        <3>1. Occurrences(out \o remaining, d) = Occurrences(out, d) + Occurrences(remaining, d)
            BY <1>2, OccurrencesAdd
        <3>2. Occurrences(out, d) + Occurrences(remaining, d) = Occurrences(classes, d)
            BY DEF SortInv, NothingLost
        <3>3. Occurrences(<<>>, d) = 0
            <4>1. {k \in DOMAIN <<>> : <<>>[k] = d} = {}
                BY <1>5
            <4> QED
                BY <4>1, FS_EmptySet DEF Occurrences
        <3>4. Occurrences(out, d) \in Nat /\ Occurrences(remaining, d) \in Nat
            BY <1>2, PositionsAreFinite
        <3>5. /\ Occurrences(out', d) = Occurrences(out \o remaining, d)
              /\ Occurrences(remaining', d) = Occurrences(<<>>, d)
            BY <1>1
        <3> QED
            BY <3>1, <3>2, <3>3, <3>4, <3>5
    <2> QED
        BY <1>1, <2>1, <2>2 DEF NothingLost, Occurrences
<1>8. (Range(out) \cup Range(remaining) = Range(classes))'
    <2>1. Range(out \o remaining) = Range(out) \cup Range(remaining)
        BY <1>2, RangeConcatenation
    <2> QED
        BY <1>1, <1>5, <2>1 DEF SortInv
<1>9. ParentsFirst'
    <2>1. Range(remaining) \subseteq Stuck
        BY LeftAreStuck
    <2>2. Stuck' = Stuck /\ \A d : Waits(d)' <=> Waits(d)
        BY <1>1 DEF Stuck, Waits, Named
    <2>3. ASSUME NEW k \in 1..(m + n), k <= m
          PROVE  /\ out'[k] \notin Stuck
                 /\ Waits(out'[k]) => \E j \in 1..(k - 1) : out'[j].name = out'[k].super
        <3>1. k \in 1..m /\ out'[k] = out[k]
            BY <1>3, <1>4, <2>3
        <3>2. \A j \in 1..(k - 1) : out'[j] = out[j]
            BY <1>3, <1>4, <2>3
        <3> QED
            BY <1>1, <1>3, <3>1, <3>2 DEF SortInv, Placed
    <2>4. ASSUME NEW k \in 1..(m + n), ~(k <= m)
          PROVE  out'[k] \in Stuck
        <3>1. k - m \in 1..n /\ out'[k] = remaining[k - m]
            BY <1>3, <1>4, <2>4
        <3> QED
            BY <1>3, <2>1, <3>1 DEF Range
    <2> SUFFICES \A k \in 1..(m + n) :
                    IF out'[k] \in Stuck
                    THEN \A j \in k..(m + n) : out'[j] \in Stuck
                    ELSE Waits(out'[k]) => \E j \in 1..(k - 1) : out'[j].name = out'[k].super
        <3>1. Len(out') = m + n /\ DOMAIN out' = 1..(m + n) /\ done' = TRUE /\ classes' = classes
            BY <1>1, <1>4
        <3> HIDE DEF m, n
        <3> QED
            BY <2>2, <3>1 DEF ParentsFirst, Waits, Named
    <2> SUFFICES ASSUME NEW k \in 1..(m + n)
                 PROVE  IF out'[k] \in Stuck
                        THEN \A j \in k..(m + n) : out'[j] \in Stuck
                        ELSE Waits(out'[k]) => \E j \in 1..(k - 1) : out'[j].name = out'[k].super
        OBVIOUS
    <2>5. CASE k <= m
        BY <2>3, <2>5
    <2>6. CASE ~(k <= m)
        <3>1. \A j \in k..(m + n) : j \in 1..(m + n) /\ ~(j <= m)
            BY <1>3, <2>6
        <3> QED
            BY <2>4, <2>6, <3>1
    <2> QED
        BY <2>5, <2>6
<1> QED
    BY <1>1, <1>6, <1>7, <1>8, <1>9 DEF SortInv

\* Every step of the loops keeps the invariant.
LEMMA SortStep == SortInv /\ [Next]_vars => SortInv'
<1> SUFFICES ASSUME SortInv, [Next]_vars PROVE SortInv'
    OBVIOUS
<1>1. CASE UNCHANGED vars
    <2>1. UNCHANGED <<classes, remaining, out, done>> /\ i' = i /\ progressed' = progressed
        BY <1>1 DEF vars
    <2>2. TypeOK' /\ (NoneReady => NoneReady')
        BY <2>1 DEF SortInv, TypeOK, NoneReady, SuperOk, Named
    <2> QED
        BY <2>1, <2>2, KeptAsItIs DEF SortInv
<1> QED
    BY <1>1, TakeStep, LeaveStep, NextPassStep, FinishStep DEF Next

\* The invariant that the properties follow from is kept by every step of the sort.
LEMMA SortInvariant == Spec => []SortInv
    BY SortInit, SortStep, PTL DEF Spec

\* Whatever the classes inherit from, each is listed, as often as it occurs in the image.
THEOREM NothingEverLost == Spec => [](TypeOK /\ NothingLost)
<1>1. SortInv => TypeOK /\ NothingLost
    BY DEF SortInv
<1> QED
    BY <1>1, SortInvariant, PTL

\* In every image a class comes after one that has the name of its superclass, if there is
\* one, but for the classes that wait for themselves, which come last.
THEOREM ParentsAlwaysFirst == Spec => []ParentsFirst
<1>1. SortInv => ParentsFirst
    BY DEF SortInv
<1> QED
    BY <1>1, SortInvariant, PTL

\* At every point of the sort the indexes that it removes at and emits from are those
\* of classes that are there, in every image.
THEOREM TypeAlwaysOK == Spec => []TypeOK
BY NothingEverLost, PTL

-----------------------------------------------------------------------------
(* Lines of superclasses.                                                   *)

\* Induction, for a set of numbers.
LEMMA AllNumbers ==
    ASSUME NEW S \in SUBSET Nat, 0 \in S, \A n \in S : n + 1 \in S
    PROVE  \A n \in Nat : n \in S
<1> DEFINE R == OpToRel(<, Nat)
           rest == Nat \ S
<1> SUFFICES ASSUME rest # {} PROVE FALSE
    OBVIOUS
<1>1. IsWellFoundedOn(R, Nat)
    BY NatLessThanWellFounded
<1>2. \A x, y \in Nat : x < y => <<x, y>> \in R
    BY DEF OpToRel
<1> HIDE DEF R
<1>3. PICK x \in rest : \A y \in rest : ~(<<y, x>> \in R)
    <2>1. rest \in SUBSET Nat
        OBVIOUS
    <2> HIDE DEF rest
    <2> QED
        BY <1>1, <2>1, WFMin
<1>4. x \in Nat /\ x # 0 /\ x - 1 \in Nat /\ x - 1 < x /\ (x - 1) + 1 = x
    BY <1>3
<1>5. x - 1 \in S
    BY <1>2, <1>3, <1>4
<1>6. (x - 1) + 1 \in S
    BY <1>5
<1> QED
    BY <1>3, <1>4, <1>6

\* Up a line of superclasses from a name, as far as number l.
LineTo(up, n, l) ==
    up = [k \in 0..l |-> IF k = 0 THEN n
                         ELSE IF up[k - 1] = NoSuper THEN NoSuper ELSE Super(up[k - 1])]

\* There is such a line from every name.
LEMMA LinesAreThere ==
    ASSUME NEW n
    PROVE  \A l \in Nat : \E up : LineTo(up, n, l)
<1> DEFINE S == {l \in Nat : \E up : LineTo(up, n, l)}
<1>1. S \in SUBSET Nat
    OBVIOUS
<1>2. 0 \in S
    <2> DEFINE f == [k \in 0..0 |-> n]
               g == [k \in 0..0 |-> IF k = 0 THEN n
                                    ELSE IF f[k - 1] = NoSuper THEN NoSuper ELSE Super(f[k - 1])]
    <2>1. \A k \in 0..0 : f[k] = g[k]
        OBVIOUS
    <2>2. f = g
        BY <2>1
    <2>3. LineTo(f, n, 0)
        BY <2>2 DEF LineTo
    <2> QED
        BY <2>3
<1>3. ASSUME NEW l \in S
      PROVE  l + 1 \in S
    <2>1. l \in Nat
        OBVIOUS
    <2>2. PICK up : LineTo(up, n, l)
        OBVIOUS
    <2> DEFINE last == IF up[l] = NoSuper THEN NoSuper ELSE Super(up[l])
               f == [k \in 0..(l + 1) |-> IF k = l + 1 THEN last ELSE up[k]]
               g == [k \in 0..(l + 1) |->
                        IF k = 0 THEN n
                        ELSE IF f[k - 1] = NoSuper THEN NoSuper ELSE Super(f[k - 1])]
    <2>3. ASSUME NEW k \in 0..(l + 1)
          PROVE  f[k] = g[k]
        <3>1. CASE k = l + 1
            <4>1. k # 0 /\ k - 1 = l /\ l \in 0..(l + 1) /\ l # l + 1
                BY <2>1, <3>1
            <4>2. f[k - 1] = up[l] /\ f[k] = last
                BY <3>1, <4>1
            <4> HIDE DEF f
            <4> QED
                BY <4>1, <4>2
        <3>2. CASE k # l + 1
            <4>1. k \in 0..l
                BY <2>1, <3>2
            <4>2. up[k] = IF k = 0 THEN n
                          ELSE IF up[k - 1] = NoSuper THEN NoSuper ELSE Super(up[k - 1])
                BY <2>2, <4>1 DEF LineTo
            <4>3. f[k] = up[k]
                BY <3>2
            <4>4. k # 0 => k - 1 \in 0..(l + 1) /\ k - 1 # l + 1
                BY <2>1, <4>1
            <4>5. k # 0 => f[k - 1] = up[k - 1]
                BY <4>4
            <4> HIDE DEF f
            <4> QED
                BY <4>2, <4>3, <4>5
        <3> QED
            BY <3>1, <3>2
    <2>4. f = g
        BY <2>3
    <2>5. LineTo(f, n, l + 1)
        <3> HIDE DEF f
        <3> QED
            BY <2>4 DEF LineTo
    <2> QED
        BY <2>1, <2>5
<1> HIDE DEF S
<1>4. \A l \in Nat : l \in S
    BY <1>1, <1>2, <1>3, AllNumbers
<1> QED
    BY <1>4 DEF S

\* The ancestors of a name: itself, and the superclass of each until there is none.
LEMMA AncestorSteps ==
    ASSUME NEW n
    PROVE  /\ Ancestors(n)[0] = n
           /\ \A k \in 1..MaxClasses :
                /\ Ancestors(n)[k - 1] = NoSuper => Ancestors(n)[k] = NoSuper
                /\ Ancestors(n)[k - 1] # NoSuper => Ancestors(n)[k] = Super(Ancestors(n)[k - 1])
<1>1. LineTo(Ancestors(n), n, MaxClasses)
    <2>1. \E up : LineTo(up, n, MaxClasses)
        BY LinesAreThere, MaxClassesAssumption
    <2> QED
        BY <2>1 DEF Ancestors, LineTo
<1> DEFINE up == Ancestors(n)
<1> HIDE DEF up
<1>2. \A k \in 0..MaxClasses :
        up[k] = IF k = 0 THEN n ELSE IF up[k - 1] = NoSuper THEN NoSuper ELSE Super(up[k - 1])
    BY <1>1 DEF LineTo, up
<1>3. 0 \in 0..MaxClasses /\ \A k \in 1..MaxClasses : k \in 0..MaxClasses /\ k # 0
    BY MaxClassesAssumption
<1> QED
    BY <1>2, <1>3 DEF up

\* A line that has come to its end stays there.
LEMMA LineEnds ==
    ASSUME NEW n, NEW j \in Nat, Ancestors(n)[j] = NoSuper
    PROVE  \A k \in j..MaxClasses : Ancestors(n)[k] = NoSuper
<1> DEFINE S == {l \in Nat : j + l <= MaxClasses => Ancestors(n)[j + l] = NoSuper}
<1>1. S \in SUBSET Nat /\ 0 \in S
    OBVIOUS
<1>2. ASSUME NEW l \in S
      PROVE  l + 1 \in S
    <2> SUFFICES ASSUME j + (l + 1) <= MaxClasses PROVE Ancestors(n)[j + (l + 1)] = NoSuper
        OBVIOUS
    <2>1. j + (l + 1) \in 1..MaxClasses /\ (j + (l + 1)) - 1 = j + l /\ j + l <= MaxClasses
        BY MaxClassesAssumption
    <2>2. Ancestors(n)[j + l] = NoSuper
        BY <2>1
    <2> QED
        BY <2>1, <2>2, AncestorSteps
<1> HIDE DEF S
<1>3. \A l \in Nat : l \in S
    BY <1>1, <1>2, AllNumbers
<1> SUFFICES ASSUME NEW k \in j..MaxClasses PROVE Ancestors(n)[k] = NoSuper
    OBVIOUS
<1>4. k - j \in Nat /\ j + (k - j) = k /\ k <= MaxClasses
    BY MaxClassesAssumption
<1> QED
    BY <1>3, <1>4 DEF S

\* The ancestors of a superclass are those of the class, one step on.
LEMMA LineOfSuper ==
    ASSUME NEW n, n # NoSuper
    PROVE  \A k \in 1..MaxClasses : Ancestors(n)[k] = Ancestors(Super(n))[k - 1]
<1> DEFINE s == Super(n)
           S == {l \in Nat : l + 1 <= MaxClasses => Ancestors(n)[l + 1] = Ancestors(s)[l]}
<1>1. S \in SUBSET Nat
    OBVIOUS
<1>2. 0 \in S
    <2> SUFFICES ASSUME 1 <= MaxClasses PROVE Ancestors(n)[1] = Ancestors(s)[0]
        OBVIOUS
    <2>1. 1 \in 1..MaxClasses /\ 1 - 1 = 0
        BY MaxClassesAssumption
    <2>2. Ancestors(n)[0] = n /\ Ancestors(s)[0] = s
        BY AncestorSteps
    <2> QED
        BY <2>1, <2>2, AncestorSteps
<1>3. ASSUME NEW l \in S
      PROVE  l + 1 \in S
    <2> SUFFICES ASSUME (l + 1) + 1 <= MaxClasses
                 PROVE  Ancestors(n)[(l + 1) + 1] = Ancestors(s)[l + 1]
        OBVIOUS
    <2>1. /\ l \in Nat /\ (l + 1) + 1 \in 1..MaxClasses /\ ((l + 1) + 1) - 1 = l + 1
          /\ l + 1 \in 1..MaxClasses /\ (l + 1) - 1 = l /\ l + 1 <= MaxClasses
        BY MaxClassesAssumption
    <2>2. Ancestors(n)[l + 1] = Ancestors(s)[l]
        BY <2>1
    <2> HIDE DEF s
    <2>3. CASE Ancestors(s)[l] = NoSuper
        BY <2>1, <2>2, <2>3, AncestorSteps
    <2>4. CASE Ancestors(s)[l] # NoSuper
        BY <2>1, <2>2, <2>4, AncestorSteps
    <2> QED
        BY <2>3, <2>4
<1> HIDE DEF S
<1>4. \A l \in Nat : l \in S
    BY <1>1, <1>2, <1>3, AllNumbers
<1> SUFFICES ASSUME NEW k \in 1..MaxClasses PROVE Ancestors(n)[k] = Ancestors(s)[k - 1]
    OBVIOUS
<1>5. k - 1 \in Nat /\ (k - 1) + 1 = k /\ k <= MaxClasses
    BY MaxClassesAssumption
<1> QED
    BY <1>4, <1>5 DEF S

\* The steps up a line at which the name grows.
Growing(n) == {k \in 1..MaxClasses :
                 Ancestors(n)[k] # NoSuper /\ Ancestors(n)[k] > Ancestors(n)[k - 1]}

\* A line that ends has its pass by the steps at which it grows, which are no more than
\* there are classes; any other has a pass of its own, behind all these.
LEMMA PassIs ==
    ASSUME NEW n
    PROVE  /\ IsFiniteSet(Growing(n)) /\ Cardinality(Growing(n)) \in 0..MaxClasses
           /\ Ancestors(n)[MaxClasses] = NoSuper => PassOf(n) = Cardinality(Growing(n))
           /\ Ancestors(n)[MaxClasses] # NoSuper => PassOf(n) = MaxClasses + 1
<1>1. IsFiniteSet(1..MaxClasses) /\ Cardinality(1..MaxClasses) = MaxClasses
    <2>1. 1 \in Int /\ MaxClasses \in Int /\ (1 > MaxClasses => MaxClasses = 0)
        BY MaxClassesAssumption
    <2>2. /\ IsFiniteSet(1..MaxClasses)
          /\ Cardinality(1..MaxClasses) = IF 1 > MaxClasses THEN 0 ELSE MaxClasses - 1 + 1
        BY <2>1, FS_Interval
    <2> QED
        BY <2>1, <2>2
<1>2. Growing(n) \in SUBSET (1..MaxClasses)
    BY DEF Growing
<1>3. /\ IsFiniteSet(Growing(n)) /\ Cardinality(Growing(n)) <= MaxClasses
    BY <1>1, <1>2, FS_Subset
<1>4. Cardinality(Growing(n)) \in Nat
    BY <1>3, FS_CardinalityType
<1>5. Cardinality(Growing(n)) \in 0..MaxClasses
    BY <1>3, <1>4, MaxClassesAssumption
<1> QED
    BY <1>3, <1>5 DEF PassOf, Growing

\* A name without a superclass that is waited for belongs to the first pass.
LEMMA FirstPass ==
    ASSUME NEW n, n # NoSuper, Super(n) = NoSuper, MaxClasses > 0
    PROVE  PassOf(n) = 0 /\ Ancestors(n)[1] = NoSuper
<1>1. 1 \in 1..MaxClasses /\ 1 - 1 = 0 /\ MaxClasses \in 1..MaxClasses /\ 1 \in Nat
    BY MaxClassesAssumption
<1>2. Ancestors(n)[1] = NoSuper
    BY <1>1, AncestorSteps
<1>3. \A k \in 1..MaxClasses : Ancestors(n)[k] = NoSuper
    BY <1>1, <1>2, LineEnds
<1>4. Growing(n) = {}
    BY <1>3 DEF Growing
<1> QED
    BY <1>1, <1>2, <1>3, <1>4, PassIs, FS_EmptySet

\* A class waits for as many passes as its superclass, and for one more if the
\* superclass comes later in the order of names.
LEMMA PassOfSuper ==
    ASSUME NEW n \in Nat, NEW s \in Nat, Super(n) = s, MaxClasses > 0,
           Ancestors(s)[MaxClasses] = NoSuper, Ancestors(n)[MaxClasses] = NoSuper
    PROVE  PassOf(n) = PassOf(s) + (IF s > n THEN 1 ELSE 0)
<1> DEFINE G == Growing(n)
           H == Growing(s)
           C == {k + 1 : k \in H}
           f == [k \in H |-> k + 1]
           one == IF s > n THEN {1} ELSE {}
<1>1. n # NoSuper /\ s # NoSuper
    BY NamesAssumption
<1>2. \A k \in 1..MaxClasses : Ancestors(n)[k] = Ancestors(s)[k - 1]
    BY <1>1, LineOfSuper
<1>3. Ancestors(n)[0] = n /\ Ancestors(s)[0] = s
    BY AncestorSteps
<1>4. G = C \cup one
    <2>1. ASSUME NEW k \in G PROVE k \in C \cup one
        <3>1. k \in 1..MaxClasses /\ Ancestors(n)[k] # NoSuper /\ Ancestors(n)[k] > Ancestors(n)[k - 1]
            BY DEF Growing
        <3>2. CASE k = 1
            <4>1. Ancestors(n)[k] = s /\ Ancestors(n)[k - 1] = n
                BY <1>2, <1>3, <3>1, <3>2
            <4> QED
                BY <3>1, <3>2, <4>1
        <3>3. CASE k # 1
            <4>1. k - 1 \in 1..MaxClasses /\ (k - 1) + 1 = k
                BY <3>1, <3>3, MaxClassesAssumption
            <4>2. Ancestors(n)[k] = Ancestors(s)[k - 1] /\ Ancestors(n)[k - 1] = Ancestors(s)[(k - 1) - 1]
                BY <1>2, <3>1, <4>1
            <4>3. k - 1 \in H
                BY <3>1, <4>1, <4>2 DEF Growing
            <4> HIDE DEF H
            <4> QED
                BY <4>1, <4>3
        <3> QED
            BY <3>2, <3>3
    <2>2. ASSUME NEW k \in H PROVE k + 1 \in G
        <3>1. k \in 1..MaxClasses /\ Ancestors(s)[k] # NoSuper /\ Ancestors(s)[k] > Ancestors(s)[k - 1]
            BY DEF Growing
        <3>2. k # MaxClasses
            BY <3>1
        <3>3. k + 1 \in 1..MaxClasses /\ (k + 1) - 1 = k
            BY <3>1, <3>2, MaxClassesAssumption
        <3>4. Ancestors(n)[k + 1] = Ancestors(s)[k] /\ Ancestors(n)[k] = Ancestors(s)[k - 1]
            BY <1>2, <3>1, <3>3
        <3> QED
            BY <3>1, <3>3, <3>4 DEF Growing
    <2>3. s > n => 1 \in G
        <3>1. 1 \in 1..MaxClasses /\ 1 - 1 = 0
            BY MaxClassesAssumption
        <3>2. Ancestors(n)[1] = s /\ Ancestors(n)[1 - 1] = n
            BY <1>2, <1>3, <3>1
        <3> QED
            BY <1>1, <3>1, <3>2 DEF Growing
    <2> HIDE DEF G, H
    <2> QED
        BY <2>1, <2>2, <2>3
<1>5. /\ IsFiniteSet(H) /\ H \in SUBSET Nat /\ \A k \in H : k # 0
      /\ PassOf(s) = Cardinality(H) /\ PassOf(n) = Cardinality(G)
    <2>1. \A k \in H : k \in 1..MaxClasses
        BY DEF Growing
    <2> QED
        BY <2>1, PassIs
<1> HIDE DEF G, H
<1>6. IsFiniteSet(C) /\ Cardinality(C) = Cardinality(H)
    <2>1. \A j, k \in H : j + 1 = k + 1 => j = k
        BY <1>5
    <2>2. f \in Bijection(H, C)
        BY <2>1 DEF Bijection, Injection, Surjection, IsInjective
    <2>3. ExistsBijection(H, C)
        BY <2>2 DEF ExistsBijection
    <2> QED
        BY <1>5, <2>3, FS_Bijection
<1>7. 1 \notin C
    BY <1>5
<1> HIDE DEF C
<1>8. CASE s > n
    <2>1. G = C \cup {1}
        BY <1>4, <1>8
    <2>2. Cardinality(C \cup {1}) = Cardinality(C) + 1
        BY <1>6, <1>7, FS_AddElement
    <2> QED
        BY <1>5, <1>6, <1>8, <2>1, <2>2
<1>9. CASE ~(s > n)
    <2>1. G = C
        BY <1>4, <1>9
    <2>2. Cardinality(H) \in Nat
        BY <1>5, FS_CardinalityType
    <2> QED
        BY <1>5, <1>6, <1>9, <2>1, <2>2
<1> QED
    BY <1>8, <1>9

-----------------------------------------------------------------------------
(* The order within the passes.                                             *)

\* What the property is about: images where a name is one class.
OneEach == IsInjective([k \in DOMAIN classes |-> classes[k].name])

Grows(c) == IF c.super > c.name THEN 1 ELSE 0

\* A class that waits for a class of pass p - 1 or, if the name grows, p - 2, or for one
\* that is not listed.
Due(c, o, p) == Waits(c) /\ (Named(o, c.super) => PassOf(c.super) + Grows(c) >= p)

\* In pass p, before the index x, the list has classes of this pass and those before,
\* what it has of this pass comes before what the pass has yet to see, and what remains
\* is due in this pass or later, what the pass has seen of it only later.
InPassNo(p, o, r, x) ==
    /\ \A k \in DOMAIN o : Ancestors(o[k].name)[k] = NoSuper /\ PassOf(o[k].name) <= p
    /\ \A k \in DOMAIN o : PassOf(o[k].name) = p => \A j \in x..Len(r) : o[k].name < r[j].name
    /\ \A k \in DOMAIN r : \A j \in 1..(k - 1) : r[j].name < r[k].name
    /\ p > 0 => \A j \in DOMAIN r : Due(r[j], o, p)
    /\ \A j \in 1..(x - 1) : Due(r[j], o, p + 1)

PassInv ==
    /\ Len(classes) <= MaxClasses
    /\ ListedByPassThenName
    /\ ~done /\ OneEach => \E p \in Nat : InPassNo(p, out, remaining, i)

\* The image stays what it is, and with it its lines of superclasses.
LEMMA ImageStays ==
    ASSUME classes' = classes
    PROVE  /\ OneEach' = OneEach
           /\ \A n : PassOf(n)' = PassOf(n) /\ Ancestors(n)' = Ancestors(n)
           /\ \A c : Waits(c)' = Waits(c)
<1>1. \A n : Super(n)' = Super(n)
    BY DEF Super, Waits, Named
<1>2. \A n : Ancestors(n)' = Ancestors(n)
    BY <1>1 DEF Ancestors
<1>3. \A n : PassOf(n)' = PassOf(n)
    BY <1>2 DEF PassOf
<1>4. OneEach' = OneEach /\ \A c : Waits(c)' = Waits(c)
    BY DEF OneEach, Waits, Named
<1> QED
    BY <1>2, <1>3, <1>4

\* The same of the invariant's parts.
LEMMA PassStays ==
    ASSUME classes' = classes
    PROVE  /\ \A p : InPassNo(p, out', remaining', i') => InPassNo(p, out, remaining, i)'
           /\ (OneEach => \A k \in DOMAIN out' : \A m \in 1..(k - 1) :
                  \/ PassOf(out'[m].name) < PassOf(out'[k].name)
                  \/ PassOf(out'[m].name) = PassOf(out'[k].name) /\ out'[m].name < out'[k].name)
              => ListedByPassThenName'
<1>1. \A p : InPassNo(p, out', remaining', i') => InPassNo(p, out, remaining, i)'
    BY ImageStays DEF InPassNo, Due, Named, Grows
<1>2. (OneEach => \A k \in DOMAIN out' : \A m \in 1..(k - 1) :
                  \/ PassOf(out'[m].name) < PassOf(out'[k].name)
                  \/ PassOf(out'[m].name) = PassOf(out'[k].name) /\ out'[m].name < out'[k].name)
              => ListedByPassThenName'
    BY ImageStays DEF ListedByPassThenName, OneEach
<1> QED
    BY <1>1, <1>2

\* Where a name is one class, that class's superclass is the name's.
LEMMA SuperOfName ==
    ASSUME TypeOK, OneEach, NEW c \in Range(classes)
    PROVE  /\ c.name \in Nat /\ c.name # NoSuper
           /\ Waits(c) => c.super \in Nat /\ c.super # NoSuper /\ Super(c.name) = c.super
           /\ ~Waits(c) => Super(c.name) = NoSuper
<1>1. classes \in Seq(Class) /\ c \in Class
    BY DEF TypeOK, Range
<1>2. c.name \in Nat /\ c.name # NoSuper
    BY <1>1, NamesAssumption DEF Class
<1>3. \A d \in Range(classes) : d.name = c.name => d = c
    <2> SUFFICES ASSUME NEW d \in Range(classes), d.name = c.name PROVE d = c
        OBVIOUS
    <2>1. PICK j \in DOMAIN classes : classes[j] = c
        BY DEF Range
    <2>2. PICK k \in DOMAIN classes : classes[k] = d
        BY DEF Range
    <2>3. j = k
        BY <2>1, <2>2 DEF OneEach, IsInjective
    <2> QED
        BY <2>1, <2>2, <2>3
<1>4. (CHOOSE d \in Range(classes) : d.name = c.name) = c
    BY <1>3
<1>5. Super(c.name) = IF Waits(c) THEN c.super ELSE NoSuper
    BY <1>4 DEF Super
<1>6. Waits(c) => c.super \in Nat /\ c.super # NoSuper
    <2> SUFFICES ASSUME Waits(c) PROVE c.super \in Nat /\ c.super # NoSuper
        OBVIOUS
    <2>1. PICK k \in DOMAIN classes : classes[k].name = c.super
        BY DEF Waits, Named
    <2>2. classes[k] \in Class
        BY <1>1, <2>1
    <2>3. c.super \in Names
        BY <2>1, <2>2 DEF Class
    <2> QED
        BY <2>3, NamesAssumption
<1> QED
    BY <1>2, <1>5, <1>6

\* What stands where when an element is taken out of a list.
LEMMA PlacesAfterTaking ==
    ASSUME NEW S, NEW s \in Seq(S), NEW k \in 1..Len(s)
    PROVE  \A j \in 1..(Len(s) - 1) : RemoveAt(s, k)[j] = IF j < k THEN s[j] ELSE s[j + 1]
<1> DEFINE l == SubSeq(s, 1, k - 1)
           r == SubSeq(s, k + 1, Len(s))
           n == Len(s)
<1>1. /\ n \in Nat /\ k \in Nat /\ k <= n
      /\ l \in Seq(S) /\ r \in Seq(S) /\ Len(l) = k - 1 /\ Len(r) = n - k /\ RemoveAt(s, k) = l \o r
    <2>1. n \in Nat /\ k \in Nat /\ k <= n
        OBVIOUS
    <2>2. /\ l \in Seq(S) /\ r \in Seq(S) /\ Len(l) = k - 1 /\ Len(r) = n - k
          /\ RemoveAt(s, k) = l \o r
        BY Split
    <2> QED
        BY <2>1, <2>2
<1>2. \A j \in 1..(k - 1) : l[j] = s[j]
    BY DEF l
<1>3. \A j \in 1..(n - k) : r[j] = s[k + j]
    BY DEF r
<1> HIDE DEF l, r
<1> SUFFICES ASSUME NEW j \in 1..(n - 1)
             PROVE  (l \o r)[j] = IF j < k THEN s[j] ELSE s[j + 1]
    BY <1>1
<1>4. (l \o r)[j] = IF j <= k - 1 THEN l[j] ELSE r[j - (k - 1)]
    <2>1. j \in 1..(Len(l) + Len(r))
        BY <1>1
    <2> QED
        BY <1>1, <2>1, ConcatProperties
<1> HIDE DEF n
<1>5. CASE j < k
    BY <1>1, <1>2, <1>4, <1>5
<1>6. CASE ~(j < k)
    <2>1. j - (k - 1) \in 1..(n - k) /\ k + (j - (k - 1)) = j + 1 /\ ~(j <= k - 1)
        BY <1>1, <1>6
    <2> QED
        BY <1>3, <1>4, <1>6, <2>1
<1> QED
    BY <1>5, <1>6

\* A class that is ready when the pass comes to it is one of this pass.
LEMMA ReadyInPass ==
    ASSUME SortInv, ~done, OneEach, Len(classes) <= MaxClasses,
           NEW p \in Nat, InPassNo(p, out, remaining, i),
           i \in 1..Len(remaining), SuperOk(remaining[i])
    PROVE  /\ PassOf(remaining[i].name) = p
           /\ Ancestors(remaining[i].name)[Len(out) + 1] = NoSuper
           /\ Len(out) + 1 <= MaxClasses
<1> DEFINE c == remaining[i]
           n == c.name
           s == c.super
           l == Len(out)
<1>1. TypeOK /\ c \in Range(remaining) /\ c \in Range(classes) /\ i \in DOMAIN remaining
    <2>1. TypeOK /\ DOMAIN remaining = 1..Len(remaining)
        BY LenProperties DEF SortInv, TypeOK
    <2>2. c \in Range(remaining)
        BY <2>1 DEF Range
    <2> QED
        BY <2>1, <2>2 DEF SortInv
<1>2. /\ n \in Nat /\ n # NoSuper
      /\ Waits(c) => s \in Nat /\ s # NoSuper /\ Super(n) = s
      /\ ~Waits(c) => Super(n) = NoSuper
    BY <1>1, SuperOfName
<1>3. l \in Nat /\ DOMAIN out = 1..l /\ l + 1 <= MaxClasses
    <2>1. l + Len(remaining) = Len(classes) /\ l \in Nat /\ Len(remaining) \in Nat /\ DOMAIN out = 1..l
        BY LenProperties DEF SortInv, TypeOK, NothingLost
    <2> QED
        BY <2>1, MaxClassesAssumption
<1>4. Waits(c) => \E m \in DOMAIN out : out[m].name = s
    BY <1>1, ReadyIsPlaced
<1>5. p > 0 => Due(c, out, p)
    BY <1>1 DEF InPassNo
<1>6. /\ \A m \in DOMAIN out : Ancestors(out[m].name)[m] = NoSuper /\ PassOf(out[m].name) <= p
      /\ \A m \in DOMAIN out : PassOf(out[m].name) = p => out[m].name < n
    <2>1. i \in i..Len(remaining)
        BY LenProperties DEF SortInv, TypeOK
    <2> QED
        BY <2>1 DEF InPassNo
<1> HIDE DEF c, n, s, l
<1>7. CASE ~Waits(c)
    <2>1. PassOf(n) = 0 /\ Ancestors(n)[1] = NoSuper
        BY <1>2, <1>3, <1>7, FirstPass, MaxClassesAssumption
    <2>2. l + 1 \in 1..MaxClasses /\ 1 \in Nat
        BY <1>3, MaxClassesAssumption
    <2>3. Ancestors(n)[l + 1] = NoSuper
        BY <2>1, <2>2, LineEnds
    <2>4. p = 0
        BY <1>5, <1>7 DEF Due
    <2> QED
        BY <1>3, <2>1, <2>3, <2>4 DEF c, n, s, l
<1>8. CASE Waits(c)
    <2>1. PICK m \in 1..l : out[m].name = s
        BY <1>3, <1>4, <1>8
    <2>2. Ancestors(s)[m] = NoSuper /\ PassOf(s) <= p /\ (PassOf(s) = p => s < n)
        BY <1>3, <1>6, <2>1
    <2>3. s \in Nat /\ Super(n) = s
        BY <1>2, <1>8
    <2>4. /\ m \in Nat /\ m + 1 \in Nat /\ m + 1 \in 1..MaxClasses /\ (m + 1) - 1 = m /\ MaxClasses > 0
          /\ l + 1 \in (m + 1)..MaxClasses
          /\ MaxClasses \in (m + 1)..MaxClasses /\ MaxClasses \in m..MaxClasses
        BY <1>3, MaxClassesAssumption
    <2>5. Ancestors(n)[m + 1] = NoSuper
        BY <1>2, <2>2, <2>3, <2>4, LineOfSuper
    <2>6. Ancestors(n)[l + 1] = NoSuper /\ Ancestors(n)[MaxClasses] = NoSuper
        BY <2>4, <2>5, LineEnds
    <2>7. Ancestors(s)[MaxClasses] = NoSuper
        BY <2>2, <2>4, LineEnds
    <2>8. PassOf(n) = PassOf(s) + (IF s > n THEN 1 ELSE 0)
        BY <1>2, <2>3, <2>4, <2>6, <2>7, PassOfSuper
    <2>9. PassOf(s) \in Nat
        BY <2>7, PassIs, MaxClassesAssumption
    <2>10. p > 0 => PassOf(s) + (IF s > n THEN 1 ELSE 0) >= p
        <3>1. Named(out, s)
            BY <1>3, <2>1 DEF Named
        <3> QED
            BY <1>5, <3>1 DEF Due, Grows, n, s
    <2>11. PassOf(n) = p
        BY <1>2, <2>2, <2>3, <2>8, <2>9, <2>10
    <2> QED
        BY <1>3, <2>6, <2>11 DEF c, n, s, l
<1> QED
    BY <1>7, <1>8

\* What is taken in a pass comes behind what the earlier passes and this one have taken.
LEMMA TakePass == SortInv /\ PassInv /\ Take => PassInv'
<1> SUFFICES ASSUME SortInv, PassInv, Take PROVE PassInv'
    OBVIOUS
<1> DEFINE c == remaining[i]
           n == Len(out)
           o == out'
           r == remaining'
<1>1. /\ ~done /\ i \in 1..Len(remaining) /\ SuperOk(c)
      /\ out' = Append(out, c) /\ remaining' = RemoveAt(remaining, i)
      /\ classes' = classes /\ i' = i /\ done' = done
    BY DEF Take, InPass, SortInv, TypeOK
<1>2. /\ out \in Seq(Class) /\ remaining \in Seq(Class) /\ c \in Class /\ TypeOK
      /\ Len(remaining) \in Nat /\ i \in Nat \ {0} /\ i <= Len(remaining) /\ DOMAIN remaining = 1..Len(remaining)
    BY <1>1, LenProperties DEF SortInv, TypeOK
<1>3. /\ n \in Nat /\ DOMAIN out = 1..n /\ DOMAIN o = 1..(n + 1)
      /\ \A k \in 1..n : o[k] = out[k]
      /\ o[n + 1] = c
    BY <1>1, <1>2, AppendProperties, LenProperties
<1>4. /\ Len(r) = Len(remaining) - 1 /\ DOMAIN r = 1..(Len(remaining) - 1)
      /\ \A j \in 1..(Len(remaining) - 1) : r[j] = IF j < i THEN remaining[j] ELSE remaining[j + 1]
    <2>1. RemoveAt(remaining, i) \in Seq(Class) /\ Len(RemoveAt(remaining, i)) = Len(remaining) - 1
        BY <1>1, <1>2, TakenOut
    <2>2. \A j \in 1..(Len(remaining) - 1) :
            RemoveAt(remaining, i)[j] = IF j < i THEN remaining[j] ELSE remaining[j + 1]
        BY <1>1, <1>2, PlacesAfterTaking
    <2> QED
        BY <1>1, <2>1, <2>2, LenProperties
<1>5. CASE ~OneEach
    <2>1. OneEach' = OneEach
        BY <1>1, ImageStays
    <2> QED
        BY <1>1, <1>5, <2>1 DEF PassInv, ListedByPassThenName, OneEach
<1>6. CASE OneEach
    <2>1. PICK p \in Nat : InPassNo(p, out, remaining, i)
        BY <1>1, <1>6 DEF PassInv
    <2>2. PassOf(c.name) = p /\ Ancestors(c.name)[n + 1] = NoSuper
        BY <1>1, <1>6, <2>1, ReadyInPass DEF PassInv
    <2>3. \A k \in 1..n :
            /\ Ancestors(out[k].name)[k] = NoSuper /\ PassOf(out[k].name) <= p
            /\ PassOf(out[k].name) = p => \A j \in i..Len(remaining) : out[k].name < remaining[j].name
        BY <1>3, <2>1 DEF InPassNo
    <2>4. \A k \in 1..Len(remaining) : \A j \in 1..(k - 1) : remaining[j].name < remaining[k].name
        BY <1>2, <2>1 DEF InPassNo
    <2>5. /\ p > 0 => \A j \in 1..Len(remaining) : Due(remaining[j], out, p)
          /\ \A j \in 1..(i - 1) : Due(remaining[j], out, p + 1)
        BY <1>2, <2>1 DEF InPassNo
    <2>6. /\ \A x : Named(out, x) => Named(o, x)
          /\ \A x : Named(o, x) => Named(out, x) \/ x = c.name
        <3>1. \A k \in 1..(n + 1) : k \in 1..n \/ k = n + 1
            BY <1>3
        <3>2. \A k \in 1..n : k \in 1..(n + 1)
            BY <1>3
        <3> HIDE DEF o, n, c
        <3> QED
            BY <1>3, <3>1, <3>2 DEF Named
    <2> HIDE DEF o, r, n
    <2>7. \A k \in 1..(n + 1) : k \in 1..n \/ k = n + 1
        BY <1>3
    <2>8. InPassNo(p, o, r, i)
        <3>1. ASSUME NEW k \in DOMAIN o
              PROVE  Ancestors(o[k].name)[k] = NoSuper /\ PassOf(o[k].name) <= p
            BY <1>3, <2>2, <2>3, <2>7
        <3>2. ASSUME NEW k \in DOMAIN o, PassOf(o[k].name) = p, NEW j \in i..Len(r)
              PROVE  o[k].name < r[j].name
            <4>1. j + 1 \in i..Len(remaining) /\ ~(j < i) /\ j \in 1..(Len(remaining) - 1)
                  /\ j + 1 \in 1..Len(remaining) /\ i \in 1..((j + 1) - 1)
                BY <1>2, <1>4
            <4>2. r[j] = remaining[j + 1]
                BY <1>4, <4>1
            <4>3. CASE k \in 1..n
                BY <1>3, <2>3, <3>2, <4>1, <4>2, <4>3
            <4>4. CASE k = n + 1
                BY <1>3, <2>4, <4>1, <4>2, <4>4
            <4> QED
                BY <1>3, <2>7, <4>3, <4>4
        <3>3. ASSUME NEW k \in DOMAIN r, NEW j \in 1..(k - 1)
              PROVE  r[j].name < r[k].name
            <4>1. /\ k \in 1..(Len(remaining) - 1) /\ j \in 1..(Len(remaining) - 1)
                  /\ k \in 1..Len(remaining) /\ k + 1 \in 1..Len(remaining)
                  /\ j \in 1..((k + 1) - 1) /\ j + 1 \in 1..((k + 1) - 1)
                  /\ ~(j < i) => ~(k < i)
                BY <1>2, <1>4
            <4>2. CASE k < i
                BY <1>4, <2>4, <4>1, <4>2
            <4>3. CASE ~(k < i) /\ j < i
                BY <1>4, <2>4, <4>1, <4>3
            <4>4. CASE ~(j < i)
                BY <1>4, <2>4, <4>1, <4>4
            <4> QED
                BY <4>2, <4>3, <4>4
        <3>4. ASSUME NEW d, NEW q \in Nat, Due(d, out, q), d.super = c.name => p + Grows(d) >= q
              PROVE  Due(d, o, q)
            BY <2>2, <2>6, <3>4 DEF Due
        <3>5. ASSUME p > 0, NEW j \in DOMAIN r
              PROVE  Due(r[j], o, p)
            <4>1. \E k \in 1..Len(remaining) : r[j] = remaining[k]
                <5>1. j \in 1..(Len(remaining) - 1) /\ j \in 1..Len(remaining) /\ j + 1 \in 1..Len(remaining)
                    BY <1>2, <1>4
                <5> QED
                    BY <1>4, <5>1
            <4>2. Due(r[j], out, p)
                BY <2>5, <3>5, <4>1
            <4>3. p + Grows(r[j]) >= p
                BY DEF Grows
            <4> QED
                BY <3>4, <4>2, <4>3
        <3>6. ASSUME NEW j \in 1..(i - 1)
              PROVE  Due(r[j], o, p + 1)
            <4>1. j \in 1..(Len(remaining) - 1) /\ j < i /\ i \in 1..Len(remaining)
                BY <1>2
            <4>2. r[j] = remaining[j]
                BY <1>4, <4>1
            <4>3. remaining[j].name < c.name
                BY <2>4, <4>1
            <4>4. remaining[j].super = c.name => Grows(remaining[j]) = 1
                <5>1. remaining[j] \in Class /\ c \in Class
                    BY <1>2, <4>1, ElementOfSeq
                <5>2. remaining[j].name \in Nat /\ c.name \in Nat
                    BY <5>1, NamesAssumption DEF Class
                <5> QED
                    BY <4>3, <5>2 DEF Grows
            <4>5. Due(remaining[j], out, p + 1)
                BY <2>5
            <4>6. p + 1 \in Nat /\ (remaining[j].super = c.name => p + Grows(remaining[j]) >= p + 1)
                BY <4>4
            <4> QED
                BY <3>4, <4>2, <4>5, <4>6
        <3> QED
            BY <3>1, <3>2, <3>3, <3>5, <3>6 DEF InPassNo
    <2>9. ASSUME NEW k \in DOMAIN o, NEW m \in 1..(k - 1)
          PROVE  \/ PassOf(o[m].name) < PassOf(o[k].name)
                 \/ PassOf(o[m].name) = PassOf(o[k].name) /\ o[m].name < o[k].name
        <3>1. m \in 1..n /\ k \in 1..(n + 1) /\ o[m] = out[m]
            BY <1>3
        <3>2. CASE k \in 1..n
            BY <1>3, <1>6, <3>1, <3>2 DEF PassInv, ListedByPassThenName, OneEach
        <3>3. CASE k = n + 1
            <4>1. o[k] = c /\ PassOf(c.name) = p /\ PassOf(out[m].name) <= p
                BY <1>3, <2>2, <2>3, <3>1, <3>3
            <4>2. i \in i..Len(remaining)
                BY <1>2
            <4>3. PassOf(out[m].name) = p => out[m].name < c.name
                BY <2>3, <3>1, <4>2
            <4>4. PassOf(out[m].name) \in Nat
                BY PassIs, MaxClassesAssumption
            <4> QED
                BY <3>1, <4>1, <4>3, <4>4
        <3> QED
            BY <2>7, <3>1, <3>2, <3>3
    <2> QED
        <3>1. InPassNo(p, out, remaining, i)'
            BY <1>1, <2>8, PassStays DEF o, r
        <3>2. ListedByPassThenName'
            BY <1>1, <2>9, PassStays DEF o
        <3> QED
            BY <1>1, <3>1, <3>2 DEF PassInv
<1> QED
    BY <1>5, <1>6

\* What a pass leaves where it is waits for a class that is not listed yet.
LEMMA LeavePass == SortInv /\ PassInv /\ Leave => PassInv'
<1> SUFFICES ASSUME SortInv, PassInv, Leave PROVE PassInv'
    OBVIOUS
<1>1. /\ ~done /\ i \in 1..Len(remaining) /\ ~SuperOk(remaining[i]) /\ i' = i + 1
      /\ classes' = classes /\ remaining' = remaining /\ out' = out /\ done' = done
    BY DEF Leave, InPass, SortInv, TypeOK
<1>2. i \in Nat \ {0} /\ Len(remaining) \in Nat /\ DOMAIN remaining = 1..Len(remaining)
    BY LenProperties DEF SortInv, TypeOK
<1>3. ListedByPassThenName'
    BY <1>1, PassStays DEF PassInv, ListedByPassThenName, OneEach
<1>4. ASSUME OneEach PROVE \E p \in Nat : InPassNo(p, out, remaining, i)'
    <2>1. PICK p \in Nat : InPassNo(p, out, remaining, i)
        BY <1>1, <1>4 DEF PassInv
    <2>2. Waits(remaining[i]) /\ ~Named(out, remaining[i].super)
        <3>1. /\ remaining[i].super \notin {NoSuper, NSObject}
              /\ ~Named(out, remaining[i].super) /\ Named(remaining, remaining[i].super)
            BY <1>1 DEF SuperOk
        <3>2. PICK k \in DOMAIN remaining : remaining[k].name = remaining[i].super
            BY <3>1 DEF Named
        <3>3. remaining[k] \in Range(classes)
            BY <3>2 DEF SortInv, Range
        <3>4. Named(classes, remaining[i].super)
            BY <3>2, <3>3 DEF Named, Range
        <3> QED
            BY <3>1, <3>4 DEF Waits
    <2>3. Due(remaining[i], out, p + 1)
        BY <2>2 DEF Due
    <2>4. /\ \A j \in (i + 1)..Len(remaining) : j \in i..Len(remaining)
          /\ \A j \in 1..((i + 1) - 1) : j \in 1..(i - 1) \/ j = i
        BY <1>2
    <2>5. InPassNo(p, out, remaining, i + 1)
        BY <2>1, <2>3, <2>4 DEF InPassNo
    <2> QED
        BY <1>1, <2>5, PassStays
<1> QED
    BY <1>1, <1>3, <1>4, ImageStays DEF PassInv

\* A new pass is for what the one before has seen and left.
LEMMA NextPassPass == SortInv /\ PassInv /\ NextPass => PassInv'
<1> SUFFICES ASSUME SortInv, PassInv, NextPass PROVE PassInv'
    OBVIOUS
<1>1. /\ ~done /\ i > Len(remaining) /\ i' = 1
      /\ classes' = classes /\ remaining' = remaining /\ out' = out /\ done' = done
    BY DEF NextPass, PassEnds
<1>2. i \in Nat \ {0} /\ Len(remaining) \in Nat /\ DOMAIN remaining = 1..Len(remaining)
    BY LenProperties DEF SortInv, TypeOK
<1>3. ListedByPassThenName'
    BY <1>1, PassStays DEF PassInv, ListedByPassThenName, OneEach
<1>4. ASSUME OneEach PROVE \E p \in Nat : InPassNo(p, out, remaining, i)'
    <2>1. PICK p \in Nat : InPassNo(p, out, remaining, i)
        BY <1>1, <1>4 DEF PassInv
    <2>2. \A j \in DOMAIN remaining : j \in 1..(i - 1)
        BY <1>1, <1>2
    <2>3. \A j \in DOMAIN remaining : Due(remaining[j], out, p + 1)
        BY <2>1, <2>2 DEF InPassNo
    <2>4. \A k \in DOMAIN out : /\ Ancestors(out[k].name)[k] = NoSuper
                                /\ PassOf(out[k].name) <= p /\ PassOf(out[k].name) \in Nat
        BY <2>1, PassIs, MaxClassesAssumption DEF InPassNo
    <2>5. \A k \in DOMAIN out : PassOf(out[k].name) <= p + 1 /\ PassOf(out[k].name) # p + 1
        BY <2>4
    <2>6. InPassNo(p + 1, out, remaining, 1)
        BY <2>1, <2>3, <2>4, <2>5 DEF InPassNo
    <2> QED
        BY <1>1, <2>6, PassStays
<1> QED
    BY <1>1, <1>3, <1>4, ImageStays DEF PassInv

\* The line of a class that waits for itself has no end.
LEMMA StuckHasNoEnd ==
    ASSUME TypeOK, OneEach, NEW c \in Stuck
    PROVE  PassOf(c.name) = MaxClasses + 1
<1>1. PICK T \in SUBSET Range(classes) :
          c \in T /\ \A b \in T : Waits(b) /\ \A d \in Range(classes) : d.name = b.super => d \in T
    BY DEF Stuck
<1> DEFINE S == {k \in Nat : k <= MaxClasses => \E b \in T : Ancestors(c.name)[k] = b.name}
<1>2. S \in SUBSET Nat
    OBVIOUS
<1>3. 0 \in S
    BY <1>1, AncestorSteps
<1>4. ASSUME NEW k \in S
      PROVE  k + 1 \in S
    <2> SUFFICES ASSUME k + 1 <= MaxClasses PROVE \E b \in T : Ancestors(c.name)[k + 1] = b.name
        OBVIOUS
    <2>1. k + 1 \in 1..MaxClasses /\ (k + 1) - 1 = k /\ k <= MaxClasses
        BY MaxClassesAssumption
    <2>2. PICK b \in T : Ancestors(c.name)[k] = b.name
        BY <2>1
    <2>3. Waits(b) /\ b \in Range(classes)
        BY <1>1
    <2>4. b.name # NoSuper /\ Super(b.name) = b.super
        BY <2>3, SuperOfName
    <2>5. Ancestors(c.name)[k + 1] = b.super
        BY <2>1, <2>2, <2>4, AncestorSteps
    <2>6. PICK d \in Range(classes) : d.name = b.super
        BY <2>3 DEF Waits, Named, Range
    <2>7. d \in T
        BY <1>1, <2>6
    <2> QED
        BY <2>5, <2>6, <2>7
<1> HIDE DEF S
<1>5. \A k \in Nat : k \in S
    BY <1>2, <1>3, <1>4, AllNumbers
<1>6. MaxClasses \in Nat /\ MaxClasses <= MaxClasses
    BY MaxClassesAssumption
<1>7. PICK b \in T : Ancestors(c.name)[MaxClasses] = b.name
    BY <1>5, <1>6 DEF S
<1>8. b.name # NoSuper
    BY SuperOfName
<1> QED
    BY <1>7, <1>8, PassIs

\* What the end lists waits for itself, and is in the order of its names.
LEMMA FinishPass == SortInv /\ PassInv /\ Finish => PassInv'
<1> SUFFICES ASSUME SortInv, PassInv, Finish PROVE PassInv'
    OBVIOUS
<1> DEFINE l == Len(out)
           n == Len(remaining)
           o == out'
<1>1. /\ ~done /\ out' = out \o remaining /\ done' = TRUE /\ classes' = classes
    BY DEF Finish, PassEnds
<1>2. /\ l \in Nat /\ n \in Nat /\ DOMAIN out = 1..l /\ DOMAIN remaining = 1..n
      /\ out \in Seq(Class) /\ remaining \in Seq(Class) /\ TypeOK
    BY LenProperties DEF SortInv, TypeOK
<1>3. /\ DOMAIN o = 1..(l + n)
      /\ \A k \in 1..(l + n) : o[k] = IF k <= l THEN out[k] ELSE remaining[k - l]
    <2>1. /\ out \o remaining \in Seq(Class) /\ Len(out \o remaining) = l + n
          /\ \A k \in 1..(l + n) : (out \o remaining)[k] = IF k <= l THEN out[k] ELSE remaining[k - l]
        BY <1>2, ConcatProperties
    <2>2. DOMAIN (out \o remaining) = 1..(l + n)
        BY <2>1, LenProperties
    <2> QED
        BY <1>1, <2>1, <2>2
<1> HIDE DEF o, l, n
<1>4. ASSUME OneEach, NEW k \in DOMAIN o, NEW m \in 1..(k - 1)
      PROVE  \/ PassOf(o[m].name) < PassOf(o[k].name)
             \/ PassOf(o[m].name) = PassOf(o[k].name) /\ o[m].name < o[k].name
    <2>1. PICK p \in Nat : InPassNo(p, out, remaining, i)
        BY <1>1, <1>4 DEF PassInv
    <2>2. /\ k \in 1..(l + n) /\ m \in 1..(l + n) /\ m < k
          /\ m <= l => m \in 1..l
          /\ k <= l => k \in 1..l
          /\ ~(m <= l) => m - l \in 1..n /\ m - l \in 1..((k - l) - 1) /\ ~(k <= l)
          /\ ~(k <= l) => k - l \in 1..n
        BY <1>2, <1>3
    <2>3. ASSUME NEW j \in 1..n PROVE PassOf(remaining[j].name) = MaxClasses + 1
        <3>1. remaining[j] \in Stuck
            BY <1>2, LeftAreStuck DEF Range
        <3> QED
            BY <1>2, <1>4, <3>1, StuckHasNoEnd
    <2>4. CASE k <= l
        <3>1. o[k] = out[k] /\ o[m] = out[m] /\ k \in DOMAIN out
            BY <1>2, <1>3, <2>2, <2>4
        <3> QED
            BY <1>4, <3>1 DEF PassInv, ListedByPassThenName, OneEach
    <2>5. CASE ~(k <= l) /\ m <= l
        <3>1. o[k] = remaining[k - l] /\ o[m] = out[m] /\ m \in 1..l /\ k - l \in 1..n
            BY <1>3, <2>2, <2>5
        <3>2. Ancestors(out[m].name)[m] = NoSuper
            BY <1>2, <2>1, <3>1 DEF InPassNo
        <3>3. m \in Nat /\ MaxClasses \in m..MaxClasses
            <4>1. l + n = Len(classes) /\ Len(classes) <= MaxClasses
                BY DEF SortInv, NothingLost, PassInv, l, n
            <4> QED
                BY <1>2, <3>1, <4>1, MaxClassesAssumption
        <3>4. Ancestors(out[m].name)[MaxClasses] = NoSuper
            BY <3>2, <3>3, LineEnds
        <3>5. PassOf(out[m].name) \in 0..MaxClasses
            BY <3>4, PassIs
        <3>6. PassOf(remaining[k - l].name) = MaxClasses + 1
            BY <2>3, <3>1
        <3> QED
            BY <3>1, <3>5, <3>6, MaxClassesAssumption
    <2>6. CASE ~(m <= l)
        <3>1. o[k] = remaining[k - l] /\ o[m] = remaining[m - l] /\ m - l \in 1..n /\ k - l \in 1..n
            BY <1>3, <2>2, <2>6
        <3>2. PassOf(remaining[k - l].name) = MaxClasses + 1 /\ PassOf(remaining[m - l].name) = MaxClasses + 1
            BY <2>3, <3>1
        <3>3. remaining[m - l].name < remaining[k - l].name
            BY <1>2, <2>1, <2>2, <2>6, <3>1 DEF InPassNo
        <3> QED
            BY <3>1, <3>2, <3>3
    <2> QED
        BY <2>4, <2>5, <2>6
<1>5. ListedByPassThenName'
    BY <1>1, <1>4, PassStays DEF o
<1> QED
    BY <1>1, <1>5 DEF PassInv

\* A list in name order, of which no two have a name, is in the strict order of its names.
LEMMA NamesAscend ==
    ASSUME classes \in Seq(Class), InNameOrder(classes), OneEach
    PROVE  \A k \in DOMAIN classes : \A j \in 1..(k - 1) : classes[j].name < classes[k].name
<1> DEFINE n == Len(classes)
           S == {k \in Nat : k \in 1..n => \A j \in 1..(k - 1) : classes[j].name < classes[k].name}
<1>1. n \in Nat /\ DOMAIN classes = 1..n /\ \A k \in 1..n : classes[k].name \in Nat
    <2>1. n \in Nat /\ DOMAIN classes = 1..n
        BY LenProperties
    <2>2. \A k \in 1..n : classes[k] \in Class
        BY ElementOfSeq
    <2> QED
        BY <2>1, <2>2, NamesAssumption DEF Class
<1>2. \A k \in 1..(n - 1) : classes[k].name <= classes[k + 1].name
    BY DEF InNameOrder
<1>3. \A j, k \in 1..n : classes[j].name = classes[k].name => j = k
    BY <1>1 DEF OneEach, IsInjective
<1> HIDE DEF n
<1>4. S \in SUBSET Nat /\ 0 \in S
    OBVIOUS
<1>5. ASSUME NEW k \in S
      PROVE  k + 1 \in S
    <2> SUFFICES ASSUME k + 1 \in 1..n, NEW j \in 1..((k + 1) - 1)
                 PROVE  classes[j].name < classes[k + 1].name
        OBVIOUS
    <2>1. k \in 1..n /\ k \in 1..(n - 1) /\ k # k + 1 /\ j \in 1..n /\ (j \in 1..(k - 1) \/ j = k)
        BY <1>1
    <2>2. classes[k].name < classes[k + 1].name
        BY <1>1, <1>2, <1>3, <2>1
    <2>3. j \in 1..(k - 1) => classes[j].name < classes[k].name
        BY <2>1
    <2> QED
        BY <1>1, <2>1, <2>2, <2>3
<1> HIDE DEF S
<1>6. \A k \in Nat : k \in S
    BY <1>4, <1>5, AllNumbers
<1> QED
    BY <1>1, <1>6 DEF S

\* The first pass has taken nothing yet.
LEMMA PassInit == Init => PassInv
<1> SUFFICES ASSUME Init PROVE PassInv
    OBVIOUS
<1>1. /\ classes \in Seq(Class) /\ Len(classes) <= MaxClasses /\ InNameOrder(classes)
      /\ remaining = classes /\ out = <<>> /\ i = 1
    <2>1. PICK n \in 0..MaxClasses : classes \in [1..n -> Class]
        BY DEF Init
    <2>2. n \in Nat /\ n <= MaxClasses
        BY MaxClassesAssumption
    <2> QED
        BY <2>1, <2>2 DEF Init
<1>2. DOMAIN out = {} /\ 1..(1 - 1) = {}
    BY <1>1
<1>3. ListedByPassThenName
    BY <1>2 DEF ListedByPassThenName
<1>4. ASSUME OneEach PROVE InPassNo(0, out, remaining, i)
    BY <1>1, <1>2, <1>4, NamesAscend DEF InPassNo
<1> QED
    BY <1>1, <1>3, <1>4 DEF PassInv

\* Every step of the sort keeps it.
LEMMA PassStep == SortInv /\ PassInv /\ [Next]_vars => PassInv'
<1> SUFFICES ASSUME SortInv, PassInv, [Next]_vars PROVE PassInv'
    OBVIOUS
<1>1. CASE UNCHANGED vars
    <2>1. /\ classes' = classes /\ remaining' = remaining /\ out' = out /\ i' = i /\ done' = done
        BY <1>1 DEF vars
    <2>2. \A p : InPassNo(p, out, remaining, i) => InPassNo(p, out, remaining, i)'
        BY <2>1, PassStays
    <2>3. ListedByPassThenName'
        BY <2>1, PassStays DEF PassInv, ListedByPassThenName, OneEach
    <2> QED
        BY <2>1, <2>2, <2>3, ImageStays DEF PassInv
<1> QED
    BY <1>1, TakePass, LeavePass, NextPassPass, FinishPass DEF Next

\* Where a name is one class the list is in the order of the passes and, within each, of
\* the names, the classes that wait for themselves behind all others: for images of any
\* number of classes.
THEOREM AlwaysByPassThenName == Spec => []ListedByPassThenName
<1>1. PassInv => ListedByPassThenName
    BY DEF PassInv
<1> QED
    BY <1>1, SortInit, SortStep, PassInit, PassStep, PTL DEF Spec
=============================================================================
