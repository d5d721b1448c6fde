--------------------------- MODULE ClassDumpProofs --------------------------
(***************************************************************************)
(* Theorems about class-dump, for all images and all command lines.         *)
(***************************************************************************)
EXTENDS ClassDump, FiniteSetTheorems, TLAPS, WellFoundedInduction, NaturalsInduction

-----------------------------------------------------------------------------
(* Types.                                                                    *)

IsSeq(s) == \E S : s \in Seq(S)

MetaOK(m) == DOMAIN m = DOMAIN After /\ \A kind \in DOMAIN After : IsSeq(m[kind])

\* What ObjcMetadata::parse works on.
ParseOK ==
    /\ stage \in DOMAIN After \cup {"read", "failed"}
    /\ slot \in Nat \ {0}
    /\ MetaOK(meta)

TodoOK == IsSeq(todo) /\ \A k \in 1..Len(todo) : DOMAIN todo[k] = {"image", "must"}

MetasOK == IsSeq(metas) /\ \A k \in 1..Len(metas) : MetaOK(metas[k])

\* Images are printed once all are read, and a conflict of options ends the
\* command before anything is read.
TypeInv ==
    /\ ParseOK /\ TodoOK /\ MetasOK
    /\ emitted \in 0..Len(metas)
    /\ status \in {"ready", "running", "ok", "error"}
    /\ args \in Arguments

\* A sequence has a length, and is a function on the numbers up to it.
LEMMA SeqShape ==
    ASSUME NEW s, IsSeq(s)
    PROVE  Len(s) \in Nat /\ DOMAIN s = 1..Len(s)
BY DEF IsSeq

\* Appending to a sequence gives one, which keeps what was there.
LEMMA AppendShape ==
    ASSUME NEW s, IsSeq(s), NEW e
    PROVE  /\ IsSeq(Append(s, e))
           /\ Len(Append(s, e)) = Len(s) + 1
           /\ \A k \in 1..Len(s) : Append(s, e)[k] = s[k]
           /\ Append(s, e)[Len(s) + 1] = e
<1>1. PICK S : s \in Seq(S)
    BY DEF IsSeq
<1>2. s \in Seq(S \cup {e})
    BY <1>1
<1>3. Append(s, e) \in Seq(S \cup {e})
    BY <1>2
<1> QED
    BY <1>2, <1>3 DEF IsSeq

\* What is left of a sequence is one, a place further on.
LEMMA TailShape ==
    ASSUME NEW s, IsSeq(s), s # <<>>
    PROVE  /\ IsSeq(Tail(s))
           /\ Len(s) >= 1 /\ Len(Tail(s)) = Len(s) - 1
           /\ \A k \in 1..Len(Tail(s)) : Tail(s)[k] = s[k + 1]
           /\ Head(s) = s[1]
<1>1. PICK S : s \in Seq(S)
    BY DEF IsSeq
<1>2. Tail(s) \in Seq(S) /\ Len(s) \in Nat /\ Len(s) # 0
    BY <1>1
<1> QED
    BY <1>1, <1>2 DEF IsSeq

\* A function on the numbers up to n is a sequence of that length.
LEMMA FunctionShape ==
    ASSUME NEW n \in Nat, NEW f, DOMAIN f = 1..n, f = [k \in 1..n |-> f[k]]
    PROVE  IsSeq(f) /\ Len(f) = n
<1> DEFINE S == {f[k] : k \in 1..n}
<1>1. f \in [1..n -> S]
    OBVIOUS
<1> HIDE DEF S
<1>2. f \in Seq(S)
    BY <1>1
<1>3. Len(f) = n
    BY <1>1, <1>2
<1> QED
    BY <1>2, <1>3 DEF IsSeq

\* The metadata before anything is read.
LEMMA NoMetaShape == MetaOK(NoMeta)
<1>1. IsSeq(<<>>)
    BY DEF IsSeq
<1>2. DOMAIN NoMeta = DOMAIN After /\ \A kind \in DOMAIN After : NoMeta[kind] = <<>>
    BY DEF NoMeta, After
<1> QED
    BY <1>1, <1>2 DEF MetaOK

\* Reading a slot, ending a list and losing one keep the shape of the metadata.
LEMMA ParseStepShape ==
    ASSUME ParseOK, ParseStep
    PROVE  ParseOK'
<1> USE DEF ParseOK
<1>a. DOMAIN After = {"classes", "categories", "protocols"}
    BY DEF After
<1>0. ASSUME NEW kind \in DOMAIN After, NEW e
      PROVE  MetaOK([meta EXCEPT ![kind] = Append(@, e)])
    <2>1. IsSeq(meta[kind]) /\ DOMAIN meta = DOMAIN After
        BY DEF MetaOK
    <2>2. IsSeq(Append(meta[kind], e))
        BY <2>1, AppendShape
    <2> QED
        BY <2>1, <2>2 DEF MetaOK
<1>1. CASE ClassSlot
    <2>1. meta' = meta \/ \E e : meta' = [meta EXCEPT !["classes"] = Append(@, e)]
        BY <1>1 DEF ClassSlot
    <2>2. MetaOK(meta')
        BY <1>a, <1>0, <2>1
    <2>3. stage' = stage /\ slot' = slot + 1
        BY <1>1 DEF ClassSlot
    <2> QED
        BY <2>2, <2>3 DEF MetaOK
<1>2. CASE CategorySlot
    <2>1. meta' = meta \/ \E e : meta' = [meta EXCEPT !["categories"] = Append(@, e)]
        BY <1>2 DEF CategorySlot
    <2>2. MetaOK(meta')
        BY <1>a, <1>0, <2>1
    <2>3. stage' = stage /\ slot' = slot + 1
        BY <1>2 DEF CategorySlot
    <2> QED
        BY <2>2, <2>3 DEF MetaOK
<1>3. CASE ProtocolSlot
    <2>1. meta' = meta \/ \E e : meta' = [meta EXCEPT !["protocols"] = Append(@, e)]
        BY <1>3 DEF ProtocolSlot
    <2>2. MetaOK(meta')
        BY <1>a, <1>0, <2>1
    <2>3. stage' = stage /\ slot' = slot + 1
        BY <1>3 DEF ProtocolSlot
    <2> QED
        BY <2>2, <2>3 DEF MetaOK
<1>4. CASE ListEnds
    <2>1. stage' \in {After[l] : l \in DOMAIN After} /\ slot' = 1 /\ meta' = meta
        BY <1>4 DEF ListEnds
    <2>2. stage' \in DOMAIN After \cup {"read", "failed"}
        BY <1>a, <2>1 DEF After
    <2> QED
        BY <2>1, <2>2 DEF MetaOK
<1>5. CASE ClassesFail
    BY <1>5 DEF ClassesFail, MetaOK
<1>6. CASE ListLost
    <2>1. PICK l \in {"categories", "protocols"} :
            stage' = After[l] /\ meta' = [meta EXCEPT ![l] = <<>>]
        BY <1>6 DEF ListLost
    <2>2. IsSeq(<<>>)
        BY DEF IsSeq
    <2>3. MetaOK(meta')
        BY <1>a, <2>1, <2>2 DEF MetaOK
    <2>4. stage' \in DOMAIN After \cup {"read", "failed"}
        BY <1>a, <2>1 DEF After
    <2>5. slot' = 1
        BY <1>6 DEF ListLost
    <2> QED
        BY <2>3, <2>4, <2>5 DEF MetaOK
<1> QED
    BY <1>1, <1>2, <1>3, <1>4, <1>5, <1>6 DEF ParseStep

\* One sequence after another.
LEMMA ConcatShape ==
    ASSUME NEW s, NEW t, IsSeq(s), IsSeq(t)
    PROVE  /\ IsSeq(s \o t)
           /\ Len(s \o t) = Len(s) + Len(t)
           /\ \A k \in 1..Len(s) : (s \o t)[k] = s[k]
           /\ \A k \in 1..Len(t) : (s \o t)[Len(s) + k] = t[k]
<1>1. PICK S : s \in Seq(S)
    BY DEF IsSeq
<1>2. PICK T : t \in Seq(T)
    BY DEF IsSeq
<1>3. s \in Seq(S \cup T) /\ t \in Seq(S \cup T)
    BY <1>1, <1>2
<1>4. s \o t \in Seq(S \cup T)
    BY <1>3
<1>5. IsSeq(s \o t)
    BY <1>4 DEF IsSeq
<1> QED
    BY <1>3, <1>5

\* A sequence of one element, and the empty one.
LEMMA OneShape ==
    ASSUME NEW e
    PROVE  IsSeq(<<e>>) /\ Len(<<e>>) = 1 /\ <<e>>[1] = e /\ IsSeq(<<>>) /\ Len(<<>>) = 0
<1>1. <<e>> \in Seq({e}) /\ <<>> \in Seq({e})
    OBVIOUS
<1> QED
    BY <1>1 DEF IsSeq

\* The images of a command line; a diff has two, both of which have to be read.
LEMMA ImagesShape ==
    ASSUME NEW a \in Arguments
    PROVE  /\ IsSeq(ImagesOf(a))
           /\ \A k \in 1..Len(ImagesOf(a)) : DOMAIN ImagesOf(a)[k] = {"image", "must"}
           /\ a.diff # NoDiff =>
                Len(ImagesOf(a)) = 2 /\ \A k \in 1..2 : ImagesOf(a)[k].must = TRUE
<1> DEFINE must(f) == [image |-> f, must |-> TRUE]
           own == must(a.image)
           other == must(a.diff)
           beside == [k \in DOMAIN a.frameworks |-> [image |-> a.frameworks[k], must |-> FALSE]]
<1>1. \A f : DOMAIN must(f) = {"image", "must"} /\ must(f).must = TRUE
    OBVIOUS
<1>2. ImagesOf(a) = IF a.diff # NoDiff THEN <<own, other>> ELSE <<own>> \o beside
    BY DEF ImagesOf
<1>3. CASE a.diff # NoDiff
    <2>1. <<own, other>> \in Seq({own, other})
        OBVIOUS
    <2>2. DOMAIN own = {"image", "must"} /\ DOMAIN other = {"image", "must"}
        BY <1>1
    <2>3. own.must = TRUE /\ other.must = TRUE
        BY <1>1
    <2> HIDE DEF own, other
    <2>4. \A k \in 1..2 : <<own, other>>[k] = own \/ <<own, other>>[k] = other
        OBVIOUS
    <2>5. Len(<<own, other>>) = 2
        OBVIOUS
    <2> QED
        BY <1>2, <1>3, <2>1, <2>2, <2>3, <2>4, <2>5 DEF IsSeq
<1>4. CASE ~(a.diff # NoDiff)
    <2>1. Len(a.frameworks) \in Nat /\ DOMAIN a.frameworks = 1..Len(a.frameworks)
        BY ArgumentsAssumption
    <2>2. DOMAIN beside = 1..Len(a.frameworks) /\ beside = [k \in 1..Len(a.frameworks) |-> beside[k]]
        BY <2>1
    <2>3. \A k \in DOMAIN beside : DOMAIN beside[k] = {"image", "must"}
        OBVIOUS
    <2>4. DOMAIN own = {"image", "must"}
        BY <1>1
    <2> HIDE DEF own, beside, must
    <2>5. IsSeq(beside) /\ Len(beside) = Len(a.frameworks)
        BY <2>1, <2>2, FunctionShape
    <2>6. IsSeq(<<own>>) /\ Len(<<own>>) = 1 /\ <<own>>[1] = own
        BY OneShape
    <2> DEFINE one == <<own>>
    <2>7. IsSeq(one) /\ Len(one) = 1 /\ one[1] = own
        BY <2>6
    <2> HIDE DEF one
    <2>8. /\ IsSeq(one \o beside)
          /\ Len(one \o beside) = Len(one) + Len(beside)
          /\ \A k \in 1..Len(one) : (one \o beside)[k] = one[k]
          /\ \A k \in 1..Len(beside) : (one \o beside)[Len(one) + k] = beside[k]
        <3>1. IsSeq(one) /\ IsSeq(beside)
            BY <2>5, <2>7
        <3>2. IsSeq(one \o beside)
            BY <3>1, ConcatShape
        <3>3. Len(one \o beside) = Len(one) + Len(beside)
            BY <3>1, ConcatShape
        <3>4. \A k \in 1..Len(one) : (one \o beside)[k] = one[k]
            BY <3>1, ConcatShape
        <3>5. \A k \in 1..Len(beside) : (one \o beside)[Len(one) + k] = beside[k]
            BY <3>1, ConcatShape
        <3> QED
            BY <3>2, <3>3, <3>4, <3>5
    <2>9. ASSUME NEW k \in 1..Len(one \o beside)
          PROVE  DOMAIN (one \o beside)[k] = {"image", "must"}
        <3>1. CASE k = 1
            BY <2>4, <2>7, <2>8, <3>1
        <3>2. CASE k # 1
            <4>1. k - 1 \in 1..Len(beside) /\ Len(one) + (k - 1) = k
                BY <2>1, <2>5, <2>7, <2>8, <3>2
            <4>2. (one \o beside)[k] = beside[k - 1] /\ k - 1 \in DOMAIN beside
                BY <2>2, <2>5, <2>8, <4>1
            <4> QED
                BY <2>3, <4>2
        <3> QED
            BY <3>1, <3>2
    <2>10. ImagesOf(a) = one \o beside
        BY <1>2, <1>4 DEF one
    <2> QED
        BY <1>4, <2>8, <2>9, <2>10
<1> QED
    BY <1>3, <1>4

\* Going on to the next image leaves one less to be read, and keeps their shapes.
LEMMA TakeNextShape ==
    ASSUME ParseOK, TodoOK, todo # <<>>, TakeNext
    PROVE  ParseOK' /\ TodoOK'
<1>1. IsSeq(todo)
    BY DEF TodoOK
<1>2. TodoOK'
    <2>1. todo' = Tail(todo)
        BY DEF TakeNext
    <2>2. /\ IsSeq(Tail(todo))
          /\ Len(todo) >= 1 /\ Len(Tail(todo)) = Len(todo) - 1
          /\ \A k \in 1..Len(Tail(todo)) : Tail(todo)[k] = todo[k + 1]
        BY <1>1, TailShape
    <2>3. Len(todo) \in Nat
        BY <1>1, SeqShape
    <2>4. \A k \in 1..Len(Tail(todo)) : k + 1 \in 1..Len(todo)
        BY <2>2, <2>3
    <2>5. \A k \in 1..Len(Tail(todo)) : DOMAIN Tail(todo)[k] = {"image", "must"}
        BY <2>2, <2>4 DEF TodoOK
    <2> QED
        BY <2>1, <2>2, <2>5 DEF TodoOK
<1>3. ParseOK'
    <2>1. CASE Len(todo) > 1
        <3>1. stage' = "classes" /\ slot' = 1 /\ meta' = NoMeta
            BY <2>1 DEF TakeNext
        <3> QED
            BY <3>1, NoMetaShape DEF ParseOK, MetaOK, After
    <2>2. CASE ~(Len(todo) > 1)
        BY <2>2 DEF TakeNext, metaVars, ParseOK, MetaOK
    <2> QED
        BY <2>1, <2>2
<1> QED
    BY <1>2, <1>3

\* Of every step of the command the state keeps its types.
LEMMA TypeInvStep ==
    ASSUME TypeInv, [Next]_vars
    PROVE  TypeInv'
<1> USE DEF TypeInv
<1>t. Len(metas) \in Nat /\ DOMAIN metas = 1..Len(metas)
    BY SeqShape DEF MetasOK
<1>1. CASE Start
    <2>1. ParseOK' /\ MetasOK' /\ emitted' = emitted /\ metas' = metas /\ args' = args
        BY <1>1 DEF Start, metaVars, ParseOK, MetaOK, MetasOK
    <2>2. TodoOK' /\ status' \in {"running", "error"}
        BY <1>1, ImagesShape DEF Start, Error, TodoOK
    <2> QED
        BY <2>1, <2>2
<1>2. CASE Read
    <2>1. ParseOK'
        BY <1>2, ParseStepShape DEF Read
    <2> QED
        BY <1>2, <2>1 DEF Read, cliVars, TodoOK, MetasOK
<1>3. CASE WasRead
    <2>1. ParseOK' /\ TodoOK'
        BY <1>3, TakeNextShape DEF WasRead, Reading
    <2>2. metas' = Append(metas, meta)
        BY <1>3 DEF WasRead
    <2>3. IsSeq(metas) /\ MetaOK(meta)
        BY DEF MetasOK, ParseOK
    <2>4. /\ IsSeq(metas') /\ Len(metas') = Len(metas) + 1
          /\ \A k \in 1..Len(metas) : metas'[k] = metas[k]
          /\ metas'[Len(metas) + 1] = meta
        BY <2>2, <2>3, AppendShape
    <2>5. \A k \in 1..Len(metas') : k \in 1..Len(metas) \/ k = Len(metas) + 1
        BY <1>t, <2>4
    <2>6. MetasOK'
        BY <2>3, <2>4, <2>5 DEF MetasOK
    <2>7. emitted' \in 0..Len(metas')
        BY <1>3, <1>t, <2>4 DEF WasRead
    <2> QED
        BY <1>3, <2>1, <2>6, <2>7 DEF WasRead
<1>4. CASE CouldNotBeRead
    <2>1. ParseOK' /\ TodoOK'
        <3>1. CASE Head(todo).must
            BY <1>4, <3>1 DEF CouldNotBeRead, metaVars, ParseOK, MetaOK, TodoOK
        <3>2. CASE ~Head(todo).must
            BY <1>4, <3>2, TakeNextShape DEF CouldNotBeRead, Reading
        <3> QED
            BY <3>1, <3>2
    <2> QED
        BY <1>4, <2>1 DEF CouldNotBeRead, Error, MetasOK
<1>5. CASE PrintDiff
    BY <1>5 DEF PrintDiff, metaVars, ParseOK, MetaOK, TodoOK, MetasOK
<1>6. CASE Emit
    <2>1. emitted' \in 0..Len(metas') /\ metas' = metas
        BY <1>6, <1>t DEF Emit
    <2>2. UNCHANGED <<metaVars, args, todo, metas, files, status>>
        BY <1>6 DEF Emit
    <2> QED
        BY <2>1, <2>2 DEF metaVars, ParseOK, MetaOK, TodoOK, MetasOK
<1>7. CASE WriteHeader
    BY <1>7 DEF WriteHeader, metaVars, ParseOK, MetaOK, TodoOK, MetasOK
<1>8. CASE WriteFails
    BY <1>8 DEF WriteFails, Error, metaVars, ParseOK, MetaOK, TodoOK, MetasOK
<1>9. CASE Finish
    BY <1>9 DEF Finish, metaVars, ParseOK, MetaOK, TodoOK, MetasOK
<1>10. CASE UNCHANGED vars
    BY <1>10 DEF vars, metaVars, cliVars, ParseOK, MetaOK, TodoOK, MetasOK
<1> QED
    BY <1>1, <1>2, <1>3, <1>4, <1>5, <1>6, <1>7, <1>8, <1>9, <1>10 DEF Next

\* The command starts with nothing read.
LEMMA TypeInvInit ==
    ASSUME Init
    PROVE  TypeInv
<1>1. IsSeq(<<>>) /\ Len(<<>>) = 0
    BY OneShape
<1>2. ParseOK
    BY NoMetaShape DEF Init, StartsReading, ParseOK, After
<1> QED
    BY <1>1, <1>2 DEF Init, TypeInv, TodoOK, MetasOK

\* What is read, what has been read and what has been printed of it keep their
\* types, whatever the images hold.
THEOREM TypeAlwaysOK == Spec => []TypeOK
<1>1. TypeInv => TypeOK
    <2> SUFFICES ASSUME TypeInv
                 PROVE  TypeOK
        OBVIOUS
    <2>1. DOMAIN todo = 1..Len(todo) /\ DOMAIN metas = 1..Len(metas)
        BY SeqShape DEF TypeInv, TodoOK, MetasOK
    <2> QED
        BY <2>1 DEF TypeInv, TypeOK, ParseOK, TodoOK, MetasOK, MetaOK
<1> QED
    BY <1>1, TypeInvInit, TypeInvStep, PTL DEF Spec

-----------------------------------------------------------------------------
(* The difference of two images.                                             *)

\* A set of positions that is not empty has a last one.
LEMMA LastIsThere ==
    ASSUME NEW n \in Nat, NEW S \in SUBSET (1..n), S # {}
    PROVE  Max(S) \in S
<1> DEFINE R == OpToRel(<, Nat)
           U == {n - k : k \in S}
<1>1. IsWellFoundedOn(R, Nat)
    BY NatLessThanWellFounded
<1>2. \A x, y \in Nat : x < y => <<x, y>> \in R
    BY DEF OpToRel
<1>3. \A k \in S : k \in Nat /\ n - k \in Nat /\ n - k \in U
    OBVIOUS
<1>4. U \subseteq Nat /\ U # {}
    BY <1>3
<1> HIDE DEF R, U
<1>5. PICK u \in U : \A v \in U : ~(<<v, u>> \in R)
    BY <1>1, <1>4, WFMin
<1>6. \A v \in U : ~(v < u) /\ v \in Nat /\ u \in Nat
    BY <1>2, <1>4, <1>5
<1>7. PICK last \in S : u = n - last
    BY DEF U
<1>8. \A k \in S : ~(n - k < n - last) /\ k \in Nat /\ last \in Nat
    BY <1>3, <1>6, <1>7
<1>9. \A k \in S : last >= k
    BY <1>8
<1> QED
    BY <1>7, <1>9 DEF Max

\* An index has the ids of the entries, each with the keys of one of the entries
\* that have it.
LEMMA IndexOfClasses ==
    ASSUME NEW m, MetaOK(m)
    PROVE  /\ DOMAIN Indexed(m).classes = Names(m.classes)
           /\ \A name \in Names(m.classes) :
                \E c \in Range(m.classes) :
                    c.name = name /\ Indexed(m).classes[name] = ClassKeys(c)
<1> DEFINE name(e) == e.name
           at(id) == {k \in DOMAIN m.classes : m.classes[k].name = id}
           ids == {m.classes[k].name : k \in DOMAIN m.classes}
<1>1. IsSeq(m.classes)
    BY DEF MetaOK, After
<1>2. Len(m.classes) \in Nat /\ DOMAIN m.classes = 1..Len(m.classes)
    BY <1>1, SeqShape
<1>3. Indexed(m).classes = [id \in ids |-> ClassKeys(m.classes[Max(at(id))])]
    BY DEF Indexed, Index
<1>4. ids = Names(m.classes)
    BY DEF Names
<1>5. ASSUME NEW id \in ids
      PROVE  \E c \in Range(m.classes) : c.name = id /\ Indexed(m).classes[id] = ClassKeys(c)
    <2>1. at(id) # {} /\ at(id) \in SUBSET (1..Len(m.classes))
        BY <1>2, <1>5
    <2>2. Max(at(id)) \in at(id)
        <3> HIDE DEF at
        <3> QED
            BY <1>2, <2>1, LastIsThere
    <2>3. Max(at(id)) \in DOMAIN m.classes /\ m.classes[Max(at(id))].name = id
        BY <2>2
    <2> QED
        BY <1>3, <2>3 DEF Range
<1> QED
    BY <1>3, <1>4, <1>5

\* The keys of a class tell its members: what each of them starts with tells
\* which kind of member it stands for.
LEMMA KeysAreMembers ==
    ASSUME NEW c
    PROVE  /\ \A n : <<"-", n>> \in ClassKeys(c) <=> n \in Members(c).instance
           /\ \A n : <<"+", n>> \in ClassKeys(c) <=> n \in Members(c).class
           /\ \A n : <<"<>", n>> \in ClassKeys(c) <=> n \in Members(c).adopted
           /\ \A n : <<"ivar", n>> \in ClassKeys(c) <=> n \in Members(c).ivars
           /\ \A n : <<"prop", n>> \in ClassKeys(c) <=> n \in Members(c).properties
<1> DEFINE im == Names(c.methods)
           cm == Names(c.classMethods)
           ps == Range(c.protocols)
           vs == Names(c.ivars)
           rs == Names(c.properties)
<1>1. ClassKeys(c) = {<<"-", n>> : n \in im} \cup {<<"+", n>> : n \in cm}
                        \cup {<<"<>", n>> : n \in ps}
                        \cup {<<"ivar", n>> : n \in vs} \cup {<<"prop", n>> : n \in rs}
    BY DEF ClassKeys, MethodKeys, Adopted
<1>2. /\ Members(c).instance = im /\ Members(c).class = cm /\ Members(c).adopted = ps
      /\ Members(c).ivars = vs /\ Members(c).properties = rs
    BY DEF Members
<1> HIDE DEF im, cm, ps, vs, rs
<1> QED
    BY <1>1, <1>2

\* Classes have the same keys if, and only if, they have the same members.
LEMMA SameKeys ==
    ASSUME NEW c, NEW d
    PROVE  ClassKeys(c) = ClassKeys(d) <=> Members(c) = Members(d)
<1>1. ASSUME ClassKeys(c) = ClassKeys(d)
      PROVE  Members(c) = Members(d)
    <2>1. Members(c).instance = Members(d).instance
        <3>1. \A n : n \in Members(c).instance <=> n \in Members(d).instance
            BY <1>1, KeysAreMembers
        <3> QED
            BY <3>1, SetExtensionality
    <2>2. Members(c).class = Members(d).class
        <3>1. \A n : n \in Members(c).class <=> n \in Members(d).class
            BY <1>1, KeysAreMembers
        <3> QED
            BY <3>1, SetExtensionality
    <2>3. Members(c).adopted = Members(d).adopted
        <3>1. \A n : n \in Members(c).adopted <=> n \in Members(d).adopted
            BY <1>1, KeysAreMembers
        <3> QED
            BY <3>1, SetExtensionality
    <2>4. Members(c).ivars = Members(d).ivars
        <3>1. \A n : n \in Members(c).ivars <=> n \in Members(d).ivars
            BY <1>1, KeysAreMembers
        <3> QED
            BY <3>1, SetExtensionality
    <2>5. Members(c).properties = Members(d).properties
        <3>1. \A n : n \in Members(c).properties <=> n \in Members(d).properties
            BY <1>1, KeysAreMembers
        <3> QED
            BY <3>1, SetExtensionality
    <2> QED
        BY <2>1, <2>2, <2>3, <2>4, <2>5 DEF Members
<1>2. ASSUME Members(c) = Members(d)
      PROVE  ClassKeys(c) = ClassKeys(d)
    <2>1. /\ Names(c.methods) = Names(d.methods)
          /\ Names(c.classMethods) = Names(d.classMethods)
          /\ Range(c.protocols) = Range(d.protocols)
          /\ Names(c.ivars) = Names(d.ivars)
          /\ Names(c.properties) = Names(d.properties)
        BY <1>2 DEF Members
    <2> QED
        BY <2>1 DEF ClassKeys, MethodKeys, Adopted
<1> QED
    BY <1>1, <1>2

\* What diff_objc says of a class that has one entry, or none, in each image.
LEMMA DiffIsTrue ==
    ASSUME NEW older, MetaOK(older), NEW newer, MetaOK(newer),
           NEW name \in Names(newer.classes) \cup Names(older.classes),
           \A c, d \in {e \in Range(newer.classes) : e.name = name} : c = d,
           \A c, d \in {e \in Range(older.classes) : e.name = name} : c = d
    PROVE  LET said == DiffObjc(older, newer).classes
               new == {c \in Range(newer.classes) : c.name = name}
               old == {c \in Range(older.classes) : c.name = name}
           IN  /\ name \in said.added <=> old = {}
               /\ name \in said.removed <=> new = {}
               /\ \A c \in new, d \in old :
                    /\ name \in DOMAIN said.changed <=> Members(d) # Members(c)
                    /\ name \in DOMAIN said.changed =>
                         LET e == said.changed[name]
                         IN  /\ (ClassKeys(d) \ e.lost) \cup e.gained = ClassKeys(c)
                             /\ e.lost \cap e.gained = {}
<1> DEFINE prev == Indexed(older).classes
           next == Indexed(newer).classes
           said == DiffObjc(older, newer).classes
           new == {c \in Range(newer.classes) : c.name = name}
           old == {c \in Range(older.classes) : c.name = name}
<1>1. /\ said.added = DOMAIN next \ DOMAIN prev
      /\ said.removed = DOMAIN prev \ DOMAIN next
      /\ said.changed = [id \in {i \in DOMAIN prev \cap DOMAIN next : prev[i] # next[i]} |->
                           [gained |-> next[id] \ prev[id], lost |-> prev[id] \ next[id]]]
    BY DEF DiffObjc, DiffSection, Indexed
<1>2. DOMAIN prev = Names(older.classes) /\ DOMAIN next = Names(newer.classes)
    BY IndexOfClasses
<1>3. name \in DOMAIN prev <=> old # {}
    BY <1>2 DEF Names, Range
<1>4. name \in DOMAIN next <=> new # {}
    BY <1>2 DEF Names, Range
<1>5. name \in DOMAIN prev => \E d \in old : prev[name] = ClassKeys(d)
    BY <1>2, IndexOfClasses
<1>6. name \in DOMAIN next => \E c \in new : next[name] = ClassKeys(c)
    BY <1>2, IndexOfClasses
<1>7. \A c, d \in new : c = d
    OBVIOUS
<1>8. \A c, d \in old : c = d
    OBVIOUS
<1>9. name \in DOMAIN prev \cup DOMAIN next
    BY <1>2
<1> HIDE DEF prev, next, said, new, old
<1>10. (name \in said.added <=> old = {}) /\ (name \in said.removed <=> new = {})
    BY <1>1, <1>3, <1>4, <1>9
<1>11. ASSUME NEW c \in new, NEW d \in old
       PROVE  /\ name \in DOMAIN said.changed <=> Members(d) # Members(c)
              /\ name \in DOMAIN said.changed =>
                   /\ (ClassKeys(d) \ said.changed[name].lost) \cup said.changed[name].gained
                        = ClassKeys(c)
                   /\ said.changed[name].lost \cap said.changed[name].gained = {}
    <2>1. prev[name] = ClassKeys(d) /\ name \in DOMAIN prev
        BY <1>3, <1>5, <1>8
    <2>2. next[name] = ClassKeys(c) /\ name \in DOMAIN next
        BY <1>4, <1>6, <1>7
    <2>3. name \in DOMAIN said.changed <=> prev[name] # next[name]
        BY <1>1, <2>1, <2>2
    <2>4. name \in DOMAIN said.changed =>
            /\ said.changed[name].gained = next[name] \ prev[name]
            /\ said.changed[name].lost = prev[name] \ next[name]
        BY <1>1, <2>3
    <2> QED
        BY <2>1, <2>2, <2>3, <2>4, SameKeys
<1> QED
    BY <1>10, <1>11 DEF said, new, old

\* While the two images of a diff are read, the command can only go on or fail;
\* a diff is printed as the last thing, and is that of the images read.
DiffInv ==
    /\ TypeInv
    /\ IsSeq(printed)
    /\ status = "ready" => metas = <<>> /\ todo = <<>> /\ printed = <<>>
    /\ (status = "running" /\ args.diff # NoDiff) =>
         /\ Len(metas) + Len(todo) = 2
         /\ \A k \in 1..Len(todo) : todo[k].must = TRUE
    /\ \A k \in 1..Len(printed) :
         printed[k].what = "diff" =>
           /\ status = "ok" /\ Len(metas) = 2
           /\ printed[k].said = DiffObjc(metas[2], metas[1])

\* Printing something else than a diff before the end leaves the invariant's last part.
LEMMA PrintedOther ==
    ASSUME IsSeq(printed), \A k \in 1..Len(printed) : printed[k].what # "diff",
           NEW e, e.what # "diff"
    PROVE  /\ IsSeq(Append(printed, e))
           /\ \A k \in 1..Len(Append(printed, e)) : Append(printed, e)[k].what # "diff"
<1>1. /\ IsSeq(Append(printed, e)) /\ Len(printed) \in Nat
      /\ Len(Append(printed, e)) = Len(printed) + 1
      /\ \A k \in 1..Len(printed) : Append(printed, e)[k] = printed[k]
      /\ Append(printed, e)[Len(printed) + 1] = e
    BY AppendShape, SeqShape
<1>2. \A k \in 1..Len(Append(printed, e)) : k \in 1..Len(printed) \/ k = Len(printed) + 1
    BY <1>1
<1> QED
    BY <1>1, <1>2

\* The steps of the command keep DiffInv.
LEMMA DiffInvStep ==
    ASSUME DiffInv, [Next]_vars
    PROVE  DiffInv'
<1>0. TypeInv /\ TypeInv'
    BY TypeInvStep DEF DiffInv
<1>a. /\ IsSeq(todo) /\ Len(todo) \in Nat
      /\ IsSeq(metas) /\ Len(metas) \in Nat
      /\ IsSeq(printed) /\ Len(printed) \in Nat
    BY <1>0, SeqShape DEF DiffInv, TypeInv, TodoOK, MetasOK
<1>b. status # "ok" => \A k \in 1..Len(printed) : printed[k].what # "diff"
    BY DEF DiffInv
<1>1. CASE Start
    <2>1. status = "ready" /\ metas = <<>> /\ todo = <<>> /\ printed = <<>>
        BY <1>1 DEF Start, DiffInv
    <2>2. metas' = <<>> /\ args' = args /\ args \in Arguments
        BY <1>0, <1>1, <2>1 DEF Start, TypeInv
    <2>3. CASE status' = "error"
        <3>1. printed' = <<>> \/ status' = "running"
            BY <1>1, <2>1 DEF Start, Error
        <3>2. printed' = <<>>
            BY <2>3, <3>1
        <3>3. IsSeq(printed') /\ Len(printed') = 0
            BY <3>2, OneShape
        <3>4. \A k \in 1..Len(printed') : FALSE
            BY <3>3
        <3> QED
            BY <1>0, <2>3, <3>3, <3>4 DEF DiffInv
    <2>4. CASE status' # "error"
        <3>1. status' = "running" /\ todo' = ImagesOf(args)
            BY <1>1, <2>4 DEF Start, Error
        <3>2. printed' = <<>> \/ \E said : printed' = <<[what |-> "refs", said |-> said]>>
            BY <1>1, <2>4 DEF Start, Error
        <3>3. args'.diff # NoDiff =>
                Len(metas') + Len(todo') = 2 /\ \A k \in 1..Len(todo') : todo'[k].must = TRUE
            <4>1. Len(metas') = 0
                BY <2>2, OneShape
            <4>2. args.diff # NoDiff =>
                    Len(ImagesOf(args)) = 2 /\ \A k \in 1..2 : ImagesOf(args)[k].must = TRUE
                BY <2>2, ImagesShape
            <4> QED
                BY <2>2, <3>1, <4>1, <4>2
        <3>4. IsSeq(printed') /\ \A k \in 1..Len(printed') : printed'[k].what # "diff"
            <4>1. CASE printed' = <<>>
                <5>1. IsSeq(printed') /\ Len(printed') = 0
                    BY <4>1, OneShape
                <5> QED
                    BY <5>1
            <4>2. CASE printed' # <<>>
                <5>1. PICK said : printed' = <<[what |-> "refs", said |-> said]>>
                    BY <3>2, <4>2
                <5>2. IsSeq(printed') /\ Len(printed') = 1 /\ printed'[1].what = "refs"
                    BY <5>1, OneShape
                <5> QED
                    BY <5>2
            <4> QED
                BY <4>1, <4>2
        <3> QED
            BY <1>0, <3>1, <3>3, <3>4 DEF DiffInv
    <2> QED
        BY <2>3, <2>4
<1>2. CASE Read
    BY <1>0, <1>2 DEF Read, cliVars, DiffInv
<1>3. CASE WasRead
    <2>1. /\ status = "running" /\ todo # <<>> /\ metas' = Append(metas, meta)
          /\ todo' = Tail(todo)
          /\ UNCHANGED <<args, emitted, headers, files, printed, status>>
        BY <1>3 DEF WasRead, Reading, TakeNext
    <2>2. Len(metas') = Len(metas) + 1
        BY <1>a, <2>1, AppendShape
    <2>3. Len(todo) >= 1 /\ Len(todo') = Len(todo) - 1
        BY <1>a, <2>1, TailShape
    <2>4. \A k \in 1..Len(todo') : todo'[k] = todo[k + 1] /\ k + 1 \in 1..Len(todo)
        BY <1>a, <2>1, <2>3, TailShape
    <2>5. args'.diff # NoDiff =>
            Len(metas') + Len(todo') = 2 /\ \A k \in 1..Len(todo') : todo'[k].must = TRUE
        BY <1>a, <2>1, <2>2, <2>3, <2>4 DEF DiffInv
    <2> QED
        BY <1>0, <1>b, <2>1, <2>5 DEF DiffInv
<1>4. CASE CouldNotBeRead
    <2>1. /\ status = "running" /\ todo # <<>>
          /\ UNCHANGED <<args, metas, emitted, headers, files, printed>>
        BY <1>4 DEF CouldNotBeRead, Reading
    <2>2. CASE Head(todo).must
        BY <1>0, <1>4, <1>b, <2>1, <2>2 DEF CouldNotBeRead, Error, DiffInv
    <2>3. CASE ~Head(todo).must
        <3>1. Len(todo) >= 1 /\ Head(todo) = todo[1] /\ 1 \in 1..Len(todo)
            BY <1>a, <2>1, TailShape
        <3>2. args.diff = NoDiff
            BY <2>1, <2>3, <3>1 DEF DiffInv
        <3>3. status' = status
            BY <1>4, <2>3 DEF CouldNotBeRead
        <3> QED
            BY <1>0, <1>b, <2>1, <3>2, <3>3 DEF DiffInv
    <2> QED
        BY <2>2, <2>3
<1>5. CASE PrintDiff
    <2> DEFINE entry == [what |-> "diff", said |-> DiffObjc(metas[2], metas[1])]
    <2>1. /\ status = "running" /\ todo = <<>> /\ args.diff # NoDiff
          /\ printed' = Append(printed, entry)
          /\ status' = "ok" /\ metas' = metas
        BY <1>5 DEF PrintDiff, AllRead
    <2>2. Len(metas) = 2
        BY <1>a, <2>1, OneShape DEF DiffInv
    <2>3. entry.said = DiffObjc(metas[2], metas[1])
        OBVIOUS
    <2> HIDE DEF entry
    <2>4. /\ IsSeq(printed') /\ Len(printed') = Len(printed) + 1
          /\ \A k \in 1..Len(printed) : printed'[k] = printed[k]
          /\ printed'[Len(printed) + 1] = entry
        BY <1>a, <2>1, AppendShape
    <2>5. \A k \in 1..Len(printed') : k \in 1..Len(printed) \/ k = Len(printed) + 1
        BY <1>a, <2>4
    <2>6. \A k \in 1..Len(printed') :
            printed'[k].what = "diff" => printed'[k].said = DiffObjc(metas'[2], metas'[1])
        BY <1>b, <2>1, <2>3, <2>4, <2>5
    <2> QED
        BY <1>0, <2>1, <2>2, <2>4, <2>6 DEF DiffInv
<1>6. CASE Emit
    <2>1. /\ status = "running" /\ args.diff = NoDiff
          /\ UNCHANGED <<metaVars, args, todo, metas, files, status>>
        BY <1>6 DEF Emit, AllRead
    <2>2. printed' = printed \/ \E said : printed' = Append(printed, [what |-> "dump", said |-> said])
        BY <1>6 DEF Emit
    <2>3. IsSeq(printed') /\ \A k \in 1..Len(printed') : printed'[k].what # "diff"
        <3>1. CASE printed' = printed
            BY <1>a, <1>b, <2>1, <3>1
        <3>2. CASE printed' # printed
            <4>1. PICK said : printed' = Append(printed, [what |-> "dump", said |-> said])
                BY <2>2, <3>2
            <4> DEFINE e == [what |-> "dump", said |-> said]
            <4>2. e.what # "diff"
                OBVIOUS
            <4> HIDE DEF e
            <4>3. /\ IsSeq(Append(printed, e))
                  /\ \A k \in 1..Len(Append(printed, e)) : Append(printed, e)[k].what # "diff"
                BY <1>a, <1>b, <2>1, <4>2, PrintedOther
            <4>4. printed' = Append(printed, e)
                BY <4>1 DEF e
            <4> QED
                BY <4>3, <4>4
        <3> QED
            BY <3>1, <3>2
    <2> QED
        BY <1>0, <2>1, <2>3 DEF DiffInv
<1>7. CASE WriteHeader
    BY <1>0, <1>7, <1>b DEF WriteHeader, DiffInv
<1>8. CASE WriteFails
    BY <1>0, <1>8, <1>b DEF WriteFails, Error, DiffInv
<1>9. CASE Finish
    BY <1>0, <1>9, <1>b DEF Finish, AllRead, DiffInv
<1>10. CASE UNCHANGED vars
    BY <1>0, <1>10 DEF vars, cliVars, DiffInv
<1> QED
    BY <1>1, <1>2, <1>3, <1>4, <1>5, <1>6, <1>7, <1>8, <1>9, <1>10 DEF Next

\* Whatever the two images hold, what --diff prints of a class that has no other
\* namesake is true of them, and leads from the one to the other.
THEOREM DiffAlwaysTellsTheDifference == Spec => []DiffTellsTheDifference
<1>1. Init => DiffInv
    <2> SUFFICES ASSUME Init
                 PROVE  DiffInv
        OBVIOUS
    <2>1. IsSeq(<<>>) /\ Len(<<>>) = 0
        BY OneShape
    <2> QED
        BY <2>1, TypeInvInit DEF Init, DiffInv
<1>2. DiffInv => DiffTellsTheDifference
    <2> SUFFICES ASSUME DiffInv, NEW p \in Range(printed), p.what = "diff",
                        NEW name \in Names(metas[1].classes) \cup Names(metas[2].classes),
                        \A c, d \in {e \in Range(metas[1].classes) : e.name = name} : c = d,
                        \A c, d \in {e \in Range(metas[2].classes) : e.name = name} : c = d
                 PROVE  LET said == p.said.classes
                            new == {c \in Range(metas[1].classes) : c.name = name}
                            old == {c \in Range(metas[2].classes) : c.name = name}
                        IN  /\ name \in said.added <=> old = {}
                            /\ name \in said.removed <=> new = {}
                            /\ \A c \in new, d \in old :
                                 /\ name \in DOMAIN said.changed <=> Members(d) # Members(c)
                                 /\ name \in DOMAIN said.changed =>
                                      LET e == said.changed[name]
                                      IN  /\ (ClassKeys(d) \ e.lost) \cup e.gained = ClassKeys(c)
                                          /\ e.lost \cap e.gained = {}
        BY DEF DiffTellsTheDifference
    <2>1. IsSeq(printed) /\ DOMAIN printed = 1..Len(printed)
        BY SeqShape DEF DiffInv
    <2>2. p.said = DiffObjc(metas[2], metas[1]) /\ Len(metas) = 2
        BY <2>1 DEF DiffInv, Range
    <2>3. MetaOK(metas[1]) /\ MetaOK(metas[2])
        BY <2>2 DEF DiffInv, TypeInv, MetasOK
    <2> QED
        BY <2>2, <2>3, DiffIsTrue
<1> QED
    BY <1>1, <1>2, DiffInvStep, PTL DEF Spec

-----------------------------------------------------------------------------
(* Header files.                                                             *)

\* The entries of an image, and of all, that have a file, for given options.
Own(a, m) ==
    UNION {{[kind |-> kind, of |-> e] : e \in Range(KeepByMethod(a, m)[kind])} :
            kind \in DOMAIN After}

AllOwn(a, ms) == UNION {Own(a, ms[k]) : k \in DOMAIN ms}

\* The file of an entry is still to be written, or there, or another entry's is
\* of the same name.
Stands(w, hs, fs, a, ms) ==
    \/ \E k \in 1..Len(hs) : hs[k].text = w
    \/ /\ HeaderName(w.kind, w.of) \in DOMAIN fs
       /\ fs[HeaderName(w.kind, w.of)] = w
    \/ \E v \in AllOwn(a, ms) : v # w /\ Clash(v, w)

Elements(s) == {s[k] : k \in 1..Len(s)}

\* The elements of two sequences in one.
LEMMA ConcatElements ==
    ASSUME NEW s, NEW t, IsSeq(s), IsSeq(t)
    PROVE  IsSeq(s \o t) /\ Elements(s \o t) = Elements(s) \cup Elements(t)
<1> DEFINE st == s \o t
<1>1. Len(s) \in Nat /\ Len(t) \in Nat
    BY SeqShape
<1>2. /\ IsSeq(st) /\ Len(st) = Len(s) + Len(t)
      /\ \A k \in 1..Len(s) : st[k] = s[k]
      /\ \A k \in 1..Len(t) : st[Len(s) + k] = t[k]
    BY ConcatShape
<1> HIDE DEF st
<1>3. \A k \in 1..Len(s) : k \in 1..Len(st)
    BY <1>1, <1>2
<1>4. \A k \in 1..Len(t) : Len(s) + k \in 1..Len(st)
    BY <1>1, <1>2
<1>5. \A k \in 1..Len(st) : k \in 1..Len(s) \/ (k - Len(s) \in 1..Len(t) /\ Len(s) + (k - Len(s)) = k)
    BY <1>1, <1>2
<1>6. \A x \in Elements(st) : x \in Elements(s) \cup Elements(t)
    <2> SUFFICES ASSUME NEW k \in 1..Len(st)
                 PROVE  st[k] \in Elements(s) \cup Elements(t)
        BY DEF Elements
    <2>1. CASE k \in 1..Len(s)
        BY <1>2, <2>1 DEF Elements
    <2>2. CASE k \notin 1..Len(s)
        <3>1. k - Len(s) \in 1..Len(t) /\ st[k] = t[k - Len(s)]
            BY <1>2, <1>5, <2>2
        <3> QED
            BY <3>1 DEF Elements
    <2> QED
        BY <2>1, <2>2
<1>7. \A x \in Elements(s) : x \in Elements(st)
    BY <1>2, <1>3 DEF Elements
<1>8. \A x \in Elements(t) : x \in Elements(st)
    BY <1>2, <1>4 DEF Elements
<1>9. Elements(st) = Elements(s) \cup Elements(t)
    BY <1>6, <1>7, <1>8
<1> QED
    BY <1>2, <1>9 DEF st

\* The entries with a method that is asked for are again a sequence.
LEMMA KeepFoundShape ==
    ASSUME NEW a, NEW entries, IsSeq(entries)
    PROVE  IsSeq(KeepFound(a, entries))
<1> DEFINE ks == {k \in DOMAIN entries :
                    MethodsFound(a, entries[k].methods \o entries[k].classMethods) # <<>>}
           with == EntriesAt(entries, ks)
           kept == KeepFound(a, entries)
<1>1. Len(entries) \in Nat /\ DOMAIN entries = 1..Len(entries)
    BY SeqShape
<1>2. ks \subseteq 1..Len(entries)
    BY <1>1
<1>3. Cardinality(ks) \in Nat
    <2> HIDE DEF ks
    <2>1. IsFiniteSet(1..Len(entries))
        BY <1>1, FS_Interval
    <2>2. IsFiniteSet(ks)
        BY <1>2, <2>1, FS_Subset
    <2> QED
        BY <2>2, FS_CardinalityType
<1>4. DOMAIN with = 1..Cardinality(ks)
    BY DEF EntriesAt
<1>5. DOMAIN kept = DOMAIN with /\ kept = [n \in DOMAIN with |-> kept[n]]
    BY DEF KeepFound
<1> HIDE DEF ks, with, kept
<1>6. IsSeq(kept)
    BY <1>3, <1>4, <1>5, FunctionShape
<1> QED
    BY <1>6 DEF kept

\* What -f leaves of an image has the shape of an image's metadata.
LEMMA KeepByMethodShape ==
    ASSUME NEW a, NEW m, MetaOK(m)
    PROVE  MetaOK(KeepByMethod(a, m))
<1>1. IsSeq(m.classes) /\ IsSeq(m.categories) /\ IsSeq(m.protocols)
    BY DEF MetaOK, After
<1>2. IsSeq(KeepFound(a, m.classes)) /\ IsSeq(KeepFound(a, m.categories))
    BY <1>1, KeepFoundShape
<1> QED
    BY <1>1, <1>2 DEF KeepByMethod, MetaOK, After

HeaderFile(kind, e) == [name |-> HeaderName(kind, e), text |-> [kind |-> kind, of |-> e]]

\* The files of a kind of entries.
LEMMA HeadersOfKind ==
    ASSUME NEW kind, NEW es, IsSeq(es)
    PROVE  /\ IsSeq([k \in DOMAIN es |-> HeaderFile(kind, es[k])])
           /\ Elements([k \in DOMAIN es |-> HeaderFile(kind, es[k])])
                = {HeaderFile(kind, e) : e \in Range(es)}
<1> DEFINE hs == [k \in DOMAIN es |-> HeaderFile(kind, es[k])]
<1>1. Len(es) \in Nat /\ DOMAIN es = 1..Len(es)
    BY SeqShape
<1>2. DOMAIN hs = 1..Len(es) /\ hs = [k \in 1..Len(es) |-> hs[k]]
    BY <1>1
<1>3. \A k \in DOMAIN es : hs[k] = HeaderFile(kind, es[k])
    OBVIOUS
<1> HIDE DEF hs
<1>4. IsSeq(hs) /\ Len(hs) = Len(es)
    BY <1>1, <1>2, FunctionShape
<1>5. Elements(hs) = {HeaderFile(kind, es[k]) : k \in DOMAIN es}
    BY <1>1, <1>3, <1>4 DEF Elements
<1>6. {HeaderFile(kind, es[k]) : k \in DOMAIN es} = {HeaderFile(kind, e) : e \in Range(es)}
    BY DEF Range
<1> QED
    BY <1>4, <1>5, <1>6 DEF hs

\* The files of an image are those of its entries, each under its name.
LEMMA HeadersShape ==
    ASSUME NEW m, MetaOK(m)
    PROVE  /\ IsSeq(HeadersOf(m))
           /\ Elements(HeadersOf(m)) =
                UNION {{HeaderFile(kind, e) : e \in Range(m[kind])} : kind \in DOMAIN After}
<1> DEFINE of(kind) == [k \in DOMAIN m[kind] |-> HeaderFile(kind, m[kind][k])]
           cs == of("classes")
           gs == of("categories")
           ps == of("protocols")
<1>1. HeadersOf(m) = (cs \o gs) \o ps
    BY DEF HeadersOf, HeaderFile
<1>2. DOMAIN After = {"classes", "categories", "protocols"}
    BY DEF After
<1>3. \A kind \in DOMAIN After :
        IsSeq(of(kind)) /\ Elements(of(kind)) = {HeaderFile(kind, e) : e \in Range(m[kind])}
    BY HeadersOfKind DEF MetaOK
<1>4. /\ IsSeq(cs) /\ IsSeq(gs) /\ IsSeq(ps)
      /\ Elements(cs) \cup Elements(gs) \cup Elements(ps) =
           UNION {{HeaderFile(kind, e) : e \in Range(m[kind])} : kind \in DOMAIN After}
    <2>1. IsSeq(cs) /\ Elements(cs) = {HeaderFile("classes", e) : e \in Range(m["classes"])}
        BY <1>2, <1>3
    <2>2. IsSeq(gs) /\ Elements(gs) = {HeaderFile("categories", e) : e \in Range(m["categories"])}
        BY <1>2, <1>3
    <2>3. IsSeq(ps) /\ Elements(ps) = {HeaderFile("protocols", e) : e \in Range(m["protocols"])}
        BY <1>2, <1>3
    <2> HIDE DEF cs, gs, ps
    <2> QED
        BY <1>2, <2>1, <2>2, <2>3
<1> HIDE DEF cs, gs, ps, of
<1>5. IsSeq(cs \o gs) /\ Elements(cs \o gs) = Elements(cs) \cup Elements(gs)
    BY <1>4, ConcatElements
<1> DEFINE both == cs \o gs
<1>6. IsSeq(both) /\ Elements(both) = Elements(cs) \cup Elements(gs)
    BY <1>5
<1> HIDE DEF both
<1>7. IsSeq(both \o ps) /\ Elements(both \o ps) = Elements(both) \cup Elements(ps)
    BY <1>4, <1>6, ConcatElements
<1>8. HeadersOf(m) = both \o ps
    BY <1>1 DEF both
<1> QED
    BY <1>4, <1>6, <1>7, <1>8

\* Files of one name are of entries that clash.
LEMMA SameNameClashes ==
    ASSUME NEW v, NEW w, v.kind \in DOMAIN After, w.kind \in DOMAIN After,
           HeaderName(v.kind, v.of) = HeaderName(w.kind, w.of)
    PROVE  Clash(v, w)
<1>1. CASE v.kind = "categories" /\ w.kind = "categories"
    BY <1>1 DEF HeaderName, Clash
<1>2. CASE v.kind # "categories" /\ w.kind # "categories"
    BY <1>2 DEF HeaderName, Clash
<1>3. CASE v.kind = "categories" /\ w.kind # "categories"
    <2>1. <<Sanitized(v.of.className), Sanitized(v.of.name)>> = <<Sanitized(w.of.name)>>
        BY <1>3 DEF HeaderName
    <2>2. Len(<<Sanitized(v.of.className), Sanitized(v.of.name)>>) = 2
        OBVIOUS
    <2>3. Len(<<Sanitized(w.of.name)>>) = 1
        OBVIOUS
    <2> QED
        BY <2>1, <2>2, <2>3
<1>4. CASE v.kind # "categories" /\ w.kind = "categories"
    <2>1. <<Sanitized(w.of.className), Sanitized(w.of.name)>> = <<Sanitized(v.of.name)>>
        BY <1>4 DEF HeaderName
    <2>2. Len(<<Sanitized(w.of.className), Sanitized(w.of.name)>>) = 2
        OBVIOUS
    <2>3. Len(<<Sanitized(v.of.name)>>) = 1
        OBVIOUS
    <2> QED
        BY <2>1, <2>2, <2>3
<1> QED
    BY <1>1, <1>2, <1>3, <1>4

\* Writing a file leaves none of the others worse off than a clash of names allows.
LEMMA WriteKeepsOthers ==
    ASSUME NEW hs, IsSeq(hs), hs # <<>>, NEW fs, NEW gs, NEW a, NEW ms, NEW w,
           w.kind \in DOMAIN After, hs[1].text.kind \in DOMAIN After,
           hs[1].text \in AllOwn(a, ms),
           hs[1].name = HeaderName(hs[1].text.kind, hs[1].text.of),
           gs = [n \in DOMAIN fs \cup {hs[1].name} |-> IF n = hs[1].name THEN hs[1].text ELSE fs[n]],
           Stands(w, hs, fs, a, ms)
    PROVE  Stands(w, Tail(hs), gs, a, ms)
<1> DEFINE t == hs[1].text
           name == HeaderName(w.kind, w.of)
<1>1. CASE t = w
    <2>1. name = hs[1].name
        BY <1>1
    <2>2. name \in DOMAIN gs /\ gs[name] = w
        BY <1>1, <2>1
    <2> QED
        BY <2>2 DEF Stands
<1>2. CASE t # w /\ name = hs[1].name
    <2>1. Clash(t, w)
        BY <1>2, SameNameClashes
    <2> QED
        BY <1>2, <2>1 DEF Stands
<1>3. CASE t # w /\ name # hs[1].name
    <2>1. CASE \E k \in 1..Len(hs) : hs[k].text = w
        <3>1. PICK k \in 1..Len(hs) : hs[k].text = w
            BY <2>1
        <3>2. k # 1
            BY <1>3, <3>1
        <3>3. /\ Len(hs) \in Nat /\ Len(Tail(hs)) = Len(hs) - 1
              /\ \A j \in 1..Len(Tail(hs)) : Tail(hs)[j] = hs[j + 1]
            BY SeqShape, TailShape
        <3>4. k - 1 \in 1..Len(Tail(hs)) /\ (k - 1) + 1 = k
            BY <3>1, <3>2, <3>3
        <3>5. Tail(hs)[k - 1].text = w
            BY <3>1, <3>3, <3>4
        <3> QED
            BY <3>4, <3>5 DEF Stands
    <2>2. CASE name \in DOMAIN fs /\ fs[name] = w
        <3>1. name \in DOMAIN gs /\ gs[name] = w
            BY <1>3, <2>2
        <3> QED
            BY <3>1 DEF Stands
    <2>3. CASE \E v \in AllOwn(a, ms) : v # w /\ Clash(v, w)
        BY <2>3 DEF Stands
    <2> QED
        BY <2>1, <2>2, <2>3 DEF Stands
<1> QED
    BY <1>1, <1>2, <1>3

IsCut(n) == n \in DOMAIN files /\ files[n] = CutShort

\* With -H: what is to be written is known from the images, and all that were
\* printed stand.  A file is only cut short by the failure that ends the command.
HeadInv ==
    /\ TypeInv
    /\ IsSeq(headers)
    /\ status = "ready" => headers = <<>> /\ emitted = 0
    /\ status \in {"running", "ok"} => ~Conflict(args)
    /\ emitted = 0 => headers = <<>>
    /\ emitted > 0 => todo = <<>>
    /\ (status = "ok" /\ args.diff = NoDiff) => emitted = Len(metas) /\ headers = <<>>
    /\ args.headers =>
         /\ \A n, p : IsCut(n) /\ IsCut(p) => n = p
         /\ \A n : IsCut(n) => status = "error"
         /\ \A k \in 1..Len(headers) :
              /\ headers[k].text \in AllOwn(args, metas)
              /\ headers[k].name = HeaderName(headers[k].text.kind, headers[k].text.of)
         /\ status # "error" =>
              \A i \in 1..emitted : \A w \in Own(args, metas[i]) :
                Stands(w, headers, files, args, metas)

\* The entries that have a file are tagged with a kind, so that none is the mark of
\* a file cut short.
LEMMA OwnIsTagged ==
    ASSUME NEW a, NEW ms, NEW w \in AllOwn(a, ms)
    PROVE  w.kind \in DOMAIN After /\ w # CutShort
<1>1. PICK kind \in DOMAIN After : \E e : w = [kind |-> kind, of |-> e]
    BY DEF AllOwn, Own
<1>2. w.kind = kind
    BY <1>1
<1>3. kind # "cut"
    BY DEF After
<1> QED
    BY <1>1, <1>2, <1>3 DEF CutShort

\* With -H the files of an image are those of its entries.
LEMMA EmitHeaders ==
    ASSUME HeadInv, Emit, args.headers
    PROVE  /\ emitted' = emitted + 1 /\ emitted + 1 \in 1..Len(metas)
           /\ IsSeq(headers')
           /\ \A k \in 1..Len(headers') :
                /\ headers'[k].text \in Own(args, metas[emitted + 1])
                /\ headers'[k].name = HeaderName(headers'[k].text.kind, headers'[k].text.of)
           /\ \A w \in Own(args, metas[emitted + 1]) : \E k \in 1..Len(headers') : headers'[k].text = w
<1> DEFINE m == metas[emitted + 1]
           left == KeepByMethod(args, m)
<1>1. /\ status = "running" /\ emitted < Len(metas) /\ emitted' = emitted + 1 /\ headers = <<>>
      /\ FilterMeta(args, m) = NoMeta => headers' = headers
      /\ FilterMeta(args, m) # NoMeta => headers' = HeadersOf(FilterMeta(args, m))
    BY DEF Emit, AllRead
<1>2. emitted + 1 \in 1..Len(metas)
    <2>1. Len(metas) \in Nat /\ emitted \in 0..Len(metas)
        BY SeqShape DEF HeadInv, TypeInv, MetasOK
    <2> QED
        BY <1>1, <2>1
<1>3. ~Selective(args)
    BY <1>1 DEF HeadInv, Conflict, Selective
<1>4. FilterMeta(args, m) = left
    BY <1>3 DEF FilterMeta, KeepByName
<1>5. MetaOK(left)
    <2>1. MetaOK(m)
        BY <1>2 DEF HeadInv, TypeInv, MetasOK
    <2> QED
        BY <2>1, KeepByMethodShape
<1>6. Own(args, m) =
        UNION {{[kind |-> kind, of |-> e] : e \in Range(left[kind])} : kind \in DOMAIN After}
    BY DEF Own
<1> HIDE DEF m, left
<1>7. CASE left = NoMeta
    <2>1. headers' = <<>>
        BY <1>1, <1>4, <1>7
    <2>2. IsSeq(headers') /\ Len(headers') = 0
        BY <2>1, OneShape
    <2>3. \A kind \in DOMAIN After : Range(left[kind]) = {}
        BY <1>7 DEF NoMeta, After, Range
    <2>4. Own(args, m) = {}
        BY <1>6, <2>3
    <2> QED
        BY <1>1, <1>2, <2>2, <2>4 DEF m
<1>8. CASE left # NoMeta
    <2>1. headers' = HeadersOf(left)
        BY <1>1, <1>4, <1>8
    <2>2. /\ IsSeq(headers')
          /\ Elements(headers') =
               UNION {{HeaderFile(kind, e) : e \in Range(left[kind])} : kind \in DOMAIN After}
        BY <1>5, <2>1, HeadersShape
    <2>3. ASSUME NEW k \in 1..Len(headers')
          PROVE  /\ headers'[k].text \in Own(args, m)
                 /\ headers'[k].name = HeaderName(headers'[k].text.kind, headers'[k].text.of)
        <3>1. headers'[k] \in Elements(headers')
            BY DEF Elements
        <3>a. PICK kind \in DOMAIN After :
                \E e \in Range(left[kind]) : headers'[k] = HeaderFile(kind, e)
            BY <2>2, <3>1
        <3>2. PICK e \in Range(left[kind]) : headers'[k] = HeaderFile(kind, e)
            BY <3>a
        <3>3. /\ headers'[k].text = [kind |-> kind, of |-> e]
              /\ headers'[k].name = HeaderName(kind, e)
            BY <3>2 DEF HeaderFile
        <3>4. headers'[k].text.kind = kind /\ headers'[k].text.of = e
            BY <3>3
        <3>b. [kind |-> kind, of |-> e] \in Own(args, m)
            <4> DEFINE ofKind(l) == {[kind |-> l, of |-> d] : d \in Range(left[l])}
            <4>1. [kind |-> kind, of |-> e] \in ofKind(kind)
                OBVIOUS
            <4>2. Own(args, m) = UNION {ofKind(l) : l \in DOMAIN After}
                BY <1>6
            <4> HIDE DEF ofKind
            <4> QED
                BY <4>1, <4>2
        <3>5. headers'[k].text \in Own(args, m)
            BY <3>3, <3>b
        <3>6. headers'[k].name = HeaderName(headers'[k].text.kind, headers'[k].text.of)
            BY <3>3, <3>4
        <3> QED
            BY <3>5, <3>6
    <2>4. ASSUME NEW w \in Own(args, m)
          PROVE  \E k \in 1..Len(headers') : headers'[k].text = w
        <3>a. PICK kind \in DOMAIN After :
                \E e \in Range(left[kind]) : w = [kind |-> kind, of |-> e]
            BY <1>6
        <3>1. PICK e \in Range(left[kind]) : w = [kind |-> kind, of |-> e]
            BY <3>a
        <3>2. HeaderFile(kind, e) \in Elements(headers')
            BY <2>2
        <3>3. PICK k \in 1..Len(headers') : headers'[k] = HeaderFile(kind, e)
            BY <3>2 DEF Elements
        <3>4. headers'[k].text = w
            BY <3>1, <3>3 DEF HeaderFile
        <3> QED
            BY <3>4
    <2> QED
        BY <1>1, <1>2, <2>2, <2>3, <2>4 DEF m
<1> QED
    BY <1>7, <1>8

\* The next image is taken up.
LEMMA HeadInvEmit ==
    ASSUME HeadInv, TypeInv', Emit
    PROVE  HeadInv'
<1>1. /\ status = "running" /\ todo = <<>> /\ headers = <<>> /\ args.diff = NoDiff
      /\ emitted' = emitted + 1
      /\ args' = args /\ todo' = todo /\ metas' = metas /\ files' = files /\ status' = status
    BY DEF Emit, AllRead
<1>2. emitted \in Nat /\ emitted' # 0
    <2>1. Len(metas) \in Nat /\ emitted \in 0..Len(metas)
        BY SeqShape DEF HeadInv, TypeInv, MetasOK
    <2> QED
        BY <1>1, <2>1
<1>3. CASE ~args.headers
    <2>1. IsSeq(headers')
        <3>1. headers' = headers
            BY <1>3 DEF Emit
        <3> QED
            BY <3>1 DEF HeadInv
    <2> QED
        BY <1>1, <1>2, <1>3, <2>1 DEF HeadInv
<1>4. CASE args.headers
    <2> DEFINE own == Own(args, metas[emitted + 1])
    <2>1. /\ emitted + 1 \in 1..Len(metas)
          /\ IsSeq(headers')
          /\ \A k \in 1..Len(headers') :
               /\ headers'[k].text \in own
               /\ headers'[k].name = HeaderName(headers'[k].text.kind, headers'[k].text.of)
          /\ \A w \in own : \E k \in 1..Len(headers') : headers'[k].text = w
        BY <1>4, EmitHeaders
    <2>2. own \subseteq AllOwn(args, metas)
        <3>1. emitted + 1 \in DOMAIN metas
            BY <2>1, SeqShape DEF HeadInv, TypeInv, MetasOK
        <3> HIDE DEF own
        <3>2. own = Own(args, metas[emitted + 1])
            BY DEF own
        <3> QED
            BY <3>1, <3>2 DEF AllOwn
    <2>3. ASSUME NEW i \in 1..emitted', NEW w \in Own(args, metas[i])
          PROVE  Stands(w, headers', files, args, metas)
        <3>1. CASE i = emitted + 1
            BY <2>1, <3>1 DEF Stands
        <3>2. CASE i # emitted + 1
            <4>1. i \in 1..emitted
                BY <1>1, <1>2, <3>2
            <4>2. Stands(w, headers, files, args, metas)
                BY <1>1, <1>4, <4>1 DEF HeadInv
            <4>3. ~\E k \in 1..Len(headers) : headers[k].text = w
                <5>1. Len(headers) = 0
                    BY <1>1, OneShape
                <5> QED
                    BY <5>1
            <4> QED
                BY <4>2, <4>3 DEF Stands
        <3> QED
            BY <3>1, <3>2
    <2> HIDE DEF own
    <2>4. \A k \in 1..Len(headers') :
            /\ headers'[k].text \in AllOwn(args, metas)
            /\ headers'[k].name = HeaderName(headers'[k].text.kind, headers'[k].text.of)
        BY <2>1, <2>2
    <2>5. /\ \A n, p : IsCut(n)' /\ IsCut(p)' => n = p
          /\ \A n : IsCut(n)' => status' = "error"
        BY <1>1, <1>4 DEF HeadInv, IsCut
    <2> QED
        BY <1>1, <1>2, <1>4, <2>1, <2>3, <2>4, <2>5 DEF HeadInv
<1> QED
    BY <1>3, <1>4

\* A file is written.
LEMMA HeadInvWrite ==
    ASSUME HeadInv, TypeInv', WriteHeader
    PROVE  HeadInv'
<1>1. /\ status = "running" /\ headers # <<>> /\ headers' = Tail(headers)
      /\ files' = [n \in DOMAIN files \cup {Head(headers).name} |->
                    IF n = Head(headers).name THEN Head(headers).text ELSE files[n]]
      /\ args' = args /\ todo' = todo /\ metas' = metas /\ emitted' = emitted /\ status' = status
    BY DEF WriteHeader, Put
<1>2. /\ IsSeq(headers) /\ IsSeq(headers') /\ Head(headers) = headers[1] /\ Len(headers) >= 1
      /\ Len(headers') = Len(headers) - 1 /\ Len(headers) \in Nat
      /\ \A k \in 1..Len(headers') : headers'[k] = headers[k + 1]
    BY <1>1, SeqShape, TailShape DEF HeadInv
<1>3. emitted' # 0
    BY <1>1 DEF HeadInv
<1>4. CASE ~args.headers
    BY <1>1, <1>2, <1>3, <1>4 DEF HeadInv
<1>5. CASE args.headers
    <2>1. \A k \in 1..Len(headers) :
            /\ headers[k].text \in AllOwn(args, metas)
            /\ headers[k].name = HeaderName(headers[k].text.kind, headers[k].text.of)
        BY <1>5 DEF HeadInv
    <2>2. \A k \in 1..Len(headers') : k + 1 \in 1..Len(headers)
        BY <1>2
    <2>3. \A k \in 1..Len(headers') :
            /\ headers'[k].text \in AllOwn(args, metas)
            /\ headers'[k].name = HeaderName(headers'[k].text.kind, headers'[k].text.of)
        BY <1>2, <2>1, <2>2
    <2>4. /\ headers[1].text \in AllOwn(args, metas)
          /\ headers[1].name = HeaderName(headers[1].text.kind, headers[1].text.of)
        BY <1>2, <2>1
    <2>5. headers[1].text.kind \in DOMAIN After /\ headers[1].text # CutShort
        BY <2>4, OwnIsTagged
    <2>6. \A n : ~IsCut(n)'
        BY <1>1, <1>2, <1>5, <2>5 DEF HeadInv, IsCut
    <2>7. ASSUME NEW i \in 1..emitted, NEW w \in Own(args, metas[i])
          PROVE  Stands(w, headers', files', args, metas)
        <3>1. Stands(w, headers, files, args, metas)
            BY <1>1, <1>5 DEF HeadInv
        <3>2. w \in AllOwn(args, metas)
            <4>1. Len(metas) \in Nat /\ DOMAIN metas = 1..Len(metas) /\ emitted \in 0..Len(metas)
                BY SeqShape DEF HeadInv, TypeInv, MetasOK
            <4>2. i \in DOMAIN metas
                BY <4>1
            <4> QED
                BY <4>2 DEF AllOwn
        <3>3. w.kind \in DOMAIN After
            BY <3>2, OwnIsTagged
        <3>4. files' = [n \in DOMAIN files \cup {headers[1].name} |->
                         IF n = headers[1].name THEN headers[1].text ELSE files[n]]
            BY <1>1, <1>2
        <3>5. Stands(w, Tail(headers), files', args, metas)
            BY <1>1, <1>2, <2>4, <2>5, <3>1, <3>3, <3>4, WriteKeepsOthers
        <3> QED
            BY <1>1, <3>5
    <2> QED
        BY <1>1, <1>2, <1>3, <1>5, <2>3, <2>6, <2>7 DEF HeadInv
<1> QED
    BY <1>4, <1>5

\* A file is not written, or not to its end.
LEMMA HeadInvFails ==
    ASSUME HeadInv, TypeInv', WriteFails
    PROVE  HeadInv'
<1>1. /\ status = "running" /\ status' = "error"
      /\ \/ files' = files
         \/ files' = [n \in DOMAIN files \cup {Head(headers).name} |->
                        IF n = Head(headers).name THEN CutShort ELSE files[n]]
      /\ args' = args /\ todo' = todo /\ metas' = metas /\ emitted' = emitted /\ headers' = headers
    BY DEF WriteFails, Error, Put
<1>2. args.headers => \A n : ~IsCut(n)
    BY <1>1 DEF HeadInv
<1>3. args.headers => \A n, p : IsCut(n)' /\ IsCut(p)' => n = p
    <2>1. CASE files' = files
        BY <1>2, <2>1 DEF IsCut
    <2>2. CASE files' # files
        <3>1. args.headers => \A n : IsCut(n)' => n = Head(headers).name
            BY <1>1, <1>2, <2>2 DEF IsCut
        <3> QED
            BY <3>1
    <2> QED
        BY <2>1, <2>2
<1> QED
    BY <1>1, <1>3 DEF HeadInv

\* The steps of the command keep HeadInv.
LEMMA HeadInvStep ==
    ASSUME HeadInv, [Next]_vars
    PROVE  HeadInv'
<1>0. TypeInv /\ TypeInv'
    BY TypeInvStep DEF HeadInv
<1>a. Len(metas) \in Nat /\ emitted \in 0..Len(metas) /\ IsSeq(headers)
    BY <1>0, SeqShape DEF HeadInv, TypeInv, MetasOK
<1>1. CASE Start
    <2>1. /\ status = "ready" /\ headers = <<>> /\ emitted = 0
          /\ headers' = headers /\ emitted' = emitted
          /\ args' = args /\ metas' = metas /\ files' = files
        BY <1>1 DEF Start, HeadInv
    <2>2. status' = "error" \/ (status' = "running" /\ ~Conflict(args'))
        BY <1>1 DEF Start, Error, Conflict, Given
    <2>3. Len(headers') = 0 /\ IsSeq(headers')
        BY <2>1, OneShape
    <2>4. args.headers => \A n : ~IsCut(n)'
        BY <2>1 DEF HeadInv, IsCut
    <2>5. (\A k \in 1..Len(headers') : FALSE) /\ \A i \in 1..emitted' : FALSE
        BY <2>1, <2>3
    <2> QED
        BY <1>0, <2>1, <2>2, <2>3, <2>4, <2>5 DEF HeadInv
<1>2. CASE Read
    BY <1>0, <1>2 DEF Read, cliVars, HeadInv, IsCut, Conflict, Given
<1>3. CASE WasRead \/ (CouldNotBeRead /\ ~Head(todo).must)
    <2>1. /\ status = "running" /\ todo # <<>> /\ status' = status
          /\ args' = args /\ emitted' = emitted /\ headers' = headers /\ files' = files
        BY <1>3 DEF WasRead, CouldNotBeRead, Reading
    <2>2. emitted = 0 /\ headers = <<>>
        BY <1>a, <2>1 DEF HeadInv
    <2>3. Len(headers') = 0
        BY <2>1, <2>2, OneShape
    <2>4. (\A k \in 1..Len(headers') : FALSE) /\ \A i \in 1..emitted' : FALSE
        BY <2>1, <2>2, <2>3
    <2>5. args.headers => \A n : ~IsCut(n)'
        BY <2>1 DEF HeadInv, IsCut
    <2>6. ~Conflict(args')
        BY <2>1 DEF HeadInv
    <2> QED
        BY <1>0, <1>a, <2>1, <2>2, <2>4, <2>5, <2>6 DEF HeadInv
<1>4. CASE CouldNotBeRead /\ Head(todo).must
    <2>1. /\ status' = "error" /\ todo' = todo
          /\ UNCHANGED <<args, metas, emitted, headers, files, printed>>
        BY <1>4 DEF CouldNotBeRead, Error
    <2> QED
        BY <1>0, <2>1 DEF HeadInv, IsCut
<1>5. CASE PrintDiff
    <2>1. /\ status = "running" /\ status' = "ok" /\ args.diff # NoDiff
          /\ UNCHANGED <<args, todo, metas, emitted, headers, files>>
        BY <1>5 DEF PrintDiff, AllRead
    <2> QED
        BY <1>0, <2>1 DEF HeadInv, IsCut, Conflict, Given
<1>6. CASE Emit
    BY <1>0, <1>6, HeadInvEmit
<1>7. CASE WriteHeader
    BY <1>0, <1>7, HeadInvWrite
<1>8. CASE WriteFails
    BY <1>0, <1>8, HeadInvFails
<1>9. CASE Finish
    <2>1. /\ status = "running" /\ status' = "ok" /\ emitted = Len(metas) /\ headers = <<>>
          /\ UNCHANGED <<args, todo, metas, emitted, headers, files>>
        BY <1>9 DEF Finish, AllRead
    <2> QED
        BY <1>0, <2>1 DEF HeadInv, IsCut, Conflict, Given
<1>10. CASE UNCHANGED vars
    BY <1>0, <1>10 DEF vars, cliVars, HeadInv, IsCut, Conflict, Given
<1> QED
    BY <1>1, <1>2, <1>3, <1>4, <1>5, <1>6, <1>7, <1>8, <1>9, <1>10 DEF Next

\* Nothing is printed or written when the command starts.
LEMMA HeadInvInit == Init => HeadInv
<1> SUFFICES ASSUME Init
             PROVE  HeadInv
    OBVIOUS
<1>1. IsSeq(headers) /\ Len(headers) = 0 /\ emitted = 0 /\ status = "ready" /\ files \in OldFiles
    BY OneShape DEF Init
<1>2. \A n : ~IsCut(n)
    BY <1>1, OldFilesAssumption DEF IsCut
<1>3. (\A k \in 1..Len(headers) : FALSE) /\ \A i \in 1..emitted : FALSE
    BY <1>1
<1> QED
    BY <1>1, <1>2, <1>3, TypeInvInit DEF Init, HeadInv

\* Whatever the names are made into, with -H each entry whose file has a name of its
\* own has it in the end, and a failure cuts short one file at most.
THEOREM HeadersAreAlwaysOwn == Spec => []HeadersAreOwn
<1>1. Init => HeadInv
    BY HeadInvInit
<1>2. HeadInv => HeadersAreOwn
    <2> SUFFICES ASSUME HeadInv, args.headers
                 PROVE  LET cut == {n \in DOMAIN files : files[n] = CutShort}
                        IN  /\ (\A n, p \in cut : n = p) /\ (cut # {} => status = "error")
                            /\ status = "ok" =>
                                 \A w \in Headed : (\A v \in Headed : v = w \/ ~Clash(v, w)) =>
                                     w \in Range(files)
        BY DEF HeadersAreOwn
    <2> DEFINE cut == {n \in DOMAIN files : files[n] = CutShort}
    <2>1. \A n \in cut : IsCut(n)
        BY DEF IsCut
    <2>2. (\A n, p \in cut : n = p) /\ (cut # {} => status = "error")
        <3> HIDE DEF cut
        <3> QED
            BY <2>1 DEF HeadInv
    <2>3. ASSUME status = "ok", NEW w \in Headed, \A v \in Headed : v = w \/ ~Clash(v, w)
          PROVE  w \in Range(files)
        <3>1. args.diff = NoDiff
            BY <2>3 DEF HeadInv, Conflict
        <3>2. emitted = Len(metas) /\ headers = <<>>
            BY <2>3, <3>1 DEF HeadInv
        <3>3. Headed = AllOwn(args, metas)
            BY DEF Headed, HeadedOf, AllOwn, Own
        <3>4. PICK i \in DOMAIN metas : w \in Own(args, metas[i])
            BY <3>3 DEF AllOwn
        <3>5. i \in 1..emitted
            BY <3>2, SeqShape DEF HeadInv, TypeInv, MetasOK
        <3>6. Stands(w, headers, files, args, metas)
            BY <2>3, <3>4, <3>5 DEF HeadInv
        <3>7. Len(headers) = 0
            BY <3>2, OneShape
        <3>8. ~\E k \in 1..Len(headers) : headers[k].text = w
            BY <3>7
        <3>9. /\ HeaderName(w.kind, w.of) \in DOMAIN files
              /\ files[HeaderName(w.kind, w.of)] = w
            BY <2>3, <3>3, <3>6, <3>8 DEF Stands
        <3> QED
            BY <3>9 DEF Range
    <2> QED
        BY <2>2, <2>3
<1> QED
    BY <1>1, <1>2, HeadInvStep, PTL DEF Spec

\* A set of numbers that is not empty has a least one.
LEMMA LeastIsThere ==
    ASSUME NEW S \in SUBSET Nat, S # {}
    PROVE  \E x \in S : \A y \in S : x <= y
<1> DEFINE R == OpToRel(<, Nat)
<1>1. IsWellFoundedOn(R, Nat)
    BY NatLessThanWellFounded
<1>2. \A x, y \in Nat : x < y => <<x, y>> \in R
    BY DEF OpToRel
<1> HIDE DEF R
<1>3. PICK x \in S : \A y \in S : ~(<<y, x>> \in R)
    BY <1>1, WFMin
<1>4. \A y \in S : ~(y < x)
    BY <1>2, <1>3
<1> QED
    BY <1>3, <1>4

\* Induction, for a set of numbers.
LEMMA AllNumbers ==
    ASSUME NEW S \in SUBSET Nat, 0 \in S, \A n \in S : n + 1 \in S
    PROVE  \A n \in Nat : n \in S
<1> DEFINE rest == Nat \ S
<1> SUFFICES ASSUME rest # {} PROVE FALSE
    OBVIOUS
<1>1. PICK m \in rest : \A y \in rest : m <= y
  <2>1. rest \in SUBSET Nat
      OBVIOUS
  <2> HIDE DEF rest
  <2> QED
      BY <2>1, LeastIsThere
<1>2. m \in Nat \ {0}
    OBVIOUS
<1>3. m - 1 \in S
    BY <1>1, <1>2
<1>4. (m - 1) + 1 \in S /\ (m - 1) + 1 = m
    BY <1>2, <1>3
<1> QED
    BY <1>1, <1>4

\* A function that is given step by step: the results for the places from 0 to n.
Stepwise(f, base, Step, n) ==
    f = [k \in 0..n |-> IF k = 0 THEN base ELSE Step[<<f[k - 1], k>>]]

\* There is one, of which every result is where the step before it leads.
LEMMA StepsAreThere ==
    ASSUME NEW n \in Nat, NEW T, NEW base \in T[0], NEW Step,
           \A k \in 1..n : \A s \in T[k - 1] : Step[<<s, k>>] \in T[k]
    PROVE  \E f : Stepwise(f, base, Step, n) /\ \A k \in 0..n : f[k] \in T[k]
<1> DEFINE N == {m \in Nat : m <= n => \E f : Stepwise(f, base, Step, m) /\ \A k \in 0..m : f[k] \in T[k]}
<1>1. 0 \in N
  <2> DEFINE f == [k \in 0..0 |-> base]
  <2>1. \A k \in 0..0 : k = 0
      OBVIOUS
  <2>2. f = [k \in 0..0 |-> IF k = 0 THEN base ELSE Step[<<f[k - 1], k>>]]
      BY <2>1
  <2>3. \A k \in 0..0 : f[k] \in T[k]
      OBVIOUS
  <2> HIDE DEF f
  <2>4. Stepwise(f, base, Step, 0)
      BY <2>2 DEF Stepwise
  <2> QED
      BY <2>3, <2>4
<1>2. ASSUME NEW m \in N
      PROVE  m + 1 \in N
  <2> SUFFICES ASSUME m + 1 <= n
               PROVE  \E f : Stepwise(f, base, Step, m + 1) /\ \A k \in 0..(m + 1) : f[k] \in T[k]
      OBVIOUS
  <2>1. m \in Nat /\ m + 1 \in 1..n
      OBVIOUS
  <2>2. PICK f : Stepwise(f, base, Step, m) /\ \A k \in 0..m : f[k] \in T[k]
      BY <2>1
  <2> DEFINE g == [k \in 0..(m + 1) |-> IF k = m + 1 THEN Step[<<f[m], m + 1>>] ELSE f[k]]
             h == [k \in 0..(m + 1) |-> IF k = 0 THEN base ELSE Step[<<g[k - 1], k>>]]
  <2>3. ASSUME NEW k \in 0..(m + 1)
        PROVE  g[k] = h[k]
    <3>1. CASE k = m + 1
      <4>1. k # 0 /\ k - 1 = m /\ m \in 0..(m + 1) /\ m # m + 1
          BY <2>1, <3>1
      <4>2. g[k - 1] = f[m]
          BY <4>1
      <4> QED
          BY <3>1, <4>1, <4>2
    <3>2. CASE k # m + 1
      <4>1. k \in 0..m /\ (k # 0 => k - 1 \in 0..(m + 1) /\ k - 1 # m + 1)
          BY <2>1, <3>2
      <4>2. f[k] = IF k = 0 THEN base ELSE Step[<<f[k - 1], k>>]
          BY <2>2, <4>1 DEF Stepwise
      <4>3. k # 0 => g[k - 1] = f[k - 1]
          BY <4>1
      <4> QED
          BY <3>2, <4>2, <4>3
    <3> QED
        BY <3>1, <3>2
  <2>4. g = h
    <3>1. g = [k \in 0..(m + 1) |-> g[k]] /\ h = [k \in 0..(m + 1) |-> h[k]]
        OBVIOUS
    <3> HIDE DEF g, h
    <3> QED
        BY <2>3, <3>1
  <2>5. Stepwise(g, base, Step, m + 1)
      BY <2>4 DEF Stepwise
  <2>6. ASSUME NEW k \in 0..(m + 1)
        PROVE  g[k] \in T[k]
    <3>1. CASE k = m + 1
      <4>1. f[m] \in T[(m + 1) - 1] /\ m + 1 \in 1..n
        <5>1. f[m] \in T[m] /\ (m + 1) - 1 = m
            BY <2>1, <2>2
        <5> QED
            BY <2>1, <5>1
      <4> QED
          BY <2>1, <3>1, <4>1
    <3>2. CASE k # m + 1
      <4>1. k \in 0..m
          BY <2>1, <3>2
      <4> QED
          BY <2>2, <3>2, <4>1
    <3> QED
        BY <3>1, <3>2
  <2> HIDE DEF g
  <2> QED
      BY <2>5, <2>6
<1>3. N \in SUBSET Nat
    OBVIOUS
<1> HIDE DEF N
<1>4. n \in N
    BY <1>1, <1>2, <1>3, AllNumbers
<1> QED
    BY <1>4 DEF N

\* The place that a position has among some.
RankIn(ks, k) == Cardinality({j \in ks : j < k}) + 1

\* The entries at some positions are as many as those, each at its place.
LEMMA EntriesAtRanks ==
    ASSUME NEW es, NEW n \in Int, NEW ks \in SUBSET (1..n)
    PROVE  /\ IsSeq(EntriesAt(es, ks))
           /\ Range(EntriesAt(es, ks)) = {es[k] : k \in ks}
           /\ IsFiniteSet(ks)
           /\ Cardinality(ks) \in Nat
           /\ Len(EntriesAt(es, ks)) = Cardinality(ks)
           /\ \A k \in ks : /\ RankIn(ks, k) \in 1..Cardinality(ks)
                           /\ EntriesAt(es, ks)[RankIn(ks, k)] = es[k]
           /\ \A i \in 1..Cardinality(ks) : \E k \in ks : RankIn(ks, k) = i
<1> DEFINE c == Cardinality(ks)
           below(k) == {j \in ks : j < k}
           rank == [k \in ks |-> Cardinality(below(k)) + 1]
           nth(m) == CHOOSE k \in ks : Cardinality(below(k)) = m - 1
           at == EntriesAt(es, ks)
<1>1. IsFiniteSet(ks) /\ c \in Nat
  <2>1. IsFiniteSet(1..n)
      BY FS_Interval
  <2>2. IsFiniteSet(ks)
      BY <2>1, FS_Subset
  <2> QED
      BY <2>2, FS_CardinalityType
<1>2. ASSUME NEW k \in ks
      PROVE  IsFiniteSet(below(k)) /\ Cardinality(below(k)) \in Nat /\ Cardinality(below(k)) < c
  <2>1. below(k) \in SUBSET ks /\ k \notin below(k)
      OBVIOUS
  <2> HIDE DEF below
  <2>2. IsFiniteSet(below(k)) /\ Cardinality(below(k)) <= c /\ (c = Cardinality(below(k)) => ks = below(k))
      BY <1>1, <2>1, FS_Subset
  <2>3. Cardinality(below(k)) \in Nat
      BY <2>2, FS_CardinalityType
  <2> QED
      BY <1>1, <2>1, <2>2, <2>3
<1>3. ASSUME NEW j \in ks, NEW k \in ks, j < k
      PROVE  Cardinality(below(j)) < Cardinality(below(k))
  <2>0. \A i \in ks : i \in Int
      OBVIOUS
  <2>a. j \in Int /\ k \in Int /\ ~(j < j)
      BY <2>0
  <2>b. \A i \in ks : i < j => i < k
      BY <1>3, <2>0, <2>a
  <2>1. below(j) \in SUBSET below(k) /\ j \in below(k) /\ j \notin below(j)
      BY <1>3, <2>a, <2>b
  <2>2. /\ IsFiniteSet(below(k)) /\ Cardinality(below(k)) \in Nat
        /\ IsFiniteSet(below(j)) /\ Cardinality(below(j)) \in Nat
      BY <1>2
  <2> HIDE DEF below
  <2>3. Cardinality(below(j)) <= Cardinality(below(k))
        /\ (Cardinality(below(k)) = Cardinality(below(j)) => below(k) = below(j))
      BY <2>1, <2>2, FS_Subset
  <2> QED
      BY <2>1, <2>2, <2>3
<1>4. rank \in Injection(ks, 1..c)
  <2>1. \A k \in ks : rank[k] \in 1..c
      BY <1>1, <1>2
  <2>2. \A j, k \in ks : rank[j] = rank[k] => j = k
    <3> SUFFICES ASSUME NEW j \in ks, NEW k \in ks, rank[j] = rank[k]
                 PROVE  j = k
        OBVIOUS
    <3>1. Cardinality(below(j)) = Cardinality(below(k))
        BY <1>2
    <3>2. ~(j < k) /\ ~(k < j)
        BY <1>2, <1>3, <3>1
    <3> QED
        BY <3>2
  <2> HIDE DEF rank
  <2>3. rank \in [ks -> 1..c]
      BY <2>1 DEF rank
  <2> QED
      BY <2>2, <2>3 DEF Injection, IsInjective
<1>5. rank \in Surjection(ks, 1..c)
  <2>1. IsFiniteSet(1..c) /\ Cardinality(1..c) = c
      BY <1>1, FS_Interval
  <2> HIDE DEF rank
  <2> QED
      BY <1>4, <2>1, FS_Injection
<1>6. ASSUME NEW m \in 1..c
      PROVE  nth(m) \in ks /\ rank[nth(m)] = m
  <2>1. \E k \in ks : rank[k] = m
    <3> HIDE DEF rank
    <3> QED
        BY <1>5 DEF Surjection
  <2>2. PICK k \in ks : Cardinality(below(k)) + 1 = m
      BY <2>1
  <2>3. Cardinality(below(k)) = m - 1
      BY <1>2, <2>2
  <2>4. nth(m) \in ks /\ Cardinality(below(nth(m))) = m - 1
      BY <2>3
  <2> QED
      BY <2>4
<1>7. \A k \in ks : rank[k] \in 1..c /\ nth(rank[k]) = k
  <2> SUFFICES ASSUME NEW k \in ks
               PROVE  rank[k] \in 1..c /\ nth(rank[k]) = k
      OBVIOUS
  <2>1. rank[k] \in 1..c
    <3> HIDE DEF rank
    <3> QED
        BY <1>4 DEF Injection
  <2>2. nth(rank[k]) \in ks /\ rank[nth(rank[k])] = rank[k]
      BY <1>6, <2>1
  <2> HIDE DEF rank, nth
  <2> QED
      BY <1>4, <2>1, <2>2 DEF Injection, IsInjective
<1>8. at = [m \in 1..c |-> es[nth(m)]]
    BY DEF EntriesAt
<1>12. \A k \in ks : RankIn(ks, k) = rank[k]
    BY DEF RankIn
<1> HIDE DEF rank, nth, at, c
<1>9. DOMAIN at = 1..c /\ at = [m \in 1..c |-> at[m]] /\ \A m \in 1..c : at[m] = es[nth(m)]
    BY <1>8
<1>10. IsSeq(at) /\ Len(at) = c
    BY <1>1, <1>9, FunctionShape
<1>11. Range(at) = {es[k] : k \in ks}
  <2>1. \A m \in 1..c : at[m] \in {es[k] : k \in ks}
      BY <1>6, <1>9
  <2>2. \A k \in ks : \E m \in 1..c : at[m] = es[k]
      BY <1>7, <1>9
  <2> QED
      BY <1>9, <2>1, <2>2 DEF Range
<1>13. \A k \in ks : RankIn(ks, k) \in 1..c /\ at[RankIn(ks, k)] = es[k]
    BY <1>7, <1>9, <1>12
<1>14. \A i \in 1..c : \E k \in ks : RankIn(ks, k) = i
    BY <1>6, <1>12
<1> QED
    BY <1>1, <1>10, <1>11, <1>13, <1>14 DEF at, c

\* The same, without the places.
LEMMA EntriesAtShape ==
    ASSUME NEW es, NEW n \in Int, NEW ks \in SUBSET (1..n)
    PROVE  /\ IsSeq(EntriesAt(es, ks))
           /\ Range(EntriesAt(es, ks)) = {es[k] : k \in ks}
           /\ IsFiniteSet(ks)
           /\ Cardinality(ks) \in Nat
           /\ Len(EntriesAt(es, ks)) = Cardinality(ks)
BY EntriesAtRanks

\* The positions 1 to n are each in their order, whatever it is.
LEMMA InOrderShape ==
    ASSUME NEW n \in Nat, NEW before
    PROVE  InOrder(n, before) \in Surjection(1..n, 1..n)
<1> DEFINE place(out, k) == Cardinality({j \in 1..(k - 1) : <<k, out[j]>> \notin before}) + 1
           put(out, k) == [j \in 1..k |-> IF j < place(out, k) THEN out[j]
                                          ELSE IF j = place(out, k) THEN k ELSE out[j - 1]]
           T == [k \in 0..n |-> Surjection(1..k, 1..k)]
           all == UNION {T[k] : k \in 0..n}
           Step == [p \in all \X (1..n) |-> put(p[1], p[2])]
           Is(f) == f = [k \in 0..n |-> IF k = 0 THEN <<>> ELSE put(f[k - 1], k)]
           sorted == CHOOSE f : Is(f)
<1>1. InOrder(n, before) = sorted[n]
    BY DEF InOrder
<1>2. ASSUME NEW k \in 1..n, NEW out \in Surjection(1..(k - 1), 1..(k - 1))
      PROVE  put(out, k) \in Surjection(1..k, 1..k)
  <2> DEFINE p == place(out, k)
             g == put(out, k)
  <2>1. p \in 1..k
    <3> DEFINE after == {j \in 1..(k - 1) : <<k, out[j]>> \notin before}
    <3>1. IsFiniteSet(1..(k - 1)) /\ Cardinality(1..(k - 1)) = k - 1
        BY FS_Interval
    <3>2. after \in SUBSET (1..(k - 1))
        OBVIOUS
    <3> HIDE DEF after
    <3>3. IsFiniteSet(after) /\ Cardinality(after) <= k - 1
        BY <3>1, <3>2, FS_Subset
    <3>4. Cardinality(after) \in Nat
        BY <3>3, FS_CardinalityType
    <3>5. p = Cardinality(after) + 1
        BY DEF after
    <3> HIDE DEF p
    <3> QED
        BY <3>3, <3>4, <3>5
  <2>2. g = [j \in 1..k |-> IF j < p THEN out[j] ELSE IF j = p THEN k ELSE out[j - 1]]
      OBVIOUS
  <2>3. out \in [1..(k - 1) -> 1..(k - 1)] /\ \A v \in 1..(k - 1) : \E i \in 1..(k - 1) : out[i] = v
      BY DEF Surjection
  <2> HIDE DEF p, g, place, put
  <2>4. ASSUME NEW j \in 1..k
        PROVE  g[j] \in 1..k
    <3>1. CASE j < p
      <4>1. j \in 1..(k - 1)
          BY <2>1, <3>1
      <4>2. out[j] \in 1..(k - 1)
          BY <2>3, <4>1
      <4> QED
          BY <2>2, <3>1, <4>2
    <3>2. CASE j = p
        BY <2>1, <2>2, <3>2
    <3>3. CASE j > p
      <4>1. j - 1 \in 1..(k - 1)
          BY <2>1, <3>3
      <4>2. out[j - 1] \in 1..(k - 1)
          BY <2>3, <4>1
      <4>3. g[j] = out[j - 1]
          BY <2>1, <2>2, <3>3
      <4> QED
          BY <4>2, <4>3
    <3> QED
        BY <2>1, <3>1, <3>2, <3>3
  <2>5. ASSUME NEW v \in 1..k
        PROVE  \E j \in 1..k : g[j] = v
    <3>1. CASE v = k
        BY <2>1, <2>2, <3>1
    <3>2. CASE v # k
      <4>1. v \in 1..(k - 1)
          BY <3>2
      <4>2. PICK i \in 1..(k - 1) : out[i] = v
          BY <2>3, <4>1
      <4>3. CASE i < p
        <5>1. i \in 1..k
            OBVIOUS
        <5> QED
            BY <2>2, <4>2, <4>3, <5>1
      <4>4. CASE ~(i < p)
        <5>1. i + 1 \in 1..k /\ ~(i + 1 < p) /\ i + 1 # p /\ (i + 1) - 1 = i
            BY <2>1, <4>4
        <5> QED
            BY <2>2, <4>2, <5>1
      <4> QED
          BY <4>3, <4>4
    <3> QED
        BY <3>1, <3>2
  <2>6. g \in [1..k -> 1..k]
      BY <2>2, <2>4
  <2>7. g \in Surjection(1..k, 1..k)
      BY <2>5, <2>6 DEF Surjection
  <2> QED
      BY <2>7 DEF g
<1> HIDE DEF place, put
<1>3. <<>> \in T[0]
  <2>1. 1..0 = {} /\ 0 \in 0..n
      OBVIOUS
  <2>2. <<>> \in [{} -> {}]
      OBVIOUS
  <2>3. <<>> \in Surjection({}, {})
      BY <2>2 DEF Surjection
  <2> QED
      BY <2>1, <2>3
<1>4. ASSUME NEW k \in 1..n, NEW s \in T[k - 1]
      PROVE  Step[<<s, k>>] = put(s, k) /\ put(s, k) \in T[k]
  <2>1. k - 1 \in 0..n /\ k \in 0..n
      OBVIOUS
  <2>2. s \in Surjection(1..(k - 1), 1..(k - 1)) /\ s \in all
      BY <2>1
  <2>3. put(s, k) \in T[k]
      BY <1>2, <2>1, <2>2
  <2>4. <<s, k>> \in all \X (1..n)
      BY <2>2
  <2> HIDE DEF all, T
  <2>5. Step[<<s, k>>] = put(s, k)
      BY <2>4
  <2> QED
      BY <2>3, <2>5
<1>5. T[n] = Surjection(1..n, 1..n)
    OBVIOUS
<1> HIDE DEF T, all, Step
<1>6. \A k \in 1..n : \A s \in T[k - 1] : Step[<<s, k>>] \in T[k]
    BY <1>4
<1>7. PICK f : Stepwise(f, <<>>, Step, n) /\ \A k \in 0..n : f[k] \in T[k]
    BY <1>3, <1>6, StepsAreThere
<1>8. Is(f)
  <2>1. ASSUME NEW k \in 0..n
        PROVE  (IF k = 0 THEN <<>> ELSE Step[<<f[k - 1], k>>]) = (IF k = 0 THEN <<>> ELSE put(f[k - 1], k))
    <3>1. CASE k # 0
      <4>1. k \in 1..n /\ k - 1 \in 0..n
          BY <3>1
      <4>2. f[k - 1] \in T[k - 1]
          BY <1>7, <4>1
      <4> QED
          BY <1>4, <4>1, <4>2
    <3> QED
        BY <3>1
  <2>2. f = [k \in 0..n |-> IF k = 0 THEN <<>> ELSE Step[<<f[k - 1], k>>]]
      BY <1>7 DEF Stepwise
  <2> QED
      BY <2>1, <2>2
<1>9. Is(sorted)
    BY <1>8
<1>10. sorted[n] \in T[n]
  <2> HIDE DEF sorted
  <2> DEFINE N == {k \in Nat : k <= n => sorted[k] \in T[k]}
  <2>1. 0 \in N
    <3>1. sorted[0] = <<>>
        BY <1>9
    <3> QED
        BY <1>3, <3>1
  <2>2. ASSUME NEW k \in N
        PROVE  k + 1 \in N
    <3> SUFFICES ASSUME k + 1 <= n
                 PROVE  sorted[k + 1] \in T[k + 1]
        OBVIOUS
    <3>1. k \in Nat /\ k + 1 \in 1..n /\ k + 1 \in 0..n /\ (k + 1) - 1 = k /\ k + 1 # 0
        OBVIOUS
    <3>2. sorted[k + 1] = put(sorted[(k + 1) - 1], k + 1)
        BY <1>9, <3>1
    <3>3. sorted[k] \in T[(k + 1) - 1]
        BY <3>1
    <3>4. put(sorted[k], k + 1) \in T[k + 1]
        BY <1>4, <3>1, <3>3
    <3> QED
        BY <3>1, <3>2, <3>4
  <2>3. N \in SUBSET Nat
      OBVIOUS
  <2> HIDE DEF N
  <2>4. n \in N
      BY <2>1, <2>2, <2>3, AllNumbers
  <2> QED
      BY <2>4 DEF N
<1> QED
    BY <1>1, <1>5, <1>10

\* Putting a list in such an order loses nothing and adds nothing.
LEMMA ReorderedShape ==
    ASSUME NEW es, IsSeq(es), NEW before
    PROVE  /\ IsSeq([k \in DOMAIN es |-> es[InOrder(Len(es), before)[k]]])
           /\ Range([k \in DOMAIN es |-> es[InOrder(Len(es), before)[k]]]) = Range(es)
<1> DEFINE order == InOrder(Len(es), before)
           s == [k \in DOMAIN es |-> es[order[k]]]
<1>1. Len(es) \in Nat /\ DOMAIN es = 1..Len(es)
    BY SeqShape
<1>2. order \in Surjection(1..Len(es), 1..Len(es))
    BY <1>1, InOrderShape
<1> HIDE DEF order
<1>3. DOMAIN s = 1..Len(es) /\ s = [k \in 1..Len(es) |-> s[k]] /\ \A k \in DOMAIN es : s[k] = es[order[k]]
    BY <1>1
<1> HIDE DEF s
<1>4. IsSeq(s)
    BY <1>1, <1>3, FunctionShape
<1>5. \A k \in DOMAIN es : order[k] \in DOMAIN es
    BY <1>1, <1>2 DEF Surjection
<1>6. \A j \in DOMAIN es : \E k \in DOMAIN es : order[k] = j
    BY <1>1, <1>2 DEF Surjection
<1>7. Range(s) = Range(es)
    BY <1>1, <1>3, <1>5, <1>6 DEF Range
<1> QED
    BY <1>4, <1>7 DEF s, order

\* Sorting by name neither loses an entry nor adds one.
LEMMA SortedByNameShape ==
    ASSUME NEW es, IsSeq(es)
    PROVE  IsSeq(SortedBy(es, ByName)) /\ Range(SortedBy(es, ByName)) = Range(es)
<1> DEFINE before == {p \in (DOMAIN es) \X (DOMAIN es) : ByName(es[p[1]], es[p[2]])}
<1>1. SortedBy(es, ByName) = [k \in DOMAIN es |-> es[InOrder(Len(es), before)[k]]]
    BY DEF SortedBy
<1> HIDE DEF before
<1> QED
    BY <1>1, ReorderedShape

\* Sorting by class and name neither loses an entry nor adds one.
LEMMA SortedByClassShape ==
    ASSUME NEW es, IsSeq(es)
    PROVE  IsSeq(SortedBy(es, ByClassAndName)) /\ Range(SortedBy(es, ByClassAndName)) = Range(es)
<1> DEFINE before == {p \in (DOMAIN es) \X (DOMAIN es) : ByClassAndName(es[p[1]], es[p[2]])}
<1>1. SortedBy(es, ByClassAndName) = [k \in DOMAIN es |-> es[InOrder(Len(es), before)[k]]]
    BY DEF SortedBy
<1> HIDE DEF before
<1> QED
    BY <1>1, ReorderedShape

\* The case of steps that all stay in one set.
LEMMA StepsStay ==
    ASSUME NEW n \in Nat, NEW S, NEW base \in S, NEW Step,
           \A s \in S, k \in 1..n : Step[<<s, k>>] \in S
    PROVE  \E f : Stepwise(f, base, Step, n) /\ \A k \in 0..n : f[k] \in S
<1> DEFINE T == [k \in 0..n |-> S]
<1>1. \A k \in 0..n : T[k] = S
    OBVIOUS
<1>2. base \in T[0] /\ \A k \in 1..n : \A s \in T[k - 1] : Step[<<s, k>>] \in T[k]
  <2>1. \A k \in 1..n : k - 1 \in 0..n /\ k \in 0..n
      OBVIOUS
  <2> HIDE DEF T
  <2> QED
      BY <1>1, <2>1
<1> HIDE DEF T
<1>3. PICK f : Stepwise(f, base, Step, n) /\ \A k \in 0..n : f[k] \in T[k]
    BY <1>2, StepsAreThere
<1> QED
    BY <1>1, <1>3

\* Sorting by inheritance loses no class and adds none.
LEMMA ByInheritanceShape ==
    ASSUME NEW classes, IsSeq(classes)
    PROVE  IsSeq(ByInheritance(classes)) /\ Range(ByInheritance(classes)) = Range(classes)
<1> DEFINE cs == SortedBy(classes, ByName)
           n == Len(cs)
           named(ks, name) == \E k \in ks : cs[k].name = name
           ready(out, super) == \/ super \in {Nothing, NSObject}
                                \/ named(Range(out), super)
                                \/ ~named(DOMAIN cs \ Range(out), super)
           take(out, k) == IF k \in Range(out) \/ ~ready(out, cs[k].superclass) THEN out
                           ELSE Append(out, k)
           IsUp(f, out) == f = [k \in 0..n |-> IF k = 0 THEN out ELSE take(f[k - 1], k)]
           pass(out) == (CHOOSE f : IsUp(f, out))[n]
           IsTaken(f) == f = [k \in 0..n |-> IF k = 0 THEN <<>> ELSE pass(f[k - 1])]
           listed == (CHOOSE f : IsTaken(f))[n]
           first == [k \in DOMAIN listed |-> cs[listed[k]]]
           rest == EntriesAt(cs, DOMAIN cs \ Range(listed))
           S == Seq(1..n)
<1>1. ByInheritance(classes) = first \o rest
    BY DEF ByInheritance
<1>2. IsSeq(cs) /\ Range(cs) = Range(classes)
    BY SortedByNameShape
<1> HIDE DEF cs
<1>3. n \in Nat /\ DOMAIN cs = 1..n
    BY <1>2, SeqShape
<1>4. ASSUME NEW out \in S, NEW k \in 1..n
      PROVE  take(out, k) \in S
  <2>1. take(out, k) \in {out, Append(out, k)}
    <3> HIDE DEF ready
    <3> QED
        OBVIOUS
  <2> HIDE DEF take
  <2>2. Append(out, k) \in S
      OBVIOUS
  <2> QED
      BY <2>1, <2>2
<1> HIDE DEF take, ready, named, n
<1>5. ASSUME NEW out \in S
      PROVE  pass(out) \in S
  <2> DEFINE Step == [p \in S \X (1..n) |-> take(p[1], p[2])]
             g == CHOOSE f : IsUp(f, out)
  <2>1. ASSUME NEW s \in S, NEW k \in 1..n
        PROVE  Step[<<s, k>>] = take(s, k) /\ take(s, k) \in S
    <3>1. <<s, k>> \in S \X (1..n)
        OBVIOUS
    <3> HIDE DEF S
    <3>2. Step[<<s, k>>] = take(s, k)
        BY <3>1
    <3> QED
        BY <1>4, <3>2 DEF S
  <2> HIDE DEF Step, S
  <2>2. \A s \in S, k \in 1..n : Step[<<s, k>>] \in S
      BY <2>1
  <2>3. PICK f : Stepwise(f, out, Step, n) /\ \A k \in 0..n : f[k] \in S
      BY <1>3, <2>2, StepsStay
  <2>4. IsUp(f, out)
    <3>1. ASSUME NEW k \in 0..n
          PROVE  (IF k = 0 THEN out ELSE Step[<<f[k - 1], k>>]) = (IF k = 0 THEN out ELSE take(f[k - 1], k))
      <4>1. CASE k # 0
        <5>1. k \in 1..n /\ k - 1 \in 0..n
            BY <1>3, <4>1
        <5>2. f[k - 1] \in S
            BY <2>3, <5>1
        <5> QED
            BY <2>1, <5>1, <5>2
      <4> QED
          BY <4>1
    <3>2. f = [k \in 0..n |-> IF k = 0 THEN out ELSE Step[<<f[k - 1], k>>]]
        BY <2>3 DEF Stepwise
    <3> QED
        BY <3>1, <3>2
  <2>5. IsUp(g, out)
      BY <2>4
  <2> HIDE DEF g
  <2> DEFINE N == {k \in Nat : k <= n => g[k] \in S}
  <2>6. 0 \in N
    <3>1. g[0] = out
        BY <1>3, <2>5
    <3> QED
        BY <3>1
  <2>7. ASSUME NEW k \in N
        PROVE  k + 1 \in N
    <3> SUFFICES ASSUME k + 1 <= n
                 PROVE  g[k + 1] \in S
        OBVIOUS
    <3>1. k \in Nat /\ k + 1 \in 1..n /\ k + 1 \in 0..n /\ (k + 1) - 1 = k /\ k + 1 # 0
        BY <1>3
    <3>2. g[k + 1] = take(g[(k + 1) - 1], k + 1)
        BY <2>5, <3>1
    <3>3. g[k] \in S
        BY <1>3, <3>1
    <3>4. take(g[k], k + 1) \in S
        BY <2>1, <3>1, <3>3
    <3> QED
        BY <3>1, <3>2, <3>4
  <2>8. N \in SUBSET Nat
      OBVIOUS
  <2> HIDE DEF N
  <2>9. n \in N
      BY <1>3, <2>6, <2>7, <2>8, AllNumbers
  <2>10. g[n] \in S
      BY <1>3, <2>9 DEF N
  <2> QED
      BY <2>10 DEF g
<1> HIDE DEF pass
<1>6. listed \in S
  <2> DEFINE Step == [p \in S \X (1..n) |-> pass(p[1])]
             g == CHOOSE f : IsTaken(f)
  <2>1. ASSUME NEW s \in S, NEW k \in 1..n
        PROVE  Step[<<s, k>>] = pass(s) /\ pass(s) \in S
    <3>1. <<s, k>> \in S \X (1..n)
        OBVIOUS
    <3>2. pass(s) \in S
        BY <1>5
    <3> HIDE DEF S
    <3>3. Step[<<s, k>>] = pass(s)
        BY <3>1
    <3> QED
        BY <3>2, <3>3 DEF S
  <2>0. <<>> \in S
      OBVIOUS
  <2> HIDE DEF Step, S
  <2>2. \A s \in S, k \in 1..n : Step[<<s, k>>] \in S
      BY <2>1
  <2>3. PICK f : Stepwise(f, <<>>, Step, n) /\ \A k \in 0..n : f[k] \in S
      BY <1>3, <2>0, <2>2, StepsStay
  <2>4. IsTaken(f)
    <3>1. ASSUME NEW k \in 0..n
          PROVE  (IF k = 0 THEN <<>> ELSE Step[<<f[k - 1], k>>]) = (IF k = 0 THEN <<>> ELSE pass(f[k - 1]))
      <4>1. CASE k # 0
        <5>1. k \in 1..n /\ k - 1 \in 0..n
            BY <1>3, <4>1
        <5>2. f[k - 1] \in S
            BY <2>3, <5>1
        <5> QED
            BY <2>1, <5>1, <5>2
      <4> QED
          BY <4>1
    <3>2. f = [k \in 0..n |-> IF k = 0 THEN <<>> ELSE Step[<<f[k - 1], k>>]]
        BY <2>3 DEF Stepwise
    <3> QED
        BY <3>1, <3>2
  <2>5. IsTaken(g)
      BY <2>4
  <2> HIDE DEF g
  <2> DEFINE N == {k \in Nat : k <= n => g[k] \in S}
  <2>6. 0 \in N
    <3>1. g[0] = <<>>
        BY <1>3, <2>5
    <3> QED
        BY <2>0, <3>1
  <2>7. ASSUME NEW k \in N
        PROVE  k + 1 \in N
    <3> SUFFICES ASSUME k + 1 <= n
                 PROVE  g[k + 1] \in S
        OBVIOUS
    <3>1. k \in Nat /\ k + 1 \in 1..n /\ k + 1 \in 0..n /\ (k + 1) - 1 = k /\ k + 1 # 0
        BY <1>3
    <3>2. g[k + 1] = pass(g[(k + 1) - 1])
        BY <2>5, <3>1
    <3>3. g[k] \in S
        BY <1>3, <3>1
    <3> QED
        BY <2>1, <3>1, <3>2, <3>3
  <2>8. N \in SUBSET Nat
      OBVIOUS
  <2> HIDE DEF N
  <2>9. n \in N
      BY <1>3, <2>6, <2>7, <2>8, AllNumbers
  <2>10. g[n] \in S
      BY <1>3, <2>9 DEF N
  <2> QED
      BY <2>10 DEF g
<1> HIDE DEF listed
<1>7. Len(listed) \in Nat /\ DOMAIN listed = 1..Len(listed) /\ \A k \in DOMAIN listed : listed[k] \in 1..n
  <2> DEFINE positions == 1..n
  <2>1. listed \in Seq(positions)
      BY <1>6
  <2> HIDE DEF positions
  <2>2. Len(listed) \in Nat /\ DOMAIN listed = 1..Len(listed) /\ \A k \in 1..Len(listed) : listed[k] \in positions
      BY <2>1
  <2> QED
      BY <2>2 DEF positions
<1>8. IsSeq(first) /\ Elements(first) = {cs[k] : k \in Range(listed)}
  <2>1. DOMAIN first = 1..Len(listed) /\ first = [k \in 1..Len(listed) |-> first[k]]
        /\ \A k \in 1..Len(listed) : first[k] = cs[listed[k]]
      BY <1>7
  <2> HIDE DEF first
  <2>2. IsSeq(first) /\ Len(first) = Len(listed)
      BY <1>7, <2>1, FunctionShape
  <2> QED
      BY <1>7, <2>1, <2>2 DEF Elements, Range
<1> DEFINE left == DOMAIN cs \ Range(listed)
<1>9. IsSeq(rest) /\ Range(rest) = {cs[k] : k \in left}
  <2>1. left \in SUBSET (1..n) /\ n \in Int
      BY <1>3
  <2>2. rest = EntriesAt(cs, left)
      OBVIOUS
  <2> HIDE DEF left, rest
  <2>3. IsSeq(EntriesAt(cs, left)) /\ Range(EntriesAt(cs, left)) = {cs[k] : k \in left}
      BY <2>1, EntriesAtShape
  <2> QED
      BY <2>2, <2>3
<1> HIDE DEF first, rest
<1>10. Elements(rest) = Range(rest)
  <2>1. DOMAIN rest = 1..Len(rest)
      BY <1>9, SeqShape
  <2> QED
      BY <2>1 DEF Elements, Range
<1> DEFINE both == first \o rest
<1>11. IsSeq(both) /\ Elements(both) = Elements(first) \cup Elements(rest)
    BY <1>8, <1>9, ConcatElements
<1> HIDE DEF both
<1>12. Elements(both) = Range(both)
  <2>1. DOMAIN both = 1..Len(both)
      BY <1>11, SeqShape
  <2> QED
      BY <2>1 DEF Elements, Range
<1>13. {cs[k] : k \in Range(listed)} \cup {cs[k] : k \in left} = Range(cs)
  <2>1. Range(listed) \subseteq DOMAIN cs
      BY <1>3, <1>7 DEF Range
  <2> QED
      BY <2>1 DEF Range
<1> HIDE DEF left
<1>14. Range(both) = Range(classes)
    BY <1>2, <1>8, <1>9, <1>10, <1>11, <1>12, <1>13
<1> QED
    BY <1>1, <1>11, <1>14 DEF both

-----------------------------------------------------------------------------
(* What is read of an image: lists of methods are sequences.                 *)

\* What is read at any address is a number.
IsMemory(m) == \A va \in Int : m.pointer[va] \in Int /\ m.u32[va] \in Int

\* Pointers and counts that are read from an image are numbers.
LEMMA MemoryIsOfNumbers ==
    ASSUME NEW f, IsImage(f)
    PROVE  IsMemory(Memory(f))
<1>1. \A o : Stored(f, o) \in Int
    BY DEF Stored, IsImage
<1>2. ASSUME NEW va \in Int
      PROVE  ReadU64(f, va) \in Int /\ ReadU32(f, va) \in Int
  <2>1. Failed \in Int
      BY DEF Failed
  <2>2. \A n \in Int : n % 2^16 \in Int
    <3>1. 2^16 = 65536
        OBVIOUS
    <3>2. \A n \in Int : n % 65536 \in Int
        OBVIOUS
    <3> QED
        BY <3>1, <3>2
  <2>3. \A o : Stored(f, o) % 2^16 \in Int
      BY <1>1, <2>2
  <2> QED
      BY <1>1, <2>1, <2>3 DEF ReadU64, ReadU32
<1>3. ASSUME NEW va \in Int
      PROVE  Resolve(f, va) \in Int
  <2>1. Nothing \in Int
      BY DEF Nothing
  <2> QED
      BY <1>2, <2>1 DEF Resolve, IsImage
<1> QED
    BY <1>2, <1>3 DEF IsMemory, Memory

\* The lesser of two numbers is one.
LEMMA LesserIsNumber ==
    ASSUME NEW a \in Int, NEW b \in Int
    PROVE  Min({a, b}) \in Int
<1>1. \E x \in {a, b} : \A y \in {a, b} : x <= y
    OBVIOUS
<1>2. Min({a, b}) \in {a, b}
    BY <1>1 DEF Min
<1> QED
    BY <1>2

\* A list of methods is a sequence, whatever its header says.
LEMMA MethodListShape ==
    ASSUME NEW m, IsMemory(m), NEW list \in Int
    PROVE  IsSeq(MethodList(m, list))
<1> DEFINE n == Count(m, list, MaxMethods)
<1>1. n \in Int
  <2>1. m.u32[list + 4] \in Int /\ MaxMethods \in Int
      BY CapsAssumption DEF IsMemory
  <2> QED
      BY <2>1, LesserIsNumber DEF Count
<1>2. IsSeq(<<>>)
    BY OneShape
<1> HIDE DEF n
<1>3. IsSeq(PointerMethods(m, list))
  <2> DEFINE size == EntSize(m, list) - (EntSize(m, list) % 4)
             at(i) == list + 8 + (i - 1) * (IF size = 0 THEN 24 ELSE size)
             method(i) == [name  |-> OrEmpty(m.string[OrZero(m.pointer[at(i)])]),
                           types |-> OrEmpty(m.string[OrZero(m.pointer[at(i) + 8])]),
                           imp   |-> OrZero(m.pointer[at(i) + 16])]
             es == [i \in 1..n |-> method(i)]
             ks == {i \in 1..n : method(i).name # Empty}
  <2>1. PointerMethods(m, list) = <<>> \/ PointerMethods(m, list) = EntriesAt(es, ks)
      BY DEF PointerMethods, Entries, n
  <2>2. ks \in SUBSET (1..n)
      OBVIOUS
  <2> HIDE DEF es, ks
  <2>3. IsSeq(EntriesAt(es, ks))
      BY <1>1, <2>2, EntriesAtShape
  <2> QED
      BY <1>2, <2>1, <2>3
<1>4. IsSeq(RelativeMethods(m, list))
  <2> DEFINE at(i) == list + 8 + (i - 1) * 12
             target(va) == va + m.i32[va]
             direct == IsDirect(EntSize(m, list))
             method(i) == [name  |-> OrEmpty(IF direct THEN m.string[target(at(i))]
                                             ELSE NameAt(m, target(at(i)))),
                           types |-> OrEmpty(m.string[target(at(i) + 4)]),
                           imp   |-> IF m.u32[at(i) + 8] = 0 THEN 0 ELSE target(at(i) + 8)]
             es == [i \in 1..n |-> method(i)]
             ks == {i \in 1..n : method(i).name # Empty}
  <2>1. RelativeMethods(m, list) = <<>> \/ RelativeMethods(m, list) = EntriesAt(es, ks)
      BY DEF RelativeMethods, Entries, n
  <2>2. ks \in SUBSET (1..n)
      OBVIOUS
  <2> HIDE DEF es, ks
  <2>3. IsSeq(EntriesAt(es, ks))
      BY <1>1, <2>2, EntriesAtShape
  <2> QED
      BY <1>2, <2>1, <2>3
<1> QED
    BY <1>2, <1>3, <1>4 DEF MethodList

\* The methods of the list that is led to from an address, if any.
MethodsAt(m, va) ==
    IF OrZero(m.pointer[va]) = 0 THEN <<>> ELSE MethodList(m, OrZero(m.pointer[va]))

\* So is what a pointer to one leads to.
LEMMA FollowedMethods ==
    ASSUME NEW m, IsMemory(m), NEW va \in Int
    PROVE  IsSeq(MethodsAt(m, va))
<1>1. OrZero(m.pointer[va]) \in Int
    BY DEF OrZero, IsMemory
<1> DEFINE list == OrZero(m.pointer[va])
<1>2. IsSeq(MethodList(m, list)) /\ IsSeq(<<>>)
  <2>1. list \in Int
      BY <1>1
  <2> HIDE DEF list
  <2> QED
      BY <2>1, MethodListShape, OneShape
<1> QED
    BY <1>2 DEF MethodsAt

\* An entry with its two lists of methods.
HasMethods(e) ==
    /\ {"methods", "classMethods"} \subseteq DOMAIN e
    /\ IsSeq(e.methods) /\ IsSeq(e.classMethods)

\* The methods of a class and of a category are sequences.
LEMMA ClassHasMethods ==
    ASSUME NEW m, IsMemory(m), NEW class \in Int
    PROVE  HasMethods(Class(m, class))
<1>1. \A c \in Int : ClassRo(m, c) \in Int
  <2>1. \A p \in Int : ClearTag(p) \in Int /\ OrZero(p) \in Int
      BY DEF ClearTag, OrZero
  <2>2. Failed \in Int
      BY DEF Failed
  <2> SUFFICES ASSUME NEW c \in Int PROVE ClassRo(m, c) \in Int
      OBVIOUS
  <2> DEFINE data == ClearTag(OrZero(m.pointer[c + 32]))
             rw == m.pointer[data + 8]
  <2>3. data \in Int
      BY <2>1 DEF IsMemory
  <2>4. ClassRo(m, c) = IF m.pointer[c + 32] = Failed THEN Failed
        ELSE IF data = 0 THEN 0
        ELSE IF NameAt(m, data + 24) # Nothing THEN data
        ELSE IF rw = Failed THEN Failed
        ELSE ClearTag(OrZero(rw))
      BY DEF ClassRo
  <2> HIDE DEF data
  <2>5. ClearTag(OrZero(rw)) \in Int
      BY <2>1, <2>3 DEF IsMemory
  <2> QED
      BY <2>2, <2>3, <2>4, <2>5
<1> DEFINE ro == ClassRo(m, class)
           meta0 == m.pointer[class]
           own == MethodsAt(m, ro + 32)
           other == MethodsAt(m, ClassRo(m, meta0) + 32)
<1>2. IsSeq(own) /\ IsSeq(other) /\ IsSeq(<<>>)
  <2>1. ro + 32 \in Int /\ ClassRo(m, meta0) + 32 \in Int
      BY <1>1 DEF IsMemory
  <2> QED
      BY <2>1, FollowedMethods, OneShape
<1>3. /\ Class(m, class).methods = own
      /\ Class(m, class).classMethods \in {own, other, <<>>}
      /\ {"methods", "classMethods"} \subseteq DOMAIN Class(m, class)
  <2> HIDE DEF ro, meta0
  <2> QED
      BY DEF Class, Follow, MethodsAt, ro, meta0
<1> HIDE DEF own, other
<1> QED
    BY <1>2, <1>3 DEF HasMethods

\* A category has its two lists of methods, whatever is stored of it.
LEMMA CategoryHasMethods ==
    ASSUME NEW m, IsMemory(m), NEW cat \in Int
    PROVE  HasMethods(Category(m, cat))
<1> DEFINE own == MethodsAt(m, cat + 16)
           other == MethodsAt(m, cat + 24)
<1>1. IsSeq(own) /\ IsSeq(other)
  <2>1. cat + 16 \in Int /\ cat + 24 \in Int
      OBVIOUS
  <2> QED
      BY <2>1, FollowedMethods
<1>2. /\ Category(m, cat).methods = own
      /\ Category(m, cat).classMethods = other
      /\ {"methods", "classMethods"} \subseteq DOMAIN Category(m, cat)
    BY DEF Category, Follow, MethodsAt
<1> HIDE DEF own, other
<1> QED
    BY <1>1, <1>2 DEF HasMethods

\* What a pointer leads to is a number, wherever it is read.
LEMMA ResolvedIsNumber ==
    ASSUME NEW f, IsImage(f), NEW va
    PROVE  OrZero(Resolve(f, va)) \in Int /\ \A o : Stored(f, o) \in Int
<1>1. \A o : Stored(f, o) \in Int
    BY DEF Stored, IsImage
<1>2. ReadU64(f, va) \in Int
    BY <1>1 DEF ReadU64, Failed
<1>3. Resolve(f, va) \in Int
    BY <1>2 DEF Resolve, IsImage, Nothing
<1> QED
    BY <1>1, <1>3 DEF OrZero

\* The metadata of an image: classes and categories have their methods.
MetaIsRead(m) ==
    /\ m = [kind \in DOMAIN After |-> m[kind]]
    /\ \A kind \in {"classes", "categories"} : \A k \in 1..Len(m[kind]) : HasMethods(m[kind][k])

\* So it is of all images that were read, of which there are only those of the command.
ReadInv ==
    /\ IsImage(image)
    /\ \A k \in 1..Len(todo) : IsImage(todo[k].image)
    /\ MetaIsRead(meta)
    /\ \A k \in 1..Len(metas) : MetaIsRead(metas[k])

\* Before its first entry is read the metadata of an image is so.
LEMMA NoMetaIsRead == MetaIsRead(NoMeta)
<1>1. NoMeta = [kind \in DOMAIN After |-> NoMeta[kind]] /\ \A kind \in DOMAIN After : NoMeta[kind] = <<>>
    BY DEF NoMeta, After
<1>2. Len(<<>>) = 0 /\ {"classes", "categories"} \subseteq DOMAIN After
    BY OneShape DEF After
<1>3. \A kind \in {"classes", "categories"} : Len(NoMeta[kind]) = 0
    BY <1>1, <1>2
<1>4. \A k \in 1..0 : FALSE
    OBVIOUS
<1> QED
    BY <1>1, <1>3, <1>4 DEF MetaIsRead

\* One more entry, and the loss of a list, leave it so.
LEMMA OneMoreIsRead ==
    ASSUME NEW m, MetaOK(m), MetaIsRead(m), NEW kind \in DOMAIN After, NEW e,
           kind \in {"classes", "categories"} => HasMethods(e)
    PROVE  MetaIsRead([m EXCEPT ![kind] = Append(@, e)])
<1> DEFINE n == [m EXCEPT ![kind] = Append(@, e)]
<1>1. DOMAIN m = DOMAIN After /\ IsSeq(m[kind])
    BY DEF MetaOK
<1>2. /\ n = [k \in DOMAIN After |-> n[k]]
      /\ n[kind] = Append(m[kind], e)
      /\ \A other \in DOMAIN After : other # kind => n[other] = m[other]
    BY <1>1
<1>3. {"classes", "categories"} \subseteq DOMAIN After
    BY DEF After
<1> HIDE DEF n
<1>4. ASSUME NEW own \in {"classes", "categories"}, NEW k \in 1..Len(n[own])
      PROVE  HasMethods(n[own][k])
  <2>1. CASE own = kind
    <3> DEFINE s == m[kind]
    <3>1. /\ Len(Append(s, e)) = Len(s) + 1
          /\ \A j \in 1..Len(s) : Append(s, e)[j] = s[j]
          /\ Append(s, e)[Len(s) + 1] = e
        BY <1>1, AppendShape
    <3>2. Len(s) \in Nat
        BY <1>1, SeqShape
    <3>3. n[own] = Append(s, e)
        BY <1>2, <2>1
    <3>4. k \in 1..Len(s) \/ k = Len(s) + 1
        BY <3>1, <3>2, <3>3
    <3>5. \A j \in 1..Len(s) : HasMethods(s[j])
        BY <2>1 DEF MetaIsRead
    <3> HIDE DEF s
    <3> QED
        BY <2>1, <3>1, <3>3, <3>4, <3>5
  <2>2. CASE own # kind
      BY <1>2, <1>3, <2>2 DEF MetaIsRead
  <2> QED
      BY <2>1, <2>2
<1> QED
    BY <1>2, <1>4 DEF n, MetaIsRead

\* And it stays so when one of its lists is lost.
LEMMA ListLostIsRead ==
    ASSUME NEW m, MetaOK(m), MetaIsRead(m), NEW kind \in DOMAIN After
    PROVE  MetaIsRead([m EXCEPT ![kind] = <<>>])
<1> DEFINE n == [m EXCEPT ![kind] = <<>>]
<1>1. DOMAIN m = DOMAIN After
    BY DEF MetaOK
<1>2. /\ n = [k \in DOMAIN After |-> n[k]]
      /\ n[kind] = <<>>
      /\ \A other \in DOMAIN After : other # kind => n[other] = m[other]
    BY <1>1
<1>3. {"classes", "categories"} \subseteq DOMAIN After /\ Len(<<>>) = 0
    BY OneShape DEF After
<1> HIDE DEF n
<1>4. ASSUME NEW own \in {"classes", "categories"}, NEW k \in 1..Len(n[own])
      PROVE  HasMethods(n[own][k])
  <2>1. own # kind
      BY <1>2, <1>3
  <2> QED
      BY <1>2, <1>3, <2>1 DEF MetaIsRead
<1> QED
    BY <1>2, <1>4 DEF n, MetaIsRead

\* Each slot adds an entry of which this is true, or nothing.
LEMMA ParseStepIsRead ==
    ASSUME ParseOK, IsImage(image), MetaIsRead(meta), ParseStep
    PROVE  IsImage(image)' /\ MetaIsRead(meta)'
<1> DEFINE m == Memory(image)
<1>0. IsMemory(m) /\ MetaOK(meta)
    BY MemoryIsOfNumbers DEF ParseOK
<1>a. DOMAIN After = {"classes", "categories", "protocols"}
    BY DEF After
<1>b. image' = image
    BY DEF ParseStep, ClassSlot, CategorySlot, ProtocolSlot, ListEnds, ClassesFail, ListLost
<1> HIDE DEF m
<1>1. CASE ClassSlot
  <2> DEFINE target == OrZero(Resolve(image, Va("classes")))
             stored == Stored(image, Head(FirstSection(image, SectionOf.classes)).offset + 8 * (slot - 1))
             class == IF target # 0 THEN target ELSE stored
  <2>1. meta' = meta \/ meta' = [meta EXCEPT !["classes"] = Append(@, Class(m, class))]
      BY <1>1 DEF ClassSlot, m
  <2>2. class \in Int
    <3>1. target \in Int /\ stored \in Int
        BY ResolvedIsNumber
    <3> HIDE DEF target, stored
    <3> QED
        BY <3>1
  <2> HIDE DEF class
  <2>3. HasMethods(Class(m, class))
      BY <1>0, <2>2, ClassHasMethods
  <2>4. MetaIsRead([meta EXCEPT !["classes"] = Append(@, Class(m, class))])
      BY <1>0, <1>a, <2>3, OneMoreIsRead
  <2>5. CASE meta' = meta
      BY <1>b, <2>5
  <2>6. CASE meta' = [meta EXCEPT !["classes"] = Append(@, Class(m, class))]
      BY <1>b, <2>4, <2>6
  <2> QED
      BY <2>1, <2>5, <2>6
<1>2. CASE CategorySlot
  <2> DEFINE cat == OrZero(Resolve(image, Va("categories")))
  <2>1. meta' = meta \/ meta' = [meta EXCEPT !["categories"] = Append(@, Category(m, cat))]
      BY <1>2 DEF CategorySlot, m
  <2>2. cat \in Int
      BY ResolvedIsNumber
  <2> HIDE DEF cat
  <2>3. HasMethods(Category(m, cat))
      BY <1>0, <2>2, CategoryHasMethods
  <2>4. MetaIsRead([meta EXCEPT !["categories"] = Append(@, Category(m, cat))])
      BY <1>0, <1>a, <2>3, OneMoreIsRead
  <2>5. CASE meta' = meta
      BY <1>b, <2>5
  <2>6. CASE meta' = [meta EXCEPT !["categories"] = Append(@, Category(m, cat))]
      BY <1>b, <2>4, <2>6
  <2> QED
      BY <2>1, <2>5, <2>6
<1>3. CASE ProtocolSlot
  <2>1. meta' = meta \/ \E e : meta' = [meta EXCEPT !["protocols"] = Append(@, e)]
      BY <1>3 DEF ProtocolSlot
  <2>2. CASE meta' = meta
      BY <1>b, <2>2
  <2>3. CASE \E e : meta' = [meta EXCEPT !["protocols"] = Append(@, e)]
    <3>1. PICK e : meta' = [meta EXCEPT !["protocols"] = Append(@, e)]
        BY <2>3
    <3>2. MetaIsRead([meta EXCEPT !["protocols"] = Append(@, e)])
        BY <1>0, <1>a, OneMoreIsRead
    <3> QED
        BY <1>b, <3>1, <3>2
  <2> QED
      BY <2>1, <2>2, <2>3
<1>4. CASE ListEnds \/ ClassesFail
  <2>1. meta' = meta
      BY <1>4 DEF ListEnds, ClassesFail
  <2> QED
      BY <1>b, <2>1
<1>5. CASE ListLost
  <2>1. PICK l \in {"categories", "protocols"} : meta' = [meta EXCEPT ![l] = <<>>]
      BY <1>5 DEF ListLost
  <2>2. MetaIsRead([meta EXCEPT ![l] = <<>>])
      BY <1>0, <1>a, ListLostIsRead
  <2> QED
      BY <1>b, <2>1, <2>2
<1> QED
    BY <1>1, <1>2, <1>3, <1>4, <1>5 DEF ParseStep

\* The images of a command line are images.
LEMMA ImagesAreImages ==
    ASSUME NEW a \in Arguments
    PROVE  IsImage(a.image) /\ \A k \in 1..Len(ImagesOf(a)) : IsImage(ImagesOf(a)[k].image)
<1>1. IsImage(a.image) /\ (a.diff # NoDiff => IsImage(a.diff))
      /\ \A k \in DOMAIN a.frameworks : IsImage(a.frameworks[k])
    BY ArgumentsAssumption DEF Range
<1>2. CASE a.diff # NoDiff
  <2> DEFINE own == [image |-> a.image, must |-> TRUE]
             other == [image |-> a.diff, must |-> TRUE]
  <2>1. ImagesOf(a) = <<own, other>>
      BY <1>2 DEF ImagesOf
  <2>2. IsImage(own.image) /\ IsImage(other.image)
      BY <1>1, <1>2
  <2> HIDE DEF own, other
  <2>3. Len(ImagesOf(a)) = 2 /\ ImagesOf(a)[1] = own /\ ImagesOf(a)[2] = other
      BY <2>1
  <2>4. \A k \in 1..2 : k = 1 \/ k = 2
      OBVIOUS
  <2> QED
      BY <1>1, <2>2, <2>3, <2>4
<1>3. CASE ~(a.diff # NoDiff)
  <2> DEFINE own == [image |-> a.image, must |-> TRUE]
             one == <<own>>
             beside == [k \in DOMAIN a.frameworks |-> [image |-> a.frameworks[k], must |-> FALSE]]
  <2>1. ImagesOf(a) = one \o beside
      BY <1>3 DEF ImagesOf
  <2>2. Len(a.frameworks) \in Nat /\ DOMAIN a.frameworks = 1..Len(a.frameworks)
      BY ArgumentsAssumption
  <2>3. /\ DOMAIN beside = 1..Len(a.frameworks) /\ beside = [k \in 1..Len(a.frameworks) |-> beside[k]]
        /\ \A k \in 1..Len(a.frameworks) : IsImage(beside[k].image)
      BY <1>1, <2>2
  <2>4. IsImage(own.image)
      BY <1>1
  <2> HIDE DEF own, beside
  <2>5. IsSeq(one) /\ Len(one) = 1 /\ one[1] = own
      BY OneShape
  <2> HIDE DEF one
  <2>6. IsSeq(beside) /\ Len(beside) = Len(a.frameworks)
      BY <2>2, <2>3, FunctionShape
  <2>7. /\ Len(one \o beside) = Len(one) + Len(beside)
        /\ \A k \in 1..Len(one) : (one \o beside)[k] = one[k]
        /\ \A k \in 1..Len(beside) : (one \o beside)[Len(one) + k] = beside[k]
    <3>0. IsSeq(one) /\ IsSeq(beside)
        BY <2>5, <2>6
    <3>1. Len(one \o beside) = Len(one) + Len(beside)
        BY <3>0, ConcatShape
    <3>2. \A k \in 1..Len(one) : (one \o beside)[k] = one[k]
        BY <3>0, ConcatShape
    <3>3. \A k \in 1..Len(beside) : (one \o beside)[Len(one) + k] = beside[k]
        BY <3>0, ConcatShape
    <3> QED
        BY <3>1, <3>2, <3>3
  <2>8. ASSUME NEW k \in 1..Len(ImagesOf(a))
        PROVE  IsImage(ImagesOf(a)[k].image)
    <3>1. CASE k = 1
      <4>1. (one \o beside)[1] = one[1]
          BY <2>5, <2>7
      <4> QED
          BY <2>1, <2>4, <2>5, <3>1, <4>1
    <3>2. CASE k # 1
      <4>1. k - 1 \in 1..Len(beside) /\ Len(one) + (k - 1) = k
          BY <2>1, <2>2, <2>5, <2>6, <2>7, <3>2
      <4>2. (one \o beside)[k] = beside[k - 1]
          BY <2>7, <4>1
      <4> QED
          BY <2>1, <2>3, <2>6, <4>1, <4>2
    <3> QED
        BY <3>1, <3>2
  <2> QED
      BY <1>1, <2>8
<1> QED
    BY <1>2, <1>3

\* ReadInv holds when the command starts.
LEMMA ReadInvInit ==
    ASSUME Init
    PROVE  ReadInv
<1>1. Len(<<>>) = 0 /\ \A k \in 1..0 : FALSE
    BY OneShape
<1>2. Len(todo) = 0 /\ Len(metas) = 0 /\ meta = NoMeta /\ image = args.image /\ args \in Arguments
    BY <1>1 DEF Init, StartsReading
<1> QED
    BY <1>1, <1>2, NoMetaIsRead, ImagesAreImages DEF ReadInv

\* The steps of the command keep ReadInv.
LEMMA ReadInvStep ==
    ASSUME TypeInv, ReadInv, [Next]_vars
    PROVE  ReadInv'
<1>0. ParseOK /\ IsSeq(todo) /\ IsSeq(metas) /\ args \in Arguments
    BY DEF TypeInv, TodoOK, MetasOK
<1>a. ASSUME todo # <<>>, TakeNext
      PROVE  /\ IsImage(image)' /\ MetaIsRead(meta)'
             /\ \A k \in 1..Len(todo') : IsImage(todo'[k].image)
  <2>1. todo' = Tail(todo)
      BY <1>a DEF TakeNext
  <2>2. /\ Len(Tail(todo)) = Len(todo) - 1 /\ Len(todo) \in Nat
        /\ \A k \in 1..Len(Tail(todo)) : Tail(todo)[k] = todo[k + 1]
      BY <1>0, <1>a, TailShape, SeqShape
  <2>3. \A k \in 1..Len(Tail(todo)) : k + 1 \in 1..Len(todo)
      BY <2>2
  <2>4. \A k \in 1..Len(todo') : IsImage(todo'[k].image)
      BY <2>1, <2>2, <2>3 DEF ReadInv
  <2>5. CASE Len(todo) > 1
    <3>1. image' = todo[2].image /\ meta' = NoMeta
        BY <1>a, <2>5 DEF TakeNext
    <3>2. 2 \in 1..Len(todo)
        BY <2>2, <2>5
    <3> QED
        BY <2>4, <3>1, <3>2, NoMetaIsRead DEF ReadInv
  <2>6. CASE ~(Len(todo) > 1)
    <3>1. image' = image /\ meta' = meta
        BY <1>a, <2>6 DEF TakeNext, metaVars
    <3> QED
        BY <2>4, <3>1 DEF ReadInv
  <2> QED
      BY <2>5, <2>6
<1>1. CASE Start
  <2>1. image' = image /\ meta' = meta /\ metas' = metas
      BY <1>1 DEF Start, metaVars
  <2>2. todo' = todo \/ todo' = ImagesOf(args)
      BY <1>1 DEF Start
  <2> QED
      BY <1>0, <2>1, <2>2, ImagesAreImages DEF ReadInv
<1>2. CASE Read
  <2>1. todo' = todo /\ metas' = metas
      BY <1>2 DEF Read, cliVars
  <2>2. IsImage(image)' /\ MetaIsRead(meta)'
      BY <1>0, <1>2, ParseStepIsRead DEF Read, ReadInv
  <2> QED
      BY <2>1, <2>2 DEF ReadInv
<1>3. CASE WasRead
  <2>1. /\ metas' = Append(metas, meta) /\ todo # <<>> /\ TakeNext
      BY <1>3 DEF WasRead, Reading
  <2>2. /\ Len(metas') = Len(metas) + 1 /\ Len(metas) \in Nat
        /\ \A k \in 1..Len(metas) : metas'[k] = metas[k]
        /\ metas'[Len(metas) + 1] = meta
      BY <1>0, <2>1, AppendShape, SeqShape
  <2>3. \A k \in 1..Len(metas') : k \in 1..Len(metas) \/ k = Len(metas) + 1
      BY <2>2
  <2>4. \A k \in 1..Len(metas') : MetaIsRead(metas'[k])
      BY <2>2, <2>3 DEF ReadInv
  <2> QED
      BY <1>a, <2>1, <2>4 DEF ReadInv
<1>4. CASE CouldNotBeRead
  <2>1. metas' = metas /\ todo # <<>>
      BY <1>4 DEF CouldNotBeRead, Reading
  <2>2. CASE Head(todo).must
    <3>1. todo' = todo /\ image' = image /\ meta' = meta
        BY <1>4, <2>2 DEF CouldNotBeRead, metaVars
    <3> QED
        BY <2>1, <3>1 DEF ReadInv
  <2>3. CASE ~Head(todo).must
    <3>1. TakeNext
        BY <1>4, <2>3 DEF CouldNotBeRead
    <3> QED
        BY <1>a, <2>1, <3>1 DEF ReadInv
  <2> QED
      BY <2>2, <2>3
<1>5. CASE UNCHANGED <<image, todo, meta, metas>>
    BY <1>5 DEF ReadInv
<1>6. PrintDiff \/ Emit \/ WriteHeader \/ WriteFails \/ Finish \/ UNCHANGED vars
        => UNCHANGED <<image, todo, meta, metas>>
    BY DEF PrintDiff, Emit, WriteHeader, WriteFails, Finish, vars, cliVars, metaVars
<1> QED
    BY <1>1, <1>2, <1>3, <1>4, <1>5, <1>6 DEF Next

-----------------------------------------------------------------------------
(* What is printed of one image.                                             *)

\* A sequence without elements is the empty one.
LEMMA NothingThere ==
    ASSUME NEW s, IsSeq(s)
    PROVE  s = <<>> <=> Range(s) = {}
<1>1. PICK S : s \in Seq(S)
    BY DEF IsSeq
<1>2. Len(s) \in Nat /\ DOMAIN s = 1..Len(s)
    BY <1>1
<1>3. s = <<>> <=> Len(s) = 0
    BY <1>1
<1>4. Len(s) # 0 => 1 \in DOMAIN s
    BY <1>2
<1>5. Len(s) = 0 => DOMAIN s = {}
    BY <1>2
<1> QED
    BY <1>3, <1>4, <1>5 DEF Range

\* The methods of a list that -f asks for.
LEMMA MethodsFoundAre ==
    ASSUME NEW a, NEW s, IsSeq(s)
    PROVE  /\ IsSeq(MethodsFound(a, s))
           /\ Range(MethodsFound(a, s)) = {x \in Range(s) : x.name \in a.find}
<1> DEFINE ks == {k \in DOMAIN s : s[k].name \in a.find}
<1>1. Len(s) \in Int /\ DOMAIN s = 1..Len(s)
    BY SeqShape
<1>2. ks \in SUBSET (1..Len(s)) /\ MethodsFound(a, s) = EntriesAt(s, ks)
    BY <1>1 DEF MethodsFound
<1>3. {s[k] : k \in ks} = {x \in Range(s) : x.name \in a.find}
    BY DEF Range
<1> HIDE DEF ks
<1>4. IsSeq(EntriesAt(s, ks)) /\ Range(EntriesAt(s, ks)) = {s[k] : k \in ks}
    BY <1>1, <1>2, EntriesAtShape
<1> QED
    BY <1>2, <1>3, <1>4

\* What -f makes of an entry, and whether it keeps it.
FoundOf(a, e) == [e EXCEPT !.methods = MethodsFound(a, @), !.classMethods = MethodsFound(a, @)]

HasFound(a, e) == Names(e.methods \o e.classMethods) \cap a.find # {}

\* -f leaves those entries that have such a method, with such methods alone.
LEMMA KeepFoundIs ==
    ASSUME NEW a, NEW es, IsSeq(es), \A k \in 1..Len(es) : HasMethods(es[k])
    PROVE  /\ IsSeq(KeepFound(a, es))
           /\ Range(KeepFound(a, es)) = {FoundOf(a, e) : e \in {x \in Range(es) : HasFound(a, x)}}
<1> DEFINE ks == {k \in DOMAIN es : MethodsFound(a, es[k].methods \o es[k].classMethods) # <<>>}
           with == EntriesAt(es, ks)
<1>1. Len(es) \in Int /\ DOMAIN es = 1..Len(es)
    BY SeqShape
<1>2. ks = {k \in DOMAIN es : HasFound(a, es[k])}
  <2> SUFFICES ASSUME NEW k \in DOMAIN es
               PROVE  MethodsFound(a, es[k].methods \o es[k].classMethods) # <<>> <=> HasFound(a, es[k])
      OBVIOUS
  <2> DEFINE s == es[k].methods \o es[k].classMethods
  <2>1. IsSeq(es[k].methods) /\ IsSeq(es[k].classMethods)
      BY <1>1 DEF HasMethods
  <2>2. IsSeq(s)
      BY <2>1, ConcatShape
  <2> HIDE DEF s
  <2>3. /\ IsSeq(MethodsFound(a, s))
        /\ Range(MethodsFound(a, s)) = {x \in Range(s) : x.name \in a.find}
      BY <2>2, MethodsFoundAre
  <2>4. MethodsFound(a, s) # <<>> <=> {x \in Range(s) : x.name \in a.find} # {}
      BY <2>3, NothingThere
  <2>5. {x \in Range(s) : x.name \in a.find} # {} <=> Names(s) \cap a.find # {}
      BY DEF Range, Names
  <2> QED
      BY <2>4, <2>5 DEF HasFound, s
<1>3. KeepFound(a, es) = [n \in DOMAIN with |-> FoundOf(a, with[n])]
    BY DEF KeepFound, FoundOf
<1>4. IsSeq(KeepFound(a, es))
    BY KeepFoundShape
<1>5. ks \in SUBSET (1..Len(es))
    BY <1>1
<1>6. {es[k] : k \in ks} = {x \in Range(es) : HasFound(a, x)}
    BY <1>2 DEF Range
<1> HIDE DEF ks
<1>7. Range(with) = {es[k] : k \in ks}
    BY <1>1, <1>5, EntriesAtShape
<1> HIDE DEF with
<1>8. Range(KeepFound(a, es)) = {FoundOf(a, e) : e \in Range(with)}
    BY <1>3 DEF Range
<1> QED
    BY <1>4, <1>6, <1>7, <1>8

\* The two halves of what is asked of an entry.
NameAsked(a, kind, e) ==
    LET own == [classes |-> a.class, categories |-> a.cat, protocols |-> a.proto]
        alone == \A k \in DOMAIN own \ {"classes"} : own[k] = NoPattern
        pattern == IF alone THEN a.class ELSE own[kind]
        names == IF kind = "categories" THEN {e.name, e.className} ELSE {e.name}
    IN  (\E k \in DOMAIN own : Given(own[k])) => Given(pattern) /\ names \cap pattern # {}

MethodAsked(a, kind, e) == (Given(a.find) /\ kind # "protocols") => HasFound(a, e)

\* An entry is asked for if its name is and one of its methods is.
LEMMA AskedHalves ==
    ASSUME NEW kind, NEW e
    PROVE  Asked(kind, e) <=> NameAsked(args, kind, e) /\ MethodAsked(args, kind, e)
BY DEF Asked, NameAsked, MethodAsked, HasFound

\* The patterns keep the entries that they ask for.
LEMMA KeepByNameIs ==
    ASSUME NEW a, NEW m, MetaOK(m), MetaIsRead(m)
    PROVE  /\ MetaOK(KeepByName(a, m)) /\ MetaIsRead(KeepByName(a, m))
           /\ \A kind \in DOMAIN After :
                Range(KeepByName(a, m)[kind]) = {e \in Range(m[kind]) : NameAsked(a, kind, e)}
<1>a. DOMAIN After = {"classes", "categories", "protocols"}
    BY DEF After
<1>b. \A kind \in DOMAIN After : IsSeq(m[kind]) /\ Len(m[kind]) \in Nat /\ DOMAIN m[kind] = 1..Len(m[kind])
    BY SeqShape DEF MetaOK
<1> DEFINE own == [classes |-> a.class, categories |-> a.cat, protocols |-> a.proto]
           alone == ~Given(a.proto) /\ ~Given(a.cat)
           any == Given(a.class) \/ Given(a.proto) \/ Given(a.cat)
           pattern(kind) == IF alone THEN a.class ELSE own[kind]
           names(kind, e) == IF kind = "categories" THEN {e.name, e.className} ELSE {e.name}
<1>1. \A kind, e : NameAsked(a, kind, e) <=> (any => Given(pattern(kind)) /\ names(kind, e) \cap pattern(kind) # {})
    BY DEF NameAsked, Given
<1>2. CASE ~any
  <2>1. KeepByName(a, m) = m
      BY <1>2 DEF KeepByName, Selective
  <2> QED
      BY <1>1, <1>2, <2>1
<1>3. CASE any
  <2> DEFINE kept(kind) ==
                 IF ~Given(pattern(kind)) THEN <<>>
                 ELSE EntriesAt(m[kind], {k \in DOMAIN m[kind] : names(kind, m[kind][k]) \cap pattern(kind) # {}})
             left == KeepByName(a, m)
  <2>1. left = [classes |-> kept("classes"), categories |-> kept("categories"), protocols |-> kept("protocols")]
    <3> DEFINE all == Given(a.class) /\ ~Given(a.proto) /\ ~Given(a.cat)
               one(p) == IF all THEN a.class ELSE p
    <3>1. one(a.class) = pattern("classes") /\ one(a.cat) = pattern("categories") /\ one(a.proto) = pattern("protocols")
        BY <1>3
    <3>2. \A c : c.name \in a.class <=> names("classes", c) \cap a.class # {}
        OBVIOUS
    <3>3. \A p, x : x.name \in p <=> names("protocols", x) \cap p # {}
        OBVIOUS
    <3>4. \A p, x : {x.className, x.name} \cap p # {} <=> names("categories", x) \cap p # {}
        OBVIOUS
    <3>5. pattern("classes") = a.class
        OBVIOUS
    <3>6. left = Selected(a, m)
        BY <1>3 DEF KeepByName, Selective
    <3>7. Selected(a, m) =
            [classes |-> IF ~Given(one(a.class)) THEN <<>>
                         ELSE EntriesAt(m.classes, {k \in DOMAIN m.classes : m.classes[k].name \in a.class}),
             categories |-> IF ~Given(one(a.cat)) THEN <<>>
                         ELSE EntriesAt(m.categories, {k \in DOMAIN m.categories :
                                {m.categories[k].className, m.categories[k].name} \cap one(a.cat) # {}}),
             protocols |-> IF ~Given(one(a.proto)) THEN <<>>
                         ELSE EntriesAt(m.protocols, {k \in DOMAIN m.protocols : m.protocols[k].name \in one(a.proto)})]
        BY DEF Selected
    <3>8. {k \in DOMAIN m.classes : m.classes[k].name \in a.class}
            = {k \in DOMAIN m["classes"] : names("classes", m["classes"][k]) \cap pattern("classes") # {}}
        BY <3>2, <3>5
    <3>9. {k \in DOMAIN m.categories : {m.categories[k].className, m.categories[k].name} \cap one(a.cat) # {}}
            = {k \in DOMAIN m["categories"] : names("categories", m["categories"][k]) \cap pattern("categories") # {}}
        BY <3>1, <3>4
    <3>10. {k \in DOMAIN m.protocols : m.protocols[k].name \in one(a.proto)}
            = {k \in DOMAIN m["protocols"] : names("protocols", m["protocols"][k]) \cap pattern("protocols") # {}}
        BY <3>1, <3>3
    <3> HIDE DEF names, pattern, one, left
    <3> QED
        BY <3>1, <3>6, <3>7, <3>8, <3>9, <3>10
  <2>2. DOMAIN left = DOMAIN After /\ left = [kind \in DOMAIN After |-> left[kind]]
        /\ \A kind \in DOMAIN After : left[kind] = kept(kind)
    <3> HIDE DEF kept
    <3> QED
        BY <1>a, <2>1
  <2>3. ASSUME NEW kind \in DOMAIN After
        PROVE  /\ IsSeq(left[kind])
               /\ Range(left[kind]) = {e \in Range(m[kind]) : NameAsked(a, kind, e)}
    <3> DEFINE ks == {k \in DOMAIN m[kind] : names(kind, m[kind][k]) \cap pattern(kind) # {}}
    <3>1. CASE ~Given(pattern(kind))
      <4>1. left[kind] = <<>>
          BY <2>2, <3>1
      <4>2. IsSeq(<<>>) /\ Range(<<>>) = {}
        <5>1. IsSeq(<<>>)
            BY OneShape
        <5> QED
            BY <5>1, NothingThere
      <4>3. \A e : ~NameAsked(a, kind, e)
          BY <1>1, <1>3, <3>1
      <4> QED
          BY <4>1, <4>2, <4>3
    <3>2. CASE Given(pattern(kind))
      <4>1. left[kind] = EntriesAt(m[kind], ks)
          BY <2>2, <3>2
      <4>2. ks \in SUBSET (1..Len(m[kind])) /\ Len(m[kind]) \in Int
          BY <1>b
      <4>3. \A e : NameAsked(a, kind, e) <=> names(kind, e) \cap pattern(kind) # {}
          BY <1>1, <1>3, <3>2
      <4>4. {m[kind][k] : k \in ks} = {e \in Range(m[kind]) : NameAsked(a, kind, e)}
        <5> HIDE DEF names, pattern
        <5> QED
            BY <4>3 DEF Range
      <4> HIDE DEF ks
      <4>5. IsSeq(EntriesAt(m[kind], ks)) /\ Range(EntriesAt(m[kind], ks)) = {m[kind][k] : k \in ks}
          BY <4>2, EntriesAtShape
      <4> QED
          BY <4>1, <4>4, <4>5
    <3> QED
        BY <3>1, <3>2
  <2> HIDE DEF left, kept, pattern, names
  <2>4. MetaOK(left)
      BY <2>2, <2>3 DEF MetaOK
  <2>5. ASSUME NEW kind \in {"classes", "categories"}, NEW k \in 1..Len(left[kind])
        PROVE  HasMethods(left[kind][k])
    <3>1. kind \in DOMAIN After
        BY <1>a
    <3>2. DOMAIN left[kind] = 1..Len(left[kind])
        BY <2>3, <3>1, SeqShape
    <3>3. left[kind][k] \in Range(m[kind])
        BY <2>3, <3>1, <3>2 DEF Range
    <3> QED
        BY <1>b, <3>1, <3>3 DEF Range, MetaIsRead
  <2> QED
      BY <2>2, <2>3, <2>4, <2>5 DEF left, MetaIsRead
<1> QED
    BY <1>2, <1>3

\* What -f leaves of an entry that it keeps, and what -S makes of one.
LeftOf(a, kind, e) == IF Given(a.find) /\ kind # "protocols" THEN FoundOf(a, e) ELSE e

SortedOf(e) == [e EXCEPT !.methods = SortedBy(@, ByName), !.classMethods = SortedBy(@, ByName)]

MovedOf(a, kind, e) == IF a.sortMethods /\ kind # "protocols" THEN SortedOf(e) ELSE e

\* Both leave an entry its methods, some or all, and the rest of it.
LEMMA FoundOfIs ==
    ASSUME NEW a, NEW e, HasMethods(e)
    PROVE  /\ HasMethods(FoundOf(a, e))
           /\ DOMAIN FoundOf(a, e) = DOMAIN e
           /\ \A k \in DOMAIN e \ {"methods", "classMethods"} : FoundOf(a, e)[k] = e[k]
           /\ Range(FoundOf(a, e).methods) = {x \in Range(e.methods) : x.name \in a.find}
           /\ Range(FoundOf(a, e).classMethods) = {x \in Range(e.classMethods) : x.name \in a.find}
<1> DEFINE d == FoundOf(a, e)
<1>1. /\ DOMAIN d = DOMAIN e
      /\ \A k \in DOMAIN e \ {"methods", "classMethods"} : d[k] = e[k]
      /\ d.methods = MethodsFound(a, e.methods)
      /\ d.classMethods = MethodsFound(a, e.classMethods)
    BY DEF FoundOf, HasMethods
<1>2. IsSeq(e.methods) /\ IsSeq(e.classMethods) /\ {"methods", "classMethods"} \subseteq DOMAIN e
    BY DEF HasMethods
<1> HIDE DEF d
<1>3. /\ IsSeq(d.methods) /\ Range(d.methods) = {x \in Range(e.methods) : x.name \in a.find}
      /\ IsSeq(d.classMethods) /\ Range(d.classMethods) = {x \in Range(e.classMethods) : x.name \in a.find}
    BY <1>1, <1>2, MethodsFoundAre
<1>4. HasMethods(d)
    BY <1>1, <1>2, <1>3 DEF HasMethods
<1> QED
    BY <1>1, <1>3, <1>4 DEF d

\* -S leaves an entry all its methods and the rest of it.
LEMMA SortedOfIs ==
    ASSUME NEW e, HasMethods(e)
    PROVE  /\ DOMAIN SortedOf(e) = DOMAIN e
           /\ \A k \in DOMAIN e \ {"methods", "classMethods"} : SortedOf(e)[k] = e[k]
           /\ Range(SortedOf(e).methods) = Range(e.methods)
           /\ Range(SortedOf(e).classMethods) = Range(e.classMethods)
<1> DEFINE d == SortedOf(e)
           s == SortedBy(e.methods, ByName)
           t == SortedBy(e.classMethods, ByName)
<1>1. IsSeq(e.methods) /\ IsSeq(e.classMethods) /\ {"methods", "classMethods"} \subseteq DOMAIN e
    BY DEF HasMethods
<1>2. d = [e EXCEPT !.methods = s, !.classMethods = t]
    BY DEF SortedOf
<1>3. Range(s) = Range(e.methods) /\ Range(t) = Range(e.classMethods)
    BY <1>1, SortedByNameShape
<1> HIDE DEF s, t, d
<1>4. /\ DOMAIN d = DOMAIN e
      /\ \A k \in DOMAIN e \ {"methods", "classMethods"} : d[k] = e[k]
      /\ d.methods = s /\ d.classMethods = t
    BY <1>1, <1>2
<1> QED
    BY <1>3, <1>4 DEF d

\* What -f and -S make of an entry is the same but for the methods left out.
LEMMA IsTheSameBut ==
    ASSUME NEW kind \in DOMAIN After, NEW e,
           kind # "protocols" => HasMethods(e)
    PROVE  SameBut(kind, e, MovedOf(args, kind, LeftOf(args, kind, e)))
<1> DEFINE f == LeftOf(args, kind, e)
           d == MovedOf(args, kind, f)
           kept(methods) == {m \in Range(methods) : Given(args.find) => m.name \in args.find}
           rest(x) == [k \in DOMAIN x \ {"methods", "classMethods"} |-> x[k]]
<1>1. CASE kind = "protocols"
  <2>1. d = e
      BY <1>1 DEF MovedOf, LeftOf
  <2> QED
      BY <1>1, <2>1 DEF SameBut
<1>2. CASE kind # "protocols"
  <2>1. /\ HasMethods(f) /\ DOMAIN f = DOMAIN e
        /\ \A k \in DOMAIN e \ {"methods", "classMethods"} : f[k] = e[k]
        /\ Range(f.methods) = kept(e.methods)
        /\ Range(f.classMethods) = kept(e.classMethods)
    <3>1. CASE Given(args.find)
      <4>1. f = FoundOf(args, e)
          BY <1>2, <3>1 DEF LeftOf
      <4> HIDE DEF f
      <4> QED
          BY <1>2, <3>1, <4>1, FoundOfIs
    <3>2. CASE ~Given(args.find)
      <4>1. f = e
          BY <3>2 DEF LeftOf
      <4>2. \A s : kept(s) = Range(s)
          BY <3>2
      <4> HIDE DEF f, kept
      <4> QED
          BY <1>2, <4>1, <4>2
    <3> QED
        BY <3>1, <3>2
  <2> HIDE DEF f, kept
  <2>2. /\ DOMAIN d = DOMAIN f
        /\ \A k \in DOMAIN f \ {"methods", "classMethods"} : d[k] = f[k]
        /\ Range(d.methods) = Range(f.methods)
        /\ Range(d.classMethods) = Range(f.classMethods)
    <3>1. CASE args.sortMethods
      <4>1. d = SortedOf(f)
          BY <1>2, <3>1 DEF MovedOf
      <4> HIDE DEF d
      <4> QED
          BY <2>1, <4>1, SortedOfIs
    <3>2. CASE ~args.sortMethods
        BY <3>2 DEF MovedOf
    <3> QED
        BY <3>1, <3>2
  <2> HIDE DEF d
  <2>3. rest(e) = rest(d)
      BY <2>1, <2>2
  <2>4. /\ Range(d.methods) = kept(e.methods)
        /\ Range(d.classMethods) = kept(e.classMethods)
      BY <2>1, <2>2
  <2>5. SameBut(kind, e, d)
      BY <1>2, <2>3, <2>4 DEF SameBut, kept
  <2> QED
      BY <2>5 DEF d, f
<1> QED
    BY <1>1, <1>2

\* The filters leave what is asked for, with the methods that are.
LEMMA FilterMetaIs ==
    ASSUME NEW a, NEW m, MetaOK(m), MetaIsRead(m)
    PROVE  /\ MetaOK(FilterMeta(a, m)) /\ MetaIsRead(FilterMeta(a, m))
           /\ \A kind \in DOMAIN After :
                Range(FilterMeta(a, m)[kind]) =
                  {LeftOf(a, kind, e) : e \in {x \in Range(m[kind]) : NameAsked(a, kind, x) /\ MethodAsked(a, kind, x)}}
<1>a. DOMAIN After = {"classes", "categories", "protocols"}
    BY DEF After
<1> DEFINE n == KeepByName(a, m)
           left == FilterMeta(a, m)
<1>1. /\ MetaOK(n) /\ MetaIsRead(n)
      /\ \A kind \in DOMAIN After : Range(n[kind]) = {e \in Range(m[kind]) : NameAsked(a, kind, e)}
    BY KeepByNameIs
<1>2. left = KeepByMethod(a, n)
    BY DEF FilterMeta
<1> HIDE DEF n, left
<1>3. CASE ~Given(a.find)
  <2>1. left = n
      BY <1>2, <1>3 DEF KeepByMethod
  <2>2. \A kind, e : MethodAsked(a, kind, e) /\ LeftOf(a, kind, e) = e
      BY <1>3 DEF MethodAsked, LeftOf
  <2> QED
      BY <1>1, <2>1, <2>2 DEF left
<1>4. CASE Given(a.find)
  <2>1. left = [classes |-> KeepFound(a, n.classes), categories |-> KeepFound(a, n.categories),
                protocols |-> n.protocols]
      BY <1>2, <1>4 DEF KeepByMethod
  <2>2. /\ DOMAIN left = DOMAIN After /\ left = [kind \in DOMAIN After |-> left[kind]]
        /\ \A kind \in {"classes", "categories"} : left[kind] = KeepFound(a, n[kind])
        /\ left["protocols"] = n["protocols"]
      BY <1>a, <2>1
  <2>3. MetaOK(left)
    <3>1. MetaOK(KeepByMethod(a, n))
        BY <1>1, KeepByMethodShape
    <3> QED
        BY <1>2, <3>1
  <2>4. ASSUME NEW kind \in {"classes", "categories"}
        PROVE  Range(left[kind]) = {FoundOf(a, e) : e \in {x \in Range(n[kind]) : HasFound(a, x)}}
    <3>1. IsSeq(n[kind]) /\ \A k \in 1..Len(n[kind]) : HasMethods(n[kind][k])
        BY <1>1, <1>a DEF MetaOK, MetaIsRead
    <3>2. Range(KeepFound(a, n[kind])) = {FoundOf(a, e) : e \in {x \in Range(n[kind]) : HasFound(a, x)}}
        BY <3>1, KeepFoundIs
    <3> QED
        BY <2>2, <3>2
  <2>5. ASSUME NEW kind \in DOMAIN After
        PROVE  Range(left[kind]) =
                 {LeftOf(a, kind, e) : e \in {x \in Range(m[kind]) : NameAsked(a, kind, x) /\ MethodAsked(a, kind, x)}}
    <3>1. CASE kind = "protocols"
      <4>1. \A e : MethodAsked(a, kind, e) /\ LeftOf(a, kind, e) = e
          BY <3>1 DEF MethodAsked, LeftOf
      <4>2. Range(left[kind]) = {e \in Range(m[kind]) : NameAsked(a, kind, e)}
          BY <1>1, <2>2, <3>1
      <4> QED
          BY <4>1, <4>2
    <3>2. CASE kind # "protocols"
      <4>1. \A e : (MethodAsked(a, kind, e) <=> HasFound(a, e)) /\ LeftOf(a, kind, e) = FoundOf(a, e)
          BY <1>4, <3>2 DEF MethodAsked, LeftOf
      <4>2. Range(left[kind]) = {FoundOf(a, e) : e \in {x \in Range(n[kind]) : HasFound(a, x)}}
          BY <1>a, <2>4, <3>2
      <4>3. {x \in Range(n[kind]) : HasFound(a, x)} =
              {x \in Range(m[kind]) : NameAsked(a, kind, x) /\ MethodAsked(a, kind, x)}
          BY <1>1, <4>1
      <4> QED
          BY <4>1, <4>2, <4>3
    <3> QED
        BY <3>1, <3>2
  <2>6. ASSUME NEW kind \in {"classes", "categories"}, NEW k \in 1..Len(left[kind])
        PROVE  HasMethods(left[kind][k])
    <3>1. IsSeq(left[kind]) /\ IsSeq(n[kind]) /\ kind \in DOMAIN After
        BY <1>1, <1>a, <2>3 DEF MetaOK
    <3>2. k \in DOMAIN left[kind] /\ DOMAIN n[kind] = 1..Len(n[kind])
        BY <3>1, SeqShape
    <3>3. left[kind][k] \in {FoundOf(a, e) : e \in {x \in Range(n[kind]) : HasFound(a, x)}}
        BY <2>4, <3>2 DEF Range
    <3>4. PICK j \in 1..Len(n[kind]) : left[kind][k] = FoundOf(a, n[kind][j])
        BY <3>2, <3>3 DEF Range
    <3>5. HasMethods(n[kind][j])
        BY <1>1 DEF MetaIsRead
    <3> QED
        BY <3>4, <3>5, FoundOfIs
  <2> QED
      BY <2>2, <2>3, <2>5, <2>6 DEF left, MetaIsRead
<1> QED
    BY <1>3, <1>4

\* Of an image of which nothing is asked for nothing is left.
LEMMA NothingLeft ==
    ASSUME NEW m, MetaOK(m), MetaIsRead(m)
    PROVE  FilterMeta(args, m) = NoMeta <=> \A kind \in DOMAIN After : AskedOf(m)[kind] = {}
<1> DEFINE left == FilterMeta(args, m)
<1>1. /\ MetaOK(left) /\ MetaIsRead(left)
      /\ \A kind \in DOMAIN After :
           Range(left[kind]) =
             {LeftOf(args, kind, e) : e \in {x \in Range(m[kind]) : NameAsked(args, kind, x) /\ MethodAsked(args, kind, x)}}
    BY FilterMetaIs
<1> HIDE DEF left
<1>2. \A kind \in DOMAIN After :
        AskedOf(m)[kind] = {x \in Range(m[kind]) : NameAsked(args, kind, x) /\ MethodAsked(args, kind, x)}
    BY AskedHalves DEF AskedOf, MetaOK
<1>3. \A kind \in DOMAIN After : left[kind] = <<>> <=> Range(left[kind]) = {}
    BY <1>1, NothingThere DEF MetaOK
<1>4. ASSUME NEW kind \in DOMAIN After
      PROVE  left[kind] = <<>> <=> AskedOf(m)[kind] = {}
  <2> DEFINE T == {x \in Range(m[kind]) : NameAsked(args, kind, x) /\ MethodAsked(args, kind, x)}
  <2>1. Range(left[kind]) = {LeftOf(args, kind, e) : e \in T} /\ AskedOf(m)[kind] = T
      BY <1>1, <1>2
  <2> HIDE DEF T
  <2> QED
      BY <1>3, <2>1
<1>5. left = NoMeta <=> \A kind \in DOMAIN After : left[kind] = <<>>
  <2>1. left = [kind \in DOMAIN After |-> left[kind]]
      BY <1>1 DEF MetaIsRead
  <2>2. NoMeta = [kind \in DOMAIN After |-> <<>>]
      BY DEF NoMeta, After
  <2> QED
      BY <2>1, <2>2
<1> QED
    BY <1>4, <1>5 DEF left

\* Sorting moves entries and methods, and leaves them all there.
LEMMA SortMethodsIs ==
    ASSUME NEW es
    PROVE  Range(SortMethods(es)) = {SortedOf(e) : e \in Range(es)}
BY DEF SortMethods, SortedOf, Range

\* Of what the filters leave everything is printed, in whatever order (dump_all).
LEMMA DumpAllIs ==
    ASSUME NEW a, NEW m, MetaOK(m)
    PROVE  \A kind \in DOMAIN After :
             Range(DumpAll(a, m)[kind]) = {MovedOf(a, kind, e) : e \in Range(m[kind])}
<1>a. DOMAIN After = {"classes", "categories", "protocols"}
    BY DEF After
<1> DEFINE byName == a.sortName /\ ~a.inheritance
           ps == IF byName THEN SortedBy(m.protocols, ByName) ELSE m.protocols
           cs == IF a.inheritance THEN ByInheritance(m.classes)
                 ELSE IF byName THEN SortedBy(m.classes, ByName) ELSE m.classes
           gs == IF byName THEN SortedBy(m.categories, ByClassAndName) ELSE m.categories
           methods(es) == IF a.sortMethods THEN SortMethods(es) ELSE es
           said == DumpAll(a, m)
<1>1. said = [protocols |-> ps, classes |-> methods(cs), categories |-> methods(gs)]
    BY DEF DumpAll
<1>2. IsSeq(m.classes) /\ IsSeq(m.categories) /\ IsSeq(m.protocols)
    BY <1>a DEF MetaOK
<1>3. Range(ps) = Range(m.protocols)
    BY <1>2, SortedByNameShape
<1>4. Range(cs) = Range(m.classes)
    BY <1>2, SortedByNameShape, ByInheritanceShape
<1>5. Range(gs) = Range(m.categories)
    BY <1>2, SortedByClassShape
<1> HIDE DEF ps, cs, gs, said
<1>6. ASSUME NEW kind \in {"classes", "categories"}, NEW es
      PROVE  Range(methods(es)) = {MovedOf(a, kind, e) : e \in Range(es)}
  <2>1. CASE a.sortMethods
    <3>1. \A e : MovedOf(a, kind, e) = SortedOf(e)
        BY <2>1 DEF MovedOf
    <3>2. Range(methods(es)) = {SortedOf(e) : e \in Range(es)}
        BY <2>1, SortMethodsIs
    <3> QED
        BY <3>1, <3>2
  <2>2. CASE ~a.sortMethods
    <3>1. \A e : MovedOf(a, kind, e) = e
        BY <2>2 DEF MovedOf
    <3>2. methods(es) = es
        BY <2>2
    <3> HIDE DEF methods
    <3> QED
        BY <3>1, <3>2
  <2> QED
      BY <2>1, <2>2
<1> HIDE DEF methods
<1>7. \A e : MovedOf(a, "protocols", e) = e
    BY DEF MovedOf
<1>8. said["protocols"] = ps /\ said["classes"] = methods(cs) /\ said["categories"] = methods(gs)
    BY <1>1
<1>9. Range(said["protocols"]) = {MovedOf(a, "protocols", e) : e \in Range(m["protocols"])}
    BY <1>3, <1>7, <1>8
<1>10. Range(said["classes"]) = {MovedOf(a, "classes", e) : e \in Range(m["classes"])}
    BY <1>4, <1>6, <1>8
<1>11. Range(said["categories"]) = {MovedOf(a, "categories", e) : e \in Range(m["categories"])}
    BY <1>5, <1>6, <1>8
<1> QED
    BY <1>a, <1>9, <1>10, <1>11 DEF said

\* What is printed of an image is what is asked for, but for methods that -f leaves out.
LEMMA DumpSaysWhatIsAsked ==
    ASSUME NEW m, MetaOK(m), MetaIsRead(m), NEW kind \in DOMAIN After
    PROVE  LET asked == AskedOf(m)[kind]
               said == DumpAll(args, FilterMeta(args, m))[kind]
           IN  /\ \A e \in asked : \E d \in Range(said) : SameBut(kind, e, d)
               /\ \A d \in Range(said) : \E e \in asked : SameBut(kind, e, d)
<1> DEFINE asked == AskedOf(m)[kind]
           left == FilterMeta(args, m)
           said == DumpAll(args, left)[kind]
<1>1. asked = {x \in Range(m[kind]) : NameAsked(args, kind, x) /\ MethodAsked(args, kind, x)}
    BY AskedHalves DEF AskedOf, MetaOK
<1>2. MetaOK(left) /\ Range(left[kind]) =
        {LeftOf(args, kind, e) : e \in {x \in Range(m[kind]) : NameAsked(args, kind, x) /\ MethodAsked(args, kind, x)}}
    BY FilterMetaIs
<1>3. Range(said) = {MovedOf(args, kind, e) : e \in Range(left[kind])}
    BY <1>2, DumpAllIs
<1>4. ASSUME NEW e \in asked
      PROVE  SameBut(kind, e, MovedOf(args, kind, LeftOf(args, kind, e)))
  <2>1. kind # "protocols" => kind \in {"classes", "categories"}
      BY DEF After
  <2>2. DOMAIN m[kind] = 1..Len(m[kind]) /\ e \in Range(m[kind])
      BY <1>1, SeqShape DEF MetaOK
  <2>3. kind # "protocols" => HasMethods(e)
      BY <2>1, <2>2 DEF MetaIsRead, Range
  <2> QED
      BY <2>3, IsTheSameBut
<1> HIDE DEF asked, said, left
<1>5. Range(said) = {MovedOf(args, kind, LeftOf(args, kind, e)) : e \in asked}
    BY <1>1, <1>2, <1>3
<1>6. /\ \A e \in asked : \E d \in Range(said) : SameBut(kind, e, d)
      /\ \A d \in Range(said) : \E e \in asked : SameBut(kind, e, d)
    BY <1>4, <1>5
<1> QED
    BY <1>6 DEF asked, said, left

-----------------------------------------------------------------------------
(* What is printed of all images.                                            *)

\* A sequence is another with one more entry at its end.
OneLonger(more, few, e) ==
    /\ Len(more) = Len(few) + 1
    /\ \A i \in 1..Len(few) : more[i] = few[i]
    /\ more[Len(few) + 1] = e

\* With one more position behind the others there is one more entry at the end.
LEMMA OneMoreAt ==
    ASSUME NEW es, NEW fs, NEW n \in Nat, NEW ks \in SUBSET (1..n), \A k \in ks : fs[k] = es[k]
    PROVE  OneLonger(EntriesAt(fs, ks \cup {n + 1}), EntriesAt(es, ks), fs[n + 1])
<1> DEFINE more == ks \cup {n + 1}
           c == Cardinality(ks)
<1>1. n \in Int /\ n + 1 \in Int /\ more \in SUBSET (1..(n + 1)) /\ n + 1 \notin ks /\ \A k \in ks : k \in Int /\ k < n + 1
    OBVIOUS
<1>2. /\ IsFiniteSet(ks) /\ c \in Nat /\ Len(EntriesAt(es, ks)) = c
      /\ \A k \in ks : RankIn(ks, k) \in 1..c /\ EntriesAt(es, ks)[RankIn(ks, k)] = es[k]
      /\ \A i \in 1..c : \E k \in ks : RankIn(ks, k) = i
    BY <1>1, EntriesAtRanks
<1>3. Cardinality(more) = c + 1
    BY <1>1, <1>2, FS_AddElement
<1>4. ASSUME NEW k \in ks
      PROVE  RankIn(more, k) = RankIn(ks, k)
  <2>1. {j \in more : j < k} = {j \in ks : j < k}
      BY <1>1
  <2> QED
      BY <2>1 DEF RankIn
<1>5. RankIn(more, n + 1) = c + 1
  <2>0. ~(n + 1 < n + 1) /\ (\A j \in ks : j < n + 1) /\ \A j : j \in more <=> j \in ks \/ j = n + 1
      BY <1>1
  <2> HIDE DEF more
  <2>1. {j \in more : j < n + 1} = ks
      BY <2>0
  <2> QED
      BY <2>1 DEF RankIn
<1>6. n + 1 \in more /\ ks \subseteq more
    OBVIOUS
<1> HIDE DEF more, c
<1>7. /\ Len(EntriesAt(fs, more)) = Cardinality(more)
      /\ \A k \in more : EntriesAt(fs, more)[RankIn(more, k)] = fs[k]
    BY <1>1, EntriesAtRanks
<1>8. ASSUME NEW i \in 1..c
      PROVE  EntriesAt(fs, more)[i] = EntriesAt(es, ks)[i]
  <2>1. PICK k \in ks : RankIn(ks, k) = i
      BY <1>2
  <2>2. EntriesAt(fs, more)[RankIn(more, k)] = fs[k]
      BY <1>6, <1>7
  <2>3. EntriesAt(es, ks)[RankIn(ks, k)] = es[k]
      BY <1>2
  <2> QED
      BY <1>4, <2>1, <2>2, <2>3
<1>9. EntriesAt(fs, more)[c + 1] = fs[n + 1]
    BY <1>5, <1>6, <1>7
<1> QED
    BY <1>2, <1>3, <1>7, <1>8, <1>9 DEF more, OneLonger

\* At no positions there are no entries.
LEMMA NoneAt ==
    ASSUME NEW es
    PROVE  Len(EntriesAt(es, {})) = 0
<1>1. 0 \in Int /\ {} \in SUBSET (1..0)
    OBVIOUS
<1>2. Len(EntriesAt(es, {})) = Cardinality({})
    BY <1>1, EntriesAtShape
<1> QED
    BY <1>2, FS_EmptySet

\* Which of the lines printed are dumps.
DumpsIn(lines) == {k \in DOMAIN lines : lines[k].what = "dump"}

\* The first n images of which the filters leave something.
LeftIn(a, ms, n) == {k \in 1..n : FilterMeta(a, ms[k]) # NoMeta}

\* Each of some dumps is that of one of as many images.
AreDumpsOf(a, ds, ms) ==
    /\ Len(ds) = Len(ms)
    /\ \A i \in 1..Len(ms) : ds[i].said = DumpAll(a, FilterMeta(a, ms[i]))

\* So are those printed of the first n images, in their order, with no image left out.
Dumped(a, lines, ms, n) ==
    AreDumpsOf(a, EntriesAt(lines, DumpsIn(lines)), EntriesAt(ms, LeftIn(a, ms, n)))

\* Nothing has failed, and it is dumps that are printed.
Dumping == status \in {"running", "ok"} /\ args.diff = NoDiff /\ ~args.headers

\* The inductive invariant: what was printed are the dumps of the images so far.
PrintInv ==
    /\ HeadInv /\ ReadInv
    /\ IsSeq(printed)
    /\ status = "ready" => printed = <<>>
    /\ Dumping => Dumped(args, printed, metas, emitted)

\* Before anything is printed nothing has to be.
LEMMA NothingDumped ==
    ASSUME NEW a, NEW lines, NEW ms, DumpsIn(lines) = {}
    PROVE  Dumped(a, lines, ms, 0)
<1>1. LeftIn(a, ms, 0) = {}
    BY DEF LeftIn
<1>2. Len(EntriesAt(lines, DumpsIn(lines))) = 0 /\ Len(EntriesAt(ms, LeftIn(a, ms, 0))) = 0
    BY <1>1, NoneAt
<1>3. \A i \in 1..0 : FALSE
    OBVIOUS
<1> QED
    BY <1>2, <1>3 DEF Dumped, AreDumpsOf

\* An image of which nothing is left changes nothing.
LEMMA NoDumpOfNothing ==
    ASSUME NEW a, NEW lines, NEW ms, NEW n \in Nat, Dumped(a, lines, ms, n),
           FilterMeta(a, ms[n + 1]) = NoMeta
    PROVE  Dumped(a, lines, ms, n + 1)
<1>1. LeftIn(a, ms, n + 1) = LeftIn(a, ms, n)
  <2>1. \A k : k \in 1..(n + 1) <=> k \in 1..n \/ k = n + 1
      OBVIOUS
  <2> QED
      BY <2>1 DEF LeftIn
<1> QED
    BY <1>1 DEF Dumped

\* One of which something is left is printed after the others.
LEMMA OneMoreDump ==
    ASSUME NEW a, NEW lines, IsSeq(lines), NEW ms, NEW n \in Nat, Dumped(a, lines, ms, n),
           FilterMeta(a, ms[n + 1]) # NoMeta, NEW said, said = DumpAll(a, FilterMeta(a, ms[n + 1]))
    PROVE  Dumped(a, Append(lines, [what |-> "dump", said |-> said]), ms, n + 1)
<1> DEFINE line == [what |-> "dump", said |-> said]
           more == Append(lines, line)
           ks == DumpsIn(lines)
           js == LeftIn(a, ms, n)
           l == Len(lines)
<1>1. line.what = "dump" /\ line.said = said
    OBVIOUS
<1> HIDE DEF line
<1>2. l \in Nat /\ DOMAIN lines = 1..l
    BY SeqShape
<1>3. IsSeq(more) /\ Len(more) = l + 1 /\ (\A k \in 1..l : more[k] = lines[k]) /\ more[l + 1] = line
    BY AppendShape
<1>4. DOMAIN more = 1..(l + 1)
    BY <1>3, SeqShape
<1>5. \A k : k \in 1..(l + 1) <=> k \in 1..l \/ k = l + 1
    BY <1>2
<1>6. ks \in SUBSET (1..l) /\ \A k \in ks : more[k] = lines[k]
    BY <1>2, <1>3 DEF DumpsIn
<1> HIDE DEF more, l
<1>7. DumpsIn(more) = ks \cup {l + 1}
    BY <1>1, <1>2, <1>3, <1>4, <1>5 DEF DumpsIn
<1>8. \A k : k \in 1..(n + 1) <=> k \in 1..n \/ k = n + 1
    OBVIOUS
<1>9. LeftIn(a, ms, n + 1) = js \cup {n + 1} /\ js \in SUBSET (1..n)
    BY <1>8 DEF LeftIn
<1> HIDE DEF ks, js
<1> DEFINE ds == EntriesAt(lines, ks)
           ns == EntriesAt(ms, js)
           dm == EntriesAt(more, ks \cup {l + 1})
           nm == EntriesAt(ms, js \cup {n + 1})
<1>a. OneLonger(EntriesAt(more, ks \cup {l + 1}), EntriesAt(lines, ks), more[l + 1])
    BY ONLY <1>2, <1>6, OneMoreAt
<1>b. \A k \in js : ms[k] = ms[k]
    OBVIOUS
<1>c. OneLonger(EntriesAt(ms, js \cup {n + 1}), EntriesAt(ms, js), ms[n + 1])
    BY ONLY <1>9, <1>b, n \in Nat, OneMoreAt
<1>10. Len(dm) = Len(ds) + 1 /\ (\A i \in 1..Len(ds) : dm[i] = ds[i]) /\ dm[Len(ds) + 1] = more[l + 1]
    BY <1>a DEF OneLonger
<1>11. Len(nm) = Len(ns) + 1 /\ (\A i \in 1..Len(ns) : nm[i] = ns[i]) /\ nm[Len(ns) + 1] = ms[n + 1]
    BY <1>c DEF OneLonger
<1>12. Len(ns) \in Nat
    BY <1>9, EntriesAtShape
<1>13. Len(ds) = Len(ns) /\ \A i \in 1..Len(ns) : ds[i].said = DumpAll(a, FilterMeta(a, ns[i]))
    BY DEF Dumped, AreDumpsOf, ks, js
<1> HIDE DEF ds, ns, dm, nm
<1>14. ASSUME NEW i \in 1..Len(nm)
       PROVE  dm[i].said = DumpAll(a, FilterMeta(a, nm[i]))
  <2>1. CASE i \in 1..Len(ns)
    <3>1. dm[i] = ds[i] /\ nm[i] = ns[i]
        BY <1>10, <1>11, <1>13, <2>1
    <3> QED
        BY <1>13, <2>1, <3>1
  <2>2. CASE i \notin 1..Len(ns)
    <3>1. i = Len(ns) + 1
        BY <1>11, <1>12, <2>2
    <3>2. dm[i] = line /\ nm[i] = ms[n + 1]
        BY <1>3, <1>10, <1>11, <1>13, <3>1
    <3> QED
        BY <1>1, <3>2
  <2> QED
      BY <2>1, <2>2
<1>15. AreDumpsOf(a, dm, nm)
    BY <1>10, <1>11, <1>13, <1>14 DEF AreDumpsOf
<1>16. Dumped(a, more, ms, n + 1)
    BY <1>7, <1>9, <1>15 DEF Dumped, dm, nm
<1> QED
    BY <1>16 DEF more, line

\* The steps of the command keep PrintInv.
LEMMA PrintInvStep ==
    ASSUME PrintInv, [Next]_vars
    PROVE  PrintInv'
<1>0. TypeInv /\ HeadInv' /\ ReadInv'
    BY HeadInvStep, ReadInvStep DEF PrintInv, HeadInv
<1>a. IsSeq(metas) /\ Len(metas) \in Nat /\ emitted \in 0..Len(metas) /\ IsSeq(printed)
    BY <1>0, SeqShape DEF PrintInv, TypeInv, MetasOK
<1>b. \A e : IsSeq(Append(printed, e))
    BY <1>a, AppendShape
<1>1. CASE Start
  <2>1. /\ status = "ready" /\ printed = <<>> /\ emitted = 0
        /\ emitted' = emitted /\ args' = args /\ metas' = metas /\ status' # "ready"
      BY <1>1 DEF Start, Error, PrintInv, HeadInv
  <2>2. printed' = printed \/ printed' = <<>> \/ printed' = <<[what |-> "refs", said |-> ParseRefs(args.image)]>>
      BY <1>1 DEF Start
  <2>3. IsSeq(printed') /\ DumpsIn(printed') = {}
    <3> DEFINE line == [what |-> "refs", said |-> ParseRefs(args.image)]
    <3>1. line.what # "dump"
        OBVIOUS
    <3> HIDE DEF line
    <3>2. IsSeq(<<line>>) /\ DumpsIn(<<line>>) = {}
      <4>1. DOMAIN <<line>> = {1} /\ <<line>>[1] = line
          OBVIOUS
      <4> QED
          BY <3>1, <4>1, OneShape DEF DumpsIn
    <3>3. IsSeq(<<>>) /\ DumpsIn(<<>>) = {}
      <4>1. IsSeq(<<>>) /\ DOMAIN <<>> = {}
        <5>1. IsSeq(<<>>) /\ Len(<<>>) = 0
            BY OneShape
        <5>2. DOMAIN <<>> = 1..0
            BY <5>1, SeqShape
        <5> QED
            BY <5>1, <5>2
      <4> DEFINE empty == <<>>
      <4>2. DOMAIN empty = {}
          BY <4>1
      <4> HIDE DEF empty
      <4>3. DumpsIn(empty) = {}
          BY <4>2 DEF DumpsIn
      <4> QED
          BY <4>1, <4>3 DEF empty
    <3> QED
        BY <2>1, <2>2, <3>2, <3>3 DEF line
  <2>4. Dumped(args', printed', metas', emitted')
      BY <2>1, <2>3, NothingDumped
  <2> QED
      BY <1>0, <2>1, <2>3, <2>4 DEF PrintInv
<1>2. CASE UNCHANGED <<args, metas, emitted, printed, status>>
    BY <1>0, <1>2 DEF PrintInv, Dumping
<1>3. CASE WasRead
  <2>1. /\ todo # <<>> /\ status = "running" /\ metas' = Append(metas, meta)
        /\ UNCHANGED <<args, emitted, printed, status>>
      BY <1>3 DEF WasRead, Reading
  <2>2. emitted = 0
      BY <1>a, <2>1 DEF PrintInv, HeadInv
  <2>3. ASSUME Dumping'
        PROVE  Dumped(args', printed', metas', emitted')
    <3>1. Dumped(args, printed, metas, 0)
        BY <2>1, <2>2, <2>3 DEF PrintInv, Dumping
    <3>2. LeftIn(args, metas, 0) = {} /\ LeftIn(args, metas', 0) = {}
        BY DEF LeftIn
    <3>3. Len(EntriesAt(metas, {})) = 0 /\ Len(EntriesAt(metas', {})) = 0
        BY NoneAt
    <3>4. Len(EntriesAt(printed, DumpsIn(printed))) = 0
        BY <3>1, <3>2, <3>3 DEF Dumped, AreDumpsOf
    <3>5. \A i \in 1..0 : FALSE
        OBVIOUS
    <3>6. Dumped(args, printed, metas', 0)
        BY <3>2, <3>3, <3>4, <3>5 DEF Dumped, AreDumpsOf
    <3> QED
        BY <2>1, <2>2, <3>6
  <2> QED
      BY <1>0, <2>1, <2>3 DEF PrintInv
<1>4. CASE CouldNotBeRead \/ WriteFails
  <2>1. /\ UNCHANGED <<args, metas, emitted, printed>>
        /\ status' = status \/ status' = "error"
      BY <1>4 DEF CouldNotBeRead, WriteFails, Error
  <2> QED
      BY <1>0, <2>1 DEF PrintInv, Dumping
<1>5. CASE PrintDiff
  <2>1. args.diff # NoDiff /\ args' = args /\ status' = "ok"
        /\ \E line : printed' = Append(printed, line)
      BY <1>5 DEF PrintDiff
  <2> QED
      BY <1>0, <1>b, <2>1 DEF PrintInv, Dumping
<1>6. CASE Emit
  <2> DEFINE left == FilterMeta(args, metas[emitted + 1])
             line == [what |-> "dump", said |-> DumpAll(args, left)]
  <2>1. /\ emitted' = emitted + 1 /\ UNCHANGED <<args, metas, status>>
        /\ status = "running" /\ args.diff = NoDiff /\ emitted \in Nat
      BY <1>6, <1>a DEF Emit, AllRead
  <2>2. \/ left = NoMeta /\ printed' = printed
        \/ left # NoMeta /\ args.headers /\ printed' = printed
        \/ left # NoMeta /\ ~args.headers /\ printed' = Append(printed, line)
      BY <1>6 DEF Emit
  <2> HIDE DEF left, line
  <2>3. IsSeq(printed')
      BY <1>a, <1>b, <2>2
  <2>4. ASSUME Dumping'
        PROVE  Dumped(args', printed', metas', emitted')
    <3>1. ~args.headers /\ Dumped(args, printed, metas, emitted)
        BY <2>1, <2>4 DEF Dumping, PrintInv
    <3>2. CASE left = NoMeta
      <4>1. printed' = printed
          BY <2>2, <3>2
      <4>2. Dumped(args, printed, metas, emitted + 1)
          BY <2>1, <3>1, <3>2, NoDumpOfNothing DEF left
      <4> QED
          BY <2>1, <4>1, <4>2
    <3>3. CASE left # NoMeta
      <4>1. printed' = Append(printed, line)
          BY <2>2, <3>1, <3>3
      <4>2. Dumped(args, Append(printed, [what |-> "dump", said |-> DumpAll(args, left)]), metas, emitted + 1)
          BY <1>a, <2>1, <3>1, <3>3, OneMoreDump DEF left
      <4> QED
          BY <2>1, <4>1, <4>2 DEF line
    <3> QED
        BY <3>2, <3>3
  <2> QED
      BY <1>0, <2>1, <2>3, <2>4 DEF PrintInv
<1>7. CASE Finish
  <2>1. UNCHANGED <<args, metas, emitted, printed>> /\ status = "running" /\ status' = "ok"
      BY <1>7 DEF Finish, AllRead
  <2> QED
      BY <1>0, <2>1 DEF PrintInv, Dumping
<1>8. Read \/ WriteHeader \/ UNCHANGED vars => UNCHANGED <<args, metas, emitted, printed, status>>
    BY DEF Read, WriteHeader, vars, cliVars
<1> QED
    BY <1>1, <1>2, <1>3, <1>4, <1>5, <1>6, <1>7, <1>8 DEF Next

\* PrintInv holds when the command starts.
LEMMA PrintInvInit == Init => PrintInv
<1> SUFFICES ASSUME Init
             PROVE  PrintInv
    OBVIOUS
<1>1. printed = <<>> /\ status = "ready" /\ IsSeq(<<>>)
    BY OneShape DEF Init
<1> QED
    BY <1>1, HeadInvInit, ReadInvInit DEF PrintInv, Dumping

\* PrintInv says of the end of a run what was asked for.
LEMMA PrintInvSuffices ==
    ASSUME PrintInv, status = "ok", args.diff = NoDiff, ~args.headers
    PROVE  LET dumps == EntriesAt(printed, {k \in DOMAIN printed : printed[k].what = "dump"})
               some == EntriesAt(metas, {k \in DOMAIN metas :
                                            \E kind \in DOMAIN After : AskedOf(metas[k])[kind] # {}})
           IN  /\ Len(dumps) = Len(some)
               /\ \A i \in DOMAIN dumps : \A kind \in DOMAIN After :
                    LET asked == AskedOf(some[i])[kind]
                        said == dumps[i].said[kind]
                    IN  /\ \A e \in asked : \E d \in Range(said) : SameBut(kind, e, d)
                        /\ \A d \in Range(said) : \E e \in asked : SameBut(kind, e, d)
<1> DEFINE full == {k \in DOMAIN metas : \E kind \in DOMAIN After : AskedOf(metas[k])[kind] # {}}
           said == {k \in DOMAIN printed : printed[k].what = "dump"}
           dumps == EntriesAt(printed, said)
           some == EntriesAt(metas, full)
<1>1. emitted = Len(metas) /\ Dumped(args, printed, metas, emitted) /\ IsSeq(printed)
    BY DEF PrintInv, HeadInv, Dumping
<1>2. IsSeq(metas) /\ Len(metas) \in Nat /\ DOMAIN metas = 1..Len(metas) /\ Len(metas) \in Int
    BY SeqShape DEF PrintInv, HeadInv, TypeInv, MetasOK
<1>3. Len(printed) \in Int /\ DOMAIN printed = 1..Len(printed)
    BY <1>1, SeqShape
<1>4. \A k \in 1..Len(metas) : MetaOK(metas[k]) /\ MetaIsRead(metas[k])
    BY DEF PrintInv, HeadInv, TypeInv, MetasOK, ReadInv
<1>5. LeftIn(args, metas, Len(metas)) = full
  <2>1. ASSUME NEW k \in 1..Len(metas)
        PROVE  FilterMeta(args, metas[k]) # NoMeta <=> \E kind \in DOMAIN After : AskedOf(metas[k])[kind] # {}
      BY <1>4, NothingLeft
  <2> QED
      BY <1>2, <2>1 DEF LeftIn
<1>6. AreDumpsOf(args, dumps, some)
    BY <1>1, <1>5 DEF Dumped, DumpsIn
<1>7. full \in SUBSET (1..Len(metas)) /\ said \in SUBSET (1..Len(printed))
    BY <1>2, <1>3
<1> HIDE DEF full, said
<1>8. IsSeq(some) /\ IsSeq(dumps) /\ Range(some) = {metas[k] : k \in full}
  <2>1. IsSeq(some) /\ Range(some) = {metas[k] : k \in full}
      BY <1>2, <1>7, EntriesAtShape
  <2>2. IsSeq(dumps)
      BY <1>3, <1>7, EntriesAtShape
  <2> QED
      BY <2>1, <2>2
<1> HIDE DEF dumps, some
<1>9. Len(dumps) = Len(some) /\ DOMAIN dumps = 1..Len(some) /\ DOMAIN some = 1..Len(some)
    BY <1>6, <1>8, SeqShape DEF AreDumpsOf
<1>10. ASSUME NEW i \in DOMAIN dumps, NEW kind \in DOMAIN After
       PROVE  /\ \A e \in AskedOf(some[i])[kind] :
                   \E d \in Range(dumps[i].said[kind]) : SameBut(kind, e, d)
              /\ \A d \in Range(dumps[i].said[kind]) :
                   \E e \in AskedOf(some[i])[kind] : SameBut(kind, e, d)
  <2>1. dumps[i].said = DumpAll(args, FilterMeta(args, some[i]))
      BY <1>6, <1>9 DEF AreDumpsOf
  <2>2. PICK k \in full : some[i] = metas[k]
      BY <1>8, <1>9 DEF Range
  <2>3. MetaOK(some[i]) /\ MetaIsRead(some[i])
      BY <1>4, <1>7, <2>2
  <2> QED
      BY <2>1, <2>3, DumpSaysWhatIsAsked
<1> QED
    BY <1>9, <1>10 DEF dumps, some, full, said

\* What is printed is what is asked for (filter_meta and dump_all): of each image, one
\* behind the other, the classes, categories and protocols that the patterns leave,
\* whatever they are, whatever was lost where the image is damaged, and whatever the
\* order asked for.
THEOREM PrintsAlwaysWhatIsAsked == Spec => []PrintsWhatIsAsked
<1>1. Init => PrintInv
    BY PrintInvInit
<1>2. PrintInv => PrintsWhatIsAsked
    BY PrintInvSuffices DEF PrintsWhatIsAsked
<1>3. PrintInv /\ [Next]_vars => PrintInv'
    BY PrintInvStep
<1> QED
    BY <1>1, <1>2, <1>3, PTL DEF Spec
=============================================================================
