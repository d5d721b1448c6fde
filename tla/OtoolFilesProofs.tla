-------------------------- MODULE OtoolFilesProofs -------------------------
(***************************************************************************)
(* Theorems about the slices that otool dumps, for all command lines.       *)
(***************************************************************************)
EXTENDS OtoolFiles, FiniteSetTheorems, TLAPS

\* With no architecture named, a binary is opened at the slice at which parse,
\* which prefers "arm64" by name, opens it: the two functions of
\* crates/macho_core/src/file.rs agree on every file.
LEMMA SameDefault ==
    ASSUME NEW f, f.kind \in {"thin", "fat"}
    PROVE  Parse(f) = ParseArch(f, NoArch)
<1>0. "arm64" # NoArch
    BY NoArchAssumption DEF Archs
<1>1. CASE ParseArch(f, "arm64") = {}
    BY <1>1 DEF Parse
<1>2. CASE ParseArch(f, "arm64") # {}
    <2>1. CASE f.kind = "thin"
        <3>1. ParseArch(f, "arm64") = {1}
            BY <1>0, <1>2, <2>1 DEF ParseArch
        <3>2. ParseArch(f, NoArch) = {1}
            BY <1>0, <2>1, <3>1 DEF ParseArch
        <3> QED
            BY <1>2, <3>1, <3>2 DEF Parse
    <2>2. CASE f.kind # "thin"
        <3>1. FatSelect(f.slices, "arm64") # {}
            BY <1>2, <2>2 DEF ParseArch
        <3>2. FatSelect(f.slices, NoArch) = FatSelect(f.slices, "arm64")
            BY <1>0, <3>1 DEF FatSelect
        <3> QED
            BY <1>2, <2>2, <3>2 DEF Parse, ParseArch
    <2> QED
        BY <2>1, <2>2
<1> QED
    BY <1>1, <1>2

\* Every architecture that is in a fat table, and so is listed, can be asked
\* for by its name.
LEMMA ListedCanBeAskedFor ==
    ASSUME NEW slices \in Seq(Slice), NEW s \in Range(slices)
    PROVE  FatSelect(slices, ArchName(s.arch)) # {}
<1>1. PICK k \in DOMAIN slices : slices[k] = s
    BY DEF Range
<1>2. s \in Slice /\ s.arch \in Archs
    BY <1>1 DEF Slice
<1>3. ArchName(s.arch) # NoArch
    BY <1>2, NoArchAssumption DEF ArchName, Archs
<1>4. k \in 1..Len(slices) /\ ArchMatches(ArchName(s.arch), slices[k].arch)
    BY <1>1 DEF ArchMatches
<1> QED
    BY <1>3, <1>4 DEF FatSelect

\* The commands that call parse and the ones that call parse_arch look at the
\* same slice, and what is listed can be asked for, on every command line.
THEOREM DefaultsAlwaysAgree == Spec => []DefaultsAgree
<1>1. \A fs \in Inputs : \A f \in Range(fs) : f \in File
    <2> SUFFICES ASSUME NEW fs \in Inputs, NEW f \in Range(fs)
                 PROVE  f \in File
        OBVIOUS
    <2>1. fs \in Seq(File)
        BY InputsAssumption
    <2> QED
        BY <2>1 DEF Range
<1>2. Init => files \in Inputs
    BY DEF Init
<1>3. files \in Inputs /\ [Next]_vars => (files \in Inputs)'
    BY DEF Next, vars, LoadObject, DumpArchives, DumpFatHeaders, DumpNext, DumpOne, Finish,
           Constant
<1>4. files \in Inputs => DefaultsAgree
    <2> SUFFICES ASSUME files \in Inputs, NEW f \in Range(files)
                 PROVE  /\ Parse(f) = ParseArch(f, NoArch)
                        /\ \A s \in Range(f.slices) : FatSelect(f.slices, ArchName(s.arch)) # {}
        BY DEF DefaultsAgree
    <2>1. f.kind \in {"thin", "fat"} /\ f.slices \in Seq(Slice)
        BY <1>1 DEF File
    <2> QED
        BY <2>1, SameDefault, ListedCanBeAskedFor
<1> QED
    BY <1>2, <1>3, <1>4, PTL DEF Spec

-----------------------------------------------------------------------------
(* Types.                                                                    *)

\* Where the command stands fits what was asked for.
TypeInv ==
    /\ files \in Inputs /\ want \in Wants \cup {NoArch} /\ flags \subseteq Flags
    /\ TypeOK
    /\ at > Len(files) => pc = "load"
    /\ pc = "all" => want = "all" /\ files[at].kind = "fat"
    /\ pc = "one" => "thin" \in flags /\ ~(want = "all" /\ files[at].kind = "fat")

\* The files of a command line are thin, with one slice, or fat.
LEMMA FilesAreTyped ==
    ASSUME NEW fs \in Inputs
    PROVE  /\ Len(fs) \in Nat /\ DOMAIN fs = 1..Len(fs)
           /\ \A n \in 1..Len(fs) :
                /\ fs[n] \in File /\ fs[n].kind \in {"thin", "fat"}
                /\ fs[n].slices \in Seq(Slice) /\ Len(fs[n].slices) \in Nat
                /\ DOMAIN fs[n].slices = 1..Len(fs[n].slices)
                /\ fs[n].kind = "thin" => Len(fs[n].slices) = 1
<1>1. fs \in Seq(File) /\ \A f \in Range(fs) : f.kind = "thin" => Len(f.slices) = 1
    BY InputsAssumption
<1>2. \A n \in 1..Len(fs) : fs[n] \in File /\ fs[n] \in Range(fs)
    BY <1>1 DEF Range
<1>3. \A n \in 1..Len(fs) : fs[n].kind \in {"thin", "fat"} /\ fs[n].slices \in Seq(Slice)
    BY <1>2 DEF File
<1> QED
    BY <1>1, <1>2, <1>3

\* A set of numbers that is not empty has a least one.
LEMMA LeastIsThere ==
    ASSUME NEW S \in SUBSET Nat, S # {}
    PROVE  Min(S) \in S
<1> DEFINE R == OpToRel(<, Nat)
<1>1. IsWellFoundedOn(R, Nat)
    BY NatLessThanWellFounded
<1>2. \A x, y \in Nat : x < y => <<x, y>> \in R
    BY DEF OpToRel
<1> HIDE DEF R
<1>3. PICK x \in S : \A y \in S : ~(<<y, x>> \in R)
    BY <1>1, WFMin
<1>4. \A y \in S : ~(y < x)
    BY <1>2, <1>3
<1>5. \A y \in S : y \in Nat
    OBVIOUS
<1>6. \A y \in S : x <= y
    BY <1>3, <1>4, <1>5
<1> QED
    BY <1>3, <1>6 DEF Min

\* A slice that is opened for a name is one that the name stands for.
LEMMA FoundMatches ==
    ASSUME NEW f \in File, f.kind = "thin" => Len(f.slices) = 1,
           NEW w, w # NoArch, NEW k \in ParseArch(f, w)
    PROVE  k \in 1..Len(f.slices) /\ ArchMatches(w, f.slices[k].arch)
<1>0. Len(f.slices) \in Nat /\ f.kind \in {"thin", "fat"}
    BY DEF File
<1>1. CASE f.kind = "thin"
    BY <1>0, <1>1 DEF ParseArch
<1>2. CASE f.kind # "thin"
    <2> DEFINE matching == {j \in 1..Len(f.slices) : ArchMatches(w, f.slices[j].arch)}
    <2>1. k \in FatSelect(f.slices, w)
        BY <1>2 DEF ParseArch
    <2>2. matching # {} /\ k = Min(matching)
        BY <2>1 DEF FatSelect
    <2>3. matching \in SUBSET Nat
        BY <1>0
    <2>4. Min(matching) \in matching
        BY <2>2, <2>3, LeastIsThere
    <2> QED
        BY <2>2, <2>4
<1> QED
    BY <1>1, <1>2

\* The slice that is opened for no name is an ARM64 one if there is one, and one
\* without pointer authentication if there is one of these.
LEMMA FoundIsPreferred ==
    ASSUME NEW f \in File, f.kind = "thin" => Len(f.slices) = 1, NEW k \in ParseArch(f, NoArch)
    PROVE  /\ k \in 1..Len(f.slices)
           /\ \A s \in Range(f.slices) :
                /\ s.arch \in {"arm64", "arm64v8", "arm64e"} => CpuType(f.slices[k].arch) = "ARM64"
                /\ s.arch \in {"arm64", "arm64v8"} => f.slices[k].arch # "arm64e"
<1> DEFINE all == 1..Len(f.slices)
           of(j) == f.slices[j].arch
           plain == {j \in all : ArchMatches("arm64", of(j))}
           signed == {j \in all : ArchMatches("arm64e", of(j))}
           ofType == {j \in all : CpuType(of(j)) = "ARM64"}
<1>0. Len(f.slices) \in Nat /\ f.kind \in {"thin", "fat"} /\ all \in SUBSET Nat
      /\ (\A j \in all : of(j) \in Archs) /\ (\A s \in Range(f.slices) : \E j \in all : s = f.slices[j])
    BY DEF File, Slice, Range
<1>1. CASE f.kind = "thin"
    <2>1. k = 1 /\ Len(f.slices) = 1
        BY <1>1 DEF ParseArch
    <2>2. \A s \in Range(f.slices) : s = f.slices[k]
        BY <1>0, <2>1
    <2> QED
        BY <2>1, <2>2 DEF CpuType
<1>2. CASE f.kind # "thin"
    <2>1. k \in FatSelect(f.slices, NoArch)
        BY <1>2 DEF ParseArch
    <2>2. \/ plain # {} /\ k = Min(plain)
          \/ plain = {} /\ signed # {} /\ k = Min(signed)
          \/ plain = {} /\ signed = {} /\ ofType # {} /\ k = Min(ofType)
          \/ plain = {} /\ signed = {} /\ ofType = {} /\ all # {} /\ k = Min(all)
        BY <2>1 DEF FatSelect
    <2>3. plain \in SUBSET Nat /\ signed \in SUBSET Nat /\ ofType \in SUBSET Nat
        BY <1>0
    <2>4. \/ k \in plain
          \/ plain = {} /\ k \in signed
          \/ plain = {} /\ signed = {} /\ k \in ofType
          \/ plain = {} /\ signed = {} /\ ofType = {} /\ k \in all
        BY <1>0, <2>2, <2>3, LeastIsThere
    <2>5. \A j \in all : /\ ArchMatches("arm64", of(j)) <=> of(j) \in {"arm64", "arm64v8"}
                         /\ ArchMatches("arm64e", of(j)) <=> of(j) = "arm64e"
                         /\ CpuType(of(j)) = "ARM64" <=> of(j) \in {"arm64", "arm64v8", "arm64e"}
        BY <1>0 DEF ArchMatches, ArchName, CpuType, Archs
    <2>6. k \in all
        BY <2>4
    <2>7. \A j \in all : /\ of(j) \in {"arm64", "arm64v8", "arm64e"} => CpuType(of(k)) = "ARM64"
                         /\ of(j) \in {"arm64", "arm64v8"} => of(k) # "arm64e"
        BY <2>4, <2>5, <2>6
    <2> HIDE DEF all, of
    <2> QED
        BY <1>0, <2>6, <2>7 DEF all, of
<1> QED
    BY <1>1, <1>2

\* The listings are lines of their own, and the command goes on, or ends, after them.
LEMMA ArchivesAreListed ==
    ASSUME TypeInv, DumpArchives
    PROVE  \E more \in Seq(Lines) :
              /\ printed' = printed \o more /\ \A k \in 1..Len(more) : more[k].what = "archive"
              /\ Error \/ GoTo("fat") \/ (flags = {"archive"} /\ NextFile)
<1>1. at \in 1..Len(files) /\ at \in Nat /\ Constant /\ printed \in Seq(Lines)
    BY FilesAreTyped DEF TypeInv, TypeOK, DumpArchives, Running
<1>2. CASE "archive" \notin flags
    <2>1. GoTo("fat") /\ printed' = printed
        BY <1>2 DEF DumpArchives
    <2>2. <<>> \in Seq(Lines) /\ printed' = printed \o <<>>
        BY <1>1, <2>1
    <2>3. \A k \in 1..Len(<<>>) : <<>>[k].what = "archive"
        OBVIOUS
    <2> DEFINE none == <<>>
    <2>4. none \in Seq(Lines) /\ printed' = printed \o none /\ \A k \in 1..Len(none) : none[k].what = "archive"
        BY <2>2, <2>3
    <2> HIDE DEF none
    <2> QED
        BY <2>1, <2>4
<1>3. CASE "archive" \in flags
    <2> DEFINE S == ArchivesOf(files[at])
               line(found) == [k \in 1..Len(found) |-> Line("archive", found[k])]
               listing(found, n) == [k \in 1..n |-> Line("archive", found[k])]
    <2>1. PICK found \in InOrder(S) :
              \/ \E n \in 0..Len(found) : printed' = printed \o listing(found, n) /\ Error
              \/ /\ found # <<>> /\ printed' = printed \o listing(found, Len(found))
                 /\ IF flags = {"archive"} THEN NextFile ELSE GoTo("fat")
        BY <1>3 DEF DumpArchives
    <2>2. S \subseteq 1..Len(files[at].slices) /\ Len(files[at].slices) \in Nat
        BY <1>1, FilesAreTyped DEF TypeInv, ArchivesOf
    <2>3. Cardinality(S) \in Nat
        <3> DEFINE n == Len(files[at].slices)
        <3>1. n \in Int /\ S \subseteq 1..n
            BY <2>2
        <3> HIDE DEF n, S
        <3>2. IsFiniteSet(1..n)
            BY <3>1, FS_Interval
        <3>3. IsFiniteSet(S)
            BY <3>1, <3>2, FS_Subset
        <3> QED
            BY <3>3, FS_CardinalityType
    <2>4. found \in [1..Cardinality(S) -> S]
        BY DEF InOrder
    <2> HIDE DEF S
    <2>5. Len(found) = Cardinality(S) /\ \A k \in 1..Len(found) : found[k] \in Nat
        <3>1. PICK m \in Nat : m = Cardinality(S)
            BY <2>3
        <3>2. S \subseteq Nat
            BY <2>2
        <3>3. found \in [1..m -> S]
            BY <2>4, <3>1
        <3>4. Len(found) = m
            BY <3>3
        <3>5. \A k \in 1..m : found[k] \in Nat
            BY <3>2, <3>3
        <3> QED
            BY <3>1, <3>4, <3>5
    <2>6. \A n \in 0..Len(found) :
              /\ listing(found, n) \in Seq(Lines) /\ Len(listing(found, n)) = n
              /\ \A k \in 1..n : listing(found, n)[k].what = "archive"
        <3> SUFFICES ASSUME NEW n \in 0..Len(found)
                     PROVE  /\ listing(found, n) \in Seq(Lines) /\ Len(listing(found, n)) = n
                            /\ \A k \in 1..n : listing(found, n)[k].what = "archive"
            OBVIOUS
        <3>1. n \in Nat /\ \A k \in 1..n : found[k] \in Nat
            BY <2>3, <2>5
        <3>2. \A k \in 1..n : Line("archive", found[k]) \in Lines /\ Line("archive", found[k]).what = "archive"
            BY <1>1, <3>1 DEF Line, Lines
        <3>3. listing(found, n) \in [1..n -> Lines]
            BY <3>2
        <3> QED
            BY <3>1, <3>2, <3>3
    <2>7. CASE \E n \in 0..Len(found) : printed' = printed \o listing(found, n) /\ Error
        BY <2>6, <2>7
    <2>8. CASE /\ printed' = printed \o listing(found, Len(found))
               /\ IF flags = {"archive"} THEN NextFile ELSE GoTo("fat")
        <3>1. Len(found) \in 0..Len(found)
            BY <2>3, <2>5
        <3> QED
            BY <2>6, <2>8, <3>1
    <2> QED
        BY <2>1, <2>7, <2>8
<1> QED
    BY <1>2, <1>3

\* Going on to the next file, or not going on, keeps the types.
LEMMA NextFileKeeps ==
    ASSUME TypeInv, at \in 1..Len(files), status = "running", Constant, printed' \in Seq(Lines), NextFile
    PROVE  TypeInv'
<1>1. files \in Inputs /\ Len(files) \in Nat
    BY FilesAreTyped DEF TypeInv
<1>2. at + 1 \in 1..(Len(files) + 1) /\ at + 1 <= Len(files) => 1 \in 1..(Len(files[at + 1].slices) + 1)
    BY <1>1, FilesAreTyped
<1> QED
    BY <1>2 DEF TypeInv, TypeOK, NextFile, Constant

LEMMA ErrorKeeps ==
    ASSUME TypeInv, Constant, printed' \in Seq(Lines), Error
    PROVE  TypeInv'
BY DEF TypeInv, TypeOK, Error, Constant

LEMMA TypeStep == TypeInv /\ [Next]_vars => TypeInv'
<1> SUFFICES ASSUME TypeInv, [Next]_vars PROVE TypeInv'
    OBVIOUS
<1>0. /\ Len(files) \in Nat /\ at \in 1..(Len(files) + 1) /\ printed \in Seq(Lines)
      /\ at <= Len(files) => /\ slice \in 1..(Len(files[at].slices) + 1) /\ Len(files[at].slices) \in Nat
                             /\ files[at] \in File
                             /\ files[at].kind = "thin" => Len(files[at].slices) = 1
    BY FilesAreTyped DEF TypeInv, TypeOK
<1>1. \A what \in {"archive", "fat", "name", "thin"} : \A k \in Nat : Line(what, k) \in Lines
    BY <1>0 DEF Line, Lines
<1>2. \A w : \A k \in ParseArch(files[at], w) : at <= Len(files) => k \in Nat
    <2> SUFFICES ASSUME NEW w, NEW k \in ParseArch(files[at], w), at <= Len(files) PROVE k \in Nat
        OBVIOUS
    <2>1. k \in 1..Len(files[at].slices)
        BY <1>0, FoundMatches, FoundIsPreferred
    <2> QED
        BY <1>0, <2>1
<1>3. CASE LoadObject
    BY <1>3, ErrorKeeps DEF LoadObject, GoTo, TypeInv, TypeOK, Constant, Running
<1>4. CASE DumpArchives
    <2>1. at \in 1..Len(files) /\ status = "running" /\ Constant
        BY <1>0, <1>4 DEF DumpArchives, Running
    <2>2. PICK more \in Seq(Lines) : /\ printed' = printed \o more
                                     /\ Error \/ GoTo("fat") \/ (flags = {"archive"} /\ NextFile)
        BY <1>4, ArchivesAreListed
    <2>3. printed' \in Seq(Lines)
        BY <1>0, <2>2
    <2>4. CASE GoTo("fat")
        BY <1>0, <2>1, <2>3, <2>4 DEF GoTo, TypeInv, TypeOK, Constant
    <2> QED
        BY <2>1, <2>2, <2>3, <2>4, ErrorKeeps, NextFileKeeps
<1>5. CASE DumpFatHeaders
    <2>1. at \in 1..Len(files) /\ status = "running" /\ Constant
        BY <1>0, <1>5 DEF DumpFatHeaders, Running
    <2>2. <<Line("fat", 0)>> \in Seq(Lines) /\ <<>> \in Seq(Lines)
        BY <1>1
    <2>3. printed' \in Seq(Lines)
        <3>1. \/ printed' = printed
              \/ printed' = printed \o <<Line("fat", 0)>>
              \/ printed' = printed \o <<>>
            BY <1>5 DEF DumpFatHeaders
        <3> QED
            BY <1>0, <2>2, <3>1
    <2>4. CASE GoTo("all") /\ want = "all" /\ files[at].kind = "fat"
        BY <1>0, <2>1, <2>3, <2>4 DEF GoTo, TypeInv, TypeOK, Constant
    <2>5. CASE GoTo("one") /\ "thin" \in flags /\ ~(want = "all" /\ files[at].kind = "fat")
        BY <1>0, <2>1, <2>3, <2>5 DEF GoTo, TypeInv, TypeOK, Constant
    <2>6. \/ Error \/ NextFile
          \/ GoTo("all") /\ want = "all" /\ files[at].kind = "fat"
          \/ GoTo("one") /\ "thin" \in flags /\ ~(want = "all" /\ files[at].kind = "fat")
        BY <1>5 DEF DumpFatHeaders
    <2> QED
        BY <2>1, <2>3, <2>4, <2>5, <2>6, ErrorKeeps, NextFileKeeps
<1>6. CASE DumpNext
    <2>1. at \in 1..Len(files) /\ status = "running" /\ Constant /\ pc = "all" /\ slice \in Nat
        BY <1>0, <1>6 DEF DumpNext, Running
    <2>2. CASE NextFile /\ UNCHANGED printed
        BY <1>0, <2>1, <2>2, NextFileKeeps
    <2>3. CASE printed' = printed \o <<Line("name", slice)>> /\ Error
        <3>1. printed' \in Seq(Lines)
            BY <1>0, <1>1, <2>1, <2>3
        <3> QED
            BY <2>1, <2>3, <3>1, ErrorKeeps
    <2>4. ASSUME NEW k \in Nat, DumpFails(k, <<Line("name", slice)>>) PROVE TypeInv'
        <3>1. printed' \in Seq(Lines) /\ Error
            BY <1>0, <1>1, <2>1, <2>4 DEF DumpFails
        <3> QED
            BY <2>1, <3>1, ErrorKeeps
    <2>5. ASSUME NEW k \in Nat, slice <= Len(files[at].slices),
                 printed' = printed \o <<Line("name", slice)>> \o
                               (IF "thin" \in flags THEN <<Line("thin", k)>> ELSE <<>>),
                 slice' = slice + 1, UNCHANGED <<pc, at, status>>
          PROVE  TypeInv'
        <3>1. <<Line("thin", k)>> \in Seq(Lines) /\ <<>> \in Seq(Lines) /\ <<Line("name", slice)>> \in Seq(Lines)
            BY <1>1, <2>1
        <3>2. printed' \in Seq(Lines)
            BY <1>0, <2>5, <3>1
        <3>3. slice' \in 1..(Len(files[at].slices) + 1)
            BY <1>0, <2>1, <2>5
        <3> QED
            BY <2>1, <2>5, <3>2, <3>3 DEF TypeInv, TypeOK, Constant
    <2>6. CASE slice > Len(files[at].slices)
        BY <1>6, <2>2, <2>6 DEF DumpNext
    <2>7. CASE ~(slice > Len(files[at].slices))
        <3>1. slice <= Len(files[at].slices)
            BY <1>0, <2>1, <2>7
        <3> DEFINE found == ParseArch(files[at], ArchName(files[at].slices[slice].arch))
        <3>2. \A k \in found : k \in Nat
            BY <1>2, <2>1
        <3>3. \/ printed' = printed \o <<Line("name", slice)>> /\ Error
              \/ \E k \in found : DumpFails(k, <<Line("name", slice)>>)
              \/ \E k \in found :
                   /\ printed' = printed \o <<Line("name", slice)>> \o
                                    (IF "thin" \in flags THEN <<Line("thin", k)>> ELSE <<>>)
                   /\ slice' = slice + 1 /\ UNCHANGED <<pc, at, status>>
            BY <1>6, <2>7 DEF DumpNext
        <3> HIDE DEF found
        <3> QED
            BY <2>3, <2>4, <2>5, <3>1, <3>2, <3>3
    <2> QED
        BY <2>6, <2>7
<1>7. CASE DumpOne
    <2>1. at \in 1..Len(files) /\ status = "running" /\ Constant
        BY <1>0, <1>7 DEF DumpOne, Running
    <2>2. CASE Error /\ UNCHANGED printed
        BY <1>0, <2>1, <2>2, ErrorKeeps
    <2>3. ASSUME NEW k \in Nat, DumpFails(k, <<>>) PROVE TypeInv'
        <3>1. printed' \in Seq(Lines) /\ Error
            BY <1>0, <1>1, <2>3 DEF DumpFails
        <3> QED
            BY <2>1, <3>1, ErrorKeeps
    <2>4. ASSUME NEW k \in Nat, printed' = Append(printed, Line("thin", k)), NextFile PROVE TypeInv'
        <3>1. printed' \in Seq(Lines)
            BY <1>0, <1>1, <2>4
        <3> QED
            BY <2>1, <2>4, <3>1, NextFileKeeps
    <2> QED
        BY <1>2, <1>7, <2>1, <2>2, <2>3, <2>4 DEF DumpOne
<1>8. CASE Finish
    BY <1>8 DEF Finish, TypeInv, TypeOK
<1>9. CASE UNCHANGED vars
    BY <1>9 DEF vars, TypeInv, TypeOK
<1> QED
    BY <1>3, <1>4, <1>5, <1>6, <1>7, <1>8, <1>9 DEF Next

LEMMA TypeInit == Init => TypeInv
<1> SUFFICES ASSUME Init PROVE TypeInv
    OBVIOUS
<1>1. files \in Inputs /\ Len(files) \in Nat /\ <<>> \in Seq(Lines)
    BY FilesAreTyped DEF Init
<1>2. 1 \in 1..(Len(files) + 1) /\ (1 <= Len(files) => 1 \in 1..(Len(files[1].slices) + 1))
    BY <1>1, FilesAreTyped
<1> QED
    BY <1>1, <1>2 DEF Init, TypeInv, TypeOK, Flags

\* The loop over the slices stays in the slices of the file it is at, and what is
\* printed are lines, for all command lines and files of any number of slices.
THEOREM TypeAlwaysOK == Spec => []TypeOK
<1>1. TypeInv => TypeOK
    BY DEF TypeInv
<1> QED
    BY <1>1, TypeInit, TypeStep, PTL DEF Spec

-----------------------------------------------------------------------------
(* What is dumped.                                                           *)

\* Thin, Dumped, and the order of the slices, of any lines.
ThinOf(lines, n) == {k \in DOMAIN lines : lines[k].file = n /\ lines[k].what = "thin"}

DumpedOf(lines, n) == {lines[k].slice : k \in ThinOf(lines, n)}

OrderedOf(lines, n) ==
    \A j, k \in ThinOf(lines, n) : j < k => lines[j].slice < lines[k].slice

\* The kth line, which dumps a slice, dumps one that was asked for.
Asked(fs, w, lines, k) ==
    LET n == lines[k].file
        archAt(j) == fs[lines[j].file].slices[lines[j].slice].arch
    IN  IF w = "all" /\ fs[n].kind = "fat"
        THEN k > 1 /\ lines[k - 1].what = "name" /\ ArchMatches(ArchName(archAt(k - 1)), archAt(k))
        ELSE IF w \notin {"all", NoArch} THEN ArchMatches(w, archAt(k))
        ELSE \A s \in Range(fs[n].slices) :
               /\ s.arch \in {"arm64", "arm64v8", "arm64e"} => CpuType(archAt(k)) = "ARM64"
               /\ s.arch \in {"arm64", "arm64v8"} => archAt(k) # "arm64e"

AllAsked(fs, w, lines) ==
    \A k \in DOMAIN lines : lines[k].what = "thin" => Asked(fs, w, lines, k)

\* Lines that dump no slice change nothing of what is dumped.
LEMMA OtherLines ==
    ASSUME NEW lines \in Seq(Lines), NEW more \in Seq(Lines),
           \A k \in 1..Len(more) : more[k].what # "thin"
    PROVE  /\ \A n : DumpedOf(lines \o more, n) = DumpedOf(lines, n)
           /\ \A n : OrderedOf(lines, n) => OrderedOf(lines \o more, n)
           /\ \A fs, w : AllAsked(fs, w, lines) => AllAsked(fs, w, lines \o more)
<1> DEFINE l == lines \o more
<1>1. /\ Len(lines) \in Nat /\ Len(more) \in Nat /\ DOMAIN lines = 1..Len(lines)
      /\ DOMAIN l = 1..(Len(lines) + Len(more))
      /\ \A k \in 1..Len(lines) : l[k] = lines[k]
      /\ \A k \in DOMAIN l : k \notin 1..Len(lines) => k - Len(lines) \in 1..Len(more) /\ l[k] = more[k - Len(lines)]
    OBVIOUS
<1> HIDE DEF l
<1>2. /\ \A k \in DOMAIN lines : k \in DOMAIN l /\ l[k] = lines[k]
      /\ \A k \in DOMAIN l : l[k].what = "thin" => k \in DOMAIN lines
    BY <1>1
<1>3. \A n : ThinOf(l, n) = ThinOf(lines, n)
    BY <1>2 DEF ThinOf
<1>4. \A n : \A k \in ThinOf(lines, n) : l[k] = lines[k]
    BY <1>2 DEF ThinOf
<1>5. \A n : DumpedOf(l, n) = DumpedOf(lines, n) /\ (OrderedOf(lines, n) => OrderedOf(l, n))
    BY <1>3, <1>4 DEF DumpedOf, OrderedOf
<1>6. ASSUME NEW fs, NEW w, AllAsked(fs, w, lines), NEW k \in DOMAIN l, l[k].what = "thin"
      PROVE  Asked(fs, w, l, k)
    <2>1. k \in DOMAIN lines /\ l[k] = lines[k] /\ Asked(fs, w, lines, k)
        BY <1>2, <1>6 DEF AllAsked
    <2>2. k > 1 => l[k - 1] = lines[k - 1]
        BY <1>1, <2>1
    <2> QED
        BY <2>1, <2>2 DEF Asked
<1> QED
    BY <1>5, <1>6 DEF l, AllAsked

\* A line that dumps a slice of file n.
LEMMA OneMoreLine ==
    ASSUME NEW lines \in Seq(Lines), NEW line \in Lines, line.what = "thin"
    PROVE  /\ \A n : DumpedOf(Append(lines, line), n)
                       = DumpedOf(lines, n) \cup (IF n = line.file THEN {line.slice} ELSE {})
           /\ \A n : OrderedOf(lines, n) /\ (n = line.file => \A s \in DumpedOf(lines, n) : s < line.slice)
                       => OrderedOf(Append(lines, line), n)
           /\ \A fs, w : AllAsked(fs, w, lines) /\ Asked(fs, w, Append(lines, line), Len(lines) + 1)
                       => AllAsked(fs, w, Append(lines, line))
<1> DEFINE l == Append(lines, line)
           m == Len(lines) + 1
<1>1. /\ Len(lines) \in Nat /\ DOMAIN lines = 1..Len(lines) /\ DOMAIN l = 1..m /\ m \in Nat /\ l[m] = line
      /\ \A k \in 1..Len(lines) : l[k] = lines[k]
    OBVIOUS
<1>2. /\ DOMAIN l = DOMAIN lines \cup {m} /\ \A k \in DOMAIN lines : l[k] = lines[k] /\ k \in Nat /\ k < m
    BY <1>1
<1> HIDE DEF l, m
<1>3. \A n : ThinOf(l, n) = ThinOf(lines, n) \cup (IF n = line.file THEN {m} ELSE {})
    BY <1>1, <1>2 DEF ThinOf
<1>4. \A n : \A k \in ThinOf(lines, n) : l[k] = lines[k] /\ k \in Nat /\ k < m
    BY <1>2 DEF ThinOf
<1>5. \A n : DumpedOf(l, n) = DumpedOf(lines, n) \cup (IF n = line.file THEN {line.slice} ELSE {})
    BY <1>1, <1>3, <1>4 DEF DumpedOf
<1>6. ASSUME NEW n, OrderedOf(lines, n), n = line.file => \A s \in DumpedOf(lines, n) : s < line.slice,
             NEW j \in ThinOf(l, n), NEW k \in ThinOf(l, n), j < k
      PROVE  l[j].slice < l[k].slice
    <2>1. j \in ThinOf(lines, n)
        BY <1>1, <1>3, <1>4, <1>6
    <2>2. CASE k \in ThinOf(lines, n)
        BY <1>4, <1>6, <2>1, <2>2 DEF OrderedOf
    <2>3. CASE k \notin ThinOf(lines, n)
        <3>1. n = line.file /\ k = m
            BY <1>3, <2>3
        <3>2. lines[j].slice \in DumpedOf(lines, n)
            BY <2>1 DEF DumpedOf
        <3> QED
            BY <1>1, <1>4, <1>6, <2>1, <3>1, <3>2
    <2> QED
        BY <2>2, <2>3
<1>7. ASSUME NEW fs, NEW w, AllAsked(fs, w, lines), Asked(fs, w, l, m), NEW k \in DOMAIN l, l[k].what = "thin"
      PROVE  Asked(fs, w, l, k)
    <2>1. CASE k = m
        BY <1>7, <2>1
    <2>2. CASE k # m
        <3>1. k \in DOMAIN lines /\ l[k] = lines[k] /\ Asked(fs, w, lines, k)
            BY <1>2, <1>7, <2>2 DEF AllAsked
        <3>2. k > 1 => l[k - 1] = lines[k - 1]
            BY <1>1, <3>1
        <3> QED
            BY <3>1, <3>2 DEF Asked
    <2> QED
        BY <2>1, <2>2
<1> QED
    BY <1>5, <1>6, <1>7 DEF l, m, AllAsked, OrderedOf

\* A step prints lines that dump no slice, or such lines and one slice of the file.
Quiet == \E more \in Seq(Lines) :
            printed' = printed \o more /\ \A k \in 1..Len(more) : more[k].what # "thin"

NextSlice(k) ==
    /\ pc = "all" /\ slice <= Len(files[at].slices)
    /\ k \in ParseArch(files[at], ArchName(files[at].slices[slice].arch))
    /\ printed' = Append(Append(printed, Line("name", slice)), Line("thin", k))
    /\ Error \/ (slice' = slice + 1 /\ UNCHANGED <<pc, at, status>>)

OnlySlice(k) ==
    /\ pc = "one" /\ k \in ParseArch(files[at], IF want = "all" THEN NoArch ELSE want)
    /\ printed' = Append(printed, Line("thin", k))
    /\ Error \/ NextFile

\* What the steps print, and where they go.
LEMMA StepPrints ==
    ASSUME TypeInv, Next
    PROVE  /\ Constant
           /\ \/ Quiet /\ Error
              \/ Quiet /\ pc # "all" /\ UNCHANGED <<at, slice, status>>
              \/ /\ Quiet /\ Running(pc) /\ "thin" \notin flags
                 /\ NextFile \/ (pc = "all" /\ slice' = slice + 1 /\ UNCHANGED <<pc, at, status>>)
              \/ Quiet /\ Running("all") /\ slice > Len(files[at].slices) /\ NextFile
              \/ Quiet /\ Finish
              \/ Running(pc) /\ "thin" \in flags /\ \E k : NextSlice(k) \/ OnlySlice(k)
<1>0. /\ printed \in Seq(Lines) /\ at \in Nat /\ Len(files) \in Nat
      /\ at <= Len(files) => slice \in Nat /\ Len(files[at].slices) \in Nat
    BY FilesAreTyped DEF TypeInv, TypeOK
<1>1. printed' = printed => Quiet
    <2>1. printed = printed \o <<>> /\ <<>> \in Seq(Lines) /\ \A k \in 1..Len(<<>>) : <<>>[k].what # "thin"
        BY <1>0
    <2> DEFINE none == <<>>
    <2>2. printed = printed \o none /\ none \in Seq(Lines) /\ \A k \in 1..Len(none) : none[k].what # "thin"
        BY <2>1
    <2> HIDE DEF none
    <2> QED
        BY <2>2 DEF Quiet
<1>2. ASSUME NEW line \in Lines, line.what # "thin", printed' = printed \o <<line>> PROVE Quiet
    <2> DEFINE one == <<line>>
    <2>1. one \in Seq(Lines) /\ \A k \in 1..Len(one) : one[k].what # "thin"
        BY <1>2
    <2>2. printed' = printed \o one
        BY <1>2
    <2> HIDE DEF one
    <2> QED
        BY <2>1, <2>2 DEF Quiet
<1>3. CASE LoadObject
    BY <1>1, <1>3 DEF LoadObject, Running, GoTo
<1>4. CASE DumpArchives
    <2>1. PICK more \in Seq(Lines) :
              /\ printed' = printed \o more /\ \A k \in 1..Len(more) : more[k].what = "archive"
              /\ Error \/ GoTo("fat") \/ (flags = {"archive"} /\ NextFile)
        BY <1>4, ArchivesAreListed
    <2>2. Quiet
        BY <2>1 DEF Quiet
    <2> QED
        BY <1>4, <2>1, <2>2 DEF DumpArchives, Running, GoTo
<1>5. CASE DumpFatHeaders
    <2>1. Line("fat", 0) \in Lines /\ Line("fat", 0).what # "thin"
        BY <1>0 DEF Line, Lines
    <2>2. printed \o <<>> = printed
        BY <1>0
    <2>3. \/ printed' = printed
          \/ printed' = printed \o <<Line("fat", 0)>>
          \/ printed' = printed \o <<>>
        BY <1>5 DEF DumpFatHeaders
    <2>4. Quiet
        BY <1>1, <1>2, <2>1, <2>2, <2>3
    <2>5. \/ Error \/ GoTo("all") \/ GoTo("one")
          \/ "thin" \notin flags /\ NextFile
        BY <1>5 DEF DumpFatHeaders
    <2> QED
        BY <1>5, <2>4, <2>5 DEF DumpFatHeaders, Running, GoTo
<1>6. CASE DumpNext
    <2> DEFINE found == ParseArch(files[at], ArchName(files[at].slices[slice].arch))
               name == Line("name", slice)
    <2>1. Running("all") /\ Constant /\ slice \in Nat /\ Len(files[at].slices) \in Nat
        BY <1>0, <1>6 DEF DumpNext, Running
    <2>2. name \in Lines /\ name.what # "thin"
        BY <1>0, <2>1 DEF Line, Lines
    <2>3. CASE slice > Len(files[at].slices)
        BY <1>1, <1>6, <2>1, <2>3 DEF DumpNext
    <2>4. CASE ~(slice > Len(files[at].slices))
        <3>1. slice <= Len(files[at].slices)
            BY <2>1, <2>4
        <3>2. printed \o <<name>> \in Seq(Lines) /\ printed \o <<name>> = Append(printed, name)
            BY <1>0, <2>2
        <3>3. /\ printed \o <<name>> \o <<>> = printed \o <<name>>
              /\ \A line : printed \o <<name>> \o <<line>> = Append(Append(printed, name), line)
            BY <3>2
        <3>4. \/ printed' = printed \o <<name>> /\ Error
              \/ \E k \in found : DumpFails(k, <<name>>)
              \/ \E k \in found :
                   /\ printed' = printed \o <<name>> \o
                                    (IF "thin" \in flags THEN <<Line("thin", k)>> ELSE <<>>)
                   /\ slice' = slice + 1 /\ UNCHANGED <<pc, at, status>>
            BY <1>6, <2>4 DEF DumpNext
        <3> HIDE DEF found, name
        <3>5. CASE printed' = printed \o <<name>> /\ Error
            BY <1>2, <2>1, <2>2, <3>5
        <3>6. ASSUME NEW k \in found, DumpFails(k, <<name>>) PROVE "thin" \in flags /\ NextSlice(k)
            BY <2>1, <3>1, <3>3, <3>6 DEF DumpFails, NextSlice, Running, found, name
        <3>7. ASSUME NEW k \in found, slice' = slice + 1, UNCHANGED <<pc, at, status>>,
                     printed' = printed \o <<name>> \o
                                    (IF "thin" \in flags THEN <<Line("thin", k)>> ELSE <<>>)
              PROVE  IF "thin" \in flags THEN NextSlice(k) ELSE Quiet
            <4>1. CASE "thin" \in flags
                BY <2>1, <3>1, <3>3, <3>7, <4>1 DEF NextSlice, Running, found, name
            <4>2. CASE "thin" \notin flags
                <5>1. printed' = printed \o <<name>>
                    BY <3>3, <3>7, <4>2
                <5>2. Quiet
                    BY <1>2, <2>2, <5>1
                <5> QED
                    BY <4>2, <5>2
            <4> QED
                BY <4>1, <4>2
        <3>8. Running(pc) /\ pc = "all"
            BY <2>1 DEF Running
        <3>9. CASE \E k \in found : DumpFails(k, <<name>>)
            BY <2>1, <3>6, <3>8, <3>9
        <3>10. CASE \E k \in found :
                   /\ printed' = printed \o <<name>> \o
                                    (IF "thin" \in flags THEN <<Line("thin", k)>> ELSE <<>>)
                   /\ slice' = slice + 1 /\ UNCHANGED <<pc, at, status>>
            BY <2>1, <3>7, <3>8, <3>10
        <3> QED
            BY <3>4, <3>5, <3>9, <3>10
    <2> QED
        BY <2>3, <2>4
<1>7. CASE DumpOne
    <2> DEFINE found == ParseArch(files[at], IF want = "all" THEN NoArch ELSE want)
    <2>1. Running("one") /\ Constant /\ Running(pc) /\ pc = "one" /\ "thin" \in flags
        BY <1>7 DEF DumpOne, Running, TypeInv
    <2>2. \A line : printed \o <<>> \o <<line>> = Append(printed, line)
        BY <1>0
    <2>3. \/ Error /\ UNCHANGED printed
          \/ \E k \in found : DumpFails(k, <<>>)
          \/ \E k \in found : printed' = Append(printed, Line("thin", k)) /\ NextFile
        BY <1>7 DEF DumpOne
    <2> HIDE DEF found
    <2>4. CASE Error /\ UNCHANGED printed
        BY <1>1, <2>1, <2>4
    <2>5. CASE \E k \in found : DumpFails(k, <<>>)
        BY <2>1, <2>2, <2>5 DEF DumpFails, OnlySlice, found
    <2>6. CASE \E k \in found : printed' = Append(printed, Line("thin", k)) /\ NextFile
        BY <2>1, <2>6 DEF OnlySlice, found
    <2> QED
        BY <2>3, <2>4, <2>5, <2>6
<1>8. CASE Finish
    BY <1>1, <1>8 DEF Finish, Constant
<1> QED
    BY <1>3, <1>4, <1>5, <1>6, <1>7, <1>8 DEF Next

\* The line that dumps slice k of the file.
LEMMA ThinLine ==
    ASSUME TypeInv, NEW k, NextSlice(k) \/ OnlySlice(k), Running(pc)
    PROVE  /\ at \in 1..Len(files) /\ k \in 1..Len(files[at].slices) /\ Len(files[at].slices) \in Nat
           /\ Line("thin", k) \in Lines /\ Line("thin", k).what = "thin"
           /\ Line("thin", k).file = at /\ Line("thin", k).slice = k
           /\ NextSlice(k) =>
                /\ slice \in 1..Len(files[at].slices)
                /\ ArchMatches(ArchName(files[at].slices[slice].arch), files[at].slices[k].arch)
<1>1. /\ at \in 1..Len(files) /\ Len(files) \in Nat /\ files[at] \in File /\ Len(files[at].slices) \in Nat
      /\ files[at].slices \in Seq(Slice)
      /\ files[at].kind = "thin" => Len(files[at].slices) = 1
      /\ slice \in 1..(Len(files[at].slices) + 1)
    BY FilesAreTyped DEF TypeInv, TypeOK, Running
<1>2. CASE NextSlice(k)
    <2>1. slice \in 1..Len(files[at].slices)
        BY <1>1, <1>2 DEF NextSlice
    <2>2. files[at].slices[slice].arch \in Archs
        BY <1>1, <2>1 DEF Slice
    <2>3. ArchName(files[at].slices[slice].arch) # NoArch
        BY <2>2, NoArchAssumption DEF ArchName, Archs
    <2>4. k \in 1..Len(files[at].slices)
          /\ ArchMatches(ArchName(files[at].slices[slice].arch), files[at].slices[k].arch)
        BY <1>1, <1>2, <2>3, FoundMatches DEF NextSlice
    <2> QED
        BY <1>1, <2>1, <2>4 DEF Line, Lines
<1>3. CASE OnlySlice(k) /\ ~NextSlice(k)
    <2>1. k \in 1..Len(files[at].slices)
        BY <1>1, <1>3, FoundMatches, FoundIsPreferred DEF OnlySlice
    <2> QED
        BY <1>1, <1>3, <2>1 DEF Line, Lines
<1> QED
    BY <1>2, <1>3

\* No step dumps what was not asked for.
LEMMA AskedStep ==
    ASSUME TypeInv, AllAsked(files, want, printed), Next
    PROVE  AllAsked(files, want, printed)'
<1>1. printed \in Seq(Lines) /\ Len(printed) \in Nat /\ files' = files /\ want' = want
    BY StepPrints DEF TypeInv, TypeOK, Constant
<1>2. SUFFICES AllAsked(files, want, printed')
    BY <1>1
<1>3. CASE Quiet
    <2>1. PICK more \in Seq(Lines) : printed' = printed \o more /\ \A k \in 1..Len(more) : more[k].what # "thin"
        BY <1>3 DEF Quiet
    <2> QED
        BY <1>1, <2>1, OtherLines
<1>4. ASSUME Running(pc), NEW k, NextSlice(k) PROVE AllAsked(files, want, printed')
    <2> DEFINE name == Line("name", slice)
               thin == Line("thin", k)
               lines == Append(printed, name)
               m == Len(lines) + 1
    <2>1. /\ at \in 1..Len(files) /\ thin \in Lines /\ thin.what = "thin" /\ thin.file = at /\ thin.slice = k
          /\ slice \in 1..Len(files[at].slices) /\ Len(files[at].slices) \in Nat
          /\ ArchMatches(ArchName(files[at].slices[slice].arch), files[at].slices[k].arch)
        BY <1>4, ThinLine
    <2>2. name \in Lines /\ name.what = "name" /\ name.file = at /\ name.slice = slice
        BY <2>1, FilesAreTyped DEF Line, Lines, TypeInv
    <2>3. want = "all" /\ files[at].kind = "fat"
        BY <1>4 DEF NextSlice, TypeInv
    <2> HIDE DEF name, thin
    <2>4. <<name>> \in Seq(Lines) /\ (\A j \in 1..Len(<<name>>) : <<name>>[j].what # "thin")
          /\ lines = printed \o <<name>>
        BY <1>1, <2>2
    <2> DEFINE one == <<name>>
    <2>5. one \in Seq(Lines) /\ (\A j \in 1..Len(one) : one[j].what # "thin") /\ lines = printed \o one
        BY <2>4
    <2> HIDE DEF one
    <2>6. AllAsked(files, want, lines)
        BY <1>1, <2>5, OtherLines
    <2>7. /\ lines \in Seq(Lines) /\ m - 1 = Len(printed) + 1 /\ m > 1 /\ printed' = Append(lines, thin)
          /\ Append(lines, thin)[m] = thin /\ Append(lines, thin)[m - 1] = name
        BY <1>1, <1>4, <2>1, <2>2 DEF NextSlice, name, thin
    <2> HIDE DEF lines, m
    <2>8. Asked(files, want, Append(lines, thin), m)
        BY <2>1, <2>2, <2>3, <2>7 DEF Asked
    <2> QED
        BY <2>1, <2>6, <2>7, <2>8, OneMoreLine DEF m
<1>5. ASSUME Running(pc), NEW k, OnlySlice(k) PROVE AllAsked(files, want, printed')
    <2> DEFINE thin == Line("thin", k)
               w == IF want = "all" THEN NoArch ELSE want
               m == Len(printed) + 1
    <2>1. /\ at \in 1..Len(files) /\ thin \in Lines /\ thin.what = "thin" /\ thin.file = at /\ thin.slice = k
        BY <1>5, ThinLine
    <2>2. ~(want = "all" /\ files[at].kind = "fat") /\ k \in ParseArch(files[at], w)
        BY <1>5 DEF OnlySlice, TypeInv
    <2>3. files[at] \in File /\ (files[at].kind = "thin" => Len(files[at].slices) = 1)
        BY <2>1, FilesAreTyped DEF TypeInv
    <2>4. /\ w # NoArch => ArchMatches(w, files[at].slices[k].arch)
          /\ w = NoArch =>
               \A s \in Range(files[at].slices) :
                /\ s.arch \in {"arm64", "arm64v8", "arm64e"} => CpuType(files[at].slices[k].arch) = "ARM64"
                /\ s.arch \in {"arm64", "arm64v8"} => files[at].slices[k].arch # "arm64e"
        BY <2>2, <2>3, FoundMatches, FoundIsPreferred
    <2> HIDE DEF thin
    <2>5. printed' = Append(printed, thin) /\ Append(printed, thin)[m] = thin
        BY <1>1, <1>5, <2>1 DEF OnlySlice, thin
    <2> HIDE DEF m
    <2>6. Asked(files, want, Append(printed, thin), m)
        BY <2>1, <2>2, <2>4, <2>5 DEF Asked
    <2> QED
        BY <1>1, <2>1, <2>5, <2>6, OneMoreLine DEF m
<1> QED
    BY <1>3, <1>4, <1>5, StepPrints

\* What is dumped is what was asked for, for all command lines and files.
THEOREM DumpsOnlyWhatIsAsked == Spec => []DumpsWhatIsAsked
<1>1. Init => AllAsked(files, want, printed)
    BY DEF Init, AllAsked
<1>2. TypeInv /\ AllAsked(files, want, printed) /\ [Next]_vars => AllAsked(files, want, printed)'
    <2>1. CASE UNCHANGED vars
        BY <2>1 DEF vars, AllAsked, Asked
    <2> QED
        BY <2>1, AskedStep
<1>3. AllAsked(files, want, printed) => DumpsWhatIsAsked
    <2> SUFFICES ASSUME AllAsked(files, want, printed), NEW n \in DOMAIN files, NEW k \in Thin(n)
                 PROVE  LET arch == ArchOf(printed[k])
                            has(S) == \E s \in Range(files[n].slices) : s.arch \in S
                        IN  IF want = "all" /\ files[n].kind = "fat"
                            THEN /\ printed[k - 1].what = "name"
                                 /\ ArchMatches(ArchName(ArchOf(printed[k - 1])), arch)
                            ELSE IF want \notin {"all", NoArch} THEN ArchMatches(want, arch)
                            ELSE /\ has({"arm64", "arm64v8", "arm64e"}) => CpuType(arch) = "ARM64"
                                 /\ has({"arm64", "arm64v8"}) => arch # "arm64e"
        BY DEF DumpsWhatIsAsked
    <2>1. Asked(files, want, printed, k) /\ printed[k].file = n
        BY DEF AllAsked, Thin
    <2> QED
        BY <2>1 DEF Asked, ArchOf
<1> QED
    BY <1>1, <1>2, <1>3, TypeInit, TypeStep, PTL DEF Spec

-----------------------------------------------------------------------------
(* All slices in turn.                                                       *)

\* What lines have been printed of file n: all its slices, none, or those before
\* the one that is next.
Turn(fs, lines, n, now, next, running) ==
    /\ OrderedOf(lines, n)
    /\ \E m \in 0..Len(fs[n].slices) : DumpedOf(lines, n) = 1..m
    /\ n < now => DumpedOf(lines, n) = DOMAIN fs[n].slices
    /\ n > now => DumpedOf(lines, n) = {}
    /\ n = now /\ running => DumpedOf(lines, n) = 1..(next - 1)

TurnInv ==
    /\ pc # "all" => slice = 1
    /\ status = "ok" => at > Len(files)
    /\ want = "all" /\ "thin" \in flags =>
         \A n \in DOMAIN files : NamesAreClear(files[n]) =>
             Turn(files, printed, n, at, slice, status = "running")

\* A clear name stands for one slice.
LEMMA ClearNameFinds ==
    ASSUME NEW f \in File, f.kind = "fat", NamesAreClear(f), NEW j \in 1..Len(f.slices),
           NEW k \in ParseArch(f, ArchName(f.slices[j].arch))
    PROVE  k = j
<1>1. f.slices \in Seq(Slice) /\ f.slices[j].arch \in Archs /\ DOMAIN f.slices = 1..Len(f.slices)
    BY DEF File, Slice
<1>2. ArchName(f.slices[j].arch) # NoArch
    BY <1>1, NoArchAssumption DEF ArchName, Archs
<1>3. k \in 1..Len(f.slices) /\ ArchMatches(ArchName(f.slices[j].arch), f.slices[k].arch)
    BY <1>2, FoundMatches
<1> QED
    BY <1>1, <1>3 DEF NamesAreClear

\* Lines that dump nothing leave every turn as it was.
LEMMA QuietTurn ==
    ASSUME TypeInv, Quiet, NEW n, NEW now, NEW next, NEW running, Turn(files, printed, n, now, next, running)
    PROVE  Turn(files, printed', n, now, next, running)
<1>1. PICK more \in Seq(Lines) : printed' = printed \o more /\ \A k \in 1..Len(more) : more[k].what # "thin"
    BY DEF Quiet
<1>2. printed \in Seq(Lines)
    BY DEF TypeInv, TypeOK
<1>3. /\ \A i : DumpedOf(printed \o more, i) = DumpedOf(printed, i)
      /\ \A i : OrderedOf(printed, i) => OrderedOf(printed \o more, i)
    BY <1>1, <1>2, OtherLines
<1>4. DumpedOf(printed', n) = DumpedOf(printed, n) /\ (OrderedOf(printed, n) => OrderedOf(printed', n))
    BY <1>1, <1>3
<1> QED
    BY <1>4 DEF Turn

\* A slice that is dumped is the next one of its file.
LEMMA ThinTurn ==
    ASSUME TypeInv, TurnInv, Running(pc), want = "all", "thin" \in flags,
           NEW k, NextSlice(k) \/ OnlySlice(k),
           NEW n \in DOMAIN files, NamesAreClear(files[n])
    PROVE  /\ OrderedOf(printed', n)
           /\ n # at => DumpedOf(printed', n) = DumpedOf(printed, n)
           /\ n = at => /\ k = slice /\ slice \in 1..Len(files[n].slices)
                        /\ DumpedOf(printed', n) = 1..slice
<1> DEFINE thin == Line("thin", k)
           name == Line("name", slice)
           one == <<name>>
<1>1. /\ at \in 1..Len(files) /\ k \in 1..Len(files[at].slices) /\ Len(files[at].slices) \in Nat
      /\ thin \in Lines /\ thin.what = "thin" /\ thin.file = at /\ thin.slice = k
    BY ThinLine
<1>2. /\ printed \in Seq(Lines) /\ Len(printed) \in Nat /\ n \in Nat /\ slice \in Nat
      /\ files[at] \in File /\ files[at].kind \in {"thin", "fat"}
      /\ files[at].kind = "thin" => Len(files[at].slices) = 1
    BY <1>1, FilesAreTyped DEF TypeInv, TypeOK
<1>3. Turn(files, printed, n, at, slice, TRUE)
    BY DEF TurnInv, Running
<1>4. name \in Lines /\ name.what # "thin"
    BY <1>1, <1>2 DEF Line, Lines
<1>5. one \in Seq(Lines) /\ (\A j \in 1..Len(one) : one[j].what # "thin") /\ Append(printed, name) = printed \o one
    BY <1>2, <1>4
<1> HIDE DEF thin, name, one
<1>6. PICK lines \in Seq(Lines) :
          /\ printed' = Append(lines, thin)
          /\ OrderedOf(lines, n) /\ DumpedOf(lines, n) = DumpedOf(printed, n)
    <2>1. CASE NextSlice(k)
        <3>1. printed \o one \in Seq(Lines) /\ printed' = Append(printed \o one, thin)
            BY <1>2, <1>5, <2>1 DEF NextSlice, name, thin
        <3>2. /\ \A i : DumpedOf(printed \o one, i) = DumpedOf(printed, i)
              /\ \A i : OrderedOf(printed, i) => OrderedOf(printed \o one, i)
            BY <1>2, <1>5, OtherLines
        <3> QED
            BY <1>3, <3>1, <3>2 DEF Turn
    <2>2. CASE OnlySlice(k)
        BY <1>2, <1>3, <2>2 DEF OnlySlice, Turn, thin
    <2> QED
        BY <2>1, <2>2
<1>7. DumpedOf(printed', n) = DumpedOf(printed, n) \cup (IF n = at THEN {k} ELSE {})
    BY <1>1, <1>6, OneMoreLine
<1>8. ASSUME n = at PROVE k = slice
    <2>1. CASE NextSlice(k)
        <3>1. files[at].kind = "fat" /\ slice \in 1..Len(files[at].slices)
              /\ k \in ParseArch(files[at], ArchName(files[at].slices[slice].arch))
            BY <2>1, ThinLine DEF NextSlice, TypeInv
        <3>2. NamesAreClear(files[at])
            BY <1>8
        <3> QED
            BY <1>2, <3>1, <3>2, ClearNameFinds
    <2>2. CASE OnlySlice(k)
        <3>1. files[at].kind = "thin" /\ slice = 1
            BY <1>2, <2>2 DEF OnlySlice, TypeInv, TurnInv
        <3>2. \A j \in 1..1 : j = 1
            OBVIOUS
        <3>3. k \in 1..1
            BY <1>1, <1>2, <3>1
        <3> QED
            BY <3>1, <3>2, <3>3
    <2> QED
        BY <2>1, <2>2
<1>9. ASSUME n = at PROVE DumpedOf(printed, n) = 1..(slice - 1) /\ slice \in Nat /\ slice \in 1..Len(files[n].slices)
    BY <1>1, <1>2, <1>3, <1>8, <1>9 DEF Turn
<1>10. ASSUME n = at PROVE DumpedOf(printed', n) = 1..slice
    <2>1. DumpedOf(printed', n) = 1..(slice - 1) \cup {slice} /\ slice \in 1..Len(files[n].slices)
        BY <1>7, <1>8, <1>9, <1>10
    <2>2. slice \in Nat \ {0}
        BY <1>2, <2>1
    <2>3. 1..(slice - 1) \cup {slice} = 1..slice
        BY <2>2
    <2> QED
        BY <2>1, <2>3
<1>11. n = at => \A s \in DumpedOf(lines, n) : s < thin.slice
    BY <1>1, <1>2, <1>6, <1>8, <1>9
<1>12. OrderedOf(printed', n)
    BY <1>1, <1>6, <1>11, OneMoreLine
<1> QED
    BY <1>7, <1>8, <1>9, <1>10, <1>12

LEMMA TurnStep ==
    ASSUME TypeInv, TurnInv, Next
    PROVE  TurnInv'
<1>1. files' = files /\ want' = want /\ flags' = flags
    BY StepPrints DEF Constant
<1>2. /\ at \in Nat /\ Len(files) \in Nat /\ DOMAIN files = 1..Len(files)
      /\ \A n \in DOMAIN files : /\ Len(files[n].slices) \in Nat
                                 /\ DOMAIN files[n].slices = 1..Len(files[n].slices)
    BY FilesAreTyped DEF TypeInv, TypeOK
<1>3. (pc # "all" => slice = 1)' /\ (status = "ok" => at > Len(files))'
    <2>1. Error \/ NextFile \/ UNCHANGED <<pc, at, status>> \/ Finish
          \/ (pc # "all" /\ UNCHANGED <<at, slice, status>>)
        BY StepPrints DEF NextSlice, OnlySlice
    <2>2. (pc = "all" /\ pc' = pc) \/ slice' = 1 \/ UNCHANGED <<pc, slice>>
        BY StepPrints DEF TurnInv, NextSlice, OnlySlice, NextFile, Error, Finish
    <2>3. status' = "ok" => (at > Len(files))'
        <3>1. CASE NextFile
            <4>1. status = "running"
                BY DEF Next, LoadObject, DumpArchives, DumpFatHeaders, DumpNext, DumpOne, Finish, Running
            <4> QED
                BY <3>1, <4>1 DEF NextFile
        <3> QED
            BY <1>1, <2>1, <3>1 DEF TurnInv, Error, Finish
    <2> QED
        BY <2>2, <2>3 DEF TurnInv
<1>4. ASSUME want = "all", "thin" \in flags, NEW n \in DOMAIN files, NamesAreClear(files[n])
      PROVE  Turn(files, printed', n, at', slice', status' = "running")
    <2>1. Turn(files, printed, n, at, slice, status = "running") /\ n \in Nat
        BY <1>2, <1>4 DEF TurnInv
    <2>2. CASE Quiet /\ Error
        BY <2>1, <2>2, QuietTurn DEF Turn, Error
    <2>3. CASE Quiet /\ UNCHANGED <<at, slice, status>>
        BY <2>1, <2>3, QuietTurn DEF Turn
    <2>4. CASE Quiet /\ Running("all") /\ slice > Len(files[at].slices) /\ NextFile
        <3>0. Turn(files, printed, n, at, slice, TRUE) /\ Quiet
            BY <2>1, <2>4 DEF Running, Turn
        <3>1. Turn(files, printed', n, at, slice, TRUE) /\ slice \in 1..(Len(files[at].slices) + 1) /\ at \in 1..Len(files)
            <4>1. Turn(files, printed', n, at, slice, TRUE)
                BY <3>0, QuietTurn
            <4>2. at \in 1..Len(files) /\ slice \in 1..(Len(files[at].slices) + 1)
                BY <1>2, <2>4 DEF Running, TypeInv, TypeOK
            <4> QED
                BY <4>1, <4>2
        <3>2. slice - 1 = Len(files[at].slices)
            BY <1>2, <2>4, <3>1
        <3>3. n < at \/ n = at \/ n > at
            BY <1>2, <2>1
        <3>4. at' = at + 1 /\ slice' = 1 /\ 1..(1 - 1) = {}
            BY <2>4 DEF NextFile
        <3>5. n < at' => DumpedOf(printed', n) = DOMAIN files[n].slices
            BY <1>2, <2>1, <3>1, <3>2, <3>3, <3>4 DEF Turn
        <3>6. (n > at' \/ n = at') => DumpedOf(printed', n) = {}
            BY <1>2, <2>1, <3>1, <3>4 DEF Turn
        <3> QED
            BY <3>1, <3>4, <3>5, <3>6 DEF Turn
    <2>5. CASE Quiet /\ Finish
        <3>1. ~(n = at) /\ at' = at /\ slice' = slice
            BY <1>2, <1>4, <2>5 DEF Finish
        <3> QED
            BY <2>1, <2>5, <3>1, QuietTurn DEF Turn
    <2>6. ASSUME Running(pc), NEW k, NextSlice(k) \/ OnlySlice(k)
          PROVE  Turn(files, printed', n, at', slice', status' = "running")
        <3>1. /\ OrderedOf(printed', n)
              /\ n # at => DumpedOf(printed', n) = DumpedOf(printed, n)
              /\ n = at => /\ k = slice /\ slice \in 1..Len(files[n].slices)
                           /\ DumpedOf(printed', n) = 1..slice
            BY <1>4, <2>6, ThinTurn
        <3>2. /\ \E m \in 0..Len(files[n].slices) : DumpedOf(printed', n) = 1..m
              /\ n < at => DumpedOf(printed', n) = DOMAIN files[n].slices
              /\ n > at => DumpedOf(printed', n) = {}
            <4>1. CASE n = at
                <5>1. slice \in 0..Len(files[n].slices)
                    BY <1>2, <3>1, <4>1
                <5> QED
                    BY <1>2, <3>1, <4>1, <5>1
            <4>2. CASE n # at
                BY <2>1, <3>1, <4>2 DEF Turn
            <4> QED
                BY <4>1, <4>2
        <3>3. CASE Error
            BY <3>1, <3>2, <3>3 DEF Turn, Error
        <3>4. CASE slice' = slice + 1 /\ UNCHANGED <<pc, at, status>>
            <4>1. n = at => slice \in Nat /\ slice' - 1 = slice
                BY <1>2, <3>1, <3>4
            <4>2. n = at => DumpedOf(printed', n) = 1..(slice' - 1)
                BY <3>1, <4>1
            <4> QED
                BY <3>1, <3>2, <3>4, <4>2 DEF Turn
        <3>5. CASE OnlySlice(k) /\ NextFile
            <4>1. at' = at + 1 /\ slice' = 1 /\ 1..(1 - 1) = {}
                BY <3>5 DEF NextFile
            <4>2. files[at].kind = "thin" /\ slice = 1 /\ at \in 1..Len(files)
                BY <1>2, <1>4, <2>6, <3>5, FilesAreTyped DEF OnlySlice, TypeInv, TypeOK, TurnInv, Running
            <4>3. Len(files[at].slices) = 1
                BY <4>2, FilesAreTyped DEF TypeInv
            <4>4. n < at \/ n = at \/ n > at
                BY <1>2, <2>1
            <4>5. n < at' => DumpedOf(printed', n) = DOMAIN files[n].slices
                <5>1. CASE n = at
                    <6>1. DumpedOf(printed', n) = 1..1
                        BY <3>1, <4>2, <5>1
                    <6>2. DOMAIN files[n].slices = 1..1
                        BY <1>2, <4>3, <5>1
                    <6> QED
                        BY <6>1, <6>2
                <5>2. CASE n # at
                    BY <1>2, <2>1, <3>2, <4>1, <4>4, <5>2
                <5> QED
                    BY <5>1, <5>2
            <4>6. (n > at' \/ n = at') => DumpedOf(printed', n) = {}
                BY <1>2, <2>1, <3>2, <4>1
            <4> QED
                BY <3>1, <3>2, <4>1, <4>5, <4>6 DEF Turn
        <3> QED
            BY <2>6, <3>3, <3>4, <3>5 DEF NextSlice, OnlySlice
    <2> QED
        BY <1>4, <2>2, <2>3, <2>4, <2>5, <2>6, StepPrints
<1> QED
    BY <1>1, <1>3, <1>4 DEF TurnInv

LEMMA TurnInit == Init => TurnInv
<1> SUFFICES ASSUME Init PROVE TurnInv
    OBVIOUS
<1>1. \A n : DumpedOf(<<>>, n) = {} /\ OrderedOf(<<>>, n)
    BY DEF DumpedOf, OrderedOf, ThinOf
<1>2. files \in Inputs /\ printed = <<>> /\ at = 1 /\ slice = 1 /\ status = "running" /\ DOMAIN files = 1..Len(files)
    BY FilesAreTyped DEF Init
<1>3. ASSUME NEW n \in DOMAIN files PROVE Turn(files, printed, n, at, slice, status = "running")
    <2>1. ~(n < 1) /\ Len(files[n].slices) \in Nat
        BY <1>2, FilesAreTyped
    <2>2. 0 \in 0..Len(files[n].slices) /\ 1..0 = {} /\ 1 - 1 = 0
        BY <2>1
    <2> QED
        BY <1>1, <1>2, <2>1, <2>2 DEF Turn
<1> QED
    BY <1>2, <1>3 DEF TurnInv

\* --arch all dumps each slice of a file whose names are clear once and in turn, for
\* all command lines and files of any number of slices.
THEOREM AllAlwaysDumpsEachSlice == Spec => []AllDumpsEachSlice
<1>1. TypeInv /\ TurnInv /\ [Next]_vars => TurnInv'
    <2>1. CASE UNCHANGED vars
        BY <2>1 DEF vars, TurnInv, Turn
    <2> QED
        BY <2>1, TurnStep
<1>2. TypeInv /\ TurnInv => AllDumpsEachSlice
    <2> SUFFICES ASSUME TypeInv, TurnInv, NEW n \in DOMAIN files,
                        want = "all", "thin" \in flags, NamesAreClear(files[n])
                 PROVE  /\ \A j, k \in Thin(n) : j < k => printed[j].slice < printed[k].slice
                        /\ \E m \in 0..Len(files[n].slices) : Dumped(n) = 1..m
                        /\ status = "ok" \/ n < at => Dumped(n) = DOMAIN files[n].slices
        BY DEF AllDumpsEachSlice
    <2>1. Turn(files, printed, n, at, slice, status = "running") /\ (status = "ok" => at > Len(files))
        BY DEF TurnInv
    <2>2. n \in 1..Len(files) /\ Len(files) \in Nat /\ at \in Nat
        BY FilesAreTyped DEF TypeInv, TypeOK
    <2>3. status = "ok" => n < at
        BY <2>1, <2>2
    <2> QED
        BY <2>1, <2>3 DEF Turn, DumpedOf, OrderedOf, ThinOf, Dumped, Thin
<1> QED
    BY <1>1, <1>2, TypeInit, TypeStep, TurnInit, PTL DEF Spec
=============================================================================
