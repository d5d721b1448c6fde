---------------------------- MODULE IpaCliProofs ----------------------------
(***************************************************************************)
(* Theorems about the editing commands of IpaCli, for every disk, every     *)
(* archive and every command line.                                          *)
(***************************************************************************)
EXTENDS IpaCli, WellFoundedInduction, FiniteSetTheorems, FunctionTheorems, TLAPS

\* A set of natural numbers that is not empty has a least element.
LEMMA LeastNat ==
    ASSUME NEW T, T \subseteq Nat, T # {}
    PROVE  \E x \in T : \A y \in T : x <= y
<1> DEFINE R == {ss \in Nat \X Nat : ss[1] < ss[2]}
<1>1. IsWellFoundedOn(R, Nat)
  BY NatLessThanWellFounded DEF OpToRel
<1>2. PICK x \in T : \A y \in T : <<y, x>> \notin R
  <2> HIDE DEF R
  <2> QED BY <1>1, WFMin
<1>3. ASSUME NEW y \in T
      PROVE  x <= y
  <2>1. x \in Nat /\ y \in Nat
    OBVIOUS
  <2>2. <<y, x>> \in Nat \X Nat
    BY <2>1
  <2>3. ~(y < x)
    BY <1>2, <2>2
  <2> QED BY <2>1, <2>3
<1> QED BY <1>3

\* A set of positions of a sequence that is not empty has a last element.
LEMMA LastPosition ==
    ASSUME NEW n \in Nat, NEW T \in SUBSET (1..n), T # {}
    PROVE  \E x \in T : \A y \in T : y <= x
<1> DEFINE U == {n - i : i \in T}
<1>1. U \subseteq Nat /\ U # {}
  <2>1. \A i \in T : i \in 1..n
    OBVIOUS
  <2>2. \A i \in T : n - i \in Nat
    BY <2>1
  <2>3. U \subseteq Nat
    BY <2>2
  <2>4. PICK i \in T : TRUE
    OBVIOUS
  <2>5. n - i \in U
    OBVIOUS
  <2> QED BY <2>3, <2>5
<1>2. PICK u \in U : \A v \in U : u <= v
  <2> HIDE DEF U
  <2> QED BY <1>1, LeastNat
<1>3. PICK x \in T : u = n - x
  OBVIOUS
<1>4. \A y \in T : n - x <= n - y
  BY <1>2, <1>3
<1>5. \A y \in T : y <= x
  BY <1>4
<1> QED BY <1>5

\* What FindAppPrefix returns is 0 or the first .app of the VFS.
LEMMA FindAppPrefixType ==
    ASSUME NEW files, DOMAIN files \subseteq Name
    PROVE  /\ FindAppPrefix(files) \in Apps \cup {0}
           /\ AppsIn(files) # {} => FindAppPrefix(files) \in AppsIn(files)
<1>1. AppsIn(files) \subseteq Apps /\ AppsIn(files) \subseteq Nat
  BY AppsAssumption DEF AppsIn, Name
<1>2. CASE AppsIn(files) = {}
  BY <1>2 DEF FindAppPrefix
<1>3. CASE AppsIn(files) # {}
  <2>1. \E a \in AppsIn(files) : \A b \in AppsIn(files) : a <= b
    BY <1>1, <1>3, LeastNat
  <2>2. FindAppPrefix(files) \in AppsIn(files)
    BY <2>1, <1>3 DEF FindAppPrefix
  <2> QED BY <1>1, <2>2
<1> QED BY <1>2, <1>3

\* Opening gives a VFS without names that end in '/'.
LEMMA DecodeType ==
    ASSUME NEW entries \in Seq(Entry)
    PROVE  /\ IsVfs(Decode(entries))
           /\ \A n \in DOMAIN Decode(entries) : ~IsDir(n)
<1> DEFINE names == {entries[i].name : i \in DOMAIN entries} \ {m \in Name : IsDir(m)}
           kept(n) == {i \in DOMAIN entries : entries[i].name = n}
           last(n) == CHOOSE i \in kept(n) : \A k \in kept(n) : k <= i
<1>1. \A i \in DOMAIN entries : entries[i].name \in Name /\ entries[i].data \in Contents
  <2>1. \A i \in DOMAIN entries : entries[i] \in Entry
    OBVIOUS
  <2> QED BY <2>1 DEF Entry
<1>2. names \subseteq Name /\ \A n \in names : ~IsDir(n)
  BY <1>1
<1>3. ASSUME NEW n \in names
      PROVE  entries[last(n)].data \in Contents
  <2>1. kept(n) \in SUBSET (1..Len(entries)) /\ kept(n) # {} /\ Len(entries) \in Nat
    BY <1>3
  <2>2. \E i \in kept(n) : \A k \in kept(n) : k <= i
    <3> HIDE DEF kept
    <3> QED BY <2>1, LastPosition
  <2>3. last(n) \in kept(n)
    <3> HIDE DEF kept
    <3> QED BY <2>2
  <2> QED BY <1>1, <2>3
<1>4. Decode(entries) = [n \in names |-> entries[last(n)].data]
  BY DEF Decode
<1>5. IsFiniteSet(names)
  <2> DEFINE all == {entries[i].name : i \in DOMAIN entries}
  <2>1. DOMAIN entries = 1..Len(entries) /\ Len(entries) \in Nat
    OBVIOUS
  <2>2. IsFiniteSet(DOMAIN entries)
    BY <2>1, FS_Interval
  <2>3. IsFiniteSet(all)
    <3> DEFINE f == [i \in DOMAIN entries |-> entries[i].name]
    <3>1. f \in Surjection(DOMAIN entries, all)
      BY DEF Surjection
    <3> HIDE DEF f, all
    <3> QED BY <2>2, <3>1, FS_Surjection
  <2>4. names \subseteq all
    OBVIOUS
  <2> QED BY <2>3, <2>4, FS_Subset
<1> HIDE DEF names, last
<1> QED BY <1>2, <1>3, <1>4, <1>5 DEF IsVfs

-----------------------------------------------------------------------------
(* Typing of the parts.                                                     *)

\* What a command line is made of.
LEMMA CommandType ==
    ASSUME NEW c \in Command
    PROVE  /\ c.op \in {"add", "rm", "replace-bin", "pack"}
           /\ c.ipa \in Ipas /\ c.out \in Ipas
           /\ c.name \in Name
           /\ c.fw \in Fws \cup {NoFw}
           /\ c.file \in Contents \cup {NoFile}
<1>1. NoName \in Name
  BY FilesAssumption DEF NoName, Name
<1>2. c \in Arguments
  BY DEF Command
<1> QED
  BY <1>1, <1>2, ArgAssumption DEF Arguments, Ops

\* No command is a command line of its own.
LEMMA NoCmdType == NoCmd \in Command
<1>1. PICK f \in Ipas : TRUE
  BY IpasAssumption
<1> DEFINE c == [op |-> "pack", ipa |-> f, out |-> f, name |-> NoName,
                 fw |-> NoFw, file |-> NoFile]
<1>2. c \in Arguments
  BY <1>1 DEF Arguments, Ops
<1>3. TakesArguments(c)
  BY DEF TakesArguments
<1>4. c \in Command
  <2> HIDE DEF c
  <2> QED BY <1>2, <1>3 DEF Command
<1> HIDE DEF c
<1> QED BY <1>4 DEF NoCmd

\* Inserting a file leaves an archive (IpaVfs::insert).
LEMMA InsertType ==
    ASSUME NEW files, IsVfs(files), NEW n \in Name, NEW d \in Contents
    PROVE  IsVfs(InsertFile(files, n, d))
<1>1. IsFiniteSet(DOMAIN files \cup {n})
  BY FS_AddElement DEF IsVfs
<1> QED BY <1>1 DEF IsVfs, InsertFile

\* Removing a file leaves an archive (IpaVfs::remove).
LEMMA RemoveType ==
    ASSUME NEW files, IsVfs(files), NEW n
    PROVE  IsVfs(RemoveFile(files, n))
<1>1. IsFiniteSet(DOMAIN files \ {n})
  BY FS_RemoveElement DEF IsVfs
<1> QED BY <1>1 DEF IsVfs, RemoveFile

\* The places replace-bin writes to are names.
LEMMA TargetType ==
    ASSUME NEW files, IsVfs(files), NEW a \in Apps \cup {0}
    PROVE  /\ HasMainPath(files, a) => MainPath(files, a) \in Name
           /\ \A fw \in Fws : InApp(a, FwBinary[fw]) \in Name
<1>1. ASSUME HasMainPath(files, a)
      PROVE  MainPath(files, a) \in Name
  <2>1. files[InApp(a, InfoPlist)] \in Contents
    BY <1>1 DEF HasMainPath, IsVfs
  <2>2. ExecOf[files[InApp(a, InfoPlist)]] \in Files
    BY <1>1, <2>1, ContentsAssumption DEF HasMainPath
  <2> QED BY <2>2 DEF MainPath, InApp, Name
<1>2. ASSUME NEW fw \in Fws
      PROVE  InApp(a, FwBinary[fw]) \in Name
  BY FilesAssumption DEF InApp, Name
<1> QED BY <1>1, <1>2

\* The empty archive is one.
LEMMA EmptyVfsType == IsVfs(EmptyVfs)
  BY FS_EmptySet DEF IsVfs, EmptyVfs

\* What opening an archive gives is a VFS (IpaVfs::open).
LEMMA ViewType ==
    ASSUME NEW b \in Bytes, NEW files \in View(b)
    PROVE  /\ IsVfs(files)
           /\ \A n \in DOMAIN files : ~IsDir(n)
           /\ FindAppPrefix(files) \in Apps \cup {0}
<1>1. b.entries \in Seq(Entry)
  BY DEF Bytes
<1>2. files = Decode(b.entries)
  BY DEF View
<1>3. DOMAIN files \subseteq Name
  BY <1>1, <1>2, DecodeType DEF IsVfs
<1> QED BY <1>1, <1>2, <1>3, DecodeType, FindAppPrefixType

-----------------------------------------------------------------------------
(* The order in which names are written.                                    *)

\* Each name of a VFS has one place in the directory that is written.
LEMMA KeySeqPlaces ==
    ASSUME NEW S \in SUBSET Name, IsFiniteSet(S)
    PROVE  /\ KeySeq(S) \in [1..Cardinality(S) -> S]
           /\ \A n \in S : \E i \in 1..Cardinality(S) : KeySeq(S)[i] = n
           /\ Cardinality(S) \in Nat
<1> DEFINE below(n) == {m \in S : Before(m, n)}
           rank(n) == Cardinality(below(n))
           f == [n \in S |-> rank(n)]
<1>1. \A n \in S : n.app \in Nat /\ n.file \in Nat
  <2>1. \A n \in S : n.app \in Apps \cup {0} /\ n.file \in Files
    BY DEF Name
  <2>2. Apps \cup {0} \subseteq Nat
    BY AppsAssumption
  <2>3. Files \subseteq Nat
    BY FilesAssumption
  <2> QED BY <2>1, <2>2, <2>3
<1>2. Cardinality(S) \in Nat
  BY FS_CardinalityType
<1>3. \A n \in S : IsFiniteSet(below(n)) /\ rank(n) \in Nat /\ rank(n) <= Cardinality(S)
  BY FS_Subset, FS_CardinalityType
<1>4. ASSUME NEW n \in S
      PROVE  rank(n) \in 1..Cardinality(S)
  <2>1. n \in below(n)
    BY <1>1 DEF Before
  <2>2. rank(n) # 0
    <3>1. IsFiniteSet(below(n)) /\ below(n) # {}
      BY <1>3, <2>1
    <3> HIDE DEF below
    <3> QED BY <3>1, FS_EmptySet
  <2>3. rank(n) \in Nat /\ rank(n) <= Cardinality(S)
    BY <1>3
  <2> HIDE DEF rank
  <2> QED BY <1>2, <2>2, <2>3
<1>5. ASSUME NEW m \in S, NEW n \in S, Before(m, n), m # n
      PROVE  rank(m) # rank(n)
  <2>1. m.app # n.app \/ m.file # n.file
    BY <1>5 DEF Name
  <2>2. ~Before(n, m)
    BY <1>1, <1>5, <2>1 DEF Before
  <2>3. n \in below(n) /\ n \notin below(m)
    BY <1>1, <2>2 DEF Before
  <2>4. below(m) \subseteq below(n)
    BY <1>1, <1>5 DEF Before
  <2>5. below(m) # below(n)
    BY <2>3
  <2> HIDE DEF below
  <2> QED BY <1>3, <2>4, <2>5, FS_Subset
<1>6. \A m, n \in S : Before(m, n) \/ Before(n, m)
  BY <1>1 DEF Before
<1>7. f \in Injection(S, 1..Cardinality(S))
  <2>1. f \in [S -> 1..Cardinality(S)]
    <3> HIDE DEF rank
    <3> QED BY <1>4
  <2>2. ASSUME NEW m \in S, NEW n \in S, f[m] = f[n]
        PROVE  m = n
    <3>1. rank(m) = rank(n)
      <4> HIDE DEF rank
      <4> QED BY <2>2
    <3> HIDE DEF rank
    <3> QED BY <3>1, <1>5, <1>6
  <2> HIDE DEF f
  <2> QED BY <2>1, <2>2 DEF Injection, IsInjective
<1>8. f \in Surjection(S, 1..Cardinality(S))
  <2>1. IsFiniteSet(1..Cardinality(S)) /\ Cardinality(1..Cardinality(S)) = Cardinality(S)
    BY <1>2, FS_Interval
  <2> HIDE DEF f
  <2> QED BY <1>7, <2>1, FS_Injection
<1>9. \A i \in 1..Cardinality(S) : \E n \in S : rank(n) = i
  <2> HIDE DEF rank
  <2> QED BY <1>8 DEF Surjection
<1>10. KeySeq(S) = [i \in 1..Cardinality(S) |-> CHOOSE n \in S : rank(n) = i]
  BY DEF KeySeq
<1>11. \A m, n \in S : rank(m) = rank(n) => m = n
  <2> HIDE DEF rank
  <2> QED BY <1>5, <1>6
<1> HIDE DEF rank
<1>12. \A n \in S : KeySeq(S)[rank(n)] = n
  <2> TAKE n \in S
  <2>1. KeySeq(S)[rank(n)] = CHOOSE m \in S : rank(m) = rank(n)
    BY <1>4, <1>10
  <2> QED BY <2>1, <1>11
<1> QED BY <1>2, <1>4, <1>9, <1>10, <1>12

\* What is written is a sequence of entries.
LEMMA ToBytesType ==
    ASSUME NEW files, IsVfs(files)
    PROVE  ToBytes(files) \in Seq(Entry)
<1> DEFINE keys == KeySeq(DOMAIN files)
<1>1. keys \in [1..Cardinality(DOMAIN files) -> DOMAIN files] /\ Cardinality(DOMAIN files) \in Nat
  BY KeySeqPlaces DEF IsVfs
<1> HIDE DEF keys
<1>2. \A i \in DOMAIN keys :
        [name |-> keys[i], data |-> files[keys[i]], ok |-> TRUE] \in Entry
  BY <1>1 DEF IsVfs, Entry
<1>3. ToBytes(files) =
        [i \in 1..Cardinality(DOMAIN files) |->
            [name |-> keys[i], data |-> files[keys[i]], ok |-> TRUE]]
  BY <1>1 DEF ToBytes, keys
<1> QED BY <1>1, <1>2, <1>3

-----------------------------------------------------------------------------
(* Type correctness.                                                        *)

\* What is written is a list of entries (IpaVfs::to_bytes).
LEMMA BytesType ==
    /\ Missing \in Bytes
    /\ Partial \in Bytes
    /\ \A s \in Seq(Entry) : Zip(s) \in Bytes
  BY DEF Missing, Partial, Zip, Bytes

\* Leaving restores the idle values.
LEMMA ExitType == Exit => /\ pc' \in PCs /\ cmd' \in Command /\ IsVfs(vfs')
                          /\ app' \in Apps \cup {0} /\ IsVfs(seen') /\ old' \in Bytes
  BY NoCmdType, EmptyVfsType, BytesType DEF Exit, PCs

\* Giving up keeps the types.
LEMMA RejectType == TypeOK /\ Reject => TypeOK'
  BY ExitType DEF Reject, TypeOK

\* Inserting a local file keeps the types, whether it can be read or not.
LEMMA InsertLocalType ==
    ASSUME TypeOK, NEW n \in Name, InsertLocal(n)
    PROVE  TypeOK'
<1>1. CASE cmd.file = NoFile
  BY <1>1, RejectType DEF InsertLocal
<1>2. CASE cmd.file # NoFile
  <2>1. cmd.file \in Contents
    BY <1>2, CommandType DEF TypeOK
  <2>2. IsVfs(vfs')
    BY <1>2, <2>1, InsertType DEF InsertLocal, TypeOK
  <2> QED BY <1>2, <2>2 DEF InsertLocal, TypeOK, PCs
<1> QED BY <1>1, <1>2

\* Every step keeps the types.
LEMMA TypeStep == TypeOK /\ [Next]_vars => TypeOK'
<1> SUFFICES ASSUME TypeOK, [Next]_vars PROVE TypeOK'
  OBVIOUS
<1>1. ASSUME NEW c \in Command, Start(c)
      PROVE  TypeOK'
  BY <1>1, DiskAssumption DEF Start, TypeOK, PCs
<1>2. CASE OpenIpa
  <2>1. CASE Reject
    BY <2>1, RejectType
  <2>2. ASSUME NEW files \in View(disk[cmd.ipa]),
               vfs' = files, app' = FindAppPrefix(files), seen' = files,
               pc' = "opened", UNCHANGED <<disk, cmd, left, old>>
        PROVE  TypeOK'
    <3>1. disk[cmd.ipa] \in Bytes
      BY CommandType DEF TypeOK
    <3>2. IsVfs(files) /\ FindAppPrefix(files) \in Apps \cup {0}
      BY <3>1, ViewType
    <3> QED BY <2>2, <3>2 DEF TypeOK, PCs
  <2> QED BY <1>2, <2>1, <2>2 DEF OpenIpa
<1>3. CASE EditAdd
  BY <1>3, CommandType, InsertLocalType DEF EditAdd, TypeOK
<1>4. CASE EditRm
  <2>1. CASE cmd.name \notin DOMAIN vfs
    BY <1>4, <2>1, RejectType DEF EditRm
  <2>2. CASE cmd.name \in DOMAIN vfs
    BY <1>4, <2>2, RemoveType DEF EditRm, TypeOK, PCs
  <2> QED BY <2>1, <2>2
<1>5. CASE EditReplaceBin
  <2>1. CASE cmd.fw # NoFw
    <3>1. InApp(app, FwBinary[cmd.fw]) \in Name
      BY <2>1, CommandType, TargetType DEF TypeOK
    <3> QED BY <1>5, <2>1, <3>1, InsertLocalType DEF EditReplaceBin
  <2>2. CASE cmd.fw = NoFw /\ HasMainPath(vfs, app)
    <3>1. MainPath(vfs, app) \in Name
      BY <2>2, TargetType DEF TypeOK
    <3> QED BY <1>5, <2>2, <3>1, InsertLocalType DEF EditReplaceBin
  <2>3. CASE cmd.fw = NoFw /\ ~HasMainPath(vfs, app)
    BY <1>5, <2>3, RejectType DEF EditReplaceBin
  <2> QED BY <2>1, <2>2, <2>3
<1>6. CASE EditPack
  BY <1>6 DEF EditPack, TypeOK, PCs
<1>7. CASE CreateOut
  <2>1. CASE Reject
    BY <2>1, RejectType
  <2>2. CASE ~Reject
    <3>1. disk' \in [Ipas -> Bytes] /\ old' \in Bytes /\ pc' = "writing"
      BY <1>7, <2>2, BytesType, CommandType DEF CreateOut, TypeOK
    <3> QED BY <1>7, <2>2, <3>1 DEF CreateOut, TypeOK, PCs
  <2> QED BY <2>1, <2>2
<1>8. CASE WriteOut
  <2>1. Zip(ToBytes(vfs)) \in Bytes
    BY ToBytesType, BytesType DEF TypeOK
  <2>2. disk' \in [Ipas -> Bytes]
    BY <1>8, <2>1 DEF WriteOut, TypeOK
  <2> QED BY <1>8, <2>2, ExitType DEF WriteOut, TypeOK
<1>9. CASE WriteFails
  BY <1>9, RejectType DEF WriteFails
<1>10. CASE Crash
  BY <1>10, RejectType DEF Crash
<1>11. CASE UNCHANGED vars
  BY <1>11 DEF vars, TypeOK
<1> QED
  BY <1>1, <1>2, <1>3, <1>4, <1>5, <1>6, <1>7, <1>8, <1>9, <1>10, <1>11 DEF Next, Step

\* The types hold at the start.
LEMMA TypeInit == Init => TypeOK
  BY DiskAssumption, NoCmdType, EmptyVfsType, BytesType DEF Init, TypeOK, PCs

\* Every state of a run of commands is well typed: in particular every file is
\* absent, cut short or a sequence of entries, and the VFS in memory maps
\* names to contents.
THEOREM TypeCorrect == Spec => []TypeOK
  BY TypeInit, TypeStep, PTL DEF Spec

-----------------------------------------------------------------------------
(* What is written is the edit of what was read.                            *)

NoDirs(files) == \A n \in DOMAIN files : ~IsDir(n)

\* Leaving out directories changes nothing where there are none.
LEMMA FilesOnlyOfFiles ==
    ASSUME NEW files, IsVfs(files), NoDirs(files)
    PROVE  FilesOnly(files) = files
  BY DEF FilesOnly, IsVfs, NoDirs

\* Leaving out directories after an insertion.
LEMMA FilesOnlyOfInsert ==
    ASSUME NEW files, IsVfs(files), NoDirs(files), NEW n \in Name, NEW d
    PROVE  FilesOnly(InsertFile(files, n, d)) =
                IF IsDir(n) THEN files ELSE InsertFile(files, n, d)
<1>1. CASE IsDir(n)
  BY <1>1 DEF FilesOnly, IsVfs, NoDirs, InsertFile
<1>2. CASE ~IsDir(n)
  BY <1>2 DEF FilesOnly, IsVfs, NoDirs, InsertFile
<1> QED BY <1>1, <1>2

\* Leaving out directories after a removal.
LEMMA FilesOnlyOfRemove ==
    ASSUME NEW files, IsVfs(files), NoDirs(files), NEW n
    PROVE  FilesOnly(RemoveFile(files, n)) = RemoveFile(files, n)
  BY DEF FilesOnly, IsVfs, NoDirs, RemoveFile

\* Giving up keeps the strengthened invariant.
LEMMA RejectIInv == Reject => IInv'
  BY DEF Reject, Exit, IInv, EditIsOfWhatWasRead

\* Inserting the local file at the target of the command is its edit.
LEMMA InsertLocalIInv ==
    ASSUME TypeOK, IInv, pc = "opened", cmd.op \in {"add", "replace-bin"},
           cmd.op = "replace-bin" /\ cmd.fw = NoFw => HasMainPath(seen, FindAppPrefix(seen)),
           NEW n \in Name, n = Target(cmd, seen), InsertLocal(n)
    PROVE  IInv'
<1>1. CASE cmd.file = NoFile
  BY <1>1, RejectIInv DEF InsertLocal
<1>2. CASE cmd.file # NoFile
  <2>1. vfs' = InsertFile(seen, n, cmd.file) /\ NoDirs(seen) /\ IsVfs(seen)
    BY <1>2 DEF InsertLocal, IInv, NoDirs, TypeOK
  <2>2. Acceptable(cmd, seen)
    BY <1>2 DEF Acceptable
  <2>3. Edited(cmd, seen) = IF IsDir(n) THEN seen ELSE InsertFile(seen, n, cmd.file)
    BY DEF Edited
  <2>4. FilesOnly(vfs') = Edited(cmd, seen)
    BY <2>1, <2>3, FilesOnlyOfInsert
  <2>5. pc' = "edited" /\ cmd' = cmd /\ seen' = seen /\ app' = app /\ disk' = disk
    BY <1>2 DEF InsertLocal
  <2> QED BY <2>2, <2>4, <2>5 DEF IInv, EditIsOfWhatWasRead
<1> QED BY <1>1, <1>2

\* Every step keeps the strengthened invariant.
LEMMA IInvStep == TypeOK /\ IInv /\ [Next]_vars => IInv'
<1> SUFFICES ASSUME TypeOK, IInv, [Next]_vars PROVE IInv'
  OBVIOUS
<1>1. ASSUME NEW c \in Command, Start(c)
      PROVE  IInv'
  BY <1>1 DEF Start, IInv, EditIsOfWhatWasRead
<1>2. CASE OpenIpa
  <2>1. CASE Reject
    BY <2>1, RejectIInv
  <2>2. ASSUME NEW files \in View(disk[cmd.ipa]),
               vfs' = files, app' = FindAppPrefix(files), seen' = files,
               pc' = "opened", disk' = disk, cmd' = cmd
        PROVE  IInv'
    <3>1. disk[cmd.ipa] \in Bytes
      BY CommandType DEF TypeOK
    <3>2. \A n \in DOMAIN files : ~IsDir(n)
      BY <3>1, ViewType
    <3> QED BY <2>2, <3>2 DEF IInv, EditIsOfWhatWasRead
  <2> QED BY <1>2, <2>1, <2>2 DEF OpenIpa
<1>3. CASE EditAdd
  <2>1. cmd.name \in Name /\ cmd.name = Target(cmd, seen)
    BY <1>3, CommandType DEF EditAdd, TypeOK, Target
  <2> QED BY <1>3, <2>1, InsertLocalIInv DEF EditAdd
<1>4. CASE EditRm
  <2>1. CASE cmd.name \notin DOMAIN vfs
    BY <1>4, <2>1, RejectIInv DEF EditRm
  <2>2. CASE cmd.name \in DOMAIN vfs
    <3>1. vfs' = RemoveFile(seen, cmd.name) /\ NoDirs(seen) /\ IsVfs(seen)
      BY <1>4, <2>2 DEF EditRm, IInv, NoDirs, TypeOK
    <3>2. FilesOnly(vfs') = Edited(cmd, seen)
      BY <1>4, <3>1, FilesOnlyOfRemove DEF EditRm, Edited
    <3>3. Acceptable(cmd, seen)
      BY <1>4, <2>2 DEF EditRm, Acceptable, IInv
    <3> QED BY <1>4, <2>2, <3>2, <3>3 DEF EditRm, IInv, EditIsOfWhatWasRead
  <2> QED BY <2>1, <2>2
<1>5. CASE EditReplaceBin
  <2>1. vfs = seen /\ app = FindAppPrefix(seen) /\ cmd.op = "replace-bin" /\ pc = "opened"
    BY <1>5 DEF EditReplaceBin, IInv
  <2>2. CASE cmd.fw # NoFw
    <3>1. InApp(app, FwBinary[cmd.fw]) \in Name
      BY <2>2, CommandType, TargetType DEF TypeOK
    <3>2. InApp(app, FwBinary[cmd.fw]) = Target(cmd, seen)
      BY <2>1, <2>2 DEF Target
    <3> QED BY <1>5, <2>1, <2>2, <3>1, <3>2, InsertLocalIInv DEF EditReplaceBin
  <2>3. CASE cmd.fw = NoFw /\ HasMainPath(vfs, app)
    <3>1. MainPath(vfs, app) \in Name
      BY <2>3, TargetType DEF TypeOK
    <3>2. MainPath(vfs, app) = Target(cmd, seen)
      BY <2>1, <2>3 DEF Target
    <3> QED BY <1>5, <2>1, <2>3, <3>1, <3>2, InsertLocalIInv DEF EditReplaceBin
  <2>4. CASE cmd.fw = NoFw /\ ~HasMainPath(vfs, app)
    BY <1>5, <2>4, RejectIInv DEF EditReplaceBin
  <2> QED BY <2>2, <2>3, <2>4
<1>6. CASE EditPack
  <2>1. NoDirs(seen) /\ IsVfs(seen) /\ vfs' = seen
    BY <1>6 DEF EditPack, IInv, NoDirs, TypeOK
  <2>2. FilesOnly(vfs') = Edited(cmd, seen)
    BY <1>6, <2>1, FilesOnlyOfFiles DEF EditPack, Edited
  <2>3. Acceptable(cmd, seen)
    BY <1>6 DEF EditPack, Acceptable
  <2> QED BY <1>6, <2>2, <2>3 DEF EditPack, IInv, EditIsOfWhatWasRead
<1>7. CASE CreateOut
  <2>1. CASE Reject
    BY <2>1, RejectIInv
  <2>2. CASE ~Reject
    <3>1. /\ pc = "edited" /\ pc' = "writing" /\ UNCHANGED <<cmd, vfs, app, seen>>
          /\ disk' = [disk EXCEPT ![cmd.out] = Partial] /\ old' = disk[cmd.out]
      BY <1>7, <2>2 DEF CreateOut
    <3>2. disk'[cmd.out] = Partial /\ (cmd.ipa # cmd.out => disk'[cmd.ipa] = disk[cmd.ipa])
      BY <3>1, CommandType DEF TypeOK
    <3>3. seen \in View(IF cmd.ipa = cmd.out THEN old' ELSE disk'[cmd.ipa])
      BY <3>1, <3>2 DEF IInv
    <3> QED BY <3>1, <3>2, <3>3 DEF IInv, EditIsOfWhatWasRead
  <2> QED BY <2>1, <2>2
<1>8. CASE WriteOut
  BY <1>8 DEF WriteOut, Exit, IInv, EditIsOfWhatWasRead
<1>9. CASE WriteFails
  BY <1>9, RejectIInv DEF WriteFails
<1>10. CASE Crash
  BY <1>10, RejectIInv DEF Crash
<1>11. CASE UNCHANGED vars
  BY <1>11 DEF vars, IInv, EditIsOfWhatWasRead
<1> QED
  BY <1>1, <1>2, <1>3, <1>4, <1>5, <1>6, <1>7, <1>8, <1>9, <1>10, <1>11 DEF Next, Step

\* When a command touches its output, its VFS is the archive it opened with
\* exactly the edit it was asked for, and every check of the command has
\* passed: a rejected command leaves the disk as it was.
THEOREM EditCorrect == Spec => []EditIsOfWhatWasRead
<1>1. Init => IInv
  BY DEF Init, IInv, EditIsOfWhatWasRead
<1>2. IInv => EditIsOfWhatWasRead
  BY DEF IInv
<1> QED
  BY <1>1, <1>2, IInvStep, TypeCorrect, PTL DEF Spec

-----------------------------------------------------------------------------
(* The commands implement atomic edits.                                     *)

\* Opening what was written gives the VFS without its directory names.
LEMMA RoundTrip ==
    ASSUME NEW files, IsVfs(files)
    PROVE  /\ Decode(ToBytes(files)) = FilesOnly(files)
           /\ \A i \in DOMAIN ToBytes(files) : ToBytes(files)[i].ok
<1> DEFINE keys == KeySeq(DOMAIN files)
           n == Cardinality(DOMAIN files)
           bytes == ToBytes(files)
           kept(m) == {i \in DOMAIN bytes : bytes[i].name = m}
           last(m) == CHOOSE i \in kept(m) : \A k \in kept(m) : k <= i
<1>1. /\ keys \in [1..n -> DOMAIN files]
      /\ \A m \in DOMAIN files : \E i \in 1..n : keys[i] = m
      /\ n \in Nat
  BY KeySeqPlaces DEF IsVfs
<1>2. bytes = [i \in 1..n |-> [name |-> keys[i], data |-> files[keys[i]], ok |-> TRUE]]
  BY <1>1 DEF ToBytes
<1>3. DOMAIN bytes = 1..n /\ \A i \in 1..n :
        bytes[i].name = keys[i] /\ bytes[i].data = files[keys[i]] /\ bytes[i].ok
  <2> HIDE DEF bytes, keys, n
  <2> QED BY <1>2
<1>4. {bytes[i].name : i \in DOMAIN bytes} = DOMAIN files
  <2>1. ASSUME NEW m \in DOMAIN files
        PROVE  \E i \in DOMAIN bytes : bytes[i].name = m
    <3> HIDE DEF bytes, keys, n
    <3> QED BY <1>1, <1>3
  <2>2. \A i \in DOMAIN bytes : bytes[i].name \in DOMAIN files
    <3> HIDE DEF bytes, keys, n
    <3> QED BY <1>1, <1>3
  <2> HIDE DEF bytes
  <2> QED BY <2>1, <2>2
<1>5. ASSUME NEW m \in DOMAIN files
      PROVE  bytes[last(m)].data = files[m]
  <2>1. kept(m) \in SUBSET (1..n) /\ kept(m) # {} /\ \A i \in kept(m) : bytes[i].data = files[m]
    <3> HIDE DEF bytes, keys, n
    <3> QED BY <1>1, <1>3
  <2>2. \E i \in kept(m) : \A k \in kept(m) : k <= i
    <3> HIDE DEF kept, bytes, n
    <3> QED BY <1>1, <2>1, LastPosition
  <2>3. last(m) \in kept(m)
    <3> HIDE DEF kept
    <3> QED BY <2>2
  <2> QED BY <2>1, <2>3
<1>6. Decode(bytes) = [m \in {bytes[i].name : i \in DOMAIN bytes} \ {m \in Name : IsDir(m)} |->
                        bytes[last(m)].data]
  BY DEF Decode
<1>7. Decode(bytes) = FilesOnly(files)
  <2> HIDE DEF bytes, last
  <2>1. DOMAIN files \ {m \in Name : IsDir(m)} = {m \in DOMAIN files : ~IsDir(m)}
    BY DEF IsVfs
  <2> QED BY <1>4, <1>5, <1>6, <2>1 DEF FilesOnly
<1> QED BY <1>3, <1>7

\* Opening what was written gives the files that were written.
LEMMA ViewOfWritten ==
    ASSUME NEW files, IsVfs(files)
    PROVE  View(Zip(ToBytes(files))) =
                IF FindAppPrefix(FilesOnly(files)) = 0 THEN {} ELSE {FilesOnly(files)}
<1>1. Opens(ToBytes(files)) <=> FindAppPrefix(FilesOnly(files)) # 0
  BY RoundTrip DEF Opens
<1> QED BY <1>1, RoundTrip DEF View, Zip

\* The definitions of IpaVfs and IpaEdits as the abstract store sees them.
LEMMA StoreEdits ==
    ASSUME NEW c, NEW files
    PROVE  /\ Store!Acceptable(c, files) <=> Acceptable(c, files)
           /\ Store!Edited(c, files) = Edited(c, files)
           /\ Store!FindAppPrefix(files) = FindAppPrefix(files)
           /\ Store!IsVfs(files) <=> IsVfs(files)
           /\ Store!Command = Command
<1>1. Store!FindAppPrefix(files) = FindAppPrefix(files)
  BY DEF Store!FindAppPrefix, FindAppPrefix, Store!AppsIn, AppsIn
<1>2. \A a : /\ Store!HasMainPath(files, a) <=> HasMainPath(files, a)
             /\ Store!MainPath(files, a) = MainPath(files, a)
  BY DEF Store!HasMainPath, HasMainPath, Store!MainPath, MainPath, Store!InApp, InApp
<1>3. Store!Acceptable(c, files) <=> Acceptable(c, files)
  BY <1>1, <1>2 DEF Store!Acceptable, Acceptable
<1>4. Store!Target(c, files) = Target(c, files)
  BY <1>1, <1>2 DEF Store!Target, Target, Store!InApp, InApp
<1>5. Store!Edited(c, files) = Edited(c, files)
  BY <1>4 DEF Store!Edited, Edited, Store!InsertFile, InsertFile, Store!RemoveFile,
              RemoveFile, Store!IsDir, IsDir
<1>6. Store!IsVfs(files) <=> IsVfs(files)
  BY DEF Store!IsVfs, IsVfs, Store!Name, Name, Store!IsFiniteSet, IsFiniteSet
<1>7. Store!Command = Command
  BY DEF Store!Command, Command, Store!Arguments, Arguments, Store!TakesArguments,
         TakesArguments, Store!Ops, Ops, Store!NoName, NoName
<1> QED BY <1>1, <1>3, <1>5, <1>6, <1>7

\* A write that is cut short loses the output; leaving before the output is
\* created changes nothing.
LEMMA RejectRefines ==
    ASSUME TypeOK, IInv, Reject
    PROVE  [Store!Next]_contents
<1>1. pc' = "idle" /\ disk' = disk
  BY DEF Reject, Exit
<1>2. contents' = [f \in Ipas |-> View(disk[f])]
  BY <1>1 DEF contents
<1>3. CASE pc # "writing"
  BY <1>2, <1>3 DEF contents
<1>4. CASE pc = "writing"
  <2>1. View(disk[cmd.out]) = {}
    BY <1>4 DEF IInv, View, Partial
  <2>2. contents' = [contents EXCEPT ![cmd.out] = {}]
    BY <1>2, <1>4, <2>1 DEF contents
  <2>3. seen \in contents[cmd.ipa] /\ Acceptable(cmd, seen) /\ cmd \in Command
    BY <1>4, CommandType DEF IInv, EditIsOfWhatWasRead, contents, TypeOK
  <2>4. cmd \in Store!Command /\ Store!Acceptable(cmd, seen)
    BY <2>3, StoreEdits
  <2>5. Store!Lose(cmd)
    BY <2>2, <2>3, <2>4 DEF Store!Lose
  <2>6. contents' # contents => Store!Next
    BY <2>4, <2>5 DEF Store!Next
  <2> QED BY <2>6
<1> QED BY <1>3, <1>4

\* Completing the write is the edit.
LEMMA WriteRefines ==
    ASSUME TypeOK, IInv, WriteOut
    PROVE  [Store!Next]_contents
<1>1. /\ pc = "writing" /\ pc' = "idle"
      /\ disk' = [disk EXCEPT ![cmd.out] = Zip(ToBytes(vfs))]
  BY DEF WriteOut, Exit
<1>2. cmd \in Command /\ cmd.out \in Ipas /\ cmd.ipa \in Ipas
  BY CommandType DEF TypeOK
<1>3. contents' = [f \in Ipas |-> View(disk'[f])]
  BY <1>1 DEF contents
<1>4. contents' = [contents EXCEPT ![cmd.out] = View(Zip(ToBytes(vfs)))]
  BY <1>1, <1>2, <1>3 DEF contents, TypeOK
<1>5. Acceptable(cmd, seen) /\ FilesOnly(vfs) = Edited(cmd, seen)
  BY <1>1 DEF IInv, EditIsOfWhatWasRead
<1>6. seen \in contents[cmd.ipa]
  BY <1>1, <1>2 DEF IInv, contents
<1>7. View(Zip(ToBytes(vfs))) = Store!Reopened(Store!Edited(cmd, seen))
  <2>1. Store!Edited(cmd, seen) = FilesOnly(vfs)
    BY <1>5, StoreEdits
  <2>2. Store!FindAppPrefix(FilesOnly(vfs)) = FindAppPrefix(FilesOnly(vfs))
    BY StoreEdits
  <2> QED BY <2>1, <2>2, ViewOfWritten DEF Store!Reopened, TypeOK
<1>8. cmd \in Store!Command /\ Store!Acceptable(cmd, seen)
  BY <1>2, <1>5, StoreEdits
<1>9. Store!Edit(cmd)
  BY <1>4, <1>6, <1>7, <1>8 DEF Store!Edit
<1> QED BY <1>8, <1>9 DEF Store!Next

\* Inserting a local file changes no contents on disk.
LEMMA InsertLocalRefines ==
    ASSUME TypeOK, IInv, pc = "opened", NEW n, InsertLocal(n)
    PROVE  [Store!Next]_contents
<1>1. CASE cmd.file = NoFile
  BY <1>1, RejectRefines DEF InsertLocal
<1>2. CASE cmd.file # NoFile
  BY <1>2 DEF InsertLocal, contents
<1> QED BY <1>1, <1>2

\* Every step is one of BundleStore, or changes no contents.
LEMMA StepRefines == TypeOK /\ IInv /\ [Next]_vars => [Store!Next]_contents
<1> SUFFICES ASSUME TypeOK, IInv, [Next]_vars PROVE [Store!Next]_contents
  OBVIOUS
<1>1. ASSUME NEW c \in Command, Start(c)
      PROVE  UNCHANGED contents
  BY <1>1 DEF Start, contents
<1>2. CASE OpenIpa
  <2>1. CASE Reject
    BY <2>1, RejectRefines
  <2>2. CASE pc' = "opened" /\ disk' = disk /\ pc = "open"
    BY <2>2 DEF contents
  <2> QED BY <1>2, <2>1, <2>2 DEF OpenIpa
<1>3. CASE EditAdd
  BY <1>3, InsertLocalRefines DEF EditAdd
<1>4. CASE EditRm
  BY <1>4, RejectRefines DEF EditRm, contents
<1>5. CASE EditReplaceBin
  BY <1>5, InsertLocalRefines, RejectRefines DEF EditReplaceBin
<1>6. CASE EditPack
  BY <1>6 DEF EditPack, contents
<1>7. CASE CreateOut
  <2>1. CASE Reject
    BY <2>1, RejectRefines
  <2>2. CASE ~Reject
    <3>1. /\ pc = "edited" /\ pc' = "writing" /\ cmd' = cmd
          /\ disk' = [disk EXCEPT ![cmd.out] = Partial] /\ old' = disk[cmd.out]
      BY <1>7, <2>2 DEF CreateOut
    <3>2. \A f \in Ipas : (IF f = cmd.out THEN old' ELSE disk'[f]) = disk[f]
      BY <3>1 DEF TypeOK
    <3> QED BY <3>1, <3>2 DEF contents
  <2> QED BY <2>1, <2>2
<1>8. CASE WriteOut
  BY <1>8, WriteRefines
<1>9. CASE WriteFails
  BY <1>9, RejectRefines DEF WriteFails
<1>10. CASE Crash
  BY <1>10, RejectRefines DEF Crash
<1>11. CASE UNCHANGED vars
  BY <1>11 DEF vars, contents
<1> QED
  BY <1>1, <1>2, <1>3, <1>4, <1>5, <1>6, <1>7, <1>8, <1>9, <1>10, <1>11 DEF Next, Step

\* The commands are atomic edits of what the files hold, lost at worst when
\* they are interrupted while writing: IpaCli implements BundleStore.
THEOREM CommandsAreAtomicEdits == Spec => ImplementsStore
<1>1. Init => Store!StoreType
  <2> SUFFICES ASSUME Init PROVE Store!StoreType
    OBVIOUS
  <2>1. contents = [f \in Ipas |-> View(disk[f])] /\ disk \in [Ipas -> Bytes]
    BY DiskAssumption DEF Init, contents
  <2>2. \A f \in Ipas : \A files \in contents[f] : Store!IsVfs(files)
    BY <2>1, ViewType, StoreEdits
  <2> QED BY <2>1, <2>2 DEF Store!StoreType
<1>2. Init => IInv
  BY DEF Init, IInv, EditIsOfWhatWasRead
<1> QED
  BY <1>1, <1>2, IInvStep, StepRefines, TypeCorrect, PTL DEF Spec, ImplementsStore, Store!Spec

-----------------------------------------------------------------------------
(* Replacing a binary.                                                      *)

\* Adding a file to the .app that was found leaves it the first .app.
LEMMA InsertKeepsApp ==
    ASSUME NEW files, IsVfs(files), FindAppPrefix(files) # 0,
           NEW n, n.app = FindAppPrefix(files), NEW d
    PROVE  FindAppPrefix(InsertFile(files, n, d)) = FindAppPrefix(files)
<1>1. DOMAIN InsertFile(files, n, d) = DOMAIN files \cup {n}
  BY DEF InsertFile
<1>2. FindAppPrefix(files) \in AppsIn(files)
  <2>1. AppsIn(files) # {}
    BY DEF FindAppPrefix
  <2> QED BY <2>1, FindAppPrefixType DEF IsVfs
<1>3. AppsIn(InsertFile(files, n, d)) = AppsIn(files)
  BY <1>1, <1>2 DEF AppsIn
<1> QED BY <1>3 DEF FindAppPrefix

\* What replace-bin put where the resolved binary was is what is resolved then,
\* unless it is a framework's that bundle() never lists.
LEMMA ReplacedIsResolved ==
    ASSUME NEW files, IsVfs(files), NEW c \in Command, c.op = "replace-bin",
           FindAppPrefix(files) # 0, HasBundle(files, FindAppPrefix(files)),
           Target(c, files).file # InfoPlist
    PROVE  LET new == InsertFile(files, Target(c, files), c.file)
           IN  ResolveMacho(new, FindAppPrefix(new), c.fw)
                   = IF c.fw \in FlatFws \cup {NoFw} THEN {c.file} ELSE {}
<1> DEFINE a == FindAppPrefix(files)
           target == Target(c, files)
           new == InsertFile(files, target, c.file)
           plist == InApp(a, InfoPlist)
<1>1. target.app = a
  BY DEF Target, MainPath, InApp
<1>2. FindAppPrefix(new) = a
  BY <1>1, InsertKeepsApp
<1>3. target # plist
  BY DEF InApp
<1>4. DOMAIN new = DOMAIN files \cup {target} /\ new[target] = c.file
  BY DEF InsertFile
<1>5. \A n \in DOMAIN files : n # target => new[n] = files[n]
  BY DEF InsertFile
<1>6. HasMainPath(files, a) /\ MainPath(files, a) \in DOMAIN files
  BY DEF HasBundle
<1>7. plist \in DOMAIN new /\ new[plist] = files[plist]
  BY <1>3, <1>4, <1>5, <1>6 DEF HasMainPath
<1>8. HasMainPath(new, a) /\ MainPath(new, a) = MainPath(files, a)
  BY <1>6, <1>7 DEF HasMainPath, MainPath
<1>9. HasBundle(new, a)
  BY <1>4, <1>6, <1>8 DEF HasBundle
<1>10. c.fw \in Fws \cup {NoFw}
  BY CommandType
<1>11. CASE c.fw = NoFw
  <2>1. target = MainPath(files, a)
    BY <1>11 DEF Target
  <2>2. ResolveMacho(new, a, c.fw) = {new[MainPath(new, a)]}
    BY <1>9, <1>11 DEF ResolveMacho
  <2> QED BY <1>2, <1>4, <1>8, <1>11, <2>1, <2>2
<1>12. CASE c.fw \in FlatFws
  <2>1. c.fw # NoFw
    BY <1>12, FilesAssumption
  <2>2. target = InApp(a, FwBinary[c.fw])
    BY <2>1 DEF Target
  <2>3. c.fw \in BundleFrameworks(new, a)
    BY <1>4, <1>12, <2>2 DEF BundleFrameworks
  <2>4. ResolveMacho(new, a, c.fw) = {new[InApp(a, FwBinary[c.fw])]}
    BY <1>9, <2>1, <2>3 DEF ResolveMacho
  <2> QED BY <1>2, <1>4, <1>12, <2>2, <2>4
<1>13. CASE c.fw \notin FlatFws \cup {NoFw}
  <2>1. c.fw \notin BundleFrameworks(new, a)
    BY <1>13 DEF BundleFrameworks
  <2>2. ResolveMacho(new, a, c.fw) = {}
    BY <1>9, <1>13, <2>1 DEF ResolveMacho
  <2> QED BY <1>2, <1>13, <2>2
<1> QED BY <1>11, <1>12, <1>13

\* A framework's binary that is a directory name is in no archive that was read.
LEMMA DirectoryIsNotResolved ==
    ASSUME NEW files, \A n \in DOMAIN files : ~IsDir(n),
           NEW c, c.op = "replace-bin",
           HasBundle(files, FindAppPrefix(files)), IsDir(Target(c, files))
    PROVE  ResolveMacho(files, FindAppPrefix(files), c.fw) = {}
<1> DEFINE a == FindAppPrefix(files)
<1>1. MainPath(files, a) \in DOMAIN files
  BY DEF HasBundle
<1>2. c.fw # NoFw
  BY <1>1 DEF Target
<1>3. IsDir(InApp(a, FwBinary[c.fw]))
  BY <1>2 DEF Target
<1>4. c.fw \notin BundleFrameworks(files, a)
  BY <1>3 DEF BundleFrameworks
<1> QED BY <1>2, <1>4 DEF ResolveMacho

\* A step that leaves a whole archive where a command is writing has written it.
LEMMA WholeWasWritten ==
    ASSUME TypeOK, IInv, [Next]_vars, pc = "writing", disk'[cmd.out].kind = "zip"
    PROVE  disk' = [disk EXCEPT ![cmd.out] = Zip(ToBytes(vfs))]
<1>1. disk[cmd.out].kind # "zip"
  BY DEF IInv, Partial
<1>2. disk' # disk
  BY <1>1
<1>3. WriteOut
  BY <1>2 DEF Next, Step, vars, Start, OpenIpa, EditAdd, EditRm, EditReplaceBin, EditPack, CreateOut,
              WriteFails, Crash, Reject, InsertLocal
<1> QED BY <1>3 DEF WriteOut

\* What replace-bin wrote is the binary that every command which resolves one then
\* finds, whatever else is in the archive, if it is the main executable's or that
\* of a framework whose name is not empty and has no '/'; under any other name
\* that cmd_replace_bin takes, nothing is found.
THEOREM ReplacedAlwaysResolves == Spec => ReplaceBinResolves
<1>1. ASSUME TypeOK, IInv, [Next]_vars, ReplaceWritten
      PROVE  ResolvedAfter =
                 IF cmd.fw \in FlatFws \cup {NoFw} /\ ~IsDir(Target(cmd, seen))
                 THEN {cmd.file} ELSE {}
  <2>1. /\ pc = "writing" /\ disk'[cmd.out].kind = "zip" /\ cmd.op = "replace-bin"
        /\ HasBundle(seen, app) /\ Target(cmd, seen).file # InfoPlist
    BY <1>1 DEF ReplaceWritten
  <2>2. /\ cmd \in Command /\ cmd.out \in Ipas /\ IsVfs(vfs) /\ IsVfs(seen)
        /\ disk \in [Ipas -> Bytes]
    BY <1>1, CommandType DEF TypeOK
  <2>3. disk'[cmd.out].entries = ToBytes(vfs)
    BY <1>1, <2>1, <2>2, WholeWasWritten DEF Zip
  <2>4. /\ app = FindAppPrefix(seen) /\ FilesOnly(vfs) = Edited(cmd, seen)
        /\ \A n \in DOMAIN seen : ~IsDir(n)
    BY <1>1, <2>1 DEF IInv, EditIsOfWhatWasRead
  <2>5. FindAppPrefix(seen) # 0
    <3>1. \E b : seen \in View(b)
      BY <1>1, <2>1 DEF IInv
    <3> QED BY <3>1 DEF View, Opens
  <2>6. Decode(disk'[cmd.out].entries) = Edited(cmd, seen)
    BY <2>2, <2>3, <2>4, RoundTrip
  <2>7. CASE IsDir(Target(cmd, seen))
    <3>1. Decode(disk'[cmd.out].entries) = seen
      BY <2>1, <2>6, <2>7 DEF Edited
    <3>2. ResolveMacho(seen, FindAppPrefix(seen), cmd.fw) = {}
      BY <2>1, <2>4, <2>7, DirectoryIsNotResolved
    <3> QED BY <2>7, <3>1, <3>2 DEF ResolvedAfter
  <2>8. CASE ~IsDir(Target(cmd, seen))
    <3> DEFINE new == InsertFile(seen, Target(cmd, seen), cmd.file)
    <3>1. Decode(disk'[cmd.out].entries) = new
      BY <2>1, <2>6, <2>8 DEF Edited
    <3>2. ResolveMacho(new, FindAppPrefix(new), cmd.fw)
              = IF cmd.fw \in FlatFws \cup {NoFw} THEN {cmd.file} ELSE {}
      BY <2>1, <2>2, <2>4, <2>5, ReplacedIsResolved
    <3> HIDE DEF new
    <3> QED BY <2>8, <3>1, <3>2 DEF ResolvedAfter
  <2> QED BY <2>7, <2>8
<1>2. TypeOK /\ IInv /\ [Next]_vars =>
        [ReplaceWritten => ResolvedAfter =
             IF cmd.fw \in FlatFws \cup {NoFw} /\ ~IsDir(Target(cmd, seen))
             THEN {cmd.file} ELSE {}]_vars
  BY <1>1
<1>3. Init => IInv
  BY DEF Init, IInv, EditIsOfWhatWasRead
<1> QED
  BY <1>2, <1>3, IInvStep, TypeCorrect, PTL DEF Spec, ReplaceBinResolves
=============================================================================
