---------------------------- MODULE ZipFileProofs ----------------------------
(***************************************************************************)
(* What write_stored_zip writes, ZipArchive reads back, for every list of   *)
(* entries and every width of an offset: the layout of the file that is     *)
(* written, as an invariant of the writer, and what the reader has read of  *)
(* it, as one of the reader.                                                *)
(***************************************************************************)
EXTENDS ZipFile, TLAPS

\* The number of entries to be written.
N == Len(job.entries)

Entry(k) == job.entries[k]

Stages == {"locals", "directory", "open", "centrals", "contents", "ok", "error"}

\* An entry is whole in file f, its local header at o.
StoredAt(f, e, o) ==
    /\ o \in DOMAIN f.locals
    /\ f.locals[o] = [nameLen |-> e.nameLen, extra |-> 0]
    /\ o + LocalLen + e.nameLen \in DOMAIN f.body
    /\ f.body[o + LocalLen + e.nameLen] = [len |-> e.len, content |-> e.content]
    /\ o + LocalLen + e.nameLen + e.len <= f.len

\* The first n entries of a list are in the file, up to end, and where their offsets say
\* if these have not lost their upper bits.
AreStored(f, list, offs, n, end) ==
    \A k \in 1..n : \E o \in 0..end : StoredAt(f, list[k], o) /\ offs[k] = ToWidth(o)

\* What is in the file is inside of it, so that nothing that is added takes its place.
NothingBehind(f) ==
    /\ DOMAIN f = {"len", "locals", "centrals", "ends", "body"} /\ f.len \in Nat
    /\ \A o \in DOMAIN f.locals : o \in Nat /\ o < f.len
    /\ \A o \in DOMAIN f.body : o \in Nat /\ o <= f.len
    /\ \A o \in DOMAIN f.centrals : o \in Nat /\ o < f.len

LocalsInv ==
    /\ NothingBehind(out) /\ DOMAIN out.centrals = {} /\ DOMAIN out.ends = {}
    /\ zipAt \in 1..(N + 1)
    /\ offsets \in Seq(Nat) /\ Len(offsets) = zipAt - 1
    /\ AreStored(out, job.entries, offsets, zipAt - 1, out.len)

\* The first m central headers are in the file one after the other, at at[1], at[2] and
\* so on, and there are no others.
Directory(f, list, offs, at, m) ==
    /\ at \in [Nat -> Nat]
    /\ \A k \in 1..m :
         /\ at[k + 1] = at[k] + CentralLen + list[k].nameLen
         /\ at[k] \in DOMAIN f.centrals
         /\ f.centrals[at[k]] = Central(list[k], offs[k])
         /\ at[k + 1] <= at[m + 1]
    /\ \A o \in DOMAIN f.centrals : o \in Nat /\ at[1] <= o
    /\ at[1] <= at[m + 1]

DirectoryInv(at) ==
    /\ NothingBehind(out) /\ DOMAIN out.ends = {}
    /\ zipAt \in 1..(N + 1)
    /\ AreStored(out, job.entries, offsets, N, at[1])
    /\ Directory(out, job.entries, offsets, at, zipAt - 1)
    /\ out.len = at[zipAt] /\ zipOff = ToWidth(at[1])

\* The file is finished: behind the directory there is the only end.
Written(f, list, offs, at) ==
    /\ AreStored(f, list, offs, Len(list), at[1])
    /\ Directory(f, list, offs, at, Len(list))
    /\ f.len = at[Len(list) + 1] + EndLen
    /\ DOMAIN f.ends = {at[Len(list) + 1]}
    /\ f.ends[at[Len(list) + 1]] = [count |-> Len(list), start |-> ToWidth(at[1])]

\* The first n central headers were read.
AreRead(read, list, offs, n) ==
    /\ \E S : read \in Seq(S)
    /\ Len(read) = n
    /\ \A k \in 1..n : read[k] = Central(list[k], offs[k])

CentralsInv(at) ==
    /\ Written(out, job.entries, offsets, at)
    /\ zipAt \in 1..(N + 1)
    /\ AreRead(entries, job.entries, offsets, zipAt - 1)
    /\ at[1] < Width => zipOff = at[zipAt]
    /\ at[1] >= Width => zipAt = 1 /\ zipOff = ToWidth(at[1])

ContentsInv(at) ==
    /\ Written(out, job.entries, offsets, at)
    /\ AreRead(entries, job.entries, offsets, N)
    /\ N > 0 => at[1] < Width
    /\ zipAt \in 1..(N + 1)
    /\ zipFiles = FilesUpTo(job.entries, zipAt - 1)

Refused ==
    \/ N > MaxEntries
    \/ \E e \in Range(job.entries) : e.nameLen > MaxName \/ e.len >= Width
    \/ DirectoryTooFar

ZipInv ==
    /\ job \in Jobs /\ zipStage \in Stages
    /\ ~job.foreign =>
         /\ zipStage \in {"locals", "directory", "open"} => entries = <<>>
         /\ zipStage \in {"locals", "directory", "open", "centrals"} => zipFiles = <<>>
         /\ zipStage = "locals" => LocalsInv
         /\ zipStage = "directory" => \E at : DirectoryInv(at)
         /\ zipStage = "open" => \E at : Written(out, job.entries, offsets, at)
         /\ zipStage = "centrals" => \E at : CentralsInv(at)
         /\ zipStage = "contents" => \E at : ContentsInv(at)
         /\ zipStage = "ok" => zipFiles = FilesIn(job.entries)
         /\ zipStage = "error" => Refused

\* The entries of a job are numbered and have lengths.
LEMMA EntriesAreTyped ==
    ASSUME job \in Jobs
    PROVE  /\ N \in Nat /\ DOMAIN job.entries = 1..N
           /\ \A k \in 1..N : /\ Entry(k).nameLen \in Nat /\ Entry(k).len \in Nat
                              /\ Entry(k).dir \in BOOLEAN
BY JobsAssumption DEF N, Entry

\* Reduction to the width gives a natural number below it, and the number itself if it
\* fits.
LEMMA InWidth ==
    ASSUME NEW n \in Nat
    PROVE  ToWidth(n) \in Nat /\ ToWidth(n) < Width /\ (n < Width => ToWidth(n) = n)
BY WidthAssumption DEF ToWidth

\* What is stored in a file stays stored when something is added behind it.
LEMMA StoredStays ==
    ASSUME NEW f, NEW g, NEW e, NEW o, StoredAt(f, e, o),
           f.len \in Nat, g.len \in Nat, f.len <= g.len, o \in Nat, e.nameLen \in Nat, e.len \in Nat,
           \A x \in DOMAIN f.locals : x \in DOMAIN g.locals /\ g.locals[x] = f.locals[x],
           \A x \in DOMAIN f.body : x \in DOMAIN g.body /\ g.body[x] = f.body[x]
    PROVE  StoredAt(g, e, o)
BY DEF StoredAt, LocalLen

\* The files of no entries, and of all of them.
LEMMA FilesOfNone == \A list : FilesUpTo(list, 0) = <<>>
<1> SUFFICES ASSUME NEW list PROVE FilesUpTo(list, 0) = <<>>
    OBVIOUS
<1>1. 1..0 = {}
    OBVIOUS
<1>2. FilesUpTo(list, 0) = [name \in {} |-> list[Max({k \in {} : list[k].name = name})].content]
    BY <1>1 DEF FilesUpTo
<1> QED
    BY <1>2
\* At the start nothing is written, or nothing will be because there are too many.
LEMMA ZipInitInv == ZipInit => ZipInv
<1> SUFFICES ASSUME ZipInit PROVE ZipInv
    OBVIOUS
<1>1. /\ job \in Jobs /\ offsets = <<>> /\ entries = <<>> /\ zipAt = 1 /\ zipFiles = <<>>
      /\ N \in Nat
    BY EntriesAreTyped DEF ZipInit
<1>2. CASE job.foreign
    BY <1>1, <1>2 DEF ZipInit, ZipInv, Stages
<1>3. CASE ~job.foreign /\ N > MaxEntries
    <2>1. zipStage = "error"
        BY <1>3 DEF ZipInit, N
    <2> QED
        BY <1>1, <1>3, <2>1 DEF ZipInv, Stages, Refused
<1>4. CASE ~job.foreign /\ ~(N > MaxEntries)
    <2>1. zipStage = "locals" /\ out = NoBytes
        BY <1>4 DEF ZipInit, N
    <2>2. NothingBehind(out) /\ DOMAIN out.centrals = {} /\ DOMAIN out.ends = {}
        BY <2>1 DEF NothingBehind, NoBytes
    <2>3. zipAt \in 1..(N + 1) /\ offsets \in Seq(Nat) /\ Len(offsets) = zipAt - 1
        BY <1>1
    <2>4. AreStored(out, job.entries, offsets, zipAt - 1, out.len)
        <3>1. 1..(zipAt - 1) = {}
            BY <1>1
        <3> QED
            BY <3>1 DEF AreStored
    <2>5. LocalsInv
        BY <2>2, <2>3, <2>4 DEF LocalsInv
    <2> QED
        BY <1>1, <2>1, <2>5 DEF ZipInv, Stages
<1> QED
    BY <1>2, <1>3, <1>4

\* An entry is written behind those that were written before.
LEMMA WriteLocalKeeps == ZipInv /\ ~job.foreign /\ WriteLocal => LocalsInv'
<1> SUFFICES ASSUME ZipInv, ~job.foreign, WriteLocal PROVE LocalsInv'
    OBVIOUS
<1> DEFINE e == Entry(zipAt)
           start == out.len + LocalLen + e.nameLen
           head == [nameLen |-> e.nameLen, extra |-> 0]
           content == [len |-> e.len, content |-> e.content]
<1>1. /\ LocalsInv /\ job \in Jobs /\ job' = job /\ zipAt' = zipAt + 1 /\ zipAt <= N
      /\ offsets' = Append(offsets, ToWidth(out.len))
    BY DEF ZipInv, WriteLocal, N
<1>2. /\ N \in Nat /\ zipAt \in Nat /\ zipAt \in 1..N /\ e.nameLen \in Nat /\ e.len \in Nat
      /\ out.len \in Nat
    <2>1. zipAt \in 1..N
        BY <1>1, EntriesAreTyped DEF LocalsInv
    <2> QED
        BY <1>1, <2>1, EntriesAreTyped DEF LocalsInv, NothingBehind
<1>3. out' = [out EXCEPT !.len = start + e.len,
                         !.locals = With(out.locals, out.len, head),
                         !.body = With(out.body, start, content)]
    BY DEF WriteLocal, Source, Entry
<1>4. start \in Nat /\ out.len < start /\ start + e.len \in Nat /\ start <= start + e.len
    BY <1>2 DEF LocalLen
<1>5. /\ DOMAIN out' = DOMAIN out /\ out'.len = start + e.len
      /\ out'.locals = With(out.locals, out.len, head)
      /\ out'.body = With(out.body, start, content)
      /\ out'.centrals = out.centrals /\ out'.ends = out.ends
    BY <1>1, <1>3 DEF LocalsInv, NothingBehind
<1> HIDE DEF start, head, content, e
<1>6. /\ \A x \in DOMAIN out.locals : x \in DOMAIN out'.locals /\ out'.locals[x] = out.locals[x]
      /\ \A x \in DOMAIN out.body : x \in DOMAIN out'.body /\ out'.body[x] = out.body[x]
    BY <1>1, <1>2, <1>4, <1>5 DEF LocalsInv, NothingBehind, With
<1>7. NothingBehind(out')
    <2>1. DOMAIN out'.locals = DOMAIN out.locals \cup {out.len}
          /\ DOMAIN out'.body = DOMAIN out.body \cup {start}
        BY <1>5 DEF With
    <2>2. \A o \in DOMAIN out'.locals : o \in Nat /\ o < out'.len
        BY <1>1, <1>2, <1>4, <1>5, <2>1 DEF LocalsInv, NothingBehind
    <2>3. \A o \in DOMAIN out'.body : o \in Nat /\ o <= out'.len
        BY <1>1, <1>2, <1>4, <1>5, <2>1 DEF LocalsInv, NothingBehind
    <2>4. DOMAIN out'.centrals = {}
        BY <1>1, <1>5 DEF LocalsInv
    <2> QED
        BY <1>1, <1>4, <1>5, <2>2, <2>3, <2>4 DEF LocalsInv, NothingBehind
<1>8. /\ offsets' \in Seq(Nat) /\ Len(offsets') = zipAt /\ offsets'[zipAt] = ToWidth(out.len)
      /\ \A k \in 1..(zipAt - 1) : offsets'[k] = offsets[k]
    <2>1. ToWidth(out.len) \in Nat
        BY <1>2, InWidth
    <2>2. offsets \in Seq(Nat) /\ Len(offsets) = zipAt - 1
        BY <1>1 DEF LocalsInv
    <2> QED
        BY <1>1, <1>2, <2>1, <2>2
<1>9. StoredAt(out', e, out.len)
    <2>1. out'.locals[out.len] = head /\ out.len \in DOMAIN out'.locals
        BY <1>5 DEF With
    <2>2. out'.body[start] = content /\ start \in DOMAIN out'.body
        BY <1>5 DEF With
    <2>3. start = out.len + LocalLen + e.nameLen
        BY DEF start
    <2>4. start + e.len <= out'.len
        BY <1>4, <1>5
    <2> QED
        BY <2>1, <2>2, <2>3, <2>4 DEF StoredAt, head, content
<1>10. AreStored(out', job.entries, offsets', zipAt, out'.len)
    <2> SUFFICES ASSUME NEW k \in 1..zipAt
                 PROVE  \E o \in 0..out'.len :
                            StoredAt(out', Entry(k), o) /\ offsets'[k] = ToWidth(o)
        BY DEF AreStored, Entry
    <2>1. out'.len \in Nat /\ out.len <= out'.len
        BY <1>2, <1>4, <1>5
    <2>2. CASE k = zipAt
        <3>1. out.len \in 0..out'.len
            BY <1>2, <2>1
        <3> QED
            BY <1>8, <1>9, <2>2, <3>1 DEF e
    <2>3. CASE k # zipAt
        <3>1. k \in 1..(zipAt - 1) /\ k \in 1..N
            BY <1>2, <2>3
        <3>2. PICK o \in 0..out.len : StoredAt(out, Entry(k), o) /\ offsets[k] = ToWidth(o)
            BY <1>1, <3>1 DEF LocalsInv, AreStored, Entry
        <3>3. Entry(k).nameLen \in Nat /\ Entry(k).len \in Nat
            BY <1>1, <3>1, EntriesAreTyped
        <3>4. o \in Nat /\ o \in 0..out'.len
            BY <1>2, <2>1, <3>2
        <3>5. StoredAt(out', Entry(k), o)
            BY <1>2, <1>6, <2>1, <3>2, <3>3, <3>4, StoredStays
        <3> QED
            BY <1>8, <3>1, <3>2, <3>4, <3>5
    <2> QED
        BY <2>2, <2>3
<1>11. zipAt' - 1 = zipAt /\ zipAt' \in 1..(N' + 1) /\ job'.entries = job.entries
    BY <1>1, <1>2 DEF N
<1> QED
    BY <1>1, <1>2, <1>5, <1>7, <1>8, <1>10, <1>11 DEF LocalsInv

\* The directory begins behind the last entry.
LEMMA LocalsEndKeeps == ZipInv /\ ~job.foreign /\ LocalsEnd => \E at : DirectoryInv(at)'
<1> SUFFICES ASSUME ZipInv, ~job.foreign, LocalsEnd PROVE \E at : DirectoryInv(at)'
    OBVIOUS
<1> DEFINE at == [n \in Nat |-> out.len]
<1>1. /\ LocalsInv /\ UNCHANGED <<job, out, offsets>> /\ zipAt' = 1 /\ zipAt > N /\ N \in Nat
      /\ zipOff' = ToWidth(out.len) /\ job \in Jobs
    BY EntriesAreTyped DEF ZipInv, LocalsEnd, ZipGoTo, N
<1>2. out.len \in Nat /\ at[1] = out.len /\ at \in [Nat -> Nat]
    BY <1>1 DEF LocalsInv, NothingBehind
<1> HIDE DEF at
<1>3. zipAt - 1 = N /\ N' = N /\ zipAt' \in 1..(N' + 1)
    BY <1>1 DEF LocalsInv, N
<1>4. AreStored(out, job.entries, offsets, N, at[1])
    BY <1>1, <1>2, <1>3 DEF LocalsInv
<1>5. Directory(out, job.entries, offsets, at, 0)
    <2>1. 1..0 = {} /\ 0 + 1 = 1
        OBVIOUS
    <2>2. \A o \in DOMAIN out.centrals : o \in Nat /\ at[1] <= o
        BY <1>1 DEF LocalsInv
    <2>3. at[1] <= at[0 + 1]
        BY <1>2, <2>1
    <2> QED
        BY <1>2, <2>1, <2>2, <2>3 DEF Directory
<1>6. zipAt' - 1 = 0
    BY <1>1
<1>7. NothingBehind(out) /\ DOMAIN out.ends = {}
    BY <1>1 DEF LocalsInv
<1>8. out.len = at[zipAt'] /\ zipOff' = ToWidth(at[1])
    BY <1>1, <1>2
<1>9. PICK places : places = at
    OBVIOUS
<1>10. DirectoryInv(places)'
    BY <1>1, <1>3, <1>4, <1>5, <1>6, <1>7, <1>8, <1>9 DEF DirectoryInv
<1> QED
    BY <1>10

\* A central header is written behind those that were written before.
LEMMA WriteCentralKeeps ==
    ASSUME ZipInv, ~job.foreign, WriteCentral
    PROVE  \E at : DirectoryInv(at)'
<1>1. PICK at : DirectoryInv(at)
    BY DEF ZipInv, WriteCentral
<1> DEFINE e == Entry(zipAt)
           end == out.len + CentralLen + e.nameLen
           head == Central(e, offsets[zipAt])
           m == zipAt - 1
<1>2. /\ job \in Jobs /\ UNCHANGED <<job, offsets, zipOff>> /\ zipAt' = zipAt + 1 /\ zipAt <= N
    BY DEF ZipInv, WriteCentral, N
<1>3. /\ N \in Nat /\ zipAt \in Nat /\ zipAt \in 1..N /\ e.nameLen \in Nat
      /\ out.len \in Nat /\ m \in Nat /\ zipAt = m + 1
    <2>1. zipAt \in 1..N
        BY <1>1, <1>2, EntriesAreTyped DEF DirectoryInv
    <2> QED
        BY <1>1, <1>2, <2>1, EntriesAreTyped DEF DirectoryInv, NothingBehind
<1>4. out' = [out EXCEPT !.len = end, !.centrals = With(out.centrals, out.len, head)]
    BY DEF WriteCentral, Source, Entry
<1>5. /\ DOMAIN out' = DOMAIN out /\ out'.len = end
      /\ out'.centrals = With(out.centrals, out.len, head)
      /\ out'.locals = out.locals /\ out'.body = out.body /\ out'.ends = out.ends
    BY <1>1, <1>4 DEF DirectoryInv, NothingBehind
<1>6. end \in Nat /\ out.len < end /\ end = out.len + CentralLen + e.nameLen
    BY <1>3 DEF CentralLen
<1> HIDE DEF end, head, e, m
<1>7. PICK new : new = [at EXCEPT ![m + 2] = end]
    OBVIOUS
<1>8. /\ at \in [Nat -> Nat] /\ new \in [Nat -> Nat] /\ new[m + 2] = end
      /\ \A k \in 1..(m + 1) : new[k] = at[k]
    BY <1>1, <1>3, <1>6, <1>7 DEF DirectoryInv, Directory
<1>9. /\ at[m + 1] = out.len /\ at[1] <= out.len /\ new[1] = at[1] /\ new[m + 1] = out.len
      /\ at[1] \in Nat
    BY <1>1, <1>3, <1>8 DEF DirectoryInv, Directory, m
<1>10. DOMAIN out'.centrals = DOMAIN out.centrals \cup {out.len}
       /\ out'.centrals[out.len] = head
       /\ \A o \in DOMAIN out.centrals : o # out.len => out'.centrals[o] = out.centrals[o]
    BY <1>5 DEF With
<1>11. NothingBehind(out')
    <2>1. \A o \in DOMAIN out'.centrals : o \in Nat /\ o < out'.len
        BY <1>1, <1>3, <1>5, <1>6, <1>10 DEF DirectoryInv, NothingBehind
    <2>2. (\A o \in DOMAIN out'.locals : o \in Nat /\ o < out'.len)
          /\ (\A o \in DOMAIN out'.body : o \in Nat /\ o <= out'.len)
        BY <1>1, <1>3, <1>5, <1>6 DEF DirectoryInv, NothingBehind
    <2> QED
        BY <1>1, <1>5, <1>6, <2>1, <2>2 DEF DirectoryInv, NothingBehind
<1>12. Directory(out', job.entries, offsets, new, m + 1)
    <2>1. new \in [Nat -> Nat] /\ \A o \in DOMAIN out'.centrals : o \in Nat /\ new[1] <= o
        BY <1>1, <1>3, <1>8, <1>9, <1>10 DEF DirectoryInv, Directory
    <2>2. ASSUME NEW k \in 1..(m + 1)
          PROVE  /\ new[k + 1] = new[k] + CentralLen + Entry(k).nameLen
                 /\ new[k] \in DOMAIN out'.centrals
                 /\ out'.centrals[new[k]] = Central(Entry(k), offsets[k])
                 /\ new[k + 1] <= new[m + 2]
        <3>1. CASE k = m + 1
            <4>1. new[k + 1] = end /\ new[k] = out.len /\ k = zipAt /\ k + 1 = m + 2
                BY <1>3, <1>8, <1>9, <3>1
            <4> QED
                BY <1>6, <1>10, <4>1 DEF e, head
        <3>2. CASE k # m + 1
            <4>1. k \in 1..m /\ k + 1 \in 1..(m + 1) /\ k \in 1..(m + 1)
                BY <1>3, <3>2
            <4>2. /\ at[k + 1] = at[k] + CentralLen + Entry(k).nameLen
                  /\ at[k] \in DOMAIN out.centrals
                  /\ out.centrals[at[k]] = Central(Entry(k), offsets[k])
                  /\ at[k + 1] <= at[m + 1]
                BY <1>1, <4>1 DEF DirectoryInv, Directory, Entry, m
            <4>3. at[k] < out.len
                BY <1>1, <4>2 DEF DirectoryInv, NothingBehind
            <4>4. out'.centrals[at[k]] = out.centrals[at[k]] /\ at[k] \in DOMAIN out'.centrals
                BY <1>3, <1>8, <1>10, <4>1, <4>2, <4>3
            <4>5. at[k + 1] <= new[m + 2]
                BY <1>3, <1>6, <1>8, <1>9, <4>1, <4>2
            <4> QED
                BY <1>8, <4>1, <4>2, <4>4, <4>5
        <3> QED
            BY <3>1, <3>2
    <2>3. new[1] <= new[m + 2]
        BY <1>3, <1>6, <1>8, <1>9
    <2>4. (m + 1) + 1 = m + 2
        BY <1>3
    <2> QED
        BY <2>1, <2>2, <2>3, <2>4 DEF Directory, Entry
<1>13. AreStored(out', job.entries, offsets, N, new[1])
    <2> SUFFICES ASSUME NEW k \in 1..N
                 PROVE  \E o \in 0..new[1] : StoredAt(out', Entry(k), o) /\ offsets[k] = ToWidth(o)
        BY DEF AreStored, Entry
    <2>1. PICK o \in 0..at[1] : StoredAt(out, Entry(k), o) /\ offsets[k] = ToWidth(o)
        BY <1>1 DEF DirectoryInv, AreStored, Entry
    <2>2. Entry(k).nameLen \in Nat /\ Entry(k).len \in Nat /\ o \in Nat
        BY <1>2, <1>9, EntriesAreTyped
    <2>3. out'.len \in Nat /\ out.len <= out'.len
        BY <1>3, <1>5, <1>6
    <2>4. StoredAt(out', Entry(k), o)
        BY <1>3, <1>5, <2>1, <2>2, <2>3, StoredStays
    <2> QED
        BY <1>9, <2>1, <2>4
<1>14. /\ zipAt' = m + 2 /\ zipAt' - 1 = m + 1 /\ zipAt' \in 1..(N' + 1) /\ N' = N
       /\ out'.len = new[zipAt'] /\ zipOff' = ToWidth(new[1]) /\ DOMAIN out'.ends = {}
    <2>1. N' = N
        BY <1>2 DEF N
    <2>2. zipAt' = m + 2 /\ zipAt' - 1 = m + 1 /\ zipAt' \in 1..(N + 1)
        BY <1>2, <1>3
    <2>3. out'.len = new[zipAt'] /\ zipOff' = ToWidth(new[1]) /\ DOMAIN out'.ends = {}
        BY <1>1, <1>2, <1>5, <1>8, <1>9, <2>2 DEF DirectoryInv
    <2> QED
        BY <2>1, <2>2, <2>3
<1>15. DirectoryInv(new)'
    BY <1>2, <1>11, <1>12, <1>13, <1>14 DEF DirectoryInv
<1> QED
    BY <1>15

\* The end is written behind the directory.
LEMMA WriteEndKeeps ==
    ASSUME ZipInv, ~job.foreign, WriteEnd
    PROVE  \E at : Written(out, job.entries, offsets, at)'
<1>1. PICK at : DirectoryInv(at)
    BY DEF ZipInv, WriteEnd
<1> DEFINE end == [count |-> N, start |-> zipOff]
<1>2. /\ job \in Jobs /\ UNCHANGED <<job, offsets>> /\ zipAt > N /\ N \in Nat
    BY EntriesAreTyped DEF ZipInv, WriteEnd, N
<1>3. zipAt = N + 1 /\ out.len \in Nat
    BY <1>1, <1>2 DEF DirectoryInv, NothingBehind
<1>4. out' = [out EXCEPT !.len = out.len + EndLen, !.ends = With(out.ends, out.len, end)]
    BY DEF WriteEnd, N
<1> HIDE DEF end
<1>5. /\ out'.len = out.len + EndLen /\ out'.ends = With(out.ends, out.len, end)
      /\ out'.locals = out.locals /\ out'.body = out.body /\ out'.centrals = out.centrals
    BY <1>1, <1>4 DEF DirectoryInv, NothingBehind
<1>6. /\ out.len = at[N + 1] /\ zipOff = ToWidth(at[1]) /\ zipAt - 1 = N /\ at[1] \in Nat
    BY <1>1, <1>2, <1>3 DEF DirectoryInv, Directory
<1>7. DOMAIN out'.ends = {at[N + 1]} /\ out'.ends[at[N + 1]] = end
    BY <1>1, <1>5, <1>6 DEF DirectoryInv, With
<1>8. Directory(out', job.entries, offsets, at, N)
    BY <1>1, <1>5, <1>6 DEF DirectoryInv, Directory
<1>9. AreStored(out', job.entries, offsets, N, at[1])
    <2> SUFFICES ASSUME NEW k \in 1..N
                 PROVE  \E o \in 0..at[1] : StoredAt(out', Entry(k), o) /\ offsets[k] = ToWidth(o)
        BY DEF AreStored, Entry
    <2>1. PICK o \in 0..at[1] : StoredAt(out, Entry(k), o) /\ offsets[k] = ToWidth(o)
        BY <1>1 DEF DirectoryInv, AreStored, Entry
    <2>2. Entry(k).nameLen \in Nat /\ Entry(k).len \in Nat /\ o \in Nat
        BY <1>2, <1>6, EntriesAreTyped
    <2>3. out'.len \in Nat /\ out.len <= out'.len
        BY <1>3, <1>5 DEF EndLen
    <2>4. StoredAt(out', Entry(k), o)
        BY <1>3, <1>5, <2>1, <2>2, <2>3, StoredStays
    <2> QED
        BY <2>1, <2>4
<1> QED
    BY <1>2, <1>5, <1>6, <1>7, <1>8, <1>9 DEF Written, N, end

-----------------------------------------------------------------------------
(* The reader.                                                               *)

\* The end that is found is the one that was written.
LEMMA EndIsFound ==
    ASSUME job \in Jobs, NEW at, Written(out, job.entries, offsets, at)
    PROVE  Ends # {} /\ TheEnd = [count |-> N, start |-> ToWidth(at[1])]
<1> DEFINE end == at[N + 1]
<1>1. end \in Nat /\ out.len = end + EndLen /\ DOMAIN out.ends = {end} /\ MaxComment \in Nat
    BY EntriesAreTyped, WidthAssumption DEF Written, Directory, N
<1>2. out.ends[end] = [count |-> N, start |-> ToWidth(at[1])]
    BY DEF Written, N
<1> HIDE DEF end
<1>3. end \in (out.len - EndLen - MaxComment)..(out.len - EndLen)
    BY <1>1 DEF EndLen
<1>4. Ends = {end}
    BY <1>1, <1>3 DEF Ends
<1>5. Max({end}) = end
    BY <1>1 DEF Max
<1> QED
    BY <1>2, <1>4, <1>5 DEF TheEnd

\* A central header is found where the directory has it if the end could say where that
\* begins, and otherwise none is found.
LEMMA CentralIsFound ==
    ASSUME job \in Jobs, NEW at, CentralsInv(at), zipAt <= N
    PROVE  /\ CentralIsThere <=> at[1] < Width
           /\ at[1] < Width => /\ zipOff = at[zipAt]
                               /\ out.centrals[zipOff] = Central(Entry(zipAt), offsets[zipAt])
                               /\ at[zipAt + 1] = zipOff + CentralLen + Entry(zipAt).nameLen
           /\ N > 0 /\ at[1] \in Nat /\ at[1] \in DOMAIN out.centrals
           /\ \A o \in DOMAIN out.centrals : at[1] <= o
<1>1. /\ N \in Nat /\ zipAt \in 1..N /\ 1 \in 1..N /\ zipAt \in Nat
      /\ Entry(zipAt).nameLen \in Nat
    <2>1. N \in Nat /\ zipAt \in 1..N
        BY EntriesAreTyped DEF CentralsInv
    <2> QED
        BY <2>1, EntriesAreTyped
<1>2. Directory(out, job.entries, offsets, at, N) /\ out.len = at[N + 1] + EndLen
    BY DEF CentralsInv, Written, N
<1>3. /\ at \in [Nat -> Nat] /\ at[1] \in DOMAIN out.centrals
      /\ \A o \in DOMAIN out.centrals : o \in Nat /\ at[1] <= o
      /\ at[zipAt + 1] = at[zipAt] + CentralLen + Entry(zipAt).nameLen
      /\ at[zipAt] \in DOMAIN out.centrals
      /\ out.centrals[at[zipAt]] = Central(Entry(zipAt), offsets[zipAt])
      /\ at[zipAt + 1] <= at[N + 1]
    BY <1>1, <1>2 DEF Directory, Entry
<1>4. at[1] \in Nat /\ at[zipAt] \in Nat /\ at[zipAt + 1] \in Nat /\ at[N + 1] \in Nat
    BY <1>1, <1>3
<1>5. CASE at[1] < Width
    <2>1. zipOff = at[zipAt]
        BY <1>5 DEF CentralsInv
    <2>2. out.centrals[zipOff].nameLen = Entry(zipAt).nameLen
        BY <1>3, <2>1 DEF Central
    <2>3. zipOff + CentralLen + out.centrals[zipOff].nameLen <= out.len
        BY <1>1, <1>2, <1>3, <1>4, <2>1, <2>2 DEF EndLen
    <2> QED
        BY <1>1, <1>3, <1>4, <1>5, <2>1, <2>3 DEF CentralIsThere
<1>6. CASE ~(at[1] < Width)
    <2>1. zipOff = ToWidth(at[1])
        BY <1>4, <1>6, WidthAssumption DEF CentralsInv
    <2>2. zipOff \in Nat /\ zipOff < Width
        BY <1>4, <2>1, InWidth
    <2>3. zipOff \notin DOMAIN out.centrals
        BY <1>3, <1>4, <1>6, <2>2, WidthAssumption
    <2> QED
        BY <1>1, <1>3, <1>4, <1>6, <2>3 DEF CentralIsThere
<1> QED
    BY <1>5, <1>6

\* What an entry says of its content leads to it, when offsets are whole.
LEMMA ContentIsFound ==
    ASSUME job \in Jobs, NEW at, Written(out, job.entries, offsets, at), at[1] < Width,
           NEW k \in 1..N, NEW e, e = Central(Entry(k), offsets[k])
    PROVE  /\ ContentIsThere(e) /\ ~MayNotInflate(e) /\ ContentOf(e) = Entry(k).content
           /\ e.name = Entry(k).name /\ e.dir = Entry(k).dir
<1>1. at[1] \in Nat
    BY DEF Written, Directory
<1>2. PICK o \in 0..at[1] : StoredAt(out, Entry(k), o) /\ offsets[k] = ToWidth(o)
    BY DEF Written, AreStored, Entry, N
<1>3. o \in Nat /\ o < Width /\ offsets[k] = o
    BY <1>1, <1>2, InWidth, WidthAssumption
<1>4. Entry(k).nameLen \in Nat /\ Entry(k).len \in Nat
    BY EntriesAreTyped
<1>5. /\ e.offset = o /\ e.size = Entry(k).len /\ e.method = "stored"
      /\ e.name = Entry(k).name /\ e.dir = Entry(k).dir
    BY <1>3 DEF Central
<1>6. ContentStart(e) = o + LocalLen + Entry(k).nameLen
    <2>1. ContentStart(e) = o + LocalLen + Entry(k).nameLen + 0
        BY <1>2, <1>5 DEF ContentStart, StoredAt
    <2> QED
        BY <1>3, <1>4, <2>1 DEF LocalLen
<1>7. ContentIsThere(e)
    BY <1>2, <1>5, <1>6 DEF ContentIsThere, StoredAt
<1>8. ContentOf(e) = Entry(k).content
    BY <1>2, <1>5, <1>6 DEF ContentOf, StoredAt
<1> QED
    BY <1>5, <1>7, <1>8 DEF MayNotInflate

\* The greatest of some numbers and one that is greater than they are.
LEMMA GreatestIsLast ==
    ASSUME NEW n \in Nat, NEW S \in SUBSET (1..n)
    PROVE  Max(S \cup {n + 1}) = n + 1
<1>1. \A y \in S \cup {n + 1} : y \in Nat /\ n + 1 >= y
    OBVIOUS
<1>2. \A x \in S \cup {n + 1} : (\A y \in S \cup {n + 1} : x >= y) => x = n + 1
    BY <1>1
<1> HIDE <1>1
<1> QED
    BY <1>1, <1>2 DEF Max

\* One entry more: a directory adds no file, and a file takes the place of the one of
\* its name.
LEMMA OneFileMore ==
    ASSUME NEW list, NEW n \in Nat
    PROVE  FilesUpTo(list, n + 1)
             = IF list[n + 1].dir THEN FilesUpTo(list, n)
               ELSE With(FilesUpTo(list, n), list[n + 1].name, list[n + 1].content)
<1> DEFINE e == list[n + 1]
           files(i) == {k \in 1..i : ~list[k].dir}
           of(i, name) == {k \in files(i) : list[k].name = name}
           names(i) == {list[k].name : k \in files(i)}
<1>1. \A i : FilesUpTo(list, i) = [name \in names(i) |-> list[Max(of(i, name))].content]
    BY DEF FilesUpTo
<1>2. 1..(n + 1) = 1..n \cup {n + 1}
    OBVIOUS
<1>3. CASE e.dir
    <2>1. files(n + 1) = files(n)
        BY <1>2, <1>3
    <2>2. FilesUpTo(list, n + 1) = FilesUpTo(list, n)
        BY <2>1 DEF FilesUpTo
    <2> QED
        BY <1>3, <2>2
<1>4. CASE ~e.dir
    <2>1. files(n + 1) = files(n) \cup {n + 1}
        BY <1>2, <1>4
    <2>2. names(n + 1) = names(n) \cup {e.name}
        BY <2>1
    <2>3. \A name \in names(n + 1) : name # e.name => of(n + 1, name) = of(n, name)
        BY <2>1
    <2>4. Max(of(n + 1, e.name)) = n + 1
        <3>1. of(n + 1, e.name) = of(n, e.name) \cup {n + 1}
            BY <2>1
        <3>2. of(n, e.name) \in SUBSET (1..n)
            OBVIOUS
        <3> HIDE DEF of
        <3> QED
            BY <3>1, <3>2, GreatestIsLast
    <2> HIDE DEF files, of, names
    <2>5. FilesUpTo(list, n + 1)
            = [name \in names(n) \cup {e.name} |->
                  IF name = e.name THEN e.content ELSE list[Max(of(n, name))].content]
        <3>1. FilesUpTo(list, n + 1) = [name \in names(n + 1) |-> list[Max(of(n + 1, name))].content]
            BY <1>1
        <3>2. \A name \in names(n + 1) :
                 list[Max(of(n + 1, name))].content
                   = IF name = e.name THEN e.content ELSE list[Max(of(n, name))].content
            BY <2>3, <2>4
        <3> QED
            BY <2>2, <3>1, <3>2
    <2>6. DOMAIN FilesUpTo(list, n) = names(n)
          /\ \A name \in names(n) : FilesUpTo(list, n)[name] = list[Max(of(n, name))].content
        BY <1>1
    <2>7. With(FilesUpTo(list, n), e.name, e.content)
            = [name \in names(n) \cup {e.name} |->
                  IF name = e.name THEN e.content ELSE list[Max(of(n, name))].content]
        BY <2>6 DEF With
    <2> QED
        BY <1>4, <2>5, <2>7
<1> QED
    BY <1>3, <1>4

\* The list of what was read grows by one.
LEMMA ReadOneMore ==
    ASSUME NEW read, NEW list, NEW offs, NEW n \in Nat, AreRead(read, list, offs, n),
           NEW e, e = Central(list[n + 1], offs[n + 1])
    PROVE  AreRead(Append(read, e), list, offs, n + 1)
<1>1. PICK S : read \in Seq(S)
    BY DEF AreRead
<1>2. read \in Seq(S \cup {e}) /\ e \in S \cup {e}
    BY <1>1
<1>3. /\ Append(read, e) \in Seq(S \cup {e}) /\ Len(Append(read, e)) = n + 1
      /\ Append(read, e)[n + 1] = e
      /\ \A k \in 1..n : Append(read, e)[k] = read[k]
    BY <1>2 DEF AreRead
<1> QED
    BY <1>3 DEF AreRead

\* The end of the directory is found, and nothing has been read.
LEMMA OpenZipKeeps == ZipInv /\ ~job.foreign /\ OpenZip => \E at : CentralsInv(at)'
<1> SUFFICES ASSUME ZipInv, ~job.foreign, OpenZip PROVE \E at : CentralsInv(at)'
    OBVIOUS
<1>1. PICK at : Written(out, job.entries, offsets, at)
    BY DEF ZipInv, OpenZip
<1>2. /\ job \in Jobs /\ UNCHANGED <<job, out, offsets, entries>> /\ entries = <<>>
      /\ zipAt' = 1 /\ zipOff' = TheEnd.start /\ N \in Nat
    BY EntriesAreTyped DEF ZipInv, OpenZip, ZipGoTo
<1>3. zipOff' = ToWidth(at[1]) /\ at[1] \in Nat
    <2>1. TheEnd = [count |-> N, start |-> ToWidth(at[1])]
        BY <1>1, <1>2, EndIsFound
    <2>2. TheEnd.start = ToWidth(at[1])
        BY <2>1
    <2>3. 1 \in 1..(N + 1)
        BY <1>2
    <2>4. at[1] \in Nat
        BY <1>1, <2>3 DEF Written, Directory, N
    <2> QED
        BY <1>2, <2>2, <2>4
<1>4. at[1] < Width => zipOff' = at[1]
    BY <1>3, InWidth
<1>5. AreRead(<<>>, job.entries, offsets, 0)
    <2>1. <<>> \in Seq({}) /\ Len(<<>>) = 0 /\ 1..0 = {}
        OBVIOUS
    <2> QED
        BY <2>1 DEF AreRead
<1>6. N' = N /\ zipAt' \in 1..(N' + 1) /\ zipAt' - 1 = 0
    BY <1>2 DEF N
<1>7. CentralsInv(at)'
    BY <1>1, <1>2, <1>3, <1>4, <1>5, <1>6 DEF CentralsInv
<1> QED
    BY <1>7

\* A central header is read.
LEMMA ReadCentralKeeps == ZipInv /\ ~job.foreign /\ ReadCentral => \E at : CentralsInv(at)'
<1> SUFFICES ASSUME ZipInv, ~job.foreign, ReadCentral PROVE \E at : CentralsInv(at)'
    OBVIOUS
<1>1. PICK at : CentralsInv(at)
    BY DEF ZipInv, ReadCentral
<1>2. /\ job \in Jobs /\ UNCHANGED <<job, out, offsets>> /\ zipAt <= TheEnd.count
      /\ CentralIsThere /\ entries' = Append(entries, out.centrals[zipOff])
      /\ zipOff' = zipOff + CentralLen + out.centrals[zipOff].nameLen + out.centrals[zipOff].tail
      /\ zipAt' = zipAt + 1 /\ N \in Nat
    BY EntriesAreTyped DEF ZipInv, ReadCentral
<1>3. zipAt <= N
    BY <1>1, <1>2, EndIsFound DEF CentralsInv
<1>4. /\ at[1] < Width /\ at[1] \in Nat /\ zipOff = at[zipAt]
      /\ out.centrals[zipOff] = Central(Entry(zipAt), offsets[zipAt])
      /\ at[zipAt + 1] = zipOff + CentralLen + Entry(zipAt).nameLen
    BY <1>1, <1>2, <1>3, CentralIsFound
<1>5. zipAt \in 1..N /\ zipAt - 1 \in Nat /\ (zipAt - 1) + 1 = zipAt /\ zipAt + 1 \in Nat
    BY <1>1, <1>2, <1>3 DEF CentralsInv
<1>6. zipOff' = at[zipAt + 1]
    <2>1. out.centrals[zipOff].nameLen = Entry(zipAt).nameLen /\ out.centrals[zipOff].tail = 0
        BY <1>4 DEF Central
    <2>2. at[zipAt + 1] \in Nat
        BY <1>1, <1>5 DEF CentralsInv, Written, Directory
    <2> QED
        BY <1>2, <1>4, <2>1, <2>2
<1>7. AreRead(entries', job.entries, offsets, zipAt)
    <2> DEFINE e == out.centrals[zipOff]
               n == zipAt - 1
    <2>1. n \in Nat /\ n + 1 = zipAt /\ AreRead(entries, job.entries, offsets, n)
        BY <1>1, <1>5 DEF CentralsInv
    <2>2. e = Central(job.entries[n + 1], offsets[n + 1])
        BY <1>4, <2>1 DEF Entry
    <2> HIDE DEF n, e
    <2>3. AreRead(Append(entries, e), job.entries, offsets, n + 1)
        BY <2>1, <2>2, ReadOneMore
    <2> QED
        BY <1>2, <2>1, <2>3 DEF e
<1>8. N' = N /\ zipAt' \in 1..(N' + 1) /\ zipAt' - 1 = zipAt
    BY <1>2, <1>5 DEF N
<1>9. at[1] < Width => zipOff' = at[zipAt']
    BY <1>2, <1>6
<1>10. ~(at[1] >= Width)
    BY <1>4, WidthAssumption
<1>11. Written(out, job.entries, offsets, at)
    BY <1>1 DEF CentralsInv
<1>12. CentralsInv(at)'
    BY <1>2, <1>7, <1>8, <1>9, <1>10, <1>11 DEF CentralsInv
<1> QED
    BY <1>12

\* All central headers were read, and no content.
LEMMA CentralsEndKeeps == ZipInv /\ ~job.foreign /\ CentralsEnd => \E at : ContentsInv(at)'
<1> SUFFICES ASSUME ZipInv, ~job.foreign, CentralsEnd PROVE \E at : ContentsInv(at)'
    OBVIOUS
<1>1. PICK at : CentralsInv(at)
    BY DEF ZipInv, CentralsEnd
<1>2. /\ job \in Jobs /\ UNCHANGED <<job, out, offsets, entries, zipFiles>> /\ zipFiles = <<>>
      /\ zipAt > TheEnd.count /\ zipAt' = 1 /\ N \in Nat
    BY EntriesAreTyped DEF ZipInv, CentralsEnd, ZipGoTo
<1>3. zipAt > N
    BY <1>1, <1>2, EndIsFound DEF CentralsInv
<1>4. zipAt = N + 1 /\ zipAt - 1 = N
    BY <1>1, <1>2, <1>3 DEF CentralsInv
<1>5. N > 0 => at[1] < Width
    <2>1. at[1] \in Nat
        BY <1>1 DEF CentralsInv, Written, Directory
    <2> QED
        BY <1>1, <1>2, <1>4, <2>1, WidthAssumption DEF CentralsInv
<1>6. zipFiles' = FilesUpTo(job.entries, 0)
    BY <1>2, FilesOfNone
<1>7. N' = N /\ zipAt' \in 1..(N' + 1) /\ zipAt' - 1 = 0
    BY <1>2 DEF N
<1>8. Written(out, job.entries, offsets, at) /\ AreRead(entries, job.entries, offsets, N)
    BY <1>1, <1>4 DEF CentralsInv
<1>9. ContentsInv(at)'
    BY <1>2, <1>5, <1>6, <1>7, <1>8 DEF ContentsInv
<1> QED
    BY <1>9

\* While the contents are read, each is there, and is that of its entry.
LEMMA NextContent ==
    ASSUME ZipInv, ~job.foreign, NEW at, ContentsInv(at), zipAt <= Len(entries)
    PROVE  /\ zipAt \in 1..N /\ ContentIsThere(EntryNow) /\ ~MayNotInflate(EntryNow)
           /\ ContentOf(EntryNow) = Entry(zipAt).content
           /\ EntryNow.name = Entry(zipAt).name /\ EntryNow.dir = Entry(zipAt).dir
<1>1. /\ job \in Jobs /\ N \in Nat /\ Len(entries) = N
    BY EntriesAreTyped DEF ZipInv, ContentsInv, AreRead
<1>2. zipAt \in 1..N /\ N > 0
    BY <1>1 DEF ContentsInv
<1>3. EntryNow = Central(Entry(zipAt), offsets[zipAt])
    BY <1>2 DEF EntryNow, ContentsInv, AreRead, Entry
<1>4. at[1] < Width /\ Written(out, job.entries, offsets, at)
    BY <1>2 DEF ContentsInv
<1> QED
    BY <1>1, <1>2, <1>3, <1>4, ContentIsFound

\* A content is read.
LEMMA ReadEntryKeeps == ZipInv /\ ~job.foreign /\ ReadEntry => \E at : ContentsInv(at)'
<1> SUFFICES ASSUME ZipInv, ~job.foreign, ReadEntry PROVE \E at : ContentsInv(at)'
    OBVIOUS
<1>1. PICK at : ContentsInv(at)
    BY DEF ZipInv, ReadEntry
<1>2. /\ UNCHANGED <<job, out, offsets, entries>> /\ zipAt' = zipAt + 1
      /\ zipAt <= Len(entries)
      /\ zipFiles' = IF EntryNow.dir THEN zipFiles
                     ELSE With(zipFiles, EntryNow.name, ContentOf(EntryNow))
    BY DEF ReadEntry
<1>3. /\ zipAt \in 1..N /\ ContentOf(EntryNow) = Entry(zipAt).content
      /\ EntryNow.name = Entry(zipAt).name /\ EntryNow.dir = Entry(zipAt).dir
    BY <1>1, <1>2, NextContent
<1>4. N \in Nat /\ zipAt - 1 \in Nat /\ (zipAt - 1) + 1 = zipAt
    BY <1>3, EntriesAreTyped DEF ZipInv
<1>5. FilesUpTo(job.entries, zipAt)
        = IF Entry(zipAt).dir THEN FilesUpTo(job.entries, zipAt - 1)
          ELSE With(FilesUpTo(job.entries, zipAt - 1), Entry(zipAt).name, Entry(zipAt).content)
    <2> DEFINE n == zipAt - 1
    <2>1. n \in Nat /\ n + 1 = zipAt
        BY <1>4
    <2> HIDE DEF n
    <2>2. FilesUpTo(job.entries, n + 1)
             = IF job.entries[n + 1].dir THEN FilesUpTo(job.entries, n)
               ELSE With(FilesUpTo(job.entries, n), job.entries[n + 1].name, job.entries[n + 1].content)
        BY <2>1, OneFileMore
    <2> QED
        BY <2>1, <2>2 DEF n, Entry
<1>6. zipFiles' = FilesUpTo(job.entries, zipAt)
    BY <1>1, <1>2, <1>3, <1>5 DEF ContentsInv
<1>7. N' = N /\ zipAt' \in 1..(N' + 1) /\ zipAt' - 1 = zipAt
    BY <1>2, <1>3, <1>4 DEF N
<1>8. ContentsInv(at)'
    BY <1>1, <1>2, <1>6, <1>7 DEF ContentsInv
<1> QED
    BY <1>8

\* Each step of writing an archive and reading it keeps the invariant.
LEMMA ZipStep == ZipInv /\ [ZipNext]_zipVars => ZipInv'
<1> SUFFICES ASSUME ZipInv, [ZipNext]_zipVars PROVE ZipInv'
    OBVIOUS
<1>0. job \in Jobs /\ zipStage \in Stages
    BY DEF ZipInv
<1>1. job' = job /\ zipStage' \in Stages
    BY <1>0 DEF ZipNext, WriteLocal, EntryTooLarge, LocalsEnd, WriteCentral, WriteEnd, OpenZip,
       ReadCentral, CentralsEnd, BadZip, ReadEntry, ReadFails, ContentsEnd, ZipGoTo, zipVars, Stages
<1>2. CASE job.foreign
    BY <1>0, <1>1, <1>2 DEF ZipInv
<1>3. CASE ~job.foreign
    <2>1. CASE WriteLocal
        <3>1. LocalsInv'
            BY <1>3, <2>1, WriteLocalKeeps
        <3> QED
            BY <1>0, <1>1, <1>3, <2>1, <3>1 DEF ZipInv, WriteLocal
    <2>2. CASE EntryTooLarge
        <3>1. /\ LocalsInv /\ zipAt <= N /\ ~HasItsSize(Entry(zipAt)) /\ zipStage' = "error"
            BY <1>3, <2>2 DEF ZipInv, EntryTooLarge, ZipGoTo, Source, Entry, N
        <3>2. zipAt \in 1..N /\ DOMAIN job.entries = 1..N
            BY <1>0, <3>1, EntriesAreTyped DEF LocalsInv
        <3>3. Entry(zipAt).nameLen \in Nat /\ Entry(zipAt).len \in Nat
            BY <1>0, <3>2, EntriesAreTyped
        <3>4. Entry(zipAt).nameLen > MaxName \/ Entry(zipAt).len >= Width
            BY <3>1, <3>3, WidthAssumption DEF HasItsSize
        <3>5. Entry(zipAt) \in Range(job.entries)
            BY <3>2 DEF Range, Entry
        <3>6. Refused'
            BY <1>1, <3>4, <3>5 DEF Refused
        <3> QED
            BY <1>0, <1>1, <1>3, <3>1, <3>6 DEF ZipInv
    <2>3. CASE LocalsEnd
        <3>1. \E at : DirectoryInv(at)'
            BY <1>3, <2>3, LocalsEndKeeps
        <3> QED
            BY <1>0, <1>1, <1>3, <2>3, <3>1 DEF ZipInv, LocalsEnd, ZipGoTo
    <2>4. CASE WriteCentral
        <3>1. \E at : DirectoryInv(at)'
            BY <1>3, <2>4, WriteCentralKeeps
        <3> QED
            BY <1>0, <1>1, <1>3, <2>4, <3>1 DEF ZipInv, WriteCentral
    <2>5. CASE WriteEnd
        <3>1. \E at : Written(out, job.entries, offsets, at)'
            BY <1>3, <2>5, WriteEndKeeps
        <3> QED
            BY <1>0, <1>1, <1>3, <2>5, <3>1 DEF ZipInv, WriteEnd, ZipGoTo
    <2>6. CASE OpenZip
        <3>1. \E at : CentralsInv(at)'
            BY <1>3, <2>6, OpenZipKeeps
        <3> QED
            BY <1>0, <1>1, <1>3, <2>6, <3>1 DEF ZipInv, OpenZip, ZipGoTo
    <2>7. CASE ReadCentral
        <3>1. \E at : CentralsInv(at)'
            BY <1>3, <2>7, ReadCentralKeeps
        <3> QED
            BY <1>0, <1>1, <1>3, <2>7, <3>1 DEF ZipInv, ReadCentral
    <2>8. CASE CentralsEnd
        <3>1. \E at : ContentsInv(at)'
            BY <1>3, <2>8, CentralsEndKeeps
        <3> QED
            BY <1>0, <1>1, <1>3, <2>8, <3>1 DEF ZipInv, CentralsEnd, ZipGoTo
    <2>9. CASE BadZip
        <3>1. zipStage # "open"
            <4> SUFFICES ASSUME zipStage = "open" PROVE FALSE
                OBVIOUS
            <4>1. PICK at : Written(out, job.entries, offsets, at)
                BY <1>3 DEF ZipInv
            <4>2. Ends # {}
                BY <1>0, <4>1, EndIsFound
            <4> QED
                BY <2>9, <4>2 DEF BadZip
        <3>2. zipStage = "centrals" /\ zipAt <= TheEnd.count /\ ~CentralIsThere
            BY <2>9, <3>1 DEF BadZip
        <3>3. PICK at : CentralsInv(at)
            BY <1>3, <3>2 DEF ZipInv
        <3>4. zipAt <= N
            BY <1>0, <3>2, <3>3, EndIsFound DEF CentralsInv
        <3>5. /\ ~(at[1] < Width) /\ at[1] \in Nat /\ at[1] \in DOMAIN out.centrals
              /\ \A o \in DOMAIN out.centrals : at[1] <= o
            BY <1>0, <3>2, <3>3, <3>4, CentralIsFound
        <3>6. \A o \in DOMAIN out.centrals : o \in Nat
            BY <3>3 DEF CentralsInv, Written, Directory
        <3>7. DirectoryTooFar
            BY <3>5, <3>6, WidthAssumption DEF DirectoryTooFar
        <3>8. Refused' /\ zipStage' = "error"
            BY <2>9, <3>7 DEF Refused, DirectoryTooFar, BadZip, ZipGoTo
        <3> QED
            BY <1>0, <1>1, <1>3, <3>8 DEF ZipInv
    <2>10. CASE ReadEntry
        <3>1. \E at : ContentsInv(at)'
            BY <1>3, <2>10, ReadEntryKeeps
        <3> QED
            BY <1>0, <1>1, <1>3, <2>10, <3>1 DEF ZipInv, ReadEntry
    <2>11. CASE ReadFails
        <3>1. PICK at : ContentsInv(at)
            BY <1>3, <2>11 DEF ZipInv, ReadFails
        <3>2. ContentIsThere(EntryNow) /\ ~MayNotInflate(EntryNow)
            BY <1>3, <2>11, <3>1, NextContent DEF ReadFails
        <3> QED
            BY <2>11, <3>2 DEF ReadFails
    <2>12. CASE ContentsEnd
        <3>1. PICK at : ContentsInv(at)
            BY <1>3, <2>12 DEF ZipInv, ContentsEnd
        <3>2. N \in Nat /\ Len(entries) = N /\ zipAt > Len(entries)
            BY <1>0, <2>12, <3>1, EntriesAreTyped DEF ContentsInv, AreRead, ContentsEnd
        <3>3. zipAt - 1 = N
            BY <3>1, <3>2 DEF ContentsInv
        <3>4. zipFiles = FilesIn(job.entries)
            BY <3>1, <3>3 DEF ContentsInv, FilesIn, N
        <3>5. zipStage' = "ok" /\ zipFiles' = FilesIn(job'.entries)
            BY <1>1, <2>12, <3>4 DEF ContentsEnd, ZipGoTo
        <3> QED
            BY <1>0, <1>1, <1>3, <3>5 DEF ZipInv
    <2>13. CASE UNCHANGED zipVars
        <3>1. UNCHANGED <<job, out, offsets, entries, zipAt, zipOff, zipFiles, zipStage>>
            BY <2>13 DEF zipVars
        <3>2. N' = N /\ (Refused' <=> Refused) /\ (LocalsInv' <=> LocalsInv)
            BY <3>1 DEF N, Refused, DirectoryTooFar, LocalsInv
        <3>3. /\ \A at : DirectoryInv(at)' <=> DirectoryInv(at)
              /\ \A at : CentralsInv(at)' <=> CentralsInv(at)
              /\ \A at : ContentsInv(at)' <=> ContentsInv(at)
            BY <3>1, <3>2 DEF DirectoryInv, CentralsInv, ContentsInv
        <3> QED
            BY <3>1, <3>2, <3>3 DEF ZipInv
    <2> QED
        BY <2>1, <2>2, <2>3, <2>4, <2>5, <2>6, <2>7, <2>8, <2>9, <2>10, <2>11, <2>12, <2>13
        DEF ZipNext
<1> QED
    BY <1>2, <1>3

\* What is written is read back: for every list of entries and every width, an archive
\* that write_stored_zip wrote, once opened, has the files that were put into it, the last
\* of a name, each with its own content.
THEOREM WrittenFilesReadBack == ZipSpec => [](~job.foreign => NeverAnotherContent)
<1>1. ZipInv => (~job.foreign => NeverAnotherContent)
    BY DEF ZipInv, NeverAnotherContent
<1> QED
    BY ZipInitInv, ZipStep, <1>1, PTL DEF ZipSpec

\* An archive that write_stored_zip wrote is refused by the reader only if its central
\* directory begins where four bytes do not lead, and by the writer only for an entry, or
\* a number of entries, that is too great.
THEOREM WrittenAlwaysOpens == ZipSpec => [](~job.foreign => WrittenCanBeOpened)
<1>1. ZipInv => (~job.foreign => WrittenCanBeOpened)
    BY DEF ZipInv, WrittenCanBeOpened, Refused, N
<1> QED
    BY ZipInitInv, ZipStep, <1>1, PTL DEF ZipSpec
=============================================================================
