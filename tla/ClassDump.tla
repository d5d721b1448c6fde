----------------------------- MODULE ClassDump ------------------------------
(***************************************************************************)
(* The class-dump command (crates/apple_re_cli/src/class_dump.rs): it reads *)
(* the Objective-C metadata of an image, of the frameworks beside it or of  *)
(* an older image, and prints what the filters leave, writes it to header   *)
(* files, or prints the difference.                                         *)
(***************************************************************************)
EXTENDS ObjcRefs, ObjcDiff

CONSTANTS
    NoPattern,      \* an option that is not given
    NoDiff,
    NSObject,       \* "NSObject"
    Arguments,      \* the command lines, with the images they lead to
    OldFiles,       \* what the output directory may hold before
    Sanitized(_)    \* sanitize_filename

\* A pattern is the set of the names that it matches; so is the string of -f.
\* What is stored in an image, and what the pointers in it lead to, are numbers.
IsImage(f) ==
    /\ \A o \in DOMAIN f.num : f.num[o] \in Int
    /\ \A o \in DOMAIN f.fixups : f.fixups[o].kind = "rebase" => f.fixups[o].va \in Int

ASSUME ArgumentsAssumption ==
    \A a \in Arguments :
        /\ \A f \in {a.image} \cup Range(a.frameworks) : IsImage(f)
        /\ a.diff # NoDiff => IsImage(a.diff)
        /\ DOMAIN a = {"image", "frameworks", "diff", "refs", "headers", "class", "proto",
                       "cat", "find", "inheritance", "sortName", "sortMethods"}
        /\ {a.refs, a.headers, a.inheritance, a.sortName, a.sortMethods} \subseteq BOOLEAN
        /\ Len(a.frameworks) \in Nat /\ DOMAIN a.frameworks = 1..Len(a.frameworks)

\* What is in a header file that was not written to its end.
CutShort == [kind |-> "cut"]

ASSUME OldFilesAssumption == \A f \in OldFiles : \A n \in DOMAIN f : f[n] # CutShort

VARIABLES
    args,           \* the command line
    todo,           \* images still to be read, and whether each has to be readable
    metas,          \* the metadata of those that were read
    emitted,        \* how many of metas were printed or written
    headers,        \* header files of the next of them still to be written
    files,          \* the output directory
    printed,        \* standard output
    status          \* "ready", "running", "ok" or "error"

cliVars == <<args, todo, metas, emitted, headers, files, printed, status>>
vars == <<metaVars, cliVars>>

Init ==
    /\ args \in Arguments
    /\ StartsReading(args.image)
    /\ todo = <<>>
    /\ metas = <<>>
    /\ emitted = 0
    /\ headers = <<>>
    /\ files \in OldFiles
    /\ printed = <<>>
    /\ status = "ready"

Error == status' = "error"

Given(pattern) == pattern # NoPattern

-----------------------------------------------------------------------------
(* Filters.                                                                 *)

\* A faulty variant: a kind without a pattern of its own is kept as it is.
KeepByNameLax(a, m) ==
    LET all == Given(a.class) /\ ~Given(a.proto) /\ ~Given(a.cat)
        one(pattern) == IF all THEN a.class ELSE pattern
        keep(entries, pattern, Match(_)) ==
            IF ~Given(one(pattern)) THEN entries
            ELSE EntriesAt(entries, {k \in DOMAIN entries : Match(entries[k])})
    IN  [classes    |-> keep(m.classes, a.class, LAMBDA c : c.name \in a.class),
         categories |-> keep(m.categories, a.cat,
                             LAMBDA c : {c.className, c.name} \cap one(a.cat) # {}),
         protocols  |-> keep(m.protocols, a.proto, LAMBDA p : p.name \in one(a.proto))]

\* By name.  A class pattern alone stands for all three kinds; else a kind that
\* has no pattern is dropped if another has one.
Selective(a) == Given(a.class) \/ Given(a.proto) \/ Given(a.cat)

Selected(a, m) ==
    LET all == Given(a.class) /\ ~Given(a.proto) /\ ~Given(a.cat)
        one(pattern) == IF all THEN a.class ELSE pattern
        keep(entries, pattern, Match(_)) ==
            IF ~Given(one(pattern)) THEN <<>>
            ELSE EntriesAt(entries, {k \in DOMAIN entries : Match(entries[k])})
    IN  [classes    |-> keep(m.classes, a.class, LAMBDA c : c.name \in a.class),
         categories |-> keep(m.categories, a.cat,
                             LAMBDA c : {c.className, c.name} \cap one(a.cat) # {}),
         protocols  |-> keep(m.protocols, a.proto, LAMBDA p : p.name \in one(a.proto))]

KeepByName(a, m) == IF Selective(a) THEN Selected(a, m) ELSE m

\* By method: of the classes and categories that have one, those methods.
MethodsFound(a, methods) == EntriesAt(methods, {k \in DOMAIN methods : methods[k].name \in a.find})

KeepFound(a, entries) ==
    LET with == EntriesAt(entries, {k \in DOMAIN entries :
                    MethodsFound(a, entries[k].methods \o entries[k].classMethods) # <<>>})
    IN  [n \in DOMAIN with |->
            [with[n] EXCEPT !.methods = MethodsFound(a, @), !.classMethods = MethodsFound(a, @)]]

KeepByMethod(a, m) ==
    IF ~Given(a.find) THEN m
    ELSE [classes    |-> KeepFound(a, m.classes),
          categories |-> KeepFound(a, m.categories),
          protocols  |-> m.protocols]

FilterMeta(a, m) == KeepByMethod(a, KeepByName(a, m))

-----------------------------------------------------------------------------
(* Output.                                                                  *)

\* The positions 1 to n in order, the pairs in before given: each is put in behind
\* those of the lower ones that it does not come before.
InOrder(n, before) ==
    LET place(out, k) == Cardinality({j \in 1..(k - 1) : <<k, out[j]>> \notin before}) + 1
        put(out, k) == [j \in 1..k |-> IF j < place(out, k) THEN out[j]
                                       ELSE IF j = place(out, k) THEN k ELSE out[j - 1]]
        sorted[k \in 0..n] == IF k = 0 THEN <<>> ELSE put(sorted[k - 1], k)
    IN  sorted[n]

\* A stable sort by a key.
SortedBy(entries, Before(_, _)) ==
    LET before == {p \in (DOMAIN entries) \X (DOMAIN entries) : Before(entries[p[1]], entries[p[2]])}
        order == InOrder(Len(entries), before)
    IN  [k \in DOMAIN entries |-> entries[order[k]]]

ByName(d, e) == d.name < e.name

ByClassAndName(d, e) ==
    d.className < e.className \/ (d.className = e.className /\ d.name < e.name)

\* The order in which InheritanceSort lists classes: passes in name order, as many
\* as there are classes, and then what is left.
ByInheritance(classes) ==
    LET cs == SortedBy(classes, ByName)
        named(ks, name) == \E k \in ks : cs[k].name = name
        ready(out, super) == \/ super \in {Nothing, NSObject}
                             \/ named(Range(out), super)
                             \/ ~named(DOMAIN cs \ Range(out), super)
        take(out, k) == IF k \in Range(out) \/ ~ready(out, cs[k].superclass) THEN out
                        ELSE Append(out, k)
        pass(out) == LET upTo[k \in 0..Len(cs)] == IF k = 0 THEN out ELSE take(upTo[k - 1], k)
                     IN  upTo[Len(cs)]
        taken[k \in 0..Len(cs)] == IF k = 0 THEN <<>> ELSE pass(taken[k - 1])
        listed == taken[Len(cs)]
    IN  [k \in DOMAIN listed |-> cs[listed[k]]] \o EntriesAt(cs, DOMAIN cs \ Range(listed))

SortMethods(entries) ==
    [k \in DOMAIN entries |->
        [entries[k] EXCEPT !.methods = SortedBy(@, ByName), !.classMethods = SortedBy(@, ByName)]]

\* dump_all: -I overrides -s, also for the categories; protocols keep their methods.
DumpAll(a, m) ==
    LET methods(entries) == IF a.sortMethods THEN SortMethods(entries) ELSE entries
        byName == a.sortName /\ ~a.inheritance
    IN  [protocols  |-> IF byName THEN SortedBy(m.protocols, ByName) ELSE m.protocols,
         classes    |-> methods(IF a.inheritance THEN ByInheritance(m.classes)
                                ELSE IF byName THEN SortedBy(m.classes, ByName) ELSE m.classes),
         categories |-> methods(IF byName THEN SortedBy(m.categories, ByClassAndName)
                                ELSE m.categories)]

\* A faulty variant: the file of a category is named after its class.
HeaderNameOfClass(kind, e) ==
    IF kind = "categories" THEN <<Sanitized(e.className)>> ELSE <<Sanitized(e.name)>>

HeaderName(kind, e) ==
    IF kind = "categories" THEN <<Sanitized(e.className), Sanitized(e.name)>>
    ELSE <<Sanitized(e.name)>>

\* The files of an image in the order they are written.
HeadersOf(m) ==
    LET of(kind) == [k \in DOMAIN m[kind] |->
                        [name |-> HeaderName(kind, m[kind][k]),
                         text |-> [kind |-> kind, of |-> m[kind][k]]]]
    IN  of("classes") \o of("categories") \o of("protocols")

-----------------------------------------------------------------------------
(* The command.                                                             *)

Conflict(a) ==
    \/ a.diff # NoDiff /\ (a.headers \/ a.refs)
    \/ a.headers /\ (Given(a.class) \/ Given(a.proto) \/ Given(a.cat))

\* The images in the order they are read; frameworks only with -r.
ImagesOf(a) ==
    LET must(f) == [image |-> f, must |-> TRUE]
    IN  IF a.diff # NoDiff THEN <<must(a.image), must(a.diff)>>
        ELSE <<must(a.image)>> \o [k \in DOMAIN a.frameworks |->
                                    [image |-> a.frameworks[k], must |-> FALSE]]

\* The options are checked, the file is loaded and its slice opened (FatMacho),
\* and the references are printed.
Start ==
    /\ status = "ready"
    /\ \/ Error /\ UNCHANGED <<todo, printed>>
       \/ /\ ~Conflict(args)
          /\ args.refs => ~RefsFail(args.image)
          /\ printed' = IF args.refs THEN <<[what |-> "refs", said |-> ParseRefs(args.image)]>>
                        ELSE <<>>
          /\ todo' = ImagesOf(args)
          /\ status' = "running"
    /\ UNCHANGED <<metaVars, args, metas, emitted, headers, files>>

Reading == status = "running" /\ todo # <<>>

Read == Reading /\ ParseStep /\ UNCHANGED cliVars

TakeNext ==
    /\ todo' = Tail(todo)
    /\ IF Len(todo) > 1
       THEN image' = todo[2].image /\ stage' = "classes" /\ slot' = 1 /\ meta' = NoMeta
       ELSE UNCHANGED metaVars

WasRead ==
    /\ Reading /\ stage = "read"
    /\ metas' = Append(metas, meta)
    /\ TakeNext
    /\ UNCHANGED <<args, emitted, headers, files, printed, status>>

\* A framework that cannot be read is left out without a word.
CouldNotBeRead ==
    /\ Reading /\ stage = "failed"
    /\ IF Head(todo).must THEN Error /\ UNCHANGED <<todo, metaVars>>
       ELSE TakeNext /\ UNCHANGED status
    /\ UNCHANGED <<args, metas, emitted, headers, files, printed>>

AllRead == status = "running" /\ todo = <<>> /\ headers = <<>>

PrintDiff ==
    /\ AllRead /\ args.diff # NoDiff
    /\ printed' = Append(printed, [what |-> "diff", said |-> DiffObjc(metas[2], metas[1])])
    /\ status' = "ok"
    /\ UNCHANGED <<metaVars, args, todo, metas, emitted, headers, files>>

\* The next image, if the filters leave anything of it.
Emit ==
    /\ AllRead /\ args.diff = NoDiff /\ emitted < Len(metas)
    /\ LET left == FilterMeta(args, metas[emitted + 1])
       IN  IF left = NoMeta THEN UNCHANGED <<headers, printed>>
           ELSE IF args.headers THEN headers' = HeadersOf(left) /\ UNCHANGED printed
           ELSE /\ printed' = Append(printed, [what |-> "dump", said |-> DumpAll(args, left)])
                /\ UNCHANGED headers
    /\ emitted' = emitted + 1
    /\ UNCHANGED <<metaVars, args, todo, metas, files, status>>

\* The file is made, or overwritten.
Put(name, text) ==
    files' = [n \in DOMAIN files \cup {name} |-> IF n = name THEN text ELSE files[n]]

WriteHeader ==
    /\ status = "running" /\ headers # <<>>
    /\ Put(Head(headers).name, Head(headers).text)
    /\ headers' = Tail(headers)
    /\ UNCHANGED <<metaVars, args, todo, metas, emitted, printed, status>>

\* A file that cannot be written, or only in part, ends the command.
WriteFails ==
    /\ status = "running" /\ headers # <<>>
    /\ UNCHANGED files \/ Put(Head(headers).name, CutShort)
    /\ Error
    /\ UNCHANGED <<metaVars, args, todo, metas, emitted, headers, printed>>

Finish ==
    /\ AllRead /\ args.diff = NoDiff /\ emitted = Len(metas)
    /\ status' = "ok"
    /\ UNCHANGED <<metaVars, args, todo, metas, emitted, headers, files, printed>>

Next == \/ Start \/ Read \/ WasRead \/ CouldNotBeRead
        \/ PrintDiff \/ Emit \/ WriteHeader \/ WriteFails \/ Finish

Spec == Init /\ [][Next]_vars

-----------------------------------------------------------------------------
(* Properties.                                                              *)

TypeOK ==
    /\ stage \in DOMAIN After \cup {"read", "failed"}
    /\ slot \in Nat \ {0}
    /\ DOMAIN meta = DOMAIN After
    /\ emitted \in 0..Len(metas)
    /\ \A k \in DOMAIN todo : DOMAIN todo[k] = {"image", "must"}
    /\ \A k \in DOMAIN metas : DOMAIN metas[k] = DOMAIN After
    /\ status \in {"ready", "running", "ok", "error"}

\* What the options ask for, kind by kind (class_dump.rs:269-271): each pattern is
\* about its own kind, and -C alone about all; -f is about classes and categories.
Asked(kind, e) ==
    LET own == [classes |-> args.class, categories |-> args.cat, protocols |-> args.proto]
        alone == \A k \in DOMAIN own \ {"classes"} : own[k] = NoPattern
        pattern == IF alone THEN args.class ELSE own[kind]
        names == IF kind = "categories" THEN {e.name, e.className} ELSE {e.name}
    IN  /\ (\E k \in DOMAIN own : Given(own[k])) => Given(pattern) /\ names \cap pattern # {}
        /\ (Given(args.find) /\ kind # "protocols") =>
               Names(e.methods \o e.classMethods) \cap args.find # {}

\* Two entries are the same but for methods that -f leaves out and -S moves.
SameBut(kind, e, d) ==
    LET kept(methods) == {m \in Range(methods) : Given(args.find) => m.name \in args.find}
        rest(x) == [k \in DOMAIN x \ {"methods", "classMethods"} |-> x[k]]
    IN  /\ rest(e) = rest(d)
        /\ IF kind = "protocols" THEN e = d
           ELSE /\ Range(d.methods) = kept(e.methods)
                /\ Range(d.classMethods) = kept(e.classMethods)

AskedOf(m) == [kind \in DOMAIN m |-> {e \in Range(m[kind]) : Asked(kind, e)}]

\* The images are printed in turn, and of each exactly what is asked for: no class,
\* category or protocol that the patterns leave is lost by sorting, none is printed
\* that they do not ask for, and -f takes only methods away (filter_meta, dump_all).
PrintsWhatIsAsked ==
    (status = "ok" /\ args.diff = NoDiff /\ ~args.headers) =>
        LET dumps == EntriesAt(printed, {k \in DOMAIN printed : printed[k].what = "dump"})
            some == EntriesAt(metas, {k \in DOMAIN metas :
                                         \E kind \in DOMAIN After : AskedOf(metas[k])[kind] # {}})
        IN  /\ Len(dumps) = Len(some)
            /\ \A i \in DOMAIN dumps : \A kind \in DOMAIN After :
                 LET asked == AskedOf(some[i])[kind]
                     said == dumps[i].said[kind]
                 IN  /\ \A e \in asked : \E d \in Range(said) : SameBut(kind, e, d)
                     /\ \A d \in Range(said) : \E e \in asked : SameBut(kind, e, d)

\* The entries of an image of which header files are written.
HeadedOf(m) ==
    UNION {{[kind |-> kind, of |-> e] : e \in Range(KeepByMethod(args, m)[kind])} : kind \in DOMAIN After}

Headed == UNION {HeadedOf(metas[k]) : k \in DOMAIN metas}

\* Two entries of which the files have one name, once it is made safe.
Clash(v, w) ==
    /\ (v.kind = "categories") = (w.kind = "categories")
    /\ Sanitized(v.of.name) = Sanitized(w.of.name)
    /\ v.kind = "categories" => Sanitized(v.of.className) = Sanitized(w.of.className)

\* With -H each class, category and protocol has a file of its own in the end,
\* unless another one's name is made the same (write_headers); at most one file is
\* ever cut short, and only where the command has failed.
HeadersAreOwn ==
    LET cut == {n \in DOMAIN files : files[n] = CutShort}
    IN  args.headers =>
        /\ (\A n, p \in cut : n = p) /\ (cut # {} => status = "error")
        /\ status = "ok" =>
             \A w \in Headed : (\A v \in Headed : v = w \/ ~Clash(v, w)) =>
                 w \in Range(files)

\* The members of a class by which it is compared, as they are in the source.
Members(c) ==
    [instance |-> Names(c.methods), class |-> Names(c.classMethods), adopted |-> Range(c.protocols),
     ivars |-> Names(c.ivars), properties |-> Names(c.properties)]

\* What was printed of a class that has no other namesake leads from the old image to
\* the new one: a class that is said to be added or removed is in one image only, and
\* one of which nothing is said has the same members in both (diff_section).
DiffTellsTheDifference ==
    \A p \in Range(printed) : p.what = "diff" =>
        LET said == p.said.classes
            of(k, name) == {c \in Range(metas[k].classes) : c.name = name}
            alone(k, name) == \A c, d \in of(k, name) : c = d
        IN  \A name \in Names(metas[1].classes) \cup Names(metas[2].classes) :
              alone(1, name) /\ alone(2, name) =>
                /\ name \in said.added <=> of(2, name) = {}
                /\ name \in said.removed <=> of(1, name) = {}
                /\ \A new \in of(1, name), old \in of(2, name) :
                     /\ name \in DOMAIN said.changed <=> Members(old) # Members(new)
                     /\ name \in DOMAIN said.changed =>
                          LET c == said.changed[name]
                          IN  /\ (ClassKeys(old) \ c.lost) \cup c.gained = ClassKeys(new)
                              /\ c.lost \cap c.gained = {}
=============================================================================
