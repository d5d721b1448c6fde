------------------------------ MODULE ObjcDiff ------------------------------
(***************************************************************************)
(* diff_objc (crates/apple_metadata/src/diff.rs): what was added, removed   *)
(* and changed between the metadata of two images.  Pure operators.         *)
(***************************************************************************)
EXTENDS Integers, SequencesExt

Names(entries) == {entries[k].name : k \in DOMAIN entries}

\* A faulty variant: instance and class methods of one name are taken for the same.
MethodKeysMixed(instance, class) == {<<"-", n>> : n \in Names(instance) \cup Names(class)}

\* The keys of an entry: what of it is compared.
MethodKeys(instance, class) ==
    {<<"-", n>> : n \in Names(instance)} \cup {<<"+", n>> : n \in Names(class)}

Adopted(protocols) == {<<"<>", p>> : p \in Range(protocols)}

ClassKeys(c) ==
    MethodKeys(c.methods, c.classMethods) \cup Adopted(c.protocols)
        \cup {<<"ivar", n>> : n \in Names(c.ivars)}
        \cup {<<"prop", n>> : n \in Names(c.properties)}

ProtocolKeys(p) ==
    MethodKeys(p.methods, p.classMethods) \cup Adopted(p.protocols)
        \cup {<<"-?", n>> : n \in Names(p.optionalMethods)}
        \cup {<<"+?", n>> : n \in Names(p.optionalClassMethods)}

CategoryKeys(c) == MethodKeys(c.methods, c.classMethods)

\* An index of entries by their keys' owner: of namesakes the last one counts.
Index(entries, Id(_), Keys(_)) ==
    [id \in {Id(entries[k]) : k \in DOMAIN entries} |->
        Keys(entries[Max({k \in DOMAIN entries : Id(entries[k]) = id})])]

DiffSection(prev, next) ==
    [added   |-> DOMAIN next \ DOMAIN prev,
     removed |-> DOMAIN prev \ DOMAIN next,
     changed |-> [id \in {i \in DOMAIN prev \cap DOMAIN next : prev[i] # next[i]} |->
                    [gained |-> next[id] \ prev[id], lost |-> prev[id] \ next[id]]]]

Indexed(meta) ==
    LET name(e) == e.name
        both(c) == <<c.className, c.name>>
    IN  [classes    |-> Index(meta.classes, name, ClassKeys),
         protocols  |-> Index(meta.protocols, name, ProtocolKeys),
         categories |-> Index(meta.categories, both, CategoryKeys)]

DiffObjc(older, newer) ==
    [s \in {"classes", "protocols", "categories"} |->
        DiffSection(Indexed(older)[s], Indexed(newer)[s])]
=============================================================================
