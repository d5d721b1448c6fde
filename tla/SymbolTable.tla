---------------------------- MODULE SymbolTable -----------------------------
(***************************************************************************)
(* SymbolTable::from_macho (crates/apple_metadata/src/symbols.rs): the      *)
(* names of the addresses of an image, from its symbols, its stubs and its  *)
(* string literals, in turn.                                                *)
(***************************************************************************)
EXTENDS Integers, SequencesExt

CONSTANT SymbolFiles    \* the images that are read, as far as they matter here

\* Of an image t are given
\*   t.symtab, t.dysymtab      "none", "there", "cut" if the command is cut short, and
\*                             "gone" if what it leads to is not in the file
\*   t.symbols                 value, type ("stab", "undefined" or "defined"), name, and
\*                             what that begins with: "marked" for _, -[ and +[,
\*                             "temporary" for ltmp, or "plain"
\*   t.indirect                numbers of symbols, Local for LOCAL and ABS
\*   t.stubs                   sections of stubs: address, size of one, first, count
\*   t.sections                whether the load commands can be walked to their end
\*   t.lookups                 whether they can be as far as the literal sections are
\*                             looked for, which is to the end for one that is not there
\*   t.literals                strings of the literal sections up to a lookup that fails,
\*                             by section and address
\* The name NoName is one that is empty or unreadable.  The name of a symbol that is
\* undefined, a stab or temporary counts for its stubs.
NoName == 0
Local == -1

ASSUME SymbolFilesAssumption ==
    \A t \in SymbolFiles :
      /\ t.symbols \in Seq([value : Nat, type : {"stab", "undefined", "defined"},
                            start : {"marked", "temporary", "plain"}, name : Nat])
      /\ t.indirect \in Seq(Nat \cup {Local})
      /\ t.stubs \in Seq([addr : Nat, size : Nat, first : Nat, count : Nat])
      /\ t.literals \in Seq([addr : Nat, name : Nat])
      /\ t.sections => t.lookups

VARIABLES
    table,
    symStage,       \* "symbols", "stubs", "literals", "ok" or "error"; "off"
    at,             \* index of the symbol, section or stub that is next, from 1
    stub,           \* of a section, the stub that is next, from 0
    byAddr

symVars == <<table, symStage, at, stub, byAddr>>

SymInit ==
    /\ table \in SymbolFiles
    /\ symStage = "symbols"
    /\ at = 1 /\ stub = 0
    /\ byAddr = <<>>

NoSymbols == [symtab |-> "none", dysymtab |-> "none", symbols |-> <<>>, indirect |-> <<>>,
              stubs |-> <<>>, sections |-> TRUE, lookups |-> TRUE, literals |-> <<>>]

SymOff == table = NoSymbols /\ symStage = "off" /\ at = 1 /\ stub = 0 /\ byAddr = <<>>

Put(va, name) ==
    byAddr' = [x \in DOMAIN byAddr \cup {va} |-> IF x = va THEN name ELSE byAddr[x]]

\* A faulty variant: insert.
PutAlways(va, name) == Put(va, name)

\* entry(va).or_insert
PutIfAbsent(va, name) ==
    IF va \in DOMAIN byAddr THEN UNCHANGED byAddr ELSE Put(va, name)

GoTo(s) == symStage' = s /\ at' = 1 /\ stub' = 0

-----------------------------------------------------------------------------

NameSymbols == symStage = "symbols" /\ table.symtab = "there"

Eligible(s) == s.type = "defined" /\ s.name # NoName /\ s.start # "temporary"

\* A faulty variant: a marked name replaces any other.
ReplacesAny(old, s) == s.start = "marked"

\* A marked name replaces one that is not, and no other does.
Replaces(old, s) == old.start # "marked" /\ s.start = "marked"

TakeSymbol ==
    /\ NameSymbols /\ at <= Len(table.symbols)
    /\ LET s == table.symbols[at]
           new == [name |-> s.name, start |-> s.start]
       IN  IF Eligible(s) /\ (s.value \notin DOMAIN byAddr \/ Replaces(byAddr[s.value], s))
           THEN Put(s.value, new) ELSE UNCHANGED byAddr
    /\ at' = at + 1
    /\ UNCHANGED <<table, symStage, stub>>

\* Without a symbol table there are no stubs either.
SymbolsEnd ==
    /\ \/ NameSymbols /\ at > Len(table.symbols) /\ GoTo("stubs")
       \/ symStage = "symbols" /\ table.symtab = "none" /\ GoTo("literals")
    /\ UNCHANGED <<table, byAddr>>

NameStubs == symStage = "stubs" /\ table.dysymtab = "there" /\ table.sections

InSection == NameStubs /\ at <= Len(table.stubs)

Section == table.stubs[at]

\* The stubs of a section for which there is an indirect symbol.
StubCount == Min({Section.count, Max({0, Len(table.indirect) - Section.first})})

TakeStub ==
    /\ InSection /\ Section.size # 0 /\ stub < StubCount
    /\ LET n == table.indirect[Section.first + stub + 1]
           named == n # Local /\ n < Len(table.symbols) /\ table.symbols[n + 1].name # NoName
       IN  IF named
           THEN LET s == table.symbols[n + 1]
                IN  PutIfAbsent(Section.addr + stub * Section.size,
                                [name |-> s.name, start |-> s.start])
           ELSE UNCHANGED byAddr
    /\ stub' = stub + 1
    /\ UNCHANGED <<table, symStage, at>>

StubsOfSectionEnd ==
    /\ InSection /\ (Section.size = 0 \/ stub >= StubCount)
    /\ at' = at + 1 /\ stub' = 0
    /\ UNCHANGED <<table, symStage, byAddr>>

StubsEnd ==
    /\ symStage = "stubs"
    /\ \/ table.dysymtab \in {"none", "gone"}
       \/ NameStubs /\ at > Len(table.stubs)
    /\ GoTo("literals")
    /\ UNCHANGED <<table, byAddr>>

TakeLiteral ==
    /\ symStage = "literals" /\ at <= Len(table.literals)
    /\ PutIfAbsent(table.literals[at].addr,
                   [name |-> table.literals[at].name, start |-> "plain"])
    /\ at' = at + 1
    /\ UNCHANGED <<table, symStage, stub>>

LiteralsEnd ==
    /\ symStage = "literals" /\ table.lookups /\ at > Len(table.literals)
    /\ GoTo("ok")
    /\ UNCHANGED <<table, byAddr>>

SymbolsFail ==
    /\ \/ symStage = "symbols" /\ table.symtab \in {"cut", "gone"}
       \/ symStage = "stubs" /\ table.dysymtab = "cut"
       \/ symStage = "stubs" /\ table.dysymtab = "there" /\ ~table.sections
       \/ symStage = "literals" /\ ~table.lookups /\ at > Len(table.literals)
    /\ GoTo("error")
    /\ UNCHANGED <<table, byAddr>>

SymNext == \/ TakeSymbol \/ SymbolsEnd \/ TakeStub \/ StubsOfSectionEnd \/ StubsEnd
           \/ TakeLiteral \/ LiteralsEnd \/ SymbolsFail

SymSpec == SymInit /\ [][SymNext]_symVars

-----------------------------------------------------------------------------
(* Properties.                                                              *)

\* All that the image says of the name of an address, each with its standing (a marked
\* symbol before another, before a stub, before a literal) and its place.
SaidBySymbols(va) ==
    {<<IF table.symbols[k].start = "marked" THEN 1 ELSE 2, k, 0, table.symbols[k].name>> :
        k \in {j \in DOMAIN table.symbols : Eligible(table.symbols[j]) /\ table.symbols[j].value = va}}

\* Whether stub i of section k is at an address, and has a symbol with a name.
StubSays(k, i, va) ==
    LET s == table.stubs[k]
    IN  /\ s.size # 0 /\ i < s.count /\ s.addr + i * s.size = va
        /\ s.first + i < Len(table.indirect)
        /\ LET n == table.indirect[s.first + i + 1]
           IN  n \in 0..(Len(table.symbols) - 1) /\ table.symbols[n + 1].name # NoName

SaidByStubs(va) ==
    {<<3, p[1], p[2], table.symbols[table.indirect[table.stubs[p[1]].first + p[2] + 1] + 1].name>> :
        p \in {q \in UNION {{k} \X (0..table.stubs[k].count) : k \in DOMAIN table.stubs} :
                  StubSays(q[1], q[2], va)}}

SaidByLiterals(va) ==
    {<<4, k, 0, table.literals[k].name>> :
        k \in {j \in DOMAIN table.literals : table.literals[j].addr = va}}

Said(va) ==
    (IF table.symtab = "there" THEN SaidBySymbols(va) ELSE {})
        \cup (IF table.symtab = "there" /\ table.dysymtab = "there" THEN SaidByStubs(va) ELSE {})
        \cup SaidByLiterals(va)

Outranks(p, q) ==
    p[1] < q[1] \/ (p[1] = q[1] /\ (p[2] < q[2] \/ (p[2] = q[2] /\ p[3] <= q[3])))

Addresses ==
    DOMAIN byAddr \cup {s.value : s \in Range(table.symbols)} \cup {l.addr : l \in Range(table.literals)}
        \cup UNION {{s.addr + i * s.size : i \in 0..s.count} : s \in Range(table.stubs)}

\* An address has a name if the image says one, and of several it has the one with the
\* best standing, the first among equals: a stub or a literal never hides a symbol, and
\* a temporary name never one that is marked (symbols.rs:55-81, 196 and 216).
BestNameWins ==
    symStage = "ok" =>
        \A va \in Addresses :
            /\ va \in DOMAIN byAddr <=> Said(va) # {}
            /\ Said(va) # {} =>
                \E best \in Said(va) : /\ \A other \in Said(va) : Outranks(best, other)
                                       /\ byAddr[va].name = best[4]

\* Once an address has a name it keeps one, and what it has of the symbols is not
\* changed by what comes after them: a later source never overrules an earlier one
\* (or_insert_with, symbols.rs:196 and 216).
SourcesAreInTurn ==
    [][\A va \in DOMAIN byAddr : /\ va \in DOMAIN byAddr'
                                 /\ symStage # "symbols" => byAddr'[va] = byAddr[va]]_symVars
=============================================================================
