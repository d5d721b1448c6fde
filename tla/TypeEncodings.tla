--------------------------- MODULE TypeEncodings ---------------------------
(***************************************************************************)
(* crates/apple_metadata/src/encode.rs: the declarations of methods, ivars  *)
(* and properties from the type encodings that an image keeps of them.      *)
(*                                                                          *)
(* An encoding is a sequence of characters of one byte each, a name in it   *)
(* counting as one where its characters are not looked at.                  *)
(* What is printed of a type is a sequence of words, "*" and those that     *)
(* stand for a C type being one each.                                       *)
(***************************************************************************)
EXTENDS Integers, SequencesExt

CONSTANT Members        \* what is declared

\* A member has its encoding, text, and what the compiler encoded in it: types, each
\* [is, tag, of] with the types it is made of in of, and attributes of a property.
VARIABLES
    member,
    rest,               \* of the encoding of a method, to be split
    split,              \* the encodings of types that were split off
    printed,            \* the declaration
    encStage            \* "splitting", "printed" or "aborted"; "off"

encVars == <<member, rest, split, printed, encStage>>

Nothing == [type |-> <<>>]

EncInit ==
    /\ member \in Members
    /\ rest = member.text
    /\ split = <<>>
    /\ printed = Nothing
    /\ encStage = "splitting"

NoMember == [kind |-> "ivar", types |-> <<>>, text |-> <<>>]

EncOff == member = NoMember /\ rest = <<>> /\ split = <<>> /\ printed = Nothing /\ encStage = "off"

-----------------------------------------------------------------------------
(* parse_one_type: the type at the beginning, and what is left.             *)

Qualifiers == {"r", "n", "N", "o", "O", "R", "V", "A", "j"}
Digits == {"0", "8"}
Quote == "\""

\* What follows the longest beginning of s that is of these characters.
Beyond(s, chars) ==
    LET others == {k \in DOMAIN s : s[k] \notin chars}
    IN  IF others = {} THEN <<>> ELSE SubSeq(s, Min(others), Len(s))

\* The first place from i on where c is, or the end.
FirstFrom(s, i, c) == Min({k \in i..Len(s) : s[k] = c} \cup {Len(s)})

\* A faulty variant: a struct in a struct ends both.
FirstClose(s, open, close) == FirstFrom(s, 2, close)

\* Where what is opened by the first character is closed, or the end.
Closing(s, open, close) ==
    LET Count(n, c) == Cardinality({k \in 1..n : s[k] = c})
    IN  Min({n \in 2..Len(s) : Count(n, open) = Count(n, close)} \cup {Len(s)})

TypeEnd(s) ==
    CASE Len(s) > 1 /\ s[1] = "@" /\ s[2] = Quote -> FirstFrom(s, 3, Quote)
      [] Len(s) > 1 /\ s[1] = "@" /\ s[2] = "?"   -> 2
      [] s[1] = "[" -> FirstFrom(s, 2, "]")
      [] s[1] = "{" -> Closing(s, "{", "}")
      [] s[1] = "(" -> Closing(s, "(", ")")
      [] s[1] = "b" -> Len(s) - Len(Beyond(Tail(s), Digits))
      [] OTHER -> 1

\* Every "^" among the qualifiers is a pointer to what follows.
ParseOneType(text) ==
    LET s == Beyond(text, Qualifiers \cup {"^"})
        pointers == SelectSeq(SubSeq(text, 1, Len(text) - Len(s)), LAMBDA c : c = "^")
        end == IF s = <<>> THEN 0 ELSE TypeEnd(s)
    IN  [type |-> pointers \o SubSeq(s, 1, end), rest |-> SubSeq(s, end + 1, Len(s))]

-----------------------------------------------------------------------------
(* humanize.                                                                *)

StructName(body) ==
    LET eq == {k \in DOMAIN body : body[k] = "="}
    IN  IF eq = {} THEN body ELSE Beyond(SubSeq(body, 1, Min(eq) - 1), {"_"})

\* What is not a pointer.
HumanizeBase(enc) ==
    CASE enc = <<>>      -> <<>>
      [] Head(enc) = "@" ->
            IF Len(enc) > 2 /\ enc[2] = Quote /\ enc[3] # Quote THEN <<enc[3], "*">>
            ELSE IF Len(enc) > 1 /\ enc[2] = "?" THEN <<"id", "block">> ELSE <<"id">>
      [] Head(enc) = "[" -> <<"array">> \o enc
      [] Head(enc) = "{" -> <<"struct">> \o StructName(SubSeq(enc, 2, Len(enc) - 1))
      [] Head(enc) = "(" -> <<"union">>
      [] Head(enc) = "b" -> <<"bits">>
      [] OTHER           -> <<Head(enc)>>   \* a C type each

Humanize(enc) ==
    LET base == Beyond(enc, {"^"})
    IN  HumanizeBase(base) \o [i \in 1..(Len(enc) - Len(base)) |-> "*"]

FormatType(enc) ==
    LET type == ParseOneType(enc).type
    IN  IF type = <<>> THEN <<"id">> ELSE Humanize(type)

\* The slice that leaves out the braces of a "{" alone begins past its end: a panic.
Aborts(enc) == Beyond(ParseOneType(enc).type, {"^"}) = <<"{">>

-----------------------------------------------------------------------------
(* The declarations.                                                        *)

\* The types are formatted one after another; a panic ends the program with nothing
\* of the declaration printed.
PrintTypes(types, declaration) ==
    /\ encStage = "splitting"
    /\ IF \E enc \in types : Aborts(enc)
       THEN encStage' = "aborted" /\ UNCHANGED printed
       ELSE encStage' = "printed" /\ printed' = declaration
    /\ UNCHANGED <<member, rest, split>>

\* split_method_types: the return type, whatever it is, and then an argument.
SplitNext ==
    /\ encStage = "splitting" /\ member.kind = "method"
    /\ rest # <<>> \/ split = <<>>
    /\ split = <<>> \/ ParseOneType(rest).type # <<>>
    /\ split' = Append(split, ParseOneType(rest).type)
    /\ rest' = Beyond(ParseOneType(rest).rest, Digits)
    /\ UNCHANGED <<member, printed, encStage>>

\* A selector asks for an argument at each colon, and for one after the last if more
\* of it follows.  The first two arguments of a method are self and _cmd.
Arguments(name) ==
    IF name.colons = 0 THEN 0 ELSE name.colons + (IF name.tail THEN 1 ELSE 0)

\* The places of the types that are declared.
Asked(name) == {1} \cup {i + 3 : i \in 1..Arguments(name)}

Declaration(types, name) ==
    [type |-> FormatType(types[1]),
     args |-> [i \in 1..Arguments(name) |->
                  IF i + 3 \in DOMAIN types THEN FormatType(types[i + 3]) ELSE <<"id">>]]

\* format_method_decl
PrintMethod ==
    /\ member.kind = "method" /\ split # <<>>
    /\ rest = <<>> \/ ParseOneType(rest).type = <<>>
    /\ PrintTypes({split[n] : n \in Asked(member.name) \cap DOMAIN split},
                  Declaration(split, member.name))

\* format_ivar_decl
PrintIvar ==
    /\ member.kind = "ivar"
    /\ PrintTypes({member.text}, [type |-> FormatType(member.text)])

SplitAtCommas(s) ==
    LET ends == {k \in DOMAIN s : s[k] = ","} \cup {Len(s) + 1}
        at == SetToSortSeq(ends, <)
    IN  [k \in DOMAIN at |-> SubSeq(s, IF k = 1 THEN 1 ELSE at[k - 1] + 1, at[k] - 1)]

\* What an attribute other than the type adds, if it is one that is known.
Flag(part) ==
    IF part \in {<<"R">>, <<"C">>, <<"&">>, <<"W">>, <<"N">>} THEN part
    ELSE IF part # <<>> /\ part[1] \in {"G", "S"} THEN <<part[1]>>
    ELSE <<>>

\* The places of the attributes that are types, of which the last counts.
Typed(parts) == {k \in DOMAIN parts : parts[k] # <<>> /\ parts[k][1] = "T"}

ParsePropertyAttrs(parts) ==
    LET typed == Typed(parts)
    IN  [type  |-> IF typed = {} THEN <<"id">> ELSE FormatType(Tail(parts[Max(typed)])),
         flags |-> FlattenSeq([k \in DOMAIN parts |-> Flag(parts[k])])]

\* format_property_decl
PrintProperty ==
    /\ member.kind = "property"
    /\ LET parts == SplitAtCommas(member.text)
       IN  PrintTypes({Tail(parts[k]) : k \in Typed(parts)}, ParsePropertyAttrs(parts))

EncNext == SplitNext \/ PrintMethod \/ PrintIvar \/ PrintProperty

-----------------------------------------------------------------------------
(* What compilers encode (external).                                        *)

RECURSIVE Encoding(_)
Encoding(t) ==
    LET inside == FlattenSeq([i \in DOMAIN t.of |-> Encoding(t.of[i])])
    IN  CASE t.is = "object"  -> <<"@">> \o IF t.tag = <<>> THEN <<>> ELSE <<Quote>> \o t.tag \o <<Quote>>
          [] t.is = "block"   -> <<"@", "?">>
          [] t.is = "pointer" -> <<"^">> \o inside
          [] t.is = "const"   -> <<"r">> \o inside
          [] t.is = "array"   -> <<"[", "8">> \o inside \o <<"]">>
          [] t.is = "struct"  -> <<"{">> \o t.tag \o <<"=">> \o inside \o <<"}">>
          [] t.is = "opaque"  -> <<"{">> \o t.tag \o <<"}">>
          [] t.is = "union"   -> <<"(">> \o t.tag \o <<"=">> \o inside \o <<")">>
          [] t.is = "bits"    -> <<"b", "8">>
          [] OTHER            -> t.tag

\* Every type of a method is followed by where it is passed.
MethodText(types) == FlattenSeq([i \in DOMAIN types |-> Encoding(types[i]) \o <<"0">>])

PropertyText(type, attributes) ==
    <<"T">> \o Encoding(type) \o FlattenSeq([i \in DOMAIN attributes |-> <<",">> \o attributes[i]])

-----------------------------------------------------------------------------
(* Properties.                                                              *)

\* The declaration of a type.  Underscores before the name of a struct are dropped.
RECURSIVE Declared(_)
Declared(t) ==
    CASE t.is = "object"  -> IF t.tag = <<>> THEN <<"id">> ELSE t.tag \o <<"*">>
      [] t.is = "block"   -> <<"id", "block">>
      [] t.is = "pointer" -> Declared(t.of[1]) \o <<"*">>
      [] t.is = "const"   -> Declared(t.of[1])
      [] t.is = "array"   -> <<"array">> \o Encoding(t)
      [] t.is = "struct"  -> <<"struct">> \o SelectSeq(t.tag, LAMBDA c : c # "_")
      [] t.is = "opaque"  -> <<"struct">> \o t.tag
      [] t.is = "union"   -> <<"union">>
      [] t.is = "bits"    -> <<"bits">>
      [] OTHER            -> t.tag

\* An array of arrays, or of structs with arrays in them: it is taken to end where
\* the first of these does.
RECURSIVE EndsEarly(_)
EndsEarly(t) ==
    \/ t.is = "array" /\ Len(SelectSeq(Encoding(t), LAMBDA c : c = "]")) > 1
    \/ t.is \in {"pointer", "const"} /\ EndsEarly(t.of[1])

\* What of the text of a member precedes its n-th type.
Preceding(m, n) ==
    (IF m.kind = "property" THEN 1 ELSE 0) + Len(MethodText(SubSeq(m.types, 1, n - 1)))

\* The types of a member up to the first that ends early or that the text does not
\* have in full.
Intact(m) ==
    {n \in DOMAIN m.types : /\ Preceding(m, n) + Len(Encoding(m.types[n])) <= Len(m.text)
                            /\ \A k \in 1..n : ~EndsEarly(m.types[k])}

\* The text ends with the brace that opens the n-th type, or what it points to.
EndsAtBrace(m, n) ==
    LET enc == Encoding(m.types[n])
        opens == Beyond(enc, {"^", "r"})
    IN  /\ opens # <<>> /\ Head(opens) = "{"
        /\ Len(m.text) = Preceding(m, n) + Len(enc) - Len(opens) + 1

Declares(m) == IF m.kind = "method" THEN Asked(m.name) \cap DOMAIN m.types ELSE {1}

\* A member is declared with the types and in the places in which it was encoded,
\* whatever they are nested in; an encoding that is cut short, or a type that ends
\* early, does not shift or change what comes before it; of the properties only
\* those whose type has a comma in it lose it.  One cut loses all of it: if the last
\* character left is the brace that opens a type which is declared, and only then,
\* the program ends in a panic instead (the slice of encode.rs:148).
DeclaresWhatWasEncoded ==
    /\ (encStage \in {"printed", "aborted"} /\ \A n \in DOMAIN member.types : ~EndsEarly(member.types[n]))
       => (encStage = "aborted" <=> \E n \in Declares(member) : EndsAtBrace(member, n))
    /\ encStage = "printed" =>
        /\ member.kind = "method" =>
            /\ 1 \in Intact(member) => printed.type = Declared(member.types[1])
            /\ DOMAIN printed.args = 1..Arguments(member.name)
            /\ \A i \in DOMAIN printed.args :
                i + 3 \in Intact(member) => printed.args[i] = Declared(member.types[i + 3])
            /\ Intact(member) = DOMAIN member.types =>
                \A i \in DOMAIN printed.args :
                    i + 3 \notin Intact(member) => printed.args[i] = <<"id">>
        /\ (member.kind = "ivar" /\ 1 \in Intact(member)) => printed.type = Declared(member.types[1])
        /\ (member.kind = "property" /\ 1 \in Intact(member)) =>
            LET type == member.types[1]
                flags == FlattenSeq([i \in DOMAIN member.attributes |-> <<member.attributes[i][1]>>])
            IN  "," \notin Range(Encoding(type)) =>
                    /\ printed.type = Declared(type)
                    /\ printed.flags = SelectSeq(flags, LAMBDA f : f \notin {"D", "V"})
=============================================================================
