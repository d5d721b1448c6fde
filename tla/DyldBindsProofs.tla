-------------------------- MODULE DyldBindsProofs ---------------------------
(***************************************************************************)
(* Theorems about the register machine of the bind tables, for all tables.  *)
(***************************************************************************)
EXTENDS DyldBinds, SequenceTheorems, WellFoundedInduction, TLAPS

Registers == [seg : 0..15, off : 0..(Width - 1), lib : Int, symbol : STRING,
              flags : 0..15, addend : Int, type : 0..15]

\* What the bind opcodes multiply.
LEMMA Product == ASSUME NEW a \in Nat, NEW b \in Nat PROVE a * b \in Nat
    OBVIOUS

\* The segment offset that a sum comes down to.
LEMMA Remainder == ASSUME NEW a \in Nat PROVE a % Width \in 0..(Width - 1)
    BY WidthAssumption

\* What a listed entry is made of.
LEMMA EntriesAre ==
    /\ \A r, k : r \in Registers /\ k \in DOMAIN Kinds => BindEntry(r, k) \in Entries
    /\ \A r : <<r, "bind">> \in Entries <=> r \in Registers
<1>1. Range(Kinds) = {"bind", "lazy", "weak"} /\ DOMAIN Kinds = 1..3
      /\ \A k \in 1..3 : Kinds[k] \in Range(Kinds)
    BY DEF Kinds, Range
<1> QED
    BY <1>1 DEF Entries, Registers, BindEntry

\* The registers at the start of a table.
LEMMA ResetIsTyped == Reset \in Registers
    BY WidthAssumption, OperandsAssumption DEF Reset, Registers

\* Skipping forward leaves the segment offset within its width.
LEMMA AddIsTyped ==
    ASSUME NEW r \in Registers, NEW n \in Nat
    PROVE  Add(r, n) \in Registers
<1>1. r.off + n \in Nat
    BY WidthAssumption DEF Registers
<1>2. (r.off + n) % Width \in 0..(Width - 1)
    BY <1>1, Remainder
<1> QED
    BY <1>2 DEF Add, Registers

\* An opcode that sets a register sets it to what fits it.
LEMMA SetIsTyped ==
    ASSUME NEW r \in Registers, NEW o \in Opcodes, ~Truncated(o)
    PROVE  Set(r, o) \in Registers
<1>1. o.imm \in 0..15
    BY OpcodesAssumption
<1>2. CASE o.op = "SET_DYLIB_ORDINAL_IMM"
    BY <1>1, <1>2 DEF Set, Registers
<1>3. CASE o.op = "SET_DYLIB_ORDINAL_ULEB"
    BY <1>3, OperandsAssumption DEF Set, Registers
<1>4. CASE o.op = "SET_DYLIB_SPECIAL_IMM"
    BY <1>1, <1>4 DEF Set, Registers
<1>5. CASE o.op = "SET_SYMBOL_TRAILING_FLAGS_IMM"
    BY <1>1, <1>5, OperandsAssumption DEF Set, Registers
<1>6. CASE o.op = "SET_TYPE_IMM"
    BY <1>1, <1>6 DEF Set, Registers
<1>7. CASE o.op = "SET_ADDEND_SLEB"
    BY <1>7, OperandsAssumption DEF Set, Registers
<1>8. CASE o.op = "SET_SEGMENT_AND_OFFSET_ULEB"
    BY <1>1, <1>8, OperandsAssumption DEF Set, Registers
<1> QED
    BY <1>2, <1>3, <1>4, <1>5, <1>6, <1>7, <1>8 DEF Set

\* What a bind opcode skips and how often it binds.
LEMMA PaceIsTyped ==
    ASSUME NEW o \in Opcodes, ~Truncated(o), Binds(o.op)
    PROVE  Pace(o) \in Nat /\ Times(o) \in Nat
<1>1. o.imm \in Nat /\ PtrSize \in Nat
    BY OpcodesAssumption, WidthAssumption
<1>2. o.imm * PtrSize \in Nat
    BY <1>1, Product
<1>3. CASE o.op = "DO_BIND"
    BY <1>1, <1>3 DEF Pace, Times
<1>4. CASE o.op = "DO_BIND_ADD_ADDR_ULEB"
    BY <1>1, <1>4, OperandsAssumption DEF Pace, Times
<1>5. CASE o.op = "DO_BIND_ADD_ADDR_IMM_SCALED"
    BY <1>1, <1>2, <1>5 DEF Pace, Times
<1>6. CASE o.op = "DO_BIND_ULEB_TIMES_SKIPPING_ULEB"
    BY <1>1, <1>6, OperandsAssumption DEF Pace, Times
<1> QED
    BY <1>3, <1>4, <1>5, <1>6 DEF Binds

-----------------------------------------------------------------------------
(* The invariant.                                                           *)

Ends(o) == Truncated(o) \/ o.op \in {"DONE", "UNKNOWN"}

\* A table that is being read has come to no end yet, and the later ones have not been
\* looked at.
BindInv ==
    /\ TypeOK
    /\ FailsOnlyWhenCutShort
    /\ out \in Seq(Entries) /\ all \in Seq(Entries)
    /\ data \in [1..3 -> Seq(Opcodes)]
    /\ status = "running" => \A i \in DOMAIN data[kind] : ~Ends(data[kind][i])
    /\ status = "running" => \A k \in 1..3 : k > kind => data[k] = <<>>

\* The lists hold entries of which every part is of its type.
LEMMA RangesAreTyped ==
    ASSUME out \in Seq(Entries), all \in Seq(Entries)
    PROVE  Range(all) \cup Range(out) \subseteq Entries
    BY DEF Range

\* binds() begins with the first table, or there are no tables.
LEMMA BindInit == Init => BindInv
<1> SUFFICES ASSUME Init PROVE BindInv
    OBVIOUS
<1>1. /\ kind = 1 /\ reg = Reset /\ out = <<>> /\ all = <<>> /\ status \in {"running", "ok"}
      /\ data = [k \in 1..3 |-> <<>>]
    BY DEF Init, Kinds
<1>2. out \in Seq(Entries) /\ all \in Seq(Entries) /\ <<>> \in Seq(Opcodes) /\ DOMAIN <<>> = {}
    BY <1>1
<1>3. TypeOK
    BY <1>1, <1>2, RangesAreTyped, ResetIsTyped, EntriesAre DEF TypeOK, Kinds
<1>4. FailsOnlyWhenCutShort
    BY <1>1, <1>2 DEF FailsOnlyWhenCutShort, Kinds
<1> QED
    BY <1>1, <1>2, <1>3, <1>4 DEF BindInv

-----------------------------------------------------------------------------
(* The steps.                                                               *)

\* What is known of the tables once an opcode has been read.
LEMMA OneMore ==
    ASSUME data \in [1..3 -> Seq(Opcodes)], kind \in 1..3, NEW o \in Opcodes,
           data' = [data EXCEPT ![kind] = Append(@, o)]
    PROVE  /\ data' \in [1..3 -> Seq(Opcodes)]
           /\ \A k \in 1..3 : k # kind => data'[k] = data[k]
           /\ Len(data'[kind]) = Len(data[kind]) + 1
           /\ DOMAIN data'[kind] = 1..(Len(data[kind]) + 1)
           /\ DOMAIN data[kind] = 1..Len(data[kind])
           /\ \A i \in DOMAIN data[kind] : data'[kind][i] = data[kind][i]
           /\ data'[kind][Len(data[kind]) + 1] = o
           /\ Len(data[kind]) \in Nat
<1>1. data[kind] \in Seq(Opcodes) /\ data'[kind] = Append(data[kind], o)
    OBVIOUS
<1>2. Append(data[kind], o) \in Seq(Opcodes)
    BY <1>1
<1>3. /\ data' \in [1..3 -> Seq(Opcodes)]
      /\ \A k \in 1..3 : k # kind => data'[k] = data[k]
    BY <1>2
<1> QED
    BY <1>1, <1>3

\* A register is set, or pointers are bound: the table goes on.
LEMMA GoesOn ==
    ASSUME BindInv, status = "running", NEW o \in Opcodes, ~Ends(o),
           data' = [data EXCEPT ![kind] = Append(@, o)],
           reg' \in Registers, out' \in Seq(Entries), all' = all,
           kind' = kind, status' = status
    PROVE  BindInv'
<1>1. kind \in 1..3 /\ DOMAIN Kinds = 1..3 /\ data \in [1..3 -> Seq(Opcodes)]
    BY DEF BindInv, TypeOK, Kinds
<1>2. /\ data' \in [1..3 -> Seq(Opcodes)]
      /\ \A k \in 1..3 : k # kind => data'[k] = data[k]
      /\ DOMAIN data'[kind] = 1..(Len(data[kind]) + 1)
      /\ DOMAIN data[kind] = 1..Len(data[kind])
      /\ \A i \in DOMAIN data[kind] : data'[kind][i] = data[kind][i]
      /\ data'[kind][Len(data[kind]) + 1] = o
      /\ Len(data[kind]) \in Nat
    BY <1>1, OneMore
<1>3. out' \in Seq(Entries) /\ all' \in Seq(Entries)
    BY DEF BindInv
<1>4. Range(all') \cup Range(out') \subseteq Entries
    BY <1>3 DEF Range
<1>5. TypeOK'
    BY <1>1, <1>4, EntriesAre DEF TypeOK, Kinds
<1>6. \A i \in DOMAIN data'[kind] : ~Ends(data'[kind][i])
    BY <1>2 DEF BindInv
<1>7. \A k \in 1..3 : k > kind => data'[k] = <<>>
    BY <1>1, <1>2 DEF BindInv
<1>8. FailsOnlyWhenCutShort'
  <2>1. ASSUME NEW k \in 1..3, NEW i \in DOMAIN data'[k]
        PROVE  /\ ~Truncated(data'[k][i])
               /\ data'[k][i].op \in {"DONE", "UNKNOWN"} => i = Len(data'[k])
    <3>1. CASE k = kind
        BY <1>6, <2>1, <3>1 DEF Ends
    <3>2. CASE k # kind
        BY <1>1, <1>2, <2>1, <3>2 DEF BindInv, FailsOnlyWhenCutShort
    <3> QED
        BY <3>1, <3>2
  <2> QED
      BY <1>1, <2>1 DEF FailsOnlyWhenCutShort
<1> QED
    BY <1>2, <1>3, <1>5, <1>6, <1>7, <1>8 DEF BindInv

\* A table ends, at an opcode that ends it or where its bytes end.
LEMMA TableEnds ==
    ASSUME BindInv, status = "running", EndTable,
           \/ data' = data
           \/ \E o \in Opcodes : /\ ~Truncated(o)
                                 /\ data' = [data EXCEPT ![kind] = Append(@, o)]
    PROVE  BindInv'
<1>1. kind \in 1..3 /\ DOMAIN Kinds = 1..3 /\ Len(Kinds) = 3
      /\ data \in [1..3 -> Seq(Opcodes)]
    BY DEF BindInv, TypeOK, Kinds
<1>2. out' = <<>> /\ reg' \in Registers /\ all' = all \o out
    BY ResetIsTyped DEF EndTable
<1>3. all' \in Seq(Entries) /\ out' \in Seq(Entries)
    BY <1>2, ConcatProperties DEF BindInv
<1>4. \/ kind < 3 /\ kind' = kind + 1 /\ status' = "running"
      \/ kind = 3 /\ kind' = 3 /\ status' = "ok"
    BY <1>1 DEF EndTable
<1>5. Range(all') \cup Range(out') \subseteq Entries
    BY <1>3 DEF Range
<1>6. TypeOK'
    BY <1>1, <1>2, <1>4, <1>5, EntriesAre DEF TypeOK, Kinds
<1>7. /\ data' \in [1..3 -> Seq(Opcodes)]
      /\ \A k \in 1..3 : k # kind => data'[k] = data[k]
      /\ \A i \in DOMAIN data'[kind] :
            /\ ~Truncated(data'[kind][i])
            /\ data'[kind][i].op \in {"DONE", "UNKNOWN"} => i = Len(data'[kind])
  <2>1. \A i \in DOMAIN data[kind] : ~Ends(data[kind][i])
      BY DEF BindInv
  <2>2. CASE data' = data
      BY <1>1, <2>1, <2>2 DEF Ends
  <2>3. ASSUME NEW o \in Opcodes, ~Truncated(o),
               data' = [data EXCEPT ![kind] = Append(@, o)]
        PROVE  <1>7
    <3>1. /\ data' \in [1..3 -> Seq(Opcodes)]
          /\ \A k \in 1..3 : k # kind => data'[k] = data[k]
          /\ Len(data'[kind]) = Len(data[kind]) + 1
          /\ DOMAIN data'[kind] = 1..(Len(data[kind]) + 1)
          /\ DOMAIN data[kind] = 1..Len(data[kind])
          /\ \A i \in DOMAIN data[kind] : data'[kind][i] = data[kind][i]
          /\ data'[kind][Len(data[kind]) + 1] = o
          /\ Len(data[kind]) \in Nat
        BY <1>1, <2>3, OneMore
    <3> QED
        BY <2>1, <2>3, <3>1 DEF Ends
  <2> QED
      BY <2>2, <2>3
<1>8. FailsOnlyWhenCutShort'
  <2>1. ASSUME NEW k \in 1..3, NEW i \in DOMAIN data'[k]
        PROVE  /\ ~Truncated(data'[k][i])
               /\ data'[k][i].op \in {"DONE", "UNKNOWN"} => i = Len(data'[k])
    <3>1. CASE k = kind
        BY <1>7, <2>1, <3>1
    <3>2. CASE k # kind
        BY <1>1, <1>7, <2>1, <3>2 DEF BindInv, FailsOnlyWhenCutShort
    <3> QED
        BY <3>1, <3>2
  <2> QED
      BY <1>1, <1>4, <2>1 DEF FailsOnlyWhenCutShort
<1>9. status' = "running" =>
        /\ \A i \in DOMAIN data'[kind'] : ~Ends(data'[kind'][i])
        /\ \A k \in 1..3 : k > kind' => data'[k] = <<>>
  <2>1. \A k \in 1..3 : k > kind => data'[k] = <<>>
      BY <1>1, <1>7 DEF BindInv
  <2> QED
      BY <1>1, <1>4, <2>1
<1> QED
    BY <1>3, <1>6, <1>7, <1>8, <1>9 DEF BindInv

\* An opcode is cut short, or the table is not in the file.
LEMMA BindsFail ==
    ASSUME BindInv, status = "running", Fail,
           \/ data' = data /\ data[kind] = <<>>
           \/ \E o \in Opcodes : /\ Truncated(o)
                                 /\ data' = [data EXCEPT ![kind] = Append(@, o)]
    PROVE  BindInv'
<1>1. kind \in 1..3 /\ DOMAIN Kinds = 1..3 /\ data \in [1..3 -> Seq(Opcodes)]
    BY DEF BindInv, TypeOK, Kinds
<1>2. /\ out' = <<>> /\ all' = <<>> /\ reg' = Reset /\ reg' \in Registers
      /\ kind' = kind /\ status' = "error"
    BY ResetIsTyped DEF Fail
<1>3. out' \in Seq(Entries) /\ all' \in Seq(Entries)
    BY <1>2
<1>4. Range(all') \cup Range(out') \subseteq Entries
    BY <1>3 DEF Range
<1>5. TypeOK'
    BY <1>1, <1>2, <1>4, EntriesAre DEF TypeOK, Kinds
<1>6. /\ data' \in [1..3 -> Seq(Opcodes)]
      /\ data'[kind] = <<>> \/ Truncated(Last(data'[kind]))
      /\ \A k \in 1..3 : k # kind => data'[k] = data[k]
      /\ \A i \in DOMAIN data'[kind] :
            /\ Truncated(data'[kind][i]) => i = Len(data'[kind])
            /\ data'[kind][i].op \in {"DONE", "UNKNOWN"} => i = Len(data'[kind])
  <2>1. \A i \in DOMAIN data[kind] : ~Ends(data[kind][i])
      BY DEF BindInv
  <2>2. CASE data' = data /\ data[kind] = <<>>
      BY <1>1, <2>1, <2>2 DEF Ends
  <2>3. ASSUME NEW o \in Opcodes, Truncated(o),
               data' = [data EXCEPT ![kind] = Append(@, o)]
        PROVE  <1>6
    <3>1. /\ data' \in [1..3 -> Seq(Opcodes)]
          /\ \A k \in 1..3 : k # kind => data'[k] = data[k]
          /\ Len(data'[kind]) = Len(data[kind]) + 1
          /\ DOMAIN data'[kind] = 1..(Len(data[kind]) + 1)
          /\ DOMAIN data[kind] = 1..Len(data[kind])
          /\ \A i \in DOMAIN data[kind] : data'[kind][i] = data[kind][i]
          /\ data'[kind][Len(data[kind]) + 1] = o
          /\ Len(data[kind]) \in Nat
        BY <1>1, <2>3, OneMore
    <3>2. Truncated(Last(data'[kind]))
        BY <2>3, <3>1 DEF Last
    <3>3. ASSUME NEW i \in DOMAIN data'[kind], i # Len(data'[kind])
          PROVE  ~Truncated(data'[kind][i]) /\ data'[kind][i].op \notin {"DONE", "UNKNOWN"}
      <4>1. i \in DOMAIN data[kind]
          BY <3>1, <3>3
      <4> QED
          BY <2>1, <3>1, <4>1 DEF Ends
    <3> QED
        BY <3>1, <3>2, <3>3
  <2> QED
      BY <2>2, <2>3
<1>7. FailsOnlyWhenCutShort'
  <2>1. ASSUME NEW k \in 1..3, NEW i \in DOMAIN data'[k]
        PROVE  /\ Truncated(data'[k][i]) => k = kind /\ i = Len(data'[k])
               /\ data'[k][i].op \in {"DONE", "UNKNOWN"} => i = Len(data'[k])
    <3>1. CASE k = kind
        BY <1>6, <2>1, <3>1
    <3>2. CASE k # kind
        BY <1>1, <1>6, <2>1, <3>2 DEF BindInv, FailsOnlyWhenCutShort
    <3> QED
        BY <3>1, <3>2
  <2> QED
      BY <1>1, <1>2, <1>6, <2>1 DEF FailsOnlyWhenCutShort
<1> QED
    BY <1>2, <1>3, <1>5, <1>6, <1>7 DEF BindInv

\* Every opcode, and every end of a table, keeps the invariant.
LEMMA BindStep == BindInv /\ [Next]_vars => BindInv'
<1> SUFFICES ASSUME BindInv, [Next]_vars PROVE BindInv'
    OBVIOUS
<1>1. /\ kind \in DOMAIN Kinds /\ reg \in Registers
      /\ out \in Seq(Entries) /\ all \in Seq(Entries)
    BY EntriesAre DEF BindInv, TypeOK
<1>2. ASSUME NEW o \in Opcodes, ReadOpcode(o)
      PROVE  BindInv'
  <2>1. status = "running" /\ data' = [data EXCEPT ![kind] = Append(@, o)]
      BY <1>2 DEF ReadOpcode
  <2>2. CASE Truncated(o)
    <3>1. Fail
        BY <1>2, <2>2 DEF ReadOpcode
    <3> QED
        BY <2>1, <2>2, <3>1, BindsFail
  <2>3. CASE ~Truncated(o) /\ SetRegister(o)
    <3>1. reg' \in Registers /\ ~Ends(o)
        BY <1>1, <2>3, SetIsTyped DEF SetRegister, Ends
    <3>2. kind' = kind /\ out' = out /\ all' = all /\ status' = status
        BY <2>3 DEF SetRegister
    <3> QED
        BY <1>1, <2>1, <3>1, <3>2, GoesOn
  <2>4. CASE ~Truncated(o) /\ AddAddr(o)
    <3>1. o.args[1] \in Nat /\ ~Ends(o)
        BY <2>4, OperandsAssumption DEF AddAddr, Ends
    <3>2. reg' \in Registers
        BY <1>1, <2>4, <3>1, AddIsTyped DEF AddAddr
    <3>3. kind' = kind /\ out' = out /\ all' = all /\ status' = status
        BY <2>4 DEF AddAddr
    <3> QED
        BY <1>1, <2>1, <3>1, <3>2, <3>3, GoesOn
  <2>5. CASE ~Truncated(o) /\ DoBind(o)
    <3>1. Pace(o) \in Nat /\ Times(o) \in Nat /\ ~Ends(o)
        BY <2>5, PaceIsTyped DEF DoBind, Binds, Ends
    <3>2. ASSUME NEW n \in Nat
          PROVE  Add(reg, n * Pace(o)) \in Registers
      <4>1. n * Pace(o) \in Nat
          BY <3>1, Product
      <4> QED
          BY <1>1, <4>1, AddIsTyped
    <3>3. [i \in 1..Times(o) |-> BindEntry(Add(reg, (i - 1) * Pace(o)), kind)] \in Seq(Entries)
      <4>1. ASSUME NEW i \in 1..Times(o)
            PROVE  BindEntry(Add(reg, (i - 1) * Pace(o)), kind) \in Entries
        <5>1. i - 1 \in Nat
            BY <3>1
        <5>2. Add(reg, (i - 1) * Pace(o)) \in Registers
            BY <3>2, <5>1
        <5> QED
            BY <1>1, <5>2, EntriesAre
      <4> QED
          BY <3>1, <4>1
    <3>4. out' \in Seq(Entries)
        BY <1>1, <2>5, <3>3, ConcatProperties DEF DoBind
    <3>5. reg' \in Registers
        BY <2>5, <3>1, <3>2 DEF DoBind
    <3>6. kind' = kind /\ all' = all /\ status' = status
        BY <2>5 DEF DoBind
    <3> QED
        BY <2>1, <3>1, <3>4, <3>5, <3>6, GoesOn
  <2>6. CASE ~Truncated(o) /\ EndTable
      BY <2>1, <2>6, TableEnds
  <2> QED
      BY <1>2, <2>2, <2>3, <2>4, <2>5, <2>6 DEF ReadOpcode
<1>3. CASE EndOfData
    BY <1>3, TableEnds DEF EndOfData
<1>4. CASE SliceFails
    BY <1>4, BindsFail DEF SliceFails
<1>5. CASE UNCHANGED vars
    BY <1>5 DEF vars, BindInv, TypeOK, FailsOnlyWhenCutShort
<1> QED
    BY <1>2, <1>3, <1>4, <1>5 DEF Next

\* Whatever the tables hold and however long they are, the segment offset stays
\* within its width, every entry listed is well formed, and an error leaves no
\* entry behind.
THEOREM BindsAreTyped == Spec => []TypeOK
<1>1. BindInv => TypeOK
    BY DEF BindInv
<1> QED
    BY <1>1, BindInit, BindStep, PTL DEF Spec

\* binds() returns an error exactly when it reaches an opcode that is cut short
\* or a table that is not in the file, and reads nothing behind the end of a table.
THEOREM FailsExactlyWhenCutShort == Spec => []FailsOnlyWhenCutShort
<1>1. BindInv => FailsOnlyWhenCutShort
    BY DEF BindInv
<1> QED
    BY <1>1, BindInit, BindStep, PTL DEF Spec

-----------------------------------------------------------------------------
(* Numbers and sequences.                                                   *)

\* A set of numbers that is not empty has a least one.
LEMMA LeastIsThere ==
    ASSUME NEW S \in SUBSET Nat, S # {}
    PROVE  Min(S) \in S /\ \A y \in S : Min(S) <= y
<1> DEFINE R == OpToRel(<, Nat)
<1>1. IsWellFoundedOn(R, Nat)
    BY NatLessThanWellFounded
<1>2. \A x, y \in Nat : x < y => <<x, y>> \in R
    BY DEF OpToRel
<1> HIDE DEF R
<1>3. PICK x \in S : \A y \in S : ~(<<y, x>> \in R)
    BY <1>1, WFMin
<1>4. \A y \in S : ~(y < x)
    BY <1>2, <1>3
<1>5. x \in S /\ \A y \in S : x <= y /\ x \in Nat /\ y \in Nat
    BY <1>3, <1>4
<1> QED
    BY <1>5 DEF Min

\* One that has a bound has a greatest one.
LEMMA GreatestIsThere ==
    ASSUME NEW S \in SUBSET Nat, S # {}, NEW b \in Nat, \A y \in S : y <= b
    PROVE  Max(S) \in S /\ \A y \in S : y <= Max(S)
<1> DEFINE bounds == {x \in Nat : \A y \in S : y <= x}
           m == Min(bounds)
<1>1. m \in bounds /\ \A x \in bounds : m <= x
  <2>1. bounds \in SUBSET Nat /\ b \in bounds
      OBVIOUS
  <2> HIDE DEF bounds
  <2> QED
      BY <2>1, LeastIsThere
<1> HIDE DEF m
<1>2. m \in Nat /\ \A y \in S : y <= m
    BY <1>1
<1>3. m \in S
  <2> SUFFICES ASSUME m \notin S PROVE FALSE
      OBVIOUS
  <2>1. PICK y \in S : TRUE
      OBVIOUS
  <2>2. \A z \in S : z <= m - 1
    <3> SUFFICES ASSUME NEW z \in S PROVE z <= m - 1
        OBVIOUS
    <3>1. z \in Nat /\ z <= m /\ z # m
        BY <1>2
    <3> QED
        BY <1>2, <3>1
  <2>3. y \in Nat /\ y <= m - 1
      BY <2>2
  <2>4. m - 1 \in bounds
      BY <1>2, <2>2, <2>3
  <2> QED
      BY <1>1, <1>2, <2>4
<1>4. \A y \in S : m >= y
    BY <1>2
<1>5. \A x \in S : (\A y \in S : x >= y) => x = m
    BY <1>2, <1>3, <1>4
<1>6. Max(S) = m
  <2>1. Max(S) = CHOOSE x \in S : \A y \in S : x >= y
      BY DEF Max
  <2> QED
      BY <1>3, <1>4, <1>5, <2>1
<1> QED
    BY <1>2, <1>3, <1>6

\* A multiple of something is not less than it.
LEMMA AtLeastOnce ==
    ASSUME NEW w \in Nat \ {0}, NEW d \in Nat \ {0}
    PROVE  w * d >= w
OBVIOUS

\* What is left over by a multiple does not depend on the multiple.
LEMMA OneRest ==
    ASSUME NEW w \in Nat \ {0}, NEW p \in Nat, NEW q \in Nat,
           NEW r \in 0..(w - 1), NEW s \in 0..(w - 1), w * p + r = w * q + s
    PROVE  r = s
<1>1. ASSUME NEW d \in Nat \ {0}, NEW m \in Nat, NEW x \in 0..(w - 1), NEW y \in 0..(w - 1),
             w * (m + d) + x = w * m + y
      PROVE  FALSE
  <2>1. w * (m + d) = w * m + w * d /\ w * d >= w
      BY AtLeastOnce
  <2> DEFINE a == w * m
             b == w * d
             c == w * (m + d)
  <2>2. a \in Nat /\ b \in Nat /\ b >= w /\ c = a + b /\ c + x = a + y
      BY <1>1, <2>1
  <2> HIDE DEF a, b, c
  <2> QED
      BY <2>2
<1>2. CASE p = q
    BY <1>2
<1>3. CASE p > q
  <2> DEFINE d == p - q
  <2>1. d \in Nat \ {0} /\ p = q + d
      BY <1>3
  <2> HIDE DEF d
  <2>2. w * (q + d) + r = w * q + s
      BY <2>1
  <2> QED
      BY <1>1, <2>1, <2>2
<1>4. CASE q > p
  <2> DEFINE d == q - p
  <2>1. d \in Nat \ {0} /\ q = p + d
      BY <1>4
  <2> HIDE DEF d
  <2>2. w * (p + d) + s = w * p + r
      BY <2>1
  <2> QED
      BY <1>1, <2>1, <2>2
<1> QED
    BY <1>2, <1>3, <1>4

\* What \div and % say of each other.
LEMMA Divided ==
    ASSUME NEW w \in Nat \ {0}, NEW a \in Nat
    PROVE  a = w * (a \div w) + (a % w) /\ a % w \in 0..(w - 1) /\ a \div w \in Nat
OBVIOUS

\* A sum wraps to the same whether its parts have wrapped before or not.
LEMMA WrapsOnce ==
    ASSUME NEW w \in Nat \ {0}, NEW a \in Nat, NEW b \in Nat
    PROVE  ((a % w) + b) % w = (a + b) % w
<1> DEFINE c == a + b
           q == a \div w
           r == a % w
           t == (r + b) \div w
           u == (r + b) % w
           v == c \div w
           z == c % w
<1>1. a = w * q + r /\ r \in 0..(w - 1) /\ q \in Nat
    BY Divided
<1>2. r + b = w * t + u /\ u \in 0..(w - 1) /\ t \in Nat
  <2>1. r + b \in Nat
      BY <1>1
  <2> HIDE DEF r
  <2> QED
      BY <2>1, Divided
<1>3. c \in Nat
    OBVIOUS
<1>4. c = w * v + z /\ z \in 0..(w - 1) /\ v \in Nat
  <2> HIDE DEF c
  <2> QED
      BY <1>3, Divided DEF v, z
<1>5. a + b = w * v + z /\ z \in 0..(w - 1) /\ v \in Nat
    BY <1>4
<1> HIDE DEF q, r, t, u, v, z
<1>6. w * (q + t) = w * q + w * t
    BY <1>1, <1>2
<1>7. w * (q + t) + u = w * v + z
  <2> DEFINE x == w * q
             y == w * t
             g == w * v
             h == w * (q + t)
  <2>1. x \in Nat /\ y \in Nat /\ g \in Nat
      BY <1>1, <1>2, <1>4
  <2>2. a = x + r /\ r + b = y + u /\ a + b = g + z /\ h = x + y
      BY <1>1, <1>2, <1>5, <1>6
  <2>3. r \in Nat /\ u \in Nat /\ z \in Nat
      BY <1>1, <1>2, <1>4
  <2>4. h + u = g + z
    <3> HIDE DEF x, y, g, h
    <3> QED
        BY <2>1, <2>2, <2>3
  <2> QED
      BY <2>4
<1>8. u = z
  <2>1. q + t \in Nat
      BY <1>1, <1>2
  <2> QED
      BY <1>2, <1>4, <1>7, <2>1, OneRest
<1> QED
    BY <1>8 DEF u, z, r, c

\* Induction, for a set of numbers.
LEMMA AllNumbers ==
    ASSUME NEW S \in SUBSET Nat, 0 \in S, \A n \in S : n + 1 \in S
    PROVE  \A n \in Nat : n \in S
<1> DEFINE rest == Nat \ S
           m == Min(rest)
<1> SUFFICES ASSUME rest # {} PROVE FALSE
    OBVIOUS
<1>1. m \in rest /\ \A y \in rest : m <= y
  <2>1. rest \in SUBSET Nat
      OBVIOUS
  <2> HIDE DEF rest
  <2> QED
      BY <2>1, LeastIsThere
<1> HIDE DEF m
<1>2. m \in Nat \ {0}
    BY <1>1
<1>3. m - 1 \in S
    BY <1>1, <1>2
<1>4. (m - 1) + 1 \in S /\ (m - 1) + 1 = m
    BY <1>2, <1>3
<1> QED
    BY <1>1, <1>4

-----------------------------------------------------------------------------
(* The recursive functions.  f holds the results for the first n places.    *)

Joins(f, s, n) == f = [i \in 1..n |-> IF i = 1 THEN s[i] ELSE f[i - 1] \o s[i]]

\* Two lists begin in the same way.
Same(s, t, l) == \A i \in 1..l : s[i] = t[i]

Sums(f, p, from, n) ==
    f = [j \in from..n |-> IF j > from THEN f[j - 1] + Skipped(p[j])
                           ELSE IF from = 0 THEN 0 ELSE p[from].args[1]]

\* The sequences that FlattenSeq joins on its way.
LEMMA JoinsAreThere ==
    ASSUME NEW s
    PROVE  \A n \in Nat : \E f : Joins(f, s, n)
<1> DEFINE S == {n \in Nat : \E f : Joins(f, s, n)}
<1>1. 0 \in S
  <2>1. Joins([i \in 1..0 |-> 0], s, 0)
      BY DEF Joins
  <2> QED
      BY <2>1
<1>2. ASSUME NEW n \in S
      PROVE  n + 1 \in S
  <2>1. n \in Nat
      OBVIOUS
  <2>2. PICK f : Joins(f, s, n)
      OBVIOUS
  <2> DEFINE g == [i \in 1..(n + 1) |->
                    IF i = n + 1 THEN (IF i = 1 THEN s[i] ELSE f[n] \o s[i]) ELSE f[i]]
             h == [i \in 1..(n + 1) |-> IF i = 1 THEN s[i] ELSE g[i - 1] \o s[i]]
  <2>3. ASSUME NEW i \in 1..(n + 1)
        PROVE  g[i] = h[i]
    <3>1. CASE i = n + 1
      <4>1. i # 1 => i - 1 = n /\ n \in 1..(n + 1) /\ n # n + 1
          BY <2>1, <3>1
      <4>2. i # 1 => g[i - 1] = f[n]
          BY <4>1
      <4> QED
          BY <3>1, <4>2
    <3>2. CASE i # n + 1
      <4>1. i \in 1..n /\ (i # 1 => i - 1 \in 1..(n + 1) /\ i - 1 # n + 1)
          BY <2>1, <3>2
      <4>2. f[i] = IF i = 1 THEN s[i] ELSE f[i - 1] \o s[i]
          BY <2>2, <4>1 DEF Joins
      <4>3. i # 1 => g[i - 1] = f[i - 1]
          BY <4>1
      <4> QED
          BY <3>2, <4>2, <4>3
    <3> QED
        BY <3>1, <3>2
  <2>4. g = h
    <3>1. DOMAIN g = 1..(n + 1) /\ DOMAIN h = 1..(n + 1)
        OBVIOUS
    <3>2. g = [i \in 1..(n + 1) |-> g[i]] /\ h = [i \in 1..(n + 1) |-> h[i]]
        OBVIOUS
    <3> HIDE DEF g, h
    <3> QED
        BY <2>3, <3>2
  <2>5. Joins(g, s, n + 1)
      BY <2>4 DEF Joins
  <2> HIDE DEF g
  <2> QED
      BY <2>1, <2>5
<1>3. S \in SUBSET Nat
    OBVIOUS
<1> HIDE DEF S
<1>4. \A n \in Nat : n \in S
    BY <1>1, <1>2, <1>3, AllNumbers
<1> QED
    BY <1>4 DEF S

\* Where two lists of sequences begin in the same way, so do those.
LEMMA JoinsAgree ==
    ASSUME NEW s, NEW t, NEW f, NEW g, NEW n \in Nat, NEW m \in Nat, NEW l \in Nat,
           Joins(f, s, n), Joins(g, t, m), l <= n, l <= m, Same(s, t, l)
    PROVE  \A i \in 1..l : f[i] = g[i]
<1> DEFINE S == {k \in Nat : k \in 1..l => f[k] = g[k]}
<1>1. S \in SUBSET Nat /\ 0 \in S
    OBVIOUS
<1>2. ASSUME NEW k \in S
      PROVE  k + 1 \in S
  <2> SUFFICES ASSUME k + 1 \in 1..l PROVE f[k + 1] = g[k + 1]
      OBVIOUS
  <2>1. k \in Nat /\ k + 1 \in 1..n /\ k + 1 \in 1..m /\ (k + 1) - 1 = k
        /\ s[k + 1] = t[k + 1] /\ (k + 1 # 1 => k \in 1..l)
      BY DEF Same
  <2>2. /\ f[k + 1] = IF k + 1 = 1 THEN s[k + 1] ELSE f[k] \o s[k + 1]
        /\ g[k + 1] = IF k + 1 = 1 THEN t[k + 1] ELSE g[k] \o t[k + 1]
      BY <2>1 DEF Joins
  <2>3. k + 1 # 1 => f[k] = g[k]
      BY <2>1
  <2> QED
      BY <2>1, <2>2, <2>3
<1> HIDE DEF S
<1>3. \A k \in Nat : k \in S
    BY <1>1, <1>2, AllNumbers
<1> QED
    BY <1>3 DEF S

\* FlattenSeq by the last of them.
LEMMA FlattenIs ==
    ASSUME NEW s, Len(s) \in Nat \ {0}
    PROVE  \E f : Joins(f, s, Len(s)) /\ FlattenSeq(s) = f[Len(s)]
<1> DEFINE f == CHOOSE g : Joins(g, s, Len(s))
<1>1. Joins(f, s, Len(s))
    BY JoinsAreThere
<1>2. FlattenSeq(s) = f[Len(s)]
    BY DEF FlattenSeq, Joins
<1> QED
    BY <1>1, <1>2

\* One more sequence is joined at the end.
LEMMA FlattenOneMore ==
    ASSUME NEW s, NEW t, NEW n \in Nat, Len(s) = n, Len(t) = n + 1,
           \A i \in 1..n : t[i] = s[i]
    PROVE  /\ n # 0 => FlattenSeq(t) = FlattenSeq(s) \o t[n + 1]
           /\ n = 0 => FlattenSeq(t) = t[1]
<1>1. PICK g : Joins(g, t, n + 1) /\ FlattenSeq(t) = g[n + 1]
  <2>1. Len(t) \in Nat \ {0}
      OBVIOUS
  <2> QED
      BY <2>1, FlattenIs
<1>2. g[n + 1] = IF n + 1 = 1 THEN t[n + 1] ELSE g[(n + 1) - 1] \o t[n + 1]
  <2>1. n + 1 \in 1..(n + 1)
      OBVIOUS
  <2> QED
      BY <1>1, <2>1 DEF Joins
<1>3. (n + 1) - 1 = n
    OBVIOUS
<1>4. CASE n = 0
    BY <1>1, <1>2, <1>4
<1>5. CASE n # 0
  <2>1. PICK f : Joins(f, s, n) /\ FlattenSeq(s) = f[n]
      BY <1>5, FlattenIs
  <2>2. n + 1 \in Nat /\ n <= n /\ n <= n + 1 /\ Same(t, s, n)
      BY DEF Same
  <2>3. \A i \in 1..n : g[i] = f[i]
      BY <1>1, <2>1, <2>2, JoinsAgree
  <2>4. g[n] = f[n]
      BY <1>5, <2>3
  <2>5. n + 1 # 1
      BY <1>5
  <2>6. g[n + 1] = g[n] \o t[n + 1]
      BY <1>2, <1>3, <2>5
  <2>7. FlattenSeq(t) = FlattenSeq(s) \o t[n + 1]
      BY <1>1, <2>1, <2>4, <2>6
  <2> QED
      BY <1>5, <2>7
<1> QED
    BY <1>4, <1>5

\* The offsets that OffsetFrom adds up on its way.
LEMMA SumsAreThere ==
    ASSUME NEW p, NEW from \in Nat
    PROVE  \A n \in Nat : \E f : Sums(f, p, from, n)
<1> DEFINE first == IF from = 0 THEN 0 ELSE p[from].args[1]
           S == {n \in Nat : \E f : Sums(f, p, from, n)}
<1>1. 0 \in S
  <2>1. Sums([j \in from..0 |-> first], p, from, 0)
    <3>1. \A j \in from..0 : ~(j > from)
        OBVIOUS
    <3> QED
        BY <3>1 DEF Sums
  <2> QED
      BY <2>1
<1>2. ASSUME NEW n \in S
      PROVE  n + 1 \in S
  <2>1. n \in Nat
      OBVIOUS
  <2>2. PICK f : Sums(f, p, from, n)
      OBVIOUS
  <2> HIDE DEF first
  <2> DEFINE g == [j \in from..(n + 1) |->
                    IF j = n + 1 THEN (IF j > from THEN f[n] + Skipped(p[j]) ELSE first)
                    ELSE f[j]]
             h == [j \in from..(n + 1) |->
                    IF j > from THEN g[j - 1] + Skipped(p[j]) ELSE first]
  <2>3. ASSUME NEW j \in from..(n + 1)
        PROVE  g[j] = h[j]
    <3>1. CASE j = n + 1
      <4>1. j > from => j - 1 = n /\ n \in from..(n + 1) /\ n # n + 1
          BY <2>1, <3>1
      <4>2. j > from => g[j - 1] = f[n]
          BY <4>1
      <4> QED
          BY <3>1, <4>2
    <3>2. CASE j # n + 1
      <4>1. j \in from..n /\ (j > from => j - 1 \in from..(n + 1) /\ j - 1 # n + 1)
          BY <2>1, <3>2
      <4>2. f[j] = IF j > from THEN f[j - 1] + Skipped(p[j]) ELSE first
          BY <2>2, <4>1 DEF Sums, first
      <4>3. j > from => g[j - 1] = f[j - 1]
          BY <4>1
      <4> QED
          BY <3>2, <4>2, <4>3
    <3> QED
        BY <3>1, <3>2
  <2>4. g = h
    <3>1. g = [j \in from..(n + 1) |-> g[j]] /\ h = [j \in from..(n + 1) |-> h[j]]
        OBVIOUS
    <3> HIDE DEF g, h
    <3> QED
        BY <2>3, <3>1
  <2>5. Sums(g, p, from, n + 1)
      BY <2>4 DEF Sums, first
  <2> HIDE DEF g
  <2> QED
      BY <2>1, <2>5
<1>3. S \in SUBSET Nat
    OBVIOUS
<1> HIDE DEF S
<1>4. \A n \in Nat : n \in S
    BY <1>1, <1>2, <1>3, AllNumbers
<1> QED
    BY <1>4 DEF S

\* Where two tables are the same, so are those.
LEMMA SumsAgree ==
    ASSUME NEW p, NEW q, NEW f, NEW g, NEW from \in Nat,
           NEW n \in Nat, NEW m \in Nat, NEW l \in Nat,
           Sums(f, p, from, n), Sums(g, q, from, m), l <= n, l <= m,
           Same(p, q, l)
    PROVE  \A j \in from..l : f[j] = g[j]
<1> DEFINE S == {k \in Nat : k \in from..l => f[k] = g[k]}
<1>1. ASSUME NEW k \in from..l
      PROVE  /\ f[k] = IF k > from THEN f[k - 1] + Skipped(p[k])
                       ELSE IF from = 0 THEN 0 ELSE p[from].args[1]
             /\ g[k] = IF k > from THEN g[k - 1] + Skipped(q[k])
                       ELSE IF from = 0 THEN 0 ELSE q[from].args[1]
  <2>1. k \in from..n /\ k \in from..m
      OBVIOUS
  <2> QED
      BY <2>1 DEF Sums
<1>2. from \in from..l => f[from] = g[from]
  <2>1. from \in from..l /\ from # 0 => from \in 1..l
      OBVIOUS
  <2>2. ~(from > from)
      OBVIOUS
  <2> QED
      BY <1>1, <2>1, <2>2 DEF Same
<1>3. S \in SUBSET Nat /\ 0 \in S
  <2>1. 0 \in from..l => from = 0
      OBVIOUS
  <2> QED
      BY <1>2, <2>1
<1>4. ASSUME NEW k \in S
      PROVE  k + 1 \in S
  <2> SUFFICES ASSUME k + 1 \in from..l PROVE f[k + 1] = g[k + 1]
      OBVIOUS
  <2>1. CASE k + 1 = from
      BY <1>2, <2>1
  <2>2. CASE k + 1 # from
    <3>1. k \in from..l /\ k + 1 > from /\ k + 1 \in 1..l /\ (k + 1) - 1 = k
        BY <2>2
    <3>2. f[k] = g[k] /\ p[k + 1] = q[k + 1]
        BY <3>1 DEF Same
    <3>3. f[k + 1] = f[k] + Skipped(p[k + 1]) /\ g[k + 1] = g[k] + Skipped(q[k + 1])
        BY <1>1, <3>1
    <3> QED
        BY <3>2, <3>3
  <2> QED
      BY <2>1, <2>2
<1> HIDE DEF S
<1>5. \A k \in Nat : k \in S
    BY <1>3, <1>4, AllNumbers
<1> QED
    BY <1>5 DEF S

\* OffsetFrom by the last of them.
LEMMA OffsetIs ==
    ASSUME NEW p, NEW from \in Nat, NEW n \in Nat
    PROVE  \E f : Sums(f, p, from, n) /\ OffsetFrom(p, from, n) = f[n]
<1> DEFINE f == CHOOSE g : Sums(g, p, from, n)
<1>1. Sums(f, p, from, n)
    BY SumsAreThere
<1>2. OffsetFrom(p, from, n) = f[n]
    BY DEF OffsetFrom, Sums
<1> QED
    BY <1>1, <1>2

\* An opcode adds what it skips, one that sets the offset has none before it, and later
\* opcodes do not matter.
LEMMA OffsetSteps ==
    ASSUME NEW p, NEW q, NEW n \in Nat, Same(q, p, n)
    PROVE  /\ \A from \in 0..n : OffsetFrom(q, from, n) = OffsetFrom(p, from, n)
           /\ \A from \in 0..n : OffsetFrom(q, from, n + 1) = OffsetFrom(p, from, n) + Skipped(q[n + 1])
           /\ OffsetFrom(q, n + 1, n + 1) = q[n + 1].args[1]
<1>1. n + 1 \in Nat /\ n <= n /\ n <= n + 1 /\ n + 1 # 0 /\ ~(n + 1 > n + 1) /\ ~(0 > 0)
      /\ Same(p, q, n)
    BY DEF Same
<1>3. ASSUME NEW from \in 0..n
      PROVE  OffsetFrom(q, from, n) = OffsetFrom(p, from, n)
  <2>3. PICK f : Sums(f, p, from, n) /\ OffsetFrom(p, from, n) = f[n]
      BY OffsetIs
  <2>1. PICK g : Sums(g, q, from, n) /\ OffsetFrom(q, from, n) = g[n]
      BY OffsetIs
  <2>2. \A j \in from..n : f[j] = g[j]
      BY <1>1, <2>1, <2>3, SumsAgree
  <2> QED
      BY <2>1, <2>2, <2>3
<1>4. ASSUME NEW from \in 0..n
      PROVE  OffsetFrom(q, from, n + 1) = OffsetFrom(p, from, n) + Skipped(q[n + 1])
  <2>5. PICK f : Sums(f, p, from, n) /\ OffsetFrom(p, from, n) = f[n]
      BY OffsetIs
  <2>1. PICK g : Sums(g, q, from, n + 1) /\ OffsetFrom(q, from, n + 1) = g[n + 1]
      BY <1>1, OffsetIs
  <2>2. \A j \in from..n : f[j] = g[j]
      BY <1>1, <2>1, <2>5, SumsAgree
  <2>3. n + 1 \in from..(n + 1) /\ n + 1 > from /\ (n + 1) - 1 = n /\ n \in from..n
      OBVIOUS
  <2>4. g[n + 1] = g[n] + Skipped(q[n + 1])
      BY <1>1, <2>1, <2>3 DEF Sums
  <2> QED
      BY <2>1, <2>2, <2>3, <2>4, <2>5
<1>5. OffsetFrom(q, n + 1, n + 1) = q[n + 1].args[1]
  <2>1. PICK g : Sums(g, q, n + 1, n + 1) /\ OffsetFrom(q, n + 1, n + 1) = g[n + 1]
      BY <1>1, OffsetIs
  <2>2. n + 1 \in (n + 1)..(n + 1)
      OBVIOUS
  <2> QED
      BY <1>1, <2>1, <2>2 DEF Sums
<1> QED
    BY <1>3, <1>4, <1>5

\* It begins with 0.
LEMMA OffsetBegins == ASSUME NEW p PROVE OffsetFrom(p, 0, 0) = 0
<1>1. PICK g : Sums(g, p, 0, 0) /\ OffsetFrom(p, 0, 0) = g[0]
    BY OffsetIs
<1>2. 0 \in 0..0 /\ ~(0 > 0)
    OBVIOUS
<1> QED
    BY <1>1, <1>2 DEF Sums

-----------------------------------------------------------------------------
(* What the opcodes say, one opcode after the other.                        *)

\* The last of the opcodes that set a register: one more opcode is it, or changes nothing.
LEMMA LastSteps ==
    ASSUME NEW p, NEW q, NEW n \in Nat, Same(q, p, n), NEW ops, NEW unset
    PROVE  /\ \A i \in 1..(n + 1) : LastSet(q, i, ops, unset) = LastSet(p, i, ops, unset)
           /\ LastSet(q, (n + 1) + 1, ops, unset) =
                IF q[n + 1].op \in ops THEN Set(Reset, q[n + 1])
                ELSE LastSet(p, n + 1, ops, unset)
<1>1. ASSUME NEW i \in 1..(n + 1)
      PROVE  LastSet(q, i, ops, unset) = LastSet(p, i, ops, unset)
  <2> DEFINE before == {j \in 1..(i - 1) : p[j].op \in ops}
  <2>1. \A j \in 1..(i - 1) : q[j] = p[j]
      BY DEF Same
  <2>2. {j \in 1..(i - 1) : q[j].op \in ops} = before
      BY <2>1
  <2>3. before # {} => q[Max(before)] = p[Max(before)]
    <3>1. ASSUME before # {} PROVE Max(before) \in before
      <4>1. before \in SUBSET Nat /\ i \in Nat /\ \A y \in before : y <= i
          OBVIOUS
      <4> HIDE DEF before
      <4> QED
          BY <3>1, <4>1, GreatestIsThere
    <3> QED
        BY <2>1, <3>1
  <2> QED
      BY <2>2, <2>3 DEF LastSet
<1>2. LastSet(q, (n + 1) + 1, ops, unset) =
        IF q[n + 1].op \in ops THEN Set(Reset, q[n + 1]) ELSE LastSet(p, n + 1, ops, unset)
  <2> DEFINE before == {j \in 1..(((n + 1) + 1) - 1) : q[j].op \in ops}
  <2>1. LastSet(q, (n + 1) + 1, ops, unset) = IF before = {} THEN unset ELSE Set(Reset, q[Max(before)])
      BY DEF LastSet
  <2>2. CASE q[n + 1].op \in ops
    <3>1. /\ before \in SUBSET Nat /\ n + 1 \in Nat /\ \A y \in before : y <= n + 1
          /\ n + 1 \in before
        BY <2>2
    <3>2. Max(before) = n + 1
      <4> HIDE DEF before
      <4>1. Max(before) \in before /\ \A y \in before : y <= Max(before)
          BY <3>1, GreatestIsThere
      <4>2. Max(before) \in Nat /\ n + 1 <= Max(before) /\ Max(before) <= n + 1
          BY <3>1, <4>1
      <4> QED
          BY <4>2
    <3>3. before # {}
        BY <3>1
    <3> HIDE DEF before
    <3> QED
        BY <2>1, <2>2, <3>2, <3>3
  <2>3. CASE q[n + 1].op \notin ops
    <3>1. before = {j \in 1..((n + 1) - 1) : q[j].op \in ops}
        BY <2>3
    <3>2. n + 1 \in 1..(n + 1)
        OBVIOUS
    <3>3. LastSet(q, n + 1, ops, unset) = LastSet(p, n + 1, ops, unset)
        BY <1>1, <3>2
    <3>4. LastSet(q, n + 1, ops, unset) = IF before = {} THEN unset ELSE Set(Reset, q[Max(before)])
        BY <3>1 DEF LastSet
    <3> QED
        BY <2>1, <2>3, <3>3, <3>4
  <2> QED
      BY <2>2, <2>3
<1> QED
    BY <1>1, <1>2

\* The offset likewise: one more opcode sets it, or adds to it.
LEMMA OffsetAtSteps ==
    ASSUME NEW p, NEW q, NEW n \in Nat, Same(q, p, n)
    PROVE  /\ \A i \in 1..(n + 1) : OffsetAt(q, i) = OffsetAt(p, i)
           /\ OffsetAt(q, (n + 1) + 1) =
                IF q[n + 1].op = "SET_SEGMENT_AND_OFFSET_ULEB" THEN q[n + 1].args[1]
                ELSE OffsetAt(p, n + 1) + Skipped(q[n + 1])
           /\ OffsetAt(p, 1) = 0
<1> DEFINE sets(r, i) == {j \in 1..(i - 1) : r[j].op = "SET_SEGMENT_AND_OFFSET_ULEB"}
           from(r, i) == Max(sets(r, i) \cup {0})
<1>1. \A r, i : OffsetAt(r, i) = OffsetFrom(r, from(r, i), i - 1)
    BY DEF OffsetAt
<1>2. ASSUME NEW r, NEW i \in Nat \ {0}
      PROVE  /\ from(r, i) \in sets(r, i) \cup {0} /\ from(r, i) \in 0..(i - 1)
             /\ \A y \in sets(r, i) : y <= from(r, i)
  <2> DEFINE these == sets(r, i) \cup {0}
  <2>1. these \in SUBSET Nat /\ these # {} /\ i - 1 \in Nat /\ \A y \in these : y <= i - 1
      OBVIOUS
  <2>2. Max(these) \in these /\ \A y \in these : y <= Max(these)
    <3> HIDE DEF these
    <3> QED
        BY <2>1, GreatestIsThere
  <2>3. Max(these) \in 0..(i - 1)
    <3>1. these \subseteq 0..(i - 1)
        OBVIOUS
    <3> HIDE DEF these
    <3> QED
        BY <2>2, <3>1
  <2> QED
      BY <2>2, <2>3
<1>3. /\ \A a \in 0..n : OffsetFrom(q, a, n + 1) = OffsetFrom(p, a, n) + Skipped(q[n + 1])
      /\ OffsetFrom(q, n + 1, n + 1) = q[n + 1].args[1]
    BY OffsetSteps
<1>4. ASSUME NEW i \in 1..(n + 1)
      PROVE  OffsetAt(q, i) = OffsetAt(p, i)
  <2>1. sets(q, i) = sets(p, i)
    <3>1. \A j \in 1..(i - 1) : q[j] = p[j]
        BY DEF Same
    <3> QED
        BY <3>1
  <2>2. from(q, i) = from(p, i) /\ from(p, i) \in 0..(i - 1)
    <3>1. i \in Nat \ {0}
        OBVIOUS
    <3> QED
        BY <1>2, <2>1, <3>1
  <2> HIDE DEF from
  <2>3. i - 1 \in Nat /\ from(p, i) \in Nat /\ from(p, i) <= i - 1 /\ Same(q, p, i - 1)
      BY <2>2 DEF Same
  <2>4. OffsetFrom(q, from(p, i), i - 1) = OffsetFrom(p, from(p, i), i - 1)
    <3>1. i - 1 \in Nat /\ from(p, i) \in 0..(i - 1) /\ Same(q, p, i - 1)
        BY <2>3
    <3>2. \A a \in 0..(i - 1) : OffsetFrom(q, a, i - 1) = OffsetFrom(p, a, i - 1)
      <4> SUFFICES ASSUME NEW m \in Nat, Same(q, p, m)
                   PROVE  \A a \in 0..m : OffsetFrom(q, a, m) = OffsetFrom(p, a, m)
          BY <3>1
      <4> QED
          BY OffsetSteps
    <3> QED
        BY <3>1, <3>2
  <2> QED
      BY <1>1, <2>2, <2>4
<1>5. OffsetAt(q, (n + 1) + 1) =
        IF q[n + 1].op = "SET_SEGMENT_AND_OFFSET_ULEB" THEN q[n + 1].args[1]
        ELSE OffsetAt(p, n + 1) + Skipped(q[n + 1])
  <2>1. (n + 1) + 1 \in Nat \ {0} /\ n + 1 \in Nat \ {0}
        /\ ((n + 1) + 1) - 1 = n + 1 /\ (n + 1) - 1 = n
      OBVIOUS
  <2>2. CASE q[n + 1].op = "SET_SEGMENT_AND_OFFSET_ULEB"
    <3>1. n + 1 \in sets(q, (n + 1) + 1)
        BY <2>1, <2>2
    <3>2. from(q, (n + 1) + 1) = n + 1
      <4>1. from(q, (n + 1) + 1) \in 0..(n + 1) /\ n + 1 <= from(q, (n + 1) + 1)
          BY <1>2, <2>1, <3>1
      <4> HIDE DEF from
      <4> QED
          BY <4>1
    <3> HIDE DEF from
    <3>3. OffsetFrom(q, n + 1, n + 1) = q[n + 1].args[1]
        BY <1>3
    <3> QED
        BY <1>1, <2>1, <2>2, <3>2, <3>3
  <2>3. CASE q[n + 1].op # "SET_SEGMENT_AND_OFFSET_ULEB"
    <3>1. sets(q, (n + 1) + 1) = sets(p, n + 1)
      <4>1. \A j \in 1..n : q[j] = p[j]
          BY DEF Same
      <4>2. sets(q, (n + 1) + 1) = {j \in 1..(n + 1) : q[j].op = "SET_SEGMENT_AND_OFFSET_ULEB"}
          BY <2>1
      <4>3. sets(p, n + 1) = {j \in 1..n : p[j].op = "SET_SEGMENT_AND_OFFSET_ULEB"}
          BY <2>1
      <4>4. \A j \in 1..(n + 1) : j # n + 1 => j \in 1..n
          OBVIOUS
      <4>5. \A j \in 1..n : j \in 1..(n + 1)
          OBVIOUS
      <4>6. {j \in 1..(n + 1) : q[j].op = "SET_SEGMENT_AND_OFFSET_ULEB"} =
              {j \in 1..n : p[j].op = "SET_SEGMENT_AND_OFFSET_ULEB"}
          BY ONLY <2>3, <4>1, <4>4, <4>5
      <4> HIDE DEF sets
      <4> QED
          BY <4>2, <4>3, <4>6
    <3>2. from(q, (n + 1) + 1) = from(p, n + 1) /\ from(p, n + 1) \in 0..n
        BY <1>2, <2>1, <3>1
    <3> HIDE DEF from
    <3>4. OffsetFrom(q, from(p, n + 1), n + 1) =
            OffsetFrom(p, from(p, n + 1), n) + Skipped(q[n + 1])
        BY <1>3, <3>2
    <3> QED
        BY <1>1, <2>1, <2>3, <3>2, <3>4
  <2> QED
      BY <2>2, <2>3
<1>6. OffsetAt(p, 1) = 0
  <2>1. from(p, 1) \in 0..(1 - 1)
    <3>1. 1 \in Nat \ {0}
        OBVIOUS
    <3> QED
        BY <1>2, <3>1
  <2> HIDE DEF from
  <2>2. from(p, 1) = 0 /\ 1 - 1 = 0
      BY <2>1
  <2> QED
      BY <1>1, <2>2, OffsetBegins
<1> QED
    BY <1>4, <1>5, <1>6

\* The registers that the opcodes of a table have set.
Held(p) ==
    LET i == Len(p) + 1
    IN  [seg    |-> LastSet(p, i, {"SET_SEGMENT_AND_OFFSET_ULEB"}, Reset).seg,
         off    |-> OffsetAt(p, i) % Width,
         lib    |-> LastSet(p, i, {"SET_DYLIB_ORDINAL_IMM", "SET_DYLIB_ORDINAL_ULEB",
                                   "SET_DYLIB_SPECIAL_IMM"}, Reset).lib,
         symbol |-> LastSet(p, i, {"SET_SYMBOL_TRAILING_FLAGS_IMM"}, Reset).symbol,
         flags  |-> LastSet(p, i, {"SET_SYMBOL_TRAILING_FLAGS_IMM"}, Reset).flags,
         addend |-> LastSet(p, i, {"SET_ADDEND_SLEB"}, Reset).addend,
         type   |-> LastSet(p, i, {"SET_TYPE_IMM"}, Reset).type]

\* What an opcode does to them.
Done(r, o) ==
    IF Binds(o.op) THEN Add(r, Times(o) * Pace(o))
    ELSE IF o.op = "ADD_ADDR_ULEB" THEN Add(r, o.args[1])
    ELSE Set(r, o)

\* What it lists.
Listed(r, o, k) ==
    IF Binds(o.op) THEN [n \in 1..Times(o) |-> BindEntry(Add(r, (n - 1) * Pace(o)), k)]
    ELSE <<>>

\* A table and the same with one more opcode.
LEMMA AppendIsSame ==
    ASSUME NEW p \in Seq(Opcodes), NEW o \in Opcodes
    PROVE  /\ Same(Append(p, o), p, Len(p)) /\ Append(p, o)[Len(p) + 1] = o
           /\ Len(Append(p, o)) = Len(p) + 1 /\ Len(p) \in Nat
           /\ DOMAIN p = 1..Len(p) /\ DOMAIN Append(p, o) = 1..(Len(p) + 1)
           /\ Append(p, o) \in Seq(Opcodes)
    BY DEF Same

\* No register is set at the start of a table.
LEMMA NothingHeld == Held(<<>>) = Reset /\ OffsetAt(<<>>, Len(<<>>) + 1) = 0
<1>1. Len(<<>>) + 1 = 1
    OBVIOUS
<1>2. Same(<<>>, <<>>, 0) /\ 0 \in Nat
    BY DEF Same
<1>3. OffsetAt(<<>>, 1) = 0
    BY <1>2, OffsetAtSteps
<1>4. \A ops : LastSet(<<>>, 1, ops, Reset) = Reset
  <2>1. \A ops : {j \in 1..(1 - 1) : <<>>[j].op \in ops} = {}
      OBVIOUS
  <2> QED
      BY <2>1 DEF LastSet
<1>5. 0 % Width = 0
    BY WidthAssumption
<1> QED
    BY <1>1, <1>3, <1>4, <1>5 DEF Held, Reset

\* A number below the width stays as it is.
LEMMA BelowWidth == \A a \in 0..(Width - 1) : a % Width = a
<1> SUFFICES ASSUME NEW a \in 0..(Width - 1) PROVE a % Width = a
    OBVIOUS
<1>1. a \in Nat /\ Width \in Nat \ {0}
    BY WidthAssumption
<1>2. a = Width * (a \div Width) + (a % Width) /\ a % Width \in 0..(Width - 1) /\ a \div Width \in Nat
    BY <1>1, Divided
<1> DEFINE q == a \div Width
           r == a % Width
<1>3. a = Width * q + r /\ q \in Nat /\ r \in 0..(Width - 1)
    BY <1>2
<1> HIDE DEF q, r
<1>4. Width * 0 + a = Width * q + r /\ 0 \in Nat
    BY <1>1, <1>3
<1>5. a = r
    BY <1>1, <1>3, <1>4, OneRest
<1> QED
    BY <1>5 DEF r

\* One more opcode does to them what it does to the registers of parse_bind_ops.
LEMMA HeldAfter ==
    ASSUME NEW p \in Seq(Opcodes), NEW o \in Opcodes, ~Truncated(o),
           OffsetAt(p, Len(p) + 1) \in Nat
    PROVE  /\ Held(Append(p, o)) = Done(Held(p), o)
           /\ OffsetAt(Append(p, o), Len(Append(p, o)) + 1) \in Nat
<1> DEFINE n == Len(p)
           q == Append(p, o)
           at == OffsetAt(p, n + 1)
           next == OffsetAt(q, (n + 1) + 1)
           now(ops) == LastSet(q, (n + 1) + 1, ops, Reset)
           was(ops) == LastSet(p, n + 1, ops, Reset)
           segs == {"SET_SEGMENT_AND_OFFSET_ULEB"}
           libs == {"SET_DYLIB_ORDINAL_IMM", "SET_DYLIB_ORDINAL_ULEB", "SET_DYLIB_SPECIAL_IMM"}
           symbols == {"SET_SYMBOL_TRAILING_FLAGS_IMM"}
           addends == {"SET_ADDEND_SLEB"}
           types == {"SET_TYPE_IMM"}
<1>1. Same(q, p, n) /\ q[n + 1] = o /\ Len(q) = n + 1 /\ n \in Nat
    BY AppendIsSame
<1>2. \A ops : now(ops) = IF o.op \in ops THEN Set(Reset, o) ELSE was(ops)
  <2> HIDE DEF q, n
  <2>1. ASSUME NEW ops
        PROVE  LastSet(q, (n + 1) + 1, ops, Reset) =
                 IF q[n + 1].op \in ops THEN Set(Reset, q[n + 1])
                 ELSE LastSet(p, n + 1, ops, Reset)
      BY ONLY <1>1, LastSteps
  <2> QED
      BY <1>1, <2>1
<1>3. next = IF o.op = "SET_SEGMENT_AND_OFFSET_ULEB" THEN o.args[1] ELSE at + Skipped(o)
  <2> HIDE DEF q, n
  <2>1. OffsetAt(q, (n + 1) + 1) =
          IF q[n + 1].op = "SET_SEGMENT_AND_OFFSET_ULEB" THEN q[n + 1].args[1]
          ELSE OffsetAt(p, n + 1) + Skipped(q[n + 1])
      BY ONLY <1>1, OffsetAtSteps
  <2> QED
      BY <1>1, <2>1
<1>4. Held(p) = [seg |-> was(segs).seg, off |-> at % Width, lib |-> was(libs).lib,
                 symbol |-> was(symbols).symbol, flags |-> was(symbols).flags,
                 addend |-> was(addends).addend, type |-> was(types).type]
    BY DEF Held
<1>5. Held(q) = [seg |-> now(segs).seg, off |-> next % Width, lib |-> now(libs).lib,
                 symbol |-> now(symbols).symbol, flags |-> now(symbols).flags,
                 addend |-> now(addends).addend, type |-> now(types).type]
    BY <1>1 DEF Held
<1>6. at \in Nat /\ Width \in Nat \ {0}
    BY WidthAssumption
<1>7. OffsetAt(q, Len(q) + 1) = next
    BY <1>1
<1> HIDE DEF q, n, at, next, now, was
<1>8. CASE Binds(o.op)
  <2> DEFINE d == Times(o) * Pace(o)
  <2>1. d \in Nat
      BY <1>8, PaceIsTyped, Product
  <2>2. Skipped(o) = d /\ o.op \notin segs \cup libs \cup symbols \cup addends \cup types
      BY <1>8 DEF Skipped, Binds
  <2> HIDE DEF d
  <2>3. next = at + d /\ ((at % Width) + d) % Width = (at + d) % Width
      BY <1>3, <1>6, <2>1, <2>2, WrapsOnce
  <2>4. Done(Held(p), o) = Add(Held(p), d)
      BY <1>8 DEF Done, d
  <2>5. Held(q) = [Held(p) EXCEPT !.off = next % Width]
      BY <1>2, <1>4, <1>5, <2>2
  <2>6. Held(p).off = at % Width
      BY <1>4
  <2>7. next \in Nat
      BY <1>6, <2>1, <2>3
  <2> QED
      BY <1>7, <2>3, <2>4, <2>5, <2>6, <2>7 DEF Add, q
<1>9. CASE o.op = "ADD_ADDR_ULEB"
  <2> DEFINE d == o.args[1]
  <2>1. d \in Nat
      BY <1>9, OperandsAssumption
  <2>2. Skipped(o) = d /\ o.op \notin segs \cup libs \cup symbols \cup addends \cup types
        /\ ~Binds(o.op)
      BY <1>9 DEF Skipped, Binds
  <2> HIDE DEF d
  <2>3. next = at + d /\ ((at % Width) + d) % Width = (at + d) % Width
      BY <1>3, <1>6, <2>1, <2>2, WrapsOnce
  <2>4. Done(Held(p), o) = Add(Held(p), d)
      BY <1>9, <2>2 DEF Done, d
  <2>5. Held(q) = [Held(p) EXCEPT !.off = next % Width]
      BY <1>2, <1>4, <1>5, <2>2
  <2>6. Held(p).off = at % Width
      BY <1>4
  <2>7. next \in Nat
      BY <1>6, <2>1, <2>3
  <2> QED
      BY <1>7, <2>3, <2>4, <2>5, <2>6, <2>7 DEF Add, q
<1>10. CASE ~Binds(o.op) /\ o.op # "ADD_ADDR_ULEB"
  <2>1. Done(Held(p), o) = Set(Held(p), o) /\ Skipped(o) = 0
      BY <1>10 DEF Done, Skipped
  <2>2. CASE o.op = "SET_SEGMENT_AND_OFFSET_ULEB"
    <3>1. o.args[1] \in 0..(Width - 1)
        BY <2>2, OperandsAssumption
    <3>2. next = o.args[1] /\ next % Width = o.args[1]
        BY <1>3, <2>2, <3>1, BelowWidth
    <3>3. now(segs).seg = o.imm /\ now(libs) = was(libs) /\ now(symbols) = was(symbols)
          /\ now(addends) = was(addends) /\ now(types) = was(types)
        BY <1>2, <2>2 DEF Set, Reset
    <3>4. Held(q) = [Held(p) EXCEPT !.seg = o.imm, !.off = o.args[1]]
      <4>1. Held(q) = [seg |-> o.imm, off |-> o.args[1], lib |-> was(libs).lib,
                 symbol |-> was(symbols).symbol, flags |-> was(symbols).flags,
                 addend |-> was(addends).addend, type |-> was(types).type]
          BY ONLY <1>5, <3>2, <3>3
      <4> DEFINE half == [Held(p) EXCEPT !.seg = o.imm]
      <4>2. half = [seg |-> o.imm, off |-> at % Width, lib |-> was(libs).lib,
                 symbol |-> was(symbols).symbol, flags |-> was(symbols).flags,
                 addend |-> was(addends).addend, type |-> was(types).type]
          BY <1>4
      <4>3. [Held(p) EXCEPT !.seg = o.imm, !.off = o.args[1]] = [half EXCEPT !.off = o.args[1]]
          OBVIOUS
      <4> HIDE DEF half
      <4>4. Held(q) = [half EXCEPT !.off = o.args[1]]
          BY ONLY <4>1, <4>2
      <4> QED
          BY <4>3, <4>4
    <3>5. Set(Held(p), o) = [Held(p) EXCEPT !.seg = o.imm, !.off = o.args[1]]
        BY <2>2 DEF Set
    <3>6. next \in Nat
        BY <1>6, <3>1, <3>2
    <3> QED
        BY <1>7, <2>1, <3>4, <3>5, <3>6 DEF q
  <2>3. CASE o.op # "SET_SEGMENT_AND_OFFSET_ULEB"
    <3>1. next = at /\ now(segs) = was(segs) /\ next \in Nat
        BY <1>2, <1>3, <1>6, <2>1, <2>3
    <3>2. Held(q) = Set(Held(p), o)
      <4>1. CASE o.op \in libs
        <5>1. now(libs) = Set(Reset, o) /\ now(symbols) = was(symbols)
              /\ now(addends) = was(addends) /\ now(types) = was(types)
            BY <1>2, <4>1
        <5>2. Held(q) = [Held(p) EXCEPT !.lib = Set(Reset, o).lib]
            BY ONLY <1>4, <1>5, <3>1, <5>1
        <5>3. Set(Held(p), o) = [Held(p) EXCEPT !.lib = Set(Reset, o).lib]
            BY <4>1 DEF Set, Reset
        <5> QED
            BY <5>2, <5>3
      <4>2. CASE o.op \in symbols
        <5>1. now(symbols) = Set(Reset, o) /\ now(libs) = was(libs)
              /\ now(addends) = was(addends) /\ now(types) = was(types)
            BY <1>2, <4>2
        <5> DEFINE half == [Held(p) EXCEPT !.flags = o.imm]
        <5>2. half = [seg |-> was(segs).seg, off |-> at % Width, lib |-> was(libs).lib,
                 symbol |-> was(symbols).symbol, flags |-> o.imm,
                 addend |-> was(addends).addend, type |-> was(types).type]
            BY <1>4
        <5>3. Set(Held(p), o) = [half EXCEPT !.symbol = o.args[1]]
            BY <4>2 DEF Set
        <5> HIDE DEF half
        <5>4. Set(Reset, o).symbol = o.args[1] /\ Set(Reset, o).flags = o.imm
            BY <4>2 DEF Set, Reset
        <5>5. Held(q) = [half EXCEPT !.symbol = o.args[1]]
            BY ONLY <1>5, <3>1, <5>1, <5>2, <5>4
        <5> QED
            BY <5>3, <5>5
      <4>3. CASE o.op \in addends
        <5>1. now(addends) = Set(Reset, o) /\ now(libs) = was(libs)
              /\ now(symbols) = was(symbols) /\ now(types) = was(types)
            BY <1>2, <4>3
        <5>2. Held(q) = [Held(p) EXCEPT !.addend = Set(Reset, o).addend]
            BY ONLY <1>4, <1>5, <3>1, <5>1
        <5>3. Set(Held(p), o) = [Held(p) EXCEPT !.addend = Set(Reset, o).addend]
            BY <4>3 DEF Set, Reset
        <5> QED
            BY <5>2, <5>3
      <4>4. CASE o.op \in types
        <5>1. now(types) = Set(Reset, o) /\ now(libs) = was(libs)
              /\ now(symbols) = was(symbols) /\ now(addends) = was(addends)
            BY <1>2, <4>4
        <5>2. Held(q) = [Held(p) EXCEPT !.type = Set(Reset, o).type]
            BY ONLY <1>4, <1>5, <3>1, <5>1
        <5>3. Set(Held(p), o) = [Held(p) EXCEPT !.type = Set(Reset, o).type]
            BY <4>4 DEF Set, Reset
        <5> QED
            BY <5>2, <5>3
      <4>5. CASE o.op \notin libs \cup symbols \cup addends \cup types
        <5>1. Set(Held(p), o) = Held(p)
            BY <2>3, <4>5 DEF Set
        <5>2. now(libs) = was(libs) /\ now(symbols) = was(symbols)
              /\ now(addends) = was(addends) /\ now(types) = was(types)
            BY <1>2, <4>5
        <5> QED
            BY <1>4, <1>5, <3>1, <5>1, <5>2
      <4> QED
          BY <4>1, <4>2, <4>3, <4>4, <4>5
    <3> QED
        BY <1>7, <2>1, <3>1, <3>2 DEF q
  <2> QED
      BY <2>2, <2>3
<1> QED
    BY <1>8, <1>9, <1>10

-----------------------------------------------------------------------------
(* What a table binds, one opcode after the other.                          *)

\* What opcode i of a table binds, as TableBinds has it.
Part(p, i, k) ==
    IF Binds(p[i].op) THEN [n \in 1..Times(p[i]) |-> BoundBy(p, i, n, k)] ELSE <<>>

\* What an opcode binds does not depend on what comes behind it.
LEMMA EarlierPartsStay ==
    ASSUME NEW p, NEW q, NEW n \in Nat, Same(q, p, n), NEW k
    PROVE  \A i \in 1..n : Part(q, i, k) = Part(p, i, k)
<1> SUFFICES ASSUME NEW i \in 1..n PROVE Part(q, i, k) = Part(p, i, k)
    OBVIOUS
<1>1. q[i] = p[i] /\ i \in 1..(n + 1)
    BY DEF Same
<1>2. OffsetAt(q, i) = OffsetAt(p, i)
    BY <1>1, OffsetAtSteps
<1>3. \A ops : LastSet(q, i, ops, Reset) = LastSet(p, i, ops, Reset)
  <2> SUFFICES ASSUME NEW ops PROVE LastSet(q, i, ops, Reset) = LastSet(p, i, ops, Reset)
      OBVIOUS
  <2>1. \A j \in 1..(n + 1) : LastSet(q, j, ops, Reset) = LastSet(p, j, ops, Reset)
      BY LastSteps
  <2> QED
      BY <1>1, <2>1
<1>4. \A m : BoundBy(q, i, m, k) = BoundBy(p, i, m, k)
    BY <1>1, <1>2, <1>3 DEF BoundBy
<1> QED
    BY <1>1, <1>4 DEF Part

\* What the last opcode binds is what the registers before it say.
LEMMA LastPartIs ==
    ASSUME NEW p \in Seq(Opcodes), NEW o \in Opcodes, ~Truncated(o), NEW k,
           OffsetAt(p, Len(p) + 1) \in Nat
    PROVE  Part(Append(p, o), Len(p) + 1, k) = Listed(Held(p), o, k)
<1> DEFINE n == Len(p)
           q == Append(p, o)
<1>1. Same(q, p, n) /\ q[n + 1] = o /\ n \in Nat /\ n + 1 \in 1..(n + 1)
    BY AppendIsSame
<1>2. CASE ~Binds(o.op)
    BY <1>1, <1>2 DEF Part, Listed
<1>3. CASE Binds(o.op)
  <2> DEFINE at == OffsetAt(p, n + 1)
             r == Held(p)
  <2>1. OffsetAt(q, n + 1) = at
    <3> HIDE DEF q, n
    <3>1. \A i \in 1..(n + 1) : OffsetAt(q, i) = OffsetAt(p, i)
        BY ONLY <1>1, OffsetAtSteps
    <3> QED
        BY <1>1, <3>1
  <2>2. \A ops : LastSet(q, n + 1, ops, Reset) = LastSet(p, n + 1, ops, Reset)
    <3> SUFFICES ASSUME NEW ops PROVE LastSet(q, n + 1, ops, Reset) = LastSet(p, n + 1, ops, Reset)
        OBVIOUS
    <3> HIDE DEF q, n
    <3>1. \A j \in 1..(n + 1) : LastSet(q, j, ops, Reset) = LastSet(p, j, ops, Reset)
        BY ONLY <1>1, LastSteps
    <3> QED
        BY <1>1, <3>1
  <2>3. Times(o) \in Nat /\ Pace(o) \in Nat
      BY <1>3, PaceIsTyped
  <2>4. ASSUME NEW m \in 1..Times(o)
        PROVE  BoundBy(q, n + 1, m, k) = BindEntry(Add(r, (m - 1) * Pace(o)), k)
    <3> DEFINE d == (m - 1) * Pace(o)
    <3>1. d \in Nat
      <4>1. m - 1 \in Nat
          BY <2>3
      <4> QED
          BY <2>3, <4>1, Product
    <3>2. BoundBy(q, n + 1, m, k) =
            <<[seg |-> r.seg, off |-> (at + d) % Width, lib |-> r.lib, symbol |-> r.symbol,
               flags |-> r.flags, addend |-> r.addend, type |-> r.type], Kinds[k]>>
      <4> HIDE DEF q, at
      <4> QED
          BY <1>1, <2>1, <2>2 DEF BoundBy, Held
    <3>3. r = [seg |-> r.seg, off |-> r.off, lib |-> r.lib, symbol |-> r.symbol,
               flags |-> r.flags, addend |-> r.addend, type |-> r.type] /\ r.off = at % Width
        BY DEF Held
    <3> HIDE DEF d, at, r
    <3>4. ((at % Width) + d) % Width = (at + d) % Width
        BY <3>1, WidthAssumption, WrapsOnce DEF at
    <3>5. Add(r, d) = [seg |-> r.seg, off |-> (at + d) % Width, lib |-> r.lib,
                       symbol |-> r.symbol, flags |-> r.flags, addend |-> r.addend,
                       type |-> r.type]
        BY <3>3, <3>4 DEF Add
    <3> QED
        BY <3>2, <3>5 DEF BindEntry, d
  <2> HIDE DEF q, r
  <2>5. Part(q, n + 1, k) = [m \in 1..Times(o) |-> BoundBy(q, n + 1, m, k)]
      BY <1>1, <1>3 DEF Part
  <2>6. Listed(r, o, k) = [m \in 1..Times(o) |-> BindEntry(Add(r, (m - 1) * Pace(o)), k)]
      BY <1>3 DEF Listed
  <2>7. [m \in 1..Times(o) |-> BoundBy(q, n + 1, m, k)] =
          [m \in 1..Times(o) |-> BindEntry(Add(r, (m - 1) * Pace(o)), k)]
      BY <2>4
  <2>8. Part(q, n + 1, k) = Listed(r, o, k)
      BY <2>5, <2>6, <2>7
  <2> QED
      BY <2>8 DEF q, r
<1> QED
    BY <1>2, <1>3

\* A table that is empty binds nothing.
LEMMA NothingBound == ASSUME NEW k PROVE TableBinds(<<>>, k) = <<>>
<1> DEFINE parts == [i \in DOMAIN <<>> |-> Part(<<>>, i, k)]
<1>1. TableBinds(<<>>, k) = FlattenSeq(parts)
    BY DEF TableBinds, Part
<1>2. parts = <<>>
  <2>1. DOMAIN <<>> = {}
      OBVIOUS
  <2> QED
      BY <2>1
<1> HIDE DEF parts
<1>3. Len(parts) = 0
    BY <1>2
<1> QED
    BY <1>1, <1>2, <1>3 DEF FlattenSeq

\* A table with one more opcode binds what that opcode lists as well.
LEMMA TableBindsOneMore ==
    ASSUME NEW p \in Seq(Opcodes), NEW o \in Opcodes, ~Truncated(o), NEW k,
           OffsetAt(p, Len(p) + 1) \in Nat, Listed(Held(p), o, k) \in Seq(Entries)
    PROVE  TableBinds(Append(p, o), k) = TableBinds(p, k) \o Listed(Held(p), o, k)
<1> DEFINE n == Len(p)
           q == Append(p, o)
           before == [i \in DOMAIN p |-> Part(p, i, k)]
           after == [i \in DOMAIN q |-> Part(q, i, k)]
<1>1. /\ Same(q, p, n) /\ n \in Nat /\ DOMAIN p = 1..n /\ DOMAIN q = 1..(n + 1)
    BY AppendIsSame
<1>2. TableBinds(p, k) = FlattenSeq(before) /\ TableBinds(q, k) = FlattenSeq(after)
    BY DEF TableBinds, Part
<1>3. Len(before) = n /\ Len(after) = n + 1
    BY <1>1
<1>4. \A i \in 1..n : after[i] = before[i]
  <2> HIDE DEF q, n
  <2>1. \A i \in 1..n : Part(q, i, k) = Part(p, i, k)
      BY ONLY <1>1, EarlierPartsStay
  <2>2. \A i \in 1..n : i \in 1..(n + 1)
      BY <1>1
  <2> QED
      BY <1>1, <2>1, <2>2
<1>5. after[n + 1] = Listed(Held(p), o, k)
  <2>1. n + 1 \in DOMAIN q
      BY <1>1
  <2>2. Part(q, n + 1, k) = Listed(Held(p), o, k)
      BY LastPartIs
  <2> HIDE DEF q, n
  <2> QED
      BY <2>1, <2>2
<1> HIDE DEF q, before, after, n
<1>6. /\ n # 0 => FlattenSeq(after) = FlattenSeq(before) \o after[n + 1]
      /\ n = 0 => FlattenSeq(after) = after[1]
    BY ONLY <1>1, <1>3, <1>4, FlattenOneMore
<1>7. CASE n # 0
    BY <1>2, <1>5, <1>7, <1>6 DEF q
<1>8. CASE n = 0
  <2>1. FlattenSeq(after) = Listed(Held(p), o, k)
    <3>1. n + 1 = 1
        BY <1>8
    <3> QED
        BY <1>5, <1>8, <1>6, <3>1
  <2>2. p = <<>>
      BY <1>8 DEF n
  <2>3. TableBinds(p, k) = <<>>
      BY <2>2, NothingBound
  <2>4. <<>> \o Listed(Held(p), o, k) = Listed(Held(p), o, k)
      BY ConcatEmptySeq
  <2> QED
      BY <1>2, <2>1, <2>3, <2>4 DEF q
<1> QED
    BY <1>7, <1>8

-----------------------------------------------------------------------------
(* What is listed.                                                          *)

\* What a table binds, and what those before it do.
Table(d, k) == TableBinds(d[k], k)
Before(d, k) == IF k = 1 THEN <<>> ELSE IF k = 2 THEN Table(d, 1) ELSE Table(d, 1) \o Table(d, 2)

\* The registers, and what has been listed, are what the opcodes say that have been read.
ListInv ==
    /\ status # "error" => \A k \in 1..3 : Table(data, k) \in Seq(Entries)
    /\ status = "running" =>
        /\ reg = Held(data[kind])
        /\ OffsetAt(data[kind], Len(data[kind]) + 1) \in Nat
        /\ out = Table(data, kind)
        /\ all = Before(data, kind)
    /\ status = "ok" => out = <<>> /\ all = Before(data, 3) \o Table(data, 3)

\* Nothing has been read at first.
LEMMA ListInit == Init => ListInv
<1> SUFFICES ASSUME Init PROVE ListInv
    OBVIOUS
<1>1. /\ kind = 1 /\ reg = Reset /\ out = <<>> /\ all = <<>> /\ status \in {"running", "ok"}
      /\ data = [k \in 1..3 |-> <<>>]
    BY DEF Init, Kinds
<1>2. \A k \in 1..3 : data[k] = <<>> /\ Table(data, k) = <<>>
    BY <1>1, NothingBound DEF Table
<1>3. <<>> \in Seq(Entries) /\ <<>> \o <<>> = <<>>
  <2>1. <<>> \in Seq(Entries)
      OBVIOUS
  <2> QED
      BY <2>1, ConcatEmptySeq
<1>4. Before(data, 1) = <<>> /\ Before(data, 3) = <<>>
    BY <1>2, <1>3 DEF Before
<1>5. Held(data[1]) = Reset /\ OffsetAt(data[1], Len(data[1]) + 1) \in Nat
  <2>1. data[1] = <<>>
      BY <1>1
  <2> QED
      BY <2>1, NothingHeld
<1>6. \A k \in 1..3 : Table(data, k) \in Seq(Entries)
    BY <1>2, <1>3
<1>7. /\ reg = Held(data[kind]) /\ OffsetAt(data[kind], Len(data[kind]) + 1) \in Nat
      /\ out = Table(data, kind) /\ all = Before(data, kind)
    BY <1>1, <1>2, <1>4, <1>5
<1>8. all = Before(data, 3) \o Table(data, 3)
    BY <1>1, <1>2, <1>3, <1>4
<1> QED
    BY <1>1, <1>6, <1>7, <1>8 DEF ListInv

\* One more opcode has been read.
LEMMA ListOneMore ==
    ASSUME BindInv, ListInv, status = "running", NEW o \in Opcodes, ~Truncated(o),
           data' = [data EXCEPT ![kind] = Append(@, o)], Listed(reg, o, kind) \in Seq(Entries)
    PROVE  /\ \A k \in 1..3 : k # kind => data'[k] = data[k]
           /\ \A k \in 1..3 : k # kind => Table(data', k) = Table(data, k)
           /\ Table(data', kind) = out \o Listed(reg, o, kind)
           /\ \A k \in 1..3 : Table(data', k) \in Seq(Entries)
           /\ Before(data', kind) = all
           /\ Held(data'[kind]) = Done(reg, o)
           /\ OffsetAt(data'[kind], Len(data'[kind]) + 1) \in Nat
<1>1. kind \in 1..3 /\ data \in [1..3 -> Seq(Opcodes)] /\ out \in Seq(Entries)
    BY DEF BindInv, TypeOK, Kinds
<1> DEFINE p == data[kind]
<1>2. /\ p \in Seq(Opcodes) /\ data'[kind] = Append(p, o)
      /\ \A k \in 1..3 : k # kind => data'[k] = data[k]
    BY <1>1
<1>3. /\ reg = Held(p) /\ OffsetAt(p, Len(p) + 1) \in Nat
      /\ out = Table(data, kind) /\ all = Before(data, kind)
      /\ \A k \in 1..3 : Table(data, k) \in Seq(Entries)
    BY DEF ListInv
<1>4. Table(data, kind) = TableBinds(p, kind) /\ Table(data', kind) = TableBinds(data'[kind], kind)
    BY DEF Table
<1> HIDE DEF p
<1>5. Table(data', kind) = out \o Listed(reg, o, kind)
    BY <1>2, <1>3, <1>4, TableBindsOneMore
<1>6. \A k \in 1..3 : k # kind => Table(data', k) = Table(data, k)
    BY <1>2 DEF Table
<1>7. out \o Listed(reg, o, kind) \in Seq(Entries)
    BY <1>1, ConcatProperties
<1>8. \A k \in 1..3 : Table(data', k) \in Seq(Entries)
    BY <1>3, <1>5, <1>6, <1>7
<1>9. Before(data', kind) = all
  <2>1. kind # 1 => Table(data', 1) = Table(data, 1)
      BY <1>6
  <2>2. kind = 3 => Table(data', 2) = Table(data, 2)
      BY <1>6
  <2>3. Before(data', kind) = Before(data, kind)
    <3>1. CASE kind = 1
        BY <3>1 DEF Before
    <3>2. CASE kind = 2
      <4>1. Before(data', kind) = Table(data', 1) /\ Before(data, kind) = Table(data, 1)
          BY <3>2 DEF Before
      <4> QED
          BY <2>1, <3>2, <4>1
    <3>3. CASE kind = 3
      <4>1. /\ Before(data', kind) = Table(data', 1) \o Table(data', 2)
            /\ Before(data, kind) = Table(data, 1) \o Table(data, 2)
          BY <3>3 DEF Before
      <4>2. Table(data', 1) = Table(data, 1) /\ Table(data', 2) = Table(data, 2)
          BY <2>1, <2>2, <3>3
      <4> QED
          BY ONLY <4>1, <4>2
    <3> QED
        BY <1>1, <3>1, <3>2, <3>3
  <2> QED
      BY <1>3, <2>3
<1>10. /\ Held(data'[kind]) = Done(reg, o)
       /\ OffsetAt(data'[kind], Len(data'[kind]) + 1) \in Nat
    BY <1>2, <1>3, HeldAfter
<1> QED
    BY <1>2, <1>5, <1>6, <1>8, <1>9, <1>10

\* What was listed of a table is put behind what was listed of those before it.
LEMMA ListEnds ==
    ASSUME BindInv, status = "running", EndTable,
           \A k \in 1..3 : Table(data', k) \in Seq(Entries),
           Table(data', kind) = out, Before(data', kind) = all,
           \A k \in 1..3 : k > kind => data'[k] = <<>>
    PROVE  ListInv'
<1>1. kind \in 1..3 /\ Len(Kinds) = 3
    BY DEF BindInv, TypeOK, Kinds
<1>2. out' = <<>> /\ reg' = Reset /\ all' = all \o out
    BY DEF EndTable
<1>3. \/ kind < 3 /\ kind' = kind + 1 /\ status' = "running"
      \/ kind = 3 /\ kind' = 3 /\ status' = "ok"
    BY <1>1 DEF EndTable
<1>4. CASE kind = 3
  <2>1. status' = "ok"
      BY <1>3, <1>4
  <2>2. all' = Before(data', 3) \o Table(data', 3)
      BY <1>2, <1>4
  <2> QED
      BY <1>2, <2>1, <2>2 DEF ListInv
<1>5. CASE kind < 3
  <2>1. kind' = kind + 1 /\ status' = "running" /\ kind' \in 1..3 /\ data'[kind'] = <<>>
      BY <1>1, <1>3, <1>5
  <2>2. Table(data', kind') = <<>>
      BY <2>1, NothingBound DEF Table
  <2>3. Held(data'[kind']) = Reset /\ OffsetAt(data'[kind'], Len(data'[kind']) + 1) \in Nat
      BY <2>1, NothingHeld
  <2>4. Before(data', kind') = all'
    <3>1. CASE kind = 1
      <4>1. <<>> \o Table(data', 1) = Table(data', 1)
          BY ConcatEmptySeq
      <4>2. kind' = 2 /\ all = <<>>
          BY <2>1, <3>1 DEF Before
      <4>3. all' = <<>> \o Table(data', 1)
          BY <1>2, <3>1, <4>2
      <4> QED
          BY <4>1, <4>2, <4>3 DEF Before
    <3>2. CASE kind = 2
      <4>1. kind' = 3 /\ all = Table(data', 1) /\ out = Table(data', 2)
          BY <2>1, <3>2 DEF Before
      <4> QED
          BY <1>2, <4>1 DEF Before
    <3> QED
        BY <1>1, <1>5, <3>1, <3>2
  <2> QED
      BY <1>2, <2>1, <2>2, <2>3, <2>4 DEF ListInv
<1> QED
    BY <1>1, <1>4, <1>5

\* Every opcode keeps the lists as the opcodes say.
LEMMA ListStep == BindInv /\ ListInv /\ [Next]_vars => ListInv'
<1> SUFFICES ASSUME BindInv, ListInv, [Next]_vars PROVE ListInv'
    OBVIOUS
<1>1. /\ kind \in 1..3 /\ kind \in DOMAIN Kinds /\ reg \in Registers
      /\ out \in Seq(Entries) /\ <<>> \in Seq(Entries)
    BY EntriesAre DEF BindInv, TypeOK, Kinds
<1>2. out \o <<>> = out
    BY <1>1, ConcatEmptySeq
<1>3. ASSUME NEW o \in Opcodes, ReadOpcode(o)
      PROVE  ListInv'
  <2>1. status = "running" /\ data' = [data EXCEPT ![kind] = Append(@, o)]
      BY <1>3 DEF ReadOpcode
  <2>2. CASE Truncated(o)
    <3>1. status' = "error"
        BY <1>3, <2>2 DEF ReadOpcode, Fail
    <3> QED
        BY <3>1 DEF ListInv
  <2>3. CASE ~Truncated(o) /\ ~Binds(o.op)
    <3>1. Listed(reg, o, kind) = <<>>
        BY <2>3 DEF Listed
    <3>2. /\ \A k \in 1..3 : k # kind => data'[k] = data[k]
          /\ Table(data', kind) = out
          /\ \A k \in 1..3 : Table(data', k) \in Seq(Entries)
          /\ Before(data', kind) = all
          /\ Held(data'[kind]) = Done(reg, o)
          /\ OffsetAt(data'[kind], Len(data'[kind]) + 1) \in Nat
        BY <1>1, <1>2, <2>1, <2>3, <3>1, ListOneMore
    <3>3. CASE SetRegister(o) \/ AddAddr(o)
      <4>1. /\ reg' = Done(reg, o)
            /\ kind' = kind /\ out' = out /\ all' = all /\ status' = status
          BY <2>3, <3>3 DEF SetRegister, AddAddr, Done
      <4> QED
          BY <2>1, <3>2, <4>1 DEF ListInv
    <3>4. CASE EndTable
      <4>1. \A k \in 1..3 : k > kind => data'[k] = <<>>
        <5>1. \A k \in 1..3 : k > kind => data[k] = <<>> /\ k # kind
            BY <1>1, <2>1 DEF BindInv
        <5> QED
            BY <3>2, <5>1
      <4> QED
          BY <2>1, <3>2, <3>4, <4>1, ListEnds
    <3> QED
        BY <1>3, <2>3, <3>3, <3>4 DEF ReadOpcode, DoBind
  <2>4. CASE ~Truncated(o) /\ Binds(o.op)
    <3>1. DoBind(o)
        BY <1>3, <2>4 DEF ReadOpcode, SetRegister, AddAddr, Binds
    <3>2. /\ out' = out \o Listed(reg, o, kind) /\ reg' = Done(reg, o)
          /\ kind' = kind /\ all' = all /\ status' = status
        BY <2>4, <3>1 DEF DoBind, Listed, Done
    <3>3. Listed(reg, o, kind) \in Seq(Entries)
      <4>1. Pace(o) \in Nat /\ Times(o) \in Nat
          BY <2>4, PaceIsTyped
      <4>2. ASSUME NEW i \in 1..Times(o)
            PROVE  BindEntry(Add(reg, (i - 1) * Pace(o)), kind) \in Entries
        <5>1. i - 1 \in Nat
            BY <4>1
        <5>2. (i - 1) * Pace(o) \in Nat
            BY <4>1, <5>1, Product
        <5>3. Add(reg, (i - 1) * Pace(o)) \in Registers
            BY <1>1, <5>2, AddIsTyped
        <5> QED
            BY <1>1, <5>3, EntriesAre
      <4>3. [i \in 1..Times(o) |-> BindEntry(Add(reg, (i - 1) * Pace(o)), kind)] \in Seq(Entries)
          BY <4>1, <4>2
      <4> QED
          BY <2>4, <4>3 DEF Listed
    <3>4. /\ Table(data', kind) = out \o Listed(reg, o, kind)
          /\ \A k \in 1..3 : Table(data', k) \in Seq(Entries)
          /\ Before(data', kind) = all
          /\ Held(data'[kind]) = Done(reg, o)
          /\ OffsetAt(data'[kind], Len(data'[kind]) + 1) \in Nat
        BY <2>1, <2>4, <3>3, ListOneMore
    <3> QED
        BY <2>1, <3>2, <3>4 DEF ListInv
  <2> QED
      BY <2>2, <2>3, <2>4
<1>4. CASE EndOfData
  <2>1. status = "running" /\ EndTable /\ data' = data
      BY <1>4 DEF EndOfData
  <2>2. /\ \A k \in 1..3 : Table(data', k) \in Seq(Entries)
        /\ Table(data', kind) = out /\ Before(data', kind) = all
      BY <2>1 DEF ListInv
  <2>3. \A k \in 1..3 : k > kind => data'[k] = <<>>
      BY <2>1 DEF BindInv
  <2> QED
      BY <2>1, <2>2, <2>3, ListEnds
<1>5. CASE SliceFails
  <2>1. status' = "error"
      BY <1>5 DEF SliceFails, Fail
  <2> QED
      BY <2>1 DEF ListInv
<1>6. CASE UNCHANGED vars
    BY <1>6 DEF vars, ListInv
<1> QED
    BY <1>3, <1>4, <1>5, <1>6 DEF Next

\* The three tables, one behind the other.
LEMMA ThreeTables ==
    ASSUME NEW f, f = [k \in 1..3 |-> f[k]]
    PROVE  FlattenSeq(f) = (f[1] \o f[2]) \o f[3]
<1>1. Len(f) = 3 /\ Len(f) \in Nat \ {0}
    OBVIOUS
<1>2. PICK g : Joins(g, f, 3) /\ FlattenSeq(f) = g[3]
    BY <1>1, FlattenIs
<1>3. \A i \in 1..3 : g[i] = IF i = 1 THEN f[i] ELSE g[i - 1] \o f[i]
    BY <1>2 DEF Joins
<1>4. 1 \in 1..3 /\ 2 \in 1..3 /\ 3 \in 1..3 /\ 2 # 1 /\ 3 # 1 /\ 2 - 1 = 1 /\ 3 - 1 = 2
    OBVIOUS
<1>5. g[1] = f[1] /\ g[2] = g[2 - 1] \o f[2] /\ g[3] = g[3 - 1] \o f[3]
    BY ONLY <1>3, <1>4
<1> QED
    BY <1>2, <1>4, <1>5

\* What has been listed is then what all three tables say.
LEMMA ListsThen == BindInv /\ ListInv => ListsWhatOpcodesSay
<1> SUFFICES ASSUME BindInv, ListInv, status # "error"
             PROVE  all \o out = FlattenSeq([k \in DOMAIN Kinds |-> TableBinds(data[k], k)])
    BY DEF ListsWhatOpcodesSay
<1> DEFINE f == [k \in DOMAIN Kinds |-> TableBinds(data[k], k)]
           a == Table(data, 1)
           b == Table(data, 2)
           c == Table(data, 3)
<1>1. kind \in 1..3 /\ DOMAIN Kinds = 1..3 /\ status \in {"running", "ok"}
    BY DEF BindInv, TypeOK, Kinds
<1>2. FlattenSeq(f) = (a \o b) \o c
  <2>1. f = [k \in 1..3 |-> f[k]] /\ f[1] = a /\ f[2] = b /\ f[3] = c
      BY <1>1 DEF Table
  <2> HIDE DEF f, a, b, c
  <2> QED
      BY <2>1, ThreeTables
<1>3. a \in Seq(Entries) /\ b \in Seq(Entries) /\ c \in Seq(Entries)
    BY DEF ListInv
<1>4. a \o b \in Seq(Entries) /\ (a \o b) \o c \in Seq(Entries)
  <2> HIDE DEF a, b, c
  <2>1. a \o b \in Seq(Entries)
      BY <1>3, ConcatProperties
  <2> QED
      BY <1>3, <2>1, ConcatProperties
<1>5. CASE status = "ok"
  <2>1. out = <<>> /\ all = (a \o b) \o c
      BY <1>5 DEF ListInv, Before
  <2> HIDE DEF a, b, c
  <2>2. all \o <<>> = all
      BY <1>4, <2>1, ConcatEmptySeq
  <2> QED
      BY <1>2, <2>1, <2>2
<1>6. CASE status = "running"
  <2>1. out = Table(data, kind) /\ all = Before(data, kind)
      BY <1>6 DEF ListInv
  <2>2. \A k \in 1..3 : k > kind => Table(data, k) = <<>>
      BY <1>6, NothingBound DEF BindInv, Table
  <2>3. CASE kind = 1
    <3>1. out = a /\ all = <<>> /\ b = <<>> /\ c = <<>>
        BY <2>1, <2>2, <2>3 DEF Before
    <3> HIDE DEF a, b, c
    <3>2. <<>> \o a = a /\ a \o <<>> = a
        BY <1>3, ConcatEmptySeq
    <3> QED
        BY <1>2, <3>1, <3>2
  <2>4. CASE kind = 2
    <3>1. out = b /\ all = a /\ c = <<>>
        BY <2>1, <2>2, <2>4 DEF Before
    <3> HIDE DEF a, b, c
    <3>2. (a \o b) \o <<>> = a \o b
        BY <1>4, ConcatEmptySeq
    <3> QED
        BY <1>2, <3>1, <3>2
  <2>5. CASE kind = 3
    <3>1. out = c /\ all = a \o b
        BY <2>1, <2>5 DEF Before
    <3> QED
        BY <1>2, <3>1
  <2> QED
      BY <1>1, <2>3, <2>4, <2>5
<1> QED
    BY <1>1, <1>5, <1>6

\* What binds() lists is, table after table, what the opcodes it has read say: the
\* registers of parse_bind_ops hold at each bind what was last set in that table, and its
\* segment offset is the one last set plus all that was skipped since, modulo Width, for
\* all tables, however compressed they are.
THEOREM ListsAlwaysWhatOpcodesSay == Spec => []ListsWhatOpcodesSay
    BY BindInit, BindStep, ListInit, ListStep, ListsThen, PTL DEF Spec
=============================================================================
