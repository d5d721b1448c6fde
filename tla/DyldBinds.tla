----------------------------- MODULE DyldBinds -----------------------------
(***************************************************************************)
(* MachoFile::binds (crates/macho_core/src/dyld.rs): the bind, lazy bind    *)
(* and weak bind tables of LC_DYLD_INFO are programs for a register         *)
(* machine.  Running them lists the pointers that dyld binds.               *)
(*                                                                          *)
(* The tables are revealed as they are read: each step reads one opcode,    *)
(* any of Opcodes, with its immediate and its operands.                     *)
(***************************************************************************)
EXTENDS Integers, Sequences, SequencesExt

CONSTANTS
    Opcodes,        \* what a table may hold
    NoSymbol,       \* ""
    PtrSize,        \* 8
    Width,          \* 2^64: segment offsets wrap
    MaxOpcodes      \* bound: the opcodes of the three tables together

\* An operand is missing when the table ends before it: that is Truncated.
Operands(op) ==
    CASE op \in {"SET_DYLIB_ORDINAL_ULEB", "SET_SYMBOL_TRAILING_FLAGS_IMM",
                 "SET_ADDEND_SLEB", "SET_SEGMENT_AND_OFFSET_ULEB", "ADD_ADDR_ULEB",
                 "DO_BIND_ADD_ADDR_ULEB"} -> 1
      [] op = "DO_BIND_ULEB_TIMES_SKIPPING_ULEB" -> 2
      [] OTHER -> 0

Truncated(o) == Len(o.args) < Operands(o.op)

\* "UNKNOWN" is every opcode that parse_bind_ops does not know.
OpNames ==
    {"DONE", "SET_DYLIB_ORDINAL_IMM", "SET_DYLIB_ORDINAL_ULEB", "SET_DYLIB_SPECIAL_IMM",
     "SET_SYMBOL_TRAILING_FLAGS_IMM", "SET_TYPE_IMM", "SET_ADDEND_SLEB",
     "SET_SEGMENT_AND_OFFSET_ULEB", "ADD_ADDR_ULEB", "DO_BIND", "DO_BIND_ADD_ADDR_ULEB",
     "DO_BIND_ADD_ADDR_IMM_SCALED", "DO_BIND_ULEB_TIMES_SKIPPING_ULEB", "UNKNOWN"}

ASSUME OpcodesAssumption ==
    \A o \in Opcodes : /\ o.op \in OpNames
                       /\ o.imm \in 0..15
                       /\ Len(o.args) <= Operands(o.op)
ASSUME WidthAssumption == PtrSize \in Nat \ {0} /\ Width \in Nat \ {0}
ASSUME MaxOpcodesAssumption == MaxOpcodes \in Nat

\* What the operands are: a string, a signed number, or numbers.
ASSUME OperandsAssumption ==
    /\ NoSymbol \in STRING
    /\ \A o \in Opcodes : ~Truncated(o) =>
         /\ o.op = "SET_SYMBOL_TRAILING_FLAGS_IMM" => o.args[1] \in STRING
         /\ o.op = "SET_ADDEND_SLEB" => o.args[1] \in Int
         /\ o.op = "SET_SEGMENT_AND_OFFSET_ULEB" => o.args[1] \in 0..(Width - 1)
         /\ o.op \in {"SET_DYLIB_ORDINAL_ULEB", "ADD_ADDR_ULEB", "DO_BIND_ADD_ADDR_ULEB",
                      "DO_BIND_ULEB_TIMES_SKIPPING_ULEB"} => o.args[1] \in Nat
         /\ o.op = "DO_BIND_ULEB_TIMES_SKIPPING_ULEB" => o.args[2] \in Nat

VARIABLES
    kind,           \* the table being read, an index of Kinds
    reg,            \* the registers of parse_bind_ops
    out,            \* what it has listed
    all,            \* what the earlier tables gave
    status,         \* "running", or how binds() returned
    data            \* history: what was read of each table

vars == <<kind, reg, out, all, status, data>>

Kinds == <<"bind", "lazy", "weak">>

Reset == [seg |-> 0, off |-> 0, lib |-> 0, symbol |-> NoSymbol, flags |-> 0,
          addend |-> 0, type |-> 1]

\* BindEntry: the registers, and the table it comes from.
BindEntry(r, k) == <<r, Kinds[k]>>

Length(tables) == SumFunction([k \in DOMAIN tables |-> Len(tables[k])])

Init ==
    /\ kind = 1
    /\ reg = Reset
    /\ out = <<>>
    /\ all = <<>>
    /\ status \in {"running", "ok"}     \* "ok": no LC_DYLD_INFO
    /\ data = [k \in DOMAIN Kinds |-> <<>>]

-----------------------------------------------------------------------------
(* One opcode.                                                              *)

Set(r, o) ==
    CASE o.op = "SET_DYLIB_ORDINAL_IMM"  -> [r EXCEPT !.lib = o.imm]
      [] o.op = "SET_DYLIB_ORDINAL_ULEB" -> [r EXCEPT !.lib = o.args[1]]
         \* sign-extended from four bits
      [] o.op = "SET_DYLIB_SPECIAL_IMM"  -> [r EXCEPT !.lib = IF o.imm = 0 THEN 0 ELSE o.imm - 16]
      [] o.op = "SET_SYMBOL_TRAILING_FLAGS_IMM" ->
            [r EXCEPT !.flags = o.imm, !.symbol = o.args[1]]
      [] o.op = "SET_TYPE_IMM"    -> [r EXCEPT !.type = o.imm]
      [] o.op = "SET_ADDEND_SLEB" -> [r EXCEPT !.addend = o.args[1]]
      [] o.op = "SET_SEGMENT_AND_OFFSET_ULEB" -> [r EXCEPT !.seg = o.imm, !.off = o.args[1]]
      [] OTHER -> r

\* A faulty variant: offsets do not wrap.
AddUnbounded(r, n) == [r EXCEPT !.off = r.off + n]

Add(r, n) == [r EXCEPT !.off = (r.off + n) % Width]

\* The registers after each bind of an opcode that binds.
Pace(o) ==
    CASE o.op = "DO_BIND_ADD_ADDR_ULEB"            -> PtrSize + o.args[1]
      [] o.op = "DO_BIND_ADD_ADDR_IMM_SCALED"      -> PtrSize + o.imm * PtrSize
      [] o.op = "DO_BIND_ULEB_TIMES_SKIPPING_ULEB" -> PtrSize + o.args[2]
      [] OTHER                                     -> PtrSize

Binds(op) == op \in {"DO_BIND", "DO_BIND_ADD_ADDR_ULEB", "DO_BIND_ADD_ADDR_IMM_SCALED",
                     "DO_BIND_ULEB_TIMES_SKIPPING_ULEB"}

Times(o) == IF o.op = "DO_BIND_ULEB_TIMES_SKIPPING_ULEB" THEN o.args[1] ELSE 1

SetRegister(o) ==
    /\ ~Binds(o.op) /\ o.op \notin {"DONE", "UNKNOWN", "ADD_ADDR_ULEB"}
    /\ reg' = Set(reg, o)
    /\ UNCHANGED <<kind, out, all, status>>

AddAddr(o) ==
    /\ o.op = "ADD_ADDR_ULEB"
    /\ reg' = Add(reg, o.args[1])
    /\ UNCHANGED <<kind, out, all, status>>

DoBind(o) ==
    /\ Binds(o.op)
    /\ out' = out \o [i \in 1..Times(o) |-> BindEntry(Add(reg, (i - 1) * Pace(o)), kind)]
    /\ reg' = Add(reg, Times(o) * Pace(o))
    /\ UNCHANGED <<kind, all, status>>

\* A faulty variant: the registers of one table are still set in the next.
EndTableDirty ==
    /\ all' = all \o out
    /\ out' = <<>>
    /\ UNCHANGED reg
    /\ IF kind < Len(Kinds)
       THEN kind' = kind + 1 /\ UNCHANGED status
       ELSE status' = "ok" /\ UNCHANGED kind

\* parse_bind_ops returns; binds() appends its list and goes on to the next.
EndTable ==
    /\ all' = all \o out
    /\ out' = <<>>
    /\ reg' = Reset
    /\ IF kind < Len(Kinds)
       THEN kind' = kind + 1 /\ UNCHANGED status
       ELSE status' = "ok" /\ UNCHANGED kind

\* Any error, in any table, drops all that was listed.
Fail ==
    /\ status' = "error"
    /\ all' = <<>>
    /\ out' = <<>>
    /\ reg' = Reset
    /\ UNCHANGED kind

\* A faulty variant: an opcode that is cut short ends the table.
ReadLenient(o) ==
    /\ status = "running"
    /\ Length(data) < MaxOpcodes
    /\ data' = [data EXCEPT ![kind] = Append(@, o)]
    /\ IF Truncated(o) THEN EndTable
       ELSE SetRegister(o) \/ AddAddr(o) \/ DoBind(o) \/ (o.op = "DONE" /\ EndTable)

\* DONE ends the table, and so does an opcode that is not known.
ReadOpcode(o) ==
    /\ status = "running"
    /\ Length(data) < MaxOpcodes
    /\ data' = [data EXCEPT ![kind] = Append(@, o)]
    /\ IF Truncated(o) THEN Fail
       ELSE \/ SetRegister(o)
            \/ AddAddr(o)
            \/ DoBind(o)
            \/ o.op \in {"DONE", "UNKNOWN"} /\ EndTable

EndOfData ==
    /\ status = "running"
    /\ EndTable
    /\ UNCHANGED data

\* slice_linkedit: the table is not in the file.
SliceFails ==
    /\ status = "running"
    /\ data[kind] = <<>>
    /\ Fail
    /\ UNCHANGED data

Next == (\E o \in Opcodes : ReadOpcode(o)) \/ EndOfData \/ SliceFails

Spec == Init /\ [][Next]_vars

-----------------------------------------------------------------------------
(* Properties.                                                              *)

Entries == [seg : 0..15, off : 0..(Width - 1), lib : Int, symbol : STRING,
            flags : 0..15, addend : Int, type : 0..15] \X Range(Kinds)

\* Offsets stay within the width, and an error leaves nothing behind.
TypeOK ==
    /\ kind \in DOMAIN Kinds
    /\ <<reg, "bind">> \in Entries
    /\ status \in {"running", "ok", "error"}
    /\ Range(all) \cup Range(out) \subseteq Entries
    /\ status = "error" => all = <<>> /\ out = <<>> /\ reg = Reset

\* The reference.  Opcode i of a table p binds, for n in 1..Times(p[i]), the
\* symbol, ordinal, addend, type and flags that were last set before i, at the
\* last segment offset set before i plus everything skipped since.
LastSet(p, i, ops, unset) ==
    LET before == {j \in 1..(i - 1) : p[j].op \in ops}
    IN  IF before = {} THEN unset ELSE Set(Reset, p[Max(before)])

Skipped(o) ==
    IF o.op = "ADD_ADDR_ULEB" THEN o.args[1]
    ELSE IF Binds(o.op) THEN Times(o) * Pace(o) ELSE 0

\* The offset that opcode from sets, if it is not 0, and what the ones after it skip.
OffsetFrom(p, from, n) ==
    LET offset[j \in from..n] ==
            IF j > from THEN offset[j - 1] + Skipped(p[j])
            ELSE IF from = 0 THEN 0 ELSE p[from].args[1]
    IN  offset[n]

OffsetAt(p, i) ==
    LET sets == {j \in 1..(i - 1) : p[j].op = "SET_SEGMENT_AND_OFFSET_ULEB"}
    IN  OffsetFrom(p, Max(sets \cup {0}), i - 1)

BoundBy(p, i, n, k) ==
    LET symbol == LastSet(p, i, {"SET_SYMBOL_TRAILING_FLAGS_IMM"}, Reset)
    IN  <<[seg    |-> LastSet(p, i, {"SET_SEGMENT_AND_OFFSET_ULEB"}, Reset).seg,
           off    |-> (OffsetAt(p, i) + (n - 1) * Pace(p[i])) % Width,
           lib    |-> LastSet(p, i, {"SET_DYLIB_ORDINAL_IMM", "SET_DYLIB_ORDINAL_ULEB",
                                     "SET_DYLIB_SPECIAL_IMM"}, Reset).lib,
           symbol |-> symbol.symbol,
           flags  |-> symbol.flags,
           addend |-> LastSet(p, i, {"SET_ADDEND_SLEB"}, Reset).addend,
           type   |-> LastSet(p, i, {"SET_TYPE_IMM"}, Reset).type],
          Kinds[k]>>

TableBinds(p, k) ==
    FlattenSeq([i \in DOMAIN p |->
        IF Binds(p[i].op) THEN [n \in 1..Times(p[i]) |-> BoundBy(p, i, n, k)] ELSE <<>>])

\* What binds() has listed is, table after table, what the opcodes it read
\* say, whatever mixture of compressed and plain bind opcodes says it: every
\* register holds until it is set again and none survives its table, offsets
\* wrap, and nothing that was read before an end of table is lost.
ListsWhatOpcodesSay ==
    status # "error" =>
        all \o out = FlattenSeq([k \in DOMAIN Kinds |-> TableBinds(data[k], k)])

\* binds() is all or nothing: it gives up exactly when a table is cut short
\* within an opcode that it reaches, or is not in the file; what follows a
\* DONE or an unknown opcode is not looked at.
FailsOnlyWhenCutShort ==
    /\ status = "error" =>
        \/ data[kind] = <<>>
        \/ Truncated(Last(data[kind]))
    /\ \A k \in DOMAIN Kinds : \A i \in DOMAIN data[k] :
        /\ Truncated(data[k][i]) => status = "error" /\ k = kind /\ i = Len(data[k])
        /\ data[k][i].op \in {"DONE", "UNKNOWN"} => i = Len(data[k])
=============================================================================
