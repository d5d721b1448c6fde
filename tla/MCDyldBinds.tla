---------------------------- MODULE MCDyldBinds ----------------------------
(***************************************************************************)
(* Two or three opcodes of every group: registers set once and set again,   *)
(* every way to bind, offsets that pass the width, a repeat of zero and of  *)
(* two, a table that ends early and one that is cut short.                  *)
(***************************************************************************)
EXTENDS DyldBinds

Op(name, imm, args) == [op |-> name, imm |-> imm, args |-> args]

MCOpcodes ==
    {Op("DONE", 0, <<>>), Op("UNKNOWN", 0, <<>>),
     Op("SET_DYLIB_ORDINAL_IMM", 2, <<>>), Op("SET_DYLIB_ORDINAL_ULEB", 0, <<20>>),
     Op("SET_DYLIB_SPECIAL_IMM", 15, <<>>),
     Op("SET_SYMBOL_TRAILING_FLAGS_IMM", 8, <<"_objc_retain">>),
     Op("SET_TYPE_IMM", 3, <<>>), Op("SET_ADDEND_SLEB", 0, <<-1>>),
     Op("SET_SEGMENT_AND_OFFSET_ULEB", 1, <<24>>),
     Op("ADD_ADDR_ULEB", 0, <<8>>), Op("ADD_ADDR_ULEB", 0, <<>>),
     Op("DO_BIND", 0, <<>>), Op("DO_BIND_ADD_ADDR_ULEB", 0, <<12>>),
     Op("DO_BIND_ADD_ADDR_IMM_SCALED", 1, <<>>),
     Op("DO_BIND_ULEB_TIMES_SKIPPING_ULEB", 0, <<2, 8>>),
     Op("DO_BIND_ULEB_TIMES_SKIPPING_ULEB", 0, <<0, 8>>)}
=============================================================================
