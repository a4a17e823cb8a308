---------------------------- MODULE MC_SpirvEntry ----------------------------
(* Two ids: id 1 is defined by an OpFunction (the entry point), id 2 by an  *)
(* OpVariable or an OpTypeStruct (an interface variable or a block type).   *)
(* The names have 3 and 4 bytes: a 4-byte name takes a whole extra word for *)
(* its terminating nul.  The execution modes cover the three literal counts *)
(* the decoder tells apart and the merged float-control kind.               *)
EXTENDS SpirvEntry

MCNameLength == [n \in {"", "foo", "main"} |-> CASE n = "" -> 0 [] n = "foo" -> 3 [] OTHER -> 4]

MCEntryPointInstrs ==
  [model : {"GLCompute"}, target : {1}, name : {"foo", "main"}, inOuts : {<<>>, <<2>>, <<2, 1>>}]

MCModeInstrs ==
  { [target |-> 1, mode |-> "LocalSize", words |-> <<8, 8, 1>>],
    [target |-> 1, mode |-> "DenormPreserve", words |-> <<32>>],
    [target |-> 1, mode |-> "OriginUpperLeft", words |-> <<>>] }

MCDecorationInstrs ==
  { [kind |-> "Location", lit |-> 0, lname |-> ""],
    [kind |-> "LinkageAttributes", lit |-> 1, lname |-> "foo"] }
=============================================================================
