------------------------------- MODULE MC_NggGs -------------------------------
(* Three waves of four lanes; max_vertices 5, so a GS invocation's output  *)
(* slots straddle a wave boundary.                                         *)
EXTENDS NggGs

E == "emit"
C == "cut"

(* Triangle strips.  Nine ES vertices over three waves; invocation 0 (in  *)
(* wave 0) reads vertices 6 and 8 of waves 1 and 2 and emits one strip of *)
(* five (primitives at slots 0, 1, 2 with windings 0, 1, 0); invocation 1 *)
(* emits a strip of two, cuts, and emits a strip of three (slot 7, whose *)
(* vertices 7, 8, 9 lie in waves 1 and 2).  A second subgroup has one     *)
(* invocation and three ES vertices.                                      *)
MCSubgroupsStrip ==
  { [vertCount |-> 9, prims |-> <<<<0, 6, 8>>, <<1, 2, 3>>>>,
     progs |-> <<<<E, E, E, E, E>>, <<E, E, C, E, E, E>>>>],
    [vertCount |-> 3, prims |-> <<<<0, 1, 2>>>>,
     progs |-> <<<<E, E, E, C, E, E>>>>] }

(* Line strips without culling: invocation 1 emits three vertices, so wave *)
(* 2 (slots 8, 9) has no drawn vertex and makes the dummy export; in the  *)
(* third subgroup every lane runs ES, and wave 2 has ES but no GS work.   *)
MCSubgroupsLine ==
  { [vertCount |-> 9, prims |-> <<<<0, 6, 8>>, <<1, 2, 3>>>>,
     progs |-> <<<<E, E, C, E, E, E>>, <<E, E, E>>>>],
    [vertCount |-> 3, prims |-> <<<<0, 1, 2>>>>,
     progs |-> <<<<E, C, E, E>>>>],
    [vertCount |-> 12, prims |-> <<<<10, 11, 0>>, <<4, 5, 6>>>>,
     progs |-> <<<<E, E, E, E, E>>, <<C, E, C, E, E>>>>] }
=============================================================================
