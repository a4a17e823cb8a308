--------------------------- MODULE MC_NggCulling ---------------------------
(* Two waves of three lanes (WaveCount < WaveSize, as 8 < 32 and 4 < 64).   *)
(* Three subgroups: five vertices and four primitives spread over both      *)
(* waves, where primitives 1 and 2 share provoking vertex 2 in one wave and *)
(* primitives 0 and 3 share provoking vertex 0 across the waves (first-     *)
(* vertex convention) or 4 and 3 (last-vertex convention); four vertices    *)
(* whose second wave holds one vertex; three vertices, below the threshold, *)
(* for runtime passthrough.                                                 *)
EXTENDS NggCulling

MCSubgroups ==
  { [vertCount |-> 5, prims |-> <<<<0, 1, 2>>, <<2, 1, 3>>, <<2, 3, 4>>, <<0, 4, 3>>>>],
    [vertCount |-> 4, prims |-> <<<<0, 1, 3>>, <<3, 2, 1>>>>],
    [vertCount |-> 3, prims |-> <<<<0, 1, 2>>>>] }
=============================================================================
