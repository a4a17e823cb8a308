------------------------- MODULE MC_NggPassthrough -------------------------
(* Three waves of four lanes.  Subgroups: nine vertices and primitives over *)
(* all three waves, with provoking vertex 8 written by primitives of every  *)
(* wave (last-vertex convention) and vertex 0 by two waves (first-vertex);  *)
(* five vertices over two waves; three vertices in one wave.                *)
EXTENDS NggPassthrough

MCSubgroups ==
  { [vertCount |-> 9, prims |-> <<<<0, 1, 8>>, <<1, 2, 3>>, <<2, 3, 8>>, <<3, 4, 5>>, <<0, 5, 8>>,
                                  <<5, 6, 7>>, <<6, 7, 2>>, <<7, 0, 8>>, <<0, 2, 4>>>>],
    [vertCount |-> 5, prims |-> <<<<0, 1, 2>>, <<2, 1, 3>>, <<2, 3, 4>>, <<0, 4, 3>>, <<4, 1, 3>>>>],
    [vertCount |-> 3, prims |-> <<<<0, 1, 2>>>>] }
=============================================================================
