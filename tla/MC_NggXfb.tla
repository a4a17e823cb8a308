------------------------------ MODULE MC_NggXfb ------------------------------
(* A draw of three subgroups of two waves of three lanes, writing to buffers *)
(* 0 and 2 (buffer 1 inactive) with different strides.  Buffer 2 has room *)
(* for six of the seven primitives, so the third subgroup is clipped        *)
(* part-way and buffer 0, with room for all seven, is clipped with it.      *)
EXTENDS NggXfb

SgA == [vertCount |-> 3, prims |-> << <<0, 1, 2>> >>]
SgB == [vertCount |-> 4, prims |-> << <<0, 1, 2>>, <<2, 1, 3>>, <<3, 2, 0>>, <<1, 3, 0>> >>]
SgC == [vertCount |-> 3, prims |-> << <<0, 1, 2>>, <<2, 1, 0>> >>]
MCSubgroups == {SgA, SgB, SgC}
MCDraw == <<SgA, SgB, SgC>>
MCStrideDw == (0 :> 1) @@ (1 :> 0) @@ (2 :> 2)
MCBufSizeDw == (0 :> 23) @@ (1 :> 0) @@ (2 :> 43)
MCBufOffsetDw == (0 :> 2) @@ (1 :> 0) @@ (2 :> 5)
=============================================================================
