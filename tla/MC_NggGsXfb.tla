------------------------------ MODULE MC_NggGsXfb ------------------------------
(* A draw of two GS subgroups, three waves of four lanes, max_vertices 5  *)
(* (an invocation's output slots straddle waves), triangle strips with a   *)
(* cut on streams 0 (rasterized, buffer 1) and 1 (buffers 0 and 2).        *)
(* Buffer 2 has room for four of stream 1's five primitives, so stream 1   *)
(* is clipped in the second subgroup while buffer 0 takes all of it.       *)
EXTENDS NggGsXfb

E0 == <<"emit", 0>>
E1 == <<"emit", 1>>
C0 == <<"cut", 0>>

\* stream 0: a strip of four (windings 0, 1); stream 1: one triangle
SgA == [vertCount |-> 3, prims |-> << <<0, 1, 2>> >>,
        progs |-> << <<E0, E0, E1, E0, E1, E1, E0>> >>]
\* invocation 0: a stream 1 strip of five; invocation 1 (slots 5 .. 9):
\* one triangle on each stream
SgB == [vertCount |-> 5, prims |-> << <<0, 1, 2>>, <<2, 3, 4>> >>,
        progs |-> << <<E1, E1, E1, E1, E1>>, <<E0, E0, E0, C0, E1, E1, E1>> >>]
MCSubgroups == {SgA, SgB}
MCStreamXfbBuffers == (0 :> {1}) @@ (1 :> {0, 2}) @@ (2 :> {}) @@ (3 :> {})
MCStrideDw == (0 :> 1) @@ (1 :> 2) @@ (2 :> 2)
MCBufOffsetDw == (0 :> 1) @@ (1 :> 3) @@ (2 :> 2)
MCDrawAB == <<SgA, SgB>>
MCBufSizeDwAB == (0 :> 30) @@ (1 :> 21) @@ (2 :> 31)

\* the constant parts of the mapping, evaluated once
PrimCounts0 == StreamPrimCounts(0)
PrimCounts1 == StreamPrimCounts(1)
Capacity0 == StreamCapacity(0)
Capacity1 == StreamCapacity(1)
Stream0 == INSTANCE XfbReservation
  WITH PrimCounts <- PrimCounts0, Capacity <- Capacity0,
       next <- orderedNext, reserved <- ReservedPrims(0), written <- StoredSlots(0)
Stream1 == INSTANCE XfbReservation
  WITH PrimCounts <- PrimCounts1, Capacity <- Capacity1,
       next <- orderedNext, reserved <- ReservedPrims(1), written <- StoredSlots(1)

\* Each vertex stream of processSwXfbWithGs that feeds buffers (here 0 and
\* 1) implements XfbReservation: the ordered section, which spans the
\* buffers of every stream, reserves for the stream in subgroup order and
\* clamped to its buffers; a wave stores only into slots its subgroup
\* reserved; and with fair scheduling every reserved slot gets written.
GsXfbRefinesReservation == Stream0!Spec /\ Stream1!Spec
=============================================================================
