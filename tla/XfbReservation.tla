---------------------------- MODULE XfbReservation ----------------------------
(***************************************************************************)
(* What SW transform feedback promises a draw, whatever the subgroups'      *)
(* interleaving: the subgroups reserve stream-out space one at a time in   *)
(* API order, each taking as many of its primitives as still fit, so the   *)
(* reserved primitives are always a prefix of the primitive stream; every  *)
(* reserved primitive is eventually written, and nothing else is.          *)
(* A primitive is named by its slot in the stream (0, 1, ...).             *)
(***************************************************************************)
EXTENDS Naturals, Sequences

CONSTANTS
  PrimCounts,   \* primitives of each subgroup, in ordered order
  Capacity      \* primitives the buffers have room for

VARIABLES
  next,         \* the subgroup whose reservation comes next
  reserved,     \* primitives reserved so far (slots 0 .. reserved - 1)
  written       \* the slots written to the buffers

avars == <<next, reserved, written>>

Init == next = 1 /\ reserved = 0 /\ written = {}

\* one subgroup's reservation, atomic and in order, clamped to what is left
Reserve ==
  /\ next <= Len(PrimCounts)
  /\ reserved' = reserved + (IF PrimCounts[next] < Capacity - reserved
                             THEN PrimCounts[next] ELSE Capacity - reserved)
  /\ next' = next + 1
  /\ UNCHANGED written

\* some reserved slots written, by whichever waves get there
Write ==
  \E S \in SUBSET ((0 .. (reserved - 1)) \ written) :
    /\ S # {}
    /\ written' = written \cup S
    /\ UNCHANGED <<next, reserved>>

Next == Reserve \/ Write

Spec == Init /\ [][Next]_avars /\ WF_avars(Reserve) /\ WF_avars(Write)

=============================================================================
