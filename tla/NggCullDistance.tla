---------------------------- MODULE NggCullDistance ----------------------------
(***************************************************************************)
(* Cull-distance culling: each vertex packs the sign bits of its cull      *)
(* distances into a mask (".writeVertCullData" without API GS,            *)
(* fetchCullDistanceSignMask with it), and the culler of doCulling ANDs    *)
(* the masks of a triangle's three vertices (createCullDistanceCuller),    *)
(* unless an earlier culler already culled it.  A cull distance is held as *)
(* its IEEE bit pattern, a 32-bit integer as TLC keeps it (sign bit set =  *)
(* negative integer), which is what the code's bitcast gives.              *)
(***************************************************************************)
EXTENDS Integers, Bitwise

CONSTANTS
  CullDistanceCount,   \* builtInUsage.cullDistance (1 .. MaxClipCullDistanceCount)
  FloatBits            \* cull-distance bit patterns to try

VARIABLES
  cullFlag,            \* the cull flag the earlier cullers of doCulling produced
  dist                 \* dist[v][i]: cull distance i of the triangle's vertex v

vars == <<cullFlag, dist>>
Planes == 0 .. (CullDistanceCount - 1)

\* createUBfe(bitcast(d), 31, 1) of a 32-bit pattern (two shifts: TLC's
\* integers have no 2^31)
SignBit(bits) == ((bits \div 2^30) \div 2) % 2

\* the loop "signMask |= signBit << i" over the cull distances
RECURSIVE SignMaskFrom(_, _)
SignMaskFrom(d, i) ==
  IF i >= CullDistanceCount THEN 0
  ELSE SignMaskFrom(d, i + 1) | (SignBit(d[i]) * 2^i)
SignMask(d) == SignMaskFrom(d, 0)

\* variant: the three vertex masks ORed instead of ANDed
CullDistanceCullerAny(flag, m0, m1, m2) == flag \/ ((m0 | m1) | m2) # 0
\* createCullDistanceCuller: early exit if already culled, else AND the masks
CullDistanceCuller(flag, m0, m1, m2) == flag \/ ((m0 & m1) & m2) # 0

\* doCulling's cull-distance step: fetch the three masks, run the culler
DoCullDistanceCulling == CullDistanceCuller(cullFlag, SignMask(dist[0]), SignMask(dist[1]), SignMask(dist[2]))

Init ==
  /\ cullFlag \in BOOLEAN
  /\ dist \in [0 .. 2 -> [Planes -> FloatBits]]
Next == UNCHANGED vars
Spec == Init /\ [][Next]_vars

-----------------------------------------------------------------------------
\* The API rule in terms of the bit patterns: a triangle is culled when an
\* earlier culler culled it or when, for some plane, all three of its
\* vertices have a cull distance with the sign bit set.
CulledByApiRule == cullFlag \/ \E i \in Planes : \A v \in 0 .. 2 : dist[v][i] < 0

\* The culler's verdict on the packed sign masks is the API rule on the
\* distances, for every combination of up to the configured count of planes.
CullDistanceMatchesRule == DoCullDistanceCulling = CulledByApiRule

=============================================================================
