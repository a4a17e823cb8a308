------------------------- MODULE MC_NggStaticChecks -------------------------
(***************************************************************************)
(* The computations that depend only on the pipeline state, checked over  *)
(* their bounded input domains in one run: the LDS layout of              *)
(* layoutPrimShaderLds (NggLdsLayout), the cull-distance culler            *)
(* (NggCullDistance) and the mesh/task index arithmetic (MeshTaskIds).     *)
(* None has steps, so an initial state is one input of one of them, the    *)
(* inputs of the others held at a fixed value.  Every input of each is     *)
(* reached exactly as in a run of its own, and no product of the domains   *)
(* is built.                                                               *)
(***************************************************************************)
EXTENDS Integers, Sequences

CONSTANTS MaxThreads, MaxWaves, MaxGsStreams, MaxXfbBuffers, Configs,
          CullDistanceCount, FloatBits,
          DispatchDims, WorkgroupSizes, IndexBits, DrawDataRingNumRecords, DrawDataRingEntrySize

VARIABLES c, cullFlag, dist, dims, wgSize

L == INSTANCE NggLdsLayout
D == INSTANCE NggCullDistance
M == INSTANCE MeshTaskIds
\* the planner's size helpers, for building its inputs (no pipeline states)
Sizes == INSTANCE NggLdsLayout WITH Configs <- {}

-----------------------------------------------------------------------------
(* Pipeline states for the LDS planner.  The flags range over every        *)
(* combination the code tells apart; built-in usage flags of the stage that *)
(* is not present are off.  gsOnChipLdsSize is the value calcFactor gives:  *)
(* the aligned ES-GS LDS size, the GS extra regions and a GS-VS ring.      *)
GsExtraOf(r) ==
  LET steps == SelectSeq(<< [on |-> TRUE, sz |-> MaxThreads * MaxGsStreams],
                            [on |-> r.swXfb, sz |-> (MaxWaves + 1) * MaxGsStreams],
                            [on |-> r.swXfb, sz |-> MaxThreads * MaxGsStreams],
                            [on |-> ~r.swXfb, sz |-> (MaxWaves + 1) * MaxGsStreams],
                            [on |-> r.compactVertex /\ ~r.swXfb, sz |-> MaxThreads * MaxGsStreams],
                            [on |-> r.swXfb, sz |-> MaxXfbBuffers + MaxGsStreams] >>,
                          LAMBDA s : s.on)
  IN Sizes!SumSizes(steps)

BaseConfigs ==
  { r \in [hasGs : BOOLEAN, hasTes : BOOLEAN, passthrough : BOOLEAN, swXfb : BOOLEAN,
           compactVertex : BOOLEAN, cullDistance : BOOLEAN, vsPrimitiveId : BOOLEAN,
           vsVertexIndex : BOOLEAN, vsInstanceIndex : BOOLEAN, tesTessCoord : BOOLEAN,
           tesPrimitiveId : BOOLEAN, xfbOutputCount : {0, 1, 3}, inputMapLocCount : {0, 1, 3},
           esVerts : {3, 256}, esGsLdsSize : {5, 64}, gsVsRingSize : {0, 100}] :
      /\ r.swXfb <=> r.xfbOutputCount > 0
      /\ r.hasTes => ~r.vsPrimitiveId /\ ~r.vsVertexIndex /\ ~r.vsInstanceIndex
      /\ ~r.hasTes => ~r.tesTessCoord /\ ~r.tesPrimitiveId
      /\ r.hasGs => ~r.passthrough /\ ~r.cullDistance /\ r.esVerts = 256
      /\ ~r.hasGs => r.inputMapLocCount = 0 /\ r.esGsLdsSize = 5 /\ r.gsVsRingSize = 0
      /\ r.passthrough => ~r.compactVertex /\ ~r.cullDistance }

MCConfigs ==
  { [hasGs |-> r.hasGs, hasTes |-> r.hasTes, passthrough |-> r.passthrough, swXfb |-> r.swXfb,
     compactVertex |-> r.compactVertex, cullDistance |-> r.cullDistance,
     vsPrimitiveId |-> r.vsPrimitiveId, vsVertexIndex |-> r.vsVertexIndex,
     vsInstanceIndex |-> r.vsInstanceIndex, tesTessCoord |-> r.tesTessCoord,
     tesPrimitiveId |-> r.tesPrimitiveId, xfbOutputCount |-> r.xfbOutputCount,
     inputMapLocCount |-> r.inputMapLocCount, esVerts |-> r.esVerts, esGsLdsSize |-> r.esGsLdsSize,
     gsOnChipLdsSize |-> IF r.hasGs THEN Sizes!Align4(r.esGsLdsSize) + GsExtraOf(r) + r.gsVsRingSize ELSE 0]
    : r \in BaseConfigs }

(* Bit patterns of 1.0, -0.0 and -1.0: a positive value, a zero with the   *)
(* sign bit and a negative value.  The sign bit is all the code reads.     *)
MCFloatBits == {1065353216, -2147483647 - 1, -1082130432}

(* Dispatch sizes: every shape up to 3 in each dimension, ones included,  *)
(* so the splits meet every remainder; workgroup sizes: one and more than  *)
(* one in each dimension.                                                  *)
MCDims == (1 .. 3) \X (1 .. 3) \X (1 .. 3)
MCWorkgroupSizes == (1 .. 2) \X (1 .. 3) \X (1 .. 2)

-----------------------------------------------------------------------------
svars == <<c, cullFlag, dist, dims, wgSize>>

\* the fixed value of the part whose input is not being varied
SomeConfig == CHOOSE r \in Configs : TRUE
SomeCullInput == CHOOSE d \in [0 .. 2 -> [D!Planes -> FloatBits]] : TRUE
\* (the one-workgroup dispatch, cheap to check in the other parts' states)
SomeMeshInput == <<<<1, 1, 1>>, <<1, 1, 1>>>>
NoCullInput == cullFlag = FALSE /\ dist = SomeCullInput
NoMeshInput == dims = SomeMeshInput[1] /\ wgSize = SomeMeshInput[2]

Init ==
  \/ L!Init /\ NoCullInput /\ NoMeshInput
  \/ c = SomeConfig /\ D!Init /\ NoMeshInput
  \/ c = SomeConfig /\ NoCullInput /\ M!Init
Spec == Init /\ [][UNCHANGED svars]_svars

-----------------------------------------------------------------------------
\* NggLdsLayout!RegionsDisjoint: the LDS regions of layoutPrimShaderLds
\* share dwords only at the aliases the code documents.
RegionsDisjoint == L!RegionsDisjoint

\* NggLdsLayout!LayoutWithinAllocation: every region lies inside the LDS
\* size the usage info reports to the caller.
LayoutWithinAllocation == L!LayoutWithinAllocation

\* NggCullDistance!CullDistanceMatchesRule: the culler of doCulling ANDing
\* the packed sign masks culls exactly the triangles the API rule culls.
CullDistanceMatchesRule == D!CullDistanceMatchesRule

\* MeshTaskIds!MeshIdsRoundTrip: the WorkgroupId, LocalInvocationId and
\* GlobalInvocationId a mesh workgroup rebuilds are the API's, each
\* invocation of the dispatch named once.
MeshIdsRoundTrip == M!MeshIdsRoundTrip

\* MeshTaskIds!RingEntryLapParity: task workgroups take draw-data entries in
\* ring order with the lap parity as ready bit, across the index wrap.
RingEntryLapParity == M!RingEntryLapParity
=============================================================================
