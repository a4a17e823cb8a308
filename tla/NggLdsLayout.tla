----------------------------- MODULE NggLdsLayout -----------------------------
(***************************************************************************)
(* The LDS planner of the primitive shader: calcEsGsRingItemSize,           *)
(* calcVertexCullInfoSizeAndOffsets and layoutPrimShaderLds.  The planner   *)
(* is a pure function of the pipeline state; the one variable is the       *)
(* pipeline state, drawn from every configuration of the bounded domain.   *)
(* layoutPrimShaderLds keeps the code's separate accumulators: the running *)
(* offset and the extra LDS sizes reported to the caller, which the code   *)
(* updates in separate statements.  calcVertexCullInfoSizeAndOffsets       *)
(* advances its size and its offset by the same itemSize for every field,  *)
(* so both are folded from one list of fields.                             *)
(***************************************************************************)
EXTENDS Integers, Sequences, SequencesExt, Bitwise, TLC

CONSTANTS
  Configs,          \* pipeline states: see the fields below
  MaxThreads,       \* Gfx9::NggMaxThreadsPerSubgroup
  MaxWaves,         \* Gfx9::NggMaxWavesPerSubgroup
  MaxGsStreams,     \* MaxGsStreams
  MaxXfbBuffers     \* MaxTransformFeedbackBuffers

VARIABLE c          \* the pipeline state

(* c.hasGs, c.hasTes, c.passthrough (NGG passthrough mode), c.swXfb         *)
(* (enableSwXfb), c.compactVertex, c.cullDistance                           *)
(* (enableCullDistanceCulling), c.vsPrimitiveId, c.vsVertexIndex,           *)
(* c.vsInstanceIndex, c.tesTessCoord, c.tesPrimitiveId (built-in usage),    *)
(* c.xfbOutputCount (xfbOutputExpCount), c.inputMapLocCount (GS inputs),    *)
(* c.esVerts (esVertsPerSubgroup), c.esGsLdsSize, c.gsOnChipLdsSize.        *)

SumSizes(items) == FoldLeft(LAMBDA acc, it : acc + it.sz, 0, items)
Align4(n) == ((n + 3) \div 4) * 4

(***************************************************************************)
(* calcVertexCullInfoSizeAndOffsets: the VertexCullInfo fields present, in *)
(* the order the code appends them; every field is one dword except the   *)
(* <4 x dword> transform feedback outputs.                                *)
(***************************************************************************)
CullInfoItems ==
  SelectSeq(
    << [f |-> "xfbOutputs",           sz |-> 4 * c.xfbOutputCount, on |-> c.swXfb],
       [f |-> "cullDistanceSignMask", sz |-> 1, on |-> c.cullDistance],
       [f |-> "drawFlag",             sz |-> 1, on |-> TRUE],
       [f |-> "compactedVertexIndex", sz |-> 1, on |-> c.compactVertex],
       [f |-> "tessCoordX",           sz |-> 1, on |-> c.compactVertex /\ c.hasTes /\ c.tesTessCoord],
       [f |-> "tessCoordY",           sz |-> 1, on |-> c.compactVertex /\ c.hasTes /\ c.tesTessCoord],
       [f |-> "relPatchId",           sz |-> 1, on |-> c.compactVertex /\ c.hasTes],
       [f |-> "patchId",              sz |-> 1, on |-> c.compactVertex /\ c.hasTes /\ c.tesPrimitiveId],
       [f |-> "vertexId",             sz |-> 1, on |-> c.compactVertex /\ ~c.hasTes /\ c.vsVertexIndex],
       [f |-> "instanceId",           sz |-> 1, on |-> c.compactVertex /\ ~c.hasTes /\ c.vsInstanceIndex],
       [f |-> "primitiveId",          sz |-> 1, on |-> c.compactVertex /\ ~c.hasTes /\ c.vsPrimitiveId] >>,
    LAMBDA it : it.on)

\* the running cullInfoOffset: field -> offset
CullInfoOffsets ==
  LET step(acc, it) == [off |-> acc.off + it.sz, map |-> acc.map @@ (it.f :> acc.off)]
  IN FoldLeft(step, [off |-> 0, map |-> <<>>], CullInfoItems).map

\* the returned cullInfoSize (0 with API GS or in passthrough mode)
CullInfoSize == IF c.hasGs \/ c.passthrough THEN 0 ELSE SumSizes(CullInfoItems)

\* calcEsGsRingItemSize (made odd by "| 1")
EsGsRingItemSize ==
  IF c.hasGs THEN (4 * (IF c.inputMapLocCount > 1 THEN c.inputMapLocCount ELSE 1)) | 1
  ELSE IF c.passthrough THEN (IF c.swXfb THEN c.xfbOutputCount * 4 ELSE 1) | 1
  ELSE CullInfoSize | 1

DistributePrimitiveId == ~c.hasTes /\ c.vsPrimitiveId

(***************************************************************************)
(* layoutPrimShaderLds as the steps it takes: "place" puts a region at the *)
(* running offset and advances it, "alias" gives a region the place of an *)
(* earlier one, "reset" sets the offset back to 0.  Each step also says    *)
(* what it adds to esExtraLdsSize / gsExtraLdsSize.                        *)
(***************************************************************************)
Place(r, sz, on, es, gs) == [k |-> "place", r |-> r, sz |-> sz, on |-> on, es |-> es, gs |-> gs]
Alias(r, of, on) == [k |-> "alias", r |-> r, of |-> of, sz |-> 0, on |-> on, es |-> 0, gs |-> 0]
Reset == [k |-> "reset", r |-> "none", sz |-> 0, on |-> TRUE, es |-> 0, gs |-> 0]

\* the regions before the GS-VS ring, which takes the rest of gsOnChipLdsSize
GsStepsBeforeRing ==
  << Place("EsGsRing", Align4(c.esGsLdsSize), TRUE, 0, 0),
     Place("PrimitiveData", MaxThreads * MaxGsStreams, TRUE, 0, MaxThreads * MaxGsStreams),
     Place("PrimitiveCounts", (MaxWaves + 1) * MaxGsStreams, c.swXfb, 0, (MaxWaves + 1) * MaxGsStreams),
     Place("PrimitiveIndexMap", MaxThreads * MaxGsStreams, c.swXfb, 0, MaxThreads * MaxGsStreams),
     Alias("VertexCounts", "PrimitiveCounts", c.swXfb),
     Place("VertexCounts", (MaxWaves + 1) * MaxGsStreams, ~c.swXfb, 0, (MaxWaves + 1) * MaxGsStreams),
     Alias("VertexIndexMap", "PrimitiveIndexMap", c.compactVertex /\ c.swXfb),
     Place("VertexIndexMap", MaxThreads * MaxGsStreams, c.compactVertex /\ ~c.swXfb,
           0, MaxThreads * MaxGsStreams),
     Place("XfbStats", MaxXfbBuffers + MaxGsStreams, c.swXfb, 0, MaxXfbBuffers + MaxGsStreams) >>
GsSteps ==
  LET gsExtra == SumSizes([i \in DOMAIN GsStepsBeforeRing |->
                             [sz |-> IF GsStepsBeforeRing[i].on THEN GsStepsBeforeRing[i].gs ELSE 0]])
  IN Append(GsStepsBeforeRing,
            Place("GsVsRing", c.gsOnChipLdsSize - Align4(c.esGsLdsSize) - gsExtra, TRUE, 0, 0))

PassthroughSteps ==
  << Place("DistributedPrimitiveId", c.esVerts, DistributePrimitiveId, 0, 0),
     Reset,
     Place("XfbOutput", c.esVerts * EsGsRingItemSize, c.swXfb, 0, 0),
     Place("XfbStats", MaxXfbBuffers + 1, c.swXfb, MaxXfbBuffers + 1, 0) >>

\* variant: the vertex index map not added to esExtraLdsSize
CullingStepsMapNotCounted ==
  << Place("DistributedPrimitiveId", c.esVerts, DistributePrimitiveId, 0, 0),
     Reset,
     Place("VertexPosition", 4 * MaxThreads, TRUE, 4 * MaxThreads, 0),
     Place("VertexCullInfo", EsGsRingItemSize * c.esVerts, TRUE, 0, 0),
     Place("XfbStats", MaxXfbBuffers + 1, c.swXfb, MaxXfbBuffers + 1, 0),
     Place("VertexCounts", MaxWaves + 1, TRUE, MaxWaves + 1, 0),
     Place("VertexIndexMap", MaxThreads, c.compactVertex, 0, 0) >>
CullingSteps ==
  << Place("DistributedPrimitiveId", c.esVerts, DistributePrimitiveId, 0, 0),
     Reset,
     Place("VertexPosition", 4 * MaxThreads, TRUE, 4 * MaxThreads, 0),
     Place("VertexCullInfo", EsGsRingItemSize * c.esVerts, TRUE, 0, 0),
     Place("XfbStats", MaxXfbBuffers + 1, c.swXfb, MaxXfbBuffers + 1, 0),
     Place("VertexCounts", MaxWaves + 1, TRUE, MaxWaves + 1, 0),
     Place("VertexIndexMap", MaxThreads, c.compactVertex, MaxThreads, 0) >>

LayoutSteps ==
  SelectSeq(IF c.hasGs THEN GsSteps ELSE IF c.passthrough THEN PassthroughSteps ELSE CullingSteps,
            LAMBDA s : s.on)

\* variant: a region placed without advancing ldsOffset past it
LdsLayoutNoAdvance ==
  LET step(acc, s) ==
        CASE s.k = "place" -> [off |-> acc.off, map |-> acc.map @@ (s.r :> <<acc.off, s.sz>>)]
          [] s.k = "alias" -> [off |-> acc.off, map |-> acc.map @@ (s.r :> acc.map[s.of])]
          [] OTHER -> [off |-> 0, map |-> acc.map]
  IN FoldLeft(step, [off |-> 0, map |-> <<>>], LayoutSteps).map
\* the LDS layout: region -> <<offset, size>> (in dwords)
LdsLayout ==
  LET step(acc, s) ==
        CASE s.k = "place" -> [off |-> acc.off + s.sz, map |-> acc.map @@ (s.r :> <<acc.off, s.sz>>)]
          [] s.k = "alias" -> [off |-> acc.off, map |-> acc.map @@ (s.r :> acc.map[s.of])]
          [] OTHER -> [off |-> 0, map |-> acc.map]
  IN FoldLeft(step, [off |-> 0, map |-> <<>>], LayoutSteps).map

\* PrimShaderLdsUsageInfo
NeedsLds == c.hasGs \/ ~c.passthrough \/ DistributePrimitiveId \/ c.swXfb
EsExtraLdsSize == SumSizes([i \in DOMAIN LayoutSteps |-> [sz |-> LayoutSteps[i].es]])
GsExtraLdsSize == SumSizes([i \in DOMAIN LayoutSteps |-> [sz |-> LayoutSteps[i].gs]])

Init == c \in Configs
Next == UNCHANGED c
Spec == Init /\ [][Next]_c

-----------------------------------------------------------------------------
\* the aliases the code documents ("overlapped with ...")
AliasPairs == {{"DistributedPrimitiveId", "VertexPosition"}, {"DistributedPrimitiveId", "XfbOutput"},
               {"VertexCounts", "PrimitiveCounts"}, {"VertexIndexMap", "PrimitiveIndexMap"}}
Overlap(a, b) == a[2] > 0 /\ b[2] > 0 /\ a[1] < b[1] + b[2] /\ b[1] < a[1] + a[2]

\* Two LDS regions of layoutPrimShaderLds share dwords only where the code
\* documents the alias, in every pipeline configuration.
RegionsDisjoint ==
  \A r1, r2 \in DOMAIN LdsLayout :
    r1 # r2 /\ Overlap(LdsLayout[r1], LdsLayout[r2]) => {r1, r2} \in AliasPairs

\* Every region lies inside the LDS the usage info asks for: with an API GS
\* gsOnChipLdsSize, otherwise the ES-GS ring (esGsRingItemSize dwords per
\* vertex) plus esExtraLdsSize and gsExtraLdsSize; and no size wrapped.
LayoutWithinAllocation ==
  LET allocated == IF c.hasGs THEN c.gsOnChipLdsSize
                   ELSE EsGsRingItemSize * c.esVerts + EsExtraLdsSize + GsExtraLdsSize
  IN /\ \A r \in DOMAIN LdsLayout : LdsLayout[r][2] >= 0 /\ LdsLayout[r][1] + LdsLayout[r][2] <= allocated
     /\ DOMAIN LdsLayout # {} => NeedsLds

=============================================================================
