-------------------------------- MODULE NggGs --------------------------------
(***************************************************************************)
(* The primitive shader NggPrimShader::buildPrimShaderWithGs generates when *)
(* an API GS is present, without SW transform feedback and on the          *)
(* rasterization stream only.  Primitive amplification is max_vertices     *)
(* (the NOTE at the top of the function), so GS invocation i owns the     *)
(* output slots i * MaxVerts .. i * MaxVerts + MaxVerts - 1 and the output *)
(* vertex and primitive counts of the subgroup are both G * MaxVerts.      *)
(* The GS itself is an input: for each invocation, the sequence of its      *)
(* EmitVertex / EndPrimitive calls (GS_EMIT, GS_CUT).                     *)
(***************************************************************************)
EXTENDS NggCommon

CONSTANTS
  CompactVertex,     \* m_nggControl->compactVertex
  CullingMode,       \* !m_nggControl->passthroughMode
  MaxVerts,          \* geometryMode.outputVertices (max_vertices)
  VertsPerPrim       \* getVerticesPerPrimitive: points 1, line_strip 2, triangle_strip 3

ASSUME /\ CompactVertex \in BOOLEAN /\ CullingMode \in BOOLEAN
       /\ MaxVerts \in Nat \ {0} /\ VertsPerPrim \in 1..3
       /\ CullingMode => VertsPerPrim = 3          \* assert in ".culling"

\* sg.vertCount ES vertices, sg.prims the ES vertices of each GS input
\* primitive, sg.progs the GS_EMIT/GS_CUT sequence of each invocation
ASSUME \A s \in Subgroups :
         /\ Len(s.progs) = Len(s.prims)
         /\ Len(s.prims) * MaxVerts <= Cardinality(Threads)
         /\ \A i \in DOMAIN s.progs :
              /\ \A k \in DOMAIN s.progs[i] : s.progs[i][k] \in {"emit", "cut"}
              /\ Cardinality({k \in DOMAIN s.progs[i] : s.progs[i][k] = "emit"}) <= MaxVerts

VARIABLES
  sg,           \* the subgroup being processed
  pc,           \* pc[w]: the block wave w is at; B1..B5 wait at a barrier
  esGsRing,     \* ES-GS ring: the ES output of each ES vertex
  gsIn,         \* the ES outputs GS invocation i read (esGsOffset0..2)
  gsVsRing,     \* GS-VS ring (raster stream): the GS output vertex in each slot
  primData,     \* PrimitiveData region (raster stream): NullPrim or a winding
  vertCounts,   \* VertexCounts region (raster stream)
  vertIndexMap, \* VertexIndexMap region: compacted -> uncompacted slot
  reg,          \* per lane: drawFlag, compactedVertexIndex
  wave,         \* per wave: outVertCountInWave, vertCountInSubgroup, m_compactVertex
  culled,       \* the primitives (vertices the culler read) doCulling culled
  allocReq,     \* m0 of GS_ALLOC_REQ, or NoValue
  primExp,      \* primitive export of each thread, or NoValue
  posExp        \* vertex export (copy shader) of each thread, or NoValue

vars == <<sg, pc, esGsRing, gsIn, gsVsRing, primData, vertCounts, vertIndexMap,
          reg, wave, culled, allocReq, primExp, posExp>>

GsPrimCount == Len(sg.prims)
\* mergedGroupInfo with amplification max_vertices
PrimCountInSubgroup == GsPrimCount * MaxVerts
VertCountInSubgroup == GsPrimCount * MaxVerts
Launched == {w \in Waves : CountInWave(sg.vertCount, w) + CountInWave(PrimCountInSubgroup, w) > 0}
EsThreads(w) == {t \in ThreadsOf(w) : LaneOf(t) < CountInWave(sg.vertCount, w)}
GsThreads(w) == {t \in ThreadsOf(w) : LaneOf(t) < CountInWave(GsPrimCount, w)}

EsOut(v) == <<"es", v>>
GsVert(i, k) == <<"gs", i, k>>
Stale == 1                        \* LDS left by a previous subgroup
Emits(i) == Cardinality({k \in DOMAIN sg.progs[i + 1] : sg.progs[i + 1][k] = "emit"})

(***************************************************************************)
(* The GS_EMIT handler (createGsEmitHandler) and GS_CUT handler over one   *)
(* invocation's calls: the <<N, winding>> pairs written to PrimitiveData. *)
(***************************************************************************)
RECURSIVE EmitRun(_, _, _, _)
\* variant: winding taken from outVerts instead of outVerts - outVertsPerPrim
EmitWindingOfOutVerts(ov) == IF VertsPerPrim = 3 THEN ov % 2 ELSE 0
EmitWinding(ov) == IF VertsPerPrim = 3 THEN (ov - VertsPerPrim) % 2 ELSE 0
EmitRun(i, prog, emitVerts, outVerts) ==
  IF prog = <<>> THEN {}
  ELSE IF Head(prog) = "cut" THEN EmitRun(i, Tail(prog), emitVerts, 0)
  ELSE LET ev == emitVerts + 1
           ov == outVerts + 1
       IN (IF ov >= VertsPerPrim
           THEN {<<i * MaxVerts + ev - VertsPerPrim, EmitWinding(ov)>>} ELSE {})
          \cup EmitRun(i, Tail(prog), ev, ov)

\* GS-VS ring slot of invocation i's k-th emitted vertex (exportGsOutput)
GsVsSlot(i, k) == i * MaxVerts + k
RingAt(s) == IF s \in Threads THEN gsVsRing[s] ELSE NoValue

Init ==
  /\ sg \in Subgroups
  /\ pc = [w \in Waves |-> IF w \in Launched THEN "es" ELSE "done"]
  /\ esGsRing = [v \in Threads |-> NoValue]
  /\ gsIn = [i \in Threads |-> NoValue]
  /\ gsVsRing = [s \in Threads |-> NoValue]
  /\ primData = [s \in Threads |-> Stale]
  /\ vertCounts = [c \in 0..WaveCount |-> Stale]
  /\ vertIndexMap = [s \in Threads |-> Stale]
  /\ reg = [t \in Threads |-> [drawFlag |-> FALSE, compIdx |-> t]]
  /\ wave = [w \in Waves |-> [outVertCount |-> 0, vertCount |-> VertCountInSubgroup, compact |-> FALSE]]
  /\ culled = {}
  /\ allocReq = NoValue
  /\ primExp = [t \in Threads |-> NoValue]
  /\ posExp = [t \in Threads |-> NoValue]

\* variant: no barrier between ".initOutPrimData" and ".beginGs"
RunEsNoBarrier(w) ==
  /\ pc[w] = "es"
  /\ esGsRing' = [v \in Threads |-> IF v \in EsThreads(w) THEN EsOut(v) ELSE esGsRing[v]]
  /\ primData' = [s \in Threads |-> IF s \in ThreadsOf(w) /\ s < PrimCountInSubgroup
                                   THEN NullPrim ELSE primData[s]]
  /\ pc' = [pc EXCEPT ![w] = "gs"]
  /\ UNCHANGED <<sg, gsIn, gsVsRing, vertCounts, vertIndexMap, reg, wave, culled, allocReq, primExp, posExp>>

\* ".entry", ".beginEs" (runEs), ".initOutPrimData"
RunEs(w) ==
  /\ pc[w] = "es"
  /\ esGsRing' = [v \in Threads |-> IF v \in EsThreads(w) THEN EsOut(v) ELSE esGsRing[v]]
  /\ primData' = [s \in Threads |-> IF s \in ThreadsOf(w) /\ s < PrimCountInSubgroup
                                   THEN NullPrim ELSE primData[s]]
  /\ pc' = [pc EXCEPT ![w] = "B1"]
  /\ UNCHANGED <<sg, gsIn, gsVsRing, vertCounts, vertIndexMap, reg, wave, culled, allocReq, primExp, posExp>>

\* runGs: the ES outputs at esGsOffset0..2 of invocation i
GsInputs(i) == [k \in 1..3 |-> esGsRing[sg.prims[i + 1][k]]]

\* ".beginGs" (runGs, with GS_EMIT/GS_CUT handled as above), ".initOutVertCount"
RunGs(w) ==
  LET inv == GsThreads(w)
      writes == UNION {EmitRun(i, sg.progs[i + 1], 0, 0) : i \in inv}
      emitted == {<<i, k>> \in inv \X (0 .. (MaxVerts - 1)) : k < Emits(i)}
  IN
  /\ pc[w] = "gs"
  /\ gsIn' = [i \in Threads |-> IF i \in inv THEN GsInputs(i) ELSE gsIn[i]]
  /\ gsVsRing' = [s \in Threads |-> IF \E e \in emitted : GsVsSlot(e[1], e[2]) = s
                                    THEN LET e == CHOOSE e \in emitted : GsVsSlot(e[1], e[2]) = s
                                         IN GsVert(e[1], e[2])
                                    ELSE gsVsRing[s]]
  /\ primData' = [s \in Threads |-> IF \E wr \in writes : wr[1] = s
                                   THEN (CHOOSE wr \in writes : wr[1] = s)[2] ELSE primData[s]]
  /\ vertCounts' = [c \in 0..WaveCount |-> IF c \in ThreadsOf(w) THEN 0 ELSE vertCounts[c]]
  /\ pc' = [pc EXCEPT ![w] = "B2"]
  /\ UNCHANGED <<sg, esGsRing, vertIndexMap, reg, wave, culled, allocReq, primExp, posExp>>

\* the vertices doCulling reads for primitive N: <N, N+1, N+2> or <N, N+2, N+1>
CullerPrim(t) ==
  LET winding == primData[t] # 0
  IN <<RingAt(t), RingAt(t + IF winding THEN 2 ELSE 1), RingAt(t + IF winding THEN 1 ELSE 2)>>

\* ".culling", ".nullifyOutPrimData"; the cullers' verdict is free
Culling(w) ==
  LET cand == {t \in ThreadsOf(w) : primData[t] # NullPrim /\ t < PrimCountInSubgroup}
  IN
  /\ pc[w] = "cull"
  /\ \E cull \in SUBSET cand :
       /\ culled' = culled \cup {CullerPrim(t) : t \in cull}
       /\ primData' = [s \in Threads |-> IF s \in cull THEN NullPrim ELSE primData[s]]
  /\ pc' = [pc EXCEPT ![w] = "B3"]
  /\ UNCHANGED <<sg, esGsRing, gsIn, gsVsRing, vertCounts, vertIndexMap, reg, wave, allocReq, primExp, posExp>>

\* variant: only primitive N looked at
DrawFlagOwnOnly(t) == t < VertCountInSubgroup /\ primData[t] # NullPrim
\* ".checkOutVertDrawFlag": slot N is drawn if primitive N, N-1 or N-2 is
DrawFlag(t) ==
  /\ t < VertCountInSubgroup
  /\ \E d \in 0 .. (VertsPerPrim - 1) : t >= d /\ primData[t - d] # NullPrim

\* ".checkOutVertDrawFlag", ".endCheckOutVertDrawFlag" (ballot, popcount),
\* ".accumOutVertCount" (atomic adds into VertexCounts[waveId + lane + 1])
CheckOutVertDrawFlag(w) ==
  LET drawn == {t \in ThreadsOf(w) : DrawFlag(t)}
      n == Cardinality(drawn)
  IN
  /\ pc[w] = "check"
  /\ reg' = [t \in Threads |-> IF t \in ThreadsOf(w) THEN [reg[t] EXCEPT !.drawFlag = t \in drawn]
                               ELSE reg[t]]
  /\ wave' = [wave EXCEPT ![w].outVertCount = n]
  /\ vertCounts' = [c \in 0..WaveCount |-> IF c > w THEN vertCounts[c] + n ELSE vertCounts[c]]
  /\ pc' = [pc EXCEPT ![w] = "B4"]
  /\ UNCHANGED <<sg, esGsRing, gsIn, gsVsRing, primData, vertIndexMap, culled, allocReq, primExp, posExp>>

\* ".endAccumOutVertCount" without compaction: wave 0 sends GS_ALLOC_REQ
EndAccumOutVertCountNoCompact(w) ==
  /\ pc[w] = "compact"
  /\ ~CompactVertex
  /\ allocReq' = IF w = 0 THEN GsAllocReq(PrimCountInSubgroup, VertCountInSubgroup) ELSE allocReq
  /\ pc' = [pc EXCEPT ![w] = "export"]
  /\ UNCHANGED <<sg, esGsRing, gsIn, gsVsRing, primData, vertCounts, vertIndexMap, reg, wave, culled,
                 primExp, posExp>>

\* the compacted index of a drawn lane: vertCountInPrevWaves + mbcnt(drawMask)
CompactedIndex(w, t) ==
  vertCounts[w] + Cardinality({u \in ThreadsOf(w) : u < t /\ reg[u].drawFlag})

\* m_nggInputs.vertCountInSubgroup after the accumulation
\* variant: the subgroup's vertex count left as GE gave it
UpdatedVertCountStale(newCount) == VertCountInSubgroup
UpdatedVertCount(newCount) == newCount

\* ".endAccumOutVertCount" with compaction (readlane of the counts),
\* ".compactOutVertId", ".endCompactOutVertId" and ".allocReq" (wave 0)
CompactOutVertId(w) ==
  LET newCount == vertCounts[WaveCount]
      hasCulled == newCount < VertCountInSubgroup
      moved == {t \in ThreadsOf(w) : reg[t].drawFlag /\ hasCulled}
  IN
  /\ pc[w] = "compact"
  /\ CompactVertex
  /\ wave' = [wave EXCEPT ![w].vertCount = UpdatedVertCount(newCount), ![w].compact = hasCulled]
  /\ reg' = [t \in Threads |-> IF t \in moved THEN [reg[t] EXCEPT !.compIdx = CompactedIndex(w, t)]
                               ELSE reg[t]]
  /\ vertIndexMap' = [s \in Threads |-> IF \E t \in moved : CompactedIndex(w, t) = s
                                        THEN CHOOSE t \in moved : CompactedIndex(w, t) = s
                                        ELSE vertIndexMap[s]]
  /\ allocReq' = IF w = 0 THEN GsAllocReq(PrimCountInSubgroup, UpdatedVertCount(newCount)) ELSE allocReq
  /\ pc' = [pc EXCEPT ![w] = "B5"]
  /\ UNCHANGED <<sg, esGsRing, gsIn, gsVsRing, primData, vertCounts, culled, primExp, posExp>>

\* exportPrimitiveWithGs: connectivity from the starting vertex and winding
ExportPrimitiveWithGs(t, start) ==
  IF primData[t] = NullPrim THEN NullPrim
  ELSE CASE VertsPerPrim = 1 -> start
         [] VertsPerPrim = 2 -> PackPrim(start, start + 1, 0)
         [] OTHER -> IF primData[t] # 0 THEN PackPrim(start, start + 2, start + 1)
                     ELSE PackPrim(start, start + 1, start + 2)

DummyExp == <<"dummy">>

\* runCopyShader: the GS-VS ring slot read through VertexIndexMap if compacted
CopyShaderVertex(w, t) == gsVsRing[IF wave[w].compact THEN vertIndexMap[t] ELSE t]

\* ".endAllocReq" .. ".endExpVert": primitive export, then the copy shader
\* (through VertexIndexMap if vertices were compacted) or, without
\* compaction, a dummy export from a wave with no drawn vertex
Export(w) ==
  LET primThreads == {t \in ThreadsOf(w) : t < PrimCountInSubgroup}
      vertThreads == {t \in ThreadsOf(w) : t < wave[w].vertCount}
  IN
  /\ pc[w] = "export"
  /\ primExp' = [t \in Threads |->
                   IF t \in primThreads
                   THEN ExportPrimitiveWithGs(t, IF CompactVertex THEN reg[t].compIdx ELSE t)
                   ELSE primExp[t]]
  /\ posExp' = [t \in Threads |->
                  IF t \notin vertThreads THEN posExp[t]
                  ELSE IF CompactVertex THEN CopyShaderVertex(w, t)
                  ELSE IF wave[w].outVertCount = 0 THEN DummyExp
                  ELSE IF reg[t].drawFlag THEN CopyShaderVertex(w, t) ELSE posExp[t]]
  /\ pc' = [pc EXCEPT ![w] = "done"]
  /\ UNCHANGED <<sg, esGsRing, gsIn, gsVsRing, primData, vertCounts, vertIndexMap, reg, wave, culled,
                 allocReq>>

\* createFenceAndBarrier; the barrier after ".allocReq" exists only with compaction
BarrierExit == [B1 |-> "gs", B2 |-> IF CullingMode THEN "cull" ELSE "check", B3 |-> "check",
                B4 |-> "compact", B5 |-> "export"]
Barrier ==
  /\ \E b \in DOMAIN BarrierExit :
       /\ \A w \in Launched : pc[w] = b
       /\ pc' = [w \in Waves |-> IF w \in Launched THEN BarrierExit[b] ELSE pc[w]]
  /\ UNCHANGED <<sg, esGsRing, gsIn, gsVsRing, primData, vertCounts, vertIndexMap, reg, wave, culled,
                 allocReq, primExp, posExp>>

Done == \A w \in Waves : pc[w] = "done"
Terminating == Done /\ UNCHANGED vars

Next ==
  \/ \E w \in Waves :
       \/ RunEs(w) \/ RunGs(w) \/ Culling(w) \/ CheckOutVertDrawFlag(w)
       \/ EndAccumOutVertCountNoCompact(w) \/ CompactOutVertId(w) \/ Export(w)
  \/ Barrier
  \/ Terminating

Spec == Init /\ [][Next]_vars

-----------------------------------------------------------------------------
(***************************************************************************)
(* The reference: the primitives of a strip as the Vulkan specification    *)
(* numbers them (primitive j of a strip: vertices j, j + 1 + j % 2,        *)
(* j + 2 - j % 2 for triangles; j, j + 1 for lines; j for points), over the *)
(* strips the EmitVertex/EndPrimitive calls of each invocation form.       *)
(***************************************************************************)
StripPrim(i, strip, j) ==
  CASE VertsPerPrim = 1 -> <<GsVert(i, strip[j + 1])>>
    [] VertsPerPrim = 2 -> <<GsVert(i, strip[j + 1]), GsVert(i, strip[j + 2])>>
    [] OTHER -> <<GsVert(i, strip[j + 1]), GsVert(i, strip[j + 2 + (j % 2)]),
                  GsVert(i, strip[j + 3 - (j % 2)])>>
RECURSIVE StripsPrims(_, _, _, _)
StripsPrims(i, prog, k, strip) ==
  LET closed == {StripPrim(i, strip, j) : j \in 0 .. (Len(strip) - VertsPerPrim)}
  IN IF prog = <<>> THEN closed
     ELSE IF Head(prog) = "cut" THEN closed \cup StripsPrims(i, Tail(prog), k, <<>>)
     ELSE StripsPrims(i, Tail(prog), k + 1, Append(strip, k))
EmittedPrims == UNION {StripsPrims(i, sg.progs[i + 1], 0, <<>>) : i \in 0 .. (GsPrimCount - 1)}

ExpVertex(s) == IF s \in Threads THEN posExp[s] ELSE NoValue
ValidPrimExports == {t \in Threads : primExp[t] \notin {NoValue, NullPrim}}
ExportedPrim(t) == [k \in 1..VertsPerPrim |-> ExpVertex(PrimVertex(primExp[t], k - 1))]

\* When the subgroup is done, the exported primitives, read through the
\* exported vertices they index, are exactly the primitives the GS emitted
\* (Vulkan strip order and winding) that the culler did not cull, each once:
\* the emit handler's windings, the draw flags of N, N-1, N-2, the
\* compaction across waves and the copy shader's uncompaction all agree.
PrimitivesAsEmitted ==
  Done =>
    /\ {ExportedPrim(t) : t \in ValidPrimExports} = EmittedPrims \ culled
    /\ Cardinality(ValidPrimExports) = Cardinality(EmittedPrims \ culled)

\* When the subgroup is done, GS_ALLOC_REQ was sent and announces every
\* primitive export, covers every vertex an exported primitive indexes and,
\* with compaction, announces exactly the exported slots 0 .. n-1, each
\* holding a different GS output vertex.
AllocMatchesExportsGs ==
  Done =>
    /\ allocReq # NoValue
    /\ ReqPrimCount(allocReq) = Cardinality({t \in Threads : primExp[t] # NoValue})
    /\ \A t \in ValidPrimExports : \A k \in 0 .. (VertsPerPrim - 1) :
         PrimVertex(primExp[t], k) < ReqVertCount(allocReq)
    /\ CompactVertex =>
         LET announced == 0 .. (ReqVertCount(allocReq) - 1)
         IN /\ {t \in Threads : posExp[t] # NoValue} = announced
            /\ Cardinality({posExp[t] : t \in announced}) = ReqVertCount(allocReq)

\* Every GS invocation read, through its ES-GS offsets, the outputs the ES
\* wrote for its own input vertices, whichever wave ran that ES vertex.
GsReadsEsOutputs ==
  \A i \in 0 .. (GsPrimCount - 1) :
    gsIn[i] # NoValue => gsIn[i] = [k \in 1..3 |-> EsOut(sg.prims[i + 1][k])]

=============================================================================
