----------------------------- MODULE NggCulling -----------------------------
(***************************************************************************)
(* The primitive shader that NggPrimShader::buildPrimShader generates for  *)
(* a pipeline without API GS in NGG culling mode, executed by one          *)
(* subgroup.  Each wave of the subgroup is an actor; its lanes run in      *)
(* lockstep, so one action of a wave is one block sequence of the          *)
(* generated program between two barriers, applied to all of its lanes.   *)
(* Waves interleave freely between barriers and share the LDS regions     *)
(* laid out by layoutPrimShaderLds:                                        *)
(*   lds          the aliased DistributedPrimitiveId / VertexPosition     *)
(*                region, one dword per cell (both start at offset 0);     *)
(*   cullInfo     the VertexCullInfo region, one item per vertex thread;   *)
(*   vertCounts   the VertexCounts region (WaveCount + 1 dwords);          *)
(*   vertIndexMap the VertexIndexMap region (compacted -> uncompacted).    *)
(* Positions, system values and primitive IDs are abstracted to values     *)
(* that name the vertex (or primitive) they belong to; the outcome of the *)
(* culler suite for a primitive is a free choice.                          *)
(***************************************************************************)
EXTENDS NggCommon

CONSTANTS
  CompactVertex,          \* m_nggControl->compactVertex
  WaNoEmptySubgroups,     \* gfx10.waNggCullingNoEmptySubgroups
  HasTes,                 \* m_hasTes (the ES is a TES rather than a VS)
  UsePrimitiveId,         \* builtInUsage.vs.primitiveId (VS only)
  SmallSubgroupThreshold  \* -ngg-small-subgroup-threshold

ASSUME \A b \in {CompactVertex, WaNoEmptySubgroups, HasTes, UsePrimitiveId} : b \in BOOLEAN

(* abstract values: the dwords of vertex t's position, its system values *)
PosDword(t, c) == <<"pos", t, c>>
PosOf(t) == [c \in 0..3 |-> PosDword(t, c)]
SysFields == IF HasTes THEN {"tessCoordX", "tessCoordY", "relPatchId", "patchId"}
                       ELSE {"vertexId", "instanceId"}
LiveSys(t) == [f \in SysFields |-> <<f, t>>]
\* what a dword of LDS holds before this subgroup writes it: a stale index
\* beyond any vertex of the subgroup, and stale values
Stale == 2^9 - 1
StaleItem == [drawFlag |-> 1, compactedVertexIndex |-> Stale,
              sys |-> [f \in SysFields |-> NoValue], primitiveId |-> NoValue]
DummyExp == [dummy |-> TRUE]   \* the position exports of a dummy vertex
NoExp == NoValue

VARIABLES
  sg,            \* the subgroup being processed (mergedGroupInfo, GS VGPRs)
  pc,            \* pc[w]: the block wave w is at
  lds,           \* aliased DistributedPrimitiveId / VertexPosition dwords
  cullInfo,      \* VertexCullInfo items
  vertCounts,    \* VertexCounts dwords
  vertIndexMap,  \* VertexIndexMap dwords
  reg,           \* per-lane registers
  wave,          \* per-wave uniform (SGPR) values
  allocReq,      \* m0 of the GS_ALLOC_REQ message, or NoValue
  primExp,       \* primitive export of each thread (word, or NoExp)
  posExp         \* position export of each thread (record, DummyExp or NoExp)

vars == <<sg, pc, lds, cullInfo, vertCounts, vertIndexMap, reg, wave, allocReq,
          primExp, posExp>>

-----------------------------------------------------------------------------
(* Wave and thread info, initWaveThreadInfo (decoded from the SGPRs) *)
VertCountInSubgroup == sg.vertCount
PrimCountInSubgroup == Len(sg.prims)
VertCountInWave(w) == CountInWave(VertCountInSubgroup, w)
PrimCountInWave(w) == CountInWave(PrimCountInSubgroup, w)
\* GE launches the waves that hold a vertex or a primitive of the subgroup
Launched == {w \in Waves : VertCountInWave(w) + PrimCountInWave(w) > 0}
\* vertexIndex0..2 of primitive thread t (ES-GS offsets, relative indices)
VertexIndex(t, k) == sg.prims[t + 1][k + 1]
ProvokingVertex(t) == IF ProvokingFirst THEN VertexIndex(t, 0) ELSE VertexIndex(t, 2)
DistributePrimitiveId == ~HasTes /\ UsePrimitiveId
RuntimePassthrough == VertCountInSubgroup < SmallSubgroupThreshold
\* variant: the workaround's dummy primitive and vertex not counted
DummyExportCountNone == 0
DummyExportCount == IF WaNoEmptySubgroups THEN 1 ELSE 0

LdsAddrs == 0 .. (4 * Cardinality(Threads) - 1)
\* variant: vec4 slots addressed with a dword stride
ReadPositionDwordStride(u) == [c \in 0..3 |-> IF u + c \in LdsAddrs THEN lds[u + c] ELSE NoValue]
ReadPosition(u) == [c \in 0..3 |-> IF 4 * u + c \in LdsAddrs THEN lds[4 * u + c] ELSE NoValue]
CullInfoAt(u) == IF u \in Threads THEN cullInfo[u] ELSE StaleItem

Init ==
  /\ sg \in Subgroups
  /\ pc = [w \in Waves |-> IF w \notin Launched THEN "done"
                           ELSE IF DistributePrimitiveId THEN "writePrimId" ELSE "fetch"]
  \* LDS keeps what the previous subgroup left there
  /\ lds = [a \in LdsAddrs |-> NoValue]
  /\ cullInfo = [t \in Threads |-> StaleItem]
  /\ vertCounts = [k \in 0..WaveCount |-> 1]
  /\ vertIndexMap = [t \in Threads |-> Stale]
  /\ reg = [t \in Threads |-> [primId |-> NoValue, position |-> NoValue,
                               culled |-> TRUE, cullInput |-> NoValue, drawFlag |-> FALSE]]
  /\ wave = [w \in Waves |-> [drawnCount |-> 0, compactVertex |-> FALSE,
                              fullyCulled |-> FALSE, primCount |-> 0, vertCount |-> 0]]
  /\ allocReq = NoValue
  /\ primExp = [t \in Threads |-> NoExp]
  /\ posExp = [t \in Threads |-> NoExp]

-----------------------------------------------------------------------------
(* The blocks of buildPrimShader.  Lanes of wave w that take a block:      *)
VertThreads(w) == {t \in ThreadsOf(w) : t < VertCountInSubgroup}
PrimThreads(w) == {t \in ThreadsOf(w) : t < PrimCountInSubgroup}

\* ".writePrimId": each primitive writes its ID at its provoking vertex.  A
\* ds_write of several lanes to one address keeps one lane's value.
WritePrimId(w) ==
  /\ pc[w] = "writePrimId"
  /\ LET targets == {ProvokingVertex(t) : t \in PrimThreads(w)}
     IN \E winner \in [targets -> PrimThreads(w)] :
          /\ \A a \in targets : ProvokingVertex(winner[a]) = a
          /\ lds' = [a \in LdsAddrs |-> IF a \in targets THEN PrimIdVal(winner[a]) ELSE lds[a]]
  /\ pc' = [pc EXCEPT ![w] = "B1"]
  /\ UNCHANGED <<sg, cullInfo, vertCounts, vertIndexMap, reg, wave, allocReq, primExp, posExp>>

\* ".readPrimId" / ".endReadPrimId": distributedPrimitiveId, 0 (the ID of
\* primitive 0) off the vertices
\* variant: no barrier between reading distributed primitive IDs and
\* overwriting the aliased region with positions
ReadPrimIdNoBarrier(w) ==
  /\ pc[w] = "readPrimId"
  /\ reg' = [t \in Threads |-> IF t \in ThreadsOf(w)
                               THEN [reg[t] EXCEPT !.primId = IF t \in VertThreads(w) THEN lds[t] ELSE PrimIdVal(0)]
                               ELSE reg[t]]
  /\ pc' = [pc EXCEPT ![w] = "fetch"]
  /\ UNCHANGED <<sg, lds, cullInfo, vertCounts, vertIndexMap, wave, allocReq, primExp, posExp>>

ReadPrimId(w) ==
  /\ pc[w] = "readPrimId"
  /\ reg' = [t \in Threads |-> IF t \in ThreadsOf(w)
                               THEN [reg[t] EXCEPT !.primId = IF t \in VertThreads(w) THEN lds[t] ELSE PrimIdVal(0)]
                               ELSE reg[t]]
  /\ pc' = [pc EXCEPT ![w] = "B2"]
  /\ UNCHANGED <<sg, lds, cullInfo, vertCounts, vertIndexMap, wave, allocReq, primExp, posExp>>

\* What checkAllocReq's phis give on the runtime passthrough path
PassthroughWave(w) ==
  [drawnCount |-> VertCountInWave(w), compactVertex |-> FALSE, fullyCulled |-> FALSE,
   primCount |-> PrimCountInSubgroup, vertCount |-> VertCountInSubgroup]

\* ".fetchVertCullData" (runPartEs on the cull data fetcher) and the blocks up
\* to the next barrier: ".runtimePassthrough", or ".initVertDrawFlag",
\* ".initVertCount" and ".writeVertexCullData"
FetchVertCullData(w) ==
  /\ pc[w] = "fetch"
  /\ LET fetched == [t \in Threads |-> IF t \in VertThreads(w)
                                       THEN [reg[t] EXCEPT !.position = PosOf(t)] ELSE reg[t]]
     IN reg' = IF RuntimePassthrough
               THEN [t \in Threads |-> IF t \in ThreadsOf(w)
                                       THEN [fetched[t] EXCEPT !.drawFlag = TRUE, !.culled = FALSE]
                                       ELSE fetched[t]]
               ELSE fetched
  /\ IF RuntimePassthrough
       THEN /\ wave' = [wave EXCEPT ![w] = PassthroughWave(w)]
            \* a raw s_barrier only when no barrier follows primitive ID distribution
            /\ pc' = [pc EXCEPT ![w] = IF DistributePrimitiveId THEN "allocReq" ELSE "BP"]
            /\ UNCHANGED <<lds, cullInfo, vertCounts>>
       ELSE /\ cullInfo' = [t \in Threads |-> IF t \in VertThreads(w)
                                              THEN [cullInfo[t] EXCEPT !.drawFlag = 0]
                                              ELSE cullInfo[t]]
            /\ vertCounts' = [k \in 0..WaveCount |-> IF k \in ThreadsOf(w) THEN 0 ELSE vertCounts[k]]
            /\ lds' = [a \in LdsAddrs |-> IF a \div 4 \in VertThreads(w) THEN PosDword(a \div 4, a % 4)
                                          ELSE lds[a]]
            /\ pc' = [pc EXCEPT ![w] = "B3"]
            /\ UNCHANGED wave
  /\ UNCHANGED <<sg, vertIndexMap, allocReq, primExp, posExp>>


\* ".culling" (doCulling on positions read back from LDS), ".writeVertDrawFlag"
\* and ".endCulling": a kept primitive sets the draw flag of its vertices.
\* Which primitives the culler suite rejects is left open.
Culling(w) ==
  /\ pc[w] = "cull"
  /\ \E culled \in [PrimThreads(w) -> BOOLEAN] :
       LET kept == {VertexIndex(t, k) : t \in {p \in PrimThreads(w) : ~culled[p]}, k \in 0..2}
       IN /\ cullInfo' = [v \in Threads |-> IF v \in kept THEN [cullInfo[v] EXCEPT !.drawFlag = 1]
                                            ELSE cullInfo[v]]
          /\ reg' = [t \in Threads |->
                      IF t \in PrimThreads(w)
                      THEN [reg[t] EXCEPT !.culled = culled[t],
                                          !.cullInput = [k \in 0..2 |-> ReadPosition(VertexIndex(t, k))]]
                      ELSE IF t \in ThreadsOf(w) THEN [reg[t] EXCEPT !.culled = TRUE]
                      ELSE reg[t]]
  /\ pc' = [pc EXCEPT ![w] = "B4"]
  /\ UNCHANGED <<sg, lds, vertCounts, vertIndexMap, wave, allocReq, primExp, posExp>>

\* ".checkVertDrawFlag", ".endCheckVertDrawFlag" and ".accumVertCount": the
\* wave's drawn-vertex count (ballot, ctpop) is atomically added to the count
\* slots of this and every later wave, shifted by one.
\* variant: one lane too few adds the count
AccumLanesShort(w) == {l \in 0..(WaveSize - 1) : l < WaveCount - w - 1}
AccumLanes(w) == {l \in 0..(WaveSize - 1) : l < WaveCount - w}
AccumVertCount(w) ==
  /\ pc[w] = "count"
  /\ LET drawn == {t \in VertThreads(w) : cullInfo[t].drawFlag # 0}
         n == Cardinality(drawn)
     IN /\ reg' = [t \in Threads |-> IF t \in ThreadsOf(w) THEN [reg[t] EXCEPT !.drawFlag = t \in drawn]
                                     ELSE reg[t]]
        /\ vertCounts' = [k \in 0..WaveCount |->
                           IF k - w - 1 \in AccumLanes(w) THEN vertCounts[k] + n ELSE vertCounts[k]]
        /\ wave' = [wave EXCEPT ![w].drawnCount = n]
  /\ pc' = [pc EXCEPT ![w] = "B5"]
  /\ UNCHANGED <<sg, lds, cullInfo, vertIndexMap, allocReq, primExp, posExp>>

\* mbcnt: drawn lanes of the wave below lane t
DrawnBelow(t) == Cardinality({u \in ThreadsOf(WaveOf(t)) : u < t /\ reg[u].drawFlag})
\* variant: mbcnt counting lane t itself
CompactedIndexInclusive(t, prevCount) ==
  prevCount + Cardinality({u \in ThreadsOf(WaveOf(t)) : u <= t /\ reg[u].drawFlag})
CompactedIndex(t, prevCount) == prevCount + DrawnBelow(t)

\* ".endAccumVertCount", ".compactVert" and ".endCompactVert": a drawn vertex
\* of a subgroup with culled vertices gets the next dense index, recorded in
\* both directions, together with the system values the deferred export needs
CompactVert(w) ==
  /\ pc[w] = "compact"
  /\ LET total == vertCounts[WaveCount]             \* readlane(waveCountInSubgroup)
         prevCount == vertCounts[w]                 \* readlane(waveIdInSubgroup)
         hasCulled == total < VertCountInSubgroup
         moved == {t \in VertThreads(w) : CompactVertex /\ reg[t].drawFlag /\ hasCulled}
         fullyCulled == total = 0
     IN /\ vertIndexMap' = [c \in Threads |->
                             IF \E t \in moved : CompactedIndex(t, prevCount) = c
                             THEN CHOOSE t \in moved : CompactedIndex(t, prevCount) = c
                             ELSE vertIndexMap[c]]
        /\ cullInfo' = [t \in Threads |->
                         IF t \in moved
                         THEN [cullInfo[t] EXCEPT !.compactedVertexIndex = CompactedIndex(t, prevCount),
                                                  !.sys = LiveSys(t),
                                                  !.primitiveId = IF DistributePrimitiveId
                                                                  THEN reg[t].primId ELSE @]
                         ELSE cullInfo[t]]
        /\ wave' = [wave EXCEPT ![w] =
                     [@ EXCEPT !.compactVertex = CompactVertex /\ hasCulled,
                               !.fullyCulled = fullyCulled,
                               !.primCount = IF fullyCulled THEN DummyExportCount ELSE PrimCountInSubgroup,
                               !.vertCount = IF fullyCulled THEN DummyExportCount
                                             ELSE IF CompactVertex THEN total ELSE VertCountInSubgroup]]
  /\ pc' = [pc EXCEPT ![w] = "allocReq"]
  /\ UNCHANGED <<sg, lds, vertCounts, reg, allocReq, primExp, posExp>>

\* ".checkAllocReq" / ".allocReq" (sendGsAllocReqMessage): the first wave
\* tells the hardware how many primitives and vertices the subgroup exports
CheckAllocReq(w) ==
  /\ pc[w] = "allocReq"
  /\ allocReq' = IF w = 0 THEN GsAllocReq(wave[w].primCount, wave[w].vertCount) ELSE allocReq
  /\ pc' = [pc EXCEPT ![w] = "B6"]
  /\ UNCHANGED <<sg, lds, cullInfo, vertCounts, vertIndexMap, reg, wave, primExp, posExp>>


\* exportPrimitive: connectivity, through the compacted indices when compacting
\* variant: connectivity left uncompacted
PrimDataUncompacted(t) ==
  IF reg[t].culled THEN NullPrim ELSE PackPrim(VertexIndex(t, 0), VertexIndex(t, 1), VertexIndex(t, 2))
PrimData(t) ==
  LET idx(k) == IF wave[WaveOf(t)].compactVertex
                THEN CullInfoAt(VertexIndex(t, k)).compactedVertexIndex
                ELSE VertexIndex(t, k)
  IN IF reg[t].culled THEN NullPrim ELSE PackPrim(idx(0), idx(1), idx(2))

\* runPartEs(args, position), ".uncompactVert" / ".endUncompactVert": when
\* the subgroup compacts, the system values of uncompacted vertex u are
\* re-materialized from its VertexCullInfo item; the phis at
\* ".endUncompactVert" merge them with the lane's own values.  The phi for
\* tessCoordY is assigned to tessCoordX, on both incoming paths, so
\* tessCoordY keeps the value of the exporting lane.
Rematerialized(t, saved) ==
  IF HasTes THEN [saved EXCEPT !.tessCoordX = saved.tessCoordY,
                               !.tessCoordY = LiveSys(t).tessCoordY]
            ELSE saved
\* variant: the exporting lane's own system values used after compaction
VertexExportLiveSys(t) ==
  IF wave[WaveOf(t)].compactVertex
  THEN [pos |-> ReadPosition(vertIndexMap[t]), sys |-> LiveSys(t), primId |-> reg[t].primId]
  ELSE [pos |-> reg[t].position, sys |-> LiveSys(t), primId |-> reg[t].primId]
VertexExport(t) ==
  IF wave[WaveOf(t)].compactVertex
  THEN LET u == vertIndexMap[t]
       IN [pos |-> ReadPosition(u), sys |-> Rematerialized(t, CullInfoAt(u).sys),
           primId |-> IF DistributePrimitiveId THEN CullInfoAt(u).primitiveId ELSE reg[t].primId]
  ELSE [pos |-> reg[t].position, sys |-> IF CompactVertex THEN Rematerialized(t, LiveSys(t)) ELSE LiveSys(t),
        primId |-> reg[t].primId]

\* earlyExitWithDummyExport: the first thread exports a primitive of vertex
\* 0 and dummy positions
EarlyExitWithDummyExport(w) ==
  /\ primExp' = [t \in Threads |-> IF t = 0 /\ t \in ThreadsOf(w) THEN 0 ELSE primExp[t]]
  /\ posExp' = [t \in Threads |-> IF t = 0 /\ t \in ThreadsOf(w) THEN DummyExp ELSE posExp[t]]

\* ".endAllocReq" onwards: ".earlyExit" when the workaround is on and all is
\* culled; else ".expPrim", then ".expVert", in compactionless mode after
\* ".checkEmptyWave" / ".emptyWaveExp" (one done-export of POS0, then return)
Export(w) ==
  /\ pc[w] = "export"
  /\ IF WaNoEmptySubgroups /\ wave[w].fullyCulled
       THEN EarlyExitWithDummyExport(w)
       ELSE /\ primExp' = [t \in Threads |-> IF t \in ThreadsOf(w) /\ t < wave[w].primCount
                                             THEN PrimData(t) ELSE primExp[t]]
            /\ posExp' = [t \in Threads |->
                           IF t \in ThreadsOf(w) /\ t < wave[w].vertCount
                           THEN IF CompactVertex THEN VertexExport(t)
                                ELSE IF wave[w].drawnCount = 0 THEN DummyExp
                                ELSE IF reg[t].drawFlag THEN VertexExport(t) ELSE NoExp
                           ELSE posExp[t]]
  /\ pc' = [pc EXCEPT ![w] = "done"]
  /\ UNCHANGED <<sg, lds, cullInfo, vertCounts, vertIndexMap, reg, wave, allocReq>>

\* createFenceAndBarrier (s_barrier): released when every wave of the subgroup
\* has reached it
BarrierExit == [B1 |-> "readPrimId", B2 |-> "fetch", BP |-> "allocReq", B3 |-> "cull",
                B4 |-> "count", B5 |-> "compact", B6 |-> "export"]
Barrier ==
  /\ \E b \in DOMAIN BarrierExit :
       /\ \A w \in Launched : pc[w] = b
       /\ pc' = [w \in Waves |-> IF w \in Launched THEN BarrierExit[b] ELSE pc[w]]
  /\ UNCHANGED <<sg, lds, cullInfo, vertCounts, vertIndexMap, reg, wave, allocReq, primExp, posExp>>

Done == \A w \in Waves : pc[w] = "done"
Terminating == Done /\ UNCHANGED vars

\* One step of wave w between two barriers
WaveStep(w) ==
  \/ WritePrimId(w) \/ ReadPrimId(w) \/ FetchVertCullData(w) \/ Culling(w)
  \/ AccumVertCount(w) \/ CompactVert(w) \/ CheckAllocReq(w) \/ Export(w)

Next ==
  \/ \E w \in Waves : WaveStep(w)
  \/ Barrier
  \/ Terminating

Spec == Init /\ [][Next]_vars

-----------------------------------------------------------------------------
(* Properties *)
Stored == {NoValue} \cup {PosDword(t, c) : t \in Threads, c \in 0..3}
          \cup {PrimIdVal(t) : t \in Threads}
TypeOK ==
  /\ pc \in [Waves -> {"writePrimId", "readPrimId", "fetch", "cull", "count", "compact",
                       "allocReq", "export", "done"} \cup DOMAIN BarrierExit]
  /\ lds \in [LdsAddrs -> Stored]
  /\ vertCounts \in [0..WaveCount -> Nat]
  /\ vertIndexMap \in [Threads -> 0..Stale]
  /\ \A t \in Threads : cullInfo[t].drawFlag \in {0, 1} /\ cullInfo[t].compactedVertexIndex \in 0..Stale
  /\ \A w \in Waves : wave[w].drawnCount \in 0..WaveSize /\ wave[w].vertCount \in 0..Cardinality(Threads)
  /\ allocReq \in {NoValue} \cup Nat
  /\ \A t \in Threads : primExp[t] \in {NoExp, NullPrim} \cup Nat
  \* a primitive ID register holds a primitive ID or nothing
  /\ \A t \in Threads : reg[t].primId \in {NoValue} \cup {PrimIdVal(p) : p \in Threads}

DummySubgroup == WaNoEmptySubgroups /\ wave[0].fullyCulled
IsVertexExport(s) == posExp[s] \notin {NoExp, DummyExp}
ExportedSlots == {s \in Threads : IsVertexExport(s)}
ExportedPrims == {t \in Threads : primExp[t] \notin {NoExp, NullPrim}}
\* the vertices the culling pass keeps: those of the primitives it does not cull
KeptVertices ==
  IF RuntimePassthrough THEN 0 .. (VertCountInSubgroup - 1)
  ELSE {VertexIndex(p, k) : p \in {q \in 0 .. (PrimCountInSubgroup - 1) : ~reg[q].culled}, k \in 0..2}
SlotHolds(s, v) == posExp[s].pos = PosOf(v)
PrimIdFits(v, id) ==
  (DistributePrimitiveId /\ \E p \in 0 .. (PrimCountInSubgroup - 1) : ProvokingVertex(p) = v)
    => \E p \in 0 .. (PrimCountInSubgroup - 1) : ProvokingVertex(p) = v /\ id = PrimIdVal(p)

\* Culling (doCulling) reads, for each vertex of its primitive, the position
\* that vertex's thread wrote, never a primitive ID aliased at the same LDS
\* offset or a dword of another vertex.
CullReadsOwnPositions ==
  \A t \in Threads : reg[t].cullInput # NoValue =>
     \A k \in 0..2 : reg[t].cullInput[k] = PosOf(VertexIndex(t, k))

\* Every vertex export (runPartEs after culling, with or without compaction)
\* carries one vertex's position together with that same vertex's system
\* values and, when primitive IDs are distributed, the ID of a primitive
\* whose provoking vertex it is.
ExportsMatchInputs ==
  \A s \in ExportedSlots :
    \E v \in 0 .. (VertCountInSubgroup - 1) :
      /\ posExp[s].pos = PosOf(v)
      /\ posExp[s].sys = LiveSys(v)
      /\ PrimIdFits(v, posExp[s].primId)

\* When the subgroup is done, every exported (non-null) primitive's vertex
\* slots hold exported vertices with the positions of the vertices the
\* primitive originally referenced, whether or not they were compacted.
ConnectivityPreserved ==
  Done /\ ~DummySubgroup =>
    \A t \in ExportedPrims : \A k \in 0..2 :
      LET s == PrimVertex(primExp[t], k)
      IN s \in ExportedSlots /\ posExp[s].pos = PosOf(VertexIndex(t, k))

\* When the subgroup is done, exactly the vertices of unculled primitives are
\* exported, each once; with compaction they occupy slots 0..n-1 in the order
\* of their original indices.
ExportsExactlyKept ==
  Done /\ ~DummySubgroup =>
    /\ \A s \in ExportedSlots : \E v \in KeptVertices : SlotHolds(s, v)
    /\ \A v \in KeptVertices : \E s \in ExportedSlots : SlotHolds(s, v)
    /\ \A s1, s2 \in ExportedSlots : \A v1, v2 \in KeptVertices :
         s1 < s2 /\ SlotHolds(s1, v1) /\ SlotHolds(s2, v2) => v1 < v2
    /\ CompactVertex => ExportedSlots = 0 .. (Cardinality(KeptVertices) - 1)

\* The GS_ALLOC_REQ sent by wave 0 announces exactly the primitives that are
\* exported and a vertex count covering every exported vertex and every slot
\* a primitive references; with the empty-subgroup workaround neither is 0.
AllocCoversExports ==
  Done =>
    /\ allocReq # NoValue
    /\ ReqPrimCount(allocReq) = Cardinality({t \in Threads : primExp[t] # NoExp})
    /\ \A s \in Threads : posExp[s] # NoExp => s < ReqVertCount(allocReq)
    /\ \A t \in ExportedPrims : \A k \in 0..2 : PrimVertex(primExp[t], k) < ReqVertCount(allocReq)
    /\ WaNoEmptySubgroups => ReqPrimCount(allocReq) > 0 /\ ReqVertCount(allocReq) > 0

=============================================================================
