------------------------------- MODULE NggGsXfb -------------------------------
(***************************************************************************)
(* SW-emulated transform feedback with an API GS                           *)
(* (NggPrimShader::processSwXfbWithGs), across the subgroups of one draw.  *)
(* It runs in ".endGs" of buildPrimShaderWithGs: every active vertex       *)
(* stream has its own PrimitiveData region (NullPrim or the winding the    *)
(* GS_EMIT handler wrote), GS-VS ring, PrimitiveCounts and                 *)
(* PrimitiveIndexMap.  The waves count the drawn primitives of each stream,*)
(* compact their thread IDs, and thread 0 reserves room in the buffers in  *)
(* the ordered GDS section shared with processSwXfb; each stream's         *)
(* numPrimsToWrite is clamped by the buffers that stream feeds.  Positions *)
(* in the buffers are in dwords; every output vertex of a stream writes    *)
(* one output of StrideDw[b] dwords to each buffer b of the stream.        *)
(***************************************************************************)
EXTENDS NggCommon, SequencesExt

CONSTANTS
  Draw,             \* the subgroups of the draw in orderedWaveId order
  Streams,          \* 0 .. MaxGsStreams - 1
  StreamXfbBuffers, \* getStreamXfbBuffers: the buffers each stream feeds
  RasterStream,     \* inOutUsage.gs.rasterStream
  XfbBuffers,       \* 0 .. MaxTransformFeedbackBuffers - 1
  StrideDw,         \* xfbStrides[i] / 4; 0 for an inactive buffer
  BufSizeDw,        \* NUM_RECORDS >> 2 of the buffer descriptor
  BufOffsetDw,      \* m_streamOutBufOffsets[i]
  MaxVerts,         \* geometryMode.outputVertices
  VertsPerPrim,     \* getVerticesPerPrimitive
  CullingMode       \* !m_nggControl->passthroughMode

\* sg.progs: each invocation's GS_EMIT / GS_CUT calls as <<op, stream>>
ASSUME /\ \A s \in DOMAIN Draw : Draw[s] \in Subgroups
       /\ \A s \in DOMAIN Draw : Len(Draw[s].progs) = Len(Draw[s].prims)
                                 /\ Len(Draw[s].prims) * MaxVerts <= Cardinality(Threads)
       /\ RasterStream \in Streams /\ VertsPerPrim \in 1..3
       /\ CullingMode \in BOOLEAN /\ (CullingMode => VertsPerPrim = 3)   \* assert in ".culling"
       /\ \A b \in XfbBuffers : StrideDw[b] > 0 <=> \E st \in Streams : b \in StreamXfbBuffers[st]

SgIds == DOMAIN Draw

VARIABLES
  pc,           \* pc[s][w]: the block wave w of subgroup s is at
  lds,          \* lds[s]: the LDS regions of s (ring, prim, counts, pmap, stats)
  prep,         \* thread 0's dwordsWritten[], numPrimsToWrite[], primCountInSubgroup[], loop index k
  gdsDw,        \* GDS_STRMOUT_DWORDS_WRITTEN_i
  orderedNext,  \* the orderedWaveId whose ds_ordered_count may proceed
  primsNeeded,  \* GDS_STRMOUT_PRIMS_NEEDED_i of each stream
  primsWritten, \* GDS_STRMOUT_PRIMS_WRITTEN_i of each stream
  mem           \* the buffer stores done: [buf, at, val]

vars == <<pc, lds, prep, gdsDw, orderedNext, primsNeeded, primsWritten, mem>>

\* bufferActive[], streamActive[], firstActiveXfbBuffer, lastActiveXfbBuffer
ActiveSeq == SetToSortSeq({b \in XfbBuffers : StrideDw[b] > 0}, <)
ActiveStreams == {st \in Streams : StreamXfbBuffers[st] # {} \/ st = RasterStream}
\* xfbBufferToStream: the first stream whose buffer mask has bit b
BufStream(b) == CHOOSE st \in Streams : b \in StreamXfbBuffers[st]
                  /\ \A st2 \in Streams : b \in StreamXfbBuffers[st2] => st <= st2
DwordsPerPrim(b) == VertsPerPrim * StrideDw[b]

GsPrimCount(s) == Len(Draw[s].prims)
PrimCountInSubgroup(s) == GsPrimCount(s) * MaxVerts
Launched(s) == {w \in Waves : CountInWave(Draw[s].vertCount, w) + CountInWave(PrimCountInSubgroup(s), w) > 0}
GsThreads(s, w) == {t \in ThreadsOf(w) : LaneOf(t) < CountInWave(GsPrimCount(s), w)}
Stale == 1                        \* LDS left by a previous subgroup

\* the GS_EMIT / GS_CUT calls of invocation i for stream st
StreamOps(s, i, st) == [k \in 1 .. Len(SelectSeq(Draw[s].progs[i + 1], LAMBDA x : x[2] = st)) |->
                         SelectSeq(Draw[s].progs[i + 1], LAMBDA x : x[2] = st)[k][1]]
GsVert(s, i, st, k) == <<"gs", s, i, st, k>>

(* createGsEmitHandler / createGsCutHandler with per-stream emitVerts and  *)
(* outVerts (mutateGs): the <<slot, winding>> pairs written to the stream's *)
(* PrimitiveData region.                                                   *)
RECURSIVE EmitRun(_, _, _, _)
EmitRun(i, ops, emitVerts, outVerts) ==
  IF ops = <<>> THEN {}
  ELSE IF Head(ops) = "cut" THEN EmitRun(i, Tail(ops), emitVerts, 0)
  ELSE LET ev == emitVerts + 1
           ov == outVerts + 1
       IN (IF ov >= VertsPerPrim
           THEN {<<i * MaxVerts + ev - VertsPerPrim, IF VertsPerPrim = 3 THEN (ov - VertsPerPrim) % 2 ELSE 0>>}
           ELSE {})
          \cup EmitRun(i, Tail(ops), ev, ov)

Init ==
  /\ pc = [s \in SgIds |-> [w \in Waves |-> IF w \in Launched(s) THEN "gs" ELSE "done"]]
  \* ".initOutPrimData" has set PrimitiveData to NullPrim and passed its barrier
  /\ lds = [s \in SgIds |->
             [ring |-> [st \in Streams |-> [v \in Threads |-> NoValue]],
              prim |-> [st \in Streams |-> [t \in Threads |->
                         IF st \in ActiveStreams /\ t < PrimCountInSubgroup(s) THEN NullPrim ELSE Stale]],
              counts |-> [st \in Streams |-> [c \in 0 .. WaveCount |-> Stale]],
              pmap |-> [st \in Streams |-> [t \in Threads |-> Stale]],
              stats |-> [dw |-> [b \in XfbBuffers |-> Stale], numPrims |-> [st \in Streams |-> Stale]]]]
  /\ prep = [s \in SgIds |-> [dw |-> [b \in XfbBuffers |-> 0], numPrims |-> [st \in Streams |-> 0],
                              count |-> [st \in Streams |-> 0], k |-> 1]]
  /\ gdsDw = [b \in XfbBuffers |-> 0]
  /\ orderedNext = 1
  /\ primsNeeded = [st \in Streams |-> 0] /\ primsWritten = [st \in Streams |-> 0]
  /\ mem = {}

Emits(s, i, st) == Cardinality({k \in DOMAIN StreamOps(s, i, st) : StreamOps(s, i, st)[k] = "emit"})

\* ".beginGs" (runGs: exportGsOutput of stream st to GS-VS ring slot
\* i * outputVertices + emitVerts[st], GS_EMIT / GS_CUT handled as above) and
\* ".initOutPrimCount" (threads below waveCount + 1 clear PrimitiveCounts)
RunGs(s, w) ==
  LET inv == GsThreads(s, w)
      emitted(st) == {<<i, k>> \in inv \X (0 .. (MaxVerts - 1)) : k < Emits(s, i, st)}
      writes(st) == UNION {EmitRun(i, StreamOps(s, i, st), 0, 0) : i \in inv}
  IN
  /\ pc[s][w] = "gs"
  /\ lds' = [lds EXCEPT ![s].ring = [st \in Streams |-> [v \in Threads |->
                 IF \E e \in emitted(st) : e[1] * MaxVerts + e[2] = v
                 THEN LET e == CHOOSE e \in emitted(st) : e[1] * MaxVerts + e[2] = v IN GsVert(s, e[1], st, e[2])
                 ELSE @[st][v]]],
                        ![s].prim = [st \in Streams |-> [t \in Threads |->
                 IF \E wr \in writes(st) : wr[1] = t THEN (CHOOSE wr \in writes(st) : wr[1] = t)[2] ELSE @[st][t]]],
                        ![s].counts = [st \in Streams |-> [c \in 0 .. WaveCount |->
                 IF st \in ActiveStreams /\ c \in ThreadsOf(w) THEN 0 ELSE @[st][c]]]]
  /\ pc' = [pc EXCEPT ![s][w] = "B1"]
  /\ UNCHANGED <<prep, gdsDw, orderedNext, primsNeeded, primsWritten, mem>>

\* drawFlag[st] of the primitive threads of wave w: primData[N] != NullPrim
Drawn(s, w, st) == {t \in ThreadsOf(w) : t < PrimCountInSubgroup(s) /\ lds[s].prim[st][t] # NullPrim}

\* variant: the counts added from slot waveId on, not waveId + 1
AccumSlotsFromOwn(w) == w .. WaveCount
\* ".accumOutPrimCount": lane l < waveCount - waveId adds to waveId + l + 1
AccumSlots(w) == (w + 1) .. WaveCount

\* ".checkOutPrimDrawFlag", ".endCheckOutPrimDrawFlag" (ballot, ctpop) and
\* ".accumOutPrimCount" (atomic adds into PrimitiveCounts of each stream)
CheckOutPrimDrawFlag(s, w) ==
  /\ pc[s][w] = "check"
  /\ lds' = [lds EXCEPT ![s].counts = [st \in Streams |-> [c \in 0 .. WaveCount |->
                 IF st \in ActiveStreams /\ c \in AccumSlots(w) THEN @[st][c] + Cardinality(Drawn(s, w, st))
                 ELSE @[st][c]]]]
  /\ pc' = [pc EXCEPT ![s][w] = "B2"]
  /\ UNCHANGED <<prep, gdsDw, orderedNext, primsNeeded, primsWritten, mem>>

\* ".endAccumOutPrimCount" (readlane of the counts of waves before this one
\* and of the subgroup), ".compactOutPrimIdInStream[N]" (PrimitiveIndexMap:
\* compacted -> uncompacted) and ".endCompactOutPrimIdInStream[N]"; thread 0
\* goes on to ".prepareXfbExport" with numPrimsToWrite = primCountInSubgroup
CompactOutPrimId(s, w) ==
  LET cs == lds[s].counts
      compacted(st, t) == cs[st][w] + Cardinality({u \in Drawn(s, w, st) : u < t})
  IN
  /\ pc[s][w] = "compact"
  /\ lds' = [lds EXCEPT ![s].pmap = [st \in Streams |-> [c \in Threads |->
                 IF st \in ActiveStreams /\ \E t \in Drawn(s, w, st) : compacted(st, t) = c
                 THEN CHOOSE t \in Drawn(s, w, st) : compacted(st, t) = c
                 ELSE @[st][c]]]]
  /\ prep' = IF w = 0
             THEN [prep EXCEPT ![s].numPrims = [st \in Streams |-> IF st \in ActiveStreams THEN cs[st][WaveCount] ELSE @[st]],
                               ![s].count = [st \in Streams |-> IF st \in ActiveStreams THEN cs[st][WaveCount] ELSE @[st]]]
             ELSE prep
  /\ pc' = [pc EXCEPT ![s][w] = IF w = 0 THEN "read" ELSE "B3"]
  /\ UNCHANGED <<gdsDw, orderedNext, primsNeeded, primsWritten, mem>>

\* "Calculate numPrimsToWrite[N]", one active buffer b: ds_ordered_count (the
\* first, waiting for this orderedWaveId) or ds_add_gs_reg of 0, then the
\* count of b's stream is clamped by b's remaining room
ReadDwordsWritten(s, k) ==
  LET b == ActiveSeq[k]
      st == BufStream(b)
      remaining == IF BufSizeDw[b] - (BufOffsetDw[b] + gdsDw[b]) > 0
                   THEN BufSizeDw[b] - (BufOffsetDw[b] + gdsDw[b]) ELSE 0
      canWrite == remaining \div DwordsPerPrim(b)
  IN /\ pc[s][0] = "read" /\ prep[s].k = k
     /\ k = 1 => orderedNext = s
     /\ prep' = [prep EXCEPT ![s].dw[b] = gdsDw[b],
                             ![s].numPrims[st] = IF canWrite < @ THEN canWrite ELSE @,
                             ![s].k = IF k < Len(ActiveSeq) THEN k + 1 ELSE 1]
     /\ pc' = [pc EXCEPT ![s][0] = IF k < Len(ActiveSeq) THEN "read" ELSE "add"]
     /\ UNCHANGED <<lds, gdsDw, orderedNext, primsNeeded, primsWritten, mem>>

\* variant: dwordsToWrite from numPrimsToWrite indexed by the buffer
DwordsToWriteByBuffer(s, b) == prep[s].numPrims[b] * DwordsPerPrim(b)
\* dwordsToWrite = numPrimsToWrite[xfbBufferToStream[i]] * dwordsPerPrim[i]
DwordsToWrite(s, b) == prep[s].numPrims[BufStream(b)] * DwordsPerPrim(b)

\* variant: the ordered count released by the first add instead of the last
AddDwordsWrittenReleaseFirst(s, k) ==
  LET b == ActiveSeq[k]
  IN /\ pc[s][0] = "add" /\ prep[s].k = k
     /\ gdsDw' = [gdsDw EXCEPT ![b] = @ + DwordsToWrite(s, b)]
     /\ prep' = [prep EXCEPT ![s].dw[b] = gdsDw[b], ![s].k = k + 1]
     /\ orderedNext' = IF k = 1 THEN s + 1 ELSE orderedNext
     /\ pc' = [pc EXCEPT ![s][0] = IF k < Len(ActiveSeq) THEN "add" ELSE "stats"]
     /\ UNCHANGED <<lds, primsNeeded, primsWritten, mem>>

\* "Increment dwordsWritten", one active buffer: the old count replaces
\* dwordsWritten[i]; the add to the last active buffer releases the order
AddDwordsWritten(s, k) ==
  LET b == ActiveSeq[k]
  IN /\ pc[s][0] = "add" /\ prep[s].k = k
     /\ gdsDw' = [gdsDw EXCEPT ![b] = @ + DwordsToWrite(s, b)]
     /\ prep' = [prep EXCEPT ![s].dw[b] = gdsDw[b], ![s].k = k + 1]
     /\ orderedNext' = IF k = Len(ActiveSeq) THEN s + 1 ELSE orderedNext
     /\ pc' = [pc EXCEPT ![s][0] = IF k < Len(ActiveSeq) THEN "add" ELSE "stats"]
     /\ UNCHANGED <<lds, primsNeeded, primsWritten, mem>>

\* "Store transform feedback statistics info to LDS and GDS"
StoreXfbStats(s) ==
  /\ pc[s][0] = "stats"
  /\ lds' = [lds EXCEPT ![s].stats =
               [dw |-> [b \in XfbBuffers |-> IF StrideDw[b] > 0 THEN prep[s].dw[b] ELSE @.dw[b]],
                numPrims |-> [st \in Streams |-> IF st \in ActiveStreams THEN prep[s].numPrims[st] ELSE @.numPrims[st]]]]
  /\ primsNeeded' = [st \in Streams |-> IF st \in ActiveStreams THEN primsNeeded[st] + prep[s].count[st]
                                        ELSE primsNeeded[st]]
  /\ primsWritten' = [st \in Streams |-> IF st \in ActiveStreams THEN primsWritten[st] + prep[s].numPrims[st]
                                         ELSE primsWritten[st]]
  /\ pc' = [pc EXCEPT ![s][0] = "B3"]
  /\ UNCHANGED <<prep, gdsDw, orderedNext, mem>>

\* the output vertices of compacted primitive t of stream st: the slots
\* N, N+1, N+2 of its uncompacted thread N, with N+1 and N+2 swapped when
\* the winding in PrimitiveData is set
XfbVertex(s, st, t, j) ==
  LET n == lds[s].pmap[st][t]
  IN IF VertsPerPrim = 3 /\ j > 0 /\ lds[s].prim[st][n] # 0 THEN n + 3 - j ELSE n + j

\* variant: the culling (or draw-flag) block entered without waiting
AfterXfbExportNoBarrier == IF CullingMode THEN "cull" ELSE "vcheck"
\* the block after ".initOutVertCount": the barrier of ".endInitOutVertCount"
AfterXfbExport == "B4"

\* ".endPrepareXfbExport" (readlane of the XfbStats), ".exportXfbOutputInStream[N]"
\* for every active stream, then ".initOutVertCount" of buildPrimShaderWithGs,
\* whose VertexCounts region is PrimitiveCounts when SW XFB is on
ExportXfbOutput(s, w) ==
  LET st == lds[s].stats
  IN /\ pc[s][w] = "export"
     /\ mem' = mem \cup UNION
          {{[buf |-> b, at |-> BufOffsetDw[b] + st.dw[b] + (t * VertsPerPrim + j) * StrideDw[b],
             val |-> lds[s].ring[BufStream(b)][XfbVertex(s, BufStream(b), t, j)]] :
              t \in {u \in ThreadsOf(w) : u < st.numPrims[BufStream(b)]}, j \in 0 .. (VertsPerPrim - 1)} :
           b \in {x \in XfbBuffers : StrideDw[x] > 0}}
     /\ lds' = [lds EXCEPT ![s].counts[RasterStream] =
                  [c \in 0 .. WaveCount |-> IF c \in ThreadsOf(w) THEN 0 ELSE @[c]]]
     /\ pc' = [pc EXCEPT ![s][w] = AfterXfbExport]
     /\ UNCHANGED <<prep, gdsDw, orderedNext, primsNeeded, primsWritten>>

(***************************************************************************)
(* The rest of buildPrimShaderWithGs with m_nggControl->compactVertex on,  *)
(* up to the GS_ALLOC_REQ (the exports are NggGs's).  Culling nullifies    *)
(* the raster stream's PrimitiveData, which the XFB export of a slower     *)
(* wave reads for the winding, and VertexIndexMap is the LDS of            *)
(* PrimitiveIndexMap (stream 0's part), which that export reads too.       *)
(***************************************************************************)
\* ".culling" and ".nullifyOutPrimData" for the primitive threads of w;
\* the cullers' verdict is free
Culling(s, w) ==
  LET cand == {t \in ThreadsOf(w) : lds[s].prim[RasterStream][t] # NullPrim /\ t < PrimCountInSubgroup(s)}
  IN /\ pc[s][w] = "cull"
     /\ \E cull \in SUBSET cand :
          lds' = [lds EXCEPT ![s].prim[RasterStream] = [t \in Threads |-> IF t \in cull THEN NullPrim ELSE @[t]]]
     /\ pc' = [pc EXCEPT ![s][w] = "B5"]
     /\ UNCHANGED <<prep, gdsDw, orderedNext, primsNeeded, primsWritten, mem>>

\* variant: only primitive N looked at
DrawFlagOwnOnly(s, t) == t < PrimCountInSubgroup(s) /\ lds[s].prim[RasterStream][t] # NullPrim
\* ".checkOutVertDrawFlag": slot N is drawn if primitive N, N-1 or N-2 is
DrawFlag(s, t) ==
  /\ t < PrimCountInSubgroup(s)
  /\ \E d \in 0 .. (VertsPerPrim - 1) : t >= d /\ lds[s].prim[RasterStream][t - d] # NullPrim
DrawnVerts(s, w) == {t \in ThreadsOf(w) : DrawFlag(s, t)}

\* ".checkOutVertDrawFlag", ".endCheckOutVertDrawFlag" (ballot, ctpop) and
\* ".accumOutVertCount" into VertexCounts, the raster stream's PrimitiveCounts
CheckOutVertDrawFlag(s, w) ==
  /\ pc[s][w] = "vcheck"
  /\ lds' = [lds EXCEPT ![s].counts[RasterStream] = [c \in 0 .. WaveCount |->
                 IF c \in AccumSlots(w) THEN @[c] + Cardinality(DrawnVerts(s, w)) ELSE @[c]]]
  /\ pc' = [pc EXCEPT ![s][w] = "B6"]
  /\ UNCHANGED <<prep, gdsDw, orderedNext, primsNeeded, primsWritten, mem>>

\* ".endAccumOutVertCount" (vertCountInSubgroup, vertCountInPrevWaves and
\* hasCulledVertices from VertexCounts), ".compactOutVertId": a drawn lane
\* writes its thread ID at vertCountInPrevWaves + mbcnt(drawMask) of
\* VertexIndexMap, when some vertex of the subgroup is not drawn
CompactOutVertId(s, w) ==
  LET vc == lds[s].counts[RasterStream]
      hasCulled == vc[WaveCount] < PrimCountInSubgroup(s)
      compacted(t) == vc[w] + Cardinality({u \in DrawnVerts(s, w) : u < t})
  IN /\ pc[s][w] = "vcompact"
     /\ lds' = [lds EXCEPT ![s].pmap[0] = [c \in Threads |->
                  IF hasCulled /\ \E t \in DrawnVerts(s, w) : compacted(t) = c
                  THEN CHOOSE t \in DrawnVerts(s, w) : compacted(t) = c ELSE @[c]]]
     /\ pc' = [pc EXCEPT ![s][w] = "done"]
     /\ UNCHANGED <<prep, gdsDw, orderedNext, primsNeeded, primsWritten, mem>>

\* createFenceAndBarrier in ".endInitOutPrimCount", ".endAccumOutPrimCount",
\* ".endPrepareXfbExport", ".endInitOutVertCount", ".endCulling" and
\* ".endAccumOutVertCount"
BarrierExit == [B1 |-> "check", B2 |-> "compact", B3 |-> "export",
                B4 |-> IF CullingMode THEN "cull" ELSE "vcheck", B5 |-> "vcheck", B6 |-> "vcompact"]
Barrier(s) ==
  /\ \E b \in DOMAIN BarrierExit :
       /\ \A w \in Launched(s) : pc[s][w] = b
       /\ pc' = [pc EXCEPT ![s] = [w \in Waves |-> IF w \in Launched(s) THEN BarrierExit[b] ELSE @[w]]]
  /\ UNCHANGED <<lds, prep, gdsDw, orderedNext, primsNeeded, primsWritten, mem>>

Done == \A s \in SgIds : \A w \in Waves : pc[s][w] = "done"
Terminating == Done /\ UNCHANGED vars

\* a step of the waves of subgroup s
SubgroupStep(s) ==
  \/ \E w \in Waves : RunGs(s, w) \/ CheckOutPrimDrawFlag(s, w) \/ CompactOutPrimId(s, w)
                      \/ ExportXfbOutput(s, w) \/ Culling(s, w) \/ CheckOutVertDrawFlag(s, w)
                      \/ CompactOutVertId(s, w)
  \/ \E k \in DOMAIN ActiveSeq : ReadDwordsWritten(s, k) \/ AddDwordsWritten(s, k)
  \/ StoreXfbStats(s)
  \/ Barrier(s)

Next == (\E s \in SgIds : SubgroupStep(s)) \/ Terminating

Spec == Init /\ [][Next]_vars
\* As in processSwXfb: launched waves run until they finish, waiting only at
\* the barriers and on the ordered count, which the model keeps disabled
\* until they may go on.
FairSpec == Spec /\ \A s \in SgIds : WF_vars(SubgroupStep(s))

-----------------------------------------------------------------------------
(***************************************************************************)
(* The reference: each stream's primitives in API order (subgroup by      *)
(* subgroup, invocation by invocation, strip by strip), primitive j of a  *)
(* strip with the vertices the Vulkan specification gives it.             *)
(***************************************************************************)
StripPrim(s, i, st, strip, j) ==
  CASE VertsPerPrim = 1 -> <<GsVert(s, i, st, strip[j + 1])>>
    [] VertsPerPrim = 2 -> <<GsVert(s, i, st, strip[j + 1]), GsVert(s, i, st, strip[j + 2])>>
    [] OTHER -> <<GsVert(s, i, st, strip[j + 1]), GsVert(s, i, st, strip[j + 2 + (j % 2)]),
                  GsVert(s, i, st, strip[j + 3 - (j % 2)])>>
RECURSIVE InvocationPrims(_, _, _, _, _, _)
InvocationPrims(s, i, st, ops, k, strip) ==
  LET closed == IF Len(strip) < VertsPerPrim THEN <<>>
                ELSE [j \in 1 .. (Len(strip) - VertsPerPrim + 1) |-> StripPrim(s, i, st, strip, j - 1)]
  IN IF ops = <<>> THEN closed
     ELSE IF Head(ops) = "cut" THEN closed \o InvocationPrims(s, i, st, Tail(ops), k, <<>>)
     ELSE InvocationPrims(s, i, st, Tail(ops), k + 1, Append(strip, k))
StreamPrims(st) ==
  FlattenSeq([s \in SgIds |-> FlattenSeq([i \in 1 .. GsPrimCount(s) |->
                 InvocationPrims(s, i - 1, st, StreamOps(s, i - 1, st), 0, <<>>)])])
\* how many primitives of stream st fit in every buffer the stream feeds
Fitting(st) ==
  LET room == {(BufSizeDw[b] - BufOffsetDw[b]) \div DwordsPerPrim(b) : b \in StreamXfbBuffers[st]}
  IN IF \E r \in room : r < Len(StreamPrims(st)) THEN Min(room) ELSE Len(StreamPrims(st))

\* When the draw is done, every active buffer holds, from its offset on and
\* densely, the longest prefix of its stream's primitives (in API order,
\* Vulkan strip winding) that fits in all buffers of that stream, whatever
\* order the subgroups' waves ran in; and the GDS dword and primitive
\* counters of each buffer and stream agree with it.  This needs the per-
\* stream counts, the cross-wave prefix sums, the compaction map, the
\* winding swap and the per-stream clamp inside the ordered section to agree.
GsXfbStreamPrefix ==
  Done =>
    /\ \A b \in XfbBuffers : StrideDw[b] > 0 =>
         LET st == BufStream(b)
         IN /\ {m \in mem : m.buf = b} =
                 {[buf |-> b, at |-> BufOffsetDw[b] + (n * VertsPerPrim + j) * StrideDw[b],
                   val |-> StreamPrims(st)[n + 1][j + 1]] : n \in 0 .. (Fitting(st) - 1), j \in 0 .. (VertsPerPrim - 1)}
            /\ gdsDw[b] = Fitting(st) * DwordsPerPrim(b)
    /\ \A st \in ActiveStreams : primsWritten[st] = Fitting(st) /\ primsNeeded[st] = Len(StreamPrims(st))

\* the output slots used by a raster-stream primitive that survived culling
UsedSlots(s) ==
  UNION {{n + j : j \in 0 .. (VertsPerPrim - 1)} :
           n \in {m \in 0 .. (PrimCountInSubgroup(s) - 1) : lds[s].prim[RasterStream][m] # NullPrim}}

\* Once every wave of a subgroup is done and some output slot is unused,
\* VertexIndexMap lists, densely and in order, exactly the slots of the
\* primitives that survived culling.  The map shares its LDS with
\* PrimitiveIndexMap and its counts with PrimitiveCounts, which the XFB
\* export reads and re-zeroes, so it needs the N-1/N-2 draw flags, the
\* zeroing and accumulation of VertexCounts and the barriers between them
\* to be right.
VertexIndexMapCompacts ==
  \A s \in SgIds :
    /\ \A w \in Waves : pc[s][w] = "done"
    /\ Cardinality(UsedSlots(s)) < PrimCountInSubgroup(s)
    => \A c \in 0 .. (Cardinality(UsedSlots(s)) - 1) :
         lds[s].pmap[0][c] = SetToSortSeq(UsedSlots(s), <)[c + 1]

\* the streams that feed buffers, and the first buffer of each
XfbStreams == {st \in Streams : StreamXfbBuffers[st] # {}}
FirstBuffer(st) == Min(StreamXfbBuffers[st])
\* primitives of stream st reserved by the finished ordered sections
ReservedPrims(st) == SumFunctionOnSet([s \in SgIds |-> prep[s].numPrims[st]], 1 .. (orderedNext - 1))
\* the stream slots stored so far: place in the stream's first buffer
StoredSlots(st) ==
  LET b == FirstBuffer(st)
  IN {(m.at - BufOffsetDw[b]) \div DwordsPerPrim(b) : m \in {x \in mem : x.buf = b}}
\* stream st's primitives in subgroup s
SubgroupStreamPrims(s, st) ==
  Len(FlattenSeq([i \in 1 .. GsPrimCount(s) |-> InvocationPrims(s, i - 1, st, StreamOps(s, i - 1, st), 0, <<>>)]))

\* the refinement mapping of stream st onto XfbReservation
StreamCapacity(st) == Min({(BufSizeDw[b] - BufOffsetDw[b]) \div DwordsPerPrim(b) : b \in StreamXfbBuffers[st]})
StreamPrimCounts(st) == [s \in SgIds |-> SubgroupStreamPrims(s, st)]

====
