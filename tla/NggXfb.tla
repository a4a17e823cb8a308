-------------------------------- MODULE NggXfb --------------------------------
(***************************************************************************)
(* SW-emulated transform feedback without API GS (NggPrimShader::          *)
(* processSwXfb), across the subgroups of one draw.  Inside a subgroup the *)
(* vertex threads write their XFB outputs to LDS, thread 0 reserves room   *)
(* in the stream-out buffers through the GDS counters                      *)
(* GDS_STRMOUT_DWORDS_WRITTEN_i and stores what it got to the XfbStats LDS *)
(* region, and after a barrier every primitive thread below numPrimsToWrite*)
(* writes its vertices.  Across subgroups the reservation is ordered by    *)
(* ds_ordered_count: the read of the first active buffer waits for the     *)
(* subgroup's orderedWaveId, the add to the last active buffer releases    *)
(* it; every other GDS access is an unordered atomic (ds_add_gs_reg_rtn).  *)
(* Buffer positions are in dwords (the code shifts them to bytes).  Every  *)
(* vertex writes one output of StrideDw[i] dwords to each active buffer i. *)
(***************************************************************************)
EXTENDS NggCommon, SequencesExt

CONSTANTS
  Draw,          \* the subgroups of the draw in orderedWaveId order
  XfbBuffers,    \* buffer indices 0 .. MaxTransformFeedbackBuffers - 1
  StrideDw,      \* xfbStrides[i] / 4; 0 for an inactive buffer
  BufSizeDw,     \* NUM_RECORDS >> 2 of the buffer descriptor
  BufOffsetDw    \* m_streamOutBufOffsets[i]

ASSUME /\ \A s \in DOMAIN Draw : Draw[s] \in Subgroups
       /\ \E i \in XfbBuffers : StrideDw[i] > 0

VertsPerPrim == 3
SgIds == DOMAIN Draw

VARIABLES
  pc,           \* pc[s][w]: the block wave w of subgroup s is at
  xfbLds,       \* xfbLds[s][v]: the XFB outputs of vertex v in the LDS of s
  prep,         \* thread 0's dwordsWritten[], numPrimsToWrite and buffer loop index k
  stats,        \* the XfbStats LDS region of each subgroup
  gdsDw,        \* GDS_STRMOUT_DWORDS_WRITTEN_i
  orderedNext,  \* the orderedWaveId whose ds_ordered_count may proceed
  primsNeeded,  \* GDS_STRMOUT_PRIMS_NEEDED_0
  primsWritten, \* GDS_STRMOUT_PRIMS_WRITTEN_0
  mem           \* the buffer stores done: [buf, at, val]

vars == <<pc, xfbLds, prep, stats, gdsDw, orderedNext, primsNeeded, primsWritten, mem>>

\* bufferActive[], firstActiveXfbBuffer, lastActiveXfbBuffer
ActiveSeq == SetToSortSeq({i \in XfbBuffers : StrideDw[i] > 0}, <)
DwordsPerPrim(i) == VertsPerPrim * StrideDw[i]

VertCount(s) == Draw[s].vertCount
PrimCount(s) == Len(Draw[s].prims)
Launched(s) == {w \in Waves : CountInWave(VertCount(s), w) + CountInWave(PrimCount(s), w) > 0}
VertexIndex(s, t, k) == Draw[s].prims[t + 1][k + 1]
XfbOut(s, v) == <<"xfb", s, v>>

Init ==
  /\ pc = [s \in SgIds |-> [w \in Waves |-> IF w \in Launched(s) THEN "fetch" ELSE "done"]]
  /\ xfbLds = [s \in SgIds |-> [v \in Threads |-> NoValue]]
  /\ prep = [s \in SgIds |-> [dw |-> [i \in XfbBuffers |-> 0], numPrims |-> PrimCount(s), k |-> 1]]
  /\ stats = [s \in SgIds |-> [dw |-> [i \in XfbBuffers |-> NoValue], numPrims |-> NoValue]]
  /\ gdsDw = [i \in XfbBuffers |-> 0]
  /\ orderedNext = 1
  /\ primsNeeded = 0 /\ primsWritten = 0
  /\ mem = {}

\* ".fetchXfbOutput": each vertex thread runs ES and writes its outputs to LDS
FetchXfbOutput(s, w) ==
  /\ pc[s][w] = "fetch"
  /\ xfbLds' = [xfbLds EXCEPT ![s] = [v \in Threads |->
                  IF v \in ThreadsOf(w) /\ v < VertCount(s) THEN XfbOut(s, v) ELSE @[v]]]
  /\ pc' = [pc EXCEPT ![s][w] = IF w = 0 THEN "read" ELSE "B"]
  /\ UNCHANGED <<prep, stats, gdsDw, orderedNext, primsNeeded, primsWritten, mem>>

\* variant: dwordsRemaining computed without the buffer offset
ReadDwordsWrittenNoOffset(s, k) ==
  LET i == ActiveSeq[k]
      remaining == IF BufSizeDw[i] - gdsDw[i] > 0 THEN BufSizeDw[i] - gdsDw[i] ELSE 0
      canWrite == remaining \div DwordsPerPrim(i)
  IN /\ pc[s][0] = "read" /\ prep[s].k = k
     /\ k = 1 => orderedNext = s
     /\ prep' = [prep EXCEPT ![s].dw[i] = gdsDw[i],
                             ![s].numPrims = IF canWrite < @ THEN canWrite ELSE @,
                             ![s].k = IF k < Len(ActiveSeq) THEN k + 1 ELSE 1]
     /\ pc' = [pc EXCEPT ![s][0] = IF k < Len(ActiveSeq) THEN "read" ELSE "add"]
     /\ UNCHANGED <<xfbLds, stats, gdsDw, orderedNext, primsNeeded, primsWritten, mem>>

\* "Calculate numPrimsToWrite", one active buffer: ds_ordered_count (first
\* active buffer, waits for this orderedWaveId) or ds_add_gs_reg of 0, then
\* numPrimsToWrite = min(max(0, size - (offset + written)) / dwordsPerPrim, it)
ReadDwordsWritten(s, k) ==
  LET i == ActiveSeq[k]
      remaining == IF BufSizeDw[i] - (BufOffsetDw[i] + gdsDw[i]) > 0
                   THEN BufSizeDw[i] - (BufOffsetDw[i] + gdsDw[i]) ELSE 0
      canWrite == remaining \div DwordsPerPrim(i)
  IN /\ pc[s][0] = "read" /\ prep[s].k = k
     /\ k = 1 => orderedNext = s
     /\ prep' = [prep EXCEPT ![s].dw[i] = gdsDw[i],
                             ![s].numPrims = IF canWrite < @ THEN canWrite ELSE @,
                             ![s].k = IF k < Len(ActiveSeq) THEN k + 1 ELSE 1]
     /\ pc' = [pc EXCEPT ![s][0] = IF k < Len(ActiveSeq) THEN "read" ELSE "add"]
     /\ UNCHANGED <<xfbLds, stats, gdsDw, orderedNext, primsNeeded, primsWritten, mem>>

\* variant: the ordered count released by the first add instead of the last
AddDwordsWrittenReleaseFirst(s, k) ==
  LET i == ActiveSeq[k]
  IN /\ pc[s][0] = "add" /\ prep[s].k = k
     /\ gdsDw' = [gdsDw EXCEPT ![i] = @ + prep[s].numPrims * DwordsPerPrim(i)]
     /\ prep' = [prep EXCEPT ![s].dw[i] = gdsDw[i], ![s].k = k + 1]
     /\ orderedNext' = IF k = 1 THEN s + 1 ELSE orderedNext
     /\ pc' = [pc EXCEPT ![s][0] = IF k < Len(ActiveSeq) THEN "add" ELSE "stats"]
     /\ UNCHANGED <<xfbLds, stats, primsNeeded, primsWritten, mem>>

\* "Increment dwordsWritten", one active buffer: the atomic returns the count
\* before the add, which replaces dwordsWritten[i]; the add to the last
\* active buffer is the ds_ordered_count with wave release and wave done
AddDwordsWritten(s, k) ==
  LET i == ActiveSeq[k]
  IN /\ pc[s][0] = "add" /\ prep[s].k = k
     /\ gdsDw' = [gdsDw EXCEPT ![i] = @ + prep[s].numPrims * DwordsPerPrim(i)]
     /\ prep' = [prep EXCEPT ![s].dw[i] = gdsDw[i], ![s].k = k + 1]
     /\ orderedNext' = IF k = Len(ActiveSeq) THEN s + 1 ELSE orderedNext
     /\ pc' = [pc EXCEPT ![s][0] = IF k < Len(ActiveSeq) THEN "add" ELSE "stats"]
     /\ UNCHANGED <<xfbLds, stats, primsNeeded, primsWritten, mem>>

\* "Store transform feedback statistics info to LDS and GDS"
StoreXfbStats(s) ==
  /\ pc[s][0] = "stats"
  /\ stats' = [stats EXCEPT ![s] =
                 [dw |-> [i \in XfbBuffers |-> IF StrideDw[i] > 0 THEN prep[s].dw[i] ELSE @.dw[i]],
                  numPrims |-> prep[s].numPrims]]
  /\ primsNeeded' = primsNeeded + PrimCount(s)
  /\ primsWritten' = primsWritten + prep[s].numPrims
  /\ pc' = [pc EXCEPT ![s][0] = "B"]
  /\ UNCHANGED <<xfbLds, prep, gdsDw, orderedNext, mem>>

\* createFenceAndBarrier in ".endPrepareXfbExport"
Barrier(s) ==
  /\ \A w \in Launched(s) : pc[s][w] = "B"
  /\ pc' = [pc EXCEPT ![s] = [w \in Waves |-> IF w \in Launched(s) THEN "export" ELSE @[w]]]
  /\ UNCHANGED <<xfbLds, prep, stats, gdsDw, orderedNext, primsNeeded, primsWritten, mem>>

\* variant: primValid compared with numPrimsToWrite - 1
ExportingPrimsOffByOne(s, w) == {t \in ThreadsOf(w) : t < stats[s].numPrims - 1}
\* primValid: the primitive threads of wave w below numPrimsToWrite
ExportingPrims(s, w) == {t \in ThreadsOf(w) : t < stats[s].numPrims}

\* ".readXfbStatInfo" (readlane of the stats) and ".exportXfbOutput": primitive
\* thread t < numPrimsToWrite stores vertex k at
\* (offset + dwordsWritten) + (t * vertsPerPrim + k) * stride
ExportXfbOutput(s, w) ==
  LET st == stats[s]
      prims == ExportingPrims(s, w)
  IN /\ pc[s][w] = "export"
     /\ mem' = mem \cup
          {[buf |-> ActiveSeq[j],
            at |-> BufOffsetDw[ActiveSeq[j]] + st.dw[ActiveSeq[j]] + (t * VertsPerPrim + k) * StrideDw[ActiveSeq[j]],
            val |-> xfbLds[s][VertexIndex(s, t, k)]] :
             j \in DOMAIN ActiveSeq, t \in prims, k \in 0 .. (VertsPerPrim - 1)}
     /\ pc' = [pc EXCEPT ![s][w] = "done"]
     /\ UNCHANGED <<xfbLds, prep, stats, gdsDw, orderedNext, primsNeeded, primsWritten>>

Done == \A s \in SgIds : \A w \in Waves : pc[s][w] = "done"
Terminating == Done /\ UNCHANGED vars

\* a step of the waves of subgroup s
SubgroupStep(s) ==
  \/ \E w \in Waves : FetchXfbOutput(s, w) \/ ExportXfbOutput(s, w)
  \/ \E k \in DOMAIN ActiveSeq : ReadDwordsWritten(s, k) \/ AddDwordsWritten(s, k)
  \/ StoreXfbStats(s)
  \/ Barrier(s)

Next == (\E s \in SgIds : SubgroupStep(s)) \/ Terminating

Spec == Init /\ [][Next]_vars
\* A launched subgroup's waves keep running until they finish; they only
\* wait at the barrier and on the ordered count, both of which the model
\* keeps disabled until they may go on.
FairSpec == Spec /\ \A s \in SgIds : WF_vars(SubgroupStep(s))

-----------------------------------------------------------------------------
\* the primitives of the draw in API order: subgroup by subgroup, thread by thread
PrimStream == FlattenSeq([s \in SgIds |-> [j \in 1 .. PrimCount(s) |-> <<s, j - 1>>]])
\* how many primitives fit in every active buffer
Capacity == Min({(BufSizeDw[ActiveSeq[j]] - BufOffsetDw[ActiveSeq[j]]) \div DwordsPerPrim(ActiveSeq[j]) :
                 j \in DOMAIN ActiveSeq})
Fitting == IF Len(PrimStream) < Capacity THEN Len(PrimStream) ELSE Capacity

\* At every point of the draw, the vertex stores of all subgroups lie in
\* [offset, size) of their buffer and no two of them overlap, whatever the
\* order in which subgroups reach their GDS reservation and their exports.
XfbWritesDisjoint ==
  \A m1, m2 \in mem :
    /\ BufOffsetDw[m1.buf] <= m1.at /\ m1.at + StrideDw[m1.buf] <= BufSizeDw[m1.buf]
    /\ (m1.buf = m2.buf /\ m1 # m2 => m1.at + StrideDw[m1.buf] <= m2.at \/ m2.at + StrideDw[m2.buf] <= m1.at)

\* When the draw is done every active buffer holds, from its offset on and
\* densely, the longest prefix of the primitive stream that fits in all of
\* them, each vertex with its own outputs, and the GDS counters agree.
XfbStreamPrefix ==
  Done =>
    /\ \A j \in DOMAIN ActiveSeq :
         LET i == ActiveSeq[j]
         IN {m \in mem : m.buf = i} =
              {[buf |-> i, at |-> BufOffsetDw[i] + (n * VertsPerPrim + k) * StrideDw[i],
                val |-> XfbOut(PrimStream[n + 1][1], VertexIndex(PrimStream[n + 1][1], PrimStream[n + 1][2], k))] :
                 n \in 0 .. (Fitting - 1), k \in 0 .. (VertsPerPrim - 1)}
            /\ gdsDw[i] = Fitting * DwordsPerPrim(i)
    /\ primsWritten = Fitting
    /\ primsNeeded = Len(PrimStream)

\* the stream slot of a store: its primitive's place in the first active buffer
WrittenSlots ==
  LET f == ActiveSeq[1]
  IN {(m.at - BufOffsetDw[f]) \div DwordsPerPrim(f) : m \in {x \in mem : x.buf = f}}
LastActive == ActiveSeq[Len(ActiveSeq)]

Reservation == INSTANCE XfbReservation
  WITH PrimCounts <- [s \in SgIds |-> PrimCount(s)],
       Capacity <- Capacity,
       next <- orderedNext,
       reserved <- gdsDw[LastActive] \div DwordsPerPrim(LastActive),
       written <- WrittenSlots

\* processSwXfb implements XfbReservation: the ordered section from the
\* first buffer's ds_ordered_count to the last buffer's release acts as one
\* in-order, clamped reservation, the stores only ever fill reserved slots,
\* and, with the waves scheduled fairly, every reserved slot gets written.
XfbRefinesReservation == Reservation!Spec

=============================================================================
