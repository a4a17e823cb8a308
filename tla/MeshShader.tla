----------------------------- MODULE MeshShader -----------------------------
(***************************************************************************)
(* MeshTaskShader::processMeshShader: the hardware GS subgroup that runs   *)
(* an API mesh shader workgroup.  The subgroup has NumWaves waves; the      *)
(* first NumMeshWaves run the API body, the others ("extra waves") only     *)
(* take part in its s_barriers, either a known number of times or, when     *)
(* checkNeedBarrierFlag finds a barrier in a cycle or off the post-dominator*)
(* path, by polling the barrier completion flag the mesh waves write to     *)
(* LDS.  After the last barrier every wave reads the vertex and primitive   *)
(* counts SetMeshOutputs wrote (or the ~0 sentinel) and exports its share.  *)
(*                                                                         *)
(* Waves are the actors; each step is what one wave does between two       *)
(* s_barriers or LDS accesses another wave can observe.  The API body is    *)
(* abstracted to where it executes barriers and where thread 0 calls       *)
(* SetMeshOutputs; both are chosen in Init among what the API allows       *)
(* (workgroup-uniform barriers, SetMeshOutputs at most once).               *)
(***************************************************************************)
EXTENDS Integers, Sequences, FiniteSetsExt, Functions

CONSTANTS
  WaveSize,           \* getShaderWaveSize(ShaderStageMesh)
  NumMeshThreads,     \* workgroupSizeX * workgroupSizeY * workgroupSizeZ
  PrimAmpFactor,      \* gs.calcFactor.primAmpFactor: HW threads of the subgroup
  OutputVertices,     \* meshMode.outputVertices
  OutputPrimitives,   \* meshMode.outputPrimitives
  RowExport,          \* enableMeshRowExport()
  NeedSwMeshPipelineStats,
  ApiShaders,         \* API shaders: each the sequence m_barriers of its
                      \* s_barriers, each [postDom, inCycle]
  MaxLoopTrips,       \* bound on the executions of a barrier inside a cycle
  MeshOutputs         \* <<vertexCount, primitiveCount>> the API may pass

ASSUME /\ WaveSize \in Nat \ {0} /\ NumMeshThreads \in Nat \ {0}
       /\ PrimAmpFactor >= NumMeshThreads           \* assert(numThreads >= numMeshThreads)
       /\ \A o \in MeshOutputs : o[1] \in 0..OutputVertices /\ o[2] \in 0..OutputPrimitives
       /\ \A bars \in ApiShaders : \A i \in DOMAIN bars : bars[i].postDom \in BOOLEAN /\ bars[i].inCycle \in BOOLEAN
\* primAmpFactor is computed outside this pass: without row export each
\* vertex and primitive needs a thread of its own
ASSUME RowExport \/ (PrimAmpFactor >= OutputVertices /\ PrimAmpFactor >= OutputPrimitives)

CeilDiv(a, b) == (a + b - 1) \div b
\* processMeshShader: flat workgroup size and wave counts
FlatWorkgroupSize == IF RowExport THEN NumMeshThreads ELSE PrimAmpFactor
NumWaves == CeilDiv(FlatWorkgroupSize, WaveSize)
NumMeshWaves == CeilDiv(NumMeshThreads, WaveSize)
Waves == 0 .. NumWaves - 1
\* initWaveThreadInfo: threadIdInSubgroup = waveId * waveSize + threadIdInWave
\* (amdgcn_init_exec(-1) enables every lane of a wave)
ThreadsOf(w) == {w * WaveSize + l : l \in 0 .. WaveSize - 1}
\* validMeshWave: waveId < numMeshWaves, or there are no extra waves
MeshWave(w) == w < NumMeshWaves \/ NumMeshWaves = NumWaves

\* checkNeedBarrierFlag: dynamic barrier handling is needed when there are
\* extra waves and some API barrier does not post-dominate the entry block
\* or lies in a cycle.
NeedBarrierFlagIgnoringCycles(bars) ==
  /\ ~RowExport
  /\ NumWaves # NumMeshWaves
  /\ bars # <<>>
  /\ \E i \in DOMAIN bars : ~bars[i].postDom
NeedBarrierFlag(bars) ==
  /\ ~RowExport
  /\ NumWaves # NumMeshWaves
  /\ bars # <<>>
  /\ \E i \in DOMAIN bars : ~bars[i].postDom \/ bars[i].inCycle

\* How often the API body may execute one of its barriers: exactly once
\* when the analysis proves it (post-dominates the entry, in no cycle).
Executions(b) == IF b.postDom /\ ~b.inCycle THEN {1}
                 ELSE IF b.inCycle THEN 0 .. MaxLoopTrips ELSE {0, 1}
ApiBarrierCounts(bars) ==
  {SumFunction(f) : f \in {g \in [DOMAIN bars -> 0 .. MaxLoopTrips] :
                                 \A i \in DOMAIN bars : g[i] \in Executions(bars[i])}}

InvalidValue == -1     \* the dword ~0 (InvalidValue as getInt32)
NotCalled == -1        \* SetMeshOutputs is never executed
\* a bound on s_barriers any wave can pass: initial, API, end-of-body, check
BarrierLimit == MaxLoopTrips * Max({Len(bars) : bars \in ApiShaders}) + 3

VARIABLES
  barriers,      \* m_barriers of the API shader being lowered
  pc,            \* per wave: program point
  cont,          \* per wave: where it resumes after the s_barrier it waits on
  passed,        \* per wave: s_barriers passed
  seg,           \* per wave: API barriers passed (mesh) or added (extra, static)
  toggle,        \* per wave: barrierToggle
  counts,        \* per wave: vertexCount/primitiveCount read from LDS
  lds,           \* [vertexCount, primitiveCount, barrierFlag, primInit]
  allocReq,      \* GS_ALLOC_REQ messages sent, in order
  expVert, expPrim,  \* exports per vertex / primitive index
  stats,         \* mesh pipeline statistics buffer
  apiBarrierCount,   \* API barriers the body executes in this workgroup
  outputsAt,     \* segment of the body in which SetMeshOutputs runs
  outputs        \* the counts it passes

vars == <<barriers, pc, cont, passed, seg, toggle, counts, lds, allocReq, expVert, expPrim,
          stats, apiBarrierCount, outputsAt, outputs>>

\* vertex and primitive indices a count can cover
Indices == 0 .. (IF OutputVertices > OutputPrimitives THEN OutputVertices ELSE OutputPrimitives) - 1

Init ==
  /\ pc = [w \in Waves |-> "entry"]
  /\ cont = [w \in Waves |-> "none"]
  /\ passed = [w \in Waves |-> 0]
  /\ seg = [w \in Waves |-> 0]
  /\ toggle = [w \in Waves |-> FALSE]
  /\ counts = [w \in Waves |-> <<InvalidValue, InvalidValue>>]
  \* LDS holds whatever an earlier workgroup left there
  /\ lds \in [vertexCount : {0, InvalidValue}, primitiveCount : {0},
              barrierFlag : {0, 2, 3}, primInit : {{}}]
  /\ allocReq = <<>>
  /\ expVert = [i \in Indices |-> 0]
  /\ expPrim = [i \in Indices |-> 0]
  /\ stats = [numMeshThreads |-> 0, numMeshPrimitives |-> 0]
  /\ barriers \in ApiShaders
  /\ apiBarrierCount \in ApiBarrierCounts(barriers)
  /\ outputsAt \in {NotCalled} \cup 0 .. apiBarrierCount
  /\ outputs \in MeshOutputs


(***************************************************************************)
(* Helpers                                                                 *)
(***************************************************************************)
\* the indices thread loops of a wave cover below n: one per thread, or with
\* row export "primitiveIndex = threadIdInSubgroup + loopIndex * waveSize",
\* loopIndex += numWaves, while primitiveIndex < n
RowIndicesCumulative(w, n) ==
  {t + WaveSize * NumWaves * ((j * (j + 1)) \div 2) : t \in ThreadsOf(w), j \in 0 .. n} \cap 0 .. n - 1
WaveIndicesCumulative(w, n) ==
  IF RowExport THEN RowIndicesCumulative(w, n) ELSE ThreadsOf(w) \cap 0 .. n - 1
WaveIndices(w, n) ==
  IF RowExport
  THEN {t + j * NumWaves * WaveSize : t \in ThreadsOf(w), j \in 0 .. n} \cap 0 .. n - 1
  ELSE ThreadsOf(w) \cap 0 .. n - 1
\* arrive at an s_barrier, resuming at label c when it opens
Arrive(w, c) == /\ pc' = [pc EXCEPT ![w] = "wait"]
                /\ cont' = [cont EXCEPT ![w] = c]
AddExports(e, w, n) == [i \in Indices |-> IF i \in WaveIndices(w, n) THEN e[i] + 1 ELSE e[i]]
\* setMeshOutputs: a zero count zeroes both, M0 carries both to GS_ALLOC_REQ
\* lowerMeshShaderBody: the barrier completion flag the API body leaves
BarrierFlagValueNoCompletion(tog) == IF tog THEN 1 ELSE 0
BarrierFlagValue(tog) == IF tog THEN 3 ELSE 2
ClampedOutputs(o) == IF o[1] = 0 \/ o[2] = 0 THEN <<0, 0>> ELSE o

(***************************************************************************)
(* Actions of one wave                                                     *)
(***************************************************************************)
\* ".entry" .. ".endWriteSpecialValue": zero the primitive connectivity of the
\* wave's primitive indices below outputPrimitives; thread 0 writes the ~0
\* vertex count sentinel (and a zero barrier flag when one is needed); then
\* the fence/s_barrier all waves take before the API body.
Entry(w) ==
  /\ pc[w] = "entry"
  /\ lds' = [lds EXCEPT
               !.primInit = @ \cup WaveIndices(w, OutputPrimitives),
               !.vertexCount = IF w = 0 THEN InvalidValue ELSE @,
               !.barrierFlag = IF w = 0 /\ NeedBarrierFlag(barriers) THEN 0 ELSE @]
  /\ Arrive(w, IF MeshWave(w) THEN "body" ELSE "extra")
  /\ UNCHANGED <<barriers, passed, seg, toggle, counts, allocReq, expVert, expPrim, stats,
                 apiBarrierCount, outputsAt, outputs>>

\* One segment of the API body in a mesh wave, up to its next API barrier
\* (barrierToggle flipped before it when the flag is needed) or to its end
\* (barrier completion flag barrierToggle ? 0b11 : 0b10, then the
\* ".endMeshWave" s_barrier when the flag is needed).  Thread 0 executes
\* SetMeshOutputs in the segment the API chose: GS_ALLOC_REQ, then the
\* counts to LDS.
ApiSegment(w) ==
  LET calls == w = 0 /\ outputsAt = seg[w]
      o == ClampedOutputs(outputs)
      last == seg[w] = apiBarrierCount
      tog == IF NeedBarrierFlag(barriers) /\ ~last THEN ~toggle[w] ELSE toggle[w]
  IN
  /\ pc[w] = "body"
  /\ allocReq' = IF calls THEN Append(allocReq, o) ELSE allocReq
  /\ lds' = [lds EXCEPT
               !.vertexCount = IF calls THEN o[1] ELSE @,
               !.primitiveCount = IF calls THEN o[2] ELSE @,
               !.barrierFlag = IF last /\ NeedBarrierFlag(barriers) THEN BarrierFlagValue(tog) ELSE @]
  /\ toggle' = [toggle EXCEPT ![w] = tog]
  /\ seg' = [seg EXCEPT ![w] = IF last THEN @ ELSE @ + 1]
  /\ IF ~last THEN Arrive(w, "body")
     ELSE IF NeedBarrierFlag(barriers) THEN Arrive(w, "check")
     ELSE /\ pc' = [pc EXCEPT ![w] = "check"] /\ UNCHANGED cont
  /\ UNCHANGED <<barriers, passed, counts, expVert, expPrim, stats, apiBarrierCount, outputsAt, outputs>>

\* ".beginExtraWave" with the flag: barrierToggle = !barrierToggle, s_barrier
ExtraWaveBarrierNoFlip(w) ==
  /\ pc[w] = "extra" /\ NeedBarrierFlag(barriers)
  /\ Arrive(w, "readFlag")
  /\ UNCHANGED <<barriers, passed, seg, toggle, counts, lds, allocReq, expVert, expPrim, stats,
                 apiBarrierCount, outputsAt, outputs>>
ExtraWaveBarrier(w) ==
  /\ pc[w] = "extra" /\ NeedBarrierFlag(barriers)
  /\ toggle' = [toggle EXCEPT ![w] = ~@]
  /\ Arrive(w, "readFlag")
  /\ UNCHANGED <<barriers, passed, seg, counts, lds, allocReq, expVert, expPrim, stats,
                 apiBarrierCount, outputsAt, outputs>>

\* after it: barriersNotCompleted = flag == 0, toggleEqual = (flag & 1) ==
\* barrierToggle; loop while either holds, else go to the count check
ReadBarrierFlagNoToggle(w) ==
  /\ pc[w] = "readFlag"
  /\ pc' = [pc EXCEPT ![w] = IF lds.barrierFlag = 0 THEN "extra" ELSE "check"]
  /\ UNCHANGED <<barriers, cont, passed, seg, toggle, counts, lds, allocReq, expVert, expPrim, stats,
                 apiBarrierCount, outputsAt, outputs>>
ReadBarrierFlag(w) ==
  LET notCompleted == lds.barrierFlag = 0
      toggleEqual == (lds.barrierFlag % 2 = 1) = toggle[w]
  IN
  /\ pc[w] = "readFlag"
  /\ pc' = [pc EXCEPT ![w] = IF notCompleted \/ toggleEqual THEN "extra" ELSE "check"]
  /\ UNCHANGED <<barriers, cont, passed, seg, toggle, counts, lds, allocReq, expVert, expPrim, stats,
                 apiBarrierCount, outputsAt, outputs>>

\* ".beginExtraWave" without the flag: one s_barrier per API barrier
\* (m_barriers.size()), then the count check
ExtraWaveStaticBarrierShort(w) ==
  /\ pc[w] = "extra" /\ ~NeedBarrierFlag(barriers)
  /\ IF seg[w] < Len(barriers) - 1
     THEN /\ seg' = [seg EXCEPT ![w] = @ + 1]
          /\ Arrive(w, "extra")
     ELSE /\ pc' = [pc EXCEPT ![w] = "check"]
          /\ UNCHANGED <<seg, cont>>
  /\ UNCHANGED <<barriers, passed, toggle, counts, lds, allocReq, expVert, expPrim, stats,
                 apiBarrierCount, outputsAt, outputs>>
ExtraWaveStaticBarrier(w) ==
  /\ pc[w] = "extra" /\ ~NeedBarrierFlag(barriers)
  /\ IF seg[w] < Len(barriers)
     THEN /\ seg' = [seg EXCEPT ![w] = @ + 1]
          /\ Arrive(w, "extra")
     ELSE /\ pc' = [pc EXCEPT ![w] = "check"]
          /\ UNCHANGED <<seg, cont>>
  /\ UNCHANGED <<barriers, passed, toggle, counts, lds, allocReq, expVert, expPrim, stats,
                 apiBarrierCount, outputsAt, outputs>>

\* ".checkMeshOutputCount": fence, s_barrier, fence
CheckMeshOutputCount(w) ==
  /\ pc[w] = "check"
  /\ Arrive(w, "count")
  /\ UNCHANGED <<barriers, passed, seg, toggle, counts, lds, allocReq, expVert, expPrim, stats,
                 apiBarrierCount, outputsAt, outputs>>

\* read vertexCount/primitiveCount from LDS; on the ~0 sentinel thread 0
\* sends a dummy GS_ALLOC_REQ with zero counts and the wave returns
ReadMeshOutputCount(w) ==
  LET c == <<lds.vertexCount, lds.primitiveCount>>
      dummy == c[1] = InvalidValue
  IN
  /\ pc[w] = "count"
  /\ counts' = [counts EXCEPT ![w] = c]
  /\ allocReq' = IF dummy /\ w = 0 THEN Append(allocReq, <<0, 0>>) ELSE allocReq
  /\ pc' = [pc EXCEPT ![w] = IF dummy THEN "exit" ELSE "export"]
  /\ UNCHANGED <<barriers, cont, passed, seg, toggle, lds, expVert, expPrim, stats,
                 apiBarrierCount, outputsAt, outputs>>

\* ".exportPrimitiveHeader" .. ".exit": export the wave's primitives below
\* primitiveCount, then its vertices below vertexCount; thread 0 then adds
\* the workgroup to the mesh pipeline statistics (collectMeshStatsInfo)
ExportPrimitivesAndVertices(w) ==
  /\ pc[w] = "export"
  /\ expPrim' = AddExports(expPrim, w, counts[w][2])
  /\ expVert' = AddExports(expVert, w, counts[w][1])
  /\ stats' = IF w = 0 /\ NeedSwMeshPipelineStats
              THEN [numMeshThreads |-> stats.numMeshThreads + NumMeshThreads,
                    numMeshPrimitives |-> stats.numMeshPrimitives + counts[w][2]]
              ELSE stats
  /\ pc' = [pc EXCEPT ![w] = "exit"]
  /\ UNCHANGED <<barriers, cont, passed, seg, toggle, counts, lds, allocReq,
                 apiBarrierCount, outputsAt, outputs>>

\* s_barrier: opens once every wave that has not ended waits on it
Barrier ==
  LET live == {w \in Waves : pc[w] # "exit"}
  IN
  /\ live # {}
  /\ \A w \in live : pc[w] = "wait" /\ passed[w] < BarrierLimit
  /\ pc' = [w \in Waves |-> IF w \in live THEN cont[w] ELSE pc[w]]
  /\ passed' = [w \in Waves |-> IF w \in live THEN passed[w] + 1 ELSE passed[w]]
  /\ UNCHANGED <<barriers, cont, seg, toggle, counts, lds, allocReq, expVert, expPrim, stats,
                 apiBarrierCount, outputsAt, outputs>>

Done == \A w \in Waves : pc[w] = "exit"
Terminating == Done /\ UNCHANGED vars

WaveStep(w) ==
  \/ Entry(w)
  \/ ApiSegment(w)
  \/ ExtraWaveBarrier(w)
  \/ ReadBarrierFlag(w)
  \/ ExtraWaveStaticBarrier(w)
  \/ CheckMeshOutputCount(w)
  \/ ReadMeshOutputCount(w)
  \/ ExportPrimitivesAndVertices(w)

Next == (\E w \in Waves : WaveStep(w)) \/ Barrier \/ Terminating

Spec == Init /\ [][Next]_vars
\* SPI launches every wave and the SQ keeps issuing each one that is not
\* waiting; an s_barrier opens as soon as its last wave arrives.
FairSpec == Spec /\ (\A w \in Waves : WF_vars(WaveStep(w))) /\ WF_vars(Barrier)

(***************************************************************************)
(* Properties                                                              *)
(***************************************************************************)
TypeOK ==
  /\ pc \in [Waves -> {"entry", "body", "extra", "readFlag", "check", "count",
                       "export", "wait", "exit"}]
  /\ passed \in [Waves -> 0 .. BarrierLimit]
  /\ lds.barrierFlag \in {0, 2, 3}


\* The extra waves take exactly as many s_barriers as the mesh waves
\* (m_barriers.size() of them, or as many as the barrier completion flag
\* and its toggle tell them), so no wave ends while another still expects
\* it at a barrier: every two waves that have ended passed the same number.
BarriersMatch ==
  \A w, v \in Waves : pc[w] = "exit" /\ pc[v] = "exit" => passed[w] = passed[v]

\* The workgroup sends exactly one GS_ALLOC_REQ (SetMeshOutputs' or the
\* dummy one on the ~0 sentinel), no wave exports before it, no index is
\* exported twice, and once every wave has ended exactly the vertices and
\* primitives below the requested counts were exported.
ExportsMatchAllocation ==
  /\ Len(allocReq) <= 1
  /\ \A i \in Indices : expVert[i] <= 1 /\ expPrim[i] <= 1
  /\ (\E i \in Indices : expVert[i] + expPrim[i] > 0) => allocReq # <<>>
  /\ Done => /\ Len(allocReq) = 1
             /\ \A i \in Indices : /\ expVert[i] = IF i < allocReq[1][1] THEN 1 ELSE 0
                                   /\ expPrim[i] = IF i < allocReq[1][2] THEN 1 ELSE 0

\* Every wave of the subgroup eventually ends: the extra waves leave their
\* flag-polling loop and no s_barrier waits forever.
AllWavesExit == <>Done

====
