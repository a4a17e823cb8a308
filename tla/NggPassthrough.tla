---------------------------- MODULE NggPassthrough ----------------------------
(***************************************************************************)
(* The primitive shader NggPrimShader::buildPassthroughPrimShader generates *)
(* when NGG culling is off and there is no API GS: an optional primitive-ID *)
(* distribution through LDS (distributePrimitiveId), the GS_ALLOC_REQ      *)
(* message from the first wave, the primitive export of GE's connectivity *)
(* as is, and the ES run for every vertex thread.  SW transform feedback   *)
(* (processSwXfb) is not part of this module.                              *)
(***************************************************************************)
EXTENDS NggCommon

CONSTANTS
  UsePrimitiveId,    \* builtInUsage.vs.primitiveId of a VS (no TES, no GS)
  PassthroughNoMsg   \* GFX11+ without SW stream-out: no GS_ALLOC_REQ at all

ASSUME UsePrimitiveId \in BOOLEAN /\ PassthroughNoMsg \in BOOLEAN

VARIABLES
  sg,        \* the subgroup being processed
  pc,        \* pc[w]: the block wave w is at
  lds,       \* the DistributedPrimitiveId region, one dword per vertex thread
  primId,    \* m_distributedPrimitiveId of each lane
  allocReq,  \* m0 of the GS_ALLOC_REQ message, or NoValue
  primExp,   \* primitive export of each thread, or NoValue
  posExp     \* vertex export (runEs) of each thread, or NoValue

vars == <<sg, pc, lds, primId, allocReq, primExp, posExp>>

VertCountInSubgroup == sg.vertCount
PrimCountInSubgroup == Len(sg.prims)
Launched == {w \in Waves : CountInWave(VertCountInSubgroup, w) + CountInWave(PrimCountInSubgroup, w) > 0}
\* GE's primData VGPR of primitive thread t, and the indices decoded from it
PrimDataIn(t) == PackPrim(sg.prims[t + 1][1], sg.prims[t + 1][2], sg.prims[t + 1][3])
VertexIndex(t, k) == PrimVertex(PrimDataIn(t), k)
DistributePrimitiveId == UsePrimitiveId
ProvokingVertex(t) == IF ProvokingFirst THEN VertexIndex(t, 0) ELSE VertexIndex(t, 2)
VertThreads(w) == {t \in ThreadsOf(w) : t < VertCountInSubgroup}
PrimThreads(w) == {t \in ThreadsOf(w) : t < PrimCountInSubgroup}

Init ==
  /\ sg \in Subgroups
  /\ pc = [w \in Waves |-> IF w \notin Launched THEN "done"
                           ELSE IF DistributePrimitiveId THEN "distrib" ELSE "export"]
  /\ lds = [v \in Threads |-> NoValue]
  /\ primId = [t \in Threads |-> NoValue]
  /\ allocReq = NoValue
  /\ primExp = [t \in Threads |-> NoValue]
  /\ posExp = [t \in Threads |-> NoValue]

\* ".distribPrimitiveId": a primitive writes its ID at its provoking vertex;
\* of several lanes of one ds_write to one address, one lane's value stays
DistribWrite(w) ==
  LET targets == {ProvokingVertex(t) : t \in PrimThreads(w)}
  IN \E winner \in [targets -> PrimThreads(w)] :
       /\ \A a \in targets : ProvokingVertex(winner[a]) = a
       /\ lds' = [a \in Threads |-> IF a \in targets THEN PrimIdVal(winner[a]) ELSE lds[a]]

\* variant: the barrier after the distribution left out
DistribPrimitiveIdNoBarrier(w) ==
  /\ pc[w] = "distrib"
  /\ DistribWrite(w)
  /\ pc' = [pc EXCEPT ![w] = "read"]
  /\ UNCHANGED <<sg, primId, allocReq, primExp, posExp>>

DistribPrimitiveId(w) ==
  /\ pc[w] = "distrib"
  /\ DistribWrite(w)
  /\ pc' = [pc EXCEPT ![w] = "B1"]
  /\ UNCHANGED <<sg, primId, allocReq, primExp, posExp>>

\* ".readPrimitiveId" / ".endReadPrimitiveId"
ReadPrimitiveId(w) ==
  /\ pc[w] = "read"
  /\ primId' = [t \in Threads |-> IF t \in VertThreads(w) THEN lds[t] ELSE primId[t]]
  /\ pc' = [pc EXCEPT ![w] = "B2"]
  /\ UNCHANGED <<sg, lds, allocReq, primExp, posExp>>

\* ".sendGsAllocReq" (wave 0), ".exportPrimitive" (exportPassthroughPrimitive:
\* primData as GE gave it) and ".exportVertex" (runEs with the distributed ID)
Export(w) ==
  /\ pc[w] = "export"
  /\ allocReq' = IF w = 0 /\ ~PassthroughNoMsg
                 THEN GsAllocReq(PrimCountInSubgroup, VertCountInSubgroup) ELSE allocReq
  /\ primExp' = [t \in Threads |-> IF t \in PrimThreads(w) THEN PrimDataIn(t) ELSE primExp[t]]
  /\ posExp' = [t \in Threads |-> IF t \in VertThreads(w) THEN [vertex |-> t, primId |-> primId[t]]
                                  ELSE posExp[t]]
  /\ pc' = [pc EXCEPT ![w] = "done"]
  /\ UNCHANGED <<sg, lds, primId>>

\* createFenceAndBarrier
BarrierExit == [B1 |-> "read", B2 |-> "export"]
Barrier ==
  /\ \E b \in DOMAIN BarrierExit :
       /\ \A w \in Launched : pc[w] = b
       /\ pc' = [w \in Waves |-> IF w \in Launched THEN BarrierExit[b] ELSE pc[w]]
  /\ UNCHANGED <<sg, lds, primId, allocReq, primExp, posExp>>

Done == \A w \in Waves : pc[w] = "done"
Terminating == Done /\ UNCHANGED vars

Next ==
  \/ \E w \in Waves : DistribPrimitiveId(w) \/ ReadPrimitiveId(w) \/ Export(w)
  \/ Barrier
  \/ Terminating

Spec == Init /\ [][Next]_vars

-----------------------------------------------------------------------------
ProvokedBy(v) == {p \in 0 .. (PrimCountInSubgroup - 1) : ProvokingVertex(p) = v}

\* When the subgroup is done, every vertex that is the provoking vertex of
\* some primitive was exported (runEs) with the primitive ID of one of the
\* primitives it provokes, whichever wave that primitive ran in.
PrimitiveIdsDistributed ==
  Done /\ DistributePrimitiveId =>
    \A v \in 0 .. (VertCountInSubgroup - 1) :
      ProvokedBy(v) # {} => \E p \in ProvokedBy(v) : posExp[v].primId = PrimIdVal(p)

=============================================================================
