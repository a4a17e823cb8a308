------------------------------ MODULE NggCommon ------------------------------
(***************************************************************************)
(* What every NGG primitive shader variant of NggPrimShader shares: the    *)
(* shape of a subgroup (waves of lanes, initWaveThreadInfo), the subgroup   *)
(* inputs GE delivers, and the hardware encodings of primitive             *)
(* connectivity and of the GS_ALLOC_REQ message.                            *)
(***************************************************************************)
EXTENDS Integers, Sequences, FiniteSets, Bitwise

CONSTANTS
  WaveSize,               \* lanes per wave (getShaderWaveSize: 32 or 64)
  WaveCount,              \* waveCountInSubgroup = NggMaxThreadsPerSubgroup / waveSize
  ProvokingFirst,         \* provokingVertexMode == ProvokingVertexFirst
  Subgroups,              \* possible subgroup inputs [vertCount, prims]
  NoValue                 \* content of LDS or a register never written

ASSUME WaveSize \in Nat \ {0} /\ WaveCount \in Nat \ {0} /\ ProvokingFirst \in BOOLEAN
\* 256/32 = 8 < 32 and 256/64 = 4 < 64: the count of every wave and of the
\* subgroup fit in the lanes of one wave (readlane(waveCountInSubgroup)).
ASSUME WaveCount < WaveSize

Threads == 0 .. (WaveSize * WaveCount - 1)
Waves   == 0 .. (WaveCount - 1)
WaveOf(t) == t \div WaveSize
LaneOf(t) == t % WaveSize
ThreadsOf(w) == {t \in Threads : WaveOf(t) = w}
\* vertCountInWave / primCountInWave as GE fills mergedWaveInfo
CountInWave(n, w) == IF n - w * WaveSize >= WaveSize THEN WaveSize
                     ELSE IF n - w * WaveSize > 0 THEN n - w * WaveSize ELSE 0

\* a subgroup: its vertex count and the relative vertex indices of each primitive
ASSUME \A s \in Subgroups :
         /\ s.vertCount \in 1 .. Cardinality(Threads)
         /\ Len(s.prims) \in 1 .. Cardinality(Threads)
         /\ \A p \in DOMAIN s.prims : \A k \in 1..3 : s.prims[p][k] \in 0 .. (s.vertCount - 1)

(* the hardware encodings: GS_ALLOC_REQ m0 and primitive connectivity *)
NullPrim == -2147483647 - 1   \* the dword 1 << 31, as TLC's 32-bit integers hold it
PackPrim(i0, i1, i2) == (((i2 * 2^10) | i1) * 2^10) | i0
PrimVertex(word, k) == (word \div 2^(10 * k)) % 2^9
\* variant: the two counts in each other's bit fields
GsAllocReqSwapped(primCount, vertCount) == (vertCount * 2^12) | primCount
GsAllocReq(primCount, vertCount) == (primCount * 2^12) | vertCount
ReqVertCount(m0) == m0 % 2^11
ReqPrimCount(m0) == (m0 \div 2^12) % 2^11

\* the primitive ID GE gives primitive thread p (an abstract value)
PrimIdVal(p) == <<"primId", p>>

=============================================================================
