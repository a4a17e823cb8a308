----------------------------- MODULE MeshTaskIds -----------------------------
(***************************************************************************)
(* The index arithmetic of MeshTaskShader.cpp that links a task workgroup *)
(* to its ring entries and a mesh workgroup to its built-in IDs.  A task  *)
(* workgroup flattens its workgroup ID and adds it to baseRingEntryIndex   *)
(* (getShaderRingEntryIndex); the entry is wrapped into the draw-data     *)
(* ring with a mask (getDrawDataRingEntryOffset; the payload ring's is the *)
(* same), and the draw data emitTaskMeshs writes carries a ready bit, the  *)
(* ring-size bit of the index (getDrawDataReadyBit).  Before               *)
(* GFX11 a mesh workgroup gets only a flat workgroup ID and rebuilds       *)
(* WorkgroupId, LocalInvocationId and GlobalInvocationId from it           *)
(* (getMeshWorkgroupId, getMeshLocalInvocationId,                         *)
(* getMeshGlobalInvocationId).  The ring index is a 32-bit register; here  *)
(* it has IndexBits bits, and ring sizes reach 2^(IndexBits-1), the same   *)
(* edge as 2^31 for 32 bits.                                               *)
(***************************************************************************)
EXTENDS Integers, Bitwise

CONSTANTS
  DispatchDims,          \* dispatchDims: <<x, y, z>> workgroup counts to try
  WorkgroupSizes,        \* meshMode.workgroupSizeX/Y/Z to try
  IndexBits,             \* width of the ring entry index
  DrawDataRingNumRecords, \* NUM_RECORDS (bytes) of draw-data ring descriptors
  DrawDataRingEntrySize  \* bytes of one draw-data ring entry

VARIABLES
  dims,       \* the dispatch's dispatchDims
  wgSize      \* the mesh shader's workgroup size

vars == <<dims, wgSize>>

Box(d) == (0 .. (d[1] - 1)) \X (0 .. (d[2] - 1)) \X (0 .. (d[3] - 1))

\* getShaderRingEntryIndex (task): (z * dims.y + y) * dims.x + x, added to
\* baseRingEntryIndex in a 32-bit register
FlatWorkgroupId(wg, d) == (wg[3] * d[2] + wg[2]) * d[1] + wg[1]
ShaderRingEntryIndex(b, wg, d) == (b + FlatWorkgroupId(wg, d)) % 2^IndexBits

\* numDrawDataRingEntries = NUM_RECORDS / DrawDataRingEntrySize (udiv)
NumDrawDataRingEntries(numRecords) == numRecords \div DrawDataRingEntrySize
\* wrappedRingEntryIndex = ringEntryIndex & (numRingEntries - 1)
WrappedRingEntryIndex(idx, n) == idx & (n - 1)
DrawDataRingEntryOffset(idx, numRecords) ==
  WrappedRingEntryIndex(idx, NumDrawDataRingEntries(numRecords)) * DrawDataRingEntrySize
\* variant: the ready bit taken from the wrapped bits of the index
DrawDataReadyBitLowBits(idx, numRecords) ==
  (idx & (NumDrawDataRingEntries(numRecords) - 1)) # 0
\* readyBit = ringEntryIndex & numRingEntries != 0
DrawDataReadyBit(idx, numRecords) == (idx & NumDrawDataRingEntries(numRecords)) # 0

\* variant: workgroupId.z = flatWorkgroupId / dispatchDims.x * dispatchDims.y,
\* as the comment reads
MeshWorkgroupIdCommentOrder(flat, d) ==
  LET z == (flat \div d[1]) * d[2]
      diff == flat - d[1] * d[2] * z
  IN <<diff - d[1] * (diff \div d[1]), diff \div d[1], z>>
\* getMeshWorkgroupId before GFX11: z, then y, then x from the flat ID
MeshWorkgroupId(flat, d) ==
  LET z == flat \div (d[1] * d[2])
      diff == flat - (d[1] * d[2]) * z
      y == diff \div d[1]
  IN <<diff - d[1] * y, y, z>>

\* getMeshLocalInvocationId: the same split of threadIdInSubgroup by the
\* workgroup size
MeshLocalInvocationId(index, s) ==
  LET z == index \div (s[1] * s[2])
      diff == index - (s[1] * s[2]) * z
      y == diff \div s[1]
  IN <<diff - s[1] * y, y, z>>

\* getMeshGlobalInvocationId: workgroupId * workgroupSize + localInvocationId
MeshGlobalInvocationId(wg, s, local) == [k \in 1 .. 3 |-> wg[k] * s[k] + local[k]]

Init ==
  /\ dims \in DispatchDims
  /\ wgSize \in WorkgroupSizes
Next == UNCHANGED vars
Spec == Init /\ [][Next]_vars

-----------------------------------------------------------------------------
\* the API's numbering: x fastest, then y, then z
ApiFlat(v, d) == v[1] + d[1] * (v[2] + d[2] * v[3])

\* For every dispatch size and mesh workgroup size, the IDs a mesh
\* workgroup rebuilds from its flat workgroup ID (getMeshWorkgroupId) and
\* from its thread ID (getMeshLocalInvocationId) are the ones the API
\* numbering gives, and GlobalInvocationId (getMeshGlobalInvocationId) then
\* names every invocation of the dispatch exactly once.
MeshIdsRoundTrip ==
  LET threads == 0 .. (wgSize[1] * wgSize[2] * wgSize[3] - 1)
      gid(wg, t) == MeshGlobalInvocationId(wg, wgSize, MeshLocalInvocationId(t, wgSize))
      global == [k \in 1 .. 3 |-> dims[k] * wgSize[k]]
  IN /\ \A wg \in Box(dims) : MeshWorkgroupId(ApiFlat(wg, dims), dims) = wg
     /\ \A t \in threads : ApiFlat(MeshLocalInvocationId(t, wgSize), wgSize) = t
     /\ {gid(wg, t) : wg \in Box(dims), t \in threads} = Box(global)

\* For every baseRingEntryIndex, including one that makes the 32-bit index
\* wrap, the consecutive task workgroups of a dispatch get draw-data
\* entries in ring order, and each entry's ready bit is the parity of the
\* lap of the ring it was written in: entries a lap apart share an offset
\* and differ in the ready bit, across the wrap of the index too.
RingEntryLapParity ==
  \A base \in 0 .. (2^IndexBits - 1), numRecords \in DrawDataRingNumRecords, wg \in Box(dims) :
    LET k == ApiFlat(wg, dims)
        n == numRecords \div DrawDataRingEntrySize
        idx == ShaderRingEntryIndex(base, wg, dims)
    IN /\ DrawDataRingEntryOffset(idx, numRecords) = ((base + k) % n) * DrawDataRingEntrySize
       /\ DrawDataReadyBit(idx, numRecords) <=> ((base + k) \div n) % 2 = 1
=============================================================================
