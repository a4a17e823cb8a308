# TLA+ models of the NGG primitive shader (llpc `NggPrimShader`)

These modules model the primitive shader that `src/lgc/patch/NggPrimShader.cpp`
generates. The shader is the software geometry front end that culls primitives,
compacts the surviving vertices and exports them to the rasterizer. The models
cover the generated program as it runs on the GPU. They do not cover the C++
code generator that builds it. Each block sequence of the generated program is
one action. Its guards, assignments and barriers come from the IR that
`buildPrimShader` emits. `MeshShader` models, in the same way, the hardware
GS subgroup that `MeshTaskShader::processMeshShader` builds around an API
mesh shader. `MeshTaskIds` holds the index arithmetic that links task and
mesh workgroups: ring entries, ready bits and the rebuilt built-in IDs.
`SpirvEntry` models a different kind of code: the compile-time
annotation store of the SPIR-V reader's entries
(`src/llpc/translator/lib/SPIRV/libSPIRV/SPIRVEntry.cpp`).

## The system and its parts

A *subgroup* of up to 256 vertices and primitives runs as several waves of 32
or 64 lanes. The lanes of one wave run in lockstep. Waves run concurrently and
meet only at `createFenceAndBarrier` (`s_barrier`). They share the subgroup's
LDS, which `layoutPrimShaderLds` divides into regions, some of them
deliberately aliased.

| Part (spec §) | Source | Module | Status |
|---|---|---|---|
| Wave/subgroup info (4.1) | `initWaveThreadInfo` | `NggCommon` (derived operators) | partly |
| LDS layout planner (4.2) | `layoutPrimShaderLds`, `calcEsGsRingItemSize`, `calcVertexCullInfoSizeAndOffsets` | `NggLdsLayout`; the run-time alias in `NggCulling` | modelled |
| Cull-data fetcher (4.3) | `runPartEs`, `splitEs` | `NggCulling` (`runPartEs`) | partly |
| Culling suite (4.4) | `doCulling`, `create*Culler` | `NggCullDistance` (cull distance); the other verdicts are left free | partly |
| Draw flags / compaction (4.5) | `buildPrimShader`, `buildPrimShaderWithGs` | `NggCulling`, `NggGs`, `NggGsXfb` | partly |
| Export emitter (4.6) | `sendGsAllocReqMessage`, `exportPrimitive`, `exportPassthroughPrimitive`, `exportPrimitiveWithGs`, `earlyExitWithDummyExport`, `runPartEs` | `NggCulling`, `NggPassthrough`, `NggGs` | partly (no `processVertexAttribExport`) |
| Passthrough shader | `buildPassthroughPrimShader`, `distributePrimitiveId` | `NggPassthrough` | partly (its SW XFB branch is `NggXfb` on its own) |
| Primitive shader with API GS | `buildPrimShaderWithGs`, GS emit/cut handlers, copy shader | `NggGs` (raster stream), `NggGsXfb` (all streams with SW XFB, through vertex compaction) | partly (one GS invocation per input primitive) |
| Transform feedback (4.7) | `processSwXfb`, `processSwXfbWithGs` | `NggXfb` (`processSwXfb`), `NggGsXfb` (`processSwXfbWithGs`), both refining `XfbReservation` | modelled |
| Mesh/task shader | `processMeshShader`, `lowerMeshShaderBody`, `setMeshOutputs`, `checkNeedBarrierFlag` | `MeshShader`, `MeshTaskIds` | partly (no ring consumer, no payload or attribute data) |
| SPIR-V entries | `SPIRVEntry.cpp`: forward entries, `OpName`/`OpEntryPoint`/`OpExecutionMode` decoders, decorations, `takeAnnotations` | `SpirvEntry`, refining `SpirvAnnotationStore` | partly (no factory, no setter-only decoders, no queries) |

`NggCommon` holds what the variants share: the thread, wave and lane
arithmetic, the subgroup inputs that GE delivers, the primitive connectivity
encoding (`PackPrim`, `PrimVertex`, `NullPrim`) and the GS_ALLOC_REQ m0 layout
(`GsAllocReq`, `ReqVertCount`, `ReqPrimCount`).

## `NggCulling`: `buildPrimShader` without API GS

Waves are the actors. The variables match the code as follows:

- **`pc[w]`**: the block wave `w` is at. A label `B1`..`B6` or `BP` means
  the wave is waiting at a barrier.
- **`lds`**: the dwords at LDS offset 0. `DistributedPrimitiveId` (one dword
  per vertex) and `VertexPosition` (four dwords per vertex) both live there
  (`layoutPrimShaderLds`, "overlapped with VertexPosition").
- **`cullInfo`**: the `VertexCullInfo` items. Each item holds the draw flag,
  the compacted index, the saved system values and the saved primitive ID.
- **`vertCounts`**: the `VertexCounts` region.
- **`vertIndexMap`**: the `VertexIndexMap` region.
- **`reg`**: per-lane VGPR values. These are the distributed primitive ID, the
  fetched position, the culled flag, the positions the culler read and the draw
  flag.
- **`wave`**: the per-wave SGPR results. These are the drawn count, the
  runtime `m_compactVertex`, `fullyCulled`, and the revised primitive and
  vertex counts.
- **`allocReq`**: the m0 of GS_ALLOC_REQ.
- **`primExp` / `posExp`**: the primitive and position exports of each
  thread.

Each action models one code block and everything it does up to the next
barrier:

- **`WritePrimId`, `ReadPrimId`**: `.writePrimId`, `.readPrimId`. Several
  lanes that write the same provoking vertex leave one lane's value; which lane
  wins is a free choice.
- **`FetchVertCullData`**: `.fetchVertCullData` through `.writeVertexCullData`.
  This includes the runtime passthrough decision.
- **`Culling`**: `.culling`, `.writeVertDrawFlag`. The culler suite's verdict
  is a free choice, and the positions it reads are recorded.
- **`AccumVertCount`**: ballot, popcount and the atomic adds into
  `VertexCounts`.
- **`CompactVert`**: `.endAccumVertCount` through `.endCompactVert`.
- **`CheckAllocReq`**: `.checkAllocReq`, `.allocReq`.
- **`Export`**: early exit, `exportPrimitive`, and the compactionless
  empty-wave check. Deferred vertex export goes through `VertexExport` /
  `Rematerialized`, which follow `runPartEs`.
- **`Barrier`**: releases every launched wave once all of them have reached
  it.

Positions, system values and primitive IDs are abstract values that name their
vertex or primitive. LDS starts with stale contents (index 511, `NoValue`,
draw flag 1, count 1), so a read of something never written shows up in the
exports.

### Runs

| Run | Config | Result | What it shows |
|---|---|---|---|
| `compaction_vs` | `MC_NggCulling.cfg` | pass | With compaction and primitive IDs distributed through the aliased region, the culler always reads the right positions (`CullReadsOwnPositions`). Exactly the kept vertices are exported, once each, densely and in order (`ExportsExactlyKept`). Every primitive refers to the right vertices (`ConnectivityPreserved`). Every export carries its own vertex's system values and a primitive ID of a primitive it provokes (`ExportsMatchInputs`). |
| `compactionless_workaround` | `MC_NggCulling_NoCompact.cfg` | pass | GS_ALLOC_REQ announces exactly the exported primitives and covers every exported or referenced vertex slot (`AllocCoversExports`). This holds for the fully culled subgroup under the empty-subgroup workaround and on the runtime passthrough path with its raw `s_barrier`. |
| `tes_rematerialize` | `MC_NggCulling_Tes.cfg` | violation | `ExportsMatchInputs` fails for a TES when vertex compaction is compiled in. See the finding below. |

Each property of a passing run has a mutant in `PROJECT.json` that TLC
catches:

- the read of primitive IDs without the barrier that protects the aliased
  region;
- a dword stride for the vec4 position slots;
- the lane's own system values used after compaction;
- uncompacted connectivity;
- an inclusive mbcnt;
- the workaround's dummy count dropped.

### Finding

`runPartEs` (`NggPrimShader.cpp:3329`) assigns the phi for `tessCoordY` to
`tessCoordX`. The phi has two incoming values: the re-materialized
`tessCoordY` from `.uncompactVert`, and the lane's own `tessCoordY` on the
path without compaction. So whenever vertex compaction is compiled in and
the TES reads `gl_TessCoord`, every exported vertex has `tessCoordY` in X,
in subgroups that compact and in those that do not (the runtime passthrough
of a small subgroup, or nothing culled). After compaction, Y holds the
exporting lane's live `tessCoordY`, which belongs to another vertex. TLC's
shortest trace is a small subgroup that skips culling: no compaction
happens, and the first exported vertex still gets the wrong X.

### Bounds

- **Two waves of three lanes.** `WaveCount < WaveSize` holds, as it does for
  8 < 32 and 4 < 64, so the prefix-sum slots fit in one wave.
- **Three subgroups:**
  - five vertices and four primitives spread over both waves, with two
    primitives sharing a provoking vertex inside wave 0 and two sharing one
    across waves;
  - four vertices, leaving wave 1 with a single vertex;
  - three vertices, below `SmallSubgroupThreshold` = 4, which takes runtime
    passthrough.
- **Every culling outcome.** Every culled/kept assignment is enumerated,
  including all-culled.

These bounds make every cross-wave case happen: a vertex drawn by primitives of
another wave, a wave with no drawn vertex, a fully culled subgroup, and
compaction that moves vertices across wave boundaries.

### Fairness and deadlock

Deadlock is checked in every run: each one must reach the state where all
waves are done. This checks that every launched wave executes the same
barriers on every path.

No liveness property is checked for this module. Every path of
`buildPrimShader` runs the same barriers in every launched wave, so the
deadlock check above already covers what `<>Done` would add.

## `NggPassthrough`: `buildPassthroughPrimShader`

The waves run `distributePrimitiveId` and then a single export block. The
export block sends GS_ALLOC_REQ from wave 0, exports the primitive connectivity
as GE gave it, and runs the ES with the distributed ID. On GFX11+ without SW
stream-out (`PassthroughNoMsg`) no GS_ALLOC_REQ is sent. The variables are
`pc`, `lds` (the `DistributedPrimitiveId` region), `primId`, `allocReq`,
`primExp` and `posExp`.

Run `passthrough_primid` (`MC_NggPassthrough.cfg`, pass) checks
`PrimitiveIdsDistributed`: every provoking vertex is exported with the ID of
a primitive it provokes, even when that primitive ran in another wave. The
GS_ALLOC_REQ counts are not checked here: `Export` sets them in one
assignment from the subgroup's own counts, so a property about them would
only restate that line.

## `NggGs`: `buildPrimShaderWithGs`

Waves go through the ES, GS, culling, draw-flag, compaction and export blocks,
separated by five barriers (`BarrierExit`). The GS program of each invocation
is an input: a sequence of `"emit"` and `"cut"` calls. `EmitRun` follows the
emit handler (`processGsEmit`), so invocation `i` writes its output vertex and
the winding `(outVerts - outVertsPerPrim) & 1` into slot
`i * MaxVerts + emitVerts - outVertsPerPrim`. A cut resets `outVerts`.

Amplification equals `max_vertices`, as the NOTE at the top of the function
says, so the output vertex and primitive counts of the subgroup are both
`G * MaxVerts`. A slot is drawn when primitive N, N-1 or N-2 is not null. With
compaction, the drawn slots are packed through `VertexCounts` and
`VertexIndexMap`, and the copy shader reads back through the map. Without it,
an empty wave exports a dummy.

| Run | Config | Result | What it shows |
|---|---|---|---|
| `gs_strips_compaction` | `MC_NggGs.cfg` | pass | With triangle strips, culling and compaction across three waves: `PrimitivesAsEmitted` holds, i.e. the exported primitives, read through the exported vertices, are exactly the emitted strip triangles in Vulkan order and winding, minus the culled ones, each once. `AllocMatchesExportsGs` holds: GS_ALLOC_REQ announces the exports, and compaction leaves slots 0..n-1 dense and distinct. `GsReadsEsOutputs` holds: each GS invocation reads the ES outputs of its own input vertices. |
| `gs_lines_compactionless` | `MC_NggGs_Lines.cfg` | pass | `PrimitivesAsEmitted` holds for line strips without culling or compaction. Cuts at the start, in the middle and after one vertex are included. |

## `NggLdsLayout`: the LDS planner

The planner is a pure function of the pipeline state, so the module has one
variable, `c`, which is drawn from every configuration in `MCConfigs`. That set
covers:

- GS, passthrough and culling mode;
- with and without SW XFB, compaction and cull distances;
- VS or TES system values;
- 3 or 256 ES vertices.

`layoutPrimShaderLds` is written as a list of steps (`Place`, `Alias`,
`Reset`). Each step carries what it adds to `esExtraLdsSize` or
`gsExtraLdsSize`, because the code updates those sums separately from
`ldsOffset`. `LdsLayout` folds the steps into region → (offset, size).
`CullInfoItems` / `CullInfoOffsets` follow `calcVertexCullInfoSizeAndOffsets`
field by field.

`gsOnChipLdsSize` comes from `calcFactor`, which is computed outside `src/`.
The MC module gives it the value `calcFactor` reserves: the aligned ES-GS size,
the GS extra regions and a GS-VS ring.

Run `static_plans` (pass) checks two properties of the planner:

- `RegionsDisjoint`: regions overlap only at the four documented aliases.
- `LayoutWithinAllocation`: every region lies inside the LDS the usage info
  reports, and no size wraps.

No property is stated about the cull-info item itself. The code advances
`cullInfoSize` and `cullInfoOffset` by the same `itemSize` for every field,
so the item size and the field offsets come from one list, and a check that
the fields fit in the item would hold by construction.

## `NggXfb`: `processSwXfb` across a draw

The actors are the waves of three subgroups of one draw. Within a subgroup,
vertex threads write their XFB outputs to LDS (`FetchXfbOutput`). Thread 0
then reserves buffer space one active buffer at a time:

1. `ReadDwordsWritten` reads the GDS counter with `ds_ordered_count` for the
   first active buffer (which waits for the subgroup's `orderedWaveId`) and
   `ds_add_gs_reg` of 0 for the others, then clamps `numPrimsToWrite`.
2. `AddDwordsWritten` adds the reserved dwords and keeps the returned old
   count. The last active buffer's add releases the ordering.
3. `StoreXfbStats` writes the XfbStats LDS region and the two primitive
   counters.

After the subgroup barrier, each wave stores the vertices of its primitives
below `numPrimsToWrite` (`ExportXfbOutput`).

Run `xfb_ordered_reservation` (pass) covers a draw with these buffers:

- buffer 0 active, stride 1;
- buffer 1 inactive;
- buffer 2 active, stride 2, with room for 6 of the 7 primitives.

The third subgroup is therefore clipped part-way. Two properties are checked:

- `XfbWritesDisjoint`: at every step, the stores are inside
  `[offset, size)` and never overlap.
- `XfbStreamPrefix`: when the draw is done, every active buffer holds exactly
  the longest prefix of the primitive stream that fits in all of them, each
  vertex with its own outputs, and the GDS counters agree.

Deadlock checking shows that the ordered chain always completes.

The run also checks a refinement. `XfbReservation.tla` is the abstract
specification of what SW XFB promises a draw:

- subgroups reserve in draw order (`Reserve`);
- each reservation gets `min(primitives, capacity left)` slots;
- the stores fill reserved slots only, in any order (`Write`);
- under weak fairness every subgroup reserves and every reserved slot is
  written.

`NggXfb` implements it under `FairSpec`, which assumes weak fairness of each
subgroup's steps (`SubgroupStep(s)`). The hardware runs a launched wave to
completion, and `ds_ordered_count` grants the subgroups in order. The
refinement mapping is:

- `next` is `orderedNext`;
- `reserved` is the last active buffer's GDS count in primitives, which
  changes in the step that releases the ordering, so each ordered section is
  one `Reserve`;
- `written` is the set of slots of the first active buffer that have been
  stored.

`XfbRefinesReservation` is checked as a PROPERTY.

## `NggGsXfb`: `processSwXfbWithGs` across a draw

`processSwXfbWithGs` runs in `.endGs` of `buildPrimShaderWithGs`. Every
active vertex stream has its own regions:

- PrimitiveData, holding `NullPrim` or the winding the GS_EMIT handler wrote;
- GS-VS ring;
- PrimitiveCounts;
- PrimitiveIndexMap.

A stream is active if it feeds a buffer or is the rasterization stream. The
GS programs are inputs, given as per-invocation sequences of
`<<"emit"|"cut", stream>>`. `mutateGs` keeps `emitVerts` and `outVerts` per
stream, so `EmitRun` runs the emit handler over one stream's calls at a time.

The actions, per wave or per subgroup:

1. `RunGs`: the GS writes the ring and the windings. Threads below
   `waveCount + 1` then clear PrimitiveCounts (`.initOutPrimCount`).
2. `CheckOutPrimDrawFlag`: per-stream draw flags, with ballot and popcount.
   The atomic adds go to slots `waveId + 1 .. waveCount`.
3. `CompactOutPrimId`: the readlane of the prefix and the total, then the
   PrimitiveIndexMap writes.
4. `ReadDwordsWritten` and `AddDwordsWritten` (thread 0): the ordered GDS
   section of `NggXfb`. Each active buffer clamps the count of the stream
   that feeds it (`xfbBufferToStream`).
5. `StoreXfbStats`.
6. `ExportXfbOutput`: stores vertices `N, N+1, N+2` of the uncompacted
   thread `N`, swapping the last two when the winding is set. It then runs
   `.initOutVertCount`. With SW XFB its VertexCounts region *is*
   PrimitiveCounts, so wave 0 zeroes the raster stream's counts.

7. `Culling` (culling mode only): the cullers' verdict is free. A culled
   primitive's raster-stream PrimitiveData becomes `NullPrim`.
8. `CheckOutVertDrawFlag`: slot `N` is drawn if primitive `N`, `N-1` or
   `N-2` survived. The wave's count is added into VertexCounts, which is the
   raster stream's PrimitiveCounts.
9. `CompactOutVertId`: `vertCountInPrevWaves + mbcnt(drawMask)` and
   `hasCulledVertices` are read from VertexCounts. A drawn lane then writes
   its thread ID into VertexIndexMap. With SW XFB (`compactVertex` on),
   that map is the LDS of stream 0's PrimitiveIndexMap. The GS_ALLOC_REQ
   and the exports that follow are modelled in `NggGs`.

Steps 7-9 overwrite what step 6 of a slower wave reads: the winding in
PrimitiveData, the map, and the counts it zeroes. `Barrier` separates the
steps as the six `createFenceAndBarrier` calls do. The fourth of these, in
`.endInitOutVertCount`, is the one that makes the reuse safe.

Run **`gs_xfb_reservation`** (`MC_NggGsXfb_Reservation.cfg`, 5,728
states, passes, with culling on). The draw is two subgroups; three waves of four lanes;
`max_vertices` 5, so invocation slots straddle waves; triangle strips with
windings 0 and 1 and a cut. Stream 0 (rasterized) feeds buffer 1. Stream 1
feeds buffers 0 and 2; buffer 2 has room for four of its five primitives.
Buffer 1 holds exactly stream 0's three primitives. The last of them sits
in wave 1 of subgroup B, and its compacted slot 0 is in wave 0. So an XFB
store of wave 0 reads data that wave 1's culling and compaction rewrite.
Under `FairSpec` the run checks three properties.

- `GsXfbStreamPrefix`: when the draw is done, every buffer holds exactly
  the longest prefix of its stream, in API order and strip winding, that
  fits in all of that stream's buffers. The GDS dword and primitive
  counters must agree with it.
- `VertexIndexMapCompacts`: once a subgroup is done and some output slot is
  unused, VertexIndexMap lists, densely and in order, the slots of the
  primitives that survived culling. The reference is computed from the
  surviving primitives, not from the draw flags.
- `GsXfbRefinesReservation`: each stream that feeds buffers implements
  `XfbReservation`. The mapping is:
  - `reserved`: the sum of `numPrimsToWrite` of the subgroups whose ordered
    section has finished;
  - `written`: the slots stored in the stream's first buffer.

  The instances are written out per stream in `MC_NggGsXfb`. TLC cannot
  check a quantifier over `[][A]_v`, and the constant parts of the mapping
  are evaluated once there. With a third subgroup the refinement took
  over five minutes, so the run has two.

Mutants:

- counts added from the wave's own slot;
- `dwordsToWrite` taken from `numPrimsToWrite` indexed by buffer instead of
  by stream;
- the ordered count released by the first buffer's add;
- culling entered straight after the XFB export, without the
  `.endInitOutVertCount` barrier;
- a vertex's draw flag taken from primitive `N` only.

The first two and the fourth break `GsXfbStreamPrefix`. In the fourth,
wave 1 culls subgroup B's stream-0 triangle before wave 0 stores it, and
the store swaps the triangle's last two vertices. The third breaks the
refinement and the fifth breaks `VertexIndexMapCompacts`.

## `MeshShader`: `processMeshShader`

An API mesh workgroup runs as one hardware GS subgroup:

- `numMeshThreads` API threads need `numMeshWaves` waves;
- the subgroup has `primAmpFactor` threads, so it can have *extra waves*
  that run no API code.

With row export the subgroup is exactly `numMeshThreads` threads, so there
are no extra waves. The extra waves must take part in every `s_barrier` of
the API body. `checkNeedBarrierFlag` chooses between two ways to make sure
of that:

- **Static.** Every API barrier post-dominates the entry and lies in no
  cycle. Each extra wave then adds `m_barriers.size()` barriers.
- **Dynamic.** Otherwise, the *barrier completion flag* is used:
  - mesh waves flip `barrierToggle` at every API barrier;
  - at the end of the body they write `toggle ? 0b11 : 0b10` to LDS, then
    take one more barrier;
  - extra waves flip their own toggle, take a barrier and read the flag;
  - extra waves loop while the flag is 0 or its toggle bit equals theirs.

The flag read races with the mesh waves' write after the same barrier. The
toggle is what makes both outcomes end after the same number of barriers.

State:

- per wave: `pc`, `cont` (where it resumes after a barrier), barriers
  `passed`, `seg` (API barriers passed, or static barriers added),
  `toggle`, the `counts` read;
- LDS: `vertexCount`, `primitiveCount`, `barrierFlag`, zeroed primitive
  slots. The initial contents are arbitrary;
- `allocReq`: the GS_ALLOC_REQ messages;
- `expVert`, `expPrim`: per-index export counts;
- `stats`.

The API shader being lowered (`barriers`, from `ApiShaders`) is chosen in
`Init`. So are how many barriers its body executes (`ApiBarrierCounts`: one
execution of a proved barrier; 0..`MaxLoopTrips` of one in a cycle; 0 or 1
of one off the post-dominator path), the body segment in which thread 0
calls SetMeshOutputs (or none), and its counts.

Actions:

| Action | Code |
|---|---|
| `Entry` | `.entry` .. `.endWriteSpecialValue`: zero the wave's primitive slots; thread 0 writes the ~0 sentinel and the zero flag; barrier |
| `ApiSegment` | the API body up to its next barrier (toggle flip) or its end (flag write, `.endMeshWave` barrier); `setMeshOutputs` in the chosen segment, with its zero-count clamp |
| `ExtraWaveBarrier`, `ReadBarrierFlag` | `.beginExtraWave` with the flag |
| `ExtraWaveStaticBarrier` | `.beginExtraWave` without it |
| `CheckMeshOutputCount`, `ReadMeshOutputCount` | `.checkMeshOutputCount`, and the dummy GS_ALLOC_REQ on the sentinel |
| `ExportPrimitivesAndVertices` | the export loops (`WaveIndices`, the row export loop) and `collectMeshStatsInfo` |
| `Barrier` | `s_barrier`: opens when every wave that has not ended waits |

`FairSpec` gives each wave and the barrier weak fairness: SPI launches every
wave, and the SQ issues every wave that is not waiting.

Runs (both pass):

- **`mesh_barrier_flag`** (`MC_MeshShader.cfg`, 4,426 states). Three waves
  of two lanes: two mesh waves (three API threads) and one extra wave. The
  API shader is either one barrier in a loop taken 0 to 3 times (dynamic)
  or two straight-line barriers (static). SetMeshOutputs is never called,
  or called in any segment, with `<<5, 3>>` or `<<0, 2>>`. Vertex 4 belongs
  to the extra wave only. The run checks:
  - `TypeOK`;
  - `BarriersMatch`: waves that end have passed the same number of
    barriers;
  - `ExportsMatchAllocation`: one GS_ALLOC_REQ, no export before it, no
    index exported twice, and at the end exactly the indices below the
    requested counts;
  - `AllWavesExit` under `FairSpec`.
- **`mesh_row_export`** (`MC_MeshShader_Rows.cfg`, 1,470 states). Two waves
  of two lanes loop over ten vertices and nine primitives, so each thread
  exports up to three rows. The run checks `ExportsMatchAllocation`.

Mutants (all caught):

- a flag written without the completion bit (`TypeOK`);
- the extra wave leaving when the flag is set, whatever its toggle
  (`BarriersMatch`). It then ends one barrier early;
- `checkNeedBarrierFlag` ignoring cycles (`ExportsMatchAllocation`). The
  extra wave then reads the sentinel while the loop still runs, and never
  exports vertex 4;
- the extra wave's toggle not flipped (`AllWavesExit`);
- one static barrier too few (`BarriersMatch`, `ExportsMatchAllocation`);
- the row index advanced cumulatively, as the comments in the code describe
  it (`ExportsMatchAllocation`).

**Finding.** The comments at `MeshTaskShader.cpp:652`, `:889` and `:949`
describe the row loop as `primitiveIndex += loopIndex * waveSize`. The code
computes `threadIdInSubgroup + loopIndex * waveSize`, which covers every
row. The comment's form skips rows from the third iteration on. The code is
right and the comments are wrong.

**Assumption.** Without row export, each vertex and primitive needs a
thread of its own. `primAmpFactor` is computed outside this repository, so
the module assumes it covers `outputVertices` and `outputPrimitives` (an
`ASSUME`) rather than checking it.

## `NggCullDistance`: the cull-distance culler

Cull distances are held as their IEEE bit patterns. `SignMask` packs bit 31 of
each pattern as the code does, and `CullDistanceCuller` is
`createCullDistanceCuller`. Run `static_plans` checks
`CullDistanceMatchesRule` for three planes. The inputs are every combination
of 1.0, -0.0 and -1.0 at the three vertices, with and without an earlier cull:
the culler's verdict must equal "some plane has all three sign bits set".

-0.0 counts as negative. This is listed as a hazard.

`NggLdsLayout`, `NggCullDistance` and `MeshTaskIds` have no steps: each
checks a pure function over an input domain. `MC_NggStaticChecks`
instantiates all three in one run. Each initial state is one input of one of
them, and the other modules' variables hold a fixed value. The run reaches
every input of each module exactly as a run of its own would, without
building the product of the domains:
- 1,224 configurations;
- 39,366 cull inputs;
- 324 dispatch and workgroup shapes.

The held mesh input is the one-workgroup dispatch, which keeps the mesh
properties cheap in the other modules' states. The run's properties are the
modules' own properties, re-exported under the same names.

## `MeshTaskIds`: task and mesh workgroup indices

A task workgroup takes the entry `baseRingEntryIndex + flatWorkgroupId` of
the payload and draw-data rings (`getShaderRingEntryIndex`). Here
`flatWorkgroupId = (z * dims.y + y) * dims.x + x`. The ring's entry count is the
descriptor's `NUM_RECORDS` divided by the entry size; the index is wrapped
with `& (numRingEntries - 1)`, and the draw data that `emitTaskMeshs` writes
carries the ready bit `index & numRingEntries` (`getDrawDataReadyBit`).
Before GFX11, a mesh workgroup gets only a flat workgroup ID. It rebuilds
`WorkgroupId` by dividing by `dims.x * dims.y` and then by `dims.x`
(`getMeshWorkgroupId`), and `LocalInvocationId` the same way from its
thread ID. `GlobalInvocationId` is `workgroupId * workgroupSize +
localInvocationId`. The module has no steps: its variables are the dispatch
size and the mesh workgroup size. Run `static_plans` checks two properties.

- `MeshIdsRoundTrip`: for every dispatch shape up to 3 x 3 x 3 and every
  workgroup size in {1,2} x {1,2,3} x {1,2}:
  - the rebuilt workgroup IDs and local IDs are those of the API numbering
    (x fastest);
  - the global IDs name every invocation of the dispatch once.
- `RingEntryLapParity`: for every dispatch shape, every base index and
  `NUM_RECORDS` of 16 to 128 bytes (rings of 1 to 8 entries of 16 bytes), the task workgroups take consecutive entries, and each
  ready bit is the parity of the ring lap. The index is 32 bits in the
  code. The model gives it 4 bits, so some bases make it wrap. The largest
  ring, 8, is half the index range, the counterpart of 2^31. The property
  holds because the ring size is a power of two that divides half the
  index range; the code assumes this of the descriptor and does not check
  it.

Mutants:

- `workgroupId.z` computed as the comment reads (`flat / dims.x * dims.y`);
- the ready bit taken from the wrapped bits of the index.

## `SpirvEntry`: annotations of SPIR-V entries

`SPIRVEntry.cpp` is the base class of the SPIR-V reader's in-memory module.
An instruction may name an id before the id is defined. Examples are an
`OpName`, an `OpEntryPoint`, an `OpExecutionMode` or an `OpDecorate` for a
function defined later. In that case `getOrCreate` or `getOrCreateTarget`
creates a *forward* entry (`SPIRVForward`), and the annotations attach to it.
When the definition is added, the new entry takes them over
(`takeAnnotations`).

| Action | Code |
|---|---|
| `GetOrCreate(id)` | `getOrCreate`: an absent id becomes a forward entry |
| `DecodeName(id, n)` | `SPIRVName::decode` through `getOrCreateTarget` |
| `DecodeEntryPoint(ep)` | `SPIRVEntryPoint::decode`: `NumInOuts` from the word count, `setName`, `addEntryPoint` |
| `DecodeExecutionMode(in)` | `SPIRVExecutionMode::decode`: the literal count per mode, merge or add |
| `AddDecorate(id, d)` | `addDecorate`: multimap insert, `Module->addDecorate`, LinkageAttributes names the entry |
| `SetLinkageType(id, lt)` | `setLinkageType` (functions and variables) |
| `EraseDecorate`, `AddMemberDecorate`, `EraseMemberDecorate` | the functions of those names |
| `Define(id)` | the module adding a definition, with `takeAnnotations` (`takeDecorates`, `takeMemberDecorates`, `takeExecutionModes` for an `OpFunction`) |

The decoders' guard `AnnotatableTarget` is the assertion in
`getOrCreateTarget` that annotations only target a forward entry.
`SPIRVModule`, `SPIRVDecoder` and the string decoding are not in this
repository, so the model makes these assumptions about them:

- `Module->setName` sets the entry's name.
- A decoded string takes `getSizeInWords` = length/4 + 1 words.
- `canHaveMemberDecorates` holds for forward entries and struct types.

The module's list of registered decorations is kept only as a count, because
nothing in this file reads it back.

`SpirvAnnotationStore` is what a client of the entries relies on. Each id has
one record: a name, an ordered list of decorations, member decorations keyed
by (member, kind), and execution-mode calls. The module also has a list of
entry points. Annotation operations change that record, and a definition
does not appear in it at all.

Run `spirv_annotations` (pass) checks `SpirvEntryRefinesStore`. The property
is the abstract spec under the mapping "an id's record is the record of the
entry the module maps it to", with the encoded instructions as the abstract
inputs. It shows three things:

- `takeAnnotations` loses and adds nothing.
- `DecodeEntryPoint` recovers exactly the interface ids of an `OpEntryPoint`.
  The stream continues with the next instruction's first word, so reading
  one word too many is caught.
- `DecodeExecutionMode` recovers exactly the literals of an
  `OpExecutionMode`.

The bounds:

- Two ids: a function, and a variable or a struct type.
- Names of 3 and 4 bytes. At 4 bytes the nul terminator takes a word of its
  own.
- Interface lists of length 0 to 2.
- `LocalSize` (3 literals), `DenormPreserve` (merged) and `OriginUpperLeft`
  (none).
- At most two decorations registered, one entry point and one execution mode
  per id.

The mutant drops `takeMemberDecorates`. Dropping the `- 1` from `NumInOuts`
is also caught (after 22 states).

`setLinkageType` appends a second LinkageAttributes decoration, while
`getLinkageType` and `hasDecorate` answer with the first. Nothing under
`src/` calls `setLinkageType` or `getLinkageType`, so this is not listed as
a hazard.

## Bounds of the other runs

- **`NggPassthrough` and `NggGs`** use the wave shapes of `NggCulling`. The GS
  strip run has three waves of four lanes and two subgroups:
  - one of two invocations, whose cuts split the strips;
  - one of a single invocation.

  The line run adds a third subgroup in which a cut comes first. Together they
  cover: output slots of one invocation spread over two waves, N-1/N-2 reads
  across invocations, empty waves, and all-culled strips.
- **`NggLdsLayout`** enumerates 1,224 configurations. The values 3 and 256
  for `esVerts`, and 0, 1 and 3 for the XFB output and GS input counts, make
  every size differ from its neighbour.
- **`NggXfb`** has three subgroups: 1, 4 and 2 primitives; 3, 4 and 3
  vertices. One buffer clips the last subgroup after one of its two
  primitives, and every interleaving of the subgroups' waves is explored.
  Three subgroups are the fewest in which one waits for two others to finish
  their ordered sections.

Apart from `AllWavesExit` and the refinements, the properties
are safety properties. Deadlock is checked wherever the model has steps: every run reaches the state where all
waves are done, so no wave waits forever at a barrier or on the ordered count.

## Mutants

Every property of a passing run has a mutant in `PROJECT.json`. TLC catches
each one under the run's own configuration. Besides those listed for
`NggCulling` above:

- `NggPassthrough`:
  - the barrier after the distribution dropped;
  - the GS_ALLOC_REQ fields swapped.
- `NggGs`:
  - the strip winding taken from `outVerts` rather than
    `outVerts - outVertsPerPrim`;
  - the vertex count not updated after compaction;
  - the GS reading the ES-GS ring without the barrier;
  - a draw flag from the slot's own primitive only.
- `NggLdsLayout`:
  - `ldsOffset` not advanced past a region;
  - the vertex index map not counted in `esExtraLdsSize`;
  - the XFB outputs left out of `cullInfoSize`.
- `NggXfb`:
  - the ordered count released at the first buffer instead of the last;
  - `dwordsRemaining` computed without the buffer offset;
  - `primValid` compared with `numPrimsToWrite - 1`, which breaks the
    refinement because reserved slots are never written.
- `NggCullDistance`: the vertex masks ORed instead of ANDed.
- `MeshShader`, `MeshTaskIds` and `NggGsXfb`: see their sections.
- `SpirvEntry`: `takeAnnotations` without `takeMemberDecorates`.

## Not modelled, and why

- **The five floating-point cullers** (backface, frustum, box filter, sphere
  and small-primitive filter) are not evaluated. Their verdict is a free
  choice, so every outcome is explored.
- **`splitEs`** rewrites IR at compile time and has no run-time state.
- **`cullData` in `buildPrimShader`.** The code declares `cullData`, then
  shadows it inside the fetch block (`NggPrimShader.cpp:1409` vs `:1495`). With
  cull-distance culling enabled, the outer null value is used. This happens
  while the IR is built, so no state machine of the generated program sees it.
- **The task shader's ring protocol** (`processTaskShader`,
  `emitTaskMeshs`). The task shader writes the payload and draw-data rings
  that the command processor reads. That consumer, and the ring allocation
  (`baseRingEntryIndex`), are not part of this repository, so there is no
  protocol to check on this side. What this code computes for the rings
  (entry, offset, ready bit) is `MeshTaskIds`. Task payload reads and writes,
  and the atomics on them, are plain memory accesses.
- **Mesh outputs and attribute exports** (`exportPrimitive`, `exportVertex`,
  the LDS region sizes of `layoutMeshShaderLds`) move data without
  interleaving. `MeshShader` keeps only which indices each wave exports.
- **Export done bits** and **attribute exports through memory** are not
  modelled. The rule the hardware places on done bits (which export of a
  wave must carry one) is not stated in this repository.
- **The rest of `SPIRVEntry.cpp`** is left out:
  - `SPIRVEntry::create` is an opcode-to-factory table.
  - The read-only queries (`hasDecorate`, `getDecorate`, `getLinkageType`,
    ...) change no state.
  - The decoders of `OpMemoryModel`, `OpSource`, `OpExtension`,
    `OpCapability`, `OpExtInstImport`, `OpLine` and the like only pass
    their operands to `SPIRVModule` setters. `SPIRVModule` is not in this
    repository.
  - An `OpExecutionMode` whose mode carries literals the switch does not
    list (for example `LocalSizeHint`) has none of its literals read. What
    the stream does with the unread words is decided by `SPIRVDecoder`,
    which is not here either.

## Plan for further modules

1. SW XFB combined with `NggPassthrough` and `NggCulling`. This includes the
   `XfbOutput` / `DistributedPrimitiveId` alias and processing XFB before
   culling.
2. An abstract subgroup specification (kept vertices and primitives out, in
   order) that `NggCulling`, `NggPassthrough` and `NggGs` refine through
   `INSTANCE ... WITH`.
3. The GS-VS ring offsets (`calcVertexItemOffset`).
4. `MeshShader`: the primitive connectivity the API writes with
   `SetPrimitiveIndices`/`SetPrimitiveCulled` over the zero-initialised
   region, and row export on GFX11 (`rowInSubgroup`).
