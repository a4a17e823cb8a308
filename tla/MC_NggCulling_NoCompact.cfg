\* Compactionless mode with the empty-subgroup workaround, no primitive ID
\* distribution (the runtime passthrough path takes its own s_barrier) and
\* the last-vertex convention.
CONSTANTS
  WaveSize = 3
  WaveCount = 2
  CompactVertex = FALSE
  WaNoEmptySubgroups = TRUE
  HasTes = FALSE
  UsePrimitiveId = FALSE
  ProvokingFirst = FALSE
  SmallSubgroupThreshold = 4
  Subgroups <- MCSubgroups
  NoValue = NoValue
SPECIFICATION Spec
INVARIANTS
  AllocCoversExports
