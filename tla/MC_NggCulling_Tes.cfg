\* Vertex compaction with a TES that reads gl_TessCoord: the system values
\* re-materialized for a compacted vertex.
CONSTANTS
  WaveSize = 3
  WaveCount = 2
  CompactVertex = TRUE
  WaNoEmptySubgroups = FALSE
  HasTes = TRUE
  UsePrimitiveId = FALSE
  ProvokingFirst = TRUE
  SmallSubgroupThreshold = 4
  Subgroups <- MCSubgroups
  NoValue = NoValue
SPECIFICATION Spec
INVARIANT
  ExportsMatchInputs
