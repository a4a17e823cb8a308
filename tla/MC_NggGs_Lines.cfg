\* API GS with line strips, no culling, vertex compactionless mode.
CONSTANTS
  WaveSize = 4
  WaveCount = 3
  ProvokingFirst = TRUE
  CompactVertex = FALSE
  CullingMode = FALSE
  MaxVerts = 5
  VertsPerPrim = 2
  Subgroups <- MCSubgroupsLine
  NoValue = NoValue
SPECIFICATION Spec
INVARIANTS
  PrimitivesAsEmitted
