\* API GS with triangle strips, culling and vertex compaction.
CONSTANTS
  WaveSize = 4
  WaveCount = 3
  ProvokingFirst = TRUE
  CompactVertex = TRUE
  CullingMode = TRUE
  MaxVerts = 5
  VertsPerPrim = 3
  Subgroups <- MCSubgroupsStrip
  NoValue = NoValue
SPECIFICATION Spec
INVARIANTS
  PrimitivesAsEmitted
  AllocMatchesExportsGs
  GsReadsEsOutputs
