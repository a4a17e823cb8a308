\* Vertex compaction, a VS that reads gl_PrimitiveID (so primitive IDs are
\* distributed through LDS aliased with the positions), first-vertex
\* convention, no workaround.
CONSTANTS
  WaveSize = 3
  WaveCount = 2
  CompactVertex = TRUE
  WaNoEmptySubgroups = FALSE
  HasTes = FALSE
  UsePrimitiveId = TRUE
  ProvokingFirst = TRUE
  SmallSubgroupThreshold = 4
  Subgroups <- MCSubgroups
  NoValue = NoValue
SPECIFICATION Spec
INVARIANTS
  TypeOK
  CullReadsOwnPositions
  ExportsMatchInputs
  ConnectivityPreserved
  ExportsExactlyKept
