\* A VS reading gl_PrimitiveID, last-vertex convention, GS_ALLOC_REQ sent.
CONSTANTS
  WaveSize = 4
  WaveCount = 3
  ProvokingFirst = FALSE
  UsePrimitiveId = TRUE
  PassthroughNoMsg = FALSE
  Subgroups <- MCSubgroups
  NoValue = NoValue
SPECIFICATION Spec
INVARIANTS
  PrimitiveIdsDistributed
