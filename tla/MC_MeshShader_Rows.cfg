\* Row export: two waves of two lanes for three API threads loop over ten
\* vertices and nine primitives (three rows per wave); the API barrier in a
\* loop needs no flag since there are no extra waves.
CONSTANTS
  WaveSize = 2
  NumMeshThreads = 3
  PrimAmpFactor = 5
  OutputVertices = 10
  OutputPrimitives = 9
  RowExport = TRUE
  NeedSwMeshPipelineStats = TRUE
  ApiShaders <- MCRowApiShaders
  MaxLoopTrips = 2
  MeshOutputs <- MCRowOutputs
SPECIFICATION Spec
INVARIANTS
  ExportsMatchAllocation
