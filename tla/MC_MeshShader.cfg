\* Three waves of two lanes: two run the three API mesh threads, one is an
\* extra wave.  The API shader has either a barrier in a loop taken up to
\* three times (completion flag) or two straight-line barriers (none).
CONSTANTS
  WaveSize = 2
  NumMeshThreads = 3
  PrimAmpFactor = 5
  OutputVertices = 5
  OutputPrimitives = 4
  RowExport = FALSE
  NeedSwMeshPipelineStats = TRUE
  ApiShaders <- MCApiShaders
  MaxLoopTrips = 3
  MeshOutputs <- MCOutputs
SPECIFICATION FairSpec
INVARIANTS
  TypeOK
  BarriersMatch
  ExportsMatchAllocation
PROPERTY
  AllWavesExit
