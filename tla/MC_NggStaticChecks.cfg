\* The LDS layout over every pipeline state of the bounded domain, and the
\* cull-distance culler over three planes and three distance patterns, and
\* the mesh/task IDs for dispatch sizes up to 3 x 3 x 3 with every base
\* index of a 4-bit ring index and ring sizes up to 2^3.
CONSTANTS
  MaxThreads = 256
  MaxWaves = 8
  MaxGsStreams = 4
  MaxXfbBuffers = 4
  Configs <- MCConfigs
  CullDistanceCount = 3
  FloatBits <- MCFloatBits
  DispatchDims <- MCDims
  WorkgroupSizes <- MCWorkgroupSizes
  IndexBits = 4
  DrawDataRingNumRecords = {16, 32, 64, 128}
  DrawDataRingEntrySize = 16
SPECIFICATION Spec
INVARIANTS
  RegionsDisjoint
  LayoutWithinAllocation
  CullDistanceMatchesRule
  MeshIdsRoundTrip
  RingEntryLapParity
CHECK_DEADLOCK FALSE
