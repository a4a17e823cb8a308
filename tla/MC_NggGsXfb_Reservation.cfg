\* SW XFB with an API GS: subgroups A and B, two streams feeding three buffers.
CONSTANTS
  WaveSize = 4
  WaveCount = 3
  ProvokingFirst = TRUE
  Subgroups <- MCSubgroups
  NoValue = NoValue
  Draw <- MCDrawAB
  Streams = {0, 1, 2, 3}
  StreamXfbBuffers <- MCStreamXfbBuffers
  RasterStream = 0
  XfbBuffers = {0, 1, 2}
  StrideDw <- MCStrideDw
  BufSizeDw <- MCBufSizeDwAB
  BufOffsetDw <- MCBufOffsetDw
  MaxVerts = 5
  VertsPerPrim = 3
  CullingMode = TRUE
SPECIFICATION FairSpec
INVARIANT
  GsXfbStreamPrefix
  VertexIndexMapCompacts
PROPERTY
  GsXfbRefinesReservation
