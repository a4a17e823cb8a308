CONSTANTS
  WaveSize = 3
  WaveCount = 2
  ProvokingFirst = TRUE
  NoValue = NoValue
  XfbBuffers = {0, 1, 2}
  Subgroups <- MCSubgroups
  Draw <- MCDraw
  StrideDw <- MCStrideDw
  BufSizeDw <- MCBufSizeDw
  BufOffsetDw <- MCBufOffsetDw
SPECIFICATION FairSpec
INVARIANTS
  XfbWritesDisjoint
  XfbStreamPrefix
PROPERTY XfbRefinesReservation
