CONSTANTS
  Buffers = {dma1, dma2, shm}
  Synchronous = {shm}
  Explicit = {dma1}
  Frames = {f1, f2}
  None = None
  Null = Null
  NoFlip = NoFlip
  Reattached = {dma1}
  Careless = FALSE
  MaxQueue = 1
SPECIFICATION FairSpec
INVARIANTS NoEarlyRelease ReleasedWhenUnlocked
PROPERTIES Returned
