CONSTANTS
  Kinds <- ShmOnly
  Uses <- FramesAndFifo
  MaxCommits = 3
SPECIFICATION FairSpec
PROPERTIES Progress FrameAnswered FifoPaced
