CONSTANTS
  Kinds <- BothKinds
  Uses <- Pacing
  MaxCommits = 3
SPECIFICATION Spec
INVARIANTS QueueOrdered LocksHaveKeys NothingForgotten
PROPERTIES StreamSpec
