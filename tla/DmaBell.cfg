\* Three channels, every request and key; keys come where they do no harm.
SPECIFICATION FairSpec
CONSTANTS
  DMA_SCBS = 4
  MAX_PENDING = 2
  Colours = {0, 1}
  Bytes <- Shown
  Windows <- Harmless
  None = None
INVARIANTS TypeOK DrawsAlone
PROPERTIES ImplementsQueue JobsDone RememberedRing
