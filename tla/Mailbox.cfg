\* One start of the machine with a GPU that does as it likes.
SPECIFICATION FairSpec
CONSTANTS
  FIFO = 3
  MAILBOX_MAX_MSG_TO_SKIP = 2
  RETRIES = 2
  Frames <- Functions
  frame <- Own
CHECK_DEADLOCK FALSE
INVARIANTS SuccessServed InStep
PROPERTIES StartUpEnds
