\* Eight slots, a FIFO of two that interrupts when full.  The interrupt may come at
\* every point at which it does no harm; section 3 of the README lists the others.
SPECIFICATION FairSpec
CONSTANTS
  UART_BUFFER_SIZE = 8
  RTS_OFF_LIMIT = 4
  RTS_ON_LIMIT = 2
  FifoSize = 2
  Trigger = 2
  Numbers = 3
  Windows = {"top", "take", "count", "rts", "resume", "low", "wrap_start", "show",
             "poll", "drop", "recount", "halt"}
  None = none
INVARIANTS TypeOK
PROPERTIES ImplementsChannel HostResumed BytesShown
