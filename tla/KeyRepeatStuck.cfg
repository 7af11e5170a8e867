\* The interrupt may come while timer_poll calls a handler.
SPECIFICATION Spec
CONSTANTS
  N_TIMERS = 3
  Keys = {k1, k2, k3}
  Printing = {k1, k2}
  Windows = {"poll", "call"}
  None = none
INVARIANTS RepeatsOnlyHeld
