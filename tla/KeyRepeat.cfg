\* Reports of three keys, one of them silent, between the polls of three slots.
SPECIFICATION FairSpec
CONSTANTS
  N_TIMERS = 3
  Keys = {k1, k2, k3}
  Printing = {k1, k2}
  Windows = {"poll"}
  None = none
INVARIANTS RepeatsOnlyHeld OneRepeat Survives
PROPERTIES Heartbeat HeldKeyRepeats
