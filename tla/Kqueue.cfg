\* Recycled descriptors, failures, and a timer with two phases
CONSTANTS
  Watchers = {w1, w2}
  NoCallback = {w2}
  Timers = {t1}
  TwoPhase = {t1}
  Fds = {f1, f2}
  NoEntry = NoEntry
  Nobody = Nobody
  Masks = {{"WRITE"}, {"WRITE", "HANGUP"}, {"READ", "WRITE", "EDGE"}}
  Flags = {"EOF"}
  MaxEvents = 2
  Faults = {"alloc", "first", "grow", "list", "timer"}
  ChangeMask = FALSE
  SameBatch = FALSE
SPECIFICATION FairSpec
INVARIANTS KqueueTypeOK ActiveIsMember NoDanglingEntry StartedIsPending
PROPERTIES ImplementsContract InitialPhaseEnds
