\* Two other threads in any interleaving, the eventfd counter at its limit
CONSTANTS
  Callers = {t1, t2}
  LoopThread = loop
  Sources = {s1, s2}
  Async = async
  Data = {d1}
  NoData = null
  SignalMax = 2
  MaxEvents = 2
  CallerOps = {"stop", "send", "add"}
  LoopOps = {"stop", "send", "add", "remove"}
SPECIFICATION FairSpec
INVARIANTS TypeOK NoMissedStop NoLostNotify
PROPERTIES StopEndsRun AsyncNoticed RunEndsWhenEmpty
