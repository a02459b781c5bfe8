\* A stop between the two stores pd_loop_run begins with
CONSTANTS
  Callers = {t1}
  LoopThread = loop
  Sources = {s1}
  Async = async
  Data = {d1}
  NoData = null
  SignalMax = 1
  MaxEvents = 1
  CallerOps = {"stop", "send", "add"}
  LoopOps = {"stop", "send", "add", "remove"}
SPECIFICATION FairSpec
PROPERTY StopOfRunningLoop
