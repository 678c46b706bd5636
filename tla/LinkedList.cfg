SPECIFICATION FairSpec
CONSTANTS
  Addr = {a1, a2, a3}
  Lists = {delay_queue, runningQueue, children}
  Data = {p1, p2, p3}
  DelayQ = delay_queue
  RunQ = runningQueue
  None = None
INVARIANT WellLinked
PROPERTY FifosSpec
PROPERTY WalkTerminates
