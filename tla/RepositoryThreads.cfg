\* Two threads submit to a queue of two, while the GUI thread starts, shuts
\* down and starts again.  The bounds end the calls, hence no deadlock check.
SPECIFICATION FairSpec
CONSTANTS
  gui = gui
  other = other
  Gui = gui
  Threads = {gui, other}
  Kinds = {"query"}
  QueueCapacity = 2
  MaxRequests = 3
  MaxStarts = 2
INVARIANTS TypeOK NothingLost WakeupOnTheWay
PROPERTIES AcceptedRuns ShutdownReturns
CHECK_DEADLOCK FALSE
