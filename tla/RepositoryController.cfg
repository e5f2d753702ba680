\* As main.cpp uses it: the repository is started once, only the controller,
\* on the GUI thread, submits.  The bounds end the calls.
SPECIFICATION StoreSpec
CONSTANTS
  gui = gui
  d1 = d1
  d2 = d2
  Gui = gui
  Threads = {gui}
  Kinds = {"batch", "query"}
  Devices = {d1, d2}
  Batches <- MCBatches
  BatchSize = 2
  QueueCapacity = 1
  MaxRequests = 3
  MaxStarts = 1
INVARIANTS BatchesAccounted BatchesStored AnswersComplete
PROPERTIES PendingSettles
CHECK_DEADLOCK FALSE
