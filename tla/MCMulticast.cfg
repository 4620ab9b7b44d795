\* One connection, to which the fan-out and two timers send at the same time;
\* a queue of one frame, so that three can fill it behind a stalled writer.
SPECIFICATION Spec
CONSTANTS
  Clients = {c1}
  NoClient = NoClient
  Fan = Fan
  Flushers = {f1, f2}
  QueueDepth = 1
  MaxFrames = 3
INVARIANTS TypeOK PublishedReady NoZombie
PROPERTIES DropOnlyFailed StreamRefinement FanoutCompletes DroppedClientTornDown PromptDelivery
CHECK_DEADLOCK FALSE
