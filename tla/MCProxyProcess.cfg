SPECIFICATION Spec
CONSTANTS
  MinBackoff = 10
  MaxBackoff = 1000
  MaxSignals = 3
  MaxErrors = 9
  MaxPeers = 2
  MaxMessages = 1
INVARIANTS TypeOK BackoffFitsFailures
PROPERTIES PeerAccepted ShutdownCompletes
CHECK_DEADLOCK FALSE
