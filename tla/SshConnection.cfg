SPECIFICATION Spec
CONSTANTS
  AuthTypes = {"Password", "PublicKey", "KeyboardInteractive", "TryAll", "Agent"}
  MaxKeys = 2
  MaxAgentSlots = 2
INVARIANTS
  TypeOK
  AuthOnlyAfterKeys
  AssertionsHold
  WatchdogArmed
  QuietWhenUnconnected
  OutcomeReported
PROPERTIES
  ImplementsLifecycle
  AttemptResolves
  DeadPeerDetected
