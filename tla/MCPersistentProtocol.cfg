CONSTANTS
  Client = Client
  Server = Server
  Size <- Length
  MaxSent <- Uneven
  HighWater = 1
  LowWater = 0
  MaxBuffer = 2
  Attempts = 2
  MaxReconnects = 2
  Aged = {Server}
SPECIFICATION FairSpec
INVARIANTS NothingForgotten FlowSignalTrue
PROPERTIES ImplementsChannel EverySentIsAcked
CHECK_DEADLOCK FALSE
