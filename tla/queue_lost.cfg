SPECIFICATION FairSpec
CONSTANTS
  Producers = {asio}
  Main = main
  NoThread = NoThread
  NoMessage = NoMessage
  MaxSent = 1
PROPERTIES
  EveryMessageHandled
