SPECIFICATION FairSpec
CONSTANTS
  Senders = {}
  LwipSenders = {}
  Netif = "netif"
  Parser = "parser"
  AtType = "at"
  NetTypes = {"sta"}
  OtherTypes = {}
  TxqLen = 1
  RxqLen <- MCShallow
  MaxCalls = 2
  MaxUp = 3
  MaxStalls = 0
  MaxFaults = 0
  NoOne = "none"
PROPERTIES
  ImplementsBusChannel
  EverythingIsTaken
  EverythingIsRead
CHECK_DEADLOCK FALSE
