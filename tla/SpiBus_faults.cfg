SPECIFICATION Spec
CONSTANTS
  Senders = {"app"}
  LwipSenders = {"app"}
  Netif = "netif"
  Parser = "parser"
  AtType = "at"
  NetTypes = {"sta"}
  OtherTypes = {"hci"}
  TxqLen = 1
  RxqLen <- MCDeep
  MaxCalls = 2
  MaxUp = 2
  MaxStalls = 1
  MaxFaults = 1
  NoOne = "none"
INVARIANTS
  ExchangeWhenReady
  NoLostWakeup
  RepeatsNeedFaults
  ReadOnceInOrder
  NoForgottenPacket
