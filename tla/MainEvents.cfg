SPECIFICATION FairSpec
CONSTANTS
  MaxEvents = 5
  MaxFaults = 1
INVARIANTS
  SuccessIsFresh
  StationAgrees
  ConnectedIsServed
  ScanGroupLive
PROPERTIES
  ComesToRest
  ConnectAnswered
  AdvertisingReturns
  ButtonServed
