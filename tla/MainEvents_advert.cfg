SPECIFICATION FairSpec
CONSTANTS
  MaxEvents = 5
  MaxFaults = 0
PROPERTIES
  AdvertisingRestarts
