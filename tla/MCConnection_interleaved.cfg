SPECIFICATION ConnFairSpec
CONSTANTS
  AppReconnects = TRUE
  ZeroedClient = TRUE
  MaxQueue = 4
INVARIANTS
  ConnTypeOK
  FlagMeansLink
  LinkMeansReady
PROPERTIES
  QuietShutdownIsFinal
  ConnectionNoticed
  LossRetried
