SPECIFICATION ConnSpec
CONSTANTS
  AppReconnects = FALSE
  ZeroedClient = TRUE
  MaxQueue = 4
PROPERTY
  ShutdownIsFinal
