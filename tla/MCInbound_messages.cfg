SPECIFICATION InboundSpec
CONSTANTS
  PoolSize = 32
  Txns <- MCTxns
  DeviceTexts <- MCDeviceTexts
  ServerText <- MCServerText
  Limits <- MCLimits
  Rooms <- MCRooms
  AnswersTo <- MCAnswersTo
  Commands <- MCCommands
  Updates <- MCUpdates
  MaxOps = 2
  MaxMessages = 2
INVARIANTS
  InboundTypeOK
  CompleteAnswerFills
  LastFieldMeansAll
  NoStaleDeployment
  LimitedListsArrive
  EventKnowsItsFields
  UpdateArrives
  AckEchoes
  DeviceIdKept
CHECK_DEADLOCK FALSE
