CONSTANTS
  Streams <- MCStreams
  MaxLines = 3
  Permits = 1
SPECIFICATION FairProcSpec
CHECK_DEADLOCK FALSE
INVARIANT TypeOK
INVARIANT LinesWhole
INVARIANT ReplyBeforeNextRead
INVARIANT HandshakeHolds
INVARIANT OneAnswer
INVARIANT ExitTruthful
PROPERTY Answered
PROPERTY SignalEnds
