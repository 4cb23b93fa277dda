SPECIFICATION FairExSpec
CONSTANTS
  RequestLines = {"post", "get"}
  ApiLines = {"post"}
  Extension <- MCExtension
  Inputs <- MCInputs
  ReadSize = 8
  Room = 2
  MaxFile = 2
CHECK_DEADLOCK FALSE
INVARIANTS
  ExTypeOK
  AnsweredByFirstLine
  EverythingReleased
  FileAsItWas
  OnePieceIsSafe
PROPERTY
  HandlerReturns
