SPECIFICATION LoopSpec
CONSTANTS
  Items = 3
  Units = 2
  MaxReads = 5
  MaxWrites = 2
  Eof = eof
  Err = err
  Nothing = nothing
  None = none
  HeadLimit = 2
  Transmissions <- MCTransmissions
  Commands = 3
  Active = {1, 3}
  MaxAnswers = 2
  Handles = {h1, h2}
  Events = {"write", "header", "read"}
  Functions = {f, g}
  MaxSlots = 5
INVARIANTS
  ReadsInOrder
  BackPressure
  ClosedOnce
  BytesInOrder
  EndsOnce
  OneOfEach
  CommandsOnce
  CallsWhatIsSet
PROPERTIES
  ReadsAnswered
  AllDecoded
  AllExecutedByPlaylist
CHECK_DEADLOCK FALSE
