SPECIFICATION FairSpec
CONSTANTS
  Packets = 4
  AudioPackets = 1
  MinFrames = 0
  MaxQueue = 0
  Slots = 4
  Flush = flush
  Data = data
  Empty = empty
  MaxCalls = 2
INVARIANTS
  TypeOK
  SlotsApart
  FreedAfterThreads
PROPERTIES
  ShownInOrder
  FilmEnds
  DecoderStops
CHECK_DEADLOCK FALSE
