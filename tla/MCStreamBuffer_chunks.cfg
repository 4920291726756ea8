CONSTANTS
  KeyIds = {1, 2, 3, 4, 5}
  Units <- Lengths
  Chunk = 3
SPECIFICATION StreamSpec
INVARIANTS
  NothingLost
PROPERTY
  IsChunkedStream
CHECK_DEADLOCK FALSE
