CONSTANTS
  Radix <- MCRadix
  MaxSize = 2
  FirstBytes <- MCFirstBytes
  BadTypes <- MCBadTypes
  BodyByte = 1
  MaxBody = 3
  NumFrames = 2
  MaxChunk = 3
SPECIFICATION Spec
INVARIANT TypeOK
INVARIANT FramesInOrder
PROPERTY AllFramesDecoded
CHECK_DEADLOCK FALSE
