CONSTANTS
  Size <- MCSize
  HeadLen = 3
  BufSize = 6
  Ahead = 3
SPECIFICATION FramingSpec
CHECK_DEADLOCK FALSE
INVARIANT WholeMessages
