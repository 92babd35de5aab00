SPECIFICATION Spec
CONSTANTS
  Base = 2
  PrefixSize = 2
  MaxFrameLen = 2
  MaxStream = 7
  Unparsable <- MCUnparsable
INVARIANTS PostsEncoded ClosesOnCorrupt BufferBounded
CHECK_DEADLOCK FALSE
