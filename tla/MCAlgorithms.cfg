SPECIFICATION Spec
CONSTANTS
  DigitBits = 3
  NibbleBits = 1
  WordBits = 8
  OctetBits = 2
  WordOctets = 8
  LagA = 2
  LagB = 3
  TableSize = 4
  NumberBits = 2
  Contexts = 2
  BufferSize = 2
  MaxArray = 6
  Keys = 4
  MaxFile = 5
  MaxMessage = 40
  MaxBuffer = 6
  MaxTurns = 7
  MaxLength = 2
  Block = 16
  WordBytes = 2
  ByteBits = 3
  MaxString = 4
  Kinds = {"pair", "division", "table", "array", "memory", "environment", "string", "format",
           "file", "stream", "message", "turns", "calls"}
INVARIANTS
  ArithmeticExact
  SortExact
  SearchExact
  TextExact
  StreamsExact
  PaddingExact
  ContextsExact
  ReplayExact
