SPECIFICATION Spec
CONSTANTS
  Lo = 0
  Hi = 6
  Byte = {0, 1, 2}
  Nul = 0
  ScanChunk = 3
  NameMax = 4
  NameChunk = 3
  Layout <- MCLayout
  Page = 2
  HeapSize = 40
  Program <- MCProgram
  Probe <- MCProbe
  Grant <- MCGrant
  Image <- MCImage
  Word = 2
  HeaderSize = 3
  TablesAt = 7
  ImageSize = 10
  ReadAsked <- MCReadAsked
  ReadChunk = 6
  MaxAsks = 2
  MaxCalls = 2
  None = None
INVARIANT FindsFirst StringIsWhole EndsAsItWent AskedTwiceAnswersTheSame BytesAreWhereAsked
PROPERTY ReadsEnd
CHECK_DEADLOCK FALSE
