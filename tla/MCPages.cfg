SPECIFICATION Spec
CONSTANTS
  DigitValue <- MCDigitValue
  DefaultPort = 5
  PortMax = 12
  HostMax = 4
  PathMax = 9
  LinesMax = 7
  LinksMax = 2
  WidthMin = 2
  Indent <- MCIndent
  Start <- MCStart
  Replies <- MCReplies
  Gives <- MCGives
  HeadLen = 1
  MetaMax = 3
  PageMax = 4
  Paths <- MCPaths
  Texts <- MCTexts
  Lines <- MCLines
  Frames <- MCFrames
  Typed <- MCTyped
  AddressMax = 1
  HistoryMax = 2
INVARIANTS SamplesAreRight BackLeadsToOrigin EveryEntryOpens ViewShowsText
PROPERTIES FetchEnds
