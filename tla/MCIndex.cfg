SPECIFICATION Spec
CONSTANTS
  Code <- MCCode
  SmallOf <- MCSmallOf
  GoodKeys <- MCGoodKeys
  ValueMax = 4
  SortTable <- MCFoldTable
  SearchTable <- MCFoldTable
  WordTable <- MCFoldTable
  Parting <- MCParting
  Ids <- MCIds
  Absent = Absent
  IdText <- MCIdText
  BodyKey = "body"
  LongKeys = {}
  KeysMax = 3
  KeyRank <- MCKeyRank
  Edits <- MCEdits
  FormFields <- MCFormFields
  ShownDay <- MCShownDay
  Entries <- MCEntries
  Yes <- MCYes
  No <- MCNo
  Batch = 2
  IdRank <- MCIdRank
  TextsFor <- MCTextsFor
  EventsMax = 2
  Queries <- MCQueries
  Samples <- MCSamples
INVARIANTS
  HoldsWhatItLearned
  BothWaysAgree
  RoundTripIsStable
PROPERTIES
  RebuildFollowsFiles
  ScriptsKeepOtherFields
  FormsKeepOtherFields
