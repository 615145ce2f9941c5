SPECIFICATION Spec
CONSTANTS
  CharWidth = 2
  Items <- MCItems
  Texts <- MCTexts
  FieldMax = 2
  Sizes <- MCSizes
  BarLen = 10
  Arrow = 2
  SampleItems <- MCSampleItems
  SampleModels <- MCSampleModels
  SampleTexts <- MCSampleTexts
  SampleLists <- MCSampleLists
INVARIANTS FocusIsInOnePlace AreaShowsText WidgetsFit
PROPERTIES TabGoesRound CaretIsShown
