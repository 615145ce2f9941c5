CONSTANTS
  tasks = tasks
  events = events
  script = script
  r = r
  Dialog = Dialog
  NoWindow = NoWindow
  NoRow = NoRow
  NoAsk = NoAsk
  Separator = Separator
  NoAction = NoAction
  Apps <- MCApps
  KindOf <- MCKindOf
  Rows <- MCRows
  Menus <- MCMenus
  KeyLines <- MCKeyLines
  SampleKeys <- MCSampleKeys
  Lower <- MCLower
  Characters <- MCCharacters
  LongNames = {"much.too.long"}
  AppFrames <- MCFrames
  DialogFrames <- MCFrames
  ScreenW = 2
  ScreenH = 3
  TitlebarH = 1
  MinW = 2
  MinH = 2
  MenubarH = 1
  MaxOpen = 2
SPECIFICATION Spec
INVARIANT DragNeedsButton
CHECK_DEADLOCK FALSE
