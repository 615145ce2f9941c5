CONSTANTS
  a = a
  b = b
  d = d
  NoWindow = NoWindow
  Windows <- MCWindows
  Flags <- MCFlags
  FirstFrames <- MCFirstFrames
  ScreenW = 3
  ScreenH = 4
  TitlebarH = 2
  MinW = 2
  MinH = 3
SPECIFICATION Spec
SYMMETRY Symmetry
INVARIANT TitlebarStaysOnScreen
PROPERTIES ModalShieldsOthers FramesFollowDrags
CHECK_DEADLOCK FALSE
