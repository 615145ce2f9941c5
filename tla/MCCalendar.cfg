CONSTANTS
  a = a
  b = b
  NoId = NoId
  Absent = Absent
  Ids <- MCIds
  Days <- MCDays
  Today <- MCToday
  DayNumbers <- MCDayNumbers
  Paging <- MCPaging
  WeekStart = 6
  FirstMonth <- MCFirstMonth
  LastMonth <- MCLastMonth
SPECIFICATION Spec
SYMMETRY Symmetry
INVARIANTS DatesAreCounted SavedDayIsTurnedTo EveryDayHasItsCell
PROPERTIES MarksFollowRecords DeletionStaysOnItsDay
CHECK_DEADLOCK FALSE
