-------------------------------- MODULE Calendar --------------------------------
(***************************************************************************)
(* The browser of app/browser.c with the month grid of app/monthview.c as  *)
(* its overview: the shown month and the selected day, the marks under the *)
(* days that have a record, and the one way to a record, which is its day. *)
(* The dialog that asks for another month belongs to app/shell.c.          *)
(*                                                                         *)
(* A record is its date here.  What a date field takes is any day from 1   *)
(* to 31 of any month (date_parse in app/fieldkind.c); whether there is    *)
(* such a day, only date_from_iso asks.  What happens when a form finds no *)
(* memory is in module Browser.                                            *)
(***************************************************************************)
EXTENDS DayCount, FiniteSets, SequencesExt

CONSTANTS
  Ids,        \* identifiers of records
  NoId,       \* no record
  Absent,     \* no file under an identifier, or no form
  Days,       \* the dates records have
  Today,      \* the date the program starts on
  WeekStart,  \* the weekday of the first column, 0 for Monday (week.start)
  DayNumbers, Paging,    \* samples: numbers of days, and of months to page by
  FirstMonth, LastMonth  \* bounds of the model: the months that are turned to

MonthOf(d) == d.year * 12 + (d.month - 1)

\* What date_parse lets pass.
EnteredDates == [year : Nat, month : 1 .. 12, day : 1 .. 31]

ASSUME CalendarAssumption ==
  /\ NoId \notin Ids /\ IsFiniteSet(Ids)
  /\ Days \subseteq EnteredDates /\ Absent \notin Days
  /\ DayNumbers \subseteq Int /\ Paging \subseteq Int
  /\ Today \in EnteredDates /\ Valid(Today) /\ WeekStart \in 0 .. 6
  /\ FirstMonth \in Nat /\ LastMonth \in Nat
  /\ \A d \in Days \union {Today} : MonthOf(d) \in FirstMonth .. LastMonth

VARIABLES
  disk,    \* identifier -> the date of the record in the vault
  known,   \* every identifier ever used
  loaded,  \* the records that were read, in the order of the listing: id and date
  shown,   \* the first day of the shown month
  day,     \* the selected day of that month
  marked,  \* the days that carry a mark
  form,    \* the date in the open form, Absent for no form
  editing, \* the record the form belongs to, NoId for a new one
  stale,   \* history: has the vault changed since the last reload?
  last     \* history: the last operation and the record it was about

vars == <<disk, known, loaded, shown, day, marked, form, editing, stale, last>>
grid == <<shown, day, marked>>

TypeOK ==
  /\ disk \in [Ids -> Days \union {Absent}]
  /\ known \subseteq Ids
  /\ loaded \in Seq([id : Ids, date : Days])
  /\ Valid(shown) /\ shown.day = 1
  /\ day \in 1 .. DaysInMonth(shown.year, shown.month)
  /\ marked \subseteq 1 .. 31
  /\ form \in Days \union {Absent}
  /\ editing \in Ids \union {NoId}
  /\ stale \in BOOLEAN
  /\ last \in [op : {"none", "save", "delete", "jump"}, id : Ids \union {NoId}]

FirstOf(d) == [d EXCEPT !.day = 1]

\* The browser of a window that was just opened, before its first reload.
Init ==
  /\ disk \in [Ids -> Days \union {Absent}]
  /\ known = {id \in Ids : disk[id] # Absent}
  /\ loaded = <<>>
  /\ shown = FirstOf(Today) /\ day = Today.day /\ marked = {}
  /\ form = Absent /\ editing = NoId
  /\ stale = TRUE
  /\ last = [op |-> "none", id |-> NoId]

Did(op, id) == last' = [op |-> op, id |-> id]

--------------------------------------------------------------------------------
(* The grid.                                                               *)

Selected == [shown EXCEPT !.day = day]

\* refresh_marks with monthview_mark: days of other months are passed over,
\* and a date that does not exist belongs to no day (has_day).
MarksOf(l, month) ==
  {l[i].date.day : i \in {j \in DOMAIN l : Valid(l[j].date) /\ FirstOf(l[j].date) = month}}

\* clamp_selection.
Clamped(n, month) ==
  LET len == DaysInMonth(month.year, month.month)
  IN  IF n < 1 THEN 1 ELSE IF n > len THEN len ELSE n

\* Mutant: the marks of the month that was left stay.
TurnKeepingMarks(d) == shown' = FirstOf(d) /\ day' = d.day /\ UNCHANGED marked

\* monthview_select of a date that exists: the marks go with the month.
Turn(d) ==
  /\ shown' = FirstOf(d)
  /\ day' = Clamped(d.day, FirstOf(d))
  /\ marked' = IF shown' = shown THEN marked ELSE {}

\* What browser_event does around the grid's own handling: an event the grid
\* used puts the marks back.
Handled ==
  /\ marked' = MarksOf(loaded, shown')
  /\ Did("none", NoId)
  /\ UNCHANGED <<disk, known, loaded, form, editing, stale>>

Columns == 0 .. 6
Rows == 0 .. 5

\* Mutant: a month that begins before the first column's weekday.
OffsetUnwrapped == Weekday(shown) - WeekStart

\* first_offset: the cell of the first day.
Offset ==
  LET off == Weekday(shown) - WeekStart IN IF off < 0 THEN off + 7 ELSE off

\* day_at_cell with the first day's cell off, 0 for an empty cell.
DayAtCell(off, col, row) ==
  LET n == row * 7 + col - off
  IN  IF n \in 0 .. DaysInMonth(shown.year, shown.month) - 1 THEN n + 1 ELSE 0

\* A click on the cell of day n (hit_cell); one on an empty cell, 0, changes
\* neither month nor day.
Click(n) ==
  /\ form = Absent
  /\ n \in 0 .. DaysInMonth(shown.year, shown.month)
  /\ day' = IF n = 0 THEN day ELSE n
  /\ UNCHANGED shown
  /\ Handled

\* The arrow keys, Home and End: they stop at the ends of the month.
Step(n) ==
  /\ form = Absent
  /\ day' = Clamped(day + n, shown)
  /\ UNCHANGED shown
  /\ Handled

\* monthview_show_month: the arrows in the head, the wheel and the page keys.
Page(n) ==
  LET next == AddMonths(Selected, n) IN
  /\ form = Absent
  /\ MonthOf(next) \in FirstMonth .. LastMonth
  /\ shown' = FirstOf(next) /\ day' = next.day
  /\ Handled

\* finish_ask with ASK_MONTH_JUMP: the answer to the question for a month.
Jump(m) ==
  /\ form = Absent
  /\ Turn(DateOf(m \div 12, (m % 12) + 1, 1))
  /\ Did("jump", NoId)
  /\ UNCHANGED <<disk, known, loaded, form, editing, stale>>

--------------------------------------------------------------------------------
(* The records.                                                            *)

\* browser_reload with the dates as the sort field: equal dates in any order.
ListingsOf(d, seen) ==
  {s \in SetToSeqs({[id |-> i, date |-> d[i]] : i \in seen}) :
     \A i, j \in DOMAIN s :
       i < j => \/ MonthOf(s[i].date) < MonthOf(s[j].date)
                \/ /\ MonthOf(s[i].date) = MonthOf(s[j].date)
                   /\ s[i].date.day <= s[j].date.day}

\* Of the records there are, some may be missing, and nobody is told: all of them
\* if vault_list cannot read the directory, and each that vault_load cannot read.
Listings(d) == UNION {ListingsOf(d, seen) : seen \in SUBSET {i \in Ids : d[i] # Absent}}

\* browser_reload, with the same month and day.
Reload(d) ==
  /\ loaded' \in Listings(d)
  /\ marked' = MarksOf(loaded', shown)
  /\ stale' = FALSE
  /\ UNCHANGED <<shown, day>>

\* Without memory vault_list fails before anything has changed.
ReloadFails == UNCHANGED <<loaded, grid>> /\ stale' = TRUE

\* Mutant: the month is not looked at.
SelectedIndexByDay ==
  IF \E i \in DOMAIN loaded : loaded[i].date.day = day
  THEN CHOOSE i \in DOMAIN loaded :
         /\ loaded[i].date.day = day
         /\ \A j \in 1 .. i - 1 : loaded[j].date.day # day
  ELSE 0

\* browser_selected: the first record of the selected day, 0 for none.
SelectedIndex ==
  IF \E i \in DOMAIN loaded : loaded[i].date = Selected
  THEN CHOOSE i \in DOMAIN loaded :
         /\ loaded[i].date = Selected
         /\ \A j \in 1 .. i - 1 : loaded[j].date # Selected
  ELSE 0
SelectedId == IF SelectedIndex = 0 THEN NoId ELSE loaded[SelectedIndex].id

Refresh ==
  /\ Reload(disk) \/ ReloadFails
  /\ Did("none", NoId)
  /\ UNCHANGED <<disk, known, form, editing>>

\* browser_open_selected, by a double click, Return or the menu.
OpenSelected ==
  /\ SelectedId # NoId
  /\ disk[SelectedId] # Absent
  /\ form' = disk[SelectedId]
  /\ editing' = SelectedId
  /\ Did("none", NoId)
  /\ UNCHANGED <<disk, known, loaded, grid, stale>>

\* browser_new proposes the selected day (bound of the model: one of Days).
New ==
  /\ Selected \in Days
  /\ form' = Selected
  /\ editing' = NoId
  /\ Did("none", NoId)
  /\ UNCHANGED <<disk, known, loaded, grid, stale>>

Type(d) ==
  /\ form # Absent /\ d # form
  /\ form' = d
  /\ Did("none", NoId)
  /\ UNCHANGED <<disk, known, loaded, grid, editing, stale>>

Cancel ==
  /\ form' = Absent /\ editing' = NoId
  /\ Did("none", NoId)
  /\ UNCHANGED <<disk, known, loaded, grid, stale>>

\* Mutant: the grid stays on the month it shows.
TurnToNothing(id) == marked' = MarksOf(loaded', shown) /\ UNCHANGED <<shown, day>>

\* browser_select after the reload: the day of the saved record is turned to, if
\* the record is in the list again.
TurnTo(id) ==
  LET d == disk'[id] IN
  /\ IF (\E i \in DOMAIN loaded' : loaded'[i].id = id) /\ Valid(d)
     THEN shown' = FirstOf(d) /\ day' = d.day
     ELSE UNCHANGED <<shown, day>>
  /\ marked' = MarksOf(loaded', shown')

SaveAs(id) ==
  /\ disk' = [disk EXCEPT ![id] = form]
  /\ known' = known \union {id}
  /\ form' = Absent /\ editing' = NoId
  /\ \/ loaded' \in Listings(disk') /\ stale' = FALSE /\ TurnTo(id)
     \/ ReloadFails
  /\ Did("save", id)

\* browser_save.
Save ==
  /\ form # Absent
  /\ \E id \in Ids : /\ IF editing = NoId THEN id \notin known ELSE id = editing
                     /\ SaveAs(id)

\* browser_delete_selected.  The day stays.
DeleteSelected ==
  /\ SelectedId # NoId
  /\ disk' = [disk EXCEPT ![SelectedId] = Absent]
  /\ Reload(disk') \/ ReloadFails
  /\ Did("delete", SelectedId)
  /\ UNCHANGED <<known, form, editing>>

\* A script or another program changes the collection.
Outside(id, d) ==
  /\ disk[id] # d
  /\ disk' = [disk EXCEPT ![id] = d]
  /\ known' = known \union {id}
  /\ stale' = TRUE
  /\ Did("none", NoId)
  /\ UNCHANGED <<loaded, grid, form, editing>>

Next ==
  \/ \E n \in 0 .. 31 : Click(n)
  \/ \E n \in {-30, -7, -1, 1, 7, 30} : Step(n)
  \/ \E n \in {-2, -1, 1, 2} : Page(n)
  \/ \E m \in FirstMonth .. LastMonth : Jump(m)
  \/ Refresh \/ OpenSelected \/ New \/ Cancel \/ Save \/ DeleteSelected
  \/ \E d \in Days : Type(d)
  \/ \E id \in Ids, d \in Days \union {Absent} : Outside(id, d)

Spec == Init /\ [][Next]_vars

--------------------------------------------------------------------------------
(* Properties.                                                             *)

AtStart == known = {} /\ stale /\ form = Absent /\ Selected = Today

\* The arithmetic of days agrees with a calendar that counts them, over leap
\* years, centuries, eras and the year 0 (to_days, from_days, date_weekday), and
\* paging goes from every day to the month it should and never to a day that
\* does not exist (date_add_months); looked at once, for all samples.
DatesAreCounted ==
  AtStart => /\ Weekday(KnownDay) = KnownWeekday
             /\ \A n \in DayNumbers : NextDayFollows(n)
             /\ \A n \in DayNumbers, m \in Paging : PagingReaches(FromDays(n), m)

\* A mark stands under a day only if a record was loaded for it: no path into
\* another month takes the marks along (monthview_show_month, "die alten
\* Markierungen stehen zu lassen hiesse, Tage zu belegen, an denen nichts ist").
\* And once every loaded record has its mark, each step keeps it so, whatever it
\* loads or turns to (browser.c:167-172) - except the jump to a month.
MarksFollowRecords ==
  [][/\ marked' \subseteq MarksOf(loaded', shown')
     /\ marked = MarksOf(loaded, shown) /\ last'.op # "jump" =>
          marked' = MarksOf(loaded', shown')]_vars

\* Every day of the shown month has exactly one cell of the six weeks, in the
\* column under its weekday's name, whatever day the week begins with
\* (monthview.c:4-7: five weeks would lose days "und zwar nur in manchen").
EveryDayHasItsCell ==
  LET off == Offset
      at  == [c \in Columns \X Rows |-> DayAtCell(off, c[1], c[2])]
  IN  /\ \A n \in 1 .. DaysInMonth(shown.year, shown.month) :
            Cardinality({c \in DOMAIN at : at[c] = n}) = 1
      /\ \A c \in DOMAIN at : at[c] # 0 =>
            (WeekStart + c[1]) % 7 = Weekday([shown EXCEPT !.day = at[c]])

\* The record just saved is on the day that is turned to, wherever the grid
\* was before, if its date exists and it could be read back.
SavedDayIsTurnedTo ==
  last.op = "save" /\ ~stale /\ (\E i \in DOMAIN loaded : loaded[i].id = last.id)
    => (Valid(disk[last.id]) => Selected = disk[last.id])

\* A deletion hits a record of the selected day and no other, and leaves the
\* month and the day where they are.
DeletionStaysOnItsDay ==
  [][last'.op = "delete" /\ ~stale
       => /\ disk[last'.id] = Selected
          /\ \A id \in Ids : disk'[id] # disk[id] => id = last'.id
          /\ UNCHANGED <<shown, day>>]_vars
================================================================================
