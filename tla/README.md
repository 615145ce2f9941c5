# Mirabelle in TLA+

Models, model checks and proofs for Mirabelle, a small desktop of personal
applications (tasks, events, contacts, notes, and pages of the SPARTAN protocol)
in C and Lua. The modules are translated from the code under `src/src` and
`src/data/apps`; paths below are relative to `src/` unless they begin with
`src/`.

`PROJECT.json` lists components, runs, the code lines each definition stands
for, the mutants that show every property has teeth, findings, hazards and
theorems. To repeat: `tlc -workers 2 -config MCVault.cfg MCVault` checks a run,
`tlapm VaultProofs.tla` checks a module of proofs.

## 1. The system

Mirabelle is one process with one thread. `main.c` takes an event from the
platform, hands it to `shell_event`, and draws. Everything an event causes is
done before the next event is looked at, scripts and fetches included. What
interleaves is therefore: the events among each other, what the user's other
programs do to the same directory between them, scripts that change a collection
behind an open browser, a server that answers as it likes, and the failure of a
call or the death of the process between two calls of the system.

| component | state it keeps | operations | talks to |
|---|---|---|---|
| vault (`store/vault.c`) | one file per record, temporary files, the counter for identifiers | open, close, save, load, list, delete | platform files |
| record, front matter, gemtext (`store/`) | a parsed text | parse, read, set, write | vault, browser, Lua |
| query, collation (`store/query.c`, `core/collate.c`) | folding tables, read once | match, compare | browser, Lua, index |
| index (`store/index_sqlite.c`) | three tables of an SQLite database, a transaction | put, remove, rebuild, clear, query | vault, Lua |
| browser (`app/browser.c`, `app/fieldkind.c`) | loaded listing, selection, view, form, record being edited | reload, open, new, save, cancel, delete, filter | vault, list or month grid, form |
| month grid (`app/monthview.c`) | shown month, selected day, marks | page, select, click, mark | browser, date |
| date (`core/date.c`) | none | day numbers, weekday, adding days and months | month grid, form |
| window manager (`ui/wm.c`, `ui/window.c`) | z-list, active flags, frames, drag | open, close, activate, mouse events | shell, dialog |
| menu bar (`ui/menu.c`) | open menu, pressed title, highlight | mouse and key events | shell |
| dialog (`ui/dialog.c`) | a modal window, its answer | open, event, close | shell, window manager |
| key map (`core/keymap.c`) | bindings in their scopes | read a file, look up, describe | shell, menu bar |
| shell (`app/shell.c`) | which application has which window, the question that stands | open applications, run actions, route events, finish a question | all of the above |
| text buffer (`ui/textbuf.c`) | bytes, caret, selection, undo and redo steps | edit, move, select, undo, redo | text widgets |
| panel (`ui/panel.c`) | widgets, frames, the one with the focus | layout, tabulator, mouse | forms, dialogs, scripts |
| text widgets (`ui/widget_text.c`) | broken lines, first line or pixel shown, mouse | keys, mouse, wheel | text buffer, scroll model |
| list, scroll model, scroll bar (`ui/`) | selection, three numbers, the part that is held | keys, mouse, wheel | browser, forms, scripts |
| viewer of gemtext (`app/gemview.c`) | wrapped lines, links, the selected one | set text, events | scroll model, gemtext, scripts |
| SPARTAN client, transport (`net/`, `plat/plat_net_posix.c`) | an answer being read | fetch, resolve | Lua |
| page browser (`src/data/apps/spartan.lua`) | address field, shown page, history | go, back, open a link, type digits | client, viewer |
| Lua bindings (`lua/`) | handles of widgets, scripts | `store`, `net`, `gemtext`, widgets, callbacks | shell, vault, index, client, widgets |
| graphics, theme, catalog, platform, `main.c` | tables, pixels | | |

### What is hard

* **Crashes and failing calls.** A save is open, write, close and rename; the
  process may die between any two, each may fail, and a full disk shows only
  in the flush. The index takes its statements one by one, only a rebuild has a
  transaction, and that one begins after the tables were cleared.
* **Routing.** Press, move and release of one gesture are separate events, and
  each goes to the first of dialog, shortcut, menu bar, content and window
  manager that wants it. In the middle of a gesture a key can open a dialog or
  close the window under the mouse. Within a form, press goes by place and the
  rest by focus, through panels in panels.
* **Pointers and identifiers that outlive what they name.** Windows freed by
  the window manager while the shell and a drag hold them; the identifier of a
  form that was closed; the selection after a reload; a question about a record;
  the address a page was fetched from.
* **Behind the browser's back.** Scripts and other programs change files while
  a listing or a form shows an older version, and the index knows only what it
  is told.
* **Views that lag.** Lists, text areas and the viewer learn their rows and
  break their lines when they are drawn or get an event; in between they have a
  scroll position of the text before.
* **Lossy conversions.** A record goes through widgets or a Lua table and comes
  back; each can carry only part of what a file may hold.
* **A remote end.** A fetch blocks the only thread while a server may refuse,
  stop in the middle of a line, or never stop.
* **Sequences.** Undo steps are differences at noted positions, merged and
  replayed on a text that changed in between; marks belong to a month that is
  left on many paths; Back takes from a history that links add to.
* **Boundaries.** 16 bits of counter, 511 bytes of form text, last days of
  months, days before the year 0, characters of several bytes, title bars at
  the edge of the screen, the last pixel of a scroll bar, a full reply buffer.

### What makes each part correct

* Vault: a record is whole whatever happens; success means it is stored; a new
  identifier never hits another record.
* Records: what can be read is written so that it is read again; scripts and
  forms keep the fields they did not touch.
* Index: it has what it was last told, a rebuild leaves what follows from the
  files, and its answer is that of the records.
* Browser: a save goes to the record the form belongs to and keeps what was not
  touched; list, selection and files agree.
* Month grid: marks exactly where records are, each day in one cell under its
  weekday, saved and deleted records on the days the user sees.
* Date: agrees with a calendar that counts days.
* Window manager: exactly the frontmost window is active, a drag always has a
  living window, no window is lost, a dialog shields the others.
* Shell: it forgets windows that are gone; answers are carried out where and
  about what was asked; a shortcut shown in a menu is the one that works; the
  parts together keep the window manager's promises.
* Text buffer: no character is cut; undo and redo walk along whole versions.
* Forms: one widget has the keys, the tabulator reaches all of them, the caret
  is in sight, what is shown is the text, a press hits what lies there.
* Pages: Back leads where one came from and only to what can be opened, every
  fetch ends, the viewer shows the text.

## 2. The modules

| module | models | state and actions |
|---|---|---|
| `RecordStore` | abstract: what `vault.h` promises | records, identifiers ever given, one call at a time |
| `Vault` | `store/vault.c`, `plat_files_posix.c`, `record_make_id` | files and temporary files; one action per call of the platform, each succeeding or failing; `Die` anywhere |
| `Gemtext` | `store/gemtext.c` | operators on lines |
| `FrontMatter` | `store/frontmatter.c`, `store/record.c` | operators: parse, write, read by key |
| `Collation` | `core/collate.c` | operators: fold, compare, prefix, inside |
| `Query` | `store/query.c` | operators: match, order |
| `ScriptStore` | `lua/pdalua_store.c`, `vault_load` | files; a script edits a field |
| `FormStore` | `app/fieldkind.c`, `form_build` and `compose` of `app/browser.c` | a form edits a field |
| `Index` | `store/index_sqlite.c` over the files | three tables, the copy a rollback returns to, the call under way; one action per SQL statement, each succeeding or failing; `Crash` anywhere |
| `IndexQuery` | `index_query`, `find_into` of `lua/pdalua_store.c` | operators: both ways to answer |
| `Browser` | `app/browser.c` over a list | directory, listing, rows, selection, view, form, `editing`; one action per function of `browser.h`, `Outside` for everybody else |
| `Dates`, `DayCount` | `core/date.c`; a reference calendar that only counts | operators |
| `Calendar` | `app/browser.c` over `app/monthview.c` | shown month, selected day, marks, form |
| `WindowManager` | `ui/wm.c`, `ui/window.c` | z-list, active flags, frames, drag |
| `MenuBar` | `ui/menu.c` | functions of the state of the bar |
| `Keymap` | `core/keymap.c` | operators: reading a file, lookup, description |
| `Desktop` | `app/shell.c` with `ui/dialog.c` | applications with windows, views and selections, menu, question, mouse button; one action per turn of `shell_event` |
| `UndoHistory` | abstract: versions one can go back and forward to | past, text, future |
| `TextBuf` | `ui/textbuf.c`, `core/utf8.c` | bytes, caret, anchor, wanted column, both stacks |
| `Scroll` | `ui/scroll.c`, `ui/widget_scroll.c` | operators on the three numbers and the bar |
| `PanelLayout` | the layouts of `ui/panel.c` | operators |
| `ListBox` | `ui/widget_list.c` | operators on the state of a list |
| `TextArea` | `ui/widget_text.c` | operators: breaking, caret, field |
| `Form` | focus and routing of `ui/panel.c` with a field, an area and its bar | focus, inner focus, field, area, bar; one action per kind of event |
| `SpartanUrl` | addresses of `net/spartan.c` | operators |
| `GemView` | `app/gemview.c` | operators on the state of the viewer |
| `PageBrowser` | `spartan.lua`, `spartan_fetch`, the transport, the bindings in between | address, history, viewer, the fetch under way and its socket; one action per event and per call of the transport |
| `VaultProofs`, `BrowserProofs`, `CalendarProofs`, `WindowManagerProofs`, `DesktopProofs`, `IndexProofs`, `PageBrowserProofs` | theorems about the modules they are named for | |
| `FormProofs` | theorems about `Form` with its widgets, and about `TextBuf` | |

How they are put together:

* `FrontMatter` and `Collation` are what `Query` works on; `ScriptStore` adds
  files, `FormStore` forms, `Index` the tables, `IndexQuery` the answers. One
  state machine has them all, so a file may be changed by a script, by a form or
  by others before the index hears of it.
* `SpartanUrl` and `GemView` (with `Scroll` and `Gemtext`) make `PageBrowser`;
  `PanelLayout`, `ListBox` and `TextArea` (with `Scroll`) make `Form`.
* `Desktop` instantiates `WindowManager` and shows that everything the shell
  does is a step of it (`KeepsWindowManager`), so what is proved of the window
  manager holds on the desktop. It contains `MenuBar`, and takes its shortcuts
  from a file read by `Keymap`.
* `Vault` is atomic in `Browser`, `Calendar` and `ScriptStore`: they use a
  directory changed whole and at once, which is what `RecordStore` allows and
  `Vault` is shown to implement. `TextBuf` implements `UndoHistory`; in `Form` an
  edit puts any text and caret. A browser inside `Desktop` is reduced to its view,
  the selected record and the widgets that hold the mouse.

Points of translation that a reader may stumble on:

* `Vault`: a temporary file is `Torn` from `fopen` until the flush in
  `plat_close`; there is one collection. `answer` is what the caller sees.
* `FrontMatter`: a text is a sequence of lines that are fences, fields, blank or
  others; a value is a sequence of characters. Keys are good (letters, digits,
  dashes, not too long) or not.
* `Index`: `vault_list` gives the files in the order of their names; `Place` is
  the place a file has in it, and `Listed` the first `Batch` of them.
  A rebuild begins with the files it will not be able to read (`unread`): any of
  them, all if the directory cannot be opened. `learned` is a history variable: what the index was last told of a
  record, `Unsure` if the call on it broke off. Rows of the table `fields` are a
  set, for SQL has no other order than the one that is asked for.
* `Browser`: titles are numbers in the order of collation, 0 the empty one. A
  body is what the form can show of it plus `rest`. A reload has any part of the
  readable records (`Reading`). `stale`, `whole` (it had all of them) and `last` are
  history variables; `opened` remembers the record as it was opened.
* `Calendar`: a record is its date. `Days` contains a day that does not exist,
  because `date_parse` accepts it.
* `WindowManager`: one cell is the size of the close box and of the grow box.
  `by` remembers whether an application or the mouse caused a step.
* `Desktop`: the i-th title of the menu bar is the i-th column. What a form or
  a script does with a press depends on what lies there, so both outcomes are
  allowed; a list and the month grid are deterministic about taking it.
* `TextBuf`: four kinds of bytes: line break, letter, and the two bytes of a
  longer character. A line break stands for all white space.
* `GemView` and `TextArea`: every character has the same width.
* `Form`: the items of the form, an area with its bar and a row of buttons count
  as panels of two widgets (`inner`). `beside` and `button` are history variables:
  a press that hit a panel but no widget in it that takes keys, and the mouse
  button. A release goes to the widget with the focus, like every other event.
* `PageBrowser`: a reply is measured in lines; `shown`, `typed` and `origin` are
  history variables: where the shown text is from, whether somebody typed at the
  address since, and the page a followed link stood on.
* Mutants (operators commented "Mutant:") are plausible bugs. Nothing uses
  them; they exist to show that a property notices.

## 3. The runs

Runs say `CHECK_DEADLOCK FALSE` where the system may rest: a bounded clock or
counter is used up, or nothing is open and nobody does anything. In `index`,
`pages` and `form` something can always happen, and a deadlock would be an error.
The limits named below are guards of the models, unless a constraint is named.

| run | asks | instance |
|---|---|---|
| `vault` | whole records, fresh identifiers, `RecordStore` | two texts, two seconds, a counter of two values that wraps, one crash or failure after the other |
| `vault_full_disk` (violated) | whole records although a flush fails | the same with `FlushMayFail` |
| `browser` | list, selection, forms, saves and files | three records with three titles; with up to two of them also unreadable files and filters (constraint `FewAtOnce`); any record may be missing from a reload |
| `browser_long_note` (violated) | untouched fields survive | two records, bodies longer than the form shows |
| `calendar` | date arithmetic; marks, cells, the day of saved and deleted records | December to March over a leap February, weeks from Sunday; every day of the 400 years before the year 0 and of the year after |
| `window_manager` | title bars, modality, drags | two windows and a dialog on 3 x 4 cells |
| `desktop` | pointers, questions, title bars, shortcuts, routing | list, calendar and script, two of them open, 2 x 3 cells, two menus, a key file |
| `desktop_release` (violated) | a drag ends with the button | the same |
| `textbuf` | characters, steps, history | texts up to 3 bytes, typed into below 2, two undo steps with a joined one |
| `index` | what the index holds and answers, rebuilds, what scripts and forms keep, reading and writing | three files, two of them listed by a rebuild, any of them unread by it, values up to 4 characters, two changes or broken calls |
| `pages` | Back and what it finds, the viewer, the end of fetches, addresses and lines | three pages on one server with good, redirecting, failing and garbled replies; a buffer of 3 lines, 2 links, 2 entries of history |
| `form` | focus, tabulator, caret, shown text, layout and bars | label, field, label, area with bar, row of buttons; two sizes |

`browser` has some 681,949 states, `index` 442,434, `desktop` 390,000, `pages`
268,763, `form` 96,000, `textbuf` 63,000, `calendar` 28,000; each is done in
two to three minutes.

Why these bounds are enough to be interesting:

* *Vault.* The counter wraps at its second value, is reset by a restart, and
  both seconds see both; two texts tell the old version from the new. All
  failures and deaths at every stage of a save over an existing and over a new
  record occur, leftovers of an earlier crash included.
* *Browser.* Three records make a neighbour in the middle, at the end and
  alone; two are enough for a form that belongs to the other one. Unreadable
  files are among them. Which titles come first is arbitrary, so a save moves a
  record to any place. A reload may miss any of the records, all of them included, and is a
  success nevertheless. With all three files there none is unreadable, there is no
  filter, and a form stands only over a current listing.
* *Calendar.* The four months have 31, 31, 29 and 31 days; records lie on the
  last days, on one that does not exist, and together on one day. Leap rules
  repeat every 400 years; a day and the next one, and one known weekday, settle
  any distance. Paging by up to 30 months either way passes Februaries and years.
* *Windows.* A window can cover another, stick out to the right and below, be
  wider than the space left of it, and stand with its title bar in the last
  place allowed; on 3 x 4 cells a drag goes in all directions. The dialog
  opens in the middle of a drag.
* *Desktop.* On 2 x 3 cells the menu bar is one row, so title bars can be
  pushed to it and each gesture can start and end in bar, title, content and
  outside. Three kinds of application, two windows and one question are all
  that the conditions of `shell.c` tell apart. Windows are never enlarged
  there (`MinH` is their height): `window_manager` does that. The key
  file is that of the program without what the shell has no use for; pairs of
  lines written in ten ways, in two scopes, with unknown modifiers, missing keys,
  doubled bindings and names that are too long are read besides.
* *Text.* Three bytes hold a line break, a letter and a longer character in
  one text or two lines beside one; two steps and a joined one allow every
  case of merging, replacing, undoing and redoing.
* *Index.* Texts are plain, with a list, with an empty value, with a date and a
  boolean, broken, or without an identifier; one file may be a copy of another
  record. Two changes allow one that the index was told of and one it was not,
  and a call that breaks off after any statement, followed by others. A rebuild may
  be given any part of the files. The queries
  have every operator, both directions, and words that occur inside of others.
  Reading and writing is looked at for every text of up to four out of thirteen
  lines. A form is saved only as the first change.
* *Pages.* Replies fit the buffer, fill it exactly, and pass it. A text of
  seven lines at most is wrapped at two widths; there are more links than numbers
  for them. Paths of up to six segments, addresses and lines of up to five
  characters are enumerated.
* *Form.* Two of the items are panels, one of them with a part that takes no
  focus. Texts are empty, shorter, as long and longer than the width, with a
  space and line breaks; they may be pressed on the border and below the last line,
  too. Layouts are looked at for up to three items of six
  sizes, the scroll bar for every model of up to nine lines and tracks of up to
  20 pixels, lists for up to four lines, the breaking for every text of up to five
  characters.

### Fairness

`PageBrowser` states `WF_vars(Fetch)`, where `Fetch` is the next call of a fetch
under way: opening, sending, receiving, and the end. The code justifies it:
`spartan_fetch` runs to its end within one event of the only thread, and every
call returns, for `plat_connect` sets limits of ten seconds for sending and for
receiving. Nothing is assumed of the server. `FetchEnds` then holds because each
received piece fills the buffer, which `spartan_fetch` compares with its size.

Nothing else has to make progress: the program waits for the user, who may do
nothing, and no other queue, timer or process is there. All other properties are
invariants, action properties or refinements of specifications without fairness.

## 4. What was found

Each is a run that TLC refutes (`findings` in `PROJECT.json` quotes the lines).

1. `vault_full_disk`: `plat_close` drops the result of `fclose`. If the flush
   fails, a truncated temporary file is renamed over the record and the save
   answers success.
2. `browser_long_note`: a form shows 511 bytes of a body; opening and saving a
   longer note cuts it.
3. `desktop_release`: press on a title bar, release over the menu bar: the
   release is swallowed, the outline goes on following the mouse.
Seen while modelling, without a run of their own; where a property would not
hold because of it, its comment and its formula name the exception:

* The text of a record is kept as a pointer into a buffer that the next field of
  the form is read into (`browser.c:490`). A form that does not have it last saves
  that field's value as the text; with such a `FormOrder` TLC refutes
  `EditingKeepsUntouchedFields` for short bodies, too. All shipped schemas have it
  last.
* A directory that cannot be read counts as an empty one (`vault.c:462-467`), a
  record that cannot be read is left out, and so is what is beyond 512 records; a
  rebuild commits what is left and reports success (`RebuildFollowsFiles` speaks
  of what could be read). `index.h:75-77` promises exactly what the files say.
* A text of blanks matches every record by reading (`query.c:171-174`), while the
  index asks SQLite for `MATCH ''` and fails (`SqlRefuses`, in `BothWaysAgree`).
* An address that was begun and given up with Esc stays, and links of the shown
  page are resolved against it (`spartan.lua:116`, `Escape`).
* A page that is opened by typing its address does not put the one before into the
  history, for the field already holds the new address when `browser.go` compares
  (`spartan.lua:91`, `ShowsPage`).
* A press on the bar of a text area, or between two buttons, takes the keys from
  the widget that had them and gives them to nobody (`beside`, in
  `FocusIsInOnePlace`); `panel.c:555-557` says that this must not be.
* The thumb of that bar is taken by a press and never hears of a move or of the
  release (`PressBar`, `Release`), as releases go to the widget with the focus.
* A program started twice within a second makes the same identifiers again
  (`QuickRestart`; the run `vault` and the theorems assume it does not happen).
* 30 February can be saved and belongs to no day afterwards (`SavedDayIsTurnedTo`
  speaks of days that exist).
* The jump to a month by the dialog clears the marks, and they return only with
  the next event in the grid (`MarksFollowRecords` leaves the jump out).
* A script that writes a record back turns a list of one item into a scalar; a
  copied file with the identifier of another record overwrites that one
  (`ScriptsKeepOtherFields`).
* A form accepts blanks for a required field, reads typed text in brackets as a
  list, and drops fields it does not show (`FormsKeepOtherFields`).
* `index_rebuild` clears the tables outside of its transaction, so a failure
  within it leaves them empty (`RebuildFollowsFiles` says so).
* A word is found by the index only as a whole, by the records also inside of
  another, and "ss" for "ß" only by the records (`BothWaysAgree`).
* A key bound globally and in the scope of applications never fires for the
  latter (`MenuShowsWhatKeysDo`).
* A list is empty, and no error shown, when its directory cannot be read
  (`ListIsCurrent` holds a list against what the reload could read, and against
  all files only if that was all of them).
* A tabulator in the middle of the drag of a text takes the release from it.
* A new layout may leave the caret of an area out of sight until it is moved
  (`CaretIsShown` speaks of edits and moves).
* Back loses its entry when the server fails (`EveryEntryOpens` says that nothing
  else can cost one); an error is
  shown under the address of the page before; a reply cut off by the end of the
  connection is taken for the page.

## 5. The proofs

`VaultProofs`, for every set of texts, width of the counter and clock:

* `TypeCorrect`. The identifiers stay in range because the counter is cut.
* `WholeFiles`: without failing flushes, `NeverHalfWritten`. The invariant is
  not inductive alone: `WholeInv` adds that the temporary file of the running
  save holds exactly its text from the close to the rename.
* `FreshIdentifiers`: without two starts in a second, `NewIdentifierIsFresh`.
  `FreshInv` says which identifiers of this second were made: those of the last
  `issued` values of the counter, so the next one is not among them until the
  counter has gone round.
* `VaultImplementsStore`: under both assumptions `Spec => KeepsPromise`. Each
  action maps to a step of `RecordStore` or to none: a save is begun by
  `SaveNew` or `SaveKnown`, committed by the successful `Rename`, refused by
  each failure.

`WindowManagerProofs`, for every set of windows and every screen:
`TypeCorrect`, `FrontmostIsActive`, `DragIsSafe` and `TitlebarsReachable`, all
from one inductive invariant. It adds to the four invariants
`OutlineGrabbable`: the outline of a drag is already where the release will put
the frame. Lemmas say what removing from and raising in the z-list do;
arithmetic about clamping is in `MovedGrabbable` and `ResizedGrabbable`. The
assumptions are those of the module: a title bar and a minimal window fit on
the screen, and windows are opened on it.

`ModalsShield` follows from the same invariant. `FramesFollow` needs
`OutlineFits` besides: an outline keeps the size of the frame it started from
while it is moved, and its place while it is resized.

`BrowserProofs`, for every finite set of identifiers, every set of texts and
every filter, when the body is the last field of the form, as in every shipped
schema (`data/schema/*.lua`):

* `TypeCorrect`, `FormKnowsItsRecord`: the inductive invariant is `TypeOK`,
  `FormBelongsToRecord` and `UnknownIsAbsent` (an identifier that was never
  given has no file). The last one is what makes `SavesGoHome` true of new
  records.
* `SavesGoHome`: an action property of a save, whatever the others wrote while
  the form was open.
* `UntouchedFieldsSurvive` has a second assumption, that no body is longer than
  a text field; without it the run `browser_long_note` shows the loss; without
  the first one there is another, see section 4.
* `ListingIsCurrent`: the rows are those of the records that the last reload could
  read (`Reading`: any of them, none if the directory cannot be read). That no row
  of those is *missing* rests on `ListingsComplete`: a sequence of distinct
  elements as long as the finite set they come from has all of them.
* `SavedRecordIsSelected`.
* `SelectionMoves`, when the form has a title and a body: the rows of a reload
  are the loaded records in their order, so those before the deleted one keep
  their places and those behind it move up by one; the selection, which kept its
  number, is on the first one behind, or on the last one if none is left.

`CalendarProofs`, for every month, every record and every first day of the week:

* `DatesCounted`. `FromDays` and `ToDays` are divisions over eras of 400 years,
  `DayCount` only counts. Leap years add a day in every fourth year but three
  of four hundred, which is arithmetic on `\div`; the 366 days of an era's year
  are told apart month by month.
* `CalendarTypes`: what is shown is a month there is, what is selected one of its
  days. The year a user pages to has no bound there.
* `MarksFollow`, from `CalendarInv`: the month shown exists, the marks are among
  those of the records loaded last, and unless a write of somebody else made it
  stale that listing is what the directory holds (`GridInv`). It goes through
  `SavedDayIsTurnedTo`, for a save that reloads moves the grid.
* `SavedDaysAreTurnedTo`, `DeletionStays`.
* `CellsOfDays`: a row and a column are quotient and remainder of one number, and
  the weekday of the first of a month is that of its day number.

`DesktopProofs`, for every set of applications, every menu and every screen:

* First, what an event can do to windows, pointers and the question: the lemma
  `Effects` sorts the branches of `shell_event` and `shell_run_action` into
  nine effects (`Keeps`, `Opens`, `Raises`, `Closes`, `Asks`, `Answers`,
  `Clicks`, `Drags`, `Drops`). Every later step is one case for each of them.
  Assumed is that windows are opened on the screen and below the menu bar, and
  that the bar does not fill the screen.
* `DesktopInv` has the inductive invariant of the window manager,
  `PointersMatchWindows`, `DialogLiesOverItsApp`, `QuestionStaysTrue`,
  `TitlebarShowsBelowMenubar` and `OutlineShows`. They need each other: an
  answer is one step of the window manager (`AnswersClose`) because the window
  behind the dialog is the one the question came from; it is that because the
  dialog was opened in front of the active window, whose pointer is set.
* `WindowManagerIsKept`: `Spec => KeepsWindowManager`. So the theorems about
  `WindowManager` hold on the desktop (`WindowsAreSafe`).
* `PointersAgree`, `DialogsLieRight`, `QuestionsStayTrue`, `TitlebarsShow`. The
  last one combines modules: the menu bar keeps every pointer position above its
  lower edge to itself, and a moved title bar follows the pointer.
* `ShortcutsReadBack`: in any file of keys that can be read, what the menus show
  for an action is what has to be pressed for it in its scope. Its steps are that a
  file without clashes gives an action one entry (`DescribedOnce`) and a key of a
  scope one action (`OwnAction`), and that what `format_shortcut` writes is read
  again as the same key and modifiers, in whatever case and order the file has them
  (`ShortcutReadsBack`). `LettersAssumption` says what small letters are: once
  small they stay so, and the names it writes with capitals are the names it reads.
* `MenusTellTheKeys`: `Spec => []MenuShowsWhatKeysDo`. Across scopes a file can
  hide one binding behind another, and only the file says whether it does: that
  `data/keys/default.keys` can be read, binds what the menus have for the
  application or globally, and hides none of it is `KeysAssumption`, which the
  runs evaluate for their file.

`WP` in `DesktopProofs` is the same instance of the window manager as `WM` in
`Desktop`; `SameNext` and its neighbours say so by expanding both.

`IndexProofs`, for every collection, all texts, every batch and every bound:
`IndexHolds`, that is `Spec => []HoldsWhatItLearned`. `IndexInv` says of a call
under way how far it has come. Between calls all records are settled: the tables
have of each what was learned of it. A put or a remove has unsettled one record;
`RowsDeleted` and `RowsInserted` say which of its rows are gone and which of
the new ones are there. In the transaction of a rebuild the records done are
settled and the copy that a rollback returns to is empty; before it, some tables
are cleared. A failing statement or a crash leaves the record under work
`Unsure`, unless the rollback took everything back. The rows of one record are a
set because the statements bring them in one by one: after the last one the set
is that of the record, in whatever order they came.

`RebuildIsFaithful` is the other half, `RebuildFollowsFiles`: of each record it
could read, among the first of the batch, a rebuild that reports success leaves
all fields and the text, and nothing of any other. That it may be able to read
fewer than there are, and reports success all the same, is in section 4.
`RebuildFollows` says how a rebuild advances: the identifiers still to come are the files listed
behind those that are done (`RestIsListed`), the record at work is between the two
(`RecordIsListed`), and what was learned is what the files of those done have,
and nothing of any other (`Learned`). That the places are 0, 1, 2 and so on, each
taken once, follows from counting: they are an injection of a finite set into an
interval of the same size. A rebuild is over only by the commit, with nothing
left to come, by a failure or by a crash; the failing one leaves empty tables,
which is `SavedIsEmpty` of the first half.

`EveryTextSettles` is about the text of a record itself: whatever lines, values and
lists a text has that can be read at all, what it is written as is read back, and a
second round changes nothing; `SamplesSettle` says it of the samples,
`Spec => []RoundTripIsStable`. The steps, each a part of the module:

* The recursive functions (`Joined`, the fields of a header) are pinned down
  by a function that exists step by step (`SteppedExists`), by minimal
  counterexample. Blank, comma and brackets have names of their own there.
* The parts of a list end at its commas and at its end, in their order
  (`CutsAre`); and numbers that grow and are the ends are those cuts (`CutsFound`).
* What `Joined` puts together is taken apart again by `Items` (`JoinedItems`),
  going up value by value: where a value ends, and that no comma stands before.
* An entry that was read is read back from the line it is written as
  (`EntryAgain`), but for a list of one empty item, which comes back as an empty
  list and is written alike (`LoneEmpty`); this is why `ReadBack` names that case.
* From lines to headers (`GoodHeaderIsRead`, `WrittenHeaderIsRead`) and to texts
  (`ParseOfFenced`, `TextRoundTrip`): the fence that ends a written header is the
  first one behind the fence that begins it.

`SamplesAssumption` says that samples are made of lines there are; the run
evaluates it, and `EveryTextSettles` needs no sample.

From that, what scripts and forms do to a record. The inductive invariant is
`FilesAreTexts` (`FilesStayTexts`): a file is missing, or its lines are made of
the characters there are. It is needed because what a script or a form saves is
the next one's input. With it, `EveryFileSettles` says of the files themselves
what `EveryTextSettles` says of texts: also one that was composed by a script or
a form, and copied with a new identifier, is read back from what it is written
as. Two action properties follow from the same invariant:

* `ScriptsKeepTheRest`: `Spec => ScriptsKeepOtherFields`.
* `FormsKeepTheRest`: `Spec => FormsKeepOtherFields`.

A third theorem rests on the same invariant and on the one of the index:

* `TwoWaysAgree`: `Spec => []BothWaysAgree`. `HoldsWhatItLearned`, and that only
  records are in the tables (`OnlyRecords`), make the tables of an index that is
  up to date those of the records (`TablesAreCurrent`). Then, row by row: the rows
  of a field are those of its values (`RowsAre`), so a filter finds the same in
  both (`FilterAgrees`) - but for the absence of a field with several values,
  where the one looks at all of them and the other at the first. The keys by which
  two records are ordered decide as the comparison of the records does
  (`OrderAgrees`); this is where equal sort keys must mean equal fields, for the
  records are told apart by the unfolded text, too, and the index by the
  identifier. For words, the part of a text folds to a part of the folded text
  (`FoldOfPart`), and what fts5 takes for the same word is the same for a search
  (`FoldsTogether`), so a whole word that is found is found inside (`WordAgrees`).
  A word with punctuation, as a date, is a phrase for fts5, found where its parts
  follow each other; the records have each of these parts (`Parted`). A text of
  blanks the index refuses.
  Folding, sorting and laying texts end to end are recursive functions, pinned down
  as chains that exist step by step (`ChainExists`).

The steps both share: a set put in the order of its ranks has each member once
(`RankedIs`, `RankedLines`); a header composed of lines that can be read is read
as the entries of these lines (`ComposedIsParsed`), and what is read of it is
what will be read after it was saved (`ComposedIsReadAgain`); a save that is
not refused changes the file of the identifier in the header and no other
(`SavedIsRead`). For scripts, `TableKeepsEntry` says which entries survive being
a value of a table - a list of one item does not stay a list, but has the same
values. For forms, `UntouchedIsKept` and `EnteredIsShown` say, kind by kind, what
a field that is shown and read again is stored as (`ShownOf`, `Read`), and
`PlainIsKept` which values survive the line they are written in.

These assumptions are stated where their constants are declared; the run `index`
evaluates them. `CodeAssumption` and `TablesAssumption`: characters have places
that are numbers, small letters and replacements are made of them.
`WordsAssumption`: fts5 folds letter by letter, letters that are the same for it
are the same for `search.fold`, and the words of a query have no blanks in them. The
reverse is not assumed: `search.fold` calls itself the same rule
as `remove_diacritics 2`, but it makes "ss" of "ß" and "o" of "ø", which fts5
leaves alone, so "strasse" is found in "Straße" by the records alone. The letters
are those of the table and of ASCII: others, as "ā", fts5 folds and the table does
not have. `ScriptAssumption`: keys are texts with one order, and scripts do
not set the body. `FormAssumption`: no field stands in a form twice (the code
does not refuse such a schema; the ones it comes with have none), a day is shown
as no other is, and lists and check boxes are given values they have.
`TextsAssumption`: files have lines.

An attempt at this proof found that `Foreseen` was too weak for dates: a field
that already holds a date the way dates are shown, and not the way they are
stored, is shown as it is but read as a date, so a save that does not touch it
converts it. `FormKeeps` now leaves such a value out.

`PageBrowserProofs`, for every server, all pages and every size: `BackLeadsThere`
and `SocketsAreClosed` from `PageInv`, which adds to the two statements that
the address is that of the shown page until somebody types (`AddressIsOfPage`), that a fetch begun
by a link still knows the address it began
at (`FetchKnowsOrigin`), for nothing else can happen while it runs, and that the
history is a sequence. `HistoryCanBeOpened` rests on `LeavesOpenable`: a fetch that
will be remembered under an address other than its own was begun by a link, and a
link is followed only if that address, half typed or not, could be parsed.

`ViewerShowsText`, that is `Spec => []ViewShowsText`, is about what the viewer
draws, with whatever text, width and height. What is compared is the text
without its blanks (`Solid`). Filters are written as `Picked`, whose places can be
counted in a proof; of `SelectSeq` these provers know nothing. Then:

* a source line becomes one line of its kind with its characters
  (`GemLinesAreLines`);
* a line that is too long is cut where `CutAt` says, every piece ends behind where
  it begins and the next one begins there but for blanks (`CutAtIs`, `ChainExists`,
  `PiecesAre`), so that the pieces have all of its solid characters in order;
* the pieces of all lines, gathered, tell the text line by line (`Tells`,
  `Gathered`, `WrappedShows`), and links are numbered in their order (`LinksAre`).

`ViewInv` has what comes back from a fetch (`ReplyComes`) and says of the view
that what is wrapped is wrapped from its text, at its width, and scrolled
into range (`ViewHolds`); events find it stale and repair it before they use it.
Assumed is that the window has room for a character beside the margins
(`ViewerAssumption`) and that pages are texts (`PagesAssumption`).

`SamplesRead`, that is `Spec => []SamplesAreRight`, is about the functions a page
is read with; the lemmas under it say of every path, text and line what the run
tries on samples. Recursive functions are pinned down as runs (`IsRun`): functions
that exist step by step and agree wherever they are defined.

* `PathsAreNormalized`. `Joined` is a path as the loop of `normalize` writes it,
  a slash before and behind each name, and `Segments` of it gives the names back
  (`ReadsAs`). `Parent` takes the last name away (`ParentIs`), so the loop keeps a
  stack of names (`Stack`, `CollectingJoins`). That this stack is what `Stays`
  defines by counting is an invariant over the names read so far: behind a name
  that stays there are as many names more than ".." as names that stay
  (`KeptUpTo`, `Balanced`), so the next ".." takes away the last of them and no
  other. `NamesFitPath` bounds what is written by the length of the path; with
  the room `NormalizedIsRight` asks for, the loop never ends early (`CollectedIs`).
* `FormattedReadsBack`. An address that could be parsed has a host without colon,
  slash and blank, a port in its range and a path without blanks at its end; each
  separator is then found where `FormatUrl` put it (`FirstOfTwo`, `PartsReadBack`),
  and the digits of a number are read as that number (`DigitsOf`, `PortOf`).
* `LinesLoseMarks`: what `classify` takes off a line are its marks and blanks.

`UrlsAssumption` says that there is a digit for each value and that no separator is
a digit; `TextsAssumption` that what is tried are texts, and that a path begins
with a slash, as every path of an address does. `Segments` is a recursive
function for this proof: it reads a path character by character, as the loop does.

`FormProofs`, for every order of widgets with a field and an area among them, all
texts and all sizes:

* `FocusIsOne`. The tabulator goes to the smallest or the greatest of some
  numbers. That these exist is shown in `MinIsLeast` and `MaxIsGreatest`, from the
  well-foundedness of the natural numbers.
* `TabsGoRound`. `Stations`, the fold that lists the stops of the tabulator, is
  shown to name each stop once and in the order of the widgets
  (`StationsAreStops` and what it rests on); a step then goes to the neighbour
  in the circle of their numbers, and so a whole round meets every stop.
* `TextIsShown` and `CaretStaysInSight` (of the steps that edit or move), from `FormIsSound`: lines that are valid
  are those of the text at the width they were broken for. That they cover the
  text, each where the one before it ends, is shown by minimal counterexample on
  the offset at which a line begins.
  An attempt at this proof found that the first statement of `AreaShowsText` was
  too strong: between a change of the layout and the next event lines are of the
  old width, and a press on them finds a caret elsewhere. `UpToDate` says since
  when a press is judged, and the run has two sizes to tell the cases apart.
* `WidgetsAlwaysFit`: all four parts of `WidgetsFit`. `LayoutsFit` says of any
  items, gaps and padding what the samples are checked for, and of any
  rows of a form: frames lie in the area, in order, apart by the gap, and fill
  what a stretching item is there to fill. The sums of sizes (`Sums`) are a
  recursive function, pinned down by minimal counterexample. `SamplesAssumption`
  is the precondition: no item is of width 0, for the first item of a
  stretched row takes at least one pixel of it. `ListsKeepSight` and
  `ThumbsAreSteady` are the parts about lists and thumbs, for all lists and all
  scroll models.

and about `TextBuf`, for every set of texts, any number of steps kept, and
whatever is loaded:

* `TextIsKeptWhole`. A text is whole if it is parted into characters; its offsets
  are the places where one begins. Every edit is a `Joint` of the text before a
  place, what is put in, and the text behind another, and inverse edits are the
  same joint read in the other direction. `Ordered` says of both stacks that
  every step fits the text it will meet, though that text is several undos away.
* `UndoKeepsHistory`: the refinement of `UndoHistory`, step by step. `Earlier` and
  `Later` are recursive functions; `Computes` and `Counts` pin down what they
  compute for stacks of any height. `Line` is the row of texts the steps of one
  stack lead through, the current text last: undo and redo move the last text of
  one line to the other, and an edit cuts the line of what is later.

Theorems that no run repeats (`TypeCorrect`, `CalendarTypes`,
`FormKnowsItsRecord`, `FrontmostIsActive`, `DragIsSafe`, `UntouchedFieldsSurvive`,
`SocketsAreClosed`, `WindowsAreSafe`, `ShortcutsReadBack`, `ListsKeepSight`,
`ThumbsAreSteady`, `EveryTextSettles`, `FilesStayTexts`, `EveryFileSettles`) are the
parts of inductive invariants, follow from others, or say for all data what a run
can only say of samples; the runs are kept for what a proof cannot replace.

Where a statement is about data of any length, it is proved by minimal
counterexample: the natural numbers at which it fails have a least one
(`NatLessThanWellFounded` and `WFMin` of the library), and that one leads to a
smaller. The induction theorems of the library, which take the statement as an
operator, cannot be used by the provers there are.

Only model-checked: `FetchEnds`, since liveness under fairness cannot be proved
with these tools.

## 6. What is not modelled

* *Exhausted memory*, except where `Browser` lets a form fail to be built and
  a reload fail. `TextBuf`, `Desktop` and `Form` never run out.
* *Drawing, wording, graphics, theme, catalog, quitting*: no property depends on
  them; golden images in the repository cover drawing. Characters have one width
  where widths matter.
* *The schema*: a table read once from a file; the forms it describes are
  constants.
* *Loading of scripts, the disabling of one after an error, the collection of
  handles*: they depend on the runtime of Lua, which is not part of the code.
* *SQLite* is external: a statement takes effect or fails, a transaction is
  committed or rolled back, and the full text search parts texts into words
  (`Parting`) and compares these folded by a rule of its own (`WordTable`). The
  *server* is external and free in what it sends. Sending into a closed connection
  (`plat_send` without a guard against SIGPIPE) is a failing call here.
* *Buttons and check boxes*: one flag each, asked for in the same
  call. `Form` has where such a widget stands in the focus. Which button or field
  of a dialog has the focus is left out of `Desktop`.
* *Limits* of 512 records in a listing, 1024 directory entries, 64 keys of a
  table, 8 filters of a query and 16 applications. Two hazards in
  `PROJECT.json` have no property, one because a limit is refused and nobody says
  what then should happen, the other because memory would have to run out.
* *The font compiler and tests*: tools of the build.

## 7. Plan

Done, in this order: vault, window manager, browser, calendar with dates, text
buffer, desktop with menu bar; records, queries, scripts, forms and the index;
the page browser with its viewer; the widgets of a form; the key map. Proofs for
vault, window manager, browser, desktop, index, page browser and form; then for
dates and calendar, the text buffer, the text widgets and rebuilds, the round
trip of texts, what scripts and forms keep of a record, the two ways to answer
a query, the shortcuts in the menus, and the paths, addresses and lines of the
pages. Every property of a passing run but `FetchEnds` has a theorem. What the
code does not keep of its own promises is in the runs that TLC refutes.

Next modules: the life of an application in Lua (loading, disabling after an
error, widgets that outlive their window), the focus within a dialog, and the
reading of schemas with their refusals.
