-------------------------------- MODULE Desktop --------------------------------
(***************************************************************************)
(* The shell of app/shell.c: applications with their windows, the dialog   *)
(* that asks a question, the menu bar, and the order in which they see the *)
(* events of keyboard and mouse: dialog, shortcuts, menu bar, content of   *)
(* the active window, window manager.  The window manager is WindowManager *)
(* and the menu bar MenuBar; each action here is one call of shell_event.  *)
(*                                                                         *)
(* A browser is its view, the record it has selected and the widgets that  *)
(* hold the mouse (a text field, the scroll bar); module Browser has the   *)
(* rest.  The heap is never exhausted here, and quitting is left out.      *)
(***************************************************************************)
EXTENDS Integers, Sequences, FiniteSets

CONSTANTS
  Apps,     \* the applications; each is also the action that opens it
  KindOf,   \* application -> "list", "month" or "script"
  Dialog,   \* the window of the dialog
  NoWindow, \* the null pointer, and no application
  Rows,     \* records
  NoRow,    \* nothing is selected
  NoAsk,    \* no question stands
  Menus, Separator, NoAction, MenubarH,
  KeyLines, \* the lines of data/keys/default.keys
  SampleKeys, \* other such files
  Lower, Characters, LongNames, \* see Keymap
  ScreenW, ScreenH, TitlebarH, MinW, MinH,
  AppFrames, DialogFrames,
  MaxOpen   \* bound of the model: applications with a window at a time

ASSUME AppsAssumption ==
  /\ KindOf \in [Apps -> {"list", "month", "script"}]
  /\ Dialog \notin Apps /\ NoWindow \notin Apps \union {Dialog}
  /\ NoRow \notin Rows

\* shell_open_app puts windows below the menu bar.
ASSUME FramesAssumption ==
  /\ MenubarH \in Nat /\ MenubarH < ScreenH
  /\ \A f \in AppFrames : f.y >= MenubarH

VARIABLES
  z, active, frame, drag, by, \* see WindowManager
  win,    \* the applications whose window pointer is set
  view,   \* application -> "list" or "form"
  row,    \* application -> the selected record
  grab,   \* application -> its widgets that follow the mouse
  menu,   \* see MenuBar
  ask,    \* the question: its kind, its application and its record
  button  \* is the mouse button down?

manager == <<z, active, frame, drag, by>>
content == <<view, row, grab>>
vars == <<manager, win, content, menu, ask, button>>

Flags == [w \in Apps \union {Dialog} |->
            IF w = Dialog THEN {"modal"} ELSE {"closable", "movable", "resizable"}]

WM == INSTANCE WindowManager
        WITH Windows <- Apps \union {Dialog}, FirstFrames <- AppFrames \union DialogFrames
MB == INSTANCE MenuBar
KM == INSTANCE Keymap

Questions == [kind : {"about", "delete", "month"}, app : Apps \union {NoWindow},
              row : Rows \union {NoRow}]

ASSUME QuestionsAssumption == NoAsk \notin Questions
ASSUME ManagerAssumption == WM!ScreenAssumption /\ WM!FirstFramesAssumption
ASSUME LettersAssumption ==
  KM!LowerAssumption /\ \A lines \in SampleKeys \union {KeyLines} : KM!IsFile(lines)

TypeOK ==
  /\ WM!TypeOK
  /\ win \subseteq Apps
  /\ view \in [Apps -> {"list", "form"}]
  /\ row \in [Apps -> Rows \union {NoRow}]
  /\ grab \in [Apps -> SUBSET {"bar", "field"}]
  /\ menu \in MB!MenuStates
  /\ ask \in Questions \union {NoAsk}
  /\ button \in BOOLEAN
  /\ \A a \in Apps : "field" \in grab[a] => view[a] = "form"
  /\ \A a \in Apps \ win : view[a] = "list" /\ row[a] = NoRow /\ grab[a] = {}

Init ==
  /\ WM!Init
  /\ win = {}
  /\ view = [a \in Apps |-> "list"]
  /\ row = [a \in Apps |-> NoRow]
  /\ grab = [a \in Apps |-> {}]
  /\ menu = MB!Closed
  /\ ask = NoAsk
  /\ button = FALSE

--------------------------------------------------------------------------------
(* Applications and their windows.                                         *)

\* shell_active_app: the frontmost window, if it is an application's.
ActiveApp ==
  IF z # <<>> /\ z[Len(z)] \in win THEN z[Len(z)] ELSE NoWindow

HasBrowser(a) == a \in win /\ KindOf[a] # "script"
InForm == HasBrowser(ActiveApp) /\ view[ActiveApp] = "form"

\* Mutant: closing a window tells nobody.
CallbackForgotten(w) == UNCHANGED <<win, content>>

\* on_window_closed, which wm_close calls on every way a window goes.
OnWindowClosed(w) ==
  /\ win' = win \ {w}
  /\ view' = [view EXCEPT ![w] = "list"]
  /\ row' = [row EXCEPT ![w] = NoRow]
  /\ grab' = [grab EXCEPT ![w] = {}]

\* Mutant: the window is opened again although it is there.
OpenAgain(a) ==
  /\ z' = Append(z, a) /\ active' = {a}
  /\ by' = "app"
  /\ win' = win \union {a}
  /\ UNCHANGED <<frame, drag, content, ask>>

\* shell_open_app.
OpenApp(a) ==
  IF a \in win
  THEN WM!Activate(a) /\ UNCHANGED <<win, content, ask>>
  ELSE /\ Cardinality(win) < MaxOpen
       /\ \E f \in AppFrames : WM!Open(a, f)
       /\ win' = win \union {a}
       /\ \E r \in Rows \union {NoRow} :
            /\ KindOf[a] = "script" => r = NoRow
            /\ row' = [row EXCEPT ![a] = r]
       /\ UNCHANGED <<view, grab, ask>>

CloseActive ==
  /\ WM!Close(ActiveApp)
  /\ OnWindowClosed(ActiveApp)
  /\ UNCHANGED ask

--------------------------------------------------------------------------------
(* The browser in a window.                                                *)

Select(a) == \E r \in Rows \union {NoRow} : row' = [row EXCEPT ![a] = r]

LeaveForm(a) ==
  /\ view' = [view EXCEPT ![a] = "list"]
  /\ grab' = [grab EXCEPT ![a] = @ \ {"field"}]

\* A new form takes the place of an older one.
EnterForm(a) ==
  /\ view' = [view EXCEPT ![a] = "form"]
  /\ grab' = [grab EXCEPT ![a] = @ \ {"field"}]

SaveForm(a) ==
  \/ view[a] = "form" /\ LeaveForm(a) /\ Select(a)
  \/ UNCHANGED content

OpenRecord(a) ==
  \/ row[a] # NoRow /\ EnterForm(a) /\ UNCHANGED row
  \/ UNCHANGED content

--------------------------------------------------------------------------------
(* Questions.                                                              *)

\* Mutant: which application is active is asked when the dialog is there.
AskOfTooLate(kind) == [kind |-> kind, app |-> NoWindow, row |-> NoRow]

AskOf(kind) ==
  [kind |-> kind, app |-> ActiveApp,
   row |-> IF kind = "delete" THEN row[ActiveApp] ELSE NoRow]

Ask(kind) ==
  /\ ask' = AskOf(kind)
  /\ \E f \in DialogFrames : WM!Open(Dialog, f)
  /\ UNCHANGED <<win, content>>

\* The first button is the cancelling one; only "about" has no other.
Results == IF ask.kind = "about" THEN {0} ELSE {0, 1}

\* What was agreed to is done where the question came from.
Do(kind, a) ==
  CASE kind = "delete" /\ HasBrowser(a) -> Select(a) \/ UNCHANGED row
    [] kind = "month" /\ HasBrowser(a) -> Select(a)
    [] OTHER -> UNCHANGED row

\* finish_ask: the dialog closes, and the window it lay over comes back.
FinishAsk(result) ==
  LET rest == WM!Without(z, Dialog)
      back == ask.app
  IN  /\ z' = IF back \in win THEN WM!Raised(rest, back) ELSE rest
      /\ active' = IF back \in win THEN {back} ELSE WM!Top(rest)
      /\ frame' = [frame EXCEPT ![Dialog] = WM!NoFrame]
      /\ drag' = IF drag.win = Dialog THEN WM!NoDrag ELSE drag
      /\ by' = "app"
      /\ ask' = NoAsk
      /\ IF result = 1 THEN Do(ask.kind, back) ELSE UNCHANGED row
      /\ UNCHANGED <<win, view, grab>>

Answer == \E result \in Results : FinishAsk(result)

--------------------------------------------------------------------------------
(* shell_run_action, from a shortcut or from the menu.                     *)

NeedsBrowser(action) ==
  action \in {"record.new", "record.save", "record.delete", "list.open",
              "form.accept", "form.cancel"}

Nothing == UNCHANGED <<manager, win, content, ask>>

InBrowser(action, a) ==
  CASE action = "record.new" -> EnterForm(a) /\ UNCHANGED row
    [] action \in {"record.save", "form.accept"} -> SaveForm(a)
    [] action = "list.open" -> OpenRecord(a)
    [] action = "form.cancel" -> LeaveForm(a) /\ UNCHANGED row

RunAction(action) ==
  CASE action = "app.about" -> Ask("about")
    [] action \in Apps -> OpenApp(action)
    [] action = "window.close" /\ ActiveApp # NoWindow -> CloseActive
    [] action = "record.delete" /\ HasBrowser(ActiveApp) /\ row[ActiveApp] # NoRow ->
         Ask("delete")
    [] NeedsBrowser(action) /\ action # "record.delete" /\ HasBrowser(ActiveApp) ->
         InBrowser(action, ActiveApp) /\ UNCHANGED <<manager, win, ask>>
    [] OTHER -> Nothing

--------------------------------------------------------------------------------
(* Events.                                                                 *)

\* Mutant: an open dialog does not keep the events from the others.
NeverShielded == FALSE

Shielded == ask # NoAsk

\* The dialog gets everything.  A press on a button answers, and so do Return
\* and Escape.
DialogPressed(p) ==
  /\ ask # NoAsk /\ ~button
  /\ button' = TRUE
  /\ \/ WM!Inside(p, frame[Dialog]) /\ Answer
     \/ Nothing
  /\ UNCHANGED menu

DialogReleased ==
  /\ ask # NoAsk /\ button
  /\ button' = FALSE
  /\ Nothing /\ UNCHANGED menu

DialogKey ==
  /\ ask # NoAsk
  /\ Answer
  /\ UNCHANGED <<menu, button>>

\* keymap_load, without which the program does not start.
Keys == KM!Loaded(KeyLines)

\* data/keys/default.keys can be read, and what a menu shows a shortcut of is bound
\* for the application or globally, to keys that nothing looked at before binds.
ASSUME KeysAssumption ==
  /\ Keys.ok
  /\ \A i \in DOMAIN Keys.entries :
       LET e == Keys.entries[i]
       IN /\ e.action # NoAction
          /\ (\E t \in DOMAIN Menus : \E m \in DOMAIN Menus[t] : Menus[t][m] = e.action) =>
               /\ e.scope \in {"global", "app"}
               /\ \A j \in DOMAIN Keys.entries \ {i} :
                    LET f == Keys.entries[j]
                    IN f.key = e.key /\ f.mods = e.mods =>
                         f.scope \notin {"list", "form", "global"}

\* The scopes in the order in which they hold: what has the focus, then the
\* application; keymap_lookup itself goes on to what is global.
ActionIn(inner, key, mods) ==
  LET action == KM!Lookup(Keys, key, mods, inner)
  IN IF action # NoAction THEN action ELSE KM!Lookup(Keys, key, mods, "app")

\* shell_handles, is_app_label.  Quitting is left out.
Handled ==
  Apps \union {"app.about", "window.close", "record.new", "record.save", "record.delete",
               "list.open", "form.accept", "form.cancel"}

ActionsIn ==
  [inner \in {"list", "form"} |->
     {ActionIn(inner, Keys.entries[i].key, Keys.entries[i].mods) : i \in DOMAIN Keys.entries}]

Inner == IF InForm THEN "form" ELSE "list"
Shortcuts == ActionsIn[Inner] \intersect Handled

\* A window without a browser gets the keys that are about records.
Mine(action) == NeedsBrowser(action) => HasBrowser(ActiveApp)

Shortcut(action) ==
  /\ ~Shielded
  /\ action \in Shortcuts /\ Mine(action)
  /\ RunAction(action)
  /\ UNCHANGED <<menu, button>>

\* A key the shell has no use for reaches an open menu.
MenuKeyActions ==
  [inner \in {"list", "form"} |->
     [k \in MB!MenuKeys |-> ActionIn(inner, IF k = "escape" THEN "esc" ELSE k, {})]]

KeyIsFree(k) ==
  LET action == MenuKeyActions[Inner][k]
  IN ~(action \in Handled /\ Mine(action))

MenuKey(k) ==
  /\ ~Shielded /\ menu.open # 0 /\ KeyIsFree(k)
  /\ menu' = MB!AfterKey(menu, k)
  /\ RunAction(MB!KeyAction(menu, k))
  /\ UNCHANGED button

\* With no menu open it reaches the content.
ContentKey ==
  /\ ~Shielded /\ menu.open = 0
  /\ HasBrowser(ActiveApp) /\ view[ActiveApp] = "list"
  /\ Select(ActiveApp)
  /\ UNCHANGED <<manager, win, view, grab, menu, ask, button>>

InContent(p) ==
  /\ ActiveApp # NoWindow
  /\ WM!Inside(p, frame[ActiveApp])
  /\ p[2] >= frame[ActiveApp].y + TitlebarH

\* A press in the content.  The scroll bar of a list ends above the grow box
\* and the list beside it; the month grid takes every press in its frame.
\* What a form or a script does with one depends on what is there.
MayTake(a, p) == KindOf[a] = "list" => ~WM!OnGrowBox(a, p)
MustTake(a, p) == MayTake(a, p) /\ KindOf[a] # "script" /\ view[a] = "list"

Grab(a, what) == grab' = [grab EXCEPT ![a] = @ \union {what}]

\* A click selects, a double click opens, the label of the month asks.
ContentPressed(a) ==
  \/ /\ HasBrowser(a) /\ view[a] = "list"
     /\ Select(a)
     /\ \/ UNCHANGED view
        \/ row'[a] # NoRow /\ view' = [view EXCEPT ![a] = "form"]
     /\ UNCHANGED <<manager, win, ask, grab>>
  \/ KindOf[a] = "month" /\ view[a] = "list" /\ Ask("month")
  \/ /\ (KindOf[a] = "list" /\ Grab(a, "bar")) \/ (view[a] = "form" /\ Grab(a, "field"))
     /\ UNCHANGED <<manager, win, view, row, ask>>
  \/ (view[a] = "form" \/ KindOf[a] = "script") /\ Nothing

\* wm_event; the callback runs when the close box was hit.
ManagerPressed(p) ==
  \/ \E w \in win :
       /\ WM!Down(w, p)
       /\ IF w \in Apps /\ WM!OnCloseBox(w, p) THEN OnWindowClosed(w)
          ELSE UNCHANGED <<win, content>>
       /\ UNCHANGED ask
  \/ (\A w \in win : ~WM!Hits(w, p)) /\ Nothing

Press(p) ==
  /\ ~Shielded /\ ~button
  /\ button' = TRUE
  /\ IF MB!DownTakes(menu, p)
     THEN menu' = MB!AfterDown(menu, p) /\ Nothing
     ELSE /\ UNCHANGED menu
          /\ \/ InContent(p) /\ MayTake(ActiveApp, p) /\ ContentPressed(ActiveApp)
             \/ ~(InContent(p) /\ MustTake(ActiveApp, p)) /\ ManagerPressed(p)

\* A text field may have lost the focus, and with it what follows.
ContentHolds(p) == InContent(p) /\ "bar" \in grab[ActiveApp]

MovePointer(p) ==
  /\ ~Shielded
  /\ IF MB!MoveTakes(menu, p)
     THEN menu' = MB!AfterMove(menu, p) /\ Nothing
     ELSE ~ContentHolds(p) /\ WM!Move(p) /\ UNCHANGED <<win, content, menu, ask>>
  /\ UNCHANGED button

\* The scroll bar is asked first; a script may take what it likes.
ContentReleased(p) ==
  /\ InContent(p)
  /\ grab[ActiveApp] # {} \/ KindOf[ActiveApp] = "script"
  /\ grab' = [grab EXCEPT ![ActiveApp] = IF "bar" \in @ THEN @ \ {"bar"} ELSE {}]
  /\ UNCHANGED <<manager, win, view, row, ask>>

ManagerReleased ==
  IF drag.kind = "none" THEN Nothing ELSE WM!Up /\ UNCHANGED <<win, content, ask>>

Release(p) ==
  /\ ~Shielded /\ button
  /\ button' = FALSE
  /\ IF MB!UpTakes(menu, p)
     THEN menu' = MB!AfterUp(menu, p) /\ RunAction(MB!UpAction(menu, p))
     ELSE /\ UNCHANGED menu
          /\ ContentReleased(p) \/ (~ContentHolds(p) /\ ManagerReleased)

Next ==
  \/ \E p \in WM!Points : DialogPressed(p) \/ Press(p) \/ MovePointer(p) \/ Release(p)
  \/ DialogReleased \/ DialogKey \/ ContentKey
  \/ \E action \in Shortcuts : Shortcut(action)
  \/ \E k \in MB!MenuKeys : MenuKey(k)

Spec == Init /\ [][Next]_vars

--------------------------------------------------------------------------------
(* Properties.                                                             *)

\* Whatever way a window goes, its application hears of it: a pointer is set
\* exactly while the window is open, so nothing is drawn into a freed one
\* (on_window_closed, and handbuch/src/03-bedienung.adoc:63-75).
PointersMatchWindows == \A a \in Apps : a \in win <=> WM!IsOpen(a)

\* A dialog is open exactly while a question stands, it is the frontmost
\* window, and right behind it is the window the question came from: the
\* answer is carried out there, and that window comes back to the front.
DialogLiesOverItsApp ==
  /\ ask # NoAsk <=> WM!IsOpen(Dialog)
  /\ ask # NoAsk =>
       /\ z[Len(z)] = Dialog
       /\ ask.app = IF Len(z) = 1 THEN NoWindow ELSE z[Len(z) - 1]

\* Between the question and the answer the selection stays on the record that
\* was asked about: "yes" deletes this record and no other (finish_ask asks
\* the browser again what is selected).
QuestionStaysTrue ==
  ask # NoAsk /\ ask.kind = "delete" =>
    /\ HasBrowser(ask.app)
    /\ ask.row # NoRow /\ row[ask.app] = ask.row

\* clamp_move lets title bars up to the edge of the screen, where the menu bar
\* covers them.  Since the menu bar keeps the mouse for itself, every
\* application's title bar still shows at least one line below it.
TitlebarShowsBelowMenubar == \A a \in win : frame[a].y + TitlebarH > MenubarH

ShownWorks ==
  [inner \in {"list", "form"} |->
     \A t \in DOMAIN Menus : \A i \in DOMAIN Menus[t] :
       LET shown == KM!Describe(Keys, Menus[t][i])
           s == KM!ParseShortcut(shown)
       IN shown # <<>> => s.ok /\ ActionIn(inner, s.key, s.mods) = Menus[t][i]]

\* The menus show the shortcuts of the file that is in force, and who presses what
\* is shown gets what it is shown for ("Die Menüs zeigen die Kürzel aus genau
\* dieser Datei an", data/keys/default.keys:18): in a list and in a form with the
\* file of the program, and within one scope with any file that can be read - one
\* that binds the same key globally and for the application would break it.  The
\* sample files are looked at once, in the beginning.
MenuShowsWhatKeysDo ==
  /\ ShownWorks[Inner]
  /\ Init => \A lines \in SampleKeys :
         KM!Loaded(lines).ok => KM!ShownIsPressed(KM!Loaded(lines))

\* Each event is at most one step of the window manager, those that open and
\* answer questions included; this is WM!Spec, with the idle steps first.
KeepsWindowManager == WM!Init /\ [][UNCHANGED manager \/ WM!Next]_manager

\* A drag ends when the button is released ("Das Fenster springt erst an
\* seine neue Stelle, wenn du die Maustaste loslässt").
DragNeedsButton == drag.kind # "none" => button
================================================================================
