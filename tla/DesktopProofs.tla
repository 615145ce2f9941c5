----------------------------- MODULE DesktopProofs -----------------------------
(***************************************************************************)
(* What TLAPS proves of Desktop for every set of applications, every menu  *)
(* and every screen: its steps are steps of the window manager, so that    *)
(* what WindowManagerProofs says holds here; pointers and windows agree; a *)
(* dialog lies over the application it was opened for and its question     *)
(* stays true; title bars show below the menu bar; what the menus show for *)
(* an action is what has to be pressed for it.                             *)
(***************************************************************************)
EXTENDS Desktop, TLAPS, SequenceTheorems

Windows == Apps \union {Dialog}
FirstFrames == AppFrames \union DialogFrames

WP == INSTANCE WindowManagerProofs

--------------------------------------------------------------------------------
(* The window manager of Desktop is the one WindowManagerProofs is about.  *)

LEMMA ManagerAssumptions ==
  WP!ScreenAssumption /\ WP!WindowAssumption /\ WP!FirstFramesAssumption
  <1>1. WP!ScreenAssumption
    BY ManagerAssumption DEF WM!ScreenAssumption, WP!ScreenAssumption
  <1>2. WP!FirstFramesAssumption
    BY ManagerAssumption
    DEF WM!FirstFramesAssumption, WP!FirstFramesAssumption, WM!Frames, WP!Frames,
        FirstFrames
  <1>3. WP!WindowAssumption
    BY AppsAssumption DEF WP!WindowAssumption, Windows, Flags
  <1> QED
    BY <1>1, <1>2, <1>3

LEMMA SameLists ==
  /\ \A s, w : WM!Holds(s, w) <=> WP!Holds(s, w)
  /\ \A s, w : WM!Without(s, w) = WP!Without(s, w)
  /\ \A s, w : WM!Raised(s, w) = WP!Raised(s, w)
  /\ \A s, w : WM!IndexOf(s, w) = WP!IndexOf(s, w)
  /\ \A s : WM!Top(s) = WP!Top(s)
  /\ \A w : WM!IsOpen(w) <=> WP!IsOpen(w)
  BY Zenon DEF WM!Holds, WP!Holds, WM!Without, WP!Without, WM!Raised, WP!Raised,
    WM!IndexOf, WP!IndexOf, WM!Top, WP!Top, WM!IsOpen, WP!IsOpen

LEMMA SameInit == WM!Init <=> WP!Init
  BY Zenon DEF WM!Init, WP!Init, Windows, WM!NoDrag, WP!NoDrag, WM!NoFrame, WP!NoFrame

LEMMA SameNext == WM!Next <=> WP!Next
  BY Zenon DEF WM!Next, WP!Next, WM!Open, WP!Open, WM!Close, WP!Close,
    WM!Activate, WP!Activate, WM!Down, WP!Down, WM!Move, WP!Move, WM!Up, WP!Up,
    WM!IsOpen, WP!IsOpen, WM!Holds, WP!Holds, WM!Activated, WP!Activated,
    WM!CloseIn, WP!CloseIn, WM!Raised, WP!Raised, WM!IndexOf, WP!IndexOf,
    WM!Without, WP!Without, WM!Top, WP!Top, WM!Hits, WP!Hits,
    WM!Reachable, WP!Reachable, WM!ModalOpen, WP!ModalOpen, WM!Modal, WP!Modal,
    WM!IsModal, WP!IsModal, WM!Inside, WP!Inside, WM!OnCloseBox, WP!OnCloseBox,
    WM!OnTitlebar, WP!OnTitlebar, WM!OnGrowBox, WP!OnGrowBox,
    WM!BeginDrag, WP!BeginDrag, WM!NoDrag, WP!NoDrag, WM!NoFrame, WP!NoFrame,
    WM!Moved, WP!Moved, WM!Resized, WP!Resized, WM!Clamp, WP!Clamp,
    WM!AtLeast, WP!AtLeast, WM!SameSize, WP!SameSize, WM!Points, WP!Points,
    Windows, FirstFrames

\* What WindowManagerProofs proves inductive stays true under a step of WM.
LEMMA ManagerStep ==
  WP!IInv /\ (WM!Next \/ UNCHANGED manager) => WP!IInv'
  BY ManagerAssumptions, SameNext, WP!Step DEF WP!vars, manager

LEMMA ManagerStart == WM!Init => WP!IInv
  BY ManagerAssumptions, SameInit, WP!Start

--------------------------------------------------------------------------------
(* The z-list.                                                             *)

LEMMA RaisedHolds ==
  ASSUME NEW s \in Seq(Windows), NEW w, WM!Holds(s, w), WP!Distinct(s)
  PROVE  \A v : WM!Holds(WM!Raised(s, w), v) <=> WM!Holds(s, v)
  BY ManagerAssumptions, SameLists, WP!RaisedReorders

LEMMA WithoutHolds ==
  ASSUME NEW s \in Seq(Windows), NEW w, WM!Holds(s, w), WP!Distinct(s)
  PROVE  \A v : WM!Holds(WM!Without(s, w), v) <=> WM!Holds(s, v) /\ v # w
  BY ManagerAssumptions, SameLists, WP!WithoutRemoves

\* A new window is last, and the others stay where they are.
LEMMA RaisedAppended ==
  ASSUME NEW s \in Seq(Windows), NEW w \in Windows, ~WM!Holds(s, w)
  PROVE  WM!Raised(Append(s, w), w) = Append(s, w)
  <1> DEFINE t == Append(s, w)
  <1>1. /\ t \in Seq(Windows) /\ Len(t) = Len(s) + 1 /\ Len(s) \in Nat
        /\ \A i \in 1 .. Len(s) : t[i] = s[i]
        /\ t[Len(t)] = w
        /\ DOMAIN t = 1 .. Len(t)
    OBVIOUS
  <1> HIDE DEF t
  <1>2. \A i \in 1 .. Len(t) : t[i] = w => i = Len(t)
    BY <1>1 DEF WM!Holds
  <1>3. WM!IndexOf(t, w) = Len(t)
    BY <1>1, <1>2 DEF WM!IndexOf
  <1>4. t = [i \in 1 .. Len(t) |-> t[i]]
    BY <1>1
  <1>5. WM!Raised(t, w) = [i \in 1 .. Len(t) |-> t[i]]
    BY <1>1, <1>3 DEF WM!Raised
  <1> QED
    BY <1>4, <1>5 DEF t

\* The frontmost window is there already.
LEMMA RaisedLast ==
  ASSUME NEW s \in Seq(Windows), WP!Distinct(s), s # <<>>
  PROVE  WM!Raised(s, s[Len(s)]) = s
  <1> DEFINE w == s[Len(s)]
  <1>1. Len(s) \in Nat /\ Len(s) \in 1 .. Len(s) /\ DOMAIN s = 1 .. Len(s)
    <2>1. Len(s) \in Nat /\ Len(s) # 0 /\ DOMAIN s = 1 .. Len(s)
      BY s # <<>>, EmptySeq, LenProperties, Zenon
    <2> QED
      BY <2>1
  <1>2. \A i \in 1 .. Len(s) : s[i] = w => i = Len(s)
    <2>1. \A i, j \in 1 .. Len(s) : s[i] = s[j] => i = j
      BY WP!Distinct(s) DEF WP!Distinct
    <2> QED
      BY <1>1, <2>1
  <1>3. WM!IndexOf(s, w) = Len(s)
    <2>1. Len(s) \in 1 .. Len(s) /\ s[Len(s)] = w
      BY <1>1
    <2> HIDE DEF w
    <2> QED
      BY <1>2, <2>1 DEF WM!IndexOf
  <1>4. WM!Raised(s, w) = [i \in 1 .. Len(s) |-> s[i]]
    BY <1>1, <1>3 DEF WM!Raised
  <1> QED
    BY <1>1, <1>4

\* Without its last window the z-list ends with the one behind it.
LEMMA WithoutLast ==
  ASSUME NEW s \in Seq(Windows), WP!Distinct(s), s # <<>>
  PROVE  LET t == WM!Without(s, s[Len(s)])
         IN  /\ t \in Seq(Windows) /\ Len(t) = Len(s) - 1 /\ WP!Distinct(t)
             /\ \A i \in 1 .. Len(t) : t[i] = s[i]
  <1> DEFINE w == s[Len(s)]
             t == WM!Without(s, w)
  <1>1. Len(s) \in Nat /\ Len(s) \in 1 .. Len(s) /\ DOMAIN s = 1 .. Len(s)
    <2>1. Len(s) \in Nat /\ Len(s) # 0 /\ DOMAIN s = 1 .. Len(s)
      BY s # <<>>, EmptySeq, LenProperties, Zenon
    <2> QED
      BY <2>1
  <1>2. \A i \in 1 .. Len(s) : s[i] = w => i = Len(s)
    <2>1. \A i, j \in 1 .. Len(s) : s[i] = s[j] => i = j
      BY WP!Distinct(s) DEF WP!Distinct
    <2> QED
      BY <1>1, <2>1
  <1>3. WM!IndexOf(s, w) = Len(s) /\ WP!Holds(s, w)
    <2>1. Len(s) \in 1 .. Len(s) /\ s[Len(s)] = w
      BY <1>1
    <2> HIDE DEF w
    <2> QED
      BY <1>2, <2>1 DEF WM!IndexOf, WP!Holds
  <1>4. t \in Seq(Windows) /\ Len(t) = Len(s) - 1 /\ WP!Distinct(t)
    BY <1>3, ManagerAssumptions, SameLists, WP!WithoutRemoves
  <1>5. \A i \in 1 .. Len(t) : t[i] = s[i]
    BY <1>1, <1>3, <1>4 DEF WM!Without
  <1> QED
    BY <1>4, <1>5

--------------------------------------------------------------------------------
(* What an event does to the windows, their pointers and the question.     *)

RowsFit == row \in [Apps -> Rows \union {NoRow}]

Keeps == UNCHANGED <<manager, win, ask>> /\ (ask # NoAsk => UNCHANGED row)

Opens == \E a \in Apps, f \in AppFrames :
  ask = NoAsk /\ WM!Open(a, f) /\ win' = win \union {a} /\ UNCHANGED ask

Raises == \E a \in win :
  ask = NoAsk /\ WM!Activate(a) /\ UNCHANGED <<win, ask>>

Closes == \E a \in win :
  ask = NoAsk /\ WM!Close(a) /\ win' = win \ {a} /\ UNCHANGED ask

Asks == \E kind \in {"about", "delete", "month"}, f \in DialogFrames :
  /\ ask = NoAsk /\ ask' = AskOf(kind)
  /\ kind = "delete" => HasBrowser(ActiveApp) /\ row[ActiveApp] # NoRow
  /\ WM!Open(Dialog, f) /\ UNCHANGED <<win, row>>

Answers == ask # NoAsk /\ \E result \in {0, 1} : FinishAsk(result)

Clicks == \E w \in win, p \in WM!Points :
  /\ ask = NoAsk /\ ~MB!InBar(p)
  /\ WM!Down(w, p)
  /\ win' = IF WM!OnCloseBox(w, p) THEN win \ {w} ELSE win
  /\ UNCHANGED ask

Drags == \E p \in WM!Points :
  ask = NoAsk /\ ~MB!InBar(p) /\ WM!Move(p) /\ UNCHANGED <<win, ask>>

Drops == ask = NoAsk /\ WM!Up /\ UNCHANGED <<win, ask>>

Effect ==
  \/ Keeps \/ Opens \/ Raises \/ Closes \/ Asks \/ Answers \/ Clicks \/ Drags \/ Drops

LEMMA ActiveAppType == ActiveApp \in win \/ ActiveApp = NoWindow
  BY DEF ActiveApp

LEMMA NothingEffect ==
  ASSUME RowsFit, Nothing PROVE Effect /\ RowsFit'
  BY DEF Nothing, content, RowsFit, Effect, Keeps

LEMMA AskEffect ==
  ASSUME RowsFit, ask = NoAsk, NEW kind \in {"about", "delete", "month"}, Ask(kind),
         kind = "delete" => HasBrowser(ActiveApp) /\ row[ActiveApp] # NoRow
  PROVE  Effect /\ RowsFit'
  <1>1. Asks
    BY kind = "delete" => HasBrowser(ActiveApp) /\ row[ActiveApp] # NoRow
    DEF Ask, Asks, content
  <1>2. RowsFit'
    BY DEF Ask, content, RowsFit
  <1> QED
    BY <1>1, <1>2 DEF Effect

LEMMA SelectFits ==
  ASSUME RowsFit, NEW a \in Apps, Select(a)
  PROVE  RowsFit'
  BY DEF Select, RowsFit

LEMMA ClosedFits ==
  ASSUME RowsFit, NEW a \in Apps, OnWindowClosed(a)
  PROVE  RowsFit'
  BY DEF OnWindowClosed, RowsFit

LEMMA OpenAppEffect ==
  ASSUME RowsFit, ask = NoAsk, NEW a \in Apps, OpenApp(a)
  PROVE  Effect /\ RowsFit'
  <1>1. CASE a \in win
    <2>1. Raises /\ RowsFit'
      BY <1>1 DEF OpenApp, Raises, content, RowsFit
    <2> QED
      BY <2>1 DEF Effect
  <1>2. CASE a \notin win
    <2>1. Opens /\ RowsFit'
      BY <1>2 DEF OpenApp, Opens, RowsFit
    <2> QED
      BY <2>1 DEF Effect
  <1> QED
    BY <1>1, <1>2

LEMMA RunActionEffect ==
  ASSUME win \subseteq Apps, RowsFit, ask = NoAsk, NEW action, RunAction(action)
  PROVE  Effect /\ RowsFit'
  <1>1. \/ Ask("about")
        \/ action \in Apps /\ OpenApp(action)
        \/ ActiveApp # NoWindow /\ CloseActive
        \/ HasBrowser(ActiveApp) /\ row[ActiveApp] # NoRow /\ Ask("delete")
        \/ /\ NeedsBrowser(action) /\ action # "record.delete" /\ HasBrowser(ActiveApp)
           /\ InBrowser(action, ActiveApp) /\ UNCHANGED <<manager, win, ask>>
        \/ Nothing
    BY DEF RunAction
  <1>2. CASE Ask("about")
    BY <1>2, AskEffect
  <1>3. CASE action \in Apps /\ OpenApp(action)
    BY <1>3, OpenAppEffect
  <1>4. CASE ActiveApp # NoWindow /\ CloseActive
    <2>1. ActiveApp \in win /\ ActiveApp \in Apps
      BY <1>4, ActiveAppType
    <2>2. Closes
      BY <1>4, <2>1 DEF CloseActive, Closes, OnWindowClosed
    <2>3. RowsFit'
      BY <1>4, <2>1, ClosedFits DEF CloseActive
    <2> QED
      BY <2>2, <2>3 DEF Effect
  <1>5. CASE HasBrowser(ActiveApp) /\ row[ActiveApp] # NoRow /\ Ask("delete")
    BY <1>5, AskEffect
  <1>6. CASE /\ NeedsBrowser(action) /\ action # "record.delete" /\ HasBrowser(ActiveApp)
             /\ InBrowser(action, ActiveApp) /\ UNCHANGED <<manager, win, ask>>
    <2>1. ActiveApp \in Apps
      BY <1>6 DEF HasBrowser
    <2>2. UNCHANGED row \/ Select(ActiveApp)
      BY <1>6 DEF NeedsBrowser, InBrowser, SaveForm, OpenRecord, content
    <2>3. RowsFit'
      BY <2>1, <2>2, SelectFits DEF RowsFit
    <2> QED
      BY <1>6, <2>3 DEF Effect, Keeps
  <1>7. CASE Nothing
    BY <1>7, NothingEffect
  <1> QED
    BY <1>1, <1>2, <1>3, <1>4, <1>5, <1>6, <1>7

LEMMA AnswerEffect ==
  ASSUME win \subseteq Apps, RowsFit, ask # NoAsk, Answer
  PROVE  Effect /\ RowsFit'
  <1> PICK result \in {0, 1} : FinishAsk(result)
    BY DEF Answer, Results
  <1>1. UNCHANGED row \/ (HasBrowser(ask.app) /\ Select(ask.app))
    BY DEF FinishAsk, Do
  <1>2. RowsFit'
    BY <1>1, SelectFits DEF HasBrowser, RowsFit
  <1> QED
    BY <1>2 DEF Effect, Answers

LEMMA PressEffect ==
  ASSUME win \subseteq Apps, RowsFit, NEW p \in WM!Points, Press(p)
  PROVE  Effect /\ RowsFit'
  <1>0. ask = NoAsk
    BY DEF Press, Shielded
  <1>1. CASE MB!DownTakes(menu, p)
    BY <1>1, NothingEffect DEF Press
  <1>2. CASE InContent(p) /\ ContentPressed(ActiveApp)
    <2> DEFINE a == ActiveApp
    <2>1. a \in win /\ a \in Apps
      BY <1>2, ActiveAppType DEF InContent
    <2>2. CASE Select(a) /\ UNCHANGED <<manager, win, ask, grab>>
      BY <1>0, <2>1, <2>2, SelectFits DEF Effect, Keeps
    <2>3. CASE Ask("month")
      BY <1>0, <2>3, AskEffect
    <2>4. CASE UNCHANGED <<manager, win, view, row, ask>>
      BY <2>4 DEF Effect, Keeps, RowsFit
    <2>5. CASE Nothing
      BY <2>5, NothingEffect
    <2> QED
      BY <2>4, <2>5, <1>2, <2>2, <2>3 DEF ContentPressed
  <1>3. CASE ~MB!DownTakes(menu, p) /\ ManagerPressed(p)
    <2>1. CASE Nothing
      BY <2>1, NothingEffect
    <2>2. ASSUME NEW w \in win, WM!Down(w, p), UNCHANGED ask,
                 IF w \in Apps /\ WM!OnCloseBox(w, p) THEN OnWindowClosed(w)
                 ELSE UNCHANGED <<win, content>>
          PROVE  Effect /\ RowsFit'
      <3>1. ~MB!InBar(p)
        BY <1>3 DEF MB!DownTakes
      <3>2. win' = IF WM!OnCloseBox(w, p) THEN win \ {w} ELSE win
        BY <2>2 DEF OnWindowClosed
      <3>3. Clicks
        BY <1>0, <2>2, <3>1, <3>2 DEF Clicks
      <3>4. RowsFit'
        BY <2>2, ClosedFits DEF content, RowsFit
      <3> QED
        BY <3>3, <3>4 DEF Effect
    <2> QED
      BY <1>3, <2>1, <2>2 DEF ManagerPressed
  <1> QED
    BY <1>1, <1>2, <1>3 DEF Press

LEMMA Effects ==
  ASSUME win \subseteq Apps, RowsFit, Next
  PROVE  Effect /\ RowsFit'
  <1>1. ASSUME NEW p \in WM!Points, DialogPressed(p) PROVE Effect /\ RowsFit'
    BY <1>1, AnswerEffect, NothingEffect DEF DialogPressed
  <1>2. ASSUME NEW p \in WM!Points, Press(p) PROVE Effect /\ RowsFit'
    BY <1>2, PressEffect
  <1>3. ASSUME NEW p \in WM!Points, MovePointer(p) PROVE Effect /\ RowsFit'
    <2>1. CASE MB!MoveTakes(menu, p)
      BY <1>3, <2>1, NothingEffect DEF MovePointer
    <2>2. CASE ~MB!MoveTakes(menu, p)
      <3>1. Drags /\ RowsFit'
        BY <1>3, <2>2 DEF MovePointer, Shielded, Drags, MB!MoveTakes, content, RowsFit
      <3> QED
        BY <3>1 DEF Effect
    <2> QED
      BY <2>1, <2>2
  <1>4. ASSUME NEW p \in WM!Points, Release(p) PROVE Effect /\ RowsFit'
    <2>0. ask = NoAsk
      BY <1>4 DEF Release, Shielded
    <2>1. CASE MB!UpTakes(menu, p)
      BY <1>4, <2>0, <2>1, RunActionEffect DEF Release
    <2>2. CASE ContentReleased(p)
      BY <2>0, <2>2 DEF ContentReleased, Effect, Keeps, RowsFit
    <2>3. CASE ManagerReleased
      <3>1. Nothing \/ (WM!Up /\ UNCHANGED <<win, content, ask>>)
        BY <2>3 DEF ManagerReleased
      <3> QED
        BY <2>0, <3>1, NothingEffect DEF Effect, Drops, content, RowsFit
    <2> QED
      BY <1>4, <2>1, <2>2, <2>3 DEF Release
  <1>5. CASE DialogReleased
    BY <1>5, NothingEffect DEF DialogReleased
  <1>6. CASE DialogKey
    BY <1>6, AnswerEffect DEF DialogKey
  <1>7. CASE ContentKey
    <2>1. ask = NoAsk /\ ActiveApp \in Apps /\ Select(ActiveApp)
      BY <1>7 DEF ContentKey, Shielded, HasBrowser
    <2> QED
      BY <1>7, <2>1, SelectFits DEF ContentKey, Effect, Keeps
  <1>8. ASSUME NEW action, Shortcut(action) PROVE Effect /\ RowsFit'
    BY <1>8, RunActionEffect DEF Shortcut, Shielded
  <1>9. ASSUME NEW k, MenuKey(k) PROVE Effect /\ RowsFit'
    BY <1>9, RunActionEffect DEF MenuKey, Shielded
  <1> QED
    BY <1>1, <1>2, <1>3, <1>4, <1>5, <1>6, <1>7, <1>8, <1>9 DEF Next

--------------------------------------------------------------------------------
(* The inductive invariant.                                                *)

\* The release of a drag puts the frame where its outline is: so the outline
\* shows below the menu bar too, and a move was begun in the title bar.
OutlineShows ==
  drag.kind # "none" =>
    /\ drag.outline.y + TitlebarH > MenubarH
    /\ drag.kind = "move" => drag.anchor[2] < drag.start.y + TitlebarH

DesktopInv ==
  /\ WP!IInv
  /\ win \subseteq Apps /\ RowsFit
  /\ PointersMatchWindows
  /\ DialogLiesOverItsApp
  /\ QuestionStaysTrue
  /\ TitlebarShowsBelowMenubar /\ OutlineShows

LEMMA ManagerFacts ==
  ASSUME WP!IInv
  PROVE  /\ z \in Seq(Windows) /\ WP!Distinct(z) /\ active = WM!Top(z)
         /\ \A w : WM!Holds(z, w) => w \in Windows
         /\ frame \in [Windows -> WP!Frames]
         /\ drag \in [kind : WP!Kinds, win : Windows \union {NoWindow},
                      anchor : Int \X Int, start : WP!Frames, outline : WP!Frames]
         /\ drag.kind # "none" =>
              /\ WM!IsOpen(drag.win) /\ drag.start = frame[drag.win]
              /\ drag.win # Dialog
  <1>1. /\ z \in Seq(Windows) /\ WP!Distinct(z) /\ active = WM!Top(z)
        /\ frame \in [Windows -> WP!Frames]
        /\ drag \in [kind : WP!Kinds, win : Windows \union {NoWindow},
                     anchor : Int \X Int, start : WP!Frames, outline : WP!Frames]
    BY SameLists DEF WP!IInv, WP!TypeOK, WP!ActiveIsOnTop
  <1>2. \A w : WM!Holds(z, w) => w \in Windows
    BY <1>1, ElementOfSeq DEF WM!Holds
  <1>3. ASSUME drag.kind # "none"
        PROVE  WM!IsOpen(drag.win) /\ drag.start = frame[drag.win]
               /\ (IF drag.kind = "move" THEN "movable" ELSE "resizable") \in Flags[drag.win]
    BY <1>3, SameLists DEF WP!IInv, WP!DragHasWindow
  <1>4. "movable" \notin Flags[Dialog] /\ "resizable" \notin Flags[Dialog]
    BY DEF Flags
  <1> QED
    BY <1>1, <1>2, <1>3, <1>4

\* The answer closes the dialog and nothing else: the window behind it is the
\* frontmost one already.
LEMMA AnswersClose ==
  ASSUME DesktopInv, Answers
  PROVE  WM!Close(Dialog) /\ UNCHANGED win /\ ask' = NoAsk
  <1> PICK result \in {0, 1} : FinishAsk(result)
    BY DEF Answers
  <1> DEFINE rest == WM!Without(z, Dialog)
  <1>1. z \in Seq(Windows) /\ WP!Distinct(z) /\ active = WM!Top(z)
    BY ManagerFacts DEF DesktopInv
  <1>2. /\ WM!IsOpen(Dialog) /\ z[Len(z)] = Dialog
        /\ ask.app = IF Len(z) = 1 THEN NoWindow ELSE z[Len(z) - 1]
    BY DEF Answers, DesktopInv, DialogLiesOverItsApp
  <1>3. z # <<>> /\ Len(z) \in Nat /\ Len(z) > 0
    BY <1>1, <1>2, EmptySeq, LenProperties DEF WM!IsOpen, WM!Holds
  <1>4. Dialog \in active
    BY <1>1, <1>2, <1>3 DEF WM!Top
  <1>5. /\ rest \in Seq(Windows) /\ Len(rest) = Len(z) - 1 /\ WP!Distinct(rest)
        /\ \A i \in 1 .. Len(rest) : rest[i] = z[i]
    BY <1>1, <1>2, <1>3, WithoutLast
  <1>6. z' = rest /\ active' = WM!Top(rest)
    <2>1. CASE ask.app \notin win
      BY <2>1 DEF FinishAsk
    <2>2. CASE ask.app \in win
      <3>1. Len(z) # 1
        BY <2>2, <1>2, AppsAssumption DEF DesktopInv
      <3>2. rest # <<>> /\ rest[Len(rest)] = ask.app
        BY <1>2, <1>3, <1>5, <3>1, EmptySeq
      <3>3. WM!Raised(rest, ask.app) = rest
        BY <1>5, <3>2, RaisedLast
      <3>4. z' = WM!Raised(rest, ask.app) /\ active' = {ask.app}
        BY <2>2 DEF FinishAsk
      <3> QED
        BY <3>2, <3>3, <3>4 DEF WM!Top
    <2> QED
      BY <2>1, <2>2
  <1>7. /\ frame' = [frame EXCEPT ![Dialog] = WM!NoFrame]
        /\ drag' = IF drag.win = Dialog THEN WM!NoDrag ELSE drag
        /\ by' = "app" /\ ask' = NoAsk /\ win' = win
    BY DEF FinishAsk
  <1> QED
    BY <1>2, <1>4, <1>6, <1>7 DEF WM!Close, WM!CloseIn

\* Every event is at most one step of the window manager.
LEMMA ManagerKept ==
  ASSUME DesktopInv, Effect
  PROVE  UNCHANGED manager \/ WM!Next
  <1>1. CASE Keeps
    BY <1>1 DEF Keeps
  <1>2. CASE Opens
    BY <1>2, Zenon DEF Opens, WM!Next
  <1>3. CASE Raises
    BY <1>3 DEF Raises, WM!Next, DesktopInv
  <1>4. CASE Closes
    BY <1>4 DEF Closes, WM!Next, DesktopInv
  <1>5. CASE Asks
    BY <1>5, Zenon DEF Asks, WM!Next
  <1>6. CASE Answers
    BY <1>6, AnswersClose DEF WM!Next
  <1>7. CASE Clicks
    BY <1>7 DEF Clicks, WM!Next, DesktopInv
  <1>8. CASE Drags
    BY <1>8 DEF Drags, WM!Next
  <1>9. CASE Drops
    BY <1>9 DEF Drops, WM!Next
  <1> QED
    BY <1>1, <1>2, <1>3, <1>4, <1>5, <1>6, <1>7, <1>8, <1>9 DEF Effect

--------------------------------------------------------------------------------
(* Which windows are open after an event.                                  *)

LEMMA OpenedList ==
  ASSUME DesktopInv, NEW w \in Windows, NEW f, WM!Open(w, f)
  PROVE  /\ z' = Append(z, w)
         /\ \A v : WM!Holds(z', v) <=> WM!Holds(z, v) \/ v = w
  <1>1. z \in Seq(Windows) /\ WP!Distinct(z) /\ ~WM!Holds(z, w)
    BY ManagerFacts DEF DesktopInv, WM!Open, WM!IsOpen
  <1>2. z' = Append(z, w)
    BY <1>1, RaisedAppended DEF WM!Open, WM!Activated
  <1>3. \A v : WM!Holds(Append(z, w), v) <=> WM!Holds(z, v) \/ v = w
    BY <1>1, ManagerAssumptions, SameLists, WP!AppendedReorders
  <1> QED
    BY <1>2, <1>3

LEMMA RaisedList ==
  ASSUME DesktopInv, NEW w, WM!Holds(z, w), z' = WM!Raised(z, w)
  PROVE  \A v : WM!Holds(z', v) <=> WM!Holds(z, v)
  <1>1. z \in Seq(Windows) /\ WP!Distinct(z)
    BY ManagerFacts DEF DesktopInv
  <1> QED
    BY <1>1, RaisedHolds

LEMMA ClosedList ==
  ASSUME DesktopInv, NEW w, WM!Close(w)
  PROVE  \A v : WM!Holds(z', v) <=> WM!Holds(z, v) /\ v # w
  <1>1. z \in Seq(Windows) /\ WP!Distinct(z)
    BY ManagerFacts DEF DesktopInv
  <1> QED
    BY <1>1, WithoutHolds DEF WM!Close, WM!CloseIn, WM!IsOpen

LEMMA ClickedList ==
  ASSUME DesktopInv, NEW w \in win, NEW p \in WM!Points, WM!Down(w, p)
  PROVE  \A v : WM!Holds(z', v) <=>
                  WM!Holds(z, v) /\ (WM!OnCloseBox(w, p) => v # w)
  <1>1. z \in Seq(Windows) /\ WP!Distinct(z) /\ WM!Holds(z, w)
    BY ManagerFacts DEF DesktopInv, WM!Down, WM!Hits, WM!Holds
  <1>2. \A v : WM!Holds(WM!Raised(z, w), v) <=> WM!Holds(z, v)
    BY <1>1, RaisedHolds
  <1>3. CASE ~WM!OnCloseBox(w, p)
    BY <1>2, <1>3 DEF WM!Down, WM!Activated
  <1>4. CASE WM!OnCloseBox(w, p)
    <2>1. z' = WM!Without(WM!Raised(z, w), w)
      BY <1>4 DEF WM!Down, WM!CloseIn
    <2>2. WM!Raised(z, w) \in Seq(Windows) /\ WP!Distinct(WM!Raised(z, w))
      BY <1>1, ManagerAssumptions, SameLists, WP!RaisedReorders
    <2> QED
      BY <1>1, <1>2, <1>4, <2>1, <2>2, WithoutHolds
  <1> QED
    BY <1>3, <1>4

\* A pointer changes with its window.
LEMMA PointersKept ==
  ASSUME DesktopInv, Effect
  PROVE  PointersMatchWindows' /\ win' \subseteq Apps
  <1> USE DEF PointersMatchWindows, WM!IsOpen
  <1>0. win \subseteq Apps /\ \A a \in Apps : a \in win <=> WM!Holds(z, a)
    BY DEF DesktopInv
  <1>1. CASE Keeps
    BY <1>0, <1>1 DEF Keeps, manager
  <1>2. CASE Opens
    BY <1>0, <1>2, OpenedList DEF Opens, Windows
  <1>3. CASE Raises
    <2> PICK a \in win : WM!Activate(a) /\ UNCHANGED win
      BY <1>3 DEF Raises
    <2>1. \A v : WM!Holds(z', v) <=> WM!Holds(z, v)
      BY RaisedList DEF WM!Activate, WM!Activated
    <2> QED
      BY <1>0, <2>1
  <1>4. CASE Closes
    BY <1>0, <1>4, ClosedList DEF Closes
  <1>5. CASE Asks
    BY <1>0, <1>5, OpenedList, AppsAssumption DEF Asks, Windows
  <1>6. CASE Answers
    BY <1>0, <1>6, AnswersClose, ClosedList, AppsAssumption
  <1>7. CASE Clicks
    BY <1>0, <1>7, ClickedList DEF Clicks
  <1>8. CASE Drags
    BY <1>0, <1>8 DEF Drags, WM!Move
  <1>9. CASE Drops
    BY <1>0, <1>9 DEF Drops, WM!Up
  <1> QED
    BY <1>1, <1>2, <1>3, <1>4, <1>5, <1>6, <1>7, <1>8, <1>9 DEF Effect

\* A question stands exactly while the dialog is open, over its application.
LEMMA DialogKept ==
  ASSUME DesktopInv, Effect
  PROVE  DialogLiesOverItsApp'
  <1> USE DEF WM!IsOpen
  <1>0. DialogLiesOverItsApp /\ Dialog \notin win
    BY AppsAssumption DEF DesktopInv
  <1>1. CASE Keeps
    BY <1>0, <1>1 DEF Keeps, manager, DialogLiesOverItsApp
  <1>2. ASSUME ask = NoAsk, UNCHANGED ask, ~WM!Holds(z, Dialog) => ~WM!Holds(z', Dialog)
        PROVE  DialogLiesOverItsApp'
    BY <1>0, <1>2 DEF DialogLiesOverItsApp
  <1>3. CASE Opens
    BY <1>2, <1>3, OpenedList, AppsAssumption DEF Opens, Windows
  <1>4. CASE Raises
    <2> PICK a \in win : ask = NoAsk /\ WM!Activate(a) /\ UNCHANGED ask
      BY <1>4 DEF Raises
    <2>1. \A v : WM!Holds(z', v) <=> WM!Holds(z, v)
      BY RaisedList DEF WM!Activate, WM!Activated
    <2> QED
      BY <1>2, <2>1
  <1>5. CASE Closes
    BY <1>2, <1>5, ClosedList DEF Closes
  <1>6. CASE Asks
    <2> PICK kind \in {"about", "delete", "month"}, f \in DialogFrames :
               /\ ask = NoAsk /\ ask' = AskOf(kind)
               /\ kind = "delete" => HasBrowser(ActiveApp)
               /\ WM!Open(Dialog, f) /\ UNCHANGED <<win, row>>
      BY <1>6 DEF Asks
    <2>1. /\ z' = Append(z, Dialog) /\ WM!Holds(z', Dialog)
          /\ z \in Seq(Windows) /\ \A w : WM!Holds(z, w) => w \in Windows
      BY OpenedList, ManagerFacts DEF Windows, DesktopInv
    <2>2. /\ Len(z) \in Nat /\ Len(z') = Len(z) + 1 /\ z'[Len(z')] = Dialog
          /\ \A i \in 1 .. Len(z) : z'[i] = z[i]
      BY <2>1
    <2>3. ask'.app = ActiveApp /\ ask' # NoAsk
      <3>1. ActiveApp \in Apps \union {NoWindow}
        BY ActiveAppType DEF DesktopInv
      <3>2. (IF kind = "delete" THEN row[ActiveApp] ELSE NoRow) \in Rows \union {NoRow}
        BY DEF HasBrowser, DesktopInv, RowsFit
      <3> QED
        BY <3>1, <3>2, QuestionsAssumption DEF AskOf, Questions
    <2>4. ActiveApp = IF Len(z) = 0 THEN NoWindow ELSE z[Len(z)]
      <3>1. CASE Len(z) = 0
        BY <2>1, <3>1, EmptySeq DEF ActiveApp
      <3>2. CASE Len(z) # 0
        <4>1. WM!Holds(z, z[Len(z)]) /\ z # <<>>
          BY <2>2, <3>2, EmptySeq DEF WM!Holds
        <4>2. z[Len(z)] \in win
          BY <1>0, <2>1, <4>1 DEF DialogLiesOverItsApp, DesktopInv,
                                  PointersMatchWindows, Windows
        <4> QED
          BY <3>2, <4>1, <4>2 DEF ActiveApp
      <3> QED
        BY <3>1, <3>2
    <2> QED
      BY <2>4, <2>1, <2>2, <2>3 DEF DialogLiesOverItsApp
  <1>7. CASE Answers
    BY <1>7, AnswersClose, ClosedList DEF DialogLiesOverItsApp
  <1>8. CASE Clicks
    BY <1>2, <1>8, ClickedList DEF Clicks
  <1>9. CASE Drags
    BY <1>2, <1>9 DEF Drags, WM!Move
  <1>10. CASE Drops
    BY <1>2, <1>10 DEF Drops, WM!Up
  <1> QED
    BY <1>1, <1>3, <1>4, <1>5, <1>6, <1>7, <1>8, <1>9, <1>10 DEF Effect

\* The record a question is about stays the selected one.
LEMMA QuestionKept ==
  ASSUME DesktopInv, Effect
  PROVE  QuestionStaysTrue'
  <1>0. QuestionStaysTrue
    BY DEF DesktopInv
  <1>1. CASE Keeps
    BY <1>0, <1>1 DEF Keeps, QuestionStaysTrue, HasBrowser
  <1>2. CASE Asks
    BY <1>2 DEF Asks, AskOf, QuestionStaysTrue, HasBrowser
  <1>3. CASE ask' = NoAsk
    BY <1>3 DEF QuestionStaysTrue
  <1>4. CASE Answers
    BY <1>3, <1>4, AnswersClose
  <1> QED
    BY <1>1, <1>2, <1>3, <1>4
    DEF Effect, Opens, Raises, Closes, Clicks, Drags, Drops

--------------------------------------------------------------------------------
(* Title bars below the menu bar.                                          *)

LEMMA Lengths ==
  /\ ScreenW \in Nat /\ ScreenH \in Nat /\ TitlebarH \in Nat /\ TitlebarH > 0
  /\ MenubarH \in Nat /\ MenubarH < ScreenH
  /\ \A f \in AppFrames : f \in WP!Frames /\ f.y >= MenubarH
  /\ \A p \in WM!Points : p[1] \in Int /\ p[2] \in Int
  BY ManagerAssumptions, FramesAssumption
  DEF WP!ScreenAssumption, WP!FirstFramesAssumption, FirstFrames, WM!Points

Shows(f) == f.y + TitlebarH > MenubarH

\* A frame is only changed by opening, by closing and by the end of a drag.
LEMMA TitlebarsKept ==
  ASSUME DesktopInv, Effect
  PROVE  TitlebarShowsBelowMenubar'
  <1>0. /\ frame \in [Windows -> WP!Frames] /\ win \subseteq Windows /\ Dialog \notin win
        /\ \A a \in win : Shows(frame[a])
    BY ManagerFacts, AppsAssumption
    DEF DesktopInv, TitlebarShowsBelowMenubar, Shows, Windows
  <1>1. SUFFICES \A a \in win' : Shows(frame'[a])
    BY DEF TitlebarShowsBelowMenubar, Shows
  <1>2. ASSUME UNCHANGED frame, win' \subseteq win
        PROVE  \A a \in win' : Shows(frame'[a])
    BY <1>0, <1>2
  <1>3. CASE Opens
    <2> PICK a \in Apps, f \in AppFrames : WM!Open(a, f) /\ win' = win \union {a}
      BY <1>3 DEF Opens
    <2>1. frame' = [frame EXCEPT ![a] = f] /\ Shows(f) /\ a \in Windows
      BY Lengths DEF WM!Open, Shows, WP!Frames, Windows
    <2> QED
      BY <1>0, <2>1
  <1>4. CASE Closes
    BY <1>0, <1>4 DEF Closes, WM!Close, WM!CloseIn
  <1>5. CASE Asks
    BY <1>0, <1>5 DEF Asks, WM!Open
  <1>6. CASE Answers
    BY <1>0, <1>6, AnswersClose DEF WM!Close, WM!CloseIn
  <1>7. CASE Clicks
    <2> PICK w \in win, p \in WM!Points :
               /\ WM!Down(w, p)
               /\ win' = IF WM!OnCloseBox(w, p) THEN win \ {w} ELSE win
      BY <1>7 DEF Clicks
    <2>1. CASE WM!OnCloseBox(w, p)
      BY <1>0, <2>1 DEF WM!Down, WM!CloseIn
    <2>2. CASE ~WM!OnCloseBox(w, p)
      BY <1>2, <2>2 DEF WM!Down
    <2> QED
      BY <2>1, <2>2
  <1>8. CASE Drops
    <2>1. Shows(drag.outline) /\ UNCHANGED win
      BY <1>8 DEF Drops, WM!Up, DesktopInv, OutlineShows, Shows
    <2>2. UNCHANGED frame \/ frame' = [frame EXCEPT ![drag.win] = drag.outline]
      BY <1>8 DEF Drops, WM!Up
    <2> QED
      BY <1>0, <2>1, <2>2
  <1> QED
    BY <1>2, <1>3, <1>4, <1>5, <1>6, <1>7, <1>8
    DEF Effect, Keeps, manager, Raises, WM!Activate, Drags, WM!Move

LEMMA BegunOutline ==
  ASSUME DesktopInv, NEW w \in win, NEW p \in WM!Points, NEW kind \in {"move", "resize"},
         WM!BeginDrag(kind, w, p), kind = "move" => WM!OnTitlebar(w, p)
  PROVE  OutlineShows'
  <1>1. /\ drag'.kind = kind /\ drag'.anchor = p
        /\ drag'.start = frame[w] /\ drag'.outline = frame[w]
    BY DEF WM!BeginDrag
  <1>2. frame[w].y + TitlebarH > MenubarH
    BY DEF DesktopInv, TitlebarShowsBelowMenubar
  <1>3. kind = "move" => p[2] < frame[w].y + TitlebarH
    BY kind = "move" => WM!OnTitlebar(w, p) DEF WM!OnTitlebar
  <1> QED
    BY <1>1, <1>2, <1>3 DEF OutlineShows

\* The pointer is below the menu bar, and a moved title bar follows it.
LEMMA DraggedOutline ==
  ASSUME DesktopInv, NEW p \in WM!Points, ~MB!InBar(p), WM!Move(p)
  PROVE  OutlineShows'
  <1>1. /\ drag.kind # "none"
        /\ drag \in [kind : WP!Kinds, win : Windows \union {NoWindow},
                     anchor : Int \X Int, start : WP!Frames, outline : WP!Frames]
        /\ drag.start = frame[drag.win] /\ drag.win \in win
    <2>1. /\ drag.kind # "none" /\ WM!IsOpen(drag.win) /\ drag.start = frame[drag.win]
          /\ drag.win # Dialog /\ drag.win \in Windows
          /\ drag \in [kind : WP!Kinds, win : Windows \union {NoWindow},
                       anchor : Int \X Int, start : WP!Frames, outline : WP!Frames]
      BY ManagerFacts DEF DesktopInv, WM!Move, WM!IsOpen
    <2> QED
      BY <2>1 DEF DesktopInv, PointersMatchWindows, Windows
  <1>2. /\ drag.start.y \in Int /\ drag.anchor[2] \in Int
        /\ drag.start.y + TitlebarH > MenubarH
    BY <1>1 DEF WP!Frames, DesktopInv, TitlebarShowsBelowMenubar
  <1>3. /\ drag'.kind = drag.kind /\ drag'.anchor = drag.anchor /\ drag'.start = drag.start
        /\ drag'.outline = IF drag.kind = "move" THEN WM!Moved(drag, p)
                           ELSE WM!Resized(drag, p)
    BY <1>1 DEF WM!Move
  <1>4. p[2] \in Int /\ p[2] >= MenubarH
    BY Lengths DEF MB!InBar
  <1>5. CASE drag.kind = "move"
    <2>1. drag.anchor[2] < drag.start.y + TitlebarH
      BY <1>5 DEF DesktopInv, OutlineShows
    <2>2. WM!Moved(drag, p).y =
            WM!Clamp(drag.start.y + p[2] - drag.anchor[2], 0, ScreenH - TitlebarH)
      BY <1>1 DEF WM!Moved, WP!Frames
    <2>3. WM!Moved(drag, p).y + TitlebarH > MenubarH
      BY <1>2, <1>4, <2>1, <2>2, Lengths DEF WM!Clamp
    <2> QED
      BY <1>3, <1>5, <2>1, <2>3 DEF OutlineShows
  <1>6. CASE drag.kind # "move"
    <2>1. WM!Resized(drag, p).y = drag.start.y
      BY <1>1 DEF WM!Resized, WP!Frames
    <2> QED
      BY <1>2, <1>3, <1>6, <2>1 DEF OutlineShows
  <1> QED
    BY <1>5, <1>6

LEMMA OutlineKept ==
  ASSUME DesktopInv, Effect
  PROVE  OutlineShows'
  <1>1. ASSUME UNCHANGED drag PROVE OutlineShows'
    BY <1>1 DEF DesktopInv, OutlineShows
  <1>2. ASSUME drag' = WM!NoDrag PROVE OutlineShows'
    BY <1>2 DEF WM!NoDrag, OutlineShows
  <1>3. ASSUME NEW w, WM!Close(w) PROVE OutlineShows'
    BY <1>1, <1>2, <1>3 DEF WM!Close, WM!CloseIn
  <1>4. CASE Clicks
    <2> PICK w \in win, p \in WM!Points : WM!Down(w, p)
      BY <1>4 DEF Clicks
    <2>1. \/ drag' = WM!NoDrag
          \/ UNCHANGED drag
          \/ WM!OnTitlebar(w, p) /\ WM!BeginDrag("move", w, p)
          \/ WM!BeginDrag("resize", w, p)
      BY DEF WM!Down, WM!CloseIn
    <2> QED
      BY <1>1, <1>2, <2>1, BegunOutline
  <1>5. CASE Drags
    BY <1>5, DraggedOutline DEF Drags
  <1>6. CASE Drops
    BY <1>2, <1>6 DEF Drops, WM!Up
  <1>7. CASE Answers
    BY <1>3, <1>7, AnswersClose
  <1>8. CASE Closes
    BY <1>3, <1>8 DEF Closes
  <1> QED
    BY <1>1, <1>4, <1>5, <1>6, <1>7, <1>8
    DEF Effect, Keeps, manager, Opens, Asks, WM!Open, Raises, WM!Activate

--------------------------------------------------------------------------------
(* The invariant holds, and every step is one of the window manager.       *)

LEMMA Step ==
  DesktopInv /\ [Next]_vars => DesktopInv' /\ (UNCHANGED manager \/ WM!Next)
  <1> SUFFICES ASSUME DesktopInv, [Next]_vars
               PROVE  DesktopInv' /\ (UNCHANGED manager \/ WM!Next)
    OBVIOUS
  <1>1. Effect /\ RowsFit'
    <2>1. CASE Next
      BY <2>1, Effects DEF DesktopInv
    <2>2. CASE UNCHANGED vars
      BY <2>2 DEF vars, content, Effect, Keeps, DesktopInv, RowsFit
    <2> QED
      BY <2>1, <2>2
  <1>2. UNCHANGED manager \/ WM!Next
    BY <1>1, ManagerKept
  <1>3. WP!IInv'
    BY <1>2, ManagerStep DEF DesktopInv
  <1> QED
    BY <1>1, <1>2, <1>3, PointersKept, DialogKept, QuestionKept, TitlebarsKept, OutlineKept
    DEF DesktopInv

LEMMA Start == Init => DesktopInv /\ WM!Init
  <1> SUFFICES ASSUME Init PROVE DesktopInv /\ WM!Init
    OBVIOUS
  <1>1. WP!IInv /\ WM!Init
    BY ManagerStart DEF Init
  <1>2. \A w : ~WM!Holds(z, w)
    BY <1>1, EmptySeq DEF WM!Init, WM!Holds
  <1>3. drag.kind = "none"
    BY <1>1 DEF WM!Init, WM!NoDrag
  <1>4. PointersMatchWindows /\ DialogLiesOverItsApp
    BY <1>2 DEF Init, PointersMatchWindows, DialogLiesOverItsApp, WM!IsOpen
  <1> QED
    BY <1>1, <1>3, <1>4
    DEF Init, DesktopInv, RowsFit, QuestionStaysTrue, TitlebarShowsBelowMenubar, OutlineShows

LEMMA Always == Spec => []DesktopInv
  BY Start, Step, PTL DEF Spec

--------------------------------------------------------------------------------
(* The menus and the keys.                                                 *)

LEMMA OneMore ==
  ASSUME NEW D, NEW s \in Seq(D), NEW x \in D
  PROVE  /\ s \o <<x>> \in Seq(D) /\ Len(s \o <<x>>) = Len(s) + 1 /\ Len(s) \in Nat
         /\ (s \o <<x>>)[Len(s) + 1] = x
         /\ \A i \in 1 .. Len(s) : (s \o <<x>>)[i] = s[i]
  OBVIOUS

LEMMA LargerSeq ==
  ASSUME NEW A, NEW B, A \subseteq B, NEW s \in Seq(A)
  PROVE  s \in Seq(B)
  OBVIOUS

PartsIn(s) == {s[i] : i \in 1 .. Len(s)}

\* What stands in two shortcuts put together.
LEMMA PartsOf ==
  ASSUME NEW s, NEW t, NEW D, s \in Seq(D), t \in Seq(D)
  PROVE  /\ s \o t \in Seq(D)
         /\ Len(s \o t) = Len(s) + Len(t)
         /\ PartsIn(s \o t) = PartsIn(s) \union PartsIn(t)
  <1>1. s \o t \in Seq(D) /\ Len(s \o t) = Len(s) + Len(t) /\ Len(s) \in Nat /\ Len(t) \in Nat
    OBVIOUS
  <1>2. \A i \in 1 .. Len(s) : (s \o t)[i] = s[i]
    OBVIOUS
  <1>3. \A i \in 1 .. Len(t) : (s \o t)[Len(s) + i] = t[i]
    OBVIOUS
  <1>4. ASSUME NEW i \in 1 .. Len(s \o t), i \notin 1 .. Len(s)
        PROVE  i - Len(s) \in 1 .. Len(t) /\ i = Len(s) + (i - Len(s))
    BY <1>1, <1>4
  <1>5. \A i \in 1 .. Len(t) : Len(s) + i \in 1 .. Len(s \o t)
    BY <1>1
  <1>6. \A i \in 1 .. Len(s) : i \in 1 .. Len(s \o t)
    BY <1>1
  <1>7. ASSUME NEW x \in {(s \o t)[i] : i \in 1 .. Len(s \o t)}
        PROVE  x \in {s[i] : i \in 1 .. Len(s)} \union {t[i] : i \in 1 .. Len(t)}
    <2>1. PICK i \in 1 .. Len(s \o t) : x = (s \o t)[i]
      BY <1>7
    <2>2. CASE i \in 1 .. Len(s)
      BY <2>1, <2>2, <1>2
    <2>3. CASE i \notin 1 .. Len(s)
      <3>1. PICK k \in 1 .. Len(t) : i = Len(s) + k
        BY <1>4, <2>3
      <3>2. x = t[k]
        BY <1>3, <2>1, <3>1
      <3> QED
        BY <3>2
    <2> QED
      BY <2>2, <2>3
  <1>8. ASSUME NEW x \in {s[i] : i \in 1 .. Len(s)} \union {t[i] : i \in 1 .. Len(t)}
        PROVE  x \in {(s \o t)[i] : i \in 1 .. Len(s \o t)}
    BY <1>8, <1>2, <1>3, <1>5, <1>6
  <1> QED
    BY <1>1, <1>7, <1>8 DEF PartsIn

Written == {"Cmd", "Ctrl", "Alt", "Shift"}

Held(e) ==
  KM!IfHeld("Cmd", e) \o KM!IfHeld("Ctrl", e) \o KM!IfHeld("Alt", e) \o KM!IfHeld("Shift", e)

\* The modifiers of an entry, written by format_shortcut, are these again when read.
LEMMA HeldReadsBack ==
  ASSUME NEW e, e.mods \subseteq KM!Modifiers
  PROVE  Held(e) \in Seq(Written) /\ {Lower[m] : m \in PartsIn(Held(e))} = e.mods
  <1> DEFINE One(m) == IF Lower[m] \in e.mods THEN {m} ELSE {}
  <1>1. ASSUME NEW m \in Written
        PROVE  KM!IfHeld(m, e) \in Seq(Written) /\ PartsIn(KM!IfHeld(m, e)) = One(m)
    <2>1. CASE Lower[m] \in e.mods
      <3>1. KM!IfHeld(m, e) = <<m>>
        BY <2>1 DEF KM!IfHeld
      <3>2. <<m>> \in Seq(Written) /\ Len(<<m>>) = 1 /\ <<m>>[1] = m
        OBVIOUS
      <3>3. 1 .. Len(<<m>>) = {1}
        BY <3>2
      <3> QED
        BY <2>1, <3>1, <3>2, <3>3 DEF PartsIn
    <2>2. CASE Lower[m] \notin e.mods
      <3>1. KM!IfHeld(m, e) = <<>>
        BY <2>2 DEF KM!IfHeld
      <3>2. <<>> \in Seq(Written) /\ 1 .. Len(<<>>) = {}
        OBVIOUS
      <3> QED
        BY <2>2, <3>1, <3>2 DEF PartsIn
    <2> QED
      BY <2>1, <2>2
  <1> DEFINE A == KM!IfHeld("Cmd", e)
             B == KM!IfHeld("Ctrl", e)
             C == KM!IfHeld("Alt", e)
             D == KM!IfHeld("Shift", e)
  <1>2. "Cmd" \in Written /\ "Ctrl" \in Written /\ "Alt" \in Written /\ "Shift" \in Written
    BY DEF Written
  <1>7. Held(e) = ((A \o B) \o C) \o D
    BY DEF Held
  <1>14. /\ PartsIn(A) = One("Cmd") /\ PartsIn(B) = One("Ctrl")
        /\ PartsIn(C) = One("Alt") /\ PartsIn(D) = One("Shift")
    BY <1>1, <1>2, Zenon
  <1>3. A \in Seq(Written) /\ B \in Seq(Written) /\ C \in Seq(Written) /\ D \in Seq(Written)
    BY <1>1, <1>2, Zenon
  <1> HIDE DEF A, B, C, D
  <1>4. A \o B \in Seq(Written) /\ PartsIn(A \o B) = PartsIn(A) \union PartsIn(B)
    BY <1>3, PartsOf, Zenon
  <1>5. (A \o B) \o C \in Seq(Written) /\ PartsIn((A \o B) \o C) = PartsIn(A \o B) \union PartsIn(C)
    BY <1>3, <1>4, PartsOf, Zenon
  <1>6. /\ ((A \o B) \o C) \o D \in Seq(Written)
        /\ PartsIn(((A \o B) \o C) \o D) = PartsIn((A \o B) \o C) \union PartsIn(D)
    BY <1>3, <1>5, PartsOf, Zenon
  <1>8. PartsIn(Held(e)) = One("Cmd") \union One("Ctrl") \union One("Alt") \union One("Shift")
    BY <1>14, <1>4, <1>5, <1>6, <1>7, Zenon
  <1>9. e.mods \subseteq {Lower[m] : m \in Written}
    BY LettersAssumption DEF KM!LowerAssumption, KM!Modifiers, Written
  <1>10. PartsIn(Held(e)) = {m \in Written : Lower[m] \in e.mods}
    BY <1>8 DEF Written
  <1>11. Held(e) \in Seq(Written)
    BY <1>6, <1>7, Zenon
  <1>12. ASSUME NEW x \in {Lower[m] : m \in {n \in Written : Lower[n] \in e.mods}}
         PROVE  x \in e.mods
    OBVIOUS
  <1>13. ASSUME NEW x \in e.mods
         PROVE  x \in {Lower[m] : m \in {n \in Written : Lower[n] \in e.mods}}
    BY <1>9
  <1> QED
    BY <1>10, <1>11, <1>12, <1>13

\* A key, written by format_shortcut, is read as the same key.
LEMMA KeyReadsBack ==
  ASSUME NEW k \in DOMAIN Lower, Lower[k] = k, k # "",
         k \in Characters \union DOMAIN KM!Titled
  PROVE  /\ KM!Named(k) \in DOMAIN Lower /\ KM!Named(k) # ""
         /\ Lower[KM!Named(k)] = k
  <1>1. CASE k \in DOMAIN KM!Titled
    <2>1. KM!Named(k) = KM!Titled[k]
      BY <1>1, Zenon DEF KM!Named
    <2>2. KM!Titled[k] \in DOMAIN Lower /\ Lower[KM!Titled[k]] = k
      BY <1>1, LettersAssumption, Zenon DEF KM!LowerAssumption
    <2>3. KM!Titled[k] # ""
      BY <2>2, LettersAssumption, Zenon DEF KM!LowerAssumption
    <2> QED
      BY <2>1, <2>2, <2>3
  <1>2. CASE k \notin DOMAIN KM!Titled
    <2> DEFINE larger == {c \in DOMAIN Lower : Lower[c] = k} \ {k}
    <2>1. KM!Named(k) = IF larger = {} THEN k ELSE CHOOSE c \in larger : TRUE
      BY <1>2, Zenon DEF KM!Named, KM!Capital
    <2>2. KM!Named(k) = k \/ KM!Named(k) \in larger
      BY <2>1
    <2>3. KM!Named(k) \in DOMAIN Lower /\ Lower[KM!Named(k)] = k
      BY <2>2
    <2>4. Lower[""] = ""
      BY LettersAssumption, Zenon DEF KM!LowerAssumption
    <2> QED
      BY <2>3, <2>4
  <1> QED
    BY <1>1, <1>2

LEMMA NoEmptyName == "" \notin DOMAIN KM!Titled
  BY SMT DEF KM!Titled

\* What keymap_parse_shortcut accepts: a key it knows, and modifiers.
LEMMA ParsedFits ==
  ASSUME NEW parts \in Seq(DOMAIN Lower), KM!ParseShortcut(parts).ok
  PROVE  LET s == KM!ParseShortcut(parts)
         IN  /\ s.key \in DOMAIN Lower /\ Lower[s.key] = s.key /\ s.key # ""
             /\ s.key \in Characters \union DOMAIN KM!Titled
             /\ s.mods \subseteq KM!Modifiers
  <1> DEFINE mods == {Lower[parts[i]] : i \in 1 .. Len(parts) - 1}
             key == Lower[KM!Last(parts)]
             bad == \/ parts = <<>> \/ \E i \in DOMAIN parts : parts[i] = ""
                    \/ ~(mods \subseteq KM!Modifiers)
                    \/ key \notin Characters \union DOMAIN KM!Titled
  <1>1. KM!ParseShortcut(parts) =
          IF bad THEN KM!NoShortcut ELSE [ok |-> TRUE, key |-> key, mods |-> mods]
    BY Zenon DEF KM!ParseShortcut
  <1>2. ~KM!NoShortcut.ok
    BY DEF KM!NoShortcut
  <1>3. ~bad
    BY <1>1, <1>2, Zenon
  <1>4. KM!ParseShortcut(parts) = [ok |-> TRUE, key |-> key, mods |-> mods]
    BY <1>1, <1>3, Zenon
  <1>5. parts # <<>> /\ mods \subseteq KM!Modifiers /\ key \in Characters \union DOMAIN KM!Titled
    BY <1>3
  <1>6. KM!Last(parts) \in DOMAIN Lower
    BY <1>5 DEF KM!Last
  <1>7. key \in DOMAIN Lower /\ Lower[key] = key
    BY <1>6, LettersAssumption DEF KM!LowerAssumption
  <1>8. key # ""
    BY <1>5, NoEmptyName, LettersAssumption DEF KM!LowerAssumption
  <1> HIDE DEF mods, key
  <1>9. KM!ParseShortcut(parts).key = key /\ KM!ParseShortcut(parts).mods = mods
    BY <1>4
  <1> QED
    BY <1>5, <1>7, <1>8, <1>9, Zenon

\* An entry keymap_load makes.
Fits(e) ==
  /\ e.key \in DOMAIN Lower /\ Lower[e.key] = e.key /\ e.key # ""
  /\ e.key \in Characters \union DOMAIN KM!Titled
  /\ e.mods \subseteq KM!Modifiers

\* What keymap_describe shows of an entry is read as its key and its modifiers.
LEMMA ShortcutReadsBack ==
  ASSUME NEW e, Fits(e)
  PROVE  LET s == KM!ParseShortcut(KM!Formatted(e))
         IN s.ok /\ s.key = e.key /\ s.mods = e.mods
  <1> DEFINE h == Held(e)
             last == KM!Named(e.key)
             parts == h \o <<last>>
             mods == {Lower[parts[i]] : i \in 1 .. Len(parts) - 1}
             key == Lower[KM!Last(parts)]
             bad == \/ parts = <<>> \/ \E i \in DOMAIN parts : parts[i] = ""
                    \/ ~(mods \subseteq KM!Modifiers)
                    \/ key \notin Characters \union DOMAIN KM!Titled
  <1>1. h \in Seq(Written) /\ {Lower[m] : m \in PartsIn(h)} = e.mods
    BY HeldReadsBack, Zenon DEF Fits
  <1>2. last \in DOMAIN Lower /\ last # "" /\ Lower[last] = e.key
    BY KeyReadsBack, Zenon DEF Fits
  <1>3. KM!Formatted(e) = parts
    BY Zenon DEF KM!Formatted, Held
  <1> HIDE DEF h, last
  <1>4. Written \subseteq DOMAIN Lower /\ "" \notin Written
    BY LettersAssumption DEF Written, KM!LowerAssumption
  <1>5. /\ parts \in Seq(DOMAIN Lower) /\ Len(parts) = Len(h) + 1 /\ Len(h) \in Nat
        /\ parts[Len(h) + 1] = last /\ \A i \in 1 .. Len(h) : parts[i] = h[i]
    <2>1. h \in Seq(DOMAIN Lower)
      BY <1>1, <1>4, LargerSeq, Zenon
    <2> QED
      <3> DEFINE D == DOMAIN Lower
      <3>1. h \in Seq(D) /\ last \in D
        BY ONLY <2>1, <1>2, Zenon
      <3> HIDE DEF D
      <3>2. /\ h \o <<last>> \in Seq(D) /\ Len(h \o <<last>>) = Len(h) + 1 /\ Len(h) \in Nat
            /\ (h \o <<last>>)[Len(h) + 1] = last
            /\ \A i \in 1 .. Len(h) : (h \o <<last>>)[i] = h[i]
        BY ONLY <3>1, SMTT(60)
      <3> QED
        BY ONLY <3>2, ZenonT(60) DEF D
  <1>6. KM!Last(parts) = last
    BY <1>5 DEF KM!Last
  <1>7. mods = e.mods
    <2> HIDE DEF parts
    <2>1. 1 .. Len(parts) - 1 = 1 .. Len(h)
      BY <1>5
    <2>2. mods = {Lower[h[i]] : i \in 1 .. Len(h)}
      BY <2>1, <1>5
    <2>3. {Lower[h[i]] : i \in 1 .. Len(h)} = {Lower[m] : m \in PartsIn(h)}
      BY DEF PartsIn
    <2> QED
      BY <1>1, <2>2, <2>3, Zenon
  <1>8. \A i \in DOMAIN parts : parts[i] # ""
    <2> HIDE DEF parts
    <2>0. DOMAIN parts = 1 .. Len(h) + 1
      BY <1>5
    <2>1. SUFFICES ASSUME NEW i \in 1 .. Len(h) + 1 PROVE parts[i] # ""
      BY <2>0
    <2>2. CASE i = Len(h) + 1
      BY <2>2, <1>2, <1>5, Zenon
    <2>3. CASE i # Len(h) + 1
      <3>1. i \in 1 .. Len(h)
        BY <2>3, <1>5
      <3>2. h[i] \in Written
        BY <1>1, <3>1
      <3> QED
        BY <3>1, <3>2, <1>4, <1>5
    <2> QED
      BY <2>2, <2>3
  <1>9. ~bad
    <2> HIDE DEF parts, mods
    <2>1. parts # <<>>
      BY <1>5
    <2> QED
      BY <2>1, <1>2, <1>6, <1>7, <1>8 DEF Fits
  <1>10. KM!ParseShortcut(parts) =
           IF bad THEN KM!NoShortcut ELSE [ok |-> TRUE, key |-> key, mods |-> mods]
    BY Zenon DEF KM!ParseShortcut
  <1>11. KM!ParseShortcut(parts) = [ok |-> TRUE, key |-> key, mods |-> mods]
    BY <1>9, <1>10, Zenon
  <1>12. key = e.key
    BY <1>2, <1>6
  <1> HIDE DEF mods, key, parts
  <1> QED
    BY <1>3, <1>7, <1>11, <1>12

\* keymap_load keeps every line, in order, and no two of them clash.
LEMMA LoadedFits ==
  ASSUME NEW lines, KM!IsFile(lines), KM!Loaded(lines).ok
  PROVE  LET E == KM!Loaded(lines).entries
         IN /\ DOMAIN E = DOMAIN lines
            /\ \A i \in DOMAIN E : Fits(E[i])
            /\ \A i, j \in DOMAIN E : i # j => ~KM!Clash(E[i], E[j])
  <1> DEFINE good == \A i \in DOMAIN lines :
                       /\ KM!LineIsGood(lines[i])
                       /\ \A j \in 1 .. i - 1 :
                            ~KM!Clash(KM!EntryOf(lines[i]), KM!EntryOf(lines[j]))
             E == [i \in DOMAIN lines |-> KM!EntryOf(lines[i])]
  <1>1. KM!Loaded(lines) = IF good THEN [ok |-> TRUE, entries |-> E] ELSE KM!NoKeymap
    BY Zenon DEF KM!Loaded
  <1>2. ~KM!NoKeymap.ok
    BY DEF KM!NoKeymap
  <1>3. good
    BY <1>1, <1>2, Zenon
  <1>4. KM!Loaded(lines) = [ok |-> TRUE, entries |-> E]
    BY <1>1, <1>3, Zenon
  <1>5. ASSUME NEW i \in DOMAIN lines
        PROVE  Fits(E[i])
    <2>1. KM!LineIsGood(lines[i])
      BY <1>3
    <2>2. lines[i][2] \in Seq(DOMAIN Lower) /\ KM!ParseShortcut(lines[i][2]).ok
      BY <2>1, Zenon DEF KM!LineIsGood, KM!IsFile
    <2> DEFINE s == KM!ParseShortcut(lines[i][2])
    <2>3. /\ s.key \in DOMAIN Lower /\ Lower[s.key] = s.key /\ s.key # ""
          /\ s.key \in Characters \union DOMAIN KM!Titled
          /\ s.mods \subseteq KM!Modifiers
      BY <2>2, ParsedFits, Zenon
    <2>4. E[i] = [action |-> lines[i][1], key |-> s.key, mods |-> s.mods, scope |-> lines[i][3]]
      BY Zenon DEF KM!EntryOf
    <2> HIDE DEF s, E
    <2>5. E[i].key = s.key /\ E[i].mods = s.mods
      BY <2>4
    <2> QED
      BY <2>3, <2>5, Zenon DEF Fits
  <1>6. ASSUME NEW i \in DOMAIN lines, NEW j \in DOMAIN lines, i # j
        PROVE  ~KM!Clash(E[i], E[j])
    <2>1. i \in Nat \ {0} /\ j \in Nat \ {0}
      BY DEF KM!IsFile
    <2>2. CASE j < i
      <3>1. j \in 1 .. i - 1
        BY <2>1, <2>2
      <3>2. ~KM!Clash(KM!EntryOf(lines[i]), KM!EntryOf(lines[j]))
        BY <1>3, <3>1, Zenon
      <3> QED
        BY <3>2, Zenon
    <2>3. CASE i < j
      <3>1. i \in 1 .. j - 1
        BY <2>1, <2>3
      <3>2. ~KM!Clash(KM!EntryOf(lines[j]), KM!EntryOf(lines[i]))
        BY <1>3, <3>1, Zenon
      <3>3. ~KM!Clash(KM!EntryOf(lines[i]), KM!EntryOf(lines[j]))
        BY <3>2, Zenon DEF KM!Clash
      <3> QED
        BY <3>3, Zenon
    <2> QED
      BY <1>6, <2>1, <2>2, <2>3
  <1>7. DOMAIN E = DOMAIN lines
    OBVIOUS
  <1> HIDE DEF E
  <1>8. KM!Loaded(lines).entries = E
    BY <1>4
  <1> QED
    BY <1>5, <1>6, <1>7, <1>8, Zenon

\* A table without clashes.
IsTable(km) ==
  /\ DOMAIN km.entries \subseteq Nat
  /\ \A i \in DOMAIN km.entries : Fits(km.entries[i])
  /\ \A i, j \in DOMAIN km.entries : i # j => ~KM!Clash(km.entries[i], km.entries[j])

LEMMA LoadedIsTable ==
  ASSUME NEW lines, KM!IsFile(lines), KM!Loaded(lines).ok
  PROVE  IsTable(KM!Loaded(lines))
  <1>1. DOMAIN lines \subseteq Nat
    BY DEF KM!IsFile
  <1> QED
    BY <1>1, LoadedFits, Zenon DEF IsTable

\* An action has one entry, and its shortcut is what the menus show.
LEMMA DescribedOnce ==
  ASSUME NEW km, IsTable(km), NEW i \in DOMAIN km.entries
  PROVE  KM!Describe(km, km.entries[i].action) = KM!Formatted(km.entries[i])
  <1> DEFINE a == km.entries[i].action
             at == {j \in DOMAIN km.entries : km.entries[j].action = a}
  <1>1. \A j \in at : j = i
    BY Zenon DEF IsTable, KM!Clash
  <1>2. at = {i}
    BY <1>1
  <1>3. i \in Nat
    BY DEF IsTable
  <1>4. KM!Min({i}) = i
    BY <1>3 DEF KM!Min
  <1>5. KM!Describe(km, a) = IF at = {} THEN <<>> ELSE KM!Formatted(km.entries[KM!Min(at)])
    BY Zenon DEF KM!Describe
  <1> HIDE DEF at, a
  <1>6. at # {}
    BY <1>2
  <1> QED
    BY <1>2, <1>4, <1>5, <1>6, Zenon DEF a

\* What the entries of a scope do with a key.
LEMMA OwnAction ==
  ASSUME NEW km, IsTable(km), NEW i \in DOMAIN km.entries, NEW scope,
         km.entries[i].scope = scope
  PROVE  KM!ActionsOf(km, km.entries[i].key, km.entries[i].mods, scope) = {km.entries[i].action}
  <1> DEFINE at == {j \in DOMAIN km.entries :
                      /\ km.entries[j].key = km.entries[i].key
                      /\ km.entries[j].mods = km.entries[i].mods
                      /\ km.entries[j].scope = scope}
  <1>1. \A j \in at : j = i
    BY Zenon DEF IsTable, KM!Clash
  <1>2. at = {i}
    BY <1>1
  <1>3. KM!ActionsOf(km, km.entries[i].key, km.entries[i].mods, scope) =
          {km.entries[j].action : j \in at}
    BY Zenon DEF KM!ActionsOf
  <1> HIDE DEF at
  <1> QED
    BY <1>2, <1>3

LEMMA FoundInScope ==
  ASSUME NEW km, IsTable(km), NEW i \in DOMAIN km.entries
  PROVE  LET e == km.entries[i] IN KM!Lookup(km, e.key, e.mods, e.scope) = e.action
  <1> DEFINE e == km.entries[i]
             own == KM!ActionsOf(km, e.key, e.mods, e.scope)
             everywhere == KM!ActionsOf(km, e.key, e.mods, "global")
  <1>1. own = {e.action}
    BY OwnAction, Zenon
  <1>2. KM!Lookup(km, e.key, e.mods, e.scope) =
          IF own # {} THEN CHOOSE a \in own : TRUE
          ELSE IF everywhere # {} THEN CHOOSE a \in everywhere : TRUE ELSE NoAction
    BY Zenon DEF KM!Lookup
  <1> HIDE DEF own
  <1> QED
    BY <1>1, <1>2

\* An action of a menu is found from a list and from a form: nothing that is looked
\* at earlier hides its entry.
LEMMA FoundFromInside ==
  ASSUME NEW inner \in {"list", "form"}, IsTable(Keys), NEW i \in DOMAIN Keys.entries,
         NEW t \in DOMAIN Menus, NEW m \in DOMAIN Menus[t],
         Menus[t][m] = Keys.entries[i].action
  PROVE  LET e == Keys.entries[i] IN ActionIn(inner, e.key, e.mods) = e.action
  <1> DEFINE e == Keys.entries[i]
             Of(scope) == KM!ActionsOf(Keys, e.key, e.mods, scope)
             Hidden(f) == f.key = e.key /\ f.mods = e.mods =>
                            f.scope \notin {"list", "form", "global"}
  <1>1. /\ e.action # NoAction /\ e.scope \in {"global", "app"}
        /\ \A j \in DOMAIN Keys.entries \ {i} : Hidden(Keys.entries[j])
    BY KeysAssumption
  <1>2. ASSUME NEW scope \in {"list", "form", "global"}, e.scope # scope
        PROVE  Of(scope) = {}
    <2>1. ASSUME NEW j \in DOMAIN Keys.entries, Keys.entries[j].key = e.key,
                 Keys.entries[j].mods = e.mods, Keys.entries[j].scope = scope
          PROVE  FALSE
      <3>1. j # i
        BY <2>1, <1>2
      <3> QED
        BY <3>1, <2>1, <1>1
    <2>2. Of(scope) = {Keys.entries[k].action : k \in {j \in DOMAIN Keys.entries :
             /\ Keys.entries[j].key = e.key /\ Keys.entries[j].mods = e.mods
             /\ Keys.entries[j].scope = scope}}
      BY Zenon DEF KM!ActionsOf
    <2> HIDE DEF Of, e
    <2> QED
      BY <2>1, <2>2
  <1>3. \A scope : KM!Lookup(Keys, e.key, e.mods, scope) =
          IF Of(scope) # {} THEN CHOOSE a \in Of(scope) : TRUE
          ELSE IF Of("global") # {} THEN CHOOSE a \in Of("global") : TRUE ELSE NoAction
    BY Zenon DEF KM!Lookup
  <1>4. Of(e.scope) = {e.action}
    BY OwnAction, Zenon
  <1>5. ActionIn(inner, e.key, e.mods) =
          IF KM!Lookup(Keys, e.key, e.mods, inner) # NoAction
          THEN KM!Lookup(Keys, e.key, e.mods, inner) ELSE KM!Lookup(Keys, e.key, e.mods, "app")
    BY Zenon DEF ActionIn
  <1>6. e.scope # inner
    BY <1>1
  <1> HIDE DEF Of, e
  <1>7. Of(inner) = {}
    BY <1>2, <1>6
  <1>8. CASE e.scope = "global"
    <2>1. KM!Lookup(Keys, e.key, e.mods, inner) = e.action
      BY <1>3, <1>4, <1>7, <1>8
    <2> QED
      BY <1>1, <1>5, <2>1 DEF e
  <1>9. CASE e.scope = "app"
    <2>1. Of("global") = {}
      BY <1>2, <1>9
    <2>2. KM!Lookup(Keys, e.key, e.mods, inner) = NoAction
      BY <1>3, <1>7, <2>1
    <2>3. KM!Lookup(Keys, e.key, e.mods, "app") = e.action
      BY <1>3, <1>4, <1>9
    <2> QED
      BY <1>5, <2>2, <2>3 DEF e
  <1> QED
    BY <1>1, <1>8, <1>9

LEMMA ShownWorksEverywhere ==
  ASSUME NEW inner \in {"list", "form"} PROVE ShownWorks[inner]
  <1>1. IsTable(Keys)
    BY LettersAssumption, KeysAssumption, LoadedIsTable, Zenon DEF Keys
  <1> DEFINE Works(t, m) ==
        LET shown == KM!Describe(Keys, Menus[t][m])
            s == KM!ParseShortcut(shown)
        IN shown # <<>> => s.ok /\ ActionIn(inner, s.key, s.mods) = Menus[t][m]
  <1>2. ASSUME NEW t \in DOMAIN Menus, NEW m \in DOMAIN Menus[t]
        PROVE  Works(t, m)
    <2> DEFINE at == {i \in DOMAIN Keys.entries : Keys.entries[i].action = Menus[t][m]}
    <2>1. CASE at = {}
      <3>1. KM!Describe(Keys, Menus[t][m]) = <<>>
        BY <2>1, Zenon DEF KM!Describe
      <3> QED
        BY <3>1, Zenon
    <2>2. CASE at # {}
      <3>1. PICK i \in DOMAIN Keys.entries : Keys.entries[i].action = Menus[t][m]
        BY <2>2
      <3> DEFINE e == Keys.entries[i]
                 s == KM!ParseShortcut(KM!Describe(Keys, Menus[t][m]))
      <3>2. Fits(e)
        BY <1>1, <3>1 DEF IsTable
      <3>3. KM!Describe(Keys, Menus[t][m]) = KM!Formatted(e)
        BY <1>1, <3>1, DescribedOnce, Zenon
      <3>4. s.ok /\ s.key = e.key /\ s.mods = e.mods
        BY <3>2, <3>3, ShortcutReadsBack, Zenon
      <3>5. ActionIn(inner, e.key, e.mods) = e.action
        BY <1>1, <3>1, FoundFromInside, Zenon
      <3> QED
        BY <3>1, <3>4, <3>5, Zenon
    <2> QED
      BY <2>1, <2>2, Zenon
  <1>3. ShownWorks[inner] <=> \A t \in DOMAIN Menus : \A m \in DOMAIN Menus[t] : Works(t, m)
    BY Zenon DEF ShownWorks
  <1> QED
    BY <1>2, <1>3, Zenon

--------------------------------------------------------------------------------
(* Theorems.                                                               *)

\* Each event, the opening and the answering of questions included, is at most
\* one step of the window manager: shell_event uses wm.h as it is meant.
THEOREM WindowManagerIsKept == Spec => KeepsWindowManager
  <1>1. DesktopInv /\ [Next]_vars => [UNCHANGED manager \/ WM!Next]_manager
    BY Step
  <1>2. Init => WM!Init
    BY Start
  <1> QED
    BY <1>1, <1>2, Always, PTL DEF Spec, KeepsWindowManager

\* So what is proved of the window manager holds on the desktop: exactly the
\* frontmost window is active, a drag has a living window, and title bars can
\* be reached.
THEOREM WindowsAreSafe ==
  Spec => [](WM!ActiveIsOnTop /\ WM!DragHasWindow /\ WM!TitlebarStaysOnScreen)
  <1>1. WP!ActiveIsOnTop => WM!ActiveIsOnTop
    BY Zenon DEF WM!ActiveIsOnTop, WP!ActiveIsOnTop, WM!Distinct, WP!Distinct, WM!Top, WP!Top
  <1>2. WP!DragHasWindow => WM!DragHasWindow
    BY SameLists DEF WM!DragHasWindow, WP!DragHasWindow
  <1>3. WP!TitlebarStaysOnScreen => WM!TitlebarStaysOnScreen
    BY Zenon DEF WM!TitlebarStaysOnScreen, WP!TitlebarStaysOnScreen, WM!Grabbable, WP!Grabbable
  <1>4. DesktopInv => WM!ActiveIsOnTop /\ WM!DragHasWindow /\ WM!TitlebarStaysOnScreen
    BY <1>1, <1>2, <1>3 DEF DesktopInv, WP!IInv
  <1> QED
    BY <1>4, Always, PTL

\* An application's pointer is set exactly while its window is open, whatever
\* way the window went (on_window_closed).
THEOREM PointersAgree == Spec => []PointersMatchWindows
  BY Always, PTL DEF DesktopInv

\* A question stands exactly while the dialog is open and in front, and right
\* behind it is the window the answer is for (shell_ask and finish_ask).
THEOREM DialogsLieRight == Spec => []DialogLiesOverItsApp
  BY Always, PTL DEF DesktopInv

\* "Yes" deletes the record the question named (finish_ask).
THEOREM QuestionsStayTrue == Spec => []QuestionStaysTrue
  BY Always, PTL DEF DesktopInv

\* No drag hides a title bar behind the menu bar, although the window manager
\* knows nothing of one (menubar_event before wm_event).
THEOREM TitlebarsShow == Spec => []TitlebarShowsBelowMenubar
  BY Always, PTL DEF DesktopInv

\* In any file of keys that can be read, what the menus show for an action is what
\* has to be pressed for it in its scope (keymap_describe, keymap_parse_shortcut and
\* keymap_lookup).
THEOREM ShortcutsReadBack ==
  ASSUME NEW lines, KM!IsFile(lines), KM!Loaded(lines).ok
  PROVE  KM!ShownIsPressed(KM!Loaded(lines))
  <1> DEFINE km == KM!Loaded(lines)
  <1>1. IsTable(km)
    BY LoadedIsTable, Zenon
  <1> HIDE DEF km
  <1>2. ASSUME NEW i \in DOMAIN km.entries
        PROVE  LET e == km.entries[i]
                   s == KM!ParseShortcut(KM!Describe(km, e.action))
               IN s.ok /\ KM!Lookup(km, s.key, s.mods, e.scope) = e.action
    <2> DEFINE e == km.entries[i]
               s == KM!ParseShortcut(KM!Describe(km, e.action))
    <2>1. s.ok /\ s.key = e.key /\ s.mods = e.mods
      <3>1. Fits(e)
        BY <1>1 DEF IsTable
      <3>2. KM!Describe(km, e.action) = KM!Formatted(e)
        BY <1>1, DescribedOnce, Zenon
      <3>3. KM!ParseShortcut(KM!Describe(km, e.action)) = KM!ParseShortcut(KM!Formatted(e))
        BY <3>2, Zenon
      <3> QED
        BY <3>1, <3>3, ShortcutReadsBack, Zenon
    <2>2. KM!Lookup(km, e.key, e.mods, e.scope) = e.action
      BY <1>1, FoundInScope, Zenon
    <2> QED
      BY <2>1, <2>2, Zenon
  <1> QED
    BY <1>2, Zenon DEF KM!ShownIsPressed, km

\* The menus show shortcuts that do what they are shown for: with the file of the
\* program in a list and in a form, and within a scope with every sample file.
THEOREM MenusTellTheKeys == Spec => []MenuShowsWhatKeysDo
  <1>1. Inner \in {"list", "form"}
    BY Zenon DEF Inner
  <1>2. ShownWorks[Inner]
    BY <1>1, ShownWorksEverywhere, Zenon
  <1>3. \A lines \in SampleKeys : KM!Loaded(lines).ok => KM!ShownIsPressed(KM!Loaded(lines))
    BY LettersAssumption, ShortcutsReadBack, Zenon
  <1>4. MenuShowsWhatKeysDo
    BY <1>2, <1>3, Zenon DEF MenuShowsWhatKeysDo
  <1> QED
    BY <1>4, PTL
================================================================================
