---------------------------------- MODULE Form ----------------------------------
(***************************************************************************)
(* The form in which a record is edited: a panel of widgets, some of which *)
(* are panels themselves (ui/panel.c, form_build of app/browser.c), with   *)
(* the focus, the way events take, a text field (ui/widget_text.c), and a  *)
(* text area beside its scroll bar (ui/widget_scroll.c), which share one   *)
(* scroll model.  A list, as choices have it, is looked at by itself.      *)
(***************************************************************************)
EXTENDS PanelLayout, TextArea, ListBox

CONSTANTS
  Items,        \* the kinds of the widgets, in order
  Texts,        \* bound: what the area may hold
  FieldMax,     \* bound: characters in the field
  Sizes,        \* [w, rows]: sizes the layout gives to the area
  BarLen, Arrow,  \* length of the bar, and of one of its arrows
  SampleItems, SampleModels, SampleTexts, SampleLists   \* for what the widgets should do

Kinds == {"label", "field", "area", "row"}
\* The model keeps the state of one field and one area, as the form of a note has.
ASSUME ItemsAssumption ==
  /\ Items \in Seq(Kinds)
  /\ {"field", "area"} \subseteq {Items[i] : i \in DOMAIN Items}
ASSUME RoomAssumption ==
  /\ Texts \in SUBSET Seq(STRING)
  /\ FieldMax \in Nat
  /\ Sizes \in SUBSET [w : Int, rows : Nat]
\* No widget wants a width of 0: the one that takes what is left would take more.
ASSUME SamplesAssumption ==
  /\ SampleItems \in SUBSET Seq([w : Nat \ {0}, h : Nat])
  /\ SampleModels \in SUBSET [total : Nat, page : Nat, value : Nat]
  /\ SampleTexts \in SUBSET Seq(STRING)
  /\ SampleLists \in SUBSET [rows : Nat, count : Nat, selected : Int, opened : BOOLEAN,
                            m : [total : Nat, page : Nat, value : Int]]
  /\ \A l \in SampleLists : l.selected \in -1 .. l.count - 1

VARIABLES
  focus,     \* p->focus: the number of an item, or 0
  inner,     \* of every item the focus of the panel that it is, or 0
  area,      \* the text area
  field,     \* the text field
  held,      \* sb->dragging
  beside,    \* ghost: the last press was on a panel within, but on no widget that takes keys
  button     \* ghost: the button of the mouse is down

focusVars == <<focus, inner, beside>>
vars == <<focusVars, area, field, held, button>>

--------------------------------------------------------------------------------
(* Focus.                                                                  *)

\* The widgets of an item that is a panel.
Parts(i) ==
  CASE Items[i] = "area" -> <<"text", "bar">>
    [] Items[i] = "row" -> <<"button", "button">>
    [] OTHER -> <<>>

Nested(i) == Parts(i) # <<>>

\* wants_focus; a panel wants it if a part of it does.
Wanting(i) == {j \in DOMAIN Parts(i) : Parts(i)[j] # "bar"}
Focusable == {i \in DOMAIN Items : Items[i] # "label"}

\* step_focus among those that want it: to the next one, from the first on if
\* there was none, and whether the end was passed.
Stepped(wanting, at, dir) ==
  LET ahead == IF dir = 1 THEN {k \in wanting : k > at}
               ELSE {k \in wanting : at = 0 \/ k < at}
      Nearest(S) == IF dir = 1 THEN Min(S) ELSE Max(S)
  IN IF wanting = {} THEN [to |-> at, wrapped |-> TRUE]
     ELSE IF ahead # {} THEN [to |-> Nearest(ahead), wrapped |-> FALSE]
     ELSE [to |-> Nearest(wanting), wrapped |-> TRUE]

\* What panel_set_focus leaves of the focus within the item that had it.
Cleared == [i \in DOMAIN Items |-> IF i = focus THEN 0 ELSE inner[i]]

\* Mutant: a panel within keeps the tabulator for itself.
TabHeldFast(dir) ==
  LET within == Stepped(Wanting(focus), inner[focus], dir)
      next == Stepped(Focusable, focus, dir).to
  IN IF focus # 0 /\ Nested(focus)
     THEN inner' = [inner EXCEPT ![focus] = within.to] /\ UNCHANGED focus
     ELSE /\ focus' = next
          /\ inner' = IF next # 0 /\ Nested(next)
                      THEN [Cleared EXCEPT ![next] = Stepped(Wanting(next), 0, dir).to]
                      ELSE Cleared

\* Mutant: the widget within the panel that loses the focus keeps its own.
TabUncleared(dir) ==
  LET within == Stepped(Wanting(focus), inner[focus], dir)
      next == Stepped(Focusable, focus, dir).to
  IN IF focus # 0 /\ Nested(focus) /\ ~within.wrapped
     THEN inner' = [inner EXCEPT ![focus] = within.to] /\ UNCHANGED focus
     ELSE /\ focus' = next
          /\ inner' = IF next # 0 /\ Nested(next)
                      THEN [inner EXCEPT ![next] = Stepped(Wanting(next), 0, dir).to] ELSE inner

\* panel_event with the tabulator: a panel within goes first, until it is
\* through with its own widgets.
StepFocus(dir) ==
  LET within == Stepped(Wanting(focus), inner[focus], dir)
      next == Stepped(Focusable, focus, dir).to
  IN IF focus # 0 /\ Nested(focus) /\ ~within.wrapped
     THEN inner' = [inner EXCEPT ![focus] = within.to] /\ UNCHANGED focus
     ELSE /\ focus' = next
          /\ inner' = IF next # 0 /\ Nested(next)
                      THEN [Cleared EXCEPT ![next] = Stepped(Wanting(next), 0, dir).to]
                      ELSE Cleared

Tab(dir) ==
  /\ StepFocus(dir)
  /\ beside' = FALSE
  /\ UNCHANGED <<area, field, held, button>>

\* panel_event with a press on item i, and on part j of it if it is a panel; 0
\* is the room between the parts.  The panel around takes the focus first.
\* Bound: the layout has come before, and gave the area some width.
FocusByPress(i, j) ==
  /\ area.w > 0
  /\ button' = TRUE
  /\ IF i \in Focusable
     THEN /\ focus' = i
          /\ inner' = IF j \in Wanting(i) THEN [Cleared EXCEPT ![i] = j] ELSE Cleared
          /\ beside' = (Nested(i) /\ j \notin Wanting(i))
     ELSE UNCHANGED focusVars

\* The widget that gets the keys, the wheel and what the mouse does after a
\* press: the one with the focus, wherever the mouse is.
Reaches(i, j) == focus = i /\ (j # 0 => inner[i] = j)

The(kind) == CHOOSE i \in DOMAIN Items : Items[i] = kind

--------------------------------------------------------------------------------
(* Building the form.                                                      *)

\* form_build: the values are written before the first layout, and the focus
\* goes to the first widget - if that is a panel, to none within.
Init ==
  /\ focus = Stepped(Focusable, 0, 1).to
  /\ inner = [i \in DOMAIN Items |-> 0]
  /\ beside = Nested(focus)
  /\ \E text \in Texts : area = AreaEdited(NewArea, text, Len(text))
  /\ field = NewField
  /\ held = FALSE /\ button = FALSE

\* browser_layout, layout_hstack_fill.
Layout(size) ==
  /\ area' = [area EXCEPT !.w = size.w, !.rows = size.rows]
  /\ field' = [field EXCEPT !.w = size.w]
  /\ UNCHANGED <<focusVars, held, button>>

Draw ==
  /\ area' = EnsuredArea(area)
  /\ UNCHANGED <<focusVars, field, held, button>>

--------------------------------------------------------------------------------
(* Presses.                                                                *)

PressLabel(i) ==
  /\ Items[i] = "label"
  /\ FocusByPress(i, 0)
  /\ UNCHANGED <<area, field, held>>

PressRow(i, j) ==
  /\ Items[i] = "row" /\ j \in DOMAIN Parts(i) \union {0}
  /\ FocusByPress(i, j)
  /\ UNCHANGED <<area, field, held>>

\* Also on the border, and below the last whole line.
PressText(row, x, clicks) ==
  /\ row <= area.rows /\ x <= area.w
  /\ FocusByPress(The("area"), 1)
  /\ area' = AreaPressed(area, row, x, clicks)
  /\ UNCHANGED <<field, held>>

\* The bar wants no focus, but the panel around it does.
PressBar(y) ==
  /\ FocusByPress(The("area"), 2)
  /\ area' = [area EXCEPT !.m = BarPressed(@, BarLen, Arrow, y)]
  /\ held' = (held \/ Grabs(area.m, BarLen, Arrow, y))
  /\ UNCHANGED field

PressField(x, clicks) ==
  /\ x <= field.w
  /\ FocusByPress(The("field"), 0)
  /\ LET p == FieldOffsetAt(field, x)
     IN field' = FieldMoved([field EXCEPT !.caret = IF clicks >= 2 THEN field.len ELSE p,
                                          !.dragging = TRUE])
  /\ UNCHANGED <<area, held>>

--------------------------------------------------------------------------------
(* Everything else goes to the widget with the focus.                      *)

AreaEvent(a) ==
  /\ Reaches(The("area"), 1)
  /\ area' = a
  /\ UNCHANGED <<focusVars, field, held, button>>

DragText(row, x) == area.dragging /\ AreaEvent(AreaDragged(area, row, x))
WheelText(delta) == AreaEvent(AreaWheeled(area, delta))
MoveInText(caret) == AreaEvent(AreaMoved(area, caret))
EditText(text, caret) == AreaEvent(AreaEdited(area, text, caret))

FieldEvent(f) ==
  /\ Reaches(The("field"), 0)
  /\ field' = f
  /\ UNCHANGED <<focusVars, area, held, button>>

DragField(x) ==
  field.dragging /\ FieldEvent(FieldMoved([field EXCEPT !.caret = FieldOffsetAt(field, x)]))
MoveInField(caret) == FieldEvent(FieldMoved([field EXCEPT !.caret = caret]))
EditField(len, caret) == FieldEvent(FieldMoved([field EXCEPT !.len = len, !.caret = caret]))

\* The button is let go, wherever the mouse is: only the widget with the focus
\* hears of it, and the bar is never that.
Release ==
  /\ button
  /\ button' = FALSE
  /\ area' = [area EXCEPT !.dragging = @ /\ ~Reaches(The("area"), 1)]
  /\ field' = [field EXCEPT !.dragging = @ /\ ~Reaches(The("field"), 0)]
  /\ held' = (held /\ ~Reaches(The("area"), 2))
  /\ UNCHANGED focusVars

--------------------------------------------------------------------------------
Pixels == -1 .. Max({size.w : size \in Sizes})
RowsSeen == -1 .. Max({size.rows : size \in Sizes})

Next ==
  \/ \E dir \in {-1, 1} : Tab(dir)
  \/ \E size \in Sizes : Layout(size)
  \/ Draw
  \/ \E i \in DOMAIN Items : PressLabel(i) \/ \E j \in 0 .. 2 : PressRow(i, j)
  \/ \E x \in Pixels, clicks \in 1 .. 2 :
       PressField(x, clicks) \/ \E row \in RowsSeen \ {-1} : PressText(row, x, clicks)
  \/ \E y \in 0 .. BarLen - 1 : PressBar(y)
  \/ \E row \in RowsSeen, x \in Pixels : DragText(row, x)
  \/ Release
  \/ \E delta \in {-1, 1} : WheelText(delta)
  \/ \E caret \in 0 .. Len(area.text) : MoveInText(caret)
  \/ \E text \in Texts : \E caret \in 0 .. Len(text) : EditText(text, caret)
  \/ \E x \in Pixels : DragField(x)
  \/ \E caret \in 0 .. field.len : MoveInField(caret)
  \/ \E len \in 0 .. FieldMax : \E caret \in 0 .. len : EditField(len, caret)

Spec == Init /\ [][Next]_vars

--------------------------------------------------------------------------------
(* Properties.                                                             *)

FocusTypeOK ==
  /\ focus \in Focusable \union {0}
  /\ inner \in [DOMAIN Items -> 0 .. 2]
  /\ \A i \in DOMAIN Items : inner[i] \in Wanting(i) \union {0}
  /\ beside \in BOOLEAN

\* Never two widgets show that the keys go to them (panel_set_focus), and if
\* the focus is on a panel, a widget in it has the keys - unless the last press
\* was beside all of them, on the bar or between two buttons, or the form was
\* just built.
FocusIsInOnePlace ==
  /\ \A i \in DOMAIN Items : inner[i] # 0 => focus = i
  /\ focus # 0 /\ Nested(focus) /\ inner[focus] = 0 => beside

\* The stations of the tabulator, in order.
Stations ==
  LET StationsOf(i) ==
        IF Nested(i) THEN [j \in 1 .. Cardinality(Wanting(i)) |-> <<i, j>>]
        ELSE IF i \in Focusable THEN <<<<i, 0>>>> ELSE <<>>
  IN FoldLeft(LAMBDA s, i : s \o StationsOf(i), <<>>, [i \in DOMAIN Items |-> i])

Station == <<focus, IF focus = 0 THEN 0 ELSE inner[focus]>>

\* The tabulator goes through the widgets of all panels in one circle, and back
\* with shift (step_focus, panel_event): nothing is left out and nothing holds
\* it fast.
TabGoesRound ==
  [][\A dir \in {-1, 1} : Tab(dir) =>
       \A k \in DOMAIN Stations :
         Station = Stations[k] =>
           Station' = Stations[((k - 1 + dir + Len(Stations)) % Len(Stations)) + 1]]_vars

\* A step that edits the text or moves the caret leaves it where it can be seen
\* (scroll_reveal, text_field_scroll_to_cursor), as long as there is room at all -
\* also when only the text behind the caret changes, and lines with it.
CaretIsShown ==
  [][/\ <<area'.text, area'.caret>> # <<area.text, area.caret>> /\ area'.rows > 0 =>
          LineOf(area'.lines, area'.caret) - area'.m.value \in 1 .. area'.m.page
     /\ <<field'.len, field'.caret>> # <<field.len, field.caret>> /\ field'.w > 0 =>
          field'.caret * CharWidth - field'.left \in 0 .. field'.w]_vars

\* Drawn, or at work, since the layout gave it its place.
UpToDate(a) == a.width = WidthOf(a) /\ a.m.page = a.rows

\* What the area shows is the text it has, from a line that exists, and a press
\* on what was drawn finds it.
AreaShowsText ==
  area.valid =>
    /\ LinesAreTheText(area)
    /\ area.m.total = Len(area.lines) /\ area.m.value \in 0 .. ScrollMax(area.m)
    /\ UpToDate(area) => PressFindsCaret(area)

\* Layout, scroll bar, lists and the breaking of lines do what they should, for all
\* samples; looked at once, when the form was built.
WidgetsFit ==
  area.w = 0 /\ area.text = <<>> /\ field = NewField /\ beside = Nested(focus) /\ ~held =>
    /\ \A items \in SampleItems, gap \in {0, 2}, pad \in {0, 1} : LayoutFits(items, gap, pad)
    /\ \A m \in SampleModels, track \in -1 .. 20, least \in {0, 3} :
         m.value <= ScrollMax(m) => ThumbIsSteady(m, track, least)
    /\ \A l \in SampleLists : ListKeepsSight(l)
    /\ \A text \in SampleTexts, w \in 1 .. 7, rows \in 1 .. 2 :
         LET a == AreaEdited([NewArea EXCEPT !.w = w, !.rows = rows], text, Len(text))
         IN LinesAreTheText(a) /\ PressFindsCaret(a)
================================================================================
