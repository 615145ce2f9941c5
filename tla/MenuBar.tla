-------------------------------- MODULE MenuBar --------------------------------
(***************************************************************************)
(* The menu bar of ui/menu.c as functions of its state: what it keeps from *)
(* the windows, how its state changes, and which action it asks for.  Two  *)
(* gestures choose an item: press, drag and release, or one click on the   *)
(* title and a second one on the item.                                     *)
(*                                                                         *)
(* The bar takes the uppermost MenubarH rows of the screen.  The i-th      *)
(* title stands in the i-th column, and its items hang below it in the     *)
(* same column, one to a row.                                              *)
(***************************************************************************)
EXTENDS Integers, Sequences

CONSTANTS
  Menus,     \* the menus, each a sequence of the actions of its items
  Separator, \* the item that is only a line
  NoAction,  \* no action is asked for
  MenubarH   \* the height of the bar

\* open, press and light count from 1; 0 is the -1 of the code, and an open
\* of 0 stands for the flag of the same name being false.
Titles == 1 .. Len(Menus)
Indexes(menu) == 1 .. Len(menu)
MenuStates ==
  {[open |-> o, press |-> p, light |-> l] :
     o \in {0} \union Titles, p \in {0} \union Titles,
     l \in {0} \union UNION {Indexes(Menus[t]) : t \in Titles}}
Closed == [open |-> 0, press |-> 0, light |-> 0]

InBar(p) == p[2] < MenubarH

\* hit_title and hit_item.
TitleAt(p) == IF InBar(p) /\ p[1] + 1 \in Titles THEN p[1] + 1 ELSE 0
ItemAt(m, p) ==
  LET i == p[2] - MenubarH + 1
  IN  IF m.open # 0 /\ p[1] + 1 = m.open /\ i \in Indexes(Menus[m.open]) THEN i ELSE 0

Selectable(t, i) == i # 0 /\ Menus[t][i] # Separator
LitAt(m, p) == LET i == ItemAt(m, p) IN IF Selectable(m.open, i) THEN i ELSE 0

\* current_item.
Chosen(m) == IF m.open # 0 /\ m.light # 0 THEN Menus[m.open][m.light] ELSE NoAction

--------------------------------------------------------------------------------
(* menubar_event: the mouse.                                               *)

DownTakes(m, p) == m.open # 0 \/ InBar(p)

AfterDown(m, p) ==
  LET t == TitleAt(p)
  IN  IF t # 0 /\ t # m.open THEN [open |-> t, press |-> t, light |-> 0]
      ELSE IF t = 0 /\ ItemAt(m, p) # 0 THEN [m EXCEPT !.press = 0, !.light = LitAt(m, p)]
      ELSE Closed

\* Mutant: a closed menu bar lets the moves of the mouse through.
MoveTakesIfOpen(m, p) == m.open # 0

MoveTakes(m, p) == m.open # 0 \/ InBar(p)

AfterMove(m, p) ==
  LET t == TitleAt(p)
  IN  IF m.open = 0 THEN m
      ELSE IF t # 0 /\ t # m.open THEN [m EXCEPT !.open = t, !.light = 0]
      ELSE [m EXCEPT !.light = LitAt(m, p)]

UpTakes(m, p) == m.open # 0 \/ InBar(p)

\* Released over the title that was pressed: the menu stays open.
Stays(m, p) == m.open = 0 \/ (m.press # 0 /\ TitleAt(p) = m.press)
UpAction(m, p) == IF Stays(m, p) THEN NoAction ELSE Chosen(m)
AfterUp(m, p) == IF Stays(m, p) THEN [m EXCEPT !.press = 0] ELSE Closed

--------------------------------------------------------------------------------
(* handle_key: the keys an open menu gets.                                 *)

MenuKeys == {"left", "right", "up", "down", "return", "escape"}

\* first_selectable and move_highlight, whose search goes round.
Least(S) == CHOOSE i \in S : \A j \in S : i <= j
Greatest(S) == CHOOSE i \in S : \A j \in S : j <= i
Choices(t) == {i \in Indexes(Menus[t]) : Selectable(t, i)}
FirstOf(S) == IF S = {} THEN 0 ELSE Least(S)
NextItem(t, i) ==
  LET below == {j \in Choices(t) : j > i}
  IN  IF Choices(t) = {} THEN i ELSE IF below # {} THEN Least(below) ELSE Least(Choices(t))
PreviousItem(t, i) ==
  LET above == {j \in Choices(t) : j < i}
  IN  IF Choices(t) = {} THEN i ELSE IF above # {} THEN Greatest(above) ELSE Greatest(Choices(t))

OpenedByKey(m, t) == [m EXCEPT !.open = t, !.light = FirstOf(Choices(t))]

KeyAction(m, k) == IF k = "return" THEN Chosen(m) ELSE NoAction

AfterKey(m, k) ==
  CASE k = "left"  -> OpenedByKey(m, IF m.open = 1 THEN Len(Menus) ELSE m.open - 1)
    [] k = "right" -> OpenedByKey(m, IF m.open = Len(Menus) THEN 1 ELSE m.open + 1)
    [] k = "up"    -> [m EXCEPT !.light = PreviousItem(m.open, m.light)]
    [] k = "down"  -> [m EXCEPT !.light = NextItem(m.open, m.light)]
    [] k = "escape" \/ (k = "return" /\ m.light # 0) ->
         [m EXCEPT !.open = 0, !.light = 0]
    [] OTHER -> m
================================================================================
