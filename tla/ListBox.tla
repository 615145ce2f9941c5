--------------------------------- MODULE ListBox ---------------------------------
(***************************************************************************)
(* A list of lines, of which one may be selected (ui/widget_list.c): the   *)
(* records of a collection, or the values of a choice in a form.  Lines    *)
(* are numbered from 0; selected is -1 if none is.  The rows that fit in   *)
(* its frame are known to the list only when it is drawn or gets an event. *)
(***************************************************************************)
EXTENDS Scroll

NewList ==
  [rows |-> 0, count |-> 0, selected |-> -1, opened |-> FALSE,
   m |-> [total |-> 0, page |-> 0, value |-> 0]]

\* list_sync.
Synced(l) == [l EXCEPT !.m = ScrollSet(@, l.count, l.rows)]

\* list_ensure_visible.
SelectionShown(l) ==
  IF l.selected < 0 THEN l ELSE [Synced(l) EXCEPT !.m = Reveal(@, l.selected)]

\* list_set_items, list_set_items_copy.
Filled(l, count) ==
  SelectionShown([l EXCEPT !.count = count, !.selected = IF count > 0 THEN 0 ELSE -1])

\* list_select_valid: what is no line selects nothing.
SelectedLine(l, index) ==
  IF index \notin 0 .. l.count - 1 THEN l ELSE SelectionShown([l EXCEPT !.selected = index])

\* list_goto: to the line, or to the nearest there is.
Went(l, index) ==
  IF l.count = 0 THEN [l EXCEPT !.selected = -1]
  ELSE SelectionShown([l EXCEPT !.selected = Clamped(index, 0, l.count - 1)])

\* list_hit: the line that is drawn in a row, if any.
LineInRow(l, row) ==
  IF row \in 0 .. l.rows - 1 /\ l.m.value + row < l.count THEN l.m.value + row ELSE -1

\* list_event.
ListPressed(unsynced, row, clicks) ==
  LET l == Synced(unsynced)
      line == LineInRow(l, row)
  IN IF line = -1 THEN l
     ELSE [SelectedLine(l, line) EXCEPT !.opened = @ \/ clicks >= 2]

ListWheeled(l, delta) == [Synced(l) EXCEPT !.m = ScrollBy(@, delta)]

ListPage(l) == IF l.rows > 0 THEN l.rows ELSE 1

ListKey(unsynced, key) ==
  LET l == Synced(unsynced)
  IN CASE key = "up"        -> Went(l, l.selected - 1)
       [] key = "down"      -> Went(l, l.selected + 1)
       [] key = "page_up"   -> Went(l, l.selected - ListPage(l))
       [] key = "page_down" -> Went(l, l.selected + ListPage(l))
       [] key = "home"      -> Went(l, 0)
       [] key = "end"       -> Went(l, l.count - 1)
       [] key = "return"    -> [l EXCEPT !.opened = @ \/ l.selected >= 0]

--------------------------------------------------------------------------------
Shows(l, line) == LineInRow(Synced(l), line - Synced(l).m.value) = line

\* Whatever frame and contents became of a list since it last knew its rows: a key
\* that moves the selection leaves it on a line that is seen, a press selects the
\* line that was drawn under the mouse, and neither the wheel nor new contents
\* leave the view behind the last line (list_goto, list_hit, list_sync).
ListKeepsSight(l) ==
  /\ \A key \in {"up", "down", "page_up", "page_down", "home", "end"} :
       LET k == ListKey(l, key)
       IN /\ k.selected \in -1 .. k.count - 1
          /\ (k.selected = -1) = (l.count = 0)
          /\ l.count > 0 /\ l.rows > 0 => Shows(k, k.selected)
  /\ \A row \in -1 .. l.rows :
       LET p == ListPressed(l, row, 2)
           line == LineInRow(Synced(l), row)
       IN IF line = -1 THEN p = Synced(l)
          ELSE p.selected = line /\ p.opened /\ p.m = Synced(l).m
  /\ \A delta \in {-1, 1} : ListWheeled(l, delta).m.value \in 0 .. ScrollMax(Synced(l).m)
  /\ \A count \in 0 .. 3 :
       LET f == Filled(l, count)
       IN (f.selected = -1) = (count = 0) /\ (count > 0 /\ l.rows > 0 => Shows(f, 0))
================================================================================
