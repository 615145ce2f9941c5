-------------------------------- MODULE TextArea --------------------------------
(***************************************************************************)
(* The text widgets (ui/widget_text.c): the text area, which breaks its    *)
(* text into lines of the window and keeps the caret in sight, and the     *)
(* text field, which has one line and moves it sideways.                   *)
(*                                                                         *)
(* Offsets count characters, from 0.  Every character is CharWidth pixels  *)
(* wide.  What an edit does to the buffer is in module TextBuf; here it    *)
(* becomes any text with the caret anywhere.                               *)
(***************************************************************************)
EXTENDS Scroll, Sequences, SequencesExt, FiniteSets, FiniteSetsExt

CONSTANTS CharWidth
ASSUME CharWidthAssumption == CharWidth \in Nat \ {0}

Space == " "
NewLine == "n"

\* pos_at_width: the offset whose character is under pixel `target'; from the
\* middle of a character on it is the next one.
PosAtWidth(from, to, target) ==
  Min({p \in from .. to : p = to \/ (p - from) * CharWidth + CharWidth \div 2 >= target})

--------------------------------------------------------------------------------
(* Breaking lines.                                                         *)

Piece(from, to) == [start |-> from, len |-> to - from]

\* The line that begins at `from', and where the next one does: behind the last
\* space that fits, which is not shown, or in the middle of a word.  One
\* character fits always.
PieceFrom(s, from, to, width) ==
  LET fits == Max({1, width \div CharWidth})
      end == IF from + fits < to THEN from + fits ELSE to
      spaces == {p \in from + 1 .. end : s[p] = Space}
      parted == end < to /\ spaces # {}
  IN [piece |-> Piece(from, IF parted THEN Max(spaces) - 1 ELSE end),
      next |-> IF parted THEN Max(spaces) ELSE end]

\* wrap_real_line.
PiecesOfLine(s, from, to, width) ==
  LET rest[p \in from .. to] ==
        IF p = to THEN <<>>
        ELSE LET step == PieceFrom(s, p, to, width) IN <<step.piece>> \o rest[step.next]
  IN IF from = to THEN <<Piece(from, to)>> ELSE rest[from]

\* text_area_rebuild_lines.
Broken(s, width) ==
  LET ends == {p \in 0 .. Len(s) : p = Len(s) \/ s[p + 1] = NewLine}
      EndOf(from) == Min({e \in ends : e >= from})
      rest[from \in 0 .. Len(s) + 1] ==
        IF from > Len(s) THEN <<>>
        ELSE PiecesOfLine(s, from, EndOf(from), width) \o rest[EndOf(from) + 1]
  IN rest[0]

--------------------------------------------------------------------------------
(* The text area: a.w pixels and a.rows lines of room.                      *)

WidthOf(a) == Max({a.w, 1})

\* text_area_ensure_wrap.
EnsuredArea(a) ==
  LET lines == IF a.valid /\ a.width = WidthOf(a) THEN a.lines ELSE Broken(a.text, WidthOf(a))
  IN [a EXCEPT !.lines = lines, !.valid = TRUE, !.width = WidthOf(a),
               !.m = ScrollSet(@, Len(lines), a.rows)]

\* text_area_line_at, counted from 1.
LineOf(lines, p) == Max({i \in DOMAIN lines : lines[i].start <= p} \union {1})

\* text_after_move.
Moved(a) ==
  LET b == EnsuredArea(a) IN [b EXCEPT !.m = Reveal(@, LineOf(b.lines, b.caret) - 1)]

\* Mutant: the lines of the old text stay.
ChangedOnly(a) == Moved(a)

\* text_after_change.
Changed(a) == Moved([a EXCEPT !.valid = FALSE])

\* text_area_pos_at: what is on line `row' of the window, x pixels to the right;
\* both may lie outside when the mouse is dragged.
OffsetAt(a, row, x) ==
  LET b == EnsuredArea(a)
      line == b.lines[Clamped(b.m.value + row, 0, Len(b.lines) - 1) + 1]
  IN PosAtWidth(line.start, line.start + line.len, Max({x, 0}))

\* select_word_at: the end of the word, or of the gap, at p.
WordEnd(s, p) ==
  LET probe == IF p = Len(s) THEN p - 1 ELSE p
      Gap(i) == s[i + 1] \in {Space, NewLine}
  IN IF s = <<>> THEN 0
     ELSE Max({e \in probe + 1 .. Len(s) : \A i \in probe .. e - 1 : Gap(i) = Gap(probe)})

AreaPressed(a, row, x, clicks) ==
  LET p == OffsetAt(a, row, x)
  IN Moved([a EXCEPT !.caret = IF clicks >= 2 THEN WordEnd(a.text, p) ELSE p,
                     !.dragging = TRUE])

AreaDragged(a, row, x) == Moved([a EXCEPT !.caret = OffsetAt(a, row, x)])

AreaWheeled(a, delta) ==
  LET b == EnsuredArea(a) IN [b EXCEPT !.m = ScrollBy(@, delta)]

\* text_widget_set_value, and every edit.
AreaEdited(a, text, caret) == Changed([a EXCEPT !.text = text, !.caret = caret])

AreaMoved(a, caret) == Moved([a EXCEPT !.caret = caret])

NewArea ==
  [text |-> <<>>, caret |-> 0, dragging |-> FALSE, w |-> 0, rows |-> 0,
   lines |-> <<>>, valid |-> FALSE, width |-> 0, m |-> [total |-> 0, page |-> 0, value |-> 0]]

--------------------------------------------------------------------------------
(* The text field: f.w pixels of room, f.left of the line are left of it.   *)

NewField == [len |-> 0, caret |-> 0, left |-> 0, w |-> 0, dragging |-> FALSE]

\* Mutant: the line moves only to the left.
FieldMovedLeft(f) ==
  LET x == f.caret * CharWidth
  IN [f EXCEPT !.left = IF x > f.left + f.w THEN x - f.w ELSE f.left]

\* text_field_scroll_to_cursor.
FieldMoved(f) ==
  LET x == f.caret * CharWidth
  IN [f EXCEPT !.left = IF f.w <= 0 THEN 0
                        ELSE IF x < f.left THEN x
                        ELSE IF x > f.left + f.w THEN x - f.w ELSE f.left]

\* text_field_pos_at.
FieldOffsetAt(f, x) == PosAtWidth(0, f.len, Max({x + f.left, 0}))

--------------------------------------------------------------------------------
(* Properties.                                                             *)

\* The lines of the window are the text, in order: between one and the next
\* there is nothing but the line break or the one space they were parted at,
\* and no line is wider than the room, unless it is a single character
\* (wrap_real_line).
LinesAreTheText(a) ==
  LET EndOf(i) == a.lines[i].start + a.lines[i].len
      Follows(i) ==
        \/ a.lines[i + 1].start = EndOf(i)
        \/ /\ a.lines[i + 1].start = EndOf(i) + 1
           /\ a.text[EndOf(i) + 1] \in {Space, NewLine}
  IN /\ a.lines # <<>>
     /\ a.lines[1].start = 0 /\ EndOf(Len(a.lines)) = Len(a.text)
     /\ \A i \in 1 .. Len(a.lines) - 1 : Follows(i)
     /\ \A i \in DOMAIN a.lines :
          /\ \A p \in a.lines[i].start + 1 .. EndOf(i) : a.text[p] # NewLine
          /\ a.lines[i].len <= 1 \/ a.lines[i].len * CharWidth <= a.width

\* A press at the very place where the caret is drawn for an offset gives that
\* offset (text_area_pos_at and text_area_draw_content agree) - if the offset
\* is on the page.
PressFindsCaret(a) ==
  \A p \in 0 .. Len(a.text) :
    LET line == LineOf(a.lines, p)
        row == line - 1 - a.m.value
    IN row \in 0 .. a.m.page - 1 =>
         OffsetAt(a, row, (p - a.lines[line].start) * CharWidth) = p
================================================================================
