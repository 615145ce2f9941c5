--------------------------------- MODULE Scroll ---------------------------------
(***************************************************************************)
(* The scroll model, three numbers that a text and its scroll bar share    *)
(* (ui/scroll.c), and the scroll bar as far as it works on them            *)
(* (ui/widget_scroll.c).  Positions are pixels along the axis of the bar,  *)
(* counted from the first pixel of its frame.                              *)
(***************************************************************************)
EXTENDS Integers

Clamped(v, lo, hi) == IF v < lo THEN lo ELSE IF v > hi THEN hi ELSE v

\* div_round: to the nearest, for numbers that are not negative.
Rounded(num, den) == (num + den \div 2) \div den

ScrollMax(m) == IF m.total > m.page THEN m.total - m.page ELSE 0

ScrollNeeded(m) == m.total > m.page

ScrollTo(m, v) == [m EXCEPT !.value = Clamped(v, 0, ScrollMax(m))]

ScrollBy(m, delta) == ScrollTo(m, m.value + delta)

ScrollPages(m, pages) ==
  ScrollTo(m, m.value + pages * (IF m.page > 0 THEN m.page ELSE 1))

\* scroll_set, for numbers that are not negative.
ScrollSet(m, total, page) ==
  ScrollTo([m EXCEPT !.total = total, !.page = page], m.value)

\* scroll_reveal: as little as it takes to have the line on the page.
Reveal(m, index) ==
  LET i == Clamped(index, 0, m.total - 1)
  IN IF m.total <= 0 THEN m
     ELSE IF i < m.value THEN ScrollTo(m, i)
     ELSE IF m.page > 0 /\ i >= m.value + m.page THEN ScrollTo(m, i - m.page + 1)
     ELSE ScrollTo(m, m.value)

--------------------------------------------------------------------------------
(* The thumb in a track of so many pixels, and no shorter than least.       *)

ThumbLen(m, track, least) ==
  LET len == Rounded(track * m.page, m.total)
      bound == IF least > track THEN track ELSE IF least < 1 THEN 1 ELSE least
  IN IF len < bound THEN bound ELSE len

Span(m, track, least) == track - ThumbLen(m, track, least)

\* scroll_thumb: where it begins, from the beginning of the track.
ThumbPos(m, track, least) ==
  IF track <= 0 \/ ~ScrollNeeded(m) THEN 0
  ELSE Rounded(m.value * Span(m, track, least), ScrollMax(m))

ThumbLength(m, track, least) ==
  IF track <= 0 THEN 0
  ELSE IF ~ScrollNeeded(m) THEN track
  ELSE ThumbLen(m, track, least)

\* Mutant: the quotient is cut off instead of rounded.
ValueAtCut(m, track, least, pos) ==
  IF track <= 0 \/ ~ScrollNeeded(m) THEN 0
  ELSE LET span == Span(m, track, least)
       IN IF span <= 0 THEN m.value
          ELSE (Clamped(pos, 0, span) * ScrollMax(m)) \div span

\* scroll_value_at: the position that belongs to a thumb that begins at pos.
ValueAt(m, track, least, pos) ==
  IF track <= 0 \/ ~ScrollNeeded(m) THEN 0
  ELSE LET span == Span(m, track, least)
       IN IF span <= 0 THEN m.value
          ELSE Rounded(Clamped(pos, 0, span) * ScrollMax(m), span)

\* A thumb lies in its track, and to take hold of it and not move it moves
\* nothing (scroll_thumb and scroll_value_at undo each other) - where the track
\* has a pixel for every position.
ThumbIsSteady(m, track, least) ==
  LET pos == ThumbPos(m, track, least)
  IN track > 0 =>
       /\ 0 <= pos /\ pos + ThumbLength(m, track, least) <= track
       /\ ScrollNeeded(m) /\ Span(m, track, least) >= ScrollMax(m) =>
            ValueAt(m, track, least, pos) = m.value

--------------------------------------------------------------------------------
(* The scroll bar: two arrows of `arrow' pixels, and between them, sharing  *)
(* a line with each, the track (sb_layout).  b holds dragging and grab.     *)

TrackPos(arrow) == arrow - 1
TrackLen(len, arrow) == len - 2 * arrow + 2

\* Where the thumb begins on the bar.
ThumbStart(m, len, arrow) ==
  TrackPos(arrow) + ThumbPos(m, TrackLen(len, arrow), arrow)

OnThumb(m, len, arrow, y) ==
  LET start == ThumbStart(m, len, arrow)
  IN start <= y /\ y < start + ThumbLength(m, TrackLen(len, arrow), arrow)

\* A press at y within the frame: what becomes of the model.
BarPressed(m, len, arrow, y) ==
  IF ~ScrollNeeded(m) THEN m
  ELSE IF y < arrow THEN ScrollBy(m, -1)
  ELSE IF y >= len - arrow THEN ScrollBy(m, 1)
  ELSE IF OnThumb(m, len, arrow, y) THEN m
  ELSE ScrollPages(m, IF y < ThumbStart(m, len, arrow) THEN -1 ELSE 1)

\* A press takes hold of the thumb.
Grabs(m, len, arrow, y) ==
  ScrollNeeded(m) /\ y >= arrow /\ y < len - arrow /\ OnThumb(m, len, arrow, y)

\* The mouse moved to y with the thumb held at `grab'.
BarMoved(m, len, arrow, grab, y) ==
  ScrollTo(m, ValueAt(m, TrackLen(len, arrow), arrow, y - grab - TrackPos(arrow)))
================================================================================
