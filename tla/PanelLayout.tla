------------------------------ MODULE PanelLayout ------------------------------
(***************************************************************************)
(* How a panel places its widgets (ui/panel.c): below each other, side by  *)
(* side, side by side with the first as wide as there is room, or as the   *)
(* two columns of a form; and how large it wants to be itself.             *)
(*                                                                         *)
(* A widget is the size it wants, a frame is where it is put.              *)
(***************************************************************************)
EXTENDS Integers, Sequences, FiniteSetsExt

Widest(items, S) == Max({items[i].w : i \in S} \union {0})
Highest(items, S) == Max({items[i].h : i \in S} \union {0})
Gaps(n, gap) == IF n > 1 THEN (n - 1) * gap ELSE 0
Sized(w, h) == [w |-> w, h |-> h]
Framed(x, y, w, h) == [x |-> x, y |-> y, w |-> w, h |-> h]

\* What the loop over the widgets has added up after the first k of them.
Sums(amounts) ==
  LET upTo[k \in 0 .. Len(amounts)] == IF k = 0 THEN 0 ELSE upTo[k - 1] + amounts[k]
  IN upTo

\* An empty panel wants no room, any other the pads besides what its widgets want.
Padded(size, items, pad) == IF items = <<>> THEN 0 ELSE size + 2 * pad

\* Sizes along the panel, with a gap behind each but the last.
Spaced(sizes, gap) == [i \in DOMAIN sizes |-> sizes[i] + (IF i < Len(sizes) THEN gap ELSE 0)]
Heights(items) == [i \in DOMAIN items |-> items[i].h]
Widths(items) == [i \in DOMAIN items |-> items[i].w]

VStack(items, gap, pad, area) ==
  LET y == Sums(Spaced(Heights(items), gap))
  IN [i \in DOMAIN items |->
        Framed(area.x + pad, area.y + y[i - 1], area.w - 2 * pad, items[i].h)]

MeasuredVStack(items, gap, pad) ==
  Sized(Padded(Widest(items, DOMAIN items), items, pad),
        Sums(Spaced(Heights(items), gap))[Len(items)])

HStack(items, gap, pad, area) ==
  LET x == Sums(Spaced(Widths(items), gap))
  IN [i \in DOMAIN items |->
        Framed(area.x + x[i - 1], area.y + pad, items[i].w, area.h - 2 * pad)]

MeasuredHStack(items, gap, pad) ==
  Sized(Sums(Spaced(Widths(items), gap))[Len(items)],
        Padded(Highest(items, DOMAIN items), items, pad))

\* layout_hstack_fill: neighbours share the pixel between them.
HStackFill(items, pad, area) ==
  LET fixed == Sums([i \in DOMAIN items |-> IF i = 1 THEN 0 ELSE items[i].w - 1])[Len(items)]
      width == [i \in DOMAIN items |->
                  Max({1, IF i = 1 THEN area.w - fixed ELSE items[i].w})]
      x == Sums([i \in DOMAIN items |-> width[i] - 1])
  IN [i \in DOMAIN items |->
        Framed(area.x + x[i - 1], area.y + pad, width[i], area.h - 2 * pad)]

--------------------------------------------------------------------------------
(* The form: items 1 and 2 share a row, 3 and 4 the next; a last one without *)
(* a partner has a row of its own, all the way across.                      *)

RowOf(i) == (i + 1) \div 2
RowsOf(items) == RowOf(Len(items))
InRow(items, r) == {i \in {2 * r - 1, 2 * r} : i <= Len(items)}
Lone(items, i) == i = Len(items) /\ i % 2 = 1
Lefts(items) == {i \in DOMAIN items : i % 2 = 1 /\ ~Lone(items, i)}
Rights(items) == {i \in DOMAIN items : i % 2 = 0}

\* form_left_width.
LeftWidth(items) == Widest(items, Lefts(items))

RowHeights(items) == [r \in 1 .. RowsOf(items) |-> Highest(items, InRow(items, r))]

FormColumns(items, gap, pad, area) ==
  LET left == LeftWidth(items)
      content == area.w - 2 * pad
      height == RowHeights(items)
      y == Sums(Spaced(height, gap))
      x == area.x + pad
      Top(i) == area.y + y[RowOf(i) - 1]
  IN [i \in DOMAIN items |->
        IF Lone(items, i) THEN Framed(x, Top(i), content, items[i].h)
        ELSE IF i % 2 = 1 THEN Framed(x, Top(i), left, height[RowOf(i)])
        ELSE Framed(x + left + gap, Top(i), content - left - gap, height[RowOf(i)])]

MeasuredForm(items, gap, pad) ==
  LET paired == IF Rights(items) = {} THEN 0
                ELSE LeftWidth(items) + gap + Widest(items, Rights(items))
      alone == Widest(items, {i \in DOMAIN items : Lone(items, i)})
  IN Sized(Padded(Max({paired, alone}), items, pad),
           Sums(RowHeights(items))[RowsOf(items)] + Gaps(RowsOf(items), gap))

--------------------------------------------------------------------------------
(* What a layout should do with an area.                                    *)

Right(frame) == frame.x + frame.w
Bottom(frame) == frame.y + frame.h

\* Nothing sticks out, and every side of the room is reached.
Fills(frames, x, y, right, bottom) ==
  /\ Min({frames[i].x : i \in DOMAIN frames}) = x
  /\ Min({frames[i].y : i \in DOMAIN frames}) = y
  /\ Max({Right(frames[i]) : i \in DOMAIN frames}) = right
  /\ Max({Bottom(frames[i]) : i \in DOMAIN frames}) = bottom

\* Two frames share at most so many pixels along one of the axes.
Apart(f, g, shared) ==
  \/ Right(f) <= g.x + shared \/ Right(g) <= f.x + shared
  \/ Bottom(f) <= g.y \/ Bottom(g) <= f.y

AllApart(frames, shared) ==
  \A i, j \in DOMAIN frames : i # j => Apart(frames[i], frames[j], shared)

LargeEnough(frames, items) ==
  \A i \in DOMAIN items : frames[i].w >= items[i].w /\ frames[i].h >= items[i].h

\* A panel that is given the size it asked for gives every widget at least the
\* size that one asked for, with nothing left and nothing sticking out, and no
\* widget on another ("ohne Rest oder Ueberhang", panel.c:94-102); where the
\* first widget takes what is left, any width will do that leaves it a pixel.
LayoutFits(items, gap, pad) ==
  LET Given(size) == Framed(3, 2, size.w, size.h)
      v == Given(MeasuredVStack(items, gap, pad))
      h == Given(MeasuredHStack(items, gap, pad))
      f == Given(MeasuredForm(items, gap, pad))
      Fit(frames, area, padx, pady) ==
        /\ Fills(frames, area.x + padx, area.y + pady, Right(area) - padx, Bottom(area) - pady)
        /\ AllApart(frames, 0) /\ LargeEnough(frames, items)
      filled == HStackFill(items, pad, h)
  IN items # <<>> =>
       /\ Fit(VStack(items, gap, pad, v), v, pad, 0)
       /\ Fit(HStack(items, gap, pad, h), h, 0, pad)
       /\ Fit(FormColumns(items, gap, pad, f), f, pad, 0)
       /\ Fills(filled, h.x, h.y + pad, Right(h), Bottom(h) - pad) /\ AllApart(filled, 1)
================================================================================
