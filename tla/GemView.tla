-------------------------------- MODULE GemView --------------------------------
(***************************************************************************)
(* The viewer of gemtext (app/gemview.c): the text is broken into the      *)
(* lines of the window, links are numbered, one of them may be selected,   *)
(* and a scroll model says which lines are seen.                           *)
(*                                                                         *)
(* Every character is as wide as any other; a frame is so many characters  *)
(* wide and so many lines high.                                            *)
(***************************************************************************)
EXTENDS Scroll, Gemtext

CONSTANTS
  LinesMax,   \* LINES_MAX
  LinksMax,   \* LINKS_MAX
  WidthMin,   \* the least width text is broken to
  Indent      \* kind -> how many characters its lines are indented

Kinds == {"text", "link", "pre", "heading", "item", "quote"}

ASSUME ViewerAssumption ==
  /\ LinesMax \in Nat /\ LinksMax \in Nat /\ WidthMin \in Nat \ {0}
  /\ Indent \in [Kinds -> Nat]

--------------------------------------------------------------------------------
\* A link without a name shows its address.
ShownChars(line) == IF line.kind = "link" /\ line.chars = <<>> THEN line.url ELSE line.chars

LinkLines(lines) == Picked(lines, {i \in DOMAIN lines : lines[i].kind = "link"})

\* What becomes of the text's links: the first LinksMax of them have numbers.
LinksOf(text) ==
  LET links == LinkLines(GemLines(text))
  IN [i \in 1 .. (IF Len(links) < LinksMax THEN Len(links) ELSE LinksMax) |-> links[i].url]

NumberOf(lines, i) ==
  LET n == Cardinality({j \in 1 .. i : lines[j].kind = "link"})
  IN IF lines[i].kind = "link" /\ n <= LinksMax THEN n ELSE 0

--------------------------------------------------------------------------------
(* Breaking lines.                                                         *)

\* Mutant: a word that is longer than the line is not parted.
CutAtSpaces(s, from, avail) ==
  LET spaces == {i \in 1 .. avail - 1 : from + i < Len(s) /\ s[from + i + 1] = " "}
  IN IF Len(s) - from > avail /\ spaces # {} THEN Max(spaces) ELSE Len(s) - from

\* How many characters of s a line takes that begins behind position `from':
\* up to the last space that is not its first character, if there is more.
CutAt(s, from, avail) ==
  LET take == IF Len(s) - from < avail THEN Len(s) - from ELSE avail
      spaces == {i \in 1 .. take - 1 : s[from + i + 1] = " "}
  IN IF from + take < Len(s) /\ spaces # {} THEN Max(spaces) ELSE take

\* wrap_into: the pieces of a line of text.
PiecesOf(s, avail) ==
  LET rest[from \in 0 .. Len(s)] ==
        IF from = Len(s) THEN <<>>
        ELSE LET to == from + CutAt(s, from, avail)
             IN <<SubSeq(s, from + 1, to)>> \o rest[Skipped(s, to)]
  IN IF s = <<>> THEN <<s>> ELSE rest[0]

Avail(line, width) ==
  IF width - Indent[line.kind] < WidthMin THEN WidthMin ELSE width - Indent[line.kind]

\* on_gem_line: the lines of the window that line i of the text makes.
DisplayOf(lines, i, width) ==
  LET line == lines[i]
      pieces == IF line.kind = "pre" THEN <<line.chars>>
                ELSE PiecesOf(ShownChars(line), Avail(line, width))
  IN [k \in DOMAIN pieces |-> [chars |-> pieces[k], link |-> NumberOf(lines, i), line |-> i]]

\* ensure_wrap, the broken lines; those beyond LinesMax are left out.
Wrapped(text, width) ==
  LET lines == GemLines(text)
      upTo[i \in 0 .. Len(lines)] ==
        IF i = 0 THEN <<>> ELSE upTo[i - 1] \o DisplayOf(lines, i, width)
      all == upTo[Len(lines)]
  IN IF Len(all) <= LinesMax THEN all ELSE SubSeq(all, 1, LinesMax)

--------------------------------------------------------------------------------
(* The viewer.                                                             *)

NewView ==
  [src |-> <<>>, valid |-> FALSE, width |-> 0, lines |-> <<>>, links |-> <<>>,
   selected |-> 0, opened |-> FALSE, m |-> [total |-> 0, page |-> 0, value |-> 0]]

\* ensure_wrap.
Ensured(view, frame) ==
  LET width == IF frame.w > WidthMin THEN frame.w ELSE WidthMin
      links == LinksOf(view.src)
      fresh == [view EXCEPT !.lines = Wrapped(view.src, width), !.links = links,
                            !.valid = TRUE, !.width = width,
                            !.selected = IF @ > Len(links) THEN 0 ELSE @]
      v == IF view.valid /\ view.width = width THEN view ELSE fresh
  IN [v EXCEPT !.m = ScrollSet(@, Len(v.lines), frame.h)]

\* gemview_set_text.
TextSet(view, text) ==
  [view EXCEPT !.src = text, !.valid = FALSE, !.selected = 0, !.m.value = 0]

\* gemview_link_url: links are numbered from 1, as they are shown.
LinkUrl(v, number) == IF number \in DOMAIN v.links THEN v.links[number] ELSE <<>>

\* gemview_select_link.  Number 0 is not the number of a link, but that of every
\* line that is none: the first of these is brought into view.
LinkSelected(v, number) ==
  LET shown == {i \in DOMAIN v.lines : v.lines[i].link = number}
  IN IF number > Len(v.links) THEN v
     ELSE [v EXCEPT !.selected = number,
                    !.m = IF shown = {} THEN @ ELSE Reveal(@, Min(shown) - 1)]

\* A press on a line of the window, counted from 0.
Pressed(v, row, clicks) ==
  LET i == v.m.value + row + 1
  IN IF i \notin DOMAIN v.lines \/ v.lines[i].link = 0 THEN v
     ELSE [LinkSelected(v, v.lines[i].link) EXCEPT !.opened = @ \/ clicks >= 2]

\* A digit: the number typed so far goes on as long as there is such a link.
DigitTyped(v, digit) ==
  LET wide == v.selected * 10 + digit
  IN LinkSelected(v, IF wide >= 1 /\ wide <= Len(v.links) THEN wide
                     ELSE IF digit >= 1 /\ digit <= Len(v.links) THEN digit
                     ELSE 0)

\* The keys that scroll.
KeyScrolled(v, key) ==
  [v EXCEPT !.m =
     CASE key = "up"        -> ScrollBy(@, -1)
       [] key = "down"      -> ScrollBy(@, 1)
       [] key = "page_up"   -> ScrollPages(@, -1)
       [] key = "page_down" -> ScrollPages(@, 1)
       [] key = "home"      -> ScrollTo(@, 0)
       [] key = "end"       -> ScrollTo(@, Len(v.lines))]

--------------------------------------------------------------------------------
(* Properties of a viewer whose lines are broken.                          *)

\* Each line of the text is found on consecutive lines of the window, with all
\* its characters but spaces, none of them wider than the room there is, and
\* each with the number that leads to its address (wrap_into, on_gem_line) - as
\* far as there is room for lines.
LinesShowText(v, width) ==
  LET lines == GemLines(v.src)
      CharsOf(i) ==
        LET upTo[k \in 0 .. Len(v.lines)] ==
              IF k = 0 THEN <<>>
              ELSE IF v.lines[k].line = i THEN upTo[k - 1] \o Solid(v.lines[k].chars)
              ELSE upTo[k - 1]
        IN upTo[Len(v.lines)]
  IN /\ Len(v.lines) < LinesMax =>
          \A i \in DOMAIN lines : CharsOf(i) = Solid(ShownChars(lines[i]))
     /\ \A k \in DOMAIN v.lines :
          LET part == v.lines[k]
          IN /\ lines[part.line].kind # "pre" =>
                  Len(part.chars) <= Avail(lines[part.line], width)
             /\ part.link # 0 => v.links[part.link] = lines[part.line].url
================================================================================
