--------------------------------- MODULE Gemtext ---------------------------------
(***************************************************************************)
(* The lines of a gemtext (store/gemtext.c): what kind each one is, what   *)
(* of it is shown, and where a link leads.  A text is a sequence of lines, *)
(* a line a sequence of characters; " " stands for either kind of space,   *)
(* "~" for the back quote.                                                 *)
(***************************************************************************)
EXTENDS Integers, FiniteSets, SequencesExt, FiniteSetsExt

\* The entries of s at the places in K, in their order.
Picked(s, K) ==
  MapThenFoldSet(LAMBDA k, before : Append(before, s[k]), <<>>, LAMBDA k : k, Max, K)

\* Behind the spaces that follow position p.
Skipped(s, p) == Min({q \in p .. Len(s) : q = Len(s) \/ s[q + 1] # " "})

\* is_fence.
IsFence(line) == IsPrefix(<<"~", "~", "~">>, line)

GemLine(kind, chars, url) == [kind |-> kind, chars |-> chars, url |-> url]
PlainLine(kind, line) == GemLine(kind, line, <<>>)

\* set_prefixed: without its first n characters, and without the spaces there.
Prefixed(kind, line, n) ==
  PlainLine(kind, SubSeq(line, Skipped(line, n) + 1, Len(line)))

\* set_link: "=>", an address, and what is left as the name.  Without an
\* address the line stays text.
LinkLine(line) ==
  LET from == Skipped(line, 2)
      to == Min({q \in from .. Len(line) : q = Len(line) \/ line[q + 1] = " "})
  IN IF from = Len(line) THEN PlainLine("text", line)
     ELSE GemLine("link", SubSeq(line, Skipped(line, to) + 1, Len(line)),
                  SubSeq(line, from + 1, to))

\* How many of the characters of a heading make its level.
Level(line) ==
  Max({n \in 1 .. 3 : n <= Len(line) /\ \A i \in 1 .. n : line[i] = "#"})

\* classify.
Classified(line) ==
  CASE IsPrefix(<<"=", ">">>, line) -> LinkLine(line)
    [] IsPrefix(<<"#">>, line)      -> Prefixed("heading", line, Level(line))
    [] IsPrefix(<<"*", " ">>, line) -> Prefixed("item", line, 2)
    [] IsPrefix(<<">">>, line)      -> Prefixed("quote", line, 1)
    [] OTHER                        -> PlainLine("text", line)

\* gemtext_parse: a fence shows nothing, and turns what follows into
\* preformatted lines or back.
Preformatted(text, i) == Cardinality({j \in 1 .. i - 1 : IsFence(text[j])}) % 2 = 1

GemLines(text) ==
  LET LineOf(i) == IF Preformatted(text, i) THEN PlainLine("pre", text[i])
                   ELSE Classified(text[i])
  IN Picked([i \in DOMAIN text |-> LineOf(i)], {i \in DOMAIN text : ~IsFence(text[i])})

--------------------------------------------------------------------------------
Solid(s) == Picked(s, {i \in DOMAIN s : s[i] # " "})

\* Nothing of a line is lost but the characters that say what it is: address and
\* name are found in it, in this order (set_link, set_prefixed).
NothingIsLost(line) ==
  LET c == Classified(line)
      lost == CASE c.kind = "text"    -> 0
                [] c.kind = "link"    -> 2
                [] c.kind = "heading" -> Level(line)
                [] OTHER              -> 1
  IN /\ Solid(c.url \o c.chars) = SubSeq(Solid(line), lost + 1, Len(Solid(line)))
     /\ c.kind = "link" => c.url # <<>>
================================================================================
