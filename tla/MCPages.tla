-------------------------------- MODULE MCPages --------------------------------
(* Small pages on one server, with every kind of reply it may give.        *)
EXTENDS PageBrowser

Digits == {"0", "1", "2", "3", "4", "5", "6", "7", "8", "9"}
MCDigitValue ==
  [ch \in Digits |-> CASE ch = "0" -> 0 [] ch = "1" -> 1 [] ch = "2" -> 2 [] ch = "3" -> 3
                       [] ch = "4" -> 4 [] ch = "5" -> 5 [] ch = "6" -> 6 [] ch = "7" -> 7
                       [] ch = "8" -> 8 [] ch = "9" -> 9]

MCIndent == [kind \in {"text", "link", "pre", "heading", "item", "quote"} |-> IF kind = "link" THEN 2 ELSE 0]

MCStart == Scheme \o <<"h", "/">>

Link(url) == <<"=", ">", " ">> \o url

Home ==
  <<Link(<<"d", "/", " ", "a", " ", "b", "c", "d">>), Link(<<"x">>), <<"*", " ", "a">>>>
Sub ==
  <<<<"#", "#", " ", "H">>, Link(<<".", ".", "/", " ", "a">>), <<"~", "~", "~">>>>

Page(body) == [status |-> 2, meta |-> <<"m">>, body |-> body]

OfRoot == {Page(Home), [status |-> 9, meta |-> <<>>, body |-> <<>>]}
OfSub == {Page(Sub), [status |-> 3, meta |-> <<"/">>, body |-> <<>>]}
OfOthers ==
  {[status |-> 4, meta |-> <<"m">>, body |-> <<Link(<<>>), <<">", "a">>>>],
   [status |-> 2, meta |-> <<"m", "m", "m">>, body |-> <<>>]}

MCReplies == OfRoot \union OfSub \union OfOthers
MCGives(host, path, reply) ==
  /\ host = <<"h">>
  /\ reply \in CASE path = <<"/">>           -> OfRoot
                 [] path = <<"/", "d", "/">> -> OfSub
                 [] OTHER                    -> OfOthers

MCFrames == {[w |-> 4, h |-> 2], [w |-> 5, h |-> 2]}

MCTyped == {<<"h">>}

MCPaths ==
  {<<"/">> \o path : path \in UNION {[1 .. n -> {"/", ".", "a"}] : n \in 0 .. 6}}
MCLines == UNION {[1 .. n -> {"=", ">", "#", "*", " ", "a"}] : n \in 0 .. 5}
MCTexts ==
  {scheme \o text : scheme \in {<<>>, Scheme},
                    text \in UNION {[1 .. n -> {"h", ":", "/", "1", " "}] : n \in 0 .. 4}}
================================================================================
