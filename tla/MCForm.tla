--------------------------------- MODULE MCForm ---------------------------------
(* A form like that of a note, with a row of buttons at the end.           *)
EXTENDS Form
MCItems == <<"label", "field", "label", "area", "row">>
MCTexts == {<<>>, <<"a", Space, "a">>, <<NewLine, "a", NewLine>>}
MCSizes == {[w |-> 4, rows |-> 1], [w |-> 2, rows |-> 2]}
MCSampleItems ==
  UNION {[1 .. n -> [w : {1, 2, 4}, h : {1, 3}]] : n \in 1 .. 3}
MCSampleModels == [total : 0 .. 9, page : 0 .. 4, value : 0 .. 9]
MCSampleLists ==
  {l \in [rows : 0 .. 3, count : 0 .. 4, selected : -1 .. 3, opened : BOOLEAN,
          m : [total : 0 .. 4, page : 0 .. 3, value : 0 .. 4]] :
     l.selected < l.count /\ l.m.value <= ScrollMax(l.m)}
MCSampleTexts == UNION {[1 .. n -> {"a", Space, NewLine}] : n \in 0 .. 5}
================================================================================
