------------------------------- MODULE MCBrowser -------------------------------
(* Model checking instances of Browser.  The run that passes has three     *)
(* records, so that there is a neighbour on both sides; the one with long  *)
(* notes has two.                                                          *)
EXTENDS Browser, TLC
CONSTANTS a, b, c
TwoIds == {a, b}
ThreeIds == {a, b, c}
Titles == 0 .. 2
MCBodies == {0, 1}
ShortBodies == {0}
LongBodies == {0, 1}
BodyLast == <<"title", "body">>

\* Bound of the run with three records: while there are three files, no filter
\* is set and none of them is broken, and a form is open only while the rows
\* are current.
Files == {id \in Ids : disk[id] # Absent}
FewAtOnce ==
  Files = Ids =>
    /\ filter = 0 /\ \A id \in Ids : disk[id] # Broken
    /\ ids = rows \/ form = NoForm

Symmetry == Permutations(Ids)
================================================================================
