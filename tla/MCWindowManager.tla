---------------------------- MODULE MCWindowManager ----------------------------
(* Model checking instance of WindowManager: two windows of an application  *)
(* and a dialog on a screen of 3 x 4 cells.                                 *)
EXTENDS WindowManager, TLC
CONSTANTS a, b, d
MCWindows == {a, b, d}
MCFlags == (a :> {"closable", "movable", "resizable"})
        @@ (b :> {"closable", "movable", "resizable"}) @@ (d :> {"modal"})
MCFirstFrames == {[x |-> 0, y |-> 1, w |-> 2, h |-> 3]}
Symmetry == Permutations({a, b})
================================================================================
