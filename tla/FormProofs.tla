------------------------------- MODULE FormProofs -------------------------------
(***************************************************************************)
(* The form and the text model behind its text fields.                     *)
(*                                                                         *)
(* The form, for any widgets in any order, any texts and any sizes: the    *)
(* focus is in one place, whatever is pressed, tabbed, laid out and        *)
(* edited; the lines of the text area are its text; a caret that moves is  *)
(* in sight; the tabulator reaches every widget before it comes back; and  *)
(* whatever the sizes, the widgets lie within the form and apart.  What    *)
(* the proofs need of line breaking, scrolling, lists, thumbs and layouts  *)
(* is stated for all of them, not for samples.                             *)
(*                                                                         *)
(* The text model, for any texts, typed, loaded, undone and redone in any  *)
(* order: characters stay whole, every step fits the text it will meet,    *)
(* and the stacks of steps implement the line of versions of UndoHistory.  *)
(***************************************************************************)
EXTENDS Form, TextBuf, SequenceTheorems, WellFoundedInduction, FiniteSetTheorems, TLAPS

--------------------------------------------------------------------------------
(* The smallest and the greatest of some numbers.                          *)

\* Min finds the smallest of some natural numbers.
LEMMA MinIsLeast ==
  ASSUME NEW S \in SUBSET Nat, S # {}
  PROVE  Min(S) \in S /\ \A k \in S : Min(S) <= k
<1> DEFINE Less == OpToRel(<, Nat)
<1>1. PICK x \in S : \A y \in S : <<y, x>> \notin Less
  BY NatLessThanWellFounded, WFMin
<1>2. \A y \in S : y < x => <<y, x>> \in Less
  BY DEF OpToRel
<1> HIDE DEF Less
<1>3. \A y \in S : ~(y < x)
  BY <1>1, <1>2, Zenon
<1>4. \A y \in S : x <= y
  BY <1>3
<1> QED
  BY <1>4 DEF Min

\* Max finds the greatest of some numbers between two bounds.
LEMMA MaxIsGreatest ==
  ASSUME NEW lo \in Int, NEW hi \in Int, NEW S \in SUBSET (lo .. hi), S # {}
  PROVE  Max(S) \in S /\ \A k \in S : k <= Max(S)
<1> DEFINE Distances == {hi - k : k \in S}
<1>1. Distances \in SUBSET Nat /\ Distances # {}
  <2>1. \A k \in S : hi - k \in Nat
    OBVIOUS
  <2>2. PICK k \in S : TRUE
    OBVIOUS
  <2>3. hi - k \in Distances
    BY <2>2
  <2> QED
    BY <2>1, <2>3
<1>2. PICK least \in Distances : \A other \in Distances : least <= other
  BY <1>1, MinIsLeast, Zenon
<1>3. PICK k \in S : least = hi - k
  BY <1>2
<1>4. \A other \in S : k >= other
  BY <1>2, <1>3
<1> QED
  BY <1>4 DEF Max

\* Max of two numbers is the larger one.
LEMMA MaxOfTwo ==
  ASSUME NEW a \in Int, NEW b \in Int
  PROVE  Max({a, b}) = IF a >= b THEN a ELSE b
<1> DEFINE larger == IF a >= b THEN a ELSE b
<1>1. larger \in {a, b} /\ \A y \in {a, b} : larger >= y
  OBVIOUS
<1>2. \A x \in {a, b} : (\A y \in {a, b} : x >= y) => x = larger
  OBVIOUS
<1> HIDE DEF larger
<1>3. Max({a, b}) \in {a, b} /\ \A y \in {a, b} : Max({a, b}) >= y
  BY <1>1 DEF Max
<1>4. Max({a, b}) = larger
  BY <1>2, <1>3, Zenon
<1> QED
  BY <1>4 DEF larger

--------------------------------------------------------------------------------
(* Widgets.                                                                *)

\* A panel within the form has a widget that wants the focus, others have none.
LEMMA PartsOfItems ==
  ASSUME NEW i \in DOMAIN Items
  PROVE  /\ Wanting(i) \in SUBSET (1 .. 2)
         /\ Nested(i) <=> Wanting(i) # {}
         /\ Nested(i) => i \in Focusable
         /\ i \notin Focusable => Items[i] = "label"
<1>1. CASE Items[i] = "area"
  <2>1. Parts(i) = <<"text", "bar">>
    BY <1>1 DEF Parts
  <2>2. Wanting(i) = {1}
    BY <2>1 DEF Wanting
  <2> QED
    BY <1>1, <2>1, <2>2 DEF Nested, Focusable
<1>2. CASE Items[i] = "row"
  <2>1. Parts(i) = <<"button", "button">>
    BY <1>2 DEF Parts
  <2>2. Wanting(i) = {1, 2}
    BY <2>1 DEF Wanting
  <2> QED
    BY <1>2, <2>1, <2>2 DEF Nested, Focusable
<1>3. CASE Items[i] \notin {"area", "row"}
  <2>1. Parts(i) = <<>>
    BY <1>3 DEF Parts
  <2>2. Wanting(i) = {}
    BY <2>1 DEF Wanting
  <2> QED
    BY <2>1, <2>2 DEF Nested, Focusable
<1> QED
  BY <1>1, <1>2, <1>3

\* The widgets are numbered from 1 on.
LEMMA ItemNumbers ==
  /\ Len(Items) \in Nat
  /\ DOMAIN Items = 1 .. Len(Items)
  /\ Focusable \in SUBSET (DOMAIN Items)
BY ItemsAssumption DEF Focusable

\* A step of the focus ends on a widget that wants it, if there is one.
LEMMA StepsAmongWanting ==
  ASSUME NEW n \in Nat, NEW wanting \in SUBSET (1 .. n), NEW at \in 0 .. n, NEW dir
  PROVE  /\ wanting # {} => Stepped(wanting, at, dir).to \in wanting
         /\ wanting = {} => Stepped(wanting, at, dir) = [to |-> at, wrapped |-> TRUE]
<1>1. CASE wanting = {}
  BY <1>1 DEF Stepped
<1>2. CASE wanting # {}
  <2> DEFINE ahead == IF dir = 1 THEN {k \in wanting : k > at}
                      ELSE {k \in wanting : at = 0 \/ k < at}
             Nearest(S) == IF dir = 1 THEN Min(S) ELSE Max(S)
  <2>1. \A S \in SUBSET wanting : S # {} => Nearest(S) \in wanting
    <3> SUFFICES ASSUME NEW S \in SUBSET wanting, S # {}
                 PROVE  Nearest(S) \in wanting
      OBVIOUS
    <3>1. S \in SUBSET Nat /\ S \in SUBSET (0 .. n) /\ 0 \in Int /\ n \in Int
      OBVIOUS
    <3>2. Min(S) \in S /\ Max(S) \in S
      BY <3>1, MinIsLeast, MaxIsGreatest
    <3> QED
      BY <3>2
  <2>2. ahead \in SUBSET wanting
    OBVIOUS
  <2>3. Stepped(wanting, at, dir) =
          IF ahead # {} THEN [to |-> Nearest(ahead), wrapped |-> FALSE]
          ELSE [to |-> Nearest(wanting), wrapped |-> TRUE]
    BY <1>2, Zenon DEF Stepped
  <2>4. Nearest(wanting) \in wanting
    BY <1>2, <2>1
  <2>5. ahead # {} => Nearest(ahead) \in wanting
    BY <2>1, <2>2
  <2> HIDE DEF ahead, Nearest
  <2>6. Stepped(wanting, at, dir).to = IF ahead # {} THEN Nearest(ahead) ELSE Nearest(wanting)
    BY <2>3
  <2> QED
    BY <1>2, <2>4, <2>5, <2>6
<1> QED
  BY <1>1, <1>2

--------------------------------------------------------------------------------
(* The focus.                                                              *)

\* Putting the focus within a panel on one of its widgets.
LEMMA PutWithin ==
  ASSUME NEW D, NEW f \in [D -> 0 .. 2], NEW i, NEW j \in 0 .. 2
  PROVE  [f EXCEPT ![i] = j] \in [D -> 0 .. 2]
OBVIOUS

FocusIsRight == FocusTypeOK /\ FocusIsInOnePlace

\* Leaving the panel with the focus leaves no other focus within a panel.
LEMMA ClearedIsClear ==
  ASSUME FocusIsRight
  PROVE  Cleared = [i \in DOMAIN Items |-> 0]
BY DEF FocusIsRight, FocusTypeOK, FocusIsInOnePlace, Cleared

\* The form starts with the focus on a widget, and with nothing in a panel.
LEMMA FocusStartsRight == Init => FocusIsRight
<1> SUFFICES ASSUME Init PROVE FocusIsRight
  OBVIOUS
<1>1. focus \in Focusable \union {0}
  BY ItemNumbers, StepsAmongWanting DEF Init
<1>2. inner = [i \in DOMAIN Items |-> 0] /\ beside = Nested(focus)
  BY DEF Init
<1>3. beside \in BOOLEAN
  BY <1>2 DEF Nested
<1> QED
  BY <1>1, <1>2, <1>3 DEF FocusIsRight, FocusTypeOK, FocusIsInOnePlace

\* The tabulator leaves the focus in one place.
LEMMA TabKeepsFocus ==
  ASSUME FocusIsRight, NEW dir, Tab(dir)
  PROVE  FocusIsRight'
<1> DEFINE within == Stepped(Wanting(focus), inner[focus], dir)
           next == Stepped(Focusable, focus, dir).to
<1>0. beside' = FALSE
  BY DEF Tab
<1>1. CASE focus # 0 /\ Nested(focus) /\ ~within.wrapped
  <2>1. focus \in DOMAIN Items
    BY <1>1, ItemNumbers DEF FocusIsRight, FocusTypeOK
  <2>2. Wanting(focus) \in SUBSET (1 .. 2) /\ Wanting(focus) # {}
    BY <1>1, <2>1, PartsOfItems
  <2>3. within.to \in Wanting(focus)
    BY <2>1, <2>2, StepsAmongWanting DEF FocusIsRight, FocusTypeOK
  <2>4. inner' = [inner EXCEPT ![focus] = within.to] /\ focus' = focus
    BY <1>1 DEF Tab, StepFocus
  <2> HIDE DEF within
  <2>5. FocusTypeOK'
    <3>0. within.to \in 0 .. 2
      BY <2>2, <2>3
    <3>1. inner' \in [DOMAIN Items -> 0 .. 2]
      BY <2>4, <3>0, PutWithin, Zenon DEF FocusIsRight, FocusTypeOK
    <3>2. \A i \in DOMAIN Items : inner'[i] \in Wanting(i) \union {0}
      BY <2>1, <2>3, <2>4 DEF FocusIsRight, FocusTypeOK
    <3> QED
      BY <1>0, <2>4, <3>1, <3>2 DEF FocusIsRight, FocusTypeOK
  <2>6. inner'[focus'] # 0
    BY <2>4, <2>1, <2>2, <2>3 DEF FocusIsRight, FocusTypeOK
  <2>7. \A i \in DOMAIN Items : inner'[i] # 0 => focus' = i
    BY <2>1, <2>4 DEF FocusIsRight, FocusTypeOK, FocusIsInOnePlace
  <2> QED
    BY <2>5, <2>6, <2>7 DEF FocusIsRight, FocusIsInOnePlace
<1>2. CASE ~(focus # 0 /\ Nested(focus) /\ ~within.wrapped)
  <2>1. next \in Focusable \union {0}
    BY ItemNumbers, StepsAmongWanting DEF FocusIsRight, FocusTypeOK
  <2>2. focus' = next
    BY <1>2 DEF Tab, StepFocus
  <2>3. inner' = IF next # 0 /\ Nested(next)
                 THEN [[i \in DOMAIN Items |-> 0] EXCEPT ![next] =
                         Stepped(Wanting(next), 0, dir).to]
                 ELSE [i \in DOMAIN Items |-> 0]
    BY <1>2, ClearedIsClear DEF Tab, StepFocus
  <2>4. CASE next # 0 /\ Nested(next)
    <3> DEFINE first == Stepped(Wanting(next), 0, dir).to
    <3>1. next \in DOMAIN Items
      BY <2>1, <2>4, ItemNumbers
    <3>2. Wanting(next) \in SUBSET (1 .. 2) /\ Wanting(next) # {}
      BY <2>4, <3>1, PartsOfItems
    <3>3. first \in Wanting(next)
      BY <3>2, StepsAmongWanting
    <3>4. inner' = [[i \in DOMAIN Items |-> 0] EXCEPT ![next] = first]
      BY <2>3, <2>4
    <3> HIDE DEF next, first
    <3>5. inner'[next] = first /\ \A i \in DOMAIN Items : i # next => inner'[i] = 0
      BY <3>1, <3>4
    <3>6. inner' \in [DOMAIN Items -> 0 .. 2]
      <4>1. first \in 0 .. 2
        BY <3>2, <3>3
      <4>2. [i \in DOMAIN Items |-> 0] \in [DOMAIN Items -> 0 .. 2]
        OBVIOUS
      <4> QED
        BY <3>4, <4>1, <4>2, PutWithin, Zenon
    <3>7. FocusTypeOK'
      BY <1>0, <2>1, <2>2, <3>3, <3>5, <3>6 DEF FocusTypeOK
    <3> QED
      BY <2>2, <3>2, <3>3, <3>5, <3>7 DEF FocusIsRight, FocusIsInOnePlace
  <2>5. CASE ~(next # 0 /\ Nested(next))
    <3>1. inner' = [i \in DOMAIN Items |-> 0]
      BY <2>3, <2>5
    <3> HIDE DEF next
    <3>2. inner' \in [DOMAIN Items -> 0 .. 2] /\ \A i \in DOMAIN Items : inner'[i] = 0
      BY <3>1
    <3>3. FocusTypeOK'
      BY <1>0, <2>1, <2>2, <3>2 DEF FocusTypeOK
    <3> QED
      BY <2>2, <2>5, <3>2, <3>3 DEF FocusIsRight, FocusIsInOnePlace
  <2> QED
    BY <2>4, <2>5
<1> QED
  BY <1>1, <1>2

\* So does a press on any widget.
LEMMA PressKeepsFocus ==
  ASSUME FocusIsRight, NEW i \in DOMAIN Items, NEW j, FocusByPress(i, j)
  PROVE  FocusIsRight'
<1>2. CASE i \in Focusable
  <2>1. focus' = i /\ beside' = (Nested(i) /\ j \notin Wanting(i))
    BY <1>2 DEF FocusByPress
  <2>2. inner' = IF j \in Wanting(i) THEN [[k \in DOMAIN Items |-> 0] EXCEPT ![i] = j]
                 ELSE [k \in DOMAIN Items |-> 0]
    BY <1>2, ClearedIsClear DEF FocusByPress
  <2>3. Wanting(i) \in SUBSET (1 .. 2)
    BY PartsOfItems
  <2>4. Nested(focus') /\ inner'[focus'] = 0 => beside'
    <3>1. CASE j \in Wanting(i)
      <4>1. inner'[i] = j /\ j # 0
        BY <2>2, <2>3, <3>1
      <4> QED
        BY <2>1, <4>1
    <3>2. CASE j \notin Wanting(i)
      BY <2>1, <3>2, Zenon
    <3> QED
      BY <3>1, <3>2, Zenon
  <2>5. beside' \in BOOLEAN
    BY <2>1, Zenon DEF Nested
  <2> QED
    BY <2>4, <2>5, <1>2, <2>2, <2>1, <2>3
    DEF FocusIsRight, FocusIsInOnePlace, FocusTypeOK
<1>3. CASE i \notin Focusable
  <2>1. UNCHANGED focusVars
    BY <1>3 DEF FocusByPress
  <2> QED
    BY <2>1 DEF focusVars, FocusIsRight, FocusTypeOK, FocusIsInOnePlace
<1> QED
  BY <1>2, <1>3

\* Every event keeps the focus in one place.
LEMMA FocusStaysRight == FocusIsRight /\ [Next]_vars => FocusIsRight'
<1> SUFFICES ASSUME FocusIsRight, [Next]_vars
             PROVE  FocusIsRight'
  OBVIOUS
<1>0. ASSUME UNCHANGED focusVars
      PROVE  FocusIsRight'
  BY <1>0 DEF focusVars, FocusIsRight, FocusTypeOK, FocusIsInOnePlace
<1>a. CASE UNCHANGED vars
  BY <1>0, <1>a DEF vars
<1>1. The("area") \in DOMAIN Items /\ The("field") \in DOMAIN Items
  BY ItemsAssumption DEF The
<1>2. CASE \E dir \in {-1, 1} : Tab(dir)
  BY <1>2, TabKeepsFocus
<1>3. CASE \E i \in DOMAIN Items : PressLabel(i) \/ \E j \in 0 .. 2 : PressRow(i, j)
  BY <1>3, PressKeepsFocus DEF PressLabel, PressRow
<1>4. CASE \E x \in Pixels, clicks \in 1 .. 2 :
             PressField(x, clicks) \/ \E row \in RowsSeen \ {-1} : PressText(row, x, clicks)
  BY <1>1, <1>4, PressKeepsFocus DEF PressField, PressText
<1>5. CASE \E y \in 0 .. BarLen - 1 : PressBar(y)
  BY <1>1, <1>5, PressKeepsFocus DEF PressBar
<1>6. CASE Draw \/ Release \/ \E size \in Sizes : Layout(size)
  BY <1>0, <1>6 DEF Draw, Release, Layout
<1>7. CASE \/ \E row \in RowsSeen, x \in Pixels : DragText(row, x)
           \/ \E delta \in {-1, 1} : WheelText(delta)
           \/ \E caret \in 0 .. Len(area.text) : MoveInText(caret)
           \/ \E chars \in Texts : \E caret \in 0 .. Len(chars) : EditText(chars, caret)
  BY <1>0, <1>7 DEF DragText, WheelText, MoveInText, EditText, AreaEvent
<1>8. CASE \/ \E x \in Pixels : DragField(x)
           \/ \E caret \in 0 .. field.len : MoveInField(caret)
           \/ \E len \in 0 .. FieldMax : \E caret \in 0 .. len : EditField(len, caret)
  BY <1>0, <1>8 DEF DragField, MoveInField, EditField, FieldEvent
<1> QED
  BY <1>2, <1>3, <1>4, <1>5, <1>6, <1>7, <1>8, <1>a DEF Next

\* The focus is always on one widget, and within a panel that has it on one of
\* its parts unless the last press was beside them (panel_set_focus,
\* step_focus and the press in panel_event of ui/panel.c).
THEOREM FocusIsOne == Spec => [](FocusTypeOK /\ FocusIsInOnePlace)
<1>1. FocusIsRight => FocusTypeOK /\ FocusIsInOnePlace
  BY DEF FocusIsRight
<1> QED
  BY <1>1, FocusStartsRight, FocusStaysRight, PTL DEF Spec

--------------------------------------------------------------------------------
(* The stops of the tabulator.                                             *)

\* Which one a step of the focus ends on: the next one that wants it in its
\* direction, or, if there is none, the first from the other end.
LEMMA StepsToNext ==
  ASSUME NEW n \in Nat, NEW wanting \in SUBSET (1 .. n), wanting # {}, NEW at \in 0 .. n
  PROVE  /\ LET r == Stepped(wanting, at, 1)
            IN  /\ r.to \in wanting
                /\ ~r.wrapped => at < r.to /\ \A w \in wanting : at < w => r.to <= w
                /\ r.wrapped => \A w \in wanting : w <= at /\ r.to <= w
                /\ at = 0 => \A w \in wanting : r.to <= w
         /\ LET r == Stepped(wanting, at, -1)
            IN  /\ r.to \in wanting
                /\ at # 0 /\ ~r.wrapped => r.to < at /\ \A w \in wanting : w < at => w <= r.to
                /\ at # 0 /\ r.wrapped => \A w \in wanting : at <= w /\ w <= r.to
                /\ at = 0 => \A w \in wanting : w <= r.to
<1> DEFINE after == {k \in wanting : k > at}
           before == {k \in wanting : at = 0 \/ k < at}
<1>1. /\ after \in SUBSET Nat /\ before \in SUBSET (0 .. n) /\ wanting \in SUBSET Nat
      /\ wanting \in SUBSET (0 .. n) /\ 0 \in Int /\ n \in Int
  <2>1. wanting \in SUBSET Nat /\ wanting \in SUBSET (0 .. n) /\ 0 \in Int /\ n \in Int
    OBVIOUS
  <2>2. after \in SUBSET wanting /\ before \in SUBSET wanting
    OBVIOUS
  <2> QED
    BY <2>1, <2>2, Zenon
<1>2. /\ Stepped(wanting, at, 1) = IF after # {} THEN [to |-> Min(after), wrapped |-> FALSE]
                                   ELSE [to |-> Min(wanting), wrapped |-> TRUE]
      /\ Stepped(wanting, at, -1) = IF before # {} THEN [to |-> Max(before), wrapped |-> FALSE]
                                    ELSE [to |-> Max(wanting), wrapped |-> TRUE]
  <2>1. -1 # 1
    OBVIOUS
  <2>2. ASSUME NEW dir, dir # 1
        PROVE  Stepped(wanting, at, dir) =
                 IF before # {} THEN [to |-> Max(before), wrapped |-> FALSE]
                 ELSE [to |-> Max(wanting), wrapped |-> TRUE]
    BY <2>2, Zenon DEF Stepped
  <2>3. Stepped(wanting, at, 1) = IF after # {} THEN [to |-> Min(after), wrapped |-> FALSE]
                                  ELSE [to |-> Min(wanting), wrapped |-> TRUE]
    BY Zenon DEF Stepped
  <2> QED
    BY <2>1, <2>2, <2>3, Zenon
<1>3. /\ Min(wanting) \in wanting /\ \A w \in wanting : Min(wanting) <= w
      /\ Max(wanting) \in wanting /\ \A w \in wanting : w <= Max(wanting)
  BY <1>1, MinIsLeast, MaxIsGreatest
<1>4. after # {} => Min(after) \in after /\ \A w \in after : Min(after) <= w
  <2> HIDE DEF after
  <2> QED
    BY <1>1, MinIsLeast
<1>5. before # {} => Max(before) \in before /\ \A w \in before : w <= Max(before)
  <2> HIDE DEF before
  <2> QED
    BY <1>1, MaxIsGreatest
<1>6. wanting \in SUBSET (1 .. n)
  OBVIOUS
<1>7. ASSUME NEW r, r = Stepped(wanting, at, 1)
      PROVE  /\ r.to \in wanting
             /\ ~r.wrapped => at < r.to /\ \A w \in wanting : at < w => r.to <= w
             /\ r.wrapped => \A w \in wanting : w <= at /\ r.to <= w
             /\ at = 0 => \A w \in wanting : r.to <= w
  <2>1. CASE after # {}
    <3>1. r.to = Min(after) /\ r.wrapped = FALSE
      BY <1>2, <1>7, <2>1
    <3> QED
      BY <1>4, <1>6, <2>1, <3>1
  <2>2. CASE after = {}
    <3>1. r.to = Min(wanting) /\ r.wrapped = TRUE
      BY <1>2, <1>7, <2>2
    <3> QED
      BY <1>3, <1>6, <2>2, <3>1
  <2> QED
    BY <2>1, <2>2
<1>8. ASSUME NEW r, r = Stepped(wanting, at, -1)
      PROVE  /\ r.to \in wanting
             /\ at # 0 /\ ~r.wrapped => r.to < at /\ \A w \in wanting : w < at => w <= r.to
             /\ at # 0 /\ r.wrapped => \A w \in wanting : at <= w /\ w <= r.to
             /\ at = 0 => \A w \in wanting : w <= r.to
  <2>1. CASE before # {}
    <3>1. r.to = Max(before) /\ r.wrapped = FALSE
      BY <1>2, <1>8, <2>1
    <3> QED
      BY <1>5, <1>6, <2>1, <3>1
  <2>2. CASE before = {}
    <3>1. r.to = Max(wanting) /\ r.wrapped = TRUE
      BY <1>2, <1>8, <2>2
    <3> QED
      BY <1>3, <1>6, <2>2, <3>1
  <2> QED
    BY <2>1, <2>2
<1> QED
  BY <1>7, <1>8

--------------------------------------------------------------------------------
(* The stations of the tabulator.                                          *)

\* The parts of an item at which the tabulator stops; 0 is the item itself.
Within(i) == IF Nested(i) THEN Wanting(i) ELSE IF i \in Focusable THEN {0} ELSE {}
StationsUpTo(n) == {s \in (1 .. n) \X (0 .. 2) : s[2] \in Within(s[1])}
Stops == StationsUpTo(Len(Items))

\* The order in which the items stand, and the parts within each.
Precedes(s, t) == s[1] < t[1] \/ (s[1] = t[1] /\ s[2] < t[2])

\* From s the next stop is t, or s is the last one and t the first.
Neighbours(s, t) ==
  /\ s \in Stops /\ t \in Stops
  /\ \/ Precedes(s, t) /\ \A u \in Stops : ~(Precedes(s, u) /\ Precedes(u, t))
     \/ \A u \in Stops : ~Precedes(s, u) /\ ~Precedes(u, t)

\* Where the tabulator enters an item: the first of its parts, or the last one.
LEMMA EntersAtEnd ==
  ASSUME NEW i \in Focusable
  PROVE  /\ LET j == IF Nested(i) THEN Stepped(Wanting(i), 0, 1).to ELSE 0
            IN  j \in Within(i) /\ \A k \in Within(i) : j <= k
         /\ LET j == IF Nested(i) THEN Stepped(Wanting(i), 0, -1).to ELSE 0
            IN  j \in Within(i) /\ \A k \in Within(i) : k <= j
<1>1. i \in DOMAIN Items
  BY ItemNumbers
<1>2. CASE Nested(i)
  <2>1. Wanting(i) \in SUBSET (1 .. 2) /\ Wanting(i) # {}
    BY <1>1, <1>2, PartsOfItems
  <2>2. Within(i) = Wanting(i) /\ 2 \in Nat /\ 0 \in 0 .. 2
    BY <1>2 DEF Within
  <2>3. /\ Stepped(Wanting(i), 0, 1).to \in Wanting(i)
        /\ \A w \in Wanting(i) : Stepped(Wanting(i), 0, 1).to <= w
        /\ Stepped(Wanting(i), 0, -1).to \in Wanting(i)
        /\ \A w \in Wanting(i) : w <= Stepped(Wanting(i), 0, -1).to
    BY <2>1, <2>2, StepsToNext
  <2> QED
    BY <1>2, <2>2, <2>3
<1>3. CASE ~Nested(i)
  BY <1>3 DEF Within
<1> QED
  BY <1>2, <1>3

\* The stops are parts of items.
LEMMA WithinItems ==
  ASSUME NEW i \in DOMAIN Items
  PROVE  Within(i) \in SUBSET (0 .. 2) /\ (Within(i) # {} <=> i \in Focusable)
BY PartsOfItems DEF Within

\* At a stop the tabulator goes to the next part of its panel, or to where it
\* enters the next widget.
LEMMA TabFromStop ==
  ASSUME FocusTypeOK, NEW dir \in {-1, 1}, Tab(dir), Station \in Stops
  PROVE  LET i == focus
             j == Station[2]
             within == Stepped(Wanting(i), j, dir)
             next == Stepped(Focusable, i, dir)
             first == IF Nested(next.to) THEN Stepped(Wanting(next.to), 0, dir).to ELSE 0
         IN  /\ i \in Focusable /\ j \in Within(i)
             /\ Nested(i) /\ ~within.wrapped => Station' = <<i, within.to>>
             /\ ~(Nested(i) /\ ~within.wrapped) => Station' = <<next.to, first>>
<1> DEFINE i == focus
           j == Station[2]
           within == Stepped(Wanting(i), j, dir)
           next == Stepped(Focusable, i, dir).to
           first == IF Nested(next) THEN Stepped(Wanting(next), 0, dir).to ELSE 0
<1>1. i \in 1 .. Len(Items) /\ Station = <<i, j>> /\ j \in Within(i)
  BY DEF Stops, StationsUpTo, Station
<1>2. i \in DOMAIN Items /\ i # 0 /\ Station = <<i, inner[i]>>
  BY <1>1, ItemNumbers DEF Station
<1>3. j = inner[i] /\ i \in Focusable
  BY <1>1, <1>2, WithinItems DEF Station
<1>4. CASE Nested(i) /\ ~within.wrapped
  <2>1. inner' = [inner EXCEPT ![i] = within.to] /\ focus' = i
    BY <1>2, <1>3, <1>4 DEF Tab, StepFocus
  <2> HIDE DEF within
  <2>2. inner'[i] = within.to
    BY <1>2, <2>1 DEF FocusTypeOK
  <2> QED
    BY <1>1, <1>2, <1>3, <1>4, <2>1, <2>2 DEF Station, within
<1>5. CASE ~(Nested(i) /\ ~within.wrapped)
  <2>1. focus' = next /\ inner' = IF next # 0 /\ Nested(next)
                                  THEN [Cleared EXCEPT ![next] = Stepped(Wanting(next), 0, dir).to]
                                  ELSE Cleared
    BY <1>2, <1>3, <1>5 DEF Tab, StepFocus
  <2>2. next \in Focusable
    BY <1>2, <1>3, ItemNumbers, StepsAmongWanting
  <2>3. next \in DOMAIN Items /\ next # 0
    BY <2>2, ItemNumbers
  <2>4. inner'[next] = first
    <3>1. CASE Nested(next)
      <4> DEFINE to == Stepped(Wanting(next), 0, dir).to
      <4>1. inner' = [Cleared EXCEPT ![next] = to] /\ first = to
        BY <2>1, <2>3, <3>1
      <4> HIDE DEF to, next, first
      <4> QED
        BY <2>3, <4>1 DEF Cleared
    <3>2. CASE ~Nested(next)
      <4>1. inner' = Cleared /\ first = 0
        BY <2>1, <3>2
      <4>2. inner[next] = 0
        <5>1. Wanting(next) = {}
          BY <2>3, <3>2, PartsOfItems
        <5> HIDE DEF next
        <5> QED
          BY <2>3, <5>1 DEF FocusTypeOK
      <4> HIDE DEF next, first
      <4> QED
        BY <2>3, <4>1, <4>2 DEF Cleared
    <3> QED
      BY <3>1, <3>2
  <2> HIDE DEF next, first
  <2>5. Station' = <<next, first>>
    BY <2>1, <2>3, <2>4 DEF Station
  <2> QED
    BY <1>1, <1>3, <1>5, <2>5 DEF next, first
<1> QED
  BY <1>4, <1>5

\* A stop is a widget that wants the focus, and one of its parts.
LEMMA StopsAre ==
  ASSUME NEW s
  PROVE  s \in Stops <=> /\ s = <<s[1], s[2]>> /\ s[1] \in Focusable /\ s[2] \in Within(s[1])
<1>1. ASSUME s \in Stops
      PROVE  s = <<s[1], s[2]>> /\ s[1] \in Focusable /\ s[2] \in Within(s[1])
  <2>1. s[1] \in 1 .. Len(Items) /\ s = <<s[1], s[2]>> /\ s[2] \in Within(s[1])
    BY <1>1 DEF Stops, StationsUpTo
  <2> QED
    BY <2>1, ItemNumbers, WithinItems
<1>2. ASSUME s = <<s[1], s[2]>>, s[1] \in Focusable, s[2] \in Within(s[1])
      PROVE  s \in Stops
  <2>1. s[1] \in 1 .. Len(Items) /\ s[2] \in 0 .. 2
    BY <1>2, ItemNumbers, WithinItems
  <2> QED
    BY <1>2, <2>1 DEF Stops, StationsUpTo
<1> QED
  BY <1>1, <1>2

\* With the tabulator the focus goes on by one stop, and with shift back by one.
LEMMA TabToNeighbour ==
  ASSUME FocusTypeOK, NEW dir \in {-1, 1}, Tab(dir), Station \in Stops
  PROVE  IF dir = 1 THEN Neighbours(Station, Station') ELSE Neighbours(Station', Station)
<1> DEFINE i == focus
           j == Station[2]
           within == Stepped(Wanting(i), j, dir)
           next == Stepped(Focusable, i, dir)
           first == IF Nested(next.to) THEN Stepped(Wanting(next.to), 0, dir).to ELSE 0
           t == Station'
<1>1. /\ i \in Focusable /\ j \in Within(i)
      /\ Nested(i) /\ ~within.wrapped => t = <<i, within.to>>
      /\ ~(Nested(i) /\ ~within.wrapped) => t = <<next.to, first>>
  BY TabFromStop
<1>2. Station = <<i, j>>
  BY StopsAre DEF Station
<1>3. /\ Focusable \in SUBSET (1 .. Len(Items)) /\ Len(Items) \in Nat /\ i \in 0 .. Len(Items)
      /\ i # 0 /\ i \in DOMAIN Items
  BY <1>1, ItemNumbers
<1>4. /\ next.to \in Focusable
      /\ dir = 1 => IF next.wrapped THEN \A w \in Focusable : w <= i /\ next.to <= w
                    ELSE i < next.to /\ \A w \in Focusable : i < w => next.to <= w
      /\ dir = -1 => IF next.wrapped THEN \A w \in Focusable : i <= w /\ w <= next.to
                     ELSE next.to < i /\ \A w \in Focusable : w < i => w <= next.to
  BY <1>1, <1>3, StepsToNext
<1>5. /\ first \in Within(next.to)
      /\ \A k \in Within(next.to) : IF dir = 1 THEN first <= k ELSE k <= first
  BY <1>4, EntersAtEnd
<1>6. Within(i) \in SUBSET (0 .. 2) /\ Within(next.to) \in SUBSET (0 .. 2)
  BY <1>3, <1>4, ItemNumbers, WithinItems
<1> DEFINE leaves == ~(Nested(i) /\ ~within.wrapped)
<1>7. /\ leaves => \A k \in Within(i) : IF dir = 1 THEN k <= j ELSE j <= k
      /\ ~leaves => /\ within.to \in Within(i)
                    /\ IF dir = 1 THEN j < within.to ELSE within.to < j
                    /\ \A k \in Within(i) : IF dir = 1 THEN j < k => within.to <= k
                                            ELSE k < j => k <= within.to
  <2>1. CASE Nested(i)
    <3>1. /\ Within(i) = Wanting(i) /\ Wanting(i) \in SUBSET (1 .. 2) /\ Wanting(i) # {}
          /\ j \in 0 .. 2 /\ j # 0 /\ 2 \in Nat
      BY <1>1, <1>3, <2>1, PartsOfItems DEF Within
    <3>2. CASE dir = 1
      <4>1. LET r == Stepped(Wanting(i), j, 1)
            IN  /\ r.to \in Wanting(i)
                /\ ~r.wrapped => j < r.to /\ \A w \in Wanting(i) : j < w => r.to <= w
                /\ r.wrapped => \A w \in Wanting(i) : w <= j
        <5> HIDE DEF j
        <5> QED
          BY <3>1, StepsToNext
      <4>2. within = Stepped(Wanting(i), j, 1)
        BY <3>2
      <4> HIDE DEF within, j
      <4> QED
        BY <2>1, <3>1, <3>2, <4>1, <4>2
    <3>3. CASE dir = -1
      <4>1. LET r == Stepped(Wanting(i), j, -1)
            IN  /\ r.to \in Wanting(i)
                /\ ~r.wrapped => r.to < j /\ \A w \in Wanting(i) : w < j => w <= r.to
                /\ r.wrapped => \A w \in Wanting(i) : j <= w
        <5> HIDE DEF j
        <5> QED
          BY <3>1, StepsToNext
      <4>2. within = Stepped(Wanting(i), j, -1)
        BY <3>3
      <4> HIDE DEF within, j
      <4> QED
        BY <2>1, <3>1, <3>3, <4>1, <4>2
    <3> QED
      BY <3>2, <3>3
  <2>2. CASE ~Nested(i)
    <3>1. Within(i) = {0} /\ leaves
      BY <1>1, <2>2 DEF Within
    <3> HIDE DEF leaves, j
    <3> QED
      BY <1>1, <3>1
  <2> QED
    BY <2>1, <2>2
<1>8. \A s \in Stops : /\ s[1] \in Int /\ s[2] \in Int /\ s[1] \in Focusable
                       /\ s[2] \in Within(s[1])
  <2> TAKE s \in Stops
  <2>1. s[1] \in Focusable /\ s[2] \in Within(s[1])
    BY StopsAre
  <2>2. s[1] \in DOMAIN Items
    BY <2>1, ItemNumbers
  <2> QED
    BY <1>3, <2>1, <2>2, WithinItems
<1> HIDE DEF i, j, within, first
<1>9. CASE ~leaves
  <2>1. t = <<i, within.to>>
    BY <1>1, <1>9
  <2>2. t \in Stops
    BY <1>1, <1>7, <1>9, <2>1, StopsAre
  <2>3. i \in Int /\ j \in Int /\ within.to \in Int
    BY <1>1, <1>3, <1>6, <1>7, <1>9
  <2> HIDE DEF leaves, t
  <2>4. IF dir = 1 THEN Precedes(Station, t) ELSE Precedes(t, Station)
    BY <1>2, <1>7, <1>9, <2>1, <2>3 DEF Precedes
  <2>5. \A u \in Stops : IF dir = 1 THEN ~(Precedes(Station, u) /\ Precedes(u, t))
                         ELSE ~(Precedes(t, u) /\ Precedes(u, Station))
    <3> TAKE u \in Stops
    <3>1. /\ u[1] \in Int /\ u[2] \in Int
          /\ u[1] = i => u[2] \in Within(i)
      BY <1>8
    <3> QED
      BY <1>2, <1>7, <1>9, <2>1, <2>3, <3>1 DEF Precedes
  <2> QED
    BY <2>2, <2>4, <2>5 DEF Neighbours, t
<1>10. CASE leaves
  <2>1. t = <<next.to, first>>
    BY <1>1, <1>10
  <2>2. t \in Stops
    BY <1>4, <1>5, <2>1, StopsAre
  <2> DEFINE to == next.to
  <2>3. i \in Int /\ j \in Int /\ to \in Int /\ first \in Int
    BY <1>1, <1>3, <1>4, <1>5, <1>6
  <2>4. \A u \in Stops : /\ u[1] \in Int /\ u[2] \in Int /\ u[1] \in Focusable
                         /\ u[1] = i => u[2] \in Within(i)
                         /\ u[1] = to => u[2] \in Within(to)
    BY <1>8
  <2>5. CASE next.wrapped
    <3>1. \A w \in Focusable : IF dir = 1 THEN w <= i /\ to <= w ELSE i <= w /\ w <= to
      BY <1>4, <2>5
    <3>2. \A k \in Within(to) : IF dir = 1 THEN first <= k ELSE k <= first
      BY <1>5
    <3>3. \A k \in Within(i) : IF dir = 1 THEN k <= j ELSE j <= k
      BY <1>7, <1>10
    <3> HIDE DEF leaves, t, to, next
    <3>4. \A u \in Stops : IF dir = 1 THEN ~Precedes(Station, u) /\ ~Precedes(u, t)
                           ELSE ~Precedes(t, u) /\ ~Precedes(u, Station)
      <4> TAKE u \in Stops
      <4>1. /\ u[1] \in Int /\ u[2] \in Int /\ u[1] \in Focusable
            /\ u[1] = i => u[2] \in Within(i)
            /\ u[1] = to => u[2] \in Within(to)
        BY <2>4
      <4>2. t = <<to, first>>
        BY <2>1 DEF to
      <4> QED
        BY <1>2, <2>3, <3>1, <3>2, <3>3, <4>1, <4>2 DEF Precedes
    <3> QED
      BY <2>2, <3>4 DEF Neighbours, t
  <2>6. CASE ~next.wrapped
    <3>1. /\ IF dir = 1 THEN i < to ELSE to < i
          /\ \A w \in Focusable : IF dir = 1 THEN i < w => to <= w ELSE w < i => w <= to
      BY <1>4, <2>6
    <3>2. \A k \in Within(to) : IF dir = 1 THEN first <= k ELSE k <= first
      BY <1>5
    <3>3. \A k \in Within(i) : IF dir = 1 THEN k <= j ELSE j <= k
      BY <1>7, <1>10
    <3>4. t = <<to, first>>
      BY <2>1
    <3> HIDE DEF leaves, t, to, next
    <3>5. IF dir = 1 THEN Precedes(Station, t) ELSE Precedes(t, Station)
      BY <1>2, <2>3, <3>1, <3>4 DEF Precedes
    <3>6. \A u \in Stops : IF dir = 1 THEN ~(Precedes(Station, u) /\ Precedes(u, t))
                           ELSE ~(Precedes(t, u) /\ Precedes(u, Station))
      <4> TAKE u \in Stops
      <4>1. /\ u[1] \in Int /\ u[2] \in Int /\ u[1] \in Focusable
            /\ u[1] = i => u[2] \in Within(i)
            /\ u[1] = to => u[2] \in Within(to)
        BY <2>4
      <4> QED
        BY <1>2, <2>3, <3>1, <3>2, <3>3, <3>4, <4>1 DEF Precedes
    <3> QED
      BY <2>2, <3>5, <3>6 DEF Neighbours, t
  <2> QED
    BY <2>5, <2>6
<1> QED
  BY <1>9, <1>10

--------------------------------------------------------------------------------
(* Stations in a row.                                                      *)

\* The sequence q has all of S, in order and nothing twice.
Enumerates(q, S) ==
  /\ q \in Seq(S)
  /\ \A s \in S : \E k \in 1 .. Len(q) : q[k] = s
  /\ \A k, l \in 1 .. Len(q) : k < l => Precedes(q[k], q[l])

\* Two such sequences, one after the other, if all of the one comes before the other.
LEMMA EnumeratesBoth ==
  ASSUME NEW q, NEW S, NEW r, NEW T, Enumerates(q, S), Enumerates(r, T),
         \A s \in S, t \in T : Precedes(s, t)
  PROVE  Enumerates(q \o r, S \union T)
<1> DEFINE m == Len(q)
           n == Len(r)
           both == q \o r
<1>1. q \in Seq(S \union T) /\ r \in Seq(S \union T) /\ q \in Seq(S) /\ r \in Seq(T)
  <2>1. q \in Seq(S) /\ r \in Seq(T)
    BY DEF Enumerates
  <2> QED
    BY <2>1
<1>2. /\ both \in Seq(S \union T) /\ Len(both) = m + n /\ m \in Nat /\ n \in Nat
      /\ \A k \in 1 .. m + n : both[k] = IF k <= m THEN q[k] ELSE r[k - m]
  BY <1>1
<1>3. /\ \A k \in 1 .. m : q[k] \in S
      /\ \A k \in 1 .. n : r[k] \in T
  BY <1>1
<1> HIDE DEF m, n, both
<1>4. ASSUME NEW s \in S \union T
      PROVE  \E k \in 1 .. m + n : both[k] = s
  <2>1. CASE s \in S
    <3>1. PICK k \in 1 .. m : q[k] = s
      BY <2>1 DEF Enumerates, m
    <3>2. k \in 1 .. m + n /\ k <= m
      BY <1>2
    <3> QED
      BY <1>2, <3>1, <3>2
  <2>2. CASE s \in T
    <3>1. PICK k \in 1 .. n : r[k] = s
      BY <2>2 DEF Enumerates, n
    <3>2. m + k \in 1 .. m + n /\ ~(m + k <= m) /\ m + k - m = k
      BY <1>2
    <3>3. both[m + k] = r[k]
      BY <1>2, <3>2
    <3> QED
      BY <3>1, <3>2, <3>3
  <2> QED
    BY <2>1, <2>2
<1>5. ASSUME NEW k \in 1 .. m + n, NEW l \in 1 .. m + n, k < l
      PROVE  Precedes(both[k], both[l])
  <2>1. CASE l <= m
    <3>1. k \in 1 .. m /\ l \in 1 .. m
      BY <1>2, <1>5, <2>1
    <3>2. Precedes(q[k], q[l])
      BY <1>5, <3>1 DEF Enumerates, m
    <3>3. both[k] = q[k] /\ both[l] = q[l]
      BY <1>2, <3>1
    <3> QED
      BY <3>2, <3>3
  <2>2. CASE m < k
    <3>1. k - m \in 1 .. n /\ l - m \in 1 .. n /\ k - m < l - m /\ ~(k <= m) /\ ~(l <= m)
      BY <1>2, <1>5, <2>2
    <3>2. Precedes(r[k - m], r[l - m])
      BY <3>1 DEF Enumerates, n
    <3>3. both[k] = r[k - m] /\ both[l] = r[l - m]
      BY <1>2, <3>1
    <3> QED
      BY <3>2, <3>3
  <2>3. CASE k <= m /\ m < l
    <3>1. k \in 1 .. m /\ l - m \in 1 .. n /\ ~(l <= m)
      BY <1>2, <2>3
    <3>2. both[k] = q[k] /\ both[l] = r[l - m] /\ q[k] \in S /\ r[l - m] \in T
      BY <1>2, <1>3, <3>1
    <3> QED
      BY <3>2
  <2> QED
    BY <1>2, <2>1, <2>2, <2>3
<1> QED
  BY <1>2, <1>4, <1>5 DEF Enumerates, both

\* The sequence that an item adds to the stations.
Row(i) ==
  IF Nested(i) THEN [j \in 1 .. Cardinality(Wanting(i)) |-> <<i, j>>]
  ELSE IF i \in Focusable THEN <<<<i, 0>>>> ELSE <<>>

StationsOfItem(i) == {s \in {i} \X (0 .. 2) : s[2] \in Within(i)}

\* They are its stops, in order.
LEMMA RowHasStations ==
  ASSUME NEW i \in DOMAIN Items
  PROVE  Enumerates(Row(i), StationsOfItem(i))
<1>0. i \in Int
  BY ItemNumbers
<1>1. CASE Items[i] = "area"
  <2>1. Parts(i) = <<"text", "bar">>
    BY <1>1 DEF Parts
  <2>2. Wanting(i) = {1} /\ Nested(i)
    BY <2>1 DEF Wanting, Nested
  <2>3. Cardinality(Wanting(i)) = 1
    BY <2>2, FS_Singleton
  <2>4. Row(i) = [j \in 1 .. 1 |-> <<i, j>>] /\ StationsOfItem(i) = {<<i, 1>>}
    BY <2>2, <2>3 DEF Row, StationsOfItem, Within
  <2>5. Row(i) \in Seq(StationsOfItem(i)) /\ Len(Row(i)) = 1 /\ Row(i)[1] = <<i, 1>>
    BY <2>4
  <2> QED
    BY <2>4, <2>5 DEF Enumerates
<1>2. CASE Items[i] = "row"
  <2>1. Parts(i) = <<"button", "button">>
    BY <1>2 DEF Parts
  <2>2. Wanting(i) = {1, 2} /\ Nested(i)
    BY <2>1 DEF Wanting, Nested
  <2>3. Cardinality(Wanting(i)) = 2
    <3>1. IsFiniteSet({1}) /\ Cardinality({1}) = 1
      BY FS_Singleton
    <3>2. Cardinality({1} \union {2}) = 1 + 1
      BY <3>1, FS_AddElement
    <3>3. {1} \union {2} = Wanting(i)
      BY <2>2
    <3> QED
      BY <3>2, <3>3
  <2>4. Row(i) = [j \in 1 .. 2 |-> <<i, j>>] /\ StationsOfItem(i) = {<<i, 1>>, <<i, 2>>}
    BY <2>2, <2>3 DEF Row, StationsOfItem, Within
  <2>5. /\ Row(i) \in Seq(StationsOfItem(i)) /\ Len(Row(i)) = 2
        /\ Row(i)[1] = <<i, 1>> /\ Row(i)[2] = <<i, 2>>
    BY <2>4
  <2>6. Precedes(<<i, 1>>, <<i, 2>>)
    BY DEF Precedes
  <2> QED
    BY <2>4, <2>5, <2>6 DEF Enumerates
<1>3. CASE Items[i] \notin {"area", "row"}
  <2>1. Parts(i) = <<>> /\ ~Nested(i)
    BY <1>3 DEF Parts, Nested
  <2>2. CASE i \in Focusable
    <3>1. Row(i) = <<<<i, 0>>>> /\ StationsOfItem(i) = {<<i, 0>>}
      BY <2>1, <2>2 DEF Row, StationsOfItem, Within
    <3>2. Row(i) \in Seq(StationsOfItem(i)) /\ Len(Row(i)) = 1 /\ Row(i)[1] = <<i, 0>>
      BY <3>1
    <3> QED
      BY <3>1, <3>2 DEF Enumerates
  <2>3. CASE i \notin Focusable
    <3>1. Row(i) = <<>> /\ StationsOfItem(i) = {}
      BY <2>1, <2>3 DEF Row, StationsOfItem, Within
    <3> QED
      BY <3>1 DEF Enumerates
  <2> QED
    BY <2>2, <2>3
<1> QED
  BY <1>1, <1>2, <1>3

\* One more item has its stations after those before it.
LEMMA StationsGrow ==
  ASSUME NEW n \in 1 .. Len(Items)
  PROVE  /\ StationsUpTo(n) = StationsUpTo(n - 1) \union StationsOfItem(n)
         /\ \A s \in StationsUpTo(n - 1), t \in StationsOfItem(n) : Precedes(s, t)
<1>1. n \in Nat /\ n >= 1
  BY ItemNumbers
<1>2. \A i : i \in 1 .. n <=> i \in 1 .. n - 1 \/ i = n
  BY <1>1
<1>3. \A s : s \in StationsUpTo(n) <=> s \in StationsUpTo(n - 1) \/ s \in StationsOfItem(n)
  <2> TAKE s
  <2>1. \A k : s \in StationsUpTo(k) <=> /\ s = <<s[1], s[2]>> /\ s[1] \in 1 .. k /\ s[2] \in 0 .. 2
                                         /\ s[2] \in Within(s[1])
    BY DEF StationsUpTo
  <2>2. s \in StationsOfItem(n) <=> /\ s = <<s[1], s[2]>> /\ s[1] = n /\ s[2] \in 0 .. 2
                                    /\ s[2] \in Within(s[1])
    BY DEF StationsOfItem
  <2> QED
    BY <1>2, <2>1, <2>2
<1>4. ASSUME NEW s \in StationsUpTo(n - 1), NEW t \in StationsOfItem(n)
      PROVE  Precedes(s, t)
  <2>1. s[1] \in 1 .. n - 1 /\ t[1] = n
    BY DEF StationsUpTo, StationsOfItem
  <2> QED
    BY <1>1, <2>1 DEF Precedes
<1> QED
  BY <1>3, <1>4

\* The rows of any items in order, the last one last.
Gathers(f, n) ==
  f = [S \in SUBSET (1 .. n) |-> IF S = {} THEN <<>> ELSE f[S \ {Max(S)}] \o Row(Max(S))]

\* There is such a function: what Stations folds with it is defined.
LEMMA RowsCanBeGathered ==
  ASSUME NEW n \in Nat
  PROVE  \E f : Gathers(f, n)
<1> DEFINE Lacking == {k \in Nat : ~\E f : Gathers(f, k)}
<1>1. \E f : Gathers(f, 0)
  <2>1. SUBSET (1 .. 0) = {{}}
    OBVIOUS
  <2>2. Gathers([S \in SUBSET (1 .. 0) |-> <<>>], 0)
    BY <2>1 DEF Gathers
  <2> QED
    BY <2>2
<1>2. ASSUME NEW k \in Nat, k # 0, NEW f, Gathers(f, k - 1)
      PROVE  \E g : Gathers(g, k)
  <2> DEFINE Rule(h, S) == IF S = {} THEN <<>> ELSE h[S \ {Max(S)}] \o Row(Max(S))
             g == [S \in SUBSET (1 .. k) |-> IF k \in S THEN f[S \ {k}] \o Row(k) ELSE f[S]]
  <2>1. f = [S \in SUBSET (1 .. k - 1) |-> Rule(f, S)]
    BY <1>2 DEF Gathers
  <2>2. ASSUME NEW S \in SUBSET (1 .. k)
        PROVE  g[S] = Rule(g, S)
    <3>1. CASE k \in S
      <4>1. Max(S) = k
        <5>1. Max(S) \in S /\ \A j \in S : j <= Max(S)
          BY <3>1, MaxIsGreatest
        <5>2. k <= Max(S) /\ Max(S) \in 1 .. k
          BY <3>1, <5>1
        <5> HIDE DEF g
        <5> QED
          BY <5>2
      <4>2. S \ {k} \in SUBSET (1 .. k) /\ k \notin S \ {k}
        OBVIOUS
      <4>3. g[S \ {k}] = f[S \ {k}]
        BY <4>2
      <4>4. g[S] = f[S \ {k}] \o Row(k)
        BY <3>1
      <4> HIDE DEF g
      <4> QED
        BY <3>1, <4>1, <4>3, <4>4
    <3>2. CASE k \notin S
      <4>1. S \in SUBSET (1 .. k - 1)
        BY <3>2
      <4>2. g[S] = Rule(f, S)
        <5>1. g[S] = f[S]
          BY <3>2
        <5> HIDE DEF g, Rule
        <5> QED
          BY <2>1, <4>1, <5>1
      <4>3. ASSUME S # {}
            PROVE  g[S \ {Max(S)}] = f[S \ {Max(S)}]
        <5>1. S \ {Max(S)} \in SUBSET (1 .. k) /\ k \notin S \ {Max(S)}
          BY <3>2
        <5> QED
          BY <5>1
      <4> HIDE DEF g
      <4> QED
        BY <4>2, <4>3
    <3> QED
      BY <3>1, <3>2
  <2>3. g = [S \in SUBSET (1 .. k) |-> g[S]]
    OBVIOUS
  <2> HIDE DEF g
  <2>4. Gathers(g, k)
    <3> HIDE DEF Rule
    <3>1. g = [S \in SUBSET (1 .. k) |-> Rule(g, S)]
      BY <2>2, <2>3
    <3> QED
      BY <3>1, Zenon DEF Gathers, Rule
  <2> QED
    BY <2>4
<1>3. Lacking = {}
  <2> SUFFICES ASSUME Lacking # {} PROVE FALSE
    OBVIOUS
  <2>1. Lacking \in SUBSET Nat
    OBVIOUS
  <2> HIDE DEF Lacking
  <2>2. PICK k \in Lacking : \A j \in Lacking : k <= j
    BY <2>1, MinIsLeast, Zenon
  <2>3. k \in Nat /\ ~\E f : Gathers(f, k)
    BY <2>2 DEF Lacking
  <2>4. k # 0
    BY <1>1, <2>3
  <2>5. k - 1 \in Nat /\ k - 1 \notin Lacking
    BY <2>2, <2>3, <2>4
  <2>6. \E f : Gathers(f, k - 1)
    BY <2>5 DEF Lacking
  <2> QED
    BY <1>2, <2>3, <2>4, <2>6
<1> QED
  BY <1>3

\* It gathers all stops of the first items, in order.
LEMMA GatheredEnumerate ==
  ASSUME NEW f, Gathers(f, Len(Items))
  PROVE  Enumerates(f[1 .. Len(Items)], Stops)
<1> DEFINE n == Len(Items)
           Wrong == {k \in 0 .. n : ~Enumerates(f[1 .. k], StationsUpTo(k))}
<1>0. n \in Nat /\ DOMAIN Items = 1 .. n
  BY ItemNumbers
<1>1. Enumerates(f[1 .. 0], StationsUpTo(0))
  <2>1. 1 .. 0 = {} /\ {} \in SUBSET (1 .. n)
    BY <1>0
  <2>2. f[{}] = <<>>
    BY <2>1 DEF Gathers
  <2>3. StationsUpTo(0) = {}
    BY <2>1 DEF StationsUpTo
  <2>4. f[1 .. 0] = <<>>
    BY <2>1, <2>2
  <2> QED
    BY <2>3, <2>4 DEF Enumerates
<1>2. ASSUME NEW k \in 1 .. n, Enumerates(f[1 .. k - 1], StationsUpTo(k - 1))
      PROVE  Enumerates(f[1 .. k], StationsUpTo(k))
  <2>1. 1 .. k \in SUBSET (1 .. n) /\ 1 .. k # {} /\ k \in 1 .. k /\ k \in Nat
    BY <1>0
  <2>2. Max(1 .. k) = k
    <3> DEFINE S == 1 .. k
    <3>1. S \in SUBSET (1 .. k) /\ S # {} /\ 1 \in Int /\ k \in Int /\ k \in S
      BY <2>1
    <3> HIDE DEF S
    <3>2. Max(S) \in S /\ \A j \in S : j <= Max(S)
      BY <3>1, MaxIsGreatest
    <3> QED
      BY <3>1, <3>2 DEF S
  <2>3. (1 .. k) \ {k} = 1 .. k - 1
    BY <2>1
  <2>4. f[1 .. k] = f[1 .. k - 1] \o Row(k)
    <3>1. f[1 .. k] = f[(1 .. k) \ {Max(1 .. k)}] \o Row(Max(1 .. k))
      BY <2>1 DEF Gathers
    <3> QED
      BY <2>2, <2>3, <3>1
  <2>5. Enumerates(Row(k), StationsOfItem(k))
    BY <1>0, RowHasStations
  <2> QED
    BY <1>2, <2>4, <2>5, StationsGrow, EnumeratesBoth
<1>3. Wrong = {}
  <2> SUFFICES ASSUME Wrong # {} PROVE FALSE
    OBVIOUS
  <2>1. Wrong \in SUBSET Nat
    BY <1>0
  <2> HIDE DEF Wrong
  <2>2. PICK k \in Wrong : \A j \in Wrong : k <= j
    BY <2>1, MinIsLeast, Zenon
  <2>3. k \in 0 .. n /\ ~Enumerates(f[1 .. k], StationsUpTo(k))
    BY <2>2 DEF Wrong
  <2>4. k # 0
    BY <1>1, <2>3
  <2>5. k \in 1 .. n /\ k - 1 \in 0 .. n /\ k - 1 \notin Wrong
    BY <1>0, <2>2, <2>3, <2>4
  <2>6. Enumerates(f[1 .. k - 1], StationsUpTo(k - 1))
    BY <2>5 DEF Wrong
  <2> QED
    BY <1>2, <2>3, <2>5, <2>6
<1>4. n \in 0 .. n
  BY <1>0
<1> QED
  BY <1>3, <1>4 DEF Stops

\* The stations of the tabulator are all of its stops, in order.
LEMMA StationsAreStops == Enumerates(Stations, Stops)
<1> DEFINE D == DOMAIN Items
           Fits(f) == f = [S \in SUBSET D |-> IF S = {} THEN <<>>
                                              ELSE f[S \ {Max(S)}] \o Row(Max(S))]
           iter == CHOOSE f : Fits(f)
<1>1. D = 1 .. Len(Items) /\ Len(Items) \in Nat
  BY ItemNumbers
<1>2. \A f : Fits(f) <=> Gathers(f, Len(Items))
  BY <1>1 DEF Gathers
<1>3. \E f : Fits(f)
  BY <1>1, <1>2, RowsCanBeGathered, Zenon
<1>4. Fits(iter)
  BY <1>3, Zenon
<1>5. Stations = iter[D]
  <2> DEFINE seq == [i \in D |-> i]
  <2>1. DOMAIN seq = D /\ \A i \in D : seq[i] = i
    OBVIOUS
  <2> DEFINE RowsIn(f, S) == IF S = {} THEN <<>>
                             ELSE f[S \ {Max(S)}] \o Row(seq[Max(S)])
             Folds(f) == f = [S \in SUBSET (DOMAIN seq) |-> RowsIn(f, S)]
  <2>2. Stations = (CHOOSE f : Folds(f))[DOMAIN seq]
    BY DEF Stations, FoldLeft, MapThenFoldSet, Row
  <2>3. ASSUME NEW f, NEW S \in SUBSET D
        PROVE  RowsIn(f, S) = IF S = {} THEN <<>> ELSE f[S \ {Max(S)}] \o Row(Max(S))
    <3>1. CASE S # {}
      <4>1. Max(S) \in D
        <5>1. S \in SUBSET (1 .. Len(Items)) /\ 1 \in Int /\ Len(Items) \in Int
          BY <1>1
        <5>2. Max(S) \in S
          BY <3>1, <5>1, MaxIsGreatest
        <5> QED
          BY <5>2
      <4>2. seq[Max(S)] = Max(S)
        BY <2>1, <4>1
      <4> QED
        BY <3>1, <4>2
    <3>2. CASE S = {}
      BY <3>2
    <3> QED
      BY <3>1, <3>2
  <2> HIDE DEF RowsIn
  <2>4. ASSUME NEW f
        PROVE  [S \in SUBSET (DOMAIN seq) |-> RowsIn(f, S)] =
                 [S \in SUBSET D |-> IF S = {} THEN <<>> ELSE f[S \ {Max(S)}] \o Row(Max(S))]
    BY <2>1, <2>3
  <2>5. \A f : Folds(f) <=> Fits(f)
    BY <2>4, Zenon
  <2> HIDE DEF Folds, Fits
  <2>6. (CHOOSE f : Folds(f)) = (CHOOSE f : Fits(f))
    BY <2>5
  <2> QED
    BY <2>1, <2>2, <2>6
<1> HIDE DEF Fits, iter
<1> QED
  BY <1>1, <1>2, <1>4, <1>5, GatheredEnumerate

\* No stop comes before itself.
LEMMA NoStopTwice ==
  ASSUME NEW q, Enumerates(q, Stops), NEW k \in 1 .. Len(q), NEW l \in 1 .. Len(q), q[k] = q[l]
  PROVE  k = l
<1>1. /\ Len(q) \in Nat
      /\ \A i, j \in 1 .. Len(q) : i < j => Precedes(q[i], q[j])
      /\ q[k] \in Stops
  <2>1. q \in Seq(Stops) /\ \A i, j \in 1 .. Len(q) : i < j => Precedes(q[i], q[j])
    BY DEF Enumerates
  <2>2. Len(q) \in Nat /\ q[k] \in Stops
    BY ONLY <2>1, k \in 1 .. Len(q)
  <2> QED
    BY <2>1, <2>2
<1>2. q[k][1] \in Int /\ q[k][2] \in Int
  <2>1. \A s \in Stops : s \in (1 .. Len(Items)) \X (0 .. 2)
    BY DEF Stops, StationsUpTo
  <2>2. \A s \in (1 .. Len(Items)) \X (0 .. 2) : s[1] \in Int /\ s[2] \in Int
    OBVIOUS
  <2> QED
    BY <1>1, <2>1, <2>2, Zenon
<1>3. ~Precedes(q[k], q[k])
  BY <1>2 DEF Precedes
<1> QED
  BY <1>1, <1>3

\* Numbers behind the last one start again.
LEMMA NumbersGoRound ==
  ASSUME NEW n \in Nat, NEW r \in 0 .. n - 1
  PROVE  r % n = r /\ (r + n) % n = r
OBVIOUS

\* Neighbouring stops have neighbouring numbers, and the first follows the last.
LEMMA NeighboursInRow ==
  ASSUME NEW q, Enumerates(q, Stops), NEW k \in 1 .. Len(q), NEW t, Neighbours(q[k], t)
  PROVE  t = q[IF k = Len(q) THEN 1 ELSE k + 1]
<1>1. /\ Len(q) \in Nat /\ Len(q) >= 1
      /\ \A i \in 1 .. Len(q) : q[i] \in Stops
      /\ \A i, j \in 1 .. Len(q) : i < j => Precedes(q[i], q[j])
  BY DEF Enumerates
<1>2. PICK l \in 1 .. Len(q) : q[l] = t
  BY DEF Enumerates, Neighbours
<1>3. \A s \in Stops : s[1] \in Int /\ s[2] \in Int
  BY StopsAre, ItemNumbers DEF Stops, StationsUpTo
<1>4. \A i, j \in 1 .. Len(q) : Precedes(q[i], q[j]) => i < j
  <2> TAKE i, j \in 1 .. Len(q)
  <2>1. /\ q[i][1] \in Int /\ q[i][2] \in Int /\ q[j][1] \in Int /\ q[j][2] \in Int
    BY <1>1, <1>3
  <2>2. CASE j < i
    <3>1. Precedes(q[j], q[i])
      BY <1>1, <2>2
    <3> QED
      BY <2>1, <3>1 DEF Precedes
  <2>3. CASE i = j
    BY <2>1, <2>3 DEF Precedes
  <2> QED
    BY <2>2, <2>3
<1>5. CASE /\ Precedes(q[k], t)
           /\ \A u \in Stops : ~(Precedes(q[k], u) /\ Precedes(u, t))
  <2>1. k < l
    BY <1>2, <1>4, <1>5
  <2>2. CASE l # k + 1
    <3>1. k + 1 \in 1 .. Len(q) /\ k < k + 1 /\ k + 1 < l
      BY <1>1, <2>1, <2>2
    <3>2. Precedes(q[k], q[k + 1]) /\ Precedes(q[k + 1], q[l]) /\ q[k + 1] \in Stops
      BY <1>1, <3>1
    <3> QED
      BY <1>2, <1>5, <3>2
  <2>3. CASE l = k + 1
    <3>1. k # Len(q)
      BY <1>1, <2>1
    <3> QED
      BY <1>2, <2>3, <3>1
  <2> QED
    BY <2>2, <2>3
<1>6. CASE \A u \in Stops : ~Precedes(q[k], u) /\ ~Precedes(u, t)
  <2>1. k = Len(q)
    <3> SUFFICES ASSUME k # Len(q) PROVE FALSE
      OBVIOUS
    <3>1. k + 1 \in 1 .. Len(q) /\ k < k + 1
      BY <1>1
    <3>2. Precedes(q[k], q[k + 1]) /\ q[k + 1] \in Stops
      BY <1>1, <3>1
    <3> QED
      BY <1>6, <3>2
  <2>2. l = 1
    <3> SUFFICES ASSUME l # 1 PROVE FALSE
      OBVIOUS
    <3>1. 1 \in 1 .. Len(q) /\ 1 < l
      BY <1>1
    <3>2. Precedes(q[1], q[l]) /\ q[1] \in Stops
      BY <1>1, <3>1
    <3> QED
      BY <1>2, <1>6, <3>2
  <2> QED
    BY <1>2, <2>1, <2>2
<1> QED
  BY <1>5, <1>6 DEF Neighbours

\* The tabulator leads through the widgets that want the focus, and through the
\* parts of those that are panels, in one circle and in their order, and with
\* shift the same way back (step_focus and panel_event of ui/panel.c).
THEOREM TabsGoRound == Spec => TabGoesRound
<1> DEFINE n == Len(Stations)
           Goes == \A dir \in {-1, 1} : Tab(dir) =>
                     \A k \in DOMAIN Stations :
                       Station = Stations[k] => Station' = Stations[((k - 1 + dir + n) % n) + 1]
<1>1. FocusIsRight /\ [Next]_vars => [Goes]_vars
  <2> SUFFICES ASSUME FocusIsRight, NEW dir \in {-1, 1}, Tab(dir), NEW k \in DOMAIN Stations,
                      Station = Stations[k]
               PROVE  Station' = Stations[((k - 1 + dir + n) % n) + 1]
    OBVIOUS
  <2>1. /\ Stations \in Seq(Stops) /\ Enumerates(Stations, Stops)
        /\ \A s \in Stops : \E l \in 1 .. n : Stations[l] = s
    BY StationsAreStops DEF Enumerates
  <2>2. n \in Nat /\ k \in 1 .. n /\ Station \in Stops
    BY <2>1
  <2>3. FocusTypeOK
    BY DEF FocusIsRight
  <2> HIDE DEF n
  <2>4. CASE dir = 1
    <3>1. Neighbours(Station, Station')
      BY <2>2, <2>3, <2>4, TabToNeighbour
    <3>2. Station' = Stations[IF k = n THEN 1 ELSE k + 1]
      BY <2>1, <2>2, <3>1, NeighboursInRow DEF n
    <3>3. ((k - 1 + 1 + n) % n) + 1 = IF k = n THEN 1 ELSE k + 1
      <4>1. CASE k = n
        <5>1. 0 \in 0 .. n - 1 /\ k - 1 + 1 + n = 0 + n + n
          BY <2>2, <4>1
        <5>2. (0 + n + n) % n = 0
          BY <2>2, <4>1
        <5> QED
          BY <4>1, <5>1, <5>2
      <4>2. CASE k # n
        <5>1. k \in 0 .. n - 1 /\ k - 1 + 1 + n = k + n
          BY <2>2, <4>2
        <5> QED
          BY <2>2, <4>2, <5>1, NumbersGoRound
      <4> QED
        BY <4>1, <4>2
    <3> QED
      BY <2>4, <3>2, <3>3
  <2>5. CASE dir = -1
    <3>1. Neighbours(Station', Station)
      BY <2>2, <2>3, <2>5, TabToNeighbour
    <3>2. PICK l \in 1 .. n : Stations[l] = Station'
      BY <2>1, <3>1 DEF Neighbours
    <3>3. Station = Stations[IF l = n THEN 1 ELSE l + 1]
      BY <2>1, <2>2, <3>1, <3>2, NeighboursInRow DEF n
    <3>4. k = IF l = n THEN 1 ELSE l + 1
      <4> DEFINE m == IF l = n THEN 1 ELSE l + 1
      <4>1. m \in 1 .. n
        BY <2>2
      <4>2. Stations[m] = Stations[k]
        BY <3>3
      <4> HIDE DEF m
      <4>3. m = k
        BY <2>1, <2>2, <4>1, <4>2, NoStopTwice DEF n
      <4> QED
        BY <4>3 DEF m
    <3>5. ((k - 1 + (-1) + n) % n) + 1 = l
      <4>1. CASE l = n
        <5>1. l - 1 \in 0 .. n - 1 /\ k - 1 + (-1) + n = l - 1
          BY <2>2, <3>4, <4>1
        <5> QED
          BY <2>2, <5>1, NumbersGoRound
      <4>2. CASE l # n
        <5>1. l - 1 \in 0 .. n - 1 /\ k - 1 + (-1) + n = (l - 1) + n
          BY <2>2, <3>4, <4>2
        <5>2. ((l - 1) + n) % n = l - 1
          BY <2>2, <5>1, NumbersGoRound
        <5>3. (k - 1 + (-1) + n) % n = l - 1
          BY <5>1, <5>2
        <5> QED
          BY <5>3
      <4> QED
        BY <4>1, <4>2
    <3> QED
      BY <2>5, <3>2, <3>5
  <2> QED
    BY <2>4, <2>5
<1> QED
  BY <1>1, FocusStartsRight, FocusStaysRight, PTL DEF Spec, TabGoesRound

--------------------------------------------------------------------------------
(* The scroll model.                                                       *)

Models == [total : Nat, page : Nat, value : Int]
InBounds(m) == m \in Models /\ m.value \in 0 .. ScrollMax(m)

\* Wherever one scrolls to, it is a position there is.
LEMMA ScrollToStays ==
  ASSUME NEW m \in Models, NEW v \in Int
  PROVE  /\ InBounds(ScrollTo(m, v))
         /\ ScrollTo(m, v).total = m.total /\ ScrollTo(m, v).page = m.page
         /\ v \in 0 .. ScrollMax(m) => ScrollTo(m, v).value = v
<1>1. ScrollMax(m) \in Nat
  BY DEF ScrollMax, Models
<1>2. Clamped(v, 0, ScrollMax(m)) \in 0 .. ScrollMax(m)
  BY <1>1 DEF Clamped
<1> DEFINE c == Clamped(v, 0, ScrollMax(m))
<1>3. v \in 0 .. ScrollMax(m) => c = v
  BY <1>1 DEF Clamped
<1> HIDE DEF c
<1>4. ScrollTo(m, v) = [total |-> m.total, page |-> m.page, value |-> c]
  BY DEF ScrollTo, Models, c
<1>5. ScrollMax(ScrollTo(m, v)) = ScrollMax(m)
  BY <1>4 DEF ScrollMax
<1> QED
  BY <1>1, <1>2, <1>3, <1>4, <1>5 DEF InBounds, Models, c

\* Another size of the text or of the window leaves a position there is, and the
\* same one if they are not others.
LEMMA ScrollSetFits ==
  ASSUME NEW m \in Models, NEW total \in Nat, NEW page \in Nat
  PROVE  LET r == ScrollSet(m, total, page)
         IN /\ InBounds(r) /\ r.total = total /\ r.page = page
            /\ m.total = total /\ m.page = page /\ InBounds(m) => r.value = m.value
<1> DEFINE n == [m EXCEPT !.total = total, !.page = page]
<1>1. n \in Models /\ n.total = total /\ n.page = page /\ n.value = m.value
  BY DEF Models
<1>2. ScrollSet(m, total, page) = ScrollTo(n, m.value)
  BY DEF ScrollSet
<1>3. m.value \in Int
  BY DEF Models
<1>4. m.total = total /\ m.page = page => ScrollMax(n) = ScrollMax(m)
  BY <1>1 DEF ScrollMax
<1> HIDE DEF n
<1>5. /\ InBounds(ScrollTo(n, m.value))
      /\ ScrollTo(n, m.value).total = n.total /\ ScrollTo(n, m.value).page = n.page
      /\ m.value \in 0 .. ScrollMax(n) => ScrollTo(n, m.value).value = m.value
  BY <1>1, <1>3, ScrollToStays
<1>6. m.total = total /\ m.page = page /\ InBounds(m) => m.value \in 0 .. ScrollMax(n)
  BY <1>4 DEF InBounds
<1> QED
  BY <1>1, <1>2, <1>5, <1>6, Zenon

\* A line that is revealed is on the page.
LEMMA RevealShows ==
  ASSUME NEW m, InBounds(m), NEW index \in 0 .. m.total - 1
  PROVE  LET r == Reveal(m, index)
         IN /\ InBounds(r) /\ r.total = m.total /\ r.page = m.page
            /\ m.page > 0 => index - r.value \in 0 .. m.page - 1
<1> DEFINE total == m.total
           page == m.page
           value == m.value
           r == Reveal(m, index)
<1>0. m \in Models /\ total \in Nat /\ page \in Nat /\ value \in Int /\ total > 0
  BY DEF InBounds, Models
<1>1. value \in 0 .. ScrollMax(m)
  BY DEF InBounds
<1>2. ScrollMax(m) = IF total > page THEN total - page ELSE 0
  BY DEF ScrollMax
<1>3. Clamped(index, 0, total - 1) = index
  BY <1>0 DEF Clamped
<1>4. r = IF index < value THEN ScrollTo(m, index)
          ELSE IF page > 0 /\ index >= value + page THEN ScrollTo(m, index - page + 1)
          ELSE ScrollTo(m, value)
  BY <1>0, <1>3 DEF Reveal
<1> HIDE DEF total, page, value, r
<1>5. index \in Int /\ index >= 0 /\ index < total
  BY <1>0 DEF total
<1>6. CASE index < value
  <2>1. index \in 0 .. ScrollMax(m)
    BY <1>0, <1>1, <1>2, <1>5, <1>6
  <2> QED
    BY <1>0, <1>4, <1>5, <1>6, <2>1, ScrollToStays DEF total, page, r
<1>7. CASE ~(index < value) /\ page > 0 /\ index >= value + page
  <2>1. index - page + 1 \in 0 .. ScrollMax(m)
    BY <1>0, <1>1, <1>2, <1>5, <1>7
  <2>2. r = ScrollTo(m, index - page + 1)
    BY <1>4, <1>7
  <2> QED
    BY <1>0, <1>5, <1>7, <2>1, <2>2, ScrollToStays DEF total, page, r
<1>8. CASE ~(index < value) /\ ~(page > 0 /\ index >= value + page)
  <2>1. r = ScrollTo(m, value)
    BY <1>4, <1>8
  <2> QED
    BY <1>0, <1>1, <1>5, <1>8, <2>1, ScrollToStays DEF total, page, r
<1> QED
  BY <1>6, <1>7, <1>8

\* Whatever is pressed on the scroll bar, the position is one there is.
LEMMA BarStaysInBounds ==
  ASSUME NEW m, InBounds(m), NEW len, NEW arrow, NEW y
  PROVE  LET r == BarPressed(m, len, arrow, y)
         IN InBounds(r) /\ r.total = m.total /\ r.page = m.page
<1>1. m \in Models /\ m.value \in Int /\ m.page \in Int
  BY DEF InBounds, Models
<1>2. \A v \in Int : LET r == ScrollTo(m, v)
                     IN InBounds(r) /\ r.total = m.total /\ r.page = m.page
  BY <1>1, ScrollToStays
<1>3. BarPressed(m, len, arrow, y) \in {m} \union {ScrollTo(m, v) : v \in Int}
  BY <1>1 DEF BarPressed, ScrollBy, ScrollPages
<1> QED
  BY <1>2, <1>3

--------------------------------------------------------------------------------
(* Breaking lines.                                                         *)

IsChain(f, lo, hi, head, then) ==
  f = [p \in lo .. hi |-> IF p = hi THEN <<>> ELSE head[p] \o f[then[p]]]

\* A function that is given at hi, and before hi by what it is further on, exists.
LEMMA ChainExists ==
  ASSUME NEW lo \in Int, NEW hi \in Int, lo <= hi, NEW head, NEW then,
         \A p \in lo .. hi - 1 : then[p] \in p + 1 .. hi
  PROVE  \E f : IsChain(f, lo, hi, head, then)
<1> DEFINE Rule(f, p) == IF p = hi THEN <<>> ELSE head[p] \o f[then[p]]
           Has(n) == \E f : f = [p \in hi - n .. hi |-> Rule(f, p)]
           Lacking == {n \in 0 .. hi - lo : ~Has(n)}
<1>1. Has(0)
  <2>1. [p \in hi - 0 .. hi |-> <<>>] = [p \in hi - 0 .. hi |-> Rule([q \in hi - 0 .. hi |-> <<>>], p)]
    OBVIOUS
  <2> QED
    BY <2>1
<1>2. ASSUME NEW n \in 1 .. hi - lo, Has(n - 1)
      PROVE  Has(n)
  <2>1. PICK f : f = [p \in hi - (n - 1) .. hi |-> Rule(f, p)]
    BY <1>2
  <2> DEFINE g == [p \in hi - n .. hi |-> IF p = hi - n THEN Rule(f, p) ELSE f[p]]
  <2>2. \A p \in hi - n .. hi : g[p] = Rule(f, p)
    <3>1. \A p \in hi - (n - 1) .. hi : f[p] = Rule(f, p)
      BY <2>1, Zenon
    <3> HIDE DEF Rule
    <3> QED
      BY <3>1
  <2>3. \A p \in hi - n .. hi - 1 : g[then[p]] = f[then[p]]
    <3> TAKE p \in hi - n .. hi - 1
    <3>1. p \in lo .. hi - 1
      OBVIOUS
    <3>2. then[p] \in p + 1 .. hi
      BY <3>1
    <3>3. then[p] \in hi - n .. hi /\ then[p] # hi - n
      BY <3>2
    <3> QED
      BY <3>3
  <2>4. \A p \in hi - n .. hi : Rule(f, p) = Rule(g, p)
    <3> TAKE p \in hi - n .. hi
    <3>1. p = hi \/ p \in hi - n .. hi - 1
      OBVIOUS
    <3> HIDE DEF g
    <3> QED
      BY <2>3, <3>1, Zenon
  <2>5. g = [p \in hi - n .. hi |-> g[p]]
    OBVIOUS
  <2> HIDE DEF g, Rule
  <2>6. g = [p \in hi - n .. hi |-> Rule(g, p)]
    BY <2>2, <2>4, <2>5
  <2> QED
    BY <2>6
<1>3. Lacking = {}
  <2>1. SUFFICES ASSUME Lacking # {} PROVE FALSE
    OBVIOUS
  <2>2. Lacking \in SUBSET Nat
    <3> HIDE DEF Has
    <3> QED
      OBVIOUS
  <2> DEFINE least == Min(Lacking)
  <2>3. least \in Lacking /\ \A k \in Lacking : least <= k
    BY <2>1, <2>2, MinIsLeast, Zenon
  <2>4. least \in 0 .. hi - lo /\ ~Has(least)
    BY <2>3
  <2> HIDE DEF Has, least
  <2>5. least \in 1 .. hi - lo
    BY <1>1, <2>4
  <2>6. least - 1 \notin Lacking
    BY <2>3, <2>5 DEF least
  <2>7. Has(least - 1)
    BY <2>5, <2>6
  <2> QED
    BY <1>2, <2>4, <2>5, <2>7
<1>4. Has(hi - lo)
  <2> HIDE DEF Has
  <2>1. hi - lo \in 0 .. hi - lo
    OBVIOUS
  <2> QED
    BY <1>3, <2>1
<1>5. hi - (hi - lo) = lo
  OBVIOUS
<1> QED
  BY <1>4, <1>5 DEF IsChain

Pieces == [start : Nat, len : Nat]
PieceEnd(p) == p.start + p.len

\* Between two lines there is nothing but what they were parted at.
Follows(s, p, q) ==
  \/ q.start = PieceEnd(p)
  \/ q.start = PieceEnd(p) + 1 /\ s[PieceEnd(p) + 1] \in {Space, NewLine}

\* A line within the room, without a line break.
Whole(s, p, width) ==
  /\ \A k \in p.start + 1 .. PieceEnd(p) : s[k] # NewLine
  /\ p.len <= 1 \/ p.len * CharWidth <= width

Covers(s, from, to, width, lines) ==
  /\ lines \in Seq(Pieces) /\ lines # <<>>
  /\ lines[1].start = from /\ PieceEnd(lines[Len(lines)]) = to
  /\ \A i \in 1 .. Len(lines) - 1 : Follows(s, lines[i], lines[i + 1])
  /\ \A i \in 1 .. Len(lines) : Whole(s, lines[i], width)

\* Lines and the lines that follow them.
LEMMA CoversJoined ==
  ASSUME NEW s, NEW width, NEW from \in Int, NEW mid \in Int, NEW on \in Int, NEW to \in Int,
         NEW a, NEW b, Covers(s, from, mid, width, a), Covers(s, on, to, width, b),
         \/ on = mid
         \/ on = mid + 1 /\ s[mid + 1] \in {Space, NewLine}
  PROVE  Covers(s, from, to, width, a \o b)
<1> DEFINE n == Len(a)
           k == Len(b)
           c == a \o b
           m == Len(c)
<1>1. a \in Seq(Pieces) /\ b \in Seq(Pieces) /\ n \in Nat /\ k \in Nat /\ n > 0 /\ k > 0
  BY DEF Covers
<1>2. /\ c \in Seq(Pieces) /\ m = n + k /\ m \in Nat
      /\ \A i \in 1 .. n : c[i] = a[i]
      /\ \A i \in n + 1 .. n + k : c[i] = b[i - n]
  BY <1>1
<1>3. c # <<>> /\ c[1] = a[1] /\ c[n + k] = b[k] /\ c[n] = a[n] /\ c[n + 1] = b[1]
  BY <1>1, <1>2
<1>4. Follows(s, a[n], b[1])
  BY DEF Covers, Follows
<1> HIDE DEF n, k, c, m
<1>5. \A i \in 1 .. m - 1 : Follows(s, c[i], c[i + 1])
  <2> TAKE i \in 1 .. m - 1
  <2>1. CASE i \in 1 .. n - 1
    <3>1. Follows(s, a[i], a[i + 1])
      BY <2>1 DEF Covers, n
    <3>2. i \in 1 .. n /\ i + 1 \in 1 .. n
      BY <1>1, <2>1
    <3>3. c[i] = a[i] /\ c[i + 1] = a[i + 1]
      BY <1>2, <3>2, Zenon
    <3> QED
      BY <3>1, <3>3
  <2>2. CASE i = n
    BY <1>3, <1>4, <2>2
  <2>3. CASE i \in n + 1 .. n + k - 1
    <3>1. i - n \in 1 .. k - 1 /\ (i + 1) - n = (i - n) + 1
      BY <1>1, <2>3
    <3>2. Follows(s, b[i - n], b[(i - n) + 1])
      BY <3>1 DEF Covers, k
    <3>3. c[i] = b[i - n] /\ c[i + 1] = b[(i + 1) - n]
      <4>1. i \in n + 1 .. n + k /\ i + 1 \in n + 1 .. n + k
        BY <1>1, <2>3
      <4>2. \A j \in n + 1 .. n + k : c[j] = b[j - n]
        BY <1>2
      <4> QED
        BY <4>1, <4>2, Zenon
    <3> QED
      BY <3>1, <3>2, <3>3
  <2>4. i \in 1 .. n - 1 \/ i = n \/ i \in n + 1 .. n + k - 1
    BY <1>1, <1>2
  <2> QED
    BY <2>4, <2>1, <2>2, <2>3
<1>6. \A i \in 1 .. m : Whole(s, c[i], width)
  <2> TAKE i \in 1 .. m
  <2>1. CASE i \in 1 .. n
    BY <1>2, <2>1 DEF Covers, n
  <2>2. CASE i \in n + 1 .. n + k
    <3>1. i - n \in 1 .. k
      BY <1>1, <2>2
    <3>2. Whole(s, b[i - n], width)
      BY <3>1 DEF Covers, k
    <3> QED
      BY <1>2, <2>2, <3>2
  <2> QED
    BY <1>1, <1>2, <2>1, <2>2
<1>7. c[1].start = from /\ PieceEnd(c[m]) = to
  BY <1>2, <1>3 DEF Covers, k
<1>8. Covers(s, from, to, width, c)
  BY <1>2, <1>3, <1>5, <1>6, <1>7 DEF Covers, m
<1> QED
  BY <1>8 DEF c

\* A single line.
LEMMA OnePiece ==
  ASSUME NEW s, NEW width, NEW p \in Pieces, Whole(s, p, width)
  PROVE  Covers(s, p.start, PieceEnd(p), width, <<p>>)
BY DEF Covers

\* A line is parted so that it is no wider than the room, at a space if it has
\* one, and the rest begins further on.
IsParted(r, s, from, to, width) ==
  /\ r.piece \in Pieces /\ r.piece.start = from /\ Whole(s, r.piece, width)
  /\ r.next \in from + 1 .. to /\ PieceEnd(r.piece) \in from .. to
  /\ \/ r.next = PieceEnd(r.piece)
     \/ r.next = PieceEnd(r.piece) + 1 /\ r.next < to /\ s[r.next] = Space

LEMMA PieceIsRight ==
  ASSUME NEW s \in Seq(STRING), NEW width \in Nat \ {0}, NEW from \in Nat, NEW to \in Nat,
         from < to, to <= Len(s), \A k \in from + 1 .. to : s[k] # NewLine
  PROVE  IsParted(PieceFrom(s, from, to, width), s, from, to, width)
<1> DEFINE fits == Max({1, width \div CharWidth})
           end == IF from + fits < to THEN from + fits ELSE to
           spaces == {p \in from + 1 .. end : s[p] = Space}
           parted == end < to /\ spaces # {}
           stop == IF parted THEN Max(spaces) - 1 ELSE end
           next == IF parted THEN Max(spaces) ELSE end
           piece == [start |-> from, len |-> stop - from]
<1>1. PieceFrom(s, from, to, width) = [piece |-> piece, next |-> next]
  BY DEF PieceFrom, Piece
<1>2. fits \in Nat /\ fits >= 1 /\ (fits = 1 \/ fits * CharWidth <= width)
  <2>1. width \div CharWidth \in Nat /\ (width \div CharWidth) * CharWidth <= width
    BY CharWidthAssumption
  <2> DEFINE q == width \div CharWidth
  <2>2. q \in Int /\ 1 \in Int /\ fits = Max({1, q})
    BY <2>1
  <2> HIDE DEF q, fits
  <2>3. fits = IF 1 >= q THEN 1 ELSE q
    BY <2>2, MaxOfTwo
  <2>4. q \in Nat /\ q * CharWidth <= width
    BY <2>1 DEF q
  <2>5. CASE 1 >= q
    BY <2>3, <2>5
  <2>6. CASE ~(1 >= q)
    <3>1. fits = q /\ q >= 1
      BY <2>2, <2>3, <2>6
    <3> QED
      BY <2>4, <3>1, Zenon
  <2> QED
    BY <2>5, <2>6
<1> HIDE DEF fits
<1>3. end \in Nat /\ end > from /\ end <= to /\ end - from <= fits
  BY <1>2
<1> HIDE DEF end
<1>4. parted => Max(spaces) \in from + 1 .. end /\ s[Max(spaces)] = Space
  <2> SUFFICES ASSUME spaces # {} PROVE Max(spaces) \in spaces
    BY <1>3
  <2>1. spaces \in SUBSET (from + 1 .. end) /\ from + 1 \in Int /\ end \in Int
    BY <1>3
  <2> HIDE DEF spaces
  <2> QED
    BY <2>1, MaxIsGreatest
<1> HIDE DEF spaces
<1>5. /\ stop \in Int /\ stop \in from .. end /\ next \in from + 1 .. to
      /\ next = stop \/ (next = stop + 1 /\ next < to /\ s[next] = Space)
  BY <1>3, <1>4
<1> HIDE DEF stop, next
<1>6. stop - from \in Nat /\ stop - from <= fits /\ stop <= to
  BY <1>2, <1>3, <1>5
<1>7. piece \in Pieces /\ piece.start = from /\ piece.len = stop - from /\ PieceEnd(piece) = stop
  BY <1>5, <1>6 DEF Pieces, PieceEnd
<1> HIDE DEF piece
<1>8. piece.len <= 1 \/ piece.len * CharWidth <= width
  <2>1. CASE fits = 1
    BY <1>6, <1>7, <2>1
  <2>2. CASE fits * CharWidth <= width
    <3> DEFINE len == piece.len
    <3>1. len \in Nat /\ len <= fits
      BY <1>6, <1>7
    <3> HIDE DEF len
    <3>2. len * CharWidth <= fits * CharWidth
      BY <1>2, <3>1, CharWidthAssumption
    <3> QED
      BY <1>2, <2>2, <3>1, <3>2, CharWidthAssumption DEF len
  <2> QED
    BY <1>2, <2>1, <2>2
<1>9. Whole(s, piece, width)
  BY <1>5, <1>6, <1>7, <1>8 DEF Whole
<1>10. stop \in from .. to
  BY <1>3, <1>5
<1> QED
  BY <1>1, <1>5, <1>7, <1>9, <1>10 DEF IsParted

\* The lines of a text without line breaks.
LEMMA LineIsCovered ==
  ASSUME NEW s \in Seq(STRING), NEW width \in Nat \ {0}, NEW from \in Nat, NEW to \in Nat,
         from <= to, to <= Len(s), \A k \in from + 1 .. to : s[k] # NewLine
  PROVE  Covers(s, from, to, width, PiecesOfLine(s, from, to, width))
<1>1. CASE from = to
  <2> DEFINE p == [start |-> from, len |-> to - from]
  <2>1. PiecesOfLine(s, from, to, width) = <<p>>
    BY <1>1 DEF PiecesOfLine, Piece
  <2>2. p \in Pieces /\ p.start = from /\ p.len = 0 /\ PieceEnd(p) = to
    BY <1>1 DEF Pieces, PieceEnd
  <2> HIDE DEF p
  <2>3. Whole(s, p, width)
    BY <1>1, <2>2 DEF Whole
  <2> QED
    BY <2>1, <2>2, <2>3, OnePiece
<1>2. CASE from # to
  <2> DEFINE Cut(p) == PieceFrom(s, p, to, width)
             rest == CHOOSE f : f = [p \in from .. to |-> IF p = to THEN <<>>
                                                        ELSE <<Cut(p).piece>> \o f[Cut(p).next]]
             head == [p \in from .. to - 1 |-> <<Cut(p).piece>>]
             then == [p \in from .. to - 1 |-> Cut(p).next]
  <2>1. PiecesOfLine(s, from, to, width) = rest[from]
    BY <1>2 DEF PiecesOfLine
  <2>2. ASSUME NEW p \in from .. to - 1
        PROVE  /\ Cut(p).piece \in Pieces /\ Cut(p).piece.start = p /\ Whole(s, Cut(p).piece, width)
               /\ Cut(p).next \in p + 1 .. to /\ PieceEnd(Cut(p).piece) \in p .. to
               /\ \/ Cut(p).next = PieceEnd(Cut(p).piece)
                  \/ /\ Cut(p).next = PieceEnd(Cut(p).piece) + 1 /\ Cut(p).next < to
                     /\ s[Cut(p).next] = Space
    <3>1. p \in Nat /\ p < to /\ \A k \in p + 1 .. to : s[k] # NewLine
      OBVIOUS
    <3>2. IsParted(Cut(p), s, p, to, width)
      <4> HIDE DEF rest, head, then
      <4> QED
        BY <3>1, PieceIsRight
    <3> HIDE DEF rest, head, then, Cut
    <3> QED
      BY <3>2 DEF IsParted
  <2> HIDE DEF Cut
  <2>3. \A p \in from .. to - 1 : then[p] \in p + 1 .. to
    BY <2>2
  <2>4. PICK f : IsChain(f, from, to, head, then)
    <3>1. from \in Int /\ to \in Int
      OBVIOUS
    <3> HIDE DEF head, then, rest
    <3> QED
      BY <2>3, <3>1, ChainExists
  <2>5. \A p \in from .. to : p = to \/ p \in from .. to - 1
    OBVIOUS
  <2>6. \A p \in from .. to - 1 : head[p] \o f[then[p]] = <<Cut(p).piece>> \o f[Cut(p).next]
    OBVIOUS
  <2> HIDE DEF head, then
  <2>7. f = [p \in from .. to |-> IF p = to THEN <<>> ELSE <<Cut(p).piece>> \o f[Cut(p).next]]
    <3>1. \A p \in from .. to : (IF p = to THEN <<>> ELSE head[p] \o f[then[p]])
                                = (IF p = to THEN <<>> ELSE <<Cut(p).piece>> \o f[Cut(p).next])
      BY <2>5, <2>6, Zenon
    <3> QED
      BY <2>4, <3>1, Zenon DEF IsChain
  <2>8. rest = [p \in from .. to |-> IF p = to THEN <<>> ELSE <<Cut(p).piece>> \o rest[Cut(p).next]]
    BY <2>7, Zenon
  <2> HIDE DEF rest
  <2>9. rest[to] = <<>>
    BY <2>8
  <2>10. \A p \in from .. to - 1 : rest[p] = <<Cut(p).piece>> \o rest[Cut(p).next]
    <3>1. \A p \in from .. to - 1 : p \in from .. to /\ p # to
      OBVIOUS
    <3> QED
      BY <2>8, <3>1, Zenon
  <2> DEFINE Covered(p) == Covers(s, p, to, width, rest[p])
             Missed == {n \in 1 .. to - from : ~Covered(to - n)}
  <2>11. ASSUME NEW p \in from .. to - 1, \A q \in p + 1 .. to - 1 : Covered(q)
         PROVE  Covered(p)
    <3> DEFINE piece == Cut(p).piece
               next == Cut(p).next
    <3>1. /\ piece \in Pieces /\ piece.start = p /\ Whole(s, piece, width)
          /\ next \in p + 1 .. to /\ PieceEnd(piece) \in p .. to
          /\ \/ next = PieceEnd(piece)
             \/ next = PieceEnd(piece) + 1 /\ next < to /\ s[next] = Space
      BY <2>2
    <3>2. rest[p] = <<piece>> \o rest[next]
      BY <2>10
    <3> HIDE DEF piece, next
    <3>3. Covers(s, p, PieceEnd(piece), width, <<piece>>)
      BY <3>1, OnePiece
    <3>4. CASE next = to
      <4>1. PieceEnd(piece) = to
        BY <3>1, <3>4
      <4>2. rest[p] = <<piece>>
        <5>1. <<piece>> \in Seq(Pieces)
          BY <3>1
        <5>2. <<piece>> \o <<>> = <<piece>>
          BY <5>1, ConcatEmptySeq
        <5> QED
          BY <2>9, <3>2, <3>4, <5>2
      <4> QED
        BY <3>3, <4>1, <4>2
    <3>5. CASE next # to
      <4>1. next \in p + 1 .. to - 1
        BY <3>1, <3>5
      <4>2. Covers(s, next, to, width, rest[next])
        BY <2>11, <4>1
      <4>3. \/ next = PieceEnd(piece)
            \/ next = PieceEnd(piece) + 1 /\ s[PieceEnd(piece) + 1] \in {Space, NewLine}
        BY <3>1
      <4>4. p \in Int /\ PieceEnd(piece) \in Int /\ next \in Int /\ to \in Int
        BY <3>1
      <4>5. Covers(s, p, to, width, <<piece>> \o rest[next])
        BY <3>3, <4>2, <4>3, <4>4, CoversJoined
      <4> QED
        BY <3>2, <4>5
    <3> QED
      BY <3>4, <3>5
  <2> HIDE DEF Covered
  <2>12. Missed = {}
    <3> SUFFICES ASSUME Missed # {} PROVE FALSE
      OBVIOUS
    <3>1. Missed \in SUBSET Nat
      OBVIOUS
    <3> DEFINE n == Min(Missed)
    <3>2. n \in Missed /\ \A k \in Missed : n <= k
      BY <3>1, MinIsLeast, Zenon
    <3> HIDE DEF n
    <3>3. n \in 1 .. to - from /\ ~Covered(to - n)
      BY <3>2
    <3>4. \A q \in to - n + 1 .. to - 1 : Covered(q)
      <4> TAKE q \in to - n + 1 .. to - 1
      <4>1. to - q \in 1 .. to - from /\ to - q < n /\ to - (to - q) = q
        BY <3>3
      <4>2. to - q \notin Missed
        <5> HIDE DEF Missed
        <5> QED
          BY <3>2, <3>3, <4>1
      <4> QED
        BY <4>1, <4>2
    <3>5. to - n \in from .. to - 1
      BY <3>3
    <3> HIDE DEF Missed
    <3> QED
      BY <2>11, <3>3, <3>4, <3>5
  <2>13. to - from \in 1 .. to - from /\ to - (to - from) = from
    BY <1>2
  <2>14. Covered(from)
    BY <2>12, <2>13
  <2> QED
    BY <2>1, <2>14 DEF Covered
<1> QED
  BY <1>1, <1>2

\* The lines of any text.
LEMMA TextIsCovered ==
  ASSUME NEW s \in Seq(STRING), NEW width \in Nat \ {0}
  PROVE  Covers(s, 0, Len(s), width, Broken(s, width))
<1> DEFINE last == Len(s)
           ends == {p \in 0 .. Len(s) : p = Len(s) \/ s[p + 1] = NewLine}
           EndOf(from) == Min({e \in ends : e >= from})
           rest == CHOOSE f : f = [from \in 0 .. Len(s) + 1 |->
                                     IF from > Len(s) THEN <<>>
                                     ELSE PiecesOfLine(s, from, EndOf(from), width)
                                          \o f[EndOf(from) + 1]]
           head == [from \in 0 .. last |-> PiecesOfLine(s, from, EndOf(from), width)]
           then == [from \in 0 .. last |-> EndOf(from) + 1]
<1>1. Broken(s, width) = rest[0]
  BY DEF Broken
<1>2. last \in Nat
  OBVIOUS
<1>3. ASSUME NEW p \in 0 .. last
      PROVE  /\ EndOf(p) \in p .. last
             /\ \A k \in p + 1 .. EndOf(p) : s[k] # NewLine
             /\ EndOf(p) = last \/ s[EndOf(p) + 1] = NewLine
  <2> DEFINE S == {e \in ends : e >= p}
             e == EndOf(p)
  <2>1. S \in SUBSET Nat /\ last \in S
    BY <1>2
  <2>2. Min(S) \in S /\ \A k \in S : Min(S) <= k
    <3> HIDE DEF S
    <3> QED
      BY <2>1, MinIsLeast
  <2>3. e = Min(S)
    OBVIOUS
  <2>4. e \in ends /\ e >= p /\ \A k \in ends : k >= p => e <= k
    <3> HIDE DEF e, ends
    <3> QED
      BY <2>2, <2>3
  <2> HIDE DEF e
  <2>5. e \in 0 .. last /\ (e = last \/ s[e + 1] = NewLine)
    BY <2>4
  <2>6. \A k \in p + 1 .. e : s[k] # NewLine
    <3> SUFFICES ASSUME NEW k \in p + 1 .. e, s[k] = NewLine
                 PROVE  FALSE
      OBVIOUS
    <3>1. k - 1 \in 0 .. last /\ k - 1 >= p /\ (k - 1) + 1 = k
      BY <2>5
    <3>2. k - 1 \in ends
      BY <3>1
    <3>3. e <= k - 1
      BY <2>4, <3>1, <3>2
    <3> QED
      BY <2>5, <3>3
  <2> QED
    BY <1>2, <2>4, <2>5, <2>6 DEF e
<1> HIDE DEF ends, EndOf, last
<1>4. \A p \in 0 .. last : Covers(s, p, EndOf(p), width, PiecesOfLine(s, p, EndOf(p), width))
  <2> TAKE p \in 0 .. last
  <2>1. p \in Nat /\ EndOf(p) \in Nat /\ p <= EndOf(p) /\ EndOf(p) <= Len(s)
    BY <1>2, <1>3 DEF last
  <2>2. \A k \in p + 1 .. EndOf(p) : s[k] # NewLine
    BY <1>3
  <2> QED
    BY <2>1, <2>2, LineIsCovered
<1> DEFINE lo == 0
           hi == last + 1
<1>5. lo \in Int /\ hi \in Int /\ lo <= hi /\ lo .. hi - 1 = 0 .. last
  BY <1>2
<1>6. \A p \in 0 .. last : then[p] \in p + 1 .. hi
  <2> TAKE p \in 0 .. last
  <2>1. EndOf(p) \in p .. last
    BY <1>3
  <2>2. EndOf(p) + 1 \in p + 1 .. last + 1
    BY <1>2, <2>1
  <2> QED
    BY <2>2
<1>7. PICK f : IsChain(f, 0, last + 1, head, then)
  <2> HIDE DEF head, then, rest, lo, hi
  <2>1. \A p \in lo .. hi - 1 : then[p] \in p + 1 .. hi
    BY <1>5, <1>6
  <2>2. \E f : IsChain(f, lo, hi, head, then)
    BY <1>5, <2>1, ChainExists
  <2> QED
    BY <2>2 DEF lo, hi
<1>8. \A p \in 0 .. last + 1 :
        (IF p = last + 1 THEN <<>> ELSE head[p] \o f[then[p]])
        = (IF p > last THEN <<>> ELSE PiecesOfLine(s, p, EndOf(p), width) \o f[EndOf(p) + 1])
  <2> TAKE p \in 0 .. last + 1
  <2>1. \/ p = last + 1 /\ p > last
        \/ p # last + 1 /\ ~(p > last) /\ p \in 0 .. last
    BY <1>2
  <2>2. p \in 0 .. last =>
          head[p] = PiecesOfLine(s, p, EndOf(p), width) /\ then[p] = EndOf(p) + 1
    OBVIOUS
  <2> HIDE DEF head, then
  <2> QED
    BY <2>1, <2>2, Zenon
<1> HIDE DEF head, then
<1>9. f = [p \in 0 .. last + 1 |->
             IF p > last THEN <<>> ELSE PiecesOfLine(s, p, EndOf(p), width) \o f[EndOf(p) + 1]]
  BY <1>7, <1>8, Zenon DEF IsChain
<1>10. rest = [p \in 0 .. last + 1 |->
                 IF p > last THEN <<>> ELSE PiecesOfLine(s, p, EndOf(p), width) \o rest[EndOf(p) + 1]]
  BY <1>9, Zenon DEF last
<1> HIDE DEF rest
<1>11. rest[last + 1] = <<>>
  BY <1>2, <1>10
<1>12. \A p \in 0 .. last : rest[p] = PiecesOfLine(s, p, EndOf(p), width) \o rest[EndOf(p) + 1]
  <2>1. \A p \in 0 .. last : p \in 0 .. last + 1 /\ ~(p > last)
    BY <1>2
  <2> QED
    BY <1>10, <2>1, Zenon
<1> DEFINE Covered(p) == Covers(s, p, last, width, rest[p])
           Missed == {n \in 0 .. last : ~Covered(last - n)}
<1>13. ASSUME NEW p \in 0 .. last, \A q \in p + 1 .. last : Covered(q)
       PROVE  Covered(p)
  <2> DEFINE e == EndOf(p)
             line == PiecesOfLine(s, p, e, width)
  <2>1. e \in p .. last /\ (e = last \/ s[e + 1] = NewLine)
    BY <1>3
  <2>2. rest[p] = line \o rest[e + 1]
    BY <1>12
  <2>3. Covers(s, p, e, width, line)
    BY <1>4
  <2> HIDE DEF e, line
  <2>4. CASE e = last
    <3>1. line \in Seq(Pieces)
      BY <2>3 DEF Covers
    <3>2. line \o <<>> = line
      BY <3>1, ConcatEmptySeq
    <3> QED
      BY <1>11, <2>2, <2>3, <2>4, <3>2
  <2>5. CASE e # last
    <3>1. e + 1 \in p + 1 .. last /\ s[e + 1] \in {Space, NewLine}
      BY <1>2, <2>1, <2>5
    <3>2. Covers(s, e + 1, last, width, rest[e + 1])
      BY <1>13, <3>1
    <3>3. p \in Int /\ e \in Int /\ e + 1 \in Int /\ last \in Int
      BY <1>2, <2>1
    <3>4. Covers(s, p, last, width, line \o rest[e + 1])
      BY <2>3, <3>1, <3>2, <3>3, CoversJoined
    <3> QED
      BY <2>2, <3>4
  <2> QED
    BY <2>4, <2>5
<1> HIDE DEF Covered
<1>14. Missed = {}
  <2> SUFFICES ASSUME Missed # {} PROVE FALSE
    OBVIOUS
  <2>1. Missed \in SUBSET Nat
    OBVIOUS
  <2> DEFINE n == Min(Missed)
  <2>2. n \in Missed /\ \A k \in Missed : n <= k
    BY <2>1, MinIsLeast, Zenon
  <2> HIDE DEF n
  <2>3. n \in 0 .. last /\ ~Covered(last - n)
    BY <2>2
  <2>4. \A q \in last - n + 1 .. last : Covered(q)
    <3> TAKE q \in last - n + 1 .. last
    <3>1. last - q \in 0 .. last /\ last - q < n /\ last - (last - q) = q
      BY <1>2, <2>3
    <3>2. last - q \notin Missed
      <4> HIDE DEF Missed
      <4> QED
        BY <2>2, <2>3, <3>1
    <3> QED
      BY <3>1, <3>2
  <2>5. last - n \in 0 .. last
    BY <1>2, <2>3
  <2> HIDE DEF Missed
  <2> QED
    BY <1>13, <2>3, <2>4, <2>5
<1>15. last \in 0 .. last /\ last - last = 0
  BY <1>2
<1>16. Covered(0)
  BY <1>14, <1>15
<1> QED
  BY <1>1, <1>16 DEF Covered, last

\* No line ends behind the text.
LEMMA PiecesEndInText ==
  ASSUME NEW s, NEW from \in Int, NEW to \in Int, NEW width, NEW lines,
         Covers(s, from, to, width, lines)
  PROVE  \A i \in 1 .. Len(lines) : lines[i].start \in Nat /\ PieceEnd(lines[i]) \in Nat
                                    /\ lines[i].start <= PieceEnd(lines[i]) /\ PieceEnd(lines[i]) <= to
<1> DEFINE n == Len(lines)
           End(i) == PieceEnd(lines[i])
           Start(i) == lines[i].start
           Late == {k \in 0 .. n - 1 : ~(End(n - k) <= to)}
<1>1. n \in Nat /\ \A i \in 1 .. n : lines[i] \in Pieces
  BY DEF Covers
<1>2. \A i \in 1 .. n : Start(i) \in Nat /\ End(i) \in Nat /\ Start(i) <= End(i)
  <2> TAKE i \in 1 .. n
  <2>1. lines[i] \in Pieces
    BY <1>1
  <2> QED
    BY <2>1 DEF Pieces, PieceEnd
<1>3. n > 0 => End(n) = to
  BY DEF Covers
<1>4. \A i \in 1 .. n - 1 : End(i) <= End(i + 1)
  <2> TAKE i \in 1 .. n - 1
  <2>1. Follows(s, lines[i], lines[i + 1])
    BY DEF Covers
  <2>2. Start(i + 1) = End(i) \/ Start(i + 1) = End(i) + 1
    BY <2>1 DEF Follows
  <2>3. i \in 1 .. n /\ i + 1 \in 1 .. n
    BY <1>1
  <2> HIDE DEF Start, End
  <2> QED
    BY <1>2, <2>2, <2>3
<1> HIDE DEF n, End, Start
<1>5. Late = {}
  <2> SUFFICES ASSUME Late # {} PROVE FALSE
    OBVIOUS
  <2>1. Late \in SUBSET Nat
    BY <1>1
  <2> DEFINE k == Min(Late)
  <2>2. k \in Late /\ \A j \in Late : k <= j
    BY <2>1, MinIsLeast, Zenon
  <2> HIDE DEF k
  <2>3. k \in 0 .. n - 1 /\ ~(End(n - k) <= to)
    BY <2>2
  <2>4. CASE k = 0
    <3>1. n > 0 /\ n - k = n /\ n \in 1 .. n
      BY <1>1, <2>3, <2>4
    <3> QED
      BY <1>2, <1>3, <2>3, <3>1
  <2>5. CASE k # 0
    <3>1. k - 1 \in 0 .. n - 1 /\ ~(k <= k - 1)
      BY <1>1, <2>3, <2>5
    <3>2. k - 1 \notin Late
      <4> HIDE DEF Late
      <4> QED
        BY <2>2, <3>1, Zenon
    <3>3. End(n - (k - 1)) <= to
      BY <3>1, <3>2
    <3>4. n - k \in 1 .. n - 1 /\ (n - k) + 1 = n - (k - 1) /\ n - k \in 1 .. n /\ n - (k - 1) \in 1 .. n
      BY <1>1, <2>3, <2>5
    <3>5. End(n - k) <= End(n - (k - 1))
      BY <1>4, <3>4
    <3>6. End(n - k) \in Nat /\ End(n - (k - 1)) \in Nat
      BY <1>2, <3>4
    <3> QED
      BY <2>3, <3>3, <3>5, <3>6
  <2> QED
    BY <2>4, <2>5
<1>6. ASSUME NEW i \in 1 .. n PROVE End(i) <= to
  <2>1. n - i \in 0 .. n - 1 /\ n - (n - i) = i
    BY <1>1
  <2> QED
    BY <1>5, <2>1
<1> QED
  BY <1>2, <1>6 DEF n, End, Start

--------------------------------------------------------------------------------
(* The text area.                                                          *)

Areas ==
  [text : Seq(STRING), caret : Nat, dragging : BOOLEAN, w : Int, rows : Nat,
   lines : Seq(Pieces), valid : BOOLEAN, width : Nat, m : Models]

Broke(a) == a.width > 0 /\ Covers(a.text, 0, Len(a.text), a.width, a.lines)

\* Of a text area that was laid out or edited anew.
Usable(a) ==
  /\ a \in Areas
  /\ a.caret <= Len(a.text)
  /\ a.valid => Broke(a)

\* Of a text area that knows its lines.
Sound(a) ==
  /\ Usable(a)
  /\ a.valid
  /\ a.m.total = Len(a.lines) /\ InBounds(a.m)

\* The line of an offset is the last one that begins before it or there.
LEMMA LineOfIsLast ==
  ASSUME NEW lines \in Seq(Pieces), lines # <<>>, NEW p
  PROVE  LET i == LineOf(lines, p)
         IN /\ i \in 1 .. Len(lines)
            /\ lines[i].start <= p \/ i = 1
            /\ \A j \in i + 1 .. Len(lines) : ~(lines[j].start <= p)
<1> DEFINE n == Len(lines)
           S == {i \in 1 .. n : lines[i].start <= p} \union {1}
           i == LineOf(lines, p)
<1>1. n \in Nat /\ n > 0 /\ DOMAIN lines = 1 .. n
  OBVIOUS
<1>2. i = Max(S)
  BY <1>1 DEF LineOf
<1>3. S \in SUBSET (1 .. n) /\ S # {} /\ 1 \in Int /\ n \in Int
  BY <1>1
<1> HIDE DEF i
<1>4. i \in S /\ \A k \in S : k <= i
  <2> HIDE DEF S
  <2> QED
    BY <1>2, <1>3, MaxIsGreatest
<1>5. i \in 1 .. n /\ (lines[i].start <= p \/ i = 1)
  BY <1>3, <1>4
<1>6. \A j \in i + 1 .. n : ~(lines[j].start <= p)
  <2> SUFFICES ASSUME NEW j \in i + 1 .. n, lines[j].start <= p PROVE FALSE
    OBVIOUS
  <2>1. j \in 1 .. n /\ ~(j <= i)
    BY <1>1, <1>5
  <2>2. j \in S
    BY <2>1
  <2> HIDE DEF S
  <2> QED
    BY <1>4, <2>1, <2>2
<1> QED
  BY <1>5, <1>6 DEF i

\* Before anything else, a text area breaks its text anew if it has to and
\* learns how much of it can be seen.
LEMMA EnsuredIsSound ==
  ASSUME NEW a, Usable(a)
  PROVE  LET b == EnsuredArea(a)
         IN /\ Sound(b) /\ UpToDate(b)
            /\ b.text = a.text /\ b.caret = a.caret
            /\ b.w = a.w /\ b.rows = a.rows
            /\ Sound(a) /\ UpToDate(a) => b.lines = a.lines /\ b.m.value = a.m.value
<1> DEFINE b == EnsuredArea(a)
           width == WidthOf(a)
           lines == IF a.valid /\ a.width = width THEN a.lines ELSE Broken(a.text, width)
           m == ScrollSet(a.m, Len(lines), a.rows)
<1>1. /\ a \in Areas /\ a.text \in Seq(STRING) /\ a.caret \in Nat /\ a.w \in Int /\ a.rows \in Nat
      /\ a.m \in Models /\ a.width \in Nat
  BY DEF Usable, Areas
<1>2. width \in Nat \ {0}
  <2>1. width = IF a.w >= 1 THEN a.w ELSE 1
    <3>1. a.w \in Int /\ 1 \in Int
      BY <1>1
    <3> QED
      BY <3>1, MaxOfTwo DEF WidthOf
  <2> HIDE DEF width
  <2> QED
    BY <1>1, <2>1
<1> HIDE DEF width
<1>3. Covers(a.text, 0, Len(a.text), width, lines)
  <2>1. Covers(a.text, 0, Len(a.text), width, Broken(a.text, width))
    BY <1>1, <1>2, TextIsCovered
  <2>2. a.valid /\ a.width = width => Covers(a.text, 0, Len(a.text), width, a.lines)
    BY DEF Usable, Broke
  <2> QED
    BY <2>1, <2>2
<1>4. b = [a EXCEPT !.lines = lines, !.valid = TRUE, !.width = width, !.m = m]
  BY DEF EnsuredArea, width
<1>5. a.valid /\ a.width = width => lines = a.lines
  OBVIOUS
<1> HIDE DEF lines
<1>6. lines \in Seq(Pieces) /\ lines # <<>> /\ Len(lines) \in Nat
  BY <1>3 DEF Covers
<1>7. /\ InBounds(m) /\ m.total = Len(lines) /\ m.page = a.rows
      /\ a.m.total = Len(lines) /\ a.m.page = a.rows /\ InBounds(a.m) => m.value = a.m.value
  BY <1>1, <1>6, ScrollSetFits
<1>8. m \in Models
  BY <1>7 DEF InBounds
<1> HIDE DEF m
<1>9. /\ b.lines = lines /\ b.valid = TRUE /\ b.width = width /\ b.m = m
      /\ b.text = a.text /\ b.caret = a.caret /\ b.w = a.w /\ b.rows = a.rows
  BY <1>1, <1>4 DEF Areas
<1>10. b \in Areas
  BY <1>1, <1>2, <1>4, <1>6, <1>8 DEF Areas
<1> HIDE DEF b
<1>11. Usable(b)
  BY <1>2, <1>3, <1>9, <1>10 DEF Usable, Broke
<1>12. Sound(b)
  BY <1>7, <1>9, <1>11 DEF Sound
<1>13. WidthOf(b) = width
  BY <1>9 DEF WidthOf, width
<1>14. UpToDate(b)
  BY <1>7, <1>9, <1>13 DEF UpToDate
<1>15. Sound(a) /\ UpToDate(a) => b.lines = a.lines /\ b.m.value = a.m.value
  BY <1>5, <1>7, <1>9 DEF Sound, UpToDate, width
<1> QED
  BY <1>9, <1>12, <1>14, <1>15 DEF b

\* The offset under a pixel is one of the line, and it is the offset whose
\* character begins at the pixel.
LEMMA OffsetsOfPixels ==
  ASSUME NEW from \in Nat, NEW to \in Nat, from <= to
  PROVE  /\ \A target \in Int : PosAtWidth(from, to, target) \in from .. to
         /\ \A p \in from .. to : PosAtWidth(from, to, (p - from) * CharWidth) = p
<1> DEFINE Under(target) ==
             {p \in from .. to : p = to \/ (p - from) * CharWidth + CharWidth \div 2 >= target}
<1>1. CharWidth \in Nat /\ CharWidth \div 2 \in Nat /\ CharWidth \div 2 < CharWidth
  BY CharWidthAssumption
<1>2. \A target : Under(target) \in SUBSET Nat /\ Under(target) \in SUBSET (from .. to) /\ to \in Under(target)
  OBVIOUS
<1>3. ASSUME NEW target
      PROVE  /\ PosAtWidth(from, to, target) \in Under(target)
             /\ \A k \in Under(target) : PosAtWidth(from, to, target) <= k
  <2> DEFINE S == Under(target)
  <2>1. PosAtWidth(from, to, target) = Min(S)
    BY DEF PosAtWidth
  <2>2. S \in SUBSET Nat /\ S # {}
    BY <1>2
  <2> HIDE DEF S
  <2>3. Min(S) \in S /\ \A k \in S : Min(S) <= k
    BY <2>2, MinIsLeast
  <2> QED
    BY <2>1, <2>3 DEF S
<1>4. ASSUME NEW p \in from .. to
      PROVE  PosAtWidth(from, to, (p - from) * CharWidth) = p
  <2> DEFINE target == (p - from) * CharWidth
             q == PosAtWidth(from, to, target)
             half == CharWidth \div 2
  <2>1. target \in Int
    BY <1>1
  <2>2. target + half >= target
    BY <1>1, <2>1
  <2>3. p \in Under(target)
    BY <2>2
  <2>4. q \in Under(target) /\ q <= p
    BY <1>3, <2>3
  <2>5. q \in from .. to /\ (q = to \/ (q - from) * CharWidth + half >= target)
    BY <2>4
  <2> HIDE DEF q
  <2>6. q < p => (q - from) * CharWidth + half < target
    <3> SUFFICES ASSUME q < p PROVE (q - from) * CharWidth + half < target
      OBVIOUS
    <3> DEFINE i == q - from
               j == p - from
    <3>1. i \in Nat /\ j \in Nat /\ i + 1 <= j
      BY <2>5
    <3> HIDE DEF i, j
    <3>2. (i + 1) * CharWidth <= j * CharWidth
      BY <1>1, <3>1
    <3>3. (i + 1) * CharWidth = i * CharWidth + CharWidth /\ i * CharWidth \in Int /\ j * CharWidth \in Int
      BY <1>1, <3>1
    <3> HIDE DEF half
    <3>4. half \in Nat /\ half < CharWidth
      BY <1>1 DEF half
    <3>5. i * CharWidth + half < j * CharWidth
      BY <1>1, <3>2, <3>3, <3>4
    <3> QED
      BY <3>5 DEF i, j
  <2>7. ~(q < p)
    <3> SUFFICES ASSUME q < p PROVE FALSE
      OBVIOUS
    <3>1. q # to
      BY <2>5
    <3>2. (q - from) * CharWidth + half >= target /\ (q - from) * CharWidth + half \in Int
      BY <1>1, <2>5, <3>1
    <3> QED
      BY <2>1, <2>6, <3>2
  <2>8. q \in Int /\ p \in Int /\ q <= p
    BY <2>4, <2>5
  <2>9. q = p
    BY <2>7, <2>8
  <2> QED
    BY <2>9 DEF q, target
<1>5. ASSUME NEW target \in Int
      PROVE  PosAtWidth(from, to, target) \in from .. to
  BY <1>2, <1>3
<1> QED
  BY <1>4, <1>5

\* A place on the window is an offset of the text.
LEMMA OffsetIsInText ==
  ASSUME NEW a, Usable(a), NEW row \in Int, NEW x \in Int
  PROVE  OffsetAt(a, row, x) \in 0 .. Len(a.text)
<1> DEFINE b == EnsuredArea(a)
           n == Len(b.lines)
           i == Clamped(b.m.value + row, 0, n - 1) + 1
           line == b.lines[i]
           target == Max({x, 0})
<1>1. Sound(b) /\ b.text = a.text
  BY EnsuredIsSound
<1>2. OffsetAt(a, row, x) = PosAtWidth(line.start, line.start + line.len, target)
  BY DEF OffsetAt
<1>3. target \in Int
  <2>1. target = IF x >= 0 THEN x ELSE 0
    <3>1. x \in Int /\ 0 \in Int
      OBVIOUS
    <3> QED
      BY <3>1, MaxOfTwo
  <2> HIDE DEF target
  <2> QED
    BY <2>1
<1> HIDE DEF b, target
<1>4. /\ b.width > 0 /\ Covers(b.text, 0, Len(b.text), b.width, b.lines)
      /\ b.text \in Seq(STRING) /\ b.m.value \in Int
  BY <1>1 DEF Sound, Usable, Broke, Areas, InBounds, Models
<1>5. Len(b.text) \in Nat
  BY <1>4
<1>6. n \in Nat /\ n > 0
  BY <1>4 DEF Covers
<1> HIDE DEF n
<1>7. i \in 1 .. n
  BY <1>4, <1>6 DEF Clamped
<1> HIDE DEF i
<1>8. 0 \in Int /\ Len(b.text) \in Int
  BY <1>5
<1>9. /\ line.start \in Nat /\ PieceEnd(line) \in Nat
      /\ line.start <= PieceEnd(line) /\ PieceEnd(line) <= Len(b.text)
  BY <1>4, <1>7, <1>8, PiecesEndInText DEF n
<1>10. PosAtWidth(line.start, PieceEnd(line), target) \in line.start .. PieceEnd(line)
  <2> HIDE DEF line
  <2> QED
    BY <1>3, <1>9, OffsetsOfPixels
<1> HIDE DEF line
<1>11. OffsetAt(a, row, x) \in line.start .. PieceEnd(line)
  BY <1>2, <1>10 DEF PieceEnd
<1> QED
  BY <1>1, <1>5, <1>9, <1>11

\* What is drawn of a text is found again where it was drawn.
LEMMA SoundAreaShowsText ==
  ASSUME NEW a, Sound(a)
  PROVE  /\ LinesAreTheText(a)
         /\ UpToDate(a) => PressFindsCaret(a)
<1> DEFINE n == Len(a.lines)
           s == a.text
           lines == a.lines
<1>1. /\ Covers(s, 0, Len(s), a.width, lines) /\ a.width > 0 /\ s \in Seq(STRING)
      /\ lines \in Seq(Pieces) /\ lines # <<>> /\ n \in Nat /\ n > 0
      /\ DOMAIN lines = 1 .. n
  <2>1. a \in Areas /\ a.width > 0 /\ Covers(s, 0, Len(s), a.width, lines)
    BY DEF Sound, Usable, Broke
  <2>2. s \in Seq(STRING)
    BY <2>1 DEF Areas
  <2>3. lines \in Seq(Pieces) /\ lines # <<>>
    BY <2>1 DEF Covers
  <2> HIDE DEF lines, s
  <2>4. Len(lines) \in Nat /\ Len(lines) > 0 /\ DOMAIN lines = 1 .. Len(lines)
    BY <2>3
  <2> QED
    BY <2>4, <2>1, <2>2, <2>3 DEF lines
<1>2. LinesAreTheText(a)
  <2>1. lines[1].start = 0 /\ lines[n].start + lines[n].len = Len(s)
    BY <1>1 DEF Covers, PieceEnd
  <2>2. \A i \in 1 .. n - 1 :
          \/ lines[i + 1].start = lines[i].start + lines[i].len
          \/ /\ lines[i + 1].start = lines[i].start + lines[i].len + 1
             /\ s[lines[i].start + lines[i].len + 1] \in {Space, NewLine}
    BY <1>1 DEF Covers, Follows, PieceEnd
  <2>3. \A i \in 1 .. n :
          /\ \A p \in lines[i].start + 1 .. lines[i].start + lines[i].len : s[p] # NewLine
          /\ lines[i].len <= 1 \/ lines[i].len * CharWidth <= a.width
    BY <1>1 DEF Covers, Whole, PieceEnd
  <2> QED
    BY <1>1, <2>1, <2>2, <2>3, Zenon DEF LinesAreTheText
<1>3. ASSUME UpToDate(a), NEW p \in 0 .. Len(s)
      PROVE  LET line == LineOf(lines, p)
                 row == line - 1 - a.m.value
             IN row \in 0 .. a.m.page - 1 =>
                  OffsetAt(a, row, (p - lines[line].start) * CharWidth) = p
  <2> DEFINE i == LineOf(lines, p)
             row == i - 1 - a.m.value
             line == lines[i]
             b == EnsuredArea(a)
             x == (p - line.start) * CharWidth
  <2>1. Usable(a)
    BY DEF Sound
  <2>2. b.lines = lines /\ b.m.value = a.m.value
    BY <1>3, <2>1, EnsuredIsSound
  <2>3. /\ i \in 1 .. n /\ (line.start <= p \/ i = 1)
        /\ \A j \in i + 1 .. n : ~(lines[j].start <= p)
    BY <1>1, LineOfIsLast
  <2>4. a.m.value \in Int
    BY DEF Sound, InBounds, Models
  <2> HIDE DEF b, i
  <2>5. Clamped(a.m.value + row, 0, n - 1) + 1 = i
    <3>1. i - 1 \in 0 .. n - 1 /\ i \in Int
      BY <1>1, <2>3
    <3>2. a.m.value + row = i - 1
      BY <2>4, <3>1
    <3> QED
      BY <1>1, <3>1, <3>2 DEF Clamped
  <2>6. OffsetAt(a, row, x) = PosAtWidth(line.start, line.start + line.len, Max({x, 0}))
    BY <2>2, <2>5 DEF OffsetAt, b
  <2>7. 0 \in Int /\ Len(s) \in Int /\ p \in Int /\ p <= Len(s)
    BY <1>1
  <2>8. \A j \in 1 .. n : lines[j].start \in Nat /\ PieceEnd(lines[j]) \in Nat
                          /\ lines[j].start <= PieceEnd(lines[j])
    BY <1>1, <2>7, PiecesEndInText
  <2>9. lines[1].start = 0 /\ PieceEnd(lines[n]) = Len(s)
    BY <1>1 DEF Covers
  <2>10. line.start <= p
    BY <2>3, <2>9
  <2>11. p <= PieceEnd(line)
    <3>1. CASE i = n
      BY <2>7, <2>9, <3>1
    <3>2. CASE i # n
      <4>1. i \in 1 .. n - 1 /\ i + 1 \in i + 1 .. n /\ i + 1 \in 1 .. n
        BY <1>1, <2>3, <3>2
      <4>2. ~(lines[i + 1].start <= p)
        BY <2>3, <4>1
      <4>3. lines[i + 1].start = PieceEnd(line) \/ lines[i + 1].start = PieceEnd(line) + 1
        BY <1>1, <4>1 DEF Covers, Follows
      <4>4. lines[i + 1].start \in Nat /\ PieceEnd(line) \in Nat
        BY <2>3, <2>8, <4>1
      <4> DEFINE next == lines[i + 1].start
                 end == PieceEnd(line)
      <4> HIDE DEF next, end
      <4>5. p <= end
        BY <2>7, <4>2, <4>3, <4>4 DEF next, end
      <4> QED
        BY <4>5 DEF end
    <3> QED
      BY <3>1, <3>2
  <2> DEFINE from == line.start
             to == PieceEnd(line)
  <2>12. from \in Nat /\ to \in Nat /\ from <= to /\ p \in from .. to
    BY <2>3, <2>7, <2>8, <2>10, <2>11
  <2> HIDE DEF from, to
  <2>13. PosAtWidth(from, to, (p - from) * CharWidth) = p
    BY <2>12, OffsetsOfPixels
  <2>14. Max({x, 0}) = x
    <3> DEFINE d == p - from
    <3>1. d \in Nat /\ x = d * CharWidth
      BY <2>12 DEF from
    <3> HIDE DEF d, x
    <3>2. x \in Int /\ 0 \in Int /\ x >= 0
      BY <3>1, CharWidthAssumption
    <3> QED
      BY <3>2, MaxOfTwo
  <2>15. OffsetAt(a, row, x) = p
    BY <2>6, <2>13, <2>14 DEF from, to, PieceEnd
  <2> QED
    BY <2>15 DEF i
<1>4. UpToDate(a) => PressFindsCaret(a)
  BY <1>3 DEF PressFindsCaret
<1> QED
  BY <1>2, <1>4

Fields == [len : Nat, caret : Nat, left : Int, w : Int, dragging : BOOLEAN]

\* What is to be shown of the area and of the field can be.
FormIsSound ==
  /\ Sound(area)
  /\ field \in Fields /\ field.caret <= field.len

\* The line of the caret is on the page.
ShowsCaret(a) ==
  a.rows > 0 => LineOf(a.lines, a.caret) - a.m.value \in 1 .. a.m.page

ShowsFieldCaret(f) ==
  f.w > 0 => f.caret * CharWidth - f.left \in 0 .. f.w

\* After a move the caret is in sight.
LEMMA MovedShowsCaret ==
  ASSUME NEW a, Usable(a)
  PROVE  /\ Sound(Moved(a)) /\ ShowsCaret(Moved(a))
         /\ Moved(a).text = a.text /\ Moved(a).caret = a.caret
<1> DEFINE b == EnsuredArea(a)
           i == LineOf(b.lines, b.caret)
           m == Reveal(b.m, i - 1)
           c == Moved(a)
<1>1. /\ Sound(b) /\ b.m.page = a.rows /\ b.text = a.text /\ b.caret = a.caret
      /\ b.rows = a.rows
  BY EnsuredIsSound DEF UpToDate
<1>2. c = [b EXCEPT !.m = m]
  BY DEF Moved
<1> HIDE DEF b
<1>3. /\ b \in Areas /\ InBounds(b.m) /\ b.m.total = Len(b.lines)
      /\ b.lines \in Seq(Pieces) /\ b.lines # <<>>
  BY <1>1 DEF Sound, Usable, Broke, Covers
<1>4. i \in 1 .. Len(b.lines) /\ Len(b.lines) \in Nat
  BY <1>3, LineOfIsLast
<1> HIDE DEF i
<1>5. i \in Int /\ i - 1 \in 0 .. b.m.total - 1
  BY <1>3, <1>4
<1>6. /\ InBounds(m) /\ m.total = b.m.total /\ m.page = b.m.page
      /\ b.m.page > 0 => (i - 1) - m.value \in 0 .. b.m.page - 1
  BY <1>3, <1>5, RevealShows
<1> HIDE DEF m
<1>7. m \in Models
  BY <1>6 DEF InBounds
<1>8. /\ c.text = b.text /\ c.caret = b.caret /\ c.rows = b.rows /\ c.lines = b.lines
      /\ c.valid = b.valid /\ c.width = b.width /\ c.m = m
  BY <1>2, <1>3 DEF Areas
<1>9. c \in Areas
  BY <1>2, <1>3, <1>7 DEF Areas
<1> HIDE DEF c
<1>10. Sound(c)
  BY <1>1, <1>3, <1>6, <1>8, <1>9 DEF Sound, Usable, Broke
<1>11. ShowsCaret(c)
  <2> SUFFICES ASSUME c.rows > 0 PROVE LineOf(c.lines, c.caret) - c.m.value \in 1 .. c.m.page
    BY DEF ShowsCaret
  <2>1. LineOf(c.lines, c.caret) = i /\ c.m = m
    BY <1>8 DEF i
  <2>2. m.value \in Int /\ m.page \in Int
    BY <1>7 DEF Models
  <2>3. m.page > 0 /\ (i - 1) - m.value \in 0 .. m.page - 1
    BY <1>1, <1>6, <1>8
  <2>4. i - m.value \in 1 .. m.page
    BY <1>5, <2>2, <2>3
  <2> QED
    BY <2>1, <2>4
<1> QED
  BY <1>1, <1>8, <1>10, <1>11 DEF c

\* Any caret of the text may be moved to.
LEMMA CaretMoves ==
  ASSUME NEW a, Usable(a), NEW caret \in 0 .. Len(a.text), NEW dragging \in BOOLEAN
  PROVE  /\ Usable([a EXCEPT !.caret = caret])
         /\ Usable([a EXCEPT !.caret = caret, !.dragging = dragging])
<1>1. a \in Areas /\ a.text \in Seq(STRING) /\ (a.valid => Broke(a))
  BY DEF Usable, Areas
<1>2. caret \in Nat /\ caret <= Len(a.text)
  BY <1>1
<1>3. ASSUME NEW b \in {[a EXCEPT !.caret = caret], [a EXCEPT !.caret = caret, !.dragging = dragging]}
      PROVE  Usable(b)
  <2>1. /\ b \in Areas /\ b.text = a.text /\ b.caret = caret /\ b.valid = a.valid
        /\ b.width = a.width /\ b.lines = a.lines
    BY <1>1, <1>2, <1>3 DEF Areas
  <2> QED
    BY <1>1, <1>2, <2>1 DEF Usable, Broke
<1> QED
  BY <1>3

\* Any text may be edited to any other.
LEMMA EditedShowsCaret ==
  ASSUME NEW a \in Areas, NEW chars \in Seq(STRING), NEW caret \in 0 .. Len(chars)
  PROVE  Sound(AreaEdited(a, chars, caret)) /\ ShowsCaret(AreaEdited(a, chars, caret))
<1> DEFINE b == [a EXCEPT !.text = chars, !.caret = caret]
           c == [b EXCEPT !.valid = FALSE]
<1>1. caret \in Nat /\ caret <= Len(chars)
  OBVIOUS
<1>2. b \in Areas /\ b.text = chars /\ b.caret = caret
  BY <1>1 DEF Areas
<1>3. AreaEdited(a, chars, caret) = Moved(c)
  BY DEF AreaEdited, Changed
<1> HIDE DEF b
<1>4. c \in Areas /\ c.text = chars /\ c.caret = caret /\ c.valid = FALSE
  BY <1>2 DEF Areas
<1> HIDE DEF c
<1>5. Usable(c)
  BY <1>1, <1>4 DEF Usable
<1> QED
  BY <1>3, <1>5, MovedShowsCaret

\* The end of a word is in the text.
LEMMA WordsEndInText ==
  ASSUME NEW s \in Seq(STRING), NEW p \in 0 .. Len(s)
  PROVE  WordEnd(s, p) \in 0 .. Len(s)
<1>1. CASE s = <<>>
  BY <1>1 DEF WordEnd
<1>2. CASE s # <<>>
  <2> DEFINE n == Len(s)
             probe == IF p = n THEN p - 1 ELSE p
             Gap(i) == s[i + 1] \in {Space, NewLine}
             S == {e \in probe + 1 .. n : \A i \in probe .. e - 1 : Gap(i) = Gap(probe)}
  <2>1. n \in Nat /\ n > 0
    BY <1>2
  <2>2. probe \in 0 .. n - 1
    BY <2>1
  <2>3. WordEnd(s, p) = Max(S)
    BY <1>2, Zenon DEF WordEnd
  <2> HIDE DEF probe, n
  <2>4. probe + 1 \in Int /\ n \in Int /\ probe + 1 \in probe + 1 .. n
    BY <2>1, <2>2
  <2>5. \A i \in probe .. (probe + 1) - 1 : i = probe
    BY <2>1, <2>2
  <2>6. probe + 1 \in S
    BY <2>4, <2>5
  <2>7. S \in SUBSET (probe + 1 .. n) /\ S # {}
    BY <2>6
  <2> HIDE DEF S
  <2>8. Max(S) \in probe + 1 .. n
    BY <2>4, <2>7, MaxIsGreatest
  <2> QED
    BY <2>8, <2>1, <2>2, <2>3 DEF n
<1> QED
  BY <1>1, <1>2

\* Scrolling leaves the text and the caret alone.
LEMMA ScrolledIsSound ==
  ASSUME NEW a, Sound(a), NEW m, InBounds(m), m.total = a.m.total
  PROVE  /\ Sound([a EXCEPT !.m = m])
         /\ [a EXCEPT !.m = m].text = a.text /\ [a EXCEPT !.m = m].caret = a.caret
<1> DEFINE b == [a EXCEPT !.m = m]
<1>1. a \in Areas /\ m \in Models
  BY DEF Sound, Usable, InBounds
<1>2. /\ b \in Areas /\ b.text = a.text /\ b.caret = a.caret /\ b.valid = a.valid
      /\ b.width = a.width /\ b.lines = a.lines /\ b.m = m
  BY <1>1 DEF Areas
<1> HIDE DEF b
<1>3. Sound(b)
  BY <1>2 DEF Sound, Usable, Broke
<1> QED
  BY <1>2, <1>3 DEF b

\* The wheel moves the view and not the caret.
LEMMA WheeledIsSound ==
  ASSUME NEW a, Usable(a), NEW delta \in Int
  PROVE  /\ Sound(AreaWheeled(a, delta))
         /\ AreaWheeled(a, delta).text = a.text /\ AreaWheeled(a, delta).caret = a.caret
<1> DEFINE b == EnsuredArea(a)
           m == ScrollBy(b.m, delta)
<1>1. Sound(b) /\ b.text = a.text /\ b.caret = a.caret
  BY EnsuredIsSound
<1>2. AreaWheeled(a, delta) = [b EXCEPT !.m = m]
  BY DEF AreaWheeled
<1> HIDE DEF b
<1>3. b.m \in Models /\ b.m.value \in Int
  BY <1>1 DEF Sound, InBounds, Models
<1>4. InBounds(m) /\ m.total = b.m.total
  BY <1>3, ScrollToStays DEF ScrollBy
<1> HIDE DEF m
<1> QED
  BY <1>1, <1>2, <1>4, ScrolledIsSound

\* The field moves its line so that the caret is in sight.
LEMMA FieldMovedShowsCaret ==
  ASSUME NEW f \in Fields
  PROVE  /\ FieldMoved(f) \in Fields /\ ShowsFieldCaret(FieldMoved(f))
         /\ FieldMoved(f).caret = f.caret /\ FieldMoved(f).len = f.len
<1> DEFINE x == f.caret * CharWidth
           left == IF f.w <= 0 THEN 0
                   ELSE IF x < f.left THEN x
                   ELSE IF x > f.left + f.w THEN x - f.w ELSE f.left
           g == FieldMoved(f)
<1>1. f.caret \in Nat /\ f.left \in Int /\ f.w \in Int
  BY DEF Fields
<1>2. x \in Nat
  BY <1>1, CharWidthAssumption
<1>3. g = [f EXCEPT !.left = left]
  BY DEF FieldMoved
<1> HIDE DEF x
<1>4. left \in Int /\ (f.w > 0 => x - left \in 0 .. f.w)
  BY <1>1, <1>2
<1> HIDE DEF left
<1>5. g \in Fields /\ g.caret = f.caret /\ g.len = f.len /\ g.w = f.w /\ g.left = left
  BY <1>3, <1>4 DEF Fields
<1> HIDE DEF g
<1>6. ShowsFieldCaret(g)
  BY <1>4, <1>5 DEF ShowsFieldCaret, x
<1> QED
  BY <1>5, <1>6 DEF g

\* The mouse is somewhere.
LEMMA PixelsAreNumbers == Pixels \in SUBSET Int /\ RowsSeen \in SUBSET Int
BY DEF Pixels, RowsSeen

\* The form starts with the text in sight.
LEMMA FormStartsSound == Init => FormIsSound
<1> SUFFICES ASSUME Init PROVE FormIsSound
  OBVIOUS
<1>1. PICK chars \in Texts : area = AreaEdited(NewArea, chars, Len(chars))
  BY DEF Init
<1>2. chars \in Seq(STRING) /\ Len(chars) \in 0 .. Len(chars)
  BY RoomAssumption
<1>3. NewArea \in Areas
  BY DEF NewArea, Areas, Models
<1>4. Sound(area)
  BY <1>1, <1>2, <1>3, EditedShowsCaret
<1>5. field \in Fields /\ field.caret <= field.len
  BY DEF Init, NewField, Fields
<1> QED
  BY <1>4, <1>5 DEF FormIsSound

\* What a step may do with the text and its caret.
AreaStep ==
  /\ Sound(area)'
  /\ <<area'.text, area'.caret>> # <<area.text, area.caret>> => ShowsCaret(area')

FieldStep ==
  /\ field' \in Fields /\ field'.caret <= field'.len
  /\ <<field'.len, field'.caret>> # <<field.len, field.caret>> => ShowsFieldCaret(field')

\* A place of the field is an offset of its text.
LEMMA FieldOffsetIsInText ==
  ASSUME NEW f \in Fields, NEW x \in Int
  PROVE  FieldOffsetAt(f, x) \in 0 .. f.len
<1> DEFINE target == Max({x + f.left, 0})
<1>1. x + f.left \in Int /\ 0 \in Int /\ f.len \in Nat /\ 0 \in Nat /\ 0 <= f.len
  BY DEF Fields
<1>2. target \in Int
  BY <1>1, MaxOfTwo
<1> HIDE DEF target
<1>3. PosAtWidth(0, f.len, target) \in 0 .. f.len
  BY <1>1, <1>2, OffsetsOfPixels
<1> QED
  BY <1>3 DEF FieldOffsetAt, target

\* A step that puts the caret of the field somewhere.
LEMMA FieldStepByMove ==
  ASSUME NEW g \in Fields, g.caret <= g.len, field' = FieldMoved(g)
  PROVE  FieldStep
BY FieldMovedShowsCaret DEF FieldStep

\* Every event leaves area and field as they should be, and what moves a caret
\* has it in sight.
LEMMA StepShowsCarets ==
  ASSUME FormIsSound, [Next]_vars
  PROVE  AreaStep /\ FieldStep
<1>1. /\ Sound(area) /\ Usable(area) /\ area \in Areas /\ area.text \in Seq(STRING)
      /\ field \in Fields /\ field.caret <= field.len /\ field.len \in Nat /\ field.caret \in Nat
  BY DEF FormIsSound, Sound, Usable, Areas, Fields
<1>a. ASSUME area' = area PROVE AreaStep
  BY <1>1, <1>a DEF AreaStep
<1>f. ASSUME field' = field PROVE FieldStep
  BY <1>1, <1>f DEF FieldStep
<1>m. ASSUME NEW a, Usable(a), area' = Moved(a) PROVE AreaStep
  BY <1>m, MovedShowsCaret DEF AreaStep
<1>s. CASE UNCHANGED vars
  BY <1>s, <1>a, <1>f DEF vars
<1>2. CASE \E dir \in {-1, 1} : Tab(dir)
  BY <1>2, <1>a, <1>f DEF Tab
<1>3. CASE \E size \in Sizes : Layout(size)
  <2>1. PICK size \in Sizes : Layout(size)
    BY <1>3
  <2>2. size.w \in Int /\ size.rows \in Nat
    BY RoomAssumption
  <2> DEFINE b == [area EXCEPT !.w = size.w, !.rows = size.rows]
  <2>3. /\ b \in Areas /\ b.text = area.text /\ b.caret = area.caret /\ b.valid = area.valid
        /\ b.width = area.width /\ b.lines = area.lines /\ b.m = area.m
    BY <1>1, <2>2 DEF Areas
  <2>4. area' = b /\ field' = [field EXCEPT !.w = size.w]
    BY <2>1 DEF Layout
  <2> HIDE DEF b
  <2>5. Sound(b)
    BY <1>1, <2>3 DEF Sound, Usable, Broke
  <2>6. AreaStep
    BY <2>3, <2>4, <2>5 DEF AreaStep
  <2>7. /\ [field EXCEPT !.w = size.w] \in Fields
        /\ [field EXCEPT !.w = size.w].caret = field.caret
        /\ [field EXCEPT !.w = size.w].len = field.len
    BY <1>1, <2>2 DEF Fields
  <2>8. FieldStep
    BY <1>1, <2>4, <2>7 DEF FieldStep
  <2> QED
    BY <2>6, <2>8
<1>4. CASE Draw
  <2>1. area' = EnsuredArea(area) /\ field' = field
    BY <1>4 DEF Draw
  <2>2. /\ Sound(EnsuredArea(area))
        /\ EnsuredArea(area).text = area.text /\ EnsuredArea(area).caret = area.caret
    BY <1>1, EnsuredIsSound
  <2> QED
    BY <1>f, <2>1, <2>2 DEF AreaStep
<1>5. CASE \E i \in DOMAIN Items : PressLabel(i) \/ \E j \in 0 .. 2 : PressRow(i, j)
  BY <1>5, <1>a, <1>f DEF PressLabel, PressRow
<1>6. CASE \E x \in Pixels, clicks \in 1 .. 2 : PressField(x, clicks)
  <2>1. PICK x \in Pixels, clicks \in 1 .. 2 : PressField(x, clicks)
    BY <1>6
  <2> DEFINE p == FieldOffsetAt(field, x)
             caret == IF clicks >= 2 THEN field.len ELSE p
             g == [field EXCEPT !.caret = caret, !.dragging = TRUE]
  <2>2. x \in Int
    BY PixelsAreNumbers
  <2>3. p \in 0 .. field.len
    BY <1>1, <2>2, FieldOffsetIsInText
  <2>4. field' = FieldMoved(g) /\ area' = area
    BY <2>1 DEF PressField
  <2> HIDE DEF p
  <2>5. caret \in 0 .. field.len /\ caret \in Nat
    BY <1>1, <2>3
  <2> HIDE DEF caret
  <2>6. g \in Fields /\ g.caret = caret /\ g.len = field.len
    BY <1>1, <2>5 DEF Fields
  <2> HIDE DEF g
  <2>7. FieldStep
    BY <2>4, <2>5, <2>6, FieldStepByMove
  <2> QED
    BY <1>a, <2>4, <2>7
<1>7. CASE \E x \in Pixels, clicks \in 1 .. 2, row \in RowsSeen \ {-1} : PressText(row, x, clicks)
  <2>1. PICK x \in Pixels, clicks \in 1 .. 2, row \in RowsSeen : PressText(row, x, clicks)
    BY <1>7
  <2> DEFINE p == OffsetAt(area, row, x)
             caret == IF clicks >= 2 THEN WordEnd(area.text, p) ELSE p
             g == [area EXCEPT !.caret = caret, !.dragging = TRUE]
  <2>2. x \in Int /\ row \in Int
    BY PixelsAreNumbers
  <2>3. p \in 0 .. Len(area.text)
    BY <1>1, <2>2, OffsetIsInText
  <2>4. area' = Moved(g) /\ field' = field
    BY <2>1 DEF PressText, AreaPressed
  <2> HIDE DEF p
  <2>5. caret \in 0 .. Len(area.text)
    BY <1>1, <2>3, WordsEndInText
  <2> HIDE DEF caret
  <2>6. Usable(g)
    BY <1>1, <2>5, CaretMoves
  <2> QED
    BY <1>f, <1>m, <2>4, <2>6
<1>8. CASE \E y \in 0 .. BarLen - 1 : PressBar(y)
  <2>1. PICK y \in 0 .. BarLen - 1 : PressBar(y)
    BY <1>8
  <2> DEFINE m == BarPressed(area.m, BarLen, Arrow, y)
  <2>2. area' = [area EXCEPT !.m = m] /\ field' = field
    BY <2>1 DEF PressBar
  <2>3. InBounds(area.m)
    BY <1>1 DEF Sound
  <2>4. InBounds(m) /\ m.total = area.m.total
    BY <2>3, BarStaysInBounds
  <2> HIDE DEF m
  <2>5. AreaStep
    BY <1>1, <2>2, <2>4, ScrolledIsSound DEF AreaStep
  <2> QED
    BY <1>f, <2>2, <2>5
<1>9. CASE \E row \in RowsSeen, x \in Pixels : DragText(row, x)
  <2>1. PICK row \in RowsSeen, x \in Pixels : DragText(row, x)
    BY <1>9
  <2> DEFINE p == OffsetAt(area, row, x)
             g == [area EXCEPT !.caret = p]
  <2>2. x \in Int /\ row \in Int
    BY PixelsAreNumbers
  <2>3. p \in 0 .. Len(area.text)
    BY <1>1, <2>2, OffsetIsInText
  <2>4. area' = Moved(g) /\ field' = field
    BY <2>1 DEF DragText, AreaEvent, AreaDragged
  <2> HIDE DEF p
  <2>5. Usable(g)
    BY <1>1, <2>3, CaretMoves
  <2> QED
    BY <1>f, <1>m, <2>4, <2>5
<1>10. CASE Release
  <2> DEFINE dragsText == area.dragging /\ ~Reaches(The("area"), 1)
             dragsField == field.dragging /\ ~Reaches(The("field"), 0)
             b == [area EXCEPT !.dragging = dragsText]
             g == [field EXCEPT !.dragging = dragsField]
  <2>0. area' = b /\ field' = g
    BY <1>10 DEF Release
  <2>b. dragsText \in BOOLEAN /\ dragsField \in BOOLEAN
    BY <1>1, Zenon DEF Areas, Fields
  <2> HIDE DEF dragsText, dragsField
  <2>1. /\ b \in Areas /\ b.text = area.text /\ b.caret = area.caret /\ b.valid = area.valid
        /\ b.width = area.width /\ b.lines = area.lines /\ b.m = area.m
    BY <1>1, <2>b DEF Areas
  <2>2. g \in Fields /\ g.caret = field.caret /\ g.len = field.len
    BY <1>1, <2>b DEF Fields
  <2> HIDE DEF b, g
  <2>3. Sound(b)
    BY <1>1, <2>1 DEF Sound, Usable, Broke
  <2>4. AreaStep
    BY <2>0, <2>1, <2>3 DEF AreaStep
  <2>5. FieldStep
    BY <1>1, <2>0, <2>2 DEF FieldStep
  <2> QED
    BY <2>4, <2>5
<1>11. CASE \E delta \in {-1, 1} : WheelText(delta)
  <2>1. PICK delta \in {-1, 1} : WheelText(delta)
    BY <1>11
  <2>2. delta \in Int /\ area' = AreaWheeled(area, delta) /\ field' = field
    BY <2>1 DEF WheelText, AreaEvent
  <2> QED
    BY <1>1, <1>f, <2>2, WheeledIsSound DEF AreaStep
<1>12. CASE \E caret \in 0 .. Len(area.text) : MoveInText(caret)
  <2>1. PICK caret \in 0 .. Len(area.text) : MoveInText(caret)
    BY <1>12
  <2>2. area' = Moved([area EXCEPT !.caret = caret]) /\ field' = field
    BY <2>1 DEF MoveInText, AreaEvent, AreaMoved
  <2>3. Usable([area EXCEPT !.caret = caret])
    BY <1>1, CaretMoves
  <2> QED
    BY <1>f, <1>m, <2>2, <2>3
<1>13. CASE \E chars \in Texts : \E caret \in 0 .. Len(chars) : EditText(chars, caret)
  <2>1. PICK chars \in Texts : \E caret \in 0 .. Len(chars) : EditText(chars, caret)
    BY <1>13
  <2>2. chars \in Seq(STRING)
    BY RoomAssumption
  <2>3. PICK caret \in 0 .. Len(chars) : area' = AreaEdited(area, chars, caret) /\ field' = field
    BY <2>1 DEF EditText, AreaEvent
  <2> QED
    BY <1>1, <1>f, <2>2, <2>3, EditedShowsCaret DEF AreaStep
<1>14. CASE \E x \in Pixels : DragField(x)
  <2>1. PICK x \in Pixels : DragField(x)
    BY <1>14
  <2> DEFINE p == FieldOffsetAt(field, x)
             g == [field EXCEPT !.caret = p]
  <2>2. x \in Int
    BY PixelsAreNumbers
  <2>3. p \in 0 .. field.len
    BY <1>1, <2>2, FieldOffsetIsInText
  <2>4. field' = FieldMoved(g) /\ area' = area
    BY <2>1 DEF DragField, FieldEvent
  <2> HIDE DEF p
  <2>5. g \in Fields /\ g.caret = p /\ g.len = field.len
    BY <1>1, <2>3 DEF Fields
  <2> HIDE DEF g
  <2>6. FieldStep
    BY <2>3, <2>4, <2>5, FieldStepByMove
  <2> QED
    BY <1>a, <2>4, <2>6
<1>15. CASE \E caret \in 0 .. field.len : MoveInField(caret)
  <2>1. PICK caret \in 0 .. field.len : MoveInField(caret)
    BY <1>15
  <2> DEFINE g == [field EXCEPT !.caret = caret]
  <2>2. field' = FieldMoved(g) /\ area' = area
    BY <2>1 DEF MoveInField, FieldEvent
  <2>3. g \in Fields /\ g.caret = caret /\ g.len = field.len
    BY <1>1 DEF Fields
  <2> HIDE DEF g
  <2>4. FieldStep
    BY <2>2, <2>3, FieldStepByMove
  <2> QED
    BY <1>a, <2>2, <2>4
<1>16. CASE \E len \in 0 .. FieldMax : \E caret \in 0 .. len : EditField(len, caret)
  <2>1. PICK len \in 0 .. FieldMax : \E caret \in 0 .. len : EditField(len, caret)
    BY <1>16
  <2>0. PICK caret \in 0 .. len : EditField(len, caret)
    BY <2>1
  <2> DEFINE g == [field EXCEPT !.len = len, !.caret = caret]
  <2>2. field' = FieldMoved(g) /\ area' = area
    BY <2>0 DEF EditField, FieldEvent
  <2>3. len \in Nat /\ caret \in Nat /\ caret <= len
    BY RoomAssumption
  <2>4. g \in Fields /\ g.caret = caret /\ g.len = len
    BY <1>1, <2>3 DEF Fields
  <2> HIDE DEF g
  <2>5. FieldStep
    BY <2>2, <2>3, <2>4, FieldStepByMove
  <2> QED
    BY <1>a, <2>2, <2>5
<1> QED
  BY <1>2, <1>3, <1>4, <1>5, <1>6, <1>7, <1>8, <1>9, <1>10, <1>11, <1>12, <1>13, <1>14, <1>15,
     <1>16, <1>s DEF Next

\* So every event keeps them so.
LEMMA FormStaysSound == FormIsSound /\ [Next]_vars => FormIsSound'
BY StepShowsCarets DEF FormIsSound, AreaStep, FieldStep

\* The lines of the area are its text, whatever was edited and however it was laid
\* out, its view begins at a line there is, and a press on what was drawn finds
\* it (wrap_real_line, text_area_ensure_wrap, text_area_pos_at of
\* ui/widget_text.c).
THEOREM TextIsShown == Spec => []AreaShowsText
<1>1. FormIsSound => AreaShowsText
  <2> SUFFICES ASSUME FormIsSound PROVE AreaShowsText
    OBVIOUS
  <2>1. Sound(area)
    BY DEF FormIsSound
  <2>2. area.m.total = Len(area.lines) /\ area.m.value \in 0 .. ScrollMax(area.m)
    BY <2>1 DEF Sound, InBounds
  <2> QED
    BY <2>1, <2>2, SoundAreaShowsText DEF AreaShowsText
<1> QED
  BY <1>1, FormStartsSound, FormStaysSound, PTL DEF Spec

\* A step that edits the text or moves the caret leaves the caret where it can be
\* seen, in the area (text_after_move, text_after_change, scroll_reveal) and in the
\* field (text_field_scroll_to_cursor).  A new layout and the wheel may leave it
\* out of sight.
THEOREM CaretStaysInSight == Spec => CaretIsShown
<1>1. FormIsSound /\ [Next]_vars =>
        [/\ <<area'.text, area'.caret>> # <<area.text, area.caret>> /\ area'.rows > 0 =>
              LineOf(area'.lines, area'.caret) - area'.m.value \in 1 .. area'.m.page
         /\ <<field'.len, field'.caret>> # <<field.len, field.caret>> /\ field'.w > 0 =>
              field'.caret * CharWidth - field'.left \in 0 .. field'.w]_vars
  BY StepShowsCarets DEF AreaStep, FieldStep, ShowsCaret, ShowsFieldCaret
<1> QED
  BY <1>1, FormStartsSound, FormStaysSound, PTL DEF Spec, CaretIsShown

--------------------------------------------------------------------------------
(* Lists.                                                                  *)

Lists ==
  [rows : Nat, count : Nat, selected : Int, opened : BOOLEAN, m : Models]

\* What a list shows when it knows its rows and its lines.
Looks(l) ==
  /\ l \in Lists
  /\ InBounds(l.m) /\ l.m.total = l.count /\ l.m.page = l.rows

\* A scroll model is its three numbers.
LEMMA SameModel ==
  ASSUME NEW m \in Models, NEW k \in Models, m.total = k.total, m.page = k.page, m.value = k.value
  PROVE  m = k
BY DEF Models

\* A list that learns its rows changes nothing else, and nothing if it knew them.
LEMMA SyncedLooks ==
  ASSUME NEW l \in Lists
  PROVE  /\ Looks(Synced(l))
         /\ Synced(l).rows = l.rows /\ Synced(l).count = l.count
         /\ Synced(l).selected = l.selected /\ Synced(l).opened = l.opened
         /\ Looks(l) => Synced(l).m = l.m
<1> DEFINE m == ScrollSet(l.m, l.count, l.rows)
           k == Synced(l)
<1>1. l.m \in Models /\ l.count \in Nat /\ l.rows \in Nat
  BY DEF Lists
<1>2. /\ InBounds(m) /\ m.total = l.count /\ m.page = l.rows
      /\ l.m.total = l.count /\ l.m.page = l.rows /\ InBounds(l.m) => m.value = l.m.value
  BY <1>1, ScrollSetFits
<1>3. k = [l EXCEPT !.m = m]
  BY DEF Synced
<1> HIDE DEF m
<1>4. m \in Models
  BY <1>2 DEF InBounds
<1>5. /\ k \in Lists /\ k.m = m /\ k.rows = l.rows /\ k.count = l.count
      /\ k.selected = l.selected /\ k.opened = l.opened
  BY <1>3, <1>4 DEF Lists
<1> HIDE DEF k
<1>6. Looks(k)
  BY <1>2, <1>5 DEF Looks
<1>7. Looks(l) => m = l.m
  BY <1>1, <1>2, <1>4, SameModel DEF Looks
<1> QED
  BY <1>5, <1>6, <1>7 DEF k

\* A line that is on the page is revealed by doing nothing.
LEMMA RevealOfSeen ==
  ASSUME NEW m, InBounds(m), NEW index \in 0 .. m.total - 1,
         index >= m.value, index < m.value + m.page
  PROVE  Reveal(m, index) = m
<1>1. m \in Models /\ m.value \in Int /\ m.total \in Nat /\ m.page \in Nat /\ m.value \in 0 .. ScrollMax(m)
  BY DEF InBounds, Models
<1>2. Clamped(index, 0, m.total - 1) = index
  BY <1>1 DEF Clamped
<1>3. /\ ~(m.total <= 0) /\ ~(index < m.value)
      /\ ~(m.page > 0 /\ index >= m.value + m.page)
  BY <1>1
<1>4. Reveal(m, index) = ScrollTo(m, m.value)
  BY <1>2, <1>3, Zenon DEF Reveal
<1> DEFINE r == ScrollTo(m, m.value)
<1>5. InBounds(r) /\ r.total = m.total /\ r.page = m.page /\ r.value = m.value
  BY <1>1, ScrollToStays
<1> HIDE DEF r
<1>6. r = m
  BY <1>1, <1>5, SameModel DEF InBounds
<1> QED
  BY <1>4, <1>6 DEF r

\* A list that shows its selection.
LEMMA SelectionIsShown ==
  ASSUME NEW l \in Lists, l.selected \in 0 .. l.count - 1
  PROVE  LET k == SelectionShown(l)
         IN /\ Looks(k) /\ k.selected = l.selected /\ k.count = l.count /\ k.rows = l.rows
            /\ k.opened = l.opened
            /\ l.rows > 0 => Shows(k, k.selected)
<1> DEFINE s == Synced(l)
           m == Reveal(s.m, l.selected)
           k == SelectionShown(l)
           i == l.selected
<1>1. /\ Looks(s) /\ s.rows = l.rows /\ s.count = l.count
      /\ s.selected = i /\ s.opened = l.opened
  BY SyncedLooks
<1>2. ~(l.selected < 0) /\ l.count \in Nat /\ l.rows \in Nat /\ i \in Int
  BY DEF Lists
<1>3. k = [s EXCEPT !.m = m]
  BY <1>1, <1>2 DEF SelectionShown
<1> HIDE DEF s
<1>4. s \in Lists /\ InBounds(s.m) /\ s.m.total = l.count /\ s.m.page = l.rows
  BY <1>1 DEF Looks
<1>5. i \in 0 .. s.m.total - 1
  BY <1>4
<1>6. /\ InBounds(m) /\ m.total = l.count /\ m.page = l.rows
      /\ l.rows > 0 => i - m.value \in 0 .. l.rows - 1
  BY <1>4, <1>5, RevealShows
<1> HIDE DEF m
<1>7. m \in Models
  BY <1>6 DEF InBounds
<1>8. /\ k \in Lists /\ k.m = m /\ k.rows = l.rows /\ k.count = l.count
      /\ k.selected = i /\ k.opened = l.opened
  BY <1>1, <1>3, <1>4, <1>7 DEF Lists
<1> HIDE DEF k
<1>9. Looks(k)
  BY <1>6, <1>8 DEF Looks
<1>10. ASSUME l.rows > 0
       PROVE  Shows(k, i)
  <2> DEFINE t == Synced(k)
             row == i - m.value
  <2>1. t.m = m /\ t.rows = l.rows /\ t.count = l.count
    BY <1>8, <1>9, SyncedLooks
  <2> HIDE DEF t
  <2>2. row \in 0 .. l.rows - 1 /\ m.value + row = i /\ i < l.count
    <3>1. m.value \in Int
      BY <1>7 DEF Models
    <3> QED
      BY <1>2, <1>6, <1>10, <3>1
  <2> HIDE DEF row
  <2>3. LineInRow(t, row) = i
    BY <2>1, <2>2 DEF LineInRow
  <2> QED
    BY <2>1, <2>3 DEF Shows, t, row
<1> QED
  BY <1>8, <1>9, <1>10 DEF k, i

\* Going somewhere ends on a line that is seen, if there is one.
LEMMA WentIsShown ==
  ASSUME NEW l \in Lists, NEW index \in Int
  PROVE  LET k == Went(l, index)
         IN /\ k.count = l.count /\ k.rows = l.rows
            /\ k.selected \in -1 .. k.count - 1
            /\ (k.selected = -1) = (l.count = 0)
            /\ l.count > 0 /\ l.rows > 0 => Shows(k, k.selected)
<1>0. l.count \in Nat
  BY DEF Lists
<1>1. CASE l.count = 0
  <2>1. Went(l, index) = [l EXCEPT !.selected = -1]
    BY <1>1 DEF Went
  <2>2. /\ [l EXCEPT !.selected = -1].selected = -1 /\ [l EXCEPT !.selected = -1].count = l.count
        /\ [l EXCEPT !.selected = -1].rows = l.rows
    BY DEF Lists
  <2> QED
    BY <1>1, <2>1, <2>2
<1>2. CASE l.count # 0
  <2> DEFINE c == Clamped(index, 0, l.count - 1)
             s == [l EXCEPT !.selected = c]
  <2>1. c \in 0 .. l.count - 1 /\ c \in Int
    BY <1>0, <1>2 DEF Clamped
  <2>2. Went(l, index) = SelectionShown(s)
    BY <1>2 DEF Went
  <2> HIDE DEF c
  <2>3. s \in Lists /\ s.selected = c /\ s.count = l.count /\ s.rows = l.rows
    BY <2>1 DEF Lists
  <2> HIDE DEF s
  <2>4. LET k == SelectionShown(s)
        IN /\ k.selected = c /\ k.count = l.count /\ k.rows = l.rows
           /\ l.rows > 0 => Shows(k, k.selected)
    BY <2>1, <2>3, SelectionIsShown
  <2>5. c # -1 /\ c \in -1 .. l.count - 1
    BY <1>0, <2>1
  <2> QED
    BY <1>2, <2>2, <2>4, <2>5
<1> QED
  BY <1>1, <1>2

\* Whatever frame and contents became of a list of any length, keys, mouse and new
\* contents leave what they should selected, and in sight (ui/widget_list.c).
THEOREM ListsKeepSight ==
  ASSUME NEW l \in Lists, l.selected \in -1 .. l.count - 1
  PROVE  ListKeepsSight(l)
<1> DEFINE s == Synced(l)
<1>1. /\ Looks(s) /\ s.rows = l.rows /\ s.count = l.count
      /\ s.selected = l.selected /\ s.opened = l.opened
  BY SyncedLooks
<1>2. /\ l.count \in Nat /\ l.rows \in Nat /\ l.selected \in Int
      /\ s \in Lists /\ InBounds(s.m) /\ s.m.total = l.count /\ s.m.page = l.rows
      /\ s.m \in Models /\ s.m.value \in Int
  BY <1>1 DEF Lists, Looks, InBounds, Models
<1> HIDE DEF s
<1>3. \A key \in {"up", "down", "page_up", "page_down", "home", "end"} :
        LET k == ListKey(l, key)
        IN /\ k.selected \in -1 .. k.count - 1
           /\ (k.selected = -1) = (l.count = 0)
           /\ l.count > 0 /\ l.rows > 0 => Shows(k, k.selected)
  <2> TAKE key \in {"up", "down", "page_up", "page_down", "home", "end"}
  <2>1. ListPage(s) \in Int
    BY <1>1, <1>2 DEF ListPage
  <2>2. ListKey(l, key) \in {Went(s, index) : index \in Int}
    BY <1>1, <1>2, <2>1 DEF ListKey, s
  <2>3. PICK index \in Int : ListKey(l, key) = Went(s, index)
    BY <2>2
  <2>4. LET k == Went(s, index)
        IN /\ k.selected \in -1 .. k.count - 1
           /\ (k.selected = -1) = (s.count = 0)
           /\ s.count > 0 /\ s.rows > 0 => Shows(k, k.selected)
    BY <1>2, WentIsShown
  <2> QED
    BY <1>1, <2>3, <2>4
<1>4. \A row \in -1 .. l.rows :
        LET p == ListPressed(l, row, 2)
            line == LineInRow(Synced(l), row)
        IN IF line = -1 THEN p = Synced(l)
           ELSE p.selected = line /\ p.opened /\ p.m = Synced(l).m
  <2> TAKE row \in -1 .. l.rows
  <2> DEFINE line == LineInRow(s, row)
             t == [s EXCEPT !.selected = line]
             k == SelectionShown(t)
             p == ListPressed(l, row, 2)
  <2>1. CASE line = -1
    BY <2>1 DEF ListPressed, s
  <2>2. CASE line # -1
    <3>1. row \in 0 .. l.rows - 1 /\ line = s.m.value + row /\ line < l.count
      BY <1>1, <2>2 DEF LineInRow
    <3>2. s.m.value >= 0
      BY <1>2 DEF InBounds
    <3>3. line \in 0 .. l.count - 1 /\ line \in Int /\ line >= s.m.value /\ line < s.m.value + s.m.page
      BY <1>2, <3>1, <3>2
    <3>4. p = [SelectedLine(s, line) EXCEPT !.opened = TRUE]
      <4>1. p = [SelectedLine(s, line) EXCEPT !.opened = @ \/ 2 >= 2]
        BY <2>2 DEF ListPressed, s
      <4>2. (SelectedLine(s, line).opened \/ 2 >= 2) = TRUE
        OBVIOUS
      <4> QED
        BY <4>1, <4>2
    <3>5. SelectedLine(s, line) = k
      BY <1>1, <3>3 DEF SelectedLine
    <3> HIDE DEF line
    <3>6. t \in Lists /\ t.selected = line /\ t.count = l.count /\ t.rows = l.rows /\ t.m = s.m
      BY <1>1, <1>2, <3>3 DEF Lists
    <3> HIDE DEF t
    <3>7. k \in Lists /\ k.selected = line
      BY <3>3, <3>6, SelectionIsShown DEF Looks
    <3>8. Looks(t)
      BY <1>2, <3>6 DEF Looks
    <3>9. Synced(t).m = s.m /\ Synced(t) \in Lists
      BY <3>6, <3>8, SyncedLooks DEF Looks
    <3>10. k = [Synced(t) EXCEPT !.m = Reveal(s.m, line)]
      BY <3>3, <3>6, <3>9 DEF SelectionShown
    <3>11. Reveal(s.m, line) = s.m
      BY <1>2, <3>3, RevealOfSeen
    <3>12. k.m = s.m
      BY <3>9, <3>10, <3>11 DEF Lists
    <3> HIDE DEF k
    <3>13. p.selected = line /\ p.opened /\ p.m = s.m
      BY <3>4, <3>5, <3>7, <3>12 DEF Lists
    <3> QED
      BY <2>2, <3>13 DEF line, s
  <2> QED
    BY <2>1, <2>2
<1>5. \A delta \in {-1, 1} : ListWheeled(l, delta).m.value \in 0 .. ScrollMax(Synced(l).m)
  <2> TAKE delta \in {-1, 1}
  <2> DEFINE m == ScrollBy(s.m, delta)
  <2>1. InBounds(m) /\ m.total = s.m.total /\ m.page = s.m.page
    BY <1>2, ScrollToStays DEF ScrollBy
  <2>2. ScrollMax(m) = ScrollMax(s.m)
    BY <2>1 DEF ScrollMax
  <2>3. ListWheeled(l, delta) = [s EXCEPT !.m = m]
    BY DEF ListWheeled, s
  <2> HIDE DEF m
  <2>4. ListWheeled(l, delta).m = m
    BY <1>2, <2>3 DEF Lists
  <2> QED
    BY <2>1, <2>2, <2>4 DEF InBounds, s
<1>6. \A count \in 0 .. 3 :
        LET f == Filled(l, count)
        IN (f.selected = -1) = (count = 0) /\ (count > 0 /\ l.rows > 0 => Shows(f, 0))
  <2> TAKE count \in 0 .. 3
  <2> DEFINE i == IF count > 0 THEN 0 ELSE -1
             t == [l EXCEPT !.count = count, !.selected = i]
  <2>0. i \in Int /\ count \in Nat /\ (count > 0 => i = 0) /\ (count = 0 => i = -1)
    OBVIOUS
  <2> HIDE DEF i
  <2>1. t \in Lists /\ t.count = count /\ t.selected = i /\ t.rows = l.rows
    BY <2>0 DEF Lists
  <2>2. Filled(l, count) = SelectionShown(t)
    BY DEF Filled, i
  <2> HIDE DEF t
  <2>3. CASE count = 0
    <3>1. SelectionShown(t) = t /\ t.selected = -1
      BY <2>0, <2>1, <2>3 DEF SelectionShown
    <3> QED
      BY <2>2, <2>3, <3>1
  <2>4. CASE count # 0
    <3>1. t.selected = 0 /\ 0 \in 0 .. t.count - 1
      BY <2>0, <2>1, <2>4
    <3>2. LET f == SelectionShown(t)
          IN f.selected = 0 /\ (l.rows > 0 => Shows(f, f.selected))
      BY <2>1, <3>1, SelectionIsShown
    <3> QED
      BY <2>2, <2>4, <3>2
  <2> QED
    BY <2>3, <2>4
<1> QED
  BY <1>3, <1>4, <1>5, <1>6 DEF ListKeepsSight

--------------------------------------------------------------------------------
(* The thumb of a scroll bar.                                              *)

\* Multiples of a number are in the order of what they are multiples by.
LEMMA MultiplesAreOrdered ==
  ASSUME NEW a \in Int, NEW b \in Int, NEW d \in Nat \ {0}, a * d < b * d + d
  PROVE  a <= b
<1> SUFFICES ASSUME b + 1 <= a PROVE FALSE
  OBVIOUS
<1>1. (b + 1) * d <= a * d
  OBVIOUS
<1>2. (b + 1) * d = b * d + d /\ a * d \in Int /\ b * d \in Int
  OBVIOUS
<1> QED
  BY <1>1, <1>2

\* A half.
LEMMA HalfOf ==
  ASSUME NEW d \in Nat
  PROVE  d \div 2 \in Nat /\ 2 * (d \div 2) <= d /\ d <= 2 * (d \div 2) + 1
OBVIOUS

\* What rounding comes to.
LEMMA RoundedBetween ==
  ASSUME NEW num \in Nat, NEW den \in Nat \ {0}
  PROVE  LET r == Rounded(num, den)
         IN /\ r \in Nat
            /\ r * den <= num + den \div 2
            /\ num + den \div 2 < r * den + den
<1> DEFINE n == num + den \div 2
<1>1. n \in Nat
  BY HalfOf
<1> HIDE DEF n
<1>2. /\ n \div den \in Nat
      /\ (n \div den) * den <= n
      /\ n < (n \div den) * den + den
  BY <1>1
<1> QED
  BY <1>2 DEF Rounded, n

\* Nothing is rounded beyond a whole number.
LEMMA RoundedUpTo ==
  ASSUME NEW num \in Nat, NEW den \in Nat \ {0}, NEW k \in Nat, num <= k * den
  PROVE  Rounded(num, den) <= k
<1> DEFINE r == Rounded(num, den)
           h == den \div 2
<1>1. r \in Nat /\ r * den <= num + h
  BY RoundedBetween
<1>2. h \in Nat /\ h < den
  BY HalfOf
<1> HIDE DEF r, h
<1>3. r * den \in Int /\ k * den \in Int
  BY <1>1
<1>4. r * den < k * den + den
  BY <1>1, <1>2, <1>3
<1> QED
  BY <1>1, <1>4, MultiplesAreOrdered DEF r

\* To scale a position up and back again gives the position.
LEMMA RoundedBack ==
  ASSUME NEW value \in Nat, NEW most \in Nat \ {0}, NEW span \in Nat, span >= most
  PROVE  Rounded(Rounded(value * span, most) * most, span) = value
<1> DEFINE vs == value * span
           pos == Rounded(vs, most)
           pm == pos * most
           h == most \div 2
           g == span \div 2
           back == Rounded(pm, span)
           bs == back * span
<1>1. vs \in Nat
  OBVIOUS
<1>2. h \in Nat /\ 2 * h <= most /\ most <= 2 * h + 1
  BY HalfOf
<1>3. g \in Nat /\ 2 * g <= span /\ span <= 2 * g + 1
  BY HalfOf
<1>4. pos \in Nat /\ pm <= vs + h /\ vs + h < pm + most
  <2> HIDE DEF vs
  <2> QED
    BY <1>1, RoundedBetween
<1> HIDE DEF pos
<1>5. pm \in Nat
  BY <1>4
<1>6. back \in Nat /\ bs <= pm + g /\ pm + g < bs + span
  <2> HIDE DEF pm
  <2> QED
    BY <1>5, RoundedBetween
<1> HIDE DEF back
<1>7. bs \in Nat
  BY <1>6
<1>8. ASSUME span > most PROVE back = value
  <2>1. bs < vs + span /\ vs < bs + span
    <3> HIDE DEF vs, pm, h, g, bs
    <3> QED
      BY <1>1, <1>2, <1>3, <1>4, <1>5, <1>6, <1>7, <1>8
  <2>2. back <= value /\ value <= back
    BY <1>6, <2>1, MultiplesAreOrdered DEF bs, vs
  <2> QED
    BY <1>6, <2>2
<1>9. ASSUME span = most PROVE back = value
  <2>1. pos * most < value * most + most /\ value * most < pos * most + most
    <3>1. vs = value * most
      BY <1>9
    <3> HIDE DEF vs, h
    <3>2. pm < vs + most /\ vs < pm + most
      BY <1>1, <1>2, <1>4, <1>5
    <3> QED
      BY <3>1, <3>2 DEF pm
  <2>2. pos <= value /\ value <= pos
    BY <1>4, <2>1, MultiplesAreOrdered
  <2>3. pos = value
    BY <1>4, <2>2
  <2>4. pm = vs
    BY <1>9, <2>3
  <2>5. bs < vs + span /\ vs < bs + span
    <3> HIDE DEF vs, pm, h, g, bs
    <3> QED
      BY <1>1, <1>3, <1>6, <1>7, <2>4
  <2>6. back <= value /\ value <= back
    BY <1>6, <2>5, MultiplesAreOrdered DEF bs, vs
  <2> QED
    BY <1>6, <2>6
<1>10. back = value
  BY <1>8, <1>9
<1> QED
  BY <1>10, Zenon DEF back, pm, pos, vs

\* The thumb is no longer than the track.
LEMMA ThumbIsInTrack ==
  ASSUME NEW m \in Models, ScrollNeeded(m), NEW track \in Nat \ {0}, NEW least \in Nat
  PROVE  ThumbLen(m, track, least) \in 1 .. track
<1> DEFINE total == m.total
           page == m.page
           len == Rounded(track * page, total)
           bound == IF least > track THEN track ELSE IF least < 1 THEN 1 ELSE least
<1>1. total \in Nat \ {0} /\ page \in Nat /\ page < total
  BY DEF Models, ScrollNeeded
<1>2. ThumbLen(m, track, least) = IF len < bound THEN bound ELSE len
  BY DEF ThumbLen
<1>3. bound \in 1 .. track
  OBVIOUS
<1> HIDE DEF total, page, bound
<1>4. track * page \in Nat /\ track * page <= track * total
  BY <1>1
<1>5. len \in Nat /\ len <= track
  <2> DEFINE num == track * page
  <2>1. num \in Nat /\ num <= track * total
    BY <1>4
  <2> HIDE DEF num
  <2>2. Rounded(num, total) \in Nat /\ Rounded(num, total) <= track
    BY <1>1, <2>1, RoundedBetween, RoundedUpTo
  <2> QED
    BY <2>2 DEF num
<1> HIDE DEF len
<1> QED
  BY <1>2, <1>3, <1>5

\* The thumb of any text in any track lies in the track, and to take hold of it and
\* not move it moves nothing (scroll_thumb, scroll_value_at of ui/scroll.c).
THEOREM ThumbsAreSteady ==
  ASSUME NEW m \in Models, NEW track \in Int, NEW least \in Nat,
         m.value >= 0, m.value <= ScrollMax(m)
  PROVE  ThumbIsSteady(m, track, least)
<1> SUFFICES ASSUME track > 0
             PROVE  LET pos == ThumbPos(m, track, least)
                    IN /\ 0 <= pos /\ pos + ThumbLength(m, track, least) <= track
                       /\ ScrollNeeded(m) /\ Span(m, track, least) >= ScrollMax(m) =>
                            ValueAt(m, track, least, pos) = m.value
  BY DEF ThumbIsSteady
<1>1. CASE ~ScrollNeeded(m)
  <2>1. ThumbPos(m, track, least) = 0 /\ ThumbLength(m, track, least) = track
    BY <1>1 DEF ThumbPos, ThumbLength
  <2> QED
    BY <1>1, <2>1
<1>2. CASE ScrollNeeded(m)
  <2> DEFINE len == ThumbLen(m, track, least)
             span == Span(m, track, least)
             most == ScrollMax(m)
             value == m.value
             pos == ThumbPos(m, track, least)
  <2>1. track \in Nat \ {0} /\ ~(track <= 0)
    OBVIOUS
  <2>2. len \in 1 .. track
    BY <1>2, <2>1, ThumbIsInTrack
  <2>3. span = track - len
    BY DEF Span
  <2>4. most \in Nat \ {0} /\ value \in Nat /\ value <= most
    BY <1>2 DEF ScrollMax, ScrollNeeded, Models
  <2>5. ThumbLength(m, track, least) = len
    BY <1>2, <2>1 DEF ThumbLength
  <2>6. pos = Rounded(value * span, most)
    BY <1>2, <2>1 DEF ThumbPos
  <2> HIDE DEF len, span, most, value, pos
  <2>7. span \in Nat /\ span + len <= track /\ len \in Nat
    BY <2>2, <2>3
  <2>8. value * span \in Nat /\ value * span <= span * most
    BY <2>4, <2>7
  <2>9. pos \in Nat /\ pos <= span
    <3> DEFINE num == value * span
    <3>1. num \in Nat /\ num <= span * most
      BY <2>8
    <3> HIDE DEF num
    <3>2. Rounded(num, most) \in Nat /\ Rounded(num, most) <= span
      BY <2>4, <2>7, <3>1, RoundedBetween, RoundedUpTo
    <3> QED
      BY <2>6, <3>2 DEF num
  <2>10. ASSUME span >= most
         PROVE  ValueAt(m, track, least, pos) = value
    <3>1. ~(span <= 0) /\ Clamped(pos, 0, span) = pos
      BY <2>4, <2>7, <2>9, <2>10 DEF Clamped
    <3>2. ValueAt(m, track, least, pos) = Rounded(pos * most, span)
      BY <1>2, <2>1, <3>1, Zenon DEF ValueAt, span, most
    <3>3. Rounded(pos * most, span) = value
      BY <2>4, <2>6, <2>7, <2>10, RoundedBack
    <3> QED
      BY <3>2, <3>3
  <2> QED
    BY <2>5, <2>7, <2>9, <2>10 DEF pos, span, most, value
<1> QED
  BY <1>1, <1>2

--------------------------------------------------------------------------------
(* Sums and layouts (PanelLayout).                                         *)

IsSum(f, amounts) ==
  f = [k \in 0 .. Len(amounts) |-> IF k = 0 THEN 0 ELSE f[k - 1] + amounts[k]]

\* Amounts can be added up one by one.
LEMMA SumExists ==
  ASSUME NEW amounts \in Seq(Int)
  PROVE  \E f : IsSum(f, amounts) /\ f \in [0 .. Len(amounts) -> Int]
<1> DEFINE n == Len(amounts)
           Rule(f, k) == IF k = 0 THEN 0 ELSE f[k - 1] + amounts[k]
           Has(m) == \E f \in [0 .. m -> Int] : f = [k \in 0 .. m |-> Rule(f, k)]
           Lacking == {m \in 0 .. n : ~Has(m)}
<1>0. n \in Nat /\ \A k \in 1 .. n : amounts[k] \in Int
  OBVIOUS
<1>1. Has(0)
  <2> DEFINE f == [k \in 0 .. 0 |-> 0]
  <2>1. f \in [0 .. 0 -> Int] /\ f = [k \in 0 .. 0 |-> Rule(f, k)]
    OBVIOUS
  <2> QED
    BY <2>1
<1>2. ASSUME NEW m \in 1 .. n, Has(m - 1)
      PROVE  Has(m)
  <2>1. PICK f \in [0 .. m - 1 -> Int] : f = [k \in 0 .. m - 1 |-> Rule(f, k)]
    BY <1>2
  <2> DEFINE g == [k \in 0 .. m |-> IF k = m THEN f[m - 1] + amounts[m] ELSE f[k]]
  <2>2. m \in Nat /\ m # 0 /\ m - 1 \in 0 .. m - 1
    BY <1>0
  <2>3. g \in [0 .. m -> Int]
    <3>1. f[m - 1] + amounts[m] \in Int
      BY <1>0, <2>2
    <3>2. \A k \in 0 .. m : k # m => f[k] \in Int
      BY <2>2
    <3> QED
      BY <3>1, <3>2
  <2>4. \A k \in 0 .. m : g[k] = Rule(g, k)
    <3> TAKE k \in 0 .. m
    <3>1. CASE k = m
      <4>1. g[k - 1] = f[m - 1]
        BY <2>2, <3>1
      <4> QED
        BY <2>2, <3>1, <4>1
    <3>2. CASE k # m
      <4>1. k \in 0 .. m - 1 /\ g[k] = f[k] /\ f[k] = Rule(f, k)
        BY <2>1, <2>2, <3>2
      <4>2. k # 0 => g[k - 1] = f[k - 1]
        BY <2>2, <3>2
      <4> QED
        BY <4>1, <4>2
    <3> QED
      BY <3>1, <3>2
  <2>5. g = [k \in 0 .. m |-> g[k]]
    OBVIOUS
  <2> HIDE DEF g, Rule
  <2>6. g = [k \in 0 .. m |-> Rule(g, k)]
    BY <2>4, <2>5
  <2> QED
    BY <2>3, <2>6
<1>3. Lacking = {}
  <2> SUFFICES ASSUME Lacking # {} PROVE FALSE
    OBVIOUS
  <2> HIDE DEF Has
  <2>1. Lacking \in SUBSET Nat
    BY <1>0
  <2> HIDE DEF Lacking
  <2>2. PICK m \in Lacking : \A j \in Lacking : m <= j
    BY <2>1, MinIsLeast, Zenon
  <2>3. m \in 0 .. n /\ ~Has(m)
    BY <2>2 DEF Lacking
  <2>4. m # 0
    BY <1>1, <2>3
  <2>5. m \in 1 .. n /\ m - 1 \in 0 .. n /\ m - 1 \notin Lacking
    BY <1>0, <2>2, <2>3, <2>4
  <2>6. Has(m - 1)
    BY <2>5 DEF Lacking
  <2> QED
    BY <1>2, <2>3, <2>5, <2>6
<1>4. Has(n)
  <2> HIDE DEF Has
  <2>1. n \in 0 .. n
    BY <1>0
  <2> QED
    BY <1>3, <2>1
<1> QED
  BY <1>4, Zenon DEF IsSum

\* What Sums computes.
LEMMA SumsAre ==
  ASSUME NEW amounts \in Seq(Int)
  PROVE  /\ Sums(amounts)[0] = 0
         /\ \A k \in 0 .. Len(amounts) : Sums(amounts)[k] \in Int
         /\ \A k \in 1 .. Len(amounts) :
              Sums(amounts)[k] = Sums(amounts)[k - 1] + amounts[k]
<1> DEFINE n == Len(amounts)
           s == Sums(amounts)
<1>0. n \in Nat /\ \A k \in 1 .. n : amounts[k] \in Int
  OBVIOUS
<1>1. s = CHOOSE f : IsSum(f, amounts)
  BY Zenon DEF Sums, IsSum
<1>2. IsSum(s, amounts)
  BY <1>1, SumExists, Zenon
<1>3. /\ s[0] = 0
      /\ \A k \in 1 .. n : s[k] = s[k - 1] + amounts[k]
  <2> HIDE DEF s
  <2>1. \A k \in 0 .. n : s[k] = IF k = 0 THEN 0 ELSE s[k - 1] + amounts[k]
    BY <1>2 DEF IsSum
  <2> QED
    BY <1>0, <2>1
<1> DEFINE Wrong == {k \in 0 .. n : s[k] \notin Int}
<1>4. Wrong = {}
  <2> SUFFICES ASSUME Wrong # {} PROVE FALSE
    OBVIOUS
  <2> HIDE DEF s
  <2>1. Wrong \in SUBSET Nat
    BY <1>0
  <2> HIDE DEF Wrong
  <2>2. PICK m \in Wrong : \A j \in Wrong : m <= j
    BY <2>1, MinIsLeast, Zenon
  <2>3. m \in 0 .. n /\ s[m] \notin Int
    BY <2>2 DEF Wrong
  <2>4. m # 0
    BY <1>3, <2>3
  <2>5. m \in 1 .. n /\ m - 1 \in 0 .. n /\ m - 1 \notin Wrong
    BY <1>0, <2>2, <2>3, <2>4
  <2>6. s[m - 1] \in Int
    BY <2>5 DEF Wrong
  <2>7. s[m] = s[m - 1] + amounts[m] /\ amounts[m] \in Int
    BY <1>0, <1>3, <2>5
  <2>8. s[m] \in Int
    BY ONLY <2>6, <2>7
  <2> QED
    BY <2>3, <2>8
<1> QED
  BY <1>3, <1>4

\* Sums of what is not negative grow.
LEMMA SumsGrow ==
  ASSUME NEW amounts \in Seq(Nat), NEW i \in 0 .. Len(amounts), NEW j \in i .. Len(amounts)
  PROVE  Sums(amounts)[i] <= Sums(amounts)[j]
<1> DEFINE n == Len(amounts)
           s == Sums(amounts)
           Wrong == {k \in i .. n : ~(s[i] <= s[k])}
<1>0. amounts \in Seq(Int) /\ n \in Nat /\ \A k \in 1 .. n : amounts[k] \in Nat
  OBVIOUS
<1>1. /\ \A k \in 0 .. n : s[k] \in Int
      /\ \A k \in 1 .. n : s[k] = s[k - 1] + amounts[k]
  BY <1>0, SumsAre
<1>2. Wrong = {}
  <2> SUFFICES ASSUME Wrong # {} PROVE FALSE
    OBVIOUS
  <2> HIDE DEF s
  <2>1. Wrong \in SUBSET Nat
    BY <1>0
  <2> HIDE DEF Wrong
  <2>2. PICK m \in Wrong : \A k \in Wrong : m <= k
    BY <2>1, MinIsLeast, Zenon
  <2>3. m \in i .. n /\ ~(s[i] <= s[m])
    BY <2>2 DEF Wrong
  <2>4. m # i
    BY <1>0, <1>1, <2>3
  <2>5. m \in 1 .. n /\ m - 1 \in i .. n /\ m - 1 \notin Wrong /\ m - 1 \in 0 .. n
    BY <1>0, <2>2, <2>3, <2>4
  <2>6. s[i] <= s[m - 1]
    BY <2>5 DEF Wrong
  <2>7. s[m] = s[m - 1] + amounts[m] /\ s[m] \in Int /\ s[m - 1] \in Int /\ s[i] \in Int
    BY <1>0, <1>1, <2>3, <2>5
  <2> QED
    BY <1>0, <2>3, <2>5, <2>6, <2>7
<1> HIDE DEF s
<1> QED
  BY <1>2 DEF s

\* A larger sum has larger parts.
LEMMA SumsCompare ==
  ASSUME NEW A \in Seq(Int), NEW B \in Seq(Int), Len(A) = Len(B), Len(A) >= 1, NEW c \in Int,
         A[1] >= B[1] + c, \A k \in 2 .. Len(A) : A[k] >= B[k]
  PROVE  \A k \in 1 .. Len(A) : Sums(A)[k] >= Sums(B)[k] + c
<1> DEFINE n == Len(A)
           s == Sums(A)
           t == Sums(B)
           Wrong == {k \in 1 .. n : ~(s[k] >= t[k] + c)}
<1>0. n \in Nat /\ n >= 1 /\ \A k \in 1 .. n : A[k] \in Int /\ B[k] \in Int
  OBVIOUS
<1>1. /\ s[0] = 0 /\ t[0] = 0 /\ \A k \in 0 .. n : s[k] \in Int /\ t[k] \in Int
      /\ \A k \in 1 .. n : s[k] = s[k - 1] + A[k] /\ t[k] = t[k - 1] + B[k]
  BY SumsAre
<1> HIDE DEF s, t
<1>2. Wrong = {}
  <2> SUFFICES ASSUME Wrong # {} PROVE FALSE
    OBVIOUS
  <2>1. Wrong \in SUBSET Nat
    BY <1>0
  <2> HIDE DEF Wrong
  <2>2. PICK m \in Wrong : \A k \in Wrong : m <= k
    BY <2>1, MinIsLeast, Zenon
  <2>3. m \in 1 .. n /\ ~(s[m] >= t[m] + c)
    BY <2>2 DEF Wrong
  <2>4. m # 1
    <3>1. 1 \in 1 .. n /\ 1 - 1 = 0
      BY <1>0
    <3>2. s[1] = A[1] /\ t[1] = B[1]
      BY <1>0, <1>1, <3>1
    <3> QED
      BY <2>3, <3>2
  <2>5. m \in 2 .. n /\ m - 1 \in 1 .. n /\ m - 1 \notin Wrong /\ m - 1 \in 0 .. n /\ m \in 0 .. n
    BY <1>0, <2>2, <2>3, <2>4
  <2>6. s[m - 1] >= t[m - 1] + c
    BY <2>5 DEF Wrong
  <2>7. A[m] >= B[m] /\ A[m] \in Int /\ B[m] \in Int
    BY <1>0, <2>3, <2>5 DEF n
  <2>8. s[m] = s[m - 1] + A[m] /\ t[m] = t[m - 1] + B[m]
    BY <1>1, <2>3
  <2>9. s[m - 1] \in Int /\ t[m - 1] \in Int
    BY <1>1, <2>5
  <2>10. s[m] >= t[m] + c
    <3> DEFINE a == A[m]
               b == B[m]
               sa == s[m - 1]
               sb == t[m - 1]
    <3>1. /\ a \in Int /\ b \in Int /\ sa \in Int /\ sb \in Int /\ a >= b /\ sa >= sb + c
          /\ s[m] = sa + a /\ t[m] = sb + b
      BY <2>6, <2>7, <2>8, <2>9
    <3> HIDE DEF a, b, sa, sb
    <3> QED
      BY ONLY <3>1, c \in Int
  <2> QED
    BY <2>3, <2>10
<1> QED
  BY <1>2 DEF s, t

\* Along a panel: what comes first ends before what comes later begins.
LEMMA SpacedSums ==
  ASSUME NEW sizes \in Seq(Nat), NEW gap \in Nat
  PROVE  LET n == Len(sizes)
             y == Sums(Spaced(sizes, gap))
         IN  /\ y[0] = 0 /\ \A k \in 0 .. n : y[k] \in Nat
             /\ n > 0 => y[n - 1] + sizes[n] = y[n]
             /\ \A i \in 1 .. n - 1 : y[i] = y[i - 1] + sizes[i] + gap
             /\ \A i \in 1 .. n : y[i - 1] + sizes[i] <= y[n]
             /\ \A i \in 1 .. n : \A j \in i + 1 .. n : y[i - 1] + sizes[i] <= y[j - 1]
<1> DEFINE n == Len(sizes)
           a == Spaced(sizes, gap)
           y == Sums(a)
<1>0. /\ n \in Nat /\ \A k \in 1 .. n : sizes[k] \in Nat
      /\ a \in Seq(Nat) /\ a \in Seq(Int) /\ Len(a) = n
      /\ \A k \in 1 .. n : a[k] = sizes[k] + (IF k < n THEN gap ELSE 0)
  BY DEF Spaced
<1>1. /\ y[0] = 0 /\ \A k \in 0 .. n : y[k] \in Int
      /\ \A k \in 1 .. n : y[k] = y[k - 1] + a[k]
  BY <1>0, SumsAre
<1>2. \A i \in 0 .. n : \A j \in i .. n : y[i] <= y[j]
  BY <1>0, SumsGrow
<1> HIDE DEF a, y, n
<1>3. \A k \in 0 .. n : y[k] \in Nat
  <2> TAKE k \in 0 .. n
  <2>1. 0 \in 0 .. n /\ k \in 0 .. n
    BY <1>0
  <2>2. y[0] <= y[k] /\ y[k] \in Int
    BY <1>1, <1>2, <2>1
  <2> QED
    BY <1>1, <2>2
<1>4. \A i \in 1 .. n : /\ i - 1 \in 0 .. n /\ y[i - 1] \in Nat /\ y[i - 1] + sizes[i] <= y[i]
                        /\ y[i] = y[i - 1] + sizes[i] + (IF i < n THEN gap ELSE 0)
  <2> TAKE i \in 1 .. n
  <2>1. i - 1 \in 0 .. n /\ y[i - 1] \in Nat /\ sizes[i] \in Nat
    BY <1>0, <1>3
  <2>2. y[i] = y[i - 1] + (sizes[i] + (IF i < n THEN gap ELSE 0))
    BY <1>0, <1>1
  <2> QED
    BY <2>1, <2>2
<1>5. n > 0 => y[n - 1] + sizes[n] = y[n]
  <2> SUFFICES ASSUME n > 0 PROVE y[n - 1] + sizes[n] = y[n]
    OBVIOUS
  <2>1. n \in 1 .. n /\ ~(n < n) /\ sizes[n] \in Nat
    BY <1>0
  <2>2. y[n] = y[n - 1] + sizes[n] + 0 /\ y[n - 1] \in Nat
    BY <1>4, <2>1
  <2> QED
    BY <2>1, <2>2
<1>6. \A i \in 1 .. n - 1 : y[i] = y[i - 1] + sizes[i] + gap
  <2> TAKE i \in 1 .. n - 1
  <2>1. i \in 1 .. n /\ i < n
    BY <1>0
  <2> QED
    BY <1>4, <2>1
<1>7. \A i \in 1 .. n : \A j \in i .. n : y[i - 1] + sizes[i] <= y[j]
  <2> TAKE i \in 1 .. n
  <2> TAKE j \in i .. n
  <2>1. i \in 0 .. n /\ j \in i .. n /\ j \in 0 .. n
    BY <1>0
  <2>2. y[i - 1] + sizes[i] <= y[i] /\ y[i] <= y[j]
    BY <1>2, <1>4, <2>1
  <2>3. y[i - 1] \in Nat /\ sizes[i] \in Nat /\ y[i] \in Nat /\ y[j] \in Nat
    BY <1>0, <1>3, <1>4, <2>1
  <2> QED
    BY <2>2, <2>3
<1>8. \A i \in 1 .. n : n \in i .. n
  BY <1>0
<1>9. \A i \in 1 .. n : \A j \in i + 1 .. n : j - 1 \in i .. n
  BY <1>0
<1> QED
  BY <1>1, <1>3, <1>5, <1>6, <1>7, <1>8, <1>9 DEF a, y, n

--------------------------------------------------------------------------------
(* Frames.                                                                 *)

Wanted == [w : Nat, h : Nat]
Frames == [x : Int, y : Int, w : Int, h : Int]

\* A number of a set that is not above the others is its smallest.
LEMMA MinIs ==
  ASSUME NEW S \in SUBSET Int, NEW v \in S, \A k \in S : v <= k
  PROVE  Min(S) = v
<1> DEFINE least == Min(S)
<1>1. least \in S /\ \A k \in S : least <= k
  BY DEF Min
<1> HIDE DEF least
<1>2. least \in Int /\ v \in Int /\ least <= v /\ v <= least
  BY <1>1
<1>3. least = v
  BY <1>2
<1> QED
  BY <1>3 DEF least

\* A number of a set that is not below the others is its greatest.
LEMMA MaxIs ==
  ASSUME NEW S \in SUBSET Int, NEW v \in S, \A k \in S : k <= v
  PROVE  Max(S) = v
<1> DEFINE most == Max(S)
<1>1. most \in S /\ \A k \in S : most >= k
  BY DEF Max
<1> HIDE DEF most
<1>2. most \in Int /\ v \in Int /\ most >= v /\ v >= most
  BY <1>1
<1>3. most = v
  BY <1>2
<1> QED
  BY <1>3 DEF most

\* Frames fill the room whose sides each of them keeps and some of them reach.
LEMMA FramesFill ==
  ASSUME NEW frames, NEW x \in Int, NEW y \in Int, NEW right \in Int, NEW bottom \in Int,
         \A i \in DOMAIN frames : /\ frames[i] \in Frames
                                  /\ x <= frames[i].x /\ y <= frames[i].y
                                  /\ Right(frames[i]) <= right /\ Bottom(frames[i]) <= bottom,
         \E i \in DOMAIN frames : frames[i].x = x,
         \E i \in DOMAIN frames : frames[i].y = y,
         \E i \in DOMAIN frames : Right(frames[i]) = right,
         \E i \in DOMAIN frames : Bottom(frames[i]) = bottom
  PROVE  Fills(frames, x, y, right, bottom)
<1> DEFINE xs == {frames[i].x : i \in DOMAIN frames}
           ys == {frames[i].y : i \in DOMAIN frames}
           rs == {Right(frames[i]) : i \in DOMAIN frames}
           bs == {Bottom(frames[i]) : i \in DOMAIN frames}
<1>0. \A i \in DOMAIN frames : /\ frames[i].x \in Int /\ frames[i].y \in Int
                               /\ Right(frames[i]) \in Int /\ Bottom(frames[i]) \in Int
  BY DEF Frames, Right, Bottom
<1>1. xs \in SUBSET Int /\ x \in xs /\ \A k \in xs : x <= k
  BY <1>0
<1>2. ys \in SUBSET Int /\ y \in ys /\ \A k \in ys : y <= k
  BY <1>0
<1>3. rs \in SUBSET Int /\ right \in rs /\ \A k \in rs : k <= right
  BY <1>0
<1>4. bs \in SUBSET Int /\ bottom \in bs /\ \A k \in bs : k <= bottom
  BY <1>0
<1> HIDE DEF xs, ys, rs, bs
<1>5. Min(xs) = x /\ Min(ys) = y /\ Max(rs) = right /\ Max(bs) = bottom
  BY <1>1, <1>2, <1>3, <1>4, MinIs, MaxIs
<1> QED
  BY <1>5 DEF Fills, xs, ys, rs, bs

\* The widest and the highest of some widgets.
LEMMA WidestIs ==
  ASSUME NEW items \in Seq(Wanted), NEW S \in SUBSET (DOMAIN items)
  PROVE  /\ Widest(items, S) \in Nat /\ Highest(items, S) \in Nat
         /\ \A i \in S : items[i].w <= Widest(items, S) /\ items[i].h <= Highest(items, S)
         /\ \/ Widest(items, S) = 0
            \/ \E i \in S : Widest(items, S) = items[i].w
         /\ \/ Highest(items, S) = 0
            \/ \E i \in S : Highest(items, S) = items[i].h
<1> DEFINE n == Len(items)
<1>0. /\ n \in Nat /\ DOMAIN items = 1 .. n
      /\ \A i \in 1 .. n : items[i] \in Wanted
  OBVIOUS
<1>1. \A i \in 1 .. n : items[i].w \in Nat /\ items[i].h \in Nat
  BY <1>0 DEF Wanted
<1>2. ASSUME NEW sizes \in Seq(Nat), Len(sizes) = n
      PROVE  LET all == {sizes[i] : i \in S} \union {0}
             IN  /\ Max(all) \in Nat /\ \A i \in S : sizes[i] <= Max(all)
                 /\ Max(all) = 0 \/ \E i \in S : Max(all) = sizes[i]
  <2> DEFINE all == {sizes[i] : i \in S} \union {0}
             y == Sums(Spaced(sizes, 0))
  <2>1. 0 \in Nat /\ \A k \in 0 .. n : y[k] \in Nat
    BY <1>2, SpacedSums
  <2>2. \A i \in 1 .. n : y[i - 1] + sizes[i] <= y[n]
    BY <1>2, SpacedSums
  <2> HIDE DEF y
  <2>3. \A i \in 1 .. n : sizes[i] \in 0 .. y[n] /\ sizes[i] \in Nat
    <3> TAKE i \in 1 .. n
    <3>1. i - 1 \in 0 .. n /\ n \in 0 .. n /\ sizes[i] \in Nat
      BY <1>0, <1>2
    <3>2. y[i - 1] \in Nat /\ y[n] \in Nat /\ y[i - 1] + sizes[i] <= y[n]
      BY <2>1, <2>2, <3>1
    <3> QED
      BY <3>1, <3>2
  <2>4. y[n] \in Nat
    BY <1>0, <2>1
  <2>5. all \in SUBSET (0 .. y[n]) /\ all # {} /\ 0 \in Int /\ y[n] \in Int
    BY <1>0, <2>3, <2>4
  <2>6. \A i \in S : sizes[i] \in all
    OBVIOUS
  <2>7. \A v \in all : v = 0 \/ \E i \in S : v = sizes[i]
    OBVIOUS
  <2> HIDE DEF all
  <2> DEFINE most == Max(all)
  <2>8. most \in all /\ \A k \in all : k <= most
    BY <2>5, MaxIsGreatest
  <2> HIDE DEF most
  <2>9. most \in Nat
    BY <2>4, <2>5, <2>8
  <2>10. \A i \in S : sizes[i] <= most
    BY <2>6, <2>8
  <2>11. most = 0 \/ \E i \in S : most = sizes[i]
    BY <2>7, <2>8
  <2> QED
    BY <2>9, <2>10, <2>11, Zenon DEF all, most
<1>3. /\ Widths(items) \in Seq(Nat) /\ Len(Widths(items)) = n
      /\ Heights(items) \in Seq(Nat) /\ Len(Heights(items)) = n
      /\ \A i \in S : Widths(items)[i] = items[i].w /\ Heights(items)[i] = items[i].h
  BY <1>0, <1>1 DEF Widths, Heights
<1>4. /\ Widest(items, S) = Max({Widths(items)[i] : i \in S} \union {0})
      /\ Highest(items, S) = Max({Heights(items)[i] : i \in S} \union {0})
  <2>1. /\ {items[i].w : i \in S} = {Widths(items)[i] : i \in S}
        /\ {items[i].h : i \in S} = {Heights(items)[i] : i \in S}
    BY <1>3
  <2> QED
    BY <2>1 DEF Widest, Highest
<1>5. LET all == {Widths(items)[i] : i \in S} \union {0}
      IN  /\ Max(all) \in Nat /\ \A i \in S : Widths(items)[i] <= Max(all)
          /\ Max(all) = 0 \/ \E i \in S : Max(all) = Widths(items)[i]
  BY <1>2, <1>3
<1>6. LET all == {Heights(items)[i] : i \in S} \union {0}
      IN  /\ Max(all) \in Nat /\ \A i \in S : Heights(items)[i] <= Max(all)
          /\ Max(all) = 0 \/ \E i \in S : Max(all) = Heights(items)[i]
  BY <1>2, <1>3
<1> QED
  BY <1>3, <1>4, <1>5, <1>6

\* Frames that fill the room and leave each other and every widget theirs.
FitIn(frames, items, room, padx, pady) ==
  /\ Fills(frames, room.x + padx, room.y + pady, Right(room) - padx, Bottom(room) - pady)
  /\ AllApart(frames, 0) /\ LargeEnough(frames, items)

\* The sizes that widgets want are numbers.
LEMMA SizesOfItems ==
  ASSUME NEW items \in Seq(Wanted)
  PROVE  /\ Len(items) \in Nat /\ DOMAIN items = 1 .. Len(items)
         /\ \A i \in 1 .. Len(items) : items[i].w \in Nat /\ items[i].h \in Nat
         /\ Widths(items) \in Seq(Nat) /\ Len(Widths(items)) = Len(items)
         /\ Heights(items) \in Seq(Nat) /\ Len(Heights(items)) = Len(items)
         /\ \A i \in 1 .. Len(items) : /\ Widths(items)[i] = items[i].w
                                       /\ Heights(items)[i] = items[i].h
<1>1. /\ Len(items) \in Nat /\ DOMAIN items = 1 .. Len(items)
      /\ \A i \in 1 .. Len(items) : items[i] \in Wanted
  OBVIOUS
<1>2. \A i \in 1 .. Len(items) : items[i].w \in Nat /\ items[i].h \in Nat
  BY <1>1 DEF Wanted
<1> QED
  BY <1>1, <1>2 DEF Widths, Heights

\* Below each other (layout_vstack and measure_vstack of ui/panel.c).
LEMMA VStackFits ==
  ASSUME NEW items \in Seq(Wanted), items # <<>>, NEW gap \in Nat, NEW pad \in Nat,
         NEW room \in Frames, room.w = MeasuredVStack(items, gap, pad).w,
         room.h = MeasuredVStack(items, gap, pad).h
  PROVE  FitIn(VStack(items, gap, pad, room), items, room, pad, 0)
<1> DEFINE n == Len(items)
           y == Sums(Spaced(Heights(items), gap))
           widest == Widest(items, DOMAIN items)
           frames == VStack(items, gap, pad, room)
           ax == room.x
           ay == room.y
<1>1. /\ n \in Nat /\ n > 0 /\ DOMAIN items = 1 .. n
      /\ \A i \in 1 .. n : items[i].w \in Nat /\ items[i].h \in Nat
  BY SizesOfItems
<1>2. /\ y[0] = 0 /\ \A k \in 0 .. n : y[k] \in Nat
      /\ y[n - 1] + items[n].h = y[n]
      /\ \A i \in 1 .. n : y[i - 1] + items[i].h <= y[n]
      /\ \A i \in 1 .. n : \A j \in i + 1 .. n : y[i - 1] + items[i].h <= y[j - 1]
  <2>1. n \in 1 .. n /\ \A i \in 1 .. n : Heights(items)[i] = items[i].h
    BY <1>1, SizesOfItems
  <2>2. Heights(items) \in Seq(Nat) /\ Len(Heights(items)) = n
    BY SizesOfItems
  <2> DEFINE hs == Heights(items)
             LastEnds == n > 0 => y[n - 1] + hs[n] = y[n]
             AllWithin == \A i \in 1 .. n : y[i - 1] + hs[i] <= y[n]
             InOrder == \A i \in 1 .. n : \A j \in i + 1 .. n : y[i - 1] + hs[i] <= y[j - 1]
  <2>3. y[0] = 0 /\ (\A k \in 0 .. n : y[k] \in Nat) /\ LastEnds /\ AllWithin /\ InOrder
    BY <2>2, SpacedSums
  <2> HIDE DEF hs, y
  <2> QED
    BY <1>1, <2>1, <2>3 DEF hs
<1>3. widest \in Nat /\ \A i \in 1 .. n : items[i].w <= widest
  BY <1>1, WidestIs
<1>4. room.w = widest + 2 * pad /\ room.h = y[n]
  BY DEF MeasuredVStack, Sized, Padded
<1>5. /\ DOMAIN frames = 1 .. n
      /\ \A i \in 1 .. n : frames[i] = Framed(ax + pad, ay + y[i - 1], room.w - 2 * pad, items[i].h)
  BY <1>1 DEF VStack
<1> HIDE DEF n, y, widest, frames
<1>6. ax \in Int /\ ay \in Int /\ Right(room) = ax + widest + 2 * pad /\ Bottom(room) = ay + y[n]
      /\ room.w - 2 * pad = widest
  BY <1>1, <1>2, <1>3, <1>4 DEF Frames, Right, Bottom
<1> DEFINE x == ax + pad
           right == ax + pad + widest
           bottom == ay + y[n]
<1>7. x \in Int /\ right \in Int /\ bottom \in Int /\ x <= right /\ y[n] \in Nat /\ x + widest = right
  <2>1. n \in 0 .. n
    BY <1>1
  <2> HIDE DEF ax, ay
  <2> QED
    BY <1>2, <1>3, <1>6, <2>1
<1>8. \A i \in 1 .. n : frames[i] = Framed(x, ay + y[i - 1], widest, items[i].h)
  BY <1>5, <1>6
<1>9. ay + 0 = ay /\ Right(room) - pad = right /\ Bottom(room) - 0 = bottom
  <2> HIDE DEF ax, ay
  <2> QED
    BY <1>3, <1>6, <1>7
<1> HIDE DEF x, right, bottom, ay
<1>10. \A i \in 1 .. n : y[i - 1] \in Nat /\ items[i].h \in Nat
  <2> TAKE i \in 1 .. n
  <2>1. i - 1 \in 0 .. n /\ items[i].h \in Nat
    BY <1>1
  <2> QED
    BY <1>2, <2>1
<1>11. ay \in Int /\ bottom = ay + y[n]
  BY <1>6 DEF bottom
<1>12. \A i \in 1 .. n : /\ frames[i] \in Frames
                         /\ frames[i].x = x /\ frames[i].y = ay + y[i - 1]
                         /\ frames[i].w = widest /\ frames[i].h = items[i].h
                         /\ Right(frames[i]) = right
                         /\ Bottom(frames[i]) = ay + y[i - 1] + items[i].h
  <2> TAKE i \in 1 .. n
  <2>1. frames[i] = Framed(x, ay + y[i - 1], widest, items[i].h)
    BY <1>8
  <2>2. /\ x \in Int /\ ay + y[i - 1] \in Int /\ widest \in Int /\ items[i].h \in Int
        /\ x + widest = right
    BY <1>3, <1>7, <1>10, <1>11
  <2> QED
    BY ONLY <2>1, <2>2 DEF Framed, Right, Bottom, Frames
<1>13. Fills(frames, x, ay, right, bottom)
  <2>1. \A i \in 1 .. n :
           /\ x <= frames[i].x /\ ay <= frames[i].y
           /\ Right(frames[i]) <= right /\ Bottom(frames[i]) <= bottom
    <3> TAKE i \in 1 .. n
    <3>1. /\ frames[i].x = x /\ frames[i].y = ay + y[i - 1] /\ Right(frames[i]) = right
          /\ Bottom(frames[i]) = ay + y[i - 1] + items[i].h
      BY <1>12
    <3>2. /\ y[i - 1] + items[i].h <= y[n] /\ y[i - 1] \in Nat /\ items[i].h \in Nat
      BY <1>2, <1>10
    <3>3. x <= frames[i].x /\ Right(frames[i]) <= right
      BY <1>7, <3>1
    <3>4. ay <= frames[i].y /\ Bottom(frames[i]) <= bottom
      <4> DEFINE before == y[i - 1]
                 high == items[i].h
                 all == y[n]
      <4>1. before \in Nat /\ high \in Nat /\ all \in Nat /\ before + high <= all
        BY <1>7, <3>2
      <4>2. frames[i].y = ay + before /\ Bottom(frames[i]) = ay + before + high
        BY <3>1
      <4>3. ay \in Int /\ bottom = ay + all
        BY <1>11
      <4> HIDE DEF before, high, all
      <4>4. ay <= frames[i].y
        BY ONLY <4>1, <4>2, <4>3
      <4>5. Bottom(frames[i]) <= bottom
        BY ONLY <4>1, <4>2, <4>3
      <4> QED
        BY <4>4, <4>5
    <3> QED
      BY <3>3, <3>4
  <2>2. 1 \in 1 .. n /\ n \in 1 .. n /\ 1 - 1 = 0
    BY <1>1
  <2>3. frames[1].x = x /\ frames[1].y = ay + y[0] /\ Right(frames[1]) = right
    BY <1>12, <2>2
  <2>4. frames[1].y = ay
    BY ONLY <2>3, <1>2, <1>11
  <2>5. Bottom(frames[n]) = bottom
    <3>1. /\ Bottom(frames[n]) = ay + y[n - 1] + items[n].h
          /\ y[n - 1] \in Nat /\ items[n].h \in Nat /\ y[n - 1] + items[n].h = y[n]
      BY <1>2, <1>10, <1>12, <2>2
    <3> QED
      BY ONLY <1>11, <3>1
  <2> QED
    BY <2>4, <2>5, <1>5, <1>7, <1>11, <1>12, <2>1, <2>2, <2>3, FramesFill
<1>14. AllApart(frames, 0)
  <2>1. \A k, l \in 1 .. n : k < l => Bottom(frames[k]) <= frames[l].y
    <3> TAKE k, l \in 1 .. n
    <3> SUFFICES ASSUME k < l PROVE Bottom(frames[k]) <= frames[l].y
      OBVIOUS
    <3>1. l \in k + 1 .. n
      BY <1>1
    <3>2. y[k - 1] + items[k].h <= y[l - 1] /\ y[k - 1] \in Nat /\ items[k].h \in Nat /\ y[l - 1] \in Nat
      BY <1>2, <1>10, <3>1
    <3>3. Bottom(frames[k]) = ay + y[k - 1] + items[k].h /\ frames[l].y = ay + y[l - 1]
      BY <1>12
    <3> DEFINE before == y[k - 1]
               high == items[k].h
               after == y[l - 1]
    <3>4. /\ before \in Int /\ high \in Int /\ after \in Int /\ before + high <= after /\ ay \in Int
      BY <1>11, <3>2
    <3>5. Bottom(frames[k]) = ay + before + high /\ frames[l].y = ay + after
      BY <3>3
    <3> HIDE DEF before, high, after
    <3> QED
      BY ONLY <3>4, <3>5
  <2> SUFFICES ASSUME NEW i \in 1 .. n, NEW j \in 1 .. n, i # j
               PROVE  Apart(frames[i], frames[j], 0)
    BY <1>5 DEF AllApart
  <2>2. i < j \/ j < i
    BY <1>1
  <2> QED
    BY <2>1, <2>2 DEF Apart
<1>15. LargeEnough(frames, items)
  <2>1. \A i \in 1 .. n : frames[i].w >= items[i].w /\ frames[i].h >= items[i].h
    BY <1>1, <1>3, <1>12
  <2> QED
    BY <1>1, <2>1 DEF LargeEnough
<1> QED
  BY <1>9, <1>13, <1>14, <1>15, Zenon DEF FitIn, x, ay, ax, frames

\* Side by side (layout_hstack and measure_hstack).
LEMMA HStackFits ==
  ASSUME NEW items \in Seq(Wanted), items # <<>>, NEW gap \in Nat, NEW pad \in Nat,
         NEW room \in Frames, room.w = MeasuredHStack(items, gap, pad).w,
         room.h = MeasuredHStack(items, gap, pad).h
  PROVE  FitIn(HStack(items, gap, pad, room), items, room, 0, pad)
<1> DEFINE n == Len(items)
           x == Sums(Spaced(Widths(items), gap))
           highest == Highest(items, DOMAIN items)
           frames == HStack(items, gap, pad, room)
           ax == room.x
           ay == room.y
<1>1. /\ n \in Nat /\ n > 0 /\ DOMAIN items = 1 .. n
      /\ \A i \in 1 .. n : items[i].w \in Nat /\ items[i].h \in Nat
  BY SizesOfItems
<1>2. /\ x[0] = 0 /\ \A k \in 0 .. n : x[k] \in Nat
      /\ x[n - 1] + items[n].w = x[n]
      /\ \A i \in 1 .. n : x[i - 1] + items[i].w <= x[n]
      /\ \A i \in 1 .. n : \A j \in i + 1 .. n : x[i - 1] + items[i].w <= x[j - 1]
  <2>1. n \in 1 .. n /\ \A i \in 1 .. n : Widths(items)[i] = items[i].w
    BY <1>1, SizesOfItems
  <2>2. Widths(items) \in Seq(Nat) /\ Len(Widths(items)) = n
    BY SizesOfItems
  <2> DEFINE ws == Widths(items)
             LastEnds == n > 0 => x[n - 1] + ws[n] = x[n]
             AllWithin == \A i \in 1 .. n : x[i - 1] + ws[i] <= x[n]
             InOrder == \A i \in 1 .. n : \A j \in i + 1 .. n : x[i - 1] + ws[i] <= x[j - 1]
  <2>3. x[0] = 0 /\ (\A k \in 0 .. n : x[k] \in Nat) /\ LastEnds /\ AllWithin /\ InOrder
    BY <2>2, SpacedSums
  <2> HIDE DEF ws, x
  <2> QED
    BY <1>1, <2>1, <2>3 DEF ws
<1>3. highest \in Nat /\ \A i \in 1 .. n : items[i].h <= highest
  BY <1>1, WidestIs
<1>4. room.h = highest + 2 * pad /\ room.w = x[n]
  BY DEF MeasuredHStack, Sized, Padded
<1>5. /\ DOMAIN frames = 1 .. n
      /\ \A i \in 1 .. n : frames[i] = Framed(ax + x[i - 1], ay + pad, items[i].w, room.h - 2 * pad)
  BY <1>1 DEF HStack
<1> HIDE DEF n, x, highest, frames
<1>6. ax \in Int /\ ay \in Int /\ Right(room) = ax + x[n] /\ Bottom(room) = ay + highest + 2 * pad
      /\ room.h - 2 * pad = highest
  BY <1>1, <1>2, <1>3, <1>4 DEF Frames, Right, Bottom
<1> DEFINE y == ay + pad
           right == ax + x[n]
           bottom == ay + pad + highest
<1>7. y \in Int /\ right \in Int /\ bottom \in Int /\ y <= bottom /\ x[n] \in Nat /\ y + highest = bottom
  <2>1. n \in 0 .. n
    BY <1>1
  <2> HIDE DEF ax, ay
  <2> QED
    BY <1>2, <1>3, <1>6, <2>1
<1>8. \A i \in 1 .. n : frames[i] = Framed(ax + x[i - 1], y, items[i].w, highest)
  BY <1>5, <1>6
<1>9. ax + 0 = ax /\ Right(room) - 0 = right /\ Bottom(room) - pad = bottom
  <2> HIDE DEF ax, ay
  <2> QED
    BY <1>3, <1>6, <1>7
<1> HIDE DEF y, right, bottom, ax
<1>10. \A i \in 1 .. n : x[i - 1] \in Nat /\ items[i].w \in Nat
  <2> TAKE i \in 1 .. n
  <2>1. i - 1 \in 0 .. n /\ items[i].w \in Nat
    BY <1>1
  <2> QED
    BY <1>2, <2>1
<1>11. ax \in Int /\ right = ax + x[n]
  BY <1>6 DEF right
<1>12. \A i \in 1 .. n : /\ frames[i] \in Frames
                         /\ frames[i].x = ax + x[i - 1] /\ frames[i].y = y
                         /\ frames[i].w = items[i].w /\ frames[i].h = highest
                         /\ Right(frames[i]) = ax + x[i - 1] + items[i].w
                         /\ Bottom(frames[i]) = bottom
  <2> TAKE i \in 1 .. n
  <2>1. frames[i] = Framed(ax + x[i - 1], y, items[i].w, highest)
    BY <1>8
  <2>2. /\ y \in Int /\ ax + x[i - 1] \in Int /\ highest \in Int /\ items[i].w \in Int
        /\ y + highest = bottom
    BY <1>3, <1>7, <1>10, <1>11
  <2> QED
    BY ONLY <2>1, <2>2 DEF Framed, Right, Bottom, Frames
<1>13. Fills(frames, ax, y, right, bottom)
  <2>1. \A i \in 1 .. n :
           /\ ax <= frames[i].x /\ y <= frames[i].y
           /\ Right(frames[i]) <= right /\ Bottom(frames[i]) <= bottom
    <3> TAKE i \in 1 .. n
    <3>1. /\ frames[i].y = y /\ frames[i].x = ax + x[i - 1] /\ Bottom(frames[i]) = bottom
          /\ Right(frames[i]) = ax + x[i - 1] + items[i].w
      BY <1>12
    <3>2. /\ x[i - 1] + items[i].w <= x[n] /\ x[i - 1] \in Nat /\ items[i].w \in Nat
      BY <1>2, <1>10
    <3>3. ax <= frames[i].x
      BY ONLY <1>11, <3>1, <3>2
    <3>4. Right(frames[i]) <= right
      <4> DEFINE before == x[i - 1]
                 wide == items[i].w
                 all == x[n]
      <4>1. /\ before \in Int /\ wide \in Int /\ all \in Int /\ before + wide <= all /\ ax \in Int
            /\ Right(frames[i]) = ax + before + wide /\ right = ax + all
        <5>1. before \in Int /\ wide \in Int /\ all \in Int /\ before + wide <= all
          BY <1>7, <3>2
        <5>2. ax \in Int /\ right = ax + all
          BY <1>11
        <5>3. Right(frames[i]) = ax + before + wide
          BY <3>1
        <5> QED
          BY <5>1, <5>2, <5>3
      <4> HIDE DEF before, wide, all
      <4> QED
        BY ONLY <4>1
    <3>5. y <= frames[i].y /\ Bottom(frames[i]) <= bottom
      BY ONLY <1>7, <3>1
    <3> QED
      BY <3>3, <3>4, <3>5
  <2>2. 1 \in 1 .. n /\ n \in 1 .. n /\ 1 - 1 = 0
    BY <1>1
  <2>3. frames[1].y = y /\ frames[1].x = ax + x[0] /\ Bottom(frames[1]) = bottom
    BY <1>12, <2>2
  <2>4. frames[1].x = ax
    BY ONLY <2>3, <1>2, <1>11
  <2>5. Right(frames[n]) = right
    <3>1. /\ Right(frames[n]) = ax + x[n - 1] + items[n].w
          /\ x[n - 1] \in Nat /\ items[n].w \in Nat /\ x[n - 1] + items[n].w = x[n]
      BY <1>2, <1>10, <1>12, <2>2
    <3> QED
      BY ONLY <1>11, <3>1
  <2> QED
    BY <2>4, <2>5, <1>5, <1>7, <1>11, <1>12, <2>1, <2>2, <2>3, FramesFill
<1>14. AllApart(frames, 0)
  <2>1. \A k, l \in 1 .. n : k < l => Right(frames[k]) <= frames[l].x + 0
    <3> TAKE k, l \in 1 .. n
    <3> SUFFICES ASSUME k < l PROVE Right(frames[k]) <= frames[l].x + 0
      OBVIOUS
    <3>1. l \in k + 1 .. n
      BY <1>1
    <3>2. x[k - 1] + items[k].w <= x[l - 1] /\ x[k - 1] \in Nat /\ items[k].w \in Nat /\ x[l - 1] \in Nat
      BY <1>2, <1>10, <3>1
    <3>3. Right(frames[k]) = ax + x[k - 1] + items[k].w /\ frames[l].x = ax + x[l - 1]
      BY <1>12
    <3> DEFINE before == x[k - 1]
               wide == items[k].w
               after == x[l - 1]
    <3>4. /\ before \in Int /\ wide \in Int /\ after \in Int /\ before + wide <= after /\ ax \in Int
      BY <1>11, <3>2
    <3>5. Right(frames[k]) = ax + before + wide /\ frames[l].x = ax + after
      BY <3>3
    <3> HIDE DEF before, wide, after
    <3> QED
      BY ONLY <3>4, <3>5
  <2> SUFFICES ASSUME NEW i \in 1 .. n, NEW j \in 1 .. n, i # j
               PROVE  Apart(frames[i], frames[j], 0)
    BY <1>5 DEF AllApart
  <2>2. i < j \/ j < i
    BY <1>1
  <2> QED
    BY <2>1, <2>2 DEF Apart
<1>15. LargeEnough(frames, items)
  <2>1. \A i \in 1 .. n : frames[i].w >= items[i].w /\ frames[i].h >= items[i].h
    BY <1>1, <1>3, <1>12
  <2> QED
    BY <1>1, <2>1 DEF LargeEnough
<1> QED
  BY <1>9, <1>13, <1>14, <1>15, Zenon DEF FitIn, y, ay, ax, frames

\* With the first widget as wide as there is room the others keep their widths, and
\* neighbours share one pixel.
LEMMA HStackFillFits ==
  ASSUME NEW items \in Seq(Wanted), items # <<>>, NEW gap \in Nat, NEW pad \in Nat,
         \A i \in DOMAIN items : items[i].w > 0,
         NEW room \in Frames, room.w = MeasuredHStack(items, gap, pad).w,
         room.h = MeasuredHStack(items, gap, pad).h
  PROVE  LET filled == HStackFill(items, pad, room)
         IN  /\ Fills(filled, room.x, room.y + pad, Right(room), Bottom(room) - pad)
             /\ AllApart(filled, 1)
<1> DEFINE n == Len(items)
           spaced == Spaced(Widths(items), gap)
           others == [i \in DOMAIN items |-> IF i = 1 THEN 0 ELSE items[i].w - 1]
           fixed == Sums(others)[n]
           width == [i \in DOMAIN items |-> Max({1, IF i = 1 THEN room.w - fixed ELSE items[i].w})]
           steps == [i \in DOMAIN items |-> width[i] - 1]
           x == Sums(steps)
           highest == Highest(items, DOMAIN items)
           frames == HStackFill(items, pad, room)
           ax == room.x
           ay == room.y
<1>1. /\ n \in Nat /\ n > 0 /\ DOMAIN items = 1 .. n /\ 1 \in 1 .. n /\ n \in 1 .. n
      /\ \A i \in 1 .. n : items[i].w \in Nat \ {0} /\ items[i].h \in Nat
  BY SizesOfItems
<1>2. /\ spaced \in Seq(Int) /\ Len(spaced) = n
      /\ \A i \in 1 .. n : spaced[i] >= items[i].w
  <2>1. Widths(items) \in Seq(Nat) /\ Len(Widths(items)) = n
        /\ \A i \in 1 .. n : Widths(items)[i] = items[i].w
    BY SizesOfItems
  <2>2. spaced = [i \in 1 .. n |-> Widths(items)[i] + (IF i < n THEN gap ELSE 0)]
    BY <2>1 DEF Spaced
  <2>3. \A i \in 1 .. n : spaced[i] \in Int /\ spaced[i] >= items[i].w
    <3> TAKE i \in 1 .. n
    <3>1. Widths(items)[i] = items[i].w /\ items[i].w \in Nat
      BY <1>1, <2>1
    <3>2. spaced[i] = items[i].w + (IF i < n THEN gap ELSE 0)
      BY <2>2, <3>1
    <3>3. CASE i < n
      <4>1. spaced[i] = items[i].w + gap
        BY <3>2, <3>3
      <4> QED
        BY ONLY <3>1, <4>1, gap \in Nat
    <3>4. CASE ~(i < n)
      <4>1. spaced[i] = items[i].w + 0
        BY <3>2, <3>4
      <4> QED
        BY ONLY <3>1, <4>1
    <3> QED
      BY <3>3, <3>4
  <2> HIDE DEF spaced, n
  <2> QED
    BY <1>1, <2>2, <2>3
<1>3. /\ others \in Seq(Nat) /\ others \in Seq(Int) /\ Len(others) = n
      /\ others[1] = 0 /\ \A i \in 2 .. n : others[i] = items[i].w - 1
  BY <1>1
<1>4. room.w = Sums(spaced)[n] /\ room.h = highest + 2 * pad /\ highest \in Nat
  BY <1>1, WidestIs DEF MeasuredHStack, Sized, Padded
<1>5. fixed \in Int /\ room.w \in Int /\ room.w - fixed >= 1
  <2>1. /\ 1 \in Int /\ n >= 1 /\ spaced[1] >= others[1] + 1
        /\ \A i \in 2 .. n : spaced[i] >= others[i]
    <3>1. spaced[1] >= items[1].w /\ items[1].w \in Nat \ {0}
      BY <1>1, <1>2
    <3>2. spaced[1] \in Int /\ \A i \in 2 .. n : i \in 1 .. n /\ spaced[i] \in Int
      BY <1>1, <1>2
    <3>3. \A i \in 2 .. n : spaced[i] >= items[i].w /\ items[i].w \in Nat \ {0}
      BY <1>1, <1>2
    <3>4. others[1] = 0 /\ \A i \in 2 .. n : others[i] = items[i].w - 1
      BY <1>3
    <3> HIDE DEF spaced, others, n
    <3>5. spaced[1] >= others[1] + 1
      BY ONLY <3>1, <3>2, <3>4
    <3>6. \A i \in 2 .. n : spaced[i] >= others[i]
      <4> TAKE i \in 2 .. n
      <4>1. /\ spaced[i] >= items[i].w /\ items[i].w \in Nat \ {0} /\ spaced[i] \in Int
            /\ others[i] = items[i].w - 1
        BY <3>2, <3>3, <3>4
      <4> QED
        BY ONLY <4>1
    <3> QED
      BY <1>1, <3>5, <3>6
  <2> HIDE DEF spaced, others
  <2>2. \A k \in 1 .. n : Sums(spaced)[k] >= Sums(others)[k] + 1
    BY <1>2, <1>3, <2>1, SumsCompare
  <2>3. Sums(spaced)[n] \in Int /\ Sums(others)[n] \in Int
    <3>1. n \in 0 .. n
      BY <1>1
    <3> QED
      BY <1>2, <1>3, <3>1, SumsAre
  <2> HIDE DEF n
  <2>4. fixed \in Int /\ room.w \in Int /\ room.w >= fixed + 1
    BY <1>1, <1>4, <2>2, <2>3
  <2> HIDE DEF fixed
  <2> QED
    BY ONLY <2>4
<1> HIDE DEF fixed, others, spaced, highest
<1>6. /\ width[1] = room.w - fixed /\ \A i \in 2 .. n : width[i] = items[i].w
      /\ \A i \in 1 .. n : width[i] \in Nat \ {0}
  <2>1. width[1] = Max({1, room.w - fixed})
    BY <1>1
  <2>2. \A i \in 2 .. n : width[i] = Max({1, items[i].w}) /\ items[i].w \in Nat \ {0} /\ i \in 1 .. n
    <3> TAKE i \in 2 .. n
    <3>1. i \in 1 .. n /\ i # 1
      BY <1>1
    <3> QED
      BY <1>1, <3>1
  <2>3. Max({1, room.w - fixed}) = room.w - fixed
    <3> DEFINE v == room.w - fixed
    <3>1. v \in Int /\ v >= 1
      BY <1>5
    <3> HIDE DEF v
    <3>2. Max({1, v}) = IF 1 >= v THEN 1 ELSE v
      BY <3>1, MaxOfTwo
    <3>3. Max({1, v}) = v
      BY <3>1, <3>2
    <3> QED
      BY <3>3 DEF v
  <2>4. \A i \in 2 .. n : Max({1, items[i].w}) = items[i].w
    <3> TAKE i \in 2 .. n
    <3> DEFINE v == items[i].w
    <3>1. v \in Int /\ v >= 1
      <4>1. v \in Nat \ {0}
        BY <2>2
      <4> HIDE DEF v
      <4> QED
        BY <4>1
    <3> HIDE DEF v
    <3>2. Max({1, v}) = IF 1 >= v THEN 1 ELSE v
      BY <3>1, MaxOfTwo
    <3>3. Max({1, v}) = v
      BY <3>1, <3>2
    <3> QED
      BY <3>3 DEF v
  <2> HIDE DEF width
  <2>5. width[1] \in Nat \ {0}
    BY <1>5, <2>1, <2>3
  <2>6. \A i \in 1 .. n : i = 1 \/ i \in 2 .. n
    BY <1>1
  <2> QED
    BY <2>4, <2>5, <2>6, <2>1, <2>2, <2>3
<1>7. /\ steps \in Seq(Nat) /\ steps \in Seq(Int) /\ Len(steps) = n
      /\ \A i \in 1 .. n : steps[i] = width[i] - 1
  <2> HIDE DEF width
  <2> QED
    BY <1>1, <1>6
<1>8. DOMAIN frames = 1 .. n
      /\ \A i \in 1 .. n : frames[i] = Framed(ax + x[i - 1], ay + pad, width[i], room.h - 2 * pad)
  <2>1. frames = [i \in DOMAIN items |->
                    Framed(ax + x[i - 1], ay + pad, width[i], room.h - 2 * pad)]
    BY Zenon DEF HStackFill, fixed, others
  <2> HIDE DEF x, width, frames, ax, ay
  <2> QED
    BY <1>1, <2>1
<1> HIDE DEF n, width, steps, frames
<1>9. /\ x[0] = 0 /\ \A k \in 0 .. n : x[k] \in Nat
      /\ \A i \in 1 .. n : x[i - 1] + width[i] = x[i] + 1
      /\ \A i \in 0 .. n : \A j \in i .. n : x[i] <= x[j]
  <2>1. /\ x[0] = 0 /\ \A k \in 0 .. n : x[k] \in Int
        /\ \A k \in 1 .. n : x[k] = x[k - 1] + steps[k]
    BY <1>7, SumsAre
  <2>2. \A i \in 0 .. n : \A j \in i .. n : x[i] <= x[j]
    BY <1>7, SumsGrow
  <2> HIDE DEF x
  <2>3. \A k \in 0 .. n : x[k] \in Nat
    <3> TAKE k \in 0 .. n
    <3>1. 0 \in 0 .. n /\ k \in 0 .. n
      BY <1>1
    <3>2. x[0] <= x[k] /\ x[k] \in Int
      BY <2>1, <2>2, <3>1
    <3> QED
      BY <2>1, <3>2
  <2>4. \A i \in 1 .. n : x[i - 1] + width[i] = x[i] + 1
    <3> TAKE i \in 1 .. n
    <3>1. x[i] = x[i - 1] + (width[i] - 1) /\ i - 1 \in 0 .. n /\ width[i] \in Nat
      <4>1. i - 1 \in 0 .. n
        BY <1>1
      <4>2. steps[i] = width[i] - 1 /\ width[i] \in Nat
        BY <1>6, <1>7
      <4> QED
        BY <2>1, <4>1, <4>2
    <3>2. x[i - 1] \in Nat
      BY <2>3, <3>1
    <3> QED
      BY <3>1, <3>2
  <2> QED
    BY <2>4, <2>1, <2>2, <2>3
<1>10. x[n] + 1 = room.w
  <2> DEFINE c == room.w - fixed - 1
  <2>1. c \in Int /\ steps[1] = c /\ others[1] = 0
    BY <1>1, <1>3, <1>5, <1>6, <1>7
  <2>2. \A i \in 2 .. n : steps[i] = others[i] /\ steps[i] \in Int
    <3> TAKE i \in 2 .. n
    <3>1. i \in 1 .. n
      BY <1>1
    <3>2. steps[i] = width[i] - 1 /\ width[i] = items[i].w /\ others[i] = items[i].w - 1
      BY <1>3, <1>6, <1>7, <3>1
    <3>3. items[i].w \in Nat
      BY <1>1, <3>1
    <3> QED
      BY ONLY <3>2, <3>3
  <2> HIDE DEF c
  <2>3. /\ steps[1] >= others[1] + c /\ others[1] >= steps[1] + (-c) /\ -c \in Int /\ n >= 1
        /\ \A i \in 2 .. n : steps[i] >= others[i] /\ others[i] >= steps[i]
    BY <1>1, <2>1, <2>2
  <2>4. \A k \in 1 .. n : Sums(steps)[k] >= Sums(others)[k] + c
    BY <1>3, <1>7, <2>1, <2>3, SumsCompare
  <2>5. \A k \in 1 .. n : Sums(others)[k] >= Sums(steps)[k] + (-c)
    BY <1>3, <1>7, <2>1, <2>3, SumsCompare
  <2>6. x[n] \in Int
    BY <1>1, <1>9
  <2>7. x[n] >= fixed + c /\ fixed >= x[n] + (-c)
    <3>1. Sums(steps)[n] >= Sums(others)[n] + c
      BY <1>1, <2>4
    <3>2. Sums(others)[n] >= Sums(steps)[n] + (-c)
      BY <1>1, <2>5
    <3> QED
      BY <3>1, <3>2, Zenon DEF fixed
  <2>8. fixed \in Int /\ room.w \in Int /\ c = room.w - fixed - 1
    BY <1>5 DEF c
  <2> HIDE DEF x
  <2> DEFINE all == x[n]
             wide == room.w
  <2>9. /\ all \in Int /\ wide \in Int /\ fixed \in Int /\ c \in Int /\ c = wide - fixed - 1
        /\ all >= fixed + c /\ fixed >= all + (-c)
    BY <2>1, <2>6, <2>7, <2>8
  <2> HIDE DEF all, wide
  <2>10. all + 1 = wide
    BY ONLY <2>9
  <2> QED
    BY <2>10 DEF all, wide
<1> DEFINE y == ay + pad
           right == ax + room.w
           bottom == ay + pad + highest
<1>11. /\ ax \in Int /\ ay \in Int /\ Right(room) = right /\ Bottom(room) - pad = bottom
       /\ y \in Int /\ right \in Int /\ bottom \in Int /\ y + highest = bottom
       /\ room.h - 2 * pad = highest
  <2> DEFINE high == room.h
  <2>1. ax \in Int /\ ay \in Int
    BY DEF Frames
  <2>2. room.w \in Int /\ high = highest + 2 * pad /\ highest \in Nat
    BY <1>4, <1>5
  <2>3. Right(room) = ax + room.w /\ Bottom(room) = ay + high
    BY DEF Right, Bottom
  <2> HIDE DEF ax, ay, high, x
  <2>4. ay + high - pad = ay + pad + highest /\ high - 2 * pad = highest
    <3> DEFINE least == highest
    <3>1. high = least + 2 * pad /\ least \in Int /\ pad \in Int /\ ay \in Int
      BY <2>1, <2>2
    <3> HIDE DEF least
    <3>2. ay + high - pad = ay + pad + least
      BY ONLY <3>1
    <3>3. high - 2 * pad = least
      BY ONLY <3>1
    <3> QED
      BY <3>2, <3>3 DEF least
  <2>5. y \in Int /\ right \in Int /\ bottom \in Int /\ y + highest = bottom
    BY ONLY <2>1, <2>2, pad \in Nat DEF y, right, bottom
  <2>6. right = ax + room.w /\ bottom = ay + pad + highest
    OBVIOUS
  <2> HIDE DEF y, right, bottom
  <2>7. Right(room) = right /\ Bottom(room) - pad = bottom
    <3>1. Right(room) = right
      BY ONLY <2>3, <2>6
    <3>2. Bottom(room) - pad = bottom
      <4> DEFINE under == Bottom(room)
                 least == highest
      <4>1. /\ ay \in Int /\ high \in Int /\ pad \in Int /\ least \in Int
            /\ under = ay + high /\ high = least + 2 * pad /\ bottom = ay + pad + least
        BY <2>6, <2>1, <2>2, <2>3
      <4> HIDE DEF under, least
      <4>2. under - pad = bottom
        BY ONLY <4>1
      <4> QED
        BY <4>2 DEF under
    <3> QED
      BY <3>1, <3>2, Zenon
  <2>8. room.h - 2 * pad = highest
    BY <2>4 DEF high
  <2> QED
    BY <2>1, <2>5, <2>7, <2>8, Zenon
<1> HIDE DEF x, y, right, bottom, ax, ay
<1>12. right = ax + x[n] + 1 /\ x[n] \in Nat
  <2>1. n \in 0 .. n
    BY <1>1
  <2>2. x[n] \in Nat /\ right = ax + room.w
    BY <1>9, <2>1 DEF right
  <2> QED
    BY <1>10, <1>11, <2>2
<1>13. \A i \in 1 .. n : x[i - 1] \in Nat /\ x[i] \in Nat /\ x[i] <= x[n] /\ width[i] \in Nat
                         /\ x[i - 1] + width[i] = x[i] + 1
  <2> TAKE i \in 1 .. n
  <2>1. i - 1 \in 0 .. n /\ i \in 0 .. n /\ n \in i .. n
    BY <1>1
  <2> QED
    BY <1>6, <1>9, <2>1
<1>14. \A i \in 1 .. n : /\ frames[i] \in Frames
                         /\ frames[i].x = ax + x[i - 1] /\ frames[i].y = y
                         /\ Right(frames[i]) = ax + x[i] + 1
                         /\ Bottom(frames[i]) = bottom
  <2> TAKE i \in 1 .. n
  <2>1. frames[i] = Framed(ax + x[i - 1], y, width[i], highest)
    BY <1>8, <1>11 DEF y
  <2>2. /\ y \in Int /\ ax + x[i - 1] \in Int /\ highest \in Int /\ width[i] \in Int
        /\ y + highest = bottom /\ ax + x[i - 1] + width[i] = ax + x[i] + 1
    <3>1. /\ x[i - 1] \in Nat /\ x[i] \in Nat /\ width[i] \in Nat
          /\ x[i - 1] + width[i] = x[i] + 1
      BY <1>13
    <3>2. ax \in Int /\ y \in Int /\ y + highest = bottom /\ highest \in Int
      BY <1>4, <1>11
    <3>3. ax + x[i - 1] \in Int /\ ax + x[i - 1] + width[i] = ax + x[i] + 1
      <4> DEFINE before == x[i - 1]
                 after == x[i]
                 wide == width[i]
      <4>1. before \in Int /\ after \in Int /\ wide \in Int /\ before + wide = after + 1 /\ ax \in Int
        BY <3>1, <3>2
      <4> HIDE DEF before, after, wide
      <4>2. ax + before \in Int /\ ax + before + wide = ax + after + 1
        BY ONLY <4>1
      <4> QED
        BY <4>2 DEF before, after, wide
    <3> QED
      BY <3>1, <3>2, <3>3
  <2> QED
    BY ONLY <2>1, <2>2 DEF Framed, Right, Bottom, Frames
<1>15. Fills(frames, ax, y, right, bottom)
  <2>1. \A i \in 1 .. n :
           /\ ax <= frames[i].x /\ y <= frames[i].y
           /\ Right(frames[i]) <= right /\ Bottom(frames[i]) <= bottom
    <3> TAKE i \in 1 .. n
    <3>1. /\ frames[i].y = y /\ frames[i].x = ax + x[i - 1] /\ Bottom(frames[i]) = bottom
          /\ Right(frames[i]) = ax + x[i] + 1
      BY <1>14
    <3>2. x[i] <= x[n] /\ x[i - 1] \in Nat /\ x[i] \in Nat
      BY <1>13
    <3>3. ax \in Int /\ right = ax + x[n] + 1 /\ x[n] \in Nat
      BY <1>11, <1>12
    <3>4. ax <= frames[i].x
      BY ONLY <3>1, <3>2, <3>3
    <3>5. Right(frames[i]) <= right
      BY ONLY <3>1, <3>2, <3>3
    <3>6. y <= frames[i].y /\ Bottom(frames[i]) <= bottom
      BY <1>11, <3>1
    <3> QED
      BY <3>4, <3>5, <3>6
  <2>2. 1 - 1 = 0
    OBVIOUS
  <2>3. frames[1].y = y /\ frames[1].x = ax + x[0] /\ Bottom(frames[1]) = bottom
    BY <1>1, <1>14, <2>2
  <2>4. frames[1].x = ax
    BY ONLY <2>3, <1>9, <1>11
  <2>5. Right(frames[n]) = right
    BY <1>1, <1>12, <1>14
  <2> QED
    BY <1>1, <1>8, <1>11, <1>14, <2>1, <2>3, <2>4, <2>5, FramesFill
<1>16. AllApart(frames, 1)
  <2>1. \A k, l \in 1 .. n : k < l => Right(frames[k]) <= frames[l].x + 1
    <3> TAKE k, l \in 1 .. n
    <3> SUFFICES ASSUME k < l PROVE Right(frames[k]) <= frames[l].x + 1
      OBVIOUS
    <3>1. k \in 0 .. n /\ l - 1 \in k .. n
      BY <1>1
    <3>2. x[k] <= x[l - 1] /\ x[k] \in Nat /\ x[l - 1] \in Nat
      BY <1>9, <1>13, <3>1
    <3>3. Right(frames[k]) = ax + x[k] + 1 /\ frames[l].x = ax + x[l - 1]
      BY <1>14
    <3> DEFINE before == x[k]
               after == x[l - 1]
    <3>4. before \in Int /\ after \in Int /\ before <= after /\ ax \in Int
      BY <1>11, <3>2
    <3>5. Right(frames[k]) = ax + before + 1 /\ frames[l].x = ax + after
      BY <3>3
    <3> HIDE DEF before, after
    <3> QED
      BY ONLY <3>4, <3>5
  <2> SUFFICES ASSUME NEW i \in 1 .. n, NEW j \in 1 .. n, i # j
               PROVE  Apart(frames[i], frames[j], 1)
    BY <1>8 DEF AllApart
  <2>2. i < j \/ j < i
    BY <1>1
  <2> QED
    BY <2>1, <2>2 DEF Apart
<1> QED
  BY <1>11, <1>15, <1>16, Zenon DEF y, ay, ax, frames

\* With a gap after each but the last, sizes add up to themselves and the gaps.
LEMMA GapsAddUp ==
  ASSUME NEW sizes \in Seq(Nat), NEW gap \in Nat, Len(sizes) >= 1
  PROVE  Sums(Spaced(sizes, gap))[Len(sizes)]
           = Sums(sizes)[Len(sizes)] + Gaps(Len(sizes), gap)
<1> DEFINE n == Len(sizes)
           y == Sums(Spaced(sizes, gap))
           s == Sums(sizes)
           Wrong == {k \in 0 .. n - 1 : ~(y[k] = s[k] + k * gap)}
<1>0. sizes \in Seq(Int) /\ n \in Nat /\ n >= 1 /\ \A k \in 1 .. n : sizes[k] \in Nat
  OBVIOUS
<1>1. /\ s[0] = 0 /\ \A k \in 0 .. n : s[k] \in Int
      /\ \A k \in 1 .. n : s[k] = s[k - 1] + sizes[k]
  BY <1>0, SumsAre
<1>2. /\ y[0] = 0 /\ \A k \in 0 .. n : y[k] \in Nat
      /\ y[n - 1] + sizes[n] = y[n]
      /\ \A i \in 1 .. n - 1 : y[i] = y[i - 1] + sizes[i] + gap
  <2> DEFINE LastEnds == n > 0 => y[n - 1] + sizes[n] = y[n]
             EachStep == \A i \in 1 .. n - 1 : y[i] = y[i - 1] + sizes[i] + gap
  <2>1. y[0] = 0 /\ (\A k \in 0 .. n : y[k] \in Nat) /\ LastEnds /\ EachStep
    BY SpacedSums
  <2> HIDE DEF y
  <2> QED
    BY <1>0, <2>1
<1> HIDE DEF s, y, n
<1>3. Wrong = {}
  <2> SUFFICES ASSUME Wrong # {} PROVE FALSE
    OBVIOUS
  <2>1. Wrong \in SUBSET Nat
    BY <1>0
  <2> HIDE DEF Wrong
  <2>2. PICK m \in Wrong : \A k \in Wrong : m <= k
    BY <2>1, MinIsLeast, Zenon
  <2>3. m \in 0 .. n - 1 /\ ~(y[m] = s[m] + m * gap)
    BY <2>2 DEF Wrong
  <2>4. m # 0
    <3>1. 0 * gap = 0
      BY gap \in Nat
    <3> QED
      BY <1>1, <1>2, <2>3, <3>1
  <2>5. m \in 1 .. n - 1 /\ m - 1 \in 0 .. n - 1 /\ m - 1 \notin Wrong /\ m - 1 \in 0 .. n /\ m \in 1 .. n
    BY <1>0, <2>2, <2>3, <2>4
  <2>6. y[m - 1] = s[m - 1] + (m - 1) * gap
    BY <2>5 DEF Wrong
  <2>7. m \in Int /\ (m - 1) * gap = m * gap - gap
    BY <2>5, gap \in Nat
  <2>8. y[m] = y[m - 1] + sizes[m] + gap /\ s[m] = s[m - 1] + sizes[m]
    BY <1>1, <1>2, <2>5
  <2> DEFINE a == y[m - 1]
             b == s[m - 1]
             p == m * gap
             size == sizes[m]
  <2>9. a \in Int /\ b \in Int /\ p \in Int /\ size \in Int /\ gap \in Int
    <3>1. a \in Int /\ b \in Int
      BY <1>1, <1>2, <2>5
    <3>2. size \in Int /\ gap \in Int
      BY <1>0, <2>5
    <3>3. p \in Int
      BY <2>7, gap \in Nat
    <3> QED
      BY <3>1, <3>2, <3>3
  <2>10. a = b + (p - gap) /\ y[m] = a + size + gap /\ s[m] = b + size
    BY <2>6, <2>7, <2>8
  <2> HIDE DEF a, b, p, size
  <2>11. y[m] = s[m] + p
    BY ONLY <2>9, <2>10
  <2> QED
    BY <2>3, <2>11 DEF p
<1>4. y[n - 1] = s[n - 1] + (n - 1) * gap
  <2>1. n - 1 \in 0 .. n - 1
    BY <1>0
  <2> QED
    BY <1>3, <2>1
<1>5. Gaps(n, gap) = (n - 1) * gap /\ (n - 1) * gap \in Int
  <2>1. n = 1 => (n - 1) * gap = 0
    BY gap \in Nat
  <2>2. (n - 1) * gap \in Int
    BY <1>0, gap \in Nat
  <2> QED
    BY <1>0, <2>1, <2>2 DEF Gaps
<1>6. s[n] = s[n - 1] + sizes[n] /\ s[n - 1] \in Int /\ sizes[n] \in Int
  <2>1. n \in 1 .. n /\ n - 1 \in 0 .. n
    BY <1>0
  <2> QED
    BY <1>0, <1>1, <2>1
<1> DEFINE p == (n - 1) * gap
<1>7. y[n - 1] = s[n - 1] + p /\ Gaps(n, gap) = p /\ p \in Int
  BY <1>4, <1>5
<1> HIDE DEF p
<1>8. y[n] = s[n] + Gaps(n, gap)
  <2>1. y[n] = y[n - 1] + sizes[n]
    BY <1>2
  <2> QED
    BY ONLY <1>6, <1>7, <2>1
<1> QED
  BY <1>8 DEF y, s, n

\* The rows of a form: two widgets in each, but for a last one without a partner.
LEMMA RowsOfForm ==
  ASSUME NEW items \in Seq(Wanted), items # <<>>
  PROVE  LET n == Len(items)
             R == RowsOf(items)
         IN  /\ R \in Nat /\ R > 0
             /\ \A i \in 1 .. n :
                  /\ RowOf(i) \in 1 .. R /\ i \in InRow(items, RowOf(i))
                  /\ i % 2 = 1 => i = 2 * RowOf(i) - 1
                  /\ i % 2 # 1 => i % 2 = 0 /\ i = 2 * RowOf(i)
                  /\ Lone(items, i) => InRow(items, RowOf(i)) = {i}
                  /\ i % 2 = 1 /\ ~Lone(items, i) => i + 1 \in Rights(items) /\ i \in Lefts(items)
                  /\ i % 2 # 1 => i \in Rights(items)
             /\ RowOf(n) = R /\ RowOf(1) = 1 /\ 1 % 2 = 1
             /\ n % 2 = 1 => Lone(items, n)
<1> DEFINE n == Len(items)
<1>1. n \in Nat /\ n > 0 /\ DOMAIN items = 1 .. n
  BY SizesOfItems
<1>2. ASSUME NEW i \in 1 .. n
      PROVE  /\ RowOf(i) \in 1 .. RowsOf(items)
             /\ i % 2 = 1 => i = 2 * RowOf(i) - 1
             /\ i % 2 # 1 => i % 2 = 0 /\ i = 2 * RowOf(i)
  <2>1. RowsOf(items) = (n + 1) \div 2 /\ RowOf(i) = (i + 1) \div 2
    BY DEF RowOf, RowsOf
  <2> HIDE DEF n
  <2>2. i \in Int /\ i >= 1 /\ i <= n /\ n \in Int
    BY <1>1
  <2>3. (i + 1) \div 2 \in 1 .. (n + 1) \div 2
    BY ONLY <2>2
  <2>4. /\ i % 2 = 1 => i = 2 * ((i + 1) \div 2) - 1
        /\ i % 2 # 1 => i % 2 = 0 /\ i = 2 * ((i + 1) \div 2)
    BY ONLY <2>2
  <2> QED
    BY <2>1, <2>3, <2>4
<1>3. ASSUME NEW i \in 1 .. n
      PROVE  i \in InRow(items, RowOf(i))
  <2>1. i <= n
    BY <1>1
  <2>2. i = 2 * RowOf(i) - 1 \/ i = 2 * RowOf(i)
    BY <1>2
  <2> QED
    BY <2>1, <2>2 DEF InRow
<1>4. ASSUME NEW i \in 1 .. n, Lone(items, i)
      PROVE  InRow(items, RowOf(i)) = {i}
  <2>1. i = n /\ i % 2 = 1
    BY <1>4 DEF Lone
  <2>2. i = 2 * RowOf(i) - 1 /\ RowOf(i) \in Nat
    BY <1>1, <1>2, <2>1, SMTT(40) DEF RowOf
  <2>3. 2 * RowOf(i) = n + 1 /\ ~(n + 1 <= n)
    <3> DEFINE r == RowOf(i)
    <3>1. i = 2 * r - 1 /\ r \in Nat /\ i = n /\ n \in Nat
      BY <1>1, <2>1, <2>2
    <3> HIDE DEF r, n
    <3>2. 2 * r = n + 1 /\ ~(n + 1 <= n)
      BY ONLY <3>1
    <3> QED
      BY <3>2 DEF r
  <2> QED
    BY <1>1, <2>1, <2>2, <2>3 DEF InRow
<1>5. ASSUME NEW i \in 1 .. n, i % 2 = 1, ~Lone(items, i)
      PROVE  i + 1 \in Rights(items) /\ i \in Lefts(items)
  <2>1. i # n
    BY <1>5 DEF Lone
  <2>2. i + 1 \in 1 .. n /\ (i + 1) % 2 = 0
    <3> HIDE DEF n
    <3>1. i \in Int /\ i >= 1 /\ i <= n /\ i # n /\ n \in Int
      BY <1>1, <2>1
    <3>2. i + 1 >= 1 /\ i + 1 <= n /\ i + 1 \in Int
      BY ONLY <3>1
    <3>3. (i + 1) % 2 = 0
      BY ONLY <1>5, <3>1
    <3> QED
      BY <3>2, <3>3
  <2> QED
    BY <1>1, <1>5, <2>2 DEF Rights, Lefts
<1>6. ASSUME NEW i \in 1 .. n, i % 2 # 1
      PROVE  i \in Rights(items)
  BY <1>1, <1>2, <1>6 DEF Rights
<1>7. RowsOf(items) \in Nat /\ RowsOf(items) > 0
  BY <1>1 DEF RowOf, RowsOf
<1>8. RowOf(n) = RowsOf(items) /\ RowOf(1) = 1 /\ 1 % 2 = 1
  BY DEF RowOf, RowsOf
<1>9. n % 2 = 1 => Lone(items, n)
  BY DEF Lone
<1> HIDE DEF n
<1> QED
  BY <1>2, <1>3, <1>4, <1>5, <1>6, <1>7, <1>8, <1>9 DEF n

\* The row of a form is as high as the highest widget in it.
LEMMA RowHeightsAre ==
  ASSUME NEW items \in Seq(Wanted), items # <<>>
  PROVE  LET R == RowsOf(items)
             height == RowHeights(items)
         IN  /\ height \in Seq(Nat) /\ Len(height) = R
             /\ \A r \in 1 .. R : height[r] \in Nat /\ height[r] = Highest(items, InRow(items, r))
             /\ \A r \in 1 .. R : \A i \in InRow(items, r) : items[i].h <= height[r]
<1> DEFINE n == Len(items)
           R == RowsOf(items)
           height == RowHeights(items)
<1>1. n \in Nat /\ n > 0 /\ DOMAIN items = 1 .. n
  BY SizesOfItems
<1>2. R \in Nat /\ R > 0
  BY RowsOfForm
<1>3. \A r \in 1 .. R : InRow(items, r) \in SUBSET (DOMAIN items)
  BY <1>1, <1>2 DEF InRow
<1>4. /\ height \in Seq(Nat) /\ Len(height) = R
      /\ \A r \in 1 .. R : height[r] \in Nat /\ height[r] = Highest(items, InRow(items, r))
      /\ \A r \in 1 .. R : \A i \in InRow(items, r) : items[i].h <= height[r]
  <2>1. \A r \in 1 .. R : /\ Highest(items, InRow(items, r)) \in Nat
                          /\ \A i \in InRow(items, r) : items[i].h <= Highest(items, InRow(items, r))
    BY <1>3, WidestIs
  <2>2. height = [r \in 1 .. R |-> Highest(items, InRow(items, r))]
    BY DEF RowHeights
  <2> HIDE DEF height
  <2> QED
    BY <1>2, <2>1, <2>2
<1> QED
  BY <1>4

\* Where the frame of a widget of a form lies between the sides of its row.
LEMMA FormFrames ==
  ASSUME NEW items \in Seq(Wanted), items # <<>>, NEW gap \in Nat, NEW pad \in Nat,
         NEW room \in Frames, room.w = MeasuredForm(items, gap, pad).w
  PROVE  LET n == Len(items)
             height == RowHeights(items)
             y == Sums(Spaced(height, gap))
             x == room.x + pad
             frames == FormColumns(items, gap, pad, room)
         IN  /\ height \in Seq(Nat) /\ Len(height) = RowsOf(items)
             /\ DOMAIN frames = 1 .. n
             /\ \A i \in 1 .. n :
                  /\ frames[i] \in Frames
                  /\ frames[i].y = room.y + y[RowOf(i) - 1]
                  /\ x <= frames[i].x /\ Right(frames[i]) <= Right(room) - pad
                  /\ items[i].w <= frames[i].w
                  /\ items[i].h <= frames[i].h /\ frames[i].h <= height[RowOf(i)]
                  /\ i % 2 = 1 => frames[i].x = x
                  /\ i % 2 # 1 => /\ frames[i].x = x + LeftWidth(items) + gap
                                  /\ Right(frames[i]) = Right(room) - pad
                                  /\ frames[i].h = height[RowOf(i)]
                  /\ i % 2 = 1 /\ ~Lone(items, i) => Right(frames[i]) = x + LeftWidth(items)
                  /\ Lone(items, i) => /\ Right(frames[i]) = Right(room) - pad
                                       /\ frames[i].h = height[RowOf(i)]
<1> DEFINE n == Len(items)
           R == RowsOf(items)
           height == RowHeights(items)
           y == Sums(Spaced(height, gap))
           x == room.x + pad
           left == LeftWidth(items)
           content == room.w - 2 * pad
           right == Right(room) - pad
           frames == FormColumns(items, gap, pad, room)
           rw == Widest(items, Rights(items))
           paired == IF Rights(items) = {} THEN 0 ELSE left + gap + rw
           lones == {i \in DOMAIN items : Lone(items, i)}
           alone == Widest(items, lones)
<1>1. /\ n \in Nat /\ n > 0 /\ DOMAIN items = 1 .. n
      /\ \A i \in 1 .. n : items[i].w \in Nat /\ items[i].h \in Nat
  BY SizesOfItems
<1>2. /\ left \in Nat /\ \A i \in Lefts(items) : items[i].w <= left
      /\ rw \in Nat /\ \A i \in Rights(items) : items[i].w <= rw
      /\ alone \in Nat /\ \A i \in lones : items[i].w <= alone
  <2>1. /\ Lefts(items) \in SUBSET (DOMAIN items) /\ Rights(items) \in SUBSET (DOMAIN items)
        /\ lones \in SUBSET (DOMAIN items)
    BY DEF Lefts, Rights
  <2> HIDE DEF lones
  <2> QED
    BY <2>1, WidestIs DEF LeftWidth
<1> HIDE DEF lones, left, rw, alone
<1>3. content \in Nat /\ content >= paired /\ content >= alone /\ paired \in Nat
  <2>1. paired \in Nat /\ alone \in Nat
    BY <1>2
  <2>2. room.w = Max({paired, alone}) + 2 * pad
    BY Zenon DEF MeasuredForm, Sized, Padded, paired, alone, lones, left, rw
  <2> HIDE DEF paired
  <2>3. Max({paired, alone}) = IF paired >= alone THEN paired ELSE alone
    BY <2>1, MaxOfTwo
  <2> QED
    BY <2>1, <2>2, <2>3
<1>4. /\ R \in Nat /\ R > 0
      /\ \A i \in 1 .. n :
           /\ RowOf(i) \in 1 .. R /\ i \in InRow(items, RowOf(i))
           /\ i % 2 # 1 => i % 2 = 0
           /\ Lone(items, i) => InRow(items, RowOf(i)) = {i}
           /\ i % 2 = 1 /\ ~Lone(items, i) => i + 1 \in Rights(items) /\ i \in Lefts(items)
           /\ i % 2 # 1 => i \in Rights(items)
  BY RowsOfForm
<1>6. /\ height \in Seq(Nat) /\ Len(height) = R
      /\ \A r \in 1 .. R : height[r] \in Nat /\ height[r] = Highest(items, InRow(items, r))
      /\ \A r \in 1 .. R : \A i \in InRow(items, r) : items[i].h <= height[r]
  BY RowHeightsAre
<1>7. \A i \in 1 .. n : Lone(items, i) => items[i].h = height[RowOf(i)]
  <2> SUFFICES ASSUME NEW i \in 1 .. n, Lone(items, i)
               PROVE  items[i].h = height[RowOf(i)]
    OBVIOUS
  <2>1. InRow(items, RowOf(i)) = {i} /\ RowOf(i) \in 1 .. R
    BY <1>4
  <2>2. {i} \in SUBSET (DOMAIN items)
    BY <1>1
  <2>3. /\ items[i].h <= Highest(items, {i})
        /\ Highest(items, {i}) = 0 \/ Highest(items, {i}) = items[i].h
        /\ Highest(items, {i}) \in Nat
    BY <2>2, WidestIs
  <2>4. items[i].h = Highest(items, {i})
    BY <1>1, <2>3
  <2> QED
    BY <1>6, <2>1, <2>4
<1>8. /\ DOMAIN frames = 1 .. n
      /\ \A i \in 1 .. n : frames[i] =
           IF Lone(items, i) THEN Framed(x, room.y + y[RowOf(i) - 1], content, items[i].h)
           ELSE IF i % 2 = 1 THEN Framed(x, room.y + y[RowOf(i) - 1], left, height[RowOf(i)])
           ELSE Framed(x + left + gap, room.y + y[RowOf(i) - 1], content - left - gap, height[RowOf(i)])
  <2>1. frames = [i \in 1 .. n |->
           IF Lone(items, i) THEN Framed(x, room.y + y[RowOf(i) - 1], content, items[i].h)
           ELSE IF i % 2 = 1 THEN Framed(x, room.y + y[RowOf(i) - 1], left, height[RowOf(i)])
           ELSE Framed(x + left + gap, room.y + y[RowOf(i) - 1], content - left - gap, height[RowOf(i)])]
    <3> HIDE DEF y, height, n
    <3> QED
      BY <1>1, Zenon DEF FormColumns, y, height, left
  <2> HIDE DEF frames, x, y, left, content, height
  <2> QED
    BY <2>1
<1>9. \A r \in 1 .. R : y[r - 1] \in Nat
  <2>1. \A k \in 0 .. R : y[k] \in Nat
    BY <1>6, SpacedSums
  <2> HIDE DEF y
  <2> QED
    BY <1>4, <2>1
<1>10. x \in Int /\ room.y \in Int /\ x + content = right /\ gap \in Nat
  BY <1>3 DEF Frames, Right
<1> HIDE DEF n, R, height, y, x, frames, right, content, paired
<1>11. ASSUME NEW i \in 1 .. n
       PROVE  /\ frames[i] \in Frames
              /\ frames[i].y = room.y + y[RowOf(i) - 1]
              /\ x <= frames[i].x /\ Right(frames[i]) <= right
              /\ items[i].w <= frames[i].w
              /\ items[i].h <= frames[i].h /\ frames[i].h <= height[RowOf(i)]
              /\ i % 2 = 1 => frames[i].x = x
              /\ i % 2 # 1 => /\ frames[i].x = x + left + gap
                              /\ Right(frames[i]) = right
                              /\ frames[i].h = height[RowOf(i)]
              /\ i % 2 = 1 /\ ~Lone(items, i) => Right(frames[i]) = x + left
              /\ Lone(items, i) => /\ Right(frames[i]) = right
                                   /\ frames[i].h = height[RowOf(i)]
  <2> DEFINE r == RowOf(i)
             top == room.y + y[r - 1]
             wide == items[i].w
             high == items[i].h
             tall == height[r]
  <2>1. /\ r \in 1 .. R /\ top \in Int /\ wide \in Nat /\ high \in Nat /\ tall \in Nat /\ high <= tall
    <3>1. r \in 1 .. R /\ i \in InRow(items, r)
      BY <1>4
    <3>2. wide \in Nat /\ high \in Nat
      BY <1>1
    <3>3. tall \in Nat /\ high <= tall
      BY <1>6, <3>1
    <3>4. top \in Int
      BY <1>9, <1>10, <3>1
    <3> QED
      BY <3>1, <3>2, <3>3, <3>4
  <2>2. CASE Lone(items, i)
    <3>1. frames[i] = Framed(x, top, content, high)
      BY <1>8, <2>2
    <3>2. wide <= content /\ content \in Nat
      <4>1. i \in lones /\ alone \in Nat
        BY <1>1, <1>2, <2>2 DEF lones
      <4>2. wide <= alone /\ wide \in Nat
        BY <1>2, <2>1, <4>1
      <4>3. content \in Nat /\ content >= alone
        BY <1>3
      <4> HIDE DEF wide
      <4> QED
        BY ONLY <4>1, <4>2, <4>3
    <3>3. high = tall /\ i % 2 = 1
      BY <1>7, <2>2 DEF Lone
    <3> HIDE DEF top, wide, high, tall, r
    <3>4. /\ frames[i].x = x /\ frames[i].y = top /\ frames[i].w = content /\ frames[i].h = high
          /\ frames[i] \in Frames /\ Right(frames[i]) = right
      BY ONLY <1>10, <2>1, <3>1, <3>2 DEF Framed, Frames, Right
    <3>5. x <= frames[i].x /\ Right(frames[i]) <= right /\ wide <= frames[i].w
          /\ high <= frames[i].h /\ frames[i].h <= tall
      BY ONLY <1>10, <2>1, <3>2, <3>3, <3>4
    <3> QED
      BY <2>2, <3>3, <3>4, <3>5 DEF top, wide, high, tall, r
  <2>3. CASE ~Lone(items, i) /\ i % 2 = 1
    <3>1. frames[i] = Framed(x, top, left, tall)
      BY <1>8, <2>3
    <3>2. wide <= left /\ left \in Nat /\ left <= content
      <4>1. Rights(items) # {} /\ i \in Lefts(items)
        BY <1>4, <2>3
      <4>2. paired = left + gap + rw
        BY <4>1 DEF paired
      <4>3. left \in Nat /\ rw \in Nat /\ content \in Nat /\ content >= paired
        BY <1>2, <1>3
      <4>4. left <= content
        BY ONLY <1>10, <4>2, <4>3
      <4> QED
        BY <1>2, <4>1, <4>4
    <3> HIDE DEF top, wide, high, tall, r
    <3>4. /\ frames[i].x = x /\ frames[i].y = top /\ frames[i].w = left /\ frames[i].h = tall
          /\ frames[i] \in Frames /\ Right(frames[i]) = x + left
      BY ONLY <1>10, <2>1, <3>1, <3>2 DEF Framed, Frames, Right
    <3>5. x <= frames[i].x /\ Right(frames[i]) <= right /\ wide <= frames[i].w
          /\ high <= frames[i].h /\ frames[i].h <= tall
      BY ONLY <1>3, <1>10, <2>1, <3>2, <3>4
    <3> QED
      BY <2>3, <3>4, <3>5 DEF top, wide, high, tall, r
  <2>4. CASE ~Lone(items, i) /\ i % 2 # 1
    <3>1. frames[i] = Framed(x + left + gap, top, content - left - gap, tall)
      BY <1>8, <2>4
    <3>2. wide <= content - left - gap /\ left \in Nat /\ content \in Nat
      <4>1. i \in Rights(items)
        BY <1>4, <2>4
      <4>2. paired = left + gap + rw
        BY <4>1 DEF paired
      <4>3. left \in Nat /\ rw \in Nat /\ content \in Nat /\ content >= paired
        BY <1>2, <1>3
      <4>4. wide <= rw
        BY <1>2, <4>1
      <4>5. wide \in Nat /\ gap \in Nat
        BY <2>1
      <4> HIDE DEF wide
      <4>6. wide <= content - left - gap
        BY ONLY <4>2, <4>3, <4>4, <4>5
      <4> QED
        BY <4>3, <4>6
    <3> HIDE DEF top, wide, high, tall, r
    <3>6. content - left - gap \in Int /\ x + left + gap \in Int
          /\ x + left + gap + (content - left - gap) = right
      BY ONLY <1>10, <3>2
    <3>7. top \in Int /\ tall \in Int
      BY <2>1
    <3>4. /\ frames[i].x = x + left + gap /\ frames[i].y = top /\ frames[i].w = content - left - gap
          /\ frames[i].h = tall /\ frames[i] \in Frames /\ Right(frames[i]) = right
      BY ONLY <3>1, <3>6, <3>7 DEF Framed, Frames, Right
    <3>5. x <= frames[i].x /\ Right(frames[i]) <= right /\ wide <= frames[i].w
          /\ high <= frames[i].h /\ frames[i].h <= tall
      BY ONLY <1>10, <2>1, <3>2, <3>4, SMTT(40)
    <3> QED
      BY <2>4, <3>4, <3>5 DEF top, wide, high, tall, r
  <2> QED
    BY <2>2, <2>3, <2>4
<1> QED
  BY <1>6, <1>8, <1>11 DEF n, R, height, y, x, frames, right, left

\* In two columns (layout_form and measure_form).
LEMMA FormFits ==
  ASSUME NEW items \in Seq(Wanted), items # <<>>, NEW gap \in Nat, NEW pad \in Nat,
         NEW room \in Frames, room.w = MeasuredForm(items, gap, pad).w,
         room.h = MeasuredForm(items, gap, pad).h
  PROVE  FitIn(FormColumns(items, gap, pad, room), items, room, pad, 0)
<1> DEFINE n == Len(items)
           R == RowsOf(items)
           height == RowHeights(items)
           y == Sums(Spaced(height, gap))
           x == room.x + pad
           left == LeftWidth(items)
           right == Right(room) - pad
           bottom == Bottom(room)
           frames == FormColumns(items, gap, pad, room)
           top == room.y
<1>1. /\ n \in Nat /\ n > 0 /\ DOMAIN items = 1 .. n /\ 1 \in 1 .. n /\ n \in 1 .. n
      /\ \A i \in 1 .. n : items[i].w \in Nat /\ items[i].h \in Nat
  BY SizesOfItems
<1>2. /\ R \in Nat /\ R > 0
      /\ \A i \in 1 .. n :
           /\ RowOf(i) \in 1 .. R
           /\ i % 2 = 1 => i = 2 * RowOf(i) - 1
           /\ i % 2 # 1 => i = 2 * RowOf(i)
      /\ RowOf(n) = R /\ RowOf(1) = 1 /\ 1 % 2 = 1
      /\ n % 2 = 1 => Lone(items, n)
  BY RowsOfForm
<1>3. /\ height \in Seq(Nat) /\ Len(height) = R
      /\ DOMAIN frames = 1 .. n
      /\ \A i \in 1 .. n :
           /\ frames[i] \in Frames
           /\ frames[i].y = top + y[RowOf(i) - 1]
           /\ x <= frames[i].x /\ Right(frames[i]) <= right
           /\ items[i].w <= frames[i].w
           /\ items[i].h <= frames[i].h /\ frames[i].h <= height[RowOf(i)]
           /\ i % 2 = 1 => frames[i].x = x
           /\ i % 2 # 1 => /\ frames[i].x = x + left + gap
                           /\ Right(frames[i]) = right
                           /\ frames[i].h = height[RowOf(i)]
           /\ i % 2 = 1 /\ ~Lone(items, i) => Right(frames[i]) = x + left
           /\ Lone(items, i) => /\ Right(frames[i]) = right
                                /\ frames[i].h = height[RowOf(i)]
  BY FormFrames, SMTT(40)
<1>4. /\ y[0] = 0 /\ \A k \in 0 .. R : y[k] \in Nat
      /\ y[R - 1] + height[R] = y[R]
      /\ \A i \in 1 .. R : y[i - 1] + height[i] <= y[R]
      /\ \A i \in 1 .. R : \A j \in i + 1 .. R : y[i - 1] + height[i] <= y[j - 1]
  <2> DEFINE LastEnds == R > 0 => y[R - 1] + height[R] = y[R]
             AllWithin == \A i \in 1 .. R : y[i - 1] + height[i] <= y[R]
             InOrder == \A i \in 1 .. R : \A j \in i + 1 .. R : y[i - 1] + height[i] <= y[j - 1]
  <2>1. y[0] = 0 /\ (\A k \in 0 .. R : y[k] \in Nat) /\ LastEnds /\ AllWithin /\ InOrder
    BY <1>3, SpacedSums
  <2> HIDE DEF height, y, R
  <2> QED
    BY <1>2, <2>1
<1>5. room.h = y[R]
  <2>1. room.h = Sums(height)[R] + Gaps(R, gap)
    BY DEF MeasuredForm, Sized
  <2>2. y[R] = Sums(height)[R] + Gaps(R, gap)
    <3>1. Len(height) >= 1
      BY <1>2, <1>3
    <3> HIDE DEF height, R
    <3> QED
      BY <1>3, <3>1, GapsAddUp
  <2> QED
    BY <2>1, <2>2
<1>6. left \in Nat
  <2>1. Lefts(items) \in SUBSET (DOMAIN items)
    BY DEF Lefts
  <2> QED
    BY <2>1, WidestIs DEF LeftWidth
<1>7. x \in Int /\ right \in Int /\ top \in Int /\ bottom \in Int /\ bottom = top + y[R] /\ y[R] \in Nat
  <2>1. y[R] \in Nat
    BY <1>2, <1>4
  <2> HIDE DEF y, R
  <2> QED
    BY <1>5, <2>1 DEF Frames, Right, Bottom
<1> HIDE DEF n, R, height, y, x, left, right, bottom, frames, top
<1>8. \A i \in 1 .. n : /\ y[RowOf(i) - 1] \in Nat /\ height[RowOf(i)] \in Nat
                        /\ y[RowOf(i) - 1] + height[RowOf(i)] <= y[R]
                        /\ frames[i].h \in Int /\ items[i].h \in Nat
                        /\ frames[i].h <= height[RowOf(i)]
                        /\ frames[i].y = top + y[RowOf(i) - 1]
                        /\ Bottom(frames[i]) = top + y[RowOf(i) - 1] + frames[i].h
  <2> TAKE i \in 1 .. n
  <2> DEFINE r == RowOf(i)
  <2>1. r \in 1 .. R /\ r - 1 \in 0 .. R
    BY <1>2
  <2> HIDE DEF r
  <2>2. y[r - 1] \in Nat /\ height[r] \in Nat /\ y[r - 1] + height[r] <= y[R]
    <3>1. y[r - 1] \in Nat /\ y[r - 1] + height[r] <= y[R]
      BY <1>4, <2>1
    <3>2. height[r] \in Nat
      BY <1>3, <2>1
    <3> QED
      BY <3>1, <3>2
  <2>3. frames[i] \in Frames /\ frames[i].y = top + y[r - 1] /\ frames[i].h <= height[r]
    BY <1>3 DEF r
  <2>4. frames[i].h \in Int
    BY ONLY <2>3 DEF Frames
  <2>5. Bottom(frames[i]) = top + y[r - 1] + frames[i].h
    BY ONLY <2>3 DEF Bottom
  <2> QED
    BY <2>4, <2>5, <1>1, <2>2, <2>3 DEF r
<1>9. Fills(frames, x, top, right, bottom)
  <2>1. \A i \in 1 .. n : /\ x <= frames[i].x /\ top <= frames[i].y
                          /\ Right(frames[i]) <= right /\ Bottom(frames[i]) <= bottom
    <3> TAKE i \in 1 .. n
    <3> DEFINE above == y[RowOf(i) - 1]
               tall == height[RowOf(i)]
               high == frames[i].h
    <3>1. /\ above \in Nat /\ tall \in Nat /\ above + tall <= y[R] /\ high \in Int /\ high <= tall
          /\ frames[i].y = top + above /\ Bottom(frames[i]) = top + above + high
      BY <1>8
    <3> HIDE DEF above, tall, high
    <3>2. top <= frames[i].y
      BY ONLY <1>7, <3>1
    <3>3. Bottom(frames[i]) <= bottom
      BY ONLY <1>7, <3>1
    <3> QED
      BY <1>3, <3>2, <3>3
  <2>2. frames[1].x = x
    BY <1>1, <1>2, <1>3
  <2>3. frames[1].y = top
    <3>1. frames[1].y = top + y[0]
      <4>1. 1 - 1 = 0 /\ RowOf(1) - 1 = 0
        BY <1>2
      <4> QED
        BY <1>1, <1>3, <4>1
    <3> QED
      BY ONLY <1>4, <1>7, <3>1
  <2>4. Right(frames[n]) = right /\ frames[n].h = height[R]
    BY <1>1, <1>2, <1>3
  <2>5. Bottom(frames[n]) = bottom
    <3>1. /\ Bottom(frames[n]) = top + y[R - 1] + height[R] /\ y[R - 1] \in Nat /\ height[R] \in Nat
      BY <1>1, <1>2, <1>8, <2>4
    <3> QED
      BY ONLY <1>4, <1>7, <3>1
  <2>6. \A i \in 1 .. n : frames[i] \in Frames
    BY <1>3
  <2> QED
    BY <2>4, <2>5, <2>6, <1>1, <1>3, <1>7, <2>1, <2>2, <2>3, FramesFill
<1>10. AllApart(frames, 0)
  <2>1. ASSUME NEW k \in 1 .. n, NEW l \in 1 .. n, k < l
        PROVE  Right(frames[k]) <= frames[l].x + 0 \/ Bottom(frames[k]) <= frames[l].y
    <3> DEFINE r == RowOf(k)
               q == RowOf(l)
    <3>0. r \in 1 .. R /\ q \in 1 .. R /\ k \in Int /\ l \in Int
      <4>1. r \in 1 .. R /\ q \in 1 .. R
        BY <1>2
      <4>2. k \in Int /\ l \in Int
        BY <1>1
      <4> QED
        BY <4>1, <4>2
    <3>1. /\ k = 2 * r - 1 \/ k = 2 * r
          /\ l = 2 * q - 1 \/ l = 2 * q
      BY <1>2
    <3>2. r <= q
      <4> HIDE DEF r, q
      <4> QED
        BY <1>2, <2>1, <3>0, <3>1
    <3>3. CASE r = q
      <4>1. k = 2 * r - 1 /\ l = 2 * r
        <5> HIDE DEF r, q
        <5> QED
          BY <1>2, <2>1, <3>0, <3>1, <3>3
      <4>2. l % 2 # 1 /\ k % 2 = 1 /\ k # n
        <5> HIDE DEF r, q
        <5>1. l % 2 # 1
          BY ONLY <1>2, <3>0, <4>1
        <5>2. k % 2 = 1
          BY ONLY <1>2, <3>0, <4>1
        <5> QED
          BY <1>1, <2>1, <5>1, <5>2
      <4>3. ~Lone(items, k)
        BY <4>2 DEF Lone, n
      <4>4. Right(frames[k]) = x + left /\ frames[l].x = x + left + gap
        BY <1>3, <4>2, <4>3
      <4> QED
        BY ONLY <1>6, <1>7, <4>4, gap \in Nat
    <3>4. CASE r # q
      <4>1. q \in r + 1 .. R
        <5> HIDE DEF r, q
        <5> QED
          BY <1>2, <3>0, <3>2, <3>4
      <4> DEFINE above == y[r - 1]
                 tall == height[r]
                 high == frames[k].h
                 below == y[q - 1]
      <4>2. /\ above \in Nat /\ tall \in Nat /\ high \in Int /\ high <= tall /\ below \in Nat
            /\ Bottom(frames[k]) = top + above + high /\ frames[l].y = top + below
        BY <1>8
      <4>3. above + tall <= below
        BY <1>4, <3>0, <4>1
      <4> HIDE DEF above, tall, high, below
      <4> QED
        BY ONLY <1>7, <4>2, <4>3
    <3> QED
      BY <3>3, <3>4
  <2> SUFFICES ASSUME NEW i \in 1 .. n, NEW j \in 1 .. n, i # j
               PROVE  Apart(frames[i], frames[j], 0)
    BY <1>3 DEF AllApart
  <2>2. i < j \/ j < i
    BY <1>1
  <2> QED
    BY <2>1, <2>2 DEF Apart
<1>11. LargeEnough(frames, items)
  <2>1. \A i \in 1 .. n : frames[i].w >= items[i].w /\ frames[i].h >= items[i].h
    <3> TAKE i \in 1 .. n
    <3>1. items[i].w <= frames[i].w /\ items[i].h <= frames[i].h /\ frames[i] \in Frames
      BY <1>3
    <3>2. items[i].w \in Nat /\ items[i].h \in Nat
      BY <1>1
    <3>3. frames[i].w \in Int /\ frames[i].h \in Int
      BY ONLY <3>1 DEF Frames
    <3> QED
      BY ONLY <3>1, <3>2, <3>3
  <2> QED
    BY <1>1, <2>1 DEF LargeEnough
<1>12. room.y + 0 = top /\ Bottom(room) - 0 = bottom
  BY <1>7 DEF top, bottom
<1> QED
  BY <1>9, <1>10, <1>11, <1>12, Zenon DEF FitIn, x, right, frames

\* A panel that gets the size it asked for fits its widgets, whichever way it lays
\* them out.
LEMMA LayoutsFit ==
  ASSUME NEW items \in Seq(Wanted), \A i \in DOMAIN items : items[i].w > 0,
         NEW gap \in Nat, NEW pad \in Nat
  PROVE  LayoutFits(items, gap, pad)
<1> DEFINE Given(size) == Framed(3, 2, size.w, size.h)
           v == Given(MeasuredVStack(items, gap, pad))
           h == Given(MeasuredHStack(items, gap, pad))
           f == Given(MeasuredForm(items, gap, pad))
           filled == HStackFill(items, pad, h)
           Fit(frames, space, padx, pady) ==
             /\ Fills(frames, space.x + padx, space.y + pady, Right(space) - padx, Bottom(space) - pady)
             /\ AllApart(frames, 0) /\ LargeEnough(frames, items)
<1>1. \A w, k : /\ Framed(3, 2, w, k).w = w /\ Framed(3, 2, w, k).h = k
                /\ w \in Int /\ k \in Int => Framed(3, 2, w, k) \in Frames
  BY DEF Framed, Frames
<1>2. \A size : Given(size).w = size.w /\ Given(size).h = size.h
  BY <1>1, Zenon
<1> SUFFICES ASSUME items # <<>>
             PROVE  /\ Fit(VStack(items, gap, pad, v), v, pad, 0)
                    /\ Fit(HStack(items, gap, pad, h), h, 0, pad)
                    /\ Fit(FormColumns(items, gap, pad, f), f, pad, 0)
                    /\ Fills(filled, h.x, h.y + pad, Right(h), Bottom(h) - pad)
                    /\ AllApart(filled, 1)
  BY Zenon DEF LayoutFits
<1>3. /\ MeasuredVStack(items, gap, pad).w \in Int /\ MeasuredVStack(items, gap, pad).h \in Int
      /\ MeasuredHStack(items, gap, pad).w \in Int /\ MeasuredHStack(items, gap, pad).h \in Int
      /\ MeasuredForm(items, gap, pad).w \in Int /\ MeasuredForm(items, gap, pad).h \in Int
  <2> DEFINE n == Len(items)
             R == RowsOf(items)
             hs == Heights(items)
             ws == Widths(items)
             rs == RowHeights(items)
  <2>1. n \in Nat /\ n \in 0 .. n /\ R \in Nat /\ R >= 1 /\ R \in 0 .. R
    BY SizesOfItems, RowsOfForm
  <2>2. hs \in Seq(Nat) /\ ws \in Seq(Nat) /\ Len(hs) = n /\ Len(ws) = n
    BY SizesOfItems
  <2>3. rs \in Seq(Nat) /\ Len(rs) = R
    BY RowHeightsAre
  <2> HIDE DEF n, R, hs, ws, rs
  <2>4. Sums(Spaced(hs, gap))[n] \in Nat /\ Sums(Spaced(ws, gap))[n] \in Nat
    <3>1. \A k \in 0 .. n : Sums(Spaced(hs, gap))[k] \in Nat
      BY <2>2, SpacedSums
    <3>2. \A k \in 0 .. n : Sums(Spaced(ws, gap))[k] \in Nat
      BY <2>2, SpacedSums
    <3> QED
      BY <2>1, <3>1, <3>2
  <2>5. Sums(rs)[R] + Gaps(R, gap) \in Nat
    <3>1. \A k \in 0 .. R : Sums(Spaced(rs, gap))[k] \in Nat
      BY <2>3, SpacedSums
    <3>2. Sums(Spaced(rs, gap))[R] = Sums(rs)[R] + Gaps(R, gap)
      BY <2>1, <2>3, GapsAddUp
    <3> QED
      BY <2>1, <3>1, <3>2
  <2> DEFINE lones == {i \in DOMAIN items : Lone(items, i)}
             paired == IF Rights(items) = {} THEN 0
                       ELSE LeftWidth(items) + gap + Widest(items, Rights(items))
             alone == Widest(items, lones)
  <2>6. /\ Widest(items, DOMAIN items) \in Nat /\ Highest(items, DOMAIN items) \in Nat
        /\ LeftWidth(items) \in Nat /\ Widest(items, Rights(items)) \in Nat /\ alone \in Nat
    <3>1. /\ Lefts(items) \in SUBSET (DOMAIN items) /\ Rights(items) \in SUBSET (DOMAIN items)
          /\ lones \in SUBSET (DOMAIN items) /\ DOMAIN items \in SUBSET (DOMAIN items)
      BY DEF Lefts, Rights
    <3> HIDE DEF lones
    <3> QED
      BY <3>1, WidestIs DEF LeftWidth
  <2>7. paired \in Nat
    BY <2>6
  <2> HIDE DEF paired, alone
  <2>8. Max({paired, alone}) \in Nat
    <3>1. Max({paired, alone}) = IF paired >= alone THEN paired ELSE alone
      BY <2>6, <2>7, MaxOfTwo
    <3> QED
      BY <2>6, <2>7, <3>1
  <2>9. /\ MeasuredVStack(items, gap, pad) = [w |-> Widest(items, DOMAIN items) + 2 * pad,
                                             h |-> Sums(Spaced(hs, gap))[n]]
        /\ MeasuredHStack(items, gap, pad) = [w |-> Sums(Spaced(ws, gap))[n],
                                             h |-> Highest(items, DOMAIN items) + 2 * pad]
        /\ MeasuredForm(items, gap, pad) = [w |-> Max({paired, alone}) + 2 * pad,
                                           h |-> Sums(rs)[R] + Gaps(R, gap)]
    BY Zenon DEF MeasuredVStack, MeasuredHStack, MeasuredForm, Sized, Padded, hs, ws, rs, n, R,
                 paired, alone, lones
  <2>10. \A k \in Nat : k + 2 * pad \in Int
    OBVIOUS
  <2>11. /\ Widest(items, DOMAIN items) + 2 * pad \in Int
         /\ Highest(items, DOMAIN items) + 2 * pad \in Int
         /\ Max({paired, alone}) + 2 * pad \in Int
    BY <2>6, <2>8, <2>10, Zenon
  <2> QED
    BY <2>4, <2>5, <2>9, <2>11
<1>4. v \in Frames /\ h \in Frames /\ f \in Frames
  BY <1>1, <1>3, Zenon
<1>5. FitIn(VStack(items, gap, pad, v), items, v, pad, 0)
  BY <1>2, <1>4, VStackFits
<1>6. FitIn(HStack(items, gap, pad, h), items, h, 0, pad)
  BY <1>2, <1>4, HStackFits
<1>7. FitIn(FormColumns(items, gap, pad, f), items, f, pad, 0)
  BY <1>2, <1>4, FormFits
<1>8. Fills(filled, h.x, h.y + pad, Right(h), Bottom(h) - pad) /\ AllApart(filled, 1)
  BY <1>2, <1>4, HStackFillFits
<1> QED
  BY <1>5, <1>6, <1>7, <1>8, Zenon DEF FitIn

\* An edit leaves an area that is laid out as wide and as high as there is room.
LEMMA EditedIsUpToDate ==
  ASSUME NEW a \in Areas, NEW chars \in Seq(STRING), NEW caret \in 0 .. Len(chars)
  PROVE  UpToDate(AreaEdited(a, chars, caret))
<1> DEFINE b == [a EXCEPT !.text = chars, !.caret = caret]
           c == [b EXCEPT !.valid = FALSE]
           d == EnsuredArea(c)
           m == Reveal(d.m, LineOf(d.lines, d.caret) - 1)
           e == [d EXCEPT !.m = m]
<1>1. c \in Areas /\ c.text = chars /\ c.caret = caret /\ c.valid = FALSE
  <2>1. caret \in Nat
    OBVIOUS
  <2>2. b \in Areas /\ b.text = chars /\ b.caret = caret
    BY <2>1 DEF Areas
  <2> HIDE DEF b
  <2> QED
    BY <2>2 DEF Areas
<1>2. AreaEdited(a, chars, caret) = e
  BY DEF AreaEdited, Changed, Moved
<1> HIDE DEF c
<1>3. Usable(c)
  BY <1>1 DEF Usable
<1>4. Sound(d) /\ UpToDate(d)
  BY <1>3, EnsuredIsSound
<1> HIDE DEF d
<1>5. /\ d \in Areas /\ d.width = WidthOf(d) /\ d.m.page = d.rows
      /\ InBounds(d.m) /\ d.m.total = Len(d.lines)
      /\ d.lines \in Seq(Pieces) /\ d.lines # <<>>
  BY <1>4 DEF Sound, Usable, Broke, Covers, UpToDate
<1>6. LineOf(d.lines, d.caret) \in 1 .. Len(d.lines)
  BY <1>5, LineOfIsLast
<1>7. m.page = d.m.page
  <2>1. LineOf(d.lines, d.caret) - 1 \in 0 .. d.m.total - 1
    BY <1>5, <1>6
  <2> QED
    BY <1>5, <2>1, RevealShows
<1> HIDE DEF m
<1>8. e.w = d.w /\ e.width = d.width /\ e.m = m /\ e.rows = d.rows
  BY <1>5 DEF Areas
<1> HIDE DEF e
<1>9. WidthOf(e) = WidthOf(d)
  BY <1>8 DEF WidthOf
<1> QED
  BY <1>2, <1>5, <1>7, <1>8, <1>9 DEF UpToDate

\* However a new area is laid out, it shows the text it is given.
LEMMA NewAreasShowText ==
  ASSUME NEW chars \in Seq(STRING), NEW w \in Nat, NEW rows \in Nat
  PROVE  LET a == AreaEdited([NewArea EXCEPT !.w = w, !.rows = rows], chars, Len(chars))
         IN  LinesAreTheText(a) /\ PressFindsCaret(a)
<1> DEFINE empty == [NewArea EXCEPT !.w = w, !.rows = rows]
           a == AreaEdited(empty, chars, Len(chars))
<1>1. empty \in Areas
  <2>1. <<>> \in Seq(STRING) /\ <<>> \in Seq(Pieces) /\ 0 \in Nat /\ 0 \in Int
        /\ [total |-> 0, page |-> 0, value |-> 0] \in Models
    BY DEF Models
  <2>2. NewArea \in Areas
    BY <2>1 DEF NewArea, Areas
  <2> DEFINE new == NewArea
             wide == [new EXCEPT !.w = w]
  <2> HIDE DEF new
  <2>3. wide \in Areas
    <3>1. new \in Areas /\ w \in Int
      BY <2>2 DEF new
    <3> QED
      BY ONLY <3>1 DEF Areas
  <2>4. empty = [wide EXCEPT !.rows = rows]
    BY DEF new
  <2> HIDE DEF wide, empty
  <2> QED
    BY <2>3, <2>4 DEF Areas
<1>2. Len(chars) \in 0 .. Len(chars)
  OBVIOUS
<1> HIDE DEF empty
<1>3. Sound(a) /\ UpToDate(a)
  BY <1>1, <1>2, EditedShowsCaret, EditedIsUpToDate
<1> HIDE DEF a
<1>4. LinesAreTheText(a) /\ PressFindsCaret(a)
  BY <1>3, SoundAreaShowsText
<1> QED
  BY <1>4 DEF a, empty

\* Layout, scroll bar, lists and line breaks do what they should for every sample of the
\* module's constants: nothing depends on which samples were taken.
LEMMA SamplesFit == WidgetsFit
<1>1. ASSUME NEW items \in SampleItems, NEW gap \in {0, 2}, NEW pad \in {0, 1}
      PROVE  LayoutFits(items, gap, pad)
  <2>1. items \in Seq([w : Nat \ {0}, h : Nat])
    BY SamplesAssumption
  <2>2. items \in Seq(Wanted) /\ \A i \in DOMAIN items : items[i].w > 0
    <3>1. /\ Len(items) \in Nat /\ DOMAIN items = 1 .. Len(items)
          /\ \A i \in 1 .. Len(items) : items[i] \in [w : Nat \ {0}, h : Nat]
      <4> DEFINE W == [w : Nat \ {0}, h : Nat]
      <4>1. items \in Seq(W)
        BY <2>1
      <4> HIDE DEF W
      <4>2. /\ Len(items) \in Nat /\ DOMAIN items = 1 .. Len(items)
            /\ \A i \in 1 .. Len(items) : items[i] \in W
        BY <4>1
      <4> QED
        BY <4>2 DEF W
    <3>2. \A s \in [w : Nat \ {0}, h : Nat] : s \in Wanted /\ s.w \in Nat /\ s.w > 0
      BY DEF Wanted
    <3>3. \A i \in 1 .. Len(items) : items[i] \in Wanted /\ items[i].w > 0
      BY <3>1, <3>2
    <3>4. items = [i \in 1 .. Len(items) |-> items[i]]
      BY <2>1
    <3> QED
      BY <3>1, <3>3, <3>4
  <2>3. gap \in Nat /\ pad \in Nat
    OBVIOUS
  <2> QED
    BY <2>2, <2>3, LayoutsFit
<1>2. ASSUME NEW m \in SampleModels, NEW track \in -1 .. 20, NEW least \in {0, 3},
             m.value <= ScrollMax(m)
      PROVE  ThumbIsSteady(m, track, least)
  <2>1. m \in [total : Nat, page : Nat, value : Nat]
    BY SamplesAssumption
  <2>2. m \in Models /\ m.value >= 0 /\ track \in Int /\ least \in Nat
    BY <2>1 DEF Models
  <2> QED
    BY <1>2, <2>2, ThumbsAreSteady
<1>3. ASSUME NEW l \in SampleLists
      PROVE  ListKeepsSight(l)
  <2>1. l \in Lists /\ l.selected \in -1 .. l.count - 1
    BY SamplesAssumption DEF Lists, Models
  <2> QED
    BY <2>1, ListsKeepSight
<1>4. ASSUME NEW chars \in SampleTexts, NEW w \in 1 .. 7, NEW rows \in 1 .. 2
      PROVE  LET a == AreaEdited([NewArea EXCEPT !.w = w, !.rows = rows], chars, Len(chars))
             IN  LinesAreTheText(a) /\ PressFindsCaret(a)
  <2>1. chars \in Seq(STRING) /\ w \in Nat /\ rows \in Nat
    BY SamplesAssumption
  <2> QED
    BY <2>1, NewAreasShowText
<1> QED
  BY <1>1, <1>2, <1>3, <1>4 DEF WidgetsFit

\* Whatever samples the constants name, the layouts of a panel fill the size it asked for,
\* thumbs stay in their tracks, lists keep what is selected in sight, and the lines of a
\* text area are its text (ui/panel.c, ui/scroll.c, ui/widget_scroll.c, ui/widget_list.c,
\* ui/widget_text.c).
THEOREM WidgetsAlwaysFit == Spec => []WidgetsFit
  BY SamplesFit, PTL

--------------------------------------------------------------------------------
(* The text model behind the text fields, TextBuf: texts of whole          *)
(* characters, the words, parted and put together.                         *)

Words == {s \in Seq(Bytes) : WellFormed(s)}

\* Whole characters put after whole characters leave them whole, and where they
\* meet one character ends.
LEMMA WordsMeet ==
  ASSUME NEW a \in Words, NEW c \in Words
  PROVE  /\ a \o c \in Words
         /\ Len(a \o c) = Len(a) + Len(c)
         /\ Boundary(a \o c, Len(a))
<1>1. a \in Seq(Bytes) /\ c \in Seq(Bytes) /\ WellFormed(a) /\ WellFormed(c)
  BY DEF Words
<1>2. /\ a \o c \in Seq(Bytes) /\ Len(a \o c) = Len(a) + Len(c)
      /\ \A i \in 1 .. Len(a) : (a \o c)[i] = a[i]
      /\ \A i \in 1 .. Len(c) : (a \o c)[Len(a) + i] = c[i]
      /\ Len(a) \in Nat /\ Len(c) \in Nat
  BY <1>1
<1> DEFINE s == a \o c
           n == Len(a)
           m == Len(c)
<1> HIDE DEF s
<1>3. /\ \A i \in 1 .. n : s[i] = a[i]
      /\ \A i \in 1 .. m : s[n + i] = c[i]
      /\ Len(s) = n + m /\ n \in Nat /\ m \in Nat
  BY <1>2 DEF s
<1>4. /\ n > 0 => a[n] # Lead
      /\ m > 0 => c[1] # Cont
  BY <1>1, <1>3 DEF WellFormed
<1>5. ASSUME NEW i \in 0 .. Len(s)
      PROVE  (i > 0 /\ s[i] = Lead) <=> (i < Len(s) /\ s[i + 1] = Cont)
  <2>1. CASE i < n
    <3>1. s[i + 1] = a[i + 1] /\ (i > 0 => s[i] = a[i])
      BY <1>3, <2>1
    <3> QED
      BY <1>1, <1>3, <2>1, <3>1 DEF WellFormed
  <2>2. CASE i = n
    <3>1. m > 0 => s[n + 1] = c[1]
      BY <1>3
    <3>2. n > 0 => s[n] = a[n]
      BY <1>3
    <3> QED
      BY <1>3, <1>4, <2>2, <3>1, <3>2
  <2>3. CASE i > n
    <3> DEFINE j == i - n
    <3>1. j \in 1 .. m /\ i = n + j
      BY <1>3, <2>3
    <3> HIDE DEF j
    <3>2. s[i] = c[j] /\ (j < m => s[i + 1] = c[j + 1])
      <4>1. j < m => j + 1 \in 1 .. m /\ i + 1 = n + (j + 1)
        BY <1>3, <3>1
      <4> QED
        BY <1>3, <3>1, <4>1
    <3>3. (j > 0 /\ c[j] = Lead) <=> (j < m /\ c[j + 1] = Cont)
      BY <1>1, <1>3, <3>1 DEF WellFormed
    <3> QED
      BY <1>3, <3>1, <3>2, <3>3
  <2> QED
    BY <1>3, <2>1, <2>2, <2>3
<1>6. Boundary(s, n)
  <2>1. m > 0 => s[n + 1] = c[1]
    BY <1>3
  <2> QED
    BY <1>3, <1>4, <2>1 DEF Boundary
<1>7. WellFormed(s)
  BY <1>5 DEF WellFormed
<1> QED
  BY <1>2, <1>6, <1>7 DEF Words, s

\* A text of whole characters parted between two of them is two such texts.
LEMMA WordsPart ==
  ASSUME NEW s \in Words, NEW p \in 0 .. Len(s), Boundary(s, p)
  PROVE  LET a == SubSeq(s, 1, p)
             c == SubSeq(s, p + 1, Len(s))
         IN  a \in Words /\ c \in Words /\ Len(a) = p /\ Len(c) = Len(s) - p /\ s = a \o c
<1>1. s \in Seq(Bytes) /\ WellFormed(s) /\ Len(s) \in Nat
  BY DEF Words
<1> DEFINE a == SubSeq(s, 1, p)
           c == SubSeq(s, p + 1, Len(s))
           n == Len(s)
<1>2. /\ a \in Seq(Bytes) /\ Len(a) = p /\ \A i \in 1 .. p : a[i] = s[i]
      /\ c \in Seq(Bytes) /\ Len(c) = n - p /\ \A i \in 1 .. n - p : c[i] = s[p + i]
  BY <1>1
<1> HIDE DEF a, c
<1>3. s = a \o c
  <2>1. /\ a \o c \in Seq(Bytes) /\ Len(a \o c) = n
        /\ \A i \in 1 .. n : (a \o c)[i] = IF i <= p THEN a[i] ELSE c[i - p]
    BY <1>1, <1>2
  <2>2. ASSUME NEW i \in 1 .. n
        PROVE  s[i] = (a \o c)[i]
    <3>1. CASE i <= p
      BY <1>2, <2>1, <3>1
    <3>2. CASE i > p
      <4>1. i - p \in 1 .. n - p /\ p + (i - p) = i
        BY <1>1, <3>2
      <4>2. c[i - p] = s[i]
        BY <1>2, <4>1
      <4> QED
        BY <2>1, <3>2, <4>2
    <3>3. i <= p \/ i > p
      BY <1>1
    <3> HIDE DEF n
    <3> QED
      BY <3>1, <3>2, <3>3
  <2> HIDE DEF n
  <2>3. Len(s) = n
    BY DEF n
  <2> QED
    BY <1>1, <2>1, <2>2, <2>3, SeqEqual
<1>4. p > 0 => s[p] # Lead
  BY <1>1 DEF WellFormed, Boundary
<1>5. WellFormed(a)
  <2> SUFFICES ASSUME NEW i \in 0 .. p
               PROVE  (i > 0 /\ a[i] = Lead) <=> (i < p /\ a[i + 1] = Cont)
    BY <1>2 DEF WellFormed
  <2>1. (i > 0 => a[i] = s[i]) /\ (i < p => a[i + 1] = s[i + 1])
    BY <1>2
  <2>2. (i > 0 /\ s[i] = Lead) <=> (i < n /\ s[i + 1] = Cont)
    BY <1>1 DEF WellFormed
  <2> QED
    BY <1>1, <1>4, <2>1, <2>2
<1>6. WellFormed(c)
  <2> SUFFICES ASSUME NEW i \in 0 .. n - p
               PROVE  (i > 0 /\ c[i] = Lead) <=> (i < n - p /\ c[i + 1] = Cont)
    BY <1>2 DEF WellFormed
  <2>1. (i > 0 => c[i] = s[p + i]) /\ (i < n - p => c[i + 1] = s[p + i + 1])
    <3>1. i < n - p => i + 1 \in 1 .. n - p /\ p + (i + 1) = p + i + 1
      BY <1>1
    <3> QED
      BY <1>2, <3>1
  <2>2. p + i \in 0 .. n
    BY <1>1
  <2>3. (p + i > 0 /\ s[p + i] = Lead) <=> (p + i < n /\ s[p + i + 1] = Cont)
    BY <1>1, <2>2 DEF WellFormed
  <2>4. i = 0 /\ p < n => s[p + 1] # Cont
    BY <1>1 DEF Boundary
  <2>5. CASE i = 0
    BY <1>1, <2>1, <2>4, <2>5
  <2>6. CASE i > 0
    <3>1. p + i > 0 /\ (p + i < n <=> i < n - p)
      BY <1>1, <2>6
    <3> QED
      BY <2>1, <2>3, <2>6, <3>1
  <2> QED
    BY <1>1, <2>5, <2>6
<1>7. a \in Words /\ c \in Words
  BY <1>2, <1>5, <1>6 DEF Words
<1> QED
  BY <1>2, <1>3, <1>7 DEF a, c

\* What erasing and splicing do to a text whose parts are known (buf_erase,
\* buf_splice).
LEMMA ErasedPart ==
  ASSUME NEW a \in Words, NEW t \in Words, NEW c \in Words
  PROVE  /\ Erased(a \o t \o c, Len(a), Len(a) + Len(t)) = a \o c
         /\ SubSeq(a \o t \o c, Len(a) + 1, Len(a) + Len(t)) = t
         /\ Len(a \o t \o c) = Len(a) + Len(t) + Len(c)
<1>1. a \in Seq(Bytes) /\ t \in Seq(Bytes) /\ c \in Seq(Bytes)
  BY DEF Words
<1> DEFINE s == a \o t \o c
           n == Len(a)
           m == Len(t)
           k == Len(c)
<1>2. /\ s \in Seq(Bytes) /\ Len(s) = n + m + k
      /\ n \in Nat /\ m \in Nat /\ k \in Nat
      /\ \A i \in 1 .. n : s[i] = a[i]
      /\ \A i \in 1 .. m : s[n + i] = t[i]
      /\ \A i \in 1 .. k : s[n + m + i] = c[i]
  BY <1>1
<1> HIDE DEF s, n, m, k
<1>3. /\ SubSeq(s, 1, n) \in Seq(Bytes) /\ Len(SubSeq(s, 1, n)) = n
      /\ \A i \in 1 .. n : SubSeq(s, 1, n)[i] = a[i]
  BY <1>2
<1>4. SubSeq(s, 1, n) = a
  BY <1>1, <1>3, SeqEqual DEF n
<1>5. /\ SubSeq(s, n + 1, n + m) \in Seq(Bytes) /\ Len(SubSeq(s, n + 1, n + m)) = m
      /\ \A i \in 1 .. m : SubSeq(s, n + 1, n + m)[i] = s[n + i]
  BY <1>2
<1>6. SubSeq(s, n + 1, n + m) = t
  BY <1>1, <1>2, <1>5, SeqEqual DEF m
<1>7. /\ SubSeq(s, n + m + 1, Len(s)) \in Seq(Bytes) /\ Len(SubSeq(s, n + m + 1, Len(s))) = k
      /\ \A i \in 1 .. k : SubSeq(s, n + m + 1, Len(s))[i] = s[n + m + i]
  BY <1>2
<1>8. SubSeq(s, n + m + 1, Len(s)) = c
  BY <1>1, <1>2, <1>7, SeqEqual DEF k
<1> QED
  BY <1>2, <1>4, <1>6, <1>8 DEF Erased, s, n, m, k

LEMMA SplicedPart ==
  ASSUME NEW a \in Words, NEW t \in Words, NEW c \in Words
  PROVE  Spliced(a \o c, Len(a), t) = a \o t \o c
<1>1. a \in Seq(Bytes) /\ t \in Seq(Bytes) /\ c \in Seq(Bytes)
  BY DEF Words
<1> DEFINE s == a \o c
           n == Len(a)
           k == Len(c)
<1>2. /\ s \in Seq(Bytes) /\ Len(s) = n + k /\ n \in Nat /\ k \in Nat
      /\ \A i \in 1 .. n : s[i] = a[i]
      /\ \A i \in 1 .. k : s[n + i] = c[i]
  BY <1>1
<1> HIDE DEF s, n, k
<1>3. /\ SubSeq(s, 1, n) \in Seq(Bytes) /\ Len(SubSeq(s, 1, n)) = n
      /\ \A i \in 1 .. n : SubSeq(s, 1, n)[i] = a[i]
  BY <1>2
<1>4. SubSeq(s, 1, n) = a
  BY <1>1, <1>3, SeqEqual DEF n
<1>5. /\ SubSeq(s, n + 1, Len(s)) \in Seq(Bytes) /\ Len(SubSeq(s, n + 1, Len(s))) = k
      /\ \A i \in 1 .. k : SubSeq(s, n + 1, Len(s))[i] = s[n + i]
  BY <1>2
<1>6. SubSeq(s, n + 1, Len(s)) = c
  BY <1>1, <1>2, <1>5, SeqEqual DEF k
<1> QED
  BY <1>4, <1>6 DEF Spliced, s, n

\* The texts a buffer holds, and the offsets between their characters.
Held == {s \in Words : Len(s) <= MaxLen}
IsOffset(s, p) == p \in 0 .. Len(s) /\ Boundary(s, p)

LEMMA HeldTexts ==
  /\ Held \in SUBSET Buffers
  /\ \A s \in Held : s \in Words /\ s \in Seq(Bytes) /\ WellFormed(s) /\ Len(s) \in 0 .. MaxLen
<1>1. \A s \in Held : s \in Words /\ s \in Seq(Bytes) /\ WellFormed(s) /\ Len(s) \in 0 .. MaxLen
  BY TextAssumption DEF Held, Words
<1>2. ASSUME NEW s \in Held
      PROVE  s \in Buffers
  <2>1. Len(s) \in 0 .. MaxLen /\ s \in [1 .. Len(s) -> Bytes]
    BY <1>1
  <2> QED
    BY <2>1 DEF Buffers
<1> QED
  BY <1>1, <1>2

\* The long text is the short one with t put in at pos.
Joint(pos, t, short, long) ==
  \E a, c \in Words : Len(a) = pos /\ short = a \o c /\ long = a \o t \o c

LEMMA JointTexts ==
  ASSUME NEW pos, NEW t \in Words, NEW short, NEW long, Joint(pos, t, short, long)
  PROVE  /\ short \in Words /\ long \in Words
         /\ IsOffset(short, pos) /\ IsOffset(long, pos) /\ IsOffset(long, pos + Len(t))
         /\ Erased(long, pos, pos + Len(t)) = short
         /\ SubSeq(long, pos + 1, pos + Len(t)) = t
         /\ Spliced(short, pos, t) = long
<1>1. PICK a \in Words, c \in Words :
        Len(a) = pos /\ short = a \o c /\ long = a \o t \o c
  BY DEF Joint
<1>2. a \in Seq(Bytes) /\ t \in Seq(Bytes) /\ c \in Seq(Bytes)
  BY DEF Words
<1>3. Len(a) \in Nat /\ Len(t) \in Nat /\ Len(c) \in Nat
  BY <1>2
<1>4. /\ a \o t \in Words /\ Len(a \o t) = Len(a) + Len(t)
      /\ t \o c \in Words /\ Len(t \o c) = Len(t) + Len(c)
  BY WordsMeet
<1>5. a \o t \o c = a \o (t \o c)
  BY <1>2, ConcatAssociative
<1>6. /\ short \in Words /\ Len(short) = Len(a) + Len(c) /\ Boundary(short, Len(a))
  BY <1>1, WordsMeet
<1>7. /\ long \in Words /\ Len(long) = Len(a) + Len(t) + Len(c)
      /\ Boundary(long, Len(a) + Len(t))
  <2> DEFINE front == a \o t
  <2>1. front \in Words /\ Len(front) = Len(a) + Len(t) /\ long = front \o c
    BY <1>1, <1>4
  <2> HIDE DEF front
  <2>2. long \in Words /\ Len(long) = Len(front) + Len(c) /\ Boundary(long, Len(front))
    BY <2>1, WordsMeet
  <2> QED
    BY <2>1, <2>2
<1>8. Boundary(long, Len(a))
  BY <1>1, <1>4, <1>5, WordsMeet
<1>9. /\ Erased(long, pos, pos + Len(t)) = short
      /\ SubSeq(long, pos + 1, pos + Len(t)) = t
  BY <1>1, ErasedPart
<1>10. Spliced(short, pos, t) = long
  BY <1>1, SplicedPart
<1> QED
  <2>1. /\ IsOffset(short, pos) /\ IsOffset(long, pos) /\ IsOffset(long, pos + Len(t))
        /\ Len(short) \in Nat /\ Len(long) = Len(short) + Len(t)
    <3>1. /\ pos \in 0 .. Len(short) /\ pos \in 0 .. Len(long) /\ pos + Len(t) \in 0 .. Len(long)
          /\ Len(short) \in Nat /\ Len(long) = Len(short) + Len(t)
      BY <1>1, <1>3, <1>6, <1>7
    <3> QED
      BY <1>1, <1>6, <1>7, <1>8, <3>1 DEF IsOffset
  <2> QED
    BY <1>6, <1>7, <1>9, <1>10, <2>1

LEMMA JointLengths ==
  ASSUME NEW pos, NEW t \in Words, NEW short, NEW long, Joint(pos, t, short, long)
  PROVE  /\ Len(short) \in Nat /\ Len(t) \in Nat /\ Len(long) \in Nat
         /\ Len(long) - Len(short) = Len(t)
<1>1. PICK n \in Nat, m \in Nat : Len(short) = n /\ Len(t) = m /\ Len(long) = n + m
  <2>1. PICK a \in Words, c \in Words :
        Len(a) = pos /\ short = a \o c /\ long = a \o t \o c
    BY DEF Joint
  <2>2. Len(a) \in Nat /\ Len(t) \in Nat /\ Len(c) \in Nat
    BY DEF Words
  <2>3. Len(short) = Len(a) + Len(c) /\ Len(long) = Len(a) + Len(t) + Len(c)
    BY <2>1, WordsMeet, ErasedPart
  <2> QED
    BY <2>2, <2>3
<1> QED
  BY <1>1

\* Erasing between two offsets, and putting text in at one.
LEMMA ErasedIsJoint ==
  ASSUME NEW s \in Words, NEW from, NEW to, IsOffset(s, from), IsOffset(s, to), from < to
  PROVE  LET t == SubSeq(s, from + 1, to)
         IN  t \in Words /\ t # <<>> /\ Len(t) = to - from /\ Joint(from, t, Erased(s, from, to), s)
<1>1. s \in Seq(Bytes) /\ Len(s) \in Nat /\ from \in 0 .. Len(s) /\ to \in 0 .. Len(s)
  BY DEF Words, IsOffset
<1> DEFINE r == SubSeq(s, 1, to)
           c == SubSeq(s, to + 1, Len(s))
           a == SubSeq(r, 1, from)
           t == SubSeq(r, from + 1, Len(r))
<1>2. r \in Words /\ c \in Words /\ Len(r) = to /\ s = r \o c
  BY <1>1, WordsPart DEF IsOffset
<1>3. r[from + 1] = s[from + 1]
  BY <1>1
<1> HIDE DEF r, c
<1>4. from \in 0 .. Len(r) /\ Boundary(r, from)
  BY <1>1, <1>2, <1>3 DEF Boundary, IsOffset
<1>5. a \in Words /\ t \in Words /\ Len(a) = from /\ Len(t) = Len(r) - from /\ r = a \o t
  BY <1>2, <1>4, WordsPart
<1> HIDE DEF a, t
<1>6. s = a \o t \o c /\ Len(a) + Len(t) = to
  BY <1>1, <1>2, <1>5
<1>7. Erased(s, from, to) = a \o c /\ SubSeq(s, from + 1, to) = t
  <2>1. /\ Erased(a \o t \o c, Len(a), Len(a) + Len(t)) = a \o c
        /\ SubSeq(a \o t \o c, Len(a) + 1, Len(a) + Len(t)) = t
    BY <1>2, <1>5, ErasedPart
  <2> QED
    BY <1>5, <1>6, <2>1
<1>8. t # <<>> /\ Len(t) = to - from
  <2>1. Len(t) = to - from /\ Len(t) # 0
    BY <1>1, <1>2, <1>5
  <2> QED
    BY <2>1
<1>9. Joint(from, t, Erased(s, from, to), s)
  BY <1>2, <1>5, <1>6, <1>7 DEF Joint
<1> QED
  BY <1>5, <1>7, <1>8, <1>9

LEMMA SplicedIsJoint ==
  ASSUME NEW s \in Words, NEW p, IsOffset(s, p), NEW t \in Words
  PROVE  Joint(p, t, s, Spliced(s, p, t))
<1> DEFINE a == SubSeq(s, 1, p)
           c == SubSeq(s, p + 1, Len(s))
<1>1. a \in Words /\ c \in Words /\ Len(a) = p /\ s = a \o c
  BY WordsPart DEF IsOffset
<1> HIDE DEF a, c
<1>2. Spliced(s, p, t) = a \o t \o c
  BY <1>1, SplicedPart, ZenonT(40)
<1> QED
  BY <1>1, <1>2 DEF Joint

\* A text has one part of every length.
LEMMA SameParts ==
  ASSUME NEW a \in Words, NEW c \in Words, NEW b \in Words, NEW d \in Words,
         a \o c = b \o d, Len(a) = Len(b)
  PROVE  a = b /\ c = d
<1>1. a \in Seq(Bytes) /\ c \in Seq(Bytes) /\ b \in Seq(Bytes) /\ d \in Seq(Bytes)
  BY DEF Words
<1> DEFINE n == Len(a)
           m == Len(c)
<1>2. /\ Len(b) = n /\ Len(d) = m /\ n \in Nat /\ m \in Nat
  <2>1. Len(a \o c) = Len(a) + Len(c) /\ Len(b \o d) = Len(b) + Len(d)
    BY <1>1
  <2>2. Len(a) \in Nat /\ Len(b) \in Nat /\ Len(c) \in Nat /\ Len(d) \in Nat
    BY <1>1
  <2> QED
    BY <2>1, <2>2
<1>3. \A i \in 1 .. n : a[i] = (a \o c)[i] /\ b[i] = (b \o d)[i]
  BY <1>1, <1>2
<1>4. \A i \in 1 .. m : c[i] = (a \o c)[n + i] /\ d[i] = (b \o d)[n + i]
  <2>0. ASSUME NEW u \in Seq(Bytes), NEW v \in Seq(Bytes)
        PROVE  \A i \in 1 .. Len(v) : v[i] = (u \o v)[Len(u) + i]
    OBVIOUS
  <2>1. \A i \in 1 .. Len(c) : c[i] = (a \o c)[Len(a) + i]
    BY <1>1, <2>0
  <2>2. \A i \in 1 .. Len(d) : d[i] = (b \o d)[Len(b) + i]
    BY <1>1, <2>0
  <2> QED
    BY <1>2, <2>1, <2>2
<1>5. Len(a) = n /\ Len(c) = m
  OBVIOUS
<1> HIDE DEF n, m
<1>6. a = b
  BY <1>1, <1>2, <1>3, <1>5, SeqEqual
<1>7. c = d
  BY <1>1, <1>2, <1>4, <1>5, SeqEqual
<1> QED
  BY <1>6, <1>7

\* Texts can be joined in any order of brackets.
Regroups(a, s, t) == a \o s \o t = a \o (s \o t)

LEMMA WordsAssociate ==
  ASSUME NEW a \in Words, NEW s \in Words, NEW t \in Words
  PROVE  Regroups(a, s, t)
<1>1. a \in Seq(Bytes) /\ s \in Seq(Bytes) /\ t \in Seq(Bytes)
  BY DEF Words
<1> QED
  BY <1>1, ConcatAssociative DEF Regroups

\* Two insertions in a row are one, and so are two deletions at one place or
\* side by side: the reason why record_insert and record_delete may let a step
\* grow.
LEMMA JointsGrow ==
  ASSUME NEW s \in Words, NEW t \in Words, NEW p \in Nat, NEW q \in Nat,
         NEW x, NEW y, NEW z
  PROVE  /\ Joint(p, s, x, y) /\ Joint(q, t, y, z) /\ p + Len(s) = q => Joint(p, s \o t, x, z)
         /\ Joint(p, s, y, x) /\ Joint(p, t, z, y) => Joint(p, s \o t, z, x)
         /\ Joint(p, s, y, x) /\ Joint(q, t, z, y) /\ q + Len(t) = p => Joint(q, t \o s, z, x)
<1>1. ASSUME Joint(p, s, x, y), Joint(q, t, y, z), p + Len(s) = q
      PROVE  Joint(p, s \o t, x, z)
  <2>1. PICK a \in Words, c \in Words : Len(a) = p /\ x = a \o c /\ y = a \o s \o c
    BY <1>1 DEF Joint
  <2>2. PICK b \in Words, d \in Words : Len(b) = q /\ y = b \o d /\ z = b \o t \o d
    BY <1>1 DEF Joint
  <2>3. a \o s \in Words /\ Len(a \o s) = q
    BY <1>1, <2>1, WordsMeet
  <2>4. b = a \o s /\ d = c
    BY <2>1, <2>2, <2>3, SameParts
  <2>5. Regroups(a, s, t)
    BY WordsAssociate
  <2>6. z = a \o (s \o t) \o c
    BY <2>2, <2>4, <2>5 DEF Regroups
  <2> QED
    BY <2>1, <2>6 DEF Joint
<1>2. ASSUME Joint(p, s, y, x), Joint(p, t, z, y)
      PROVE  Joint(p, s \o t, z, x)
  <2>1. PICK a \in Words, c \in Words : Len(a) = p /\ y = a \o c /\ x = a \o s \o c
    BY <1>2 DEF Joint
  <2>2. PICK b \in Words, d \in Words : Len(b) = p /\ z = b \o d /\ y = b \o t \o d
    BY <1>2 DEF Joint
  <2>3. b \o t \o d = b \o (t \o d) /\ t \o d \in Words
    <3>1. Regroups(b, t, d)
      BY WordsAssociate
    <3>2. t \o d \in Words
      BY WordsMeet, Zenon
    <3> QED
      BY <3>1, <3>2 DEF Regroups
  <2>4. b = a /\ c = t \o d
    BY <2>1, <2>2, <2>3, SameParts
  <2>5. (a \o s) \o (t \o d) = a \o s \o t \o d
    <3> DEFINE front == a \o s
    <3>1. front \in Words
      BY WordsMeet
    <3> HIDE DEF front
    <3>2. Regroups(front, t, d)
      BY <3>1, WordsAssociate
    <3> QED
      BY <3>2 DEF front, Regroups
  <2>6. Regroups(a, s, t)
    BY WordsAssociate
  <2>7. x = a \o (s \o t) \o d
    BY <2>1, <2>4, <2>5, <2>6 DEF Regroups
  <2> QED
    BY <2>2, <2>4, <2>7 DEF Joint
<1>3. ASSUME Joint(p, s, y, x), Joint(q, t, z, y), q + Len(t) = p
      PROVE  Joint(q, t \o s, z, x)
  <2>1. PICK a \in Words, c \in Words : Len(a) = p /\ y = a \o c /\ x = a \o s \o c
    BY <1>3 DEF Joint
  <2>2. PICK b \in Words, d \in Words : Len(b) = q /\ z = b \o d /\ y = b \o t \o d
    BY <1>3 DEF Joint
  <2>3. b \o t \in Words /\ Len(b \o t) = p
    BY <1>3, <2>2, WordsMeet
  <2>4. a = b \o t /\ c = d
    BY <2>1, <2>2, <2>3, SameParts
  <2>5. Regroups(b, t, s)
    BY WordsAssociate
  <2>6. x = b \o (t \o s) \o d
    BY <2>1, <2>4, <2>5 DEF Regroups
  <2> QED
    BY <2>2, <2>6 DEF Joint
<1> QED
  BY <1>1, <1>2, <1>3

--------------------------------------------------------------------------------
(* Steps between texts, and the lines of texts they make.                  *)

WholeSteps == [insert : BOOLEAN, pos : Nat, text : Words,
               cursor : Nat, anchor : Nat, joined : BOOLEAN]

\* The step leads from one text to the other, and the caret it notes was between
\* two characters of the text before.
Linked(step, before, after) ==
  /\ step \in WholeSteps /\ step.text # <<>>
  /\ before \in Held /\ after \in Held
  /\ IsOffset(before, step.cursor) /\ IsOffset(before, step.anchor)
  /\ step.insert => Joint(step.pos, step.text, before, after)
  /\ ~step.insert => Joint(step.pos, step.text, after, before)

\* From the near text the step leads to the far one, if it lies on the undo stack
\* by taking it back and otherwise by repeating it.
LinkedTo(step, near, far, past) ==
  /\ past => Linked(step, far, near)
  /\ ~past => Linked(step, near, far)
Crossed(s, step, past) == IF past THEN TakenBack(s, step) ELSE Repeated(s, step)

LEMMA LinkIsCrossed ==
  ASSUME NEW step, NEW near, NEW far, NEW past \in BOOLEAN, LinkedTo(step, near, far, past)
  PROVE  /\ Crossed(near, step, past) = far
         /\ far \in Held /\ near \in Held /\ step \in WholeSteps
<1>1. ASSUME NEW before, NEW after, Linked(step, before, after)
      PROVE  /\ TakenBack(after, step) = before /\ Repeated(before, step) = after
             /\ before \in Held /\ after \in Held /\ step \in WholeSteps
  <2>1. step \in WholeSteps /\ step.text \in Words /\ step.insert \in BOOLEAN
    BY <1>1 DEF Linked, WholeSteps
  <2>2. CASE step.insert
    <3>1. Joint(step.pos, step.text, before, after)
      BY <1>1, <2>2 DEF Linked
    <3>2. /\ Erased(after, step.pos, step.pos + Len(step.text)) = before
          /\ Spliced(before, step.pos, step.text) = after
      BY <2>1, <3>1, JointTexts
    <3> QED
      BY <1>1, <2>1, <2>2, <3>2 DEF TakenBack, Repeated, Linked
  <2>3. CASE ~step.insert
    <3>1. Joint(step.pos, step.text, after, before)
      BY <1>1, <2>3 DEF Linked
    <3>2. /\ Erased(before, step.pos, step.pos + Len(step.text)) = after
          /\ Spliced(after, step.pos, step.text) = before
      BY <2>1, <3>1, JointTexts
    <3> QED
      BY <1>1, <2>1, <2>3, <3>2 DEF TakenBack, Repeated, Linked
  <2> QED
    BY <2>2, <2>3
<1> QED
  BY <1>1 DEF LinkedTo, Crossed

\* The texts v that the steps of a stack lead through, the current text t last.
Line(v, steps, t, past) ==
  /\ steps \in Seq(WholeSteps) /\ v \in Seq(Held)
  /\ Len(v) = Len(steps) + 1 /\ v[Len(steps) + 1] = t
  /\ \A i \in 1 .. Len(steps) : LinkedTo(steps[i], v[i + 1], v[i], past)

LEMMA LineGrows ==
  ASSUME NEW v, NEW steps, NEW t, NEW past \in BOOLEAN, Line(v, steps, t, past),
         NEW step, NEW u, LinkedTo(step, u, t, past)
  PROVE  Line(Append(v, u), Append(steps, step), u, past)
<1>1. step \in WholeSteps /\ u \in Held
  BY LinkIsCrossed
<1> DEFINE n == Len(steps)
           w == Append(v, u)
           more == Append(steps, step)
<1>2. /\ steps \in Seq(WholeSteps) /\ v \in Seq(Held) /\ Len(v) = n + 1 /\ v[n + 1] = t
      /\ n \in Nat
      /\ \A i \in 1 .. n : LinkedTo(steps[i], v[i + 1], v[i], past)
  BY DEF Line
<1>3. /\ w \in Seq(Held) /\ Len(w) = n + 2 /\ w[n + 2] = u
      /\ \A i \in 1 .. n + 1 : w[i] = v[i]
  <2> HIDE DEF n
  <2> QED
    BY <1>1, <1>2
<1>4. /\ more \in Seq(WholeSteps) /\ Len(more) = n + 1 /\ more[n + 1] = step
      /\ \A i \in 1 .. n : more[i] = steps[i]
  BY <1>1, <1>2
<1> HIDE DEF n, w, more
<1>5. ASSUME NEW i \in 1 .. n + 1
      PROVE  LinkedTo(more[i], w[i + 1], w[i], past)
  <2>1. CASE i = n + 1
    <3>1. more[i] = step /\ w[i + 1] = u /\ w[i] = t
      BY <1>2, <1>3, <1>4, <2>1
    <3> QED
      BY <3>1
  <2>2. CASE i # n + 1
    <3>1. i \in 1 .. n /\ i + 1 \in 1 .. n + 1
      BY <1>2, <2>2
    <3>2. more[i] = steps[i] /\ w[i + 1] = v[i + 1] /\ w[i] = v[i]
      BY <1>3, <1>4, <3>1
    <3> QED
      BY <1>2, <3>1, <3>2
  <2> QED
    BY <2>1, <2>2
<1>6. Line(w, more, u, past)
  BY <1>2, <1>3, <1>4, <1>5 DEF Line
<1> QED
  BY <1>6 DEF w, more

LEMMA LineShrinks ==
  ASSUME NEW v, NEW steps, NEW t, NEW past \in BOOLEAN, Line(v, steps, t, past), steps # <<>>
  PROVE  LET n == Len(steps)
         IN  /\ n \in Nat \ {0}
             /\ Last(steps) = steps[n]
             /\ LinkedTo(Last(steps), t, v[n], past)
             /\ Line(Front(v), Front(steps), v[n], past)
             /\ Len(Front(steps)) = n - 1 /\ Len(Front(v)) = n
             /\ \A i \in 1 .. n - 1 : Front(steps)[i] = steps[i]
             /\ \A i \in 1 .. n : Front(v)[i] = v[i]
             /\ Append(Front(steps), Last(steps)) = steps
             /\ Append(Front(v), t) = v
<1> DEFINE n == Len(steps)
<1>1. /\ steps \in Seq(WholeSteps) /\ v \in Seq(Held) /\ Len(v) = n + 1 /\ v[n + 1] = t
      /\ \A i \in 1 .. n : LinkedTo(steps[i], v[i + 1], v[i], past)
  BY DEF Line
<1>2. n \in Nat \ {0}
  BY <1>1
<1>3. /\ Front(steps) \in Seq(WholeSteps) /\ Len(Front(steps)) = n - 1
      /\ \A i \in 1 .. n - 1 : Front(steps)[i] = steps[i]
  <2>1. Front(steps) = SubSeq(steps, 1, n - 1)
    BY DEF Front
  <2>2. Len(steps) = n
    OBVIOUS
  <2> HIDE DEF n
  <2> QED
    BY <1>1, <1>2, <2>1, <2>2
<1>4. /\ Front(v) \in Seq(Held) /\ Len(Front(v)) = n
      /\ \A i \in 1 .. n : Front(v)[i] = v[i]
  <2>1. Front(v) = SubSeq(v, 1, n)
    BY <1>1, <1>2 DEF Front
  <2> HIDE DEF n
  <2> QED
    BY <1>1, <1>2, <2>1
<1>5. Last(steps) = steps[n] /\ steps[n] \in WholeSteps /\ t \in Held
  <2>1. n + 1 \in 1 .. Len(v)
    BY <1>1, <1>2
  <2> QED
    BY <1>1, <1>2, <2>1 DEF Last
<1>6. Len(steps) = n
  OBVIOUS
<1> HIDE DEF n
<1>7. Append(Front(steps), Last(steps)) = steps
  <2> DEFINE back == Append(Front(steps), steps[n])
  <2>1. /\ back \in Seq(WholeSteps) /\ Len(back) = n /\ back[n] = steps[n]
        /\ \A i \in 1 .. n - 1 : back[i] = steps[i]
    BY <1>2, <1>3, <1>5
  <2> HIDE DEF back
  <2>2. \A i \in 1 .. n : back[i] = steps[i]
    BY <1>2, <2>1
  <2>3. back = steps
    BY <1>1, <1>6, <2>1, <2>2, SeqEqual
  <2> QED
    BY <1>5, <2>3 DEF back
<1>8. Append(Front(v), t) = v
  <2> DEFINE back == Append(Front(v), t)
  <2>1. /\ back \in Seq(Held) /\ Len(back) = n + 1 /\ back[n + 1] = t
        /\ \A i \in 1 .. n : back[i] = v[i]
    BY <1>2, <1>4, <1>5
  <2> HIDE DEF back
  <2>2. \A i \in 1 .. n + 1 : back[i] = v[i]
    BY <1>1, <1>2, <2>1
  <2>3. back = v
    BY <1>1, <2>1, <2>2, SeqEqual
  <2> QED
    BY <2>3 DEF back
<1>9. LinkedTo(Last(steps), t, v[n], past)
  BY <1>1, <1>2, <1>5
<1>10. Line(Front(v), Front(steps), v[n], past)
  <2>1. ASSUME NEW i \in 1 .. n - 1
        PROVE  LinkedTo(Front(steps)[i], Front(v)[i + 1], Front(v)[i], past)
    <3>1. i \in 1 .. n /\ i + 1 \in 1 .. n
      BY <1>2
    <3>2. Front(steps)[i] = steps[i] /\ Front(v)[i + 1] = v[i + 1] /\ Front(v)[i] = v[i]
      BY <1>3, <1>4, <3>1
    <3> QED
      BY <1>1, <3>1, <3>2
  <2>2. n - 1 + 1 = n /\ Front(v)[n] = v[n]
    BY <1>2, <1>4
  <2> QED
    BY <1>3, <1>4, <2>1, <2>2 DEF Line
<1> QED
  BY <1>2, <1>3, <1>4, <1>5, <1>6, <1>7, <1>8, <1>9, <1>10

\* What the recursion over a stack computes.
Computes(f, steps, t, past) ==
  f = [k \in 0 .. Len(steps) |-> IF k = 0 THEN t
                                ELSE Crossed(f[k - 1], steps[Len(steps) - k + 1], past)]

\* The line is what the current text and the steps make of each other, however
\* the recursion that computes it goes about it.
LEMMA LineIsComputed ==
  ASSUME NEW v, NEW steps, NEW t, NEW past \in BOOLEAN, Line(v, steps, t, past)
  PROVE  LET n == Len(steps)
         IN  /\ \E f : Computes(f, steps, t, past)
             /\ \A f : Computes(f, steps, t, past) => [i \in 1 .. n + 1 |-> f[n - i + 1]] = v
<1> DEFINE n == Len(steps)
           mine == [k \in 0 .. n |-> v[n - k + 1]]
<1>1. /\ steps \in Seq(WholeSteps) /\ v \in Seq(Held) /\ Len(v) = n + 1 /\ v[n + 1] = t
      /\ n \in Nat
      /\ \A i \in 1 .. n : LinkedTo(steps[i], v[i + 1], v[i], past)
  BY DEF Line
<1> HIDE DEF n
<1>2. \A k \in 1 .. n : Crossed(v[n - k + 2], steps[n - k + 1], past) = v[n - k + 1]
  <2> TAKE k \in 1 .. n
  <2>1. n - k + 1 \in 1 .. n /\ (n - k + 1) + 1 = n - k + 2
    BY <1>1
  <2> QED
    BY <1>1, <2>1, LinkIsCrossed
<1>3. Computes(mine, steps, t, past)
  <2>1. ASSUME NEW k \in 0 .. n
        PROVE  mine[k] = IF k = 0 THEN t ELSE Crossed(mine[k - 1], steps[n - k + 1], past)
    <3>1. CASE k = 0
      BY <1>1, <3>1
    <3>2. CASE k # 0
      <4>1. k \in 1 .. n /\ k - 1 \in 0 .. n /\ n - (k - 1) + 1 = n - k + 2
        BY <1>1, <3>2
      <4>2. mine[k - 1] = v[n - k + 2]
        BY <4>1
      <4> QED
        BY <1>2, <3>2, <4>1, <4>2
    <3> QED
      BY <3>1, <3>2
  <2> QED
    BY <2>1 DEF Computes, n
<1>4. \E f : Computes(f, steps, t, past)
  BY <1>3
<1> HIDE DEF mine
<1>5. ASSUME NEW back, Computes(back, steps, t, past)
      PROVE  [i \in 1 .. n + 1 |-> back[n - i + 1]] = v
  <2>0. back = [k \in 0 .. n |-> IF k = 0 THEN t ELSE Crossed(back[k - 1], steps[n - k + 1], past)]
    BY <1>5 DEF Computes, n
  <2>1. \A k \in 0 .. n : back[k] = v[n - k + 1]
    <3> DEFINE Wrong == {k \in 0 .. n : back[k] # v[n - k + 1]}
    <3> SUFFICES ASSUME Wrong # {} PROVE FALSE
      OBVIOUS
    <3>1. PICK k \in Wrong : \A j \in Wrong : k <= j
      <4>1. Wrong \in SUBSET Nat
        BY <1>1
      <4> QED
        BY <4>1, MinIsLeast, Zenon
    <3>2. k # 0
      BY <1>1, <2>0
    <3>3. /\ k - 1 \in 0 .. n /\ k - 1 \notin Wrong /\ k \in 1 .. n
          /\ n - (k - 1) + 1 = n - k + 2
      <4>1. k \in 0 .. n
        OBVIOUS
      <4>2. k - 1 \in 0 .. n /\ k \in 1 .. n /\ ~(k <= k - 1) /\ n - (k - 1) + 1 = n - k + 2
        BY <1>1, <3>2, <4>1
      <4> HIDE DEF Wrong
      <4> QED
        BY <3>1, <4>2
    <3>4. back[k - 1] = v[n - k + 2]
      BY <3>3
    <3>5. back[k] = Crossed(back[k - 1], steps[n - k + 1], past)
      BY <2>0, <3>2, <3>3
    <3> QED
      BY <1>2, <3>1, <3>3, <3>4, <3>5
  <2>2. ASSUME NEW i \in 1 .. n + 1
        PROVE  back[n - i + 1] = v[i]
    <3>1. n - i + 1 \in 0 .. n /\ n - (n - i + 1) + 1 = i
      BY <1>1
    <3> QED
      BY <2>1, <3>1
  <2>3. v = [i \in 1 .. n + 1 |-> v[i]]
    BY <1>1
  <2> QED
    BY <2>2, <2>3
<1> QED
  BY <1>4, <1>5 DEF n

LEMMA LinesAreEarlierAndLater ==
  /\ \A v : Line(v, undo, text, TRUE) => v = Earlier
  /\ \A v : Line(v, redo, text, FALSE) => v = Later
<1>1. ASSUME NEW v, Line(v, undo, text, TRUE)
      PROVE  v = Earlier
  <2> DEFINE n == Len(undo)
             Fits(f) == f = [k \in 0 .. n |-> IF k = 0 THEN text
                                             ELSE TakenBack(f[k - 1], undo[n - k + 1])]
  <2>1. \A f : Fits(f) <=> Computes(f, undo, text, TRUE)
    BY DEF Computes, Crossed
  <2>2. /\ \E f : Computes(f, undo, text, TRUE)
        /\ \A f : Computes(f, undo, text, TRUE) => [i \in 1 .. n + 1 |-> f[n - i + 1]] = v
    BY <1>1, LineIsComputed
  <2> DEFINE back == CHOOSE f : Fits(f)
  <2>3. Fits(back)
    BY <2>1, <2>2, Zenon
  <2>4. [i \in 1 .. n + 1 |-> back[n - i + 1]] = v
    BY <2>1, <2>2, <2>3, Zenon
  <2> QED
    BY <2>4, Zenon DEF Earlier
<1>2. ASSUME NEW v, Line(v, redo, text, FALSE)
      PROVE  v = Later
  <2> DEFINE n == Len(redo)
             Fits(f) == f = [k \in 0 .. n |-> IF k = 0 THEN text
                                             ELSE Repeated(f[k - 1], redo[n - k + 1])]
  <2>1. \A f : Fits(f) <=> Computes(f, redo, text, FALSE)
    BY DEF Computes, Crossed
  <2>2. /\ \E f : Computes(f, redo, text, FALSE)
        /\ \A f : Computes(f, redo, text, FALSE) => [i \in 1 .. n + 1 |-> f[n - i + 1]] = v
    BY <1>2, LineIsComputed
  <2> DEFINE back == CHOOSE f : Fits(f)
  <2>3. Fits(back)
    BY <2>1, <2>2, Zenon
  <2>4. [i \in 1 .. n + 1 |-> back[n - i + 1]] = v
    BY <2>1, <2>2, <2>3, Zenon
  <2> QED
    BY <2>4, Zenon DEF Later
<1> QED
  BY <1>1, <1>2

--------------------------------------------------------------------------------
(* Buffers.                                                                *)

\* A buffer with a caret between characters, whose steps lead through the texts
\* e to the text it holds, and on through the texts l.
SoundBuffer(b, e, l) ==
  /\ b = [text |-> b.text, cursor |-> b.cursor, anchor |-> b.anchor,
          undo |-> b.undo, redo |-> b.redo]
  /\ b.text \in Held
  /\ IsOffset(b.text, b.cursor) /\ IsOffset(b.text, b.anchor)
  /\ Line(e, b.undo, b.text, TRUE) /\ Line(l, b.redo, b.text, FALSE)

LEMMA LineBegins ==
  ASSUME NEW t \in Held, NEW past \in BOOLEAN
  PROVE  Line(<<t>>, <<>>, t, past)
BY DEF Line

LEMMA EmptyText == <<>> \in Held /\ IsOffset(<<>>, 0)
<1>1. <<>> \in Seq(Bytes) /\ Len(<<>>) = 0
  BY EmptySeq
<1>2. \A i \in 0 .. Len(<<>>) : i = 0
  BY <1>1
<1>3. WellFormed(<<>>)
  BY <1>1, <1>2 DEF WellFormed
<1>4. <<>> \in Held
  BY <1>1, <1>3, TextAssumption DEF Held, Words
<1> QED
  BY <1>1, <1>4 DEF IsOffset, Boundary

\* The step that is added, or grows, on top of the undo stack.
Adds(b, e, r, f, joined) ==
  \E step \in WholeSteps :
    /\ r.undo = Append(b.undo, step) /\ f = Append(e, r.text)
    /\ step.joined = joined /\ CaretOf(step) = <<b.cursor, b.anchor>>
    /\ joined => step.insert
Grows(b, e, r, f) ==
  /\ b.undo # <<>>
  /\ \E step \in WholeSteps :
       /\ r.undo = Append(Front(b.undo), step) /\ f = Append(Front(e), r.text)
       /\ step.joined = Last(b.undo).joined /\ CaretOf(step) = CaretOf(Last(b.undo))
       /\ step.insert = Last(b.undo).insert

\* A buffer whose text was replaced with a step that leads there is sound.
LEMMA SoundWithStep ==
  ASSUME NEW b, NEW e, NEW l, SoundBuffer(b, e, l),
         NEW step \in WholeSteps, step.text # <<>>, NEW t \in Held, NEW p, IsOffset(t, p),
         NEW r, r = [text |-> t, cursor |-> p, anchor |-> p, undo |-> r.undo, redo |-> <<>>]
  PROVE  /\ /\ r.undo = Append(b.undo, step)
            /\ Linked(step, b.text, t)
            => SoundBuffer(r, Append(e, t), <<t>>)
         /\ /\ b.undo # <<>> /\ r.undo = Append(Front(b.undo), step)
            /\ Linked(step, e[Len(b.undo)], t)
            => SoundBuffer(r, Append(Front(e), t), <<t>>)
<1>1. Line(<<t>>, <<>>, t, FALSE) /\ Line(e, b.undo, b.text, TRUE)
  BY LineBegins DEF SoundBuffer
<1>2. r.text = t /\ r.cursor = p /\ r.anchor = p /\ r.redo = <<>>
  <2> DEFINE u == r.undo
  <2> HIDE DEF u
  <2>1. r = [text |-> t, cursor |-> p, anchor |-> p, undo |-> u, redo |-> <<>>]
    BY DEF u
  <2> QED
    BY <2>1
<1>3. ASSUME NEW f, Line(f, r.undo, t, TRUE)
      PROVE  SoundBuffer(r, f, <<t>>)
  BY <1>1, <1>2, <1>3 DEF SoundBuffer
<1>4. ASSUME r.undo = Append(b.undo, step), Linked(step, b.text, t)
      PROVE  SoundBuffer(r, Append(e, t), <<t>>)
  <2>1. LinkedTo(step, t, b.text, TRUE)
    BY <1>4 DEF LinkedTo
  <2>2. Line(Append(e, t), Append(b.undo, step), t, TRUE)
    BY <1>1, <2>1, LineGrows
  <2> QED
    BY <1>3, <1>4, <2>2
<1>5. ASSUME b.undo # <<>>, r.undo = Append(Front(b.undo), step), Linked(step, e[Len(b.undo)], t)
      PROVE  SoundBuffer(r, Append(Front(e), t), <<t>>)
  <2> DEFINE mid == e[Len(b.undo)]
  <2>1. Line(Front(e), Front(b.undo), mid, TRUE)
    BY <1>1, <1>5, LineShrinks
  <2>2. LinkedTo(step, t, mid, TRUE)
    BY <1>5 DEF LinkedTo
  <2> HIDE DEF mid
  <2>3. Line(Append(Front(e), t), Append(Front(b.undo), step), t, TRUE)
    BY <2>1, <2>2, LineGrows
  <2> QED
    BY <1>3, <1>5, <2>3
<1> QED
  BY <1>4, <1>5

\* Whatever step a deletion adds or lets grow, it leads to the text without the
\* characters (erase_range_recorded, record_delete).
LEMMA ErasingIsSound ==
  ASSUME NEW b, NEW e, NEW l, SoundBuffer(b, e, l), NEW new \in BOOLEAN,
         NEW from, NEW to, IsOffset(b.text, from), IsOffset(b.text, to), from < to
  PROVE  LET r == RangeErased(b, new, from, to)
         IN  \E f : /\ SoundBuffer(r, f, <<r.text>>)
                    /\ r.redo = <<>> /\ Len(r.text) <= Len(b.text)
                    /\ \/ Adds(b, e, r, f, FALSE)
                       \/ (Grows(b, e, r, f) /\ ~Last(b.undo).insert)
<1> DEFINE s == SubSeq(b.text, from + 1, to)
           t == Erased(b.text, from, to)
           r == RangeErased(b, new, from, to)
           top == Last(b.undo)
           one == [insert |-> FALSE, pos |-> from, text |-> s, cursor |-> b.cursor,
                   anchor |-> b.anchor, joined |-> FALSE]
<1>1. /\ b.text \in Held /\ b.text \in Words /\ Line(e, b.undo, b.text, TRUE)
      /\ IsOffset(b.text, b.cursor) /\ IsOffset(b.text, b.anchor)
  BY HeldTexts DEF SoundBuffer
<1>2. s \in Words /\ s # <<>> /\ Len(s) = to - from /\ Joint(from, s, t, b.text)
  BY <1>1, ErasedIsJoint
<1>3. /\ from \in Nat /\ Len(b.text) \in Nat /\ Len(b.text) <= MaxLen
      /\ b.cursor \in Nat /\ b.anchor \in Nat
  BY <1>1, HeldTexts DEF IsOffset
<1>4. /\ r.text = t /\ r.cursor = from /\ r.anchor = from /\ r.redo = <<>>
      /\ r.undo = DeleteRecorded(b, new, from, s)
      /\ r = [text |-> t, cursor |-> from, anchor |-> from, undo |-> r.undo, redo |-> <<>>]
  BY DEF RangeErased
<1> HIDE DEF s, t, r
<1>5. t \in Held /\ IsOffset(t, from) /\ Len(t) <= Len(b.text)
  <2>1. t \in Words /\ Len(t) \in Nat /\ Len(s) \in Nat /\ Len(b.text) = Len(t) + Len(s) /\ IsOffset(t, from)
    <3>1. s \in Words /\ Joint(from, s, t, b.text)
      BY <1>2
    <3>2. /\ Len(t) \in Nat /\ Len(s) \in Nat /\ Len(b.text) \in Nat
          /\ Len(b.text) - Len(t) = Len(s)
      BY <3>1, JointLengths
    <3>3. t \in Words /\ IsOffset(t, from)
      BY <3>1, JointTexts
    <3> QED
      BY <3>2, <3>3
  <2> QED
    BY <1>3, <2>1, TextAssumption DEF Held
<1>6. \/ r.undo = Append(b.undo, one)
      \/ /\ b.undo # <<>> /\ ~top.insert /\ top.pos = from
         /\ r.undo = Append(Front(b.undo), [top EXCEPT !.text = @ \o s])
      \/ /\ b.undo # <<>> /\ ~top.insert /\ from + Len(s) = top.pos
         /\ r.undo = Append(Front(b.undo), [top EXCEPT !.text = s \o @, !.pos = from])
  BY <1>4 DEF DeleteRecorded, NewStep
<1>7. CASE r.undo = Append(b.undo, one)
  <2>1. one \in WholeSteps /\ one.text # <<>>
    BY <1>2, <1>3 DEF WholeSteps
  <2>2. Linked(one, b.text, t)
    BY <1>1, <1>2, <1>5, <2>1 DEF Linked
  <2>3. one.joined = FALSE /\ CaretOf(one) = <<b.cursor, b.anchor>>
    BY DEF CaretOf
  <2> HIDE DEF one
  <2>4. SoundBuffer(r, Append(e, t), <<t>>)
    BY <1>4, <1>5, <1>7, <2>1, <2>2, SoundWithStep
  <2>5. Adds(b, e, r, Append(e, t), FALSE)
    BY <1>4, <1>7, <2>1, <2>3 DEF Adds
  <2> QED
    BY <1>4, <1>5, <2>4, <2>5 DEF r
<1>8. ASSUME b.undo # <<>>, ~top.insert, NEW step,
             r.undo = Append(Front(b.undo), step),
             \/ top.pos = from /\ step = [top EXCEPT !.text = @ \o s]
             \/ from + Len(s) = top.pos /\ step = [top EXCEPT !.text = s \o @, !.pos = from]
      PROVE  \E f : /\ SoundBuffer(r, f, <<r.text>>)
                    /\ r.redo = <<>> /\ Len(r.text) <= Len(b.text)
                    /\ Grows(b, e, r, f) /\ ~Last(b.undo).insert
  <2> DEFINE before == e[Len(b.undo)]
             joint == IF top.pos = from THEN top.text \o s ELSE s \o top.text
  <2>1. Linked(top, before, b.text)
    <3>1. LinkedTo(Last(b.undo), b.text, e[Len(b.undo)], TRUE)
      BY <1>1, <1>8, LineShrinks
    <3> QED
      BY <3>1 DEF LinkedTo
  <2> HIDE DEF before, top
  <2>2. /\ top \in WholeSteps /\ top.text \in Words /\ top.pos \in Nat
        /\ Joint(top.pos, top.text, b.text, before) /\ before \in Held
        /\ IsOffset(before, top.cursor) /\ IsOffset(before, top.anchor)
    BY <1>8, <2>1 DEF Linked, WholeSteps
  <2>3. joint \in Words /\ joint # <<>> /\ Joint(from, joint, t, before)
    <3>1. /\ top.text \o s \in Words /\ s \o top.text \in Words
      BY <1>2, <2>2, WordsMeet
    <3>2. top.text \o s # <<>> /\ s \o top.text # <<>>
      <4>1. s \in Seq(Bytes) /\ top.text \in Seq(Bytes)
        BY <1>2, <2>2 DEF Words
      <4> QED
        BY <1>2, <4>1, ConcatEqualIffEmpty
    <3>3. top.pos = from => Joint(from, top.text \o s, t, before)
      BY <1>2, <1>3, <2>2, JointsGrow
    <3>4. from + Len(s) = top.pos => Joint(from, s \o top.text, t, before)
      BY <1>2, <1>3, <2>2, JointsGrow
    <3> QED
      BY <1>8, <3>1, <3>2, <3>3, <3>4
  <2>4. /\ step.insert = top.insert /\ step.joined = top.joined
        /\ step.cursor = top.cursor /\ step.anchor = top.anchor
        /\ step.pos = from /\ step.text = joint /\ step \in WholeSteps
    <3> HIDE DEF joint
    <3>1. ASSUME top.pos = from, step = [top EXCEPT !.text = @ \o s]
          PROVE  /\ step.insert = top.insert /\ step.joined = top.joined
                 /\ step.cursor = top.cursor /\ step.anchor = top.anchor
                 /\ step.pos = from /\ step.text = joint /\ step \in WholeSteps
      <4>1. joint = top.text \o s
        BY <3>1 DEF joint
      <4> QED
        BY <2>2, <2>3, <3>1, <4>1 DEF WholeSteps
    <3>2. ASSUME top.pos # from, step = [top EXCEPT !.text = s \o @, !.pos = from]
          PROVE  /\ step.insert = top.insert /\ step.joined = top.joined
                 /\ step.cursor = top.cursor /\ step.anchor = top.anchor
                 /\ step.pos = from /\ step.text = joint /\ step \in WholeSteps
      <4>1. joint = s \o top.text
        BY <3>2 DEF joint
      <4> QED
        BY <1>3, <2>2, <2>3, <3>2, <4>1 DEF WholeSteps
    <3>3. from + Len(s) = top.pos => top.pos # from
      <4>1. Len(s) \in Nat /\ Len(s) # 0
        BY <1>2 DEF Words
      <4> QED
        BY <1>3, <4>1
    <3> QED
      BY <1>8, <3>1, <3>2, <3>3
  <2> HIDE DEF joint
  <2>5. Linked(step, before, t)
    BY <1>5, <1>8, <2>2, <2>3, <2>4 DEF Linked
  <2>6. SoundBuffer(r, Append(Front(e), t), <<t>>)
    <3>1. Linked(step, e[Len(b.undo)], t)
      BY <2>5 DEF before
    <3>2. step.text # <<>>
      BY <2>3, <2>4
    <3> QED
      BY <1>4, <1>5, <1>8, <2>4, <3>1, <3>2, SoundWithStep
  <2>7. Grows(b, e, r, Append(Front(e), t))
    BY <1>4, <1>8, <2>4 DEF Grows, CaretOf, top
  <2> QED
    BY <1>4, <1>5, <1>8, <2>6, <2>7 DEF top
<1>9. CASE b.undo # <<>> /\ ~top.insert /\ top.pos = from
           /\ r.undo = Append(Front(b.undo), [top EXCEPT !.text = @ \o s])
  <2> HIDE DEF top
  <2> DEFINE step == [top EXCEPT !.text = @ \o s]
  <2>1. step = [top EXCEPT !.text = @ \o s]
    OBVIOUS
  <2> HIDE DEF step
  <2>2. r.undo = Append(Front(b.undo), step)
    BY <1>9, <2>1
  <2> QED
    BY <1>8, <1>9, <2>1, <2>2 DEF r
<1>10. CASE b.undo # <<>> /\ ~top.insert /\ from + Len(s) = top.pos
           /\ r.undo = Append(Front(b.undo), [top EXCEPT !.text = s \o @, !.pos = from])
  <2> HIDE DEF top
  <2> DEFINE step == [top EXCEPT !.text = s \o @, !.pos = from]
  <2>1. step = [top EXCEPT !.text = s \o @, !.pos = from]
    OBVIOUS
  <2> HIDE DEF step
  <2>2. r.undo = Append(Front(b.undo), step)
    BY <1>10, <2>1
  <2> QED
    BY <1>8, <1>10, <2>1, <2>2 DEF r
<1> QED
  BY <1>6, <1>7, <1>9, <1>10

\* Whatever step an insertion adds or lets grow, it leads to the text with the
\* new characters (textbuf_insert, record_insert).
LEMMA InsertingIsSound ==
  ASSUME NEW b, NEW e, NEW l, SoundBuffer(b, e, l), NEW new \in BOOLEAN, NEW joined \in BOOLEAN,
         NEW s \in Words, s # <<>>, Len(b.text) + Len(s) <= MaxLen
  PROVE  LET end == b.cursor + Len(s)
             r == [text |-> Spliced(b.text, b.cursor, s), cursor |-> end, anchor |-> end,
                   undo |-> InsertRecorded(b, new, b.cursor, s, joined), redo |-> <<>>]
         IN  \E f : /\ SoundBuffer(r, f, <<r.text>>)
                    /\ \/ Adds(b, e, r, f, joined)
                       \/ (Grows(b, e, r, f) /\ ~joined /\ Last(b.undo).insert)
<1> DEFINE t == Spliced(b.text, b.cursor, s)
           end == b.cursor + Len(s)
           r == [text |-> t, cursor |-> end, anchor |-> end,
                 undo |-> InsertRecorded(b, new, b.cursor, s, joined), redo |-> <<>>]
           top == Last(b.undo)
           one == [insert |-> TRUE, pos |-> b.cursor, text |-> s, cursor |-> b.cursor,
                   anchor |-> b.anchor, joined |-> joined]
           grown == [top EXCEPT !.text = @ \o s]
<1>1. /\ b.text \in Held /\ b.text \in Words /\ Line(e, b.undo, b.text, TRUE)
      /\ IsOffset(b.text, b.cursor) /\ IsOffset(b.text, b.anchor)
  BY HeldTexts DEF SoundBuffer
<1>2. Joint(b.cursor, s, b.text, t)
  BY <1>1, SplicedIsJoint
<1>3. /\ Len(b.text) \in Nat /\ Len(s) \in Nat /\ b.cursor \in Nat /\ b.anchor \in Nat
  BY <1>1, HeldTexts DEF IsOffset, Words
<1>4. /\ r.text = t /\ r.cursor = end /\ r.anchor = end /\ r.redo = <<>>
      /\ r.undo = InsertRecorded(b, new, b.cursor, s, joined)
      /\ r = [text |-> t, cursor |-> end, anchor |-> end, undo |-> r.undo, redo |-> <<>>]
  OBVIOUS
<1> HIDE DEF t, r
<1>5. t \in Held /\ IsOffset(t, end)
  <2>1. t \in Words /\ IsOffset(t, b.cursor + Len(s))
    BY <1>2, JointTexts
  <2>2. Len(t) \in Nat /\ Len(t) - Len(b.text) = Len(s)
    BY <1>2, JointLengths
  <2> QED
    BY <1>3, <2>1, <2>2, TextAssumption DEF Held
<1> HIDE DEF end
<1>6. \/ r.undo = Append(b.undo, one)
      \/ /\ ~joined /\ b.undo # <<>> /\ top.insert /\ top.pos + Len(top.text) = b.cursor
         /\ r.undo = Append(Front(b.undo), grown)
  BY <1>4 DEF InsertRecorded, NewStep
<1>7. CASE r.undo = Append(b.undo, one)
  <2>1. one \in WholeSteps /\ one.text # <<>>
    BY <1>3 DEF WholeSteps
  <2>2. Linked(one, b.text, t)
    BY <1>1, <1>2, <1>5, <2>1 DEF Linked
  <2>3. one.joined = joined /\ CaretOf(one) = <<b.cursor, b.anchor>> /\ one.insert
    BY DEF CaretOf
  <2> HIDE DEF one
  <2>4. SoundBuffer(r, Append(e, t), <<t>>)
    BY <1>4, <1>5, <1>7, <2>1, <2>2, SoundWithStep
  <2>5. Adds(b, e, r, Append(e, t), joined)
    BY <1>4, <1>7, <2>1, <2>3 DEF Adds
  <2> QED
    BY <1>4, <2>4, <2>5 DEF r, t, end
<1>8. CASE /\ ~joined /\ b.undo # <<>> /\ top.insert /\ top.pos + Len(top.text) = b.cursor
           /\ r.undo = Append(Front(b.undo), grown)
  <2> DEFINE before == e[Len(b.undo)]
             joint == top.text \o s
  <2>1. Linked(top, before, b.text)
    <3>1. LinkedTo(Last(b.undo), b.text, e[Len(b.undo)], TRUE)
      BY <1>1, <1>8, LineShrinks
    <3> QED
      BY <3>1 DEF LinkedTo
  <2>2. grown = [top EXCEPT !.text = joint]
    OBVIOUS
  <2> HIDE DEF before, top, grown
  <2>3. /\ top \in WholeSteps /\ top.text \in Words /\ top.pos \in Nat
        /\ Joint(top.pos, top.text, before, b.text) /\ before \in Held
        /\ IsOffset(before, top.cursor) /\ IsOffset(before, top.anchor)
    BY <1>8, <2>1 DEF Linked, WholeSteps
  <2>4. joint \in Words /\ joint # <<>> /\ Joint(top.pos, joint, before, t)
    <3>1. top.text \o s \in Words
      BY <2>3, WordsMeet
    <3>2. top.text \o s # <<>>
      <4>1. s \in Seq(Bytes) /\ top.text \in Seq(Bytes)
        BY <2>3 DEF Words
      <4> QED
        BY <4>1, ConcatEqualIffEmpty
    <3>3. Joint(top.pos, top.text \o s, before, t)
      BY <1>2, <1>3, <1>8, <2>3, JointsGrow
    <3> QED
      BY <3>1, <3>2, <3>3
  <2> HIDE DEF joint
  <2>5. /\ grown.insert = top.insert /\ grown.joined = top.joined
        /\ grown.cursor = top.cursor /\ grown.anchor = top.anchor
        /\ grown.pos = top.pos /\ grown.text = joint /\ grown \in WholeSteps
    BY <2>2, <2>3, <2>4 DEF WholeSteps
  <2>6. Linked(grown, before, t)
    BY <1>5, <1>8, <2>3, <2>4, <2>5 DEF Linked
  <2>7. SoundBuffer(r, Append(Front(e), t), <<t>>)
    <3>1. Linked(grown, e[Len(b.undo)], t)
      BY <2>6 DEF before
    <3>2. grown.text # <<>>
      BY <2>4, <2>5
    <3> QED
      BY <1>4, <1>5, <1>8, <2>5, <3>1, <3>2, SoundWithStep
  <2>8. Grows(b, e, r, Append(Front(e), t))
    BY <1>4, <1>8, <2>5 DEF Grows, CaretOf, top
  <2> QED
    BY <1>4, <1>8, <2>7, <2>8 DEF r, t, end, top
<1> QED
  BY <1>6, <1>7, <1>8

\* An undo goes back along the line of texts, a redo forward (undo_one, redo_one).
LEMMA UndoingIsSound ==
  ASSUME NEW b, NEW e, NEW l, SoundBuffer(b, e, l), b.undo # <<>>
  PROVE  LET r == OneUndone(b)
             step == Last(b.undo)
         IN  /\ SoundBuffer(r, Front(e), Append(l, r.text))
             /\ r.text = e[Len(b.undo)]
             /\ r.undo = Front(b.undo) /\ r.redo = Append(b.redo, step)
             /\ <<r.cursor, r.anchor>> = CaretOf(step)
             /\ step \in WholeSteps
<1> DEFINE r == OneUndone(b)
           step == Last(b.undo)
           before == e[Len(b.undo)]
<1>1. Line(e, b.undo, b.text, TRUE) /\ Line(l, b.redo, b.text, FALSE)
  BY DEF SoundBuffer
<1>2. LinkedTo(step, b.text, before, TRUE) /\ Line(Front(e), Front(b.undo), before, TRUE)
  BY <1>1, LineShrinks
<1>3. /\ r.text = TakenBack(b.text, step) /\ r.cursor = step.cursor /\ r.anchor = step.anchor
      /\ r.undo = Front(b.undo) /\ r.redo = Append(b.redo, step)
      /\ r = [text |-> r.text, cursor |-> r.cursor, anchor |-> r.anchor,
              undo |-> r.undo, redo |-> r.redo]
  BY DEF OneUndone
<1> HIDE DEF r, step, before
<1>4. r.text = before /\ before \in Held /\ step \in WholeSteps
  BY <1>2, <1>3, LinkIsCrossed DEF Crossed
<1>5. /\ Linked(step, before, b.text)
      /\ IsOffset(before, step.cursor) /\ IsOffset(before, step.anchor)
  BY <1>2 DEF LinkedTo, Linked
<1>6. Line(Append(l, before), Append(b.redo, step), before, FALSE)
  <2>1. LinkedTo(step, before, b.text, FALSE)
    BY <1>5 DEF LinkedTo
  <2> QED
    BY <1>1, <2>1, LineGrows
<1>7. SoundBuffer(r, Front(e), Append(l, r.text))
  BY <1>2, <1>3, <1>4, <1>5, <1>6 DEF SoundBuffer
<1>8. CaretOf(step) = <<r.cursor, r.anchor>>
  BY <1>3 DEF CaretOf
<1> QED
  BY <1>3, <1>4, <1>7, <1>8 DEF r, step, before

LEMMA RedoingIsSound ==
  ASSUME NEW b, NEW e, NEW l, SoundBuffer(b, e, l), b.redo # <<>>
  PROVE  LET r == OneRedone(b)
             step == Last(b.redo)
         IN  /\ SoundBuffer(r, Append(e, r.text), Front(l))
             /\ r.text = l[Len(b.redo)]
             /\ r.undo = Append(b.undo, step) /\ r.redo = Front(b.redo)
             /\ step \in WholeSteps
<1> DEFINE r == OneRedone(b)
           step == Last(b.redo)
           after == l[Len(b.redo)]
           end == step.pos + (IF step.insert THEN Len(step.text) ELSE 0)
<1>1. Line(e, b.undo, b.text, TRUE) /\ Line(l, b.redo, b.text, FALSE)
  BY DEF SoundBuffer
<1>2. LinkedTo(step, b.text, after, FALSE) /\ Line(Front(l), Front(b.redo), after, FALSE)
  BY <1>1, LineShrinks
<1>3. /\ r.text = Repeated(b.text, step) /\ r.cursor = end /\ r.anchor = end
      /\ r.undo = Append(b.undo, step) /\ r.redo = Front(b.redo)
      /\ r = [text |-> r.text, cursor |-> r.cursor, anchor |-> r.anchor,
              undo |-> r.undo, redo |-> r.redo]
  BY DEF OneRedone
<1> HIDE DEF r, step, after, end
<1>4. r.text = after /\ after \in Held /\ step \in WholeSteps
  BY <1>2, <1>3, LinkIsCrossed DEF Crossed
<1>5. Linked(step, b.text, after)
  BY <1>2 DEF LinkedTo
<1>6. IsOffset(after, end)
  <2>1. step.text \in Words /\ step.insert \in BOOLEAN /\ step.pos \in Nat
    BY <1>4 DEF WholeSteps
  <2>2. CASE step.insert
    <3>1. Joint(step.pos, step.text, b.text, after)
      BY <1>5, <2>2 DEF Linked
    <3>2. IsOffset(after, step.pos + Len(step.text))
      BY <2>1, <3>1, JointTexts
    <3> QED
      BY <2>2, <3>2 DEF end
  <2>3. CASE ~step.insert
    <3>1. Joint(step.pos, step.text, after, b.text)
      BY <1>5, <2>3 DEF Linked
    <3>2. IsOffset(after, step.pos)
      BY <2>1, <3>1, JointTexts
    <3> QED
      BY <2>1, <2>3, <3>2 DEF end
  <2> QED
    BY <2>2, <2>3
<1>7. Line(Append(e, after), Append(b.undo, step), after, TRUE)
  <2>1. LinkedTo(step, after, b.text, TRUE)
    BY <1>5 DEF LinkedTo
  <2> QED
    BY <1>1, <2>1, LineGrows
<1>8. SoundBuffer(r, Append(e, r.text), Front(l))
  BY <1>2, <1>3, <1>4, <1>6, <1>7 DEF SoundBuffer
<1> QED
  BY <1>3, <1>4, <1>8 DEF r, step, after

--------------------------------------------------------------------------------
(* The caret.                                                              *)

\* What a caret movement asks of the text is an offset between characters,
\* though word_left, word_right and the line functions look at single bytes.
LEMMA EndsAreOffsets ==
  ASSUME text \in Words
  PROVE  /\ Len(text) \in Nat /\ Boundaries \in SUBSET (0 .. Len(text))
         /\ 0 \in Boundaries /\ Len(text) \in Boundaries
         /\ \A p : p \in Boundaries <=> IsOffset(text, p)
<1>1. Len(text) \in Nat
  BY DEF Words
<1>2. Boundary(text, 0) /\ Boundary(text, Len(text))
  BY <1>1 DEF Words, WellFormed, Boundary
<1> QED
  BY <1>1, <1>2 DEF Boundaries, IsOffset

LEMMA SnappedIsOffset ==
  ASSUME text \in Words, NEW p \in 0 .. Len(text)
  PROVE  SnappedTo(p) \in Boundaries
<1> DEFINE S == {q \in Boundaries : q <= p}
<1>1. S \in SUBSET (0 .. Len(text)) /\ S # {} /\ 0 \in Int /\ Len(text) \in Int
  BY EndsAreOffsets
<1>2. SnappedTo(p) = Max(S) /\ S \subseteq Boundaries
  BY DEF SnappedTo
<1> HIDE DEF S
<1>3. Max(S) \in S
  BY <1>1, MaxIsGreatest
<1> QED
  BY <1>2, <1>3

LEMMA StepsAreOffsets ==
  ASSUME text \in Words, NEW p \in Boundaries
  PROVE  /\ Before(p) \in Boundaries /\ After(p) \in Boundaries
         /\ Before(p) <= p /\ p <= After(p)
<1>1. Boundaries \in SUBSET (0 .. Len(text)) /\ Len(text) \in Nat
      /\ 0 \in Boundaries /\ Len(text) \in Boundaries /\ p \in 0 .. Len(text)
  BY EndsAreOffsets
<1>2. Before(p) \in Boundaries /\ Before(p) <= p
  <2>1. CASE p = 0
    BY <1>1, <2>1 DEF Before
  <2>2. CASE p # 0
    <3> DEFINE S == {q \in Boundaries : q < p}
    <3>1. S \in SUBSET (0 .. Len(text)) /\ 0 \in S /\ 0 \in Int /\ Len(text) \in Int
      <4>1. 0 < p
        BY <1>1, <2>2
      <4>2. S \subseteq Boundaries /\ 0 \in S
        BY <1>1, <4>1
      <4> HIDE DEF S
      <4> QED
        BY <1>1, <4>2
    <3>2. Before(p) = Max(S)
      BY <2>2 DEF Before
    <3>3. \A q \in S : q \in Boundaries /\ q < p
      OBVIOUS
    <3> HIDE DEF S
    <3>4. Max(S) \in S
      BY <3>1, MaxIsGreatest
    <3>5. Before(p) \in Boundaries /\ Before(p) < p
      BY <3>2, <3>3, <3>4
    <3>6. \A q \in Boundaries : q \in Int
      BY <1>1
    <3>7. p \in Int /\ Before(p) \in Int
      BY <3>5, <3>6
    <3> QED
      BY <3>5, <3>7
  <2> QED
    BY <2>1, <2>2
<1>3. After(p) \in Boundaries /\ p <= After(p)
  <2>1. CASE p = Len(text)
    BY <1>1, <2>1 DEF After
  <2>2. CASE p # Len(text)
    <3> DEFINE S == {q \in Boundaries : q > p}
    <3>1. S \in SUBSET Nat /\ Len(text) \in S
      <4>1. Len(text) > p
        BY <1>1, <2>2
      <4>2. \A q \in Boundaries : q \in Nat
        BY <1>1
      <4> QED
        BY <1>1, <4>1, <4>2
    <3>2. After(p) = Min(S)
      BY <2>2 DEF After
    <3>3. \A q \in S : q \in Boundaries /\ q > p
      OBVIOUS
    <3> HIDE DEF S
    <3>4. Min(S) \in S
      BY <3>1, MinIsLeast
    <3>5. After(p) \in Boundaries /\ After(p) > p
      BY <3>2, <3>3, <3>4
    <3>6. \A q \in Boundaries : q \in Int
      BY <1>1
    <3>7. p \in Int /\ After(p) \in Int
      BY <3>5, <3>6
    <3> QED
      BY <3>5, <3>7
  <2> QED
    BY <2>1, <2>2
<1> QED
  BY <1>2, <1>3

\* Before a byte that is no part of a longer character, and behind a line
\* break, a character ends.
LEMMA OffsetsOfBytes ==
  ASSUME text \in Words, NEW p \in 0 .. Len(text)
  PROVE  /\ p < Len(text) /\ text[p + 1] # Cont => p \in Boundaries
         /\ p > 0 /\ text[p] # Lead => p \in Boundaries
<1>1. Len(text) \in Nat /\ WellFormed(text)
  BY DEF Words
<1> QED
  BY <1>1 DEF WellFormed, Boundaries, Boundary

LEMMA WordsAreOffsets ==
  ASSUME text \in Words, NEW pos \in Boundaries
  PROVE  WordLeft(pos) \in Boundaries /\ WordRight(pos) \in Boundaries
<1>1. Boundaries \in SUBSET (0 .. Len(text)) /\ Len(text) \in Nat
      /\ 0 \in Boundaries /\ Len(text) \in Boundaries /\ pos \in 0 .. Len(text)
  BY EndsAreOffsets
<1>2. Break # Cont /\ Break # Lead
  BY DEF Break, Cont, Lead
<1>3. WordLeft(pos) \in Boundaries
  <2> DEFINE G == {p \in 0 .. pos : \A i \in p + 1 .. pos : IsSpace(i)}
             gap == Min(G)
             W == {p \in 0 .. gap : \A i \in p + 1 .. gap : ~IsSpace(i)}
  <2>1. G \in SUBSET Nat /\ pos \in G
    BY <1>1
  <2>2. gap \in G
    BY <2>1, MinIsLeast
  <2>3. gap \in 0 .. pos /\ (gap < pos => text[gap + 1] = Break)
    BY <1>1, <2>2 DEF IsSpace
  <2>4. gap \in Boundaries
    <3>1. CASE gap = pos
      BY <3>1
    <3>2. CASE gap < pos
      BY <1>1, <1>2, <2>3, <3>2, OffsetsOfBytes
    <3> QED
      BY <1>1, <2>3, <3>1, <3>2
  <2> HIDE DEF gap
  <2>5. W \in SUBSET Nat /\ gap \in W
    BY <2>3
  <2>6. Min(W) \in W /\ \A p \in W : Min(W) <= p
    BY <2>5, MinIsLeast
  <2> DEFINE m == Min(W)
  <2>7. m \in 0 .. gap /\ \A i \in m + 1 .. gap : ~IsSpace(i)
    BY <2>6
  <2>8. m = 0 \/ text[m] = Break
    <3> SUFFICES ASSUME m > 0, text[m] # Break PROVE FALSE
      BY <2>7
    <3>1. \A i \in (m - 1) + 1 .. gap : i = m \/ i \in m + 1 .. gap
      BY <2>7
    <3>2. ~IsSpace(m)
      BY DEF IsSpace
    <3>3. \A i \in (m - 1) + 1 .. gap : ~IsSpace(i)
      BY <2>7, <3>1, <3>2
    <3>4. m - 1 \in 0 .. gap
      BY <2>3, <2>7
    <3>5. m - 1 \in W
      BY <3>3, <3>4
    <3> QED
      BY <2>6, <2>7, <3>5
  <2> HIDE DEF m
  <2>9. m \in Boundaries
    <3>1. m \in 0 .. Len(text)
      BY <1>1, <2>3, <2>7
    <3> QED
      BY <1>1, <1>2, <2>8, <3>1, OffsetsOfBytes
  <2> QED
    BY <2>9 DEF WordLeft, m, gap
<1>4. WordRight(pos) \in Boundaries
  <2> DEFINE W == {p \in pos .. Len(text) : \A i \in pos + 1 .. p : ~IsSpace(i)}
             word == Max(W)
             G == {p \in word .. Len(text) : \A i \in word + 1 .. p : IsSpace(i)}
  <2>1. W \in SUBSET (pos .. Len(text)) /\ pos \in W /\ pos \in Int
    BY <1>1
  <2>2. word \in W /\ \A p \in W : p <= word
    <3> HIDE DEF W
    <3>1. W # {} /\ Len(text) \in Int
      BY <1>1, <2>1
    <3> QED
      BY <2>1, <3>1, MaxIsGreatest
  <2>3. word \in pos .. Len(text) /\ (word = Len(text) \/ text[word + 1] = Break)
    <3>1. word \in pos .. Len(text)
      BY <2>2
    <3>2. ASSUME word # Len(text), text[word + 1] # Break
          PROVE  FALSE
      <4>1. \A i \in pos + 1 .. word + 1 : i = word + 1 \/ i \in pos + 1 .. word
        BY <1>1, <3>1
      <4>2. word + 1 \in W
        <5>1. word + 1 \in pos .. Len(text) /\ word + 1 <= Len(text)
          BY <1>1, <2>2, <3>1, <3>2
        <5>2. \A i \in pos + 1 .. word : ~IsSpace(i)
          BY <2>2
        <5>3. ~IsSpace(word + 1)
          BY <3>2 DEF IsSpace
        <5> QED
          BY <4>1, <5>1, <5>2, <5>3
      <4> QED
        BY <1>1, <2>2, <3>1, <4>2
    <3> QED
      BY <3>1, <3>2
  <2>4. word \in Boundaries
    <3>1. word \in 0 .. Len(text)
      BY <1>1, <2>3
    <3> QED
      BY <1>1, <1>2, <2>3, <3>1, OffsetsOfBytes
  <2> HIDE DEF word
  <2>5. G \in SUBSET (word .. Len(text)) /\ word \in G /\ word \in Int
    BY <1>1, <2>3
  <2>6. Max(G) \in G
    <3> HIDE DEF G
    <3>1. G # {} /\ Len(text) \in Int
      BY <1>1, <2>5
    <3> QED
      BY <2>5, <3>1, MaxIsGreatest
  <2> DEFINE m == Max(G)
  <2>7. m \in word .. Len(text) /\ \A i \in word + 1 .. m : IsSpace(i)
    BY <2>6
  <2> HIDE DEF m
  <2>8. m = word \/ (m > 0 /\ text[m] = Break)
    BY <1>1, <2>3, <2>7 DEF IsSpace
  <2>9. m \in Boundaries
    <3>1. m \in 0 .. Len(text)
      BY <1>1, <2>3, <2>7
    <3> QED
      BY <1>2, <2>4, <2>8, <3>1, OffsetsOfBytes
  <2> QED
    BY <2>9 DEF WordRight, m, word
<1> QED
  BY <1>3, <1>4

LEMMA LinesAreCounted ==
  ASSUME text \in Words
  PROVE  /\ LineAt(0) = 0
         /\ \A p \in 0 .. Len(text) : LineAt(p) \in Nat
         /\ \A p \in 0 .. Len(text) - 1 :
              LineAt(p + 1) = LineAt(p) + (IF text[p + 1] = Break THEN 1 ELSE 0)
<1>1. Len(text) \in Nat
  BY DEF Words
<1>2. \A p \in Nat : IsFiniteSet(Breaks(p)) /\ Cardinality(Breaks(p)) \in Nat
  <2> TAKE p \in Nat
  <2>1. Breaks(p) \in SUBSET (1 .. p)
    BY DEF Breaks
  <2>2. IsFiniteSet(1 .. p)
    BY FS_Interval
  <2>3. IsFiniteSet(Breaks(p))
    BY <2>1, <2>2, FS_Subset
  <2> QED
    BY <2>3, FS_CardinalityType
<1>3. LineAt(0) = 0
  <2>1. Breaks(0) = {}
    BY DEF Breaks
  <2> QED
    BY <2>1, FS_EmptySet DEF LineAt
<1>4. ASSUME NEW p \in 0 .. Len(text) - 1
      PROVE  LineAt(p + 1) = LineAt(p) + (IF text[p + 1] = Break THEN 1 ELSE 0)
  <2>1. p \in Nat
    BY <1>1
  <2>2. CASE text[p + 1] = Break
    <3>1. Breaks(p + 1) = Breaks(p) \union {p + 1} /\ p + 1 \notin Breaks(p)
      BY <2>1, <2>2 DEF Breaks
    <3>2. Cardinality(Breaks(p + 1)) = Cardinality(Breaks(p)) + 1
      BY <1>2, <2>1, <3>1, FS_AddElement
    <3> QED
      BY <2>2, <3>2 DEF LineAt
  <2>3. CASE text[p + 1] # Break
    <3>1. Breaks(p + 1) = Breaks(p)
      BY <2>1, <2>3 DEF Breaks
    <3> QED
      BY <1>2, <2>1, <2>3, <3>1 DEF LineAt
  <2> QED
    BY <2>2, <2>3
<1>5. \A p \in 0 .. Len(text) : LineAt(p) \in Nat
  BY <1>1, <1>2 DEF LineAt
<1> QED
  BY <1>3, <1>4, <1>5

\* There is a place on every line.
LEMMA LinesAreThere ==
  ASSUME text \in Words, NEW line \in 0 .. LastLine
  PROVE  \E p \in 0 .. Len(text) : LineAt(p) = line
<1>1. Len(text) \in Nat
  BY DEF Words
<1> DEFINE S == {p \in 0 .. Len(text) : LineAt(p) <= line}
<1>2. \A p \in 0 .. Len(text) : LineAt(p) \in Nat
  BY LinesAreCounted
<1>3. 0 \in S /\ S \in SUBSET (0 .. Len(text)) /\ 0 \in Int /\ Len(text) \in Int
  <2>1. LineAt(0) <= line
    BY LinesAreCounted
  <2> QED
    BY <1>1, <2>1
<1> DEFINE m == Max(S)
<1>4. m \in S /\ \A p \in S : p <= m
  <2> HIDE DEF S
  <2> QED
    BY <1>3, MaxIsGreatest
<1> HIDE DEF m
<1>5. m \in 0 .. Len(text) /\ LineAt(m) <= line
  BY <1>4
<1>6. CASE m = Len(text)
  BY <1>2, <1>5, <1>6 DEF LastLine
<1>7. CASE m # Len(text)
  <2>1. m + 1 \in 0 .. Len(text) /\ m \in 0 .. Len(text) - 1
    BY <1>1, <1>5, <1>7
  <2>2. m + 1 \notin S
    BY <1>1, <1>4, <1>5
  <2>3. ~(LineAt(m + 1) <= line)
    BY <2>1, <2>2
  <2>4. LineAt(m + 1) = LineAt(m) + (IF text[m + 1] = Break THEN 1 ELSE 0)
    BY <2>1, LinesAreCounted
  <2>5. LineAt(m) \in Nat /\ line \in Int
    BY <1>2, <1>5
  <2>6. LineAt(m) = line
    BY <1>5, <2>3, <2>4, <2>5
  <2> QED
    BY <1>5, <2>6
<1> QED
  BY <1>6, <1>7

LEMMA LinesAreOffsets ==
  ASSUME text \in Words
  PROVE  /\ \A line \in 0 .. LastLine : LineStart(line) \in Boundaries
         /\ \A p \in Boundaries : LineAt(p) \in Nat /\ LineStart(LineAt(p)) \in Boundaries
         /\ \A p \in Boundaries : LineEnd(p) \in Boundaries /\ p <= LineEnd(p)
<1>1. /\ Len(text) \in Nat /\ Boundaries \in SUBSET (0 .. Len(text)) /\ 0 \in Boundaries
      /\ Len(text) \in Boundaries
  BY EndsAreOffsets
<1>2. Break # Cont /\ Break # Lead
  BY DEF Break, Cont, Lead
<1>3. \A p \in 0 .. Len(text) : LineAt(p) \in Nat
  BY LinesAreCounted
<1>4. ASSUME NEW line, \E p \in 0 .. Len(text) : LineAt(p) = line
      PROVE  LineStart(line) \in Boundaries
  <2>1. CASE line = 0
    BY <1>1, <2>1 DEF LineStart
  <2>2. CASE line # 0
    <3> DEFINE S == {p \in 0 .. Len(text) : LineAt(p) = line}
               m == Min(S)
    <3>1. m \in S /\ \A p \in S : m <= p
      <4>1. S \in SUBSET Nat /\ S # {}
        BY <1>4
      <4> HIDE DEF S
      <4> QED
        BY <4>1, MinIsLeast
    <3> HIDE DEF m
    <3>2. m \in 0 .. Len(text) /\ LineAt(m) = line
      BY <3>1
    <3>3. m # 0
      BY <2>2, <3>2, LinesAreCounted
    <3>4. text[m] = Break
      <4> SUFFICES ASSUME text[m] # Break PROVE FALSE
        OBVIOUS
      <4>1. m - 1 \in 0 .. Len(text) - 1 /\ m - 1 \in 0 .. Len(text) /\ (m - 1) + 1 = m
        BY <1>1, <3>2, <3>3
      <4>2. LineAt((m - 1) + 1) = LineAt(m - 1) + (IF text[(m - 1) + 1] = Break THEN 1 ELSE 0)
        BY <4>1, LinesAreCounted
      <4>3. LineAt(m - 1) \in Nat
        BY <1>3, <4>1
      <4>4. LineAt(m) = LineAt(m - 1) + 0
        BY <4>1, <4>2
      <4>5. m - 1 \in S
        BY <3>2, <4>1, <4>3, <4>4
      <4> QED
        BY <3>1, <3>2, <4>5
    <3>5. m \in Boundaries
      BY <1>1, <1>2, <3>2, <3>3, <3>4, OffsetsOfBytes
    <3> QED
      BY <2>2, <3>5 DEF LineStart, m
  <2> QED
    BY <2>1, <2>2
<1>5. \A line \in 0 .. LastLine : LineStart(line) \in Boundaries
  BY <1>4, LinesAreThere
<1>6. \A p \in Boundaries : LineAt(p) \in Nat /\ LineStart(LineAt(p)) \in Boundaries
  BY <1>1, <1>3, <1>4
<1>7. ASSUME NEW p \in Boundaries
      PROVE  LineEnd(p) \in Boundaries /\ p <= LineEnd(p)
  <2>1. p \in 0 .. Len(text)
    BY <1>1
  <2> DEFINE S == {q \in p .. Len(text) : q = Len(text) \/ text[q + 1] = Break}
             m == Min(S)
  <2>2. m \in S
    <3>1. S \in SUBSET Nat /\ S # {}
      BY <1>1, <2>1
    <3> HIDE DEF S
    <3> QED
      BY <3>1, MinIsLeast
  <2> HIDE DEF m
  <2>3. m \in p .. Len(text) /\ (m = Len(text) \/ text[m + 1] = Break)
    BY <2>2
  <2>4. m \in Boundaries
    <3>1. m \in 0 .. Len(text)
      BY <1>1, <2>1, <2>3
    <3> QED
      BY <1>1, <1>2, <2>3, <3>1, OffsetsOfBytes
  <2>5. LineEnd(p) = m
    BY DEF LineEnd, m
  <2> QED
    BY <2>3, <2>4, <2>5
<1> QED
  BY <1>5, <1>6, <1>7

\* A column is never beyond the end of the text, and at every column there is an
\* offset, however short the line.
LEMMA ColumnsAreOffsets ==
  ASSUME text \in Words, NEW start \in Boundaries
  PROVE  /\ \A p \in Boundaries : Column(start, p) \in 0 .. Len(text)
         /\ \A col \in Nat : AtColumn(start, col) \in Boundaries
<1> DEFINE n == Len(text)
<1>1. n \in Nat /\ start \in 0 .. n /\ \A q \in Boundaries : q \in 0 .. n
  BY EndsAreOffsets
<1> HIDE DEF n
<1>2. ASSUME NEW p \in Boundaries
      PROVE  Column(start, p) \in 0 .. n
  <2> DEFINE S == {q \in Boundaries : start < q /\ q <= p}
  <2>1. \A q \in S : q \in 1 .. n
    <3> TAKE q \in S
    <3>1. q \in 0 .. n /\ start < q
      BY <1>1
    <3> QED
      BY <1>1, <3>1
  <2>2. IsFiniteSet(1 .. n) /\ Cardinality(1 .. n) = n
    <3>1. 1 \in Int /\ n \in Int
      BY <1>1
    <3>2. IsFiniteSet(1 .. n) /\ Cardinality(1 .. n) = IF 1 > n THEN 0 ELSE n - 1 + 1
      BY <3>1, FS_Interval
    <3> QED
      BY <1>1, <3>2
  <2>3. Column(start, p) = Cardinality(S)
    BY DEF Column
  <2> HIDE DEF S
  <2>4. IsFiniteSet(S) /\ Cardinality(S) <= n
    <3>1. S \in SUBSET (1 .. n)
      BY <2>1
    <3> QED
      BY <2>2, <3>1, FS_Subset
  <2>5. Cardinality(S) \in Nat
    BY <2>4, FS_CardinalityType
  <2> QED
    BY <1>1, <2>3, <2>4, <2>5
<1>3. ASSUME NEW col \in Nat
      PROVE  AtColumn(start, col) \in Boundaries
  <2> DEFINE S == {p \in Boundaries : start <= p /\ p <= LineEnd(start) /\ Column(start, p) <= col}
  <2>1. Column(start, start) = 0
    <3>1. {q \in Boundaries : start < q /\ q <= start} = {}
      <4>1. \A q \in Boundaries : ~(start < q /\ q <= start)
        <5> TAKE q \in Boundaries
        <5>1. q \in 0 .. n
          BY <1>1
        <5> QED
          BY <1>1, <5>1
      <4> QED
        BY <4>1
    <3> QED
      BY <3>1, FS_EmptySet DEF Column
  <2>2. S \in SUBSET (0 .. n) /\ start \in S /\ S \subseteq Boundaries
    <3>1. start <= start /\ start <= LineEnd(start) /\ Column(start, start) <= col
      BY <1>1, <2>1, LinesAreOffsets
    <3>2. start \in S /\ S \subseteq Boundaries
      BY <3>1
    <3> HIDE DEF S
    <3> QED
      BY <1>1, <3>2
  <2>3. AtColumn(start, col) = Max(S)
    BY DEF AtColumn
  <2> HIDE DEF S
  <2>4. S # {} /\ 0 \in Int /\ n \in Int
    BY <1>1, <2>2
  <2>5. Max(S) \in S
    BY <2>2, <2>4, MaxIsGreatest
  <2> QED
    BY <2>2, <2>3, <2>5
<1> QED
  BY <1>2, <1>3 DEF n

--------------------------------------------------------------------------------
(* The versions a stack of steps stands for.                               *)

\* What the recursion over a stack counts.
Counts(f, steps) ==
  f = [k \in 0 .. Len(steps) |->
         IF k = 0 THEN <<>>
         ELSE IF steps[k].joined THEN f[k - 1] ELSE Append(f[k - 1], k)]

\* There is one such count, and it counts the steps of a longer stack alike.
LEMMA CountsAgree ==
  ASSUME NEW s \in Seq(WholeSteps), NEW t \in Seq(WholeSteps), Len(s) <= Len(t),
         \A i \in 1 .. Len(s) : s[i] = t[i],
         NEW f, Counts(f, s), NEW g, Counts(g, t)
  PROVE  \A k \in 0 .. Len(s) : f[k] = g[k]
<1> DEFINE n == Len(s)
           m == Len(t)
           Wrong == {k \in 0 .. n : f[k] # g[k]}
<1>1. n \in Nat /\ m \in Nat /\ n <= m
  OBVIOUS
<1>2. f = [k \in 0 .. n |-> IF k = 0 THEN <<>>
                            ELSE IF s[k].joined THEN f[k - 1] ELSE Append(f[k - 1], k)]
  BY DEF Counts
<1>3. g = [k \in 0 .. m |-> IF k = 0 THEN <<>>
                            ELSE IF t[k].joined THEN g[k - 1] ELSE Append(g[k - 1], k)]
  BY DEF Counts
<1> HIDE DEF n, m
<1> SUFFICES ASSUME Wrong # {} PROVE FALSE
  BY DEF n
<1>4. PICK k \in Wrong : \A j \in Wrong : k <= j
  <2>1. Wrong \in SUBSET Nat
    BY <1>1
  <2> HIDE DEF Wrong
  <2> QED
    BY <2>1, MinIsLeast, Zenon
<1>5. k # 0
  BY <1>1, <1>2, <1>3
<1>6. k \in 1 .. n /\ k \in 0 .. m /\ k - 1 \in 0 .. n
  BY <1>1, <1>5
<1>7. k - 1 \notin Wrong
  BY <1>4, <1>6
<1>8. f[k - 1] = g[k - 1]
  BY <1>6, <1>7
<1>9. f[k] = IF s[k].joined THEN f[k - 1] ELSE Append(f[k - 1], k)
  BY <1>2, <1>5
<1>10. g[k] = IF t[k].joined THEN g[k - 1] ELSE Append(g[k - 1], k)
  BY <1>3, <1>5, <1>6
<1>11. s[k] = t[k]
  BY <1>6 DEF n
<1>12. f[k] = g[k]
  BY <1>8, <1>9, <1>10, <1>11, Zenon
<1> QED
  BY <1>12

\* A count of a stack goes on with the step on top of it.
LEMMA CountGoesOn ==
  ASSUME NEW s \in Seq(WholeSteps), NEW step \in WholeSteps, NEW f, Counts(f, s)
  PROVE  LET n == Len(s)
             g == [k \in 0 .. n + 1 |-> IF k <= n THEN f[k]
                                        ELSE IF step.joined THEN f[n] ELSE Append(f[n], n + 1)]
         IN  Counts(g, Append(s, step))
<1> DEFINE n == Len(s)
           more == Append(s, step)
           g == [k \in 0 .. n + 1 |-> IF k <= n THEN f[k]
                                      ELSE IF step.joined THEN f[n] ELSE Append(f[n], n + 1)]
<1>1. /\ n \in Nat /\ Len(more) = n + 1 /\ more[n + 1] = step
      /\ \A i \in 1 .. n : more[i] = s[i]
  OBVIOUS
<1>2. f = [k \in 0 .. n |-> IF k = 0 THEN <<>>
                            ELSE IF s[k].joined THEN f[k - 1] ELSE Append(f[k - 1], k)]
  BY DEF Counts
<1> HIDE DEF n, more
<1>3. ASSUME NEW k \in 0 .. n + 1
      PROVE  g[k] = IF k = 0 THEN <<>>
                    ELSE IF more[k].joined THEN g[k - 1] ELSE Append(g[k - 1], k)
  <2>1. CASE k = 0
    BY <1>1, <1>2, <2>1
  <2>2. CASE k \in 1 .. n
    <3>1. k # 0 /\ k \in 0 .. n /\ k <= n /\ k - 1 \in 0 .. n + 1 /\ k - 1 <= n
      BY <1>1, <2>2
    <3>2. g[k] = f[k] /\ g[k - 1] = f[k - 1] /\ more[k] = s[k]
      BY <1>1, <2>2, <3>1
    <3>3. f[k] = IF s[k].joined THEN f[k - 1] ELSE Append(f[k - 1], k)
      BY <1>2, <3>1
    <3> HIDE DEF g
    <3> QED
      BY <3>1, <3>2, <3>3
  <2>3. CASE k = n + 1
    <3>1. k # 0 /\ ~(k <= n) /\ k - 1 = n /\ n \in 0 .. n + 1 /\ n <= n
      BY <1>1, <2>3
    <3>2. g[k] = (IF step.joined THEN f[n] ELSE Append(f[n], n + 1)) /\ g[k - 1] = f[n]
      BY <3>1
    <3> HIDE DEF g
    <3> QED
      BY <1>1, <2>3, <3>1, <3>2
  <2> QED
    BY <1>1, <2>1, <2>2, <2>3
<1>4. g = [k \in 0 .. n + 1 |-> IF k = 0 THEN <<>>
                                ELSE IF more[k].joined THEN g[k - 1] ELSE Append(g[k - 1], k)]
  BY <1>3
<1>5. Counts(g, more)
  <2> HIDE DEF g
  <2> QED
    BY <1>1, <1>4 DEF Counts
<1> QED
  BY <1>5 DEF n, more

LEMMA CountExists ==
  ASSUME NEW s \in Seq(WholeSteps)
  PROVE  \E f : Counts(f, s)
<1> DEFINE Lacking == {n \in Nat : \E t \in Seq(WholeSteps) : Len(t) = n /\ ~ \E f : Counts(f, t)}
<1> SUFFICES ASSUME Lacking # {} PROVE FALSE
  <2>1. Len(s) \in Nat
    OBVIOUS
  <2> QED
    BY <2>1
<1>1. PICK n \in Lacking : \A m \in Lacking : n <= m
  <2>1. Lacking \in SUBSET Nat
    OBVIOUS
  <2> HIDE DEF Lacking
  <2> QED
    BY <2>1, MinIsLeast, Zenon
<1>2. PICK t \in Seq(WholeSteps) : Len(t) = n /\ ~ \E f : Counts(f, t)
  OBVIOUS
<1>3. CASE t = <<>>
  <2> DEFINE f == [k \in 0 .. 0 |-> <<>>]
  <2>1. f = [k \in 0 .. Len(t) |-> IF k = 0 THEN <<>>
               ELSE IF t[k].joined THEN f[k - 1] ELSE Append(f[k - 1], k)]
    BY <1>3
  <2> QED
    BY <1>2, <2>1 DEF Counts
<1>4. CASE t # <<>>
  <2>1. PICK front \in Seq(WholeSteps), step \in WholeSteps : t = Append(front, step)
    BY <1>4, SequenceEmptyOrAppend
  <2>2. Len(t) = Len(front) + 1 /\ Len(front) \in Nat
    BY <2>1
  <2>3. Len(front) \notin Lacking
    BY <1>1, <1>2, <2>2
  <2>4. PICK f : Counts(f, front)
    BY <2>2, <2>3
  <2>5. \E g : Counts(g, t)
    BY <2>1, <2>4, CountGoesOn
  <2> QED
    BY <1>2, <2>5
<1> QED
  BY <1>3, <1>4

\* The steps that begin a version: a joined one belongs to the step below it.
LEMMA FirstsGrow ==
  ASSUME NEW s \in Seq(WholeSteps), NEW step \in WholeSteps
  PROVE  FirstsOf(Append(s, step)) = IF step.joined THEN FirstsOf(s)
                                     ELSE Append(FirstsOf(s), Len(s) + 1)
<1> DEFINE more == Append(s, step)
           n == Len(s)
<1>1. more \in Seq(WholeSteps) /\ Len(more) = n + 1 /\ n \in Nat
  OBVIOUS
<1>2. ASSUME NEW t \in Seq(WholeSteps)
      PROVE  \E f : Counts(f, t) /\ FirstsOf(t) = f[Len(t)]
  <2> DEFINE f == CHOOSE f : Counts(f, t)
  <2>1. Counts(f, t)
    BY CountExists, Zenon
  <2>2. FirstsOf(t) = f[Len(t)]
    BY Zenon DEF FirstsOf, Counts
  <2> QED
    BY <2>1, <2>2
<1>3. PICK f : Counts(f, s) /\ FirstsOf(s) = f[n]
  BY <1>2
<1>4. PICK h : Counts(h, more) /\ FirstsOf(more) = h[n + 1]
  BY <1>1, <1>2
<1> HIDE DEF n, more
<1> DEFINE g == [k \in 0 .. n + 1 |-> IF k <= n THEN f[k]
                                      ELSE IF step.joined THEN f[n] ELSE Append(f[n], n + 1)]
<1>5. Counts(g, more)
  BY <1>3, CountGoesOn DEF n, more
<1>6. g[n + 1] = IF step.joined THEN f[n] ELSE Append(f[n], n + 1)
  BY <1>1
<1> HIDE DEF g
<1>7. \A k \in 0 .. Len(more) : h[k] = g[k]
  <2>1. Len(more) <= Len(more) /\ \A i \in 1 .. Len(more) : more[i] = more[i]
    BY <1>1
  <2> QED
    BY <1>1, <1>4, <1>5, <2>1, CountsAgree
<1>8. h[n + 1] = g[n + 1]
  BY <1>1, <1>7
<1>9. FirstsOf(more) = IF step.joined THEN FirstsOf(s) ELSE Append(FirstsOf(s), n + 1)
  BY <1>3, <1>4, <1>6, <1>8, Zenon
<1> QED
  BY <1>9 DEF n, more

LEMMA NoFirsts == FirstsOf(<<>>) = <<>>
<1> DEFINE f == CHOOSE f : Counts(f, <<>>)
<1>1. <<>> \in Seq(WholeSteps) /\ Len(<<>>) = 0
  OBVIOUS
<1>2. Counts(f, <<>>)
  BY <1>1, CountExists, Zenon
<1>3. FirstsOf(<<>>) = f[Len(<<>>)]
  BY Zenon DEF FirstsOf, Counts
<1> HIDE DEF f
<1>4. f[0] = <<>>
  BY <1>1, <1>2 DEF Counts
<1> QED
  BY <1>1, <1>3, <1>4

LEMMA FirstsInRange ==
  ASSUME NEW s \in Seq(WholeSteps)
  PROVE  FirstsOf(s) \in Seq(1 .. Len(s))
<1> DEFINE Ranged(t) == FirstsOf(t) \in Seq(1 .. Len(t))
           Wrong == {n \in Nat : \E t \in Seq(WholeSteps) : Len(t) = n /\ ~Ranged(t)}
<1> SUFFICES ASSUME Wrong # {} PROVE FALSE
  <2>1. Len(s) \in Nat
    OBVIOUS
  <2> QED
    BY <2>1
<1>1. PICK n \in Wrong : \A m \in Wrong : n <= m
  <2>1. Wrong \in SUBSET Nat
    OBVIOUS
  <2> HIDE DEF Wrong
  <2> QED
    BY <2>1, MinIsLeast, Zenon
<1>2. PICK t \in Seq(WholeSteps) : Len(t) = n /\ ~Ranged(t)
  OBVIOUS
<1>3. t # <<>>
  <2>1. <<>> \in Seq(1 .. Len(<<>>))
    OBVIOUS
  <2> QED
    BY <1>2, <2>1, NoFirsts
<1>4. PICK front \in Seq(WholeSteps), step \in WholeSteps : t = Append(front, step)
  BY <1>3, SequenceEmptyOrAppend
<1>5. Len(t) = Len(front) + 1 /\ Len(front) \in Nat
  BY <1>4
<1>6. Ranged(front)
  <2>1. Len(front) \notin Wrong
    <3> HIDE DEF Wrong
    <3>1. ~(n <= Len(front))
      BY <1>2, <1>5
    <3> QED
      BY <1>1, <3>1
  <2> QED
    BY <1>5, <2>1
<1>7. FirstsOf(front) \in Seq(1 .. Len(t)) /\ Len(front) + 1 \in 1 .. Len(t)
  <2>1. 1 .. Len(front) \subseteq 1 .. Len(t)
    BY <1>5
  <2> QED
    BY <1>5, <1>6, <2>1, SeqMonotonic
<1>8. FirstsOf(t) = IF step.joined THEN FirstsOf(front) ELSE Append(FirstsOf(front), Len(front) + 1)
  BY <1>4, FirstsGrow
<1>9. Append(FirstsOf(front), Len(front) + 1) \in Seq(1 .. Len(t))
  BY <1>7, AppendProperties
<1>10. FirstsOf(t) \in Seq(1 .. Len(t))
  BY <1>7, <1>8, <1>9, Zenon
<1> QED
  BY <1>2, <1>10

\* Of the entries of v those at which a version begins.
VersionsOf(v, steps) == [k \in DOMAIN FirstsOf(steps) |-> v[FirstsOf(steps)[k]]]

LEMMA VersionsGrow ==
  ASSUME NEW s \in Seq(WholeSteps), NEW step \in WholeSteps, NEW v, NEW w,
         \A i \in 1 .. Len(s) : v[i] = w[i]
  PROVE  /\ \E S : VersionsOf(v, s) \in Seq(S)
         /\ VersionsOf(w, Append(s, step))
              = IF step.joined THEN VersionsOf(v, s)
                ELSE Append(VersionsOf(v, s), w[Len(s) + 1])
<1> DEFINE n == Len(s)
           S == {w[i] : i \in 1 .. n + 1}
           firsts == FirstsOf(s)
           m == Len(firsts)
           old == VersionsOf(v, s)
           more == Append(s, step)
           new == VersionsOf(w, more)
<1>1. n \in Nat /\ firsts \in Seq(1 .. n) /\ m \in Nat /\ DOMAIN firsts = 1 .. m
  BY FirstsInRange
<1>2. FirstsOf(more) = IF step.joined THEN firsts ELSE Append(firsts, n + 1)
  BY FirstsGrow
<1>3. old = [k \in 1 .. m |-> v[firsts[k]]]
  BY <1>1 DEF VersionsOf
<1>4. \A k \in 1 .. m : firsts[k] \in 1 .. n
  BY <1>1
<1>5. new = [k \in DOMAIN FirstsOf(more) |-> w[FirstsOf(more)[k]]]
  BY DEF VersionsOf
<1> HIDE DEF n, firsts, more, new
<1>6. \A k \in 1 .. m : v[firsts[k]] = w[firsts[k]] /\ w[firsts[k]] \in S
  BY <1>1, <1>4 DEF n
<1> HIDE DEF old
<1>7. old \in Seq(S) /\ Len(old) = m
  <2> HIDE DEF S, m
  <2>1. old \in [1 .. m -> S]
    BY <1>3, <1>6
  <2> QED
    BY <1>1, <2>1
<1>8. CASE step.joined
  <2>1. new = [k \in 1 .. m |-> w[firsts[k]]]
    BY <1>1, <1>2, <1>5, <1>8
  <2>2. new = old
    BY <1>3, <1>6, <2>1
  <2> QED
    BY <1>7, <1>8, <2>2 DEF new, old, more, n
<1>9. CASE ~step.joined
  <2> DEFINE longer == Append(firsts, n + 1)
  <2>1. /\ longer \in Seq(Nat) /\ Len(longer) = m + 1 /\ DOMAIN longer = 1 .. m + 1
        /\ longer[m + 1] = n + 1 /\ \A k \in 1 .. m : longer[k] = firsts[k]
    <3>1. firsts \in Seq(Nat) /\ n + 1 \in Nat
      <4>1. 1 .. n \subseteq Nat
        BY <1>1
      <4> QED
        BY <1>1, <4>1, SeqMonotonic
    <3> QED
      BY <3>1
  <2> HIDE DEF longer
  <2>2. new = [k \in 1 .. m + 1 |-> w[longer[k]]]
    BY <1>2, <1>5, <1>9, <2>1 DEF longer
  <2> DEFINE app == Append(old, w[n + 1])
  <2>3. w[n + 1] \in S
    BY <1>1
  <2> HIDE DEF S
  <2>4. /\ app \in Seq(S) /\ Len(app) = m + 1 /\ app[m + 1] = w[n + 1]
        /\ \A k \in 1 .. m : app[k] = old[k]
    BY <1>7, <2>3
  <2>5. app = [k \in 1 .. m + 1 |-> app[k]]
    BY <2>4
  <2> HIDE DEF app, m
  <2>6. ASSUME NEW k \in 1 .. m + 1
        PROVE  app[k] = w[longer[k]]
    <3>1. CASE k = m + 1
      BY <2>1, <2>4, <3>1
    <3>2. CASE k # m + 1
      <4>1. k \in 1 .. m
        BY <1>1, <3>2
      <4>2. app[k] = v[firsts[k]]
        BY <1>3, <2>4, <4>1
      <4> QED
        BY <1>6, <2>1, <4>1, <4>2
    <3> QED
      BY <3>1, <3>2
  <2>7. new = app
    BY <2>2, <2>5, <2>6
  <2> QED
    BY <1>7, <1>9, <2>7 DEF new, old, more, n, app
<1> QED
  BY <1>8, <1>9

\* The versions to go back to, and those to go forward to.
PastOf(e, steps) ==
  VersionsOf([i \in 1 .. Len(steps) |-> [text |-> e[i], caret |-> CaretOf(steps[i])]], steps)
LastOf(i, steps) == IF i > 1 /\ steps[i - 1].joined THEN i - 1 ELSE i
FutureOf(l, steps) ==
  VersionsOf([i \in 1 .. Len(steps) |-> [text |-> l[LastOf(i, steps)], caret |-> CaretOf(steps[i])]], steps)

LEMMA VersionsArePastAndFuture ==
  /\ \A e : Line(e, undo, text, TRUE) => Past = PastOf(e, undo)
  /\ \A l : Line(l, redo, text, FALSE) => Future = FutureOf(l, redo)
<1>1. ASSUME NEW e, Line(e, undo, text, TRUE)
      PROVE  Past = PastOf(e, undo)
  <2>1. e = Earlier /\ undo \in Seq(WholeSteps)
    BY <1>1, LinesAreEarlierAndLater DEF Line
  <2>2. FirstsOf(undo) \in Seq(1 .. Len(undo))
    BY <2>1, FirstsInRange
  <2> DEFINE firsts == FirstsOf(undo)
  <2>3. \A k \in DOMAIN firsts : firsts[k] \in 1 .. Len(undo)
    BY <2>2
  <2>4. Past = [k \in DOMAIN firsts |-> [text |-> e[firsts[k]], caret |-> CaretOf(undo[firsts[k]])]]
    BY <2>1 DEF Past
  <2> HIDE DEF firsts
  <2> QED
    BY <2>3, <2>4 DEF PastOf, VersionsOf, firsts
<1>2. ASSUME NEW l, Line(l, redo, text, FALSE)
      PROVE  Future = FutureOf(l, redo)
  <2>1. l = Later /\ redo \in Seq(WholeSteps)
    BY <1>2, LinesAreEarlierAndLater DEF Line
  <2>2. FirstsOf(redo) \in Seq(1 .. Len(redo))
    BY <2>1, FirstsInRange
  <2> DEFINE firsts == FirstsOf(redo)
  <2>3. \A k \in DOMAIN firsts : firsts[k] \in 1 .. Len(redo)
    BY <2>2
  <2>4. Future = [k \in DOMAIN firsts |-> [text |-> l[LastOf(firsts[k], redo)],
                                           caret |-> CaretOf(redo[firsts[k]])]]
    BY <2>1 DEF Future, LastOf
  <2> HIDE DEF firsts
  <2> QED
    BY <2>3, <2>4 DEF FutureOf, VersionsOf, firsts
<1> QED
  BY <1>1, <1>2

LEMMA PastGrows ==
  ASSUME NEW e \in Seq(Held), NEW s \in Seq(WholeSteps), Len(e) = Len(s) + 1,
         NEW u \in Held, NEW step \in WholeSteps
  PROVE  /\ \E S : PastOf(e, s) \in Seq(S)
         /\ PastOf(Append(e, u), Append(s, step))
              = IF step.joined THEN PastOf(e, s)
                ELSE Append(PastOf(e, s), [text |-> e[Len(s) + 1], caret |-> CaretOf(step)])
<1> DEFINE n == Len(s)
           more == Append(s, step)
           f == Append(e, u)
           v == [i \in 1 .. Len(s) |-> [text |-> e[i], caret |-> CaretOf(s[i])]]
           w == [i \in 1 .. Len(more) |-> [text |-> f[i], caret |-> CaretOf(more[i])]]
<1>1. /\ n \in Nat /\ Len(more) = n + 1 /\ more[n + 1] = step
      /\ \A i \in 1 .. n : more[i] = s[i]
  OBVIOUS
<1>2. \A i \in 1 .. n + 1 : f[i] = e[i]
  <2> HIDE DEF n
  <2>1. Len(e) = n + 1
    BY DEF n
  <2> QED
    BY <1>1, <2>1
<1> HIDE DEF n, more, f
<1>3. w[n + 1] = [text |-> e[n + 1], caret |-> CaretOf(step)]
  BY <1>1, <1>2
<1>4. \A i \in 1 .. n : v[i] = w[i]
  BY <1>1, <1>2 DEF n
<1>5. PastOf(e, s) = VersionsOf(v, s) /\ PastOf(f, more) = VersionsOf(w, more)
  BY DEF PastOf
<1> HIDE DEF v, w
<1>6. /\ \E S : VersionsOf(v, s) \in Seq(S)
      /\ VersionsOf(w, Append(s, step)) = IF step.joined THEN VersionsOf(v, s)
                                          ELSE Append(VersionsOf(v, s), w[Len(s) + 1])
  BY <1>4, VersionsGrow DEF n
<1> QED
  BY <1>3, <1>5, <1>6 DEF n, more, f

LEMMA FutureGrows ==
  ASSUME NEW l \in Seq(Held), NEW s \in Seq(WholeSteps), Len(l) = Len(s) + 1,
         NEW u \in Held, NEW step \in WholeSteps
  PROVE  /\ \E S : FutureOf(l, s) \in Seq(S)
         /\ FutureOf(Append(l, u), Append(s, step))
              = IF step.joined THEN FutureOf(l, s)
                ELSE LET n == Len(s) IN
                     Append(FutureOf(l, s),
                            [text |-> l[IF n > 0 /\ s[n].joined THEN n ELSE n + 1],
                             caret |-> CaretOf(step)])
<1> DEFINE n == Len(s)
           more == Append(s, step)
           f == Append(l, u)
           v == [i \in 1 .. Len(s) |-> [text |-> l[LastOf(i, s)], caret |-> CaretOf(s[i])]]
           w == [i \in 1 .. Len(more) |-> [text |-> f[LastOf(i, more)], caret |-> CaretOf(more[i])]]
           end == IF n > 0 /\ s[n].joined THEN n ELSE n + 1
<1>1. /\ n \in Nat /\ Len(more) = n + 1 /\ more[n + 1] = step
      /\ \A i \in 1 .. n : more[i] = s[i]
  OBVIOUS
<1>2. \A i \in 1 .. n + 1 : f[i] = l[i]
  <2> HIDE DEF n
  <2>1. Len(l) = n + 1
    BY DEF n
  <2> QED
    BY <1>1, <2>1
<1>3. ASSUME NEW i \in 1 .. n
      PROVE  LastOf(i, more) = LastOf(i, s) /\ LastOf(i, s) \in 1 .. n
  <2> HIDE DEF n, more
  <2>1. i > 1 => i - 1 \in 1 .. n
    BY <1>1
  <2> QED
    BY <1>1, <2>1 DEF LastOf
<1>4. LastOf(n + 1, more) = end /\ end \in 1 .. n + 1
  <2> HIDE DEF n, more
  <2>1. (n + 1) - 1 = n /\ (n + 1 > 1 <=> n > 0) /\ (n > 0 => n \in 1 .. n)
    BY <1>1
  <2> QED
    BY <1>1, <2>1 DEF LastOf
<1> HIDE DEF n, more, f, end
<1>5. w[n + 1] = [text |-> l[end], caret |-> CaretOf(step)]
  BY <1>1, <1>2, <1>4
<1>6. \A i \in 1 .. n : v[i] = w[i]
  <2> TAKE i \in 1 .. n
  <2>1. f[LastOf(i, more)] = l[LastOf(i, s)]
    <3>1. LastOf(i, more) = LastOf(i, s) /\ LastOf(i, s) \in 1 .. n + 1
      BY <1>1, <1>3
    <3> QED
      BY <1>2, <3>1
  <2> QED
    BY <1>1, <2>1 DEF n
<1>7. FutureOf(l, s) = VersionsOf(v, s) /\ FutureOf(f, more) = VersionsOf(w, more)
  BY DEF FutureOf
<1> HIDE DEF v, w
<1>8. /\ \E S : VersionsOf(v, s) \in Seq(S)
      /\ VersionsOf(w, Append(s, step)) = IF step.joined THEN VersionsOf(v, s)
                                          ELSE Append(VersionsOf(v, s), w[Len(s) + 1])
  BY <1>6, VersionsGrow DEF n
<1> QED
  BY <1>5, <1>7, <1>8 DEF n, more, f, end

--------------------------------------------------------------------------------
(* Operations.                                                             *)

\* On the undo stack a joined insertion lies on the deletion it belongs to.
PairedBelow(s) ==
  \A i \in 1 .. Len(s) : s[i].joined => s[i].insert /\ i > 1 /\ ~s[i - 1].joined

LEMMA PairedBelowGrows ==
  ASSUME NEW s \in Seq(WholeSteps), NEW step \in WholeSteps
  PROVE  /\ PairedBelow(Append(s, step))
              <=> /\ PairedBelow(s)
                  /\ step.joined => step.insert /\ s # <<>> /\ ~Last(s).joined
         /\ Append(s, step) # <<>> /\ Last(Append(s, step)) = step
<1> DEFINE n == Len(s)
           more == Append(s, step)
<1>1. /\ n \in Nat /\ Len(more) = n + 1 /\ more[n + 1] = step
      /\ \A i \in 1 .. n : more[i] = s[i]
      /\ s # <<>> <=> n # 0
      /\ Last(s) = s[n]
      /\ more \in Seq(WholeSteps) /\ Last(more) = more[n + 1]
  BY DEF Last
<1> HIDE DEF n, more
<1>2. PairedBelow(more) <=>
        \A i \in 1 .. n + 1 : more[i].joined => more[i].insert /\ i > 1 /\ ~more[i - 1].joined
  BY <1>1 DEF PairedBelow
<1>3. PairedBelow(s) <=> \A i \in 1 .. n : s[i].joined => s[i].insert /\ i > 1 /\ ~s[i - 1].joined
  BY DEF PairedBelow, n
<1>4. ASSUME NEW i \in 1 .. n
      PROVE  (more[i].joined => more[i].insert /\ i > 1 /\ ~more[i - 1].joined)
             <=> (s[i].joined => s[i].insert /\ i > 1 /\ ~s[i - 1].joined)
  <2>1. more[i] = s[i] /\ (i > 1 => more[i - 1] = s[i - 1])
    <3>1. i > 1 => i - 1 \in 1 .. n
      BY <1>1
    <3> QED
      BY <1>1, <3>1
  <2> QED
    BY <2>1
<1>5. (more[n + 1].joined => more[n + 1].insert /\ n + 1 > 1 /\ ~more[(n + 1) - 1].joined)
      <=> (step.joined => step.insert /\ s # <<>> /\ ~Last(s).joined)
  <2>1. (n + 1 > 1 <=> n # 0) /\ (n + 1) - 1 = n /\ (n # 0 => n \in 1 .. n)
    BY <1>1
  <2> QED
    BY <1>1, <2>1
<1>6. \A i \in 1 .. n + 1 : i = n + 1 \/ i \in 1 .. n
  BY <1>1
<1>7. n + 1 \in 1 .. n + 1 /\ \A i \in 1 .. n : i \in 1 .. n + 1
  BY <1>1
<1>8. PairedBelow(more) <=> /\ PairedBelow(s)
                            /\ step.joined => step.insert /\ s # <<>> /\ ~Last(s).joined
  BY <1>2, <1>3, <1>4, <1>5, <1>6, <1>7, Zenon
<1>9. more # <<>>
  BY <1>1
<1> QED
  BY <1>1, <1>8, <1>9 DEF more

IsSeq(x) == \E S : x \in Seq(S)

LEMMA IsLonger ==
  ASSUME NEW x, IsSeq(x), NEW y
  PROVE  /\ IsSeq(Append(x, y)) /\ Append(x, y) # <<>>
         /\ Last(Append(x, y)) = y /\ Front(Append(x, y)) = x
<1>1. PICK S : x \in Seq(S)
  BY DEF IsSeq
<1>2. x \in Seq(S \union {y}) /\ y \in S \union {y}
  BY <1>1
<1>3. Append(x, y) \in Seq(S \union {y}) /\ Append(x, y) # <<>>
  BY <1>2, AppendProperties
<1>4. Last(Append(x, y)) = y
  BY <1>2 DEF Last
<1>5. Front(Append(x, y)) = x
  <2> DEFINE z == Append(x, y)
  <2>1. Len(z) - 1 = Len(x) /\ Len(x) \in Nat /\ \A i \in 1 .. Len(x) : z[i] = x[i]
    BY <1>2
  <2>2. x = [i \in 1 .. Len(x) |-> x[i]]
    BY <1>2
  <2>3. Front(z) = SubSeq(z, 1, Len(x))
    BY <2>1 DEF Front
  <2>4. Front(z) = [i \in 1 .. Len(x) |-> z[i]]
    BY <1>3, <2>1, <2>3
  <2> HIDE DEF z
  <2> QED
    BY <2>1, <2>2, <2>4 DEF z
<1> QED
  BY <1>3, <1>4, <1>5 DEF IsSeq

\* Pushing a step, and what it does to the versions.
IsPushed(more, s, x) == more = Append(s, x)
IsVersioned(new, old, step, t) ==
  /\ IsSeq(old)
  /\ new = IF step.joined THEN old ELSE Append(old, [text |-> t, caret |-> CaretOf(step)])

LEMMA PastIsPushed ==
  ASSUME NEW e, NEW s, NEW t, Line(e, s, t, TRUE), NEW u \in Held, NEW step \in WholeSteps,
         NEW f, NEW more, IsPushed(f, e, u), IsPushed(more, s, step)
  PROVE  IsVersioned(PastOf(f, more), PastOf(e, s), step, t)
<1>1. s \in Seq(WholeSteps) /\ e \in Seq(Held) /\ Len(e) = Len(s) + 1 /\ e[Len(s) + 1] = t
  BY DEF Line
<1>2. /\ \E S : PastOf(e, s) \in Seq(S)
      /\ PastOf(Append(e, u), Append(s, step))
           = IF step.joined THEN PastOf(e, s)
             ELSE Append(PastOf(e, s), [text |-> e[Len(s) + 1], caret |-> CaretOf(step)])
  BY <1>1, PastGrows
<1> QED
  BY <1>1, <1>2 DEF IsSeq, IsPushed, IsVersioned

LEMMA FutureIsPushed ==
  ASSUME NEW l, NEW s, NEW t, Line(l, s, t, FALSE), NEW u \in Held, NEW step \in WholeSteps,
         NEW m, NEW more, IsPushed(m, l, u), IsPushed(more, s, step)
  PROVE  IsVersioned(FutureOf(m, more), FutureOf(l, s), step,
                     IF s # <<>> /\ Last(s).joined THEN l[Len(s)] ELSE t)
<1>1. s \in Seq(WholeSteps) /\ l \in Seq(Held) /\ Len(l) = Len(s) + 1 /\ l[Len(s) + 1] = t
  BY DEF Line
<1>2. (Len(s) > 0 <=> s # <<>>) /\ Last(s) = s[Len(s)]
  BY <1>1 DEF Last
<1> DEFINE i == IF Len(s) > 0 /\ s[Len(s)].joined THEN Len(s) ELSE Len(s) + 1
<1>3. /\ \E S : FutureOf(l, s) \in Seq(S)
      /\ FutureOf(Append(l, u), Append(s, step))
           = IF step.joined THEN FutureOf(l, s)
             ELSE Append(FutureOf(l, s), [text |-> l[i], caret |-> CaretOf(step)])
  BY <1>1, FutureGrows
<1>4. l[i] = IF s # <<>> /\ Last(s).joined THEN l[Len(s)] ELSE t
  BY <1>1, <1>2
<1> HIDE DEF i
<1> QED
  BY <1>3, <1>4 DEF IsSeq, IsPushed, IsVersioned

\* A stack of steps has a version to go back to.
LEMMA PastIsThere ==
  ASSUME NEW e, NEW s, NEW t, Line(e, s, t, TRUE), s # <<>>, PairedBelow(s)
  PROVE  PastOf(e, s) # <<>>
<1> DEFINE mid == e[Len(s)]
           e1 == Front(e)
           s1 == Front(s)
           top == Last(s)
<1>1. /\ Line(e1, s1, mid, TRUE)
      /\ Append(s1, top) = s /\ Append(e1, t) = e
      /\ LinkedTo(top, t, mid, TRUE)
  BY LineShrinks
<1> HIDE DEF e1, s1, top, mid
<1>2. /\ s1 \in Seq(WholeSteps) /\ top \in WholeSteps /\ t \in Held
      /\ IsPushed(s, s1, top) /\ IsPushed(e, e1, t)
  BY <1>1, LinkIsCrossed DEF Line, IsPushed
<1>3. PairedBelow(s1) /\ (top.joined => s1 # <<>> /\ ~Last(s1).joined)
  BY <1>1, <1>2, PairedBelowGrows
<1>4. IsVersioned(PastOf(e, s), PastOf(e1, s1), top, mid)
  BY <1>1, <1>2, PastIsPushed
<1>5. CASE ~top.joined
  BY <1>4, <1>5, IsLonger DEF IsVersioned
<1>6. CASE top.joined
  <2> DEFINE low == e1[Len(s1)]
             e2 == Front(e1)
             s2 == Front(s1)
             next == Last(s1)
  <2>1. /\ Line(e2, s2, low, TRUE)
        /\ Append(s2, next) = s1 /\ Append(e2, mid) = e1
        /\ LinkedTo(next, mid, low, TRUE)
    BY <1>1, <1>3, <1>6, LineShrinks
  <2>2. ~next.joined
    BY <1>3, <1>6
  <2> HIDE DEF e2, s2, next, low
  <2>3. /\ next \in WholeSteps /\ mid \in Held
        /\ IsPushed(s1, s2, next) /\ IsPushed(e1, e2, mid)
    BY <2>1, LinkIsCrossed DEF IsPushed
  <2>4. IsVersioned(PastOf(e1, s1), PastOf(e2, s2), next, low)
    BY <2>1, <2>3, PastIsPushed
  <2>5. PastOf(e1, s1) # <<>>
    BY <2>2, <2>4, IsLonger DEF IsVersioned
  <2> QED
    BY <1>4, <1>6, <2>5 DEF IsVersioned
<1> QED
  BY <1>5, <1>6

\* A step that is added begins a version, unless it is joined to the one below; a
\* step that grows belongs to the version that is there.
LEMMA AddedIsVersion ==
  ASSUME NEW b, NEW e, NEW l, SoundBuffer(b, e, l), PairedBelow(b.undo),
         NEW r, NEW f, SoundBuffer(r, f, <<r.text>>), NEW joined \in BOOLEAN, Adds(b, e, r, f, joined),
         joined => b.undo # <<>> /\ ~Last(b.undo).joined
  PROVE  /\ PairedBelow(r.undo) /\ r.undo # <<>> /\ Last(r.undo).joined = joined
         /\ PastOf(f, r.undo) = IF joined THEN PastOf(e, b.undo)
                                ELSE Append(PastOf(e, b.undo), [text |-> b.text, caret |-> <<b.cursor, b.anchor>>])
<1>1. PICK step \in WholeSteps :
        /\ r.undo = Append(b.undo, step) /\ f = Append(e, r.text)
        /\ step.joined = joined /\ CaretOf(step) = <<b.cursor, b.anchor>>
        /\ joined => step.insert
  BY DEF Adds
<1>2. Line(e, b.undo, b.text, TRUE) /\ b.undo \in Seq(WholeSteps) /\ r.text \in Held
  BY DEF SoundBuffer, Line
<1>3. PairedBelow(r.undo) /\ r.undo # <<>> /\ Last(r.undo) = step
  BY <1>1, <1>2, PairedBelowGrows
<1> DEFINE s == b.undo
           t == b.text
           u == r.text
           more == r.undo
<1>4. Line(e, s, t, TRUE) /\ u \in Held /\ IsPushed(f, e, u) /\ IsPushed(more, s, step)
  BY <1>1, <1>2 DEF IsPushed
<1> HIDE DEF s, t, u, more
<1>5. IsVersioned(PastOf(f, more), PastOf(e, s), step, t)
  BY <1>4, PastIsPushed
<1> QED
  BY <1>1, <1>3, <1>5 DEF s, t, more, IsVersioned

LEMMA GrownIsSameVersion ==
  ASSUME NEW b, NEW e, NEW l, SoundBuffer(b, e, l), PairedBelow(b.undo),
         NEW r, NEW f, SoundBuffer(r, f, <<r.text>>), Grows(b, e, r, f)
  PROVE  /\ PairedBelow(r.undo) /\ r.undo # <<>> /\ Last(r.undo).joined = Last(b.undo).joined
         /\ PastOf(f, r.undo) = PastOf(e, b.undo) /\ PastOf(e, b.undo) # <<>>
<1> DEFINE s == b.undo
           s1 == Front(s)
           e1 == Front(e)
           top == Last(s)
           mid == e[Len(s)]
           t == b.text
           u == r.text
           more == r.undo
<1>1. PICK step \in WholeSteps :
        /\ more = Append(s1, step) /\ f = Append(e1, u)
        /\ step.joined = top.joined /\ CaretOf(step) = CaretOf(top)
        /\ step.insert = top.insert
  BY DEF Grows
<1>2. s # <<>> /\ Line(e, s, t, TRUE) /\ u \in Held /\ t \in Held
  BY DEF Grows, SoundBuffer
<1>3. /\ Line(e1, s1, mid, TRUE)
      /\ Append(s1, top) = s /\ Append(e1, t) = e
      /\ LinkedTo(top, t, mid, TRUE)
  BY <1>2, LineShrinks
<1>4. PairedBelow(s)
  OBVIOUS
<1> HIDE DEF s, s1, e1, top, mid, t, u, more
<1>5. s1 \in Seq(WholeSteps) /\ top \in WholeSteps
  BY <1>3, LinkIsCrossed DEF Line
<1>6. PairedBelow(s1) /\ (top.joined => top.insert /\ s1 # <<>> /\ ~Last(s1).joined)
  BY <1>3, <1>4, <1>5, PairedBelowGrows
<1>7. PairedBelow(more) /\ more # <<>> /\ Last(more) = step
  <2>1. /\ PairedBelow(Append(s1, step))
             <=> /\ PairedBelow(s1)
                 /\ step.joined => step.insert /\ s1 # <<>> /\ ~Last(s1).joined
        /\ Append(s1, step) # <<>> /\ Last(Append(s1, step)) = step
    BY <1>5, PairedBelowGrows
  <2> QED
    BY <1>1, <1>6, <2>1
<1>8. IsVersioned(PastOf(f, more), PastOf(e1, s1), step, mid)
  <2>1. IsPushed(more, s1, step) /\ IsPushed(f, e1, u)
    BY <1>1 DEF IsPushed
  <2> QED
    BY <1>2, <1>3, <2>1, PastIsPushed
<1>9. IsVersioned(PastOf(e, s), PastOf(e1, s1), top, mid)
  <2>1. IsPushed(s, s1, top) /\ IsPushed(e, e1, t)
    BY <1>3 DEF IsPushed
  <2> QED
    BY <1>2, <1>3, <1>5, <2>1, PastIsPushed
<1>10. PastOf(e, s) # <<>>
  BY <1>2, <1>4, PastIsThere
<1> QED
  BY <1>1, <1>7, <1>8, <1>9, <1>10 DEF top, s, more, IsVersioned

\* On the redo stack it lies under it, so no joined step is on top.
Alone(s) ==
  \A i \in 1 .. Len(s) : s[i].joined => s[i].insert /\ (i > 1 => ~s[i - 1].joined)
PairedAbove(s) == Alone(s) /\ (s # <<>> => ~Last(s).joined)

LEMMA ApartGrows ==
  ASSUME NEW s \in Seq(WholeSteps), NEW step \in WholeSteps
  PROVE  /\ Alone(Append(s, step))
              <=> /\ Alone(s)
                  /\ step.joined => step.insert /\ (s # <<>> => ~Last(s).joined)
         /\ Append(s, step) # <<>> /\ Last(Append(s, step)) = step
         /\ Append(s, step) \in Seq(WholeSteps)
<1> DEFINE n == Len(s)
           more == Append(s, step)
<1>1. /\ n \in Nat /\ Len(more) = n + 1 /\ more[n + 1] = step
      /\ \A i \in 1 .. n : more[i] = s[i]
      /\ s # <<>> <=> n # 0
      /\ Last(s) = s[n]
      /\ more \in Seq(WholeSteps) /\ Last(more) = more[n + 1]
  BY DEF Last
<1> HIDE DEF n, more
<1>2. Alone(more) <=>
        \A i \in 1 .. n + 1 : more[i].joined => more[i].insert /\ (i > 1 => ~more[i - 1].joined)
  BY <1>1 DEF Alone
<1>3. Alone(s) <=> \A i \in 1 .. n : s[i].joined => s[i].insert /\ (i > 1 => ~s[i - 1].joined)
  BY DEF Alone, n
<1>4. ASSUME NEW i \in 1 .. n
      PROVE  (more[i].joined => more[i].insert /\ (i > 1 => ~more[i - 1].joined))
             <=> (s[i].joined => s[i].insert /\ (i > 1 => ~s[i - 1].joined))
  <2>1. more[i] = s[i] /\ (i > 1 => more[i - 1] = s[i - 1])
    <3>1. i > 1 => i - 1 \in 1 .. n
      BY <1>1
    <3> QED
      BY <1>1, <3>1
  <2> QED
    BY <2>1
<1>5. (more[n + 1].joined => more[n + 1].insert /\ (n + 1 > 1 => ~more[(n + 1) - 1].joined))
      <=> (step.joined => step.insert /\ (s # <<>> => ~Last(s).joined))
  <2>1. (n + 1 > 1 <=> n # 0) /\ (n + 1) - 1 = n /\ (n # 0 => n \in 1 .. n)
    BY <1>1
  <2> QED
    BY <1>1, <2>1
<1>6. \A i \in 1 .. n + 1 : i = n + 1 \/ i \in 1 .. n
  BY <1>1
<1>7. n + 1 \in 1 .. n + 1 /\ \A i \in 1 .. n : i \in 1 .. n + 1
  BY <1>1
<1>8. Alone(more) <=> /\ Alone(s)
                      /\ step.joined => step.insert /\ (s # <<>> => ~Last(s).joined)
  BY <1>2, <1>3, <1>4, <1>5, <1>6, <1>7, Zenon
<1>9. more # <<>>
  BY <1>1
<1> QED
  BY <1>1, <1>8, <1>9 DEF more

LEMMA NothingIsPaired == PairedBelow(<<>>) /\ PairedAbove(<<>>)
BY DEF PairedBelow, PairedAbove, Alone

\* The shape the buffer always has.
Ordered(b, e, l) == SoundBuffer(b, e, l) /\ PairedBelow(b.undo) /\ PairedAbove(b.redo)

VersionOf(b) == [text |-> b.text, caret |-> <<b.cursor, b.anchor>>]

\* An edit adds the version that was left, or belongs to the one being written,
\* and ends what could be redone.
Edits(b, e, r, f) ==
  /\ Ordered(r, f, <<r.text>>) /\ r.redo = <<>> /\ r.undo # <<>>
  /\ \/ PastOf(f, r.undo) = Append(PastOf(e, b.undo), VersionOf(b))
     \/ PastOf(f, r.undo) = PastOf(e, b.undo) /\ PastOf(e, b.undo) # <<>>

LEMMA ErasingEdits ==
  ASSUME NEW b, NEW e, NEW l, Ordered(b, e, l), NEW new \in BOOLEAN,
         NEW from, NEW to, IsOffset(b.text, from), IsOffset(b.text, to), from < to
  PROVE  LET r == RangeErased(b, new, from, to)
         IN  \E f : Edits(b, e, r, f) /\ ~Last(r.undo).joined /\ Len(r.text) <= Len(b.text)
<1> DEFINE r == RangeErased(b, new, from, to)
<1>1. SoundBuffer(b, e, l) /\ PairedBelow(b.undo)
  BY DEF Ordered
<1>2. PICK f : /\ SoundBuffer(r, f, <<r.text>>)
               /\ r.redo = <<>> /\ Len(r.text) <= Len(b.text)
               /\ \/ Adds(b, e, r, f, FALSE)
                  \/ (Grows(b, e, r, f) /\ ~Last(b.undo).insert)
  BY <1>1, ErasingIsSound
<1> HIDE DEF r
<1>3. CASE Adds(b, e, r, f, FALSE)
  <2>1. /\ PairedBelow(r.undo) /\ r.undo # <<>> /\ Last(r.undo).joined = FALSE
        /\ PastOf(f, r.undo) = Append(PastOf(e, b.undo), VersionOf(b))
    BY <1>1, <1>2, <1>3, AddedIsVersion DEF VersionOf
  <2>2. Edits(b, e, r, f)
    BY <1>2, <2>1, NothingIsPaired DEF Edits, Ordered
  <2> QED
    BY <1>2, <2>1, <2>2 DEF r
<1>4. CASE Grows(b, e, r, f) /\ ~Last(b.undo).insert
  <2>1. /\ PairedBelow(r.undo) /\ r.undo # <<>> /\ Last(r.undo).joined = Last(b.undo).joined
        /\ PastOf(f, r.undo) = PastOf(e, b.undo) /\ PastOf(e, b.undo) # <<>>
    BY <1>1, <1>2, <1>4, GrownIsSameVersion
  <2>2. Edits(b, e, r, f)
    BY <1>2, <2>1, NothingIsPaired DEF Edits, Ordered
  <2>3. ~Last(b.undo).joined
    <3> DEFINE s == b.undo
    <3>1. s \in Seq(WholeSteps) /\ s # <<>> /\ PairedBelow(s)
      BY <1>1, <1>4 DEF SoundBuffer, Line, Grows
    <3> HIDE DEF s
    <3>2. Last(s) = s[Len(s)] /\ Len(s) \in 1 .. Len(s)
      BY <3>1 DEF Last
    <3>3. ~Last(s).insert
      BY <1>4 DEF s
    <3> QED
      BY <3>1, <3>2, <3>3 DEF PairedBelow, s
  <2> QED
    BY <1>2, <2>1, <2>2, <2>3 DEF r
<1> QED
  BY <1>2, <1>3, <1>4

\* What Insert makes of a buffer in which nothing is selected any more.
Typed(b, new, s, joined) ==
  [text |-> Spliced(b.text, b.cursor, s), cursor |-> b.cursor + Len(s),
   anchor |-> b.cursor + Len(s),
   undo |-> InsertRecorded(b, new, b.cursor, s, joined), redo |-> <<>>]

LEMMA TypingEdits ==
  ASSUME NEW b, NEW e, NEW l, Ordered(b, e, l), NEW new \in BOOLEAN,
         NEW s \in Words, s # <<>>, Len(b.text) + Len(s) <= MaxLen
  PROVE  /\ LET r == Typed(b, new, s, FALSE)
            IN  \E f : Edits(b, e, r, f)
         /\ b.undo # <<>> /\ ~Last(b.undo).joined
            => LET r == Typed(b, new, s, TRUE)
               IN  \E f : /\ Ordered(r, f, <<r.text>>) /\ r.redo = <<>> /\ r.undo # <<>>
                          /\ PastOf(f, r.undo) = PastOf(e, b.undo)
<1>1. SoundBuffer(b, e, l) /\ PairedBelow(b.undo)
  BY DEF Ordered
<1>2. \E f : Edits(b, e, Typed(b, new, s, FALSE), f)
  <2> DEFINE r == Typed(b, new, s, FALSE)
  <2>1. PICK f : /\ SoundBuffer(r, f, <<r.text>>)
                 /\ Adds(b, e, r, f, FALSE) \/ Grows(b, e, r, f)
    BY <1>1, InsertingIsSound DEF Typed
  <2>2. r.redo = <<>>
    BY DEF Typed
  <2> HIDE DEF r
  <2>3. CASE Adds(b, e, r, f, FALSE)
    <3>1. /\ PairedBelow(r.undo) /\ r.undo # <<>>
          /\ PastOf(f, r.undo) = Append(PastOf(e, b.undo), VersionOf(b))
      BY <1>1, <2>1, <2>3, AddedIsVersion DEF VersionOf
    <3>2. Edits(b, e, r, f)
      BY <2>1, <2>2, <3>1, NothingIsPaired DEF Edits, Ordered
    <3> QED
      BY <3>2 DEF r
  <2>4. CASE Grows(b, e, r, f)
    <3>1. /\ PairedBelow(r.undo) /\ r.undo # <<>>
          /\ PastOf(f, r.undo) = PastOf(e, b.undo) /\ PastOf(e, b.undo) # <<>>
      BY <1>1, <2>1, <2>4, GrownIsSameVersion
    <3>2. Edits(b, e, r, f)
      BY <2>1, <2>2, <3>1, NothingIsPaired DEF Edits, Ordered
    <3> QED
      BY <3>2 DEF r
  <2> QED
    BY <2>1, <2>3, <2>4
<1>3. ASSUME b.undo # <<>>, ~Last(b.undo).joined
      PROVE  LET r == Typed(b, new, s, TRUE)
             IN  \E f : /\ Ordered(r, f, <<r.text>>) /\ r.redo = <<>> /\ r.undo # <<>>
                        /\ PastOf(f, r.undo) = PastOf(e, b.undo)
  <2> DEFINE r == Typed(b, new, s, TRUE)
  <2>1. PICK f : SoundBuffer(r, f, <<r.text>>) /\ Adds(b, e, r, f, TRUE)
    BY <1>1, InsertingIsSound DEF Typed
  <2>2. r.redo = <<>>
    BY DEF Typed
  <2> HIDE DEF r
  <2>3. /\ PairedBelow(r.undo) /\ r.undo # <<>> /\ PastOf(f, r.undo) = PastOf(e, b.undo)
    BY <1>1, <1>3, <2>1, AddedIsVersion
  <2>4. Ordered(r, f, <<r.text>>)
    BY <2>1, <2>2, <2>3, NothingIsPaired DEF Ordered
  <2> QED
    BY <2>2, <2>3, <2>4 DEF r
<1> QED
  BY <1>2, <1>3

Undone(b) ==
  IF Last(b.undo).joined /\ Len(b.undo) > 1 THEN OneUndone(OneUndone(b)) ELSE OneUndone(b)

\* An undo brings back the version before, and leaves the current one, with the
\* caret an undo will bring back, as the next to go forward to.
GoesBack(b, e, l, r, f, m) ==
  /\ Ordered(r, f, m)
  /\ IsSeq(PastOf(f, r.undo))
  /\ PastOf(e, b.undo) = Append(PastOf(f, r.undo), VersionOf(r))
  /\ FutureOf(m, r.redo)
       = Append(FutureOf(l, b.redo), [text |-> b.text, caret |-> <<r.cursor, r.anchor>>])

\* The undo of one step, the parts named.
LEMMA OneUndoneGoesBack ==
  ASSUME NEW b, NEW e, NEW l, SoundBuffer(b, e, l), PairedBelow(b.undo), Alone(b.redo), b.undo # <<>>,
         NEW r, r = OneUndone(b)
  PROVE  \E step \in WholeSteps :
           LET f == Front(e)
               m == Append(l, r.text)
           IN  /\ SoundBuffer(r, f, m)
               /\ step = Last(b.undo) /\ <<r.cursor, r.anchor>> = CaretOf(step)
               /\ IsPushed(b.undo, r.undo, step) /\ IsPushed(r.redo, b.redo, step)
               /\ PairedBelow(r.undo)
               /\ step.joined => step.insert /\ r.undo # <<>> /\ ~Last(r.undo).joined
               /\ IsVersioned(PastOf(e, b.undo), PastOf(f, r.undo), step, r.text)
               /\ IsVersioned(FutureOf(m, r.redo), FutureOf(l, b.redo), step,
                              IF b.redo # <<>> /\ Last(b.redo).joined THEN l[Len(b.redo)] ELSE b.text)
<1> DEFINE s == b.undo
           step == Last(s)
           mid == e[Len(s)]
           f == Front(e)
           m == Append(l, r.text)
           s1 == r.undo
           t == b.text
           more == r.redo
           z == b.redo
           u == r.text
<1>1. /\ SoundBuffer(r, f, m) /\ u = mid
      /\ s1 = Front(s) /\ more = Append(z, step)
      /\ <<r.cursor, r.anchor>> = CaretOf(step) /\ step \in WholeSteps
  BY UndoingIsSound
<1>2. Line(e, s, t, TRUE) /\ Line(l, z, t, FALSE) /\ PairedBelow(s) /\ s # <<>> /\ t \in Held /\ z = b.redo
  BY DEF SoundBuffer
<1>3. Line(f, s1, u, TRUE) /\ u \in Held
  BY <1>1 DEF SoundBuffer
<1>4. Append(s1, step) = s /\ Append(f, t) = e
  <2> HIDE DEF s, t, s1
  <2>1. Append(Front(s), Last(s)) = s /\ Append(Front(e), t) = e
    BY <1>2, LineShrinks
  <2> QED
    BY <1>1, <2>1 DEF s1
<1>5. m = Append(l, u)
  OBVIOUS
<1> HIDE DEF s, step, mid, f, m, s1, t, more, z, u
<1>6. /\ IsPushed(s, s1, step) /\ IsPushed(e, f, t)
      /\ IsPushed(more, z, step) /\ IsPushed(m, l, u)
  BY <1>1, <1>4, <1>5 DEF IsPushed
<1>7. PairedBelow(s1) /\ (step.joined => step.insert /\ s1 # <<>> /\ ~Last(s1).joined)
  BY <1>1, <1>2, <1>3, <1>4, PairedBelowGrows DEF Line
<1>8. IsVersioned(PastOf(e, s), PastOf(f, s1), step, u)
  BY <1>1, <1>2, <1>3, <1>6, PastIsPushed
<1>9. IsVersioned(FutureOf(m, more), FutureOf(l, z), step,
                  IF z # <<>> /\ Last(z).joined THEN l[Len(z)] ELSE t)
  BY <1>1, <1>2, <1>3, <1>6, FutureIsPushed
<1> QED
  BY <1>1, <1>6, <1>7, <1>8, <1>9 DEF s, step, f, m, s1, t, more, z, u

LEMMA UndoGoesBack ==
  ASSUME NEW b, NEW e, NEW l, Ordered(b, e, l), b.undo # <<>>
  PROVE  \E f, m : GoesBack(b, e, l, Undone(b), f, m)
<1> DEFINE q == OneUndone(b)
           e1 == Front(e)
           l1 == Append(l, q.text)
<1>1. SoundBuffer(b, e, l) /\ PairedBelow(b.undo) /\ Alone(b.redo) /\ (b.redo # <<>> => ~Last(b.redo).joined)
  BY DEF Ordered, PairedAbove
<1>2. PICK step \in WholeSteps :
        /\ SoundBuffer(q, e1, l1)
        /\ step = Last(b.undo) /\ <<q.cursor, q.anchor>> = CaretOf(step)
        /\ IsPushed(b.undo, q.undo, step) /\ IsPushed(q.redo, b.redo, step)
        /\ PairedBelow(q.undo)
        /\ step.joined => step.insert /\ q.undo # <<>> /\ ~Last(q.undo).joined
        /\ IsVersioned(PastOf(e, b.undo), PastOf(e1, q.undo), step, q.text)
        /\ IsVersioned(FutureOf(l1, q.redo), FutureOf(l, b.redo), step,
                       IF b.redo # <<>> /\ Last(b.redo).joined THEN l[Len(b.redo)] ELSE b.text)
  BY <1>1, OneUndoneGoesBack
<1>3. /\ b.redo \in Seq(WholeSteps) /\ q.undo \in Seq(WholeSteps) /\ l \in Seq(Held)
      /\ Len(l) = Len(b.redo) + 1 /\ l[Len(b.redo) + 1] = b.text /\ q.text \in Held
      /\ b.undo \in Seq(WholeSteps)
  BY <1>1, <1>2 DEF SoundBuffer, Line
<1>4. IsVersioned(FutureOf(l1, q.redo), FutureOf(l, b.redo), step, b.text)
  BY <1>1, <1>2
<1>5. /\ Alone(q.redo) /\ q.redo # <<>> /\ Last(q.redo) = step
  BY <1>1, <1>2, <1>3, ApartGrows DEF IsPushed
<1>6. CASE ~step.joined
  <2>1. Undone(b) = q
    BY <1>2, <1>6 DEF Undone
  <2> HIDE DEF q, l1, e1
  <2>2. Ordered(q, e1, l1)
    BY <1>2, <1>5, <1>6 DEF Ordered, PairedAbove
  <2>3. GoesBack(b, e, l, q, e1, l1)
    BY <1>2, <1>4, <1>6, <2>2 DEF GoesBack, IsVersioned, VersionOf
  <2> QED
    BY <2>1, <2>3
<1>7. CASE step.joined
  <2> DEFINE r == OneUndone(q)
             e2 == Front(e1)
             l2 == Append(l1, r.text)
  <2>1. Undone(b) = r
    <3>1. q.undo # <<>>
      BY <1>2, <1>7
    <3> HIDE DEF q
    <3>2. Len(b.undo) > 1
      BY <1>2, <1>3, <3>1 DEF IsPushed
    <3> QED
      BY <1>2, <1>7, <3>2 DEF Undone, q
  <2>2. q.undo # <<>> /\ SoundBuffer(q, e1, l1) /\ PairedBelow(q.undo) /\ Alone(q.redo)
    BY <1>2, <1>5, <1>7
  <2>3. l1[Len(q.redo)] = b.text /\ q.redo # <<>> /\ Last(q.redo).joined
    <3>1. Len(q.redo) = Len(b.redo) + 1 /\ Len(b.redo) + 1 \in 1 .. Len(l)
      BY <1>2, <1>3 DEF IsPushed
    <3> DEFINE k == Len(b.redo) + 1
               u == q.text
    <3>2. k \in 1 .. Len(l) /\ l1 = Append(l, u) /\ Len(q.redo) = k /\ l[k] = b.text
      BY <1>3, <3>1
    <3> HIDE DEF k, u, l1, q
    <3>3. l1[k] = l[k]
      BY <1>3, <3>2
    <3> QED
      BY <1>5, <1>7, <3>2, <3>3
  <2> HIDE DEF q, l1, e1
  <2>4. PICK next \in WholeSteps :
          /\ SoundBuffer(r, e2, l2)
          /\ next = Last(q.undo) /\ <<r.cursor, r.anchor>> = CaretOf(next)
          /\ IsPushed(q.undo, r.undo, next) /\ IsPushed(r.redo, q.redo, next)
          /\ PairedBelow(r.undo)
          /\ next.joined => next.insert /\ r.undo # <<>> /\ ~Last(r.undo).joined
          /\ IsVersioned(PastOf(e1, q.undo), PastOf(e2, r.undo), next, r.text)
          /\ IsVersioned(FutureOf(l2, r.redo), FutureOf(l1, q.redo), next,
                         IF q.redo # <<>> /\ Last(q.redo).joined THEN l1[Len(q.redo)] ELSE q.text)
    BY <2>2, OneUndoneGoesBack
  <2>5. IsVersioned(FutureOf(l2, r.redo), FutureOf(l1, q.redo), next, b.text)
    BY <2>3, <2>4
  <2> HIDE DEF r, e2, l2
  <2>6. ~next.joined
    BY <1>2, <1>7, <2>4
  <2>7. PairedAbove(r.redo)
    <3>1. q.redo \in Seq(WholeSteps)
      BY <2>2 DEF SoundBuffer, Line
    <3>2. Alone(r.redo) /\ Last(r.redo) = next
      BY <2>2, <2>4, <2>6, <3>1, ApartGrows DEF IsPushed
    <3> QED
      BY <2>6, <3>2 DEF PairedAbove
  <2>8. Ordered(r, e2, l2)
    BY <2>4, <2>7 DEF Ordered
  <2>9. GoesBack(b, e, l, r, e2, l2)
    BY <1>2, <1>4, <1>7, <2>4, <2>5, <2>6, <2>8 DEF GoesBack, IsVersioned, VersionOf
  <2> QED
    BY <2>1, <2>9
<1> QED
  BY <1>6, <1>7

Redone(b) ==
  LET one == OneRedone(b)
  IN  IF one.redo # <<>> /\ Last(one.redo).joined THEN OneRedone(one) ELSE one

\* A redo brings back the version that was left last, and leaves the current one,
\* with the caret that was noted for it, as the next to go back to.
GoesForward(b, e, l, r, f, m, c) ==
  /\ Ordered(r, f, m)
  /\ IsSeq(FutureOf(m, r.redo))
  /\ FutureOf(l, b.redo) = Append(FutureOf(m, r.redo), [text |-> r.text, caret |-> c])
  /\ PastOf(f, r.undo) = Append(PastOf(e, b.undo), [text |-> b.text, caret |-> c])

\* The redo of one step, the parts named.
LEMMA OneRedoneGoesForward ==
  ASSUME NEW b, NEW e, NEW l, SoundBuffer(b, e, l), PairedBelow(b.undo), Alone(b.redo), b.redo # <<>>,
         Last(b.redo).joined => b.undo # <<>> /\ ~Last(b.undo).joined,
         NEW r, r = OneRedone(b)
  PROVE  \E step \in WholeSteps :
           LET f == Append(e, r.text)
               m == Front(l)
           IN  /\ SoundBuffer(r, f, m)
               /\ step = Last(b.redo)
               /\ r.undo # <<>> /\ Last(r.undo) = step /\ PairedBelow(r.undo)
               /\ Alone(r.redo)
               /\ step.joined => r.redo = <<>> \/ ~Last(r.redo).joined
               /\ IsVersioned(PastOf(f, r.undo), PastOf(e, b.undo), step, b.text)
               /\ IsVersioned(FutureOf(l, b.redo), FutureOf(m, r.redo), step,
                              IF r.redo # <<>> /\ Last(r.redo).joined THEN m[Len(r.redo)] ELSE r.text)
<1> DEFINE z == b.redo
           step == Last(z)
           mid == l[Len(z)]
           f == Append(e, r.text)
           m == Front(l)
           z1 == r.redo
           t == b.text
           more == r.undo
           s == b.undo
           u == r.text
<1>1. /\ SoundBuffer(r, f, m) /\ u = mid
      /\ z1 = Front(z) /\ more = Append(s, step)
      /\ step \in WholeSteps
  BY RedoingIsSound
<1>2. Line(e, s, t, TRUE) /\ Line(l, z, t, FALSE) /\ PairedBelow(s) /\ z # <<>> /\ t \in Held /\ Alone(z)
  BY DEF SoundBuffer
<1>3. Line(m, z1, u, FALSE) /\ u \in Held
  BY <1>1 DEF SoundBuffer
<1>4. Append(z1, step) = z /\ Append(m, t) = l
  <2> HIDE DEF z, t, z1
  <2>1. Append(Front(z), Last(z)) = z /\ Append(Front(l), t) = l
    BY <1>2, LineShrinks
  <2> QED
    BY <1>1, <2>1 DEF z1
<1>5. f = Append(e, u)
  OBVIOUS
<1>0. step.joined => s # <<>> /\ ~Last(s).joined
  OBVIOUS
<1> HIDE DEF z, step, mid, f, m, z1, t, more, s, u
<1>6. /\ IsPushed(z, z1, step) /\ IsPushed(l, m, t)
      /\ IsPushed(more, s, step) /\ IsPushed(f, e, u)
  BY <1>1, <1>4, <1>5 DEF IsPushed
<1>7. Alone(z1) /\ (step.joined => step.insert /\ (z1 # <<>> => ~Last(z1).joined))
  <2>1. z1 \in Seq(WholeSteps)
    BY <1>3 DEF Line
  <2> QED
    BY <1>1, <1>2, <1>4, <2>1, ApartGrows
<1>8. more # <<>> /\ Last(more) = step /\ PairedBelow(more)
  <2>1. s \in Seq(WholeSteps)
    BY <1>2 DEF Line
  <2>2. /\ PairedBelow(Append(s, step))
              <=> /\ PairedBelow(s)
                  /\ step.joined => step.insert /\ s # <<>> /\ ~Last(s).joined
        /\ Append(s, step) # <<>> /\ Last(Append(s, step)) = step
    BY <1>1, <2>1, PairedBelowGrows
  <2> QED
    BY <1>0, <1>1, <1>2, <1>7, <2>2
<1>9. IsVersioned(FutureOf(l, z), FutureOf(m, z1), step,
                  IF z1 # <<>> /\ Last(z1).joined THEN m[Len(z1)] ELSE u)
  <2>1. t \in Held /\ step \in WholeSteps /\ Line(m, z1, u, FALSE)
    BY <1>1, <1>2, <1>3
  <2> QED
    BY <1>6, <2>1, FutureIsPushed
<1>10. IsVersioned(PastOf(f, more), PastOf(e, s), step, t)
  BY <1>1, <1>2, <1>3, <1>6, PastIsPushed
<1> QED
  BY <1>1, <1>7, <1>8, <1>9, <1>10 DEF z, step, f, m, z1, t, more, s, u

LEMMA RedoGoesForward ==
  ASSUME NEW b, NEW e, NEW l, Ordered(b, e, l), b.redo # <<>>
  PROVE  \E f, m, c : GoesForward(b, e, l, Redone(b), f, m, c)
<1> DEFINE q == OneRedone(b)
           e1 == Append(e, q.text)
           l1 == Front(l)
<1>1. SoundBuffer(b, e, l) /\ PairedBelow(b.undo) /\ Alone(b.redo) /\ ~Last(b.redo).joined
  BY DEF Ordered, PairedAbove
<1>2. PICK step \in WholeSteps :
        /\ SoundBuffer(q, e1, l1)
        /\ step = Last(b.redo)
        /\ q.undo # <<>> /\ Last(q.undo) = step /\ PairedBelow(q.undo)
        /\ Alone(q.redo)
        /\ step.joined => q.redo = <<>> \/ ~Last(q.redo).joined
        /\ IsVersioned(PastOf(e1, q.undo), PastOf(e, b.undo), step, b.text)
        /\ IsVersioned(FutureOf(l, b.redo), FutureOf(l1, q.redo), step,
                       IF q.redo # <<>> /\ Last(q.redo).joined THEN l1[Len(q.redo)] ELSE q.text)
  BY <1>1, OneRedoneGoesForward
<1>3. ~step.joined
  BY <1>1, <1>2
<1> DEFINE c == CaretOf(step)
<1>4. PastOf(e1, q.undo) = Append(PastOf(e, b.undo), [text |-> b.text, caret |-> c])
  BY <1>2, <1>3 DEF IsVersioned
<1> HIDE DEF c
<1>5. CASE ~(q.redo # <<>> /\ Last(q.redo).joined)
  <2>1. Redone(b) = q
    BY <1>5 DEF Redone
  <2>2. IsVersioned(FutureOf(l, b.redo), FutureOf(l1, q.redo), step, q.text)
    BY <1>2, <1>5
  <2> HIDE DEF q, l1, e1
  <2>3. Ordered(q, e1, l1)
    BY <1>2, <1>5 DEF Ordered, PairedAbove
  <2>4. GoesForward(b, e, l, q, e1, l1, c)
    BY <1>3, <1>4, <2>2, <2>3 DEF GoesForward, IsVersioned, c
  <2> QED
    BY <2>1, <2>4
<1>6. CASE q.redo # <<>> /\ Last(q.redo).joined
  <2> DEFINE r == OneRedone(q)
             e2 == Append(e1, r.text)
             l2 == Front(l1)
  <2>1. Redone(b) = r
    BY <1>6 DEF Redone
  <2>2. IsVersioned(FutureOf(l, b.redo), FutureOf(l1, q.redo), step, l1[Len(q.redo)])
    BY <1>2, <1>6
  <2>3. /\ SoundBuffer(q, e1, l1) /\ PairedBelow(q.undo) /\ Alone(q.redo) /\ q.redo # <<>>
        /\ Last(q.redo).joined => q.undo # <<>> /\ ~Last(q.undo).joined
    BY <1>2, <1>3, <1>6
  <2> HIDE DEF q, l1, e1
  <2>4. r.text = l1[Len(q.redo)]
    BY <2>3, RedoingIsSound
  <2>5. PICK next \in WholeSteps :
          /\ SoundBuffer(r, e2, l2)
          /\ next = Last(q.redo)
          /\ r.undo # <<>> /\ Last(r.undo) = next /\ PairedBelow(r.undo)
          /\ Alone(r.redo)
          /\ next.joined => r.redo = <<>> \/ ~Last(r.redo).joined
          /\ IsVersioned(PastOf(e2, r.undo), PastOf(e1, q.undo), next, q.text)
          /\ IsVersioned(FutureOf(l1, q.redo), FutureOf(l2, r.redo), next,
                         IF r.redo # <<>> /\ Last(r.redo).joined THEN l2[Len(r.redo)] ELSE r.text)
    BY <2>3, OneRedoneGoesForward
  <2> HIDE DEF r, e2, l2
  <2>6. next.joined
    BY <1>6, <2>5
  <2>7. Ordered(r, e2, l2)
    BY <2>5, <2>6 DEF Ordered, PairedAbove
  <2>8. GoesForward(b, e, l, r, e2, l2, c)
    BY <1>3, <1>4, <2>2, <2>4, <2>5, <2>6, <2>7 DEF GoesForward, IsVersioned, c
  <2> QED
    BY <2>1, <2>8
<1> QED
  BY <1>5, <1>6

--------------------------------------------------------------------------------
(* The state.                                                              *)

\* The invariant: the steps of both stacks lead through a line of texts.
TextIsSound ==
  /\ \E e, l : Ordered(Buffer, e, l)
  /\ want \in Int /\ cut \in BOOLEAN

LEMMA BufferIsThere ==
  /\ Buffer.text = text /\ Buffer.cursor = cursor /\ Buffer.anchor = anchor
  /\ Buffer.undo = undo /\ Buffer.redo = redo
BY DEF Buffer

LEMMA BufferWillBeThere ==
  /\ Buffer'.text = text' /\ Buffer'.cursor = cursor' /\ Buffer'.anchor = anchor'
  /\ Buffer'.undo = undo' /\ Buffer'.redo = redo'
BY DEF Buffer

LEMMA PastAndFutureAre ==
  ASSUME NEW e, NEW l, Ordered(Buffer, e, l)
  PROVE  Past = PastOf(e, undo) /\ Future = FutureOf(l, redo)
<1>1. Line(e, undo, text, TRUE) /\ Line(l, redo, text, FALSE)
  BY BufferIsThere DEF Ordered, SoundBuffer
<1> QED
  BY <1>1, VersionsArePastAndFuture

VersionsAreKnown ==
  /\ \A v : Line(v, undo, text, TRUE) => Past = PastOf(v, undo)
  /\ \A v : Line(v, redo, text, FALSE) => Future = FutureOf(v, redo)

LEMMA VersionsWillBeKnown == VersionsAreKnown'
<1>1. VersionsAreKnown
  BY VersionsArePastAndFuture DEF VersionsAreKnown
<1> QED
  BY <1>1, PTL

LEMMA PastAndFutureWillBe ==
  ASSUME NEW e, NEW l, Ordered(Buffer', e, l)
  PROVE  Past' = PastOf(e, undo') /\ Future' = FutureOf(l, redo')
<1>1. Line(e, undo', text', TRUE) /\ Line(l, redo', text', FALSE)
  BY BufferWillBeThere DEF Ordered, SoundBuffer
<1>2. /\ \A v : Line(v, undo', text', TRUE) => Past' = PastOf(v, undo')
      /\ \A v : Line(v, redo', text', FALSE) => Future' = FutureOf(v, redo')
  BY VersionsWillBeKnown DEF VersionsAreKnown
<1> QED
  BY <1>1, <1>2

LEMMA NoVersions ==
  ASSUME NEW t \in Held
  PROVE  /\ \A v : PastOf(v, <<>>) = <<>> /\ FutureOf(v, <<>>) = <<>>
         /\ \A p : IsOffset(t, p) =>
              LET b == [text |-> t, cursor |-> p, anchor |-> p, undo |-> <<>>, redo |-> <<>>]
              IN  Ordered(b, <<t>>, <<t>>)
<1>1. \A v : VersionsOf(v, <<>>) = <<>>
  <2> TAKE v
  <2>1. DOMAIN FirstsOf(<<>>) = {}
    BY NoFirsts
  <2>2. VersionsOf(v, <<>>) = [k \in {} |-> v[FirstsOf(<<>>)[k]]]
    BY <2>1 DEF VersionsOf
  <2> QED
    BY <2>2
<1>2. \A v : PastOf(v, <<>>) = <<>> /\ FutureOf(v, <<>>) = <<>>
  BY <1>1 DEF PastOf, FutureOf
<1>3. ASSUME NEW p, IsOffset(t, p)
      PROVE  LET b == [text |-> t, cursor |-> p, anchor |-> p, undo |-> <<>>, redo |-> <<>>]
             IN  Ordered(b, <<t>>, <<t>>)
  <2>1. Line(<<t>>, <<>>, t, TRUE) /\ Line(<<t>>, <<>>, t, FALSE)
    BY LineBegins
  <2> QED
    BY <1>3, <2>1, NothingIsPaired DEF Ordered, SoundBuffer
<1> QED
  BY <1>2, <1>3

\* What a sound buffer says of the offsets.
LEMMA TextIsWhole ==
  ASSUME TextIsSound
  PROVE  /\ text \in Held /\ text \in Words /\ Len(text) \in Nat
         /\ cursor \in Boundaries /\ anchor \in Boundaries
         /\ \A p : p \in Boundaries <=> IsOffset(text, p)
         /\ Boundaries \in SUBSET (0 .. Len(text))
<1>1. PICK e, l : Ordered(Buffer, e, l)
  BY DEF TextIsSound
<1>2. text \in Held /\ IsOffset(text, cursor) /\ IsOffset(text, anchor)
  BY <1>1, BufferIsThere DEF Ordered, SoundBuffer
<1>3. text \in Words
  BY <1>2, HeldTexts
<1> QED
  BY <1>2, <1>3, EndsAreOffsets

LEMMA TextBeginsSound == TextInit => TextIsSound /\ History!Init
<1> SUFFICES ASSUME TextInit PROVE TextIsSound /\ History!Init
  OBVIOUS
<1>1. <<>> \in Held /\ IsOffset(<<>>, 0)
  BY EmptyText
<1>2. Buffer = [text |-> <<>>, cursor |-> 0, anchor |-> 0, undo |-> <<>>, redo |-> <<>>]
  BY DEF Buffer, TextInit
<1>3. Ordered(Buffer, << <<>> >>, << <<>> >>)
  BY <1>1, <1>2, NoVersions
<1>4. Past = PastOf(<< <<>> >>, undo) /\ Future = FutureOf(<< <<>> >>, redo)
  BY <1>3, PastAndFutureAre
<1>5. Past = <<>> /\ Future = <<>>
  BY <1>1, <1>4, NoVersions DEF TextInit
<1>6. TextIsSound
  <2> DEFINE v == << <<>> >>
  <2>1. Ordered(Buffer, v, v)
    BY <1>3
  <2> HIDE DEF v
  <2>2. want \in Int /\ cut \in BOOLEAN
    <3>1. want \in Int
      BY DEF TextInit
    <3>2. cut \in BOOLEAN
      BY Zenon DEF TextInit
    <3> QED
      BY <3>1, <3>2
  <2>3. \E e, l : Ordered(Buffer, e, l)
    BY <2>1, Zenon
  <2> QED
    BY <2>2, <2>3, Zenon DEF TextIsSound
<1> QED
  BY <1>5, <1>6 DEF History!Init, TextInit

Carets(t) == (0 .. Len(t)) \X (0 .. Len(t))

\* A caret that moves to an offset between characters.
LEMMA CaretMovesSoundly ==
  ASSUME TextIsSound, NEW p \in Boundaries, NEW extend \in BOOLEAN, PutCaret(p, extend),
         want' \in Int
  PROVE  TextIsSound' /\ History!MoveCaret
<1>1. PICK e, l : Ordered(Buffer, e, l)
  BY DEF TextIsSound
<1>2. /\ text' = text /\ undo' = undo /\ redo' = redo /\ cut' = cut
      /\ IsOffset(text, cursor') /\ IsOffset(text, anchor')
  BY TextIsWhole DEF PutCaret
<1>3. Buffer' = [text |-> text, cursor |-> cursor', anchor |-> anchor', undo |-> undo, redo |-> redo]
  BY <1>2 DEF Buffer
<1>4. Ordered(Buffer', e, l)
  BY <1>1, <1>2, <1>3, BufferIsThere DEF Ordered, SoundBuffer
<1>5. Past = PastOf(e, undo) /\ Future = FutureOf(l, redo)
  BY <1>1, PastAndFutureAre
<1>6. Past' = PastOf(e, undo') /\ Future' = FutureOf(l, redo')
  BY <1>4, PastAndFutureWillBe
<1>7. TextIsSound'
  BY <1>2, <1>4 DEF TextIsSound
<1>8. <<cursor', anchor'>> \in Carets(text)
  BY <1>2 DEF IsOffset, Carets
<1> QED
  BY <1>2, <1>5, <1>6, <1>7, <1>8 DEF History!MoveCaret, Carets

\* An edit.
LEMMA EditsAreSound ==
  ASSUME NEW e, NEW l, Ordered(Buffer, e, l), NEW f, Edits(Buffer, e, Buffer', f),
         want' \in Int, cut' \in BOOLEAN
  PROVE  TextIsSound' /\ History!Edit
<1>1. /\ Ordered(Buffer', f, <<text'>>) /\ redo' = <<>>
      /\ \/ PastOf(f, undo') = Append(PastOf(e, undo), VersionOf(Buffer))
         \/ PastOf(f, undo') = PastOf(e, undo) /\ PastOf(e, undo) # <<>>
  BY BufferIsThere, BufferWillBeThere DEF Edits
<1>2. Past = PastOf(e, undo) /\ Past' = PastOf(f, undo') /\ Future' = FutureOf(<<text'>>, redo')
  BY <1>1, PastAndFutureAre, PastAndFutureWillBe
<1>3. text' \in Held /\ IsOffset(text', cursor') /\ IsOffset(text', anchor')
  BY <1>1, BufferWillBeThere DEF Ordered, SoundBuffer
<1>4. text' \in Buffers /\ <<cursor', anchor'>> \in Carets(text')
  BY <1>3, HeldTexts DEF IsOffset, Carets
<1>5. Future' = <<>>
  BY <1>1, <1>2, <1>3, NoVersions
<1>6. VersionOf(Buffer) = History!Version(text, <<cursor, anchor>>)
  BY BufferIsThere DEF VersionOf, History!Version
<1>7. TextIsSound'
  BY <1>1 DEF TextIsSound
<1> QED
  BY <1>1, <1>2, <1>4, <1>5, <1>6, <1>7 DEF History!Edit, Carets

LEMMA BufferBecomes ==
  ASSUME NEW b, Become(b),
         b = [text |-> b.text, cursor |-> b.cursor, anchor |-> b.anchor,
              undo |-> b.undo, redo |-> b.redo]
  PROVE  Buffer' = b /\ want' \in Int
BY DEF Become, Buffer

\* The abstract actions, and the steps the user's line of versions does not see.
HistoryStep == History!Next \/ UNCHANGED <<text, cursor, anchor, Past, Future>>

LEMMA StaysSound ==
  ASSUME TextIsSound, UNCHANGED <<text, cursor, anchor, undo, redo>>, want' \in Int, cut' \in BOOLEAN
  PROVE  TextIsSound' /\ HistoryStep
<1>1. PICK e, l : Ordered(Buffer, e, l)
  BY DEF TextIsSound
<1>2. Buffer' = Buffer
  BY DEF Buffer
<1>3. Ordered(Buffer', e, l)
  BY <1>1, <1>2
<1>4. Past' = Past /\ Future' = Future
  BY <1>1, <1>3, PastAndFutureAre, PastAndFutureWillBe
<1> QED
  BY <1>3, <1>4 DEF TextIsSound, HistoryStep

LEMMA LoadIsSound ==
  ASSUME TextIsSound, NEW s \in Loads, Load(s)
  PROVE  TextIsSound' /\ History!Load
<1> DEFINE r == [text |-> s, cursor |-> Len(s), anchor |-> Len(s), undo |-> <<>>, redo |-> <<>>]
<1>1. s \in Held /\ s \in Words /\ Len(s) \in Nat
  BY TextAssumption DEF Held, Words
<1>2. IsOffset(s, Len(s))
  BY <1>1 DEF IsOffset, Boundary
<1>3. /\ Become(r) /\ cut' = FALSE
      /\ r = [text |-> r.text, cursor |-> r.cursor, anchor |-> r.anchor,
              undo |-> r.undo, redo |-> r.redo]
      /\ r.text = s /\ r.undo = <<>> /\ r.redo = <<>> /\ r.cursor = Len(s) /\ r.anchor = Len(s)
  BY DEF Load
<1>4. Ordered(r, <<s>>, <<s>>)
  BY <1>1, <1>2, NoVersions
<1> HIDE DEF r
<1>5. Buffer' = r /\ want' \in Int
  BY <1>3, BufferBecomes
<1>6. text' = s /\ undo' = <<>> /\ redo' = <<>> /\ cursor' = Len(s) /\ anchor' = Len(s)
  BY <1>3, <1>5, BufferWillBeThere
<1> DEFINE v == <<s>>
<1>7. Ordered(Buffer', v, v)
  BY <1>4, <1>5
<1> HIDE DEF v
<1>8. Past' = <<>> /\ Future' = <<>>
  <2>1. Past' = PastOf(v, undo') /\ Future' = FutureOf(v, redo')
    BY <1>7, PastAndFutureWillBe
  <2> QED
    BY <1>1, <1>6, <2>1, NoVersions
<1>9. cut' \in BOOLEAN
  BY <1>3, Zenon
<1>10. TextIsSound'
  <2>1. \E e, l : Ordered(Buffer', e, l)
    BY <1>7, Zenon
  <2> QED
    BY <1>5, <1>9, <2>1, Zenon DEF TextIsSound
<1>11. text' \in Buffers /\ <<cursor', anchor'>> \in (0 .. Len(text')) \X (0 .. Len(text'))
  BY <1>1, <1>6, HeldTexts
<1> QED
  BY <1>8, <1>10, <1>11 DEF History!Load

LEMMA DeletingIsSound ==
  ASSUME TextIsSound, NEW from \in Boundaries, NEW to \in Boundaries, DeleteRange(from, to)
  PROVE  TextIsSound' /\ History!Edit
<1> DEFINE r == RangeErased(Buffer, cut, from, to)
<1>1. PICK e, l : Ordered(Buffer, e, l)
  BY DEF TextIsSound
<1>2. IsOffset(Buffer.text, from) /\ IsOffset(Buffer.text, to) /\ from < to /\ cut \in BOOLEAN
  BY TextIsWhole, BufferIsThere DEF DeleteRange, TextIsSound
<1>3. PICK f : Edits(Buffer, e, r, f)
  BY <1>1, <1>2, ErasingEdits
<1>4. /\ Become(r) /\ cut' = FALSE
      /\ r = [text |-> r.text, cursor |-> r.cursor, anchor |-> r.anchor,
              undo |-> r.undo, redo |-> r.redo]
  BY DEF DeleteRange, RangeErased
<1> HIDE DEF r
<1>5. Buffer' = r /\ want' \in Int
  BY <1>4, BufferBecomes
<1>6. cut' \in BOOLEAN
  BY <1>4, Zenon
<1>7. Edits(Buffer, e, Buffer', f)
  BY <1>3, <1>5
<1> QED
  BY <1>1, <1>5, <1>6, <1>7, EditsAreSound

\* From and To are the ends of the selection, and so between characters.
LEMMA SelectionIsWhole ==
  ASSUME TextIsSound, Selected
  PROVE  From \in Boundaries /\ To \in Boundaries /\ From < To
<1>1. cursor \in Boundaries /\ anchor \in Boundaries /\ cursor \in Int /\ anchor \in Int
  BY TextIsWhole
<1> QED
  BY <1>1 DEF From, To, Selected

LEMMA DeleteIsSound ==
  ASSUME TextIsSound, DeleteBack \/ DeleteForward
  PROVE  TextIsSound' /\ History!Edit
<1>1. /\ text \in Words /\ cursor \in Boundaries
  BY TextIsWhole
<1>2. Before(cursor) \in Boundaries /\ After(cursor) \in Boundaries
  BY <1>1, StepsAreOffsets
<1>3. CASE Selected
  <2>1. DeleteRange(From, To)
    BY <1>3 DEF DeleteBack, DeleteForward
  <2> QED
    BY <1>3, <2>1, SelectionIsWhole, DeletingIsSound
<1>4. CASE ~Selected
  <2>1. DeleteRange(Before(cursor), cursor) \/ DeleteRange(cursor, After(cursor))
    BY <1>4 DEF DeleteBack, DeleteForward
  <2> QED
    BY <1>1, <1>2, <2>1, DeletingIsSound
<1> QED
  BY <1>3, <1>4

LEMMA InsertIsSound ==
  ASSUME TextIsSound, NEW s \in Inserts, Insert(s)
  PROVE  TextIsSound' /\ HistoryStep
<1> DEFINE b == IF Selected THEN RangeErased(Buffer, cut, From, To) ELSE Buffer
           r == IF s = <<>> THEN b ELSE Typed(b, cut, s, Selected)
<1>1. PICK e, l : Ordered(Buffer, e, l)
  BY DEF TextIsSound
<1>2. /\ Become(r) /\ cut' = (cut /\ s = <<>> /\ ~Selected)
      /\ s # <<>> => Len(b.text) + Len(s) <= MaxTyped
  BY DEF Insert, Typed
<1>3. cut' \in BOOLEAN /\ cut \in BOOLEAN
  <2>1. cut \in BOOLEAN
    BY DEF TextIsSound
  <2>2. cut' \in BOOLEAN
    BY <1>2, <2>1, Zenon
  <2> QED
    BY <2>1, <2>2
<1>4. r = [text |-> r.text, cursor |-> r.cursor, anchor |-> r.anchor,
           undo |-> r.undo, redo |-> r.redo]
  <2>1. b = [text |-> b.text, cursor |-> b.cursor, anchor |-> b.anchor,
             undo |-> b.undo, redo |-> b.redo]
    BY DEF RangeErased, Buffer
  <2> HIDE DEF b
  <2> QED
    BY <2>1 DEF Typed
<1>5. s \in Words /\ (s # <<>> => Len(b.text) + Len(s) <= MaxLen \/ Len(b.text) \notin Nat)
  <2>1. s \in Words /\ Len(s) \in Nat
    BY TextAssumption DEF Words
  <2> HIDE DEF b
  <2> QED
    BY <1>2, <2>1, TextAssumption
<1>6. Buffer' = r /\ want' \in Int
  <2> HIDE DEF r
  <2> QED
    BY <1>2, <1>4, BufferBecomes
<1>7. CASE ~Selected /\ s = <<>>
  <2>1. Buffer' = Buffer
    BY <1>6, <1>7
  <2>2. UNCHANGED <<text, cursor, anchor, undo, redo>>
    BY <2>1, BufferIsThere, BufferWillBeThere
  <2> QED
    BY <1>3, <1>6, <2>2, StaysSound
<1>8. CASE ~Selected /\ s # <<>>
  <2>1. r = Typed(Buffer, cut, s, FALSE)
    <3>1. b = Buffer /\ Selected = FALSE
      BY <1>8 DEF Selected
    <3> QED
      BY <1>8, <3>1
  <2>2. Len(Buffer.text) + Len(s) <= MaxLen
    <3>1. Len(Buffer.text) \in Nat /\ b = Buffer
      BY <1>8, TextIsWhole, BufferIsThere
    <3> QED
      BY <1>5, <1>8, <3>1
  <2> HIDE DEF r
  <2>3. PICK f : Edits(Buffer, e, r, f)
    BY <1>1, <1>3, <1>5, <1>8, <2>1, <2>2, TypingEdits
  <2>4. Edits(Buffer, e, Buffer', f)
    BY <1>6, <2>3
  <2>5. TextIsSound' /\ History!Edit
    BY <1>1, <1>3, <1>6, <2>4, EditsAreSound
  <2> QED
    BY <2>5 DEF HistoryStep, History!Next
<1>9. CASE Selected
  <2> DEFINE from == From
             to == To
             a == RangeErased(Buffer, cut, from, to)
  <2>1. b = a
    BY <1>9
  <2>2. IsOffset(Buffer.text, from) /\ IsOffset(Buffer.text, to) /\ from < to
    BY <1>9, TextIsWhole, SelectionIsWhole, BufferIsThere
  <2> HIDE DEF from, to
  <2>3. PICK f : Edits(Buffer, e, a, f) /\ ~Last(a.undo).joined /\ Len(a.text) <= Len(Buffer.text)
    BY <1>1, <1>3, <2>2, ErasingEdits
  <2> HIDE DEF a
  <2>4. CASE s = <<>>
    <3>1. Buffer' = a
      BY <1>6, <2>1, <2>4
    <3>2. Edits(Buffer, e, Buffer', f)
      BY <2>3, <3>1
    <3>3. TextIsSound' /\ History!Edit
      BY <1>1, <1>3, <1>6, <3>2, EditsAreSound
    <3> QED
      BY <3>3 DEF HistoryStep, History!Next
  <2>5. CASE s # <<>>
    <3>1. r = Typed(a, cut, s, TRUE)
      <4>1. Selected = TRUE
        BY <1>9 DEF Selected
      <4> QED
        BY <2>1, <2>5, <4>1
    <3>2. Ordered(a, f, <<a.text>>) /\ a.undo # <<>>
      BY <2>3 DEF Edits
    <3>3. Len(a.text) + Len(s) <= MaxLen
      <4>1. Len(a.text) \in Nat
        BY <3>2, HeldTexts DEF Ordered, SoundBuffer
      <4> QED
        BY <1>5, <2>1, <2>5, <4>1
    <3> DEFINE m == <<a.text>>
    <3>4. Ordered(a, f, m)
      BY <3>2
    <3> HIDE DEF r, m
    <3>5. PICK g : /\ Ordered(r, g, <<r.text>>) /\ r.redo = <<>> /\ r.undo # <<>>
                   /\ PastOf(g, r.undo) = PastOf(f, a.undo)
      <4> DEFINE q == Typed(a, cut, s, TRUE)
      <4>1. \E g : /\ Ordered(q, g, <<q.text>>) /\ q.redo = <<>> /\ q.undo # <<>>
                   /\ PastOf(g, q.undo) = PastOf(f, a.undo)
        BY <1>3, <1>5, <2>3, <2>5, <3>2, <3>3, <3>4, TypingEdits
      <4> HIDE DEF q
      <4>2. r = q
        BY <3>1 DEF q
      <4> QED
        BY <4>1, <4>2
    <3>6. Edits(Buffer, e, r, g)
      BY <2>3, <3>5 DEF Edits
    <3>7. Edits(Buffer, e, Buffer', g)
      BY <1>6, <3>6
    <3>8. TextIsSound' /\ History!Edit
      BY <1>1, <1>3, <1>6, <3>7, EditsAreSound
    <3> QED
      BY <3>8 DEF HistoryStep, History!Next
  <2> QED
    BY <2>4, <2>5
<1> QED
  BY <1>7, <1>8, <1>9

\* The abstract specification has its own name for the ends of a sequence.
LEMMA SameEnds ==
  ASSUME NEW s
  PROVE  History!Last(s) = Last(s) /\ History!Front(s) = Front(s)
BY DEF Last, Front, History!Last, History!Front

LEMMA UndoIsSound ==
  ASSUME TextIsSound, Undo
  PROVE  TextIsSound' /\ History!Undo
<1> DEFINE r == Undone(Buffer)
<1>1. PICK e, l : Ordered(Buffer, e, l)
  BY DEF TextIsSound
<1>2. Buffer.undo # <<>> /\ Become(r) /\ cut' = TRUE
  BY BufferIsThere DEF Undo, Undone
<1>3. PICK f, m : GoesBack(Buffer, e, l, r, f, m)
  BY <1>1, <1>2, UndoGoesBack
<1> HIDE DEF r
<1>4. Ordered(r, f, m)
  BY <1>3 DEF GoesBack
<1>5. Buffer' = r /\ want' \in Int
  <2>1. r = [text |-> r.text, cursor |-> r.cursor, anchor |-> r.anchor,
             undo |-> r.undo, redo |-> r.redo]
    BY <1>4 DEF Ordered, SoundBuffer
  <2> QED
    BY <1>2, <2>1, BufferBecomes
<1>6. Ordered(Buffer', f, m)
  BY <1>4, <1>5
<1>7. /\ Past = PastOf(e, undo) /\ Future = FutureOf(l, redo)
      /\ Past' = PastOf(f, undo') /\ Future' = FutureOf(m, redo')
  BY <1>1, <1>6, PastAndFutureAre, PastAndFutureWillBe
<1> DEFINE v == [text |-> text', caret |-> <<cursor', anchor'>>]
<1>8. /\ IsSeq(Past') /\ Past = Append(Past', v)
      /\ Future' = Append(Future, [text |-> text, caret |-> <<cursor', anchor'>>])
  BY <1>3, <1>5, <1>7, BufferIsThere, BufferWillBeThere DEF GoesBack, VersionOf
<1>9. v.text = text' /\ v.caret = <<cursor', anchor'>>
  OBVIOUS
<1> HIDE DEF v
<1>10. Past # <<>> /\ Last(Past) = v /\ Front(Past) = Past'
  BY <1>8, IsLonger
<1>11. cut' \in BOOLEAN
  BY <1>2, Zenon
<1>12. TextIsSound'
  <2>1. \E x, y : Ordered(Buffer', x, y)
    BY <1>6, Zenon
  <2> QED
    BY <1>5, <1>11, <2>1, Zenon DEF TextIsSound
<1> QED
  BY <1>8, <1>9, <1>10, <1>12, SameEnds DEF History!Undo, History!Version

LEMMA RedoIsSound ==
  ASSUME TextIsSound, Redo
  PROVE  TextIsSound' /\ History!Redo
<1> DEFINE r == Redone(Buffer)
<1>1. PICK e, l : Ordered(Buffer, e, l)
  BY DEF TextIsSound
<1>2. Buffer.redo # <<>> /\ Become(r) /\ cut' = TRUE
  BY BufferIsThere DEF Redo, Redone
<1>3. PICK f, m, c : GoesForward(Buffer, e, l, r, f, m, c)
  BY <1>1, <1>2, RedoGoesForward
<1> HIDE DEF r
<1>4. Ordered(r, f, m)
  BY <1>3 DEF GoesForward
<1>5. Buffer' = r /\ want' \in Int
  <2>1. r = [text |-> r.text, cursor |-> r.cursor, anchor |-> r.anchor,
             undo |-> r.undo, redo |-> r.redo]
    BY <1>4 DEF Ordered, SoundBuffer
  <2> QED
    BY <1>2, <2>1, BufferBecomes
<1>6. Ordered(Buffer', f, m)
  BY <1>4, <1>5
<1>7. /\ Past = PastOf(e, undo) /\ Future = FutureOf(l, redo)
      /\ Past' = PastOf(f, undo') /\ Future' = FutureOf(m, redo')
  BY <1>1, <1>6, PastAndFutureAre, PastAndFutureWillBe
<1> DEFINE v == [text |-> text', caret |-> c]
<1>8. /\ IsSeq(Future') /\ Future = Append(Future', v)
      /\ Past' = Append(Past, [text |-> text, caret |-> c])
  BY <1>3, <1>5, <1>7, BufferIsThere, BufferWillBeThere DEF GoesForward
<1>9. v.text = text' /\ v.caret = c
  OBVIOUS
<1> HIDE DEF v
<1>10. Future # <<>> /\ Last(Future) = v /\ Front(Future) = Future'
  BY <1>8, IsLonger
<1>11. cut' \in BOOLEAN
  BY <1>2, Zenon
<1>12. TextIsSound'
  <2>1. \E x, y : Ordered(Buffer', x, y)
    BY <1>6, Zenon
  <2> QED
    BY <1>5, <1>11, <2>1, Zenon DEF TextIsSound
<1>13. <<cursor', anchor'>> \in (0 .. Len(text')) \X (0 .. Len(text'))
  <2>1. IsOffset(text', cursor') /\ IsOffset(text', anchor')
    BY <1>6, BufferWillBeThere DEF Ordered, SoundBuffer
  <2> QED
    BY <2>1 DEF IsOffset
<1> QED
  BY <1>8, <1>9, <1>10, <1>12, <1>13, SameEnds DEF History!Redo, History!Version

\* The movements of the caret.
LEMMA CursorIsSound ==
  ASSUME TextIsSound, NEW p \in Nat, NEW extend \in BOOLEAN, SetCursor(p, extend)
  PROVE  TextIsSound' /\ History!MoveCaret
<1> DEFINE q == SnappedTo(IF p > Len(text) THEN Len(text) ELSE p)
<1>1. q \in Boundaries
  <2> DEFINE to == IF p > Len(text) THEN Len(text) ELSE p
  <2>1. text \in Words /\ to \in 0 .. Len(text)
    BY TextIsWhole
  <2> HIDE DEF to
  <2> QED
    BY <2>1, SnappedIsOffset DEF to
<1>2. PutCaret(q, extend) /\ want' \in Int
  BY DEF SetCursor
<1> HIDE DEF q
<1> QED
  BY <1>1, <1>2, CaretMovesSoundly

LEMMA SelectAllIsSound ==
  ASSUME TextIsSound, SelectAll
  PROVE  TextIsSound' /\ History!MoveCaret
<1>1. PICK e, l : Ordered(Buffer, e, l)
  BY DEF TextIsSound
<1>2. /\ text' = text /\ undo' = undo /\ redo' = redo /\ cut' = cut
      /\ cursor' = Len(text) /\ anchor' = 0
      /\ want' \in Int
  BY DEF SelectAll
<1>3. IsOffset(text, cursor') /\ IsOffset(text, anchor')
  BY <1>2, TextIsWhole, EndsAreOffsets
<1>4. Buffer' = [text |-> text, cursor |-> cursor', anchor |-> anchor', undo |-> undo, redo |-> redo]
  BY <1>2 DEF Buffer
<1>5. Ordered(Buffer', e, l)
  BY <1>1, <1>3, <1>4, BufferIsThere DEF Ordered, SoundBuffer
<1>6. Past' = Past /\ Future' = Future
  BY <1>1, <1>2, <1>5, PastAndFutureAre, PastAndFutureWillBe
<1>7. TextIsSound'
  BY <1>2, <1>5 DEF TextIsSound
<1>8. <<cursor', anchor'>> \in (0 .. Len(text)) \X (0 .. Len(text))
  BY <1>3 DEF IsOffset
<1> QED
  BY <1>2, <1>6, <1>7, <1>8 DEF History!MoveCaret

LEMMA MoveIsSound ==
  ASSUME TextIsSound, NEW extend \in BOOLEAN, Move(extend)
  PROVE  TextIsSound' /\ History!MoveCaret
<1>1. PICK to \in Targets : MoveTo(to, extend)
  BY DEF Move
<1>2. text \in Words /\ cursor \in Boundaries
  BY TextIsWhole
<1>3. to \in Boundaries
  <2>1. Before(cursor) \in Boundaries /\ After(cursor) \in Boundaries
    BY <1>2, StepsAreOffsets
  <2>2. WordLeft(cursor) \in Boundaries /\ WordRight(cursor) \in Boundaries
    BY <1>2, WordsAreOffsets
  <2>3. LineStart(LineAt(cursor)) \in Boundaries /\ LineEnd(cursor) \in Boundaries
    BY <1>2, LinesAreOffsets
  <2>4. 0 \in Boundaries /\ Len(text) \in Boundaries
    BY <1>2, EndsAreOffsets
  <2> QED
    BY <2>4, <2>1, <2>2, <2>3 DEF Targets
<1>4. PutCaret(to, extend) /\ want' \in Int
  BY <1>1 DEF MoveTo
<1> QED
  BY <1>3, <1>4, CaretMovesSoundly

LEMMA UpOrDownIsSound ==
  ASSUME TextIsSound, NEW extend \in BOOLEAN, UpOrDown(extend)
  PROVE  TextIsSound' /\ History!MoveCaret
<1>1. text \in Words /\ cursor \in Boundaries /\ want \in Int
  BY TextIsWhole DEF TextIsSound
<1>2. PICK line : MoveVertically(line, extend)
  BY DEF UpOrDown
<1> DEFINE col == IF want < 0 THEN Column(LineStart(LineAt(cursor)), cursor) ELSE want
<1>3. col \in Nat
  <2>1. LineStart(LineAt(cursor)) \in Boundaries /\ Len(text) \in Nat
    BY <1>1, LinesAreOffsets, EndsAreOffsets
  <2>2. Column(LineStart(LineAt(cursor)), cursor) \in Nat
    BY <1>1, <2>1, ColumnsAreOffsets
  <2> QED
    BY <1>1, <2>2
<1>4. CASE line \in 0 .. LastLine
  <2>1. PutCaret(AtColumn(LineStart(line), col), extend) /\ want' = col
    BY <1>2, <1>4 DEF MoveVertically
  <2> HIDE DEF col
  <2>2. LineStart(line) \in Boundaries
    BY <1>1, <1>4, LinesAreOffsets
  <2>3. AtColumn(LineStart(line), col) \in Boundaries /\ want' \in Int
    BY <1>1, <1>3, <2>1, <2>2, ColumnsAreOffsets
  <2> QED
    BY <2>1, <2>3, CaretMovesSoundly
<1>5. CASE line \notin 0 .. LastLine
  <2>1. PutCaret(cursor, extend) /\ want' = want
    BY <1>2, <1>5 DEF MoveVertically
  <2>2. want' \in Int
    BY <1>1, <2>1
  <2> QED
    BY <1>1, <2>1, <2>2, CaretMovesSoundly
<1> QED
  BY <1>4, <1>5

\* Every step keeps the invariant and is a step of the abstract history, or one
\* it does not see.
LEMMA TextStepIsSound ==
  ASSUME TextIsSound, [TextNext]_textVars
  PROVE  TextIsSound' /\ HistoryStep
<1>1. MaxLen \in Nat
  BY TextAssumption
<1>2. ASSUME NEW p \in 0 .. MaxLen + 1, NEW extend \in BOOLEAN, SetCursor(p, extend)
      PROVE  TextIsSound' /\ HistoryStep
  <2>1. p \in Nat
    BY <1>1
  <2> QED
    BY <1>2, <2>1, CursorIsSound DEF HistoryStep, History!Next
<1>3. ASSUME NEW extend \in BOOLEAN, Move(extend) \/ UpOrDown(extend)
      PROVE  TextIsSound' /\ HistoryStep
  BY <1>3, MoveIsSound, UpOrDownIsSound DEF HistoryStep, History!Next
<1>4. ASSUME NEW s \in Loads, Load(s)
      PROVE  TextIsSound' /\ HistoryStep
  BY <1>4, LoadIsSound DEF HistoryStep, History!Next
<1>5. ASSUME NEW s \in Inserts, Insert(s)
      PROVE  TextIsSound' /\ HistoryStep
  BY <1>5, InsertIsSound
<1>6. ASSUME SelectAll \/ DeleteBack \/ DeleteForward \/ Undo \/ Redo
      PROVE  TextIsSound' /\ HistoryStep
  BY <1>6, SelectAllIsSound, DeleteIsSound, UndoIsSound, RedoIsSound DEF HistoryStep, History!Next
<1>7. CASE BreakUndo
  <2>1. UNCHANGED <<text, cursor, anchor, undo, redo>>
    BY <1>7 DEF BreakUndo
  <2>2. cut' \in BOOLEAN
    BY <1>7, Zenon DEF BreakUndo
  <2>3. want' \in Int
    BY <1>7 DEF BreakUndo, TextIsSound
  <2> QED
    BY <2>1, <2>2, <2>3, StaysSound
<1>8. CASE UNCHANGED textVars
  <2>1. UNCHANGED <<text, cursor, anchor, undo, redo>>
    BY <1>8 DEF textVars
  <2>2. cut' \in BOOLEAN /\ want' \in Int
    BY <1>8 DEF textVars, TextIsSound
  <2> QED
    BY <2>1, <2>2, StaysSound
<1> QED
  BY <1>2, <1>3, <1>4, <1>5, <1>6, <1>7, <1>8, Zenon DEF TextNext

\* The invariant says what TextStaysWhole says.
LEMMA SoundTextIsWhole ==
  ASSUME TextIsSound
  PROVE  TextStaysWhole
<1>1. PICK e, l : Ordered(Buffer, e, l)
  BY DEF TextIsSound
<1>2. Line(e, undo, text, TRUE) /\ Line(l, redo, text, FALSE)
  BY <1>1, BufferIsThere DEF Ordered, SoundBuffer
<1>3. e = Earlier /\ l = Later
  BY <1>2, LinesAreEarlierAndLater
<1>4. CharactersStayWhole
  BY TextIsWhole, HeldTexts DEF CharactersStayWhole
<1>5. ASSUME NEW step, NEW short, NEW long, step \in WholeSteps, Joint(step.pos, step.text, short, long)
      PROVE  step.pos <= Len(short) /\ Stands(long, step)
  <2>1. step.text \in Words
    BY <1>5 DEF WholeSteps
  <2>2. /\ IsOffset(short, step.pos) /\ IsOffset(long, step.pos + Len(step.text))
        /\ SubSeq(long, step.pos + 1, step.pos + Len(step.text)) = step.text
        /\ short \in Words /\ long \in Words
    BY <1>5, <2>1, JointTexts
  <2> QED
    BY <2>2 DEF Stands, IsOffset, Words
<1>6. ASSUME NEW i \in DOMAIN undo
      PROVE  IF undo[i].insert THEN Stands(Earlier[i + 1], undo[i])
             ELSE undo[i].pos <= Len(Earlier[i + 1])
  <2>1. Linked(undo[i], e[i], e[i + 1])
    BY <1>2 DEF Line, LinkedTo
  <2> QED
    BY <1>3, <1>5, <2>1 DEF Linked
<1>7. ASSUME NEW i \in DOMAIN redo
      PROVE  IF redo[i].insert THEN redo[i].pos <= Len(Later[i + 1])
             ELSE Stands(Later[i + 1], redo[i])
  <2>1. Linked(redo[i], l[i + 1], l[i])
    BY <1>2 DEF Line, LinkedTo
  <2> QED
    BY <1>3, <1>5, <2>1 DEF Linked
<1>8. StepsFit
  BY <1>6, <1>7 DEF StepsFit
<1> QED
  BY <1>4, <1>8 DEF TextStaysWhole

\* Texts of any length, typed and loaded in any order: the caret, the selection
\* and every edit respect whole characters, and every step that can be undone or
\* redone fits the text it will meet (textbuf.c).
THEOREM TextIsKeptWhole == TextSpec => []TextStaysWhole
<1>1. TextInit => TextIsSound
  BY TextBeginsSound
<1>2. TextIsSound /\ [TextNext]_textVars => TextIsSound'
  BY TextStepIsSound
<1>3. TextIsSound => TextStaysWhole
  BY SoundTextIsWhole
<1> QED
  BY <1>1, <1>2, <1>3, PTL DEF TextSpec

\* The stacks of differences implement the line of whole versions of UndoHistory:
\* every step of the text model is a step of the history, or changes nothing
\* there (textbuf_undo, textbuf_redo and every edit).
THEOREM UndoKeepsHistory == TextSpec => KeepsHistory
<1>1. TextInit => TextIsSound /\ History!Init
  BY TextBeginsSound
<1>2. TextIsSound /\ [TextNext]_textVars => TextIsSound' /\ [History!Next]_(History!historyVars)
  <2>1. HistoryStep => [History!Next]_(History!historyVars)
    BY DEF HistoryStep, History!historyVars
  <2> QED
    BY <2>1, TextStepIsSound
<1> QED
  BY <1>1, <1>2, PTL DEF TextSpec, History!Spec, KeepsHistory
================================================================================
