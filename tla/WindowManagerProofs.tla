-------------------------- MODULE WindowManagerProofs --------------------------
(***************************************************************************)
(* What TLAPS proves of WindowManager for every set of windows, every      *)
(* screen and every length of the run: the types, that exactly the         *)
(* frontmost window is active, that a drag has a living window, and that   *)
(* every title bar stays on the screen.                                    *)
(***************************************************************************)
EXTENDS WindowManager, TLAPS, SequenceTheorems

--------------------------------------------------------------------------------
(* The two loops over the z-list.                                          *)

\* The index that index_of finds.
LEMMA IndexOfFinds ==
  ASSUME NEW s \in Seq(Windows), NEW w, Holds(s, w)
  PROVE  IndexOf(s, w) \in 1 .. Len(s) /\ s[IndexOf(s, w)] = w
  BY DEF Holds, IndexOf

\* wm_close's loop leaves the other windows, once each.
LEMMA WithoutRemoves ==
  ASSUME NEW s \in Seq(Windows), NEW w, Holds(s, w), Distinct(s)
  PROVE  /\ Without(s, w) \in Seq(Windows)
         /\ Len(Without(s, w)) = Len(s) - 1
         /\ Distinct(Without(s, w))
         /\ \A v : Holds(Without(s, w), v) <=> Holds(s, v) /\ v # w
  <1> DEFINE k == IndexOf(s, w)
             t == Without(s, w)
  <1>1. k \in 1 .. Len(s) /\ s[k] = w
    BY IndexOfFinds
  <1>2. Len(s) \in Nat /\ s \in [1 .. Len(s) -> Windows]
    BY LenProperties
  <1>3. t = [i \in 1 .. Len(s) - 1 |-> IF i < k THEN s[i] ELSE s[i + 1]]
    BY DEF Without
  <1> HIDE DEF k, t
  <1>4. t \in [1 .. Len(s) - 1 -> Windows]
    BY <1>1, <1>2, <1>3
  <1>5. Len(s) - 1 \in Nat
    BY <1>1, <1>2
  <1>6. t \in Seq(Windows)
    BY <1>4, <1>5, SeqDef
  <1>7. Len(t) = Len(s) - 1
    <2>1. DOMAIN t = 1 .. Len(s) - 1
      BY <1>4
    <2>2. DOMAIN t = 1 .. Len(t) /\ Len(t) \in Nat
      BY <1>6, LenProperties
    <2> QED
      BY <2>1, <2>2, <1>5
  <1>8. Distinct(t)
    BY <1>1, <1>2, <1>3, <1>7, Distinct(s) DEF Distinct
  <1>9. ASSUME NEW v PROVE Holds(t, v) <=> Holds(s, v) /\ v # w
    <2>1. ASSUME NEW i \in 1 .. Len(t), t[i] = v PROVE Holds(s, v) /\ v # w
      <3> DEFINE j == IF i < k THEN i ELSE i + 1
      <3>1. j \in 1 .. Len(s) /\ j # k /\ s[j] = v
        BY <1>1, <1>2, <1>3, <1>7, <2>1
      <3> HIDE DEF j
      <3> QED
        BY <1>1, <3>1, Distinct(s) DEF Distinct, Holds
    <2>2. ASSUME NEW i \in 1 .. Len(s), s[i] = v, v # w PROVE Holds(t, v)
      <3>1. CASE i < k
        <4>1. i \in 1 .. Len(t) /\ t[i] = v
          BY <1>1, <1>2, <1>3, <1>7, <2>2, <3>1
        <4> QED
          BY <4>1 DEF Holds
      <3>2. CASE i > k
        <4>1. i - 1 \in 1 .. Len(t) /\ t[i - 1] = v
          BY <1>1, <1>2, <1>3, <1>7, <2>2, <3>2
        <4> QED
          BY <4>1 DEF Holds
      <3>3. i # k
        BY <1>1, <2>2
      <3> QED
        BY <1>1, <1>2, <3>1, <3>2, <3>3
    <2> QED
      BY <2>1, <2>2 DEF Holds
  <1> QED
    BY <1>6, <1>7, <1>8, <1>9 DEF t

\* wm_activate's loop reorders the same windows and puts one of them last.
LEMMA RaisedReorders ==
  ASSUME NEW s \in Seq(Windows), NEW w, Holds(s, w), Distinct(s)
  PROVE  /\ Raised(s, w) \in Seq(Windows)
         /\ Len(Raised(s, w)) = Len(s)
         /\ Distinct(Raised(s, w))
         /\ Top(Raised(s, w)) = {w}
         /\ \A v : Holds(Raised(s, w), v) <=> Holds(s, v)
  <1> DEFINE k == IndexOf(s, w)
             t == Raised(s, w)
  <1>1. k \in 1 .. Len(s) /\ s[k] = w
    BY IndexOfFinds
  <1>2. Len(s) \in Nat /\ s \in [1 .. Len(s) -> Windows]
    BY LenProperties
  <1>3. t = [i \in 1 .. Len(s) |-> IF i < k THEN s[i]
                                   ELSE IF i < Len(s) THEN s[i + 1] ELSE w]
    BY DEF Raised
  <1> HIDE DEF k, t
  <1>4. t \in [1 .. Len(s) -> Windows]
    BY <1>1, <1>2, <1>3
  <1>5. t \in Seq(Windows)
    BY <1>4, <1>2, SeqDef
  <1>6. Len(t) = Len(s)
    <2>1. DOMAIN t = 1 .. Len(s)
      BY <1>4
    <2>2. DOMAIN t = 1 .. Len(t) /\ Len(t) \in Nat
      BY <1>5, LenProperties
    <2> QED
      BY <2>1, <2>2, <1>2
  <1>7. Distinct(t)
    BY <1>1, <1>2, <1>3, <1>6, Distinct(s) DEF Distinct
  <1>8. Top(t) = {w}
    <2>1. t[Len(t)] = w
      BY <1>1, <1>2, <1>3, <1>6
    <2>2. t # <<>>
      BY <1>1, <1>5, <1>6, EmptySeq
    <2> QED
      BY <2>1, <2>2 DEF Top
  <1>9. ASSUME NEW v PROVE Holds(t, v) <=> Holds(s, v)
    <2>1. ASSUME NEW i \in 1 .. Len(t), t[i] = v PROVE Holds(s, v)
      BY <1>1, <1>2, <1>3, <1>6, <2>1 DEF Holds
    <2>2. ASSUME NEW i \in 1 .. Len(s), s[i] = v PROVE Holds(t, v)
      <3>1. CASE i < k
        BY <1>1, <1>2, <1>3, <1>6, <2>2, <3>1 DEF Holds
      <3>2. CASE i > k
        <4>1. i - 1 \in 1 .. Len(t) /\ t[i - 1] = v
          BY <1>1, <1>2, <1>3, <1>6, <2>2, <3>2
        <4> QED
          BY <4>1 DEF Holds
      <3>3. CASE i = k
        <4>1. Len(t) \in 1 .. Len(t) /\ t[Len(t)] = v
          BY <1>1, <1>2, <1>3, <1>6, <2>2, <3>3
        <4> QED
          BY <4>1 DEF Holds
      <3> QED
        BY <1>1, <1>2, <3>1, <3>2, <3>3
    <2> QED
      BY <2>1, <2>2 DEF Holds
  <1> QED
    BY <1>5, <1>6, <1>7, <1>8, <1>9 DEF t

\* A new window at the front: wm_open appends, then activates.
LEMMA AppendedReorders ==
  ASSUME NEW s \in Seq(Windows), NEW w \in Windows, ~Holds(s, w), Distinct(s)
  PROVE  /\ Append(s, w) \in Seq(Windows)
         /\ Distinct(Append(s, w))
         /\ Holds(Append(s, w), w)
         /\ \A v : Holds(Append(s, w), v) <=> Holds(s, v) \/ v = w
  <1>1. /\ Append(s, w) \in Seq(Windows)
        /\ Len(Append(s, w)) = Len(s) + 1
        /\ \A i \in 1 .. Len(s) : Append(s, w)[i] = s[i]
        /\ Append(s, w)[Len(s) + 1] = w
        /\ Len(s) \in Nat
    OBVIOUS
  <1> QED
    BY <1>1 DEF Distinct, Holds

--------------------------------------------------------------------------------
(* The inductive invariant.                                                *)

\* TitlebarStaysOnScreen needs that the outline of a drag, which becomes a
\* frame at its end, can be grabbed as well.
OutlineGrabbable == drag.kind # "none" => Grabbable(drag.outline)

IInv ==
  /\ TypeOK
  /\ ActiveIsOnTop
  /\ DragHasWindow
  /\ TitlebarStaysOnScreen
  /\ OutlineGrabbable

\* The invariant in a form without indices.
LEMMA OpenFrames ==
  TitlebarStaysOnScreen <=> \A w : Holds(z, w) => Grabbable(frame[w])
  BY DEF TitlebarStaysOnScreen, Holds

LEMMA OpenFramesNext ==
  TitlebarStaysOnScreen' <=> \A w : Holds(z', w) => Grabbable(frame'[w])
  BY DEF TitlebarStaysOnScreen, Holds

\* A moved outline can be grabbed.
LEMMA MovedGrabbable ==
  ASSUME NEW d \in [kind : Kinds, win : Windows \union {NoWindow},
                    anchor : Int \X Int, start : Frames, outline : Frames],
         NEW p \in Points, Grabbable(d.start)
  PROVE  Moved(d, p) \in Frames /\ Grabbable(Moved(d, p))
  <1>1. d.start \in Frames /\ d.anchor[1] \in Int /\ d.anchor[2] \in Int
    OBVIOUS
  <1>2. p[1] \in Int /\ p[2] \in Int
    BY ScreenAssumption DEF Points
  <1>3. /\ Moved(d, p).x = Clamp(d.start.x + p[1] - d.anchor[1], 0, ScreenW - d.start.w)
        /\ Moved(d, p).y = Clamp(d.start.y + p[2] - d.anchor[2], 0, ScreenH - TitlebarH)
        /\ Moved(d, p).w = d.start.w /\ Moved(d, p).h = d.start.h
        /\ Moved(d, p) \in [x : {Moved(d, p).x}, y : {Moved(d, p).y},
                            w : {Moved(d, p).w}, h : {Moved(d, p).h}]
    BY <1>1 DEF Moved, Frames
  <1>4. /\ Moved(d, p).x \in Int /\ 0 <= Moved(d, p).x /\ Moved(d, p).x + MinW <= ScreenW
        /\ Moved(d, p).y \in Int /\ 0 <= Moved(d, p).y /\ Moved(d, p).y + TitlebarH <= ScreenH
    BY <1>1, <1>2, <1>3, ScreenAssumption DEF Clamp, Grabbable, Frames
  <1> QED
    BY <1>1, <1>3, <1>4 DEF Frames, Grabbable

\* A resized outline can be grabbed.
LEMMA ResizedGrabbable ==
  ASSUME NEW d \in [kind : Kinds, win : Windows \union {NoWindow},
                    anchor : Int \X Int, start : Frames, outline : Frames],
         NEW p \in Points, Grabbable(d.start)
  PROVE  Resized(d, p) \in Frames /\ Grabbable(Resized(d, p))
  <1>1. d.start \in Frames /\ d.anchor[1] \in Int /\ d.anchor[2] \in Int
    OBVIOUS
  <1>2. p[1] \in Int /\ p[2] \in Int
    BY ScreenAssumption DEF Points
  <1>3. /\ Resized(d, p).w = AtLeast(d.start.w + p[1] - d.anchor[1], MinW)
        /\ Resized(d, p).h = AtLeast(d.start.h + p[2] - d.anchor[2], MinH)
        /\ Resized(d, p).x = d.start.x /\ Resized(d, p).y = d.start.y
        /\ Resized(d, p) \in [x : {Resized(d, p).x}, y : {Resized(d, p).y},
                              w : {Resized(d, p).w}, h : {Resized(d, p).h}]
    BY <1>1 DEF Resized, Frames
  <1>4. /\ Resized(d, p).w \in Int /\ Resized(d, p).w >= MinW
        /\ Resized(d, p).h \in Int /\ Resized(d, p).h >= MinH
    BY <1>1, <1>2, <1>3, ScreenAssumption DEF AtLeast, Frames
  <1> QED
    BY <1>1, <1>3, <1>4 DEF Frames, Grabbable

\* Bringing a window to the front keeps the invariant, drag aside.
LEMMA ActivatedKeeps ==
  ASSUME NEW s \in Seq(Windows), NEW w \in Windows, Holds(s, w), Distinct(s),
         Activated(s, w)
  PROVE  /\ z' \in Seq(Windows) /\ active' \subseteq Windows
         /\ ActiveIsOnTop'
         /\ \A v : Holds(z', v) <=> Holds(s, v)
  BY RaisedReorders DEF Activated, ActiveIsOnTop

\* Closing a window keeps the invariant.
LEMMA CloseKeeps ==
  ASSUME IInv, NEW w \in Windows, NEW s \in Seq(Windows), NEW a,
         Holds(s, w), Distinct(s), a = Top(s), CloseIn(s, a, w),
         \A v : Holds(s, v) <=> Holds(z, v), by' \in {"app", "mouse"}
  PROVE  IInv'
  <1>1. /\ z' \in Seq(Windows) /\ Len(z') = Len(s) - 1 /\ Distinct(z')
        /\ \A v : Holds(z', v) <=> Holds(s, v) /\ v # w
    BY WithoutRemoves DEF CloseIn
  <1>2. active' = Top(z')
    <2>1. CASE w \in a
      BY <2>1 DEF CloseIn
    <2>2. CASE w \notin a
      <3> DEFINE k == IndexOf(s, w)
      <3>1. k \in 1 .. Len(s) /\ s[k] = w
        BY IndexOfFinds
      <3>2. s # <<>> /\ Len(s) \in Nat
        BY <3>1, EmptySeq, LenProperties
      <3>3. a = {s[Len(s)]} /\ k # Len(s)
        BY <2>2, <3>1, <3>2 DEF Top
      <3>4. Len(s) - 1 \in 1 .. Len(s) - 1 /\ ~(Len(s) - 1 < k)
        BY <3>1, <3>2, <3>3
      <3>5. z'[Len(s) - 1] = s[Len(s)]
        BY <3>2, <3>4 DEF CloseIn, Without
      <3>6. z' # <<>>
        BY <1>1, <3>4, EmptySeq
      <3>7. Top(z') = {s[Len(s)]}
        BY <1>1, <3>5, <3>6 DEF Top
      <3> QED
        BY <2>2, <3>3, <3>7 DEF CloseIn
    <2> QED
      BY <2>1, <2>2
  <1>3. active' \subseteq Windows
    BY <1>1, <1>2, EmptySeq, ElementOfSeq, LenProperties DEF Top
  <1>4. frame' \in [Windows -> Frames] /\ \A v : v # w => frame'[v] = frame[v]
    BY DEF CloseIn, IInv, TypeOK, NoFrame, Frames
  <1>5. drag' \in [kind : Kinds, win : Windows \union {NoWindow}, anchor : Int \X Int,
                   start : Frames, outline : Frames]
    BY DEF CloseIn, IInv, TypeOK, NoDrag, NoFrame, Frames, Kinds
  <1>6. DragHasWindow' /\ OutlineGrabbable'
    <2>1. CASE drag.win = w
      BY <2>1 DEF CloseIn, DragHasWindow, OutlineGrabbable, NoDrag
    <2>2. CASE drag.win # w
      BY <2>2, <1>1, <1>4 DEF CloseIn, IInv, DragHasWindow, OutlineGrabbable, IsOpen
    <2> QED
      BY <2>1, <2>2
  <1>7. TitlebarStaysOnScreen'
    <2>1. \A v : Holds(z', v) => Grabbable(frame'[v])
      BY <1>1, <1>4, OpenFrames DEF IInv
    <2> QED
      BY <2>1, OpenFramesNext
  <1> QED
    BY <1>1, <1>2, <1>3, <1>4, <1>5, <1>6, <1>7 DEF IInv, TypeOK, ActiveIsOnTop

\* Every step of an application or of the mouse keeps the invariant.
LEMMA Step == IInv /\ [Next]_vars => IInv'
  <1> SUFFICES ASSUME IInv, [Next]_vars PROVE IInv'
    OBVIOUS
  <1>a. /\ z \in Seq(Windows) /\ Distinct(z) /\ active = Top(z) /\ active \subseteq Windows
        /\ frame \in [Windows -> Frames]
        /\ drag \in [kind : Kinds, win : Windows \union {NoWindow}, anchor : Int \X Int,
                     start : Frames, outline : Frames]
    BY DEF IInv, TypeOK, ActiveIsOnTop
  <1>b. \A w : Holds(z, w) => w \in Windows /\ Grabbable(frame[w])
    BY <1>a, OpenFrames, ElementOfSeq DEF IInv, Holds
  <1>1. ASSUME NEW w \in Windows, NEW f \in FirstFrames, Open(w, f)
        PROVE  IInv'
    <2>1. f \in Frames /\ Grabbable(f)
      BY FirstFramesAssumption, ScreenAssumption DEF Grabbable, Frames
    <2>2. /\ Append(z, w) \in Seq(Windows) /\ Distinct(Append(z, w))
          /\ Holds(Append(z, w), w)
          /\ \A v : Holds(Append(z, w), v) <=> Holds(z, v) \/ v = w
      BY <1>1, <1>a, AppendedReorders DEF Open, IsOpen
    <2>3. /\ z' \in Seq(Windows) /\ active' \subseteq Windows /\ ActiveIsOnTop'
          /\ \A v : Holds(z', v) <=> Holds(z, v) \/ v = w
      BY <1>1, <2>2, ActivatedKeeps DEF Open
    <2>4. frame' \in [Windows -> Frames] /\ frame'[w] = f
          /\ \A v : v # w => frame'[v] = frame[v]
      BY <1>1, <1>a, <2>1 DEF Open
    <2>5. TitlebarStaysOnScreen'
      <3>1. \A v : Holds(z', v) => Grabbable(frame'[v])
        BY <1>b, <2>1, <2>3, <2>4
      <3> QED
        BY <3>1, OpenFramesNext
    <2>6. DragHasWindow' /\ OutlineGrabbable'
      BY <1>1, <2>3, <2>4 DEF Open, IInv, DragHasWindow, OutlineGrabbable, IsOpen
    <2> QED
      BY <1>1, <1>a, <2>3, <2>4, <2>5, <2>6 DEF Open, IInv, TypeOK
  <1>2. ASSUME NEW w \in Windows, Activate(w)
        PROVE  IInv'
    <2>1. /\ z' \in Seq(Windows) /\ active' \subseteq Windows /\ ActiveIsOnTop'
          /\ \A v : Holds(z', v) <=> Holds(z, v)
      BY <1>2, <1>a, ActivatedKeeps DEF Activate, IsOpen
    <2>2. TitlebarStaysOnScreen'
      <3>1. \A v : Holds(z', v) => Grabbable(frame'[v])
        BY <1>2, <1>b, <2>1 DEF Activate
      <3> QED
        BY <3>1, OpenFramesNext
    <2>3. DragHasWindow' /\ OutlineGrabbable'
      BY <1>2, <2>1 DEF Activate, IInv, DragHasWindow, OutlineGrabbable, IsOpen
    <2> QED
      BY <1>2, <1>a, <2>1, <2>2, <2>3 DEF Activate, IInv, TypeOK
  <1>3. ASSUME NEW w \in Windows, Close(w)
        PROVE  IInv'
    BY <1>3, <1>a, CloseKeeps DEF Close, IsOpen
  <1>4. ASSUME NEW w \in Windows, NEW p \in Points, Down(w, p)
        PROVE  IInv'
    <2>1. Holds(z, w)
      BY <1>4 DEF Down, Hits, Holds
    <2>2. /\ Raised(z, w) \in Seq(Windows) /\ Distinct(Raised(z, w))
          /\ Top(Raised(z, w)) = {w}
          /\ \A v : Holds(Raised(z, w), v) <=> Holds(z, v)
      BY <1>a, <2>1, RaisedReorders
    <2>3. CASE OnCloseBox(w, p)
      BY <1>4, <2>1, <2>2, <2>3, CloseKeeps DEF Down
    <2>4. CASE ~OnCloseBox(w, p)
      <3>1. Activated(z, w) /\ frame' = frame /\ by' = "mouse"
        BY <1>4, <2>4 DEF Down
      <3>2. /\ z' \in Seq(Windows) /\ active' \subseteq Windows /\ ActiveIsOnTop'
            /\ \A v : Holds(z', v) <=> Holds(z, v)
        BY <1>a, <2>1, <3>1, ActivatedKeeps
      <3>3. TitlebarStaysOnScreen'
        <4>1. \A v : Holds(z', v) => Grabbable(frame'[v])
          BY <1>b, <3>1, <3>2
        <4> QED
          BY <4>1, OpenFramesNext
      <3>4. p \in Int \X Int
        BY ScreenAssumption DEF Points
      <3>5. ASSUME NEW kind \in {"move", "resize"}, BeginDrag(kind, w, p),
                   (IF kind = "move" THEN "movable" ELSE "resizable") \in Flags[w]
            PROVE  /\ drag' \in [kind : Kinds, win : Windows \union {NoWindow},
                                 anchor : Int \X Int, start : Frames, outline : Frames]
                   /\ DragHasWindow' /\ OutlineGrabbable'
        <4>1. drag' = [kind |-> kind, win |-> w, anchor |-> p,
                       start |-> frame[w], outline |-> frame[w]]
          BY <3>5 DEF BeginDrag
        <4>2. frame[w] \in Frames /\ Grabbable(frame[w]) /\ Holds(z', w)
          BY <1>a, <1>b, <2>1, <3>2
        <4>3. drag' \in [kind : Kinds, win : Windows \union {NoWindow},
                         anchor : Int \X Int, start : Frames, outline : Frames]
          BY <3>4, <4>1, <4>2 DEF Kinds
        <4>4. /\ drag'.kind = kind /\ drag'.win = w
              /\ drag'.start = frame[w] /\ drag'.outline = frame[w]
          BY <4>1
        <4>5. DragHasWindow'
          <5>1. (IF drag'.kind = "move" THEN "movable" ELSE "resizable") \in Flags[w]
            BY <3>5, <4>4
          <5>2. drag'.start = frame'[w] /\ Holds(z', w)
            BY <3>1, <4>2, <4>4
          <5> QED
            BY <4>4, <5>1, <5>2 DEF DragHasWindow, IsOpen
        <4>6. OutlineGrabbable'
          BY <4>2, <4>4 DEF OutlineGrabbable
        <4> QED
          BY <4>3, <4>5, <4>6
      <3>6. \/ BeginDrag("move", w, p) /\ "movable" \in Flags[w]
            \/ BeginDrag("resize", w, p) /\ "resizable" \in Flags[w]
            \/ UNCHANGED drag
        BY <1>4, <2>4 DEF Down, OnGrowBox
      <3>7. /\ drag' \in [kind : Kinds, win : Windows \union {NoWindow},
                          anchor : Int \X Int, start : Frames, outline : Frames]
            /\ DragHasWindow' /\ OutlineGrabbable'
        <4>1. CASE BeginDrag("move", w, p) /\ "movable" \in Flags[w]
          BY <3>5, <4>1
        <4>2. CASE BeginDrag("resize", w, p) /\ "resizable" \in Flags[w]
          BY <3>5, <4>2
        <4>3. CASE UNCHANGED drag
          BY <1>a, <3>1, <3>2, <4>3 DEF IInv, DragHasWindow, OutlineGrabbable, IsOpen
        <4> QED
          BY <3>6, <4>1, <4>2, <4>3
      <3> QED
        BY <1>a, <3>1, <3>2, <3>3, <3>7 DEF IInv, TypeOK
    <2> QED
      BY <2>3, <2>4
  <1>5. ASSUME NEW p \in Points, Move(p)
        PROVE  IInv'
    <2> DEFINE o == IF drag.kind = "move" THEN Moved(drag, p) ELSE Resized(drag, p)
    <2>1. drag' = [drag EXCEPT !.outline = o]
      BY <1>5 DEF Move
    <2>2. Grabbable(drag.start)
      BY <1>5, <1>b DEF Move, IInv, DragHasWindow, IsOpen
    <2>3. o \in Frames /\ Grabbable(o)
      BY <1>a, <2>2, MovedGrabbable, ResizedGrabbable
    <2> HIDE DEF o
    <2>4. /\ drag' \in [kind : Kinds, win : Windows \union {NoWindow},
                        anchor : Int \X Int, start : Frames, outline : Frames]
          /\ drag'.kind = drag.kind /\ drag'.win = drag.win /\ drag'.start = drag.start
          /\ drag'.outline = o
      BY <1>a, <2>1, <2>3
    <2>5. DragHasWindow' /\ OutlineGrabbable'
      BY <1>5, <2>3, <2>4 DEF Move, IInv, DragHasWindow, OutlineGrabbable, IsOpen
    <2> QED
      BY <1>5, <2>4, <2>5 DEF Move, IInv, TypeOK, ActiveIsOnTop, TitlebarStaysOnScreen
  <1>6. CASE Up
    <2>1. /\ drag.win \in Windows /\ Grabbable(drag.outline) /\ drag.outline \in Frames
      BY <1>6, <1>a, <1>b DEF Up, IInv, DragHasWindow, OutlineGrabbable, IsOpen
    <2>2. /\ frame' \in [Windows -> Frames]
          /\ \A v \in Windows : frame'[v] = frame[v] \/ Grabbable(frame'[v])
      BY <1>6, <1>a, <2>1 DEF Up
    <2>3. TitlebarStaysOnScreen'
      <3>1. \A v : Holds(z', v) => Grabbable(frame'[v])
        BY <1>6, <1>b, <2>2 DEF Up
      <3> QED
        BY <3>1, OpenFramesNext
    <2>4. /\ drag' \in [kind : Kinds, win : Windows \union {NoWindow},
                        anchor : Int \X Int, start : Frames, outline : Frames]
          /\ drag'.kind = "none"
      BY <1>6 DEF Up, NoDrag, NoFrame, Frames, Kinds
    <2> QED
      BY <1>6, <2>2, <2>3, <2>4
      DEF Up, IInv, TypeOK, ActiveIsOnTop, DragHasWindow, OutlineGrabbable
  <1>7. CASE UNCHANGED vars
    BY <1>7 DEF vars, IInv, TypeOK, ActiveIsOnTop, DragHasWindow, TitlebarStaysOnScreen,
                OutlineGrabbable, IsOpen
  <1> QED
    BY <1>1, <1>2, <1>3, <1>4, <1>5, <1>6, <1>7 DEF Next

LEMMA Start == Init => IInv
  <1> SUFFICES ASSUME Init PROVE IInv
    OBVIOUS
  <1>1. z \in Seq(Windows) /\ Len(z) = 0
    BY EmptySeq DEF Init
  <1> QED
    BY <1>1 DEF Init, IInv, TypeOK, ActiveIsOnTop, Distinct, Top, DragHasWindow,
                TitlebarStaysOnScreen, OutlineGrabbable, NoDrag, NoFrame, Frames, Kinds

LEMMA Always == Spec => []IInv
  BY Start, Step, PTL DEF Spec

--------------------------------------------------------------------------------
(* The theorems.                                                           *)

\* The variables keep their types.
THEOREM TypeCorrect == Spec => []TypeOK
  BY Always, PTL DEF IInv

\* Exactly the frontmost window is active, always (wm_open, wm_close,
\* wm_activate, wm_event in any order).
THEOREM FrontmostIsActive == Spec => []ActiveIsOnTop
  BY Always, PTL DEF IInv

\* The release of the button never writes into a closed window, and the frame
\* a drag started from is still the window's.
THEOREM DragIsSafe == Spec => []DragHasWindow
  BY Always, PTL DEF IInv

\* No sequence of moves and resizes takes a title bar out of reach.
THEOREM TitlebarsReachable == Spec => []TitlebarStaysOnScreen
  BY Always, PTL DEF IInv

\* Beside a modal window the mouse can only hit this one: it is raised, closed
\* or dragged, and the others stay as they are (find_modal in wm_hit).
THEOREM ModalsShield == Spec => ModalShieldsOthers
  <1> DEFINE Shielded ==
        /\ \A i \in 1 .. Len(z) : z[i] # Modal => Holds(z', z[i])
        /\ Holds(z', Modal) => Top(z') \subseteq Top(z) \union {Modal}
        /\ drag'.win \in {drag.win, Modal, NoWindow}
  <1>1. ASSUME IInv, Next, by' = "mouse", ModalOpen PROVE Shielded
    <2>0. z \in Seq(Windows) /\ Distinct(z)
      BY <1>1 DEF IInv, TypeOK, ActiveIsOnTop
    <2>1. CASE UNCHANGED z /\ drag'.win \in {drag.win, NoWindow}
      BY <2>1 DEF Holds
    <2>2. ASSUME NEW w \in Windows, NEW p \in Points, Down(w, p) PROVE Shielded
      <3>1. w = Modal /\ Holds(z, w)
        BY <1>1, <2>2 DEF Down, Hits, Reachable, Holds
      <3>2. /\ Raised(z, w) \in Seq(Windows) /\ Distinct(Raised(z, w))
            /\ Top(Raised(z, w)) = {w}
            /\ \A v : Holds(Raised(z, w), v) <=> Holds(z, v)
        BY <2>0, <3>1, RaisedReorders
      <3>3. \A i \in 1 .. Len(z) : Holds(z, z[i])
        BY DEF Holds
      <3>4. CASE OnCloseBox(w, p)
        <4>1. \A v : Holds(z', v) <=> Holds(Raised(z, w), v) /\ v # w
          BY <2>2, <3>1, <3>2, <3>4, WithoutRemoves DEF Down, CloseIn
        <4>2. drag'.win \in {drag.win, NoWindow}
          BY <2>2, <3>4 DEF Down, CloseIn, NoDrag
        <4> QED
          BY <3>1, <3>2, <3>3, <4>1, <4>2
      <3>5. CASE ~OnCloseBox(w, p)
        <4>1. z' = Raised(z, w) /\ drag'.win \in {drag.win, w}
          BY <2>2, <3>5 DEF Down, Activated, BeginDrag
        <4> QED
          BY <3>1, <3>2, <3>3, <4>1
      <3> QED
        BY <3>4, <3>5
    <2>3. ASSUME NEW p \in Points, Move(p) PROVE UNCHANGED z /\ drag'.win = drag.win
      BY <1>1, <2>3 DEF Move, IInv, TypeOK
    <2>4. CASE Up
      BY <2>1, <2>4 DEF Up, NoDrag
    <2> QED
      BY <2>4, <1>1, <2>1, <2>2, <2>3 DEF Next, Open, Activate, Close
  <1>2. IInv /\ [Next]_vars => [by' = "mouse" /\ ModalOpen => Shielded]_vars
    BY <1>1
  <1> QED
    BY <1>2, Always, PTL DEF Spec, ModalShieldsOthers

\* What FramesFollowDrags needs besides: an outline has the size of the frame
\* it started from while it is moved, and its place while it is resized.
OutlineFits ==
  /\ drag.kind = "move" => SameSize(drag.outline, drag.start)
  /\ drag.kind = "resize" => /\ drag.outline.x = drag.start.x
                             /\ drag.outline.y = drag.start.y

LEMMA OutlineFitsStep == IInv /\ OutlineFits /\ [Next]_vars => OutlineFits'
  <1> SUFFICES ASSUME IInv, OutlineFits, [Next]_vars PROVE OutlineFits'
    OBVIOUS
  <1>1. ASSUME UNCHANGED drag \/ drag' = NoDrag PROVE OutlineFits'
    BY <1>1 DEF OutlineFits, NoDrag
  <1>2. ASSUME NEW w \in Windows, NEW p \in Points, Down(w, p) PROVE OutlineFits'
    <2>1. ASSUME NEW kind \in {"move", "resize"}, BeginDrag(kind, w, p) PROVE OutlineFits'
      BY <2>1 DEF BeginDrag, OutlineFits, SameSize
    <2> QED
      BY <1>1, <1>2, <2>1 DEF Down, CloseIn
  <1>3. ASSUME NEW p \in Points, Move(p) PROVE OutlineFits'
    <2>1. /\ drag \in [kind : Kinds, win : Windows \union {NoWindow},
                       anchor : Int \X Int, start : Frames, outline : Frames]
          /\ drag' = [drag EXCEPT !.outline = IF drag.kind = "move" THEN Moved(drag, p)
                                              ELSE Resized(drag, p)]
      BY <1>3 DEF IInv, TypeOK, Move
    <2>2. SameSize(Moved(drag, p), drag.start)
      BY <2>1 DEF Moved, SameSize, Frames
    <2>3. Resized(drag, p).x = drag.start.x /\ Resized(drag, p).y = drag.start.y
      BY <2>1 DEF Resized, Frames
    <2> QED
      BY <2>1, <2>2, <2>3 DEF OutlineFits
  <1> QED
    BY <1>1, <1>2, <1>3 DEF Next, Open, Activate, Close, CloseIn, Up, vars

\* Only the end of a drag changes the frame of an open window, and a drag that
\* moves does not resize (window_set_frame is called from nowhere else).
THEOREM FramesFollow == Spec => FramesFollowDrags
  <1> DEFINE Follows ==
        \A w \in Windows : IsOpen(w) /\ Holds(z', w) /\ frame'[w] # frame[w] =>
          /\ drag.kind # "none" /\ drag.win = w /\ drag'.kind = "none"
          /\ IF drag.kind = "move" THEN SameSize(frame'[w], frame[w])
             ELSE frame'[w].x = frame[w].x /\ frame'[w].y = frame[w].y
  <1>1. ASSUME IInv, OutlineFits, Next PROVE Follows
    <2>0. /\ z \in Seq(Windows) /\ Distinct(z) /\ frame \in [Windows -> Frames]
          /\ drag.kind \in Kinds
      BY <1>1 DEF IInv, TypeOK, ActiveIsOnTop
    <2>1. CASE UNCHANGED frame
      BY <2>1
    <2>2. ASSUME NEW w \in Windows, NEW f, Open(w, f) PROVE Follows
      BY <2>0, <2>2 DEF Open, IsOpen
    <2>3. ASSUME NEW w \in Windows, NEW s \in Seq(Windows), NEW a, Distinct(s),
                 Holds(s, w), CloseIn(s, a, w)
          PROVE  Follows
      BY <2>0, <2>3, WithoutRemoves DEF CloseIn
    <2>4. ASSUME NEW w \in Windows, Close(w) PROVE Follows
      BY <2>0, <2>3, <2>4 DEF Close, IsOpen
    <2>5. ASSUME NEW w \in Windows, NEW p \in Points, Down(w, p) PROVE Follows
      <3>1. Holds(z, w)
        BY <2>5 DEF Down, Hits, Holds
      <3>2. /\ Raised(z, w) \in Seq(Windows) /\ Distinct(Raised(z, w))
            /\ Holds(Raised(z, w), w)
        BY <2>0, <3>1, RaisedReorders
      <3> QED
        BY <2>1, <2>3, <2>5, <3>2 DEF Down
    <2>6. CASE Up
      <3>1. drag.kind # "none" /\ drag'.kind = "none" /\ drag.start = frame[drag.win]
        BY <1>1, <2>6 DEF Up, NoDrag, IInv, DragHasWindow
      <3>2. \/ UNCHANGED frame
            \/ frame' = [frame EXCEPT ![drag.win] = drag.outline]
        BY <2>6 DEF Up
      <3>3. IF drag.kind = "move" THEN SameSize(drag.outline, frame[drag.win])
            ELSE /\ drag.outline.x = frame[drag.win].x
                 /\ drag.outline.y = frame[drag.win].y
        BY <1>1, <2>0, <3>1 DEF OutlineFits, Kinds
      <3> QED
        BY <2>0, <3>1, <3>2, <3>3
    <2> QED
      BY <1>1, <2>1, <2>2, <2>4, <2>5, <2>6 DEF Next, Activate, Move
  <1>2. IInv /\ OutlineFits /\ [Next]_vars => [Follows]_vars
    BY <1>1
  <1>3. Init => OutlineFits
    BY DEF Init, NoDrag, OutlineFits
  <1> QED
    BY <1>2, <1>3, OutlineFitsStep, Always, PTL DEF Spec, FramesFollowDrags
================================================================================
