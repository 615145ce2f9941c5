----------------------------- MODULE WindowManager -----------------------------
(***************************************************************************)
(* The window manager of ui/wm.c with the geometry of ui/window.c: the     *)
(* z-list from the backmost to the frontmost window, the active flags, the *)
(* frames, and the drag of an outline that becomes the window's frame when *)
(* the button is released.                                                 *)
(*                                                                         *)
(* The applications call wm_open, wm_close and wm_activate; the mouse      *)
(* comes through wm_event.  Lengths are small numbers in place of pixels,  *)
(* the frame's border has no width, the close box is the first cell of the *)
(* title bar and the grow box the last cell of the content.                *)
(***************************************************************************)
EXTENDS Integers, Sequences, FiniteSets

CONSTANTS
  Windows,     \* the windows there can be; a closed one may open again
  Flags,       \* window -> subset of {"closable", "movable", "resizable", "modal"}
  NoWindow,    \* the null pointer
  ScreenW, ScreenH, TitlebarH, MinW, MinH,
  FirstFrames  \* the frames windows are opened with

Frames == [x : Int, y : Int, w : Int, h : Int]

ASSUME ScreenAssumption ==
  /\ ScreenW \in Nat /\ ScreenH \in Nat
  /\ MinW \in Nat \ {0} /\ TitlebarH \in Nat \ {0} /\ MinH \in Nat
  /\ MinW <= ScreenW /\ TitlebarH <= ScreenH

ASSUME WindowAssumption ==
  /\ NoWindow \notin Windows
  /\ Flags \in [Windows -> SUBSET {"closable", "movable", "resizable", "modal"}]

\* Applications and dialogs open their windows on the screen, and no smaller
\* than the user could make them.
ASSUME FirstFramesAssumption ==
  \A f \in FirstFrames :
    /\ f \in Frames
    /\ f.w >= MinW /\ f.h >= MinH
    /\ 0 <= f.x /\ f.x + f.w <= ScreenW
    /\ 0 <= f.y /\ f.y + TitlebarH <= ScreenH

VARIABLES
  z,       \* the open windows, the frontmost last
  active,  \* the windows whose active flag is set
  frame,   \* window -> frame
  drag,    \* kind, window, anchor, start frame and outline of a drag
  by       \* history: who caused the last step, "app" or "mouse"

vars == <<z, active, frame, drag, by>>

Points == (0 .. ScreenW - 1) \X (0 .. ScreenH - 1)
Kinds == {"none", "move", "resize"}
NoFrame == [x |-> 0, y |-> 0, w |-> 0, h |-> 0]
NoDrag == [kind |-> "none", win |-> NoWindow, anchor |-> <<0, 0>>,
           start |-> NoFrame, outline |-> NoFrame]

TypeOK ==
  /\ z \in Seq(Windows)
  /\ active \subseteq Windows
  /\ frame \in [Windows -> Frames]
  /\ drag \in [kind : Kinds, win : Windows \union {NoWindow}, anchor : Int \X Int,
               start : Frames, outline : Frames]
  /\ by \in {"app", "mouse"}

Init ==
  /\ z = <<>>
  /\ active = {}
  /\ frame = [w \in Windows |-> NoFrame]
  /\ drag = NoDrag
  /\ by = "app"

--------------------------------------------------------------------------------
(* The z-list.                                                             *)

Holds(s, w) == \E i \in 1 .. Len(s) : s[i] = w
IsOpen(w) == Holds(z, w)
IndexOf(s, w) == CHOOSE i \in 1 .. Len(s) : s[i] = w
Top(s) == IF s = <<>> THEN {} ELSE {s[Len(s)]}

\* The loop of wm_close.
Without(s, w) ==
  [i \in 1 .. Len(s) - 1 |-> IF i < IndexOf(s, w) THEN s[i] ELSE s[i + 1]]

\* The loop of wm_activate.
Raised(s, w) ==
  [i \in 1 .. Len(s) |-> IF i < IndexOf(s, w) THEN s[i]
                         ELSE IF i < Len(s) THEN s[i + 1] ELSE w]

\* find_modal.
IsModal(w) == "modal" \in Flags[w]
ModalOpen == \E i \in 1 .. Len(z) : IsModal(z[i])
Modal ==
  LET frontmost == CHOOSE i \in 1 .. Len(z) :
                     /\ IsModal(z[i])
                     /\ \A j \in i + 1 .. Len(z) : ~IsModal(z[j])
  IN  IF ModalOpen THEN z[frontmost] ELSE NoWindow

--------------------------------------------------------------------------------
(* What applications call.                                                 *)

Activated(s, w) == z' = Raised(s, w) /\ active' = {w}

\* wm_open; without memory nothing happens.
Open(w, f) ==
  /\ ~IsOpen(w)
  /\ Activated(Append(z, w), w)
  /\ frame' = [frame EXCEPT ![w] = f]
  /\ by' = "app"
  /\ UNCHANGED drag

Activate(w) ==
  /\ IsOpen(w)
  /\ Activated(z, w)
  /\ by' = "app"
  /\ UNCHANGED <<frame, drag>>

\* wm_close on a z-list s with the active flags a.  A drag of this window ends,
\* and the window is freed.
CloseIn(s, a, w) ==
  /\ z' = Without(s, w)
  /\ active' = IF w \in a THEN Top(Without(s, w)) ELSE a
  /\ drag' = IF drag.win = w THEN NoDrag ELSE drag
  /\ frame' = [frame EXCEPT ![w] = NoFrame]

Close(w) ==
  /\ IsOpen(w)
  /\ CloseIn(z, active, w)
  /\ by' = "app"

--------------------------------------------------------------------------------
(* The mouse.                                                              *)

Inside(p, f) ==
  /\ f.x <= p[1] /\ p[1] < f.x + f.w
  /\ f.y <= p[2] /\ p[2] < f.y + f.h

\* Mutant: the modal window shields nothing.
ReachableAlways(w) == TRUE

\* wm_hit: the frontmost window under the pointer; beside a modal window
\* nothing can be hit.
Reachable(w) == ModalOpen => w = Modal
Hits(w, p) ==
  \E i \in 1 .. Len(z) :
    /\ z[i] = w
    /\ Reachable(w) /\ Inside(p, frame[w])
    /\ \A j \in i + 1 .. Len(z) : ~(Reachable(z[j]) /\ Inside(p, frame[z[j]]))

OnCloseBox(w, p) ==
  /\ w \in active /\ "closable" \in Flags[w]
  /\ p = <<frame[w].x, frame[w].y>>

OnGrowBox(w, p) ==
  /\ ~OnCloseBox(w, p)
  /\ w \in active /\ "resizable" \in Flags[w]
  /\ p = <<frame[w].x + frame[w].w - 1, frame[w].y + frame[w].h - 1>>

OnTitlebar(w, p) ==
  /\ ~OnCloseBox(w, p) /\ ~OnGrowBox(w, p)
  /\ p[2] < frame[w].y + TitlebarH

\* Mutant: the start frame is still the one of the last drag.
BeginDragStale(kind, w, p) ==
  drag' = [kind |-> kind, win |-> w, anchor |-> p,
           start |-> drag.start, outline |-> frame[w]]

\* begin_drag.
BeginDrag(kind, w, p) ==
  drag' = [kind |-> kind, win |-> w, anchor |-> p,
           start |-> frame[w], outline |-> frame[w]]

\* EV_MOUSE_DOWN on a window.  The part was found before the window is raised:
\* the boxes of an inactive window do not count.
Down(w, p) ==
  /\ Hits(w, p)
  /\ by' = "mouse"
  /\ IF OnCloseBox(w, p)
     THEN CloseIn(Raised(z, w), {w}, w)
     ELSE /\ Activated(z, w)
          /\ IF OnTitlebar(w, p) /\ "movable" \in Flags[w] THEN BeginDrag("move", w, p)
             ELSE IF OnGrowBox(w, p) THEN BeginDrag("resize", w, p)
             ELSE UNCHANGED drag
          /\ UNCHANGED frame

\* clampi: the lower bound wins.
Clamp(v, lo, hi) == IF hi < lo \/ v < lo THEN lo ELSE IF v > hi THEN hi ELSE v
AtLeast(v, lo) == IF v < lo THEN lo ELSE v

\* Mutant: the whole title bar may leave the screen at the bottom.
MovedTooLow(d, p) ==
  [d.start EXCEPT !.x = Clamp(d.start.x + p[1] - d.anchor[1], 0, ScreenW - d.start.w),
                  !.y = Clamp(d.start.y + p[2] - d.anchor[2], 0, ScreenH)]

\* The outline for a pointer at p, from the frame at the start of the drag.
Moved(d, p) ==
  [d.start EXCEPT !.x = Clamp(d.start.x + p[1] - d.anchor[1], 0, ScreenW - d.start.w),
                  !.y = Clamp(d.start.y + p[2] - d.anchor[2], 0, ScreenH - TitlebarH)]
Resized(d, p) ==
  [d.start EXCEPT !.w = AtLeast(d.start.w + p[1] - d.anchor[1], MinW),
                  !.h = AtLeast(d.start.h + p[2] - d.anchor[2], MinH)]

Move(p) ==
  /\ drag.kind # "none"
  /\ drag' = [drag EXCEPT !.outline = IF drag.kind = "move" THEN Moved(drag, p)
                                      ELSE Resized(drag, p)]
  /\ by' = "mouse"
  /\ UNCHANGED <<z, active, frame>>

\* EV_MOUSE_UP.  window_set_frame keeps the old frame if a content of the new
\* size finds no memory.
SameSize(f, g) == f.w = g.w /\ f.h = g.h
Up ==
  /\ drag.kind # "none"
  /\ \/ frame' = [frame EXCEPT ![drag.win] = drag.outline]
     \/ ~SameSize(frame[drag.win], drag.outline) /\ UNCHANGED frame
  /\ drag' = NoDrag
  /\ by' = "mouse"
  /\ UNCHANGED <<z, active>>

Next ==
  \/ \E w \in Windows, f \in FirstFrames : Open(w, f)
  \/ \E w \in Windows : Activate(w) \/ Close(w)
  \/ \E w \in Windows, p \in Points : Down(w, p)
  \/ \E p \in Points : Move(p)
  \/ Up

Spec == Init /\ [][Next]_vars

--------------------------------------------------------------------------------
(* Properties.                                                             *)

\* No window is in the z-list twice.
Distinct(s) == \A i, j \in 1 .. Len(s) : s[i] = s[j] => i = j

\* Exactly the frontmost window is active, after every sequence of opening,
\* closing and clicking: keys go where the striped title bar is.
ActiveIsOnTop == Distinct(z) /\ active = Top(z)

\* A drag always has a living window that may be dragged that way, and that
\* window still has the frame the drag started from: the release writes into
\* no freed window (wm_close, "bricht sauber ab").
DragHasWindow ==
  drag.kind # "none" =>
    /\ IsOpen(drag.win)
    /\ drag.start = frame[drag.win]
    /\ (IF drag.kind = "move" THEN "movable" ELSE "resizable") \in Flags[drag.win]

\* A frame whose title bar can be reached with the mouse: its left end and
\* its whole height are on the screen, and it is no smaller than allowed.
Grabbable(f) ==
  /\ 0 <= f.x /\ f.x + MinW <= ScreenW
  /\ 0 <= f.y /\ f.y + TitlebarH <= ScreenH
  /\ f.w >= MinW /\ f.h >= MinH

\* However windows were moved and resized, one after the other and in any
\* order, the title bar of each stays where the mouse can reach it
\* (clamp_move and the minima of EV_MOUSE_MOVE).
TitlebarStaysOnScreen == \A i \in 1 .. Len(z) : Grabbable(frame[z[i]])

\* Beside an open modal window the mouse closes nothing, brings nothing to
\* the front and starts no drag (find_modal in wm_hit and wm_event).
ModalShieldsOthers ==
  [][by' = "mouse" /\ ModalOpen =>
       /\ \A i \in 1 .. Len(z) : z[i] # Modal => Holds(z', z[i])
       /\ Holds(z', Modal) => Top(z') \subseteq Top(z) \union {Modal}
       /\ drag'.win \in {drag.win, Modal, NoWindow}]_vars

\* A frame changes by the end of a drag of this very window, a move keeps its
\* size and a resize its place; opening aside, nothing else moves a window.
FramesFollowDrags ==
  [][\A w \in Windows : IsOpen(w) /\ Holds(z', w) /\ frame'[w] # frame[w] =>
       /\ drag.kind # "none" /\ drag.win = w /\ drag'.kind = "none"
       /\ IF drag.kind = "move" THEN SameSize(frame'[w], frame[w])
          ELSE frame'[w].x = frame[w].x /\ frame'[w].y = frame[w].y]_vars
================================================================================
