------------------------------ MODULE UndoHistory ------------------------------
(***************************************************************************)
(* What the text model (ui/textbuf.h) promises of undoing and redoing: the *)
(* versions of the text form a line, an undo goes back to the version      *)
(* before, with the caret and the selection as they were then, a redo goes *)
(* forward to the version that was left, and an edit cuts off what could   *)
(* have been redone.  Edits that belong together may share one version.    *)
(*                                                                         *)
(* There are no steps, positions or stacks of differences here; module     *)
(* TextBuf implements this specification.                                  *)
(***************************************************************************)
EXTENDS Naturals, SequencesExt

CONSTANT Texts  \* the texts that can be loaded or reached by an edit

VARIABLES
  text,
  caret,   \* the caret and the other end of the selection, a pair
  past,    \* the versions to go back to, the next one last: text and caret
  future   \* the versions to go forward to, the next one last: the text, and
           \* the caret that an undo will bring back

historyVars == <<text, caret, past, future>>

Version(t, c) == [text |-> t, caret |-> c]

Init ==
  /\ text = <<>> /\ caret = <<0, 0>>
  /\ past = <<>> /\ future = <<>>

\* The history starts anew with another text.
Load ==
  /\ text' \in Texts
  /\ caret' \in (0 .. Len(text')) \X (0 .. Len(text'))
  /\ past' = <<>> /\ future' = <<>>

\* An edit adds a version, or belongs to the one that is being written.
Edit ==
  /\ text' \in Texts
  /\ caret' \in (0 .. Len(text')) \X (0 .. Len(text'))
  /\ \/ past' = Append(past, Version(text, caret))
     \/ past # <<>> /\ UNCHANGED past
  /\ future' = <<>>

MoveCaret ==
  /\ UNCHANGED text /\ UNCHANGED past /\ UNCHANGED future
  /\ caret' \in (0 .. Len(text)) \X (0 .. Len(text))

Undo ==
  /\ past # <<>>
  /\ text' = Last(past).text
  /\ caret' = Last(past).caret
  /\ past' = Front(past)
  /\ future' = Append(future, Version(text, Last(past).caret))

Redo ==
  /\ future # <<>>
  /\ text' = Last(future).text
  /\ caret' \in (0 .. Len(text')) \X (0 .. Len(text'))
  /\ past' = Append(past, Version(text, Last(future).caret))
  /\ future' = Front(future)

Next == MoveCaret \/ Edit \/ Undo \/ Redo \/ Load

Spec == Init /\ [][Next]_historyVars
================================================================================
