-------------------------------- MODULE TextBuf --------------------------------
(***************************************************************************)
(* The text model behind text fields, ui/textbuf.c: a buffer of UTF-8      *)
(* bytes, the caret and the anchor of the selection as byte offsets, and   *)
(* the stacks of undo and redo steps.  A step is a difference: what was    *)
(* inserted or deleted where, and the caret before it.                     *)
(*                                                                         *)
(* A byte is a line break, a letter, or one of the two bytes of a longer   *)
(* character.  A line break also stands for every other white space.  The  *)
(* heap is never exhausted here.                                           *)
(***************************************************************************)
EXTENDS Integers, SequencesExt

CONSTANTS
  Loads,    \* the texts textbuf_set is given
  Inserts,  \* the texts that are typed or pasted
  MaxLen,   \* bound of the model: bytes in the buffer
  MaxTyped, \* bound of the model: up to so many bytes more may be typed
  MaxSteps  \* bound of the model: steps on the undo stack, joined ones not counted

Break == 0
Letter == 1
Lead == 2
Cont == 3
Bytes == {Break, Letter, Lead, Cont}

\* Every character is whole.
WellFormed(s) ==
  \A i \in 0 .. Len(s) :
    (i > 0 /\ s[i] = Lead) <=> (i < Len(s) /\ s[i + 1] = Cont)

ASSUME TextAssumption ==
  /\ MaxLen \in Nat /\ MaxTyped \in 0 .. MaxLen /\ MaxSteps \in Nat
  /\ \A s \in Loads \union Inserts : s \in Seq(Bytes) /\ WellFormed(s)
  /\ \A s \in Loads : Len(s) <= MaxLen

VARIABLES
  text, cursor, anchor,
  want,   \* the desired column of vertical moves, -1 for none
  undo,   \* steps that can be undone, the youngest last
  redo,   \* steps that can be redone, the next one last
  cut     \* undo_break: the next edit begins a new step

textVars == <<text, cursor, anchor, want, undo, redo, cut>>

Buffers == UNION {[1 .. n -> Bytes] : n \in 0 .. MaxLen}
Steps == [insert : BOOLEAN, pos : 0 .. MaxLen, text : Buffers \ {<<>>},
          cursor : 0 .. MaxLen, anchor : 0 .. MaxLen, joined : BOOLEAN]

TypeOK ==
  /\ text \in Buffers
  /\ cursor \in 0 .. Len(text) /\ anchor \in 0 .. Len(text)
  /\ want \in -1 .. MaxLen
  /\ \A i \in DOMAIN undo : undo[i] \in Steps
  /\ \A i \in DOMAIN redo : redo[i] \in Steps
  /\ cut \in BOOLEAN

TextInit ==
  /\ text = <<>> /\ cursor = 0 /\ anchor = 0
  /\ want = -1
  /\ undo = <<>> /\ redo = <<>> /\ cut = FALSE

--------------------------------------------------------------------------------
(* Bytes, characters and lines.                                            *)

Erased(s, from, to) == SubSeq(s, 1, from) \o SubSeq(s, to + 1, Len(s))
Spliced(s, at, t) == SubSeq(s, 1, at) \o t \o SubSeq(s, at + 1, Len(s))

Boundary(s, p) == p = Len(s) \/ s[p + 1] # Cont
Boundaries == {p \in 0 .. Len(text) : Boundary(text, p)}

\* utf8_prev and utf8_next, which stay at the ends of the text.
Before(p) == IF p = 0 THEN 0 ELSE Max({q \in Boundaries : q < p})
After(p) == IF p = Len(text) THEN p ELSE Min({q \in Boundaries : q > p})

IsSpace(i) == text[i] = Break

\* word_left: back over the gap, then over the word.
WordLeft(pos) ==
  LET gap == Min({p \in 0 .. pos : \A i \in p + 1 .. pos : IsSpace(i)})
  IN  Min({p \in 0 .. gap : \A i \in p + 1 .. gap : ~IsSpace(i)})

\* word_right: over the word, then over the gap.
WordRight(pos) ==
  LET word == Max({p \in pos .. Len(text) : \A i \in pos + 1 .. p : ~IsSpace(i)})
  IN  Max({p \in word .. Len(text) : \A i \in word + 1 .. p : IsSpace(i)})

Breaks(p) == {i \in 1 .. p : text[i] = Break}
LineAt(p) == Cardinality(Breaks(p))
LastLine == LineAt(Len(text))
LineStart(line) ==
  IF line = 0 THEN 0 ELSE Min({p \in 0 .. Len(text) : LineAt(p) = line})
LineEnd(p) == Min({q \in p .. Len(text) : q = Len(text) \/ text[q + 1] = Break})

\* pos_to_col and col_to_pos count characters.
Column(start, p) == Cardinality({q \in Boundaries : start < q /\ q <= p})
AtColumn(start, col) ==
  Max({p \in Boundaries : start <= p /\ p <= LineEnd(start) /\ Column(start, p) <= col})

--------------------------------------------------------------------------------
(* The caret.                                                              *)

\* Mutant: an offset within a character stays there.
UnsnappedTo(p) == p

\* The loop of textbuf_set_cursor.
SnappedTo(p) == Max({q \in Boundaries : q <= p})

PutCaret(p, extend) ==
  /\ cursor' = p
  /\ anchor' = IF extend THEN anchor ELSE p
  /\ UNCHANGED <<text, undo, redo, cut>>

\* textbuf_set_cursor, with any offset a widget may have found.
SetCursor(p, extend) ==
  /\ p <= Len(text) + 1
  /\ PutCaret(SnappedTo(IF p > Len(text) THEN Len(text) ELSE p), extend)
  /\ want' = -1

SelectAll ==
  /\ anchor' = 0 /\ cursor' = Len(text)
  /\ want' = -1
  /\ UNCHANGED <<text, undo, redo, cut>>

\* textbuf_move_cursor, up and down aside.
MoveTo(to, extend) == PutCaret(to, extend) /\ want' = -1

Targets ==
  {Before(cursor), After(cursor), WordLeft(cursor), WordRight(cursor),
   LineStart(LineAt(cursor)), LineEnd(cursor), 0, Len(text)}

Move(extend) == \E to \in Targets : MoveTo(to, extend)

\* move_vertical: the column is remembered at the first of several moves.
MoveVertically(line, extend) ==
  LET col == IF want < 0 THEN Column(LineStart(LineAt(cursor)), cursor) ELSE want
  IN  IF line \in 0 .. LastLine
      THEN PutCaret(AtColumn(LineStart(line), col), extend) /\ want' = col
      ELSE PutCaret(cursor, extend) /\ UNCHANGED want

UpOrDown(extend) ==
  \/ MoveVertically(LineAt(cursor) - 1, extend)
  \/ MoveVertically(LineAt(cursor) + 1, extend)

--------------------------------------------------------------------------------
(* Steps.  An operation computes a whole new buffer from the old one.      *)

Buffer == [text |-> text, cursor |-> cursor, anchor |-> anchor,
           undo |-> undo, redo |-> redo]

Become(b) ==
  /\ Cardinality({i \in DOMAIN b.undo : ~b.undo[i].joined}) <= MaxSteps
  /\ text' = b.text /\ cursor' = b.cursor /\ anchor' = b.anchor
  /\ undo' = b.undo /\ redo' = b.redo
  /\ want' = -1

NewStep(b, insert, pos, s, joined) ==
  Append(b.undo, [insert |-> insert, pos |-> pos, text |-> s, cursor |-> b.cursor,
                  anchor |-> b.anchor, joined |-> joined])

HasBreak(s) == \E i \in 1 .. Len(s) : s[i] = Break

\* record_insert: typing goes on where the last insertion ended.
InsertRecorded(b, new, pos, s, joined) ==
  LET top == Last(b.undo) IN
  IF /\ ~joined /\ ~new /\ b.undo # <<>>
     /\ top.insert /\ top.pos + Len(top.text) = pos
     /\ ~HasBreak(s) /\ ~HasBreak(top.text)
  THEN Append(Front(b.undo), [top EXCEPT !.text = @ \o s])
  ELSE NewStep(b, TRUE, pos, s, joined)

\* record_delete: a deletion goes on at the same place or just before it.
DeleteRecorded(b, new, pos, s) ==
  LET top == Last(b.undo)
      goesOn == ~new /\ b.undo # <<>> /\ ~top.insert
  IN  IF goesOn /\ top.pos = pos
      THEN Append(Front(b.undo), [top EXCEPT !.text = @ \o s])
      ELSE IF goesOn /\ pos + Len(s) = top.pos
      THEN Append(Front(b.undo), [top EXCEPT !.text = s \o @, !.pos = pos])
      ELSE NewStep(b, FALSE, pos, s, FALSE)

\* Mutant: what could be redone stays after a deletion.
RangeErasedOnly(b, new, from, to) ==
  [text |-> Erased(b.text, from, to), cursor |-> from, anchor |-> from,
   undo |-> DeleteRecorded(b, new, from, SubSeq(b.text, from + 1, to)), redo |-> b.redo]

\* erase_range_recorded.
RangeErased(b, new, from, to) ==
  [text |-> Erased(b.text, from, to), cursor |-> from, anchor |-> from,
   undo |-> DeleteRecorded(b, new, from, SubSeq(b.text, from + 1, to)), redo |-> <<>>]

Selected == cursor # anchor
From == IF cursor < anchor THEN cursor ELSE anchor
To == IF cursor < anchor THEN anchor ELSE cursor

\* textbuf_insert: a selection is replaced, which is one step for the user.
Insert(s) ==
  LET b == IF Selected THEN RangeErased(Buffer, cut, From, To) ELSE Buffer
      end == b.cursor + Len(s)
  IN  /\ s # <<>> => Len(b.text) + Len(s) <= MaxTyped
      /\ Become(IF s = <<>> THEN b
                ELSE [text |-> Spliced(b.text, b.cursor, s), cursor |-> end, anchor |-> end,
                      undo |-> InsertRecorded(b, cut, b.cursor, s, Selected), redo |-> <<>>])
      /\ cut' = (cut /\ s = <<>> /\ ~Selected)

DeleteRange(from, to) ==
  /\ from < to
  /\ Become(RangeErased(Buffer, cut, from, to))
  /\ cut' = FALSE

\* textbuf_delete_back and textbuf_delete_forward.
DeleteBack == IF Selected THEN DeleteRange(From, To) ELSE DeleteRange(Before(cursor), cursor)
DeleteForward == IF Selected THEN DeleteRange(From, To) ELSE DeleteRange(cursor, After(cursor))

Load(s) ==
  /\ Become([text |-> s, cursor |-> Len(s), anchor |-> Len(s), undo |-> <<>>, redo |-> <<>>])
  /\ cut' = FALSE

BreakUndo == cut' = TRUE /\ UNCHANGED <<text, cursor, anchor, want, undo, redo>>

TakenBack(s, step) ==
  IF step.insert THEN Erased(s, step.pos, step.pos + Len(step.text))
  ELSE Spliced(s, step.pos, step.text)
Repeated(s, step) ==
  IF step.insert THEN Spliced(s, step.pos, step.text)
  ELSE Erased(s, step.pos, step.pos + Len(step.text))

\* undo_one and redo_one.
OneUndone(b) ==
  LET step == Last(b.undo)
  IN  [text |-> TakenBack(b.text, step), cursor |-> step.cursor, anchor |-> step.anchor,
       undo |-> Front(b.undo), redo |-> Append(b.redo, step)]
OneRedone(b) ==
  LET step == Last(b.redo)
      end == step.pos + (IF step.insert THEN Len(step.text) ELSE 0)
  IN  [text |-> Repeated(b.text, step), cursor |-> end, anchor |-> end,
       undo |-> Append(b.undo, step), redo |-> Front(b.redo)]

\* Mutant: a replaced selection is taken back in two parts.
UndoSingly ==
  /\ undo # <<>>
  /\ Become(OneUndone(Buffer))
  /\ cut' = TRUE

\* textbuf_undo: a joined step takes the one below with it.
Undo ==
  /\ undo # <<>>
  /\ Become(IF Last(undo).joined /\ Len(undo) > 1 THEN OneUndone(OneUndone(Buffer))
            ELSE OneUndone(Buffer))
  /\ cut' = TRUE

\* textbuf_redo: a joined step follows the one it belongs to.
Redo ==
  /\ redo # <<>>
  /\ LET b == OneRedone(Buffer)
     IN  Become(IF b.redo # <<>> /\ Last(b.redo).joined THEN OneRedone(b) ELSE b)
  /\ cut' = TRUE

TextNext ==
  \/ \E p \in 0 .. MaxLen + 1, extend \in BOOLEAN : SetCursor(p, extend)
  \/ \E extend \in BOOLEAN : Move(extend) \/ UpOrDown(extend)
  \/ \E s \in Loads : Load(s)
  \/ \E s \in Inserts : Insert(s)
  \/ SelectAll \/ DeleteBack \/ DeleteForward \/ BreakUndo \/ Undo \/ Redo

TextSpec == TextInit /\ [][TextNext]_textVars

--------------------------------------------------------------------------------
(* Properties.                                                             *)

\* The caret, the anchor and every edit respect whole characters, whatever
\* was undone, replaced or redone in between ("deshalb kann die Schreibmarke
\* nie in der Mitte eines Mehrbytezeichens landen", textbuf.h:10-13).
CharactersStayWhole ==
  WellFormed(text) /\ cursor \in Boundaries /\ anchor \in Boundaries

\* The text before each step of the undo stack, the current text last.
Earlier ==
  LET n == Len(undo)
      back[k \in 0 .. n] == IF k = 0 THEN text ELSE TakenBack(back[k - 1], undo[n - k + 1])
  IN  [i \in 1 .. n + 1 |-> back[n - i + 1]]

\* The text after each step of the redo stack, the current text last.
Later ==
  LET n == Len(redo)
      on[k \in 0 .. n] == IF k = 0 THEN text ELSE Repeated(on[k - 1], redo[n - k + 1])
  IN  [i \in 1 .. n + 1 |-> on[n - i + 1]]

\* A step can be taken back, or repeated, only on a text on which its place
\* exists and holds what the step put, or is to delete, there.
Stands(s, step) ==
  /\ step.pos + Len(step.text) <= Len(s)
  /\ SubSeq(s, step.pos + 1, step.pos + Len(step.text)) = step.text

\* Undoing and redoing never reach for bytes that are not there: every step
\* of both stacks fits the text it will meet when its turn comes, though
\* positions are noted once and the text goes on changing.
StepsFit ==
  LET earlier == Earlier
      later == Later
  IN  /\ \A i \in DOMAIN undo :
           IF undo[i].insert THEN Stands(earlier[i + 1], undo[i])
           ELSE undo[i].pos <= Len(earlier[i + 1])
      /\ \A i \in DOMAIN redo :
           IF redo[i].insert THEN redo[i].pos <= Len(later[i + 1])
           ELSE Stands(later[i + 1], redo[i])

\* What is there now and what can be brought back stay whole together: an undo
\* that reached into a character, or an edit in one, breaks the one through the
\* other.
TextStaysWhole == CharactersStayWhole /\ StepsFit

\* The versions the user can go back and forward to.
CaretOf(step) == <<step.cursor, step.anchor>>
FirstsOf(steps) ==
  LET firsts[k \in 0 .. Len(steps)] ==
        IF k = 0 THEN <<>>
        ELSE IF steps[k].joined THEN firsts[k - 1] ELSE Append(firsts[k - 1], k)
  IN  firsts[Len(steps)]
Past ==
  LET earlier == Earlier
      version(i) == [text |-> earlier[i], caret |-> CaretOf(undo[i])]
      firsts == FirstsOf(undo)
  IN  [k \in DOMAIN firsts |-> version(firsts[k])]
Future ==
  LET later == Later
      last(i) == IF i > 1 /\ redo[i - 1].joined THEN i - 1 ELSE i
      version(i) == [text |-> later[last(i)], caret |-> CaretOf(redo[i])]
      firsts == FirstsOf(redo)
  IN  [k \in DOMAIN firsts |-> version(firsts[k])]

History == INSTANCE UndoHistory
             WITH Texts <- Buffers, caret <- <<cursor, anchor>>, past <- Past, future <- Future

\* The stacks of differences implement a line of whole versions: an undo
\* brings back exactly the text, the caret and the selection before the edit,
\* a redo exactly the text after it, and a replaced selection is one version.
KeepsHistory == History!Spec
================================================================================
