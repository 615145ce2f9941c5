------------------------------- MODULE FormStore -------------------------------
(***************************************************************************)
(* What a form does to a record, field by field (app/browser.c, form_build *)
(* and compose; app/fieldkind.c).  Each field of the schema has a kind,    *)
(* which says what its widget shows of a stored value and what is taken of *)
(* it when the form is saved.  The text is composed anew out of the fields *)
(* of the form alone, read, and saved under the identifier of the file     *)
(* that was opened.                                                        *)
(*                                                                         *)
(* Module Browser has forms as a whole, and when they are open; here one   *)
(* is opened, one field edited, and saved.  No text is longer than the     *)
(* buffers; Browser has those that are.                                    *)
(***************************************************************************)
EXTENDS ScriptStore

CONSTANTS
  FormFields,  \* s->form: [key, kind, required, values], in order; kind is
               \*   "text", "date", "bool" or "choice"
  ShownDay,    \* a date as it is stored -> as date.format shows it
  Entries,     \* key -> what may be entered in its widget
  Yes, No      \* how a boolean is stored

\* A value that is read back as it is from a line it was written in.
IsPlain(v) == v # <<>> /\ Trim(v) = v /\ ~Bracketed(v)

EntriesOf(i) == Entries[FormFields[i].key]

\* What identifiers, the dates of date_parse and date.format, and the files of
\* data/schema are like: no form has a field twice, or the identifier; a day is
\* shown as no other; a check box and a list are given the values they have.
ASSUME FormAssumption ==
  /\ FormFields \in Seq([key : STRING, kind : {"text", "date", "bool", "choice"},
                        required : BOOLEAN, values : SUBSET Seq(DOMAIN Code)])
  /\ \A i, j \in DOMAIN FormFields : FormFields[i].key = FormFields[j].key => i = j
  /\ \A i \in DOMAIN FormFields :
       /\ FormFields[i].key # "id" /\ \A v \in FormFields[i].values : Trim(v) = v
       /\ EntriesOf(i) \subseteq Seq(DOMAIN Code)
       /\ FormFields[i].kind = "bool" => EntriesOf(i) \subseteq {Yes, No}
       /\ FormFields[i].kind = "choice" => EntriesOf(i) \subseteq FormFields[i].values \union {<<>>}
  /\ DOMAIN ShownDay \subseteq Seq(DOMAIN Code)
  /\ ShownDay \in [DOMAIN ShownDay -> Seq(DOMAIN Code)]
  /\ \A day \in DOMAIN ShownDay :
       /\ IsPlain(day) /\ ShownDay[day] # <<>> /\ Trim(ShownDay[day]) = ShownDay[day]
       /\ \A other \in DOMAIN ShownDay : ShownDay[other] = ShownDay[day] => other = day
  /\ Yes \in Seq(DOMAIN Code) /\ IsPlain(Yes) /\ No \in Seq(DOMAIN Code) /\ IsPlain(No)
  /\ \A id, other \in Ids : IsPlain(IdText[id]) /\ (IdText[id] = IdText[other] => id = other)

FormKeys == {FormFields[i].key : i \in DOMAIN FormFields}

\* text_write, date_format, bool_write, choice_write: the text of a widget, the
\* state of a check box, or the value that is selected in a list, if any.
ShownOf(f, stored) ==
  CASE f.kind = "text"   -> stored
    [] f.kind = "date"   -> IF stored \in DOMAIN ShownDay THEN ShownDay[stored] ELSE stored
    [] f.kind = "bool"   -> IF stored = Yes THEN Yes ELSE No
    [] f.kind = "choice" -> IF stored \in f.values THEN stored ELSE <<>>

Refused == [ok |-> FALSE]
Taken(value) == [ok |-> TRUE, value |-> value]

\* Mutant: every text is taken as it is shown.
ReadAsShown(f, shown) == Taken(shown)

\* text_read with the parser of the kind: a date is stored as a date, or the
\* form is refused.
Read(f, shown) ==
  LET days == {day \in DOMAIN ShownDay : ShownDay[day] = Trim(shown)}
  IN IF f.kind # "date" THEN Taken(shown)
     ELSE IF Trim(shown) = <<>> THEN Taken(<<>>)
     ELSE IF days = {} THEN Refused
     ELSE Taken(CHOOSE day \in days : TRUE)

\* The widgets of a form that is filled from a record, or from none.
FormOf(rec) == [i \in DOMAIN FormFields |-> ShownOf(FormFields[i], First(rec, FormFields[i].key))]
EmptyForm == [i \in DOMAIN FormFields |-> ShownOf(FormFields[i], <<>>)]

Readable(form) ==
  \A i \in DOMAIN FormFields :
    LET got == Read(FormFields[i], form[i])
    IN got.ok /\ (FormFields[i].required => got.value # <<>>)

\* compose: the identifier, every field that is not empty, and the body.
ComposedText(idLine, form, body) ==
  LET ValueOf(i) == Read(FormFields[i], form[i]).value
      filled == {i \in DOMAIN FormFields : ValueOf(i) # <<>>}
      kept == Ranked(filled, [i \in filled |-> i])
      EntryAt(i) == Scalar(FormFields[i].key, ValueOf(i))
  IN <<Fence>> \o idLine \o [k \in DOMAIN kept |-> Written(EntryAt(kept[k]))] \o <<Fence>>
       \o body

\* browser_save.
SaveForm(idLine, form, body) ==
  /\ Readable(form)
  /\ LET rec == Parse(ComposedText(idLine, form, body))
     IN rec.ok /\ Save(rec)

\* browser_open_selected, an entry in one widget, browser_save.
FormEdits(id, i, entry) ==
  /\ Load(id).ok
  /\ SaveForm(<<Written(Scalar("id", IdText[id]))>>,
              [FormOf(Load(id)) EXCEPT ![i] = entry], Load(id).body)

\* browser_new, an entry in one widget, browser_save.
FormCreates(i, entry) ==
  SaveForm(<<>>, [EmptyForm EXCEPT ![i] = entry], <<>>)

FormStep ==
  \E i \in DOMAIN FormFields : \E entry \in EntriesOf(i) :
    FormCreates(i, entry) \/ \E id \in Ids : FormEdits(id, i, entry)

--------------------------------------------------------------------------------
(* Properties of a saved form.                                             *)

\* A value the schema has foreseen for the field: a single one, no list in
\* brackets, for a date none that stands there as dates are shown, and for a
\* choice one of its values.
Foreseen(f, rec) ==
  LET v == First(rec, f.key)
  IN /\ Len(ListOf(rec, f.key)) <= 1 /\ ~Bracketed(v)
     /\ f.kind = "date" => v \in DOMAIN ShownDay \/ \A day \in DOMAIN ShownDay : ShownDay[day] # v
     /\ f.kind = "bool" => v \in {Yes, No}
     /\ f.kind = "choice" => v \in f.values \union {<<>>}

\* Saving a form keeps the body, the fields that were not touched, and all other
\* records, and stores what was entered (compose, browser_save; browser.h: to
\* store something else silently would be the worse outcome) - for fields whose
\* value the schema has foreseen, and entries that are not text in brackets, for
\* that is read as a list.  What the form does not show is gone.
FormKeeps(id, i, entry) ==
  LET old == Load(id)
      new == Parse(files'[id])
      field == FormFields[i]
      Untouched == {k \in DOMAIN FormFields \ {i} : Foreseen(FormFields[k], old)}
  IN /\ new.ok /\ new.body = old.body
     /\ First(new, "id") = IdText[id]
     /\ \A k \in Untouched : First(new, FormFields[k].key) = First(old, FormFields[k].key)
     /\ ~Bracketed(Trim(entry)) => ShownOf(field, First(new, field.key)) = Trim(entry)
     /\ KeysOf(new) \subseteq FormKeys \union {"id"}
     /\ \A other \in Ids \ {id} : files'[other] = files[other]
================================================================================
