-------------------------------- MODULE Browser --------------------------------
(***************************************************************************)
(* The generic browser of app/browser.c with a list as its overview: what  *)
(* it has loaded of one collection, the selection in the list widget, the  *)
(* form and the record the form belongs to.  The vault is the disk         *)
(* function, changed whole and at once, which is what RecordStore promises *)
(* and Vault implements.  Scripts and the user's other programs change the *)
(* same collection behind the browser's back (Outside).                    *)
(*                                                                         *)
(* A record has a required title, which is also the sort field, and a      *)
(* gemtext body.  What a form can show of a body ends after 511 bytes      *)
(* (text_write in app/fieldkind.c): body is that part, rest what follows.  *)
(***************************************************************************)
EXTENDS Naturals, FiniteSets, SequencesExt

CONSTANTS
  Ids,        \* identifiers of records
  NoId,       \* the empty string in browser.editing
  Texts,      \* titles: 0 the empty text, the others in collation order
  Bodies,     \* what bodies hold in the first 511 bytes; also words of Texts
  Rests,      \* what bodies hold beyond the first 511 bytes; 0 is nothing
  FormOrder,  \* the schema's form list
  Absent,     \* no file under an identifier
  Broken,     \* a file vault_load cannot read as a record
  NoForm      \* the browser has no form

ASSUME BrowserAssumption ==
  /\ IsFiniteSet(Ids)
  /\ Texts \subseteq Nat /\ Bodies \subseteq Texts
  /\ 0 \in Bodies /\ 0 \in Rests
  /\ NoId \notin Ids
  /\ FormOrder \in {<<"title", "body">>, <<"body", "title">>}

Records == {r \in [title : Texts, body : Bodies, rest : Rests] :
              r.rest # 0 => r.body # 0}

ASSUME MarkersAssumption == {Absent, Broken, NoForm} \intersect Records = {}

VARIABLES
  disk,      \* identifier -> what the collection's directory holds
  known,     \* every identifier ever used
  ids,       \* the loaded listing
  rows,      \* the records whose lines the list widget shows
  selected,  \* the selected row, 0 for none
  view,      \* BROWSE_LIST or BROWSE_FORM
  form,      \* what the form's widgets hold
  editing,   \* the record the form belongs to, NoId for a new one
  filter,    \* the word of the full text filter, 0 for none
  opened,    \* history: the record as the form was filled from it
  stale,     \* history: did disk or filter change since the last good reload?
  whole,     \* history: did the last good reload read every record?
  last       \* history: the last operation and the record it was about

vars == <<disk, known, ids, rows, selected, view, form, editing, filter,
          opened, stale, whole, last>>
listing == <<ids, rows, selected>>
editor == <<view, form, editing, opened>>
reading == <<stale, whole>>

TypeOK ==
  /\ disk \in [Ids -> Records \union {Absent, Broken}]
  /\ known \subseteq Ids
  /\ ids \in Seq(Ids) /\ rows \in Seq(Ids)
  /\ selected \in 0 .. Len(rows)
  /\ selected = 0 <=> rows = <<>>
  /\ view \in {"list", "form"}
  /\ form \in Records \union {NoForm}
  /\ editing \in Ids \union {NoId}
  /\ filter \in Texts
  /\ opened \in Records \union {Absent}
  /\ stale \in BOOLEAN /\ whole \in BOOLEAN /\ (whole => ~stale)
  /\ last \in [op : {"none", "save", "delete"}, id : Ids \union {NoId}]

Init ==
  /\ disk \in [Ids -> Records \union {Absent, Broken}]
  /\ known = {id \in Ids : disk[id] # Absent}
  /\ ids = <<>> /\ rows = <<>> /\ selected = 0
  /\ view = "list" /\ form = NoForm /\ editing = NoId /\ opened = Absent
  /\ filter = 0
  /\ stale = TRUE /\ whole = FALSE
  /\ last = [op |-> "none", id |-> NoId]

Did(op, id) == last' = [op |-> op, id |-> id]

--------------------------------------------------------------------------------
(* The list.                                                               *)

Matches(r) == filter = 0 \/ r.title = filter \/ r.body = filter

Loadable(d) == {id \in Ids : d[id] \in Records}

\* query_compare: empty sort fields last, equal ones in any order.
Before(r, s) == r.title # 0 /\ (s.title = 0 \/ r.title < s.title)

Sorted(d, s) ==
  \A i, j \in 1 .. Len(s) : i < j => ~Before(d[s[j]], d[s[i]])

\* query_matches of each record that was read, and qsort.
ListingsOf(d, seen) == {s \in SetToSeqs({id \in seen : Matches(d[id])}) : Sorted(d, s)}

Listings(d) == ListingsOf(d, Loadable(d))

\* What vault_list and vault_load give of the readable records.  Some may be
\* missing, and nobody is told: all of them, if the directory cannot be opened
\* or read, which counts as a collection without records; those beyond
\* RECORDS_MAX; and each one for which there is no memory or no file handle.
Reading(d) == SUBSET Loadable(d)

\* browser_reload.  It fails before it touches anything, or, with the new
\* identifiers in place, because the list widget finds no memory for the rows.
Reload(d) ==
  \E seen \in Reading(d) :
    \/ /\ ids' \in ListingsOf(d, seen) /\ rows' = ids'
       /\ stale' = FALSE /\ whole' = (seen = Loadable(d))
    \/ /\ ids' \in ListingsOf(d, seen) \union {ids} /\ rows' = rows
       /\ stale' = TRUE /\ whole' = FALSE

\* list_set_items_copy selects the first row.
FirstRow(s) == IF s = <<>> THEN 0 ELSE 1

\* browser_selected_id: the row must have a loaded record.
SelectedId == IF selected \in 1 .. Len(ids) THEN ids[selected] ELSE NoId

Refresh ==
  /\ Reload(disk)
  /\ selected' = IF stale' THEN selected ELSE FirstRow(ids')
  /\ Did("none", NoId)
  /\ UNCHANGED <<disk, known, editor, filter>>

\* Keys and clicks in the list (list_goto, list_select_valid); an open form
\* keeps them away from it.
MoveSelection(i) ==
  /\ view = "list" \/ form = NoForm
  /\ i \in 1 .. Len(rows)
  /\ selected' = i
  /\ Did("none", NoId)
  /\ UNCHANGED <<disk, known, ids, rows, editor, filter, reading>>

\* browser_set_filter: seen at the next reload.
SetFilter(w) ==
  /\ w # filter
  /\ filter' = w
  /\ stale' = TRUE /\ whole' = FALSE
  /\ Did("none", NoId)
  /\ UNCHANGED <<disk, known, listing, editor>>

--------------------------------------------------------------------------------
(* The form.                                                               *)

\* text_write: what a form shows of a record.
Shown(r) == [r EXCEPT !.rest = 0]

EmptyRecord == [title |-> 0, body |-> 0, rest |-> 0]

\* Mutant: the identifier of the closed form is not forgotten.
FormCloseOnly == form' = NoForm /\ opened' = Absent /\ UNCHANGED editing

\* form_close, without the view.
FormClose == form' = NoForm /\ editing' = NoId /\ opened' = Absent

\* form_build closes the old form first.  Without memory there is then none,
\* and the view stays what it was.
FormBuild(id, r) ==
  \/ /\ view' = "form"
     /\ form' = IF r = Absent THEN EmptyRecord ELSE Shown(r)
     /\ editing' = id
     /\ opened' = r
  \/ FormClose /\ UNCHANGED view

OpenSelected ==
  /\ SelectedId # NoId
  /\ disk[SelectedId] \in Records
  /\ FormBuild(SelectedId, disk[SelectedId])
  /\ Did("none", NoId)
  /\ UNCHANGED <<disk, known, listing, filter, reading>>

New ==
  /\ FormBuild(NoId, Absent)
  /\ Did("none", NoId)
  /\ UNCHANGED <<disk, known, listing, filter, reading>>

\* The user edits a field; a body may grow beyond what a form can save.
Type(r) ==
  /\ form # NoForm
  /\ \/ r.title # form.title /\ r.body = form.body /\ r.rest = form.rest
     \/ r.title = form.title /\ <<r.body, r.rest>> # <<form.body, form.rest>>
  /\ form' = r
  /\ Did("none", NoId)
  /\ UNCHANGED <<disk, known, listing, view, editing, opened, filter, reading>>

Cancel ==
  /\ FormClose
  /\ view' = "list"
  /\ Did("none", NoId)
  /\ UNCHANGED <<disk, known, listing, filter, reading>>

--------------------------------------------------------------------------------
(* Saving and deleting.                                                    *)

\* compose refuses an empty required field and a text of more than 511 bytes.
\* Without a form (see FormBuild) it has no field to look at.
Composable == form # NoForm => (form.title # 0 /\ form.rest = 0)

\* Each field is read into the same static buffer.  The title is copied from
\* there at once; of the body only a pointer to the buffer is kept, so that it
\* is, in the end, whatever the last field of the form left there.
Composed ==
  IF form = NoForm THEN EmptyRecord
  ELSE [title |-> form.title, body |-> form[Last(FormOrder)], rest |-> 0]

\* Mutant: nobody looks for the saved record.
SelectFirstAfterSave(id) == IF stale' THEN selected ELSE FirstRow(ids')

SelectAfterSave(id) ==
  IF stale' THEN selected
  ELSE IF id \in ToSet(ids') THEN CHOOSE i \in DOMAIN ids' : ids'[i] = id
  ELSE FirstRow(ids')

SaveAs(id) ==
  /\ disk' = [disk EXCEPT ![id] = Composed]
  /\ known' = known \union {id}
  /\ FormClose
  /\ view' = "list"
  /\ Reload(disk')
  /\ selected' = SelectAfterSave(id)
  /\ Did("save", id)
  /\ UNCHANGED filter

\* browser_save.  The vault names a record that has no identifier yet.
Save ==
  /\ view = "form"
  /\ Composable
  /\ \E id \in Ids : /\ IF editing = NoId THEN id \notin known ELSE id = editing
                     /\ SaveAs(id)

\* compose or the vault refuses: the form stays as it is.
RefuseSave ==
  /\ view = "form"
  /\ Did("none", NoId)
  /\ UNCHANGED <<disk, known, listing, editor, filter, reading>>

\* Mutant: every deletion jumps back to the top.
SelectFirstAfterDelete == IF stale' THEN selected ELSE FirstRow(ids')

SelectAfterDelete ==
  IF stale' THEN selected
  ELSE IF selected <= Len(ids') THEN selected ELSE Len(ids')

\* Mutant: the listing is not read again.
DeleteWithoutReload ==
  /\ SelectedId # NoId
  /\ disk' = [disk EXCEPT ![SelectedId] = Absent]
  /\ Did("delete", SelectedId)
  /\ UNCHANGED <<known, listing, editor, filter, reading>>

\* browser_delete_selected, in whatever view.
DeleteSelected ==
  /\ SelectedId # NoId
  /\ disk' = [disk EXCEPT ![SelectedId] = Absent]
  /\ Reload(disk')
  /\ selected' = SelectAfterDelete
  /\ Did("delete", SelectedId)
  /\ UNCHANGED <<known, editor, filter>>

--------------------------------------------------------------------------------
(* A script (pdalua_store.c) or another program writes or removes a file.  *)

Outside(id, content) ==
  /\ disk[id] # content
  /\ disk' = [disk EXCEPT ![id] = content]
  /\ known' = known \union {id}
  /\ stale' = TRUE /\ whole' = FALSE
  /\ Did("none", NoId)
  /\ UNCHANGED <<listing, editor, filter>>

Next ==
  \/ Refresh
  \/ \E i \in 1 .. Cardinality(Ids) : MoveSelection(i)
  \/ \E w \in Texts : SetFilter(w)
  \/ OpenSelected \/ New \/ Cancel \/ Save \/ RefuseSave \/ DeleteSelected
  \/ \E r \in Records : Type(r)
  \/ \E id \in Ids, c \in Records \union {Absent, Broken} : Outside(id, c)

Spec == Init /\ [][Next]_vars

--------------------------------------------------------------------------------
(* Properties.                                                             *)

\* As long as nobody else changed the collection, every line of the list stands
\* for a readable record that matches the filter, each once and in order, and the
\* line under the selection for the record the next operation takes: a save or a
\* deletion never leaves an outdated row behind ("Zeile i zeigt Datensatz
\* ids[i]", browser.c:46).  No record is missing but those the reload could not
\* read, an unreadable directory among them (vault_list, vault_load).
ListIsCurrent ==
  ~stale =>
    /\ rows = ids
    /\ \E seen \in Reading(disk) : ids \in ListingsOf(disk, seen)
    /\ whole => ids \in Listings(disk)

\* A form knows its record exactly as long as it is open: the identifier of
\* an earlier form never survives, neither in the list nor after a form that
\* could not be built.
FormBelongsToRecord ==
  /\ view = "list" => form = NoForm
  /\ editing # NoId <=> opened # Absent
  /\ form = NoForm => editing = NoId
  /\ editing # NoId => editing \in known

\* Saving a new record replaces nothing, whatever forms were opened, cancelled
\* or not built before it; saving an opened one writes that record.
SaveGoesWhereItBelongs ==
  [][last'.op = "save" /\ disk' # disk
       => IF opened = Absent THEN disk[last'.id] = Absent ELSE last'.id = editing]_vars

\* Opening a record and saving it again keeps every field the user did not
\* touch (test_browser.c, editing_keeps_the_body).
EditingKeepsUntouchedFields ==
  [][last'.op = "save" /\ opened # Absent /\ disk[last'.id] = opened
       => \A f \in DOMAIN opened :
            form[f] = Shown(opened)[f] => disk'[last'.id][f] = opened[f]]_vars

\* After a save the selection is on the record that was saved, wherever the
\* sort has put it, if the list has it at all: it has, unless the filter hides
\* it or it could not be read back.
SavedIsSelected ==
  last.op = "save" /\ ~stale =>
    /\ last.id \in ToSet(ids) => SelectedId = last.id
    /\ whole /\ Matches(disk[last.id]) => SelectedId = last.id

\* Deleting one record after the other works down the list: the selection is
\* on the record that followed the deleted one, or on the new last one, as long
\* as the list misses none.
SelectionMovesToNeighbour ==
  [][last'.op = "delete" /\ whole /\ whole' /\ Cardinality(Listings(disk)) = 1
       => LET rest == RemoveAt(ids, selected)
              neighbour == IF selected <= Len(rest) THEN selected ELSE Len(rest)
          IN  IF rest = <<>> THEN selected' = 0
              ELSE selected' # 0 /\ ids'[selected'] = rest[neighbour]]_vars
================================================================================
