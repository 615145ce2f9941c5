----------------------------- MODULE BrowserProofs -----------------------------
(***************************************************************************)
(* What TLAPS proves of Browser for every finite set of identifiers, every *)
(* set of texts and every filter: the types, that a form belongs to the    *)
(* record it was opened from, that a save goes there and nowhere else and  *)
(* keeps what was not touched, and that every line of the list stands for  *)
(* a record of the directory, whatever a listing misses.                   *)
(***************************************************************************)
EXTENDS Browser, FiniteSetTheorems, SequenceTheorems, WellFoundedInduction, TLAPS

--------------------------------------------------------------------------------
(* Listings.                                                               *)

\* A function on 1 .. n is a sequence of length n.
LEMMA IsSequence ==
  ASSUME NEW S, NEW n \in Nat, NEW s \in [1 .. n -> S]
  PROVE  s \in Seq(S) /\ Len(s) = n
  <1>1. s \in Seq(S)
    BY SeqDef
  <1>2. DOMAIN s = 1 .. Len(s) /\ Len(s) \in Nat
    BY <1>1, LenProperties
  <1> QED
    BY <1>1, <1>2

\* A listing is a sequence of identifiers, each of a record that was read and
\* matches the filter, once.
LEMMA ListingsType ==
  ASSUME NEW d, NEW seen \in Reading(d), NEW s \in ListingsOf(d, seen)
  PROVE  /\ s \in Seq(Ids)
         /\ \A i \in 1 .. Len(s) : s[i] \in seen /\ Matches(d[s[i]])
  <1> DEFINE S == {id \in seen : Matches(d[id])}
  <1>1. IsFiniteSet(S) /\ S \subseteq Ids
    BY BrowserAssumption, FS_Subset DEF Reading, Loadable
  <1>2. Cardinality(S) \in Nat
    BY <1>1, FS_CardinalityType
  <1>3. s \in [1 .. Cardinality(S) -> S]
    BY DEF ListingsOf, SetToSeqs
  <1>4. s \in Seq(S) /\ Len(s) = Cardinality(S)
    BY <1>2, <1>3, IsSequence
  <1>5. s \in [1 .. Cardinality(S) -> Ids]
    BY <1>1, <1>3
  <1>6. s \in Seq(Ids)
    BY <1>2, <1>5, IsSequence
  <1>7. \A i \in 1 .. Len(s) : s[i] \in S
    BY <1>3, <1>4
  <1> QED
    BY <1>6, <1>7

\* Every such record is listed.
LEMMA ListingsComplete ==
  ASSUME NEW d, NEW seen \in Reading(d), NEW s \in ListingsOf(d, seen),
         NEW id \in seen, Matches(d[id])
  PROVE  \E i \in 1 .. Len(s) : s[i] = id
  <1> DEFINE S == {x \in seen : Matches(d[x])}
             D == 1 .. Cardinality(S)
  <1>1. IsFiniteSet(S) /\ id \in S
    BY BrowserAssumption, FS_Subset DEF Reading, Loadable
  <1>2. Cardinality(S) \in Nat
    BY <1>1, FS_CardinalityType
  <1>3. s \in [D -> S] /\ \A i, j \in D : i # j => s[i] # s[j]
    BY DEF ListingsOf, SetToSeqs
  <1> HIDE DEF S
  <1>4. s \in Injection(D, S)
    BY <1>3 DEF Injection, IsInjective
  <1>5. Cardinality(D) = Cardinality(S)
    BY <1>2, FS_Interval
  <1>6. s \in Surjection(D, S)
    BY <1>1, <1>4, <1>5, FS_Injection
  <1>7. Len(s) = Cardinality(S)
    BY <1>2, <1>3, IsSequence
  <1> QED
    BY <1>1, <1>6, <1>7 DEF Surjection

\* A listing of all of them is one of those.
LEMMA WholeIsListing ==
  ASSUME NEW d
  PROVE  Loadable(d) \in Reading(d) /\ Listings(d) = ListingsOf(d, Loadable(d))
  BY DEF Reading, Listings

--------------------------------------------------------------------------------
(* Types.                                                                  *)

\* A reload leaves new rows that agree with the identifiers, or the old rows.
LEMMA ReloadType ==
  ASSUME TypeOK, NEW d, Reload(d)
  PROVE  /\ ids' \in Seq(Ids) /\ rows' \in Seq(Ids)
         /\ stale' \in BOOLEAN /\ whole' \in BOOLEAN /\ (whole' => ~stale')
         /\ IF stale' THEN rows' = rows ELSE rows' = ids'
  <1>1. PICK seen \in Reading(d) :
          \/ /\ ids' \in ListingsOf(d, seen) /\ rows' = ids'
             /\ stale' = FALSE /\ whole' = (seen = Loadable(d))
          \/ /\ ids' \in ListingsOf(d, seen) \union {ids} /\ rows' = rows
             /\ stale' = TRUE /\ whole' = FALSE
    BY DEF Reload
  <1>2. ids' \in Seq(Ids)
    BY <1>1, ListingsType DEF TypeOK
  <1> QED
    BY <1>1, <1>2 DEF TypeOK

\* A sequence is empty exactly if its length is 0.
LEMMA Emptiness ==
  ASSUME NEW S, NEW s \in Seq(S)
  PROVE  Len(s) \in Nat /\ (s = <<>> <=> Len(s) = 0)
  BY EmptySeq, LenProperties

\* What a form shows of a record is a record.
LEMMA ShownType ==
  EmptyRecord \in Records /\ \A r \in Records : Shown(r) \in Records
  BY BrowserAssumption DEF EmptyRecord, Shown, Records

\* What a save composes of a form is a record, and with the body as the last
\* field it is what the form holds.
LEMMA ComposedIsForm ==
  ASSUME FormOrder = <<"title", "body">>, form \in Records, Composable
  PROVE  Composed = form
  <1>1. form # NoForm
    BY MarkersAssumption
  <1>2. Last(FormOrder) = "body"
    <2>1. Len(<<"title", "body">>) = 2
      OBVIOUS
    <2> QED
      BY <2>1 DEF Last
  <1>3. form = [title |-> form.title, body |-> form.body, rest |-> form.rest]
    BY DEF Records
  <1> QED
    BY <1>1, <1>2, <1>3 DEF Composed, Composable

\* The identifier under the selection is one of the loaded ones.
LEMMA SelectedIdType == TypeOK => SelectedId \in Ids \union {NoId}
  BY DEF TypeOK, SelectedId

--------------------------------------------------------------------------------
(* The inductive invariant.                                                *)

\* A selection fits a list of rows.
Fits(i, s) == i \in 0 .. Len(s) /\ (i = 0 <=> s = <<>>)

\* Wherever a row is looked for after a reload, the selection fits the rows.
LEMMA FirstRowFits ==
  ASSUME NEW s \in Seq(Ids) PROVE Fits(FirstRow(s), s)
  BY Emptiness DEF Fits, FirstRow

LEMMA SelectAfterSaveFits ==
  ASSUME TypeOK, NEW d, Reload(d), NEW id
  PROVE  Fits(SelectAfterSave(id), rows')
  <1>1. CASE stale'
    BY <1>1, ReloadType DEF TypeOK, SelectAfterSave, Fits
  <1>2. CASE ~stale' /\ id \in ToSet(ids')
    <2>1. rows' = ids' /\ ids' \in Seq(Ids)
      BY <1>2, ReloadType
    <2>2. DOMAIN ids' = 1 .. Len(ids') /\ Len(ids') \in Nat
      BY <2>1, LenProperties
    <2>3. SelectAfterSave(id) \in DOMAIN ids'
      BY <1>2 DEF SelectAfterSave, ToSet
    <2> QED
      BY <2>1, <2>2, <2>3, Emptiness DEF Fits
  <1>3. CASE ~stale' /\ id \notin ToSet(ids')
    BY <1>3, ReloadType, FirstRowFits DEF SelectAfterSave
  <1> QED
    BY <1>1, <1>2, <1>3

LEMMA SelectAfterDeleteFits ==
  ASSUME TypeOK, NEW d, Reload(d), SelectedId # NoId
  PROVE  Fits(SelectAfterDelete, rows')
  <1>1. CASE stale'
    BY <1>1, ReloadType DEF TypeOK, SelectAfterDelete, Fits
  <1>2. CASE ~stale'
    <2>1. rows' = ids' /\ ids' \in Seq(Ids)
      BY <1>2, ReloadType
    <2>2. Len(ids') \in Nat /\ (ids' = <<>> <=> Len(ids') = 0)
      BY <2>1, Emptiness
    <2>3. Len(ids) \in Nat /\ selected \in 1 .. Len(ids)
      BY LenProperties DEF TypeOK, SelectedId
    <2> QED
      BY <1>2, <2>1, <2>2, <2>3 DEF SelectAfterDelete, Fits
  <1> QED
    BY <1>1, <1>2

\* What lies under an identifier nobody has used: nothing.  With it, and with
\* FormBelongsToRecord, a new record meets no file.
UnknownIsAbsent == \A id \in Ids : id \notin known => disk[id] = Absent

IInv == TypeOK /\ FormBelongsToRecord /\ UnknownIsAbsent

\* form_build and form_close keep form, identifier and view together.
LEMMA FormBuildKeeps ==
  ASSUME IInv, NEW id \in Ids \union {NoId}, NEW r \in Records \union {Absent},
         id # NoId <=> r # Absent, id # NoId => id \in known,
         FormBuild(id, r), known' = known
  PROVE  /\ view' \in {"list", "form"} /\ form' \in Records \union {NoForm}
         /\ editing' \in Ids \union {NoId} /\ opened' \in Records \union {Absent}
         /\ FormBelongsToRecord'
  <1>1. CASE FormClose /\ UNCHANGED view
    BY <1>1 DEF IInv, TypeOK, FormClose, FormBelongsToRecord
  <1>2. CASE /\ view' = "form" /\ editing' = id /\ opened' = r
             /\ form' = IF r = Absent THEN EmptyRecord ELSE Shown(r)
    <2>1. form' \in Records
      BY <1>2, ShownType
    <2>2. form' # NoForm
      BY <2>1, MarkersAssumption
    <2> QED
      BY <1>2, <2>1, <2>2 DEF FormBelongsToRecord
  <1> QED
    BY <1>1, <1>2 DEF FormBuild

\* Every step keeps the invariant, if the body is the last field of the form.
LEMMA Step ==
  ASSUME FormOrder = <<"title", "body">>
  PROVE  IInv /\ [Next]_vars => IInv'
  <1> SUFFICES ASSUME IInv, [Next]_vars PROVE IInv'
    OBVIOUS
  <1>0. TypeOK /\ FormBelongsToRecord /\ UnknownIsAbsent
    BY DEF IInv
  <1>1. CASE Refresh
    <2>1. Reload(disk) /\ UNCHANGED <<disk, known, view, form, editing, opened, filter>>
      BY <1>1 DEF Refresh, editor
    <2>2. Fits(selected', rows')
      BY <1>0, <1>1, ReloadType, FirstRowFits DEF Refresh, TypeOK, Fits
    <2>3. TypeOK'
      BY <1>0, <1>1, <2>1, <2>2, ReloadType DEF TypeOK, Refresh, Did, Fits
    <2> QED
      BY <1>0, <2>1, <2>3 DEF IInv, FormBelongsToRecord, UnknownIsAbsent
  <1>2. ASSUME NEW i \in 1 .. Cardinality(Ids), MoveSelection(i)
        PROVE  IInv'
    <2>1. selected' \in 0 .. Len(rows) /\ (selected' = 0 <=> rows = <<>>)
      BY <1>0, <1>2, Emptiness DEF MoveSelection, TypeOK
    <2> QED
      BY <1>0, <1>2, <2>1
      DEF MoveSelection, Did, reading, editor, IInv, TypeOK, FormBelongsToRecord, UnknownIsAbsent
  <1>3. ASSUME NEW w \in Texts, SetFilter(w)
        PROVE  IInv'
    BY <1>0, <1>3
    DEF SetFilter, Did, reading, listing, editor, IInv, TypeOK, FormBelongsToRecord, UnknownIsAbsent
  <1>4. CASE OpenSelected
    <2>1. SelectedId \in Ids /\ disk[SelectedId] \in Records
      BY <1>0, <1>4, SelectedIdType DEF OpenSelected
    <2>2. SelectedId \in known /\ disk[SelectedId] # Absent
      BY <1>0, <2>1, MarkersAssumption DEF UnknownIsAbsent
    <2>3. /\ view' \in {"list", "form"} /\ form' \in Records \union {NoForm}
          /\ editing' \in Ids \union {NoId} /\ opened' \in Records \union {Absent}
          /\ FormBelongsToRecord'
      BY <1>4, <2>1, <2>2, FormBuildKeeps, BrowserAssumption DEF OpenSelected
    <2> QED
      BY <1>0, <1>4, <2>3 DEF OpenSelected, Did, reading, listing, IInv, TypeOK, UnknownIsAbsent
  <1>5. CASE New
    <2>1. /\ view' \in {"list", "form"} /\ form' \in Records \union {NoForm}
          /\ editing' \in Ids \union {NoId} /\ opened' \in Records \union {Absent}
          /\ FormBelongsToRecord'
      BY <1>5, FormBuildKeeps DEF New
    <2> QED
      BY <1>0, <1>5, <2>1 DEF New, Did, reading, listing, IInv, TypeOK, UnknownIsAbsent
  <1>6. CASE Cancel
    BY <1>0, <1>6
    DEF Cancel, FormClose, Did, reading, listing, IInv, TypeOK, FormBelongsToRecord, UnknownIsAbsent
  <1>7. CASE Save
    <2>1. PICK id \in Ids : SaveAs(id)
      BY <1>7 DEF Save
    <2>2. Composed \in Records
      BY <1>0, <1>7, ComposedIsForm, ShownType DEF Save, TypeOK, Composed
    <2>3. Fits(selected', rows')
      BY <1>0, <2>1, SelectAfterSaveFits DEF SaveAs
    <2>4. /\ ids' \in Seq(Ids) /\ rows' \in Seq(Ids)
          /\ stale' \in BOOLEAN /\ whole' \in BOOLEAN /\ (whole' => ~stale')
      BY <1>0, <2>1, ReloadType DEF SaveAs
    <2>5. TypeOK'
      BY <2>4, <1>0, <2>1, <2>2, <2>3 DEF SaveAs, FormClose, Did, TypeOK, Fits
    <2>6. FormBelongsToRecord'
      BY <2>1 DEF SaveAs, FormClose, FormBelongsToRecord
    <2>7. UnknownIsAbsent'
      BY <1>0, <2>1 DEF SaveAs, TypeOK, UnknownIsAbsent
    <2> QED
      BY <2>5, <2>6, <2>7 DEF IInv
  <1>8. CASE RefuseSave
    BY <1>0, <1>8
    DEF RefuseSave, Did, reading, listing, editor, IInv, TypeOK, FormBelongsToRecord, UnknownIsAbsent
  <1>9. CASE DeleteSelected
    <2>1. Fits(selected', rows')
      BY <1>0, <1>9, SelectAfterDeleteFits DEF DeleteSelected
    <2>2. /\ ids' \in Seq(Ids) /\ rows' \in Seq(Ids)
          /\ stale' \in BOOLEAN /\ whole' \in BOOLEAN /\ (whole' => ~stale')
      BY <1>0, <1>9, ReloadType DEF DeleteSelected
    <2>3. SelectedId \in Ids
      BY <1>0, <1>9, SelectedIdType DEF DeleteSelected
    <2>4. TypeOK'
      BY <1>0, <1>9, <2>1, <2>2, <2>3 DEF DeleteSelected, Did, editor, TypeOK, Fits
    <2> QED
      BY <1>0, <1>9, <2>4
      DEF DeleteSelected, editor, IInv, TypeOK, FormBelongsToRecord, UnknownIsAbsent
  <1>10. ASSUME NEW r \in Records, Type(r)
         PROVE  IInv'
    BY <1>0, <1>10, MarkersAssumption
    DEF Type, Did, reading, listing, IInv, TypeOK, FormBelongsToRecord, UnknownIsAbsent
  <1>11. ASSUME NEW id \in Ids, NEW c \in Records \union {Absent, Broken}, Outside(id, c)
         PROVE  IInv'
    BY <1>0, <1>11
    DEF Outside, Did, reading, listing, editor, IInv, TypeOK, FormBelongsToRecord, UnknownIsAbsent
  <1>12. CASE UNCHANGED vars
    BY <1>0, <1>12
    DEF vars, listing, editor, reading, IInv, TypeOK, FormBelongsToRecord, UnknownIsAbsent
  <1> QED
    BY <1>1, <1>2, <1>3, <1>4, <1>5, <1>6, <1>7, <1>8, <1>9, <1>10, <1>11, <1>12 DEF Next

\* Whatever the vault holds when the program begins.
LEMMA Start == Init => IInv
  <1> SUFFICES ASSUME Init PROVE IInv
    OBVIOUS
  <1>1. ids \in Seq(Ids) /\ rows \in Seq(Ids) /\ Fits(selected, rows)
    BY EmptySeq, Emptiness DEF Init, Fits
  <1> QED
    BY <1>1, BrowserAssumption
    DEF Init, IInv, TypeOK, Fits, FormBelongsToRecord, UnknownIsAbsent

LEMMA Always ==
  ASSUME FormOrder = <<"title", "body">>
  PROVE  Spec => []IInv
  <1>1. IInv /\ [Next]_vars => IInv'
    BY Step
  <1> QED
    BY <1>1, Start, PTL DEF Spec

--------------------------------------------------------------------------------
(* Theorems.                                                               *)

\* If the body is the last field of the form, as in every shipped schema, the
\* variables of the browser keep their types: no row is selected that is not
\* there, and what is saved is a record.
THEOREM TypeCorrect ==
  ASSUME FormOrder = <<"title", "body">>
  PROVE  Spec => []TypeOK
  BY Always, PTL DEF IInv

\* A form knows its record exactly as long as it is open (form_close and
\* form_build of browser.c).
THEOREM FormKnowsItsRecord ==
  ASSUME FormOrder = <<"title", "body">>
  PROVE  Spec => []FormBelongsToRecord
  BY Always, PTL DEF IInv

\* A save of a new record meets no file, and a save of an opened one goes to
\* this one (browser_save with vault_save).
THEOREM SavesGoHome ==
  ASSUME FormOrder = <<"title", "body">>
  PROVE  Spec => SaveGoesWhereItBelongs
  <1> DEFINE A == last'.op = "save" /\ disk' # disk
                  => IF opened = Absent THEN disk[last'.id] = Absent ELSE last'.id = editing
  <1>1. IInv /\ [Next]_vars => [A]_vars
    <2> SUFFICES ASSUME IInv, Next, last'.op = "save", disk' # disk PROVE A
      BY DEF vars
    <2>1. Save
      BY DEF Next, Refresh, MoveSelection, SetFilter, OpenSelected, New, Cancel,
             RefuseSave, DeleteSelected, Type, Outside, Did
    <2>2. PICK id \in Ids :
            SaveAs(id) /\ IF editing = NoId THEN id \notin known ELSE id = editing
      BY <2>1 DEF Save
    <2>3. last'.id = id
      BY <2>2 DEF SaveAs, Did
    <2> QED
      BY <2>2, <2>3 DEF IInv, FormBelongsToRecord, UnknownIsAbsent
  <1> QED
    BY <1>1, Always, PTL DEF Spec, SaveGoesWhereItBelongs

\* What the record holds after a save is what the form showed in each field.
SavedIsWhatWasTyped ==
  [][last'.op = "save" /\ form # NoForm => disk'[last'.id] = form]_vars

\* With the body as the last field, a save writes what the form shows.
LEMMA SavesWhatWasTyped ==
  ASSUME FormOrder = <<"title", "body">>
  PROVE  Spec => SavedIsWhatWasTyped
  <1> DEFINE A == last'.op = "save" /\ form # NoForm => disk'[last'.id] = form
  <1>1. IInv /\ [Next]_vars => [A]_vars
    <2> SUFFICES ASSUME IInv, Next, last'.op = "save", form # NoForm PROVE A
      BY DEF vars
    <2>1. Save
      BY DEF Next, Refresh, MoveSelection, SetFilter, OpenSelected, New, Cancel,
             RefuseSave, DeleteSelected, Type, Outside, Did
    <2>2. PICK id \in Ids : SaveAs(id)
      BY <2>1 DEF Save
    <2>3. Composed = form
      BY <2>1, ComposedIsForm DEF Save, IInv, TypeOK
    <2> QED
      BY <2>2, <2>3 DEF SaveAs, Did, IInv, TypeOK
  <1> QED
    BY <1>1, Always, PTL DEF Spec, SavedIsWhatWasTyped

\* Opening a record and saving it again keeps every field that was not
\* touched, as long as no body is longer than the form can show (text_write).
THEOREM UntouchedFieldsSurvive ==
  ASSUME FormOrder = <<"title", "body">>, Rests = {0}
  PROVE  Spec => EditingKeepsUntouchedFields
  <1> DEFINE A == last'.op = "save" /\ opened # Absent /\ disk[last'.id] = opened
                  => \A f \in DOMAIN opened :
                       form[f] = Shown(opened)[f] => disk'[last'.id][f] = opened[f]
  <1>1. IInv /\ [Next]_vars /\ [last'.op = "save" /\ form # NoForm
                                 => disk'[last'.id] = form]_vars => [A]_vars
    <2> SUFFICES ASSUME IInv, Next, last'.op = "save", opened # Absent,
                        form # NoForm => disk'[last'.id] = form
                 PROVE  \A f \in DOMAIN opened :
                          form[f] = Shown(opened)[f] => disk'[last'.id][f] = opened[f]
      BY DEF vars
    <2>1. opened \in Records /\ form # NoForm
      BY DEF IInv, TypeOK, FormBelongsToRecord
    <2>2. Shown(opened) = opened
      <3>1. opened.rest = 0
        BY <2>1 DEF Records
      <3>2. opened = [title |-> opened.title, body |-> opened.body, rest |-> opened.rest]
        BY <2>1 DEF Records
      <3> QED
        BY <3>1, <3>2 DEF Shown
    <2> QED
      BY <2>1, <2>2
  <1> QED
    BY <1>1, Always, SavesWhatWasTyped, PTL
    DEF Spec, SavedIsWhatWasTyped, EditingKeepsUntouchedFields

\* Every line of the list stands for a readable record that matches, each once
\* and in order, and all of them do if the reload could read all of them, until
\* somebody else writes in the directory or a reload reports a failure
\* (browser_reload with vault_list).
THEOREM ListingIsCurrent ==
  ASSUME FormOrder = <<"title", "body">>
  PROVE  Spec => []ListIsCurrent
  <1>1. Init => ListIsCurrent
    BY DEF Init, ListIsCurrent
  <1>2. IInv /\ ListIsCurrent /\ [Next]_vars => ListIsCurrent'
    <2> SUFFICES ASSUME IInv, ListIsCurrent, [Next]_vars, ~stale'
                 PROVE  ListIsCurrent'
      BY DEF ListIsCurrent
    <2>1. ASSUME Reload(disk'), filter' = filter
          PROVE  ListIsCurrent'
      <3>1. PICK seen \in Reading(disk') :
              /\ ids' \in ListingsOf(disk', seen) /\ rows' = ids'
              /\ whole' = (seen = Loadable(disk'))
        BY <2>1 DEF Reload
      <3>2. ids' \in ListingsOf(disk, seen)' /\ seen \in Reading(disk)'
        BY <2>1, <3>1 DEF ListingsOf, Matches, Sorted, Before, Reading, Loadable
      <3>3. seen = Loadable(disk') => ids' \in Listings(disk)'
        BY <2>1, <3>1 DEF Listings, ListingsOf, Loadable, Matches, Sorted, Before
      <3> QED
        BY <3>1, <3>2, <3>3 DEF ListIsCurrent
    <2>2. ASSUME UNCHANGED <<disk, ids, rows, filter, reading>>
          PROVE  ListIsCurrent'
      BY <2>2 DEF ListIsCurrent, reading, Listings, ListingsOf, Reading, Loadable, Matches,
                  Sorted, Before
    <2>3. CASE UNCHANGED vars
      BY <2>2, <2>3 DEF vars, reading
    <2>4. CASE Refresh \/ Save \/ DeleteSelected
      BY <2>1, <2>4 DEF Refresh, Save, SaveAs, DeleteSelected
    <2>5. CASE OpenSelected \/ New \/ Cancel \/ RefuseSave \/ \E r \in Records : Type(r)
      BY <2>2, <2>5 DEF OpenSelected, New, Cancel, RefuseSave, Type, listing
    <2>6. CASE \E i \in 1 .. Cardinality(Ids) : MoveSelection(i)
      BY <2>2, <2>6 DEF MoveSelection
    <2>7. CASE \/ \E w \in Texts : SetFilter(w)
               \/ \E id \in Ids, c \in Records \union {Absent, Broken} : Outside(id, c)
      BY <2>7 DEF SetFilter, Outside
    <2> QED
      BY <2>3, <2>4, <2>5, <2>6, <2>7 DEF Next
  <1> QED
    BY <1>1, <1>2, Always, PTL DEF Spec

\* After a save that was followed by a good reload the selection is on the
\* saved record if it is in the list, and it is there unless the filter hides it
\* or a record could not be read (browser_save).
THEOREM SavedRecordIsSelected ==
  ASSUME FormOrder = <<"title", "body">>
  PROVE  Spec => []SavedIsSelected
  <1>1. Init => SavedIsSelected
    BY DEF Init, SavedIsSelected
  <1>2. IInv /\ SavedIsSelected /\ [Next]_vars => SavedIsSelected'
    <2> SUFFICES ASSUME IInv, SavedIsSelected, [Next]_vars, last'.op = "save", ~stale',
                        last'.id \in ToSet(ids') \/ (whole' /\ Matches(disk[last.id])')
                 PROVE  SelectedId' = last'.id
      BY DEF SavedIsSelected
    <2>1. CASE UNCHANGED vars
      BY <2>1 DEF vars, SavedIsSelected, SelectedId, Matches
    <2>2. CASE Next
      <3>1. Save
        BY <2>2 DEF Next, Refresh, MoveSelection, SetFilter, OpenSelected, New, Cancel,
               RefuseSave, DeleteSelected, Type, Outside, Did
      <3>2. PICK id \in Ids : SaveAs(id)
        BY <3>1 DEF Save
      <3>3. last'.id = id /\ filter' = filter /\ Composed \in Records
        BY <3>1, <3>2, ComposedIsForm, ShownType
        DEF SaveAs, Did, Save, IInv, TypeOK, Composed
      <3>4. disk'[id] = Composed
        BY <3>2, <3>3 DEF SaveAs, IInv, TypeOK
      <3>5. PICK seen \in Reading(disk') :
              /\ ids' \in ListingsOf(disk', seen)
              /\ whole' = (seen = Loadable(disk'))
        BY <3>2 DEF SaveAs, Reload
      <3>6. ids' \in Seq(Ids) /\ DOMAIN ids' = 1 .. Len(ids')
        BY <3>5, ListingsType, LenProperties
      <3>7. \E i \in 1 .. Len(ids') : ids'[i] = id
        <4>1. CASE id \in ToSet(ids')
          BY <3>6, <4>1 DEF ToSet
        <4>2. CASE whole' /\ Matches(disk[last.id])'
          <5>1. Matches(disk'[id])
            BY <3>3, <4>2 DEF Matches
          <5>2. id \in seen
            BY <3>3, <3>4, <3>5, <4>2 DEF Loadable
          <5> QED
            BY <3>5, <5>1, <5>2, ListingsComplete
        <4> QED
          BY <3>3, <4>1, <4>2
      <3>8. selected' \in 1 .. Len(ids') /\ ids'[selected'] = id
        BY <3>2, <3>6, <3>7 DEF SaveAs, SelectAfterSave, ToSet
      <3> QED
        BY <3>3, <3>8 DEF SelectedId
    <2> QED
      BY <2>1, <2>2
  <1> QED
    BY <1>1, <1>2, Always, PTL DEF Spec

--------------------------------------------------------------------------------
(* Deletions.                                                              *)

\* Of some numbers there is a least one.
LEMMA LeastAmong ==
  ASSUME NEW S \in SUBSET Nat, S # {}
  PROVE  \E x \in S : \A y \in S : ~ (y < x)
  <1> DEFINE Less == OpToRel(<, Nat)
  <1>1. PICK x \in S : \A y \in S : <<y, x>> \notin Less
    BY NatLessThanWellFounded, WFMin
  <1>2. \A y \in S : y < x => <<y, x>> \in Less
    BY DEF OpToRel
  <1> HIDE DEF Less
  <1> QED
    BY <1>1, <1>2, Zenon

\* The order of the listing is a weak order.
LEMMA BeforeIsWeakOrder ==
  ASSUME NEW r \in Records, NEW s \in Records, NEW t \in Records
  PROVE  /\ Before(r, s) => ~ Before(s, r)
         /\ ~ Before(r, s) /\ ~ Before(s, t) => ~ Before(r, t)
  <1>1. r.title \in Nat /\ s.title \in Nat /\ t.title \in Nat
    BY BrowserAssumption DEF Records
  <1> QED
    BY <1>1 DEF Before

Gone(d, x) == [d EXCEPT ![x] = Absent]

\* s with x in it at place p.
Inserted(s, p, x) ==
  [i \in 1 .. Len(s) + 1 |-> IF i < p THEN s[i] ELSE IF i = p THEN x ELSE s[i - 1]]

\* What a deletion leaves is listed; the deleted record belongs somewhere into
\* that listing, and there it is a listing of what there was before.
LEMMA ListingWithDeleted ==
  ASSUME NEW d \in [Ids -> Records \union {Absent, Broken}],
         NEW x \in Loadable(d), Matches(d[x]), NEW s \in Listings(Gone(d, x))
  PROVE  /\ s \in Seq(Ids) /\ \A i \in 1 .. Len(s) : s[i] # x
         /\ \E p \in 1 .. Len(s) + 1 : Inserted(s, p, x) \in Listings(d)
  <1> DEFINE e == Gone(d, x)
             S == {id \in Loadable(d) : Matches(d[id])}
             T == {id \in Loadable(e) : Matches(e[id])}
             n == Len(s)
  <1>1. /\ x \in Ids /\ x \in S /\ T = S \ {x}
        /\ \A id \in T : e[id] = d[id]
    BY MarkersAssumption DEF Gone, Loadable
  <1>2. IsFiniteSet(S) /\ IsFiniteSet(T) /\ Cardinality(S) \in Nat /\ Cardinality(T) \in Nat
    BY BrowserAssumption, FS_Subset, FS_CardinalityType DEF Loadable
  <1>3. Cardinality(S) = Cardinality(T) + 1
    <2> HIDE DEF S, T
    <2> QED
      BY <1>1, <1>2, FS_RemoveElement
  <1>4. /\ s \in [1 .. Cardinality(T) -> T]
        /\ \A i, j \in 1 .. Cardinality(T) : i # j => s[i] # s[j]
    BY DEF Listings, ListingsOf, SetToSeqs
  <1>5. s \in Seq(T) /\ n = Cardinality(T)
    BY <1>2, <1>4, IsSequence
  <1>6. s \in Seq(Ids) /\ n \in Nat
    BY WholeIsListing, ListingsType, <1>2, <1>5
  <1>7. Sorted(e, s)
    BY DEF Listings, ListingsOf
  <1>8. \A i \in 1 .. n : s[i] \in S /\ s[i] # x /\ d[s[i]] \in Records /\ e[s[i]] = d[s[i]]
    BY <1>1, <1>4, <1>5 DEF Loadable
  <1>9. d[x] \in Records
    BY DEF Loadable
  <1> HIDE DEF e, S, T
  <1>10. \A i, j \in 1 .. n : i < j => ~Before(d[s[j]], d[s[i]])
    BY <1>7, <1>8 DEF Sorted
  <1> DEFINE A == {i \in 1 .. n : ~ Before(d[s[i]], d[x])} \union {n + 1}
  <1>11. PICK p \in A : \A y \in A : ~ (y < p)
    <2>1. A \in SUBSET Nat /\ A # {}
      BY <1>6
    <2> HIDE DEF A
    <2> QED
      BY <2>1, LeastAmong
  <1>12. /\ p \in 1 .. n + 1
         /\ \A i \in 1 .. n : i < p => Before(d[s[i]], d[x])
         /\ p <= n => ~ Before(d[s[p]], d[x])
    BY <1>6, <1>11
  <1> HIDE DEF A
  <1> DEFINE t == Inserted(s, p, x)
  <1>13. /\ t \in [1 .. n + 1 -> S]
         /\ \A i \in 1 .. n + 1 :
              t[i] = IF i < p THEN s[i] ELSE IF i = p THEN x ELSE s[i - 1]
    <2>1. \A i \in 1 .. n + 1 : /\ i < p => s[i] \in S
                                /\ i > p => s[i - 1] \in S
      BY <1>6, <1>8, <1>12
    <2> QED
      BY <1>1, <1>6, <1>12, <2>1 DEF Inserted
  <1>14. t \in Seq(S) /\ Len(t) = n + 1
    <2>1. n + 1 \in Nat
      BY <1>6
    <2> HIDE DEF t
    <2> QED
      BY <1>13, <2>1, IsSequence
  <1> HIDE DEF t
  <1>15. \A i, j \in 1 .. n + 1 : i < j => t[i] # t[j]
    <2> SUFFICES ASSUME NEW i \in 1 .. n + 1, NEW j \in 1 .. n + 1, i < j
                 PROVE  t[i] # t[j]
      OBVIOUS
    <2>1. CASE j < p
      BY <1>4, <1>5, <1>6, <1>12, <1>13, <2>1
    <2>2. CASE j = p
      BY <1>6, <1>8, <1>12, <1>13, <2>2
    <2>3. CASE i < p /\ p < j
      BY <1>4, <1>5, <1>6, <1>12, <1>13, <2>3
    <2>4. CASE i = p
      <3>1. t[i] = x /\ t[j] = s[j - 1] /\ j - 1 \in 1 .. n
        BY <1>6, <1>12, <1>13, <2>4
      <3> QED
        BY <1>8, <3>1
    <2>5. CASE p < i
      BY <1>4, <1>5, <1>6, <1>12, <1>13, <2>5
    <2> QED
      BY <2>4, <2>5, <1>6, <1>12, <2>1, <2>2, <2>3
  <1>16. \A i, j \in 1 .. n + 1 : i < j => ~ Before(d[t[j]], d[t[i]])
    <2> SUFFICES ASSUME NEW i \in 1 .. n + 1, NEW j \in 1 .. n + 1, i < j
                 PROVE  ~ Before(d[t[j]], d[t[i]])
      OBVIOUS
    <2>1. CASE j < p
      BY <1>6, <1>10, <1>12, <1>13, <2>1
    <2>2. CASE j = p
      <3>1. t[j] = x /\ t[i] = s[i] /\ i \in 1 .. n /\ i < p
        BY <1>6, <1>12, <1>13, <2>2
      <3> QED
        BY <1>8, <1>9, <1>12, <3>1, BeforeIsWeakOrder
    <2>3. CASE i < p /\ p < j
      <3>1. t[i] = s[i] /\ t[j] = s[j - 1] /\ i \in 1 .. n /\ j - 1 \in 1 .. n /\ i < j - 1
        BY <1>6, <1>12, <1>13, <2>3
      <3> QED
        BY <1>10, <3>1
    <2>4. CASE i = p
      <3>1. /\ t[i] = x /\ t[j] = s[j - 1] /\ j - 1 \in 1 .. n /\ p \in 1 .. n
            /\ p < j - 1 \/ p = j - 1
        BY <1>6, <1>12, <1>13, <2>4
      <3>2. ~ Before(d[s[p]], d[x])
        BY <1>6, <1>12, <3>1
      <3>3. CASE p = j - 1
        BY <3>1, <3>2, <3>3
      <3>4. CASE p < j - 1
        <4>1. ~ Before(d[s[j - 1]], d[s[p]])
          BY <1>10, <3>1, <3>4
        <4>2. d[s[j - 1]] \in Records /\ d[s[p]] \in Records
          BY <1>8, <3>1
        <4> QED
          BY <1>9, <3>1, <3>2, <4>1, <4>2, BeforeIsWeakOrder
      <3> QED
        BY <3>1, <3>3, <3>4
    <2>5. CASE p < i
      <3>1. t[i] = s[i - 1] /\ t[j] = s[j - 1] /\ i - 1 \in 1 .. n /\ j - 1 \in 1 .. n /\ i - 1 < j - 1
        BY <1>6, <1>12, <1>13, <2>5
      <3> QED
        BY <1>10, <3>1
    <2> QED
      BY <2>4, <2>5, <1>6, <1>12, <2>1, <2>2, <2>3
  <1>17. t \in Listings(d)
    <2>1. t \in [1 .. Cardinality(S) -> S]
      BY <1>3, <1>5, <1>13
    <2>2. \A i, j \in 1 .. Cardinality(S) : i # j => t[i] # t[j]
      BY <1>3, <1>5, <1>6, <1>15
    <2>3. t \in SetToSeqs(S)
      BY <2>1, <2>2 DEF SetToSeqs
    <2>4. Sorted(d, t)
      BY <1>14, <1>16 DEF Sorted
    <2> QED
      BY <2>3, <2>4 DEF Listings, ListingsOf, S
  <1> QED
    BY <1>6, <1>8, <1>12, <1>17 DEF t

\* What is in at place p is gone when that place is removed.
LEMMA RemovedAgain ==
  ASSUME NEW s \in Seq(Ids), NEW x \in Ids, NEW p \in 1 .. Len(s) + 1
  PROVE  /\ Inserted(s, p, x) \in Seq(Ids) /\ Len(Inserted(s, p, x)) = Len(s) + 1
         /\ RemoveAt(Inserted(s, p, x), p) = s
  <1> DEFINE t == Inserted(s, p, x)
             n == Len(s)
             u == SubSeq(t, 1, p - 1)
             v == SubSeq(t, p + 1, n + 1)
  <1>1. n \in Nat /\ \A i \in 1 .. n : s[i] \in Ids
    BY LenProperties, ElementOfSeq
  <1>2. /\ t \in [1 .. n + 1 -> Ids]
        /\ \A i \in 1 .. n + 1 :
             t[i] = IF i < p THEN s[i] ELSE IF i = p THEN x ELSE s[i - 1]
    <2>1. \A i \in 1 .. n + 1 : /\ i < p => s[i] \in Ids
                                /\ i > p => s[i - 1] \in Ids
      BY <1>1
    <2> QED
      BY <1>1, <2>1 DEF Inserted
  <1>3. t \in Seq(Ids) /\ Len(t) = n + 1
    <2>1. n + 1 \in Nat
      BY <1>1
    <2> HIDE DEF t
    <2> QED
      BY <1>2, <2>1, IsSequence
  <1> HIDE DEF t
  <1>4. /\ u \in Seq(Ids) /\ Len(u) = p - 1 /\ \A i \in 1 .. p - 1 : u[i] = s[i]
    <2>1. \A i \in 1 .. p - 1 : t[i] \in Ids
      BY <1>1, <1>2
    <2>2. /\ u \in Seq(Ids) /\ Len(u) = IF 1 <= p - 1 THEN p - 1 - 1 + 1 ELSE 0
          /\ \A i \in 1 .. p - 1 - 1 + 1 : u[i] = t[1 + i - 1]
      BY <1>1, <2>1, SubSeqProperties
    <2> HIDE DEF u
    <2>3. \A i \in 1 .. p - 1 : u[i] = t[i] /\ t[i] = s[i]
      BY <1>1, <1>2, <2>2
    <2>4. Len(u) = p - 1
      BY <1>1, <2>2
    <2> QED
      BY <2>2, <2>3, <2>4
  <1>5. /\ v \in Seq(Ids) /\ Len(v) = n + 1 - p
        /\ \A i \in 1 .. n + 1 - p : v[i] = s[p + i - 1]
    <2>1. \A i \in p + 1 .. n + 1 : t[i] \in Ids
      BY <1>1, <1>2
    <2>2. /\ v \in Seq(Ids) /\ Len(v) = IF p + 1 <= n + 1 THEN n + 1 - (p + 1) + 1 ELSE 0
          /\ \A i \in 1 .. n + 1 - (p + 1) + 1 : v[i] = t[p + 1 + i - 1]
      BY <1>1, <2>1, SubSeqProperties
    <2> HIDE DEF v
    <2>3. \A i \in 1 .. n + 1 - p : v[i] = t[p + i] /\ t[p + i] = s[p + i - 1]
      BY <1>1, <1>2, <2>2
    <2> QED
      BY <1>1, <2>2, <2>3
  <1> HIDE DEF u, v
  <1>6. /\ u \o v \in Seq(Ids) /\ Len(u \o v) = n
        /\ \A i \in 1 .. n : (u \o v)[i] = s[i]
    <2>1. /\ u \o v \in Seq(Ids) /\ Len(u \o v) = Len(u) + Len(v)
          /\ \A i \in 1 .. Len(u) + Len(v) :
               (u \o v)[i] = IF i <= Len(u) THEN u[i] ELSE v[i - Len(u)]
      BY <1>4, <1>5, ConcatProperties
    <2>2. Len(u) + Len(v) = n
      BY <1>1, <1>4, <1>5
    <2>3. ASSUME NEW i \in 1 .. n PROVE (u \o v)[i] = s[i]
      <3>1. CASE i <= p - 1
        BY <1>1, <1>4, <2>1, <2>2, <3>1
      <3>2. CASE i > p - 1
        <4>1. (u \o v)[i] = v[i - (p - 1)] /\ i - (p - 1) \in 1 .. n + 1 - p
          BY <1>1, <1>4, <2>1, <2>2, <3>2
        <4>2. v[i - (p - 1)] = s[p + (i - (p - 1)) - 1] /\ p + (i - (p - 1)) - 1 = i
          BY <1>1, <1>5, <4>1
        <4> QED
          BY <4>1, <4>2
      <3>3. i <= p - 1 \/ i > p - 1
        BY <1>1
      <3> QED
        BY <3>1, <3>2, <3>3, Zenon
    <2> QED
      BY <2>1, <2>2, <2>3
  <1>7. RemoveAt(t, p) = u \o v
    BY <1>3 DEF RemoveAt, u, v
  <1>8. u \o v = s
    BY <1>6, SeqEqual
  <1> QED
    BY <1>3, <1>7, <1>8 DEF t

\* There are finitely many listings of finitely many records.
LEMMA ListingsAreFinite ==
  ASSUME NEW d
  PROVE  IsFiniteSet(Listings(d))
  <1> DEFINE S == {id \in Loadable(d) : Matches(d[id])}
             D == 1 .. Cardinality(S)
             L == Listings(d)
             graph == [f \in L |-> {<<i, f[i]>> : i \in D}]
  <1>1. IsFiniteSet(S)
    BY BrowserAssumption, FS_Subset DEF Loadable
  <1>2. IsFiniteSet(SUBSET (D \X S))
    <2>1. IsFiniteSet(D)
      BY <1>1, FS_CardinalityType, FS_Interval
    <2> QED
      BY <1>1, <2>1, FS_Product, FS_SUBSET
  <1>3. L \subseteq [D -> S]
    BY DEF Listings, ListingsOf, SetToSeqs
  <1> HIDE DEF L, S, D
  <1>4. graph \in [L -> SUBSET (D \X S)]
    BY <1>3
  <1>5. ASSUME NEW f \in L, NEW g \in L, graph[f] = graph[g]
        PROVE  f = g
    <2>1. f \in [D -> S] /\ g \in [D -> S] /\ {<<i, f[i]>> : i \in D} = {<<i, g[i]>> : i \in D}
      BY <1>3, <1>5
    <2>2. \A i \in D : f[i] = g[i]
      <3> SUFFICES ASSUME NEW i \in D PROVE f[i] = g[i]
        OBVIOUS
      <3>1. <<i, f[i]>> \in {<<j, g[j]>> : j \in D}
        BY <2>1
      <3> QED
        BY <3>1
    <2> QED
      BY <2>1, <2>2
  <1> HIDE DEF graph
  <1>6. graph \in Injection(L, SUBSET (D \X S))
    BY <1>4, <1>5 DEF Injection, IsInjective
  <1> QED
    BY <1>2, <1>6, FS_Injection DEF L

\* Deleting one record after the other works down the list: the selection is on
\* the record that followed the deleted one, or on the new last one.
THEOREM SelectionMoves ==
  ASSUME FormOrder = <<"title", "body">>
  PROVE  Spec => SelectionMovesToNeighbour
  <1> DEFINE rest == RemoveAt(ids, selected)
             neighbour == IF selected <= Len(rest) THEN selected ELSE Len(rest)
             Moves == last'.op = "delete" /\ whole /\ whole' /\ Cardinality(Listings(disk)) = 1
                        => IF rest = <<>> THEN selected' = 0
                           ELSE selected' # 0 /\ ids'[selected'] = rest[neighbour]
  <1>1. IInv /\ ListIsCurrent /\ [Next]_vars => [Moves]_vars
    <2> SUFFICES ASSUME IInv, ListIsCurrent, Next, last'.op = "delete", whole, whole',
                        Cardinality(Listings(disk)) = 1
                 PROVE  IF rest = <<>> THEN selected' = 0
                        ELSE selected' # 0 /\ ids'[selected'] = rest[neighbour]
      BY DEF vars
    <2>1. DeleteSelected
      BY DEF Next, Refresh, MoveSelection, SetFilter, OpenSelected, New, Cancel, Save, SaveAs,
             RefuseSave, Type, Outside, Did
    <2> DEFINE x == ids[selected]
    <2>2. selected \in 1 .. Len(ids) /\ SelectedId = x
      BY <2>1 DEF DeleteSelected, SelectedId
    <2>3. ids \in Listings(disk) /\ disk \in [Ids -> Records \union {Absent, Broken}]
      BY DEF ListIsCurrent, IInv, TypeOK
    <2>4. x \in Loadable(disk) /\ Matches(disk[x]) /\ x \in Ids
      <3>1. Loadable(disk) \in Reading(disk) /\ ids \in ListingsOf(disk, Loadable(disk))
        BY <2>3, WholeIsListing
      <3> QED
        BY <2>2, <3>1, ListingsType DEF Loadable
    <2>5. /\ ids' \in Listings(Gone(disk, x)) /\ selected' = SelectAfterDelete
          /\ ~stale'
      <3>1. disk' = Gone(disk, x) /\ Reload(disk') /\ filter' = filter
        BY <2>1, <2>2 DEF DeleteSelected, Gone
      <3>2. ids' \in Listings(disk') /\ ~stale'
        BY <3>1 DEF Reload, Listings
      <3> QED
        BY <2>1, <3>1, <3>2 DEF DeleteSelected
    <2> HIDE DEF x
    <2>6. /\ ids' \in Seq(Ids) /\ \A i \in 1 .. Len(ids') : ids'[i] # x
          /\ \E p \in 1 .. Len(ids') + 1 : Inserted(ids', p, x) \in Listings(disk)
      BY <2>3, <2>4, <2>5, ListingWithDeleted
    <2>7. PICK p \in 1 .. Len(ids') + 1 : Inserted(ids', p, x) \in Listings(disk)
      BY <2>6
    <2>8. Inserted(ids', p, x) = ids
      <3>1. PICK only : Listings(disk) = {only}
        BY ListingsAreFinite, FS_Singleton
      <3> QED
        BY <2>3, <2>7, <3>1
    <2>9. Len(ids) = Len(ids') + 1 /\ RemoveAt(ids, p) = ids'
      BY <2>4, <2>6, <2>7, <2>8, RemovedAgain
    <2>10. selected = p
      <3>1. Len(ids') \in Nat /\ selected \in 1 .. Len(ids') + 1
        BY <2>2, <2>6, <2>9, LenProperties
      <3>2. ids[selected] = IF selected < p THEN ids'[selected]
                            ELSE IF selected = p THEN x ELSE ids'[selected - 1]
        BY <2>8, <3>1 DEF Inserted
      <3>3. ids[selected] = x
        BY DEF x
      <3>4. CASE selected < p
        BY <2>6, <2>7, <3>1, <3>2, <3>3, <3>4
      <3>5. CASE selected > p
        <4>1. selected - 1 \in 1 .. Len(ids')
          BY <2>7, <3>1, <3>5
        <4> QED
          BY <2>6, <2>7, <3>1, <3>2, <3>3, <3>5, <4>1
      <3> QED
        BY <2>7, <3>1, <3>4, <3>5
    <2>11. rest = ids'
      BY <2>9, <2>10
    <2>12. Len(ids') \in Nat /\ (ids' = <<>> <=> Len(ids') = 0)
      BY <2>6, LenProperties, EmptySeq
    <2>13. selected' = IF selected <= Len(ids') THEN selected ELSE Len(ids')
      BY <2>5 DEF SelectAfterDelete
    <2> HIDE DEF rest
    <2> QED
      BY <2>2, <2>11, <2>12, <2>13
  <1> QED
    BY <1>1, Always, ListingIsCurrent, PTL DEF Spec, SelectionMovesToNeighbour
================================================================================
