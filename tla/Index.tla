--------------------------------- MODULE Index ---------------------------------
(***************************************************************************)
(* The index of store/index_sqlite.c: three tables of an SQLite database   *)
(* that mirror the records of a collection, and the query as SQL over      *)
(* them.  Every SQL statement is a step of its own: it takes effect, or    *)
(* fails and ends the call, or the program dies before it.  Outside of a   *)
(* transaction each statement is committed by itself; index_rebuild has    *)
(* one transaction, but clears the tables before it begins.                *)
(*                                                                         *)
(* Calls are made between two events of a single thread, so no file        *)
(* changes while one runs.                                                 *)
(***************************************************************************)
EXTENDS FormStore

CONSTANTS
  Batch,       \* BATCH of index_rebuild: how many records of a collection it lists
  IdRank,      \* identifier -> its place in the order of vault_list
  TextsFor,    \* identifier -> the texts its file may come with
  EventsMax    \* bound: how many changes of files and broken calls there are

\* A directory has finitely many files, whose names have an order.
ASSUME IndexAssumption ==
  /\ IsFiniteSet(Ids) /\ Batch \in Nat
  /\ IdRank \in [Ids -> Nat]
  /\ \A a, b \in Ids : IdRank[a] = IdRank[b] => a = b

\* Files have lines.
ASSUME TextsAssumption == \A id \in Ids : TextsFor[id] \subseteq Seq(LinesOf(DOMAIN Code))

VARIABLES
  rows,        \* table records: the identifiers it has a row for
  fields,      \* table fields: identifier -> the set of its rows
  fulltext,    \* table fulltext: identifier -> the contents of its rows
  saved,       \* the tables at BEGIN, to return to; NoTx outside of a transaction
  call,        \* the running call and where it is
  answer,      \* what the last call returned: "ok", "error" or "none"
  learned,     \* ghost: what the index was last told of each record
  events       \* ghost: how many files changed and calls broke off

tables == <<rows, fields, fulltext>>
vars == <<files, rows, fields, fulltext, saved, call, answer, learned, events>>

NoTx == [open |-> FALSE]
Idle == [op |-> "none"]
Nothing == [ok |-> FALSE]        \* learned: no such record
Unsure == [unsure |-> TRUE]    \* learned: a call on it did not come to its end

--------------------------------------------------------------------------------
(* What a record makes of the tables.                                      *)

\* The items of all fields: field i, item j.
Positions(rec) == UNION {{i} \X DOMAIN rec.fields[i].values : i \in DOMAIN rec.fields}

\* The order in which index_put goes through them.
Earlier(p, q) == p[1] < q[1] \/ (p[1] = q[1] /\ p[2] < q[2])

\* The row for an item.  No key occurs twice in a record, so no row does.
RowAt(rec, p) ==
  LET e == rec.fields[p[1]]
      v == e.values[p[2]]
  IN [field |-> e.key, seq |-> p[2] - 1, value |-> v,
      sortkey |-> Fold(SortTable, v), findkey |-> Fold(SearchTable, v)]

RowsAt(rec, positions) == {RowAt(rec, p) : p \in positions}
FieldRows(rec) == RowsAt(rec, Positions(rec))

\* The values and the body, each on a line of its own.
FullText(rec) == Values(rec) \o BodyTexts(rec)

Shows(id, rec) ==
  /\ id \in rows
  /\ fields[id] = FieldRows(rec)
  /\ fulltext[id] = <<FullText(rec)>>

ShowsNothing(id) ==
  /\ id \notin rows
  /\ fields[id] = {}
  /\ fulltext[id] = <<>>

Init ==
  /\ files \in {f \in [Ids -> UNION {TextsFor[id] : id \in Ids} \union {Absent}] :
                 \A id \in Ids : f[id] \in TextsFor[id] \union {Absent}}
  /\ rows = {}
  /\ fields = [id \in Ids |-> {}]
  /\ fulltext = [id \in Ids |-> <<>>]
  /\ saved = NoTx
  /\ call = Idle
  /\ answer = "none"
  /\ learned = [id \in Ids |-> Nothing]
  /\ events = 0

--------------------------------------------------------------------------------
(* Calls.                                                                  *)

Event ==
  /\ events < EventsMax
  /\ events' = events + 1

At(step) == call.op # "none" /\ call.step = step
GoTo(step) == call' = [call EXCEPT !.step = step]

Return(result) ==
  /\ call' = Idle
  /\ answer' = result

\* index_remove(id), or index_put(id, rec), which starts with it.
BeginRemove(id) ==
  /\ call = Idle
  /\ call' = [op |-> "remove", step |-> "del_record", id |-> id, rec |-> NoRecord,
              left |-> {}, todo |-> <<>>, unread |-> {}]
  /\ answer' = "none"
  /\ learned' = [learned EXCEPT ![id] = Unsure]
  /\ UNCHANGED <<files, tables, saved, events>>

BeginPut(id) ==
  /\ call = Idle
  /\ Load(id).ok
  /\ call' = [op |-> "put", step |-> "del_record", id |-> id, rec |-> Load(id),
              left |-> {}, todo |-> <<>>, unread |-> {}]
  /\ answer' = "none"
  /\ learned' = [learned EXCEPT ![id] = Unsure]
  /\ UNCHANGED <<files, tables, saved, events>>

BeginRebuild ==
  /\ call = Idle
  /\ call' = [op |-> "rebuild", step |-> "clear_records", id |-> CHOOSE id \in Ids : TRUE,
              rec |-> NoRecord, left |-> {}, todo |-> <<>>, unread |-> {}]
  /\ answer' = "none"
  /\ learned' = [id \in Ids |-> Unsure]
  /\ UNCHANGED <<files, tables, saved, events>>

--------------------------------------------------------------------------------
(* The statements of index_remove and index_put.                           *)

DeleteRecord ==
  /\ At("del_record")
  /\ rows' = rows \ {call.id}
  /\ GoTo("del_fields")
  /\ UNCHANGED <<files, fields, fulltext, saved, answer, learned, events>>

\* Mutant: the rows of the table fields are not deleted.
KeepFields ==
  /\ At("del_fields")
  /\ GoTo("del_text")
  /\ UNCHANGED <<files, tables, saved, answer, learned, events>>

DeleteFields ==
  /\ At("del_fields")
  /\ fields' = [fields EXCEPT ![call.id] = {}]
  /\ GoTo("del_text")
  /\ UNCHANGED <<files, rows, fulltext, saved, answer, learned, events>>

\* The last statement of index_remove.
DeleteText ==
  /\ At("del_text")
  /\ fulltext' = [fulltext EXCEPT ![call.id] = <<>>]
  /\ IF call.op = "remove"
     THEN /\ Return("ok")
          /\ learned' = [learned EXCEPT ![call.id] = Nothing]
     ELSE /\ GoTo("ins_record")
          /\ UNCHANGED <<answer, learned>>
  /\ UNCHANGED <<files, rows, fields, saved, events>>

\* Where index_put goes on with these items left.
FieldStep(left) == IF left = {} THEN "ins_text" ELSE "ins_field"

InsertRecord ==
  LET left == Positions(call.rec)
  IN /\ At("ins_record")
     /\ rows' = rows \union {call.id}
     /\ call' = [call EXCEPT !.left = left, !.step = FieldStep(left)]
     /\ UNCHANGED <<files, fields, fulltext, saved, answer, learned, events>>

InsertField ==
  /\ At("ins_field")
  /\ \E p \in call.left :
       LET left == call.left \ {p}
       IN /\ \A q \in left : Earlier(p, q)
          /\ fields' = [fields EXCEPT ![call.id] = @ \union {RowAt(call.rec, p)}]
          /\ call' = [call EXCEPT !.left = left, !.step = FieldStep(left)]
  /\ UNCHANGED <<files, rows, fulltext, saved, answer, learned, events>>

\* The end of index_put; in a rebuild the next record follows.
InsertText ==
  /\ At("ins_text")
  /\ fulltext' = [fulltext EXCEPT ![call.id] = Append(@, FullText(call.rec))]
  /\ learned' = [learned EXCEPT ![call.id] = call.rec]
  /\ IF call.op = "put"
     THEN Return("ok")
     ELSE /\ call' = [call EXCEPT !.step = "next"]
          /\ UNCHANGED answer
  /\ UNCHANGED <<files, rows, fields, saved, events>>

--------------------------------------------------------------------------------
(* index_rebuild.                                                          *)

\* index_clear: three statements, each committed by itself.
ClearRecords ==
  /\ At("clear_records")
  /\ rows' = {}
  /\ GoTo("clear_fields")
  /\ UNCHANGED <<files, fields, fulltext, saved, answer, learned, events>>

ClearFields ==
  /\ At("clear_fields")
  /\ fields' = [id \in Ids |-> {}]
  /\ GoTo("clear_text")
  /\ UNCHANGED <<files, rows, fulltext, saved, answer, learned, events>>

ClearText ==
  /\ At("clear_text")
  /\ fulltext' = [id \in Ids |-> <<>>]
  /\ GoTo("begin")
  /\ learned' = [id \in Ids |-> Nothing]
  /\ UNCHANGED <<files, rows, fields, saved, answer, events>>

\* vault_list: how many records come before this one, and the first Batch of them.
Place(id) == Cardinality({o \in Stored : IdRank[o] < IdRank[id]})
Listed ==
  [n \in 1 .. Min({Batch, Cardinality(Stored)}) |-> CHOOSE id \in Stored : Place(id) = n - 1]

\* BEGIN, and the listing.  Whatever the files hold, some may not be readable when
\* their turn comes, and this is no error: none, if the directory cannot be opened,
\* which vault_list takes for a collection without records, and each for which
\* vault_load finds no memory or no file handle.  Bound: like a failure, this is one
\* of the events.
BeginTx ==
  /\ At("begin")
  /\ \E unread \in SUBSET Stored :
       /\ IF unread = {} THEN UNCHANGED events ELSE Event
       /\ call' = [call EXCEPT !.step = "next", !.todo = Listed, !.unread = unread]
  /\ saved' = [open |-> TRUE, rows |-> rows, fields |-> fields,
               fulltext |-> fulltext, learned |-> learned]
  /\ UNCHANGED <<files, tables, answer, learned>>

\* Mutant: a file that cannot be read ends the list.
StopAtBroken ==
  /\ At("next")
  /\ call.todo # <<>>
  /\ LET id == Head(call.todo)
     IN IF Load(id).ok /\ id \notin call.unread
        THEN call' = [call EXCEPT !.step = "del_record", !.id = id, !.rec = Load(id),
                                  !.todo = Tail(@)]
        ELSE call' = [call EXCEPT !.todo = <<>>]
  /\ UNCHANGED <<files, tables, saved, answer, learned, events>>

\* The next record of the list; a file that cannot be read is left out.
NextRecord ==
  /\ At("next")
  /\ call.todo # <<>>
  /\ LET id == Head(call.todo)
     IN IF Load(id).ok /\ id \notin call.unread
        THEN call' = [call EXCEPT !.step = "del_record", !.id = id, !.rec = Load(id),
                                  !.todo = Tail(@)]
        ELSE call' = [call EXCEPT !.todo = Tail(@)]
  /\ UNCHANGED <<files, tables, saved, answer, learned, events>>

Commit ==
  /\ At("next")
  /\ call.todo = <<>>
  /\ saved' = NoTx
  /\ Return("ok")
  /\ UNCHANGED <<files, tables, learned, events>>

--------------------------------------------------------------------------------
(* Failures.                                                               *)

\* What an open transaction did is undone, by ROLLBACK or by SQLite itself when
\* the database is opened again.
Undo ==
  IF saved.open
  THEN /\ rows' = saved.rows
       /\ fields' = saved.fields
       /\ fulltext' = saved.fulltext
       /\ learned' = saved.learned
       /\ saved' = NoTx
  ELSE UNCHANGED <<tables, learned, saved>>

\* A statement fails, or the database cannot be written: the call ends.
StatementFails ==
  /\ call # Idle
  /\ Event
  /\ Undo
  /\ Return("error")
  /\ UNCHANGED files

\* The program dies and is started again: index_open finds the tables there.
Crash ==
  /\ call # Idle
  /\ Event
  /\ Undo
  /\ call' = Idle
  /\ answer' = "none"
  /\ UNCHANGED files

--------------------------------------------------------------------------------
FilesChange ==
  /\ call = Idle
  /\ Event
  /\ \/ \E id \in Ids, edit \in Edits : ScriptEdits(id, edit)
     \/ \E id \in Ids : ScriptDeletes(id)
     \/ \E id \in Ids : \E text \in TextsFor[id] : FileComes(id, text)
  /\ UNCHANGED <<tables, saved, call, answer, learned>>

\* A form is saved.  Bound: as the first change, before the index has a record,
\* and with no other change or failure after it.
FormSaved ==
  /\ call = Idle
  /\ events = 0
  /\ \A id \in Ids : learned[id] = Nothing
  /\ events' = EventsMax
  /\ FormStep
  /\ UNCHANGED <<tables, saved, call, answer, learned>>

Next ==
  \/ FilesChange \/ FormSaved
  \/ \E id \in Ids : BeginRemove(id) \/ BeginPut(id)
  \/ BeginRebuild
  \/ DeleteRecord \/ DeleteFields \/ DeleteText
  \/ InsertRecord \/ InsertField \/ InsertText
  \/ ClearRecords \/ ClearFields \/ ClearText
  \/ BeginTx \/ NextRecord \/ Commit
  \/ StatementFails \/ Crash

Spec == Init /\ [][Next]_vars

--------------------------------------------------------------------------------
(* Properties.                                                             *)

\* What the index has of a record is what it was last told of it, and a record
\* it was told nothing of, or was told to forget, leaves no row in any of the
\* three tables (index_put, index_remove) - unless the last call on that record
\* broke off, which no transaction protects outside of index_rebuild.
HoldsWhatItLearned ==
  call = Idle =>
    \A id \in Ids :
      /\ learned[id] = Nothing => ShowsNothing(id)
      /\ learned[id] \notin {Nothing, Unsure} => Shows(id, learned[id])

\* A rebuild that reports success left what it could read of the files, whole,
\* and nothing else (index_rebuild): every record of the list, nothing of a broken
\* file, and nothing of one that is gone; what could not be read just then, all
\* records of a directory that cannot be opened among it, and the records beyond
\* the first Batch are missing, and the call does not say so.  One that fails within
\* its transaction leaves no trace of the records it had written - and none of those
\* that were there before the call, for these were cleared before it began.
RebuildFollowsFiles ==
  [][call # Idle /\ call.op = "rebuild" /\ call' = Idle =>
       /\ answer' = "ok" =>
            \A id \in Ids :
              IF Load(id).ok /\ Place(id) < Batch /\ id \notin call.unread
              THEN Shows(id, Load(id))
              ELSE ShowsNothing(id)
       /\ answer' # "ok" /\ saved.open =>
            \A id \in Ids : rows' = {} /\ fields'[id] = {} /\ fulltext'[id] = <<>>]_vars

\* A script that sets a field keeps the rest of the collection as it is.
ScriptsKeepOtherFields ==
  [][files' # files =>
       \A id \in {id \in Ids : files'[id] # files[id]}, edit \in Edits :
         ScriptEdits(id, edit) => KeepsOtherFields(id, edit.key)]_vars

\* A form that is saved keeps what was not touched in it, and all other records.
FormsKeepOtherFields ==
  [][files' # files =>
       \A id \in {id \in Ids : files'[id] # files[id]}, i \in DOMAIN FormFields :
         \A entry \in EntriesOf(i) : FormEdits(id, i, entry) => FormKeeps(id, i, entry)]_vars
================================================================================
