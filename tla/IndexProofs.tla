------------------------------ MODULE IndexProofs ------------------------------
(***************************************************************************)
(* The index holds what it learned, and a rebuild follows the files, for   *)
(* any collection, any texts and any order of calls, failing statements    *)
(* and crashes.  A text that is read, written and read again settles, for  *)
(* any lines and values, and scripts and forms keep what they do not set.  *)
(* Last, an index that is up to date answers as the records do.            *)
(***************************************************************************)
EXTENDS IndexQuery, FiniteSetTheorems, SequenceTheorems, NaturalsInduction,
        WellFoundedInduction, TLAPS

--------------------------------------------------------------------------------
(* The invariant.                                                          *)

\* The tables have an entry for each record.
TablesExist ==
  /\ DOMAIN fields = Ids
  /\ DOMAIN fulltext = Ids
  /\ DOMAIN learned = Ids

\* What the tables have of a record is what was learned of it.
Settled(id) ==
  /\ learned[id] = Nothing => ShowsNothing(id)
  /\ learned[id] \notin {Nothing, Unsure} => Shows(id, learned[id])

SettledBut(ids) == \A id \in Ids \ ids : Settled(id)

Clearing == {"clear_records", "clear_fields", "clear_text"}
Deleting == {"del_record", "del_fields", "del_text"}
Inserting == {"ins_record", "ins_field", "ins_text"}

\* A running call has all of its parts.
CallIsWhole ==
  call # Idle =>
    /\ call = [op |-> call.op, step |-> call.step, id |-> call.id, rec |-> call.rec,
               left |-> call.left, todo |-> call.todo, unread |-> call.unread]
    /\ \/ call.op = "put" /\ call.step \in Deleting \union Inserting
       \/ call.op = "remove" /\ call.step \in Deleting
       \/ call.op = "rebuild" /\ call.step \in Clearing \union {"begin", "next"} \union
                                               Deleting \union Inserting

\* How far the rows of the record under work have come.
RowsDeleted ==
  call.id \in Ids =>
    /\ call.step \in {"del_fields", "del_text", "ins_record"} => call.id \notin rows
    /\ call.step \in {"del_text", "ins_record"} => fields[call.id] = {}
    /\ call.step \in Inserting => fulltext[call.id] = <<>>

RowsInserted ==
  /\ call.op # "remove" /\ call.step \in Deleting \union Inserting =>
       call.rec # Nothing
  /\ call.step = "ins_field" =>
       call.left \in SUBSET Positions(call.rec) /\ call.left # {}
  /\ call.id \in Ids =>
       /\ call.step \in {"ins_field", "ins_text"} => call.id \in rows
       /\ call.step = "ins_field" =>
            fields[call.id] = RowsAt(call.rec, Positions(call.rec) \ call.left)
       /\ call.step = "ins_text" => fields[call.id] = FieldRows(call.rec)

\* What is true while index_put or index_remove run by themselves.
SingleCall ==
  /\ ~saved.open
  /\ call.id \in Ids => learned[call.id] = Unsure
  /\ SettledBut({call.id})

NothingLearned == \A id \in Ids : learned[id] = Nothing /\ ShowsNothing(id)

\* What a transaction returns to: empty tables.
SavedIsEmpty ==
  /\ saved.open
  /\ saved.rows = {}
  /\ saved.fields = [id \in Ids |-> {}]
  /\ saved.fulltext = [id \in Ids |-> <<>>]
  /\ saved.learned = [id \in Ids |-> Nothing]

\* What is true while index_rebuild runs.
Rebuild ==
  /\ call.step \in Clearing => ~saved.open /\ \A id \in Ids : learned[id] = Unsure
  /\ call.step \in {"clear_fields", "clear_text", "begin"} => rows = {}
  /\ call.step \in {"clear_text", "begin"} => fields = [id \in Ids |-> {}]
  /\ call.step = "begin" => /\ ~saved.open
                            /\ fulltext = [id \in Ids |-> <<>>]
                            /\ learned = [id \in Ids |-> Nothing]
  /\ call.step = "next" => SavedIsEmpty /\ SettledBut({})
  /\ call.step \in Deleting \union Inserting => SavedIsEmpty /\ SettledBut({call.id})

IndexInv ==
  /\ TablesExist
  /\ CallIsWhole
  /\ call = Idle => ~saved.open /\ SettledBut({})
  /\ call # Idle => RowsDeleted /\ RowsInserted
  /\ call # Idle /\ call.op \in {"put", "remove"} => SingleCall
  /\ call # Idle /\ call.op = "rebuild" => Rebuild

--------------------------------------------------------------------------------
(* Lemmas.                                                                 *)

\* Not to know of a record is not the same as to know that there is none.
LEMMA UnsureIsSomething == Unsure # Nothing
<1>1. "ok" \in DOMAIN Nothing /\ "ok" \notin DOMAIN Unsure
  BY DEF Nothing, Unsure
<1> QED
  BY <1>1

\* A record that can be read is something.
LEMMA RecordIsSomething ==
  ASSUME NEW rec, rec.ok
  PROVE  rec # Nothing
BY DEF Nothing

\* The rows of a record that the tables do not touch stay as they are.
LEMMA UntouchedStaySettled ==
  ASSUME NEW id, Settled(id),
         id \in rows' <=> id \in rows, fields'[id] = fields[id],
         fulltext'[id] = fulltext[id], learned'[id] = learned[id]
  PROVE  Settled(id)'
BY DEF Settled, ShowsNothing, Shows

\* What is not known need not be in the tables.
LEMMA UnsureIsSettled ==
  ASSUME NEW id, learned[id] = Unsure
  PROVE  Settled(id)
BY UnsureIsSomething DEF Settled

LEMMA NothingIsSettled ==
  ASSUME NEW id, learned[id] = Nothing, ShowsNothing(id)
  PROVE  Settled(id)
BY DEF Settled

--------------------------------------------------------------------------------
(* Each step keeps the invariant.                                          *)

LEMMA InitIndex == Init => IndexInv
BY DEF Init, IndexInv, TablesExist, CallIsWhole, SettledBut, Settled, ShowsNothing,
       Idle, NoTx

LEMMA IdleIsNoCall ==
  ASSUME call.op # "none"
  PROVE  call # Idle
BY DEF Idle

\* The tables, the call and what was learned stay.
LEMMA StutterKeepsIndex ==
  ASSUME IndexInv, UNCHANGED <<tables, saved, call, learned>>
  PROVE  IndexInv'
BY DEF tables, IndexInv, TablesExist, CallIsWhole, SettledBut, Settled, ShowsNothing, Shows,
       RowsDeleted, RowsInserted, SingleCall, Rebuild, SavedIsEmpty

LEMMA BeginKeepsIndex ==
  ASSUME IndexInv, NEW id \in Ids, BeginRemove(id) \/ BeginPut(id)
  PROVE  IndexInv'
<1>1. call = Idle /\ UNCHANGED <<tables, saved>> /\ learned' = [learned EXCEPT ![id] = Unsure]
  BY DEF BeginRemove, BeginPut
<1>2. PICK op, rec :
        /\ op \in {"put", "remove"}
        /\ call' = [op |-> op, step |-> "del_record", id |-> id, rec |-> rec,
                    left |-> {}, todo |-> <<>>, unread |-> {}]
        /\ op # "remove" => rec # Nothing
  BY RecordIsSomething DEF BeginRemove, BeginPut
<1>3. call' # Idle /\ call'.op = op /\ call'.step = "del_record" /\ call'.id = id
        /\ call'.rec = rec
  BY <1>2 DEF Idle
<1>4. TablesExist'
  BY <1>1 DEF IndexInv, TablesExist, tables
<1>5. CallIsWhole'
  BY <1>2 DEF CallIsWhole, Deleting
<1>6. RowsDeleted' /\ RowsInserted'
  BY <1>2, <1>3 DEF RowsDeleted, RowsInserted, Inserting
<1>7. ~saved'.open /\ learned'[id] = Unsure
  BY <1>1 DEF IndexInv, TablesExist
<1>8. ASSUME NEW other \in Ids \ {id}
      PROVE  Settled(other)'
  <2>1. Settled(other)
    BY <1>1 DEF IndexInv, SettledBut
  <2> QED
    BY <1>1, <2>1, UntouchedStaySettled DEF IndexInv, TablesExist, tables
<1>9. SingleCall'
  BY <1>3, <1>7, <1>8 DEF SingleCall, SettledBut
<1> QED
  BY <1>2, <1>3, <1>4, <1>5, <1>6, <1>9 DEF IndexInv

LEMMA BeginRebuildKeepsIndex ==
  ASSUME IndexInv, BeginRebuild
  PROVE  IndexInv'
<1>1. call = Idle /\ UNCHANGED <<tables, saved>> /\ learned' = [id \in Ids |-> Unsure]
  BY DEF BeginRebuild
<1>2. PICK id, rec :
        call' = [op |-> "rebuild", step |-> "clear_records", id |-> id, rec |-> rec,
                 left |-> {}, todo |-> <<>>, unread |-> {}]
  BY DEF BeginRebuild
<1>3. call' # Idle /\ call'.op = "rebuild" /\ call'.step = "clear_records"
  BY <1>2 DEF Idle
<1>4. TablesExist'
  BY <1>1 DEF IndexInv, TablesExist, tables
<1>5. CallIsWhole'
  BY <1>2 DEF CallIsWhole, Clearing
<1>6. RowsDeleted' /\ RowsInserted'
  BY <1>3 DEF RowsDeleted, RowsInserted, Inserting, Deleting
<1>7. Rebuild'
  BY <1>1, <1>3 DEF Rebuild, Deleting, Inserting, IndexInv
<1> QED
  BY <1>3, <1>4, <1>5, <1>6, <1>7 DEF IndexInv

\* A running call goes on with its parts, and the step it is told.
LEMMA GoToKeepsCall ==
  ASSUME CallIsWhole, NEW step, At(step), NEW next, GoTo(next)
  PROVE  /\ call # Idle /\ call' # Idle
         /\ call.step = step /\ call'.step = next
         /\ call'.op = call.op /\ call'.id = call.id /\ call'.rec = call.rec
         /\ call'.left = call.left /\ call'.todo = call.todo /\ call'.unread = call.unread
         /\ call' = [op |-> call.op, step |-> next, id |-> call.id, rec |-> call.rec,
                     left |-> call.left, todo |-> call.todo, unread |-> call.unread]
<1>1. call # Idle /\ call.step = step
  BY DEF At, Idle
<1>2. call = [op |-> call.op, step |-> call.step, id |-> call.id, rec |-> call.rec,
              left |-> call.left, todo |-> call.todo, unread |-> call.unread]
  BY <1>1 DEF CallIsWhole
<1>3. call' = [op |-> call.op, step |-> next, id |-> call.id, rec |-> call.rec,
               left |-> call.left, todo |-> call.todo, unread |-> call.unread]
  BY <1>2 DEF GoTo
<1>4. call.op # "none"
  BY DEF At
<1> QED
  BY <1>1, <1>3, <1>4 DEF Idle

\* The statements of one record leave all others as they are.
LEMMA OthersStaySettled ==
  ASSUME TablesExist, SettledBut({call.id}), call'.id = call.id,
         \A other \in Ids \ {call.id} :
           /\ other \in rows' <=> other \in rows
           /\ fields'[other] = fields[other]
           /\ fulltext'[other] = fulltext[other]
           /\ learned'[other] = learned[other]
  PROVE  SettledBut({call.id})'
<1>1. ASSUME NEW other \in Ids \ {call.id}
      PROVE  Settled(other)'
  BY UntouchedStaySettled DEF SettledBut
<1> QED
  BY <1>1 DEF SettledBut

\* The statements that delete, but for the last one.
LEMMA DeletionKeepsIndex ==
  ASSUME IndexInv, DeleteRecord \/ DeleteFields
  PROVE  IndexInv'
<1>1. PICK step \in {"del_record", "del_fields"}, next \in {"del_fields", "del_text"} :
        /\ At(step) /\ GoTo(next)
        /\ step = "del_record" <=> next = "del_fields"
  BY DEF DeleteRecord, DeleteFields
<1>2. CallIsWhole /\ TablesExist
  BY DEF IndexInv
<1>3. /\ call # Idle /\ call' # Idle
      /\ call.step = step /\ call'.step = next
      /\ call'.op = call.op /\ call'.id = call.id /\ call'.rec = call.rec
      /\ call' = [op |-> call.op, step |-> next, id |-> call.id, rec |-> call.rec,
                  left |-> call.left, todo |-> call.todo, unread |-> call.unread]
  BY <1>1, <1>2, GoToKeepsCall
<1>4. TablesExist'
  BY <1>2 DEF DeleteRecord, DeleteFields, TablesExist
<1>5. CallIsWhole'
  BY <1>2, <1>3 DEF CallIsWhole, Deleting, Clearing, Inserting
<1>6. RowsDeleted'
  <2>1. CASE DeleteRecord
    BY <1>1, <1>3, <2>1 DEF DeleteRecord, RowsDeleted, Inserting, At
  <2>2. CASE DeleteFields
    BY <1>1, <1>2, <1>3, <2>2
    DEF DeleteFields, RowsDeleted, IndexInv, TablesExist, Inserting, At
  <2> QED
    BY <2>1, <2>2
<1>7. RowsInserted'
  BY <1>3 DEF RowsInserted, IndexInv, Deleting, Inserting
<1>8. ASSUME SettledBut({call.id})
      PROVE  SettledBut({call.id})'
  BY <1>2, <1>3, <1>8, OthersStaySettled DEF DeleteRecord, DeleteFields, TablesExist
<1>9. call.op \in {"put", "remove"} => SingleCall'
  BY <1>3, <1>8 DEF DeleteRecord, DeleteFields, SingleCall, IndexInv
<1>10. call.op = "rebuild" => Rebuild'
  BY <1>3, <1>8
  DEF DeleteRecord, DeleteFields, Rebuild, SavedIsEmpty, IndexInv, Deleting, Inserting, Clearing
<1> QED
  BY <1>3, <1>4, <1>5, <1>6, <1>7, <1>9, <1>10 DEF IndexInv

\* The end of a call, with everything settled.
LEMMA ReturnKeepsIndex ==
  ASSUME TablesExist', SettledBut({})', ~saved'.open, call' = Idle
  PROVE  IndexInv'
BY DEF IndexInv, CallIsWhole

\* The last statement that deletes.
LEMMA DeleteTextKeepsIndex ==
  ASSUME IndexInv, DeleteText
  PROVE  IndexInv'
<1>1. CallIsWhole /\ TablesExist /\ At("del_text") /\ call # Idle
  BY DEF IndexInv, DeleteText, At, Idle
<1>2. TablesExist'
  BY <1>1 DEF DeleteText, TablesExist
<1>3. call.id \in Ids => call.id \notin rows' /\ fields'[call.id] = {} /\ fulltext'[call.id] = <<>>
  BY <1>1 DEF DeleteText, At, IndexInv, RowsDeleted, TablesExist
<1>4. ASSUME SettledBut({call.id}), NEW other \in Ids \ {call.id}
      PROVE  Settled(other)'
  <2>1. /\ other \in rows' <=> other \in rows
        /\ fields'[other] = fields[other]
        /\ fulltext'[other] = fulltext[other]
        /\ learned'[other] = learned[other]
    BY <1>1 DEF DeleteText, TablesExist
  <2> QED
    BY <1>4, <2>1, UntouchedStaySettled DEF SettledBut
<1>5. CASE call.op = "remove"
  <2>1. call' = Idle /\ ~saved'.open /\ SettledBut({call.id})
    BY <1>1, <1>5 DEF DeleteText, Return, IndexInv, SingleCall
  <2>2. ASSUME NEW id \in Ids, id = call.id
        PROVE  Settled(id)'
    <3>1. learned'[id] = Nothing
      BY <1>1, <1>5, <2>2 DEF DeleteText, TablesExist
    <3> QED
      BY <1>3, <2>2, <3>1 DEF Settled, ShowsNothing
  <2>3. SettledBut({})'
    BY <1>4, <2>1, <2>2 DEF SettledBut
  <2> QED
    BY <1>2, <2>1, <2>3, ReturnKeepsIndex
<1>6. CASE call.op # "remove"
  <2>1. GoTo("ins_record") /\ UNCHANGED <<saved, learned>>
    BY <1>6 DEF DeleteText
  <2>2. /\ call' # Idle
        /\ call.step = "del_text" /\ call'.step = "ins_record"
        /\ call'.op = call.op /\ call'.id = call.id /\ call'.rec = call.rec
        /\ call' = [op |-> call.op, step |-> "ins_record", id |-> call.id, rec |-> call.rec,
                    left |-> call.left, todo |-> call.todo, unread |-> call.unread]
    BY <1>1, <2>1, GoToKeepsCall
  <2>3. CallIsWhole'
    BY <1>1, <1>6, <2>2 DEF CallIsWhole, Deleting, Clearing, Inserting
  <2>4. RowsDeleted' /\ RowsInserted'
    BY <1>1, <1>3, <1>6, <2>2 DEF RowsDeleted, RowsInserted, IndexInv, Deleting, Inserting
  <2>5. SettledBut({call.id}) => SettledBut({call.id})'
    BY <1>4, <2>2 DEF SettledBut
  <2>6. call.op \in {"put", "remove"} => SingleCall'
    BY <1>1, <2>1, <2>2, <2>5 DEF SingleCall, IndexInv
  <2>7. call.op = "rebuild" => Rebuild'
    BY <1>1, <2>1, <2>2, <2>5
    DEF Rebuild, SavedIsEmpty, IndexInv, Deleting, Inserting, Clearing
  <2> QED
    BY <2>4, <2>6, <2>7, <1>2, <2>2, <2>3 DEF IndexInv
<1> QED
  BY <1>5, <1>6

\* The statements that insert, but for the last one.
LEMMA InsertRecordKeepsIndex ==
  ASSUME IndexInv, InsertRecord
  PROVE  IndexInv'
<1> DEFINE left == Positions(call.rec)
           next == FieldStep(left)
<1>1. CallIsWhole /\ TablesExist /\ call # Idle /\ call.step = "ins_record"
  BY DEF IndexInv, InsertRecord, At, Idle
<1>2. call' = [op |-> call.op, step |-> next, id |-> call.id, rec |-> call.rec,
               left |-> left, todo |-> call.todo, unread |-> call.unread]
  BY <1>1 DEF CallIsWhole, InsertRecord
<1>3. next \in {"ins_field", "ins_text"} /\ (next = "ins_field" <=> left # {})
  BY DEF FieldStep
<1> HIDE DEF left, next
<1>4. call'.step = next /\ call'.op = call.op /\ call'.id = call.id /\ call'.rec = call.rec
        /\ call'.left = left /\ call' # Idle
  <2>1. call.op # "none"
    BY <1>1 DEF InsertRecord, At
  <2> QED
    BY <1>2, <2>1 DEF Idle
<1>5. TablesExist'
  BY <1>1 DEF InsertRecord, TablesExist
<1>6. CallIsWhole'
  BY <1>1, <1>2, <1>3 DEF CallIsWhole, Deleting, Clearing, Inserting
<1>7. RowsDeleted'
  BY <1>1, <1>3, <1>4 DEF InsertRecord, RowsDeleted, IndexInv, Inserting
<1>8. RowsInserted'
  <2>1. call.op # "remove" => call.rec # Nothing
    BY <1>1 DEF IndexInv, RowsInserted, Inserting
  <2>2. next = "ins_field" => left \in SUBSET Positions(call.rec) /\ left # {}
    BY <1>3 DEF left
  <2>3. call.id \in Ids => fields[call.id] = {} /\ fields' = fields /\ call.id \in rows'
    BY <1>1 DEF IndexInv, RowsDeleted, InsertRecord
  <2>4. RowsAt(call.rec, Positions(call.rec) \ left) = {}
    BY DEF RowsAt, left
  <2>5. next = "ins_text" => FieldRows(call.rec) = {}
    BY <1>3 DEF FieldRows, RowsAt, left
  <2> QED
    BY <2>4, <2>5, <1>3, <1>4, <2>1, <2>2, <2>3 DEF RowsInserted
<1>9. ASSUME SettledBut({call.id})
      PROVE  SettledBut({call.id})'
  BY <1>1, <1>4, <1>9, OthersStaySettled DEF InsertRecord
<1>10. call.op \in {"put", "remove"} => SingleCall'
  BY <1>1, <1>4, <1>9 DEF InsertRecord, SingleCall, IndexInv
<1>11. call.op = "rebuild" => Rebuild'
  BY <1>1, <1>3, <1>4, <1>9
  DEF InsertRecord, Rebuild, SavedIsEmpty, IndexInv, Deleting, Inserting, Clearing
<1> QED
  BY <1>4, <1>5, <1>6, <1>7, <1>8, <1>10, <1>11 DEF IndexInv

LEMMA InsertFieldKeepsIndex ==
  ASSUME IndexInv, InsertField
  PROVE  IndexInv'
<1>1. CallIsWhole /\ TablesExist /\ call # Idle /\ call.step = "ins_field"
  BY DEF IndexInv, InsertField, At, Idle
<1>2. PICK p \in call.left :
        /\ fields' = [fields EXCEPT ![call.id] = @ \union {RowAt(call.rec, p)}]
        /\ call' = [call EXCEPT !.left = call.left \ {p}, !.step = FieldStep(call.left \ {p})]
  BY DEF InsertField
<1> DEFINE left == call.left \ {p}
           next == FieldStep(left)
<1>3. call' = [op |-> call.op, step |-> next, id |-> call.id, rec |-> call.rec,
               left |-> left, todo |-> call.todo, unread |-> call.unread]
  BY <1>1, <1>2 DEF CallIsWhole
<1>4. next \in {"ins_field", "ins_text"} /\ (next = "ins_field" <=> left # {})
  BY DEF FieldStep
<1>5. call.left \in SUBSET Positions(call.rec)
  BY <1>1 DEF IndexInv, RowsInserted
<1>6. /\ left \in SUBSET Positions(call.rec)
      /\ RowsAt(call.rec, Positions(call.rec) \ left) =
           RowsAt(call.rec, Positions(call.rec) \ call.left) \union {RowAt(call.rec, p)}
      /\ left = {} => RowsAt(call.rec, Positions(call.rec) \ left) = FieldRows(call.rec)
  BY <1>5 DEF RowsAt, FieldRows
<1> HIDE DEF left, next
<1>7. call'.step = next /\ call'.op = call.op /\ call'.id = call.id /\ call'.rec = call.rec
        /\ call'.left = left /\ call' # Idle
  <2>1. call.op # "none"
    BY <1>1 DEF InsertField, At
  <2> QED
    BY <1>3, <2>1 DEF Idle
<1>8. TablesExist'
  BY <1>1, <1>2 DEF InsertField, TablesExist
<1>9. CallIsWhole'
  BY <1>1, <1>3, <1>4 DEF CallIsWhole, Deleting, Clearing, Inserting
<1>10. RowsDeleted'
  BY <1>1, <1>4, <1>7 DEF InsertField, RowsDeleted, IndexInv, Inserting
<1>11. RowsInserted'
  <2>1. call.op # "remove" => call.rec # Nothing
    BY <1>1 DEF IndexInv, RowsInserted, Inserting
  <2>2. call.id \in Ids =>
          /\ call.id \in rows'
          /\ fields'[call.id] = RowsAt(call.rec, Positions(call.rec) \ left)
    BY <1>1, <1>2, <1>6 DEF IndexInv, RowsInserted, InsertField, TablesExist
  <2> QED
    BY <1>4, <1>6, <1>7, <2>1, <2>2 DEF RowsInserted
<1>12. ASSUME SettledBut({call.id})
       PROVE  SettledBut({call.id})'
  BY <1>1, <1>2, <1>7, <1>12, OthersStaySettled DEF InsertField, TablesExist
<1>13. call.op \in {"put", "remove"} => SingleCall'
  BY <1>1, <1>7, <1>12 DEF InsertField, SingleCall, IndexInv
<1>14. call.op = "rebuild" => Rebuild'
  BY <1>1, <1>4, <1>7, <1>12
  DEF InsertField, Rebuild, SavedIsEmpty, IndexInv, Deleting, Inserting, Clearing
<1> QED
  BY <1>7, <1>8, <1>9, <1>10, <1>11, <1>13, <1>14 DEF IndexInv

\* The last statement of index_put.
LEMMA InsertTextKeepsIndex ==
  ASSUME IndexInv, InsertText
  PROVE  IndexInv'
<1>1. CallIsWhole /\ TablesExist /\ call # Idle /\ call.step = "ins_text"
  BY DEF IndexInv, InsertText, At, Idle
<1>2. TablesExist'
  BY <1>1 DEF InsertText, TablesExist
<1>3. ASSUME NEW id \in Ids, id = call.id
      PROVE  Settled(id)'
  <2>1. id \in rows /\ fields[id] = FieldRows(call.rec) /\ fulltext[id] = <<>>
    BY <1>1, <1>3 DEF IndexInv, RowsInserted, RowsDeleted, Inserting
  <2>2. fulltext'[id] = <<FullText(call.rec)>> /\ learned'[id] = call.rec
    BY <1>1, <1>3, <2>1 DEF InsertText, TablesExist
  <2>3. call.op # "remove" /\ call.rec # Nothing
    BY <1>1 DEF IndexInv, CallIsWhole, RowsInserted, Inserting, Deleting
  <2>4. UNCHANGED <<rows, fields>>
    BY DEF InsertText
  <2> QED
    BY <2>4, <2>1, <2>2, <2>3 DEF Settled, Shows
<1>4. ASSUME SettledBut({call.id}), NEW other \in Ids \ {call.id}
      PROVE  Settled(other)'
  <2>1. /\ other \in rows' <=> other \in rows
        /\ fields'[other] = fields[other]
        /\ fulltext'[other] = fulltext[other]
        /\ learned'[other] = learned[other]
    BY <1>1 DEF InsertText, TablesExist
  <2> QED
    BY <1>4, <2>1, UntouchedStaySettled DEF SettledBut
<1>5. SettledBut({call.id}) => SettledBut({})'
  BY <1>3, <1>4 DEF SettledBut
<1>6. call.op \in {"put", "rebuild"}
  BY <1>1 DEF CallIsWhole, Deleting, Inserting
<1>7. CASE call.op = "put"
  <2>1. call' = Idle /\ ~saved'.open /\ SettledBut({})'
    BY <1>1, <1>5, <1>7 DEF InsertText, Return, IndexInv, SingleCall
  <2> QED
    BY <1>2, <2>1, ReturnKeepsIndex
<1>8. CASE call.op = "rebuild"
  <2>1. call' = [call EXCEPT !.step = "next"] /\ UNCHANGED saved
    BY <1>8 DEF InsertText
  <2>2. /\ call' # Idle /\ call'.step = "next" /\ call'.op = call.op
        /\ call' = [op |-> call.op, step |-> "next", id |-> call.id, rec |-> call.rec,
                    left |-> call.left, todo |-> call.todo, unread |-> call.unread]
    BY <1>1, <2>1, GoToKeepsCall DEF InsertText, GoTo
  <2>3. CallIsWhole'
    BY <1>8, <2>2 DEF CallIsWhole
  <2>4. RowsDeleted' /\ RowsInserted'
    BY <2>2 DEF RowsDeleted, RowsInserted, Deleting, Inserting
  <2>5. Rebuild'
    <3>1. SavedIsEmpty /\ SettledBut({call.id})
      BY <1>1, <1>8 DEF IndexInv, Rebuild, Inserting
    <3>2. SavedIsEmpty' /\ SettledBut({})'
      BY <1>5, <2>1, <3>1 DEF SavedIsEmpty
    <3> QED
      BY <2>2, <3>2 DEF Rebuild, Clearing, Deleting, Inserting
  <2> QED
    BY <2>4, <2>5, <1>2, <1>8, <2>2, <2>3 DEF IndexInv
<1> QED
  BY <1>6, <1>7, <1>8

--------------------------------------------------------------------------------
(* The steps of index_rebuild.                                             *)

\* The three statements of index_clear.
LEMMA ClearKeepsIndex ==
  ASSUME IndexInv, ClearRecords \/ ClearFields \/ ClearText
  PROVE  IndexInv'
<1>1. PICK step \in Clearing, next \in {"clear_fields", "clear_text", "begin"} :
        /\ At(step) /\ GoTo(next)
        /\ \/ step = "clear_records" /\ next = "clear_fields" /\ ClearRecords
           \/ step = "clear_fields" /\ next = "clear_text" /\ ClearFields
           \/ step = "clear_text" /\ next = "begin" /\ ClearText
  BY DEF ClearRecords, ClearFields, ClearText, Clearing
<1>2. CallIsWhole /\ TablesExist
  BY DEF IndexInv
<1>3. /\ call # Idle /\ call' # Idle
      /\ call.step = step /\ call'.step = next
      /\ call'.op = call.op /\ call'.id = call.id /\ call'.rec = call.rec
      /\ call' = [op |-> call.op, step |-> next, id |-> call.id, rec |-> call.rec,
                  left |-> call.left, todo |-> call.todo, unread |-> call.unread]
  BY <1>1, <1>2, GoToKeepsCall
<1>4. call.op = "rebuild"
  BY <1>1, <1>2, <1>3 DEF CallIsWhole, Clearing, Deleting, Inserting
<1>5. TablesExist'
  BY <1>2 DEF ClearRecords, ClearFields, ClearText, TablesExist
<1>6. CallIsWhole'
  BY <1>3, <1>4 DEF CallIsWhole, Clearing
<1>7. RowsDeleted' /\ RowsInserted'
  BY <1>3 DEF RowsDeleted, RowsInserted, Deleting, Inserting
<1>8. Rebuild /\ ~saved.open /\ \A id \in Ids : learned[id] = Unsure
  BY <1>1, <1>3, <1>4 DEF IndexInv, Rebuild
<1>9. Rebuild'
  <2>1. CASE step = "clear_records" /\ next = "clear_fields" /\ ClearRecords
    BY <1>3, <1>8, <2>1 DEF ClearRecords, Rebuild, Clearing, Deleting, Inserting
  <2>2. CASE step = "clear_fields" /\ next = "clear_text" /\ ClearFields
    BY <1>3, <1>8, <2>2 DEF ClearFields, Rebuild, Clearing, Deleting, Inserting
  <2>3. CASE step = "clear_text" /\ next = "begin" /\ ClearText
    BY <1>3, <1>8, <2>3 DEF ClearText, Rebuild, Clearing, Deleting, Inserting
  <2> QED
    BY <1>1, <2>1, <2>2, <2>3
<1> QED
  BY <1>3, <1>4, <1>5, <1>6, <1>7, <1>9 DEF IndexInv

LEMMA BeginTxKeepsIndex ==
  ASSUME IndexInv, BeginTx
  PROVE  IndexInv'
<1>1. CallIsWhole /\ TablesExist /\ call # Idle /\ call.step = "begin"
  BY DEF IndexInv, BeginTx, At, Idle
<1>2. call.op = "rebuild"
  BY <1>1 DEF CallIsWhole, Deleting, Inserting
<1>3. PICK listed, unread :
        call' = [call EXCEPT !.step = "next", !.todo = listed, !.unread = unread]
  BY DEF BeginTx
<1>4. call' = [op |-> call.op, step |-> "next", id |-> call.id, rec |-> call.rec,
               left |-> call.left, todo |-> listed, unread |-> unread]
  BY <1>1, <1>3 DEF CallIsWhole
<1>5. call'.op = "rebuild" /\ call'.step = "next" /\ call' # Idle
  BY <1>2, <1>4 DEF Idle
<1>6. TablesExist'
  BY <1>1 DEF BeginTx, TablesExist, tables
<1>7. CallIsWhole'
  BY <1>2, <1>4 DEF CallIsWhole
<1>8. RowsDeleted' /\ RowsInserted'
  BY <1>5 DEF RowsDeleted, RowsInserted, Deleting, Inserting
<1>9. /\ rows = {} /\ fields = [id \in Ids |-> {}] /\ fulltext = [id \in Ids |-> <<>>]
      /\ learned = [id \in Ids |-> Nothing]
  BY <1>1, <1>2 DEF IndexInv, Rebuild
<1>10. SavedIsEmpty'
  BY <1>9 DEF BeginTx, SavedIsEmpty
<1>11. UNCHANGED <<rows, fields, fulltext, learned>>
  BY DEF BeginTx, tables
<1>12. SettledBut({})'
  BY <1>9, <1>11, UnsureIsSomething DEF SettledBut, Settled, ShowsNothing
<1>13. Rebuild'
  BY <1>5, <1>10, <1>12 DEF Rebuild, Clearing, Deleting, Inserting
<1> QED
  BY <1>5, <1>6, <1>7, <1>8, <1>13 DEF IndexInv

LEMMA NextRecordKeepsIndex ==
  ASSUME IndexInv, NextRecord
  PROVE  IndexInv'
<1>1. CallIsWhole /\ TablesExist /\ call # Idle /\ call.step = "next"
  BY DEF IndexInv, NextRecord, At, Idle
<1>2. call.op = "rebuild"
  BY <1>1 DEF CallIsWhole, Deleting, Inserting
<1>3. UNCHANGED <<rows, fields, fulltext, learned, saved>>
  BY DEF NextRecord, tables
<1>4. TablesExist'
  BY <1>1, <1>3 DEF TablesExist
<1>5. SavedIsEmpty /\ SettledBut({})
  BY <1>1, <1>2 DEF IndexInv, Rebuild
<1>6. SavedIsEmpty' /\ SettledBut({})'
  BY <1>3, <1>5 DEF SavedIsEmpty, SettledBut, Settled, ShowsNothing, Shows
<1> DEFINE id == Head(call.todo)
<1>7. CASE Load(id).ok /\ id \notin call.unread
  <2>1. call' = [call EXCEPT !.step = "del_record", !.id = id, !.rec = Load(id),
                             !.todo = Tail(call.todo)]
    BY <1>7 DEF NextRecord
  <2>2. call' = [op |-> call.op, step |-> "del_record", id |-> id, rec |-> Load(id),
                 left |-> call.left, todo |-> Tail(call.todo), unread |-> call.unread]
    BY <1>1, <2>1 DEF CallIsWhole
  <2>3. Load(id) # Nothing
    BY <1>7, RecordIsSomething
  <2> HIDE DEF id
  <2>4. call'.op = "rebuild" /\ call'.step = "del_record" /\ call' # Idle
          /\ call'.rec # Nothing
    BY <1>2, <2>2, <2>3 DEF Idle
  <2>5. CallIsWhole'
    BY <1>2, <2>2 DEF CallIsWhole, Deleting
  <2>6. RowsDeleted' /\ RowsInserted'
    BY <2>4 DEF RowsDeleted, RowsInserted, Inserting
  <2>7. SettledBut({call.id})'
    BY <1>6 DEF SettledBut
  <2>8. Rebuild'
    BY <1>6, <2>4, <2>7 DEF Rebuild, Clearing, Deleting, Inserting
  <2> QED
    BY <1>4, <2>4, <2>5, <2>6, <2>8 DEF IndexInv
<1>8. CASE ~(Load(id).ok /\ id \notin call.unread)
  <2>1. call' = [call EXCEPT !.todo = Tail(call.todo)]
    BY <1>8 DEF NextRecord
  <2>2. call' = [op |-> call.op, step |-> call.step, id |-> call.id, rec |-> call.rec,
                 left |-> call.left, todo |-> Tail(call.todo), unread |-> call.unread]
    BY <1>1, <2>1 DEF CallIsWhole
  <2>3. call'.op = "rebuild" /\ call'.step = "next" /\ call' # Idle
    BY <1>1, <1>2, <2>2 DEF Idle
  <2>4. CallIsWhole'
    BY <1>1, <1>2, <2>2 DEF CallIsWhole
  <2>5. RowsDeleted' /\ RowsInserted'
    BY <2>3 DEF RowsDeleted, RowsInserted, Deleting, Inserting
  <2>6. Rebuild'
    BY <1>6, <2>3 DEF Rebuild, Clearing, Deleting, Inserting
  <2> QED
    BY <1>4, <2>3, <2>4, <2>5, <2>6 DEF IndexInv
<1> QED
  BY <1>7, <1>8

LEMMA CommitKeepsIndex ==
  ASSUME IndexInv, Commit
  PROVE  IndexInv'
<1>1. CallIsWhole /\ TablesExist /\ call # Idle /\ call.step = "next"
  BY DEF IndexInv, Commit, At, Idle
<1>2. call.op = "rebuild"
  BY <1>1 DEF CallIsWhole, Deleting, Inserting
<1>3. SettledBut({})
  BY <1>1, <1>2 DEF IndexInv, Rebuild
<1>4. UNCHANGED <<rows, fields, fulltext, learned>> /\ saved' = NoTx /\ call' = Idle
  BY DEF Commit, Return, tables
<1>5. TablesExist' /\ SettledBut({})'
  BY <1>1, <1>3, <1>4 DEF TablesExist, SettledBut, Settled, ShowsNothing, Shows
<1> QED
  BY <1>4, <1>5, ReturnKeepsIndex DEF NoTx

--------------------------------------------------------------------------------
(* Failures.                                                               *)

\* A call that breaks off leaves what was learned before its transaction, or,
\* without one, uncertainty about the records under work.
LEMMA BreakKeepsIndex ==
  ASSUME IndexInv, call # Idle, Undo, call' = Idle
  PROVE  IndexInv'
<1>1. CASE saved.open
  <2>1. SavedIsEmpty
    BY <1>1
    DEF IndexInv, CallIsWhole, SingleCall, Rebuild, Clearing, Deleting, Inserting
  <2>2. /\ rows' = {} /\ fields' = [id \in Ids |-> {}] /\ fulltext' = [id \in Ids |-> <<>>]
        /\ learned' = [id \in Ids |-> Nothing] /\ saved' = NoTx
    BY <1>1, <2>1 DEF Undo, SavedIsEmpty
  <2>3. TablesExist'
    BY <2>2 DEF TablesExist
  <2>4. SettledBut({})'
    BY <2>2, UnsureIsSomething DEF SettledBut, Settled, ShowsNothing
  <2> QED
    BY <2>2, <2>3, <2>4, ReturnKeepsIndex DEF NoTx
<1>2. CASE ~saved.open
  <2>1. UNCHANGED <<rows, fields, fulltext, learned, saved>>
    BY <1>2 DEF Undo, tables
  <2>2. SettledBut({})
    <3>1. CASE call.op \in {"put", "remove"}
      BY <3>1, UnsureIsSettled DEF IndexInv, SingleCall, SettledBut
    <3>2. CASE call.op = "rebuild" /\ call.step \in Clearing
      BY <3>2, UnsureIsSettled DEF IndexInv, Rebuild, SettledBut
    <3>3. CASE call.op = "rebuild" /\ call.step = "begin"
      <4>1. /\ rows = {} /\ fields = [id \in Ids |-> {}] /\ fulltext = [id \in Ids |-> <<>>]
            /\ learned = [id \in Ids |-> Nothing]
        BY <3>3 DEF IndexInv, Rebuild
      <4> QED
        BY <4>1, UnsureIsSomething DEF SettledBut, Settled, ShowsNothing
    <3>4. CASE call.op = "rebuild" /\ call.step \notin Clearing \union {"begin"}
      BY <1>2, <3>4 DEF IndexInv, CallIsWhole, Rebuild, SavedIsEmpty
    <3> QED
      BY <3>1, <3>2, <3>3, <3>4 DEF IndexInv, CallIsWhole
  <2>3. TablesExist' /\ SettledBut({})'
    BY <2>1, <2>2 DEF IndexInv, TablesExist, SettledBut, Settled, ShowsNothing, Shows
  <2> QED
    BY <1>2, <2>1, <2>3, ReturnKeepsIndex
<1> QED
  BY <1>1, <1>2

--------------------------------------------------------------------------------
(* The theorem.                                                            *)

LEMMA NextKeepsIndex == IndexInv /\ [Next]_vars => IndexInv'
<1> SUFFICES ASSUME IndexInv, [Next]_vars
             PROVE  IndexInv'
  OBVIOUS
<1>1. CASE FilesChange \/ FormSaved \/ UNCHANGED vars
  BY <1>1, StutterKeepsIndex DEF FilesChange, FormSaved, vars, tables
<1>2. CASE \E id \in Ids : BeginRemove(id) \/ BeginPut(id)
  BY <1>2, BeginKeepsIndex
<1>3. CASE BeginRebuild
  BY <1>3, BeginRebuildKeepsIndex
<1>4. CASE DeleteRecord \/ DeleteFields
  BY <1>4, DeletionKeepsIndex
<1>5. CASE DeleteText
  BY <1>5, DeleteTextKeepsIndex
<1>6. CASE InsertRecord
  BY <1>6, InsertRecordKeepsIndex
<1>7. CASE InsertField
  BY <1>7, InsertFieldKeepsIndex
<1>8. CASE InsertText
  BY <1>8, InsertTextKeepsIndex
<1>9. CASE ClearRecords \/ ClearFields \/ ClearText
  BY <1>9, ClearKeepsIndex
<1>10. CASE BeginTx
  BY <1>10, BeginTxKeepsIndex
<1>11. CASE NextRecord
  BY <1>11, NextRecordKeepsIndex
<1>12. CASE Commit
  BY <1>12, CommitKeepsIndex
<1>13. CASE StatementFails \/ Crash
  BY <1>13, BreakKeepsIndex DEF StatementFails, Crash, Return
<1> QED
  BY <1>1, <1>2, <1>3, <1>4, <1>5, <1>6, <1>7, <1>8, <1>9, <1>10, <1>11, <1>12, <1>13 DEF Next

\* Between two calls the index has of every record what it was last told of it,
\* and nothing of a record it was told to forget, whichever statements failed
\* and wherever the program died (index_put, index_remove, index_rebuild) -
\* unless the last call on that record broke off outside of a transaction.
THEOREM IndexHolds == Spec => []HoldsWhatItLearned
<1>1. IndexInv => HoldsWhatItLearned
  BY DEF IndexInv, HoldsWhatItLearned, SettledBut, Settled
<1> QED
  BY <1>1, InitIndex, NextKeepsIndex, PTL DEF Spec

--------------------------------------------------------------------------------
(* The listing of a rebuild.                                               *)

\* The files that are listed before another one.
Prior(id) == {o \in Stored : IdRank[o] < IdRank[id]}

\* A directory is finite, and so are the files before one of them.
LEMMA StoredIsFinite ==
  /\ IsFiniteSet(Stored) /\ Cardinality(Stored) \in Nat
  /\ \A id : IsFiniteSet(Prior(id)) /\ Cardinality(Prior(id)) \in Nat
<1>1. Stored \in SUBSET Ids /\ IsFiniteSet(Ids)
  BY IndexAssumption DEF Stored
<1>2. IsFiniteSet(Stored)
  BY <1>1, FS_Subset
<1>3. ASSUME NEW id
      PROVE  IsFiniteSet(Prior(id)) /\ Cardinality(Prior(id)) \in Nat
  <2>1. Prior(id) \in SUBSET Stored
    BY DEF Prior
  <2>2. IsFiniteSet(Prior(id))
    BY <1>2, <2>1, FS_Subset
  <2> QED
    BY <2>2, FS_CardinalityType
<1> QED
  BY <1>2, <1>3, FS_CardinalityType

\* A place is the number of files before it.
LEMMA PlaceIsSize ==
  ASSUME NEW id
  PROVE  Place(id) = Cardinality(Prior(id))
BY DEF Place, Prior

\* A greater set has a greater place.
LEMMA PlacesGrow ==
  ASSUME NEW a \in Stored, NEW b \in Stored, IdRank[a] < IdRank[b]
  PROVE  Place(a) < Place(b)
<1>1. /\ IdRank[a] \in Nat /\ IdRank[b] \in Nat
      /\ \A o \in Stored : IdRank[o] \in Nat
  BY IndexAssumption DEF Stored
<1>2. Prior(a) \in SUBSET Prior(b) /\ a \in Prior(b) /\ a \notin Prior(a)
  BY <1>1 DEF Prior
<1>3. IsFiniteSet(Prior(b)) /\ Cardinality(Prior(a)) \in Nat /\ Cardinality(Prior(b)) \in Nat
  BY StoredIsFinite
<1>4. Cardinality(Prior(a)) <= Cardinality(Prior(b)) /\ Cardinality(Prior(a)) # Cardinality(Prior(b))
  BY <1>2, <1>3, FS_Subset
<1> QED
  BY <1>3, <1>4, PlaceIsSize

\* No two files have the same place.
LEMMA PlacesAreOwn ==
  ASSUME NEW a \in Stored, NEW b \in Stored, Place(a) = Place(b)
  PROVE  a = b
<1>1. /\ IdRank[a] \in Nat /\ IdRank[b] \in Nat
      /\ IdRank[a] = IdRank[b] => a = b
  BY IndexAssumption DEF Stored
<1>2. Place(a) \in Nat /\ Place(b) \in Nat
  BY StoredIsFinite, PlaceIsSize
<1>3. CASE IdRank[a] < IdRank[b]
  BY <1>2, <1>3, PlacesGrow
<1>4. CASE IdRank[b] < IdRank[a]
  BY <1>2, <1>4, PlacesGrow
<1> QED
  BY <1>1, <1>3, <1>4

\* The places are below the number of files,
LEMMA PlacesFit ==
  ASSUME NEW id \in Stored
  PROVE  Place(id) \in 0 .. Cardinality(Stored) - 1
<1>1. Prior(id) \in SUBSET Stored /\ id \notin Prior(id)
  BY IndexAssumption DEF Prior, Stored
<1>2. IsFiniteSet(Stored) /\ Cardinality(Prior(id)) \in Nat /\ Cardinality(Stored) \in Nat
  BY StoredIsFinite
<1>3. Cardinality(Prior(id)) <= Cardinality(Stored) /\ Cardinality(Prior(id)) # Cardinality(Stored)
  BY <1>1, <1>2, FS_Subset
<1> QED
  BY <1>2, <1>3, PlaceIsSize

\* and each of them is taken.
LEMMA PlacesAreTaken ==
  ASSUME NEW k \in 0 .. Cardinality(Stored) - 1
  PROVE  \E id \in Stored : Place(id) = k
<1> DEFINE n == Cardinality(Stored)
           T == 0 .. n - 1
           f == [id \in Stored |-> Place(id)]
<1>1. n \in Nat /\ IsFiniteSet(Stored)
  BY StoredIsFinite
<1>2. IsFiniteSet(T) /\ Cardinality(T) = n
  BY <1>1, FS_Interval
<1>3. f \in [Stored -> T]
  BY PlacesFit
<1>4. \A a, b \in Stored : f[a] = f[b] => a = b
  BY PlacesAreOwn
<1> HIDE DEF f, T, n
<1>5. f \in Injection(Stored, T)
  BY <1>3, <1>4 DEF Injection, IsInjective
<1>6. f \in Surjection(Stored, T)
  BY <1>2, <1>5, FS_Injection DEF n
<1>7. k \in T
  BY DEF T, n
<1>8. PICK id \in Stored : f[id] = k
  BY <1>6, <1>7 DEF Surjection
<1> QED
  BY <1>8 DEF f

\* How many records a rebuild lists.
Size == Min({Batch, Cardinality(Stored)})

\* As many as there are, but not more than a batch.
LEMMA SizeFits ==
  /\ Size \in Nat /\ Size <= Batch /\ Size <= Cardinality(Stored)
  /\ Size = Batch \/ Size = Cardinality(Stored)
<1>1. Batch \in Nat /\ Cardinality(Stored) \in Nat
  BY IndexAssumption, StoredIsFinite
<1> DEFINE c == Cardinality(Stored)
<1> HIDE DEF c
<1>2. c \in Nat
  BY <1>1 DEF c
<1>3. \E x \in {Batch, c} : \A y \in {Batch, c} : x =< y
  BY <1>1, <1>2
<1>4. Min({Batch, c}) \in {Batch, c} /\ \A y \in {Batch, c} : Min({Batch, c}) =< y
  BY <1>3 DEF Min
<1> QED
  BY <1>1, <1>2, <1>4 DEF Size, c

\* The listing has the files of the first places, in their order.
LEMMA ListedInOrder ==
  /\ Listed \in Seq(Stored) /\ Len(Listed) = Size
  /\ \A i \in 1 .. Size : Place(Listed[i]) = i - 1
<1>1. Size \in Nat /\ Size <= Cardinality(Stored) /\ Cardinality(Stored) \in Nat
  BY SizeFits, StoredIsFinite
<1>2. ASSUME NEW i \in 1 .. Size
      PROVE  Listed[i] \in Stored /\ Place(Listed[i]) = i - 1
  <2>1. i - 1 \in 0 .. Cardinality(Stored) - 1
    BY <1>1
  <2>2. \E id \in Stored : Place(id) = i - 1
    BY <2>1, PlacesAreTaken
  <2>3. Listed[i] = CHOOSE id \in Stored : Place(id) = i - 1
    BY DEF Listed, Size
  <2> QED
    BY <2>2, <2>3
<1>3. Listed \in [1 .. Size -> Stored]
  <2>1. Listed = [i \in 1 .. Size |-> Listed[i]]
    BY DEF Listed, Size
  <2> QED
    BY <1>2, <2>1
<1>4. Listed \in Seq(Stored)
  BY <1>1, <1>3, SeqDef
<1>5. Len(Listed) = Size
  <2>1. DOMAIN Listed = 1 .. Size /\ DOMAIN Listed = 1 .. Len(Listed) /\ Len(Listed) \in Nat
    BY <1>3, <1>4, LenProperties
  <2> QED
    BY <1>1, <2>1
<1> QED
  BY <1>2, <1>4, <1>5

\* The places and the records of the files, which stay while a call runs.
Places == [id \in Stored |-> Place(id)]
Loads == [id \in Ids |-> Load(id)]

\* How many of the list were taken off it, and the record in between.
Done == Size - Len(call.todo)
UnderWork == IF call.step = "next" THEN {} ELSE {call.id}

\* What has been learned once the first n of the listing are done.
Learned(n, id) ==
  learned[id] = IF /\ id \in Stored /\ Loads[id].ok /\ Places[id] < n
                   /\ id \notin call.unread
                THEN Loads[id] ELSE Nothing

\* Where a rebuild is while it has a list.
Listing == {"next"} \union Deleting \union Inserting

\* The rest of the list stands behind the records done,
RestIsListed ==
  /\ call.todo \in Seq(Stored) /\ Len(call.todo) <= Size
  /\ \A i \in 1 .. Len(call.todo) : Places[call.todo[i]] = Done + i - 1

\* the record under work is the last of those,
RecordIsListed ==
  call.step # "next" =>
    /\ call.id \in Stored /\ Places[call.id] = Done - 1
    /\ call.rec = Loads[call.id] /\ call.rec.ok /\ call.id \notin call.unread

\* and what was learned is what the records done so far have.
RebuildFollows ==
  call # Idle /\ call.op = "rebuild" /\ call.step \in Listing =>
    /\ RestIsListed /\ RecordIsListed
    /\ \A id \in Ids \ UnderWork : Learned(Done, id)

\* All of this follows from the files alone.
LEMMA FilesKeep ==
  ASSUME UNCHANGED files
  PROVE  Stored' = Stored /\ Size' = Size /\ Places' = Places /\ Loads' = Loads
BY DEF Stored, Size, Places, Loads, Load, Place

\* The call, its record and its list stay while one record is written.
SameList ==
  /\ call' # Idle /\ call'.op = call.op /\ call'.id = call.id /\ call'.rec = call.rec
  /\ call'.todo = call.todo /\ call'.unread = call.unread

\* The statements of one record, but for the last one.
LEMMA WorkGoesOn ==
  ASSUME IndexInv, call # Idle, call.op = "rebuild",
         DeleteRecord \/ DeleteFields \/ DeleteText \/ InsertRecord \/ InsertField
  PROVE  /\ SameList /\ UNCHANGED <<learned, files>>
         /\ call.step \in Deleting \union Inserting
         /\ call'.step \in Deleting \union Inserting
<1>1. CallIsWhole
  BY DEF IndexInv
<1>2. CASE DeleteRecord \/ DeleteFields \/ DeleteText
  <2>1. PICK step \in Deleting, next \in {"del_fields", "del_text", "ins_record"} :
          At(step) /\ GoTo(next)
    BY <1>2 DEF DeleteRecord, DeleteFields, DeleteText, Deleting
  <2>2. UNCHANGED <<learned, files>>
    BY <1>2 DEF DeleteRecord, DeleteFields, DeleteText
  <2>3. /\ call.step = step /\ call'.step = next /\ call' # Idle
        /\ call'.op = call.op /\ call'.id = call.id /\ call'.rec = call.rec
        /\ call'.todo = call.todo /\ call'.unread = call.unread
    BY <1>1, <2>1, GoToKeepsCall
  <2> QED
    BY <2>1, <2>2, <2>3 DEF SameList, Deleting, Inserting
<1>3. CASE InsertRecord \/ InsertField
  <2>1. PICK left : call' = [call EXCEPT !.left = left, !.step = FieldStep(left)]
    BY <1>3 DEF InsertRecord, InsertField
  <2>2. call.step \in Inserting /\ UNCHANGED <<learned, files>>
    BY <1>3 DEF InsertRecord, InsertField, At, Inserting
  <2>3. call' = [op |-> call.op, step |-> FieldStep(left), id |-> call.id, rec |-> call.rec,
                 left |-> left, todo |-> call.todo, unread |-> call.unread]
    BY <1>1, <2>1 DEF CallIsWhole
  <2>4. FieldStep(left) \in Inserting
    BY DEF FieldStep, Inserting
  <2> QED
    BY <2>2, <2>3, <2>4 DEF SameList, Idle
<1> QED
  BY <1>2, <1>3

\* They leave the list and what was learned alone.
LEMMA WorkKeepsList ==
  ASSUME IndexInv, RebuildFollows, call # Idle, call.op = "rebuild",
         DeleteRecord \/ DeleteFields \/ DeleteText \/ InsertRecord \/ InsertField
  PROVE  RebuildFollows'
<1>1. /\ SameList /\ UNCHANGED <<learned, files>>
      /\ call.step \in Deleting \union Inserting
      /\ call'.step \in Deleting \union Inserting
  BY WorkGoesOn
<1>2. Stored' = Stored /\ Size' = Size /\ Places' = Places /\ Loads' = Loads
  BY <1>1, FilesKeep
<1>3. /\ RestIsListed /\ RecordIsListed
      /\ \A id \in Ids \ UnderWork : Learned(Done, id)
  BY <1>1 DEF RebuildFollows, Listing
<1>4. Done' = Done
  BY <1>1, <1>2 DEF Done, SameList
<1>5. call.step # "next" /\ call'.step # "next"
  BY <1>1 DEF Deleting, Inserting
<1>6. UnderWork' = UnderWork
  BY <1>1, <1>5 DEF UnderWork, SameList
<1>7. RestIsListed'
  BY <1>1, <1>2, <1>3, <1>4 DEF SameList, RestIsListed
<1>8. RecordIsListed'
  BY <1>1, <1>2, <1>3, <1>4, <1>5 DEF SameList, RecordIsListed
<1>9. \A id \in Ids \ UnderWork' : Learned(Done, id)'
  BY <1>1, <1>2, <1>3, <1>4, <1>6 DEF SameList, Learned
<1> QED
  BY <1>1, <1>7, <1>8, <1>9 DEF RebuildFollows

\* The last statement of a record: one more is done.
LEMMA WrittenIsLearned ==
  ASSUME IndexInv, RebuildFollows, call # Idle, call.op = "rebuild", InsertText
  PROVE  RebuildFollows'
<1>1. /\ CallIsWhole /\ TablesExist /\ call.step = "ins_text"
      /\ learned' = [learned EXCEPT ![call.id] = call.rec] /\ UNCHANGED files
      /\ call' = [call EXCEPT !.step = "next"]
  BY DEF IndexInv, InsertText, At
<1>2. call' = [op |-> call.op, step |-> "next", id |-> call.id, rec |-> call.rec,
               left |-> call.left, todo |-> call.todo, unread |-> call.unread]
  BY <1>1 DEF CallIsWhole
<1>3. Stored' = Stored /\ Size' = Size /\ Places' = Places /\ Loads' = Loads
  BY <1>1, FilesKeep
<1>4. call.step # "next" /\ call.step \in Listing
  BY <1>1 DEF Listing, Inserting
<1>5. /\ RestIsListed /\ RecordIsListed
      /\ \A id \in Ids \ UnderWork : Learned(Done, id)
  BY <1>4 DEF RebuildFollows
<1>6. call'.todo = call.todo /\ call'.step = "next" /\ call'.unread = call.unread
  BY <1>2
<1>7. Done' = Done /\ UnderWork' = {} /\ UnderWork = {call.id}
  BY <1>3, <1>4, <1>6 DEF Done, UnderWork
<1>8. RestIsListed' /\ RecordIsListed'
  BY <1>3, <1>5, <1>6, <1>7 DEF RestIsListed, RecordIsListed
<1>9. ASSUME NEW id \in Ids
      PROVE  Learned(Done, id)'
  <2>1. DOMAIN learned = Ids
    BY <1>1 DEF TablesExist
  <2>2. CASE id = call.id
    <3>1. /\ id \in Stored /\ Places[id] = Done - 1 /\ call.rec = Loads[id] /\ Loads[id].ok
          /\ id \notin call.unread
      BY <1>4, <1>5, <2>2 DEF RecordIsListed
    <3>2. Places[id] \in Int /\ Done \in Int
      <4>1. Places[id] = Place(id) /\ Place(id) \in 0 .. Cardinality(Stored) - 1
        BY <3>1, PlacesFit DEF Places
      <4>2. Size \in Nat /\ Len(call.todo) \in Nat
        BY <1>5, SizeFits DEF RestIsListed
      <4> QED
        BY <4>1, <4>2, StoredIsFinite DEF Done
    <3>3. Places[id] < Done
      BY <3>1, <3>2
    <3>4. learned'[id] = Loads[id]
      BY <1>1, <2>1, <2>2, <3>1
    <3> QED
      BY <1>3, <1>6, <1>7, <3>1, <3>3, <3>4 DEF Learned
  <2>3. CASE id # call.id
    <3>1. Learned(Done, id) /\ learned'[id] = learned[id]
      BY <1>1, <1>5, <1>7, <2>1, <2>3
    <3> QED
      BY <1>3, <1>6, <1>7, <3>1 DEF Learned
  <2> QED
    BY <2>2, <2>3
<1> QED
  BY <1>7, <1>8, <1>9 DEF RebuildFollows

\* BEGIN: nothing is done.
LEMMA ListBegins ==
  ASSUME IndexInv, BeginTx
  PROVE  RebuildFollows'
<1>1. /\ CallIsWhole /\ call # Idle /\ call.step = "begin"
      /\ UNCHANGED <<files, learned>>
      /\ \E unread : call' = [call EXCEPT !.step = "next", !.todo = Listed, !.unread = unread]
  <2>1. CallIsWhole /\ call # Idle /\ call.step = "begin" /\ UNCHANGED <<files, learned>>
    BY DEF IndexInv, BeginTx, At, Idle
  <2> DEFINE Told(list, unread) ==
        call' = [call EXCEPT !.step = "next", !.todo = list, !.unread = unread]
  <2>2. PICK unread \in SUBSET Stored : Told(Listed, unread)
    BY DEF BeginTx
  <2> QED
    BY <2>1, <2>2
<1>2. call.op = "rebuild"
  BY <1>1 DEF CallIsWhole, Deleting, Inserting
<1>3. learned = [id \in Ids |-> Nothing]
  BY <1>1, <1>2 DEF IndexInv, Rebuild
<1>4. call'.todo = Listed /\ call'.step = "next"
  BY <1>1 DEF CallIsWhole
<1>5. Stored' = Stored /\ Size' = Size /\ Places' = Places /\ Loads' = Loads
  BY <1>1, FilesKeep
<1>6. /\ Listed \in Seq(Stored) /\ Len(Listed) = Size /\ Size \in Nat
      /\ \A i \in 1 .. Size : Place(Listed[i]) = i - 1
  BY ListedInOrder, SizeFits
<1>7. Done' = 0 /\ UnderWork' = {}
  BY <1>4, <1>5, <1>6 DEF Done, UnderWork
<1>8. RestIsListed'
  <2>1. ASSUME NEW i \in 1 .. Size
        PROVE  Places[Listed[i]] = 0 + i - 1
    BY <1>6, <2>1 DEF Places
  <2> QED
    BY <1>4, <1>5, <1>6, <1>7, <2>1 DEF RestIsListed
<1>9. RecordIsListed'
  BY <1>4 DEF RecordIsListed
<1>10. ASSUME NEW id \in Ids
       PROVE  Learned(Done, id)'
  <2>1. id \in Stored => ~(Places[id] < 0)
    <3>1. ASSUME id \in Stored PROVE Places[id] = Place(id) /\ Place(id) \in Nat
      BY <3>1, PlacesFit, StoredIsFinite DEF Places
    <3> QED
      BY <3>1
  <2>2. learned'[id] = Nothing
    BY <1>1, <1>3
  <2> QED
    BY <1>5, <1>7, <2>1, <2>2 DEF Learned
<1> QED
  BY <1>7, <1>8, <1>9, <1>10 DEF RebuildFollows

\* The next record of the list.
LEMMA ListGoesOn ==
  ASSUME IndexInv, RebuildFollows, NextRecord
  PROVE  RebuildFollows'
<1> DEFINE id == Head(call.todo)
<1>1. /\ CallIsWhole /\ call # Idle /\ call.step = "next" /\ call.todo # <<>>
      /\ UNCHANGED <<files, learned>>
      /\ Load(id).ok /\ id \notin call.unread =>
           call' = [call EXCEPT !.step = "del_record", !.id = id, !.rec = Load(id),
                                !.todo = Tail(call.todo)]
      /\ ~(Load(id).ok /\ id \notin call.unread) =>
           call' = [call EXCEPT !.todo = Tail(call.todo)]
  BY DEF IndexInv, NextRecord, At, Idle
<1>2. call.op = "rebuild" /\ call.step \in Listing
  BY <1>1 DEF CallIsWhole, Deleting, Inserting, Listing
<1>3. /\ RestIsListed
      /\ \A other \in Ids \ UnderWork : Learned(Done, other)
      /\ UnderWork = {}
  BY <1>1, <1>2 DEF RebuildFollows, UnderWork
<1>4. /\ call.todo \in Seq(Stored) /\ id = call.todo[1] /\ id \in Stored /\ id \in Ids
      /\ Tail(call.todo) \in Seq(Stored) /\ Len(Tail(call.todo)) = Len(call.todo) - 1
      /\ Len(call.todo) \in Nat /\ Len(call.todo) >= 1
      /\ \A i \in 1 .. Len(call.todo) - 1 : Tail(call.todo)[i] = call.todo[i + 1]
  <2>1. call.todo \in Seq(Stored) /\ Stored \subseteq Ids
    BY <1>3 DEF RestIsListed, Stored
  <2> QED
    BY <1>1, <2>1
<1>5. Places[id] = Done
  <2>1. Done \in Int
    BY <1>4, SizeFits DEF Done
  <2> QED
    BY <1>3, <1>4, <2>1 DEF RestIsListed
<1>6. Loads[id] = Load(id)
  BY <1>4 DEF Loads
<1> HIDE DEF id
<1>7. call'.todo = Tail(call.todo) /\ call'.unread = call.unread
  BY <1>1 DEF CallIsWhole
<1>8. Stored' = Stored /\ Size' = Size /\ Places' = Places /\ Loads' = Loads
  BY <1>1, FilesKeep
<1>9. Done \in Int /\ Done' = Done + 1
  <2> DEFINE left == Len(call.todo)
             rest == Len(Tail(call.todo))
  <2>1. Done = Size - left /\ Done' = Size - rest
    BY <1>7, <1>8 DEF Done
  <2>2. left \in Nat /\ rest = left - 1
    BY <1>4
  <2>3. Size \in Nat
    BY SizeFits
  <2> HIDE DEF left, rest
  <2> QED
    BY <2>1, <2>2, <2>3
<1>10. RestIsListed'
  <2>1. Len(Tail(call.todo)) <= Size
    BY <1>3, <1>4, SizeFits DEF RestIsListed
  <2>2. ASSUME NEW i \in 1 .. Len(Tail(call.todo))
        PROVE  Places[Tail(call.todo)[i]] = (Done + 1) + i - 1
    <3>1. i + 1 \in 1 .. Len(call.todo) /\ Tail(call.todo)[i] = call.todo[i + 1]
      BY <1>4
    <3>2. Places[call.todo[i + 1]] = Done + (i + 1) - 1
      BY <1>3, <3>1 DEF RestIsListed
    <3> QED
      BY <1>9, <3>1, <3>2
  <2> QED
    BY <1>4, <1>7, <1>8, <1>9, <2>1, <2>2 DEF RestIsListed
<1>11. ASSUME NEW other \in Ids, Loads[id].ok /\ id \notin call.unread => other # id
       PROVE  Learned(Done, other)'
  <2>1. Learned(Done, other) /\ learned' = learned
    BY <1>1, <1>3
  <2>2. other \in Stored /\ Loads[other].ok /\ other \notin call.unread =>
          (Places[other] < Done + 1 <=> Places[other] < Done)
    <3> SUFFICES ASSUME other \in Stored, Loads[other].ok, other \notin call.unread
                 PROVE  Places[other] < Done + 1 <=> Places[other] < Done
      OBVIOUS
    <3>1. other # id
      BY <1>11
    <3>2. Places[other] = Place(other) /\ Places[id] = Place(id) /\ Place(other) \in Nat
      BY <1>4, PlacesFit, StoredIsFinite DEF Places
    <3>3. Places[other] # Done
      BY <1>4, <1>5, <3>1, <3>2, PlacesAreOwn
    <3> QED
      BY <1>9, <3>2, <3>3
  <2> QED
    BY <1>7, <1>8, <1>9, <2>1, <2>2 DEF Learned
<1>12. CASE Load(id).ok /\ id \notin call.unread
  <2>1. call'.step = "del_record" /\ call'.id = id /\ call'.rec = Load(id)
    BY <1>1, <1>12 DEF CallIsWhole
  <2>2. UnderWork' = {id}
    BY <2>1 DEF UnderWork
  <2>3. RecordIsListed'
    BY <1>4, <1>5, <1>6, <1>7, <1>8, <1>9, <1>12, <2>1 DEF RecordIsListed
  <2> QED
    BY <1>10, <1>11, <2>2, <2>3 DEF RebuildFollows
<1>13. CASE ~(Load(id).ok /\ id \notin call.unread)
  <2>1. call'.step = "next"
    BY <1>1, <1>13 DEF CallIsWhole
  <2>2. UnderWork' = {} /\ RecordIsListed'
    BY <2>1 DEF UnderWork, RecordIsListed
  <2> QED
    BY <1>6, <1>10, <1>11, <1>13, <2>2 DEF RebuildFollows
<1> QED
  BY <1>12, <1>13

\* So every step keeps to the list.
LEMMA NextKeepsRebuild == IndexInv /\ RebuildFollows /\ [Next]_vars => RebuildFollows'
<1> SUFFICES ASSUME IndexInv, RebuildFollows, [Next]_vars
             PROVE  RebuildFollows'
  OBVIOUS
<1>1. CASE FilesChange \/ FormSaved \/ (\E id \in Ids : BeginRemove(id) \/ BeginPut(id)) \/ BeginRebuild
  <2>1. call' = Idle \/ call'.op \in {"remove", "put"} \/ call'.step = "clear_records"
    BY <1>1 DEF FilesChange, FormSaved, BeginRemove, BeginPut, BeginRebuild
  <2> QED
    BY <2>1 DEF RebuildFollows, Listing, Deleting, Inserting
<1>2. CASE UNCHANGED vars
  <2>1. UNCHANGED <<files, call, learned>>
    BY <1>2 DEF vars
  <2>2. Stored' = Stored /\ Size' = Size /\ Places' = Places /\ Loads' = Loads
    BY <2>1, FilesKeep
  <2>3. Done' = Done /\ UnderWork' = UnderWork
    BY <2>1, <2>2 DEF Done, UnderWork
  <2>4. RestIsListed => RestIsListed'
    BY <2>1, <2>2, <2>3 DEF RestIsListed
  <2>5. RecordIsListed => RecordIsListed'
    BY <2>1, <2>2, <2>3 DEF RecordIsListed
  <2>6. \A id : Learned(Done, id) => Learned(Done, id)'
    BY <2>1, <2>2, <2>3 DEF Learned
  <2> QED
    BY <2>1, <2>3, <2>4, <2>5, <2>6 DEF RebuildFollows
<1>3. CASE DeleteRecord \/ DeleteFields \/ DeleteText \/ InsertRecord \/ InsertField \/ InsertText
  <2>1. CallIsWhole /\ call # Idle
    <3>1. \E step : At(step)
      BY <1>3 DEF DeleteRecord, DeleteFields, DeleteText, InsertRecord, InsertField, InsertText
    <3> QED
      BY <3>1 DEF IndexInv, At, Idle
  <2>2. CASE call.op = "rebuild"
    BY <1>3, <2>1, <2>2, WorkKeepsList, WrittenIsLearned
  <2>3. CASE call.op # "rebuild"
    <3>1. \/ call' = Idle
          \/ \E step : call' = [call EXCEPT !.step = step]
          \/ \E left, step : call' = [call EXCEPT !.left = left, !.step = step]
      BY <1>3 DEF DeleteRecord, DeleteFields, DeleteText, InsertRecord, InsertField, InsertText,
                  GoTo, Return
    <3>2. call' = Idle \/ call'.op = call.op
      BY <2>1, <3>1 DEF CallIsWhole
    <3> QED
      BY <2>3, <3>2 DEF RebuildFollows
  <2> QED
    BY <2>2, <2>3
<1>4. CASE ClearRecords \/ ClearFields \/ ClearText
  <2>1. CallIsWhole
    BY DEF IndexInv
  <2>2. call'.step \in {"clear_fields", "clear_text", "begin"}
    BY <1>4, <2>1, GoToKeepsCall DEF ClearRecords, ClearFields, ClearText
  <2> QED
    BY <2>2 DEF RebuildFollows, Listing, Deleting, Inserting
<1>5. CASE BeginTx
  BY <1>5, ListBegins
<1>6. CASE NextRecord
  BY <1>6, ListGoesOn
<1>7. CASE Commit \/ StatementFails \/ Crash
  BY <1>7 DEF Commit, StatementFails, Crash, Return, RebuildFollows
<1> QED
  BY <1>1, <1>2, <1>3, <1>4, <1>5, <1>6, <1>7 DEF Next

\* A record that was read is neither nothing nor uncertain.
LEMMA LoadedIsKnown ==
  ASSUME NEW id, Load(id).ok
  PROVE  Load(id) \notin {Nothing, Unsure}
<1>1. "fields" \in DOMAIN Load(id)
  BY DEF Load, Parse, NoRecord
<1>2. "fields" \notin DOMAIN Unsure /\ "fields" \notin DOMAIN Nothing
  BY DEF Unsure, Nothing
<1> QED
  BY <1>1, <1>2

\* Only three steps end a rebuild.
LEMMA RebuildEnds ==
  ASSUME IndexInv, [Next]_vars, call # Idle, call.op = "rebuild", call' = Idle
  PROVE  Commit \/ StatementFails \/ Crash
<1>1. CallIsWhole
  BY DEF IndexInv
<1>2. ~(UNCHANGED vars) /\ ~FilesChange /\ ~FormSaved /\ ~BeginRebuild
      /\ ~(\E id \in Ids : BeginRemove(id) \/ BeginPut(id))
  BY DEF vars, FilesChange, FormSaved, BeginRemove, BeginPut, BeginRebuild
<1>3. ~(DeleteRecord \/ DeleteFields \/ DeleteText \/ InsertRecord \/ InsertField)
  BY WorkGoesOn DEF SameList
<1>4. ASSUME NEW step, NEW next, At(step), GoTo(next)
      PROVE  FALSE
  BY <1>1, <1>4, GoToKeepsCall
<1>5. ~(ClearRecords \/ ClearFields \/ ClearText)
  BY <1>4 DEF ClearRecords, ClearFields, ClearText
<1>6. ~InsertText
  <2>1. InsertText => At("ins_text") /\ GoTo("next")
    BY DEF InsertText, GoTo
  <2> QED
    BY <1>4, <2>1
<1>7. ~BeginTx /\ ~NextRecord
  <2>1. \A listed, unread :
          call' # [call EXCEPT !.step = "next", !.todo = listed, !.unread = unread]
    BY <1>1 DEF CallIsWhole, Idle
  <2>2. \A listed : call' # [call EXCEPT !.todo = listed]
    BY <1>1 DEF CallIsWhole, Idle
  <2>3. \A id, rec, listed : call' # [call EXCEPT !.step = "del_record", !.id = id, !.rec = rec,
                                                   !.todo = listed]
    BY <1>1 DEF CallIsWhole, Idle
  <2> QED
    BY <2>1, <2>2, <2>3 DEF BeginTx, NextRecord
<1> QED
  BY <1>2, <1>3, <1>5, <1>6, <1>7 DEF Next

\* The list is done: the tables have what the files of the list have.
LEMMA CommitFollowsFiles ==
  ASSUME IndexInv, RebuildFollows, call # Idle, call.op = "rebuild", Commit,
         NEW id \in Ids
  PROVE  IF Load(id).ok /\ Place(id) < Batch /\ id \notin call.unread
         THEN Shows(id, Load(id)) ELSE ShowsNothing(id)
<1>1. call.step = "next" /\ call.todo = <<>>
  BY DEF Commit, At
<1>2. RestIsListed /\ Learned(Done, id)
  BY <1>1 DEF RebuildFollows, Listing, UnderWork
<1>3. Settled(id)
  BY <1>1 DEF IndexInv, Rebuild, SettledBut
<1>4. Done = Size
  BY <1>1, SizeFits DEF Done
<1>5. Loads[id] = Load(id)
  BY DEF Loads
<1>6. Load(id).ok => id \in Stored
  BY DEF Load, NoRecord, Stored
<1>7. id \in Stored => Places[id] = Place(id) /\ (Place(id) < Size <=> Place(id) < Batch)
  <2> SUFFICES ASSUME id \in Stored
               PROVE  Places[id] = Place(id) /\ (Place(id) < Size <=> Place(id) < Batch)
    OBVIOUS
  <2>1. Place(id) \in 0 .. Cardinality(Stored) - 1 /\ Cardinality(Stored) \in Nat
    BY PlacesFit, StoredIsFinite
  <2> QED
    BY <2>1, SizeFits, IndexAssumption DEF Places
<1>8. CASE Load(id).ok /\ Place(id) < Batch /\ id \notin call.unread
  <2>1. learned[id] = Load(id)
    BY <1>2, <1>4, <1>5, <1>6, <1>7, <1>8 DEF Learned
  <2> QED
    BY <1>3, <1>8, <2>1, LoadedIsKnown DEF Settled
<1>9. CASE ~(Load(id).ok /\ Place(id) < Batch /\ id \notin call.unread)
  <2>1. learned[id] = Nothing
    BY <1>2, <1>4, <1>5, <1>6, <1>7, <1>9 DEF Learned
  <2> QED
    BY <1>3, <1>9, <2>1 DEF Settled
<1> QED
  BY <1>8, <1>9

\* A transaction that is undone leaves empty tables.
LEMMA BrokenLeavesNothing ==
  ASSUME IndexInv, call # Idle, call.op = "rebuild", saved.open, Undo, NEW id \in Ids
  PROVE  rows' = {} /\ fields'[id] = {} /\ fulltext'[id] = <<>>
<1>1. SavedIsEmpty
  BY DEF IndexInv, CallIsWhole, Rebuild, Clearing, Deleting, Inserting
<1> QED
  BY <1>1 DEF Undo, SavedIsEmpty

\* A rebuild that reports success left of each record, for any collection and any
\* batch, either all its rows, as the file has them, or none: all of those it could
\* read, and none of a record that could not be read just then, stands behind the
\* batch or has no file any more.  One that fails within its transaction leaves
\* nothing (index_rebuild).
THEOREM RebuildIsFaithful == Spec => RebuildFollowsFiles
<1>1. Init => IndexInv /\ RebuildFollows
  BY InitIndex DEF Init, RebuildFollows
<1>2. IndexInv /\ RebuildFollows /\ [Next]_vars =>
        [call # Idle /\ call.op = "rebuild" /\ call' = Idle =>
           /\ answer' = "ok" =>
                \A id \in Ids :
                  IF Load(id).ok /\ Place(id) < Batch /\ id \notin call.unread
                  THEN Shows(id, Load(id))
                  ELSE ShowsNothing(id)
           /\ answer' # "ok" /\ saved.open =>
                \A id \in Ids : rows' = {} /\ fields'[id] = {} /\ fulltext'[id] = <<>>]_vars
  <2> SUFFICES ASSUME IndexInv, RebuildFollows, [Next]_vars,
                      call # Idle, call.op = "rebuild", call' = Idle
               PROVE  /\ answer' = "ok" =>
                           \A id \in Ids :
                             IF Load(id).ok /\ Place(id) < Batch /\ id \notin call.unread
                             THEN Shows(id, Load(id))
                             ELSE ShowsNothing(id)
                      /\ answer' # "ok" /\ saved.open =>
                           \A id \in Ids : rows' = {} /\ fields'[id] = {} /\ fulltext'[id] = <<>>
    OBVIOUS
  <2>1. Commit \/ StatementFails \/ Crash
    BY RebuildEnds
  <2>2. CASE Commit
    <3>1. answer' = "ok"
      BY <2>2 DEF Commit, Return
    <3>2. \A id \in Ids :
            IF Load(id).ok /\ Place(id) < Batch /\ id \notin call.unread
            THEN Shows(id, Load(id)) ELSE ShowsNothing(id)
      BY <2>2, CommitFollowsFiles
    <3> QED
      BY <3>1, <3>2
  <2>3. CASE StatementFails \/ Crash
    <3>1. answer' # "ok" /\ Undo
      BY <2>3 DEF StatementFails, Crash, Return
    <3>2. saved.open => \A id \in Ids : rows' = {} /\ fields'[id] = {} /\ fulltext'[id] = <<>>
      BY <3>1, BrokenLeavesNothing
    <3> QED
      BY <3>1, <3>2
  <2> QED
    BY <2>1, <2>2, <2>3
<1> QED
  BY <1>1, <1>2, NextKeepsIndex, NextKeepsRebuild, PTL DEF Spec, RebuildFollowsFiles
--------------------------------------------------------------------------------
(* Least and greatest numbers, and functions that go from one number to   *)
(* the next.                                                               *)

\* Min finds the least number of a set that has one.
LEMMA MinIsLeast ==
  ASSUME NEW S \in SUBSET Nat, S # {}
  PROVE  Min(S) \in S /\ \A k \in S : Min(S) <= k
<1> DEFINE Less == OpToRel(<, Nat)
<1>1. PICK x \in S : \A y \in S : <<y, x>> \notin Less
  BY NatLessThanWellFounded, WFMin
<1>2. \A y \in S : y < x => <<y, x>> \in Less
  BY DEF OpToRel
<1> HIDE DEF Less
<1>3. \A y \in S : ~(y < x)
  BY <1>1, <1>2, Zenon
<1>4. \A y \in S : x <= y
  BY <1>3
<1> QED
  BY <1>4 DEF Min

\* Max finds the greatest of some numbers up to a bound.
LEMMA MaxIsGreatest ==
  ASSUME NEW hi \in Nat, NEW S \in SUBSET (0 .. hi), S # {}
  PROVE  Max(S) \in S /\ \A k \in S : k <= Max(S)
<1> DEFINE Distances == {hi - k : k \in S}
<1>1. Distances \in SUBSET Nat /\ Distances # {}
  <2>1. \A k \in S : hi - k \in Nat
    OBVIOUS
  <2>2. PICK k \in S : TRUE
    OBVIOUS
  <2>3. hi - k \in Distances
    BY <2>2
  <2> QED
    BY <2>1, <2>3
<1>2. PICK least \in Distances : \A other \in Distances : least <= other
  BY <1>1, MinIsLeast, Zenon
<1>3. PICK k \in S : least = hi - k
  BY <1>2
<1>4. \A other \in S : k >= other
  <2> TAKE other \in S
  <2>1. hi - other \in Distances
    OBVIOUS
  <2>2. hi - k <= hi - other
    BY <1>2, <1>3, <2>1
  <2>3. k \in Nat /\ other \in Nat
    OBVIOUS
  <2> QED
    BY <2>2, <2>3
<1> QED
  BY <1>4 DEF Max

\* What holds at 0, and at each number whose predecessor it holds at, holds up to n.
LEMMA UpwardFromZero ==
  ASSUME NEW n \in Nat, NEW S, 0 \in S, \A k \in 1 .. n : k - 1 \in S => k \in S
  PROVE  \A k \in 0 .. n : k \in S
<1> DEFINE Wrong == {k \in 0 .. n : k \notin S}
<1>1. SUFFICES ASSUME Wrong # {} PROVE FALSE
  OBVIOUS
<1>2. Wrong \in SUBSET Nat
  OBVIOUS
<1> HIDE DEF Wrong
<1>3. PICK k \in Wrong : \A other \in Wrong : k <= other
  BY <1>1, <1>2, MinIsLeast, Zenon
<1>4. k \in 0 .. n /\ k \notin S
  BY DEF Wrong
<1>5. k \in 1 .. n
  BY <1>4
<1>6. k - 1 \notin Wrong
  BY <1>3, <1>5
<1>7. k - 1 \in S
  BY <1>5, <1>6 DEF Wrong
<1> QED
  BY <1>4, <1>5, <1>7

\* A function that is defined at 0, and at each k by what it is at k - 1.
IsStepped(f, n, T, base, step) ==
  /\ f \in [0 .. n -> T]
  /\ f[0] = base
  /\ \A k \in 1 .. n : f[k] = step[<<k, f[k - 1]>>]

LEMMA SteppedExists ==
  ASSUME NEW n \in Nat, NEW T, NEW base \in T, NEW step \in [(1 .. n) \X T -> T]
  PROVE  \E f : IsStepped(f, n, T, base, step)
<1> DEFINE Has(m) == \E f : IsStepped(f, m, T, base, step)
           S == {m \in 0 .. n : Has(m)}
<1>1. Has(0)
  <2> DEFINE f == [k \in 0 .. 0 |-> base]
  <2>1. IsStepped(f, 0, T, base, step)
    BY DEF IsStepped
  <2> QED
    BY <2>1
<1>2. ASSUME NEW m \in 1 .. n, Has(m - 1)
      PROVE  Has(m)
  <2>1. PICK f : IsStepped(f, m - 1, T, base, step)
    BY <1>2
  <2> DEFINE last == step[<<m, f[m - 1]>>]
             g == [k \in 0 .. m |-> IF k = m THEN last ELSE f[k]]
  <2>2. f \in [0 .. m - 1 -> T] /\ f[0] = base /\ \A k \in 1 .. m - 1 : f[k] = step[<<k, f[k - 1]>>]
    BY <2>1 DEF IsStepped
  <2>3. last \in T
    <3>1. f[m - 1] \in T
      BY <2>2
    <3>2. <<m, f[m - 1]>> \in (1 .. n) \X T
      BY <3>1
    <3> QED
      BY <3>2
  <2>4. g \in [0 .. m -> T]
    <3> HIDE DEF last
    <3> QED
      BY <2>2, <2>3
  <2>5. g[0] = base
    BY <2>2
  <2>6. \A k \in 1 .. m : g[k] = step[<<k, g[k - 1]>>]
    <3> TAKE k \in 1 .. m
    <3>1. g[k - 1] = f[k - 1]
      <4> HIDE DEF last
      <4> QED
        OBVIOUS
    <3>2. CASE k = m
      <4>1. g[k] = last
        <5> HIDE DEF last
        <5> QED
          BY <3>2
      <4> QED
        BY <3>1, <3>2, <4>1
    <3>3. CASE k # m
      <4>1. k \in 1 .. m - 1
        BY <3>3
      <4>2. g[k] = f[k]
        <5> HIDE DEF last
        <5> QED
          BY <3>3
      <4> HIDE DEF g
      <4> QED
        BY <2>2, <3>1, <4>1, <4>2
    <3> QED
      BY <3>2, <3>3
  <2> HIDE DEF g
  <2>7. IsStepped(g, m, T, base, step)
    BY <2>4, <2>5, <2>6 DEF IsStepped
  <2> QED
    BY <2>7
<1> HIDE DEF Has
<1>3. \A k \in 0 .. n : k \in S
  <2>1. 0 \in S /\ \A k \in 1 .. n : k - 1 \in S => k \in S
    BY <1>1, <1>2
  <2> HIDE DEF S
  <2> QED
    BY <2>1, UpwardFromZero, Zenon
<1>4. Has(n)
  BY <1>3
<1> QED
  BY <1>4 DEF Has

--------------------------------------------------------------------------------
(* Texts.  The provers do not see the characters with a meaning of their    *)
(* own, but under these names.                                              *)

Space == " "
Comma == ","
Open == "["
Close == "]"

Letters == DOMAIN Code \union {" ", ",", "[", "]"}
Chars == Seq(Letters)

LEMMA FourLetters ==
  /\ Space \in Letters /\ Comma \in Letters /\ Open \in Letters /\ Close \in Letters
  /\ Space # Comma /\ Space # Open /\ Space # Close
  /\ Comma # Open /\ Comma # Close /\ Open # Close
<1>1. Space \in Letters /\ Comma \in Letters /\ Open \in Letters /\ Close \in Letters
  BY Zenon DEF Letters, Space, Comma, Open, Close
<1>2. /\ Space # Comma /\ Space # Open /\ Space # Close
      /\ Comma # Open /\ Comma # Close /\ Open # Close
  BY Zenon DEF Space, Comma, Open, Close
<1> QED
  BY <1>1, <1>2

LEMMA TextIs ==
  ASSUME NEW s \in Chars
  PROVE  Len(s) \in Nat /\ DOMAIN s = 1 .. Len(s) /\ \A i \in 1 .. Len(s) : s[i] \in Letters
BY DEF Chars

LEMMA PartIs ==
  ASSUME NEW s \in Chars, NEW from \in Nat \ {0}, NEW to \in 0 .. Len(s)
  PROVE  /\ SubSeq(s, from, to) \in Chars
         /\ Len(SubSeq(s, from, to)) = IF from <= to THEN to - from + 1 ELSE 0
         /\ \A i \in 1 .. Len(SubSeq(s, from, to)) :
              /\ SubSeq(s, from, to)[i] = s[from + i - 1]
              /\ from + i - 1 \in from .. to
<1>1. Len(s) \in Nat /\ \A i \in 1 .. Len(s) : s[i] \in Letters
  BY TextIs
<1>2. \A i \in from .. to : s[i] \in Letters
  BY <1>1
<1> DEFINE part == SubSeq(s, from, to)
<1>3. /\ part \in Seq(Letters)
      /\ Len(part) = IF from <= to THEN to - from + 1 ELSE 0
      /\ \A i \in 1 .. to - from + 1 : part[i] = s[from + i - 1]
  BY <1>2, SubSeqProperties
<1> HIDE DEF part
<1>4. \A i \in 1 .. Len(part) : i \in 1 .. to - from + 1 /\ from + i - 1 \in from .. to
  BY <1>3
<1> QED
  BY <1>3, <1>4 DEF part, Chars

\* Two texts of the same letters are the same.
LEMMA SameText ==
  ASSUME NEW s \in Chars, NEW t \in Chars, Len(s) = Len(t), \A i \in 1 .. Len(s) : s[i] = t[i]
  PROVE  s = t
BY SeqEqual DEF Chars

LEMMA ConcatIs ==
  ASSUME NEW s \in Chars, NEW t \in Chars
  PROVE  /\ s \o t \in Chars /\ Len(s \o t) = Len(s) + Len(t)
         /\ \A i \in 1 .. Len(s) : (s \o t)[i] = s[i]
         /\ \A i \in 1 .. Len(t) : (s \o t)[Len(s) + i] = t[i]
<1>1. Len(s) \in Nat /\ Len(t) \in Nat
  BY TextIs
<1>2. /\ s \o t \in Chars /\ Len(s \o t) = Len(s) + Len(t)
      /\ \A i \in 1 .. Len(s) + Len(t) : (s \o t)[i] = IF i <= Len(s) THEN s[i] ELSE t[i - Len(s)]
  BY ConcatProperties DEF Chars
<1> DEFINE w == s \o t
           n == Len(s)
           m == Len(t)
<1> HIDE DEF w, n, m
<1>3. /\ \A i \in 1 .. n + m : w[i] = IF i <= n THEN s[i] ELSE t[i - n]
      /\ n \in Nat /\ m \in Nat
  BY <1>1, <1>2 DEF w, n, m
<1>4. \A i \in 1 .. n : w[i] = s[i]
  BY <1>3
<1>5. \A i \in 1 .. m : w[n + i] = t[i]
  <2> TAKE i \in 1 .. m
  <2>1. n + i \in 1 .. n + m /\ ~(n + i <= n) /\ n + i - n = i
    BY <1>3
  <2> QED
    BY <1>3, <2>1
<1> QED
  BY <1>2, <1>4, <1>5 DEF w, n, m

LEMMA LetterIs ==
  ASSUME NEW c \in Letters
  PROVE  <<c>> \in Chars /\ Len(<<c>>) = 1 /\ <<c>>[1] = c
BY DEF Chars

LEMMA NoText == <<>> \in Chars /\ Len(<<>>) = 0
BY DEF Chars

LEMMA EmptyText ==
  ASSUME NEW s \in Chars
  PROVE  s = <<>> <=> Len(s) = 0
BY DEF Chars

--------------------------------------------------------------------------------
(* White space.                                                            *)

\* A text without white space at its ends.
Trimmed(s) == s = <<>> \/ (s[1] # Space /\ s[Len(s)] # Space)

LEMMA TrimByName ==
  ASSUME NEW s
  PROVE  LET solid == {i \in DOMAIN s : s[i] # Space}
         IN Trim(s) = IF solid = {} THEN <<>> ELSE SubSeq(s, Min(solid), Max(solid))
BY Zenon DEF Trim, Space

\* Trim takes a part that has no white space at its ends.
LEMMA TrimIs ==
  ASSUME NEW s \in Chars
  PROVE  /\ Trim(s) \in Chars /\ Trimmed(Trim(s)) /\ Len(Trim(s)) <= Len(s)
         /\ \A i \in 1 .. Len(Trim(s)) : \E j \in 1 .. Len(s) : Trim(s)[i] = s[j]
<1> DEFINE solid == {i \in DOMAIN s : s[i] # Space}
           n == Len(s)
<1>1. n \in Nat /\ DOMAIN s = 1 .. n
  BY TextIs
<1>2. Trim(s) = IF solid = {} THEN <<>> ELSE SubSeq(s, Min(solid), Max(solid))
  BY TrimByName, Zenon
<1>3. CASE solid = {}
  BY <1>1, <1>2, <1>3, NoText DEF Trimmed
<1>4. CASE solid # {}
  <2> DEFINE a == Min(solid)
             b == Max(solid)
             t == SubSeq(s, a, b)
  <2>1. solid \in SUBSET Nat /\ solid \in SUBSET (0 .. n)
    BY <1>1
  <2>2. \A i : i \in solid => i \in 1 .. n /\ s[i] # Space
    BY <1>1
  <2> HIDE DEF solid, n
  <2>3. a \in solid /\ \A k \in solid : a <= k
    BY <1>4, <2>1, MinIsLeast
  <2>4. b \in solid
    BY <1>1, <1>4, <2>1, MaxIsGreatest
  <2> HIDE DEF a, b
  <2>5. a \in 1 .. n /\ b \in 1 .. n /\ a <= b /\ s[a] # Space /\ s[b] # Space
    BY <2>2, <2>3, <2>4
  <2>6. a \in Nat \ {0} /\ b \in 0 .. n
    BY <1>1, <2>5
  <2>7. /\ t \in Chars /\ Len(t) = b - a + 1
        /\ \A i \in 1 .. Len(t) : t[i] = s[a + i - 1] /\ a + i - 1 \in a .. b
    BY <2>5, <2>6, PartIs DEF n
  <2>8. Trim(s) = t
    BY <1>2, <1>4, Zenon DEF a, b
  <2> HIDE DEF t
  <2>9. Len(t) \in Nat /\ Len(t) <= n
    BY <1>1, <2>5, <2>7
  <2>10. 1 \in 1 .. Len(t) /\ Len(t) \in 1 .. Len(t) /\ a + 1 - 1 = a /\ a + Len(t) - 1 = b
    BY <1>1, <2>5, <2>7, <2>9
  <2>11. t[1] = s[a] /\ t[Len(t)] = s[b]
    BY <2>7, <2>10
  <2>12. Trimmed(t)
    BY <2>5, <2>11 DEF Trimmed
  <2>13. \A i \in 1 .. Len(t) : \E j \in 1 .. n : t[i] = s[j]
    <3> TAKE i \in 1 .. Len(t)
    <3>1. t[i] = s[a + i - 1] /\ a + i - 1 \in a .. b
      BY <2>7
    <3>2. a + i - 1 \in 1 .. n
      BY <1>1, <2>5, <3>1
    <3> QED
      BY <3>1, <3>2
  <2> QED
    BY <2>7, <2>8, <2>9, <2>12, <2>13 DEF n
<1> QED
  BY <1>3, <1>4

\* White space in front of a text without any at its ends is all that Trim takes.
LEMMA TrimAgain ==
  ASSUME NEW v \in Chars, Trimmed(v)
  PROVE  Trim(v) = v /\ Trim(<<Space>> \o v) = v
<1> DEFINE n == Len(v)
<1>1. n \in Nat /\ DOMAIN v = 1 .. n
  BY TextIs
<1> DEFINE w == <<Space>> \o v
<1>2. /\ w \in Chars /\ Len(w) = n + 1 /\ w[1] = Space
      /\ \A i \in 1 .. n : w[i + 1] = v[i]
  <2>1. <<Space>> \in Chars /\ Len(<<Space>>) = 1 /\ <<Space>>[1] = Space
    BY LetterIs, FourLetters
  <2>2. /\ w \in Chars /\ Len(w) = 1 + n
        /\ \A i \in 1 .. 1 : w[i] = <<Space>>[i]
        /\ \A i \in 1 .. n : w[1 + i] = v[i]
    BY <2>1, ConcatIs
  <2> HIDE DEF w, n
  <2>3. \A i \in 1 .. n : 1 + i = i + 1
    BY <1>1
  <2> QED
    BY <1>1, <2>1, <2>2, <2>3
<1>3. DOMAIN w = 1 .. n + 1
  BY <1>2, TextIs
<1> HIDE DEF w
<1> DEFINE ofV == {i \in DOMAIN v : v[i] # Space}
           ofW == {i \in DOMAIN w : w[i] # Space}
<1>4. Trim(v) = IF ofV = {} THEN <<>> ELSE SubSeq(v, Min(ofV), Max(ofV))
  BY TrimByName, Zenon
<1>5. Trim(w) = IF ofW = {} THEN <<>> ELSE SubSeq(w, Min(ofW), Max(ofW))
  BY TrimByName, Zenon
<1>6. CASE v = <<>>
  <2>1. n = 0
    BY <1>6, NoText
  <2>2. ofV = {}
    BY <1>1, <2>1
  <2>3. ofW = {}
    <3>1. \A i \in 1 .. n + 1 : i = 1
      BY <2>1
    <3> QED
      BY <1>2, <1>3, <3>1
  <2> QED
    BY <1>4, <1>5, <1>6, <2>2, <2>3 DEF w
<1>7. CASE v # <<>>
  <2>1. n >= 1 /\ v[1] # Space /\ v[n] # Space
    BY <1>1, <1>7, EmptyText DEF Trimmed
  <2>2. Min(ofV) = 1 /\ Max(ofV) = n /\ ofV # {}
    <3>1. ofV \in SUBSET Nat /\ ofV \in SUBSET (0 .. n) /\ 1 \in ofV /\ n \in ofV
          /\ \A k \in ofV : k \in 1 .. n
      BY <1>1, <2>1
    <3> HIDE DEF ofV, n
    <3>2. Min(ofV) \in ofV /\ Min(ofV) <= 1
      BY <3>1, MinIsLeast
    <3>3. Max(ofV) \in ofV /\ n <= Max(ofV)
      BY <1>1, <3>1, MaxIsGreatest
    <3>4. Min(ofV) \in 1 .. n /\ Max(ofV) \in 1 .. n
      BY <3>1, <3>2, <3>3
    <3> QED
      BY <1>1, <3>1, <3>2, <3>3, <3>4
  <2>3. Min(ofW) = 2 /\ Max(ofW) = n + 1 /\ ofW # {}
    <3>1. w[2] = v[1] /\ w[n + 1] = v[n]
      <4>1. 1 \in 1 .. n /\ n \in 1 .. n /\ 1 + 1 = 2
        BY <1>1, <2>1
      <4> HIDE DEF n
      <4> QED
        BY <1>2, <4>1
    <3>2. ofW \in SUBSET Nat /\ ofW \in SUBSET (0 .. n + 1) /\ 2 \in ofW /\ n + 1 \in ofW
          /\ \A k \in ofW : k \in 2 .. n + 1
      <4>1. \A k \in ofW : k \in 1 .. n + 1 /\ k # 1
        BY <1>2, <1>3
      <4>2. 2 \in 1 .. n + 1 /\ n + 1 \in 1 .. n + 1
        BY <1>1, <2>1
      <4>3. 2 \in ofW /\ n + 1 \in ofW
        BY <1>3, <2>1, <3>1, <4>2
      <4> HIDE DEF ofW, n
      <4> QED
        BY <1>1, <4>1, <4>3
    <3> DEFINE m == n + 1
    <3>3. m \in Nat
      BY <1>1
    <3> HIDE DEF ofW, n, m
    <3>4. Min(ofW) \in ofW /\ Min(ofW) <= 2
      BY <3>2, MinIsLeast
    <3>5. Max(ofW) \in ofW /\ m <= Max(ofW)
      BY <3>2, <3>3, MaxIsGreatest DEF m
    <3>6. Min(ofW) \in 2 .. m /\ Max(ofW) \in 2 .. m
      BY <3>2, <3>4, <3>5 DEF m
    <3>7. Min(ofW) = 2 /\ Max(ofW) = m
      BY <3>3, <3>4, <3>5, <3>6
    <3> QED
      BY <3>2, <3>7 DEF m
  <2> HIDE DEF ofV, ofW
  <2>4. Trim(v) = SubSeq(v, 1, n)
    BY <1>4, <2>2
  <2>5. SubSeq(v, 1, n) = v
    BY SubSeqFull DEF Chars
  <2>6. Trim(w) = SubSeq(w, 2, n + 1)
    BY <1>5, <2>3
  <2>7. SubSeq(w, 2, n + 1) = v
    <3> DEFINE p == SubSeq(w, 2, n + 1)
    <3>1. 2 \in Nat \ {0} /\ n + 1 \in 0 .. Len(w)
      BY <1>1, <1>2
    <3>2. /\ p \in Chars /\ Len(p) = IF 2 <= n + 1 THEN n + 1 - 2 + 1 ELSE 0
          /\ \A i \in 1 .. Len(p) : p[i] = w[2 + i - 1]
      BY <1>2, <3>1, PartIs
    <3> HIDE DEF p, n
    <3>3. Len(p) = n
      BY <1>1, <2>1, <3>2
    <3>4. \A i \in 1 .. n : p[i] = v[i]
      <4> TAKE i \in 1 .. n
      <4>1. 2 + i - 1 = i + 1
        BY <1>1
      <4> QED
        BY <1>2, <3>2, <3>3, <4>1
    <3>5. p = v
      BY <3>2, <3>3, <3>4, SameText DEF n
    <3> QED
      BY <3>5 DEF p
  <2> QED
    BY <2>4, <2>5, <2>6, <2>7 DEF w
<1> QED
  BY <1>6, <1>7

--------------------------------------------------------------------------------
(* The ends of the parts between commas, in their order.                    *)

CutsOf(cut, ends) ==
  cut = [k \in 0 .. Cardinality(ends) |->
           IF k = 0 THEN 0 ELSE Min({e \in ends : e > cut[k - 1]})]

EndsOf(s) == {i \in DOMAIN s : s[i] = Comma} \union {Len(s) + 1}

LEMMA PartsByCuts ==
  ASSUME NEW s, \E cut : CutsOf(cut, EndsOf(s))
  PROVE  \E cut : /\ CutsOf(cut, EndsOf(s))
                  /\ BetweenCommas(s) = [k \in 1 .. Cardinality(EndsOf(s)) |->
                                           SubSeq(s, cut[k - 1] + 1, cut[k] - 1)]
<1> DEFINE cut == CHOOSE cut : CutsOf(cut, EndsOf(s))
<1>1. CutsOf(cut, EndsOf(s))
  BY Zenon
<1>2. BetweenCommas(s) = [k \in 1 .. Cardinality(EndsOf(s)) |-> SubSeq(s, cut[k - 1] + 1, cut[k] - 1)]
  BY Zenon DEF BetweenCommas, CutsOf, EndsOf, Comma
<1> QED
  BY <1>1, <1>2, Zenon

\* There is such a function.
LEMMA CutsExist ==
  ASSUME NEW ends \in SUBSET Nat, IsFiniteSet(ends)
  PROVE  \E cut : CutsOf(cut, ends)
<1> DEFINE n == Cardinality(ends)
           T == Nat \union {Min({})}
           Later(e) == {l \in ends : l > e}
           step == [p \in (1 .. n) \X T |-> Min(Later(p[2]))]
<1>1. n \in Nat
  BY FS_CardinalityType
<1>2. step \in [(1 .. n) \X T -> T]
  <2>1. ASSUME NEW p \in (1 .. n) \X T PROVE Min(Later(p[2])) \in T
    <3>1. Later(p[2]) \in SUBSET Nat
      OBVIOUS
    <3> DEFINE L == Later(p[2])
    <3> HIDE DEF L
    <3>2. L # {} => Min(L) \in Nat
      BY <3>1, MinIsLeast DEF L
    <3>3. L = {} => Min(L) = Min({})
      OBVIOUS
    <3>4. Min(L) \in T
      BY <3>2, <3>3
    <3> QED
      BY <3>4 DEF L
  <2> HIDE DEF T, n, Later
  <2> QED
    BY <2>1
<1>3. 0 \in T
  OBVIOUS
<1> HIDE DEF step, T, n, Later
<1>4. PICK f : IsStepped(f, n, T, 0, step)
  BY <1>1, <1>2, <1>3, SteppedExists, Zenon
<1>5. /\ f \in [0 .. n -> T] /\ f[0] = 0
      /\ \A k \in 1 .. n : f[k] = step[<<k, f[k - 1]>>]
  BY <1>4 DEF IsStepped
<1>6. \A k \in 1 .. n : f[k] = Min(Later(f[k - 1]))
  <2> TAKE k \in 1 .. n
  <2>1. k - 1 \in 0 .. n
    BY <1>1
  <2>2. f[k - 1] \in T
    BY <1>5, <2>1
  <2>3. <<k, f[k - 1]>> \in (1 .. n) \X T
    BY <2>2
  <2>4. step[<<k, f[k - 1]>>] = Min(Later(<<k, f[k - 1]>>[2]))
    BY <2>3 DEF step
  <2> QED
    BY <1>5, <2>4
<1>7. f = [k \in 0 .. n |-> IF k = 0 THEN 0 ELSE Min(Later(f[k - 1]))]
  <2>1. f = [k \in 0 .. n |-> f[k]]
    BY <1>5
  <2>2. \A k \in 0 .. n : f[k] = IF k = 0 THEN 0 ELSE Min(Later(f[k - 1]))
    <3> TAKE k \in 0 .. n
    <3>1. k = 0 \/ k \in 1 .. n
      BY <1>1
    <3> QED
      BY <1>1, <1>5, <1>6, <3>1
  <2> DEFINE g == [k \in 0 .. n |-> IF k = 0 THEN 0 ELSE Min(Later(f[k - 1]))]
  <2>3. \A k \in 0 .. n : g[k] = f[k]
    BY <2>2
  <2>4. g = [k \in 0 .. n |-> g[k]]
    OBVIOUS
  <2> HIDE DEF g
  <2>5. [k \in 0 .. n |-> f[k]] = [k \in 0 .. n |-> g[k]]
    BY <2>3
  <2>6. f = g
    BY <2>1, <2>4, <2>5
  <2> QED
    BY <2>6 DEF g
<1>8. CutsOf(f, ends)
  BY <1>7, Zenon DEF CutsOf, Later, n
<1> QED
  BY <1>8

\* It goes through the ends from the least on, and leaves none out.
IsOrderOf(cut, ends) ==
  LET n == Cardinality(ends)
  IN /\ n \in Nat /\ cut[0] = 0
     /\ \A k \in 0 .. n : cut[k] \in Nat
     /\ \A k \in 1 .. n : /\ cut[k] \in ends /\ cut[k - 1] < cut[k]
                          /\ \A e \in ends : ~(cut[k - 1] < e /\ e < cut[k])

LEMMA CutsAre ==
  ASSUME NEW ends \in SUBSET (Nat \ {0}), IsFiniteSet(ends), NEW cut, CutsOf(cut, ends)
  PROVE  IsOrderOf(cut, ends)
<1> DEFINE n == Cardinality(ends)
           Later(e) == {l \in ends : l > e}
           UpTo(e) == {l \in ends : l <= e}
           Good == {k \in 0 .. n : cut[k] \in Nat /\ Cardinality(UpTo(cut[k])) = k}
<1>1. n \in Nat
  BY FS_CardinalityType
<1>2. /\ cut[0] = 0
      /\ \A k \in 1 .. n : cut[k] = Min(Later(cut[k - 1]))
  <2>1. \A k \in 0 .. n : cut[k] = IF k = 0 THEN 0 ELSE Min(Later(cut[k - 1]))
    <3> DEFINE E(k) == IF k = 0 THEN 0 ELSE Min(Later(cut[k - 1]))
    <3>1. cut = [k \in 0 .. n |-> E(k)]
      BY Zenon DEF CutsOf
    <3> HIDE DEF E
    <3>2. \A k \in 0 .. n : cut[k] = E(k)
      BY <3>1
    <3> QED
      BY <3>2 DEF E
  <2> HIDE DEF Later, n
  <2>2. 0 \in 0 .. n /\ \A k \in 1 .. n : k \in 0 .. n /\ k # 0
    BY <1>1
  <2> QED
    BY <2>1, <2>2
<1>3. \A e \in Nat : IsFiniteSet(UpTo(e)) /\ UpTo(e) \subseteq ends
  <2> TAKE e \in Nat
  <2>1. UpTo(e) \in SUBSET ends
    OBVIOUS
  <2> HIDE DEF UpTo
  <2> QED
    BY <2>1, FS_Subset
<1>4. ASSUME NEW k \in 1 .. n, k - 1 \in Good
      PROVE  /\ k \in Good /\ cut[k] \in ends /\ cut[k - 1] < cut[k]
             /\ \A e \in ends : ~(cut[k - 1] < e /\ e < cut[k])
  <2> DEFINE c == cut[k - 1]
  <2>1. c \in Nat /\ Cardinality(UpTo(c)) = k - 1
    BY <1>4
  <2> HIDE DEF c
  <2>2. Later(c) # {}
    <3>1. SUFFICES ASSUME Later(c) = {} PROVE FALSE
      OBVIOUS
    <3>2. UpTo(c) = ends
      <4>1. \A e \in ends : e \in Nat /\ ~(e > c)
        BY <3>1
      <4>2. \A e \in ends : e <= c
        BY <2>1, <4>1
      <4> QED
        BY <4>2
    <3>3. k - 1 = n
      BY <2>1, <3>2
    <3> QED
      BY <1>1, <3>3
  <2>3. Later(c) \in SUBSET Nat /\ \A e : e \in Later(c) <=> e \in ends /\ e > c
    OBVIOUS
  <2> DEFINE m == Min(Later(c))
  <2>4. cut[k] = m
    BY <1>2 DEF c
  <2> HIDE DEF Later
  <2>5. m \in Later(c) /\ \A e \in Later(c) : m <= e
    BY <2>2, <2>3, MinIsLeast
  <2> HIDE DEF m
  <2>6. m \in ends /\ m > c /\ m \in Nat
    BY <2>3, <2>5
  <2>7. \A e \in ends : ~(c < e /\ e < m)
    <3> TAKE e \in ends
    <3>1. e \in Nat
      OBVIOUS
    <3>2. c < e => m <= e
      BY <2>1, <2>3, <2>5, <3>1
    <3> QED
      BY <2>6, <3>1, <3>2
  <2>8. UpTo(m) = UpTo(c) \union {m} /\ m \notin UpTo(c)
    <3>1. \A e \in ends : e <= m <=> e <= c \/ e = m
      <4> TAKE e \in ends
      <4>1. e \in Nat
        OBVIOUS
      <4>2. ~(c < e /\ e < m)
        BY <2>7
      <4> QED
        BY <2>1, <2>6, <4>1, <4>2
    <3>2. ~(m <= c)
      BY <2>1, <2>6
    <3> QED
      BY <2>6, <3>1, <3>2
  <2>9. Cardinality(UpTo(m)) = k
    <3>1. IsFiniteSet(UpTo(c))
      BY <1>3, <2>1
    <3> DEFINE U == UpTo(c)
    <3> HIDE DEF UpTo, U
    <3>2. Cardinality(U \union {m}) = Cardinality(U) + 1
      BY <2>8, <3>1, FS_AddElement DEF U
    <3>3. k - 1 + 1 = k
      OBVIOUS
    <3> QED
      BY <2>1, <2>8, <3>2, <3>3 DEF U
  <2>10. k \in 0 .. n
    BY <1>1
  <2>11. k \in Good
    <3> HIDE DEF UpTo
    <3> QED
      BY <2>4, <2>6, <2>9, <2>10
  <2> QED
    BY <2>4, <2>6, <2>7, <2>11 DEF c
<1>5. 0 \in Good
  <2>1. UpTo(0) = {}
    <3>1. \A e \in ends : e \in Nat /\ e # 0
      OBVIOUS
    <3>2. \A e \in ends : ~(e <= 0)
      BY <3>1
    <3> QED
      BY <3>2
  <2>2. Cardinality(UpTo(0)) = 0
    BY <2>1, FS_EmptySet
  <2> HIDE DEF UpTo
  <2> QED
    BY <1>1, <1>2, <2>2
<1>6. \A k \in 0 .. n : k \in Good
  <2> HIDE DEF Good, n
  <2>1. \A k \in 1 .. n : k - 1 \in Good => k \in Good
    BY <1>4
  <2> QED
    BY <1>1, <1>5, <2>1, UpwardFromZero, Zenon
<1>7. \A k \in 0 .. n : cut[k] \in Nat
  <2> HIDE DEF UpTo
  <2> QED
    BY <1>6
<1> HIDE DEF Good
<1>8. ASSUME NEW k \in 1 .. n
      PROVE  /\ cut[k] \in ends /\ cut[k - 1] < cut[k]
             /\ \A e \in ends : ~(cut[k - 1] < e /\ e < cut[k])
  <2>1. k - 1 \in 0 .. n
    BY <1>1
  <2> QED
    BY <1>4, <1>6, <2>1
<1> QED
  BY <1>1, <1>2, <1>7, <1>8 DEF IsOrderOf

\* Numbers that grow from each to the next, and are the ends, are the cuts.
EndPlaces(at, n) == {at[k] : k \in 1 .. n}

LEMMA CutsFound ==
  ASSUME NEW n \in Nat, NEW at \in [0 .. n -> Nat], at[0] = 0,
         \A k \in 1 .. n : at[k - 1] < at[k],
         NEW cut, CutsOf(cut, EndPlaces(at, n))
  PROVE  Cardinality(EndPlaces(at, n)) = n /\ \A k \in 0 .. n : cut[k] = at[k]
<1> DEFINE ends == EndPlaces(at, n)
<1>a. ends = {at[k] : k \in 1 .. n}
  BY DEF EndPlaces
<1>b. CutsOf(cut, ends)
  OBVIOUS
<1> HIDE DEF ends
<1> DEFINE Above == {j \in 0 .. n : \A i \in 0 .. n : i < j => at[i] < at[j]}
<1>1. \A j \in 0 .. n : j \in Above
  <2>1. 0 \in Above
    OBVIOUS
  <2>2. ASSUME NEW j \in 1 .. n, j - 1 \in Above PROVE j \in Above
    <3>1. ASSUME NEW i \in 0 .. n, i < j PROVE at[i] < at[j]
      <4>1. i < j - 1 \/ i = j - 1
        BY <3>1
      <4>2. at[j - 1] < at[j] /\ at[i] \in Nat /\ at[j - 1] \in Nat /\ at[j] \in Nat
        OBVIOUS
      <4>3. i < j - 1 => at[i] < at[j - 1]
        BY <2>2
      <4>4. i = j - 1 => at[i] = at[j - 1]
        OBVIOUS
      <4> DEFINE a == at[i]
                 b == at[j - 1]
                 c == at[j]
      <4>5. a \in Nat /\ b \in Nat /\ c \in Nat /\ b < c /\ (i < j - 1 => a < b) /\ (i = j - 1 => a = b)
        BY <4>2, <4>3, <4>4
      <4> HIDE DEF a, b, c
      <4>6. a < c
        BY <4>1, <4>5
      <4> QED
        BY <4>6 DEF a, c
    <3> QED
      BY <3>1
  <2> HIDE DEF Above
  <2> QED
    BY <2>1, <2>2, UpwardFromZero, Zenon
<1>2. \A i, j \in 0 .. n : i < j => at[i] < at[j]
  BY <1>1
<1> HIDE DEF Above
<1>3. \A i \in 0 .. n : at[i] \in Nat
  OBVIOUS
<1>4. Cardinality(ends) = n
  <2> DEFINE f == [k \in 1 .. n |-> at[k]]
  <2>1. f \in [1 .. n -> ends]
    BY <1>a
  <2>2. \A i, j \in 1 .. n : f[i] = f[j] => i = j
    <3> TAKE i, j \in 1 .. n
    <3>1. i < j => at[i] < at[j]
      BY <1>2
    <3>2. j < i => at[j] < at[i]
      BY <1>2
    <3>3. at[i] \in Nat /\ at[j] \in Nat
      OBVIOUS
    <3> QED
      BY <3>1, <3>2, <3>3
  <2>3. \A e \in ends : \E k \in 1 .. n : f[k] = e
    BY <1>a
  <2> HIDE DEF f
  <2>4. f \in Bijection(1 .. n, ends)
    BY <2>1, <2>2, <2>3 DEF Bijection, Injection, Surjection, IsInjective
  <2>5. ExistsBijection(1 .. n, ends)
    BY <2>4 DEF ExistsBijection
  <2> QED
    BY <2>5, FS_CountingElements
<1> DEFINE Same == {k \in 0 .. n : cut[k] = at[k]}
<1>5. \A k \in 0 .. n : cut[k] = IF k = 0 THEN 0 ELSE Min({e \in ends : e > cut[k - 1]})
  <2> DEFINE E(k) == IF k = 0 THEN 0 ELSE Min({e \in ends : e > cut[k - 1]})
  <2>1. cut = [k \in 0 .. n |-> E(k)]
    BY <1>4, <1>b, Zenon DEF CutsOf
  <2> HIDE DEF E
  <2>2. \A k \in 0 .. n : cut[k] = E(k)
    BY <2>1
  <2> QED
    BY <2>2 DEF E
<1>6. 0 \in Same
  <2> DEFINE E(k) == IF k = 0 THEN 0 ELSE Min({e \in ends : e > cut[k - 1]})
  <2>1. \A k \in 0 .. n : cut[k] = E(k)
    BY <1>5
  <2>2. E(0) = 0
    OBVIOUS
  <2> HIDE DEF E
  <2>3. 0 \in 0 .. n
    OBVIOUS
  <2> QED
    BY <2>1, <2>2, <2>3
<1>7. ASSUME NEW k \in 1 .. n, k - 1 \in Same PROVE k \in Same
  <2> DEFINE L == {e \in ends : e > at[k - 1]}
  <2>1. cut[k] = Min(L)
    <3>1. k \in 0 .. n /\ k # 0 /\ cut[k - 1] = at[k - 1]
      BY <1>7
    <3> QED
      BY <1>5, <3>1
  <2>2. at[k] \in L
    <3>1. at[k] \in ends /\ at[k - 1] < at[k] /\ at[k] \in Nat /\ at[k - 1] \in Nat
      BY <1>a
    <3> QED
      BY <3>1
  <2>3. \A e \in L : at[k] <= e
    <3> TAKE e \in L
    <3>1. PICK j \in 1 .. n : e = at[j]
      BY <1>a
    <3>2. at[j] > at[k - 1] /\ at[j] \in Nat /\ at[k - 1] \in Nat /\ at[k] \in Nat
      BY <3>1
    <3>3. ~(j < k - 1) /\ j # k - 1
      <4>1. j < k - 1 => at[j] < at[k - 1]
        BY <1>2
      <4>2. j = k - 1 => at[j] = at[k - 1]
        OBVIOUS
      <4> DEFINE a == at[j]
                 b == at[k - 1]
      <4>3. a \in Nat /\ b \in Nat /\ a > b
        BY <3>2
      <4> HIDE DEF a, b
      <4>4. (j < k - 1 => a < b) /\ (j = k - 1 => a = b)
        BY <4>1, <4>2 DEF a, b
      <4> QED
        BY <4>3, <4>4
    <3>4. j = k \/ k < j
      BY <3>3
    <3>5. k < j => at[k] < at[j]
      BY <1>2
    <3> QED
      BY <3>1, <3>2, <3>4, <3>5
  <2>4. L \in SUBSET Nat
    BY <1>3, <1>a
  <2> HIDE DEF L
  <2>5. Min(L) \in L /\ Min(L) <= at[k]
    BY <2>2, <2>4, MinIsLeast
  <2>6. Min(L) = at[k]
    <3>1. Min(L) \in Nat /\ at[k] \in Nat /\ at[k] <= Min(L)
      BY <2>4, <2>5, <2>2, <2>3
    <3> QED
      BY <2>5, <3>1
  <2> QED
    BY <2>1, <2>6
<1>8. \A k \in 0 .. n : k \in Same
  <2> HIDE DEF Same
  <2> QED
    BY <1>6, <1>7, UpwardFromZero, Zenon
<1>9. \A k \in 0 .. n : cut[k] = at[k]
  BY <1>8
<1> QED
  BY <1>4, <1>9 DEF ends

--------------------------------------------------------------------------------
(* The items of a list.                                                    *)

ItemSet == {v \in Chars : Trimmed(v) /\ \A i \in 1 .. Len(v) : v[i] # Comma}

LEMMA EndsAre ==
  ASSUME NEW s \in Chars
  PROVE  /\ EndsOf(s) \in SUBSET (Nat \ {0}) /\ IsFiniteSet(EndsOf(s))
         /\ \A e : e \in EndsOf(s) <=> e \in 1 .. Len(s) + 1 /\ (e = Len(s) + 1 \/ s[e] = Comma)
<1>1. Len(s) \in Nat /\ DOMAIN s = 1 .. Len(s)
  BY TextIs
<1>2. \A e : e \in EndsOf(s) <=> e \in 1 .. Len(s) + 1 /\ (e = Len(s) + 1 \/ s[e] = Comma)
  <2>1. \A e : e \in EndsOf(s) <=> (e \in 1 .. Len(s) /\ s[e] = Comma) \/ e = Len(s) + 1
    BY <1>1 DEF EndsOf
  <2>2. \A e : e \in 1 .. Len(s) + 1 <=> e \in 1 .. Len(s) \/ e = Len(s) + 1
    BY <1>1
  <2> QED
    BY <2>1, <2>2, Zenon
<1>3. EndsOf(s) \in SUBSET (1 .. Len(s) + 1)
  BY <1>2
<1>4. IsFiniteSet(1 .. Len(s) + 1)
  <2>1. 1 \in Int /\ Len(s) + 1 \in Int
    BY <1>1
  <2> QED
    BY <2>1, FS_Interval
<1>5. IsFiniteSet(EndsOf(s))
  BY <1>3, <1>4, FS_Subset
<1> QED
  BY <1>1, <1>2, <1>3, <1>5

\* What Items gives of any text: items.
LEMMA ItemsAre ==
  ASSUME NEW s \in Chars
  PROVE  Items(s) \in Seq(ItemSet) /\ Items(s) # <<>>
<1> DEFINE ends == EndsOf(s)
           n == Cardinality(ends)
<1>1. ends \in SUBSET (Nat \ {0}) /\ ends \in SUBSET Nat /\ IsFiniteSet(ends)
  BY EndsAre
<1>2. PICK cut : /\ CutsOf(cut, ends)
                 /\ BetweenCommas(s) = [k \in 1 .. n |-> SubSeq(s, cut[k - 1] + 1, cut[k] - 1)]
  BY <1>1, CutsExist, PartsByCuts, Zenon
<1>3. IsOrderOf(cut, ends)
  BY <1>1, <1>2, CutsAre, Zenon
<1>4. /\ n \in Nat /\ cut[0] = 0
      /\ \A k \in 0 .. n : cut[k] \in Nat
      /\ \A k \in 1 .. n : /\ cut[k] \in ends /\ cut[k - 1] < cut[k]
                           /\ \A e \in ends : ~(cut[k - 1] < e /\ e < cut[k])
  BY <1>3, Zenon DEF IsOrderOf
<1> HIDE DEF n, ends
<1> DEFINE part(k) == SubSeq(s, cut[k - 1] + 1, cut[k] - 1)
<1>5. Items(s) = [k \in 1 .. n |-> Trim(part(k))]
  <2> DEFINE b == BetweenCommas(s)
  <2>1. Items(s) = [k \in DOMAIN b |-> Trim(b[k])]
    BY Zenon DEF Items
  <2>2. b = [k \in 1 .. n |-> part(k)]
    BY <1>2
  <2> HIDE DEF b, part
  <2>3. DOMAIN b = 1 .. n /\ \A k \in 1 .. n : b[k] = part(k)
    BY <2>2
  <2> QED
    BY <2>1, <2>3
<1>6. ASSUME NEW k \in 1 .. n PROVE Trim(part(k)) \in ItemSet
  <2> DEFINE a == cut[k - 1]
             e == cut[k]
             p == part(k)
             t == Trim(p)
  <2>1. a \in Nat /\ e \in ends /\ a < e /\ \A o \in ends : ~(a < o /\ o < e)
    <3>1. k - 1 \in 0 .. n
      BY <1>4
    <3> QED
      BY <1>4, <3>1
  <2>2. e \in 1 .. Len(s) + 1
    BY <2>1, EndsAre DEF ends
  <2>3. Len(s) \in Nat
    BY TextIs
  <2>4. p = SubSeq(s, a + 1, e - 1)
    OBVIOUS
  <2> HIDE DEF a, e, p, part
  <2>5. a + 1 \in Nat \ {0} /\ e - 1 \in 0 .. Len(s)
    BY <2>1, <2>2, <2>3
  <2>6. /\ p \in Chars
        /\ \A i \in 1 .. Len(p) : p[i] = s[a + 1 + i - 1] /\ a + 1 + i - 1 \in a + 1 .. e - 1
    BY <2>4, <2>5, PartIs
  <2>7. \A i \in 1 .. Len(p) : p[i] # Comma
    <3> TAKE i \in 1 .. Len(p)
    <3> DEFINE o == a + 1 + i - 1
    <3>1. p[i] = s[o] /\ o \in a + 1 .. e - 1
      BY <2>6
    <3> HIDE DEF o
    <3>2. o \in 1 .. Len(s) + 1 /\ a < o /\ o < e /\ o \in Nat
      BY <2>1, <2>2, <2>3, <3>1
    <3>3. o \notin ends
      BY <2>1, <3>2
    <3>4. s[o] # Comma
      BY <3>2, <3>3, EndsAre DEF ends
    <3> QED
      BY <3>1, <3>4
  <2>8. /\ t \in Chars /\ Trimmed(t)
        /\ \A i \in 1 .. Len(t) : \E j \in 1 .. Len(p) : t[i] = p[j]
    BY <2>6, TrimIs
  <2> HIDE DEF t
  <2>9. t \in ItemSet
    BY <2>7, <2>8 DEF ItemSet
  <2> QED
    BY <2>9 DEF t, p
<1> HIDE DEF part
<1>7. [k \in 1 .. n |-> Trim(part(k))] \in [1 .. n -> ItemSet]
  BY <1>6
<1>8. n # 0
  <2>1. Len(s) + 1 \in ends
    BY EndsAre, TextIs DEF ends
  <2> QED
    BY <1>1, <2>1, FS_EmptySet DEF n
<1>9. Items(s) \in Seq(ItemSet) /\ Len(Items(s)) = n
  BY <1>4, <1>5, <1>7
<1> QED
  BY <1>8, <1>9

--------------------------------------------------------------------------------
(* A list as it is written.                                                *)

\* The values joined, from the first on.
IsJoin(f, values) ==
  f = [n \in 0 .. Len(values) |->
         IF n = 0 THEN <<>>
         ELSE f[n - 1] \o (IF n = 1 THEN <<>> ELSE <<Comma, Space>>) \o values[n]]

LEMMA JoinedBy ==
  ASSUME NEW values, \E f : IsJoin(f, values)
  PROVE  \E f : IsJoin(f, values) /\ Joined(values) = f[Len(values)]
<1> DEFINE f == CHOOSE f : IsJoin(f, values)
<1>1. IsJoin(f, values)
  BY Zenon
<1>2. Joined(values) = f[Len(values)]
  BY Zenon DEF Joined, IsJoin, Comma, Space
<1> QED
  BY <1>1, <1>2, Zenon

Separator(k) == IF k = 1 THEN <<>> ELSE <<Comma, Space>>

LEMMA SeparatorIs ==
  ASSUME NEW k
  PROVE  Separator(k) \in Chars
BY FourLetters DEF Separator, Chars

LEMMA JoinExists ==
  ASSUME NEW values \in Seq(Chars)
  PROVE  \E f : IsJoin(f, values)
<1> DEFINE n == Len(values)
           step == [p \in (1 .. n) \X Chars |-> p[2] \o Separator(p[1]) \o values[p[1]]]
<1>1. n \in Nat /\ \A k \in 1 .. n : values[k] \in Chars
  OBVIOUS
<1>2. \A t \in Chars, k \in 1 .. n : t \o Separator(k) \o values[k] \in Chars
  <2> TAKE t \in Chars, k \in 1 .. n
  <2>1. t \o Separator(k) \in Chars
    BY SeparatorIs, ConcatIs
  <2> QED
    BY <1>1, <2>1, ConcatIs
<1> HIDE DEF n
<1>3. step \in [(1 .. n) \X Chars -> Chars]
  <2>1. \A p \in (1 .. n) \X Chars : p[1] \in 1 .. n /\ p[2] \in Chars
    OBVIOUS
  <2>2. \A p \in (1 .. n) \X Chars : p[2] \o Separator(p[1]) \o values[p[1]] \in Chars
    BY <1>2, <2>1
  <2> QED
    BY <2>2
<1>4. \A t \in Chars, k \in 1 .. n : step[<<k, t>>] = t \o Separator(k) \o values[k]
  OBVIOUS
<1> HIDE DEF step
<1>5. PICK f : IsStepped(f, n, Chars, <<>>, step)
  BY <1>1, <1>3, NoText, SteppedExists, Zenon
<1>6. f \in [0 .. n -> Chars] /\ f[0] = <<>> /\ \A k \in 1 .. n : f[k] = step[<<k, f[k - 1]>>]
  BY <1>5 DEF IsStepped
<1> DEFINE g == [k \in 0 .. n |-> IF k = 0 THEN <<>> ELSE f[k - 1] \o Separator(k) \o values[k]]
<1>7. \A k \in 0 .. n : f[k] = g[k]
  <2> TAKE k \in 0 .. n
  <2>1. CASE k = 0
    BY <1>6, <2>1
  <2>2. CASE k # 0
    <3>1. k \in 1 .. n /\ k - 1 \in 0 .. n
      BY <1>1, <2>2
    <3>2. f[k - 1] \in Chars
      BY <1>6, <3>1
    <3>3. f[k] = f[k - 1] \o Separator(k) \o values[k]
      BY <1>4, <1>6, <3>1, <3>2
    <3> QED
      BY <2>2, <3>3
  <2> QED
    BY <2>1, <2>2
<1>8. f = g
  <2>1. f = [k \in 0 .. n |-> f[k]] /\ g = [k \in 0 .. n |-> g[k]]
    BY <1>6
  <2> HIDE DEF g
  <2>2. [k \in 0 .. n |-> f[k]] = [k \in 0 .. n |-> g[k]]
    BY <1>7
  <2> QED
    BY <2>1, <2>2
<1> QED
  BY <1>8, Zenon DEF IsJoin, Separator, n

\* What a join is at each place.
LEMMA JoinIs ==
  ASSUME NEW values \in Seq(Chars), NEW f, IsJoin(f, values)
  PROVE  /\ \A k \in 0 .. Len(values) : f[k] \in Chars
         /\ f[0] = <<>>
         /\ \A k \in 1 .. Len(values) : f[k] = f[k - 1] \o Separator(k) \o values[k]
<1> DEFINE n == Len(values)
           E(k) == IF k = 0 THEN <<>> ELSE f[k - 1] \o Separator(k) \o values[k]
<1>1. n \in Nat /\ \A k \in 1 .. n : values[k] \in Chars
  OBVIOUS
<1>2. f = [k \in 0 .. n |-> E(k)]
  BY Zenon DEF IsJoin, Separator
<1> HIDE DEF E, n
<1>3. \A k \in 0 .. n : f[k] = E(k)
  BY <1>2
<1>4. f[0] = <<>>
  <2>1. 0 \in 0 .. n
    BY <1>1
  <2>2. E(0) = <<>>
    BY DEF E
  <2> QED
    BY <1>3, <2>1, <2>2
<1>5. \A k \in 1 .. n : f[k] = f[k - 1] \o Separator(k) \o values[k]
  <2> TAKE k \in 1 .. n
  <2>1. k \in 0 .. n /\ k # 0
    BY <1>1
  <2>2. E(k) = f[k - 1] \o Separator(k) \o values[k]
    BY <2>1 DEF E
  <2> QED
    BY <1>3, <2>1, <2>2
<1> DEFINE S == {k \in 0 .. n : f[k] \in Chars}
<1>6. \A k \in 0 .. n : k \in S
  <2>1. 0 \in S
    BY <1>1, <1>4, NoText
  <2>2. ASSUME NEW k \in 1 .. n, k - 1 \in S PROVE k \in S
    <3>1. f[k - 1] \in Chars /\ values[k] \in Chars
      BY <1>1, <2>2
    <3>2. f[k - 1] \o Separator(k) \in Chars
      BY <3>1, SeparatorIs, ConcatIs
    <3>3. f[k - 1] \o Separator(k) \o values[k] \in Chars
      BY <3>1, <3>2, ConcatIs
    <3>4. k \in 0 .. n
      BY <1>1
    <3> QED
      BY <1>5, <3>3, <3>4
  <2> HIDE DEF S
  <2> QED
    BY <1>1, <2>1, <2>2, UpwardFromZero, Zenon
<1> QED
  BY <1>4, <1>5, <1>6 DEF n

\* A text, a separator and another text.
NextIs(w, t, n, v, m) ==
  /\ \A i \in 1 .. n : w[i] = t[i]
  /\ w[n + 1] = Comma /\ w[n + 2] = Space
  /\ \A i \in 1 .. m : w[n + 2 + i] = v[i]

\* w is t, a separator and v.
Follows(w, t, v) == Len(w) = Len(t) + 2 + Len(v) /\ NextIs(w, t, Len(t), v, Len(v))

LEMMA SeparatedFollows ==
  ASSUME NEW t \in Chars, NEW v \in Chars, NEW k, k # 1
  PROVE  Follows(t \o Separator(k) \o v, t, v)
<1> DEFINE c == Separator(k)
           u == t \o c
           w == u \o v
           n == Len(t)
           m == Len(v)
<1>1. c \in Chars /\ Len(c) = 2 /\ c[1] = Comma /\ c[2] = Space
  <2>1. c = <<Comma, Space>>
    BY DEF Separator
  <2> HIDE DEF c
  <2> QED
    BY <2>1, FourLetters DEF Chars
<1>2. n \in Nat /\ m \in Nat
  BY TextIs
<1> HIDE DEF c
<1>3. /\ u \in Chars /\ Len(u) = n + 2
      /\ \A i \in 1 .. n : u[i] = t[i]
      /\ \A i \in 1 .. 2 : u[n + i] = c[i]
  <2>1. /\ u \in Chars /\ Len(u) = n + Len(c)
        /\ \A i \in 1 .. n : u[i] = t[i]
        /\ \A i \in 1 .. Len(c) : u[n + i] = c[i]
    BY <1>1, ConcatIs
  <2> HIDE DEF u, n
  <2> QED
    BY <1>1, <2>1
<1> HIDE DEF u
<1>4. /\ w \in Chars /\ Len(w) = Len(u) + m
      /\ \A i \in 1 .. Len(u) : w[i] = u[i]
      /\ \A i \in 1 .. m : w[Len(u) + i] = v[i]
  BY <1>3, ConcatIs
<1> HIDE DEF w, n, m
<1>5. Len(w) = n + 2 + m /\ \A i \in 1 .. m : w[n + 2 + i] = v[i]
  BY <1>3, <1>4
<1>6. \A i \in 1 .. n : w[i] = t[i]
  <2> TAKE i \in 1 .. n
  <2>1. i \in 1 .. n + 2
    BY <1>2
  <2> QED
    BY <1>3, <1>4, <2>1
<1>7. w[n + 1] = Comma /\ w[n + 2] = Space
  <2>1. n + 1 \in 1 .. n + 2 /\ n + 2 \in 1 .. n + 2
    BY <1>2
  <2>2. w[n + 1] = u[n + 1] /\ w[n + 2] = u[n + 2]
    BY <1>3, <1>4, <2>1
  <2>3. u[n + 1] = c[1] /\ u[n + 2] = c[2]
    BY <1>3
  <2> QED
    BY <1>1, <2>2, <2>3
<1>8. NextIs(w, t, n, v, m)
  BY ONLY <1>5, <1>6, <1>7, Zenon DEF NextIs
<1>9. Follows(w, t, v)
  BY <1>5, <1>8, Zenon DEF Follows, n, m
<1> QED
  BY <1>9, Zenon DEF w, u, c

\* Parts of two texts that begin alike.
LEMMA PartsAlike ==
  ASSUME NEW s \in Chars, NEW t \in Chars, NEW m \in 0 .. Len(s), m <= Len(t),
         \A i \in 1 .. m : s[i] = t[i], NEW from \in Nat \ {0}, NEW to \in 0 .. m
  PROVE  SubSeq(s, from, to) = SubSeq(t, from, to)
<1> DEFINE a == SubSeq(s, from, to)
           b == SubSeq(t, from, to)
<1>1. Len(s) \in Nat /\ Len(t) \in Nat
  BY TextIs
<1>2. to \in 0 .. Len(s) /\ to \in 0 .. Len(t)
  BY <1>1
<1>3. /\ a \in Chars /\ Len(a) = IF from <= to THEN to - from + 1 ELSE 0
      /\ \A i \in 1 .. Len(a) : a[i] = s[from + i - 1] /\ from + i - 1 \in from .. to
  BY <1>2, PartIs
<1>4. /\ b \in Chars /\ Len(b) = IF from <= to THEN to - from + 1 ELSE 0
      /\ \A i \in 1 .. Len(b) : b[i] = t[from + i - 1] /\ from + i - 1 \in from .. to
  BY <1>2, PartIs
<1> HIDE DEF a, b
<1>5. \A i \in 1 .. Len(a) : a[i] = b[i]
  <2> TAKE i \in 1 .. Len(a)
  <2> DEFINE j == from + i - 1
  <2>1. a[i] = s[j] /\ j \in from .. to
    BY <1>3
  <2>2. b[i] = t[j]
    BY <1>3, <1>4
  <2> HIDE DEF j
  <2>3. j \in 1 .. m
    BY <1>1, <2>1
  <2> QED
    BY <2>1, <2>2, <2>3
<1>6. a = b
  BY <1>3, <1>4, <1>5, SameText
<1> QED
  BY <1>6 DEF a, b

\* The part of a joined list that has value k.
Piece(values, k) == IF k = 1 THEN values[1] ELSE <<Space>> \o values[k]

\* The first k values of a list end at at[1], ..., at[k] in the text t.
EndAt(values, k, t, at) ==
  /\ at[k] = Len(t) + 1
  /\ \A j \in 1 .. k : at[j - 1] < at[j]
  /\ \A j \in 1 .. k : SubSeq(t, at[j - 1] + 1, at[j] - 1) = Piece(values, j)
  /\ \A i \in 1 .. Len(t) : t[i] = Comma <=> \E j \in 1 .. k - 1 : i = at[j]

LEMMA FirstEndsAt ==
  ASSUME NEW values, NEW at, values[1] \in ItemSet, at[0] = 0, at[1] = Len(values[1]) + 1
  PROVE  EndAt(values, 1, values[1], at)
<1> DEFINE v == values[1]
<1>1. v \in Chars /\ \A i \in 1 .. Len(v) : v[i] # Comma
  BY DEF ItemSet
<1>2. Len(v) \in Nat
  BY <1>1, TextIs
<1> HIDE DEF v
<1>3. at[1] = Len(v) + 1
  BY DEF v
<1>4. SubSeq(v, at[0] + 1, at[1] - 1) = v
  <2>1. at[0] + 1 = 1 /\ at[1] - 1 = Len(v)
    BY <1>2, <1>3
  <2>2. SubSeq(v, 1, Len(v)) = v
    BY <1>1, SubSeqFull DEF Chars
  <2> QED
    BY <2>1, <2>2
<1>5. at[0] < at[1]
  BY <1>2, <1>3
<1>6. Piece(values, 1) = v
  BY DEF Piece, v
<1>7. \A j \in 1 .. 1 : j = 1
  OBVIOUS
<1>8. \A j \in 1 .. 1 - 1 : FALSE
  OBVIOUS
<1>9. \A j \in 1 .. 1 : at[j - 1] < at[j] /\ SubSeq(v, at[j - 1] + 1, at[j] - 1) = Piece(values, j)
  BY <1>4, <1>5, <1>6, <1>7
<1> QED
  BY <1>1, <1>3, <1>8, <1>9 DEF EndAt, v


\* A text that only rises.
LEMMA Rising ==
  ASSUME NEW n \in Nat, NEW at, \A j \in 0 .. n : at[j] \in Nat, \A j \in 1 .. n : at[j - 1] < at[j]
  PROVE  \A i, j \in 0 .. n : i < j => at[i] < at[j]
<1> DEFINE Above == {j \in 0 .. n : \A i \in 0 .. n : i < j => at[i] < at[j]}
<1>1. 0 \in Above
  OBVIOUS
<1>2. ASSUME NEW j \in 1 .. n, j - 1 \in Above PROVE j \in Above
  <2>1. j \in 0 .. n /\ j - 1 \in 0 .. n /\ at[j - 1] < at[j]
    OBVIOUS
  <2>2. ASSUME NEW i \in 0 .. n, i < j PROVE at[i] < at[j]
    <3>1. i = j - 1 \/ i < j - 1
      BY <2>2
    <3>2. i < j - 1 => at[i] < at[j - 1]
      BY <1>2
    <3>3. at[i] \in Nat /\ at[j - 1] \in Nat /\ at[j] \in Nat
      BY <2>1
    <3> QED
      BY <2>1, <3>1, <3>2, <3>3
  <2> QED
    BY <2>1, <2>2
<1> HIDE DEF Above
<1>3. \A j \in 0 .. n : j \in Above
  BY <1>1, <1>2, UpwardFromZero, Zenon
<1> QED
  BY <1>3 DEF Above

\* A value that follows a separator, with the white space before it.
LEMMA PieceFollows ==
  ASSUME NEW v \in Chars, NEW w \in Chars, NEW n \in Nat, Len(w) = n + 2 + Len(v),
         w[n + 2] = Space, \A i \in 1 .. Len(v) : w[n + 2 + i] = v[i]
  PROVE  SubSeq(w, n + 2, n + 2 + Len(v)) = <<Space>> \o v
<1> DEFINE m == Len(v)
           d == n + 2 + m
           p == SubSeq(w, n + 2, d)
           q == <<Space>> \o v
<1>1. m \in Nat
  BY TextIs
<1>2. n + 2 \in Nat \ {0} /\ d \in 0 .. Len(w) /\ n + 2 <= d /\ d - (n + 2) + 1 = 1 + m
  BY <1>1
<1> HIDE DEF d
<1>3. /\ p \in Chars /\ Len(p) = 1 + m
      /\ \A i \in 1 .. Len(p) : p[i] = w[n + 2 + i - 1]
  BY <1>2, PartIs
<1>4. <<Space>> \in Chars /\ Len(<<Space>>) = 1 /\ <<Space>>[1] = Space
  BY LetterIs, FourLetters
<1>5. /\ q \in Chars /\ Len(q) = 1 + m
      /\ \A i \in 1 .. 1 : q[i] = <<Space>>[i]
      /\ \A i \in 1 .. m : q[1 + i] = v[i]
  BY <1>4, ConcatIs
<1> HIDE DEF p, q, m
<1>6. \A i \in 1 .. m : w[n + 2 + i] = v[i]
  BY DEF m
<1>7. \A i \in 1 .. 1 + m : p[i] = q[i]
  <2> TAKE i \in 1 .. 1 + m
  <2>1. p[i] = w[n + 2 + i - 1]
    BY ONLY <1>3, i \in 1 .. 1 + m
  <2>2. CASE i = 1
    <3>1. n + 2 + i - 1 = n + 2
      BY ONLY n \in Nat, <2>2
    <3>2. q[1] = Space
      <4>1. 1 \in 1 .. 1
        OBVIOUS
      <4> QED
        BY ONLY <4>1, <1>4, <1>5
    <3> QED
      BY <2>1, <2>2, <3>1, <3>2
  <2>3. CASE i # 1
    <3>1. PICK j \in 1 .. m : n + 2 + i - 1 = n + 2 + j /\ 1 + j = i
      <4>1. /\ i - 1 \in 1 .. m /\ n + 2 + i - 1 = n + 2 + (i - 1) /\ 1 + (i - 1) = i
        BY ONLY <1>1, n \in Nat, i \in 1 .. 1 + m, <2>3
      <4> QED
        BY ONLY <4>1
    <3>2. q[1 + j] = v[j] /\ w[n + 2 + j] = v[j]
      BY ONLY <1>5, <1>6, j \in 1 .. m
    <3> QED
      BY ONLY <2>1, <3>1, <3>2
  <2> QED
    BY <2>2, <2>3
<1>8. p = q
  <2>1. \A i \in 1 .. Len(p) : p[i] = q[i]
    BY <1>3, <1>7
  <2> QED
    BY <1>3, <1>5, <2>1, SameText
<1> QED
  BY <1>8 DEF p, q, d, m

\* Its commas: the ends of the values before the last one.
Rises(at, k) == (\A j \in 0 .. k : at[j] \in Nat) /\ (\A j \in 1 .. k : at[j - 1] < at[j])

CommasAt(t, n, at, k) == \A i \in 1 .. n : t[i] = Comma <=> \E j \in 1 .. k : i = at[j]

LEMMA CommasOfNext ==
  ASSUME NEW k \in Nat, k >= 2, NEW n \in Nat, NEW m \in Nat, NEW at, NEW t, NEW v, NEW w,
         Rises(at, k), at[k - 1] = n + 1, CommasAt(t, n, at, k - 2),
         \A i \in 1 .. m : v[i] # Comma, NextIs(w, t, n, v, m)
  PROVE  CommasAt(w, n + 2 + m, at, k - 1)
<1>a. /\ \A j \in 0 .. k : at[j] \in Nat
      /\ \A j \in 1 .. k : at[j - 1] < at[j]
  BY Zenon DEF Rises
<1>b. \A i \in 1 .. n : t[i] = Comma <=> \E j \in 1 .. k - 1 - 1 : i = at[j]
  <2>1. k - 2 = k - 1 - 1
    BY ONLY k \in Nat
  <2> QED
    BY <2>1, Zenon DEF CommasAt
<1>c. /\ \A i \in 1 .. n : w[i] = t[i]
      /\ w[n + 1] = Comma /\ w[n + 2] = Space
      /\ \A i \in 1 .. m : w[n + 2 + i] = v[i]
  BY Zenon DEF NextIs
<1> SUFFICES ASSUME NEW i \in 1 .. n + 2 + m
             PROVE  w[i] = Comma <=> \E j \in 1 .. k - 1 : i = at[j]
  BY Zenon DEF CommasAt
<1>1. \A j \in 1 .. k - 1 - 1 : j \in 1 .. k - 1 /\ at[j] < n + 1
  <2>1. \A a, b \in 0 .. k : a < b => at[a] < at[b]
    BY ONLY k \in Nat, <1>a, Rising
  <2>2. \A j \in 1 .. k - 1 - 1 : j \in 0 .. k /\ j \in 1 .. k - 1 /\ k - 1 \in 0 .. k /\ j < k - 1
    BY ONLY k \in Nat, k >= 2
  <2> QED
    BY ONLY <2>1, <2>2, at[k - 1] = n + 1
<1>2. \A j \in 1 .. k - 1 : j \in 1 .. k - 1 - 1 \/ j = k - 1
  BY ONLY k \in Nat, k >= 2
<1>3. k - 1 \in 1 .. k - 1
  BY ONLY k \in Nat, k >= 2
<1>4. \A j \in 1 .. k - 1 : at[j] \in Nat
  BY ONLY k \in Nat, <1>a
<1>5. \A j \in 1 .. k - 1 : at[j] <= n + 1
  BY ONLY <1>1, <1>2, <1>4, at[k - 1] = n + 1, n \in Nat
<1>6. CASE i \in 1 .. n
  <2>1. w[i] = Comma <=> \E j \in 1 .. k - 1 - 1 : i = at[j]
    BY ONLY <1>b, <1>c, <1>6
  <2>2. i # at[k - 1]
    BY ONLY <1>6, n \in Nat, at[k - 1] = n + 1
  <2> QED
    BY <1>1, <1>2, <2>1, <2>2, Zenon
<1>7. CASE i = n + 1
  <2>1. w[i] = Comma /\ i = at[k - 1]
    BY ONLY <1>7, <1>c, at[k - 1] = n + 1
  <2> QED
    BY ONLY <1>3, <2>1
<1>8. CASE i \in n + 2 .. n + 2 + m
  <2>1. \A j \in 1 .. k - 1 : i # at[j]
    BY ONLY <1>4, <1>5, <1>8, n \in Nat
  <2>2. w[i] # Comma
    <3>1. CASE i = n + 2
      BY ONLY <3>1, <1>c, FourLetters
    <3>2. CASE i # n + 2
      <4>1. i - (n + 2) \in 1 .. m /\ n + 2 + (i - (n + 2)) = i
        BY ONLY <1>8, <3>2, n \in Nat, m \in Nat
      <4>2. PICK d \in 1 .. m : n + 2 + d = i
        BY ONLY <4>1
      <4> QED
        BY ONLY <4>2, <1>c, \A j \in 1 .. m : v[j] # Comma
    <3> QED
      BY <3>1, <3>2
  <2> QED
    BY <2>1, <2>2
<1>9. i \in 1 .. n \/ i = n + 1 \/ i \in n + 2 .. n + 2 + m
  BY ONLY i \in 1 .. n + 2 + m, n \in Nat, m \in Nat
<1> QED
  BY <1>6, <1>7, <1>8, <1>9

AreNats(at, k) == \A j \in 0 .. k : at[j] \in Nat

LEMMA NextEndsAt ==
  ASSUME NEW values, NEW k \in Nat, k >= 2, NEW t \in Chars, NEW at, EndAt(values, k - 1, t, at),
         values[k] \in ItemSet, AreNats(at, k), NEW w \in Chars, Follows(w, t, values[k]),
         at[k] = Len(w) + 1
  PROVE  EndAt(values, k, w, at)
<1> DEFINE v == values[k]
           n == Len(t)
           m == Len(v)
<1>a. n \in Nat /\ m \in Nat
  BY TextIs DEF ItemSet
<1>b. n = Len(t) /\ m = Len(v) /\ v = values[k] /\ v \in ItemSet
  OBVIOUS
<1>c. Len(w) = n + 2 + m /\ NextIs(w, t, n, v, m)
  BY Zenon DEF Follows
<1> HIDE DEF v, n, m
<1>d. \A i \in 1 .. n : w[i] = t[i]
  BY ONLY <1>c, Zenon DEF NextIs
<1>e. w[n + 1] = Comma /\ w[n + 2] = Space /\ \A i \in 1 .. m : w[n + 2 + i] = v[i]
  BY ONLY <1>c, Zenon DEF NextIs
<1>f. \A j \in 0 .. k : at[j] \in Nat
  BY ONLY AreNats(at, k), Zenon DEF AreNats
<1>1. v \in Chars /\ \A i \in 1 .. m : v[i] # Comma
  BY <1>b DEF ItemSet
<1>2. /\ at[k - 1] = n + 1
      /\ \A j \in 1 .. k - 1 : at[j - 1] < at[j]
      /\ \A j \in 1 .. k - 1 : SubSeq(t, at[j - 1] + 1, at[j] - 1) = Piece(values, j)
      /\ \A i \in 1 .. n : t[i] = Comma <=> \E j \in 1 .. k - 1 - 1 : i = at[j]
  BY <1>b DEF EndAt
<1>3. at[k] = n + 2 + m + 1
  BY ONLY at[k] = Len(w) + 1, <1>c
<1>4. \A j \in 1 .. k : j \in 1 .. k - 1 \/ j = k
  BY ONLY k \in Nat
<1>5. at[k - 1] < at[k]
  BY ONLY <1>2, <1>3, <1>a
<1>6. \A j \in 1 .. k : at[j - 1] < at[j]
  BY ONLY <1>2, <1>4, <1>5
<1>7. SubSeq(w, at[k - 1] + 1, at[k] - 1) = Piece(values, k)
  <2>1. n + 1 + 1 = n + 2 /\ n + 2 + m + 1 - 1 = n + 2 + m
    BY ONLY <1>a
  <2>2. SubSeq(w, n + 2, n + 2 + m) = <<Space>> \o v
    BY ONLY <1>1, <1>a, <1>b, <1>c, <1>e, w \in Chars, PieceFollows
  <2>3. Piece(values, k) = <<Space>> \o v
    BY <1>b DEF Piece
  <2>4. at[k - 1] + 1 = n + 2 /\ at[k] - 1 = n + 2 + m
    <3> DEFINE a == at[k - 1]
               b == at[k]
    <3>1. a = n + 1 /\ b = n + 2 + m + 1
      BY ONLY <1>2, <1>3
    <3> HIDE DEF a, b
    <3>2. a + 1 = n + 2 /\ b - 1 = n + 2 + m
      BY ONLY <3>1, <1>a
    <3> QED
      BY ONLY <3>2 DEF a, b
  <2> QED
    BY ONLY <2>2, <2>3, <2>4, Zenon
<1>8. ASSUME NEW j \in 1 .. k - 1
      PROVE  SubSeq(w, at[j - 1] + 1, at[j] - 1) = Piece(values, j)
  <2>1. j - 1 \in 0 .. k /\ j \in 0 .. k /\ k - 1 \in 0 .. k /\ (j = k - 1 \/ j < k - 1) /\ j \in 1 .. k
    BY ONLY k \in Nat, k >= 2, j \in 1 .. k - 1
  <2>2. \A a, b \in 0 .. k : a < b => at[a] < at[b]
    BY ONLY <1>6, k \in Nat, <1>f, Rising
  <2>3. at[j - 1] \in Nat /\ at[j] \in Nat /\ at[j - 1] < at[j]
    BY ONLY <2>1, <1>6, <1>f
  <2>4. at[j] <= n + 1
    <3>1. at[k - 1] = n + 1
      BY <1>2
    <3>2. at[j] = n + 1 \/ at[j] < n + 1
      BY ONLY <2>1, <2>2, <3>1, Zenon
    <3> QED
      BY ONLY <2>3, <3>2, <1>a
  <2>5. at[j - 1] + 1 \in Nat \ {0} /\ at[j] - 1 \in 0 .. n
    BY ONLY <2>3, <2>4, <1>a
  <2>6. n \in 0 .. Len(t) /\ n <= Len(w) /\ \A i \in 1 .. n : t[i] = w[i]
    <3>1. n \in 0 .. n /\ n <= n + 2 + m
      BY ONLY <1>a
    <3> QED
      BY ONLY <3>1, <1>b, <1>c, <1>d
  <2>7. SubSeq(t, at[j - 1] + 1, at[j] - 1) = SubSeq(w, at[j - 1] + 1, at[j] - 1)
    BY ONLY <2>5, <2>6, PartsAlike, t \in Chars, w \in Chars, Zenon
  <2> QED
    BY ONLY <1>2, <2>7, j \in 1 .. k - 1
<1>9. \A j \in 1 .. k : SubSeq(w, at[j - 1] + 1, at[j] - 1) = Piece(values, j)
  <2> DEFINE Good == {j \in 1 .. k : SubSeq(w, at[j - 1] + 1, at[j] - 1) = Piece(values, j)}
  <2>1. \A j \in 1 .. k - 1 : j \in Good
    <3>1. \A j \in 1 .. k - 1 : j \in 1 .. k
      BY ONLY k \in Nat
    <3> QED
      BY ONLY <1>8, <3>1, Zenon
  <2>2. k \in Good
    <3>1. k \in 1 .. k
      BY ONLY k \in Nat, k >= 2
    <3> QED
      BY ONLY <1>7, <3>1, Zenon
  <2> HIDE DEF Good
  <2>3. \A j \in 1 .. k : j \in Good
    BY ONLY <1>4, <2>1, <2>2, Zenon
  <2> QED
    BY ONLY <2>3, Zenon DEF Good
<1>10. \A i \in 1 .. Len(w) : w[i] = Comma <=> \E j \in 1 .. k - 1 : i = at[j]
  <2>1. CommasAt(t, n, at, k - 2)
    <3>1. k - 1 - 1 = k - 2
      BY ONLY k \in Nat
    <3> QED
      BY <1>2, <3>1, Zenon DEF CommasAt
  <2>2. Rises(at, k)
    BY <1>6, <1>f, Zenon DEF Rises
  <2>4. CommasAt(w, n + 2 + m, at, k - 1)
    BY ONLY <1>1, <1>2, <2>1, <2>2, <1>a, <1>c, k \in Nat, k >= 2, CommasOfNext, Zenon
  <2> QED
    BY ONLY <1>c, <2>4, Zenon DEF CommasAt
<1> QED
  BY <1>6, <1>9, <1>10, Zenon DEF EndAt

\* Where the items of a joined list end.
LEMMA JoinEndsAt ==
  ASSUME NEW values \in Seq(ItemSet), values # <<>>, NEW f, IsJoin(f, values),
         NEW at, at = [k \in 0 .. Len(values) |-> IF k = 0 THEN 0 ELSE Len(f[k]) + 1]
  PROVE  /\ at \in [0 .. Len(values) -> Nat] /\ at[0] = 0
         /\ EndAt(values, Len(values), f[Len(values)], at)
<1> DEFINE n == Len(values)
<1>1. /\ n \in Nat /\ n >= 1 /\ values \in Seq(Chars)
      /\ \A k \in 1 .. n : values[k] \in ItemSet /\ values[k] \in Chars
  BY DEF ItemSet
<1>2. /\ \A k \in 0 .. n : f[k] \in Chars
      /\ f[0] = <<>>
      /\ \A k \in 1 .. n : f[k] = f[k - 1] \o Separator(k) \o values[k]
  BY <1>1, JoinIs
<1>3. at = [k \in 0 .. n |-> IF k = 0 THEN 0 ELSE Len(f[k]) + 1]
  OBVIOUS
<1> HIDE DEF n
<1>4. \A k \in 0 .. n : Len(f[k]) \in Nat
  BY <1>2, TextIs
<1>5. /\ at \in [0 .. n -> Nat] /\ at[0] = 0
      /\ \A k \in 1 .. n : at[k] = Len(f[k]) + 1
  BY ONLY <1>1, <1>3, <1>4
<1> DEFINE S == {k \in 0 .. n : k = 0 \/ EndAt(values, k, f[k], at)}
<1>6. 0 \in S
  BY ONLY <1>1
<1>7. ASSUME NEW k \in 1 .. n, k - 1 \in S PROVE k \in S
  <2>1. k \in Nat /\ k - 1 \in 0 .. n /\ k \in 0 .. n
    BY <1>1
  <2>2. CASE k = 1
    <3>1. f[1] = values[1]
      <4>1. f[1] = <<>> \o Separator(1) \o values[1]
        <5>1. 1 \in 1 .. n /\ 1 - 1 = 0
          BY ONLY <1>1
        <5> QED
          BY ONLY <1>2, <5>1
      <4>2. Separator(1) = <<>>
        BY DEF Separator
      <4>3. <<>> \o <<>> \o values[1] = values[1]
        BY <1>1 DEF Chars
      <4> QED
        BY ONLY <4>1, <4>2, <4>3, Zenon
    <3>2. 1 \in 1 .. n
      BY ONLY <1>1
    <3>3. EndAt(values, 1, values[1], at)
      BY ONLY <1>1, <1>5, <3>1, <3>2, FirstEndsAt, Zenon
    <3>4. EndAt(values, k, f[k], at)
      BY ONLY <2>2, <3>1, <3>3, Zenon
    <3> QED
      BY <2>1, <3>4
  <2>3. CASE k # 1
    <3> DEFINE t == f[k - 1]
               v == values[k]
               w == f[k]
    <3>1. k >= 2 /\ k # 1 /\ k - 1 # 0
      BY ONLY <2>3, k \in 1 .. n, <1>1
    <3>2. EndAt(values, k - 1, t, at)
      BY <1>7, <3>1
    <3>3. t \in Chars /\ v \in Chars /\ v \in ItemSet /\ w \in Chars /\ w = t \o Separator(k) \o v
      BY <1>1, <1>2, <2>1
    <3>4. at[k] = Len(w) + 1
      BY <1>5
    <3>5. \A j \in 0 .. k : at[j] \in Nat
      <4>1. \A j \in 0 .. k : j \in 0 .. n
        BY ONLY <1>1, k \in 1 .. n
      <4> QED
        BY ONLY <1>5, <4>1
    <3>6. v = values[k]
      OBVIOUS
    <3> HIDE DEF t, v, w
    <3>7. Follows(w, t, v)
      BY ONLY <3>1, <3>3, SeparatedFollows, Zenon
    <3>8. AreNats(at, k)
      BY ONLY <3>5, Zenon DEF AreNats
    <3>9. EndAt(values, k, w, at)
      BY ONLY <2>1, <3>1, <3>2, <3>3, <3>4, <3>6, <3>7, <3>8, NextEndsAt, Zenon
    <3> QED
      BY <2>1, <3>9 DEF w
  <2> QED
    BY <2>2, <2>3
<1> HIDE DEF S
<1>8. \A k \in 0 .. n : k \in S
  BY ONLY <1>1, <1>6, <1>7, UpwardFromZero, Zenon
<1>9. n \in S /\ n # 0
  BY ONLY <1>1, <1>8
<1>10. EndAt(values, n, f[n], at)
  BY ONLY <1>9 DEF S
<1> QED
  BY ONLY <1>5, <1>10 DEF n

\* The ends are the cuts of the parts.
LEMMA EndsOfJoin ==
  ASSUME NEW values, NEW n \in Nat, n >= 1, NEW s \in Chars, NEW at \in [0 .. n -> Nat], at[0] = 0,
         EndAt(values, n, s, at)
  PROVE  EndsOf(s) = EndPlaces(at, n)
<1> DEFINE l == Len(s)
<1>1. l \in Nat
  BY TextIs
<1>2. /\ at[n] = l + 1
      /\ \A j \in 1 .. n : at[j - 1] < at[j]
      /\ \A i \in 1 .. l : s[i] = Comma <=> \E j \in 1 .. n - 1 : i = at[j]
  BY Zenon DEF EndAt
<1>3. \A e : e \in EndsOf(s) <=> e \in 1 .. l + 1 /\ (e = l + 1 \/ s[e] = Comma)
  BY EndsAre
<1> HIDE DEF l
<1>4. \A j \in 0 .. n : at[j] \in Nat
  OBVIOUS
<1>5. \A a, b \in 0 .. n : a < b => at[a] < at[b]
  BY ONLY n \in Nat, <1>2, <1>4, Rising
<1>6. \A j \in 1 .. n - 1 : j \in 0 .. n /\ 0 \in 0 .. n /\ n \in 0 .. n /\ 0 < j /\ j < n
  BY ONLY n \in Nat, n >= 1
<1>7. \A j \in 1 .. n - 1 : at[j] \in 1 .. l
  <2> TAKE j \in 1 .. n - 1
  <2>1. 0 < at[j] /\ at[j] < l + 1 /\ at[j] \in Nat
    BY ONLY <1>2, <1>4, <1>5, <1>6, at[0] = 0
  <2> QED
    BY ONLY <1>1, <2>1
<1>8. \A j \in 1 .. n : j \in 1 .. n - 1 \/ j = n
  BY ONLY n \in Nat
<1>9. n \in 1 .. n /\ \A j \in 1 .. n - 1 : j \in 1 .. n
  BY ONLY n \in Nat, n >= 1
<1>10. l + 1 \in 1 .. l + 1 /\ \A e \in 1 .. l : e \in 1 .. l + 1
  BY ONLY <1>1
<1>11. \A e \in 1 .. l + 1 : e = l + 1 \/ e \in 1 .. l
  BY ONLY <1>1
<1>12. ASSUME NEW e \in EndsOf(s) PROVE \E k \in 1 .. n : e = at[k]
  <2>1. e = l + 1 \/ (e \in 1 .. l /\ s[e] = Comma)
    BY ONLY <1>3, <1>11, e \in EndsOf(s), Zenon
  <2> QED
    BY ONLY <1>2, <1>9, <2>1, Zenon
<1>13. ASSUME NEW k \in 1 .. n PROVE at[k] \in EndsOf(s)
  <2>1. CASE k = n
    BY ONLY <1>2, <1>3, <1>10, <2>1, Zenon
  <2>2. CASE k \in 1 .. n - 1
    <3>1. at[k] \in 1 .. l
      BY ONLY <1>7, <2>2, Zenon
    <3>2. s[at[k]] = Comma
      BY ONLY <1>2, <2>2, <3>1, Zenon
    <3> QED
      BY ONLY <1>3, <1>10, <3>1, <3>2, Zenon
  <2> QED
    BY <1>8, <2>1, <2>2
<1> QED
  BY <1>12, <1>13, Zenon DEF EndPlaces

\* Reading a list gives what was joined.
LEMMA JoinedItems ==
  ASSUME NEW values \in Seq(ItemSet), values # <<>>
  PROVE  Joined(values) \in Chars /\ Items(Joined(values)) = values
<1> DEFINE n == Len(values)
<1>1. /\ n \in Nat /\ n >= 1 /\ values \in Seq(Chars)
      /\ \A k \in 1 .. n : values[k] \in ItemSet /\ values[k] \in Chars
  BY DEF ItemSet
<1>2. PICK f : IsJoin(f, values) /\ Joined(values) = f[n]
  BY <1>1, JoinExists, JoinedBy, Zenon
<1> DEFINE s == f[n]
           at == [k \in 0 .. n |-> IF k = 0 THEN 0 ELSE Len(f[k]) + 1]
<1>3. s \in Chars
  <2>1. \A k \in 0 .. n : f[k] \in Chars
    BY <1>1, <1>2, JoinIs
  <2> QED
    BY <1>1, <2>1
<1>4. /\ at \in [0 .. n -> Nat] /\ at[0] = 0
      /\ EndAt(values, n, s, at)
  BY ONLY <1>2, JoinEndsAt, values \in Seq(ItemSet), values # <<>>, Zenon
<1>5. values = [k \in 1 .. n |-> values[k]]
  OBVIOUS
<1>6. n \in Nat /\ n >= 1
  BY ONLY <1>1
<1> HIDE DEF n, s, at
<1>6a. EndsOf(s) = EndPlaces(at, n)
  BY ONLY <1>6, <1>3, <1>4, EndsOfJoin, Zenon
<1>7. PICK cut : /\ CutsOf(cut, EndsOf(s))
                 /\ BetweenCommas(s) = [k \in 1 .. Cardinality(EndsOf(s)) |->
                                          SubSeq(s, cut[k - 1] + 1, cut[k] - 1)]
  <2>1. EndsOf(s) \in SUBSET (Nat \ {0}) /\ IsFiniteSet(EndsOf(s))
    BY <1>3, EndsAre
  <2>2. EndsOf(s) \in SUBSET Nat
    BY ONLY <2>1
  <2>3. \E cut : CutsOf(cut, EndsOf(s))
    BY ONLY <2>1, <2>2, CutsExist, Zenon
  <2> QED
    BY ONLY <2>3, PartsByCuts, Zenon
<1>8. /\ \A j \in 1 .. n : at[j - 1] < at[j]
      /\ \A j \in 1 .. n : SubSeq(s, at[j - 1] + 1, at[j] - 1) = Piece(values, j)
  BY <1>4, Zenon DEF EndAt
<1>9. Cardinality(EndsOf(s)) = n /\ \A k \in 0 .. n : cut[k] = at[k]
  BY ONLY <1>4, <1>6, <1>6a, <1>7, <1>8, CutsFound, Zenon
<1> DEFINE parts == BetweenCommas(s)
<1>10. parts = [k \in 1 .. n |-> SubSeq(s, cut[k - 1] + 1, cut[k] - 1)]
  BY ONLY <1>7, <1>9, Zenon
<1>11. \A k \in 1 .. n : Trim(SubSeq(s, cut[k - 1] + 1, cut[k] - 1)) = values[k]
  <2> TAKE k \in 1 .. n
  <2>1. k - 1 \in 0 .. n /\ k \in 0 .. n
    BY ONLY <1>1, k \in 1 .. n
  <2>2. SubSeq(s, cut[k - 1] + 1, cut[k] - 1) = Piece(values, k)
    <3>1. cut[k - 1] = at[k - 1] /\ cut[k] = at[k]
      BY ONLY <1>9, <2>1, Zenon
    <3>2. SubSeq(s, at[k - 1] + 1, at[k] - 1) = Piece(values, k)
      BY ONLY <1>8, k \in 1 .. n, Zenon
    <3> QED
      BY ONLY <3>1, <3>2, Zenon
  <2>3. values[k] \in Chars /\ Trimmed(values[k])
    BY ONLY <1>1, k \in 1 .. n DEF ItemSet
  <2>4. Trim(values[k]) = values[k] /\ Trim(<<Space>> \o values[k]) = values[k]
    BY ONLY <2>3, TrimAgain, Zenon
  <2>5. Trim(Piece(values, k)) = values[k]
    <3>1. CASE k = 1
      BY ONLY <2>4, <3>1, Zenon DEF Piece
    <3>2. CASE k # 1
      BY ONLY <2>4, <3>2, Zenon DEF Piece
    <3> QED
      BY <3>1, <3>2
  <2> QED
    BY ONLY <2>2, <2>5, Zenon
<1>12. Items(s) = [k \in DOMAIN parts |-> Trim(parts[k])]
  BY Zenon DEF Items
<1>13. DOMAIN parts = 1 .. n
  BY ONLY <1>10, Zenon
<1> HIDE DEF parts
<1>14. \A k \in 1 .. n : Trim(parts[k]) = values[k]
  <2> TAKE k \in 1 .. n
  <2>1. parts[k] = SubSeq(s, cut[k - 1] + 1, cut[k] - 1)
    BY ONLY <1>10, k \in 1 .. n, Zenon
  <2> QED
    BY ONLY <1>11, <2>1, k \in 1 .. n, Zenon
<1>15. Items(s) = [k \in 1 .. n |-> Trim(parts[k])]
  BY ONLY <1>12, <1>13, Zenon
<1>16. Items(s) = values
  BY ONLY <1>5, <1>14, <1>15, Zenon
<1> QED
  BY <1>2, <1>3, <1>16 DEF s

--------------------------------------------------------------------------------
(* An entry and the line it is written as.                                 *)

LEMMA BracketedIs ==
  ASSUME NEW v
  PROVE  Bracketed(v) <=> Len(v) >= 2 /\ Head(v) = Open /\ v[Len(v)] = Close
BY Zenon DEF Bracketed, Last, Open, Close

LEMMA ListTextIs ==
  ASSUME NEW values
  PROVE  ListText(values) = <<Space, Open>> \o Joined(values) \o <<Close>>
BY Zenon DEF ListText, Space, Open, Close

\* The entry for a value without white space at its ends.
EntryFrom(key, v) ==
  [key    |-> key,
   list   |-> Bracketed(v),
   values |-> IF ~Bracketed(v) THEN <<v>>
              ELSE IF Len(v) = 2 THEN <<>>
              ELSE Items(SubSeq(v, 2, Len(v) - 1))]

LEMMA EntryOfIs ==
  ASSUME NEW line
  PROVE  EntryOf(line) = EntryFrom(line.key, Trim(line.raw))
BY Zenon DEF EntryOf, EntryFrom

WrittenRaw(e) ==
  IF e.list THEN ListText(e.values)
  ELSE <<Space>> \o (IF e.values = <<>> THEN <<>> ELSE Head(e.values))

LEMMA WrittenIs ==
  ASSUME NEW e
  PROVE  Written(e) = FieldLine(e.key, WrittenRaw(e))
BY Zenon DEF Written, WrittenRaw, Space

LEMMA WrittenEntryIs ==
  ASSUME NEW e
  PROVE  EntryOf(Written(e)) = EntryFrom(e.key, Trim(WrittenRaw(e)))
<1>1. FieldLine(e.key, WrittenRaw(e)).key = e.key /\ FieldLine(e.key, WrittenRaw(e)).raw = WrittenRaw(e)
  BY Zenon DEF FieldLine
<1> QED
  BY <1>1, WrittenIs, EntryOfIs, Zenon

\* A text in brackets.
LEMMA InBrackets ==
  ASSUME NEW j \in Chars, NEW u, u = <<Open>> \o j \o <<Close>>
  PROVE  /\ u \in Chars /\ Len(u) = Len(j) + 2 /\ Trimmed(u) /\ Bracketed(u)
         /\ SubSeq(u, 2, Len(u) - 1) = j
<1> DEFINE n == Len(j)
           h == <<Open>> \o j
<1>1. n \in Nat
  BY TextIs
<1>2. /\ <<Open>> \in Chars /\ Len(<<Open>>) = 1 /\ <<Open>>[1] = Open
      /\ <<Close>> \in Chars /\ Len(<<Close>>) = 1 /\ <<Close>>[1] = Close
  BY LetterIs, FourLetters
<1>3. h \in Chars /\ Len(h) = n + 1 /\ h[1] = Open /\ \A i \in 1 .. n : h[1 + i] = j[i]
  <2>1. /\ h \in Chars /\ Len(h) = 1 + n
        /\ \A i \in 1 .. 1 : h[i] = <<Open>>[i]
        /\ \A i \in 1 .. n : h[1 + i] = j[i]
    BY <1>2, ConcatIs
  <2> HIDE DEF h, n
  <2>2. 1 \in 1 .. 1
    OBVIOUS
  <2>3. h[1] = Open
    BY ONLY <1>2, <2>1, <2>2
  <2>4. 1 + n = n + 1
    BY ONLY <1>1
  <2> QED
    BY ONLY <2>1, <2>3, <2>4
<1>4. u = h \o <<Close>>
  OBVIOUS
<1> HIDE DEF h
<1>5. /\ u \in Chars /\ Len(u) = n + 2
      /\ \A i \in 1 .. n + 1 : u[i] = h[i]
      /\ u[n + 2] = Close
  <2>1. /\ u \in Chars /\ Len(u) = Len(h) + 1
        /\ \A i \in 1 .. Len(h) : u[i] = h[i]
        /\ \A i \in 1 .. 1 : u[Len(h) + i] = <<Close>>[i]
    BY ONLY <1>2, <1>3, <1>4, ConcatIs
  <2> HIDE DEF n
  <2>2. 1 \in 1 .. 1 /\ n + 1 + 1 = n + 2
    BY ONLY <1>1
  <2>3. u[n + 1 + 1] = Close
    BY ONLY <1>2, <1>3, <2>1, <2>2
  <2> QED
    BY ONLY <1>3, <2>1, <2>2, <2>3
<1> HIDE DEF n
<1>6. u[1] = Open
  <2>1. 1 \in 1 .. n + 1
    BY ONLY <1>1
  <2> QED
    BY ONLY <1>3, <1>5, <2>1
<1>7. \A i \in 1 .. n : u[1 + i] = j[i]
  <2>1. \A i \in 1 .. n : 1 + i \in 1 .. n + 1
    BY ONLY <1>1
  <2> QED
    BY ONLY <1>3, <1>5, <2>1
<1>8. Trimmed(u)
  BY ONLY <1>5, <1>6, FourLetters DEF Trimmed
<1>9. Bracketed(u)
  <2>1. Head(u) = u[1] /\ n + 2 >= 2
    BY <1>1, <1>5 DEF Chars
  <2> QED
    BY ONLY <1>5, <1>6, <2>1, BracketedIs
<1>10. SubSeq(u, 2, Len(u) - 1) = j
  <2> DEFINE p == SubSeq(u, 2, n + 1)
  <2> HIDE DEF p
  <2>a. n + 1 \in 0 .. Len(u) /\ Len(u) - 1 = n + 1
    <3> DEFINE l == Len(u)
    <3>1. l = n + 2
      BY <1>5
    <3> HIDE DEF l
    <3>2. n + 1 \in 0 .. l /\ l - 1 = n + 1
      BY ONLY <1>1, <3>1
    <3> QED
      BY ONLY <3>2 DEF l
  <2>2. p \in Chars /\ Len(p) = n /\ \A i \in 1 .. n : p[i] = u[1 + i]
    <3> DEFINE c == 2
               d == n + 1
    <3>1. c \in Nat \ {0} /\ d \in 0 .. Len(u)
      BY ONLY <2>a
    <3>2. p = SubSeq(u, c, d)
      BY DEF p
    <3>3. (IF c <= d THEN d - c + 1 ELSE 0) = n /\ \A i \in 1 .. n : c + i - 1 = 1 + i
      BY ONLY <1>1 DEF c, d
    <3> HIDE DEF c, d
    <3>4. /\ p \in Chars /\ Len(p) = IF c <= d THEN d - c + 1 ELSE 0
          /\ \A i \in 1 .. Len(p) : p[i] = u[c + i - 1]
      BY ONLY <1>5, <3>1, <3>2, PartIs
    <3>5. Len(p) = n
      BY ONLY <3>3, <3>4
    <3>6. \A i \in 1 .. n : p[i] = u[1 + i]
      BY ONLY <3>3, <3>4, <3>5
    <3> QED
      BY ONLY <3>4, <3>5, <3>6
  <2>4. \A i \in 1 .. n : p[i] = j[i]
    BY ONLY <1>7, <2>2
  <2>5. Len(p) = Len(j) /\ \A i \in 1 .. Len(p) : p[i] = j[i]
    BY <2>2, <2>4 DEF n
  <2>6. p = j
    BY ONLY <2>2, <2>5, j \in Chars, SameText
  <2>7. SubSeq(u, 2, Len(u) - 1) = p
    BY ONLY <2>a, Zenon DEF p
  <2> QED
    BY ONLY <2>6, <2>7
<1> QED
  BY <1>5, <1>8, <1>9, <1>10 DEF n

LEMMA LettersJoin ==
  \A x, y, z \in Seq(Letters) : (x \o y) \o z = x \o (y \o z)
<1> TAKE x, y, z \in Seq(Letters)
<1> DEFINE A == Letters
<1>1. x \in Seq(A) /\ y \in Seq(A) /\ z \in Seq(A)
  OBVIOUS
<1> HIDE DEF A
<1> QED
  BY ONLY <1>1, ConcatAssociative

\* The text of a list, read again.
LEMMA ListTextTrimmed ==
  ASSUME NEW values, NEW j \in Chars, j = Joined(values)
  PROVE  Trim(ListText(values)) = <<Open>> \o j \o <<Close>>
<1> DEFINE u == <<Open>> \o j \o <<Close>>
<1>1. u \in Chars /\ Trimmed(u)
  BY InBrackets
<1>2. <<Space, Open>> \o j \o <<Close>> = <<Space>> \o u
  <2> DEFINE a == <<Space>>
             b == <<Open>>
             c == <<Close>>
  <2>1. a \in Seq(Letters) /\ b \in Seq(Letters) /\ c \in Seq(Letters) /\ <<Space, Open>> = a \o b
    BY FourLetters
  <2>2. j \in Seq(Letters)
    BY DEF Chars
  <2> HIDE DEF a, b, c
  <2>3. b \o j \in Seq(Letters)
    BY ONLY <2>1, <2>2
  <2>4. (a \o b) \o j = a \o (b \o j)
    BY ONLY <2>1, <2>2, LettersJoin
  <2>5. (a \o (b \o j)) \o c = a \o ((b \o j) \o c)
    <3> DEFINE d == b \o j
    <3>1. d \in Seq(Letters)
      BY <2>3
    <3> HIDE DEF d
    <3>2. (a \o d) \o c = a \o (d \o c)
      BY ONLY <2>1, <3>1, LettersJoin, ZenonT(40)
    <3> QED
      BY <3>2 DEF d
  <2> QED
    BY ONLY <2>1, <2>4, <2>5, Zenon DEF u, a, b, c
<1> HIDE DEF u
<1>3. Trim(<<Space>> \o u) = u
  BY ONLY <1>1, TrimAgain
<1>4. ListText(values) = <<Space, Open>> \o j \o <<Close>>
  BY ListTextIs
<1>5. Trim(ListText(values)) = u
  BY ONLY <1>2, <1>3, <1>4
<1> QED
  BY <1>5 DEF u

LEMMA JoinedNone == Joined(<<>>) = <<>>
<1> DEFINE values == <<>>
<1>1. values \in Seq(Chars) /\ Len(values) = 0
  OBVIOUS
<1>2. PICK f : IsJoin(f, values) /\ Joined(values) = f[Len(values)]
  <2> HIDE DEF values
  <2> QED
    BY ONLY <1>1, JoinExists, JoinedBy, Zenon
<1>3. f[0] = <<>>
  <2> HIDE DEF values
  <2> QED
    BY ONLY <1>1, <1>2, JoinIs, Zenon
<1> QED
  BY ONLY <1>1, <1>2, <1>3, Zenon DEF values

LEMMA JoinedOne == Joined(<< <<>> >>) = <<>>
<1> DEFINE values == << <<>> >>
<1>1. values \in Seq(Chars) /\ Len(values) = 1 /\ values[1] = <<>>
  BY NoText
<1> HIDE DEF values
<1>2. PICK f : IsJoin(f, values) /\ Joined(values) = f[Len(values)]
  BY ONLY <1>1, JoinExists, JoinedBy, Zenon
<1>3. /\ f[0] = <<>>
      /\ \A k \in 1 .. Len(values) : f[k] = f[k - 1] \o Separator(k) \o values[k]
  BY ONLY <1>1, <1>2, JoinIs, Zenon
<1>4. f[1] = f[0] \o Separator(1) \o values[1]
  <2>1. 1 \in 1 .. Len(values) /\ 1 - 1 = 0
    BY ONLY <1>1
  <2> QED
    BY ONLY <1>3, <2>1
<1>5. <<>> \o <<>> \o <<>> = <<>>
  OBVIOUS
<1>6. Separator(1) = <<>>
  BY DEF Separator
<1> QED
  BY ONLY <1>1, <1>2, <1>3, <1>4, <1>5, <1>6, Zenon DEF values

\* Only one empty item joins to nothing.
LEMMA JoinedNothing ==
  ASSUME NEW values \in Seq(ItemSet), values # <<>>, Len(Joined(values)) = 0
  PROVE  values = << <<>> >>
<1> DEFINE n == Len(values)
<1>1. n \in Nat /\ n >= 1 /\ values \in Seq(Chars) /\ \A k \in 1 .. n : values[k] \in Chars
  BY DEF ItemSet
<1>2. PICK f : IsJoin(f, values) /\ Joined(values) = f[n]
  BY <1>1, JoinExists, JoinedBy, Zenon
<1> DEFINE s == f[n]
           at == [k \in 0 .. n |-> IF k = 0 THEN 0 ELSE Len(f[k]) + 1]
<1>3. /\ at \in [0 .. n -> Nat] /\ at[0] = 0
      /\ EndAt(values, n, s, at)
  BY ONLY <1>2, JoinEndsAt, values \in Seq(ItemSet), values # <<>>, Zenon
<1>4. Len(s) = 0
  BY <1>2
<1>5. \A k \in 0 .. n : at[k] \in Nat
  BY <1>3
<1>6. n = Len(values)
  OBVIOUS
<1> HIDE DEF n, s, at
<1>7. /\ at[n] = 0 + 1
      /\ \A j \in 1 .. n : at[j - 1] < at[j]
      /\ \A j \in 1 .. n : SubSeq(s, at[j - 1] + 1, at[j] - 1) = Piece(values, j)
  BY <1>3, <1>4, Zenon DEF EndAt
<1>8. n = 1
  <2>1. 0 \in 0 .. n /\ n \in 0 .. n /\ 1 \in 0 .. n /\ (0 < 1) /\ (n = 1 \/ 1 < n)
    BY ONLY <1>1
  <2>2. \A a, b \in 0 .. n : a < b => at[a] < at[b]
    BY ONLY <1>1, <1>5, <1>7, Rising
  <2>3. 0 < at[1] /\ (n # 1 => at[1] < at[n]) /\ at[1] \in Nat
    BY ONLY <1>3, <1>5, <2>1, <2>2
  <2> DEFINE a == at[1]
             b == at[n]
  <2>4. a \in Nat /\ 0 < a /\ b = 1 /\ (n # 1 => a < b)
    BY <1>7, <2>3
  <2> HIDE DEF a, b
  <2> QED
    BY ONLY <2>4
<1>9. values[1] = <<>>
  <2>1. 1 \in 1 .. n /\ 1 - 1 = 0 /\ 0 + 1 = 1 /\ 1 - 1 = 0
    BY ONLY <1>8
  <2>2. SubSeq(s, at[0] + 1, at[1] - 1) = Piece(values, 1)
    BY ONLY <1>7, <2>1
  <2>3. at[0] + 1 = 1 /\ at[1] - 1 = 0
    BY ONLY <1>3, <1>7, <1>8
  <2>4. Piece(values, 1) = values[1]
    BY DEF Piece
  <2>5. SubSeq(s, 1, 0) = <<>>
    <3>1. s \in Chars
      <4>1. \A k \in 0 .. n : f[k] \in Chars
        BY <1>1, <1>2, <1>6, JoinIs
      <4>2. n \in 0 .. n
        BY ONLY <1>1
      <4> QED
        BY <4>1, <4>2 DEF s
    <3> QED
      BY <3>1 DEF Chars
  <2> QED
    BY ONLY <2>4, <2>5, <2>2, <2>3, Zenon
<1>10. values = << <<>> >>
  <2> DEFINE w == << <<>> >>
  <2>1. w \in Seq(Chars) /\ Len(w) = 1 /\ w[1] = <<>>
    BY NoText
  <2> HIDE DEF w
  <2>2. Len(values) = 1
    BY ONLY <1>6, <1>8
  <2>3. \A i \in 1 .. Len(values) : values[i] = w[i]
    BY ONLY <1>9, <2>1, <2>2
  <2>4. values = w
    BY ONLY <1>1, <2>1, <2>2, <2>3, SeqEqual
  <2> QED
    BY <2>4 DEF w
<1> QED
  BY <1>10

\* The one thing that is not read back: a list of one empty item.
LoneEmpty(e) == e.list /\ e.values = << <<>> >>

\* An entry that was read is read back from its line; in any case the line is
\* written alike once more.
LEMMA EntryAgain ==
  ASSUME NEW key, NEW raw \in Chars, NEW e, e = EntryFrom(key, Trim(raw)),
         NEW d, d = EntryFrom(key, Trim(WrittenRaw(e)))
  PROVE  /\ e.key = key /\ d.key = key
         /\ d = e \/ LoneEmpty(e)
         /\ WrittenRaw(d) = WrittenRaw(e)
         /\ TooLong(d) => TooLong(e)
         /\ WrittenRaw(e) \in Chars
<1> DEFINE v == Trim(raw)
<1>1. v \in Chars /\ Trimmed(v)
  BY TrimIs
<1>2. e = EntryFrom(key, v)
  OBVIOUS
<1> HIDE DEF v
<1>3. e.key = key /\ d.key = key
  BY DEF EntryFrom
<1>4. Len(v) \in Nat
  BY <1>1, TextIs
<1>5. CASE ~Bracketed(v)
  <2>1. e = [key |-> key, list |-> FALSE, values |-> <<v>>]
    <3>1. Bracketed(v) \in BOOLEAN
      BY Zenon DEF Bracketed
    <3>2. Bracketed(v) = FALSE
      BY ONLY <1>5, <3>1, Zenon
    <3> QED
      BY ONLY <1>2, <1>5, <3>2, Zenon DEF EntryFrom
  <2>2. WrittenRaw(e) = <<Space>> \o v
    <3>1. e.list = FALSE /\ e.values = <<v>>
      BY <2>1
    <3>2. <<v>> # <<>> /\ Head(<<v>>) = v
      OBVIOUS
    <3> QED
      BY ONLY <3>1, <3>2, Zenon DEF WrittenRaw
  <2>3. Trim(WrittenRaw(e)) = v
    BY ONLY <1>1, <2>2, TrimAgain
  <2>4. d = e
    BY ONLY <1>2, <2>3, d = EntryFrom(key, Trim(WrittenRaw(e))), Zenon
  <2>5. <<Space>> \in Chars
    BY LetterIs, FourLetters
  <2>6. WrittenRaw(e) \in Chars
    BY ONLY <1>1, <2>2, <2>5, ConcatIs
  <2> QED
    BY ONLY <1>3, <2>4, <2>6, Zenon
<1>6. ASSUME NEW j \in Chars, e.list = TRUE, Joined(e.values) = j
      PROVE  /\ WrittenRaw(e) \in Chars
             /\ d.list = TRUE
             /\ d.values = IF Len(j) = 0 THEN <<>> ELSE Items(j)
  <2> DEFINE u == <<Open>> \o j \o <<Close>>
  <2>1. /\ u \in Chars /\ Len(u) = Len(j) + 2 /\ Trimmed(u) /\ Bracketed(u)
        /\ SubSeq(u, 2, Len(u) - 1) = j
    BY InBrackets
  <2>2. Len(j) \in Nat
    BY TextIs
  <2>3. WrittenRaw(e) = ListText(e.values)
    BY ONLY <1>6, Zenon DEF WrittenRaw
  <2>4. Trim(ListText(e.values)) = u
    BY <1>6, ListTextTrimmed
  <2>5. ListText(e.values) \in Chars
    <3>1. ListText(e.values) = <<Space, Open>> \o j \o <<Close>>
      BY <1>6, ListTextIs
    <3>2. Space \in Letters /\ Open \in Letters /\ Close \in Letters
      BY FourLetters
    <3> QED
      BY ONLY <3>1, <3>2, j \in Chars DEF Chars
  <2> HIDE DEF u
  <2>6. d = EntryFrom(key, u)
    BY ONLY <2>3, <2>4, d = EntryFrom(key, Trim(WrittenRaw(e))), Zenon
  <2>7. d.list = Bracketed(u) /\ d.values = IF ~Bracketed(u) THEN <<u>>
                                            ELSE IF Len(u) = 2 THEN <<>>
                                            ELSE Items(SubSeq(u, 2, Len(u) - 1))
    BY ONLY <2>6, Zenon DEF EntryFrom
  <2>8. Len(u) = 2 <=> Len(j) = 0
    BY ONLY <2>1, <2>2
  <2>9. Bracketed(u) = TRUE
    <3>1. Bracketed(u) \in BOOLEAN
      BY Zenon DEF Bracketed
    <3> QED
      BY ONLY <2>1, <3>1, Zenon
  <2>10. d.list = TRUE
    BY ONLY <2>7, <2>9, Zenon
  <2>11. d.values = IF Len(j) = 0 THEN <<>> ELSE Items(j)
    BY ONLY <2>1, <2>7, <2>8, Zenon
  <2> QED
    BY ONLY <2>3, <2>5, <2>10, <2>11, Zenon
<1>7. ASSUME Bracketed(v), NEW values, values = IF Len(v) = 2 THEN <<>> ELSE Items(SubSeq(v, 2, Len(v) - 1))
      PROVE  e = [key |-> key, list |-> TRUE, values |-> values]
  <2>1. Bracketed(v) = TRUE
    <3>1. Bracketed(v) \in BOOLEAN
      BY Zenon DEF Bracketed
    <3> QED
      BY ONLY <1>7, <3>1, Zenon
  <2> QED
    BY ONLY <1>2, <1>7, <2>1, Zenon DEF EntryFrom
<1>8. CASE Bracketed(v) /\ Len(v) = 2
  <2>1. e = [key |-> key, list |-> TRUE, values |-> <<>>]
    BY ONLY <1>7, <1>8, Zenon
  <2>2. e.list = TRUE /\ e.values = <<>> /\ <<>> \in Chars /\ Len(<<>>) = 0 /\ Joined(e.values) = <<>>
    BY <2>1, NoText, JoinedNone
  <2>3. WrittenRaw(e) \in Chars /\ d.list = TRUE /\ d.values = <<>>
    BY ONLY <1>6, <2>2, Zenon
  <2>4. d = [key |-> d.key, list |-> d.list, values |-> d.values]
    BY DEF EntryFrom
  <2>5. d = e
    BY ONLY <1>3, <2>1, <2>3, <2>4, Zenon
  <2> QED
    BY ONLY <1>3, <2>3, <2>5, Zenon
<1>9. CASE Bracketed(v) /\ Len(v) # 2
  <2> DEFINE inner == SubSeq(v, 2, Len(v) - 1)
             values == Items(inner)
             j == Joined(values)
  <2>1. inner \in Chars
    <3>1. 2 \in Nat \ {0} /\ Len(v) - 1 \in 0 .. Len(v)
      <4>1. Len(v) >= 2
        BY <1>9, BracketedIs
      <4> QED
        BY ONLY <1>4, <4>1
    <3> QED
      BY ONLY <1>1, <3>1, PartIs DEF inner
  <2>2. values \in Seq(ItemSet) /\ values # <<>>
    BY ONLY <2>1, ItemsAre DEF values
  <2>3. e = [key |-> key, list |-> TRUE, values |-> values]
    BY ONLY <1>7, <1>9, Zenon DEF values, inner
  <2> HIDE DEF inner, values
  <2>4. j \in Chars /\ Items(j) = values
    BY ONLY <2>2, JoinedItems DEF j
  <2>5. e.list = TRUE /\ e.values = values /\ Joined(e.values) = j
    BY <2>3
  <2> HIDE DEF j
  <2>6. /\ WrittenRaw(e) \in Chars
        /\ d.list = TRUE
        /\ d.values = IF Len(j) = 0 THEN <<>> ELSE values
    BY ONLY <1>6, <2>4, <2>5, Zenon
  <2>7. d = [key |-> d.key, list |-> d.list, values |-> d.values]
    BY DEF EntryFrom
  <2>8. CASE Len(j) # 0
    <3>1. d = e
      BY ONLY <1>3, <2>3, <2>6, <2>7, <2>8, Zenon
    <3> QED
      BY ONLY <1>3, <2>6, <3>1, Zenon
  <2>9. CASE Len(j) = 0
    <3>1. values = << <<>> >>
      BY ONLY <2>2, <2>9, JoinedNothing DEF j
    <3>2. LoneEmpty(e)
      BY ONLY <2>5, <3>1, Zenon DEF LoneEmpty
    <3>3. d.values = <<>> /\ d.list = TRUE
      BY ONLY <2>6, <2>9, Zenon
    <3>4. ListText(<<>>) = ListText(<< <<>> >>)
      BY ONLY JoinedNone, JoinedOne, ListTextIs, Zenon
    <3>5. WrittenRaw(d) = WrittenRaw(e)
      BY ONLY <2>5, <3>1, <3>3, <3>4, Zenon DEF WrittenRaw
    <3>6. ~TooLong(d)
      BY ONLY <3>3 DEF TooLong
    <3> QED
      BY ONLY <1>3, <2>6, <3>2, <3>5, <3>6, Zenon
  <2> QED
    BY <2>8, <2>9
<1> QED
  BY ONLY <1>5, <1>8, <1>9, Zenon

--------------------------------------------------------------------------------
(* The entries of a header.                                                *)

EntriesIn(header) == {EntryOf(header[k]) : k \in {k \in 1 .. Len(header) : IsField(header[k])}}

NextEntries(header, k, es) ==
  IF IsField(header[k]) THEN Append(es, EntryOf(header[k])) ELSE es

IsFieldsUpTo(f, header) ==
  f = [n \in 0 .. Len(header) |->
         IF n = 0 THEN <<>>
         ELSE IF IsField(header[n]) THEN Append(f[n - 1], EntryOf(header[n]))
         ELSE f[n - 1]]

LEMMA FieldsBy ==
  ASSUME NEW header, \E f : IsFieldsUpTo(f, header)
  PROVE  \E f : IsFieldsUpTo(f, header) /\ FieldsIn(header) = f[Len(header)]
<1> DEFINE f == CHOOSE f : IsFieldsUpTo(f, header)
<1>1. IsFieldsUpTo(f, header)
  BY Zenon
<1>2. FieldsIn(header) = f[Len(header)]
  BY Zenon DEF FieldsIn, IsFieldsUpTo
<1> QED
  BY <1>1, <1>2, Zenon

LEMMA NextEntriesType ==
  ASSUME NEW header, NEW k \in 1 .. Len(header), NEW es \in Seq(EntriesIn(header))
  PROVE  NextEntries(header, k, es) \in Seq(EntriesIn(header))
<1> DEFINE e == EntryOf(header[k])
           T == EntriesIn(header)
<1>1. IsField(header[k]) => e \in T
  BY Zenon DEF EntriesIn
<1> HIDE DEF e, T
<1>2. es \in Seq(T)
  BY DEF T
<1>3. e \in T => Append(es, e) \in Seq(T)
  BY ONLY <1>2
<1>4. NextEntries(header, k, es) = IF IsField(header[k]) THEN Append(es, e) ELSE es
  BY Zenon DEF NextEntries, e
<1> QED
  BY ONLY <1>1, <1>2, <1>3, <1>4, Zenon DEF T

LEMMA FieldsExist ==
  ASSUME NEW header, Len(header) \in Nat
  PROVE  \E f : IsFieldsUpTo(f, header)
<1> DEFINE n == Len(header)
           T == Seq(EntriesIn(header))
           Next1(k, es) == NextEntries(header, k, es)
           step == [p \in (1 .. n) \X T |-> Next1(p[1], p[2])]
<1>1. n \in Nat
  OBVIOUS
<1>2. \A es \in T, k \in 1 .. n : Next1(k, es) \in T
  BY NextEntriesType, Zenon
<1>3. <<>> \in T
  OBVIOUS
<1>4. Len(header) = n
  OBVIOUS
<1> HIDE DEF n, T, Next1
<1>5. step \in [(1 .. n) \X T -> T]
  <2>1. \A p \in (1 .. n) \X T : p[1] \in 1 .. n /\ p[2] \in T
    OBVIOUS
  <2> QED
    BY ONLY <1>2, <2>1 DEF step
<1>6. \A es \in T, k \in 1 .. n : step[<<k, es>>] = Next1(k, es)
  BY ONLY <1>1 DEF step
<1> HIDE DEF step
<1>7. PICK f : IsStepped(f, n, T, <<>>, step)
  BY ONLY <1>1, <1>3, <1>5, SteppedExists, Zenon
<1>8. f \in [0 .. n -> T] /\ f[0] = <<>> /\ \A k \in 1 .. n : f[k] = step[<<k, f[k - 1]>>]
  BY ONLY <1>7 DEF IsStepped
<1> DEFINE g == [k \in 0 .. n |-> IF k = 0 THEN <<>> ELSE Next1(k, f[k - 1])]
<1>9. \A k \in 0 .. n : f[k] = g[k]
  <2> TAKE k \in 0 .. n
  <2>1. CASE k = 0
    BY <1>8, <2>1
  <2>2. CASE k # 0
    <3>1. k \in 1 .. n /\ k - 1 \in 0 .. n
      BY ONLY <1>1, <2>2, k \in 0 .. n
    <3>2. f[k - 1] \in T
      BY ONLY <1>8, <3>1
    <3>3. f[k] = Next1(k, f[k - 1])
      BY ONLY <1>6, <1>8, <3>1, <3>2
    <3> QED
      BY <2>2, <3>3
  <2> QED
    BY <2>1, <2>2
<1>10. f = g
  <2>1. f = [k \in 0 .. n |-> f[k]] /\ g = [k \in 0 .. n |-> g[k]]
    BY <1>8
  <2> HIDE DEF g
  <2>2. [k \in 0 .. n |-> f[k]] = [k \in 0 .. n |-> g[k]]
    BY ONLY <1>9
  <2> QED
    BY ONLY <2>1, <2>2, Zenon
<1>11. IsFieldsUpTo(f, header)
  BY ONLY <1>4, <1>10, Zenon DEF IsFieldsUpTo, g, Next1, NextEntries
<1> QED
  BY <1>11

\* Step by step.
LEMMA FieldsStep ==
  ASSUME NEW header, Len(header) \in Nat
  PROVE  \E f : /\ FieldsIn(header) = f[Len(header)]
                /\ f[0] = <<>>
                /\ \A k \in 1 .. Len(header) : f[k] = NextEntries(header, k, f[k - 1])
<1> DEFINE n == Len(header)
<1>1. PICK f : IsFieldsUpTo(f, header) /\ FieldsIn(header) = f[n]
  BY FieldsExist, FieldsBy, Zenon
<1> DEFINE E(k) == IF k = 0 THEN <<>> ELSE NextEntries(header, k, f[k - 1])
<1>2. f = [k \in 0 .. n |-> E(k)]
  BY ONLY <1>1, Zenon DEF IsFieldsUpTo, NextEntries, n, E
<1> HIDE DEF E
<1>3. \A k \in 0 .. n : f[k] = E(k)
  BY ONLY <1>2
<1>4. f[0] = <<>>
  <2>1. 0 \in 0 .. n
    OBVIOUS
  <2> QED
    BY ONLY <1>3, <2>1, Zenon DEF E
<1>5. \A k \in 1 .. n : f[k] = NextEntries(header, k, f[k - 1])
  <2> TAKE k \in 1 .. n
  <2>1. k \in 0 .. n /\ k # 0
    OBVIOUS
  <2> QED
    BY ONLY <1>3, <2>1, Zenon DEF E
<1> QED
  BY <1>1, <1>4, <1>5, Zenon

\* Each entry comes of a field line.
LEMMA FieldsAreEntries ==
  ASSUME NEW header, Len(header) \in Nat
  PROVE  FieldsIn(header) \in Seq(EntriesIn(header))
<1> DEFINE n == Len(header)
           T == Seq(EntriesIn(header))
<1>1. PICK f : /\ FieldsIn(header) = f[n]
               /\ f[0] = <<>>
               /\ \A k \in 1 .. n : f[k] = NextEntries(header, k, f[k - 1])
  BY FieldsStep, Zenon
<1> DEFINE S == {k \in 0 .. n : f[k] \in T}
<1>2. <<>> \in T
  OBVIOUS
<1>3. \A k \in 1 .. n, es \in T : NextEntries(header, k, es) \in T
  BY NextEntriesType, Zenon
<1>4. n \in Nat
  OBVIOUS
<1> HIDE DEF n, T
<1>5. 0 \in S
  BY ONLY <1>1, <1>2, <1>4 DEF S
<1>6. ASSUME NEW k \in 1 .. n, k - 1 \in S PROVE k \in S
  <2>1. f[k - 1] \in T
    BY ONLY <1>6 DEF S
  <2>2. f[k] \in T
    BY ONLY <1>1, <1>3, <2>1, k \in 1 .. n, Zenon
  <2>3. k \in 0 .. n
    BY ONLY <1>4, k \in 1 .. n
  <2> QED
    BY ONLY <2>2, <2>3, Zenon DEF S
<1> HIDE DEF S
<1>7. \A k \in 0 .. n : k \in S
  BY ONLY <1>4, <1>5, <1>6, UpwardFromZero, Zenon
<1>8. n \in S
  BY ONLY <1>4, <1>7
<1> QED
  BY ONLY <1>1, <1>8, Zenon DEF S, T

\* Where all lines are fields, they are the entries.
LEMMA FieldsOfFields ==
  ASSUME NEW header, Len(header) \in Nat, \A k \in 1 .. Len(header) : IsField(header[k])
  PROVE  FieldsIn(header) = [k \in 1 .. Len(header) |-> EntryOf(header[k])]
<1> DEFINE n == Len(header)
           T == EntriesIn(header)
<1>1. PICK f : /\ FieldsIn(header) = f[n]
               /\ f[0] = <<>>
               /\ \A k \in 1 .. n : f[k] = NextEntries(header, k, f[k - 1])
  BY FieldsStep, Zenon
<1>2. \A k \in 1 .. n : f[k] = Append(f[k - 1], EntryOf(header[k])) /\ EntryOf(header[k]) \in T
  BY ONLY <1>1, \A k \in 1 .. Len(header) : IsField(header[k]), Zenon DEF n, T, NextEntries, EntriesIn
<1>3. n \in Nat
  OBVIOUS
<1> DEFINE e(k) == EntryOf(header[k])
           Good(k) == f[k] \in Seq(T) /\ Len(f[k]) = k /\ \A i \in 1 .. k : f[k][i] = e(i)
           S == {k \in 0 .. n : Good(k)}
<1> HIDE DEF n, T
<1>4. \A k \in 1 .. n : f[k] = Append(f[k - 1], e(k)) /\ e(k) \in T
  BY <1>2
<1> HIDE DEF e
<1>5. 0 \in S
  <2>1. f[0] = <<>>
    BY <1>1
  <2>2. <<>> \in Seq(T) /\ Len(<<>>) = 0 /\ \A i \in 1 .. 0 : FALSE
    OBVIOUS
  <2>3. Good(0)
    BY ONLY <2>1, <2>2, Zenon DEF Good
  <2>4. 0 \in 0 .. n
    BY ONLY <1>3
  <2> QED
    BY ONLY <2>3, <2>4, Zenon DEF S
<1>6. ASSUME NEW k \in 1 .. n, k - 1 \in S PROVE k \in S
  <2> DEFINE g == f[k - 1]
             x == e(k)
             h == f[k]
  <2>1. g \in Seq(T) /\ Len(g) = k - 1 /\ \A i \in 1 .. k - 1 : g[i] = e(i)
    BY ONLY <1>6 DEF S, Good
  <2>2. x \in T /\ h = Append(g, x)
    BY ONLY <1>4, k \in 1 .. n
  <2> HIDE DEF g, x, h
  <2>3. /\ h \in Seq(T) /\ Len(h) = Len(g) + 1
        /\ \A i \in 1 .. Len(g) : h[i] = g[i]
        /\ h[Len(g) + 1] = x
    BY ONLY <2>1, <2>2, AppendProperties
  <2>4. k \in 0 .. n /\ k - 1 + 1 = k
    BY ONLY <1>3, k \in 1 .. n
  <2>5. Len(h) = k /\ h[k] = x /\ \A i \in 1 .. k - 1 : h[i] = e(i)
    BY ONLY <2>1, <2>3, <2>4
  <2>6. \A i \in 1 .. k : i \in 1 .. k - 1 \/ i = k
    BY ONLY <1>3, k \in 1 .. n
  <2>7. \A i \in 1 .. k : h[i] = e(i)
    BY ONLY <2>5, <2>6, Zenon DEF x
  <2>8. Good(k)
    BY ONLY <2>3, <2>5, <2>7, Zenon DEF Good, h
  <2> QED
    BY ONLY <2>4, <2>8, Zenon DEF S
<1> HIDE DEF S
<1>7. \A k \in 0 .. n : k \in S
  BY ONLY <1>3, <1>5, <1>6, UpwardFromZero, Zenon
<1>8. n \in S
  BY ONLY <1>3, <1>7
<1>9. Good(n)
  BY ONLY <1>8 DEF S
<1> DEFINE r == FieldsIn(header)
<1>10. r \in Seq(T) /\ Len(r) = n /\ \A i \in 1 .. n : r[i] = e(i)
  BY ONLY <1>1, <1>9, Zenon DEF Good
<1> HIDE DEF r
<1>11. r = [k \in 1 .. n |-> e(k)]
  <2>1. r = [k \in 1 .. n |-> r[k]]
    BY ONLY <1>10
  <2>2. [k \in 1 .. n |-> r[k]] = [k \in 1 .. n |-> e(k)]
    BY ONLY <1>10
  <2> QED
    BY ONLY <2>1, <2>2, Zenon
<1> QED
  BY ONLY <1>11, Zenon DEF r, n, e

--------------------------------------------------------------------------------
(* A record as it is written.                                              *)

LEMMA ParseIs ==
  ASSUME NEW text
  PROVE  LET ends == {i \in 2 .. Len(text) : text[i] = Fence}
             header == SubSeq(text, 2, Min(ends) - 1)
         IN Parse(text) =
              IF text = <<>> \/ text[1] # Fence THEN [ok |-> TRUE, fields |-> <<>>, body |-> text]
              ELSE IF ends = {} \/ ~HeaderIsGood(header) THEN NoRecord
              ELSE [ok     |-> TRUE,
                    fields |-> FieldsIn(header),
                    body   |-> SubSeq(text, Min(ends) + 1, Len(text))]
BY Zenon DEF Parse

LEMMA SliceIs ==
  ASSUME NEW S, NEW t \in Seq(S), NEW w \in Seq(S), NEW from \in Nat \ {0}, NEW to \in 0 .. Len(t),
         to = from - 1 + Len(w), \A i \in 1 .. Len(w) : t[from - 1 + i] = w[i]
  PROVE  SubSeq(t, from, to) = w
<1> DEFINE n == Len(w)
           l == Len(t)
           p == SubSeq(t, from, to)
<1>1. n \in Nat /\ l \in Nat /\ \A i \in 1 .. l : t[i] \in S
  OBVIOUS
<1>2. to = from - 1 + n /\ to \in 0 .. l /\ \A i \in 1 .. n : t[from - 1 + i] = w[i]
  OBVIOUS
<1> HIDE DEF n, l
<1>3. from \in Int /\ to \in Int /\ \A i \in from .. to : i \in 1 .. l
  BY ONLY <1>1, <1>2, from \in Nat \ {0}
<1>4. \A i \in from .. to : t[i] \in S
  BY ONLY <1>1, <1>3
<1>5. /\ p \in Seq(S) /\ Len(p) = IF from <= to THEN to - from + 1 ELSE 0
      /\ \A i \in 1 .. to - from + 1 : p[i] = t[from + i - 1]
  BY ONLY <1>3, <1>4, SubSeqProperties
<1> HIDE DEF p
<1>6. /\ (IF from <= to THEN to - from + 1 ELSE 0) = n /\ to - from + 1 = n
      /\ \A i \in 1 .. n : from + i - 1 = from - 1 + i
  BY ONLY <1>1, <1>2, from \in Nat \ {0}
<1>7. Len(p) = n /\ \A i \in 1 .. n : p[i] = w[i]
  BY ONLY <1>2, <1>5, <1>6
<1>8. Len(p) = Len(w) /\ \A i \in 1 .. Len(p) : p[i] = w[i]
  BY ONLY <1>7 DEF n
<1>9. p = w
  BY ONLY <1>5, <1>8, w \in Seq(S), SeqEqual
<1> QED
  BY <1>9 DEF p

\* Two sequences, one behind the other.
IsConcat(u, s, t) ==
  /\ Len(u) = Len(s) + Len(t)
  /\ \A i \in 1 .. Len(s) : u[i] = s[i]
  /\ \A i \in 1 .. Len(t) : u[Len(s) + i] = t[i]

LEMMA ConcatOf ==
  ASSUME NEW S, NEW s \in Seq(S), NEW t \in Seq(S)
  PROVE  s \o t \in Seq(S) /\ IsConcat(s \o t, s, t)
<1> DEFINE u == s \o t
           n == Len(s)
           m == Len(t)
<1>1. n \in Nat /\ m \in Nat
  OBVIOUS
<1>2. /\ u \in Seq(S) /\ Len(u) = n + m
      /\ \A i \in 1 .. n + m : u[i] = IF i <= n THEN s[i] ELSE t[i - n]
  BY ConcatProperties
<1> HIDE DEF u, n, m
<1>3. \A i \in 1 .. n : u[i] = s[i]
  <2>1. \A i \in 1 .. n : i \in 1 .. n + m /\ i <= n
    BY ONLY <1>1
  <2> QED
    BY ONLY <1>2, <2>1
<1>4. \A i \in 1 .. m : u[n + i] = t[i]
  <2> TAKE i \in 1 .. m
  <2> DEFINE k == n + i
  <2>1. k \in 1 .. n + m /\ ~(k <= n) /\ k - n = i
    BY ONLY <1>1, i \in 1 .. m
  <2> HIDE DEF k
  <2>2. u[k] = t[i]
    BY ONLY <1>2, <2>1
  <2> QED
    BY ONLY <2>2 DEF k
<1> QED
  BY ONLY <1>2, <1>3, <1>4, Zenon DEF IsConcat, u, n, m

\* A header between fences, and a body.
LEMMA FencedIs ==
  ASSUME NEW S, Fence \in S, NEW w \in Seq(S), NEW body \in Seq(S),
         NEW t, t = <<Fence>> \o w \o <<Fence>> \o body
  PROVE  /\ t \in Seq(S) /\ Len(t) = Len(w) + 2 + Len(body)
         /\ t[1] = Fence /\ t[Len(w) + 2] = Fence
         /\ \A i \in 1 .. Len(w) : t[1 + i] = w[i]
         /\ \A i \in 1 .. Len(body) : t[Len(w) + 2 + i] = body[i]
<1> DEFINE f == <<Fence>>
           a == f \o w
           b == a \o f
           n == Len(w)
           m == Len(body)
<1>1. n \in Nat /\ m \in Nat
  OBVIOUS
<1>2. f \in Seq(S) /\ Len(f) = 1 /\ f[1] = Fence
  OBVIOUS
<1>3. t = b \o body /\ w \in Seq(S) /\ body \in Seq(S)
  OBVIOUS
<1> HIDE DEF f
<1>4. /\ a \in Seq(S) /\ Len(a) = Len(f) + n
      /\ \A i \in 1 .. Len(f) : a[i] = f[i]
      /\ \A i \in 1 .. n : a[Len(f) + i] = w[i]
  <2>1. a \in Seq(S) /\ IsConcat(a, f, w)
    BY ONLY <1>2, <1>3, ConcatOf DEF a
  <2> HIDE DEF a
  <2> QED
    BY ONLY <2>1, Zenon DEF IsConcat, n
<1> HIDE DEF a
<1>5. /\ b \in Seq(S) /\ Len(b) = Len(a) + Len(f)
      /\ \A i \in 1 .. Len(a) : b[i] = a[i]
      /\ \A i \in 1 .. Len(f) : b[Len(a) + i] = f[i]
  <2>1. b \in Seq(S) /\ IsConcat(b, a, f)
    BY ONLY <1>2, <1>4, ConcatOf DEF b
  <2> HIDE DEF b
  <2> QED
    BY ONLY <2>1, Zenon DEF IsConcat
<1> HIDE DEF b
<1>6. /\ t \in Seq(S) /\ Len(t) = Len(b) + m
      /\ \A i \in 1 .. Len(b) : t[i] = b[i]
      /\ \A i \in 1 .. m : t[Len(b) + i] = body[i]
  <2>1. b \o body \in Seq(S) /\ IsConcat(b \o body, b, body)
    BY ONLY <1>3, <1>5, ConcatOf
  <2>2. t \in Seq(S) /\ IsConcat(t, b, body)
    BY ONLY <1>3, <2>1
  <2> QED
    BY ONLY <2>2, Zenon DEF IsConcat, m
<1> HIDE DEF n, m
<1>7. 1 \in 1 .. 1 /\ 1 \in 1 .. 1 + n /\ 1 + n + 1 = n + 2 /\ 1 \in 1 .. n + 2 /\ n + 2 \in 1 .. n + 2
  BY ONLY <1>1
<1>8. Len(a) = 1 + n /\ a[1] = Fence /\ \A i \in 1 .. n : a[1 + i] = w[i]
  BY ONLY <1>2, <1>4, <1>7
<1>9. Len(b) = n + 2 /\ b[1] = Fence /\ b[n + 2] = Fence
  <2>1. b[1] = a[1] /\ b[1 + n + 1] = f[1] /\ Len(b) = 1 + n + 1
    BY ONLY <1>2, <1>5, <1>7, <1>8
  <2> QED
    BY ONLY <1>2, <1>7, <1>8, <2>1
<1>10. \A i \in 1 .. n : b[1 + i] = w[i]
  <2> TAKE i \in 1 .. n
  <2> DEFINE k == 1 + i
  <2>1. k \in 1 .. 1 + n /\ a[k] = w[i]
    BY ONLY <1>1, <1>8, i \in 1 .. n
  <2> HIDE DEF k
  <2>2. b[k] = w[i]
    BY ONLY <1>5, <1>8, <2>1
  <2> QED
    BY ONLY <2>2 DEF k
<1>11. \A i \in 1 .. n : t[1 + i] = w[i]
  <2> TAKE i \in 1 .. n
  <2> DEFINE k == 1 + i
  <2>1. k \in 1 .. n + 2 /\ b[k] = w[i]
    BY ONLY <1>1, <1>10, i \in 1 .. n
  <2> HIDE DEF k
  <2>2. t[k] = w[i]
    BY ONLY <1>6, <1>9, <2>1
  <2> QED
    BY ONLY <2>2 DEF k
<1>12. t[1] = Fence /\ t[n + 2] = Fence
  BY ONLY <1>6, <1>7, <1>9
<1>13. Len(t) = n + 2 + m /\ \A i \in 1 .. m : t[n + 2 + i] = body[i]
  BY ONLY <1>6, <1>9, Zenon
<1> QED
  BY ONLY <1>6, <1>11, <1>12, <1>13, Zenon DEF n, m

\* It is read as what it is.
LEMMA FencedIsParsed ==
  ASSUME NEW S, Fence \in S, NEW w \in Seq(S), NEW body \in Seq(S),
         \A i \in 1 .. Len(w) : w[i] # Fence
  PROVE  Parse(<<Fence>> \o w \o <<Fence>> \o body) =
           IF HeaderIsGood(w) THEN [ok |-> TRUE, fields |-> FieldsIn(w), body |-> body]
           ELSE NoRecord
<1> DEFINE t == <<Fence>> \o w \o <<Fence>> \o body
           n == Len(w)
           m == Len(body)
           l == Len(t)
           ends == {i \in 2 .. l : t[i] = Fence}
           least == Min(ends)
<1>1. n \in Nat /\ m \in Nat
  OBVIOUS
<1>2. /\ t \in Seq(S) /\ l = n + 2 + m
      /\ t[1] = Fence /\ t[n + 2] = Fence
      /\ \A i \in 1 .. n : t[1 + i] = w[i]
      /\ \A i \in 1 .. m : t[n + 2 + i] = body[i]
  <2> HIDE DEF t
  <2>1. t = <<Fence>> \o w \o <<Fence>> \o body
    BY DEF t
  <2> QED
    BY ONLY <2>1, Fence \in S, w \in Seq(S), body \in Seq(S), FencedIs DEF n, m, l
<1>3. t # <<>>
  <2>1. t # <<>> <=> Len(t) # 0
    <3> HIDE DEF t
    <3> QED
      BY ONLY <1>2
  <2> HIDE DEF n, m, t
  <2>2. Len(t) # 0
    BY ONLY <1>1, <1>2 DEF l
  <2> QED
    BY ONLY <2>1, <2>2
<1>4. \A i \in 1 .. n : w[i] # Fence
  OBVIOUS
<1> HIDE DEF t, n, m, l
<1>5. least = n + 2
  <2>1. n + 2 \in ends
    <3>1. n + 2 \in 2 .. n + 2 + m
      BY ONLY <1>1
    <3> QED
      BY ONLY <1>2, <3>1 DEF ends
  <2>2. \A e \in ends : e \in Nat /\ n + 2 <= e
    <3> TAKE e \in ends
    <3>1. e \in 2 .. n + 2 + m /\ t[e] = Fence
      BY ONLY <1>2, e \in ends DEF ends
    <3>2. ~(e <= n + 1)
      <4>1. SUFFICES ASSUME e <= n + 1 PROVE FALSE
        OBVIOUS
      <4>2. e - 1 \in 1 .. n /\ 1 + (e - 1) = e
        BY ONLY <1>1, <3>1, <4>1
      <4>3. PICK i \in 1 .. n : 1 + i = e
        BY ONLY <4>2
      <4>4. t[e] = w[i] /\ w[i] # Fence
        BY ONLY <1>2, <1>4, <4>3
      <4> QED
        BY ONLY <3>1, <4>4
    <3> QED
      BY ONLY <1>1, <3>1, <3>2
  <2>3. ends \in SUBSET Nat /\ ends # {}
    BY ONLY <2>1, <2>2
  <2> HIDE DEF ends
  <2>4. Min(ends) \in ends /\ \A e \in ends : Min(ends) <= e
    BY ONLY <2>3, MinIsLeast
  <2>5. least \in Nat /\ n + 2 <= least /\ least <= n + 2
    BY ONLY <2>1, <2>2, <2>4 DEF least
  <2> HIDE DEF least
  <2> QED
    BY ONLY <1>1, <2>5
<1>6. n + 2 \in ends
  <2>1. n + 2 \in 2 .. n + 2 + m
    BY ONLY <1>1
  <2> QED
    BY ONLY <1>2, <2>1 DEF ends
<1> HIDE DEF least
<1>7. SubSeq(t, 2, least - 1) = w
  <2>1. least - 1 = 2 - 1 + n /\ least - 1 \in 0 .. n + 2 + m /\ 2 \in Nat \ {0}
    BY ONLY <1>1, <1>5
  <2>2. least - 1 = 2 - 1 + Len(w) /\ least - 1 \in 0 .. Len(t)
    BY ONLY <1>2, <2>1 DEF n, l
  <2>3. \A i \in 1 .. Len(w) : t[2 - 1 + i] = w[i]
    <3>1. 2 - 1 = 1
      OBVIOUS
    <3> QED
      BY ONLY <1>2, <3>1 DEF n
  <2> QED
    BY ONLY <1>2, <2>1, <2>2, <2>3, w \in Seq(S), SliceIs
<1>8. SubSeq(t, least + 1, l) = body
  <2> DEFINE c == least + 1
  <2>1. c \in Nat \ {0} /\ l = c - 1 + m /\ c - 1 = n + 2 /\ l \in 0 .. l
    BY ONLY <1>1, <1>2, <1>5
  <2> HIDE DEF c
  <2>2. l = c - 1 + Len(body) /\ l \in 0 .. Len(t)
    BY ONLY <2>1 DEF m, l
  <2>3. \A i \in 1 .. Len(body) : t[c - 1 + i] = body[i]
    BY ONLY <1>2, <2>1 DEF m
  <2>4. SubSeq(t, c, l) = body
    BY ONLY <1>2, <2>1, <2>2, <2>3, body \in Seq(S), SliceIs
  <2> QED
    BY ONLY <2>4 DEF c
<1> HIDE DEF ends
<1>9. Parse(t) =
        IF t = <<>> \/ t[1] # Fence THEN [ok |-> TRUE, fields |-> <<>>, body |-> t]
        ELSE IF ends = {} \/ ~HeaderIsGood(SubSeq(t, 2, least - 1)) THEN NoRecord
        ELSE [ok     |-> TRUE,
              fields |-> FieldsIn(SubSeq(t, 2, least - 1)),
              body   |-> SubSeq(t, least + 1, l)]
  BY ONLY ParseIs, Zenon DEF ends, least, l
<1>10. Parse(t) = IF HeaderIsGood(w) THEN [ok |-> TRUE, fields |-> FieldsIn(w), body |-> body]
                 ELSE NoRecord
  <2>1. ends # {}
    BY ONLY <1>6
  <2>2. CASE HeaderIsGood(w)
    BY ONLY <1>2, <1>3, <1>7, <1>8, <1>9, <2>1, <2>2, Zenon
  <2>3. CASE ~HeaderIsGood(w)
    BY ONLY <1>2, <1>3, <1>7, <1>8, <1>9, <2>1, <2>3, Zenon
  <2> QED
    BY ONLY <2>2, <2>3
<1> QED
  BY ONLY <1>10, Zenon DEF t

LEMMA ParseOfFenced ==
  ASSUME NEW S, Fence \in S, NEW w \in Seq(S), NEW body \in Seq(S),
         \A i \in 1 .. Len(w) : w[i] # Fence, HeaderIsGood(w)
  PROVE  Parse(<<Fence>> \o w \o <<Fence>> \o body) =
           [ok |-> TRUE, fields |-> FieldsIn(w), body |-> body]
BY FencedIsParsed

\* What the entries of a good header are.
AreGood(es) ==
  /\ Len(es) \in Nat /\ es = [i \in 1 .. Len(es) |-> es[i]]
  /\ \A i \in 1 .. Len(es) : /\ \E raw \in Chars : es[i] = EntryFrom(es[i].key, Trim(raw))
                             /\ es[i].key \in GoodKeys /\ ~TooLong(es[i])
  /\ \A i, j \in 1 .. Len(es) : es[i].key = es[j].key => i = j

LEMMA GoodHeaderIsRead ==
  ASSUME NEW header, Len(header) \in Nat, DOMAIN header = 1 .. Len(header),
         \A i \in 1 .. Len(header) : IsField(header[i]) => header[i].raw \in Chars,
         HeaderIsGood(header)
  PROVE  AreGood(FieldsIn(header))
<1> DEFINE es == FieldsIn(header)
           n == Len(header)
<1>1. es \in Seq(EntriesIn(header))
  BY FieldsAreEntries
<1>2. /\ \A i \in 1 .. n : ~BadLine(header[i])
      /\ \A i, j \in DOMAIN es : es[i].key = es[j].key => i = j
  BY Zenon DEF HeaderIsGood
<1>3. \A i \in 1 .. n : IsField(header[i]) => header[i].raw \in Chars
  OBVIOUS
<1> HIDE DEF es, n
<1>4. /\ Len(es) \in Nat /\ DOMAIN es = 1 .. Len(es) /\ es = [i \in 1 .. Len(es) |-> es[i]]
      /\ \A i \in 1 .. Len(es) : es[i] \in EntriesIn(header)
  BY ONLY <1>1
<1>5. ASSUME NEW i \in 1 .. Len(es)
      PROVE  /\ \E raw \in Chars : es[i] = EntryFrom(es[i].key, Trim(raw))
             /\ es[i].key \in GoodKeys /\ ~TooLong(es[i])
  <2>1. PICK k \in 1 .. n : IsField(header[k]) /\ es[i] = EntryOf(header[k])
    BY ONLY <1>4, i \in 1 .. Len(es), Zenon DEF EntriesIn, n
  <2> DEFINE l == header[k]
             e == es[i]
  <2>2. l.raw \in Chars /\ e = EntryFrom(l.key, Trim(l.raw))
    BY ONLY <1>3, <2>1, EntryOfIs, Zenon
  <2>3. l.key \in GoodKeys /\ ~TooLong(e)
    <3>1. l.kind = "field" /\ ~BadLine(l) /\ e = EntryOf(l)
      BY ONLY <1>2, <2>1, Zenon DEF IsField
    <3> HIDE DEF l, e
    <3> QED
      BY ONLY <3>1, Zenon DEF BadLine
  <2>4. e.key = l.key
    <3> HIDE DEF l
    <3>1. EntryFrom(l.key, Trim(l.raw)).key = l.key
      BY Zenon DEF EntryFrom
    <3> QED
      BY ONLY <2>2, <3>1, Zenon
  <2> HIDE DEF l, e
  <2>5. (\E raw \in Chars : e = EntryFrom(e.key, Trim(raw))) /\ e.key \in GoodKeys /\ ~TooLong(e)
    BY ONLY <2>2, <2>3, <2>4, Zenon
  <2> QED
    BY ONLY <2>5, Zenon DEF e
<1>6. \A i, j \in 1 .. Len(es) : es[i].key = es[j].key => i = j
  BY ONLY <1>2, <1>4, Zenon
<1> QED
  BY ONLY <1>4, <1>5, <1>6, Zenon DEF AreGood, es

\* The lines of some entries, and the entries that are read from these.
LinesFor(es) == [i \in 1 .. Len(es) |-> Written(es[i])]
ReadAgain(es) == [i \in 1 .. Len(es) |-> EntryOf(LinesFor(es)[i])]

\* A header that is written is good, and its entries are written alike.
LEMMA WrittenHeaderIsRead ==
  ASSUME NEW es, AreGood(es), NEW S, \A i \in 1 .. Len(es) : Written(es[i]) \in S
  PROVE  /\ LinesFor(es) \in Seq(S) /\ \A i \in 1 .. Len(LinesFor(es)) : LinesFor(es)[i] # Fence
         /\ FieldsIn(LinesFor(es)) = ReadAgain(es) /\ HeaderIsGood(LinesFor(es))
         /\ LinesFor(ReadAgain(es)) = LinesFor(es)
         /\ ReadAgain(es) = es \/ \E i \in 1 .. Len(es) : LoneEmpty(es[i])
<1> DEFINE n == Len(es)
           w == LinesFor(es)
           ds == ReadAgain(es)
<1>1. n \in Nat
  BY DEF AreGood
<1>2. w = [i \in 1 .. n |-> Written(es[i])] /\ ds = [i \in 1 .. n |-> EntryOf(w[i])]
  BY Zenon DEF LinesFor, ReadAgain
<1> HIDE DEF w, ds
<1>3. \A i \in 1 .. n : w[i] = Written(es[i]) /\ ds[i] = EntryOf(Written(es[i]))
  BY ONLY <1>2
<1>4. w \in Seq(S) /\ Len(w) = n
  BY ONLY <1>1, <1>2, \A i \in 1 .. Len(es) : Written(es[i]) \in S
<1>5. n = Len(es)
  OBVIOUS
<1> HIDE DEF n
<1>6. ASSUME NEW i \in 1 .. n
      PROVE  /\ w[i] = FieldLine(es[i].key, WrittenRaw(es[i]))
             /\ es[i].key \in GoodKeys /\ ds[i].key = es[i].key
             /\ ds[i] = es[i] \/ LoneEmpty(es[i])
             /\ WrittenRaw(ds[i]) = WrittenRaw(es[i])
             /\ ~TooLong(ds[i])
  <2> DEFINE e == es[i]
             d == ds[i]
  <2>1. PICK raw \in Chars : e = EntryFrom(e.key, Trim(raw))
    BY ONLY <1>5, AreGood(es), i \in 1 .. n, Zenon DEF AreGood
  <2>2. e.key \in GoodKeys /\ ~TooLong(e)
    BY ONLY <1>5, AreGood(es), i \in 1 .. n, Zenon DEF AreGood
  <2>3. w[i] = FieldLine(e.key, WrittenRaw(e)) /\ d = EntryFrom(e.key, Trim(WrittenRaw(e)))
    BY ONLY <1>3, i \in 1 .. n, WrittenIs, WrittenEntryIs, Zenon
  <2> HIDE DEF e, d
  <2>4. /\ d.key = e.key /\ (d = e \/ LoneEmpty(e))
        /\ WrittenRaw(d) = WrittenRaw(e)
        /\ TooLong(d) => TooLong(e)
    <3> DEFINE key == e.key
    <3>1. e = EntryFrom(key, Trim(raw)) /\ d = EntryFrom(key, Trim(WrittenRaw(e))) /\ key = e.key
      BY <2>1, <2>3
    <3> HIDE DEF key
    <3> QED
      BY ONLY <3>1, EntryAgain, raw \in Chars
  <2>5. /\ w[i] = FieldLine(e.key, WrittenRaw(e))
        /\ e.key \in GoodKeys /\ d.key = e.key
        /\ d = e \/ LoneEmpty(e)
        /\ WrittenRaw(d) = WrittenRaw(e)
        /\ ~TooLong(d)
    BY ONLY <2>2, <2>3, <2>4, Zenon
  <2> QED
    BY ONLY <2>5, Zenon DEF e, d
<1>7. ASSUME NEW i \in 1 .. n
      PROVE  IsField(w[i]) /\ w[i] # Fence /\ ~BadLine(w[i])
  <2> DEFINE key == es[i].key
             raw == WrittenRaw(es[i])
             l == w[i]
  <2>1. l = FieldLine(key, raw) /\ key \in GoodKeys
    BY ONLY <1>6, i \in 1 .. n
  <2>2. ~TooLong(EntryOf(l))
    <3>1. EntryOf(l) = ds[i]
      BY ONLY <1>3, i \in 1 .. n, Zenon
    <3> QED
      BY ONLY <1>6, <3>1, i \in 1 .. n, Zenon
  <2> HIDE DEF key, raw, l
  <2>3. l.kind = "field" /\ l.indented = FALSE /\ l.key = key
    BY ONLY <2>1 DEF FieldLine
  <2>4. l # Fence
    <3>1. Fence.kind = "fence"
      BY DEF Fence
    <3> QED
      BY ONLY <2>3, <3>1
  <2>5. l.kind # "text"
    BY ONLY <2>3
  <2>6. ~BadLine(l)
    BY ONLY <2>5, <2>1, <2>2, <2>3, Zenon DEF BadLine
  <2>7. IsField(l)
    BY ONLY <2>3 DEF IsField
  <2> QED
    BY ONLY <2>4, <2>6, <2>7, Zenon DEF l
<1>8. FieldsIn(w) = ds
  <2>1. Len(w) \in Nat /\ \A k \in 1 .. Len(w) : IsField(w[k])
    BY ONLY <1>1, <1>4, <1>7
  <2>2. FieldsIn(w) = [k \in 1 .. Len(w) |-> EntryOf(w[k])]
    BY ONLY <2>1, FieldsOfFields, Zenon
  <2> QED
    BY ONLY <1>2, <1>4, <2>2, Zenon
<1>9. HeaderIsGood(w)
  <2>1. DOMAIN w = 1 .. n /\ DOMAIN ds = 1 .. n
    BY ONLY <1>2
  <2>2. \A i, j \in 1 .. n : ds[i].key = ds[j].key => i = j
    <3>1. \A i, j \in 1 .. n : es[i].key = es[j].key => i = j
      BY ONLY <1>5, AreGood(es), Zenon DEF AreGood
    <3>2. \A i \in 1 .. n : ds[i].key = es[i].key
      BY ONLY <1>6, Zenon
    <3> QED
      BY ONLY <3>1, <3>2, Zenon
  <2> QED
    BY ONLY <1>7, <1>8, <2>1, <2>2, Zenon DEF HeaderIsGood
<1>10. \A i \in 1 .. n : Written(ds[i]) = Written(es[i])
  <2> TAKE i \in 1 .. n
  <2>1. Written(ds[i]) = FieldLine(ds[i].key, WrittenRaw(ds[i])) /\ Written(es[i]) = FieldLine(es[i].key, WrittenRaw(es[i]))
    BY ONLY WrittenIs, Zenon
  <2>2. ds[i].key = es[i].key /\ WrittenRaw(ds[i]) = WrittenRaw(es[i])
    BY ONLY <1>6, i \in 1 .. n
  <2> QED
    BY ONLY <2>1, <2>2, Zenon
<1>11. LinesFor(ds) = w
  <2>1. Len(ds) = n
    BY ONLY <1>1, <1>2
  <2>2. LinesFor(ds) = [i \in 1 .. n |-> Written(ds[i])]
    BY ONLY <2>1, Zenon DEF LinesFor
  <2> QED
    BY ONLY <1>2, <1>10, <2>2, Zenon
<1>12. ds = es \/ \E i \in 1 .. n : LoneEmpty(es[i])
  <2>1. SUFFICES ASSUME \A i \in 1 .. n : ~LoneEmpty(es[i])
                 PROVE  ds = es
    BY Zenon
  <2>2. \A i \in 1 .. n : ds[i] = es[i]
    BY ONLY <1>6, <2>1, Zenon
  <2>3. ds = [i \in 1 .. n |-> ds[i]]
    BY ONLY <1>2
  <2>4. es = [i \in 1 .. n |-> es[i]]
    BY ONLY <1>5, AreGood(es), Zenon DEF AreGood
  <2>5. [i \in 1 .. n |-> ds[i]] = [i \in 1 .. n |-> es[i]]
    BY ONLY <2>2, Zenon
  <2> QED
    BY ONLY <2>3, <2>4, <2>5, Zenon
<1>13. w \in Seq(S) /\ \A i \in 1 .. Len(w) : w[i] # Fence
  BY ONLY <1>4, <1>7, Zenon
<1> QED
  BY ONLY <1>8, <1>9, <1>11, <1>12, <1>13, Zenon DEF n, w, ds

\* A text that does not begin with a fence is read and written as a body.
LEMMA BodyRoundTrip ==
  ASSUME NEW body, NEW rec, rec = [ok |-> TRUE, fields |-> <<>>, body |-> body]
  PROVE  /\ Write(rec) = body
         /\ (body = <<>> \/ body[1] # Fence) => Parse(body) = rec
<1>1. rec.fields = <<>> /\ rec.body = body
  OBVIOUS
<1>2. Write(rec) = body
  BY ONLY <1>1, Zenon DEF Write
<1>3. (body = <<>> \/ body[1] # Fence) => Parse(body) = [ok |-> TRUE, fields |-> <<>>, body |-> body]
  BY ONLY ParseIs, Zenon
<1> QED
  BY <1>2, <1>3, Zenon

LEMMA WriteIs ==
  ASSUME NEW es, es # <<>>, DOMAIN es = 1 .. Len(es), NEW body, NEW rec,
         rec.fields = es, rec.body = body
  PROVE  Write(rec) = <<Fence>> \o LinesFor(es) \o <<Fence>> \o body
<1>1. Header(es) = <<Fence>> \o LinesFor(es) \o <<Fence>>
  BY ONLY DOMAIN es = 1 .. Len(es), Zenon DEF Header, LinesFor
<1>2. Write(rec) = Header(es) \o body
  BY ONLY es # <<>>, rec.fields = es, rec.body = body, Zenon DEF Write
<1> QED
  BY ONLY <1>1, <1>2, Zenon

\* A record with a header.
LEMMA RecordRoundTrip ==
  ASSUME NEW S, Fence \in S, NEW es, AreGood(es), es # <<>>, \A i \in 1 .. Len(es) : Written(es[i]) \in S,
         NEW body \in Seq(S), NEW rec, rec = [ok |-> TRUE, fields |-> es, body |-> body]
  PROVE  /\ Write(Parse(Write(rec))) = Write(rec)
         /\ Parse(Write(rec)) = rec \/ \E i \in DOMAIN es : LoneEmpty(es[i])
<1> DEFINE n == Len(es)
           w == LinesFor(es)
           ds == ReadAgain(es)
           once == <<Fence>> \o w \o <<Fence>> \o body
           again == [ok |-> TRUE, fields |-> ds, body |-> body]
<1>1. n \in Nat /\ es = [i \in 1 .. n |-> es[i]]
  BY Zenon DEF AreGood
<1>2. /\ w \in Seq(S) /\ \A i \in 1 .. Len(w) : w[i] # Fence
      /\ FieldsIn(w) = ds /\ HeaderIsGood(w)
      /\ LinesFor(ds) = w
      /\ ds = es \/ \E i \in 1 .. n : LoneEmpty(es[i])
  BY WrittenHeaderIsRead
<1>3. ds = [i \in 1 .. n |-> EntryOf(w[i])]
  BY Zenon DEF ReadAgain
<1>4. Fence \in S /\ body \in Seq(S) /\ es # <<>> /\ rec = [ok |-> TRUE, fields |-> es, body |-> body]
  OBVIOUS
<1>5. n = Len(es)
  OBVIOUS
<1> HIDE DEF n, w, ds
<1>6. DOMAIN es = 1 .. n /\ DOMAIN ds = 1 .. n
  <2>1. DOMAIN [i \in 1 .. n |-> es[i]] = 1 .. n
    OBVIOUS
  <2> QED
    BY ONLY <1>1, <1>3, <2>1, Zenon
<1>7. n # 0
  <2>1. es \in Seq({es[i] : i \in 1 .. n})
    BY ONLY <1>1
  <2>2. n = 0 => es = <<>>
    BY ONLY <1>5, <2>1
  <2> QED
    BY ONLY <1>4, <2>2, Zenon
<1>8. Len(ds) = n /\ ds # <<>>
  BY ONLY <1>1, <1>3, <1>7
<1>9. Write(rec) = once
  <2>1. rec.fields = es /\ rec.body = body
    BY ONLY <1>4
  <2> QED
    BY ONLY <1>4, <1>5, <1>6, <2>1, WriteIs, Zenon DEF w, once
<1>10. Parse(once) = again
  <2>1. Parse(once) = [ok |-> TRUE, fields |-> FieldsIn(w), body |-> body]
    BY ONLY <1>2, <1>4, ParseOfFenced DEF once
  <2> QED
    BY ONLY <1>2, <2>1, Zenon DEF again
<1>11. Write(again) = once
  <2>1. again.fields = ds /\ again.body = body
    BY DEF again
  <2> HIDE DEF again
  <2>2. Write(again) = <<Fence>> \o LinesFor(ds) \o <<Fence>> \o body
    BY ONLY <1>6, <1>8, <2>1, WriteIs, Zenon
  <2> QED
    BY ONLY <1>2, <2>2, Zenon DEF once
<1>12. again = rec \/ \E i \in DOMAIN es : LoneEmpty(es[i])
  BY ONLY <1>2, <1>4, <1>6, Zenon DEF again
<1> HIDE DEF once, again
<1> QED
  BY ONLY <1>9, <1>10, <1>11, <1>12, Zenon

\* What holds of a text that can be read.
LEMMA TextRoundTrip ==
  ASSUME NEW L, NEW text \in Seq(L),
         \A i \in 1 .. Len(text) : IsField(text[i]) => text[i].raw \in Chars,
         Parse(text).ok
  PROVE  ReadBack(Parse(text)) /\ Settles(text)
<1> DEFINE ends == {i \in 2 .. Len(text) : text[i] = Fence}
           n == Len(text)
           k == Min(ends)
           header == SubSeq(text, 2, k - 1)
           rec == Parse(text)
           es == FieldsIn(header)
           rest == SubSeq(text, k + 1, n)
<1>1. n \in Nat /\ \A i \in 1 .. n : text[i] \in L
  OBVIOUS
<1>2. rec = IF text = <<>> \/ text[1] # Fence THEN [ok |-> TRUE, fields |-> <<>>, body |-> text]
            ELSE IF ends = {} \/ ~HeaderIsGood(header) THEN NoRecord
            ELSE [ok |-> TRUE, fields |-> es, body |-> rest]
  BY ONLY ParseIs, Zenon
<1>3. rec.ok
  OBVIOUS
<1>4. \A i \in 1 .. n : IsField(text[i]) => text[i].raw \in Chars
  OBVIOUS
<1>5. \A e \in ends : e \in 2 .. n
  BY DEF ends
<1> HIDE DEF ends, k, rec
<1>6. CASE text = <<>> \/ text[1] # Fence
  <2>1. rec = [ok |-> TRUE, fields |-> <<>>, body |-> text]
    BY ONLY <1>2, <1>6, Zenon
  <2>2. Write(rec) = text /\ Parse(text) = rec
    BY ONLY <1>6, <2>1, BodyRoundTrip, Zenon
  <2> QED
    BY ONLY <2>2, Zenon DEF ReadBack, Settles, rec
<1>7. CASE ~(text = <<>> \/ text[1] # Fence)
  <2>1. rec # NoRecord
    <3>1. NoRecord.ok = FALSE
      BY DEF NoRecord
    <3> QED
      BY ONLY <1>3, <3>1, Zenon
  <2>2. ends # {} /\ HeaderIsGood(header) /\ rec = [ok |-> TRUE, fields |-> es, body |-> rest]
    BY ONLY <1>2, <1>7, <2>1, Zenon
  <2>3. k \in 2 .. n
    <3>1. ends \in SUBSET Nat
      BY ONLY <1>5
    <3>2. k \in ends
      BY ONLY <2>2, <3>1, MinIsLeast DEF k
    <3> QED
      BY ONLY <1>5, <3>2
  <2> DEFINE S == {text[i] : i \in 1 .. n} \union {Written(es[i]) : i \in 1 .. Len(es)} \union {Fence}
  <2>4. rest \in Seq(S)
    <3>1. k + 1 \in Int /\ n \in Int /\ \A i \in k + 1 .. n : i \in 1 .. n
      BY ONLY <1>1, <2>3
    <3>2. \A i \in k + 1 .. n : text[i] \in S
      BY ONLY <3>1 DEF S
    <3> DEFINE c == k + 1
    <3> HIDE DEF c, S
    <3>3. c \in Int /\ n \in Int /\ \A i \in c .. n : text[i] \in S
      BY ONLY <3>1, <3>2 DEF c
    <3>4. SubSeq(text, c, n) \in Seq(S)
      BY ONLY <3>3, SubSeqProperties
    <3> QED
      BY ONLY <3>4 DEF c, rest
  <2>5. Fence \in S /\ \A i \in 1 .. Len(es) : Written(es[i]) \in S
    BY ONLY Zenon DEF S
  <2>6. Len(header) = k - 2 /\ DOMAIN header = 1 .. k - 2 /\ \A i \in 1 .. k - 2 : header[i] = text[1 + i]
    <3> DEFINE l == k - 1
    <3>1. 2 \in Int /\ l \in Int /\ \A i \in 2 .. l : i \in 1 .. n
      BY ONLY <1>1, <2>3 DEF l
    <3>2. \A i \in 2 .. l : text[i] \in L
      BY ONLY <1>1, <3>1
    <3>3. /\ (IF 2 <= l THEN l - 2 + 1 ELSE 0) = k - 2 /\ l - 2 + 1 = k - 2 /\ k - 2 \in Nat
          /\ \A i \in 1 .. k - 2 : 2 + i - 1 = 1 + i
      BY ONLY <2>3 DEF l
    <3> DEFINE h == SubSeq(text, 2, l)
    <3>4. h = header
      OBVIOUS
    <3> HIDE DEF l
    <3>5. /\ h \in Seq(L) /\ Len(h) = IF 2 <= l THEN l - 2 + 1 ELSE 0
          /\ \A i \in 1 .. l - 2 + 1 : h[i] = text[2 + i - 1]
      BY ONLY <3>1, <3>2, SubSeqProperties DEF h
    <3> HIDE DEF h
    <3>6. Len(h) = k - 2 /\ DOMAIN h = 1 .. k - 2 /\ \A i \in 1 .. k - 2 : h[i] = text[1 + i]
      BY ONLY <3>3, <3>5
    <3> HIDE DEF header
    <3> QED
      BY ONLY <3>4, <3>6
  <2> HIDE DEF header, S, es, rest
  <2>7. \A i \in 1 .. Len(header) : IsField(header[i]) => header[i].raw \in Chars
    <3>1. \A i \in 1 .. k - 2 : 1 + i \in 1 .. n
      BY ONLY <1>1, <2>3
    <3> QED
      BY ONLY <1>4, <2>6, <3>1
  <2>8. AreGood(es)
    <3>1. Len(header) \in Nat /\ DOMAIN header = 1 .. Len(header)
      BY ONLY <2>3, <2>6
    <3> QED
      BY ONLY <2>2, <2>7, <3>1, GoodHeaderIsRead, Zenon DEF es
  <2>9. CASE es # <<>>
    <3>1. /\ Write(Parse(Write(rec))) = Write(rec)
          /\ Parse(Write(rec)) = rec \/ \E i \in DOMAIN es : LoneEmpty(es[i])
      BY ONLY <2>2, <2>4, <2>5, <2>8, <2>9, RecordRoundTrip
    <3>2. rec.fields = es
      BY ONLY <2>2
    <3>3. ReadBack(rec)
      BY ONLY <3>1, <3>2, Zenon DEF ReadBack, LoneEmpty
    <3>4. Settles(text)
      BY ONLY <3>1, Zenon DEF Settles, rec
    <3> QED
      BY ONLY <3>3, <3>4, Zenon DEF rec
  <2>10. CASE es = <<>>
    <3>1. rec = [ok |-> TRUE, fields |-> <<>>, body |-> rest]
      BY ONLY <2>2, <2>10, Zenon
    <3>2. rec.fields = <<>> /\ rec.body = rest
      BY ONLY <3>1
    <3>3. /\ Write(rec) = rest
          /\ (rest = <<>> \/ rest[1] # Fence) => Parse(rest) = rec
      BY ONLY <3>1, BodyRoundTrip, Zenon
    <3>4. CASE rest = <<>> \/ rest[1] # Fence
      <4>1. Write(rec) = rest /\ Parse(rest) = rec
        BY ONLY <3>3, <3>4
      <4> QED
        BY ONLY <4>1, Zenon DEF ReadBack, Settles, rec
    <3>5. CASE rest[1] = Fence
      BY ONLY <3>2, <3>5, Zenon DEF ReadBack, Settles, rec
    <3> QED
      BY ONLY <3>4, <3>5, Zenon
  <2> QED
    BY ONLY <2>9, <2>10, Zenon
<1> QED
  BY ONLY <1>6, <1>7, Zenon

--------------------------------------------------------------------------------
(* Reading and writing settles.                                            *)

LEMMA LinesAreOfChars ==
  ASSUME NEW text \in Seq(LinesOf(DOMAIN Code))
  PROVE  \A i \in 1 .. Len(text) : IsField(text[i]) => text[i].raw \in Chars
<1> TAKE i \in 1 .. Len(text)
<1> DEFINE l == text[i]
<1>1. l \in LinesOf(DOMAIN Code)
  OBVIOUS
<1> HIDE DEF l
<1>2. l.kind = "field" => l.raw \in Seq(DOMAIN Code)
  BY <1>1 DEF LinesOf, Fence, Blank
<1>3. Seq(DOMAIN Code) \subseteq Chars
  <2> DEFINE A == DOMAIN Code
  <2>1. A \subseteq Letters
    BY Zenon DEF Letters
  <2> HIDE DEF A
  <2>2. Seq(A) \subseteq Seq(Letters)
    BY ONLY <2>1
  <2> QED
    BY <2>2, Zenon DEF Chars, A
<1>4. IsField(l) => l.raw \in Chars
  BY ONLY <1>2, <1>3, Zenon DEF IsField
<1> QED
  BY <1>4 DEF l

\* Every text that can be read at all is read back from what it is written as,
\* and a second round changes nothing, whatever its lines, its values and its
\* lists are (frontmatter_write, frontmatter_parse).
THEOREM EveryTextSettles ==
  \A text \in Seq(LinesOf(DOMAIN Code)) :
    Parse(text).ok => ReadBack(Parse(text)) /\ Settles(text)
BY LinesAreOfChars, TextRoundTrip, Zenon

\* So do the samples a run looks at, before anything happened and ever after.
THEOREM SamplesSettle == Spec => []RoundTripIsStable
<1>1. RoundTripIsStable
  BY EveryTextSettles, SamplesAssumption, Zenon DEF RoundTripIsStable
<1>2. Init => RoundTripIsStable
  BY <1>1
<1>3. RoundTripIsStable /\ [Next]_vars => RoundTripIsStable'
  BY EveryTextSettles, SamplesAssumption, Zenon DEF RoundTripIsStable
<1> QED
  BY <1>2, <1>3, PTL DEF Spec

--------------------------------------------------------------------------------
(* A set in the order of its ranks.                                        *)

\* A set by rank.
IsRanking(s, S, rank) ==
  /\ s \in [1 .. Cardinality(S) -> S]
  /\ \A i, j \in 1 .. Cardinality(S) : i < j => rank[s[i]] < rank[s[j]]

HasRanks(S, rank) ==
  /\ IsFiniteSet(S)
  /\ \A x \in S : rank[x] \in Nat
  /\ \A x, y \in S : rank[x] = rank[y] => x = y

LEMMA RankingExists ==
  ASSUME NEW S, NEW rank, HasRanks(S, rank)
  PROVE  \E s : IsRanking(s, S, rank)
<1> DEFINE f == [x \in S |-> rank[x] + 1]
           ends == {f[x] : x \in S}
           n == Cardinality(S)
<1>1. IsFiniteSet(S) /\ n \in Nat
  BY FS_CardinalityType DEF HasRanks
<1>2. \A x \in S : rank[x] \in Nat /\ f[x] = rank[x] + 1 /\ f[x] \in Nat \ {0}
  BY DEF HasRanks
<1>3. \A x, y \in S : f[x] = f[y] => x = y
  BY <1>2 DEF HasRanks
<1>4. f \in Surjection(S, ends) /\ f \in Injection(S, ends)
  <2>1. f \in [S -> ends]
    OBVIOUS
  <2>2. \A e \in ends : \E x \in S : f[x] = e
    OBVIOUS
  <2> HIDE DEF f, ends
  <2> QED
    BY <1>3, <2>1, <2>2 DEF Surjection, Injection, IsInjective
<1>5. ends \in SUBSET (Nat \ {0})
  BY <1>2
<1> HIDE DEF f
<1>6. IsFiniteSet(ends) /\ Cardinality(ends) = n
  <2> HIDE DEF ends
  <2> QED
    BY <1>1, <1>4, FS_Surjection
<1>7. \A e \in ends : \E x \in S : f[x] = e
  OBVIOUS
<1> HIDE DEF ends, n
<1>8. PICK cut : CutsOf(cut, ends)
  <2>1. ends \in SUBSET Nat
    BY <1>5
  <2> QED
    BY <1>6, <2>1, CutsExist
<1>9. /\ \A k \in 0 .. n : cut[k] \in Nat
      /\ \A k \in 1 .. n : cut[k] \in ends /\ cut[k - 1] < cut[k]
  <2>1. IsOrderOf(cut, ends)
    BY <1>5, <1>6, <1>8, CutsAre
  <2> QED
    BY <1>6, <2>1 DEF IsOrderOf
<1>10. \A i, j \in 0 .. n : i < j => cut[i] < cut[j]
  BY <1>1, <1>9, Rising
<1> DEFINE s == [k \in 1 .. n |-> CHOOSE x \in S : f[x] = cut[k]]
<1>11. \A k \in 1 .. n : s[k] \in S /\ f[s[k]] = cut[k]
  BY <1>7, <1>9
<1>12. s \in [1 .. n -> S]
  BY <1>11
<1> HIDE DEF s
<1>13. \A i, j \in 1 .. n : i < j => rank[s[i]] < rank[s[j]]
  <2> TAKE i, j \in 1 .. n
  <2> HAVE i < j
  <2>1. i \in 0 .. n /\ j \in 0 .. n
    BY <1>1
  <2>2. cut[i] < cut[j] /\ cut[i] \in Nat /\ cut[j] \in Nat
    BY <1>9, <1>10, <2>1
  <2>3. s[i] \in S /\ s[j] \in S /\ f[s[i]] = cut[i] /\ f[s[j]] = cut[j]
    BY <1>11
  <2>4. rank[s[i]] + 1 < rank[s[j]] + 1 /\ rank[s[i]] \in Nat /\ rank[s[j]] \in Nat
    BY <1>2, <2>2, <2>3
  <2> QED
    BY ONLY <2>4
<1> QED
  BY <1>12, <1>13 DEF IsRanking, n

\* Every entry of the set has one place.
IsListOf(s, S) ==
  /\ Cardinality(S) \in Nat
  /\ s \in [1 .. Cardinality(S) -> S]
  /\ \A i, j \in 1 .. Cardinality(S) : s[i] = s[j] => i = j
  /\ \A x \in S : \E i \in 1 .. Cardinality(S) : s[i] = x

LEMMA RankedIs ==
  ASSUME NEW S, NEW rank, HasRanks(S, rank)
  PROVE  IsListOf(Ranked(S, rank), S)
<1> DEFINE s == Ranked(S, rank)
           n == Cardinality(S)
<1>1. IsFiniteSet(S) /\ n \in Nat
  BY FS_CardinalityType DEF HasRanks
<1>2. \E t \in [1 .. n -> S] : \A i, j \in DOMAIN t : i < j => rank[t[i]] < rank[t[j]]
  <2>1. PICK t : IsRanking(t, S, rank)
    BY RankingExists
  <2>2. t \in [1 .. n -> S] /\ DOMAIN t = 1 .. n
    BY <2>1 DEF IsRanking
  <2> QED
    BY <2>1, <2>2 DEF IsRanking
<1>3. s \in [1 .. n -> S] /\ \A i, j \in DOMAIN s : i < j => rank[s[i]] < rank[s[j]]
  BY ONLY <1>2, Zenon DEF Ranked, s, n
<1> HIDE DEF s, n
<1>4. \A i, j \in 1 .. n : s[i] = s[j] => i = j
  <2> TAKE i, j \in 1 .. n
  <2> HAVE s[i] = s[j]
  <2>1. i \in DOMAIN s /\ j \in DOMAIN s /\ rank[s[i]] \in Nat /\ rank[s[j]] \in Nat /\ i \in Nat /\ j \in Nat
    BY <1>1, <1>3 DEF HasRanks
  <2> QED
    BY <1>3, <2>1
<1>5. \A x \in S : \E i \in 1 .. n : s[i] = x
  <2>1. s \in Injection(1 .. n, S)
    BY <1>3, <1>4 DEF Injection, IsInjective
  <2>2. Cardinality(1 .. n) = n
    BY <1>1, FS_Interval
  <2>3. s \in Surjection(1 .. n, S)
    BY <1>1, <2>1, <2>2, FS_Injection DEF n
  <2> QED
    BY <2>3 DEF Surjection
<1> QED
  BY <1>1, <1>3, <1>4, <1>5 DEF IsListOf, s, n

--------------------------------------------------------------------------------
(* Texts and records of letters.                                           *)

AnyLine == LinesOf(Letters)

LEMMA FieldLineIs ==
  ASSUME NEW key \in STRING, NEW raw \in Chars
  PROVE  /\ FieldLine(key, raw) \in AnyLine /\ IsField(FieldLine(key, raw))
         /\ FieldLine(key, raw) # Fence
         /\ FieldLine(key, raw).key = key /\ FieldLine(key, raw).raw = raw
<1> DEFINE A == Letters
<1>1. raw \in Seq(A)
  BY Zenon DEF Chars
<1> HIDE DEF A
<1>2. FieldLine(key, raw) \in [kind : {"field"}, indented : BOOLEAN, key : STRING, raw : Seq(A)]
  BY <1>1 DEF FieldLine
<1>3. FieldLine(key, raw) \in LinesOf(A)
  BY <1>2, Zenon DEF LinesOf
<1>4. /\ FieldLine(key, raw) # Fence /\ IsField(FieldLine(key, raw))
      /\ FieldLine(key, raw).key = key /\ FieldLine(key, raw).raw = raw
  BY DEF FieldLine, Fence, IsField
<1> QED
  BY <1>3, <1>4, Zenon DEF A, AnyLine

LEMMA FenceIsLine == Fence \in AnyLine
BY Zenon DEF AnyLine, LinesOf

LEMMA LineIs ==
  ASSUME NEW l \in AnyLine, IsField(l)
  PROVE  l.raw \in Chars /\ l.key \in STRING
<1> DEFINE A == Letters
<1> HIDE DEF A
<1>1. l \in LinesOf(A)
  BY Zenon DEF A, AnyLine
<1>2. l.raw \in Seq(A) /\ l.key \in STRING
  BY <1>1 DEF LinesOf, Fence, Blank, IsField
<1> QED
  BY <1>2, Zenon DEF A, Chars

LEMMA TextsOfCode ==
  Seq(DOMAIN Code) \subseteq Chars /\ Seq(LinesOf(DOMAIN Code)) \subseteq Seq(AnyLine)
<1> DEFINE A == DOMAIN Code
           B == Letters
<1>1. A \subseteq B
  BY Zenon DEF Letters
<1> HIDE DEF A, B
<1>2. Seq(A) \subseteq Seq(B)
  BY <1>1
<1>3. LinesOf(A) \subseteq LinesOf(B)
  <2> DEFINE X == Seq(A)
             Y == Seq(B)
  <2> HIDE DEF X, Y
  <2>1. X \subseteq Y
    BY <1>2, Zenon DEF X, Y
  <2>2. ({Fence, Blank} \union [kind : {"text"}, raw : X]
           \union [kind : {"field"}, indented : BOOLEAN, key : STRING, raw : X])
          \subseteq ({Fence, Blank} \union [kind : {"text"}, raw : Y]
           \union [kind : {"field"}, indented : BOOLEAN, key : STRING, raw : Y])
    BY <2>1
  <2> QED
    BY <2>2, Zenon DEF LinesOf, X, Y
<1>4. Seq(LinesOf(A)) \subseteq Seq(LinesOf(B))
  <2> DEFINE X == LinesOf(A)
             Y == LinesOf(B)
  <2> HIDE DEF X, Y
  <2>1. X \subseteq Y
    BY <1>3, Zenon DEF X, Y
  <2>2. Seq(X) \subseteq Seq(Y)
    BY <2>1
  <2> QED
    BY <2>2, Zenon DEF X, Y
<1> QED
  BY <1>2, <1>4, Zenon DEF A, B, Chars, AnyLine

GoodRecord(rec) ==
  /\ rec = [ok |-> TRUE, fields |-> rec.fields, body |-> rec.body]
  /\ AreGood(rec.fields) /\ rec.body \in Seq(AnyLine)
  /\ \A i \in 1 .. Len(rec.fields) : rec.fields[i].key \in STRING

\* The keys of good entries are texts, and so are the lines they are written as.
LEMMA GoodIsWritten ==
  ASSUME NEW es, AreGood(es), \A i \in 1 .. Len(es) : es[i].key \in STRING
  PROVE  \A i \in 1 .. Len(es) : Written(es[i]) \in AnyLine
<1> TAKE i \in 1 .. Len(es)
<1> DEFINE e == es[i]
<1>1. (\E raw \in Chars : e = EntryFrom(e.key, Trim(raw))) /\ e.key \in STRING
  BY Zenon DEF AreGood
<1> HIDE DEF e
<1>2. PICK raw \in Chars : e = EntryFrom(e.key, Trim(raw))
  BY ONLY <1>1
<1>3. WrittenRaw(e) \in Chars
  BY ONLY <1>2, EntryAgain
<1>4. FieldLine(e.key, WrittenRaw(e)) \in AnyLine
  BY ONLY <1>1, <1>3, FieldLineIs
<1>5. Written(e) \in AnyLine
  BY ONLY <1>4, WrittenIs, Zenon
<1> QED
  BY ONLY <1>5, Zenon DEF e

LEMMA HeaderKeys ==
  ASSUME NEW header, Len(header) \in Nat,
         \A i \in 1 .. Len(header) : IsField(header[i]) => header[i].key \in STRING
  PROVE  \A i \in 1 .. Len(FieldsIn(header)) : FieldsIn(header)[i].key \in STRING
<1> DEFINE es == FieldsIn(header)
<1>1. es \in Seq(EntriesIn(header))
  BY FieldsAreEntries
<1>2. \A e \in EntriesIn(header) : e.key \in STRING
  <2> TAKE e \in EntriesIn(header)
  <2>1. PICK k \in 1 .. Len(header) : IsField(header[k]) /\ e = EntryOf(header[k])
    BY Zenon DEF EntriesIn
  <2>2. e = EntryFrom(header[k].key, Trim(header[k].raw))
    BY ONLY <2>1, EntryOfIs, Zenon
  <2>3. e.key = header[k].key
    BY ONLY <2>2 DEF EntryFrom
  <2> QED
    BY <2>1, <2>3
<1> HIDE DEF es
<1>3. \A i \in 1 .. Len(es) : es[i] \in EntriesIn(header)
  BY <1>1
<1> QED
  BY <1>2, <1>3 DEF es

\* What is read of a text is a record that can be written.
LEMMA ParsedIsGood ==
  ASSUME NEW text \in Seq(AnyLine), Parse(text).ok
  PROVE  GoodRecord(Parse(text))
<1> DEFINE ends == {i \in 2 .. Len(text) : text[i] = Fence}
           n == Len(text)
           k == Min(ends)
           header == SubSeq(text, 2, k - 1)
           rec == Parse(text)
           es == FieldsIn(header)
           rest == SubSeq(text, k + 1, n)
<1>1. n \in Nat /\ text \in Seq(AnyLine) /\ \A i \in 1 .. n : text[i] \in AnyLine
  OBVIOUS
<1>2. rec = IF text = <<>> \/ text[1] # Fence THEN [ok |-> TRUE, fields |-> <<>>, body |-> text]
            ELSE IF ends = {} \/ ~HeaderIsGood(header) THEN NoRecord
            ELSE [ok |-> TRUE, fields |-> es, body |-> rest]
  BY ONLY ParseIs, Zenon
<1>3. rec.ok
  OBVIOUS
<1>5. \A e \in ends : e \in 2 .. n
  BY DEF ends
<1> HIDE DEF ends, k, rec
<1>6. CASE text = <<>> \/ text[1] # Fence
  <2>1. rec = [ok |-> TRUE, fields |-> <<>>, body |-> text]
    BY ONLY <1>2, <1>6, Zenon
  <2>2. rec.fields = <<>> /\ rec.body = text /\ rec = [ok |-> TRUE, fields |-> rec.fields, body |-> rec.body]
    BY ONLY <2>1
  <2>3. AreGood(<<>>) /\ \A i \in 1 .. Len(<<>>) : <<>>[i].key \in STRING
    BY DEF AreGood
  <2> QED
    BY ONLY <1>1, <2>2, <2>3, Zenon DEF GoodRecord, rec
<1>7. CASE ~(text = <<>> \/ text[1] # Fence)
  <2>1. rec # NoRecord
    <3>1. NoRecord.ok = FALSE
      BY DEF NoRecord
    <3> QED
      BY ONLY <1>3, <3>1, Zenon
  <2>2. ends # {} /\ HeaderIsGood(header) /\ rec = [ok |-> TRUE, fields |-> es, body |-> rest]
    BY ONLY <1>2, <1>7, <2>1, Zenon
  <2>3. k \in 2 .. n
    <3>1. ends \in SUBSET Nat
      BY ONLY <1>5
    <3>2. k \in ends
      BY ONLY <2>2, <3>1, MinIsLeast DEF k
    <3> QED
      BY ONLY <1>5, <3>2
  <2>4. rest \in Seq(AnyLine)
    <3> DEFINE c == k + 1
    <3>1. c \in Int /\ n \in Int /\ \A i \in c .. n : i \in 1 .. n
      BY ONLY <1>1, <2>3 DEF c
    <3> HIDE DEF c
    <3>2. \A i \in c .. n : text[i] \in AnyLine
      BY ONLY <1>1, <3>1
    <3>3. SubSeq(text, c, n) \in Seq(AnyLine)
      BY ONLY <3>1, <3>2, SubSeqProperties
    <3> QED
      BY ONLY <3>3 DEF c, rest
  <2>6. Len(header) \in Nat /\ DOMAIN header = 1 .. Len(header) /\ \A i \in 1 .. Len(header) : header[i] \in AnyLine
    <3> DEFINE l == k - 1
    <3>1. 2 \in Int /\ l \in Int /\ \A i \in 2 .. l : i \in 1 .. n
      BY ONLY <1>1, <2>3 DEF l
    <3> HIDE DEF l
    <3>2. \A i \in 2 .. l : text[i] \in AnyLine
      BY ONLY <1>1, <3>1
    <3>3. SubSeq(text, 2, l) \in Seq(AnyLine)
      BY ONLY <3>1, <3>2, SubSeqProperties
    <3> DEFINE h == SubSeq(text, 2, l)
    <3>4. Len(h) \in Nat /\ DOMAIN h = 1 .. Len(h) /\ \A i \in 1 .. Len(h) : h[i] \in AnyLine
      <4> HIDE DEF h
      <4>1. h \in Seq(AnyLine)
        BY <3>3 DEF h
      <4> QED
        BY ONLY <4>1
    <3> QED
      BY ONLY <3>4, Zenon DEF l, h, header
  <2> HIDE DEF header
  <2>7. \A i \in 1 .. Len(header) : IsField(header[i]) => header[i].raw \in Chars /\ header[i].key \in STRING
    BY ONLY <2>6, LineIs
  <2>8. AreGood(es)
    BY ONLY <2>2, <2>6, <2>7, GoodHeaderIsRead, Zenon DEF es
  <2>9. \A i \in 1 .. Len(es) : es[i].key \in STRING
    BY ONLY <2>6, <2>7, HeaderKeys, Zenon DEF es
  <2> HIDE DEF es, rest
  <2>10. rec.fields = es /\ rec.body = rest /\ rec = [ok |-> TRUE, fields |-> rec.fields, body |-> rec.body]
    BY ONLY <2>2
  <2> QED
    BY ONLY <2>4, <2>8, <2>9, <2>10, Zenon DEF GoodRecord, rec
<1> QED
  BY ONLY <1>6, <1>7, Zenon

\* A record with a header is written as a text, and read as its entries read again.
LEMMA GoodIsReadAgain ==
  ASSUME NEW rec, GoodRecord(rec), rec.fields # <<>>
  PROVE  /\ Write(rec) \in Seq(AnyLine)
         /\ Parse(Write(rec)) = [ok |-> TRUE, fields |-> ReadAgain(rec.fields), body |-> rec.body]
<1> DEFINE es == rec.fields
           body == rec.body
           w == LinesFor(es)
           once == <<Fence>> \o w \o <<Fence>> \o body
<1>1. AreGood(es) /\ body \in Seq(AnyLine) /\ es # <<>> /\ \A i \in 1 .. Len(es) : es[i].key \in STRING
  BY Zenon DEF GoodRecord
<1>2. \A i \in 1 .. Len(es) : Written(es[i]) \in AnyLine
  <2> HIDE DEF es
  <2> QED
    BY ONLY <1>1, GoodIsWritten
<1>3. DOMAIN es = 1 .. Len(es)
  <2> HIDE DEF es
  <2>1. es = [i \in 1 .. Len(es) |-> es[i]]
    BY ONLY <1>1, Zenon DEF AreGood
  <2> QED
    BY ONLY <2>1
<1>4. rec.fields = es /\ rec.body = body
  OBVIOUS
<1> HIDE DEF es, body
<1>5. w \in Seq(AnyLine) /\ (\A i \in 1 .. Len(w) : w[i] # Fence) /\ FieldsIn(w) = ReadAgain(es) /\ HeaderIsGood(w)
  BY ONLY <1>1, <1>2, WrittenHeaderIsRead, Zenon DEF w
<1>6. Write(rec) = once
  BY ONLY <1>1, <1>3, <1>4, WriteIs, Zenon DEF w, once
<1> HIDE DEF w
<1>7. once \in Seq(AnyLine)
  BY ONLY <1>1, <1>5, FenceIsLine, FencedIs
<1>8. Parse(once) = [ok |-> TRUE, fields |-> FieldsIn(w), body |-> body]
  BY ONLY <1>1, <1>5, FenceIsLine, ParseOfFenced
<1> QED
  BY ONLY <1>5, <1>6, <1>7, <1>8, Zenon DEF es, body

\* Whatever was read can be written.
LEMMA WhatIsReadIsWritten ==
  ASSUME NEW text \in Seq(AnyLine)
  PROVE  Write(Parse(text)) \in Seq(AnyLine)
<1> DEFINE rec == Parse(text)
<1>1. CASE ~rec.ok
  <2>1. rec = NoRecord \/ \E es, b : rec = [ok |-> TRUE, fields |-> es, body |-> b]
    BY ONLY ParseIs, Zenon
  <2> HIDE DEF rec
  <2>2. rec = NoRecord
    BY ONLY <1>1, <2>1
  <2>3. rec.fields = <<>> /\ rec.body = <<>>
    BY ONLY <2>2 DEF NoRecord
  <2>4. Write(rec) = <<>>
    BY ONLY <2>3, Zenon DEF Write
  <2>5. <<>> \in Seq(AnyLine)
    OBVIOUS
  <2> QED
    BY ONLY <2>4, <2>5, Zenon DEF rec
<1>2. CASE rec.ok
  <2>1. GoodRecord(rec)
    BY <1>2, ParsedIsGood
  <2> HIDE DEF rec
  <2>2. CASE rec.fields # <<>>
    BY ONLY <2>1, <2>2, GoodIsReadAgain, Zenon DEF rec
  <2>3. CASE rec.fields = <<>>
    BY ONLY <2>1, <2>3, Zenon DEF GoodRecord, Write, rec
  <2> QED
    BY ONLY <2>2, <2>3
<1> QED
  BY ONLY <1>1, <1>2

--------------------------------------------------------------------------------
(* Values as they are written and read again.                              *)

LEMMA TrimSpaced ==
  ASSUME NEW v \in Chars
  PROVE  Trim(<<Space>> \o v) = Trim(v)
<1> DEFINE u == <<Space>> \o v
           S == {i \in DOMAIN v : v[i] # Space}
           T == {i \in DOMAIN u : u[i] # Space}
           n == Len(v)
<1>1. n \in Nat /\ DOMAIN v = 1 .. n /\ v \in Chars
  BY TextIs
<1>2. <<Space>> \in Chars /\ Len(<<Space>>) = 1 /\ <<Space>>[1] = Space
  BY ONLY FourLetters, LetterIs
<1>3. u \in Chars /\ Len(u) = 1 + n /\ u[1] = Space /\ \A i \in 1 .. n : u[1 + i] = v[i]
  BY ONLY <1>1, <1>2, ConcatIs DEF u, n
<1>4. DOMAIN u = 1 .. n + 1
  BY ONLY <1>1, <1>3, TextIs
<1>5. /\ Trim(v) = IF S = {} THEN <<>> ELSE SubSeq(v, Min(S), Max(S))
      /\ Trim(u) = IF T = {} THEN <<>> ELSE SubSeq(u, Min(T), Max(T))
  BY ONLY TrimByName, Zenon
<1>6. S \in SUBSET (1 .. n) /\ T \in SUBSET (1 .. n + 1)
  BY <1>1, <1>4
<1>7. \A i \in 1 .. n : i \in S <=> i + 1 \in T
  BY <1>1, <1>3, <1>4
<1>8. 1 \notin T
  BY <1>3
<1> HIDE DEF S, T, u, n
<1>9. CASE S = {}
  <2>1. T = {}
    <3>1. \A t \in T : t - 1 \in 1 .. n /\ (t - 1) + 1 = t
      BY ONLY <1>1, <1>6, <1>8
    <3> QED
      BY ONLY <1>7, <1>9, <3>1
  <2> QED
    BY ONLY <1>5, <1>9, <2>1 DEF u
<1>10. CASE S # {}
  <2>1. S \in SUBSET Nat /\ T \in SUBSET Nat
    BY ONLY <1>1, <1>6
  <2>2. T # {}
    <3>1. PICK i \in S : TRUE
      BY ONLY <1>10
    <3> QED
      BY ONLY <1>6, <1>7, <3>1
  <2>3. /\ Min(S) \in S /\ Min(T) \in T /\ (\A s \in S : Min(S) <= s) /\ \A t \in T : Min(T) <= t
    BY ONLY <1>10, <2>1, <2>2, MinIsLeast
  <2>4. /\ Max(S) \in S /\ Max(T) \in T /\ (\A s \in S : s <= Max(S)) /\ \A t \in T : t <= Max(T)
    <3> DEFINE m == n + 1
    <3>1. n \in Nat /\ m \in Nat /\ S \in SUBSET (0 .. n) /\ T \in SUBSET (0 .. m)
      BY ONLY <1>1, <1>6 DEF m
    <3> HIDE DEF m
    <3>2. Max(S) \in S /\ \A s \in S : s <= Max(S)
      BY ONLY <1>10, <3>1, MaxIsGreatest
    <3>3. Max(T) \in T /\ \A t \in T : t <= Max(T)
      BY ONLY <2>2, <3>1, MaxIsGreatest
    <3> QED
      BY ONLY <3>2, <3>3
  <2> DEFINE a == Min(S)
             b == Max(S)
             c == Min(T)
             d == Max(T)
  <2>5. a \in S /\ b \in S /\ c \in T /\ d \in T
    BY <2>3, <2>4
  <2>6. (\A s \in S : a <= s /\ s <= b) /\ (\A t \in T : c <= t /\ t <= d)
    BY <2>3, <2>4
  <2> HIDE DEF a, b, c, d
  <2>7. a \in 1 .. n /\ b \in 1 .. n /\ c \in 2 .. n + 1 /\ d \in 2 .. n + 1
    BY ONLY <1>1, <1>6, <1>8, <2>5
  <2>8. a + 1 \in T /\ b + 1 \in T
    BY ONLY <1>7, <2>5, <2>7
  <2>9. c - 1 \in S /\ d - 1 \in S
    <3>1. c - 1 \in 1 .. n /\ d - 1 \in 1 .. n /\ (c - 1) + 1 = c /\ (d - 1) + 1 = d
      BY ONLY <1>1, <2>7
    <3> QED
      BY ONLY <1>7, <2>5, <3>1
  <2>10. c = a + 1 /\ d = b + 1
    <3>1. c <= a + 1 /\ b + 1 <= d /\ a <= c - 1 /\ d - 1 <= b
      BY ONLY <2>6, <2>8, <2>9
    <3> QED
      BY ONLY <1>1, <2>7, <3>1
  <2>11. a <= b
    BY ONLY <2>5, <2>6
  <2> DEFINE p == SubSeq(v, a, b)
             q == SubSeq(u, c, d)
  <2>12. /\ p \in Chars /\ Len(p) = b - a + 1
         /\ \A i \in 1 .. Len(p) : p[i] = v[a + i - 1] /\ a + i - 1 \in a .. b
    <3>1. a \in Nat \ {0} /\ b \in 0 .. Len(v)
      BY ONLY <1>1, <2>7 DEF n
    <3> QED
      BY ONLY <1>1, <2>11, <3>1, PartIs
  <2>13. /\ q \in Chars /\ Len(q) = d - c + 1
         /\ \A i \in 1 .. Len(q) : q[i] = u[c + i - 1]
    <3>1. c \in Nat \ {0} /\ d \in 0 .. Len(u) /\ c <= d
      BY ONLY <1>1, <1>3, <2>7, <2>10, <2>11
    <3> QED
      BY ONLY <1>3, <3>1, PartIs
  <2> HIDE DEF p, q
  <2>14. Len(p) = Len(q) /\ \A i \in 1 .. Len(p) : p[i] = q[i]
    <3>1. Len(p) = Len(q) /\ Len(p) \in Nat
      BY ONLY <2>7, <2>10, <2>11, <2>12, <2>13
    <3>2. ASSUME NEW i \in 1 .. Len(p) PROVE p[i] = q[i]
      <4>1. p[i] = v[a + i - 1] /\ a + i - 1 \in a .. b /\ i \in Int
        BY ONLY <2>12, <3>1, i \in 1 .. Len(p)
      <4>2. a + i - 1 \in 1 .. n /\ 1 + (a + i - 1) = c + i - 1
        BY ONLY <1>1, <2>7, <2>10, <4>1
      <4>3. u[1 + (a + i - 1)] = v[a + i - 1]
        BY ONLY <1>3, <4>2
      <4>4. q[i] = u[c + i - 1]
        BY ONLY <2>13, <3>1, i \in 1 .. Len(p)
      <4> QED
        BY ONLY <4>1, <4>2, <4>3, <4>4
    <3> QED
      BY ONLY <3>1, <3>2
  <2>15. p = q
    BY ONLY <2>12, <2>13, <2>14, SameText
  <2>16. Trim(v) = p /\ Trim(u) = q
    BY ONLY <1>5, <1>10, <2>2, Zenon DEF p, q, a, b, c, d
  <2> QED
    BY ONLY <2>15, <2>16, Zenon DEF u
<1> QED
  BY ONLY <1>9, <1>10

LEMMA ScalarIs ==
  ASSUME NEW key \in STRING, NEW v \in Chars
  PROVE  /\ Written(Scalar(key, v)) \in AnyLine /\ IsField(Written(Scalar(key, v)))
         /\ Written(Scalar(key, v)) # Fence
         /\ Written(Scalar(key, v)).key = key
         /\ EntryOf(Written(Scalar(key, v))) = EntryFrom(key, Trim(v))
<1> DEFINE raw == <<Space>> \o v
           e == Scalar(key, v)
           l == Written(e)
<1>1. raw \in Chars
  BY ONLY FourLetters, LetterIs, ConcatIs, v \in Chars
<1>2. WrittenRaw(e) = raw /\ e.key = key
  <2>1. e.key = key /\ e.list = FALSE /\ e.values # <<>> /\ Head(e.values) = v
    BY DEF Scalar
  <2> HIDE DEF e
  <2> QED
    BY ONLY <2>1, Zenon DEF WrittenRaw, raw
<1>3. l = FieldLine(key, raw)
  BY ONLY <1>2, WrittenIs, Zenon
<1>4. EntryOf(l) = EntryFrom(key, Trim(raw))
  BY ONLY <1>2, WrittenEntryIs, Zenon
<1>5. Trim(raw) = Trim(v)
  BY TrimSpaced
<1> HIDE DEF raw, l, e
<1>6. l \in AnyLine /\ IsField(l) /\ l # Fence /\ l.key = key
  BY ONLY <1>1, <1>3, FieldLineIs, key \in STRING
<1> QED
  BY ONLY <1>4, <1>5, <1>6, Zenon DEF l, e

\* An entry that was read is read once more from its line.
LEMMA ReadIsKept ==
  ASSUME NEW key, NEW raw \in Chars
  PROVE  LET e == EntryFrom(key, Trim(raw))
         IN /\ EntryOf(Written(e)).key = key
            /\ ~LoneEmpty(e) => EntryOf(Written(e)) = e
<1> DEFINE e == EntryFrom(key, Trim(raw))
           d == EntryFrom(key, Trim(WrittenRaw(e)))
<1>1. e.key = key /\ d.key = key /\ (d = e \/ LoneEmpty(e))
  BY EntryAgain
<1>2. EntryOf(Written(e)) = EntryFrom(e.key, Trim(WrittenRaw(e)))
  BY ONLY WrittenEntryIs, Zenon
<1> HIDE DEF e
<1>3. EntryOf(Written(e)) = d
  BY ONLY <1>1, <1>2, Zenon
<1> QED
  BY ONLY <1>1, <1>3, Zenon DEF e

--------------------------------------------------------------------------------
(* A text that was composed out of lines, read and read again.             *)

\* The values under a key.
LEMMA ListAt ==
  ASSUME NEW rec, NEW n \in Nat, DOMAIN rec.fields = 1 .. n,
         \A i, j \in 1 .. n : rec.fields[i].key = rec.fields[j].key => i = j
  PROVE  /\ KeysOf(rec) = {rec.fields[i].key : i \in 1 .. n}
         /\ \A i \in 1 .. n : ListOf(rec, rec.fields[i].key) = rec.fields[i].values
<1>1. KeysOf(rec) = {rec.fields[i].key : i \in 1 .. n}
  BY Zenon DEF KeysOf
<1>2. ASSUME NEW i \in 1 .. n
      PROVE  ListOf(rec, rec.fields[i].key) = rec.fields[i].values
  <2> DEFINE key == rec.fields[i].key
             c == CHOOSE j \in DOMAIN rec.fields : rec.fields[j].key = key
  <2>1. key \in KeysOf(rec)
    BY <1>1
  <2>2. ListOf(rec, key) = rec.fields[c].values
    BY ONLY <2>1, Zenon DEF ListOf, c
  <2>3. c \in 1 .. n /\ rec.fields[c].key = key
    <3>1. \E j \in DOMAIN rec.fields : rec.fields[j].key = key
      OBVIOUS
    <3> HIDE DEF key
    <3>2. c \in DOMAIN rec.fields /\ rec.fields[c].key = key
      BY ONLY <3>1, Zenon DEF c
    <3> QED
      BY <3>2
  <2> HIDE DEF c
  <2>4. c = i
    BY <2>3
  <2> QED
    BY ONLY <2>2, <2>4, Zenon DEF key
<1> QED
  BY <1>1, <1>2

Twice(l) == EntryOf(Written(EntryOf(l)))

\* The keys of lines, and what a record has under them.
KeysDiffer(lines) ==
  \A i, j \in 1 .. Len(lines) : lines[i].key = lines[j].key => i = j

HasEntries(rec, lines, es) ==
  /\ KeysOf(rec) = {lines[i].key : i \in 1 .. Len(lines)}
  /\ \A i \in 1 .. Len(lines) : ListOf(rec, lines[i].key) = es[i].values

LEMMA EntriesAreHad ==
  ASSUME NEW lines, Len(lines) \in Nat, KeysDiffer(lines),
         NEW rec, NEW es, rec.fields = es, DOMAIN es = 1 .. Len(lines),
         \A i \in 1 .. Len(lines) : es[i].key = lines[i].key
  PROVE  HasEntries(rec, lines, es)
<1> DEFINE n == Len(lines)
<1>1. \A i, j \in 1 .. n : rec.fields[i].key = rec.fields[j].key => i = j
  BY DEF KeysDiffer
<1>2. n \in Nat /\ DOMAIN rec.fields = 1 .. n
  OBVIOUS
<1>3. \A i \in 1 .. n : rec.fields[i].key = lines[i].key /\ rec.fields[i] = es[i]
  OBVIOUS
<1> HIDE DEF n
<1>4. /\ KeysOf(rec) = {rec.fields[i].key : i \in 1 .. n}
      /\ \A i \in 1 .. n : ListOf(rec, rec.fields[i].key) = rec.fields[i].values
  BY ONLY <1>1, <1>2, ListAt
<1>5. {rec.fields[i].key : i \in 1 .. n} = {lines[i].key : i \in 1 .. n}
  BY ONLY <1>3
<1>6. \A i \in 1 .. n : ListOf(rec, lines[i].key) = es[i].values
  BY ONLY <1>3, <1>4, Zenon
<1> QED
  BY ONLY <1>4, <1>5, <1>6, Zenon DEF HasEntries, n

\* A text composed out of lines, read.
LEMMA ComposedIsParsed ==
  ASSUME NEW lines \in Seq(AnyLine),
         \A i \in 1 .. Len(lines) : IsField(lines[i]) /\ lines[i] # Fence,
         NEW body \in Seq(AnyLine),
         NEW rec, rec = Parse(<<Fence>> \o lines \o <<Fence>> \o body), rec.ok
  PROVE  LET es == [i \in 1 .. Len(lines) |-> EntryOf(lines[i])]
         IN KeysDiffer(lines) /\ HasEntries(rec, lines, es) /\ GoodRecord(rec)
              /\ rec.fields = es /\ rec.body = body
<1> DEFINE n == Len(lines)
           text == <<Fence>> \o lines \o <<Fence>> \o body
           es == [i \in 1 .. n |-> EntryOf(lines[i])]
<1>1. n \in Nat /\ DOMAIN lines = 1 .. n /\ lines \in Seq(AnyLine)
  OBVIOUS
<1>2. \A i \in 1 .. n : IsField(lines[i]) /\ lines[i] # Fence
  OBVIOUS
<1>3. rec = IF HeaderIsGood(lines) THEN [ok |-> TRUE, fields |-> FieldsIn(lines), body |-> body]
            ELSE NoRecord
  BY FenceIsLine, FencedIsParsed
<1>4. HeaderIsGood(lines) /\ rec = [ok |-> TRUE, fields |-> FieldsIn(lines), body |-> body]
  <2>1. ~NoRecord.ok /\ rec.ok
    BY DEF NoRecord
  <2> QED
    BY ONLY <1>3, <2>1
<1>5. FieldsIn(lines) = es
  BY ONLY <1>1, <1>2, FieldsOfFields DEF n, es
<1>6. text \in Seq(AnyLine)
  BY FenceIsLine, FencedIs
<1>7. rec.ok /\ rec = Parse(text)
  OBVIOUS
<1> HIDE DEF es, n, text
<1>8. GoodRecord(rec)
  BY ONLY <1>6, <1>7, ParsedIsGood
<1>9. rec.fields = es /\ rec.body = body
  BY ONLY <1>4, <1>5
<1>10. DOMAIN es = 1 .. n /\ \A i \in 1 .. n : es[i].key = lines[i].key
  <2>1. DOMAIN es = 1 .. n /\ \A i \in 1 .. n : es[i] = EntryOf(lines[i])
    BY ONLY <1>1 DEF es
  <2>2. ASSUME NEW i \in 1 .. n PROVE es[i].key = lines[i].key
    <3>1. es[i] = EntryFrom(lines[i].key, Trim(lines[i].raw))
      BY ONLY <2>1, EntryOfIs, Zenon
    <3> QED
      BY ONLY <3>1 DEF EntryFrom
  <2> QED
    BY ONLY <2>1, <2>2
<1>11. KeysDiffer(lines)
  <2>1. \A i, j \in DOMAIN es : es[i].key = es[j].key => i = j
    BY ONLY <1>4, <1>5, Zenon DEF HeaderIsGood
  <2> QED
    BY ONLY <1>10, <2>1 DEF KeysDiffer, n
<1>12. HasEntries(rec, lines, es)
  BY ONLY <1>1, <1>9, <1>10, <1>11, EntriesAreHad DEF n
<1> QED
  BY ONLY <1>8, <1>9, <1>11, <1>12, Zenon DEF es, n

\* Written and read again.
LEMMA ComposedIsReadAgain ==
  ASSUME NEW lines \in Seq(AnyLine), lines # <<>>, KeysDiffer(lines),
         \A i \in 1 .. Len(lines) : IsField(lines[i]),
         NEW rec, GoodRecord(rec), rec.fields = [i \in 1 .. Len(lines) |-> EntryOf(lines[i])],
         NEW new, new = Parse(Write(rec))
  PROVE  /\ HasEntries(new, lines, [i \in 1 .. Len(lines) |-> Twice(lines[i])])
         /\ new.ok /\ new.body = rec.body
<1> DEFINE n == Len(lines)
           es == [i \in 1 .. n |-> EntryOf(lines[i])]
           ds == [i \in 1 .. n |-> Twice(lines[i])]
<1>1. n \in Nat /\ n # 0 /\ lines \in Seq(AnyLine) /\ \A i \in 1 .. n : IsField(lines[i])
  OBVIOUS
<1>2. GoodRecord(rec) /\ rec.fields = es /\ new = Parse(Write(rec)) /\ KeysDiffer(lines)
  OBVIOUS
<1> HIDE DEF es, ds, n
<1>3. DOMAIN es = 1 .. n /\ Len(es) = n /\ \A i \in 1 .. n : es[i] = EntryOf(lines[i])
  BY ONLY <1>1 DEF es
<1>4. es # <<>>
  BY ONLY <1>1, <1>3
<1>5. new = [ok |-> TRUE, fields |-> ReadAgain(es), body |-> rec.body]
  BY ONLY <1>2, <1>4, GoodIsReadAgain, Zenon
<1>6. ReadAgain(es) = ds
  <2>1. /\ ReadAgain(es) = [i \in 1 .. n |-> EntryOf(LinesFor(es)[i])]
        /\ LinesFor(es) = [i \in 1 .. n |-> Written(es[i])]
    BY ONLY <1>3, Zenon DEF ReadAgain, LinesFor
  <2>2. \A i \in 1 .. n : LinesFor(es)[i] = Written(es[i])
    BY ONLY <2>1
  <2>3. \A i \in 1 .. n : EntryOf(LinesFor(es)[i]) = Twice(lines[i])
    BY ONLY <1>3, <2>2, Zenon DEF Twice
  <2> QED
    BY ONLY <2>1, <2>3, Zenon DEF ds
<1>7. new.ok /\ new.fields = ds /\ new.body = rec.body
  BY ONLY <1>5, <1>6
<1>8. DOMAIN ds = 1 .. n /\ \A i \in 1 .. n : ds[i].key = lines[i].key
  <2>1. DOMAIN ds = 1 .. n /\ \A i \in 1 .. n : ds[i] = Twice(lines[i])
    BY ONLY <1>1 DEF ds
  <2>2. ASSUME NEW i \in 1 .. n PROVE Twice(lines[i]).key = lines[i].key
    <3> DEFINE l == lines[i]
    <3>1. l \in AnyLine /\ IsField(l)
      BY ONLY <1>1 DEF n
    <3> HIDE DEF l
    <3>2. l.raw \in Chars
      BY ONLY <3>1, LineIs
    <3>3. EntryOf(Written(EntryFrom(l.key, Trim(l.raw)))).key = l.key
      BY ONLY <3>2, ReadIsKept
    <3>4. EntryOf(l) = EntryFrom(l.key, Trim(l.raw))
      BY ONLY EntryOfIs, Zenon
    <3> QED
      BY ONLY <3>3, <3>4, Zenon DEF Twice, l
  <2> QED
    BY ONLY <2>1, <2>2
<1>9. HasEntries(new, lines, ds)
  BY ONLY <1>1, <1>2, <1>7, <1>8, EntriesAreHad DEF n
<1> QED
  BY ONLY <1>7, <1>9, Zenon DEF ds, n

\* The lines of things in their order.
HasLines(line, K) == \A x \in K : line[x] \in AnyLine /\ IsField(line[x]) /\ line[x] # Fence

InRanks(line, s) == [i \in DOMAIN s |-> line[s[i]]]

AreFields(lines) ==
  lines \in Seq(AnyLine) /\ \A i \in 1 .. Len(lines) : IsField(lines[i]) /\ lines[i] # Fence

AreThoseOf(lines, line, K) ==
  /\ \A i \in 1 .. Len(lines) : \E x \in K : lines[i] = line[x]
  /\ \A x \in K : \E i \in 1 .. Len(lines) : lines[i] = line[x]

LEMMA RankedLines ==
  ASSUME NEW K, NEW rank, HasRanks(K, rank), NEW line, HasLines(line, K)
  PROVE  LET lines == InRanks(line, Ranked(K, rank))
         IN AreFields(lines) /\ AreThoseOf(lines, line, K)
<1> DEFINE s == Ranked(K, rank)
           n == Cardinality(K)
           lines == InRanks(line, s)
<1>1. IsListOf(s, K)
  BY RankedIs
<1>2. lines = [i \in DOMAIN s |-> line[s[i]]]
  BY Zenon DEF InRanks
<1> HIDE DEF s, lines
<1>3. n \in Nat /\ s \in [1 .. n -> K] /\ (\A x \in K : \E i \in 1 .. n : s[i] = x)
  BY ONLY <1>1 DEF IsListOf, n
<1> HIDE DEF n
<1>4. lines = [i \in 1 .. n |-> line[s[i]]] /\ \A i \in 1 .. n : s[i] \in K
  BY ONLY <1>2, <1>3
<1>5. \A i \in 1 .. n : lines[i] = line[s[i]] /\ lines[i] \in AnyLine /\ IsField(lines[i]) /\ lines[i] # Fence
  BY <1>4 DEF HasLines
<1>6. lines \in Seq(AnyLine) /\ Len(lines) = n
  BY ONLY <1>3, <1>4, <1>5
<1>7. \A i \in 1 .. n : \E x \in K : lines[i] = line[x]
  BY ONLY <1>4, <1>5
<1>8. \A x \in K : \E i \in 1 .. n : lines[i] = line[x]
  BY ONLY <1>3, <1>5
<1> QED
  <2>1. AreFields(lines)
    BY ONLY <1>5, <1>6 DEF AreFields
  <2>2. AreThoseOf(lines, line, K)
    BY ONLY <1>6, <1>7, <1>8 DEF AreThoseOf
  <2> QED
    BY ONLY <2>1, <2>2, Zenon DEF lines, s

--------------------------------------------------------------------------------
(* What a value of a field becomes on its way through a table.             *)

\* A value without brackets and white space around it is read as it was written.
LEMMA PlainIsKept ==
  ASSUME NEW key \in STRING, NEW v \in Chars, Trim(v) = v, ~Bracketed(v)
  PROVE  /\ EntryOf(Written(Scalar(key, v))) = Scalar(key, v)
         /\ Twice(Written(Scalar(key, v))) = Scalar(key, v)
<1> DEFINE e == Scalar(key, v)
<1>1. EntryOf(Written(e)) = EntryFrom(key, Trim(v))
  BY ScalarIs
<1>2. EntryFrom(key, v) = e
  <2> DEFINE b == Bracketed(v)
             w == IF Len(v) = 2 THEN <<>> ELSE Items(SubSeq(v, 2, Len(v) - 1))
  <2>1. b = FALSE
    <3>1. b \in BOOLEAN
      BY Zenon DEF Bracketed, b
    <3> QED
      BY ONLY <3>1, ~Bracketed(v), Zenon DEF b
  <2>2. EntryFrom(key, v) = [key |-> key, list |-> b, values |-> IF ~b THEN <<v>> ELSE w]
    BY ONLY Zenon DEF EntryFrom, b, w
  <2>3. e = [key |-> key, list |-> FALSE, values |-> <<v>>]
    BY ONLY Zenon DEF Scalar, e
  <2> HIDE DEF b, w, e
  <2> QED
    BY ONLY <2>1, <2>2, <2>3
<1> HIDE DEF e
<1>3. EntryOf(Written(e)) = e
  BY <1>1, <1>2
<1> QED
  BY ONLY <1>3, Zenon DEF Twice, e

\* The values of an entry.
LEMMA ValuesAre ==
  ASSUME NEW key, NEW raw \in Chars, NEW e, e = EntryFrom(key, Trim(raw))
  PROVE  /\ e = [key |-> key, list |-> e.list, values |-> e.values] /\ e.list \in BOOLEAN
         /\ e.values \in Seq(Chars) /\ \A i \in 1 .. Len(e.values) : Trimmed(e.values[i])
         /\ ~e.list => e.values = << Trim(raw) >> /\ ~Bracketed(Trim(raw))
<1> DEFINE v == Trim(raw)
           u == SubSeq(v, 2, Len(v) - 1)
<1>1. v \in Chars /\ Trimmed(v)
  BY TrimIs
<1>2. /\ e.list = Bracketed(v)
      /\ e.values = IF ~Bracketed(v) THEN <<v>> ELSE IF Len(v) = 2 THEN <<>> ELSE Items(u)
      /\ e = [key |-> key, list |-> e.list, values |-> e.values]
  BY DEF EntryFrom
<1>3. CASE ~Bracketed(v)
  <2> HIDE DEF v
  <2>1. <<v>> \in Seq(Chars) /\ Len(<<v>>) = 1 /\ <<v>>[1] = v
    BY <1>1
  <2>2. e.values = <<v>> /\ e.list \in BOOLEAN
    BY ONLY <1>2, <1>3, Zenon DEF Bracketed
  <2>3. e.values \in Seq(Chars) /\ \A i \in 1 .. Len(e.values) : Trimmed(e.values[i])
    <3>1. \A i \in 1 .. Len(<<v>>) : <<v>>[i] = v
      BY <2>1
    <3> QED
      BY ONLY <1>1, <2>1, <2>2, <3>1, Zenon
  <2> QED
    BY ONLY <1>2, <1>3, <2>2, <2>3, Zenon DEF v
<1>4. CASE Bracketed(v)
  <2>1. Len(v) >= 2 /\ Len(v) \in Nat
    BY ONLY <1>1, <1>4, BracketedIs, TextIs
  <2>2. u \in Chars
    <3>1. 2 \in Nat \ {0} /\ Len(v) - 1 \in 0 .. Len(v)
      BY ONLY <2>1
    <3> QED
      BY ONLY <1>1, <3>1, PartIs
  <2>3. Items(u) \in Seq(ItemSet)
    BY ONLY <2>2, ItemsAre
  <2> HIDE DEF u, v
  <2>4. e.values \in Seq(ItemSet)
    <3>1. <<>> \in Seq(ItemSet)
      OBVIOUS
    <3> QED
      BY ONLY <1>2, <1>4, <2>3, <3>1
  <2>5. \A x \in ItemSet : x \in Chars /\ Trimmed(x)
    BY ONLY Zenon DEF ItemSet
  <2>6. e.values \in Seq(Chars) /\ \A i \in 1 .. Len(e.values) : Trimmed(e.values[i])
    <3>1. ItemSet \subseteq Chars
      BY ONLY <2>5
    <3>2. \A i \in 1 .. Len(e.values) : e.values[i] \in ItemSet
      BY ONLY <2>4
    <3>3. Seq(ItemSet) \subseteq Seq(Chars)
      BY ONLY <3>1
    <3> QED
      BY ONLY <2>4, <2>5, <3>2, <3>3
  <2>7. e.list = TRUE
    BY ONLY <1>2, <1>4
  <2> QED
    BY ONLY <1>2, <2>6, <2>7
<1> QED
  BY ONLY <1>3, <1>4

\* An entry that goes through a table.
LEMMA TableKeepsEntry ==
  ASSUME NEW key \in STRING, NEW raw \in Chars, NEW e, e = EntryFrom(key, Trim(raw)),
         NEW L, L = e.values,
         NEW x, x = [key |-> key, list |-> Len(L) # 1, values |-> L]
  PROVE  /\ Written(x) \in AnyLine /\ IsField(Written(x)) /\ Written(x) # Fence
         /\ Written(x).key = key
         /\ (Len(L) = 1 => ~Bracketed(L[1])) => Twice(Written(x)).values = L
<1>1. /\ e = [key |-> key, list |-> e.list, values |-> L] /\ e.list \in BOOLEAN
      /\ L \in Seq(Chars) /\ \A i \in 1 .. Len(L) : Trimmed(L[i])
      /\ ~e.list => L = << Trim(raw) >>
  BY ValuesAre
<1>2. CASE Len(L) # 1
  <2>1. e.list = TRUE
    <3>1. Len(<<Trim(raw)>>) = 1
      OBVIOUS
    <3> QED
      BY ONLY <1>1, <1>2, <3>1
  <2>2. x = e
    <3>1. x = [key |-> key, list |-> Len(L) # 1, values |-> L] /\ (Len(L) # 1) = TRUE
      BY <1>2
    <3> QED
      BY ONLY <1>1, <2>1, <3>1, Zenon
  <2>3. ~LoneEmpty(e)
    <3>1. Len(<< <<>> >>) = 1
      OBVIOUS
    <3> QED
      BY <1>2, <3>1 DEF LoneEmpty
  <2>4. EntryOf(Written(e)) = e
    BY <2>3, ReadIsKept
  <2>5. Twice(Written(e)).values = L
    BY ONLY <1>1, <2>4, L = e.values, Zenon DEF Twice
  <2>6. WrittenRaw(e) \in Chars /\ e.key = key
    BY EntryAgain
  <2>7. Written(e) = FieldLine(key, WrittenRaw(e))
    BY ONLY <2>6, WrittenIs, Zenon
  <2>8. Written(e) \in AnyLine /\ IsField(Written(e)) /\ Written(e) # Fence /\ Written(e).key = key
    BY ONLY <2>6, <2>7, FieldLineIs, key \in STRING
  <2> QED
    BY ONLY <2>2, <2>5, <2>8
<1>3. CASE Len(L) = 1
  <2> DEFINE v == L[1]
  <2>1. v \in Chars /\ Trimmed(v)
    BY <1>1, <1>3
  <2>2. L = <<v>>
    BY <1>1, <1>3
  <2> HIDE DEF v
  <2>3. Trim(v) = v
    BY ONLY <2>1, TrimAgain
  <2>4. x = Scalar(key, v) /\ Scalar(key, v).values = L
    BY <1>3, <2>2 DEF Scalar
  <2>5. ~Bracketed(v) => Twice(Written(Scalar(key, v))) = Scalar(key, v)
    BY <2>1, <2>3, PlainIsKept
  <2>6. LET l == Written(Scalar(key, v)) IN l \in AnyLine /\ IsField(l) /\ l # Fence /\ l.key = key
    BY <2>1, ScalarIs
  <2>7. (Len(L) = 1 => ~Bracketed(L[1])) => ~Bracketed(v)
    BY ONLY <1>3 DEF v
  <2> QED
    BY ONLY <2>4, <2>5, <2>6, <2>7
<1> QED
  BY ONLY <1>1, <1>2, <1>3

--------------------------------------------------------------------------------
(* A record that is saved over a file.                                     *)

FileSet == Seq(AnyLine) \union {Absent}

\* A record that was composed and saved over a file, read from there.
LEMMA SavedIsRead ==
  ASSUME files \in [Ids -> FileSet],
         NEW lines, AreFields(lines), NEW body, body \in Seq(AnyLine),
         LET rec == Parse(<<Fence>> \o lines \o <<Fence>> \o body) IN rec.ok /\ Save(rec),
         NEW id \in Ids, Load(id).ok, files'[id] # files[id]
  PROVE  LET new == Parse(files'[id])
         IN /\ HasEntries(new, lines, [i \in 1 .. Len(lines) |-> Twice(lines[i])])
            /\ new.ok /\ new.body = body
            /\ \A other \in Ids \ {id} : files'[other] = files[other]
<1> DEFINE es == [i \in 1 .. Len(lines) |-> EntryOf(lines[i])]
           rec == Parse(<<Fence>> \o lines \o <<Fence>> \o body)
           new == Parse(files'[id])
<1>1. KeysDiffer(lines) /\ HasEntries(rec, lines, es) /\ GoodRecord(rec)
        /\ rec.fields = es /\ rec.body = body
  <2>1. /\ lines \in Seq(AnyLine) /\ body \in Seq(AnyLine) /\ rec.ok
        /\ \A i \in 1 .. Len(lines) : IsField(lines[i]) /\ lines[i] # Fence
        /\ rec = Parse(<<Fence>> \o lines \o <<Fence>> \o body)
    BY Zenon DEF AreFields
  <2> HIDE DEF rec
  <2> QED
    BY ONLY <2>1, ComposedIsParsed DEF es
<1>save. Save(rec)
  OBVIOUS
<1> HIDE DEF rec
<1>2. files[id] # Absent
  <2>1. NoRecord.ok = FALSE
    BY DEF NoRecord
  <2> QED
    BY <2>1, Zenon DEF Load
<1>3. First(rec, "id") # <<>>
  <2> SUFFICES ASSUME First(rec, "id") = <<>>
               PROVE  FALSE
    OBVIOUS
  <2>1. PICK o \in Ids \ Stored : files' = [files EXCEPT ![o] = Write(Parse(WithId(rec, o)))]
    BY <1>save, Zenon DEF Save
  <2>2. o # id
    BY <1>2, Zenon DEF Stored
  <2>3. files'[id] = files[id]
    <3> DEFINE w == Write(Parse(WithId(rec, o)))
    <3>1. files' = [files EXCEPT ![o] = w]
      BY ONLY <2>1, Zenon DEF w
    <3> HIDE DEF w
    <3> QED
      BY ONLY <2>2, <3>1, files \in [Ids -> FileSet], id \in Ids
  <2> QED
    BY <2>3
<1>4. PICK target \in Ids : files' = [files EXCEPT ![target] = Write(rec)]
  BY <1>3, <1>save, Zenon DEF Save, Named
<1>5. target = id /\ files'[id] = Write(rec) /\ \A other \in Ids \ {id} : files'[other] = files[other]
  <2> DEFINE w == Write(rec)
  <2>1. files' = [files EXCEPT ![target] = w]
    BY ONLY <1>4, Zenon DEF w
  <2> HIDE DEF w
  <2>2. target = id
    BY ONLY <2>1, files \in [Ids -> FileSet], id \in Ids, target \in Ids, files'[id] # files[id]
  <2>3. files'[id] = w /\ \A other \in Ids \ {id} : files'[other] = files[other]
    BY ONLY <2>1, <2>2, files \in [Ids -> FileSet], id \in Ids
  <2> QED
    BY ONLY <2>2, <2>3, Zenon DEF w
<1>6. lines # <<>>
  <2> SUFFICES ASSUME lines = <<>>
               PROVE  FALSE
    OBVIOUS
  <2>1. KeysOf(rec) = {}
    <3>1. 1 .. Len(lines) = {}
      BY lines = <<>>
    <3>2. KeysOf(rec) = {lines[i].key : i \in 1 .. Len(lines)}
      BY <1>1, Zenon DEF HasEntries
    <3> QED
      BY ONLY <3>1, <3>2, Zenon
  <2>2. ListOf(rec, "id") = <<>>
    BY <2>1, Zenon DEF ListOf
  <2>3. First(rec, "id") = <<>>
    BY <2>2, Zenon DEF First
  <2> QED
    BY <1>3, <2>3
<1>7. new = Parse(Write(rec))
  BY <1>5, Zenon
<1> HIDE DEF new
<1>8. HasEntries(new, lines, [i \in 1 .. Len(lines) |-> Twice(lines[i])]) /\ new.ok /\ new.body = rec.body
  <2>1. lines \in Seq(AnyLine) /\ \A i \in 1 .. Len(lines) : IsField(lines[i])
    BY ONLY AreFields(lines) DEF AreFields
  <2>2. rec.fields = [i \in 1 .. Len(lines) |-> EntryOf(lines[i])]
    BY ONLY <1>1, Zenon DEF es
  <2> QED
    BY ONLY <1>1, <1>6, <1>7, <2>1, <2>2, ComposedIsReadAgain
<1> QED
  BY <1>1, <1>5, <1>8, Zenon DEF new

\* What a record has under a key was read.
LEMMA OldValues ==
  ASSUME NEW rec, GoodRecord(rec)
  PROVE  /\ IsFiniteSet(KeysOf(rec)) /\ KeysOf(rec) \subseteq GoodKeys \intersect STRING
         /\ \A k \in KeysOf(rec) : \E raw \in Chars : ListOf(rec, k) = EntryFrom(k, Trim(raw)).values
<1> DEFINE es == rec.fields
           n == Len(es)
<1>1. AreGood(es) /\ \A i \in 1 .. n : es[i].key \in STRING
  BY Zenon DEF GoodRecord
<1> HIDE DEF es
<1>2. /\ n \in Nat /\ es = [i \in 1 .. n |-> es[i]]
      /\ \A i \in 1 .. n : (\E raw \in Chars : es[i] = EntryFrom(es[i].key, Trim(raw))) /\ es[i].key \in GoodKeys
      /\ \A i, j \in 1 .. n : es[i].key = es[j].key => i = j
  BY ONLY <1>1, Zenon DEF AreGood, n
<1> HIDE DEF n
<1>3. DOMAIN es = 1 .. n
  BY ONLY <1>2
<1>4. /\ KeysOf(rec) = {es[i].key : i \in 1 .. n}
      /\ \A i \in 1 .. n : ListOf(rec, es[i].key) = es[i].values
  <2> DEFINE f == rec.fields
  <2>1. DOMAIN f = 1 .. n /\ \A i, j \in 1 .. n : f[i].key = f[j].key => i = j
    BY ONLY <1>2, <1>3, Zenon DEF es
  <2> HIDE DEF f
  <2>2. /\ KeysOf(rec) = {rec.fields[i].key : i \in 1 .. n}
        /\ \A i \in 1 .. n : ListOf(rec, rec.fields[i].key) = rec.fields[i].values
    <3>1. DOMAIN rec.fields = 1 .. n /\ \A i, j \in 1 .. n : rec.fields[i].key = rec.fields[j].key => i = j
      BY ONLY <2>1, Zenon DEF f
    <3> QED
      BY ONLY <1>2, <3>1, ListAt
  <2> QED
    BY ONLY <2>2, Zenon DEF es
<1>5. IsFiniteSet(KeysOf(rec))
  <2> DEFINE f == [i \in 1 .. n |-> es[i].key]
  <2>1. IsFiniteSet(1 .. n)
    BY <1>2, FS_Interval
  <2>2. f \in Surjection(1 .. n, KeysOf(rec))
    <3>1. f \in [1 .. n -> KeysOf(rec)] /\ \A k \in KeysOf(rec) : \E i \in 1 .. n : f[i] = k
      BY ONLY <1>4
    <3> HIDE DEF f
    <3> QED
      BY ONLY <3>1 DEF Surjection
  <2> HIDE DEF f
  <2> QED
    BY <2>1, <2>2, FS_Surjection
<1>6. KeysOf(rec) \subseteq GoodKeys \intersect STRING
  BY ONLY <1>1, <1>2, <1>4 DEF n
<1>7. ASSUME NEW k \in KeysOf(rec)
      PROVE  \E raw \in Chars : ListOf(rec, k) = EntryFrom(k, Trim(raw)).values
  <2>1. PICK i \in 1 .. n : k = es[i].key
    BY ONLY <1>4
  <2>2. PICK raw \in Chars : es[i] = EntryFrom(es[i].key, Trim(raw))
    BY ONLY <1>2
  <2>3. ListOf(rec, k) = EntryFrom(k, Trim(raw)).values
    BY ONLY <1>4, <2>1, <2>2, Zenon
  <2> QED
    BY ONLY <2>3
<1> QED
  BY ONLY <1>5, <1>6, <1>7

--------------------------------------------------------------------------------
(* What a script composes.                                                 *)

\* The entry compose makes of a field of a table, and the fields it writes.
TableEntry(table, k) ==
  [key |-> k, list |-> table.fields[k].list, values |-> table.fields[k].values]
Composed(table, keys) == {k \in keys : TableEntry(table, k) # Scalar(k, <<>>)}
TableLine(table, k) == Written(TableEntry(table, k))

LEMMA ComposeIs ==
  ASSUME NEW table, NEW keys
  PROVE  Compose(table, keys) =
           <<Fence>> \o [i \in DOMAIN Ranked(Composed(table, keys), KeyRank) |->
                           TableLine(table, Ranked(Composed(table, keys), KeyRank)[i])]
             \o <<Fence>> \o table.body
BY Zenon DEF Compose, Composed, TableEntry, TableLine

\* The entry of a field of a record in a table.
LEMMA OldEntry ==
  ASSUME NEW rec, NEW key, NEW value, NEW table, table = SetField(TableOf(rec), key, value),
         NEW k \in KeysOf(rec) \ {BodyKey}, k # key
  PROVE  LET L == ListOf(rec, k)
         IN TableEntry(table, k) = [key |-> k, list |-> Len(L) # 1, values |-> L]
<1> DEFINE L == ListOf(rec, k)
           f == [j \in KeysOf(rec) \ {BodyKey} |->
                     [list |-> Len(ListOf(rec, j)) # 1, values |-> ListOf(rec, j)]]
           D == DOMAIN f \union {key}
           g == [j \in D |-> IF j = key THEN [list |-> FALSE, values |-> <<value>>] ELSE f[j]]
<1>1. TableOf(rec) = [body |-> BodyInTable(rec), fields |-> f]
  BY Zenon DEF TableOf
<1>2. k \in DOMAIN f /\ f[k] = [list |-> Len(L) # 1, values |-> L]
  OBVIOUS
<1> HIDE DEF f
<1>3. table.fields = g
  <2>1. table = [TableOf(rec) EXCEPT !.fields =
                   [j \in DOMAIN TableOf(rec).fields \union {key} |->
                     IF j = key THEN [list |-> FALSE, values |-> <<value>>] ELSE TableOf(rec).fields[j]]]
    BY Zenon DEF SetField
  <2>2. TableOf(rec).fields = f
    BY <1>1
  <2>3. table = [TableOf(rec) EXCEPT !.fields = g]
    BY ONLY <2>1, <2>2, Zenon DEF g, D
  <2> HIDE DEF g
  <2> QED
    BY ONLY <1>1, <2>3
<1>4. g[k] = f[k]
  BY <1>2
<1> HIDE DEF g, L
<1>5. table.fields[k] = [list |-> Len(L) # 1, values |-> L]
  BY <1>2, <1>3, <1>4
<1> QED
  BY ONLY <1>5 DEF TableEntry, L

\* A field of a record in the line it is composed to.
LEMMA OldLine ==
  ASSUME NEW rec, GoodRecord(rec),
         NEW key, NEW value, NEW table, table = SetField(TableOf(rec), key, value),
         NEW k \in KeysOf(rec) \ {BodyKey}, k # key
  PROVE  LET l == TableLine(table, k)
         IN /\ l \in AnyLine /\ IsField(l) /\ l # Fence /\ l.key = k
            /\ ~Nested(rec) => /\ Twice(l).values = ListOf(rec, k)
                               /\ TableEntry(table, k) = Scalar(k, <<>>) => ListOf(rec, k) = << <<>> >>
<1> DEFINE L == ListOf(rec, k)
           x == [key |-> k, list |-> Len(L) # 1, values |-> L]
<1>1. PICK raw \in Chars : L = EntryFrom(k, Trim(raw)).values
  BY OldValues
<1>2. k \in STRING
  BY OldValues
<1>3. ~Nested(rec) /\ Len(L) = 1 => ~Bracketed(L[1])
  <2> SUFFICES ASSUME ~Nested(rec), Len(L) = 1
               PROVE  ~Bracketed(L[1])
    OBVIOUS
  <2>1. ~Bracketed(First(rec, k))
    BY Zenon DEF Nested
  <2>2. L # <<>>
    <3> HIDE DEF L
    <3>1. Len(<<>>) = 0
      OBVIOUS
    <3> QED
      BY <3>1
  <2>3. First(rec, k) = L[1]
    BY <2>2 DEF First
  <2> QED
    BY <2>1, <2>3
<1>4. TableEntry(table, k) = x
  <2>1. k \in KeysOf(rec) \ {BodyKey} /\ k # key /\ table = SetField(TableOf(rec), key, value)
    OBVIOUS
  <2> QED
    BY ONLY <2>1, OldEntry DEF L, x
<1> HIDE DEF L
<1>5. /\ Written(x) \in AnyLine /\ IsField(Written(x)) /\ Written(x) # Fence
      /\ Written(x).key = k
      /\ ~Nested(rec) => Twice(Written(x)).values = L
  <2> DEFINE e == EntryFrom(k, Trim(raw))
  <2>1. L = e.values
    BY <1>1
  <2> HIDE DEF e
  <2>2. e = EntryFrom(k, Trim(raw))
    BY DEF e
  <2> HIDE DEF x
  <2>3. x = [key |-> k, list |-> Len(L) # 1, values |-> L]
    BY DEF x
  <2> QED
    BY ONLY <1>2, <1>3, <2>1, <2>2, <2>3, raw \in Chars, TableKeepsEntry
<1>6. x = Scalar(k, <<>>) => L = << <<>> >>
  BY DEF Scalar
<1> QED
  BY ONLY <1>4, <1>5, <1>6, Zenon DEF TableLine, L

\* The field that is set.
LEMMA NewLine ==
  ASSUME NEW rec, NEW key \in STRING, NEW value \in Chars,
         NEW table, table = SetField(TableOf(rec), key, value)
  PROVE  LET l == TableLine(table, key)
         IN l \in AnyLine /\ IsField(l) /\ l # Fence /\ l.key = key
<1> DEFINE t == TableOf(rec)
           g == [j \in DOMAIN t.fields \union {key} |->
                   IF j = key THEN [list |-> FALSE, values |-> <<value>>] ELSE t.fields[j]]
<1>1. table = [t EXCEPT !.fields = g]
  BY Zenon DEF SetField
<1>2. g[key] = [list |-> FALSE, values |-> <<value>>]
  OBVIOUS
<1>3. t = [body |-> t.body, fields |-> t.fields]
  BY DEF TableOf
<1> HIDE DEF g, t
<1>4. table.fields = g
  BY ONLY <1>1, <1>3
<1>5. TableEntry(table, key) = Scalar(key, value)
  <2>1. table.fields[key].list = FALSE /\ table.fields[key].values = <<value>>
    BY ONLY <1>2, <1>4
  <2> QED
    BY ONLY <2>1, Zenon DEF TableEntry, Scalar
<1> QED
  BY ONLY <1>5, ScalarIs, key \in STRING, value \in Chars, Zenon DEF TableLine

\* The keys and the body of a table.
LEMMA TableIs ==
  ASSUME NEW rec, NEW key, NEW value, NEW table, table = SetField(TableOf(rec), key, value)
  PROVE  /\ DOMAIN table.fields = (KeysOf(rec) \ {BodyKey}) \union {key}
         /\ table.body = BodyInTable(rec)
<1> DEFINE K == KeysOf(rec) \ {BodyKey}
           t == TableOf(rec)
           f == [j \in K |-> [list |-> Len(ListOf(rec, j)) # 1, values |-> ListOf(rec, j)]]
           g == [j \in DOMAIN t.fields \union {key} |->
                   IF j = key THEN [list |-> FALSE, values |-> <<value>>] ELSE t.fields[j]]
<1>1. table = [t EXCEPT !.fields = g]
  BY Zenon DEF SetField
<1>2. t = [body |-> BodyInTable(rec), fields |-> f]
  BY Zenon DEF TableOf
<1>3. DOMAIN f = K
  OBVIOUS
<1> HIDE DEF f, t, K
<1>4. DOMAIN g = K \union {key}
  BY ONLY <1>2, <1>3
<1> HIDE DEF g
<1> QED
  BY ONLY <1>1, <1>2, <1>4 DEF K

\* All keys of a table are taken, if there are not too many.
LEMMA KeysAreTaken ==
  ASSUME NEW rec, GoodRecord(rec), BodyKey \notin KeysOf(rec), KeysOf(rec) \intersect LongKeys = {},
         NEW key, Cardinality(KeysOf(rec) \union {key}) <= KeysMax,
         NEW value, NEW table, table = SetField(TableOf(rec), key, value),
         NEW keys \in KeysTaken(table)
  PROVE  /\ keys \subseteq KeysOf(rec) \union {key} /\ KeysOf(rec) \subseteq keys
         /\ table.body = rec.body
<1> DEFINE K == KeysOf(rec)
           short == DOMAIN table.fields \ LongKeys
<1>1. DOMAIN table.fields = (K \ {BodyKey}) \union {key} /\ table.body = BodyInTable(rec)
  BY TableIs
<1>2. BodyInTable(rec) = rec.body /\ BodyKey \notin K
  BY Zenon DEF BodyInTable
<1>3. short \subseteq K \union {key} /\ K \subseteq short
  BY ONLY <1>1, <1>2, K \intersect LongKeys = {}
<1>4. Cardinality(short) <= KeysMax
  <2>1. IsFiniteSet(K)
    BY OldValues
  <2> HIDE DEF K
  <2>2. IsFiniteSet(K \union {key})
    BY <2>1, FS_AddElement
  <2> HIDE DEF short
  <2>3. IsFiniteSet(short) /\ Cardinality(short) <= Cardinality(K \union {key})
    BY ONLY <1>3, <2>2, FS_Subset
  <2>4. Cardinality(short) \in Nat /\ Cardinality(K \union {key}) \in Nat
    BY ONLY <2>2, <2>3, FS_CardinalityType
  <2>5. Cardinality(K \union {key}) <= KeysMax /\ KeysMax \in Nat
    BY ScriptAssumption DEF K
  <2> QED
    BY ONLY <2>3, <2>4, <2>5
<1>5. keys = short
  BY <1>4, Zenon DEF KeysTaken
<1> QED
  BY ONLY <1>1, <1>2, <1>3, <1>5

--------------------------------------------------------------------------------
(* A script keeps the other fields.                                        *)

\* What the lines have is what the record has that is read from them.
LEMMA HadByLine ==
  ASSUME NEW new, NEW lines, Len(lines) \in Nat,
         HasEntries(new, lines, [i \in 1 .. Len(lines) |-> Twice(lines[i])]),
         NEW l, \E i \in 1 .. Len(lines) : lines[i] = l
  PROVE  l.key \in KeysOf(new) /\ ListOf(new, l.key) = Twice(l).values
<1> DEFINE ds == [i \in 1 .. Len(lines) |-> Twice(lines[i])]
<1>1. PICK i \in 1 .. Len(lines) : lines[i] = l
  OBVIOUS
<1>2. /\ KeysOf(new) = {lines[j].key : j \in 1 .. Len(lines)}
      /\ ListOf(new, lines[i].key) = ds[i].values
  BY Zenon DEF HasEntries
<1>3. ds[i] = Twice(lines[i])
  OBVIOUS
<1> HIDE DEF ds
<1>4. ListOf(new, l.key) = Twice(l).values
  BY ONLY <1>1, <1>2, <1>3, Zenon
<1>5. l.key \in KeysOf(new)
  BY ONLY <1>1, <1>2
<1> QED
  BY <1>4, <1>5

LEMMA ScriptKeepsOthers ==
  ASSUME files \in [Ids -> FileSet], NEW id \in Ids, NEW edit \in Edits,
         ScriptEdits(id, edit), files'[id] # files[id]
  PROVE  KeepsOtherFields(id, edit.key)
<1> DEFINE old == Load(id)
           new == Parse(files'[id])
           key == edit.key
           value == edit.value
           table == SetField(TableOf(old), key, value)
           K == KeysOf(old)
<1> SUFFICES ASSUME BodyKey \notin K, K \intersect LongKeys = {},
                    Cardinality(K \union {key}) <= KeysMax, ~Nested(old)
             PROVE  /\ new.ok
                    /\ new.body = old.body
                    /\ \A k \in K \ {key} : Kept(old, new, k)
                    /\ \A other \in Ids \ {id} : files'[other] = files[other]
  BY Zenon DEF KeepsOtherFields
<1>1. PICK keys \in KeysTaken(table) :
        Parse(Compose(table, keys)).ok /\ Save(Parse(Compose(table, keys)))
  BY Zenon DEF ScriptEdits
<1>2. old.ok
  BY Zenon DEF ScriptEdits
<1> DEFINE rec == Parse(Compose(table, keys))
<1>3. GoodRecord(old) /\ old.body \in Seq(AnyLine)
  <2>1. NoRecord.ok = FALSE
    BY DEF NoRecord
  <2>2. files[id] # Absent /\ old = Parse(files[id])
    BY <1>2, <2>1, Zenon DEF Load
  <2>3. files[id] \in Seq(AnyLine)
    BY <2>2 DEF FileSet
  <2>4. GoodRecord(old)
    BY ONLY <1>2, <2>2, <2>3, ParsedIsGood
  <2> QED
    BY ONLY <2>4, Zenon DEF GoodRecord
<1>4. /\ key \in STRING \ {BodyKey} /\ key \in DOMAIN KeyRank /\ value \in Chars
  <2>1. key \in DOMAIN KeyRank \ {BodyKey} /\ value \in Seq(DOMAIN Code) /\ DOMAIN KeyRank \subseteq STRING
    BY ScriptAssumption
  <2> QED
    BY ONLY <2>1, TextsOfCode
<1>5. keys \subseteq K \union {key} /\ K \subseteq keys /\ table.body = old.body
  <2> HIDE DEF old
  <2>1. table = SetField(TableOf(old), key, value)
    OBVIOUS
  <2> HIDE DEF table, key, value
  <2>2. Cardinality(KeysOf(old) \union {key}) <= KeysMax /\ KeysOf(old) \intersect LongKeys = {} /\ BodyKey \notin KeysOf(old)
    BY DEF key
  <2> QED
    BY ONLY <1>1, <1>3, <2>1, <2>2, KeysAreTaken
<1> HIDE DEF old
<1>6. K \subseteq GoodKeys \intersect STRING /\ IsFiniteSet(K)
  BY <1>3, OldValues
<1> DEFINE C == Composed(table, keys)
           line == [k \in C |-> TableLine(table, k)]
           s == Ranked(C, KeyRank)
           lines == InRanks(line, s)
<1>7. C \subseteq keys /\ \A k \in keys : k \notin C => TableEntry(table, k) = Scalar(k, <<>>)
  BY DEF Composed
<1>8. HasRanks(C, KeyRank)
  <2> HIDE DEF C, K, table, key
  <2>1. C \subseteq DOMAIN KeyRank
    BY <1>4, <1>5, <1>6, <1>7, ScriptAssumption
  <2>2. IsFiniteSet(C)
    <3>1. IsFiniteSet(K \union {key})
      BY ONLY <1>6, FS_AddElement
    <3>2. C \subseteq K \union {key}
      BY ONLY <1>5, <1>7
    <3> QED
      BY ONLY <3>1, <3>2, FS_Subset
  <2>3. /\ KeyRank \in [DOMAIN KeyRank -> Nat]
        /\ \A a, b \in DOMAIN KeyRank : KeyRank[a] = KeyRank[b] => a = b
    BY ScriptAssumption
  <2> QED
    BY ONLY <2>1, <2>2, <2>3 DEF HasRanks
<1>9. \A k \in K \ {key} :
        LET l == TableLine(table, k)
        IN /\ l \in AnyLine /\ IsField(l) /\ l # Fence /\ l.key = k
           /\ Twice(l).values = ListOf(old, k)
           /\ TableEntry(table, k) = Scalar(k, <<>>) => ListOf(old, k) = << <<>> >>
  <2> TAKE k \in K \ {key}
  <2>1. k \in KeysOf(old) \ {BodyKey} /\ k # key /\ table = SetField(TableOf(old), key, value)
    OBVIOUS
  <2>2. ~Nested(old) /\ BodyKey \notin KeysOf(old)
    OBVIOUS
  <2> HIDE DEF table, key, value
  <2> QED
    BY ONLY <1>3, <2>1, <2>2, OldLine
<1>10. LET l == TableLine(table, key) IN l \in AnyLine /\ IsField(l) /\ l # Fence /\ l.key = key
  <2>1. table = SetField(TableOf(old), key, value)
    OBVIOUS
  <2> HIDE DEF table, key, value
  <2> QED
    BY ONLY <1>4, <2>1, NewLine
<1>11. \A k \in C : /\ line[k] = TableLine(table, k) /\ line[k].key = k
                    /\ line[k] \in AnyLine /\ IsField(line[k]) /\ line[k] # Fence
  <2>1. \A k \in C : line[k] = TableLine(table, k)
    OBVIOUS
  <2> HIDE DEF line, C, K, table, key
  <2>2. \A k \in C : k = key \/ k \in K \ {key}
    BY ONLY <1>5, <1>7
  <2>3. ASSUME NEW k \in C
        PROVE  LET l == TableLine(table, k) IN l \in AnyLine /\ IsField(l) /\ l # Fence /\ l.key = k
    BY ONLY <1>9, <1>10, <2>2, k \in C, Zenon
  <2> QED
    BY ONLY <2>1, <2>3, Zenon
<1>12. AreFields(lines) /\ AreThoseOf(lines, line, C)
  <2>1. HasLines(line, C)
    BY ONLY <1>11, Zenon DEF HasLines
  <2> HIDE DEF line, C
  <2> QED
    BY ONLY <1>8, <2>1, RankedLines, Zenon DEF lines, s
<1>13. Compose(table, keys) = <<Fence>> \o lines \o <<Fence>> \o old.body
  <2> DEFINE w == [i \in DOMAIN s |-> TableLine(table, s[i])]
  <2>1. Compose(table, keys) = <<Fence>> \o w \o <<Fence>> \o table.body
    BY ONLY ComposeIs, Zenon DEF w, s, C
  <2>2. w = lines
    <3>1. \A i \in DOMAIN s : s[i] \in C
      <4>1. IsListOf(s, C)
        BY ONLY <1>8, RankedIs DEF s
      <4> HIDE DEF s, C
      <4> QED
        BY ONLY <4>1 DEF IsListOf
    <3> HIDE DEF s, C, line
    <3>2. \A i \in DOMAIN s : line[s[i]] = TableLine(table, s[i])
      BY ONLY <1>11, <3>1
    <3> QED
      BY ONLY <3>2, Zenon DEF w, lines, InRanks
  <2> QED
    BY ONLY <1>5, <2>1, <2>2, Zenon
<1>14. /\ HasEntries(new, lines, [i \in 1 .. Len(lines) |-> Twice(lines[i])])
       /\ new.ok /\ new.body = old.body
       /\ \A other \in Ids \ {id} : files'[other] = files[other]
  <2> DEFINE b == old.body
  <2>1. Parse(<<Fence>> \o lines \o <<Fence>> \o b).ok /\ Save(Parse(<<Fence>> \o lines \o <<Fence>> \o b))
    BY ONLY <1>1, <1>13, Zenon DEF b
  <2>2. Load(id).ok /\ b \in Seq(AnyLine)
    BY ONLY <1>2, <1>3, Zenon DEF old, b
  <2> HIDE DEF lines, b
  <2> QED
    BY <1>12, <2>1, <2>2, SavedIsRead, Zenon DEF b
<1>15. Len(lines) \in Nat
  <2> HIDE DEF lines
  <2> QED
    BY ONLY <1>12 DEF AreFields
<1>16. ASSUME NEW k \in K \ {key}
       PROVE  Kept(old, new, k)
  <2> HIDE DEF lines, new, C, line, K, table, key, s
  <2>1. k \in keys
    BY ONLY <1>5, k \in K \ {key}
  <2>2. CASE k \in C
    <3>1. line[k] = TableLine(table, k) /\ line[k].key = k /\ \E i \in 1 .. Len(lines) : lines[i] = line[k]
      BY ONLY <1>11, <1>12, <2>2, Zenon DEF AreThoseOf
    <3> DEFINE l == line[k]
    <3>2. \E i \in 1 .. Len(lines) : lines[i] = l
      BY ONLY <3>1
    <3> HIDE DEF l
    <3>3. ListOf(new, l.key) = Twice(l).values
      BY ONLY <1>14, <1>15, <3>2, HadByLine
    <3>4. Twice(TableLine(table, k)).values = ListOf(old, k)
      BY ONLY <1>9, k \in K \ {key}, Zenon
    <3>5. ListOf(new, k) = ListOf(old, k)
      BY ONLY <3>1, <3>3, <3>4, Zenon DEF l
    <3> QED
      BY ONLY <3>5, Zenon DEF Kept
  <2>3. CASE k \notin C
    <3>1. ListOf(old, k) = << <<>> >>
      <4>1. TableEntry(table, k) = Scalar(k, <<>>)
        BY ONLY <1>7, <2>1, <2>3
      <4> QED
        BY ONLY <1>9, <4>1, k \in K \ {key}, Zenon
    <3>2. k \notin KeysOf(new)
      <4>1. KeysOf(new) = {lines[i].key : i \in 1 .. Len(lines)}
        BY ONLY <1>14, Zenon DEF HasEntries
      <4>2. \A i \in 1 .. Len(lines) : \E x \in C : lines[i] = line[x] /\ line[x].key = x
        BY ONLY <1>11, <1>12, Zenon DEF AreThoseOf
      <4>3. \A i \in 1 .. Len(lines) : lines[i].key \in C
        BY ONLY <4>2
      <4> QED
        BY ONLY <2>3, <4>1, <4>3
    <3> QED
      BY ONLY <3>1, <3>2, Zenon DEF Kept
  <2> QED
    BY ONLY <2>2, <2>3
<1> QED
  BY ONLY <1>14, <1>16, Zenon

--------------------------------------------------------------------------------
(* The fields of a form, what they show and what is read of them.          *)

\* What a record has under a key, if it has something, is a text without white
\* space around it.
LEMMA FirstIs ==
  ASSUME NEW rec, GoodRecord(rec), NEW key
  PROVE  First(rec, key) \in Chars /\ Trimmed(First(rec, key))
<1> DEFINE v == First(rec, key)
           L == ListOf(rec, key)
<1>1. <<>> \in Chars /\ Trimmed(<<>>)
  <2>1. <<>> \in Seq(Letters)
    OBVIOUS
  <2> QED
    BY ONLY <2>1, Zenon DEF Chars, Trimmed
<1>2. v = IF L = <<>> THEN <<>> ELSE Head(L)
  BY Zenon DEF First
<1>3. CASE key \in KeysOf(rec)
  <2>1. PICK raw \in Chars : L = EntryFrom(key, Trim(raw)).values
    BY <1>3, OldValues
  <2> DEFINE e == EntryFrom(key, Trim(raw))
  <2>2. e.values \in Seq(Chars) /\ \A i \in 1 .. Len(e.values) : Trimmed(e.values[i])
    BY ValuesAre
  <2>3. L = e.values
    BY <2>1
  <2> HIDE DEF L, v, e
  <2>4. L # <<>> => Head(L) \in Chars /\ Trimmed(Head(L))
    <3>1. L \in Seq(Chars) /\ \A i \in 1 .. Len(L) : Trimmed(L[i])
      BY ONLY <2>2, <2>3, Zenon
    <3>2. L # <<>> => Head(L) = L[1] /\ 1 \in 1 .. Len(L) /\ L[1] \in Chars
      BY ONLY <3>1
    <3> QED
      BY ONLY <3>1, <3>2, Zenon
  <2> QED
    BY ONLY <1>1, <1>2, <2>4, Zenon DEF v
<1>4. CASE key \notin KeysOf(rec)
  <2>1. L = <<>>
    BY <1>4, Zenon DEF ListOf
  <2> QED
    BY ONLY <1>1, <1>2, <2>1, Zenon DEF v
<1> QED
  BY ONLY <1>3, <1>4

LEMMA IdIsText == "id" \in STRING
<1>1. "id" \in GoodKeys /\ GoodKeys \subseteq DOMAIN KeyRank /\ DOMAIN KeyRank \subseteq STRING
  BY ScriptAssumption, Zenon
<1> QED
  BY ONLY <1>1, Zenon

\* The fields of a form.
LEMMA FieldIs ==
  ASSUME NEW i \in DOMAIN FormFields
  PROVE  LET f == FormFields[i]
         IN /\ f.key \in STRING /\ f.key # "id"
            /\ f.kind \in {"text", "date", "bool", "choice"} /\ f.values \subseteq Chars
            /\ \A v \in f.values : Trim(v) = v
<1>1. FormFields[i] \in [key : STRING, kind : {"text", "date", "bool", "choice"},
                         required : BOOLEAN, values : SUBSET Seq(DOMAIN Code)]
  <2> DEFINE R == [key : STRING, kind : {"text", "date", "bool", "choice"},
                   required : BOOLEAN, values : SUBSET Seq(DOMAIN Code)]
  <2>1. FormFields \in Seq(R)
    BY Zenon, FormAssumption DEF R
  <2> HIDE DEF R
  <2>2. FormFields[i] \in R
    BY ONLY <2>1, i \in DOMAIN FormFields
  <2> QED
    BY ONLY <2>2, Zenon DEF R
<1>2. FormFields[i].key # "id" /\ \A v \in FormFields[i].values : Trim(v) = v
  BY FormAssumption, Zenon
<1> QED
  BY ONLY <1>1, <1>2, TextsOfCode

LEMMA DaysAre ==
  /\ \A day \in DOMAIN ShownDay :
       /\ day \in Chars /\ IsPlain(day)
       /\ ShownDay[day] \in Chars /\ ShownDay[day] # <<>> /\ Trim(ShownDay[day]) = ShownDay[day]
  /\ \A day, other \in DOMAIN ShownDay : ShownDay[other] = ShownDay[day] => other = day
<1>1. /\ DOMAIN ShownDay \subseteq Seq(DOMAIN Code)
      /\ ShownDay \in [DOMAIN ShownDay -> Seq(DOMAIN Code)]
  BY FormAssumption, Zenon
<1>2. \A day \in DOMAIN ShownDay : day \in Chars /\ ShownDay[day] \in Chars
  BY ONLY <1>1, TextsOfCode
<1>3. \A day \in DOMAIN ShownDay :
       /\ IsPlain(day) /\ ShownDay[day] # <<>> /\ Trim(ShownDay[day]) = ShownDay[day]
       /\ \A other \in DOMAIN ShownDay : ShownDay[other] = ShownDay[day] => other = day
  BY FormAssumption, Zenon
<1> QED
  BY ONLY <1>2, <1>3, Zenon

LEMMA FlagsAre == Yes \in Chars /\ No \in Chars /\ IsPlain(Yes) /\ IsPlain(No)
<1>1. Yes \in Seq(DOMAIN Code) /\ IsPlain(Yes) /\ No \in Seq(DOMAIN Code) /\ IsPlain(No)
  BY FormAssumption, Zenon
<1> QED
  BY ONLY <1>1, TextsOfCode

LEMMA TrimOfEmpty == Trim(<<>>) = <<>> /\ <<>> \in Chars
<1>1. <<>> \in Chars
  <2>1. <<>> \in Seq(Letters)
    OBVIOUS
  <2> QED
    BY ONLY <2>1, Zenon DEF Chars
<1>2. Trimmed(<<>>)
  BY Zenon DEF Trimmed
<1> QED
  BY ONLY <1>1, <1>2, TrimAgain

\* What a widget reads of a text.
LEMMA ReadIs ==
  ASSUME NEW i \in DOMAIN FormFields, NEW shown \in Chars, Read(FormFields[i], shown).ok
  PROVE  LET f == FormFields[i]
             v == Read(f, shown).value
         IN /\ v \in Chars
            /\ f.kind # "date" => v = shown
            /\ f.kind = "date" => \/ Trim(shown) = <<>> /\ v = <<>>
                                  \/ /\ Trim(shown) # <<>> /\ v \in DOMAIN ShownDay
                                     /\ ShownDay[v] = Trim(shown)
<1> DEFINE f == FormFields[i]
           t == Trim(shown)
           days == {day \in DOMAIN ShownDay : ShownDay[day] = t}
           r == Read(f, shown)
<1>1. r = IF f.kind # "date" THEN Taken(shown)
          ELSE IF t = <<>> THEN Taken(<<>>)
          ELSE IF days = {} THEN Refused
          ELSE Taken(CHOOSE day \in days : TRUE)
  BY ONLY Zenon DEF Read, r, t, days
<1>2. r.ok
  OBVIOUS
<1>3. days # {} => (CHOOSE day \in days : TRUE) \in days
  BY ONLY Zenon
<1>4. \A v : Taken(v).value = v
  BY DEF Taken
<1>5. Refused.ok = FALSE
  BY DEF Refused
<1> HIDE DEF r
<1>6. CASE f.kind # "date"
  BY ONLY <1>1, <1>4, <1>6, shown \in Chars, Zenon DEF r
<1>7. CASE f.kind = "date" /\ t = <<>>
  BY ONLY <1>1, <1>4, <1>7, TrimOfEmpty, Zenon DEF r
<1>8. CASE f.kind = "date" /\ t # <<>>
  <2> DEFINE day == CHOOSE d \in days : TRUE
  <2>1. days # {}
    <3> SUFFICES ASSUME days = {}
                 PROVE  FALSE
      OBVIOUS
    <3>1. r = Refused
      BY ONLY <1>1, <1>8, days = {}, Zenon
    <3> QED
      BY ONLY <1>2, <1>5, <3>1, Zenon
  <2>2. day \in days
    BY ONLY <1>3, <2>1, Zenon DEF day
  <2>3. r = Taken(day)
    BY ONLY <1>1, <1>8, <2>1, Zenon DEF day
  <2>4. day \in DOMAIN ShownDay /\ ShownDay[day] = t
    BY ONLY <2>2, Zenon DEF days
  <2> HIDE DEF day
  <2>5. r.value = day /\ day \in Chars
    BY ONLY <1>4, <2>3, <2>4, DaysAre, Zenon
  <2> QED
    BY ONLY <1>8, <2>4, <2>5, Zenon DEF r
<1> QED
  BY ONLY <1>6, <1>7, <1>8, Zenon

\* A widget shows a text.
LEMMA ShownIs ==
  ASSUME NEW i \in DOMAIN FormFields, NEW v \in Chars
  PROVE  ShownOf(FormFields[i], v) \in Chars
<1> DEFINE f == FormFields[i]
<1>1. f.kind \in {"text", "date", "bool", "choice"} /\ f.values \subseteq Chars
  BY FieldIs
<1>2. <<>> \in Chars /\ Yes \in Chars /\ No \in Chars /\ \A day \in DOMAIN ShownDay : ShownDay[day] \in Chars
  BY ONLY FlagsAre, DaysAre, TrimOfEmpty
<1> HIDE DEF f
<1>3. /\ f.kind = "text" => ShownOf(f, v) = v
      /\ f.kind = "date" => ShownOf(f, v) = IF v \in DOMAIN ShownDay THEN ShownDay[v] ELSE v
      /\ f.kind = "bool" => ShownOf(f, v) = IF v = Yes THEN Yes ELSE No
      /\ f.kind = "choice" => ShownOf(f, v) = IF v \in f.values THEN v ELSE <<>>
  BY ONLY Zenon DEF ShownOf
<1>4. ShownOf(f, v) \in Chars
  BY ONLY <1>1, <1>2, <1>3, v \in Chars
<1> QED
  BY ONLY <1>4, Zenon DEF f

\* What is read of the widget that shows a foreseen value is that value.
LEMMA UntouchedIsKept ==
  ASSUME NEW i \in DOMAIN FormFields, NEW v \in Chars, Trimmed(v),
         LET f == FormFields[i]
         IN /\ f.kind = "date" => v \in DOMAIN ShownDay \/ \A day \in DOMAIN ShownDay : ShownDay[day] # v
            /\ f.kind = "bool" => v \in {Yes, No}
            /\ f.kind = "choice" => v \in f.values \union {<<>>},
         Read(FormFields[i], ShownOf(FormFields[i], v)).ok
  PROVE  Read(FormFields[i], ShownOf(FormFields[i], v)).value = v
<1> DEFINE f == FormFields[i]
           shown == ShownOf(f, v)
           got == Read(f, shown).value
<1>1. f.kind \in {"text", "date", "bool", "choice"} /\ f.values \subseteq Chars
  BY FieldIs
<1>2. /\ f.kind = "text" => shown = v
      /\ f.kind = "date" => shown = IF v \in DOMAIN ShownDay THEN ShownDay[v] ELSE v
      /\ f.kind = "bool" => shown = IF v = Yes THEN Yes ELSE No
      /\ f.kind = "choice" => shown = IF v \in f.values THEN v ELSE <<>>
  BY Zenon DEF ShownOf
<1>3. Trim(v) = v /\ <<>> \in Chars
  BY TrimAgain, TrimOfEmpty
<1>4. /\ f.kind = "date" => v \in DOMAIN ShownDay \/ \A day \in DOMAIN ShownDay : ShownDay[day] # v
      /\ f.kind = "bool" => v \in {Yes, No}
      /\ f.kind = "choice" => v \in f.values \union {<<>>}
  OBVIOUS
<1> HIDE DEF f, shown
<1>5. shown \in Chars
  <2>1. Yes \in Chars /\ No \in Chars /\ \A day \in DOMAIN ShownDay : ShownDay[day] \in Chars
    BY ONLY FlagsAre, DaysAre
  <2> QED
    BY ONLY <1>1, <1>2, <1>3, <2>1, v \in Chars
<1>6. /\ f.kind # "date" => got = shown
      /\ f.kind = "date" => \/ Trim(shown) = <<>> /\ got = <<>>
                            \/ /\ Trim(shown) # <<>> /\ got \in DOMAIN ShownDay
                               /\ ShownDay[got] = Trim(shown)
  BY <1>5, ReadIs, Zenon DEF f, shown
<1> HIDE DEF got
<1>7. CASE f.kind # "date"
  <2>1. got = shown
    BY ONLY <1>6, <1>7
  <2>2. f.kind \in {"text", "bool", "choice"}
    BY ONLY <1>1, <1>7
  <2>3. shown = v
    BY ONLY <1>2, <1>4, <2>2
  <2> QED
    BY ONLY <2>1, <2>3, Zenon DEF got, f, shown
<1>8. CASE f.kind = "date" /\ v \in DOMAIN ShownDay
  <2>1. shown = ShownDay[v]
    BY ONLY <1>2, <1>8
  <2>2. Trim(shown) = ShownDay[v] /\ ShownDay[v] # <<>>
    BY ONLY <1>8, <2>1, DaysAre, Zenon
  <2>3. got \in DOMAIN ShownDay /\ ShownDay[got] = ShownDay[v]
    BY ONLY <1>6, <1>8, <2>2, Zenon
  <2>4. got = v
    BY ONLY <1>8, <2>3, DaysAre, Zenon
  <2> QED
    BY ONLY <2>4, Zenon DEF got, f, shown
<1>9. CASE f.kind = "date" /\ v \notin DOMAIN ShownDay
  <2>1. shown = v
    BY ONLY <1>2, <1>9
  <2>2. \A day \in DOMAIN ShownDay : ShownDay[day] # v
    BY ONLY <1>4, <1>9
  <2>3. got = v
    BY ONLY <1>3, <1>6, <1>9, <2>1, <2>2, Zenon
  <2> QED
    BY ONLY <2>3, Zenon DEF got, f, shown
<1> QED
  BY ONLY <1>7, <1>8, <1>9

\* What is stored of an entry is shown as it was entered.
LEMMA EnteredIsShown ==
  ASSUME NEW i \in DOMAIN FormFields, NEW entry \in EntriesOf(i),
         Read(FormFields[i], entry).ok, ~Bracketed(Trim(entry))
  PROVE  LET w == Trim(Read(FormFields[i], entry).value)
         IN ~Bracketed(w) /\ ShownOf(FormFields[i], w) = Trim(entry)
<1> DEFINE f == FormFields[i]
           got == Read(f, entry).value
           w == Trim(got)
           t == Trim(entry)
<1>1. f.kind \in {"text", "date", "bool", "choice"} /\ \A v \in f.values : Trim(v) = v
  BY FieldIs
<1>2. entry \in Chars
  <2>1. EntriesOf(i) \subseteq Seq(DOMAIN Code)
    BY FormAssumption, Zenon
  <2> QED
    BY ONLY <2>1, entry \in EntriesOf(i), TextsOfCode
<1>3. /\ f.kind = "bool" => entry \in {Yes, No}
      /\ f.kind = "choice" => entry \in f.values \union {<<>>}
  <2>1. /\ f.kind = "bool" => EntriesOf(i) \subseteq {Yes, No}
        /\ f.kind = "choice" => EntriesOf(i) \subseteq f.values \union {<<>>}
    BY FormAssumption, Zenon DEF f
  <2> QED
    BY ONLY <2>1, entry \in EntriesOf(i)
<1>4. /\ f.kind # "date" => got = entry
      /\ f.kind = "date" => \/ t = <<>> /\ got = <<>>
                            \/ t # <<>> /\ got \in DOMAIN ShownDay /\ ShownDay[got] = t
  BY <1>2, ReadIs, Zenon
<1>5. \A v : /\ f.kind = "text" => ShownOf(f, v) = v
             /\ f.kind = "date" => ShownOf(f, v) = IF v \in DOMAIN ShownDay THEN ShownDay[v] ELSE v
             /\ f.kind = "bool" => ShownOf(f, v) = IF v = Yes THEN Yes ELSE No
             /\ f.kind = "choice" => ShownOf(f, v) = IF v \in f.values THEN v ELSE <<>>
  BY Zenon DEF ShownOf
<1>6. ~Bracketed(t)
  OBVIOUS
<1> HIDE DEF f, got, t
<1>7. CASE f.kind = "text"
  <2>1. w = t
    BY ONLY <1>4, <1>7, Zenon DEF t, w
  <2> QED
    BY ONLY <1>5, <1>6, <1>7, <2>1, Zenon DEF f, got, t
<1>8. CASE f.kind = "date" /\ t = <<>>
  <2>1. w = <<>> /\ w = t
    BY ONLY <1>4, <1>8, TrimOfEmpty, Zenon DEF w
  <2>2. w \notin DOMAIN ShownDay
    BY ONLY <2>1, DaysAre, Zenon DEF IsPlain
  <2>3. ShownOf(f, w) = w
    BY ONLY <1>5, <1>8, <2>2, Zenon
  <2> QED
    BY ONLY <1>6, <2>1, <2>3, Zenon DEF f, got, t
<1>9. CASE f.kind = "date" /\ t # <<>>
  <2>1. got \in DOMAIN ShownDay /\ ShownDay[got] = t
    BY ONLY <1>4, <1>9
  <2>2. IsPlain(got)
    BY ONLY <2>1, DaysAre, Zenon
  <2>3. w = got /\ ~Bracketed(got)
    BY ONLY <2>2, Zenon DEF w, IsPlain
  <2>4. ShownOf(f, w) = t
    BY ONLY <1>5, <1>9, <2>1, <2>3, Zenon
  <2> QED
    BY ONLY <2>3, <2>4, Zenon DEF f, got, t
<1>10. CASE f.kind = "bool"
  <2>1. got = entry /\ entry \in {Yes, No}
    BY ONLY <1>3, <1>4, <1>10
  <2>2. IsPlain(entry)
    BY ONLY <2>1, FlagsAre
  <2>3. w = entry /\ t = entry
    BY ONLY <2>1, <2>2, Zenon DEF w, t, IsPlain
  <2>4. ShownOf(f, entry) = entry
    BY ONLY <1>5, <1>10, <2>1, Zenon
  <2> QED
    BY ONLY <1>6, <2>3, <2>4, Zenon DEF f, got, t
<1>11. CASE f.kind = "choice"
  <2>1. got = entry /\ entry \in f.values \union {<<>>}
    BY ONLY <1>3, <1>4, <1>11
  <2>2. Trim(entry) = entry
    BY ONLY <1>1, <2>1, TrimOfEmpty, Zenon
  <2>3. w = entry /\ t = entry
    BY ONLY <2>1, <2>2, Zenon DEF w, t
  <2>4. ShownOf(f, entry) = entry
    BY ONLY <1>5, <1>11, <2>1, Zenon
  <2> QED
    BY ONLY <1>6, <2>3, <2>4, Zenon DEF f, got, t
<1> QED
  BY ONLY <1>1, <1>7, <1>8, <1>9, <1>10, <1>11, Zenon

--------------------------------------------------------------------------------
(* What a form composes.                                                   *)

\* A line in front of others.
BeginsWith(lines, l, line, K) ==
  /\ \A i \in 1 .. Len(lines) : lines[i] = l \/ \E x \in K : lines[i] = line[x]
  /\ \E i \in 1 .. Len(lines) : lines[i] = l
  /\ \A x \in K : \E i \in 1 .. Len(lines) : lines[i] = line[x]

LEMMA WithFirst ==
  ASSUME NEW l \in AnyLine, IsField(l), l # Fence, NEW K, NEW line, NEW w, AreFields(w),
         AreThoseOf(w, line, K), NEW body, body \in Seq(AnyLine)
  PROVE  LET lines == <<l>> \o w
         IN /\ AreFields(lines) /\ BeginsWith(lines, l, line, K)
            /\ <<Fence>> \o <<l>> \o w \o <<Fence>> \o body = <<Fence>> \o lines \o <<Fence>> \o body
<1> DEFINE n == Len(w)
           h == <<l>>
           lines == h \o w
<1>1. w \in Seq(AnyLine) /\ n \in Nat /\ h \in Seq(AnyLine) /\ Len(h) = 1 /\ h[1] = l
  BY DEF AreFields
<1>2. \A i \in 1 .. n : IsField(w[i]) /\ w[i] # Fence
  BY DEF AreFields
<1>3. lines = h \o w
  OBVIOUS
<1> HIDE DEF n, h, lines
<1>4. lines \in Seq(AnyLine) /\ Len(lines) = n + 1
  <2>1. h \o w \in Seq(AnyLine) /\ Len(h \o w) = Len(h) + Len(w)
    BY ONLY <1>1, ConcatProperties
  <2>2. Len(h) + Len(w) = n + 1
    BY ONLY <1>1 DEF n
  <2> QED
    BY ONLY <1>3, <2>1, <2>2, Zenon
<1>5. lines[1] = l /\ \A i \in 1 .. n : lines[i + 1] = w[i]
  <2>1. \A j \in 1 .. Len(h) + Len(w) :
          (h \o w)[j] = IF j <= Len(h) THEN h[j] ELSE w[j - Len(h)]
    BY ONLY <1>1, ConcatProperties
  <2>2. \A j \in 1 .. n + 1 : lines[j] = IF j <= 1 THEN l ELSE w[j - 1]
    <3> TAKE j \in 1 .. n + 1
    <3>1. j \in 1 .. Len(h) + Len(w) /\ (j <= 1 => j = 1)
      BY ONLY <1>1, j \in 1 .. n + 1 DEF n
    <3>2. lines[j] = IF j <= Len(h) THEN h[j] ELSE w[j - Len(h)]
      BY ONLY <1>3, <2>1, <3>1
    <3> QED
      BY ONLY <1>1, <3>1, <3>2
  <2>3. 1 \in 1 .. n + 1 /\ \A i \in 1 .. n : i + 1 \in 1 .. n + 1 /\ ~(i + 1 <= 1) /\ (i + 1) - 1 = i
    BY ONLY <1>1
  <2> QED
    BY ONLY <2>2, <2>3
<1>6. \A i \in 1 .. n + 1 : i = 1 \/ (i - 1 \in 1 .. n /\ lines[i] = w[i - 1])
  <2> TAKE i \in 1 .. n + 1
  <2>1. i # 1 => i - 1 \in 1 .. n /\ (i - 1) + 1 = i
    BY ONLY <1>1, i \in 1 .. n + 1
  <2> QED
    BY ONLY <1>5, <2>1
<1>7. /\ \A i \in 1 .. n : \E x \in K : w[i] = line[x]
      /\ \A x \in K : \E i \in 1 .. n : w[i] = line[x]
  BY Zenon DEF AreThoseOf, n
<1>8. AreFields(lines)
  <2>1. \A i \in 1 .. Len(lines) : IsField(lines[i]) /\ lines[i] # Fence
    BY ONLY <1>2, <1>4, <1>5, <1>6, IsField(l), l # Fence
  <2> QED
    BY ONLY <1>4, <2>1, Zenon DEF AreFields
<1>9. \A i \in 1 .. Len(lines) : lines[i] = l \/ \E x \in K : lines[i] = line[x]
  <2> TAKE i \in 1 .. Len(lines)
  <2>1. lines[i] = l \/ (i - 1 \in 1 .. n /\ lines[i] = w[i - 1])
    BY ONLY <1>4, <1>5, <1>6, i \in 1 .. Len(lines)
  <2>2. ASSUME i - 1 \in 1 .. n, lines[i] = w[i - 1]
        PROVE  \E x \in K : lines[i] = line[x]
    <3> DEFINE j == i - 1
    <3>1. j \in 1 .. n /\ lines[i] = w[j]
      BY ONLY <2>2
    <3> HIDE DEF j
    <3> QED
      BY ONLY <1>7, <3>1, Zenon
  <2> QED
    BY ONLY <2>1, <2>2
<1>10. 1 \in 1 .. Len(lines) /\ \A i \in 1 .. n : i + 1 \in 1 .. Len(lines)
  BY ONLY <1>1, <1>4
<1>11. \A x \in K : \E i \in 1 .. Len(lines) : lines[i] = line[x]
  <2> TAKE x \in K
  <2>1. PICK i \in 1 .. n : w[i] = line[x]
    BY ONLY <1>7
  <2>2. i + 1 \in 1 .. Len(lines) /\ lines[i + 1] = line[x]
    BY ONLY <1>5, <1>10, <2>1
  <2> QED
    BY ONLY <2>2
<1>12. \E i \in 1 .. Len(lines) : lines[i] = l
  BY ONLY <1>5, <1>10
<1>13. (<<Fence>> \o h) \o w = <<Fence>> \o lines
  <2> DEFINE f == <<Fence>>
  <2>1. f \in Seq(AnyLine)
    BY FenceIsLine
  <2> HIDE DEF f
  <2>2. (f \o h) \o w = f \o (h \o w)
    BY ONLY <1>1, <2>1, ConcatAssociative
  <2> QED
    BY ONLY <1>3, <2>2, Zenon DEF f
<1>14. <<Fence>> \o <<l>> \o w \o <<Fence>> \o body = <<Fence>> \o lines \o <<Fence>> \o body
  BY ONLY <1>13, Zenon DEF h
<1> QED
  BY ONLY <1>8, <1>9, <1>11, <1>12, <1>14, Zenon DEF BeginsWith, lines, h

\* The fields a form fills, and their lines.
FieldValue(form, k) == Read(FormFields[k], form[k]).value
Filled(form) == {k \in DOMAIN FormFields : FieldValue(form, k) # <<>>}
FilledLine(form) == [k \in Filled(form) |-> Written(Scalar(FormFields[k].key, FieldValue(form, k)))]
FieldOrder(form) == [k \in Filled(form) |-> k]
FilledLines(form) == InRanks(FilledLine(form), Ranked(Filled(form), FieldOrder(form)))

LEMMA ComposedTextIs ==
  ASSUME NEW idLine, NEW form, NEW body, HasRanks(Filled(form), FieldOrder(form))
  PROVE  ComposedText(idLine, form, body) =
           <<Fence>> \o idLine \o FilledLines(form) \o <<Fence>> \o body
<1> DEFINE s == Ranked(Filled(form), FieldOrder(form))
           w == [k \in DOMAIN s |-> Written(Scalar(FormFields[s[k]].key, FieldValue(form, s[k])))]
<1>1. ComposedText(idLine, form, body) = <<Fence>> \o idLine \o w \o <<Fence>> \o body
  BY ONLY Zenon DEF ComposedText, Filled, FieldValue, FieldOrder, s, w
<1>2. \A k \in DOMAIN s : s[k] \in Filled(form)
  <2>1. IsListOf(s, Filled(form))
    BY RankedIs
  <2> HIDE DEF s
  <2> QED
    BY ONLY <2>1 DEF IsListOf
<1>3. w = FilledLines(form)
  <2> HIDE DEF s
  <2>1. \A k \in DOMAIN s : FilledLine(form)[s[k]] = Written(Scalar(FormFields[s[k]].key, FieldValue(form, s[k])))
    BY ONLY <1>2, Zenon DEF FilledLine
  <2>2. InRanks(FilledLine(form), s) = [k \in DOMAIN s |-> FilledLine(form)[s[k]]]
    BY ONLY Zenon DEF InRanks
  <2>3. InRanks(FilledLine(form), s) = w
    BY ONLY <2>1, <2>2, Zenon DEF w
  <2> QED
    BY ONLY <2>3, Zenon DEF FilledLines, s
<1> QED
  BY ONLY <1>1, <1>3, Zenon

\* A form that can be read has lines for what it fills.
LEMMA FilledAre ==
  ASSUME NEW form, \A k \in DOMAIN FormFields : form[k] \in Chars /\ Read(FormFields[k], form[k]).ok
  PROVE  /\ HasRanks(Filled(form), FieldOrder(form))
         /\ AreFields(FilledLines(form))
         /\ AreThoseOf(FilledLines(form), FilledLine(form), Filled(form))
         /\ \A k \in DOMAIN FormFields : FieldValue(form, k) \in Chars
         /\ \A k \in Filled(form) : FilledLine(form)[k].key = FormFields[k].key
<1> DEFINE n == Len(FormFields)
           S == Filled(form)
           r == FieldOrder(form)
           line == FilledLine(form)
<1>1. n \in Nat /\ DOMAIN FormFields = 1 .. n
  <2> DEFINE R == [key : STRING, kind : {"text", "date", "bool", "choice"},
                   required : BOOLEAN, values : SUBSET Seq(DOMAIN Code)]
  <2>1. FormFields \in Seq(R)
    BY Zenon, FormAssumption DEF R
  <2> HIDE DEF R
  <2> QED
    BY ONLY <2>1 DEF n
<1>2. \A k \in DOMAIN FormFields : FieldValue(form, k) \in Chars
  BY ReadIs, Zenon DEF FieldValue
<1>3. S \subseteq DOMAIN FormFields
  BY DEF Filled
<1>4. HasRanks(S, r)
  <2>1. IsFiniteSet(1 .. n)
    BY ONLY <1>1, FS_Interval
  <2>2. IsFiniteSet(S)
    <3> HIDE DEF S, n
    <3> QED
      BY ONLY <1>1, <1>3, <2>1, FS_Subset
  <2>3. \A k \in S : r[k] = k /\ k \in Nat
    <3>1. \A k \in S : r[k] = k
      BY Zenon DEF FieldOrder
    <3> HIDE DEF S, n, r
    <3> QED
      BY ONLY <1>1, <1>3, <3>1
  <2> HIDE DEF S, r
  <2> QED
    BY ONLY <2>2, <2>3 DEF HasRanks
<1>5. \A k \in S : /\ line[k] \in AnyLine /\ IsField(line[k]) /\ line[k] # Fence
                   /\ line[k].key = FormFields[k].key
  <2> TAKE k \in S
  <2>1. line[k] = Written(Scalar(FormFields[k].key, FieldValue(form, k)))
    BY Zenon DEF FilledLine
  <2>2. FormFields[k].key \in STRING /\ FieldValue(form, k) \in Chars
    BY <1>2, <1>3, FieldIs
  <2> HIDE DEF line
  <2> QED
    BY ONLY <2>1, <2>2, ScalarIs
<1>6. HasLines(line, S)
  BY ONLY <1>5, Zenon DEF HasLines
<1>7. AreFields(FilledLines(form)) /\ AreThoseOf(FilledLines(form), line, S)
  BY ONLY <1>4, <1>6, RankedLines, Zenon DEF FilledLines, line, S, r
<1> QED
  BY ONLY <1>2, <1>4, <1>5, <1>7, Zenon DEF line, S, r

--------------------------------------------------------------------------------
(* A form keeps the other fields.                                          *)

LEMMA SingleIsKept ==
  ASSUME NEW key \in STRING, NEW v \in Chars, ~Bracketed(Trim(v))
  PROVE  Twice(Written(Scalar(key, v))).values = <<Trim(v)>>
<1> DEFINE u == Trim(v)
<1>1. u \in Chars /\ Trim(u) = u /\ ~Bracketed(u)
  <2>1. u \in Chars /\ Trimmed(u)
    BY TrimIs
  <2> HIDE DEF u
  <2>2. Trim(u) = u
    BY ONLY <2>1, TrimAgain
  <2> QED
    BY <2>1, <2>2 DEF u
<1>2. EntryOf(Written(Scalar(key, v))) = EntryFrom(key, u)
  BY ScalarIs
<1> HIDE DEF u
<1>3. EntryOf(Written(Scalar(key, u))) = EntryFrom(key, Trim(u))
  BY ONLY <1>1, ScalarIs, key \in STRING
<1>4. EntryOf(Written(Scalar(key, u))) = Scalar(key, u)
  BY ONLY <1>1, PlainIsKept, key \in STRING
<1>5. Twice(Written(Scalar(key, v))) = Scalar(key, u)
  BY ONLY <1>1, <1>2, <1>3, <1>4, Zenon DEF Twice
<1>6. Scalar(key, u).values = <<u>>
  BY DEF Scalar
<1> QED
  BY ONLY <1>5, <1>6, Zenon DEF u

\* The record a form is saved as.
IsFormOf(new, lines, idLine, form) ==
  /\ HasEntries(new, lines, [i \in 1 .. Len(lines) |-> Twice(lines[i])])
  /\ Len(lines) \in Nat
  /\ BeginsWith(lines, idLine, FilledLine(form), Filled(form))
  /\ idLine.key = "id"
  /\ \A k \in Filled(form) : FilledLine(form)[k].key = FormFields[k].key

LEMMA FormKeysAre ==
  ASSUME NEW new, NEW lines, NEW idLine, NEW form, IsFormOf(new, lines, idLine, form)
  PROVE  \A key \in KeysOf(new) : key = "id" \/ \E k \in Filled(form) : key = FormFields[k].key
<1>1. KeysOf(new) = {lines[i].key : i \in 1 .. Len(lines)}
  BY Zenon DEF IsFormOf, HasEntries
<1>2. \A i \in 1 .. Len(lines) : lines[i] = idLine \/ \E k \in Filled(form) : lines[i] = FilledLine(form)[k]
  BY Zenon DEF IsFormOf, BeginsWith
<1>3. idLine.key = "id" /\ \A k \in Filled(form) : FilledLine(form)[k].key = FormFields[k].key
  BY Zenon DEF IsFormOf, BeginsWith
<1>4. \A i \in 1 .. Len(lines) : lines[i].key = "id" \/ \E k \in Filled(form) : lines[i].key = FormFields[k].key
  BY ONLY <1>2, <1>3, Zenon
<1> QED
  BY ONLY <1>1, <1>4

\* What is stored under the key of a field is what was read of its widget.
LEMMA FieldIsStored ==
  ASSUME NEW new, NEW lines, NEW idLine, NEW form, IsFormOf(new, lines, idLine, form),
         NEW k \in DOMAIN FormFields, FieldValue(form, k) \in Chars,
         ~Bracketed(Trim(FieldValue(form, k)))
  PROVE  First(new, FormFields[k].key) = Trim(FieldValue(form, k))
<1> DEFINE v == FieldValue(form, k)
           key == FormFields[k].key
           l == FilledLine(form)[k]
<1>1. v \in Chars /\ ~Bracketed(Trim(v)) /\ key \in STRING /\ key # "id"
  BY FieldIs
<1>2. CASE v # <<>>
  <2>1. k \in Filled(form)
    BY <1>2, Zenon DEF Filled
  <2>2. l = Written(Scalar(key, v))
    BY <2>1, Zenon DEF FilledLine
  <2>3. l.key = key /\ \E i \in 1 .. Len(lines) : lines[i] = l
    BY <2>1, Zenon DEF IsFormOf, BeginsWith
  <2>4. Len(lines) \in Nat /\ HasEntries(new, lines, [i \in 1 .. Len(lines) |-> Twice(lines[i])])
    BY Zenon DEF IsFormOf, BeginsWith
  <2> HIDE DEF l, v, key
  <2>5. ListOf(new, l.key) = Twice(l).values
    BY ONLY <2>3, <2>4, HadByLine
  <2>6. Twice(Written(Scalar(key, v))).values = <<Trim(v)>>
    BY ONLY <1>1, SingleIsKept
  <2>7. ListOf(new, key) = <<Trim(v)>>
    BY ONLY <2>2, <2>3, <2>5, <2>6, Zenon
  <2>8. <<Trim(v)>> # <<>> /\ Head(<<Trim(v)>>) = Trim(v)
    OBVIOUS
  <2>9. First(new, key) = Trim(v)
    BY ONLY <2>7, <2>8, Zenon DEF First
  <2> QED
    BY ONLY <2>9, Zenon DEF v, key
<1>3. CASE v = <<>>
  <2>1. k \notin Filled(form)
    BY <1>3, Zenon DEF Filled
  <2>2. Filled(form) \subseteq DOMAIN FormFields
    BY Zenon DEF Filled
  <2>3. \A j \in Filled(form) : FormFields[j].key # key
    <3>1. \A i, j \in DOMAIN FormFields : FormFields[i].key = FormFields[j].key => i = j
      BY FormAssumption, Zenon
    <3> QED
      BY <2>1, <2>2, <3>1, Zenon
  <2>4. key \notin KeysOf(new)
    <3>1. \A y \in KeysOf(new) : y = "id" \/ \E j \in Filled(form) : y = FormFields[j].key
      BY ONLY IsFormOf(new, lines, idLine, form), FormKeysAre
    <3> QED
      BY ONLY <1>1, <2>3, <3>1, Zenon
  <2>5. First(new, key) = <<>>
    BY ONLY <2>4, Zenon DEF First, ListOf
  <2> QED
    BY ONLY <1>3, <2>5, TrimOfEmpty, Zenon
<1> QED
  BY ONLY <1>2, <1>3

LEMMA FormKeepsOthers ==
  ASSUME files \in [Ids -> FileSet], NEW id \in Ids, NEW i \in DOMAIN FormFields,
         NEW entry \in EntriesOf(i), FormEdits(id, i, entry), files'[id] # files[id]
  PROVE  FormKeeps(id, i, entry)
<1> DEFINE old == Load(id)
           new == Parse(files'[id])
           field == FormFields[i]
           form == [FormOf(old) EXCEPT ![i] = entry]
           number == IdText[id]
           idLine == Written(Scalar("id", number))
           body == old.body
           lines == <<idLine>> \o FilledLines(form)
           text == ComposedText(<<idLine>>, form, body)
<1>1. old.ok /\ Readable(form) /\ Parse(text).ok /\ Save(Parse(text))
  BY Zenon DEF FormEdits, SaveForm
<1>2. GoodRecord(old) /\ body \in Seq(AnyLine)
  <2>1. NoRecord.ok = FALSE
    BY DEF NoRecord
  <2>2. files[id] # Absent /\ old = Parse(files[id])
    BY <1>1, <2>1, Zenon DEF Load
  <2>3. files[id] \in Seq(AnyLine)
    BY <2>2 DEF FileSet
  <2>4. GoodRecord(old)
    BY ONLY <1>1, <2>2, <2>3, ParsedIsGood
  <2> QED
    BY ONLY <2>4, Zenon DEF GoodRecord
<1>3. entry \in Chars
  <2>1. EntriesOf(i) \subseteq Seq(DOMAIN Code)
    BY FormAssumption, Zenon
  <2> QED
    BY ONLY <2>1, entry \in EntriesOf(i), TextsOfCode
<1>4. /\ number \in Chars /\ IsPlain(number)
  <2>1. IdText \in [Ids -> Seq(DOMAIN Code)] /\ IsPlain(number)
    BY ScriptAssumption, FormAssumption, Zenon
  <2> QED
    BY ONLY <2>1, id \in Ids, TextsOfCode
<1> HIDE DEF old, number
<1>5. /\ form[i] = entry
      /\ \A k \in DOMAIN FormFields \ {i} :
           form[k] = ShownOf(FormFields[k], First(old, FormFields[k].key))
  <2> DEFINE g == FormOf(old)
  <2>1. g = [k \in DOMAIN FormFields |-> ShownOf(FormFields[k], First(old, FormFields[k].key))]
    BY ONLY Zenon DEF FormOf
  <2>2. \A k \in DOMAIN FormFields : g[k] = ShownOf(FormFields[k], First(old, FormFields[k].key))
    BY ONLY <2>1
  <2>3. DOMAIN g = DOMAIN FormFields
    BY ONLY <2>1
  <2> HIDE DEF g
  <2>4. form[i] = entry /\ \A k \in DOMAIN FormFields \ {i} : form[k] = g[k]
    BY ONLY <2>3, i \in DOMAIN FormFields DEF form, g
  <2> QED
    BY ONLY <2>2, <2>4
<1> HIDE DEF form
<1>6. \A k \in DOMAIN FormFields : form[k] \in Chars /\ Read(FormFields[k], form[k]).ok
  <2> TAKE k \in DOMAIN FormFields
  <2>1. Read(FormFields[k], form[k]).ok
    BY <1>1, Zenon DEF Readable
  <2>2. CASE k # i
    <3> DEFINE v == First(old, FormFields[k].key)
    <3>1. v \in Chars
      BY <1>2, FirstIs
    <3>2. ShownOf(FormFields[k], v) \in Chars
      BY <3>1, ShownIs
    <3> HIDE DEF v
    <3>6. form[k] = ShownOf(FormFields[k], v)
      BY <1>5, <2>2, Zenon DEF v
    <3> QED
      BY ONLY <2>1, <3>2, <3>6, Zenon
  <2> QED
    BY <1>3, <1>5, <2>1, <2>2
<1>7. /\ HasRanks(Filled(form), FieldOrder(form))
      /\ AreFields(FilledLines(form))
      /\ AreThoseOf(FilledLines(form), FilledLine(form), Filled(form))
      /\ \A k \in DOMAIN FormFields : FieldValue(form, k) \in Chars
      /\ \A k \in Filled(form) : FilledLine(form)[k].key = FormFields[k].key
  BY ONLY <1>6, FilledAre, Zenon
<1>8. idLine \in AnyLine /\ IsField(idLine) /\ idLine # Fence /\ idLine.key = "id"
  <2>1. "id" \in STRING /\ number \in Chars
    BY ONLY <1>4, IdIsText, Zenon
  <2> QED
    BY ONLY <2>1, ScalarIs, Zenon DEF idLine
<1>9. /\ AreFields(lines)
      /\ BeginsWith(lines, idLine, FilledLine(form), Filled(form))
      /\ text = <<Fence>> \o lines \o <<Fence>> \o body
  <2>1. text = <<Fence>> \o <<idLine>> \o FilledLines(form) \o <<Fence>> \o body
    <3>1. HasRanks(Filled(form), FieldOrder(form))
      BY ONLY <1>7, Zenon
    <3> DEFINE h == <<idLine>>
    <3> HIDE DEF h, body
    <3>2. ComposedText(h, form, body) = <<Fence>> \o h \o FilledLines(form) \o <<Fence>> \o body
      BY ONLY <3>1, ComposedTextIs
    <3> QED
      BY ONLY <3>2, Zenon DEF text, h
  <2> DEFINE K == Filled(form)
             line == FilledLine(form)
             w == FilledLines(form)
  <2>2. AreFields(w) /\ AreThoseOf(w, line, K)
    BY ONLY <1>7, Zenon DEF w, line, K
  <2>3. lines = <<idLine>> \o w
    OBVIOUS
  <2> HIDE DEF K, line, w, idLine, lines
  <2>4. /\ AreFields(lines)
        /\ BeginsWith(lines, idLine, line, K)
        /\ <<Fence>> \o <<idLine>> \o w \o <<Fence>> \o body = <<Fence>> \o lines \o <<Fence>> \o body
    <3>1. body \in Seq(AnyLine)
      BY ONLY <1>2
    <3> HIDE DEF body
    <3>2. LET t == <<idLine>> \o w
          IN /\ AreFields(t) /\ BeginsWith(t, idLine, line, K)
             /\ <<Fence>> \o <<idLine>> \o w \o <<Fence>> \o body = <<Fence>> \o t \o <<Fence>> \o body
      BY ONLY <1>8, <2>2, <3>1, WithFirst, SMTT(40)
    <3> QED
      BY ONLY <2>3, <3>2, Zenon
  <2> QED
    BY ONLY <2>1, <2>4, Zenon DEF K, line, w, idLine, lines
<1>10. /\ HasEntries(new, lines, [j \in 1 .. Len(lines) |-> Twice(lines[j])])
       /\ new.ok /\ new.body = body
       /\ \A other \in Ids \ {id} : files'[other] = files[other]
  <2> DEFINE b == body
  <2>1. Parse(<<Fence>> \o lines \o <<Fence>> \o b).ok /\ Save(Parse(<<Fence>> \o lines \o <<Fence>> \o b))
    BY ONLY <1>1, <1>9, Zenon DEF b
  <2>2. Load(id).ok /\ b \in Seq(AnyLine)
    BY ONLY <1>1, <1>2, Zenon DEF old, b
  <2> HIDE DEF lines, b
  <2> QED
    BY <1>9, <2>1, <2>2, SavedIsRead, Zenon DEF b
<1>11. Len(lines) \in Nat
  <2> HIDE DEF lines
  <2> QED
    BY ONLY <1>9 DEF AreFields
<1>12. IsFormOf(new, lines, idLine, form)
  BY ONLY <1>7, <1>8, <1>9, <1>10, <1>11, Zenon DEF IsFormOf
<1> HIDE DEF lines, idLine, new
<1>13. First(new, "id") = IdText[id]
  <2>1. ListOf(new, idLine.key) = Twice(idLine).values
    <3>1. \E j \in 1 .. Len(lines) : lines[j] = idLine
      BY ONLY <1>9, Zenon DEF BeginsWith
    <3>2. HasEntries(new, lines, [j \in 1 .. Len(lines) |-> Twice(lines[j])])
      BY ONLY <1>10, Zenon
    <3> QED
      BY ONLY <1>11, <3>1, <3>2, HadByLine
  <2>2. Twice(idLine) = Scalar("id", number)
    <3>1. "id" \in STRING /\ number \in Chars
      BY ONLY <1>4, IdIsText, Zenon
    <3>2. Trim(number) = number /\ ~Bracketed(number)
      BY ONLY <1>4, Zenon DEF IsPlain
    <3> QED
      BY ONLY <3>1, <3>2, PlainIsKept, Zenon DEF idLine
  <2>3. Scalar("id", number).values = <<number>> /\ <<number>> # <<>> /\ Head(<<number>>) = number
    BY DEF Scalar
  <2> QED
    BY ONLY <1>8, <2>1, <2>2, <2>3, Zenon DEF First, number
<1>14. ASSUME NEW k \in DOMAIN FormFields \ {i}, Foreseen(FormFields[k], old)
       PROVE  First(new, FormFields[k].key) = First(old, FormFields[k].key)
  <2> DEFINE v == First(old, FormFields[k].key)
             f == FormFields[k]
  <2>1. v \in Chars /\ Trimmed(v)
    BY <1>2, FirstIs
  <2>2. /\ f.kind = "date" => v \in DOMAIN ShownDay \/ \A day \in DOMAIN ShownDay : ShownDay[day] # v
        /\ f.kind = "bool" => v \in {Yes, No}
        /\ f.kind = "choice" => v \in f.values \union {<<>>}
        /\ ~Bracketed(v)
    BY <1>14, Zenon DEF Foreseen
  <2>3. k \in DOMAIN FormFields /\ form[k] = ShownOf(f, v) /\ Read(f, ShownOf(f, v)).ok
    BY <1>5, <1>6
  <2> HIDE DEF v
  <2>4. Read(f, ShownOf(f, v)).value = v
    BY <2>1, <2>2, <2>3, UntouchedIsKept, Zenon
  <2>5. FieldValue(form, k) = v
    BY ONLY <2>3, <2>4, Zenon DEF FieldValue, f
  <2>6. Trim(v) = v
    BY ONLY <2>1, TrimAgain
  <2>7. First(new, FormFields[k].key) = Trim(FieldValue(form, k))
    BY <2>5, <2>6, <1>12, <2>1, <2>2, <2>3, FieldIsStored, ZenonT(60)
  <2> QED
    BY ONLY <2>5, <2>6, <2>7, Zenon DEF v
<1>15. ASSUME ~Bracketed(Trim(entry))
       PROVE  ShownOf(field, First(new, field.key)) = Trim(entry)
  <2> DEFINE v == FieldValue(form, i)
  <2>1. v = Read(field, entry).value /\ Read(field, entry).ok
    BY <1>5, <1>6, Zenon DEF FieldValue
  <2>2. ~Bracketed(Trim(v)) /\ ShownOf(field, Trim(v)) = Trim(entry)
    BY <1>15, <2>1, EnteredIsShown, Zenon
  <2>3. v \in Chars
    BY <1>7
  <2> HIDE DEF v
  <2>4. First(new, field.key) = Trim(v)
    BY <1>12, <2>2, <2>3, FieldIsStored, Zenon DEF v
  <2> QED
    BY ONLY <2>2, <2>4, Zenon
<1>16. KeysOf(new) \subseteq FormKeys \union {"id"}
  <2>1. \A key \in KeysOf(new) : key = "id" \/ \E k \in Filled(form) : key = FormFields[k].key
    BY ONLY <1>12, FormKeysAre
  <2>2. Filled(form) \subseteq DOMAIN FormFields
    BY ONLY Zenon DEF Filled
  <2> QED
    BY ONLY <2>1, <2>2, Zenon DEF FormKeys
<1>17. new.ok /\ new.body = old.body /\ \A other \in Ids \ {id} : files'[other] = files[other]
  BY ONLY <1>10, Zenon
<1>18. \A k \in {k \in DOMAIN FormFields \ {i} : Foreseen(FormFields[k], old)} :
         First(new, FormFields[k].key) = First(old, FormFields[k].key)
  BY ONLY <1>14, Zenon
<1> QED
  BY ONLY <1>13, <1>15, <1>16, <1>17, <1>18, Zenon DEF FormKeeps, old, new

--------------------------------------------------------------------------------
(* Every file stays a text.                                                *)

FilesAreTexts == files \in [Ids -> FileSet]

LEMMA ChainIs ==
  ASSUME NEW S, NEW a \in Seq(S), NEW b \in Seq(S), NEW c \in Seq(S), NEW d \in Seq(S)
  PROVE  a \o b \o c \o d \in Seq(S)
<1>1. a \o b \in Seq(S)
  BY ConcatProperties
<1>2. (a \o b) \o c \in Seq(S)
  BY ONLY <1>1, c \in Seq(S), ConcatProperties
<1> QED
  BY ONLY <1>2, d \in Seq(S), ConcatProperties

\* A record that gets an identifier is a text.
LEMMA WithIdIsText ==
  ASSUME NEW rec, GoodRecord(rec), NEW id \in Ids
  PROVE  WithId(rec, id) \in Seq(AnyLine)
<1> DEFINE es == rec.fields
           n == Len(es)
           others == {i \in DOMAIN es : es[i].key # "id"}
           rank == [i \in others |-> i]
           rest == Ranked(others, rank)
           l == Written(Scalar("id", IdText[id]))
           w == [k \in DOMAIN rest |-> Written(es[rest[k]])]
           body == rec.body
<1>1. AreGood(es) /\ (\A i \in 1 .. n : es[i].key \in STRING) /\ body \in Seq(AnyLine)
  BY Zenon DEF GoodRecord
<1>2. WithId(rec, id) = <<Fence, l>> \o w \o <<Fence>> \o body
  BY Zenon DEF WithId
<1> HIDE DEF es, body
<1>3. n \in Nat /\ DOMAIN es = 1 .. n
  <2>1. Len(es) \in Nat /\ es = [i \in 1 .. Len(es) |-> es[i]]
    BY ONLY <1>1, Zenon DEF AreGood
  <2> QED
    BY ONLY <2>1
<1>4. \A i \in 1 .. n : Written(es[i]) \in AnyLine
  BY ONLY <1>1, GoodIsWritten
<1> HIDE DEF n
<1>5. HasRanks(others, rank)
  <2>1. others \subseteq 1 .. n /\ \A i \in others : rank[i] = i
    BY <1>3
  <2> HIDE DEF others, rank
  <2>2. IsFiniteSet(1 .. n)
    BY ONLY <1>3, FS_Interval
  <2>3. IsFiniteSet(others)
    BY ONLY <2>1, <2>2, FS_Subset
  <2> QED
    BY ONLY <1>3, <2>1, <2>3 DEF HasRanks
<1>6. others \subseteq 1 .. n
  BY <1>3
<1> HIDE DEF others, rank
<1>7. IsListOf(rest, others)
  BY ONLY <1>5, RankedIs DEF rest
<1> HIDE DEF rest
<1>8. w \in Seq(AnyLine)
  <2>1. Cardinality(others) \in Nat /\ rest \in [1 .. Cardinality(others) -> others]
    BY ONLY <1>7 DEF IsListOf
  <2> DEFINE m == Cardinality(others)
  <2> HIDE DEF m
  <2>2. m \in Nat /\ DOMAIN rest = 1 .. m /\ \A k \in 1 .. m : rest[k] \in others
    BY ONLY <2>1 DEF m
  <2>3. w \in [1 .. m -> AnyLine]
    BY ONLY <1>4, <1>6, <2>2 DEF w
  <2> HIDE DEF w
  <2> QED
    BY ONLY <2>2, <2>3
<1>9. <<Fence, l>> \in Seq(AnyLine) /\ <<Fence>> \in Seq(AnyLine)
  <2>1. IdText[id] \in Chars
    <3>1. IdText \in [Ids -> Seq(DOMAIN Code)]
      BY ScriptAssumption, Zenon
    <3> QED
      BY ONLY <3>1, id \in Ids, TextsOfCode
  <2>2. l \in AnyLine
    <3>1. "id" \in STRING
      BY ONLY IdIsText
    <3> QED
      BY ONLY <2>1, <3>1, ScalarIs, Zenon DEF l
  <2> HIDE DEF l
  <2> QED
    BY ONLY <2>2, FenceIsLine
<1> HIDE DEF w, l
<1>10. <<Fence, l>> \o w \o <<Fence>> \o body \in Seq(AnyLine)
  <2> DEFINE a == <<Fence, l>>
             c == <<Fence>>
  <2>1. a \in Seq(AnyLine) /\ c \in Seq(AnyLine) /\ body \in Seq(AnyLine)
    BY ONLY <1>1, <1>9, Zenon
  <2> HIDE DEF a, c
  <2>2. a \o w \o c \o body \in Seq(AnyLine)
    BY ONLY <1>8, <2>1, ChainIs
  <2> QED
    BY ONLY <2>2, Zenon DEF a, c
<1> QED
  BY ONLY <1>2, <1>10, Zenon

\* Whatever is saved is a text.
LEMMA SaveKeepsTexts ==
  ASSUME FilesAreTexts, NEW text, text \in Seq(AnyLine), Parse(text).ok, Save(Parse(text))
  PROVE  FilesAreTexts'
<1> DEFINE rec == Parse(text)
<1>1. GoodRecord(rec)
  BY ONLY ParsedIsGood, text \in Seq(AnyLine), Parse(text).ok
<1>2. \E id \in Ids : \E t \in Seq(AnyLine) : files' = [files EXCEPT ![id] = t]
  <2>1. CASE First(rec, "id") = <<>>
    <3>1. PICK o \in Ids \ Stored : files' = [files EXCEPT ![o] = Write(Parse(WithId(rec, o)))]
      BY <2>1, Zenon DEF Save
    <3> HIDE DEF rec
    <3>2. o \in Ids /\ WithId(rec, o) \in Seq(AnyLine)
      BY ONLY <1>1, WithIdIsText, o \in Ids \ Stored
    <3>3. Write(Parse(WithId(rec, o))) \in Seq(AnyLine)
      BY ONLY <3>2, WhatIsReadIsWritten
    <3> QED
      BY ONLY <3>1, <3>2, <3>3, Zenon
  <2>2. CASE First(rec, "id") # <<>>
    <3>1. PICK id \in Ids : files' = [files EXCEPT ![id] = Write(rec)]
      BY <2>2, Zenon DEF Save, Named
    <3>2. Write(rec) \in Seq(AnyLine)
      BY ONLY WhatIsReadIsWritten, text \in Seq(AnyLine) DEF rec
    <3> QED
      BY ONLY <3>1, <3>2, Zenon
  <2> QED
    BY <2>1, <2>2
<1>3. PICK id \in Ids, t \in Seq(AnyLine) : files' = [files EXCEPT ![id] = t]
  BY ONLY <1>2
<1> DEFINE A == Seq(AnyLine)
<1> HIDE DEF A
<1>4. t \in A /\ files \in [Ids -> A \union {Absent}]
  BY Zenon DEF A, FilesAreTexts, FileSet
<1>5. files' \in [Ids -> A \union {Absent}]
  BY ONLY <1>3, <1>4
<1> QED
  BY ONLY <1>5, Zenon DEF A, FilesAreTexts, FileSet

\* What is loaded can be written again.
LEMMA LoadedIsGood ==
  ASSUME FilesAreTexts, NEW id \in Ids, Load(id).ok
  PROVE  GoodRecord(Load(id)) /\ Load(id).body \in Seq(AnyLine)
<1> DEFINE old == Load(id)
<1>1. NoRecord.ok = FALSE
  BY DEF NoRecord
<1>2. files[id] # Absent /\ old = Parse(files[id]) /\ old.ok
  BY <1>1, Zenon DEF Load
<1>3. files[id] \in Seq(AnyLine)
  BY <1>2 DEF FileSet, FilesAreTexts
<1> HIDE DEF old
<1>4. GoodRecord(old)
  BY ONLY <1>2, <1>3, ParsedIsGood
<1> QED
  BY ONLY <1>4, Zenon DEF GoodRecord, old

LEMMA BodyIsText ==
  ASSUME NEW rec, GoodRecord(rec)
  PROVE  BodyInTable(rec) \in Seq(AnyLine)
<1> DEFINE v == ListOf(rec, BodyKey)
<1>1. rec.body \in Seq(AnyLine) /\ <<>> \in Seq(AnyLine)
  BY DEF GoodRecord
<1>2. CASE BodyKey \in KeysOf(rec) /\ Len(v) = 1 /\ v[1] # <<>>
  <2>1. BodyInTable(rec) = <<TextLine(v[1])>>
    BY <1>2, Zenon DEF BodyInTable
  <2>2. PICK raw \in Chars : v = EntryFrom(BodyKey, Trim(raw)).values
    BY <1>2, OldValues
  <2> DEFINE e == EntryFrom(BodyKey, Trim(raw))
  <2>3. e.values \in Seq(Chars)
    BY ValuesAre
  <2> HIDE DEF e, v
  <2>4. v = e.values
    BY <2>2 DEF e
  <2>5. v[1] \in Chars
    BY ONLY <1>2, <2>3, <2>4
  <2> DEFINE s == v[1]
             A == Letters
  <2> HIDE DEF s, A
  <2>6. s \in Seq(A)
    BY ONLY <2>5, Zenon DEF s, A, Chars
  <2>7. TextLine(s) \in [kind : {"text"}, raw : Seq(A)]
    BY ONLY <2>6 DEF TextLine
  <2>8. TextLine(s) \in AnyLine
    BY ONLY <2>7, Zenon DEF AnyLine, LinesOf, A
  <2>9. <<TextLine(s)>> \in Seq(AnyLine)
    BY ONLY <2>8
  <2> QED
    BY ONLY <2>1, <2>9, Zenon DEF s
<1>3. CASE ~(BodyKey \in KeysOf(rec) /\ Len(v) = 1 /\ v[1] # <<>>)
  BY ONLY <1>1, <1>3, Zenon DEF BodyInTable
<1> QED
  BY ONLY <1>2, <1>3

\* What is composed of a table is a text.
LEMMA ComposedIsText ==
  ASSUME NEW rec, GoodRecord(rec), NEW key \in DOMAIN KeyRank, NEW value \in Chars,
         NEW table, table = SetField(TableOf(rec), key, value), NEW keys \in KeysTaken(table)
  PROVE  Compose(table, keys) \in Seq(AnyLine)
<1> DEFINE K == KeysOf(rec) \ {BodyKey}
           C == Composed(table, keys)
           line == [k \in C |-> TableLine(table, k)]
           s == Ranked(C, KeyRank)
           lines == InRanks(line, s)
           body == table.body
<1>1. DOMAIN table.fields = K \union {key} /\ body = BodyInTable(rec)
  BY TableIs
<1>2. C \subseteq K \union {key}
  <2>1. keys \subseteq DOMAIN table.fields
    <3> DEFINE short == DOMAIN table.fields \ LongKeys
    <3>1. keys = short \/ keys \in SUBSET short
      BY Zenon DEF KeysTaken
    <3> QED
      BY ONLY <3>1
  <2>2. C \subseteq keys
    BY DEF Composed
  <2> QED
    BY ONLY <1>1, <2>1, <2>2
<1>3. /\ K \subseteq GoodKeys /\ IsFiniteSet(K) /\ GoodKeys \subseteq DOMAIN KeyRank
      /\ DOMAIN KeyRank \subseteq STRING
      /\ KeyRank \in [DOMAIN KeyRank -> Nat]
      /\ \A a, b \in DOMAIN KeyRank : KeyRank[a] = KeyRank[b] => a = b
  <2>1. IsFiniteSet(KeysOf(rec)) /\ KeysOf(rec) \subseteq GoodKeys
    BY OldValues
  <2>2. IsFiniteSet(K) /\ K \subseteq GoodKeys
    <3>1. K \subseteq KeysOf(rec)
      OBVIOUS
    <3> HIDE DEF K
    <3> QED
      BY ONLY <2>1, <3>1, FS_Subset
  <2> QED
    BY ONLY <2>2, ScriptAssumption, Zenon
<1> HIDE DEF C
<1>4. HasRanks(C, KeyRank)
  <2> HIDE DEF K
  <2>1. IsFiniteSet(C)
    <3>1. IsFiniteSet(K \union {key})
      BY ONLY <1>3, FS_AddElement
    <3> QED
      BY ONLY <1>2, <3>1, FS_Subset
  <2>2. C \subseteq DOMAIN KeyRank
    BY ONLY <1>2, <1>3, key \in DOMAIN KeyRank
  <2> QED
    BY ONLY <1>3, <2>1, <2>2 DEF HasRanks
<1>5. \A k \in C : line[k] = TableLine(table, k)
  OBVIOUS
<1> HIDE DEF line
<1>6. HasLines(line, C)
  <2>1. ASSUME NEW k \in C
        PROVE  line[k] \in AnyLine /\ IsField(line[k]) /\ line[k] # Fence
    <3>1. CASE k = key
      <4>1. key \in STRING
        BY ONLY <1>3, key \in DOMAIN KeyRank
      <4>2. LET l == TableLine(table, key) IN l \in AnyLine /\ IsField(l) /\ l # Fence
        BY <4>1, NewLine
      <4> QED
        BY ONLY <1>5, <3>1, <4>2, k \in C, Zenon
    <3>2. CASE k # key
      <4>1. k \in K
        BY ONLY <1>2, <3>2, k \in C
      <4>2. LET l == TableLine(table, k) IN l \in AnyLine /\ IsField(l) /\ l # Fence
        BY <3>2, <4>1, OldLine
      <4> QED
        BY ONLY <1>5, <4>2, k \in C, Zenon
    <3> QED
      BY ONLY <3>1, <3>2
  <2> QED
    BY ONLY <2>1, Zenon DEF HasLines
<1>7. AreFields(lines)
  BY ONLY <1>4, <1>6, RankedLines, Zenon DEF lines, s
<1>8. Compose(table, keys) = <<Fence>> \o lines \o <<Fence>> \o body
  <2> DEFINE w == [i \in DOMAIN s |-> TableLine(table, s[i])]
  <2>1. Compose(table, keys) = <<Fence>> \o w \o <<Fence>> \o body
    BY ONLY ComposeIs, Zenon DEF w, s, C
  <2>2. \A i \in DOMAIN s : s[i] \in C
    <3>1. IsListOf(s, C)
      BY ONLY <1>4, RankedIs DEF s
    <3> HIDE DEF s
    <3> QED
      BY ONLY <3>1 DEF IsListOf
  <2> HIDE DEF s
  <2>3. w = lines
    BY ONLY <1>5, <2>2, Zenon DEF w, lines, InRanks
  <2> QED
    BY ONLY <2>1, <2>3, Zenon
<1>9. body \in Seq(AnyLine)
  BY <1>1, BodyIsText
<1> HIDE DEF lines, body
<1>10. <<Fence>> \o lines \o <<Fence>> \o body \in Seq(AnyLine)
  <2>1. lines \in Seq(AnyLine)
    BY ONLY <1>7 DEF AreFields
  <2> QED
    BY ONLY <1>9, <2>1, FenceIsLine, FencedIs
<1> QED
  BY ONLY <1>8, <1>10, Zenon

LEMMA ScriptKeepsTexts ==
  ASSUME FilesAreTexts, NEW id \in Ids, NEW edit \in Edits, ScriptEdits(id, edit)
  PROVE  FilesAreTexts'
<1> DEFINE old == Load(id)
           table == SetField(TableOf(old), edit.key, edit.value)
<1>1. PICK keys \in KeysTaken(table) :
        Parse(Compose(table, keys)).ok /\ Save(Parse(Compose(table, keys)))
  BY Zenon DEF ScriptEdits
<1>2. old.ok
  BY Zenon DEF ScriptEdits
<1>3. GoodRecord(old)
  BY <1>2, LoadedIsGood
<1>4. edit.key \in DOMAIN KeyRank /\ edit.value \in Chars
  <2>1. edit.key \in DOMAIN KeyRank \ {BodyKey} /\ edit.value \in Seq(DOMAIN Code)
    BY ScriptAssumption
  <2> QED
    BY ONLY <2>1, TextsOfCode
<1> DEFINE text == Compose(table, keys)
<1>5. text \in Seq(AnyLine)
  <2>1. table = SetField(TableOf(old), edit.key, edit.value)
    OBVIOUS
  <2> HIDE DEF table, old
  <2> QED
    BY ONLY <1>1, <1>3, <1>4, <2>1, ComposedIsText DEF text
<1>6. Parse(text).ok /\ Save(Parse(text))
  BY ONLY <1>1, Zenon DEF text
<1> HIDE DEF text
<1> QED
  BY ONLY <1>5, <1>6, FilesAreTexts, SaveKeepsTexts

\* A form that is read is composed to a text.
LEMMA SavedFormIsText ==
  ASSUME FilesAreTexts, NEW idLine, idLine \in Seq(AnyLine), NEW body, body \in Seq(AnyLine),
         NEW form, \A k \in DOMAIN FormFields : form[k] \in Chars, SaveForm(idLine, form, body)
  PROVE  FilesAreTexts'
<1> DEFINE text == ComposedText(idLine, form, body)
           w == FilledLines(form)
<1>1. Readable(form) /\ Parse(text).ok /\ Save(Parse(text))
  BY Zenon DEF SaveForm
<1>2. \A k \in DOMAIN FormFields : form[k] \in Chars /\ Read(FormFields[k], form[k]).ok
  BY <1>1, Zenon DEF Readable
<1>3. HasRanks(Filled(form), FieldOrder(form)) /\ AreFields(w)
  BY ONLY <1>2, FilledAre, Zenon
<1>4. text = <<Fence>> \o idLine \o w \o <<Fence>> \o body
  BY ONLY <1>3, ComposedTextIs
<1> HIDE DEF text, w
<1>5. text \in Seq(AnyLine)
  <2> DEFINE f == <<Fence>>
  <2>1. f \in Seq(AnyLine) /\ w \in Seq(AnyLine)
    BY ONLY <1>3, FenceIsLine DEF AreFields
  <2> HIDE DEF f
  <2>2. f \o idLine \in Seq(AnyLine)
    BY ONLY <2>1, idLine \in Seq(AnyLine), ConcatProperties
  <2>3. (f \o idLine) \o w \o f \o body \in Seq(AnyLine)
    BY ONLY <2>1, <2>2, body \in Seq(AnyLine), ChainIs
  <2> QED
    BY ONLY <1>4, <2>3, Zenon DEF f
<1> QED
  BY ONLY <1>1, <1>5, FilesAreTexts, SaveKeepsTexts

LEMMA FormKeepsTexts ==
  ASSUME FilesAreTexts, FormStep
  PROVE  FilesAreTexts'
<1> PICK i \in DOMAIN FormFields : \E entry \in EntriesOf(i) :
        FormCreates(i, entry) \/ \E id \in Ids : FormEdits(id, i, entry)
  BY Zenon DEF FormStep
<1>1. PICK entry \in EntriesOf(i) :
        FormCreates(i, entry) \/ \E id \in Ids : FormEdits(id, i, entry)
  OBVIOUS
<1>2. entry \in Chars
  <2>1. EntriesOf(i) \subseteq Seq(DOMAIN Code)
    BY FormAssumption, Zenon
  <2> QED
    BY ONLY <2>1, entry \in EntriesOf(i), TextsOfCode
<1>3. \A g : DOMAIN g = DOMAIN FormFields /\ (\A k \in DOMAIN FormFields : g[k] \in Chars)
               => \A k \in DOMAIN FormFields : [g EXCEPT ![i] = entry][k] \in Chars
  BY ONLY <1>2
<1>4. CASE FormCreates(i, entry)
  <2> DEFINE g == EmptyForm
             form == [g EXCEPT ![i] = entry]
  <2>1. SaveForm(<<>>, form, <<>>)
    BY <1>4, Zenon DEF FormCreates
  <2>2. DOMAIN g = DOMAIN FormFields /\ \A k \in DOMAIN FormFields : g[k] = ShownOf(FormFields[k], <<>>)
    BY DEF EmptyForm
  <2> HIDE DEF g
  <2>3. \A k \in DOMAIN FormFields : g[k] \in Chars
    BY ONLY <2>2, TrimOfEmpty, ShownIs, Zenon
  <2>4. \A k \in DOMAIN FormFields : form[k] \in Chars
    BY ONLY <1>3, <2>2, <2>3, Zenon
  <2> HIDE DEF form
  <2>5. <<>> \in Seq(AnyLine)
    OBVIOUS
  <2> QED
    BY ONLY <2>1, <2>4, <2>5, FilesAreTexts, SavedFormIsText
<1>5. CASE \E id \in Ids : FormEdits(id, i, entry)
  <2>1. PICK id \in Ids : FormEdits(id, i, entry)
    BY <1>5
  <2> DEFINE old == Load(id)
             g == FormOf(old)
             form == [g EXCEPT ![i] = entry]
             l == Written(Scalar("id", IdText[id]))
             body == old.body
  <2>2. old.ok /\ SaveForm(<<l>>, form, body)
    BY <2>1, Zenon DEF FormEdits
  <2>3. GoodRecord(old) /\ body \in Seq(AnyLine)
    BY <2>2, LoadedIsGood
  <2> HIDE DEF old
  <2>4. DOMAIN g = DOMAIN FormFields
        /\ \A k \in DOMAIN FormFields : g[k] = ShownOf(FormFields[k], First(old, FormFields[k].key))
    BY DEF FormOf
  <2> HIDE DEF g
  <2>5. \A k \in DOMAIN FormFields : First(old, FormFields[k].key) \in Chars
    BY ONLY <2>3, FirstIs
  <2>6. \A k \in DOMAIN FormFields : g[k] \in Chars
    BY ONLY <2>4, <2>5, ShownIs, Zenon
  <2>7. \A k \in DOMAIN FormFields : form[k] \in Chars
    BY ONLY <1>3, <2>4, <2>6, Zenon
  <2>8. <<l>> \in Seq(AnyLine)
    <3>1. IdText[id] \in Chars
      <4>1. IdText \in [Ids -> Seq(DOMAIN Code)]
        BY ScriptAssumption, Zenon
      <4> QED
        BY ONLY <4>1, id \in Ids, TextsOfCode
    <3>2. "id" \in STRING
      BY ONLY IdIsText
    <3>3. l \in AnyLine
      BY ONLY <3>1, <3>2, ScalarIs, Zenon DEF l
    <3> HIDE DEF l
    <3> QED
      BY ONLY <3>3
  <2> HIDE DEF form, l, body
  <2> QED
    BY ONLY <2>2, <2>3, <2>7, <2>8, FilesAreTexts, SavedFormIsText
<1> QED
  BY ONLY <1>1, <1>4, <1>5

--------------------------------------------------------------------------------
(* The theorems on files.                                                  *)

LEMMA InitialFilesAreTexts == Init => FilesAreTexts
<1> SUFFICES ASSUME Init
             PROVE  FilesAreTexts
  OBVIOUS
<1>1. files \in {f \in [Ids -> UNION {TextsFor[id] : id \in Ids} \union {Absent}] :
                  \A id \in Ids : f[id] \in TextsFor[id] \union {Absent}}
  BY Zenon DEF Init
<1>2. \A id \in Ids : TextsFor[id] \subseteq Seq(AnyLine)
  BY ONLY TextsAssumption, TextsOfCode
<1> DEFINE A == Seq(AnyLine)
<1> HIDE DEF A
<1>3. \A id \in Ids : TextsFor[id] \subseteq A
  BY ONLY <1>2, Zenon DEF A
<1>4. files \in [Ids -> A \union {Absent}]
  <2> DEFINE T == UNION {TextsFor[id] : id \in Ids} \union {Absent}
  <2>1. files \in [Ids -> T] /\ \A id \in Ids : files[id] \in TextsFor[id] \union {Absent}
    BY ONLY <1>1, Zenon DEF T
  <2> HIDE DEF T
  <2> QED
    BY ONLY <1>3, <2>1
<1> QED
  BY ONLY <1>4, Zenon DEF A, FilesAreTexts, FileSet

LEMMA NextKeepsTexts == FilesAreTexts /\ [Next]_vars => FilesAreTexts'
<1> SUFFICES ASSUME FilesAreTexts, [Next]_vars
             PROVE  FilesAreTexts'
  OBVIOUS
<1>1. CASE UNCHANGED files
  BY <1>1 DEF FilesAreTexts
<1>2. CASE \E id \in Ids, edit \in Edits : ScriptEdits(id, edit)
  BY <1>2, ScriptKeepsTexts
<1>3. CASE \E id \in Ids : \E t \in FileSet : files' = [files EXCEPT ![id] = t]
  <2>1. PICK id \in Ids, t \in FileSet : files' = [files EXCEPT ![id] = t]
    BY <1>3
  <2> QED
    BY <2>1 DEF FilesAreTexts
<1>4. CASE FormStep
  BY <1>4, FormKeepsTexts
<1>5. FilesChange => \/ \E id \in Ids, edit \in Edits : ScriptEdits(id, edit)
                     \/ \E id \in Ids : \E t \in FileSet : files' = [files EXCEPT ![id] = t]
  <2>1. \A id \in Ids : ScriptDeletes(id) => files' = [files EXCEPT ![id] = Absent]
    BY Zenon DEF ScriptDeletes
  <2>2. Absent \in FileSet
    BY DEF FileSet
  <2>3. \A id \in Ids : \A text \in TextsFor[id] :
          FileComes(id, text) => files' = [files EXCEPT ![id] = text] /\ text \in FileSet
    <3>1. \A id \in Ids : \A text \in TextsFor[id] : text \in FileSet
      BY TextsAssumption, TextsOfCode DEF FileSet
    <3> QED
      BY <3>1, Zenon DEF FileComes
  <2> QED
    BY <2>1, <2>2, <2>3, Zenon DEF FilesChange
<1>6. FormSaved => FormStep
  BY Zenon DEF FormSaved
<1>7. Next => FilesChange \/ FormSaved \/ UNCHANGED files
  <2>1. \A id \in Ids : BeginRemove(id) \/ BeginPut(id) => UNCHANGED files
    BY Zenon DEF BeginRemove, BeginPut
  <2>2. BeginRebuild \/ DeleteRecord \/ DeleteFields \/ DeleteText => UNCHANGED files
    BY Zenon DEF BeginRebuild, DeleteRecord, DeleteFields, DeleteText
  <2>3. InsertRecord \/ InsertField \/ InsertText => UNCHANGED files
    BY Zenon DEF InsertRecord, InsertField, InsertText
  <2>4. ClearRecords \/ ClearFields \/ ClearText \/ BeginTx => UNCHANGED files
    BY Zenon DEF ClearRecords, ClearFields, ClearText, BeginTx
  <2>5. NextRecord \/ Commit \/ StatementFails \/ Crash => UNCHANGED files
    BY Zenon DEF NextRecord, Commit, StatementFails, Crash
  <2> QED
    BY <2>4, <2>5, <2>1, <2>2, <2>3, Zenon DEF Next
<1>8. UNCHANGED vars => UNCHANGED files
  BY DEF vars
<1> QED
  BY <1>1, <1>2, <1>3, <1>4, <1>5, <1>6, <1>7, <1>8

\* Whatever scripts and forms save, with the identifier the program may add, and
\* whatever comes from elsewhere, a file has lines of the characters there are.
THEOREM FilesStayTexts == Spec => []FilesAreTexts
BY InitialFilesAreTexts, NextKeepsTexts, PTL DEF Spec

\* Every file of the collection that can be read at all, also one that a script
\* or a form has saved, is read back from what it is written as, and a second
\* round changes nothing (vault_load, vault_save, frontmatter_write).
FilesSettle == \A id \in Ids : Load(id).ok => ReadBack(Load(id)) /\ Settles(files[id])

THEOREM EveryFileSettles == Spec => []FilesSettle
<1>1. FilesAreTexts => FilesSettle
  <2> SUFFICES ASSUME FilesAreTexts, NEW id \in Ids, Load(id).ok
               PROVE  ReadBack(Load(id)) /\ Settles(files[id])
    BY Zenon DEF FilesSettle
  <2> DEFINE text == files[id]
  <2>1. Load(id) = Parse(text) /\ text # Absent /\ Parse(text).ok
    <3>1. NoRecord.ok = FALSE
      BY DEF NoRecord
    <3> QED
      BY <3>1, Zenon DEF Load
  <2>2. text \in Seq(AnyLine)
    BY <2>1 DEF FilesAreTexts, FileSet
  <2>3. \A i \in 1 .. Len(text) : IsField(text[i]) => text[i].raw \in Chars
    <3>1. \A i \in 1 .. Len(text) : text[i] \in AnyLine
      <4> HIDE DEF text
      <4> QED
        BY ONLY <2>2
    <3> QED
      BY ONLY <3>1, LineIs
  <2> HIDE DEF text
  <2>4. ReadBack(Parse(text)) /\ Settles(text)
    BY ONLY <2>1, <2>2, <2>3, TextRoundTrip
  <2> QED
    BY ONLY <2>1, <2>4, Zenon DEF text
<1> QED
  BY <1>1, FilesStayTexts, PTL

\* A script that sets a field of a record leaves its body, its other fields and
\* all other records as they are, whatever they are - for the records the
\* property is about (push_record, compose, vault_save).
THEOREM ScriptsKeepTheRest == Spec => ScriptsKeepOtherFields
<1>1. FilesAreTexts =>
        [files' # files =>
           \A id \in {id \in Ids : files'[id] # files[id]}, edit \in Edits :
             ScriptEdits(id, edit) => KeepsOtherFields(id, edit.key)]_vars
  <2> SUFFICES ASSUME FilesAreTexts,
                      NEW id \in Ids, files'[id] # files[id], NEW edit \in Edits, ScriptEdits(id, edit)
               PROVE  KeepsOtherFields(id, edit.key)
    BY Zenon
  <2> QED
    BY ScriptKeepsOthers DEF FilesAreTexts
<1> QED
  BY <1>1, FilesStayTexts, PTL DEF ScriptsKeepOtherFields

\* A form that is saved keeps the body, the fields that were not touched and all
\* other records, stores what was entered and names the file that was opened,
\* whatever the schema, the record and the entry are (form_build, compose,
\* browser_save).
THEOREM FormsKeepTheRest == Spec => FormsKeepOtherFields
<1>1. FilesAreTexts =>
        [files' # files =>
           \A id \in {id \in Ids : files'[id] # files[id]}, i \in DOMAIN FormFields :
             \A entry \in EntriesOf(i) : FormEdits(id, i, entry) => FormKeeps(id, i, entry)]_vars
  <2> SUFFICES ASSUME FilesAreTexts,
                      NEW id \in Ids, files'[id] # files[id], NEW i \in DOMAIN FormFields,
                      NEW entry \in EntriesOf(i), FormEdits(id, i, entry)
               PROVE  FormKeeps(id, i, entry)
    BY Zenon
  <2> QED
    BY FormKeepsOthers DEF FilesAreTexts
<1> QED
  BY <1>1, FilesStayTexts, PTL DEF FormsKeepOtherFields

--------------------------------------------------------------------------------
(* Texts put together piece by piece.                                      *)

\* Characters of texts have a code.
LEMMA LettersAreCoded == Letters = DOMAIN Code /\ Chars = Seq(DOMAIN Code)
<1>1. {" ", ",", "[", "]"} \subseteq DOMAIN Code
  BY CodeAssumption, Zenon
<1>2. Letters = DOMAIN Code
  BY ONLY <1>1, Zenon DEF Letters
<1> QED
  BY ONLY <1>2, Zenon DEF Chars

\* What is put together piece by piece.
IsChain(f, n, B, p) ==
  /\ f \in [0 .. n -> Seq(B)]
  /\ f[0] = <<>>
  /\ \A k \in 1 .. n : f[k] = f[k - 1] \o p[k]

ChainOf(f, n, p) == [k \in 0 .. n |-> IF k = 0 THEN <<>> ELSE f[k - 1] \o p[k]]

LEMMA ChainExists ==
  ASSUME NEW B, NEW n \in Nat, NEW p, \A k \in 1 .. n : p[k] \in Seq(B)
  PROVE  \E f : IsChain(f, n, B, p) /\ f = ChainOf(f, n, p)
<1> DEFINE T == Seq(B)
           step == [q \in (1 .. n) \X T |-> q[2] \o p[q[1]]]
<1>1. \A t \in T, k \in 1 .. n : t \o p[k] \in T
  BY ConcatProperties
<1>2. step \in [(1 .. n) \X T -> T]
  <2> HIDE DEF T
  <2>1. \A q \in (1 .. n) \X T : q[1] \in 1 .. n /\ q[2] \in T
    OBVIOUS
  <2>2. \A q \in (1 .. n) \X T : q[2] \o p[q[1]] \in T
    BY <1>1, <2>1
  <2> QED
    BY <2>2
<1>3. \A t \in T, k \in 1 .. n : step[<<k, t>>] = t \o p[k]
  <2> HIDE DEF T
  <2> QED
    OBVIOUS
<1>4. <<>> \in T
  OBVIOUS
<1> HIDE DEF step, T
<1>5. PICK f : IsStepped(f, n, T, <<>>, step)
  BY <1>2, <1>4, SteppedExists, Zenon
<1>6. f \in [0 .. n -> T] /\ f[0] = <<>> /\ \A k \in 1 .. n : f[k] = step[<<k, f[k - 1]>>]
  BY <1>5, Zenon DEF IsStepped
<1>7. \A k \in 1 .. n : f[k] = f[k - 1] \o p[k]
  <2> TAKE k \in 1 .. n
  <2>1. k - 1 \in 0 .. n
    OBVIOUS
  <2>2. f[k - 1] \in T
    BY <1>6, <2>1
  <2> QED
    BY <1>3, <1>6, <2>2
<1>8. f = ChainOf(f, n, p)
  <2> DEFINE g == ChainOf(f, n, p)
  <2>1. \A k \in 0 .. n : g[k] = f[k]
    <3> TAKE k \in 0 .. n
    <3>1. CASE k = 0
      BY <1>6, <3>1 DEF ChainOf
    <3>2. CASE k # 0
      <4>1. k \in 1 .. n
        BY <3>2
      <4> QED
        BY <1>7, <3>2, <4>1 DEF ChainOf
    <3> QED
      BY <3>1, <3>2
  <2>2. f = [k \in 0 .. n |-> f[k]] /\ g = [k \in 0 .. n |-> g[k]]
    BY <1>6 DEF ChainOf
  <2> HIDE DEF g
  <2>3. [k \in 0 .. n |-> f[k]] = [k \in 0 .. n |-> g[k]]
    BY <2>1
  <2>4. f = g
    BY ONLY <2>2, <2>3, Zenon
  <2> QED
    BY ONLY <2>4, Zenon DEF g
<1>9. IsChain(f, n, B, p)
  BY <1>6, <1>7, Zenon DEF IsChain, T
<1> QED
  BY <1>8, <1>9

\* A function that is such a chain is that chain.
LEMMA ChainSteps ==
  ASSUME NEW B, NEW n \in Nat, NEW p, \A k \in 1 .. n : p[k] \in Seq(B),
         NEW f, f = ChainOf(f, n, p)
  PROVE  IsChain(f, n, B, p)
<1>1. f = [k \in 0 .. n |-> IF k = 0 THEN <<>> ELSE f[k - 1] \o p[k]]
  BY Zenon DEF ChainOf
<1>2. 0 \in 0 .. n /\ \A k \in 1 .. n : k \in 0 .. n /\ k # 0
  OBVIOUS
<1> DEFINE E(k) == IF k = 0 THEN <<>> ELSE f[k - 1] \o p[k]
<1>3. DOMAIN f = 0 .. n /\ \A k \in 0 .. n : f[k] = E(k)
  BY ONLY <1>1
<1>4. f[0] = <<>> /\ \A k \in 1 .. n : f[k] = f[k - 1] \o p[k]
  BY ONLY <1>2, <1>3, Zenon DEF E
<1> HIDE DEF E
<1> DEFINE T == Seq(B)
           S == {k \in 0 .. n : f[k] \in T}
<1>5. <<>> \in T
  OBVIOUS
<1>6. \A t \in T, k \in 1 .. n : t \o p[k] \in T
  BY ConcatProperties
<1> HIDE DEF T
<1>7. 0 \in S
  BY <1>2, <1>4, <1>5
<1>8. ASSUME NEW k \in 1 .. n, k - 1 \in S PROVE k \in S
  BY <1>2, <1>4, <1>6, <1>8
<1>9. \A k \in 0 .. n : k \in S
  <2> HIDE DEF S
  <2> QED
    BY <1>7, <1>8, UpwardFromZero, Zenon
<1>10. \A k \in 0 .. n : f[k] \in T
  BY <1>9
<1>11. f \in [0 .. n -> T]
  BY ONLY <1>3, <1>10, f = ChainOf(f, n, p), <1>1
<1> QED
  BY ONLY <1>4, <1>11, Zenon DEF IsChain, T

--------------------------------------------------------------------------------
(* Texts that are folded.                                                  *)

IsTable(table) == table \in [DOMAIN table -> Seq(DOMAIN Code)]

LEMMA TablesAre == IsTable(SortTable) /\ IsTable(SearchTable) /\ IsTable(WordTable)
BY TablesAssumption, WordsAssumption, Zenon DEF IsTable

LEMMA ReplacementIs ==
  ASSUME NEW table, IsTable(table), NEW ch \in Letters
  PROVE  Replacement(table, ch) \in Chars
<1> DEFINE A == DOMAIN Code
<1>1. SmallOf \in [DOMAIN SmallOf -> A] /\ ch \in A /\ Chars = Seq(A) /\ table \in [DOMAIN table -> Seq(A)]
  BY CodeAssumption, LettersAreCoded, Zenon DEF IsTable
<1> HIDE DEF A
<1>2. ch \in DOMAIN table => table[ch] \in Seq(A)
  BY ONLY <1>1
<1>3. ch \in DOMAIN SmallOf => <<SmallOf[ch]>> \in Seq(A)
  BY ONLY <1>1
<1>4. <<ch>> \in Seq(A)
  BY ONLY <1>1
<1> QED
  BY ONLY <1>1, <1>2, <1>3, <1>4, Zenon DEF Replacement

\* A text folded up to each of its characters.
IsFold(f, table, s) ==
  f = [i \in 0 .. Len(s) |-> IF i = 0 THEN <<>> ELSE f[i - 1] \o Replacement(table, s[i])]

Replacements(table, s) == [k \in 1 .. Len(s) |-> Replacement(table, s[k])]

LEMMA FoldBy ==
  ASSUME NEW table, NEW s, \E f : IsFold(f, table, s)
  PROVE  \E f : IsFold(f, table, s) /\ Fold(table, s) = f[Len(s)]
<1> DEFINE f == CHOOSE f : IsFold(f, table, s)
<1>1. IsFold(f, table, s)
  BY Zenon
<1>2. Fold(table, s) = f[Len(s)]
  BY Zenon DEF Fold, IsFold
<1> QED
  BY <1>1, <1>2, Zenon

LEMMA FoldIs ==
  ASSUME NEW table, IsTable(table), NEW s \in Chars
  PROVE  \E f : /\ f \in [0 .. Len(s) -> Chars] /\ f[0] = <<>>
                /\ \A k \in 1 .. Len(s) : f[k] = f[k - 1] \o Replacement(table, s[k])
                /\ Fold(table, s) = f[Len(s)]
<1> DEFINE n == Len(s)
           p == Replacements(table, s)
           G(f) == [i \in 0 .. Len(s) |-> IF i = 0 THEN <<>> ELSE f[i - 1] \o Replacement(table, s[i])]
<1>1. n \in Nat /\ \A k \in 1 .. n : s[k] \in Letters
  BY TextIs
<1>2. \A k \in 1 .. n : p[k] = Replacement(table, s[k])
  BY DEF Replacements
<1>3. \A k \in 1 .. n : p[k] \in Seq(Letters)
  BY <1>1, <1>2, ReplacementIs, Zenon DEF Chars
<1> HIDE DEF p
<1>4. \A f : G(f) = ChainOf(f, n, p)
  <2> TAKE f
  <2> DEFINE g == G(f)
             h == ChainOf(f, n, p)
  <2>1. \A k \in 0 .. n : g[k] = h[k]
    <3> TAKE k \in 0 .. n
    <3>1. CASE k = 0
      BY <3>1 DEF ChainOf
    <3>2. CASE k # 0
      <4>1. k \in 1 .. n
        BY <3>2
      <4>2. p[k] = Replacement(table, s[k])
        BY <1>2, <4>1
      <4> QED
        BY <3>2, <4>2 DEF ChainOf
    <3> QED
      BY <3>1, <3>2
  <2>2. g = [k \in 0 .. n |-> g[k]] /\ h = [k \in 0 .. n |-> h[k]]
    BY DEF ChainOf
  <2> HIDE DEF g, h
  <2>3. [k \in 0 .. n |-> g[k]] = [k \in 0 .. n |-> h[k]]
    BY <2>1
  <2>4. g = h
    BY ONLY <2>2, <2>3, Zenon
  <2> QED
    BY ONLY <2>4, Zenon DEF g, h
<1>5. \A f : IsFold(f, table, s) <=> f = ChainOf(f, n, p)
  <2> TAKE f
  <2>1. IsFold(f, table, s) <=> f = G(f)
    BY ONLY Zenon DEF IsFold
  <2>2. G(f) = ChainOf(f, n, p)
    BY ONLY <1>4, Zenon
  <2> HIDE DEF G
  <2> QED
    BY ONLY <2>1, <2>2, Zenon
<1> HIDE DEF G, n
<1>6. \E f : IsFold(f, table, s)
  BY <1>1, <1>3, <1>5, ChainExists, Zenon
<1>7. PICK f : IsFold(f, table, s) /\ Fold(table, s) = f[Len(s)]
  BY <1>6, FoldBy, Zenon
<1>8. IsChain(f, n, Letters, p)
  BY <1>1, <1>3, <1>5, <1>7, ChainSteps, Zenon
<1>9. f \in [0 .. n -> Chars] /\ f[0] = <<>> /\ \A k \in 1 .. n : f[k] = f[k - 1] \o Replacement(table, s[k])
  BY ONLY <1>2, <1>8, Zenon DEF IsChain, Chars
<1> QED
  BY ONLY <1>7, <1>9, Zenon DEF n

LEMMA FoldIsText ==
  ASSUME NEW table, IsTable(table), NEW s \in Chars
  PROVE  Fold(table, s) \in Chars
<1>1. PICK f : f \in [0 .. Len(s) -> Chars] /\ Fold(table, s) = f[Len(s)]
  BY FoldIs, Zenon
<1>2. Len(s) \in Nat
  BY TextIs
<1>3. Len(s) \in 0 .. Len(s)
  BY ONLY <1>2
<1> QED
  BY ONLY <1>1, <1>3

\* No text stands before itself.
LEMMA BeforeIsStrict ==
  ASSUME NEW s \in Chars
  PROVE  ~Before(s, s)
<1>1. Len(s) \in Nat /\ \A i \in 1 .. Len(s) : s[i] \in DOMAIN Code
  BY TextIs, LettersAreCoded
<1>2. Code \in [DOMAIN Code -> Nat]
  BY CodeAssumption, Zenon
<1>3. SUFFICES ASSUME NEW k \in 0 .. Len(s), IF k = Len(s) THEN k < Len(s)
                      ELSE k < Len(s) /\ Code[s[k + 1]] < Code[s[k + 1]]
               PROVE  FALSE
  BY Zenon DEF Before
<1>4. k # Len(s) /\ k < Len(s)
  BY ONLY <1>1, <1>3
<1>5. k + 1 \in 1 .. Len(s)
  BY ONLY <1>1, <1>4, k \in 0 .. Len(s)
<1>6. Code[s[k + 1]] \in Nat
  BY ONLY <1>1, <1>2, <1>5
<1> QED
  BY ONLY <1>3, <1>4, <1>6

BeginsAs(s, t) == Len(t) <= Len(s) /\ \A x \in 1 .. Len(t) : s[x] = t[x]

\* The part of a text folds to a part of the folded text.
LEMMA FoldOfPart ==
  ASSUME NEW table, IsTable(table), NEW s \in Chars, NEW i \in 1 .. Len(s), NEW j \in i .. Len(s)
  PROVE  HasInside(table, s, SubSeq(s, i, j))
<1> DEFINE w == SubSeq(s, i, j)
           m == j - i + 1
           n == Len(s)
<1>1. n \in Nat /\ i \in Nat \ {0} /\ j \in 0 .. n /\ j \in Nat /\ i <= j /\ m \in Nat \ {0} /\ i - 1 \in 0 .. n
  BY TextIs
<1>2. w \in Chars /\ Len(w) = m /\ \A k \in 1 .. m : w[k] = s[i + k - 1]
  <2>1. /\ w \in Chars /\ Len(w) = IF i <= j THEN j - i + 1 ELSE 0
        /\ \A k \in 1 .. Len(w) : w[k] = s[i + k - 1]
    BY <1>1, PartIs
  <2>2. Len(w) = m
    BY <1>1, <2>1
  <2> QED
    BY ONLY <2>1, <2>2, Zenon
<1> HIDE DEF w
<1>3. PICK f : /\ f \in [0 .. n -> Chars] /\ f[0] = <<>>
               /\ \A k \in 1 .. n : f[k] = f[k - 1] \o Replacement(table, s[k])
               /\ Fold(table, s) = f[n]
  BY FoldIs
<1>4. PICK g : /\ g \in [0 .. Len(w) -> Chars] /\ g[0] = <<>>
               /\ \A k \in 1 .. Len(w) : g[k] = g[k - 1] \o Replacement(table, w[k])
               /\ Fold(table, w) = g[Len(w)]
  BY <1>2, FoldIs
<1>5. /\ g \in [0 .. m -> Chars] /\ g[0] = <<>>
      /\ \A k \in 1 .. m : g[k] = g[k - 1] \o Replacement(table, w[k])
      /\ Fold(table, w) = g[m]
  BY ONLY <1>2, <1>4
<1>6. \A k \in 1 .. n : s[k] \in Letters
  BY TextIs
<1> HIDE DEF m, n
<1> DEFINE S == {k \in 0 .. m : f[i - 1 + k] = f[i - 1] \o g[k]}
<1>7. 0 \in S
  <2>1. f[i - 1] \in Chars
    BY <1>1, <1>3
  <2>2. f[i - 1] \o <<>> = f[i - 1]
    BY ONLY <2>1, ConcatEmptySeq DEF Chars
  <2>3. i - 1 + 0 = i - 1 /\ 0 \in 0 .. m
    BY ONLY <1>1
  <2> QED
    BY ONLY <1>5, <2>2, <2>3
<1>8. ASSUME NEW k \in 1 .. m, k - 1 \in S PROVE k \in S
  <2> DEFINE r == Replacement(table, w[k])
             a == f[i - 1]
             b == g[k - 1]
  <2>1. i - 1 + k \in 1 .. n /\ i - 1 + (k - 1) = (i - 1 + k) - 1 /\ i + k - 1 = i - 1 + k
        /\ k \in 0 .. m /\ k - 1 \in 0 .. m
    BY ONLY <1>1, k \in 1 .. m DEF m
  <2>2. f[i - 1 + k] = f[(i - 1 + k) - 1] \o Replacement(table, s[i - 1 + k])
    BY ONLY <1>3, <2>1
  <2>3. w[k] = s[i - 1 + k] /\ w[k] \in Letters
    BY ONLY <1>2, <1>6, <2>1, k \in 1 .. m
  <2>4. r \in Chars /\ a \in Chars /\ b \in Chars
    <3>1. r \in Chars
      BY <2>3, ReplacementIs
    <3>2. a \in Chars /\ b \in Chars
      BY ONLY <1>1, <1>3, <1>5, <2>1
    <3> QED
      BY ONLY <3>1, <3>2
  <2>5. f[(i - 1 + k) - 1] = a \o b
    BY <1>8, <2>1
  <2>6. g[k] = b \o r
    BY ONLY <1>5, k \in 1 .. m
  <2> HIDE DEF r, a, b
  <2>7. f[i - 1 + k] = (a \o b) \o r
    BY ONLY <2>2, <2>3, <2>5, Zenon DEF r
  <2>8. (a \o b) \o r = a \o (b \o r)
    BY ONLY <2>4, LettersJoin, ZenonT(60) DEF Chars
  <2>9. f[i - 1 + k] = f[i - 1] \o g[k]
    BY ONLY <2>6, <2>7, <2>8, Zenon DEF a
  <2> QED
    BY ONLY <2>1, <2>9
<1>9. f[j] = f[i - 1] \o g[m]
  <2>1. m \in 0 .. m /\ i - 1 + m = j
    BY ONLY <1>1 DEF m
  <2>2. m \in S
    <3> HIDE DEF S
    <3>1. \A k \in 0 .. m : k \in S
      BY <1>1, <1>7, <1>8, UpwardFromZero, Zenon
    <3> QED
      BY ONLY <2>1, <3>1
  <2> QED
    BY ONLY <2>1, <2>2
<1> DEFINE rest == n - j
           U == {k \in 0 .. rest : BeginsAs(f[j + k], f[j])}
<1>10. rest \in Nat
  BY <1>1
<1>11. 0 \in U
  BY ONLY <1>1, <1>10 DEF BeginsAs
<1>12. ASSUME NEW k \in 1 .. rest, k - 1 \in U PROVE k \in U
  <2>1. j + k \in 1 .. n /\ j + (k - 1) = (j + k) - 1 /\ k \in 0 .. rest /\ j + (k - 1) \in 0 .. n
    BY ONLY <1>1, k \in 1 .. rest
  <2> DEFINE r == Replacement(table, s[j + k])
             a == f[j + (k - 1)]
             b == f[j]
  <2>2. f[j + k] = a \o r
    BY ONLY <1>3, <2>1
  <2>3. r \in Chars
    BY <1>6, <2>1, ReplacementIs
  <2>4. a \in Chars /\ b \in Chars
    BY ONLY <1>1, <1>3, <2>1
  <2>5. BeginsAs(a, b)
    BY <1>12
  <2> HIDE DEF r, a, b
  <2>6. /\ Len(a \o r) = Len(a) + Len(r) /\ \A x \in 1 .. Len(a) : (a \o r)[x] = a[x]
        /\ Len(a) \in Nat /\ Len(r) \in Nat /\ Len(b) \in Nat
    BY ONLY <2>3, <2>4, ConcatIs, TextIs
  <2>7. BeginsAs(a \o r, b)
    BY ONLY <2>5, <2>6 DEF BeginsAs
  <2> QED
    BY ONLY <2>1, <2>2, <2>7, Zenon DEF b
<1>13. BeginsAs(f[n], f[j])
  <2>1. rest \in 0 .. rest /\ j + rest = n
    BY ONLY <1>1, <1>10
  <2>2. rest \in U
    <3> HIDE DEF U, rest
    <3>1. \A k \in 0 .. rest : k \in U
      BY <1>10, <1>11, <1>12, UpwardFromZero, Zenon
    <3> QED
      BY ONLY <2>1, <3>1
  <2> QED
    BY ONLY <2>1, <2>2
<1> DEFINE a == f[i - 1]
           b == g[m]
           F == f[n]
<1>14. a \in Chars /\ b \in Chars /\ F \in Chars
  BY ONLY <1>1, <1>3, <1>5
<1>15. BeginsAs(F, a \o b)
  BY ONLY <1>9, <1>13, Zenon
<1> HIDE DEF a, b, F
<1>16. /\ Len(a \o b) = Len(a) + Len(b) /\ \A x \in 1 .. Len(b) : (a \o b)[Len(a) + x] = b[x]
       /\ Len(a) \in Nat /\ Len(b) \in Nat /\ Len(F) \in Nat
  BY ONLY <1>14, ConcatIs, TextIs
<1>17. Len(a) \in 0 .. Len(F) /\ OccursAt(F, b, Len(a))
  BY ONLY <1>15, <1>16 DEF BeginsAs, OccursAt
<1>18. \E k \in 0 .. Len(F) : OccursAt(F, b, k)
  BY ONLY <1>17, Zenon
<1>19. Fold(table, s) = F /\ Fold(table, w) = b
  BY ONLY <1>3, <1>5, Zenon DEF F, b
<1> QED
  BY ONLY <1>18, <1>19, Zenon DEF HasInside, w

--------------------------------------------------------------------------------
(* Words that are the same, folded.                                        *)

\* fts5 folds letter by letter.
LEMMA WordFoldIs ==
  ASSUME NEW v \in Chars
  PROVE  /\ Len(Fold(WordTable, v)) = Len(v)
         /\ \A k \in 1 .. Len(v) : <<Fold(WordTable, v)[k]>> = Replacement(WordTable, v[k])
<1> DEFINE n == Len(v)
           R(k) == Replacement(WordTable, v[k])
<1>1. n \in Nat /\ \A k \in 1 .. n : v[k] \in Letters
  BY TextIs
<1>2. \A k \in 1 .. n : R(k) \in Chars /\ Len(R(k)) = 1
  <2> TAKE k \in 1 .. n
  <2>1. v[k] \in Letters /\ v[k] \in DOMAIN Code
    BY <1>1, LettersAreCoded
  <2>2. R(k) \in Chars
    BY <2>1, TablesAre, ReplacementIs
  <2>3. Len(R(k)) = 1
    BY <2>1, WordsAssumption, Zenon
  <2> QED
    BY <2>2, <2>3
<1>3. PICK f : /\ f \in [0 .. n -> Chars] /\ f[0] = <<>>
               /\ \A k \in 1 .. n : f[k] = f[k - 1] \o R(k)
               /\ Fold(WordTable, v) = f[n]
  BY FoldIs, TablesAre
<1> HIDE DEF n, R
<1> DEFINE S == {k \in 0 .. n : Len(f[k]) = k /\ \A x \in 1 .. k : f[k][x] = R(x)[1]}
<1>4. 0 \in S
  BY ONLY <1>1, <1>3
<1>5. ASSUME NEW k \in 1 .. n, k - 1 \in S PROVE k \in S
  <2> DEFINE a == f[k - 1]
             r == R(k)
  <2>1. a \in Chars /\ r \in Chars /\ Len(r) = 1 /\ Len(a) = k - 1 /\ k \in 0 .. n
        /\ \A x \in 1 .. k - 1 : a[x] = R(x)[1]
    BY ONLY <1>1, <1>2, <1>3, <1>5
  <2>2. f[k] = a \o r
    BY ONLY <1>3, k \in 1 .. n
  <2>3. r[1] = R(k)[1]
    OBVIOUS
  <2> HIDE DEF a, r
  <2>4. /\ Len(a \o r) = Len(a) + Len(r) /\ \A x \in 1 .. Len(a) : (a \o r)[x] = a[x]
        /\ \A x \in 1 .. Len(r) : (a \o r)[Len(a) + x] = r[x]
    BY ONLY <2>1, ConcatIs
  <2>5. Len(a \o r) = k
    BY ONLY <2>1, <2>4, k \in 1 .. n, <1>1
  <2>6. \A x \in 1 .. k : (a \o r)[x] = R(x)[1]
    <3> TAKE x \in 1 .. k
    <3>1. CASE x = k
      <4>1. 1 \in 1 .. Len(r) /\ Len(a) + 1 = k
        BY ONLY <2>1, k \in 1 .. n, <1>1
      <4>2. (a \o r)[k] = r[1]
        BY ONLY <2>4, <4>1
      <4> QED
        BY ONLY <2>3, <3>1, <4>2, Zenon
    <3>2. CASE x # k
      <4>1. x \in 1 .. k - 1 /\ x \in 1 .. Len(a)
        BY ONLY <2>1, <3>2, x \in 1 .. k, k \in 1 .. n, <1>1
      <4> QED
        BY ONLY <2>1, <2>4, <4>1, Zenon
    <3> QED
      BY ONLY <3>1, <3>2
  <2> QED
    BY ONLY <2>1, <2>2, <2>5, <2>6
<1>6. n \in S
  <2> HIDE DEF S
  <2>1. \A k \in 0 .. n : k \in S
    BY <1>1, <1>4, <1>5, UpwardFromZero, Zenon
  <2>2. n \in 0 .. n
    BY ONLY <1>1
  <2> QED
    BY ONLY <2>1, <2>2
<1>7. Len(f[n]) = n /\ \A x \in 1 .. n : f[n][x] = R(x)[1]
  BY ONLY <1>6
<1>8. \A k \in 1 .. n : <<f[n][k]>> = R(k)
  <2> TAKE k \in 1 .. n
  <2>1. R(k) \in Chars /\ Len(R(k)) = 1 /\ f[n][k] = R(k)[1]
    BY ONLY <1>2, <1>7, k \in 1 .. n
  <2> DEFINE r == R(k)
             A == Letters
  <2> HIDE DEF r, A
  <2>2. r \in Seq(A) /\ Len(r) = 1
    BY ONLY <2>1, Zenon DEF r, A, Chars
  <2>3. r = <<r[1]>>
    BY ONLY <2>2
  <2> QED
    BY ONLY <2>1, <2>3, Zenon DEF r
<1> QED
  BY ONLY <1>3, <1>7, <1>8, Zenon DEF n, R

\* What fts5 takes for the same word, a search in the records does, too.
LEMMA FoldsTogether ==
  ASSUME NEW v \in Chars, NEW w \in Chars, Fold(WordTable, v) = Fold(WordTable, w)
  PROVE  Fold(SearchTable, v) = Fold(SearchTable, w)
<1> DEFINE n == Len(v)
           F == Fold(WordTable, v)
           R(k) == Replacement(SearchTable, v[k])
<1>1. n \in Nat /\ Len(w) = n
  BY WordFoldIs, TextIs
<1>2. \A k \in 1 .. n : R(k) = Replacement(SearchTable, w[k])
  <2> TAKE k \in 1 .. n
  <2>1. v[k] \in DOMAIN Code /\ w[k] \in DOMAIN Code
    BY <1>1, TextIs, LettersAreCoded
  <2>2. <<F[k]>> = Replacement(WordTable, v[k])
    BY WordFoldIs
  <2>3. <<Fold(WordTable, w)[k]>> = Replacement(WordTable, w[k])
    BY <1>1, WordFoldIs
  <2>4. Replacement(WordTable, v[k]) = Replacement(WordTable, w[k])
    <3> HIDE DEF F
    <3>1. F = Fold(WordTable, w)
      BY DEF F
    <3> QED
      BY ONLY <2>2, <2>3, <3>1, Zenon
  <2> QED
    BY <2>1, <2>4, WordsAssumption, Zenon
<1>3. PICK f : /\ f[0] = <<>> /\ \A k \in 1 .. n : f[k] = f[k - 1] \o R(k)
               /\ Fold(SearchTable, v) = f[n]
  BY FoldIs, TablesAre
<1>4. PICK g : /\ g[0] = <<>> /\ \A k \in 1 .. Len(w) : g[k] = g[k - 1] \o Replacement(SearchTable, w[k])
               /\ Fold(SearchTable, w) = g[Len(w)]
  BY FoldIs, TablesAre
<1> HIDE DEF n, R
<1>5. \A k \in 1 .. n : g[k] = g[k - 1] \o R(k)
  <2> TAKE k \in 1 .. n
  <2>1. k \in 1 .. Len(w)
    BY ONLY <1>1, k \in 1 .. n
  <2> QED
    BY ONLY <1>2, <1>4, <2>1, k \in 1 .. n, Zenon
<1> DEFINE S == {k \in 0 .. n : f[k] = g[k]}
<1>6. 0 \in S
  BY ONLY <1>1, <1>3, <1>4
<1>7. ASSUME NEW k \in 1 .. n, k - 1 \in S PROVE k \in S
  <2>1. f[k - 1] = g[k - 1] /\ k \in 0 .. n
    BY <1>7, <1>1
  <2>2. f[k] = g[k]
    BY ONLY <1>3, <1>5, <2>1, k \in 1 .. n, Zenon
  <2> QED
    BY ONLY <2>1, <2>2
<1>8. n \in S
  <2> HIDE DEF S
  <2>1. \A k \in 0 .. n : k \in S
    BY <1>1, <1>6, <1>7, UpwardFromZero, Zenon
  <2>2. n \in 0 .. n
    BY ONLY <1>1
  <2> QED
    BY ONLY <2>1, <2>2
<1> QED
  BY ONLY <1>1, <1>3, <1>4, <1>8

--------------------------------------------------------------------------------
(* What is sorted.                                                         *)

LEMMA SliceOf ==
  ASSUME NEW T, NEW s \in Seq(T), NEW from \in 1 .. Len(s) + 1, NEW to \in 0 .. Len(s), from <= to + 1
  PROVE  SubSeq(s, from, to) \in Seq(T) /\ Range(SubSeq(s, from, to)) = {s[i] : i \in from .. to}
<1> DEFINE u == SubSeq(s, from, to)
           A == {s[i] : i \in from .. to}
<1>1. /\ Len(u) = to - from + 1 /\ DOMAIN u = 1 .. to - from + 1
      /\ \A i \in 1 .. to - from + 1 : u[i] = s[from + i - 1]
  OBVIOUS
<1>2. u \in Seq(T)
  <2>1. \A i \in 1 .. Len(u) : u[i] \in T
    <3> TAKE i \in 1 .. Len(u)
    <3>1. from + i - 1 \in 1 .. Len(s)
      BY <1>1
    <3> QED
      BY <1>1, <3>1
  <2> QED
    BY <1>1, <2>1
<1> HIDE DEF u
<1>3. \A i \in DOMAIN u : u[i] \in A
  <2> TAKE i \in DOMAIN u
  <2>1. from + i - 1 \in from .. to /\ u[i] = s[from + i - 1]
    BY <1>1
  <2> QED
    BY ONLY <2>1
<1>4. \A i \in from .. to : \E k \in DOMAIN u : u[k] = s[i]
  <2> TAKE i \in from .. to
  <2>1. i - from + 1 \in DOMAIN u /\ from + (i - from + 1) - 1 = i
    BY <1>1
  <2>2. u[i - from + 1] = s[i]
    BY <1>1, <2>1
  <2> QED
    BY ONLY <2>1, <2>2, Zenon
<1>5. Range(u) = A
  <2>1. Range(u) \subseteq A
    BY ONLY <1>3, Zenon DEF Range
  <2>2. A \subseteq Range(u)
    BY ONLY <1>4, Zenon DEF Range
  <2> QED
    BY ONLY <2>1, <2>2, Zenon
<1> QED
  BY ONLY <1>2, <1>5, Zenon DEF u

LEMMA RangeOfConcat ==
  ASSUME NEW T, NEW s \in Seq(T), NEW t \in Seq(T)
  PROVE  Range(s \o t) = Range(s) \union Range(t)
<1> DEFINE u == s \o t
<1>1. /\ Len(s) \in Nat /\ DOMAIN s = 1 .. Len(s) /\ Len(t) \in Nat /\ DOMAIN t = 1 .. Len(t)
      /\ DOMAIN u = 1 .. Len(s) + Len(t)
  OBVIOUS
<1>2. /\ \A i \in 1 .. Len(s) : u[i] = s[i]
      /\ \A i \in 1 .. Len(t) : u[Len(s) + i] = t[i]
  OBVIOUS
<1> HIDE DEF u
<1>3. \A i \in DOMAIN u : i \in 1 .. Len(s) \/ (i - Len(s) \in 1 .. Len(t) /\ Len(s) + (i - Len(s)) = i)
  BY ONLY <1>1
<1>4. \A i \in DOMAIN u : u[i] \in Range(s) \/ u[i] \in Range(t)
  <2> TAKE i \in DOMAIN u
  <2>1. CASE i \in 1 .. Len(s)
    BY ONLY <1>1, <1>2, <2>1, Zenon DEF Range
  <2>2. CASE i - Len(s) \in 1 .. Len(t) /\ Len(s) + (i - Len(s)) = i
    <3>1. u[i] = t[i - Len(s)] /\ i - Len(s) \in DOMAIN t
      BY ONLY <1>1, <1>2, <2>2
    <3> QED
      BY ONLY <3>1, Zenon DEF Range
  <2> QED
    BY ONLY <1>3, <2>1, <2>2, i \in DOMAIN u, Zenon
<1>5. \A i \in DOMAIN s : i \in DOMAIN u /\ u[i] = s[i]
  BY ONLY <1>1, <1>2
<1>6. \A i \in DOMAIN t : Len(s) + i \in DOMAIN u /\ u[Len(s) + i] = t[i]
  BY ONLY <1>1, <1>2
<1>7. Range(u) \subseteq Range(s) \union Range(t)
  BY ONLY <1>4, Zenon DEF Range
<1>8. Range(s) \union Range(t) \subseteq Range(u)
  BY ONLY <1>5, <1>6, Zenon DEF Range
<1> QED
  BY ONLY <1>7, <1>8, Zenon DEF u

\* An insertion adds one entry and keeps all others.
LEMMA InsertIs ==
  ASSUME NEW precedes, NEW T, NEW s \in Seq(T), NEW x \in T
  PROVE  Insert(precedes, s, x) \in Seq(T) 
         /\ \A y : y \in Range(Insert(precedes, s, x)) <=> y \in Range(s) \/ y = x
<1> DEFINE later == {i \in DOMAIN s : <<x, s[i]>> \in precedes}
           at == IF later = {} THEN Len(s) + 1 ELSE Min(later)
           a == SubSeq(s, 1, at - 1)
           c == SubSeq(s, at, Len(s))
<1>1. Insert(precedes, s, x) = a \o <<x>> \o c
  BY ONLY Zenon DEF Insert
<1>2. Len(s) \in Nat /\ DOMAIN s = 1 .. Len(s)
  OBVIOUS
<1>3. at \in 1 .. Len(s) + 1
  <2>1. CASE later = {}
    <3>1. at = Len(s) + 1
      BY ONLY <2>1
    <3> QED
      BY ONLY <1>2, <3>1
  <2>2. CASE later # {}
    <3>1. later \in SUBSET Nat /\ later \subseteq 1 .. Len(s)
      BY ONLY <1>2
    <3> HIDE DEF later
    <3>2. Min(later) \in later
      BY <2>2, <3>1, MinIsLeast
    <3>3. at = Min(later)
      BY ONLY <2>2, Zenon
    <3> DEFINE m == Min(later)
    <3>4. m \in 1 .. Len(s)
      BY ONLY <3>1, <3>2
    <3> HIDE DEF m
    <3>5. m \in 1 .. Len(s) + 1
      BY ONLY <1>2, <3>4
    <3> QED
      BY ONLY <3>3, <3>5, Zenon DEF m
  <2> QED
    BY ONLY <2>1, <2>2, Zenon
<1> HIDE DEF later, at
<1>4. 1 \in 1 .. Len(s) + 1 /\ at - 1 \in 0 .. Len(s) /\ 1 <= at - 1 + 1
      /\ Len(s) \in 0 .. Len(s) /\ at <= Len(s) + 1
  BY ONLY <1>2, <1>3
<1>5. a \in Seq(T) /\ Range(a) = {s[i] : i \in 1 .. at - 1}
  BY ONLY <1>4, SliceOf, s \in Seq(T)
<1>6. c \in Seq(T) /\ Range(c) = {s[i] : i \in at .. Len(s)}
  BY ONLY <1>3, <1>4, SliceOf, s \in Seq(T)
<1> HIDE DEF a, c
<1>7. <<x>> \in Seq(T) /\ Range(<<x>>) = {x}
  BY ONLY x \in T DEF Range
<1>8. a \o <<x>> \in Seq(T) /\ Range(a \o <<x>>) = Range(a) \union {x}
  <2> DEFINE b == <<x>>
  <2>1. b \in Seq(T) /\ Range(b) = {x}
    BY ONLY <1>7, Zenon
  <2> HIDE DEF b
  <2>2. a \o b \in Seq(T)
    BY ONLY <1>5, <2>1, ConcatProperties
  <2>3. Range(a \o b) = Range(a) \union Range(b)
    <3>1. a \in Seq(T) /\ b \in Seq(T)
      BY ONLY <1>5, <2>1, Zenon
    <3> QED
      BY ONLY <3>1, RangeOfConcat, ZenonT(60)
  <2>4. Range(a \o b) = Range(a) \union {x}
    BY ONLY <2>1, <2>3
  <2> QED
    BY ONLY <2>2, <2>4, Zenon DEF b
<1>9. (a \o <<x>>) \o c \in Seq(T) /\ Range((a \o <<x>>) \o c) = Range(a) \union {x} \union Range(c)
  <2> DEFINE b == a \o <<x>>
  <2> HIDE DEF b
  <2>1. b \in Seq(T) /\ Range(b) = Range(a) \union {x}
    BY ONLY <1>8 DEF b
  <2>2. b \o c \in Seq(T)
    BY ONLY <1>6, <2>1, ConcatProperties
  <2>3. Range(b \o c) = Range(b) \union Range(c)
    <3>1. b \in Seq(T) /\ c \in Seq(T)
      BY ONLY <1>6, <2>1, Zenon
    <3> QED
      BY ONLY <3>1, RangeOfConcat, ZenonT(60)
  <2> QED
    BY ONLY <2>1, <2>2, <2>3, Zenon DEF b
<1>10. Range(s) = Range(a) \union Range(c)
  <2>1. Range(s) = {s[i] : i \in 1 .. Len(s)}
    BY ONLY <1>2, Zenon DEF Range
  <2>2. \A i : i \in 1 .. Len(s) <=> i \in 1 .. at - 1 \/ i \in at .. Len(s)
    BY ONLY <1>2, <1>3
  <2> QED
    BY ONLY <1>5, <1>6, <2>1, <2>2
<1>11. \A y : y \in Range((a \o <<x>>) \o c) <=> y \in Range(s) \/ y = x
  BY ONLY <1>9, <1>10
<1> QED
  BY ONLY <1>1, <1>9, <1>11, Zenon

\* A sequence sorted up to each of its entries.
IsInserted(f, precedes, s) ==
  f = [n \in 0 .. Len(s) |-> IF n = 0 THEN <<>> ELSE Insert(precedes, f[n - 1], s[n])]

LEMMA SortedBy ==
  ASSUME NEW precedes, NEW s, \E f : IsInserted(f, precedes, s)
  PROVE  \E f : IsInserted(f, precedes, s) /\ InOrder(precedes, s) = f[Len(s)]
<1> DEFINE f == CHOOSE f : IsInserted(f, precedes, s)
<1>1. IsInserted(f, precedes, s)
  BY Zenon
<1>2. InOrder(precedes, s) = f[Len(s)]
  BY Zenon DEF InOrder, IsInserted
<1> QED
  BY <1>1, <1>2, Zenon

LEMMA SortedExists ==
  ASSUME NEW precedes, NEW T, NEW s \in Seq(T)
  PROVE  \E f : IsInserted(f, precedes, s)
<1> DEFINE n == Len(s)
           Q == Seq(T)
           step == [p \in (1 .. n) \X Q |-> Insert(precedes, p[2], s[p[1]])]
<1>1. n \in Nat /\ \A k \in 1 .. n : s[k] \in T
  OBVIOUS
<1>2. \A t \in Q, k \in 1 .. n : Insert(precedes, t, s[k]) \in Q
  BY <1>1, InsertIs, Zenon
<1>3. <<>> \in Q
  OBVIOUS
<1> HIDE DEF n, Q
<1>4. step \in [(1 .. n) \X Q -> Q]
  <2>1. \A p \in (1 .. n) \X Q : p[1] \in 1 .. n /\ p[2] \in Q
    OBVIOUS
  <2>2. \A p \in (1 .. n) \X Q : Insert(precedes, p[2], s[p[1]]) \in Q
    BY ONLY <1>2, <2>1, Zenon
  <2> QED
    BY <2>2
<1>5. \A t \in Q, k \in 1 .. n : step[<<k, t>>] = Insert(precedes, t, s[k])
  OBVIOUS
<1> HIDE DEF step
<1>6. PICK f : IsStepped(f, n, Q, <<>>, step)
  BY <1>1, <1>3, <1>4, SteppedExists, Zenon
<1>7. f \in [0 .. n -> Q] /\ f[0] = <<>> /\ \A k \in 1 .. n : f[k] = step[<<k, f[k - 1]>>]
  BY <1>6, Zenon DEF IsStepped
<1> DEFINE g == [k \in 0 .. n |-> IF k = 0 THEN <<>> ELSE Insert(precedes, f[k - 1], s[k])]
<1>8. \A k \in 0 .. n : f[k] = g[k]
  <2> TAKE k \in 0 .. n
  <2>1. CASE k = 0
    BY <1>7, <2>1
  <2>2. CASE k # 0
    <3>1. k \in 1 .. n /\ k - 1 \in 0 .. n
      BY <1>1, <2>2
    <3>2. f[k - 1] \in Q
      BY <1>7, <3>1
    <3>3. f[k] = Insert(precedes, f[k - 1], s[k])
      BY <1>5, <1>7, <3>1, <3>2
    <3> QED
      BY <2>2, <3>3
  <2> QED
    BY <2>1, <2>2
<1>9. f = g
  <2>1. f = [k \in 0 .. n |-> f[k]] /\ g = [k \in 0 .. n |-> g[k]]
    BY <1>7
  <2> HIDE DEF g
  <2>2. [k \in 0 .. n |-> f[k]] = [k \in 0 .. n |-> g[k]]
    BY <1>8
  <2> QED
    BY <2>1, <2>2
<1> QED
  BY <1>9, Zenon DEF IsInserted, n

\* A sequence in order has the entries it had before.
LEMMA InOrderKeeps ==
  ASSUME NEW precedes, NEW T, NEW s \in Seq(T)
  PROVE  Range(InOrder(precedes, s)) = Range(s)
<1> DEFINE n == Len(s)
           Q == Seq(T)
<1>1. n \in Nat /\ \A k \in 1 .. n : s[k] \in T
  OBVIOUS
<1>2. PICK f : IsInserted(f, precedes, s) /\ InOrder(precedes, s) = f[n]
  BY SortedBy, SortedExists, Zenon
<1> DEFINE E(k) == IF k = 0 THEN <<>> ELSE Insert(precedes, f[k - 1], s[k])
<1>3. f = [k \in 0 .. n |-> E(k)]
  BY ONLY <1>2, Zenon DEF IsInserted
<1>4. <<>> \in Q /\ DOMAIN s = 1 .. n
  OBVIOUS
<1>5. \A t \in Q, k \in 1 .. n :
        /\ Insert(precedes, t, s[k]) \in Q
        /\ \A y : y \in Range(Insert(precedes, t, s[k])) <=> y \in Range(t) \/ y = s[k]
  <2> TAKE t \in Q, k \in 1 .. n
  <2>1. s[k] \in T /\ t \in Seq(T)
    BY <1>1
  <2> DEFINE x == s[k]
  <2> HIDE DEF x
  <2>2. x \in T /\ t \in Seq(T)
    BY ONLY <2>1, Zenon DEF x
  <2>3. Insert(precedes, t, x) \in Seq(T)
    BY ONLY <2>2, InsertIs, Zenon
  <2>4. \A y : y \in Range(Insert(precedes, t, x)) <=> y \in Range(t) \/ y = x
    BY ONLY <2>2, InsertIs, Zenon
  <2> QED
    BY ONLY <2>3, <2>4, Zenon DEF x, Q
<1> HIDE DEF E, n, Q
<1>6. \A k \in 0 .. n : f[k] = E(k)
  BY ONLY <1>3
<1>7. 0 \in 0 .. n /\ \A k \in 1 .. n : k \in 0 .. n /\ k # 0
  BY ONLY <1>1
<1>8. f[0] = <<>> /\ \A k \in 1 .. n : f[k] = Insert(precedes, f[k - 1], s[k])
  BY ONLY <1>6, <1>7, Zenon DEF E
<1> DEFINE S == {k \in 0 .. n : f[k] \in Q /\ Range(f[k]) = {s[i] : i \in 1 .. k}}
<1>9. 0 \in S
  <2>1. Range(<<>>) = {}
    BY DEF Range
  <2> QED
    BY ONLY <1>1, <1>4, <1>8, <2>1
<1>10. ASSUME NEW k \in 1 .. n, k - 1 \in S PROVE k \in S
  <2>1. f[k - 1] \in Q /\ Range(f[k - 1]) = {s[i] : i \in 1 .. k - 1} /\ k \in 0 .. n
    BY <1>7, <1>10
  <2>2. f[k] \in Q /\ \A y : y \in Range(f[k]) <=> y \in Range(f[k - 1]) \/ y = s[k]
    BY ONLY <1>5, <1>8, <2>1, k \in 1 .. n, Zenon
  <2>3. \A i : i \in 1 .. k <=> i \in 1 .. k - 1 \/ i = k
    BY ONLY <1>1, k \in 1 .. n
  <2>4. Range(f[k]) = {s[i] : i \in 1 .. k}
    BY ONLY <2>1, <2>2, <2>3
  <2> QED
    BY ONLY <2>1, <2>2, <2>4
<1>11. n \in S
  <2> HIDE DEF S
  <2>1. \A k \in 0 .. n : k \in S
    BY <1>1, <1>9, <1>10, UpwardFromZero, Zenon
  <2>2. n \in 0 .. n
    BY ONLY <1>1
  <2> QED
    BY ONLY <2>1, <2>2
<1>12. Range(s) = {s[i] : i \in 1 .. n}
  BY ONLY <1>4, Zenon DEF Range
<1> QED
  BY ONLY <1>2, <1>11, <1>12

--------------------------------------------------------------------------------
(* The rows of a record and its values.                                    *)

\* The row of a value.
IsRowOf(row, field, v) ==
  /\ row.field = field /\ row.value = v
  /\ row.sortkey = Fold(SortTable, v) /\ row.findkey = Fold(SearchTable, v)

\* What a record has under a key, as a list of texts.
LEMMA ListIs ==
  ASSUME NEW rec, GoodRecord(rec), NEW field
  PROVE  /\ ListOf(rec, field) \in Seq(Chars)
         /\ First(rec, field) = IF Len(ListOf(rec, field)) = 0 THEN <<>> ELSE ListOf(rec, field)[1]
<1> DEFINE L == ListOf(rec, field)
<1>1. L \in Seq(Chars)
  <2>1. CASE field \in KeysOf(rec)
    <3>1. PICK raw \in Chars : L = EntryFrom(field, Trim(raw)).values
      BY <2>1, OldValues
    <3> DEFINE e == EntryFrom(field, Trim(raw))
    <3>2. e.values \in Seq(Chars)
      BY ValuesAre
    <3> QED
      BY ONLY <3>1, <3>2, Zenon
  <2>2. CASE field \notin KeysOf(rec)
    <3>1. L = <<>>
      BY <2>2, Zenon DEF ListOf
    <3>2. <<>> \in Seq(Chars)
      OBVIOUS
    <3> QED
      BY ONLY <3>1, <3>2, Zenon
  <2> QED
    BY ONLY <2>1, <2>2
<1>2. First(rec, field) = IF L = <<>> THEN <<>> ELSE Head(L)
  BY Zenon DEF First
<1> HIDE DEF L
<1>3. (L = <<>> <=> Len(L) = 0) /\ (L # <<>> => Head(L) = L[1])
  BY ONLY <1>1
<1> QED
  BY ONLY <1>1, <1>2, <1>3, Zenon DEF L

\* The rows of a record under a field are those of its values there.
LEMMA RowsAre ==
  ASSUME NEW rec, GoodRecord(rec), NEW field
  PROVE  /\ \A row \in FieldRows(rec) : row.field = field =>
              \E j \in 1 .. Len(ListOf(rec, field)) : IsRowOf(row, field, ListOf(rec, field)[j])
         /\ \A j \in 1 .. Len(ListOf(rec, field)) :
              \E row \in FieldRows(rec) : IsRowOf(row, field, ListOf(rec, field)[j])
<1> DEFINE es == rec.fields
           n == Len(es)
           L == ListOf(rec, field)
<1>1. /\ n \in Nat /\ DOMAIN es = 1 .. n /\ \A i, j \in 1 .. n : es[i].key = es[j].key => i = j
  <2>1. n \in Nat /\ es = [i \in 1 .. n |-> es[i]] /\ \A i, j \in 1 .. n : es[i].key = es[j].key => i = j
    BY Zenon DEF GoodRecord, AreGood
  <2>2. DOMAIN es = 1 .. n
    BY ONLY <2>1, Zenon
  <2> QED
    BY ONLY <2>1, <2>2, Zenon
<1>2. KeysOf(rec) = {es[i].key : i \in 1 .. n} /\ \A i \in 1 .. n : ListOf(rec, es[i].key) = es[i].values
  BY ONLY <1>1, ListAt
<1>3. L \in Seq(Chars) /\ \A i \in 1 .. n : es[i].values \in Seq(Chars)
  <2>1. \A key : ListOf(rec, key) \in Seq(Chars)
    BY ListIs
  <2> QED
    BY ONLY <1>2, <2>1, Zenon
<1>4. \A p : p \in Positions(rec) <=> \E i \in 1 .. n : \E j \in 1 .. Len(es[i].values) : p = <<i, j>>
  <2>1. \A i \in 1 .. n : DOMAIN es[i].values = 1 .. Len(es[i].values)
    <3> TAKE i \in 1 .. n
    <3> DEFINE v == es[i].values
    <3>1. v \in Seq(Chars)
      BY <1>3
    <3> HIDE DEF v
    <3>2. DOMAIN v = 1 .. Len(v)
      BY ONLY <3>1
    <3> QED
      BY ONLY <3>2, Zenon DEF v
  <2> DEFINE D(i) == DOMAIN es[i].values
  <2>2. \A i \in 1 .. n : D(i) = 1 .. Len(es[i].values)
    BY ONLY <2>1, Zenon
  <2>3. Positions(rec) = UNION {{i} \X D(i) : i \in 1 .. n}
    BY ONLY <1>1, Zenon DEF Positions
  <2> HIDE DEF D, n
  <2>4. \A p : p \in Positions(rec) <=> \E i \in 1 .. n : p \in {i} \X D(i)
    BY ONLY <2>3
  <2>5. \A p, i : p \in {i} \X D(i) <=> \E j \in D(i) : p = <<i, j>>
    BY ONLY SMT
  <2>6. ASSUME NEW p, NEW i \in 1 .. n, NEW j \in D(i)
        PROVE  j \in 1 .. Len(es[i].values)
    BY ONLY <2>2, i \in 1 .. n, j \in D(i), Zenon
  <2>7. ASSUME NEW p, p \in Positions(rec)
        PROVE  \E i \in 1 .. n : \E j \in 1 .. Len(es[i].values) : p = <<i, j>>
    <3>1. PICK i \in 1 .. n : p \in {i} \X D(i)
      BY ONLY <2>4, <2>7, Zenon
    <3>2. PICK j \in D(i) : p = <<i, j>>
      BY ONLY <3>1, SMT
    <3>3. j \in 1 .. Len(es[i].values)
      BY ONLY <2>6, <3>2, i \in 1 .. n, j \in D(i), Zenon
    <3> QED
      BY ONLY <3>2, <3>3, i \in 1 .. n, Zenon
  <2>8. ASSUME NEW p, NEW i \in 1 .. n, NEW j \in 1 .. Len(es[i].values), p = <<i, j>>
        PROVE  p \in Positions(rec)
    <3>1. j \in D(i)
      BY ONLY <2>2, i \in 1 .. n, j \in 1 .. Len(es[i].values), Zenon
    <3>2. p \in {i} \X D(i)
      BY ONLY <2>5, <2>8, <3>1, Zenon
    <3> QED
      BY ONLY <2>4, <3>2, i \in 1 .. n, Zenon
  <2> QED
    BY ONLY <2>7, <2>8, Zenon
<1> HIDE DEF n, L
<1>5. \A i \in 1 .. n : \A j : IsRowOf(RowAt(rec, <<i, j>>), es[i].key, es[i].values[j])
  <2> TAKE i \in 1 .. n
  <2> TAKE j
  <2> DEFINE p == <<i, j>>
             v == es[p[1]].values[p[2]]
             k == es[p[1]].key
             s == p[2] - 1
             a == Fold(SortTable, v)
             b == Fold(SearchTable, v)
  <2>1. RowAt(rec, p) = [field |-> k, seq |-> s, value |-> v, sortkey |-> a, findkey |-> b]
    BY ONLY Zenon DEF RowAt
  <2>2. v = es[i].values[j] /\ k = es[i].key
    BY ONLY Zenon
  <2>3. a = Fold(SortTable, v) /\ b = Fold(SearchTable, v)
    BY ONLY Zenon
  <2> HIDE DEF p, v, k, s, a, b, es
  <2> DEFINE r == RowAt(rec, p)
  <2>4. r.field = k /\ r.value = v /\ r.sortkey = a /\ r.findkey = b
    BY ONLY <2>1
  <2> HIDE DEF r
  <2>5. IsRowOf(r, k, v)
    BY ONLY <2>3, <2>4, Zenon DEF IsRowOf
  <2> QED
    BY ONLY <2>2, <2>5, Zenon DEF r, p
<1>6. ASSUME NEW row \in FieldRows(rec), row.field = field
      PROVE  \E j \in 1 .. Len(L) : IsRowOf(row, field, L[j])
  <2>1. PICK p \in Positions(rec) : row = RowAt(rec, p)
    BY ONLY <1>6, Zenon DEF FieldRows, RowsAt
  <2>2. PICK i \in 1 .. n : \E j \in 1 .. Len(es[i].values) : p = <<i, j>>
    BY ONLY <1>4, <2>1, Zenon
  <2>3. PICK j \in 1 .. Len(es[i].values) : p = <<i, j>>
    BY ONLY <2>2
  <2>4. IsRowOf(row, es[i].key, es[i].values[j])
    BY ONLY <1>5, <2>1, <2>3, i \in 1 .. n, Zenon
  <2>5. es[i].key = field
    BY ONLY <1>6, <2>4, Zenon DEF IsRowOf
  <2>6. L = es[i].values
    BY ONLY <1>2, <2>5, i \in 1 .. n, Zenon DEF L
  <2> QED
    BY ONLY <2>3, <2>4, <2>5, <2>6, j \in 1 .. Len(es[i].values), Zenon
<1>7. ASSUME NEW j \in 1 .. Len(L)
      PROVE  \E row \in FieldRows(rec) : IsRowOf(row, field, L[j])
  <2>1. field \in KeysOf(rec)
    <3>1. field \notin KeysOf(rec) => L = <<>>
      BY ONLY Zenon DEF ListOf, L
    <3>2. L # <<>>
      BY ONLY <1>3, j \in 1 .. Len(L)
    <3> QED
      BY ONLY <3>1, <3>2
  <2>2. PICK i \in 1 .. n : es[i].key = field
    BY ONLY <1>2, <2>1, Zenon
  <2>3. L = es[i].values
    BY ONLY <1>2, <2>2, i \in 1 .. n, Zenon DEF L
  <2>4. <<i, j>> \in Positions(rec)
    BY ONLY <1>4, <2>3, i \in 1 .. n, j \in 1 .. Len(L), Zenon
  <2>5. RowAt(rec, <<i, j>>) \in FieldRows(rec)
    BY ONLY <2>4, Zenon DEF FieldRows, RowsAt
  <2>6. IsRowOf(RowAt(rec, <<i, j>>), field, L[j])
    BY ONLY <1>5, <2>2, <2>3, i \in 1 .. n, Zenon
  <2> QED
    BY ONLY <2>5, <2>6, Zenon
<1> QED
  BY ONLY <1>6, <1>7, Zenon DEF L

\* A row matches as its value does.
LEMMA RowMatchesValue ==
  ASSUME NEW f, NEW row, NEW field, NEW v, IsRowOf(row, field, v)
  PROVE  RowMatches(f, row) <=> ValueMatches(f, v)
BY ONLY IsRowOf(row, field, v), Zenon DEF IsRowOf, RowMatches, ValueMatches, HasInside, StartsWith

\* A record the index finds is found by its file, too, and the other way, unless
\* the absence of a field with several values is asked for.
LEMMA FilterAgrees ==
  ASSUME NEW id, NEW rec, GoodRecord(rec), fields[id] = FieldRows(rec), NEW f
  PROVE  /\ SqlFilter(f, id) => FilterMatches(f, rec)
         /\ FilterMatches(f, rec) /\ (f.op # "absent" \/ Len(ListOf(rec, f.field)) <= 1)
            => SqlFilter(f, id)
<1> DEFINE L == ListOf(rec, f.field)
           R == RowsWith(id, f.field)
<1>1. L \in Seq(Chars) /\ First(rec, f.field) = IF Len(L) = 0 THEN <<>> ELSE L[1]
  BY ListIs
<1>2. \A row : row \in R <=> row \in FieldRows(rec) /\ row.field = f.field
  BY Zenon DEF RowsWith
<1>3. \A row \in R : \E j \in 1 .. Len(L) : IsRowOf(row, f.field, L[j])
  <2>1. \A row \in FieldRows(rec) : row.field = f.field =>
          \E j \in 1 .. Len(L) : IsRowOf(row, f.field, L[j])
    BY ONLY GoodRecord(rec), RowsAre, Zenon
  <2> QED
    BY ONLY <1>2, <2>1, Zenon
<1>4. \A j \in 1 .. Len(L) : \E row \in R : IsRowOf(row, f.field, L[j])
  <2>1. \A j \in 1 .. Len(L) : \E row \in FieldRows(rec) : IsRowOf(row, f.field, L[j])
    BY ONLY GoodRecord(rec), RowsAre, Zenon
  <2> QED
    BY ONLY <1>2, <2>1, Zenon DEF IsRowOf
<1>5. DOMAIN L = 1 .. Len(L) /\ Len(L) \in Nat
  BY ONLY <1>1
<1> HIDE DEF L, R
<1>6. CASE f.op = "absent"
  <2>1. SqlFilter(f, id) <=> \A row \in R : row.value = <<>>
    BY ONLY <1>6, Zenon DEF SqlFilter, R
  <2>2. FilterMatches(f, rec) <=> First(rec, f.field) = <<>>
    BY ONLY <1>6, Zenon DEF FilterMatches
  <2>3. (\A row \in R : row.value = <<>>) <=> \A j \in 1 .. Len(L) : L[j] = <<>>
    BY ONLY <1>3, <1>4, Zenon DEF IsRowOf
  <2>4. (\A j \in 1 .. Len(L) : L[j] = <<>>) => First(rec, f.field) = <<>>
    BY ONLY <1>1, <1>5
  <2>5. First(rec, f.field) = <<>> /\ Len(L) <= 1 => \A j \in 1 .. Len(L) : L[j] = <<>>
    <3> SUFFICES ASSUME First(rec, f.field) = <<>>, Len(L) <= 1, NEW j \in 1 .. Len(L)
                 PROVE  L[j] = <<>>
      OBVIOUS
    <3>1. j = 1 /\ Len(L) # 0
      BY ONLY <1>5, Len(L) <= 1, j \in 1 .. Len(L)
    <3> QED
      BY ONLY <1>1, <3>1, First(rec, f.field) = <<>>
  <2> QED
    BY ONLY <2>4, <2>5, <1>6, <2>1, <2>2, <2>3, Zenon DEF L
<1>7. CASE f.op # "absent"
  <2>1. SqlFilter(f, id) <=> \E row \in R : RowMatches(f, row)
    BY ONLY <1>7, Zenon DEF SqlFilter, R
  <2>2. FilterMatches(f, rec) <=> \E j \in 1 .. Len(L) : ValueMatches(f, L[j])
    BY ONLY <1>5, <1>7, Zenon DEF FilterMatches, L
  <2>3. \A row, v : IsRowOf(row, f.field, v) => (RowMatches(f, row) <=> ValueMatches(f, v))
    BY ONLY RowMatchesValue
  <2>4. (\E row \in R : RowMatches(f, row)) <=> \E j \in 1 .. Len(L) : ValueMatches(f, L[j])
    BY ONLY <1>3, <1>4, <2>3, Zenon
  <2> QED
    BY ONLY <2>1, <2>2, <2>4, Zenon
<1> QED
  BY ONLY <1>6, <1>7

--------------------------------------------------------------------------------
(* The words of a record.                                                  *)

\* Sequences one behind the other.
IsFlat(F, s) == F = [i \in 1 .. Len(s) |-> IF i = 1 THEN s[i] ELSE F[i - 1] \o s[i]]

LEMMA FlatBy ==
  ASSUME NEW s, Len(s) # 0, \E F : IsFlat(F, s)
  PROVE  \E F : IsFlat(F, s) /\ FlattenSeq(s) = F[Len(s)]
<1> DEFINE F == CHOOSE F : IsFlat(F, s)
<1>1. IsFlat(F, s)
  BY Zenon
<1>2. FlattenSeq(s) = F[Len(s)]
  BY Zenon DEF FlattenSeq, IsFlat
<1> QED
  BY <1>1, <1>2, Zenon

LEMMA FlatIs ==
  ASSUME NEW B, NEW s, Len(s) \in Nat, \A k \in 1 .. Len(s) : s[k] \in Seq(B), Len(s) = 0 => s = <<>>
  PROVE  FlattenSeq(s) \in Seq(B)
<1> DEFINE n == Len(s)
           T == Seq(B)
<1> HIDE DEF n, T
<1>1. n \in Nat /\ (\A k \in 1 .. n : s[k] \in T) /\ (\A t \in T : <<>> \o t = t)
        /\ <<>> \in T /\ \A a, b \in T : a \o b \in T
  <2>1. \A t \in Seq(B) : <<>> \o t = t
    OBVIOUS
  <2>2. \A a, b \in Seq(B) : a \o b \in Seq(B)
    BY ConcatProperties
  <2>3. <<>> \in Seq(B)
    OBVIOUS
  <2> QED
    BY <2>1, <2>2, <2>3, Zenon DEF n, T
<1>2. CASE n = 0
  BY <1>1, <1>2, Zenon DEF FlattenSeq, n, T
<1>3. CASE n # 0
  <2>1. PICK f : IsChain(f, n, B, s)
    BY <1>1, ChainExists, Zenon DEF T
  <2>2. f \in [0 .. n -> T] /\ f[0] = <<>> /\ \A k \in 1 .. n : f[k] = f[k - 1] \o s[k]
    BY ONLY <2>1, Zenon DEF IsChain, T
  <2>3. \E F : IsFlat(F, s)
    <3> DEFINE F == [i \in 1 .. n |-> f[i]]
    <3>1. \A i \in 1 .. n : F[i] = IF i = 1 THEN s[i] ELSE F[i - 1] \o s[i]
      <4> TAKE i \in 1 .. n
      <4>1. CASE i = 1
        <5>1. F[i] = f[i] /\ f[i] = f[i - 1] \o s[i] /\ s[i] \in T
          BY ONLY <1>1, <2>2, i \in 1 .. n, Zenon
        <5>2. f[i - 1] = <<>>
          BY ONLY <2>2, <4>1
        <5>3. <<>> \o s[i] = s[i]
          BY ONLY <1>1, <5>1, Zenon
        <5> QED
          BY ONLY <4>1, <5>1, <5>2, <5>3, Zenon
      <4>2. CASE i # 1
        <5>1. i - 1 \in 1 .. n
          BY ONLY <1>1, <4>2, i \in 1 .. n
        <5>2. F[i - 1] = f[i - 1] /\ F[i] = f[i]
          BY ONLY <5>1, i \in 1 .. n, Zenon
        <5>3. f[i] = f[i - 1] \o s[i]
          BY ONLY <2>2, i \in 1 .. n, Zenon
        <5> QED
          BY ONLY <5>2, <5>3, <4>2, Zenon
      <4> QED
        BY ONLY <4>1, <4>2
    <3>2. F = [i \in 1 .. n |-> F[i]]
      OBVIOUS
    <3> HIDE DEF F
    <3>3. [i \in 1 .. n |-> F[i]] = [i \in 1 .. n |-> IF i = 1 THEN s[i] ELSE F[i - 1] \o s[i]]
      BY ONLY <3>1
    <3>4. F = [i \in 1 .. n |-> IF i = 1 THEN s[i] ELSE F[i - 1] \o s[i]]
      BY ONLY <3>2, <3>3, Zenon
    <3> QED
      BY ONLY <3>4, Zenon DEF IsFlat, n
  <2>4. PICK F : IsFlat(F, s) /\ FlattenSeq(s) = F[n]
    BY <1>3, <2>3, FlatBy, Zenon DEF n
  <2>5. \A i \in 1 .. n : F[i] = IF i = 1 THEN s[i] ELSE F[i - 1] \o s[i]
    <3>1. F = [i \in 1 .. n |-> IF i = 1 THEN s[i] ELSE F[i - 1] \o s[i]]
      BY ONLY <2>4, Zenon DEF IsFlat, n
    <3> QED
      BY ONLY <3>1, Zenon
  <2> DEFINE S == {k \in 0 .. n : k = 0 \/ F[k] \in T}
  <2>6. 0 \in S
    BY ONLY <1>1
  <2>7. ASSUME NEW k \in 1 .. n, k - 1 \in S
        PROVE  k \in S
    <3>1. k - 1 = 0 \/ F[k - 1] \in T
      BY <2>7
    <3>2. s[k] \in T /\ F[k] = IF k = 1 THEN s[k] ELSE F[k - 1] \o s[k]
      BY ONLY <1>1, <2>5, k \in 1 .. n, Zenon
    <3>3. F[k] \in T
      <4>1. CASE k = 1
        BY ONLY <3>2, <4>1
      <4>2. CASE k # 1
        <5>1. F[k - 1] \in T
          BY ONLY <3>1, <4>2, k \in 1 .. n
        <5> QED
          BY ONLY <1>1, <3>2, <4>2, <5>1, Zenon
      <4> QED
        BY ONLY <4>1, <4>2
    <3> QED
      BY <3>3
  <2> HIDE DEF S
  <2>8. n \in S
    <3>1. \A k \in 0 .. n : k \in S
      BY ONLY <1>1, <2>6, <2>7, UpwardFromZero, Zenon
    <3>2. n \in 0 .. n
      BY ONLY <1>1
    <3> QED
      BY ONLY <3>1, <3>2, Zenon
  <2>9. F[n] \in T
    BY ONLY <1>3, <2>8 DEF S
  <2> QED
    BY ONLY <2>4, <2>9, Zenon DEF T
<1> QED
  BY <1>2, <1>3

\* What the table fulltext has of a record is made of texts.
LEMMA TextsAreChars ==
  ASSUME NEW rec, GoodRecord(rec)
  PROVE  Values(rec) \in Seq(Chars) /\ BodyTexts(rec) \in Seq(Chars)
<1> DEFINE es == rec.fields
           vs == [i \in DOMAIN es |-> es[i].values]
           body == rec.body
           ls == [i \in DOMAIN body |-> LettersOf(body[i])]
<1>1. Values(rec) = FlattenSeq(vs) /\ BodyTexts(rec) = FlattenSeq(ls)
  BY Zenon DEF Values, BodyTexts
<1>2. /\ Len(es) \in Nat /\ es = [i \in 1 .. Len(es) |-> es[i]]
      /\ \A i \in 1 .. Len(es) : \E raw \in Chars : es[i] = EntryFrom(es[i].key, Trim(raw))
  BY Zenon DEF GoodRecord, AreGood
<1>3. body \in Seq(AnyLine)
  BY Zenon DEF GoodRecord
<1> HIDE DEF es, body
<1>4. FlattenSeq(vs) \in Seq(Chars)
  <2>1. \A i \in 1 .. Len(es) : es[i].values \in Seq(Chars)
    <3> TAKE i \in 1 .. Len(es)
    <3>1. PICK raw \in Chars : es[i] = EntryFrom(es[i].key, Trim(raw))
      BY ONLY <1>2, Zenon
    <3> DEFINE e == EntryFrom(es[i].key, Trim(raw))
    <3>2. e.values \in Seq(Chars)
      BY ValuesAre
    <3> QED
      BY ONLY <3>1, <3>2, Zenon
  <2>2. DOMAIN es = 1 .. Len(es)
    BY ONLY <1>2, Zenon
  <2>3. vs = [i \in 1 .. Len(es) |-> es[i].values]
    BY ONLY <2>2, Zenon
  <2> HIDE DEF vs
  <2> DEFINE A == Seq(Chars)
  <2> HIDE DEF A
  <2>4. vs \in [1 .. Len(es) -> A]
    BY ONLY <2>1, <2>3 DEF A
  <2>5. Len(vs) = Len(es) /\ Len(vs) \in Nat /\ (\A k \in 1 .. Len(vs) : vs[k] \in A) /\ (Len(vs) = 0 => vs = <<>>)
    BY ONLY <1>2, <2>4
  <2> QED
    BY ONLY <2>5, FlatIs, Zenon DEF A
<1>5. FlattenSeq(ls) \in Seq(Chars)
  <2>1. \A line \in AnyLine : LettersOf(line) \in Seq(Chars)
    <3> TAKE line \in AnyLine
    <3>1. CASE line.kind \in {"text", "field"}
      <4>1. line.raw \in Chars
        BY <3>1 DEF AnyLine, LinesOf, Chars, Fence, Blank
      <4>2. LettersOf(line) = <<line.raw>>
        BY <3>1, Zenon DEF LettersOf
      <4> QED
        BY ONLY <4>1, <4>2
    <3>2. CASE line.kind \notin {"text", "field"}
      BY <3>2 DEF LettersOf
    <3> QED
      BY <3>1, <3>2
  <2> DEFINE n == Len(body)
             A == Seq(Chars)
  <2>2. n \in Nat /\ DOMAIN body = 1 .. n /\ \A i \in 1 .. n : body[i] \in AnyLine
    BY ONLY <1>3
  <2>3. ls = [i \in 1 .. n |-> LettersOf(body[i])]
    BY ONLY <2>2, Zenon
  <2> HIDE DEF ls, n, A
  <2>4. ls \in [1 .. n -> A]
    BY ONLY <2>1, <2>2, <2>3 DEF A
  <2>5. Len(ls) \in Nat /\ (\A k \in 1 .. Len(ls) : ls[k] \in A) /\ (Len(ls) = 0 => ls = <<>>)
    BY ONLY <2>2, <2>4
  <2> QED
    BY ONLY <2>5, FlatIs, Zenon DEF A
<1> QED
  BY ONLY <1>1, <1>4, <1>5, Zenon

\* A word that fts5 finds in a text is found in it by a search, too.
LEMMA WordIsInside ==
  ASSUME NEW s \in Chars, NEW word \in Chars, NEW at \in WordsIn(s),
         Fold(WordTable, word) = Fold(WordTable, SubSeq(s, at[1], at[2]))
  PROVE  HasInside(SearchTable, s, word)
<1>1. at \in (DOMAIN s) \X (DOMAIN s) /\ at[1] <= at[2]
  BY DEF WordsIn
<1> DEFINE i == at[1]
           j == at[2]
           w == SubSeq(s, i, j)
<1>2. Len(s) \in Nat /\ DOMAIN s = 1 .. Len(s)
  BY TextIs
<1>3. i \in 1 .. Len(s) /\ j \in i .. Len(s) /\ Fold(WordTable, word) = Fold(WordTable, w)
  BY <1>1, <1>2
<1> HIDE DEF i, j
<1>4. w \in Chars
  BY <1>2, <1>3, PartIs
<1> HIDE DEF w
<1>5. Fold(SearchTable, word) = Fold(SearchTable, w)
  BY ONLY <1>3, <1>4, word \in Chars, FoldsTogether
<1>6. HasInside(SearchTable, s, w)
  BY ONLY <1>3, s \in Chars, TablesAre, FoldOfPart DEF w
<1> QED
  BY ONLY <1>5, <1>6, Zenon DEF HasInside

\* A word of a text says a text.
LEMMA WordIsText ==
  ASSUME NEW s \in Chars, NEW at \in WordsIn(s)
  PROVE  SubSeq(s, at[1], at[2]) \in Chars
<1>1. at \in (DOMAIN s) \X (DOMAIN s) /\ at[1] <= at[2]
  BY DEF WordsIn
<1> DEFINE i == at[1]
           j == at[2]
<1>2. Len(s) \in Nat /\ DOMAIN s = 1 .. Len(s)
  BY TextIs
<1>3. i \in 1 .. Len(s) /\ j \in i .. Len(s)
  BY <1>1, <1>2
<1> HIDE DEF i, j
<1>4. SubSeq(s, i, j) \in Chars
  BY <1>2, <1>3, PartIs
<1> QED
  BY ONLY <1>4, Zenon DEF i, j

\* The parts of a text are the words of its lines.
LEMMA PartIsWord ==
  ASSUME NEW text, NEW p \in Parts(text)
  PROVE  \E n \in DOMAIN text : \E at \in WordsIn(text[n]) :
           Said(text, p) = SubSeq(text[n], at[1], at[2])
<1>1. PICK n \in DOMAIN text : \E at \in WordsIn(text[n]) : p = <<n, at[1], at[2]>>
  BY Zenon DEF Parts
<1>2. PICK at \in WordsIn(text[n]) : p = <<n, at[1], at[2]>>
  BY <1>1
<1>3. p[1] = n /\ p[2] = at[1] /\ p[3] = at[2]
  BY ONLY <1>2
<1>4. Said(text, p) = SubSeq(text[n], at[1], at[2])
  BY ONLY <1>3, Zenon DEF Said
<1> QED
  BY <1>4, Zenon

\* What the index finds by a word, the way through the records finds by its parts.
LEMMA WordAgrees ==
  ASSUME NEW id, NEW rec, GoodRecord(rec), fulltext[id] = <<FullText(rec)>>,
         NEW word \in Chars, SqlWord(word, id), NEW p \in Parts(<<word>>)
  PROVE  HasWord(rec, Said(<<word>>, p))
<1> DEFINE u == Values(rec)
           v == BodyTexts(rec)
           t == u \o v
           T == <<t>>
           part == Said(<<word>>, p)
<1>1. u \in Seq(Chars) /\ v \in Seq(Chars)
  BY TextsAreChars
<1>2. FullText(rec) = t
  BY Zenon DEF FullText
<1>3. \E i \in DOMAIN T : HasPhrase(T[i], word)
  BY <1>2, Zenon DEF SqlWord
<1>4. part \in Chars
  <2>1. PICK n \in DOMAIN <<word>> : \E at \in WordsIn(<<word>>[n]) :
          part = SubSeq(<<word>>[n], at[1], at[2])
    BY PartIsWord, Zenon
  <2>2. <<word>>[n] = word
    OBVIOUS
  <2>3. PICK at \in WordsIn(word) : part = SubSeq(word, at[1], at[2])
    BY ONLY <2>1, <2>2, Zenon
  <2>4. SubSeq(word, at[1], at[2]) \in Chars
    BY ONLY word \in Chars, at \in WordsIn(word), WordIsText, Zenon
  <2> QED
    BY ONLY <2>3, <2>4, Zenon
<1> HIDE DEF u, v
<1>5. \A i \in DOMAIN T : T[i] = t
  BY ONLY SMT
<1> HIDE DEF T
<1>6. HasPhrase(t, word)
  BY ONLY <1>3, <1>5, Zenon
<1> HIDE DEF t, part
<1>7. PICK place \in [Parts(<<word>>) -> Parts(t)] :
        \A o \in Parts(<<word>>) : Fold(WordTable, Said(<<word>>, o))
                                     = Fold(WordTable, Said(t, place[o]))
  BY ONLY <1>6, Zenon DEF HasPhrase
<1>8. place[p] \in Parts(t) /\ Fold(WordTable, part) = Fold(WordTable, Said(t, place[p]))
  BY ONLY <1>7, p \in Parts(<<word>>), Zenon DEF part
<1>9. PICK j \in DOMAIN t : \E at \in WordsIn(t[j]) :
        Said(t, place[p]) = SubSeq(t[j], at[1], at[2])
  BY ONLY <1>8, PartIsWord, Zenon
<1>10. PICK at \in WordsIn(t[j]) : Said(t, place[p]) = SubSeq(t[j], at[1], at[2])
  BY <1>9
<1>11. \/ j \in DOMAIN u /\ t[j] = u[j]
       \/ \E k \in DOMAIN v : t[j] = v[k]
  BY ONLY <1>1, j \in DOMAIN t DEF t
<1>12. t[j] \in Chars
  BY ONLY <1>1, <1>11
<1>13. HasInside(SearchTable, t[j], part)
  <2>1. Fold(WordTable, part) = Fold(WordTable, SubSeq(t[j], at[1], at[2]))
    BY ONLY <1>8, <1>10, Zenon
  <2> DEFINE s == t[j]
  <2>2. s \in Chars /\ at \in WordsIn(s) /\ Fold(WordTable, part) = Fold(WordTable, SubSeq(s, at[1], at[2]))
    BY <1>12, <2>1, Zenon
  <2> HIDE DEF s
  <2>3. HasInside(SearchTable, s, part)
    BY ONLY <1>4, <2>2, WordIsInside, Zenon
  <2> QED
    BY ONLY <2>3, Zenon DEF s
<1> QED
  BY ONLY <1>11, <1>13, Zenon DEF HasWord, u, v, part

--------------------------------------------------------------------------------
(* The order of two records.                                               *)

\* The keys by which the index orders a record with one value at most.
LEMMA KeysOfRecord ==
  ASSUME NEW q, NEW id, NEW rec, GoodRecord(rec), fields[id] = FieldRows(rec),
         Len(ListOf(rec, q.order)) <= 1
  PROVE  /\ First(rec, q.order) \in Chars
         /\ HasValue(q, id) <=> First(rec, q.order) # <<>>
         /\ SortKeys(q, id) = {} <=> ListOf(rec, q.order) = <<>>
         /\ ListOf(rec, q.order) = <<>> => First(rec, q.order) = <<>>
         /\ ListOf(rec, q.order) # <<>> =>
              LeastKey(q, id) = Fold(SortTable, First(rec, q.order))
<1> DEFINE L == ListOf(rec, q.order)
           v == First(rec, q.order)
           R == RowsWith(id, q.order)
           K == SortKeys(q, id)
<1>1. L \in Seq(Chars) /\ v = IF Len(L) = 0 THEN <<>> ELSE L[1]
  BY ListIs
<1>2. \A row : row \in R <=> row \in FieldRows(rec) /\ row.field = q.order
  BY Zenon DEF RowsWith
<1>3. \A row \in R : \E j \in 1 .. Len(L) : IsRowOf(row, q.order, L[j])
  <2>1. \A row \in FieldRows(rec) : row.field = q.order =>
          \E j \in 1 .. Len(L) : IsRowOf(row, q.order, L[j])
    BY ONLY GoodRecord(rec), RowsAre, Zenon
  <2> QED
    BY ONLY <1>2, <2>1, Zenon
<1>4. \A j \in 1 .. Len(L) : \E row \in R : IsRowOf(row, q.order, L[j])
  <2>1. \A j \in 1 .. Len(L) : \E row \in FieldRows(rec) : IsRowOf(row, q.order, L[j])
    BY ONLY GoodRecord(rec), RowsAre, Zenon
  <2> QED
    BY ONLY <1>2, <2>1, Zenon DEF IsRowOf
<1>5. HasValue(q, id) <=> \E row \in R : row.value # <<>>
  BY Zenon DEF HasValue
<1>6. \A key : key \in K <=> \E row \in R : key = row.sortkey
  BY Zenon DEF SortKeys
<1>7. LeastKey(q, id) = CHOOSE key \in K : \A other \in K : ~Before(other, key)
  BY Zenon DEF LeastKey
<1>8. Len(L) \in Nat /\ Len(L) <= 1
  BY <1>1
<1> HIDE DEF L, v, R, K
<1>9. CASE Len(L) = 0
  <2>1. v = <<>> /\ L = <<>>
    BY ONLY <1>1, <1>9
  <2>2. \A row : row \notin R
    BY ONLY <1>3, <1>9
  <2>3. ~HasValue(q, id) /\ K = {}
    BY ONLY <1>5, <1>6, <2>2, Zenon
  <2> QED
    BY ONLY <2>1, <2>3, NoText, Zenon DEF L, v, K
<1>10. CASE Len(L) # 0
  <2>1. Len(L) = 1 /\ L # <<>> /\ v = L[1] /\ v \in Chars
    <3>1. Len(L) = 1 /\ L # <<>>
      BY ONLY <1>8, <1>10
    <3>2. v = L[1]
      BY ONLY <1>1, <1>10, Zenon
    <3>3. L[1] \in Chars
      BY ONLY <1>1, <3>1
    <3> QED
      BY ONLY <3>1, <3>2, <3>3
  <2>2. \A row \in R : IsRowOf(row, q.order, v)
    <3> TAKE row \in R
    <3>1. PICK j \in 1 .. Len(L) : IsRowOf(row, q.order, L[j])
      BY ONLY <1>3
    <3>2. j = 1
      BY ONLY <2>1
    <3> QED
      BY ONLY <2>1, <3>1, <3>2, Zenon
  <2>3. PICK first \in R : IsRowOf(first, q.order, v)
    <3>1. 1 \in 1 .. Len(L)
      BY ONLY <2>1
    <3> QED
      BY ONLY <1>4, <2>1, <3>1, Zenon
  <2>4. HasValue(q, id) <=> v # <<>>
    BY ONLY <1>5, <2>2, <2>3, Zenon DEF IsRowOf
  <2> DEFINE key == Fold(SortTable, v)
  <2>5. \A k : k \in K <=> k = key
    BY ONLY <1>6, <2>2, <2>3, Zenon DEF IsRowOf
  <2>6. ~Before(key, key)
    <3>1. key \in Chars
      BY <2>1, TablesAre, FoldIsText
    <3> QED
      BY <3>1, BeforeIsStrict
  <2> HIDE DEF key
  <2>7. \E k \in K : \A other \in K : ~Before(other, k)
    <3>1. key \in K
      BY ONLY <2>5, Zenon
    <3>2. \A other \in K : ~Before(other, key)
      BY ONLY <2>5, <2>6
    <3> QED
      BY ONLY <3>1, <3>2, Zenon
  <2>8. (CHOOSE k \in K : \A other \in K : ~Before(other, k)) = key
    BY ONLY <2>5, <2>7, Zenon
  <2>9. LeastKey(q, id) = key
    BY ONLY <1>7, <2>8, Zenon
  <2>10. K # {}
    BY ONLY <2>5
  <2> QED
    BY ONLY <2>1, <2>4, <2>9, <2>10, Zenon DEF L, v, K, key
<1> QED
  BY ONLY <1>9, <1>10

\* The index orders two records as the way through the records does.
LEMMA OrderAgrees ==
  ASSUME NEW q, NEW a, NEW b, NEW ra, NEW rb, GoodRecord(ra), GoodRecord(rb),
         fields[a] = FieldRows(ra), fields[b] = FieldRows(rb),
         Len(ListOf(ra, q.order)) <= 1, Len(ListOf(rb, q.order)) <= 1,
         Fold(SortTable, First(ra, q.order)) = Fold(SortTable, First(rb, q.order))
           => ListOf(ra, q.order) = ListOf(rb, q.order)
  PROVE  SqlPrecedes(q, a, b) <=> Precedes(q, ra, rb)
<1> DEFINE la == ListOf(ra, q.order)
           lb == ListOf(rb, q.order)
           va == First(ra, q.order)
           vb == First(rb, q.order)
           fa == Fold(SortTable, va)
           fb == Fold(SortTable, vb)
<1>1. /\ va \in Chars /\ (HasValue(q, a) <=> va # <<>>) /\ (SortKeys(q, a) = {} <=> la = <<>>)
      /\ (la = <<>> => va = <<>>) /\ (la # <<>> => LeastKey(q, a) = fa)
  BY KeysOfRecord
<1>2. /\ vb \in Chars /\ (HasValue(q, b) <=> vb # <<>>) /\ (SortKeys(q, b) = {} <=> lb = <<>>)
      /\ (lb = <<>> => vb = <<>>) /\ (lb # <<>> => LeastKey(q, b) = fb)
  BY KeysOfRecord
<1>3. fa = fb => la = lb /\ va = vb
  BY Zenon DEF First
<1>4. ~Before(va, va) /\ ~Before(vb, vb) /\ ~Before(fa, fa) /\ ~Before(fb, fb)
  <2>1. fa \in Chars /\ fb \in Chars
    BY <1>1, <1>2, TablesAre, FoldIsText
  <2> HIDE DEF fa, fb, va, vb
  <2> QED
    BY ONLY <1>1, <1>2, <2>1, BeforeIsStrict
<1>5. /\ KeyBefore(q, a, b) <=> IF lb = <<>> THEN FALSE ELSE la = <<>> \/ Before(fa, fb)
      /\ KeyBefore(q, b, a) <=> IF la = <<>> THEN FALSE ELSE lb = <<>> \/ Before(fb, fa)
  <2> HIDE DEF fa, fb, va, vb, la, lb
  <2> QED
    BY ONLY <1>1, <1>2, Zenon DEF KeyBefore
<1>6. /\ SortsBefore(SortTable, va, vb) <=> Before(fa, fb) \/ (fa = fb /\ Before(va, vb))
      /\ SortsBefore(SortTable, vb, va) <=> Before(fb, fa) \/ (fb = fa /\ Before(vb, va))
  BY ONLY Zenon DEF SortsBefore
<1>7. Precedes(q, ra, rb) <=>
        /\ va # <<>>
        /\ \/ vb = <<>>
           \/ IF q.descending THEN SortsBefore(SortTable, vb, va) ELSE SortsBefore(SortTable, va, vb)
  BY ONLY Zenon DEF Precedes
<1>8. SqlPrecedes(q, a, b) <=>
        IF HasValue(q, a) # HasValue(q, b) THEN HasValue(q, a)
        ELSE IF q.descending THEN KeyBefore(q, b, a) ELSE KeyBefore(q, a, b)
  BY ONLY Zenon DEF SqlPrecedes
<1> HIDE DEF la, lb, fa, fb, va, vb
<1>9. SortsBefore(SortTable, va, vb) <=> Before(fa, fb)
  BY ONLY <1>3, <1>4, <1>6, Zenon
<1>10. SortsBefore(SortTable, vb, va) <=> Before(fb, fa)
  BY ONLY <1>3, <1>4, <1>6, Zenon
<1>11. CASE va # <<>> /\ vb # <<>>
  <2>1. la # <<>> /\ lb # <<>> /\ HasValue(q, a) /\ HasValue(q, b)
    BY ONLY <1>1, <1>2, <1>11, Zenon
  <2>2. (KeyBefore(q, a, b) <=> Before(fa, fb)) /\ (KeyBefore(q, b, a) <=> Before(fb, fa))
    BY ONLY <1>5, <2>1, Zenon
  <2>3. HasValue(q, a) = HasValue(q, b)
    BY ONLY <2>1 DEF HasValue
  <2>4. SqlPrecedes(q, a, b) <=> IF q.descending THEN KeyBefore(q, b, a) ELSE KeyBefore(q, a, b)
    BY ONLY <1>8, <2>3, Zenon
  <2>5. Precedes(q, ra, rb) <=> IF q.descending THEN Before(fb, fa) ELSE Before(fa, fb)
    BY ONLY <1>7, <1>9, <1>10, <1>11, Zenon
  <2> QED
    BY ONLY <2>2, <2>4, <2>5, Zenon
<1>12. CASE va = <<>> /\ vb = <<>>
  <2>1. fa = fb
    BY ONLY <1>12, Zenon DEF fa, fb
  <2>2. la = lb
    BY ONLY <1>3, <2>1
  <2>3. ~KeyBefore(q, a, b) /\ ~KeyBefore(q, b, a)
    BY ONLY <1>4, <1>5, <2>1, <2>2, Zenon
  <2>4. HasValue(q, a) = HasValue(q, b)
    BY ONLY <1>1, <1>2, <1>12 DEF HasValue
  <2>5. ~SqlPrecedes(q, a, b)
    BY ONLY <1>8, <2>3, <2>4, Zenon
  <2> QED
    BY ONLY <1>7, <1>12, <2>5, Zenon
<1>13. CASE va # <<>> /\ vb = <<>>
  <2>1. HasValue(q, a) /\ ~HasValue(q, b)
    BY ONLY <1>1, <1>2, <1>13, Zenon
  <2>2. SqlPrecedes(q, a, b)
    BY ONLY <1>8, <2>1, Zenon
  <2> QED
    BY ONLY <1>7, <1>13, <2>2, Zenon
<1>14. CASE va = <<>> /\ vb # <<>>
  <2>1. ~HasValue(q, a) /\ HasValue(q, b)
    BY ONLY <1>1, <1>2, <1>14, Zenon
  <2>2. ~SqlPrecedes(q, a, b)
    BY ONLY <1>8, <2>1, Zenon
  <2> QED
    BY ONLY <1>7, <1>14, <2>2, Zenon
<1> QED
  BY ONLY <1>11, <1>12, <1>13, <1>14

--------------------------------------------------------------------------------
(* Only records are in the tables.                                         *)

\* Only records are in the tables.
OnlyRecords ==
  /\ rows \subseteq Ids
  /\ call # Idle /\ call.op \in {"put", "remove"} => call.id \in Ids

\* Where a row is inserted, it is that of a record.
LEMMA InsertedIsRecord ==
  ASSUME IndexInv, RebuildFollows, OnlyRecords, InsertRecord
  PROVE  call.id \in Ids
<1>1. CallIsWhole /\ call # Idle /\ call.step = "ins_record"
  BY DEF IndexInv, InsertRecord, At, Idle
<1>2. CASE call.op = "put"
  BY <1>1, <1>2 DEF OnlyRecords
<1>3. CASE call.op = "rebuild"
  <2>1. RecordIsListed
    BY <1>1, <1>3 DEF RebuildFollows, Listing, Inserting
  <2> QED
    BY <1>1, <2>1 DEF RecordIsListed, Stored
<1> QED
  BY <1>1, <1>2, <1>3 DEF CallIsWhole, Deleting

\* A call of index_put or index_remove stays with its record.
LEMMA StaysWithRecord ==
  ASSUME IndexInv, OnlyRecords,
         DeleteRecord \/ DeleteFields \/ DeleteText \/ InsertRecord \/ InsertField \/ InsertText
           \/ ClearRecords \/ ClearFields \/ ClearText \/ BeginTx \/ NextRecord
  PROVE  call' # Idle /\ call'.op \in {"put", "remove"} => call'.id \in Ids
<1>1. CallIsWhole /\ call # Idle
  <2>1. \E step : At(step)
    BY DEF DeleteRecord, DeleteFields, DeleteText, InsertRecord, InsertField, InsertText,
           ClearRecords, ClearFields, ClearText, BeginTx, NextRecord
  <2>2. call # Idle
    BY ONLY <2>1 DEF At, Idle
  <2>3. CallIsWhole
    BY Zenon DEF IndexInv
  <2> QED
    BY ONLY <2>2, <2>3
<1>2. CASE DeleteRecord \/ DeleteFields \/ DeleteText \/ InsertRecord \/ InsertField \/ InsertText
             \/ ClearRecords \/ ClearFields \/ ClearText
  <2>1. \/ call' = Idle
        \/ \E step : call' = [call EXCEPT !.step = step]
        \/ \E left, step : call' = [call EXCEPT !.left = left, !.step = step]
    BY <1>2 DEF DeleteRecord, DeleteFields, DeleteText, InsertRecord, InsertField, InsertText,
                ClearRecords, ClearFields, ClearText, GoTo, Return
  <2>2. call = [op |-> call.op, step |-> call.step, id |-> call.id, rec |-> call.rec,
                left |-> call.left, todo |-> call.todo, unread |-> call.unread]
    BY <1>1 DEF CallIsWhole
  <2>3. \A left, step :
          LET next == [call EXCEPT !.left = left, !.step = step]
          IN next.op = call.op /\ next.id = call.id
    BY ONLY <2>2
  <2>4. \A step : LET next == [call EXCEPT !.step = step]
                  IN next.op = call.op /\ next.id = call.id
    BY ONLY <2>2
  <2>5. call' = Idle \/ (call'.op = call.op /\ call'.id = call.id)
    <3>1. CASE \E step : call' = [call EXCEPT !.step = step]
      BY ONLY <2>4, <3>1
    <3>2. CASE \E left, step : call' = [call EXCEPT !.left = left, !.step = step]
      BY ONLY <2>3, <3>2
    <3> QED
      BY ONLY <2>1, <3>1, <3>2
  <2>6. call.op \in {"put", "remove"} => call.id \in Ids
    BY <1>1, Zenon DEF OnlyRecords
  <2> QED
    BY ONLY <2>5, <2>6
<1>3. CASE BeginTx \/ NextRecord
  <2>1. call.op = "rebuild"
    <3>1. call.step \in {"begin", "next"}
      BY <1>3 DEF BeginTx, NextRecord, At
    <3> QED
      BY ONLY <1>1, <3>1 DEF CallIsWhole, Deleting, Inserting
  <2>2. \/ \E listed, unread :
             call' = [call EXCEPT !.step = "next", !.todo = listed, !.unread = unread]
        \/ \E listed : call' = [call EXCEPT !.todo = listed]
        \/ \E id, rec, listed : call' = [call EXCEPT !.step = "del_record", !.id = id, !.rec = rec,
                                                     !.todo = listed]
    BY <1>3 DEF BeginTx, NextRecord
  <2>3. call'.op = call.op
    BY <1>1, <2>2 DEF CallIsWhole
  <2> QED
    BY <2>1, <2>3
<1> QED
  BY <1>2, <1>3

\* Each step keeps to the records.
LEMMA NextKeepsRecords == IndexInv /\ RebuildFollows /\ OnlyRecords /\ [Next]_vars => OnlyRecords'
<1> SUFFICES ASSUME IndexInv, RebuildFollows, OnlyRecords, [Next]_vars
             PROVE  OnlyRecords'
  OBVIOUS
<1>1. CASE FilesChange \/ FormSaved \/ UNCHANGED vars
  BY <1>1 DEF FilesChange, FormSaved, vars, tables, OnlyRecords
<1>2. CASE \E id \in Ids : BeginRemove(id) \/ BeginPut(id)
  <2>1. PICK id \in Ids : BeginRemove(id) \/ BeginPut(id)
    BY <1>2
  <2>2. rows' = rows /\ call'.id = id
    BY <2>1 DEF BeginRemove, BeginPut, tables
  <2> QED
    BY <2>2 DEF OnlyRecords
<1>3. CASE BeginRebuild
  <2>1. rows' = rows /\ call'.op = "rebuild"
    BY <1>3 DEF BeginRebuild, tables
  <2> QED
    BY <2>1 DEF OnlyRecords
<1>4. CASE DeleteRecord \/ DeleteFields \/ DeleteText \/ InsertRecord \/ InsertField \/ InsertText
             \/ ClearRecords \/ ClearFields \/ ClearText \/ BeginTx \/ NextRecord
  <2>1. call' # Idle /\ call'.op \in {"put", "remove"} => call'.id \in Ids
    BY ONLY <1>4, IndexInv, OnlyRecords, StaysWithRecord
  <2>2. rows' \subseteq Ids
    <3>1. CASE InsertRecord
      <4>1. call.id \in Ids /\ rows' = rows \union {call.id}
        BY <3>1, InsertedIsRecord DEF InsertRecord
      <4> QED
        BY <4>1 DEF OnlyRecords
    <3>2. CASE ~InsertRecord
      <4>1. rows' = rows \/ rows' = {} \/ rows' = rows \ {call.id}
        BY <1>4, <3>2 DEF DeleteRecord, DeleteFields, DeleteText, InsertField, InsertText,
                          ClearRecords, ClearFields, ClearText, BeginTx, NextRecord, tables
      <4> QED
        BY <4>1 DEF OnlyRecords
    <3> QED
      BY <3>1, <3>2
  <2> QED
    BY <2>1, <2>2 DEF OnlyRecords
<1>5. CASE Commit
  BY <1>5 DEF Commit, Return, tables, OnlyRecords
<1>6. CASE StatementFails \/ Crash
  <2>1. call # Idle /\ Undo /\ call' = Idle
    BY <1>6 DEF StatementFails, Crash, Return
  <2>2. CASE saved.open
    <3>1. SavedIsEmpty
      BY <2>1, <2>2
      DEF IndexInv, CallIsWhole, SingleCall, Rebuild, Clearing, Deleting, Inserting
    <3>2. rows' = {}
      BY <2>1, <2>2, <3>1 DEF Undo, SavedIsEmpty
    <3> QED
      BY <2>1, <3>2 DEF OnlyRecords
  <2>3. CASE ~saved.open
    BY <2>1, <2>3 DEF Undo, tables, OnlyRecords
  <2> QED
    BY <2>2, <2>3
<1> QED
  BY <1>1, <1>2, <1>3, <1>4, <1>5, <1>6 DEF Next

--------------------------------------------------------------------------------
(* The two ways.                                                           *)

\* An index that is up to date shows the files that can be read.
Current ==
  /\ rows \subseteq Stored
  /\ \A id \in Stored :
       /\ Load(id).ok <=> id \in rows
       /\ Load(id).ok => /\ GoodRecord(Load(id))
                         /\ fields[id] = FieldRows(Load(id))
                         /\ fulltext[id] = <<FullText(Load(id))>>

LEMMA TablesAreCurrent ==
  ASSUME UpToDate, HoldsWhatItLearned, OnlyRecords, FilesAreTexts
  PROVE  Current
<1>1. call = Idle /\ \A id \in Ids : learned[id] = IF Load(id).ok THEN Load(id) ELSE Nothing
  BY Zenon DEF UpToDate
<1>2. \A id \in Ids : Load(id).ok =>
        id \in rows /\ fields[id] = FieldRows(Load(id)) /\ fulltext[id] = <<FullText(Load(id))>>
  <2> TAKE id \in Ids
  <2> HAVE Load(id).ok
  <2>1. learned[id] = Load(id)
    BY <1>1
  <2>2. learned[id] \notin {Nothing, Unsure}
    BY <2>1, LoadedIsKnown
  <2>3. Shows(id, learned[id])
    BY <1>1, <2>2, Zenon DEF HoldsWhatItLearned
  <2> QED
    BY ONLY <2>1, <2>3, Zenon DEF Shows
<1>3. \A id \in Ids : ~Load(id).ok => id \notin rows
  <2> TAKE id \in Ids
  <2> HAVE ~Load(id).ok
  <2>1. learned[id] = Nothing
    BY <1>1
  <2>2. ShowsNothing(id)
    BY <1>1, <2>1, Zenon DEF HoldsWhatItLearned
  <2> QED
    BY ONLY <2>2, Zenon DEF ShowsNothing
<1>4. \A id \in Ids : Load(id).ok => GoodRecord(Load(id))
  BY LoadedIsGood
<1>5. \A id \in Ids : Load(id).ok => id \in Stored
  BY DEF Load, NoRecord, Stored
<1>6. rows \subseteq Ids /\ Stored \subseteq Ids
  BY DEF OnlyRecords, Stored
<1>7. rows \subseteq Stored
  BY ONLY <1>3, <1>5, <1>6
<1>8. \A id \in Stored : Load(id).ok <=> id \in rows
  BY ONLY <1>2, <1>3, <1>6, Zenon
<1>9. \A id \in Stored : Load(id).ok => GoodRecord(Load(id)) /\ fields[id] = FieldRows(Load(id))
                                          /\ fulltext[id] = <<FullText(Load(id))>>
  BY ONLY <1>2, <1>4, <1>6, Zenon
<1> QED
  BY ONLY <1>7, <1>8, <1>9, Zenon DEF Current

\* Any set of identifiers in their order has these as its entries.
LEMMA OrderedIds ==
  ASSUME NEW S, S \subseteq Ids
  PROVE  ByRank(S) \in Seq(S) /\ Range(ByRank(S)) = S /\ Len(ByRank(S)) = Cardinality(S)
<1> DEFINE s == Ranked(S, IdRank)
           n == Cardinality(S)
<1>1. IsFiniteSet(S)
  BY IndexAssumption, FS_Subset
<1>2. HasRanks(S, IdRank)
  BY <1>1, IndexAssumption DEF HasRanks
<1>3. IsListOf(s, S)
  BY ONLY <1>2, RankedIs
<1>4. ByRank(S) = s
  BY Zenon DEF ByRank
<1> HIDE DEF s
<1>5. n \in Nat /\ s \in [1 .. n -> S] /\ \A x \in S : \E i \in 1 .. n : s[i] = x
  BY ONLY <1>3, Zenon DEF IsListOf
<1> HIDE DEF n
<1>6. s \in Seq(S) /\ Len(s) = n /\ DOMAIN s = 1 .. n
  BY ONLY <1>5
<1>7. Range(s) = S
  BY ONLY <1>5, <1>6 DEF Range
<1> QED
  BY ONLY <1>4, <1>6, <1>7, Zenon DEF n

\* The list of all records does not end at Batch.
LEMMA AllAreListed ==
  ASSUME Cardinality(Stored) <= Batch
  PROVE  Range(FirstOf(ByRank(Stored), Batch)) = Stored
<1>1. Stored \subseteq Ids
  BY DEF Stored
<1>2. Range(ByRank(Stored)) = Stored /\ Len(ByRank(Stored)) = Cardinality(Stored)
  BY <1>1, OrderedIds
<1>3. FirstOf(ByRank(Stored), Batch) = ByRank(Stored)
  BY <1>2 DEF FirstOf
<1> QED
  BY ONLY <1>2, <1>3

\* The records that match, as each of the two ways has them.
HitsOf(q) == {id \in Stored : Load(id).ok /\ Matches(q, Load(id))}
SqlHitsOf(q) == {id \in rows : SqlMatches(q, id)}

PairsOf(q, hits) == {p \in hits \X hits : Precedes(q, Load(p[1]), Load(p[2]))}
SqlPairsOf(q, hits) == {p \in hits \X hits : SqlPrecedes(q, p[1], p[2])}

LEMMA FoundIs ==
  ASSUME NEW q, Cardinality(Stored) <= Batch
  PROVE  /\ Found(q) = InOrder(PairsOf(q, HitsOf(q)), ByRank(HitsOf(q)))
         /\ SqlFound(q) = InOrder(SqlPairsOf(q, SqlHitsOf(q)), ByRank(SqlHitsOf(q)))
<1>1. Range(FirstOf(ByRank(Stored), Batch)) = Stored
  BY AllAreListed
<1>2. Found(q) = InOrder(PairsOf(q, HitsOf(q)), ByRank(HitsOf(q)))
  BY ONLY <1>1, Zenon DEF Found, PairsOf, HitsOf
<1>3. SqlFound(q) = InOrder(SqlPairsOf(q, SqlHitsOf(q)), ByRank(SqlHitsOf(q)))
  BY ONLY Zenon DEF SqlFound, SqlPairsOf, SqlHitsOf
<1> QED
  BY ONLY <1>2, <1>3

\* Without words, both ways find the same, in the same order.
LEMMA FiltersDoAgree ==
  ASSUME Current, Cardinality(Stored) <= Batch, NEW q, q.words = {}
  PROVE  FiltersAgree(q)
<1> SUFFICES ASSUME \A f \in q.filters : FilterIsPlain(f), PlainField(q.order), KeysTellApart(q.order)
             PROVE  Found(q) = SqlFound(q)
  BY Zenon DEF FiltersAgree
<1>1. ASSUME NEW id \in Stored, Load(id).ok
      PROVE  Matches(q, Load(id)) <=> SqlMatches(q, id)
  <2> DEFINE rec == Load(id)
  <2>1. GoodRecord(rec) /\ fields[id] = FieldRows(rec)
    BY <1>1, Zenon DEF Current
  <2>2. \A f \in q.filters : f.op # "absent" \/ Len(ListOf(rec, f.field)) <= 1
    BY <1>1, Zenon DEF FilterIsPlain, PlainField
  <2>3. (Matches(q, rec) <=> \A f \in q.filters : FilterMatches(f, rec))
    BY q.words = {} DEF Matches
  <2>4. (SqlMatches(q, id) <=> \A f \in q.filters : SqlFilter(f, id))
    BY q.words = {} DEF SqlMatches
  <2> HIDE DEF rec
  <2>5. \A f : /\ SqlFilter(f, id) => FilterMatches(f, rec)
               /\ FilterMatches(f, rec) /\ (f.op # "absent" \/ Len(ListOf(rec, f.field)) <= 1)
                  => SqlFilter(f, id)
    BY ONLY <2>1, FilterAgrees
  <2> QED
    BY ONLY <2>4, <2>5, <2>2, <2>3, Zenon DEF rec
<1>2. HitsOf(q) = SqlHitsOf(q)
  <2>1. rows \subseteq Stored /\ \A id \in Stored : Load(id).ok <=> id \in rows
    BY Zenon DEF Current
  <2>2. \A id : id \in HitsOf(q) <=> id \in SqlHitsOf(q)
    BY ONLY <1>1, <2>1, Zenon DEF HitsOf, SqlHitsOf
  <2> HIDE DEF HitsOf, SqlHitsOf
  <2> QED
    BY ONLY <2>2
<1> DEFINE hits == HitsOf(q)
<1>3. \A id \in hits : /\ id \in Stored /\ Load(id).ok /\ GoodRecord(Load(id))
                       /\ fields[id] = FieldRows(Load(id))
                       /\ Len(ListOf(Load(id), q.order)) <= 1
  BY Zenon DEF Current, PlainField, HitsOf
<1> HIDE DEF hits
<1>4. ASSUME NEW a \in hits, NEW b \in hits
      PROVE  SqlPrecedes(q, a, b) <=> Precedes(q, Load(a), Load(b))
  <2>1. /\ GoodRecord(Load(a)) /\ GoodRecord(Load(b))
        /\ fields[a] = FieldRows(Load(a)) /\ fields[b] = FieldRows(Load(b))
        /\ Len(ListOf(Load(a), q.order)) <= 1 /\ Len(ListOf(Load(b), q.order)) <= 1
    BY ONLY <1>3, a \in hits, b \in hits, Zenon
  <2>2. Fold(SortTable, First(Load(a), q.order)) = Fold(SortTable, First(Load(b), q.order))
          => ListOf(Load(a), q.order) = ListOf(Load(b), q.order)
    <3>1. a \in Stored /\ Load(a).ok /\ b \in Stored /\ Load(b).ok
      BY ONLY <1>3, a \in hits, b \in hits, Zenon
    <3> QED
      BY <3>1, Zenon DEF KeysTellApart
  <2> QED
    BY ONLY <2>1, <2>2, OrderAgrees
<1>5. SqlPairsOf(q, hits) = PairsOf(q, hits)
  <2>1. \A p \in hits \X hits : SqlPrecedes(q, p[1], p[2]) <=> Precedes(q, Load(p[1]), Load(p[2]))
    <3> TAKE p \in hits \X hits
    <3>1. p[1] \in hits /\ p[2] \in hits
      BY ONLY p \in hits \X hits
    <3> QED
      BY ONLY <1>4, <3>1, Zenon
  <2> DEFINE A(p) == SqlPrecedes(q, p[1], p[2])
             B(p) == Precedes(q, Load(p[1]), Load(p[2]))
  <2>2. \A p \in hits \X hits : A(p) <=> B(p)
    BY ONLY <2>1, Zenon
  <2>3. SqlPairsOf(q, hits) = {p \in hits \X hits : A(p)} /\ PairsOf(q, hits) = {p \in hits \X hits : B(p)}
    BY ONLY Zenon DEF SqlPairsOf, PairsOf
  <2> HIDE DEF A, B
  <2> QED
    BY ONLY <2>2, <2>3
<1> QED
  BY <1>2, <1>5, FoundIs, Zenon DEF hits

\* With words, the records find all that the index finds.
LEMMA WordsDoAgree ==
  ASSUME Current, Cardinality(Stored) <= Batch, NEW q, q.words \subseteq Chars
  PROVE  WordsAgree(q)
<1> DEFINE parted == Parted(q)
           words == UNION {{Said(<<word>>, p) : p \in Parts(<<word>>)} : word \in q.words}
<1>1. parted.filters = q.filters /\ parted.words = words
  BY DEF Parted
<1> HIDE DEF parted
<1>2. ASSUME NEW id \in SqlHitsOf(q)
      PROVE  id \in HitsOf(parted)
  <2> DEFINE rec == Load(id)
  <2>1. id \in rows /\ SqlMatches(q, id)
    BY Zenon DEF SqlHitsOf
  <2>2. id \in Stored /\ rec.ok
    BY <2>1, Zenon DEF Current
  <2>3. GoodRecord(rec) /\ fields[id] = FieldRows(rec) /\ fulltext[id] = <<FullText(rec)>>
    BY <2>2, Zenon DEF Current
  <2> HIDE DEF rec
  <2>4. \A f \in q.filters : FilterMatches(f, rec)
    <3>1. \A f : SqlFilter(f, id) => FilterMatches(f, rec)
      BY ONLY <2>3, FilterAgrees
    <3> QED
      BY ONLY <2>1, <3>1, Zenon DEF SqlMatches
  <2>5. \A part \in words : HasWord(rec, part)
    <3> TAKE part \in words
    <3>1. PICK word \in q.words : \E p \in Parts(<<word>>) : part = Said(<<word>>, p)
      BY Zenon
    <3>2. PICK p \in Parts(<<word>>) : part = Said(<<word>>, p)
      BY <3>1
    <3>3. word \in Chars /\ SqlWord(word, id)
      BY <2>1 DEF SqlMatches
    <3>4. HasWord(rec, Said(<<word>>, p))
      BY ONLY <2>3, <3>3, p \in Parts(<<word>>), WordAgrees
    <3> QED
      BY ONLY <3>2, <3>4, Zenon
  <2> HIDE DEF words
  <2>6. Matches(parted, rec)
    BY ONLY <1>1, <2>4, <2>5, Zenon DEF Matches
  <2> QED
    BY ONLY <2>2, <2>6, Zenon DEF HitsOf, rec
<1>3. HitsOf(parted) \subseteq Ids /\ SqlHitsOf(q) \subseteq Ids
  BY <1>2 DEF HitsOf, Stored
<1>4. \A S : S \subseteq Ids => \A precedes : Range(InOrder(precedes, ByRank(S))) = S
  <2> TAKE S
  <2> HAVE S \subseteq Ids
  <2> TAKE precedes
  <2>1. ByRank(S) \in Seq(S) /\ Range(ByRank(S)) = S
    BY OrderedIds
  <2>2. Range(InOrder(precedes, ByRank(S))) = Range(ByRank(S))
    BY ONLY <2>1, InOrderKeeps
  <2> QED
    BY ONLY <2>1, <2>2
<1>5. Range(Found(parted)) = HitsOf(parted) /\ Range(SqlFound(q)) = SqlHitsOf(q)
  BY <1>3, <1>4, FoundIs, Zenon
<1> QED
  BY ONLY <1>2, <1>5, Zenon DEF WordsAgree, parted

\* The words of a query are texts.
LEMMA WordsAreChars ==
  ASSUME NEW q \in Queries
  PROVE  q.words \subseteq Chars
<1>1. q.words \subseteq Seq(DOMAIN Code \ {" "})
  BY WordsAssumption, Zenon
<1> DEFINE A == DOMAIN Code \ {" "}
           B == DOMAIN Code
<1>2. A \subseteq B
  OBVIOUS
<1> HIDE DEF A, B
<1>3. Seq(A) \subseteq Seq(B)
  BY ONLY <1>2
<1> QED
  BY <1>1, <1>3, LettersAreCoded DEF A, B

\* An index that is up to date answers as the records do, for any collection
\* whose lists do not end at Batch, any records and queries, and any tables of
\* letters under which what fts5 takes for the same letter is the same for a
\* search in the records (index_query, find_into): a query without words gives
\* the same identifiers in the same order, unless the index refuses it for a text
\* of blanks, and what is found by words, with punctuation or without, is found in
\* the records by the parts of these words.
THEOREM TwoWaysAgree == Spec => []BothWaysAgree
<1>1. Init => IndexInv /\ RebuildFollows /\ OnlyRecords /\ FilesAreTexts
  BY InitIndex, InitialFilesAreTexts DEF Init, RebuildFollows, OnlyRecords
<1>2. IndexInv /\ OnlyRecords /\ FilesAreTexts => BothWaysAgree
  <2> SUFFICES ASSUME IndexInv, OnlyRecords, FilesAreTexts, UpToDate, Cardinality(Stored) <= Batch,
                      NEW q \in Queries
               PROVE  IF q.words = {} THEN SqlRefuses(q) \/ FiltersAgree(q) ELSE WordsAgree(q)
    BY Zenon DEF BothWaysAgree
  <2>1. HoldsWhatItLearned
    BY DEF IndexInv, HoldsWhatItLearned, SettledBut, Settled
  <2>2. Current
    BY <2>1, TablesAreCurrent
  <2>3. q.words = {} => FiltersAgree(q)
    BY ONLY <2>2, Cardinality(Stored) <= Batch, FiltersDoAgree
  <2>4. WordsAgree(q)
    BY ONLY <2>2, Cardinality(Stored) <= Batch, q \in Queries, WordsAreChars, WordsDoAgree
  <2> QED
    BY ONLY <2>3, <2>4
<1> QED
  BY <1>1, <1>2, NextKeepsIndex, NextKeepsRebuild, NextKeepsRecords, NextKeepsTexts, PTL DEF Spec
================================================================================
