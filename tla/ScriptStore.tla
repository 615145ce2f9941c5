------------------------------ MODULE ScriptStore ------------------------------
(***************************************************************************)
(* What a script does to a collection through the table `store'            *)
(* (lua/pdalua_store.c): a record becomes a Lua table, the script changes  *)
(* one field, and the table becomes the text of a record again, as         *)
(* agenda.finish does.  There is no setter for a field: the text is        *)
(* composed anew, read, and saved under the identifier it names.           *)
(*                                                                         *)
(* The vault is taken as module RecordStore has it: a save takes effect as *)
(* a whole or fails, and then nothing changes.                             *)
(***************************************************************************)
EXTENDS Query

CONSTANTS
  Ids,         \* the identifiers of the collection
  Absent,      \* no file under an identifier
  IdText,      \* identifier -> its text, as the field "id" has it
  BodyKey,     \* the name under which a table holds the body
  LongKeys,    \* keys of 64 letters: read by the parser, too long for compose
  KeysMax,     \* how many keys compose takes of a table
  KeyRank,     \* key -> its place in the order of strcmp
  Edits        \* the [key, value] a script may set

\* Identifiers have one length; keys are texts, which have an order; a script sets
\* fields, and not the body.
ASSUME ScriptAssumption ==
  /\ IdText \in [Ids -> Seq(DOMAIN Code)]
  /\ \A a, b \in Ids : Len(IdText[a]) = Len(IdText[b])
  /\ "id" \in GoodKeys /\ GoodKeys \subseteq DOMAIN KeyRank /\ DOMAIN KeyRank \subseteq STRING
  /\ KeyRank \in [DOMAIN KeyRank -> Nat] /\ KeysMax \in Nat
  /\ \A a, b \in DOMAIN KeyRank : KeyRank[a] = KeyRank[b] => a = b
  /\ Edits \subseteq [key : DOMAIN KeyRank \ {BodyKey}, value : Seq(DOMAIN Code)]

VARIABLE
  files        \* identifier -> text of its file

Stored == {id \in Ids : files[id] # Absent}
Load(id) == IF files[id] = Absent THEN NoRecord ELSE Parse(files[id])

\* The identifier a record names: what stands beyond the length of one is cut off.
Named(rec) == {id \in Ids : OccursAt(First(rec, "id"), IdText[id], 0)}

--------------------------------------------------------------------------------
(* A record as a Lua table, and back.                                      *)

\* push_record: a field called "body" takes the place of the body.
BodyInTable(rec) ==
  IF BodyKey \notin KeysOf(rec) THEN rec.body
  ELSE LET v == ListOf(rec, BodyKey)
       IN IF Len(v) = 1 /\ v[1] # <<>> THEN <<TextLine(v[1])>> ELSE <<>>

\* Mutant: the array of a field becomes its first item.
TableOfFirst(rec) ==
  [body   |-> BodyInTable(rec),
   fields |-> [k \in KeysOf(rec) \ {BodyKey} |->
                 [list |-> FALSE, values |-> <<First(rec, k)>>]]]

\* A field with one item is a string, any other an array.
TableOf(rec) ==
  [body   |-> BodyInTable(rec),
   fields |-> [k \in KeysOf(rec) \ {BodyKey} |->
                 [list |-> Len(ListOf(rec, k)) # 1, values |-> ListOf(rec, k)]]]

SetField(table, key, value) ==
  [table EXCEPT !.fields =
     [k \in DOMAIN table.fields \union {key} |->
        IF k = key THEN [list |-> FALSE, values |-> <<value>>] ELSE table.fields[k]]]

\* The keys compose takes: the order in which lua_next gives them, and with it
\* the choice among too many, is open.
KeysTaken(table) ==
  LET short == DOMAIN table.fields \ LongKeys
  IN IF Cardinality(short) <= KeysMax THEN {short}
     ELSE {some \in SUBSET short : Cardinality(some) = KeysMax}

\* What is in a set, by rank.
Ranked(S, rank) ==
  CHOOSE s \in [1 .. Cardinality(S) -> S] :
    \A i, j \in DOMAIN s : i < j => rank[s[i]] < rank[s[j]]

\* compose: keys sorted, empty strings left out.
Compose(table, keys) ==
  LET EntryFor(k) == [key |-> k, list |-> table.fields[k].list, values |-> table.fields[k].values]
      kept == {k \in keys : EntryFor(k) # Scalar(k, <<>>)}
      sorted == Ranked(kept, KeyRank)
  IN <<Fence>> \o [i \in DOMAIN sorted |-> Written(EntryFor(sorted[i]))] \o <<Fence>>
       \o table.body

--------------------------------------------------------------------------------
(* Actions.                                                                *)

\* build_text_with_id: a header with the new identifier first, no other line
\* with one, and the body.
WithId(rec, id) ==
  LET others == {i \in DOMAIN rec.fields : rec.fields[i].key # "id"}
      rest == Ranked(others, [i \in others |-> i])
  IN <<Fence, Written(Scalar("id", IdText[id]))>>
       \o [k \in DOMAIN rest |-> Written(rec.fields[rest[k]])] \o <<Fence>> \o rec.body

\* vault_save: under the identifier the record names, or under a new one.
Save(rec) ==
  IF First(rec, "id") = <<>>
  THEN \E new \in Ids \ Stored : files' = [files EXCEPT ![new] = Write(Parse(WithId(rec, new)))]
  ELSE \E target \in Named(rec) : files' = [files EXCEPT ![target] = Write(rec)]

\* store.get, one field set, store.put, as agenda.finish has it.  A text that
\* cannot be read again is an error of the script and changes nothing.
ScriptEdits(id, edit) ==
  LET table == SetField(TableOf(Load(id)), edit.key, edit.value)
  IN /\ Load(id).ok
     /\ \E keys \in KeysTaken(table) :
          LET rec == Parse(Compose(table, keys))
          IN rec.ok /\ Save(rec)

\* store.delete.
ScriptDeletes(id) ==
  /\ id \in Stored
  /\ files' = [files EXCEPT ![id] = Absent]

\* A file comes from somewhere else: the browser, an editor, a copy.
FileComes(id, text) == files' = [files EXCEPT ![id] = text]

--------------------------------------------------------------------------------
(* Properties of an edit by a script.                                      *)

Kept(rec, new, key) ==
  \/ ListOf(rec, key) = ListOf(new, key)
  \/ ListOf(rec, key) = << <<>> >> /\ key \notin KeysOf(new)

SelfNamed(id) == Load(id).ok /\ Named(Load(id)) = {id}

\* A list of one item, and the item in brackets again: push_record takes the
\* outer brackets for good.
Nested(rec) ==
  \E k \in KeysOf(rec) : Len(ListOf(rec, k)) = 1 /\ Bracketed(First(rec, k))

\* A script that sets one field of a record leaves its body, every other field
\* and every other record as they are - if the record names itself, no field is
\* called "body", no key has 64 letters, there are not too many, and no list is
\* the only item of a list (pdalua_store.c, push_record and compose).
KeepsOtherFields(id, key) ==
  LET old == Load(id)
      new == Parse(files'[id])
  IN SelfNamed(id) /\ BodyKey \notin KeysOf(old) /\ KeysOf(old) \intersect LongKeys = {}
       /\ Cardinality(KeysOf(old) \union {key}) <= KeysMax
       /\ ~Nested(old)
     => /\ new.ok
        /\ new.body = old.body
        /\ \A k \in KeysOf(old) \ {key} : Kept(old, new, k)
        /\ \A other \in Ids \ {id} : files'[other] = files[other]
================================================================================
