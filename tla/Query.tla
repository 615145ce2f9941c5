--------------------------------- MODULE Query ---------------------------------
(***************************************************************************)
(* A query as a data structure, answered record by record                  *)
(* (store/query.c): filters that must all hold, words that must all occur  *)
(* somewhere in the record, and an order.  This is the way that works      *)
(* without the index; module Index has the one through SQL.                *)
(*                                                                         *)
(* A query is a record [filters, searches, words, order, descending]: a    *)
(* set of [field, op, value]; whether it has a text, and the words of this *)
(* text, none if it has only blanks; the field to order by.                *)
(***************************************************************************)
EXTENDS FrontMatter, Collation

CONSTANTS
  SortTable,     \* data/lang/de.sort: how a value counts in the order
  SearchTable    \* data/collate/search.fold: how it counts in a search

\* A replacement is a text (collate_parse).
ASSUME TablesAssumption ==
  \A table \in {SortTable, SearchTable} : table \in [DOMAIN table -> Seq(DOMAIN Code)]

\* value_matches: equality and comparison see the text as it stands.
ValueMatches(f, v) ==
  \/ f.op = "equals"   /\ v = f.value
  \/ f.op = "contains" /\ HasInside(SearchTable, v, f.value)
  \/ f.op = "prefix"   /\ StartsWith(SearchTable, v, f.value)
  \/ f.op = "less"     /\ Before(v, f.value)
  \/ f.op = "greater"  /\ Before(f.value, v)
  \/ f.op = "present"  /\ v # <<>>

\* filter_matches: one item of a list is enough; only the first item decides
\* whether a field is absent.
FilterMatches(f, rec) ==
  IF f.op = "absent" THEN First(rec, f.field) = <<>>
  ELSE \E i \in DOMAIN ListOf(rec, f.field) : ValueMatches(f, ListOf(rec, f.field)[i])

\* All values of a record, item by item, in the order of its fields.
Values(rec) == FlattenSeq([i \in DOMAIN rec.fields |-> rec.fields[i].values])

\* The lines of a body that have letters.
LettersOf(line) == IF line.kind \in {"text", "field"} THEN <<line.raw>> ELSE <<>>
BodyTexts(rec) == FlattenSeq([i \in DOMAIN rec.body |-> LettersOf(rec.body[i])])

\* record_has_word: anywhere in the body or in a value, also inside a word.
HasWord(rec, word) ==
  \/ \E i \in DOMAIN BodyTexts(rec) : HasInside(SearchTable, BodyTexts(rec)[i], word)
  \/ \E i \in DOMAIN Values(rec) : HasInside(SearchTable, Values(rec)[i], word)

\* query_matches.
Matches(q, rec) ==
  /\ \A f \in q.filters : FilterMatches(f, rec)
  /\ \A word \in q.words : HasWord(rec, word)

\* Mutant: the direction turns the records without the field around, too.
PrecedesTurned(q, a, b) ==
  LET va == First(a, q.order)
      vb == First(b, q.order)
  IN IF q.descending
     THEN vb # <<>> /\ (va = <<>> \/ SortsBefore(SortTable, vb, va))
     ELSE va # <<>> /\ (vb = <<>> \/ SortsBefore(SortTable, va, vb))

\* query_compare(q, a, b) < 0: records without the field at the end, whatever
\* the direction.
Precedes(q, a, b) ==
  LET va == First(a, q.order)
      vb == First(b, q.order)
  IN /\ va # <<>>
     /\ \/ vb = <<>>
        \/ IF q.descending THEN SortsBefore(SortTable, vb, va)
           ELSE SortsBefore(SortTable, va, vb)
================================================================================
