------------------------------- MODULE IndexQuery -------------------------------
(***************************************************************************)
(* The two ways to answer a query: through the records, one by one, as     *)
(* store.find does (find_into of lua/pdalua_store.c), and through the      *)
(* tables of the index, as the SQL of index_query does.  "The two ways     *)
(* have to give the same answer" (index_sqlite.c).                         *)
(*                                                                         *)
(* The full text search of SQLite is external: it parts texts, those of a  *)
(* query, too, into words and compares these, folded by a rule of its own. *)
(***************************************************************************)
EXTENDS Index

CONSTANTS
  WordTable,   \* external: how fts5 folds a letter (unicode61 remove_diacritics 2)
  Parting,     \* external: the characters that are in no word of fts5
  Queries,     \* the queries to be answered
  Samples      \* texts to be read, written, read and written again

\* A text is made of lines, and they of characters that have a code.
ASSUME SamplesAssumption == Samples \subseteq Seq(LinesOf(DOMAIN Code))

\* fts5 folds letter by letter, and search.fold is "the same rule": letters that
\* are the same for fts5 are the same for a search in the records.  The words of
\* a query are what lies between its blanks, and only a text has words.
ASSUME WordsAssumption ==
  /\ \A ch \in DOMAIN Code : Len(Replacement(WordTable, ch)) = 1
  /\ \A a, b \in DOMAIN Code :
       Replacement(WordTable, a) = Replacement(WordTable, b)
       => Replacement(SearchTable, a) = Replacement(SearchTable, b)
  /\ WordTable \in [DOMAIN WordTable -> Seq(DOMAIN Code)]
  /\ \A q \in Queries : q.words \subseteq Seq(DOMAIN Code \ {" "})
  /\ \A q \in Queries : q.words # {} => q.searches

\* Identifiers in ascending order.
ByRank(ids) == Ranked(ids, IdRank)

FirstOf(seq, n) == IF Len(seq) <= n THEN seq ELSE SubSeq(seq, 1, n)

\* A sequence sorted by insertion: an entry goes before the first that it
\* precedes, so that what is equal keeps its order.
Insert(precedes, seq, x) ==
  LET later == {i \in DOMAIN seq : <<x, seq[i]>> \in precedes}
      at == IF later = {} THEN Len(seq) + 1 ELSE Min(later)
  IN SubSeq(seq, 1, at - 1) \o <<x>> \o SubSeq(seq, at, Len(seq))

InOrder(precedes, seq) ==
  LET sorted[n \in 0 .. Len(seq)] ==
        IF n = 0 THEN <<>> ELSE Insert(precedes, sorted[n - 1], seq[n])
  IN sorted[Len(seq)]

--------------------------------------------------------------------------------
(* Through the records: the first Batch of the list, those that match, and  *)
(* an insertion sort.                                                       *)

Found(q) ==
  LET hits == {id \in Range(FirstOf(ByRank(Stored), Batch)) :
                 Load(id).ok /\ Matches(q, Load(id))}
      precedes == {p \in hits \X hits : Precedes(q, Load(p[1]), Load(p[2]))}
  IN InOrder(precedes, ByRank(hits))

--------------------------------------------------------------------------------
(* Through the tables.                                                      *)

RowsWith(id, field) == {row \in fields[id] : row.field = field}

\* build_filter: a value is compared as it stands, or by its folded form.
RowMatches(f, row) ==
  \/ f.op = "equals"   /\ row.value = f.value
  \/ f.op = "contains" /\ \E i \in 0 .. Len(row.findkey) :
                            OccursAt(row.findkey, Fold(SearchTable, f.value), i)
  \/ f.op = "prefix"   /\ OccursAt(row.findkey, Fold(SearchTable, f.value), 0)
  \/ f.op = "less"     /\ Before(row.value, f.value)
  \/ f.op = "greater"  /\ Before(f.value, row.value)
  \/ f.op = "present"  /\ row.value # <<>>

SqlFilter(f, id) ==
  IF f.op = "absent" THEN \A row \in RowsWith(id, f.field) : row.value = <<>>
  ELSE \E row \in RowsWith(id, f.field) : RowMatches(f, row)

\* The words that fts5 parts a line into: from where to where.
WordsIn(s) ==
  {at \in (DOMAIN s) \X (DOMAIN s) :
     /\ at[1] <= at[2]
     /\ \A k \in at[1] .. at[2] : s[k] \notin Parting
     /\ at[1] = 1 \/ s[at[1] - 1] \in Parting
     /\ at[2] = Len(s) \/ s[at[2] + 1] \in Parting}

\* Those of a text, with their lines, and what such a word says.
Parts(text) == UNION {{<<n, at[1], at[2]>> : at \in WordsIn(text[n])} : n \in DOMAIN text}

Said(text, p) == SubSeq(text[p[1]], p[2], p[3])

NextPart(text, p, q) ==
  Earlier(p, q) /\ ~ \E r \in Parts(text) : Earlier(p, r) /\ Earlier(r, q)

\* A word of a query stands in quotation marks, so fts5 takes it for a phrase: its
\* parts must follow each other in the text, on whatever lines.  A phrase without
\* parts is found nowhere.
HasPhrase(text, word) ==
  LET parts == Parts(<<word>>)
  IN /\ parts # {}
     /\ \E place \in [parts -> Parts(text)] :
          /\ \A p \in parts : Fold(WordTable, Said(<<word>>, p))
                                = Fold(WordTable, Said(text, place[p]))
          /\ \A p, q \in parts : NextPart(<<word>>, p, q) => NextPart(text, place[p], place[q])

SqlWord(word, id) == \E i \in DOMAIN fulltext[id] : HasPhrase(fulltext[id][i], word)

SqlMatches(q, id) ==
  /\ \A f \in q.filters : SqlFilter(f, id)
  /\ \A word \in q.words : SqlWord(word, id)

\* A text of blanks has no words, but build_match makes an empty expression of it,
\* which is no expression of fts5: the query fails at the first row that gets there.
SqlRefuses(q) ==
  /\ q.searches /\ q.words = {}
  /\ \E id \in rows : \A f \in q.filters : SqlFilter(f, id)

\* ORDER BY: no value last, then the smallest sort key, then the identifier.
HasValue(q, id) == \E row \in RowsWith(id, q.order) : row.value # <<>>

SortKeys(q, id) == {row.sortkey : row \in RowsWith(id, q.order)}

LeastKey(q, id) ==
  CHOOSE key \in SortKeys(q, id) : \A other \in SortKeys(q, id) : ~Before(other, key)

\* NULL, the key of a record without a row for the field, is the least of all.
KeyBefore(q, a, b) ==
  IF SortKeys(q, b) = {} THEN FALSE
  ELSE SortKeys(q, a) = {} \/ Before(LeastKey(q, a), LeastKey(q, b))

SqlPrecedes(q, a, b) ==
  IF HasValue(q, a) # HasValue(q, b) THEN HasValue(q, a)
  ELSE IF q.descending THEN KeyBefore(q, b, a) ELSE KeyBefore(q, a, b)

SqlFound(q) ==
  LET hits == {id \in rows : SqlMatches(q, id)}
      precedes == {p \in hits \X hits : SqlPrecedes(q, p[1], p[2])}
  IN InOrder(precedes, ByRank(hits))

--------------------------------------------------------------------------------
(* Properties.                                                             *)

\* The index is up to date: it was told of every file that can be read, as the
\* file is now, and of no other.
UpToDate ==
  call = Idle /\ \A id \in Ids : learned[id] = IF Load(id).ok THEN Load(id) ELSE Nothing

\* A field of the query has one value at most in each record.
PlainField(field) ==
  \A id \in Stored : Load(id).ok => Len(ListOf(Load(id), field)) <= 1

\* Sort keys that are equal belong to fields that are equal.
KeysTellApart(field) ==
  \A a, b \in Stored :
    Load(a).ok /\ Load(b).ok
      /\ Fold(SortTable, First(Load(a), field)) = Fold(SortTable, First(Load(b), field))
    => ListOf(Load(a), field) = ListOf(Load(b), field)

FilterIsPlain(f) == f.op # "absent" \/ PlainField(f.field)

FiltersAgree(q) ==
  (\A f \in q.filters : FilterIsPlain(f)) /\ PlainField(q.order) /\ KeysTellApart(q.order)
  => Found(q) = SqlFound(q)

\* The query for the parts of its words.
Parted(q) ==
  LET words == UNION {{Said(<<word>>, p) : p \in Parts(<<word>>)} : word \in q.words}
  IN [filters |-> q.filters, searches |-> q.searches, words |-> words,
      order |-> q.order, descending |-> q.descending]

WordsAgree(q) == Range(SqlFound(q)) \subseteq Range(Found(Parted(q)))

\* An index that is up to date answers as the records do (index_query,
\* find_into).  A query without words gives the same identifiers in the same
\* order, if it asks for the absence of a field only where it has one value at
\* most, and orders by a field with one value at most whose sort keys tell its
\* values apart - or the index refuses it, for a text of blanks.  What the index
\* finds by words, the way through the records finds by their parts, which are
\* the words themselves unless they hold punctuation.  The reverse fails, for
\* record_has_word finds "lin" in "Berlin"; and "2026-08" the index finds where
\* 08 follows 2026, be it in another field.  All this holds as long as no list
\* ends at Batch and every file of the list can be opened.
BothWaysAgree ==
  UpToDate /\ Cardinality(Stored) <= Batch =>
    \A q \in Queries :
      IF q.words = {} THEN SqlRefuses(q) \/ FiltersAgree(q) ELSE WordsAgree(q)

\* Each text that can be read at all is read back as it was written, and a
\* second round changes nothing (frontmatter_write, frontmatter_parse).  This is
\* about the samples alone; it is looked at before anything happened.
RoundTripIsStable ==
  events = 0 /\ Stored = {} /\ call = Idle =>
  \A text \in Samples : Parse(text).ok => ReadBack(Parse(text)) /\ Settles(text)
================================================================================
