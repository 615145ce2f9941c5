------------------------------ MODULE FrontMatter ------------------------------
(***************************************************************************)
(* The text of a record: a header of fields between two "---" lines, and a *)
(* body of gemtext that is passed through (store/frontmatter.c,            *)
(* store/record.c).                                                        *)
(*                                                                         *)
(* A text is a sequence of lines.  What the parser tells apart of a line   *)
(* is its kind: a fence ("---"), a blank line, a field (its key, what      *)
(* stands behind the colon, and whether white space stands before it) or   *)
(* text without a colon.  Values are sequences of characters, for the      *)
(* parser looks into them: it cuts white space off, and takes what stands  *)
(* in brackets for a list.  White space is the character " ".              *)
(***************************************************************************)
EXTENDS Naturals, Sequences, FiniteSets, SequencesExt, FiniteSetsExt

CONSTANTS
  GoodKeys,    \* the keys is_key_char and FM_KEY_MAX allow
  ValueMax     \* FM_VALUE_MAX: the longest value, also of an item of a list

Fence == [kind |-> "fence"]
Blank == [kind |-> "blank"]
TextLine(s) == [kind |-> "text", raw |-> s]
FieldLine(key, s) == [kind |-> "field", indented |-> FALSE, key |-> key, raw |-> s]

\* The lines a text may have, over some characters.
LinesOf(chars) ==
  {Fence, Blank} \union
  [kind : {"text"}, raw : Seq(chars)] \union
  [kind : {"field"}, indented : BOOLEAN, key : STRING, raw : Seq(chars)]

Trim(s) ==
  LET solid == {i \in DOMAIN s : s[i] # " "}
  IN IF solid = {} THEN <<>> ELSE SubSeq(s, Min(solid), Max(solid))

\* What stands between the commas.
BetweenCommas(s) ==
  LET ends == {i \in DOMAIN s : s[i] = ","} \union {Len(s) + 1}
      cut[k \in 0 .. Cardinality(ends)] ==
        IF k = 0 THEN 0 ELSE Min({e \in ends : e > cut[k - 1]})
  IN [k \in 1 .. Cardinality(ends) |-> SubSeq(s, cut[k - 1] + 1, cut[k] - 1)]

\* Mutant: the items of a list keep their white space.
ItemsUntrimmed(s) == BetweenCommas(s)

\* parse_list: each part without white space.
Items(s) == LET parts == BetweenCommas(s) IN [k \in DOMAIN parts |-> Trim(parts[k])]

Bracketed(v) == Len(v) >= 2 /\ Head(v) = "[" /\ Last(v) = "]"

\* The entry a field line makes.
EntryOf(line) ==
  LET v == Trim(line.raw)
  IN [key    |-> line.key,
      list   |-> Bracketed(v),
      values |-> IF ~Bracketed(v) THEN <<v>>
                 ELSE IF Len(v) = 2 THEN <<>>
                 ELSE Items(SubSeq(v, 2, Len(v) - 1))]

\* The entry of a field with one value.
Scalar(key, v) == [key |-> key, list |-> FALSE, values |-> <<v>>]

TooLong(e) == \E i \in DOMAIN e.values : Len(e.values[i]) > ValueMax

BadLine(line) ==
  \/ line.kind = "text"
  \/ /\ line.kind = "field"
     /\ line.indented \/ line.key \notin GoodKeys \/ TooLong(EntryOf(line))

NoRecord == [ok |-> FALSE, fields |-> <<>>, body |-> <<>>]

IsField(line) == line.kind = "field"

\* The entries of the fields, in the order of the lines.
FieldsIn(header) ==
  LET upTo[n \in 0 .. Len(header)] ==
        IF n = 0 THEN <<>>
        ELSE IF IsField(header[n]) THEN Append(upTo[n - 1], EntryOf(header[n]))
        ELSE upTo[n - 1]
  IN upTo[Len(header)]

\* frontmatter_parse: every line of the header is understood, and no key occurs
\* twice.
HeaderIsGood(header) ==
  LET entries == FieldsIn(header)
  IN /\ \A i \in DOMAIN header : ~BadLine(header[i])
     /\ \A i, j \in DOMAIN entries : entries[i].key = entries[j].key => i = j

\* record_parse.  A text without a fence at its head is all body; a header that
\* has no end, or is not good, is no record.
Parse(text) ==
  LET ends == {i \in 2 .. Len(text) : text[i] = Fence}
      header == SubSeq(text, 2, Min(ends) - 1)
  IN IF text = <<>> \/ text[1] # Fence THEN [ok |-> TRUE, fields |-> <<>>, body |-> text]
     ELSE IF ends = {} \/ ~HeaderIsGood(header) THEN NoRecord
     ELSE [ok     |-> TRUE,
           fields |-> FieldsIn(header),
           body   |-> SubSeq(text, Min(ends) + 1, Len(text))]

--------------------------------------------------------------------------------
(* Writing and access.                                                     *)

Joined(values) ==
  LET upTo[n \in 0 .. Len(values)] ==
        IF n = 0 THEN <<>>
        ELSE upTo[n - 1] \o (IF n = 1 THEN <<>> ELSE <<",", " ">>) \o values[n]
  IN upTo[Len(values)]

ListText(values) == <<" ", "[">> \o Joined(values) \o <<"]">>

Written(e) ==
  FieldLine(e.key,
            IF e.list THEN ListText(e.values)
            ELSE <<" ">> \o (IF e.values = <<>> THEN <<>> ELSE Head(e.values)))

\* frontmatter_write.
Header(fields) ==
  <<Fence>> \o [i \in DOMAIN fields |-> Written(fields[i])] \o <<Fence>>

\* record_write: a record without fields gets no header.
Write(rec) ==
  IF rec.fields = <<>> THEN rec.body ELSE Header(rec.fields) \o rec.body

KeysOf(rec) == {rec.fields[i].key : i \in DOMAIN rec.fields}

\* frontmatter_list_at for all positions; a scalar is a list of one item.
ListOf(rec, key) ==
  IF key \in KeysOf(rec)
  THEN rec.fields[CHOOSE i \in DOMAIN rec.fields : rec.fields[i].key = key].values
  ELSE <<>>

\* frontmatter_get, with the empty text for NULL, which no caller tells apart.
First(rec, key) == IF ListOf(rec, key) = <<>> THEN <<>> ELSE Head(ListOf(rec, key))

--------------------------------------------------------------------------------
(* Properties.                                                             *)

\* What a record holds is read back from the text it is written as, except that
\* a list of one empty item becomes an empty list, and that the body of a record
\* without fields is taken for a header if it begins with a fence.
ReadBack(rec) ==
  \/ Parse(Write(rec)) = rec
  \/ rec.fields = <<>> /\ rec.body[1] = Fence
  \/ \E i \in DOMAIN rec.fields : rec.fields[i].list /\ rec.fields[i].values = << <<>> >>

\* Reading and writing settles: a text written once is not changed by reading it
\* and writing it again (record.h: no difference for who reads a file and writes
\* it back - which a text not written by the program may show).
Settles(text) ==
  LET once == Write(Parse(text))
  IN \/ Write(Parse(once)) = once
     \/ Parse(text).fields = <<>> /\ Parse(text).body[1] = Fence
================================================================================
