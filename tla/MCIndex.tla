-------------------------------- MODULE MCIndex --------------------------------
(***************************************************************************)
(* Three files: one of the first record, one that may hold a copy of it or *)
(* be broken, and one with a list.                                         *)
(***************************************************************************)
EXTENDS IndexQuery

MCIds == 1 .. 3
MCIdText == [id \in MCIds |-> <<ToString(id)>>]
MCIdRank == [id \in MCIds |-> id]

\* The characters; "ae" is the letter a with two dots, "A" a capital.
Letters == <<" ", ",", "1", "2", "3", "A", "[", "]", "a", "b", "ae">>
MCCode == [ch \in {Letters[i] : i \in DOMAIN Letters} |->
             CHOOSE i \in DOMAIN Letters : Letters[i] = ch]
MCSmallOf == ("A" :> "a")
MCFoldTable == ("ae" :> <<"a">>)
MCParting == {" ", ",", "[", "]"}

MCGoodKeys == {"id", "due", "tag", "body", "day", "done"}
MCKeyRank == ("body" :> 1 @@ "day" :> 2 @@ "done" :> 3 @@ "due" :> 4 @@ "id" :> 5 @@ "tag" :> 6)

Text(id, header, body) ==
  <<Fence, FieldLine("id", <<" ">> \o MCIdText[id])>> \o header \o <<Fence>> \o body

Plain == Text(1, <<FieldLine("due", <<" ", "A", "b">>)>>, <<TextLine(<<"b", " ", "ae">>)>>)
Tagged == Text(3, <<FieldLine("tag", <<"[", "a", ",", " ", "b", "]">>)>>,
               <<TextLine(<<"a", "b">>)>>)
EmptyDue == Text(3, <<FieldLine("due", <<" ">>)>>, <<>>)
Broken == <<Fence, TextLine(<<"a">>)>>
NoId == <<Fence, FieldLine("due", <<" ", "ae">>), Fence>>

Dated == Text(1, <<FieldLine("due", <<" ", "b">>), FieldLine("day", <<" ", "1", "2">>),
                   FieldLine("done", <<" ", "1">>)>>, <<>>)

MCTextsFor == (1 :> {Dated} @@ 2 :> {Plain, Broken, NoId} @@ 3 :> {Tagged, EmptyDue})
MCEdits == {[key |-> "due", value |-> <<"b">>]}

\* A form with a field of every kind; days are shown with their digits turned.
MCYes == <<"1">>
MCNo == <<"2">>
FieldOf(key, kind, required, values) ==
  [key |-> key, kind |-> kind, required |-> required, values |-> values]
MCFormFields ==
  <<FieldOf("due", "text", TRUE, {}), FieldOf("day", "date", FALSE, {}),
    FieldOf("tag", "choice", FALSE, {<<"a">>, <<"b">>}), FieldOf("done", "bool", FALSE, {})>>
MCShownDay == (<<"1", "2">> :> <<"2", "1">> @@ <<"2", "3">> :> <<"3", "2">>)
MCEntries == ("due" :> {<<"[", "b", "]">>, <<"A">>} @@ "day" :> {<<" ", "3", "2">>}
              @@ "tag" :> {<<"b">>} @@ "done" :> {MCYes})

QueryOf(filters, words, order, desc) ==
  [filters |-> filters, searches |-> words # {}, words |-> words,
   order |-> order, descending |-> desc]
Asks(field, op, value) == {[field |-> field, op |-> op, value |-> value]}

BlankText == {[QueryOf({}, {}, "id", FALSE) EXCEPT !.searches = TRUE]}

MCQueries ==
  {QueryOf({}, {}, "due", desc) : desc \in BOOLEAN} \union
  {QueryOf(Asks("due", op, <<"A">>), {}, "id", FALSE) :
     op \in {"equals", "contains", "prefix", "less", "greater", "present", "absent"}} \union
  {QueryOf(Asks("tag", op, <<"b">>), {}, "id", TRUE) :
     op \in {"equals", "contains", "absent"}} \union
  {QueryOf({}, {w}, "id", FALSE) :
     w \in {<<"ae">>, <<"b">>, <<"a", ",", "b">>, <<"]">>}} \union BlankText

\* Every text of up to four lines out of these.
SampleLines ==
  {Fence, Blank, TextLine(<<"a">>), FieldLine("id", <<>>), FieldLine("due", <<" ", "a", " ", "b">>),
   [FieldLine("due", <<"a">>) EXCEPT !.indented = TRUE]} \union
  {FieldLine("tag", v) : v \in {<<"[", "]">>, <<" ", "[", " ", "]">>, <<"[", "a", ",", "b", "]">>,
     <<"[", "a", ",", "]">>, <<"[", "[", "a", "]", "]", " ">>, <<"[", "a">>, <<"]">>}}
MCSamples == UNION {[1 .. n -> SampleLines] : n \in 0 .. 4}
================================================================================
