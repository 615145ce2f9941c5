------------------------------- MODULE Collation -------------------------------
(***************************************************************************)
(* Sorting and searching with umlauts (core/collate.c).  A text is a       *)
(* sequence of characters; a table gives some of them a replacement of one *)
(* or more characters, capitals without an entry become small, and all     *)
(* others stay.  The code folds two texts side by side, byte by byte;      *)
(* here both are folded first, which gives the same answer.                *)
(***************************************************************************)
EXTENDS Naturals, Sequences

CONSTANTS
  Code,        \* character -> its place in the character set
  SmallOf      \* capital A to Z -> its small letter

\* The places of characters are numbers; what a text is made of in a record is
\* among them.
ASSUME CodeAssumption ==
  /\ Code \in [DOMAIN Code -> Nat] /\ {" ", ",", "[", "]"} \subseteq DOMAIN Code
  /\ SmallOf \in [DOMAIN SmallOf -> DOMAIN Code]

\* strcmp: the first difference decides, a text precedes its continuations.
Before(s, t) ==
  \E k \in 0 .. Len(s) :
    /\ k <= Len(t)
    /\ \A i \in 1 .. k : s[i] = t[i]
    /\ IF k = Len(s) THEN k < Len(t)
       ELSE k < Len(t) /\ Code[s[k + 1]] < Code[t[k + 1]]

Replacement(table, ch) ==
  IF ch \in DOMAIN table THEN table[ch]
  ELSE IF ch \in DOMAIN SmallOf THEN <<SmallOf[ch]>>
  ELSE <<ch>>

Fold(table, s) ==
  LET folded[i \in 0 .. Len(s)] ==
        IF i = 0 THEN <<>> ELSE folded[i - 1] \o Replacement(table, s[i])
  IN folded[Len(s)]

OccursAt(hay, needle, i) ==
  /\ i + Len(needle) <= Len(hay)
  /\ \A j \in 1 .. Len(needle) : hay[i + j] = needle[j]

StartsWith(table, s, prefix) ==
  OccursAt(Fold(table, s), Fold(table, prefix), 0)

HasInside(table, s, needle) ==
  \E i \in 0 .. Len(Fold(table, s)) : OccursAt(Fold(table, s), Fold(table, needle), i)

\* collate_compare(s, t) < 0: folded first, and unfolded where that is equal.
SortsBefore(table, s, t) ==
  \/ Before(Fold(table, s), Fold(table, t))
  \/ Fold(table, s) = Fold(table, t) /\ Before(s, t)
================================================================================
