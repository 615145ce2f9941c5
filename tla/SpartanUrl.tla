------------------------------- MODULE SpartanUrl -------------------------------
(***************************************************************************)
(* Addresses of the SPARTAN protocol (net/spartan.c): taking one apart,    *)
(* putting it together, and resolving the link of a page against the       *)
(* address of the page.                                                    *)
(*                                                                         *)
(* A text is a sequence of characters; "spartan" counts as one of them,    *)
(* and so does every other word.  Digits are the characters of DigitValue. *)
(***************************************************************************)
EXTENDS Integers, Sequences, FiniteSets, FiniteSetsExt

CONSTANTS
  DigitValue,    \* character -> its value, for the digits
  DefaultPort,   \* SPARTAN_PORT
  PortMax,       \* the largest port
  HostMax,       \* SPARTAN_HOST_MAX
  PathMax        \* SPARTAN_PATH_MAX, with the null at the end

ASSUME UrlsAssumption ==
  /\ DefaultPort \in 1 .. PortMax /\ PortMax \in Nat /\ HostMax \in Nat /\ PathMax \in Nat
  /\ DOMAIN DigitValue \subseteq STRING \ {"spartan", ":", "/", " "}
  /\ \A ch \in DOMAIN DigitValue : DigitValue[ch] \in 0 .. 9
  /\ \A v \in 0 .. 9 : \E ch \in DOMAIN DigitValue : DigitValue[ch] = v

NoUrl == [ok |-> FALSE]

OccursIn(s, part, i) ==
  i + Len(part) - 1 <= Len(s) /\ \A j \in DOMAIN part : s[i + j - 1] = part[j]

\* Where a part occurs first, or after the end.
FirstOf(s, part) ==
  Min({i \in DOMAIN s : OccursIn(s, part, i)} \union {Len(s) + 1})

Colons == <<":", "/", "/">>
Scheme == <<"spartan">> \o Colons

From(s, i) == SubSeq(s, i, Len(s))
UpTo(s, i) == SubSeq(s, 1, i - 1)

\* Without the spaces in front, and without those at the end.
LeftTrimmed(s) == From(s, Min({i \in DOMAIN s : s[i] # " "} \union {Len(s) + 1}))
RightTrimmed(s) == SubSeq(s, 1, Max({i \in DOMAIN s : s[i] # " "} \union {0}))

\* A number out of digits; more than PortMax for anything else, also where the
\* number runs over on the way.
PortOf(s) ==
  LET value[i \in 0 .. Len(s)] ==
        IF i = 0 THEN 0
        ELSE IF s[i] \notin DOMAIN DigitValue \/ value[i - 1] > PortMax THEN PortMax + 1
        ELSE value[i - 1] * 10 + DigitValue[s[i]]
  IN value[Len(s)]

DigitsOf(n) ==
  LET Digit(v) == CHOOSE ch \in DOMAIN DigitValue : DigitValue[ch] = v
      text[v \in 0 .. PortMax] ==
        IF v < 10 THEN <<Digit(v)>> ELSE text[v \div 10] \o <<Digit(v % 10)>>
  IN text[n]

\* spartan_parse_url.
ParseUrl(text) ==
  LET t == LeftTrimmed(text)
      named == OccursIn(t, Scheme, 1)
      p == IF named THEN From(t, Len(Scheme) + 1) ELSE t
      slash == FirstOf(p, <<"/">>)
      authority == UpTo(p, slash)
      colon == FirstOf(authority, <<":">>)
      host == UpTo(authority, colon)
      port == IF colon > Len(authority) THEN DefaultPort ELSE PortOf(From(authority, colon + 1))
      path == IF slash > Len(p) THEN <<"/">> ELSE RightTrimmed(From(p, slash))
  IN IF \/ ~named /\ FirstOf(t, Colons) < FirstOf(t, <<"/">>)
        \/ host = <<>> \/ Len(host) >= HostMax \/ " " \in {host[i] : i \in DOMAIN host}
        \/ port = 0 \/ port > PortMax
        \/ Len(path) >= PathMax
     THEN NoUrl
     ELSE [ok |-> TRUE, host |-> host, port |-> port, path |-> path]

\* spartan_format_url; its buffer holds every address that can be parsed.
FormatUrl(u) ==
  Scheme \o u.host
    \o (IF u.port = DefaultPort THEN <<>> ELSE <<":">> \o DigitsOf(u.port)) \o u.path

--------------------------------------------------------------------------------
(* Resolving.                                                              *)

\* dirname_of: up to the last slash, and with it.
DirName(path) == SubSeq(path, 1, Max({i \in DOMAIN path : path[i] = "/"} \union {0}))

\* The pieces between the slashes, in order, empty ones left out.
Segments(path) ==
  LET Closed(read) == IF read.word = <<>> THEN read.done ELSE Append(read.done, read.word)
      upTo[i \in 0 .. Len(path)] ==
        IF i = 0 THEN [done |-> <<>>, word |-> <<>>]
        ELSE IF path[i] = "/" THEN [done |-> Closed(upTo[i - 1]), word |-> <<>>]
        ELSE [upTo[i - 1] EXCEPT !.word = Append(@, path[i])]
  IN Closed(upTo[Len(path)])

Dot == <<".">>
DotDot == <<".", ".">>

\* Mutant: ".." climbs out of the root.
ParentOfAny(path) == DirName(SubSeq(path, 1, Len(path) - 1))

\* Without the last piece of "/a/b/", and never above the root.
Parent(path) ==
  IF path = <<"/">> THEN path ELSE DirName(SubSeq(path, 1, Len(path) - 1))

\* The loop of normalize: every piece with a slash behind it.  The first that
\* does not fit ends it, and nothing is said of the rest.
Collected(segs) ==
  LET Fits(path, seg) == Len(path) + Len(seg) + 2 < PathMax
      upTo[k \in 0 .. Len(segs)] ==
        IF k = 0 THEN [path |-> <<"/">>, full |-> FALSE]
        ELSE LET before == upTo[k - 1]
                 seg == segs[k]
             IN IF before.full \/ seg = Dot THEN before
                ELSE IF seg = DotDot THEN [before EXCEPT !.path = Parent(@)]
                ELSE IF Fits(before.path, seg) THEN [before EXCEPT !.path = @ \o seg \o <<"/">>]
                ELSE [before EXCEPT !.full = TRUE]
  IN upTo[Len(segs)].path

\* normalize: a slash stays at the end only where there was one.
Normalized(path) ==
  LET out == Collected(Segments(path))
  IN IF Len(out) > 1 /\ path[Len(path)] # "/" THEN SubSeq(out, 1, Len(out) - 1) ELSE out

\* spartan_resolve; what has "://" in it, wherever, is an address of its own.
Resolve(base, href) ==
  LET path == IF href[1] = "/" THEN href ELSE DirName(base.path) \o href
  IN IF href = <<>> THEN NoUrl
     ELSE IF FirstOf(href, Colons) <= Len(href) THEN ParseUrl(href)
     ELSE IF Len(path) >= PathMax THEN NoUrl
     ELSE [base EXCEPT !.path = Normalized(path)]

\* l_resolve of lua/pdalua_net.c: texts in, a text or nothing out.
ResolveText(base, href) ==
  LET b == ParseUrl(base)
      u == Resolve(b, href)
  IN IF b.ok /\ u.ok THEN [ok |-> TRUE, url |-> FormatUrl(u)] ELSE NoUrl

--------------------------------------------------------------------------------
(* What resolving should give, said without a loop.                        *)

\* A piece stays unless it is a dot, or a later ".." takes it away: somewhere
\* behind it there are more ".." than names.
Stays(segs, k) ==
  LET Dots(j) == Cardinality({i \in k + 1 .. j : segs[i] = DotDot})
      Names(j) == Cardinality({i \in k + 1 .. j : segs[i] \notin {Dot, DotDot}})
  IN /\ segs[k] \notin {Dot, DotDot}
     /\ \A j \in k + 1 .. Len(segs) : Dots(j) <= Names(j)

\* Those that stay, in their order.
Staying(segs) ==
  MapThenFoldSet(LAMBDA k, before : Append(before, segs[k]), <<>>,
                 LAMBDA k : k, Max, {k \in DOMAIN segs : Stays(segs, k)})

\* Taking the dots out of a path leaves the names that no ".." takes away, in
\* their order, with a slash at the end only where the path had one
\* (normalize) - as long as the path is two characters shorter than the buffer;
\* else the loop drops the last names without a word.
NormalizedIsRight(path) ==
  Len(path) + 2 < PathMax =>
    /\ OccursIn(Normalized(path), <<"/">>, 1)
    /\ Segments(Normalized(path)) = Staying(Segments(path))
    /\ Staying(Segments(path)) # <<>> =>
         (Normalized(path)[Len(Normalized(path))] = "/" <=> path[Len(path)] = "/")

\* An address that was formatted is parsed to what it was.
FormattedIsReadBack(text) ==
  LET u == ParseUrl(text) IN u.ok => ParseUrl(FormatUrl(u)) = u
================================================================================
