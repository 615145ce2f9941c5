------------------------------- MODULE PageBrowser -------------------------------
(***************************************************************************)
(* The browser for SPARTAN pages (data/apps/spartan.lua) with what it uses *)
(* of the program: fetching over the network (net/spartan.c,               *)
(* net/plat_transport.c, plat/plat_net_posix.c, lua/pdalua_net.c), the     *)
(* viewer and its scroll bar (lua/pdalua_widgets.c).                       *)
(*                                                                         *)
(* Fetching blocks the only thread, so no event comes in between; but it   *)
(* goes in steps, each of which may fail.  A reply is measured in units: a *)
(* line of the body is one, the status line takes HeadLen of them.         *)
(***************************************************************************)
EXTENDS SpartanUrl, GemView

CONSTANTS
  Start,         \* START: the address at the beginning
  Replies,       \* the replies servers give
  Gives(_, _, _),  \* host, path and reply -> it may be the reply to that request
  HeadLen,       \* how long a status line is
  MetaMax,       \* SPARTAN_META_MAX
  PageMax,       \* PAGE_MAX: the buffer for a reply, with the null at the end
  Paths, Texts, Lines,  \* samples of paths, of addresses and of lines of text
  Frames,        \* the sizes the window gives to the viewer
  Typed,         \* the texts that are typed, digits apart
  AddressMax,    \* bound: how long a typed address gets
  HistoryMax     \* bound: how many entries the history has

ASSUME PagesAssumption ==
  /\ Replies \subseteq [status : Int, meta : Seq(STRING), body : Seq(Seq(STRING))]
  /\ Frames \subseteq [w : Nat, h : Nat]
  /\ HeadLen \in Nat /\ PageMax \in Nat

ASSUME TextsAssumption ==
  /\ Paths \subseteq {path \in Seq(STRING) : path # <<>> /\ path[1] = "/"}
  /\ Texts \subseteq Seq(STRING) /\ Lines \subseteq Seq(STRING)

VARIABLES
  address, editing, marked, history,   \* browser.address, .editing, .selected, .history
  heading,     \* browser.heading: of the page, or none
  view,        \* the viewer
  frame,       \* the frame it was last given
  net,         \* the running fetch
  sock,        \* s_sock: there is a connection
  shown,       \* ghost: what the page shown is, and where it was fetched
  origin,      \* ghost: the page that the page shown was opened from
  typed        \* ghost: the address was typed since the page was shown

app == <<address, editing, marked, history, heading>>
widgets == <<view, frame>>
ghosts == <<shown, origin, typed>>
vars == <<app, widgets, net, sock, ghosts>>

Idle == [phase |-> "idle"]
NoText == <<"none">>

Init ==
  /\ address = Start
  /\ editing = FALSE /\ marked = FALSE
  /\ history = <<>>
  /\ heading = NoText
  /\ view = NewView
  /\ frame = [w |-> 0, h |-> 0]
  /\ net = Idle
  /\ sock = FALSE
  /\ shown = [kind |-> "none", url |-> Start]
  /\ origin = NoText
  /\ typed = FALSE

Now == Ensured(view, frame)

--------------------------------------------------------------------------------
(* Fetching.                                                               *)

\* browser.go up to net.fetch, for an address that is typed, remembered or
\* resolved; what cannot be parsed fails at once.
Go(url, remember, from, left) ==
  /\ Len(left) < HistoryMax
  /\ IF ParseUrl(url).ok
     THEN net' = [phase |-> "open", url |-> url, parsed |-> ParseUrl(url),
                  remember |-> remember, from |-> from, n |-> 0, reply |-> <<>>]
     ELSE UNCHANGED net
  /\ history' = left

\* t_open: a connection that was left open is closed first.
Opens ==
  /\ net.phase = "open"
  /\ \E reply \in Replies :
       /\ Gives(net.parsed.host, net.parsed.path, reply)
       /\ net' = [net EXCEPT !.phase = "send", !.reply = reply]
  /\ sock' = TRUE
  /\ UNCHANGED <<app, widgets, ghosts>>

Fail ==
  /\ sock' = FALSE
  /\ net' = Idle
  /\ UNCHANGED <<app, widgets, ghosts>>

OpenFails == net.phase = "open" /\ Fail

Sends ==
  /\ net.phase = "send"
  /\ net' = [net EXCEPT !.phase = "recv"]
  /\ UNCHANGED <<app, widgets, sock, ghosts>>

SendFails == net.phase = "send" /\ Fail

Full == net.n + 1 >= PageMax

\* A call of recv_some that brings at least one unit.
Receives ==
  /\ net.phase = "recv"
  /\ ~Full
  /\ \E got \in 1 .. PageMax - 1 - net.n :
       /\ net.n + got <= HeadLen + Len(net.reply.body)
       /\ net' = [net EXCEPT !.n = @ + got]
  /\ UNCHANGED <<app, widgets, sock, ghosts>>

\* The peer goes away, or sends nothing for TIMEOUT_SECONDS.
ReceiveFails == net.phase = "recv" /\ ~Full /\ Fail

\* What spartan_parse_response can make of the units that came.
Understood ==
  net.n >= HeadLen /\ net.reply.status \in 2 .. 5 /\ Len(net.reply.meta) < MetaMax

\* What the viewer is given: the redirect as a link, or the body as far as it
\* came.
TextOf(reply, n) ==
  IF reply.status = 3 THEN <<<<"=", ">", " ">> \o reply.meta>>
  ELSE SubSeq(reply.body, 1, n - HeadLen)

FirstHeading(text) ==
  LET headings == SelectSeq(GemLines(text), LAMBDA line : line.kind = "heading" /\ line.chars # <<>>)
  IN IF headings = <<>> THEN NoText ELSE headings[1].chars

\* Mutant: the page that is opened is remembered, not the one that is left.
ShowsPageLate(text) ==
  LET url == FormatUrl(net.parsed)
  IN /\ address' = url
     /\ history' = IF net.remember /\ address # net.url THEN Append(history, url) ELSE history
     /\ heading' = FirstHeading(text)
     /\ shown' = [kind |-> "page", url |-> url]
     /\ typed' = FALSE
     /\ origin' = IF net.from # NoText /\ address # net.url THEN net.from ELSE NoText

\* browser.go with status 2.
ShowsPage(text) ==
  LET url == FormatUrl(net.parsed)
  IN /\ address' = url
     /\ history' = IF net.remember /\ address # net.url THEN Append(history, address) ELSE history
     /\ heading' = FirstHeading(text)
     /\ shown' = [kind |-> "page", url |-> url]
     /\ typed' = FALSE
     /\ origin' = IF net.from # NoText /\ address # net.url THEN net.from ELSE NoText

\* browser.go with any other status: the address stays.
ShowsOther ==
  /\ heading' = NoText
  /\ shown' = [shown EXCEPT !.kind = "other"]
  /\ origin' = NoText
  /\ UNCHANGED <<address, history, typed>>

\* What browser.go makes of the units that came.
Finish ==
  /\ sock' = FALSE
  /\ net' = Idle
  /\ IF Understood
     THEN LET text == TextOf(net.reply, net.n)
          IN /\ IF net.reply.status = 2 THEN ShowsPage(text) ELSE ShowsOther
             /\ view' = TextSet(view, text)
             /\ UNCHANGED <<editing, marked, frame>>
     ELSE UNCHANGED <<app, widgets, ghosts>>

\* Mutant: a full buffer does not end it, and the next call asks for nothing.
FinishesUnlessFull == net.phase = "recv" /\ ~Full /\ Finish

\* The end of spartan_fetch: the buffer is full, or the peer has closed, be it
\* at the end of the page or before.
Finishes == net.phase = "recv" /\ Finish

--------------------------------------------------------------------------------
(* Drawing.                                                                *)

\* The viewer is placed, for the window has whatever size the user gave it;
\* it draws itself, and the bar after it.
Draw(size) ==
  /\ frame' = size
  /\ view' = Ensured(view, size)
  /\ UNCHANGED <<app, ghosts>>

--------------------------------------------------------------------------------
(* Events of the mouse.                                                    *)

\* The wheel goes to the model at once, whether its lines are broken or not.
Wheel(delta) ==
  /\ view' = [view EXCEPT !.m = ScrollBy(@, delta)]
  /\ UNCHANGED <<app, frame, ghosts>>

ClickAddress ==
  /\ editing' = TRUE /\ marked' = TRUE
  /\ UNCHANGED <<address, history, heading, widgets, ghosts>>

\* The scroll bar: its arrows, its track and, once the thumb is held, any
\* position at all; module Form has its geometry.
UseBar ==
  /\ ScrollNeeded(view.m)
  /\ \/ \E delta \in {-1, 1} :
          \/ view' = [view EXCEPT !.m = ScrollBy(@, delta)]
          \/ view' = [view EXCEPT !.m = ScrollPages(@, delta)]
     \/ \E value \in 0 .. ScrollMax(view.m) : view' = [view EXCEPT !.m = ScrollTo(@, value)]
  /\ UNCHANGED <<app, frame, ghosts>>

\* Mutant: a link is resolved against the page it stands on.
OpenLinkOfPage(v, number) ==
  LET target == ResolveText(shown.url, LinkUrl(v, number))
  IN IF LinkUrl(v, number) # <<>> /\ target.ok
     THEN Go(target.url, TRUE,
             IF shown.kind = "page" /\ ~typed THEN shown.url ELSE NoText, history)
     ELSE UNCHANGED <<net, history>>

\* browser.open_link: nothing happens if the address cannot be resolved.
OpenLink(v, number) ==
  LET target == ResolveText(address, LinkUrl(v, number))
  IN IF LinkUrl(v, number) # <<>> /\ target.ok
     THEN Go(target.url, TRUE,
             IF shown.kind = "page" /\ ~typed THEN shown.url ELSE NoText, history)
     ELSE UNCHANGED <<net, history>>

\* A click on a line of the viewer; the second one opens the link.
ClickView(row, clicks) ==
  LET v == Pressed(Now, row, clicks)
  IN /\ row < frame.h
     /\ IF v.opened THEN OpenLink(v, v.selected) ELSE UNCHANGED <<net, history>>
     /\ view' = [v EXCEPT !.opened = FALSE]
     /\ UNCHANGED <<address, editing, marked, heading, frame, ghosts>>

--------------------------------------------------------------------------------
(* Events of the keyboard.                                                 *)

TypeAddress(text) ==
  /\ address' = IF editing /\ ~marked THEN address \o text ELSE text
  /\ Len(address') <= AddressMax
  /\ editing' = TRUE /\ marked' = FALSE
  /\ typed' = TRUE
  /\ UNCHANGED <<history, heading, widgets, shown, origin>>

\* While the address is not edited the viewer takes every digit.
TypeDigit(digit) ==
  /\ ~editing
  /\ view' = DigitTyped(Now, digit)
  /\ UNCHANGED <<app, frame, ghosts>>

Enter ==
  /\ IF view.selected > 0 /\ ~editing
     THEN /\ OpenLink(Now, view.selected)
          /\ UNCHANGED <<editing, marked>>
     ELSE /\ Go(address, TRUE, NoText, history)
          /\ editing' = FALSE /\ marked' = FALSE
  /\ UNCHANGED <<address, heading, widgets, ghosts>>

\* Backspace: a character of the address, or one page back.
EraseAddress ==
  /\ editing
  /\ address' = IF marked THEN <<>> ELSE SubSeq(address, 1, Len(address) - 1)
  /\ marked' = FALSE
  /\ typed' = TRUE
  /\ UNCHANGED <<editing, history, heading, widgets, shown, origin>>

\* browser.back: the entry is gone, whatever becomes of the fetch.
Back ==
  /\ ~editing
  /\ history # <<>>
  /\ Go(Last(history), FALSE, NoText, Front(history))
  /\ origin' = NoText
  /\ UNCHANGED <<address, editing, marked, heading, widgets, shown, typed>>

\* Esc: the address keeps what was typed.
Escape ==
  /\ editing' = FALSE /\ marked' = FALSE
  /\ UNCHANGED <<address, history, heading, widgets, ghosts>>

ScrollKey(key) ==
  /\ view' = KeyScrolled(Now, key)
  /\ UNCHANGED <<app, frame, ghosts>>

--------------------------------------------------------------------------------
Fetch ==
  \/ Opens \/ OpenFails \/ Sends \/ SendFails
  \/ Receives \/ ReceiveFails \/ Finishes

\* Events that start no fetch.
Plain ==
  \/ \E size \in Frames : Draw(size)
  \/ \E delta \in {-1, 1} : Wheel(delta)
  \/ ClickAddress \/ UseBar
  \/ \E text \in Typed : TypeAddress(text)
  \/ \E digit \in 0 .. 9 : TypeDigit(digit)
  \/ EraseAddress \/ Escape
  \/ \E key \in {"up", "down", "page_up", "page_down", "home", "end"} : ScrollKey(key)

Event ==
  /\ net = Idle
  /\ UNCHANGED sock
  /\ \/ Plain /\ UNCHANGED net
     \/ \E row \in 0 .. LinesMax - 1, clicks \in 1 .. 2 : ClickView(row, clicks)
     \/ Enter \/ Back

Next == Fetch \/ Event

\* A fetch goes on: every call of the platform returns, if only because of the
\* timeouts set by plat_connect.
Spec == Init /\ [][Next]_vars /\ WF_vars(Fetch)

--------------------------------------------------------------------------------
(* Properties.                                                             *)

\* Addresses are resolved and formatted, and lines of text are parted, as they
\* should be, for all samples; looked at once, where the program begins
\* (normalize, spartan_parse_url, classify).
SamplesAreRight ==
  view = NewView /\ net = Idle /\ address = Start =>
    /\ \A path \in Paths : NormalizedIsRight(path)
    /\ \A text \in Texts : FormattedIsReadBack(text)
    /\ \A line \in Lines : NothingIsLost(line)

\* Back leads to where a link was followed (browser.go, browser.back): when a link
\* led from one page to another, that page is the last of the history, through
\* typing, failed fetches and redirects - unless Back was tried since, for then the
\* entry is gone, whatever became of the fetch.
BackLeadsToOrigin == origin # NoText => history # <<>> /\ Last(history) = origin

\* Whatever was typed, given up with Esc and left in the address, Back finds only
\* addresses that can be opened: the history takes one in just as a link of the
\* page could be resolved against it, or not at all (browser.go, l_resolve).  So an
\* entry is lost to a server, never to a half typed address.
EveryEntryOpens == \A i \in DOMAIN history : ParseUrl(history[i]).ok

\* Whatever way a fetch ends, the connection is closed (spartan_fetch).
NoSocketLeftOpen == net = Idle => ~sock

\* A fetch that was begun ends, whatever the server sends (the buffer is full one
\* day, and no call waits for ever), and then its connection is closed.
FetchEnds == net # Idle ~> (net = Idle /\ NoSocketLeftOpen)

\* What the viewer shows after it was drawn is the text it was given, within
\* the window, from a first line that exists (ensure_wrap).
ViewShowsText ==
  view.valid => /\ LinesShowText(view, frame.w)
                /\ view.selected <= Len(view.links)
                /\ view.m.value <= ScrollMax(view.m)
================================================================================
