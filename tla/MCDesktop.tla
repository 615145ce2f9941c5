------------------------------- MODULE MCDesktop -------------------------------
(* Model checking instance of Desktop: a list, a calendar and a script on a *)
(* screen of 2 x 3 cells.                                                   *)
EXTENDS Desktop, TLC
CONSTANTS tasks, events, script, r
MCApps == {tasks, events, script}
MCKindOf == (tasks :> "list") @@ (events :> "month") @@ (script :> "script")
MCRows == {r}
MCMenus == <<<<"app.about", "record.delete">>, <<Separator, events>>>>
MCFrames == {[x |-> 0, y |-> 1, w |-> 2, h |-> 2]}
\* The file, without what the shell has no use for, and with menus that have an
\* item of every kind.
MCKeyLines ==
  <<<<"edit.undo", <<"Cmd", "Z">>, "global">>, <<"edit.redo", <<"Cmd", "Shift", "Z">>, "global">>,
    <<tasks, <<"Cmd", "1">>, "global">>, <<events, <<"Cmd", "2">>, "global">>,
    <<"record.new", <<"Cmd", "N">>, "app">>, <<"record.save", <<"Cmd", "S">>, "app">>,
    <<"record.delete", <<"Cmd", "Backspace">>, "app">>, <<"window.close", <<"Cmd", "W">>, "app">>,
    <<"list.next", <<"Down">>, "list">>, <<"list.page.down", <<"PageDown">>, "list">>,
    <<"list.open", <<"Return">>, "list">>,
    <<"field.prev", <<"Shift", "Tab">>, "form">>, <<"form.accept", <<"Return">>, "form">>,
    <<"form.cancel", <<"Esc">>, "form">>>>

\* "strg" is no modifier.
Small ==
  {"", "cmd", "ctrl", "shift", "alt", "strg", "1", "2", "n", "s", "w", "z",
   "tab", "return", "esc", "space", "backspace", "delete", "up", "down", "left", "right", "home",
   "end", "pageup", "pagedown", "f1", "f2", "f3", "f4", "f5", "f6", "f7", "f8", "f9", "f10", "f11",
   "f12"}

MCLower ==
  [c \in Small |-> c]
  @@ [Cmd |-> "cmd", CMD |-> "cmd", Ctrl |-> "ctrl", Shift |-> "shift", Alt |-> "alt",
      Strg |-> "strg", N |-> "n", S |-> "s", W |-> "w", Z |-> "z", Tab |-> "tab",
      Return |-> "return", Esc |-> "esc", Space |-> "space", Backspace |-> "backspace",
      Delete |-> "delete", Up |-> "up", Down |-> "down", Left |-> "left", Right |-> "right",
      Home |-> "home", End |-> "end", PageUp |-> "pageup", PageDown |-> "pagedown",
      F1 |-> "f1", F2 |-> "f2", F3 |-> "f3", F4 |-> "f4", F5 |-> "f5", F6 |-> "f6", F7 |-> "f7",
      F8 |-> "f8", F9 |-> "f9", F10 |-> "f10", F11 |-> "f11", F12 |-> "f12"]

MCCharacters == {"1", "2", "n", "s", "w", "z"}

\* Two bindings, written in all kinds of ways.
MCSampleKeys ==
  LET Written == {<<"n">>, <<"alt", "CMD", "N">>, <<"Shift", "Ctrl", "pagedown">>, <<"Cmd", "cmd", "2">>,
                  <<"Strg", "N">>, <<"Cmd", "">>, <<>>, <<"N", "Cmd">>, <<"Cmd", "N">>, <<"Cmd", "Alt", "N">>}
      Line == {<<a, s, scope>> : a \in {"record.new", "much.too.long"}, s \in Written, scope \in {"app", "global"}}
      Other == {<<"record.open", s, scope>> : s \in Written, scope \in {"app", "global"}}
  IN {<<l, m>> : l \in Line, m \in Other \union {<<"record.save", <<"s">>>>}}
================================================================================
