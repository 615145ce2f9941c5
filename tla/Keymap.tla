--------------------------------- MODULE Keymap ---------------------------------
(***************************************************************************)
(* The key bindings (core/keymap.c): how a file of them is read, which     *)
(* action a key leads to, and which shortcut the menus show for an action. *)
(* A line is the sequence of its words, as core/lines.c parts them; a      *)
(* shortcut is the sequence of what stands between its plus signs.         *)
(***************************************************************************)
EXTENDS Naturals, SequencesExt, FiniteSetsExt

CONSTANTS
  Lower,      \* what may be written between plus signs -> in small letters
  Characters, \* the single characters among the latter
  LongNames,  \* names of actions and scopes longer than KEYMAP_NAME_MAX
  NoAction    \* the null pointer for an action

--------------------------------------------------------------------------------
(* Shortcuts.                                                              *)

\* MOD_NAMES and KEY_NAMES, with how format_shortcut writes each of the latter.
Modifiers == {"cmd", "ctrl", "shift", "alt"}

Titled ==
  [tab |-> "Tab", return |-> "Return", esc |-> "Esc", space |-> "Space",
   backspace |-> "Backspace", delete |-> "Delete", up |-> "Up", down |-> "Down",
   left |-> "Left", right |-> "Right", home |-> "Home", end |-> "End",
   pageup |-> "PageUp", pagedown |-> "PageDown",
   f1 |-> "F1", f2 |-> "F2", f3 |-> "F3", f4 |-> "F4", f5 |-> "F5", f6 |-> "F6",
   f7 |-> "F7", f8 |-> "F8", f9 |-> "F9", f10 |-> "F10", f11 |-> "F11", f12 |-> "F12"]

\* What small letters are; the names above are written in them, "" is no name.
LowerAssumption ==
  /\ Lower \in [DOMAIN Lower -> DOMAIN Lower]
  /\ \A c \in DOMAIN Lower : Lower[Lower[c]] = Lower[c]
  /\ "" \in DOMAIN Lower /\ Lower[""] = "" /\ "" \notin Characters
  /\ {"Cmd", "Ctrl", "Alt", "Shift"} \subseteq DOMAIN Lower
  /\ Lower["Cmd"] = "cmd" /\ Lower["Ctrl"] = "ctrl"
  /\ Lower["Alt"] = "alt" /\ Lower["Shift"] = "shift"
  /\ \A k \in DOMAIN Titled : Titled[k] \in DOMAIN Lower /\ Lower[Titled[k]] = k

NoShortcut == [ok |-> FALSE]

\* keymap_parse_shortcut: any number of modifiers, then one key.
ParseShortcut(parts) ==
  LET mods == {Lower[parts[i]] : i \in 1 .. Len(parts) - 1}
      key == Lower[Last(parts)]
  IN IF \/ parts = <<>> \/ \E i \in DOMAIN parts : parts[i] = ""
        \/ ~(mods \subseteq Modifiers) \/ key \notin Characters \union DOMAIN Titled
     THEN NoShortcut
     ELSE [ok |-> TRUE, key |-> key, mods |-> mods]

\* format_shortcut: the modifiers in an order of its own, and the key; a single
\* character as a capital.
Capital(ch) ==
  LET larger == {c \in DOMAIN Lower : Lower[c] = ch} \ {ch}
  IN IF larger = {} THEN ch ELSE CHOOSE c \in larger : TRUE

Named(key) == IF key \in DOMAIN Titled THEN Titled[key] ELSE Capital(key)

IfHeld(m, e) == IF Lower[m] \in e.mods THEN <<m>> ELSE <<>>

Formatted(e) ==
  IfHeld("Cmd", e) \o IfHeld("Ctrl", e) \o IfHeld("Alt", e) \o IfHeld("Shift", e)
    \o <<Named(e.key)>>

--------------------------------------------------------------------------------
(* The table.                                                              *)

EntryOf(line) ==
  LET s == ParseShortcut(line[2])
  IN [action |-> line[1], key |-> s.key, mods |-> s.mods, scope |-> line[3]]

LineIsGood(line) ==
  /\ Len(line) = 3
  /\ line[1] \notin LongNames /\ line[3] \notin LongNames
  /\ ParseShortcut(line[2]).ok

\* A file of lines, each of any words; a shortcut of parts that Lower knows.
IsFile(lines) ==
  /\ DOMAIN lines \subseteq Nat \ {0}
  /\ \A i \in DOMAIN lines : Len(lines[i]) = 3 => lines[i][2] \in Seq(DOMAIN Lower)

\* A key twice in a scope, or an action twice anywhere.
Clash(a, b) ==
  \/ a.key = b.key /\ a.mods = b.mods /\ a.scope = b.scope
  \/ a.action = b.action

\* keymap_load: all lines or nothing.
NoKeymap == [ok |-> FALSE]

Loaded(lines) ==
  IF \A i \in DOMAIN lines :
       /\ LineIsGood(lines[i])
       /\ \A j \in 1 .. i - 1 : ~Clash(EntryOf(lines[i]), EntryOf(lines[j]))
  THEN [ok |-> TRUE, entries |-> [i \in DOMAIN lines |-> EntryOf(lines[i])]]
  ELSE NoKeymap

ActionsOf(km, key, mods, scope) ==
  {km.entries[i].action : i \in {j \in DOMAIN km.entries :
     /\ km.entries[j].key = key /\ km.entries[j].mods = mods
     /\ km.entries[j].scope = scope}}

\* Mutant: what is global goes first.
LookupGlobalFirst(km, key, mods, scope) ==
  LET own == ActionsOf(km, key, mods, scope)
      everywhere == ActionsOf(km, key, mods, "global")
  IN IF everywhere # {} THEN CHOOSE a \in everywhere : TRUE
     ELSE IF own # {} THEN CHOOSE a \in own : TRUE ELSE NoAction

\* keymap_lookup: in the scope, then in "global".
Lookup(km, key, mods, scope) ==
  LET own == ActionsOf(km, key, mods, scope)
      everywhere == ActionsOf(km, key, mods, "global")
  IN IF own # {} THEN CHOOSE a \in own : TRUE
     ELSE IF everywhere # {} THEN CHOOSE a \in everywhere : TRUE ELSE NoAction

\* keymap_describe: what the menus show for an action, if anything.
Describe(km, action) ==
  LET at == {i \in DOMAIN km.entries : km.entries[i].action = action}
  IN IF at = {} THEN <<>> ELSE Formatted(km.entries[Min(at)])

--------------------------------------------------------------------------------
\* What is shown for an action is what has to be pressed for it in its scope, in
\* whatever order and case the file has it, and no other action is shown with
\* the same shortcut there.
ShownIsPressed(km) ==
  \A i \in DOMAIN km.entries :
    LET e == km.entries[i]
        s == ParseShortcut(Describe(km, e.action))
    IN s.ok /\ Lookup(km, s.key, s.mods, e.scope) = e.action
================================================================================
