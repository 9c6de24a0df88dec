---------------------------- MODULE NewTabDialog ----------------------------
(***************************************************************************)
(* The dialog that opens hosts, tabs and buttons (NewTabDialog.tsx), with  *)
(* the view mode that its filter begins with (store.ts, ViewModePrefix).   *)
(*                                                                         *)
(* A filter is a sequence of tokens: prefixes, spaces and "w", a text that *)
(* matches some of the items.  The selected item is an index into the list *)
(* that is shown.  What an item opens is left to the other modules; here   *)
(* it closes the dialog.  The context menu offers the same as the rows do. *)
(***************************************************************************)
EXTENDS Lists, SequencesExt

CONSTANTS
    Latest,     \* recent hosts that are shown first, and while searching
    MaxRecent,  \* recent buttons that are remembered
    MaxNews     \* bound on changes of the lists

VARIABLES
    open, filter, index,
    recents,        \* hosts used before
    recentButtons,  \* ids of buttons used before
    hosts,          \* names of the hosts that are known
    pinned,         \* sessions that the dialog was told of
    news,
    moved           \* history: the list has changed since the index was set

vars == <<open, filter, index, recents, recentButtons, hosts, pinned, news, moved>>
lists == <<recents, recentButtons, hosts, pinned>>

Prefix == [servers |-> <<>>, buttons |-> <<">">>, tabs |-> <<"@">>, tags |-> <<"#">>,
           tunnels |-> <<":">>, help |-> <<"?">>]
Modes == <<"servers", "buttons", "tabs", "tags", "tunnels", "help">>
Marks == {">", "@", "#", ":", "?"}
Tokens == Marks \cup {" ", "w"}

-----------------------------------------------------------------------------
(* The view mode.                                                          *)

Has(f, token) == token \in ToSet(f)
\* What stands before the first such token.
Cut(f, token) == IF Has(f, token) THEN SubSeq(f, 1, SelectInSeq(f, LAMBDA t : t = token) - 1) ELSE f

ModeOf(token) ==
    CASE token = ">" -> "buttons"
      [] token = "@" -> "tabs"
      [] token = "#" -> "tags"
      [] token = ":" -> "tunnels"
      [] token = "?" -> "help"
      [] OTHER -> "servers"

\* parseNewTabDialogFilter.
Parse(f) ==
    LET mode == IF f = <<>> THEN "servers" ELSE ModeOf(f[1])
    IN IF mode = "servers" \/ (mode = "tags" /\ Has(f, " ")) THEN [mode |-> "servers", text |-> f]
       ELSE [mode |-> mode, text |-> Tail(f)]

Mode == Parse(filter).mode
Text == Filtered(Parse(filter).text, Tokens \ {" "})

\* The mode before or after this one.
Neighbour(mode, back) ==
    LET i == SelectInSeq(Modes, LAMBDA m : m = mode)
    IN Modes[((i - 1 + (IF back THEN 5 ELSE 1)) % 6) + 1]

\* mutant: the text of a search by tag goes on as it is
Changed_Uncut(f, target, reset) ==
    Prefix[target] \o (IF reset THEN <<>> ELSE Parse(f).text)

\* changeNewTabDialogViewMode.
Changed(f, target, reset) ==
    LET text == Parse(f).text
        tag == IF target # "tags" THEN text
               ELSE LET first == Cut(text, " ")
                    IN IF first # <<>> /\ first[1] = "#" THEN Tail(first) ELSE first
    IN Prefix[target] \o (IF reset THEN <<>> ELSE tag)

-----------------------------------------------------------------------------
(* The items.                                                              *)

Item(type, value) == [type |-> type, value |-> value]
Items(type, values) == [i \in DOMAIN values |-> Item(type, values[i])]
RecentTypes == {"recent_button", "recent_shortcut", "recent_builtin"}
Deletable(item) == item.type \in {"recent"} \cup RecentTypes

\* What the text leaves of a list.
Matching == {"h1", "r1", "w", "b1", "b3", "k1", "t1", "s1", "tag1", "l1"}
Matches(v) == Text = <<>> \/ (Text = <<"w">> /\ v \in Matching)
Matched(values) == Filtered(values, {v \in ToSet(values) : Matches(v)})

Favourite == {"h1"}
Auto == {"h3"}
Known(S) == Matched(Filtered(<<"h1", "h3", "r1", "r2", "w">>, S))

\* filteredRecents, filteredOlderRecents, filteredHosts, directConnect.
Servers ==
    LET used == Matched(recents)
        n == IF Len(used) < Latest THEN Len(used) ELSE Latest
    IN Items("recent", SubSeq(used, 1, n))
         \o Items("local", Matched(<<"l1", "l2">>))
         \o (IF Text = <<>> THEN Items("recent", SubSeq(used, n + 1, Len(used))) ELSE <<>>)
         \o Items("host", Known(hosts \cap Favourite))
         \o Items("host", Known(hosts \ (Favourite \cup Auto)))
         \o Items("host", Known((hosts \cap Auto) \ Favourite))
         \o (IF Text = <<"w">> THEN <<Item("direct", "w")>> ELSE <<>>)

\* Buttons of the active group, and of the others; k1 is a custom shortcut.
UserButtons == <<"b1", "b2">>
ActiveGroup == {"b2"}
Builtin == <<"b3">>
Shortcuts == <<"k1">>
There == ToSet(UserButtons \o Builtin \o Shortcuts)

\* recentButtons: those that are still there.
RecentButton(id) ==
    Item(CASE id \in ToSet(Builtin) -> "recent_builtin"
           [] id \in ToSet(Shortcuts) -> "recent_shortcut"
           [] OTHER -> "recent_button", id)
RecentItems ==
    LET there == Matched(Filtered(recentButtons, There))
    IN [i \in DOMAIN there |-> RecentButton(there[i])]
Buttons ==
    RecentItems
      \o Items("button", Filtered(Matched(UserButtons), ActiveGroup))
      \o Items("button", Filtered(Matched(UserButtons), There \ ActiveGroup))
      \o Items("custom_shortcut", Matched(Shortcuts))
      \o Items("builtin_button", Matched(Builtin))

\* attachablePinnedTabs: those that no tab shows.
Shown ==
    CASE Mode = "servers" -> Servers
      [] Mode = "buttons" -> Buttons
      [] Mode = "tabs" -> Items("tab", Matched(<<"t1">>)) \o Items("pinned_tab", Matched(pinned))
      [] Mode = "tags" -> Items("tag", Matched(<<"tag1", "tag2">>))
      [] Mode = "tunnels" -> Items("tunnel", Matched(IF news > 0 THEN <<"u1">> ELSE <<>>))
      [] Mode = "help" -> Items("help", Matched(Modes)) \o Items("link", Matched(<<"l1">>))

Selected == index \in 0 .. Len(Shown) - 1
SelectedItem == Shown[index + 1]

-----------------------------------------------------------------------------
(* The dialog.                                                             *)

\* Made anew whenever it is opened or closed; sessions are fetched then.
Show(f) ==
    /\ ~open /\ open' = TRUE
    /\ filter' = f
    /\ index' = 0 /\ moved' = FALSE
    /\ UNCHANGED <<lists, news>>
\* The + of the tab bar keeps the mode, with Shift also the text.
OpenDialog == Show(filter) \/ Show(Prefix[Mode]) \/ Show(<<>>)
Close == open' = FALSE /\ index' = 0 /\ moved' = FALSE
CloseDialog == open /\ Close /\ UNCHANGED <<filter, lists, news>>

\* The shortcuts alt+o, e, a, p, ; and /, which open the dialog or turn to a mode.
Turn(f) ==
    /\ open
    /\ filter' = f
    /\ moved' = (moved \/ f # filter)
    /\ UNCHANGED <<open, index, lists, news>>
Shortcut ==
    \E m \in ToSet(Modes) :
        \/ \E shift \in BOOLEAN : Show(Changed(filter, m, ~shift))
        \/ Turn(Changed(filter, m, FALSE))

\* Alt+Backspace.
ClearText == Turn(Prefix[Mode])

\* Alt+h and l, the arrows, a swipe: the next mode or the one before.
TurnPage == \E back \in BOOLEAN : Turn(Changed(filter, Neighbour(Mode, back), FALSE))

\* Some of what can be typed.
Typed == {<<>>, <<"w">>, <<"#", "w">>, <<"#", "w", " ", "w">>, <<">", ">">>, <<"@", "w">>}
Type ==
    /\ open
    /\ filter' \in Typed /\ filter' # filter
    /\ index' = 0 /\ moved' = FALSE
    /\ UNCHANGED <<open, lists, news>>

\* handleKeyDown: the arrows, also by several items or to the end.
ArrowDown ==
    /\ open
    /\ \E step \in {1, Len(Shown)} :
          index' = IF index + step < Len(Shown) THEN index + step ELSE Len(Shown) - 1
    /\ moved' = FALSE
    /\ UNCHANGED <<open, filter, lists, news>>
ArrowUp ==
    /\ open
    /\ \E step \in {1, Len(Shown)} : index' = IF index > step THEN index - step ELSE 0
    /\ UNCHANGED <<open, filter, lists, news, moved>>

\* handleDeleteItem, of alt+d, or of the button in the row.
DeleteItem(item) ==
    /\ Deletable(item)
    /\ IF item.type = "recent"
       THEN recents' = Filtered(recents, ToSet(recents) \ {item.value}) /\ UNCHANGED recentButtons
       ELSE /\ recentButtons' = Filtered(recentButtons, ToSet(recentButtons) \ {item.value})
            /\ UNCHANGED recents
    /\ index' = IF index > 0 THEN index - 1 ELSE 0
    /\ UNCHANGED <<open, filter, hosts, pinned, news, moved>>
DeleteSelected == open /\ Selected /\ DeleteItem(SelectedItem)
DeleteRow == open /\ (\E item \in ToSet(Shown) : DeleteItem(item))

\* handleSelect: alt mode 4 puts the host into the filter.
Fill(f, i) ==
    /\ filter' = f /\ index' = i
    /\ moved' = (i # 0)
    /\ UNCHANGED <<open, lists, news>>
OpensHost == {"host", "recent", "local", "direct", "button", "recent_button"}
ButtonTypes == {"button", "builtin_button", "recent_button", "recent_builtin"}
ShortcutTypes == {"custom_shortcut", "recent_shortcut"}

\* updateRecentButtonId.
Used(id) ==
    LET used == <<id>> \o Filtered(recentButtons, ToSet(recentButtons) \ {id})
    IN IF Len(used) > MaxRecent THEN SubSeq(used, 1, MaxRecent) ELSE used

\* A button is remembered unless it is run in an alternative mode, and a host
\* that is not known is saved unless the request fails.
Use(item) ==
    \/ item.type \in OpensHost /\ Fill(<<"w">>, index)
    \/ item.type = "tag" /\ Fill(<<"#", "w", " ">>, 0)
    \/ item.type = "help" /\ Fill(Prefix[CHOOSE m \in ToSet(Modes) : m = item.value], 0)
    \/ /\ item.type \notin {"tag", "help"}
       /\ Close
       /\ \/ item.type \in ButtonTypes \cup ShortcutTypes /\ recentButtons' = Used(item.value)
          \/ item.type \notin ShortcutTypes /\ UNCHANGED recentButtons
       /\ \/ item.type \in {"recent", "direct"} /\ hosts' = hosts \cup {item.value}
          \/ UNCHANGED hosts
       /\ UNCHANGED <<filter, recents, pinned, news>>
Enter == open /\ Selected /\ Use(SelectedItem)
Click == open /\ \E item \in ToSet(Shown) : Use(item)

\* Sessions, tunnels and hosts come in while the dialog is open.
News ==
    /\ open /\ news < MaxNews /\ news' = news + 1
    /\ pinned' = <<"s1">>
    /\ hosts' = hosts \ {"h1"}
    /\ moved' = TRUE
    /\ UNCHANGED <<open, filter, index, recents, recentButtons>>

-----------------------------------------------------------------------------

Init ==
    /\ open = FALSE /\ filter = <<>> /\ index = 0
    /\ recents = <<"r1", "r2">> /\ recentButtons = <<"b1", "k1">>
    /\ hosts = {"h1", "h3", "r1", "r2"} /\ pinned = <<>> /\ news = 0 /\ moved = FALSE

Next ==
    \/ OpenDialog
    \/ CloseDialog
    \/ Shortcut
    \/ ClearText
    \/ TurnPage
    \/ Type
    \/ ArrowDown
    \/ ArrowUp
    \/ DeleteSelected
    \/ DeleteRow
    \/ Enter
    \/ Click
    \/ News

Spec == Init /\ [][Next]_vars

-----------------------------------------------------------------------------

TypeOK ==
    /\ open \in BOOLEAN /\ moved \in BOOLEAN
    /\ ToSet(filter) \subseteq Tokens /\ index \in Int
    /\ Mode \in ToSet(Modes)

\* Enter finds an item wherever there is one, but after the list has changed
\* under the index: by a turn to another mode, which keeps it, or by news.
SelectionInRange == open /\ ~moved /\ Shown # <<>> => Selected

\* The mode that is turned to is the one that is shown, and a turn keeps what is
\* searched for; but the view of servers has no prefix, so that a text which
\* begins with one leads elsewhere, and tags are cut at the first space.
TurnsTo ==
    \A m \in ToSet(Modes) :
        LET text == Parse(filter).text
            p == Parse(Changed(filter, m, FALSE))
        IN \/ p.mode = m /\ (m # "tags" => p.text = text)
           \/ m = "servers" /\ text # <<>> /\ text[1] \in Marks

\* A host, a button or a recent button that matches is in the list once, in whichever
\* section, and nothing else is there as one.
OnceEach ==
    LET places(types) == {i \in DOMAIN Shown : Shown[i].type \in types}
        once(types, values) ==
            /\ \A i, j \in places(types) : Shown[i].value = Shown[j].value => i = j
            /\ {Shown[i].value : i \in places(types)} = {v \in values : Matches(v)}
    IN /\ Mode = "servers" => once({"host"}, hosts)
       /\ Mode = "buttons" => /\ once({"button"}, ToSet(UserButtons))
                              /\ once(RecentTypes, ToSet(recentButtons) \cap There)

DialogSafe == SelectionInRange /\ TurnsTo /\ OnceEach
=============================================================================
