----------------------------- MODULE SidebarTree ------------------------------
(***************************************************************************)
(* The list of hosts in the sidebar (Sidebar.tsx): favourites, the tree of *)
(* groups, and the hosts of known_hosts, as the filter and the expanded    *)
(* groups leave them, with the row that the keys of the filter select.     *)
(*                                                                         *)
(* A group is the sequence of its parts.  A filter is nothing, a tag, the  *)
(* name of a host or the name of a group.  Siblings are in the order of    *)
(* the list of groups, and then, as hosts are, in an order that is fixed.  *)
(* Opening a host, and the menus of a row, are left to the other modules.  *)
(***************************************************************************)
EXTENDS Integers, FiniteSets, Sequences, SequencesExt

CONSTANTS
    HostNames,
    Nodes,      \* the groups that there may be, with their ancestors
    MaxSteps    \* bound on what is done

VARIABLES
    hosts, groups,      \* of the store: the hosts, and the list of groups
    filterStr,
    expanded,           \* expandedGroups
    sections,           \* those that are open: favExpanded, allExpanded, autoExpanded
    index,              \* selectedIndex
    effects,            \* what has changed since the effects ran last
    steps

vars == <<hosts, groups, filterStr, expanded, sections, index, effects, steps>>

Tag == "#web"
Fav == "fav"
Host(name, group, tags, auto) == [name |-> name, group |-> group, tags |-> tags, isAuto |-> auto]
Sections == {"fav", "tree", "auto"}

Parent(p) == SubSeq(p, 1, Len(p) - 1)
Chain(p) == {SubSeq(p, 1, n) : n \in 1 .. Len(p)}

-----------------------------------------------------------------------------
(* The tree.                                                               *)

\* filterHosts: a tag, or a text that is in the name.
Matches(h) == filterStr \in {"", h.name} \cup h.tags
Favourites == {h \in hosts : Matches(h) /\ Fav \in h.tags}
Autos == {h \in hosts : Matches(h) /\ Fav \notin h.tags /\ h.isAuto}
TreeHosts == {h \in hosts : Matches(h) /\ ~h.isAuto}

\* allGroupPaths: the groups of the list and of the hosts, with their ancestors.
Paths == UNION {Chain(p) : p \in ToSet(groups) \cup {h.group : h \in TreeHosts}}
Members(p) == {h \in TreeHosts : h.group = p}

\* mutant: the groups below a group do not keep it
KeptPaths_Flat == {p \in Paths : filterStr \in {"", Last(p)} \/ Members(p) # {}}

\* pruneTree: a search keeps the groups that have something below them or its name.
KeptPaths ==
    LET paths == Paths
        kept[p \in paths] == \/ filterStr \in {"", Last(p)}
                             \/ Members(p) # {}
                             \/ \E q \in paths : Parent(q) = p /\ kept[q]
    IN {p \in paths : kept[p]}

\* getGroupOrder: the groups of the list first.
SubGroups(p, kept) ==
    LET kids == {q \in kept : Parent(q) = p}
    IN SelectSeq(groups, LAMBDA q : q \in kids) \o SetToSeq(kids \ ToSet(groups))

GroupRow(p) == [section |-> "group", of |-> p]
HostRows(section, S) ==
    LET names == SetToSeq({h.name : h \in S})
    IN [i \in DOMAIN names |-> [section |-> section, of |-> names[i]]]

\* traverseTree: the rows below each group, subgroups before hosts.
TreeRows(open) ==
    LET kept == KeptPaths
        below[p \in kept \cup {<<>>}] ==
            LET subs == SubGroups(p, kept)
                rows == [i \in DOMAIN subs |->
                            <<GroupRow(subs[i])>> \o IF subs[i] \in open THEN below[subs[i]] ELSE <<>>]
            IN FlattenSeq(rows) \o HostRows("tree", Members(p))
    IN below[<<>>]

\* flatList.
Rows ==
    (IF "fav" \in sections THEN HostRows("fav", Favourites) ELSE <<>>)
      \o (IF "tree" \in sections THEN TreeRows(expanded) ELSE <<>>)
      \o (IF "auto" \in sections THEN HostRows("auto", Autos) ELSE <<>>)

\* groupHostCounts: of all rows of hosts that the tree would have.
Count(p) ==
    LET rows == ToSet(TreeRows(Paths))
    IN Cardinality({h \in TreeHosts : [section |-> "tree", of |-> h.name] \in rows
                                      /\ (p = <<>> \/ h.group = p)})

-----------------------------------------------------------------------------
(* The row that is selected.                                               *)

\* mutant: the index stays when the list gets shorter
Settled_Loose(rows, i) ==
    IF effects = "filter" THEN (IF filterStr # "" /\ rows # <<>> THEN 0 ELSE -1) ELSE i

\* The two effects after the rows or the filter have changed.  The first notes
\* the item that has the index by now, so the second finds it where it is.
Settled(rows, i) ==
    LET noted == IF i \in 0 .. Len(rows) - 1 THEN {rows[i + 1]} ELSE {}
    IN IF effects = "filter" THEN (IF filterStr # "" /\ rows # <<>> THEN 0 ELSE -1)
       ELSE IF noted # {} THEN SelectInSeq(rows, LAMBDA r : r \in noted) - 1
       ELSE IF i >= Len(rows) THEN Len(rows) - 1
       ELSE i

Effects ==
    /\ effects # "none" /\ effects' = "none"
    /\ index' = Settled(Rows, index)
    /\ UNCHANGED <<hosts, groups, filterStr, expanded, sections, steps>>

\* The effects of one event run before the next.
Step(changed) ==
    /\ effects = "none" /\ effects' = changed
    /\ steps < MaxSteps /\ steps' = steps + 1

-----------------------------------------------------------------------------
(* What the user does.                                                     *)

Filter(f) ==
    /\ Step("filter")
    /\ filterStr' = f
    /\ UNCHANGED <<hosts, groups, expanded, sections, index>>
Names == HostNames \cup {Last(p) : p \in Nodes}
Type == \E f \in {"", Tag} \cup Names : f # filterStr /\ Filter(f)

\* A tag of some host: its chip, or "Open All" of its menu.
Tagged == \E h \in hosts : Tag \in h.tags
HandleTagClick == Tagged /\ Filter(IF filterStr = Tag THEN "" ELSE Tag)
HandleOpenAllServers == Tagged /\ filterStr # Tag /\ Filter(Tag)

Expand(S) ==
    /\ Step("rows")
    /\ expanded' = S
    /\ UNCHANGED <<hosts, groups, filterStr, sections, index>>
\* toggleGroupExpanded: with the groups of the list that are in this one, or
\* the group alone.
Toggled(p, all) ==
    LET those == IF all THEN {g \in ToSet(groups) : IsPrefix(p, g)} ELSE {p}
    IN IF p \in expanded THEN expanded \ those ELSE expanded \cup those

\* A click on the row of a group, or its menu.
ToggleGroupExpanded ==
    /\ "tree" \in sections
    /\ \E row \in ToSet(Rows), all \in BOOLEAN :
          row.section = "group" /\ Expand(Toggled(row.of, all))

\* A click on the head of a section; toggleExpandAllGroups, with Ctrl on the head
\* of the tree, or its menu.
Switched(s) == IF s \in sections THEN sections \ {s} ELSE sections \cup {s}
Section(S, open) ==
    /\ Step("rows")
    /\ sections' = S /\ expanded' = open
    /\ UNCHANGED <<hosts, groups, filterStr, index>>
ToggleSection ==
    \/ Favourites # {} /\ Section(Switched("fav"), expanded)
    \/ Section(Switched("tree"), expanded)
    \/ Autos # {} /\ Section(Switched("auto"), expanded)
ToggleExpandAll ==
    LET all == ToSet(groups) IN
    \/ Section(Switched("tree"), IF "tree" \in sections THEN {} ELSE all)
    \/ Section(sections \cup {"tree"}, IF "tree" \in sections /\ expanded = all THEN {} ELSE all)

\* handleFilterKeyDown: by a row, or to the end.
Move(i) ==
    /\ Step("rows")
    /\ index' = i
    /\ UNCHANGED <<hosts, groups, filterStr, expanded, sections>>
ArrowDown ==
    \E len \in {Len(Rows)} : \E n \in {1, len} :
        Move(IF index + n < len THEN index + n ELSE len - 1)
ArrowUp == \E n \in {1, Len(Rows)} : Move(IF index - n > 0 THEN index - n ELSE 0)
\* A host is opened, edited, or has its menu opened.
Enter ==
    /\ index \in 0 .. Len(Rows) - 1
    /\ \E row \in {Rows[index + 1]} :
          \/ row.section = "group" /\ (\E all \in BOOLEAN : Expand(Toggled(row.of, all)))
          \/ row.section # "group" /\ UNCHANGED vars

\* Some window has moved a host or deleted it, or has saved the list of groups:
\* no group but those of the hosts, not the parents, or all in some order.
GroupLists ==
    {<<>>} \cup SetToSeqs(Nodes) \cup SetToSeqs({p \in Nodes : Len(p) > 1})
Refresh ==
    /\ Step("rows")
    /\ \/ (\E h \in hosts :
             \/ hosts' = hosts \ {h}
             \/ ~h.isAuto /\ \E g \in Nodes \cup {<<>>} :
                    hosts' = (hosts \ {h}) \cup {[h EXCEPT !.group = g]})
          /\ UNCHANGED groups
       \/ groups' \in GroupLists /\ UNCHANGED hosts
    /\ UNCHANGED <<filterStr, expanded, sections, index>>

\* Another window has expanded something, or opened a section.
StorageEvent ==
    \/ \E S \in SUBSET Nodes : Expand(S)
    \/ \E s \in Sections : Section(Switched(s), expanded)

-----------------------------------------------------------------------------

One == CHOOSE n \in HostNames : TRUE
HostLists ==
    {{Host(One, g, {Fav, Tag}, FALSE), o} :
        g \in Nodes \cup {<<>>},
        o \in UNION {{Host(n, p, {Tag}, FALSE), Host(n, <<>>, {}, TRUE)} :
                        n \in HostNames \ {One}, p \in Nodes}}

Init ==
    /\ hosts \in HostLists /\ groups \in {<<>>, SetToSeq(Nodes)}
    /\ filterStr = "" /\ expanded = {} /\ sections = Sections
    /\ index = -1 /\ effects = "none" /\ steps = 0

Next ==
    \/ Type
    \/ HandleTagClick
    \/ HandleOpenAllServers
    \/ ToggleGroupExpanded
    \/ ToggleSection
    \/ ToggleExpandAll
    \/ ArrowDown
    \/ ArrowUp
    \/ Enter
    \/ Refresh
    \/ StorageEvent
    \/ Effects

Spec == Init /\ [][Next]_vars

-----------------------------------------------------------------------------

TypeOK ==
    /\ \A h \in hosts : h.name \in HostNames /\ h.group \in Nodes \cup {<<>>}
    /\ ToSet(groups) \subseteq Nodes /\ expanded \subseteq Nodes
    /\ sections \subseteq Sections /\ index \in Int
    /\ effects \in {"none", "rows", "filter"}

\* A host that matches has a row in the tree exactly when all groups above it are
\* open, and a group that leads to a match, by its name or by a host, likewise.
Visible(p) == Chain(p) \subseteq expanded
Leads(p) == \/ filterStr = ""
            \/ \E h \in TreeHosts : IsPrefix(p, h.group)
            \/ \E q \in Paths : IsPrefix(p, q) /\ Last(q) = filterStr
EachShown ==
    "tree" \in sections =>
        LET rows == ToSet(Rows)
            ofTree == {r \in rows : r.section = "tree"}
            ofGroups == {r \in rows : r.section = "group"}
        IN /\ IsInjective(Rows)
           /\ {r.of : r \in ofTree} = {h.name : h \in {t \in TreeHosts : Visible(t.group)}}
           /\ {r.of : r \in ofGroups} = {p \in Paths : Leads(p) /\ Visible(Parent(p))}

\* Between a group and what is in it there is only what is in it, and a subgroup
\* comes after none of its hosts.
GroupOf(row) == IF row.section = "group" THEN Parent(row.of)
                ELSE (CHOOSE h \in hosts : h.name = row.of).group
InPlace ==
    LET rows == TreeRows(expanded)
    IN \A i \in DOMAIN rows :
          LET g == GroupOf(rows[i])
          IN /\ g # <<>> => \E j \in 1 .. i - 1 :
                   rows[j] = GroupRow(g) /\ \A k \in j + 1 .. i - 1 : IsPrefix(g, GroupOf(rows[k]))
             /\ \A j \in 1 .. i - 1 : rows[i].section = "group" /\ rows[j].section = "tree"
                                         => GroupOf(rows[j]) # g

\* The labels count every host that matches, once.
CountsAgree ==
    Count(<<>>) = Cardinality(TreeHosts) /\ \A p \in Paths : Count(p) = Cardinality(Members(p))

\* Enter acts on a row that is there, or on none.
SelectionShown == effects = "none" => index \in -1 .. Len(Rows) - 1

TreeSafe == EachShown /\ InPlace /\ CountsAgree /\ SelectionShown
=============================================================================
