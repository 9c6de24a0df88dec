------------------------------ MODULE HostFile -------------------------------
(***************************************************************************)
(* The hosts of the sidebar and their groups (Sidebar.tsx, store.ts), kept *)
(* as lines of ~/.ssh/config (sshmanager/client.go).                       *)
(*                                                                         *)
(* A group is the sequence of its parts, as "a/b"; the tag "g-a/b" of a    *)
(* host puts it there, and the tag "fav" is <<>>.  Groups that have no host*)
(* are only in the group line, a line of tags that belongs to no host.     *)
(* Each handler sends what it computes from the copy of the hosts that its *)
(* window has: whole hosts, and the whole list of groups.  The hosts of    *)
(* known_hosts, passwords, and the orders within a group are left out.     *)
(***************************************************************************)
EXTENDS Naturals, FiniteSets, Sequences, SequencesExt

CONSTANTS
    Windows,
    HostNames,
    Parts,      \* names of groups within their parent
    MaxAsked    \* bound on the handlers that are started

VARIABLES
    lines,      \* the file
    view,       \* of each window: hosts and groups of its store
    calls,      \* the handlers that await a request
    asked,      \* the handlers started so far
    skewed,     \* history, of each window: it does not show the file, or
                \*   something overlapped or failed
    struck      \* history: a list of groups took the place of a host's tags

vars == <<lines, view, calls, asked, skewed, struck>>

Fav == <<>>
Paths == BoundedSeq(Parts, 2) \ {Fav}
Host(name, tags, forward) == [name |-> name, tags |-> tags, forward |-> forward]

\* getHostGroupPath.
GroupOf(h) == LET gs == SelectSeq(h.tags, LAMBDA t : t # Fav)
              IN IF gs = <<>> THEN <<>> ELSE gs[1]
Within(p, g) == IsPrefix(g, p)
Ungrouped(h) == SelectSeq(h.tags, LAMBDA t : t = Fav)
Regrouped(h, g) ==
    [h EXCEPT !.tags = Ungrouped(h) \o (IF g = <<>> THEN <<>> ELSE <<g>>)]

-----------------------------------------------------------------------------
(* The file.                                                               *)

Line(kind, of) == [kind |-> kind, of |-> of]
Tags(ts) == Line("tags", ts)        \* ### #fav #g-a/b
HostLine(name) == Line("host", <<name>>)
Forward == Line("forward", <<>>)    \* an option of ssh, say LocalForward
Blank == Line("blank", <<>>)

IsTags(line) == line.kind = "tags"

\* TrimSpace of the whole file.
Trimmed(ls) ==
    LET kept == {i \in DOMAIN ls : ls[i] # Blank}
    IN IF kept = {} THEN <<>>
       ELSE SubSeq(ls, CHOOSE i \in kept : \A j \in kept : i <= j,
                       CHOOSE i \in kept : \A j \in kept : i >= j)

\* findHostBlock: the first line of a block, and the one after its last.
Start(ls, i) ==
    CHOOSE s \in 1 .. i :
        /\ \A k \in s .. i - 1 : IsTags(ls[k])
        /\ s = 1 \/ ~IsTags(ls[s - 1])
\* mutant: a block ends at the next host only
End_AtHost(ls, i) ==
    CHOOSE e \in i + 1 .. Len(ls) + 1 :
        /\ \A k \in i + 1 .. e - 1 : ls[k].kind # "host"
        /\ e = Len(ls) + 1 \/ ls[e].kind = "host"

End(ls, i) ==
    CHOOSE e \in i + 1 .. Len(ls) + 1 :
        /\ \A k \in i + 1 .. e - 1 : ls[k].kind \notin {"host", "tags"}
        /\ e = Len(ls) + 1 \/ ls[e].kind \in {"host", "tags"}
At(ls, name) == SelectInSeq(ls, LAMBDA l : l = HostLine(name))

Before(ls, name) == SubSeq(ls, 1, Start(ls, At(ls, name)) - 1)
After(ls, name) == SubSeq(ls, End(ls, At(ls, name)), Len(ls))

\* deleteHostLines.
DeleteHostLines(ls, name) ==
    IF At(ls, name) = 0 THEN ls ELSE Before(ls, name) \o After(ls, name)

\* updateLines.
UpdateLines(ls, old, h) ==
    LET block == (IF h.tags = <<>> THEN <<>> ELSE <<Tags(h.tags)>>) \o <<HostLine(h.name)>>
                    \o (IF h.forward THEN <<Forward>> ELSE <<>>) \o <<Blank>>
        rest == IF old = h.name THEN ls ELSE DeleteHostLines(ls, old)
    IN IF At(rest, h.name) # 0
       THEN Before(rest, h.name) \o block \o After(rest, h.name)
       ELSE rest \o (IF rest # <<>> /\ Last(rest) # Blank THEN <<Blank>> ELSE <<>>) \o block

\* SaveHosts: an upsert each.
SaveHosts(ls, hs) ==
    Trimmed(FoldSeq(LAMBDA h, f : UpdateLines(f, h.name, h), ls, hs))

\* The line that SaveGroups takes for the group line: the first whose first tag
\* is a group.
GroupLine(ls) == SelectInSeq(ls, LAMBDA l : IsTags(l) /\ l.of[1] # Fav)

SaveGroups(ls, gs) ==
    LET i == GroupLine(ls)
        line == IF gs = {} THEN <<>> ELSE <<Tags(SetToSeq(gs))>>
        gap == IF gs = {} \/ (i < Len(ls) /\ i # 0 /\ ls[i + 1] = Blank) THEN <<>> ELSE <<Blank>>
    IN Trimmed(SubSeq(ls, 1, i - 1) \o line \o gap \o SubSeq(ls, i + 1, Len(ls)))

\* ListHosts, and ParseGroups.
HostsOf(ls) ==
    LET host(i) ==
          Host(ls[i].of[1],
               FlattenSeq([k \in 1 .. i - Start(ls, i) |-> ls[Start(ls, i) + k - 1].of]),
               \E k \in i .. End(ls, i) - 1 : ls[k] = Forward)
    IN {host(i) : i \in {k \in DOMAIN ls : ls[k].kind = "host"}}
GroupsOf(ls) == UNION {ToSet(ls[i].of) : i \in {k \in DOMAIN ls : IsTags(ls[k])}} \ {Fav}

-----------------------------------------------------------------------------
(* What the user asks for.                                                 *)

Hosts(w) == view[w].hosts

\* The groups of the tree: also the parents of those that are listed.
Tree(w) == UNION {{SubSeq(p, 1, n) : n \in 1 .. Len(p)} :
                    p \in view[w].groups \cup {GroupOf(h) : h \in Hosts(w)}}

\* The handler of window w starts: the groups that it will post, if any, then
\* the hosts that it will put, or one request of another kind; want is what the
\* hosts should be then.
Calling(w, op, groups, hosts, want) ==
    /\ asked' = asked + 1
    /\ calls' = calls \cup {[w |-> w, op |-> op, groups |-> groups, hosts |-> hosts,
                             want |-> want, told |-> FALSE]}
    /\ skewed' = [skewed EXCEPT ![w] = @ \/ \E c \in calls : c.w = w]
    /\ UNCHANGED <<lines, view, struck>>

Replaced(w, hs) == {h \in Hosts(w) : \A new \in hs : new.name # h.name} \cup hs

PutHosts(w, hs) == Calling(w, "hosts", {}, SetToSeq(hs), Replaced(w, hs))

\* handleSaveHost, the form of a new host: one of the same name is overridden.
AddHost(w) ==
    \E name \in HostNames, g \in {<<>>} \cup Tree(w) :
        LET h == Host(name, IF g = <<>> THEN <<>> ELSE <<g>>, FALSE)
        IN Calling(w, "hosts", {}, <<h>>, Replaced(w, {h}))

\* handleSaveHost, the form of an old one: the password may have to be unlocked
\* first, and then the host is put without its old name.
EditHost(w) ==
    \E h \in Hosts(w), name \in HostNames, op \in {"edit", "unlock"} :
        /\ name # h.name
        /\ Calling(w, op, {}, <<h, [h EXCEPT !.name = name]>>,
                   {k \in Hosts(w) : k.name \notin {h.name, name}} \cup {[h EXCEPT !.name = name]})

DeleteHost(w) ==
    \E h \in Hosts(w) : Calling(w, "delete", {}, <<h>>, Hosts(w) \ {h})

\* handleToggleFavourite: the payload has no forwards.
ToggleFavourite(w) ==
    \E h \in Hosts(w) :
        PutHosts(w, {[h EXCEPT !.forward = FALSE,
                               !.tags = IF Fav \in ToSet(@) THEN SelectSeq(@, LAMBDA t : t # Fav)
                                                            ELSE Append(@, Fav)]})

\* moveServer: with the host go those of its new group whose order changes.
MoveServer(w) ==
    \E h \in Hosts(w), g \in {<<>>} \cup Tree(w) :
        \E S \in SUBSET {k \in Hosts(w) \ {h} : GroupOf(k) = g} :
            PutHosts(w, {Regrouped(k, g) : k \in S \cup {h}})

\* reorderFavourites.
ReorderFavourites(w) ==
    \E S \in SUBSET {h \in Hosts(w) : Fav \in ToSet(h.tags)} :
        S # {} /\ PutHosts(w, S)

PostGroups(w, gs) == Calling(w, "groups", gs, <<>>, Hosts(w))

\* handleAddSubGroupClick, handleAddTopLevelGroupClick.
AddGroup(w) ==
    \E p \in {<<>>} \cup Tree(w), part \in Parts :
        LET g == Append(p, part)
        IN g \in Paths /\ g \notin view[w].groups /\ PostGroups(w, view[w].groups \cup {g})

\* moveGroup: the order of the list, which ParseGroups will not keep.
MoveGroup(w) == view[w].groups # {} /\ PostGroups(w, view[w].groups)

\* The hosts and groups at or below g go to new and below.
Rebased(p, g, new) == new \o SubSeq(p, Len(g) + 1, Len(p))
Moving(w, op, g, new, groups) ==
    LET moved == {h \in Hosts(w) : Within(GroupOf(h), g)}
        hs == {Regrouped(h, Rebased(GroupOf(h), g, new)) : h \in moved}
    IN Calling(w, op, groups, SetToSeq(hs), Replaced(w, hs))

\* handleDeleteGroupClick.
DeleteGroup(w) ==
    \E g \in Tree(w) :
        LET parent == Front(g)
        IN Moving(w, "deleteGroup", g, parent,
                  {IF Within(p, g) THEN Rebased(p, g, parent) ELSE p : p \in view[w].groups \ {g}})

\* handleRenameGroupClick.
RenameGroup(w) ==
    \E g \in Tree(w), part \in Parts :
        LET new == Append(Front(g), part)
            renamed == {IF Within(p, g) THEN Rebased(p, g, new) ELSE p : p \in view[w].groups}
        IN /\ part # Last(g) /\ new \notin view[w].groups
           /\ Cardinality(renamed) = Cardinality(view[w].groups)
           /\ Moving(w, "renameGroup", g, new, renamed)

-----------------------------------------------------------------------------
(* Requests and answers.                                                   *)

Skew(c, whole) == [v \in Windows |-> skewed[v] \/ v # c.w \/ ~whole]

PostsGroups(c) == c.op \in {"groups", "deleteGroup", "renameGroup"} /\ ~c.told

\* /api/groups; then setGroups, and the hosts of a group that is gone are put.
GroupsSaved(c) ==
    /\ PostsGroups(c)
    /\ lines' = SaveGroups(lines, c.groups)
    /\ struck' = (struck \/ HostsOf(lines') # HostsOf(lines))
    /\ view' = [view EXCEPT ![c.w].groups = c.groups]
    /\ calls' = (calls \ {c}) \cup (IF c.op = "groups" THEN {} ELSE {[c EXCEPT !.told = TRUE]})
    /\ skewed' = Skew(c, TRUE)
    /\ UNCHANGED asked

\* The deletion of a group goes on when it was refused.
GroupsRefused(c) ==
    /\ PostsGroups(c)
    /\ calls' = (calls \ {c}) \cup
                (IF c.op = "deleteGroup" THEN {[c EXCEPT !.told = TRUE]} ELSE {})
    /\ skewed' = [skewed EXCEPT ![c.w] = TRUE]
    /\ UNCHANGED <<lines, view, asked, struck>>

Done(c) ==
    CASE c.op = "edit" -> Trimmed(UpdateLines(lines, c.hosts[1].name, c.hosts[2]))
      [] c.op = "unlock" -> SaveHosts(lines, <<c.hosts[2]>>)
      [] c.op = "delete" -> Trimmed(DeleteHostLines(lines, c.hosts[1].name))
      [] OTHER -> SaveHosts(lines, c.hosts)

Sends(c) == ~PostsGroups(c) /\ c.op # "get"

\* /api/hosts; then fetchHosts.
HostsSaved(c) ==
    /\ Sends(c)
    /\ lines' = Done(c)
    /\ calls' = (calls \ {c}) \cup {[c EXCEPT !.op = "get"]}
    /\ skewed' = Skew(c, c.op # "unlock")
    /\ UNCHANGED <<view, asked, struck>>

\* No answer, or a refusal, after which most handlers fetch the hosts all the same.
HostsRefused(c) ==
    /\ Sends(c)
    /\ calls' = (calls \ {c}) \cup {[c EXCEPT !.op = "get"]} \/ calls' = calls \ {c}
    /\ skewed' = [skewed EXCEPT ![c.w] = TRUE]
    /\ UNCHANGED <<lines, view, asked, struck>>

FetchHosts(c) ==
    /\ c.op = "get"
    /\ view' = [view EXCEPT ![c.w].hosts = HostsOf(lines)]
    /\ calls' = calls \ {c}
    /\ UNCHANGED <<lines, asked, skewed, struck>>

\* refreshData, when nothing else is under way.
RefreshData(w) ==
    /\ \A c \in calls : c.w # w
    /\ view' = [view EXCEPT ![w] = [hosts |-> HostsOf(lines), groups |-> GroupsOf(lines)]]
    /\ skewed' = [skewed EXCEPT ![w] = FALSE]
    /\ UNCHANGED <<lines, calls, asked, struck>>

-----------------------------------------------------------------------------

\* Files as the program writes them, and as a user may have written them.
Files ==
    LET x == CHOOSE n \in HostNames : TRUE
        a == <<CHOOSE p \in Parts : TRUE>>
        b == <<CHOOSE p \in Parts : <<p>> # a>>
        host == <<HostLine(x), Forward>>
        other == {<<>>} \cup {<<Blank, Tags(<<a, Fav>>), HostLine(y)>> : y \in HostNames \ {x}}
    IN {<<Tags(<<a, b>>), Blank, Tags(<<Append(a, b[1])>>)>> \o host \o o : o \in other}
         \cup {<<Tags(<<Fav, a>>)>> \o host \o o : o \in other}

Init ==
    /\ lines \in Files
    /\ view = [w \in Windows |-> [hosts |-> HostsOf(lines), groups |-> GroupsOf(lines)]]
    /\ calls = {} /\ asked = 0 /\ skewed = [w \in Windows |-> FALSE] /\ struck = FALSE

Next ==
    \/ asked < MaxAsked /\ \E w \in Windows :
          \/ AddHost(w)
          \/ EditHost(w)
          \/ DeleteHost(w)
          \/ ToggleFavourite(w)
          \/ MoveServer(w)
          \/ ReorderFavourites(w)
          \/ AddGroup(w)
          \/ MoveGroup(w)
          \/ DeleteGroup(w)
          \/ RenameGroup(w)
    \/ \E w \in Windows : RefreshData(w)
    \/ \E c \in calls :
          GroupsSaved(c) \/ GroupsRefused(c) \/ HostsSaved(c) \/ HostsRefused(c) \/ FetchHosts(c)

Spec == Init /\ [][Next]_vars

-----------------------------------------------------------------------------

IsHosts(hs) ==
    \A h \in hs : /\ h.name \in HostNames /\ h.forward \in BOOLEAN
                  /\ ToSet(h.tags) \subseteq Paths \cup {Fav}

TypeOK ==
    /\ \A i \in DOMAIN lines : lines[i].kind \in {"tags", "host", "forward", "blank"}
    /\ IsHosts(HostsOf(lines)) /\ GroupsOf(lines) \subseteq Paths
    /\ \A w \in Windows : IsHosts(Hosts(w)) /\ view[w].groups \subseteq Paths
    /\ \A c \in calls : IsHosts(ToSet(c.hosts)) /\ c.told \in BOOLEAN
    /\ asked \in 0 .. MaxAsked /\ skewed \in [Windows -> BOOLEAN] /\ struck \in BOOLEAN

SameHosts(hs, ks) ==
    {[h EXCEPT !.tags = ToSet(@)] : h \in hs} = {[h EXCEPT !.tags = ToSet(@)] : h \in ks}

\* What a window asks for while nobody else is at work is what the file holds in
\* the end: the hosts of a group that is renamed or deleted are where their group
\* is, and every other host has kept its tags and options, wherever its lines
\* stand (client.go, findHostBlock, updateLines, SaveGroups; Sidebar.tsx).  Two
\* things lead elsewhere: a host that is renamed while its password has to be
\* unlocked stays under its old name as well, and a list of groups that took the
\* place of a host's tags has moved the host.
HostsSettle ==
    \A c \in calls :
        c.op = "get" /\ ~skewed[c.w] /\ ~struck => SameHosts(HostsOf(lines), c.want)

\* The window shows it, too.
HostsShown ==
    \A w \in Windows :
        ~skewed[w] /\ ~struck /\ (\A c \in calls : c.w # w) => Hosts(w) = HostsOf(lines)
=============================================================================
