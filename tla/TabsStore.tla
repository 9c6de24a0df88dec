------------------------------ MODULE TabsStore ------------------------------
(***************************************************************************)
(* The tabs of one window: which panes each has, which tab and which pane  *)
(* are active, and what the store keeps for each of them (store.ts, with   *)
(* TabBar.tsx, TerminalGrid.tsx, useKeyboardManager.ts and the mounting of *)
(* Dashboard.tsx).  activeTabId, activePaneId and the activePaneId of each *)
(* tab are three variables of the code, written apart from each other.     *)
(*                                                                         *)
(* Handlers run to their end, so an action is one handler; hideTab alone   *)
(* awaits its request before it goes on.  Pins and locks are left out.     *)
(***************************************************************************)
EXTENDS Naturals, FiniteSets, Sequences, SequencesExt

CONSTANTS
    Pinned,     \* sessions that other windows left: what attachSession is offered
    MaxPanes,   \* panes of a tab, 4 in the code
    MaxIds,     \* bound on the ids that genTabId and genPaneId make up
    MaxMarks    \* bound on the panes that have sent something

VARIABLES
    tabs,
    activeTab,      \* activeTabId
    activePane,     \* activePaneId
    unread,         \* unreadTabIds
    marks,          \* panes, at most MaxMarks, with an entry in shellIntegrations
                    \*   and sessionBufferDataTimes, which are treated alike
    hiding,         \* the tabs, at most one here, whose request to hide is under way
    next,           \* the next id that is made up
    doubled         \* history: moveTabToLast overwrote the last tab

vars == <<tabs, activeTab, activePane, unread, marks, hiding, next, doubled>>

None == <<"none", 0>>
T(n) == <<"t", n>>
P(n) == <<"p", n>>
X(n) == <<"scratchpad", n>>     \* the id of the tab and of its pane
Sess(s) == <<"s", s>>

\* A pane without sessionId has the session of its own id.
Pane(id, sess) == [id |-> id, sess |-> sess, stolen |-> FALSE]
Tab(id, panes, kind) ==
    [id |-> id, panes |-> panes, active |-> panes[1].id, kind |-> kind]

\* { ...t, panes: panes, activePaneId: active }
WithPanes(t, panes, active) ==
    [id |-> t.id, panes |-> panes, active |-> active, kind |-> t.kind]

TabIds(ts) == {t.id : t \in ToSet(ts)}
PanesOf(ts) == UNION {ToSet(t.panes) : t \in ToSet(ts)}
PaneIds(ts) == {p.id : p \in PanesOf(ts)}
Holds(t, p) == \E j \in DOMAIN t.panes : t.panes[j].id = p

\* findIndex: the first place of I, 0 for none.
First(I) == IF I = {} THEN 0 ELSE CHOOSE i \in I : \A j \in I : i <= j

TabIdx(id) == First({i \in DOMAIN tabs : tabs[i].id = id})
HolderIdx(p) == First({i \in DOMAIN tabs : Holds(tabs[i], p)})
PaneIdx(t, p) == First({j \in DOMAIN t.panes : t.panes[j].id = p})

-----------------------------------------------------------------------------
(* setTabs, which always goes through cleanupAssociatedTabState.           *)

\* mutant: the data of a pane stay when only its pane is closed
Cleanup_TabsOnly(new) ==
    /\ unread' = unread \cap TabIds(new)
    /\ marks' = IF TabIds(new) = TabIds(tabs) THEN marks
                                              ELSE marks \cap PaneIds(new)

Cleanup(new) ==
    /\ unread' = unread \cap TabIds(new)
    /\ marks' = marks \cap PaneIds(new)

SetTabs(new) == tabs' = new /\ Cleanup(new) /\ UNCHANGED doubled

Focus(t, p) == activeTab' = t /\ activePane' = p

Becomes(new, t, p) == SetTabs(new) /\ Focus(t, p) /\ UNCHANGED <<hiding, next>>

Reorders(new) == Becomes(new, activeTab, activePane)

MakesIds(n) == next + n <= MaxIds + 1 /\ next' = next + n /\ UNCHANGED hiding

\* activatePane(p, t); without t it looks for the tab of p.
Activate(p, t) ==
    /\ Focus(t, p)
    /\ tabs' = [i \in DOMAIN tabs |->
                  IF tabs[i].id = t THEN [tabs[i] EXCEPT !.active = p]
                                    ELSE tabs[i]]
    /\ UNCHANGED <<unread, marks, hiding, next, doubled>>

-----------------------------------------------------------------------------
(* Opening.                                                                *)

AddPane(i, p) ==
    [tabs EXCEPT ![i] = WithPanes(@, Append(@.panes, p), p.id)]

OpenTab(t, panes, kind) ==
    /\ SetTabs(Append(tabs, Tab(t, panes, kind)))
    /\ Focus(t, panes[1].id)

\* openHost: id is options.id, the session that the caller asks for; target
\* is "" or the id of a tab, which _self stands for.
OpenHost(id, target) ==
    LET i == TabIdx(target)
        fresh == IF id = None THEN P(next) ELSE id
        holder == HolderIdx(id)
    IN IF id # None /\ holder # 0
       THEN Activate(id, tabs[holder].id)
       ELSE IF i # 0
            THEN /\ Len(tabs[i].panes) < MaxPanes
                 /\ MakesIds(1)
                 /\ SetTabs(AddPane(i, Pane(fresh, fresh)))
                 /\ Focus(target, fresh)
            ELSE /\ MakesIds(1)
                 /\ OpenTab(IF target = None THEN T(next) ELSE target,
                            <<Pane(fresh, fresh)>>, "terminal")

Running == {Sess(s) : s \in Pinned} \cup {P(n) : n \in 1 .. next - 1}

\* csOpen and the lists of hosts: a new tab or _self.
Open ==
    \E id \in Running \cup {None}, target \in {None, activeTab} :
        OpenHost(id, target)

\* openHostsAsSplit, for two hosts or more.
OpenHostsAsSplit ==
    \E n \in 2 .. MaxPanes :
        /\ MakesIds(n)
        /\ OpenTab(T(next), [k \in 1 .. n |-> Pane(P(next + k - 1), P(next + k - 1))],
                   "terminal")

OpenScratchpad ==
    LET i == SelectInSeq(tabs, LAMBDA t : t.kind = "scratchpad")
    IN IF i # 0
       THEN Becomes(tabs, tabs[i].id, tabs[i].panes[1].id)
       ELSE /\ MakesIds(1)
            /\ OpenTab(X(next), <<Pane(X(next), X(next))>>, "scratchpad")

\* cloneSession(id): a tab stands for its first pane.
CloneTab(id) == IF TabIdx(id) # 0 THEN TabIdx(id) ELSE HolderIdx(id)

CloneSession(id) ==
    /\ CloneTab(id) # 0
    /\ MakesIds(1)
    /\ OpenTab(T(next), <<Pane(P(next), P(next))>>, "terminal")

\* In the same tab: activePaneId moves there, activeTabId does not.
CloneInSameTab(id) ==
    LET i == CloneTab(id)
    IN /\ i # 0
       /\ Len(tabs[i].panes) < MaxPanes
       /\ MakesIds(1)
       /\ SetTabs(AddPane(i, Pane(P(next), P(next))))
       /\ Focus(activeTab, P(next))

Clone ==
    \E id \in TabIds(tabs) \cup {activePane} :
        CloneSession(id) \/ CloneInSameTab(id)

Shows(t, s) == \E p \in ToSet(t.panes) : p.sess = s /\ ~p.stolen

\* attachSession; a tab that shows the session already keeps its own activePaneId.
AttachSession ==
    \E s \in Running :
        LET i == SelectInSeq(tabs, LAMBDA t : Shows(t, s))
        IN IF i # 0
           THEN LET j == SelectInSeq(tabs[i].panes,
                                     LAMBDA p : p.sess = s /\ ~p.stolen)
                IN Becomes(tabs, tabs[i].id, tabs[i].panes[j].id)
           ELSE /\ MakesIds(1)
                /\ OpenTab(T(next), <<Pane(P(next), s)>>, "terminal")

-----------------------------------------------------------------------------
(* Closing.                                                                *)

\* tabs.filter: the tabs at the places I, in their order.
Filtered(I) ==
    [k \in 1 .. Cardinality(I) |->
       tabs[CHOOSE i \in I : Cardinality({j \in I : j < i}) = k - 1]]

\* mutant: the neighbour becomes active, but not its pane
Drop_KeepsPane(id) ==
    LET new == Filtered({k \in DOMAIN tabs : tabs[k].id # id})
        i == TabIdx(id)
        nextTab == new[IF i > 1 THEN i - 1 ELSE 1]
    IN /\ SetTabs(new)
       /\ CASE new = <<>> -> Focus(None, None)
            [] new # <<>> /\ activeTab = id -> Focus(nextTab.id, activePane)
            [] OTHER -> Focus(activeTab, activePane)

\* What closeTab and hideTab do to the list: the tab before takes over.
Drop(id) ==
    LET new == Filtered({k \in DOMAIN tabs : tabs[k].id # id})
        i == TabIdx(id)
        nextTab == new[IF i > 1 THEN i - 1 ELSE 1]
    IN /\ SetTabs(new)
       /\ CASE new = <<>> -> Focus(None, None)
            [] new # <<>> /\ activeTab = id -> Focus(nextTab.id, nextTab.active)
            [] OTHER -> Focus(activeTab, activePane)

CloseTab(id) == Drop(id) /\ UNCHANGED <<hiding, next>>

NextPane(t, j) ==
    LET left == RemoveAt(t.panes, j)
    IN IF t.active = t.panes[j].id THEN left[IF j > 1 THEN j - 1 ELSE 1].id
                                   ELSE t.active

ClosePane(i, j) ==
    LET t == tabs[i]
        p == NextPane(t, j)
        new == [tabs EXCEPT ![i] = WithPanes(t, RemoveAt(t.panes, j), p)]
    IN Becomes(new, activeTab, IF activeTab = t.id THEN p ELSE activePane)

\* closeTabOrPane(x): x may be a tab, else a pane; "" is the active pane.
CloseTabOrPane(x) ==
    LET i == HolderIdx(x)
    IN IF TabIdx(x) # 0 THEN CloseTab(x)
       ELSE /\ i # 0
            /\ IF Len(tabs[i].panes) > 1
               THEN ClosePane(i, PaneIdx(tabs[i], x))
               ELSE CloseTab(tabs[i].id)

\* The crosses of the tabs, the middle button, csClose and its key, and the
\* entries of a tab's menu, which close the active tab whatever tab was clicked.
Close ==
    \/ CloseTab(activeTab)
    \/ \E x \in TabIds(tabs) \cup PaneIds(tabs) \cup {activePane} : CloseTabOrPane(x)

CloseOtherTabs(id) ==
    LET i == TabIdx(id)
    IN /\ i # 0 /\ Len(tabs) > 1
       /\ Becomes(<<tabs[i]>>, id, tabs[i].active)

CloseOtherPanes(id) ==
    LET i == TabIdx(id)
        t == tabs[i]
    IN /\ i # 0 /\ t.kind = "terminal" /\ Len(t.panes) > 1
       /\ Becomes([tabs EXCEPT ![i] = WithPanes(t, <<t.panes[PaneIdx(t, t.active)]>>,
                                                t.active)],
                  id, t.active)

\* A stale activeTabId counts as left of every tab.
ActiveClosed(i, left) == IF left THEN TabIdx(activeTab) < i ELSE TabIdx(activeTab) > i

CloseSideTabs(id, left) ==
    LET i == TabIdx(id)
        new == IF left THEN SubSeq(tabs, i, Len(tabs)) ELSE SubSeq(tabs, 1, i)
    IN /\ i # 0 /\ Len(tabs) > 1
       /\ IF ActiveClosed(i, left) THEN Becomes(new, id, tabs[i].active)
                                   ELSE Becomes(new, activeTab, activePane)

\* "Close All Tabs" and CLOSE_ALL_TABS leave the active ids as they are.
CloseAll == tabs # <<>> /\ Becomes(<<>>, activeTab, activePane)

CloseMany ==
    \/ CloseAll
    \/ \E id \in TabIds(tabs) :
          \/ CloseOtherTabs(id)
          \/ CloseOtherPanes(id)
          \/ \E left \in BOOLEAN : CloseSideTabs(id, left)

\* hideTab: the request, and the tab as it is when the answer is there.
HideAsks(id) ==
    LET t == tabs[TabIdx(id)]
    IN /\ t.kind = "terminal" /\ Len(t.panes) = 1
       /\ hiding = {} /\ hiding' = {id}
       /\ UNCHANGED <<tabs, activeTab, activePane, unread, marks, next, doubled>>

HideAnswered(id) ==
    /\ hiding' = hiding \ {id}
    /\ UNCHANGED next
    /\ IF TabIdx(id) # 0
       THEN Drop(id)
       ELSE UNCHANGED <<tabs, activeTab, activePane, unread, marks, doubled>>

Hide == \/ \E id \in TabIds(tabs) : HideAsks(id)
        \/ \E id \in hiding : HideAnswered(id)

-----------------------------------------------------------------------------
(* Moving.                                                                 *)

Swapped(i, j) == [tabs EXCEPT ![i] = tabs[j], ![j] = tabs[i]]

MoveTabLeft(i) == i > 1 /\ Reorders(Swapped(i, i - 1))
MoveTabRight(i) == i < Len(tabs) /\ Reorders(Swapped(i, i + 1))
\* mutant: the first tab is overwritten
MoveTabToFirst_Overwrites(i) == i > 1 /\ Reorders([tabs EXCEPT ![1] = tabs[i]])

MoveTabToFirst(i) == i > 1 /\ Reorders(Swapped(i, 1))

\* newTabs[i] is read back from the place that was just overwritten.
MoveTabToLast(i) ==
    /\ i < Len(tabs)
    /\ tabs' = [tabs EXCEPT ![Len(tabs)] = tabs[i]]
    /\ Cleanup(tabs')
    /\ doubled' = TRUE
    /\ UNCHANGED <<activeTab, activePane, hiding, next>>

\* The drop of tab i on tab j; the start of the drag made tab i active.
ReorderTabs(i, j, after) ==
    LET left == RemoveAt(tabs, i)
        target == IF j > i THEN j - 1 ELSE j
    IN i # j /\ Reorders(InsertAt(left, IF after THEN target + 1 ELSE target, tabs[i]))

Move ==
    \E i \in DOMAIN tabs :
        \/ MoveTabLeft(i)
        \/ MoveTabRight(i)
        \/ MoveTabToFirst(i)
        \/ MoveTabToLast(i)
        \/ \E j \in DOMAIN tabs, after \in BOOLEAN : ReorderTabs(i, j, after)

-----------------------------------------------------------------------------
(* Choosing.                                                               *)

\* A click on a tab, the start of a drag, alt with a digit, csFocus.
SelectTab(i) == Becomes(tabs, tabs[i].id, tabs[i].active)

ClickPane(i, j) == Activate(tabs[i].panes[j].id, tabs[i].id)

\* activatePane without a tab looks for it; csFocus uses it too.
FocusPane(p) == HolderIdx(p) # 0 /\ Activate(p, tabs[HolderIdx(p)].id)

\* A swipe: no further than the ends.
Swipe(d) ==
    LET i == TabIdx(activeTab)
    IN \/ d = "right" /\ i > 1 /\ SelectTab(i - 1)
       \/ d = "left" /\ i < Len(tabs) /\ SelectTab(i + 1)

\* i + 1 or i - 1 among n places in a ring; 0 is what was not found.
Ring(i, n, d) == IF d = "next" THEN (i % n) + 1 ELSE ((i + n - 2 + n) % n) + 1

CycleTab(d) ==
    LET i == TabIdx(activeTab)
    IN i # 0 /\ SelectTab(Ring(i, Len(tabs), d))

CyclePane(d) ==
    LET t == tabs[TabIdx(activeTab)]
    IN /\ TabIdx(activeTab) # 0
       /\ Len(t.panes) > 1
       /\ FocusPane(t.panes[Ring(PaneIdx(t, activePane), Len(t.panes), d)].id)

\* alt+g: the pane of the active tab again.
RefocusPane ==
    LET i == TabIdx(activeTab)
    IN i # 0 /\ Becomes(tabs, activeTab, tabs[i].active)

Choose ==
    \/ \E i \in DOMAIN tabs : SelectTab(i) \/ \E j \in DOMAIN tabs[i].panes : ClickPane(i, j)
    \/ \E d \in {"left", "right"} : Swipe(d)
    \/ \E d \in {"prev", "next"} : CycleTab(d) \/ CyclePane(d)
    \/ RefocusPane

-----------------------------------------------------------------------------
(* What the terminals report.                                              *)

Stolen(i, j) ==
    /\ tabs[i].kind = "terminal"
    /\ Reorders([tabs EXCEPT ![i].panes[j].stolen = TRUE])

\* handleReconnectTab: each pane that was stolen gets a new id, and so a new
\* session; the last of them becomes active, in the background as well.
ReconnectPanes(i, J) ==
    LET nth(j) == next + Cardinality({k \in J : k < j})
        renew(j) == Pane(P(nth(j)), P(nth(j)))
        panes == [j \in DOMAIN tabs[i].panes |->
                    IF j \in J THEN renew(j) ELSE tabs[i].panes[j]]
        last == P(next + Cardinality(J) - 1)
    IN /\ J # {}
       /\ MakesIds(Cardinality(J))
       /\ SetTabs([tabs EXCEPT ![i] = WithPanes(@, panes, last)])
       /\ Focus(activeTab, last)

ReconnectTab(i) ==
    /\ tabs[i].kind = "terminal"
    /\ ReconnectPanes(i, {j \in DOMAIN tabs[i].panes : tabs[i].panes[j].stolen})

\* ctrl+shift+r, a key in the pane.
ReconnectActive ==
    LET i == HolderIdx(activePane)
        j == PaneIdx(tabs[i], activePane)
    IN /\ i # 0 /\ tabs[i].kind = "terminal"
       /\ tabs[i].panes[j].stolen
       /\ ReconnectPanes(i, {j})

\* handleTerminalData and onShellIntegrationChange.
Data(i, j) ==
    LET t == tabs[i]
    IN /\ t.kind = "terminal"
       /\ Cardinality(marks \cup {t.panes[j].id}) <= MaxMarks
       /\ unread' = IF activeTab = t.id THEN unread ELSE unread \cup {t.id}
       /\ marks' = marks \cup {t.panes[j].id}
       /\ UNCHANGED <<tabs, activeTab, activePane, hiding, next, doubled>>

\* The effect of TabBar.
ReadActive ==
    /\ activeTab \in unread
    /\ unread' = unread \ {activeTab}
    /\ UNCHANGED <<tabs, activeTab, activePane, marks, hiding, next, doubled>>

\* mutant: all panes of the window
BroadcastTargets_Wide(mode, source) ==
    IF mode = "off" THEN {} ELSE PaneIds(tabs) \ {source}

\* getBroadcastTargetPaneIds with broadcastMode = mode: in mode "tab" the first tab
\* that is the active one or has the pane.
BroadcastTargets(mode, source) ==
    LET terminals == {t \in ToSet(tabs) : t.kind = "terminal"}
        i == SelectInSeq(tabs, LAMBDA t : t.id = activeTab \/ Holds(t, source))
    IN CASE mode = "all" -> (UNION {PaneIds(<<t>>) : t \in terminals}) \ {source}
         [] mode = "tab" /\ i # 0 /\ tabs[i].kind = "terminal" ->
                {p.id : p \in ToSet(tabs[i].panes)} \ {source}
         [] OTHER -> {}

Report ==
    \/ \E i \in DOMAIN tabs :
          \/ ReconnectTab(i)
          \/ \E j \in DOMAIN tabs[i].panes : Stolen(i, j) \/ Data(i, j)
    \/ ReconnectActive
    \/ ReadActive

-----------------------------------------------------------------------------

\* What mounting Dashboard leaves: the pinned sessions that nobody looks at,
\* each a tab with the id of its session, or a local shell, or the hosts of
\* the location's hash.
Restored ==
    [k \in 1 .. Cardinality(Pinned) |->
        LET s == Sess(SetToSeq(Pinned)[k]) IN Tab(s, <<Pane(s, s)>>, "terminal")]

Started(n) == <<Tab(T(1), [k \in 1 .. n |-> Pane(P(k), P(k))], "terminal")>>

Init ==
    /\ \/ tabs = Restored /\ tabs # <<>> /\ next = 1
       \/ \E n \in 1 .. MaxPanes : tabs = Started(n) /\ next = n + 1
    /\ activeTab = tabs[1].id /\ activePane = tabs[1].active
    /\ unread = {} /\ marks = {} /\ hiding = {}
    /\ doubled = FALSE

Next ==
    \/ Open
    \/ OpenHostsAsSplit
    \/ OpenScratchpad
    \/ Clone
    \/ AttachSession
    \/ Close
    \/ CloseMany
    \/ Hide
    \/ Move
    \/ Choose
    \/ Report

Spec == Init /\ [][Next]_vars

-----------------------------------------------------------------------------

MadeIds == {None} \cup {Sess(s) : s \in Pinned}
         \cup {T(n) : n \in 1 .. MaxIds} \cup {P(n) : n \in 1 .. MaxIds}
         \cup {X(n) : n \in 1 .. MaxIds}

\* The types of the store's fields; setTabs is the only writer of the data kept
\* for tabs and panes, and handlers must not write an id that was never made.
TypeOK ==
    /\ TabIds(tabs) \subseteq MadeIds \ {None}
    /\ \A t \in ToSet(tabs) : t.kind \in {"terminal", "scratchpad"}
    /\ PaneIds(tabs) \cup {p.sess : p \in PanesOf(tabs)} \cup {activeTab, activePane}
         \cup unread \cup marks \cup hiding \subseteq MadeIds
    /\ next \in 1 .. MaxIds + 1

Distinct(seq) == \A a, b \in DOMAIN seq : seq[a].id = seq[b].id => a = b

\* Through every sequence of opening, splitting, closing, moving and
\* reconnecting, each tab has one to four panes and its activePaneId is one of
\* them, and no id is in use twice: TerminalGrid mounts a terminal per id
\* (store.ts, TabData), and lookups by id take the first.
TabsWhole ==
    \/ doubled
    \/ /\ Distinct(tabs)
       /\ \A t \in ToSet(tabs) :
             /\ Len(t.panes) \in 1 .. MaxPanes
             /\ Distinct(t.panes)
             /\ Holds(t, t.active)
       /\ \A t, u \in ToSet(tabs) : t # u => PaneIds(<<t>>) \cap PaneIds(<<u>>) = {}

\* The same, and nothing is kept for tabs and panes that are gone: unread marks,
\* shell integrations and times go with them (store.ts, cleanupAssociatedTabState).
TabsConsistent ==
    /\ TabsWhole
    /\ unread \subseteq TabIds(tabs)
    /\ marks \subseteq PaneIds(tabs)

Focused ==
    IF tabs = <<>> THEN activeTab = None /\ activePane = None
    ELSE \E t \in ToSet(tabs) : t.id = activeTab /\ t.active = activePane

\* In mode "tab", what is typed into a pane of the active tab reaches the other
\* panes of this tab and nothing else; in mode "all" never a scratchpad, and no
\* pane types into itself (store.ts, getBroadcastTargetPaneIds).
BroadcastAim ==
    \A t \in ToSet(tabs) : \A p \in ToSet(t.panes) : \A mode \in {"tab", "all"} :
        LET targets == BroadcastTargets(mode, p.id)
        IN /\ p.id \notin targets
           /\ mode = "tab" /\ t.id = activeTab /\ t.kind = "terminal" /\ ~doubled =>
                 targets = PaneIds(<<t>>) \ {p.id}
           /\ ~doubled =>
                 \A u \in ToSet(tabs) : u.kind = "scratchpad" =>
                     targets \cap PaneIds(<<u>>) = {}

\* The steps after which input may go to another pane than the active tab
\* shows: a split, or a reconnect of a stolen pane, in a tab that is not active;
\* an attachment that finds its session in a pane; the scratchpad of a split tab;
\* "Close All Tabs"; and moveTabToLast.
Drifts ==
    \/ AttachSession \/ OpenScratchpad \/ CloseAll \/ doubled'
    \/ activeTab' = activeTab /\ (Clone \/ \E i \in DOMAIN tabs : ReconnectTab(i))

\* From a state in which the active pane is that of the active tab, every
\* other handler leaves such a state: whatever is closed, hidden, moved or opened,
\* and in whatever order, input goes to the pane that is seen (store.ts).
KeepsFocus ==
    Focused => Focused' \/ Drifts

Removing == Close \/ CloseMany \/ Hide

\* Only what closes or hides removes a pane, or renews the id of a stolen one:
\* opening, moving, choosing and reports keep every other pane (store.ts).
KeepsPanes ==
    \/ doubled'
    \/ \A p \in PanesOf(tabs) : p.stolen \/ p.id \in PaneIds(tabs')
    \/ Removing
=============================================================================
