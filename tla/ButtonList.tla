----------------------------- MODULE ButtonList ------------------------------
(***************************************************************************)
(* The buttons of the server (config.go) and the lists that windows show   *)
(* of them (store.ts, saveButton to reorderButtons).  A window changes the *)
(* server's list by a request and then fetches it anew; only a reordering  *)
(* by drag and drop shows its result at once and fetches nothing.          *)
(*                                                                         *)
(* A list is a function from the ids that are in it; it is always shown in *)
(* the order of the field order, and by name, here by id, where it ties.   *)
(***************************************************************************)
EXTENDS Integers, FiniteSets, Sequences, SequencesExt

CONSTANTS
    Windows,
    ButtonIds,  \* the ids a button may get: a set of numbers
    Groups,
    MaxButtons, \* bound on the buttons at the start
    MaxAsked    \* bound on the handlers that are started

VARIABLES
    server,     \* config.Buttons
    view,       \* of each window: buttons of its store
    calls,      \* the handlers that await a request
    clock,      \* of the server
    asked,      \* the handlers started so far
    skewed      \* history, of each window: a handler of its overlapped another one,
                \*   or another window changed the list, or its reordering failed

vars == <<server, view, calls, clock, asked, skewed>>

Button == [group : Groups, order : Int, mtime : Nat]

Put(list, id, b) == [i \in DOMAIN list \cup {id} |-> IF i = id THEN b ELSE list[i]]
Without(list, id) == [i \in DOMAIN list \ {id} |-> list[i]]

\* findIndex, of an id in a list of ids.
Place(seq, id) == SelectInSeq(seq, LAMBDA i : i = id)

\* sortButtons.
Before(list, i, j) ==
    list[i].order < list[j].order \/ (list[i].order = list[j].order /\ i < j)
InGroup(list, g) == {i \in DOMAIN list : list[i].group = g}
Rank(list, S, i) == Cardinality({j \in S : Before(list, j, i)})
Sorted(list, S) == [k \in 1 .. Cardinality(S) |-> CHOOSE i \in S : Rank(list, S, i) = k - 1]
Shown(list, g) == Sorted(list, InGroup(list, g))

MaxOrder(list) ==
    CHOOSE m \in {0} \cup {list[i].order : i \in DOMAIN list} :
        \A i \in DOMAIN list : list[i].order <= m

-----------------------------------------------------------------------------
(* The server.                                                             *)

\* UpsertButton: the order 0 and the mtime 0 stand for none.
Upserted(list, id, b, now) ==
    Put(list, id,
        [b EXCEPT !.mtime = IF @ = 0 THEN now ELSE @,
                  !.order = IF @ = 0 /\ id \notin DOMAIN list THEN MaxOrder(list) + 10
                                                              ELSE @])

Resequenced(list, seq, now) ==
    [i \in DOMAIN list |->
        [list[i] EXCEPT !.order = 10 * Place(seq, i), !.mtime = now]]

\* mutant: equal orders are not looked for
Moved_NoResequence(list, id, direction, now) ==
    LET group == Shown(list, list[id].group)
        place == Place(group, id) + direction
    IN IF place \notin DOMAIN group THEN list
       ELSE [list EXCEPT ![id].order = list[group[place]].order + direction, ![id].mtime = now]

\* MoveButton: the button takes the place beside its neighbour in the group, and
\* the order beside the neighbour's; if two orders are equal now, all are renumbered.
Moved(list, id, direction, now) ==
    LET group == Shown(list, list[id].group)
        place == Place(group, id) + direction
    IN IF place \notin DOMAIN group THEN list
       ELSE LET rest == RemoveFirst(Sorted(list, DOMAIN list), id)
                target == Place(rest, group[place])
                seq == InsertAt(rest, IF direction > 0 THEN target + 1 ELSE target, id)
                new == [list EXCEPT ![id].order = list[group[place]].order + direction,
                                    ![id].mtime = now]
            IN IF \E i, j \in DOMAIN new : i # j /\ new[i].order = new[j].order
               THEN Resequenced(new, seq, now)
               ELSE new

\* UpsertButtons with force: what the window sent overrides, and brings back.
Forced(list, sent) ==
    [i \in DOMAIN list \cup DOMAIN sent |-> IF i \in DOMAIN sent THEN sent[i] ELSE list[i]]

Done(c) ==
    CASE c.op = "save" -> Upserted(server, c.id, c.button, clock)
      [] c.op = "delete" -> Without(server, c.id)
      [] c.op = "move" -> IF c.id \in DOMAIN server
                          THEN Moved(server, c.id, c.direction, clock) ELSE server
      [] c.op = "reorder" -> Forced(server, c.list)

-----------------------------------------------------------------------------
(* The windows.                                                            *)

Calling(w, c) ==
    /\ asked' = asked + 1
    /\ calls' = calls \cup {c}
    /\ skewed' = [skewed EXCEPT ![w] = @ \/ \E d \in calls : d.w = w]
    /\ UNCHANGED <<server, clock>>

\* openAddButtonDialog: the order that the form of a new button proposes.
Proposed(list) ==
    LET orders == {list[i].order : i \in DOMAIN list}
        greatest == IF orders = {} THEN 0 ELSE Max(orders)
    IN IF greatest = -10 THEN 10 ELSE greatest + 10

\* genId: an id that nothing mentions any more is as good as one never used.
Fresh(id) ==
    /\ id \notin DOMAIN server /\ \A v \in Windows : id \notin DOMAIN view[v]
    /\ \A c \in calls : CASE c.op = "reorder" -> id \notin DOMAIN c.list
                         [] c.op = "get" -> TRUE
                         [] OTHER -> c.id # id

\* saveButton: the form of a new button with the order it proposes, or none when
\* the user clears it; or a copy of a button with its order, and with its mtime
\* unless it was opened by the menu.  The call stands for the open form, too: it
\* is filled when it opens, and sent, or closed (Failed), at any later time.
SaveButton(w) ==
    /\ \/ \E id \in ButtonIds, g \in Groups, order \in {Proposed(view[w]), 0} :
             /\ Fresh(id)
             /\ Calling(w, [w |-> w, op |-> "save", id |-> id, edit |-> FALSE,
                            button |-> [group |-> g, order |-> order, mtime |-> 0]])
       \/ \E id \in DOMAIN view[w], g \in Groups : \E mtime \in {view[w][id].mtime, 0} :
             /\ g # view[w][id].group
             /\ Calling(w, [w |-> w, op |-> "save", id |-> id, edit |-> TRUE,
                            button |-> [view[w][id] EXCEPT !.group = g, !.mtime = mtime]])
    /\ UNCHANGED view

DeleteButton(w) ==
    \E id \in DOMAIN view[w] :
        Calling(w, [w |-> w, op |-> "delete", id |-> id]) /\ UNCHANGED view

MoveButton(w) ==
    \E id \in DOMAIN view[w], direction \in {-1, 1} :
        Calling(w, [w |-> w, op |-> "move", id |-> id, direction |-> direction])
        /\ UNCHANGED view

\* The buttons of a group with the orders and the time they get.
Renumbered(list, seq) ==
    [i \in ToSet(seq) |->
        [list[i] EXCEPT !.order = 10 * Place(seq, i), !.mtime = clock]]

\* reorderButtons: the dragged button goes before or after the target, and the
\* whole group is sent with force.
ReorderButtons(w) ==
    \E g \in Groups :
        LET seq == Shown(view[w], g)
        IN \E dragged, target \in InGroup(view[w], g), after \in BOOLEAN :
            LET rest == RemoveFirst(seq, dragged)
                k == Place(rest, target)
                new == Renumbered(view[w], InsertAt(rest, IF after THEN k + 1 ELSE k, dragged))
            IN /\ dragged # target
               /\ Calling(w, [w |-> w, op |-> "reorder", list |-> new])
               /\ view' = [view EXCEPT ![w] = Forced(@, new)]

-----------------------------------------------------------------------------
(* Requests and answers.                                                   *)

Others(w) == [v \in Windows |-> skewed[v] \/ v # w]

\* mutant: the list is not fetched after a deletion
Handled_DeleteUnseen(c) ==
    /\ c.op # "get"
    /\ server' = Done(c)
    /\ clock' = clock + 1
    /\ calls' = (calls \ {c}) \cup
                (IF c.op \in {"reorder", "delete"} THEN {} ELSE {[w |-> c.w, op |-> "get"]})
    /\ skewed' = Others(c.w)
    /\ UNCHANGED <<view, asked>>

\* The server carries a request out; then the window fetches the list, except
\* after a reordering.
Handled(c) ==
    /\ c.op # "get"
    /\ server' = Done(c)
    /\ clock' = clock + 1
    /\ calls' = (calls \ {c}) \cup
                (IF c.op = "reorder" THEN {} ELSE {[w |-> c.w, op |-> "get"]})
    /\ skewed' = Others(c.w)
    /\ UNCHANGED <<view, asked>>

\* A reordering that failed is only logged; after another request that failed
\* the handler stops.
Failed(c) ==
    /\ calls' = calls \ {c}
    /\ skewed' = [skewed EXCEPT ![c.w] = TRUE]
    /\ UNCHANGED <<server, view, clock, asked>>

\* setButtons; the answer is the list of the moment at which it comes.
Got(c) ==
    /\ c.op = "get"
    /\ view' = [view EXCEPT ![c.w] = server]
    /\ calls' = calls \ {c}
    /\ UNCHANGED <<server, clock, asked, skewed>>

\* refreshData, when nothing else is under way; an open form keeps what it is
\* filled with.
RefreshData(w) ==
    /\ \A c \in calls : c.w = w => c.op = "save"
    /\ view' = [view EXCEPT ![w] = server]
    /\ skewed' = [skewed EXCEPT ![w] = @ /\ \E c \in calls : c.w = w]
    /\ UNCHANGED <<server, calls, clock, asked>>

-----------------------------------------------------------------------------

Init ==
    /\ \E seq \in BoundedSeq(ButtonIds, MaxButtons), g \in [ButtonIds -> Groups] :
          /\ IsInjective(seq)
          /\ \A i \in ToSet(seq), j \in ButtonIds \ ToSet(seq) : i < j
          /\ server = [i \in ToSet(seq) |->
                         [group |-> g[i], order |-> 10 * Place(seq, i),
                          mtime |-> 1]]    \* of their last change
    /\ view = [w \in Windows |-> server]
    /\ calls = {} /\ clock = 2 /\ asked = 0
    /\ skewed = [w \in Windows |-> FALSE]

Next ==
    \/ asked < MaxAsked /\ \E w \in Windows :
          \/ SaveButton(w)
          \/ DeleteButton(w)
          \/ MoveButton(w)
          \/ ReorderButtons(w)
    \/ \E w \in Windows : RefreshData(w)
    \/ \E c \in calls : Handled(c) \/ Failed(c) \/ Got(c)

Spec == Init /\ [][Next]_vars

-----------------------------------------------------------------------------

IsList(list) == DOMAIN list \subseteq ButtonIds /\ \A i \in DOMAIN list : list[i] \in Button

TypeOK ==
    /\ IsList(server) /\ \A w \in Windows : IsList(view[w])
    /\ \A c \in calls : c.op = "reorder" => IsList(c.list)
    /\ clock \in 2 .. asked + 2 /\ asked \in 0 .. MaxAsked
    /\ skewed \in [Windows -> BOOLEAN]

\* A window whose handlers ran one after the other, with nobody else at work,
\* shows the server's list when they are done; a reordering has shown it before
\* the server knew it (store.ts, "Sort them as backend would").
ViewSettles ==
    \A w \in Windows :
        ~skewed[w] /\ (\A c \in calls : c.w # w) => view[w] = server

\* Up and down move a button by one place in its group and nothing else in any
\* group, whatever orders are equal after drags and edits (config.go, MoveButton).
MoveAlone ==
    \A c \in calls :
        c.op = "move" /\ c.id \in DOMAIN server /\ Handled(c) =>
           LET g == server[c.id].group
               old == Shown(server, g)
               k == Place(old, c.id)
               n == k + c.direction
           IN /\ \A h \in Groups \ {g} : Shown(server', h) = Shown(server, h)
              /\ Shown(server', g) =
                   IF n \in DOMAIN old THEN [old EXCEPT ![k] = old[n], ![n] = old[k]]
                                       ELSE old

\* A new button comes last in its group: with the order the server chose, always
\* (config.go, UpsertButton); with the one that the form proposed, unless the window
\* that filled the form was behind the server (store.ts, maxOrder).
NewLast ==
    \A c \in calls :
        c.op = "save" /\ ~c.edit /\ (c.button.order = 0 \/ ~skewed[c.w]) /\ Handled(c) =>
           Last(Shown(server', c.button.group)) = c.id

Changed(i) == i \in DOMAIN server /\ i \in DOMAIN server' /\ server'[i] # server[i]

\* "button modified unix timestamp in milliseconds" (models.go, Mtime): what
\* changes a button gives it a newer time, by which the synchronisation finds it;
\* but not an edit that sends the time of the copy in the form, nor a drag in a
\* window that did not show the server's list (store.ts).
StampedUnlessEdited ==
    \A i \in ButtonIds :
        Changed(i) => \/ server'[i].mtime > server[i].mtime
                      \/ \E c \in calls \ calls' :
                            \/ c.op = "save" /\ c.button.mtime # 0
                            \/ c.op = "reorder" /\ skewed[c.w]

\* The three together (config.go, store.ts).
ListChanges == [][MoveAlone /\ NewLast /\ StampedUnlessEdited]_vars
=============================================================================
