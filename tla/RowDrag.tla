------------------------------- MODULE RowDrag --------------------------------
(***************************************************************************)
(* Drag and drop in the sidebar (Sidebar.tsx).  The row that is dragged is *)
(* noted when a drag starts; a drop acts on what is noted, not on what the *)
(* browser drags.  Favourites forget it when their drag ends, rows of the  *)
(* tree only when a drop has been handled, which awaits a request.         *)
(***************************************************************************)
EXTENDS Naturals, Sequences, SequencesExt

CONSTANTS
    HostNames, Nodes,
    MaxSteps    \* bound on the moves that are sent

VARIABLES
    hand,       \* what the browser drags: a row, something else, or nothing
    dragged,    \* draggedItem
    moving,     \* handlers of a drop that await their request
    sent,       \* history: the moves, each with what was in the hand
    cleared,    \* history: a handler ended while another row was dragged
    missed      \* history: a drop of a row that can be moved there sent nothing

vars == <<hand, dragged, moving, sent, cleared, missed>>

Nothing == [type |-> "nothing", of |-> <<>>]
Foreign == [type |-> "foreign", of |-> <<>>]
Row(type, of) == [type |-> type, of |-> of]
TreeRows == {Row("server", h) : h \in HostNames} \cup {Row("group", p) : p \in Nodes}
FavRows == {Row("fav", h) : h \in HostNames}
Root == Row("root", <<>>)     \* the tree, beside its rows

-----------------------------------------------------------------------------

\* mutant: the row of a favourite is not noted
Noted_Tree(row) == IF row.type = "fav" THEN dragged ELSE row

\* onDragStart.
Noted(row) == row
DragStart ==
    /\ hand = Nothing
    /\ \E row \in TreeRows \cup FavRows : hand' = row /\ dragged' = Noted(row)
    /\ UNCHANGED <<moving, sent, cleared, missed>>

\* A file or a text, of this page or another.
ForeignStart ==
    /\ hand = Nothing /\ hand' = Foreign
    /\ UNCHANGED <<dragged, moving, sent, cleared, missed>>

\* What the drag leaves noted when it ends: onDragEnd of a favourite.
AfterDrag(item) == IF hand.type = "fav" THEN Nothing ELSE item

\* onDragOver: what no row accepts goes up to the tree, which accepts all that is
\* noted; so a group can be dropped on itself or on what is in it.
Accepts(target) ==
    IF target \in FavRows THEN dragged.type = "fav" /\ dragged # target
    ELSE dragged # Nothing

\* onDrop of a row of the tree and of the tree: a server goes anywhere, a group
\* before a group.
MovesTo(item, target) ==
    \/ item.type = "server" /\ target \in TreeRows \cup {Root}
    \/ item.type = "group" /\ target.type = "group"
    \/ item.type = "fav" /\ target \in FavRows \ {item}

Drop ==
    /\ hand # Nothing /\ hand' = Nothing
    /\ \E target \in TreeRows \cup FavRows \cup {Root} :
          /\ Accepts(target)
          /\ IF MovesTo(dragged, target)
             THEN /\ Len(sent) < MaxSteps
                  /\ sent' = Append(sent, [row |-> dragged, hand |-> hand])
                  \* reorderFavourites is awaited after the note is cleared.
                  /\ IF target \in FavRows
                     THEN dragged' = Nothing /\ UNCHANGED moving
                     ELSE dragged' = AfterDrag(dragged) /\ moving' = moving + 1
                  /\ UNCHANGED missed
             ELSE /\ dragged' = Nothing
                  /\ missed' = (missed \/ MovesTo(hand, target))
                  /\ UNCHANGED <<moving, sent>>
    /\ UNCHANGED cleared

\* A drag ends elsewhere, by Escape, or where it is not accepted.
DragEnd ==
    /\ hand # Nothing /\ hand' = Nothing
    /\ dragged' = AfterDrag(dragged)
    /\ \/ UNCHANGED missed
       \/ \E target \in TreeRows \cup FavRows \cup {Root} :
             ~Accepts(target) /\ missed' = (missed \/ MovesTo(hand, target))
    /\ UNCHANGED <<moving, sent, cleared>>

\* moveServer or moveGroup returns.
Moved ==
    /\ moving > 0 /\ moving' = moving - 1
    /\ dragged' = Nothing
    /\ cleared' = (cleared \/ (hand # Nothing /\ dragged = hand))
    /\ UNCHANGED <<hand, sent, missed>>
MoveFails ==
    /\ moving > 0 /\ moving' = moving - 1
    /\ UNCHANGED <<hand, dragged, sent, cleared, missed>>

-----------------------------------------------------------------------------

Init ==
    /\ hand = Nothing /\ dragged = Nothing /\ moving = 0
    /\ sent = <<>> /\ cleared = FALSE /\ missed = FALSE

Next ==
    \/ DragStart
    \/ ForeignStart
    \/ Drop
    \/ DragEnd
    \/ Moved
    \/ MoveFails

Spec == Init /\ [][Next]_vars

-----------------------------------------------------------------------------

TypeOK ==
    /\ hand \in TreeRows \cup FavRows \cup {Nothing, Foreign}
    /\ dragged \in TreeRows \cup FavRows \cup {Nothing}
    /\ moving \in 0 .. Len(sent) /\ cleared \in BOOLEAN /\ missed \in BOOLEAN

\* What is moved is what the user dropped, but when something that is no row is
\* dropped after the drag of a row of the tree had ended elsewhere.
DropsAimed == \A i \in DOMAIN sent : sent[i].hand \in {sent[i].row, Foreign}

\* A row that is dropped where it can go is moved, unless the handler of an
\* earlier drop has ended in the meantime.
DropsTaken == missed => cleared

DragSafe == DropsAimed /\ DropsTaken
=============================================================================
