--------------------------- MODULE MCBrowser_proofs ---------------------------
(***************************************************************************)
(* The properties of the composition that are proved of its parts: as a    *)
(* machine that does not run stands still, each part behaves as by itself. *)
(***************************************************************************)
EXTENDS MCBrowser, FiniteSetTheorems, TLAPS

-----------------------------------------------------------------------------
(* The queue of uploads, for any number of items.                          *)

\* An item that has not had its turn was never sent and is not being sent; one that is
\* shown as uploading is.
Turns ==
    \A i \in U!Items :
        /\ status[i] \in {"none", "pending"} => sent[i] = 0 /\ i \notin sending
        /\ status[i] = "uploading" => i \in sending

QueueInv == U!TypeOK /\ U!QueueSafe /\ Turns

LEMMA QueueStart == U!Init => QueueInv
<1> SUFFICES ASSUME U!Init PROVE QueueInv
    OBVIOUS
<1> USE DEF U!Init
<1>1. U!TypeOK
    BY DEF U!TypeOK, U!Statuses
<1>2. U!OneUpload /\ U!CompletedStored
    BY DEF U!OneUpload, U!CompletedStored
<1>3. U!QueueMoves
    BY DEF U!QueueMoves, U!Waiting
<1>4. Turns
    BY DEF Turns
<1> QED BY <1>1, <1>2, <1>3, <1>4 DEF QueueInv, U!QueueSafe

LEMMA StartsInv ==
    ASSUME QueueInv, U!ProcessNext
    PROVE  QueueInv'
<1>1. CASE ~processing /\ \E i \in U!Items : U!FirstWaiting(i) /\ U!Starts(i)
    <2>1. PICK i \in U!Items : U!FirstWaiting(i) /\ U!Starts(i)
        BY <1>1
    <2>2. sending = {} /\ sent[i] = 0 /\ status[i] = "pending"
        BY <1>1, <2>1 DEF U!FirstWaiting, U!Waiting, QueueInv, U!QueueSafe, U!OneUpload, Turns
    <2> USE <2>1, <2>2 DEF QueueInv, U!TypeOK, U!QueueSafe, U!Starts, U!ProcessNext
    <2>3. U!TypeOK'
        <3>1. status' \in [U!Items -> U!Statuses]
            BY DEF U!Statuses
        <3>2. sent' \in [U!Items -> Nat]
            OBVIOUS
        <3>3. sending' \subseteq U!Items
            OBVIOUS
        <3> QED BY <3>1, <3>2, <3>3
    <2>4. U!OneUpload'
        BY DEF U!OneUpload
    <2>5. U!CompletedStored'
        BY DEF U!CompletedStored
    <2>6. U!QueueMoves'
        BY DEF U!QueueMoves
    <2>7. Turns'
        BY DEF Turns
    <2> QED BY <2>3, <2>4, <2>5, <2>6, <2>7
<1>2. CASE /\ processing \/ U!Waiting = {}
           /\ due' = FALSE /\ UNCHANGED <<status, processing, sending, sent>>
    <2> USE <1>2 DEF QueueInv, U!ProcessNext
    <2>1. U!TypeOK' /\ Turns'
        BY DEF U!TypeOK, Turns
    <2>2. U!QueueSafe'
        BY DEF U!QueueSafe, U!OneUpload, U!CompletedStored, U!QueueMoves, U!Waiting
    <2> QED BY <2>1, <2>2
<1> QED BY <1>1, <1>2 DEF U!ProcessNext

LEMMA EnqueueInv ==
    ASSUME QueueInv, NEW new \in SUBSET U!Items, NEW ks \in U!Scanned, U!EnqueueItems(new, ks)
    PROVE  QueueInv'
<1> USE DEF QueueInv, U!TypeOK, U!EnqueueItems, U!Fresh
<1>1. U!TypeOK'
    BY DEF U!Statuses, U!Scanned
<1>2. U!QueueSafe'
    BY DEF U!QueueSafe, U!OneUpload, U!CompletedStored, U!QueueMoves
<1>3. Turns'
    BY DEF Turns
<1> QED BY <1>1, <1>2, <1>3

LEMMA CancelInv ==
    ASSUME QueueInv, NEW i \in U!Items, U!Cancel(i)
    PROVE  QueueInv'
<1> USE DEF QueueInv, U!TypeOK, U!Cancel
<1>1. U!TypeOK'
    BY DEF U!Statuses, U!Finished
<1>2. Turns'
    BY DEF Turns, U!QueueSafe, U!OneUpload
<1>3. CASE status[i] = "uploading" /\ kind[i] = "file"
    <2>1. sending' = {} /\ processing' = FALSE /\ UNCHANGED sent
        BY <1>3 DEF Turns, U!QueueSafe, U!OneUpload
    <2>2. U!OneUpload'
        BY <2>1 DEF U!QueueSafe, U!OneUpload
    <2>3. U!CompletedStored' /\ U!QueueMoves'
        BY <1>3 DEF U!QueueSafe, U!CompletedStored, U!QueueMoves
    <2> QED BY <1>1, <1>2, <2>2, <2>3 DEF U!QueueSafe
<1>4. CASE ~(status[i] = "uploading" /\ kind[i] = "file")
    <2>1. due' = TRUE /\ UNCHANGED <<processing, sending, stored, sent>>
        BY <1>4
    <2>2. U!OneUpload'
        BY <2>1 DEF U!QueueSafe, U!OneUpload
    <2>3. U!CompletedStored' /\ U!QueueMoves'
        BY <2>1 DEF U!QueueSafe, U!CompletedStored, U!QueueMoves
    <2> QED BY <1>1, <1>2, <2>2, <2>3 DEF U!QueueSafe
<1> QED BY <1>3, <1>4

LEMMA RemovedInv ==
    ASSUME QueueInv, NEW gone \in SUBSET U!Items, \A i \in gone : status[i] \in U!Finished,
           U!Removed(gone)
    PROVE  QueueInv'
<1> USE DEF QueueInv, U!TypeOK, U!Removed
<1>1. U!TypeOK'
    BY DEF U!Statuses
<1>2. U!QueueSafe'
    BY DEF U!QueueSafe, U!OneUpload, U!CompletedStored, U!QueueMoves
<1>3. Turns'
    BY DEF Turns
<1> QED BY <1>1, <1>2, <1>3

LEMMA AnsweredInv ==
    ASSUME QueueInv, NEW i \in U!Items, U!Answered(i)
    PROVE  QueueInv'
<1> USE DEF QueueInv, U!TypeOK, U!Answered, U!Ends
<1>1. U!TypeOK'
    BY DEF U!Statuses, U!Finished
<1>2. U!OneUpload' /\ U!CompletedStored' /\ U!QueueMoves'
    BY DEF U!QueueSafe, U!OneUpload, U!CompletedStored, U!QueueMoves
<1>3. Turns'
    BY DEF Turns
<1> QED BY <1>1, <1>2, <1>3 DEF U!QueueSafe

LEMMA QueueStep == QueueInv /\ [U!Next]_(U!vars) => QueueInv'
<1> SUFFICES ASSUME QueueInv, [U!Next]_(U!vars) PROVE QueueInv'
    OBVIOUS
<1>1. CASE UNCHANGED U!vars
    BY <1>1 DEF U!vars, QueueInv, U!TypeOK, U!QueueSafe, U!OneUpload, U!CompletedStored,
                U!QueueMoves, Turns, U!Waiting
<1>2. CASE U!Asked
    <2>1. CASE U!RemoveQueueItem
        <3>1. PICK i \in U!Items : status[i] \in U!Finished /\ U!Removed({i})
            BY <2>1 DEF U!RemoveQueueItem
        <3> QED BY <3>1, RemovedInv
    <2>2. CASE U!ClearFinishedQueue
        BY <2>2, RemovedInv DEF U!ClearFinishedQueue
    <2> QED BY <1>2, <2>1, <2>2, EnqueueInv, CancelInv DEF U!Asked
<1>3. CASE U!ProcessNext
    BY <1>3, StartsInv
<1>4. CASE \E i \in U!Items : U!Answered(i)
    BY <1>4, AnsweredInv
<1>5. CASE U!PollProgress
    BY <1>5 DEF U!PollProgress, QueueInv, U!TypeOK, U!QueueSafe, U!OneUpload, U!CompletedStored,
                U!QueueMoves, Turns
<1> QED BY <1>1, <1>2, <1>3, <1>4, <1>5 DEF U!Next

LEMMA QueueRun == Spec => []QueueInv
<1>1. Init => QueueInv
  BY QueueStart DEF Init
<1>2. QueueInv /\ [Next]_vars => QueueInv'
  <2>1. [Next]_vars => U!Next \/ UNCHANGED uploads
    BY DEF Next, vars
  <2>2. UNCHANGED uploads => UNCHANGED U!vars
    BY DEF uploads, U!vars
  <2> QED BY <2>1, <2>2, QueueStep
<1> QED BY <1>1, <1>2, PTL DEF Spec

\* At most one upload is under way and none is sent twice, what is shown as completed
\* is on the server, and what waits gets its turn (FileBrowser.tsx, isProcessingRef).
THEOREM QueueIsSafe == Spec => []QueueSafe
<1>1. QueueInv => QueueSafe
  BY DEF QueueInv, QueueSafe
<1> QED BY <1>1, QueueRun, PTL

LEMMA QueueStartMaps == U!Init => U!T!Init
BY DEF U!Init, U!T!Init, U!Phase, U!Items, U!T!Items

LEMMA ItemsMap == U!T!Items = U!Items
BY DEF U!Items, U!T!Items

LEMMA StartMaps ==
    ASSUME QueueInv, U!ProcessNext
    PROVE  [U!T!Next]_(U!Phase)
<1>1. CASE ~processing /\ \E i \in U!Items : U!FirstWaiting(i) /\ U!Starts(i)
    <2>1. PICK i \in U!Items : U!FirstWaiting(i) /\ U!Starts(i)
        BY <1>1
    <2>2. sending = {}
        BY <1>1 DEF QueueInv, U!QueueSafe, U!OneUpload
    <2>3. U!Phase[i] = "waiting" /\ \A j \in U!Items : U!Phase[j] # "running"
        BY <2>1, <2>2 DEF U!FirstWaiting, U!Waiting, U!Phase
    <2>4. \A j \in U!Items : U!Phase[j] = "waiting" => i <= j
        BY <2>1, <2>2 DEF U!FirstWaiting, U!Waiting, U!Phase
    <2>5. U!Phase' = [U!Phase EXCEPT ![i] = "running"]
        BY <2>1, <2>2 DEF U!Phase, U!Starts, QueueInv, U!TypeOK
    <2>6. U!T!Start(i)
        BY <2>3, <2>4, <2>5, ItemsMap DEF U!T!Start
    <2> QED BY <2>6, ItemsMap DEF U!T!Next
<1>2. CASE UNCHANGED <<status, sending>>
    BY <1>2 DEF U!Phase
<1> QED BY <1>1, <1>2 DEF U!ProcessNext

LEMMA EnqueueMaps ==
    ASSUME QueueInv, NEW new \in SUBSET U!Items, NEW ks \in U!Scanned, U!EnqueueItems(new, ks)
    PROVE  [U!T!Next]_(U!Phase)
<1> USE DEF U!EnqueueItems, U!Fresh
<1>1. \A i \in new : U!Phase[i] = "none"
    BY DEF QueueInv, Turns, U!Phase
<1>2. U!Phase' = [i \in U!Items |-> IF i \in new THEN "waiting" ELSE U!Phase[i]]
    BY DEF U!Phase, QueueInv, Turns, U!TypeOK
<1>3. U!T!Queue(new)
    BY <1>1, <1>2, ItemsMap DEF U!T!Queue
<1> QED BY <1>3, ItemsMap DEF U!T!Next

LEMMA CancelMaps ==
    ASSUME QueueInv, NEW i \in U!Items, U!Cancel(i)
    PROVE  [U!T!Next]_(U!Phase)
<1> USE DEF U!Cancel, QueueInv, U!TypeOK
<1>1. CASE status[i] = "pending"
    <2>1. U!Phase[i] = "waiting" /\ U!Phase' = [U!Phase EXCEPT ![i] = "ended"]
        BY <1>1 DEF U!Phase, Turns
    <2>2. U!T!Withdraw(i)
        BY <2>1 DEF U!T!Withdraw
    <2> QED BY <2>2, ItemsMap DEF U!T!Next
<1>2. CASE status[i] = "uploading" /\ kind[i] = "file" /\ i \in sending
    <2>1. U!Phase[i] = "running" /\ U!Phase' = [U!Phase EXCEPT ![i] = "ended"]
        BY <1>2 DEF U!Phase
    <2>2. U!T!End(i)
        BY <2>1 DEF U!T!End
    <2> QED BY <2>2, ItemsMap DEF U!T!Next
<1>3. CASE status[i] = "uploading" /\ ~(kind[i] = "file" /\ i \in sending)
    <2>1. U!Phase' = U!Phase
        BY <1>3 DEF U!Phase
    <2> QED BY <2>1
<1> QED BY <1>1, <1>2, <1>3

LEMMA RemovedMaps ==
    ASSUME QueueInv, NEW gone \in SUBSET U!Items, \A i \in gone : status[i] \in U!Finished,
           U!Removed(gone)
    PROVE  U!Phase' = U!Phase
BY DEF U!Removed, U!Phase, U!Finished

LEMMA AnsweredMaps ==
    ASSUME QueueInv, NEW i \in U!Items, U!Answered(i)
    PROVE  [U!T!Next]_(U!Phase)
<1> USE DEF QueueInv, U!TypeOK, U!Answered, U!Ends
<1>1. U!Phase[i] = "running"
    BY DEF U!Phase
<1>2. status[i] \notin {"none", "pending"}
    BY DEF Turns
<1>3. U!Phase' = [U!Phase EXCEPT ![i] = "ended"]
    BY <1>2 DEF U!Phase
<1>4. U!T!End(i)
    BY <1>1, <1>3 DEF U!T!End
<1> QED BY <1>4, ItemsMap DEF U!T!Next

LEMMA QueueStepMaps == QueueInv /\ [U!Next]_(U!vars) => [U!T!Next]_(U!Phase)
<1> SUFFICES ASSUME QueueInv, [U!Next]_(U!vars) PROVE [U!T!Next]_(U!Phase)
    OBVIOUS
<1>1. CASE UNCHANGED U!vars \/ U!PollProgress
    BY <1>1 DEF U!vars, U!PollProgress, U!Phase
<1>2. CASE U!Asked
    <2>1. CASE U!RemoveQueueItem
        <3>1. PICK i \in U!Items : status[i] \in U!Finished /\ U!Removed({i})
            BY <2>1 DEF U!RemoveQueueItem
        <3> QED BY <3>1, RemovedMaps
    <2>2. CASE U!ClearFinishedQueue
        BY <2>2, RemovedMaps DEF U!ClearFinishedQueue
    <2> QED BY <1>2, <2>1, <2>2, EnqueueMaps, CancelMaps DEF U!Asked
<1>3. CASE U!ProcessNext
    BY <1>3, StartMaps
<1>4. CASE \E i \in U!Items : U!Answered(i)
    BY <1>4, AnsweredMaps
<1> QED BY <1>1, <1>2, <1>3, <1>4 DEF U!Next

\* The queue, its ref and the renders implement the abstract queue (FileBrowser.tsx).
THEOREM Implements == Spec => ImplementsTransfers
<1>1. Init => U!T!Init
  BY QueueStartMaps DEF Init
<1>2. QueueInv /\ [Next]_vars => [U!T!Next]_(U!Phase)
  <2>1. [Next]_vars => U!Next \/ UNCHANGED uploads
    BY DEF Next, vars
  <2>2. UNCHANGED uploads => UNCHANGED U!vars
    BY DEF uploads, U!vars
  <2> QED BY <2>1, <2>2, QueueStepMaps
<1> QED
  BY <1>1, <1>2, QueueRun, PTL DEF Spec, ImplementsTransfers, U!ImplementsTransfers, U!T!Spec

-----------------------------------------------------------------------------
(* The file browser: what a handler holds is of the pane shown, unless the *)
(* pane was switched, and no two handlers run.                             *)

Ops == {"rename", "delete", "mkdir", "newFile", "download", "edit", "save", "stat"}

\* What the handlers of the file browser hold are listings and handlers it can have.
FilesTyped ==
    /\ session \in PaneSessions
    /\ shown \in F!Listings \cup {NoListing}
    /\ menu \in F!Listings \cup {NoListing}
    /\ editing \in F!Listings \cup {NoListing}
    /\ asks \subseteq F!Listings
    /\ acts \subseteq [op : Ops, c : F!Listings, dir : Dirs, seen : F!Listings, asked : BOOLEAN]
    /\ upload \in F!Listings \cup {NoListing}
    /\ shown = NoListing => menu = NoListing /\ editing = NoListing /\ acts = {}

\* A listing is of the pane that is shown, until the user has switched panes.
Current(l) == l.sess = session \/ switched

OfThisPane ==
    /\ \A l \in {shown, menu, editing, upload} : l # NoListing => Current(l)
    /\ \A l \in asks : Current(l)
    /\ \A a \in acts : Current(a.c) /\ Current(a.seen)

\* One handler runs at a time: a dialog or the overlay covers the rest.
OneAct == \A a, b \in acts : a = b

\* The menu that is open was opened on the listing shown, or the rows slid under it.
MenuShown == menu # NoListing => menu = shown \/ slid

FilesSafe == FilesTyped /\ OfThisPane /\ OneAct /\ MenuShown /\ F!AimKept /\ F!LoadingEnds

LEMMA FilesStart == F!Init => FilesSafe
<1> SUFFICES ASSUME F!Init PROVE FilesSafe
  OBVIOUS
<1>1. FilesTyped
  BY DEF F!Init, FilesTyped, F!Listing, F!Listings
<1>2. OfThisPane
  BY DEF F!Init, OfThisPane, Current, F!Listing
<1> QED
  BY <1>1, <1>2 DEF F!Init, FilesSafe, OneAct, MenuShown, F!AimKept, F!LoadingEnds

LEMMA StartsOne ==
    ASSUME F!LoadingEnds, NEW op \in Ops, NEW c \in F!Listings, NEW dir \in Dirs,
           NEW seen \in F!Listings, F!Starts(op, c, dir, seen), UNCHANGED asks
    PROVE  /\ acts' \subseteq [op : Ops, c : F!Listings, dir : Dirs, seen : F!Listings, asked : BOOLEAN]
           /\ F!LoadingEnds'
<1> DEFINE a == [op |-> op, c |-> c, dir |-> dir, seen |-> seen, asked |-> op \in F!Dialogs]
<1>1. /\ acts = {} /\ acts' = {a} /\ a.op = op /\ a.asked = (op \in F!Dialogs)
      /\ a \in [op : Ops, c : F!Listings, dir : Dirs, seen : F!Listings, asked : BOOLEAN]
  BY DEF F!Starts
<1>2. F!LoadingEnds'
  <2> SUFFICES ASSUME loading', asks = {} PROVE op \in {"save", "edit", "stat"}
    BY <1>1 DEF F!LoadingEnds, F!Loads, F!Dialogs
  <2> QED BY <1>1 DEF F!Starts, F!LoadingEnds
<1> QED BY <1>1, <1>2

LEMMA FilesStep == ASSUME FilesSafe, F!Next PROVE FilesSafe'
<1> USE DEF FilesSafe, F!Listing, F!FetchFiles
<1>1. CASE \E s \in PaneSessions : F!SessionChanged(s)
  <2>1. FilesTyped'
    BY <1>1 DEF F!SessionChanged, F!Path, FilesTyped, F!Listings, Ops
  <2>2. OfThisPane'
    BY <1>1 DEF F!SessionChanged, F!Path, OfThisPane, Current, FilesTyped, F!Listings
  <2>3. OneAct'
    BY <1>1 DEF F!SessionChanged, F!Path, OneAct
  <2>4. MenuShown'
    BY <1>1 DEF F!SessionChanged, F!Path, MenuShown
  <2>5. F!AimKept'
    BY <1>1
    DEF F!SessionChanged, F!Path, F!AimKept, FilesTyped, OfThisPane, OneAct, MenuShown, Current,
        F!Listings
  <2>6. F!LoadingEnds'
    BY <1>1 DEF F!SessionChanged, F!Path, F!LoadingEnds, OneAct, FilesTyped, Ops, F!Loads
  <2> QED BY <2>1, <2>2, <2>3, <2>4, <2>5, <2>6
<1>2. CASE \E d \in Dirs : F!Navigate(d)
  <2>1. FilesTyped'
    BY <1>2 DEF F!Navigate, F!Closure, FilesTyped, F!Listings, Ops
  <2>2. OfThisPane'
    BY <1>2 DEF F!Navigate, F!Closure, OfThisPane, Current, FilesTyped, F!Listings
  <2>3. OneAct'
    BY <1>2 DEF F!Navigate, F!Closure, OneAct
  <2>4. MenuShown'
    BY <1>2 DEF F!Navigate, F!Closure, MenuShown
  <2>5. F!AimKept'
    BY <1>2
    DEF F!Navigate, F!Closure, F!AimKept, FilesTyped, OfThisPane, OneAct, MenuShown, Current,
        F!Listings
  <2>6. F!LoadingEnds'
    BY <1>2 DEF F!Navigate, F!Closure, F!LoadingEnds, OneAct, FilesTyped, Ops, F!Loads
  <2> QED BY <2>1, <2>2, <2>3, <2>4, <2>5, <2>6
<1>3. CASE F!ListAnswered
  <2>1. FilesTyped'
    BY <1>3, NoListingIsNone
    DEF F!ListAnswered, F!Listed, F!ListFailed, F!Answered, FilesTyped, F!Listings, Ops
  <2>2. OfThisPane'
    BY <1>3
    DEF F!ListAnswered, F!Listed, F!ListFailed, F!Answered, OfThisPane, Current, FilesTyped,
        F!Listings
  <2>3. OneAct'
    BY <1>3 DEF F!ListAnswered, F!Listed, F!ListFailed, F!Answered, OneAct
  <2>4. MenuShown'
    <3>1. PICK l \in asks : F!Listed(l) \/ F!ListFailed(l)
      BY <1>3 DEF F!ListAnswered
    <3>2. CASE F!Listed(l)
      <4>1. menu' = menu /\ shown' = l /\ (slid' <=> slid \/ (menu # NoListing /\ menu # l))
        BY <3>2 DEF F!Listed
      <4> QED BY <4>1 DEF MenuShown
    <3>3. CASE F!ListFailed(l)
      BY <3>3 DEF F!ListFailed, MenuShown
    <3> QED BY <3>1, <3>2, <3>3
  <2>5. F!AimKept'
    <3>1. PICK l \in asks : F!Listed(l) \/ F!ListFailed(l)
      BY <1>3 DEF F!ListAnswered
    <3>2. CASE F!Listed(l)
      <4>1. UNCHANGED <<acts, switched>> /\ (slid' <=> slid \/ (menu # NoListing /\ menu # l))
        BY <3>2 DEF F!Listed
      <4> QED BY <4>1 DEF F!AimKept
    <3>3. CASE F!ListFailed(l)
      BY <3>3 DEF F!ListFailed, F!AimKept
    <3> QED BY <3>1, <3>2, <3>3
  <2>6. F!LoadingEnds'
    BY <1>3
    DEF F!ListAnswered, F!Listed, F!ListFailed, F!Answered, F!LoadingEnds, OneAct, FilesTyped,
        Ops, F!Loads
  <2> QED BY <2>1, <2>2, <2>3, <2>4, <2>5, <2>6
<1>4. CASE F!HandleContextMenu
  <2>1. FilesTyped'
    BY <1>4 DEF F!HandleContextMenu, FilesTyped, F!Listings, Ops
  <2>2. OfThisPane'
    BY <1>4 DEF F!HandleContextMenu, OfThisPane, Current, FilesTyped, F!Listings
  <2>3. OneAct'
    BY <1>4 DEF F!HandleContextMenu, OneAct
  <2>4. MenuShown'
    BY <1>4 DEF F!HandleContextMenu, MenuShown
  <2>5. F!AimKept'
    BY <1>4
    DEF F!HandleContextMenu, F!AimKept, FilesTyped, OfThisPane, OneAct, MenuShown, Current,
        F!Listings
  <2>6. F!LoadingEnds'
    BY <1>4 DEF F!HandleContextMenu, F!LoadingEnds, OneAct, FilesTyped, Ops, F!Loads
  <2> QED BY <2>1, <2>2, <2>3, <2>4, <2>5, <2>6
<1>5. CASE F!HandleFile
  <2>0. FilesTyped' /\ F!LoadingEnds'
    <3>1. menu \in F!Listings /\ shown \in F!Listings
      BY <1>5 DEF F!HandleFile, FilesTyped
    <3>2. F!Path \in Dirs /\ F!Closure \in F!Listings
      BY <3>1, NoListingIsNone DEF F!Closure, F!Path, FilesTyped, F!Listings
    <3>3. CASE UNCHANGED <<acts, loading>>
      BY <1>5, <3>3 DEF F!HandleFile, FilesTyped, F!LoadingEnds
    <3>4. ASSUME NEW op \in {"rename", "delete", "download", "edit"},
                F!Starts(op, F!Closure, F!Path, menu)
          PROVE  FilesTyped' /\ F!LoadingEnds'
      <4>1. op \in Ops
        BY DEF Ops
      <4> QED BY <1>5, <3>1, <3>2, <3>4, <4>1, StartsOne DEF F!HandleFile, FilesTyped
    <3> QED BY <1>5, <3>3, <3>4 DEF F!HandleFile
  <2>1. FilesTyped'
    BY <2>0
  <2>2. OfThisPane'
    BY <1>5
    DEF F!HandleFile, F!Starts, F!Loads, F!Dialogs, F!Closure, F!Path, OfThisPane, Current,
        FilesTyped, F!Listings
  <2>3. OneAct'
    BY <1>5 DEF F!HandleFile, F!Starts, F!Loads, F!Dialogs, F!Closure, F!Path, OneAct
  <2>4. MenuShown'
    BY <1>5 DEF F!HandleFile, F!Starts, F!Loads, F!Dialogs, F!Closure, F!Path, MenuShown
  <2>5. F!AimKept'
    BY <1>5
    DEF F!HandleFile, F!Starts, F!Loads, F!Dialogs, F!Closure, F!Path, F!AimKept, FilesTyped,
        OfThisPane, OneAct, MenuShown, Current, F!Listings
  <2>6. F!LoadingEnds'
    BY <2>0
  <2> QED BY <2>1, <2>2, <2>3, <2>4, <2>5, <2>6
<1>6. CASE F!HandleToolbar
  <2>0. FilesTyped' /\ F!LoadingEnds'
    <3>1. shown \in F!Listings
      BY <1>6 DEF F!HandleToolbar, FilesTyped
    <3>0. F!Closure \in F!Listings /\ F!Path \in Dirs
      BY <3>1, NoListingIsNone DEF F!Closure, F!Path, FilesTyped, F!Listings
    <3>2. ASSUME NEW op \in {"mkdir", "newFile", "download"}, F!Starts(op, F!Closure, F!Path, shown)
          PROVE  FilesTyped' /\ F!LoadingEnds'
      <4>1. op \in Ops
        BY DEF Ops
      <4> QED BY <1>6, <3>0, <3>1, <3>2, <4>1, StartsOne DEF F!HandleToolbar, FilesTyped
    <3>3. ASSUME NEW d \in Dirs, F!Starts("stat", F!Closure, d, F!Listing(session, d))
          PROVE  FilesTyped' /\ F!LoadingEnds'
      <4>1. "stat" \in Ops /\ F!Listing(session, d) \in F!Listings
        BY DEF Ops, FilesTyped, F!Listings
      <4> QED BY <1>6, <3>0, <3>3, <4>1, StartsOne DEF F!HandleToolbar, FilesTyped
    <3> QED BY <1>6, <3>2, <3>3 DEF F!HandleToolbar
  <2>1. FilesTyped'
    BY <2>0
  <2>2. OfThisPane'
    BY <1>6
    DEF F!HandleToolbar, F!Starts, F!Loads, F!Dialogs, F!Closure, F!Path, OfThisPane, Current,
        FilesTyped, F!Listings
  <2>3. OneAct'
    BY <1>6 DEF F!HandleToolbar, F!Starts, F!Loads, F!Dialogs, F!Closure, F!Path, OneAct
  <2>4. MenuShown'
    BY <1>6 DEF F!HandleToolbar, F!Starts, F!Loads, F!Dialogs, F!Closure, F!Path, MenuShown
  <2>5. F!AimKept'
    BY <1>6
    DEF F!HandleToolbar, F!Starts, F!Loads, F!Dialogs, F!Closure, F!Path, F!AimKept, FilesTyped,
        OfThisPane, OneAct, MenuShown, Current, F!Listings
  <2>6. F!LoadingEnds'
    BY <2>0
  <2> QED BY <2>1, <2>2, <2>3, <2>4, <2>5, <2>6
<1>7. CASE F!HandleSaveTextFile
  <2>1. FilesTyped'
    BY <1>7
    DEF F!HandleSaveTextFile, F!Starts, F!Loads, F!Dialogs, F!Closure, F!Path, FilesTyped,
        F!Listings, Ops
  <2>2. OfThisPane'
    BY <1>7
    DEF F!HandleSaveTextFile, F!Starts, F!Loads, F!Dialogs, F!Closure, F!Path, OfThisPane,
        Current, FilesTyped, F!Listings
  <2>3. OneAct'
    BY <1>7 DEF F!HandleSaveTextFile, F!Starts, F!Loads, F!Dialogs, F!Closure, F!Path, OneAct
  <2>4. MenuShown'
    BY <1>7 DEF F!HandleSaveTextFile, F!Starts, F!Loads, F!Dialogs, F!Closure, F!Path, MenuShown
  <2>5. F!AimKept'
    BY <1>7
    DEF F!HandleSaveTextFile, F!Starts, F!Loads, F!Dialogs, F!Closure, F!Path, F!AimKept,
        FilesTyped, OfThisPane, OneAct, MenuShown, Current, F!Listings
  <2>6. F!LoadingEnds'
    BY <1>7
    DEF F!HandleSaveTextFile, F!Starts, F!Loads, F!Dialogs, F!Closure, F!Path, F!LoadingEnds,
        OneAct, FilesTyped, Ops
  <2> QED BY <2>1, <2>2, <2>3, <2>4, <2>5, <2>6
<1>8. CASE F!CloseEditor
  <2>1. FilesTyped'
    BY <1>8 DEF F!CloseEditor, FilesTyped, F!Listings, Ops
  <2>2. OfThisPane'
    BY <1>8 DEF F!CloseEditor, OfThisPane, Current, FilesTyped, F!Listings
  <2>3. OneAct'
    BY <1>8 DEF F!CloseEditor, OneAct
  <2>4. MenuShown'
    BY <1>8 DEF F!CloseEditor, MenuShown
  <2>5. F!AimKept'
    BY <1>8
    DEF F!CloseEditor, F!AimKept, FilesTyped, OfThisPane, OneAct, MenuShown, Current, F!Listings
  <2>6. F!LoadingEnds'
    BY <1>8 DEF F!CloseEditor, F!LoadingEnds, OneAct, FilesTyped, Ops, F!Loads
  <2> QED BY <2>1, <2>2, <2>3, <2>4, <2>5, <2>6
<1>9. CASE F!DialogAnswered
  <2>1. FilesTyped'
    BY <1>9 DEF F!DialogAnswered, F!Loads, FilesTyped, F!Listings, Ops
  <2>2. OfThisPane'
    BY <1>9 DEF F!DialogAnswered, F!Loads, OfThisPane, Current, FilesTyped, F!Listings
  <2>3. OneAct'
    BY <1>9 DEF F!DialogAnswered, F!Loads, OneAct
  <2>4. MenuShown'
    BY <1>9 DEF F!DialogAnswered, F!Loads, MenuShown
  <2>5. F!AimKept'
    BY <1>9
    DEF F!DialogAnswered, F!Loads, F!AimKept, FilesTyped, OfThisPane, OneAct, MenuShown, Current,
        F!Listings
  <2>6. F!LoadingEnds'
    BY <1>9 DEF F!DialogAnswered, F!Loads, F!LoadingEnds, OneAct, FilesTyped, Ops
  <2> QED BY <2>1, <2>2, <2>3, <2>4, <2>5, <2>6
<1>10. CASE F!ActAnswered
  <2>1. FilesTyped'
    <3>1. PICK a \in acts : ~a.asked /\ (F!ActFailed(a) \/ F!ActDone(a))
      BY <1>10 DEF F!ActAnswered
    <3>2. UNCHANGED <<session, shown, menu, upload>>
      BY <1>10 DEF F!ActAnswered
    <3>3. a.c.sess \in PaneSessions /\ a.c.dir \in Dirs /\ a.dir \in Dirs /\ shown # NoListing
      BY DEF FilesTyped, F!Listings
    <3>4. acts' \subseteq {[a EXCEPT !.op = "edit"]}
      BY <3>1 DEF F!ActFailed, F!ActDone
    <3>5. acts' \subseteq [op : Ops, c : F!Listings, dir : Dirs, seen : F!Listings, asked : BOOLEAN]
      BY <3>4 DEF FilesTyped, Ops
    <3>6. editing' \in {editing, F!Listing(a.c.sess, a.dir)}
      BY <3>1 DEF F!ActFailed, F!ActDone
    <3>7. asks' \subseteq asks \cup {F!Listing(a.c.sess, a.dir), F!Listing(a.c.sess, a.c.dir)}
      BY <3>1 DEF F!ActFailed, F!ActDone
    <3> QED BY <3>2, <3>3, <3>5, <3>6, <3>7 DEF FilesTyped, F!Listings
  <2>2. OfThisPane'
    BY <1>10
    DEF F!ActAnswered, F!ActFailed, F!ActDone, F!Loads, OfThisPane, Current, FilesTyped,
        F!Listings
  <2>3. OneAct'
    BY <1>10 DEF F!ActAnswered, F!ActFailed, F!ActDone, F!Loads, OneAct
  <2>4. MenuShown'
    BY <1>10 DEF F!ActAnswered, F!ActFailed, F!ActDone, F!Loads, MenuShown
  <2>5. F!AimKept'
    BY <1>10
    DEF F!ActAnswered, F!ActFailed, F!ActDone, F!Loads, F!AimKept, FilesTyped, OfThisPane,
        OneAct, MenuShown, Current, F!Listings
  <2>6. F!LoadingEnds'
    BY <1>10
    DEF F!ActAnswered, F!ActFailed, F!ActDone, F!Loads, F!LoadingEnds, OneAct, FilesTyped, Ops
  <2> QED BY <2>1, <2>2, <2>3, <2>4, <2>5, <2>6
<1>11. CASE F!UploadStarts
  <2>1. FilesTyped'
    BY <1>11 DEF F!UploadStarts, F!Closure, F!Path, FilesTyped, F!Listings, Ops
  <2>2. OfThisPane'
    BY <1>11 DEF F!UploadStarts, F!Closure, F!Path, OfThisPane, Current, FilesTyped, F!Listings
  <2>3. OneAct'
    BY <1>11 DEF F!UploadStarts, F!Closure, F!Path, OneAct
  <2>4. MenuShown'
    BY <1>11 DEF F!UploadStarts, F!Closure, F!Path, MenuShown
  <2>5. F!AimKept'
    BY <1>11
    DEF F!UploadStarts, F!Closure, F!Path, F!AimKept, FilesTyped, OfThisPane, OneAct, MenuShown,
        Current, F!Listings
  <2>6. F!LoadingEnds'
    BY <1>11
    DEF F!UploadStarts, F!Closure, F!Path, F!LoadingEnds, OneAct, FilesTyped, Ops, F!Loads
  <2> QED BY <2>1, <2>2, <2>3, <2>4, <2>5, <2>6
<1>12. CASE F!UploadEnds
  <2>1. FilesTyped'
    BY <1>12 DEF F!UploadEnds, FilesTyped, F!Listings, Ops
  <2>2. OfThisPane'
    BY <1>12 DEF F!UploadEnds, OfThisPane, Current, FilesTyped, F!Listings
  <2>3. OneAct'
    BY <1>12 DEF F!UploadEnds, OneAct
  <2>4. MenuShown'
    BY <1>12 DEF F!UploadEnds, MenuShown
  <2>5. F!AimKept'
    BY <1>12
    DEF F!UploadEnds, F!AimKept, FilesTyped, OfThisPane, OneAct, MenuShown, Current, F!Listings
  <2>6. F!LoadingEnds'
    BY <1>12 DEF F!UploadEnds, F!LoadingEnds, OneAct, FilesTyped, Ops, F!Loads
  <2> QED BY <2>1, <2>2, <2>3, <2>4, <2>5, <2>6
<1> QED
  BY <1>1, <1>2, <1>3, <1>4, <1>5, <1>6, <1>7, <1>8, <1>9, <1>10, <1>11, <1>12 DEF F!Next

LEMMA FilesRun == Spec => []FilesSafe
<1>1. Init => FilesSafe
  BY FilesStart DEF Init
<1>2. FilesSafe /\ [Next]_vars => FilesSafe'
  <2> SUFFICES ASSUME FilesSafe, [Next]_vars PROVE FilesSafe'
    OBVIOUS
  <2>1. F!Next \/ UNCHANGED files
    BY DEF Next, vars
  <2>2. CASE F!Next
    BY <2>2, FilesStep
  <2>3. CASE UNCHANGED files
    <3> USE <2>3 DEF files
    <3>1. FilesTyped' /\ OfThisPane'
      BY DEF FilesSafe, FilesTyped, OfThisPane, Current
    <3>2. OneAct' /\ MenuShown' /\ F!AimKept' /\ F!LoadingEnds'
      BY DEF FilesSafe, OneAct, MenuShown, F!AimKept, F!LoadingEnds, F!Loads
    <3> QED BY <3>1, <3>2 DEF FilesSafe
  <2> QED BY <2>1, <2>2, <2>3
<1> QED BY <1>1, <1>2, PTL DEF Spec

\* What the user does in the file browser reaches what he saw, and he is not kept waiting
\* (FileBrowser.tsx, the closures of the handlers and the finally of each).
THEOREM BrowserIsSafe == Spec => []BrowserSafe
<1>1. FilesSafe => BrowserSafe
  BY DEF FilesSafe, BrowserSafe, F!BrowserSafe
<1> QED BY <1>1, FilesRun, PTL

-----------------------------------------------------------------------------
(* The buttons: a window that asks for one thing at a time.                *)

CallsOf(w) == {c \in calls : c.w = w}

\* One request at most; with none the list shown is the server's, and a reordering shows
\* what the server will make of it.
Alone(w) ==
    /\ \A c, d \in CallsOf(w) : c = d
    /\ CallsOf(w) = {} => view[w] = server
    /\ \A c \in CallsOf(w) : c.op = "reorder" => view[w] = B!Forced(server, c.list)

\* A window that is not skewed asks for one thing at a time.
ButtonsSafe ==
    /\ view = [w \in Windows |-> view[w]]
    /\ skewed = [w \in Windows |-> skewed[w]]
    /\ \A c \in calls : c.w \in Windows
    /\ \A w \in Windows : skewed[w] \/ Alone(w)

LEMMA ButtonsStart == B!Init => ButtonsSafe
BY DEF B!Init, ButtonsSafe, Alone, CallsOf

\* A window asks for something.
LEMMA CallingSafe ==
    ASSUME ButtonsSafe, NEW w \in Windows, NEW c, c.w = w, B!Calling(w, c),
           view' = [view EXCEPT ![w] = view'[w]],
           IF c.op = "reorder" THEN view'[w] = B!Forced(view[w], c.list) ELSE view'[w] = view[w]
    PROVE  ButtonsSafe'
<1>1. /\ calls' = calls \cup {c} /\ server' = server
      /\ skewed' = [skewed EXCEPT ![w] = @ \/ \E d \in calls : d.w = w]
  BY DEF B!Calling
<1>2. \A v \in Windows : v # w => view'[v] = view[v] /\ skewed'[v] = skewed[v]
  BY <1>1 DEF ButtonsSafe
<1>3. ASSUME NEW v \in Windows, ~skewed'[v] PROVE Alone(v)'
  <2>1. CASE v # w
    <3>1. CallsOf(v)' = CallsOf(v)
      BY <1>1, <2>1 DEF CallsOf
    <3>2. Alone(v)
      BY <1>2, <1>3, <2>1 DEF ButtonsSafe
    <3> QED BY <1>1, <1>2, <2>1, <3>1, <3>2 DEF Alone, B!Forced
  <2>2. CASE v = w
    <3>1. ~skewed[w] /\ CallsOf(w) = {}
      BY <1>1, <1>3, <2>2 DEF ButtonsSafe, CallsOf
    <3>2. view[w] = server
      BY <3>1 DEF ButtonsSafe, Alone
    <3>3. CallsOf(w)' = {c}
      BY <1>1, <3>1 DEF CallsOf
    <3> QED BY <1>1, <2>2, <3>2, <3>3 DEF Alone, B!Forced
  <2> QED BY <2>1, <2>2
<1> QED BY <1>1, <1>3 DEF ButtonsSafe

LEMMA ButtonsStep == ASSUME ButtonsSafe, B!Next PROVE ButtonsSafe'
<1>1. ASSUME NEW w \in Windows, B!SaveButton(w) \/ B!DeleteButton(w)
                                 \/ B!MoveButton(w) \/ B!ReorderButtons(w)
      PROVE  ButtonsSafe'
  <2>1. CASE B!SaveButton(w) \/ B!DeleteButton(w) \/ B!MoveButton(w)
    <3>1. PICK c : c.w = w /\ c.op # "reorder" /\ B!Calling(w, c) /\ UNCHANGED view
      BY <2>1, Zenon DEF B!SaveButton, B!DeleteButton, B!MoveButton
    <3> QED BY <3>1, CallingSafe DEF ButtonsSafe
  <2>2. CASE B!ReorderButtons(w)
    <3>1. PICK list : /\ B!Calling(w, [w |-> w, op |-> "reorder", list |-> list])
                      /\ view' = [view EXCEPT ![w] = B!Forced(@, list)]
      BY <2>2 DEF B!ReorderButtons
    <3>2. view'[w] = B!Forced(view[w], list) /\ view' = [view EXCEPT ![w] = view'[w]]
      BY <3>1 DEF ButtonsSafe
    <3> QED BY <3>1, <3>2, CallingSafe
  <2> QED BY <1>1, <2>1, <2>2
<1>2. ASSUME NEW w \in Windows, B!RefreshData(w) PROVE ButtonsSafe'
  <2>1. /\ calls' = calls /\ server' = server /\ view'[w] = server
        /\ \A v \in Windows : v # w => view'[v] = view[v] /\ skewed'[v] = skewed[v]
    BY <1>2 DEF B!RefreshData, ButtonsSafe
  <2>2. /\ CallsOf(w)' = CallsOf(w) /\ \A c \in CallsOf(w) : c.op = "save"
        /\ ~skewed'[w] => (~skewed[w] \/ CallsOf(w) = {})
    BY <1>2 DEF B!RefreshData, CallsOf, ButtonsSafe
  <2>3. skewed'[w] \/ Alone(w)'
    BY <2>1, <2>2 DEF Alone, ButtonsSafe
  <2>4. ASSUME NEW v \in Windows, v # w PROVE skewed'[v] \/ Alone(v)'
    <3>1. CallsOf(v)' = CallsOf(v)
      BY <2>1 DEF CallsOf
    <3> QED BY <2>1, <2>4, <3>1 DEF ButtonsSafe, Alone, B!Forced
  <2> QED BY <1>2, <2>3, <2>4 DEF B!RefreshData, ButtonsSafe
<1>3. ASSUME NEW c \in calls, B!Handled(c) PROVE ButtonsSafe'
  <2>1. \A v \in Windows : ~skewed'[v] => v = c.w /\ ~skewed[v]
    BY <1>3 DEF B!Handled, B!Others
  <2>2. ASSUME ~skewed[c.w] PROVE Alone(c.w)'
    <3>1. CallsOf(c.w) = {c} /\ view' = view
      BY <1>3, <2>2 DEF B!Handled, ButtonsSafe, Alone, CallsOf
    <3>2. CASE c.op = "reorder"
      <4>1. CallsOf(c.w)' = {} /\ server' = B!Forced(server, c.list)
        BY <1>3, <3>1, <3>2 DEF B!Handled, B!Done, CallsOf
      <4>2. view[c.w] = B!Forced(server, c.list)
        BY <2>2, <3>1, <3>2 DEF ButtonsSafe, Alone
      <4> QED BY <3>1, <4>1, <4>2 DEF Alone
    <3>3. CASE c.op # "reorder"
      <4>1. CallsOf(c.w)' = {[w |-> c.w, op |-> "get"]}
        BY <1>3, <3>1, <3>3 DEF B!Handled, CallsOf
      <4>2. [w |-> c.w, op |-> "get"].op # "reorder"
        OBVIOUS
      <4> QED BY <4>1, <4>2, Zenon DEF Alone
    <3> QED BY <3>2, <3>3
  <2>3. \A d \in calls' : d.w \in Windows
    BY <1>3 DEF B!Handled, ButtonsSafe
  <2> QED BY <1>3, <2>1, <2>2, <2>3 DEF B!Handled, B!Others, ButtonsSafe
<1>4. ASSUME NEW c \in calls, B!Failed(c) \/ B!Got(c) PROVE ButtonsSafe'
  <2>1. /\ calls' = calls \ {c} /\ server' = server
        /\ \A v \in Windows : v # c.w => view'[v] = view[v] /\ skewed'[v] = skewed[v]
    BY <1>4 DEF B!Failed, B!Got, ButtonsSafe
  <2>2. \A v \in Windows : v # c.w => (skewed'[v] \/ Alone(v)')
    BY <2>1 DEF ButtonsSafe, Alone, CallsOf, B!Forced
  <2>3. skewed'[c.w] \/ Alone(c.w)'
    BY <1>4, <2>1 DEF B!Failed, B!Got, ButtonsSafe, Alone, CallsOf
  <2> QED BY <1>4, <2>1, <2>2, <2>3 DEF B!Failed, B!Got, ButtonsSafe
<1> QED BY <1>1, <1>2, <1>3, <1>4 DEF B!Next

LEMMA ButtonsRun == Spec => []ButtonsSafe
<1>1. Init => ButtonsSafe
  BY ButtonsStart DEF Init
<1>2. ButtonsSafe /\ [Next]_vars => ButtonsSafe'
  <2> SUFFICES ASSUME ButtonsSafe, [Next]_vars PROVE ButtonsSafe'
    OBVIOUS
  <2>1. B!Next \/ UNCHANGED buttons
    BY DEF Next, vars
  <2>2. CASE B!Next
    BY <2>2, ButtonsStep
  <2>3. CASE UNCHANGED buttons
    BY <2>3 DEF buttons, ButtonsSafe, Alone, CallsOf, B!Forced
  <2> QED BY <2>1, <2>2, <2>3
<1> QED BY <1>1, <1>2, PTL DEF Spec

-----------------------------------------------------------------------------
(* The hosts: what a window shows is what the file holds, whatever its lines.*)

IsCall(c) ==
    c = [w |-> c.w, op |-> c.op, groups |-> c.groups, hosts |-> c.hosts, want |-> c.want,
         told |-> c.told]

\* What w shows is the file, or it will be told of the hosts.
ShowsFile(w) ==
    /\ \A c, d \in hostCalls : c.w = w /\ d.w = w => c = d
    /\ (\A c \in hostCalls : c.w = w => c.op = "groups") => H!Hosts(w) = H!HostsOf(lines)

\* Each window shows the file, or will be told, unless handlers of it overlapped.
WindowsSafe ==
    /\ sidebar = [w \in Windows |-> sidebar[w]]
    /\ \A w \in Windows : sidebar[w] = [hosts |-> sidebar[w].hosts, groups |-> sidebar[w].groups]
    /\ hostsSkewed = [w \in Windows |-> hostsSkewed[w]]
    /\ \A c \in hostCalls : IsCall(c) /\ c.w \in Windows
    /\ \A w \in Windows : hostsSkewed[w] \/ struck \/ ShowsFile(w)

LEMMA WithOp ==
    ASSUME NEW c, IsCall(c), NEW s
    PROVE  [c EXCEPT !.op = s] = [w |-> c.w, op |-> s, groups |-> c.groups, hosts |-> c.hosts,
                                  want |-> c.want, told |-> c.told]
<1> PICK d : d = c
  OBVIOUS
<1>1. [[w |-> d.w, op |-> d.op, groups |-> d.groups, hosts |-> d.hosts, want |-> d.want,
        told |-> d.told] EXCEPT !.op = s]
        = [w |-> d.w, op |-> s, groups |-> d.groups, hosts |-> d.hosts, want |-> d.want,
           told |-> d.told]
  OBVIOUS
<1> QED BY <1>1, Zenon DEF IsCall

LEMMA WithTold ==
    ASSUME NEW c, IsCall(c), NEW s
    PROVE  [c EXCEPT !.told = s] = [w |-> c.w, op |-> c.op, groups |-> c.groups,
                                    hosts |-> c.hosts, want |-> c.want, told |-> s]
<1> PICK d : d = c
  OBVIOUS
<1>1. [[w |-> d.w, op |-> d.op, groups |-> d.groups, hosts |-> d.hosts, want |-> d.want,
        told |-> d.told] EXCEPT !.told = s]
        = [w |-> d.w, op |-> d.op, groups |-> d.groups, hosts |-> d.hosts, want |-> d.want,
           told |-> s]
  OBVIOUS
<1> QED BY <1>1, Zenon DEF IsCall

LEMMA WithGroups ==
    ASSUME NEW s, s = [hosts |-> s.hosts, groups |-> s.groups], NEW g
    PROVE  /\ [s EXCEPT !.groups = g] = [hosts |-> s.hosts, groups |-> g]
           /\ [s EXCEPT !.hosts = g] = [hosts |-> g, groups |-> s.groups]
<1> PICK t : t = s
  OBVIOUS
<1>1. [[hosts |-> t.hosts, groups |-> t.groups] EXCEPT !.groups = g]
        = [hosts |-> t.hosts, groups |-> g]
  OBVIOUS
<1>2. [[hosts |-> t.hosts, groups |-> t.groups] EXCEPT !.hosts = g]
        = [hosts |-> g, groups |-> t.groups]
  OBVIOUS
<1> QED BY <1>1, <1>2, Zenon

LEMMA WindowsStart == H!Init => WindowsSafe
<1> SUFFICES ASSUME H!Init PROVE WindowsSafe
  OBVIOUS
<1>1. /\ sidebar = [w \in Windows |-> [hosts |-> H!HostsOf(lines), groups |-> H!GroupsOf(lines)]]
      /\ hostCalls = {} /\ hostsSkewed = [w \in Windows |-> FALSE]
  BY DEF H!Init
<1> QED BY <1>1 DEF WindowsSafe, ShowsFile, H!Hosts

LEMMA HandlerSafe ==
    ASSUME WindowsSafe, NEW w \in Windows, NEW op, NEW gs, NEW hs, NEW want,
           H!Calling(w, op, gs, hs, want)
    PROVE  WindowsSafe'
<1> PICK c : c = [w |-> w, op |-> op, groups |-> gs, hosts |-> hs, want |-> want, told |-> FALSE]
  OBVIOUS
<1>1. /\ hostCalls' = hostCalls \cup {c} /\ IsCall(c) /\ c.w = w
      /\ hostsSkewed' = [hostsSkewed EXCEPT ![w] = @ \/ \E d \in hostCalls : d.w = w]
      /\ UNCHANGED <<lines, sidebar, struck>>
  BY DEF H!Calling, IsCall
<1>2. ASSUME NEW v \in Windows, ~hostsSkewed'[v], ~struck PROVE ShowsFile(v)'
  <2>1. ~hostsSkewed[v] /\ ShowsFile(v) /\ (v = w => \A d \in hostCalls : d.w # w)
    BY <1>1, <1>2 DEF WindowsSafe
  <2> QED BY <1>1, <2>1 DEF ShowsFile, H!Hosts
<1> QED BY <1>1, <1>2 DEF WindowsSafe

LEMMA HandlersSafe ==
    ASSUME WindowsSafe, NEW w \in Windows,
           \/ H!AddHost(w)
           \/ H!EditHost(w)
           \/ H!DeleteHost(w)
           \/ H!ToggleFavourite(w)
           \/ H!MoveServer(w)
           \/ H!ReorderFavourites(w)
           \/ H!AddGroup(w)
           \/ H!MoveGroup(w)
           \/ H!DeleteGroup(w)
           \/ H!RenameGroup(w)
    PROVE  WindowsSafe'
<1>1. \E op, gs, hs, want : H!Calling(w, op, gs, hs, want)
  <2>1. CASE H!AddHost(w)
    BY <2>1, Zenon DEF H!AddHost
  <2>2. CASE H!EditHost(w)
    BY <2>2, Zenon DEF H!EditHost
  <2>3. CASE H!DeleteHost(w)
    BY <2>3, Zenon DEF H!DeleteHost
  <2>4. CASE H!ToggleFavourite(w) \/ H!MoveServer(w) \/ H!ReorderFavourites(w)
    BY <2>4, Zenon DEF H!ToggleFavourite, H!MoveServer, H!ReorderFavourites, H!PutHosts
  <2>5. CASE H!AddGroup(w) \/ H!MoveGroup(w)
    BY <2>5, Zenon DEF H!AddGroup, H!MoveGroup, H!PostGroups
  <2>6. CASE H!DeleteGroup(w) \/ H!RenameGroup(w)
    BY <2>6, Zenon DEF H!DeleteGroup, H!RenameGroup, H!Moving
  <2> QED BY <2>1, <2>2, <2>3, <2>4, <2>5, <2>6
<1> QED BY <1>1, HandlerSafe

LEMMA WindowsStep == ASSUME WindowsSafe, H!Next PROVE WindowsSafe'
<1>1. ASSUME NEW w \in Windows, H!RefreshData(w) PROVE WindowsSafe'
  <2>1. /\ \A c \in hostCalls : c.w # w
        /\ sidebar' = [sidebar EXCEPT ![w] = [hosts |-> H!HostsOf(lines), groups |-> H!GroupsOf(lines)]]
        /\ hostsSkewed' = [hostsSkewed EXCEPT ![w] = FALSE]
        /\ UNCHANGED <<lines, hostCalls, struck>>
    BY <1>1 DEF H!RefreshData
  <2>2. /\ sidebar'[w].hosts = H!HostsOf(lines)
        /\ \A v \in Windows : v # w => sidebar'[v] = sidebar[v] /\ hostsSkewed'[v] = hostsSkewed[v]
    BY <2>1 DEF WindowsSafe
  <2>3. \A v \in Windows : hostsSkewed'[v] \/ struck' \/ ShowsFile(v)'
    BY <2>1, <2>2 DEF WindowsSafe, ShowsFile, H!Hosts
  <2> QED BY <2>1, <2>3 DEF WindowsSafe
\* An answer that skews all windows but that of its call.
<1>2. ASSUME NEW c \in hostCalls, NEW more,
             \A d \in more : IsCall(d) /\ d.w = c.w, hostCalls' = (hostCalls \ {c}) \cup more,
             hostsSkewed' = [v \in Windows |-> hostsSkewed'[v]],
             \A v \in Windows : v = c.w \/ hostsSkewed'[v],
             ~hostsSkewed'[c.w] => ~hostsSkewed[c.w], struck => struck',
             sidebar' = [v \in Windows |-> sidebar'[v]],
             \A w \in Windows : sidebar'[w] = [hosts |-> sidebar'[w].hosts, groups |-> sidebar'[w].groups],
             ~hostsSkewed'[c.w] /\ ~struck' /\ ShowsFile(c.w) =>
                 \/ \E d \in more : more = {d} /\ d.op # "groups"
                 \/ more = {} /\ sidebar'[c.w].hosts = H!HostsOf(lines')
      PROVE  WindowsSafe'
  <2>1. ASSUME ~hostsSkewed'[c.w], ~struck' PROVE ShowsFile(c.w)'
    <3>1. ShowsFile(c.w)
      BY <1>2, <2>1 DEF WindowsSafe
    <3>2. \A d \in hostCalls' : d.w = c.w => d \in more
      BY <1>2, <3>1 DEF ShowsFile
    <3> QED BY <1>2, <2>1, <3>1, <3>2 DEF ShowsFile, H!Hosts
  <2> QED BY <1>2, <2>1 DEF WindowsSafe
<1>3. ASSUME NEW c \in hostCalls, H!GroupsSaved(c) PROVE WindowsSafe'
  <2>1. IsCall(c) /\ c.w \in Windows
    BY DEF WindowsSafe
  <2>2. PICK more : /\ hostCalls' = (hostCalls \ {c}) \cup more
                    /\ more = IF c.op = "groups" THEN {} ELSE {[c EXCEPT !.told = TRUE]}
    BY <1>3 DEF H!GroupsSaved
  <2>3. \A d \in more : IsCall(d) /\ d.w = c.w /\ d.op = c.op
    BY <2>1, <2>2, WithTold DEF IsCall
  <2>4. /\ sidebar' = [v \in Windows |-> sidebar'[v]]
        /\ \A v \in Windows : sidebar'[v] = [hosts |-> sidebar[v].hosts, groups |-> sidebar'[v].groups]
    <3>1. /\ sidebar' = [v \in Windows |-> sidebar'[v]]
          /\ \A v \in Windows : v # c.w => sidebar'[v] = sidebar[v]
          /\ sidebar'[c.w] = [sidebar[c.w] EXCEPT !.groups = c.groups]
      BY <1>3, <2>1 DEF H!GroupsSaved, WindowsSafe
    <3>2. sidebar'[c.w] = [hosts |-> sidebar[c.w].hosts, groups |-> c.groups]
      BY <2>1, <3>1, WithGroups DEF WindowsSafe
    <3>3. sidebar'[c.w] = [hosts |-> sidebar[c.w].hosts, groups |-> sidebar'[c.w].groups]
      BY <3>2
    <3> QED BY <3>1, <3>3 DEF WindowsSafe
  <2>5. \A v \in Windows : /\ sidebar'[v] = [hosts |-> sidebar'[v].hosts, groups |-> sidebar'[v].groups]
                           /\ sidebar'[v].hosts = sidebar[v].hosts
    BY <2>4
  <2>6. /\ hostsSkewed' = [v \in Windows |-> hostsSkewed'[v]]
        /\ \A v \in Windows : v = c.w \/ hostsSkewed'[v]
        /\ ~hostsSkewed'[c.w] => ~hostsSkewed[c.w]
        /\ struck' <=> struck \/ H!HostsOf(lines') # H!HostsOf(lines)
    BY <1>3, <2>1 DEF H!GroupsSaved, H!Skew
  <2>7. ASSUME ~struck', ShowsFile(c.w)
        PROVE  \/ \E d \in more : more = {d} /\ d.op # "groups"
               \/ more = {} /\ sidebar'[c.w].hosts = H!HostsOf(lines')
    <3>1. CASE c.op = "groups"
      <4>1. \A d \in hostCalls : d.w = c.w => d.op = "groups"
        BY <2>7, <3>1 DEF ShowsFile
      <4> QED BY <2>1, <2>2, <2>5, <2>6, <2>7, <3>1, <4>1 DEF ShowsFile, H!Hosts
    <3>2. CASE c.op # "groups"
      BY <2>2, <2>3, <3>2
    <3> QED BY <3>1, <3>2
  <2> QED BY <1>2, <2>2, <2>3, <2>4, <2>5, <2>6, <2>7
<1>4. ASSUME NEW c \in hostCalls, H!HostsSaved(c) PROVE WindowsSafe'
  <2>1. IsCall(c) /\ c.w \in Windows
    BY DEF WindowsSafe
  <2>2. PICK d : d = [c EXCEPT !.op = "get"]
    OBVIOUS
  <2>3. IsCall(d) /\ d.w = c.w /\ d.op = "get"
    BY <2>1, <2>2, WithOp DEF IsCall
  <2>4. /\ hostCalls' = (hostCalls \ {c}) \cup {d} /\ UNCHANGED <<sidebar, struck>>
        /\ hostsSkewed' = [v \in Windows |-> hostsSkewed'[v]]
        /\ \A v \in Windows : v = c.w \/ hostsSkewed'[v]
        /\ ~hostsSkewed'[c.w] => ~hostsSkewed[c.w]
    BY <1>4, <2>1, <2>2 DEF H!HostsSaved, H!Skew
  <2>5. /\ \A x \in {d} : IsCall(x) /\ x.w = c.w
        /\ \E x \in {d} : {d} = {x} /\ x.op # "groups"
    BY <2>3
  <2>6. /\ sidebar' = [v \in Windows |-> sidebar'[v]]
        /\ \A v \in Windows : sidebar'[v] = [hosts |-> sidebar'[v].hosts, groups |-> sidebar'[v].groups]
    BY <2>4 DEF WindowsSafe
  <2> QED BY <1>2, <2>4, <2>5, <2>6
<1>5. ASSUME NEW c \in hostCalls, H!FetchHosts(c) PROVE WindowsSafe'
  <2>1. IsCall(c) /\ c.w \in Windows
    BY DEF WindowsSafe
  <2>2. /\ hostCalls' = hostCalls \ {c} /\ UNCHANGED <<lines, hostsSkewed, struck>>
        /\ sidebar' = [v \in Windows |-> sidebar'[v]]
        /\ \A v \in Windows : v # c.w => sidebar'[v] = sidebar[v]
        /\ sidebar'[c.w] = [sidebar[c.w] EXCEPT !.hosts = H!HostsOf(lines)]
    BY <1>5, <2>1 DEF H!FetchHosts, WindowsSafe
  <2>3. sidebar'[c.w] = [hosts |-> H!HostsOf(lines), groups |-> sidebar[c.w].groups]
    BY <2>1, <2>2, WithGroups DEF WindowsSafe
  <2>4. /\ sidebar'[c.w].hosts = H!HostsOf(lines)
        /\ \A v \in Windows : sidebar'[v] = [hosts |-> sidebar'[v].hosts, groups |-> sidebar'[v].groups]
    BY <2>2, <2>3 DEF WindowsSafe
  <2>5. ASSUME NEW v \in Windows, ~hostsSkewed[v], ~struck PROVE ShowsFile(v)'
    <3>1. ShowsFile(v)
      BY <2>5 DEF WindowsSafe
    <3>2. CASE v = c.w
      BY <2>2, <2>4, <3>1, <3>2 DEF ShowsFile, H!Hosts
    <3>3. CASE v # c.w
      BY <2>2, <3>1, <3>3 DEF ShowsFile, H!Hosts
    <3> QED BY <3>2, <3>3
  <2> QED BY <2>2, <2>4, <2>5 DEF WindowsSafe
<1>6. ASSUME NEW c \in hostCalls, H!GroupsRefused(c) \/ H!HostsRefused(c) PROVE WindowsSafe'
  <2>1. IsCall(c) /\ c.w \in Windows
    BY DEF WindowsSafe
  <2>2. \A d \in {[c EXCEPT !.op = "get"], [c EXCEPT !.told = TRUE]} : IsCall(d) /\ d.w = c.w
    <3>1. ASSUME NEW d, d = [c EXCEPT !.op = "get"] PROVE IsCall(d) /\ d.w = c.w
      BY <2>1, <3>1, WithOp DEF IsCall
    <3>2. ASSUME NEW d, d = [c EXCEPT !.told = TRUE] PROVE IsCall(d) /\ d.w = c.w
      BY <2>1, <3>2, WithTold DEF IsCall
    <3> QED BY <3>1, <3>2
  <2>3. /\ UNCHANGED <<lines, sidebar, struck>> /\ hostsSkewed' = [hostsSkewed EXCEPT ![c.w] = TRUE]
        /\ \A d \in hostCalls' : \/ d \in hostCalls
                                   \/ d \in {[c EXCEPT !.op = "get"], [c EXCEPT !.told = TRUE]}
        /\ \A d \in hostCalls : d = c \/ d \in hostCalls'
    BY <1>6 DEF H!GroupsRefused, H!HostsRefused
  <2>4. \A d \in hostCalls' : IsCall(d) /\ d.w \in Windows /\ (d.w # c.w => d \in hostCalls)
    BY <2>1, <2>2, <2>3 DEF WindowsSafe
  <2>5. ASSUME NEW v \in Windows, ~hostsSkewed'[v], ~struck PROVE ShowsFile(v)'
    <3>1. v # c.w /\ ShowsFile(v)
      BY <2>1, <2>3, <2>5 DEF WindowsSafe
    <3>2. \A d : d.w = v => (d \in hostCalls' <=> d \in hostCalls)
      BY <2>3, <2>4, <3>1
    <3> QED BY <2>3, <3>1, <3>2 DEF ShowsFile, H!Hosts
  <2> QED BY <2>3, <2>4, <2>5 DEF WindowsSafe
<1> QED BY <1>1, <1>3, <1>4, <1>5, <1>6, HandlersSafe DEF H!Next

LEMMA WindowsShow == WindowsSafe => H!HostsShown
BY DEF WindowsSafe, ShowsFile, H!HostsShown

LEMMA WindowsRun == Spec => []WindowsSafe
<1>1. Init => WindowsSafe
  BY WindowsStart DEF Init
<1>2. WindowsSafe /\ [Next]_vars => WindowsSafe'
  <2> SUFFICES ASSUME WindowsSafe, [Next]_vars PROVE WindowsSafe'
    OBVIOUS
  <2>1. H!Next \/ UNCHANGED hosts
    BY DEF Next, vars
  <2>2. CASE H!Next
    BY <2>2, WindowsStep
  <2>3. CASE UNCHANGED hosts
    BY <2>3 DEF hosts, WindowsSafe, ShowsFile, H!Hosts
  <2> QED BY <2>1, <2>2, <2>3
<1> QED BY <1>1, <1>2, PTL DEF Spec

\* A window that nothing is under way for shows the buttons and the hosts that the server
\* has (store.ts, the optimistic changes and what is fetched after them).
THEOREM ViewsSettle == Spec => []ViewSettles
<1>1. ButtonsSafe => B!ViewSettles
  BY DEF ButtonsSafe, Alone, CallsOf, B!ViewSettles
<1>2. WindowsSafe => H!HostsShown
  BY WindowsShow
<1> QED BY <1>1, <1>2, ButtonsRun, WindowsRun, PTL DEF ViewSettles

-----------------------------------------------------------------------------
(* The storage of the browser: each window hears what the others write.    *)

\* A storage event: the key that changed and its new value.
Message == [key : S!Keys, newValue : SUBSET Nat]

StorageTyped ==
    /\ storage \in [S!Keys -> SUBSET Nat]
    /\ store \in [Windows -> [S!Keys -> SUBSET Nat]]
    /\ serverVars \subseteq Nat /\ putting \in [Windows -> SUBSET Nat]
    /\ mode \in [Windows -> {"in", "closing", "caches", "login"}]
    /\ events \in [Windows -> Seq(Message)]
    /\ writes \in Nat
    /\ crossed \in [S!Keys -> BOOLEAN]

\* What w shows of k when it has heard all that is to come is what is stored.
WillShow(w, k) ==
    /\ ~S!Hears(w, k) => store[w][k] = storage[k]
    /\ \A n \in DOMAIN events[w] :
          /\ events[w][n].key = k
          /\ \A m \in DOMAIN events[w] : m > n => events[w][m].key # k
          => events[w][n].newValue = storage[k]

\* Every window will show what is stored, except where two writes crossed.
Shared == \A k \in S!Keys, w \in Windows : crossed[k] \/ WillShow(w, k)

\* Nothing is left after a logout; there is a token only while somebody is logged in.
Empty == \A k \in S!Keys \ {"localVars"} : storage[k] = {}
SomebodyIn == \E w \in Windows : mode[w] \in {"in", "closing"}
LeftClear ==
    /\ ~token => Empty \/ late
    /\ token => SomebodyIn \/ (Windows = {} /\ Empty)

StoragesSafe == StorageTyped /\ Shared /\ LeftClear

LEMMA SetToSeqHas ==
    ASSUME NEW X, IsFiniteSet(X)
    PROVE  S!SetToSeq(X) \in [1 .. S!Cardinality(X) -> X] /\ S!Cardinality(X) \in Nat
<1>1. S!Cardinality(X) = Cardinality(X)
  BY DEF S!Cardinality, Cardinality
<1>2. Cardinality(X) \in Nat /\ \E f \in [1 .. Cardinality(X) -> X] : S!IsInjective(f)
  BY FS_CardinalityType DEF ExistsBijection, Bijection, Injection, IsInjective, S!IsInjective
<1> QED BY <1>1, <1>2 DEF S!SetToSeq

LEMMA StorageStart == S!Init => StoragesSafe
<1> SUFFICES ASSUME S!Init PROVE StoragesSafe
  OBVIOUS
<1>1. StorageTyped
  BY DEF S!Init, StorageTyped
<1>2. Shared
  BY DEF S!Init, Shared, WillShow, S!Hears
<1>3. LeftClear
  BY DEF S!Init, LeftClear, Empty, SomebodyIn
<1> QED BY <1>1, <1>2, <1>3 DEF StoragesSafe

LEMMA PutSafe ==
    ASSUME StoragesSafe, NEW w \in Windows,
           NEW k \in S!Keys, NEW v \in SUBSET Nat, S!Put(w, k, v)
    PROVE  /\ storage' \in [S!Keys -> SUBSET Nat]
           /\ store' \in [Windows -> [S!Keys -> SUBSET Nat]]
           /\ events' \in [Windows -> Seq(Message)]
           /\ crossed' \in [S!Keys -> BOOLEAN]
           /\ Shared'
           /\ UNCHANGED <<token, mode>> => LeftClear'
<1> USE DEF StoragesSafe
<1> DEFINE e == S!Event(k, v)
<1>1. /\ storage' = [storage EXCEPT ![k] = v] /\ store' = [store EXCEPT ![w][k] = v]
      /\ e \in Message /\ e.key = k /\ e.newValue = v
      /\ \A x \in Windows : events'[x] = IF x = w \/ v = storage[k] THEN events[x]
                                         ELSE Append(events[x], e)
  BY DEF S!Put, S!Event, Message
<1>2. /\ storage' \in [S!Keys -> SUBSET Nat] /\ store' \in [Windows -> [S!Keys -> SUBSET Nat]]
      /\ crossed' \in [S!Keys -> BOOLEAN]
  BY <1>1 DEF S!Put, StorageTyped
<1>3. events' \in [Windows -> Seq(Message)]
  BY <1>1 DEF S!Put, StorageTyped
<1>4. ASSUME NEW j \in S!Keys, NEW x \in Windows, ~crossed'[j] PROVE WillShow(x, j)'
  <2> HIDE DEF e
  <2>1. events[x] \in Seq(Message) /\ DOMAIN events[x] = 1 .. Len(events[x]) /\ Len(events[x]) \in Nat
    BY DEF StorageTyped
  <2>2. CASE j # k
    <3>1. ~crossed[j] /\ storage'[j] = storage[j] /\ store'[x][j] = store[x][j]
      BY <1>1, <1>4, <2>2 DEF S!Put, StorageTyped
    <3>2. WillShow(x, j)
      BY <3>1 DEF Shared
    <3>3. CASE events'[x] = events[x]
      BY <3>1, <3>2, <3>3 DEF WillShow, S!Hears
    <3>4. CASE events'[x] = Append(events[x], e)
      <4>1. /\ DOMAIN events'[x] = 1 .. Len(events[x]) + 1
            /\ \A n \in DOMAIN events[x] : events'[x][n] = events[x][n]
            /\ events'[x][Len(events[x]) + 1].key # j
        BY <1>1, <2>1, <2>2, <3>4
      <4>2. ~S!Hears(x, j)' => store'[x][j] = storage'[j]
        BY <2>1, <3>1, <3>2, <4>1 DEF WillShow, S!Hears
      <4>3. ASSUME NEW n \in DOMAIN events'[x], events'[x][n].key = j,
                   \A m \in DOMAIN events'[x] : m > n => events'[x][m].key # j
            PROVE  events'[x][n].newValue = storage'[j]
        BY <2>1, <3>1, <3>2, <4>1, <4>3 DEF WillShow
      <4> QED BY <4>2, <4>3 DEF WillShow
    <3> QED BY <1>1, <3>3, <3>4
  <2>3. CASE j = k
    <3>1. ~S!Hears(w, k) /\ storage'[k] = v /\ store'[w][k] = v
      BY <1>1, <1>4, <2>3 DEF S!Put, StorageTyped
    <3>2. CASE x = w
      BY <1>1, <2>3, <3>1, <3>2 DEF WillShow, S!Hears
    <3>3. CASE x # w /\ v = storage[k]
      <4>1. ~crossed[k]
        BY <1>4, <2>3, <3>1, <3>3 DEF S!Put, StorageTyped
      <4>2. events'[x] = events[x] /\ store'[x] = store[x]
        BY <1>1, <3>3 DEF StorageTyped
      <4> QED BY <2>3, <3>1, <3>3, <4>1, <4>2 DEF Shared, WillShow, S!Hears
    <3>4. CASE x # w /\ v # storage[k]
      <4>1. /\ DOMAIN events'[x] = 1 .. Len(events[x]) + 1
            /\ \A n \in DOMAIN events[x] : events'[x][n] = events[x][n]
            /\ events'[x][Len(events[x]) + 1] = e
        <5>1. events'[x] = Append(events[x], e)
          BY <1>1, <3>4
        <5> QED BY <2>1, <5>1
      <4>2. S!Hears(x, k)'
        BY <1>1, <2>1, <4>1 DEF S!Hears
      <4>3. ASSUME NEW n \in DOMAIN events'[x], events'[x][n].key = k,
                   \A m \in DOMAIN events'[x] : m > n => events'[x][m].key # k
            PROVE  events'[x][n].newValue = v
        BY <1>1, <2>1, <4>1, <4>3
      <4> QED BY <2>3, <3>1, <4>2, <4>3 DEF WillShow
    <3> QED BY <3>2, <3>3, <3>4
  <2> QED BY <2>2, <2>3
<1>5. Shared'
  BY <1>2, <1>4 DEF Shared
<1>6. ASSUME UNCHANGED <<token, mode>> PROVE LeftClear'
  <2>1. late' <=> late \/ ~token
    BY DEF S!Put
  <2> QED BY <1>6, <2>1 DEF LeftClear, SomebodyIn
<1> QED BY <1>2, <1>3, <1>5, <1>6

\* A window goes on to listen to what is to come, or begins anew.
LEMMA LoadedShares ==
    ASSUME StoragesSafe, NEW w \in Windows, S!Loaded(w), UNCHANGED <<storage, crossed>>
    PROVE  /\ store' \in [Windows -> [S!Keys -> SUBSET Nat]]
           /\ events' \in [Windows -> Seq(Message)]
           /\ putting' \in [Windows -> SUBSET Nat]
           /\ mode' \in [Windows -> {"in", "closing", "caches", "login"}]
           /\ Shared'
<1> USE DEF StoragesSafe, StorageTyped
<1>1. ASSUME NEW j \in S!Keys, NEW x \in Windows, ~crossed[j] PROVE WillShow(x, j)'
  <2>1. CASE x = w
    BY <2>1 DEF S!Loaded, WillShow, S!Hears
  <2>2. CASE x # w
    BY <1>1, <2>2 DEF S!Loaded, Shared, WillShow, S!Hears
  <2> QED BY <2>1, <2>2
<1>2. /\ store' \in [Windows -> [S!Keys -> SUBSET Nat]]
      /\ events' \in [Windows -> Seq(Message)]
      /\ putting' \in [Windows -> SUBSET Nat]
      /\ mode' \in [Windows -> {"in", "closing", "caches", "login"}]
  BY DEF S!Loaded
<1> QED BY <1>1, <1>2 DEF Shared

LEMMA StorageStep == ASSUME StoragesSafe, NEW w \in Windows,
                            \/ \E k \in S!Keys : S!Write(w, k)
                            \/ S!SetVars(w)
                            \/ S!SetVarsAnswered(w)
                            \/ S!RefreshData(w)
                            \/ S!StorageEvent(w)
                            \/ S!Logout(w)
                            \/ \E preserve \in BOOLEAN : S!SafeLogout(w, preserve)
                            \/ S!Leaves(w)
                            \/ S!LogoutMessage(w)
                            \/ S!Login(w)
                     PROVE  StoragesSafe'
<1> USE DEF StoragesSafe
<1>1. ASSUME NEW k \in S!Keys, S!Write(w, k) PROVE StoragesSafe'
  <2>1. PICK v \in S!Changed(store[w][k]) : S!Put(w, k, v)
    BY <1>1 DEF S!Write
  <2>2. v \in SUBSET Nat
    BY DEF S!Changed, StorageTyped
  <2>3. /\ UNCHANGED <<token, mode, serverVars, putting>>
        /\ writes' \in Nat
    BY <1>1 DEF S!Write, StorageTyped
  <2> QED BY <2>1, <2>2, <2>3, PutSafe DEF StorageTyped
<1>2. CASE S!SetVars(w)
  <2>1. StorageTyped'
    BY <1>2 DEF S!SetVars, StorageTyped
  <2> QED BY <1>2, <2>1 DEF S!SetVars, Shared, WillShow, S!Hears, LeftClear, Empty, SomebodyIn
<1>3. CASE S!SetVarsAnswered(w)
  <2>1. /\ UNCHANGED <<token, mode, serverVars, writes>>
        /\ putting' \in [Windows -> SUBSET Nat]
    BY <1>3 DEF S!SetVarsAnswered, StorageTyped
  <2>2. CASE S!Put(w, "vars", store[w]["vars"] \cup putting[w])
    <3>1. "vars" \in S!Keys /\ store[w]["vars"] \cup putting[w] \in SUBSET Nat
      BY DEF S!Keys, StorageTyped
    <3> QED BY <2>1, <2>2, <3>1, PutSafe DEF StorageTyped
  <2>3. CASE UNCHANGED <<storage, store, events, crossed, late>>
    BY <2>1, <2>3 DEF StorageTyped, Shared, WillShow, S!Hears, LeftClear, Empty, SomebodyIn
  <2> QED BY <1>3, <2>2, <2>3 DEF S!SetVarsAnswered
<1>4. CASE S!RefreshData(w) \/ S!Login(w)
  <2>1. "vars" \in S!Keys
    BY DEF S!Keys
  <2>2. /\ store' = [store EXCEPT ![w]["vars"] = serverVars]
        /\ crossed' = [crossed EXCEPT !["vars"] = TRUE]
        /\ mode' \in [Windows -> {"in", "closing", "caches", "login"}]
        /\ UNCHANGED <<storage, serverVars, putting, events, writes>>
    BY <1>4 DEF S!RefreshData, S!Login, StorageTyped
  <2>5. StorageTyped'
    BY <2>1, <2>2 DEF StorageTyped
  <2>3. ASSUME NEW j \in S!Keys, NEW x \in Windows, ~crossed'[j] PROVE WillShow(x, j)'
    <3>1. j # "vars" /\ ~crossed[j]
      BY <2>1, <2>2, <2>3 DEF StorageTyped
    <3>2. store'[x][j] = store[x][j] /\ events' = events /\ storage' = storage
      BY <2>1, <2>2, <3>1 DEF StorageTyped
    <3> QED BY <3>1, <3>2 DEF Shared, WillShow, S!Hears
  <2>4. LeftClear'
    BY <1>4 DEF S!RefreshData, S!Login, StorageTyped, LeftClear, Empty, SomebodyIn
  <2> QED BY <2>3, <2>4, <2>5 DEF Shared
<1>5. CASE S!StorageEvent(w)
  <2> DEFINE s == events[w]
             e == Head(events[w])
  <2>1. /\ s \in Seq(Message) /\ s # <<>> /\ e \in Message /\ e = s[1]
        /\ Len(s) \in Nat \ {0} /\ DOMAIN s = 1 .. Len(s)
    BY <1>5 DEF S!StorageEvent, StorageTyped
  <2>2. /\ store' = [store EXCEPT ![w][e.key] = e.newValue]
        /\ events' = [events EXCEPT ![w] = Tail(s)]
        /\ UNCHANGED <<storage, token, serverVars, mode, putting, writes, crossed, late>>
    BY <1>5 DEF S!StorageEvent
  <2>3. e.key \in S!Keys /\ e.newValue \in SUBSET Nat
    BY <2>1 DEF Message
  <2>4. /\ Tail(s) \in Seq(Message) /\ DOMAIN Tail(s) = 1 .. Len(s) - 1
        /\ \A n \in 1 .. Len(s) - 1 : Tail(s)[n] = s[n + 1]
    BY <2>1
  <2> HIDE DEF e
  <2>5. StorageTyped'
    BY <2>2, <2>3, <2>4 DEF StorageTyped
  <2>6. ASSUME NEW j \in S!Keys, NEW x \in Windows, ~crossed[j] PROVE WillShow(x, j)'
    <3>1. WillShow(x, j)
      BY <2>6 DEF Shared
    <3>2. CASE x # w
      BY <2>2, <3>1, <3>2 DEF StorageTyped, WillShow, S!Hears
    <3>3. CASE x = w
      <4>1. events'[w] = Tail(s) /\ storage' = storage
        BY <2>2 DEF StorageTyped
      <4>2. ASSUME NEW n \in 1 .. Len(s) - 1, Tail(s)[n].key = j,
                   \A m \in 1 .. Len(s) - 1 : m > n => Tail(s)[m].key # j
            PROVE  Tail(s)[n].newValue = storage[j]
        <5>1. n + 1 \in 1 .. Len(s) /\ s[n + 1].key = j
          BY <2>1, <2>4, <4>2
        <5>2. ASSUME NEW m \in 1 .. Len(s), m > n + 1 PROVE s[m].key # j
          <6>1. m - 1 \in 1 .. Len(s) - 1 /\ m - 1 > n /\ Tail(s)[m - 1] = s[m]
            BY <2>1, <2>4, <5>2
          <6> QED BY <4>2, <6>1
        <5> QED BY <2>1, <2>4, <3>1, <3>3, <5>1, <5>2 DEF WillShow
      <4>3. ASSUME \A n \in 1 .. Len(s) - 1 : Tail(s)[n].key # j PROVE store'[w][j] = storage[j]
        <5>1. \A n \in 1 .. Len(s) : n > 1 => s[n].key # j
          <6> SUFFICES ASSUME NEW n \in 1 .. Len(s), n > 1 PROVE s[n].key # j
            OBVIOUS
          <6>1. n - 1 \in 1 .. Len(s) - 1 /\ Tail(s)[n - 1] = s[n]
            BY <2>1, <2>4
          <6> QED BY <4>3, <6>1
        <5>2. CASE e.key = j
          <6>1. s[1].newValue = storage[j]
            BY <2>1, <3>1, <3>3, <5>1, <5>2 DEF WillShow
          <6> QED BY <2>1, <2>2, <5>2, <6>1 DEF StorageTyped
        <5>3. CASE e.key # j
          <6>1. ~S!Hears(w, j)
            BY <2>1, <5>1, <5>3 DEF S!Hears
          <6> QED BY <2>2, <3>1, <3>3, <5>3, <6>1 DEF StorageTyped, WillShow
        <5> QED BY <5>2, <5>3
      <4> QED BY <2>4, <3>3, <4>1, <4>2, <4>3, ZenonT(40) DEF WillShow, S!Hears
    <3> QED BY <3>2, <3>3
  <2> QED BY <2>2, <2>5, <2>6 DEF Shared, LeftClear, Empty, SomebodyIn
<1>6. CASE S!Logout(w)
  <2>1. StorageTyped'
    BY <1>6 DEF S!Logout, StorageTyped
  <2>2. LeftClear'
    BY <1>6 DEF S!Logout, StorageTyped, LeftClear, Empty, SomebodyIn
  <2> QED BY <1>6, <2>1, <2>2 DEF S!Logout, Shared, WillShow, S!Hears
<1>7. ASSUME NEW preserve \in BOOLEAN, S!SafeLogout(w, preserve) PROVE StoragesSafe'
  <2> DEFINE removed == {k \in S!Keys \ S!Kept(preserve) : storage[k] # {}}
             messages == [n \in 1 .. S!Cardinality(removed) |-> S!Event(S!SetToSeq(removed)[n], {})]
  <2>1. /\ messages \in Seq(Message)
        /\ \A n \in DOMAIN messages : messages[n].key \notin S!Kept(preserve)
    <3>1. IsFiniteSet(S!Keys)
      <4>1. S!Keys = ({"vars"} \cup {"localVars"}) \cup {"recents"}
        BY DEF S!Keys
      <4> QED BY <4>1, FS_Singleton, FS_Union
    <3>2. IsFiniteSet(removed)
      BY <3>1, FS_Subset
    <3>3. S!SetToSeq(removed) \in [1 .. S!Cardinality(removed) -> removed] /\ S!Cardinality(removed) \in Nat
      BY <3>2, SetToSeqHas
    <3>4. \A n \in 1 .. S!Cardinality(removed) : messages[n] = S!Event(S!SetToSeq(removed)[n], {})
      OBVIOUS
    <3>5. \A n \in 1 .. S!Cardinality(removed) :
             messages[n] \in Message /\ messages[n].key \in removed
      BY <3>3, <3>4 DEF S!Event, Message
    <3>6. DOMAIN messages = 1 .. S!Cardinality(removed)
      OBVIOUS
    <3>7. messages \in [1 .. S!Cardinality(removed) -> Message]
      BY <3>5
    <3>8. \A k \in removed : k \notin S!Kept(preserve)
      OBVIOUS
    <3> HIDE DEF messages, removed
    <3>9. messages \in Seq(Message)
      BY <3>3, <3>7
    <3> QED BY <3>5, <3>6, <3>8, <3>9
  <2> HIDE DEF messages, removed
  <2>2. /\ storage' = [k \in S!Keys |-> IF k \in S!Kept(preserve) THEN storage[k] ELSE {}]
        /\ store' = [store EXCEPT ![w] = [k \in S!Keys |-> IF k \in S!Kept(preserve) THEN @[k] ELSE {}]]
        /\ crossed' = [k \in S!Keys |-> k \notin S!Kept(preserve) \/ crossed[k]]
        /\ token' = FALSE /\ late' = FALSE /\ writes' = writes + 1
        /\ mode' = [mode EXCEPT ![w] = "caches"]
        /\ events' = IF preserve
                     THEN [x \in Windows |-> IF x = w THEN events[x] ELSE events[x] \o messages]
                     ELSE events
        /\ UNCHANGED <<serverVars, putting>>
    BY <1>7 DEF S!SafeLogout, removed, messages
  <2>3. StorageTyped'
    BY <2>1, <2>2 DEF StorageTyped
  <2>4. ASSUME NEW j \in S!Keys, NEW x \in Windows, ~crossed'[j] PROVE WillShow(x, j)'
    <3>1. j \in S!Kept(preserve) /\ ~crossed[j] /\ preserve
      BY <2>2, <2>4 DEF S!Kept
    <3>2. storage'[j] = storage[j] /\ store'[x][j] = store[x][j]
      BY <2>2, <3>1 DEF StorageTyped
    <3>3. WillShow(x, j)
      BY <3>1 DEF Shared
    <3>4. CASE events'[x] = events[x]
      BY <3>2, <3>3, <3>4 DEF WillShow, S!Hears
    <3>5. CASE events'[x] = events[x] \o messages
      <4>1. /\ events[x] \in Seq(Message) /\ Len(events[x]) \in Nat /\ Len(messages) \in Nat
            /\ DOMAIN events[x] = 1 .. Len(events[x]) /\ DOMAIN messages = 1 .. Len(messages)
            /\ DOMAIN events'[x] = 1 .. Len(events[x]) + Len(messages)
            /\ \A n \in 1 .. Len(events[x]) : events'[x][n] = events[x][n]
            /\ \A n \in 1 .. Len(events[x]) + Len(messages) :
                  n > Len(events[x]) => events'[x][n] = messages[n - Len(events[x])]
        BY <2>1, <3>5 DEF StorageTyped
      <4>2. ASSUME NEW n \in DOMAIN events'[x], n > Len(events[x]) PROVE events'[x][n].key # j
        <5>1. n - Len(events[x]) \in DOMAIN messages
          BY <4>1, <4>2
        <5> QED BY <2>1, <3>1, <4>1, <4>2, <5>1
      <4>3. ~S!Hears(x, j)' => store'[x][j] = storage'[j]
        BY <3>2, <3>3, <4>1 DEF WillShow, S!Hears
      <4>4. ASSUME NEW n \in DOMAIN events'[x], events'[x][n].key = j,
                   \A m \in DOMAIN events'[x] : m > n => events'[x][m].key # j
            PROVE  events'[x][n].newValue = storage'[j]
        <5>1. n \in 1 .. Len(events[x])
          BY <4>1, <4>2, <4>4
        <5> QED BY <3>2, <3>3, <4>1, <4>4, <5>1 DEF WillShow
      <4> QED BY <4>3, <4>4 DEF WillShow
    <3> QED BY <2>2, <3>1, <3>4, <3>5
  <2>5. LeftClear'
    BY <2>2 DEF LeftClear, Empty, S!Kept
  <2> QED BY <2>3, <2>4, <2>5 DEF Shared
<1>8. CASE S!Leaves(w) \/ S!LogoutMessage(w)
  <2>1. S!Loaded(w) /\ UNCHANGED <<storage, token, serverVars, writes, crossed, late>>
    BY <1>8 DEF S!Leaves, S!LogoutMessage
  <2>2. StorageTyped' /\ Shared'
    BY <2>1, LoadedShares DEF StorageTyped
  <2>3. LeftClear'
    <3>1. mode' = [mode EXCEPT ![w] = IF token THEN "in" ELSE "login"]
      BY <2>1 DEF S!Loaded
    <3> QED BY <2>1, <3>1 DEF LeftClear, Empty, SomebodyIn, StorageTyped
  <2> QED BY <2>2, <2>3
<1> QED BY <1>1, <1>2, <1>3, <1>4, <1>5, <1>6, <1>7, <1>8

LEMMA StorageKeeps == StoragesSafe => S!StorageSafe
BY DEF StoragesSafe, StorageTyped, Shared, WillShow, LeftClear, Empty, SomebodyIn,
       S!StorageSafe, S!StoresSettle, S!LogoutClears

LEMMA StorageRun == Spec => []StoragesSafe
<1>1. Init => StoragesSafe
  BY StorageStart DEF Init
<1>2. StoragesSafe /\ [Next]_vars => StoragesSafe'
  <2> SUFFICES ASSUME StoragesSafe, [Next]_vars PROVE StoragesSafe'
    OBVIOUS
  <2>1. S!Next \/ UNCHANGED stores
    BY DEF Next, vars
  <2>2. CASE S!Next
    BY <2>2, StorageStep DEF S!Next
  <2>3. CASE UNCHANGED stores
    <3> USE <2>3 DEF stores
    <3>1. StorageTyped' /\ LeftClear'
      BY DEF StoragesSafe, StorageTyped, LeftClear, Empty, SomebodyIn
    <3>2. Shared'
      BY DEF StoragesSafe, Shared, WillShow, S!Hears
    <3> QED BY <3>1, <3>2 DEF StoragesSafe
  <2> QED BY <2>1, <2>2, <2>3
<1> QED BY <1>1, <1>2, PTL DEF Spec

\* Windows that have heard all show what is stored, and a logout leaves nothing behind
\* (store.ts, the storage events and safeLogout).
THEOREM StorageIsSafe == Spec => []StorageSafe
BY StorageRun, StorageKeeps, PTL DEF StorageSafe

-----------------------------------------------------------------------------
(* The rows that are dragged: what is noted is what is in the hand.        *)

Rows == R!TreeRows \cup R!FavRows

\* The row noted at the start of a drag is the one in the hand, or the note was cleared.
DragsSafe ==
    /\ hand \in Rows \cup {R!Nothing, R!Foreign} /\ dragged \in Rows \cup {R!Nothing}
    /\ drops \in Seq([row : Rows \cup {R!Nothing}, hand : Rows \cup {R!Nothing, R!Foreign}])
    /\ hand \in Rows => dragged = hand \/ (dragged = R!Nothing /\ cleared)
    /\ R!DropsAimed /\ R!DropsTaken

LEMMA DragsStart == R!Init => DragsSafe
BY
DEF R!Init, DragsSafe, R!DropsAimed, R!DropsTaken, Rows, R!TreeRows, R!FavRows, R!Row, R!Nothing,
    R!Foreign

LEMMA DragsStep == ASSUME DragsSafe, R!Next PROVE DragsSafe'
<1>0. /\ \A r \in R!FavRows : r.type = "fav"
      /\ \A r \in R!TreeRows : r.type \in {"server", "group"}
      /\ R!Nothing.type = "nothing" /\ R!Foreign.type = "foreign" /\ R!Root.type = "root"
  BY DEF R!TreeRows, R!FavRows, R!Row, R!Nothing, R!Foreign, R!Root
<1>1. /\ \A r \in Rows : r.type \in {"server", "group", "fav"}
      /\ \A r \in R!FavRows : r.type = "fav"
      /\ \A r \in R!TreeRows : r.type \in {"server", "group"}
      /\ R!Nothing.type = "nothing" /\ R!Foreign.type = "foreign" /\ R!Root.type = "root"
      /\ R!Nothing \notin Rows /\ R!Foreign \notin Rows /\ R!Nothing # R!Foreign
      /\ \A r \in R!FavRows : r \in Rows /\ r \notin R!TreeRows
      /\ R!Root \notin Rows
  BY <1>0 DEF Rows
<1>2. CASE R!DragStart
  BY <1>1, <1>2 DEF R!DragStart, R!Noted, DragsSafe, R!DropsAimed, R!DropsTaken, Rows
<1>3. CASE R!ForeignStart
  BY <1>1, <1>3 DEF R!ForeignStart, DragsSafe, R!DropsAimed, R!DropsTaken
<1>4. CASE R!Drop
  <2>1. PICK target \in R!TreeRows \cup R!FavRows \cup {R!Root} :
          /\ R!Accepts(target)
          /\ IF R!MovesTo(dragged, target)
             THEN /\ drops' = Append(drops, [row |-> dragged, hand |-> hand])
                  /\ dragged' \in {R!Nothing, dragged}
                  /\ UNCHANGED missed
             ELSE /\ dragged' = R!Nothing
                  /\ missed' = (missed \/ R!MovesTo(hand, target))
                  /\ UNCHANGED drops
    BY <1>4 DEF R!Drop, R!AfterDrag
  <2>2. hand # R!Nothing /\ hand' = R!Nothing /\ cleared' = cleared
    BY <1>4 DEF R!Drop
  <2>3. CASE R!MovesTo(dragged, target)
    <3>1. dragged \in Rows /\ hand \in {dragged, R!Foreign}
      BY <1>1, <2>2, <2>3 DEF R!MovesTo, DragsSafe
    <3>2. R!DropsAimed'
      BY <2>1, <2>3, <3>1 DEF DragsSafe, R!DropsAimed
    <3>3. drops' \in Seq([row : Rows \cup {R!Nothing}, hand : Rows \cup {R!Nothing, R!Foreign}])
      <4>1. [row |-> dragged, hand |-> hand]
              \in [row : Rows \cup {R!Nothing}, hand : Rows \cup {R!Nothing, R!Foreign}]
        BY DEF DragsSafe
      <4>2. drops' = Append(drops, [row |-> dragged, hand |-> hand])
        BY <2>1, <2>3
      <4> QED BY <4>1, <4>2 DEF DragsSafe
    <3> QED BY <1>1, <2>1, <2>2, <2>3, <3>2, <3>3 DEF DragsSafe, R!DropsTaken
  <2>4. CASE ~R!MovesTo(dragged, target)
    <3>1. R!MovesTo(hand, target) => cleared
      BY <1>1, <2>2, <2>4 DEF R!MovesTo, DragsSafe
    <3>2. missed' => missed \/ R!MovesTo(hand, target)
      BY <2>1, <2>4
    <3>3. R!DropsTaken'
      BY <2>2, <3>1, <3>2 DEF DragsSafe, R!DropsTaken
    <3> QED BY <1>1, <2>1, <2>2, <2>4, <3>3 DEF DragsSafe, R!DropsAimed
  <2> QED BY <2>3, <2>4
<1>5. CASE R!DragEnd
  <2>1. /\ hand # R!Nothing /\ hand' = R!Nothing /\ dragged' \in {R!Nothing, dragged}
        /\ UNCHANGED <<drops, cleared>>
    BY <1>5 DEF R!DragEnd, R!AfterDrag
  <2>2. ASSUME NEW target \in R!TreeRows \cup R!FavRows \cup {R!Root}, ~R!Accepts(target),
               R!MovesTo(hand, target)
        PROVE  cleared
    BY <1>1, <2>1, <2>2 DEF R!Accepts, R!MovesTo, DragsSafe
  <2>3. missed' => missed \/ cleared
    BY <1>5, <2>2 DEF R!DragEnd
  <2> QED BY <1>1, <2>1, <2>3 DEF DragsSafe, R!DropsAimed, R!DropsTaken
<1>6. CASE R!Moved
  <2>1. /\ dragged' = R!Nothing /\ UNCHANGED <<hand, drops, missed>>
        /\ cleared' <=> cleared \/ (hand # R!Nothing /\ dragged = hand)
    BY <1>6 DEF R!Moved
  <2> QED BY <1>1, <2>1 DEF DragsSafe, R!DropsAimed, R!DropsTaken
<1>7. CASE R!MoveFails
  BY <1>7 DEF R!MoveFails, DragsSafe, R!DropsAimed, R!DropsTaken
<1> QED BY <1>2, <1>3, <1>4, <1>5, <1>6, <1>7 DEF R!Next

LEMMA DragsRun == Spec => []DragsSafe
<1>1. Init => DragsSafe
  BY DragsStart DEF Init
<1>2. DragsSafe /\ [Next]_vars => DragsSafe'
  <2> SUFFICES ASSUME DragsSafe, [Next]_vars PROVE DragsSafe'
    OBVIOUS
  <2>1. R!Next \/ UNCHANGED drags
    BY DEF Next, vars
  <2>2. CASE R!Next
    BY <2>2, DragsStep
  <2>3. CASE UNCHANGED drags
    BY <2>3 DEF drags, DragsSafe, R!DropsAimed, R!DropsTaken
  <2> QED BY <2>1, <2>2, <2>3
<1> QED BY <1>1, <1>2, PTL DEF Spec

-----------------------------------------------------------------------------
(* The key bar of a phone: its panel and its entry of the history.         *)

\* The panel and its entry of the history differ only while a back or a closing is under way.
BarInv ==
    /\ panel \in BOOLEAN /\ at \in {"page", "panel", "left"}
    /\ backs \in Nat /\ closings \in Nat
    /\ panel /\ at = "page" => closings > 0
    /\ ~panel /\ at = "panel" => backs > 0
    /\ backs > 1 => twice
    /\ at = "page" /\ backs > 0 => twice
    /\ K!StaysOnPage /\ K!KeyboardDown /\ K!LatchOnce

LEMMA BarStart == K!Init => BarInv
<1>1. K!Init => K!LatchOnce
  <2>1. K!Init => ~bytes.ctrl /\ ~bytes.esc
    BY DEF K!Init, K!Plain
  <2> QED BY <2>1, Zenon DEF K!LatchOnce
<1>2. K!Init => /\ panel \in BOOLEAN /\ ~panel
              /\ at = "page" /\ backs = 0 /\ closings = 0
  BY Zenon DEF K!Init
<1>3. K!Init => K!StaysOnPage /\ K!KeyboardDown
  BY DEF K!Init, K!StaysOnPage, K!KeyboardDown
<1> QED BY <1>1, <1>2, <1>3 DEF BarInv

LEMMA BarStep == ASSUME BarInv, K!Next PROVE BarInv'
<1> USE DEF BarInv, K!StaysOnPage
<1>0. ASSUME UNCHANGED <<ctrl, alt, bytes>> PROVE K!LatchOnce'
  BY <1>0 DEF K!LatchOnce
<1>1. ASSUME NEW opens \in BOOLEAN, K!SetPanel(opens), at # "left",
             opens => ~panel,
             \/ UNCHANGED closings /\ (opens => UNCHANGED front)
             \/ ~opens /\ closings' \in Nat,
             UNCHANGED <<ctrl, alt, bytes>>
      PROVE  BarInv'
  <2>1. CASE opens = panel
    BY <1>0, <1>1, <2>1 DEF K!SetPanel, K!KeyboardDown
  <2>2. CASE opens # panel
    BY <1>0, <1>1, <2>2 DEF K!SetPanel, K!Opened, K!Closed, K!ApplyMode, K!KeyboardDown
  <2> QED BY <2>1, <2>2
<1>2. CASE K!Retry
  BY <1>0, <1>2 DEF K!Retry, K!ApplyMode, K!Latches, K!KeyboardDown
<1>3. CASE K!Finish
  <2>1. at # "left"
    BY DEF K!Next
  <2>2. K!SetPanel(FALSE) /\ UNCHANGED <<ctrl, alt, bytes>>
    BY <1>3 DEF K!Finish, K!Latches
  <2>3. closings' \in Nat
    BY <1>3 DEF K!Finish
  <2> QED BY <1>1, <2>1, <2>2, <2>3
<1>4. CASE K!HistoryBack
  BY <1>0, <1>4 DEF K!HistoryBack, K!Popped, K!PerformClose, K!Latches, K!KeyboardDown
<1>5. CASE K!UserBack
  <2>1. /\ at' = "page" /\ closings' = closings + 1 /\ muted' = muted \ {front}
        /\ UNCHANGED <<panel, backs, front, retry, ctrl, alt, bytes, turned>>
        /\ at = "panel"
    BY <1>5 DEF K!UserBack, K!Popped, K!PerformClose, K!Latches
  <2>2. twice' <=> twice \/ backs > 0
    BY <1>5 DEF K!UserBack
  <2> QED BY <1>0, <2>1, <2>2 DEF K!KeyboardDown
<1>6. CASE K!Toggle
  <2>1. CASE ~panel /\ K!SetPanel(TRUE) /\ UNCHANGED closings
    BY <1>1, <1>6, <2>1 DEF K!Toggle, K!Latches, K!Next
  <2>2. CASE panel
    <3>1. UNCHANGED <<panel, at, front, turned, ctrl, alt, bytes>>
      BY <1>6, <2>2 DEF K!Toggle, K!Latches
    <3>2. CASE at = "panel" /\ backs' = backs + 1 /\ UNCHANGED <<closings, muted>>
      <4>1. twice' <=> twice \/ backs > 0
        BY <1>6, <2>2, <3>2 DEF K!Toggle, K!PerformClose
      <4> QED BY <1>0, <2>2, <3>1, <3>2, <4>1 DEF K!KeyboardDown
    <3>3. CASE at # "panel" /\ K!PerformClose /\ UNCHANGED <<backs, twice>>
      BY <1>0, <2>2, <3>1, <3>3 DEF K!PerformClose, K!KeyboardDown
    <3> QED BY <1>6, <2>2, <3>2, <3>3 DEF K!Toggle
  <2> QED BY <1>6, <2>1, <2>2 DEF K!Toggle
<1>7. CASE K!TerminalBlur
  BY <1>1, <1>7 DEF K!TerminalBlur, K!Latches, K!Next
<1>8. CASE K!Turn
  <2>1. CASE K!SetPanel(FALSE)
    BY <1>1, <1>8, <2>1 DEF K!Turn, K!Latches, K!Next
  <2>2. CASE turned' = (turned \/ panel) /\ UNCHANGED <<panel, at, backs, muted, retry, twice>>
    <3>1. turned' <=> turned \/ panel
      BY <2>2
    <3> QED BY <1>0, <1>8, <2>2, <3>1 DEF K!Turn, K!Latches, K!KeyboardDown
  <2> QED BY <1>8, <2>1, <2>2 DEF K!Turn
<1>9. CASE \/ K!ToggleCtrl \/ K!ToggleAlt \/ K!SendKey
           \/ \E data \in {"character", "digit", "sequence"} : K!Typed(data)
  <2>1. K!Keep
    BY <1>9 DEF K!ToggleCtrl, K!ToggleAlt, K!SendKey, K!Typed
  <2>2. ASSUME K!ToggleCtrl \/ K!ToggleAlt PROVE K!LatchOnce'
    <3>1. ~bytes'.ctrl /\ ~bytes'.esc
      BY <2>2 DEF K!ToggleCtrl, K!ToggleAlt, K!Plain
    <3> QED BY <3>1 DEF K!LatchOnce
  <2>3. ASSUME K!SendKey PROVE K!LatchOnce'
    <3>1. ~bytes'.ctrl /\ ~alt'
      BY <2>3 DEF K!SendKey
    <3> QED BY <3>1 DEF K!LatchOnce
  <2>4. ASSUME NEW data \in {"character", "digit", "sequence"}, K!Typed(data) PROVE K!LatchOnce'
    <3>1. /\ bytes'.ctrl = (ctrl /\ data = "character") /\ bytes'.esc = alt
          /\ ctrl' = (ctrl /\ data = "sequence") /\ alt' = FALSE
      BY <2>4 DEF K!Typed
    <3> QED BY <3>1 DEF K!LatchOnce
  <2> QED BY <1>9, <2>1, <2>2, <2>3, <2>4 DEF K!Keep, K!KeyboardDown
<1> QED BY <1>2, <1>3, <1>4, <1>5, <1>6, <1>7, <1>8, <1>9 DEF K!Next

LEMMA BarKeeps == BarInv => K!BarSafe
BY DEF BarInv, K!BarSafe, K!EntryOfPanel

LEMMA BarRun == Spec => []BarInv
<1>1. Init => BarInv
  BY BarStart DEF Init
<1>2. BarInv /\ [Next]_vars => BarInv'
  <2> SUFFICES ASSUME BarInv, [Next]_vars PROVE BarInv'
    OBVIOUS
  <2>1. K!Next \/ UNCHANGED bar
    BY DEF Next, vars
  <2>2. CASE K!Next
    BY <2>2, BarStep
  <2>3. CASE UNCHANGED bar
    BY <2>3 DEF bar, BarInv, K!StaysOnPage, K!KeyboardDown, K!LatchOnce
  <2> QED BY <2>1, <2>2, <2>3
<1> QED BY <1>1, <1>2, PTL DEF Spec

\* A drop moves the row in the hand, once, and a drop is not lost; the panel of keys and
\* the entry of the history go together, and a latch changes one key (Sidebar.tsx, the
\* handlers of drags; MobileInputBar.tsx).
THEOREM InputIsSafe == Spec => []InputSafe
<1>1. DragsSafe => R!DragSafe
  BY DEF DragsSafe, R!DragSafe
<1> QED BY <1>1, BarKeeps, DragsRun, BarRun, PTL DEF InputSafe

-----------------------------------------------------------------------------
(* The tab of the saved passwords: what each answer will tell still holds. *)

\* The requests that are about one row and leave the list as it is.
OfRow == {"reveal", "copy", "change"}

IsList(l) == l = [locked |-> l.locked, keys |-> l.keys]

IsRecord(r) ==
    r = [op |-> r.op, key |-> r.key, text |-> r.text, seen |-> r.seen, served |-> r.served]
IsRequest(r) ==
    /\ IsRecord(r)
    /\ r.op \in OfRow \cup {"list", "lock", "delete"}
    /\ r.op \in OfRow \cup {"delete"} => r.key \in HostKeys
    /\ IsList(r.seen)

\* What the answer to r will tell still holds.
Holds(r) ==
    /\ r.op \in {"reveal", "copy"} =>
          r.seen.keys = W!Listed /\ (r.served => ~locked /\ r.text = secrets[r.key])
    /\ r.op = "change" =>
          r.key \in W!Listed /\ r.text # 0 /\ (r.served => ~locked /\ r.text = secrets[r.key])
    /\ r.op = "lock" => revealed = W!Nothing
    /\ r.op = "list" => (r.served => r.seen = [locked |-> locked, keys |-> W!Listed])

\* The password of k is another by now, and the window will be told.
Told(k) == \E r \in requests : r.served /\ r.key = k /\ r.op \in {"change", "delete"}

\* No two requests mixed: an answer still tells what is saved, the list shown is the one
\* saved when only rows are asked about, and a password that is shown is the one saved or
\* the window will be told it is another.
Unmixed ==
    /\ \A a, b \in requests : a = b \/ W!Apart(a, b)
    /\ ~opened => requests = {} /\ revealed = W!Nothing /\ ~typed
    /\ opened /\ (\A r \in requests : r.op \in OfRow) =>
          passwords.keys = W!Listed /\ (locked => passwords.locked)
    /\ \A r \in requests : Holds(r)
    /\ \A k \in HostKeys : revealed[k] = 0 \/ (~locked /\ (revealed[k] = secrets[k] \/ Told(k)))

\* The records the tab of the saved passwords keeps have the fields it reads.
RevealsTyped ==
    /\ revealed = [k \in HostKeys |-> revealed[k]]
    /\ secrets = [k \in HostKeys |-> secrets[k]]
    /\ IsList(passwords)
    /\ \A r \in requests : IsRequest(r)

RevealsSafe == RevealsTyped /\ (mixed \/ Unmixed)

LEMMA Relisted ==
    ASSUME NEW l, IsList(l), NEW b
    PROVE  [l EXCEPT !.locked = b] = [locked |-> b, keys |-> l.keys]
<1>1. [[locked |-> l.locked, keys |-> l.keys] EXCEPT !.locked = b] = [locked |-> b, keys |-> l.keys]
  OBVIOUS
<1>2. [l EXCEPT !.locked = b] = [[locked |-> l.locked, keys |-> l.keys] EXCEPT !.locked = b]
  BY Zenon DEF IsList
<1> QED BY <1>1, <1>2

LEMMA WithText ==
    ASSUME NEW r, IsRecord(r), NEW s
    PROVE  [r EXCEPT !.text = s]
             = [op |-> r.op, key |-> r.key, text |-> s, seen |-> r.seen, served |-> r.served]
<1> PICK c : c = r
  OBVIOUS
<1>1. [[op |-> c.op, key |-> c.key, text |-> c.text, seen |-> c.seen, served |-> c.served]
          EXCEPT !.text = s]
        = [op |-> c.op, key |-> c.key, text |-> s, seen |-> c.seen, served |-> c.served]
  OBVIOUS
<1>2. r = [op |-> c.op, key |-> c.key, text |-> c.text, seen |-> c.seen, served |-> c.served]
  BY DEF IsRecord
<1> QED BY <1>1, <1>2, Zenon

LEMMA WithSeen ==
    ASSUME NEW r, IsRecord(r), NEW s
    PROVE  [r EXCEPT !.seen = s]
             = [op |-> r.op, key |-> r.key, text |-> r.text, seen |-> s, served |-> r.served]
<1> PICK c : c = r
  OBVIOUS
<1>1. [[op |-> c.op, key |-> c.key, text |-> c.text, seen |-> c.seen, served |-> c.served]
          EXCEPT !.seen = s]
        = [op |-> c.op, key |-> c.key, text |-> c.text, seen |-> s, served |-> c.served]
  OBVIOUS
<1>2. r = [op |-> c.op, key |-> c.key, text |-> c.text, seen |-> c.seen, served |-> c.served]
  BY DEF IsRecord
<1> QED BY <1>1, <1>2, Zenon

LEMMA WithServed ==
    ASSUME NEW r, IsRecord(r), NEW s
    PROVE  [r EXCEPT !.served = s]
             = [op |-> r.op, key |-> r.key, text |-> r.text, seen |-> r.seen, served |-> s]
<1> PICK c : c = r
  OBVIOUS
<1>1. [[op |-> c.op, key |-> c.key, text |-> c.text, seen |-> c.seen, served |-> c.served]
          EXCEPT !.served = s]
        = [op |-> c.op, key |-> c.key, text |-> c.text, seen |-> c.seen, served |-> s]
  OBVIOUS
<1>2. r = [op |-> c.op, key |-> c.key, text |-> c.text, seen |-> c.seen, served |-> c.served]
  BY DEF IsRecord
<1> QED BY <1>1, <1>2, Zenon

LEMMA RevealsStart == W!Init => RevealsSafe
<1> SUFFICES ASSUME W!Init PROVE RevealsSafe
  OBVIOUS
<1>1. ~opened /\ ~typed /\ requests = {} /\ revealed = W!Nothing /\ IsList(passwords)
  BY DEF W!Init, IsList
<1>2. revealed = [k \in HostKeys |-> revealed[k]] /\ secrets = [k \in HostKeys |-> secrets[k]]
  BY DEF W!Init, W!Nothing
<1>3. Unmixed
  BY <1>1 DEF Unmixed, W!Nothing
<1> QED BY <1>1, <1>2, <1>3 DEF RevealsSafe, RevealsTyped

\* The window asks for something, after an answer or by itself.
LEMMA SendsSafe ==
    ASSUME RevealsSafe, NEW op, NEW k, NEW text, NEW rest \in SUBSET requests,
           W!Sends(W!Call(op, k, text), rest),
           op \in OfRow \cup {"list", "lock", "delete"},
           op \in OfRow \cup {"delete"} => k \in HostKeys,
           UNCHANGED <<W!store, passwords>>, revealed' = [j \in HostKeys |-> revealed'[j]]
    PROVE  /\ RevealsTyped'
           /\ ~mixed' => /\ ~mixed
                         /\ \A c \in rest : W!Apart(c, W!Call(op, k, text))
                         /\ \A a, b \in requests' : a = b \/ W!Apart(a, b)
                         /\ op \notin OfRow => requests' = {W!Call(op, k, text)}
                         /\ op \in OfRow => \A c \in rest : c.op \in OfRow
<1> DEFINE new == W!Call(op, k, text)
<1>1. /\ requests' = rest \cup {new}
      /\ mixed' <=> mixed \/ \E c \in rest : ~W!Apart(c, new)
      /\ new.op = op /\ new.key = k
  BY DEF W!Sends, W!Call
<1>2. IsRequest(new)
  BY DEF W!Call, IsRequest, IsRecord, RevealsSafe, RevealsTyped
<1>3. ASSUME ~mixed' PROVE /\ ~mixed /\ \A c \in rest : W!Apart(c, new)
                           /\ \A a, b \in requests' : a = b \/ W!Apart(a, b)
  <2>1. ~mixed /\ \A c \in rest : W!Apart(c, new)
    BY <1>1, <1>3
  <2>2. \A a, b \in rest : a = b \/ W!Apart(a, b)
    BY <2>1 DEF RevealsSafe, RevealsTyped, Unmixed
  <2>3. \A c \in rest : W!Apart(new, c)
    BY <2>1 DEF W!Apart
  <2> HIDE DEF new
  <2> QED BY <1>1, <2>1, <2>2, <2>3
<1>4. \A r \in requests' : IsRequest(r)
  BY <1>1, <1>2 DEF RevealsSafe, RevealsTyped
<1>5. ASSUME ~mixed' PROVE /\ op \notin OfRow => requests' = {new}
                           /\ op \in OfRow => \A c \in rest : c.op \in OfRow
  <2>1. \A c \in rest : {c.op, op} \subseteq OfRow
    BY <1>1, <1>3, <1>5 DEF W!Apart, OfRow
  <2> QED BY <1>1, <2>1
<1> QED BY <1>3, <1>4, <1>5 DEF RevealsSafe, RevealsTyped, W!store

LEMMA RevealsStep == ASSUME RevealsSafe, W!Next PROVE RevealsSafe'
<1>1. CASE W!Open
  <2> DEFINE k == CHOOSE k \in HostKeys : TRUE
  <2>1. /\ W!Sends(W!Call("list", k, 0), requests) /\ UNCHANGED <<W!store, passwords, revealed, typed>>
        /\ ~opened /\ opened'
    BY <1>1 DEF W!Open, W!Fetch
  <2> HIDE DEF k
  <2>2. /\ RevealsTyped'
        /\ ~mixed' => ~mixed /\ requests' = {W!Call("list", k, 0)}
    BY <2>1, SendsSafe DEF OfRow, RevealsSafe, RevealsTyped
  <2>3. ASSUME ~mixed' PROVE Unmixed'
    <3>1. W!Call("list", k, 0).op = "list" /\ ~W!Call("list", k, 0).served
      BY DEF W!Call
    <3> QED BY <2>1, <2>2, <2>3, <3>1 DEF RevealsSafe, Unmixed, Holds, OfRow, W!Nothing
  <2> QED BY <2>2, <2>3 DEF RevealsSafe
<1>2. CASE W!Close
  <2>1. /\ revealed' = W!Nothing /\ ~opened' /\ ~typed' /\ UNCHANGED <<W!store, passwords, requests>>
        /\ mixed' <=> mixed \/ requests # {}
    BY <1>2 DEF W!Close
  <2>2. RevealsTyped'
    BY <2>1 DEF RevealsSafe, RevealsTyped, W!Nothing, W!store
  <2>3. ASSUME ~mixed' PROVE Unmixed'
    BY <2>1, <2>3 DEF Unmixed, W!Nothing
  <2> QED BY <2>2, <2>3 DEF RevealsSafe
<1>3. CASE W!HandleLock
  <2> DEFINE k == CHOOSE k \in HostKeys : TRUE
  <2>1. /\ W!Sends(W!Call("lock", k, 0), requests) /\ UNCHANGED <<W!store, passwords, opened>>
        /\ revealed' = W!Nothing /\ opened
    BY <1>3 DEF W!HandleLock
  <2> HIDE DEF k
  <2>2. /\ RevealsTyped'
        /\ ~mixed' => ~mixed /\ requests' = {W!Call("lock", k, 0)}
    BY <2>1, SendsSafe DEF OfRow, W!Nothing
  <2>3. ASSUME ~mixed' PROVE Unmixed'
    <3>1. W!Call("lock", k, 0).op = "lock"
      BY DEF W!Call
    <3> QED BY <2>1, <2>2, <2>3, <3>1 DEF Unmixed, Holds, OfRow, W!Nothing
  <2> QED BY <2>2, <2>3 DEF RevealsSafe
<1>4. ASSUME NEW k \in HostKeys, NEW op, NEW text,
             op \in {"reveal", "copy", "delete"} \/ (op = "change" /\ text # 0),
             opened, k \in passwords.keys, W!Sends(W!Call(op, k, text), requests),
             UNCHANGED <<W!store, W!window>>
      PROVE  RevealsSafe'
  <2> PICK new : new = W!Call(op, k, text)
    OBVIOUS
  <2>1. /\ RevealsTyped'
        /\ ~mixed' => /\ ~mixed
                      /\ \A a, b \in requests' : a = b \/ W!Apart(a, b)
                      /\ op \notin OfRow => requests' = {new}
                      /\ op \in OfRow => \A c \in requests : c.op \in OfRow
    <3>1. UNCHANGED <<W!store, passwords>> /\ revealed' = [j \in HostKeys |-> revealed'[j]]
      BY <1>4 DEF W!window, RevealsSafe, RevealsTyped
    <3>2. op \in OfRow \cup {"list", "lock", "delete"}
      BY <1>4 DEF OfRow
    <3> QED BY <1>4, <3>1, <3>2, SendsSafe
  <2>2. /\ new.op = op /\ new.key = k /\ new.text = text /\ new.seen = passwords /\ ~new.served
        /\ requests' = requests \cup {new}
    BY <1>4 DEF W!Call, W!Sends
  <2>3. ASSUME ~mixed' PROVE Unmixed'
    <3>1. /\ Unmixed /\ opened' /\ W!Listed' = W!Listed
          /\ UNCHANGED <<secrets, locked, opened, passwords, revealed>>
      BY <1>4, <2>1, <2>3 DEF RevealsSafe, W!window, W!store, W!Listed
    <3>2. op \in OfRow => passwords.keys = W!Listed /\ (locked => passwords.locked)
      BY <1>4, <2>1, <2>3, <3>1 DEF Unmixed
    <3>3. Holds(new)'
      BY <1>4, <2>2, <3>1, <3>2 DEF Holds, OfRow
    <3>4. \A r \in requests : Holds(r)'
      BY <3>1 DEF Unmixed, Holds
    <3>5. \A r \in requests' : Holds(r)'
      BY <2>2, <3>3, <3>4
    <3>6. \A j \in HostKeys : Told(j) => Told(j)'
      BY <2>2 DEF Told
    <3>7. (\A r \in requests' : r.op \in OfRow) => passwords.keys = W!Listed /\ (locked => passwords.locked)
      BY <2>2, <3>2
    <3> QED BY <2>1, <2>3, <3>1, <3>5, <3>6, <3>7 DEF Unmixed
  <2> QED BY <2>1, <2>3 DEF RevealsSafe
<1>5. ASSUME NEW k \in HostKeys, W!HandleReveal(k) PROVE RevealsSafe'
  BY <1>4, <1>5 DEF W!HandleReveal
<1>6. ASSUME NEW k \in HostKeys, W!Hide(k) PROVE RevealsSafe'
  <2>1. /\ revealed' = [revealed EXCEPT ![k] = 0] /\ opened
        /\ UNCHANGED <<secrets, locked, opened, passwords, requests, mixed>>
    BY <1>6 DEF W!Hide, W!store
  <2>2. W!Listed' = W!Listed /\ (\A r \in requests : r.op # "lock" /\ Holds(r) => Holds(r)')
        /\ \A j \in HostKeys : Told(j)' = Told(j)
    BY <2>1 DEF W!Listed, Holds, Told
  <2>3. revealed = W!Nothing => revealed' = W!Nothing
    BY <2>1 DEF W!Nothing
  <2>4. \A r \in requests : Holds(r) => Holds(r)'
    BY <2>1, <2>2, <2>3 DEF Holds
  <2>5. \A j \in HostKeys : revealed'[j] = 0 \/ revealed'[j] = revealed[j]
    BY <2>1 DEF RevealsSafe, RevealsTyped
  <2>6. RevealsTyped'
    BY <2>1 DEF RevealsSafe, RevealsTyped
  <2> QED BY <2>1, <2>2, <2>4, <2>5, <2>6 DEF RevealsSafe, Unmixed
<1>7. ASSUME NEW k \in HostKeys, NEW text \in W!Text \ {0}, W!HandleChangePassword(k, text)
      PROVE  RevealsSafe'
  BY <1>4, <1>7 DEF W!HandleChangePassword
<1>8. ASSUME NEW k \in HostKeys, W!HandleDeletePassword(k) PROVE RevealsSafe'
  BY <1>4, <1>8 DEF W!HandleDeletePassword
<1>9. ASSUME NEW r \in requests, W!Serve(r) PROVE RevealsSafe'
  <2>1. PICK x : /\ requests' = (requests \ {r}) \cup {x} /\ x.op = r.op /\ x.key = r.key /\ x.served
                 /\ x.seen = IF r.op = "list" THEN [locked |-> locked, keys |-> W!Listed] ELSE r.seen
                 /\ x.text = IF r.op \in {"reveal", "copy"} THEN secrets[r.key] ELSE r.text
                 /\ IsRequest(x)
    <3>1. /\ IsRequest(r) /\ IsRecord(r) /\ r.op \in {"list", "lock", "reveal", "copy", "change", "delete"}
          /\ IsList([locked |-> locked, keys |-> W!Listed])
      BY DEF RevealsSafe, RevealsTyped, IsRequest, OfRow, IsList
    <3>2. CASE r.op = "list"
      <4> PICK y : y = [op |-> r.op, key |-> r.key, text |-> r.text,
                        seen |-> [locked |-> locked, keys |-> W!Listed], served |-> TRUE]
        OBVIOUS
      <4>1. [r EXCEPT !.seen = y.seen] = [op |-> r.op, key |-> r.key, text |-> y.text, seen |-> y.seen,
                                  served |-> r.served]
        BY <3>1, WithSeen
      <4> PICK a : a = [r EXCEPT !.seen = y.seen]
        OBVIOUS
      <4>2. IsRecord(a) /\ a.op = r.op /\ a.key = r.key /\ a.text = y.text /\ a.seen = y.seen
        BY <4>1 DEF IsRecord
      <4>3. [a EXCEPT !.served = TRUE]
              = [op |-> a.op, key |-> a.key, text |-> a.text, seen |-> a.seen, served |-> TRUE]
        BY <4>2, WithServed
      <4>4. y = [op |-> r.op, key |-> r.key, text |-> y.text, seen |-> y.seen, served |-> TRUE]
        OBVIOUS
      <4>5. [a EXCEPT !.served = TRUE] = y
        BY <4>2, <4>3, <4>4, Zenon
      <4>6. requests' = (requests \ {r}) \cup {[a EXCEPT !.served = TRUE]}
        BY <1>9, <3>2 DEF W!Serve, W!Served
      <4>7. IsRequest(y)
        BY <3>1 DEF IsRequest, IsRecord
      <4> QED BY <3>2, <4>5, <4>6, <4>7
    <3>3. CASE r.op \in {"reveal", "copy"}
      <4> PICK y : y = [op |-> r.op, key |-> r.key, text |-> secrets[r.key], seen |-> r.seen,
                        served |-> TRUE]
        OBVIOUS
      <4>1. [r EXCEPT !.text = y.text] = [op |-> r.op, key |-> r.key, text |-> y.text, seen |-> y.seen,
                                  served |-> r.served]
        BY <3>1, WithText
      <4> PICK a : a = [r EXCEPT !.text = y.text]
        OBVIOUS
      <4>2. IsRecord(a) /\ a.op = r.op /\ a.key = r.key /\ a.text = y.text /\ a.seen = y.seen
        BY <4>1 DEF IsRecord
      <4>3. [a EXCEPT !.served = TRUE]
              = [op |-> a.op, key |-> a.key, text |-> a.text, seen |-> a.seen, served |-> TRUE]
        BY <4>2, WithServed
      <4>4. y = [op |-> r.op, key |-> r.key, text |-> y.text, seen |-> y.seen, served |-> TRUE]
        OBVIOUS
      <4>5. [a EXCEPT !.served = TRUE] = y
        BY <4>2, <4>3, <4>4, Zenon
      <4>6. requests' = (requests \ {r}) \cup {[a EXCEPT !.served = TRUE]}
        BY <1>9, <3>3 DEF W!Serve, W!Served
      <4>7. IsRequest(y)
        BY <3>1 DEF IsRequest, IsRecord
      <4> QED BY <3>3, <4>5, <4>6, <4>7
    <3>4. CASE r.op \in {"lock", "change", "delete"}
      <4> PICK y : y = [op |-> r.op, key |-> r.key, text |-> r.text, seen |-> r.seen,
                        served |-> TRUE]
        OBVIOUS
      <4>1. [r EXCEPT !.served = TRUE] = y
        BY <3>1, WithServed
      <4>2. requests' = (requests \ {r}) \cup {[r EXCEPT !.served = TRUE]}
        BY <1>9, <3>4 DEF W!Serve, W!Served
      <4>3. IsRequest(y)
        BY <3>1 DEF IsRequest, IsRecord
      <4> QED BY <3>4, <4>1, <4>2, <4>3
    <3> QED BY <3>1, <3>2, <3>3, <3>4
  <2>2. /\ UNCHANGED <<opened, typed, passwords, revealed>> /\ (mixed' <=> mixed)
        /\ secrets' = CASE r.op = "change" -> [secrets EXCEPT ![r.key] = r.text]
                        [] r.op = "delete" -> [secrets EXCEPT ![r.key] = 0]
                        [] OTHER -> secrets
        /\ r.op = "lock" => locked'
        /\ r.op \in OfRow => ~locked'
        /\ r.op \in {"list", "delete"} => locked' = locked
    BY <1>9 DEF W!Serve, W!Served, W!window, OfRow, RevealsSafe, RevealsTyped, IsRequest
  <2>3. RevealsTyped'
    BY <2>1, <2>2 DEF RevealsSafe, RevealsTyped
  <2>4. ASSUME ~mixed' PROVE Unmixed'
    <3>1. Unmixed /\ opened
      BY <2>2, <2>4 DEF RevealsSafe, Unmixed
    <3>2. /\ \A a, b \in requests' : a = b \/ W!Apart(a, b)
          /\ r.op \notin OfRow => requests' = {x}
      BY <2>1, <3>1 DEF Unmixed, W!Apart, OfRow
    <3>3. \A k \in HostKeys : k # r.key => secrets'[k] = secrets[k]
      BY <2>2 DEF RevealsSafe, RevealsTyped
    <3>4. r.op \in OfRow => W!Listed' = W!Listed
      <4>1. CASE r.op = "change"
        <5>1. r.key \in W!Listed /\ r.text # 0
          BY <3>1, <4>1 DEF Unmixed, Holds
        <5>2. r.key \in HostKeys /\ secrets[r.key] # 0
          BY <5>1 DEF W!Listed
        <5>3. secrets'[r.key] = r.text
          BY <2>2, <4>1, <5>2 DEF RevealsSafe, RevealsTyped
        <5>4. \A k \in HostKeys : secrets'[k] # 0 <=> secrets[k] # 0
          BY <3>3, <5>1, <5>2, <5>3
        <5> QED BY <5>4 DEF W!Listed
      <4>2. CASE r.op \in {"reveal", "copy"}
        BY <2>2, <4>2 DEF W!Listed
      <4> QED BY <4>1, <4>2 DEF OfRow
    <3>5. Holds(x)'
      BY <2>1, <2>2, <3>1, <3>4
      DEF Holds, Unmixed, OfRow, RevealsSafe, RevealsTyped, IsRequest, W!Listed
    <3>6. \A c \in requests \ {r} : Holds(c)'
      <4> SUFFICES ASSUME NEW c \in requests \ {r} PROVE Holds(c)'
        OBVIOUS
      <4>1. c.key # r.key /\ r.op \in OfRow /\ c.op \in OfRow /\ c.key \in HostKeys /\ Holds(c)
        BY <3>1 DEF Unmixed, W!Apart, OfRow, RevealsSafe, RevealsTyped, IsRequest
      <4>2. secrets'[c.key] = secrets[c.key] /\ W!Listed' = W!Listed /\ ~locked'
        BY <2>2, <3>3, <3>4, <4>1
      <4> QED BY <4>1, <4>2 DEF Holds, OfRow
    <3>7. \A r2 \in requests' : Holds(r2)'
      BY <2>1, <3>5, <3>6
    <3>8. (\A c \in requests' : c.op \in OfRow) =>
             passwords'.keys = W!Listed' /\ (locked' => passwords'.locked)
      BY <2>1, <2>2, <3>1, <3>4 DEF Unmixed
    <3>9. ASSUME NEW k \in HostKeys, revealed'[k] # 0
          PROVE  ~locked' /\ (revealed'[k] = secrets'[k] \/ Told(k)')
      <4>1. revealed[k] # 0 /\ ~locked /\ (revealed[k] = secrets[k] \/ Told(k))
        BY <2>2, <3>1, <3>9 DEF Unmixed
      <4>2. r.op # "lock"
        BY <3>1, <4>1 DEF Unmixed, Holds, W!Nothing
      <4>3. ~locked'
        BY <2>2, <4>1, <4>2 DEF OfRow, RevealsSafe, RevealsTyped, IsRequest
      <4>4. Told(k) => Told(k)'
        BY <2>1 DEF Told
      <4>5. revealed[k] = secrets[k] => revealed[k] = secrets'[k] \/ Told(k)'
        BY <2>1, <2>2, <3>3 DEF Told, RevealsSafe, RevealsTyped
      <4> QED BY <2>2, <4>1, <4>3, <4>4, <4>5
    <3> QED BY <2>2, <3>1, <3>2, <3>7, <3>8, <3>9 DEF Unmixed
  <2> QED BY <2>3, <2>4 DEF RevealsSafe
<1>10. CASE W!Elsewhere
  <2>1. /\ mixed' <=> mixed \/ opened \/ requests # {}
        /\ UNCHANGED <<opened, typed, passwords, revealed, requests>>
        /\ ~mixed
    BY <1>10 DEF W!Elsewhere, W!window
  <2>2. secrets' = [k \in HostKeys |-> secrets'[k]]
    BY <1>10 DEF W!Elsewhere, RevealsSafe, RevealsTyped
  <2> QED BY <2>1, <2>2 DEF RevealsSafe, RevealsTyped, Unmixed, W!Nothing
<1>11. ASSUME NEW r \in requests, W!ListAnswered(r) PROVE RevealsSafe'
  <2>1. /\ requests' = requests \ {r} /\ passwords' = r.seen /\ r.op = "list" /\ r.served
        /\ UNCHANGED <<secrets, locked, opened, typed, revealed>>
        /\ mixed' <=> mixed /\ ~(requests = {r} /\ opened /\ revealed = W!Nothing
                                 /\ r.seen = [locked |-> locked, keys |-> W!Listed])
    BY <1>11 DEF W!ListAnswered, W!store
  <2>2. RevealsTyped'
    BY <2>1 DEF RevealsSafe, RevealsTyped, IsRequest
  <2>3. ASSUME ~mixed PROVE Unmixed'
    <3>1. Unmixed
      BY <2>3 DEF RevealsSafe
    <3>2. requests = {r} /\ r.seen = [locked |-> locked, keys |-> W!Listed] /\ ~(\E k \in HostKeys : Told(k))
      BY <2>1, <3>1 DEF Unmixed, W!Apart, Holds, Told
    <3> QED BY <2>1, <3>1, <3>2 DEF Unmixed, W!Listed
  <2>4. ASSUME mixed, ~mixed' PROVE Unmixed'
    BY <2>1, <2>4 DEF Unmixed, W!Nothing, W!Listed
  <2> QED BY <2>2, <2>3, <2>4 DEF RevealsSafe
<1>12. ASSUME NEW r \in requests, NEW shows, r.op \in {"lock", "delete"}, r.served,
              W!Sends(W!Fetch, requests \ {r}), UNCHANGED <<W!store, opened, typed, passwords>>,
              revealed' = shows, shows = [k \in HostKeys |-> shows[k]],
              \A k \in HostKeys : shows[k] = 0 \/ (shows[k] = revealed[k] /\ ~(r.op = "delete" /\ r.key = k))
       PROVE  RevealsSafe'
  <2> DEFINE k == CHOOSE k \in HostKeys : TRUE
  <2>1. W!Sends(W!Call("list", k, 0), requests \ {r})
    BY <1>12 DEF W!Fetch
  <2> HIDE DEF k
  <2>2. /\ RevealsTyped'
        /\ ~mixed' => ~mixed /\ requests' = {W!Call("list", k, 0)}
    BY <1>12, <2>1, SendsSafe DEF OfRow
  <2>3. ASSUME ~mixed' PROVE Unmixed'
    <3>1. W!Call("list", k, 0).op = "list" /\ ~W!Call("list", k, 0).served
      BY DEF W!Call
    <3>2. Unmixed /\ opened /\ \A c \in requests : c = r
      BY <1>12, <2>2, <2>3 DEF RevealsSafe, Unmixed, W!Apart
    <3>3. \A j \in HostKeys : revealed'[j] = 0 \/ (~locked' /\ revealed'[j] = secrets'[j])
      BY <1>12, <3>2 DEF Unmixed, Told, W!store
    <3> QED BY <1>12, <2>2, <2>3, <3>1, <3>2, <3>3 DEF Unmixed, Holds, OfRow
  <2> QED BY <2>2, <2>3 DEF RevealsSafe
<1>13. ASSUME NEW r \in requests, W!LockAnswered(r) PROVE RevealsSafe'
  <2>1. ~mixed => revealed = W!Nothing
    BY <1>13 DEF W!LockAnswered, RevealsSafe, Unmixed, Holds
  <2> QED BY <1>12, <1>13 DEF W!LockAnswered, RevealsSafe, RevealsTyped, W!window
<1>14. ASSUME NEW r \in requests, W!DeleteAnswered(r) PROVE RevealsSafe'
  <2>1. PICK shows : shows = [k \in HostKeys |-> IF k = r.key THEN 0 ELSE revealed[k]]
    OBVIOUS
  <2>2. revealed' = shows
    BY <1>14, <2>1 DEF W!DeleteAnswered, RevealsSafe, RevealsTyped
  <2>3. /\ shows = [k \in HostKeys |-> shows[k]]
        /\ \A k \in HostKeys : shows[k] = 0 \/ (shows[k] = revealed[k] /\ ~(r.op = "delete" /\ r.key = k))
    BY <2>1
  <2>4. /\ r.op = "delete" /\ r.served /\ W!Sends(W!Fetch, requests \ {r})
        /\ UNCHANGED <<W!store, opened, typed, passwords>>
    BY <1>14 DEF W!DeleteAnswered
  <2> QED BY <1>12, <2>2, <2>3, <2>4
\* What is shown of a row follows the answer.
<1>15. ASSUME NEW r \in requests, r.op \in OfRow, r.served, requests' = requests \ {r},
              UNCHANGED <<secrets, locked, opened, mixed>>, RevealsTyped',
              \/ passwords' = passwords
              \/ passwords'.keys = r.seen.keys /\ r.op # "change" /\ ~passwords'.locked,
              \A k \in HostKeys : k # r.key => revealed'[k] = revealed[k],
              r.op = "change" => revealed'[r.key] \in {0, r.text},
              r.op # "change" => revealed'[r.key] \in {revealed[r.key], r.text}
       PROVE  RevealsSafe'
  <2>1. ASSUME ~mixed PROVE Unmixed'
    <3>1. Unmixed /\ opened /\ Holds(r) /\ W!Listed' = W!Listed /\ ~locked /\ r.key \in HostKeys
      BY <1>15, <2>1 DEF RevealsSafe, RevealsTyped, IsRequest, Unmixed, W!Listed, Holds, OfRow
    <3>2. \A c \in requests' : Holds(c)' /\ c.key # r.key /\ c.op \in OfRow
      BY <1>15, <3>1 DEF Unmixed, Holds, W!Apart, OfRow
    <3>3. \A c \in requests : c.op \in OfRow
      BY <1>15, <3>2
    <3>4. passwords'.keys = W!Listed' /\ (locked' => passwords'.locked)
      BY <1>15, <3>1, <3>3 DEF Unmixed, Holds, OfRow
    <3>5. ASSUME NEW k \in HostKeys, revealed'[k] # 0
          PROVE  revealed'[k] = secrets'[k] \/ Told(k)'
      <4>1. CASE k # r.key
        BY <1>15, <3>1, <3>5, <4>1 DEF Unmixed, Told
      <4>2. CASE k = r.key
        BY <1>15, <3>1, <3>2, <3>5, <4>2 DEF Unmixed, Told, Holds, OfRow
      <4> QED BY <4>1, <4>2
    <3> QED BY <1>15, <3>1, <3>2, <3>4, <3>5 DEF Unmixed
  <2> QED BY <1>15, <2>1 DEF RevealsSafe
<1>16. ASSUME NEW r \in requests, W!RevealAnswered(r) PROVE RevealsSafe'
  <2>1. /\ requests' = requests \ {r} /\ r.op \in {"reveal", "copy"} /\ r.served
        /\ UNCHANGED <<secrets, locked, opened, mixed>>
        /\ passwords' \in {passwords, [r.seen EXCEPT !.locked = FALSE]}
        /\ revealed' \in {revealed, [revealed EXCEPT ![r.key] = r.text]}
    BY <1>16 DEF W!RevealAnswered, W!store
  <2>0. [r.seen EXCEPT !.locked = FALSE] = [locked |-> FALSE, keys |-> r.seen.keys]
    BY Relisted DEF RevealsSafe, RevealsTyped, IsRequest
  <2>2. IsList([r.seen EXCEPT !.locked = FALSE]) /\ r.key \in HostKeys
        /\ [r.seen EXCEPT !.locked = FALSE].keys = r.seen.keys
        /\ ~[r.seen EXCEPT !.locked = FALSE].locked
    BY <2>0, <2>1 DEF RevealsSafe, RevealsTyped, IsRequest, IsList, OfRow
  <2>3. RevealsTyped'
    BY <2>1, <2>2 DEF RevealsSafe, RevealsTyped
  <2>4. /\ \A k \in HostKeys : k # r.key => revealed'[k] = revealed[k]
        /\ revealed'[r.key] \in {revealed[r.key], r.text}
    BY <2>1, <2>2 DEF RevealsSafe, RevealsTyped
  <2> QED BY <1>15, <2>1, <2>2, <2>3, <2>4 DEF OfRow
<1>17. ASSUME NEW r \in requests, W!ChangeAnswered(r) PROVE RevealsSafe'
  <2>1. /\ requests' = requests \ {r} /\ r.op = "change" /\ r.served /\ r.key \in HostKeys
        /\ UNCHANGED <<secrets, locked, opened, mixed, passwords>>
        /\ revealed' = IF revealed[r.key] = 0 THEN revealed ELSE [revealed EXCEPT ![r.key] = r.text]
    BY <1>17 DEF W!ChangeAnswered, W!store, RevealsSafe, RevealsTyped, IsRequest, OfRow
  <2>2. /\ \A k \in HostKeys : k # r.key => revealed'[k] = revealed[k]
        /\ revealed'[r.key] \in {0, r.text}
    BY <2>1 DEF RevealsSafe, RevealsTyped
  <2>3. RevealsTyped'
    BY <2>1 DEF RevealsSafe, RevealsTyped
  <2> QED BY <1>15, <2>1, <2>2, <2>3 DEF OfRow
<1> QED
  BY <1>1, <1>2, <1>3, <1>5, <1>6, <1>7, <1>8, <1>9, <1>10, <1>11, <1>13, <1>14, <1>16, <1>17
  DEF W!Next

LEMMA RevealsKeep == RevealsSafe => W!PasswordsShown
BY DEF RevealsSafe, Unmixed, Told, W!PasswordsShown, OfRow, W!Nothing

LEMMA RevealsRun == Spec => []RevealsSafe
<1>1. Init => RevealsSafe
  BY RevealsStart DEF Init
<1>2. RevealsSafe /\ [Next]_vars => RevealsSafe'
  <2> SUFFICES ASSUME RevealsSafe, [Next]_vars PROVE RevealsSafe'
    OBVIOUS
  <2>1. W!Next \/ UNCHANGED reveals
    BY DEF Next, vars
  <2>2. CASE W!Next
    BY <2>2, RevealsStep
  <2>3. CASE UNCHANGED reveals
    <3> USE <2>3 DEF reveals
    <3>1. RevealsTyped'
      BY DEF RevealsSafe, RevealsTyped
    <3>2. Unmixed => Unmixed'
      BY SMTT(40) DEF Unmixed, Holds, Told, W!Listed
    <3> QED BY <3>1, <3>2 DEF RevealsSafe
  <2> QED BY <2>1, <2>2, <2>3
<1> QED BY <1>1, <1>2, PTL DEF Spec

-----------------------------------------------------------------------------
(* The tabs, which the instance is proved of.                             *)

Tabs == INSTANCE TabsStore_proofs

LEMMA TabsStart == Init => Tabs!Init
BY Zenon DEF Init, T!Cardinality, T!SetToSeq, T!IsInjective, T!T, T!P, T!Sess, T!Pane, T!Tab,
       T!Restored, T!Started, T!Init, Tabs!Cardinality, Tabs!SetToSeq, Tabs!IsInjective,
       Tabs!T, Tabs!P, Tabs!Sess, Tabs!Pane, Tabs!Tab, Tabs!Restored, Tabs!Started,
       Tabs!Init

\* The instance that the proofs are about has the same actions.
LEMMA TabsActions ==
    /\ T!Open <=> Tabs!Open
    /\ T!OpenHostsAsSplit <=> Tabs!OpenHostsAsSplit
    /\ T!OpenScratchpad <=> Tabs!OpenScratchpad
    /\ T!Clone <=> Tabs!Clone
    /\ T!AttachSession <=> Tabs!AttachSession
    /\ T!Close <=> Tabs!Close
    /\ T!CloseMany <=> Tabs!CloseMany
    /\ T!Hide <=> Tabs!Hide
    /\ T!Move <=> Tabs!Move
    /\ T!Choose <=> Tabs!Choose
    /\ T!Report <=> Tabs!Report
    /\ T!CloseAll <=> Tabs!CloseAll
    /\ \A i : T!ReconnectTab(i) <=> Tabs!ReconnectTab(i)
<1>1. T!Open <=> Tabs!Open
  BY DEF T!ToSet, T!None, T!T, T!P, T!Sess, T!Pane, T!Tab, T!WithPanes, T!TabIds, T!PanesOf,
         T!PaneIds, T!Holds, T!First, T!TabIdx, T!HolderIdx, T!Cleanup, T!SetTabs, T!Focus,
         T!MakesIds, T!Activate, T!AddPane, T!OpenTab, T!OpenHost, T!Running, T!Open,
         Tabs!ToSet, Tabs!None, Tabs!T, Tabs!P, Tabs!Sess, Tabs!Pane, Tabs!Tab,
         Tabs!WithPanes, Tabs!TabIds, Tabs!PanesOf, Tabs!PaneIds, Tabs!Holds, Tabs!First,
         Tabs!TabIdx, Tabs!HolderIdx, Tabs!Cleanup, Tabs!SetTabs, Tabs!Focus, Tabs!MakesIds,
         Tabs!Activate, Tabs!AddPane, Tabs!OpenTab, Tabs!OpenHost, Tabs!Running, Tabs!Open
<1>2. T!OpenHostsAsSplit <=> Tabs!OpenHostsAsSplit
  BY DEF T!ToSet, T!T, T!P, T!Pane, T!Tab, T!TabIds, T!PanesOf, T!PaneIds, T!Cleanup,
         T!SetTabs, T!Focus, T!MakesIds, T!OpenTab, T!OpenHostsAsSplit, Tabs!ToSet, Tabs!T,
         Tabs!P, Tabs!Pane, Tabs!Tab, Tabs!TabIds, Tabs!PanesOf, Tabs!PaneIds, Tabs!Cleanup,
         Tabs!SetTabs, Tabs!Focus, Tabs!MakesIds, Tabs!OpenTab, Tabs!OpenHostsAsSplit
<1>3. T!OpenScratchpad <=> Tabs!OpenScratchpad
  BY DEF T!ToSet, T!SelectInSeq, T!Min, T!X, T!Pane, T!Tab, T!TabIds, T!PanesOf, T!PaneIds,
         T!Cleanup, T!SetTabs, T!Focus, T!Becomes, T!MakesIds, T!OpenTab, T!OpenScratchpad,
         Tabs!ToSet, Tabs!SelectInSeq, Tabs!Min, Tabs!X, Tabs!Pane, Tabs!Tab, Tabs!TabIds,
         Tabs!PanesOf, Tabs!PaneIds, Tabs!Cleanup, Tabs!SetTabs, Tabs!Focus, Tabs!Becomes,
         Tabs!MakesIds, Tabs!OpenTab, Tabs!OpenScratchpad
<1>4. T!Clone <=> Tabs!Clone
  BY DEF T!ToSet, T!T, T!P, T!Pane, T!Tab, T!WithPanes, T!TabIds, T!PanesOf, T!PaneIds,
         T!Holds, T!First, T!TabIdx, T!HolderIdx, T!Cleanup, T!SetTabs, T!Focus, T!MakesIds,
         T!AddPane, T!OpenTab, T!CloneTab, T!CloneSession, T!CloneInSameTab, T!Clone,
         Tabs!ToSet, Tabs!T, Tabs!P, Tabs!Pane, Tabs!Tab, Tabs!WithPanes, Tabs!TabIds,
         Tabs!PanesOf, Tabs!PaneIds, Tabs!Holds, Tabs!First, Tabs!TabIdx, Tabs!HolderIdx,
         Tabs!Cleanup, Tabs!SetTabs, Tabs!Focus, Tabs!MakesIds, Tabs!AddPane, Tabs!OpenTab,
         Tabs!CloneTab, Tabs!CloneSession, Tabs!CloneInSameTab, Tabs!Clone
<1>5. T!AttachSession <=> Tabs!AttachSession
  BY Zenon DEF T!ToSet, T!SelectInSeq, T!Min, T!T, T!P, T!Sess, T!Pane, T!Tab, T!TabIds,
         T!PanesOf, T!PaneIds, T!Cleanup, T!SetTabs, T!Focus, T!Becomes, T!MakesIds,
         T!OpenTab, T!Running, T!Shows, T!AttachSession, Tabs!ToSet, Tabs!SelectInSeq,
         Tabs!Min, Tabs!T, Tabs!P, Tabs!Sess, Tabs!Pane, Tabs!Tab, Tabs!TabIds,
         Tabs!PanesOf, Tabs!PaneIds, Tabs!Cleanup, Tabs!SetTabs, Tabs!Focus, Tabs!Becomes,
         Tabs!MakesIds, Tabs!OpenTab, Tabs!Running, Tabs!Shows, Tabs!AttachSession
<1>6. T!Close <=> Tabs!Close
  BY Zenon DEF T!ToSet, T!RemoveAt, T!Cardinality, T!None, T!WithPanes, T!TabIds, T!PanesOf,
         T!PaneIds, T!Holds, T!First, T!TabIdx, T!HolderIdx, T!PaneIdx, T!Cleanup,
         T!SetTabs, T!Focus, T!Becomes, T!Filtered, T!Drop, T!CloseTab, T!NextPane,
         T!ClosePane, T!CloseTabOrPane, T!Close, Tabs!ToSet, Tabs!RemoveAt,
         Tabs!Cardinality, Tabs!None, Tabs!WithPanes, Tabs!TabIds, Tabs!PanesOf,
         Tabs!PaneIds, Tabs!Holds, Tabs!First, Tabs!TabIdx, Tabs!HolderIdx, Tabs!PaneIdx,
         Tabs!Cleanup, Tabs!SetTabs, Tabs!Focus, Tabs!Becomes, Tabs!Filtered, Tabs!Drop,
         Tabs!CloseTab, Tabs!NextPane, Tabs!ClosePane, Tabs!CloseTabOrPane, Tabs!Close
<1>7. T!CloseMany <=> Tabs!CloseMany
  BY DEF T!ToSet, T!WithPanes, T!TabIds, T!PanesOf, T!PaneIds, T!First, T!TabIdx, T!PaneIdx,
         T!Cleanup, T!SetTabs, T!Focus, T!Becomes, T!CloseOtherTabs, T!CloseOtherPanes,
         T!ActiveClosed, T!CloseSideTabs, T!CloseAll, T!CloseMany, Tabs!ToSet,
         Tabs!WithPanes, Tabs!TabIds, Tabs!PanesOf, Tabs!PaneIds, Tabs!First, Tabs!TabIdx,
         Tabs!PaneIdx, Tabs!Cleanup, Tabs!SetTabs, Tabs!Focus, Tabs!Becomes,
         Tabs!CloseOtherTabs, Tabs!CloseOtherPanes, Tabs!ActiveClosed, Tabs!CloseSideTabs,
         Tabs!CloseAll, Tabs!CloseMany
<1>8. T!Hide <=> Tabs!Hide
  BY DEF T!ToSet, T!Cardinality, T!None, T!TabIds, T!PanesOf, T!PaneIds, T!First, T!TabIdx,
         T!Cleanup, T!SetTabs, T!Focus, T!Filtered, T!Drop, T!HideAsks, T!HideAnswered,
         T!Hide, Tabs!ToSet, Tabs!Cardinality, Tabs!None, Tabs!TabIds, Tabs!PanesOf,
         Tabs!PaneIds, Tabs!First, Tabs!TabIdx, Tabs!Cleanup, Tabs!SetTabs, Tabs!Focus,
         Tabs!Filtered, Tabs!Drop, Tabs!HideAsks, Tabs!HideAnswered, Tabs!Hide
<1>9. T!Move <=> Tabs!Move
  BY DEF T!ToSet, T!RemoveAt, T!InsertAt, T!TabIds, T!PanesOf, T!PaneIds, T!Cleanup,
         T!SetTabs, T!Focus, T!Becomes, T!Reorders, T!Swapped, T!MoveTabLeft,
         T!MoveTabRight, T!MoveTabToFirst, T!MoveTabToLast, T!ReorderTabs, T!Move,
         Tabs!ToSet, Tabs!RemoveAt, Tabs!InsertAt, Tabs!TabIds, Tabs!PanesOf, Tabs!PaneIds,
         Tabs!Cleanup, Tabs!SetTabs, Tabs!Focus, Tabs!Becomes, Tabs!Reorders, Tabs!Swapped,
         Tabs!MoveTabLeft, Tabs!MoveTabRight, Tabs!MoveTabToFirst, Tabs!MoveTabToLast,
         Tabs!ReorderTabs, Tabs!Move
<1>10. T!Choose <=> Tabs!Choose
  BY Zenon DEF T!ToSet, T!TabIds, T!PanesOf, T!PaneIds, T!Holds, T!First, T!TabIdx, T!HolderIdx,
         T!PaneIdx, T!Cleanup, T!SetTabs, T!Focus, T!Becomes, T!Activate, T!SelectTab,
         T!ClickPane, T!FocusPane, T!Swipe, T!Ring, T!CycleTab, T!CyclePane, T!RefocusPane,
         T!Choose, Tabs!ToSet, Tabs!TabIds, Tabs!PanesOf, Tabs!PaneIds, Tabs!Holds,
         Tabs!First, Tabs!TabIdx, Tabs!HolderIdx, Tabs!PaneIdx, Tabs!Cleanup, Tabs!SetTabs,
         Tabs!Focus, Tabs!Becomes, Tabs!Activate, Tabs!SelectTab, Tabs!ClickPane,
         Tabs!FocusPane, Tabs!Swipe, Tabs!Ring, Tabs!CycleTab, Tabs!CyclePane,
         Tabs!RefocusPane, Tabs!Choose
<1>11. T!Report <=> Tabs!Report
  BY Zenon DEF T!ToSet, T!Cardinality, T!P, T!Pane, T!WithPanes, T!TabIds, T!PanesOf, T!PaneIds,
         T!Holds, T!First, T!HolderIdx, T!PaneIdx, T!Cleanup, T!SetTabs, T!Focus, T!Becomes,
         T!Reorders, T!MakesIds, T!Stolen, T!ReconnectPanes, T!ReconnectTab,
         T!ReconnectActive, T!Data, T!ReadActive, T!Report, Tabs!ToSet, Tabs!Cardinality,
         Tabs!P, Tabs!Pane, Tabs!WithPanes, Tabs!TabIds, Tabs!PanesOf, Tabs!PaneIds,
         Tabs!Holds, Tabs!First, Tabs!HolderIdx, Tabs!PaneIdx, Tabs!Cleanup, Tabs!SetTabs,
         Tabs!Focus, Tabs!Becomes, Tabs!Reorders, Tabs!MakesIds, Tabs!Stolen,
         Tabs!ReconnectPanes, Tabs!ReconnectTab, Tabs!ReconnectActive, Tabs!Data,
         Tabs!ReadActive, Tabs!Report
<1>12. T!CloseAll <=> Tabs!CloseAll
  BY DEF T!ToSet, T!TabIds, T!PanesOf, T!PaneIds, T!Cleanup, T!SetTabs, T!Focus, T!Becomes,
         T!CloseAll, Tabs!ToSet, Tabs!TabIds, Tabs!PanesOf, Tabs!PaneIds, Tabs!Cleanup,
         Tabs!SetTabs, Tabs!Focus, Tabs!Becomes, Tabs!CloseAll
<1>13. ASSUME NEW i PROVE T!ReconnectTab(i) <=> Tabs!ReconnectTab(i)
  BY DEF T!ToSet, T!Cardinality, T!P, T!Pane, T!WithPanes, T!TabIds, T!PanesOf, T!PaneIds,
         T!Cleanup, T!SetTabs, T!Focus, T!MakesIds, T!ReconnectPanes, T!ReconnectTab,
         Tabs!ToSet, Tabs!Cardinality, Tabs!P, Tabs!Pane, Tabs!WithPanes, Tabs!TabIds,
         Tabs!PanesOf, Tabs!PaneIds, Tabs!Cleanup, Tabs!SetTabs, Tabs!Focus, Tabs!MakesIds,
         Tabs!ReconnectPanes, Tabs!ReconnectTab
<1> QED BY <1>1, <1>2, <1>3, <1>4, <1>5, <1>6, <1>7, <1>8, <1>9, <1>10, <1>11, <1>12, <1>13

LEMMA TabsStep == T!Next => Tabs!Next
BY TabsActions DEF T!Next, Tabs!Next

LEMMA TabsRun == Spec => Tabs!Spec
<1>1. [Next]_vars => T!Next \/ UNCHANGED panes
  BY DEF Next, vars
<1>2. UNCHANGED panes => UNCHANGED Tabs!vars
  BY DEF panes, Tabs!vars
<1>3. [Next]_vars => [Tabs!Next]_(Tabs!vars)
  BY <1>1, <1>2, TabsStep
<1> QED
  BY <1>3, TabsStart, PTL DEF Spec, Tabs!Spec

LEMMA SameTabs == Tabs!TabsConsistent /\ Tabs!BroadcastAim => TabsConsistent
BY Zenon DEF TabsConsistent, T!ToSet, T!SelectInSeq, T!Min, T!TabIds, T!PanesOf, T!PaneIds,
       T!Holds, T!BroadcastTargets, T!Distinct, T!TabsWhole, T!TabsConsistent,
       T!BroadcastAim, Tabs!ToSet, Tabs!SelectInSeq, Tabs!Min, Tabs!TabIds, Tabs!PanesOf,
       Tabs!PaneIds, Tabs!Holds, Tabs!BroadcastTargets, Tabs!Distinct, Tabs!TabsWhole,
       Tabs!TabsConsistent, Tabs!BroadcastAim

LEMMA TabsSized == Tabs!Sized
<1>1. Tabs!IsFiniteSet(Pinned)
  BY PanesSized DEF IsFiniteSet, Tabs!IsFiniteSet
<1> QED BY <1>1, PanesSized DEF Tabs!Sized

\* Through every sequence of opening, splitting, closing, hiding, moving and reconnecting
\* each tab has a pane that is active and ids that no other has, nothing is kept for what
\* is gone, and input that is broadcast stays in its tab (store.ts, setTabs and
\* getBroadcastTargetPaneIds).
THEOREM TabsAreConsistent == Spec => []TabsConsistent
BY TabsRun, TabsSized, SameTabs, Tabs!TabsAreConsistent, PTL

\* What is said of a step is said of the same panes and tabs.
LEMMA SameSteps == Tabs!KeepsFocus /\ Tabs!KeepsPanes => T!KeepsFocus /\ T!KeepsPanes
<1>1. T!Focused => Tabs!Focused
  BY DEF T!ToSet, T!None, T!Focused, Tabs!ToSet, Tabs!None, Tabs!Focused
<1>2. Tabs!Focused' => T!Focused'
  BY DEF T!ToSet, T!None, T!Focused, Tabs!ToSet, Tabs!None, Tabs!Focused
<1>3. Tabs!Drifts => T!Drifts
  BY TabsActions DEF T!Drifts, Tabs!Drifts
<1>4. Tabs!KeepsFocus => T!KeepsFocus
  BY <1>1, <1>2, <1>3 DEF T!KeepsFocus, Tabs!KeepsFocus
<1>5. Tabs!Removing => T!Removing
  BY TabsActions DEF T!Removing, Tabs!Removing
<1>6. Tabs!KeepsPanes => T!KeepsPanes
  BY <1>5 DEF T!KeepsPanes, Tabs!KeepsPanes, T!ToSet, T!PanesOf, T!PaneIds, Tabs!ToSet,
         Tabs!PanesOf, Tabs!PaneIds
<1> QED BY <1>4, <1>6

\* Input goes on to the pane that is seen, and panes go only when they are closed, hidden
\* or renewed, whatever was opened, moved or chosen before (store.ts).
THEOREM TabStepsKeep == Spec => TabSteps
<1>1. [Tabs!KeepsFocus /\ Tabs!KeepsPanes]_(Tabs!vars)
        => [part = "tabs" => T!KeepsFocus /\ T!KeepsPanes]_panes
  BY SameSteps DEF panes, Tabs!vars
<1> QED BY <1>1, TabsRun, TabsSized, Tabs!TabStepsKeep, PTL DEF TabSteps

-----------------------------------------------------------------------------
(* The saved passwords.                                                    *)

Machines == INSTANCE BrowserParts_proofs

LEMMA PasswordsInit == Init => Machines!P!Init
BY DEF Init, P!Init, Machines!P!Init

LEMMA PasswordsNext == [Next]_vars => [Machines!P!Next]_(Machines!P!vars)
<1>1. [Next]_vars => P!Next \/ UNCHANGED secret
  BY DEF Next, vars
<1>2. CASE P!Next
  BY <1>2, Zenon
  DEF P!Next, P!Unlock, P!SavedByTerminal, P!SavedByDialog, P!Delete, P!Lock, P!UseKeyring,
      P!LeaveKeyring, P!Begin, P!ChangeAppPassword, P!LoginFirst, P!Goes, P!Ends, P!ChangeFile,
      P!ChangeConfig, P!ChangeTrusted, P!ChangeKeyring, P!Starts, P!Restart, P!ResetAppPassword,
      P!Save, P!IsEmpty, P!SetEncryptionKey, P!RemoveFile, P!DeleteEmptyFile, P!Reencrypt,
      P!Meets, P!Entry, P!Steps, P!Change, P!file, P!config, P!Cardinality,
      Machines!P!Next, Machines!P!Unlock, Machines!P!SavedByTerminal, Machines!P!SavedByDialog,
      Machines!P!Delete, Machines!P!Lock, Machines!P!UseKeyring, Machines!P!LeaveKeyring,
      Machines!P!Begin, Machines!P!ChangeAppPassword, Machines!P!LoginFirst, Machines!P!Goes,
      Machines!P!Ends, Machines!P!ChangeFile, Machines!P!ChangeConfig, Machines!P!ChangeTrusted,
      Machines!P!ChangeKeyring, Machines!P!Starts, Machines!P!Restart, Machines!P!ResetAppPassword,
      Machines!P!Save, Machines!P!IsEmpty, Machines!P!SetEncryptionKey, Machines!P!RemoveFile,
      Machines!P!DeleteEmptyFile, Machines!P!Reencrypt, Machines!P!Meets, Machines!P!Entry,
      Machines!P!Steps, Machines!P!Change, Machines!P!file, Machines!P!config,
      Machines!P!Cardinality
<1>3. CASE UNCHANGED secret
  BY <1>3 DEF secret, Machines!P!vars
<1> QED
  BY <1>1, <1>2, <1>3

LEMMA PasswordsRun == Spec => Machines!P!Spec
BY PasswordsInit, PasswordsNext, PTL DEF Spec, Machines!P!Spec

LEMMA SamePasswords == Machines!P!PasswordsSafe => P!PasswordsSafe
BY DEF P!PasswordsSafe, P!Sealed, P!Openable,
       Machines!P!PasswordsSafe, Machines!P!Sealed, Machines!P!Openable

\* What is saved can be opened by the key of its file, outside a change that failed or
\* was overtaken the app password opens the file, and the tab of the settings shows what
\* is saved (passstore.go, app.go, Sidebar.tsx).
THEOREM StoreIsSafe == Spec => []PasswordsSafe
BY PasswordsRun, Machines!StoreIsSafe, SamePasswords, RevealsRun, RevealsKeep, PTL
DEF PasswordsSafe

-----------------------------------------------------------------------------
(* The buttons.                                                            *)

\* The definitions of the instance that the proofs are about say the same.
LEMMA PlacesSame ==
    /\ \A s, id : B!Place(s, id) = Machines!Place(s, id)
    /\ \A s, id : B!RemoveFirst(s, id) = Machines!RemoveFirst(s, id)
    /\ \A s, i, e : B!InsertAt(s, i, e) = Machines!InsertAt(s, i, e)
<1>1. \A s, id : B!Place(s, id) = Machines!Place(s, id)
  BY DEF B!Place, B!SelectInSeq, B!Min, Machines!Place, Machines!SelectInSeq, Machines!Min
<1>2. \A s, id : B!RemoveFirst(s, id) = Machines!RemoveFirst(s, id)
  BY DEF B!RemoveFirst, B!RemoveAt, B!SelectInSeq, B!Min, Machines!RemoveFirst,
       Machines!RemoveAt, Machines!SelectInSeq, Machines!Min
<1>3. \A s, i, e : B!InsertAt(s, i, e) = Machines!InsertAt(s, i, e)
  BY DEF B!InsertAt, Machines!InsertAt
<1> QED BY <1>1, <1>2, <1>3

LEMMA ListsSame ==
    /\ \A list, ids : B!Sorted(list, ids) = Machines!Sorted(list, ids)
    /\ \A list, g : B!Shown(list, g) = Machines!Shown(list, g)
    /\ \A list, g : B!InGroup(list, g) = Machines!InGroup(list, g)
    /\ \A list, lst : B!Forced(list, lst) = Machines!Forced(list, lst)
<1>1. \A list, ids : B!Sorted(list, ids) = Machines!Sorted(list, ids)
  BY DEF B!Sorted, B!Rank, B!Before, B!Cardinality, Machines!Sorted, Machines!Rank,
       Machines!Before, Machines!Cardinality
<1>2. \A list, g : B!InGroup(list, g) = Machines!InGroup(list, g)
  BY DEF B!InGroup, Machines!InGroup
<1>3. \A list, g : B!Shown(list, g) = Machines!Shown(list, g)
  BY <1>1, <1>2, Zenon DEF B!Shown, Machines!Shown
<1>4. \A list, lst : B!Forced(list, lst) = Machines!Forced(list, lst)
  BY DEF B!Forced, Machines!Forced
<1> QED BY <1>1, <1>2, <1>3, <1>4

LEMMA MovedSame ==
    ASSUME NEW list, NEW id, NEW d, NEW now
    PROVE  B!Moved(list, id, d, now) = Machines!Moved(list, id, d, now)
<1>1. \A new, s : B!Resequenced(new, s, now) = Machines!Resequenced(new, s, now)
  BY PlacesSame DEF B!Resequenced, Machines!Resequenced
<1>2. PICK group : group = Machines!Shown(list, list[id].group)
  OBVIOUS
<1>3. PICK place : place = Machines!Place(group, id) + d
  OBVIOUS
<1>4. PICK rest : rest = Machines!RemoveFirst(Machines!Sorted(list, DOMAIN list), id)
  OBVIOUS
<1>5. PICK target : target = Machines!Place(rest, group[place])
  OBVIOUS
<1>6. PICK seq : seq = Machines!InsertAt(rest, IF d > 0 THEN target + 1 ELSE target, id)
  OBVIOUS
<1>7. PICK new : new = [list EXCEPT ![id].order = list[group[place]].order + d,
                                    ![id].mtime = now]
  OBVIOUS
<1> DEFINE Equal == \E i, j \in DOMAIN new : i # j /\ new[i].order = new[j].order
<1>8. Machines!Moved(list, id, d, now) =
        IF place \notin DOMAIN group THEN list
        ELSE IF Equal THEN Machines!Resequenced(new, seq, now) ELSE new
  BY <1>2, <1>3, <1>4, <1>5, <1>6, <1>7 DEF Machines!Moved
<1>9. /\ group = B!Shown(list, list[id].group) /\ place = B!Place(group, id) + d
      /\ rest = B!RemoveFirst(B!Sorted(list, DOMAIN list), id)
      /\ target = B!Place(rest, group[place])
      /\ seq = B!InsertAt(rest, IF d > 0 THEN target + 1 ELSE target, id)
  BY <1>2, <1>3, <1>4, <1>5, <1>6, PlacesSame, ListsSame, Zenon
<1>10. B!Moved(list, id, d, now) =
        IF place \notin DOMAIN group THEN list
        ELSE IF Equal THEN B!Resequenced(new, seq, now) ELSE new
  BY <1>7, <1>9 DEF B!Moved
<1> QED BY <1>1, <1>8, <1>10

LEMMA HandledSame ==
    ASSUME NEW c
    PROVE  B!Handled(c) <=> Machines!Handled(c)
<1>1. \A list, id, b, now : B!Upserted(list, id, b, now) = Machines!Upserted(list, id, b, now)
  BY DEF B!Upserted, B!Put, B!MaxOrder, Machines!Upserted, Machines!Put, Machines!MaxOrder
<1>2. \A list, id : B!Without(list, id) = Machines!Without(list, id)
  BY DEF B!Without, Machines!Without
<1>3. B!Done(c) = Machines!Done(c)
  BY <1>1, <1>2, MovedSame, ListsSame, Zenon DEF B!Done, Machines!Done
<1> QED BY <1>3 DEF B!Handled, B!Others, Machines!Handled, Machines!Others

LEMMA ListsStart == Init => Machines!Init
<1> SUFFICES ASSUME B!Init PROVE Machines!Init
  BY DEF Init
<1> QED
  BY PlacesSame DEF B!Init, B!BoundedSeq, B!SeqOf, B!IsInjective, B!ToSet, Machines!Init,
       Machines!BoundedSeq, Machines!SeqOf, Machines!IsInjective, Machines!ToSet

LEMMA ListsNext == [Next]_vars => [Machines!Next]_(Machines!vars)
<1>1. \A w, c : B!Calling(w, c) <=> Machines!Calling(w, c)
  BY DEF B!Calling, Machines!Calling
<1>2. ASSUME NEW w PROVE B!SaveButton(w) <=> Machines!SaveButton(w)
  <2>1. B!Proposed(view[w]) = Machines!Proposed(view[w])
    BY DEF B!Proposed, B!Max, Machines!Proposed, Machines!Max
  <2> QED BY <1>1, <2>1 DEF B!SaveButton, B!Fresh, Machines!SaveButton, Machines!Fresh
<1>3. ASSUME NEW w PROVE B!DeleteButton(w) <=> Machines!DeleteButton(w)
  BY <1>1 DEF B!DeleteButton, Machines!DeleteButton
<1>4. ASSUME NEW w PROVE B!MoveButton(w) <=> Machines!MoveButton(w)
  BY <1>1 DEF B!MoveButton, Machines!MoveButton
<1>5. ASSUME NEW w PROVE B!ReorderButtons(w) <=> Machines!ReorderButtons(w)
  <2>1. \A list, s : B!Renumbered(list, s) = Machines!Renumbered(list, s)
    BY PlacesSame DEF B!Renumbered, B!ToSet, Machines!Renumbered, Machines!ToSet
  <2> QED BY <1>1, <2>1, PlacesSame, ListsSame DEF B!ReorderButtons, Machines!ReorderButtons
<1>6. ASSUME NEW c PROVE (B!Failed(c) <=> Machines!Failed(c)) /\ (B!Got(c) <=> Machines!Got(c))
  BY DEF B!Failed, B!Got, Machines!Failed, Machines!Got
<1>7. ASSUME NEW w PROVE B!RefreshData(w) <=> Machines!RefreshData(w)
  BY DEF B!RefreshData, Machines!RefreshData
<1>8. B!Next => Machines!Next
  BY <1>2, <1>3, <1>4, <1>5, <1>6, <1>7, HandledSame DEF B!Next, Machines!Next
<1>9. [Next]_vars => B!Next \/ UNCHANGED buttons
  BY DEF Next, vars
<1> QED BY <1>8, <1>9 DEF buttons, Machines!vars

LEMMA ListsRun == Spec => Machines!Spec
BY ListsStart, ListsNext, PTL DEF Spec, Machines!Spec

LEMMA SameChanges ==
    /\ Machines!MoveAlone => B!MoveAlone
    /\ Machines!NewLast => B!NewLast
    /\ Machines!StampedUnlessEdited => B!StampedUnlessEdited
<1>1. \A list, g : B!Shown(list, g) = Machines!Shown(list, g)
  BY ListsSame
<1>2. \A s, id : B!Place(s, id) = Machines!Place(s, id)
  BY PlacesSame
<1>3. \A g : B!Shown(server', g) = Machines!Shown(server', g)
  BY <1>1
<1>4. Machines!MoveAlone => B!MoveAlone
  BY <1>1, <1>2, <1>3, HandledSame, Zenon DEF B!MoveAlone, Machines!MoveAlone
<1>5. Machines!NewLast => B!NewLast
  BY <1>3, HandledSame DEF B!NewLast, B!Last, Machines!NewLast, Machines!Last
<1>6. Machines!StampedUnlessEdited => B!StampedUnlessEdited
  BY DEF B!StampedUnlessEdited, B!Changed, Machines!StampedUnlessEdited, Machines!Changed
<1> QED BY <1>4, <1>5, <1>6

\* Up and down move one button by one place; a new button comes last, unless a window
\* that was behind proposed its order; and a change gives a newer time, but for an edit
\* that carries the time of its form and a drag in a window that was behind
\* (config.go, store.ts).
THEOREM ListChangesHold == Spec => ListChanges
<1>1. Machines!Numbered
  BY ButtonsNumbered DEF Machines!Numbered
<1>2. Machines!Spec => Machines!ListChanges
  BY <1>1, Machines!ListChangesHold
<1>3. [Machines!MoveAlone /\ Machines!NewLast /\ Machines!StampedUnlessEdited]_(Machines!vars)
      => [B!MoveAlone /\ B!NewLast /\ B!StampedUnlessEdited]_(B!vars)
  BY SameChanges DEF B!vars, Machines!vars
<1> QED BY <1>2, <1>3, ListsRun, PTL DEF ListChanges, B!ListChanges, Machines!ListChanges

-----------------------------------------------------------------------------
(* Mark mode.                                                              *)

\* The definitions of the instance that the proofs are about say the same.
LEMMA CellsSame ==
    /\ \A r, c : M!Pos(r, c) = Machines!M!Pos(r, c)
    /\ \A p : M!Row(p) = Machines!M!Row(p) /\ M!Col(p) = Machines!M!Col(p)
    /\ \A b : M!CellsOf(b) = Machines!M!CellsOf(b)
    /\ M!Cells = Machines!M!Cells /\ M!LastCell = Machines!M!LastCell
    /\ \A p : M!Char(p) = Machines!M!Char(p)
    /\ \A p : M!Above(p) = Machines!M!Above(p) /\ M!Below(p) = Machines!M!Below(p)
    /\ \A set : M!Min(set) = Machines!M!Min(set) /\ M!Max(set) = Machines!M!Max(set)
    /\ \A n, lo, hi : M!Within(n, lo, hi) = Machines!M!Within(n, lo, hi)
<1>1. \A r, c : M!Pos(r, c) = Machines!M!Pos(r, c)
  BY DEF M!Pos, Machines!M!Pos
<1>2. \A p : M!Row(p) = Machines!M!Row(p) /\ M!Col(p) = Machines!M!Col(p)
  BY DEF M!Row, M!Col, Machines!M!Row, Machines!M!Col
<1>3. \A b : M!CellsOf(b) = Machines!M!CellsOf(b)
  BY <1>1 DEF M!CellsOf, Machines!M!CellsOf
<1>4. \A set : M!Min(set) = Machines!M!Min(set) /\ M!Max(set) = Machines!M!Max(set)
  BY DEF M!Min, M!Max, Machines!M!Min, Machines!M!Max
<1>5. M!Cells = Machines!M!Cells /\ M!LastCell = Machines!M!LastCell
  BY <1>3, <1>4, Zenon DEF M!Cells, M!LastCell, Machines!M!Cells, Machines!M!LastCell
<1>6. \A p : M!Char(p) = Machines!M!Char(p)
  BY <1>2, Zenon DEF M!Char, Machines!M!Char
<1>7. \A p : M!Above(p) = Machines!M!Above(p) /\ M!Below(p) = Machines!M!Below(p)
  BY <1>5 DEF M!Above, M!Below, Machines!M!Above, Machines!M!Below
<1>8. \A n, lo, hi : M!Within(n, lo, hi) = Machines!M!Within(n, lo, hi)
  BY DEF M!Within, Machines!M!Within
<1> QED BY <1>1, <1>2, <1>3, <1>4, <1>5, <1>6, <1>7, <1>8

LEMMA WordsSame ==
    /\ \A p, big : M!Class(p, big) = Machines!M!Class(p, big)
    /\ \A p, big : M!White(p, big) <=> Machines!M!White(p, big)
    /\ \A p, big : M!NextWord(p, big) = Machines!M!NextWord(p, big)
    /\ \A p, big : M!PrevWord(p, big) = Machines!M!PrevWord(p, big)
    /\ \A p, big : M!EndOfWord(p, big) = Machines!M!EndOfWord(p, big)
<1>1. \A p, big : M!Class(p, big) = Machines!M!Class(p, big)
  BY CellsSame, Zenon DEF M!Class, Machines!M!Class
<1>2. \A p, big : M!White(p, big) <=> Machines!M!White(p, big)
  BY <1>1, Zenon DEF M!White, Machines!M!White
<1>3. \A set, p, big : M!PastRun(set, p, big) = Machines!M!PastRun(set, p, big)
  BY <1>1 DEF M!PastRun, Machines!M!PastRun
<1>4. \A p, big : M!NextWord(p, big) = Machines!M!NextWord(p, big)
  BY <1>2, <1>3, CellsSame DEF M!NextWord, Machines!M!NextWord
<1>5. \A p, big : M!PrevWord(p, big) = Machines!M!PrevWord(p, big)
  BY <1>1, <1>2, CellsSame DEF M!PrevWord, Machines!M!PrevWord
<1>6. \A p, big : M!EndOfWord(p, big) = Machines!M!EndOfWord(p, big)
  BY <1>1, <1>2, CellsSame DEF M!EndOfWord, Machines!M!EndOfWord
<1> QED BY <1>1, <1>2, <1>4, <1>5, <1>6

LEMMA BoundariesSame ==
    /\ \A p : M!NextBoundary(p) = Machines!M!NextBoundary(p)
    /\ \A p : M!PrevBoundary(p) = Machines!M!PrevBoundary(p)
<1>1. \A p : M!Space(p) <=> Machines!M!Space(p)
  BY CellsSame, Zenon DEF M!Space, Machines!M!Space
<1>2. \A p : M!Space(p) = Machines!M!Space(p)
  BY <1>1 DEF M!Space, Machines!M!Space
<1>3. \A p, space : M!Stretch(p, space) = Machines!M!Stretch(p, space)
  BY <1>2, CellsSame DEF M!Stretch, Machines!M!Stretch
<1>4. \A p, space : M!StretchBack(p, space) = Machines!M!StretchBack(p, space)
  BY <1>2, CellsSame DEF M!StretchBack, Machines!M!StretchBack
<1>5. \A p : M!NextBoundary(p) = Machines!M!NextBoundary(p)
  BY <1>2, <1>3, CellsSame DEF M!NextBoundary, Machines!M!NextBoundary
<1>6. \A p : M!PrevBoundary(p) = Machines!M!PrevBoundary(p)
  BY <1>2, <1>4, CellsSame DEF M!PrevBoundary, Machines!M!PrevBoundary
<1> QED BY <1>5, <1>6

LEMMA MarkedSame == \A b, p, q : M!Marked(b, p, q) = Machines!M!Marked(b, p, q)
<1>1. \A p : M!Count(p) = Machines!M!Count(p)
  BY CellsSame, Zenon DEF M!Count, Machines!M!Count
<1> QED BY <1>1, CellsSame DEF M!Marked, Machines!M!Marked

LEMMA RowsSame == M!RowTexts = Machines!M!RowTexts
BY DEF M!RowTexts, Machines!M!RowTexts

LEMMA KeysSame == M!Key <=> Machines!M!Key
<1>1. \A c, r, extend : M!SetCursor(c, r, extend) <=> Machines!M!SetCursor(c, r, extend)
  BY CellsSame, MarkedSame, Zenon DEF M!SetCursor, Machines!M!SetCursor
<1>2. \A p, extend : M!Goto(p, extend) <=> Machines!M!Goto(p, extend)
  BY <1>1, CellsSame, Zenon DEF M!Goto, Machines!M!Goto
<1>3. \A d, extend : M!MoveAside(d, extend) <=> Machines!M!MoveAside(d, extend)
  BY <1>1, CellsSame, Zenon DEF M!MoveAside, Machines!M!MoveAside
<1>4. \A extend : M!MoveLines(extend) <=> Machines!M!MoveLines(extend)
  BY <1>1, CellsSame, Zenon DEF M!MoveLines, M!Lines, Machines!M!MoveLines, Machines!M!Lines
<1>5. \A extend : M!MoveLine(extend) <=> Machines!M!MoveLine(extend)
  BY <1>1, CellsSame, Zenon DEF M!MoveLine, Machines!M!MoveLine
<1>6. \A extend : M!MoveBuffer(extend) <=> Machines!M!MoveBuffer(extend)
  BY <1>1, Zenon DEF M!MoveBuffer, Machines!M!MoveBuffer
<1>7. \A extend : M!MoveWord(extend) <=> Machines!M!MoveWord(extend)
  BY <1>2, WordsSame, Zenon DEF M!MoveWord, Machines!M!MoveWord
<1>8. \A extend : M!MoveUntilSpace(extend) <=> Machines!M!MoveUntilSpace(extend)
  BY <1>2, BoundariesSame, Zenon DEF M!MoveUntilSpace, Machines!M!MoveUntilSpace
<1>9. M!ToggleVisual <=> Machines!M!ToggleVisual
  BY <1>2, CellsSame, Zenon DEF M!ToggleVisual, Machines!M!ToggleVisual
<1>10. M!SelectAll <=> Machines!M!SelectAll
  BY CellsSame, Zenon DEF M!SelectAll, Machines!M!SelectAll
<1>11. (M!CopyAndExit <=> Machines!M!CopyAndExit) /\ (M!Exit <=> Machines!M!Exit)
  BY Zenon DEF M!CopyAndExit, M!Exit, M!Off, Machines!M!CopyAndExit, Machines!M!Exit,
               Machines!M!Off
<1> QED BY <1>3, <1>4, <1>5, <1>6, <1>7, <1>8, <1>9, <1>10, <1>11, Zenon
           DEF M!Key, Machines!M!Key

LEMMA MarksStart == Init => Machines!M!Init
<1>1. Init => M!Init
  BY DEF Init
<1> QED BY <1>1, RowsSame, Zenon DEF M!Init, Machines!M!Init

LEMMA MarksNext == [Next]_vars => [Machines!M!Next]_(Machines!M!vars)
<1>1. \A rest : M!OnBufferChange(rest) <=> Machines!M!OnBufferChange(rest)
  BY CellsSame, MarkedSame, Zenon
     DEF M!OnBufferChange, M!Off, Machines!M!OnBufferChange, Machines!M!Off
<1>2. \A n : M!Trimmed(n) = Machines!M!Trimmed(n)
  BY CellsSame DEF M!Trimmed, Machines!M!Trimmed
<1>3. M!Copied <=> Machines!M!Copied
  BY Zenon DEF M!Copied, M!Off, Machines!M!Copied, Machines!M!Off
<1>4. M!Enter <=> Machines!M!Enter
  BY CellsSame, Zenon DEF M!Enter, Machines!M!Enter
<1>5. M!Drag <=> Machines!M!Drag
  BY CellsSame, MarkedSame, Zenon DEF M!Drag, Machines!M!Drag
<1>6. M!Deselect <=> Machines!M!Deselect
  BY Zenon DEF M!Deselect, Machines!M!Deselect
<1>7. M!Output <=> Machines!M!Output
  BY <1>1, <1>2, RowsSame, Zenon DEF M!Output, Machines!M!Output
<1>8. M!Erase <=> Machines!M!Erase
  BY <1>1, <1>2, Zenon DEF M!Erase, Machines!M!Erase
<1>9. M!Next => Machines!M!Next
  BY <1>3, <1>4, <1>5, <1>6, <1>7, <1>8, KeysSame, Zenon DEF M!Next, Machines!M!Next
<1>10. [Next]_vars => M!Next \/ UNCHANGED marking
  BY DEF Next, vars
<1> QED BY <1>9, <1>10 DEF marking, Machines!M!vars

LEMMA MarksRun == Spec => Machines!M!Spec
BY MarksStart, MarksNext, PTL DEF Spec, Machines!M!Spec

LEMMA SameMarks == Machines!M!MarkSafe => M!MarkSafe
<1>1. Machines!M!InBuffer => M!InBuffer
  BY CellsSame, Zenon DEF M!InBuffer, Machines!M!InBuffer
<1>2. Machines!M!SelectsTheMark => M!SelectsTheMark
  BY CellsSame DEF M!SelectsTheMark, Machines!M!SelectsTheMark
<1>3. \A big : M!Starts(big) = Machines!M!Starts(big) /\ M!Ends(big) = Machines!M!Ends(big)
  BY CellsSame, WordsSame DEF M!Starts, M!Ends, Machines!M!Starts, Machines!M!Ends
<1>4. Machines!M!WordsAgree => M!WordsAgree
  BY <1>3, CellsSame, WordsSame, Zenon DEF M!WordsAgree, Machines!M!WordsAgree
<1>5. Machines!M!BoundariesAdvance => M!BoundariesAdvance
  BY CellsSame, BoundariesSame, Zenon DEF M!BoundariesAdvance, Machines!M!BoundariesAdvance
<1> QED BY <1>1, <1>2, <1>4, <1>5, CellsSame, Zenon DEF M!MarkSafe, Machines!M!MarkSafe

\* Mark mode marks what it shows, and its keys get where they should (markMode.ts).
THEOREM TerminalIsSafe == Spec => []TerminalSafe
<1>1. Machines!Sized
  BY ScreenSized DEF Machines!Sized
<1>2. Machines!M!Spec => []Machines!M!MarkSafe
  BY <1>1, Machines!MarkHolds
<1> QED BY <1>2, MarksRun, SameMarks, PTL DEF TerminalSafe

-----------------------------------------------------------------------------
(* The dialog of a new tab.                                                *)

LEMMA TextsSame ==
    /\ \A s : D!ToSet(s) = Machines!D!ToSet(s)
    /\ \A s, set : D!Filtered(s, set) = Machines!D!Filtered(s, set)
    /\ \A f, t : D!Has(f, t) <=> Machines!D!Has(f, t)
    /\ \A f, t : D!Cut(f, t) = Machines!D!Cut(f, t)
    /\ \A f : D!Parse(f) = Machines!D!Parse(f)
    /\ D!Prefix = Machines!D!Prefix /\ D!Modes = Machines!D!Modes
    /\ D!Marks = Machines!D!Marks /\ D!Tokens = Machines!D!Tokens
<1>1. \A s : D!ToSet(s) = Machines!D!ToSet(s)
  BY DEF D!ToSet, Machines!D!ToSet
<1>2. \A s, set : D!Filtered(s, set) = Machines!D!Filtered(s, set)
  BY DEF D!Filtered, D!Cardinality, Machines!D!Filtered, Machines!D!Cardinality
<1>3. \A f, t : D!Has(f, t) <=> Machines!D!Has(f, t)
  BY <1>1, Zenon DEF D!Has, Machines!D!Has
<1>4. \A f, t : D!Cut(f, t) = Machines!D!Cut(f, t)
  BY DEF D!Cut, D!Has, D!ToSet, D!SelectInSeq, D!Min, Machines!D!Cut, Machines!D!Has,
         Machines!D!ToSet, Machines!D!SelectInSeq, Machines!D!Min
<1>5. \A t : D!ModeOf(t) = Machines!D!ModeOf(t)
  BY DEF D!ModeOf, Machines!D!ModeOf
<1>6. \A f : D!Parse(f) = Machines!D!Parse(f)
  BY <1>3, <1>5, Zenon DEF D!Parse, Machines!D!Parse
<1>7. /\ D!Prefix = Machines!D!Prefix /\ D!Modes = Machines!D!Modes
      /\ D!Marks = Machines!D!Marks /\ D!Tokens = Machines!D!Tokens
  BY DEF D!Prefix, D!Modes, D!Marks, D!Tokens, Machines!D!Prefix, Machines!D!Modes,
         Machines!D!Marks, Machines!D!Tokens
<1> QED BY <1>1, <1>2, <1>3, <1>4, <1>6, <1>7

LEMMA TurnsSame ==
    /\ D!Mode = Machines!D!Mode /\ D!Text = Machines!D!Text
    /\ \A m, back : D!Neighbour(m, back) = Machines!D!Neighbour(m, back)
    /\ \A f, m, reset : D!Changed(f, m, reset) = Machines!D!Changed(f, m, reset)
<1>1. D!Mode = Machines!D!Mode /\ D!Text = Machines!D!Text
  BY TextsSame, Zenon DEF D!Mode, D!Text, Machines!D!Mode, Machines!D!Text
<1>2. \A m, back : D!Neighbour(m, back) = Machines!D!Neighbour(m, back)
  BY DEF D!Neighbour, D!Modes, D!SelectInSeq, D!Min, Machines!D!Neighbour, Machines!D!Modes,
         Machines!D!SelectInSeq, Machines!D!Min
<1>3. \A f, m, reset : D!Changed(f, m, reset) = Machines!D!Changed(f, m, reset)
  BY TextsSame, Zenon DEF D!Changed, Machines!D!Changed
<1> QED BY <1>1, <1>2, <1>3

LEMMA ShownTheSame ==
    /\ \A v : D!Matches(v) <=> Machines!D!Matches(v)
    /\ D!RecentTypes = Machines!D!RecentTypes /\ D!There = Machines!D!There
    /\ D!UserButtons = Machines!D!UserButtons
    /\ D!Shown = Machines!D!Shown
<1>1. \A v : D!Matches(v) <=> Machines!D!Matches(v)
  BY TurnsSame, Zenon DEF D!Matches, D!Matching, Machines!D!Matches, Machines!D!Matching
<1>2. \A values : D!Matched(values) = Machines!D!Matched(values)
  BY <1>1, TextsSame DEF D!Matched, Machines!D!Matched
<1>3. \A type, values : D!Items(type, values) = Machines!D!Items(type, values)
  BY DEF D!Items, D!Item, Machines!D!Items, Machines!D!Item
<1>4. D!Item("direct", "w") = Machines!D!Item("direct", "w")
  BY DEF D!Item, Machines!D!Item
<1>5. \A set : D!Known(set) = Machines!D!Known(set)
  BY <1>2, TextsSame, Zenon DEF D!Known, Machines!D!Known
<1>6. D!Servers = Machines!D!Servers
  BY <1>2, <1>3, <1>4, <1>5, TurnsSame, Zenon
     DEF D!Servers, D!Favourite, D!Auto, Machines!D!Servers, Machines!D!Favourite,
         Machines!D!Auto
<1>7. /\ D!RecentTypes = Machines!D!RecentTypes /\ D!There = Machines!D!There
      /\ D!UserButtons = Machines!D!UserButtons /\ D!ActiveGroup = Machines!D!ActiveGroup
      /\ D!Shortcuts = Machines!D!Shortcuts /\ D!Builtin = Machines!D!Builtin
  BY DEF D!RecentTypes, D!There, D!ToSet, D!UserButtons, D!ActiveGroup, D!Shortcuts, D!Builtin,
         Machines!D!RecentTypes, Machines!D!There, Machines!D!ToSet, Machines!D!UserButtons,
         Machines!D!ActiveGroup, Machines!D!Shortcuts, Machines!D!Builtin
<1>8. \A id : D!RecentButton(id) = Machines!D!RecentButton(id)
  BY DEF D!RecentButton, D!Item, D!ToSet, D!Builtin, D!Shortcuts, Machines!D!RecentButton,
         Machines!D!Item, Machines!D!ToSet, Machines!D!Builtin, Machines!D!Shortcuts
<1>9. D!RecentItems = Machines!D!RecentItems
  BY <1>2, <1>7, <1>8, TextsSame DEF D!RecentItems, Machines!D!RecentItems
<1>10. D!Buttons = Machines!D!Buttons
  BY <1>2, <1>3, <1>7, <1>9, TextsSame, Zenon DEF D!Buttons, Machines!D!Buttons
<1>11. D!Shown = Machines!D!Shown
  BY <1>2, <1>3, <1>6, <1>10, TextsSame, TurnsSame DEF D!Shown, Machines!D!Shown
<1> QED BY <1>1, <1>7, <1>11

LEMMA ItemsSame ==
    /\ D!Selected <=> Machines!D!Selected
    /\ D!SelectedItem = Machines!D!SelectedItem
    /\ \A item : D!DeleteItem(item) <=> Machines!D!DeleteItem(item)
    /\ \A item : D!Use(item) <=> Machines!D!Use(item)
<1>1. (D!Selected <=> Machines!D!Selected) /\ D!SelectedItem = Machines!D!SelectedItem
  BY ShownTheSame, Zenon DEF D!Selected, D!SelectedItem, Machines!D!Selected, Machines!D!SelectedItem
<1>2. \A item : D!Deletable(item) <=> Machines!D!Deletable(item)
  BY ShownTheSame, Zenon DEF D!Deletable, Machines!D!Deletable
<1>3. \A item : D!DeleteItem(item) <=> Machines!D!DeleteItem(item)
  BY <1>2, TextsSame, Zenon DEF D!DeleteItem, Machines!D!DeleteItem
<1>4. \A id : D!Used(id) = Machines!D!Used(id)
  BY TextsSame, Zenon DEF D!Used, Machines!D!Used
<1>5. \A f, i : D!Fill(f, i) <=> Machines!D!Fill(f, i)
  BY Zenon DEF D!Fill, D!lists, Machines!D!Fill, Machines!D!lists
<1>6. /\ D!OpensHost = Machines!D!OpensHost /\ D!ButtonTypes = Machines!D!ButtonTypes
      /\ D!ShortcutTypes = Machines!D!ShortcutTypes
  BY DEF D!OpensHost, D!ButtonTypes, D!ShortcutTypes, Machines!D!OpensHost,
         Machines!D!ButtonTypes, Machines!D!ShortcutTypes
<1>7. D!Close <=> Machines!D!Close
  BY Zenon DEF D!Close, Machines!D!Close
<1>8. \A item : D!Use(item) <=> Machines!D!Use(item)
  BY <1>4, <1>5, <1>6, <1>7, TextsSame, Zenon DEF D!Use, Machines!D!Use
<1> QED BY <1>1, <1>3, <1>8

LEMMA DialogStarts == Init => Machines!D!Init
<1>1. Init => D!Init
  BY DEF Init
<1> QED BY <1>1, Zenon DEF D!Init, Machines!D!Init

LEMMA DialogSteps == [Next]_vars => [Machines!D!Next]_(Machines!D!vars)
<1>1. \A f : D!Show(f) <=> Machines!D!Show(f)
  BY Zenon DEF D!Show, D!lists, Machines!D!Show, Machines!D!lists
<1>2. \A f : D!Turn(f) <=> Machines!D!Turn(f)
  BY Zenon DEF D!Turn, D!lists, Machines!D!Turn, Machines!D!lists
<1>3. D!OpenDialog <=> Machines!D!OpenDialog
  BY <1>1, TextsSame, TurnsSame, Zenon DEF D!OpenDialog, Machines!D!OpenDialog
<1>4. D!CloseDialog <=> Machines!D!CloseDialog
  BY Zenon DEF D!CloseDialog, D!Close, D!lists, Machines!D!CloseDialog, Machines!D!Close,
               Machines!D!lists
<1>5. D!Shortcut <=> Machines!D!Shortcut
  BY <1>1, <1>2, TextsSame, TurnsSame, Zenon DEF D!Shortcut, Machines!D!Shortcut
<1>6. D!ClearText <=> Machines!D!ClearText
  BY <1>2, TextsSame, TurnsSame, Zenon DEF D!ClearText, Machines!D!ClearText
<1>7. D!TurnPage <=> Machines!D!TurnPage
  BY <1>2, TurnsSame, Zenon DEF D!TurnPage, Machines!D!TurnPage
<1>8. D!Type <=> Machines!D!Type
  BY Zenon DEF D!Type, D!Typed, D!lists, Machines!D!Type, Machines!D!Typed, Machines!D!lists
<1>9. D!ArrowDown <=> Machines!D!ArrowDown
  BY ShownTheSame, Zenon DEF D!ArrowDown, D!lists, Machines!D!ArrowDown, Machines!D!lists
<1>10. D!ArrowUp <=> Machines!D!ArrowUp
  BY ShownTheSame, Zenon DEF D!ArrowUp, D!lists, Machines!D!ArrowUp, Machines!D!lists
<1>11. D!DeleteSelected <=> Machines!D!DeleteSelected
  BY ItemsSame, Zenon DEF D!DeleteSelected, Machines!D!DeleteSelected
<1>12. D!DeleteRow <=> Machines!D!DeleteRow
  BY ItemsSame, ShownTheSame, TextsSame, Zenon DEF D!DeleteRow, Machines!D!DeleteRow
<1>13. D!Enter <=> Machines!D!Enter
  BY ItemsSame, Zenon DEF D!Enter, Machines!D!Enter
<1>14. D!Click <=> Machines!D!Click
  BY ItemsSame, ShownTheSame, TextsSame, Zenon DEF D!Click, Machines!D!Click
<1>15. D!News <=> Machines!D!News
  BY Zenon DEF D!News, Machines!D!News
<1>16. D!Next => Machines!D!Next
  BY <1>3, <1>4, <1>5, <1>6, <1>7, <1>8, <1>9, <1>10, <1>11, <1>12, <1>13, <1>14, <1>15, Zenon
     DEF D!Next, Machines!D!Next
<1>17. [Next]_vars => D!Next \/ UNCHANGED dialog
  BY DEF Next, vars
<1> QED BY <1>16, <1>17 DEF dialog, Machines!D!vars, Machines!D!lists

LEMMA DialogRuns == Spec => Machines!D!Spec
BY DialogStarts, DialogSteps, PTL DEF Spec, Machines!D!Spec

LEMMA SameDialog == Machines!D!DialogSafe => D!DialogSafe
<1>1. Machines!D!SelectionInRange => D!SelectionInRange
  BY ShownTheSame, ItemsSame, Zenon DEF D!SelectionInRange, Machines!D!SelectionInRange
<1>2. Machines!D!TurnsTo => D!TurnsTo
  BY TextsSame, TurnsSame, Zenon DEF D!TurnsTo, Machines!D!TurnsTo
<1>3. Machines!D!OnceEach => D!OnceEach
  <2>1. \A set : {v \in set : D!Matches(v)} = {v \in set : Machines!D!Matches(v)}
    BY ShownTheSame
  <2>2. /\ D!Mode = Machines!D!Mode /\ D!Shown = Machines!D!Shown
        /\ D!ToSet(D!UserButtons) = Machines!D!ToSet(Machines!D!UserButtons)
        /\ D!ToSet(recentButtons) \cap D!There
             = Machines!D!ToSet(recentButtons) \cap Machines!D!There
        /\ D!RecentTypes = Machines!D!RecentTypes
    BY ShownTheSame, TextsSame, TurnsSame, Zenon
  <2> DEFINE Places(s, types) == {i \in DOMAIN s : s[i].type \in types}
             Once(s, types, those) ==
               /\ \A i, j \in Places(s, types) : s[i].value = s[j].value => i = j
               /\ {s[i].value : i \in Places(s, types)} = those
  <2>3. D!OnceEach <=>
          /\ D!Mode = "servers" => Once(D!Shown, {"host"}, {v \in names : D!Matches(v)})
          /\ D!Mode = "buttons" =>
               /\ Once(D!Shown, {"button"}, {v \in D!ToSet(D!UserButtons) : D!Matches(v)})
               /\ Once(D!Shown, D!RecentTypes,
                       {v \in D!ToSet(recentButtons) \cap D!There : D!Matches(v)})
    BY Zenon DEF D!OnceEach
  <2>4. Machines!D!OnceEach <=>
          /\ D!Mode = "servers" => Once(D!Shown, {"host"}, {v \in names : D!Matches(v)})
          /\ D!Mode = "buttons" =>
               /\ Once(D!Shown, {"button"}, {v \in D!ToSet(D!UserButtons) : D!Matches(v)})
               /\ Once(D!Shown, D!RecentTypes,
                       {v \in D!ToSet(recentButtons) \cap D!There : D!Matches(v)})
    <3>1. Machines!D!OnceEach <=>
            /\ Machines!D!Mode = "servers" =>
                 Once(Machines!D!Shown, {"host"}, {v \in names : Machines!D!Matches(v)})
            /\ Machines!D!Mode = "buttons" =>
                 /\ Once(Machines!D!Shown, {"button"},
                         {v \in Machines!D!ToSet(Machines!D!UserButtons) : Machines!D!Matches(v)})
                 /\ Once(Machines!D!Shown, Machines!D!RecentTypes,
                         {v \in Machines!D!ToSet(recentButtons) \cap Machines!D!There :
                             Machines!D!Matches(v)})
      BY Zenon DEF Machines!D!OnceEach
    <3> HIDE DEF Once
    <3> QED BY <2>1, <2>2, <3>1, Zenon
  <2> QED BY <2>3, <2>4
<1> QED BY <1>1, <1>2, <1>3, Zenon DEF D!DialogSafe, Machines!D!DialogSafe

\* The dialog of a new tab points at a row it shows, turns to the view that is named, and
\* shows what matches once (NewTabDialog.tsx).
THEOREM DialogIsSafe == Spec => []DialogSafe
<1>1. Machines!Limited
  BY DialogLimited DEF Machines!Limited
<1>2. Machines!D!Spec => []Machines!D!DialogSafe
  BY <1>1, Machines!DialogHolds
<1> QED BY <1>2, DialogRuns, SameDialog, PTL DEF DialogSafe

-----------------------------------------------------------------------------
(* The import of hosts and keys.                                           *)

LEMMA LinesSame ==
    /\ \A s : I!ToSet(s) = Machines!I!ToSet(s)
    /\ \A s, set : I!Filtered(s, set) = Machines!I!Filtered(s, set)
    /\ \A set : I!SetToSeq(set) = Machines!I!SetToSeq(set)
    /\ \A bs, called : I!Effective(bs, called) = Machines!I!Effective(bs, called)
    /\ \A ls, l : I!Against(ls, l) = Machines!I!Against(ls, l)
    /\ \A ls, pat : I!LineOf(ls, pat) = Machines!I!LineOf(ls, pat)
<1>1. \A s : I!ToSet(s) = Machines!I!ToSet(s)
  BY DEF I!ToSet, Machines!I!ToSet
<1>2. \A s, set : I!Filtered(s, set) = Machines!I!Filtered(s, set)
  BY DEF I!Filtered, I!Cardinality, Machines!I!Filtered, Machines!I!Cardinality
<1>3. \A set : I!SetToSeq(set) = Machines!I!SetToSeq(set)
  BY DEF I!SetToSeq, I!Cardinality, I!IsInjective, Machines!I!SetToSeq, Machines!I!Cardinality,
         Machines!I!IsInjective
<1>4. \A bs, called : I!Effective(bs, called) = Machines!I!Effective(bs, called)
  BY DEF I!Effective, I!SelectInSeq, I!Min, Machines!I!Effective, Machines!I!SelectInSeq,
         Machines!I!Min
<1>5. \A ls, pat : I!LineOf(ls, pat) = Machines!I!LineOf(ls, pat)
  BY DEF I!LineOf, I!SelectLastInSeq, I!Max, I!ToSet, Machines!I!LineOf,
         Machines!I!SelectLastInSeq, Machines!I!Max, Machines!I!ToSet
<1>6. \A ls, l : I!Against(ls, l) = Machines!I!Against(ls, l)
  BY DEF I!Against, I!LineOf, I!SelectInSeq, I!SelectLastInSeq, I!Min, I!Max, I!ToSet,
         Machines!I!Against, Machines!I!LineOf, Machines!I!SelectInSeq,
         Machines!I!SelectLastInSeq, Machines!I!Min, Machines!I!Max, Machines!I!ToSet
<1> QED BY <1>1, <1>2, <1>3, <1>4, <1>5, <1>6

LEMMA KindsSame ==
    /\ I!Views = Machines!I!Views /\ I!NoFile = Machines!I!NoFile /\ I!Here = Machines!I!Here
    /\ \A v : I!Offers(v) = Machines!I!Offers(v)
    /\ \A b, o : I!Block(b, o) = Machines!I!Block(b, o)
    /\ \A ps, k : I!KeyLine(ps, k) = Machines!I!KeyLine(ps, k)
    /\ \A v : I!Compared(v) = Machines!I!Compared(v)
<1>1. /\ I!Views = Machines!I!Views /\ I!NoFile = Machines!I!NoFile /\ I!Here = Machines!I!Here
  BY DEF I!Views, I!NoFile, I!Here, Machines!I!Views, Machines!I!NoFile, Machines!I!Here
<1>2. \A v : I!Offers(v) = Machines!I!Offers(v)
  BY Zenon DEF I!Offers, I!Block, I!KeyLine, Machines!I!Offers, Machines!I!Block, Machines!I!KeyLine
<1>3. \A b : I!KindOfHost(b) = Machines!I!KindOfHost(b)
  BY LinesSame, Zenon DEF I!KindOfHost, Machines!I!KindOfHost
<1>4. \A l : I!KindOfKey(l) = Machines!I!KindOfKey(l)
  BY LinesSame, Zenon DEF I!KindOfKey, Machines!I!KindOfKey
<1>5. \A of, kd : I!Entry(of, kd) = Machines!I!Entry(of, kd)
  BY DEF I!Entry, Machines!I!Entry
<1>6. \A v : I!Compared(v) = Machines!I!Compared(v)
  BY <1>3, <1>4, <1>5 DEF I!Compared, Machines!I!Compared
<1>7. /\ \A b, o : I!Block(b, o) = Machines!I!Block(b, o)
      /\ \A ps, k : I!KeyLine(ps, k) = Machines!I!KeyLine(ps, k)
  BY DEF I!Block, I!KeyLine, Machines!I!Block, Machines!I!KeyLine
<1> QED BY <1>1, <1>2, <1>6, <1>7

LEMMA ImportsSame ==
    /\ \A called : I!ImportHosts(called) = Machines!I!ImportHosts(called)
    /\ \A s, force : I!ImportKeys(s, force) = Machines!I!ImportKeys(s, force)
    /\ \A ks : I!Kept(ks) = Machines!I!Kept(ks)
    /\ \A i : I!Items(i) = Machines!I!Items(i)
    /\ \A i : I!Replaced(i) = Machines!I!Replaced(i)
<1>1. \A called : I!ImportHosts(called) = Machines!I!ImportHosts(called)
  BY DEF I!ImportHosts, I!Filtered, I!Cardinality, I!ToSet, Machines!I!ImportHosts,
         Machines!I!Filtered, Machines!I!Cardinality, Machines!I!ToSet
<1>2. \A s, force : I!ImportKeys(s, force) = Machines!I!ImportKeys(s, force)
  BY DEF I!ImportKeys, I!ImportLine, I!Against, I!LineOf, I!SelectInSeq, I!SelectLastInSeq, I!Min,
         I!Max, I!ToSet, Machines!I!ImportKeys, Machines!I!ImportLine, Machines!I!Against,
         Machines!I!LineOf, Machines!I!SelectInSeq, Machines!I!SelectLastInSeq, Machines!I!Min,
         Machines!I!Max, Machines!I!ToSet
<1>3. \A ks : I!Kept(ks) = Machines!I!Kept(ks)
  BY DEF I!Kept, I!ToSet, Machines!I!Kept, Machines!I!ToSet
<1>4. \A i : I!Items(i) = Machines!I!Items(i)
  BY DEF I!Items, Machines!I!Items
<1>5. \A i : I!Replaced(i) = Machines!I!Replaced(i)
  BY DEF I!Replaced, I!Against, I!LineOf, I!SelectInSeq, I!SelectLastInSeq, I!Min, I!Max, I!ToSet,
         Machines!I!Replaced, Machines!I!Against, Machines!I!LineOf, Machines!I!SelectInSeq,
         Machines!I!SelectLastInSeq, Machines!I!Min, Machines!I!Max, Machines!I!ToSet
<1> QED BY <1>1, <1>2, <1>3, <1>4, <1>5

LEMMA ImportStarts == Init => Machines!I!Init
<1>1. Init => I!Init
  BY DEF Init
<1> QED BY <1>1, KindsSame, Zenon DEF I!Init, Machines!I!Init

LEMMA ImportSteps == [Next]_vars => [Machines!I!Next]_(Machines!I!vars)
<1>1. \A fs : I!Ask(fs) <=> Machines!I!Ask(fs)
  BY Zenon DEF I!Ask, Machines!I!Ask
<1>2. I!Touch <=> Machines!I!Touch
  BY Zenon DEF I!Touch, Machines!I!Touch
<1>3. \A c : I!Change(c) <=> Machines!I!Change(c)
  BY <1>2, Zenon DEF I!Change, Machines!I!Change
<1>4. I!Load <=> Machines!I!Load
  BY <1>1, KindsSame, Zenon DEF I!Load, I!pageVars, I!otherVars, Machines!I!Load,
     Machines!I!pageVars, Machines!I!otherVars
<1>5. I!Upload <=> Machines!I!Upload
  BY <1>1, <1>3, KindsSame, Zenon DEF I!Upload, I!pageVars, Machines!I!Upload, Machines!I!pageVars
<1>6. I!Delete <=> Machines!I!Delete
  BY <1>1, <1>3, KindsSame, Zenon DEF I!Delete, I!pageVars, Machines!I!Delete,
     Machines!I!pageVars
<1>7. \A v : I!Mount(v) <=> Machines!I!Mount(v)
  BY KindsSame, Zenon DEF I!Mount, Machines!I!Mount
<1>8. \A v : I!Unmounted(v) <=> Machines!I!Unmounted(v)
  BY Zenon DEF I!Unmounted, Machines!I!Unmounted
<1>9. I!OpenView <=> Machines!I!OpenView
  BY <1>7, KindsSame, Zenon DEF I!OpenView, Machines!I!OpenView
<1>10. I!Back <=> Machines!I!Back
  BY <1>1, <1>8, KindsSame, Zenon DEF I!Back, Machines!I!Back
<1>11. I!Shown = Machines!I!Shown /\ I!Choosable = Machines!I!Choosable
       /\ I!Conflicts = Machines!I!Conflicts
  BY DEF I!Shown, I!Choosable, I!Conflicts, Machines!I!Shown, Machines!I!Choosable,
         Machines!I!Conflicts
<1>12. \A S1, S2 : I!SymDiff(S1, S2) = Machines!I!SymDiff(S1, S2)
  BY DEF I!SymDiff, Machines!I!SymDiff
<1>13. \A set : I!Choose(set) <=> Machines!I!Choose(set)
  BY Zenon DEF I!Choose, I!otherVars, Machines!I!Choose, Machines!I!otherVars
<1>14. I!ShowKind <=> Machines!I!ShowKind
  BY <1>12, KindsSame, Zenon DEF I!ShowKind, I!otherVars, Machines!I!ShowKind,
     Machines!I!otherVars
<1>15. I!ToggleSelect <=> Machines!I!ToggleSelect
  BY <1>11, <1>12, <1>13, Zenon DEF I!ToggleSelect, Machines!I!ToggleSelect
<1>16. I!SelectAll <=> Machines!I!SelectAll
  BY <1>11, <1>13, Zenon DEF I!SelectAll, Machines!I!SelectAll
<1>17. I!Acknowledge <=> Machines!I!Acknowledge
  BY <1>11, <1>12, Zenon DEF I!Acknowledge, I!otherVars, Machines!I!Acknowledge,
     Machines!I!otherVars
<1>18. I!Import <=> Machines!I!Import
  BY <1>11, KindsSame, Zenon DEF I!Import, I!pageVars, Machines!I!Import, Machines!I!pageVars
<1>19. \A i : I!ImportFails(i) <=> Machines!I!ImportFails(i)
  BY Zenon DEF I!ImportFails, I!pageVars, Machines!I!ImportFails, Machines!I!pageVars
<1>20. I!Leave <=> Machines!I!Leave
  BY <1>1, <1>8, KindsSame, Zenon DEF I!Leave, I!pageVars, Machines!I!Leave, Machines!I!pageVars
<1>21. I!Elsewhere <=> Machines!I!Elsewhere
  BY <1>2, LinesSame, KindsSame, Zenon DEF I!Elsewhere, I!pageVars, Machines!I!Elsewhere,
     Machines!I!pageVars
<1>22. ASSUME NEW i PROVE I!Imported(i) => Machines!I!Imported(i)
  BY <1>8, LinesSame, KindsSame, ImportsSame, Zenon DEF I!Imported, I!pageVars, Machines!I!Imported,
     Machines!I!pageVars
<1>23. I!Next => Machines!I!Next
  BY <1>4, <1>5, <1>6, <1>9, <1>10, <1>14, <1>15, <1>16, <1>17, <1>18, <1>19, <1>20, <1>21, <1>22,
     Zenon DEF I!Next, Machines!I!Next
<1>24. [Next]_vars => I!Next \/ UNCHANGED importing
  BY DEF Next, vars
<1> QED BY <1>23, <1>24 DEF importing, Machines!I!vars

LEMMA ImportRuns == Spec => Machines!I!Spec
BY ImportStarts, ImportSteps, PTL DEF Spec, Machines!I!Spec

\* An import removes no key but those shown as replaced, and brings what it shows as new
\* (SSHImportTab.tsx, datasync.go).
THEOREM ImportIsSafe == Spec => []ImportSafe
<1>1. Machines!I!Spec => []Machines!I!ImportSafe
  BY Machines!ImportHolds
<1>2. Machines!I!ImportSafe => I!ImportSafe
  BY DEF I!ImportSafe, I!KeysKept, I!NewIsThere, Machines!I!ImportSafe, Machines!I!KeysKept,
         Machines!I!NewIsThere
<1> QED BY <1>1, <1>2, ImportRuns, PTL DEF ImportSafe
=============================================================================
