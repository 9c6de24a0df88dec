----------------------------- MODULE UploadQueue -----------------------------
(***************************************************************************)
(* The upload queue of the file browser (FileBrowser.tsx): files and empty *)
(* folders wait, an effect of React sends one at a time, and a ref         *)
(* (isProcessingRef) keeps the effect from sending a second one.           *)
(*                                                                         *)
(* The effect runs after a render in which the queue changed.  What an     *)
(* answer changes is rendered later than the code that awaits the answer   *)
(* goes on; what a click changes is rendered, and the effect run, before.  *)
(***************************************************************************)
EXTENDS Naturals

CONSTANT MaxItems       \* bound on the items that are ever queued

Items == 1 .. MaxItems

VARIABLES
    kind,       \* of each item: "file", sent by XMLHttpRequest, or "dir", made by fetch
    status,     \* of each item: "none" before it is queued, "gone" when removed
    processing, \* isProcessingRef.current
    sending,    \* the requests under way
    due,        \* a render with another uploadQueue is to come, and the effect with it
    stored,     \* history: what the server has made of the requests
    sent,       \* history: how often each item was sent
    halted      \* history: the running upload was canceled, and no effect ran since

vars == <<kind, status, processing, sending, due, stored, sent, halted>>

Finished == {"completed", "error", "canceled"}

\* find(item.status === "pending"): the items are in the order of their ids.
Waiting == {i \in Items : status[i] = "pending"}
FirstWaiting(i) == i \in Waiting /\ \A j \in Waiting : i <= j

-----------------------------------------------------------------------------
(* The sources: drop, paste, the two file inputs, each through enqueueItems.*)

Fresh == {i \in Items : status[i] = "none"}

\* scanEntry: a file for each file below, a dir for each folder that is empty or
\* cannot be read.
Scanned == [Items -> {"file", "dir"}]

\* Together, behind what is queued.
EnqueueItems(new, ks) ==
    /\ new # {} /\ new \subseteq Fresh
    /\ \A i \in new, j \in Fresh \ new : i < j
    /\ kind' = [i \in Items |-> IF i \in new THEN ks[i] ELSE kind[i]]
    /\ status' = [i \in Items |-> IF i \in new THEN "pending" ELSE status[i]]
    /\ due' = TRUE
    /\ UNCHANGED <<processing, sending, stored, sent, halted>>

-----------------------------------------------------------------------------
(* The runner.                                                             *)

Starts(i) ==
    /\ processing' = TRUE
    /\ due' = TRUE
    /\ status' = [status EXCEPT ![i] = "uploading"]
    /\ sending' = sending \cup {i}
    /\ sent' = [sent EXCEPT ![i] = @ + 1]

\* mutant: the ref is not looked at
ProcessNext_Unguarded ==
    /\ due
    /\ halted' = FALSE
    /\ \/ \E i \in Items : FirstWaiting(i) /\ Starts(i)
       \/ Waiting = {} /\ due' = FALSE /\ UNCHANGED <<status, processing, sending, sent>>
    /\ UNCHANGED <<kind, stored>>

ProcessNext ==
    /\ due
    /\ halted' = FALSE
    /\ \/ ~processing /\ \E i \in Items : FirstWaiting(i) /\ Starts(i)
       \/ /\ processing \/ Waiting = {}
          /\ due' = FALSE /\ UNCHANGED <<status, processing, sending, sent>>
    /\ UNCHANGED <<kind, stored>>

\* mutant: the ref is reset only when the request succeeded
Ends_OnSuccess(i, s) ==
    /\ sending' = sending \ {i}
    /\ processing' = (s = "error")
    /\ status' = [status EXCEPT ![i] = IF @ = "gone" THEN @ ELSE s]
    /\ due' = TRUE
    /\ UNCHANGED <<kind, sent, halted>>

\* The request of item i is over: map finds the item unless it was removed, and
\* a folder that was canceled in the meantime gets the status as well.
Ends(i, s) ==
    /\ sending' = sending \ {i}
    /\ processing' = FALSE
    /\ status' = [status EXCEPT ![i] = IF @ = "gone" THEN @ ELSE s]
    /\ due' = TRUE
    /\ UNCHANGED <<kind, sent, halted>>

\* onload with 2xx, onload with another status, onerror; !res.ok and the catch
\* of mkdir.  When the answer is lost, the server may have done its work.
Answered(i) ==
    /\ i \in sending
    /\ \/ Ends(i, "completed") /\ stored' = stored \cup {i}
       \/ Ends(i, "error") /\ stored' \in {stored, stored \cup {i}}

\* The timer of pollProgress writes a new queue while something is uploading.
PollProgress ==
    /\ \E i \in Items : status[i] = "uploading"
    /\ due' = TRUE
    /\ UNCHANGED <<kind, status, processing, sending, stored, sent, halted>>

-----------------------------------------------------------------------------
(* The buttons of the panel.                                               *)

\* handleCancelQueueItem: abort calls onabort at once, but the effect of this
\* click still sees isProcessingRef, which is reset when the await goes on.  A
\* folder has no request that could be aborted.
Cancel(i) ==
    /\ status[i] \in {"pending", "uploading"}
    /\ status' = [status EXCEPT ![i] = "canceled"]
    /\ IF status[i] = "uploading" /\ kind[i] = "file"
       THEN /\ sending' = sending \ {i}
            /\ processing' = FALSE
            /\ stored' \in {stored, stored \cup {i}}
            /\ halted' = TRUE
            /\ UNCHANGED due
       ELSE due' = TRUE /\ UNCHANGED <<processing, sending, stored, halted>>
    /\ UNCHANGED <<kind, sent>>

Removed(gone) ==
    /\ gone # {}
    /\ status' = [i \in Items |-> IF i \in gone THEN "gone" ELSE status[i]]
    /\ due' = TRUE
    /\ UNCHANGED <<kind, processing, sending, stored, sent, halted>>

RemoveQueueItem == \E i \in Items : status[i] \in Finished /\ Removed({i})

ClearFinishedQueue == Removed({i \in Items : status[i] \in Finished})

-----------------------------------------------------------------------------

Init ==
    /\ kind = [i \in Items |-> "file"]
    /\ status = [i \in Items |-> "none"]
    /\ processing = FALSE /\ sending = {} /\ due = FALSE
    /\ stored = {} /\ sent = [i \in Items |-> 0] /\ halted = FALSE

Asked ==
    \/ \E new \in SUBSET Items, ks \in Scanned : EnqueueItems(new, ks)
    \/ \E i \in Items : Cancel(i)
    \/ RemoveQueueItem
    \/ ClearFinishedQueue

Next ==
    \/ Asked
    \/ ProcessNext
    \/ \E i \in Items : Answered(i)
    \/ PollProgress

Spec == Init /\ [][Next]_vars

-----------------------------------------------------------------------------

Statuses == {"none", "gone", "pending", "uploading"} \cup Finished

TypeOK ==
    /\ kind \in [Items -> {"file", "dir"}]
    /\ status \in [Items -> Statuses]
    /\ processing \in BOOLEAN /\ due \in BOOLEAN /\ halted \in BOOLEAN
    /\ sending \subseteq Items /\ stored \subseteq Items
    /\ sent \in [Items -> Nat]

\* Whatever is queued, canceled and removed between two renders, at most one
\* request is under way, the ref says so, and no item is sent twice
\* (FileBrowser.tsx, isProcessingRef).
OneUpload ==
    /\ \A i, j \in sending : i = j
    /\ processing <=> sending # {}
    /\ \A i \in Items : sent[i] <= 1

\* An item that is shown as completed is on the server (FileBrowser.tsx, onload).
CompletedStored == \A i \in Items : status[i] = "completed" => i \in stored

\* An item that waits will be sent: the effect is due, or will be when the
\* request under way ends.  Only after the running upload was canceled does it
\* wait until the queue changes again (FileBrowser.tsx, the queue runner).
QueueMoves == Waiting # {} => due \/ sending # {} \/ halted

\* The panel shows as done what is done, and the rest gets its turn, one at a
\* time (FileBrowser.tsx).
QueueSafe == OneUpload /\ CompletedStored /\ QueueMoves

\* What the panel shows is left aside: a folder that was canceled still runs.
Phase ==
    [i \in Items |->
        IF i \in sending THEN "running"
        ELSE IF status[i] = "none" THEN "none"
        ELSE IF status[i] = "pending" THEN "waiting"
        ELSE "ended"]

T == INSTANCE Transfers WITH phase <- Phase

\* Every item is sent once, in its turn and alone, through all renders, clicks and
\* late answers (FileBrowser.tsx, the queue runner).
ImplementsTransfers == T!Spec
=============================================================================
