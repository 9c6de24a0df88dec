----------------------------- MODULE FileBrowser -----------------------------
(***************************************************************************)
(* The file browser below a tab (FileBrowser.tsx): the listing it shows,   *)
(* its context menu, and the requests that its handlers send.              *)
(*                                                                         *)
(* A handler works with the session and the path of the render that made   *)
(* it (its closure), also after it has awaited something.  The session is  *)
(* that of the active pane of the tab, and changes with it; the listing    *)
(* does not.  The upload queue is in UploadQueue; the text that filters    *)
(* the table, and its order, are left out.                                 *)
(***************************************************************************)
EXTENDS Naturals, FiniteSets

CONSTANTS
    PaneSessions,   \* sessions of the panes of the tab
    Dirs,       \* directories, the same on each session
    MaxAsks,    \* bound on the listings that are asked for at a time
    NoListing   \* currentPath = ""

VARIABLES
    session,    \* the prop sessionId
    shown,      \* currentPath, and the session that files came from
    asks,       \* the listings that fetchFiles under way will bring, one or more each
    loading,
    menu,       \* the listing whose entry has its context menu open
    acts,       \* the other handlers under way, at most one here
    editing,    \* the listing that the file in the text editor is from
    upload,     \* an upload into the directory shown when it started
    switched,   \* history: another pane of the tab became the active one
    slid        \* history: the listing changed below an open menu

vars == <<session, shown, asks, loading, menu, acts, editing,
          upload, switched, slid>>

Listing(s, d) == [sess |-> s, dir |-> d]
Listings == [sess : PaneSessions, dir : Dirs]
Path == IF shown = NoListing THEN NoListing ELSE shown.dir

\* What a handler of the present render sees.
Closure == Listing(session, Path)

-----------------------------------------------------------------------------
(* Listing.                                                                *)

\* fetchFiles(d), called from a handler with closure c.
FetchFiles(c, d) ==
    /\ asks' = asks \cup {Listing(c.sess, d)}
    /\ Cardinality(asks') <= MaxAsks
    /\ loading' = TRUE

\* One of the requests for listing l is over: none or another one is left.
Answered(l) == asks' \in {asks, asks \ {l}}

Listed(l) ==
    /\ Answered(l)
    /\ shown' = l
    /\ loading' = FALSE
    /\ slid' = (slid \/ (menu # NoListing /\ menu # l))
    /\ UNCHANGED <<session, menu, acts, editing, upload, switched>>

ListFailed(l) ==
    /\ Answered(l)
    /\ loading' = FALSE
    /\ UNCHANGED <<session, shown, menu, acts, editing, upload,
                   switched, slid>>

ListAnswered == \E l \in asks : Listed(l) \/ ListFailed(l)

\* Another pane of the tab becomes active: the listing is fetched only if there
\* is no path yet and no request runs.
SessionChanged(s) ==
    /\ s # session /\ session' = s
    /\ switched' = TRUE
    /\ IF ~loading /\ Path = NoListing
       THEN \E home \in Dirs : FetchFiles(Listing(s, Path), home)
       ELSE UNCHANGED <<asks, loading>>
    /\ UNCHANGED <<shown, menu, acts, editing, upload, slid>>

\* The menu, the dialogs and the editor cover the rest.
Uncovered ==
    menu = NoListing /\ editing = NoListing /\ \A a \in acts : ~a.asked

\* Up, a folder of the table, the directory of the shell, home; refresh is
\* disabled, and the table away, while something loads.
Navigate(d) ==
    /\ Uncovered
    /\ d = Path => ~loading
    /\ FetchFiles(Closure, d)
    /\ UNCHANGED <<session, shown, menu, acts, editing, upload, switched, slid>>

-----------------------------------------------------------------------------
(* What the handlers do with a file: each asks first, where there is a     *)
(* dialog, and then sends its request.                                     *)

Dialogs == {"rename", "delete", "mkdir", "newFile"}

\* The handlers that set loading, after the prompt if there is one.
Loads(op) == op \in {"newFile", "save", "edit", "stat"}

\* The handler op, from closure c, for the directory dir of its session; seen is
\* the listing in which the user saw what he asked for.
Starts(op, c, dir, seen) ==
    /\ acts = {}
    /\ acts' = {[op |-> op, c |-> c, dir |-> dir, seen |-> seen,
                 asked |-> op \in Dialogs]}
    /\ loading' = (loading \/ op \in {"save", "edit", "stat"})

HandleContextMenu ==
    /\ Uncovered /\ shown # NoListing /\ ~loading
    /\ menu' = shown
    /\ UNCHANGED <<session, shown, asks, loading, acts, editing, upload,
                   switched, slid>>

\* mutant: the handlers keep the path of the render that was made when the menu
\* was closed last
HandleFile_OtherPath ==
    /\ menu # NoListing /\ menu' = NoListing
    /\ \/ \E op \in {"rename", "delete", "download", "edit"}, d \in Dirs :
             Starts(op, [Closure EXCEPT !.dir = d], d, menu)
       \/ UNCHANGED <<acts, loading>>
    /\ UNCHANGED <<session, shown, asks, editing, upload, switched, slid>>

\* The entries of the menu: the file is the one that was clicked, the path and
\* the session are those of the present render.
HandleFile ==
    /\ menu # NoListing /\ menu' = NoListing
    /\ \/ \E op \in {"rename", "delete", "download", "edit"} :
             Starts(op, Closure, Path, menu)
       \/ UNCHANGED <<acts, loading>>
    /\ UNCHANGED <<session, shown, asks, editing, upload, switched, slid>>

\* The buttons for a new folder and a new file, that of a row for its download,
\* and handleGoTo, which Enter calls also while something loads.
HandleToolbar ==
    /\ Uncovered /\ shown # NoListing
    /\ \/ ~loading /\ \E op \in {"mkdir", "newFile", "download"} :
                          Starts(op, Closure, Path, shown)
       \/ \E d \in Dirs : Starts("stat", Closure, d, Listing(session, d))
    /\ UNCHANGED <<session, shown, asks, menu, editing, upload,
                   switched, slid>>

\* handleSaveTextFile: the path that was loaded, the session of now.
HandleSaveTextFile ==
    /\ editing # NoListing /\ ~loading
    /\ Starts("save", Closure, editing.dir, editing)
    /\ UNCHANGED <<session, shown, asks, menu, editing, upload,
                   switched, slid>>

CloseEditor ==
    /\ editing # NoListing /\ editing' = NoListing
    /\ UNCHANGED <<session, shown, asks, loading, menu, acts, upload,
                   switched, slid>>

\* The dialog of a handler: closed, or answered, and then the request is sent.
DialogAnswered ==
    \E a \in acts :
        /\ a.asked
        /\ \/ acts' = {} /\ UNCHANGED loading
           \/ acts' = {[a EXCEPT !.asked = FALSE]} /\ loading' = (loading \/ Loads(a.op))
        /\ UNCHANGED <<session, shown, asks, menu, editing, upload,
                       switched, slid>>

ActFailed(a) ==
    /\ acts' = {}
    /\ loading' = (loading /\ ~Loads(a.op))
    /\ UNCHANGED <<asks, editing>>

\* Where there is a finally, it resets loading although the listing that was
\* just asked for is still to come.
ActDone(a) ==
    CASE a.op \in {"rename", "delete", "mkdir"} ->
            acts' = {} /\ FetchFiles(a.c, a.c.dir) /\ UNCHANGED editing
      [] a.op = "download" ->
            acts' = {} /\ UNCHANGED <<asks, loading, editing>>
      [] a.op = "edit" ->
            /\ acts' = {} /\ loading' = FALSE
            /\ editing' = Listing(a.c.sess, a.dir)
            /\ UNCHANGED asks
      [] OTHER ->
            /\ loading' = FALSE /\ UNCHANGED editing
            /\ \/ /\ a.dir = a.c.dir \/ a.op = "stat"
                  /\ asks' = asks \cup {Listing(a.c.sess, a.dir)}
                  /\ Cardinality(asks') <= MaxAsks
                  /\ acts' = {}
               \/ /\ a.dir # a.c.dir /\ a.op = "save"
                  /\ acts' = {} /\ UNCHANGED asks
               \/ /\ a.op = "stat"      \* a file: handleEditAsText
                  /\ acts' = {[a EXCEPT !.op = "edit"]} /\ UNCHANGED asks

ActAnswered ==
    \E a \in acts :
        /\ ~a.asked
        /\ ActFailed(a) \/ ActDone(a)
        /\ UNCHANGED <<session, shown, menu, upload, switched, slid>>

\* mutant: the drop zone works before the first listing has come
UploadStarts_Early ==
    /\ upload = NoListing
    /\ upload' = Closure
    /\ UNCHANGED <<session, shown, asks, loading, menu, acts, editing,
                   switched, slid>>

\* An upload into the directory shown fetches this directory again when it is
\* done, wherever the user has gone since.
UploadStarts ==
    /\ upload = NoListing /\ shown # NoListing
    /\ upload' = Closure
    /\ UNCHANGED <<session, shown, asks, loading, menu, acts, editing,
                   switched, slid>>

UploadEnds ==
    /\ upload # NoListing /\ upload' = NoListing
    /\ FetchFiles(upload, upload.dir) \/ UNCHANGED <<asks, loading>>
    /\ UNCHANGED <<session, shown, menu, acts, editing, switched, slid>>

-----------------------------------------------------------------------------

Init ==
    /\ session \in PaneSessions
    /\ shown = NoListing
    /\ \E home \in Dirs : asks = {Listing(session, home)}
    /\ loading = TRUE
    /\ menu = NoListing /\ acts = {} /\ editing = NoListing /\ upload = NoListing
    /\ switched = FALSE /\ slid = FALSE

Next ==
    \/ \E s \in PaneSessions : SessionChanged(s)
    \/ \E d \in Dirs : Navigate(d)
    \/ ListAnswered
    \/ HandleContextMenu
    \/ HandleFile
    \/ HandleToolbar
    \/ HandleSaveTextFile
    \/ CloseEditor
    \/ DialogAnswered
    \/ ActAnswered
    \/ UploadStarts
    \/ UploadEnds

Spec == Init /\ [][Next]_vars

-----------------------------------------------------------------------------

Closures == [sess : PaneSessions, dir : Dirs \cup {NoListing}]

TypeOK ==
    /\ session \in PaneSessions
    /\ {shown, menu, editing} \subseteq Listings \cup {NoListing}
    /\ asks \subseteq Listings
    /\ {loading, switched, slid} \subseteq BOOLEAN
    /\ \A a \in acts : a.c \in Closures /\ a.dir \in Dirs /\ a.seen \in Listings
    /\ upload \in Listings \cup {NoListing}

\* A file is renamed, deleted, loaded and saved, and a folder made, where the
\* user saw it when he asked for it, through dialogs, answers that come in any
\* order and uploads that end meanwhile; two things can lead elsewhere: the
\* listing is that of another pane, or it changed below the open menu
\* (FileBrowser.tsx, the closures of handleRename and the other handlers).
AimKept ==
    \A a \in acts :
        /\ a.c.sess = a.seen.sess \/ switched
        /\ a.dir = a.seen.dir \/ slid

\* The table is not hidden for ever: as long as loading is set, something that
\* will reset it is under way, whatever overlaps and fails (FileBrowser.tsx, the
\* finally of each handler).
LoadingEnds ==
    loading => asks # {} \/ \E a \in acts : Loads(a.op) /\ ~a.asked

\* Both: what the user does reaches what he saw, and he is not kept waiting
\* (FileBrowser.tsx).
BrowserSafe == AimKept /\ LoadingEnds
=============================================================================
