----------------------------- MODULE WebdavSync -----------------------------
(***************************************************************************)
(* The synchronisation of datasync/datasync.go: devices, each a CozySSH    *)
(* server with its own buttons, scratchpad pages and variables, exchange   *)
(* them through files on a WebDAV server.  A file's name says what it      *)
(* holds, of which time, and whether it marks a deletion; the newest wins. *)
(* Buttons and pages go the same way and are both items here.  Every       *)
(* request of performSync is a step of its own: devices sync concurrently, *)
(* users go on editing, requests fail and servers stop between any two.    *)
(***************************************************************************)
EXTENDS Naturals, FiniteSets, FiniteSetsExt

CONSTANTS
    Devices,
    Items,      \* ids of buttons and scratchpad pages
    Buttons,    \* those of buttons
    Keys,       \* names of variables
    MaxTime,    \* bound: the clock, a tick for each edit
    MaxAge,     \* 30 days: deletion markers older than this are dropped
    MaxFaults,  \* bound: failed requests, refused uploads and stopped servers
    NoFile

ASSUME SyncAssumption ==
    /\ IsFiniteSet(Items) /\ Buttons \subseteq Items /\ IsFiniteSet(Keys)
    /\ MaxTime \in Nat /\ MaxAge \in Nat /\ MaxFaults \in Nat

VARIABLES
    now,        \* the clock: a tick for each thing a user does
    unset,      \* of each variable, the ticks at which it was removed
    shown,      \* the times that an item has had on a device: a browser may still
                \*   show any of them, in its list or in an open form
    faults,     \* failures so far
    cut,        \* history: items whose deletion a stop of the server cut short
    torn,       \* history: variables that changed between GetVars and GetVarsMtime
    stuck,      \* devices where a handler of the scratchpad panicked and left dataMu locked
    \* config.Config, scratchpad and sync-metadata.json of each device
    active,     \* Mtime of a button, LastUpdated of a page; 0: there is none
    text,       \* the tick of the edit that wrote the item; 0: there is none
    leaving,    \* the time of a deletion that has the lock of its store (Config.mu
                \*   or dataMu) and needs metaMu to note the time; 0: none
    tomb,       \* meta.DeletedButtons, meta.DeletedPages; 0: no entry
    vars,       \* VarsMtime; 0: never heard of
    vals,       \* Vars: the tick of the update whose value, or removal, it is
    \* the WebDAV directory
    remote,     \* the names of button_* and scratchpad_* files
    content,    \* the text that a file holds
    rvars,      \* the times in the file config_<time>, or NoFile
    rvals,      \* the values in it
    \* performSync
    step,       \* its next step; "idle" when syncMu is free
    listed, vlisted,    \* remoteFiles, of items and of variables
    snapshot,   \* localButtons, deletedButtons, localPages, deletedPages
    todo,       \* ids not yet looked at
    fetched,    \* buttonsToUpsert, pagesToUpsert: of which files
    body,       \* and the texts downloaded from them
    doomed, vdoomed,    \* remoteFilesToDelete
    localVals, vsnapshot,   \* localVars, localMtime
    got, gotVals        \* remoteMtime, or NoFile: remoteWinner is not loaded; remoteVars

userVars == <<now, unset>>
noteVars == <<cut, torn, stuck>>
itemVars == <<shown, active, text>>
deviceVars == <<itemVars, leaving, tomb>>
varVars == <<vars, vals>>
fileVars == <<remote, content>>
varFileVars == <<rvars, rvals>>
listVars == <<listed, vlisted, snapshot>>
fetchVars == <<fetched, body>>
doomVars == <<doomed, vdoomed>>
readVars == <<localVals, vsnapshot, got, gotVals>>
all == <<userVars, noteVars, faults, deviceVars, varVars, fileVars, varFileVars, step, listVars,
         todo, fetchVars, doomVars, readVars>>

Times == 1..MaxTime
Stamps == 0..MaxTime
Files == [item : Items, time : Times, deleted : BOOLEAN]
VarFiles == [Keys -> Stamps]

TypeOK ==
    /\ now \in Stamps /\ unset \in [Keys -> SUBSET Times] /\ faults \in 0..MaxFaults
    /\ cut \subseteq Items /\ torn \subseteq Keys /\ stuck \subseteq Devices
    /\ shown \in [Devices -> [Items -> SUBSET Times]]
    /\ active \in [Devices -> [Items -> Stamps]]
    /\ text \in [Devices -> [Items -> Stamps]]
    /\ leaving \in [Devices -> [Items -> Stamps]]
    /\ tomb \in [Devices -> [Items -> Stamps]]
    /\ vars \in [Devices -> VarFiles] /\ vals \in [Devices -> VarFiles]
    /\ remote \subseteq Files /\ content \in [Files -> Stamps]
    /\ rvars \in [Times -> VarFiles \cup {NoFile}] /\ rvals \in [Times -> VarFiles]
    /\ step \in [Devices -> {"idle", "clean", "list", "items", "mtime", "merge",
                             "upsert", "delete"}]
    /\ listed \in [Devices -> SUBSET Files] /\ vlisted \in [Devices -> SUBSET Times]
    /\ snapshot \in [Devices -> [Items -> [time : Stamps, text : Stamps, deleted : BOOLEAN]]]
    /\ todo \in [Devices -> SUBSET Items]
    /\ fetched \in [Devices -> SUBSET Files] /\ body \in [Devices -> [Items -> Stamps]]
    /\ doomed \in [Devices -> SUBSET Files] /\ vdoomed \in [Devices -> SUBSET Times]
    /\ localVals \in [Devices -> VarFiles] /\ vsnapshot \in [Devices -> VarFiles]
    /\ got \in [Devices -> VarFiles \cup {NoFile}] /\ gotVals \in [Devices -> VarFiles]

NoItems == [i \in Items |-> 0]

Nothing == [i \in Items |-> [time |-> 0, text |-> 0, deleted |-> FALSE]]

NoVars == [k \in Keys |-> 0]

\* Devices that have just been set up with an empty directory.
Init ==
    /\ now = 0 /\ unset = [k \in Keys |-> {}] /\ faults = 0 /\ cut = {} /\ torn = {} /\ stuck = {}
    /\ shown = [d \in Devices |-> [i \in Items |-> {}]]
    /\ active = [d \in Devices |-> NoItems] /\ text = [d \in Devices |-> NoItems]
    /\ leaving = [d \in Devices |-> NoItems] /\ tomb = [d \in Devices |-> NoItems]
    /\ vars = [d \in Devices |-> NoVars] /\ vals = [d \in Devices |-> NoVars]
    /\ remote = {} /\ content = [f \in Files |-> 0]
    /\ rvars = [t \in Times |-> NoFile] /\ rvals = [t \in Times |-> NoVars]
    /\ step = [d \in Devices |-> "idle"]
    /\ listed = [d \in Devices |-> {}] /\ vlisted = [d \in Devices |-> {}]
    /\ snapshot = [d \in Devices |-> Nothing]
    /\ todo = [d \in Devices |-> {}]
    /\ fetched = [d \in Devices |-> {}] /\ body = [d \in Devices |-> NoItems]
    /\ doomed = [d \in Devices |-> {}] /\ vdoomed = [d \in Devices |-> {}]
    /\ localVals = [d \in Devices |-> NoVars] /\ vsnapshot = [d \in Devices |-> NoVars]
    /\ got = [d \in Devices |-> NoFile] /\ gotVals = [d \in Devices |-> NoVars]

-----------------------------------------------------------------------------
(* What users do meanwhile *)

Past(time, t) == time > t + MaxAge

Expired(t) == Past(now, t)

\* Time goes on; unless it is about an edit nothing else happens.
Clock == now < MaxTime /\ now' = now + 1

Wait ==
    /\ Clock
    /\ UNCHANGED <<unset, noteVars, faults, deviceVars, varVars, fileVars, varFileVars, step,
                   listVars, todo, fetchVars, doomVars, readVars>>

\* The items under one lock: Config.mu, which is that of the variables, too, for
\* buttons, and dataMu for pages.  A deletion has the lock and waits for metaMu.
Locked(d, S) == \E i \in S : leaving[d][i] # 0

\* Who needs dataMu can get it.
PagesFree(d) == ~Locked(d, Items \ Buttons) /\ d \notin stuck

Free(d, i) == IF i \in Buttons THEN ~Locked(d, Buttons) ELSE PagesFree(d)

\* Both locks, one after the other.
AllFree(d) == ~Locked(d, Buttons) /\ PagesFree(d)

\* UpsertButton, MoveButton, or an edit of a page: also of an item that a browser
\* still shows after it was deleted.  UpsertButton keeps the time that a browser
\* sends, which is that of the button in its form.
Edit(d, i) ==
    /\ Free(d, i)
    /\ Clock
    /\ \E t \in {now + 1} \cup (IF i \in Buttons THEN shown[d][i] ELSE {}) :
         /\ active' = [active EXCEPT ![d][i] = t]
         /\ shown' = [shown EXCEPT ![d][i] = @ \cup {t}]
    /\ text' = [text EXCEPT ![d][i] = now + 1]
    /\ UNCHANGED <<unset, noteVars, faults, leaving, tomb, varVars, fileVars, varFileVars, step,
                   listVars, todo, fetchVars, doomVars, readVars>>

\* RemoveButton, or the deletion of a page: with the lock of the store.
Delete(d, i) ==
    /\ Free(d, i)
    /\ active[d][i] # 0
    /\ Clock
    /\ active' = [active EXCEPT ![d][i] = 0]
    /\ text' = [text EXCEPT ![d][i] = 0]
    /\ leaving' = [leaving EXCEPT ![d][i] = now + 1]
    /\ UNCHANGED <<unset, noteVars, faults, shown, tomb, varVars, fileVars, varFileVars, step,
                   listVars, todo, fetchVars, doomVars, readVars>>

\* OnButtonDelete, OnPageDelete: keep the time, under metaMu, which cleanDeletedMaps
\* holds while it waits for the lock of the store.
DeleteNoted(d, i) ==
    /\ leaving[d][i] # 0 /\ step[d] # "clean"
    /\ tomb' = [tomb EXCEPT ![d][i] = leaving[d][i]]
    /\ leaving' = [leaving EXCEPT ![d][i] = 0]
    /\ UNCHANGED <<userVars, noteVars, faults, itemVars, varVars, fileVars, varFileVars, step,
                   listVars, todo, fetchVars, doomVars, readVars>>

\* What a variable is after an update: no value if it was removed, or never set.
Value(k, u) == IF u \in unset[k] THEN 0 ELSE u

\* mutant: whether the variable has a value is not looked at
Forgotten_Set(k, t, u, time) == Past(time, t)

\* A variable has had no value for so long that its time is forgotten.
Forgotten(k, t, u, time) == Value(k, u) = 0 /\ Past(time, t)

\* UpdateVars sets or removes a variable and tidies up after itself.
UpdateVars(d, k, remove) ==
    LET Kept(j) == ~Forgotten(j, vars[d][j], vals[d][j], now + 1) IN
    /\ ~Locked(d, Buttons)
    /\ Clock
    /\ unset' = IF remove THEN [unset EXCEPT ![k] = @ \cup {now + 1}] ELSE unset
    /\ vars' = [vars EXCEPT ![d] = [j \in Keys |-> IF j = k THEN now + 1 ELSE IF Kept(j) THEN @[j] ELSE 0]]
    /\ vals' = [vals EXCEPT ![d] = [j \in Keys |-> IF j = k THEN now + 1 ELSE IF Kept(j) THEN @[j] ELSE 0]]
    /\ torn' = IF step[d] = "mtime" THEN torn \cup {k} ELSE torn
    /\ UNCHANGED <<cut, stuck, faults, deviceVars, fileVars, varFileVars, step, listVars, todo,
                   fetchVars, doomVars, readVars>>

-----------------------------------------------------------------------------
(* performSync *)

Goto(d, s) == step' = [step EXCEPT ![d] = s]

\* What the block that merges the variables had in hand.
DropVars(d) ==
    /\ vlisted' = [vlisted EXCEPT ![d] = {}]
    /\ localVals' = [localVals EXCEPT ![d] = NoVars] /\ vsnapshot' = [vsnapshot EXCEPT ![d] = NoVars]
    /\ got' = [got EXCEPT ![d] = NoFile] /\ gotVals' = [gotVals EXCEPT ![d] = NoVars]

\* What the sync in progress had in hand is dropped when it is over.
Drop(d) ==
    /\ Goto(d, "idle")
    /\ DropVars(d)
    /\ listed' = [listed EXCEPT ![d] = {}]
    /\ snapshot' = [snapshot EXCEPT ![d] = Nothing]
    /\ todo' = [todo EXCEPT ![d] = {}]
    /\ fetched' = [fetched EXCEPT ![d] = {}] /\ body' = [body EXCEPT ![d] = NoItems]
    /\ doomed' = [doomed EXCEPT ![d] = {}] /\ vdoomed' = [vdoomed EXCEPT ![d] = {}]

Fault == faults < MaxFaults /\ faults' = faults + 1

\* A request fails and performSync returns.
Abort(d) ==
    /\ step[d] \notin {"idle", "clean"} /\ Fault
    /\ Drop(d)
    /\ UNCHANGED <<userVars, noteVars, deviceVars, varVars, fileVars, varFileVars>>

\* Two writers of one connection of the scratchpad: the handler that has dataMu
\* panics and leaves it locked (Scratchpad.ServePanics).
Panic(d) ==
    /\ PagesFree(d) /\ Fault
    /\ stuck' = stuck \cup {d}
    /\ UNCHANGED <<userVars, cut, torn, deviceVars, varVars, fileVars, varFileVars, step, listVars,
                   todo, fetchVars, doomVars, readVars>>

\* The server is stopped; a deletion that was not noted yet will never be.
Stop(d) ==
    /\ step[d] # "idle" \/ Locked(d, Items) \/ d \in stuck
    /\ Fault
    /\ Drop(d)
    /\ leaving' = [leaving EXCEPT ![d] = NoItems]
    /\ cut' = cut \cup {i \in Items : leaving[d][i] # 0}
    /\ stuck' = stuck \ {d}
    /\ UNCHANGED <<userVars, torn, itemVars, tomb, varVars, fileVars, varFileVars>>

\* Sync gets syncMu, cleanDeletedMaps gets metaMu.
Start(d) ==
    /\ step[d] = "idle"
    /\ Goto(d, "clean")
    /\ UNCHANGED <<userVars, noteVars, faults, deviceVars, varVars, fileVars, varFileVars, listVars,
                   todo, fetchVars, doomVars, readVars>>

\* cleanDeletedMaps takes the locks of both stores (GetButtons, GetPages), and drops
\* markers that are old, and those of items that exist again.
Clean(d) ==
    /\ step[d] = "clean"
    /\ AllFree(d)
    /\ tomb' = [tomb EXCEPT ![d] = [i \in Items |->
                   IF active[d][i] # 0 \/ Expired(@[i]) THEN 0 ELSE @[i]]]
    /\ Goto(d, "list")
    /\ UNCHANGED <<userVars, noteVars, faults, itemVars, leaving, varVars, fileVars, varFileVars,
                   listVars, todo, fetchVars, doomVars, readVars>>

\* mutant: deletion markers are left out of the snapshot
Local_NoTombs(d, i) == [time |-> active[d][i], text |-> text[d][i], deleted |-> FALSE]

\* localTS, localActive and localDeleted of an item.
Local(d, i) ==
    IF active[d][i] # 0 THEN [time |-> active[d][i], text |-> text[d][i], deleted |-> FALSE]
                        ELSE [time |-> tomb[d][i], text |-> tomb[d][i], deleted |-> TRUE]

\* listRemoteFiles; old deletion markers are to be removed and ignored; the
\* local items are copied.
List(d) ==
    LET old == {f \in remote : f.deleted /\ Expired(f.time)} IN
    /\ step[d] = "list"
    /\ AllFree(d)
    /\ listed' = [listed EXCEPT ![d] = remote \ old]
    /\ vlisted' = [vlisted EXCEPT ![d] = {t \in Times : rvars[t] # NoFile}]
    /\ snapshot' = [snapshot EXCEPT ![d] = [i \in Items |-> Local(d, i)]]
    /\ todo' = [todo EXCEPT ![d] = Items]
    /\ doomed' = [doomed EXCEPT ![d] = old]
    /\ Goto(d, "items")
    /\ UNCHANGED <<userVars, noteVars, faults, deviceVars, varVars, fileVars, varFileVars,
                   fetchVars, vdoomed, readVars>>

FilesOf(d, i) == {f \in listed[d] : f.item = i}

\* remoteTS
RemoteTime(d, i) == Max({f.time : f \in FilesOf(d, i)} \cup {0})

\* remoteWinner
Winner(d, i) == {f \in FilesOf(d, i) : f.time = RemoteTime(d, i)}

\* mutant: the winner is not taken out of remoteFilesToDelete
Losers_All(d, i) == FilesOf(d, i)

\* What goes to remoteFilesToDelete when a winner stays.
Losers(d, i) == FilesOf(d, i) \ Winner(d, i)

\* mutant: what does not exist on either side is uploaded too
LocalNewer_OrEqual(d, i) == snapshot[d][i].time >= RemoteTime(d, i)

LocalNewer(d, i) == snapshot[d][i].time > RemoteTime(d, i)

\* localTS > remoteTS: the item, or its deletion marker, is uploaded.  Only a
\* failing request ends the sync; the status of the answer is not looked at.
Upload(d, i) ==
    LET local == snapshot[d][i]
        file == [item |-> i, time |-> local.time, deleted |-> local.deleted] IN
    /\ step[d] = "items" /\ i \in todo[d]
    /\ LocalNewer(d, i)
    /\ \/ /\ remote' = remote \cup {file}
          /\ content' = [content EXCEPT ![file] = local.text]
          /\ UNCHANGED faults
       \/ Fault /\ UNCHANGED fileVars
    /\ doomed' = [doomed EXCEPT ![d] = @ \cup FilesOf(d, i)]
    /\ todo' = [todo EXCEPT ![d] = @ \ {i}]
    /\ UNCHANGED <<userVars, noteVars, deviceVars, varVars, varFileVars, step, listVars, fetchVars,
                   vdoomed, readVars>>

\* remoteTS > localTS: the winner is downloaded, or its name marks a deletion,
\* which is noted at once.
Download(d, i) ==
    /\ step[d] = "items" /\ i \in todo[d]
    /\ RemoteTime(d, i) > snapshot[d][i].time
    /\ \E f \in Winner(d, i) :
         /\ f.deleted \/ f \in remote
         /\ fetched' = [fetched EXCEPT ![d] = @ \cup {f}]
         /\ body' = IF f.deleted THEN body ELSE [body EXCEPT ![d][i] = content[f]]
         /\ tomb' = IF f.deleted THEN [tomb EXCEPT ![d][i] = f.time] ELSE tomb
    /\ doomed' = [doomed EXCEPT ![d] = @ \cup Losers(d, i)]
    /\ todo' = [todo EXCEPT ![d] = @ \ {i}]
    /\ UNCHANGED <<userVars, noteVars, faults, itemVars, leaving, varVars, fileVars, varFileVars,
                   step, listVars, vdoomed, readVars>>

\* The winner has been deleted since: GET fails and the sync with it.
DownloadFails(d, i) ==
    /\ step[d] = "items" /\ i \in todo[d]
    /\ RemoteTime(d, i) > snapshot[d][i].time
    /\ \E f \in Winner(d, i) : ~f.deleted /\ f \notin remote
    /\ Drop(d)
    /\ UNCHANGED <<userVars, noteVars, faults, deviceVars, varVars, fileVars, varFileVars>>

\* Neither is newer; a winner that exists stays.
UpToDate(d, i) ==
    /\ step[d] = "items" /\ i \in todo[d]
    /\ RemoteTime(d, i) = snapshot[d][i].time
    /\ doomed' = [doomed EXCEPT ![d] = @ \cup Losers(d, i)]
    /\ todo' = [todo EXCEPT ![d] = @ \ {i}]
    /\ UNCHANGED <<userVars, noteVars, faults, deviceVars, varVars, fileVars, varFileVars, step,
                   listVars, fetchVars, vdoomed, readVars>>

\* The name of the vars file that wins, 0 if there is none.
VarsWinner(d) == Max(vlisted[d] \cup {0})

\* When all items are done the values of the variables are copied (GetVars), and
\* their times later.
ReadValues(d) ==
    /\ step[d] = "items" /\ todo[d] = {}
    /\ ~Locked(d, Buttons)
    /\ localVals' = [localVals EXCEPT ![d] = vals[d]]
    /\ Goto(d, "mtime")
    /\ UNCHANGED <<userVars, noteVars, faults, deviceVars, varVars, fileVars, varFileVars, listVars,
                   todo, fetchVars, doomVars, vsnapshot, got, gotVals>>

\* GetVarsMtime, then the newest file is downloaded; when that fails the sync goes
\* on as if there were none.
ReadVars(d) ==
    LET w == VarsWinner(d) IN
    /\ step[d] = "mtime"
    /\ ~Locked(d, Buttons)
    /\ vsnapshot' = [vsnapshot EXCEPT ![d] = vars[d]]
    /\ \/ /\ w # 0 /\ rvars[w] # NoFile
          /\ got' = [got EXCEPT ![d] = rvars[w]] /\ gotVals' = [gotVals EXCEPT ![d] = rvals[w]]
          /\ UNCHANGED faults
       \/ /\ IF w # 0 /\ rvars[w] # NoFile THEN Fault ELSE UNCHANGED faults
          /\ UNCHANGED <<got, gotVals>>
    /\ Goto(d, "merge")
    /\ UNCHANGED <<userVars, noteVars, deviceVars, varVars, fileVars, varFileVars, listVars, todo,
                   fetchVars, doomVars, localVals>>

RemoteVars(d) == IF got[d] = NoFile THEN NoVars ELSE got[d]

\* rTS > lTS: the value that goes with the newer time.
Winning(d, k) ==
    IF RemoteVars(d)[k] > vsnapshot[d][k] THEN gotVals[d][k] ELSE localVals[d][k]

\* mutant: the remote side wins
Merged_Remote(d) ==
    [k \in Keys |-> IF RemoteVars(d)[k] # 0 THEN RemoteVars(d)[k] ELSE vsnapshot[d][k]]

\* mergedMtime: the newer of each, without what was removed long ago.
Merged(d) ==
    [k \in Keys |->
        LET t == Max({RemoteVars(d)[k], vsnapshot[d][k]}) IN
        IF Forgotten(k, t, Winning(d, k), now) THEN 0 ELSE t]

\* mergedVars
MergedVals(d) == [k \in Keys |-> IF Merged(d)[k] = 0 THEN 0 ELSE Winning(d, k)]

Differ(vs, ws) == \E k \in Keys : Value(k, vs[k]) # Value(k, ws[k])

\* SetVars, in place of whatever the variables are by now.
SetVars(d) ==
    IF Merged(d) # vsnapshot[d] \/ Differ(MergedVals(d), localVals[d])
    THEN /\ ~Locked(d, Buttons)
         /\ vars' = [vars EXCEPT ![d] = Merged(d)] /\ vals' = [vals EXCEPT ![d] = MergedVals(d)]
    ELSE UNCHANGED varVars

\* remoteDiffers
RemoteDiffers(d) == Merged(d) # RemoteVars(d) \/ Differ(MergedVals(d), gotVals[d])

\* maxTS, which names the file
VarsTime(d) ==
    LET t == Max({Merged(d)[k] : k \in Keys} \cup {0}) IN IF t = 0 THEN now ELSE t

\* The merged variables are stored; if the winner has others they are uploaded
\* and all listed files are to be removed, whatever the new file is called.
MergeVars(d) ==
    /\ step[d] = "merge"
    /\ SetVars(d)
    /\ IF RemoteDiffers(d)
       THEN /\ \/ /\ rvars' = [rvars EXCEPT ![VarsTime(d)] = Merged(d)]
                  /\ rvals' = [rvals EXCEPT ![VarsTime(d)] = MergedVals(d)]
                  /\ UNCHANGED faults
               \/ Fault /\ UNCHANGED varFileVars
            /\ vdoomed' = [vdoomed EXCEPT ![d] = vlisted[d]]
       ELSE /\ vdoomed' = [vdoomed EXCEPT ![d] =
                    IF got[d] = NoFile THEN vlisted[d] ELSE vlisted[d] \ {VarsWinner(d)}]
            /\ UNCHANGED <<varFileVars, faults>>
    /\ DropVars(d)
    /\ Goto(d, IF fetched[d] = {} THEN "delete" ELSE "upsert")
    /\ UNCHANGED <<userVars, noteVars, deviceVars, fileVars, listed, snapshot, todo, fetchVars,
                   doomed>>

Fetched(d, i) == {f \in fetched[d] : f.item = i}

\* mutant: deletions are not applied
Upsert_KeepsDeleted(d) ==
    /\ step[d] = "upsert"
    /\ active' = [active EXCEPT ![d] = [i \in Items |->
                     IF \E f \in Fetched(d, i) : ~f.deleted
                     THEN (CHOOSE f \in Fetched(d, i) : TRUE).time ELSE @[i]]]
    /\ text' = [text EXCEPT ![d] = [i \in Items |-> IF body[d][i] # 0 THEN body[d][i] ELSE @[i]]]
    /\ Goto(d, "delete")
    /\ UNCHANGED <<userVars, noteVars, faults, shown, leaving, tomb, varVars, fileVars, varFileVars,
                   listVars, todo, fetchVars, doomVars, readVars>>

\* UpsertButtons and UpsertPages with force: what was downloaded replaces what
\* the device has by now; an item that goes has its deletion noted again.
Upsert(d) ==
    LET For(i) == Fetched(d, i)
        New(i) == Max({f.time : f \in {g \in For(i) : ~g.deleted}} \cup {0})
        Gone(i) == active[d][i] # 0 /\ \E f \in For(i) : f.deleted IN
    /\ step[d] = "upsert"
    /\ \A f \in fetched[d] : Free(d, f.item)
    /\ active' = [active EXCEPT ![d] = [i \in Items |-> IF For(i) = {} THEN @[i] ELSE New(i)]]
    /\ text' = [text EXCEPT ![d] = [i \in Items |-> IF For(i) = {} THEN @[i] ELSE body[d][i]]]
    /\ shown' = [shown EXCEPT ![d] = [i \in Items |-> @[i] \cup ({New(i)} \ {0})]]
    /\ tomb' = [tomb EXCEPT ![d] = [i \in Items |->
                   IF Gone(i) THEN Max({f.time : f \in For(i)}) ELSE @[i]]]
    /\ Goto(d, "delete")
    /\ UNCHANGED <<userVars, noteVars, faults, leaving, varVars, fileVars, varFileVars, listVars,
                   todo, fetchVars, doomVars, readVars>>

\* One request for each file; an error is ignored and the file stays.
DeleteFile(d, f) ==
    /\ step[d] = "delete" /\ f \in doomed[d]
    /\ \/ /\ remote' = remote \ {f} /\ content' = [content EXCEPT ![f] = 0]
          /\ UNCHANGED faults
       \/ Fault /\ UNCHANGED fileVars
    /\ doomed' = [doomed EXCEPT ![d] = @ \ {f}]
    /\ UNCHANGED <<userVars, noteVars, deviceVars, varVars, varFileVars, step, listVars, todo,
                   fetchVars, vdoomed, readVars>>

DeleteVarsFile(d, t) ==
    /\ step[d] = "delete" /\ t \in vdoomed[d]
    /\ \/ /\ rvars' = [rvars EXCEPT ![t] = NoFile] /\ rvals' = [rvals EXCEPT ![t] = NoVars]
          /\ UNCHANGED faults
       \/ Fault /\ UNCHANGED varFileVars
    /\ vdoomed' = [vdoomed EXCEPT ![d] = @ \ {t}]
    /\ UNCHANGED <<userVars, noteVars, deviceVars, varVars, fileVars, step, listVars, todo,
                   fetchVars, doomed, readVars>>

Done(d) ==
    /\ step[d] = "delete" /\ doomed[d] = {} /\ vdoomed[d] = {}
    /\ Drop(d)
    /\ UNCHANGED <<userVars, noteVars, faults, deviceVars, varVars, fileVars, varFileVars>>

SyncStep(d) ==
    \/ Start(d) \/ Clean(d) \/ List(d) \/ ReadValues(d) \/ ReadVars(d)
    \/ MergeVars(d) \/ Upsert(d)
    \/ \E i \in Items : Upload(d, i) \/ Download(d, i) \/ DownloadFails(d, i) \/ UpToDate(d, i)
    \/ \E f \in doomed[d] : DeleteFile(d, f)
    \/ \E t \in vdoomed[d] : DeleteVarsFile(d, t)
    \/ Done(d)

-----------------------------------------------------------------------------

Next ==
    \/ Wait
    \/ \E d \in Devices, i \in Items : Edit(d, i) \/ Delete(d, i) \/ DeleteNoted(d, i)
    \/ \E d \in Devices, k \in Keys, remove \in BOOLEAN : UpdateVars(d, k, remove)
    \/ \E d \in Devices : SyncStep(d) \/ Abort(d) \/ Panic(d) \/ Stop(d)

Spec == Init /\ [][Next]_all

\* Init's ticker starts a sync every five minutes; a sync and a deletion go on as
\* soon as the locks they wait for are free.
FairSpec ==
    /\ Spec
    /\ \A d \in Devices : WF_all(SyncStep(d)) /\ \A i \in Items : WF_all(DeleteNoted(d, i))

-----------------------------------------------------------------------------
(* Properties *)

\* The version of an item a device has, deleted or not, and the tick at which it
\* was written or deleted.
Version(d, i) ==
    IF active[d][i] # 0 THEN active[d][i]
    ELSE IF leaving[d][i] # 0 THEN leaving[d][i] ELSE tomb[d][i]
Written(d, i) == IF active[d][i] # 0 THEN text[d][i] ELSE Version(d, i)

\* No step of a sync takes an item of a device back to an older version, or to an
\* older text unless the newer one was saved under an old time; except an item that
\* the user has edited since the sync copied it, a deletion that is forgotten after
\* 30 days, and one that a stop of the server cut short.  So a deleted button does not
\* come back, nor does an old text, because another device, or an aborted sync, left
\* something older behind.
VersionsGrow ==
    [][now' = now =>
         \A d \in Devices, i \in Items :
            \/ /\ Version(d, i)' >= Version(d, i)
               /\ Written(d, i)' >= Written(d, i) \/ Written(d, i) > Version(d, i)
            \/ step[d] \in {"items", "upsert"} /\ snapshot[d][i] # Local(d, i)
            \/ active[d][i] = 0 /\ Expired(tomb[d][i])
            \/ leaving[d][i] # 0 /\ i \in cut']_all

\* The newest version the server has of an item goes away only when a device
\* has a later text, or deletion, of it: deletions of old files, by several devices
\* that listed the directory at different times, and uploads that were refused
\* never leave the last copy nowhere.
NewestRemote(i) == Max({f.time : f \in {g \in remote : g.item = i}} \cup {0})

RemoteLossCovered ==
    [][\A i \in Items :
          NewestRemote(i)' < NewestRemote(i) =>
              \/ Expired(NewestRemote(i))
              \/ \E d \in Devices : Written(d, i) > NewestRemote(i)]_all

\* A variable of a device is never taken back to an older time by a sync, nor to an
\* older value, but for one that changed on some device between the copy of its value
\* and that of its time; unless it was changed since the sync copied it, or its
\* removal, or a newer one that the sync brought, is forgotten.
VarsGrow ==
    [][\A d \in Devices, k \in Keys :
          \/ /\ vars'[d][k] >= vars[d][k]
             /\ vals'[d][k] >= vals[d][k] \/ k \in torn
          \/ step[d] = "merge" /\ vsnapshot[d][k] # vars[d][k]
          \/ \E t \in unset[k] : t >= vars[d][k] /\ Past(now', t)
          \/ k \in torn /\ vars'[d][k] = 0 /\ Past(now', vars[d][k])]_all

\* Of every variable some device has the newest value the server has, or a newer
\* one, unless its removal is forgotten: nothing is lost with a file, although a
\* sync that could not download the file of variables replaces it and deletes it
\* all the same, and one that stores its merge overwrites what was set meanwhile.
NewestVar(k) == Max({rvars[t][k] : t \in {u \in Times : rvars[u] # NoFile}} \cup {0})

Removed(k, t) == \E u \in unset[k] : u >= t /\ Expired(u)

VarsHeld ==
    \A k \in Keys :
        NewestVar(k) # 0 =>
            \/ Removed(k, NewestVar(k))
            \/ k \in torn /\ Expired(NewestVar(k))
            \/ \E d \in Devices : vars[d][k] >= NewestVar(k)

\* A sync that holds metaMu and waits for the lock of a store, and a deletion that
\* holds that lock and waits for metaMu: neither goes on until the server is stopped.
\* Nor does a sync when dataMu was left locked.
Jammed(d) == (step[d] = "clean" /\ Locked(d, Items)) \/ d \in stuck

\* When users have stopped editing, all devices whose locks are not jammed come to
\* have the same versions, and the same texts but for those saved under an old time,
\* and, if there are any, the server one file for each item at most, whatever was in
\* progress.
SameItems ==
    /\ \A d, e \in Devices, i \in Items :
          Jammed(d) \/ Jammed(e) \/
          /\ active[d][i] = active[e][i]
          /\ text[d][i] = text[e][i] \/ text[d][i] > active[d][i] \/ text[e][i] > active[e][i]
    /\ \A i \in Items : Cardinality({f \in remote : f.item = i}) <= 1 \/ \A d \in Devices : Jammed(d)

ItemsSettle == <>[]SameItems

(* What the documentation says and the code does not keep. *)

\* docs/DATA.md:73: variables are synced by "full-automatic sync with other
\* devices": once nobody changes them all devices come to have the same.
SameVars == \A d, e \in Devices : vars[d] = vars[e]

VarsSettle == <>[]SameVars
=============================================================================
