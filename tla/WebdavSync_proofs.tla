--------------------------- MODULE WebdavSync_proofs ---------------------------
(***************************************************************************)
(* Synchronisation takes nothing back and loses nothing, for any devices,  *)
(* items, variables and bounds: VersionsGrow, VarsGrow, RemoteLossCovered  *)
(* and VarsHeld, with the types.                                           *)
(***************************************************************************)
EXTENDS WebdavSync, WellFoundedInduction, TLAPS

Upto(n) == 0 .. n
DatedFiles(n) == [item : Items, time : 1 .. n, deleted : BOOLEAN]
DatedVars(n) == [Keys -> Upto(n)]
Tables(S) == [Devices -> [Items -> S]]
Copies(n) == [time : Upto(n), text : Upto(n), deleted : BOOLEAN]

Before == {"idle", "clean", "list"}
Steps == Before \cup {"items", "mtime", "merge", "upsert", "delete"}

\* TypeOK with no time later than n, group by group.
DatedNotes ==
    faults \in 0 .. MaxFaults /\ cut \subseteq Items /\ torn \subseteq Keys /\ stuck \subseteq Devices
DatedDevices(n) ==
    /\ shown \in Tables(SUBSET (1 .. n))
    /\ active \in Tables(Upto(n)) /\ text \in Tables(Upto(n))
    /\ leaving \in Tables(Upto(n)) /\ tomb \in Tables(Upto(n))
DatedVarVars(n) == vars \in [Devices -> DatedVars(n)] /\ vals \in [Devices -> DatedVars(n)]
DatedFileVars(n) == remote \subseteq DatedFiles(n) /\ content \in [Files -> Upto(n)]
DatedVarFiles(n) ==
    rvars \in [Times -> DatedVars(n) \cup {NoFile}] /\ rvals \in [Times -> DatedVars(n)]
DatedSteps == step \in [Devices -> Steps] /\ todo \in [Devices -> SUBSET Items]
DatedLists(n) == listed \in [Devices -> SUBSET DatedFiles(n)] /\ snapshot \in Tables(Copies(n))
DatedListed == vlisted \in [Devices -> SUBSET Times]
DatedFetch(n) == fetched \in [Devices -> SUBSET DatedFiles(n)] /\ body \in Tables(Upto(n))
DatedDoom(n) ==
    doomed \in [Devices -> SUBSET DatedFiles(n)] /\ vdoomed \in [Devices -> SUBSET Times]
DatedReads(n) ==
    /\ localVals \in [Devices -> DatedVars(n)] /\ vsnapshot \in [Devices -> DatedVars(n)]
    /\ got \in [Devices -> DatedVars(n) \cup {NoFile}] /\ gotVals \in [Devices -> DatedVars(n)]

Dated(n) ==
    /\ unset \in [Keys -> SUBSET (1 .. n)] /\ DatedNotes
    /\ DatedDevices(n) /\ DatedVarVars(n) /\ DatedFileVars(n) /\ DatedVarFiles(n)
    /\ DatedSteps /\ DatedLists(n) /\ DatedListed /\ DatedFetch(n) /\ DatedDoom(n) /\ DatedReads(n)

-----------------------------------------------------------------------------
(* The maximum of times.                                                   *)

LEMMA NatsFounded == IsWellFoundedOn({p \in Nat \X Nat : p[1] < p[2]}, Nat)
BY NatLessThanWellFounded, Zenon DEF OpToRel

\* A set of numbers up to n that is not empty has a maximum.
LEMMA MaxOf ==
    ASSUME NEW n \in Nat, NEW S \in SUBSET (0 .. n), S # {}
    PROVE  Max(S) \in S /\ \A x \in S : Max(S) >= x
<1> DEFINE T == {n - x : x \in S}
<1>1. T \subseteq Nat
  OBVIOUS
<1>2. T # {}
  <2>1. PICK x \in S : TRUE
    OBVIOUS
  <2>2. n - x \in T
    OBVIOUS
  <2> QED BY <2>2
<1>3. PICK t \in T : \A u \in T : ~ (<<u, t>> \in {p \in Nat \X Nat : p[1] < p[2]})
  BY <1>1, <1>2, NatsFounded, WFMin
<1>4. PICK m \in S : t = n - m
  OBVIOUS
<1>5. \A x \in S : m >= x
  <2> TAKE x \in S
  <2>1. n - x \in T /\ n - x \in Nat /\ t \in Nat
    BY <1>1
  <2>2. ~ (n - x < t)
    BY <1>3, <2>1
  <2> QED BY <1>4, <2>1, <2>2
<1> QED BY <1>5 DEF Max

LEMMA RemoteTimeDated ==
    ASSUME NEW n \in Nat, Dated(n), NEW d \in Devices, NEW i \in Items
    PROVE  /\ RemoteTime(d, i) \in Upto(n)
           /\ FilesOf(d, i) \subseteq DatedFiles(n) /\ Winner(d, i) \subseteq DatedFiles(n)
<1>1. FilesOf(d, i) \subseteq DatedFiles(n)
  BY DEF FilesOf, Dated, DatedLists
<1>2. {f.time : f \in FilesOf(d, i)} \cup {0} \subseteq 0 .. n
  BY <1>1 DEF DatedFiles
<1>3. RemoteTime(d, i) \in {f.time : f \in FilesOf(d, i)} \cup {0}
  BY <1>2, MaxOf DEF RemoteTime
<1> QED BY <1>1, <1>2, <1>3 DEF Winner, Upto

\* Times that have come by n have come by any later time.
LEMMA DatedGrows ==
    ASSUME NEW n \in Nat, Dated(n)
    PROVE  Dated(n + 1)
<1>1. Upto(n) \subseteq Upto(n + 1) /\ 1 .. n \subseteq 1 .. (n + 1)
  BY DEF Upto
<1>2. /\ DatedFiles(n) \subseteq DatedFiles(n + 1) /\ DatedVars(n) \subseteq DatedVars(n + 1)
      /\ Copies(n) \subseteq Copies(n + 1)
      /\ Tables(Upto(n)) \subseteq Tables(Upto(n + 1))
      /\ Tables(SUBSET (1 .. n)) \subseteq Tables(SUBSET (1 .. (n + 1)))
  BY <1>1 DEF DatedFiles, DatedVars, Copies, Tables
<1>3. Tables(Copies(n)) \subseteq Tables(Copies(n + 1))
  BY <1>2 DEF Tables
<1>4. unset \in [Keys -> SUBSET (1 .. (n + 1))]
  BY <1>1 DEF Dated
<1>5. DatedDevices(n + 1) /\ DatedVarVars(n + 1)
  BY <1>2 DEF Dated, DatedDevices, DatedVarVars
<1>6. DatedFileVars(n + 1)
  BY <1>1, <1>2 DEF Dated, DatedFileVars
<1>7. DatedVarFiles(n + 1) /\ DatedReads(n + 1)
  BY <1>2 DEF Dated, DatedVarFiles, DatedReads
<1>8. DatedLists(n + 1) /\ DatedFetch(n + 1) /\ DatedDoom(n + 1)
  BY <1>2, <1>3 DEF Dated, DatedLists, DatedFetch, DatedDoom
<1> QED BY <1>4, <1>5, <1>6, <1>7, <1>8 DEF Dated

LEMMA TableSet ==
    ASSUME NEW S, NEW f \in Tables(S), NEW d \in Devices, NEW i \in Items, NEW x \in S
    PROVE  /\ [f EXCEPT ![d][i] = x] \in Tables(S)
           /\ [f EXCEPT ![d][i] = x][d][i] = x
           /\ \A e \in Devices, j \in Items :
                 ~(e = d /\ j = i) => [f EXCEPT ![d][i] = x][e][j] = f[e][j]
BY DEF Tables

LEMMA RowSet ==
    ASSUME NEW S, NEW f \in [Devices -> S], NEW d \in Devices, NEW x \in S
    PROVE  /\ [f EXCEPT ![d] = x] \in [Devices -> S]
           /\ [f EXCEPT ![d] = x][d] = x
           /\ \A e \in Devices : e # d => [f EXCEPT ![d] = x][e] = f[e]
OBVIOUS

-----------------------------------------------------------------------------
(* Which steps change what.                                                *)

Edits == \E d \in Devices, i \in Items : Edit(d, i) \/ Delete(d, i)
Updates == \E d \in Devices, k \in Keys, remove \in BOOLEAN : UpdateVars(d, k, remove)
Deletes == \E d \in Devices : \E f \in doomed[d] : DeleteFile(d, f)
VarsDeletes == \E d \in Devices : \E t \in vdoomed[d] : DeleteVarsFile(d, t)
Goes(d) ==
    \/ Start(d) \/ Clean(d) \/ List(d) \/ ReadValues(d) \/ ReadVars(d) \/ MergeVars(d) \/ Upsert(d)
Judged == \E d \in Devices, i \in Items : Upload(d, i) \/ Download(d, i) \/ UpToDate(d, i)

Frame ==
    /\ UNCHANGED userVars \/ Wait \/ Edits \/ Updates
    /\ UNCHANGED faults \/ Fault
    /\ UNCHANGED noteVars \/ Updates \/ \E d \in Devices : Panic(d) \/ Stop(d)
    /\ \/ UNCHANGED deviceVars \/ Edits
       \/ \E d \in Devices, i \in Items : DeleteNoted(d, i) \/ Download(d, i)
       \/ \E d \in Devices : Clean(d) \/ Upsert(d) \/ Stop(d)
    /\ UNCHANGED varVars \/ Updates \/ \E d \in Devices : MergeVars(d)
    /\ UNCHANGED fileVars \/ Deletes \/ \E d \in Devices, i \in Items : Upload(d, i)
    /\ UNCHANGED varFileVars \/ VarsDeletes \/ \E d \in Devices : MergeVars(d)
    /\ UNCHANGED step \/ \E d \in Devices : Drop(d) \/ Goes(d)
    /\ UNCHANGED <<listed, snapshot>> \/ \E d \in Devices : Drop(d) \/ List(d)
    /\ UNCHANGED vlisted \/ \E d \in Devices : DropVars(d) \/ List(d)
    /\ UNCHANGED todo \/ Judged \/ \E d \in Devices : Drop(d) \/ List(d)
    /\ UNCHANGED fetchVars \/ Judged \/ \E d \in Devices : Drop(d)
    /\ UNCHANGED doomed \/ Judged \/ Deletes \/ \E d \in Devices : Drop(d) \/ List(d)
    /\ UNCHANGED vdoomed \/ VarsDeletes \/ \E d \in Devices : Drop(d) \/ MergeVars(d)
    /\ UNCHANGED readVars \/ \E d \in Devices : DropVars(d) \/ ReadValues(d) \/ ReadVars(d)

LEMMA Framed ==
    ASSUME [Next]_all
    PROVE  Frame
<1> USE DEF Frame
<1>1. CASE UNCHANGED all
  BY <1>1 DEF all, listVars, fetchVars, doomVars
<1>2. CASE Wait
  BY <1>2 DEF Wait, listVars, doomVars
<1>3. ASSUME NEW d \in Devices, NEW i \in Items, Edit(d, i) \/ Delete(d, i)
      PROVE  Frame
  BY <1>3 DEF Edit, Delete, Edits, listVars, doomVars
<1>4. ASSUME NEW d \in Devices, NEW i \in Items, DeleteNoted(d, i)
      PROVE  Frame
  BY <1>4 DEF DeleteNoted, listVars, doomVars
<1>5. CASE Updates
  <2>1. /\ UNCHANGED <<faults, deviceVars, fileVars, varFileVars, step, listVars, todo, fetchVars,
                      doomVars, readVars>>
    BY <1>5 DEF Updates, UpdateVars
  <2> QED BY <1>5, <2>1 DEF listVars, doomVars
<1>6. ASSUME NEW d \in Devices, Stop(d)
      PROVE  Frame
  BY <1>6 DEF Stop, Drop
<1>20. ASSUME NEW d \in Devices, Panic(d)
       PROVE  Frame
  BY <1>20 DEF Panic, listVars, doomVars
<1>7. ASSUME NEW d \in Devices, Abort(d) \/ Done(d)
      PROVE  Frame
  BY <1>7 DEF Abort, Done, Drop
<1>8. ASSUME NEW d \in Devices, NEW i \in Items, DownloadFails(d, i)
      PROVE  Frame
  BY <1>8 DEF DownloadFails, Drop
<1>9. ASSUME NEW d \in Devices, Start(d) \/ Clean(d)
      PROVE  Frame
  BY <1>9 DEF Start, Clean, Goes, listVars, doomVars
<1>10. ASSUME NEW d \in Devices, List(d)
       PROVE  Frame
  BY <1>10 DEF List, Goes
<1>11. ASSUME NEW d \in Devices, ReadValues(d)
       PROVE  Frame
  BY <1>11 DEF ReadValues, Goes, listVars, doomVars
<1>12. ASSUME NEW d \in Devices, ReadVars(d)
       PROVE  Frame
  BY <1>12 DEF ReadVars, Goes, listVars, doomVars
<1>13. ASSUME NEW d \in Devices, MergeVars(d)
       PROVE  Frame
  BY <1>13 DEF MergeVars, Goes
<1>14. ASSUME NEW d \in Devices, Upsert(d)
       PROVE  Frame
  BY <1>14 DEF Upsert, Goes, listVars, doomVars
<1>15. ASSUME NEW d \in Devices, NEW i \in Items, Upload(d, i)
       PROVE  Frame
  BY <1>15 DEF Upload, Judged, listVars, doomVars
<1>16. ASSUME NEW d \in Devices, NEW i \in Items, Download(d, i)
       PROVE  Frame
  BY <1>16 DEF Download, Judged, listVars, doomVars
<1>17. ASSUME NEW d \in Devices, NEW i \in Items, UpToDate(d, i)
       PROVE  Frame
  BY <1>17 DEF UpToDate, Judged, listVars, doomVars
<1>18. CASE Deletes
  <2>1. /\ UNCHANGED <<userVars, noteVars, deviceVars, varVars, varFileVars, step, listVars, todo,
                      fetchVars, vdoomed, readVars>>
        /\ UNCHANGED faults \/ Fault
    BY <1>18 DEF Deletes, DeleteFile
  <2> QED BY <1>18, <2>1 DEF listVars
<1>19. CASE VarsDeletes
  <2>1. /\ UNCHANGED <<userVars, noteVars, deviceVars, varVars, fileVars, step, listVars, todo,
                      fetchVars, doomed, readVars>>
        /\ UNCHANGED faults \/ Fault
    BY <1>19 DEF VarsDeletes, DeleteVarsFile
  <2> QED BY <1>19, <2>1 DEF listVars
<1> QED
  BY <1>1, <1>2, <1>3, <1>4, <1>5, <1>6, <1>7, <1>8, <1>9, <1>10, <1>11, <1>12, <1>13, <1>14, <1>15,
     <1>16, <1>17, <1>18, <1>19, <1>20 DEF Next, SyncStep, Updates, Deletes, VarsDeletes

\* A lock that is free is not held by a deletion.
LEMMA FreeSays ==
    ASSUME NEW d \in Devices, NEW i \in Items, Free(d, i) \/ AllFree(d)
    PROVE  leaving[d][i] = 0
BY DEF Free, AllFree, PagesFree, Locked

-----------------------------------------------------------------------------
(* Each step keeps Dated.                                                  *)

LEMMA UnsetDated ==
    ASSUME NEW n \in Nat, Dated(n), now \in Nat, n = now', [Next]_all
    PROVE  unset' \in [Keys -> SUBSET (1 .. n)]
<1>1. UNCHANGED unset \/ Wait \/ Edits \/ Updates
  BY Framed DEF Frame, userVars
<1>2. CASE UNCHANGED unset \/ Wait \/ Edits
  BY <1>2 DEF Wait, Edits, Edit, Delete, Dated
<1>3. CASE Updates
  <2>1. PICK k \in Keys : /\ unset' = unset \/ unset' = [unset EXCEPT ![k] = @ \cup {now + 1}]
                          /\ now' = now + 1
    BY <1>3 DEF Updates, UpdateVars, Clock
  <2>2. unset \in [Keys -> SUBSET (1 .. n)] /\ now + 1 \in 1 .. n
    BY <2>1 DEF Dated
  <2>3. unset[k] \cup {now + 1} \in SUBSET (1 .. n)
    BY <2>2
  <2> QED BY <2>1, <2>2, <2>3
<1> QED BY <1>1, <1>2, <1>3

LEMMA NotesDated ==
    ASSUME NEW n \in Nat, Dated(n), [Next]_all
    PROVE  DatedNotes'
<1>1. faults' \in 0 .. MaxFaults
  BY Framed, SyncAssumption DEF Frame, Fault, Dated, DatedNotes
<1>2. cut' \subseteq Items /\ torn' \subseteq Keys /\ stuck' \subseteq Devices
  <2>1. CASE UNCHANGED noteVars
    BY <2>1 DEF noteVars, Dated, DatedNotes
  <2>2. CASE Updates
    BY <2>2 DEF Updates, UpdateVars, Dated, DatedNotes
  <2>3. CASE \E d \in Devices : Panic(d) \/ Stop(d)
    BY <2>3 DEF Panic, Stop, Dated, DatedNotes
  <2> QED BY <2>1, <2>2, <2>3, Framed DEF Frame
<1> QED BY <1>1, <1>2 DEF DatedNotes

LEMMA EditsDated ==
    ASSUME NEW n \in Nat, Dated(n), now \in Nat, n = now', Edits
    PROVE  DatedDevices(n)'
<1>1. /\ shown \in Tables(SUBSET (1 .. n)) /\ active \in Tables(Upto(n)) /\ text \in Tables(Upto(n))
      /\ leaving \in Tables(Upto(n)) /\ tomb \in Tables(Upto(n))
  BY DEF Dated, DatedDevices
<1>2. PICK d \in Devices, i \in Items : Edit(d, i) \/ Delete(d, i)
  BY DEF Edits
<1>3. n = now + 1 /\ n \in Upto(n) /\ n \in 1 .. n /\ 0 \in Upto(n)
  BY <1>2 DEF Edit, Delete, Clock, Upto
<1>4. CASE Edit(d, i)
  <2>1. PICK t \in {now + 1} \cup shown[d][i] : /\ active' = [active EXCEPT ![d][i] = t]
                                                /\ shown' = [shown EXCEPT ![d][i] = @ \cup {t}]
    BY <1>4 DEF Edit
  <2>2. shown[d][i] \subseteq 1 .. n
    BY <1>1 DEF Tables
  <2>3. t \in Upto(n) /\ shown[d][i] \cup {t} \in SUBSET (1 .. n)
    BY <1>3, <2>1, <2>2 DEF Upto
  <2>4. active' \in Tables(Upto(n))
    BY <1>1, <2>1, <2>3, TableSet
  <2>5. shown' \in Tables(SUBSET (1 .. n))
    <3>1. shown' = [shown EXCEPT ![d][i] = shown[d][i] \cup {t}]
      BY <2>1
    <3> QED BY <1>1, <2>3, <3>1, TableSet
  <2>6. text' \in Tables(Upto(n)) /\ UNCHANGED <<leaving, tomb>>
    <3>1. text' = [text EXCEPT ![d][i] = n] /\ UNCHANGED <<leaving, tomb>>
      BY <1>3, <1>4 DEF Edit
    <3> QED BY <1>1, <1>3, <3>1, TableSet
  <2> QED BY <1>1, <2>4, <2>5, <2>6 DEF DatedDevices
<1>5. CASE Delete(d, i)
  <2>1. /\ active' = [active EXCEPT ![d][i] = 0] /\ text' = [text EXCEPT ![d][i] = 0]
        /\ leaving' = [leaving EXCEPT ![d][i] = n] /\ UNCHANGED <<shown, tomb>>
    BY <1>3, <1>5 DEF Delete
  <2> QED BY <1>1, <1>3, <2>1, TableSet DEF DatedDevices
<1> QED BY <1>2, <1>4, <1>5

LEMMA UpsertDated ==
    ASSUME NEW n \in Nat, Dated(n), NEW d \in Devices, Upsert(d)
    PROVE  DatedDevices(n)'
<1> DEFINE For(i) == Fetched(d, i)
           New(i) == Max({f.time : f \in {g \in For(i) : ~g.deleted}} \cup {0})
           Gone(i) == active[d][i] # 0 /\ \E f \in For(i) : f.deleted
           acts == [i \in Items |-> IF For(i) = {} THEN active[d][i] ELSE New(i)]
           texts == [i \in Items |-> IF For(i) = {} THEN text[d][i] ELSE body[d][i]]
           shows == [i \in Items |-> shown[d][i] \cup ({New(i)} \ {0})]
           tombs == [i \in Items |-> IF Gone(i) THEN Max({f.time : f \in For(i)}) ELSE tomb[d][i]]
<1>1. \A i \in Items : For(i) \subseteq DatedFiles(n)
  BY DEF Dated, DatedFetch, Fetched
<1>2. /\ shown \in Tables(SUBSET (1 .. n)) /\ active \in Tables(Upto(n)) /\ text \in Tables(Upto(n))
      /\ leaving \in Tables(Upto(n)) /\ tomb \in Tables(Upto(n)) /\ body \in Tables(Upto(n))
  BY DEF Dated, DatedDevices, DatedFetch
<1>3. \A i \in Items : New(i) \in Upto(n)
  <2> TAKE i \in Items
  <2>1. {f.time : f \in {g \in For(i) : ~g.deleted}} \cup {0} \in SUBSET (0 .. n)
    BY <1>1 DEF DatedFiles
  <2> QED BY <2>1, MaxOf DEF Upto
<1>4. \A i \in Items : Gone(i) => Max({f.time : f \in For(i)}) \in Upto(n)
  <2> TAKE i \in Items
  <2> HAVE Gone(i)
  <2>1. {f.time : f \in For(i)} \in SUBSET (0 .. n) /\ {f.time : f \in For(i)} # {}
    BY <1>1 DEF DatedFiles
  <2> QED BY <2>1, MaxOf DEF Upto
<1>5. /\ active' = [active EXCEPT ![d] = acts] /\ text' = [text EXCEPT ![d] = texts]
      /\ shown' = [shown EXCEPT ![d] = shows] /\ tomb' = [tomb EXCEPT ![d] = tombs]
      /\ leaving' = leaving
  BY DEF Upsert
<1> HIDE DEF New, Gone
<1>6. acts \in [Items -> Upto(n)] /\ texts \in [Items -> Upto(n)]
  BY <1>2, <1>3 DEF Tables
<1>7. shows \in [Items -> SUBSET (1 .. n)]
  <2>1. ASSUME NEW i \in Items
        PROVE  shown[d][i] \cup ({New(i)} \ {0}) \in SUBSET (1 .. n)
    BY <1>2, <1>3 DEF Tables, Upto
  <2> QED BY <2>1
<1>8. tombs \in [Items -> Upto(n)]
  BY <1>2, <1>4 DEF Tables
<1> HIDE DEF acts, texts, shows, tombs
<1>9. active' \in Tables(Upto(n)) /\ text' \in Tables(Upto(n))
  BY <1>2, <1>5, <1>6 DEF Tables
<1>10. shown' \in Tables(SUBSET (1 .. n)) /\ tomb' \in Tables(Upto(n))
  BY <1>2, <1>5, <1>7, <1>8 DEF Tables
<1> QED BY <1>2, <1>5, <1>9, <1>10 DEF DatedDevices

LEMMA DevicesDated ==
    ASSUME NEW n \in Nat, Dated(n), now \in Nat, n = now', [Next]_all
    PROVE  DatedDevices(n)'
<1>1. /\ shown \in Tables(SUBSET (1 .. n)) /\ active \in Tables(Upto(n)) /\ text \in Tables(Upto(n))
      /\ leaving \in Tables(Upto(n)) /\ tomb \in Tables(Upto(n)) /\ 0 \in Upto(n)
  BY DEF Dated, DatedDevices, Upto
<1>2. CASE UNCHANGED deviceVars
  BY <1>1, <1>2 DEF deviceVars, itemVars, DatedDevices
<1>3. CASE Edits
  BY <1>3, EditsDated
<1>4. CASE \E d \in Devices, i \in Items : DeleteNoted(d, i)
  <2>1. PICK d \in Devices, i \in Items : DeleteNoted(d, i)
    BY <1>4
  <2>2. /\ tomb' = [tomb EXCEPT ![d][i] = leaving[d][i]] /\ leaving' = [leaving EXCEPT ![d][i] = 0]
        /\ UNCHANGED itemVars
    BY <2>1 DEF DeleteNoted
  <2>3. leaving[d][i] \in Upto(n)
    BY <1>1 DEF Tables
  <2> QED BY <1>1, <2>2, <2>3, TableSet DEF itemVars, DatedDevices
<1>5. CASE \E d \in Devices, i \in Items : Download(d, i)
  <2>1. PICK d \in Devices, i \in Items : Download(d, i)
    BY <1>5
  <2>2. PICK f \in Winner(d, i) :
            tomb' = (IF f.deleted THEN [tomb EXCEPT ![d][i] = f.time] ELSE tomb)
    BY <2>1 DEF Download
  <2>3. f.time \in Upto(n)
    BY RemoteTimeDated DEF DatedFiles, Upto
  <2>4. tomb' \in Tables(Upto(n))
    BY <1>1, <2>2, <2>3, TableSet
  <2> QED BY <1>1, <2>1, <2>4 DEF Download, itemVars, DatedDevices
<1>6. CASE \E d \in Devices : Clean(d)
  <2>1. PICK d \in Devices : Clean(d)
    BY <1>6
  <2>2. tomb' \in Tables(Upto(n))
    BY <1>1, <2>1 DEF Clean, Tables
  <2> QED BY <1>1, <2>1, <2>2 DEF Clean, itemVars, DatedDevices
<1>7. CASE \E d \in Devices : Upsert(d)
  BY <1>7, UpsertDated
<1>8. CASE \E d \in Devices : Stop(d)
  <2>1. PICK d \in Devices : Stop(d)
    BY <1>8
  <2>2. leaving' \in Tables(Upto(n))
    BY <1>1, <2>1 DEF Stop, NoItems, Tables
  <2> QED BY <1>1, <2>1, <2>2 DEF Stop, itemVars, DatedDevices
<1> QED BY <1>2, <1>3, <1>4, <1>5, <1>6, <1>7, <1>8, Framed DEF Frame

\* The newer of two times, or none when it is forgotten, and the value that goes with it.
LEMMA MergedDated ==
    ASSUME NEW n \in Nat, Dated(n), NEW d \in Devices
    PROVE  /\ Merged(d) \in DatedVars(n) /\ MergedVals(d) \in DatedVars(n)
           /\ \A k \in Keys : RemoteVars(d)[k] \in 0 .. n /\ vsnapshot[d][k] \in 0 .. n
           /\ \A k \in Keys : \E t \in 0 .. n :
                 /\ t >= vsnapshot[d][k] /\ t >= RemoteVars(d)[k]
                 /\ t = IF RemoteVars(d)[k] > vsnapshot[d][k] THEN RemoteVars(d)[k] ELSE vsnapshot[d][k]
                 /\ Merged(d)[k] = IF Forgotten(k, t, Winning(d, k), now) THEN 0 ELSE t
           /\ \A k \in Keys : MergedVals(d)[k] = IF Merged(d)[k] = 0 THEN 0 ELSE Winning(d, k)
<1>1. ASSUME NEW k \in Keys
      PROVE  /\ vsnapshot[d][k] \in 0 .. n /\ RemoteVars(d)[k] \in 0 .. n
             /\ localVals[d][k] \in 0 .. n /\ gotVals[d][k] \in 0 .. n
  BY DEF Dated, DatedReads, DatedVars, Upto, RemoteVars, NoVars
<1>2. ASSUME NEW k \in Keys
      PROVE  \E t \in 0 .. n :
                 /\ t >= vsnapshot[d][k] /\ t >= RemoteVars(d)[k]
                 /\ t = IF RemoteVars(d)[k] > vsnapshot[d][k] THEN RemoteVars(d)[k] ELSE vsnapshot[d][k]
                 /\ Merged(d)[k] = IF Forgotten(k, t, Winning(d, k), now) THEN 0 ELSE t
  <2>1. PICK t : t = Max({RemoteVars(d)[k], vsnapshot[d][k]})
    OBVIOUS
  <2>2. {RemoteVars(d)[k], vsnapshot[d][k]} \in SUBSET (0 .. n)
    BY <1>1
  <2>3. /\ t \in {RemoteVars(d)[k], vsnapshot[d][k]}
        /\ t >= vsnapshot[d][k] /\ t >= RemoteVars(d)[k]
    BY <2>1, <2>2, MaxOf
  <2>4. t = IF RemoteVars(d)[k] > vsnapshot[d][k] THEN RemoteVars(d)[k] ELSE vsnapshot[d][k]
    BY <1>1, <2>3
  <2>5. Merged(d)[k] = IF Forgotten(k, t, Winning(d, k), now) THEN 0 ELSE t
    BY <2>1 DEF Merged
  <2>6. t \in 0 .. n
    BY <2>2, <2>3
  <2> QED BY <2>3, <2>4, <2>5, <2>6
<1>3. \A k \in Keys : Winning(d, k) \in 0 .. n
  BY <1>1 DEF Winning
<1>4. \A k \in Keys : Merged(d)[k] \in Upto(n)
  BY <1>2 DEF Upto
<1>5. Merged(d) \in DatedVars(n)
  <2>1. PICK m : m = Merged(d)
    OBVIOUS
  <2>2. m = [k \in Keys |-> m[k]]
    BY <2>1 DEF Merged
  <2> QED BY <1>4, <2>1, <2>2 DEF DatedVars
<1>6. MergedVals(d) = [k \in Keys |-> IF Merged(d)[k] = 0 THEN 0 ELSE Winning(d, k)]
  BY DEF MergedVals
<1>7. MergedVals(d) \in DatedVars(n)
  BY <1>3, <1>6 DEF DatedVars, Upto
<1> QED BY <1>1, <1>2, <1>5, <1>6, <1>7

LEMMA VarVarsDated ==
    ASSUME NEW n \in Nat, Dated(n), now \in Nat, n = now', [Next]_all
    PROVE  DatedVarVars(n)'
<1>1. vars \in [Devices -> DatedVars(n)] /\ vals \in [Devices -> DatedVars(n)]
  BY DEF Dated, DatedVarVars
<1>2. CASE UNCHANGED varVars
  BY <1>1, <1>2 DEF varVars, DatedVarVars
<1>3. ASSUME NEW d \in Devices, NEW v \in DatedVars(n), NEW w \in DatedVars(n),
             vars' = [vars EXCEPT ![d] = v], vals' = [vals EXCEPT ![d] = w]
      PROVE  DatedVarVars(n)'
  BY <1>1, <1>3, RowSet DEF DatedVarVars
<1>4. CASE Updates
  <2>1. PICK d \in Devices, k \in Keys, r \in BOOLEAN : UpdateVars(d, k, r)
    BY <1>4 DEF Updates
  <2>2. now + 1 \in Upto(n) /\ 0 \in Upto(n)
    BY <2>1 DEF UpdateVars, Clock, Upto
  <2> DEFINE Kept(j) == ~Forgotten(j, vars[d][j], vals[d][j], now + 1)
             New(f) == [j \in Keys |-> IF j = k THEN now + 1 ELSE IF Kept(j) THEN f[d][j] ELSE 0]
  <2>3. vars' = [vars EXCEPT ![d] = New(vars)] /\ vals' = [vals EXCEPT ![d] = New(vals)]
    BY <2>1 DEF UpdateVars
  <2>4. New(vars) \in DatedVars(n) /\ New(vals) \in DatedVars(n)
    <3> HIDE DEF Kept
    <3> QED BY <1>1, <2>2 DEF DatedVars
  <2> HIDE DEF New
  <2> QED BY <1>3, <2>3, <2>4
<1>5. CASE \E d \in Devices : MergeVars(d)
  <2>1. PICK d \in Devices : SetVars(d)
    BY <1>5 DEF MergeVars
  <2>2. \/ vars' = [vars EXCEPT ![d] = Merged(d)] /\ vals' = [vals EXCEPT ![d] = MergedVals(d)]
        \/ UNCHANGED varVars
    BY <2>1 DEF SetVars
  <2> QED BY <1>2, <1>3, <2>2, MergedDated
<1> QED BY <1>2, <1>4, <1>5, Framed DEF Frame

LEMMA FileVarsDated ==
    ASSUME NEW n \in Nat, Dated(n), [Next]_all
    PROVE  DatedFileVars(n)'
<1>1. remote \subseteq DatedFiles(n) /\ content \in [Files -> Upto(n)] /\ 0 \in Upto(n)
  BY DEF Dated, DatedFileVars, Upto
<1>2. CASE UNCHANGED fileVars
  BY <1>1, <1>2 DEF fileVars, DatedFileVars
<1>3. CASE \E d \in Devices, i \in Items : Upload(d, i)
  <2>1. PICK d \in Devices, i \in Items : Upload(d, i)
    BY <1>3
  <2>2. PICK c : c = snapshot[d][i]
    OBVIOUS
  <2>3. c \in Copies(n) /\ c.time > RemoteTime(d, i)
    BY <2>1, <2>2 DEF Upload, LocalNewer, Dated, DatedLists, Tables
  <2>4. c.time \in 1 .. n /\ c.text \in Upto(n) /\ c.deleted \in BOOLEAN
    <3>1. c.time \in 0 .. n /\ c.text \in Upto(n) /\ c.deleted \in BOOLEAN
      BY <2>3 DEF Copies, Upto
    <3>2. RemoteTime(d, i) \in 0 .. n
      BY RemoteTimeDated DEF Upto
    <3> QED BY <2>3, <3>1, <3>2
  <2>5. PICK file : file = [item |-> i, time |-> c.time, deleted |-> c.deleted]
    OBVIOUS
  <2>6. file \in DatedFiles(n)
    BY <2>4, <2>5 DEF DatedFiles
  <2>7. \/ UNCHANGED fileVars
        \/ remote' = remote \cup {file} /\ content' = [content EXCEPT ![file] = c.text]
    BY <2>1, <2>2, <2>5 DEF Upload
  <2> QED BY <1>1, <1>2, <2>4, <2>6, <2>7 DEF DatedFileVars
<1>4. CASE Deletes
  <2>1. PICK d \in Devices : \E f \in doomed[d] : DeleteFile(d, f)
    BY <1>4 DEF Deletes
  <2>2. PICK f \in doomed[d] : \/ remote' = remote \ {f} /\ content' = [content EXCEPT ![f] = 0]
                               \/ UNCHANGED fileVars
    BY <2>1 DEF DeleteFile
  <2> QED BY <1>1, <1>2, <2>2 DEF DatedFileVars
<1> QED BY <1>2, <1>3, <1>4, Framed DEF Frame

LEMMA VarFilesDated ==
    ASSUME NEW n \in Nat, Dated(n), [Next]_all
    PROVE  DatedVarFiles(n)'
<1>1. rvars \in [Times -> DatedVars(n) \cup {NoFile}] /\ rvals \in [Times -> DatedVars(n)]
  BY DEF Dated, DatedVarFiles
<1>2. CASE UNCHANGED varFileVars
  BY <1>1, <1>2 DEF varFileVars, DatedVarFiles
<1>3. ASSUME NEW t, NEW v \in DatedVars(n) \cup {NoFile}, NEW w \in DatedVars(n),
             rvars' = [rvars EXCEPT ![t] = v], rvals' = [rvals EXCEPT ![t] = w]
      PROVE  DatedVarFiles(n)'
  BY <1>1, <1>3 DEF DatedVarFiles
<1>4. CASE \E d \in Devices : MergeVars(d)
  <2>1. PICK d \in Devices : MergeVars(d)
    BY <1>4
  <2>2. \/ UNCHANGED varFileVars
        \/ /\ rvars' = [rvars EXCEPT ![VarsTime(d)] = Merged(d)]
           /\ rvals' = [rvals EXCEPT ![VarsTime(d)] = MergedVals(d)]
    BY <2>1 DEF MergeVars
  <2> QED BY <1>2, <1>3, <2>2, MergedDated
<1>5. CASE VarsDeletes
  <2>1. PICK d \in Devices : \E t \in vdoomed[d] : DeleteVarsFile(d, t)
    BY <1>5 DEF VarsDeletes
  <2>2. PICK t \in vdoomed[d] :
            \/ rvars' = [rvars EXCEPT ![t] = NoFile] /\ rvals' = [rvals EXCEPT ![t] = NoVars]
            \/ UNCHANGED varFileVars
    BY <2>1 DEF DeleteVarsFile
  <2>3. NoVars \in DatedVars(n)
    BY DEF NoVars, DatedVars, Upto
  <2> QED BY <1>2, <1>3, <2>2, <2>3
<1> QED BY <1>2, <1>4, <1>5, Framed DEF Frame

LEMMA StepsDated ==
    ASSUME NEW n \in Nat, Dated(n), [Next]_all
    PROVE  DatedSteps' /\ DatedListed'
<1>1. step \in [Devices -> Steps] /\ todo \in [Devices -> SUBSET Items] /\ vlisted \in [Devices -> SUBSET Times]
  BY DEF Dated, DatedSteps, DatedListed
<1>2. step' \in [Devices -> Steps]
  <2>1. \/ UNCHANGED step
        \/ \E d \in Devices, s \in Steps : step' = [step EXCEPT ![d] = s]
    BY Framed DEF Frame, Drop, Goes, Start, Clean, List, ReadValues, ReadVars, MergeVars, Upsert,
                  Goto, Steps, Before
  <2> QED BY <1>1, <2>1, RowSet
<1>3. todo' \in [Devices -> SUBSET Items]
  <2>1. \/ UNCHANGED todo
        \/ \E d \in Devices, i \in Items : todo' = [todo EXCEPT ![d] = @ \ {i}]
        \/ \E d \in Devices, S \in SUBSET Items : todo' = [todo EXCEPT ![d] = S]
    <3>1. CASE Judged
      BY <3>1 DEF Judged, Upload, Download, UpToDate
    <3>2. CASE \E d \in Devices : Drop(d)
      BY <3>2 DEF Drop
    <3>3. CASE \E d \in Devices : List(d)
      BY <3>3 DEF List
    <3> QED BY <3>1, <3>2, <3>3, Framed DEF Frame
  <2> QED BY <1>1, <2>1
<1>4. vlisted' \in [Devices -> SUBSET Times]
  <2>1. \/ UNCHANGED vlisted
        \/ \E d \in Devices, S \in SUBSET Times : vlisted' = [vlisted EXCEPT ![d] = S]
    BY Framed DEF Frame, DropVars, List
  <2> QED BY <1>1, <2>1, RowSet
<1> QED BY <1>2, <1>3, <1>4 DEF DatedSteps, DatedListed

LEMMA ListsDated ==
    ASSUME NEW n \in Nat, Dated(n), [Next]_all
    PROVE  DatedLists(n)'
<1>1. listed \in [Devices -> SUBSET DatedFiles(n)] /\ snapshot \in Tables(Copies(n))
  BY DEF Dated, DatedLists
<1>2. ASSUME NEW d \in Devices, NEW S \in SUBSET DatedFiles(n), NEW c \in [Items -> Copies(n)],
             listed' = [listed EXCEPT ![d] = S], snapshot' = [snapshot EXCEPT ![d] = c]
      PROVE  DatedLists(n)'
  BY <1>1, <1>2, RowSet DEF DatedLists, Tables
<1>3. CASE UNCHANGED <<listed, snapshot>>
  BY <1>1, <1>3 DEF DatedLists
<1>4. CASE \E d \in Devices : Drop(d)
  <2>1. Nothing \in [Items -> Copies(n)]
    BY DEF Nothing, Copies, Upto
  <2>2. PICK d \in Devices : /\ listed' = [listed EXCEPT ![d] = {}]
                             /\ snapshot' = [snapshot EXCEPT ![d] = Nothing]
    BY <1>4 DEF Drop
  <2>3. {} \in SUBSET DatedFiles(n)
    OBVIOUS
  <2> QED BY <1>2, <2>1, <2>2, <2>3
<1>5. CASE \E d \in Devices : List(d)
  <2>1. PICK d \in Devices : List(d)
    BY <1>5
  <2>2. \A i \in Items : Local(d, i) \in Copies(n)
    BY DEF Local, Dated, DatedDevices, Tables, Copies
  <2>3. \E S \in SUBSET remote : listed' = [listed EXCEPT ![d] = S]
    BY <2>1 DEF List
  <2>4. snapshot' = [snapshot EXCEPT ![d] = [i \in Items |-> Local(d, i)]]
    BY <2>1 DEF List
  <2> QED BY <1>2, <2>2, <2>3, <2>4 DEF Dated, DatedFileVars
<1> QED BY <1>3, <1>4, <1>5, Framed DEF Frame

LEMMA FetchDated ==
    ASSUME NEW n \in Nat, Dated(n), n \in Stamps, [Next]_all
    PROVE  DatedFetch(n)'
<1>1. fetched \in [Devices -> SUBSET DatedFiles(n)] /\ body \in Tables(Upto(n))
  BY DEF Dated, DatedFetch
<1>2. CASE UNCHANGED fetchVars
  BY <1>1, <1>2 DEF fetchVars, DatedFetch
<1>3. CASE \E d \in Devices : Drop(d)
  BY <1>1, <1>3 DEF Drop, NoItems, Upto, DatedFetch, Tables
<1>4. CASE Judged
  <2>1. CASE \E d \in Devices, i \in Items : Upload(d, i) \/ UpToDate(d, i)
    BY <1>2, <2>1 DEF Upload, UpToDate
  <2>2. CASE \E d \in Devices, i \in Items : Download(d, i)
    <3>1. PICK d \in Devices, i \in Items : Download(d, i)
      BY <2>2
    <3>2. PICK f \in Winner(d, i) :
              /\ fetched' = [fetched EXCEPT ![d] = @ \cup {f}]
              /\ body' = (IF f.deleted THEN body ELSE [body EXCEPT ![d][i] = content[f]])
      BY <3>1 DEF Download
    <3>3. f \in DatedFiles(n) /\ fetched' \in [Devices -> SUBSET DatedFiles(n)]
      BY <1>1, <3>2, RemoteTimeDated
    <3>4. f \in Files
      BY <3>3, SyncAssumption DEF DatedFiles, Files, Times, Stamps
    <3>5. content[f] \in Upto(n)
      BY <3>4 DEF Dated, DatedFileVars
    <3> QED BY <1>1, <3>2, <3>3, <3>5, TableSet DEF DatedFetch
  <2> QED BY <1>4, <2>1, <2>2 DEF Judged
<1> QED BY <1>2, <1>3, <1>4, Framed DEF Frame

LEMMA DoomDated ==
    ASSUME NEW n \in Nat, Dated(n), [Next]_all
    PROVE  DatedDoom(n)'
<1>1. /\ doomed \in [Devices -> SUBSET DatedFiles(n)] /\ vdoomed \in [Devices -> SUBSET Times]
      /\ vlisted \in [Devices -> SUBSET Times] /\ remote \subseteq DatedFiles(n)
  BY DEF Dated, DatedDoom, DatedListed, DatedFileVars
<1>2. doomed' \in [Devices -> SUBSET DatedFiles(n)]
  <2>1. ASSUME NEW d \in Devices, NEW S \in SUBSET DatedFiles(n),
               doomed' = [doomed EXCEPT ![d] = S] \/ doomed' = [doomed EXCEPT ![d] = @ \cup S]
        PROVE  doomed' \in [Devices -> SUBSET DatedFiles(n)]
    BY <1>1, <2>1
  <2>2. CASE Judged
    <3>1. PICK d \in Devices, i \in Items : Upload(d, i) \/ Download(d, i) \/ UpToDate(d, i)
      BY <2>2 DEF Judged
    <3>2. FilesOf(d, i) \subseteq DatedFiles(n)
      BY RemoteTimeDated
    <3>3. \E S \in SUBSET FilesOf(d, i) : doomed' = [doomed EXCEPT ![d] = @ \cup S]
      BY <3>1 DEF Upload, Download, UpToDate, Losers
    <3> QED BY <2>1, <3>2, <3>3
  <2>3. CASE Deletes
    BY <1>1, <2>3 DEF Deletes, DeleteFile
  <2>4. CASE \E d \in Devices : Drop(d) \/ List(d)
    <3>1. \E d \in Devices, S \in SUBSET remote : doomed' = [doomed EXCEPT ![d] = S]
      BY <2>4 DEF Drop, List
    <3> QED BY <1>1, <2>1, <3>1
  <2> QED BY <1>1, <2>2, <2>3, <2>4, Framed DEF Frame
<1>3. vdoomed' \in [Devices -> SUBSET Times]
  <2>1. \/ UNCHANGED vdoomed
        \/ \E d \in Devices, S \in SUBSET Times : vdoomed' = [vdoomed EXCEPT ![d] = S]
    BY <1>1, Framed DEF Frame, VarsDeletes, DeleteVarsFile, Drop, MergeVars
  <2> QED BY <1>1, <2>1, RowSet
<1> QED BY <1>2, <1>3 DEF DatedDoom

LEMMA ReadsDated ==
    ASSUME NEW n \in Nat, Dated(n), [Next]_all
    PROVE  DatedReads(n)'
<1>1. /\ localVals \in [Devices -> DatedVars(n)] /\ vsnapshot \in [Devices -> DatedVars(n)]
      /\ got \in [Devices -> DatedVars(n) \cup {NoFile}] /\ gotVals \in [Devices -> DatedVars(n)]
      /\ vars \in [Devices -> DatedVars(n)] /\ vals \in [Devices -> DatedVars(n)]
      /\ NoVars \in DatedVars(n)
  BY DEF Dated, DatedReads, DatedVarVars, NoVars, DatedVars, Upto
<1>2. CASE UNCHANGED readVars
  BY <1>1, <1>2 DEF readVars, DatedReads
<1>3. CASE \E d \in Devices : DropVars(d)
  BY <1>1, <1>3, RowSet DEF DropVars, DatedReads
<1>4. CASE \E d \in Devices : ReadValues(d)
  BY <1>1, <1>4, RowSet DEF ReadValues, DatedReads
<1>5. CASE \E d \in Devices : ReadVars(d)
  <2>1. PICK d \in Devices : ReadVars(d)
    BY <1>5
  <2>2. VarsWinner(d) # 0 => VarsWinner(d) \in Times
    <3>1. vlisted[d] \cup {0} \in SUBSET (0 .. MaxTime)
      BY SyncAssumption DEF Dated, DatedListed, Times
    <3>2. VarsWinner(d) \in vlisted[d] \cup {0}
      BY <3>1, MaxOf, SyncAssumption DEF VarsWinner
    <3> QED BY <3>2 DEF Dated, DatedListed
  <2>3. \A w \in Times : (rvars[w] # NoFile => rvars[w] \in DatedVars(n)) /\ rvals[w] \in DatedVars(n)
    BY DEF Dated, DatedVarFiles
  <2>4. \/ UNCHANGED <<got, gotVals>>
        \/ \E v, w \in DatedVars(n) : got' = [got EXCEPT ![d] = v] /\ gotVals' = [gotVals EXCEPT ![d] = w]
    BY <2>1, <2>2, <2>3 DEF ReadVars
  <2>5. got' \in [Devices -> DatedVars(n) \cup {NoFile}] /\ gotVals' \in [Devices -> DatedVars(n)]
    BY <1>1, <2>4
  <2>6. vsnapshot' \in [Devices -> DatedVars(n)] /\ localVals' = localVals
    BY <1>1, <2>1, RowSet DEF ReadVars
  <2> QED BY <1>1, <2>5, <2>6 DEF DatedReads
<1> QED BY <1>2, <1>3, <1>4, <1>5, Framed DEF Frame

LEMMA NextDated ==
    ASSUME now \in Stamps, Dated(now), [Next]_all
    PROVE  /\ now' \in Stamps /\ Dated(now)'
           /\ now \in Nat /\ now' \in Nat /\ (now' = now \/ now' = now + 1)
<1>1. now \in Nat
  BY SyncAssumption DEF Stamps
<1>2. now' = now \/ (now' = now + 1 /\ now' \in Stamps)
  <2>1. CASE UNCHANGED userVars
    BY <2>1 DEF userVars
  <2>2. CASE Wait \/ Edits \/ Updates
    <3>1. Clock
      BY <2>2 DEF Wait, Edits, Updates, Edit, Delete, UpdateVars
    <3> QED BY <1>1, <3>1, SyncAssumption DEF Clock, Stamps
  <2> QED BY <2>1, <2>2, Framed DEF Frame
<1>3. now' \in Stamps /\ now' \in Nat
  BY <1>2, SyncAssumption DEF Stamps
<1>4. PICK n \in Nat : n = now'
  BY <1>3
<1>5. Dated(n) /\ n \in Stamps
  BY <1>1, <1>2, <1>3, <1>4, DatedGrows
<1>6. unset' \in [Keys -> SUBSET (1 .. n)]
  BY <1>1, <1>4, <1>5, UnsetDated
<1>7. DatedNotes' /\ DatedDevices(n)' /\ DatedVarVars(n)'
  BY <1>1, <1>4, <1>5, NotesDated, DevicesDated, VarVarsDated
<1>8. DatedFileVars(n)' /\ DatedVarFiles(n)' /\ DatedSteps' /\ DatedListed'
  BY <1>5, FileVarsDated, VarFilesDated, StepsDated
<1>9. DatedLists(n)' /\ DatedFetch(n)' /\ DatedDoom(n)' /\ DatedReads(n)'
  BY <1>5, ListsDated, FetchDated, DoomDated, ReadsDated
<1>10. Dated(n)'
  BY <1>6, <1>7, <1>8, <1>9 DEF Dated
<1>11. Dated(now)'
  BY <1>4, <1>10 DEF Dated, DatedDevices, DatedVarVars, DatedFileVars, DatedVarFiles, DatedLists,
                     DatedFetch, DatedDoom, DatedReads
<1> QED BY <1>1, <1>2, <1>3, <1>11

-----------------------------------------------------------------------------
(* The invariant.                                                          *)

\* What a sync has fetched is newer than what it copied: one file for each item, with
\* a text that is at least as new as its time.
FetchedOf(d) ==
    /\ step[d] \in Before => fetched[d] = {}
    /\ \A f \in fetched[d] :
          /\ f \in listed[d] /\ f.item \notin todo[d]
          /\ \A g \in fetched[d] : f.item = g.item => f = g
          /\ f.time > snapshot[d][f.item].time
          /\ ~f.deleted => body[d][f.item] >= f.time

Newer == \A d \in Devices : FetchedOf(d)

\* No text is older than the time it goes by.
TextsOf(d) ==
    \A i \in Items : text[d][i] >= active[d][i] /\ snapshot[d][i].text >= snapshot[d][i].time

Texts == (\A d \in Devices : TextsOf(d)) /\ \A f \in remote : content[f] >= f.time

\* A deletion that waits for metaMu is of an item that is gone, and later than
\* whatever the sync in progress has listed.
PendingOf(d) ==
    \A i \in Items : leaving[d][i] # 0 =>
        /\ active[d][i] = 0 /\ tomb[d][i] <= leaving[d][i]
        /\ step[d] \notin Before => \A f \in listed[d] : f.time <= leaving[d][i]

Pending == \A d \in Devices : PendingOf(d)

IInv == now \in Stamps /\ Dated(now) /\ Newer /\ Texts /\ Pending

LEMMA InitInv == Init => IInv
<1> SUFFICES ASSUME Init PROVE IInv
  OBVIOUS
<1> USE SyncAssumption DEF Init, Nothing, NoVars, NoItems
<1>0. now = 0 /\ now \in Stamps /\ 0 \in Upto(now)
  BY DEF Upto, Stamps
<1>1. unset \in [Keys -> SUBSET (1 .. now)] /\ DatedNotes /\ DatedSteps /\ DatedListed
  BY DEF DatedNotes, DatedSteps, DatedListed, Steps, Before
<1>2. DatedDevices(now) /\ DatedVarVars(now)
  BY <1>0 DEF DatedDevices, DatedVarVars, DatedVars, Tables
<1>3. DatedFileVars(now) /\ DatedVarFiles(now)
  BY <1>0 DEF DatedFileVars, DatedVarFiles, DatedVars
<1>4. DatedLists(now) /\ DatedFetch(now) /\ DatedDoom(now)
  BY <1>0 DEF DatedLists, DatedFetch, DatedDoom, Tables, Copies
<1>5. DatedReads(now)
  BY <1>0 DEF DatedReads, DatedVars
<1>6. Newer /\ Texts /\ Pending
  BY DEF Newer, FetchedOf, Texts, TextsOf, Pending, PendingOf
<1> QED BY <1>0, <1>1, <1>2, <1>3, <1>4, <1>5, <1>6 DEF IInv, Dated

\* What a sync has in hand, and what a device has of the items.
Row(d) == <<step[d], listed[d], snapshot[d], todo[d], fetched[d], body[d], doomed[d]>>
Tabs(d) == <<active[d], text[d], leaving[d], tomb[d]>>
Judges(d) == \E i \in Items : Upload(d, i) \/ Download(d, i) \/ UpToDate(d, i)
Erases(d) == \E f \in doomed[d] : DeleteFile(d, f)

LEMMA Domains ==
    ASSUME NEW n, Dated(n)
    PROVE  /\ DOMAIN step = Devices /\ DOMAIN listed = Devices /\ DOMAIN snapshot = Devices
           /\ DOMAIN todo = Devices /\ DOMAIN fetched = Devices /\ DOMAIN body = Devices
           /\ DOMAIN doomed = Devices
           /\ DOMAIN active = Devices /\ DOMAIN text = Devices /\ DOMAIN leaving = Devices
           /\ DOMAIN tomb = Devices
           /\ \A d \in Devices : /\ DOMAIN active[d] = Items /\ DOMAIN text[d] = Items
                                 /\ DOMAIN leaving[d] = Items /\ DOMAIN tomb[d] = Items
                                 /\ DOMAIN body[d] = Items
<1>1. /\ DOMAIN step = Devices /\ DOMAIN listed = Devices /\ DOMAIN snapshot = Devices
      /\ DOMAIN todo = Devices /\ DOMAIN fetched = Devices /\ DOMAIN doomed = Devices
  BY DEF Dated, DatedSteps, DatedLists, DatedFetch, DatedDoom, Tables
<1>2. ASSUME NEW f \in Tables(Upto(n))
      PROVE  DOMAIN f = Devices /\ \A d \in Devices : DOMAIN f[d] = Items
  BY <1>2 DEF Tables
<1>3. /\ active \in Tables(Upto(n)) /\ text \in Tables(Upto(n)) /\ leaving \in Tables(Upto(n))
      /\ tomb \in Tables(Upto(n)) /\ body \in Tables(Upto(n))
  BY DEF Dated, DatedDevices, DatedFetch
<1> QED BY <1>1, <1>2, <1>3

LEMMA OthersRow ==
    ASSUME IInv, NEW d \in Devices, NEW e \in Devices, e # d, Drop(e) \/ Goes(e) \/ Judges(e) \/ Erases(e)
    PROVE  UNCHANGED Row(d)
<1>0. /\ DOMAIN step = Devices /\ DOMAIN listed = Devices /\ DOMAIN snapshot = Devices
      /\ DOMAIN todo = Devices /\ DOMAIN fetched = Devices /\ DOMAIN body = Devices
      /\ DOMAIN doomed = Devices
  BY Domains DEF IInv
<1> USE <1>0 DEF Row
<1>1. CASE Drop(e)
  BY <1>1 DEF Drop, Goto
<1>2. CASE Start(e) \/ Clean(e) \/ ReadValues(e) \/ ReadVars(e) \/ Upsert(e)
  <2>1. /\ UNCHANGED <<listed, snapshot, todo, fetched, body, doomed>>
        /\ \E s : step' = [step EXCEPT ![e] = s]
    BY <1>2 DEF Start, Clean, ReadValues, ReadVars, Upsert, Goto, listVars, fetchVars, doomVars
  <2> QED BY <2>1
<1>3. CASE List(e)
  BY <1>3 DEF List, Goto, fetchVars
<1>4. CASE MergeVars(e)
  <2>1. /\ UNCHANGED <<listed, snapshot, todo, fetched, body, doomed>>
        /\ \E s : step' = [step EXCEPT ![e] = s]
    BY <1>4 DEF MergeVars, Goto, fetchVars
  <2> QED BY <2>1
<1>5. CASE \E i \in Items : Upload(e, i) \/ UpToDate(e, i)
  <2>1. /\ UNCHANGED <<step, listed, snapshot, fetched, body>>
        /\ \E S : doomed' = [doomed EXCEPT ![e] = S]
        /\ \E S : todo' = [todo EXCEPT ![e] = S]
    BY <1>5 DEF Upload, UpToDate, listVars, fetchVars
  <2> QED BY <2>1
<1>6. CASE \E i \in Items : Download(e, i)
  <2>1. PICK i \in Items : Download(e, i)
    BY <1>6
  <2>2. /\ UNCHANGED <<step, listed, snapshot>>
        /\ \E S : doomed' = [doomed EXCEPT ![e] = S]
        /\ \E S : todo' = [todo EXCEPT ![e] = S]
        /\ \E S : fetched' = [fetched EXCEPT ![e] = S]
        /\ body' = body \/ \E t : body' = [body EXCEPT ![e][i] = t]
    BY <2>1 DEF Download, listVars
  <2> QED BY <2>2
<1>7. CASE Erases(e)
  <2>1. /\ UNCHANGED <<step, listed, snapshot, todo, fetched, body>>
        /\ \E S : doomed' = [doomed EXCEPT ![e] = S]
    BY <1>7 DEF Erases, DeleteFile, listVars, fetchVars
  <2> QED BY <2>1
<1> QED BY <1>1, <1>2, <1>3, <1>4, <1>5, <1>6, <1>7 DEF Goes, Judges

LEMMA RowFrame ==
    ASSUME IInv, [Next]_all, NEW d \in Devices
    PROVE  UNCHANGED Row(d) \/ Drop(d) \/ Goes(d) \/ Judges(d) \/ Erases(d)
<1>1. ASSUME UNCHANGED <<step, listVars, todo, fetchVars, doomed>>
      PROVE  UNCHANGED Row(d)
  BY <1>1 DEF Row, listVars, fetchVars
<1>2. CASE UNCHANGED all \/ Wait \/ Edits \/ Updates
  BY <1>1, <1>2 DEF all, Wait, Edits, Updates, Edit, Delete, UpdateVars, doomVars
<1>3. CASE \E e \in Devices : Panic(e) \/ \E i \in Items : DeleteNoted(e, i)
  BY <1>1, <1>3 DEF Panic, DeleteNoted, doomVars
<1>4. CASE \E e \in Devices : \E t \in vdoomed[e] : DeleteVarsFile(e, t)
  BY <1>1, <1>4 DEF DeleteVarsFile
<1>5. CASE \E e \in Devices : Drop(e) \/ Goes(e) \/ Judges(e) \/ Erases(e)
  BY <1>5, OthersRow
<1>6. CASE \E e \in Devices : Abort(e) \/ Stop(e) \/ Done(e) \/ \E i \in Items : DownloadFails(e, i)
  BY <1>5, <1>6 DEF Abort, Stop, Done, DownloadFails
<1> QED BY <1>2, <1>3, <1>4, <1>5, <1>6 DEF Next, SyncStep, Edits, Updates, Goes, Judges, Erases

LEMMA TabFrame ==
    ASSUME IInv, [Next]_all, NEW d \in Devices
    PROVE  \/ UNCHANGED Tabs(d)
           \/ \E i \in Items : Edit(d, i) \/ Delete(d, i) \/ DeleteNoted(d, i) \/ Download(d, i)
           \/ Clean(d) \/ Upsert(d) \/ Stop(d)
<1>0. /\ DOMAIN active = Devices /\ DOMAIN text = Devices /\ DOMAIN leaving = Devices
      /\ DOMAIN tomb = Devices
  BY Domains DEF IInv
<1>1. CASE UNCHANGED deviceVars
  BY <1>1 DEF deviceVars, itemVars, Tabs
<1>2. ASSUME NEW e \in Devices, NEW i \in Items, e # d,
             Edit(e, i) \/ Delete(e, i) \/ DeleteNoted(e, i)
      PROVE  UNCHANGED Tabs(d)
  BY <1>0, <1>2 DEF Edit, Delete, DeleteNoted, itemVars, Tabs
<1>3. ASSUME NEW e \in Devices, NEW i \in Items, e # d, Download(e, i)
      PROVE  UNCHANGED Tabs(d)
  <2>1. /\ UNCHANGED <<active, text, leaving>>
        /\ tomb' = tomb \/ \E t : tomb' = [tomb EXCEPT ![e][i] = t]
    BY <1>3 DEF Download, itemVars
  <2> QED BY <1>0, <1>3, <2>1 DEF Tabs
<1>4. ASSUME NEW e \in Devices, e # d, Clean(e) \/ Upsert(e) \/ Stop(e)
      PROVE  UNCHANGED Tabs(d)
  <2>1. /\ active' = active \/ \E x : active' = [active EXCEPT ![e] = x]
        /\ text' = text \/ \E x : text' = [text EXCEPT ![e] = x]
        /\ leaving' = leaving \/ \E x : leaving' = [leaving EXCEPT ![e] = x]
        /\ tomb' = tomb \/ \E x : tomb' = [tomb EXCEPT ![e] = x]
    BY <1>4 DEF Clean, Upsert, Stop, itemVars
  <2> QED BY <1>0, <1>4, <2>1 DEF Tabs
<1> QED BY <1>1, <1>2, <1>3, <1>4, Framed DEF Frame, Edits

\* The numbers in hand.
LEMMA FilesDated ==
    ASSUME IInv, NEW d \in Devices
    PROVE  /\ now \in Nat
           /\ \A f \in listed[d] \cup fetched[d] \cup doomed[d] \cup remote :
                 f.item \in Items /\ f.time \in Nat /\ f.time > 0 /\ f.time <= now /\ f.deleted \in BOOLEAN
           /\ \A i \in Items : /\ snapshot[d][i].time \in Nat /\ snapshot[d][i].text \in Nat
                               /\ RemoteTime(d, i) \in Nat /\ body[d][i] \in Nat
           /\ \A i \in Items : \A f \in FilesOf(d, i) :
                 f.time <= RemoteTime(d, i) /\ (f \notin Winner(d, i) => f.time < RemoteTime(d, i))
<1>1. PICK n \in Nat : n = now /\ Dated(n)
  BY SyncAssumption DEF IInv, Stamps
<1>2. \A f \in listed[d] \cup fetched[d] \cup doomed[d] \cup remote :
          /\ f.item \in Items /\ f.time \in Nat /\ f.time > 0 /\ f.time <= n /\ f.deleted \in BOOLEAN
          /\ f.time \in 0 .. n
  BY <1>1 DEF Dated, DatedLists, DatedFetch, DatedDoom, DatedFileVars, DatedFiles
<1>3. \A i \in Items : snapshot[d][i].time \in Nat /\ snapshot[d][i].text \in Nat /\ body[d][i] \in Nat
  BY <1>1 DEF Dated, DatedLists, DatedFetch, Tables, Copies, Upto
<1>4. ASSUME NEW i \in Items
      PROVE  /\ RemoteTime(d, i) \in Nat
             /\ \A f \in FilesOf(d, i) :
                   f.time <= RemoteTime(d, i) /\ (f \notin Winner(d, i) => f.time < RemoteTime(d, i))
  <2> DEFINE S == {f.time : f \in FilesOf(d, i)} \cup {0}
  <2>1. S \in SUBSET (0 .. n) /\ S # {} /\ \A f \in FilesOf(d, i) : f.time \in S
    BY <1>2 DEF FilesOf
  <2>2. RemoteTime(d, i) = Max(S)
    BY DEF RemoteTime
  <2> HIDE DEF S
  <2>3. Max(S) \in S /\ \A x \in S : Max(S) >= x
    BY <2>1, MaxOf
  <2>4. PICK m \in Nat : m = RemoteTime(d, i) /\ m \in S /\ \A x \in S : m >= x
    <3>1. \A x \in S : x \in Nat
      BY <2>1
    <3> QED BY <2>2, <2>3, <3>1
  <2>5. \A f \in FilesOf(d, i) : f.time \in Nat /\ f.time <= m
    <3> TAKE f \in FilesOf(d, i)
    <3>1. f.time \in S /\ f.time \in 0 .. n
      BY <2>1
    <3> QED BY <2>4, <3>1
  <2>6. \A f \in FilesOf(d, i) : f \notin Winner(d, i) => f.time # m
    BY <2>4 DEF Winner
  <2> QED BY <2>4, <2>5, <2>6
<1> QED BY <1>1, <1>2, <1>3, <1>4

LEMMA TabsDated ==
    ASSUME IInv, NEW d \in Devices, NEW i \in Items
    PROVE  /\ now \in Nat /\ active[d][i] \in 0 .. now /\ text[d][i] \in 0 .. now
           /\ leaving[d][i] \in 0 .. now /\ tomb[d][i] \in 0 .. now
           /\ \A t \in shown[d][i] : t \in 1 .. now
BY SyncAssumption DEF IInv, Dated, DatedDevices, Tables, Upto, Stamps

\* What was fetched of an item, one file, is what the device has then.
LEMMA UpsertStores ==
    ASSUME IInv, NEW d \in Devices, Upsert(d), NEW f \in fetched[d]
    PROVE  /\ leaving[d][f.item] = 0
           /\ active'[d][f.item] = IF f.deleted THEN 0 ELSE f.time
           /\ text'[d][f.item] = body[d][f.item]
           /\ tomb'[d][f.item] = IF f.deleted /\ active[d][f.item] # 0 THEN f.time ELSE tomb[d][f.item]
<1> DEFINE For(k) == Fetched(d, k)
           Gone(k) == active[d][k] # 0 /\ \E g \in For(k) : g.deleted
           Kept(k) == {g.time : g \in {h \in For(k) : ~h.deleted}} \cup {0}
           Told(k) == {g.time : g \in For(k)}
<1>1. /\ active' = [active EXCEPT ![d] = [k \in Items |->
                       IF For(k) = {} THEN active[d][k] ELSE Max(Kept(k))]]
      /\ text' = [text EXCEPT ![d] = [k \in Items |->
                     IF For(k) = {} THEN text[d][k] ELSE body[d][k]]]
      /\ tomb' = [tomb EXCEPT ![d] = [k \in Items |->
                     IF Gone(k) THEN Max(Told(k)) ELSE tomb[d][k]]]
      /\ Free(d, f.item)
  BY DEF Upsert
<1>2. DOMAIN active = Devices /\ DOMAIN tomb = Devices /\ DOMAIN text = Devices
  BY Domains DEF IInv
<1>3. f.item \in Items /\ f.time \in Nat /\ f.deleted \in BOOLEAN
  BY FilesDated
<1>4. PICK i \in Items : i = f.item
  BY <1>3
<1>5. For(i) = {f}
  BY <1>4 DEF IInv, Newer, FetchedOf, Fetched
<1>6. Told(i) = {f.time} /\ Kept(i) = (IF f.deleted THEN {0} ELSE {f.time, 0}) /\ (Gone(i) <=> f.deleted /\ active[d][i] # 0)
  <2> HIDE DEF For
  <2> QED BY <1>3, <1>5
<1>7. Max(Told(i)) = f.time /\ Max(Kept(i)) = IF f.deleted THEN 0 ELSE f.time
  <2>1. \A S : S \in SUBSET (0 .. f.time) /\ S # {} => Max(S) \in S /\ \A x \in S : Max(S) >= x
    BY <1>3, MaxOf
  <2>2. Told(i) \in SUBSET (0 .. f.time) /\ Told(i) # {} /\ Kept(i) \in SUBSET (0 .. f.time) /\ Kept(i) # {}
    <3> HIDE DEF Told, Kept, For
    <3> QED BY <1>3, <1>6
  <2> HIDE DEF Told, Kept, For
  <2>3. Max(Told(i)) \in Told(i) /\ Max(Kept(i)) \in Kept(i) /\ \A x \in Kept(i) : Max(Kept(i)) >= x
    BY <2>1, <2>2
  <2> QED BY <1>3, <1>6, <2>3
<1>8. /\ active'[d][i] = Max(Kept(i)) /\ text'[d][i] = body[d][i]
      /\ tomb'[d][i] = IF Gone(i) THEN Max(Told(i)) ELSE tomb[d][i]
  <2>1. active'[d] = [k \in Items |-> IF For(k) = {} THEN active[d][k] ELSE Max(Kept(k))]
    BY <1>1, <1>2
  <2>2. tomb'[d] = [k \in Items |-> IF Gone(k) THEN Max(Told(k)) ELSE tomb[d][k]]
    BY <1>1, <1>2
  <2>3. text'[d] = [k \in Items |-> IF For(k) = {} THEN text[d][k] ELSE body[d][k]]
    BY <1>1, <1>2
  <2>4. For(i) # {}
    BY <1>5
  <2> HIDE DEF Gone, Told, Kept, For
  <2> QED BY <2>1, <2>2, <2>3, <2>4
<1> HIDE DEF Gone, Told, Kept, For
<1>9. active'[d][i] = IF f.deleted THEN 0 ELSE f.time
  BY <1>7, <1>8
<1>10. tomb'[d][i] = IF f.deleted /\ active[d][i] # 0 THEN f.time ELSE tomb[d][i]
  BY <1>6, <1>7, <1>8
<1>11. leaving[d][i] = 0
  BY <1>1, <1>4, FreeSays
<1> QED BY <1>4, <1>8, <1>9, <1>10, <1>11

\* An item of which nothing was fetched stays.
LEMMA UpsertLeaves ==
    ASSUME IInv, NEW d \in Devices, Upsert(d), NEW i \in Items, \A f \in fetched[d] : f.item # i
    PROVE  active'[d][i] = active[d][i] /\ text'[d][i] = text[d][i] /\ tomb'[d][i] = tomb[d][i]
<1> DEFINE For(k) == Fetched(d, k)
           Gone(k) == active[d][k] # 0 /\ \E g \in For(k) : g.deleted
           Kept(k) == Max({g.time : g \in {h \in For(k) : ~h.deleted}} \cup {0})
           Told(k) == Max({g.time : g \in For(k)})
<1>1. /\ active' = [active EXCEPT ![d] = [k \in Items |->
                       IF For(k) = {} THEN active[d][k] ELSE Kept(k)]]
      /\ text' = [text EXCEPT ![d] = [k \in Items |->
                     IF For(k) = {} THEN text[d][k] ELSE body[d][k]]]
      /\ tomb' = [tomb EXCEPT ![d] = [k \in Items |-> IF Gone(k) THEN Told(k) ELSE tomb[d][k]]]
  BY DEF Upsert
<1>2. For(i) = {} /\ ~Gone(i)
  BY DEF Fetched
<1>3. DOMAIN active = Devices /\ DOMAIN tomb = Devices /\ DOMAIN text = Devices
  BY Domains DEF IInv
<1> HIDE DEF For, Gone, Kept, Told
<1> QED BY <1>1, <1>2, <1>3

LEMMA FetchedKept ==
    ASSUME IInv, [Next]_all, NEW d \in Devices
    PROVE  FetchedOf(d)'
<1>0. FetchedOf(d) /\ step[d] \in Steps
  BY DEF IInv, Newer, Dated, DatedSteps
<1>1. /\ DOMAIN step = Devices /\ DOMAIN listed = Devices /\ DOMAIN snapshot = Devices
      /\ DOMAIN todo = Devices /\ DOMAIN fetched = Devices /\ DOMAIN body = Devices
      /\ DOMAIN body[d] = Items
  BY Domains DEF IInv
<1>2. CASE UNCHANGED Row(d) \/ Erases(d)
  <2>1. UNCHANGED <<step[d], listed[d], snapshot[d], todo[d], fetched[d], body[d]>>
    BY <1>2 DEF Row, Erases, DeleteFile, listVars, fetchVars
  <2> QED BY <1>0, <2>1 DEF FetchedOf
<1>3. CASE Drop(d)
  <2>1. fetched'[d] = {}
    BY <1>1, <1>3 DEF Drop
  <2> QED BY <2>1 DEF FetchedOf
<1>4. CASE Start(d) \/ Clean(d) \/ List(d)
  <2>1. step[d] \in Before /\ fetched' = fetched
    BY <1>4 DEF Start, Clean, List, Before, fetchVars
  <2>2. fetched'[d] = {}
    BY <1>0, <2>1 DEF FetchedOf
  <2> QED BY <2>2 DEF FetchedOf
<1>5. CASE ReadValues(d) \/ ReadVars(d) \/ MergeVars(d) \/ Upsert(d)
  <2>1. UNCHANGED <<listed, snapshot, todo, fetched, body>>
    BY <1>5 DEF ReadValues, ReadVars, MergeVars, Upsert, listVars, fetchVars
  <2>2. step'[d] \notin Before
    BY <1>1, <1>5 DEF ReadValues, ReadVars, MergeVars, Upsert, Goto, Before
  <2> QED BY <1>0, <2>1, <2>2 DEF FetchedOf
<1>6. CASE \E i \in Items : Upload(d, i) \/ UpToDate(d, i)
  <2>1. UNCHANGED <<step, listed, snapshot, fetched, body>> /\ todo'[d] \subseteq todo[d]
    BY <1>1, <1>6 DEF Upload, UpToDate, listVars, fetchVars
  <2> QED BY <1>0, <2>1 DEF FetchedOf
<1>7. CASE \E i \in Items : Download(d, i)
  <2>1. PICK i \in Items : Download(d, i)
    BY <1>7
  <2>2. /\ UNCHANGED <<step, listed, snapshot>> /\ step[d] = "items" /\ i \in todo[d]
        /\ todo'[d] = todo[d] \ {i} /\ RemoteTime(d, i) > snapshot[d][i].time
    BY <1>1, <2>1 DEF Download, listVars
  <2>3. PICK w \in Winner(d, i) :
            /\ w.deleted \/ w \in remote
            /\ fetched'[d] = fetched[d] \cup {w}
            /\ body' = IF w.deleted THEN body ELSE [body EXCEPT ![d][i] = content[w]]
    BY <1>1, <2>1 DEF Download
  <2>4. w \in listed[d] /\ w.item = i /\ w.time > snapshot[d][i].time
    BY <2>2 DEF Winner, FilesOf
  <2>5. ~w.deleted => body'[d][i] >= w.time
    <3>1. ~w.deleted => body'[d][i] = content[w] /\ w \in remote
      BY <1>1, <2>3
    <3> QED BY <3>1 DEF IInv, Texts
  <2>6. \A j \in Items : j # i => body'[d][j] = body[d][j]
    BY <1>1, <2>3
  <2>7. \A f \in fetched[d] :
           /\ f \in listed[d] /\ f.item \in Items /\ f.item # i /\ f.item \notin todo[d]
           /\ \A g \in fetched[d] : f.item = g.item => f = g
           /\ f.time > snapshot[d][f.item].time
           /\ ~f.deleted => body[d][f.item] >= f.time
    BY <1>0, <2>2, FilesDated DEF FetchedOf
  <2>8. \A f \in fetched'[d] :
           /\ f \in listed'[d] /\ f.item \notin todo'[d]
           /\ \A g \in fetched'[d] : f.item = g.item => f = g
           /\ f.time > snapshot'[d][f.item].time
           /\ ~f.deleted => body'[d][f.item] >= f.time
    <3> TAKE f \in fetched'[d]
    <3>1. CASE f = w
      BY <2>2, <2>3, <2>4, <2>5, <2>7, <3>1
    <3>2. CASE f \in fetched[d]
      <4>1. ~f.deleted => body'[d][f.item] >= f.time
        BY <2>6, <2>7, <3>2
      <4>2. \A g \in fetched'[d] : f.item = g.item => f = g
        BY <2>3, <2>4, <2>7, <3>2
      <4> QED BY <2>2, <2>7, <3>2, <4>1, <4>2
    <3> QED BY <2>3, <3>1, <3>2
  <2>9. step'[d] \notin Before
    BY <2>2 DEF Before
  <2> QED BY <2>8, <2>9 DEF FetchedOf
<1> QED BY <1>2, <1>3, <1>4, <1>5, <1>6, <1>7, RowFrame DEF Goes, Judges

LEMMA TextsKept ==
    ASSUME IInv, [Next]_all, NEW d \in Devices
    PROVE  TextsOf(d)'
<1>0. TextsOf(d) /\ now \in Nat
  BY TabsDated, SyncAssumption DEF IInv, Texts, Stamps
<1>1. /\ DOMAIN active = Devices /\ DOMAIN text = Devices /\ DOMAIN snapshot = Devices
      /\ DOMAIN active[d] = Items /\ DOMAIN text[d] = Items
  BY Domains DEF IInv
<1>2. \A i \in Items : snapshot'[d][i].text >= snapshot'[d][i].time
  <2>1. CASE snapshot'[d] = snapshot[d]
    BY <1>0, <2>1 DEF TextsOf
  <2>2. CASE Drop(d)
    BY <1>1, <2>2 DEF Drop, Nothing
  <2>3. CASE List(d)
    <3>1. \A i \in Items : snapshot'[d][i] = Local(d, i)
      BY <1>1, <2>3 DEF List
    <3>2. \A i \in Items : Local(d, i).text >= Local(d, i).time
      BY <1>0, TabsDated DEF Local, TextsOf
    <3> QED BY <3>1, <3>2
  <2>4. CASE (Goes(d) /\ ~List(d)) \/ Judges(d) \/ Erases(d)
    <3>1. snapshot' = snapshot
      BY <2>4 DEF Goes, Start, Clean, ReadValues, ReadVars, MergeVars, Upsert, Judges, Upload,
                  Download, UpToDate, Erases, DeleteFile, listVars
    <3> QED BY <2>1, <3>1
  <2> QED BY <2>1, <2>2, <2>3, <2>4, RowFrame DEF Row
<1>3. \A i \in Items : text'[d][i] >= active'[d][i]
  <2>1. ASSUME NEW i \in Items, active'[d][i] = active[d][i], text'[d][i] = text[d][i]
        PROVE  text'[d][i] >= active'[d][i]
    BY <1>0, <2>1 DEF TextsOf
  <2>2. CASE UNCHANGED Tabs(d)
    BY <2>1, <2>2 DEF Tabs
  <2>3. ASSUME NEW j \in Items, Edit(d, j)
        PROVE  \A i \in Items : text'[d][i] >= active'[d][i]
    <3>1. PICK t \in {now + 1} \cup shown[d][j] : active' = [active EXCEPT ![d][j] = t]
      BY <2>3 DEF Edit
    <3>2. text' = [text EXCEPT ![d][j] = now + 1]
      BY <2>3 DEF Edit
    <3>3. t <= now + 1 /\ t \in Nat
      BY <3>1, TabsDated
    <3>4. active'[d][j] = t /\ text'[d][j] = now + 1
      BY <1>1, <3>1, <3>2
    <3>5. \A i \in Items : i # j => active'[d][i] = active[d][i] /\ text'[d][i] = text[d][i]
      BY <1>1, <3>1, <3>2
    <3>6. text'[d][j] >= active'[d][j]
      BY <1>0, <3>3, <3>4
    <3> QED BY <2>1, <3>5, <3>6
  <2>4. ASSUME NEW j \in Items, Delete(d, j)
        PROVE  \A i \in Items : text'[d][i] >= active'[d][i]
    <3>1. active'[d][j] = 0 /\ text'[d][j] = 0
      BY <1>1, <2>4 DEF Delete
    <3>2. \A i \in Items : i # j => active'[d][i] = active[d][i] /\ text'[d][i] = text[d][i]
      BY <1>1, <2>4 DEF Delete
    <3> QED BY <2>1, <3>1, <3>2
  <2>5. CASE \/ \E j \in Items : DeleteNoted(d, j) \/ Download(d, j)
             \/ Clean(d) \/ Stop(d)
    <3>1. active' = active /\ text' = text
      BY <2>5 DEF DeleteNoted, Download, Clean, Stop, itemVars
    <3> QED BY <2>1, <3>1
  <2>6. CASE Upsert(d)
    <3> TAKE i \in Items
    <3>1. CASE \A f \in fetched[d] : f.item # i
      BY <2>1, <2>6, <3>1, UpsertLeaves
    <3>2. CASE \E f \in fetched[d] : f.item = i
      <4>1. PICK f \in fetched[d] : f.item = i
        BY <3>2
      <4>2. active'[d][i] = (IF f.deleted THEN 0 ELSE f.time) /\ text'[d][i] = body[d][i]
        BY <2>6, <4>1, UpsertStores
      <4>3. body[d][i] \in Nat /\ (~f.deleted => body[d][i] >= f.time)
        BY <4>1, FilesDated DEF IInv, Newer, FetchedOf
      <4> QED BY <4>2, <4>3
    <3> QED BY <3>1, <3>2
  <2> QED BY <2>2, <2>3, <2>4, <2>5, <2>6, TabFrame
<1> QED BY <1>2, <1>3 DEF TextsOf

LEMMA ContentKept ==
    ASSUME IInv, [Next]_all
    PROVE  \A f \in remote' : content'[f] >= f.time
<1>0. (\A f \in remote : content[f] >= f.time) /\ DOMAIN content = Files /\ remote \subseteq Files
  <2>1. PICK n \in Nat : n = now /\ Dated(n) /\ n \in Stamps
    BY SyncAssumption DEF IInv, Stamps
  <2>2. DatedFiles(n) \subseteq Files
    BY <2>1, SyncAssumption DEF DatedFiles, Files, Times, Stamps
  <2> QED BY <2>1, <2>2 DEF IInv, Texts, Dated, DatedFileVars
<1>1. CASE UNCHANGED fileVars
  BY <1>0, <1>1 DEF fileVars
<1>2. CASE \E d \in Devices, i \in Items : Upload(d, i)
  <2>1. PICK d \in Devices, i \in Items : Upload(d, i)
    BY <1>2
  <2>2. PICK c : c = snapshot[d][i]
    OBVIOUS
  <2>3. PICK file : file = [item |-> i, time |-> c.time, deleted |-> c.deleted]
    OBVIOUS
  <2>4. \/ UNCHANGED fileVars
        \/ remote' = remote \cup {file} /\ content' = [content EXCEPT ![file] = c.text]
    BY <2>1, <2>2, <2>3 DEF Upload
  <2>5. c.text >= c.time /\ file.time = c.time
    BY <2>2, <2>3 DEF IInv, Texts, TextsOf
  <2>6. file \in Files
    <3>1. PICK n \in Nat : n = now /\ Dated(n) /\ n \in Stamps
      BY SyncAssumption DEF IInv, Stamps
    <3>2. c.time \in 0 .. n /\ c.deleted \in BOOLEAN /\ c.time > RemoteTime(d, i) /\ RemoteTime(d, i) \in Nat
      BY <2>1, <2>2, <3>1, FilesDated DEF Upload, LocalNewer, Dated, DatedLists, Tables, Copies, Upto
    <3>3. c.time \in Times
      BY <3>1, <3>2, SyncAssumption DEF Stamps, Times
    <3> QED BY <2>3, <3>2, <3>3 DEF Files
  <2>7. CASE UNCHANGED fileVars
    BY <1>1, <2>7
  <2>8. CASE remote' = remote \cup {file} /\ content' = [content EXCEPT ![file] = c.text]
    <3> TAKE f \in remote'
    <3>1. CASE f = file
      <4>1. content'[file] = c.text
        BY <1>0, <2>6, <2>8
      <4> QED BY <2>5, <3>1, <4>1
    <3>2. CASE f # file
      <4>1. f \in remote /\ content'[f] = content[f]
        BY <1>0, <2>8, <3>2
      <4> QED BY <1>0, <4>1
    <3> QED BY <3>1, <3>2
  <2> QED BY <2>4, <2>7, <2>8
<1>3. CASE Deletes
  <2>1. PICK d \in Devices : \E f \in doomed[d] : DeleteFile(d, f)
    BY <1>3 DEF Deletes
  <2>2. PICK f \in doomed[d] : \/ remote' = remote \ {f} /\ content' = [content EXCEPT ![f] = 0]
                               \/ UNCHANGED fileVars
    BY <2>1 DEF DeleteFile
  <2>3. ASSUME remote' = remote \ {f}, content' = [content EXCEPT ![f] = 0], NEW g \in remote'
        PROVE  content'[g] >= g.time
    <3>1. content'[g] = content[g] /\ g \in remote
      BY <1>0, <2>3
    <3> QED BY <1>0, <3>1
  <2> QED BY <1>1, <2>2, <2>3
<1> QED BY <1>1, <1>2, <1>3, Framed DEF Frame

LEMMA PendingKept ==
    ASSUME IInv, [Next]_all, NEW d \in Devices
    PROVE  PendingOf(d)'
<1> DEFINE Waits(i) ==
        /\ active[d][i] = 0 /\ tomb[d][i] <= leaving[d][i]
        /\ step[d] \notin Before => \A f \in listed[d] : f.time <= leaving[d][i]
<1>0. \A i \in Items : leaving[d][i] # 0 => Waits(i)
  BY DEF IInv, Pending, PendingOf
<1>1. /\ DOMAIN active = Devices /\ DOMAIN leaving = Devices /\ DOMAIN tomb = Devices
      /\ DOMAIN step = Devices /\ DOMAIN active[d] = Items /\ DOMAIN leaving[d] = Items
      /\ DOMAIN tomb[d] = Items /\ DOMAIN listed = Devices
  BY Domains DEF IInv
<1> SUFFICES ASSUME NEW i \in Items, leaving'[d][i] # 0
             PROVE  Waits(i)'
  BY DEF PendingOf
<1>2. ASSUME active'[d][i] = active[d][i], leaving'[d][i] = leaving[d][i], tomb'[d][i] = tomb[d][i],
             UNCHANGED <<step[d], listed[d]>>
      PROVE  Waits(i)'
  BY <1>0, <1>2
<1>3. CASE UNCHANGED Tabs(d)
  <2>0. active'[d][i] = active[d][i] /\ leaving'[d][i] = leaving[d][i] /\ tomb'[d][i] = tomb[d][i]
    BY <1>3 DEF Tabs
  <2>1. CASE UNCHANGED Row(d) \/ Erases(d) \/ Judges(d)
    <3>1. UNCHANGED <<step[d], listed[d]>>
      BY <2>1 DEF Row, Erases, DeleteFile, Judges, Upload, Download, UpToDate, listVars
    <3> QED BY <1>2, <2>0, <3>1
  <2>2. CASE Drop(d) \/ Start(d)
    <3>1. step'[d] \in Before
      BY <1>1, <2>2 DEF Drop, Start, Goto, Before
    <3> QED BY <1>0, <2>0, <3>1
  <2>3. CASE Clean(d) \/ List(d)
    <3>1. leaving[d][i] = 0
      BY <2>3, FreeSays DEF Clean, List
    <3> QED BY <2>0, <3>1
  <2>4. CASE ReadValues(d) \/ ReadVars(d) \/ MergeVars(d) \/ Upsert(d)
    <3>1. step[d] \notin Before /\ listed' = listed
      BY <2>4 DEF ReadValues, ReadVars, MergeVars, Upsert, listVars, Before
    <3> QED BY <1>0, <2>0, <3>1
  <2> QED BY <2>1, <2>2, <2>3, <2>4, RowFrame DEF Goes
<1>4. ASSUME NEW j \in Items, Edit(d, j)
      PROVE  Waits(i)'
  <2>1. UNCHANGED <<step, listed, leaving, tomb>> /\ \E t : active' = [active EXCEPT ![d][j] = t]
    BY <1>4 DEF Edit, listVars
  <2>2. i # j
    BY <1>2, <1>4, FreeSays DEF Edit
  <2> QED BY <1>1, <1>2, <2>1, <2>2
<1>5. ASSUME NEW j \in Items, Delete(d, j)
      PROVE  Waits(i)'
  <2>1. /\ UNCHANGED <<step, listed, tomb>> /\ active' = [active EXCEPT ![d][j] = 0]
        /\ leaving' = [leaving EXCEPT ![d][j] = now + 1]
    BY <1>5 DEF Delete, listVars
  <2>2. CASE i = j
    <3>1. active'[d][i] = 0 /\ leaving'[d][i] = now + 1 /\ tomb'[d][i] = tomb[d][i] /\ listed'[d] = listed[d]
      BY <1>1, <2>1, <2>2
    <3>2. tomb[d][i] <= now + 1
      BY TabsDated
    <3>3. \A f \in listed[d] : f.time <= now + 1
      BY FilesDated
    <3> QED BY <3>1, <3>2, <3>3
  <2>3. CASE i # j
    BY <1>1, <1>2, <2>1, <2>3
  <2> QED BY <2>2, <2>3
<1>6. ASSUME NEW j \in Items, DeleteNoted(d, j)
      PROVE  Waits(i)'
  <2>1. /\ UNCHANGED <<step, listed, active>> /\ tomb' = [tomb EXCEPT ![d][j] = leaving[d][j]]
        /\ leaving' = [leaving EXCEPT ![d][j] = 0]
    BY <1>6 DEF DeleteNoted, listVars, itemVars
  <2>2. i # j
    BY <1>1, <2>1
  <2> QED BY <1>1, <1>2, <2>1, <2>2
<1>7. ASSUME NEW j \in Items, Download(d, j)
      PROVE  Waits(i)'
  <2>1. UNCHANGED <<step, listed, active, leaving>> /\ step[d] = "items"
    BY <1>7 DEF Download, listVars, itemVars
  <2>2. PICK f \in Winner(d, j) : tomb' = IF f.deleted THEN [tomb EXCEPT ![d][j] = f.time] ELSE tomb
    BY <1>7 DEF Download
  <2>3. f \in listed[d] /\ step[d] \notin Before
    BY <2>1 DEF Winner, FilesOf, Before
  <2>4. tomb'[d][i] = tomb[d][i] \/ tomb'[d][i] = f.time
    BY <1>1, <2>2
  <2> QED BY <1>0, <2>1, <2>3, <2>4
<1>8. CASE Clean(d) \/ Stop(d)
  <2>1. leaving'[d][i] = 0
    BY <1>1, <1>8, FreeSays DEF Clean, Stop, NoItems
  <2> QED BY <2>1
<1>9. CASE Upsert(d)
  <2>1. leaving' = leaving /\ listed' = listed /\ step[d] \notin Before
    BY <1>9 DEF Upsert, listVars, Before
  <2>2. \A f \in fetched[d] : f.item # i
    BY <1>9, <2>1, UpsertStores
  <2>3. active'[d][i] = active[d][i] /\ tomb'[d][i] = tomb[d][i]
    BY <1>9, <2>2, UpsertLeaves
  <2> QED BY <1>0, <2>1, <2>3
<1> QED BY <1>3, <1>4, <1>5, <1>6, <1>7, <1>8, <1>9, TabFrame

LEMMA NextInv == IInv /\ [Next]_all => IInv'
<1> SUFFICES ASSUME IInv, [Next]_all PROVE IInv'
  OBVIOUS
<1>1. now' \in Stamps /\ Dated(now)'
  BY NextDated DEF IInv
<1>2. Newer' /\ Pending'
  BY FetchedKept, PendingKept DEF Newer, Pending
<1>3. Texts'
  BY TextsKept, ContentKept DEF Texts
<1> QED BY <1>1, <1>2, <1>3 DEF IInv

LEMMA Invariant == Spec => []IInv
BY InitInv, NextInv, PTL DEF Spec

\* No table, file or copy holds a time that has not come, or anything of another type.
THEOREM SyncTypes == Spec => []TypeOK
<1>1. IInv => TypeOK
  <2> SUFFICES ASSUME IInv PROVE TypeOK
    OBVIOUS
  <2>1. PICK n : n = now
    OBVIOUS
  <2>2. n \in Stamps /\ Dated(n) /\ n \in Nat /\ n <= MaxTime
    BY <2>1, SyncAssumption DEF IInv, Stamps
  <2>3. Upto(n) \subseteq Stamps /\ 1 .. n \subseteq Times
    BY <2>2, SyncAssumption DEF Upto, Stamps, Times
  <2>4. /\ DatedFiles(n) \subseteq Files /\ DatedVars(n) \subseteq VarFiles
        /\ Copies(n) \subseteq [time : Stamps, text : Stamps, deleted : BOOLEAN]
        /\ \A f \in Tables(Upto(n)) : f \in [Devices -> [Items -> Stamps]]
        /\ \A f \in Tables(SUBSET (1 .. n)) : f \in [Devices -> [Items -> SUBSET Times]]
    BY <2>3 DEF DatedFiles, Files, DatedVars, VarFiles, Copies, Tables
  <2>5. \A f \in Tables(Copies(n)) :
            f \in [Devices -> [Items -> [time : Stamps, text : Stamps, deleted : BOOLEAN]]]
    BY <2>4 DEF Tables
  <2>6. /\ now \in Stamps /\ unset \in [Keys -> SUBSET Times] /\ faults \in 0 .. MaxFaults
        /\ cut \subseteq Items /\ torn \subseteq Keys /\ stuck \subseteq Devices
    BY <2>1, <2>2, <2>3 DEF Dated, DatedNotes
  <2>7. /\ shown \in [Devices -> [Items -> SUBSET Times]]
        /\ active \in [Devices -> [Items -> Stamps]] /\ text \in [Devices -> [Items -> Stamps]]
        /\ leaving \in [Devices -> [Items -> Stamps]] /\ tomb \in [Devices -> [Items -> Stamps]]
        /\ body \in [Devices -> [Items -> Stamps]]
    BY <2>2, <2>4 DEF Dated, DatedDevices, DatedFetch
  <2>8. /\ vars \in [Devices -> VarFiles] /\ vals \in [Devices -> VarFiles]
        /\ rvars \in [Times -> VarFiles \cup {NoFile}] /\ rvals \in [Times -> VarFiles]
        /\ localVals \in [Devices -> VarFiles] /\ vsnapshot \in [Devices -> VarFiles]
        /\ got \in [Devices -> VarFiles \cup {NoFile}] /\ gotVals \in [Devices -> VarFiles]
    BY <2>2, <2>4 DEF Dated, DatedVarVars, DatedVarFiles, DatedReads
  <2>9. /\ remote \subseteq Files /\ content \in [Files -> Stamps]
        /\ listed \in [Devices -> SUBSET Files] /\ vlisted \in [Devices -> SUBSET Times]
        /\ fetched \in [Devices -> SUBSET Files]
        /\ doomed \in [Devices -> SUBSET Files] /\ vdoomed \in [Devices -> SUBSET Times]
    BY <2>2, <2>3, <2>4 DEF Dated, DatedFileVars, DatedLists, DatedListed, DatedFetch, DatedDoom
  <2>10. /\ step \in [Devices -> {"idle", "clean", "list", "items", "mtime", "merge", "upsert", "delete"}]
         /\ todo \in [Devices -> SUBSET Items]
         /\ snapshot \in [Devices -> [Items -> [time : Stamps, text : Stamps, deleted : BOOLEAN]]]
    BY <2>2, <2>5 DEF Dated, DatedSteps, DatedLists, Steps, Before
  <2> QED BY <2>6, <2>7, <2>8, <2>9, <2>10 DEF TypeOK
<1> QED BY <1>1, Invariant, PTL

-----------------------------------------------------------------------------
(* What a sync does to versions.                                           *)

VersionKept(d, i) ==
    \/ /\ Version(d, i)' >= Version(d, i)
       /\ Written(d, i)' >= Written(d, i) \/ Written(d, i) > Version(d, i)
    \/ step[d] \in {"items", "upsert"} /\ snapshot[d][i] # Local(d, i)
    \/ active[d][i] = 0 /\ Expired(tomb[d][i])
    \/ leaving[d][i] # 0 /\ i \in cut'

\* A text is never older than its version.
LEMMA VersionDated ==
    ASSUME IInv, NEW d \in Devices, NEW i \in Items
    PROVE  Version(d, i) \in Nat /\ Written(d, i) \in Nat /\ Written(d, i) >= Version(d, i)
<1>1. /\ active[d][i] \in Nat /\ text[d][i] \in Nat /\ leaving[d][i] \in Nat /\ tomb[d][i] \in Nat
      /\ text[d][i] >= active[d][i]
  BY TabsDated DEF IInv, Texts, TextsOf
<1> QED BY <1>1 DEF Version, Written

LEMMA NextVersions ==
    ASSUME IInv, [Next]_all, NEW d \in Devices, NEW i \in Items
    PROVE  /\ Version(d, i)' \in Nat /\ Written(d, i)' \in Nat /\ Written(d, i)' >= Version(d, i)'
           /\ active'[d][i] \in Nat /\ text'[d][i] \in Nat /\ leaving'[d][i] \in Nat /\ tomb'[d][i] \in Nat
           /\ text'[d][i] >= active'[d][i]
           /\ Version(d, i)' = IF active'[d][i] # 0 THEN active'[d][i]
                               ELSE IF leaving'[d][i] # 0 THEN leaving'[d][i] ELSE tomb'[d][i]
           /\ Written(d, i)' = IF active'[d][i] # 0 THEN text'[d][i] ELSE Version(d, i)'
<1>1. IInv'
  BY NextInv
<1>2. PICK n \in Nat : n = now'
  BY <1>1, SyncAssumption DEF IInv, Stamps
<1>3. DatedDevices(n)'
  BY <1>1, <1>2 DEF IInv, Dated, DatedDevices
<1>4. active'[d][i] \in Nat /\ text'[d][i] \in Nat /\ leaving'[d][i] \in Nat /\ tomb'[d][i] \in Nat
  BY <1>3 DEF DatedDevices, Tables, Upto
<1>5. text'[d][i] >= active'[d][i]
  BY <1>1 DEF IInv, Texts, TextsOf
<1>6. /\ Version(d, i)' = IF active'[d][i] # 0 THEN active'[d][i]
                          ELSE IF leaving'[d][i] # 0 THEN leaving'[d][i] ELSE tomb'[d][i]
      /\ Written(d, i)' = IF active'[d][i] # 0 THEN text'[d][i] ELSE Version(d, i)'
  BY DEF Version, Written
<1> QED BY <1>4, <1>5, <1>6

\* A newer version has a text that is newer than what the older one goes by.
LEMMA Rises ==
    ASSUME IInv, [Next]_all, NEW d \in Devices, NEW i \in Items, Version(d, i)' >= Version(d, i)
    PROVE  VersionKept(d, i)
<1>1. /\ Version(d, i) \in Nat /\ Written(d, i) \in Nat
      /\ Version(d, i)' \in Nat /\ Written(d, i)' \in Nat /\ Written(d, i)' >= Version(d, i)'
  BY VersionDated, NextVersions
<1>2. Written(d, i)' >= Written(d, i) \/ Written(d, i) > Version(d, i)
  BY <1>1
<1> QED BY <1>2 DEF VersionKept

\* A device whose tables of an item stay has the version it had.
LEMMA SameTables ==
    ASSUME IInv, [Next]_all, NEW d \in Devices, NEW i \in Items, active'[d][i] = active[d][i],
           leaving'[d][i] = leaving[d][i],
           active[d][i] # 0 \/ leaving[d][i] # 0 \/ tomb'[d][i] = tomb[d][i]
    PROVE  VersionKept(d, i)
<1>1. Version(d, i)' = Version(d, i)
  BY NextVersions DEF Version
<1> QED BY <1>1, VersionDated, Rises

LEMMA DownloadVersions ==
    ASSUME IInv, [Next]_all, NEW d \in Devices, NEW j \in Items, Download(d, j), NEW i \in Items
    PROVE  VersionKept(d, i)
<1>1. PICK f \in Winner(d, j) : tomb' = IF f.deleted THEN [tomb EXCEPT ![d][j] = f.time] ELSE tomb
  BY DEF Download
<1>2. /\ UNCHANGED <<active, leaving>> /\ step[d] = "items" /\ f.time > snapshot[d][j].time
      /\ f \in listed[d]
  BY DEF Download, Winner, FilesOf, itemVars
<1>3. DOMAIN tomb = Devices /\ DOMAIN tomb[d] = Items
  BY Domains DEF IInv
<1>4. CASE tomb'[d][i] = tomb[d][i] \/ active[d][i] # 0 \/ leaving[d][i] # 0
  BY <1>2, <1>4, SameTables
<1>5. CASE tomb'[d][i] # tomb[d][i] /\ active[d][i] = 0 /\ leaving[d][i] = 0
  <2>1. i = j /\ tomb'[d][i] = f.time
    BY <1>1, <1>3, <1>5
  <2>2. CASE snapshot[d][i] # Local(d, i)
    BY <1>2, <2>2 DEF VersionKept
  <2>3. CASE snapshot[d][i] = Local(d, i)
    <3>1. Version(d, i) = snapshot[d][i].time
      BY <1>5, <2>3 DEF Version, Local
    <3>2. Version(d, i)' = f.time
      BY <1>2, <1>5, <2>1, NextVersions
    <3>3. f.time \in Nat /\ snapshot[d][i].time \in Nat
      BY <1>2, FilesDated
    <3>4. Version(d, i)' >= Version(d, i)
      BY <1>2, <2>1, <3>1, <3>2, <3>3
    <3> QED BY <3>4, Rises
  <2> QED BY <2>2, <2>3
<1> QED BY <1>4, <1>5

LEMMA UpsertVersions ==
    ASSUME IInv, [Next]_all, NEW d \in Devices, Upsert(d), NEW i \in Items
    PROVE  VersionKept(d, i)
<1>1. leaving' = leaving /\ step[d] = "upsert"
  BY DEF Upsert
<1>2. CASE \A f \in fetched[d] : f.item # i
  BY <1>1, <1>2, UpsertLeaves, SameTables
<1>3. CASE \E f \in fetched[d] : f.item = i
  <2>1. PICK f \in fetched[d] : f.item = i
    BY <1>3
  <2>2. /\ leaving[d][i] = 0 /\ active'[d][i] = (IF f.deleted THEN 0 ELSE f.time)
        /\ tomb'[d][i] = IF f.deleted /\ active[d][i] # 0 THEN f.time ELSE tomb[d][i]
    BY <2>1, UpsertStores
  <2>3. f.time \in Nat /\ f.time > 0 /\ f.time > snapshot[d][i].time /\ snapshot[d][i].time \in Nat
    BY <2>1, FilesDated DEF IInv, Newer, FetchedOf
  <2>4. CASE snapshot[d][i] # Local(d, i)
    BY <1>1, <2>4 DEF VersionKept
  <2>5. CASE snapshot[d][i] = Local(d, i) /\ f.deleted /\ active[d][i] = 0
    <3>1. active'[d][i] = active[d][i] /\ leaving'[d][i] = leaving[d][i] /\ tomb'[d][i] = tomb[d][i]
      BY <1>1, <2>2, <2>5
    <3> QED BY <3>1, SameTables
  <2>6. CASE snapshot[d][i] = Local(d, i) /\ ~(f.deleted /\ active[d][i] = 0)
    <3>1. Version(d, i) = snapshot[d][i].time
      BY <2>2, <2>6 DEF Version, Local
    <3>2. Version(d, i)' = f.time
      BY <1>1, <2>2, <2>3, <2>6, NextVersions
    <3>3. Version(d, i)' >= Version(d, i)
      BY <2>3, <3>1, <3>2
    <3> QED BY <3>3, Rises
  <2> QED BY <2>4, <2>5, <2>6
<1> QED BY <1>2, <1>3

LEMMA CleanVersions ==
    ASSUME IInv, [Next]_all, NEW d \in Devices, Clean(d), NEW i \in Items
    PROVE  VersionKept(d, i)
<1>1. /\ UNCHANGED <<active, leaving>> /\ leaving[d][i] = 0
      /\ tomb' = [tomb EXCEPT ![d] = [j \in Items |->
                     IF active[d][j] # 0 \/ Expired(tomb[d][j]) THEN 0 ELSE tomb[d][j]]]
  BY FreeSays DEF Clean, itemVars
<1>2. DOMAIN tomb = Devices
  BY Domains DEF IInv
<1>3. CASE active[d][i] = 0 /\ Expired(tomb[d][i])
  BY <1>3 DEF VersionKept
<1>4. CASE active[d][i] = 0 /\ ~Expired(tomb[d][i])
  <2>1. tomb'[d][i] = tomb[d][i]
    BY <1>1, <1>2, <1>4
  <2> QED BY <1>1, <2>1, SameTables
<1>5. CASE active[d][i] # 0
  BY <1>1, <1>5, SameTables
<1> QED BY <1>3, <1>4, <1>5

LEMMA NotedVersions ==
    ASSUME IInv, [Next]_all, NEW d \in Devices, NEW j \in Items, DeleteNoted(d, j), NEW i \in Items
    PROVE  VersionKept(d, i)
<1>1. /\ UNCHANGED active /\ tomb' = [tomb EXCEPT ![d][j] = leaving[d][j]]
      /\ leaving' = [leaving EXCEPT ![d][j] = 0] /\ leaving[d][j] # 0
  BY DEF DeleteNoted, itemVars
<1>2. /\ DOMAIN leaving = Devices /\ DOMAIN leaving[d] = Items
      /\ DOMAIN tomb = Devices /\ DOMAIN tomb[d] = Items
  BY Domains DEF IInv
<1>3. CASE i = j
  <2>1. active[d][i] = 0
    BY <1>1, <1>3 DEF IInv, Pending, PendingOf
  <2>2. active'[d][i] = 0 /\ leaving'[d][i] = 0 /\ tomb'[d][i] = leaving[d][i]
    BY <1>1, <1>2, <1>3, <2>1
  <2>3. Version(d, i)' = leaving[d][i] /\ Version(d, i) = leaving[d][i]
    BY <1>1, <1>3, <2>1, <2>2, NextVersions DEF Version
  <2> QED BY <2>3, VersionDated, Rises
<1>4. CASE i # j
  <2>1. tomb'[d][i] = tomb[d][i] /\ leaving'[d][i] = leaving[d][i]
    BY <1>1, <1>2, <1>4
  <2> QED BY <1>1, <2>1, SameTables
<1> QED BY <1>3, <1>4

\* No step of a sync takes an item of a device back to an older version or text.
THEOREM SyncVersionsGrow == Spec => VersionsGrow
<1>1. ASSUME IInv, [Next]_all, now' = now, NEW d \in Devices, NEW i \in Items
      PROVE  VersionKept(d, i)
  <2>1. CASE UNCHANGED Tabs(d)
    BY <1>1, <2>1, SameTables DEF Tabs
  <2>2. ~ \E j \in Items : Edit(d, j) \/ Delete(d, j)
    <3>1. now \in Nat
      BY <1>1, TabsDated
    <3> QED BY <1>1, <3>1 DEF Edit, Delete, Clock
  <2>3. CASE \E j \in Items : DeleteNoted(d, j) \/ Download(d, j)
    BY <1>1, <2>3, NotedVersions, DownloadVersions
  <2>4. CASE Clean(d) \/ Upsert(d)
    BY <1>1, <2>4, CleanVersions, UpsertVersions
  <2>5. CASE Stop(d)
    <3>1. /\ UNCHANGED <<active, tomb>> /\ leaving' = [leaving EXCEPT ![d] = NoItems]
          /\ cut' = cut \cup {j \in Items : leaving[d][j] # 0}
      BY <2>5 DEF Stop, itemVars
    <3>2. CASE leaving[d][i] # 0
      BY <3>1, <3>2 DEF VersionKept
    <3>3. CASE leaving[d][i] = 0
      <4>1. leaving'[d][i] = 0
        BY <1>1, <3>1, Domains DEF IInv, NoItems
      <4> QED BY <1>1, <3>1, <3>3, <4>1, SameTables
    <3> QED BY <3>2, <3>3
  <2> QED BY <1>1, <2>1, <2>2, <2>3, <2>4, <2>5, TabFrame
<1>2. IInv /\ [Next]_all => [now' = now => \A d \in Devices, i \in Items :
          \/ /\ Version(d, i)' >= Version(d, i)
             /\ Written(d, i)' >= Written(d, i) \/ Written(d, i) > Version(d, i)
          \/ step[d] \in {"items", "upsert"} /\ snapshot[d][i] # Local(d, i)
          \/ active[d][i] = 0 /\ Expired(tomb[d][i])
          \/ leaving[d][i] # 0 /\ i \in cut']_all
  BY <1>1 DEF VersionKept
<1> QED BY <1>2, Invariant, PTL DEF Spec, VersionsGrow

-----------------------------------------------------------------------------
(* What a sync does to variables.                                          *)

\* The value of a variable goes with its time, everywhere, unless it changed on some
\* device between the copy of the one and of the other; or both are gone since long.
Outdated(k, u) == u \in unset[k] /\ Past(now, u)

\* The same of the next state.
OutdatedThen(k, u) == u \in unset'[k] /\ Past(now', u)

WholeOf(d, k) ==
    /\ vals[d][k] = vars[d][k]
    /\ step[d] = "mtime" => \/ localVals[d][k] = vars[d][k]
                            \/ vars[d][k] = 0 /\ Outdated(k, localVals[d][k])
    /\ step[d] = "merge" => \/ localVals[d][k] = vsnapshot[d][k]
                            \/ vsnapshot[d][k] = 0 /\ Outdated(k, localVals[d][k])
    /\ got[d] # NoFile => gotVals[d][k] = got[d][k]

WholeIn(t, k) == rvars[t] # NoFile => rvals[t][k] = rvars[t][k]

Whole ==
    \A k \in Keys : k \notin torn =>
        (\A d \in Devices : WholeOf(d, k)) /\ \A t \in Times : WholeIn(t, k)

LEMMA VarsDated ==
    ASSUME IInv
    PROVE  /\ now \in Nat
           /\ \A d \in Devices, k \in Keys : /\ vars[d][k] \in Nat /\ vsnapshot[d][k] \in Nat
                                             /\ vars[d][k] <= now /\ vals[d][k] <= now
                                             /\ vals[d][k] \in Nat /\ localVals[d][k] \in Nat
           /\ \A k \in Keys : unset[k] \in SUBSET Nat
           /\ \A t \in Times : rvars[t] # NoFile => \A k \in Keys : rvars[t][k] \in 0 .. now
           /\ DOMAIN vars = Devices /\ DOMAIN vals = Devices /\ DOMAIN rvars = Times
           /\ DOMAIN rvals = Times /\ DOMAIN unset = Keys
<1>1. PICK n \in Nat : n = now /\ Dated(n)
  BY SyncAssumption DEF IInv, Stamps
<1>2. /\ \A d \in Devices, k \in Keys : vars[d][k] \in 0 .. n /\ vals[d][k] \in 0 .. n
      /\ DOMAIN vars = Devices /\ DOMAIN vals = Devices
  BY <1>1 DEF Dated, DatedVarVars, DatedVars, Upto
<1>3. \A d \in Devices, k \in Keys : vsnapshot[d][k] \in 0 .. n /\ localVals[d][k] \in 0 .. n
  BY <1>1 DEF Dated, DatedReads, DatedVars, Upto
<1>4. (\A k \in Keys : unset[k] \in SUBSET (1 .. n)) /\ DOMAIN unset = Keys
  BY <1>1 DEF Dated
<1>5. /\ \A t \in Times : rvars[t] # NoFile => \A k \in Keys : rvars[t][k] \in 0 .. n
      /\ DOMAIN rvars = Times /\ DOMAIN rvals = Times
  BY <1>1 DEF Dated, DatedVarFiles, DatedVars, Upto
<1> QED BY <1>1, <1>2, <1>3, <1>4, <1>5

LEMMA HistoryGrows ==
    ASSUME IInv, [Next]_all
    PROVE  /\ \A k \in Keys : unset[k] \subseteq unset'[k]
           /\ torn \subseteq torn'
           /\ now \in Nat /\ now' \in Nat /\ now' >= now
<1>1. \A k \in Keys : unset[k] \subseteq unset'[k]
  <2>1. CASE UNCHANGED userVars
    BY <2>1 DEF userVars
  <2>2. CASE Wait \/ Edits
    BY <2>2 DEF Wait, Edits, Edit, Delete
  <2>3. CASE Updates
    <3>1. PICK j \in Keys : unset' = unset \/ unset' = [unset EXCEPT ![j] = unset[j] \cup {now + 1}]
      BY <2>3 DEF Updates, UpdateVars
    <3> QED BY <3>1, VarsDated
  <2> QED BY <2>1, <2>2, <2>3, Framed DEF Frame
<1>2. torn \subseteq torn'
  BY Framed DEF Frame, noteVars, Updates, UpdateVars, Panic, Stop
<1>3. now \in Nat /\ now' \in Nat /\ now' >= now
  BY NextDated DEF IInv
<1> QED BY <1>1, <1>2, <1>3

LEMMA OutdatedStays ==
    ASSUME IInv, [Next]_all, NEW k \in Keys, NEW u, Outdated(k, u)
    PROVE  OutdatedThen(k, u)
<1>1. u \in unset[k] /\ u \in Nat /\ Past(now, u)
  BY VarsDated DEF Outdated
<1>2. Past(now', u)
  BY <1>1, HistoryGrows, SyncAssumption DEF Past
<1> QED BY <1>1, <1>2, HistoryGrows DEF OutdatedThen

\* What a sync has in hand of the variables, and what a device has.
Reads(d) == <<step[d], localVals[d], vsnapshot[d], got[d], gotVals[d]>>
Has(d) == <<vars[d], vals[d]>>

LEMMA ReadsFrame ==
    ASSUME IInv, [Next]_all, NEW d \in Devices
    PROVE  UNCHANGED Reads(d) \/ Drop(d) \/ Goes(d)
<1>0. /\ DOMAIN step = Devices /\ DOMAIN localVals = Devices /\ DOMAIN vsnapshot = Devices
      /\ DOMAIN got = Devices /\ DOMAIN gotVals = Devices
  BY DEF IInv, Dated, DatedSteps, DatedReads
<1>1. ASSUME UNCHANGED <<step, readVars>>
      PROVE  UNCHANGED Reads(d)
  BY <1>1 DEF Reads, readVars
<1>2. CASE UNCHANGED all \/ Wait \/ Edits \/ Updates
  BY <1>1, <1>2 DEF all, Wait, Edits, Updates, Edit, Delete, UpdateVars
<1>3. CASE \/ Judged \/ Deletes \/ VarsDeletes
           \/ \E e \in Devices : Panic(e) \/ \E i \in Items : DeleteNoted(e, i)
  BY <1>1, <1>3 DEF Judged, Upload, Download, UpToDate, Deletes, DeleteFile, VarsDeletes,
                    DeleteVarsFile, DeleteNoted, Panic
<1>4. ASSUME NEW e \in Devices, Drop(e)
      PROVE  UNCHANGED Reads(d) \/ Drop(d)
  <2>1. CASE e = d
    BY <1>4, <2>1
  <2>2. CASE e # d
    BY <1>0, <1>4, <2>2 DEF Drop, DropVars, Goto, Reads
  <2> QED BY <2>1, <2>2
<1>5. ASSUME NEW e \in Devices, Goes(e)
      PROVE  UNCHANGED Reads(d) \/ Goes(d)
  <2>1. CASE e = d
    BY <1>5, <2>1
  <2>2. CASE e # d /\ (Start(e) \/ Clean(e) \/ List(e) \/ Upsert(e))
    <3>1. UNCHANGED readVars /\ \E s : step' = [step EXCEPT ![e] = s]
      BY <2>2 DEF Start, Clean, List, Upsert, Goto
    <3> QED BY <1>0, <2>2, <3>1 DEF readVars, Reads
  <2>3. CASE e # d /\ (ReadValues(e) \/ ReadVars(e) \/ MergeVars(e))
    <3>1. /\ \E s : step' = [step EXCEPT ![e] = s]
          /\ localVals' = localVals \/ \E x : localVals' = [localVals EXCEPT ![e] = x]
          /\ vsnapshot' = vsnapshot \/ \E x : vsnapshot' = [vsnapshot EXCEPT ![e] = x]
          /\ got' = got \/ \E x : got' = [got EXCEPT ![e] = x]
          /\ gotVals' = gotVals \/ \E x : gotVals' = [gotVals EXCEPT ![e] = x]
      BY <2>3 DEF ReadValues, ReadVars, MergeVars, DropVars, Goto
    <3> QED BY <1>0, <2>3, <3>1 DEF Reads
  <2> QED BY <1>5, <2>1, <2>2, <2>3 DEF Goes
<1>6. CASE \E e \in Devices : Abort(e) \/ Stop(e) \/ Done(e) \/ \E i \in Items : DownloadFails(e, i)
  BY <1>4, <1>6 DEF Abort, Stop, Done, DownloadFails
<1>7. CASE \E e \in Devices : Goes(e)
  BY <1>5, <1>7
<1> QED BY <1>2, <1>3, <1>6, <1>7 DEF Next, SyncStep, Edits, Updates, Goes, Judged, Deletes, VarsDeletes

LEMMA HasFrame ==
    ASSUME IInv, [Next]_all, NEW d \in Devices
    PROVE  \/ UNCHANGED Has(d) \/ MergeVars(d)
           \/ \E k \in Keys, remove \in BOOLEAN : UpdateVars(d, k, remove)
<1>1. CASE UNCHANGED varVars
  BY <1>1 DEF varVars, Has
<1>2. ASSUME NEW e \in Devices, e # d, NEW x, NEW y,
             vars' = [vars EXCEPT ![e] = x], vals' = [vals EXCEPT ![e] = y]
      PROVE  UNCHANGED Has(d)
  BY <1>2, VarsDated DEF Has
<1>3. ASSUME NEW e \in Devices, e # d, NEW k \in Keys, NEW remove \in BOOLEAN, UpdateVars(e, k, remove)
      PROVE  UNCHANGED Has(d)
  <2>1. \E x, y : vars' = [vars EXCEPT ![e] = x] /\ vals' = [vals EXCEPT ![e] = y]
    BY <1>3 DEF UpdateVars
  <2> QED BY <1>2, <1>3, <2>1
<1>4. ASSUME NEW e \in Devices, e # d, MergeVars(e)
      PROVE  UNCHANGED Has(d)
  <2>1. CASE UNCHANGED varVars
    BY <2>1 DEF varVars, Has
  <2>2. CASE ~ UNCHANGED varVars
    <3>1. vars' = [vars EXCEPT ![e] = Merged(e)] /\ vals' = [vals EXCEPT ![e] = MergedVals(e)]
      BY <1>4, <2>2 DEF MergeVars, SetVars
    <3> QED BY <1>2, <1>4, <3>1
  <2> QED BY <2>1, <2>2
<1> QED BY <1>1, <1>3, <1>4, Framed DEF Frame, Updates

\* What an update leaves a variable of the device at.
LEMMA UpdateVarsGives ==
    ASSUME IInv, NEW d \in Devices, NEW j \in Keys, NEW r \in BOOLEAN, UpdateVars(d, j, r), NEW k \in Keys
    PROVE  /\ now' = now + 1 /\ UNCHANGED Reads(d)
           /\ k = j => vars'[d][k] = now' /\ vals'[d][k] = now'
           /\ k # j => \/ vars'[d][k] = vars[d][k] /\ vals'[d][k] = vals[d][k]
                       \/ /\ vars'[d][k] = 0 /\ vals'[d][k] = 0
                          /\ Value(k, vals[d][k]) = 0 /\ Past(now', vars[d][k])
           /\ step[d] = "mtime" => j \in torn'
<1> DEFINE Kept(i) == ~Forgotten(i, vars[d][i], vals[d][i], now + 1)
           New(f) == [i \in Keys |-> IF i = j THEN now + 1 ELSE IF Kept(i) THEN f[d][i] ELSE 0]
<1>1. /\ vars' = [vars EXCEPT ![d] = New(vars)] /\ vals' = [vals EXCEPT ![d] = New(vals)]
      /\ now' = now + 1 /\ UNCHANGED <<step, readVars>>
      /\ step[d] = "mtime" => j \in torn'
  BY DEF UpdateVars, Clock
<1>2. vars'[d] = New(vars) /\ vals'[d] = New(vals)
  <2> HIDE DEF New
  <2> QED BY <1>1, VarsDated
<1>3. /\ k = j => vars'[d][k] = now' /\ vals'[d][k] = now'
      /\ k # j => \/ Kept(k) /\ vars'[d][k] = vars[d][k] /\ vals'[d][k] = vals[d][k]
                  \/ ~Kept(k) /\ vars'[d][k] = 0 /\ vals'[d][k] = 0
  <2> HIDE DEF Kept
  <2> QED BY <1>1, <1>2
<1>4. ~Kept(k) => Value(k, vals[d][k]) = 0 /\ Past(now', vars[d][k])
  BY <1>1 DEF Forgotten
<1>5. UNCHANGED Reads(d)
  BY <1>1 DEF Reads, readVars
<1> HIDE DEF Kept
<1> QED BY <1>1, <1>3, <1>4, <1>5

\* A merge of whole copies is whole.
LEMMA MergedWhole ==
    ASSUME IInv, NEW d \in Devices, NEW k \in Keys, WholeOf(d, k), step[d] = "merge"
    PROVE  /\ MergedVals(d)[k] = Merged(d)[k]
           /\ \E t \in Nat : /\ t >= vsnapshot[d][k]
                             /\ Merged(d)[k] = t \/ Merged(d)[k] = 0
                             /\ Merged(d)[k] # t => t \in unset[k] /\ Past(now, t)
<1>1. PICK n \in Nat : n = now /\ Dated(n)
  BY SyncAssumption DEF IInv, Stamps
<1>2. PICK t \in 0 .. n :
          /\ t >= vsnapshot[d][k] /\ t >= RemoteVars(d)[k]
          /\ t = IF RemoteVars(d)[k] > vsnapshot[d][k] THEN RemoteVars(d)[k] ELSE vsnapshot[d][k]
          /\ Merged(d)[k] = IF Forgotten(k, t, Winning(d, k), now) THEN 0 ELSE t
  BY <1>1, MergedDated
<1>3. MergedVals(d)[k] = IF Merged(d)[k] = 0 THEN 0 ELSE Winning(d, k)
  BY <1>1, MergedDated
<1>4. vsnapshot[d][k] \in Nat /\ RemoteVars(d)[k] \in Nat
  BY <1>1, MergedDated
<1>5. t # 0 => Winning(d, k) = t
  <2>1. CASE RemoteVars(d)[k] > vsnapshot[d][k]
    <3>1. got[d] # NoFile
      BY <1>4, <2>1 DEF RemoteVars, NoVars
    <3> QED BY <1>2, <2>1, <3>1 DEF Winning, WholeOf, RemoteVars
  <2>2. CASE ~(RemoteVars(d)[k] > vsnapshot[d][k])
    BY <1>2, <2>2 DEF Winning, WholeOf
  <2> QED BY <2>1, <2>2
<1>6. MergedVals(d)[k] = Merged(d)[k]
  BY <1>2, <1>3, <1>5
<1>7. Merged(d)[k] # t => t \in unset[k] /\ Past(now, t)
  BY <1>2, <1>5 DEF Forgotten, Value
<1> QED BY <1>2, <1>6, <1>7

LEMMA WholeOfKept ==
    ASSUME IInv, [Next]_all, Whole, NEW d \in Devices, NEW k \in Keys, k \notin torn'
    PROVE  WholeOf(d, k)'
<1>0. WholeOf(d, k) /\ k \notin torn
  BY HistoryGrows DEF Whole
<1>1. /\ DOMAIN step = Devices /\ DOMAIN localVals = Devices /\ DOMAIN vsnapshot = Devices
      /\ DOMAIN got = Devices /\ DOMAIN gotVals = Devices
  BY DEF IInv, Dated, DatedSteps, DatedReads
<1>2. \A u : Outdated(k, u) => OutdatedThen(k, u)
  BY OutdatedStays
<1>3. CASE UNCHANGED Reads(d) /\ UNCHANGED Has(d)
  BY <1>0, <1>2, <1>3 DEF Reads, Has, WholeOf, Outdated, OutdatedThen
<1>4. ASSUME NEW j \in Keys, NEW r \in BOOLEAN, UpdateVars(d, j, r)
      PROVE  WholeOf(d, k)'
  <2>1. UNCHANGED <<step[d], localVals[d], vsnapshot[d], got[d], gotVals[d]>>
    BY <1>4, UpdateVarsGives DEF Reads
  <2>2. vals'[d][k] = vars'[d][k]
    BY <1>0, <1>4, UpdateVarsGives DEF WholeOf
  <2>3. ASSUME step[d] = "mtime"
        PROVE  \/ localVals[d][k] = vars'[d][k]
               \/ vars'[d][k] = 0 /\ OutdatedThen(k, localVals[d][k])
    <3>1. k # j
      BY <1>4, <2>3, UpdateVarsGives
    <3>2. CASE vars'[d][k] = vars[d][k]
      BY <1>0, <1>2, <2>3, <3>2 DEF WholeOf
    <3>3. CASE vars'[d][k] = 0 /\ Value(k, vals[d][k]) = 0 /\ Past(now', vars[d][k])
      <4>1. CASE vars[d][k] = 0
        BY <1>0, <1>2, <2>3, <3>3, <4>1 DEF WholeOf
      <4>2. CASE vars[d][k] # 0
        <5>1. vars[d][k] \in unset'[k] /\ localVals[d][k] = vars[d][k]
          BY <1>0, <2>3, <3>3, <4>2, HistoryGrows DEF WholeOf, Value
        <5> QED BY <3>3, <5>1 DEF OutdatedThen
      <4> QED BY <4>1, <4>2
    <3> QED BY <1>4, <3>1, <3>2, <3>3, UpdateVarsGives
  <2>4. step[d] = "merge" => \/ localVals[d][k] = vsnapshot[d][k]
                             \/ vsnapshot[d][k] = 0 /\ OutdatedThen(k, localVals[d][k])
    BY <1>0, <1>2 DEF WholeOf
  <2> QED BY <1>0, <2>1, <2>2, <2>3, <2>4 DEF WholeOf, Outdated, OutdatedThen
<1>5. CASE UNCHANGED Has(d) /\ (Drop(d) \/ Start(d) \/ Clean(d) \/ List(d) \/ Upsert(d))
  <2>1. step'[d] # "mtime" /\ step'[d] # "merge"
    BY <1>1, <1>5 DEF Drop, Start, Clean, List, Upsert, Goto
  <2>2. got'[d] = NoFile \/ (got' = got /\ gotVals' = gotVals)
    BY <1>1, <1>5 DEF Drop, DropVars, Start, Clean, List, Upsert, readVars
  <2> QED BY <1>0, <1>5, <2>1, <2>2 DEF Has, WholeOf
<1>6. CASE UNCHANGED Has(d) /\ ReadValues(d)
  <2>1. step'[d] = "mtime" /\ localVals'[d] = vals[d] /\ got' = got /\ gotVals' = gotVals
    BY <1>1, <1>6 DEF ReadValues, Goto
  <2> QED BY <1>0, <1>6, <2>1 DEF Has, WholeOf
<1>7. CASE UNCHANGED Has(d) /\ ReadVars(d)
  <2>1. /\ step[d] = "mtime" /\ step'[d] = "merge" /\ localVals' = localVals /\ vsnapshot'[d] = vars[d]
    BY <1>1, <1>7 DEF ReadVars, Goto
  <2>2. got'[d] # NoFile => gotVals'[d][k] = got'[d][k]
    <3>1. VarsWinner(d) # 0 => VarsWinner(d) \in Times
      <4>1. vlisted[d] \in SUBSET Times /\ vlisted[d] \cup {0} \in SUBSET (0 .. MaxTime)
        BY SyncAssumption DEF IInv, Dated, DatedListed, Times
      <4>2. VarsWinner(d) \in vlisted[d] \cup {0}
        BY <4>1, MaxOf, SyncAssumption DEF VarsWinner
      <4> QED BY <4>1, <4>2
    <3>2. CASE UNCHANGED <<got, gotVals>>
      BY <1>0, <3>2 DEF WholeOf
    <3>3. CASE ~ UNCHANGED <<got, gotVals>>
      <4>1. PICK w \in Times : got'[d] = rvars[w] /\ gotVals'[d] = rvals[w]
        BY <1>1, <1>7, <3>1, <3>3 DEF ReadVars
      <4> QED BY <1>0, <4>1 DEF Whole, WholeIn
    <3> QED BY <3>2, <3>3
  <2>3. \/ localVals'[d][k] = vsnapshot'[d][k]
        \/ vsnapshot'[d][k] = 0 /\ OutdatedThen(k, localVals'[d][k])
    BY <1>0, <1>2, <2>1 DEF WholeOf
  <2> QED BY <1>0, <1>7, <2>1, <2>2, <2>3 DEF Has, WholeOf, Outdated, OutdatedThen
<1>8. CASE MergeVars(d)
  <2>1. step[d] = "merge" /\ step'[d] \in {"upsert", "delete"} /\ got'[d] = NoFile
    BY <1>1, <1>8 DEF MergeVars, DropVars, Goto
  <2>2. vals'[d][k] = vars'[d][k]
    <3>1. CASE UNCHANGED varVars
      BY <1>0, <3>1 DEF varVars, WholeOf
    <3>2. CASE vars' = [vars EXCEPT ![d] = Merged(d)] /\ vals' = [vals EXCEPT ![d] = MergedVals(d)]
      <4>1. vars'[d] = Merged(d) /\ vals'[d] = MergedVals(d)
        BY <3>2, VarsDated
      <4> QED BY <1>0, <2>1, <4>1, MergedWhole
    <3> QED BY <1>8, <3>1, <3>2 DEF MergeVars, SetVars
  <2> QED BY <2>1, <2>2 DEF WholeOf
<1> QED BY <1>3, <1>4, <1>5, <1>6, <1>7, <1>8, ReadsFrame, HasFrame DEF Goes

LEMMA WholeInKept ==
    ASSUME IInv, [Next]_all, Whole, NEW t \in Times, NEW k \in Keys, k \notin torn'
    PROVE  WholeIn(t, k)'
<1>0. WholeIn(t, k) /\ \A d \in Devices : WholeOf(d, k)
  BY HistoryGrows DEF Whole
<1>1. CASE UNCHANGED varFileVars
  BY <1>0, <1>1 DEF varFileVars, WholeIn
<1>2. CASE \E d \in Devices : MergeVars(d)
  <2>1. PICK d \in Devices : MergeVars(d)
    BY <1>2
  <2>2. \/ UNCHANGED varFileVars
        \/ /\ rvars' = [rvars EXCEPT ![VarsTime(d)] = Merged(d)]
           /\ rvals' = [rvals EXCEPT ![VarsTime(d)] = MergedVals(d)]
    BY <2>1 DEF MergeVars
  <2>3. step[d] = "merge"
    BY <2>1 DEF MergeVars
  <2>4. CASE t = VarsTime(d) /\ ~ UNCHANGED varFileVars
    <3>1. rvars'[t] = Merged(d) /\ rvals'[t] = MergedVals(d)
      BY <2>2, <2>4, VarsDated
    <3> QED BY <1>0, <2>3, <3>1, MergedWhole DEF WholeIn
  <2>5. CASE t # VarsTime(d) /\ ~ UNCHANGED varFileVars
    <3>1. rvars'[t] = rvars[t] /\ rvals'[t] = rvals[t]
      BY <2>2, <2>5, VarsDated
    <3> QED BY <1>0, <3>1 DEF WholeIn
  <2> QED BY <1>1, <2>4, <2>5
<1>3. CASE VarsDeletes
  <2>1. PICK u : \/ rvars' = [rvars EXCEPT ![u] = NoFile] /\ rvals' = [rvals EXCEPT ![u] = NoVars]
                 \/ UNCHANGED varFileVars
    BY <1>3 DEF VarsDeletes, DeleteVarsFile
  <2>2. rvars'[t] = NoFile \/ (rvars'[t] = rvars[t] /\ rvals'[t] = rvals[t])
    BY <2>1, VarsDated DEF varFileVars
  <2> QED BY <1>0, <2>2 DEF WholeIn
<1> QED BY <1>1, <1>2, <1>3, Framed DEF Frame

LEMMA WholeInvariant == Spec => []Whole
<1>1. Init => Whole
  BY DEF Init, Whole, WholeOf, WholeIn
<1>2. IInv /\ [Next]_all /\ Whole => Whole'
  <2> SUFFICES ASSUME IInv, [Next]_all, Whole PROVE Whole'
    OBVIOUS
  <2> QED BY WholeOfKept, WholeInKept DEF Whole
<1> QED BY <1>1, <1>2, Invariant, PTL DEF Spec

VarKept(d, k) ==
    \/ /\ vars'[d][k] >= vars[d][k]
       /\ vals'[d][k] >= vals[d][k] \/ k \in torn
    \/ step[d] = "merge" /\ vsnapshot[d][k] # vars[d][k]
    \/ \E t \in unset[k] : t >= vars[d][k] /\ Past(now', t)
    \/ k \in torn /\ vars'[d][k] = 0 /\ Past(now', vars[d][k])

LEMMA SameVarsKept ==
    ASSUME IInv, NEW d \in Devices, NEW k \in Keys, vars'[d][k] = vars[d][k], vals'[d][k] = vals[d][k]
    PROVE  VarKept(d, k)
<1>1. vars[d][k] \in Nat /\ vals[d][k] \in Nat
  BY VarsDated
<1> QED BY <1>1 DEF VarKept

LEMMA UpdateVarsKeeps ==
    ASSUME IInv, Whole, NEW d \in Devices, NEW j \in Keys, NEW r \in BOOLEAN, UpdateVars(d, j, r), NEW k \in Keys
    PROVE  VarKept(d, k)
<1>1. /\ vars[d][k] \in Nat /\ vals[d][k] \in Nat /\ now \in Nat
      /\ vars[d][k] <= now /\ vals[d][k] <= now
  BY VarsDated
<1>2. now' = now + 1
  BY UpdateVarsGives
<1>3. CASE k = j
  <2>1. vars'[d][k] = now + 1 /\ vals'[d][k] = now + 1
    BY <1>2, <1>3, UpdateVarsGives
  <2>2. vars'[d][k] >= vars[d][k] /\ vals'[d][k] >= vals[d][k]
    BY <1>1, <2>1
  <2> QED BY <2>2 DEF VarKept
<1>4. CASE k # j /\ vars'[d][k] = vars[d][k] /\ vals'[d][k] = vals[d][k]
  BY <1>4, SameVarsKept
<1>5. CASE vars'[d][k] = 0 /\ vals'[d][k] = 0 /\ Value(k, vals[d][k]) = 0 /\ Past(now', vars[d][k])
  <2>1. CASE k \in torn
    BY <1>5, <2>1 DEF VarKept
  <2>2. CASE k \notin torn
    <3>1. vals[d][k] = vars[d][k]
      BY <2>2 DEF Whole, WholeOf
    <3>2. CASE vars[d][k] = 0
      BY <1>5, <3>1, <3>2, SameVarsKept
    <3>3. CASE vars[d][k] # 0
      <4>1. vars[d][k] \in unset[k]
        BY <1>5, <3>1, <3>3 DEF Value
      <4>2. vars[d][k] >= vars[d][k]
        BY <1>1
      <4> QED BY <1>5, <4>1, <4>2 DEF VarKept
    <3> QED BY <3>2, <3>3
  <2> QED BY <2>1, <2>2
<1> QED BY <1>3, <1>4, <1>5, UpdateVarsGives

LEMMA MergeVarsKeeps ==
    ASSUME IInv, Whole, [Next]_all, NEW d \in Devices, MergeVars(d), NEW k \in Keys
    PROVE  VarKept(d, k)
<1>1. step[d] = "merge" /\ now' = now
  BY DEF MergeVars, userVars
<1>2. CASE vsnapshot[d][k] # vars[d][k]
  BY <1>1, <1>2 DEF VarKept
<1>3. CASE vars'[d] = vars[d] /\ vals'[d] = vals[d]
  BY <1>3, SameVarsKept
<1>4. CASE vars'[d] = Merged(d) /\ vals'[d] = MergedVals(d) /\ vsnapshot[d][k] = vars[d][k]
  <2>1. vars[d][k] \in Nat /\ vals[d][k] \in Nat /\ now \in Nat
    BY VarsDated
  <2>2. CASE k \in torn
    <3>1. PICK n \in Nat : n = now /\ Dated(n)
      BY SyncAssumption DEF IInv, Stamps
    <3>2. PICK t \in 0 .. n :
              /\ t >= vsnapshot[d][k]
              /\ Merged(d)[k] = IF Forgotten(k, t, Winning(d, k), now) THEN 0 ELSE t
      BY <3>1, MergedDated
    <3>3. CASE Merged(d)[k] = t
      BY <1>4, <2>2, <3>2, <3>3 DEF VarKept
    <3>4. CASE Merged(d)[k] # t
      <4>1. Merged(d)[k] = 0 /\ Past(now, t)
        BY <3>2, <3>4 DEF Forgotten
      <4>2. Past(now, vars[d][k])
        BY <1>4, <2>1, <3>2, <4>1, SyncAssumption DEF Past
      <4> QED BY <1>1, <1>4, <2>2, <4>1, <4>2 DEF VarKept
    <3> QED BY <3>3, <3>4
  <2>3. CASE k \notin torn
    <3>1. WholeOf(d, k)
      BY <2>3 DEF Whole
    <3>2. PICK t \in Nat : /\ t >= vsnapshot[d][k]
                           /\ Merged(d)[k] = t \/ Merged(d)[k] = 0
                           /\ Merged(d)[k] # t => t \in unset[k] /\ Past(now, t)
      BY <1>1, <3>1, MergedWhole
    <3>3. vals[d][k] = vars[d][k] /\ vals'[d][k] = vars'[d][k] /\ vars'[d][k] = Merged(d)[k]
      BY <1>1, <1>4, <3>1, MergedWhole DEF WholeOf
    <3>4. CASE Merged(d)[k] = t
      <4>1. vars'[d][k] >= vars[d][k] /\ vals'[d][k] >= vals[d][k]
        BY <1>4, <3>2, <3>3, <3>4
      <4> QED BY <4>1 DEF VarKept
    <3>5. CASE Merged(d)[k] # t
      BY <1>1, <1>4, <3>2, <3>5 DEF VarKept
    <3> QED BY <3>4, <3>5
  <2> QED BY <2>2, <2>3
<1>5. (vars'[d] = vars[d] /\ vals'[d] = vals[d]) \/ (vars'[d] = Merged(d) /\ vals'[d] = MergedVals(d))
  BY VarsDated DEF MergeVars, SetVars, varVars
<1> QED BY <1>2, <1>3, <1>4, <1>5

\* No step takes a variable of a device back to an older time or value.
THEOREM SyncVarsGrow == Spec => VarsGrow
<1>1. ASSUME IInv, Whole, [Next]_all, NEW d \in Devices, NEW k \in Keys
      PROVE  VarKept(d, k)
  <2>1. CASE UNCHANGED Has(d)
    BY <1>1, <2>1, SameVarsKept DEF Has
  <2>2. CASE \E j \in Keys, r \in BOOLEAN : UpdateVars(d, j, r)
    BY <1>1, <2>2, UpdateVarsKeeps
  <2>3. CASE MergeVars(d)
    BY <1>1, <2>3, MergeVarsKeeps
  <2> QED BY <1>1, <2>1, <2>2, <2>3, HasFrame
<1>2. IInv /\ Whole /\ [Next]_all => [\A d \in Devices, k \in Keys :
          \/ /\ vars'[d][k] >= vars[d][k]
             /\ vals'[d][k] >= vals[d][k] \/ k \in torn
          \/ step[d] = "merge" /\ vsnapshot[d][k] # vars[d][k]
          \/ \E t \in unset[k] : t >= vars[d][k] /\ Past(now', t)
          \/ k \in torn /\ vars'[d][k] = 0 /\ Past(now', vars[d][k])]_all
  BY <1>1 DEF VarKept
<1> QED BY <1>2, Invariant, WholeInvariant, PTL DEF Spec, VarsGrow

-----------------------------------------------------------------------------
(* What a sync does to the files of items.                                 *)

\* Whatever a sync is going to delete is older than what was written on the device,
\* when it comes to it: than what was copied, which was not written earlier than its
\* time says and is not given up but for something later, or than what was fetched,
\* which the device has as soon as that is stored.
CoveredOf(d) ==
    /\ step[d] \in Before => doomed[d] = {}
    /\ step[d] \notin Before => \A i \in Items : Written(d, i) >= snapshot[d][i].time
    /\ \A f \in fetched[d] :
          /\ f.deleted => tomb[d][f.item] >= f.time
          /\ step[d] = "delete" => Written(d, f.item) >= f.time
    /\ \A f \in doomed[d] :
          \/ f.deleted /\ Expired(f.time)
          \/ f.time < snapshot[d][f.item].time
          \/ \E g \in fetched[d] : g.item = f.item /\ g.time > f.time

Covered == \A d \in Devices : CoveredOf(d)

LEMMA ExpiredStays ==
    ASSUME IInv, [Next]_all, NEW t \in Nat, Expired(t)
    PROVE  Past(now', t)
<1>1. now \in Nat /\ now' \in Nat /\ now' >= now
  BY HistoryGrows
<1> QED BY <1>1, SyncAssumption DEF Expired, Past

\* What is written on a device is not replaced by what was written earlier, but by
\* what a sync downloads.
LEMMA WrittenGrows ==
    ASSUME IInv, [Next]_all, NEW d \in Devices, step[d] \notin Before, ~Drop(d), ~Upsert(d),
           NEW i \in Items, ~Download(d, i)
    PROVE  Written(d, i)' >= Written(d, i) /\ tomb'[d][i] >= tomb[d][i]
<1>0. /\ DOMAIN active = Devices /\ DOMAIN text = Devices /\ DOMAIN leaving = Devices
      /\ DOMAIN tomb = Devices
      /\ DOMAIN active[d] = Items /\ DOMAIN text[d] = Items /\ DOMAIN leaving[d] = Items
      /\ DOMAIN tomb[d] = Items
  BY Domains DEF IInv
<1>1. /\ Written(d, i) \in Nat /\ tomb[d][i] \in Nat /\ now \in Nat
      /\ text[d][i] <= now /\ leaving[d][i] <= now /\ tomb[d][i] <= now
  BY VersionDated, TabsDated
<1>2. Written(d, i) <= now
  <2>1. Written(d, i) \in {text[d][i], active[d][i], leaving[d][i], tomb[d][i]}
    BY DEF Written, Version
  <2>2. active[d][i] <= now
    BY TabsDated
  <2> QED BY <1>1, <2>1, <2>2
<1>3. ASSUME active'[d][i] = active[d][i], text'[d][i] = text[d][i], leaving'[d][i] = leaving[d][i],
             tomb'[d][i] = tomb[d][i]
      PROVE  Written(d, i)' >= Written(d, i) /\ tomb'[d][i] >= tomb[d][i]
  <2>1. Written(d, i)' = Written(d, i)
    BY <1>3 DEF Written, Version
  <2> QED BY <1>1, <1>3, <2>1
<1>4. CASE UNCHANGED Tabs(d)
  BY <1>3, <1>4 DEF Tabs
<1>5. ASSUME NEW j \in Items, Edit(d, j)
      PROVE  Written(d, i)' >= Written(d, i) /\ tomb'[d][i] >= tomb[d][i]
  <2>1. PICK t \in {now + 1} \cup shown[d][j] : active' = [active EXCEPT ![d][j] = t]
    BY <1>5 DEF Edit
  <2>2. text' = [text EXCEPT ![d][j] = now + 1] /\ UNCHANGED <<leaving, tomb>>
    BY <1>5 DEF Edit
  <2>3. CASE i = j
    <3>1. t \in Nat /\ t # 0
      BY <2>1, TabsDated
    <3>2. active'[d][i] # 0 /\ text'[d][i] = now + 1 /\ tomb'[d][i] = tomb[d][i]
      BY <1>0, <2>1, <2>2, <2>3, <3>1
    <3>3. Written(d, i)' = now + 1
      BY <3>2, NextVersions
    <3> QED BY <1>1, <1>2, <3>2, <3>3
  <2>4. CASE i # j
    BY <1>0, <1>3, <2>1, <2>2, <2>4
  <2> QED BY <2>3, <2>4
<1>6. ASSUME NEW j \in Items, Delete(d, j)
      PROVE  Written(d, i)' >= Written(d, i) /\ tomb'[d][i] >= tomb[d][i]
  <2>1. /\ active' = [active EXCEPT ![d][j] = 0] /\ text' = [text EXCEPT ![d][j] = 0]
        /\ leaving' = [leaving EXCEPT ![d][j] = now + 1] /\ UNCHANGED tomb
    BY <1>6 DEF Delete
  <2>2. CASE i = j
    <3>1. active'[d][i] = 0 /\ leaving'[d][i] = now + 1 /\ tomb'[d][i] = tomb[d][i]
      BY <1>0, <2>1, <2>2
    <3>2. leaving'[d][i] # 0
      BY <1>1, <3>1
    <3>3. Written(d, i)' = now + 1
      BY <3>1, <3>2, NextVersions
    <3> QED BY <1>1, <1>2, <3>1, <3>3
  <2>3. CASE i # j
    BY <1>0, <1>3, <2>1, <2>3
  <2> QED BY <2>2, <2>3
<1>7. ASSUME NEW j \in Items, DeleteNoted(d, j)
      PROVE  Written(d, i)' >= Written(d, i) /\ tomb'[d][i] >= tomb[d][i]
  <2>1. /\ UNCHANGED <<active, text>> /\ tomb' = [tomb EXCEPT ![d][j] = leaving[d][j]]
        /\ leaving' = [leaving EXCEPT ![d][j] = 0] /\ leaving[d][j] # 0
    BY <1>7 DEF DeleteNoted, itemVars
  <2>2. CASE i = j
    <3>1. active[d][i] = 0 /\ tomb[d][i] <= leaving[d][i]
      BY <2>1, <2>2 DEF IInv, Pending, PendingOf
    <3>2. active'[d][i] = 0 /\ leaving'[d][i] = 0 /\ tomb'[d][i] = leaving[d][i]
      BY <1>0, <2>1, <2>2, <3>1
    <3>3. Written(d, i)' = leaving[d][i] /\ Written(d, i) = leaving[d][i]
      BY <2>1, <2>2, <3>1, <3>2, NextVersions DEF Written, Version
    <3> QED BY <1>1, <3>1, <3>2, <3>3
  <2>3. CASE i # j
    BY <1>0, <1>3, <2>1, <2>3
  <2> QED BY <2>2, <2>3
<1>8. ASSUME NEW j \in Items, Download(d, j)
      PROVE  Written(d, i)' >= Written(d, i) /\ tomb'[d][i] >= tomb[d][i]
  <2>1. /\ UNCHANGED <<active, text, leaving>> /\ i # j
        /\ tomb' = tomb \/ \E t : tomb' = [tomb EXCEPT ![d][j] = t]
    BY <1>8 DEF Download, itemVars
  <2> QED BY <1>0, <1>3, <2>1
<1>9. ~Clean(d) /\ ~Stop(d)
  BY DEF Clean, Stop, Before
<1> QED BY <1>4, <1>5, <1>6, <1>7, <1>8, <1>9, TabFrame

\* A sync that goes on, without anything new on the device, is covered as before.
LEMMA GoesOnCovered ==
    ASSUME IInv, [Next]_all, NEW d \in Devices, CoveredOf(d), step[d] \notin Before, ~Drop(d), ~Upsert(d),
           \A i \in Items : ~Download(d, i)
    PROVE  CoveredOf(d)'
<1>0. /\ DOMAIN step = Devices /\ DOMAIN doomed = Devices
  BY Domains DEF IInv
<1>1. ~Start(d) /\ ~Clean(d) /\ ~List(d)
  BY DEF Start, Clean, List, Before
<1>2. /\ UNCHANGED <<snapshot[d], fetched[d]>> /\ step'[d] \notin Before
      /\ step'[d] = "delete" => step[d] = "delete" \/ fetched[d] = {}
      /\ \A f \in doomed'[d] : f \in doomed[d] \/ f.time < snapshot[d][f.item].time
  <2>1. CASE UNCHANGED Row(d) \/ Erases(d)
    <3>1. UNCHANGED <<step[d], snapshot[d], fetched[d]>> /\ doomed'[d] \subseteq doomed[d]
      BY <1>0, <2>1 DEF Row, Erases, DeleteFile, listVars, fetchVars
    <3> QED BY <3>1
  <2>2. CASE ReadValues(d) \/ ReadVars(d) \/ MergeVars(d)
    <3>1. UNCHANGED <<snapshot, fetched, doomed>>
      BY <2>2 DEF ReadValues, ReadVars, MergeVars, listVars, fetchVars, doomVars
    <3>2. step'[d] \in {"mtime", "merge", "upsert"} \/ (step'[d] = "delete" /\ fetched[d] = {})
      BY <1>0, <2>2 DEF ReadValues, ReadVars, MergeVars, Goto
    <3> QED BY <3>1, <3>2 DEF Before
  <2>3. ASSUME NEW i \in Items, Upload(d, i)
        PROVE  /\ UNCHANGED <<snapshot, fetched, step>>
               /\ \A f \in doomed'[d] : f \in doomed[d] \/ f.time < snapshot[d][f.item].time
    <3>1. /\ UNCHANGED <<snapshot, fetched, step>> /\ doomed'[d] = doomed[d] \cup FilesOf(d, i)
          /\ snapshot[d][i].time > RemoteTime(d, i)
      BY <1>0, <2>3 DEF Upload, LocalNewer, listVars, fetchVars
    <3>2. snapshot[d][i].time \in Nat /\ RemoteTime(d, i) \in Nat
      BY FilesDated
    <3>3. \A f \in FilesOf(d, i) : f.time \in Nat /\ f.item = i /\ f.time <= RemoteTime(d, i)
      BY FilesDated DEF FilesOf
    <3> QED BY <3>1, <3>2, <3>3
  <2>4. ASSUME NEW i \in Items, UpToDate(d, i)
        PROVE  /\ UNCHANGED <<snapshot, fetched, step>>
               /\ \A f \in doomed'[d] : f \in doomed[d] \/ f.time < snapshot[d][f.item].time
    <3>1. /\ UNCHANGED <<snapshot, fetched, step>> /\ doomed'[d] = doomed[d] \cup Losers(d, i)
          /\ snapshot[d][i].time = RemoteTime(d, i)
      BY <1>0, <2>4 DEF UpToDate, listVars, fetchVars
    <3>2. \A f \in Losers(d, i) : f.item = i /\ f.time < RemoteTime(d, i)
      BY FilesDated DEF FilesOf, Losers
    <3> QED BY <3>1, <3>2
  <2> QED BY <1>1, <2>1, <2>2, <2>3, <2>4, RowFrame DEF Goes, Judges
<1>3. \A i \in Items : Written(d, i)' >= Written(d, i) /\ tomb'[d][i] >= tomb[d][i]
  BY WrittenGrows
<1>4. \A i \in Items : /\ Written(d, i) \in Nat /\ Written(d, i)' \in Nat
                       /\ tomb[d][i] \in Nat /\ tomb'[d][i] \in Nat /\ snapshot[d][i].time \in Nat
  BY VersionDated, NextVersions, FilesDated, TabsDated
<1>5. \A i \in Items : Written(d, i)' >= snapshot'[d][i].time
  <2> TAKE i \in Items
  <2>1. Written(d, i) >= snapshot[d][i].time
    BY DEF CoveredOf
  <2> QED BY <1>2, <1>3, <1>4, <2>1
<1>6. \A f \in fetched'[d] : /\ f.deleted => tomb'[d][f.item] >= f.time
                             /\ step'[d] = "delete" => Written(d, f.item)' >= f.time
  <2> TAKE f \in fetched'[d]
  <2>1. f \in fetched[d] /\ f.item \in Items /\ f.time \in Nat
    BY <1>2, FilesDated
  <2>2. PICK i \in Items : i = f.item
    BY <2>1
  <2>3. /\ f.deleted => tomb[d][i] >= f.time
        /\ step[d] = "delete" => Written(d, i) >= f.time
    BY <2>1, <2>2 DEF CoveredOf
  <2>4. f.deleted => tomb'[d][i] >= f.time
    BY <1>3, <1>4, <2>1, <2>3
  <2>5. step'[d] = "delete" => Written(d, i)' >= f.time
    BY <1>2, <1>3, <1>4, <2>1, <2>3
  <2> QED BY <2>2, <2>4, <2>5
<1>7. \A f \in doomed[d] : Expired(f.time) => Past(now', f.time)
  BY ExpiredStays, FilesDated
<1>8. \A f \in doomed'[d] : \/ f.deleted /\ Past(now', f.time)
                            \/ f.time < snapshot'[d][f.item].time
                            \/ \E g \in fetched'[d] : g.item = f.item /\ g.time > f.time
  BY <1>2, <1>7 DEF CoveredOf
<1> QED BY <1>2, <1>5, <1>6, <1>8 DEF CoveredOf, Expired

LEMMA ListCovered ==
    ASSUME IInv, [Next]_all, NEW d \in Devices, CoveredOf(d), List(d)
    PROVE  CoveredOf(d)'
<1>1. PICK old : old = {f \in remote : f.deleted /\ Expired(f.time)}
  OBVIOUS
<1>2. DOMAIN step = Devices /\ DOMAIN doomed = Devices /\ DOMAIN snapshot = Devices
  BY Domains DEF IInv
<1>3. /\ step[d] = "list" /\ step'[d] = "items" /\ doomed'[d] = old /\ fetched' = fetched
      /\ snapshot'[d] = [i \in Items |-> Local(d, i)]
      /\ UNCHANGED <<now, active, text, leaving, tomb>> /\ AllFree(d)
  BY <1>1, <1>2 DEF List, Goto, userVars, deviceVars, itemVars, fetchVars
<1>4. fetched'[d] = {}
  BY <1>3 DEF IInv, Newer, FetchedOf, Before
<1>5. \A i \in Items : Written(d, i)' >= snapshot'[d][i].time
  <2> TAKE i \in Items
  <2>1. leaving[d][i] = 0
    BY <1>3, FreeSays
  <2>2. Written(d, i)' = Written(d, i) /\ snapshot'[d][i].time = Version(d, i)
    BY <1>3, <2>1 DEF Written, Version, Local
  <2> QED BY <2>2, VersionDated
<1>6. \A f \in doomed'[d] : f.deleted /\ Past(now', f.time)
  BY <1>1, <1>3 DEF Expired
<1> QED BY <1>3, <1>4, <1>5, <1>6 DEF CoveredOf, Expired, Before

\* Files that lose against what is fetched.
LEMMA DownloadCovered ==
    ASSUME IInv, [Next]_all, NEW d \in Devices, CoveredOf(d), NEW i \in Items, Download(d, i), ~Drop(d)
    PROVE  CoveredOf(d)'
<1>1. UNCHANGED <<now, step, snapshot, active, text, leaving>> /\ step[d] = "items"
  BY DEF Download, listVars, userVars, itemVars
<1>2. /\ DOMAIN doomed = Devices /\ DOMAIN fetched = Devices
      /\ DOMAIN tomb = Devices /\ DOMAIN tomb[d] = Items
  BY Domains DEF IInv
<1>3. doomed'[d] = doomed[d] \cup Losers(d, i) /\ RemoteTime(d, i) > snapshot[d][i].time /\ i \in todo[d]
  BY <1>2 DEF Download
<1>4. PICK w \in Winner(d, i) : /\ fetched'[d] = fetched[d] \cup {w}
                               /\ tomb' = IF w.deleted THEN [tomb EXCEPT ![d][i] = w.time] ELSE tomb
  BY <1>2 DEF Download
<1>5. w \in listed[d] /\ w.item = i /\ w.time = RemoteTime(d, i) /\ w.time > snapshot[d][i].time
  BY <1>3 DEF Winner, FilesOf
<1>6. w.time \in Nat /\ w.time > 0 /\ snapshot[d][i].time \in Nat
  BY <1>5, FilesDated
<1>7. w.deleted => tomb'[d][i] = w.time
  BY <1>2, <1>4
<1>8. ~w.deleted => tomb' = tomb
  BY <1>4
<1>9. \A j \in Items : j # i => tomb'[d][j] = tomb[d][j]
  BY <1>2, <1>4
<1>10. \A f \in fetched'[d] : f.deleted => tomb'[d][f.item] >= f.time
  <2> TAKE f \in fetched'[d]
  <2>1. CASE f = w
    BY <1>5, <1>6, <1>7, <2>1
  <2>2. CASE f \in fetched[d]
    <3>1. f.item \in Items /\ f.item \notin todo[d] /\ (f.deleted => tomb[d][f.item] >= f.time)
      BY <2>2, FilesDated DEF CoveredOf, IInv, Newer, FetchedOf
    <3> QED BY <1>3, <1>9, <3>1
  <2> QED BY <1>4, <2>1, <2>2
<1>11. \A f \in doomed'[d] : \/ f.deleted /\ Past(now', f.time)
                             \/ f.time < snapshot'[d][f.item].time
                             \/ \E g \in fetched'[d] : g.item = f.item /\ g.time > f.time
  <2> TAKE f \in doomed'[d]
  <2>1. CASE f \in doomed[d]
    BY <1>1, <1>4, <2>1 DEF CoveredOf, Expired
  <2>2. CASE f \in Losers(d, i)
    <3>1. f.item = i /\ f.time < RemoteTime(d, i)
      BY <2>2, FilesDated DEF Losers, FilesOf
    <3> QED BY <1>4, <1>5, <3>1
  <2> QED BY <1>3, <2>1, <2>2
<1>12. \A j \in Items : Written(d, j)' >= snapshot'[d][j].time
  <2> TAKE j \in Items
  <2>1. /\ Written(d, j) \in Nat /\ Written(d, j) >= snapshot[d][j].time /\ snapshot[d][j].time \in Nat
        /\ snapshot'[d][j] = snapshot[d][j]
    BY <1>1, VersionDated, FilesDated DEF CoveredOf, Before
  <2>2. CASE tomb'[d][j] = tomb[d][j] \/ active[d][j] # 0 \/ leaving[d][j] # 0
    <3>1. Written(d, j)' = Written(d, j)
      BY <1>1, <2>2 DEF Written, Version
    <3> QED BY <2>1, <3>1
  <2>3. CASE j = i /\ w.deleted /\ active[d][j] = 0 /\ leaving[d][j] = 0
    <3>1. Written(d, j)' = w.time
      BY <1>1, <1>7, <2>3 DEF Written, Version
    <3> QED BY <1>5, <1>6, <2>1, <2>3, <3>1
  <2> QED BY <1>8, <1>9, <2>2, <2>3
<1> QED BY <1>1, <1>10, <1>11, <1>12 DEF CoveredOf, Expired, Before

LEMMA UpsertCovered ==
    ASSUME IInv, [Next]_all, NEW d \in Devices, CoveredOf(d), Upsert(d)
    PROVE  CoveredOf(d)'
<1>1. /\ UNCHANGED <<now, doomed, fetched, snapshot, leaving>>
      /\ step[d] = "upsert" /\ step'[d] = "delete"
  <2>1. DOMAIN step = Devices
    BY Domains DEF IInv
  <2> QED BY <2>1 DEF Upsert, userVars, listVars, fetchVars, doomVars, Goto
<1>2. ASSUME NEW f \in fetched[d]
      PROVE  (f.deleted => tomb'[d][f.item] >= f.time) /\ Written(d, f.item)' >= f.time
  <2>1. f.time \in Nat /\ f.time > 0 /\ f.deleted \in BOOLEAN /\ f.item \in Items
    BY FilesDated
  <2>2. PICK i \in Items : i = f.item
    BY <2>1
  <2>3. /\ leaving[d][i] = 0 /\ active'[d][i] = (IF f.deleted THEN 0 ELSE f.time)
        /\ text'[d][i] = body[d][i]
        /\ tomb'[d][i] = IF f.deleted /\ active[d][i] # 0 THEN f.time ELSE tomb[d][i]
    BY <2>2, UpsertStores
  <2>4. f.deleted => tomb[d][i] >= f.time
    BY <2>2 DEF CoveredOf
  <2>5. f.deleted => tomb'[d][i] >= f.time
    BY <2>1, <2>3, <2>4
  <2>6. ~f.deleted => body[d][i] >= f.time
    BY <2>2 DEF IInv, Newer, FetchedOf
  <2>7. Written(d, i)' = IF f.deleted THEN tomb'[d][i] ELSE body[d][i]
    <3>1. leaving'[d][i] = 0
      BY <1>1, <2>3
    <3>2. CASE f.deleted
      <4>1. active'[d][i] = 0
        BY <2>3, <3>2
      <4> QED BY <3>1, <3>2, <4>1, NextVersions
    <3>3. CASE ~f.deleted
      <4>1. active'[d][i] # 0
        BY <2>1, <2>3, <3>3
      <4> QED BY <2>3, <3>3, <4>1, NextVersions
    <3> QED BY <3>2, <3>3
  <2>8. Written(d, i)' >= f.time
    BY <2>5, <2>6, <2>7
  <2> QED BY <2>2, <2>5, <2>8
<1>3. \A i \in Items : Written(d, i)' >= snapshot'[d][i].time
  <2> TAKE i \in Items
  <2>1. Written(d, i) >= snapshot[d][i].time /\ snapshot'[d][i] = snapshot[d][i]
    BY <1>1 DEF CoveredOf, Before
  <2>2. CASE \A f \in fetched[d] : f.item # i
    <3>1. Written(d, i)' = Written(d, i)
      BY <1>1, <2>2, UpsertLeaves DEF Written, Version
    <3> QED BY <2>1, <3>1
  <2>3. CASE \E f \in fetched[d] : f.item = i
    <3>1. PICK f \in fetched[d] : f.item = i
      BY <2>3
    <3>2. f.time > snapshot[d][i].time /\ f.time \in Nat /\ snapshot[d][i].time \in Nat
      BY <3>1, FilesDated DEF IInv, Newer, FetchedOf
    <3>3. Written(d, i)' >= f.time /\ Written(d, i)' \in Nat
      BY <1>2, <3>1, NextVersions
    <3> QED BY <2>1, <3>2, <3>3
  <2> QED BY <2>2, <2>3
<1>4. \A f \in doomed'[d] : \/ f.deleted /\ Past(now', f.time)
                            \/ f.time < snapshot'[d][f.item].time
                            \/ \E g \in fetched'[d] : g.item = f.item /\ g.time > f.time
  BY <1>1 DEF CoveredOf, Expired
<1> QED BY <1>1, <1>2, <1>3, <1>4 DEF CoveredOf, Expired, Before

\* Before a sync has listed the files it has nothing in hand.
LEMMA NothingCovered ==
    ASSUME IInv, [Next]_all, NEW d \in Devices, CoveredOf(d), step[d] \in Before \/ Drop(d), ~List(d)
    PROVE  CoveredOf(d)'
<1>0. /\ DOMAIN step = Devices /\ DOMAIN doomed = Devices /\ DOMAIN fetched = Devices
  BY Domains DEF IInv
<1>1. CASE Drop(d)
  <2>1. step'[d] \in Before /\ doomed'[d] = {} /\ fetched'[d] = {}
    BY <1>0, <1>1 DEF Drop, Goto, Before
  <2> QED BY <2>1 DEF CoveredOf
<1>2. CASE step[d] \in Before /\ ~Drop(d)
  <2>1. doomed[d] = {} /\ fetched[d] = {}
    BY <1>2 DEF CoveredOf, IInv, Newer, FetchedOf
  <2>2. ~Judges(d) /\ ~Erases(d) /\ ~ReadValues(d) /\ ~ReadVars(d) /\ ~MergeVars(d) /\ ~Upsert(d)
    BY <1>2 DEF Judges, Upload, Download, UpToDate, Erases, DeleteFile, ReadValues, ReadVars, MergeVars,
                Upsert, Before
  <2>3. UNCHANGED Row(d) \/ Start(d) \/ Clean(d)
    BY <1>2, <2>2, RowFrame DEF Goes
  <2>4. step'[d] \in Before /\ doomed'[d] = {} /\ fetched'[d] = {}
    <3>1. CASE UNCHANGED Row(d)
      BY <1>2, <2>1, <3>1 DEF Row
    <3>2. CASE Start(d) \/ Clean(d)
      BY <1>0, <2>1, <3>2 DEF Start, Clean, Goto, Before, fetchVars, doomVars
    <3> QED BY <2>3, <3>1, <3>2
  <2> QED BY <2>4 DEF CoveredOf
<1> QED BY <1>1, <1>2

LEMMA CoveredInvariant == Spec => []Covered
<1>1. Init => Covered
  BY DEF Init, Covered, CoveredOf, Before
<1>2. IInv /\ [Next]_all /\ Covered => Covered'
  <2> SUFFICES ASSUME IInv, [Next]_all, Covered, NEW d \in Devices
               PROVE  CoveredOf(d)'
    BY DEF Covered
  <2>1. CoveredOf(d)
    BY DEF Covered
  <2>2. CASE List(d)
    BY <2>1, <2>2, ListCovered
  <2>3. CASE ~List(d) /\ (step[d] \in Before \/ Drop(d))
    BY <2>1, <2>3, NothingCovered
  <2>4. CASE step[d] \notin Before /\ ~Drop(d)
    BY <2>1, <2>4, GoesOnCovered, DownloadCovered, UpsertCovered
  <2> QED BY <2>2, <2>3, <2>4
<1> QED BY <1>1, <1>2, Invariant, PTL DEF Spec

\* Only DeleteFile takes a file away.
LEMMA FileGone ==
    ASSUME [Next]_all, NEW f \in remote, f \notin remote'
    PROVE  \E d \in Devices : step[d] = "delete" /\ f \in doomed[d]
<1>1. CASE UNCHANGED fileVars \/ \E d \in Devices, i \in Items : Upload(d, i)
  BY <1>1 DEF fileVars, Upload
<1>2. CASE Deletes
  <2>1. PICK d \in Devices : \E g \in doomed[d] : DeleteFile(d, g)
    BY <1>2 DEF Deletes
  <2>2. PICK g \in doomed[d] : DeleteFile(d, g)
    BY <2>1
  <2>3. step[d] = "delete" /\ g = f
    BY <2>2 DEF DeleteFile, fileVars
  <2> QED BY <2>3
<1> QED BY <1>1, <1>2, Framed DEF Frame

\* The newest file of an item goes away only when a device has something later.
THEOREM SyncRemoteCovered == Spec => RemoteLossCovered
<1> DEFINE Lost(i) == \/ Expired(NewestRemote(i))
                      \/ \E d \in Devices : Written(d, i) > NewestRemote(i)
<1>1. ASSUME IInv, IInv', Covered, [Next]_all, NEW i \in Items, NewestRemote(i)' < NewestRemote(i)
      PROVE  Lost(i)
  <2> DEFINE TimesIn(R) == {f.time : f \in {g \in R : g.item = i}} \cup {0}
  <2>1. PICK n \in Nat : n = now' /\ now \in Nat /\ now <= n
    BY <1>1, HistoryGrows
  <2>2. /\ \A f \in remote : f.time \in 0 .. n
        /\ \A f \in remote' : f.time \in 0 .. n
    <3>1. DatedFileVars(now) /\ DatedFileVars(n)'
      BY <1>1, <2>1 DEF IInv, Dated, DatedFileVars
    <3>2. \A f \in remote : f.time \in 1 .. now
      BY <3>1 DEF DatedFileVars, DatedFiles
    <3>3. \A f \in remote' : f.time \in 1 .. n
      BY <3>1 DEF DatedFileVars, DatedFiles
    <3> QED BY <2>1, <3>2, <3>3
  <2>3. /\ TimesIn(remote) \in SUBSET (0 .. n) /\ TimesIn(remote) # {}
        /\ TimesIn(remote') \in SUBSET (0 .. n) /\ TimesIn(remote') # {}
    BY <2>2
  <2>4. NewestRemote(i) = Max(TimesIn(remote)) /\ NewestRemote(i)' = Max(TimesIn(remote'))
    BY DEF NewestRemote
  <2> HIDE DEF TimesIn
  <2>5. /\ NewestRemote(i) \in TimesIn(remote) /\ NewestRemote(i)' \in TimesIn(remote')
        /\ \A x \in TimesIn(remote') : NewestRemote(i)' >= x
    BY <2>3, <2>4, MaxOf
  <2>6. NewestRemote(i) \in Nat /\ NewestRemote(i)' \in Nat /\ NewestRemote(i) > 0
    BY <1>1, <2>3, <2>5
  <2> USE DEF TimesIn
  <2>7. PICK f \in remote : f.item = i /\ f.time = NewestRemote(i)
    BY <2>5, <2>6
  <2>8. f \notin remote'
    <3>1. f \in remote' => f.time \in TimesIn(remote')
      BY <2>7
    <3> QED BY <1>1, <2>5, <2>6, <2>7, <3>1
  <2>9. PICK d \in Devices : step[d] = "delete" /\ f \in doomed[d]
    BY <1>1, <2>8, FileGone
  <2>10. /\ Written(d, i) \in Nat /\ snapshot[d][i].time \in Nat
         /\ \A g \in fetched[d] : g.time \in Nat
    BY <1>1, VersionDated, FilesDated
  <2>11. CASE f.deleted /\ Expired(f.time)
    BY <2>7, <2>11
  <2>12. CASE f.time < snapshot[d][i].time
    <3>1. Written(d, i) >= snapshot[d][i].time
      BY <1>1, <2>9 DEF Covered, CoveredOf, Before
    <3> QED BY <2>6, <2>7, <2>10, <2>12, <3>1
  <2>13. CASE \E g \in fetched[d] : g.item = f.item /\ g.time > f.time
    <3>1. PICK g \in fetched[d] : g.item = i /\ g.time > f.time
      BY <2>7, <2>13
    <3>2. Written(d, i) >= g.time
      BY <1>1, <2>9, <3>1 DEF Covered, CoveredOf
    <3> QED BY <2>6, <2>7, <2>10, <3>1, <3>2
  <2> QED BY <1>1, <2>7, <2>9, <2>11, <2>12, <2>13 DEF Covered, CoveredOf
<1>2. IInv /\ IInv' /\ Covered /\ [Next]_all => [\A i \in Items :
          NewestRemote(i)' < NewestRemote(i) =>
              \/ Expired(NewestRemote(i))
              \/ \E d \in Devices : Written(d, i) > NewestRemote(i)]_all
  BY <1>1
<1> QED BY <1>2, Invariant, CoveredInvariant, PTL DEF Spec, RemoteLossCovered

-----------------------------------------------------------------------------
(* Who has the newest values of the variables.                             *)

\* While a sync is about to store its merge, what counts of a device is what it
\* copied: whatever was set since is overwritten.
Held(d, k) == IF step[d] = "merge" THEN vsnapshot[d][k] ELSE vars[d][k]

\* A time that may be forgotten.
Lapsed(k, t) == Removed(k, t) \/ (k \in torn /\ Expired(t))

Copied ==
    \A d \in Devices, k \in Keys :
        step[d] = "merge" => vars[d][k] >= vsnapshot[d][k] \/ Lapsed(k, vsnapshot[d][k])

Backed ==
    \A k \in Keys, t \in Times :
        rvars[t] # NoFile =>
            Lapsed(k, rvars[t][k]) \/ \E d \in Devices : Held(d, k) >= rvars[t][k]

\* After a step.
LapsedThen(k, t) ==
    (\E u \in unset'[k] : u >= t /\ Past(now', u)) \/ (k \in torn' /\ Past(now', t))
HeldThen(d, k) == IF step'[d] = "merge" THEN vsnapshot'[d][k] ELSE vars'[d][k]

StillHeld(d, k) ==
    /\ HeldThen(d, k) >= Held(d, k) \/ LapsedThen(k, Held(d, k))
    /\ step'[d] = "merge" =>
           vars'[d][k] >= vsnapshot'[d][k] \/ LapsedThen(k, vsnapshot'[d][k])

\* What is forgotten stays forgotten, and what is older with it.
LEMMA LapsedStays ==
    ASSUME IInv, [Next]_all, NEW k \in Keys, NEW t \in Nat, Lapsed(k, t), NEW s \in Nat, s <= t
    PROVE  LapsedThen(k, s)
<1>1. now \in Nat /\ now' \in Nat /\ now' >= now
  BY HistoryGrows
<1>2. CASE Removed(k, t)
  <2>1. PICK u \in unset[k] : u >= t /\ Past(now, u)
    BY <1>2 DEF Removed, Expired
  <2>2. u \in Nat
    BY VarsDated
  <2>3. Past(now', u) /\ u >= s
    BY <1>1, <2>1, <2>2, SyncAssumption DEF Past
  <2> QED BY <2>1, <2>3, HistoryGrows DEF LapsedThen
<1>3. CASE k \in torn /\ Expired(t)
  <2>1. Past(now', s)
    BY <1>1, <1>3, SyncAssumption DEF Expired, Past
  <2> QED BY <1>3, <2>1, HistoryGrows DEF LapsedThen
<1> QED BY <1>2, <1>3 DEF Lapsed

LEMMA SameHeld ==
    ASSUME IInv, [Next]_all, Copied, NEW d \in Devices, NEW k \in Keys, vars'[d] = vars[d],
           \/ step'[d] # "merge"
           \/ step'[d] = step[d] /\ vsnapshot'[d] = vsnapshot[d]
           \/ step[d] # "merge" /\ vsnapshot'[d] = vars[d]
    PROVE  StillHeld(d, k)
<1>1. vars[d][k] \in Nat /\ vsnapshot[d][k] \in Nat
  BY VarsDated
<1>2. step[d] = "merge" => vars[d][k] >= vsnapshot[d][k] \/ LapsedThen(k, vsnapshot[d][k])
  <2>1. vsnapshot[d][k] <= vsnapshot[d][k]
    BY <1>1
  <2> QED BY <1>1, <2>1, LapsedStays DEF Copied
<1> QED BY <1>1, <1>2 DEF StillHeld, Held, HeldThen

\* An update that forgets the time of a variable.
LEMMA UpdateVarsHeld ==
    ASSUME IInv, Whole, [Next]_all, Copied, NEW d \in Devices, NEW j \in Keys, NEW remove \in BOOLEAN,
           UpdateVars(d, j, remove), NEW k \in Keys
    PROVE  StillHeld(d, k)
<1>1. /\ vars[d][k] \in Nat /\ vsnapshot[d][k] \in Nat /\ now \in Nat
      /\ vars[d][k] <= now
  BY VarsDated
<1>2. step'[d] = step[d] /\ vsnapshot'[d] = vsnapshot[d] /\ now' = now + 1
  BY UpdateVarsGives DEF Reads
<1>3. step[d] = "merge" => vars[d][k] >= vsnapshot[d][k] \/ LapsedThen(k, vsnapshot[d][k])
  <2>1. vsnapshot[d][k] <= vsnapshot[d][k]
    BY <1>1
  <2> QED BY <1>1, <2>1, LapsedStays DEF Copied
<1>4. CASE vars'[d][k] = vars[d][k] \/ vars'[d][k] = now + 1
  <2>1. vars'[d][k] >= vars[d][k]
    BY <1>1, <1>4
  <2>2. vars[d][k] >= vsnapshot[d][k] => vars'[d][k] >= vsnapshot[d][k]
    BY <1>1, <1>4
  <2>3. vsnapshot[d][k] >= vsnapshot[d][k]
    BY <1>1
  <2> QED BY <1>2, <1>3, <2>1, <2>2, <2>3 DEF StillHeld, Held, HeldThen
<1>5. CASE vars'[d][k] = 0 /\ Value(k, vals[d][k]) = 0 /\ Past(now', vars[d][k]) /\ vars[d][k] # 0
  <2>1. vars[d][k] \in unset[k] \/ k \in torn
    BY <1>5 DEF Whole, WholeOf, Value
  <2>2. \A s \in Nat : s <= vars[d][k] => LapsedThen(k, s)
    <3> TAKE s \in Nat
    <3> HAVE s <= vars[d][k]
    <3>1. CASE vars[d][k] \in unset[k]
      <4>1. vars[d][k] \in unset'[k] /\ vars[d][k] >= s
        BY <1>1, <3>1, HistoryGrows
      <4> QED BY <1>5, <4>1 DEF LapsedThen
    <3>2. CASE k \in torn
      <4>1. Past(now', s)
        BY <1>1, <1>2, <1>5, SyncAssumption DEF Past
      <4> QED BY <3>2, <4>1, HistoryGrows DEF LapsedThen
    <3> QED BY <2>1, <3>1, <3>2
  <2>3. LapsedThen(k, vars[d][k])
    BY <1>1, <2>2
  <2>4. vars[d][k] >= vsnapshot[d][k] => LapsedThen(k, vsnapshot[d][k])
    BY <1>1, <2>2
  <2>5. vsnapshot[d][k] >= vsnapshot[d][k]
    BY <1>1
  <2> QED BY <1>2, <1>3, <2>3, <2>4, <2>5 DEF StillHeld, Held, HeldThen
<1>6. \/ vars'[d][k] = vars[d][k] \/ vars'[d][k] = now + 1
      \/ vars'[d][k] = 0 /\ Value(k, vals[d][k]) = 0 /\ Past(now', vars[d][k])
  BY <1>2, UpdateVarsGives
<1> QED BY <1>4, <1>5, <1>6

\* What a merge brings the device to.
LEMMA MergeVarsHeld ==
    ASSUME IInv, Whole, [Next]_all, Copied, NEW d \in Devices, MergeVars(d), NEW k \in Keys
    PROVE  /\ StillHeld(d, k)
           /\ HeldThen(d, k) >= Merged(d)[k] \/ LapsedThen(k, Merged(d)[k])
<1>1. step[d] = "merge" /\ step'[d] # "merge"
  <2>1. DOMAIN step = Devices
    BY Domains DEF IInv
  <2> QED BY <2>1 DEF MergeVars, Goto
<1>2. PICK n \in Nat : n = now /\ Dated(n)
  BY SyncAssumption DEF IInv, Stamps
<1>3. PICK t \in 0 .. n :
          /\ t >= vsnapshot[d][k]
          /\ Merged(d)[k] = IF Forgotten(k, t, Winning(d, k), now) THEN 0 ELSE t
  BY <1>2, MergedDated
<1>4. vars[d][k] \in Nat /\ vsnapshot[d][k] \in Nat /\ Merged(d)[k] \in Nat
  BY <1>3, VarsDated
<1>5. Merged(d)[k] >= vsnapshot[d][k] \/ LapsedThen(k, vsnapshot[d][k])
  <2>1. CASE Merged(d)[k] = t
    BY <1>3, <2>1
  <2>2. CASE Merged(d)[k] # t /\ k \in torn
    <3>1. Past(now, t)
      BY <1>3, <2>2 DEF Forgotten
    <3> QED BY <1>3, <1>4, <2>2, <3>1, LapsedStays DEF Lapsed, Expired
  <2>3. CASE Merged(d)[k] # t /\ k \notin torn
    <3>1. WholeOf(d, k)
      BY <2>3 DEF Whole
    <3>2. PICK s \in Nat : /\ s >= vsnapshot[d][k]
                           /\ Merged(d)[k] = s \/ Merged(d)[k] = 0
                           /\ Merged(d)[k] # s => s \in unset[k] /\ Past(now, s)
      BY <1>1, <3>1, MergedWhole
    <3>3. CASE Merged(d)[k] = s
      BY <3>2, <3>3
    <3>4. CASE Merged(d)[k] # s
      <4>1. s >= s
        BY <3>2
      <4>2. Lapsed(k, s)
        BY <3>2, <3>4, <4>1 DEF Lapsed, Removed, Expired
      <4> QED BY <1>4, <3>2, <4>2, LapsedStays
    <3> QED BY <3>3, <3>4
  <2> QED BY <2>1, <2>2, <2>3
<1>6. CASE vars'[d] = Merged(d)
  BY <1>1, <1>4, <1>5, <1>6 DEF StillHeld, Held, HeldThen
<1>7. CASE vars'[d] = vars[d] /\ Merged(d) = vsnapshot[d]
  <2>1. vars[d][k] >= vsnapshot[d][k] \/ LapsedThen(k, vsnapshot[d][k])
    <3>1. vsnapshot[d][k] <= vsnapshot[d][k]
      BY <1>4
    <3> QED BY <1>1, <1>4, <3>1, LapsedStays DEF Copied
  <2> QED BY <1>1, <1>7, <2>1 DEF StillHeld, Held, HeldThen
<1>8. vars'[d] = Merged(d) \/ (vars'[d] = vars[d] /\ Merged(d) = vsnapshot[d])
  BY VarsDated DEF MergeVars, SetVars, varVars
<1> QED BY <1>6, <1>7, <1>8

LEMMA NextHeld ==
    ASSUME IInv, Whole, [Next]_all, Copied, NEW d \in Devices, NEW k \in Keys
    PROVE  StillHeld(d, k)
<1>0. DOMAIN step = Devices /\ DOMAIN vsnapshot = Devices
  BY DEF IInv, Dated, DatedSteps, DatedReads
<1>1. CASE MergeVars(d)
  BY <1>1, MergeVarsHeld
<1>2. CASE \E j \in Keys, remove \in BOOLEAN : UpdateVars(d, j, remove)
  BY <1>2, UpdateVarsHeld
<1>3. CASE UNCHANGED Has(d) /\ ~MergeVars(d)
  <2>1. vars'[d] = vars[d]
    BY <1>3 DEF Has
  <2>2. CASE UNCHANGED Reads(d)
    BY <2>1, <2>2, SameHeld DEF Reads
  <2>3. CASE Drop(d) \/ Start(d) \/ Clean(d) \/ List(d) \/ ReadValues(d) \/ Upsert(d)
    <3>1. step'[d] # "merge"
      BY <1>0, <2>3 DEF Drop, Start, Clean, List, ReadValues, Upsert, Goto
    <3> QED BY <2>1, <3>1, SameHeld
  <2>4. CASE ReadVars(d)
    <3>1. step[d] # "merge" /\ vsnapshot'[d] = vars[d]
      BY <1>0, <2>4 DEF ReadVars
    <3> QED BY <2>1, <3>1, SameHeld
  <2> QED BY <1>3, <2>2, <2>3, <2>4, ReadsFrame DEF Goes
<1> QED BY <1>1, <1>2, <1>3, HasFrame

\* A file of variables is written by MergeVars only.
LEMMA FilesWritten ==
    ASSUME IInv, [Next]_all, NEW t \in Times
    PROVE  \/ rvars'[t] = rvars[t] \/ rvars'[t] = NoFile
           \/ \E d \in Devices : MergeVars(d) /\ rvars'[t] = Merged(d)
<1>1. CASE UNCHANGED varFileVars
  BY <1>1 DEF varFileVars
<1>2. CASE \E d \in Devices : MergeVars(d)
  <2>1. PICK d \in Devices : MergeVars(d)
    BY <1>2
  <2>2. rvars' = rvars \/ rvars' = [rvars EXCEPT ![VarsTime(d)] = Merged(d)]
    BY <2>1 DEF MergeVars, varFileVars
  <2>3. rvars'[t] = rvars[t] \/ rvars'[t] = Merged(d)
    BY <2>2, VarsDated
  <2> QED BY <2>1, <2>3
<1>3. CASE VarsDeletes
  <2>1. PICK u : rvars' = rvars \/ rvars' = [rvars EXCEPT ![u] = NoFile]
    BY <1>3 DEF VarsDeletes, DeleteVarsFile, varFileVars
  <2> QED BY <2>1, VarsDated
<1> QED BY <1>1, <1>2, <1>3, Framed DEF Frame

LEMMA NextBacked ==
    ASSUME IInv, IInv', Whole, [Next]_all, Copied, Backed, NEW k \in Keys, NEW t \in Times,
           rvars'[t] # NoFile
    PROVE  LapsedThen(k, rvars'[t][k]) \/ \E d \in Devices : HeldThen(d, k) >= rvars'[t][k]
<1>1. CASE rvars'[t] = rvars[t]
  <2>1. PICK v : v = rvars[t][k]
    OBVIOUS
  <2>2. v \in Nat /\ rvars'[t][k] = v
    BY <1>1, <2>1, VarsDated
  <2>3. CASE Lapsed(k, v)
    <3>1. v <= v
      BY <2>2
    <3> QED BY <2>2, <2>3, <3>1, LapsedStays
  <2>4. CASE \E d \in Devices : Held(d, k) >= v
    <3>1. PICK d \in Devices : Held(d, k) >= v
      BY <2>4
    <3>2. Held(d, k) \in Nat
      BY VarsDated DEF Held
    <3>3. HeldThen(d, k) \in Nat
      <4>1. PICK n \in Nat : n = now'
        BY HistoryGrows
      <4>2. DatedVarVars(n)' /\ DatedReads(n)'
        BY <4>1 DEF IInv, Dated, DatedVarVars, DatedReads
      <4>3. vars'[d][k] \in 0 .. n /\ vsnapshot'[d][k] \in 0 .. n
        BY <4>2 DEF DatedVarVars, DatedReads, DatedVars, Upto
      <4> QED BY <4>3 DEF HeldThen
    <3>4. StillHeld(d, k)
      BY NextHeld
    <3>5. CASE HeldThen(d, k) >= Held(d, k)
      BY <2>2, <3>1, <3>2, <3>3, <3>5
    <3>6. CASE LapsedThen(k, Held(d, k))
      <4>1. CASE \E u \in unset'[k] : u >= Held(d, k) /\ Past(now', u)
        <5>1. PICK u \in unset'[k] : u >= Held(d, k) /\ Past(now', u)
          BY <4>1
        <5>2. u \in Nat
          BY DEF IInv, Dated, Stamps
        <5>3. u >= v
          BY <2>2, <3>1, <3>2, <5>1, <5>2
        <5> QED BY <2>2, <5>1, <5>3 DEF LapsedThen
      <4>2. CASE k \in torn' /\ Past(now', Held(d, k))
        <5>1. now' \in Nat
          BY HistoryGrows
        <5>2. Past(now', v)
          BY <2>2, <3>1, <3>2, <4>2, <5>1, SyncAssumption DEF Past
        <5> QED BY <2>2, <4>2, <5>2 DEF LapsedThen
      <4> QED BY <3>6, <4>1, <4>2 DEF LapsedThen
    <3> QED BY <3>4, <3>5, <3>6 DEF StillHeld
  <2> QED BY <1>1, <2>1, <2>3, <2>4 DEF Backed
<1>2. CASE \E d \in Devices : MergeVars(d) /\ rvars'[t] = Merged(d)
  BY <1>2, MergeVarsHeld
<1> QED BY <1>1, <1>2, FilesWritten

LEMMA HeldInvariant == Spec => [](Copied /\ Backed)
<1>1. Init => Copied /\ Backed
  BY DEF Init, Copied, Backed
<1>2. ASSUME IInv, IInv', Whole, [Next]_all, Copied, Backed
      PROVE  Copied' /\ Backed'
  <2>1. \A d \in Devices, k \in Keys :
            step'[d] = "merge" => vars'[d][k] >= vsnapshot'[d][k] \/ LapsedThen(k, vsnapshot'[d][k])
    BY <1>2, NextHeld DEF StillHeld
  <2>2. \A k \in Keys, t \in Times :
            rvars'[t] # NoFile =>
                LapsedThen(k, rvars'[t][k]) \/ \E d \in Devices : HeldThen(d, k) >= rvars'[t][k]
    BY <1>2, NextBacked
  <2>3. Copied'
    BY <2>1 DEF Copied, Lapsed, Removed, Expired, LapsedThen
  <2>4. Backed'
    BY <2>2 DEF Backed, Lapsed, Removed, Expired, LapsedThen, Held, HeldThen
  <2> QED BY <2>3, <2>4
<1>3. IInv /\ IInv' /\ Whole /\ [Next]_all /\ Copied /\ Backed => Copied' /\ Backed'
  BY <1>2
<1> QED BY <1>1, <1>3, Invariant, WholeInvariant, PTL DEF Spec

\* The newest value of a variable is on some device, unless it may be forgotten.
THEOREM SyncVarsHeld == Spec => []VarsHeld
<1>1. ASSUME IInv, Copied, Backed, NEW k \in Keys, NewestVar(k) # 0
      PROVE  Lapsed(k, NewestVar(k)) \/ \E d \in Devices : vars[d][k] >= NewestVar(k)
  <2> DEFINE Stored == {rvars[t][k] : t \in {u \in Times : rvars[u] # NoFile}} \cup {0}
  <2>1. now \in Nat /\ Stored \in SUBSET (0 .. now) /\ Stored # {} /\ NewestVar(k) = Max(Stored)
    BY <1>1, VarsDated DEF NewestVar
  <2>2. NewestVar(k) \in Stored
    <3> HIDE DEF Stored
    <3> QED BY <2>1, MaxOf
  <2>3. PICK t \in Times : rvars[t] # NoFile /\ NewestVar(k) = rvars[t][k]
    BY <1>1, <2>2
  <2>4. PICK v \in Nat : v = NewestVar(k)
    <3>1. NewestVar(k) \in 0 .. now
      BY <1>1, <2>3, VarsDated
    <3>2. now \in Nat
      BY <1>1, VarsDated
    <3>3. NewestVar(k) \in Nat
      BY <3>1, <3>2
    <3> HIDE DEF Stored
    <3> QED BY <3>3
  <2>5. CASE Lapsed(k, rvars[t][k])
    BY <2>3, <2>5
  <2>6. CASE \E d \in Devices : Held(d, k) >= rvars[t][k]
    <3>1. PICK d \in Devices : Held(d, k) >= v
      BY <2>3, <2>4, <2>6
    <3>2. vars[d][k] \in Nat /\ vsnapshot[d][k] \in Nat /\ unset[k] \in SUBSET Nat
      BY <1>1, VarsDated
    <3>3. CASE step[d] = "merge"
      <4>1. vsnapshot[d][k] >= v
        BY <3>1, <3>3 DEF Held
      <4>2. CASE vars[d][k] >= vsnapshot[d][k]
        BY <2>4, <3>2, <4>1, <4>2
      <4>3. CASE Removed(k, vsnapshot[d][k])
        BY <2>4, <3>2, <4>1, <4>3 DEF Lapsed, Removed
      <4>4. CASE k \in torn /\ Expired(vsnapshot[d][k])
        <5>1. Expired(v)
          BY <2>1, <2>4, <3>2, <4>1, <4>4, SyncAssumption DEF Expired, Past
        <5> QED BY <2>4, <4>4, <5>1 DEF Lapsed
      <4> QED BY <1>1, <3>3, <4>2, <4>3, <4>4 DEF Copied, Lapsed
    <3>4. CASE step[d] # "merge"
      BY <2>4, <3>1, <3>4 DEF Held
    <3> QED BY <3>3, <3>4
  <2> QED BY <1>1, <2>3, <2>5, <2>6 DEF Backed
<1>2. IInv /\ Copied /\ Backed => VarsHeld
  BY <1>1 DEF VarsHeld, Lapsed
<1> QED BY <1>2, Invariant, HeldInvariant, PTL
=============================================================================
