------------------------------ MODULE SSHImport -----------------------------
(***************************************************************************)
(* The import of hosts and host keys (SSHImportTab.tsx) from the files     *)
(* that an upload or another device has left in the cache of the server    *)
(* (datasync.go, /api/settings/webdav/... of app.go).                      *)
(*                                                                         *)
(* A host is a block of ssh_config with one option, which may be missing;  *)
(* ssh uses the first block that sets it.  A key is a line of known_hosts, *)
(* all of one type, for one or more host patterns.  Tags and passwords that*)
(* come with a block are left out, and so is the text filter, which only   *)
(* hides more entries.                                                     *)
(***************************************************************************)
EXTENDS Lists, SequencesExt

CONSTANTS
    MaxSteps    \* bound on imports, uploads and changes from elsewhere

VARIABLES
    cache,      \* the files of the device, by view
    listed,     \* the views that the list of devices offers
    hosts, keys,    \* ~/.ssh/config and known_hosts
    view,       \* "list", "hosts", "keys" or "done"
    entries, kinds, selected, acked,    \* of an import view
    imports,    \* requests under way
    leaving,    \* a timer goes back to the list
    steps,
    stale,      \* history: what the entries were compared with has changed; an import
                \*   remembers it, too
    lost,       \* history: keys that an import has removed without being told to
    missing     \* history: new entries that an import has not brought

vars == <<cache, listed, hosts, keys, view, entries, kinds, selected, acked,
          imports, leaving, steps, stale, lost, missing>>

Views == {"hosts", "keys"}
NoFile == <<>>

-----------------------------------------------------------------------------
(* The server.                                                             *)

Block(name, option) == [name |-> name, option |-> option]
\* The option that ssh uses for a name, "" when none is set.
Effective(bs, name) ==
    LET first == SelectInSeq(bs, LAMBDA b : b.name = name /\ b.option # "")
    IN IF first = 0 THEN "" ELSE bs[first].option

\* ReadDeviceSSHConfig, parseSSHConfigToEntries.
KindOfHost(b) ==
    IF \A i \in DOMAIN hosts : hosts[i].name # b.name THEN "new"
    ELSE IF Effective(hosts, b.name) = b.option THEN "same" ELSE "differs"

\* ImportSSHConfigHosts: the blocks go to the end of the file.
ImportHosts(names) ==
    hosts \o Filtered(cache.hosts, {b \in ToSet(cache.hosts) : b.name \in names})

KeyLine(pats, key) == [pats |-> pats, key |-> key]
\* The last line for a pattern.
LineOf(ls, pat) == SelectLastInSeq(ls, LAMBDA l : pat \in ToSet(l.pats))
\* The line that an entry is compared with: that of its first pattern which has one.
Against(ls, l) ==
    LET known == SelectInSeq(l.pats, LAMBDA pat : LineOf(ls, pat) # 0)
    IN IF known = 0 THEN 0 ELSE LineOf(ls, l.pats[known])

\* mutant: looks at the first pattern only
KindOfKey_First(l) ==
    LET i == LineOf(keys, l.pats[1])
    IN IF i = 0 THEN "new" ELSE IF keys[i].key = l.key THEN "same" ELSE "differs"

\* ReadDeviceKnownHosts.
KindOfKey(l) ==
    LET i == Against(keys, l)
    IN IF i = 0 THEN "new" ELSE IF keys[i].key = l.key THEN "same" ELSE "differs"

\* ImportKnownHostsLines: the places are those of the file as it was.
ImportLine(ls, l, force) ==
    LET i == Against(keys, l)
    IN IF i = 0 THEN Append(ls, l)
       ELSE IF ls[i].key # l.key /\ force THEN [ls EXCEPT ![i] = l] ELSE ls
ImportKeys(lines, force) ==
    LET after[n \in 0 .. Len(lines)] ==
          IF n = 0 THEN keys ELSE ImportLine(after[n - 1], lines[n], force)
    IN after[Len(lines)]

\* The files that may be offered.
Offers(v) ==
    IF v = "hosts"
    THEN {<<Block("x", "o2"), Block("y", "o2")>>, <<Block("x", "o1"), Block("y", "")>>}
    ELSE {<<KeyLine(<<"p">>, "k2"), KeyLine(<<"q">>, "k2")>>, <<KeyLine(<<"q", "p">>, "k2")>>}

Kept(ks) == UNION {{<<pat, ks[i].key>> : pat \in ToSet(ks[i].pats)} : i \in DOMAIN ks}

-----------------------------------------------------------------------------
(* The list of devices.                                                    *)

pageVars == <<view, entries, kinds, selected, acked>>
otherVars == <<hosts, keys, imports, leaving, stale, lost, missing>>

Touch == stale' = TRUE /\ imports' = {[i EXCEPT !.stale = TRUE] : i \in imports}

Here == {v \in Views : cache[v] # NoFile}

\* load: the list stays as it is when the answer is not ok.
Ask(files) == listed' \in {files, listed}
Load ==
    /\ view = "list"
    /\ Ask(Here)
    /\ UNCHANGED <<cache, steps, pageVars, otherVars>>

\* handleFileChange, handleDelete; then load.
Change(c) ==
    /\ steps > 0 /\ steps' = steps - 1
    /\ cache' = c
    /\ Touch
Upload ==
    /\ view = "list"
    /\ \E v \in Views : \E f \in Offers(v) : Change([cache EXCEPT ![v] = f])
    /\ Ask({v \in Views : cache'[v] # NoFile})
    /\ UNCHANGED <<pageVars, hosts, keys, leaving, lost, missing>>
Delete ==
    /\ view = "list" /\ listed # {}
    /\ Change([v \in Views |-> NoFile])
    /\ Ask({})
    /\ UNCHANGED <<pageVars, hosts, keys, leaving, lost, missing>>

-----------------------------------------------------------------------------
(* The import views.                                                       *)

Entry(of, kind) == [of |-> of, kind |-> kind]
Compared(v) ==
    {Entry(cache[v][i], IF v = "hosts" THEN KindOfHost(cache[v][i]) ELSE KindOfKey(cache[v][i])) :
       i \in DOMAIN cache[v]}

\* A view is made anew, with what it has from the server.
Mount(v) ==
    /\ view' = v
    /\ entries' = Compared(v)
    /\ kinds' = IF v = "hosts" THEN {"new", "differs"} ELSE {"new"}
    /\ selected' = {} /\ acked' = {}
    /\ imports' = {[i EXCEPT !.mounted = FALSE] : i \in imports}
    /\ stale' = FALSE
Unmounted(v) ==
    /\ view' = v
    /\ entries' = {} /\ kinds' = {} /\ selected' = {} /\ acked' = {}

\* The Import button of the list, and those of the other view.
OpenView ==
    /\ \/ view = "list" /\ listed # {} /\ Mount(IF "hosts" \in listed THEN "hosts" ELSE "keys")
       \/ view \in Views /\ \E v \in listed \ {view} : Mount(v)
    /\ UNCHANGED <<cache, listed, hosts, keys, leaving, steps, lost, missing>>

Back ==
    /\ view \in Views
    /\ Unmounted("list")
    /\ imports' = {[i EXCEPT !.mounted = FALSE] : i \in imports}
    /\ Ask(Here)
    /\ UNCHANGED <<cache, hosts, keys, leaving, steps, stale, lost, missing>>

Shown == {e \in entries : e.kind \in kinds}
Choose(S) ==
    /\ selected' = S
    /\ UNCHANGED <<cache, listed, otherVars, steps, view, entries, kinds, acked>>

ShowKind ==
    /\ view \in Views
    /\ \E k \in {"new", "differs", "same"} : kinds' = SymDiff(kinds, {k})
    /\ UNCHANGED <<cache, listed, otherVars, steps, view, entries, selected, acked>>
ToggleSelect == \E e \in Shown : Choose(SymDiff(selected, {e}))
\* handleSelectAllClick: keys that differ are chosen one by one.
Choosable == IF view = "keys" THEN {e \in Shown : e.kind # "differs"} ELSE Shown
SelectAll ==
    /\ Shown # {}
    /\ Choose(IF Choosable # {} /\ Choosable \subseteq selected THEN selected \ Choosable
              ELSE selected \cup Choosable)
Acknowledge ==
    /\ view = "keys"
    /\ \E e \in Shown \cap selected : e.kind = "differs" /\ acked' = SymDiff(acked, {e})
    /\ UNCHANGED <<cache, listed, otherVars, steps, view, entries, kinds, selected>>

Conflicts == IF view = "keys" THEN {e \in selected : e.kind = "differs"} ELSE {}

\* handleImport, of the button that is disabled meanwhile.
Import ==
    /\ view \in Views /\ selected # {} /\ Conflicts \subseteq acked
    /\ \A i \in imports : ~i.mounted
    /\ steps > 0 /\ steps' = steps - 1
    /\ imports' = imports \cup {[view |-> view, chosen |-> selected,
                                force |-> Conflicts # {}, mounted |-> TRUE,
                                stale |-> stale]}
    /\ UNCHANGED <<cache, listed, pageVars, hosts, keys, leaving, stale, lost, missing>>

Items(i) == {e.of : e \in i.chosen}

\* The keys that the entries said would be replaced.
Replaced(i) ==
    UNION {LET l == keys[Against(keys, e.of)] IN {<<pat, l.key>> : pat \in ToSet(l.pats)} :
             e \in {f \in i.chosen : f.kind = "differs"}}

\* handleImport, when the answer is ok; onDone.
Imported(i) ==
    /\ i.view = "hosts" => cache.hosts # NoFile
    /\ hosts' = IF i.view = "hosts" THEN ImportHosts({b.name : b \in Items(i)}) ELSE hosts
    /\ keys' = IF i.view = "keys" THEN ImportKeys(SetToSeq(Items(i)), i.force) ELSE keys
    /\ lost' = lost \cup (IF i.stale \/ i.view = "hosts" THEN {}
                          ELSE (Kept(keys) \ Kept(keys')) \ Replaced(i))
    /\ missing' = missing \cup
         (IF i.stale THEN {}
          ELSE {e \in i.chosen :
                  e.kind = "new" /\ IF i.view = "hosts"
                                    THEN Effective(hosts', e.of.name) # e.of.option
                                    ELSE \E pat \in ToSet(e.of.pats) : <<pat, e.of.key>> \notin Kept(keys')})
    /\ imports' = {[j EXCEPT !.stale = TRUE] : j \in imports \ {i}} /\ stale' = TRUE
    /\ leaving' = TRUE
    /\ IF i.mounted THEN Unmounted("done") ELSE UNCHANGED pageVars
    /\ UNCHANGED <<cache, listed, steps>>
ImportFails(i) ==
    /\ imports' = imports \ {i}
    /\ UNCHANGED <<cache, listed, pageVars, hosts, keys, leaving, steps, stale, lost, missing>>

\* handleDone: 800 ms later, whatever is open then.
Leave ==
    /\ leaving /\ leaving' = FALSE
    /\ IF view = "list" THEN UNCHANGED <<pageVars, listed, imports>>
       ELSE /\ Unmounted("list") /\ Ask(Here)
            /\ imports' = {[i EXCEPT !.mounted = FALSE] : i \in imports}
    /\ UNCHANGED <<cache, hosts, keys, steps, stale, lost, missing>>

-----------------------------------------------------------------------------

\* A connection accepts the key of a host, or a host is added.
Elsewhere ==
    /\ steps > 0 /\ steps' = steps - 1
    /\ \/ \E pat \in {"p", "q"} :
             /\ LineOf(keys, pat) = 0
             /\ keys' = Append(keys, KeyLine(<<pat>>, "k1")) /\ UNCHANGED hosts
       \/ /\ \A i \in DOMAIN hosts : hosts[i].name # "y"
          /\ hosts' = Append(hosts, Block("y", "o1")) /\ UNCHANGED keys
    /\ Touch
    /\ UNCHANGED <<cache, listed, pageVars, leaving, lost, missing>>

Init ==
    /\ \E h \in Offers("hosts") : cache = [v \in Views |-> IF v = "hosts" THEN h ELSE NoFile]
    /\ listed = Here
    /\ hosts = <<Block("x", "o1")>>
    /\ keys \in {<<>>, <<KeyLine(<<"p">>, "k1")>>, <<KeyLine(<<"p", "q">>, "k1")>>}
    /\ view = "list" /\ entries = {} /\ kinds = {} /\ selected = {} /\ acked = {}
    /\ imports = {} /\ leaving = FALSE /\ steps = MaxSteps
    /\ stale = FALSE /\ lost = {} /\ missing = {}

Next ==
    \/ Load
    \/ Upload
    \/ Delete
    \/ OpenView
    \/ Back
    \/ ShowKind
    \/ ToggleSelect
    \/ SelectAll
    \/ Acknowledge
    \/ Import
    \/ \E i \in imports : Imported(i) \/ ImportFails(i)
    \/ Leave
    \/ Elsewhere

Spec == Init /\ [][Next]_vars

-----------------------------------------------------------------------------

TypeOK ==
    /\ \A v \in Views : cache[v] \in Offers(v) \cup {NoFile}
    /\ listed \subseteq Views
    /\ view \in Views \cup {"list", "done"}
    /\ kinds \subseteq {"new", "differs", "same"}
    /\ selected \subseteq entries /\ acked \subseteq entries
    /\ leaving \in BOOLEAN /\ stale \in BOOLEAN /\ steps \in 0 .. MaxSteps

\* No key goes but those that the user has seen replaced: the line that an entry
\* was shown to differ from, with all its patterns.  It holds while the file is
\* as it was when the entries were compared with it.
KeysKept == lost = {}

\* What was shown as new is there after the import, with its option or its key.
NewIsThere == missing = {}

ImportSafe == KeysKept /\ NewIsThere
=============================================================================
