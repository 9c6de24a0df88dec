--------------------------- MODULE PasswordDialog ---------------------------
(***************************************************************************)
(* The tab "Saved Passwords" of the settings (Sidebar.tsx) over a store    *)
(* that is one step for each request.  The window shows the list it was    *)
(* last told and the passwords it has revealed; an answer finds a window   *)
(* that has gone on, and handleReveal puts back the list of its click.     *)
(***************************************************************************)
EXTENDS Naturals, FiniteSets

CONSTANTS
    HostKeys,
    MaxText,  \* bound: passwords are 1 .. MaxText, and 0 is none
    MaxCalls  \* bound on the requests without their answers

VARIABLES
    secrets,     \* what the store holds
    locked,      \* the store is locked
    byKeyring,   \* useKeyring of sysinfo
    opened,      \* settingsOpen, on this tab
    typed,       \* dialogAppPassword is remembered
    passwords,   \* passwordsState
    revealed,    \* revealedPasswords
    requests,    \* sent, and then served
    mixed        \* history: something came between a request and its answer

vars == <<secrets, locked, byKeyring, opened, typed, passwords, revealed, requests, mixed>>

Text == 0 .. MaxText
Listed == {k \in HostKeys : secrets[k] # 0}
Nothing == [k \in HostKeys |-> 0]
List == [locked : BOOLEAN, keys : SUBSET HostKeys]
Request == [op : {"list", "lock", "reveal", "copy", "change", "delete"}, key : HostKeys,
            text : Text, seen : List, served : BOOLEAN]

\* Requests that do not disturb each other.
Apart(a, b) ==
    /\ a.key # b.key
    /\ {a.op, b.op} \subseteq {"reveal", "copy", "change"}

Call(op, k, text) ==
    [op |-> op, key |-> k, text |-> text, seen |-> passwords, served |-> FALSE]

\* fetchPasswords has no key: any will do.
Fetch == Call("list", CHOOSE k \in HostKeys : TRUE, 0)

Sends(r, rest) ==
    /\ Cardinality(rest) < MaxCalls
    /\ requests' = rest \cup {r}
    /\ mixed' = (mixed \/ \E c \in rest : ~Apart(c, r))

store == <<secrets, locked, byKeyring>>
window == <<opened, typed, passwords, revealed>>

-----------------------------------------------------------------------------
(* The user.  Bound: no button is pressed while things are mixed.          *)

Open ==
    /\ ~opened /\ opened' = TRUE
    /\ Sends(Fetch, requests)
    /\ UNCHANGED <<store, typed, passwords, revealed>>

\* The effect of [settingsOpen].
Close ==
    /\ opened /\ opened' = FALSE
    /\ typed' = FALSE /\ revealed' = Nothing
    /\ mixed' = (mixed \/ requests # {})
    /\ UNCHANGED <<store, passwords, requests>>

\* mutant: what is revealed stays
HandleLock_Shows ==
    /\ opened /\ ~mixed /\ ~passwords.locked /\ ~byKeyring
    /\ typed' = FALSE
    /\ Sends(Call("lock", CHOOSE k \in HostKeys : TRUE, 0), requests)
    /\ UNCHANGED <<store, opened, passwords, revealed>>

HandleLock ==
    /\ opened /\ ~mixed /\ ~passwords.locked /\ ~byKeyring
    /\ typed' = FALSE /\ revealed' = Nothing
    /\ Sends(Call("lock", CHOOSE k \in HostKeys : TRUE, 0), requests)
    /\ UNCHANGED <<store, opened, passwords>>

\* The buttons of a row.
HandleReveal(k) ==
    /\ opened /\ ~mixed /\ k \in passwords.keys /\ revealed[k] = 0
    /\ \E op \in {"reveal", "copy"} : Sends(Call(op, k, 0), requests)
    /\ UNCHANGED <<store, window>>

Hide(k) ==
    /\ opened /\ revealed[k] # 0
    /\ revealed' = [revealed EXCEPT ![k] = 0]
    /\ UNCHANGED <<store, opened, typed, passwords, requests, mixed>>

HandleChangePassword(k, text) ==
    /\ opened /\ ~mixed /\ k \in passwords.keys
    /\ Sends(Call("change", k, text), requests)
    /\ UNCHANGED <<store, window>>

HandleDeletePassword(k) ==
    /\ opened /\ ~mixed /\ k \in passwords.keys
    /\ Sends(Call("delete", k, 0), requests)
    /\ UNCHANGED <<store, window>>

-----------------------------------------------------------------------------
(* The server.  Reveal and change unlock the store.                        *)

Served(r, answer) == requests' = (requests \ {r}) \cup {[answer EXCEPT !.served = TRUE]}

Serve(r) ==
    /\ ~r.served
    /\ CASE r.op = "list" ->
              /\ Served(r, [r EXCEPT !.seen = [locked |-> locked, keys |-> Listed]])
              /\ UNCHANGED <<secrets, locked>>
         [] r.op = "lock" ->
              Served(r, r) /\ locked' = TRUE /\ UNCHANGED secrets
         [] r.op \in {"reveal", "copy"} ->
              /\ Served(r, [r EXCEPT !.text = secrets[r.key]])
              /\ locked' = FALSE /\ UNCHANGED secrets
         [] r.op = "change" ->
              /\ Served(r, r)
              /\ locked' = FALSE /\ secrets' = [secrets EXCEPT ![r.key] = r.text]
         [] r.op = "delete" ->
              /\ Served(r, r)
              /\ secrets' = [secrets EXCEPT ![r.key] = 0] /\ UNCHANGED locked
    /\ UNCHANGED <<byKeyring, window, mixed>>

\* A terminal that saves a password, and another window.  Bound: once before the list
\* is told anew.
Elsewhere ==
    /\ ~mixed
    /\ \/ /\ \E k \in HostKeys, text \in Text : secrets' = [secrets EXCEPT ![k] = text]
          /\ UNCHANGED locked
       \/ ~byKeyring /\ locked' = ~locked /\ UNCHANGED secrets
    /\ mixed' = (mixed \/ opened \/ requests # {})
    /\ UNCHANGED <<byKeyring, window, requests>>

-----------------------------------------------------------------------------
(* The answers.                                                            *)

\* A list that nothing can outdate ends what was mixed.
ListAnswered(r) ==
    /\ r.op = "list" /\ r.served
    /\ requests' = requests \ {r}
    /\ passwords' = r.seen
    /\ mixed' = (mixed /\ ~(requests = {r} /\ opened /\ revealed = Nothing
                            /\ r.seen = [locked |-> locked, keys |-> Listed]))
    /\ UNCHANGED <<store, opened, typed, revealed>>

LockAnswered(r) ==
    /\ r.op = "lock" /\ r.served
    /\ Sends(Fetch, requests \ {r})
    /\ UNCHANGED <<store, window>>

\* A key that is gone is an error, which changes nothing.
RevealAnswered(r) ==
    /\ r.op \in {"reveal", "copy"} /\ r.served
    /\ requests' = requests \ {r}
    /\ IF r.text = 0 THEN UNCHANGED <<typed, passwords, revealed>>
       ELSE /\ typed' = ~byKeyring
            /\ passwords' = [r.seen EXCEPT !.locked = FALSE]
            /\ revealed' = IF r.op = "copy" THEN revealed
                           ELSE [revealed EXCEPT ![r.key] = r.text]
    /\ UNCHANGED <<store, opened, mixed>>

\* What is revealed of the key follows; that the store is unlocked is not told.
ChangeAnswered(r) ==
    /\ r.op = "change" /\ r.served
    /\ requests' = requests \ {r}
    /\ typed' = ~byKeyring
    /\ revealed' = IF revealed[r.key] = 0 THEN revealed
                   ELSE [revealed EXCEPT ![r.key] = r.text]
    /\ UNCHANGED <<store, opened, passwords, mixed>>

DeleteAnswered(r) ==
    /\ r.op = "delete" /\ r.served
    /\ Sends(Fetch, requests \ {r})
    /\ revealed' = [revealed EXCEPT ![r.key] = 0]
    /\ UNCHANGED <<store, opened, typed, passwords>>

-----------------------------------------------------------------------------

Init ==
    /\ secrets \in [HostKeys -> {0, 1}]
    /\ byKeyring \in BOOLEAN /\ locked = ~byKeyring
    /\ opened = FALSE /\ typed = FALSE
    /\ passwords = [locked |-> TRUE, keys |-> {}] /\ revealed = Nothing
    /\ requests = {} /\ mixed = FALSE

Next ==
    \/ Open
    \/ Close
    \/ HandleLock
    \/ \E k \in HostKeys : HandleReveal(k)
    \/ \E k \in HostKeys : Hide(k)
    \/ \E k \in HostKeys, text \in Text \ {0} : HandleChangePassword(k, text)
    \/ \E k \in HostKeys : HandleDeletePassword(k)
    \/ \E r \in requests : Serve(r)
    \/ Elsewhere
    \/ \E r \in requests : ListAnswered(r)
    \/ \E r \in requests : LockAnswered(r)
    \/ \E r \in requests : RevealAnswered(r)
    \/ \E r \in requests : ChangeAnswered(r)
    \/ \E r \in requests : DeleteAnswered(r)

Spec == Init /\ [][Next]_vars

-----------------------------------------------------------------------------

TypeOK ==
    /\ secrets \in [HostKeys -> Text] /\ revealed \in [HostKeys -> Text]
    /\ {locked, byKeyring, opened, typed, mixed} \subseteq BOOLEAN
    /\ passwords \in List
    /\ requests \subseteq Request /\ Cardinality(requests) <= MaxCalls

\* When every answer is in and nothing came between, the tab lists the keys of the
\* store, never calls a locked store unlocked, and what it reveals is the password that
\* is saved, of a store that is unlocked; a closed tab keeps no password.
PasswordsShown ==
    requests = {} /\ ~mixed =>
        /\ opened => passwords.keys = Listed /\ (locked => passwords.locked)
        /\ \A k \in HostKeys : revealed[k] # 0 => revealed[k] = secrets[k] /\ ~locked /\ opened
        /\ typed => opened
=============================================================================
