---------------------------- MODULE PasswordStore ----------------------------
(***************************************************************************)
(* The saved passwords of hosts (passstore.go) and the app password        *)
(* (config.go, auth.go, app.go).  passwords.json holds a data key (DEK)    *)
(* wrapped by the app password, and the passwords sealed by the DEK; the   *)
(* DEK is in memory while the store is unlocked.  Every operation of       *)
(* passstore is one section of its lock; the handler that changes the app  *)
(* password is several of them, and any handler may come between.          *)
(***************************************************************************)
EXTENDS Naturals, FiniteSets

CONSTANTS
    AppPasswords,
    HostKeys,
    MaxDeks,    \* bound on the data keys made
    MaxChanges  \* bound on the changes of the app password under way

VARIABLES
    password,   \* of Config, in memory
    kept,       \* of the config file
    trusted,    \* appPasswordHash of passstore
    dek,        \* passwords.json: its data key, 0 when there is no file,
    wrapped,    \*   the app password that wraps it,
    saved,      \*   and its entries, each with the data key that seals it
    key,        \* encryptionKeyEnclave, 0 when locked
    deks,       \* the data keys made so far
    useKeyring,
    ring,       \* the app password in the keyring, if it holds one
    form,       \* the settings dialog: "new", "locked" when refused, or "again"
    changing,   \* handlers of /api/settings/password under way
    spoilt      \* history: a change failed, or something came between its steps

config == <<password, kept>>
file == <<dek, wrapped, saved>>
vars == <<password, kept, trusted, dek, wrapped, saved, key, deks, useKeyring, ring, form,
          changing, spoilt>>

Entry == [key : HostKeys, dek : Nat]
Steps == {"empty", "force", "rewrap", "save", "trust", "keyring"}
Change == [new : AppPasswords, step : Steps]

IsEmpty == saved = {}

-----------------------------------------------------------------------------
(* passstore.                                                              *)

\* SetEncryptionKey, when passstore trusts hash: with no file, a data key is made
\* and a file written.
SetEncryptionKey(p, hash) ==
    \/ /\ p = hash /\ dek = 0 /\ deks < MaxDeks
       /\ deks' = deks + 1 /\ key' = deks + 1
       /\ dek' = deks + 1 /\ wrapped' = p /\ saved' = {}
    \/ /\ p = hash /\ dek # 0 /\ wrapped = p
       /\ key' = dek
       /\ UNCHANGED <<file, deks>>
    \/ /\ p # hash \/ (dek # 0 /\ wrapped # p)
       /\ UNCHANGED <<file, key, deks>>

RemoveFile == dek' = 0 /\ saved' = {} /\ UNCHANGED wrapped

\* DeletePasswordFile(FALSE), whose error its caller ignores.
DeleteEmptyFile == IF IsEmpty THEN RemoveFile ELSE UNCHANGED file

\* mutant: the wrapping of the old app password stays
Reencrypt_Keeps(p) == UNCHANGED file

\* ReencryptWithInMemoryKey: what it wraps is the data key in memory.
Reencrypt(p) ==
    IF dek = 0 THEN UNCHANGED file
    ELSE dek' = key /\ wrapped' = p /\ UNCHANGED saved

\* A handler came between the steps of a change.
Meets(b) == spoilt' = (spoilt \/ (b /\ changing # {}))

\* /api/login, /api/passwords/unlock, reveal, and the prompt of a terminal: only the
\* prompt tries a password that Config has not verified.
Unlock(p) ==
    /\ SetEncryptionKey(p, trusted)
    /\ Meets(dek' # dek)
    /\ UNCHANGED <<config, trusted, useKeyring, ring, form, changing>>

\* Set, by a terminal that has logged in.
Save(k) ==
    /\ key # 0 /\ dek # 0
    /\ saved' = {e \in saved : e.key # k} \cup {[key |-> k, dek |-> key]}
    /\ Meets(TRUE)
    /\ UNCHANGED <<config, trusted, dek, wrapped, key, deks, useKeyring, form, changing>>

SavedByTerminal(k) == Save(k) /\ UNCHANGED ring

\* /api/passwords/change, which puts the password of the host into the keyring.
SavedByDialog(k) == Save(k) /\ ring' = IF useKeyring THEN {} ELSE ring

Delete(k) ==
    /\ \E e \in saved : e.key = k
    /\ saved' = {e \in saved : e.key # k}
    /\ UNCHANGED <<config, trusted, dek, wrapped, key, deks, useKeyring, ring, form, changing,
                   spoilt>>

\* /api/passwords/lock, /api/logout and /api/logout_all.
Lock ==
    /\ key # 0 /\ ~(useKeyring /\ ring = {password})
    /\ key' = 0
    /\ UNCHANGED <<config, trusted, file, deks, useKeyring, ring, form, changing, spoilt>>

-----------------------------------------------------------------------------
(* The keyring of the system: UpdateConfig, which saves the whole config.  *)

UseKeyring ==
    /\ ~useKeyring /\ useKeyring' = TRUE
    /\ ring' = {password} /\ kept' = password
    /\ UNCHANGED <<password, trusted, file, key, deks, form, changing, spoilt>>

\* With the app password, the store is locked too.
LeaveKeyring(given) ==
    /\ useKeyring /\ useKeyring' = FALSE
    /\ ring' = {} /\ kept' = password
    /\ key' = IF given THEN 0 ELSE key
    /\ UNCHANGED <<password, trusted, file, deks, form, changing, spoilt>>

-----------------------------------------------------------------------------
(* handleSavePassword of the dialog and its handler.                       *)

\* The handler looks at the store, and then acts on what it has seen.
Begin(p, step) ==
    /\ changing' = changing \cup {[new |-> p, step |-> step]}
    /\ Meets(TRUE)

ChangeAppPassword(p) ==
    /\ Cardinality(changing) < MaxChanges /\ \A c \in changing : c.new # p
    /\ \/ IsEmpty /\ Begin(p, "empty") /\ form' = "new"
       \/ ~IsEmpty /\ key # 0 /\ Begin(p, "rewrap") /\ form' = "new"
       \/ /\ ~IsEmpty /\ key = 0 /\ form # "locked"
          /\ form' = "locked" /\ UNCHANGED <<changing, spoilt>>
       \/ ~IsEmpty /\ key = 0 /\ form = "locked" /\ Begin(p, "force") /\ form' = "new"
    /\ UNCHANGED <<config, trusted, file, key, deks, useKeyring, ring>>

\* The refused user logs in with the old password and tries again.
LoginFirst ==
    /\ form = "locked" /\ form' = "again"
    /\ SetEncryptionKey(password, trusted)
    /\ Meets(dek' # dek)
    /\ UNCHANGED <<config, trusted, useKeyring, ring, changing>>

Goes(c, step) == changing' = (changing \ {c}) \cup {[c EXCEPT !.step = step]}
Ends(c) == changing' = changing \ {c}

ChangeFile(c) ==
    /\ \/ c.step = "empty" /\ DeleteEmptyFile /\ Goes(c, "save")
       \/ c.step = "force" /\ RemoveFile /\ Goes(c, "save")
       \/ c.step = "rewrap" /\ key # 0 /\ Reencrypt(c.new) /\ Goes(c, "save")
       \/ c.step = "rewrap" /\ key = 0 /\ UNCHANGED file /\ Ends(c)
    /\ UNCHANGED <<config, trusted, key, deks, useKeyring, ring, form, spoilt>>

\* Config.ChangeAppPassword: the write may fail, when memory has changed already.
ChangeConfig(c) ==
    /\ c.step = "save" /\ password' = c.new
    /\ \/ kept' = c.new /\ Goes(c, "trust") /\ UNCHANGED spoilt
       \/ Ends(c) /\ spoilt' = TRUE /\ UNCHANGED kept
    /\ UNCHANGED <<trusted, file, key, deks, useKeyring, ring, form>>

ChangeTrusted(c) ==
    /\ c.step = "trust" /\ trusted' = password
    /\ IF useKeyring THEN Goes(c, "keyring") ELSE Ends(c)
    /\ UNCHANGED <<config, file, key, deks, useKeyring, ring, form, spoilt>>

ChangeKeyring(c) ==
    /\ c.step = "keyring" /\ ring' = {c.new}
    /\ SetEncryptionKey(c.new, trusted)
    /\ Ends(c)
    /\ UNCHANGED <<config, trusted, useKeyring, form, spoilt>>

-----------------------------------------------------------------------------
(* The process.                                                            *)

\* The start of the program on the config file.
Starts(hash) ==
    /\ password' = hash /\ kept' = hash /\ trusted' = hash
    /\ changing' = {} /\ form' = "new"

\* A restart unlocks the store by the keyring, and gives the keyring up when it
\* cannot.
Restart ==
    /\ Starts(kept) /\ Meets(TRUE)
    /\ \/ /\ useKeyring /\ ring = {kept} /\ (dek # 0 => wrapped = kept)
          /\ SetEncryptionKey(kept, kept)
          /\ UNCHANGED <<useKeyring, ring>>
       \/ /\ useKeyring /\ (ring # {kept} \/ (dek # 0 /\ wrapped # kept))
          /\ useKeyring' = FALSE /\ ring' = {} /\ key' = 0
          /\ UNCHANGED <<file, deks>>
       \/ /\ ~useKeyring /\ key' = 0
          /\ UNCHANGED <<file, deks, useKeyring, ring>>

\* The command line sets a random password while the program is down.  Without the old
\* one, a file that has entries is deleted; with it, Reencrypt compares the old password
\* with the hash of the new one and fails.  An empty file stays as it is.
ResetAppPassword(p, given) ==
    /\ p # kept /\ p \notin ring
    /\ Starts(p) /\ key' = 0
    /\ useKeyring' = FALSE /\ ring' = IF useKeyring THEN {} ELSE ring
    /\ IF ~IsEmpty /\ ~given THEN RemoveFile ELSE UNCHANGED file
    /\ spoilt' = (dek' # 0)
    /\ UNCHANGED deks

-----------------------------------------------------------------------------

Init ==
    /\ password \in AppPasswords /\ kept = password /\ trusted = password
    /\ dek = 0 /\ wrapped = password /\ saved = {} /\ key = 0 /\ deks = 0
    /\ useKeyring = FALSE /\ ring = {}
    /\ form = "new" /\ changing = {} /\ spoilt = FALSE

Next ==
    \/ \E p \in AppPasswords : Unlock(p)
    \/ \E k \in HostKeys : SavedByTerminal(k)
    \/ \E k \in HostKeys : SavedByDialog(k)
    \/ \E k \in HostKeys : Delete(k)
    \/ Lock
    \/ UseKeyring
    \/ \E given \in BOOLEAN : LeaveKeyring(given)
    \/ \E p \in AppPasswords : ChangeAppPassword(p)
    \/ LoginFirst
    \/ \E c \in changing : ChangeFile(c)
    \/ \E c \in changing : ChangeConfig(c)
    \/ \E c \in changing : ChangeTrusted(c)
    \/ \E c \in changing : ChangeKeyring(c)
    \/ Restart
    \/ \E p \in AppPasswords, given \in BOOLEAN : ResetAppPassword(p, given)

Spec == Init /\ [][Next]_vars

-----------------------------------------------------------------------------

TypeOK ==
    /\ {password, kept, trusted, wrapped} \subseteq AppPasswords
    /\ {dek, key, deks} \subseteq Nat /\ dek <= deks /\ key <= deks
    /\ saved \subseteq Entry
    /\ useKeyring \in BOOLEAN /\ ring \subseteq AppPasswords
    /\ form \in {"new", "locked", "again"}
    /\ changing \subseteq Change /\ spoilt \in BOOLEAN

\* Whatever comes between the steps of a change, what is saved can be opened by the
\* data key of its file, and an unlocked store holds that key and no other.
Sealed ==
    /\ dek # 0 => key \in {0, dek}
    /\ \A e \in saved : dek # 0 /\ e.dek = dek

\* When no change is under way, the app password opens the store: of memory, of the
\* disk and of passstore it is the same, and the file is wrapped by it.  The code
\* breaks this when a change fails or is overtaken, and when a reset keeps the file.
Openable ==
    changing = {} /\ ~spoilt =>
        /\ password = kept /\ trusted = password
        /\ dek # 0 => wrapped = password

PasswordsSafe == Sealed /\ Openable
=============================================================================
