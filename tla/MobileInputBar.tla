---------------------------- MODULE MobileInputBar ----------------------------
(***************************************************************************)
(* The accessory bar of touch screens (MobileInputBar.tsx, Dashboard.tsx). *)
(* Its panel of extra keys replaces the system keyboard: while it is open, *)
(* the terminal has inputmode "none", and the history of the browser has an*)
(* entry more, which "back" pops.  history.back() answers later, with      *)
(* popstate; the panel goes when the keyboard has come, or after 400 ms.   *)
(***************************************************************************)
EXTENDS Naturals

CONSTANTS
    BarPanes,
    MaxPending  \* bound on what a tap may find pending: backs, closings

VARIABLES
    panel,      \* extraKeysOpen
    at,         \* the entry of the history: "page", "panel", or "left" the page
    backs,      \* calls of history.back() without their popstate
    closings,   \* calls of performClose that wait for the keyboard
    muted,      \* the panes whose inputmode is "none"
    front,      \* the active pane
    retry,      \* the effect of Dashboard is to run again
    ctrl, alt,  \* the latches of the bar
    sent,       \* the last bytes: with Ctrl, with Esc before them
    turned,     \* history: another pane became active under the panel
    twice       \* history: one back was asked for before another was done

vars == <<panel, at, backs, closings, muted, front, retry, ctrl, alt, sent, turned, twice>>

Plain == [ctrl |-> FALSE, esc |-> FALSE]

\* The effect of [extraKeysOpen]: an entry that is missing is pushed, and one
\* that is left over is popped.
\* mutant: whatever the entry is
Closed_AnyEntry ==
    /\ backs' = backs + 1 /\ twice' = (twice \/ backs > 0)
    /\ UNCHANGED at

Opened == at' = "panel" /\ UNCHANGED <<backs, twice>>
Closed ==
    /\ IF at = "panel" THEN backs' = backs + 1 /\ twice' = (twice \/ backs > 0)
                       ELSE UNCHANGED <<backs, twice>>
    /\ UNCHANGED at

\* applyMode of Dashboard: the active terminal, or all that were muted.
ApplyMode(open) ==
    muted' = IF open THEN muted \cup {front} ELSE {}

\* setExtraKeysOpen, with both effects; the second runs once more after 350 ms.
SetPanel(open) ==
    /\ panel' = open
    /\ IF open = panel THEN UNCHANGED <<at, backs, twice, muted, retry, turned>>
       ELSE /\ IF open THEN Opened ELSE Closed
            /\ ApplyMode(open) /\ retry' = TRUE /\ turned' = FALSE

Latches == <<ctrl, alt, sent>>

Retry ==
    /\ retry /\ retry' = FALSE
    /\ ApplyMode(panel) /\ turned' = FALSE
    /\ UNCHANGED <<panel, at, backs, closings, front, Latches, twice>>

-----------------------------------------------------------------------------
(* Closing.                                                                *)

\* performClose: the terminal is focused, which calls the keyboard.
PerformClose == closings' = closings + 1 /\ muted' = muted \ {front}

\* finish: the keyboard has come, or 400 ms are over.
Finish ==
    /\ closings > 0 /\ closings' = closings - 1
    /\ SetPanel(FALSE)
    /\ UNCHANGED <<front, Latches>>

\* onPopState of an entry that is not the panel's.
Popped ==
    IF at = "panel" THEN at' = "page" /\ PerformClose
                    ELSE at' = "left" /\ UNCHANGED <<closings, muted>>

HistoryBack ==
    /\ backs > 0 /\ backs' = backs - 1
    /\ Popped
    /\ UNCHANGED <<panel, front, retry, Latches, turned, twice>>

\* The gesture or the key of the system.
UserBack ==
    /\ at = "panel"
    /\ Popped
    /\ twice' = (twice \/ backs > 0)
    /\ UNCHANGED <<panel, backs, front, retry, Latches, turned>>

\* handleExtraKeysToggle, the button "..." of the bar and of the panel.
Toggle ==
    /\ backs + closings < MaxPending
    /\ \/ /\ ~panel
          /\ SetPanel(TRUE)
          /\ UNCHANGED closings
       \/ /\ panel /\ at = "panel"
          /\ backs' = backs + 1 /\ twice' = (twice \/ backs > 0)
          /\ UNCHANGED <<panel, at, closings, muted, retry, turned>>
       \/ /\ panel /\ at # "panel"
          /\ PerformClose
          /\ UNCHANGED <<panel, at, backs, retry, turned, twice>>
    /\ UNCHANGED <<front, Latches>>

\* onTerminalBlur: the focus goes to something else of the page.
TerminalBlur ==
    /\ panel /\ SetPanel(FALSE)
    /\ UNCHANGED <<closings, front, Latches>>

\* Another pane takes the focus.  The proxy input of Android says nothing of it
\* when its terminal is muted; a textarea does.
Turn ==
    /\ \E p \in BarPanes \ {front} : front' = p
    /\ \/ SetPanel(FALSE)
       \/ turned' = (turned \/ panel) /\ UNCHANGED <<panel, at, backs, muted, retry, twice>>
    /\ UNCHANGED <<closings, Latches>>

-----------------------------------------------------------------------------
(* Keys.  Ctrl and Alt stay until a key has used them.                     *)

Keep == UNCHANGED <<panel, at, backs, closings, muted, front, retry, turned, twice>>

ToggleCtrl == ctrl' = ~ctrl /\ sent' = Plain /\ Keep /\ UNCHANGED alt
ToggleAlt == alt' = ~alt /\ sent' = Plain /\ Keep /\ UNCHANGED ctrl

\* sendKey, a key of the bar or of the panel: handleSendKey knows nothing of Ctrl.
SendKey ==
    /\ sent' = [ctrl |-> FALSE, esc |-> alt]
    /\ alt' = FALSE
    /\ Keep /\ UNCHANGED ctrl

\* What is typed: a character that has a control code, another one, or a sequence
\* that begins with Esc.
Typed(data) ==
    /\ sent' = [ctrl |-> ctrl /\ data = "character", esc |-> alt]
    /\ ctrl' = (ctrl /\ data = "sequence")
    /\ alt' = FALSE
    /\ Keep

-----------------------------------------------------------------------------

Init ==
    /\ panel = FALSE /\ at = "page" /\ backs = 0 /\ closings = 0
    /\ muted = {} /\ front \in BarPanes /\ retry = TRUE
    /\ ctrl = FALSE /\ alt = FALSE /\ sent = Plain
    /\ turned = FALSE /\ twice = FALSE

Next ==
    /\ at # "left"
    /\ \/ Retry
       \/ Finish
       \/ HistoryBack
       \/ UserBack
       \/ Toggle
       \/ TerminalBlur
       \/ Turn
       \/ ToggleCtrl
       \/ ToggleAlt
       \/ SendKey
       \/ \E data \in {"character", "digit", "sequence"} : Typed(data)

Spec == Init /\ [][Next]_vars

-----------------------------------------------------------------------------

TypeOK ==
    /\ panel \in BOOLEAN /\ at \in {"page", "panel", "left"}
    /\ backs \in 0 .. MaxPending + 1 /\ closings \in 0 .. MaxPending + 1
    /\ muted \subseteq BarPanes /\ front \in BarPanes
    /\ {retry, ctrl, alt, turned, twice} \subseteq BOOLEAN
    /\ sent \in [ctrl : BOOLEAN, esc : BOOLEAN]

\* When nothing is pending, the entry of the panel is the one of the history
\* exactly while the panel is open, so that "back" closes the panel and then
\* nothing else (MobileInputBar.tsx, "so navigation isn't polluted").
EntryOfPanel == at # "left" /\ backs = 0 /\ closings = 0 => (panel <=> at = "panel")

\* The page is left only when a back was asked for before another was done, as by
\* two taps on the button.
StaysOnPage == at = "left" => twice

\* The system keyboard is kept down exactly under the panel: no terminal is left
\* without its keyboard, and the active one has none under the panel, unless
\* another pane has become active since.
KeyboardDown ==
    /\ ~panel => muted = {}
    /\ panel /\ closings = 0 /\ ~turned => front \in muted

\* A latch changes one key.
LatchOnce == (sent.ctrl => ~ctrl) /\ (sent.esc => ~alt)

BarSafe == EntryOfPanel /\ StaysOnPage /\ KeyboardDown /\ LatchOnce
=============================================================================
