------------------------------ MODULE MarkMode ------------------------------
(***************************************************************************)
(* Mark mode, the keyboard selection of a terminal (markMode.ts).          *)
(*                                                                         *)
(* A position is a number, row * (Cols + 1) + column, so that there is one *)
(* behind the last cell of each row: the end of a selection of xterm may   *)
(* be there.  Resizing, the viewport and the overlay are left out; xterm's *)
(* buffer and selection are modelled from how the code uses them.          *)
(***************************************************************************)
EXTENDS Integers, Sequences, FiniteSetsExt

CONSTANTS
    Cols,       \* cells of a row
    Screen,     \* rows of the screen
    MaxRows     \* rows of the buffer, scrollback included

VARIABLES
    buffer,     \* its rows
    sel,        \* the cells that xterm has selected
    active, cursor, anchor, selecting,  \* of MarkModeManager
    copying,    \* copyAndExit awaits the clipboard
    given       \* history: the selection is not of the manager's making, or one of
                \*   its positions is behind a row

vars == <<buffer, sel, active, cursor, anchor, selecting, copying, given>>

Pos(row, col) == row * (Cols + 1) + col
Row(p) == p \div (Cols + 1)
Col(p) == p % (Cols + 1)

CellsOf(b) == {Pos(r, c) : r \in 0 .. Len(b) - 1, c \in 0 .. Cols - 1}
Cells == CellsOf(buffer)
LastCell == Max(Cells)
Char(p) ==
    IF 0 <= p /\ Row(p) < Len(buffer) /\ Col(p) < Cols THEN buffer[Row(p) + 1][Col(p) + 1]
    ELSE "empty"
Above(p) == {q \in Cells : q < p}
Below(p) == {q \in Cells : q > p}

Within(n, lo, hi) == IF n < lo THEN lo ELSE IF n > hi THEN hi ELSE n

\* The rows that are written, by the kinds of their characters: a cell that was
\* never written is empty.
RowTexts ==
    LET written(n, kind) == [c \in 1 .. Cols |-> IF c > n THEN "empty"
                                                ELSE IF c = 2 THEN kind ELSE "letter"]
    IN {written(0, "space"), written(Cols, "space"), written(Cols - 1, "mark")}

-----------------------------------------------------------------------------
(* Motions.                                                                *)

\* getCharClass.
Class(p, big) ==
    CASE Char(p) \in {"empty", "space"} -> "white"
      [] big \/ Char(p) = "letter" -> "keyword"
      [] OTHER -> "punctuation"
White(p, big) == Class(p, big) = "white"

\* What is left of S behind the first run of cells of the class of p.
PastRun(S, p, big) ==
    {q \in S : \E r \in S : r <= q /\ Class(r, big) # Class(p, big)}

\* findNextWordPosition.
NextWord(p, big) ==
    LET below == Below(p)
        away == IF White(p, big) THEN below ELSE PastRun(below, p, big)
        words == {q \in away : ~White(q, big)}
    IN IF below = {} THEN p ELSE IF words = {} THEN LastCell ELSE Min(words)

\* findPrevWordPosition.
PrevWord(p, big) ==
    LET words == {q \in Above(p) : ~White(q, big)}
        w == Max(words)
    IN IF Above(p) = {} THEN p
       ELSE IF words = {} THEN 0
       ELSE Min({q \in words : \A r \in Cells : q <= r /\ r <= w => Class(r, big) = Class(w, big)})

\* mutant: stops behind the word
EndOfWord_Past(p, big) ==
    LET words == {q \in Below(p) : ~White(q, big)}
        end == {q \in Below(p) : \E r \in words : r <= q /\ Class(q, big) # Class(r, big)}
    IN IF end = {} THEN LastCell ELSE Min(end)

\* findEndOfWordPosition.
EndOfWord(p, big) ==
    LET words == {q \in Below(p) : ~White(q, big)}
        w == Min(words)
    IN IF Below(p) = {} THEN p
       ELSE IF words = {} THEN LastCell
       ELSE Max({q \in words : \A r \in Cells : w <= r /\ r <= q => Class(r, big) = Class(w, big)})

Space(p) == Char(p) \in {"empty", "space"}
Stretch(p, space) ==
    Max({q \in p .. Pos(Row(p), Cols - 1) : \A r \in p + 1 .. q : Space(r) = space} \cup {p})
StretchBack(p, space) ==
    Min({q \in Pos(Row(p), 0) .. p : \A r \in q .. p - 1 : Space(r) = space})

\* findNextBoundaryPosition.
NextBoundary(p) ==
    LET next == Pos(Row(p) + 1, 0)
    IN IF Col(p) >= Cols - 1 THEN p
       ELSE IF Char(p + 1) # "empty" THEN Stretch(p, Space(p + 1))
       ELSE IF next \in Cells THEN Stretch(next, Space(next)) ELSE p

\* findPrevBoundaryPosition.
PrevBoundary(p) ==
    LET end == Pos(Row(p) - 1, Cols - 1)
    IN IF Col(p) > 0 THEN StretchBack(p, Space(p - 1))
       ELSE IF Row(p) > 0 THEN StretchBack(end, Space(end)) ELSE p

-----------------------------------------------------------------------------
(* The manager.                                                            *)

\* _applySelection: a length of cells from the first position.
Count(p) == Row(p) * Cols + Col(p)
Marked(b, p, q) ==
    LET marked == Count(Min({p, q})) .. Count(Max({p, q}))
    IN {r \in CellsOf(b) : Count(r) \in marked}

\* setCursor.
SetCursor(col, row, extend) ==
    /\ active
    /\ cursor' = Pos(Within(row, 0, Len(buffer) - 1), Within(col, 0, Cols - 1))
    /\ selecting' = extend
    /\ anchor' = IF extend THEN anchor ELSE cursor'
    /\ sel' = IF extend THEN Marked(buffer, anchor, cursor') ELSE {}
    /\ given' = (anchor' \notin Cells)
    /\ UNCHANGED <<buffer, active, copying>>

Goto(p, extend) == SetCursor(Col(p), Row(p), extend)

\* moveCursor sideways, which goes on at the neighbouring row, and up or down.
MoveAside(d, extend) ==
    LET col == Col(cursor) + d
        row == Row(cursor)
    IN IF col < 0 /\ row > 0 THEN SetCursor(Cols - 1, row - 1, extend)
       ELSE IF col >= Cols /\ row < Len(buffer) - 1 THEN SetCursor(0, row + 1, extend)
       ELSE SetCursor(col, row, extend)
Lines == {1, Screen, IF Screen > 1 THEN Screen \div 2 ELSE 1}
MoveLines(extend) ==
    \E n \in Lines, d \in {-1, 1} : SetCursor(Col(cursor), Row(cursor) + d * n, extend)

MoveLine(extend) ==
    \E col \in {0, Cols - 1} : SetCursor(col, Row(cursor), extend)
MoveBuffer(extend) ==
    \/ SetCursor(0, 0, extend)
    \/ SetCursor(IF extend THEN Cols - 1 ELSE 0, Len(buffer) - 1, extend)
MoveWord(extend) ==
    \E big \in BOOLEAN :
        \/ Goto(NextWord(cursor, big), extend)
        \/ Goto(PrevWord(cursor, big), extend)
        \/ Goto(EndOfWord(cursor, big), extend)
MoveUntilSpace(extend) ==
    Goto(NextBoundary(cursor), extend) \/ Goto(PrevBoundary(cursor), extend)

ToggleVisual ==
    /\ active
    /\ IF selecting
       THEN /\ selecting' = FALSE /\ anchor' = cursor /\ sel' = {}
            /\ given' = (cursor \notin Cells)
            /\ UNCHANGED <<buffer, active, cursor, copying>>
       ELSE Goto(cursor, TRUE)

\* selectAll sets the rest on a context that is made for each key.
SelectAll ==
    /\ active
    /\ sel' = Cells /\ given' = TRUE
    /\ UNCHANGED <<buffer, active, cursor, anchor, selecting, copying>>

\* The positions are not read before enter sets them again.
Off == active' = FALSE /\ cursor' = 0 /\ anchor' = 0 /\ selecting' = FALSE /\ given' = FALSE

Exit ==
    /\ active
    /\ Off
    /\ UNCHANGED <<buffer, sel, copying>>

\* copySelection, and exit once the clipboard has answered, whatever was done
\* in between.
CopyAndExit ==
    /\ active /\ ~copying /\ copying' = TRUE
    /\ UNCHANGED <<buffer, sel, active, cursor, anchor, selecting, given>>
Copied ==
    /\ copying /\ copying' = FALSE
    /\ Off
    /\ UNCHANGED <<buffer, sel>>

\* enter: at the end of the selection that there is, or at the prompt.
Enter ==
    /\ ~active /\ active' = TRUE
    /\ IF sel # {}
       THEN /\ anchor' = Min(sel) /\ cursor' = Max(sel) + 1
            /\ selecting' = TRUE /\ given' = TRUE /\ sel' = sel
       ELSE /\ \E row \in Len(buffer) - Screen .. Len(buffer) - 1, col \in 0 .. Cols - 1 :
                  cursor' = Pos(row, col)
            /\ anchor' = cursor' /\ selecting' = FALSE /\ given' = FALSE /\ sel' = {}
    /\ UNCHANGED <<buffer, copying>>

-----------------------------------------------------------------------------
(* The terminal.                                                           *)

\* A selection by mouse; dragging in mark mode is left out.
Drag ==
    /\ ~active
    /\ \E p, q \in Cells : p <= q /\ sel' = Marked(buffer, p, q)
    /\ UNCHANGED <<buffer, active, cursor, anchor, selecting, copying, given>>
Deselect ==
    /\ ~active /\ sel # {} /\ sel' = {}
    /\ UNCHANGED <<buffer, active, cursor, anchor, selecting, copying, given>>

\* onBufferChange.
OnBufferChange(moved) ==
    IF ~active THEN sel' = moved /\ UNCHANGED <<active, cursor, anchor, selecting, given>>
    ELSE IF Len(buffer') <= Screen /\ Row(cursor) > Len(buffer') THEN sel' = moved /\ Off
    ELSE LET clamped(p) == Pos(Within(Row(p), 0, Len(buffer') - 1), Col(p))
         IN /\ cursor' = clamped(cursor) /\ anchor' = clamped(anchor)
            /\ sel' = IF selecting THEN Marked(buffer', cursor', anchor') ELSE moved
            /\ UNCHANGED <<active, selecting, given>>

\* n rows go at the top, and the selection of xterm moves with its text.
Trimmed(n) == {p - Pos(n, 0) : p \in {q \in sel : Row(q) >= n}}

Output ==
    \E row \in RowTexts :
        LET full == Len(buffer) = MaxRows
        IN /\ buffer' = Append(IF full THEN Tail(buffer) ELSE buffer, row)
           /\ OnBufferChange(IF full THEN Trimmed(1) ELSE sel)
           /\ UNCHANGED copying

\* The scrollback is erased.
Erase ==
    LET n == Len(buffer) - Screen
    IN /\ n > 0
       /\ buffer' = SubSeq(buffer, n + 1, Len(buffer))
       /\ OnBufferChange(Trimmed(n))
       /\ UNCHANGED copying

-----------------------------------------------------------------------------

Init ==
    /\ buffer \in [1 .. Screen -> RowTexts]
    /\ sel = {} /\ active = FALSE /\ cursor = 0 /\ anchor = 0 /\ selecting = FALSE
    /\ copying = FALSE /\ given = FALSE

Key ==
    \/ \E extend \in BOOLEAN :
          \/ \E d \in {-1, 1} : MoveAside(d, extend)
          \/ MoveLines(extend)
          \/ MoveLine(extend)
          \/ MoveBuffer(extend)
          \/ MoveWord(extend)
          \/ MoveUntilSpace(extend)
    \/ ToggleVisual
    \/ SelectAll
    \/ CopyAndExit
    \/ Exit

Next ==
    \/ Key
    \/ Copied
    \/ Enter
    \/ Drag
    \/ Deselect
    \/ Output
    \/ Erase

Spec == Init /\ [][Next]_vars

-----------------------------------------------------------------------------

TypeOK ==
    /\ Len(buffer) \in Screen .. MaxRows /\ \A i \in DOMAIN buffer : buffer[i] \in RowTexts
    /\ active \in BOOLEAN /\ selecting \in BOOLEAN /\ copying \in BOOLEAN /\ given \in BOOLEAN
    /\ cursor \in Nat /\ anchor \in Nat

\* Cursor, anchor and selection are cells of the buffer, however it grows, is
\* trimmed or erased; only what enter has from a selection may be behind the
\* last cell of its row (enter, setCursor, onBufferChange).
InBuffer ==
    /\ sel \subseteq Cells
    /\ active => \A p \in {cursor, anchor} : p \in Cells \/ (given /\ p - 1 \in Cells)

\* xterm has selected what is between anchor and cursor, both included, and
\* nothing when nothing is being marked.  Not so for the selection that mark mode
\* was entered with, whose end is one further, nor after selectAll.
SelectsTheMark ==
    active /\ ~given =>
        sel = {p \in Cells : selecting /\ Min({anchor, cursor}) <= p /\ p <= Max({anchor, cursor})}

\* w, b and e go to the next and the last start of a word and to the next end of
\* one, where a word is a longest run of one class, rows notwithstanding.
Starts(big) ==
    {p \in Cells : ~White(p, big) /\ (p = 0 \/ Class(Max(Above(p)), big) # Class(p, big))}
Ends(big) ==
    {p \in Cells : ~White(p, big) /\ (p = LastCell \/ Class(Min(Below(p)), big) # Class(p, big))}
WordsAgree ==
    \A big \in BOOLEAN :
        /\ NextWord(cursor, big) = Min((Starts(big) \cap Below(cursor)) \cup {LastCell})
        /\ PrevWord(cursor, big) = Max((Starts(big) \cap Above(cursor)) \cup {0})
        /\ EndOfWord(cursor, big) = Min((Ends(big) \cap Below(cursor)) \cup {LastCell})

\* The space key gets on but at the end of a row, and back from everywhere: it
\* does not stop within a row, nor at the cells behind its text.
BoundariesAdvance ==
    /\ NextBoundary(cursor) > cursor
         \/ Col(cursor) >= Cols - 1
         \/ (Char(cursor + 1) = "empty" /\ Row(cursor) = Len(buffer) - 1)
    /\ PrevBoundary(cursor) < cursor \/ cursor = 0

MarkSafe ==
    active =>
        /\ InBuffer
        /\ SelectsTheMark
        /\ cursor \in Cells => WordsAgree /\ BoundariesAdvance
=============================================================================
