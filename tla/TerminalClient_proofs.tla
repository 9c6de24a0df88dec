------------------------ MODULE TerminalClient_proofs ------------------------
(***************************************************************************)
(* Safety of TerminalClient for any number of WebSocket objects and calls. *)
(***************************************************************************)
EXTENDS TerminalClient, FiniteSetTheorems, TLAPS

\* Over: isDisposed says what the user sees, a pane that is over or gone.
Over == disposed <=> dead # "no" \/ ~mounted

\* Unsaid: a handler that is still at work has said nothing about the end, and
\* a closed socket delivers nothing more.
Unsaid == \A w \in Sockets : srv[w] # "none" \/ ws[w] = "closed" => inbox[w] = <<>>

\* The sockets whose onclose will still be handled.
Held == {w \in hooked : ws[w] # "closed"}

\* Heard: the live ones are among them.
Heard == Live \subseteq Held

\* Few: a call that waits makes one more of them, and only the first of those
\* that overlap has dropped one for it.  Without the calls that wait the bound
\* would not survive their sockets, and without the second part not the close
\* of the current one by the next call.
Few ==
    /\ Cardinality(Held) + waits <= overlaps + 1
    /\ Cardinality(Held \ {cur}) <= overlaps

IInv == TypeOK /\ Over /\ Unsaid /\ Heard /\ Few /\ OverHoldsNothing /\ NeverStuck

\* Sets of sockets have sizes, and the smaller set the smaller one.
LEMMA Sizes ==
    /\ \A S \in SUBSET Sockets : IsFiniteSet(S) /\ Cardinality(S) \in Nat
    /\ \A S \in SUBSET Sockets : \A T \in SUBSET S : Cardinality(T) <= Cardinality(S)
<1>1. \A S \in SUBSET Sockets : IsFiniteSet(S)
  BY SocketsAssumption, FS_Subset
<1>2. \A S \in SUBSET Sockets : Cardinality(S) \in Nat
  BY <1>1, FS_CardinalityType
<1>3. \A S \in SUBSET Sockets : \A T \in SUBSET S : Cardinality(T) <= Cardinality(S)
  BY <1>1, FS_Subset
<1>q. QED
  BY <1>1, <1>2, <1>3

LEMMA Counts == IInv => CountsOK /\ {waits, overlaps, strays} \subseteq Nat
  BY SocketsAssumption DEF IInv, TypeOK, CountsOK

LEMMA InvInit == Init => IInv
<1> SUFFICES ASSUME Init PROVE IInv
  OBVIOUS
<1>0. CountsOK
  BY SocketsAssumption DEF Init, CountsOK
<1>1. Live = {} /\ Held = {} /\ Held \ {cur} = {}
  BY DEF Init, Live, Held
<1>2. Few /\ OverHoldsNothing /\ Heard
  BY <1>1, FS_EmptySet DEF Init, Few, OverHoldsNothing, Heard
<1>q. QED
  BY <1>0, <1>2 DEF Init, IInv, TypeOK, Over, Unsaid, NeverStuck

-----------------------------------------------------------------------------
(* The helpers of the actions *)

\* A step that makes and hooks no socket, while no call begins or ends.
LEMMA FewKept ==
    ASSUME IInv, Held' \subseteq Held, UNCHANGED <<waits, overlaps, cur>>
    PROVE  Few'
<1>1. /\ Held \in SUBSET Sockets /\ Held \ {cur} \in SUBSET Sockets
      /\ Held' \in SUBSET Held /\ Held' \ {cur} \in SUBSET (Held \ {cur})
      /\ Held' \in SUBSET Sockets /\ Held' \ {cur} \in SUBSET Sockets
  BY DEF IInv, TypeOK, Held
<1>2. Cardinality(Held') <= Cardinality(Held)
      /\ Cardinality(Held' \ {cur}) <= Cardinality(Held \ {cur})
  BY <1>1, Sizes
<1>3. {Cardinality(Held), Cardinality(Held'), Cardinality(Held \ {cur}),
       Cardinality(Held' \ {cur}), waits, overlaps} \subseteq Nat
  BY <1>1, Sizes, Counts
<1>q. QED
  BY <1>2, <1>3 DEF IInv, Few

\* A pane that was over stays within its bound while no socket gets live.
LEMMA OverKept ==
    ASSUME IInv, Live' \subseteq Live, overlaps' \in Nat, overlaps' >= overlaps,
           dead # "no" \/ ~mounted
    PROVE  OverHoldsNothing'
<1>1. Live \in SUBSET Sockets /\ Live' \in SUBSET Live /\ Live' \in SUBSET Sockets
  BY DEF Live
<1>2. Cardinality(Live') <= Cardinality(Live)
  BY <1>1, Sizes
<1>3. {Cardinality(Live), Cardinality(Live'), overlaps} \subseteq Nat
  BY <1>1, Sizes, Counts
<1>q. QED
  BY <1>2, <1>3 DEF IInv, OverHoldsNothing

\* Without one of them, or without the current one, the live ones are few
\* enough for a pane that is over.
LEMMA OneLess ==
    ASSUME IInv, NEW w \in Held \cup {cur}
    PROVE  Cardinality(Live \ {w}) <= overlaps
<1>1. /\ Held \in SUBSET Sockets /\ Live \ {w} \in SUBSET (Held \ {w})
      /\ Held \ {w} \in SUBSET Sockets /\ Live \ {w} \in SUBSET Sockets
  BY DEF IInv, TypeOK, Held, Heard
<1>2. Cardinality(Live \ {w}) <= Cardinality(Held \ {w})
  BY <1>1, Sizes
<1>3. {Cardinality(Held), Cardinality(Held \ {w}), Cardinality(Live \ {w}), waits, overlaps}
        \subseteq Nat
  BY <1>1, Sizes, Counts
<1>4. CASE w = cur
  BY <1>2, <1>3, <1>4 DEF IInv, Few
<1>5. CASE w \in Held
  <2>1. Cardinality(Held \ {w}) = Cardinality(Held) - 1
    BY <1>1, <1>5, Sizes, FS_RemoveElement
  <2>q. QED
    BY <1>2, <1>3, <2>1 DEF IInv, Few
<1>q. QED
  BY <1>4, <1>5

\* Closing a socket only takes it from the live ones.
LEMMA CloseSocketLemma ==
    ASSUME IInv, NEW w, CloseSocket(w)
    PROVE  /\ ws' \in [Sockets -> {"closed", "connecting", "open", "cut", "closing"}]
           /\ Live' = Live \ {w}
           /\ \A x \in Sockets : ws'[x] = "closed" <=> ws[x] = "closed"
  BY DEF IInv, TypeOK, CloseSocket, Live

\* A call of connectWS leaves the current socket neither live nor hooked, and
\* itself in progress.
LEMMA BeginLemma ==
    ASSUME IInv, NEW force \in BOOLEAN, Begin(force)
    PROVE  /\ waits' \in 0 .. overlaps' + 1 /\ waits' > 0 /\ failed' = FALSE
           /\ overlaps' \in 0 .. MaxOverlaps /\ overlaps' >= overlaps
           /\ timer' = FALSE /\ forced' \in BOOLEAN
           /\ hooked' \subseteq Sockets /\ cur' = cur
           /\ ws' \in [Sockets -> {"closed", "connecting", "open", "cut", "closing"}]
           /\ Live' \subseteq Live /\ Heard' /\ Few'
           /\ \A x \in Sockets : ws'[x] = "closed" <=> ws[x] = "closed"
<1>1. /\ ws' \in [Sockets -> {"closed", "connecting", "open", "cut", "closing"}]
      /\ Live' = Live \ {cur}
      /\ \A x \in Sockets : ws'[x] = "closed" <=> ws[x] = "closed"
  BY CloseSocketLemma DEF Begin
<1>2. Held' = Held \ {cur}
  BY <1>1 DEF Begin, Held, IInv, TypeOK
<1>3. /\ waits' \in 0 .. overlaps' + 1 /\ waits' > 0
      /\ overlaps' \in 0 .. MaxOverlaps /\ overlaps' >= overlaps
  BY Counts, SocketsAssumption DEF Begin, Waits, CountsOK
<1>4. Heard'
  BY <1>1, <1>2 DEF IInv, Heard
<1>5. Few'
  <2>1. /\ Held \in SUBSET Sockets /\ Held \ {cur} \in SUBSET Held
        /\ Held \ {cur} \in SUBSET Sockets
    BY DEF IInv, TypeOK, Held
  <2>2. Cardinality(Held \ {cur}) <= Cardinality(Held)
    BY <2>1, Sizes
  <2>3. {Cardinality(Held), Cardinality(Held \ {cur}), waits, overlaps} \subseteq Nat
    BY <2>1, Sizes, Counts
  <2>4. /\ Cardinality(Held) + waits <= overlaps + 1
        /\ Cardinality(Held \ {cur}) <= overlaps
    BY DEF IInv, Few
  <2>5. Held' \ {cur'} = Held \ {cur} /\ waits' = waits + 1
        /\ overlaps' = IF waits = 0 THEN overlaps ELSE overlaps + 1
    BY <1>2 DEF Begin, Waits
  <2>6. Cardinality(Held \ {cur}) + waits' <= overlaps' + 1
        /\ Cardinality(Held \ {cur}) <= overlaps'
    BY <2>2, <2>3, <2>4, <2>5
  <2>q. QED
    BY <1>2, <2>5, <2>6 DEF Few
<1>q. QED
  BY <1>1, <1>3, <1>4, <1>5 DEF Begin, Waits, IInv, TypeOK

\* What is sent to sockets on which nothing was sent before.
LEMMA DismissLemma ==
    ASSUME IInv, NEW gone \in SUBSET Sockets,
           \A w \in gone : srv[w] # "none",
           NEW msgs \in {<<>>} \cup {<<m>> : m \in Messages}, Dismiss(gone, msgs)
    PROVE  /\ inbox' \in [Sockets -> {<<>>} \cup {<<m>> : m \in Messages}]
           /\ \A w \in Sockets : w \notin gone \/ ws[w] = "closed" => inbox'[w] = inbox[w]
<1>1. \A w \in gone : inbox[w] = <<>>
  BY DEF IInv, Unsaid
<1>2. <<>> \o msgs = msgs
  OBVIOUS
<1>3. \A w \in gone : inbox[w] \o msgs = msgs
  BY <1>1, <1>2
<1>q. QED
  BY <1>3 DEF Dismiss, IInv, TypeOK

\* The session ends: its handlers return, those at work for it or not.
LEMMA EndSessionLemma ==
    ASSUME IInv, EndSession
    PROVE  /\ running' = FALSE
           /\ srv' \in [Sockets -> {"none", "asked", "attached"}]
           /\ inbox' \in [Sockets -> {<<>>} \cup {<<m>> : m \in Messages}]
           /\ \A w \in Sockets : srv'[w] # "none" \/ ws[w] = "closed" => inbox'[w] = <<>>
<1>1. PICK msgs \in {<<>>, <<"exited">>, <<"fatal">>} : Dismiss(Attached, msgs)
  BY DEF EndSession
<1>2. msgs \in {<<>>} \cup {<<m>> : m \in Messages}
  BY DEF Messages
<1>3. /\ inbox' \in [Sockets -> {<<>>} \cup {<<m>> : m \in Messages}]
      /\ \A w \in Sockets : w \notin Attached \/ ws[w] = "closed" => inbox'[w] = inbox[w]
  BY <1>1, <1>2, DismissLemma DEF Attached
<1>q. QED
  BY <1>3 DEF EndSession, IInv, TypeOK, Unsaid, Attached

-----------------------------------------------------------------------------
(* The steps *)

\* The server's steps change neither the pane nor its sockets.
LEMMA ServerOnly ==
    ASSUME IInv, UNCHANGED <<paneVars, socketVars>>, wants' \in [Sockets -> BOOLEAN],
           running' \in BOOLEAN, srv' \in [Sockets -> {"none", "asked", "attached"}],
           inbox' \in [Sockets -> {<<>>} \cup {<<m>> : m \in Messages}],
           \A w \in Sockets : srv'[w] # "none" \/ ws[w] = "closed" => inbox'[w] = <<>>
    PROVE  IInv'
<1>1. Live' = Live /\ Held' = Held
  BY DEF Live, Held, socketVars
<1>2. Few' /\ Heard' /\ OverHoldsNothing'
  BY <1>1, FewKept DEF IInv, Heard, OverHoldsNothing, paneVars, callVars, socketVars
<1>q. QED
  BY <1>2 DEF IInv, TypeOK, CountsOK, Over, Unsaid, NeverStuck, paneVars, callVars, socketVars

\* A step that calls connectWS and nothing else that matters to the pane.
LEMMA Calls ==
    ASSUME IInv, NEW force \in BOOLEAN, Begin(force), UNCHANGED <<inbox, serverVars>>,
           mounted' = mounted, exited' = exited, initial' \in BOOLEAN, disposed' \in BOOLEAN,
           strays' \in Nat, dead' = dead \/ (dead' = "no" /\ mounted), Over'
    PROVE  IInv'
<1>1. /\ waits' \in 0 .. overlaps' + 1 /\ waits' > 0 /\ failed' = FALSE
      /\ overlaps' \in 0 .. MaxOverlaps /\ overlaps' >= overlaps
      /\ timer' = FALSE /\ forced' \in BOOLEAN
      /\ hooked' \subseteq Sockets /\ cur' = cur
      /\ ws' \in [Sockets -> {"closed", "connecting", "open", "cut", "closing"}]
      /\ Live' \subseteq Live /\ Heard' /\ Few'
      /\ \A x \in Sockets : ws'[x] = "closed" <=> ws[x] = "closed"
  BY BeginLemma
<1>2. OverHoldsNothing'
  <2>1. SUFFICES ASSUME dead' # "no" \/ ~mounted' PROVE OverHoldsNothing'
    BY DEF OverHoldsNothing
  <2>2. dead # "no" \/ ~mounted
    BY <2>1
  <2>3. overlaps' \in Nat
    BY <1>1
  <2>q. QED
    BY <1>1, <2>2, <2>3, OverKept
<1>3. TypeOK'
  <2>1. CountsOK'
    BY <1>1 DEF CountsOK
  <2>q. QED
    BY <1>1, <2>1 DEF IInv, TypeOK, serverVars
<1>4. Unsaid' /\ NeverStuck'
  BY <1>1 DEF IInv, TypeOK, Unsaid, NeverStuck, serverVars
<1>q. QED
  BY <1>1, <1>2, <1>3, <1>4 DEF IInv

LEMMA ResumeStep == IInv /\ Resume => IInv'
<1> SUFFICES ASSUME IInv, Resume PROVE IInv'
  OBVIOUS
<1>0. waits \in Nat /\ waits > 0 /\ waits' = waits - 1 /\ overlaps' = overlaps /\ overlaps \in Nat
  BY Counts DEF Resume
<1>3. CountsOK'
  BY <1>0, Counts DEF Resume, CountsOK
<1>1. CASE disposed
  <2>1. UNCHANGED <<socketVars, dead, mounted>>
    BY <1>1 DEF Resume
  <2>2. Live' = Live /\ Held' = Held /\ Held \in SUBSET Sockets
    BY <2>1 DEF Live, Held, socketVars, IInv, TypeOK
  <2>3. Cardinality(Held) \in Nat
    BY <2>2, Sizes
  <2>4. Few'
    BY <1>0, <2>1, <2>2, <2>3 DEF Few, IInv, socketVars
  <2>5. Heard' /\ OverHoldsNothing'
    BY <1>0, <2>1, <2>2 DEF Heard, OverHoldsNothing, IInv
  <2>q. QED
    BY <1>1, <1>3, <2>1, <2>4, <2>5 DEF Resume, IInv, TypeOK, Over, Unsaid, NeverStuck, socketVars
<1>2. CASE ~disposed
  <2>1. PICK w \in Sockets : NewSocket(w)
    BY <1>2 DEF Resume
  <2>2. w \notin Held /\ Held' = Held \cup {w} /\ Held' \ {cur'} = Held
        /\ Live' = Live \cup {w} /\ Held \in SUBSET Sockets
    BY <2>1 DEF NewSocket, Held, Live, IInv, TypeOK
  <2>3. Cardinality(Held) \in Nat /\ Cardinality(Held') = Cardinality(Held) + 1
    BY <2>2, Sizes, FS_AddElement
  <2>4. Few'
    <3>1. Cardinality(Held) + waits <= overlaps + 1
      BY DEF Few, IInv
    <3>2. Cardinality(Held' \ {cur'}) = Cardinality(Held)
      BY <2>2
    <3>3. Cardinality(Held') + waits' <= overlaps' + 1 /\ Cardinality(Held) <= overlaps'
      BY <1>0, <2>3, <3>1
    <3>q. QED
      BY <3>2, <3>3 DEF Few
  <2>5. Heard'
    BY <2>2 DEF Heard, IInv
  <2>6. TypeOK'
    BY <1>2, <1>3, <2>1 DEF Resume, NewSocket, IInv, TypeOK
  <2>7. Unsaid'
    BY <2>1 DEF Resume, NewSocket, IInv, TypeOK, Unsaid
  <2>8. NeverStuck'
    BY <2>1 DEF NewSocket, NeverStuck, IInv, TypeOK
  <2>9. Over' /\ OverHoldsNothing'
    BY <1>2, <2>1 DEF Resume, NewSocket, IInv, Over, OverHoldsNothing
  <2>q. QED
    BY <2>4, <2>5, <2>6, <2>7, <2>8, <2>9 DEF IInv
<1>q. QED
  BY <1>1, <1>2

LEMMA UnmountStep == IInv /\ Unmount => IInv'
<1> SUFFICES ASSUME IInv, Unmount PROVE IInv'
  OBVIOUS
<1>1. /\ ws' \in [Sockets -> {"closed", "connecting", "open", "cut", "closing"}]
      /\ Live' = Live \ {cur}
      /\ \A x \in Sockets : ws'[x] = "closed" <=> ws[x] = "closed"
  BY CloseSocketLemma DEF Unmount
<1>2. Held' = Held
  BY <1>1 DEF Unmount, Held, IInv, TypeOK
<1>3. OverHoldsNothing'
  BY <1>1, OneLess DEF Unmount, OverHoldsNothing, callVars
<1>4. Few' /\ Heard'
  BY <1>1, <1>2, FewKept DEF Unmount, IInv, Heard, callVars
<1>q. QED
  BY <1>1, <1>3, <1>4
  DEF Unmount, IInv, TypeOK, CountsOK, Over, Unsaid, NeverStuck, serverVars, callVars

LEMMA MessageStep == ASSUME NEW w \in Sockets PROVE IInv /\ Message(w) => IInv'
<1> SUFFICES ASSUME IInv, Message(w) PROVE IInv'
  OBVIOUS
<1>1. inbox' \in [Sockets -> {<<>>} \cup {<<m>> : m \in Messages}] /\ inbox'[w] = <<>>
  <2>1. PICK m \in Messages : inbox[w] = <<m>>
    BY DEF Message, IInv, TypeOK
  <2>2. Tail(<<m>>) = <<>>
    OBVIOUS
  <2>q. QED
    BY <2>1, <2>2 DEF Message, IInv, TypeOK
<1>2. \A x \in Sockets \ {w} : inbox'[x] = inbox[x]
  BY DEF Message, IInv, TypeOK
<1>3. CASE Head(inbox[w]) = "exited"
  <2>1. exited' = TRUE /\ UNCHANGED <<disposed, dead, ws>>
    BY <1>3 DEF Message
  <2>2. Live' = Live /\ Held' = Held
    BY <2>1 DEF Live, Held, Message
  <2>3. Few' /\ Heard' /\ OverHoldsNothing'
    BY <2>1, <2>2, FewKept DEF Message, IInv, Heard, OverHoldsNothing, callVars
  <2>q. QED
    BY <1>1, <1>2, <2>1, <2>3
    DEF Message, IInv, TypeOK, CountsOK, Over, Unsaid, NeverStuck, serverVars, callVars
<1>4. CASE Head(inbox[w]) # "exited"
  <2>1. disposed' = TRUE /\ dead' \in {"stolen", "ended"} /\ CloseSocket(w) /\ UNCHANGED exited
    BY <1>4 DEF Message
  <2>2. /\ ws' \in [Sockets -> {"closed", "connecting", "open", "cut", "closing"}]
        /\ Live' = Live \ {w}
        /\ \A x \in Sockets : ws'[x] = "closed" <=> ws[x] = "closed"
    BY <2>1, CloseSocketLemma
  <2>3. w \in Held
    BY DEF Message, IInv, Live, Heard
  <2>4. Held' = Held
    BY <2>2 DEF Message, Held, IInv, TypeOK
  <2>5. Few' /\ Heard' /\ OverHoldsNothing'
    BY <2>2, <2>3, <2>4, FewKept, OneLess
    DEF Message, IInv, Heard, OverHoldsNothing, callVars
  <2>q. QED
    BY <1>1, <1>2, <2>1, <2>2, <2>5
    DEF Message, IInv, TypeOK, CountsOK, Over, Unsaid, NeverStuck, serverVars, callVars
<1>q. QED
  BY <1>3, <1>4

LEMMA ClosedStep == ASSUME NEW w \in Sockets PROVE IInv /\ Closed(w) => IInv'
<1> SUFFICES ASSUME IInv, Closed(w) PROVE IInv'
  OBVIOUS
<1>0. CountsOK'
  BY Counts DEF Closed, OnClose, CountsOK, callVars
<1>1. /\ TypeOK' /\ Unsaid' /\ Live' = Live \ {w} /\ Held' = Held \ {w}
      /\ UNCHANGED <<mounted, overlaps, waits, failed, cur, hooked>>
  <2>1. TypeOK'
    BY <1>0 DEF Closed, OnClose, IInv, TypeOK, serverVars, callVars
  <2>2. Unsaid' /\ Live' = Live \ {w} /\ Held' = Held \ {w}
    BY DEF Closed, IInv, TypeOK, Unsaid, Live, Held, serverVars
  <2>q. QED
    BY <2>1, <2>2 DEF Closed, callVars
<1>2. Few' /\ Heard'
  BY <1>1, FewKept DEF IInv, Heard
<1>3. overlaps' \in Nat /\ overlaps' >= overlaps
  BY <1>1, Counts
<1>4. ASSUME dead' = dead PROVE OverHoldsNothing'
  BY <1>1, <1>3, <1>4, OverKept DEF OverHoldsNothing
<1>5. CASE w \notin hooked \/ disposed
  <2>1. UNCHANGED <<disposed, dead, exited, timer, strays, initial>>
    BY <1>5 DEF Closed, OnClose
  <2>2. NeverStuck'
    BY <1>1, <1>5, <2>1 DEF Closed, IInv, TypeOK, Over, NeverStuck
  <2>q. QED
    BY <1>1, <1>2, <1>4, <2>1, <2>2 DEF IInv, Over
<1>6. CASE w \in hooked /\ ~disposed /\ exited
  <2>1. disposed' /\ dead' = "ended"
    BY <1>6 DEF Closed, OnClose
  <2>2. w \in Held
    BY <1>6 DEF Closed, Ends, Held, Live
  <2>3. OverHoldsNothing'
    BY <1>1, <2>2, OneLess DEF OverHoldsNothing
  <2>q. QED
    BY <1>1, <1>2, <2>1, <2>3 DEF IInv, Over, NeverStuck
<1>7. CASE w \in hooked /\ ~disposed /\ ~exited
  <2>1. timer' /\ UNCHANGED <<disposed, dead>>
    BY <1>7 DEF Closed, OnClose
  <2>q. QED
    BY <1>1, <1>2, <1>4, <2>1 DEF IInv, Over, NeverStuck
<1>q. QED
  BY <1>5, <1>6, <1>7 DEF IInv, TypeOK

LEMMA OpenedStep == ASSUME NEW w \in Sockets PROVE IInv /\ Opened(w) => IInv'
<1> SUFFICES ASSUME IInv, Opened(w) PROVE IInv'
  OBVIOUS
<1>1. Live' \subseteq Live /\ Held' = Held
      /\ ws' \in [Sockets -> {"closed", "connecting", "open", "cut", "closing"}]
      /\ \A x \in Sockets : ws'[x] = "closed" <=> ws[x] = "closed"
  BY DEF Opened, Live, Held, IInv, TypeOK
<1>2. Few' /\ Heard'
  BY <1>1, FewKept DEF Opened, IInv, Heard, paneVars, callVars
<1>3. overlaps' \in Nat /\ overlaps' >= overlaps /\ dead' = dead /\ mounted' = mounted
  BY Counts DEF Opened, paneVars, callVars
<1>4. OverHoldsNothing'
  BY <1>1, <1>3, OverKept DEF OverHoldsNothing
<1>q. QED
  BY <1>1, <1>2, <1>4 DEF Opened, IInv, TypeOK, CountsOK, Over, Unsaid, NeverStuck,
                          paneVars, callVars, serverVars

LEMMA NetworkStep == ASSUME NEW w \in Sockets PROVE IInv /\ NetworkDrops(w) => IInv'
<1> SUFFICES ASSUME IInv, NetworkDrops(w) PROVE IInv'
  OBVIOUS
<1>1. Live' = Live /\ Held' = Held /\ Unsaid'
      /\ ws' \in [Sockets -> {"closed", "connecting", "open", "cut", "closing"}]
      /\ inbox' \in [Sockets -> {<<>>} \cup {<<m>> : m \in Messages}]
      /\ \A x \in Sockets : ws'[x] = "closed" <=> ws[x] = "closed"
  BY DEF NetworkDrops, IInv, TypeOK, Unsaid, Live, Held, serverVars
<1>2. Few' /\ Heard' /\ OverHoldsNothing'
  BY <1>1, FewKept DEF NetworkDrops, IInv, Heard, OverHoldsNothing, paneVars, callVars
<1>q. QED
  BY <1>1, <1>2 DEF NetworkDrops, IInv, TypeOK, CountsOK, Over, NeverStuck, paneVars, callVars, serverVars

\* The calls of connectWS: by the timers, the shortcut and Enter.
LEMMA CallSteps ==
    IInv /\ (InitialTimer \/ ReconnectTimer \/ Reconnect \/ Enter) => IInv'
<1> SUFFICES ASSUME IInv, InitialTimer \/ ReconnectTimer \/ Reconnect \/ Enter PROVE IInv'
  OBVIOUS
<1>1. CASE InitialTimer
  BY <1>1, Calls, Counts DEF InitialTimer, IInv, TypeOK, Over
<1>2. CASE ReconnectTimer
  <2>1. strays' \in Nat
    BY <1>2, Counts DEF ReconnectTimer
  <2>q. QED
    BY <1>2, <2>1, Calls DEF ReconnectTimer, IInv, TypeOK, Over
<1>3. CASE Reconnect
  BY <1>3, Calls, Counts DEF Reconnect, IInv, TypeOK, Over
<1>4. CASE Enter
  BY <1>4, Calls, Counts DEF Enter, IInv, TypeOK, Over
<1>q. QED
  BY <1>1, <1>2, <1>3, <1>4

LEMMA SetupFailsStep == IInv /\ SetupFails => IInv'
<1> SUFFICES ASSUME IInv, SetupFails PROVE IInv'
  OBVIOUS
<1>1. waits \in Nat /\ waits > 0 /\ waits' = waits - 1 /\ overlaps' = overlaps /\ overlaps \in Nat
      /\ UNCHANGED <<socketVars, dead, mounted>>
  BY Counts DEF SetupFails
<1>2. Live' = Live /\ Held' = Held /\ Held \in SUBSET Sockets
  BY <1>1 DEF Live, Held, socketVars, IInv, TypeOK
<1>3. Cardinality(Held) \in Nat
  BY <1>2, Sizes
<1>4. Few' /\ Heard' /\ OverHoldsNothing'
  BY <1>1, <1>2, <1>3 DEF Few, Heard, OverHoldsNothing, IInv, socketVars
<1>5. CountsOK'
  BY <1>1, Counts DEF SetupFails, CountsOK
<1>q. QED
  BY <1>4, <1>5 DEF SetupFails, IInv, TypeOK, Over, Unsaid, NeverStuck, socketVars, serverVars

\* The handlers of the server.
LEMMA HandlerStep == ASSUME NEW w \in Sockets PROVE IInv /\ Handler(w) => IInv'
<1> SUFFICES ASSUME IInv, Handler(w) PROVE IInv'
  OBVIOUS
<1>0. TypeOK /\ Unsaid
  BY DEF IInv
<1>1. CASE ObeyReconnect(w)
  <2>1. CASE running
    <3>1. EndSession
      BY <1>1, <2>1 DEF ObeyReconnect
    <3>q. QED
      BY <1>0, <1>1, <3>1, EndSessionLemma, ServerOnly DEF ObeyReconnect, TypeOK
  <2>2. CASE ~running
    BY <1>0, <1>1, <2>2, ServerOnly DEF ObeyReconnect, TypeOK, Unsaid
  <2>q. QED
    BY <2>1, <2>2
<1>2. CASE Attach(w)
  <2>1. Attached \in SUBSET Sockets /\ \A x \in Attached : srv[x] # "none"
    BY DEF Attached
  <2>2. <<"stolen">> \in {<<>>} \cup {<<m>> : m \in Messages}
    BY DEF Messages
  <2>3. /\ inbox' \in [Sockets -> {<<>>} \cup {<<m>> : m \in Messages}]
        /\ \A x \in Sockets : x \notin Attached \/ ws[x] = "closed" => inbox'[x] = inbox[x]
    BY <1>2, <2>1, <2>2, DismissLemma DEF Attach
  <2>4. \A x \in Sockets : srv'[x] # "none" \/ ws[x] = "closed" => inbox'[x] = <<>>
    BY <1>0, <1>2, <2>3 DEF Attach, TypeOK, Unsaid, Attached
  <2>q. QED
    BY <1>0, <1>2, <2>3, <2>4, ServerOnly DEF Attach, TypeOK
<1>3. CASE AttachFails(w)
  <2>1. PICK msgs \in {<<>>, <<"fatal">>} : Dismiss({w}, msgs)
    BY <1>3 DEF AttachFails
  <2>2. msgs \in {<<>>} \cup {<<m>> : m \in Messages}
    BY DEF Messages
  <2>3. {w} \in SUBSET Sockets /\ \A x \in {w} : srv[x] # "none"
    BY <1>3 DEF AttachFails
  <2>4. /\ inbox' \in [Sockets -> {<<>>} \cup {<<m>> : m \in Messages}]
        /\ \A x \in Sockets : x \notin {w} \/ ws[x] = "closed" => inbox'[x] = inbox[x]
    BY <2>1, <2>2, <2>3, DismissLemma
  <2>5. \A x \in Sockets : srv'[x] # "none" \/ ws[x] = "closed" => inbox'[x] = <<>>
    BY <1>0, <1>3, <2>4 DEF AttachFails, TypeOK, Unsaid
  <2>q. QED
    BY <1>0, <1>3, <2>4, <2>5, ServerOnly DEF AttachFails, TypeOK
<1>4. CASE ServerNotices(w)
  BY <1>0, <1>4, ServerOnly DEF ServerNotices, TypeOK, Unsaid
<1>q. QED
  BY <1>1, <1>2, <1>3, <1>4 DEF Handler

\* What happens to the session.
LEMMA SessionSteps == IInv /\ (SessionEnds \/ OtherTakes) => IInv'
<1> SUFFICES ASSUME IInv, SessionEnds \/ OtherTakes PROVE IInv'
  OBVIOUS
<1>0. TypeOK /\ Unsaid
  BY DEF IInv
<1>1. CASE SessionEnds
  BY <1>0, <1>1, EndSessionLemma, ServerOnly DEF SessionEnds, TypeOK
<1>2. CASE OtherTakes
  <2>1. Attached \in SUBSET Sockets /\ \A x \in Attached : srv[x] # "none"
    BY DEF Attached
  <2>2. <<"stolen">> \in {<<>>} \cup {<<m>> : m \in Messages}
    BY DEF Messages
  <2>3. /\ inbox' \in [Sockets -> {<<>>} \cup {<<m>> : m \in Messages}]
        /\ \A x \in Sockets : x \notin Attached \/ ws[x] = "closed" => inbox'[x] = inbox[x]
    BY <1>2, <2>1, <2>2, DismissLemma DEF OtherTakes
  <2>4. \A x \in Sockets : srv'[x] # "none" \/ ws[x] = "closed" => inbox'[x] = <<>>
    BY <1>0, <1>2, <2>3 DEF OtherTakes, TypeOK, Unsaid, Attached
  <2>q. QED
    BY <1>0, <1>2, <2>3, <2>4, ServerOnly DEF OtherTakes, TypeOK
<1>q. QED
  BY <1>1, <1>2

-----------------------------------------------------------------------------
(* The theorems *)

LEMMA InvStep == IInv /\ [Next]_vars => IInv'
<1> SUFFICES ASSUME IInv, [Next]_vars PROVE IInv'
  OBVIOUS
<1>1. CASE Pane
  BY <1>1, ResumeStep, SetupFailsStep, CallSteps DEF Pane
<1>2. CASE User
  BY <1>2, CallSteps, UnmountStep DEF User
<1>3. ASSUME NEW w \in Sockets, SocketEvent(w) \/ Handler(w) \/ NetworkDrops(w)
      PROVE  IInv'
  BY <1>3, OpenedStep, MessageStep, ClosedStep, HandlerStep, NetworkStep DEF SocketEvent
<1>4. CASE SessionEnds \/ OtherTakes
  BY <1>4, SessionSteps
<1>5. CASE UNCHANGED vars
  BY <1>5 DEF vars, paneVars, callVars, socketVars, serverVars, IInv, TypeOK, CountsOK, Over, Unsaid,
              Heard, Held, Few, OverHoldsNothing, NeverStuck, Live
<1>q. QED
  BY <1>1, <1>2, <1>3, <1>4, <1>5 DEF Next

LEMMA Invariance == Spec => []IInv
<1>1. Init => IInv
  BY InvInit
<1>2. IInv /\ [Next]_vars => IInv'
  BY InvStep
<1>q. QED
  BY <1>1, <1>2, PTL DEF Spec

\* Every variable of a pane keeps its type.
THEOREM PaneTypes == Spec => []TypeOK
  BY Invariance, PTL DEF IInv

\* A pane has no live socket beside the one wsRef refers to, but one at most for
\* each call of connectWS that began while another awaited its scripts, however
\* many calls and sockets there are.
THEOREM PaneOneSocket == Spec => []OneSocket
<1>1. IInv => OneSocket
  <2> SUFFICES ASSUME IInv PROVE OneSocket
    OBVIOUS
  <2>q. QED
    BY OneLess DEF OneSocket
<1>q. QED
  BY <1>1, Invariance, PTL

\* A pane that is over or gone has closed its socket: at most those are live
\* that overlapping calls have left.
THEOREM PaneOverHoldsNothing == Spec => []OverHoldsNothing
  BY Invariance, PTL DEF IInv

\* A pane that is not over always has something pending that makes it go on.
THEOREM PaneNeverStuck == Spec => []NeverStuck
  BY Invariance, PTL DEF IInv
=============================================================================
