--------------------------- MODULE Scratchpad_proofs ---------------------------
(***************************************************************************)
(* No version of a page is lost, and all copies of a page come to agree,   *)
(* for any browsers, pages and bounds: NothingLost and MergesConverge,     *)
(* with the types.                                                         *)
(***************************************************************************)
EXTENDS Scratchpad, SequenceTheorems, WellFoundedInduction, TLAPS

\* The messages of a connection.
Said(s) == {s[i] : i \in 1 .. Len(s)}

\* A page no copy of which was deleted or replaced by an older one.
Fine(p) == fate[p] # "lost"

Copy(n) == [Pages -> 0 .. n]
Msgs(n) == {Hello} \cup {Delete(p) : p \in Pages} \cup [type : {"sync", "force_sync"}, pages : Copy(n)]

\* TypeOK with no time later than n.
TypedTo(n) ==
    /\ globalData \in Copy(n) /\ file \in Copy(n)
    /\ conns \subseteq Browsers
    /\ hello \in [Browsers -> {Nothing} \cup [type : {"sync"}, pages : Copy(n)]]
    /\ data \in [Browsers -> Copy(n)]
    /\ dirty \in [Browsers -> SUBSET Pages] /\ debounce \in [Browsers -> BOOLEAN]
    /\ ws \in [Browsers -> {"gone", "off", "on"}]
    /\ asked \in [Browsers -> {Nothing} \cup [type : {"asked"}, id : Pages, pages : Copy(n)]]
    /\ up \in [Browsers -> Seq(Msgs(n))] /\ down \in [Browsers -> Seq(Msgs(n))]
    /\ loader \in [Loaders -> [at : {"idle", "copied", "upserted", "read", "set"},
                               pages : Copy(n), removed : SUBSET Pages]]
    /\ fate \in [Pages -> {"unborn", "born", "lost"}]
    /\ troubles \in 0 .. MaxTroubles

\* The file is up to date.
Filed == \A p \in Pages : Fine(p) => file[p] = globalData[p]

\* What is about to replace the server's pages is not newer than they are.
Loaded ==
    \A p \in Pages, l \in Loaders :
        Fine(p) /\ loader[l].at \in {"read", "set"} => loader[l].pages[p] <= globalData[p]

\* The server sends nothing newer than it has.
Heard ==
    \A b \in Browsers, p \in Pages : Fine(p) =>
        /\ \A m \in Said(down[b]) : m.type \in {"sync", "force_sync"} => m.pages[p] <= globalData[p]
        /\ hello[b].type = "sync" => hello[b].pages[p] <= globalData[p]

\* A page that is told to be deleted is one that a user deleted.
Deleted ==
    \A b \in Browsers, p \in Pages : Delete(p) \in Said(up[b]) \cup Said(down[b]) => ~Fine(p)

\* A browser has what it had when it asked, or newer.
Asked ==
    \A b \in Browsers, p \in Pages :
        Fine(p) /\ asked[b] # Nothing => asked[b].pages[p] <= data[b][p]

\* A connection the server does not know yet begins with a hello.
Listening == \A b \in Browsers : ws[b] = "on" => b \in conns \/ Hello \in Said(up[b])

\* What a browser has that the server has not: its timer runs or it is on its way.
Offers(b, p) ==
    \/ debounce[b] /\ p \in dirty[b]
    \/ \E m \in Said(up[b]) : m.type = "sync" /\ m.pages[p] >= data[b][p]

EditsOffered ==
    \A b \in Browsers, p \in Pages :
        ws[b] = "on" /\ Fine(p) /\ data[b][p] > globalData[p] => Offers(b, p)

\* What the server has that a browser has not: the browser has asked for all,
\* it is on its way, or a reload will send it.
Awaits(b, p) ==
    \/ Hello \in Said(up[b])
    \/ hello[b].type = "sync" /\ hello[b].pages[p] >= globalData[p]
    \/ \E m \in Said(down[b]) : m.type \in {"sync", "force_sync"} /\ m.pages[p] >= globalData[p]
    \/ loader["sync"].at = "upserted"
    \/ \E l \in Loaders : loader[l].at \in {"read", "set"} /\ loader[l].pages[p] >= globalData[p]

NewsAwaited ==
    \A b \in Browsers, p \in Pages :
        ws[b] = "on" /\ b \notin missed /\ Fine(p) /\ data[b][p] < globalData[p] => Awaits(b, p)

Safe == Filed /\ Loaded /\ Heard /\ Deleted /\ Asked /\ Listening /\ EditsOffered /\ NewsAwaited

\* What a panic leaves has its types.
PanicTyped == jammed \in BOOLEAN /\ missed \subseteq Browsers

IInv == clock \in 1 .. MaxTime /\ TypedTo(clock) /\ PanicTyped /\ Safe

-----------------------------------------------------------------------------
(* Messages and copies.                                                    *)

LEMMA SaidAppend ==
    ASSUME NEW S, NEW s \in Seq(S), NEW m \in S
    PROVE  Append(s, m) \in Seq(S) /\ Said(Append(s, m)) = Said(s) \cup {m}
<1>1. /\ Append(s, m) \in Seq(S) /\ Len(Append(s, m)) = Len(s) + 1 /\ Len(s) \in Nat
      /\ \A i \in 1 .. Len(s) : Append(s, m)[i] = s[i]
      /\ Append(s, m)[Len(s) + 1] = m
  BY AppendProperties, LenProperties
<1> QED BY <1>1 DEF Said

LEMMA SaidTail ==
    ASSUME NEW S, NEW s \in Seq(S), s # <<>>
    PROVE  /\ Tail(s) \in Seq(S) /\ Head(s) \in S
           /\ Said(s) = {Head(s)} \cup Said(Tail(s))
<1>1. /\ Tail(s) \in Seq(S) /\ Head(s) \in S /\ Len(Tail(s)) = Len(s) - 1
      /\ \A i \in 1 .. Len(Tail(s)) : Tail(s)[i] = s[i + 1]
      /\ Head(s) = s[1] /\ Len(s) \in Nat /\ Len(s) >= 1
  BY HeadTailProperties, LenProperties, EmptySeq
<1>2. Said(s) \subseteq {Head(s)} \cup Said(Tail(s))
  <2> SUFFICES ASSUME NEW i \in 1 .. Len(s) PROVE s[i] \in {Head(s)} \cup Said(Tail(s))
    BY DEF Said
  <2>1. CASE i = 1
    BY <1>1, <2>1
  <2>2. CASE i > 1
    <3>1. i - 1 \in 1 .. Len(Tail(s)) /\ Tail(s)[i - 1] = s[i]
      BY <1>1, <2>2
    <3> QED BY <3>1 DEF Said
  <2> QED BY <2>1, <2>2
<1>3. {Head(s)} \cup Said(Tail(s)) \subseteq Said(s)
  <2>1. ASSUME NEW i \in 1 .. Len(Tail(s)) PROVE Tail(s)[i] \in Said(s)
    <3>1. i + 1 \in 1 .. Len(s) /\ Tail(s)[i] = s[i + 1]
      BY <1>1
    <3> QED BY <3>1 DEF Said
  <2> QED BY <1>1, <2>1 DEF Said
<1> QED BY <1>1, <1>2, <1>3

LEMMA SaidFew ==
    ASSUME NEW S, NEW m \in S, NEW k \in S
    PROVE  /\ <<>> \in Seq(S) /\ <<m>> \in Seq(S) /\ <<m, k>> \in Seq(S)
           /\ Said(<<>>) = {} /\ Said(<<m>>) = {m} /\ Said(<<m, k>>) = {m, k}
BY DEF Said

LEMMA SaidTyped == ASSUME NEW S, NEW s \in Seq(S) PROVE Said(s) \subseteq S
BY ElementOfSeq DEF Said

LEMMA MsgsTyped ==
    ASSUME NEW n \in Nat
    PROVE  /\ Hello \in Msgs(n)
           /\ \A p \in Pages : Delete(p) \in Msgs(n)
           /\ \A c \in Copy(n) : Sync(c) \in Msgs(n) /\ ForceSync(c) \in Msgs(n)
           /\ \A m \in Msgs(n) :
                 /\ m.type \in {"sync", "force_sync"} => m.pages \in Copy(n)
                 /\ m.type = "delete" => m.id \in Pages /\ m = Delete(m.id)
                 /\ m.type = "hello" => m = Hello
                 /\ m.type = "sync" => m = Sync(m.pages)
                 /\ m.type = "force_sync" => m = ForceSync(m.pages)
<1>1. Hello \in Msgs(n) /\ \A p \in Pages : Delete(p) \in Msgs(n)
  BY DEF Msgs
<1>2. \A c \in Copy(n) : Sync(c) \in Msgs(n) /\ ForceSync(c) \in Msgs(n)
  BY DEF Msgs, Sync, ForceSync
<1>3. ASSUME NEW m \in [type : {"sync", "force_sync"}, pages : Copy(n)]
      PROVE  /\ m.type \in {"sync", "force_sync"} /\ m.pages \in Copy(n)
             /\ m = [type |-> m.type, pages |-> m.pages]
  OBVIOUS
<1>4. /\ Hello.type = "hello" /\ \A p \in Pages : Delete(p).type = "delete" /\ Delete(p).id = p
      /\ \A c : Sync(c) = [type |-> "sync", pages |-> c] /\ ForceSync(c) = [type |-> "force_sync", pages |-> c]
  BY DEF Hello, Delete, Sync, ForceSync
<1>5. ASSUME NEW m \in Msgs(n)
      PROVE  m = Hello \/ (\E p \in Pages : m = Delete(p))
             \/ m \in [type : {"sync", "force_sync"}, pages : Copy(n)]
  BY DEF Msgs
<1> QED BY <1>1, <1>2, <1>3, <1>4, <1>5

LEMMA CopiesTyped ==
    ASSUME NEW n \in Nat, NEW c \in Copy(n), NEW new \in Copy(n)
    PROVE  /\ Merge(c, new) \in Copy(n) /\ Empty \in Copy(n)
           /\ \A p \in Pages : Without(c, p) \in Copy(n)
           /\ \A ps \in SUBSET Pages : Only(c, ps) \in Copy(n)
           /\ \A p \in Pages : /\ Merge(c, new)[p] >= c[p] /\ Merge(c, new)[p] >= new[p]
                               /\ Merge(c, new)[p] \in {c[p], new[p]}
<1>1. \A p \in Pages : c[p] \in 0 .. n /\ new[p] \in 0 .. n
  BY DEF Copy
<1>2. Merge(c, new) \in Copy(n)
  BY <1>1 DEF Copy, Merge
<1>3. Empty \in Copy(n) /\ \A p \in Pages : Without(c, p) \in Copy(n)
  <2>1. 0 \in 0 .. n
    OBVIOUS
  <2> QED BY <2>1 DEF Copy, Empty, Without
<1>4. \A ps \in SUBSET Pages : Only(c, ps) \in Copy(n)
  BY <1>1 DEF Copy, Only
<1>5. ASSUME NEW p \in Pages
      PROVE  /\ Merge(c, new)[p] >= c[p] /\ Merge(c, new)[p] >= new[p]
             /\ Merge(c, new)[p] \in {c[p], new[p]}
  BY <1>1 DEF Merge
<1> QED BY <1>2, <1>3, <1>4, <1>5

\* Types that hold up to n hold up to any later time.
LEMMA TypedGrows ==
    ASSUME NEW n \in Nat, TypedTo(n)
    PROVE  TypedTo(n + 1)
<1>1. Copy(n) \subseteq Copy(n + 1)
  BY DEF Copy
<1>2. Msgs(n) \subseteq Msgs(n + 1)
  BY <1>1 DEF Msgs
<1>3. Seq(Msgs(n)) \subseteq Seq(Msgs(n + 1))
  BY <1>2, SeqMonotonic
<1>4. up \in [Browsers -> Seq(Msgs(n + 1))] /\ down \in [Browsers -> Seq(Msgs(n + 1))]
  BY <1>3 DEF TypedTo
<1>5. /\ hello \in [Browsers -> {Nothing} \cup [type : {"sync"}, pages : Copy(n + 1)]]
      /\ asked \in [Browsers -> {Nothing} \cup [type : {"asked"}, id : Pages, pages : Copy(n + 1)]]
      /\ loader \in [Loaders -> [at : {"idle", "copied", "upserted", "read", "set"},
                                 pages : Copy(n + 1), removed : SUBSET Pages]]
  BY <1>1 DEF TypedTo
<1> QED BY <1>1, <1>4, <1>5 DEF TypedTo

LEMMA InitInv == Init => IInv
<1> SUFFICES ASSUME Init PROVE IInv
  OBVIOUS
<1>1. clock \in 1 .. MaxTime /\ clock = 1
  BY ScratchpadAssumption DEF Init
<1>2. TypedTo(1)
  <2>1. Empty \in Copy(1) /\ globalData \in Copy(1) /\ file \in Copy(1)
    <3>1. Empty \in Copy(1) /\ [Empty EXCEPT ![FirstPage] = 1] \in Copy(1)
      <4>1. 0 \in 0 .. 1 /\ 1 \in 0 .. 1
        OBVIOUS
      <4>2. PICK T : T = 0 .. 1
        OBVIOUS
      <4>3. [p \in Pages |-> 0] \in [Pages -> T] /\ [[p \in Pages |-> 0] EXCEPT ![FirstPage] = 1] \in [Pages -> T]
        BY <4>1, <4>2
      <4> QED BY <4>2, <4>3 DEF Empty, Copy
    <3> QED BY <3>1 DEF Init
  <2>2. up \in [Browsers -> Seq(Msgs(1))] /\ down \in [Browsers -> Seq(Msgs(1))]
    BY EmptySeq DEF Init
  <2> QED BY <2>1, <2>2, ScratchpadAssumption DEF Init, TypedTo, Idle
<1>3. Said(<<>>) = {}
  BY DEF Said
<1>4. Safe
  BY <1>2, <1>3 DEF Init, Safe, Filed, Loaded, Heard, Deleted, Asked, Listening, EditsOffered,
                    NewsAwaited, Idle, Nothing, TypedTo, Copy
<1>5. PanicTyped
  BY DEF Init, PanicTyped
<1> QED BY <1>1, <1>2, <1>4, <1>5 DEF IInv

-----------------------------------------------------------------------------
(* What the helpers of the actions do.                                     *)

LEMMA SendSays ==
    ASSUME NEW n \in Nat, TypedTo(n), NEW m \in Msgs(n), NEW bs, Send(m, bs)
    PROVE  /\ down' \in [Browsers -> Seq(Msgs(n))]
           /\ \A e \in Browsers :
                 Said(down'[e]) = IF e \in bs /\ ws[e] = "on" THEN Said(down[e]) \cup {m}
                                                             ELSE Said(down[e])
<1>1. \A e \in Browsers : /\ down[e] \in Seq(Msgs(n)) /\ Append(down[e], m) \in Seq(Msgs(n))
                          /\ Said(Append(down[e], m)) = Said(down[e]) \cup {m}
  BY SaidAppend DEF TypedTo
<1>2. down' = [e \in Browsers |-> IF e \in bs /\ ws[e] = "on" THEN Append(down[e], m) ELSE down[e]]
  BY DEF Send
<1> QED BY <1>1, <1>2

LEMMA PushSays ==
    ASSUME NEW n \in Nat, TypedTo(n), NEW b \in Browsers, NEW m \in Msgs(n),
           up' = [up EXCEPT ![b] = Append(@, m)]
    PROVE  /\ up' \in [Browsers -> Seq(Msgs(n))]
           /\ Said(up'[b]) = Said(up[b]) \cup {m}
           /\ \A e \in Browsers : e # b => up'[e] = up[e]
<1>1. up \in [Browsers -> Seq(Msgs(n))] /\ up[b] \in Seq(Msgs(n))
  BY DEF TypedTo
<1>2. Append(up[b], m) \in Seq(Msgs(n)) /\ Said(Append(up[b], m)) = Said(up[b]) \cup {m}
  BY <1>1, SaidAppend
<1> QED BY <1>1, <1>2

LEMMA ReadsSays ==
    ASSUME NEW n \in Nat, TypedTo(n), NEW b \in Browsers, NEW kind, Reads(b, kind)
    PROVE  /\ up' \in [Browsers -> Seq(Msgs(n))]
           /\ Head(up[b]) \in Msgs(n) /\ Head(up[b]).type = kind
           /\ Said(up[b]) = {Head(up[b])} \cup Said(up'[b])
           /\ \A e \in Browsers : e # b => up'[e] = up[e]
           /\ b \in conns /\ hello[b] = Nothing
           /\ UNCHANGED <<browserVars, conns, missed, loader, fate, clock, troubles>>
<1>0. up \in [Browsers -> Seq(Msgs(n))]
  BY DEF TypedTo
<1>1. up[b] # <<>> /\ up' = [up EXCEPT ![b] = Tail(up[b])]
  BY DEF Reads, Gets
<1>2. /\ Tail(up[b]) \in Seq(Msgs(n)) /\ Head(up[b]) \in Msgs(n)
      /\ Said(up[b]) = {Head(up[b])} \cup Said(Tail(up[b]))
  BY <1>0, <1>1, SaidTail
<1>3. /\ up' \in [Browsers -> Seq(Msgs(n))] /\ up'[b] = Tail(up[b])
      /\ \A e \in Browsers : e # b => up'[e] = up[e]
  BY <1>0, <1>1, <1>2
<1> QED BY <1>2, <1>3 DEF Reads, Gets

LEMMA ReceivesSays ==
    ASSUME NEW n \in Nat, TypedTo(n), NEW b \in Browsers, NEW kind, Receives(b, kind)
    PROVE  /\ down' \in [Browsers -> Seq(Msgs(n))]
           /\ Head(down[b]) \in Msgs(n) /\ Head(down[b]).type = kind
           /\ Said(down[b]) = {Head(down[b])} \cup Said(down'[b])
           /\ \A e \in Browsers : e # b => down'[e] = down[e]
           /\ UNCHANGED <<serverVars, dirty, debounce, ws, asked, conns, hello, missed, up, loader, clock,
                         troubles>>
<1>0. down \in [Browsers -> Seq(Msgs(n))]
  BY DEF TypedTo
<1>1. down[b] # <<>> /\ down' = [down EXCEPT ![b] = Tail(down[b])]
  BY DEF Receives
<1>2. /\ Tail(down[b]) \in Seq(Msgs(n)) /\ Head(down[b]) \in Msgs(n)
      /\ Said(down[b]) = {Head(down[b])} \cup Said(Tail(down[b]))
  BY <1>0, <1>1, SaidTail
<1>3. /\ down' \in [Browsers -> Seq(Msgs(n))] /\ down'[b] = Tail(down[b])
      /\ \A e \in Browsers : e # b => down'[e] = down[e]
  BY <1>0, <1>1, <1>2
<1> QED BY <1>2, <1>3 DEF Receives

LEMMA TroubleCounted == troubles \in 0 .. MaxTroubles /\ Trouble => troubles' \in 0 .. MaxTroubles
BY ScratchpadAssumption DEF Trouble

-----------------------------------------------------------------------------
(* The steps of the server.                                                *)

LEMMA AcceptKeeps ==
    ASSUME NEW n \in Nat, TypedTo(n), Safe, NEW b \in Browsers, Accept(b)
    PROVE  TypedTo(n)' /\ Safe'
<1>1. /\ conns' = conns \cup {b}
      /\ UNCHANGED <<serverVars, browserVars, hello, missed, up, down, loader, fate, clock, troubles>>
  BY DEF Accept
<1>2. TypedTo(n)'
  BY <1>1 DEF TypedTo, serverVars, browserVars
<1>3. Safe'
  BY <1>1 DEF Safe, Filed, Loaded, Heard, Deleted, Asked, Listening, EditsOffered, NewsAwaited,
              Fine, Offers, Awaits, serverVars, browserVars
<1> QED BY <1>2, <1>3

LEMMA ServeHelloKeeps ==
    ASSUME NEW n \in Nat, TypedTo(n), Safe, NEW b \in Browsers, ServeHello(b)
    PROVE  TypedTo(n)' /\ Safe'
<1>1. /\ up' \in [Browsers -> Seq(Msgs(n))]
      /\ Said(up[b]) = {Head(up[b])} \cup Said(up'[b])
      /\ \A e \in Browsers : e # b => up'[e] = up[e]
      /\ b \in conns /\ Head(up[b]).type = "hello"
      /\ UNCHANGED <<browserVars, conns, missed, loader, fate, clock, troubles>>
  BY ReadsSays DEF ServeHello
<1>2. /\ hello' = [hello EXCEPT ![b] = Sync(globalData)] /\ UNCHANGED <<serverVars, down>>
  BY DEF ServeHello
<1>3. Sync(globalData).type = "sync" /\ Sync(globalData).pages = globalData
  BY DEF Sync
<1>4. /\ hello'[b] = Sync(globalData) /\ \A e \in Browsers : e # b => hello'[e] = hello[e]
      /\ hello' \in [Browsers -> {Nothing} \cup [type : {"sync"}, pages : Copy(n)]]
  BY <1>2 DEF TypedTo, Sync
<1>5. TypedTo(n)'
  BY <1>1, <1>2, <1>4 DEF TypedTo, serverVars, browserVars
<1>6. Filed' /\ Loaded' /\ Asked'
  BY <1>1, <1>2 DEF Safe, Filed, Loaded, Asked, Fine, serverVars, browserVars
<1>7. \A p \in Pages : globalData[p] \in 0 .. n
  BY DEF TypedTo, Copy
<1>8. Heard'
  BY <1>1, <1>2, <1>3, <1>4, <1>7 DEF Safe, Heard, Fine, serverVars
<1>9. Deleted' /\ Listening'
  BY <1>1, <1>2 DEF Safe, Deleted, Listening, Fine, browserVars
<1>10. EditsOffered'
  <2>1. \A m \in Said(up[b]) : m.type = "sync" => m \in Said(up'[b])
    BY <1>1
  <2> QED BY <1>1, <1>2, <2>1 DEF Safe, EditsOffered, Offers, Fine, browserVars, serverVars
<1>11. NewsAwaited'
  BY <1>1, <1>2, <1>3, <1>4, <1>7 DEF Safe, NewsAwaited, Awaits, Fine, browserVars, serverVars
<1> QED BY <1>5, <1>6, <1>8, <1>9, <1>10, <1>11 DEF Safe

LEMMA WriteHelloKeeps ==
    ASSUME NEW n \in Nat, TypedTo(n), Safe, NEW b \in Browsers, WriteHello(b)
    PROVE  TypedTo(n)' /\ Safe'
<1>1. hello[b].type = "sync" /\ hello[b] \in Msgs(n)
  BY DEF WriteHello, TypedTo, Msgs
<1>2. /\ down' \in [Browsers -> Seq(Msgs(n))]
      /\ \A e \in Browsers :
            Said(down'[e]) = IF e \in {b} /\ ws[e] = "on" THEN Said(down[e]) \cup {hello[b]}
                                                          ELSE Said(down[e])
  BY <1>1, SendSays DEF WriteHello
<1>3. /\ hello' = [hello EXCEPT ![b] = Nothing]
      /\ UNCHANGED <<serverVars, browserVars, conns, missed, up, loader, fate, clock, troubles>>
  BY DEF WriteHello
<1>4. /\ hello'[b] = Nothing /\ \A e \in Browsers : e # b => hello'[e] = hello[e]
      /\ hello' \in [Browsers -> {Nothing} \cup [type : {"sync"}, pages : Copy(n)]]
  BY <1>3 DEF TypedTo
<1>5. TypedTo(n)'
  BY <1>2, <1>3, <1>4 DEF TypedTo, serverVars, browserVars
<1>6. Filed' /\ Loaded' /\ Asked' /\ Listening' /\ EditsOffered'
  BY <1>3 DEF Safe, Filed, Loaded, Asked, Listening, EditsOffered, Offers, Fine, serverVars, browserVars
<1>7. Nothing.type = "nothing"
  BY DEF Nothing
<1>8. Heard'
  BY <1>1, <1>2, <1>3, <1>4, <1>7 DEF Safe, Heard, Fine, serverVars
<1>9. Deleted'
  <2>1. \A p \in Pages : hello[b] # Delete(p)
    BY <1>1 DEF Delete
  <2> QED BY <1>2, <1>3, <2>1 DEF Safe, Deleted, Fine
<1>10. NewsAwaited'
  BY <1>1, <1>2, <1>3, <1>4 DEF Safe, NewsAwaited, Awaits, Fine, browserVars, serverVars
<1> QED BY <1>5, <1>6, <1>8, <1>9, <1>10 DEF Safe

LEMMA ServeSyncKeeps ==
    ASSUME NEW n \in Nat, TypedTo(n), Safe, NEW b \in Browsers, ServeSync(b)
    PROVE  TypedTo(n)' /\ Safe'
<1>1. /\ up' \in [Browsers -> Seq(Msgs(n))]
      /\ Head(up[b]) \in Msgs(n) /\ Head(up[b]).type = "sync"
      /\ Said(up[b]) = {Head(up[b])} \cup Said(up'[b])
      /\ \A e \in Browsers : e # b => up'[e] = up[e]
      /\ UNCHANGED <<browserVars, conns, missed, loader, fate, clock, troubles>>
  BY ReadsSays DEF ServeSync
<1>2. PICK c \in Copy(n) : c = Head(up[b]).pages
  BY <1>1, MsgsTyped
<1>3. /\ UNCHANGED hello
      /\ IF Newer(c) # {}
         THEN /\ globalData' = Merge(globalData, c) /\ file' = globalData'
              /\ Send(Sync(Only(c, Newer(c))), conns)
         ELSE UNCHANGED <<globalData, file, down>>
  BY <1>2 DEF ServeSync
<1>4. /\ globalData' \in Copy(n) /\ file' \in Copy(n)
      /\ \A p \in Pages : /\ globalData'[p] >= globalData[p] /\ globalData'[p] >= c[p]
                          /\ Fine(p) => file'[p] = globalData'[p]
  <2>1. globalData \in Copy(n) /\ file \in Copy(n)
    BY DEF TypedTo
  <2>2. CASE Newer(c) # {}
    BY <1>3, <2>1, <2>2, CopiesTyped
  <2>3. CASE Newer(c) = {}
    BY <1>3, <2>1, <2>3 DEF Newer, serverVars, Copy, Safe, Filed
  <2> QED BY <2>2, <2>3
<1>5. PICK m : m = Sync(Only(c, Newer(c)))
  OBVIOUS
<1>6. /\ m \in Msgs(n) /\ m.type = "sync"
      /\ \A p \in Pages : m.pages[p] = IF p \in Newer(c) THEN c[p] ELSE 0
  <2>1. Only(c, Newer(c)) \in Copy(n)
    BY CopiesTyped DEF Newer
  <2> QED BY <1>5, <2>1, MsgsTyped DEF Sync, Only
<1>7. /\ down' \in [Browsers -> Seq(Msgs(n))]
      /\ \A e \in Browsers :
            Said(down'[e]) = IF Newer(c) # {} /\ e \in conns /\ ws[e] = "on"
                             THEN Said(down[e]) \cup {m} ELSE Said(down[e])
  <2>1. CASE Newer(c) # {}
    <3>1. Send(m, conns)
      BY <1>3, <1>5, <2>1
    <3> QED BY <1>6, <2>1, <3>1, SendSays
  <2>2. CASE Newer(c) = {}
    BY <1>3, <2>2 DEF TypedTo
  <2> QED BY <2>1, <2>2
<1>8. \A p \in Pages : globalData[p] \in 0 .. n /\ globalData'[p] \in 0 .. n /\ c[p] \in 0 .. n
  BY <1>4 DEF TypedTo, Copy
<1>9. TypedTo(n)'
  BY <1>1, <1>3, <1>4, <1>7 DEF TypedTo, browserVars
<1>10. Filed' /\ Asked'
  BY <1>1, <1>4 DEF Safe, Filed, Asked, Fine, browserVars
<1>11. Loaded'
  <2>1. \A p \in Pages, l \in Loaders : loader[l].pages[p] \in 0 .. n
    BY DEF TypedTo, Copy
  <2> QED BY <1>1, <1>4, <1>8, <2>1 DEF Safe, Loaded, Fine
<1>12. \A p \in Pages : m.pages[p] <= globalData'[p]
  BY <1>4, <1>6, <1>8
<1>13. Heard'
  <2> SUFFICES ASSUME NEW e \in Browsers, NEW p \in Pages, Fine(p)
               PROVE  /\ \A k \in Said(down'[e]) : k.type \in {"sync", "force_sync"} => k.pages[p] <= globalData'[p]
                      /\ hello[e].type = "sync" => hello[e].pages[p] <= globalData'[p]
    BY <1>1, <1>3 DEF Heard, Fine
  <2>1. \A k \in Said(down[e]) : k.type \in {"sync", "force_sync"} => k.pages[p] <= globalData[p] /\ k.pages[p] \in 0 .. n
    <3>1. Said(down[e]) \subseteq Msgs(n)
      BY SaidTyped DEF TypedTo
    <3> QED BY <3>1, MsgsTyped DEF Safe, Heard, Copy
  <2>2. hello[e].type = "sync" => hello[e].pages[p] <= globalData[p] /\ hello[e].pages[p] \in 0 .. n
    <3>1. hello[e].type = "sync" => hello[e].pages \in Copy(n)
      BY DEF TypedTo, Nothing
    <3> QED BY <3>1 DEF Safe, Heard, Copy
  <2> QED BY <1>4, <1>7, <1>8, <1>12, <2>1, <2>2
<1>14. Deleted'
  <2>1. \A p \in Pages : m # Delete(p)
    BY <1>6 DEF Delete
  <2> QED BY <1>1, <1>7, <2>1 DEF Safe, Deleted, Fine
<1>15. Listening'
  <2>1. Head(up[b]) # Hello
    BY <1>1 DEF Hello
  <2> QED BY <1>1, <2>1 DEF Safe, Listening, browserVars
<1>16. EditsOffered'
  <2> SUFFICES ASSUME NEW e \in Browsers, NEW p \in Pages, ws[e] = "on", Fine(p),
                      data[e][p] > globalData'[p]
               PROVE  Offers(e, p)'
    BY <1>1 DEF EditsOffered, Fine, browserVars
  <2>1. data[e][p] \in 0 .. n
    BY DEF TypedTo, Copy
  <2>2. Offers(e, p)
    BY <1>4, <1>8, <2>1 DEF Safe, EditsOffered
  <2>3. ~ (e = b /\ Head(up[b]).pages[p] >= data[e][p])
    BY <1>2, <1>4, <1>8, <2>1
  <2> QED BY <1>1, <2>2, <2>3 DEF Offers, browserVars
<1>17. NewsAwaited'
  <2> SUFFICES ASSUME NEW e \in Browsers, NEW p \in Pages, e \notin missed', ws[e] = "on", Fine(p),
                      data[e][p] < globalData'[p]
               PROVE  Awaits(e, p)'
    BY <1>1 DEF NewsAwaited, Fine, browserVars
  <2>1. Hello \in Said(up[e]) => Hello \in Said(up'[e])
    <3>1. Head(up[b]) # Hello
      BY <1>1 DEF Hello
    <3> QED BY <1>1, <3>1
  <2>2. CASE globalData'[p] = globalData[p]
    <3>1. Awaits(e, p)
      BY <1>1, <2>2 DEF Safe, NewsAwaited
    <3> QED BY <1>1, <1>3, <1>7, <2>1, <2>2, <3>1 DEF Awaits
  <2>3. CASE globalData'[p] # globalData[p]
    <3>1. Newer(c) # {} /\ p \in Newer(c) /\ globalData'[p] = c[p]
      BY <1>3, <1>8, <2>3 DEF Merge, serverVars, Newer
    <3>2. CASE e \in conns
      <4>1. m \in Said(down'[e]) /\ m.pages[p] >= globalData'[p]
        BY <1>6, <1>7, <1>8, <3>1, <3>2
      <4> QED BY <1>6, <4>1 DEF Awaits
    <3>3. CASE e \notin conns
      BY <2>1, <3>3 DEF Safe, Listening, Awaits
    <3> QED BY <3>2, <3>3
  <2> QED BY <2>2, <2>3
<1> QED BY <1>9, <1>10, <1>11, <1>13, <1>14, <1>15, <1>16, <1>17 DEF Safe

LEMMA ServeDeleteKeeps ==
    ASSUME NEW n \in Nat, TypedTo(n), Safe, NEW b \in Browsers, ServeDelete(b)
    PROVE  TypedTo(n)' /\ Safe'
<1>1. /\ up' \in [Browsers -> Seq(Msgs(n))]
      /\ Head(up[b]) \in Msgs(n) /\ Head(up[b]).type = "delete"
      /\ Said(up[b]) = {Head(up[b])} \cup Said(up'[b])
      /\ \A e \in Browsers : e # b => up'[e] = up[e]
      /\ UNCHANGED <<browserVars, conns, missed, loader, fate, clock, troubles>>
  BY ReadsSays DEF ServeDelete
<1>2. PICK d \in Pages : d = Head(up[b]).id /\ Head(up[b]) = Delete(d)
  BY <1>1, MsgsTyped
<1>3. ~Fine(d)
  BY <1>1, <1>2 DEF Safe, Deleted
<1>4. /\ UNCHANGED hello
      /\ \/ globalData' = Without(globalData, d) /\ file' = globalData' /\ Send(Delete(d), conns)
         \/ Send(Delete(d), {b}) /\ UNCHANGED serverVars
  BY <1>2 DEF ServeDelete
<1>5. /\ globalData' \in Copy(n) /\ file' \in Copy(n)
      /\ \A p \in Pages : Fine(p) => globalData'[p] = globalData[p] /\ file'[p] = file[p]
  <2>1. globalData \in Copy(n) /\ file \in Copy(n)
    BY DEF TypedTo
  <2>2. Without(globalData, d) \in Copy(n)
    BY <2>1, CopiesTyped
  <2>3. \A p \in Pages : Fine(p) => Without(globalData, d)[p] = globalData[p]
    BY <1>3, <2>1 DEF Without, Copy
  <2> QED BY <1>4, <2>1, <2>2, <2>3 DEF serverVars, Safe, Filed
<1>6. /\ down' \in [Browsers -> Seq(Msgs(n))]
      /\ \A e \in Browsers : /\ Said(down[e]) \subseteq Said(down'[e])
                             /\ Said(down'[e]) \subseteq Said(down[e]) \cup {Delete(d)}
  <2>1. Delete(d) \in Msgs(n)
    BY MsgsTyped
  <2> QED BY <1>4, <2>1, SendSays
<1>7. Delete(d).type = "delete" /\ Hello.type = "hello" /\ \A p \in Pages : Delete(p) = Delete(d) => p = d
  BY DEF Delete, Hello
<1>8. TypedTo(n)'
  BY <1>1, <1>4, <1>5, <1>6 DEF TypedTo, browserVars
<1>9. Filed' /\ Loaded' /\ Asked'
  BY <1>1, <1>5 DEF Safe, Filed, Loaded, Asked, Fine, browserVars
<1>10. Heard'
  BY <1>1, <1>4, <1>5, <1>6, <1>7 DEF Safe, Heard, Fine
<1>11. Deleted'
  BY <1>1, <1>3, <1>6, <1>7 DEF Safe, Deleted, Fine
<1>12. Listening'
  BY <1>1, <1>2, <1>7 DEF Safe, Listening, browserVars
<1>13. EditsOffered'
  BY <1>1, <1>5 DEF Safe, EditsOffered, Offers, Fine, browserVars
<1>14. NewsAwaited'
  BY <1>1, <1>2, <1>4, <1>5, <1>6, <1>7 DEF Safe, NewsAwaited, Awaits, Fine, browserVars
<1> QED BY <1>8, <1>9, <1>10, <1>11, <1>12, <1>13, <1>14 DEF Safe

-----------------------------------------------------------------------------
(* The steps of a browser.                                                 *)

\* A connection starts afresh: it asks for all pages and offers all it has.
LEMMA ConnectKeeps ==
    ASSUME NEW n \in Nat, TypedTo(n), Safe, NEW b \in Browsers, Connect(b)
    PROVE  TypedTo(n)' /\ Safe'
<1>1. /\ ws' = [ws EXCEPT ![b] = "on"]
      /\ up' = [up EXCEPT ![b] = IF Has(data[b]) = {} THEN <<Hello>> ELSE <<Hello, Sync(data[b])>>]
      /\ down' = [down EXCEPT ![b] = <<>>]
      /\ conns' = conns \ {b} /\ hello' = [hello EXCEPT ![b] = Nothing]
      /\ missed' = missed \ {b}
      /\ UNCHANGED <<serverVars, data, dirty, debounce, asked, loader, fate, clock, troubles>>
  BY DEF Connect
<1>2. data[b] \in Copy(n)
  BY DEF TypedTo
<1>3. Hello \in Msgs(n) /\ Sync(data[b]) \in Msgs(n)
  BY <1>2, MsgsTyped
<1>4. /\ up' \in [Browsers -> Seq(Msgs(n))]
      /\ Said(up'[b]) = IF Has(data[b]) = {} THEN {Hello} ELSE {Hello, Sync(data[b])}
      /\ \A e \in Browsers : e # b => up'[e] = up[e]
  <2>1. PICK q : q = IF Has(data[b]) = {} THEN <<Hello>> ELSE <<Hello, Sync(data[b])>>
    OBVIOUS
  <2>2. /\ q \in Seq(Msgs(n))
        /\ Said(q) = IF Has(data[b]) = {} THEN {Hello} ELSE {Hello, Sync(data[b])}
    <3>1. /\ <<Hello>> \in Seq(Msgs(n)) /\ <<Hello, Sync(data[b])>> \in Seq(Msgs(n))
          /\ Said(<<Hello>>) = {Hello} /\ Said(<<Hello, Sync(data[b])>>) = {Hello, Sync(data[b])}
      BY <1>3, SaidFew
    <3>2. CASE Has(data[b]) = {}
      BY <2>1, <3>1, <3>2
    <3>3. CASE Has(data[b]) # {}
      BY <2>1, <3>1, <3>3
    <3> QED BY <3>2, <3>3
  <2>3. up' = [up EXCEPT ![b] = q]
    BY <1>1, <2>1
  <2>4. up \in [Browsers -> Seq(Msgs(n))]
    BY DEF TypedTo
  <2> QED BY <2>2, <2>3, <2>4
<1>5. /\ down' \in [Browsers -> Seq(Msgs(n))] /\ Said(down'[b]) = {}
      /\ \A e \in Browsers : e # b => down'[e] = down[e]
  <2>1. <<>> \in Seq(Msgs(n)) /\ Said(<<>>) = {}
    BY <1>3, SaidFew
  <2> QED BY <1>1, <2>1 DEF TypedTo
<1>6. /\ ws' \in [Browsers -> {"gone", "off", "on"}]
      /\ hello' \in [Browsers -> {Nothing} \cup [type : {"sync"}, pages : Copy(n)]]
      /\ hello'[b].type = "nothing"
      /\ \A e \in Browsers : e # b => ws'[e] = ws[e] /\ hello'[e] = hello[e]
  BY <1>1 DEF TypedTo, Nothing
<1>7. TypedTo(n)'
  BY <1>1, <1>4, <1>5, <1>6 DEF TypedTo, serverVars
<1>8. Filed' /\ Loaded' /\ Asked'
  BY <1>1 DEF Safe, Filed, Loaded, Asked, Fine, serverVars
<1>9. Heard'
  BY <1>1, <1>5, <1>6 DEF Safe, Heard, Fine, serverVars
<1>10. Deleted'
  <2>1. \A p \in Pages : Delete(p) # Hello /\ Delete(p) # Sync(data[b])
    BY DEF Delete, Hello, Sync
  <2> QED BY <1>1, <1>4, <1>5, <2>1 DEF Safe, Deleted, Fine
<1>11. Listening'
  BY <1>1, <1>4, <1>6 DEF Safe, Listening
<1>12. EditsOffered'
  <2> SUFFICES ASSUME NEW e \in Browsers, NEW p \in Pages, ws'[e] = "on", Fine(p),
                      data[e][p] > globalData[p]
               PROVE  Offers(e, p)'
    BY <1>1 DEF EditsOffered, Fine, serverVars
  <2>1. CASE e # b
    BY <1>1, <1>4, <1>6, <2>1 DEF Safe, EditsOffered, Offers
  <2>2. CASE e = b
    <3>1. data[b][p] \in 0 .. n /\ globalData[p] \in 0 .. n
      BY DEF TypedTo, Copy
    <3>2. p \in Has(data[b])
      BY <2>2, <3>1 DEF Has
    <3>3. Sync(data[b]) \in Said(up'[b])
      BY <1>4, <3>2
    <3> QED BY <1>1, <2>2, <3>1, <3>3 DEF Offers, Sync
  <2> QED BY <2>1, <2>2
<1>13. NewsAwaited'
  <2> SUFFICES ASSUME NEW e \in Browsers, NEW p \in Pages, e \notin missed', ws'[e] = "on", Fine(p),
                      data[e][p] < globalData[p]
               PROVE  Awaits(e, p)'
    BY <1>1 DEF NewsAwaited, Fine, serverVars
  <2>1. CASE e # b
    BY <1>1, <1>4, <1>5, <1>6, <2>1 DEF Safe, NewsAwaited, Awaits, serverVars
  <2>2. CASE e = b
    BY <1>4, <2>2 DEF Awaits
  <2> QED BY <2>1, <2>2
<1> QED BY <1>7, <1>8, <1>9, <1>10, <1>11, <1>12, <1>13 DEF Safe

\* A message with pages: afterwards the browser has what was sent, or newer.
LEMMA OnPagesKeeps ==
    ASSUME NEW n \in Nat, TypedTo(n), Safe, NEW b \in Browsers, OnSync(b) \/ OnForceSync(b)
    PROVE  TypedTo(n)' /\ Safe'
<1> DEFINE Takes(new, sent) ==
              /\ data' = [data EXCEPT ![b] = new]
              /\ fate' \in [Pages -> {"unborn", "born", "lost"}]
              /\ \A p \in Pages : Fine(p)' => /\ Fine(p)
                                             /\ new[p] >= data[b][p] /\ new[p] >= sent[p]
                                             /\ new[p] \in {data[b][p], sent[p]}
<1>a. PICK kind \in {"sync", "force_sync"}, new \in Copy(n) :
          Receives(b, kind) /\ Takes(new, Head(down[b]).pages)
  <2>1. CASE OnSync(b)
    <3>1. Receives(b, "sync") /\ Head(down[b]) \in Msgs(n) /\ Head(down[b]).type = "sync"
      BY <2>1, ReceivesSays DEF OnSync
    <3>2. PICK c \in Copy(n) : c = Head(down[b]).pages
      BY <3>1, MsgsTyped
    <3>3. PICK new : new = Merge(data[b], c)
      OBVIOUS
    <3>4. /\ new \in Copy(n) /\ data[b] \in Copy(n)
          /\ \A p \in Pages : new[p] >= data[b][p] /\ new[p] >= c[p] /\ new[p] \in {data[b][p], c[p]}
      BY <3>3, CopiesTyped DEF TypedTo
    <3>5. data' = [data EXCEPT ![b] = new] /\ UNCHANGED fate
      BY <2>1, <3>2, <3>3 DEF OnSync
    <3>6. fate' \in [Pages -> {"unborn", "born", "lost"}] /\ \A p \in Pages : Fine(p)' => Fine(p)
      BY <3>5 DEF TypedTo, Fine
    <3> QED BY <3>1, <3>2, <3>4, <3>5, <3>6
  <2>2. CASE OnForceSync(b)
    <3>1. Receives(b, "force_sync") /\ Head(down[b]) \in Msgs(n) /\ Head(down[b]).type = "force_sync"
      BY <2>2, ReceivesSays DEF OnForceSync
    <3>2. PICK new \in Copy(n) : new = Head(down[b]).pages
      BY <3>1, MsgsTyped
    <3>3. data' = [data EXCEPT ![b] = new]
      BY <2>2, <3>2 DEF OnForceSync
    <3>4. data'[b] = new
      BY <3>3 DEF TypedTo
    <3>5. fate' = [p \in Pages |-> IF new[p] < data[b][p] THEN "lost" ELSE fate[p]]
      BY <2>2, <3>4 DEF OnForceSync, Replaces
    <3>6. \A p \in Pages : new[p] \in 0 .. n /\ data[b][p] \in 0 .. n
      BY DEF TypedTo, Copy
    <3>7. fate' \in [Pages -> {"unborn", "born", "lost"}]
      BY <3>5 DEF TypedTo
    <3>8. \A p \in Pages : Fine(p)' => Fine(p) /\ new[p] >= data[b][p] /\ new[p] >= new[p]
      BY <3>5, <3>6 DEF Fine
    <3> QED BY <3>1, <3>2, <3>3, <3>7, <3>8
  <2> QED BY <2>1, <2>2
<1>0. /\ Receives(b, kind) /\ data' = [data EXCEPT ![b] = new]
      /\ fate' \in [Pages -> {"unborn", "born", "lost"}]
      /\ \A p \in Pages : Fine(p)' =>
            /\ Fine(p)
            /\ new[p] >= data[b][p] /\ new[p] >= Head(down[b]).pages[p]
            /\ new[p] \in {data[b][p], Head(down[b]).pages[p]}
  BY <1>a
<1> HIDE DEF Takes
<1>1. /\ down' \in [Browsers -> Seq(Msgs(n))]
      /\ Head(down[b]) \in Msgs(n) /\ Head(down[b]).type \in {"sync", "force_sync"}
      /\ Said(down[b]) = {Head(down[b])} \cup Said(down'[b])
      /\ \A e \in Browsers : e # b => down'[e] = down[e]
      /\ UNCHANGED <<serverVars, dirty, debounce, ws, asked, conns, hello, missed, up, loader, clock,
                         troubles>>
  BY <1>0, ReceivesSays
<1>2. PICK c \in Copy(n) : c = Head(down[b]).pages
  BY <1>1, MsgsTyped
<1>3. /\ data' \in [Browsers -> Copy(n)] /\ data'[b] = new
      /\ \A e \in Browsers : e # b => data'[e] = data[e]
  BY <1>0 DEF TypedTo
<1>4. \A p \in Pages : /\ globalData[p] \in 0 .. n /\ c[p] \in 0 .. n /\ new[p] \in 0 .. n
                       /\ \A e \in Browsers : data[e][p] \in 0 .. n
  BY DEF TypedTo, Copy
<1>5. \A p \in Pages : Fine(p) => c[p] <= globalData[p]
  BY <1>1, <1>2 DEF Safe, Heard
<1>6. TypedTo(n)'
  BY <1>0, <1>1, <1>3 DEF TypedTo, serverVars
<1>7. Filed' /\ Loaded' /\ Listening'
  BY <1>0, <1>1 DEF Safe, Filed, Loaded, Listening, Fine, serverVars
<1>8. Heard' /\ Deleted'
  BY <1>0, <1>1 DEF Safe, Heard, Deleted, Fine, serverVars
<1>9. Asked'
  <2> SUFFICES ASSUME NEW e \in Browsers, NEW p \in Pages, Fine(p)', asked[e] # Nothing
               PROVE  asked[e].pages[p] <= data'[e][p]
    BY <1>1 DEF Asked
  <2>1. asked[e].pages[p] <= data[e][p] /\ asked[e].pages[p] \in 0 .. n
    BY <1>0 DEF Safe, Asked, TypedTo, Copy
  <2>2. data'[e][p] >= data[e][p]
    BY <1>0, <1>3, <1>4
  <2> QED BY <1>3, <1>4, <2>1, <2>2
<1>10. EditsOffered'
  <2> SUFFICES ASSUME NEW e \in Browsers, NEW p \in Pages, ws[e] = "on", Fine(p)',
                      data'[e][p] > globalData[p]
               PROVE  Offers(e, p)'
    BY <1>1 DEF EditsOffered, serverVars
  <2>1. data'[e][p] = data[e][p]
    <3>1. CASE e = b
      BY <1>0, <1>2, <1>3, <1>4, <1>5, <3>1
    <3> QED BY <1>3, <3>1
  <2> QED BY <1>0, <1>1, <2>1 DEF Safe, EditsOffered, Offers
<1>11. NewsAwaited'
  <2> SUFFICES ASSUME NEW e \in Browsers, NEW p \in Pages, e \notin missed', ws[e] = "on", Fine(p)',
                      data'[e][p] < globalData[p]
               PROVE  Awaits(e, p)'
    BY <1>1 DEF NewsAwaited, serverVars
  <2>1. Awaits(e, p)
    BY <1>0, <1>1, <1>3, <1>4 DEF Safe, NewsAwaited
  <2>2. ~ (e = b /\ Head(down[b]).pages[p] >= globalData[p])
    BY <1>0, <1>2, <1>3, <1>4
  <2> QED BY <1>1, <2>1, <2>2 DEF Awaits, serverVars
<1> QED BY <1>6, <1>7, <1>8, <1>9, <1>10, <1>11 DEF Safe

LEMMA OnDeleteKeeps ==
    ASSUME NEW n \in Nat, TypedTo(n), Safe, NEW b \in Browsers, OnDelete(b)
    PROVE  TypedTo(n)' /\ Safe'
<1>1. /\ down' \in [Browsers -> Seq(Msgs(n))]
      /\ Head(down[b]) \in Msgs(n) /\ Head(down[b]).type = "delete"
      /\ Said(down[b]) = {Head(down[b])} \cup Said(down'[b])
      /\ \A e \in Browsers : e # b => down'[e] = down[e]
      /\ UNCHANGED <<serverVars, dirty, debounce, ws, asked, conns, hello, missed, up, loader, clock,
                         troubles>>
  BY ReceivesSays DEF OnDelete
<1>2. PICK d \in Pages : d = Head(down[b]).id /\ Head(down[b]) = Delete(d)
  BY <1>1, MsgsTyped
<1>3. ~Fine(d) /\ UNCHANGED fate
  BY <1>1, <1>2 DEF Safe, Deleted, OnDelete
<1>4. data' = [data EXCEPT ![b] = Without(data[b], d)]
  BY <1>2 DEF OnDelete
<1>5. /\ data' \in [Browsers -> Copy(n)]
      /\ \A e \in Browsers, p \in Pages : Fine(p) => data'[e][p] = data[e][p]
  <2>1. data \in [Browsers -> Copy(n)] /\ data[b] \in Copy(n)
    BY DEF TypedTo
  <2>2. Without(data[b], d) \in Copy(n)
    BY <2>1, CopiesTyped
  <2>3. \A p \in Pages : p # d => Without(data[b], d)[p] = data[b][p]
    BY <2>1 DEF Without, Copy
  <2> QED BY <1>3, <1>4, <2>1, <2>2, <2>3
<1>6. TypedTo(n)'
  BY <1>1, <1>3, <1>5 DEF TypedTo, serverVars
<1>7. Filed' /\ Loaded' /\ Heard' /\ Deleted' /\ Asked' /\ Listening'
  BY <1>1, <1>3, <1>5 DEF Safe, Filed, Loaded, Heard, Deleted, Asked, Listening, Fine, serverVars
<1>8. EditsOffered'
  BY <1>1, <1>3, <1>5 DEF Safe, EditsOffered, Offers, Fine, serverVars
<1>9. NewsAwaited'
  <2>1. Head(down[b]).type \notin {"sync", "force_sync"}
    BY <1>1
  <2> QED BY <1>1, <1>3, <1>5, <2>1 DEF Safe, NewsAwaited, Awaits, Fine, serverVars
<1> QED BY <1>6, <1>7, <1>8, <1>9 DEF Safe

\* An edit: the newest version there is, and the timer runs for it.
LEMMA ChangeKeeps ==
    ASSUME NEW n \in Nat, clock = n, TypedTo(n), Safe, NEW b \in Browsers, NEW d \in Pages,
           Edit(b, d) \/ AddPage(b, d)
    PROVE  TypedTo(n + 1)' /\ Safe'
<1>1. /\ asked[b] = Nothing /\ clock' = n + 1
      /\ data' = [data EXCEPT ![b][d] = n + 1]
      /\ dirty' = [dirty EXCEPT ![b] = @ \cup {d}]
      /\ debounce' = [debounce EXCEPT ![b] = TRUE]
      /\ UNCHANGED <<serverVars, ws, asked, netVars, loader, troubles>>
  BY DEF Edit, AddPage, Change
<1>2. /\ fate' \in [Pages -> {"unborn", "born", "lost"}]
      /\ \A p \in Pages : Fine(p)' <=> Fine(p)
  BY DEF Edit, AddPage, TypedTo, Fine
<1>3. TypedTo(n + 1)
  BY TypedGrows
<1>4. /\ data' \in [Browsers -> Copy(n + 1)] /\ data'[b][d] = n + 1
      /\ \A e \in Browsers, p \in Pages : (e # b \/ p # d) => data'[e][p] = data[e][p]
  <2>1. data \in [Browsers -> [Pages -> 0 .. n + 1]] /\ n + 1 \in 0 .. n + 1
    BY <1>3 DEF TypedTo, Copy
  <2>2. PICK T : T = 0 .. n + 1
    OBVIOUS
  <2>3. data' \in [Browsers -> [Pages -> T]]
    BY <1>1, <2>1, <2>2
  <2> QED BY <1>1, <2>1, <2>2, <2>3 DEF Copy
<1>5. /\ dirty' \in [Browsers -> SUBSET Pages] /\ debounce' \in [Browsers -> BOOLEAN]
      /\ debounce'[b] /\ d \in dirty'[b]
      /\ \A e \in Browsers : /\ dirty[e] \subseteq dirty'[e]
                             /\ debounce[e] => debounce'[e]
  BY <1>1 DEF TypedTo
<1>6. \A p \in Pages : /\ globalData[p] \in 0 .. n
                       /\ \A e \in Browsers : data[e][p] \in 0 .. n
  BY DEF TypedTo, Copy
<1>7. TypedTo(n + 1)'
  BY <1>1, <1>2, <1>3, <1>4, <1>5 DEF TypedTo, serverVars, netVars
<1>8. Filed' /\ Loaded' /\ Heard'
  BY <1>1, <1>2 DEF Safe, Filed, Loaded, Heard, serverVars, netVars
<1>9. Deleted' /\ Listening'
  BY <1>1, <1>2 DEF Safe, Deleted, Listening, serverVars, netVars
<1>10. Asked'
  <2> SUFFICES ASSUME NEW e \in Browsers, NEW p \in Pages, Fine(p), asked[e] # Nothing
               PROVE  asked[e].pages[p] <= data'[e][p]
    BY <1>1, <1>2 DEF Asked
  <2>1. e # b /\ asked[e].pages[p] <= data[e][p]
    BY <1>1 DEF Safe, Asked
  <2> QED BY <1>4, <2>1
<1>11. EditsOffered'
  <2> SUFFICES ASSUME NEW e \in Browsers, NEW p \in Pages, ws[e] = "on", Fine(p),
                      data'[e][p] > globalData[p]
               PROVE  Offers(e, p)'
    BY <1>1, <1>2 DEF EditsOffered, serverVars
  <2>1. CASE e = b /\ p = d
    BY <1>5, <2>1 DEF Offers
  <2>2. CASE e # b \/ p # d
    <3>1. data'[e][p] = data[e][p] /\ Offers(e, p)
      BY <1>4, <2>2 DEF Safe, EditsOffered
    <3> QED BY <1>1, <1>5, <3>1 DEF Offers, netVars
  <2> QED BY <2>1, <2>2
<1>12. NewsAwaited'
  <2> SUFFICES ASSUME NEW e \in Browsers, NEW p \in Pages, e \notin missed', ws[e] = "on", Fine(p),
                      data'[e][p] < globalData[p]
               PROVE  Awaits(e, p)'
    BY <1>1, <1>2 DEF NewsAwaited, serverVars
  <2>1. data'[e][p] = data[e][p]
    BY <1>4, <1>6
  <2>2. Awaits(e, p)
    BY <1>1, <2>1 DEF Safe, NewsAwaited, netVars
  <2> QED BY <1>1, <2>2 DEF Awaits, serverVars, netVars
<1> QED BY <1>7, <1>8, <1>9, <1>10, <1>11, <1>12 DEF Safe

LEMMA SendDirtySays ==
    ASSUME NEW n \in Nat, TypedTo(n), NEW b \in Browsers, SendDirty(b)
    PROVE  /\ up' \in [Browsers -> Seq(Msgs(n))]
           /\ \A e \in Browsers : e # b => up'[e] = up[e]
           /\ Said(up'[b]) = Said(up[b]) \cup {Sync(Only(data[b], DirtyPages(b)))}
<1>1. data[b] \in Copy(n) /\ DirtyPages(b) \in SUBSET Pages
  BY DEF TypedTo, DirtyPages, Has
<1>2. Sync(Only(data[b], DirtyPages(b))) \in Msgs(n)
  BY <1>1, CopiesTyped, MsgsTyped
<1> QED BY <1>2, PushSays DEF SendDirty

\* What the timer has run for is sent, unless there is no connection.
LEMMA TriggerSyncKeeps ==
    ASSUME NEW n \in Nat, TypedTo(n), Safe, NEW b \in Browsers, TriggerSync(b)
    PROVE  TypedTo(n)' /\ Safe'
<1>1. /\ debounce' = [debounce EXCEPT ![b] = FALSE]
      /\ \/ CanSync(b) /\ SendDirty(b) /\ dirty' = [dirty EXCEPT ![b] = {}]
         \/ ~CanSync(b) /\ UNCHANGED <<up, dirty>>
      /\ UNCHANGED <<serverVars, data, ws, asked, conns, hello, missed, down, loader, fate, clock, troubles>>
  BY DEF TriggerSync
<1>2. DEFINE m == Sync(Only(data[b], DirtyPages(b)))
<1>3. /\ m.type = "sync"
      /\ \A p \in Pages : m.pages[p] = IF p \in DirtyPages(b) THEN data[b][p] ELSE 0
      /\ \A p \in Pages : m # Delete(p)
  BY DEF Sync, Only, Delete
<1>4. CanSync(b) => Said(up'[b]) = Said(up[b]) \cup {m}
  BY <1>1, SendDirtySays
<1> HIDE DEF m
<1>5. /\ up' \in [Browsers -> Seq(Msgs(n))]
      /\ \A e \in Browsers : (e # b \/ ~CanSync(b)) => up'[e] = up[e]
      /\ \A e \in Browsers : Said(up[e]) \subseteq Said(up'[e]) /\ Said(up'[e]) \subseteq Said(up[e]) \cup {m}
  <2>1. CASE CanSync(b)
    BY <1>1, <1>4, <2>1, SendDirtySays
  <2>2. CASE ~CanSync(b)
    BY <1>1, <2>2 DEF TypedTo
  <2> QED BY <2>1, <2>2
<1>6. /\ dirty' \in [Browsers -> SUBSET Pages] /\ debounce' \in [Browsers -> BOOLEAN]
      /\ \A e \in Browsers : e # b => dirty'[e] = dirty[e] /\ debounce'[e] = debounce[e]
  BY <1>1 DEF TypedTo
<1>7. TypedTo(n)'
  BY <1>1, <1>5, <1>6 DEF TypedTo, serverVars
<1>8. Filed' /\ Loaded' /\ Heard' /\ Asked'
  BY <1>1 DEF Safe, Filed, Loaded, Heard, Asked, Fine, serverVars
<1>9. Deleted' /\ Listening'
  BY <1>1, <1>3, <1>5 DEF Safe, Deleted, Listening, Fine
<1>10. EditsOffered'
  <2> SUFFICES ASSUME NEW e \in Browsers, NEW p \in Pages, ws[e] = "on", Fine(p),
                      data[e][p] > globalData[p]
               PROVE  Offers(e, p)'
    BY <1>1 DEF EditsOffered, Fine, serverVars
  <2>1. Offers(e, p)
    BY DEF Safe, EditsOffered
  <2>2. CASE \E k \in Said(up[e]) : k.type = "sync" /\ k.pages[p] >= data[e][p]
    BY <1>1, <1>5, <2>2 DEF Offers
  <2>3. CASE debounce[e] /\ p \in dirty[e]
    <3>1. CASE e # b
      BY <1>6, <2>3, <3>1 DEF Offers
    <3>2. CASE e = b
      <4>1. data[b][p] \in 0 .. n /\ globalData[p] \in 0 .. n
        BY DEF TypedTo, Copy
      <4>2. p \in DirtyPages(b)
        BY <2>3, <3>2, <4>1 DEF DirtyPages, Has
      <4>3. CanSync(b) /\ m \in Said(up'[b]) /\ m.pages[p] >= data[b][p]
        BY <1>3, <1>4, <3>2, <4>1, <4>2 DEF CanSync
      <4> QED BY <1>1, <1>3, <3>2, <4>3 DEF Offers
    <3> QED BY <3>1, <3>2
  <2> QED BY <2>1, <2>2, <2>3 DEF Offers
<1>11. NewsAwaited'
  BY <1>1, <1>5 DEF Safe, NewsAwaited, Awaits, Fine, serverVars
<1> QED BY <1>7, <1>8, <1>9, <1>10, <1>11 DEF Safe

LEMMA AskDeleteKeeps ==
    ASSUME NEW n \in Nat, TypedTo(n), Safe, NEW b \in Browsers, NEW d \in Pages, AskDelete(b, d)
    PROVE  TypedTo(n)' /\ Safe'
<1>1. /\ asked' = [asked EXCEPT ![b] = [type |-> "asked", id |-> d, pages |-> data[b]]]
      /\ Trouble
      /\ UNCHANGED <<serverVars, data, dirty, debounce, ws, netVars, loader, fate, clock>>
  BY DEF AskDelete
<1>2. /\ asked' \in [Browsers -> {Nothing} \cup [type : {"asked"}, id : Pages, pages : Copy(n)]]
      /\ asked'[b].pages = data[b] /\ \A e \in Browsers : e # b => asked'[e] = asked[e]
  <2>1. data[b] \in Copy(n)
    BY DEF TypedTo
  <2> QED BY <1>1, <2>1 DEF TypedTo
<1>3. troubles' \in 0 .. MaxTroubles
  BY <1>1, TroubleCounted DEF TypedTo
<1>4. TypedTo(n)'
  BY <1>1, <1>2, <1>3 DEF TypedTo, serverVars, netVars
<1>5. Asked'
  <2> SUFFICES ASSUME NEW e \in Browsers, NEW p \in Pages, Fine(p), asked'[e] # Nothing
               PROVE  asked'[e].pages[p] <= data[e][p]
    BY <1>1 DEF Asked, Fine
  <2>1. data[e][p] \in 0 .. n
    BY DEF TypedTo, Copy
  <2> QED BY <1>2, <2>1 DEF Safe, Asked
<1>6. Filed' /\ Loaded' /\ Heard' /\ Deleted' /\ Listening'
  BY <1>1 DEF Safe, Filed, Loaded, Heard, Deleted, Listening, Fine, serverVars, netVars
<1>7. EditsOffered' /\ NewsAwaited'
  BY <1>1 DEF Safe, EditsOffered, Offers, NewsAwaited, Awaits, Fine, serverVars, netVars
<1> QED BY <1>4, <1>5, <1>6, <1>7 DEF Safe

\* What the browser asked about is deleted; of the other pages those that are
\* older than the browser's are lost, and so what is not lost has not changed.
LEMMA ConfirmDeleteKeeps ==
    ASSUME NEW n \in Nat, clock = n, n >= 1, TypedTo(n), Safe, NEW b \in Browsers, ConfirmDelete(b)
    PROVE  TypedTo(n)' /\ Safe'
<1>1. PICK d \in Pages, c \in Copy(n) : asked[b].id = d /\ asked[b].pages = c
  BY DEF ConfirmDelete, TypedTo
<1>2. /\ asked[b] # Nothing
      /\ data' = [data EXCEPT ![b] = Without(c, d)]
      /\ up' = IF ws[b] = "on" THEN [up EXCEPT ![b] = Append(@, Delete(d))] ELSE up
      /\ fate' = [p \in Pages |-> IF data'[b][p] < [data[b] EXCEPT ![d] = clock][p] THEN "lost" ELSE fate[p]]
      /\ asked' = [asked EXCEPT ![b] = Nothing]
      /\ UNCHANGED <<serverVars, dirty, debounce, ws, conns, hello, missed, down, loader, clock, troubles>>
  BY <1>1 DEF ConfirmDelete, Replaces
<1>3. /\ data \in [Browsers -> Copy(n)] /\ data[b] \in Copy(n)
      /\ \A p \in Pages : data[b][p] \in 0 .. n /\ c[p] \in 0 .. n
  BY DEF TypedTo, Copy
<1>4. /\ data' \in [Browsers -> Copy(n)] /\ data'[b] = Without(c, d)
      /\ \A e \in Browsers : e # b => data'[e] = data[e]
  <2>1. Without(c, d) \in Copy(n)
    BY CopiesTyped
  <2> QED BY <1>2, <1>3, <2>1
<1>5. data'[b][d] = 0 /\ \A p \in Pages : p # d => data'[b][p] = c[p]
  BY <1>4 DEF Without, Copy
<1>6. fate'[d] = "lost"
  <2>1. [data[b] EXCEPT ![d] = clock][d] = n
    BY <1>3 DEF Copy
  <2> QED BY <1>2, <1>5, <2>1
<1>7. \A p \in Pages : Fine(p)' =>
          /\ p # d /\ Fine(p)
          /\ \A e \in Browsers : data'[e][p] = data[e][p]
  <2> SUFFICES ASSUME NEW p \in Pages, Fine(p)'
               PROVE  p # d /\ Fine(p) /\ data'[b][p] = data[b][p]
    BY <1>4
  <2>1. p # d
    BY <1>6 DEF Fine
  <2>2. [data[b] EXCEPT ![d] = clock][p] = data[b][p]
    BY <1>3, <2>1 DEF Copy
  <2>3. Fine(p) /\ ~ (data'[b][p] < data[b][p])
    BY <1>2, <2>2 DEF Fine
  <2>4. c[p] <= data[b][p]
    BY <1>1, <1>2, <2>3 DEF Safe, Asked
  <2> QED BY <1>3, <1>5, <2>1, <2>3, <2>4
<1>8. fate' \in [Pages -> {"unborn", "born", "lost"}]
  BY <1>2 DEF TypedTo
<1>9. /\ up' \in [Browsers -> Seq(Msgs(n))]
      /\ \A e \in Browsers : /\ Said(up[e]) \subseteq Said(up'[e])
                             /\ Said(up'[e]) \subseteq Said(up[e]) \cup {Delete(d)}
  <2>1. CASE ws[b] = "on"
    <3>1. Delete(d) \in Msgs(n) /\ up' = [up EXCEPT ![b] = Append(@, Delete(d))]
      BY <1>2, <2>1, MsgsTyped
    <3> QED BY <3>1, PushSays
  <2>2. CASE ws[b] # "on"
    BY <1>2, <2>2 DEF TypedTo
  <2> QED BY <2>1, <2>2
<1>10. \A p \in Pages : Delete(p) = Delete(d) => p = d
  BY DEF Delete
<1>11. /\ asked' \in [Browsers -> {Nothing} \cup [type : {"asked"}, id : Pages, pages : Copy(n)]]
       /\ asked'[b] = Nothing /\ \A e \in Browsers : e # b => asked'[e] = asked[e]
  BY <1>2 DEF TypedTo
<1>12. TypedTo(n)'
  BY <1>2, <1>4, <1>8, <1>9, <1>11 DEF TypedTo, serverVars
<1>13. Filed' /\ Loaded' /\ Heard' /\ Listening'
  BY <1>2, <1>7, <1>9 DEF Safe, Filed, Loaded, Heard, Listening, serverVars
<1>14. Asked'
  BY <1>7, <1>11 DEF Safe, Asked
<1>15. Deleted'
  BY <1>2, <1>7, <1>9, <1>10 DEF Safe, Deleted
<1>16. EditsOffered'
  <2> SUFFICES ASSUME NEW e \in Browsers, NEW p \in Pages, ws[e] = "on", Fine(p)',
                      data'[e][p] > globalData[p]
               PROVE  Offers(e, p)'
    BY <1>2 DEF EditsOffered, serverVars
  <2>1. data'[e][p] = data[e][p] /\ Offers(e, p)
    BY <1>7 DEF Safe, EditsOffered
  <2> QED BY <1>2, <1>9, <2>1 DEF Offers
<1>17. NewsAwaited'
  <2> SUFFICES ASSUME NEW e \in Browsers, NEW p \in Pages, e \notin missed', ws[e] = "on", Fine(p)',
                      data'[e][p] < globalData[p]
               PROVE  Awaits(e, p)'
    BY <1>2 DEF NewsAwaited, serverVars
  <2>1. Awaits(e, p)
    BY <1>2, <1>7 DEF Safe, NewsAwaited
  <2> QED BY <1>2, <1>9, <2>1 DEF Awaits, serverVars
<1> QED BY <1>12, <1>13, <1>14, <1>15, <1>16, <1>17 DEF Safe

LEMMA CloseTabKeeps ==
    ASSUME NEW n \in Nat, TypedTo(n), Safe, NEW b \in Browsers, CloseTab(b)
    PROVE  TypedTo(n)' /\ Safe'
<1>1. /\ (CanSync(b) /\ SendDirty(b)) \/ UNCHANGED up
      /\ Trouble
      /\ ws' = [ws EXCEPT ![b] = "gone"] /\ down' = [down EXCEPT ![b] = <<>>]
      /\ dirty' = [dirty EXCEPT ![b] = {}] /\ debounce' = [debounce EXCEPT ![b] = FALSE]
      /\ asked' = [asked EXCEPT ![b] = Nothing]
      /\ UNCHANGED <<serverVars, data, conns, hello, missed, loader, fate, clock>>
  BY DEF CloseTab
<1>2. /\ up' \in [Browsers -> Seq(Msgs(n))]
      /\ \A e \in Browsers : e # b => up'[e] = up[e]
      /\ Said(up'[b]) \subseteq Said(up[b]) \cup {Sync(Only(data[b], DirtyPages(b)))}
  <2>1. CASE SendDirty(b)
    BY <2>1, SendDirtySays
  <2>2. CASE UNCHANGED up
    BY <2>2 DEF TypedTo
  <2> QED BY <1>1, <2>1, <2>2
<1>3. <<>> \in Seq(Msgs(n)) /\ Said(<<>>) = {}
  BY EmptySeq DEF Said
<1>4. /\ down' \in [Browsers -> Seq(Msgs(n))] /\ Said(down'[b]) = {}
      /\ ws' \in [Browsers -> {"gone", "off", "on"}] /\ ws'[b] = "gone"
      /\ \A e \in Browsers : e # b => /\ down'[e] = down[e] /\ ws'[e] = ws[e]
                                      /\ dirty'[e] = dirty[e] /\ debounce'[e] = debounce[e]
  BY <1>1, <1>3 DEF TypedTo
<1>5. /\ dirty' \in [Browsers -> SUBSET Pages] /\ debounce' \in [Browsers -> BOOLEAN]
      /\ asked' \in [Browsers -> {Nothing} \cup [type : {"asked"}, id : Pages, pages : Copy(n)]]
      /\ asked'[b] = Nothing /\ \A e \in Browsers : e # b => asked'[e] = asked[e]
  BY <1>1 DEF TypedTo
<1>6. troubles' \in 0 .. MaxTroubles
  BY <1>1, TroubleCounted DEF TypedTo
<1>7. TypedTo(n)'
  BY <1>1, <1>2, <1>4, <1>5, <1>6 DEF TypedTo, serverVars
<1>8. Filed' /\ Loaded' /\ Asked'
  BY <1>1, <1>5 DEF Safe, Filed, Loaded, Asked, Fine, serverVars
<1>9. Heard'
  BY <1>1, <1>4 DEF Safe, Heard, Fine, serverVars
<1>10. Deleted'
  <2>1. \A p \in Pages : Delete(p) # Sync(Only(data[b], DirtyPages(b)))
    BY DEF Delete, Sync
  <2> QED BY <1>1, <1>2, <1>4, <2>1 DEF Safe, Deleted, Fine
<1>11. Listening'
  BY <1>1, <1>2, <1>4 DEF Safe, Listening
<1>12. EditsOffered'
  BY <1>1, <1>2, <1>4 DEF Safe, EditsOffered, Offers, Fine, serverVars
<1>13. NewsAwaited'
  BY <1>1, <1>2, <1>4 DEF Safe, NewsAwaited, Awaits, Fine, serverVars
<1> QED BY <1>7, <1>8, <1>9, <1>10, <1>11, <1>12, <1>13 DEF Safe

LEMMA DisconnectKeeps ==
    ASSUME NEW n \in Nat, TypedTo(n), Safe, NEW b \in Browsers, Disconnect(b)
    PROVE  TypedTo(n)' /\ Safe'
<1>1. /\ ws' = [ws EXCEPT ![b] = "off"] /\ down' = [down EXCEPT ![b] = <<>>] /\ Trouble
      /\ UNCHANGED <<serverVars, data, dirty, debounce, asked, conns, hello, missed, up, loader, fate, clock>>
  BY DEF Disconnect
<1>2. <<>> \in Seq(Msgs(n)) /\ Said(<<>>) = {}
  BY EmptySeq DEF Said
<1>3. /\ down' \in [Browsers -> Seq(Msgs(n))] /\ Said(down'[b]) = {}
      /\ ws' \in [Browsers -> {"gone", "off", "on"}] /\ ws'[b] = "off"
      /\ \A e \in Browsers : e # b => down'[e] = down[e] /\ ws'[e] = ws[e]
  BY <1>1, <1>2 DEF TypedTo
<1>4. troubles' \in 0 .. MaxTroubles
  BY <1>1, TroubleCounted DEF TypedTo
<1>5. TypedTo(n)'
  BY <1>1, <1>3, <1>4 DEF TypedTo, serverVars
<1>6. Filed' /\ Loaded' /\ Asked'
  BY <1>1 DEF Safe, Filed, Loaded, Asked, Fine, serverVars
<1>7. Heard' /\ Deleted'
  BY <1>1, <1>3 DEF Safe, Heard, Deleted, Fine, serverVars
<1>8. Listening'
  BY <1>1, <1>3 DEF Safe, Listening
<1>9. EditsOffered'
  BY <1>1, <1>3 DEF Safe, EditsOffered, Offers, Fine, serverVars
<1>10. NewsAwaited'
  BY <1>1, <1>3 DEF Safe, NewsAwaited, Awaits, Fine, serverVars
<1> QED BY <1>5, <1>6, <1>7, <1>8, <1>9, <1>10 DEF Safe

-----------------------------------------------------------------------------
(* The server stops and starts; all pages are replaced.                    *)

LEMMA IdleTyped ==
    ASSUME NEW n \in Nat
    PROVE  /\ Idle \in [at : {"idle", "copied", "upserted", "read", "set"},
                        pages : Copy(n), removed : SUBSET Pages]
           /\ Idle.at = "idle"
<1>1. Empty \in Copy(n)
  <2>1. 0 \in 0 .. n
    OBVIOUS
  <2> QED BY <2>1 DEF Empty, Copy
<1> QED BY <1>1 DEF Idle

\* A server that starts has no connections: nothing is on its way.
LEMMA StartKeeps ==
    ASSUME NEW n \in Nat, TypedTo(n), Safe, NEW pages \in Copy(n), Start(pages),
           file' = pages, fate' \in [Pages -> {"unborn", "born", "lost"}],
           \A p \in Pages : Fine(p)' => Fine(p),
           troubles' \in 0 .. MaxTroubles
    PROVE  TypedTo(n)' /\ Safe'
<1>1. /\ globalData' = pages
      /\ conns' = {} /\ hello' = [b \in Browsers |-> Nothing]
      /\ up' = [b \in Browsers |-> <<>>] /\ down' = [b \in Browsers |-> <<>>]
      /\ ws' = [b \in Browsers |-> IF ws[b] = "on" THEN "off" ELSE ws[b]]
      /\ loader' = [l \in Loaders |-> Idle]
      /\ UNCHANGED <<data, dirty, debounce, asked>>
  BY DEF Start
<1>2. <<>> \in Seq(Msgs(n)) /\ Said(<<>>) = {}
  BY EmptySeq DEF Said
<1>3. ws' \in [Browsers -> {"gone", "off", "on"}] /\ \A b \in Browsers : ws'[b] # "on"
  BY <1>1 DEF TypedTo
<1>4. TypedTo(n)'
  BY <1>1, <1>2, <1>3, IdleTyped DEF TypedTo
<1>5. Filed' /\ Loaded'
  BY <1>1, IdleTyped DEF Filed, Loaded
<1>6. Heard' /\ Deleted'
  BY <1>1, <1>2 DEF Heard, Deleted, Nothing
<1>7. Asked'
  BY <1>1 DEF Safe, Asked
<1>8. Listening' /\ EditsOffered' /\ NewsAwaited'
  BY <1>3 DEF Listening, EditsOffered, NewsAwaited
<1> QED BY <1>4, <1>5, <1>6, <1>7, <1>8 DEF Safe

LEMMA RestartKeeps ==
    ASSUME NEW n \in Nat, TypedTo(n), Safe, Restart
    PROVE  TypedTo(n)' /\ Safe'
<1>1. file \in Copy(n) /\ Start(file) /\ file' = file /\ UNCHANGED fate /\ Trouble
  BY DEF Restart, TypedTo
<1>2. /\ fate' \in [Pages -> {"unborn", "born", "lost"}] /\ troubles' \in 0 .. MaxTroubles
      /\ \A p \in Pages : Fine(p)' => Fine(p)
  BY <1>1, TroubleCounted DEF TypedTo, Fine
<1> QED BY <1>1, <1>2, StartKeeps

LEMMA RestartEmptyKeeps ==
    ASSUME NEW n \in Nat, clock = n, TypedTo(n), Safe, NEW d \in Pages, RestartEmpty(d)
    PROVE  TypedTo(n + 1)' /\ Safe'
<1>1. PICK pages : pages = [Empty EXCEPT ![d] = n + 1]
  OBVIOUS
<1>2. pages \in Copy(n + 1) /\ n + 1 \in Nat
  <2>1. PICK T : T = 0 .. n + 1
    OBVIOUS
  <2>2. 0 \in T /\ n + 1 \in T
    BY <2>1
  <2>3. [[p \in Pages |-> 0] EXCEPT ![d] = n + 1] \in [Pages -> T]
    BY <2>2
  <2> QED BY <1>1, <2>1, <2>3 DEF Empty, Copy
<1>3. Start(pages) /\ file' = pages /\ troubles' = troubles /\ fate' = [fate EXCEPT ![d] = "born"] /\ fate[d] = "unborn"
  BY <1>1 DEF RestartEmpty, Start
<1>4. TypedTo(n + 1)
  BY TypedGrows
<1>5. /\ fate' \in [Pages -> {"unborn", "born", "lost"}] /\ troubles' \in 0 .. MaxTroubles
      /\ \A p \in Pages : Fine(p)' => Fine(p)
  BY <1>3, <1>4 DEF TypedTo, Fine
<1> QED BY <1>2, <1>3, <1>4, <1>5, StartKeeps

LEMMA LoaderMoves ==
    ASSUME NEW n \in Nat, TypedTo(n), NEW l \in Loaders, NEW from, NEW next, LoaderAt(l, from, next),
           next \in [at : {"idle", "copied", "upserted", "read", "set"}, pages : Copy(n), removed : SUBSET Pages]
    PROVE  /\ loader' \in [Loaders -> [at : {"idle", "copied", "upserted", "read", "set"},
                                       pages : Copy(n), removed : SUBSET Pages]]
           /\ loader[l].at = from /\ loader'[l] = next
           /\ \A k \in Loaders : k # l => loader'[k] = loader[k]
           /\ UNCHANGED <<jammed, browserVars, conns, hello, missed, up>>
BY DEF LoaderAt, TypedTo

LEMMA SyncCopiesKeeps ==
    ASSUME NEW n \in Nat, clock = n, TypedTo(n), Safe, NEW d \in Pages, SyncCopies(d)
    PROVE  TypedTo(n + 1)' /\ Safe'
<1>1. PICK next \in [at : {"copied"}, pages : Copy(n + 1), removed : SUBSET Pages] :
          LoaderAt("sync", "idle", next)
  <2>1. PICK T : T = 0 .. n + 1
    OBVIOUS
  <2>2. 0 \in T /\ n + 1 \in T
    BY <2>1
  <2>3. [p \in Pages |-> 0] \in [Pages -> T] /\ [[p \in Pages |-> 0] EXCEPT ![d] = n + 1] \in [Pages -> T]
    BY <2>2
  <2>4. Empty \in Copy(n + 1) /\ [Empty EXCEPT ![d] = n + 1] \in Copy(n + 1)
    BY <2>1, <2>3 DEF Empty, Copy
  <2>5. clock' = n + 1
    BY DEF SyncCopies
  <2>6. \/ LoaderAt("sync", "idle", [at |-> "copied", pages |-> [Empty EXCEPT ![d] = clock'], removed |-> {}])
        \/ LoaderAt("sync", "idle", [at |-> "copied", pages |-> Empty, removed |-> {d}])
    BY DEF SyncCopies
  <2> QED BY <2>4, <2>5, <2>6
<1>2. /\ Trouble /\ UNCHANGED <<globalData, file, down, fate>>
  BY DEF SyncCopies
<1>3. TypedTo(n + 1) /\ n + 1 \in Nat
  BY TypedGrows
<1>4. /\ loader' \in [Loaders -> [at : {"idle", "copied", "upserted", "read", "set"},
                                  pages : Copy(n + 1), removed : SUBSET Pages]]
      /\ loader["sync"].at = "idle" /\ loader'["sync"].at = "copied"
      /\ \A k \in Loaders : k # "sync" => loader'[k] = loader[k]
      /\ UNCHANGED <<jammed, browserVars, conns, hello, missed, up>>
  <2>1. /\ "sync" \in Loaders
        /\ next \in [at : {"idle", "copied", "upserted", "read", "set"}, pages : Copy(n + 1), removed : SUBSET Pages]
    BY DEF Loaders
  <2> QED BY <1>1, <1>3, <2>1, LoaderMoves
<1>5. troubles' \in 0 .. MaxTroubles
  BY <1>2, TroubleCounted DEF TypedTo
<1>6. TypedTo(n + 1)'
  BY <1>2, <1>3, <1>4, <1>5 DEF TypedTo, serverVars, browserVars
<1>7. Filed' /\ Heard' /\ Deleted' /\ Asked' /\ Listening'
  BY <1>2, <1>4 DEF Safe, Filed, Heard, Deleted, Asked, Listening, Fine, serverVars, browserVars
<1>8. Loaded'
  <2> SUFFICES ASSUME NEW p \in Pages, NEW l \in Loaders, Fine(p), loader'[l].at \in {"read", "set"}
               PROVE  loader'[l].pages[p] <= globalData[p]
    BY <1>2 DEF Loaded, Fine, serverVars
  <2>1. l # "sync"
    BY <1>4
  <2> QED BY <1>4, <2>1 DEF Safe, Loaded
<1>9. EditsOffered'
  BY <1>2, <1>4 DEF Safe, EditsOffered, Offers, Fine, serverVars, browserVars
<1>10. NewsAwaited'
  <2> SUFFICES ASSUME NEW e \in Browsers, NEW p \in Pages, e \notin missed', ws[e] = "on", Fine(p),
                      data[e][p] < globalData[p]
               PROVE  Awaits(e, p)'
    BY <1>2, <1>4 DEF NewsAwaited, Fine, serverVars, browserVars
  <2>1. Awaits(e, p)
    BY <1>4 DEF Safe, NewsAwaited
  <2>2. \A l \in Loaders : loader[l].at \in {"read", "set"} => loader'[l] = loader[l]
    BY <1>4
  <2> QED BY <1>2, <1>4, <2>1, <2>2 DEF Awaits, serverVars, browserVars
<1> QED BY <1>6, <1>7, <1>8, <1>9, <1>10 DEF Safe

\* What a synchronisation found takes the place of what is there: a page that
\* is not lost is not older than it was.
LEMMA UpsertPagesKeeps ==
    ASSUME NEW n \in Nat, TypedTo(n), Safe, UpsertPages
    PROVE  TypedTo(n)' /\ Safe'
<1>1. PICK c \in Copy(n), removed \in SUBSET Pages :
          loader["sync"].pages = c /\ loader["sync"].removed = removed
  BY DEF TypedTo, Loaders
<1>2. /\ globalData' = [p \in Pages |-> IF p \in removed THEN 0 ELSE IF c[p] # 0 THEN c[p] ELSE globalData[p]]
      /\ fate' = [p \in Pages |-> IF globalData'[p] < globalData[p] THEN "lost" ELSE fate[p]]
      /\ file' = globalData'
      /\ UNCHANGED <<down, clock, troubles>>
  BY <1>1 DEF UpsertPages, Replaces
<1>3. /\ loader' \in [Loaders -> [at : {"idle", "copied", "upserted", "read", "set"},
                                  pages : Copy(n), removed : SUBSET Pages]]
      /\ loader["sync"].at = "copied" /\ loader'["sync"].at = "upserted"
      /\ \A k \in Loaders : k # "sync" => loader'[k] = loader[k]
      /\ UNCHANGED <<jammed, browserVars, conns, hello, missed, up>>
  <2>1. LoaderAt("sync", "copied", [Idle EXCEPT !.at = "upserted"]) /\ "sync" \in Loaders
    BY DEF UpsertPages, Loaders
  <2>2. PICK next : next = [Idle EXCEPT !.at = "upserted"]
    OBVIOUS
  <2>3. /\ next \in [at : {"idle", "copied", "upserted", "read", "set"}, pages : Copy(n), removed : SUBSET Pages]
        /\ next.at = "upserted"
    BY <2>2, IdleTyped
  <2> QED BY <2>1, <2>2, <2>3, LoaderMoves
<1>4. \A p \in Pages : globalData[p] \in 0 .. n /\ c[p] \in 0 .. n
  BY DEF TypedTo, Copy
<1>5. /\ globalData' \in Copy(n)
      /\ fate' \in [Pages -> {"unborn", "born", "lost"}]
  <2>1. \A p \in Pages : globalData'[p] \in 0 .. n
    BY <1>2, <1>4
  <2>2. globalData' \in [Pages -> 0 .. n]
    BY <1>2, <2>1
  <2> QED BY <1>2, <2>2 DEF Copy, TypedTo
<1>6. \A p \in Pages : globalData'[p] \in 0 .. n /\ (Fine(p)' => Fine(p) /\ globalData'[p] >= globalData[p])
  <2>1. \A p \in Pages : globalData'[p] \in 0 .. n
    BY <1>5 DEF Copy
  <2> QED BY <1>2, <1>4, <2>1 DEF Fine
<1>7. TypedTo(n)'
  BY <1>2, <1>3, <1>5 DEF TypedTo, browserVars
<1>8. Filed' /\ Deleted' /\ Asked' /\ Listening'
  BY <1>2, <1>3, <1>6 DEF Safe, Filed, Deleted, Asked, Listening, browserVars
<1>9. Loaded'
  <2> SUFFICES ASSUME NEW p \in Pages, NEW l \in Loaders, Fine(p)', loader'[l].at \in {"read", "set"}
               PROVE  loader'[l].pages[p] <= globalData'[p]
    BY DEF Loaded
  <2>1. l # "sync"
    BY <1>3
  <2>2. loader[l].pages[p] <= globalData[p] /\ loader[l].pages[p] \in 0 .. n /\ loader'[l] = loader[l]
    <3>1. loader[l].pages \in Copy(n)
      BY DEF TypedTo
    <3> QED BY <1>3, <1>6, <2>1, <3>1 DEF Safe, Loaded, Copy
  <2> QED BY <1>4, <1>6, <2>2
<1>10. Heard'
  <2> SUFFICES ASSUME NEW e \in Browsers, NEW p \in Pages, Fine(p)'
               PROVE  /\ \A m \in Said(down[e]) : m.type \in {"sync", "force_sync"} => m.pages[p] <= globalData'[p]
                      /\ hello[e].type = "sync" => hello[e].pages[p] <= globalData'[p]
    BY <1>2, <1>3 DEF Heard
  <2>1. Fine(p) /\ globalData'[p] >= globalData[p]
    BY <1>6
  <2>2. \A m \in Said(down[e]) : m.type \in {"sync", "force_sync"} => m.pages[p] <= globalData[p] /\ m.pages[p] \in 0 .. n
    <3>1. Said(down[e]) \subseteq Msgs(n)
      BY SaidTyped DEF TypedTo
    <3> QED BY <2>1, <3>1, MsgsTyped DEF Safe, Heard, Copy
  <2>3. hello[e].type = "sync" => hello[e].pages[p] <= globalData[p] /\ hello[e].pages[p] \in 0 .. n
    <3>1. hello[e].type = "sync" => hello[e].pages \in Copy(n)
      BY DEF TypedTo, Nothing
    <3> QED BY <2>1, <3>1 DEF Safe, Heard, Copy
  <2> QED BY <1>4, <1>6, <2>1, <2>2, <2>3
<1>11. EditsOffered'
  <2> SUFFICES ASSUME NEW e \in Browsers, NEW p \in Pages, ws[e] = "on", Fine(p)',
                      data[e][p] > globalData'[p]
               PROVE  Offers(e, p)'
    BY <1>3 DEF EditsOffered, browserVars
  <2>1. data[e][p] \in 0 .. n
    BY DEF TypedTo, Copy
  <2>2. Fine(p) /\ data[e][p] > globalData[p]
    BY <1>4, <1>6, <2>1
  <2>3. Offers(e, p)
    BY <2>2 DEF Safe, EditsOffered
  <2> QED BY <1>3, <2>3 DEF Offers, browserVars
<1>12. NewsAwaited'
  BY <1>3 DEF NewsAwaited, Awaits
<1> QED BY <1>7, <1>8, <1>9, <1>10, <1>11, <1>12 DEF Safe

\* The file that is read is up to date: it answers what the upsert has promised.
LEMMA ReloadReadsKeeps ==
    ASSUME NEW n \in Nat, TypedTo(n), Safe, NEW l \in Loaders, ReloadReads(l)
    PROVE  TypedTo(n)' /\ Safe'
<1>1. PICK from \in {"upserted", "idle"} : LoaderAt(l, from, Reading) /\ troubles' \in 0 .. MaxTroubles
      /\ (from = "upserted" => l = "sync")
  <2>1. CASE l = "sync" /\ LoaderAt(l, "upserted", Reading) /\ UNCHANGED troubles
    BY <2>1 DEF TypedTo
  <2>2. CASE l = "request" /\ LoaderAt(l, "idle", Reading) /\ Trouble
    BY <2>2, TroubleCounted DEF TypedTo
  <2> QED BY <2>1, <2>2 DEF ReloadReads
<1>2. UNCHANGED <<globalData, file, down, fate, clock>>
  BY DEF ReloadReads
<1>3. /\ Reading \in [at : {"idle", "copied", "upserted", "read", "set"}, pages : Copy(n), removed : SUBSET Pages]
      /\ Has(file) # {} => Reading.at = "read" /\ Reading.pages = file
      /\ Has(file) = {} => Reading.at = "idle"
  <2>1. file \in Copy(n)
    BY DEF TypedTo
  <2>2. Idle.at = "idle" /\ Idle \in [at : {"idle", "copied", "upserted", "read", "set"}, pages : Copy(n), removed : SUBSET Pages]
    BY IdleTyped
  <2>3. PICK r : r = [Idle EXCEPT !.at = "read", !.pages = file]
    OBVIOUS
  <2>4. /\ r \in [at : {"idle", "copied", "upserted", "read", "set"}, pages : Copy(n), removed : SUBSET Pages]
        /\ r.at = "read" /\ r.pages = file
    BY <2>1, <2>2, <2>3
  <2> QED BY <2>2, <2>3, <2>4 DEF Reading
<1>4. /\ loader' \in [Loaders -> [at : {"idle", "copied", "upserted", "read", "set"},
                                  pages : Copy(n), removed : SUBSET Pages]]
      /\ loader[l].at = from /\ loader'[l] = Reading
      /\ \A k \in Loaders : k # l => loader'[k] = loader[k]
      /\ UNCHANGED <<jammed, browserVars, conns, hello, missed, up>>
  BY <1>1, <1>3, LoaderMoves
<1>5. \A p \in Pages : globalData[p] \in 0 .. n /\ (Fine(p) => file[p] = globalData[p])
  BY DEF TypedTo, Copy, Safe, Filed
<1>6. TypedTo(n)'
  BY <1>1, <1>2, <1>4 DEF TypedTo, serverVars, browserVars
<1>7. Filed' /\ Heard' /\ Deleted' /\ Asked' /\ Listening'
  BY <1>2, <1>4 DEF Safe, Filed, Heard, Deleted, Asked, Listening, Fine, serverVars, browserVars
<1>8. Loaded'
  <2> SUFFICES ASSUME NEW p \in Pages, NEW k \in Loaders, Fine(p), loader'[k].at \in {"read", "set"}
               PROVE  loader'[k].pages[p] <= globalData[p]
    BY <1>2 DEF Loaded, Fine, serverVars
  <2>1. CASE k # l
    BY <1>4, <2>1 DEF Safe, Loaded
  <2>2. CASE k = l
    BY <1>3, <1>4, <1>5, <2>2
  <2> QED BY <2>1, <2>2
<1>9. EditsOffered'
  BY <1>2, <1>4 DEF Safe, EditsOffered, Offers, Fine, serverVars, browserVars
<1>10. NewsAwaited'
  <2> SUFFICES ASSUME NEW e \in Browsers, NEW p \in Pages, e \notin missed', ws[e] = "on", Fine(p),
                      data[e][p] < globalData[p]
               PROVE  Awaits(e, p)'
    BY <1>2, <1>4 DEF NewsAwaited, Fine, serverVars, browserVars
  <2>1. data[e][p] \in 0 .. n
    BY DEF TypedTo, Copy
  <2>2. p \in Has(file)
    BY <1>5, <2>1 DEF Has
  <2>3. loader'[l].at \in {"read", "set"} /\ loader'[l].pages[p] >= globalData'[p]
    BY <1>2, <1>3, <1>4, <1>5, <2>2 DEF serverVars
  <2> QED BY <2>3 DEF Awaits
<1> QED BY <1>6, <1>7, <1>8, <1>9, <1>10 DEF Safe

\* What was read takes the place of what is there by now: a page that is not
\* lost is as it was.
LEMMA ReloadSetsKeeps ==
    ASSUME NEW n \in Nat, TypedTo(n), Safe, NEW l \in Loaders, ReloadSets(l)
    PROVE  TypedTo(n)' /\ Safe'
<1>1. /\ loader[l].at = "read" /\ LoaderAt(l, "read", [loader[l] EXCEPT !.at = "set"])
      /\ globalData' = loader[l].pages
      /\ fate' = [p \in Pages |-> IF globalData'[p] < globalData[p] THEN "lost" ELSE fate[p]]
      /\ UNCHANGED <<file, down, clock, troubles>>
  BY DEF ReloadSets, LoaderAt, Replaces
<1>2. PICK next : next = [loader[l] EXCEPT !.at = "set"]
  OBVIOUS
<1>3. /\ next \in [at : {"idle", "copied", "upserted", "read", "set"}, pages : Copy(n), removed : SUBSET Pages]
      /\ next.at = "set" /\ next.pages = loader[l].pages
  BY <1>2 DEF TypedTo
<1>4. /\ loader' \in [Loaders -> [at : {"idle", "copied", "upserted", "read", "set"},
                                  pages : Copy(n), removed : SUBSET Pages]]
      /\ loader'[l] = next
      /\ \A k \in Loaders : k # l => loader'[k] = loader[k]
      /\ UNCHANGED <<jammed, browserVars, conns, hello, missed, up>>
  <2>1. LoaderAt(l, "read", next)
    BY <1>1, <1>2
  <2> QED BY <1>3, <2>1, LoaderMoves
<1>5. /\ globalData' \in Copy(n)
      /\ \A p \in Pages : globalData[p] \in 0 .. n /\ globalData'[p] \in 0 .. n
  BY <1>1, <1>3 DEF TypedTo, Copy
<1>6. \A p \in Pages : Fine(p)' => Fine(p) /\ globalData'[p] = globalData[p]
  <2> SUFFICES ASSUME NEW p \in Pages, Fine(p)' PROVE Fine(p) /\ globalData'[p] = globalData[p]
    OBVIOUS
  <2>1. Fine(p) /\ ~ (globalData'[p] < globalData[p])
    BY <1>1 DEF Fine
  <2>2. globalData'[p] <= globalData[p]
    BY <1>1, <2>1 DEF Safe, Loaded
  <2> QED BY <1>5, <2>1, <2>2
<1>7. fate' \in [Pages -> {"unborn", "born", "lost"}]
  BY <1>1 DEF TypedTo
<1>8. TypedTo(n)'
  BY <1>1, <1>4, <1>5, <1>7 DEF TypedTo, browserVars
<1>9. Filed' /\ Heard' /\ Deleted' /\ Asked' /\ Listening'
  BY <1>1, <1>4, <1>6 DEF Safe, Filed, Heard, Deleted, Asked, Listening, browserVars
<1>10. \A k \in Loaders : loader[k].at \in {"read", "set"} =>
           loader'[k].at \in {"read", "set"} /\ loader'[k].pages = loader[k].pages
  BY <1>3, <1>4
<1>11. Loaded'
  <2> SUFFICES ASSUME NEW p \in Pages, NEW k \in Loaders, Fine(p)', loader'[k].at \in {"read", "set"}
               PROVE  loader'[k].pages[p] <= globalData'[p]
    BY DEF Loaded
  <2>1. loader[k].at \in {"read", "set"} /\ loader'[k].pages = loader[k].pages
    BY <1>1, <1>3, <1>4
  <2> QED BY <1>6, <2>1 DEF Safe, Loaded
<1>12. EditsOffered'
  <2> SUFFICES ASSUME NEW e \in Browsers, NEW p \in Pages, ws[e] = "on", Fine(p)',
                      data[e][p] > globalData'[p]
               PROVE  Offers(e, p)'
    BY <1>4 DEF EditsOffered, browserVars
  <2>1. Offers(e, p)
    BY <1>6 DEF Safe, EditsOffered
  <2> QED BY <1>4, <2>1 DEF Offers, browserVars
<1>13. NewsAwaited'
  <2> SUFFICES ASSUME NEW e \in Browsers, NEW p \in Pages, e \notin missed', ws[e] = "on", Fine(p)',
                      data[e][p] < globalData'[p]
               PROVE  Awaits(e, p)'
    BY <1>4 DEF NewsAwaited, browserVars
  <2>1. Awaits(e, p) /\ globalData'[p] = globalData[p]
    BY <1>4, <1>6 DEF Safe, NewsAwaited
  <2>2. loader["sync"].at = "upserted" => loader'["sync"].at = "upserted"
    BY <1>1, <1>4 DEF Loaders
  <2> QED BY <1>1, <1>4, <1>10, <2>1, <2>2 DEF Awaits, browserVars
<1> QED BY <1>8, <1>9, <1>11, <1>12, <1>13 DEF Safe

\* All who are connected are told; who is not yet asks for all.
LEMMA ReloadSendsKeeps ==
    ASSUME NEW n \in Nat, TypedTo(n), Safe, NEW l \in Loaders, ReloadSends(l)
    PROVE  TypedTo(n)' /\ Safe'
<1>1. PICK c \in Copy(n) : c = loader[l].pages
  BY DEF TypedTo
<1>2. /\ LoaderAt(l, "set", Idle) /\ Send(ForceSync(c), conns)
      /\ UNCHANGED <<globalData, file, fate, clock, troubles>>
  BY <1>1 DEF ReloadSends
<1>3. /\ loader' \in [Loaders -> [at : {"idle", "copied", "upserted", "read", "set"},
                                  pages : Copy(n), removed : SUBSET Pages]]
      /\ loader[l].at = "set" /\ loader'[l].at = "idle"
      /\ \A k \in Loaders : k # l => loader'[k] = loader[k]
      /\ UNCHANGED <<jammed, browserVars, conns, hello, missed, up>>
  BY <1>2, IdleTyped, LoaderMoves
<1>4. PICK m \in Msgs(n) : m = ForceSync(c)
  BY MsgsTyped
<1>5. m.type = "force_sync" /\ m.pages = c /\ \A p \in Pages : m # Delete(p)
  BY <1>4 DEF ForceSync, Delete
<1>6. /\ down' \in [Browsers -> Seq(Msgs(n))]
      /\ \A e \in Browsers :
            Said(down'[e]) = IF e \in conns /\ ws[e] = "on" THEN Said(down[e]) \cup {m} ELSE Said(down[e])
  BY <1>2, <1>4, SendSays
<1>7. \A p \in Pages : Fine(p) => c[p] <= globalData[p]
  BY <1>1, <1>3 DEF Safe, Loaded
<1>8. TypedTo(n)'
  BY <1>2, <1>3, <1>6 DEF TypedTo, serverVars, browserVars
<1>9. Filed' /\ Asked' /\ Listening'
  BY <1>2, <1>3 DEF Safe, Filed, Asked, Listening, Fine, serverVars, browserVars
<1>10. Loaded'
  <2> SUFFICES ASSUME NEW p \in Pages, NEW k \in Loaders, Fine(p), loader'[k].at \in {"read", "set"}
               PROVE  loader'[k].pages[p] <= globalData[p]
    BY <1>2 DEF Loaded, Fine, serverVars
  <2>1. k # l
    BY <1>3
  <2> QED BY <1>3, <2>1 DEF Safe, Loaded
<1>11. Heard'
  BY <1>2, <1>3, <1>5, <1>6, <1>7 DEF Safe, Heard, Fine, serverVars
<1>12. Deleted'
  BY <1>2, <1>3, <1>5, <1>6 DEF Safe, Deleted, Fine
<1>13. EditsOffered'
  BY <1>2, <1>3 DEF Safe, EditsOffered, Offers, Fine, serverVars, browserVars
<1>14. NewsAwaited'
  <2> SUFFICES ASSUME NEW e \in Browsers, NEW p \in Pages, e \notin missed', ws[e] = "on", Fine(p),
                      data[e][p] < globalData[p]
               PROVE  Awaits(e, p)'
    BY <1>2, <1>3 DEF NewsAwaited, Fine, serverVars, browserVars
  <2>1. Awaits(e, p) /\ (e \in conns \/ Hello \in Said(up[e]))
    BY <1>3 DEF Safe, NewsAwaited, Listening
  <2>2. loader["sync"].at = "upserted" => loader'["sync"].at = "upserted"
    BY <1>3 DEF Loaders
  <2>3. CASE \E k \in Loaders : loader[k].at \in {"read", "set"} /\ loader[k].pages[p] >= globalData[p]
    <3>1. PICK k \in Loaders : loader[k].at \in {"read", "set"} /\ loader[k].pages[p] >= globalData[p]
      BY <2>3
    <3>2. CASE k # l
      BY <1>2, <1>3, <3>1, <3>2 DEF Awaits, serverVars
    <3>3. CASE k = l
      <4>1. CASE e \in conns
        <5>1. m \in Said(down'[e]) /\ m.pages[p] >= globalData[p]
          BY <1>1, <1>5, <1>6, <3>1, <3>3, <4>1
        <5> QED BY <1>2, <1>5, <5>1 DEF Awaits, serverVars
      <4>2. CASE Hello \in Said(up[e])
        BY <1>3, <4>2 DEF Awaits
      <4> QED BY <2>1, <4>1, <4>2
    <3> QED BY <3>2, <3>3
  <2>4. CASE ~ \E k \in Loaders : loader[k].at \in {"read", "set"} /\ loader[k].pages[p] >= globalData[p]
    BY <1>2, <1>3, <1>6, <2>1, <2>2, <2>4 DEF Awaits, serverVars
  <2> QED BY <2>3, <2>4
<1> QED BY <1>8, <1>9, <1>10, <1>11, <1>12, <1>13, <1>14 DEF Safe

-----------------------------------------------------------------------------
(* A handler panics.                                                       *)

\* The handler's browser is not connected any more and all it has sent is lost.
LEMMA EndsSays ==
    ASSUME NEW n \in Nat, TypedTo(n), NEW b \in Browsers, Ends(b)
    PROVE  /\ conns' = conns \ {b} /\ conns' \subseteq Browsers
           /\ ws' \in [Browsers -> {"gone", "off", "on"}] /\ ws'[b] # "on"
           /\ up' \in [Browsers -> Seq(Msgs(n))] /\ Said(up'[b]) = {}
           /\ \A e \in Browsers : e # b => ws'[e] = ws[e] /\ up'[e] = up[e]
           /\ UNCHANGED <<data, dirty, debounce, asked, fate, clock>>
<1>1. <<>> \in Seq(Msgs(n)) /\ Said(<<>>) = {}
  BY EmptySeq DEF Said
<1>2. /\ conns' = conns \ {b}
      /\ ws' = [ws EXCEPT ![b] = IF ws[b] = "on" THEN "off" ELSE ws[b]]
      /\ up' = [up EXCEPT ![b] = <<>>]
      /\ UNCHANGED <<data, dirty, debounce, asked, fate, clock>>
  BY DEF Ends
<1>3. /\ ws \in [Browsers -> {"gone", "off", "on"}] /\ up \in [Browsers -> Seq(Msgs(n))]
      /\ conns \subseteq Browsers
  BY DEF TypedTo
<1>4. /\ ws' \in [Browsers -> {"gone", "off", "on"}] /\ ws'[b] # "on"
      /\ \A e \in Browsers : e # b => ws'[e] = ws[e]
  BY <1>2, <1>3
<1>5. /\ up' \in [Browsers -> Seq(Msgs(n))] /\ Said(up'[b]) = {}
      /\ \A e \in Browsers : e # b => up'[e] = up[e]
  BY <1>1, <1>2, <1>3
<1> QED BY <1>2, <1>3, <1>4, <1>5

\* Who is connected and has missed nothing has got the message.
LEMMA CutShortSays ==
    ASSUME NEW n \in Nat, TypedTo(n), NEW m \in Msgs(n), NEW c \in conns, CutShort(m, c)
    PROVE  /\ down' \in [Browsers -> Seq(Msgs(n))]
           /\ \A e \in Browsers : /\ Said(down[e]) \subseteq Said(down'[e])
                                  /\ Said(down'[e]) \subseteq Said(down[e]) \cup {m}
           /\ missed \subseteq missed' /\ (missed \subseteq Browsers => missed' \subseteq Browsers)
           /\ hello' \in [Browsers -> {Nothing} \cup [type : {"sync"}, pages : Copy(n)]]
           /\ \A e \in Browsers : hello'[e] = hello[e] \/ hello'[e] = Nothing
           /\ \A e \in Browsers \ missed' :
                 /\ hello'[e] = hello[e]
                 /\ e \in conns /\ ws[e] = "on" => m \in Said(down'[e])
<1>1. PICK got \in SUBSET conns :
          /\ Send(m, got)
          /\ missed' = missed \cup {c} \cup (conns \ got)
          /\ hello' = hello \/ hello' = [hello EXCEPT ![c] = Nothing]
  BY DEF CutShort
<1>2. /\ down' \in [Browsers -> Seq(Msgs(n))]
      /\ \A e \in Browsers :
            Said(down'[e]) = IF e \in got /\ ws[e] = "on" THEN Said(down[e]) \cup {m}
                                                          ELSE Said(down[e])
  BY <1>1, SendSays
<1>3. /\ hello \in [Browsers -> {Nothing} \cup [type : {"sync"}, pages : Copy(n)]]
      /\ conns \subseteq Browsers
  BY DEF TypedTo
<1>4. /\ hello' \in [Browsers -> {Nothing} \cup [type : {"sync"}, pages : Copy(n)]]
      /\ \A e \in Browsers : hello'[e] = hello[e] \/ hello'[e] = Nothing
      /\ \A e \in Browsers : e # c => hello'[e] = hello[e]
  BY <1>1, <1>3
<1>5. /\ missed \subseteq missed' /\ (missed \subseteq Browsers => missed' \subseteq Browsers)
      /\ \A e \in Browsers \ missed' : e # c /\ (e \in conns => e \in got)
  BY <1>1, <1>3
<1> QED BY <1>2, <1>4, <1>5

LEMMA HelloPanicsKeeps ==
    ASSUME NEW n \in Nat, TypedTo(n), Safe, NEW b \in Browsers, HelloPanics(b)
    PROVE  TypedTo(n)' /\ Safe'
<1>1. /\ conns' = conns \ {b} /\ conns' \subseteq Browsers
      /\ ws' \in [Browsers -> {"gone", "off", "on"}] /\ ws'[b] # "on"
      /\ up' \in [Browsers -> Seq(Msgs(n))] /\ Said(up'[b]) = {}
      /\ \A e \in Browsers : e # b => ws'[e] = ws[e] /\ up'[e] = up[e]
      /\ UNCHANGED <<data, dirty, debounce, asked, fate, clock>>
  BY EndsSays DEF HelloPanics
<1>2. /\ Trouble /\ hello' = [hello EXCEPT ![b] = Nothing]
      /\ UNCHANGED <<serverVars, missed, down, loader>>
  BY DEF HelloPanics
<1>3. /\ hello' \in [Browsers -> {Nothing} \cup [type : {"sync"}, pages : Copy(n)]]
      /\ hello'[b].type # "sync"
      /\ \A e \in Browsers : e # b => hello'[e] = hello[e]
  BY <1>2 DEF TypedTo, Nothing
<1>4. troubles' \in 0 .. MaxTroubles
  BY <1>2, TroubleCounted DEF TypedTo
<1>5. TypedTo(n)'
  BY <1>1, <1>2, <1>3, <1>4 DEF TypedTo, serverVars
<1>6. Filed' /\ Loaded' /\ Asked'
  BY <1>1, <1>2 DEF Safe, Filed, Loaded, Asked, Fine, serverVars
<1>7. Heard'
  BY <1>1, <1>2, <1>3 DEF Safe, Heard, Fine, serverVars
<1>8. Deleted' /\ Listening'
  BY <1>1, <1>2 DEF Safe, Deleted, Listening, Fine
<1>9. EditsOffered'
  BY <1>1, <1>2 DEF Safe, EditsOffered, Offers, Fine, serverVars
<1>10. NewsAwaited'
  BY <1>1, <1>2, <1>3 DEF Safe, NewsAwaited, Awaits, Fine, serverVars
<1> QED BY <1>5, <1>6, <1>7, <1>8, <1>9, <1>10 DEF Safe

\* A broadcast that is cut short: it tells what has changed, to whom it has reached.
LEMMA CutShortKeeps ==
    ASSUME NEW n \in Nat, TypedTo(n), Safe, NEW b \in Browsers, Ends(b),
           NEW m \in Msgs(n), NEW c \in conns, CutShort(m, c), UNCHANGED <<loader, troubles>>,
           globalData' \in Copy(n), file' = globalData',
           \A p \in Pages : Fine(p) =>
              /\ globalData'[p] >= globalData[p] /\ m # Delete(p)
              /\ m.type \in {"sync", "force_sync"} => m.pages[p] <= globalData'[p]
              /\ globalData'[p] # globalData[p] => m.type = "sync" /\ m.pages[p] >= globalData'[p]
    PROVE  TypedTo(n)' /\ Safe'
<1>1. /\ conns' = conns \ {b} /\ conns' \subseteq Browsers
      /\ ws' \in [Browsers -> {"gone", "off", "on"}] /\ ws'[b] # "on"
      /\ up' \in [Browsers -> Seq(Msgs(n))] /\ Said(up'[b]) = {}
      /\ \A e \in Browsers : e # b => ws'[e] = ws[e] /\ up'[e] = up[e]
      /\ UNCHANGED <<data, dirty, debounce, asked, fate, clock>>
  BY EndsSays
<1>2. /\ down' \in [Browsers -> Seq(Msgs(n))]
      /\ \A e \in Browsers : /\ Said(down[e]) \subseteq Said(down'[e])
                             /\ Said(down'[e]) \subseteq Said(down[e]) \cup {m}
      /\ missed \subseteq missed'
      /\ hello' \in [Browsers -> {Nothing} \cup [type : {"sync"}, pages : Copy(n)]]
      /\ \A e \in Browsers : hello'[e] = hello[e] \/ hello'[e] = Nothing
      /\ \A e \in Browsers \ missed' :
            /\ hello'[e] = hello[e]
            /\ e \in conns /\ ws[e] = "on" => m \in Said(down'[e])
  BY CutShortSays
<1>3. \A p \in Pages : /\ globalData[p] \in 0 .. n /\ globalData'[p] \in 0 .. n
                       /\ \A e \in Browsers : data[e][p] \in 0 .. n
                       /\ \A l \in Loaders : loader[l].pages[p] \in 0 .. n
  BY DEF TypedTo, Copy
<1>4. TypedTo(n)'
  BY <1>1, <1>2 DEF TypedTo
<1>5. Filed' /\ Asked'
  BY <1>1 DEF Safe, Filed, Asked, Fine
<1>6. Loaded'
  BY <1>1, <1>3 DEF Safe, Loaded, Fine
<1>7. Heard'
  <2> SUFFICES ASSUME NEW e \in Browsers, NEW p \in Pages, Fine(p)
               PROVE  /\ \A k \in Said(down'[e]) : k.type \in {"sync", "force_sync"} => k.pages[p] <= globalData'[p]
                      /\ hello'[e].type = "sync" => hello'[e].pages[p] <= globalData'[p]
    BY <1>1 DEF Heard, Fine
  <2>1. \A k \in Said(down[e]) : k.type \in {"sync", "force_sync"} => k.pages[p] <= globalData[p] /\ k.pages[p] \in 0 .. n
    <3>1. Said(down[e]) \subseteq Msgs(n)
      BY SaidTyped DEF TypedTo
    <3> QED BY <3>1, MsgsTyped DEF Safe, Heard, Copy
  <2>2. hello'[e].type = "sync" => hello'[e].pages[p] <= globalData[p] /\ hello'[e].pages[p] \in 0 .. n
    <3>1. Nothing.type # "sync"
      BY DEF Nothing
    <3>2. hello[e].type = "sync" => hello[e].pages \in Copy(n)
      BY DEF TypedTo, Nothing
    <3> QED BY <1>2, <3>1, <3>2 DEF Safe, Heard, Copy
  <2> QED BY <1>2, <1>3, <2>1, <2>2
<1>8. Deleted' /\ Listening'
  BY <1>1, <1>2 DEF Safe, Deleted, Listening, Fine
<1>9. EditsOffered'
  <2> SUFFICES ASSUME NEW e \in Browsers, NEW p \in Pages, ws'[e] = "on", Fine(p),
                      data[e][p] > globalData'[p]
               PROVE  Offers(e, p)'
    BY <1>1 DEF EditsOffered, Fine
  <2>1. e # b /\ ws[e] = "on" /\ data[e][p] > globalData[p]
    BY <1>1, <1>3
  <2>2. Offers(e, p)
    BY <2>1 DEF Safe, EditsOffered
  <2> QED BY <1>1, <2>1, <2>2 DEF Offers
<1>10. NewsAwaited'
  <2> SUFFICES ASSUME NEW e \in Browsers, NEW p \in Pages, e \notin missed', ws'[e] = "on", Fine(p),
                      data[e][p] < globalData'[p]
               PROVE  Awaits(e, p)'
    BY <1>1 DEF NewsAwaited, Fine
  <2>1. e # b /\ ws[e] = "on" /\ up'[e] = up[e] /\ hello'[e] = hello[e] /\ e \notin missed
    BY <1>1, <1>2
  <2>2. CASE globalData'[p] = globalData[p]
    <3>1. Awaits(e, p)
      BY <2>1, <2>2 DEF Safe, NewsAwaited
    <3> QED BY <1>2, <2>1, <2>2, <3>1 DEF Awaits
  <2>3. CASE globalData'[p] # globalData[p]
    <3>1. m.type = "sync" /\ m.pages[p] >= globalData'[p]
      BY <2>3
    <3>2. CASE e \in conns
      BY <1>2, <2>1, <3>1, <3>2 DEF Awaits
    <3>3. CASE e \notin conns
      BY <2>1, <3>3 DEF Safe, Listening, Awaits
    <3> QED BY <3>2, <3>3
  <2> QED BY <2>2, <2>3
<1> QED BY <1>4, <1>5, <1>6, <1>7, <1>8, <1>9, <1>10 DEF Safe

LEMMA GetsSays ==
    ASSUME NEW n \in Nat, TypedTo(n), NEW b \in Browsers, NEW kind, Gets(b, kind)
    PROVE  Head(up[b]) \in Msgs(n) /\ Head(up[b]).type = kind /\ Head(up[b]) \in Said(up[b])
<1>1. up[b] \in Seq(Msgs(n)) /\ up[b] # <<>> /\ Head(up[b]).type = kind
  BY DEF TypedTo, Gets
<1> QED BY <1>1, SaidTail

LEMMA ServePanicsKeeps ==
    ASSUME NEW n \in Nat, TypedTo(n), Safe, NEW b \in Browsers, ServePanics(b)
    PROVE  TypedTo(n)' /\ Safe'
<1>1. Ends(b) /\ UNCHANGED <<loader, troubles>>
  BY DEF ServePanics
<1>2. globalData \in Copy(n) /\ \A p \in Pages : globalData[p] \in 0 .. n
  BY DEF TypedTo, Copy
<1>3. ASSUME HasNews(b), globalData' = Merge(globalData, Head(up[b]).pages), file' = globalData',
             NEW c \in conns, CutShort(Sync(Only(Head(up[b]).pages, Newer(Head(up[b]).pages))), c)
      PROVE  TypedTo(n)' /\ Safe'
  <2>1. Head(up[b]) \in Msgs(n) /\ Head(up[b]).type = "sync"
    BY <1>3, GetsSays DEF HasNews
  <2>2. PICK new \in Copy(n) : new = Head(up[b]).pages
    BY <2>1, MsgsTyped
  <2>3. PICK m : m = Sync(Only(new, Newer(new)))
    OBVIOUS
  <2>4. /\ m \in Msgs(n) /\ m.type = "sync" /\ \A p \in Pages : m # Delete(p)
        /\ \A p \in Pages : m.pages[p] = IF p \in Newer(new) THEN new[p] ELSE 0
    <3>1. Only(new, Newer(new)) \in Copy(n)
      BY CopiesTyped DEF Newer
    <3>2. \A p \in Pages : m # Delete(p)
      BY <2>3 DEF Sync, Delete
    <3> QED BY <2>3, <3>1, <3>2, MsgsTyped DEF Sync, Only
  <2>5. /\ globalData' \in Copy(n)
        /\ \A p \in Pages : /\ globalData'[p] >= globalData[p] /\ globalData'[p] >= new[p]
                            /\ globalData'[p] = IF new[p] > globalData[p] THEN new[p] ELSE globalData[p]
    BY <1>2, <1>3, <2>2, CopiesTyped DEF Merge
  <2>6. \A p \in Pages : new[p] \in 0 .. n /\ globalData'[p] \in 0 .. n
    BY <2>5 DEF Copy
  <2>7. \A p \in Pages : /\ m.pages[p] <= globalData'[p]
                         /\ globalData'[p] # globalData[p] => m.pages[p] >= globalData'[p]
    BY <1>2, <2>4, <2>5, <2>6 DEF Newer
  <2>8. CutShort(m, c)
    BY <1>3, <2>2, <2>3
  <2> QED BY <1>1, <1>3, <2>4, <2>5, <2>7, <2>8, CutShortKeeps
<1>4. ASSUME HasDelete(b), globalData' = Without(globalData, Head(up[b]).id), file' = globalData',
             NEW c \in conns, CutShort(Head(up[b]), c)
      PROVE  TypedTo(n)' /\ Safe'
  <2>1. Head(up[b]) \in Msgs(n) /\ Head(up[b]).type = "delete" /\ Head(up[b]) \in Said(up[b])
    BY <1>4, GetsSays DEF HasDelete
  <2>2. PICK d \in Pages : d = Head(up[b]).id /\ Head(up[b]) = Delete(d)
    BY <2>1, MsgsTyped
  <2>3. ~Fine(d)
    BY <2>1, <2>2 DEF Safe, Deleted
  <2>4. \A p \in Pages : Delete(p) = Delete(d) => p = d
    BY DEF Delete
  <2>5. globalData' \in Copy(n) /\ \A p \in Pages : Fine(p) => globalData'[p] = globalData[p]
    <3>1. Without(globalData, d) \in Copy(n)
      BY <1>2, CopiesTyped
    <3>2. \A p \in Pages : Fine(p) => Without(globalData, d)[p] = globalData[p]
      BY <1>2, <2>3 DEF Without, Copy
    <3> QED BY <1>4, <2>2, <3>1, <3>2
  <2>6. \A p \in Pages : Fine(p) => globalData'[p] >= globalData[p] /\ Head(up[b]) # Delete(p)
    BY <1>2, <2>2, <2>3, <2>4, <2>5
  <2> QED BY <1>1, <1>4, <2>1, <2>5, <2>6, CutShortKeeps
<1>5. ASSUME UNCHANGED <<globalData, file, hello, missed, down>>
      PROVE  TypedTo(n)' /\ Safe'
  <2>1. /\ conns' = conns \ {b} /\ conns' \subseteq Browsers
        /\ ws' \in [Browsers -> {"gone", "off", "on"}] /\ ws'[b] # "on"
        /\ up' \in [Browsers -> Seq(Msgs(n))] /\ Said(up'[b]) = {}
        /\ \A e \in Browsers : e # b => ws'[e] = ws[e] /\ up'[e] = up[e]
        /\ UNCHANGED <<data, dirty, debounce, asked, fate, clock>>
    BY <1>1, EndsSays
  <2>2. TypedTo(n)'
    BY <1>1, <1>5, <2>1 DEF TypedTo
  <2>3. Filed' /\ Loaded' /\ Heard' /\ Asked'
    BY <1>1, <1>5, <2>1 DEF Safe, Filed, Loaded, Heard, Asked, Fine
  <2>4. Deleted' /\ Listening'
    BY <1>5, <2>1 DEF Safe, Deleted, Listening, Fine
  <2>5. EditsOffered' /\ NewsAwaited'
    BY <1>1, <1>5, <2>1 DEF Safe, EditsOffered, NewsAwaited, Offers, Awaits, Fine
  <2> QED BY <2>2, <2>3, <2>4, <2>5 DEF Safe
<1> QED BY <1>3, <1>4, <1>5 DEF ServePanics

LEMMA ReloadPanicsKeeps ==
    ASSUME NEW n \in Nat, TypedTo(n), Safe, NEW l \in Loaders, ReloadPanics(l)
    PROVE  TypedTo(n)' /\ Safe'
<1>1. PICK new \in Copy(n) : new = loader[l].pages
  BY DEF TypedTo
<1>2. /\ loader[l].at = "set" /\ loader' = [loader EXCEPT ![l] = Idle]
      /\ UNCHANGED <<serverVars, browserVars, conns, up, fate, clock, troubles>>
  BY DEF ReloadPanics
<1>3. /\ loader' \in [Loaders -> [at : {"idle", "copied", "upserted", "read", "set"},
                                  pages : Copy(n), removed : SUBSET Pages]]
      /\ loader'[l].at = "idle"
      /\ \A k \in Loaders : k # l => loader'[k] = loader[k]
  BY <1>2, IdleTyped DEF TypedTo
<1>4. PICK m \in Msgs(n) : m = ForceSync(new)
  BY MsgsTyped
<1>5. m.type = "force_sync" /\ m.pages = new /\ \A p \in Pages : m # Delete(p)
  BY <1>4 DEF ForceSync, Delete
<1>6. /\ down' \in [Browsers -> Seq(Msgs(n))]
      /\ \A e \in Browsers : /\ Said(down[e]) \subseteq Said(down'[e])
                             /\ Said(down'[e]) \subseteq Said(down[e]) \cup {m}
      /\ missed \subseteq missed'
      /\ hello' \in [Browsers -> {Nothing} \cup [type : {"sync"}, pages : Copy(n)]]
      /\ \A e \in Browsers : hello'[e] = hello[e] \/ hello'[e] = Nothing
      /\ \A e \in Browsers \ missed' :
            /\ hello'[e] = hello[e]
            /\ e \in conns /\ ws[e] = "on" => m \in Said(down'[e])
  BY <1>1, <1>4, CutShortSays DEF ReloadPanics
<1>7. \A p \in Pages : Fine(p) => new[p] <= globalData[p]
  BY <1>1, <1>2 DEF Safe, Loaded
<1>8. TypedTo(n)'
  BY <1>2, <1>3, <1>6 DEF TypedTo, serverVars, browserVars
<1>9. Filed' /\ Asked' /\ Listening' /\ EditsOffered'
  BY <1>2 DEF Safe, Filed, Asked, Listening, EditsOffered, Offers, Fine, serverVars, browserVars
<1>10. Loaded'
  <2> SUFFICES ASSUME NEW p \in Pages, NEW k \in Loaders, Fine(p), loader'[k].at \in {"read", "set"}
               PROVE  loader'[k].pages[p] <= globalData[p]
    BY <1>2 DEF Loaded, Fine, serverVars
  <2>1. k # l
    BY <1>3
  <2> QED BY <1>3, <2>1 DEF Safe, Loaded
<1>11. Heard'
  <2>1. Nothing.type # "sync"
    BY DEF Nothing
  <2> QED BY <1>2, <1>5, <1>6, <1>7, <2>1 DEF Safe, Heard, Fine, serverVars
<1>12. Deleted'
  BY <1>2, <1>5, <1>6 DEF Safe, Deleted, Fine
<1>13. NewsAwaited'
  <2> SUFFICES ASSUME NEW e \in Browsers, NEW p \in Pages, e \notin missed', ws[e] = "on", Fine(p),
                      data[e][p] < globalData[p]
               PROVE  Awaits(e, p)'
    BY <1>2 DEF NewsAwaited, Fine, serverVars, browserVars
  <2>1. /\ Awaits(e, p) /\ (e \in conns \/ Hello \in Said(up[e]))
        /\ hello'[e] = hello[e] /\ (e \in conns => m \in Said(down'[e]))
    BY <1>6 DEF Safe, NewsAwaited, Listening
  <2>2. loader["sync"].at = "upserted" => loader'["sync"].at = "upserted"
    BY <1>2, <1>3 DEF Loaders
  <2>3. CASE \E k \in Loaders : loader[k].at \in {"read", "set"} /\ loader[k].pages[p] >= globalData[p]
    <3>1. PICK k \in Loaders : loader[k].at \in {"read", "set"} /\ loader[k].pages[p] >= globalData[p]
      BY <2>3
    <3>2. CASE k # l
      BY <1>2, <1>3, <3>1, <3>2 DEF Awaits, serverVars
    <3>3. CASE k = l
      <4>1. CASE e \in conns
        BY <1>1, <1>2, <1>5, <2>1, <3>1, <3>3, <4>1 DEF Awaits, serverVars
      <4>2. CASE Hello \in Said(up[e])
        BY <1>2, <4>2 DEF Awaits
      <4> QED BY <2>1, <4>1, <4>2
    <3> QED BY <3>2, <3>3
  <2>4. CASE ~ \E k \in Loaders : loader[k].at \in {"read", "set"} /\ loader[k].pages[p] >= globalData[p]
    BY <1>2, <1>6, <2>1, <2>2, <2>4 DEF Awaits, serverVars
  <2> QED BY <2>3, <2>4
<1> QED BY <1>8, <1>9, <1>10, <1>11, <1>12, <1>13 DEF Safe

LEMMA PanicsTyped ==
    ASSUME NEW n \in Nat, TypedTo(n), Safe, PanicTyped, [Next]_vars
    PROVE  PanicTyped'
<1>1. CASE UNCHANGED <<jammed, missed>>
  BY <1>1 DEF PanicTyped
<1>2. CASE \E b \in Browsers : Handler(b) \/ Message(b) \/ Reconnect(b) \/ Disconnect(b) \/ User(b) \/ TriggerSync(b)
  <2>1. PICK b \in Browsers : Handler(b) \/ Message(b) \/ Reconnect(b) \/ Disconnect(b) \/ User(b) \/ TriggerSync(b)
    BY <1>2
  <2>2. jammed' \in BOOLEAN /\ missed' \in {missed, missed \ {b}}
    <3>1. CASE Handler(b)
      BY <3>1 DEF Handler, Accept, ServeHello, WriteHello, ServeSync, ServeDelete, Reads, serverVars, PanicTyped
    <3>2. CASE Message(b)
      BY <3>2 DEF Message, OnSync, OnDelete, OnForceSync, Receives, serverVars, PanicTyped
    <3>3. CASE Reconnect(b) \/ Disconnect(b) \/ User(b) \/ TriggerSync(b)
      BY <3>3 DEF Reconnect, Disconnect, User, TriggerSync, Open, Connect, CloseTab, ConfirmDelete,
                  AskDelete, Edit, AddPage, Change, serverVars, netVars, PanicTyped
    <3> QED BY <2>1, <3>1, <3>2, <3>3
  <2> QED BY <2>2 DEF PanicTyped
<1>3. CASE UpsertPages \/ (\E l \in Loaders : Reload(l)) \/ (\E p \in Pages : SyncCopies(p))
  BY <1>1, <1>3 DEF UpsertPages, Reload, ReloadReads, ReloadSets, ReloadSends, SyncCopies, LoaderAt
<1>4. CASE Restart \/ \E p \in Pages : RestartEmpty(p)
  BY <1>4 DEF Restart, RestartEmpty, Start, PanicTyped
<1>5. CASE \E b \in Browsers : HelloPanics(b)
  BY <1>1, <1>5 DEF HelloPanics, serverVars
<1>6. CASE \E b \in Browsers : ServePanics(b)
  <2>1. PICK b \in Browsers : ServePanics(b)
    BY <1>6
  <2>2. \/ missed' = missed
        \/ \E c \in conns, got \in SUBSET conns : missed' = missed \cup {c} \cup (conns \ got)
    BY <2>1 DEF ServePanics, CutShort
  <2>3. missed' \subseteq Browsers
    BY <2>2 DEF PanicTyped, TypedTo
  <2> QED BY <2>1, <2>3 DEF ServePanics, PanicTyped
<1>7. CASE \E l \in Loaders : ReloadPanics(l)
  BY <1>7 DEF ReloadPanics, CutShort, PanicTyped, TypedTo, serverVars
<1>8. CASE UNCHANGED vars
  BY <1>1, <1>8 DEF vars, serverVars, netVars
<1> QED BY <1>2, <1>3, <1>4, <1>5, <1>6, <1>7, <1>8 DEF Next

-----------------------------------------------------------------------------
(* The invariant.                                                          *)

LEMMA NextInv == IInv /\ [Next]_vars => IInv'
<1> SUFFICES ASSUME IInv, [Next]_vars PROVE IInv'
  OBVIOUS
<1>1. PICK n \in Nat : n = clock /\ n >= 1 /\ n \in 1 .. MaxTime
  BY ScratchpadAssumption DEF IInv
<1>2. TypedTo(n) /\ Safe
  BY <1>1 DEF IInv
<1>a. PanicTyped'
  BY <1>1, <1>2, PanicsTyped DEF IInv
<1>3. ASSUME clock' = clock, TypedTo(n)', Safe' PROVE IInv'
  BY <1>1, <1>3, <1>a DEF IInv
<1>4. ASSUME clock < MaxTime, clock' = clock + 1, TypedTo(n + 1)', Safe' PROVE IInv'
  <2>1. clock' = n + 1 /\ clock' \in 1 .. MaxTime
    BY <1>1, <1>4, ScratchpadAssumption
  <2> QED BY <1>4, <1>a, <2>1 DEF IInv
<1>5. CASE \E b \in Browsers : Handler(b)
  <2>1. PICK b \in Browsers : Handler(b)
    BY <1>5
  <2>2. clock' = clock
    BY <2>1 DEF Handler, Accept, ServeHello, WriteHello, ServeSync, ServeDelete, Reads
  <2>3. TypedTo(n)' /\ Safe'
    BY <1>2, <2>1, AcceptKeeps, ServeHelloKeeps, WriteHelloKeeps, ServeSyncKeeps, ServeDeleteKeeps
       DEF Handler
  <2> QED BY <1>3, <2>2, <2>3
<1>6. CASE \E b \in Browsers : Message(b)
  <2>1. PICK b \in Browsers : Message(b)
    BY <1>6
  <2>2. clock' = clock
    BY <2>1 DEF Message, OnSync, OnDelete, OnForceSync, Receives
  <2>3. TypedTo(n)' /\ Safe'
    BY <1>2, <2>1, OnPagesKeeps, OnDeleteKeeps DEF Message
  <2> QED BY <1>3, <2>2, <2>3
<1>7. CASE \E b \in Browsers, p \in Pages : Edit(b, p) \/ AddPage(b, p)
  <2>1. PICK b \in Browsers, p \in Pages : Edit(b, p) \/ AddPage(b, p)
    BY <1>7
  <2>2. clock < MaxTime /\ clock' = clock + 1
    BY <2>1 DEF Edit, AddPage, Change
  <2>3. TypedTo(n + 1)' /\ Safe'
    BY <1>1, <1>2, <2>1, ChangeKeeps
  <2> QED BY <1>4, <2>2, <2>3
<1>8. CASE \E b \in Browsers :
              \/ \E p \in Pages : AskDelete(b, p)
              \/ ConfirmDelete(b) \/ Connect(b) \/ CloseTab(b) \/ TriggerSync(b) \/ Disconnect(b)
  <2>1. PICK b \in Browsers :
            \/ \E p \in Pages : AskDelete(b, p)
            \/ ConfirmDelete(b) \/ Connect(b) \/ CloseTab(b) \/ TriggerSync(b) \/ Disconnect(b)
    BY <1>8
  <2>2. clock' = clock
    BY <2>1 DEF AskDelete, ConfirmDelete, Connect, CloseTab, TriggerSync, Disconnect
  <2>3. TypedTo(n)' /\ Safe'
    BY <1>1, <1>2, <2>1, AskDeleteKeeps, ConfirmDeleteKeeps, ConnectKeeps, CloseTabKeeps,
       TriggerSyncKeeps, DisconnectKeeps
  <2> QED BY <1>3, <2>2, <2>3
<1>9. CASE UpsertPages \/ Restart \/ \E l \in Loaders : Reload(l)
  <2>1. clock' = clock
    BY <1>9 DEF UpsertPages, Restart, Reload, ReloadReads, ReloadSets, ReloadSends
  <2>2. TypedTo(n)' /\ Safe'
    BY <1>2, <1>9, UpsertPagesKeeps, RestartKeeps, ReloadReadsKeeps, ReloadSetsKeeps, ReloadSendsKeeps
       DEF Reload
  <2> QED BY <1>3, <2>1, <2>2
<1>10. CASE \E p \in Pages : SyncCopies(p) \/ RestartEmpty(p)
  <2>1. PICK p \in Pages : SyncCopies(p) \/ RestartEmpty(p)
    BY <1>10
  <2>2. clock < MaxTime /\ clock' = clock + 1
    BY <2>1 DEF SyncCopies, RestartEmpty
  <2>3. TypedTo(n + 1)' /\ Safe'
    BY <1>1, <1>2, <2>1, SyncCopiesKeeps, RestartEmptyKeeps
  <2> QED BY <1>4, <2>2, <2>3
<1>11. CASE UNCHANGED vars
  <2>1. clock' = clock /\ TypedTo(n)'
    BY <1>2, <1>11 DEF TypedTo, vars, serverVars, browserVars, netVars
  <2>2. Safe'
    BY <1>2, <1>11 DEF Safe, Filed, Loaded, Heard, Deleted, Asked, Listening, EditsOffered, NewsAwaited,
                       Fine, Offers, Awaits, vars, serverVars, browserVars, netVars
  <2> QED BY <1>3, <2>1, <2>2
<1>12. CASE \E b \in Browsers : HelloPanics(b) \/ ServePanics(b)
  <2>1. PICK b \in Browsers : HelloPanics(b) \/ ServePanics(b)
    BY <1>12
  <2>2. clock' = clock
    BY <2>1 DEF HelloPanics, ServePanics, Ends
  <2>3. TypedTo(n)' /\ Safe'
    BY <1>2, <2>1, HelloPanicsKeeps, ServePanicsKeeps
  <2> QED BY <1>3, <2>2, <2>3
<1>13. CASE \E l \in Loaders : ReloadPanics(l)
  <2>1. clock' = clock
    BY <1>13 DEF ReloadPanics
  <2>2. TypedTo(n)' /\ Safe'
    BY <1>2, <1>13, ReloadPanicsKeeps
  <2> QED BY <1>3, <2>1, <2>2
<1> QED BY <1>5, <1>6, <1>7, <1>8, <1>9, <1>10, <1>11, <1>12, <1>13 DEF Next, User, Open, Reconnect

LEMMA Invariant == Spec => []IInv
BY InitInv, NextInv, PTL DEF Spec

-----------------------------------------------------------------------------
(* The theorems.                                                           *)

\* The variables always have their types: no message, copy or loader ever
\* holds a page of a time that the clock has not shown.
THEOREM PadTypes == Spec => []TypeOK
<1>1. IInv => TypeOK
  <2> SUFFICES ASSUME IInv PROVE TypeOK
    OBVIOUS
  <2>1. PICK n \in Nat : n = clock /\ n \in 1 .. MaxTime /\ TypedTo(n)
    BY ScratchpadAssumption DEF IInv
  <2>2. Copy(n) \subseteq Copies
    <3>1. 0 .. n \subseteq Times
      BY <2>1, ScratchpadAssumption DEF Times
    <3> QED BY <3>1 DEF Copy, Copies
  <2>3. Msgs(n) \subseteq Messages
    BY <2>2 DEF Msgs, Messages
  <2>4. \A b \in Browsers : up[b] \in Seq(Messages) /\ down[b] \in Seq(Messages)
    <3>1. Seq(Msgs(n)) \subseteq Seq(Messages)
      BY <2>3, SeqMonotonic
    <3> QED BY <2>1, <3>1 DEF TypedTo
  <2>5. clock \in Times
    BY <2>1, ScratchpadAssumption DEF Times
  <2>6. {globalData, file} \subseteq Copies /\ data \in [Browsers -> Copies]
    BY <2>1, <2>2 DEF TypedTo
  <2>7. /\ hello \in [Browsers -> {Nothing} \cup [type : {"sync"}, pages : Copies]]
        /\ asked \in [Browsers -> {Nothing} \cup [type : {"asked"}, id : Pages, pages : Copies]]
        /\ loader \in [Loaders -> [at : {"idle", "copied", "upserted", "read", "set"},
                                   pages : Copies, removed : SUBSET Pages]]
    BY <2>1, <2>2 DEF TypedTo
  <2>8. jammed \in BOOLEAN /\ {conns, missed} \subseteq SUBSET Browsers
    BY <2>1 DEF TypedTo, IInv, PanicTyped
  <2> QED BY <2>1, <2>4, <2>5, <2>6, <2>7, <2>8 DEF TypedTo, TypeOK
<1> QED BY <1>1, Invariant, PTL

\* Once nothing is on its way, every open scratchpad shows the version of a page
\* that the server has, unless a copy of the page was deleted or replaced or a
\* panic lost a message to this browser since it connected.
THEOREM PagesConverge == Spec => []MergesConverge
<1>1. IInv => MergesConverge
  <2> SUFFICES ASSUME IInv, Settled, NEW b \in Browsers, NEW p \in Pages, ws[b] = "on",
                      b \notin missed, fate[p] = "born"
               PROVE  data[b][p] = globalData[p]
    BY DEF MergesConverge
  <2>1. PICK n \in Nat : n = clock /\ TypedTo(n) /\ Safe
    BY ScratchpadAssumption DEF IInv
  <2>2. data[b][p] \in 0 .. n /\ globalData[p] \in 0 .. n
    BY <2>1 DEF TypedTo, Copy
  <2>3. /\ Said(up[b]) = {} /\ Said(down[b]) = {}
        /\ hello[b].type # "sync" /\ ~debounce[b]
        /\ \A l \in Loaders : loader[l].at = "idle"
    BY DEF Settled, Said, Nothing, Idle
  <2>4. ~Offers(b, p)
    BY <2>3 DEF Offers
  <2>5. ~Awaits(b, p)
    BY <2>3 DEF Awaits, Loaders
  <2>6. ~ (data[b][p] > globalData[p]) /\ ~ (data[b][p] < globalData[p])
    BY <2>1, <2>4, <2>5 DEF Safe, EditsOffered, NewsAwaited, Fine
  <2> QED BY <2>2, <2>6
<1> QED BY <1>1, Invariant, PTL

\* A step leaves no copy older of a page that is not lost after it.
LEMMA CopiesGrow ==
    ASSUME IInv, Next, NEW p \in Pages, Fine(p)'
    PROVE  globalData'[p] >= globalData[p] /\ \A b \in Browsers : data'[b][p] >= data[b][p]
<1>1. PICK n \in Nat : n = clock /\ n >= 1 /\ TypedTo(n) /\ Safe
  BY ScratchpadAssumption DEF IInv
<1>2. /\ globalData \in Copy(n) /\ data \in [Browsers -> Copy(n)] /\ file \in Copy(n)
      /\ globalData[p] \in 0 .. n /\ file[p] \in 0 .. n
      /\ \A b \in Browsers : data[b] \in Copy(n) /\ data[b][p] \in 0 .. n
  BY <1>1 DEF TypedTo, Copy
<1>3. ASSUME UNCHANGED <<globalData, data>>
      PROVE  globalData'[p] >= globalData[p] /\ \A b \in Browsers : data'[b][p] >= data[b][p]
  BY <1>2, <1>3
<1>4. CASE \E b \in Browsers : Handler(b)
  <2>1. PICK b \in Browsers : Handler(b)
    BY <1>4
  <2>2. CASE Accept(b) \/ ServeHello(b) \/ WriteHello(b)
    BY <1>3, <2>2 DEF Accept, ServeHello, WriteHello, Reads, serverVars, browserVars
  <2>3. CASE ServeSync(b)
    <3>1. PICK c \in Copy(n) : c = Head(up[b]).pages
      BY <1>1, <2>3, ReadsSays, MsgsTyped DEF ServeSync
    <3>2. (globalData' = Merge(globalData, c) \/ globalData' = globalData) /\ UNCHANGED data
      BY <2>3, <3>1 DEF ServeSync, Reads, serverVars, browserVars
    <3>3. Merge(globalData, c)[p] >= globalData[p]
      BY <1>2, CopiesTyped
    <3> QED BY <1>2, <3>2, <3>3
  <2>4. CASE ServeDelete(b)
    <3>1. /\ Head(up[b]) \in Msgs(n) /\ Head(up[b]).type = "delete" /\ Head(up[b]) \in Said(up[b])
          /\ UNCHANGED <<browserVars, fate>>
      BY <1>1, <2>4, ReadsSays DEF ServeDelete
    <3>2. PICK d \in Pages : d = Head(up[b]).id /\ Head(up[b]) = Delete(d)
      BY <3>1, MsgsTyped
    <3>3. p # d
      BY <1>1, <3>1, <3>2 DEF Safe, Deleted, Fine
    <3>4. globalData' = Without(globalData, d) \/ globalData' = globalData
      BY <2>4, <3>2 DEF ServeDelete, serverVars
    <3>5. globalData'[p] = globalData[p]
      BY <1>2, <3>3, <3>4 DEF Without, Copy
    <3> QED BY <1>2, <3>1, <3>5 DEF browserVars
  <2> QED BY <2>1, <2>2, <2>3, <2>4 DEF Handler
<1>5. CASE \E b \in Browsers : Message(b)
  <2>1. PICK b \in Browsers : Message(b)
    BY <1>5
  <2>2. UNCHANGED globalData
    BY <2>1 DEF Message, OnSync, OnDelete, OnForceSync, Receives, serverVars
  <2>3. ASSUME NEW new \in Copy(n), data' = [data EXCEPT ![b] = new], new[p] >= data[b][p]
        PROVE  globalData'[p] >= globalData[p] /\ \A e \in Browsers : data'[e][p] >= data[e][p]
    BY <1>2, <2>2, <2>3
  <2>4. CASE OnSync(b)
    <3>1. PICK c \in Copy(n) : c = Head(down[b]).pages
      BY <1>1, <2>4, ReceivesSays, MsgsTyped DEF OnSync
    <3>2. Merge(data[b], c) \in Copy(n) /\ Merge(data[b], c)[p] >= data[b][p]
      BY <1>2, CopiesTyped
    <3>3. data' = [data EXCEPT ![b] = Merge(data[b], c)]
      BY <2>4, <3>1 DEF OnSync
    <3> QED BY <2>3, <3>2, <3>3
  <2>5. CASE OnForceSync(b)
    <3>1. PICK c \in Copy(n) : c = Head(down[b]).pages
      BY <1>1, <2>5, ReceivesSays, MsgsTyped DEF OnForceSync
    <3>2. data' = [data EXCEPT ![b] = c]
      BY <2>5, <3>1 DEF OnForceSync
    <3>3. data'[b] = c
      BY <1>2, <3>2
    <3>4. ~ (c[p] < data[b][p]) /\ c[p] \in 0 .. n
      BY <2>5, <3>3 DEF OnForceSync, Replaces, Fine, Copy
    <3>5. c[p] >= data[b][p]
      BY <1>2, <3>4
    <3> QED BY <2>3, <3>2, <3>5
  <2>6. CASE OnDelete(b)
    <3>1. Head(down[b]) \in Msgs(n) /\ Head(down[b]).type = "delete" /\ Head(down[b]) \in Said(down[b])
      BY <1>1, <2>6, ReceivesSays DEF OnDelete
    <3>2. PICK d \in Pages : d = Head(down[b]).id /\ Head(down[b]) = Delete(d)
      BY <3>1, MsgsTyped
    <3>3. p # d
      BY <1>1, <2>6, <3>1, <3>2 DEF Safe, Deleted, Fine, OnDelete
    <3>4. data' = [data EXCEPT ![b] = Without(data[b], d)]
      BY <2>6, <3>2 DEF OnDelete
    <3>5. Without(data[b], d) \in Copy(n)
      BY <1>2, CopiesTyped
    <3>6. Without(data[b], d)[p] = data[b][p]
      BY <1>2, <3>3 DEF Without, Copy
    <3>7. \A e \in Browsers : data'[e][p] = data[e][p]
      BY <1>2, <3>4, <3>5, <3>6
    <3> QED BY <1>2, <2>2, <3>7
  <2> QED BY <2>1, <2>4, <2>5, <2>6 DEF Message
<1>6. CASE \E b \in Browsers, d \in Pages : Edit(b, d) \/ AddPage(b, d)
  <2>1. PICK b \in Browsers, d \in Pages : Edit(b, d) \/ AddPage(b, d)
    BY <1>6
  <2>2. data' = [data EXCEPT ![b][d] = n + 1] /\ UNCHANGED globalData
    BY <1>1, <2>1 DEF Edit, AddPage, Change, serverVars
  <2>3. \A e \in Browsers : data'[e][p] = data[e][p] \/ data'[e][p] = n + 1
    BY <1>2, <2>2 DEF Copy
  <2> QED BY <1>2, <2>2, <2>3
<1>7. CASE \E b \in Browsers :
              \/ \E d \in Pages : AskDelete(b, d)
              \/ Connect(b) \/ CloseTab(b) \/ TriggerSync(b) \/ Disconnect(b)
  BY <1>3, <1>7 DEF AskDelete, Connect, CloseTab, TriggerSync, Disconnect, serverVars
<1>8. CASE \E b \in Browsers : ConfirmDelete(b)
  <2>1. PICK b \in Browsers : ConfirmDelete(b)
    BY <1>8
  <2>2. PICK d \in Pages, c \in Copy(n) : asked[b].id = d /\ asked[b].pages = c
    BY <1>1, <2>1 DEF ConfirmDelete, TypedTo
  <2>3. /\ data' = [data EXCEPT ![b] = Without(c, d)]
        /\ UNCHANGED globalData
        /\ ~ (data'[b][p] < [data[b] EXCEPT ![d] = n][p])
    BY <1>1, <2>1, <2>2 DEF ConfirmDelete, Replaces, serverVars, Fine
  <2>4. data'[b][p] \in 0 .. n /\ \A e \in Browsers : e # b => data'[e] = data[e]
    <3>1. Without(c, d) \in Copy(n)
      BY CopiesTyped
    <3> QED BY <1>2, <2>3, <3>1 DEF Copy
  <2>5. [data[b] EXCEPT ![d] = n][p] = (IF p = d THEN n ELSE data[b][p])
    BY <1>2 DEF Copy
  <2>6. data'[b][p] >= data[b][p]
    BY <1>2, <2>3, <2>4, <2>5
  <2> QED BY <1>2, <2>3, <2>4, <2>6
<1>9. CASE UpsertPages \/ \E l \in Loaders : ReloadSets(l)
  <2>1. Replaces(globalData, globalData') /\ UNCHANGED data
    BY <1>9 DEF UpsertPages, ReloadSets, LoaderAt, browserVars
  <2>2. ~ (globalData'[p] < globalData[p])
    BY <2>1 DEF Replaces, Fine
  <2>3. globalData'[p] \in 0 .. n
    <3>1. TypedTo(n)'
      BY <1>1, <1>9, UpsertPagesKeeps, ReloadSetsKeeps
    <3> QED BY <3>1 DEF TypedTo, Copy
  <2> QED BY <1>2, <2>1, <2>2, <2>3
<1>10. CASE \E l \in Loaders : ReloadReads(l) \/ ReloadSends(l)
  BY <1>3, <1>10 DEF ReloadReads, ReloadSends, LoaderAt, serverVars, browserVars
<1>11. CASE \E d \in Pages : SyncCopies(d)
  BY <1>3, <1>11 DEF SyncCopies, LoaderAt, serverVars, browserVars
<1>12. CASE Restart
  <2>1. globalData' = file /\ UNCHANGED <<data, fate>>
    BY <1>12 DEF Restart, Start
  <2>2. file[p] = globalData[p]
    BY <1>1, <2>1 DEF Safe, Filed, Fine
  <2> QED BY <1>2, <2>1, <2>2
<1>13. CASE \E d \in Pages : RestartEmpty(d)
  <2>1. PICK d \in Pages : RestartEmpty(d)
    BY <1>13
  <2>2. /\ globalData' = [Empty EXCEPT ![d] = n + 1] /\ UNCHANGED data
        /\ Has(file) = {} /\ Fine(p)
    BY <1>1, <2>1 DEF RestartEmpty, Start, Fine, TypedTo
  <2>3. globalData[p] = 0
    BY <1>1, <2>2 DEF Safe, Filed, Has
  <2>4. globalData'[p] \in Nat
    BY <2>2 DEF Empty
  <2> QED BY <1>2, <2>2, <2>3, <2>4
<1>14. CASE \E b \in Browsers : ServePanics(b)
  <2>1. PICK b \in Browsers : ServePanics(b)
    BY <1>14
  <2>2. UNCHANGED <<data, fate>>
    BY <2>1 DEF ServePanics, Ends
  <2>3. CASE HasNews(b) /\ globalData' = Merge(globalData, Head(up[b]).pages)
    <3>1. PICK c \in Copy(n) : c = Head(up[b]).pages
      BY <1>1, <2>3, GetsSays, MsgsTyped DEF HasNews
    <3>2. Merge(globalData, c)[p] >= globalData[p]
      BY <1>2, CopiesTyped
    <3> QED BY <1>2, <2>2, <2>3, <3>1, <3>2
  <2>4. CASE HasDelete(b) /\ globalData' = Without(globalData, Head(up[b]).id)
    <3>1. Head(up[b]) \in Msgs(n) /\ Head(up[b]).type = "delete" /\ Head(up[b]) \in Said(up[b])
      BY <1>1, <2>4, GetsSays DEF HasDelete
    <3>2. PICK d \in Pages : d = Head(up[b]).id /\ Head(up[b]) = Delete(d)
      BY <3>1, MsgsTyped
    <3>3. p # d
      BY <1>1, <2>2, <3>1, <3>2 DEF Safe, Deleted, Fine
    <3>4. globalData'[p] = globalData[p]
      BY <1>2, <2>4, <3>2, <3>3 DEF Without, Copy
    <3> QED BY <1>2, <2>2, <3>4
  <2>5. CASE UNCHANGED globalData
    BY <1>3, <2>2, <2>5
  <2> QED BY <2>1, <2>3, <2>4, <2>5 DEF ServePanics
<1>15. CASE (\E b \in Browsers : HelloPanics(b)) \/ \E l \in Loaders : ReloadPanics(l)
  BY <1>3, <1>15 DEF HelloPanics, ReloadPanics, Ends, serverVars, browserVars
<1> QED BY <1>4, <1>5, <1>6, <1>7, <1>8, <1>9, <1>10, <1>11, <1>12, <1>13, <1>14, <1>15
        DEF Next, User, Open, Reconnect, Reload

LEMMA NatsFounded == IsWellFoundedOn({p \in Nat \X Nat : p[1] < p[2]}, Nat)
BY NatLessThanWellFounded, Zenon DEF OpToRel

\* The newest version of a page is that of some copy, and none is newer.
NewestFound ==
    \A p \in Pages :
        /\ Newest(p) \in Times
        /\ Newest(p) = globalData[p] \/ \E b \in Browsers : Newest(p) = data[b][p]
        /\ globalData[p] <= Newest(p) /\ \A b \in Browsers : data[b][p] <= Newest(p)

LEMMA NewestIs == TypeOK => NewestFound
<1> SUFFICES ASSUME TypeOK, NEW p \in Pages
             PROVE  /\ Newest(p) \in Times
                    /\ Newest(p) = globalData[p] \/ \E b \in Browsers : Newest(p) = data[b][p]
                    /\ globalData[p] <= Newest(p) /\ \A b \in Browsers : data[b][p] <= Newest(p)
  BY DEF NewestFound
<1> DEFINE All == {globalData[p]} \cup {data[b][p] : b \in Browsers}
           Left == {MaxTime - t : t \in All}
<1>1. All \subseteq Times /\ globalData[p] \in All /\ \A b \in Browsers : data[b][p] \in All
  BY DEF TypeOK, Copies
<1>2. \A t \in All : t \in Nat /\ MaxTime - t \in Left /\ MaxTime - t \in Nat
  <2> TAKE t \in All
  <2>1. t \in 0 .. MaxTime
    BY <1>1 DEF Times
  <2>2. MaxTime - t \in Left
    OBVIOUS
  <2> QED BY <2>1, <2>2, ScratchpadAssumption
<1>3. Left \subseteq Nat /\ Left # {}
  BY <1>1, <1>2
<1>4. PICK r \in Left : \A u \in Left : ~ (<<u, r>> \in {q \in Nat \X Nat : q[1] < q[2]})
  BY <1>3, NatsFounded, WFMin
<1>5. PICK t \in All : r = MaxTime - t
  OBVIOUS
<1>6. \A u \in All : u <= t
  <2> TAKE u \in All
  <2>1. MaxTime - u \in Left /\ MaxTime - u \in Nat /\ r \in Nat /\ u \in Nat /\ t \in Nat
    BY <1>2, <1>3
  <2>2. ~ (MaxTime - u < r)
    BY <1>4, <2>1
  <2> QED BY <1>5, <2>1, <2>2, ScratchpadAssumption
<1>7. \E x \in Times : /\ x = globalData[p] \/ \E b \in Browsers : x = data[b][p]
                       /\ globalData[p] <= x /\ \A b \in Browsers : data[b][p] <= x
  BY <1>1, <1>6
<1> QED BY <1>7 DEF Newest

\* The newest version of a page is never lost, in any step of any behaviour,
\* while no copy of the page was deleted or replaced by an older one.
THEOREM PagesKept == Spec => NothingLost
<1>1. ASSUME IInv, TypeOK, TypeOK', NewestFound, NewestFound', [Next]_vars
      PROVE  [\A p \in Pages : Newest(p)' < Newest(p) => fate'[p] = "lost"]_vars
  <2> SUFFICES ASSUME Next, NEW p \in Pages, Newest(p)' < Newest(p), fate'[p] # "lost"
               PROVE  FALSE
    BY <1>1
  <2>1. globalData'[p] >= globalData[p] /\ \A b \in Browsers : data'[b][p] >= data[b][p]
    BY <1>1, CopiesGrow DEF Fine
  <2>2. /\ Newest(p) \in Times
        /\ Newest(p) = globalData[p] \/ \E b \in Browsers : Newest(p) = data[b][p]
    BY <1>1 DEF NewestFound
  <2>3. /\ Newest(p)' \in Times
        /\ globalData'[p] <= Newest(p)' /\ \A b \in Browsers : data'[b][p] <= Newest(p)'
    BY <1>1 DEF NewestFound
  <2>4. /\ globalData[p] \in Nat /\ globalData'[p] \in Nat
        /\ \A b \in Browsers : data[b][p] \in Nat /\ data'[b][p] \in Nat
    BY <1>1 DEF TypeOK, Copies, Times
  <2>5. \A x \in Times : x \in Nat
    BY DEF Times
  <2> QED BY <2>1, <2>2, <2>3, <2>4, <2>5
<1> QED BY <1>1, Invariant, PadTypes, NewestIs, PTL DEF Spec, NothingLost
=============================================================================
