--------------------------- MODULE TabsStore_proofs ---------------------------
(***************************************************************************)
(* The tabs of a window, for any sessions that other windows left and any  *)
(* number of panes, ids and marks: the ids in use stay apart, every tab    *)
(* keeps an active pane of its own, nothing is kept for what is gone, and  *)
(* broadcasts go where they are meant to.                                  *)
(***************************************************************************)
EXTENDS TabsStore, FiniteSetTheorems, SequenceTheorems, WellFoundedInduction, TLAPS

\* What the parameters are.
Sized == IsFiniteSet(Pinned) /\ MaxPanes \in Nat \ {0}

\* The number of members of I before i.
Rank(I, i) == Cardinality({j \in I : j < i})

\* Each rank is that of one place.
LEMMA RankOf ==
    ASSUME NEW I \in SUBSET Nat, IsFiniteSet(I), NEW k \in 1 .. Cardinality(I)
    PROVE  /\ \E i \in I : Rank(I, i) = k - 1
           /\ \A i \in I : Rank(I, i) + 1 \in 1 .. Cardinality(I)
           /\ \A a, b \in I : Rank(I, a) = Rank(I, b) => a = b
<1> DEFINE n == Cardinality(I)
           f == [i \in I |-> Rank(I, i)]
<1>1. n \in Nat
  BY FS_CardinalityType
<1>2. ASSUME NEW i \in I
      PROVE  Rank(I, i) \in 0 .. n - 1
  <2>1. {j \in I : j < i} \in SUBSET I /\ {j \in I : j < i} # I
    OBVIOUS
  <2>2. IsFiniteSet({j \in I : j < i}) /\ Cardinality({j \in I : j < i}) <= n
        /\ Cardinality({j \in I : j < i}) # n
    BY <2>1, FS_Subset
  <2> QED BY <1>1, <2>2, FS_CardinalityType DEF Rank
<1>3. ASSUME NEW a \in I, NEW b \in I, a < b
      PROVE  Rank(I, a) # Rank(I, b)
  <2>0. \A x \in I : x \in Nat
    OBVIOUS
  <2>1. {j \in I : j < a} \in SUBSET {j \in I : j < b}
    <3>1. ASSUME NEW j \in I, j < a PROVE j < b
      BY <1>3, <2>0, <3>1
    <3> QED BY <3>1
  <2>2. a \in {j \in I : j < b} /\ a \notin {j \in I : j < a}
    BY <1>3, <2>0
  <2>3. IsFiniteSet({j \in I : j < b})
    BY FS_Subset
  <2> QED BY <2>1, <2>2, <2>3, FS_Subset DEF Rank
<1>4. f \in [I -> 0 .. n - 1]
  BY <1>2
<1>5. \A a, b \in I : f[a] = f[b] => a = b
  BY <1>3
<1> HIDE DEF f
<1>6. f \in Injection(I, 0 .. n - 1)
  BY <1>4, <1>5 DEF Injection, IsInjective
<1>7. IsFiniteSet(0 .. n - 1) /\ Cardinality(0 .. n - 1) = n
  <2>1. 0 \in Int /\ n - 1 \in Int /\ n - 1 - 0 + 1 = n /\ (0 > n - 1 => n = 0)
    BY <1>1
  <2> HIDE DEF n
  <2> QED BY <2>1, FS_Interval
<1>8. f \in Surjection(I, 0 .. n - 1)
  BY <1>6, <1>7, FS_Injection
<1>9. PICK i \in I : f[i] = k - 1
  BY <1>1, <1>8 DEF Surjection
<1>10. \A a, b \in I : Rank(I, a) = Rank(I, b) => a = b
  <2>1. \A a \in I : a \in Nat
    OBVIOUS
  <2>2. \A a, b \in Nat : a < b \/ b < a \/ a = b
    OBVIOUS
  <2> QED BY <1>3, <2>1, <2>2
<1> QED BY <1>1, <1>2, <1>9, <1>10 DEF f

LEMMA NatsFounded == IsWellFoundedOn({p \in Nat \X Nat : p[1] < p[2]}, Nat)
BY NatLessThanWellFounded, Zenon DEF OpToRel

\* findIndex finds the first place, or none.
LEMMA FirstIn ==
    ASSUME NEW I \in SUBSET (Nat \ {0})
    PROVE  /\ First(I) \in I \cup {0}
           /\ I # {} => First(I) \in I
           /\ \A i \in I : First(I) <= i
<1>1. CASE I = {}
  BY <1>1 DEF First
<1>2. CASE I # {}
  <2>1. PICK i \in I : \A j \in I : ~ (<<j, i>> \in {p \in Nat \X Nat : p[1] < p[2]})
    BY <1>2, NatsFounded, WFMin
  <2>2. ASSUME NEW j \in I PROVE i <= j
    <3>1. i \in Nat /\ j \in Nat
      OBVIOUS
    <3>2. ~ (j < i)
      BY <2>1, <3>1
    <3> QED BY <3>1, <3>2
  <2> QED BY <1>2, <2>2 DEF First
<1> QED BY <1>1, <1>2

-----------------------------------------------------------------------------
(* Whole tabs: ids in use were made before, once.                          *)

\* The ids of tabs and panes that were made before n.
Made(n) ==
    {Sess(s) : s \in Pinned} \cup {T(k) : k \in 1 .. n - 1} \cup {P(k) : k \in 1 .. n - 1}
      \cup {X(k) : k \in 1 .. n - 1}

IsPane(p) == p = [id |-> p.id, sess |-> p.sess, stolen |-> p.stolen]
IsTab(t) == t = [id |-> t.id, panes |-> t.panes, active |-> t.active, kind |-> t.kind]

IdsOf(t) == {t.panes[j].id : j \in DOMAIN t.panes}

IsList(s) == Len(s) \in Nat /\ s = [i \in 1 .. Len(s) |-> s[i]]

Shaped(ts) ==
    /\ IsList(ts)
    /\ \A i \in 1 .. Len(ts) : IsTab(ts[i])

PanesWhole(ps, n) ==
    /\ IsList(ps) /\ Len(ps) \in 1 .. MaxPanes
    /\ \A j \in 1 .. Len(ps) : IsPane(ps[j]) /\ ps[j].id \in Made(n)
    /\ \A j, l \in 1 .. Len(ps) : ps[j].id = ps[l].id => j = l

TabWhole(t, n) ==
    /\ IsTab(t) /\ t.id \in Made(n)
    /\ PanesWhole(t.panes, n) /\ Holds(t, t.active)

WholeTabs(ts, n) ==
    /\ Shaped(ts)
    /\ \A i \in 1 .. Len(ts) : TabWhole(ts[i], n)
    /\ \A i, k \in 1 .. Len(ts) :
          i # k => ts[i].id # ts[k].id /\ IdsOf(ts[i]) \cap IdsOf(ts[k]) = {}

LEMMA MadeBefore ==
    ASSUME NEW n \in Nat \ {0}, NEW m \in Nat, n <= m
    PROVE  /\ Made(n) \subseteq Made(m)
           /\ None \notin Made(n)
           /\ \A k \in n .. m - 1 : {T(k), P(k), X(k)} \subseteq Made(m) \ Made(n)
           /\ \A i, k \in Nat : P(i) = P(k) => i = k
<1>1. Made(n) \subseteq Made(m)
  BY DEF Made
<1>2. None \notin Made(n)
  BY DEF Made, None, Sess, T, P, X
<1>3. ASSUME NEW k \in n .. m - 1 PROVE {T(k), P(k), X(k)} \subseteq Made(m)
  BY DEF Made
<1>4. ASSUME NEW k \in n .. m - 1
      PROVE  T(k) \notin Made(n) /\ P(k) \notin Made(n) /\ X(k) \notin Made(n)
  BY DEF Made, Sess, T, P, X
<1>5. \A i, k \in Nat : P(i) = P(k) => i = k
  BY DEF P
<1> QED BY <1>1, <1>2, <1>3, <1>4, <1>5

LEMMA WholeLater ==
    ASSUME NEW n \in Nat \ {0}, NEW m \in Nat, n <= m
    PROVE  /\ \A t : TabWhole(t, n) => TabWhole(t, m)
           /\ \A ts : WholeTabs(ts, n) => WholeTabs(ts, m)
<1>1. Made(n) \subseteq Made(m)
  BY MadeBefore
<1>2. \A t : TabWhole(t, n) => TabWhole(t, m)
  BY <1>1 DEF TabWhole, PanesWhole
<1> QED BY <1>2 DEF WholeTabs

\* Some of the tabs, in another order.
LEMMA Selected ==
    ASSUME NEW ts, Shaped(ts), NEW k \in Nat, NEW f \in [1 .. k -> 1 .. Len(ts)],
           NEW new, Len(new) = k, new = [i \in 1 .. k |-> ts[f[i]]]
    PROVE  /\ Shaped(new)
           /\ \A n : WholeTabs(ts, n) /\ (\A a, b \in 1 .. k : f[a] = f[b] => a = b)
                       => WholeTabs(new, n)
<1>1. \A i \in 1 .. k : f[i] \in 1 .. Len(ts) /\ new[i] = ts[f[i]]
  OBVIOUS
<1>2. Shaped(new)
  BY <1>1 DEF Shaped, IsList
<1>3. ASSUME NEW n, WholeTabs(ts, n), \A a, b \in 1 .. k : f[a] = f[b] => a = b
      PROVE  WholeTabs(new, n)
  <2>1. \A i \in 1 .. k : TabWhole(new[i], n)
    BY <1>1, <1>3 DEF WholeTabs
  <2>2. ASSUME NEW a \in 1 .. k, NEW b \in 1 .. k, a # b
        PROVE  new[a].id # new[b].id /\ IdsOf(new[a]) \cap IdsOf(new[b]) = {}
    <3>1. f[a] # f[b] /\ f[a] \in 1 .. Len(ts) /\ f[b] \in 1 .. Len(ts)
      BY <1>1, <1>3, <2>2
    <3>2. /\ ts[f[a]].id # ts[f[b]].id
          /\ IdsOf(ts[f[a]]) \cap IdsOf(ts[f[b]]) = {}
      BY <1>3, <3>1 DEF WholeTabs
    <3>3. new[a] = ts[f[a]] /\ new[b] = ts[f[b]]
      BY <1>1
    <3> QED BY <3>2, <3>3
  <2> QED BY <1>2, <2>1, <2>2 DEF WholeTabs
<1> QED BY <1>2, <1>3

\* Another tab at the place of a tab.
LEMMA Replaced ==
    ASSUME NEW ts, Shaped(ts), NEW i \in 1 .. Len(ts), NEW t, IsTab(t)
    PROVE  /\ Shaped([ts EXCEPT ![i] = t])
           /\ \A n : WholeTabs(ts, n) /\ TabWhole(t, n) /\ t.id = ts[i].id
                     /\ (\A k \in 1 .. Len(ts) : k # i => IdsOf(t) \cap IdsOf(ts[k]) = {})
                       => WholeTabs([ts EXCEPT ![i] = t], n)
<1> PICK new : new = [ts EXCEPT ![i] = t]
  OBVIOUS
<1>1. Len(new) = Len(ts) /\ new = [k \in 1 .. Len(ts) |-> IF k = i THEN t ELSE ts[k]]
  <2>1. ts \in Seq({ts[k] : k \in 1 .. Len(ts)} \cup {t})
    BY DEF Shaped, IsList
  <2>2. DOMAIN ts = 1 .. Len(ts)
    BY DEF Shaped, IsList
  <2>3. Len(new) = Len(ts)
    BY <2>1, ExceptSeq
  <2> QED BY <2>2, <2>3
<1>2. Shaped(new)
  BY <1>1 DEF Shaped, IsList
<1>3. ASSUME NEW n, WholeTabs(ts, n), TabWhole(t, n), t.id = ts[i].id,
             \A k \in 1 .. Len(ts) : k # i => IdsOf(t) \cap IdsOf(ts[k]) = {}
      PROVE  WholeTabs(new, n)
  BY <1>1, <1>2, <1>3 DEF WholeTabs
<1> QED BY <1>2, <1>3

\* A new tab at the end.
LEMMA Appended ==
    ASSUME NEW ts, Shaped(ts), NEW t, IsTab(t)
    PROVE  /\ Shaped(Append(ts, t))
           /\ \A n : WholeTabs(ts, n) /\ TabWhole(t, n)
                     /\ (\A k \in 1 .. Len(ts) : t.id # ts[k].id /\ IdsOf(t) \cap IdsOf(ts[k]) = {})
                       => WholeTabs(Append(ts, t), n)
<1> PICK new : new = Append(ts, t)
  OBVIOUS
<1>1. /\ Len(new) = Len(ts) + 1
      /\ new = [k \in 1 .. Len(ts) + 1 |-> IF k = Len(ts) + 1 THEN t ELSE ts[k]]
  <2>1. ts \in Seq({ts[k] : k \in 1 .. Len(ts)} \cup {t})
    BY DEF Shaped, IsList
  <2>2. /\ Append(ts, t) \in Seq({ts[k] : k \in 1 .. Len(ts)} \cup {t})
        /\ Len(Append(ts, t)) = Len(ts) + 1
        /\ \A k \in 1 .. Len(ts) : Append(ts, t)[k] = ts[k]
        /\ Append(ts, t)[Len(ts) + 1] = t
    BY <2>1, AppendProperties
  <2>3. Append(ts, t) = [k \in 1 .. Len(ts) + 1 |-> Append(ts, t)[k]]
    BY <2>2, LenProperties
  <2> QED BY <2>2, <2>3 DEF Shaped, IsList
<1>2. Shaped(new)
  BY <1>1 DEF Shaped, IsList
<1>3. ASSUME NEW n, WholeTabs(ts, n), TabWhole(t, n),
             \A k \in 1 .. Len(ts) : t.id # ts[k].id /\ IdsOf(t) \cap IdsOf(ts[k]) = {}
      PROVE  WholeTabs(new, n)
  <2>1. \A k \in 1 .. Len(new) : TabWhole(new[k], n)
    BY <1>1, <1>3 DEF WholeTabs
  <2>2. \A k \in 1 .. Len(new) : new[k] = IF k = Len(ts) + 1 THEN t ELSE ts[k]
    BY <1>1
  <2>3. Len(ts) \in Nat
    BY DEF Shaped, IsList
  <2>4. ASSUME NEW a \in 1 .. Len(ts) + 1, NEW b \in 1 .. Len(ts) + 1, a # b
        PROVE  new[a].id # new[b].id /\ IdsOf(new[a]) \cap IdsOf(new[b]) = {}
    <3>1. CASE a = Len(ts) + 1
      <4>1. b \in 1 .. Len(ts) /\ new[a] = t /\ new[b] = ts[b]
        BY <1>1, <2>2, <2>3, <2>4, <3>1
      <4> QED BY <1>3, <4>1
    <3>2. CASE b = Len(ts) + 1
      <4>1. a \in 1 .. Len(ts) /\ new[b] = t /\ new[a] = ts[a]
        BY <1>1, <2>2, <2>3, <2>4, <3>2
      <4> QED BY <1>3, <4>1
    <3>3. CASE a # Len(ts) + 1 /\ b # Len(ts) + 1
      <4>1. /\ a \in 1 .. Len(ts) /\ b \in 1 .. Len(ts)
            /\ new[a] = ts[a] /\ new[b] = ts[b]
        BY <1>1, <2>2, <2>3, <3>3
      <4>2. ts[a].id # ts[b].id /\ IdsOf(ts[a]) \cap IdsOf(ts[b]) = {}
        BY <1>3, <2>4, <4>1 DEF WholeTabs
      <4> QED BY <4>1, <4>2
    <3> QED BY <3>1, <3>2, <3>3
  <2> QED BY <1>1, <1>2, <2>1, <2>4 DEF WholeTabs
<1> QED BY <1>2, <1>3

LEMMA Listed ==
    ASSUME NEW s, NEW n \in Nat, DOMAIN s = 1 .. n, s = [i \in 1 .. n |-> s[i]]
    PROVE  IsList(s) /\ Len(s) = n
BY DEF IsList

\* splice(j, 1)
LEMMA Removed ==
    ASSUME NEW s, IsList(s), NEW j \in 1 .. Len(s)
    PROVE  /\ IsList(RemoveAt(s, j)) /\ Len(RemoveAt(s, j)) = Len(s) - 1
           /\ \A k \in 1 .. Len(s) - 1 : RemoveAt(s, j)[k] = IF k < j THEN s[k] ELSE s[k + 1]
<1> DEFINE S == {s[k] : k \in 1 .. Len(s)}
<1> PICK n \in Nat : n = Len(s)
  BY DEF IsList
<1>1. /\ SubSeq(s, 1, j - 1) \in Seq(S) /\ Len(SubSeq(s, 1, j - 1)) = j - 1
      /\ \A k \in 1 .. j - 1 : SubSeq(s, 1, j - 1)[k] = s[k]
  <2>1. \A k \in 1 .. j - 1 : s[k] \in S
    OBVIOUS
  <2> HIDE DEF S
  <2> QED BY <2>1, SubSeqProperties
<1>2. /\ SubSeq(s, j + 1, n) \in Seq(S) /\ Len(SubSeq(s, j + 1, n)) = n - j
      /\ \A k \in 1 .. n - j : SubSeq(s, j + 1, n)[k] = s[k + j]
  <2>1. \A k \in j + 1 .. n : s[k] \in S
    OBVIOUS
  <2> HIDE DEF S
  <2> QED BY <2>1, SubSeqProperties
<1> HIDE DEF S
<1>3. /\ RemoveAt(s, j) \in Seq(S) /\ Len(RemoveAt(s, j)) = n - 1
      /\ \A k \in 1 .. n - 1 : RemoveAt(s, j)[k] = IF k < j THEN s[k] ELSE s[k + 1]
  <2> DEFINE a == SubSeq(s, 1, j - 1)
             b == SubSeq(s, j + 1, n)
  <2>1. RemoveAt(s, j) = a \o b
    BY DEF RemoveAt
  <2>2. /\ a \o b \in Seq(S) /\ Len(a \o b) = Len(a) + Len(b)
        /\ \A k \in 1 .. Len(a) + Len(b) : (a \o b)[k] = IF k <= Len(a) THEN a[k] ELSE b[k - Len(a)]
    BY <1>1, <1>2, ConcatProperties
  <2> HIDE DEF a, b
  <2>3. Len(a) = j - 1 /\ Len(b) = n - j
    BY <1>1, <1>2 DEF a, b
  <2>4. ASSUME NEW k \in 1 .. n - 1 PROVE (a \o b)[k] = IF k < j THEN s[k] ELSE s[k + 1]
    <3>1. CASE k < j
      BY <1>1, <2>2, <2>3, <3>1 DEF a
    <3>2. CASE ~ (k < j)
      <4>1. (a \o b)[k] = b[k - (j - 1)] /\ k - (j - 1) \in 1 .. n - j
        BY <2>2, <2>3, <3>2
      <4>2. b[k - (j - 1)] = s[k - (j - 1) + j]
        BY <1>2, <4>1 DEF b
      <4> QED BY <3>2, <4>1, <4>2
    <3> QED BY <3>1, <3>2
  <2>5. Len(a) + Len(b) = n - 1
    BY <2>3
  <2>6. a \o b \in Seq(S) /\ Len(a \o b) = n - 1
    BY <2>2, <2>5
  <2> QED BY <2>1, <2>4, <2>6
<1>4. IsList(RemoveAt(s, j))
  BY <1>3, LenProperties DEF IsList
<1> QED BY <1>3, <1>4

\* splice(i, 0, e)
LEMMA Inserted ==
    ASSUME NEW s, IsList(s), NEW i \in 1 .. Len(s) + 1, NEW e
    PROVE  /\ IsList(InsertAt(s, i, e)) /\ Len(InsertAt(s, i, e)) = Len(s) + 1
           /\ \A k \in 1 .. Len(s) + 1 :
                 InsertAt(s, i, e)[k] = IF k < i THEN s[k] ELSE IF k = i THEN e ELSE s[k - 1]
<1> DEFINE S == {s[k] : k \in 1 .. Len(s)} \cup {e}
<1> PICK n \in Nat : n = Len(s)
  BY DEF IsList
<1>1. /\ SubSeq(s, 1, i - 1) \in Seq(S) /\ Len(SubSeq(s, 1, i - 1)) = i - 1
      /\ \A k \in 1 .. i - 1 : SubSeq(s, 1, i - 1)[k] = s[k]
  <2>1. \A k \in 1 .. i - 1 : s[k] \in S
    OBVIOUS
  <2> HIDE DEF S
  <2> QED BY <2>1, SubSeqProperties
<1>2. /\ SubSeq(s, i, n) \in Seq(S) /\ Len(SubSeq(s, i, n)) = n - i + 1
      /\ \A k \in 1 .. n - i + 1 : SubSeq(s, i, n)[k] = s[i + k - 1]
  <2>1. \A k \in i .. n : s[k] \in S
    OBVIOUS
  <2> HIDE DEF S
  <2> QED BY <2>1, SubSeqProperties
<1>3. <<e>> \in Seq(S) /\ Len(<<e>>) = 1 /\ <<e>>[1] = e
  OBVIOUS
<1> HIDE DEF S
<1>4. /\ SubSeq(s, 1, i - 1) \o <<e>> \in Seq(S) /\ Len(SubSeq(s, 1, i - 1) \o <<e>>) = i
      /\ \A k \in 1 .. i : (SubSeq(s, 1, i - 1) \o <<e>>)[k] = IF k < i THEN s[k] ELSE e
  BY <1>1, <1>3, ConcatProperties
<1>5. /\ InsertAt(s, i, e) \in Seq(S) /\ Len(InsertAt(s, i, e)) = n + 1
      /\ \A k \in 1 .. n + 1 :
            InsertAt(s, i, e)[k] = IF k < i THEN s[k] ELSE IF k = i THEN e ELSE s[k - 1]
  <2> DEFINE a == SubSeq(s, 1, i - 1) \o <<e>>
             b == SubSeq(s, i, n)
  <2>1. InsertAt(s, i, e) = a \o b
    BY DEF InsertAt
  <2>0. /\ a \in Seq(S) /\ b \in Seq(S) /\ Len(a) = i /\ Len(b) = n - i + 1
        /\ \A k \in 1 .. i : a[k] = IF k < i THEN s[k] ELSE e
    BY <1>2, <1>4
  <2> HIDE DEF a
  <2>2. /\ a \o b \in Seq(S) /\ Len(a \o b) = Len(a) + Len(b)
        /\ \A k \in 1 .. Len(a) + Len(b) : (a \o b)[k] = IF k <= Len(a) THEN a[k] ELSE b[k - Len(a)]
    BY <2>0, ConcatProperties
  <2> HIDE DEF b
  <2>4. ASSUME NEW k \in 1 .. n + 1
        PROVE  (a \o b)[k] = IF k < i THEN s[k] ELSE IF k = i THEN e ELSE s[k - 1]
    <3>1. CASE k <= i
      BY <2>2, <2>0, <3>1
    <3>2. CASE ~ (k <= i)
      <4>1. (a \o b)[k] = b[k - i] /\ k - i \in 1 .. n - i + 1
        BY <2>2, <2>0, <3>2
      <4>2. b[k - i] = s[i + (k - i) - 1]
        BY <1>2, <4>1 DEF b
      <4> QED BY <3>2, <4>1, <4>2
    <3> QED BY <3>1, <3>2
  <2> QED BY <2>1, <2>2, <2>0, <2>4
<1>6. IsList(InsertAt(s, i, e))
  BY <1>5, LenProperties DEF IsList
<1> QED BY <1>5, <1>6

-----------------------------------------------------------------------------
(* The invariant, and what each way to write the tabs needs to keep it.    *)

Sound(ts, a, n) == n \in Nat \ {0} /\ a \in Made(n) \cup {None} /\ WholeTabs(ts, n)

TabsInv ==
    /\ Sized
    /\ Shaped(tabs)
    /\ doubled \/ Sound(tabs, activeTab, next)
    /\ unread \subseteq TabIds(tabs) /\ marks \subseteq PaneIds(tabs)

LEMMA SetSafe ==
    ASSUME TabsInv, NEW new, SetTabs(new), Shaped(new), doubled \/ Sound(new, activeTab', next')
    PROVE  TabsInv'
<1>1. tabs' = new /\ unread' \subseteq TabIds(new) /\ marks' \subseteq PaneIds(new)
  BY DEF SetTabs, Cleanup
<1>2. doubled' <=> doubled
  BY DEF SetTabs
<1>3. Sized
  BY DEF TabsInv
<1> QED BY <1>1, <1>2, <1>3 DEF TabsInv, Sized

LEMMA Ids ==
    ASSUME NEW ts, Shaped(ts)
    PROVE  /\ DOMAIN ts = 1 .. Len(ts) /\ Len(ts) \in Nat
           /\ TabIds(ts) = {ts[i].id : i \in 1 .. Len(ts)}
           /\ PaneIds(ts) = UNION {IdsOf(ts[i]) : i \in 1 .. Len(ts)}
<1>1. DOMAIN ts = 1 .. Len(ts) /\ Len(ts) \in Nat
  BY DEF Shaped, IsList
<1>2. TabIds(ts) = {ts[i].id : i \in 1 .. Len(ts)}
  BY <1>1 DEF TabIds, ToSet
<1>3. PaneIds(ts) = UNION {IdsOf(ts[i]) : i \in 1 .. Len(ts)}
  BY <1>1 DEF PaneIds, PanesOf, ToSet, IdsOf
<1> QED BY <1>1, <1>2, <1>3

LEMMA IdsMade ==
    ASSUME NEW t, NEW n, TabWhole(t, n)
    PROVE  IdsOf(t) = {t.panes[j].id : j \in 1 .. Len(t.panes)} /\ IdsOf(t) \subseteq Made(n)
<1>1. DOMAIN t.panes = 1 .. Len(t.panes)
  BY DEF TabWhole, PanesWhole, IsList
<1>2. \A j \in 1 .. Len(t.panes) : t.panes[j].id \in Made(n)
  BY DEF TabWhole, PanesWhole
<1> QED BY <1>1, <1>2 DEF IdsOf

LEMMA TabAt ==
    ASSUME TabsInv, NEW id
    PROVE  /\ TabIdx(id) \in 0 .. Len(tabs)
           /\ TabIdx(id) # 0 => tabs[TabIdx(id)].id = id
           /\ id \in TabIds(tabs) <=> TabIdx(id) # 0
<1> DEFINE I == {i \in DOMAIN tabs : tabs[i].id = id}
<1>1. I \in SUBSET (Nat \ {0}) /\ DOMAIN tabs = 1 .. Len(tabs)
  BY Ids DEF TabsInv
<1>2. /\ TabIdx(id) \in I \cup {0} /\ (I # {} => TabIdx(id) \in I)
  BY <1>1, FirstIn DEF TabIdx
<1>3. id \in TabIds(tabs) <=> I # {}
  BY <1>1, Ids DEF TabsInv
<1> QED BY <1>1, <1>2, <1>3, Ids DEF TabsInv

LEMMA HolderAt ==
    ASSUME TabsInv, NEW p
    PROVE  /\ HolderIdx(p) \in 0 .. Len(tabs)
           /\ HolderIdx(p) # 0 => Holds(tabs[HolderIdx(p)], p)
           /\ HolderIdx(p) = 0 => \A i \in 1 .. Len(tabs) : p \notin IdsOf(tabs[i])
<1> DEFINE I == {i \in DOMAIN tabs : Holds(tabs[i], p)}
<1>1. I \in SUBSET (Nat \ {0}) /\ DOMAIN tabs = 1 .. Len(tabs)
  BY Ids DEF TabsInv
<1>2. /\ HolderIdx(p) \in I \cup {0} /\ (I # {} => HolderIdx(p) \in I)
  BY <1>1, FirstIn DEF HolderIdx
<1>3. \A i \in 1 .. Len(tabs) : p \in IdsOf(tabs[i]) => i \in I
  BY <1>1 DEF Holds, IdsOf
<1> QED BY <1>1, <1>2, <1>3, Ids DEF TabsInv

LEMMA PaneAt ==
    ASSUME NEW t, NEW n, TabWhole(t, n), NEW p, Holds(t, p)
    PROVE  PaneIdx(t, p) \in 1 .. Len(t.panes) /\ t.panes[PaneIdx(t, p)].id = p
<1> DEFINE I == {j \in DOMAIN t.panes : t.panes[j].id = p}
<1>1. I \in SUBSET (Nat \ {0}) /\ DOMAIN t.panes = 1 .. Len(t.panes)
  BY DEF TabWhole, PanesWhole, IsList
<1>2. I # {}
  BY DEF Holds
<1>3. PaneIdx(t, p) \in I
  BY <1>1, <1>2, FirstIn DEF PaneIdx
<1> QED BY <1>1, <1>3

\* Tabs are taken away or change places.
LEMMA SelectSafe ==
    ASSUME TabsInv, NEW new, SetTabs(new), IsList(new),
           NEW f \in [1 .. Len(new) -> 1 .. Len(tabs)],
           \A i \in 1 .. Len(new) : new[i] = tabs[f[i]],
           doubled \/ \A a, b \in 1 .. Len(new) : f[a] = f[b] => a = b,
           next' = next,
           doubled \/ activeTab' \in {None, activeTab} \cup TabIds(tabs)
    PROVE  TabsInv'
<1>1. Len(new) \in Nat /\ new = [i \in 1 .. Len(new) |-> tabs[f[i]]]
  BY DEF IsList
<1>2. Shaped(tabs)
  BY DEF TabsInv
<1>3. Shaped(new)
  BY <1>1, <1>2, Selected
<1>4. CASE doubled
  BY <1>3, <1>4, SetSafe
<1>5. CASE ~doubled
  <2>1. Sound(tabs, activeTab, next)
    BY <1>5 DEF TabsInv
  <2>2. WholeTabs(new, next)
    BY <1>1, <1>2, <1>5, <2>1, Selected DEF Sound
  <2>3. TabIds(tabs) \subseteq Made(next)
    BY <1>2, <2>1, Ids DEF Sound, WholeTabs, TabWhole
  <2>4. Sound(new, activeTab', next')
    BY <1>5, <2>1, <2>2, <2>3 DEF Sound
  <2> QED BY <1>3, <2>4, SetSafe
<1> QED BY <1>4, <1>5

\* Another tab at the place of a tab.
LEMMA ChangeSafe ==
    ASSUME TabsInv, NEW i \in 1 .. Len(tabs), NEW t, IsTab(t),
           SetTabs([tabs EXCEPT ![i] = t]),
           doubled \/
              /\ next' \in Nat /\ next <= next' /\ activeTab' \in {activeTab, tabs[i].id}
              /\ t.id = tabs[i].id /\ TabWhole(t, next')
              /\ \A x \in IdsOf(t) : x \in IdsOf(tabs[i]) \/ x \notin Made(next)
                                     \/ \A k \in 1 .. Len(tabs) : x \notin IdsOf(tabs[k])
    PROVE  TabsInv'
<1>1. Shaped(tabs)
  BY DEF TabsInv
<1>2. Shaped([tabs EXCEPT ![i] = t])
  BY <1>1, Replaced
<1>3. CASE doubled
  BY <1>2, <1>3, SetSafe
<1>4. CASE ~doubled
  <2>1. Sound(tabs, activeTab, next)
    BY <1>4 DEF TabsInv
  <2>2. WholeTabs(tabs, next') /\ Made(next) \subseteq Made(next')
    BY <1>4, <2>1, WholeLater, MadeBefore DEF Sound
  <2>3. ASSUME NEW k \in 1 .. Len(tabs), k # i PROVE IdsOf(t) \cap IdsOf(tabs[k]) = {}
    <3>1. IdsOf(tabs[k]) \subseteq Made(next)
      BY <2>1, IdsMade DEF Sound, WholeTabs
    <3>2. IdsOf(tabs[i]) \cap IdsOf(tabs[k]) = {}
      BY <2>1, <2>3 DEF Sound, WholeTabs
    <3> QED BY <1>4, <3>1, <3>2
  <2>4. WholeTabs([tabs EXCEPT ![i] = t], next')
    BY <1>1, <1>4, <2>2, <2>3, Replaced
  <2>5. tabs[i].id \in Made(next)
    BY <2>1 DEF Sound, WholeTabs, TabWhole
  <2>6. Sound([tabs EXCEPT ![i] = t], activeTab', next')
    BY <1>4, <2>1, <2>2, <2>4, <2>5 DEF Sound
  <2> QED BY <1>2, <2>6, SetSafe
<1> QED BY <1>3, <1>4

\* A new tab at the end.
LEMMA OpenSafe ==
    ASSUME TabsInv, NEW id, NEW ps, NEW kind, OpenTab(id, ps, kind),
           doubled \/
              /\ next' \in Nat /\ next <= next' /\ id \in Made(next') /\ PanesWhole(ps, next')
              /\ id \notin TabIds(tabs)
              /\ \A x \in {ps[j].id : j \in 1 .. Len(ps)} :
                    x \notin Made(next) \/ \A k \in 1 .. Len(tabs) : x \notin IdsOf(tabs[k])
    PROVE  TabsInv'
<1> PICK t : t = Tab(id, ps, kind)
  OBVIOUS
<1>1. IsTab(t) /\ t.id = id /\ t.panes = ps /\ t.active = ps[1].id
  BY DEF Tab, IsTab
<1>2. Shaped(tabs)
  BY DEF TabsInv
<1>3. Shaped(Append(tabs, t))
  BY <1>1, <1>2, Appended
<1>4. SetTabs(Append(tabs, t)) /\ activeTab' = id
  BY DEF OpenTab, Focus
<1>5. CASE doubled
  BY <1>3, <1>4, <1>5, SetSafe
<1>6. CASE ~doubled
  <2>1. Sound(tabs, activeTab, next)
    BY <1>6 DEF TabsInv
  <2>2. WholeTabs(tabs, next')
    BY <1>6, <2>1, WholeLater DEF Sound
  <2>3. TabWhole(t, next')
    BY <1>1, <1>6 DEF TabWhole, PanesWhole, IsList, Holds
  <2>4. ASSUME NEW k \in 1 .. Len(tabs)
        PROVE  t.id # tabs[k].id /\ IdsOf(t) \cap IdsOf(tabs[k]) = {}
    <3>1. IdsOf(tabs[k]) \subseteq Made(next)
      BY <2>1, IdsMade DEF Sound, WholeTabs
    <3>2. IdsOf(t) = {ps[j].id : j \in 1 .. Len(ps)}
      BY <1>1, <1>6 DEF PanesWhole, IsList, IdsOf
    <3>3. t.id # tabs[k].id
      BY <1>1, <1>2, <1>6, Ids
    <3> QED BY <1>6, <3>1, <3>2, <3>3
  <2>5. WholeTabs(Append(tabs, t), next')
    BY <1>1, <1>2, <2>2, <2>3, <2>4, Appended
  <2>6. Sound(Append(tabs, t), activeTab', next')
    BY <1>4, <1>6, <2>1, <2>5 DEF Sound
  <2> QED BY <1>3, <1>4, <2>6, SetSafe
<1> QED BY <1>5, <1>6

\* Only active panes of tabs change.
LEMMA ActivateSafe ==
    ASSUME TabsInv, NEW h \in 1 .. Len(tabs), NEW p, doubled \/ Holds(tabs[h], p),
           Activate(p, tabs[h].id)
    PROVE  TabsInv'
<1>1. Shaped(tabs) /\ DOMAIN tabs = 1 .. Len(tabs) /\ Len(tabs) \in Nat
  BY Ids DEF TabsInv
<1>2. ASSUME NEW i \in 1 .. Len(tabs)
      PROVE  /\ IsTab(tabs'[i]) /\ tabs'[i].id = tabs[i].id /\ tabs'[i].panes = tabs[i].panes
             /\ tabs'[i].active = IF tabs[i].id = tabs[h].id THEN p ELSE tabs[i].active
  <2>1. tabs'[i] = IF tabs[i].id = tabs[h].id THEN [tabs[i] EXCEPT !.active = p] ELSE tabs[i]
    BY <1>1 DEF Activate
  <2>2. IsTab(tabs[i])
    BY <1>1 DEF Shaped
  <2> QED BY <2>1, <2>2 DEF IsTab
<1>3. IsList(tabs') /\ Len(tabs') = Len(tabs)
  <2>1. DOMAIN tabs' = 1 .. Len(tabs) /\ tabs' = [i \in 1 .. Len(tabs) |-> tabs'[i]]
    BY <1>1 DEF Activate
  <2> QED BY <1>1, <2>1, Listed
<1>4. Shaped(tabs')
  BY <1>2, <1>3 DEF Shaped
<1>5. \A i \in 1 .. Len(tabs) : IdsOf(tabs'[i]) = IdsOf(tabs[i])
  BY <1>2 DEF IdsOf
<1>6. TabIds(tabs') = TabIds(tabs) /\ PaneIds(tabs') = PaneIds(tabs)
  <2>1. TabIds(tabs) = {tabs[i].id : i \in 1 .. Len(tabs)}
    BY <1>1, Ids
  <2>2. TabIds(tabs') = {tabs'[i].id : i \in 1 .. Len(tabs)}
    BY <1>3, <1>4, Ids
  <2>3. PaneIds(tabs) = UNION {IdsOf(tabs[i]) : i \in 1 .. Len(tabs)}
    BY <1>1, Ids
  <2>4. PaneIds(tabs') = UNION {IdsOf(tabs'[i]) : i \in 1 .. Len(tabs)}
    BY <1>3, <1>4, Ids
  <2>5. TabIds(tabs') = TabIds(tabs)
    BY <1>2, <2>1, <2>2
  <2> QED BY <1>5, <2>3, <2>4, <2>5
<1>7. CASE doubled
  BY <1>4, <1>6, <1>7 DEF TabsInv, Activate
<1>8. CASE ~doubled
  <2>1. Sound(tabs, activeTab, next)
    BY <1>8 DEF TabsInv
  <2>2. ASSUME NEW i \in 1 .. Len(tabs) PROVE TabWhole(tabs'[i], next)
    <3>1. TabWhole(tabs[i], next)
      BY <2>1 DEF Sound, WholeTabs
    <3>2. Holds(tabs'[i], tabs'[i].active)
      <4>1. CASE tabs[i].id = tabs[h].id
        <5>1. i = h
          BY <2>1, <4>1 DEF Sound, WholeTabs
        <5> QED BY <1>2, <1>8, <4>1, <5>1 DEF Holds
      <4>2. CASE tabs[i].id # tabs[h].id
        BY <1>2, <3>1, <4>2 DEF TabWhole, Holds
      <4> QED BY <4>1, <4>2
    <3> QED BY <1>2, <3>1, <3>2 DEF TabWhole
  <2>3. WholeTabs(tabs', next)
    BY <1>2, <1>3, <1>4, <1>5, <2>1, <2>2 DEF Sound, WholeTabs
  <2>4. tabs[h].id \in Made(next) /\ activeTab' = tabs[h].id /\ next' = next
    BY <2>1 DEF Sound, WholeTabs, TabWhole, Activate, Focus
  <2>5. Sound(tabs', activeTab', next')
    BY <2>1, <2>3, <2>4 DEF Sound
  <2> QED BY <1>4, <1>6, <2>5 DEF TabsInv, Activate
<1> QED BY <1>7, <1>8

-----------------------------------------------------------------------------
(* Opening.                                                                *)

LEMMA MinIn ==
    ASSUME NEW I \in SUBSET Nat, I # {}
    PROVE  Min(I) \in I
<1>1. PICK i \in I : \A j \in I : ~ (<<j, i>> \in {p \in Nat \X Nat : p[1] < p[2]})
  BY NatsFounded, WFMin
<1>2. ASSUME NEW j \in I PROVE i <= j
  <2>1. i \in Nat /\ j \in Nat
    OBVIOUS
  <2>2. ~ (j < i)
    BY <1>1, <2>1
  <2> QED BY <2>1, <2>2
<1> QED BY <1>2 DEF Min

\* The panes of a new tab.
LEMMA OnePane ==
    ASSUME Sized, NEW n, NEW x \in Made(n), NEW y
    PROVE  PanesWhole(<<Pane(x, y)>>, n) /\ \A j \in 1 .. 1 : <<Pane(x, y)>>[j].id = x
<1> PICK p : p = Pane(x, y)
  OBVIOUS
<1>1. IsPane(p) /\ p.id = x
  BY DEF Pane, IsPane
<1>2. Len(<<p>>) = 1 /\ <<p>>[1] = p /\ <<p>> = [i \in 1 .. 1 |-> <<p>>[i]]
  OBVIOUS
<1>3. PanesWhole(<<p>>, n)
  BY <1>1, <1>2 DEF PanesWhole, IsList, Sized
<1> QED BY <1>1, <1>2, <1>3

LEMMA OpenOneSafe ==
    ASSUME TabsInv, NEW id, NEW x, NEW y, NEW kind, OpenTab(id, <<Pane(x, y)>>, kind),
           doubled \/
              /\ next' \in Nat /\ next <= next' /\ id \in Made(next') /\ x \in Made(next')
              /\ id \notin TabIds(tabs)
              /\ x \notin Made(next) \/ \A k \in 1 .. Len(tabs) : x \notin IdsOf(tabs[k])
    PROVE  TabsInv'
<1> PICK ps : ps = <<Pane(x, y)>>
  OBVIOUS
<1>1. CASE doubled
  BY <1>1, OpenSafe
<1>2. CASE ~doubled
  <2>1. PanesWhole(ps, next') /\ Len(ps) = 1 /\ \A j \in 1 .. 1 : ps[j].id = x
    <3>1. Sized
      BY DEF TabsInv
    <3> QED BY <1>2, <3>1, OnePane
  <2> QED BY <1>2, <2>1, OpenSafe
<1> QED BY <1>1, <1>2

LEMMA Fresh ==
    ASSUME TabsInv, ~doubled, NEW k \in Nat, MakesIds(k)
    PROVE  /\ next \in Nat \ {0} /\ next' = next + k /\ next' \in Nat /\ next <= next'
           /\ Made(next) \subseteq Made(next')
           /\ \A i \in next .. next' - 1 : {T(i), P(i), X(i)} \subseteq Made(next') \ Made(next)
           /\ TabIds(tabs) \subseteq Made(next)
           /\ None \notin Made(next)
<1>1. Sound(tabs, activeTab, next) /\ Shaped(tabs)
  BY DEF TabsInv
<1>2. next \in Nat \ {0} /\ next' = next + k
  BY <1>1 DEF Sound, MakesIds
<1>3. TabIds(tabs) \subseteq Made(next)
  BY <1>1, Ids DEF Sound, WholeTabs, TabWhole
<1>4. next' \in Nat /\ next <= next'
  BY <1>2
<1> QED BY <1>2, <1>3, <1>4, MadeBefore

LEMMA AddSafe ==
    ASSUME TabsInv, NEW i \in 1 .. Len(tabs), NEW x, Len(tabs[i].panes) < MaxPanes,
           SetTabs(AddPane(i, Pane(x, x))),
           doubled \/
              /\ next' \in Nat /\ next <= next' /\ activeTab' \in {activeTab, tabs[i].id}
              /\ x \in Made(next')
              /\ x \notin Made(next) \/ \A k \in 1 .. Len(tabs) : x \notin IdsOf(tabs[k])
    PROVE  TabsInv'
<1>p. PICK p : p = Pane(x, x)
  OBVIOUS
<1>1. IsPane(p) /\ p.id = x
  BY <1>p DEF Pane, IsPane
<1>t. PICK t : t = WithPanes(tabs[i], Append(tabs[i].panes, p), p.id)
  OBVIOUS
<1>2. IsTab(t) /\ t.id = tabs[i].id /\ t.panes = Append(tabs[i].panes, p) /\ t.active = x
  BY <1>1, <1>t DEF IsTab, WithPanes
<1>3. AddPane(i, p) = [tabs EXCEPT ![i] = t]
  <2>1. i \in DOMAIN tabs
    BY Ids DEF TabsInv
  <2> QED BY <2>1, <1>t DEF AddPane
<1>4. SetTabs([tabs EXCEPT ![i] = t])
  BY <1>3, <1>p
<1>5. CASE doubled
  BY <1>2, <1>4, <1>5, ChangeSafe
<1>6. CASE ~doubled
  <2>1. Sound(tabs, activeTab, next)
    BY <1>6 DEF TabsInv
  <2>2. TabWhole(tabs[i], next') /\ TabWhole(tabs[i], next)
    BY <1>6, <2>1, WholeLater DEF Sound, WholeTabs
  <2> PICK ps : ps = tabs[i].panes
    OBVIOUS
  <2>3. PanesWhole(ps, next') /\ Len(ps) < MaxPanes
    BY <2>2 DEF TabWhole
  <2>4. \A j \in 1 .. Len(ps) : ps[j].id # x
    <3>1. IdsOf(tabs[i]) = {ps[j].id : j \in 1 .. Len(ps)} /\ IdsOf(tabs[i]) \subseteq Made(next)
      BY <2>2, IdsMade
    <3>2. x \notin IdsOf(tabs[i])
      BY <1>6, <3>1
    <3> QED BY <3>1, <3>2
  <2>5. /\ IsList(Append(ps, p)) /\ Len(Append(ps, p)) = Len(ps) + 1
        /\ \A j \in 1 .. Len(ps) + 1 : Append(ps, p)[j] = IF j = Len(ps) + 1 THEN p ELSE ps[j]
    <3>1. ps \in Seq({ps[k] : k \in 1 .. Len(ps)} \cup {p})
      BY <2>3 DEF PanesWhole, IsList
    <3>2. Len(ps) \in Nat
      BY <2>3 DEF PanesWhole, IsList
    <3> QED BY <3>1, <3>2, AppendProperties, LenProperties DEF IsList
  <2>6. PanesWhole(Append(ps, p), next')
    <3> PICK q : q = Append(ps, p)
      OBVIOUS
    <3>1. Len(ps) \in Nat /\ MaxPanes \in Nat
      BY <2>3 DEF PanesWhole, IsList, TabsInv, Sized
    <3>2. \A j \in 1 .. Len(q) : IsPane(q[j]) /\ q[j].id \in Made(next')
      BY <1>1, <1>6, <2>3, <2>5, <3>1 DEF PanesWhole
    <3>3. ASSUME NEW j \in 1 .. Len(q), NEW l \in 1 .. Len(q), q[j].id = q[l].id
          PROVE  j = l
      <4>1. CASE j = Len(ps) + 1
        <5>1. q[j].id = x
          BY <1>1, <2>5, <4>1
        <5>2. ASSUME l # Len(ps) + 1 PROVE FALSE
          <6>1. l \in 1 .. Len(ps) /\ q[l] = ps[l]
            BY <2>5, <3>1, <5>2
          <6> QED BY <2>4, <3>3, <5>1, <6>1
        <5> QED BY <4>1, <5>2
      <4>2. CASE j # Len(ps) + 1
        <5>1. j \in 1 .. Len(ps) /\ q[j] = ps[j]
          BY <2>5, <3>1, <4>2
        <5>2. l # Len(ps) + 1
          BY <1>1, <2>4, <2>5, <3>3, <5>1
        <5>3. l \in 1 .. Len(ps) /\ q[l] = ps[l]
          BY <2>5, <3>1, <5>2
        <5> QED BY <2>3, <3>3, <5>1, <5>3 DEF PanesWhole
      <4> QED BY <4>1, <4>2
    <3> QED BY <2>3, <2>5, <3>1, <3>2, <3>3 DEF PanesWhole
  <2>7. Len(ps) + 1 \in DOMAIN t.panes /\ t.panes[Len(ps) + 1].id = x
    BY <1>1, <1>2, <2>3, <2>5 DEF PanesWhole, IsList
  <2>8. TabWhole(t, next')
    BY <1>2, <2>2, <2>6, <2>7 DEF TabWhole, Holds
  <2>9. \A z \in IdsOf(t) : z \in IdsOf(tabs[i]) \/ z = x
    <3>1. IdsOf(t) = {t.panes[j].id : j \in 1 .. Len(t.panes)}
      BY <2>8, IdsMade
    <3>2. IdsOf(tabs[i]) = {ps[j].id : j \in 1 .. Len(ps)}
      BY <2>2, IdsMade
    <3>3. Len(ps) \in Nat
      BY <2>3 DEF PanesWhole, IsList
    <3>4. ASSUME NEW j \in 1 .. Len(ps) + 1
          PROVE  t.panes[j].id = x \/ t.panes[j].id \in IdsOf(tabs[i])
      BY <1>1, <1>2, <2>5, <3>2, <3>3
    <3> QED BY <1>2, <2>5, <3>1, <3>4
  <2> QED BY <1>2, <1>4, <1>6, <2>8, <2>9, ChangeSafe
<1> QED BY <1>5, <1>6

LEMMA RunningMade ==
    ASSUME TabsInv, ~doubled PROVE Running \subseteq Made(next)
<1>1. next \in Nat \ {0}
  BY DEF TabsInv, Sound
<1> QED BY <1>1 DEF Running, Made

LEMMA OpenHostSafe ==
    ASSUME TabsInv, NEW id \in Running \cup {None}, NEW target \in {None, activeTab},
           OpenHost(id, target)
    PROVE  TabsInv'
<1>h. PICK h : h = HolderIdx(id)
  OBVIOUS
<1>i. PICK i : i = TabIdx(target)
  OBVIOUS
<1>f. PICK fresh : fresh = IF id = None THEN P(next) ELSE id
  OBVIOUS
<1>1. h \in 0 .. Len(tabs) /\ (h # 0 => Holds(tabs[h], id))
      /\ (h = 0 => \A k \in 1 .. Len(tabs) : id \notin IdsOf(tabs[k]))
  BY <1>h, HolderAt
<1>2. i \in 0 .. Len(tabs) /\ (i # 0 => tabs[i].id = target) /\ (target \in TabIds(tabs) <=> i # 0)
  BY <1>i, TabAt
<1>0. Len(tabs) \in Nat
  BY Ids DEF TabsInv
<1>3. CASE id # None /\ h # 0
  <2>1. Activate(id, tabs[h].id)
    BY <1>3, <1>h DEF OpenHost
  <2>2. h \in 1 .. Len(tabs)
    BY <1>0, <1>1, <1>3
  <2> QED BY <1>1, <1>3, <2>1, <2>2, ActivateSafe
<1>4. ASSUME ~ (id # None /\ h # 0), ~doubled, MakesIds(1)
      PROVE  /\ next' \in Nat /\ next <= next' /\ fresh \in Made(next')
             /\ T(next) \in Made(next') \ Made(next)
             /\ fresh \notin Made(next) \/ \A k \in 1 .. Len(tabs) : fresh \notin IdsOf(tabs[k])
             /\ TabIds(tabs) \subseteq Made(next) /\ activeTab \in Made(next') \cup {None}
  <2>1. next \in Nat \ {0} /\ next' = next + 1 /\ Made(next) \subseteq Made(next')
        /\ TabIds(tabs) \subseteq Made(next)
        /\ \A k \in next .. next' - 1 : {T(k), P(k), X(k)} \subseteq Made(next') \ Made(next)
    BY <1>4, Fresh
  <2>2. next \in next .. next' - 1
    BY <2>1
  <2>3. activeTab \in Made(next) \cup {None}
    BY <1>4 DEF TabsInv, Sound
  <2>4. CASE id = None
    BY <1>f, <2>1, <2>2, <2>3, <2>4
  <2>5. CASE id # None
    <3>1. fresh = id /\ h = 0 /\ id \in Running
      BY <1>4, <1>f, <2>5
    <3>2. id \in Made(next)
      BY <1>4, <3>1, RunningMade
    <3> QED BY <1>1, <2>1, <2>2, <2>3, <3>1, <3>2
  <2> QED BY <2>4, <2>5
<1>5. CASE ~ (id # None /\ h # 0) /\ i # 0
  <2>1. /\ Len(tabs[i].panes) < MaxPanes /\ MakesIds(1)
        /\ SetTabs(AddPane(i, Pane(fresh, fresh))) /\ activeTab' = target
    BY <1>5, <1>h, <1>i, <1>f DEF OpenHost, Focus
  <2>2. i \in 1 .. Len(tabs)
    BY <1>0, <1>2, <1>5
  <2> QED BY <1>2, <1>4, <1>5, <2>1, <2>2, AddSafe
<1>6. CASE ~ (id # None /\ h # 0) /\ i = 0
  <2>t. PICK t : t = IF target = None THEN T(next) ELSE target
    OBVIOUS
  <2>1. MakesIds(1) /\ OpenTab(t, <<Pane(fresh, fresh)>>, "terminal")
    BY <1>6, <1>h, <1>i, <1>f, <2>t DEF OpenHost
  <2>2. CASE doubled
    BY <2>1, <2>2, OpenOneSafe
  <2>3. CASE ~doubled
    <3>1. t \in Made(next') /\ t \notin TabIds(tabs)
      BY <1>2, <1>4, <1>6, <2>1, <2>3, <2>t
    <3> QED BY <1>4, <1>6, <2>1, <2>3, <3>1, OpenOneSafe
  <2> QED BY <2>2, <2>3
<1> QED BY <1>3, <1>5, <1>6

LEMMA SplitSafe == ASSUME TabsInv, OpenHostsAsSplit PROVE TabsInv'
<1>1. PICK n \in 2 .. MaxPanes :
        /\ MakesIds(n)
        /\ OpenTab(T(next), [k \in 1 .. n |-> Pane(P(next + k - 1), P(next + k - 1))], "terminal")
  BY DEF OpenHostsAsSplit
<1>p. PICK ps : ps = [k \in 1 .. n |-> Pane(P(next + k - 1), P(next + k - 1))]
  OBVIOUS
<1>2. CASE doubled
  BY <1>1, <1>2, OpenSafe
<1>3. CASE ~doubled
  <2>0. n \in Nat
    BY DEF TabsInv, Sized
  <2>1. next \in Nat \ {0} /\ next' = next + n /\ next' \in Nat /\ next <= next'
        /\ TabIds(tabs) \subseteq Made(next)
        /\ \A k \in next .. next' - 1 : {T(k), P(k), X(k)} \subseteq Made(next') \ Made(next)
    BY <1>1, <1>3, <2>0, Fresh
  <2>2. \A k \in 1 .. n : next + k - 1 \in next .. next' - 1
    BY <2>0, <2>1
  <2>3. IsList(ps) /\ Len(ps) = n
    BY <1>p, <2>0, Listed
  <2>4. ASSUME NEW k \in 1 .. n
        PROVE  /\ IsPane(ps[k]) /\ ps[k].id = P(next + k - 1)
               /\ P(next + k - 1) \in Made(next') \ Made(next)
    <3>1. P(next + k - 1) \in Made(next') \ Made(next)
      BY <2>1, <2>2
    <3>2. ps[k] = Pane(P(next + k - 1), P(next + k - 1))
      BY <1>p
    <3> QED BY <3>1, <3>2 DEF Pane, IsPane
  <2>5. \A j, l \in 1 .. n : ps[j].id = ps[l].id => j = l
    <3> SUFFICES ASSUME NEW j \in 1 .. n, NEW l \in 1 .. n, ps[j].id = ps[l].id PROVE j = l
      OBVIOUS
    <3>1. P(next + j - 1) = P(next + l - 1)
      BY <2>4
    <3>2. next + j - 1 \in Nat /\ next + l - 1 \in Nat
      BY <2>0, <2>1
    <3>3. next + j - 1 = next + l - 1
      BY <2>1, <3>1, <3>2, MadeBefore
    <3> QED BY <2>0, <2>1, <3>3
  <2>6. PanesWhole(ps, next')
    BY <2>0, <2>3, <2>4, <2>5 DEF PanesWhole
  <2>7. T(next) \in Made(next') /\ T(next) \notin TabIds(tabs)
    BY <2>0, <2>1
  <2> QED BY <1>1, <1>3, <1>p, <2>1, <2>3, <2>4, <2>6, <2>7, OpenSafe
<1> QED BY <1>2, <1>3

\* Only the focus moves.
LEMMA SameSafe ==
    ASSUME TabsInv, SetTabs(tabs), next' = next,
           activeTab' = activeTab \/ \E i \in 1 .. Len(tabs) : activeTab' = tabs[i].id
    PROVE  TabsInv'
<1> DEFINE f == [i \in 1 .. Len(tabs) |-> i]
<1>1. f \in [1 .. Len(tabs) -> 1 .. Len(tabs)]
  OBVIOUS
<1>2. /\ \A i \in 1 .. Len(tabs) : tabs[i] = tabs[f[i]]
      /\ \A a, b \in 1 .. Len(tabs) : f[a] = f[b] => a = b
  OBVIOUS
<1> HIDE DEF f
<1>3. Shaped(tabs)
  BY DEF TabsInv
<1>4. IsList(tabs)
  BY <1>3 DEF Shaped
<1>5. activeTab' \in {None, activeTab} \cup TabIds(tabs)
  BY <1>3, Ids
<1> QED BY <1>1, <1>2, <1>4, <1>5, SelectSafe

LEMMA ScratchpadSafe == ASSUME TabsInv, OpenScratchpad PROVE TabsInv'
<1>i. PICK i : i = SelectInSeq(tabs, LAMBDA t : t.kind = "scratchpad")
  OBVIOUS
<1>1. i \in 0 .. Len(tabs)
  <2> DEFINE I == {k \in 1 .. Len(tabs) : tabs[k].kind = "scratchpad"}
  <2>1. i = IF I # {} THEN Min(I) ELSE 0
    BY <1>i DEF SelectInSeq
  <2>2. I \in SUBSET Nat
    OBVIOUS
  <2>3. Len(tabs) \in Nat /\ I \subseteq 0 .. Len(tabs)
    BY Ids DEF TabsInv
  <2> HIDE DEF I
  <2>4. I # {} => Min(I) \in I
    BY <2>2, MinIn
  <2>5. CASE I = {}
    BY <2>1, <2>3, <2>5
  <2>6. CASE I # {}
    <3>1. i = Min(I)
      BY <2>1, <2>6
    <3> QED BY <2>3, <2>4, <2>6, <3>1
  <2> QED BY <2>5, <2>6
<1>2. CASE i # 0
  <2>1. Becomes(tabs, tabs[i].id, tabs[i].panes[1].id)
    BY <1>2, <1>i DEF OpenScratchpad
  <2>2. i \in 1 .. Len(tabs)
    BY <1>1, <1>2
  <2> QED BY <2>1, <2>2, SameSafe DEF Becomes, Focus
<1>3. CASE i = 0
  <2>1. MakesIds(1) /\ OpenTab(X(next), <<Pane(X(next), X(next))>>, "scratchpad")
    BY <1>3, <1>i DEF OpenScratchpad
  <2>2. CASE ~doubled
    <3>1. next \in Nat \ {0} /\ next' = next + 1 /\ next <= next'
          /\ TabIds(tabs) \subseteq Made(next)
          /\ \A k \in next .. next' - 1 : {T(k), P(k), X(k)} \subseteq Made(next') \ Made(next)
      BY <2>1, <2>2, Fresh
    <3>2. next' \in Nat /\ X(next) \in Made(next') \ Made(next)
      BY <3>1
    <3> QED BY <2>1, <3>1, <3>2, OpenOneSafe
  <2> QED BY <2>1, <2>2, OpenOneSafe
<1> QED BY <1>2, <1>3

LEMMA CloneSafe == ASSUME TabsInv, Clone PROVE TabsInv'
<1>1. PICK id : CloneSession(id) \/ CloneInSameTab(id)
  BY DEF Clone
<1>2. ASSUME MakesIds(1), ~doubled
      PROVE  /\ next' \in Nat /\ next <= next' /\ TabIds(tabs) \subseteq Made(next)
             /\ {T(next), P(next)} \subseteq Made(next') \ Made(next)
  BY <1>2, Fresh
<1>3. CASE CloneSession(id)
  <2>1. MakesIds(1) /\ OpenTab(T(next), <<Pane(P(next), P(next))>>, "terminal")
    BY <1>3 DEF CloneSession
  <2>2. T(next) \notin TabIds(tabs) \/ doubled
    BY <1>2, <2>1
  <2> QED BY <1>2, <2>1, <2>2, OpenOneSafe
<1>4. CASE CloneInSameTab(id)
  <2>i. PICK i : i = CloneTab(id)
    OBVIOUS
  <2>1. /\ i # 0 /\ Len(tabs[i].panes) < MaxPanes /\ MakesIds(1)
        /\ SetTabs(AddPane(i, Pane(P(next), P(next)))) /\ activeTab' = activeTab
    BY <1>4, <2>i DEF CloneInSameTab, Focus
  <2>2. i \in 0 .. Len(tabs) /\ Len(tabs) \in Nat
    BY <2>i, TabAt, HolderAt, Ids DEF CloneTab, TabsInv
  <2>3. i \in 1 .. Len(tabs)
    BY <2>1, <2>2
  <2> QED BY <1>2, <2>1, <2>3, AddSafe
<1> QED BY <1>1, <1>3, <1>4

LEMMA AttachSafe == ASSUME TabsInv, AttachSession PROVE TabsInv'
<1>s. PICK s \in Running :
        LET i == SelectInSeq(tabs, LAMBDA t : Shows(t, s))
        IN IF i # 0
           THEN LET j == SelectInSeq(tabs[i].panes,
                                     LAMBDA p : p.sess = s /\ ~p.stolen)
                IN Becomes(tabs, tabs[i].id, tabs[i].panes[j].id)
           ELSE /\ MakesIds(1)
                /\ OpenTab(T(next), <<Pane(P(next), s)>>, "terminal")
  BY DEF AttachSession
<1>i. PICK i : i = SelectInSeq(tabs, LAMBDA t : Shows(t, s))
  OBVIOUS
<1>1. i \in 0 .. Len(tabs)
  <2> DEFINE I == {k \in 1 .. Len(tabs) : Shows(tabs[k], s)}
  <2>1. i = IF I # {} THEN Min(I) ELSE 0
    BY <1>i DEF SelectInSeq
  <2>2. I \in SUBSET Nat
    OBVIOUS
  <2>3. Len(tabs) \in Nat /\ I \subseteq 0 .. Len(tabs)
    BY Ids DEF TabsInv
  <2> HIDE DEF I
  <2>4. I # {} => Min(I) \in I
    BY <2>2, MinIn
  <2>5. CASE I = {}
    BY <2>1, <2>3, <2>5
  <2>6. CASE I # {}
    <3>1. i = Min(I)
      BY <2>1, <2>6
    <3> QED BY <2>3, <2>4, <2>6, <3>1
  <2> QED BY <2>5, <2>6
<1>2. CASE i # 0
  <2>1. SetTabs(tabs) /\ activeTab' = tabs[i].id /\ next' = next
    BY <1>2, <1>s, <1>i DEF Becomes, Focus
  <2>2. i \in 1 .. Len(tabs)
    BY <1>1, <1>2
  <2> QED BY <2>1, <2>2, SameSafe
<1>3. CASE i = 0
  <2>1. MakesIds(1) /\ OpenTab(T(next), <<Pane(P(next), s)>>, "terminal")
    BY <1>3, <1>s, <1>i
  <2>2. CASE ~doubled
    <3>1. next \in Nat \ {0} /\ next' = next + 1 /\ next <= next'
          /\ TabIds(tabs) \subseteq Made(next)
          /\ \A k \in next .. next' - 1 : {T(k), P(k), X(k)} \subseteq Made(next') \ Made(next)
      BY <2>1, <2>2, Fresh
    <3>2. next' \in Nat /\ {T(next), P(next)} \subseteq Made(next') \ Made(next)
      BY <3>1
    <3> QED BY <2>1, <3>1, <3>2, OpenOneSafe
  <2> QED BY <2>1, <2>2, OpenOneSafe
<1> QED BY <1>2, <1>3

-----------------------------------------------------------------------------
(* Closing.                                                                *)

LEMMA FilterIs ==
    ASSUME TabsInv, NEW I \in SUBSET (1 .. Len(tabs))
    PROVE  /\ IsList(Filtered(I)) /\ Len(Filtered(I)) = Cardinality(I) /\ IsFiniteSet(I)
           /\ \E f \in [1 .. Len(Filtered(I)) -> I] :
                 /\ \A k \in 1 .. Len(Filtered(I)) : Filtered(I)[k] = tabs[f[k]]
                 /\ \A a, b \in 1 .. Len(Filtered(I)) : f[a] = f[b] => a = b
                 /\ \A i \in I : \E k \in 1 .. Len(Filtered(I)) : f[k] = i
<1> DEFINE n == Cardinality(I)
           f == [k \in 1 .. n |-> CHOOSE i \in I : Cardinality({j \in I : j < i}) = k - 1]
<1>1. Len(tabs) \in Nat
  BY Ids DEF TabsInv
<1>2. IsFiniteSet(I) /\ n \in Nat
  <2>1. IsFiniteSet(1 .. Len(tabs))
    BY <1>1, FS_Interval
  <2> QED BY <2>1, FS_Subset, FS_CardinalityType
<1>3. I \in SUBSET Nat
  OBVIOUS
<1>4. ASSUME NEW k \in 1 .. n PROVE f[k] \in I /\ Rank(I, f[k]) = k - 1
  <2>1. \E i \in I : Rank(I, i) = k - 1
    BY <1>2, <1>3, RankOf
  <2>2. f[k] = CHOOSE i \in I : Rank(I, i) = k - 1
    BY DEF Rank
  <2> QED BY <2>1, <2>2
<1>5. Filtered(I) = [k \in 1 .. n |-> tabs[f[k]]]
  BY DEF Filtered
<1> HIDE DEF f, n
<1>6. IsList(Filtered(I)) /\ Len(Filtered(I)) = n
  BY <1>2, <1>5, Listed
<1>7. f \in [1 .. n -> I]
  BY <1>4 DEF f
<1>8. \A a, b \in 1 .. n : f[a] = f[b] => a = b
  <2> SUFFICES ASSUME NEW a \in 1 .. n, NEW b \in 1 .. n, f[a] = f[b] PROVE a = b
    OBVIOUS
  <2>1. a - 1 = b - 1
    BY <1>4
  <2> QED BY <1>2, <2>1
<1>9. ASSUME NEW i \in I PROVE \E k \in 1 .. n : f[k] = i
  <2>1. n # 0
    BY <1>2, FS_EmptySet DEF n
  <2>2. 1 \in 1 .. n
    BY <1>2, <2>1
  <2>3. Rank(I, i) + 1 \in 1 .. n /\ \A a, b \in I : Rank(I, a) = Rank(I, b) => a = b
    BY <1>2, <1>3, <2>2, RankOf DEF n
  <2>5. Rank(I, i) \in Nat
    BY <1>2, <1>3, FS_Subset, FS_CardinalityType DEF Rank
  <2>k. PICK k \in 1 .. n : k = Rank(I, i) + 1
    BY <2>3
  <2>4. Rank(I, f[k]) = k - 1 /\ f[k] \in I
    BY <1>4
  <2>6. Rank(I, f[k]) = Rank(I, i)
    BY <2>4, <2>5, <2>k
  <2> QED BY <2>3, <2>4, <2>6
<1> QED BY <1>2, <1>5, <1>6, <1>7, <1>8, <1>9 DEF n

\* The neighbour that takes over is there.
LEMMA DropAt ==
    ASSUME TabsInv, ~doubled, NEW id,
           NEW new, new = Filtered({k \in DOMAIN tabs : tabs[k].id # id}), new # <<>>
    PROVE  (IF TabIdx(id) > 1 THEN TabIdx(id) - 1 ELSE 1) \in 1 .. Len(new)
<1> DEFINE I == {k \in DOMAIN tabs : tabs[k].id # id}
<1>i. PICK i : i = TabIdx(id)
  OBVIOUS
<1>1. DOMAIN tabs = 1 .. Len(tabs) /\ Len(tabs) \in Nat
      /\ TabIds(tabs) = {tabs[k].id : k \in 1 .. Len(tabs)}
  BY Ids DEF TabsInv
<1>3. I \in SUBSET (1 .. Len(tabs))
  BY <1>1
<1>5. new = Filtered(I)
  OBVIOUS
<1> HIDE DEF I
<1>4. IsList(new) /\ Len(new) = Cardinality(I) /\ IsFiniteSet(I)
  BY <1>3, <1>5, FilterIs
<1>6. i \in 0 .. Len(tabs) /\ (i # 0 => tabs[i].id = id) /\ (id \in TabIds(tabs) <=> i # 0)
  BY <1>i, TabAt
<1>11. \A a, b \in 1 .. Len(tabs) : tabs[a].id = tabs[b].id => a = b
  BY DEF TabsInv, Sound, WholeTabs
<1>12. Len(new) \in Nat /\ Len(new) # 0
  BY <1>4 DEF IsList
<1>13. CASE i = 0
  BY <1>i, <1>12, <1>13
<1>14. CASE i # 0
  <2>1. I = (1 .. Len(tabs)) \ {i} /\ i \in 1 .. Len(tabs)
    BY <1>1, <1>6, <1>11, <1>14 DEF I
  <2>2. IsFiniteSet(1 .. Len(tabs)) /\ Cardinality(1 .. Len(tabs)) = Len(tabs)
    <3>1. 1 \in Int /\ Len(tabs) \in Int /\ (1 > Len(tabs) => Len(tabs) = 0)
          /\ Len(tabs) - 1 + 1 = Len(tabs)
      BY <1>1
    <3> QED BY <3>1, FS_Interval
  <2>3. Cardinality((1 .. Len(tabs)) \ {i}) = Len(tabs) - 1
    BY <2>1, <2>2, FS_RemoveElement
  <2>4. Len(new) = Len(tabs) - 1
    BY <1>4, <2>1, <2>3
  <2>5. (IF i > 1 THEN i - 1 ELSE 1) \in 1 .. Len(new)
    <3>1. i \in Nat /\ i >= 1 /\ i <= Len(tabs)
      BY <1>1, <2>1
    <3>2. ASSUME NEW n \in Nat, NEW m \in Nat, m = n - 1, m # 0, i <= n
          PROVE  (IF i > 1 THEN i - 1 ELSE 1) \in 1 .. m
      BY <3>1, <3>2
    <3> QED BY <1>1, <1>12, <2>4, <3>1, <3>2
  <2> QED BY <1>i, <2>5
<1> QED BY <1>13, <1>14

LEMMA DropSafe == ASSUME TabsInv, NEW id, Drop(id), next' = next PROVE TabsInv'
<1> DEFINE I == {k \in DOMAIN tabs : tabs[k].id # id}
           i == TabIdx(id)
           e == IF i > 1 THEN i - 1 ELSE 1
<1>1. DOMAIN tabs = 1 .. Len(tabs) /\ Len(tabs) \in Nat
      /\ TabIds(tabs) = {tabs[k].id : k \in 1 .. Len(tabs)}
  BY Ids DEF TabsInv
<1>n. PICK new : new = Filtered(I)
  OBVIOUS
<1>2. SetTabs(new) /\ CASE new = <<>> -> Focus(None, None)
            [] new # <<>> /\ activeTab = id -> Focus(new[e].id, new[e].active)
            [] OTHER -> Focus(activeTab, activePane)
  BY <1>n DEF Drop
<1>3. I \in SUBSET (1 .. Len(tabs))
  BY <1>1
<1> HIDE DEF I
<1>4. IsList(new) /\ Len(new) = Cardinality(I) /\ IsFiniteSet(I)
  BY <1>3, <1>n, FilterIs
<1>5. PICK f \in [1 .. Len(new) -> I] :
                 /\ \A k \in 1 .. Len(new) : new[k] = tabs[f[k]]
                 /\ \A a, b \in 1 .. Len(new) : f[a] = f[b] => a = b
  BY <1>3, <1>n, FilterIs
<1>6. i \in 0 .. Len(tabs) /\ (i # 0 => tabs[i].id = id) /\ (id \in TabIds(tabs) <=> i # 0)
  BY TabAt
<1>7. new = <<>> \/ doubled \/ e \in 1 .. Len(new)
  BY <1>n, DropAt DEF I
<1>8. activeTab' \in {None, activeTab} \cup TabIds(tabs) \/ doubled
  <2>1. CASE new = <<>>
    BY <1>2, <2>1 DEF Focus
  <2>2. CASE new # <<>> /\ activeTab = id
    <3>1. activeTab' = new[e].id
      BY <1>2, <2>2 DEF Focus
    <3>2. ASSUME ~doubled PROVE new[e].id \in TabIds(tabs)
      <4>1. PICK k \in 1 .. Len(new) : k = e
        BY <1>7, <2>2, <3>2
      <4>2. new[k] = tabs[f[k]] /\ f[k] \in 1 .. Len(tabs)
        BY <1>3, <1>5
      <4> HIDE DEF e
      <4> QED BY <1>1, <4>1, <4>2
    <3> QED BY <3>1, <3>2
  <2>3. CASE new # <<>> /\ activeTab # id
    BY <1>2, <2>3 DEF Focus
  <2> QED BY <2>1, <2>2, <2>3
<1>9. f \in [1 .. Len(new) -> 1 .. Len(tabs)]
  BY <1>3
<1> QED BY <1>2, <1>4, <1>5, <1>8, <1>9, SelectSafe

LEMMA NextPaneIn ==
    ASSUME Sized, NEW t, NEW n, TabWhole(t, n), NEW j \in 1 .. Len(t.panes), Len(t.panes) > 1
    PROVE  /\ PanesWhole(RemoveAt(t.panes, j), n)
           /\ \A x \in {RemoveAt(t.panes, j)[k].id : k \in 1 .. Len(t.panes) - 1} : x \in IdsOf(t)
           /\ \E k \in 1 .. Len(t.panes) - 1 : RemoveAt(t.panes, j)[k].id = NextPane(t, j)
<1>s. PICK s : s = t.panes
  OBVIOUS
<1>l. PICK left : left = RemoveAt(s, j)
  OBVIOUS
<1>1. PanesWhole(s, n) /\ IsList(s) /\ Len(s) \in Nat /\ Len(s) \in 1 .. MaxPanes /\ Len(s) > 1
      /\ Holds(t, t.active)
  BY <1>s DEF TabWhole, PanesWhole, IsList
<1>2. /\ IsList(left) /\ Len(left) = Len(s) - 1
      /\ \A k \in 1 .. Len(s) - 1 : left[k] = IF k < j THEN s[k] ELSE s[k + 1]
  BY <1>1, <1>s, <1>l, Removed
<1>3. ASSUME NEW k \in 1 .. Len(s) - 1
      PROVE  \E l \in 1 .. Len(s) : left[k] = s[l] /\ l = IF k < j THEN k ELSE k + 1
  BY <1>1, <1>2, <1>s
<1>4. PanesWhole(left, n)
  <2>1. \A k \in 1 .. Len(left) : IsPane(left[k]) /\ left[k].id \in Made(n)
    BY <1>1, <1>2, <1>3 DEF PanesWhole
  <2>2. ASSUME NEW k \in 1 .. Len(left), NEW l \in 1 .. Len(left), left[k].id = left[l].id
        PROVE  k = l
    <3>1. PICK a \in 1 .. Len(s) : left[k] = s[a] /\ a = IF k < j THEN k ELSE k + 1
      BY <1>2, <1>3
    <3>2. PICK b \in 1 .. Len(s) : left[l] = s[b] /\ b = IF l < j THEN l ELSE l + 1
      BY <1>2, <1>3
    <3>3. a = b
      BY <1>1, <2>2, <3>1, <3>2 DEF PanesWhole
    <3>4. k \in Nat /\ l \in Nat /\ j \in Nat
      OBVIOUS
    <3> QED BY <3>1, <3>2, <3>3, <3>4
  <2>3. Len(left) \in 1 .. MaxPanes
    <3>1. MaxPanes \in Nat
      BY DEF Sized
    <3> QED BY <1>1, <1>2, <3>1
  <2> QED BY <1>2, <2>1, <2>2, <2>3 DEF PanesWhole
<1>5. \A x \in {left[k].id : k \in 1 .. Len(s) - 1} : x \in IdsOf(t)
  <2>1. IdsOf(t) = {s[k].id : k \in 1 .. Len(s)}
    BY <1>s, IdsMade
  <2> QED BY <1>3, <2>1
<1>6. \E k \in 1 .. Len(s) - 1 : left[k].id = NextPane(t, j)
  <2>1. NextPane(t, j) = IF t.active = s[j].id THEN left[IF j > 1 THEN j - 1 ELSE 1].id
                                               ELSE t.active
    BY <1>s, <1>l DEF NextPane
  <2>2. CASE t.active = s[j].id
    <3>k. PICK k : k = IF j > 1 THEN j - 1 ELSE 1
      OBVIOUS
    <3>1. k \in 1 .. Len(s) - 1
      BY <1>1, <1>s, <3>k
    <3> QED BY <2>1, <2>2, <3>1, <3>k
  <2>3. CASE t.active # s[j].id
    <3>1. PICK l \in 1 .. Len(s) : s[l].id = t.active
      BY <1>1, <1>s, PaneAt
    <3>2. l # j /\ j \in Nat /\ l \in Nat
      BY <2>3, <3>1
    <3>3. CASE l < j
      <4>1. l \in 1 .. Len(s) - 1
        BY <1>1, <1>s, <3>3
      <4> QED BY <1>2, <2>1, <2>3, <3>1, <3>3, <4>1
    <3>4. CASE l > j
      <4>1. l - 1 \in 1 .. Len(s) - 1 /\ ~ (l - 1 < j) /\ l - 1 + 1 = l
        BY <1>1, <1>s, <3>2, <3>4
      <4>2. left[l - 1] = s[l - 1 + 1]
        BY <1>2, <4>1
      <4> QED BY <2>1, <2>3, <3>1, <4>1, <4>2
    <3> QED BY <3>2, <3>3, <3>4
  <2> QED BY <2>2, <2>3
<1> QED BY <1>4, <1>5, <1>6, <1>s, <1>l

LEMMA ClosePaneSafe ==
    ASSUME TabsInv, NEW i \in 1 .. Len(tabs), NEW j, doubled \/ j \in 1 .. Len(tabs[i].panes),
           doubled \/ Len(tabs[i].panes) > 1, ClosePane(i, j)
    PROVE  TabsInv'
<1>t. PICK t : t = tabs[i]
  OBVIOUS
<1>p. PICK p : p = NextPane(t, j)
  OBVIOUS
<1>u. PICK u : u = WithPanes(t, RemoveAt(t.panes, j), p)
  OBVIOUS
<1>1. IsTab(u) /\ u.id = t.id /\ u.panes = RemoveAt(t.panes, j) /\ u.active = p
  BY <1>u DEF WithPanes, IsTab
<1>2. SetTabs([tabs EXCEPT ![i] = u]) /\ next' = next /\ activeTab' = activeTab
  BY <1>t, <1>p, <1>u DEF ClosePane, Becomes, Focus
<1>3. CASE doubled
  BY <1>1, <1>2, <1>3, ChangeSafe
<1>4. CASE ~doubled
  <2>1. Sound(tabs, activeTab, next)
    BY <1>4 DEF TabsInv
  <2>2. TabWhole(t, next) /\ next \in Nat
    BY <1>t, <2>1 DEF Sound, WholeTabs
  <2>3. j \in 1 .. Len(t.panes) /\ Len(t.panes) > 1
    BY <1>4, <1>t
  <2>4. /\ PanesWhole(u.panes, next)
        /\ \A x \in {u.panes[k].id : k \in 1 .. Len(t.panes) - 1} : x \in IdsOf(t)
        /\ \E k \in 1 .. Len(t.panes) - 1 : u.panes[k].id = p
    <3>1. Sized
      BY DEF TabsInv
    <3> QED BY <1>1, <1>p, <2>2, <2>3, <3>1, NextPaneIn
  <2>5. DOMAIN u.panes = 1 .. Len(t.panes) - 1
    <3>1. IsList(t.panes)
      BY <2>2 DEF TabWhole, PanesWhole
    <3>2. IsList(u.panes) /\ Len(u.panes) = Len(t.panes) - 1
      BY <1>1, <2>3, <3>1, Removed
    <3> QED BY <3>2 DEF IsList
  <2>6. TabWhole(u, next)
    BY <1>1, <2>2, <2>4, <2>5 DEF TabWhole, Holds
  <2>7. \A x \in IdsOf(u) : x \in IdsOf(t)
    BY <2>4, <2>5 DEF IdsOf
  <2> QED BY <1>1, <1>2, <1>t, <2>2, <2>6, <2>7, ChangeSafe
<1> QED BY <1>3, <1>4

LEMMA CloseTabOrPaneSafe == ASSUME TabsInv, NEW x, CloseTabOrPane(x) PROVE TabsInv'
<1>i. PICK i : i = HolderIdx(x)
  OBVIOUS
<1>1. i \in 0 .. Len(tabs) /\ (i # 0 => Holds(tabs[i], x)) /\ Len(tabs) \in Nat
  BY <1>i, HolderAt, Ids DEF TabsInv
<1>2. CASE TabIdx(x) # 0
  BY <1>2, DropSafe DEF CloseTabOrPane, CloseTab
<1>3. CASE TabIdx(x) = 0 /\ i # 0 /\ Len(tabs[i].panes) > 1
  <2>1. ClosePane(i, PaneIdx(tabs[i], x))
    BY <1>3, <1>i DEF CloseTabOrPane
  <2>2. i \in 1 .. Len(tabs)
    BY <1>1, <1>3
  <2>3. doubled \/ PaneIdx(tabs[i], x) \in 1 .. Len(tabs[i].panes)
    <3> SUFFICES ASSUME ~doubled PROVE PaneIdx(tabs[i], x) \in 1 .. Len(tabs[i].panes)
      OBVIOUS
    <3>1. TabWhole(tabs[i], next)
      BY <2>2 DEF TabsInv, Sound, WholeTabs
    <3> QED BY <1>1, <1>3, <3>1, PaneAt
  <2> QED BY <1>3, <2>1, <2>2, <2>3, ClosePaneSafe
<1>4. CASE TabIdx(x) = 0 /\ ~ (i # 0 /\ Len(tabs[i].panes) > 1)
  <2>1. CloseTab(tabs[i].id)
    BY <1>4, <1>i DEF CloseTabOrPane
  <2> QED BY <2>1, DropSafe DEF CloseTab
<1> QED BY <1>2, <1>3, <1>4

LEMMA CloseSafe == ASSUME TabsInv, Close PROVE TabsInv'
BY CloseTabOrPaneSafe, DropSafe DEF Close, CloseTab

LEMMA SubIs ==
    ASSUME NEW s, IsList(s), NEW a \in 1 .. Len(s), NEW b \in a .. Len(s)
    PROVE  /\ IsList(SubSeq(s, a, b)) /\ Len(SubSeq(s, a, b)) = b - a + 1
           /\ \A k \in 1 .. b - a + 1 : SubSeq(s, a, b)[k] = s[a + k - 1]
              /\ a + k - 1 \in 1 .. Len(s)
<1> DEFINE S == {s[k] : k \in 1 .. Len(s)}
<1>0. a \in Nat /\ b \in Nat /\ Len(s) \in Nat /\ a <= b /\ b <= Len(s) /\ 1 <= a
  BY DEF IsList
<1>1. \A k \in a .. b : s[k] \in S
  BY <1>0
<1> HIDE DEF S
<1>2. /\ SubSeq(s, a, b) \in Seq(S) /\ Len(SubSeq(s, a, b)) = b - a + 1
      /\ \A k \in 1 .. b - a + 1 : SubSeq(s, a, b)[k] = s[a + k - 1]
  BY <1>0, <1>1, SubSeqProperties
<1>3. IsList(SubSeq(s, a, b))
  BY <1>2, LenProperties DEF IsList
<1>4. \A k \in 1 .. b - a + 1 : a + k - 1 \in 1 .. Len(s)
  BY <1>0
<1> QED BY <1>2, <1>3, <1>4

\* A stretch of the tabs, with an active tab among them or as before.
LEMMA StretchSafe ==
    ASSUME TabsInv, NEW a \in 1 .. Len(tabs), NEW b \in a .. Len(tabs), SetTabs(SubSeq(tabs, a, b)),
           next' = next, activeTab' \in {activeTab} \cup {tabs[i].id : i \in 1 .. Len(tabs)}
    PROVE  TabsInv'
<1>0. Shaped(tabs) /\ IsList(tabs) /\ Len(tabs) \in Nat
      /\ TabIds(tabs) = {tabs[i].id : i \in 1 .. Len(tabs)}
  BY Ids DEF TabsInv, Shaped
<1>n. PICK new : new = SubSeq(tabs, a, b)
  OBVIOUS
<1>1. /\ IsList(new) /\ Len(new) = b - a + 1
      /\ \A k \in 1 .. b - a + 1 : new[k] = tabs[a + k - 1] /\ a + k - 1 \in 1 .. Len(tabs)
  BY <1>0, <1>n, SubIs
<1> DEFINE f == [k \in 1 .. Len(new) |-> a + k - 1]
<1>2. f \in [1 .. Len(new) -> 1 .. Len(tabs)] /\ \A k \in 1 .. Len(new) : new[k] = tabs[f[k]]
  BY <1>1
<1>3. \A k, l \in 1 .. Len(new) : f[k] = f[l] => k = l
  BY <1>0, <1>1
<1> HIDE DEF f
<1>4. SetTabs(new) /\ activeTab' \in {None, activeTab} \cup TabIds(tabs)
  BY <1>0, <1>n
<1>5. f \in [1 .. Len(new) -> 1 .. Len(tabs)] /\ IsList(new)
  BY <1>1, <1>2
<1> QED BY <1>2, <1>3, <1>4, <1>5, SelectSafe

LEMMA CloseAllSafe == ASSUME TabsInv, CloseAll PROVE TabsInv'
<1>1. SetTabs(<<>>) /\ activeTab' = activeTab /\ next' = next
  BY DEF CloseAll, Becomes, Focus
<1>2. Len(<<>>) = 0 /\ IsList(<<>>)
  BY DEF IsList
<1>3. Len(tabs) \in Nat
  BY Ids DEF TabsInv
<1> DEFINE f == [k \in 1 .. 0 |-> 1]
<1>4. f \in [1 .. 0 -> 1 .. Len(tabs)]
  OBVIOUS
<1> HIDE DEF f
<1>5. \A k \in 1 .. 0 : FALSE
  OBVIOUS
<1> QED BY <1>1, <1>2, <1>4, <1>5, SelectSafe

LEMMA OtherTabsSafe == ASSUME TabsInv, NEW id, CloseOtherTabs(id) PROVE TabsInv'
<1>i. PICK i : i = TabIdx(id)
  OBVIOUS
<1>0. Shaped(tabs) /\ IsList(tabs) /\ Len(tabs) \in Nat
  BY Ids DEF TabsInv, Shaped
<1>1. i \in 1 .. Len(tabs) /\ tabs[i].id = id
  BY <1>0, <1>i, TabAt DEF CloseOtherTabs
<1>2. SetTabs(<<tabs[i]>>) /\ activeTab' = id /\ next' = next
  BY <1>i DEF CloseOtherTabs, Becomes, Focus
<1>s. PICK new : new = SubSeq(tabs, i, i)
  OBVIOUS
<1>3. IsList(new) /\ Len(new) = 1 /\ new[1] = tabs[i]
  BY <1>0, <1>1, <1>s, SubIs
<1>4. new = <<tabs[i]>>
  BY <1>3 DEF IsList
<1>5. i \in i .. Len(tabs)
  BY <1>0, <1>1
<1>6. SetTabs(SubSeq(tabs, i, i))
  BY <1>2, <1>4, <1>s
<1>7. activeTab' \in {activeTab} \cup {tabs[k].id : k \in 1 .. Len(tabs)}
  BY <1>1, <1>2
<1> QED BY <1>1, <1>2, <1>5, <1>6, <1>7, StretchSafe

LEMMA OtherPanesSafe == ASSUME TabsInv, NEW id, CloseOtherPanes(id) PROVE TabsInv'
<1>i. PICK i : i = TabIdx(id)
  OBVIOUS
<1>t. PICK t : t = tabs[i]
  OBVIOUS
<1>p. PICK p : p = t.panes[PaneIdx(t, t.active)]
  OBVIOUS
<1>u. PICK u : u = WithPanes(t, <<p>>, t.active)
  OBVIOUS
<1>0. Shaped(tabs) /\ IsList(tabs) /\ Len(tabs) \in Nat
  BY Ids DEF TabsInv, Shaped
<1>1. i \in 1 .. Len(tabs) /\ t.id = id
  BY <1>0, <1>i, <1>t, TabAt DEF CloseOtherPanes
<1>2. SetTabs([tabs EXCEPT ![i] = u]) /\ next' = next /\ activeTab' = id
  BY <1>i, <1>t, <1>p, <1>u DEF CloseOtherPanes, Becomes, Focus
<1>3. IsTab(u) /\ u.id = t.id /\ u.panes = <<p>> /\ u.active = t.active
  BY <1>u DEF WithPanes, IsTab
<1>4. CASE doubled
  BY <1>1, <1>2, <1>3, <1>4, ChangeSafe
<1>5. CASE ~doubled
  <2>1. Sound(tabs, activeTab, next)
    BY <1>5 DEF TabsInv
  <2>2. TabWhole(t, next) /\ next \in Nat
    BY <1>1, <1>t, <2>1 DEF Sound, WholeTabs
  <2>3. /\ PaneIdx(t, t.active) \in 1 .. Len(t.panes) /\ p.id = t.active
        /\ PanesWhole(t.panes, next)
    BY <1>p, <2>2, PaneAt DEF TabWhole
  <2>4. IsPane(p) /\ p.id \in Made(next)
    BY <1>p, <2>3 DEF PanesWhole
  <2>5. Len(<<p>>) = 1 /\ <<p>>[1] = p /\ <<p>> = [k \in 1 .. 1 |-> <<p>>[k]]
        /\ DOMAIN <<p>> = 1 .. 1
    OBVIOUS
  <2>6. PanesWhole(<<p>>, next)
    BY <2>4, <2>5 DEF PanesWhole, IsList, TabsInv, Sized
  <2>7. TabWhole(u, next)
    BY <1>3, <2>2, <2>3, <2>5, <2>6 DEF TabWhole, Holds
  <2>8. \A x \in IdsOf(u) : x \in IdsOf(t)
    <3>1. IdsOf(t) = {t.panes[j].id : j \in 1 .. Len(t.panes)}
      BY <2>2, IdsMade
    <3>2. \A x \in IdsOf(u) : x = p.id
      BY <1>3, <2>5 DEF IdsOf
    <3> QED BY <1>p, <2>3, <3>1, <3>2
  <2> QED BY <1>1, <1>2, <1>3, <1>t, <2>2, <2>7, <2>8, ChangeSafe
<1> QED BY <1>4, <1>5

LEMMA SideTabsSafe ==
    ASSUME TabsInv, NEW id, NEW left \in BOOLEAN, CloseSideTabs(id, left)
    PROVE  TabsInv'
<1>i. PICK i : i = TabIdx(id)
  OBVIOUS
<1>0. Shaped(tabs) /\ IsList(tabs) /\ Len(tabs) \in Nat
  BY Ids DEF TabsInv, Shaped
<1>1. i \in 1 .. Len(tabs) /\ tabs[i].id = id
  BY <1>0, <1>i, TabAt DEF CloseSideTabs
<1>n. PICK new : new = IF left THEN SubSeq(tabs, i, Len(tabs)) ELSE SubSeq(tabs, 1, i)
  OBVIOUS
<1>2. SetTabs(new) /\ next' = next /\ activeTab' \in {id, activeTab}
  BY <1>i, <1>n DEF CloseSideTabs, Becomes, Focus
<1>3. i \in i .. Len(tabs) /\ Len(tabs) \in i .. Len(tabs) /\ i \in 1 .. i
      /\ i \in 1 .. Len(tabs) /\ 1 \in 1 .. Len(tabs)
  BY <1>0, <1>1
<1>4. CASE left
  BY <1>1, <1>2, <1>3, <1>4, <1>n, StretchSafe
<1>5. CASE ~left
  BY <1>1, <1>2, <1>3, <1>5, <1>n, StretchSafe
<1> QED BY <1>4, <1>5

LEMMA CloseManySafe == ASSUME TabsInv, CloseMany PROVE TabsInv'
BY CloseAllSafe, OtherTabsSafe, OtherPanesSafe, SideTabsSafe DEF CloseMany

LEMMA HideSafe == ASSUME TabsInv, Hide PROVE TabsInv'
<1>1. ASSUME NEW id, HideAsks(id) PROVE TabsInv'
  <2>1. UNCHANGED <<tabs, activeTab, activePane, unread, marks, next, doubled>>
    BY <1>1 DEF HideAsks
  <2> QED BY <2>1 DEF TabsInv
<1>2. ASSUME NEW id, HideAnswered(id) PROVE TabsInv'
  <2>1. CASE TabIdx(id) # 0
    BY <1>2, <2>1, DropSafe DEF HideAnswered
  <2>2. CASE TabIdx(id) = 0
    <3>1. UNCHANGED <<tabs, activeTab, activePane, unread, marks, next, doubled>>
      BY <1>2, <2>2 DEF HideAnswered
    <3> QED BY <3>1 DEF TabsInv
  <2> QED BY <2>1, <2>2
<1> QED BY <1>1, <1>2 DEF Hide

-----------------------------------------------------------------------------
(* Moving.                                                                 *)

LEMMA SwappedSafe ==
    ASSUME TabsInv, NEW i \in 1 .. Len(tabs), NEW j \in 1 .. Len(tabs), Reorders(Swapped(i, j))
    PROVE  TabsInv'
<1>0. Shaped(tabs) /\ IsList(tabs) /\ Len(tabs) \in Nat /\ DOMAIN tabs = 1 .. Len(tabs)
  BY Ids DEF TabsInv, Shaped
<1>n. PICK new : new = Swapped(i, j)
  OBVIOUS
<1>1. SetTabs(new) /\ next' = next /\ activeTab' = activeTab
  BY <1>n DEF Reorders, Becomes, Focus
<1> DEFINE f == [k \in 1 .. Len(tabs) |-> IF k = j THEN i ELSE IF k = i THEN j ELSE k]
<1>2. f \in [1 .. Len(tabs) -> 1 .. Len(tabs)]
  OBVIOUS
<1>3. DOMAIN new = 1 .. Len(tabs) /\ \A k \in 1 .. Len(tabs) : new[k] = tabs[f[k]]
  BY <1>0, <1>n DEF Swapped
<1>4. \A a, b \in 1 .. Len(tabs) : f[a] = f[b] => a = b
  OBVIOUS
<1> HIDE DEF f
<1>5. new = [k \in 1 .. Len(tabs) |-> new[k]]
  BY <1>0, <1>n DEF Swapped
<1>6. IsList(new) /\ Len(new) = Len(tabs)
  BY <1>0, <1>3, <1>5, Listed
<1>7. f \in [1 .. Len(new) -> 1 .. Len(tabs)] /\ \A k \in 1 .. Len(new) : new[k] = tabs[f[k]]
  BY <1>2, <1>3, <1>6
<1>8. \A a, b \in 1 .. Len(new) : f[a] = f[b] => a = b
  BY <1>4, <1>6
<1> QED BY <1>1, <1>6, <1>7, <1>8, SelectSafe

LEMMA ToLastSafe == ASSUME TabsInv, NEW i \in 1 .. Len(tabs), MoveTabToLast(i) PROVE TabsInv'
<1>0. Shaped(tabs) /\ Len(tabs) \in Nat
  BY Ids DEF TabsInv
<1>1. IsTab(tabs[i]) /\ Len(tabs) \in 1 .. Len(tabs)
  BY <1>0 DEF Shaped
<1>2. Shaped(tabs')
  BY <1>0, <1>1, Replaced DEF MoveTabToLast
<1>3. unread' \subseteq TabIds(tabs') /\ marks' \subseteq PaneIds(tabs') /\ doubled'
  BY DEF MoveTabToLast, Cleanup
<1> QED BY <1>2, <1>3 DEF TabsInv

LEMMA ReorderSafe ==
    ASSUME TabsInv, NEW i \in 1 .. Len(tabs), NEW j \in 1 .. Len(tabs), NEW after \in BOOLEAN,
           ReorderTabs(i, j, after)
    PROVE  TabsInv'
<1>m. PICK n \in Nat : n = Len(tabs)
  BY Ids DEF TabsInv
<1>0. Shaped(tabs) /\ IsList(tabs) /\ i \in 1 .. n /\ j \in 1 .. n /\ i # j
  BY <1>m DEF TabsInv, Shaped, ReorderTabs
<1>l. PICK left : left = RemoveAt(tabs, i)
  OBVIOUS
<1>p. PICK p : p = IF after THEN (IF j > i THEN j - 1 ELSE j) + 1 ELSE (IF j > i THEN j - 1 ELSE j)
  OBVIOUS
<1>n. PICK new : new = InsertAt(left, p, tabs[i])
  OBVIOUS
<1>1. SetTabs(new) /\ next' = next /\ activeTab' = activeTab
  BY <1>l, <1>p, <1>n DEF ReorderTabs, Reorders, Becomes, Focus
<1>2. p \in 1 .. n
  BY <1>0, <1>p
<1>3. /\ IsList(left) /\ Len(left) = n - 1
      /\ \A k \in 1 .. n - 1 : left[k] = IF k < i THEN tabs[k] ELSE tabs[k + 1]
  BY <1>0, <1>l, <1>m, Removed
<1>4. p \in 1 .. Len(left) + 1 /\ Len(left) + 1 = n
  BY <1>2, <1>3
<1>5. /\ IsList(new) /\ Len(new) = n
      /\ \A k \in 1 .. n :
            new[k] = IF k < p THEN left[k] ELSE IF k = p THEN tabs[i] ELSE left[k - 1]
  BY <1>3, <1>4, <1>n, Inserted
<1> DEFINE g(k) == IF k < i THEN k ELSE k + 1
           f == [k \in 1 .. n |-> IF k < p THEN g(k) ELSE IF k = p THEN i ELSE g(k - 1)]
<1>6. f \in [1 .. n -> 1 .. n]
  BY <1>0, <1>2
<1>7. ASSUME NEW k \in 1 .. n PROVE new[k] = tabs[f[k]]
  <2>1. CASE k < p
    <3>1. k \in 1 .. n - 1
      BY <1>2, <2>1
    <3> QED BY <1>3, <1>5, <2>1, <3>1
  <2>2. CASE k = p
    BY <1>2, <1>5, <2>2
  <2>3. CASE k > p
    <3>1. k - 1 \in 1 .. n - 1
      BY <1>2, <2>3
    <3>2. new[k] = left[k - 1] /\ f[k] = g(k - 1)
      BY <1>2, <1>5, <2>3
    <3> QED BY <1>3, <3>1, <3>2
  <2> QED BY <1>2, <2>1, <2>2, <2>3
<1>8. \A a, b \in 1 .. n : f[a] = f[b] => a = b
  BY <1>0, <1>2
<1> HIDE DEF f
<1>9. f \in [1 .. Len(new) -> 1 .. Len(tabs)] /\ \A k \in 1 .. Len(new) : new[k] = tabs[f[k]]
  BY <1>5, <1>6, <1>7, <1>m
<1>10. \A a, b \in 1 .. Len(new) : f[a] = f[b] => a = b
  BY <1>5, <1>8
<1> QED BY <1>1, <1>5, <1>9, <1>10, SelectSafe

LEMMA MoveSafe == ASSUME TabsInv, Move PROVE TabsInv'
<1>1. DOMAIN tabs = 1 .. Len(tabs) /\ Len(tabs) \in Nat
  BY Ids DEF TabsInv
<1>2. PICK i \in 1 .. Len(tabs) :
        \/ MoveTabLeft(i)
        \/ MoveTabRight(i)
        \/ MoveTabToFirst(i)
        \/ MoveTabToLast(i)
        \/ \E j \in 1 .. Len(tabs), after \in BOOLEAN : ReorderTabs(i, j, after)
  BY <1>1 DEF Move
<1>3. CASE MoveTabLeft(i)
  <2>1. i - 1 \in 1 .. Len(tabs) /\ Reorders(Swapped(i, i - 1))
    BY <1>1, <1>3 DEF MoveTabLeft
  <2> QED BY <2>1, SwappedSafe
<1>4. CASE MoveTabRight(i)
  <2>1. i + 1 \in 1 .. Len(tabs) /\ Reorders(Swapped(i, i + 1))
    BY <1>1, <1>4 DEF MoveTabRight
  <2> QED BY <2>1, SwappedSafe
<1>5. CASE MoveTabToFirst(i)
  <2>1. 1 \in 1 .. Len(tabs) /\ Reorders(Swapped(i, 1))
    BY <1>1, <1>5 DEF MoveTabToFirst
  <2> QED BY <2>1, SwappedSafe
<1> QED BY <1>2, <1>3, <1>4, <1>5, ToLastSafe, ReorderSafe

-----------------------------------------------------------------------------
(* Choosing.                                                               *)

LEMMA RingIn ==
    ASSUME NEW n \in Nat, NEW i \in 1 .. n, NEW d PROVE Ring(i, n, d) \in 1 .. n
<1>1. n > 0 /\ i \in Int /\ n \in Int /\ i + n - 2 + n \in Int
  OBVIOUS
<1>2. \A k \in Int : k % n \in 0 .. n - 1
  BY <1>1
<1>3. i % n \in 0 .. n - 1 /\ (i + n - 2 + n) % n \in 0 .. n - 1
  BY <1>1, <1>2
<1> QED BY <1>3 DEF Ring

LEMMA SelectTabSafe == ASSUME TabsInv, NEW i \in 1 .. Len(tabs), SelectTab(i) PROVE TabsInv'
<1>1. SetTabs(tabs) /\ next' = next /\ activeTab' = tabs[i].id
  BY DEF SelectTab, Becomes, Focus
<1> QED BY <1>1, SameSafe

LEMMA FocusPaneSafe == ASSUME TabsInv, NEW p, FocusPane(p) PROVE TabsInv'
<1>h. PICK h : h = HolderIdx(p)
  OBVIOUS
<1>1. h # 0 /\ Activate(p, tabs[h].id)
  BY <1>h DEF FocusPane
<1>2. h \in 0 .. Len(tabs) /\ Len(tabs) \in Nat
  BY <1>h, HolderAt, Ids DEF TabsInv
<1>3. h \in 1 .. Len(tabs) /\ Holds(tabs[h], p)
  BY <1>1, <1>2, <1>h, HolderAt
<1> QED BY <1>1, <1>3, ActivateSafe

LEMMA ChooseSafe == ASSUME TabsInv, Choose PROVE TabsInv'
<1>1. DOMAIN tabs = 1 .. Len(tabs) /\ Len(tabs) \in Nat
  BY Ids DEF TabsInv
<1>i. PICK i : i = TabIdx(activeTab)
  OBVIOUS
<1>2. i \in 0 .. Len(tabs)
  BY <1>i, TabAt
<1>3. ASSUME NEW k \in 1 .. Len(tabs), SelectTab(k) PROVE TabsInv'
  BY <1>3, SelectTabSafe
<1>4. ASSUME NEW k \in 1 .. Len(tabs), NEW j \in DOMAIN tabs[k].panes, ClickPane(k, j)
      PROVE  TabsInv'
  <2>1. Holds(tabs[k], tabs[k].panes[j].id)
    BY DEF Holds
  <2> QED BY <1>4, <2>1, ActivateSafe DEF ClickPane
<1>5. ASSUME NEW d, Swipe(d) PROVE TabsInv'
  <2>1. CASE i > 1 /\ SelectTab(i - 1)
    <3>1. i - 1 \in 1 .. Len(tabs)
      BY <1>1, <1>2, <2>1
    <3> QED BY <1>3, <2>1, <3>1
  <2>2. CASE i < Len(tabs) /\ SelectTab(i + 1)
    <3>1. i + 1 \in 1 .. Len(tabs)
      BY <1>1, <1>2, <2>2
    <3> QED BY <1>3, <2>2, <3>1
  <2> QED BY <1>5, <1>i, <2>1, <2>2 DEF Swipe
<1>6. ASSUME NEW d, CycleTab(d) PROVE TabsInv'
  <2>1. i # 0 /\ SelectTab(Ring(i, Len(tabs), d))
    BY <1>6, <1>i DEF CycleTab
  <2>2. i \in 1 .. Len(tabs)
    BY <1>1, <1>2, <2>1
  <2>3. Ring(i, Len(tabs), d) \in 1 .. Len(tabs)
    BY <1>1, <2>2, RingIn
  <2> QED BY <1>3, <2>1, <2>3
<1>7. ASSUME NEW d, CyclePane(d) PROVE TabsInv'
  BY <1>7, FocusPaneSafe DEF CyclePane
<1>8. ASSUME RefocusPane PROVE TabsInv'
  <2>1. SetTabs(tabs) /\ next' = next /\ activeTab' = activeTab
    BY <1>8 DEF RefocusPane, Becomes, Focus
  <2> QED BY <2>1, SameSafe
<1> QED BY <1>1, <1>3, <1>4, <1>5, <1>6, <1>7, <1>8 DEF Choose

-----------------------------------------------------------------------------
(* What the terminals report.                                              *)

LEMMA PaneSet ==
    ASSUME NEW p, IsPane(p), NEW s, NEW q, q = [p EXCEPT !.stolen = s]
    PROVE  IsPane(q) /\ q.id = p.id
BY DEF IsPane

LEMMA TabSet ==
    ASSUME NEW t, IsTab(t), NEW ps, NEW u, u = [t EXCEPT !.panes = ps]
    PROVE  IsTab(u) /\ u.id = t.id /\ u.panes = ps /\ u.active = t.active
BY DEF IsTab

LEMMA StolenSafe ==
    ASSUME TabsInv, NEW i \in 1 .. Len(tabs), NEW j \in DOMAIN tabs[i].panes, Stolen(i, j)
    PROVE  TabsInv'
<1>t. PICK t : t = tabs[i]
  OBVIOUS
<1>s. PICK s : s = t.panes
  OBVIOUS
<1>y. PICK y : y = TRUE
  OBVIOUS
<1>q. PICK q : q = [s[j] EXCEPT !.stolen = y]
  OBVIOUS
<1>r. PICK r : r = [s EXCEPT ![j] = q]
  OBVIOUS
<1>u. PICK u : u = [t EXCEPT !.panes = r]
  OBVIOUS
<1>1. IsTab(t) /\ i \in DOMAIN tabs
  BY <1>t, Ids DEF TabsInv, Shaped
<1>2. IsTab(u) /\ u.id = t.id /\ u.panes = r /\ u.active = t.active
  BY <1>1, <1>u, TabSet
<1>3. SetTabs([tabs EXCEPT ![i].panes[j].stolen = y]) /\ next' = next /\ activeTab' = activeTab
  BY <1>y DEF Stolen, Reorders, Becomes, Focus
<1>4. [tabs EXCEPT ![i].panes[j].stolen = y] = [tabs EXCEPT ![i] = u]
  BY <1>q, <1>r, <1>s, <1>t, <1>u
<1>5. SetTabs([tabs EXCEPT ![i] = u])
  BY <1>3, <1>4
<1>6. CASE doubled
  BY <1>2, <1>3, <1>5, <1>6, ChangeSafe
<1>7. CASE ~doubled
  <2>1. Sound(tabs, activeTab, next)
    BY <1>7 DEF TabsInv
  <2>2. TabWhole(t, next) /\ next \in Nat
    BY <1>t, <2>1 DEF Sound, WholeTabs
  <2>3. PanesWhole(s, next) /\ IsList(s) /\ j \in 1 .. Len(s) /\ DOMAIN s = 1 .. Len(s)
        /\ Len(s) \in Nat
    BY <1>s, <1>t, <2>2 DEF TabWhole, PanesWhole, IsList
  <2>4. DOMAIN r = 1 .. Len(s) /\ r = [k \in 1 .. Len(s) |-> r[k]]
        /\ \A k \in 1 .. Len(s) : r[k] = IF k = j THEN q ELSE s[k]
    BY <1>r, <2>3
  <2>5. IsList(r) /\ Len(r) = Len(s)
    BY <2>3, <2>4, Listed
  <2>6. IsPane(q) /\ q.id = s[j].id
    <3>1. IsPane(s[j])
      BY <2>3 DEF PanesWhole
    <3> QED BY <1>q, <3>1, PaneSet
  <2>7. \A k \in 1 .. Len(s) : IsPane(r[k]) /\ r[k].id = s[k].id
    BY <2>3, <2>4, <2>6 DEF PanesWhole
  <2>8. PanesWhole(r, next)
    BY <2>3, <2>5, <2>7 DEF PanesWhole
  <2>9. TabWhole(u, next)
    BY <1>2, <1>s, <2>2, <2>3, <2>4, <2>7, <2>8 DEF TabWhole, Holds
  <2>10. \A x \in IdsOf(u) : x \in IdsOf(t)
    <3>1. IdsOf(u) = {r[k].id : k \in 1 .. Len(s)} /\ IdsOf(t) = {s[k].id : k \in 1 .. Len(s)}
      BY <1>2, <1>s, <2>3, <2>4 DEF IdsOf
    <3> QED BY <2>7, <3>1
  <2> QED BY <1>2, <1>3, <1>5, <1>t, <2>2, <2>9, <2>10, ChangeSafe
<1> QED BY <1>6, <1>7

LEMMA ReconnectSafe ==
    ASSUME TabsInv, NEW i \in 1 .. Len(tabs), NEW J, doubled \/ J \in SUBSET (DOMAIN tabs[i].panes),
           ReconnectPanes(i, J)
    PROVE  TabsInv'
<1> DEFINE nth(j) == next + Rank(J, j)
<1>t. PICK t : t = tabs[i]
  OBVIOUS
<1>s. PICK s : s = t.panes
  OBVIOUS
<1>l. PICK last : last = P(next + Cardinality(J) - 1)
  OBVIOUS
<1>r. PICK r : r = [j \in DOMAIN s |-> IF j \in J THEN Pane(P(nth(j)), P(nth(j))) ELSE s[j]]
  OBVIOUS
<1>u. PICK u : u = WithPanes(t, r, last)
  OBVIOUS
<1>1. IsTab(u) /\ u.id = t.id /\ u.panes = r /\ u.active = last
  BY <1>u DEF WithPanes, IsTab
<1>2. J # {} /\ MakesIds(Cardinality(J)) /\ SetTabs([tabs EXCEPT ![i] = u])
      /\ activeTab' = activeTab
  <2>1. i \in DOMAIN tabs
    BY Ids DEF TabsInv
  <2> QED BY <2>1, <1>t, <1>s, <1>l, <1>r, <1>u DEF ReconnectPanes, Focus, Rank
<1>3. CASE doubled
  BY <1>1, <1>2, <1>3, <1>t, ChangeSafe
<1>4. CASE ~doubled
  <2>1. Sound(tabs, activeTab, next)
    BY <1>4 DEF TabsInv
  <2>2. TabWhole(t, next) /\ next \in Nat \ {0}
    BY <1>t, <2>1 DEF Sound, WholeTabs
  <2>3. PanesWhole(s, next) /\ IsList(s) /\ DOMAIN s = 1 .. Len(s) /\ Len(s) \in Nat
    BY <1>s, <2>2 DEF TabWhole, PanesWhole, IsList
  <2>4. J \in SUBSET (1 .. Len(s)) /\ J \in SUBSET Nat
    BY <1>4, <1>s, <1>t, <2>3
  <2>c. PICK c : c = Cardinality(J)
    OBVIOUS
  <2>5. IsFiniteSet(J) /\ c \in Nat /\ c # 0
    <3>1. IsFiniteSet(1 .. Len(s))
      BY <2>3, FS_Interval
    <3> QED BY <1>2, <2>4, <2>c, <3>1, FS_Subset, FS_CardinalityType, FS_EmptySet
  <2>6. 1 \in 1 .. c /\ c \in 1 .. c
    BY <2>5
  <2>7. /\ \E j \in J : Rank(J, j) = c - 1
        /\ \A j \in J : Rank(J, j) + 1 \in 1 .. c
        /\ \A a, b \in J : Rank(J, a) = Rank(J, b) => a = b
    <3>1. c \in 1 .. Cardinality(J)
      BY <2>6, <2>c
    <3>2. \E j \in J : Rank(J, j) = c - 1
      BY <2>4, <2>5, <3>1, RankOf
    <3>3. /\ \A j \in J : Rank(J, j) + 1 \in 1 .. Cardinality(J)
          /\ \A a, b \in J : Rank(J, a) = Rank(J, b) => a = b
      BY <2>4, <2>5, <3>1, RankOf
    <3> QED BY <2>c, <3>2, <3>3
  <2>8. \A j \in J : Rank(J, j) \in Nat
    BY <2>4, <2>5, FS_Subset, FS_CardinalityType DEF Rank
  <2>9. /\ next' = next + c /\ next' \in Nat /\ next <= next'
        /\ \A k \in next .. next' - 1 : {T(k), P(k), X(k)} \subseteq Made(next') \ Made(next)
    BY <1>2, <1>4, <2>c, <2>5, Fresh
  <2>10. TabWhole(t, next') /\ PanesWhole(s, next')
    BY <1>s, <2>2, <2>9, WholeLater DEF TabWhole
  <2>11. ASSUME NEW j \in J
         PROVE  /\ r[j] = Pane(P(nth(j)), P(nth(j))) /\ nth(j) \in next .. next' - 1
                /\ IsPane(r[j]) /\ r[j].id = P(nth(j)) /\ P(nth(j)) \in Made(next') \ Made(next)
    <3>1. Rank(J, j) + 1 \in 1 .. c /\ Rank(J, j) \in Nat
      BY <2>7, <2>8
    <3>2. nth(j) \in next .. next' - 1
      BY <2>2, <2>5, <2>9, <3>1
    <3>3. r[j] = Pane(P(nth(j)), P(nth(j)))
      BY <1>r, <2>3, <2>4
    <3>4. P(nth(j)) \in Made(next') \ Made(next)
      BY <2>9, <3>2
    <3> HIDE DEF nth
    <3> QED BY <3>2, <3>3, <3>4 DEF Pane, IsPane
  <2>12. DOMAIN r = 1 .. Len(s) /\ r = [k \in 1 .. Len(s) |-> r[k]]
    BY <1>r, <2>3
  <2>13. IsList(r) /\ Len(r) = Len(s)
    BY <2>3, <2>12, Listed
  <2>14. \A j \in (1 .. Len(s)) \ J : r[j] = s[j]
    BY <1>r, <2>3
  <2>15. \A j \in 1 .. Len(s) : IsPane(r[j]) /\ r[j].id \in Made(next')
    <3> HIDE DEF nth
    <3> QED BY <2>10, <2>11, <2>14 DEF PanesWhole
  <2>16. ASSUME NEW j \in 1 .. Len(s), NEW l \in 1 .. Len(s), r[j].id = r[l].id
         PROVE  j = l
    <3>0. \A k \in (1 .. Len(s)) \ J : r[k].id \in Made(next)
      BY <2>3, <2>14 DEF PanesWhole
    <3>1. CASE j \in J /\ l \in J
      <4>1. P(nth(j)) = P(nth(l)) /\ nth(j) \in Nat /\ nth(l) \in Nat
        BY <2>2, <2>11, <2>16, <3>1
      <4>2. nth(j) = nth(l)
        BY <2>2, <4>1, MadeBefore
      <4>3. Rank(J, j) = Rank(J, l)
        BY <2>2, <2>8, <3>1, <4>2
      <4> QED BY <2>7, <3>1, <4>3
    <3>2. CASE j \notin J /\ l \notin J
      BY <2>3, <2>14, <2>16, <3>2 DEF PanesWhole
    <3>3. CASE j \in J /\ l \notin J
      BY <2>11, <2>16, <3>0, <3>3
    <3>4. CASE j \notin J /\ l \in J
      BY <2>11, <2>16, <3>0, <3>4
    <3> QED BY <3>1, <3>2, <3>3, <3>4
  <2>17. PanesWhole(r, next')
    BY <2>3, <2>13, <2>15, <2>16 DEF PanesWhole
  <2>18. \E j \in 1 .. Len(s) : r[j].id = last
    <3>1. PICK j \in J : Rank(J, j) = c - 1
      BY <2>7
    <3>2. nth(j) = next + c - 1
      BY <2>2, <2>5, <3>1
    <3>3. r[j].id = last
      BY <1>l, <2>11, <2>c, <3>2
    <3> QED BY <2>4, <3>3
  <2>19. TabWhole(u, next')
    BY <1>1, <2>10, <2>12, <2>17, <2>18 DEF TabWhole, Holds
  <2>20. \A x \in IdsOf(u) : x \in IdsOf(t) \/ x \notin Made(next)
    <3>1. \A j \in 1 .. Len(s) : r[j].id \in IdsOf(t) \/ r[j].id \notin Made(next)
      <4>1. IdsOf(t) = {s[j].id : j \in 1 .. Len(s)}
        BY <1>s, <2>2, IdsMade
      <4> HIDE DEF nth
      <4> QED BY <2>11, <2>14, <4>1
    <3>2. IdsOf(u) = {r[j].id : j \in 1 .. Len(s)}
      BY <1>1, <2>12 DEF IdsOf
    <3> QED BY <3>1, <3>2
  <2> QED BY <1>1, <1>2, <1>4, <1>t, <2>9, <2>19, <2>20, ChangeSafe
<1> QED BY <1>3, <1>4

LEMMA ReportSafe == ASSUME TabsInv, Report PROVE TabsInv'
<1>0. Shaped(tabs) /\ DOMAIN tabs = 1 .. Len(tabs) /\ Len(tabs) \in Nat
      /\ TabIds(tabs) = {tabs[i].id : i \in 1 .. Len(tabs)}
      /\ PaneIds(tabs) = UNION {IdsOf(tabs[i]) : i \in 1 .. Len(tabs)}
  BY Ids DEF TabsInv
<1>1. ASSUME NEW i \in 1 .. Len(tabs), ReconnectTab(i) PROVE TabsInv'
  <2>1. PICK J : J = {j \in DOMAIN tabs[i].panes : tabs[i].panes[j].stolen}
    OBVIOUS
  <2>2. J \in SUBSET (DOMAIN tabs[i].panes) /\ ReconnectPanes(i, J)
    BY <1>1, <2>1 DEF ReconnectTab
  <2> QED BY <2>2, ReconnectSafe
<1>2. ASSUME ReconnectActive PROVE TabsInv'
  <2>i. PICK i : i = HolderIdx(activePane)
    OBVIOUS
  <2>j. PICK j : j = PaneIdx(tabs[i], activePane)
    OBVIOUS
  <2>1. i # 0 /\ ReconnectPanes(i, {j})
    BY <1>2, <2>i, <2>j DEF ReconnectActive
  <2>2. i \in 1 .. Len(tabs) /\ Holds(tabs[i], activePane)
    <3>1. i \in 0 .. Len(tabs) /\ Holds(tabs[i], activePane)
      BY <2>i, <2>1, HolderAt
    <3> QED BY <1>0, <2>1, <3>1
  <2>3. doubled \/ j \in DOMAIN tabs[i].panes
    <3> SUFFICES ASSUME ~doubled PROVE j \in DOMAIN tabs[i].panes
      OBVIOUS
    <3>1. TabWhole(tabs[i], next)
      BY <2>2 DEF TabsInv, Sound, WholeTabs
    <3>2. j \in 1 .. Len(tabs[i].panes)
      BY <2>j, <2>2, <3>1, PaneAt
    <3> QED BY <3>1, <3>2 DEF TabWhole, PanesWhole, IsList
  <2> QED BY <2>1, <2>2, <2>3, ReconnectSafe
<1>3. ASSUME NEW i \in 1 .. Len(tabs), NEW j \in DOMAIN tabs[i].panes, Data(i, j) PROVE TabsInv'
  <2>1. tabs[i].panes[j].id \in PaneIds(tabs) /\ tabs[i].id \in TabIds(tabs)
    BY <1>0 DEF IdsOf
  <2>2. UNCHANGED <<tabs, activeTab, next, doubled>>
    BY <1>3 DEF Data
  <2>3. unread' \subseteq TabIds(tabs) /\ marks' \subseteq PaneIds(tabs)
    BY <1>3, <2>1 DEF Data, TabsInv
  <2> QED BY <2>2, <2>3 DEF TabsInv
<1>4. ASSUME ReadActive PROVE TabsInv'
  <2>2. UNCHANGED <<tabs, activeTab, next, doubled, marks>>
    BY <1>4 DEF ReadActive
  <2>3. unread' \subseteq TabIds(tabs)
    BY <1>4 DEF ReadActive, TabsInv
  <2> QED BY <2>2, <2>3 DEF TabsInv
<1> QED BY <1>0, <1>1, <1>2, <1>3, <1>4, StolenSafe DEF Report

-----------------------------------------------------------------------------
(* The start, and every step.                                              *)

LEMMA Enumerated ==
    ASSUME Sized
    PROVE  /\ Cardinality(Pinned) \in Nat
           /\ SetToSeq(Pinned) \in [1 .. Cardinality(Pinned) -> Pinned]
           /\ \A a, b \in 1 .. Cardinality(Pinned) :
                 SetToSeq(Pinned)[a] = SetToSeq(Pinned)[b] => a = b
<1>1. Cardinality(Pinned) \in Nat /\ ExistsBijection(1 .. Cardinality(Pinned), Pinned)
  BY FS_CardinalityType DEF Sized
<1>2. PICK f \in [1 .. Cardinality(Pinned) -> Pinned] : IsInjective(f)
  BY <1>1 DEF ExistsBijection, Bijection, Injection, IsInjective
<1>3. SetToSeq(Pinned) \in [1 .. Cardinality(Pinned) -> Pinned] /\ IsInjective(SetToSeq(Pinned))
  BY <1>2 DEF SetToSeq
<1> QED BY <1>1, <1>3 DEF IsInjective

LEMMA TabIsWhole ==
    ASSUME NEW n, NEW id \in Made(n), NEW ps, PanesWhole(ps, n), NEW kind
    PROVE  TabWhole(Tab(id, ps, kind), n) /\ Tab(id, ps, kind).id = id
           /\ Tab(id, ps, kind).panes = ps
<1>t. PICK t : t = Tab(id, ps, kind)
  OBVIOUS
<1>1. IsTab(t) /\ t.id = id /\ t.panes = ps /\ t.active = ps[1].id
  BY <1>t DEF Tab, IsTab
<1>2. 1 \in DOMAIN ps
  BY DEF PanesWhole, IsList
<1> QED BY <1>1, <1>2, <1>t DEF TabWhole, Holds

LEMMA TabsInit == ASSUME Sized, Init PROVE TabsInv
<1>1. unread = {} /\ marks = {} /\ activeTab = tabs[1].id
  BY DEF Init
<1>2. SUFFICES WholeTabs(tabs, next) /\ next \in Nat \ {0} /\ 1 \in 1 .. Len(tabs)
  BY <1>1 DEF TabsInv, Sound, WholeTabs, TabWhole
<1>3. CASE tabs = Restored /\ tabs # <<>> /\ next = 1
  <2>n. PICK n : n = Cardinality(Pinned)
    OBVIOUS
  <2>f. PICK f : f = SetToSeq(Pinned)
    OBVIOUS
  <2>1. n \in Nat /\ f \in [1 .. n -> Pinned] /\ \A a, b \in 1 .. n : f[a] = f[b] => a = b
    BY <2>n, <2>f, Enumerated
  <2>2. tabs = [k \in 1 .. n |-> Tab(Sess(f[k]), <<Pane(Sess(f[k]), Sess(f[k]))>>, "terminal")]
    BY <1>3, <2>n, <2>f DEF Restored
  <2>3. IsList(tabs) /\ Len(tabs) = n
    BY <2>1, <2>2, Listed
  <2>4. ASSUME NEW k \in 1 .. n
        PROVE  TabWhole(tabs[k], 1) /\ tabs[k].id = Sess(f[k]) /\ IdsOf(tabs[k]) = {Sess(f[k])}
    <3>x. PICK x : x = Sess(f[k])
      OBVIOUS
    <3>1. x \in Made(1)
      BY <2>1, <3>x DEF Made
    <3>p. PICK ps : ps = <<Pane(x, x)>>
      OBVIOUS
    <3>2. PanesWhole(ps, 1) /\ ps[1].id = x /\ DOMAIN ps = {1}
      BY <3>1, <3>p, OnePane
    <3>3. tabs[k] = Tab(x, ps, "terminal")
      BY <2>2, <3>x, <3>p
    <3>4. TabWhole(tabs[k], 1) /\ tabs[k].id = x /\ tabs[k].panes = ps
      BY <3>1, <3>2, <3>3, TabIsWhole
    <3>5. IdsOf(tabs[k]) = {x}
      BY <3>2, <3>4 DEF IdsOf
    <3> QED BY <3>4, <3>5, <3>x
  <2>5. Shaped(tabs)
    BY <2>3, <2>4 DEF Shaped, TabWhole
  <2>6. ASSUME NEW a \in 1 .. n, NEW b \in 1 .. n, a # b
        PROVE  tabs[a].id # tabs[b].id /\ IdsOf(tabs[a]) \cap IdsOf(tabs[b]) = {}
    <3>1. Sess(f[a]) # Sess(f[b])
      BY <2>1, <2>6 DEF Sess
    <3> QED BY <2>4, <3>1
  <2>7. n # 0
    BY <1>3, <2>2
  <2> QED BY <1>3, <2>1, <2>3, <2>4, <2>5, <2>6, <2>7 DEF WholeTabs
<1>4. ASSUME NEW n \in 1 .. MaxPanes, tabs = Started(n), next = n + 1
      PROVE  WholeTabs(tabs, next) /\ next \in Nat \ {0} /\ 1 \in 1 .. Len(tabs)
  <2>0. n \in Nat \ {0}
    BY DEF Sized
  <2>p. PICK ps : ps = [k \in 1 .. n |-> Pane(P(k), P(k))]
    OBVIOUS
  <2>1. IsList(ps) /\ Len(ps) = n
    BY <2>0, <2>p, Listed
  <2>2. \A k \in 1 .. n : IsPane(ps[k]) /\ ps[k].id = P(k) /\ P(k) \in Made(next)
    BY <1>4, <2>0, <2>p DEF Pane, IsPane, Made
  <2>3. \A a, b \in 1 .. n : ps[a].id = ps[b].id => a = b
    <3>1. \A k \in 1 .. n : k \in Nat
      BY <2>0
    <3>2. \A a, b \in Nat : P(a) = P(b) => a = b
      BY DEF P
    <3> QED BY <2>2, <3>1, <3>2
  <2>4. PanesWhole(ps, next)
    BY <2>0, <2>1, <2>2, <2>3 DEF PanesWhole
  <2>5. T(1) \in Made(next)
    BY <1>4, <2>0 DEF Made
  <2>t. PICK t : t = Tab(T(1), ps, "terminal")
    OBVIOUS
  <2>6. TabWhole(t, next)
    BY <2>4, <2>5, <2>t, TabIsWhole
  <2>7. tabs = <<t>> /\ Len(tabs) = 1 /\ tabs[1] = t /\ tabs = [k \in 1 .. 1 |-> tabs[k]]
    BY <1>4, <2>p, <2>t DEF Started
  <2>8. Shaped(tabs)
    BY <2>6, <2>7 DEF Shaped, IsList, TabWhole
  <2> QED BY <1>4, <2>0, <2>6, <2>7, <2>8 DEF WholeTabs
<1> QED BY <1>3, <1>4 DEF Init

LEMMA TabsNext == ASSUME TabsInv, [Next]_vars PROVE TabsInv'
<1>1. CASE Open
  BY <1>1, OpenHostSafe DEF Open
<1>2. CASE UNCHANGED vars
  BY <1>2 DEF vars, TabsInv
<1> QED
  BY <1>1, <1>2, SplitSafe, ScratchpadSafe, CloneSafe, AttachSafe, CloseSafe, CloseManySafe,
     HideSafe, MoveSafe, ChooseSafe, ReportSafe DEF Next

-----------------------------------------------------------------------------
(* What the invariant gives.                                               *)

LEMMA Whole == ASSUME TabsInv PROVE TabsConsistent
<1>0. Shaped(tabs) /\ DOMAIN tabs = 1 .. Len(tabs) /\ unread \subseteq TabIds(tabs)
      /\ marks \subseteq PaneIds(tabs)
  BY Ids DEF TabsInv
<1>1. ASSUME ~doubled
      PROVE  /\ Distinct(tabs)
             /\ \A t \in ToSet(tabs) :
                   Len(t.panes) \in 1 .. MaxPanes /\ Distinct(t.panes) /\ Holds(t, t.active)
             /\ \A t, u \in ToSet(tabs) : t # u => PaneIds(<<t>>) \cap PaneIds(<<u>>) = {}
  <2>1. WholeTabs(tabs, next)
    BY <1>1 DEF TabsInv, Sound
  <2>2. Distinct(tabs)
    BY <1>0, <2>1 DEF Distinct, WholeTabs
  <2>3. \A t \in ToSet(tabs) : \E i \in 1 .. Len(tabs) : t = tabs[i] /\ TabWhole(t, next)
    BY <1>0, <2>1 DEF WholeTabs, ToSet
  <2>4. \A t \in ToSet(tabs) :
                   Len(t.panes) \in 1 .. MaxPanes /\ Distinct(t.panes) /\ Holds(t, t.active)
    BY <2>3 DEF TabWhole, PanesWhole, Distinct, IsList
  <2>5. \A t : PaneIds(<<t>>) = IdsOf(t)
    <3> TAKE t
    <3>1. ToSet(<<t>>) = {t}
      BY DEF ToSet
    <3> QED BY <3>1 DEF PaneIds, PanesOf, IdsOf, ToSet
  <2>6. \A t, u \in ToSet(tabs) : t # u => PaneIds(<<t>>) \cap PaneIds(<<u>>) = {}
    <3> SUFFICES ASSUME NEW t \in ToSet(tabs), NEW u \in ToSet(tabs), t # u
                 PROVE  IdsOf(t) \cap IdsOf(u) = {}
      BY <2>5
    <3>1. PICK i \in 1 .. Len(tabs) : t = tabs[i]
      BY <2>3
    <3>2. PICK k \in 1 .. Len(tabs) : u = tabs[k]
      BY <2>3
    <3> QED BY <2>1, <3>1, <3>2 DEF WholeTabs
  <2> QED BY <2>2, <2>4, <2>6
<1> QED BY <1>0, <1>1 DEF TabsConsistent, TabsWhole

LEMMA Aimed == ASSUME TabsInv PROVE BroadcastAim
<1>0. Shaped(tabs) /\ DOMAIN tabs = 1 .. Len(tabs) /\ Len(tabs) \in Nat
  BY Ids DEF TabsInv
<1> SUFFICES ASSUME NEW t \in ToSet(tabs), NEW p \in ToSet(t.panes), NEW mode \in {"tab", "all"}
             PROVE  LET targets == BroadcastTargets(mode, p.id)
                    IN /\ p.id \notin targets
                       /\ mode = "tab" /\ t.id = activeTab /\ t.kind = "terminal" /\ ~doubled =>
                             targets = PaneIds(<<t>>) \ {p.id}
                       /\ ~doubled =>
                             \A u \in ToSet(tabs) : u.kind = "scratchpad" =>
                                 targets \cap PaneIds(<<u>>) = {}
  BY DEF BroadcastAim
<1>g. PICK targets : targets = BroadcastTargets(mode, p.id)
  OBVIOUS
<1> DEFINE I == {k \in 1 .. Len(tabs) : tabs[k].id = activeTab \/ Holds(tabs[k], p.id)}
<1>i. PICK i : i = SelectInSeq(tabs, LAMBDA x : x.id = activeTab \/ Holds(x, p.id))
  OBVIOUS
<1>1. i = IF I # {} THEN Min(I) ELSE 0
  BY <1>i DEF SelectInSeq
<1>c. PICK C : C = {PaneIds(<<x>>) : x \in {x \in ToSet(tabs) : x.kind = "terminal"}}
  OBVIOUS
<1>d. \A c \in C : \E x \in ToSet(tabs) : x.kind = "terminal" /\ c = PaneIds(<<x>>)
  BY <1>c
<1>2. /\ mode = "all" => targets = (UNION C) \ {p.id}
      /\ mode = "tab" => targets = IF i # 0 /\ tabs[i].kind = "terminal"
                                   THEN {q.id : q \in ToSet(tabs[i].panes)} \ {p.id} ELSE {}
  BY <1>i, <1>g, <1>c DEF BroadcastTargets
<1> HIDE DEF I
<1>3. I # {} => i \in I
  <2>1. I \in SUBSET Nat
    BY DEF I
  <2>2. I # {} => Min(I) \in I
    BY <2>1, MinIn
  <2> QED BY <1>1, <2>2
<1>4. i = 0 \/ i \in 1 .. Len(tabs)
  BY <1>1, <1>3 DEF I
<1>5. \A x : PaneIds(<<x>>) = {q.id : q \in ToSet(x.panes)}
  <2> TAKE x
  <2>1. ToSet(<<x>>) = {x}
    BY DEF ToSet
  <2> QED BY <2>1 DEF PaneIds, PanesOf
<1>6. ASSUME ~doubled PROVE TabsWhole
  BY Whole DEF TabsConsistent
<1>7. p.id \notin targets
  <2>1. CASE mode = "all"
    BY <1>2, <2>1
  <2>2. CASE mode = "tab"
    <3>1. targets = {q.id : q \in ToSet(tabs[i].panes)} \ {p.id} \/ targets = {}
      BY <1>2, <2>2
    <3> QED BY <3>1
  <2> QED BY <2>1, <2>2
<1>8. ASSUME ~doubled, NEW x \in ToSet(tabs), NEW u \in ToSet(tabs), x # u
      PROVE  {q.id : q \in ToSet(x.panes)} \cap PaneIds(<<u>>) = {}
  BY <1>5, <1>6, <1>8 DEF TabsWhole
<1>9. ASSUME mode = "tab", t.id = activeTab, t.kind = "terminal", ~doubled
      PROVE  targets = PaneIds(<<t>>) \ {p.id}
  <2>1. PICK k \in 1 .. Len(tabs) : tabs[k] = t
    BY <1>0 DEF ToSet
  <2>2. k \in I
    BY <1>9, <2>1 DEF I
  <2>3. i \in I /\ i \in 1 .. Len(tabs) /\ tabs[i] \in ToSet(tabs)
    BY <1>0, <1>3, <2>2 DEF I, ToSet
  <2>4. tabs[i] = t
    <3>1. CASE tabs[i].id = activeTab
      BY <1>0, <1>6, <1>9, <2>1, <2>3, <3>1 DEF TabsWhole, Distinct
    <3>2. CASE Holds(tabs[i], p.id)
      <4>1. p.id \in {q.id : q \in ToSet(tabs[i].panes)}
        BY <3>2 DEF Holds, ToSet
      <4>2. p.id \in PaneIds(<<t>>)
        BY <1>5
      <4> QED BY <1>8, <1>9, <2>3, <4>1, <4>2
    <3> QED BY <2>3, <3>1, <3>2 DEF I
  <2>5. i # 0
    BY <2>3
  <2> QED BY <1>2, <1>5, <1>9, <2>4, <2>5
<1>10. ASSUME ~doubled, NEW u \in ToSet(tabs), u.kind = "scratchpad"
       PROVE  targets \cap PaneIds(<<u>>) = {}
  <2>0. "scratchpad" # "terminal"
    OBVIOUS
  <2>1. CASE mode = "all"
    <3>1. \A x \in ToSet(tabs) : x.kind = "terminal" => PaneIds(<<x>>) \cap PaneIds(<<u>>) = {}
      BY <1>5, <1>8, <1>10, <2>0
    <3>2. \A z \in targets : \E x \in ToSet(tabs) : x.kind = "terminal" /\ z \in PaneIds(<<x>>)
      BY <1>2, <1>d, <2>1
    <3> QED BY <3>1, <3>2
  <2>2. CASE mode = "tab"
    <3>1. CASE i # 0 /\ tabs[i].kind = "terminal"
      <4>1. tabs[i] \in ToSet(tabs) /\ tabs[i] # u
        BY <1>0, <1>4, <1>10, <2>0, <3>1 DEF ToSet
      <4> QED BY <1>2, <1>8, <1>10, <2>2, <3>1, <4>1
    <3>2. CASE ~ (i # 0 /\ tabs[i].kind = "terminal")
      BY <1>2, <2>2, <3>2
    <3> QED BY <3>1, <3>2
  <2> QED BY <2>1, <2>2
<1> QED BY <1>7, <1>9, <1>10, <1>g

-----------------------------------------------------------------------------
(* What steps do to the focus and to the panes.                            *)

Kept == \A p \in PanesOf(tabs) : p.stolen \/ p.id \in PaneIds(tabs')

LEMMA PanesAt ==
    ASSUME TabsInv, ~doubled, NEW p \in PanesOf(tabs)
    PROVE  \E i \in 1 .. Len(tabs) : \E j \in 1 .. Len(tabs[i].panes) : p = tabs[i].panes[j]
<1>1. DOMAIN tabs = 1 .. Len(tabs) /\ WholeTabs(tabs, next)
  BY Ids DEF TabsInv, Sound
<1>2. PICK i \in 1 .. Len(tabs) : p \in ToSet(tabs[i].panes)
  BY <1>1 DEF PanesOf, ToSet
<1>3. DOMAIN tabs[i].panes = 1 .. Len(tabs[i].panes)
  BY <1>1 DEF WholeTabs, TabWhole, PanesWhole, IsList
<1> QED BY <1>2, <1>3 DEF ToSet

\* The focused tab, if there is one.
LEMMA FocusedAt ==
    ASSUME TabsInv, ~doubled, Focused
    PROVE  \/ tabs = <<>> /\ Len(tabs) = 0 /\ activeTab = None /\ activePane = None
           \/ /\ tabs # <<>>
              /\ \E i \in 1 .. Len(tabs) :
                  /\ tabs[i].id = activeTab /\ tabs[i].active = activePane
                  /\ Holds(tabs[i], activePane) /\ TabIdx(activeTab) = i
<1>1. DOMAIN tabs = 1 .. Len(tabs) /\ WholeTabs(tabs, next)
      /\ TabIds(tabs) = {tabs[k].id : k \in 1 .. Len(tabs)}
  BY Ids DEF TabsInv, Sound
<1>2. CASE tabs = <<>>
  BY <1>2 DEF Focused
<1>3. CASE tabs # <<>>
  <2>1. PICK i \in 1 .. Len(tabs) : tabs[i].id = activeTab /\ tabs[i].active = activePane
    BY <1>1, <1>3 DEF Focused, ToSet
  <2>2. Holds(tabs[i], activePane)
    BY <1>1, <2>1 DEF WholeTabs, TabWhole
  <2>3. TabIdx(activeTab) # 0 /\ TabIdx(activeTab) \in 0 .. Len(tabs)
        /\ tabs[TabIdx(activeTab)].id = activeTab
    BY <1>1, <2>1, TabAt
  <2>4. TabIdx(activeTab) = i
    BY <1>1, <2>1, <2>3 DEF WholeTabs
  <2> QED BY <1>3, <2>1, <2>2, <2>4
<1> QED BY <1>2, <1>3

\* The tabs that a step leaves, and one of them in focus.
LEMMA FocusesAt ==
    ASSUME TabsInv', NEW i \in 1 .. Len(tabs'), tabs'[i].id = activeTab',
           tabs'[i].active = activePane'
    PROVE  Focused'
<1>1. DOMAIN tabs' = 1 .. Len(tabs') /\ Len(tabs') \in Nat
  BY DEF TabsInv, Shaped, IsList
<1>2. tabs'[i] \in ToSet(tabs') /\ tabs' # <<>>
  BY <1>1 DEF ToSet
<1> QED BY <1>2 DEF Focused

\* The panes of a tab are among the panes of the tabs.
LEMMA IdsAt ==
    ASSUME TabsInv', NEW i \in 1 .. Len(tabs'), NEW x \in IdsOf(tabs'[i])
    PROVE  x \in PaneIds(tabs')
<1>1. Shaped(tabs')
  BY DEF TabsInv
<1> QED BY <1>1, Ids

LEMMA IdAt ==
    ASSUME TabsInv, ~doubled, NEW i \in 1 .. Len(tabs), NEW j \in 1 .. Len(tabs[i].panes)
    PROVE  tabs[i].panes[j].id \in IdsOf(tabs[i])
<1>1. DOMAIN tabs[i].panes = 1 .. Len(tabs[i].panes)
  BY DEF TabsInv, Sound, WholeTabs, TabWhole, PanesWhole, IsList
<1> QED BY <1>1 DEF IdsOf

\* Tabs that stay, wherever they stand, keep the focus and their panes.
LEMMA StayKeeps ==
    ASSUME TabsInv, TabsInv', ~doubled, tabs = <<>>
           => tabs' = <<>>, activeTab' = activeTab, activePane' = activePane,
           \A i \in 1 .. Len(tabs) : tabs[i].id = activeTab =>
               \E k \in 1 .. Len(tabs') : tabs'[k].id = tabs[i].id
                 /\ tabs'[k].active = tabs[i].active
    PROVE  Focused => Focused'
<1> SUFFICES ASSUME Focused PROVE Focused'
  OBVIOUS
<1>1. CASE tabs = <<>>
  <2>1. activeTab = None /\ activePane = None
    BY <1>1 DEF Focused
  <2>2. tabs' = <<>>
    BY <1>1
  <2> QED BY <2>1, <2>2 DEF Focused
<1>2. CASE tabs # <<>>
  <2>1. PICK i \in 1 .. Len(tabs) : tabs[i].id = activeTab /\ tabs[i].active = activePane
    BY <1>2, FocusedAt
  <2>2. PICK k \in 1 .. Len(tabs') : tabs'[k].id = tabs[i].id /\ tabs'[k].active = tabs[i].active
    BY <2>1
  <2> QED BY <2>1, <2>2, FocusesAt
<1> QED BY <1>1, <1>2

LEMMA SameKeeps ==
    ASSUME TabsInv, TabsInv', ~doubled, tabs' = tabs PROVE Kept
<1>1. \A p \in PanesOf(tabs) : p.id \in PaneIds(tabs)
  BY DEF PaneIds
<1> QED BY <1>1 DEF Kept

LEMMA ListKeeps ==
    ASSUME TabsInv, TabsInv', ~doubled,
           \A i \in 1 .. Len(tabs) : \A j \in 1 .. Len(tabs[i].panes) :
               \/ tabs[i].panes[j].stolen
               \/ \E k \in 1 .. Len(tabs') : tabs[i].panes[j].id \in IdsOf(tabs'[k])
    PROVE  Kept
<1> SUFFICES ASSUME NEW p \in PanesOf(tabs) PROVE p.stolen \/ p.id \in PaneIds(tabs')
  BY DEF Kept
<1>1. PICK i \in 1 .. Len(tabs) : \E j \in 1 .. Len(tabs[i].panes) : p = tabs[i].panes[j]
  BY PanesAt
<1>2. PICK j \in 1 .. Len(tabs[i].panes) : p = tabs[i].panes[j]
  BY <1>1
<1> QED BY <1>2, IdsAt

LEMMA SameLen ==
    ASSUME NEW m \in Nat, NEW n \in Nat, 1 .. m = 1 .. n PROVE m = n
<1>1. \A k \in 1 .. m : k <= n
  OBVIOUS
<1>2. \A k \in 1 .. n : k <= m
  OBVIOUS
<1>3. m # 0 => m \in 1 .. m
  OBVIOUS
<1>4. n # 0 => n \in 1 .. n
  OBVIOUS
<1> QED BY <1>1, <1>2, <1>3, <1>4

LEMMA AppendIs ==
    ASSUME NEW s, IsList(s), NEW e
    PROVE  /\ IsList(Append(s, e)) /\ Len(Append(s, e)) = Len(s) + 1
           /\ \A k \in 1 .. Len(s) : Append(s, e)[k] = s[k]
           /\ Append(s, e)[Len(s) + 1] = e
<1>1. s \in Seq({s[k] : k \in 1 .. Len(s)} \cup {e}) /\ Len(s) \in Nat
  BY DEF IsList
<1>2. /\ Append(s, e) \in Seq({s[k] : k \in 1 .. Len(s)} \cup {e})
      /\ Len(Append(s, e)) = Len(s) + 1
      /\ \A k \in 1 .. Len(s) : Append(s, e)[k] = s[k]
      /\ Append(s, e)[Len(s) + 1] = e
  BY <1>1, AppendProperties
<1>3. IsList(Append(s, e))
  BY <1>2, LenProperties DEF IsList
<1> QED BY <1>2, <1>3

LEMMA OpenKeeps ==
    ASSUME TabsInv, TabsInv', ~doubled, NEW id, NEW ps, NEW kind, OpenTab(id, ps, kind)
    PROVE  Focused' /\ Kept
<1>t. PICK t : t = Tab(id, ps, kind)
  OBVIOUS
<1>1. t.id = id /\ t.active = ps[1].id
  BY <1>t DEF Tab
<1>2. tabs' = Append(tabs, t) /\ activeTab' = id /\ activePane' = ps[1].id
  BY <1>t DEF OpenTab, SetTabs, Focus
<1>3. IsList(tabs) /\ Len(tabs) \in Nat
  BY DEF TabsInv, Shaped, IsList
<1>4. /\ Len(tabs') = Len(tabs) + 1 /\ tabs'[Len(tabs) + 1] = t
      /\ \A k \in 1 .. Len(tabs) : tabs'[k] = tabs[k]
  BY <1>2, <1>3, AppendIs
<1>5. Focused'
  <2>1. Len(tabs) + 1 \in 1 .. Len(tabs')
    BY <1>3, <1>4
  <2>2. tabs'[Len(tabs) + 1].id = activeTab' /\ tabs'[Len(tabs) + 1].active = activePane'
    BY <1>1, <1>2, <1>4
  <2> QED BY <2>1, <2>2, FocusesAt
<1>6. ASSUME NEW i \in 1 .. Len(tabs), NEW j \in 1 .. Len(tabs[i].panes)
      PROVE  \E k \in 1 .. Len(tabs') : tabs[i].panes[j].id \in IdsOf(tabs'[k])
  <2>1. i \in 1 .. Len(tabs') /\ tabs'[i] = tabs[i]
    BY <1>3, <1>4
  <2> QED BY <2>1, IdAt
<1>7. Kept
  BY <1>6, ListKeeps
<1> QED BY <1>5, <1>7

\* Another tab at the place of a tab.
LEMMA ChangeKeeps ==
    ASSUME TabsInv, TabsInv', ~doubled, NEW i \in 1 .. Len(tabs), NEW t,
           tabs' = [tabs EXCEPT ![i] = t], t.id = tabs[i].id
    PROVE  /\ activeTab' = t.id /\ activePane' = t.active => Focused'
           /\ activeTab' = activeTab /\ activePane' = activePane
              /\ (t.active = tabs[i].active \/ tabs[i].id # activeTab) => (Focused => Focused')
           /\ (\A j \in 1 .. Len(tabs[i].panes) :
                   tabs[i].panes[j].stolen \/ tabs[i].panes[j].id \in IdsOf(t)) => Kept
<1>1. IsList(tabs) /\ Len(tabs) \in Nat /\ DOMAIN tabs = 1 .. Len(tabs) /\ IsList(tabs')
      /\ DOMAIN tabs' = 1 .. Len(tabs') /\ Len(tabs') \in Nat
  BY DEF TabsInv, Shaped, IsList
<1>2. DOMAIN tabs' = DOMAIN tabs /\ \A k \in 1 .. Len(tabs) : tabs'[k] = IF k = i THEN t
        ELSE tabs[k]
  BY <1>1
<1>3. Len(tabs') = Len(tabs)
  BY <1>1, <1>2, SameLen
<1>4. ASSUME activeTab' = t.id, activePane' = t.active PROVE Focused'
  BY <1>2, <1>3, <1>4, FocusesAt
<1>5. ASSUME activeTab' = activeTab, activePane' = activePane,
             t.active = tabs[i].active \/ tabs[i].id # activeTab
      PROVE  Focused => Focused'
  <2>1. tabs # <<>>
    BY <1>1
  <2>2. ASSUME NEW k \in 1 .. Len(tabs), tabs[k].id = activeTab
        PROVE  tabs'[k].id = tabs[k].id /\ tabs'[k].active = tabs[k].active
    <3>1. CASE k = i
      BY <1>2, <1>5, <2>2, <3>1
    <3>2. CASE k # i
      BY <1>2, <3>2
    <3> QED BY <3>1, <3>2
  <2> QED BY <1>3, <1>5, <2>1, <2>2, StayKeeps
<1>6. ASSUME \A j \in 1 .. Len(tabs[i].panes) :
                   tabs[i].panes[j].stolen \/ tabs[i].panes[j].id \in IdsOf(t)
      PROVE  Kept
  <2>1. ASSUME NEW k \in 1 .. Len(tabs), NEW j \in 1 .. Len(tabs[k].panes)
        PROVE  \/ tabs[k].panes[j].stolen
               \/ \E l \in 1 .. Len(tabs') : tabs[k].panes[j].id \in IdsOf(tabs'[l])
    <3>1. CASE k = i
      BY <1>2, <1>3, <1>6, <3>1
    <3>2. CASE k # i
      <4>1. tabs'[k] = tabs[k] /\ k \in 1 .. Len(tabs')
        BY <1>2, <1>3, <3>2
      <4> QED BY <4>1, IdAt
    <3> QED BY <3>1, <3>2
  <2> QED BY <2>1, ListKeeps
<1>7. activeTab' = t.id /\ activePane' = t.active => Focused'
  BY <1>4
<1>8. activeTab' = activeTab /\ activePane' = activePane
      /\ (t.active = tabs[i].active \/ tabs[i].id # activeTab) => (Focused => Focused')
  BY <1>5
<1>9. (\A j \in 1 .. Len(tabs[i].panes) :
          tabs[i].panes[j].stolen \/ tabs[i].panes[j].id \in IdsOf(t)) => Kept
  BY <1>6
<1> QED BY <1>7, <1>8, <1>9

LEMMA ActivateKeeps ==
    ASSUME TabsInv, TabsInv', ~doubled, NEW h \in 1 .. Len(tabs), NEW p, Activate(p, tabs[h].id)
    PROVE  Focused' /\ Kept
<1>1. DOMAIN tabs = 1 .. Len(tabs) /\ Len(tabs) \in Nat /\ DOMAIN tabs' = 1 .. Len(tabs')
      /\ Len(tabs') \in Nat
      /\ \A k \in 1 .. Len(tabs) : IsTab(tabs[k])
  BY DEF TabsInv, Shaped, IsList
<1>2. /\ DOMAIN tabs' = DOMAIN tabs /\ activeTab' = tabs[h].id /\ activePane' = p
      /\ \A k \in 1 .. Len(tabs) :
            tabs'[k] = IF tabs[k].id = tabs[h].id THEN [tabs[k] EXCEPT !.active = p]
                                              ELSE tabs[k]
  BY <1>1 DEF Activate, Focus
<1>3. Len(tabs') = Len(tabs)
  BY <1>1, <1>2, SameLen
<1>4. \A k \in 1 .. Len(tabs) : tabs'[k].id = tabs[k].id /\ tabs'[k].panes = tabs[k].panes
  BY <1>1, <1>2 DEF IsTab
<1>5. Focused'
  <2>1. tabs'[h].active = p
    BY <1>1, <1>2 DEF IsTab
  <2> QED BY <1>2, <1>3, <1>4, <2>1, FocusesAt
<1>6. ASSUME NEW i \in 1 .. Len(tabs), NEW j \in 1 .. Len(tabs[i].panes)
      PROVE  \E k \in 1 .. Len(tabs') : tabs[i].panes[j].id \in IdsOf(tabs'[k])
  <2>1. IdsOf(tabs'[i]) = IdsOf(tabs[i])
    BY <1>4 DEF IdsOf
  <2> QED BY <1>3, <2>1, IdAt
<1> QED BY <1>5, <1>6, ListKeeps

\* What a step that is none of those of Drifts does.
Stays == ~doubled /\ TabsInv /\ TabsInv'

LEMMA AddKeeps ==
    ASSUME Stays, NEW i \in 1 .. Len(tabs), NEW p, SetTabs(AddPane(i, p))
    PROVE  /\ activeTab' = tabs[i].id /\ activePane' = p.id => Focused'
           /\ Kept
<1>t. PICK t : t = WithPanes(tabs[i], Append(tabs[i].panes, p), p.id)
  OBVIOUS
<1>1. t.id = tabs[i].id /\ t.panes = Append(tabs[i].panes, p) /\ t.active = p.id
  BY <1>t DEF WithPanes
<1>2. tabs' = [tabs EXCEPT ![i] = t]
  <2>1. i \in DOMAIN tabs
    BY Ids DEF TabsInv, Stays
  <2> QED BY <2>1, <1>t DEF AddPane, SetTabs
<1>3. IsList(tabs[i].panes) /\ Len(tabs[i].panes) \in Nat
  BY DEF Stays, TabsInv, Sound, WholeTabs, TabWhole, PanesWhole, IsList
<1>4. ASSUME NEW j \in 1 .. Len(tabs[i].panes) PROVE tabs[i].panes[j].id \in IdsOf(t)
  <2>1. /\ IsList(t.panes) /\ Len(t.panes) = Len(tabs[i].panes) + 1
        /\ t.panes[j] = tabs[i].panes[j]
    BY <1>1, <1>3, AppendIs
  <2>2. j \in DOMAIN t.panes
    BY <1>3, <2>1 DEF IsList
  <2> QED BY <2>1, <2>2 DEF IdsOf
<1> QED BY <1>1, <1>2, <1>4, ChangeKeeps DEF Stays

LEMMA OpenHostKeeps ==
    ASSUME Stays, NEW id, NEW target, OpenHost(id, target)
    PROVE  Focused' /\ Kept
<1>h. PICK h : h = HolderIdx(id)
  OBVIOUS
<1>i. PICK i : i = TabIdx(target)
  OBVIOUS
<1>f. PICK fresh : fresh = IF id = None THEN P(next) ELSE id
  OBVIOUS
<1>1. h \in 0 .. Len(tabs) /\ i \in 0 .. Len(tabs) /\ (i # 0 => tabs[i].id = target)
      /\ Len(tabs) \in Nat
  BY <1>h, <1>i, HolderAt, TabAt, Ids DEF TabsInv, Stays
<1>3. CASE id # None /\ h # 0
  <2>1. Activate(id, tabs[h].id) /\ h \in 1 .. Len(tabs)
    BY <1>1, <1>3, <1>h DEF OpenHost
  <2> QED BY <2>1, ActivateKeeps DEF Stays
<1>5. CASE ~ (id # None /\ h # 0) /\ i # 0
  <2>1. /\ SetTabs(AddPane(i, Pane(fresh, fresh))) /\ activeTab' = target /\ activePane' = fresh
    BY <1>5, <1>h, <1>i, <1>f DEF OpenHost, Focus
  <2>2. i \in 1 .. Len(tabs) /\ Pane(fresh, fresh).id = fresh
    BY <1>1, <1>5 DEF Pane
  <2> QED BY <1>1, <1>5, <2>1, <2>2, AddKeeps
<1>6. CASE ~ (id # None /\ h # 0) /\ i = 0
  <2>1. OpenTab(IF target = None THEN T(next) ELSE target, <<Pane(fresh, fresh)>>, "terminal")
    BY <1>6, <1>h, <1>i, <1>f DEF OpenHost
  <2> QED BY <2>1, OpenKeeps DEF Stays
<1> QED BY <1>3, <1>5, <1>6

LEMMA SplitKeeps == ASSUME Stays, OpenHostsAsSplit PROVE Focused' /\ Kept
BY OpenKeeps DEF OpenHostsAsSplit, Stays

LEMMA ScratchpadKeeps == ASSUME Stays, OpenScratchpad PROVE Kept
<1>1. CASE tabs' = tabs
  BY <1>1, SameKeeps DEF Stays
<1>2. CASE OpenTab(X(next), <<Pane(X(next), X(next))>>, "scratchpad")
  BY <1>2, OpenKeeps DEF Stays
<1> QED BY <1>1, <1>2 DEF OpenScratchpad, Becomes, SetTabs

LEMMA CloneKeeps ==
    ASSUME Stays, Clone
    PROVE  Kept /\ (activeTab' = activeTab \/ Focused')
<1>1. PICK id : CloneSession(id) \/ CloneInSameTab(id)
  BY DEF Clone
<1>3. CASE CloneSession(id)
  BY <1>3, OpenKeeps DEF CloneSession, Stays
<1>4. CASE CloneInSameTab(id)
  <2>i. PICK i : i = CloneTab(id)
    OBVIOUS
  <2>1. i # 0 /\ SetTabs(AddPane(i, Pane(P(next), P(next)))) /\ activeTab' = activeTab
    BY <1>4, <2>i DEF CloneInSameTab, Focus
  <2>2. i \in 0 .. Len(tabs) /\ Len(tabs) \in Nat
    BY <2>i, TabAt, HolderAt, Ids DEF CloneTab, TabsInv, Stays
  <2>3. i \in 1 .. Len(tabs)
    BY <2>1, <2>2
  <2> QED BY <2>1, <2>3, AddKeeps
<1> QED BY <1>1, <1>3, <1>4

LEMMA AttachKeeps == ASSUME Stays, AttachSession PROVE Kept
<1>s. PICK s \in Running :
        LET i == SelectInSeq(tabs, LAMBDA t : Shows(t, s))
        IN IF i # 0
           THEN LET j == SelectInSeq(tabs[i].panes,
                                     LAMBDA p : p.sess = s /\ ~p.stolen)
                IN Becomes(tabs, tabs[i].id, tabs[i].panes[j].id)
           ELSE /\ MakesIds(1)
                /\ OpenTab(T(next), <<Pane(P(next), s)>>, "terminal")
  BY DEF AttachSession
<1>1. CASE tabs' = tabs
  BY <1>1, SameKeeps DEF Stays
<1>2. CASE OpenTab(T(next), <<Pane(P(next), s)>>, "terminal")
  BY <1>2, OpenKeeps DEF Stays
<1>i. PICK i : i = SelectInSeq(tabs, LAMBDA t : Shows(t, s))
  OBVIOUS
<1>3. tabs' = tabs \/ OpenTab(T(next), <<Pane(P(next), s)>>, "terminal")
  <2>1. CASE i # 0
    BY <1>s, <1>i, <2>1 DEF Becomes, SetTabs
  <2>2. CASE i = 0
    BY <1>s, <1>i, <2>2
  <2> QED BY <2>1, <2>2
<1> QED BY <1>1, <1>2, <1>3

-----------------------------------------------------------------------------
(* Closing, seen from the active pane.                                     *)

LEMMA DropKeeps ==
    ASSUME Stays, NEW id, Drop(id) PROVE Focused => Focused'
<1> DEFINE I == {k \in DOMAIN tabs : tabs[k].id # id}
           i == TabIdx(id)
           e == IF i > 1 THEN i - 1 ELSE 1
<1>1. /\ DOMAIN tabs = 1 .. Len(tabs) /\ Len(tabs) \in Nat
      /\ \A a, b \in 1 .. Len(tabs) : tabs[a].id = tabs[b].id => a = b
  BY Ids DEF Stays, TabsInv, Sound, WholeTabs
<1>n. PICK new : new = Filtered(I)
  OBVIOUS
<1>2. tabs' = new /\ CASE new = <<>> -> Focus(None, None)
            [] new # <<>> /\ activeTab = id -> Focus(new[e].id, new[e].active)
            [] OTHER -> Focus(activeTab, activePane)
  BY <1>n DEF Drop, SetTabs
<1>3. I \in SUBSET (1 .. Len(tabs))
  BY <1>1
<1>4. \A k \in 1 .. Len(tabs) : tabs[k].id # id => k \in I
  BY <1>1
<1> HIDE DEF I
<1>5. IsList(new) /\ Len(new) = Cardinality(I) /\ IsFiniteSet(I)
  BY <1>3, <1>n, FilterIs DEF Stays
<1>6. PICK f \in [1 .. Len(new) -> I] :
                 /\ \A k \in 1 .. Len(new) : new[k] = tabs[f[k]]
                 /\ \A a \in I : \E k \in 1 .. Len(new) : f[k] = a
  BY <1>3, <1>n, FilterIs DEF Stays
<1>7. CASE new = <<>>
  BY <1>2, <1>7 DEF Focus, Focused
<1>8. CASE new # <<>> /\ activeTab = id
  <2>1. activeTab' = new[e].id /\ activePane' = new[e].active
    BY <1>2, <1>8 DEF Focus
  <2>2. e \in 1 .. Len(new)
    BY <1>n, <1>8, DropAt DEF Stays, I
  <2> QED BY <1>2, <2>1, <2>2, FocusesAt DEF Stays
<1>9. CASE new # <<>> /\ activeTab # id
  <2>1. activeTab' = activeTab /\ activePane' = activePane
    BY <1>2, <1>9 DEF Focus
  <2>2. tabs # <<>>
    <3>1. Len(new) # 0
      BY <1>5, <1>9 DEF IsList
    <3>2. f[1] \in 1 .. Len(tabs)
      BY <1>3, <1>5, <3>1 DEF IsList
    <3> QED BY <3>2
  <2>3. ASSUME NEW a \in 1 .. Len(tabs), tabs[a].id = activeTab
        PROVE  \E k \in 1 .. Len(tabs') : tabs'[k].id = tabs[a].id
               /\ tabs'[k].active = tabs[a].active
    <3>1. a \in I
      BY <1>4, <1>9, <2>3
    <3> QED BY <1>2, <1>6, <3>1
  <2> QED BY <2>1, <2>2, <2>3, StayKeeps DEF Stays
<1> QED BY <1>7, <1>8, <1>9

LEMMA ClosePaneKeeps ==
    ASSUME Stays, NEW i \in 1 .. Len(tabs), NEW j, ClosePane(i, j)
    PROVE  Focused => Focused'
<1>t. PICK t : t = tabs[i]
  OBVIOUS
<1>p. PICK p : p = NextPane(t, j)
  OBVIOUS
<1>u. PICK u : u = WithPanes(t, RemoveAt(t.panes, j), p)
  OBVIOUS
<1>1. u.id = tabs[i].id /\ u.active = p
  BY <1>t, <1>u DEF WithPanes
<1>2. /\ tabs' = [tabs EXCEPT ![i] = u] /\ activeTab' = activeTab
      /\ activePane' = IF activeTab = t.id THEN p ELSE activePane
  BY <1>t, <1>p, <1>u DEF ClosePane, Becomes, SetTabs, Focus
<1>3. CASE activeTab = tabs[i].id
  <2>1. activeTab' = u.id /\ activePane' = u.active
    BY <1>t, <1>1, <1>2, <1>3
  <2> QED BY <1>1, <1>2, <2>1, ChangeKeeps DEF Stays
<1>4. CASE activeTab # tabs[i].id
  <2>1. activeTab' = activeTab /\ activePane' = activePane
    BY <1>t, <1>2, <1>4
  <2> QED BY <1>1, <1>2, <1>4, <2>1, ChangeKeeps DEF Stays
<1> QED BY <1>3, <1>4

LEMMA CloseKeeps == ASSUME Stays, Close PROVE Focused => Focused'
<1>1. ASSUME NEW x, CloseTabOrPane(x) PROVE Focused => Focused'
  <2>i. PICK i : i = HolderIdx(x)
    OBVIOUS
  <2>1. i \in 0 .. Len(tabs) /\ Len(tabs) \in Nat
    BY <2>i, HolderAt, Ids DEF TabsInv, Stays
  <2>2. CASE TabIdx(x) = 0 /\ Len(tabs[i].panes) > 1
    <3>1. ClosePane(i, PaneIdx(tabs[i], x)) /\ i # 0
      BY <1>1, <2>2, <2>i DEF CloseTabOrPane
    <3>2. i \in 1 .. Len(tabs)
      BY <2>1, <3>1
    <3> QED BY <3>1, <3>2, ClosePaneKeeps
  <2>3. CASE ~ (TabIdx(x) = 0 /\ Len(tabs[i].panes) > 1)
    <3>1. Drop(x) \/ Drop(tabs[i].id)
      BY <1>1, <2>3, <2>i DEF CloseTabOrPane, CloseTab
    <3> QED BY <3>1, DropKeeps
  <2> QED BY <2>2, <2>3
<1> QED BY <1>1, DropKeeps DEF Close, CloseTab

LEMMA OtherTabsKeep == ASSUME Stays, NEW id, CloseOtherTabs(id) PROVE Focused'
<1>i. PICK i : i = TabIdx(id)
  OBVIOUS
<1>1. i # 0 /\ i \in 0 .. Len(tabs) /\ tabs[i].id = id
  BY <1>i, TabAt DEF CloseOtherTabs, Stays
<1>2. tabs' = <<tabs[i]>> /\ activeTab' = id /\ activePane' = tabs[i].active
  BY <1>i DEF CloseOtherTabs, Becomes, SetTabs, Focus
<1>3. 1 \in 1 .. Len(tabs') /\ tabs'[1] = tabs[i]
  BY <1>2
<1> QED BY <1>1, <1>2, <1>3, FocusesAt DEF Stays

LEMMA OtherPanesKeep == ASSUME Stays, NEW id, CloseOtherPanes(id) PROVE Focused'
<1>i. PICK i : i = TabIdx(id)
  OBVIOUS
<1>u. PICK u : u = WithPanes(tabs[i], <<tabs[i].panes[PaneIdx(tabs[i], tabs[i].active)]>>,
        tabs[i].active)
  OBVIOUS
<1>0. Len(tabs) \in Nat
  BY Ids DEF TabsInv, Stays
<1>1. i # 0 /\ i \in 0 .. Len(tabs) /\ tabs[i].id = id
  BY <1>i, TabAt DEF CloseOtherPanes, Stays
<1>2. tabs' = [tabs EXCEPT ![i] = u] /\ activeTab' = id /\ activePane' = tabs[i].active
  BY <1>i, <1>u DEF CloseOtherPanes, Becomes, SetTabs, Focus
<1>3. u.id = tabs[i].id /\ u.active = tabs[i].active /\ i \in 1 .. Len(tabs)
  BY <1>0, <1>1, <1>u DEF WithPanes
<1>4. activeTab' = u.id /\ activePane' = u.active
  BY <1>1, <1>2, <1>3
<1> QED BY <1>2, <1>3, <1>4, ChangeKeeps DEF Stays

LEMMA SideTabsKeep ==
    ASSUME Stays, NEW id, NEW left \in BOOLEAN, CloseSideTabs(id, left)
    PROVE  Focused => Focused'
<1> SUFFICES ASSUME Focused PROVE Focused'
  OBVIOUS
<1>i. PICK i : i = TabIdx(id)
  OBVIOUS
<1>n. PICK n : n = Len(tabs)
  OBVIOUS
<1>a. PICK a : a = IF left THEN i ELSE 1
  OBVIOUS
<1>b. PICK b : b = IF left THEN n ELSE i
  OBVIOUS
<1>0. IsList(tabs) /\ n \in Nat
  BY <1>n, Ids DEF TabsInv, Shaped, Stays
<1>1. i \in 1 .. n /\ tabs[i].id = id
  <2>1. i # 0 /\ i \in 0 .. n /\ tabs[i].id = id
    BY <1>i, <1>n, TabAt DEF CloseSideTabs, Stays
  <2> QED BY <1>0, <2>1
<1>2. a \in 1 .. n /\ b \in a .. n /\ i \in a .. b
  BY <1>0, <1>1, <1>a, <1>b
<1>3. tabs' = SubSeq(tabs, a, b)
  BY <1>i, <1>n, <1>a, <1>b DEF CloseSideTabs, Becomes, SetTabs
<1>4. /\ Len(tabs') = b - a + 1
      /\ \A k \in 1 .. b - a + 1 : tabs'[k] = tabs[a + k - 1]
  BY <1>0, <1>2, <1>3, <1>n, SubIs
<1>5. \A k \in a .. b : k - a + 1 \in 1 .. Len(tabs') /\ tabs'[k - a + 1] = tabs[k]
  <2> SUFFICES ASSUME NEW k \in a .. b
               PROVE  k - a + 1 \in 1 .. Len(tabs') /\ tabs'[k - a + 1] = tabs[k]
    OBVIOUS
  <2>1. k - a + 1 \in 1 .. b - a + 1 /\ a + (k - a + 1) - 1 = k
    BY <1>0, <1>2
  <2> QED BY <1>4, <2>1
<1>6. CASE ActiveClosed(i, left)
  <2>1. activeTab' = id /\ activePane' = tabs[i].active
    BY <1>6, <1>i DEF CloseSideTabs, Becomes, Focus
  <2> QED BY <1>1, <1>2, <1>5, <2>1, FocusesAt DEF Stays
<1>7. CASE ~ActiveClosed(i, left)
  <2>1. activeTab' = activeTab /\ activePane' = activePane
    BY <1>7, <1>i DEF CloseSideTabs, Becomes, Focus
  <2>2. tabs # <<>>
    BY <1>0, <1>1, <1>n
  <2>3. PICK k \in 1 .. n : tabs[k].id = activeTab /\ tabs[k].active = activePane
        /\ TabIdx(activeTab) = k
    BY <1>n, <2>2, FocusedAt DEF Stays
  <2>4. k \in a .. b
    BY <1>0, <1>1, <1>7, <1>a, <1>b, <2>3 DEF ActiveClosed
  <2> QED BY <1>5, <2>1, <2>3, <2>4, FocusesAt DEF Stays
<1> QED BY <1>6, <1>7

LEMMA CloseManyKeeps == ASSUME Stays, CloseMany PROVE CloseAll \/ (Focused => Focused')
BY OtherTabsKeep, OtherPanesKeep, SideTabsKeep DEF CloseMany

LEMMA HideKeeps == ASSUME Stays, Hide PROVE Focused => Focused'
<1>1. ASSUME UNCHANGED <<tabs, activeTab, activePane>> PROVE Focused => Focused'
  BY <1>1 DEF Focused
<1>2. ASSUME NEW id, HideAsks(id) PROVE Focused => Focused'
  BY <1>1, <1>2 DEF HideAsks
<1>3. ASSUME NEW id, HideAnswered(id) PROVE Focused => Focused'
  <2>1. CASE TabIdx(id) # 0
    BY <1>3, <2>1, DropKeeps DEF HideAnswered
  <2>2. CASE TabIdx(id) = 0
    BY <1>1, <1>3, <2>2 DEF HideAnswered
  <2> QED BY <2>1, <2>2
<1> QED BY <1>2, <1>3 DEF Hide

-----------------------------------------------------------------------------
(* Moving and choosing, seen from the active pane.                         *)

LEMMA OrderKeeps ==
    ASSUME Stays, tabs # <<>>, activeTab' = activeTab, activePane' = activePane,
           \A i \in 1 .. Len(tabs) : \E k \in 1 .. Len(tabs') : tabs'[k] = tabs[i]
    PROVE  (Focused => Focused') /\ Kept
<1>1. Focused => Focused'
  BY StayKeeps DEF Stays
<1>2. \A i \in 1 .. Len(tabs) : \A j \in 1 .. Len(tabs[i].panes) :
         \E k \in 1 .. Len(tabs') : tabs[i].panes[j].id \in IdsOf(tabs'[k])
  BY IdAt DEF Stays
<1>3. Kept
  BY <1>2, ListKeeps DEF Stays
<1> QED BY <1>1, <1>3

LEMMA SwappedKeeps ==
    ASSUME Stays, NEW i \in 1 .. Len(tabs), NEW j \in 1 .. Len(tabs), Reorders(Swapped(i, j))
    PROVE  (Focused => Focused') /\ Kept
<1>0. /\ IsList(tabs) /\ Len(tabs) \in Nat /\ DOMAIN tabs = 1 .. Len(tabs) /\ tabs # <<>>
      /\ Len(tabs') \in Nat /\ DOMAIN tabs' = 1 .. Len(tabs')
  BY DEF TabsInv, Shaped, Stays, IsList
<1>1. tabs' = Swapped(i, j) /\ activeTab' = activeTab /\ activePane' = activePane
  BY DEF Reorders, Becomes, SetTabs, Focus
<1>2. /\ DOMAIN tabs' = 1 .. Len(tabs)
      /\ \A k \in 1 .. Len(tabs) : tabs'[k] = tabs[IF k = j THEN i ELSE IF k = i THEN j ELSE k]
  BY <1>0, <1>1 DEF Swapped
<1>3. Len(tabs') = Len(tabs)
  BY <1>0, <1>2, SameLen
<1>4. ASSUME NEW k \in 1 .. Len(tabs) PROVE \E l \in 1 .. Len(tabs') : tabs'[l] = tabs[k]
  <2>1. CASE k = i
    BY <1>2, <1>3, <2>1
  <2>2. CASE k = j
    BY <1>2, <1>3, <2>2
  <2>3. CASE k # i /\ k # j
    BY <1>2, <1>3, <2>3
  <2> QED BY <2>1, <2>2, <2>3
<1> QED BY <1>0, <1>1, <1>4, OrderKeeps

LEMMA ReorderKeeps ==
    ASSUME Stays, NEW i \in 1 .. Len(tabs), NEW j \in 1 .. Len(tabs), NEW after \in BOOLEAN,
           ReorderTabs(i, j, after)
    PROVE  (Focused => Focused') /\ Kept
<1>m. PICK n \in Nat : n = Len(tabs)
  BY Ids DEF TabsInv, Stays
<1>0. IsList(tabs) /\ i \in 1 .. n /\ j \in 1 .. n /\ i # j /\ tabs # <<>>
  BY <1>m DEF TabsInv, Shaped, ReorderTabs, Stays
<1>l. PICK left : left = RemoveAt(tabs, i)
  OBVIOUS
<1>p. PICK p : p = IF after THEN (IF j > i THEN j - 1 ELSE j) + 1 ELSE (IF j > i THEN j - 1 ELSE j)
  OBVIOUS
<1>1. tabs' = InsertAt(left, p, tabs[i]) /\ activeTab' = activeTab /\ activePane' = activePane
  BY <1>l, <1>p DEF ReorderTabs, Reorders, Becomes, SetTabs, Focus
<1>2. p \in 1 .. n
  BY <1>0, <1>p
<1>3. /\ IsList(left) /\ Len(left) = n - 1
      /\ \A k \in 1 .. n - 1 : left[k] = IF k < i THEN tabs[k] ELSE tabs[k + 1]
  BY <1>0, <1>l, <1>m, Removed
<1>4. p \in 1 .. Len(left) + 1 /\ Len(left) + 1 = n
  BY <1>2, <1>3
<1>5. /\ Len(tabs') = n
      /\ \A k \in 1 .. n :
            tabs'[k] = IF k < p THEN left[k] ELSE IF k = p THEN tabs[i] ELSE left[k - 1]
  BY <1>1, <1>3, <1>4, Inserted
<1>6. ASSUME NEW k \in 1 .. n - 1 PROVE \E l \in 1 .. n : tabs'[l] = left[k]
  <2>1. CASE k < p
    BY <1>5, <2>1
  <2>2. CASE k >= p
    <3>1. k + 1 \in 1 .. n /\ ~ (k + 1 < p) /\ k + 1 # p /\ k + 1 - 1 = k
      BY <1>2, <2>2
    <3> QED BY <1>5, <3>1
  <2> QED BY <1>2, <2>1, <2>2
<1>7. ASSUME NEW k \in 1 .. n PROVE \E l \in 1 .. n : tabs'[l] = tabs[k]
  <2>1. CASE k = i
    BY <1>2, <1>5, <2>1
  <2>2. CASE k < i
    <3>1. k \in 1 .. n - 1 /\ left[k] = tabs[k]
      <4>1. k \in 1 .. n - 1
        BY <1>0, <2>2
      <4> QED BY <1>3, <2>2, <4>1
    <3> QED BY <1>6, <3>1
  <2>3. CASE k > i
    <3>1. k - 1 \in 1 .. n - 1 /\ ~ (k - 1 < i) /\ k - 1 + 1 = k
      BY <1>0, <2>3
    <3>2. left[k - 1] = tabs[k]
      BY <1>3, <3>1
    <3> QED BY <1>6, <3>1, <3>2
  <2> QED BY <1>0, <2>1, <2>2, <2>3
<1> QED BY <1>0, <1>1, <1>5, <1>7, <1>m, OrderKeeps

LEMMA MoveKeeps == ASSUME Stays, ~doubled', Move PROVE (Focused => Focused') /\ Kept
<1>1. DOMAIN tabs = 1 .. Len(tabs) /\ Len(tabs) \in Nat
  BY Ids DEF TabsInv, Stays
<1>2. PICK i \in 1 .. Len(tabs) :
        \/ MoveTabLeft(i)
        \/ MoveTabRight(i)
        \/ MoveTabToFirst(i)
        \/ MoveTabToLast(i)
        \/ \E j \in 1 .. Len(tabs), after \in BOOLEAN : ReorderTabs(i, j, after)
  BY <1>1 DEF Move
<1>3. CASE MoveTabLeft(i)
  <2>1. i - 1 \in 1 .. Len(tabs) /\ Reorders(Swapped(i, i - 1))
    BY <1>1, <1>3 DEF MoveTabLeft
  <2> QED BY <2>1, SwappedKeeps
<1>4. CASE MoveTabRight(i)
  <2>1. i + 1 \in 1 .. Len(tabs) /\ Reorders(Swapped(i, i + 1))
    BY <1>1, <1>4 DEF MoveTabRight
  <2> QED BY <2>1, SwappedKeeps
<1>5. CASE MoveTabToFirst(i)
  <2>1. 1 \in 1 .. Len(tabs) /\ Reorders(Swapped(i, 1))
    BY <1>1, <1>5 DEF MoveTabToFirst
  <2> QED BY <2>1, SwappedKeeps
<1>6. ~MoveTabToLast(i)
  BY DEF MoveTabToLast
<1> QED BY <1>2, <1>3, <1>4, <1>5, <1>6, ReorderKeeps

LEMMA SelectTabKeeps == ASSUME Stays, NEW i \in 1 .. Len(tabs), SelectTab(i) PROVE Focused' /\ Kept
<1>1. tabs' = tabs /\ activeTab' = tabs[i].id /\ activePane' = tabs[i].active
  BY DEF SelectTab, Becomes, SetTabs, Focus
<1> QED BY <1>1, FocusesAt, SameKeeps DEF Stays

LEMMA FocusPaneKeeps == ASSUME Stays, NEW p, FocusPane(p) PROVE Focused' /\ Kept
<1>h. PICK h : h = HolderIdx(p)
  OBVIOUS
<1>1. h # 0 /\ Activate(p, tabs[h].id)
  BY <1>h DEF FocusPane
<1>2. h \in 0 .. Len(tabs) /\ Len(tabs) \in Nat
  BY <1>h, HolderAt, Ids DEF TabsInv, Stays
<1>3. h \in 1 .. Len(tabs)
  BY <1>1, <1>2
<1> QED BY <1>1, <1>3, ActivateKeeps DEF Stays

LEMMA ChooseKeeps == ASSUME Stays, Choose PROVE Focused' /\ Kept
<1>1. DOMAIN tabs = 1 .. Len(tabs) /\ Len(tabs) \in Nat
  BY Ids DEF TabsInv, Stays
<1>i. PICK i : i = TabIdx(activeTab)
  OBVIOUS
<1>2. i \in 0 .. Len(tabs) /\ (i # 0 => tabs[i].id = activeTab)
  BY <1>i, TabAt DEF Stays
<1>4. ASSUME NEW k \in 1 .. Len(tabs), NEW j, ClickPane(k, j) PROVE Focused' /\ Kept
  BY <1>4, ActivateKeeps DEF ClickPane, Stays
<1>5. ASSUME NEW d, Swipe(d) PROVE Focused' /\ Kept
  <2>1. CASE i > 1 /\ SelectTab(i - 1)
    <3>1. i - 1 \in 1 .. Len(tabs)
      BY <1>1, <1>2, <2>1
    <3> QED BY <2>1, <3>1, SelectTabKeeps
  <2>2. CASE i < Len(tabs) /\ SelectTab(i + 1)
    <3>1. i + 1 \in 1 .. Len(tabs)
      BY <1>1, <1>2, <2>2
    <3> QED BY <2>2, <3>1, SelectTabKeeps
  <2> QED BY <1>5, <1>i, <2>1, <2>2 DEF Swipe
<1>6. ASSUME NEW d, CycleTab(d) PROVE Focused' /\ Kept
  <2>1. i # 0 /\ SelectTab(Ring(i, Len(tabs), d))
    BY <1>6, <1>i DEF CycleTab
  <2>2. i \in 1 .. Len(tabs)
    BY <1>1, <1>2, <2>1
  <2>3. Ring(i, Len(tabs), d) \in 1 .. Len(tabs)
    BY <1>1, <2>2, RingIn
  <2> QED BY <2>1, <2>3, SelectTabKeeps
<1>7. ASSUME NEW d, CyclePane(d) PROVE Focused' /\ Kept
  BY <1>7, FocusPaneKeeps DEF CyclePane
<1>8. ASSUME RefocusPane PROVE Focused' /\ Kept
  <2>1. i # 0 /\ tabs' = tabs /\ activeTab' = activeTab /\ activePane' = tabs[i].active
    BY <1>8, <1>i DEF RefocusPane, Becomes, SetTabs, Focus
  <2>2. i \in 1 .. Len(tabs) /\ tabs[i].id = activeTab
    BY <1>1, <1>2, <2>1
  <2> QED BY <2>1, <2>2, FocusesAt, SameKeeps DEF Stays
<1> QED BY <1>1, <1>4, <1>5, <1>6, <1>7, <1>8, SelectTabKeeps DEF Choose

-----------------------------------------------------------------------------
(* Reports, seen from the active pane, and every step.                     *)

LEMMA StolenKeeps ==
    ASSUME Stays, NEW i \in 1 .. Len(tabs), NEW j \in DOMAIN tabs[i].panes, Stolen(i, j)
    PROVE  (Focused => Focused') /\ Kept
<1>t. PICK t : t = tabs[i]
  OBVIOUS
<1>s. PICK s : s = t.panes
  OBVIOUS
<1>y. PICK y : y = TRUE
  OBVIOUS
<1>q. PICK q : q = [s[j] EXCEPT !.stolen = y]
  OBVIOUS
<1>r. PICK r : r = [s EXCEPT ![j] = q]
  OBVIOUS
<1>u. PICK u : u = [t EXCEPT !.panes = r]
  OBVIOUS
<1>1. IsTab(t) /\ IsPane(s[j]) /\ DOMAIN s = 1 .. Len(s)
  <2>1. TabWhole(t, next)
    BY <1>t DEF TabsInv, Sound, WholeTabs, Stays
  <2>2. PanesWhole(s, next) /\ DOMAIN s = 1 .. Len(s)
    BY <1>s, <2>1 DEF TabWhole, PanesWhole, IsList
  <2>3. j \in 1 .. Len(s)
    BY <1>s, <1>t, <2>2
  <2> QED BY <2>1, <2>2, <2>3 DEF TabWhole, PanesWhole
<1>2. u.id = t.id /\ u.panes = r /\ u.active = t.active
  BY <1>1, <1>u, TabSet
<1>3. q.id = s[j].id
  BY <1>1, <1>q, PaneSet
<1>4. tabs' = [tabs EXCEPT ![i].panes[j].stolen = y] /\ activeTab' = activeTab
      /\ activePane' = activePane
  BY <1>y DEF Stolen, Reorders, Becomes, SetTabs, Focus
<1>5. [tabs EXCEPT ![i].panes[j].stolen = y] = [tabs EXCEPT ![i] = u]
  BY <1>q, <1>r, <1>s, <1>t, <1>u
<1>6. tabs' = [tabs EXCEPT ![i] = u]
  BY <1>4, <1>5
<1>7. ASSUME NEW k \in 1 .. Len(tabs[i].panes) PROVE tabs[i].panes[k].id \in IdsOf(u)
  <2>1. k \in DOMAIN r /\ r[k].id = s[k].id
    <3>1. k \in DOMAIN s
      BY <1>1, <1>s, <1>t
    <3> QED BY <1>3, <1>r, <3>1
  <2> QED BY <1>2, <1>s, <1>t, <2>1 DEF IdsOf
<1>8. u.id = tabs[i].id /\ u.active = tabs[i].active
  BY <1>2, <1>t
<1> QED BY <1>4, <1>6, <1>7, <1>8, ChangeKeeps DEF Stays

LEMMA ReconnectKeeps ==
    ASSUME Stays, NEW i \in 1 .. Len(tabs), NEW J, \A j \in J : tabs[i].panes[j].stolen,
           ReconnectPanes(i, J)
    PROVE  (tabs[i].id = activeTab => Focused') /\ Kept
<1> DEFINE nth(j) == next + Rank(J, j)
<1>t. PICK t : t = tabs[i]
  OBVIOUS
<1>s. PICK s : s = t.panes
  OBVIOUS
<1>l. PICK last : last = P(next + Cardinality(J) - 1)
  OBVIOUS
<1>r. PICK r : r = [j \in DOMAIN s |-> IF j \in J THEN Pane(P(nth(j)), P(nth(j))) ELSE s[j]]
  OBVIOUS
<1>u. PICK u : u = WithPanes(t, r, last)
  OBVIOUS
<1>1. u.id = t.id /\ u.panes = r /\ u.active = last
  BY <1>u DEF WithPanes
<1>2. tabs' = [tabs EXCEPT ![i] = u] /\ activeTab' = activeTab /\ activePane' = last
  <2>1. i \in DOMAIN tabs
    BY Ids DEF TabsInv, Stays
  <2> QED BY <2>1, <1>t, <1>s, <1>l, <1>r, <1>u DEF ReconnectPanes, SetTabs, Focus, Rank
<1> HIDE DEF nth
<1>3. DOMAIN s = 1 .. Len(s)
  BY <1>s, <1>t DEF Stays, TabsInv, Sound, WholeTabs, TabWhole, PanesWhole, IsList
<1>4. ASSUME NEW j \in 1 .. Len(tabs[i].panes)
      PROVE  tabs[i].panes[j].stolen \/ tabs[i].panes[j].id \in IdsOf(u)
  <2> SUFFICES ASSUME ~tabs[i].panes[j].stolen PROVE tabs[i].panes[j].id \in IdsOf(u)
    OBVIOUS
  <2>1. j \in DOMAIN r /\ r[j] = s[j]
    BY <1>3, <1>r, <1>s, <1>t
  <2> QED BY <1>1, <1>s, <1>t, <2>1 DEF IdsOf
<1>5. Kept
  BY <1>1, <1>2, <1>4, <1>t, ChangeKeeps DEF Stays
<1>6. ASSUME tabs[i].id = activeTab PROVE Focused'
  <2>1. activeTab' = u.id /\ activePane' = u.active
    BY <1>1, <1>2, <1>6, <1>t
  <2> QED BY <1>1, <1>2, <1>t, <2>1, ChangeKeeps DEF Stays
<1> QED BY <1>5, <1>6

\* The active pane of the focused tab is in no other tab.
LEMMA HolderFocused ==
    ASSUME Stays, Focused, HolderIdx(activePane) # 0
    PROVE  tabs[HolderIdx(activePane)].id = activeTab
<1>h. PICK h : h = HolderIdx(activePane)
  OBVIOUS
<1>1. h \in 0 .. Len(tabs) /\ h # 0 /\ Holds(tabs[h], activePane) /\ Len(tabs) \in Nat
  BY <1>h, HolderAt, Ids DEF TabsInv, Stays
<1>2. h \in 1 .. Len(tabs) /\ tabs # <<>>
  BY <1>1
<1>3. PICK i \in 1 .. Len(tabs) : tabs[i].id = activeTab /\ Holds(tabs[i], activePane)
  BY <1>2, FocusedAt DEF Stays
<1>4. activePane \in IdsOf(tabs[h]) /\ activePane \in IdsOf(tabs[i])
  BY <1>1, <1>3 DEF Holds, IdsOf
<1>5. h = i
  BY <1>2, <1>4 DEF Stays, TabsInv, Sound, WholeTabs
<1> QED BY <1>3, <1>5, <1>h

LEMMA ReportKeeps ==
    ASSUME Stays, Report
    PROVE  /\ Kept
           /\ \/ Focused => Focused'
              \/ activeTab' = activeTab /\ \E i \in DOMAIN tabs : ReconnectTab(i)
<1>0. DOMAIN tabs = 1 .. Len(tabs) /\ Len(tabs) \in Nat
  BY Ids DEF TabsInv, Stays
<1>1. ASSUME NEW i \in 1 .. Len(tabs), ReconnectTab(i)
      PROVE  Kept /\ activeTab' = activeTab
  <2>1. PICK J : J = {j \in DOMAIN tabs[i].panes : tabs[i].panes[j].stolen}
    OBVIOUS
  <2>2. ReconnectPanes(i, J) /\ \A j \in J : tabs[i].panes[j].stolen
    BY <1>1, <2>1 DEF ReconnectTab
  <2>3. activeTab' = activeTab
    BY <2>2 DEF ReconnectPanes, Focus
  <2> QED BY <2>2, <2>3, ReconnectKeeps
<1>2. ASSUME ReconnectActive PROVE (Focused => Focused') /\ Kept
  <2>i. PICK i : i = HolderIdx(activePane)
    OBVIOUS
  <2>j. PICK j : j = PaneIdx(tabs[i], activePane)
    OBVIOUS
  <2>1. i # 0 /\ tabs[i].panes[j].stolen /\ ReconnectPanes(i, {j})
    BY <1>2, <2>i, <2>j DEF ReconnectActive
  <2>2. i \in 1 .. Len(tabs)
    <3>1. i \in 0 .. Len(tabs)
      BY <2>i, HolderAt DEF Stays
    <3> QED BY <1>0, <2>1, <3>1
  <2>3. (tabs[i].id = activeTab => Focused') /\ Kept
    BY <2>1, <2>2, ReconnectKeeps
  <2> QED BY <2>1, <2>3, <2>i, HolderFocused
<1>3. ASSUME UNCHANGED <<tabs, activeTab, activePane>> PROVE (Focused => Focused') /\ Kept
  BY <1>3, SameKeeps DEF Focused, Stays
<1>4. ASSUME NEW i, NEW j, Data(i, j) PROVE (Focused => Focused') /\ Kept
  BY <1>3, <1>4 DEF Data
<1>5. ASSUME ReadActive PROVE (Focused => Focused') /\ Kept
  BY <1>3, <1>5 DEF ReadActive
<1>6. CASE ReconnectActive \/ ReadActive
  <2>1. (Focused => Focused') /\ Kept
    BY <1>2, <1>5, <1>6
  <2> QED BY <2>1
<1>7. CASE \E i \in DOMAIN tabs : ReconnectTab(i)
  BY <1>0, <1>1, <1>7
<1>8. CASE \E i \in DOMAIN tabs : \E j \in DOMAIN tabs[i].panes : Stolen(i, j) \/ Data(i, j)
  <2>1. PICK i \in 1 .. Len(tabs) : \E j \in DOMAIN tabs[i].panes : Stolen(i, j) \/ Data(i, j)
    BY <1>0, <1>8
  <2>2. (Focused => Focused') /\ Kept
    BY <1>4, <2>1, StolenKeeps
  <2> QED BY <2>2
<1> QED BY <1>6, <1>7, <1>8 DEF Report

\* Tabs that were doubled stay so.
LEMMA DoubledStays == ASSUME Next, doubled PROVE doubled'
<1>1. ASSUME NEW new, SetTabs(new) PROVE doubled'
  BY <1>1 DEF SetTabs
<1>2. ASSUME NEW new, NEW t, NEW p, Becomes(new, t, p) PROVE doubled'
  BY <1>1, <1>2 DEF Becomes
<1>3. ASSUME NEW t, NEW ps, NEW k, OpenTab(t, ps, k) PROVE doubled'
  BY <1>1, <1>3 DEF OpenTab
<1>4. ASSUME NEW p, NEW t, Activate(p, t) PROVE doubled'
  BY <1>4 DEF Activate
<1>5. CASE Open
  <2>1. PICK id, target : OpenHost(id, target)
    BY <1>5 DEF Open
  <2> QED BY <1>1, <1>3, <1>4, <2>1 DEF OpenHost
<1>6. CASE OpenHostsAsSplit \/ OpenScratchpad
  BY <1>2, <1>3, <1>6 DEF OpenHostsAsSplit, OpenScratchpad
<1>7. CASE Clone
  BY <1>1, <1>3, <1>7 DEF Clone, CloneSession, CloneInSameTab
<1>8. CASE AttachSession
  BY <1>2, <1>3, <1>8 DEF AttachSession
<1>9. ASSUME NEW id, Drop(id) PROVE doubled'
  BY <1>1, <1>9 DEF Drop
<1>10. CASE Close
  BY <1>2, <1>9, <1>10 DEF Close, CloseTab, CloseTabOrPane, ClosePane
<1>11. CASE CloseMany
  BY <1>2, <1>11 DEF CloseMany, CloseAll, CloseOtherTabs, CloseOtherPanes, CloseSideTabs
<1>12. CASE Hide
  BY <1>9, <1>12 DEF Hide, HideAsks, HideAnswered
<1>13. CASE Move
  BY <1>2, <1>13 DEF Move, MoveTabLeft, MoveTabRight, MoveTabToFirst, MoveTabToLast,
                     ReorderTabs, Reorders
<1>14. CASE Choose
  BY <1>2, <1>4, <1>14 DEF Choose, SelectTab, ClickPane, Swipe, CycleTab, CyclePane,
                           FocusPane, RefocusPane
<1>15. CASE Report
  BY <1>1, <1>2, <1>15 DEF Report, ReconnectTab, ReconnectActive, ReconnectPanes, Stolen, Reorders,
                           Data, ReadActive
<1> QED BY <1>5, <1>6, <1>7, <1>8, <1>10, <1>11, <1>12, <1>13, <1>14, <1>15 DEF Next

LEMMA StepKeeps == ASSUME TabsInv, TabsInv', Next PROVE KeepsFocus /\ KeepsPanes
<1>1. CASE doubled'
  BY <1>1 DEF KeepsFocus, Drifts, KeepsPanes
<1>2. CASE ~doubled'
  <2>1. Stays
    <3>1. doubled => doubled'
      BY DoubledStays
    <3> QED BY <1>2, <3>1 DEF Stays
  <2>2. Kept => KeepsPanes
    BY DEF Kept, KeepsPanes
  <2>3. Close \/ CloseMany \/ Hide => KeepsPanes
    BY DEF KeepsPanes, Removing
  <2>4. (Focused => Focused') => KeepsFocus
    BY DEF KeepsFocus
  <2>5. Drifts => KeepsFocus
    BY DEF KeepsFocus
  <2>6. CASE Open
    BY <2>1, <2>2, <2>4, <2>6, OpenHostKeeps DEF Open
  <2>7. CASE OpenHostsAsSplit
    BY <2>1, <2>2, <2>4, <2>7, SplitKeeps
  <2>8. CASE OpenScratchpad
    <3>1. Drifts
      BY <2>8 DEF Drifts
    <3> QED BY <2>1, <2>2, <2>5, <2>8, <3>1, ScratchpadKeeps
  <2>9. CASE Clone
    <3>1. Drifts \/ activeTab' # activeTab
      BY <2>9 DEF Drifts
    <3> QED BY <2>1, <2>2, <2>4, <2>5, <2>9, <3>1, CloneKeeps
  <2>10. CASE AttachSession
    <3>1. Drifts
      BY <2>10 DEF Drifts
    <3> QED BY <2>1, <2>2, <2>5, <2>10, <3>1, AttachKeeps
  <2>11. CASE Close
    BY <2>1, <2>3, <2>4, <2>11, CloseKeeps
  <2>12. CASE CloseMany
    <3>1. CloseAll => Drifts
      BY DEF Drifts
    <3> QED BY <2>1, <2>3, <2>4, <2>5, <2>12, <3>1, CloseManyKeeps
  <2>13. CASE Hide
    BY <2>1, <2>3, <2>4, <2>13, HideKeeps
  <2>14. CASE Move
    BY <1>2, <2>1, <2>2, <2>4, <2>14, MoveKeeps
  <2>15. CASE Choose
    BY <2>1, <2>2, <2>4, <2>15, ChooseKeeps
  <2>16. CASE Report
    <3>1. activeTab' = activeTab /\ (\E i \in DOMAIN tabs : ReconnectTab(i)) => Drifts
      BY DEF Drifts
    <3> QED BY <2>1, <2>2, <2>4, <2>5, <2>16, <3>1, ReportKeeps
  <2> QED BY <2>6, <2>7, <2>8, <2>9, <2>10, <2>11, <2>12, <2>13, <2>14, <2>15, <2>16 DEF Next
<1> QED BY <1>1, <1>2

-----------------------------------------------------------------------------

\* Each tab has a pane that is active and ids that no other has, nothing is kept for what
\* is gone, and input that is broadcast stays where it is meant to (store.ts, setTabs and
\* getBroadcastTargetPaneIds).
THEOREM TabsAreConsistent == ASSUME Sized PROVE Spec => [](TabsConsistent /\ BroadcastAim)
BY TabsInit, TabsNext, Whole, Aimed, PTL DEF Spec

\* The active pane stays that of the active tab, but for the steps that are excepted, and
\* panes go only when they are closed, hidden or renewed (store.ts).
THEOREM TabStepsKeep == ASSUME Sized PROVE Spec => [][KeepsFocus /\ KeepsPanes]_vars
<1>1. Spec => []TabsInv
  BY TabsInit, TabsNext, PTL DEF Spec
<1>2. TabsInv /\ TabsInv' /\ [Next]_vars => [KeepsFocus /\ KeepsPanes]_vars
  BY StepKeeps
<1> QED BY <1>1, <1>2, PTL DEF Spec
=============================================================================
