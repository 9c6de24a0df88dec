------------------------- MODULE BrowserParts_proofs ---------------------------
(***************************************************************************)
(* Five machines of MCBrowser that are proved for themselves: the lists    *)
(* of buttons, ListChanges for any windows and any numbers of buttons, the *)
(* saved passwords, PasswordsSafe for any app passwords and hosts, any     *)
(* number of data keys and of changes under way, mark mode, MarkSafe for   *)
(* any number of columns and rows, the dialog of a new tab, DialogSafe for *)
(* any number of items that it shows and keeps, and the import of hosts    *)
(* and keys, ImportSafe for any number of imports and changes.             *)
(***************************************************************************)
EXTENDS ButtonList, FiniteSetTheorems, SequenceTheorems, WellFoundedInduction, TLAPS

CONSTANTS AppPasswords, HostKeys, MaxDeks, MaxChanges

VARIABLES password, kept, trusted, dek, wrapped, saved, key, deks, useKeyring, ring, form,
          changing, spoilt

P == INSTANCE PasswordStore

\* The ids can be compared.
Numbered == ButtonIds \in SUBSET Int

-----------------------------------------------------------------------------
(* Sorted lists.                                                           *)

\* A list whose buttons have an order among them.
Ordered(list) ==
    /\ IsFiniteSet(DOMAIN list) /\ DOMAIN list \in SUBSET Int
    /\ \A i \in DOMAIN list : list[i].order \in Int

LEMMA BeforeOrders ==
    ASSUME NEW list, Ordered(list), NEW i \in DOMAIN list, NEW j \in DOMAIN list
    PROVE  /\ Before(list, i, j) \/ Before(list, j, i) \/ i = j
           /\ ~ (Before(list, i, j) /\ Before(list, j, i))
           /\ ~ Before(list, i, i)
           /\ \A k \in DOMAIN list : Before(list, i, j) /\ Before(list, j, k) => Before(list, i, k)
<1>1. i \in Int /\ j \in Int /\ list[i].order \in Int /\ list[j].order \in Int
  BY DEF Ordered
<1>2. ASSUME NEW k \in DOMAIN list, Before(list, i, j), Before(list, j, k)
      PROVE  Before(list, i, k)
  <2>1. k \in Int /\ list[k].order \in Int
    BY DEF Ordered
  <2> QED BY <1>1, <1>2, <2>1 DEF Before
<1> QED BY <1>1, <1>2 DEF Before

LEMMA RankOf ==
    ASSUME NEW list, Ordered(list), NEW S \in SUBSET (DOMAIN list)
    PROVE  /\ IsFiniteSet(S) /\ Cardinality(S) \in Nat
           /\ \A k \in 1 .. Cardinality(S) : \E i \in S : Rank(list, S, i) = k - 1
           /\ \A i, j \in S : Rank(list, S, i) \in Nat
                              /\ (Before(list, i, j) <=> Rank(list, S, i) < Rank(list, S, j))
<1> DEFINE n == Cardinality(S)
           f == [i \in S |-> Rank(list, S, i)]
           B(i) == {j \in S : Before(list, j, i)}
<1>1. IsFiniteSet(S) /\ n \in Nat
  BY FS_Subset, FS_CardinalityType DEF Ordered
<1>2. ASSUME NEW i \in S
      PROVE  Rank(list, S, i) \in 0 .. n - 1
  <2>1. B(i) \in SUBSET S /\ i \notin B(i)
    BY BeforeOrders
  <2>2. IsFiniteSet(B(i)) /\ Cardinality(B(i)) <= n /\ Cardinality(B(i)) # n
    BY <1>1, <2>1, FS_Subset
  <2> QED BY <1>1, <2>2, FS_CardinalityType DEF Rank
<1>3. ASSUME NEW a \in S, NEW b \in S, Before(list, a, b)
      PROVE  Rank(list, S, a) < Rank(list, S, b)
  <2>1. B(a) \in SUBSET B(b)
    BY <1>3, BeforeOrders
  <2>2. a \in B(b) /\ a \notin B(a)
    BY <1>3, BeforeOrders
  <2>3. IsFiniteSet(B(b))
    BY <1>1, FS_Subset
  <2>4. Cardinality(B(a)) <= Cardinality(B(b)) /\ Cardinality(B(a)) # Cardinality(B(b))
    BY <2>1, <2>2, <2>3, FS_Subset
  <2>5. Rank(list, S, a) = Cardinality(B(a)) /\ Rank(list, S, b) = Cardinality(B(b))
    BY DEF Rank
  <2> HIDE DEF B
  <2> QED BY <1>2, <2>4, <2>5
<1>4. ASSUME NEW i \in S, NEW j \in S
      PROVE  Before(list, i, j) <=> Rank(list, S, i) < Rank(list, S, j)
  <2>1. Rank(list, S, i) \in Int /\ Rank(list, S, j) \in Int
    BY <1>2
  <2>2. Before(list, i, j) \/ Before(list, j, i) \/ i = j
    BY BeforeOrders
  <2> QED BY <1>3, <2>1, <2>2
<1>5. f \in [S -> 0 .. n - 1]
  BY <1>2
<1>6. \A a, b \in S : f[a] = f[b] => a = b
  <2> SUFFICES ASSUME NEW a \in S, NEW b \in S, Rank(list, S, a) = Rank(list, S, b)
               PROVE  a = b
    OBVIOUS
  <2>1. Before(list, a, b) \/ Before(list, b, a) \/ a = b
    BY BeforeOrders
  <2>2. Rank(list, S, a) \in Int
    BY <1>2
  <2> QED BY <1>3, <2>1, <2>2
<1> HIDE DEF f
<1>7. f \in Injection(S, 0 .. n - 1)
  BY <1>5, <1>6 DEF Injection, IsInjective
<1>8. IsFiniteSet(0 .. n - 1) /\ Cardinality(0 .. n - 1) = n
  <2>1. 0 \in Int /\ n - 1 \in Int /\ n - 1 - 0 + 1 = n /\ (0 > n - 1 => n = 0)
    BY <1>1
  <2> HIDE DEF n
  <2> QED BY <2>1, FS_Interval
<1>9. f \in Surjection(S, 0 .. n - 1)
  BY <1>1, <1>7, <1>8, FS_Injection
<1>10. \A k \in 1 .. n : \E i \in S : f[i] = k - 1
  BY <1>1, <1>9 DEF Surjection
<1> QED BY <1>1, <1>2, <1>4, <1>10 DEF f

\* The ids of S in their order.
Lists(list, S, s) ==
    /\ Len(s) \in Nat /\ s = [k \in 1 .. Len(s) |-> s[k]]
    /\ \A k \in 1 .. Len(s) : s[k] \in S
    /\ \A i \in S : \E k \in 1 .. Len(s) : s[k] = i
    /\ \A a, b \in 1 .. Len(s) : a < b => Before(list, s[a], s[b])

LEMMA SortedLists ==
    ASSUME NEW list, Ordered(list), NEW S \in SUBSET (DOMAIN list)
    PROVE  Lists(list, S, Sorted(list, S))
<1> DEFINE n == Cardinality(S)
           s == Sorted(list, S)
<1>1. n \in Nat
  BY RankOf
<1>2. Len(s) = n /\ s = [k \in 1 .. n |-> s[k]]
  BY <1>1 DEF Sorted
<1>3. \A k \in 1 .. n : s[k] \in S /\ Rank(list, S, s[k]) = k - 1
  BY RankOf DEF Sorted
<1>4. ASSUME NEW i \in S PROVE \E k \in 1 .. n : s[k] = i
  <2>1. Rank(list, S, i) \in Nat /\ Rank(list, S, i) + 1 \in 1 .. n
    <3>1. IsFiniteSet(S) /\ Rank(list, S, i) \in Nat
      BY RankOf
    <3>2. {j \in S : Before(list, j, i)} \in SUBSET S /\ {j \in S : Before(list, j, i)} # S
      BY BeforeOrders
    <3>3. Rank(list, S, i) <= n /\ Rank(list, S, i) # n
      BY <3>1, <3>2, FS_Subset DEF Rank
    <3> HIDE DEF n
    <3> QED BY <1>1, <3>1, <3>3
  <2>2. PICK k \in 1 .. n : k = Rank(list, S, i) + 1
    BY <2>1
  <2>3. s[k] \in S /\ Rank(list, S, s[k]) = Rank(list, S, i)
    BY <1>1, <1>3, <2>1, <2>2
  <2>4. ~ Before(list, s[k], i) /\ ~ Before(list, i, s[k])
    BY <2>1, <2>3, RankOf
  <2> QED BY <2>3, <2>4, BeforeOrders
<1>5. ASSUME NEW a \in 1 .. n, NEW b \in 1 .. n, a < b
      PROVE  Before(list, s[a], s[b])
  <2>1. s[a] \in S /\ s[b] \in S /\ Rank(list, S, s[a]) < Rank(list, S, s[b])
    BY <1>1, <1>3, <1>5
  <2> HIDE DEF s
  <2> QED BY <2>1, RankOf
<1> QED BY <1>1, <1>2, <1>3, <1>4, <1>5 DEF Lists

LEMMA NatsFounded == IsWellFoundedOn({p \in Nat \X Nat : p[1] < p[2]}, Nat)
BY NatLessThanWellFounded, Zenon DEF OpToRel

LEMMA LeastIn ==
    ASSUME NEW I \in SUBSET Nat, I # {}
    PROVE  \E i \in I : \A j \in I : i <= j
<1>1. PICK i \in I : \A j \in I : ~ (<<j, i>> \in {p \in Nat \X Nat : p[1] < p[2]})
  BY NatsFounded, WFMin
<1>2. ASSUME NEW j \in I PROVE i <= j
  <2>1. i \in Nat /\ j \in Nat
    OBVIOUS
  <2>2. ~ (j < i)
    BY <1>1, <2>1
  <2> QED BY <2>1, <2>2
<1> QED BY <1>2

\* There is one list in the order.
LEMMA OneList ==
    ASSUME NEW list, Ordered(list), NEW S \in SUBSET (DOMAIN list), NEW s, NEW t,
           Lists(list, S, s), Lists(list, S, t)
    PROVE  s = t
<1>1. Len(s) \in Nat /\ Len(t) \in Nat
  BY DEF Lists
<1>2. ASSUME NEW u, NEW v, Lists(list, S, u), Lists(list, S, v),
             \A k \in 1 .. Len(u) : k \in 1 .. Len(v) => u[k] = v[k]
      PROVE  Len(u) >= Len(v)
  <2> SUFFICES ASSUME Len(u) < Len(v) PROVE FALSE
    BY <1>2 DEF Lists
  <2> DEFINE n == Len(u) + 1
  <2>1. n \in 1 .. Len(v) /\ \A k \in 1 .. Len(u) : k \in 1 .. Len(v) /\ k < n
    BY <1>2 DEF Lists
  <2>2. PICK k \in 1 .. Len(u) : u[k] = v[n]
    BY <1>2, <2>1 DEF Lists
  <2>3. v[k] = v[n] /\ k < n /\ v[n] \in S
    BY <1>2, <2>1, <2>2 DEF Lists
  <2>4. Before(list, v[k], v[n])
    BY <1>2, <2>1, <2>3 DEF Lists
  <2> QED BY <2>3, <2>4, BeforeOrders
<1>3. ASSUME NEW u, NEW v, Lists(list, S, u), Lists(list, S, v),
             NEW k \in Nat, k \in 1 .. Len(u), k \in 1 .. Len(v), u[k] # v[k],
             \A j \in 1 .. k - 1 : u[j] = v[j]
      PROVE  Before(list, u[k], v[k])
  <2>1. PICK a \in 1 .. Len(u) : u[a] = v[k]
    BY <1>3 DEF Lists
  <2>2. ~ (a < k)
    <3> SUFFICES ASSUME a < k PROVE FALSE
      OBVIOUS
    <3>1. a \in 1 .. k - 1 /\ a \in 1 .. Len(v)
      BY <1>3, <1>1, SMTT(30) DEF Lists
    <3>2. v[a] = v[k] /\ Before(list, v[a], v[k]) /\ v[k] \in S
      BY <1>3, <2>1, <3>1 DEF Lists
    <3> QED BY <3>2, BeforeOrders
  <2>3. a # k /\ a \in Nat
    BY <1>3, <2>1
  <2>4. k < a
    BY <2>2, <2>3
  <2> QED BY <1>3, <2>1, <2>4 DEF Lists
<1>4. \A k \in 1 .. Len(s) : k \in 1 .. Len(t) => s[k] = t[k]
  <2> DEFINE I == {k \in Nat : k \in 1 .. Len(s) /\ k \in 1 .. Len(t) /\ s[k] # t[k]}
  <2> SUFFICES ASSUME I # {} PROVE FALSE
    BY <1>1
  <2>1. PICK k \in I : \A j \in I : k <= j
    BY LeastIn
  <2>2. \A j \in 1 .. k - 1 : s[j] = t[j]
    BY <1>1, <2>1
  <2>3. Before(list, s[k], t[k]) /\ Before(list, t[k], s[k])
    BY <1>3, <2>1, <2>2
  <2>4. s[k] \in S /\ t[k] \in S
    BY DEF Lists
  <2> QED BY <2>3, <2>4, BeforeOrders
<1>5. Len(s) = Len(t)
  <2>1. Len(s) >= Len(t)
    BY <1>2, <1>4
  <2>2. Len(t) >= Len(s)
    BY <1>2, <1>4
  <2> QED BY <1>1, <2>1, <2>2
<1> QED BY <1>4, <1>5 DEF Lists

\* Where one order is the other, so are the lists.
LEMMA SameOrder ==
    ASSUME NEW list, NEW new, Ordered(list), Ordered(new), NEW S,
           S \in SUBSET (DOMAIN list), S \in SUBSET (DOMAIN new),
           \A i, j \in S : Before(list, i, j) => Before(new, i, j)
    PROVE  Sorted(new, S) = Sorted(list, S)
<1>1. Lists(list, S, Sorted(list, S))
  BY SortedLists
<1>2. Lists(new, S, Sorted(new, S))
  BY SortedLists
<1>3. Lists(new, S, Sorted(list, S))
  BY <1>1 DEF Lists
<1> QED BY <1>2, <1>3, OneList

-----------------------------------------------------------------------------
(* Moves.                                                                  *)

\* An id that is in a list of different ids has one place there.
Distinct(s) ==
    /\ Len(s) \in Nat /\ s = [k \in 1 .. Len(s) |-> s[k]]
    /\ \A a, b \in 1 .. Len(s) : s[a] = s[b] => a = b

LEMMA PlaceOf ==
    ASSUME NEW s, Distinct(s), NEW k \in 1 .. Len(s)
    PROVE  Place(s, s[k]) = k
<1> DEFINE I == {i \in 1 .. Len(s) : s[i] = s[k]}
<1>1. I = {k}
  BY DEF Distinct
<1>2. Min(I) = k
  <2>1. \A i \in I : i = k
    BY <1>1
  <2> HIDE DEF I
  <2> QED BY <1>1 DEF Min
<1>3. Place(s, s[k]) = Min(I)
  BY <1>1 DEF Place, SelectInSeq
<1> QED BY <1>2, <1>3

LEMMA ListsDistinct ==
    ASSUME NEW list, Ordered(list), NEW S \in SUBSET (DOMAIN list), NEW s, Lists(list, S, s)
    PROVE  Distinct(s)
<1>1. ASSUME NEW a \in 1 .. Len(s), NEW b \in 1 .. Len(s), a < b PROVE s[a] # s[b]
  <2>1. s[a] \in S /\ Before(list, s[a], s[b])
    BY <1>1 DEF Lists
  <2> QED BY <2>1, BeforeOrders
<1>2. \A a, b \in 1 .. Len(s) : s[a] = s[b] => a = b
  BY <1>1 DEF Lists
<1> QED BY <1>2 DEF Distinct, Lists

IsSeq(s) == Len(s) \in Nat /\ s = [i \in 1 .. Len(s) |-> s[i]]

LEMMA Listed ==
    ASSUME NEW s, NEW n \in Nat, DOMAIN s = 1 .. n, s = [i \in 1 .. n |-> s[i]]
    PROVE  IsSeq(s) /\ Len(s) = n
BY DEF IsSeq

\* splice(j, 1)
LEMMA Removed ==
    ASSUME NEW s, IsSeq(s), NEW j \in 1 .. Len(s)
    PROVE  /\ IsSeq(RemoveAt(s, j)) /\ Len(RemoveAt(s, j)) = Len(s) - 1
           /\ \A k \in 1 .. Len(s) - 1 : RemoveAt(s, j)[k] = IF k < j THEN s[k] ELSE s[k + 1]
<1> DEFINE S == {s[k] : k \in 1 .. Len(s)}
<1> PICK n \in Nat : n = Len(s)
  BY DEF IsSeq
<1>1. /\ SubSeq(s, 1, j - 1) \in Seq(S) /\ Len(SubSeq(s, 1, j - 1)) = j - 1
      /\ \A k \in 1 .. j - 1 : SubSeq(s, 1, j - 1)[k] = s[k]
  <2>1. \A k \in 1 .. j - 1 : s[k] \in S
    OBVIOUS
  <2> HIDE DEF S
  <2> QED BY <2>1, SubSeqProperties
<1>2. /\ SubSeq(s, j + 1, n) \in Seq(S) /\ Len(SubSeq(s, j + 1, n)) = n - j
      /\ \A k \in 1 .. n - j : SubSeq(s, j + 1, n)[k] = s[k + j]
  <2>1. \A k \in j + 1 .. n : s[k] \in S
    OBVIOUS
  <2> HIDE DEF S
  <2> QED BY <2>1, SubSeqProperties
<1> HIDE DEF S
<1>3. /\ RemoveAt(s, j) \in Seq(S) /\ Len(RemoveAt(s, j)) = n - 1
      /\ \A k \in 1 .. n - 1 : RemoveAt(s, j)[k] = IF k < j THEN s[k] ELSE s[k + 1]
  <2> DEFINE a == SubSeq(s, 1, j - 1)
             b == SubSeq(s, j + 1, n)
  <2>1. RemoveAt(s, j) = a \o b
    BY DEF RemoveAt
  <2>2. /\ a \o b \in Seq(S) /\ Len(a \o b) = Len(a) + Len(b)
        /\ \A k \in 1 .. Len(a) + Len(b) : (a \o b)[k] = IF k <= Len(a) THEN a[k] ELSE b[k - Len(a)]
    BY <1>1, <1>2, ConcatProperties
  <2> HIDE DEF a, b
  <2>3. Len(a) = j - 1 /\ Len(b) = n - j
    BY <1>1, <1>2 DEF a, b
  <2>4. ASSUME NEW k \in 1 .. n - 1 PROVE (a \o b)[k] = IF k < j THEN s[k] ELSE s[k + 1]
    <3>1. CASE k < j
      BY <1>1, <2>2, <2>3, <3>1 DEF a
    <3>2. CASE ~ (k < j)
      <4>1. (a \o b)[k] = b[k - (j - 1)] /\ k - (j - 1) \in 1 .. n - j
        BY <2>2, <2>3, <3>2
      <4>2. b[k - (j - 1)] = s[k - (j - 1) + j]
        BY <1>2, <4>1 DEF b
      <4> QED BY <3>2, <4>1, <4>2
    <3> QED BY <3>1, <3>2
  <2>5. Len(a) + Len(b) = n - 1
    BY <2>3
  <2>6. a \o b \in Seq(S) /\ Len(a \o b) = n - 1
    BY <2>2, <2>5
  <2> QED BY <2>1, <2>4, <2>6
<1>4. IsSeq(RemoveAt(s, j))
  BY <1>3, LenProperties DEF IsSeq
<1> QED BY <1>3, <1>4

\* splice(i, 0, e)
LEMMA Inserted ==
    ASSUME NEW s, IsSeq(s), NEW i \in 1 .. Len(s) + 1, NEW e
    PROVE  /\ IsSeq(InsertAt(s, i, e)) /\ Len(InsertAt(s, i, e)) = Len(s) + 1
           /\ \A k \in 1 .. Len(s) + 1 :
                 InsertAt(s, i, e)[k] = IF k < i THEN s[k] ELSE IF k = i THEN e ELSE s[k - 1]
<1> DEFINE S == {s[k] : k \in 1 .. Len(s)} \cup {e}
<1> PICK n \in Nat : n = Len(s)
  BY DEF IsSeq
<1>1. /\ SubSeq(s, 1, i - 1) \in Seq(S) /\ Len(SubSeq(s, 1, i - 1)) = i - 1
      /\ \A k \in 1 .. i - 1 : SubSeq(s, 1, i - 1)[k] = s[k]
  <2>1. \A k \in 1 .. i - 1 : s[k] \in S
    OBVIOUS
  <2> HIDE DEF S
  <2> QED BY <2>1, SubSeqProperties
<1>2. /\ SubSeq(s, i, n) \in Seq(S) /\ Len(SubSeq(s, i, n)) = n - i + 1
      /\ \A k \in 1 .. n - i + 1 : SubSeq(s, i, n)[k] = s[i + k - 1]
  <2>1. \A k \in i .. n : s[k] \in S
    OBVIOUS
  <2> HIDE DEF S
  <2> QED BY <2>1, SubSeqProperties
<1>3. <<e>> \in Seq(S) /\ Len(<<e>>) = 1 /\ <<e>>[1] = e
  OBVIOUS
<1> HIDE DEF S
<1>4. /\ SubSeq(s, 1, i - 1) \o <<e>> \in Seq(S) /\ Len(SubSeq(s, 1, i - 1) \o <<e>>) = i
      /\ \A k \in 1 .. i : (SubSeq(s, 1, i - 1) \o <<e>>)[k] = IF k < i THEN s[k] ELSE e
  BY <1>1, <1>3, ConcatProperties
<1>5. /\ InsertAt(s, i, e) \in Seq(S) /\ Len(InsertAt(s, i, e)) = n + 1
      /\ \A k \in 1 .. n + 1 :
            InsertAt(s, i, e)[k] = IF k < i THEN s[k] ELSE IF k = i THEN e ELSE s[k - 1]
  <2> DEFINE a == SubSeq(s, 1, i - 1) \o <<e>>
             b == SubSeq(s, i, n)
  <2>1. InsertAt(s, i, e) = a \o b
    BY DEF InsertAt
  <2>0. /\ a \in Seq(S) /\ b \in Seq(S) /\ Len(a) = i /\ Len(b) = n - i + 1
        /\ \A k \in 1 .. i : a[k] = IF k < i THEN s[k] ELSE e
    BY <1>2, <1>4
  <2> HIDE DEF a
  <2>2. /\ a \o b \in Seq(S) /\ Len(a \o b) = Len(a) + Len(b)
        /\ \A k \in 1 .. Len(a) + Len(b) : (a \o b)[k] = IF k <= Len(a) THEN a[k] ELSE b[k - Len(a)]
    BY <2>0, ConcatProperties
  <2> HIDE DEF b
  <2>4. ASSUME NEW k \in 1 .. n + 1
        PROVE  (a \o b)[k] = IF k < i THEN s[k] ELSE IF k = i THEN e ELSE s[k - 1]
    <3>1. CASE k <= i
      BY <2>2, <2>0, <3>1
    <3>2. CASE ~ (k <= i)
      <4>1. (a \o b)[k] = b[k - i] /\ k - i \in 1 .. n - i + 1
        BY <2>2, <2>0, <3>2
      <4>2. b[k - i] = s[i + (k - i) - 1]
        BY <1>2, <4>1 DEF b
      <4> QED BY <3>2, <4>1, <4>2
    <3> QED BY <3>1, <3>2
  <2> QED BY <2>1, <2>2, <2>0, <2>4
<1>6. IsSeq(InsertAt(s, i, e))
  BY <1>5, LenProperties DEF IsSeq
<1> QED BY <1>5, <1>6

\* The id at p is taken out and put back beside that at q.
Shifted(s, p, q) ==
    [k \in 1 .. Len(s) |->
        IF k = q THEN s[p]
        ELSE IF p <= k /\ k < q THEN s[k + 1]
        ELSE IF q < k /\ k <= p THEN s[k - 1] ELSE s[k]]

LEMMA OutAndIn ==
    ASSUME NEW s, Distinct(s), NEW p \in 1 .. Len(s), NEW q \in 1 .. Len(s), p # q,
           NEW rest, rest = RemoveFirst(s, s[p]), NEW target, target = Place(rest, s[q])
    PROVE  InsertAt(rest, IF q > p THEN target + 1 ELSE target, s[p]) = Shifted(s, p, q)
<1>0. IsSeq(s)
  BY DEF Distinct, IsSeq
<1>1. PICK n \in Nat : n = Len(s)
  BY DEF Distinct
<1>2. /\ IsSeq(rest) /\ Len(rest) = n - 1
      /\ \A k \in 1 .. n - 1 : rest[k] = IF k < p THEN s[k] ELSE s[k + 1]
  <2>1. SelectInSeq(s, LAMBDA v : v = s[p]) = p
    BY PlaceOf DEF Place
  <2>2. rest = RemoveAt(s, p)
    BY <2>1 DEF RemoveFirst
  <2> QED BY <1>0, <1>1, <2>2, Removed
<1>3. Distinct(rest)
  <2>1. ASSUME NEW a \in 1 .. n - 1, NEW b \in 1 .. n - 1, rest[a] = rest[b] PROVE a = b
    <3> DEFINE x == IF a < p THEN a ELSE a + 1
               y == IF b < p THEN b ELSE b + 1
    <3>1. x \in 1 .. n /\ y \in 1 .. n /\ rest[a] = s[x] /\ rest[b] = s[y]
      BY <1>1, <1>2
    <3>2. x = y
      BY <1>1, <2>1, <3>1 DEF Distinct
    <3> QED BY <1>1, <3>2
  <2> QED BY <1>2, <2>1 DEF Distinct, IsSeq
<1>4. target = IF q > p THEN q - 1 ELSE q
  <2>1. PICK t \in 1 .. n - 1 : t = IF q > p THEN q - 1 ELSE q
    BY <1>1
  <2>2. rest[t] = s[q]
    BY <1>1, <1>2, <2>1
  <2> QED BY <1>2, <1>3, <2>1, <2>2, PlaceOf
<1>5. (IF q > p THEN target + 1 ELSE target) = q
  BY <1>1, <1>4
<1> PICK e : e = s[p]
  OBVIOUS
<1> PICK new : new = InsertAt(rest, q, e)
  OBVIOUS
<1>6. /\ IsSeq(new) /\ Len(new) = n
      /\ \A k \in 1 .. n : new[k] = IF k < q THEN rest[k] ELSE IF k = q THEN e ELSE rest[k - 1]
  <2>1. Len(rest) + 1 = n
    BY <1>1, <1>2
  <2>3. IsSeq(rest) /\ q \in 1 .. Len(rest) + 1
    BY <1>1, <1>2
  <2>2. /\ IsSeq(new) /\ Len(new) = Len(rest) + 1
        /\ \A k \in 1 .. Len(rest) + 1 :
              new[k] = IF k < q THEN rest[k] ELSE IF k = q THEN e ELSE rest[k - 1]
    BY <2>3, Inserted
  <2> QED BY <2>1, <2>2
<1>7. ASSUME NEW k \in 1 .. n
      PROVE  new[k] = Shifted(s, p, q)[k]
  <2>1. Shifted(s, p, q)[k] = IF k = q THEN s[p]
                              ELSE IF p <= k /\ k < q THEN s[k + 1]
                              ELSE IF q < k /\ k <= p THEN s[k - 1] ELSE s[k]
    BY <1>1 DEF Shifted
  <2>2. CASE k < q
    <3>1. k \in 1 .. n - 1
      BY <1>1, <2>2
    <3> QED BY <1>1, <1>2, <1>6, <2>1, <2>2, <3>1
  <2>3. CASE k = q
    BY <1>6, <2>1, <2>3
  <2>4. CASE k > q
    <3>1. k - 1 \in 1 .. n - 1 /\ k - 1 + 1 = k
      BY <1>1, <2>4
    <3>2. rest[k - 1] = IF k - 1 < p THEN s[k - 1] ELSE s[k]
      BY <1>2, <3>1
    <3> QED BY <1>1, <1>6, <2>1, <2>4, <3>2
  <2> QED BY <1>1, <2>2, <2>3, <2>4
<1>8. new = [k \in 1 .. n |-> new[k]]
  BY <1>6 DEF IsSeq
<1>9. Shifted(s, p, q) = [k \in 1 .. n |-> Shifted(s, p, q)[k]]
  BY <1>1 DEF Shifted
<1>10. new = Shifted(s, p, q)
  BY <1>7, <1>8, <1>9
<1> QED BY <1>5, <1>10

\* id stands beside t in the new list, after it or before it, and the rest as before.
Beside(list, new, id, t, direction) ==
    /\ DOMAIN new = DOMAIN list /\ id # t
    /\ \A i \in DOMAIN list : new[i].group = list[i].group
    /\ \A i, j \in DOMAIN list \ {id} : Before(list, i, j) => Before(new, i, j)
    /\ \A i \in DOMAIN list \ {id, t} : /\ Before(list, i, t) => Before(new, i, id)
                                        /\ Before(list, t, i) => Before(new, id, i)
    /\ IF direction > 0 THEN Before(new, t, id) ELSE Before(new, id, t)

Swapped(s, k, n) == [s EXCEPT ![k] = s[n], ![n] = s[k]]

LEMMA Neighbours ==
    ASSUME NEW list, NEW new, Ordered(list), Ordered(new),
           NEW id \in DOMAIN list, NEW direction \in {-1, 1}, NEW old,
           NEW g, g = list[id].group, old = Shown(list, g),
           NEW k \in 1 .. Len(old), old[k] = id, NEW n, n = k + direction, n \in 1 .. Len(old),
           Beside(list, new, id, old[n], direction)
    PROVE  /\ \A h : h # g => Shown(new, h) = Shown(list, h)
           /\ Shown(new, g) = Swapped(old, k, n)
<1>1. ASSUME NEW h PROVE InGroup(new, h) = InGroup(list, h) /\ InGroup(list, h) \in SUBSET (DOMAIN list)
  BY DEF InGroup, Beside
<1>2. ASSUME NEW h, h # g PROVE Shown(new, h) = Shown(list, h)
  <2> DEFINE S == InGroup(list, h)
  <2>1. id \notin S
    BY <1>2 DEF InGroup
  <2>2. S \in SUBSET (DOMAIN list) /\ S \in SUBSET (DOMAIN new) /\ InGroup(new, h) = S
    BY <1>1 DEF Beside
  <2> HIDE DEF S
  <2>3. \A i, j \in S : Before(list, i, j) => Before(new, i, j)
    BY <2>1, <2>2 DEF Beside
  <2>4. Sorted(new, S) = Sorted(list, S)
    BY <2>2, <2>3, SameOrder
  <2> QED BY <2>2, <2>4 DEF Shown, S
<1>3. PICK S : S = InGroup(list, g)
  OBVIOUS
<1>4. S \in SUBSET (DOMAIN list) /\ S \in SUBSET (DOMAIN new) /\ InGroup(new, g) = S
  BY <1>1, <1>3 DEF Beside
<1>5. Lists(list, S, old)
  BY <1>3, <1>4, SortedLists DEF Shown
<1>6. Distinct(old)
  BY <1>4, <1>5, ListsDistinct
<1>7. PICK x : x = [old EXCEPT ![k] = old[n], ![n] = old[k]]
  OBVIOUS
<1>8. PICK m \in Nat : m = Len(old)
  BY <1>5 DEF Lists
<1> DEFINE from(a) == IF a = k THEN n ELSE IF a = n THEN k ELSE a
<1>9. /\ Len(x) = m /\ x = [a \in 1 .. m |-> x[a]]
      /\ \A a \in 1 .. m : from(a) \in 1 .. m /\ x[a] = old[from(a)]
  <2>1. old = [a \in 1 .. m |-> old[a]] /\ k # n
    BY <1>5, <1>8 DEF Lists
  <2>2. x = [a \in 1 .. m |-> old[from(a)]]
    BY <1>7, <2>1
  <2>3. \A a \in 1 .. m : from(a) \in 1 .. m
    BY <1>8
  <2> QED BY <2>2, <2>3
<1>10. \A a \in 1 .. m : old[a] \in S
  BY <1>5, <1>8 DEF Lists
<1>11. ASSUME NEW a \in 1 .. m, NEW b \in 1 .. m, a < b PROVE Before(list, old[a], old[b])
  BY <1>5, <1>8, <1>11 DEF Lists
<1>12. ASSUME NEW a \in 1 .. m, NEW b \in 1 .. m, a # b PROVE old[a] # old[b]
  BY <1>6, <1>8, <1>12 DEF Distinct
<1>13. ASSUME NEW a \in 1 .. m, NEW b \in 1 .. m, a < b PROVE Before(new, x[a], x[b])
  <2>1. from(a) \in 1 .. m /\ from(b) \in 1 .. m /\ x[a] = old[from(a)] /\ x[b] = old[from(b)]
    BY <1>9
  <2>2. CASE a # n /\ b # n
    <3>1. from(a) < from(b) /\ from(a) # k /\ from(b) # k
      BY <1>8, <1>13, <2>2
    <3>2. Before(list, x[a], x[b]) /\ x[a] # id /\ x[b] # id /\ x[a] \in S /\ x[b] \in S
      BY <1>8, <1>10, <1>11, <1>12, <2>1, <3>1
    <3> QED BY <1>4, <3>2 DEF Beside
  <2>3. CASE a = n
    <3>1. x[a] = id /\ from(b) # k
      BY <1>8, <1>13, <2>1, <2>3
    <3>2. x[b] \in S /\ x[b] # id
      BY <1>8, <1>10, <1>12, <2>1, <3>1
    <3>3. CASE from(b) = n
      <4>1. direction = -1 /\ x[b] = old[n]
        BY <1>8, <1>13, <2>1, <2>3, <3>3
      <4> QED BY <3>1, <4>1 DEF Beside
    <3>4. CASE from(b) # n
      <4>1. n < from(b)
        BY <1>8, <1>13, <2>3, <3>4
      <4>2. PICK c \in 1 .. m : c = from(b) /\ n < c /\ x[b] = old[c]
        BY <2>1, <4>1
      <4>3. Before(list, old[n], x[b]) /\ x[b] # old[n]
        BY <1>8, <1>11, <1>12, <4>2
      <4> QED BY <1>4, <3>1, <3>2, <4>3 DEF Beside
    <3> QED BY <3>3, <3>4
  <2>4. CASE b = n
    <3>1. x[b] = id /\ from(a) # k
      BY <1>8, <1>13, <2>1, <2>4
    <3>2. x[a] \in S /\ x[a] # id
      BY <1>8, <1>10, <1>12, <2>1, <3>1
    <3>3. CASE from(a) = n
      <4>1. direction = 1 /\ x[a] = old[n]
        BY <1>8, <1>13, <2>1, <2>4, <3>3
      <4> QED BY <3>1, <4>1 DEF Beside
    <3>4. CASE from(a) # n
      <4>1. from(a) < n
        BY <1>8, <1>13, <2>4, <3>4
      <4>2. PICK c \in 1 .. m : c = from(a) /\ c < n /\ x[a] = old[c]
        BY <2>1, <4>1
      <4>3. Before(list, x[a], old[n]) /\ x[a] # old[n]
        BY <1>8, <1>11, <1>12, <4>2
      <4> QED BY <1>4, <3>1, <3>2, <4>3 DEF Beside
    <3> QED BY <3>3, <3>4
  <2> QED BY <2>2, <2>3, <2>4
<1>14. ASSUME NEW i \in S PROVE \E a \in 1 .. m : x[a] = i
  <2>1. PICK b \in 1 .. m : old[b] = i
    BY <1>5, <1>8 DEF Lists
  <2>2. from(b) \in 1 .. m /\ from(from(b)) = b
    BY <1>8, <1>9
  <2>3. x[from(b)] = old[b]
    BY <1>9, <2>2
  <2> QED BY <2>1, <2>2, <2>3
<1>15. Lists(new, S, x)
  <2>1. \A a \in 1 .. m : x[a] \in S
    BY <1>9, <1>10
  <2> HIDE DEF from
  <2> QED BY <1>9, <1>13, <1>14, <2>1 DEF Lists
<1>16. Lists(new, S, Shown(new, g))
  BY <1>4, SortedLists DEF Shown
<1>17. Shown(new, g) = x
  BY <1>4, <1>15, <1>16, OneList
<1> QED BY <1>2, <1>7, <1>17 DEF Swapped

Ties(list) == \E i, j \in DOMAIN list : i # j /\ list[i].order = list[j].order

\* Orders that differ: the one beside the neighbour's is between it and the next.
LEMMA OrderBeside ==
    ASSUME NEW list, Ordered(list), NEW id \in DOMAIN list, NEW t \in DOMAIN list, id # t,
           NEW direction \in {-1, 1}, NEW now, NEW new,
           new = [list EXCEPT ![id].order = list[t].order + direction, ![id].mtime = now],
           \A i \in DOMAIN list : list[i] \in Button,
           ~ Ties(new)
    PROVE  Ordered(new) /\ Beside(list, new, id, t, direction)
<1>1. DOMAIN new = DOMAIN list /\ new[id].order = list[t].order + direction
      /\ new[id].group = list[id].group
  BY DEF Button
<1>2. \A i \in DOMAIN list \ {id} : new[i] = list[i]
  OBVIOUS
<1>3. \A i \in DOMAIN list : i \in Int /\ list[i].order \in Int
  BY DEF Ordered
<1>4. Ordered(new)
  BY <1>1, <1>2, <1>3 DEF Ordered
<1>5. ASSUME NEW i \in DOMAIN list \ {id, t}
      PROVE  /\ Before(list, i, t) => Before(new, i, id)
             /\ Before(list, t, i) => Before(new, id, i)
  <2>1. new[i].order = list[i].order /\ new[t].order = list[t].order
    BY <1>2
  <2>2. new[i].order # new[id].order /\ new[i].order # new[t].order
    BY <1>1, <1>5 DEF Ties
  <2> QED BY <1>1, <1>3, <2>1, <2>2 DEF Before
<1>6. ASSUME NEW i \in DOMAIN list \ {id}, NEW j \in DOMAIN list \ {id}, Before(list, i, j)
      PROVE  Before(new, i, j)
  BY <1>2, <1>6 DEF Before
<1>7. IF direction > 0 THEN Before(new, t, id) ELSE Before(new, id, t)
  <2>1. new[t].order = list[t].order
    BY <1>2
  <2> QED BY <1>1, <1>3, <2>1 DEF Before
<1>8. \A i \in DOMAIN list : new[i].group = list[i].group
  BY <1>1, <1>2
<1> QED BY <1>1, <1>4, <1>5, <1>6, <1>7, <1>8 DEF Beside

\* Orders by the places in a list where id was put beside t.
LEMMA PlacesBeside ==
    ASSUME NEW list, Ordered(list), NEW all, Lists(list, DOMAIN list, all),
           NEW p \in 1 .. Len(all), NEW q \in 1 .. Len(all), p # q,
           NEW direction \in {-1, 1}, direction > 0 <=> p < q,
           NEW new, DOMAIN new = DOMAIN list,
           \A i \in DOMAIN list : new[i].group = list[i].group,
           NEW seq, seq = Shifted(all, p, q),
           \A i \in DOMAIN list : new[i].order = 10 * Place(seq, i)
    PROVE  Ordered(new) /\ Beside(list, new, all[p], all[q], direction)
<1>1. PICK m \in Nat : m = Len(all)
  BY DEF Lists
<1> DEFINE to(a) == IF a = p THEN q
                    ELSE IF p < a /\ a <= q THEN a - 1
                    ELSE IF q <= a /\ a < p THEN a + 1 ELSE a
<1>2. Distinct(all)
  BY ListsDistinct
<1>3. /\ Len(seq) = m /\ seq = [a \in 1 .. m |-> seq[a]]
      /\ \A a \in 1 .. m : seq[a] = IF a = q THEN all[p]
                                    ELSE IF p <= a /\ a < q THEN all[a + 1]
                                    ELSE IF q < a /\ a <= p THEN all[a - 1] ELSE all[a]
  BY <1>1 DEF Shifted
<1>4. ASSUME NEW a \in 1 .. m PROVE to(a) \in 1 .. m /\ seq[to(a)] = all[a]
  <2>1. PICK c \in 1 .. m : c = to(a)
    BY <1>1
  <2>2. CASE a = p
    BY <1>3, <2>1, <2>2
  <2>3. CASE p < a /\ a <= q
    <3>1. c = a - 1 /\ c + 1 = a /\ p <= c /\ c < q
      BY <1>1, <2>1, <2>3
    <3> QED BY <1>3, <2>1, <3>1
  <2>4. CASE q <= a /\ a < p
    <3>1. c = a + 1 /\ c - 1 = a /\ q < c /\ c <= p
      BY <1>1, <2>1, <2>4
    <3> QED BY <1>1, <1>3, <2>1, <3>1
  <2>5. CASE (a < p /\ a < q) \/ (p < a /\ q < a)
    <3>1. c = a
      BY <1>1, <2>1, <2>5
    <3> QED BY <1>1, <1>3, <2>1, <2>5, <3>1
  <2> QED BY <1>1, <2>1, <2>2, <2>3, <2>4, <2>5
<1>5. Distinct(seq)
  <2>1. ASSUME NEW a \in 1 .. m, NEW b \in 1 .. m, seq[a] = seq[b] PROVE a = b
    <3> DEFINE from(c) == IF c = q THEN p ELSE IF p <= c /\ c < q THEN c + 1
                          ELSE IF q < c /\ c <= p THEN c - 1 ELSE c
    <3>1. \A c \in 1 .. m : from(c) \in 1 .. m /\ seq[c] = all[from(c)]
      BY <1>1, <1>3
    <3>2. PICK x \in 1 .. m, y \in 1 .. m : x = from(a) /\ y = from(b)
      BY <3>1
    <3>3. x = y
      BY <1>1, <1>2, <2>1, <3>1, <3>2 DEF Distinct
    <3> QED BY <1>1, <3>2, <3>3
  <2> QED BY <1>3, <2>1 DEF Distinct
<1>6. ASSUME NEW a \in 1 .. m
      PROVE  all[a] \in DOMAIN list /\ new[all[a]].order = 10 * to(a) /\ to(a) \in Int
  <2>1. PICK c \in 1 .. m : c = to(a) /\ seq[c] = all[a]
    BY <1>4
  <2>2. Place(seq, all[a]) = c
    BY <1>3, <1>5, <2>1, PlaceOf
  <2>3. all[a] \in DOMAIN list
    BY <1>1 DEF Lists
  <2> QED BY <2>1, <2>2, <2>3
<1>7. ASSUME NEW i \in DOMAIN list PROVE \E a \in 1 .. m : i = all[a]
  BY <1>1 DEF Lists
<1>8. ASSUME NEW a \in 1 .. m, NEW b \in 1 .. m, Before(list, all[a], all[b]) PROVE a < b
  <2>1. all[a] \in DOMAIN list /\ all[b] \in DOMAIN list
    BY <1>6
  <2>2. ~ (b < a)
    <3>1. b < a => Before(list, all[b], all[a])
      BY <1>1 DEF Lists
    <3> QED BY <1>8, <2>1, <3>1, BeforeOrders
  <2>3. a # b
    BY <1>8, <2>1, BeforeOrders
  <2> QED BY <2>2, <2>3
<1>9. ASSUME NEW a \in 1 .. m, NEW b \in 1 .. m, to(a) < to(b) PROVE Before(new, all[a], all[b])
  <2>1. PICK x \in Int, y \in Int : x = to(a) /\ y = to(b)
    BY <1>6
  <2>2. new[all[a]].order = 10 * x /\ new[all[b]].order = 10 * y /\ x < y
    BY <1>6, <1>9, <2>1
  <2> QED BY <2>2 DEF Before
<1>10. Ordered(new)
  <2>1. \A i \in DOMAIN list : new[i].order \in Int
    <3> TAKE i \in DOMAIN list
    <3>1. PICK a \in 1 .. m : i = all[a]
      BY <1>7
    <3>2. PICK x \in Int : x = to(a)
      BY <1>6
    <3> QED BY <1>6, <3>1, <3>2
  <2> QED BY <2>1 DEF Ordered
<1>11. ASSUME NEW i \in DOMAIN list \ {all[p]}, NEW j \in DOMAIN list \ {all[p]}, Before(list, i, j)
       PROVE  Before(new, i, j)
  <2>1. PICK a \in 1 .. m, b \in 1 .. m : i = all[a] /\ j = all[b]
    BY <1>7
  <2>2. a < b /\ a # p /\ b # p
    BY <1>8, <1>11, <2>1
  <2>3. to(a) < to(b)
    BY <1>1, <2>2
  <2> QED BY <1>9, <2>1, <2>3
<1>12. ASSUME NEW i \in DOMAIN list \ {all[p], all[q]}
       PROVE  /\ Before(list, i, all[q]) => Before(new, i, all[p])
              /\ Before(list, all[q], i) => Before(new, all[p], i)
  <2>1. PICK a \in 1 .. m : i = all[a]
    BY <1>7
  <2>2. a # p /\ a # q /\ p \in 1 .. m /\ q \in 1 .. m
    BY <1>1, <1>12, <2>1
  <2>3. (a < q => to(a) < to(p)) /\ (q < a => to(p) < to(a))
    BY <1>1, <2>2
  <2>4. (Before(list, all[a], all[q]) => a < q) /\ (Before(list, all[q], all[a]) => q < a)
    BY <1>8, <2>2
  <2> HIDE DEF to
  <2> QED BY <1>9, <2>1, <2>2, <2>3, <2>4
<1>13. IF direction > 0 THEN Before(new, all[q], all[p]) ELSE Before(new, all[p], all[q])
  <2>1. p \in 1 .. m /\ q \in 1 .. m
    BY <1>1
  <2>2. IF direction > 0 THEN to(q) < to(p) ELSE to(p) < to(q)
    BY <1>1
  <2> HIDE DEF to
  <2> QED BY <1>9, <2>1, <2>2
<1>14. all[p] # all[q]
  BY <1>2 DEF Distinct
<1> QED BY <1>10, <1>11, <1>12, <1>13, <1>14 DEF Beside

\* MoveButton
LEMMA MovedBeside ==
    ASSUME NEW list, Ordered(list), \A i \in DOMAIN list : list[i] \in Button,
           NEW id \in DOMAIN list, NEW direction \in {-1, 1}, NEW now \in Nat, NEW old,
           old = Shown(list, list[id].group),
           NEW k \in 1 .. Len(old), old[k] = id, NEW n, n = k + direction, n \in 1 .. Len(old)
    PROVE  /\ Ordered(Moved(list, id, direction, now))
           /\ Beside(list, Moved(list, id, direction, now), id, old[n], direction)
<1>1. PICK S : S = InGroup(list, list[id].group) /\ S \in SUBSET (DOMAIN list)
  BY DEF InGroup
<1>2. Lists(list, S, old) /\ Distinct(old)
  BY <1>1, SortedLists, ListsDistinct DEF Shown
<1>3. Place(old, id) = k /\ DOMAIN old = 1 .. Len(old)
  BY <1>2, PlaceOf DEF Distinct
<1>4. PICK t : t = old[n] /\ t \in DOMAIN list /\ t # id
  <2>1. old[n] \in S
    BY <1>2 DEF Lists
  <2>2. old[n] # id
    BY <1>2 DEF Distinct
  <2> QED BY <1>1, <2>1, <2>2
<1>5. PICK all : all = Sorted(list, DOMAIN list)
  OBVIOUS
<1>6. Lists(list, DOMAIN list, all) /\ Distinct(all)
  BY <1>5, SortedLists, ListsDistinct
<1>7. PICK p \in 1 .. Len(all), q \in 1 .. Len(all) : all[p] = id /\ all[q] = t
  BY <1>4, <1>6 DEF Lists
<1>8. p # q /\ (direction > 0 <=> p < q)
  <2>1. p # q
    BY <1>4, <1>7
  <2>2. IF direction > 0 THEN Before(list, id, t) ELSE Before(list, t, id)
    <3>1. \A a, b \in 1 .. Len(old) : a < b => Before(list, old[a], old[b])
      BY <1>2 DEF Lists
    <3>2. IF direction > 0 THEN k < n ELSE n < k
      OBVIOUS
    <3> QED BY <1>4, <3>1, <3>2
  <2>3. IF p < q THEN Before(list, id, t) ELSE Before(list, t, id)
    <3>1. p < q \/ q < p
      BY <1>6, <2>1 DEF Lists
    <3> QED BY <1>6, <1>7, <3>1 DEF Lists
  <2> QED BY <1>4, <2>1, <2>2, <2>3, BeforeOrders
<1>9. PICK new : new = [list EXCEPT ![id].order = list[t].order + direction, ![id].mtime = now]
  OBVIOUS
<1>10. PICK rest, target : rest = RemoveFirst(all, id) /\ target = Place(rest, t)
  OBVIOUS
<1>11. PICK seq : seq = InsertAt(rest, IF direction > 0 THEN target + 1 ELSE target, id)
  OBVIOUS
<1>12. Moved(list, id, direction, now) =
          IF Ties(new) THEN Resequenced(new, seq, now) ELSE new
  BY <1>3, <1>4, <1>5, <1>9, <1>10, <1>11 DEF Moved, Ties
<1>13. CASE Ties(new)
  <2>1. seq = Shifted(all, p, q)
    <3>1. q > p <=> direction > 0
      BY <1>8
    <3>2. rest = RemoveFirst(all, all[p]) /\ target = Place(rest, all[q])
      BY <1>7, <1>10
    <3>3. InsertAt(rest, IF q > p THEN target + 1 ELSE target, all[p]) = Shifted(all, p, q)
      BY <1>6, <1>8, <3>2, OutAndIn
    <3> QED BY <1>7, <1>11, <3>1, <3>3
  <2>2. PICK M : M = Resequenced(new, seq, now)
    OBVIOUS
  <2>3. DOMAIN M = DOMAIN list /\ \A i \in DOMAIN list : M[i].group = list[i].group
                                                      /\ M[i].order = 10 * Place(seq, i)
    BY <1>9, <2>2 DEF Resequenced, Button
  <2>4. Ordered(M) /\ Beside(list, M, all[p], all[q], direction)
    BY <1>6, <1>8, <2>1, <2>3, PlacesBeside
  <2> QED BY <1>4, <1>7, <1>12, <1>13, <2>2, <2>4
<1>14. CASE ~ Ties(new)
  <2>1. Ordered(new) /\ Beside(list, new, id, t, direction)
    BY <1>4, <1>9, <1>14, OrderBeside
  <2> QED BY <1>4, <1>12, <1>14, <2>1
<1> QED BY <1>13, <1>14

LEMMA PlaceIn ==
    ASSUME NEW list, Ordered(list), NEW id \in DOMAIN list, NEW g, g = list[id].group
    PROVE  \E k \in 1 .. Len(Shown(list, g)) :
               Shown(list, g)[k] = id /\ Place(Shown(list, g), id) = k
<1>1. PICK S : S = InGroup(list, g) /\ S \in SUBSET (DOMAIN list) /\ id \in S
  BY DEF InGroup
<1>2. Lists(list, S, Shown(list, g)) /\ Distinct(Shown(list, g))
  BY <1>1, SortedLists, ListsDistinct DEF Shown
<1>3. PICK k \in 1 .. Len(Shown(list, g)) : Shown(list, g)[k] = id
  BY <1>1, <1>2 DEF Lists
<1> QED BY <1>2, <1>3, PlaceOf

IsButton(b) == b = [group |-> b.group, order |-> b.order, mtime |-> b.mtime]

\* What a move leaves, changes and stamps.
LEMMA MovedOnly ==
    ASSUME NEW list, NEW id \in DOMAIN list, NEW direction, NEW now, NEW new,
           new = Moved(list, id, direction, now),
           \A i \in DOMAIN list : list[i] \in Button
    PROVE  /\ DOMAIN new = DOMAIN list
           /\ \A i \in DOMAIN list : new[i].group = list[i].group
           /\ \A i \in DOMAIN list : new[i] = list[i] \/ new[i].mtime = now
           /\ \A i \in DOMAIN list : IsButton(new[i])
<1> DEFINE group == Shown(list, list[id].group)
           place == Place(group, id) + direction
           order == list[group[place]].order + direction
           put == [list EXCEPT ![id].order = order, ![id].mtime = now]
<1>1. /\ DOMAIN put = DOMAIN list
      /\ \A i \in DOMAIN list : /\ put[i].group = list[i].group
                                /\ put[i] = list[i] \/ put[i].mtime = now
                                /\ IsButton(put[i])
  <2> HIDE DEF order
  <2> QED BY DEF Button, IsButton
<1>2. new = list \/ new = put \/ \E seq : new = Resequenced(put, seq, now)
  BY DEF Moved
<1>3. ASSUME NEW seq
      PROVE  /\ DOMAIN Resequenced(put, seq, now) = DOMAIN list
             /\ \A i \in DOMAIN list : /\ Resequenced(put, seq, now)[i].group = list[i].group
                                       /\ Resequenced(put, seq, now)[i].mtime = now
                                       /\ IsButton(Resequenced(put, seq, now)[i])
  <2> HIDE DEF put
  <2>2. PICK M : M = Resequenced(put, seq, now)
    OBVIOUS
  <2>3. DOMAIN M = DOMAIN list
    BY <1>1, <2>2 DEF Resequenced
  <2>4. ASSUME NEW i \in DOMAIN list PROVE M[i].group = list[i].group /\ M[i].mtime = now /\ IsButton(M[i])
    <3>1. PICK b : b = put[i]
      OBVIOUS
    <3>2. M[i] = [b EXCEPT !.order = 10 * Place(seq, i), !.mtime = now]
      BY <1>1, <2>2, <3>1 DEF Resequenced
    <3>3. b = [group |-> b.group, order |-> b.order, mtime |-> b.mtime] /\ b.group = list[i].group
      BY <1>1, <3>1 DEF IsButton
    <3> QED BY <3>2, <3>3 DEF IsButton
  <2> QED BY <2>2, <2>3, <2>4
<1>4. CASE \E seq : new = Resequenced(put, seq, now)
  <2>1. PICK seq : new = Resequenced(put, seq, now)
    BY <1>4
  <2> HIDE DEF put
  <2> QED BY <1>3, <2>1
<1>5. CASE new = put
  <2> HIDE DEF put
  <2> QED BY <1>1, <1>5
<1>6. CASE new = list
  BY <1>6 DEF Button, IsButton
<1> QED BY <1>2, <1>4, <1>5, <1>6

\* The new button has an order beyond those of the others.
\* A list that is not empty has a button that no other has a greater order than.
LEMMA GreatestButton ==
    ASSUME NEW list, Ordered(list), DOMAIN list # {}
    PROVE  \E g \in DOMAIN list : \A i \in DOMAIN list : list[i].order <= list[g].order
<1>1. PICK all : all = Sorted(list, DOMAIN list) /\ Lists(list, DOMAIN list, all)
  BY SortedLists
<1>2. Len(all) # 0
  BY <1>1 DEF Lists
<1>3. PICK n \in 1 .. Len(all) : n = Len(all)
  BY <1>1, <1>2 DEF Lists
<1>4. all[n] \in DOMAIN list
  BY <1>1 DEF Lists
<1>5. ASSUME NEW i \in DOMAIN list PROVE list[i].order <= list[all[n]].order
  <2>1. PICK k \in 1 .. Len(all) : all[k] = i
    BY <1>1 DEF Lists
  <2>2. k < n \/ k = n
    BY <1>3
  <2>3. i = all[n] \/ Before(list, i, all[n])
    BY <1>1, <2>1, <2>2 DEF Lists
  <2>4. list[i].order \in Int /\ list[all[n]].order \in Int
    BY <1>4 DEF Ordered
  <2> QED BY <2>3, <2>4 DEF Before
<1> QED BY <1>4, <1>5

LEMMA GreatestOrder ==
    ASSUME NEW list, Ordered(list)
    PROVE  MaxOrder(list) \in Int /\ \A i \in DOMAIN list : list[i].order <= MaxOrder(list)
<1> DEFINE O == {0} \cup {list[i].order : i \in DOMAIN list}
           IsMax(m) == \A i \in DOMAIN list : list[i].order <= m
<1>2. O \in SUBSET Int
  BY DEF Ordered
<1>3. \E m \in O : IsMax(m)
  <2>1. CASE DOMAIN list = {}
    BY <2>1
  <2>2. CASE DOMAIN list # {}
    BY <2>2, GreatestButton
  <2> QED BY <2>1, <2>2
<1>4. MaxOrder(list) = CHOOSE m \in O : IsMax(m)
  BY DEF MaxOrder
<1>5. MaxOrder(list) \in O /\ IsMax(MaxOrder(list))
  <2> HIDE DEF O, IsMax
  <2> QED BY <1>3, <1>4
<1> QED BY <1>2, <1>5

LEMMA LastOf ==
    ASSUME NEW list, Ordered(list), NEW S \in SUBSET (DOMAIN list), NEW id \in S,
           \A i \in S \ {id} : Before(list, i, id)
    PROVE  Last(Sorted(list, S)) = id
<1>1. PICK s : s = Sorted(list, S) /\ Lists(list, S, s)
  BY SortedLists
<1>2. PICK k \in 1 .. Len(s) : s[k] = id
  BY <1>1 DEF Lists
<1>3. PICK n \in 1 .. Len(s) : n = Len(s)
  BY <1>1 DEF Lists
<1>4. s[n] \in S
  BY <1>1 DEF Lists
<1>5. ~ (k < n)
  <2> SUFFICES ASSUME k < n PROVE FALSE
    OBVIOUS
  <2>1. Before(list, id, s[n])
    BY <1>1, <1>2 DEF Lists
  <2>2. s[n] # id /\ Before(list, s[n], id)
    BY <1>4, <2>1, BeforeOrders
  <2> QED BY <1>4, <2>1, <2>2, BeforeOrders
<1>6. k = n
  BY <1>3, <1>5
<1> QED BY <1>1, <1>2, <1>3, <1>6 DEF Last

-----------------------------------------------------------------------------
(* The invariant.                                                          *)

Buttons(list) ==
    /\ IsFiniteSet(DOMAIN list) /\ DOMAIN list \in SUBSET ButtonIds
    /\ \A i \in DOMAIN list : list[i] \in Button

UpTo(list, time) == \A i \in DOMAIN list : list[i].mtime <= time

Mentions(c, id) ==
    \/ c.op = "reorder" /\ id \in DOMAIN c.list
    \/ c.op \in {"save", "delete", "move"} /\ c.id = id

IsCall(c) ==
    /\ c.w \in Windows /\ c.op \in {"save", "delete", "move", "reorder", "get"}
    /\ c.op = "save" => c.id \in ButtonIds /\ c.button \in Button /\ c.button.mtime <= clock
    /\ c.op = "move" => c.direction \in {-1, 1}
    /\ c.op = "reorder" => Buttons(c.list) /\ UpTo(c.list, clock)

IsNew(c) == c.op = "save" /\ ~ c.edit

Kept ==
    /\ clock \in Nat \ {0} /\ skewed \in [Windows -> BOOLEAN]
    /\ Buttons(server) /\ UpTo(server, clock - 1)
    /\ DOMAIN view = Windows
    /\ \A w \in Windows : Buttons(view[w]) /\ UpTo(view[w], clock)
    /\ \A c \in calls : IsCall(c)

\* A button that is being created is in no list yet and in no other request.
NewUnseen ==
    \A c \in calls : IsNew(c) =>
        /\ c.button.mtime = 0
        /\ c.id \notin DOMAIN server /\ \A w \in Windows : c.id \notin DOMAIN view[w]
        /\ \A d \in calls : d # c => ~ Mentions(d, c.id)

\* In a window that is not skewed one call is under way, and a reordering has the
\* present time of the server.
OneAtATime == \A c, d \in calls : c # d /\ c.w = d.w => skewed[c.w]
OnTime ==
    \A c \in calls : c.op = "reorder" /\ ~ skewed[c.w] =>
        \A i \in DOMAIN c.list : c.list[i].mtime = clock

IInv == Kept /\ NewUnseen /\ OneAtATime /\ OnTime

LEMMA PlaceNat ==
    ASSUME NEW s, NEW x, Len(s) \in Nat PROVE Place(s, x) \in Nat
<1> DEFINE I == {i \in 1 .. Len(s) : s[i] = x}
<1>1. I \in SUBSET Nat
  OBVIOUS
<1>2. Place(s, x) = IF I # {} THEN Min(I) ELSE 0
  BY DEF Place, SelectInSeq
<1>3. I # {} => Min(I) \in I
  <2> SUFFICES ASSUME I # {} PROVE Min(I) \in I
    OBVIOUS
  <2>1. \E i \in I : \A j \in I : i <= j
    BY <1>1, LeastIn
  <2> HIDE DEF I
  <2> QED BY <2>1 DEF Min
<1> QED BY <1>1, <1>2, <1>3

LEMMA OrderedButtons ==
    ASSUME Numbered, NEW list, Buttons(list) PROVE Ordered(list)
BY DEF Numbered, Buttons, Ordered, Button

\* The order that a form proposes is greater than those of the list.
LEMMA ProposedOrder ==
    ASSUME Numbered, NEW list, Buttons(list)
    PROVE  Proposed(list) \in Int /\ \A i \in DOMAIN list : list[i].order < Proposed(list)
<1> DEFINE O == {list[i].order : i \in DOMAIN list}
<1>1. Ordered(list) /\ O \in SUBSET Int
  BY OrderedButtons DEF Ordered
<1>2. CASE DOMAIN list = {}
  BY <1>2 DEF Proposed
<1>3. CASE DOMAIN list # {}
  <2>1. PICK m \in O : \A o \in O : m >= o
    BY <1>1, <1>3, GreatestButton DEF Ordered
  <2>2. Max(O) \in O /\ \A o \in O : Max(O) >= o
    <3> HIDE DEF O
    <3> QED BY <2>1 DEF Max
  <2>3. O # {}
    BY <1>3
  <2>4. Proposed(list) = IF Max(O) = -10 THEN 10 ELSE Max(O) + 10
    BY <2>3 DEF Proposed
  <2>5. Max(O) \in Int
    BY <1>1, <2>2
  <2>6. Proposed(list) \in Int /\ \A o \in O : o < Proposed(list)
    <3> HIDE DEF O
    <3> QED BY <1>1, <2>2, <2>4, <2>5
  <2> QED BY <2>6
<1> QED BY <1>2, <1>3

LEMMA ButtonsInit ==
    ASSUME Init PROVE IInv
<1>0. PICK seq \in BoundedSeq(ButtonIds, MaxButtons), g \in [ButtonIds -> Groups] :
          server = [i \in ToSet(seq) |->
                      [group |-> g[i], order |-> 10 * Place(seq, i), mtime |-> 1]]
  BY DEF Init
<1>1. PICK n \in Nat : seq \in [1 .. n -> ButtonIds]
  BY DEF BoundedSeq, SeqOf
<1>2. ToSet(seq) \in SUBSET ButtonIds /\ IsFiniteSet(ToSet(seq))
  <2>1. ToSet(seq) = {seq[k] : k \in 1 .. n}
    BY <1>1 DEF ToSet
  <2>2. IsFiniteSet(1 .. n)
    BY FS_Interval
  <2>3. seq \in Surjection(1 .. n, ToSet(seq))
    BY <1>1, <2>1 DEF Surjection
  <2>4. ToSet(seq) \in SUBSET ButtonIds
    BY <1>1, <2>1
  <2> QED BY <2>2, <2>3, <2>4, FS_Surjection
<1>3. \A i \in ToSet(seq) : Place(seq, i) \in Nat
  BY PlaceNat
<1>4. \A i \in DOMAIN server : server[i] \in Button /\ server[i].mtime = 1
  BY <1>0, <1>2, <1>3 DEF Button
<1>5. Buttons(server) /\ UpTo(server, 1)
  <2>1. DOMAIN server = ToSet(seq)
    BY <1>0
  <2> QED BY <1>2, <1>4, <2>1 DEF Buttons, UpTo
<1>6. view = [w \in Windows |-> server] /\ calls = {} /\ clock = 2
      /\ skewed = [w \in Windows |-> FALSE]
  BY DEF Init
<1>7. UpTo(server, 2)
  BY <1>4 DEF UpTo
<1> QED BY <1>5, <1>6, <1>7 DEF IInv, Kept, NewUnseen, OneAtATime, OnTime

-----------------------------------------------------------------------------
(* Steps of the windows.                                                   *)

\* A new call c of the window w.
LEMMA Called ==
    ASSUME IInv, NEW w \in Windows, NEW c, c.w = w, Calling(w, c), IsCall(c),
           DOMAIN view' = Windows,
           \A v \in Windows : Buttons(view'[v]) /\ UpTo(view'[v], clock)
                              /\ DOMAIN view'[v] = DOMAIN view[v],
           IsNew(c) => Fresh(c.id) /\ c.button.mtime = 0,
           ~ IsNew(c) => \A id : Mentions(c, id) => id \in DOMAIN view[w],
           c.op = "reorder" => \A i \in DOMAIN c.list : c.list[i].mtime = clock
    PROVE  IInv'
<1>1. /\ calls' = calls \cup {c} /\ server' = server /\ clock' = clock
      /\ skewed' = [skewed EXCEPT ![w] = @ \/ \E d \in calls : d.w = w]
  BY DEF Calling
<1>2. Kept'
  <2>1. \A d \in calls' : IsCall(d)'
    BY <1>1 DEF IInv, Kept, IsCall, Buttons, UpTo
  <2>2. skewed' \in [Windows -> BOOLEAN]
    BY <1>1 DEF IInv, Kept
  <2>3. Buttons(server)' /\ UpTo(server, clock - 1)' /\ clock' \in Nat \ {0}
    BY <1>1 DEF IInv, Kept, Buttons, UpTo
  <2>4. \A v \in Windows : (Buttons(view[v]) /\ UpTo(view[v], clock))'
    BY <1>1 DEF Buttons, UpTo
  <2> QED BY <2>1, <2>2, <2>3, <2>4 DEF Kept
<1>3. NewUnseen'
  <2> SUFFICES ASSUME NEW d \in calls', IsNew(d)
               PROVE  /\ d.button.mtime = 0
                      /\ d.id \notin DOMAIN server
                      /\ \A v \in Windows : d.id \notin DOMAIN view[v]
                      /\ \A e \in calls' : e # d => ~ Mentions(e, d.id)
    BY <1>1 DEF NewUnseen, IsNew, Mentions
  <2>1. CASE d = c
    <3>1. Fresh(c.id) /\ d.button.mtime = 0
      BY <2>1
    <3>2. \A e \in calls : ~ Mentions(e, c.id)
      BY <3>1 DEF Fresh, Mentions
    <3> QED BY <1>1, <2>1, <3>1, <3>2 DEF Fresh
  <2>2. CASE d # c
    <3>1. d \in calls
      BY <1>1, <2>2
    <3>2. /\ d.button.mtime = 0
          /\ d.id \notin DOMAIN server
          /\ \A v \in Windows : d.id \notin DOMAIN view[v]
          /\ \A e \in calls : e # d => ~ Mentions(e, d.id)
      BY <3>1 DEF IInv, NewUnseen
    <3>3. ~ Mentions(c, d.id)
      <4>1. CASE IsNew(c)
        <5>1. d.id # c.id
          BY <3>1, <4>1 DEF Fresh, IsNew
        <5> QED BY <4>1, <5>1 DEF Mentions, IsNew
      <4>2. CASE ~ IsNew(c)
        BY <3>2, <4>2
      <4> QED BY <4>1, <4>2
    <3> QED BY <1>1, <3>2, <3>3
  <2> QED BY <2>1, <2>2
<1>4. OneAtATime'
  <2> SUFFICES ASSUME NEW d \in calls', NEW e \in calls', d # e, d.w = e.w
               PROVE  skewed'[d.w]
    BY DEF OneAtATime
  <2>0. \A a \in calls : a.w \in Windows
    BY DEF IInv, Kept, IsCall
  <2>1. CASE d \in calls /\ e \in calls
    <3>1. skewed[d.w] /\ d.w \in Windows
      BY <2>0, <2>1 DEF IInv, OneAtATime
    <3> QED BY <1>1, <3>1 DEF IInv, Kept
  <2>2. CASE ~ (d \in calls /\ e \in calls)
    <3>1. d.w = w /\ \E a \in calls : a.w = w
      BY <1>1, <2>2
    <3> QED BY <1>1, <3>1 DEF IInv, Kept
  <2> QED BY <2>1, <2>2
<1>5. OnTime'
  <2> SUFFICES ASSUME NEW d \in calls', d.op = "reorder", ~ skewed'[d.w], NEW i \in DOMAIN d.list
               PROVE  d.list[i].mtime = clock
    BY <1>1 DEF OnTime
  <2>1. d \in calls => d.w \in Windows /\ ~ skewed[d.w]
    <3> SUFFICES ASSUME d \in calls PROVE d.w \in Windows /\ ~ skewed[d.w]
      OBVIOUS
    <3>1. d.w \in Windows
      BY DEF IInv, Kept, IsCall
    <3>2. skewed[d.w] => skewed'[d.w]
      BY <1>1, <3>1 DEF IInv, Kept
    <3> QED BY <3>1, <3>2
  <2> QED BY <1>1, <2>1 DEF IInv, OnTime
<1> QED BY <1>2, <1>3, <1>4, <1>5 DEF IInv

\* The list that a drag and drop sends has ids of the window's.
LEMMA RenumberedIds ==
    ASSUME NEW list, NEW s, Distinct(s), NEW S, \A k \in 1 .. Len(s) : s[k] \in S,
           NEW dragged \in S, NEW rest, rest = RemoveFirst(s, dragged),
           \E k \in 1 .. Len(s) : s[k] = dragged,
           NEW i \in 1 .. Len(s), NEW new, new = InsertAt(rest, i, dragged)
    PROVE  Len(new) \in Nat /\ \A k \in DOMAIN new : new[k] \in S
<1>1. IsSeq(s)
  BY DEF Distinct, IsSeq
<1>2. PICK n \in Nat : n = Len(s)
  BY DEF Distinct
<1>3. PICK p \in 1 .. n : s[p] = dragged
  BY <1>2
<1>4. /\ IsSeq(rest) /\ Len(rest) = n - 1
      /\ \A k \in 1 .. n - 1 : rest[k] = IF k < p THEN s[k] ELSE s[k + 1]
  <2>1. SelectInSeq(s, LAMBDA v : v = dragged) = p
    <3>1. Place(s, s[p]) = p
      BY <1>2, PlaceOf
    <3> QED BY <1>3, <3>1 DEF Place
  <2>2. rest = RemoveAt(s, p)
    BY <1>2, <1>3, <2>1 DEF RemoveFirst
  <2> QED BY <1>1, <1>2, <2>2, Removed
<1>5. /\ IsSeq(new) /\ Len(new) = n
      /\ \A k \in 1 .. n : new[k] = IF k < i THEN rest[k] ELSE IF k = i THEN dragged ELSE rest[k - 1]
  <2>1. Len(rest) + 1 = n /\ i \in 1 .. Len(rest) + 1
    BY <1>2, <1>4
  <2>2. /\ IsSeq(new) /\ Len(new) = Len(rest) + 1
        /\ \A k \in 1 .. Len(rest) + 1 :
              new[k] = IF k < i THEN rest[k] ELSE IF k = i THEN dragged ELSE rest[k - 1]
    BY <1>4, <2>1, Inserted
  <2> QED BY <2>1, <2>2
<1>6. \A k \in 1 .. n - 1 : rest[k] \in S
  BY <1>2, <1>4
<1>7. ASSUME NEW k \in 1 .. n PROVE new[k] \in S
  BY <1>2, <1>5, <1>6
<1>8. DOMAIN new = 1 .. n
  BY <1>5 DEF IsSeq
<1> QED BY <1>2, <1>5, <1>7, <1>8

LEMMA SavesButton ==
    ASSUME Numbered, IInv, NEW w \in Windows, SaveButton(w) PROVE IInv'
<1>1. /\ DOMAIN view' = Windows
      /\ \A v \in Windows : Buttons(view'[v]) /\ UpTo(view'[v], clock)
                            /\ DOMAIN view'[v] = DOMAIN view[v]
  BY DEF SaveButton, IInv, Kept
<1>2. ASSUME NEW id \in ButtonIds, NEW g \in Groups, NEW order \in {Proposed(view[w]), 0}, Fresh(id),
             Calling(w, [w |-> w, op |-> "save", id |-> id, edit |-> FALSE,
                         button |-> [group |-> g, order |-> order, mtime |-> 0]])
      PROVE  IInv'
  <2>1. PICK c : c = [w |-> w, op |-> "save", id |-> id, edit |-> FALSE,
                      button |-> [group |-> g, order |-> order, mtime |-> 0]]
    OBVIOUS
  <2>2. order \in Int
    BY <1>2, ProposedOrder DEF IInv, Kept
  <2>3. IsCall(c) /\ IsNew(c) /\ c.w = w /\ c.op = "save"
    BY <2>1, <2>2 DEF IsCall, IsNew, Button, IInv, Kept
  <2>4. Fresh(c.id) /\ c.button.mtime = 0 /\ Calling(w, c)
    BY <1>2, <2>1
  <2> QED BY <1>1, <2>3, <2>4, Called
<1>3. ASSUME NEW id \in DOMAIN view[w], NEW g \in Groups, NEW mtime \in {view[w][id].mtime, 0},
             Calling(w, [w |-> w, op |-> "save", id |-> id, edit |-> TRUE,
                         button |-> [view[w][id] EXCEPT !.group = g, !.mtime = mtime]])
      PROVE  IInv'
  <2>1. PICK c : c = [w |-> w, op |-> "save", id |-> id, edit |-> TRUE,
                      button |-> [view[w][id] EXCEPT !.group = g, !.mtime = mtime]]
    OBVIOUS
  <2>2. view[w][id] \in Button /\ view[w][id].mtime <= clock /\ id \in ButtonIds /\ clock \in Nat
    BY DEF IInv, Kept, Buttons, UpTo
  <2>3. mtime \in Nat /\ mtime <= clock
    BY <1>3, <2>2 DEF Button
  <2>4. IsCall(c) /\ ~ IsNew(c) /\ c.w = w /\ c.op = "save" /\ c.id = id
    BY <2>1, <2>2, <2>3 DEF IsCall, IsNew, Button
  <2>5. \A j : Mentions(c, j) => j \in DOMAIN view[w]
    BY <2>4 DEF Mentions
  <2>6. Calling(w, c)
    BY <1>3, <2>1
  <2> QED BY <1>1, <2>4, <2>5, <2>6, Called
<1> QED BY <1>2, <1>3 DEF SaveButton

LEMMA DeletesButton ==
    ASSUME IInv, NEW w \in Windows, DeleteButton(w) PROVE IInv'
<1>1. /\ DOMAIN view' = Windows
      /\ \A v \in Windows : Buttons(view'[v]) /\ UpTo(view'[v], clock)
                            /\ DOMAIN view'[v] = DOMAIN view[v]
  BY DEF DeleteButton, IInv, Kept
<1>2. PICK id \in DOMAIN view[w] : Calling(w, [w |-> w, op |-> "delete", id |-> id])
  BY DEF DeleteButton
<1>3. PICK c : c = [w |-> w, op |-> "delete", id |-> id]
  OBVIOUS
<1>4. IsCall(c) /\ ~ IsNew(c) /\ c.w = w /\ c.op = "delete" /\ c.id = id
  BY <1>3 DEF IsCall, IsNew
<1>5. \A j : Mentions(c, j) => j \in DOMAIN view[w]
  BY <1>4 DEF Mentions
<1>6. Calling(w, c)
  BY <1>2, <1>3
<1> QED BY <1>1, <1>4, <1>5, <1>6, Called

LEMMA MovesButton ==
    ASSUME IInv, NEW w \in Windows, MoveButton(w) PROVE IInv'
<1>1. /\ DOMAIN view' = Windows
      /\ \A v \in Windows : Buttons(view'[v]) /\ UpTo(view'[v], clock)
                            /\ DOMAIN view'[v] = DOMAIN view[v]
  BY DEF MoveButton, IInv, Kept
<1>2. PICK id \in DOMAIN view[w], direction \in {-1, 1} :
          Calling(w, [w |-> w, op |-> "move", id |-> id, direction |-> direction])
  BY DEF MoveButton
<1>3. PICK c : c = [w |-> w, op |-> "move", id |-> id, direction |-> direction]
  OBVIOUS
<1>4. IsCall(c) /\ ~ IsNew(c) /\ c.w = w /\ c.op = "move" /\ c.id = id
  BY <1>3 DEF IsCall, IsNew
<1>5. \A j : Mentions(c, j) => j \in DOMAIN view[w]
  BY <1>4 DEF Mentions
<1>6. Calling(w, c)
  BY <1>2, <1>3
<1> QED BY <1>1, <1>4, <1>5, <1>6, Called

Sent(list, g, dragged, target, after) ==
    LET rest == RemoveFirst(Shown(list, g), dragged)
        k == Place(rest, target)
    IN Renumbered(list, InsertAt(rest, IF after THEN k + 1 ELSE k, dragged))

LEMMA ReordersButtons ==
    ASSUME Numbered, IInv, NEW w \in Windows, ReorderButtons(w) PROVE IInv'
<1>1. PICK list : list = view[w] /\ Buttons(list) /\ UpTo(list, clock) /\ Ordered(list)
  BY OrderedButtons DEF IInv, Kept
<1>2. PICK g \in Groups : \E dragged, target \in InGroup(view[w], g), after \in BOOLEAN :
         /\ dragged # target
         /\ Calling(w, [w |-> w, op |-> "reorder",
                        list |-> Sent(view[w], g, dragged, target, after)])
         /\ view' = [view EXCEPT ![w] = Forced(@, Sent(view[w], g, dragged, target, after))]
  BY Zenon DEF ReorderButtons, Sent
<1>3. PICK S : S = InGroup(list, g) /\ S \in SUBSET (DOMAIN list)
  BY DEF InGroup
<1>4. PICK seq : seq = Shown(list, g) /\ Lists(list, S, seq) /\ Distinct(seq)
  BY <1>1, <1>3, SortedLists, ListsDistinct DEF Shown
<1>5. PICK dragged \in S, target \in S, after \in BOOLEAN :
         /\ dragged # target
         /\ Calling(w, [w |-> w, op |-> "reorder",
                        list |-> Sent(list, g, dragged, target, after)])
         /\ view' = [view EXCEPT ![w] = Forced(@, Sent(list, g, dragged, target, after))]
  BY <1>1, <1>2, <1>3
<1>6. PICK rest, k, i, into, new :
         /\ rest = RemoveFirst(seq, dragged) /\ k = Place(rest, target)
         /\ i = (IF after THEN k + 1 ELSE k) /\ into = InsertAt(rest, i, dragged)
         /\ new = Renumbered(list, into) /\ new = Sent(list, g, dragged, target, after)
  BY <1>4 DEF Sent
<1>7. i \in 1 .. Len(seq)
  <2>1. PICK n \in Nat : n = Len(seq)
    BY <1>4 DEF Distinct
  <2>2. PICK p \in 1 .. n, q \in 1 .. n : seq[p] = dragged /\ seq[q] = target /\ p # q
    BY <1>4, <1>5, <2>1 DEF Lists
  <2>3. SelectInSeq(seq, LAMBDA v : v = dragged) = p
    <3>1. Place(seq, seq[p]) = p
      BY <1>4, <2>1, PlaceOf
    <3> QED BY <2>2, <3>1 DEF Place
  <2>4. rest = RemoveAt(seq, p)
    BY <1>6, <2>1, <2>2, <2>3 DEF RemoveFirst
  <2>5. /\ IsSeq(rest) /\ Len(rest) = n - 1
        /\ \A j \in 1 .. n - 1 : rest[j] = IF j < p THEN seq[j] ELSE seq[j + 1]
    <3>1. IsSeq(seq)
      BY <1>4 DEF Distinct, IsSeq
    <3> QED BY <2>1, <2>4, <3>1, Removed
  <2>6. k \in 1 .. n - 1
    <3> DEFINE I == {j \in 1 .. Len(rest) : rest[j] = target}
    <3>1. I # {}
      <4>1. PICK j \in 1 .. n - 1 : j = IF q < p THEN q ELSE q - 1
        BY <2>1, <2>2
      <4>2. rest[j] = target
        BY <2>1, <2>2, <2>5, <4>1
      <4> QED BY <2>5, <4>2
    <3>2. k = Min(I)
      BY <1>6, <3>1 DEF Place, SelectInSeq
    <3>3. I \in SUBSET Nat
      BY <2>5
    <3>4. Min(I) \in I
      <4>1. \E a \in I : \A b \in I : a <= b
        BY <3>1, <3>3, LeastIn
      <4> HIDE DEF I
      <4> QED BY <4>1 DEF Min
    <3> QED BY <2>5, <3>2, <3>4
  <2> QED BY <1>6, <2>1, <2>6
<1>8. Len(into) \in Nat /\ \A j \in DOMAIN into : into[j] \in S
  <2>1. \E j \in 1 .. Len(seq) : seq[j] = dragged
    BY <1>4, <1>5 DEF Lists
  <2>2. \A j \in 1 .. Len(seq) : seq[j] \in S
    BY <1>4 DEF Lists
  <2> QED BY <1>4, <1>6, <1>7, <2>1, <2>2, RenumberedIds
<1>9. DOMAIN new = ToSet(into) /\ ToSet(into) \in SUBSET (DOMAIN list)
  <2>1. ToSet(into) \in SUBSET S
    BY <1>8 DEF ToSet
  <2>2. DOMAIN new = ToSet(into)
    BY <1>6 DEF Renumbered
  <2> QED BY <1>3, <2>1, <2>2
<1>10. ASSUME NEW j \in DOMAIN new PROVE new[j] \in Button /\ new[j].mtime = clock
  <2>1. list[j] \in Button /\ Place(into, j) \in Nat /\ clock \in Nat
    BY <1>1, <1>8, <1>9, PlaceNat DEF Buttons, IInv, Kept
  <2>2. PICK b, o : b = list[j] /\ o = 10 * Place(into, j)
    OBVIOUS
  <2>3. new[j] = [b EXCEPT !.order = o, !.mtime = clock]
    BY <1>6, <1>9, <2>2 DEF Renumbered
  <2>4. b \in Button /\ o \in Int
    BY <2>1, <2>2
  <2> QED BY <2>1, <2>3, <2>4 DEF Button
<1>11. Buttons(new) /\ UpTo(new, clock)
  <2>1. IsFiniteSet(DOMAIN new) /\ DOMAIN new \in SUBSET ButtonIds
    BY <1>1, <1>9, FS_Subset DEF Buttons
  <2>2. clock \in Nat
    BY DEF IInv, Kept
  <2> QED BY <1>10, <2>1, <2>2 DEF Buttons, UpTo
<1>12. PICK shown : shown = Forced(list, new)
  OBVIOUS
<1>13. Buttons(shown) /\ UpTo(shown, clock) /\ DOMAIN shown = DOMAIN list
  BY <1>1, <1>9, <1>11, <1>12 DEF Forced, Buttons, UpTo
<1>14. PICK c : c = [w |-> w, op |-> "reorder", list |-> new]
  OBVIOUS
<1>15. Calling(w, c) /\ view' = [view EXCEPT ![w] = shown]
  BY <1>1, <1>5, <1>6, <1>12, <1>14
<1>16. /\ DOMAIN view' = Windows
       /\ \A v \in Windows : Buttons(view'[v]) /\ UpTo(view'[v], clock)
                             /\ DOMAIN view'[v] = DOMAIN view[v]
  BY <1>1, <1>13, <1>15 DEF IInv, Kept
<1>17. IsCall(c) /\ ~ IsNew(c) /\ c.w = w /\ c.op = "reorder"
       /\ \A j \in DOMAIN c.list : c.list[j].mtime = clock
  BY <1>10, <1>11, <1>14 DEF IsCall, IsNew
<1>18. \A j : Mentions(c, j) => j \in DOMAIN view[w]
  BY <1>1, <1>9, <1>14 DEF Mentions
<1> QED BY <1>15, <1>16, <1>17, <1>18, Called

LEMMA MovedOrdered ==
    ASSUME NEW list, Ordered(list), \A i \in DOMAIN list : list[i] \in Button,
           NEW id \in DOMAIN list, NEW direction \in {-1, 1}, NEW now \in Nat
    PROVE  Ordered(Moved(list, id, direction, now))
<1>1. PICK old, k, n : /\ old = Shown(list, list[id].group) /\ k = Place(old, id)
                       /\ n = k + direction
  OBVIOUS
<1>2. k \in 1 .. Len(old) /\ old[k] = id
  BY <1>1, PlaceIn
<1>3. Len(old) \in Nat /\ DOMAIN old = 1 .. Len(old)
  <2>1. InGroup(list, list[id].group) \in SUBSET (DOMAIN list)
    BY DEF InGroup
  <2>2. Lists(list, InGroup(list, list[id].group), old)
    BY <1>1, <2>1, SortedLists DEF Shown
  <2> QED BY <2>2 DEF Lists
<1>4. CASE n \in 1 .. Len(old)
  BY <1>1, <1>2, <1>4, MovedBeside
<1>5. CASE n \notin 1 .. Len(old)
  BY <1>1, <1>3, <1>5 DEF Moved
<1> QED BY <1>4, <1>5

-----------------------------------------------------------------------------
(* Steps of the requests.                                                  *)

\* What UpsertButton writes, of a button that the list has or has not.
IsUpserted(list, new, id, b, now) ==
    /\ DOMAIN new = DOMAIN list \cup {id}
    /\ \A i \in DOMAIN list \ {id} : new[i] = list[i]
    /\ new[id] \in Button /\ new[id].mtime <= now /\ new[id].group = b.group
    /\ id \notin DOMAIN list /\ b.order = 0 => new[id].order = MaxOrder(list) + 10
    /\ b.order # 0 => new[id].order = b.order
    /\ b.mtime = 0 => new[id].mtime = now

LEMMA UpsertedButton ==
    ASSUME NEW list, Ordered(list), NEW id, NEW b \in Button, NEW now \in Nat, b.mtime <= now
    PROVE  IsUpserted(list, Upserted(list, id, b, now), id, b, now)
<1>0. PICK new : new = Upserted(list, id, b, now)
  OBVIOUS
<1>1. PICK time, order :
         /\ time = (IF b.mtime = 0 THEN now ELSE b.mtime)
         /\ order = (IF b.order = 0 /\ id \notin DOMAIN list THEN MaxOrder(list) + 10 ELSE b.order)
  OBVIOUS
<1>2. PICK put : put = [b EXCEPT !.mtime = time, !.order = order]
  OBVIOUS
<1>3. new = Put(list, id, put)
  BY <1>0, <1>1, <1>2 DEF Upserted
<1>4. time \in Nat /\ time <= now /\ order \in Int
  BY <1>1, GreatestOrder DEF Button
<1>5. put \in Button /\ put.mtime = time /\ put.order = order /\ put.group = b.group
  BY <1>2, <1>4 DEF Button
<1>6. DOMAIN new = DOMAIN list \cup {id} /\ new[id] = put
      /\ \A i \in DOMAIN list \ {id} : new[i] = list[i]
  BY <1>3 DEF Put
<1> QED BY <1>0, <1>1, <1>4, <1>5, <1>6 DEF IsUpserted

LEMMA DoneButtons ==
    ASSUME Numbered, IInv, NEW c \in calls, c.op # "get"
    PROVE  /\ Buttons(Done(c)) /\ UpTo(Done(c), clock)
           /\ \A i \in DOMAIN Done(c) : i \in DOMAIN server \/ Mentions(c, i)
<1>1. Buttons(server) /\ UpTo(server, clock - 1) /\ clock \in Nat \ {0} /\ IsCall(c)
      /\ Ordered(server)
  BY OrderedButtons DEF IInv, Kept
<1>2. \A i \in DOMAIN server : server[i] \in Button /\ server[i].mtime < clock
  BY <1>1 DEF Buttons, UpTo, Button
<1>3. Buttons(server) /\ UpTo(server, clock)
  BY <1>1, <1>2 DEF UpTo, Button
<1>4. CASE c.op = "save"
  <2>1. PICK new : new = Upserted(server, c.id, c.button, clock) /\ Done(c) = new
    BY <1>4 DEF Done
  <2>2. c.button \in Button /\ c.button.mtime <= clock /\ c.id \in ButtonIds
    BY <1>1, <1>4 DEF IsCall
  <2>3. /\ DOMAIN new = DOMAIN server \cup {c.id}
        /\ \A i \in DOMAIN server \ {c.id} : new[i] = server[i]
        /\ new[c.id] \in Button /\ new[c.id].mtime <= clock
    <3>1. PICK id, b : id = c.id /\ b = c.button
      OBVIOUS
    <3>2. new = Upserted(server, id, b, clock) /\ b \in Button /\ b.mtime <= clock /\ clock \in Nat
      BY <1>1, <2>1, <2>2, <3>1
    <3>3. /\ DOMAIN new = DOMAIN server \cup {id}
          /\ \A i \in DOMAIN server \ {id} : new[i] = server[i]
          /\ new[id] \in Button /\ new[id].mtime <= clock
      <4>1. Ordered(server)
        BY <1>1
      <4>2. IsUpserted(server, new, id, b, clock)
        BY <3>2, <4>1, UpsertedButton
      <4> QED BY <4>2 DEF IsUpserted
    <3> QED BY <3>1, <3>3
  <2>4. IsFiniteSet(DOMAIN server \cup {c.id})
    BY <1>1, FS_AddElement DEF Buttons
  <2>5. \A i \in DOMAIN new : new[i] \in Button /\ new[i].mtime <= clock
    BY <1>3, <2>3 DEF Buttons, UpTo
  <2>6. Mentions(c, c.id)
    BY <1>4 DEF Mentions
  <2> QED BY <1>1, <2>1, <2>2, <2>3, <2>4, <2>5, <2>6 DEF Buttons, UpTo
<1>5. CASE c.op = "delete"
  <2>1. Done(c) = Without(server, c.id)
    BY <1>5 DEF Done
  <2>2. IsFiniteSet(DOMAIN server \ {c.id})
    BY <1>1, FS_Subset DEF Buttons
  <2> QED BY <1>3, <2>1, <2>2 DEF Without, Buttons, UpTo
<1>6. CASE c.op = "move"
  <2>1. CASE c.id \notin DOMAIN server
    BY <1>3, <1>6, <2>1 DEF Done
  <2>2. CASE c.id \in DOMAIN server
    <3>1. PICK new : new = Moved(server, c.id, c.direction, clock) /\ Done(c) = new
      BY <1>6, <2>2 DEF Done
    <3>2. c.direction \in {-1, 1}
      BY <1>1, <1>6 DEF IsCall
    <3>3. /\ DOMAIN new = DOMAIN server
          /\ \A i \in DOMAIN server : new[i].group = server[i].group
          /\ \A i \in DOMAIN server : new[i] = server[i] \/ new[i].mtime = clock
          /\ \A i \in DOMAIN server : IsButton(new[i])
      BY <1>2, <2>2, <3>1, MovedOnly
    <3>4. Ordered(new)
      BY <1>1, <1>2, <2>2, <3>1, <3>2, MovedOrdered
    <3>5. ASSUME NEW i \in DOMAIN server PROVE new[i] \in Button /\ new[i].mtime <= clock
      <4>1. new[i].group \in Groups /\ new[i].order \in Int
        BY <1>2, <3>3, <3>4 DEF Ordered, Button
      <4>2. new[i].mtime \in Nat /\ new[i].mtime <= clock
        BY <1>1, <1>2, <3>3 DEF Button
      <4>3. new[i] = [group |-> new[i].group, order |-> new[i].order, mtime |-> new[i].mtime]
        BY <3>3 DEF IsButton
      <4> QED BY <4>1, <4>2, <4>3 DEF Button
    <3> QED BY <1>1, <3>1, <3>3, <3>5 DEF Buttons, UpTo
  <2> QED BY <2>1, <2>2
<1>7. CASE c.op = "reorder"
  <2>1. Buttons(c.list) /\ UpTo(c.list, clock)
    BY <1>1, <1>7 DEF IsCall
  <2>2. PICK sent : sent = c.list
    OBVIOUS
  <2>3. Done(c) = Forced(server, sent)
    BY <1>7, <2>2 DEF Done
  <2>4. IsFiniteSet(DOMAIN server \cup DOMAIN sent)
    BY <1>1, <2>1, <2>2, FS_Union DEF Buttons
  <2>5. \A i \in DOMAIN server \cup DOMAIN sent :
           Forced(server, sent)[i] \in Button /\ Forced(server, sent)[i].mtime <= clock
    BY <1>3, <2>1, <2>2 DEF Forced, Buttons, UpTo
  <2>6. DOMAIN Forced(server, sent) = DOMAIN server \cup DOMAIN sent
    BY DEF Forced
  <2>7. Buttons(Forced(server, sent)) /\ UpTo(Forced(server, sent), clock)
    BY <1>1, <2>1, <2>2, <2>4, <2>5, <2>6 DEF Buttons, UpTo
  <2> QED BY <1>7, <2>2, <2>3, <2>6, <2>7 DEF Mentions
<1> QED BY <1>1, <1>4, <1>5, <1>6, <1>7 DEF IsCall

LEMMA Handles ==
    ASSUME Numbered, IInv, NEW c \in calls, Handled(c) PROVE IInv'
<1>1. PICK get : get = [w |-> c.w, op |-> "get"]
  OBVIOUS
<1>2. /\ c.op # "get" /\ server' = Done(c) /\ clock' = clock + 1 /\ skewed' = Others(c.w)
      /\ calls' \in SUBSET ((calls \ {c}) \cup {get}) /\ view' = view
  BY <1>1 DEF Handled
<1>3. get.w = c.w /\ get.op = "get" /\ c.w \in Windows /\ clock \in Nat \ {0}
  BY <1>1 DEF IInv, Kept, IsCall
<1>4. /\ Buttons(server') /\ UpTo(server', clock)
      /\ \A i \in DOMAIN server' : i \in DOMAIN server \/ Mentions(c, i)
  BY <1>2, DoneButtons
<1>5. \A b \in Button : b.mtime \in Nat
  BY DEF Button
<1>6. ASSUME NEW list, Buttons(list), UpTo(list, clock) PROVE UpTo(list, clock')
  BY <1>2, <1>3, <1>5, <1>6 DEF Buttons, UpTo
<1>7. Kept'
  <2>1. ASSUME NEW d \in calls' PROVE IsCall(d)'
    <3>1. CASE d = get
      BY <1>3, <3>1 DEF IsCall
    <3>2. CASE d # get
      <4>1. IsCall(d)
        BY <1>2, <3>2 DEF IInv, Kept
      <4>2. d.op = "reorder" => UpTo(d.list, clock')
        BY <1>6, <4>1 DEF IsCall
      <4>3. d.op = "save" => d.button.mtime <= clock'
        BY <1>2, <1>3, <1>5, <4>1 DEF IsCall
      <4>4. d.op = "reorder" => UpTo(d.list, clock)'
        BY <4>2 DEF UpTo
      <4> QED BY <4>1, <4>3, <4>4 DEF IsCall, Buttons
    <3> QED BY <3>1, <3>2
  <2>2. clock' \in Nat \ {0} /\ clock' - 1 = clock
    BY <1>2, <1>3
  <2>3. skewed' \in [Windows -> BOOLEAN]
    BY <1>2 DEF Others, IInv, Kept
  <2>4. Buttons(server)' /\ UpTo(server, clock - 1)'
    BY <1>4, <2>2 DEF Buttons, UpTo
  <2>5. ASSUME NEW w \in Windows PROVE (Buttons(view[w]) /\ UpTo(view[w], clock))'
    <3>1. Buttons(view[w]) /\ UpTo(view[w], clock) /\ view' = view
      BY <1>2 DEF IInv, Kept
    <3>2. UpTo(view[w], clock')
      BY <1>6, <3>1
    <3> QED BY <3>1, <3>2 DEF Buttons, UpTo
  <2>6. DOMAIN view' = Windows
    BY <1>2 DEF IInv, Kept
  <2> QED BY <2>1, <2>2, <2>3, <2>4, <2>5, <2>6 DEF Kept
<1>8. NewUnseen'
  <2> SUFFICES ASSUME NEW d \in calls', IsNew(d)
               PROVE  /\ d.button.mtime = 0
                      /\ d.id \notin DOMAIN server'
                      /\ \A v \in Windows : d.id \notin DOMAIN view[v]
                      /\ \A e \in calls' : e # d => ~ Mentions(e, d.id)
    BY <1>2 DEF NewUnseen, IsNew, Mentions
  <2>1. d \in calls /\ d # c
    BY <1>2, <1>3 DEF IsNew
  <2>2. /\ d.button.mtime = 0
        /\ d.id \notin DOMAIN server
        /\ \A v \in Windows : d.id \notin DOMAIN view[v]
        /\ \A e \in calls : e # d => ~ Mentions(e, d.id)
    BY <2>1 DEF IInv, NewUnseen
  <2>3. ~ Mentions(get, d.id)
    BY <1>3 DEF Mentions
  <2> QED BY <1>2, <1>4, <2>1, <2>2, <2>3
<1>9. OneAtATime'
  <2> SUFFICES ASSUME NEW d \in calls', NEW e \in calls', d # e, d.w = e.w, e # get
               PROVE  skewed'[d.w]
    BY DEF OneAtATime
  <2>1. e \in calls /\ e # c /\ e.w \in Windows
    BY <1>2 DEF IInv, Kept, IsCall
  <2>2. skewed[d.w] \/ d.w # c.w
    <3>1. CASE d = get
      BY <1>3, <2>1, <3>1 DEF IInv, OneAtATime
    <3>2. CASE d # get
      BY <1>2, <2>1, <3>2 DEF IInv, OneAtATime
    <3> QED BY <3>1, <3>2
  <2> QED BY <1>2, <2>1, <2>2 DEF Others
<1>10. OnTime'
  <2> SUFFICES ASSUME NEW d \in calls', d.op = "reorder", ~ skewed'[d.w], NEW i \in DOMAIN d.list
               PROVE  FALSE
    BY DEF OnTime
  <2>1. d \in calls /\ d # c /\ d.w \in Windows
    BY <1>2, <1>3 DEF IInv, Kept, IsCall
  <2>2. ~ skewed[d.w] /\ d.w = c.w
    BY <1>2, <2>1 DEF Others
  <2> QED BY <2>1, <2>2 DEF IInv, OneAtATime
<1> QED BY <1>7, <1>8, <1>9, <1>10 DEF IInv

LEMMA Fails ==
    ASSUME IInv, NEW c \in calls, Failed(c) PROVE IInv'
<1>1. /\ calls' = calls \ {c} /\ skewed' = [skewed EXCEPT ![c.w] = TRUE]
      /\ server' = server /\ view' = view /\ clock' = clock
  BY DEF Failed
<1>2. \A w \in Windows : skewed[w] => skewed'[w]
  BY <1>1 DEF IInv, Kept
<1>3. \A d \in calls' : d \in calls /\ d.w \in Windows
  BY <1>1 DEF IInv, Kept, IsCall
<1>4. Kept'
  BY <1>1, <1>3 DEF IInv, Kept, IsCall, Buttons, UpTo
<1>5. NewUnseen'
  BY <1>1, <1>3 DEF IInv, NewUnseen, IsNew, Mentions
<1>6. OneAtATime'
  BY <1>1, <1>2, <1>3 DEF IInv, OneAtATime
<1>7. OnTime'
  BY <1>1, <1>2, <1>3 DEF IInv, OnTime
<1> QED BY <1>4, <1>5, <1>6, <1>7 DEF IInv

LEMMA Gets ==
    ASSUME IInv, NEW c \in calls, Got(c) PROVE IInv'
<1>1. /\ calls' \in SUBSET calls /\ view' = [view EXCEPT ![c.w] = server]
      /\ server' = server /\ skewed' = skewed /\ clock' = clock
  BY DEF Got
<1>2. Buttons(server) /\ UpTo(server, clock)
  <2>1. \A i \in DOMAIN server : server[i].mtime \in Nat
    BY DEF IInv, Kept, Buttons, Button
  <2> QED BY <2>1 DEF IInv, Kept, UpTo
<1>3. Kept'
  <2>1. \A d \in calls' : IsCall(d)'
    BY <1>1 DEF IInv, Kept, IsCall, Buttons, UpTo
  <2>2. DOMAIN view' = Windows /\ \A w \in Windows : (Buttons(view[w]) /\ UpTo(view[w], clock))'
    BY <1>1, <1>2 DEF IInv, Kept, Buttons, UpTo
  <2>3. Buttons(server)' /\ UpTo(server, clock - 1)' /\ clock' \in Nat \ {0}
        /\ skewed' \in [Windows -> BOOLEAN]
    BY <1>1 DEF IInv, Kept, Buttons, UpTo
  <2> QED BY <2>1, <2>2, <2>3 DEF Kept
<1>4. NewUnseen'
  BY <1>1 DEF IInv, Kept, NewUnseen, IsNew, Mentions
<1>5. OneAtATime' /\ OnTime'
  BY <1>1 DEF IInv, OneAtATime, OnTime
<1> QED BY <1>3, <1>4, <1>5 DEF IInv

LEMMA Refreshes ==
    ASSUME IInv, NEW w \in Windows, RefreshData(w) PROVE IInv'
<1>1. /\ calls' = calls /\ view' = [view EXCEPT ![w] = server]
      /\ \A c \in calls : c.w = w => c.op = "save"
      /\ server' = server /\ clock' = clock
      /\ skewed' = [skewed EXCEPT ![w] = @ /\ \E c \in calls : c.w = w]
  BY DEF RefreshData
<1>2. Buttons(server) /\ UpTo(server, clock)
  <2>1. \A i \in DOMAIN server : server[i].mtime \in Nat
    BY DEF IInv, Kept, Buttons, Button
  <2> QED BY <2>1 DEF IInv, Kept, UpTo
<1>3. Kept'
  <2>1. \A d \in calls' : IsCall(d)'
    BY <1>1 DEF IInv, Kept, IsCall, Buttons, UpTo
  <2>2. DOMAIN view' = Windows /\ \A v \in Windows : (Buttons(view[v]) /\ UpTo(view[v], clock))'
    BY <1>1, <1>2 DEF IInv, Kept, Buttons, UpTo
  <2>3. Buttons(server)' /\ UpTo(server, clock - 1)' /\ clock' \in Nat \ {0}
        /\ skewed' \in [Windows -> BOOLEAN]
    BY <1>1 DEF IInv, Kept, Buttons, UpTo
  <2> QED BY <2>1, <2>2, <2>3 DEF Kept
<1>4. NewUnseen'
  BY <1>1 DEF IInv, Kept, NewUnseen, IsNew, Mentions
<1>5. OneAtATime' /\ OnTime'
  <2>1. \A c \in calls : c.w \in Windows /\ skewed'[c.w] = skewed[c.w]
    BY <1>1 DEF IInv, Kept, IsCall
  <2> QED BY <1>1, <2>1 DEF IInv, OneAtATime, OnTime
<1> QED BY <1>3, <1>4, <1>5 DEF IInv

LEMMA ButtonsNext ==
    ASSUME Numbered, IInv, [Next]_vars PROVE IInv'
<1>1. CASE UNCHANGED vars
  <2>1. IInv' <=> IInv
    BY <1>1 DEF vars, IInv, Kept, NewUnseen, OneAtATime, OnTime, IsCall, Buttons, UpTo, IsNew, Mentions
  <2> QED BY <2>1
<1>2. CASE Next
  BY <1>2, SavesButton, DeletesButton, MovesButton, ReordersButtons, Refreshes, Handles, Fails,
     Gets DEF Next
<1> QED BY <1>1, <1>2

-----------------------------------------------------------------------------
(* What a window that is not behind shows.                                 *)

\* Of a window that is not skewed: with no call under way it shows the server's
\* list, and while one is, the list has changed as its reordering will change it;
\* a new button it creates has an order beyond the list, or none.
Beyond(c) == c.button.order = 0 \/ \A i \in DOMAIN server : server[i].order < c.button.order
Shows(w) ==
    /\ (\A c \in calls : c.w # w) => view[w] = server
    /\ \A c \in calls : c.w = w => /\ c.op = "reorder" => view[w] = Forced(server, c.list)
                                   /\ IsNew(c) => Beyond(c)
AllShow == \A w \in Windows : skewed[w] \/ Shows(w)

\* A new call of a window that had none; view is as it was but for a reordering.
LEMMA CalledShows ==
    ASSUME IInv, AllShow, NEW w \in Windows, NEW c, c.w = w, Calling(w, c),
           \A v \in Windows \ {w} : view'[v] = view[v],
           IF c.op = "reorder" THEN view'[w] = Forced(view[w], c.list) ELSE view'[w] = view[w],
           IsNew(c) => c.button.order = 0 \/ \A i \in DOMAIN view[w] : view[w][i].order < c.button.order
    PROVE  AllShow'
<1>1. /\ calls' = calls \cup {c} /\ server' = server
      /\ skewed' = [skewed EXCEPT ![w] = @ \/ \E d \in calls : d.w = w]
  BY DEF Calling
<1>2. ASSUME NEW v \in Windows, ~ skewed'[v] PROVE Shows(v)'
  <2>1. CASE v # w
    <3>1. Shows(v) /\ view'[v] = view[v]
      BY <1>1, <1>2, <2>1 DEF AllShow, IInv, Kept
    <3> QED BY <1>1, <2>1, <3>1 DEF Shows, Beyond, IsNew, Forced
  <2>2. CASE v = w
    <3>1. ~ skewed[w] /\ \A d \in calls : d.w # w
      BY <1>1, <1>2, <2>2 DEF IInv, Kept
    <3>2. view[w] = server
      BY <3>1 DEF AllShow, Shows
    <3> QED BY <1>1, <2>2, <3>1, <3>2 DEF Shows, Beyond, IsNew, Forced
  <2> QED BY <2>1, <2>2
<1> QED BY <1>2 DEF AllShow

LEMMA ShowsNext ==
    ASSUME Numbered, IInv, AllShow, [Next]_vars PROVE AllShow'
<1>0. DOMAIN view = Windows /\ skewed \in [Windows -> BOOLEAN] /\ \A c \in calls : c.w \in Windows
  BY DEF IInv, Kept, IsCall
<1>1. CASE UNCHANGED vars
  BY <1>1 DEF vars, AllShow, Shows, Beyond, IsNew, Forced
<1>2. ASSUME NEW w \in Windows, SaveButton(w) PROVE AllShow'
  <2>1. PICK c : /\ c.w = w /\ c.op = "save" /\ Calling(w, c) /\ view' = view
                 /\ IsNew(c) => c.button.order \in {Proposed(view[w]), 0}
    <3>1. CASE \E id \in DOMAIN view[w], g \in Groups : \E mtime \in {view[w][id].mtime, 0} :
                  Calling(w, [w |-> w, op |-> "save", id |-> id, edit |-> TRUE,
                              button |-> [view[w][id] EXCEPT !.group = g, !.mtime = mtime]])
      <4>1. PICK id, button :
              Calling(w, [w |-> w, op |-> "save", id |-> id, edit |-> TRUE, button |-> button])
        BY <3>1
      <4>2. PICK c : c = [w |-> w, op |-> "save", id |-> id, edit |-> TRUE, button |-> button]
        OBVIOUS
      <4>3. c.w = w /\ c.op = "save" /\ ~ IsNew(c)
        BY <4>2 DEF IsNew
      <4>4. Calling(w, c) /\ view' = view
        BY <1>2, <4>1, <4>2 DEF SaveButton
      <4> QED BY <4>3, <4>4
    <3>2. CASE \E id \in ButtonIds, g \in Groups, order \in {Proposed(view[w]), 0} :
                  Calling(w, [w |-> w, op |-> "save", id |-> id, edit |-> FALSE,
                              button |-> [group |-> g, order |-> order, mtime |-> 0]])
      <4>1. PICK id \in ButtonIds, g \in Groups, order \in {Proposed(view[w]), 0} :
                  Calling(w, [w |-> w, op |-> "save", id |-> id, edit |-> FALSE,
                              button |-> [group |-> g, order |-> order, mtime |-> 0]])
        BY <3>2
      <4>2. PICK c : c = [w |-> w, op |-> "save", id |-> id, edit |-> FALSE,
                          button |-> [group |-> g, order |-> order, mtime |-> 0]]
        OBVIOUS
      <4>3. c.w = w /\ c.op = "save" /\ c.button.order = order
        BY <4>2
      <4>4. Calling(w, c) /\ view' = view
        BY <1>2, <4>1, <4>2 DEF SaveButton
      <4> QED BY <4>3, <4>4
    <3> QED BY <1>2, <3>1, <3>2 DEF SaveButton
  <2>2. \A i \in DOMAIN view[w] : view[w][i].order < Proposed(view[w])
    BY ProposedOrder DEF IInv, Kept
  <2> QED BY <2>1, <2>2, CalledShows
<1>3. ASSUME NEW w \in Windows, DeleteButton(w) \/ MoveButton(w) PROVE AllShow'
  <2>1. PICK c : c.w = w /\ c.op \notin {"save", "reorder"} /\ Calling(w, c) /\ view' = view
    BY <1>3, Zenon DEF DeleteButton, MoveButton
  <2> QED BY <2>1, CalledShows DEF IsNew
<1>4. ASSUME NEW w \in Windows, ReorderButtons(w) PROVE AllShow'
  <2>1. PICK list : /\ Calling(w, [w |-> w, op |-> "reorder", list |-> list])
                    /\ view' = [view EXCEPT ![w] = Forced(@, list)]
    BY <1>4 DEF ReorderButtons
  <2>2. PICK c : c = [w |-> w, op |-> "reorder", list |-> list]
    OBVIOUS
  <2>3. /\ c.w = w /\ c.op = "reorder" /\ ~ IsNew(c) /\ Calling(w, c)
        /\ view'[w] = Forced(view[w], c.list) /\ \A v \in Windows \ {w} : view'[v] = view[v]
    BY <1>0, <2>1, <2>2 DEF IsNew
  <2> QED BY <2>3, CalledShows
<1>5. ASSUME NEW w \in Windows, RefreshData(w) PROVE AllShow'
  <2>1. /\ calls' = calls /\ server' = server /\ view' = [view EXCEPT ![w] = server]
        /\ \A c \in calls : c.w = w => c.op = "save"
        /\ skewed' = [skewed EXCEPT ![w] = @ /\ \E c \in calls : c.w = w]
    BY <1>5 DEF RefreshData
  <2>2. ASSUME NEW v \in Windows, v # w PROVE skewed'[v] \/ Shows(v)'
    BY <1>0, <2>1, <2>2 DEF AllShow, Shows, Beyond, IsNew, Forced
  <2>3. skewed'[w] \/ Shows(w)'
    BY <1>0, <2>1 DEF AllShow, Shows, Beyond, IsNew, Forced
  <2> QED BY <2>2, <2>3 DEF AllShow
<1>6. ASSUME NEW c \in calls, Handled(c) PROVE AllShow'
  <2>1. \A v \in Windows : ~ skewed'[v] => v = c.w /\ ~ skewed[v]
    BY <1>6 DEF Handled, Others
  <2>2. ASSUME ~ skewed[c.w] PROVE Shows(c.w)'
    <3>1. \A d \in calls : d.w = c.w => d = c
      BY <2>2 DEF IInv, OneAtATime
    <3>2. view' = view /\ Shows(c.w)
      BY <1>0, <1>6, <2>2 DEF Handled, AllShow
    <3>3. CASE c.op = "reorder"
      <4>1. server' = Forced(server, c.list) /\ calls' = calls \ {c}
        BY <1>6, <3>3 DEF Handled, Done
      <4>2. view[c.w] = Forced(server, c.list)
        BY <3>2, <3>3 DEF Shows
      <4> QED BY <3>1, <3>2, <4>1, <4>2 DEF Shows
    <3>4. CASE c.op # "reorder"
      <4>1. PICK get : get = [w |-> c.w, op |-> "get"]
        OBVIOUS
      <4>2. calls' = (calls \ {c}) \cup {get}
        BY <1>6, <3>4, <4>1 DEF Handled
      <4>3. get.w = c.w /\ get.op = "get"
        BY <4>1
      <4>4. \A d \in calls' : d.w = c.w => d.op = "get"
        BY <3>1, <4>2, <4>3
      <4>5. \E d \in calls' : d.w = c.w
        BY <4>2, <4>3
      <4> QED BY <4>4, <4>5, Zenon DEF Shows, IsNew
    <3> QED BY <3>3, <3>4
  <2> QED BY <2>1, <2>2 DEF AllShow
<1>7. ASSUME NEW c \in calls, Failed(c) \/ Got(c) PROVE AllShow'
  <2>1. /\ calls' = calls \ {c} /\ server' = server
        /\ \A v \in Windows : v # c.w => view'[v] = view[v] /\ skewed'[v] = skewed[v]
    BY <1>0, <1>7 DEF Failed, Got
  <2>2. ASSUME NEW v \in Windows, v # c.w PROVE skewed'[v] \/ Shows(v)'
    BY <2>1, <2>2 DEF AllShow, Shows, Beyond, IsNew, Forced
  <2>3. skewed'[c.w] \/ Shows(c.w)'
    <3>1. CASE Failed(c)
      BY <1>0, <3>1 DEF Failed
    <3>2. CASE Got(c)
      <4>1. view'[c.w] = server /\ skewed' = skewed
        BY <1>0, <3>2 DEF Got
      <4>2. ~ skewed[c.w] => \A d \in calls' : d.w # c.w
        BY <2>1 DEF IInv, OneAtATime
      <4> QED BY <2>1, <4>1, <4>2 DEF Shows
    <3> QED BY <1>7, <3>1, <3>2
  <2> QED BY <1>0, <2>2, <2>3 DEF AllShow
<1> QED BY <1>1, <1>2, <1>3, <1>4, <1>5, <1>6, <1>7 DEF Next

-----------------------------------------------------------------------------
(* What the steps change.                                                  *)

LEMMA OnlyHandled ==
    ASSUME [Next]_vars
    PROVE  server' = server \/ \E c \in calls : Handled(c)
<1>1. CASE \E w \in Windows : SaveButton(w) \/ DeleteButton(w) \/ MoveButton(w) \/ ReorderButtons(w)
  <2>1. \A w, c : Calling(w, c) => server' = server
    BY DEF Calling
  <2>2. ASSUME NEW w \in Windows, SaveButton(w) PROVE server' = server
    BY <2>1, <2>2, Zenon DEF SaveButton
  <2>3. ASSUME NEW w \in Windows, DeleteButton(w) \/ MoveButton(w) PROVE server' = server
    BY <2>1, <2>3, Zenon DEF DeleteButton, MoveButton
  <2>4. ASSUME NEW w \in Windows, ReorderButtons(w) PROVE server' = server
    <3>1. \E c : Calling(w, c)
      BY <2>4 DEF ReorderButtons
    <3> QED BY <2>1, <3>1
  <2> QED BY <1>1, <2>2, <2>3, <2>4
<1>2. CASE \E w \in Windows : RefreshData(w)
  BY <1>2 DEF RefreshData
<1> QED BY <1>1, <1>2 DEF Next, vars, Failed, Got

LEMMA MovesAlone ==
    ASSUME Numbered, IInv PROVE MoveAlone
<1> SUFFICES ASSUME NEW c \in calls, c.op = "move", c.id \in DOMAIN server, Handled(c)
             PROVE  LET g == server[c.id].group
                        old == Shown(server, g)
                        k == Place(old, c.id)
                        n == k + c.direction
                    IN /\ \A h \in Groups \ {g} : Shown(server', h) = Shown(server, h)
                       /\ Shown(server', g) =
                            IF n \in DOMAIN old THEN [old EXCEPT ![k] = old[n], ![n] = old[k]]
                                                ELSE old
  BY Zenon DEF MoveAlone
<1>0. PICK g, old, k, n : g = server[c.id].group /\ old = Shown(server, g)
                          /\ k = Place(old, c.id) /\ n = k + c.direction
  OBVIOUS
<1> SUFFICES /\ \A h \in Groups \ {g} : Shown(server', h) = Shown(server, h)
             /\ Shown(server', g) =
                  IF n \in DOMAIN old THEN [old EXCEPT ![k] = old[n], ![n] = old[k]] ELSE old
  BY <1>0
<1>1. /\ Ordered(server) /\ c.direction \in {-1, 1} /\ clock \in Nat
      /\ \A i \in DOMAIN server : server[i] \in Button
  BY OrderedButtons DEF IInv, Kept, IsCall, Buttons
<1>2. PICK id, direction : id = c.id /\ direction = c.direction
  OBVIOUS
<1>3. PICK new : server' = new /\ new = Moved(server, id, direction, clock)
  BY <1>2 DEF Handled, Done
<1>4. k \in 1 .. Len(old) /\ old[k] = id
  BY <1>0, <1>1, <1>2, PlaceIn
<1>5. Len(old) \in Nat /\ DOMAIN old = 1 .. Len(old)
  <2>1. InGroup(server, g) \in SUBSET (DOMAIN server)
    BY DEF InGroup
  <2>2. Lists(server, InGroup(server, g), old)
    BY <1>0, <1>1, <2>1, SortedLists DEF Shown
  <2> QED BY <2>2 DEF Lists
<1>6. CASE n \in 1 .. Len(old)
  <2>1. Ordered(new) /\ Beside(server, new, id, old[n], direction)
    BY <1>0, <1>1, <1>2, <1>3, <1>4, <1>6, MovedBeside
  <2>2. /\ \A h : h # g => Shown(new, h) = Shown(server, h)
        /\ Shown(new, g) = Swapped(old, k, n)
    <3>1. id \in DOMAIN server /\ g = server[id].group /\ n = k + direction
          /\ direction \in {-1, 1}
      BY <1>0, <1>1, <1>2
    <3>2. Ordered(server) /\ Ordered(new) /\ Beside(server, new, id, old[n], direction)
      BY <1>1, <2>1
    <3>3. old = Shown(server, g)
      BY <1>0
    <3> QED BY <1>4, <1>6, <3>1, <3>2, <3>3, Neighbours, SMTT(30)
  <2> QED BY <1>3, <1>5, <1>6, <2>2 DEF Swapped
<1>7. CASE n \notin 1 .. Len(old)
  <2>1. new = server
    BY <1>0, <1>2, <1>3, <1>5, <1>7 DEF Moved
  <2> QED BY <1>0, <1>3, <1>5, <1>7, <2>1, SMTT(30)
<1> QED BY <1>6, <1>7

LEMMA NewIsLast ==
    ASSUME Numbered, IInv, AllShow PROVE NewLast
<1> SUFFICES ASSUME NEW c \in calls, c.op = "save", ~ c.edit,
                    c.button.order = 0 \/ ~ skewed[c.w], Handled(c)
             PROVE  Last(Shown(server', c.button.group)) = c.id
  BY DEF NewLast
<1>1. PICK id, b : id = c.id /\ b = c.button
  OBVIOUS
<1>2. /\ Ordered(server) /\ b \in Button /\ b.mtime <= clock /\ clock \in Nat
      /\ id \notin DOMAIN server /\ id \in ButtonIds
  BY <1>1, OrderedButtons DEF IInv, Kept, IsCall, NewUnseen, IsNew
<1>3. PICK new : server' = new /\ new = Upserted(server, id, b, clock)
  BY <1>1 DEF Handled, Done
<1>9. b.order = 0 \/ \A i \in DOMAIN server : server[i].order < b.order
  <2> SUFFICES ASSUME ~ skewed[c.w] PROVE b.order = 0 \/ \A i \in DOMAIN server : server[i].order < b.order
    BY <1>1
  <2>1. c.w \in Windows
    BY DEF IInv, Kept, IsCall
  <2>2. Shows(c.w) /\ IsNew(c)
    BY <2>1 DEF AllShow, IsNew
  <2> QED BY <1>1, <2>2 DEF Shows, Beyond
<1>4. /\ DOMAIN new = DOMAIN server \cup {id}
      /\ \A i \in DOMAIN server \ {id} : new[i] = server[i]
      /\ new[id] \in Button /\ new[id].group = b.group
      /\ \A i \in DOMAIN server : server[i].order < new[id].order
  <2>1. IsUpserted(server, new, id, b, clock)
    BY <1>2, <1>3, UpsertedButton
  <2>2. CASE b.order = 0
    <3>1. new[id].order = MaxOrder(server) + 10
      BY <1>2, <2>1, <2>2 DEF IsUpserted
    <3>2. /\ MaxOrder(server) \in Int
          /\ \A i \in DOMAIN server : server[i].order <= MaxOrder(server) /\ server[i].order \in Int
      BY <1>2, GreatestOrder DEF Ordered
    <3>3. \A i \in DOMAIN server : server[i].order < new[id].order
      BY <3>1, <3>2
    <3> QED BY <2>1, <3>3 DEF IsUpserted
  <2>3. CASE b.order # 0
    BY <1>9, <2>1, <2>3 DEF IsUpserted
  <2> QED BY <2>2, <2>3
<1>5. Ordered(new)
  <2>1. IsFiniteSet(DOMAIN server \cup {id})
    BY <1>2, FS_AddElement DEF Ordered
  <2> QED BY <1>2, <1>4, <2>1 DEF Ordered, Numbered, Button
<1>6. PICK S : S = InGroup(new, b.group) /\ S \in SUBSET (DOMAIN new) /\ id \in S
  BY <1>4 DEF InGroup
<1>7. ASSUME NEW i \in S \ {id} PROVE Before(new, i, id)
  <2>1. i \in DOMAIN server /\ new[i].order = server[i].order
    BY <1>4, <1>6
  <2> QED BY <1>4, <2>1 DEF Before
<1>8. Last(Sorted(new, S)) = id
  BY <1>5, <1>6, <1>7, LastOf
<1> QED BY <1>1, <1>3, <1>6, <1>8 DEF Shown

LEMMA Stamps ==
    ASSUME Numbered, IInv, [Next]_vars PROVE StampedUnlessEdited
<1> SUFFICES ASSUME NEW i \in ButtonIds, Changed(i)
             PROVE  \/ server'[i].mtime > server[i].mtime
                    \/ \E c \in calls \ calls' :
                          \/ c.op = "save" /\ c.button.mtime # 0
                          \/ c.op = "reorder" /\ skewed[c.w]
  BY DEF StampedUnlessEdited
<1>1. PICK c \in calls : Handled(c)
  BY OnlyHandled DEF Changed
<1>2. c \notin calls' /\ c.op # "get" /\ server' = Done(c)
  <2>1. c # [w |-> c.w, op |-> "get"]
    BY <1>1 DEF Handled
  <2> QED BY <1>1, <2>1 DEF Handled
<1>3. /\ IsCall(c) /\ clock \in Nat /\ i \in DOMAIN server /\ i \in DOMAIN server'
      /\ server'[i] # server[i] /\ server[i].mtime < clock
      /\ \A j \in DOMAIN server : server[j] \in Button
  <2>1. server[i].mtime \in Nat /\ server[i].mtime <= clock - 1 /\ clock \in Nat
    BY DEF IInv, Kept, Buttons, Button, UpTo, Changed
  <2>2. server[i].mtime < clock
    BY <2>1
  <2> QED BY <2>2 DEF IInv, Kept, Buttons, Changed
<1>4. CASE c.op = "save"
  <2>1. CASE c.button.mtime # 0
    BY <1>2, <1>4, <2>1
  <2>2. CASE c.button.mtime = 0
    <3>1. PICK id, b : id = c.id /\ b = c.button
      OBVIOUS
    <3>2. PICK new : server' = new /\ new = Upserted(server, id, b, clock)
      BY <1>2, <1>4, <3>1 DEF Done
    <3>3. Ordered(server) /\ b \in Button /\ b.mtime = 0 /\ b.mtime <= clock
      BY <1>3, <1>4, <2>2, <3>1, OrderedButtons DEF IsCall, IInv, Kept
    <3>4. IsUpserted(server, new, id, b, clock)
      BY <1>3, <3>2, <3>3, UpsertedButton
    <3>5. i = id
      BY <1>3, <3>2, <3>4 DEF IsUpserted
    <3> QED BY <1>3, <3>2, <3>3, <3>4, <3>5 DEF IsUpserted
  <2> QED BY <2>1, <2>2
<1>5. CASE c.op = "delete"
  <2>1. server' = Without(server, c.id)
    BY <1>2, <1>5 DEF Done
  <2> QED BY <1>3, <2>1 DEF Without
<1>6. CASE c.op = "move"
  <2>1. c.id \in DOMAIN server
    BY <1>2, <1>3, <1>6 DEF Done
  <2>2. PICK new : server' = new /\ new = Moved(server, c.id, c.direction, clock)
    BY <1>2, <1>6, <2>1 DEF Done
  <2>3. new[i] = server[i] \/ new[i].mtime = clock
    BY <1>3, <2>1, <2>2, MovedOnly
  <2> QED BY <1>3, <2>2, <2>3
<1>7. CASE c.op = "reorder"
  <2>1. CASE skewed[c.w]
    BY <1>2, <1>7, <2>1
  <2>2. CASE ~ skewed[c.w]
    <3>1. server' = Forced(server, c.list)
      BY <1>2, <1>7 DEF Done
    <3>2. i \in DOMAIN c.list /\ server'[i] = c.list[i]
      BY <1>3, <3>1 DEF Forced
    <3>3. c.list[i].mtime = clock
      BY <1>7, <2>2, <3>2 DEF IInv, OnTime
    <3> QED BY <1>3, <3>2, <3>3
  <2> QED BY <2>1, <2>2
<1> QED BY <1>2, <1>3, <1>4, <1>5, <1>6, <1>7 DEF IsCall

\* Up and down move one button by one place; a new button comes last, with the order that
\* the server chose, or that its form proposed in a window that was not behind; and a change
\* gives a newer time but for an edit that carries the time of the form, and a drag in a
\* window that was behind; in every run of the windows and the server (config.go, store.ts).
THEOREM ListChangesHold == Numbered /\ Spec => ListChanges
<1> SUFFICES ASSUME Numbered PROVE Spec => ListChanges
  OBVIOUS
<1>1. Init => IInv /\ AllShow
  <2>1. Init => AllShow
    BY DEF Init, AllShow, Shows
  <2> QED BY <2>1, ButtonsInit
<1>2. IInv /\ AllShow /\ [Next]_vars => (IInv /\ AllShow)'
  BY ButtonsNext, ShowsNext
<1>3. IInv /\ AllShow /\ [Next]_vars => [MoveAlone /\ NewLast /\ StampedUnlessEdited]_vars
  BY MovesAlone, NewIsLast, Stamps
<1> QED BY <1>1, <1>2, <1>3, PTL DEF Spec, ListChanges

-----------------------------------------------------------------------------
(* The saved passwords.                                                    *)

\* The app password, the same in memory, on the disk and in passstore, opens the file.
Opens(p) == password = p /\ kept = p /\ trusted = p /\ (dek # 0 => wrapped = p)

\* What holds at each step of a change that nothing has come between.
Stage(c) ==
    /\ c.step \in {"empty", "force", "rewrap"} => \E p \in AppPasswords : Opens(p)
    /\ c.step = "empty" => saved = {}
    /\ c.step = "save" => trusted = password /\ kept = password
    /\ c.step \in {"trust", "keyring"} => password = c.new /\ kept = c.new
    /\ c.step = "keyring" => trusted = c.new
    /\ c.step \in {"save", "trust", "keyring"} => (dek # 0 => wrapped = c.new)

Staged ==
    ~spoilt =>
        /\ \A c, d \in changing : c = d
        /\ changing = {} => \E p \in AppPasswords : Opens(p)
        /\ \A c \in changing : Stage(c)

SecretInv == P!TypeOK /\ P!Sealed /\ Staged

LEMMA SecretInit == P!Init => SecretInv
<1> SUFFICES ASSUME P!Init PROVE SecretInv
    OBVIOUS
<1> USE DEF P!Init
<1>1. P!TypeOK
    <2>1. {password, kept, trusted, wrapped} \subseteq AppPasswords /\ ring \subseteq AppPasswords
        OBVIOUS
    <2>2. {dek, key, deks} \subseteq Nat /\ dek <= deks /\ key <= deks
        OBVIOUS
    <2>3. saved \subseteq P!Entry /\ changing \subseteq P!Change
        OBVIOUS
    <2>4. useKeyring \in BOOLEAN /\ spoilt \in BOOLEAN /\ form \in {"new", "locked", "again"}
        OBVIOUS
    <2> QED BY <2>1, <2>2, <2>3, <2>4 DEF P!TypeOK
<1>2. P!Sealed
    BY DEF P!Sealed
<1>3. Staged
    BY DEF Staged, Opens
<1> QED BY <1>1, <1>2, <1>3 DEF SecretInv

-----------------------------------------------------------------------------
(* The key and the file.                                                   *)

LEMMA SetKeySealed ==
    ASSUME P!TypeOK, P!Sealed, NEW p \in AppPasswords, NEW hash, P!SetEncryptionKey(p, hash)
    PROVE  /\ P!Sealed'
           /\ {dek, key, deks}' \subseteq Nat /\ dek' <= deks' /\ key' <= deks'
           /\ saved' \subseteq P!Entry /\ wrapped' \in AppPasswords
           /\ dek' # dek => dek = 0 /\ wrapped' = p /\ p = hash /\ saved' = {}
           /\ dek' = dek => UNCHANGED P!file
<1> USE DEF P!TypeOK, P!Sealed, P!SetEncryptionKey, P!file
<1>1. CASE /\ p = hash /\ dek = 0 /\ deks < MaxDeks
           /\ deks' = deks + 1 /\ key' = deks + 1
           /\ dek' = deks + 1 /\ wrapped' = p /\ saved' = {}
    BY <1>1
<1>2. CASE /\ p = hash /\ dek # 0 /\ wrapped = p
           /\ key' = dek
           /\ UNCHANGED <<P!file, deks>>
    BY <1>2
<1>3. CASE UNCHANGED <<P!file, key, deks>>
    BY <1>3
<1> QED BY <1>1, <1>2, <1>3

\* The operations that leave the app password and the wrapping of the file alone.
LEMMA QuietStaged ==
    ASSUME Staged, saved' = {} \/ saved' = saved \/ saved' \subseteq saved \/ changing = {} \/ spoilt',
           spoilt => spoilt',
           UNCHANGED <<password, trusted, dek, wrapped, changing>>,
           kept' = kept \/ kept' = password
    PROVE  Staged'
<1> SUFFICES ASSUME ~spoilt' PROVE Staged'
    BY DEF Staged
<1>1. ~spoilt
    OBVIOUS
<1>2. CASE changing = {}
    BY <1>1, <1>2 DEF Staged, Opens
<1>3. CASE changing # {}
    <2>1. saved = {} => saved' = {}
        BY <1>3
    <2>2. \A c \in changing : Stage(c)'
        BY <1>1, <2>1 DEF Staged, Stage, Opens
    <2> QED BY <1>1, <1>3, <2>2 DEF Staged
<1> QED BY <1>2, <1>3

LEMMA UnlockKeeps ==
    ASSUME SecretInv, NEW p \in AppPasswords, P!SetEncryptionKey(p, trusted), P!Meets(dek' # dek),
           form' \in {"new", "locked", "again"},
           UNCHANGED <<P!config, trusted, useKeyring, ring, changing>>
    PROVE  SecretInv'
<1> USE DEF SecretInv, P!config, P!Meets
<1>1. P!TypeOK' /\ P!Sealed'
    BY SetKeySealed DEF P!TypeOK
<1>2. CASE dek' = dek
    <2>1. UNCHANGED P!file
        BY <1>2, SetKeySealed
    <2>2. spoilt => spoilt'
        BY <1>2 DEF P!TypeOK
    <2>3. Staged'
        BY <2>1, <2>2, QuietStaged DEF P!file
    <2> QED BY <1>1, <2>3
<1>3. CASE dek' # dek
    <2>1. dek = 0 /\ wrapped' = p /\ p = trusted
        BY <1>3, SetKeySealed
    <2>2. CASE changing = {}
        BY <1>1, <2>1, <2>2 DEF Staged, Opens
    <2>3. CASE changing # {}
        BY <1>1, <1>3, <2>3 DEF Staged
    <2> QED BY <2>2, <2>3
<1> QED BY <1>2, <1>3

LEMMA SaveKeeps ==
    ASSUME SecretInv, NEW k \in HostKeys, P!Save(k), ring' \subseteq AppPasswords
    PROVE  SecretInv'
<1> USE DEF SecretInv, P!Save, P!Meets, P!config
<1>1. P!TypeOK' /\ P!Sealed'
    BY DEF P!TypeOK, P!Sealed, P!Entry
<1>2. Staged'
    BY QuietStaged DEF P!TypeOK
<1> QED BY <1>1, <1>2

LEMMA DeleteKeeps ==
    ASSUME SecretInv, NEW k \in HostKeys, P!Delete(k)
    PROVE  SecretInv'
<1> USE DEF SecretInv, P!Delete, P!config
<1>1. P!TypeOK' /\ P!Sealed'
    BY DEF P!TypeOK, P!Sealed
<1>2. Staged'
    BY QuietStaged
<1> QED BY <1>1, <1>2

LEMMA LockKeeps ==
    ASSUME SecretInv, P!Lock \/ P!UseKeyring \/ \E given \in BOOLEAN : P!LeaveKeyring(given)
    PROVE  SecretInv'
<1> USE DEF SecretInv, P!Lock, P!UseKeyring, P!LeaveKeyring, P!config, P!file
<1>1. P!TypeOK' /\ P!Sealed'
    <2>1. UNCHANGED <<password, trusted, P!file, deks, form, changing, spoilt>>
        OBVIOUS
    <2>2. kept' \in AppPasswords /\ key' \in {0, key} /\ useKeyring' \in BOOLEAN
          /\ ring' \subseteq AppPasswords
        BY DEF P!TypeOK
    <2> QED BY <2>1, <2>2 DEF P!TypeOK, P!Sealed
<1>2. Staged'
    BY QuietStaged
<1> QED BY <1>1, <1>2

-----------------------------------------------------------------------------
(* The change of the app password.                                         *)

LEMMA BeginKeeps ==
    ASSUME SecretInv, NEW p \in AppPasswords, P!ChangeAppPassword(p)
    PROVE  SecretInv'
<1> USE DEF SecretInv, P!ChangeAppPassword, P!config, P!file
<1>1. CASE UNCHANGED <<changing, spoilt>>
    <2>1. P!TypeOK' /\ P!Sealed'
        BY <1>1 DEF P!TypeOK, P!Sealed
    <2> QED BY <1>1, <2>1, QuietStaged
<1>2. CASE \E step \in {"empty", "rewrap", "force"} :
              P!Begin(p, step) /\ form' = "new" /\ (step = "empty" => P!IsEmpty)
    <2>1. PICK step \in {"empty", "rewrap", "force"} :
              P!Begin(p, step) /\ form' = "new" /\ (step = "empty" => P!IsEmpty)
        BY <1>2
    <2> DEFINE c == [new |-> p, step |-> step]
    <2>2. c \in P!Change /\ changing' = changing \cup {c}
        BY <2>1 DEF P!Begin, P!Change, P!Steps
    <2>3. P!TypeOK' /\ P!Sealed'
        BY <2>1, <2>2 DEF P!TypeOK, P!Sealed, P!Begin, P!Meets
    <2>4. CASE changing = {} /\ ~spoilt
        <3>1. \E q \in AppPasswords : Opens(q)'
            BY <2>4 DEF Staged, Opens
        <3>2. changing' = {c} /\ Stage(c)'
            BY <2>1, <2>2, <2>4, <3>1 DEF Stage, P!IsEmpty
        <3> QED BY <2>3, <3>2 DEF Staged
    <2>5. CASE changing # {} \/ spoilt
        BY <2>1, <2>3, <2>5 DEF Staged, P!Begin, P!Meets, P!TypeOK
    <2> QED BY <2>4, <2>5
<1> QED BY <1>1, <1>2

\* A step of the only change.
LEMMA OneChange ==
    ASSUME Staged, ~spoilt, NEW c \in changing
    PROVE  changing = {c} /\ Stage(c)
BY DEF Staged

LEMMA FileKeeps ==
    ASSUME SecretInv, NEW c \in changing, P!ChangeFile(c)
    PROVE  SecretInv'
<1> USE DEF SecretInv, P!ChangeFile, P!config, P!file, P!Goes, P!Ends, P!DeleteEmptyFile, P!RemoveFile, P!Reencrypt
<1>0. c \in P!Change
    BY DEF P!TypeOK
<1>1. P!TypeOK'
    BY <1>0 DEF P!TypeOK, P!Change, P!Steps
<1>2. P!Sealed'
    BY DEF P!Sealed, P!IsEmpty
<1>3. CASE spoilt
    BY <1>1, <1>2, <1>3 DEF Staged
<1>4. CASE ~spoilt
    <2> DEFINE d == [c EXCEPT !.step = "save"]
    <2>1. changing = {c} /\ Stage(c)
        BY <1>4, OneChange
    <2>2. PICK p \in AppPasswords : Opens(p)
        BY <2>1 DEF Stage
    <2>3. CASE changing' = (changing \ {c}) \cup {d}
        <3>1. changing' = {d} /\ d.step = "save" /\ d.new = c.new
            BY <2>1, <2>3, <1>0 DEF P!Change
        <3>2. dek' # 0 => wrapped' = c.new
            BY <2>1, <2>3, <3>1, <1>0 DEF Stage, P!IsEmpty
        <3>3. Stage(d)'
            BY <2>2, <3>1, <3>2 DEF Stage, Opens
        <3> QED BY <1>1, <1>2, <3>1, <3>3 DEF Staged
    <2>4. CASE changing' = changing \ {c} /\ UNCHANGED P!file
        <3>1. changing' = {} /\ Opens(p)'
            BY <2>1, <2>2, <2>4 DEF Opens
        <3> QED BY <1>1, <1>2, <3>1 DEF Staged
    <2> QED BY <2>3, <2>4
<1> QED BY <1>3, <1>4

LEMMA ConfigKeeps ==
    ASSUME SecretInv, NEW c \in changing, P!ChangeConfig(c)
    PROVE  SecretInv'
<1> USE DEF SecretInv, P!ChangeConfig, P!config, P!file, P!Goes, P!Ends
<1>0. c \in P!Change
    BY DEF P!TypeOK
<1>1. P!TypeOK' /\ P!Sealed'
    BY <1>0 DEF P!TypeOK, P!Change, P!Steps, P!Sealed
<1>2. CASE spoilt'
    BY <1>1, <1>2 DEF Staged
<1>3. CASE ~spoilt'
    <2> DEFINE d == [c EXCEPT !.step = "trust"]
    <2>1. ~spoilt /\ kept' = c.new /\ changing' = (changing \ {c}) \cup {d}
        BY <1>3
    <2>2. changing = {c} /\ Stage(c)
        BY <2>1, OneChange
    <2>3. changing' = {d} /\ d.step = "trust" /\ d.new = c.new
        BY <2>1, <2>2, <1>0 DEF P!Change
    <2>4. Stage(d)'
        BY <2>1, <2>2, <2>3 DEF Stage
    <2> QED BY <1>1, <2>3, <2>4 DEF Staged
<1> QED BY <1>2, <1>3

LEMMA TrustedKeeps ==
    ASSUME SecretInv, NEW c \in changing, P!ChangeTrusted(c)
    PROVE  SecretInv'
<1> USE DEF SecretInv, P!ChangeTrusted, P!config, P!file, P!Goes, P!Ends
<1>0. c \in P!Change
    BY DEF P!TypeOK
<1>1. P!TypeOK' /\ P!Sealed'
    BY <1>0 DEF P!TypeOK, P!Change, P!Steps, P!Sealed
<1>2. CASE spoilt
    BY <1>1, <1>2 DEF Staged
<1>3. CASE ~spoilt
    <2> DEFINE d == [c EXCEPT !.step = "keyring"]
    <2>1. changing = {c} /\ Stage(c)
        BY <1>3, OneChange
    <2>2. password = c.new /\ kept = c.new /\ trusted' = c.new /\ (dek # 0 => wrapped = c.new)
        BY <2>1 DEF Stage
    <2>3. CASE changing' = (changing \ {c}) \cup {d}
        <3>1. changing' = {d} /\ d.step = "keyring" /\ d.new = c.new
            BY <2>1, <2>3, <1>0 DEF P!Change
        <3>2. Stage(d)'
            BY <2>2, <3>1 DEF Stage
        <3> QED BY <1>1, <3>1, <3>2 DEF Staged
    <2>4. CASE changing' = changing \ {c}
        <3>1. changing' = {} /\ Opens(c.new)'
            BY <2>1, <2>2, <2>4 DEF Opens
        <3> QED BY <1>0, <1>1, <3>1 DEF Staged, P!Change
    <2> QED BY <2>3, <2>4
<1> QED BY <1>2, <1>3

LEMMA KeyringKeeps ==
    ASSUME SecretInv, NEW c \in changing, P!ChangeKeyring(c)
    PROVE  SecretInv'
<1> USE DEF SecretInv, P!ChangeKeyring, P!config, P!Ends
<1>0. c \in P!Change /\ c.new \in AppPasswords
    BY DEF P!TypeOK, P!Change
<1>1. P!TypeOK' /\ P!Sealed'
    BY <1>0, SetKeySealed DEF P!TypeOK
<1>2. CASE spoilt
    BY <1>1, <1>2 DEF Staged
<1>3. CASE ~spoilt
    <2>1. changing = {c} /\ Stage(c)
        BY <1>3, OneChange
    <2>2. dek' # 0 => wrapped' = c.new
        BY <1>0, <2>1, SetKeySealed DEF Stage, P!file
    <2>3. changing' = {} /\ Opens(c.new)'
        BY <2>1, <2>2 DEF Stage, Opens
    <2> QED BY <1>0, <1>1, <2>3 DEF Staged
<1> QED BY <1>2, <1>3

-----------------------------------------------------------------------------
(* The process.                                                            *)

LEMMA RestartKeeps ==
    ASSUME SecretInv, P!Restart
    PROVE  SecretInv'
<1> USE DEF SecretInv, P!Restart, P!Starts
<1>1. kept \in AppPasswords
    BY DEF P!TypeOK
<1>2. P!TypeOK' /\ P!Sealed' /\ (dek' # dek => wrapped' = kept) /\ (dek' = dek => UNCHANGED P!file)
    <2>1. CASE P!SetEncryptionKey(kept, kept) /\ UNCHANGED <<useKeyring, ring>>
        BY <1>1, <2>1, SetKeySealed DEF P!TypeOK, P!Meets
    <2>2. CASE UNCHANGED <<P!file, deks>> /\ key' = 0 /\ useKeyring' \in BOOLEAN
               /\ ring' \subseteq AppPasswords
        BY <2>2 DEF P!TypeOK, P!Meets, P!Sealed, P!file
    <2> QED BY <2>1, <2>2 DEF P!TypeOK
<1>3. CASE spoilt'
    BY <1>2, <1>3 DEF Staged
<1>4. CASE ~spoilt'
    <2>1. changing = {} /\ ~spoilt
        BY <1>4 DEF P!Meets
    <2>2. Opens(kept)'
        BY <1>2, <2>1 DEF Staged, Opens, P!file
    <2> QED BY <1>1, <1>2, <2>2 DEF Staged, Opens
<1> QED BY <1>3, <1>4

LEMMA ResetKeeps ==
    ASSUME SecretInv, NEW p \in AppPasswords, NEW given \in BOOLEAN, P!ResetAppPassword(p, given)
    PROVE  SecretInv'
<1> USE DEF SecretInv, P!ResetAppPassword, P!Starts, P!RemoveFile, P!file
<1>1. P!TypeOK' /\ P!Sealed'
    <2>1. dek' \in {0, dek} /\ wrapped' = wrapped /\ saved' \in {{}, saved} /\ deks' = deks
        OBVIOUS
    <2>2. useKeyring' \in BOOLEAN /\ ring' \subseteq AppPasswords /\ spoilt' \in BOOLEAN
        BY DEF P!TypeOK
    <2>3. P!TypeOK'
        BY <2>1, <2>2 DEF P!TypeOK
    <2>4. P!Sealed'
        BY DEF P!Sealed
    <2> QED BY <2>3, <2>4
<1>2. Staged'
    BY DEF Staged, Opens
<1> QED BY <1>1, <1>2

LEMMA SecretNext == SecretInv /\ [P!Next]_(P!vars) => SecretInv'
<1> SUFFICES ASSUME SecretInv, [P!Next]_(P!vars) PROVE SecretInv'
    OBVIOUS
<1>1. CASE UNCHANGED P!vars
    <2>1. P!TypeOK' /\ P!Sealed' /\ Staged'
        BY <1>1 DEF P!vars, SecretInv, P!TypeOK, P!Sealed, Staged, Stage, Opens
    <2> QED BY <2>1 DEF SecretInv
<1>2. CASE \E p \in AppPasswords : P!Unlock(p)
    BY <1>2, UnlockKeeps DEF P!Unlock, SecretInv, P!TypeOK
<1>3. CASE \E k \in HostKeys : P!SavedByTerminal(k) \/ P!SavedByDialog(k) \/ P!Delete(k)
    BY <1>3, SaveKeeps, DeleteKeeps DEF P!SavedByTerminal, P!SavedByDialog, SecretInv, P!TypeOK
<1>4. CASE P!LoginFirst
    BY <1>4, UnlockKeeps DEF P!LoginFirst, SecretInv, P!TypeOK
<1>5. CASE P!Lock \/ P!UseKeyring \/ \E given \in BOOLEAN : P!LeaveKeyring(given)
    BY <1>5, LockKeeps
<1>6. CASE \E p \in AppPasswords : P!ChangeAppPassword(p)
    BY <1>6, BeginKeeps
<1>7. CASE \E c \in changing :
              P!ChangeFile(c) \/ P!ChangeConfig(c) \/ P!ChangeTrusted(c) \/ P!ChangeKeyring(c)
    BY <1>7, FileKeeps, ConfigKeeps, TrustedKeeps, KeyringKeeps
<1>8. CASE P!Restart \/ \E p \in AppPasswords, given \in BOOLEAN : P!ResetAppPassword(p, given)
    BY <1>8, RestartKeeps, ResetKeeps
<1> QED BY <1>1, <1>2, <1>3, <1>4, <1>5, <1>6, <1>7, <1>8 DEF P!Next

LEMMA SecretInvariant == P!Spec => []SecretInv
BY SecretInit, SecretNext, PTL DEF P!Spec

\* Whatever comes between the steps of a change, every saved password can be opened by
\* the data key of its file, and an unlocked store holds that key; and unless a change
\* failed, was overtaken, or a reset kept the file, the app password opens the store
\* (passstore.go; app.go, /api/settings/password).
THEOREM StoreIsSafe == P!Spec => []P!PasswordsSafe
<1>1. SecretInv => P!PasswordsSafe
    BY DEF SecretInv, P!PasswordsSafe, P!Openable, Staged, Opens
<1> QED BY <1>1, SecretInvariant, PTL
-----------------------------------------------------------------------------
(* Mark mode.                                                              *)

CONSTANTS Cols, Screen, MaxRows

VARIABLES buffer, sel, active, cursor, anchor, selecting, copying, given

M == INSTANCE MarkMode

\* There is a row, and a cell in it.
Sized == Cols \in Nat \ {0} /\ Screen \in Nat \ {0}

-----------------------------------------------------------------------------
(* Positions.                                                              *)

LEMMA LeastOf ==
    ASSUME NEW I \in SUBSET Nat, I # {}
    PROVE  M!Min(I) \in I /\ \A i \in I : M!Min(I) <= i
BY LeastIn, Zenon DEF M!Min

LEMMA GreatestOf ==
    ASSUME NEW I \in SUBSET Nat, I # {}, NEW b \in Nat, \A i \in I : i <= b
    PROVE  M!Max(I) \in I /\ \A i \in I : M!Max(I) >= i
<1> DEFINE J == {b - i : i \in I}
<1>1. J \in SUBSET Nat /\ J # {}
  <2>1. \A i \in I : b - i \in Nat
    OBVIOUS
  <2> QED BY <2>1
<1>2. PICK j \in J : \A k \in J : j <= k
  BY <1>1, LeastIn
<1>3. PICK i \in I : j = b - i
  BY <1>2
<1>4. \A k \in I : i >= k
  <2> TAKE k \in I
  <2>1. b - i <= b - k
    BY <1>2, <1>3
  <2> QED BY <2>1
<1> QED BY <1>3, <1>4, Zenon DEF M!Max

LEMMA LeastIs ==
    ASSUME NEW I \in SUBSET Nat, NEW m \in I, \A i \in I : m <= i
    PROVE  M!Min(I) = m
<1>1. M!Min(I) \in I /\ M!Min(I) <= m
  BY LeastOf
<1>2. m <= M!Min(I) /\ M!Min(I) \in Nat /\ m \in Nat
  BY <1>1
<1> QED BY <1>1, <1>2

LEMMA GreatestIs ==
    ASSUME NEW I \in SUBSET Nat, NEW m \in I, \A i \in I : i <= m
    PROVE  M!Max(I) = m
<1>1. M!Max(I) \in I /\ M!Max(I) >= m
  BY GreatestOf, m \in Nat
<1>2. M!Max(I) <= m /\ M!Max(I) \in Nat /\ m \in Nat
  BY <1>1
<1> QED BY <1>1, <1>2

LEMMA Products ==
    ASSUME NEW d \in Nat, NEW r \in Nat, NEW s \in Nat
    PROVE  /\ r * d \in Nat
           /\ r < s => r * d + d <= s * d
<1>1. \A k \in Nat : k * d \in Nat
  OBVIOUS
<1>2. ASSUME r < s PROVE r * d + d <= s * d
  <2>1. PICK k \in Nat : s = r + 1 + k
    BY <1>2, s - r - 1 \in Nat
  <2>2. s * d = r * d + d + k * d
    BY <2>1
  <2> QED BY <1>1, <2>2
<1> QED BY <1>1, <1>2

\* One division has one result.
LEMMA DivisionUnique ==
    ASSUME NEW d \in Nat, NEW r \in Nat, NEW s \in Nat, NEW c \in Nat, NEW e \in Nat,
           c < d, e < d, r * d + c = s * d + e
    PROVE  r = s /\ c = e
<1>1. ~ (r < s) /\ ~ (s < r)
  BY Products
<1>2. r = s
  BY <1>1
<1> QED BY <1>2, Products

LEMMA Divided ==
    ASSUME NEW d \in Nat \ {0}, NEW p \in Nat
    PROVE  /\ p \div d \in Nat /\ p % d \in Nat /\ p % d < d
           /\ p = ((p \div d) * d) + (p % d)
<1>1. p % d \in 0 .. d - 1
  OBVIOUS
<1>2. p \div d \in Int
  OBVIOUS
<1>3. p = d * (p \div d) + (p % d)
  OBVIOUS
<1> QED OBVIOUS

LEMMA Split ==
    ASSUME Sized, NEW p \in Nat
    PROVE  /\ M!Row(p) \in Nat /\ M!Col(p) \in 0 .. Cols
           /\ p = M!Pos(M!Row(p), M!Col(p))
<1>1. Cols \in Nat /\ Cols + 1 \in Nat \ {0}
  BY DEF Sized
<1>2. PICK d \in Nat \ {0} : d = Cols + 1
  BY <1>1
<1>3. PICK r, c : r = p \div d /\ c = p % d
  OBVIOUS
<1>4. M!Row(p) = r /\ M!Col(p) = c
  BY <1>2, <1>3 DEF M!Row, M!Col
<1>5. r \in Nat /\ c \in Nat /\ c < d /\ p = r * d + c
  BY <1>3, Divided
<1> QED BY <1>1, <1>2, <1>4, <1>5 DEF M!Pos

LEMMA PosOf ==
    ASSUME Sized, NEW r \in Nat, NEW c \in 0 .. Cols
    PROVE  /\ M!Pos(r, c) \in Nat
           /\ M!Row(M!Pos(r, c)) = r /\ M!Col(M!Pos(r, c)) = c
<1>1. PICK d \in Nat \ {0} : d = Cols + 1 /\ Cols \in Nat
  BY DEF Sized
<1>2. PICK p : p = M!Pos(r, c)
  OBVIOUS
<1>3. p = r * d + c /\ p \in Nat
  BY <1>1, <1>2, Products DEF M!Pos
<1>4. PICK s \in Nat, e \in 0 .. Cols : s = M!Row(p) /\ e = M!Col(p) /\ p = M!Pos(s, e)
  BY <1>3, Split
<1>5. p = s * d + e
  BY <1>1, <1>4 DEF M!Pos
<1>6. s = r /\ e = c
  BY <1>1, <1>3, <1>5, DivisionUnique
<1> QED BY <1>2, <1>3, <1>4, <1>6

LEMMA PosLess ==
    ASSUME Sized, NEW r \in Nat, NEW s \in Nat, NEW c \in 0 .. Cols, NEW e \in 0 .. Cols
    PROVE  M!Pos(r, c) < M!Pos(s, e) <=> r < s \/ (r = s /\ c < e)
<1>1. PICK d \in Nat \ {0} : d = Cols + 1 /\ Cols \in Nat
  BY DEF Sized
<1>2. M!Pos(r, c) = r * d + c /\ M!Pos(s, e) = s * d + e
  BY <1>1 DEF M!Pos
<1>3. r * d \in Nat /\ s * d \in Nat /\ (r < s => r * d + d <= s * d)
      /\ (s < r => s * d + d <= r * d)
  BY <1>1, Products
<1> QED BY <1>1, <1>2, <1>3

LEMMA CellsOf ==
    ASSUME Sized, NEW b, Len(b) \in Nat, NEW p
    PROVE  p \in M!CellsOf(b) <=> p \in Nat /\ M!Row(p) < Len(b) /\ M!Col(p) < Cols
<1>1. ASSUME p \in M!CellsOf(b)
      PROVE  p \in Nat /\ M!Row(p) < Len(b) /\ M!Col(p) < Cols
  <2>1. PICK r \in 0 .. Len(b) - 1, c \in 0 .. Cols - 1 : p = M!Pos(r, c)
    BY <1>1 DEF M!CellsOf
  <2>2. Cols \in Nat /\ r \in Nat /\ c \in 0 .. Cols
    BY DEF Sized
  <2>3. p \in Nat /\ M!Row(p) = r /\ M!Col(p) = c
    BY <2>1, <2>2, PosOf
  <2> QED BY <2>2, <2>3
<1>2. ASSUME p \in Nat, M!Row(p) < Len(b), M!Col(p) < Cols
      PROVE  p \in M!CellsOf(b)
  <2>1. PICK r \in Nat, c \in 0 .. Cols : p = M!Pos(r, c) /\ r < Len(b) /\ c < Cols
    BY <1>2, Split
  <2>2. r \in 0 .. Len(b) - 1 /\ c \in 0 .. Cols - 1
    BY <2>1 DEF Sized
  <2> QED BY <2>1, <2>2 DEF M!CellsOf
<1> QED BY <1>1, <1>2

LEMMA CellsBelow ==
    ASSUME Sized, NEW b, Len(b) \in Nat
    PROVE  /\ M!CellsOf(b) \in SUBSET Nat
           /\ M!Pos(Len(b), 0) \in Nat
           /\ \A p \in M!CellsOf(b) : p <= M!Pos(Len(b), 0)
<1>1. 0 \in 0 .. Cols /\ Cols \in Nat
  BY DEF Sized
<1>2. M!Pos(Len(b), 0) \in Nat
  BY <1>1, PosOf
<1>3. ASSUME NEW p \in M!CellsOf(b)
      PROVE  p \in Nat /\ p <= M!Pos(Len(b), 0)
  <2>1. p \in Nat /\ M!Row(p) < Len(b)
    BY CellsOf
  <2>2. PICK r \in Nat, c \in 0 .. Cols : p = M!Pos(r, c) /\ r < Len(b)
    BY <2>1, Split
  <2>3. M!Pos(r, c) < M!Pos(Len(b), 0)
    BY <1>1, <2>2, PosLess
  <2> QED BY <1>2, <2>1, <2>2, <2>3
<1> QED BY <1>2, <1>3

\* The first and the last of some cells.
LEMMA EndsOf ==
    ASSUME Sized, NEW b, Len(b) \in Nat, NEW I \in SUBSET M!CellsOf(b), I # {}
    PROVE  /\ M!Min(I) \in I /\ \A i \in I : M!Min(I) <= i
           /\ M!Max(I) \in I /\ \A i \in I : M!Max(I) >= i
<1>1. I \in SUBSET Nat /\ M!Pos(Len(b), 0) \in Nat /\ \A i \in I : i <= M!Pos(Len(b), 0)
  BY CellsBelow
<1>2. PICK n \in Nat : \A i \in I : i <= n
  BY <1>1
<1> QED BY <1>1, <1>2, LeastOf, GreatestOf

LEMMA CountLess ==
    ASSUME Sized, NEW b, Len(b) \in Nat, NEW p \in M!CellsOf(b), NEW q \in M!CellsOf(b)
    PROVE  /\ p \in Nat /\ M!Count(p) \in Nat
           /\ p < q <=> M!Count(p) < M!Count(q)
<1>1. PICK d \in Nat : d = Cols
  BY DEF Sized
<1>2. PICK r \in Nat, c \in 0 .. Cols :
        r = M!Row(p) /\ c = M!Col(p) /\ p = M!Pos(r, c) /\ c < d /\ p \in Nat
  BY <1>1, CellsOf, Split
<1>3. PICK s \in Nat, e \in 0 .. Cols :
        s = M!Row(q) /\ e = M!Col(q) /\ q = M!Pos(s, e) /\ e < d
  BY <1>1, CellsOf, Split
<1>4. p < q <=> r < s \/ (r = s /\ c < e)
  BY <1>2, <1>3, PosLess
<1>5. PICK x \in Nat, y \in Nat : x = r * d /\ y = s * d
        /\ (r < s => x + d <= y) /\ (s < r => y + d <= x) /\ (r = s => x = y)
  BY Products
<1>6. PICK m, n : m = M!Count(p) /\ n = M!Count(q) /\ m = x + c /\ n = y + e
  BY <1>1, <1>2, <1>3, <1>5 DEF M!Count
<1>7. c \in Nat /\ e \in Nat /\ c < d /\ e < d
  BY <1>1, <1>2, <1>3
<1>8. m \in Nat /\ (r < s \/ (r = s /\ c < e) <=> m < n)
  <2>1. r < s => m < n
    BY <1>5, <1>6, <1>7
  <2>2. s < r => n < m
    BY <1>5, <1>6, <1>7
  <2>3. r = s => (c < e <=> m < n)
    BY <1>5, <1>6, <1>7
  <2> QED BY <1>5, <1>6, <1>7, <2>1, <2>2, <2>3
<1> QED BY <1>2, <1>4, <1>6, <1>8

\* What is marked is what is between two cells.
LEMMA MarkedCells ==
    ASSUME Sized, NEW b, Len(b) \in Nat, NEW p \in M!CellsOf(b), NEW q \in M!CellsOf(b)
    PROVE  M!Marked(b, p, q) =
             {r \in M!CellsOf(b) : M!Min({p, q}) <= r /\ r <= M!Max({p, q})}
<1>1. PICK low \in M!CellsOf(b), high \in M!CellsOf(b) :
         low = M!Min({p, q}) /\ high = M!Max({p, q})
  <2>1. M!Min({p, q}) \in {p, q} /\ M!Max({p, q}) \in {p, q}
    BY EndsOf
  <2> QED BY <2>1
<1>2. ASSUME NEW r \in M!CellsOf(b)
      PROVE  M!Count(r) \in M!Count(low) .. M!Count(high) <=> low <= r /\ r <= high
  <2>1. /\ r < low <=> M!Count(r) < M!Count(low)
        /\ high < r <=> M!Count(high) < M!Count(r)
        /\ r \in Nat /\ low \in Nat /\ high \in Nat
        /\ M!Count(r) \in Nat /\ M!Count(low) \in Nat /\ M!Count(high) \in Nat
    BY CountLess
  <2> QED BY <2>1
<1>3. M!Marked(b, p, q) = {r \in M!CellsOf(b) : M!Count(r) \in M!Count(low) .. M!Count(high)}
  BY <1>1, Zenon DEF M!Marked
<1> QED BY <1>1, <1>2, <1>3

-----------------------------------------------------------------------------
(* Words.                                                                  *)

Written == Sized /\ Len(buffer) \in Nat \ {0}

LEMMA CellsOrdered ==
    ASSUME Written
    PROVE  /\ M!Cells \in SUBSET Nat /\ 0 \in M!Cells
           /\ M!LastCell \in M!Cells /\ \A p \in M!Cells : p <= M!LastCell
<1>1. Len(buffer) \in Nat /\ 0 \in Nat /\ 0 \in 0 .. Cols /\ 0 < Cols
  BY DEF Written, Sized
<1>2. M!Pos(0, 0) = 0
  BY DEF M!Pos, Written, Sized
<1>3. M!Row(0) = 0 /\ M!Col(0) = 0
  BY <1>1, <1>2, PosOf DEF Written
<1>4. 0 \in M!Cells
  BY <1>1, <1>3, CellsOf DEF Written, M!Cells
<1>5. M!Cells \in SUBSET Nat
  BY <1>1, CellsBelow DEF Written, M!Cells
<1>6. M!LastCell \in M!Cells /\ \A p \in M!Cells : M!LastCell >= p
  BY <1>1, <1>4, EndsOf DEF Written, M!Cells, M!LastCell
<1> QED BY <1>4, <1>5, <1>6

\* The cell before a cell and the cell behind it.
LEMMA CellBefore ==
    ASSUME Written, NEW p \in M!Cells, M!Above(p) # {}
    PROVE  /\ M!Max(M!Above(p)) \in M!Cells /\ M!Max(M!Above(p)) < p
           /\ \A r \in M!Cells : r < p => r <= M!Max(M!Above(p))
<1>1. M!Above(p) \in SUBSET M!CellsOf(buffer)
  BY DEF M!Above, M!Cells
<1>2. M!Max(M!Above(p)) \in M!Above(p) /\ \A i \in M!Above(p) : M!Max(M!Above(p)) >= i
  BY <1>1, EndsOf DEF Written
<1>3. M!Cells \in SUBSET Nat
  BY CellsOrdered
<1> QED BY <1>2, <1>3 DEF M!Above

LEMMA CellBehind ==
    ASSUME Written, NEW p \in M!Cells, M!Below(p) # {}
    PROVE  /\ M!Min(M!Below(p)) \in M!Cells /\ M!Min(M!Below(p)) > p
           /\ \A r \in M!Cells : r > p => r >= M!Min(M!Below(p))
<1>1. M!Below(p) \in SUBSET M!CellsOf(buffer)
  BY DEF M!Below, M!Cells
<1>2. M!Min(M!Below(p)) \in M!Below(p) /\ \A i \in M!Below(p) : M!Min(M!Below(p)) <= i
  BY <1>1, EndsOf DEF Written
<1>3. M!Cells \in SUBSET Nat
  BY CellsOrdered
<1> QED BY <1>2, <1>3 DEF M!Below

LEMMA NextWordAgrees ==
    ASSUME Written, NEW p \in M!Cells, NEW big
    PROVE  M!NextWord(p, big) = M!Min((M!Starts(big) \cap M!Below(p)) \cup {M!LastCell})
<1> DEFINE C(q) == M!Class(q, big)
           below == M!Below(p)
           away == IF M!White(p, big) THEN below ELSE M!PastRun(below, p, big)
           words == {q \in away : ~ M!White(q, big)}
           starts == M!Starts(big) \cap below
           last == M!LastCell
<1>1. M!NextWord(p, big) =
        IF below = {} THEN p ELSE IF words = {} THEN last ELSE M!Min(words)
  BY Zenon DEF M!NextWord
<1>2. M!Cells \in SUBSET Nat /\ last \in M!Cells /\ (\A q \in M!Cells : q <= last)
  BY CellsOrdered
<1>3. below = {q \in M!Cells : q > p} /\ below \in SUBSET M!Cells /\ p \in Nat
  BY <1>2 DEF M!Below
<1>4. words \in SUBSET below
  BY DEF M!PastRun
<1>5. \A q : q \in words <=> q \in below /\ C(q) # "white"
                              /\ (C(p) = "white" \/ \E r \in below : r <= q /\ C(r) # C(p))
  BY DEF M!PastRun, M!White
<1>6. \A q : q \in starts <=> q \in below /\ C(q) # "white"
                               /\ (q = 0 \/ C(M!Max(M!Above(q))) # C(q))
  BY <1>3 DEF M!Starts, M!White
<1>7. ASSUME NEW s \in starts PROVE s \in words
  <2>1. s \in below /\ C(s) # "white" /\ s \in M!Cells /\ s \in Nat /\ s > p
    BY <1>2, <1>3, <1>6
  <2>2. p \in M!Above(s)
    BY <2>1 DEF M!Above
  <2>3. PICK x \in M!Cells : x = M!Max(M!Above(s)) /\ x < s /\ \A r \in M!Cells : r < s => r <= x
    BY <2>1, <2>2, CellBefore
  <2>4. C(x) # C(s) /\ x \in Nat /\ p <= x
    BY <1>2, <1>3, <1>6, <2>1, <2>3
  <2>5. x = p \/ x \in below
    BY <1>3, <2>4
  <2>6. C(p) = "white" \/ \E r \in below : r <= s /\ C(r) # C(p)
    BY <2>1, <2>3, <2>4, <2>5
  <2> HIDE DEF C, words
  <2> QED BY <1>5, <2>1, <2>6
<1> HIDE DEF away
<1>8. CASE below = {}
  <2>1. p = last
    BY <1>2, <1>3, <1>8
  <2>2. starts \cup {last} = {last}
    BY <1>8
  <2> QED BY <1>1, <1>2, <1>8, <2>1, <2>2, LeastIs
<1>9. CASE below # {} /\ words = {}
  <2>1. starts \cup {last} = {last}
    BY <1>7, <1>9
  <2> QED BY <1>1, <1>2, <1>9, <2>1, LeastIs
<1>10. CASE below # {} /\ words # {}
  <2>1. PICK m \in words : m = M!Min(words) /\ \A q \in words : m <= q
    BY <1>2, <1>3, <1>4, <1>10, LeastOf
  <2>2. m \in below /\ C(m) # "white" /\ m \in M!Cells /\ m \in Nat /\ m > p
    BY <1>2, <1>3, <1>5
  <2>3. p \in M!Above(m)
    BY <2>2 DEF M!Above
  <2>4. PICK x \in M!Cells : x = M!Max(M!Above(m)) /\ x < m /\ \A r \in M!Cells : r < m => r <= x
    BY <2>2, <2>3, CellBefore
  <2>5. x \in Nat /\ p <= x /\ x \notin words
    BY <1>2, <2>1, <2>2, <2>4
  <2>6. ASSUME C(x) = C(m) PROVE FALSE
    <3>1. C(p) # "white" /\ (x = p \/ x \in below)
      BY <1>3, <1>5, <2>2, <2>5, <2>6
    <3>2. PICK r \in below : r <= m /\ C(r) # C(p)
      BY <1>5, <3>1
    <3>3. r \in M!Cells /\ r \in Nat /\ r > p /\ (r = m \/ r <= x)
      BY <1>2, <1>3, <2>2, <2>4, <3>2
    <3>4. CASE x = p
      BY <2>5, <2>6, <3>2, <3>3, <3>4
    <3>5. CASE x \in below
      <4>1. C(x) = C(p)
        BY <1>5, <2>2, <2>5, <2>6, <3>5
      <4>2. ~ (r <= x)
        BY <1>5, <2>2, <2>5, <2>6, <3>2, <3>5
      <4> QED BY <2>6, <3>2, <3>3, <4>1, <4>2
    <3> QED BY <3>1, <3>4, <3>5
  <2>7. m \in starts
    BY <1>6, <2>2, <2>4, <2>6
  <2>8. \A s \in starts \cup {last} : m <= s
    BY <1>2, <1>7, <2>1, <2>2
  <2>9. starts \cup {last} \in SUBSET Nat
    BY <1>2, <1>3
  <2> HIDE DEF starts, last, words
  <2>10. M!Min(starts \cup {last}) = m
    BY <2>7, <2>8, <2>9, LeastIs
  <2> QED BY <1>1, <1>10, <2>1, <2>10 DEF starts, last
<1> QED BY <1>8, <1>9, <1>10

LEMMA PrevWordAgrees ==
    ASSUME Written, NEW p \in M!Cells, NEW big
    PROVE  M!PrevWord(p, big) = M!Max((M!Starts(big) \cap M!Above(p)) \cup {0})
<1> DEFINE C(q) == M!Class(q, big)
           above == M!Above(p)
           words == {q \in above : ~ M!White(q, big)}
           w == M!Max(words)
           run == {q \in words : \A r \in M!Cells : q <= r /\ r <= w => C(r) = C(w)}
           starts == M!Starts(big) \cap above
<1>1. M!PrevWord(p, big) =
        IF above = {} THEN p ELSE IF words = {} THEN 0 ELSE M!Min(run)
  BY Zenon DEF M!PrevWord
<1>2. M!Cells \in SUBSET Nat /\ 0 \in M!Cells
  BY CellsOrdered
<1>3. above = {q \in M!Cells : q < p} /\ above \in SUBSET M!Cells /\ p \in Nat
  BY <1>2 DEF M!Above
<1>4. \A q : q \in words <=> q \in above /\ C(q) # "white"
  BY DEF M!White
<1>5. \A q : q \in starts <=> q \in above /\ C(q) # "white"
                               /\ (q = 0 \/ C(M!Max(M!Above(q))) # C(q))
  BY <1>3 DEF M!Starts, M!White
<1>6. starts \in SUBSET above /\ starts \in SUBSET Nat /\ above \in SUBSET Nat
  BY <1>2, <1>3
<1> HIDE DEF words, starts, above, C
<1>7. CASE above = {}
  <2>1. p = 0
    BY <1>2, <1>3, <1>7
  <2>2. starts \cup {0} = {0}
    BY <1>7, <1>6
  <2> QED BY <1>1, <1>7, <2>1, <2>2, GreatestIs DEF starts, above
<1>8. CASE above # {} /\ words = {}
  <2>1. starts \cup {0} = {0}
    BY <1>4, <1>5, <1>8
  <2> QED BY <1>1, <1>8, <2>1, GreatestIs DEF starts, above
<1>9. CASE above # {} /\ words # {}
  <2>1. w \in words /\ \A q \in words : q <= w
    <3>1. words \in SUBSET M!CellsOf(buffer)
      BY <1>3, <1>4 DEF M!Cells
    <3>2. M!Max(words) \in words /\ \A q \in words : M!Max(words) >= q
      BY <1>9, <3>1, EndsOf DEF Written
    <3> QED BY <1>2, <1>3, <1>4, <3>2
  <2>2. w \in run /\ run \in SUBSET Nat
    <3>1. w \in Nat /\ run \in SUBSET Nat
      BY <1>2, <1>3, <1>4, <2>1
    <3>2. \A r \in M!Cells : w <= r /\ r <= w => C(r) = C(w)
      BY <1>2, <3>1
    <3> QED BY <2>1, <3>1, <3>2
  <2> HIDE DEF w
  <2>3. PICK m \in run : m = M!Min(run) /\ \A q \in run : m <= q
    BY <2>2, LeastOf
  <2>4. /\ m \in words /\ m \in above /\ m \in M!Cells /\ m \in Nat /\ m < p /\ C(m) # "white"
        /\ w \in Nat /\ m <= w /\ C(m) = C(w) /\ w < p
        /\ \A r \in M!Cells : m <= r /\ r <= w => C(r) = C(w)
    BY <1>2, <1>3, <1>4, <2>1, <2>3
  <2>5. m \in starts
    <3> SUFFICES ASSUME m # 0, C(M!Max(M!Above(m))) = C(m) PROVE FALSE
      BY <1>5, <2>4
    <3>1. 0 \in M!Above(m)
      BY <1>2, <2>4 DEF M!Above
    <3>2. PICK x \in M!Cells :
            x = M!Max(M!Above(m)) /\ x < m /\ \A r \in M!Cells : r < m => r <= x
      BY <2>4, <3>1, CellBefore
    <3>3. x \in Nat /\ C(x) = C(m) /\ x < p /\ x \in words
      BY <1>2, <1>3, <1>4, <2>4, <3>2
    <3>4. ASSUME NEW r \in M!Cells, x <= r, r <= w PROVE C(r) = C(w)
      <4>1. r \in Nat
        BY <1>2
      <4>2. r = x \/ m <= r
        BY <2>4, <3>2, <3>3, <3>4, <4>1
      <4> QED BY <2>4, <3>3, <3>4, <4>2
    <3>5. x \in run
      BY <3>3, <3>4
    <3> QED BY <2>3, <2>4, <3>2, <3>3, <3>5
  <2>6. ASSUME NEW s \in starts PROVE s <= m
    <3> SUFFICES ASSUME s > m PROVE FALSE
      BY <1>6, <2>4
    <3>1. s \in above /\ C(s) # "white" /\ s \in M!Cells /\ s \in Nat /\ s < p
      BY <1>2, <1>3, <1>5
    <3>2. s \in words /\ s <= w
      BY <1>4, <2>1, <3>1
    <3>3. m \in M!Above(s)
      BY <2>4, <3>1 DEF M!Above
    <3>4. PICK x \in M!Cells :
            x = M!Max(M!Above(s)) /\ x < s /\ \A r \in M!Cells : r < s => r <= x
      BY <3>1, <3>3, CellBefore
    <3>5. x \in Nat /\ m <= x /\ x <= w
      BY <1>2, <2>4, <3>1, <3>2, <3>4
    <3>6. C(x) = C(w) /\ C(s) = C(w)
      BY <2>4, <3>1, <3>2, <3>5
    <3>7. s = 0 \/ C(x) # C(s)
      BY <1>5, <3>4
    <3> QED BY <2>4, <3>1, <3>6, <3>7
  <2>7. starts \cup {0} \in SUBSET Nat /\ \A s \in starts \cup {0} : s <= m
    BY <1>6, <2>4, <2>6
  <2>8. M!Max(starts \cup {0}) = m
    BY <2>5, <2>7, GreatestIs
  <2> QED BY <1>1, <1>9, <2>3, <2>8 DEF starts, above
<1> QED BY <1>7, <1>8, <1>9

LEMMA EndOfWordAgrees ==
    ASSUME Written, NEW p \in M!Cells, NEW big
    PROVE  M!EndOfWord(p, big) = M!Min((M!Ends(big) \cap M!Below(p)) \cup {M!LastCell})
<1> DEFINE C(q) == M!Class(q, big)
           below == M!Below(p)
           words == {q \in below : ~ M!White(q, big)}
           w == M!Min(words)
           run == {q \in words : \A r \in M!Cells : w <= r /\ r <= q => C(r) = C(w)}
           ends == M!Ends(big) \cap below
           last == M!LastCell
<1>1. M!EndOfWord(p, big) =
        IF below = {} THEN p ELSE IF words = {} THEN last ELSE M!Max(run)
  BY Zenon DEF M!EndOfWord
<1>2. M!Cells \in SUBSET Nat /\ last \in M!Cells /\ last \in Nat /\ \A q \in M!Cells : q <= last
  BY CellsOrdered
<1>3. below = {q \in M!Cells : q > p} /\ below \in SUBSET M!Cells /\ p \in Nat
  BY <1>2 DEF M!Below
<1>4. \A q : q \in words <=> q \in below /\ C(q) # "white"
  BY DEF M!White
<1>5. \A q : q \in ends <=> q \in below /\ C(q) # "white"
                             /\ (q = last \/ C(M!Min(M!Below(q))) # C(q))
  BY <1>3 DEF M!Ends, M!White
<1>6. ends \in SUBSET below /\ ends \in SUBSET Nat /\ below \in SUBSET Nat
  BY <1>2, <1>3
<1> HIDE DEF words, ends, below, last, C
<1>7. CASE below = {}
  <2>1. p = last
    BY <1>2, <1>3, <1>7
  <2>2. ends \cup {last} = {last}
    BY <1>6, <1>7
  <2>3. M!Min({last}) = last
    BY <1>2, LeastIs
  <2> QED BY <1>1, <1>7, <2>1, <2>2, <2>3 DEF ends, below, last
<1>8. CASE below # {} /\ words = {}
  <2>1. ends \cup {last} = {last}
    BY <1>4, <1>5, <1>8
  <2>2. M!Min({last}) = last
    BY <1>2, LeastIs
  <2> QED BY <1>1, <1>8, <2>1, <2>2 DEF ends, below, last
<1>9. CASE below # {} /\ words # {}
  <2>1. w \in words /\ \A q \in words : w <= q
    BY <1>4, <1>6, <1>9, LeastOf
  <2>2. w \in run /\ run \in SUBSET M!CellsOf(buffer)
    <3>1. w \in Nat /\ run \in SUBSET M!CellsOf(buffer)
      BY <1>3, <1>4, <1>6, <2>1 DEF M!Cells
    <3>2. \A r \in M!Cells : w <= r /\ r <= w => C(r) = C(w)
      BY <1>2, <3>1
    <3> QED BY <2>1, <3>1, <3>2
  <2> HIDE DEF w
  <2>3. PICK e \in run : e = M!Max(run) /\ \A q \in run : e >= q
    BY <2>2, EndsOf DEF Written
  <2>4. /\ e \in words /\ e \in below /\ e \in M!Cells /\ e \in Nat /\ e > p /\ C(e) # "white"
        /\ w \in Nat /\ w <= e /\ C(e) = C(w) /\ w > p
        /\ \A r \in M!Cells : w <= r /\ r <= e => C(r) = C(w)
    BY <1>2, <1>3, <1>4, <2>1, <2>3
  <2>5. e \in ends
    <3> SUFFICES ASSUME e # last, C(M!Min(M!Below(e))) = C(e) PROVE FALSE
      BY <1>5, <2>4
    <3>1. last \in M!Below(e)
      BY <1>2, <2>4 DEF M!Below
    <3>2. PICK x \in M!Cells :
            x = M!Min(M!Below(e)) /\ x > e /\ \A r \in M!Cells : r > e => r >= x
      BY <2>4, <3>1, CellBehind
    <3>3. x \in Nat /\ C(x) = C(e) /\ x > p /\ x \in words
      BY <1>2, <1>3, <1>4, <2>4, <3>2
    <3>4. ASSUME NEW r \in M!Cells, w <= r, r <= x PROVE C(r) = C(w)
      <4>1. r \in Nat
        BY <1>2
      <4>2. r = x \/ r <= e
        BY <2>4, <3>2, <3>3, <3>4, <4>1
      <4> QED BY <2>4, <3>3, <3>4, <4>2
    <3>5. x \in run
      BY <3>3, <3>4
    <3> QED BY <2>3, <2>4, <3>2, <3>3, <3>5
  <2>6. ASSUME NEW s \in ends PROVE e <= s
    <3> SUFFICES ASSUME s < e PROVE FALSE
      BY <1>6, <2>4
    <3>1. s \in below /\ C(s) # "white" /\ s \in M!Cells /\ s \in Nat /\ s > p
      BY <1>2, <1>3, <1>5
    <3>2. s \in words /\ w <= s
      BY <1>4, <2>1, <3>1
    <3>3. e \in M!Below(s)
      BY <2>4, <3>1 DEF M!Below
    <3>4. PICK x \in M!Cells :
            x = M!Min(M!Below(s)) /\ x > s /\ \A r \in M!Cells : r > s => r >= x
      BY <3>1, <3>3, CellBehind
    <3>5. x \in Nat /\ w <= x /\ x <= e
      BY <1>2, <2>4, <3>1, <3>2, <3>4
    <3>6. C(x) = C(w) /\ C(s) = C(w)
      BY <2>4, <3>1, <3>2, <3>5
    <3>7. s = last \/ C(x) # C(s)
      BY <1>5, <3>4
    <3>8. s # last
      BY <1>2, <2>4, <3>1
    <3> QED BY <3>6, <3>7, <3>8
  <2>7. ends \cup {last} \in SUBSET Nat /\ \A s \in ends \cup {last} : e <= s
    BY <1>2, <1>6, <2>4, <2>6
  <2>8. M!Min(ends \cup {last}) = e
    BY <2>5, <2>7, LeastIs
  <2> QED BY <1>1, <1>9, <2>3, <2>8 DEF ends, below, last
<1> QED BY <1>7, <1>8, <1>9

\* w, b and e find the words, whatever the rows hold.
LEMMA WordsHold ==
    ASSUME Written, cursor \in M!Cells
    PROVE  M!WordsAgree
BY NextWordAgrees, PrevWordAgrees, EndOfWordAgrees, Zenon DEF M!WordsAgree

-----------------------------------------------------------------------------
(* Boundaries.                                                             *)

\* Where a stretch of cells ends, and where it begins.
LEMMA StretchesOn ==
    ASSUME Sized, NEW p \in Nat, NEW space, NEW n \in Nat,
           n = p \/ (n = p + 1 /\ n <= M!Pos(M!Row(p), Cols - 1) /\ space = M!Space(n))
    PROVE  M!Stretch(p, space) >= n /\ M!Stretch(p, space) \in Nat
<1> DEFINE I == {q \in p .. M!Pos(M!Row(p), Cols - 1) :
                   \A r \in p + 1 .. q : M!Space(r) = space} \cup {p}
<1>1. PICK last \in Nat : last = M!Pos(M!Row(p), Cols - 1)
  <2>1. Cols - 1 \in 0 .. Cols /\ M!Row(p) \in Nat
    BY Split DEF Sized
  <2> QED BY <2>1, PosOf
<1>2. I \in SUBSET Nat /\ I # {} /\ \A i \in I : i <= p + last
  BY <1>1
<1>3. p + last \in Nat
  OBVIOUS
<1>4. n \in I
  <2>1. CASE n = p
    BY <2>1
  <2>2. CASE n = p + 1 /\ n <= M!Pos(M!Row(p), Cols - 1) /\ space = M!Space(n)
    <3>1. \A r \in p + 1 .. n : r = n
      BY <2>2
    <3> QED BY <1>1, <2>2, <3>1
  <2> QED BY <2>1, <2>2
<1> HIDE DEF I
<1>5. M!Max(I) \in I /\ \A i \in I : M!Max(I) >= i
  BY <1>2, <1>3, GreatestOf
<1> QED BY <1>2, <1>4, <1>5 DEF M!Stretch, I

LEMMA StretchesBack ==
    ASSUME Sized, NEW p \in Nat, NEW space, NEW n \in Nat,
           n = p \/ (n = p - 1 /\ n >= M!Pos(M!Row(p), 0) /\ space = M!Space(n))
    PROVE  M!StretchBack(p, space) <= n /\ M!StretchBack(p, space) \in Nat
<1> DEFINE I == {q \in M!Pos(M!Row(p), 0) .. p : \A r \in q .. p - 1 : M!Space(r) = space}
<1>1. PICK first \in Nat : first = M!Pos(M!Row(p), 0) /\ first <= p
  <2>1. PICK r \in Nat, c \in 0 .. Cols : r = M!Row(p) /\ p = M!Pos(r, c)
    BY Split
  <2>2. 0 \in 0 .. Cols /\ c \in Nat /\ Cols \in Nat
    BY DEF Sized
  <2>3. M!Pos(r, 0) \in Nat /\ ~ (M!Pos(r, c) < M!Pos(r, 0))
    BY <2>2, PosOf, PosLess
  <2> QED BY <2>1, <2>3
<1>2. I \in SUBSET Nat
  BY <1>1
<1>3. n \in I
  <2>1. CASE n = p
    BY <1>1, <2>1
  <2>2. CASE n = p - 1 /\ n >= M!Pos(M!Row(p), 0) /\ space = M!Space(n)
    <3>1. \A r \in n .. p - 1 : r = n
      BY <2>2
    <3> QED BY <1>1, <2>2, <3>1
  <2> QED BY <2>1, <2>2
<1> HIDE DEF I
<1>4. M!Min(I) <= n /\ M!Min(I) \in Nat
  BY <1>2, <1>3, LeastOf
<1> QED BY <1>4 DEF M!StretchBack, I

\* The space key gets on, and back, from every cell.
LEMMA BoundariesHold ==
    ASSUME Written, cursor \in M!Cells
    PROVE  M!BoundariesAdvance
<1>1. PICK r \in Nat, c \in 0 .. Cols :
        r = M!Row(cursor) /\ c = M!Col(cursor) /\ cursor = M!Pos(r, c)
        /\ r < Len(buffer) /\ c < Cols /\ cursor \in Nat
  BY CellsOf, Split DEF Written, M!Cells
<1>2. Sized /\ Cols \in Nat \ {0} /\ Len(buffer) \in Nat /\ 0 \in 0 .. Cols /\ Cols - 1 \in 0 .. Cols
  BY DEF Written, Sized
<1>3. ASSUME c < Cols - 1, M!Char(cursor + 1) # "empty"
      PROVE  M!NextBoundary(cursor) > cursor
  <2>1. cursor + 1 = M!Pos(r, c + 1)
    BY <1>1, <1>2 DEF M!Pos
  <2>2. c + 1 \in 0 .. Cols
    BY <1>1, <1>2, <1>3
  <2>3. ~ (M!Pos(r, Cols - 1) < M!Pos(r, c + 1))
    BY <1>1, <1>2, <1>3, <2>2, PosLess
  <2>4. M!Pos(r, Cols - 1) \in Nat
    BY <1>2, PosOf
  <2>5. cursor + 1 <= M!Pos(r, Cols - 1)
    BY <1>1, <2>1, <2>3, <2>4
  <2>6. PICK n \in Nat : n = cursor + 1
    BY <1>1
  <2>7. n <= M!Pos(M!Row(cursor), Cols - 1)
    BY <1>1, <2>5, <2>6
  <2>8. M!Stretch(cursor, M!Space(n)) >= n /\ M!Stretch(cursor, M!Space(n)) \in Nat
    BY <1>1, <1>2, <2>6, <2>7, StretchesOn
  <2>9. M!NextBoundary(cursor) = M!Stretch(cursor, M!Space(n))
    BY <1>1, <1>2, <1>3, <2>6 DEF M!NextBoundary
  <2> QED BY <1>1, <2>6, <2>8, <2>9
<1>4. ASSUME c < Cols - 1, M!Char(cursor + 1) = "empty", r # Len(buffer) - 1
      PROVE  M!NextBoundary(cursor) > cursor
  <2>1. PICK next \in Nat : next = M!Pos(r + 1, 0) /\ M!Row(next) = r + 1 /\ M!Col(next) = 0
    BY <1>2, PosOf
  <2>2. next \in M!Cells
    BY <1>1, <1>2, <1>4, <2>1, CellsOf DEF M!Cells
  <2>3. cursor < next
    <3>1. PICK s \in Nat : s = r + 1
      BY <1>1
    <3>2. PICK z \in 0 .. Cols : z = 0
      BY <1>2
    <3>3. r < s
      BY <3>1
    <3>4. M!Pos(r, c) < M!Pos(s, z)
      BY <1>2, <3>3, PosLess
    <3> QED BY <1>1, <2>1, <3>1, <3>2, <3>4
  <2>4. M!Stretch(next, M!Space(next)) >= next /\ M!Stretch(next, M!Space(next)) \in Nat
    BY <1>2, StretchesOn
  <2>5. M!NextBoundary(cursor) = M!Stretch(next, M!Space(next))
    <3>1. M!Pos(M!Row(cursor) + 1, 0) = next
      BY <1>1, <2>1, Zenon
    <3>2. ~ (c >= Cols - 1)
      BY <1>2, <1>4
    <3>3. ~ (M!Col(cursor) >= Cols - 1)
      BY <1>1, <3>2, Zenon
    <3> QED BY <1>4, <2>2, <3>1, <3>3, Zenon DEF M!NextBoundary
  <2> QED BY <1>1, <2>3, <2>4, <2>5
<1>5. ASSUME c > 0 PROVE M!PrevBoundary(cursor) < cursor
  <2>1. cursor - 1 = M!Pos(r, c - 1)
    BY <1>1, <1>2 DEF M!Pos
  <2>2. c - 1 \in 0 .. Cols
    BY <1>1, <1>2, <1>5
  <2>3. ~ (M!Pos(r, c - 1) < M!Pos(r, 0)) /\ M!Pos(r, c - 1) \in Nat /\ M!Pos(r, 0) \in Nat
    BY <1>2, <2>2, PosLess, PosOf
  <2>4. PICK n \in Nat : n = cursor - 1 /\ n >= M!Pos(M!Row(cursor), 0)
    BY <1>1, <2>1, <2>3
  <2>5. M!StretchBack(cursor, M!Space(n)) <= n /\ M!StretchBack(cursor, M!Space(n)) \in Nat
    BY <1>1, <1>2, <2>4, StretchesBack
  <2>6. M!PrevBoundary(cursor) = M!StretchBack(cursor, M!Space(n))
    BY <1>1, <1>5, <2>4 DEF M!PrevBoundary
  <2> QED BY <1>1, <2>4, <2>5, <2>6
<1>6. ASSUME c = 0, r > 0 PROVE M!PrevBoundary(cursor) < cursor
  <2>1. PICK end \in Nat : end = M!Pos(r - 1, Cols - 1)
    BY <1>2, <1>6, PosOf
  <2>2. end < cursor
    <3>1. PICK s \in Nat, e \in 0 .. Cols : s = r - 1 /\ e = Cols - 1
      BY <1>1, <1>2, <1>6
    <3>2. s < r
      BY <3>1
    <3>3. M!Pos(s, e) < M!Pos(r, c)
      BY <1>2, <3>2, PosLess
    <3> QED BY <1>1, <2>1, <3>1, <3>3
  <2>3. M!StretchBack(end, M!Space(end)) <= end /\ M!StretchBack(end, M!Space(end)) \in Nat
    BY <1>2, StretchesBack
  <2>4. M!PrevBoundary(cursor) = M!StretchBack(end, M!Space(end))
    <3>1. M!Pos(M!Row(cursor) - 1, Cols - 1) = end /\ M!Row(cursor) > 0
      BY <1>1, <1>6, <2>1, Zenon
    <3>2. ~ (c > 0)
      BY <1>6
    <3>3. ~ (M!Col(cursor) > 0)
      BY <1>1, <3>2, Zenon
    <3> QED BY <3>1, <3>3, Zenon DEF M!PrevBoundary
  <2> QED BY <1>1, <2>2, <2>3, <2>4
<1>7. ASSUME c = 0, r = 0 PROVE cursor = 0
  BY <1>1, <1>2, <1>7 DEF M!Pos
<1>8. c \in Nat /\ (c >= Cols - 1 \/ c < Cols - 1)
  BY <1>1, <1>2
<1>9. M!NextBoundary(cursor) > cursor \/ c >= Cols - 1
      \/ (M!Char(cursor + 1) = "empty" /\ r = Len(buffer) - 1)
  BY <1>3, <1>4, <1>8
<1>10. M!PrevBoundary(cursor) < cursor \/ cursor = 0
  BY <1>1, <1>5, <1>6, <1>7, <1>8
<1> QED BY <1>1, <1>9, <1>10 DEF M!BoundariesAdvance

-----------------------------------------------------------------------------
(* The manager.                                                            *)

MarkInv ==
    /\ buffer \in Seq(M!RowTexts) /\ Screen <= Len(buffer)
    /\ active \in BOOLEAN /\ selecting \in BOOLEAN /\ given \in BOOLEAN
    /\ cursor \in Nat /\ anchor \in Nat
    /\ M!InBuffer /\ M!SelectsTheMark

LEMMA Buffered ==
    ASSUME Sized, MarkInv
    PROVE  Written
<1>1. Len(buffer) \in Nat /\ Screen \in Nat \ {0} /\ Screen <= Len(buffer)
  BY DEF MarkInv, Sized
<1> QED BY <1>1 DEF Written

LEMMA Clamped ==
    ASSUME NEW n \in Int, NEW high \in Nat
    PROVE  /\ M!Within(n, 0, high) \in 0 .. high
           /\ n \in 0 .. high => M!Within(n, 0, high) = n
BY DEF M!Within

LEMMA PosCell ==
    ASSUME NEW b, NEW r \in 0 .. Len(b) - 1, NEW c \in 0 .. Cols - 1
    PROVE  M!Pos(r, c) \in M!CellsOf(b)
BY DEF M!CellsOf

LEMMA MarkInit ==
    ASSUME Sized, M!Init
    PROVE  MarkInv
<1>1. buffer \in Seq(M!RowTexts) /\ Len(buffer) = Screen
  BY DEF M!Init, Sized
<1>2. sel = {} /\ active = FALSE /\ cursor = 0 /\ anchor = 0 /\ selecting = FALSE
      /\ given = FALSE
  BY DEF M!Init
<1>3. M!InBuffer /\ M!SelectsTheMark
  BY <1>2 DEF M!InBuffer, M!SelectsTheMark
<1>4. Screen <= Len(buffer)
  BY <1>1 DEF Sized
<1>5. active \in BOOLEAN /\ selecting \in BOOLEAN /\ given \in BOOLEAN
  BY <1>2
<1>6. cursor \in Nat /\ anchor \in Nat
  BY <1>2
<1> QED BY <1>1, <1>3, <1>4, <1>5, <1>6, Zenon DEF MarkInv

LEMMA SetsCursor ==
    ASSUME Sized, MarkInv, NEW col \in Int, NEW row \in Int, NEW extend \in BOOLEAN,
           M!SetCursor(col, row, extend)
    PROVE  MarkInv'
<1>1. /\ active /\ active' = active /\ buffer' = buffer /\ selecting' = extend
      /\ anchor' = IF extend THEN anchor ELSE cursor'
      /\ sel' = IF extend THEN M!Marked(buffer, anchor, cursor') ELSE {}
      /\ given' = (anchor' \notin M!Cells)
  BY DEF M!SetCursor
<1>2. cursor' \in M!CellsOf(buffer)
  <2>1. Len(buffer) - 1 \in Nat /\ Cols - 1 \in Nat
    BY Buffered DEF Written, Sized
  <2>2. PICK r \in 0 .. Len(buffer) - 1, c \in 0 .. Cols - 1 : cursor' = M!Pos(r, c)
    BY <2>1, Clamped DEF M!SetCursor
  <2> QED BY <2>2, PosCell
<1>3. M!CellsOf(buffer) \in SUBSET Nat /\ Len(buffer) \in Nat
  BY Buffered, CellsBelow DEF Written
<1>4. anchor' \in Nat /\ cursor' \in Nat
  BY <1>1, <1>2, <1>3 DEF MarkInv
<1>5. sel' \in SUBSET M!CellsOf(buffer)
  BY <1>1 DEF M!Marked
<1>6. anchor' \in M!CellsOf(buffer) \/ (given' /\ anchor' - 1 \in M!CellsOf(buffer))
  BY <1>1, <1>2 DEF MarkInv, M!InBuffer, M!Cells
<1>7. M!InBuffer'
  BY <1>1, <1>2, <1>5, <1>6 DEF M!InBuffer, M!Cells
<1>8. M!SelectsTheMark'
  <2> SUFFICES ASSUME anchor' \in M!CellsOf(buffer)
               PROVE  sel' = {p \in M!CellsOf(buffer) :
                                extend /\ M!Min({anchor', cursor'}) <= p
                                       /\ p <= M!Max({anchor', cursor'})}
    BY <1>1, <1>6 DEF M!SelectsTheMark, M!Cells
  <2>1. CASE extend
    BY <1>1, <1>2, <1>3, <2>1, MarkedCells
  <2>2. CASE ~ extend
    BY <1>1, <2>2
  <2> QED BY <2>1, <2>2
<1> QED BY <1>1, <1>4, <1>7, <1>8 DEF MarkInv

LEMMA Turns ==
    ASSUME Sized, MarkInv, M!ToggleVisual
    PROVE  MarkInv'
<1>1. CASE selecting
  <2>1. /\ active /\ active' = active /\ buffer' = buffer /\ selecting' = FALSE
        /\ anchor' = cursor /\ cursor' = cursor /\ sel' = {} /\ given' = (cursor \notin M!Cells)
    BY <1>1 DEF M!ToggleVisual
  <2>2. M!InBuffer'
    BY <2>1 DEF MarkInv, M!InBuffer, M!Cells
  <2>3. M!SelectsTheMark'
    BY <2>1 DEF M!SelectsTheMark
  <2> QED BY <2>1, <2>2, <2>3 DEF MarkInv
<1>2. CASE ~ selecting
  <2>1. M!Col(cursor) \in Int /\ M!Row(cursor) \in Int
    <3>1. PICK p \in Nat : p = cursor
      BY DEF MarkInv
    <3>2. M!Row(p) \in Nat /\ M!Col(p) \in 0 .. Cols
      BY Split
    <3>3. M!Row(p) \in Int /\ M!Col(p) \in Int
      BY <3>2
    <3> QED BY <3>1, <3>3
  <2>2. M!SetCursor(M!Col(cursor), M!Row(cursor), TRUE)
    BY <1>2 DEF M!ToggleVisual, M!Goto
  <2> QED BY <2>1, <2>2, SetsCursor
<1> QED BY <1>1, <1>2

LEMMA SelectsAll ==
    ASSUME Sized, MarkInv, M!SelectAll
    PROVE  MarkInv'
<1>1. /\ sel' = M!Cells /\ given' = TRUE
      /\ UNCHANGED <<buffer, active, cursor, anchor, selecting, copying>>
  BY DEF M!SelectAll
<1>2. M!InBuffer'
  BY <1>1 DEF MarkInv, M!InBuffer, M!Cells
<1>3. M!SelectsTheMark'
  BY <1>1 DEF M!SelectsTheMark
<1> QED BY <1>1, <1>2, <1>3 DEF MarkInv

\* Nothing is marked outside mark mode.
LEMMA Leaves ==
    ASSUME MarkInv, M!Off, sel' \in SUBSET M!CellsOf(buffer'),
           buffer' \in Seq(M!RowTexts), Screen <= Len(buffer')
    PROVE  MarkInv'
<1>1. active' = FALSE /\ cursor' = 0 /\ anchor' = 0 /\ selecting' = FALSE /\ given' = FALSE
  BY DEF M!Off
<1>2. M!InBuffer' /\ M!SelectsTheMark'
  BY <1>1 DEF M!InBuffer, M!SelectsTheMark, M!Cells
<1> QED BY <1>1, <1>2 DEF MarkInv

LEMMA Selections ==
    ASSUME MarkInv, ~ active,
           UNCHANGED <<buffer, active, cursor, anchor, selecting, copying, given>>,
           sel' \in SUBSET M!CellsOf(buffer)
    PROVE  MarkInv'
<1>1. M!InBuffer' /\ M!SelectsTheMark'
  BY DEF MarkInv, M!InBuffer, M!SelectsTheMark, M!Cells
<1> QED BY <1>1 DEF MarkInv

LEMMA Enters ==
    ASSUME Sized, MarkInv, M!Enter
    PROVE  MarkInv'
<1>1. Len(buffer) \in Nat /\ Screen \in Nat /\ Screen <= Len(buffer) /\ buffer' = buffer
      /\ M!CellsOf(buffer) \in SUBSET Nat /\ active' = TRUE /\ sel \in SUBSET M!CellsOf(buffer)
  BY Buffered, CellsBelow DEF M!Enter, Written, Sized, MarkInv, M!InBuffer, M!Cells
<1>2. CASE sel # {}
  <2>1. /\ anchor' = M!Min(sel) /\ cursor' = M!Max(sel) + 1
        /\ selecting' = TRUE /\ given' = TRUE /\ sel' = sel
    BY <1>2 DEF M!Enter
  <2>2. PICK first \in sel, last \in sel : first = M!Min(sel) /\ last = M!Max(sel)
    BY <1>1, <1>2, EndsOf
  <2>3. first \in M!CellsOf(buffer) /\ last \in M!CellsOf(buffer) /\ first \in Nat /\ last \in Nat
    BY <1>1
  <2>4. cursor' \in Nat /\ cursor' - 1 = last /\ anchor' = first
    BY <2>1, <2>2, <2>3
  <2>5. M!InBuffer'
    BY <1>1, <2>1, <2>3, <2>4 DEF M!InBuffer, M!Cells
  <2>6. M!SelectsTheMark'
    BY <2>1 DEF M!SelectsTheMark
  <2> QED BY <1>1, <2>1, <2>3, <2>4, <2>5, <2>6 DEF MarkInv
<1>3. CASE sel = {}
  <2>1. /\ anchor' = cursor' /\ selecting' = FALSE /\ given' = FALSE /\ sel' = {}
    BY <1>3 DEF M!Enter
  <2>2. PICK row \in Len(buffer) - Screen .. Len(buffer) - 1, col \in 0 .. Cols - 1 :
          cursor' = M!Pos(row, col)
    BY <1>3 DEF M!Enter
  <2>3. row \in 0 .. Len(buffer) - 1
    BY <1>1
  <2>4. cursor' \in M!CellsOf(buffer) /\ cursor' \in Nat
    BY <1>1, <2>2, <2>3, PosCell
  <2>5. M!InBuffer'
    BY <1>1, <2>1, <2>4 DEF M!InBuffer, M!Cells
  <2>6. M!SelectsTheMark'
    BY <2>1 DEF M!SelectsTheMark
  <2> QED BY <1>1, <2>1, <2>4, <2>5, <2>6 DEF MarkInv
<1> QED BY <1>2, <1>3

-----------------------------------------------------------------------------
(* The buffer.                                                             *)

\* The place behind a cell is a cell, or behind the row.
LEMMA Behind ==
    ASSUME Sized, NEW b, Len(b) \in Nat, NEW p \in Nat, p - 1 \in M!CellsOf(b)
    PROVE  M!Row(p) = M!Row(p - 1) /\ M!Col(p) = M!Col(p - 1) + 1
<1>1. PICK q \in Nat : q = p - 1 /\ q \in M!CellsOf(b)
  BY CellsBelow
<1>2. PICK r \in Nat, c \in 0 .. Cols : r = M!Row(q) /\ c = M!Col(q) /\ q = M!Pos(r, c) /\ c < Cols
  BY <1>1, CellsOf, Split
<1>3. c + 1 \in 0 .. Cols /\ Cols \in Nat
  BY <1>2 DEF Sized
<1>4. p = M!Pos(r, c + 1)
  BY <1>1, <1>2, <1>3 DEF M!Pos
<1> QED BY <1>1, <1>2, <1>3, <1>4, PosOf

\* A place that is kept within the rows is a cell again, or behind one.
LEMMA KeptWithin ==
    ASSUME Sized, NEW b, NEW e, Len(b) \in Nat, Len(e) \in Nat \ {0}, NEW p \in Nat, NEW q,
           p \in M!CellsOf(b) \/ p - 1 \in M!CellsOf(b),
           q = M!Pos(M!Within(M!Row(p), 0, Len(e) - 1), M!Col(p))
    PROVE  /\ q \in Nat /\ (q \in M!CellsOf(e) \/ q - 1 \in M!CellsOf(e))
           /\ p \in M!CellsOf(b) => q \in M!CellsOf(e)
<1>1. PICK r \in Nat, c \in 0 .. Cols : r = M!Row(p) /\ c = M!Col(p)
  BY Split
<1>2. PICK s \in 0 .. Len(e) - 1 : s = M!Within(M!Row(p), 0, Len(e) - 1)
  <2>1. PICK n \in Nat, high \in Nat : n = r /\ high = Len(e) - 1
    <3>1. PICK m \in Nat \ {0} : m = Len(e)
      BY Zenon
    <3>2. m - 1 \in Nat
      OBVIOUS
    <3> QED BY <3>1, <3>2, Zenon
  <2>2. M!Within(n, 0, high) \in 0 .. high
    <3>1. n \in Int
      OBVIOUS
    <3> QED BY <3>1, Clamped
  <2> QED BY <1>1, <2>1, <2>2
<1>3. q = M!Pos(s, c) /\ s \in Nat /\ Cols \in Nat \ {0}
  BY <1>1, <1>2 DEF Sized
<1>4. q \in Nat
  BY <1>3, PosOf
<1>5. ASSUME c < Cols PROVE q \in M!CellsOf(e)
  <2>1. c \in 0 .. Cols - 1
    BY <1>3, <1>5
  <2> QED BY <1>3, <2>1, PosCell
<1>6. ASSUME c = Cols PROVE q - 1 \in M!CellsOf(e)
  <2>1. Cols - 1 \in 0 .. Cols - 1
    BY <1>3
  <2>2. q - 1 = M!Pos(s, Cols - 1)
    BY <1>3, <1>6 DEF M!Pos
  <2> QED BY <2>1, <2>2, PosCell
<1>7. p \in M!CellsOf(b) => c < Cols
  BY <1>1, CellsOf
<1> QED BY <1>3, <1>4, <1>5, <1>6, <1>7

LEMMA BufferChanges ==
    ASSUME Sized, MarkInv, NEW moved \in SUBSET M!CellsOf(buffer'), sel = {} => moved = {},
           buffer' \in Seq(M!RowTexts), Screen <= Len(buffer'), M!OnBufferChange(moved)
    PROVE  MarkInv'
<1>1. Len(buffer) \in Nat /\ Len(buffer') \in Nat \ {0}
  BY Buffered DEF Written, Sized
<1>2. CASE ~ active
  <2>1. sel' = moved /\ UNCHANGED <<active, cursor, anchor, selecting, given>>
    BY <1>2 DEF M!OnBufferChange
  <2>2. M!InBuffer' /\ M!SelectsTheMark'
    BY <1>2, <2>1 DEF M!InBuffer, M!SelectsTheMark, M!Cells
  <2> QED BY <2>1, <2>2 DEF MarkInv
<1>3. CASE active /\ Len(buffer') <= Screen /\ M!Row(cursor) > Len(buffer')
  <2>1. sel' = moved /\ M!Off
    BY <1>3 DEF M!OnBufferChange
  <2> QED BY <2>1, Leaves
<1>4. CASE active /\ ~ (Len(buffer') <= Screen /\ M!Row(cursor) > Len(buffer'))
  <2> DEFINE clamped(p) == M!Pos(M!Within(M!Row(p), 0, Len(buffer') - 1), M!Col(p))
             Old == M!CellsOf(buffer)
             New == M!CellsOf(buffer')
  <2>1. /\ cursor' = clamped(cursor) /\ anchor' = clamped(anchor)
        /\ sel' = IF selecting THEN M!Marked(buffer', cursor', anchor') ELSE moved
        /\ active' = active /\ selecting' = selecting /\ given' = given
    BY <1>4, Zenon DEF M!OnBufferChange
  <2>2. /\ cursor \in Nat /\ (cursor \in Old \/ (given /\ cursor - 1 \in Old))
        /\ anchor \in Nat /\ (anchor \in Old \/ (given /\ anchor - 1 \in Old))
    BY <1>4 DEF MarkInv, M!InBuffer, M!Cells
  <2>3. ASSUME NEW p \in Nat, p \in Old \/ p - 1 \in Old
        PROVE  /\ clamped(p) \in Nat /\ (clamped(p) \in New \/ clamped(p) - 1 \in New)
               /\ p \in Old => clamped(p) \in New
    BY <1>1, <2>3, KeptWithin
  <2>4. /\ cursor' \in Nat /\ (cursor' \in New \/ cursor' - 1 \in New) /\ (~ given => cursor' \in New)
        /\ anchor' \in Nat /\ (anchor' \in New \/ anchor' - 1 \in New) /\ (~ given => anchor' \in New)
    <3> HIDE DEF clamped, Old, New
    <3> QED BY <2>1, <2>2, <2>3
  <2>5. sel' \in SUBSET New
    BY <2>1 DEF M!Marked
  <2>6. M!InBuffer'
    BY <2>1, <2>4, <2>5 DEF M!InBuffer, M!Cells, MarkInv
  <2>7. M!SelectsTheMark'
    <3> SUFFICES ASSUME ~ given
                 PROVE  sel' = {p \in New : selecting /\ M!Min({anchor', cursor'}) <= p
                                                      /\ p <= M!Max({anchor', cursor'})}
      BY <2>1 DEF M!SelectsTheMark, M!Cells
    <3>1. CASE selecting
      <4>1. {anchor', cursor'} = {cursor', anchor'}
        OBVIOUS
      <4>5. PICK e : e = buffer'
        OBVIOUS
      <4>2. PICK p \in New, q \in New : p = cursor' /\ q = anchor' /\ e = buffer'
        BY <2>4, <4>5
      <4>3. M!Marked(e, p, q) = {i \in M!CellsOf(e) : M!Min({p, q}) <= i /\ i <= M!Max({p, q})}
        BY <1>1, <4>2, MarkedCells
      <4>4. sel' = {i \in New : M!Min({p, q}) <= i /\ i <= M!Max({p, q})}
        BY <2>1, <3>1, <4>2, <4>3
      <4> QED BY <3>1, <4>1, <4>2, <4>4
    <3>2. CASE ~ selecting
      <4>1. sel = {}
        BY <1>4, <3>2 DEF MarkInv, M!SelectsTheMark
      <4> QED BY <2>1, <3>2, <4>1
    <3> QED BY <3>1, <3>2
  <2> QED BY <2>1, <2>4, <2>6, <2>7 DEF MarkInv
<1> QED BY <1>2, <1>3, <1>4 DEF MarkInv

\* What is left of a selection when rows go is in the buffer.
LEMMA Trims ==
    ASSUME Sized, MarkInv, NEW n \in Nat, NEW e, Len(e) \in Nat, Len(buffer) - n <= Len(e)
    PROVE  M!Trimmed(n) \in SUBSET M!CellsOf(e) /\ (sel = {} => M!Trimmed(n) = {})
<1>1. Len(buffer) \in Nat /\ sel \in SUBSET M!CellsOf(buffer) /\ Cols \in Nat
  BY Buffered DEF Written, MarkInv, M!InBuffer, M!Cells, Sized
<1>2. ASSUME NEW q \in sel, M!Row(q) >= n
      PROVE  q - M!Pos(n, 0) \in M!CellsOf(e)
  <2>1. PICK r \in Nat, c \in 0 .. Cols :
          r = M!Row(q) /\ q = M!Pos(r, c) /\ r < Len(buffer) /\ c < Cols
    BY <1>1, CellsOf, Split
  <2>2. PICK s \in Nat : s = r - n
    BY <1>2, <2>1
  <2>3. r * (Cols + 1) = s * (Cols + 1) + n * (Cols + 1)
    BY <1>1, <2>2
  <2>4. PICK x \in Nat, y \in Nat : x = s * (Cols + 1) /\ y = n * (Cols + 1)
    BY <1>1, Products
  <2>5. q = x + y + c /\ M!Pos(n, 0) = y /\ M!Pos(s, c) = x + c
    BY <2>1, <2>3, <2>4 DEF M!Pos
  <2>6. q - M!Pos(n, 0) = M!Pos(s, c)
    BY <2>1, <2>4, <2>5
  <2>7. s \in 0 .. Len(e) - 1 /\ c \in 0 .. Cols - 1
    <3>1. PICK m \in Nat, k \in Nat : m = Len(e) /\ k = Len(buffer) /\ k - n <= m
      BY <1>1, Zenon
    <3>2. r < k
      BY <2>1, <3>1, Zenon
    <3>3. s < m
      BY <2>2, <3>1, <3>2
    <3>4. s < Len(e)
      BY <3>1, <3>3, Zenon
    <3> QED BY <1>1, <2>1, <3>4
  <2> QED BY <2>6, <2>7, PosCell
<1> QED BY <1>2 DEF M!Trimmed

\* The buffer is a sequence of rows after all that happens to it.
LEMMA Outputs ==
    ASSUME Sized, MarkInv, M!Output
    PROVE  MarkInv'
<1>1. PICK row \in M!RowTexts :
        LET full == Len(buffer) = MaxRows
        IN /\ buffer' = Append(IF full THEN Tail(buffer) ELSE buffer, row)
           /\ M!OnBufferChange(IF full THEN M!Trimmed(1) ELSE sel)
  BY DEF M!Output
<1>2. buffer \in Seq(M!RowTexts) /\ Len(buffer) \in Nat \ {0} /\ Screen \in Nat /\ Screen <= Len(buffer)
  BY Buffered DEF MarkInv, Written, Sized
<1>3. CASE Len(buffer) = MaxRows
  <2>1. buffer' = Append(Tail(buffer), row) /\ M!OnBufferChange(M!Trimmed(1))
    BY <1>1, <1>3
  <2>2. buffer' \in Seq(M!RowTexts) /\ Len(buffer') = Len(buffer)
    BY <1>2, <2>1
  <2>3. M!Trimmed(1) \in SUBSET M!CellsOf(buffer') /\ (sel = {} => M!Trimmed(1) = {})
    BY <1>2, <2>2, Trims
  <2> QED BY <1>2, <2>1, <2>2, <2>3, BufferChanges
<1>4. CASE Len(buffer) # MaxRows
  <2>1. buffer' = Append(buffer, row) /\ M!OnBufferChange(sel)
    BY <1>1, <1>4
  <2>2. buffer' \in Seq(M!RowTexts) /\ Len(buffer') = Len(buffer) + 1
    BY <1>2, <2>1
  <2>3. M!CellsOf(buffer) \in SUBSET M!CellsOf(buffer')
    BY <1>2, <2>2 DEF M!CellsOf
  <2>4. sel \in SUBSET M!CellsOf(buffer')
    BY <2>3 DEF MarkInv, M!InBuffer, M!Cells
  <2>5. Screen <= Len(buffer')
    BY <1>2, <2>2
  <2> QED BY <2>1, <2>2, <2>4, <2>5, BufferChanges
<1> QED BY <1>3, <1>4

LEMMA Erases ==
    ASSUME Sized, MarkInv, M!Erase
    PROVE  MarkInv'
<1>1. PICK k \in Nat, n \in Int : k = Len(buffer) /\ n = k - Screen /\ Screen \in Nat
  <2>1. Len(buffer) \in Nat /\ Screen \in Nat
    BY Buffered DEF Written, Sized
  <2>2. PICK k \in Nat : k = Len(buffer)
    BY <2>1, Zenon
  <2>3. k - Screen \in Int
    BY <2>1
  <2> QED BY <2>1, <2>2, <2>3
<1>2. n > 0 /\ buffer' = SubSeq(buffer, n + 1, k) /\ M!OnBufferChange(M!Trimmed(n))
  BY <1>1, Zenon DEF M!Erase
<1>3. buffer \in Seq(M!RowTexts) /\ n \in Nat
  BY <1>2 DEF MarkInv
<1>4. buffer' \in Seq(M!RowTexts) /\ Len(buffer') = Screen
  BY <1>1, <1>2, <1>3
<1>5. Len(buffer) - n <= Len(buffer') /\ Len(buffer') \in Nat
  <2>1. k - n <= Screen
    BY <1>1
  <2> QED BY <1>1, <1>4, <2>1, Zenon
<1>6. M!Trimmed(n) \in SUBSET M!CellsOf(buffer') /\ (sel = {} => M!Trimmed(n) = {})
  BY <1>3, <1>5, Trims
<1>7. Screen <= Len(buffer')
  BY <1>1, <1>4
<1> QED BY <1>2, <1>4, <1>6, <1>7, BufferChanges

-----------------------------------------------------------------------------
(* The keys.                                                               *)

\* A motion leads to a place, also from behind a row.
LEMMA WordsLead ==
    ASSUME Written, NEW p \in Nat, NEW big
    PROVE  /\ M!NextWord(p, big) \in Nat /\ M!PrevWord(p, big) \in Nat
           /\ M!EndOfWord(p, big) \in Nat
<1>1. M!Cells \in SUBSET Nat /\ M!LastCell \in Nat
  BY CellsOrdered
<1>2. \A S \in SUBSET M!Cells : S # {} => M!Min(S) \in S /\ M!Max(S) \in S
  BY EndsOf DEF Written, M!Cells
<1>3. M!NextWord(p, big) \in Nat
  <2> DEFINE away == IF M!White(p, big) THEN M!Below(p) ELSE M!PastRun(M!Below(p), p, big)
             words == {q \in away : ~ M!White(q, big)}
  <2>1. words \in SUBSET M!Cells
    BY DEF M!PastRun, M!Below
  <2>2. M!NextWord(p, big) = IF M!Below(p) = {} THEN p
                             ELSE IF words = {} THEN M!LastCell ELSE M!Min(words)
    BY Zenon DEF M!NextWord
  <2> HIDE DEF words
  <2> QED BY <1>1, <1>2, <2>1, <2>2
<1>4. M!PrevWord(p, big) \in Nat
  <2> DEFINE words == {q \in M!Above(p) : ~ M!White(q, big)}
             w == M!Max(words)
             run == {q \in words : \A r \in M!Cells :
                                     q <= r /\ r <= w => M!Class(r, big) = M!Class(w, big)}
  <2>1. words \in SUBSET M!Cells /\ run \in SUBSET words
    BY DEF M!Above
  <2>2. M!PrevWord(p, big) = IF M!Above(p) = {} THEN p
                             ELSE IF words = {} THEN 0 ELSE M!Min(run)
    BY Zenon DEF M!PrevWord
  <2>3. words # {} => run # {}
    <3> SUFFICES ASSUME words # {} PROVE w \in run
      OBVIOUS
    <3>1. w \in words /\ w \in M!Cells
      BY <1>2, <2>1
    <3> HIDE DEF words, w
    <3>2. \A r \in M!Cells : w <= r /\ r <= w => r = w
      BY <1>1, <3>1
    <3> QED BY <3>1, <3>2
  <2> HIDE DEF words, run
  <2>4. run # {} => M!Min(run) \in Nat
    BY <1>1, <1>2, <2>1
  <2> QED BY <2>2, <2>3, <2>4
<1>5. M!EndOfWord(p, big) \in Nat
  <2> DEFINE words == {q \in M!Below(p) : ~ M!White(q, big)}
             w == M!Min(words)
             run == {q \in words : \A r \in M!Cells :
                                     w <= r /\ r <= q => M!Class(r, big) = M!Class(w, big)}
  <2>1. words \in SUBSET M!Cells /\ run \in SUBSET words
    BY DEF M!Below
  <2>2. M!EndOfWord(p, big) = IF M!Below(p) = {} THEN p
                              ELSE IF words = {} THEN M!LastCell ELSE M!Max(run)
    BY Zenon DEF M!EndOfWord
  <2>3. words # {} => run # {}
    <3> SUFFICES ASSUME words # {} PROVE w \in run
      OBVIOUS
    <3>1. w \in words /\ w \in M!Cells
      BY <1>2, <2>1
    <3> HIDE DEF words, w
    <3>2. \A r \in M!Cells : w <= r /\ r <= w => r = w
      BY <1>1, <3>1
    <3> QED BY <3>1, <3>2
  <2> HIDE DEF words, run
  <2>4. run # {} => M!Max(run) \in Nat
    BY <1>1, <1>2, <2>1
  <2> QED BY <1>1, <2>2, <2>3, <2>4
<1> QED BY <1>3, <1>4, <1>5

LEMMA BoundariesLead ==
    ASSUME Written, NEW p \in Nat
    PROVE  M!NextBoundary(p) \in Nat /\ M!PrevBoundary(p) \in Nat
<1>1. Sized /\ Cols - 1 \in 0 .. Cols
  BY DEF Written, Sized
<1>2. \A q \in Nat : \A space : M!Stretch(q, space) \in Nat /\ M!StretchBack(q, space) \in Nat
  BY <1>1, StretchesOn, StretchesBack
<1>3. M!Cells \in SUBSET Nat
  BY CellsOrdered
<1>4. M!NextBoundary(p) \in Nat
  <2> DEFINE next == M!Pos(M!Row(p) + 1, 0)
  <2>1. M!NextBoundary(p) = IF M!Col(p) >= Cols - 1 THEN p
                            ELSE IF M!Char(p + 1) # "empty" THEN M!Stretch(p, M!Space(p + 1))
                            ELSE IF next \in M!Cells THEN M!Stretch(next, M!Space(next)) ELSE p
    BY Zenon DEF M!NextBoundary
  <2> HIDE DEF next
  <2> QED BY <1>2, <1>3, <2>1
<1>5. M!PrevBoundary(p) \in Nat
  <2>1. PICK r \in Nat : r = M!Row(p)
    BY <1>1, Split
  <2> DEFINE end == M!Pos(M!Row(p) - 1, Cols - 1)
  <2>2. M!PrevBoundary(p) = IF M!Col(p) > 0 THEN M!StretchBack(p, M!Space(p - 1))
                            ELSE IF M!Row(p) > 0 THEN M!StretchBack(end, M!Space(end)) ELSE p
    BY Zenon DEF M!PrevBoundary
  <2>3. M!Row(p) > 0 => end \in Nat
    <3> SUFFICES ASSUME r > 0 PROVE M!Pos(r - 1, Cols - 1) \in Nat
      BY <2>1, Zenon
    <3>1. r - 1 \in Nat
      BY <2>1
    <3> QED BY <1>1, <3>1, PosOf
  <2> HIDE DEF end
  <2> QED BY <1>2, <2>2, <2>3
<1> QED BY <1>4, <1>5

LEMMA Goes ==
    ASSUME Sized, MarkInv, NEW p \in Nat, NEW extend \in BOOLEAN, M!Goto(p, extend)
    PROVE  MarkInv'
<1>1. PICK col \in Int, row \in Int : col = M!Col(p) /\ row = M!Row(p)
  <2>1. M!Row(p) \in Int /\ M!Col(p) \in Int
    BY Split
  <2> QED BY <2>1
<1>2. M!SetCursor(col, row, extend)
  BY <1>1 DEF M!Goto
<1> QED BY <1>2, SetsCursor

LEMMA Motions ==
    ASSUME Sized, MarkInv, NEW extend \in BOOLEAN,
           \/ \E d \in {-1, 1} : M!MoveAside(d, extend)
           \/ M!MoveLines(extend)
           \/ M!MoveLine(extend)
           \/ M!MoveBuffer(extend)
           \/ M!MoveWord(extend)
           \/ M!MoveUntilSpace(extend)
    PROVE  MarkInv'
<1>1. PICK p \in Nat, col \in Int, row \in Int : p = cursor /\ col = M!Col(p) /\ row = M!Row(p)
  <2>1. PICK p \in Nat : p = cursor
    BY DEF MarkInv
  <2>2. M!Row(p) \in Int /\ M!Col(p) \in Int
    BY Split
  <2> QED BY <2>1, <2>2
<1>2. Cols \in Nat /\ Screen \in Nat /\ Len(buffer) \in Nat
  BY Buffered DEF Written, Sized
<1>3. \A c \in Int, r \in Int : M!SetCursor(c, r, extend) => MarkInv'
  BY SetsCursor
<1>4. \A q \in Nat : M!Goto(q, extend) => MarkInv'
  BY Goes
<1>5. ASSUME NEW d \in {-1, 1}, M!MoveAside(d, extend) PROVE MarkInv'
  <2>1. \/ M!SetCursor(Cols - 1, row - 1, extend) \/ M!SetCursor(0, row + 1, extend)
        \/ M!SetCursor(col + d, row, extend)
    BY <1>1, <1>5, Zenon DEF M!MoveAside
  <2>2. Cols - 1 \in Int /\ row - 1 \in Int /\ row + 1 \in Int /\ col + d \in Int /\ 0 \in Int
    BY <1>2
  <2> QED BY <1>3, <2>1, <2>2, Zenon
<1>6. CASE M!MoveLines(extend)
  <2>1. PICK n \in M!Lines, d \in {-1, 1} : M!SetCursor(col, row + d * n, extend)
    BY <1>1, <1>6, Zenon DEF M!MoveLines
  <2>2. n \in Int
    BY <1>2 DEF M!Lines
  <2>3. row + d * n \in Int
    BY <2>2
  <2> QED BY <1>3, <2>1, <2>3, Zenon
<1>7. CASE M!MoveLine(extend)
  <2>1. PICK c \in {0, Cols - 1} : M!SetCursor(c, row, extend)
    BY <1>1, <1>7, Zenon DEF M!MoveLine
  <2>2. c \in Int
    BY <1>2
  <2> QED BY <1>3, <2>1, <2>2, Zenon
<1>8. CASE M!MoveBuffer(extend)
  <2>1. PICK c \in {0, Cols - 1}, r \in {0, Len(buffer) - 1} : M!SetCursor(c, r, extend)
    BY <1>8 DEF M!MoveBuffer
  <2>2. c \in Int /\ r \in Int
    BY <1>2
  <2> QED BY <1>3, <2>1, <2>2, Zenon
<1>9. CASE M!MoveWord(extend)
  <2>1. PICK big \in BOOLEAN : \/ M!Goto(M!NextWord(p, big), extend)
                               \/ M!Goto(M!PrevWord(p, big), extend)
                               \/ M!Goto(M!EndOfWord(p, big), extend)
    BY <1>1, <1>9, Zenon DEF M!MoveWord
  <2>2. M!NextWord(p, big) \in Nat /\ M!PrevWord(p, big) \in Nat /\ M!EndOfWord(p, big) \in Nat
    BY Buffered, WordsLead
  <2> QED BY <1>4, <2>1, <2>2, Zenon
<1>10. CASE M!MoveUntilSpace(extend)
  <2>1. M!Goto(M!NextBoundary(p), extend) \/ M!Goto(M!PrevBoundary(p), extend)
    BY <1>1, <1>10, Zenon DEF M!MoveUntilSpace
  <2>2. M!NextBoundary(p) \in Nat /\ M!PrevBoundary(p) \in Nat
    BY Buffered, BoundariesLead
  <2> QED BY <1>4, <2>1, <2>2, Zenon
<1> QED BY <1>5, <1>6, <1>7, <1>8, <1>9, <1>10

LEMMA MarkNext ==
    ASSUME Sized, MarkInv, [M!Next]_(M!vars)
    PROVE  MarkInv'
<1>1. buffer \in Seq(M!RowTexts) /\ Screen <= Len(buffer) /\ sel \in SUBSET M!CellsOf(buffer)
  BY DEF MarkInv, M!InBuffer, M!Cells
<1>2. CASE M!Key
  <2>1. ASSUME NEW extend \in BOOLEAN,
               \/ \E d \in {-1, 1} : M!MoveAside(d, extend)
               \/ M!MoveLines(extend)
               \/ M!MoveLine(extend)
               \/ M!MoveBuffer(extend)
               \/ M!MoveWord(extend)
               \/ M!MoveUntilSpace(extend)
        PROVE  MarkInv'
    BY <2>1, Motions
  <2>2. CASE M!CopyAndExit
    <3>1. UNCHANGED <<buffer, sel, active, cursor, anchor, selecting, given>>
      BY <2>2 DEF M!CopyAndExit
    <3>2. M!InBuffer' /\ M!SelectsTheMark'
      BY <3>1 DEF MarkInv, M!InBuffer, M!SelectsTheMark, M!Cells
    <3> QED BY <3>1, <3>2 DEF MarkInv
  <2>3. CASE M!Exit
    BY <1>1, <2>3, Leaves DEF M!Exit
  <2> QED BY <1>2, <2>1, <2>2, <2>3, Turns, SelectsAll DEF M!Key
<1>3. CASE M!Copied
  BY <1>1, <1>3, Leaves DEF M!Copied
<1>4. CASE M!Drag
  BY <1>4, Selections DEF M!Drag, M!Marked
<1>5. CASE M!Deselect
  BY <1>5, Selections DEF M!Deselect
<1>6. CASE UNCHANGED M!vars
  <2>1. UNCHANGED <<buffer, sel, active, cursor, anchor, selecting, given>>
    BY <1>6 DEF M!vars
  <2>2. M!InBuffer' /\ M!SelectsTheMark'
    BY <2>1 DEF MarkInv, M!InBuffer, M!SelectsTheMark, M!Cells
  <2> QED BY <2>1, <2>2 DEF MarkInv
<1> QED BY <1>2, <1>3, <1>4, <1>5, <1>6, Enters, Outputs, Erases DEF M!Next

\* In mark mode the cursor and the anchor are places of the buffer, what is between them
\* is what is selected, w, b and e find the words and the space key gets on, whatever is
\* written, scrolled off, erased, copied or selected by the mouse (markMode.ts).
THEOREM MarkHolds == Sized /\ M!Spec => []M!MarkSafe
<1> SUFFICES ASSUME Sized PROVE M!Spec => []M!MarkSafe
  OBVIOUS
<1>1. M!Init => MarkInv
  BY MarkInit
<1>2. MarkInv /\ [M!Next]_(M!vars) => MarkInv'
  BY MarkNext
<1>3. MarkInv => M!MarkSafe
  <2>1. ASSUME MarkInv, cursor \in M!Cells PROVE M!WordsAgree /\ M!BoundariesAdvance
    BY <2>1, Buffered, WordsHold, BoundariesHold
  <2> QED BY <2>1 DEF MarkInv, M!MarkSafe
<1> QED BY <1>1, <1>2, <1>3, PTL DEF M!Spec
-----------------------------------------------------------------------------
(* The dialog of a new tab.                                                *)

CONSTANTS Latest, MaxRecent, MaxNews

VARIABLES open, filter, index, recents, recentButtons, names, pinned, tidings, moved

D == INSTANCE NewTabDialog WITH hosts <- names, news <- tidings

\* The list shows and keeps numbers of items.
Limited == Latest \in Nat /\ MaxRecent \in Nat

-----------------------------------------------------------------------------
(* Filtered lists.                                                         *)

LEMMA Counted == \A set : D!Cardinality(set) = Cardinality(set)
BY DEF D!Cardinality, Cardinality

\* The places of S have different ranks, which are all the numbers below their number.
LEMMA Ranked ==
    ASSUME NEW n \in Nat, NEW I \in SUBSET (1 .. n)
    PROVE  /\ IsFiniteSet(I) /\ Cardinality(I) \in Nat /\ Cardinality(I) <= n
           /\ \A k \in 1 .. Cardinality(I) : \E i \in I : Cardinality({j \in I : j < i}) = k - 1
           /\ \A i \in I : Cardinality({j \in I : j < i}) + 1 \in 1 .. Cardinality(I)
           /\ \A a, b \in I : Cardinality({j \in I : j < a}) = Cardinality({j \in I : j < b}) => a = b
<1> DEFINE c == Cardinality(I)
           R(i) == {j \in I : j < i}
           f == [i \in I |-> Cardinality(R(i))]
<1>1. IsFiniteSet(I) /\ c \in Nat /\ c <= n
  <2>1. IsFiniteSet(1 .. n) /\ Cardinality(1 .. n) = n
    BY FS_Interval
  <2> QED BY <2>1, FS_Subset, FS_CardinalityType
<1>2. ASSUME NEW i \in I
      PROVE  Cardinality(R(i)) \in 0 .. c - 1
  <2>1. R(i) \in SUBSET I /\ i \notin R(i)
    OBVIOUS
  <2>2. IsFiniteSet(R(i)) /\ Cardinality(R(i)) <= c /\ Cardinality(R(i)) # c
    BY <1>1, <2>1, FS_Subset
  <2>3. Cardinality(R(i)) \in Nat
    BY <2>2, FS_CardinalityType
  <2> HIDE DEF R, c
  <2> QED BY <1>1, <2>2, <2>3
<1>3. ASSUME NEW a \in I, NEW b \in I, a < b
      PROVE  Cardinality(R(a)) # Cardinality(R(b))
  <2>1. R(a) \in SUBSET R(b)
    <3>1. a \in Int /\ b \in Int /\ \A j \in I : j \in Int
      OBVIOUS
    <3>2. \A j \in I : j < a => j < b
      BY <1>3, <3>1
    <3> QED BY <3>2
  <2>2. a \in R(b) /\ a \notin R(a)
    BY <1>3
  <2>3. IsFiniteSet(R(b))
    BY <1>1, FS_Subset
  <2> HIDE DEF R
  <2> QED BY <2>1, <2>2, <2>3, FS_Subset
<1>4. \A a, b \in I : f[a] = f[b] => a = b
  <2> SUFFICES ASSUME NEW a \in I, NEW b \in I, Cardinality(R(a)) = Cardinality(R(b))
               PROVE  a = b
    OBVIOUS
  <2>1. a \in Int /\ b \in Int
    OBVIOUS
  <2>2. ~ (a < b) /\ ~ (b < a)
    BY <1>3
  <2> HIDE DEF R
  <2> QED BY <2>1, <2>2
<1>5. f \in [I -> 0 .. c - 1]
  BY <1>2
<1> HIDE DEF f
<1>6. f \in Injection(I, 0 .. c - 1)
  BY <1>4, <1>5 DEF Injection, IsInjective
<1>7. IsFiniteSet(0 .. c - 1) /\ Cardinality(0 .. c - 1) = c
  <2>1. 0 \in Int /\ c - 1 \in Int /\ c - 1 - 0 + 1 = c /\ (0 > c - 1 => c = 0)
    BY <1>1
  <2> HIDE DEF c
  <2> QED BY <2>1, FS_Interval
<1>8. f \in Surjection(I, 0 .. c - 1)
  BY <1>1, <1>6, <1>7, FS_Injection
<1>9. ASSUME NEW k \in 1 .. c PROVE \E i \in I : f[i] = k - 1
  <2>1. k - 1 \in 0 .. c - 1
    BY <1>1
  <2> QED BY <1>8, <2>1 DEF Surjection
<1>10. \A i \in I : Cardinality(R(i)) + 1 \in 1 .. c
  <2> SUFFICES ASSUME NEW i \in I PROVE Cardinality(R(i)) + 1 \in 1 .. c
    OBVIOUS
  <2>1. PICK r \in 0 .. c - 1 : r = Cardinality(R(i))
    BY <1>2
  <2> HIDE DEF R, c
  <2> QED BY <1>1, <2>1
<1> QED BY <1>1, <1>4, <1>9, <1>10 DEF f

\* s has the elements of t that are in S.
Picks(s, t, S) ==
    /\ IsSeq(s) /\ Len(s) = Cardinality({i \in 1 .. Len(t) : t[i] \in S})
    /\ \A k \in 1 .. Len(s) : \E i \in 1 .. Len(t) : s[k] = t[i] /\ t[i] \in S
    /\ \A i \in 1 .. Len(t) : t[i] \in S => \E k \in 1 .. Len(s) : s[k] = t[i]
    /\ Distinct(t) => Distinct(s)

LEMMA FilteredPicks ==
    ASSUME NEW t, IsSeq(t), NEW S
    PROVE  Picks(D!Filtered(t, S), t, S)
<1> DEFINE I == {i \in 1 .. Len(t) : t[i] \in S}
           c == Cardinality(I)
           g(k) == CHOOSE i \in I : Cardinality({j \in I : j < i}) = k - 1
           s == D!Filtered(t, S)
<1>1. PICK n \in Nat : n = Len(t) /\ DOMAIN t = 1 .. n
  BY DEF IsSeq
<1>2. /\ c \in Nat
      /\ \A k \in 1 .. c : \E i \in I : Cardinality({j \in I : j < i}) = k - 1
      /\ \A i \in I : Cardinality({j \in I : j < i}) + 1 \in 1 .. c
      /\ \A a, b \in I : Cardinality({j \in I : j < a}) = Cardinality({j \in I : j < b}) => a = b
  <2>1. I \in SUBSET (1 .. n)
    BY <1>1
  <2> HIDE DEF I
  <2> QED BY <1>1, <2>1, Ranked
<1>3. s = [k \in 1 .. c |-> t[g(k)]]
  BY <1>1 DEF D!Filtered, D!Cardinality, Cardinality
<1>4. \A k \in 1 .. c : g(k) \in I /\ Cardinality({j \in I : j < g(k)}) = k - 1
  BY <1>2
<1>5. IsSeq(s) /\ Len(s) = c
  <2>1. DOMAIN s = 1 .. c /\ s = [k \in 1 .. c |-> s[k]]
    BY <1>3
  <2> HIDE DEF s, c
  <2> QED BY <1>2, <2>1, Listed
<1>6. ASSUME NEW k \in 1 .. Len(s)
      PROVE  \E i \in 1 .. Len(t) : s[k] = t[i] /\ t[i] \in S
  BY <1>3, <1>4, <1>5
<1>7. ASSUME NEW i \in 1 .. Len(t), t[i] \in S
      PROVE  \E k \in 1 .. Len(s) : s[k] = t[i]
  <2>1. i \in I
    BY <1>7
  <2>2. PICK k \in 1 .. c : k = Cardinality({j \in I : j < i}) + 1
    BY <1>2, <2>1
  <2>3. Cardinality({j \in I : j < i}) \in Int
    BY <2>1, Ranked, FS_CardinalityType, FS_Subset, <1>1
  <2>4. g(k) = i
    <3>1. k - 1 = Cardinality({j \in I : j < i})
      BY <2>2, <2>3
    <3> HIDE DEF I, c
    <3> QED BY <1>2, <1>4, <2>1, <3>1
  <2> QED BY <1>3, <1>5, <2>4
<1>8. ASSUME Distinct(t) PROVE Distinct(s)
  <2> SUFFICES ASSUME NEW a \in 1 .. c, NEW b \in 1 .. c, s[a] = s[b] PROVE a = b
    BY <1>5 DEF Distinct, IsSeq
  <2>1. s[a] = t[g(a)] /\ s[b] = t[g(b)] /\ g(a) \in I /\ g(b) \in I
    BY <1>3, <1>4
  <2>2. g(a) = g(b)
    <3> HIDE DEF s, g
    <3> QED BY <1>8, <2>1 DEF Distinct
  <2>3. a - 1 = b - 1
    BY <1>4, <2>2
  <2>4. a \in Int /\ b \in Int
    BY <1>2
  <2> QED BY <2>3, <2>4
<1> QED BY <1>5, <1>6, <1>7, <1>8 DEF Picks

Values(s) == {s[k] : k \in 1 .. Len(s)}

LEMMA SetOf ==
    ASSUME NEW s, IsSeq(s)
    PROVE  D!ToSet(s) = Values(s)
<1>1. DOMAIN s = 1 .. Len(s)
  BY DEF IsSeq
<1> QED BY <1>1 DEF D!ToSet, Values

LEMMA FilteredValues ==
    ASSUME NEW t, IsSeq(t), NEW S
    PROVE  /\ IsSeq(D!Filtered(t, S))
           /\ Values(D!Filtered(t, S)) = Values(t) \cap S
           /\ Distinct(t) => Distinct(D!Filtered(t, S))
<1> PICK s : s = D!Filtered(t, S)
  OBVIOUS
<1>1. Picks(s, t, S)
  BY FilteredPicks
<1>2. Values(s) \in SUBSET (Values(t) \cap S)
  BY <1>1 DEF Picks, Values
<1>3. Values(t) \cap S \in SUBSET Values(s)
  <2> SUFFICES ASSUME NEW v \in Values(t), v \in S PROVE v \in Values(s)
    OBVIOUS
  <2>1. PICK i \in 1 .. Len(t) : t[i] = v
    BY DEF Values
  <2>2. PICK k \in 1 .. Len(s) : s[k] = t[i]
    BY <1>1, <2>1 DEF Picks
  <2> QED BY <2>1, <2>2 DEF Values
<1> QED BY <1>1, <1>2, <1>3 DEF Picks

LEMMA DistinctLength ==
    ASSUME NEW s, Distinct(s)
    PROVE  IsFiniteSet(Values(s)) /\ Cardinality(Values(s)) = Len(s)
<1> DEFINE f == [k \in 1 .. Len(s) |-> s[k]]
<1>1. Len(s) \in Nat
  BY DEF Distinct
<1>2. IsFiniteSet(1 .. Len(s)) /\ Cardinality(1 .. Len(s)) = Len(s)
  BY <1>1, FS_Interval, SMTT(30)
<1>3. f \in Bijection(1 .. Len(s), Values(s))
  BY DEF Distinct, Bijection, Injection, Surjection, IsInjective, Values
<1> HIDE DEF f
<1> QED BY <1>2, <1>3, FS_Bijection DEF ExistsBijection

\* Without one of its values a list is shorter by one at most.
LEMMA OneLess ==
    ASSUME NEW s, Distinct(s), NEW t, Distinct(t), NEW x, Values(s) \ {x} \in SUBSET Values(t)
    PROVE  Len(t) >= Len(s) - 1
<1>1. PICK m \in Nat, n \in Nat : m = Len(s) /\ n = Len(t)
  BY DEF Distinct
<1>2. /\ IsFiniteSet(Values(s)) /\ Cardinality(Values(s)) = m
      /\ IsFiniteSet(Values(t)) /\ Cardinality(Values(t)) = n
  BY <1>1, DistinctLength
<1>3. Cardinality(Values(s) \ {x}) \in {m, m - 1}
  BY <1>2, FS_RemoveElement
<1>4. Cardinality(Values(s) \ {x}) <= n
  BY <1>2, FS_Subset
<1> QED BY <1>1, <1>3, <1>4

-----------------------------------------------------------------------------
(* Sections.                                                               *)

LEMMA Joined ==
    ASSUME NEW s, NEW t, IsSeq(s), IsSeq(t)
    PROVE  /\ IsSeq(s \o t) /\ Len(s \o t) = Len(s) + Len(t)
           /\ \A k \in 1 .. Len(s) : k \in 1 .. Len(s \o t) /\ (s \o t)[k] = s[k]
           /\ \A k \in 1 .. Len(t) :
                 Len(s) + k \in 1 .. Len(s \o t) /\ (s \o t)[Len(s) + k] = t[k]
           /\ \A k \in 1 .. Len(s \o t) : k \in 1 .. Len(s) \/ k - Len(s) \in 1 .. Len(t)
<1> DEFINE X == Values(s) \cup Values(t)
           u == s \o t
<1>1. PICK m \in Nat, n \in Nat : m = Len(s) /\ n = Len(t)
  BY DEF IsSeq
<1>2. s \in Seq(X) /\ t \in Seq(X)
  BY DEF IsSeq, Values
<1> HIDE DEF X
<1>3. /\ u \in Seq(X) /\ Len(u) = m + n
      /\ \A k \in 1 .. m + n : u[k] = IF k <= m THEN s[k] ELSE t[k - m]
  BY <1>1, <1>2, ConcatProperties
<1> HIDE DEF u
<1>4. IsSeq(u)
  <2>1. DOMAIN u = 1 .. m + n /\ u = [k \in 1 .. m + n |-> u[k]]
    BY <1>3
  <2> QED BY <2>1, Listed
<1>5. \A k \in 1 .. m : k \in 1 .. m + n /\ u[k] = s[k]
  BY <1>3
<1>6. \A k \in 1 .. n : m + k \in 1 .. m + n /\ u[m + k] = t[k]
  <2> TAKE k \in 1 .. n
  <2>1. m + k \in 1 .. m + n /\ ~ (m + k <= m) /\ m + k - m = k
    OBVIOUS
  <2> QED BY <1>3, <2>1
<1>7. \A k \in 1 .. m + n : k \in 1 .. m \/ k - m \in 1 .. n
  OBVIOUS
<1> QED BY <1>1, <1>3, <1>4, <1>5, <1>6, <1>7 DEF u

\* Of the items of some types s has one for each of the values, and no others.
Section(s, types, V) ==
    /\ IsSeq(s)
    /\ \A i \in 1 .. Len(s) : s[i].type \in types => s[i].value \in V
    /\ \A i, j \in 1 .. Len(s) :
          s[i].type \in types /\ s[j].type \in types /\ s[i].value = s[j].value => i = j
    /\ \A v \in V : \E i \in 1 .. Len(s) : s[i].type \in types /\ s[i].value = v

LEMMA SectionsJoined ==
    ASSUME NEW s, NEW t, NEW types, NEW V, NEW W, Section(s, types, V), Section(t, types, W),
           V \cap W = {}
    PROVE  Section(s \o t, types, V \cup W)
<1>1. PICK u : u = s \o t
  OBVIOUS
<1>2. PICK m \in Nat, n \in Nat : m = Len(s) /\ n = Len(t)
  BY DEF Section, IsSeq
<1>3. /\ IsSeq(u) /\ Len(u) = m + n
      /\ \A k \in 1 .. m : k \in 1 .. Len(u) /\ u[k] = s[k]
      /\ \A k \in 1 .. n : m + k \in 1 .. Len(u) /\ u[m + k] = t[k]
      /\ \A k \in 1 .. Len(u) : k \in 1 .. m \/ k - m \in 1 .. n
  BY <1>1, <1>2, Joined DEF Section
<1>4. \A k \in 1 .. Len(u) : \/ k \in 1 .. m /\ u[k] = s[k]
                             \/ \E l \in 1 .. n : k = m + l /\ u[k] = t[l]
  <2> TAKE k \in 1 .. Len(u)
  <2>1. CASE k \in 1 .. m
    BY <1>3, <2>1
  <2>2. CASE k - m \in 1 .. n
    <3>1. PICK l \in 1 .. n : l = k - m
      BY <2>2
    <3>2. k = m + l
      BY <1>3, <3>1
    <3> QED BY <1>3, <3>2
  <2> QED BY <1>3, <2>1, <2>2
<1>5. \A i \in 1 .. Len(u) : u[i].type \in types => u[i].value \in V \cup W
  BY <1>2, <1>4 DEF Section
<1>6. ASSUME NEW i \in 1 .. Len(u), NEW j \in 1 .. Len(u), u[i].type \in types,
             u[j].type \in types, u[i].value = u[j].value
      PROVE  i = j
  <2>1. CASE i \in 1 .. m /\ u[i] = s[i] /\ j \in 1 .. m /\ u[j] = s[j]
    BY <1>2, <1>6, <2>1 DEF Section
  <2>2. ASSUME NEW k \in 1 .. n, NEW l \in 1 .. n, i = m + k, u[i] = t[k], j = m + l, u[j] = t[l]
        PROVE  i = j
    BY <1>2, <1>6, <2>2 DEF Section
  <2>3. ASSUME NEW k \in 1 .. m, NEW l \in 1 .. n, s[k].type \in types, t[l].type \in types,
               s[k].value = t[l].value
        PROVE  FALSE
    BY <1>2, <2>3 DEF Section
  <2> QED BY <1>4, <1>6, <2>1, <2>2, <2>3
<1>7. ASSUME NEW v \in V \cup W
      PROVE  \E i \in 1 .. Len(u) : u[i].type \in types /\ u[i].value = v
  <2>1. CASE v \in V
    <3>1. PICK k \in 1 .. m : s[k].type \in types /\ s[k].value = v
      BY <1>2, <2>1 DEF Section
    <3> QED BY <1>3, <3>1
  <2>2. CASE v \in W
    <3>1. PICK k \in 1 .. n : t[k].type \in types /\ t[k].value = v
      BY <1>2, <2>2 DEF Section
    <3> QED BY <1>3, <3>1
  <2> QED BY <2>1, <2>2
<1> QED BY <1>1, <1>3, <1>5, <1>6, <1>7 DEF Section

LEMMA ItemsOf ==
    ASSUME NEW values, IsSeq(values), NEW type, NEW types
    PROVE  /\ IsSeq(D!Items(type, values)) /\ Len(D!Items(type, values)) = Len(values)
           /\ \A k \in 1 .. Len(values) : D!Items(type, values)[k] = [type |-> type, value |-> values[k]]
           /\ type \notin types => Section(D!Items(type, values), types, {})
           /\ type \in types /\ Distinct(values) => Section(D!Items(type, values), types, Values(values))
<1>1. PICK s : s = D!Items(type, values)
  OBVIOUS
<1>2. PICK n \in Nat : n = Len(values) /\ DOMAIN values = 1 .. n
  BY DEF IsSeq
<1>3. s = [k \in 1 .. n |-> [type |-> type, value |-> values[k]]]
  BY <1>1, <1>2 DEF D!Items, D!Item
<1>4. IsSeq(s) /\ Len(s) = n
  <2>1. DOMAIN s = 1 .. n /\ s = [k \in 1 .. n |-> s[k]]
    BY <1>3
  <2> QED BY <2>1, Listed
<1>5. \A k \in 1 .. n : s[k] = [type |-> type, value |-> values[k]] /\ s[k].type = type /\ s[k].value = values[k]
  BY <1>3
<1>6. type \notin types => Section(s, types, {})
  BY <1>4, <1>5 DEF Section
<1>7. ASSUME type \in types, Distinct(values) PROVE Section(s, types, Values(values))
  <2>1. \A i, j \in 1 .. n : s[i].value = s[j].value => i = j
    <3> TAKE i, j \in 1 .. n
    <3>1. s[i].value = values[i] /\ s[j].value = values[j]
      BY <1>5
    <3>2. values[i] = values[j] => i = j
      BY <1>2, <1>7 DEF Distinct
    <3> QED BY <3>1, <3>2
  <2>2. \A i \in 1 .. n : s[i].type \in types /\ s[i].value \in Values(values)
    BY <1>2, <1>5, <1>7 DEF Values
  <2>3. \A v \in Values(values) : \E i \in 1 .. n : s[i].value = v
    BY <1>2, <1>5 DEF Values
  <2> QED BY <1>4, <2>1, <2>2, <2>3 DEF Section
<1> QED BY <1>1, <1>2, <1>4, <1>5, <1>6, <1>7

LEMMA Literals ==
    /\ Distinct(<<>>) /\ Values(<<>>) = {}
    /\ \A a : Distinct(<<a>>) /\ Values(<<a>>) = {a}
    /\ \A a, b : a # b => Distinct(<<a, b>>) /\ Values(<<a, b>>) = {a, b}
<1>1. Distinct(<<>>) /\ Values(<<>>) = {}
  BY DEF Distinct, Values
<1>2. ASSUME NEW a PROVE Distinct(<<a>>) /\ Values(<<a>>) = {a}
  <2>1. PICK s : s = <<a>>
    OBVIOUS
  <2>2. Len(s) = 1 /\ s[1] = a /\ s = [k \in 1 .. 1 |-> s[k]]
    BY <2>1
  <2> QED BY <2>1, <2>2 DEF Distinct, Values
<1>3. ASSUME NEW a, NEW b, a # b PROVE Distinct(<<a, b>>) /\ Values(<<a, b>>) = {a, b}
  <2>1. PICK s : s = <<a, b>>
    OBVIOUS
  <2>2. Len(s) = 2 /\ s[1] = a /\ s[2] = b /\ s = [k \in 1 .. 2 |-> s[k]]
    BY <2>1
  <2>3. \A k \in 1 .. 2 : k = 1 \/ k = 2
    OBVIOUS
  <2>4. Distinct(s)
    BY <1>3, <2>2, <2>3 DEF Distinct
  <2>5. 1 \in 1 .. 2 /\ 2 \in 1 .. 2
    OBVIOUS
  <2>6. Values(s) = {a, b}
    BY <2>2, <2>3, <2>5 DEF Values
  <2> QED BY <2>1, <2>4, <2>6
<1> QED BY <1>1, <1>2, <1>3

KnownHosts == <<"h1", "h3", "r1", "r2", "w">>

LEMMA KnownNames ==
    Distinct(KnownHosts) /\ Values(KnownHosts) = {"h1", "h3", "r1", "r2", "w"}
<1>1. PICK s : s = KnownHosts
  OBVIOUS
<1>2. /\ Len(s) = 5 /\ s = [k \in 1 .. 5 |-> s[k]]
      /\ s[1] = "h1" /\ s[2] = "h3" /\ s[3] = "r1" /\ s[4] = "r2" /\ s[5] = "w"
  BY <1>1 DEF KnownHosts
<1>3. \A k \in 1 .. 5 : k = 1 \/ k = 2 \/ k = 3 \/ k = 4 \/ k = 5
  OBVIOUS
<1>4. Distinct(s)
  BY <1>2, <1>3 DEF Distinct
<1>5. 1 \in 1 .. 5 /\ 2 \in 1 .. 5 /\ 3 \in 1 .. 5 /\ 4 \in 1 .. 5 /\ 5 \in 1 .. 5
  OBVIOUS
<1>6. Values(s) = {"h1", "h3", "r1", "r2", "w"}
  BY <1>2, <1>3, <1>5 DEF Values
<1> QED BY <1>1, <1>4, <1>6

LEMMA DistinctSeq == \A s : Distinct(s) => IsSeq(s)
BY DEF Distinct, IsSeq

LEMMA MatchedOf ==
    ASSUME NEW t, Distinct(t)
    PROVE  /\ Distinct(D!Matched(t)) /\ IsSeq(D!Matched(t))
           /\ Values(D!Matched(t)) = {v \in Values(t) : D!Matches(v)}
<1>1. IsSeq(t)
  BY DistinctSeq
<1>2. D!ToSet(t) = Values(t)
  BY <1>1, SetOf
<1>3. D!Matched(t) = D!Filtered(t, {v \in Values(t) : D!Matches(v)})
  BY <1>2, Zenon DEF D!Matched
<1> QED BY <1>1, <1>3, FilteredValues, DistinctSeq

LEMMA KnownOf ==
    ASSUME NEW S, S \in SUBSET {"h1", "h3", "r1", "r2", "w"}
    PROVE  /\ Distinct(D!Known(S)) /\ IsSeq(D!Known(S))
           /\ Values(D!Known(S)) = {v \in S : D!Matches(v)}
<1>1. PICK t : t = D!Filtered(KnownHosts, S)
  OBVIOUS
<1>2. IsSeq(KnownHosts) /\ Distinct(KnownHosts)
  BY KnownNames, DistinctSeq
<1>3. Distinct(t) /\ Values(t) = Values(KnownHosts) \cap S
  BY <1>1, <1>2, FilteredValues
<1>4. Values(t) = S
  BY <1>3, KnownNames
<1>5. D!Known(S) = D!Matched(t)
  BY <1>1 DEF D!Known, KnownHosts
<1> QED BY <1>3, <1>4, <1>5, MatchedOf

LEMMA PartOf ==
    ASSUME NEW s, Distinct(s), NEW a \in Nat, NEW b \in Nat, a >= 1, b <= Len(s), a <= b + 1
    PROVE  /\ IsSeq(SubSeq(s, a, b)) /\ Len(SubSeq(s, a, b)) = b - a + 1
           /\ \A k \in 1 .. Len(SubSeq(s, a, b)) : SubSeq(s, a, b)[k] \in Values(s)
<1>1. PICK t : t = SubSeq(s, a, b)
  OBVIOUS
<1>2. Len(s) \in Nat
  BY DEF Distinct
<1>3. t = [k \in 1 .. b - a + 1 |-> s[a + k - 1]]
  BY <1>1
<1>4. \A k \in 1 .. b - a + 1 : a + k - 1 \in 1 .. Len(s)
  BY <1>2
<1>5. DOMAIN t = 1 .. b - a + 1 /\ b - a + 1 \in Nat /\ t = [k \in 1 .. b - a + 1 |-> t[k]]
  BY <1>3
<1>6. IsSeq(t) /\ Len(t) = b - a + 1
  BY <1>5, Listed
<1>7. \A k \in 1 .. b - a + 1 : t[k] \in Values(s)
  BY <1>3, <1>4 DEF Values
<1> QED BY <1>1, <1>6, <1>7

-----------------------------------------------------------------------------
(* What is shown.                                                          *)

DialogTyped ==
    /\ open \in BOOLEAN /\ moved \in BOOLEAN
    /\ filter \in Seq(D!Tokens)
    /\ index \in Int /\ index >= -1
    /\ Distinct(recents) /\ Values(recents) \in SUBSET {"r1", "r2"}
    /\ Distinct(recentButtons)
    /\ names \in SUBSET {"h1", "h3", "r1", "r2", "w"}
    /\ pinned \in {<<>>, <<"s1">>}

ModeNames == {"servers", "buttons", "tabs", "tags", "tunnels", "help"}

\* The items that are saved as hosts when they are used have names of hosts, and
\* those of the help names of modes.
Saves(s) ==
    \A k \in 1 .. Len(s) :
       /\ s[k].type \in {"recent", "direct"} => s[k].value \in {"r1", "r2", "w"}
       /\ s[k].type = "help" => s[k].value \in ModeNames

LEMMA ItemsSave ==
    ASSUME NEW values, IsSeq(values), NEW type,
           type \in {"recent", "direct"} => Values(values) \in SUBSET {"r1", "r2", "w"},
           type = "help" => Values(values) \in SUBSET ModeNames
    PROVE  Saves(D!Items(type, values))
<1>1. PICK s : s = D!Items(type, values)
  OBVIOUS
<1>2. PICK n \in Nat : n = Len(values)
  BY DEF IsSeq
<1>3. Len(s) = n /\ \A k \in 1 .. n : s[k] = [type |-> type, value |-> values[k]]
  BY <1>1, <1>2, ItemsOf
<1>4. \A k \in 1 .. n : s[k].type = type /\ s[k].value \in Values(values)
  <2> TAKE k \in 1 .. n
  <2>1. s[k].type = type /\ s[k].value = values[k]
    BY <1>3
  <2> QED BY <1>2, <2>1 DEF Values
<1> QED BY <1>1, <1>3, <1>4 DEF Saves

LEMMA SavesJoined ==
    ASSUME NEW s, NEW t, IsSeq(s), IsSeq(t), Saves(s), Saves(t)
    PROVE  Saves(s \o t)
<1>1. PICK u : u = s \o t
  OBVIOUS
<1>2. PICK m \in Nat, n \in Nat : m = Len(s) /\ n = Len(t)
  BY DEF IsSeq
<1>3. /\ \A k \in 1 .. m : u[k] = s[k]
      /\ \A k \in 1 .. n : u[m + k] = t[k]
      /\ \A k \in 1 .. Len(u) : k \in 1 .. m \/ k - m \in 1 .. n
      /\ Len(u) \in Nat
  BY <1>1, <1>2, Joined DEF IsSeq
<1>4. ASSUME NEW k \in 1 .. Len(u)
      PROVE  /\ u[k].type \in {"recent", "direct"} => u[k].value \in {"r1", "r2", "w"}
             /\ u[k].type = "help" => u[k].value \in ModeNames
  <2>1. CASE k \in 1 .. m
    BY <1>2, <1>3, <2>1 DEF Saves
  <2>2. CASE k - m \in 1 .. n
    <3>1. PICK l \in 1 .. n : l = k - m
      BY <2>2
    <3>2. k = m + l
      BY <1>3, <3>1
    <3> QED BY <1>2, <1>3, <3>2 DEF Saves
  <2> QED BY <1>3, <2>1, <2>2
<1> QED BY <1>1, <1>4 DEF Saves

\* The parts of a list, one after the other.
LEMMA SevenJoined ==
    ASSUME NEW a, NEW b, NEW c, NEW d, NEW e, NEW f, NEW g, IsSeq(a), IsSeq(b), IsSeq(c),
           IsSeq(d), IsSeq(e), IsSeq(f), IsSeq(g)
    PROVE  LET s == a \o b \o c \o d \o e \o f \o g
           IN /\ IsSeq(s)
              /\ Len(s) = Len(a) + Len(b) + Len(c) + Len(d) + Len(e) + Len(f) + Len(g)
              /\ Saves(a) /\ Saves(b) /\ Saves(c) /\ Saves(d) /\ Saves(e) /\ Saves(f) /\ Saves(g)
                   => Saves(s)
<1> DEFINE Joins(s, t, u) ==
             /\ IsSeq(u) /\ Len(u) = Len(s) + Len(t)
             /\ Saves(s) /\ Saves(t) => Saves(u)
<1> PICK ab, ac, ad, ae, af, ag :
      /\ ab = a \o b /\ ac = ab \o c /\ ad = ac \o d
      /\ ae = ad \o e /\ af = ae \o f /\ ag = af \o g
  OBVIOUS
<1>0. \A s, t : IsSeq(s) /\ IsSeq(t) => Joins(s, t, s \o t)
  BY Joined, SavesJoined
<1> HIDE DEF Joins
<1>1. Joins(a, b, ab) /\ IsSeq(ab)
  <2>1. Joins(a, b, ab)
    BY <1>0, Zenon
  <2> QED BY <2>1, Zenon DEF Joins
<1>2. Joins(ab, c, ac) /\ IsSeq(ac)
  <2>1. Joins(ab, c, ac)
    BY <1>0, <1>1, Zenon
  <2> QED BY <2>1, Zenon DEF Joins
<1>3. Joins(ac, d, ad) /\ IsSeq(ad)
  <2>1. Joins(ac, d, ad)
    BY <1>0, <1>2, Zenon
  <2> QED BY <2>1, Zenon DEF Joins
<1>4. Joins(ad, e, ae) /\ IsSeq(ae)
  <2>1. Joins(ad, e, ae)
    BY <1>0, <1>3, Zenon
  <2> QED BY <2>1, Zenon DEF Joins
<1>5. Joins(ae, f, af) /\ IsSeq(af)
  <2>1. Joins(ae, f, af)
    BY <1>0, <1>4, Zenon
  <2> QED BY <2>1, Zenon DEF Joins
<1>6. Joins(af, g, ag) /\ IsSeq(ag)
  <2>1. Joins(af, g, ag)
    BY <1>0, <1>5, Zenon
  <2> QED BY <2>1, Zenon DEF Joins
<1>7. ag = a \o b \o c \o d \o e \o f \o g
  BY Zenon
<1>8. Len(ag) = Len(a) + Len(b) + Len(c) + Len(d) + Len(e) + Len(f) + Len(g)
  BY <1>1, <1>2, <1>3, <1>4, <1>5, <1>6 DEF Joins
<1>9. Saves(a) /\ Saves(b) /\ Saves(c) /\ Saves(d) /\ Saves(e) /\ Saves(f) /\ Saves(g)
        => Saves(ag)
  BY <1>1, <1>2, <1>3, <1>4, <1>5, <1>6 DEF Joins
<1> QED BY <1>6, <1>7, <1>8, <1>9

\* The recent hosts that are shown.
Firsts ==
    LET n == Len(D!Matched(recents))
    IN IF D!Text = <<>> \/ n < Latest THEN n ELSE Latest

\* The parts of the list of servers.
Direct == IF D!Text = <<"w">> THEN <<D!Item("direct", "w")>> ELSE <<>>
Locals == D!Items("local", D!Matched(<<"l1", "l2">>))
Favourites == D!Items("host", D!Known(names \cap D!Favourite))
Plain == D!Items("host", D!Known(names \ (D!Favourite \cup D!Auto)))
Autos == D!Items("host", D!Known((names \cap D!Auto) \ D!Favourite))
Rest == Len(Locals) + Len(Favourites) + Len(Plain) + Len(Autos) + Len(Direct)

LEMMA ServerParts ==
    ASSUME Limited, DialogTyped
    PROVE  \E a, b : /\ D!Servers = a \o Locals \o b \o Favourites \o Plain \o Autos \o Direct
                     /\ IsSeq(a) /\ IsSeq(b) /\ Len(a) + Len(b) = Firsts /\ Saves(a) /\ Saves(b)
                     /\ Section(a, {"host"}, {}) /\ Section(b, {"host"}, {})
<1>1. PICK used : used = D!Matched(recents)
  OBVIOUS
<1>2. /\ Distinct(used) /\ IsSeq(used) /\ Values(used) \in SUBSET {"r1", "r2"}
  BY <1>1, MatchedOf DEF DialogTyped
<1>3. PICK m \in Nat : m = Len(used)
  BY <1>2 DEF IsSeq
<1>4. PICK n \in Nat : n = (IF m < Latest THEN m ELSE Latest) /\ n <= m
  BY DEF Limited
<1>5. PICK p, q : p = SubSeq(used, 1, n) /\ q = SubSeq(used, n + 1, m)
  OBVIOUS
<1>6. /\ IsSeq(p) /\ Len(p) = n /\ IsSeq(q) /\ Len(q) = m - n
      /\ Values(p) \in SUBSET {"r1", "r2"} /\ Values(q) \in SUBSET {"r1", "r2"}
  <2>0. PICK one \in Nat : one = 1
    OBVIOUS
  <2>1. /\ IsSeq(p) /\ Len(p) = n - one + 1 /\ \A k \in 1 .. Len(p) : p[k] \in Values(used)
    <3>1. p = SubSeq(used, one, n) /\ one >= 1 /\ n <= Len(used) /\ one <= n + 1
      BY <1>3, <1>4, <1>5, <2>0
    <3> QED BY <1>2, <3>1, PartOf
  <2>2. PICK h \in Nat : h = n + 1 /\ h >= 1 /\ h <= m + 1
    BY <1>4
  <2>3. /\ IsSeq(q) /\ Len(q) = m - h + 1 /\ \A k \in 1 .. Len(q) : q[k] \in Values(used)
    <3>1. q = SubSeq(used, h, m) /\ m <= Len(used)
      BY <1>3, <1>5, <2>2
    <3> QED BY <1>2, <2>2, <3>1, PartOf
  <2>4. Values(p) \in SUBSET Values(used) /\ Values(q) \in SUBSET Values(used)
    BY <2>1, <2>3 DEF Values
  <2> QED BY <1>2, <2>0, <2>1, <2>2, <2>3, <2>4
<1>7. PICK a, r : a = D!Items("recent", p) /\ r = D!Items("recent", q)
  OBVIOUS
<1>8. /\ IsSeq(a) /\ Len(a) = n /\ Saves(a) /\ Section(a, {"host"}, {})
      /\ IsSeq(r) /\ Len(r) = m - n /\ Saves(r) /\ Section(r, {"host"}, {})
  BY <1>6, <1>7, ItemsOf, ItemsSave
<1>9. PICK b : b = IF D!Text = <<>> THEN r ELSE <<>>
  OBVIOUS
<1>10. IsSeq(<<>>) /\ Len(<<>>) = 0 /\ Saves(<<>>) /\ Section(<<>>, {"host"}, {})
  BY DEF IsSeq, Saves, Section
<1>11. /\ IsSeq(b) /\ Saves(b) /\ Section(b, {"host"}, {})
       /\ Len(b) = IF D!Text = <<>> THEN m - n ELSE 0
  BY <1>8, <1>9, <1>10
<1>12. Len(a) + Len(b) = Firsts
  <2>1. Firsts = IF D!Text = <<>> \/ m < Latest THEN m ELSE Latest
    BY <1>1, <1>3, Zenon DEF Firsts
  <2> QED BY <1>4, <1>8, <1>11, <2>1 DEF Limited
<1>13. D!Servers = a \o Locals \o b \o Favourites \o Plain \o Autos \o Direct
  BY <1>1, <1>3, <1>4, <1>5, <1>7, <1>9, Zenon
     DEF D!Servers, Locals, Favourites, Plain, Autos, Direct
<1> QED BY <1>8, <1>11, <1>12, <1>13

LEMMA FiveJoined ==
    ASSUME NEW a, NEW b, NEW c, NEW d, NEW e, IsSeq(a), IsSeq(b), IsSeq(c), IsSeq(d), IsSeq(e)
    PROVE  LET s == a \o b \o c \o d \o e
           IN /\ IsSeq(s)
              /\ Len(s) = Len(a) + Len(b) + Len(c) + Len(d) + Len(e)
              /\ Saves(a) /\ Saves(b) /\ Saves(c) /\ Saves(d) /\ Saves(e) => Saves(s)
<1> DEFINE Joins(s, t, u) ==
             /\ IsSeq(u) /\ Len(u) = Len(s) + Len(t)
             /\ Saves(s) /\ Saves(t) => Saves(u)
<1> PICK ab, ac, ad, ae : ab = a \o b /\ ac = ab \o c /\ ad = ac \o d /\ ae = ad \o e
  OBVIOUS
<1>0. \A s, t : IsSeq(s) /\ IsSeq(t) => Joins(s, t, s \o t)
  BY Joined, SavesJoined
<1> HIDE DEF Joins
<1>1. Joins(a, b, ab) /\ IsSeq(ab)
  <2>1. Joins(a, b, ab)
    BY <1>0, Zenon
  <2> QED BY <2>1, Zenon DEF Joins
<1>2. Joins(ab, c, ac) /\ IsSeq(ac)
  <2>1. Joins(ab, c, ac)
    BY <1>0, <1>1, Zenon
  <2> QED BY <2>1, Zenon DEF Joins
<1>3. Joins(ac, d, ad) /\ IsSeq(ad)
  <2>1. Joins(ac, d, ad)
    BY <1>0, <1>2, Zenon
  <2> QED BY <2>1, Zenon DEF Joins
<1>4. Joins(ad, e, ae) /\ IsSeq(ae)
  <2>1. Joins(ad, e, ae)
    BY <1>0, <1>3, Zenon
  <2> QED BY <2>1, Zenon DEF Joins
<1>5. ae = a \o b \o c \o d \o e
  BY Zenon
<1>6. Len(ae) = Len(a) + Len(b) + Len(c) + Len(d) + Len(e)
  BY <1>1, <1>2, <1>3, <1>4 DEF Joins
<1>7. Saves(a) /\ Saves(b) /\ Saves(c) /\ Saves(d) /\ Saves(e) => Saves(ae)
  BY <1>1, <1>2, <1>3, <1>4 DEF Joins
<1> QED BY <1>4, <1>5, <1>6, <1>7

\* Parts that have nothing of the types.
LEMMA NothingJoined ==
    ASSUME NEW s, NEW t, NEW types, NEW V, Section(s, types, V), Section(t, types, {})
    PROVE  Section(s \o t, types, V)
<1>1. Section(s \o t, types, V \cup {})
  BY SectionsJoined, V \cap {} = {}
<1> QED BY <1>1, V \cup {} = V, Zenon

LEMMA HostSections ==
    ASSUME DialogTyped
    PROVE  /\ IsSeq(Locals) /\ IsSeq(Favourites) /\ IsSeq(Plain) /\ IsSeq(Autos) /\ IsSeq(Direct)
           /\ Saves(Locals) /\ Saves(Favourites) /\ Saves(Plain) /\ Saves(Autos) /\ Saves(Direct)
           /\ Section(Locals, {"host"}, {}) /\ Section(Direct, {"host"}, {})
           /\ Section(Favourites, {"host"}, {v \in names \cap D!Favourite : D!Matches(v)})
           /\ Section(Plain, {"host"}, {v \in names \ (D!Favourite \cup D!Auto) : D!Matches(v)})
           /\ Section(Autos, {"host"}, {v \in (names \cap D!Auto) \ D!Favourite : D!Matches(v)})
<1>1. IsSeq(Locals) /\ Saves(Locals) /\ Section(Locals, {"host"}, {})
  <2>1. IsSeq(D!Matched(<<"l1", "l2">>))
    BY Literals, MatchedOf
  <2> QED BY <2>1, ItemsOf, ItemsSave DEF Locals
<1>2. ASSUME NEW set \in SUBSET {"h1", "h3", "r1", "r2", "w"}
      PROVE  LET s == D!Items("host", D!Known(set))
             IN IsSeq(s) /\ Saves(s) /\ Section(s, {"host"}, {v \in set : D!Matches(v)})
  <2>1. /\ Distinct(D!Known(set)) /\ IsSeq(D!Known(set))
        /\ Values(D!Known(set)) = {v \in set : D!Matches(v)}
    BY KnownOf
  <2> QED BY <2>1, ItemsOf, ItemsSave
<1>3. IsSeq(Direct) /\ Saves(Direct) /\ Section(Direct, {"host"}, {})
  <2>1. PICK d : d = D!Item("direct", "w")
    OBVIOUS
  <2>2. d.type = "direct" /\ d.value = "w"
    BY <2>1 DEF D!Item
  <2>3. IsSeq(<<d>>) /\ Len(<<d>>) = 1 /\ \A k \in 1 .. 1 : <<d>>[k] = d
    BY DEF IsSeq
  <2>4. Saves(<<d>>) /\ Section(<<d>>, {"host"}, {})
    BY <2>2, <2>3 DEF Saves, Section
  <2>5. IsSeq(<<>>) /\ Saves(<<>>) /\ Section(<<>>, {"host"}, {})
    BY DEF IsSeq, Saves, Section
  <2> QED BY <2>1, <2>3, <2>4, <2>5 DEF Direct
<1>4. names \cap D!Favourite \in SUBSET {"h1", "h3", "r1", "r2", "w"}
  BY DEF DialogTyped
<1>5. names \ (D!Favourite \cup D!Auto) \in SUBSET {"h1", "h3", "r1", "r2", "w"}
  BY DEF DialogTyped
<1>6. (names \cap D!Auto) \ D!Favourite \in SUBSET {"h1", "h3", "r1", "r2", "w"}
  BY DEF DialogTyped
<1> QED BY <1>1, <1>2, <1>3, <1>4, <1>5, <1>6 DEF Favourites, Plain, Autos

LEMMA ServersAre ==
    Limited /\ DialogTyped =>
      /\ IsSeq(D!Servers) /\ Firsts \in Nat /\ Rest \in Nat /\ Len(D!Servers) = Firsts + Rest
      /\ Saves(D!Servers) /\ Section(D!Servers, {"host"}, {v \in names : D!Matches(v)})
<1> SUFFICES ASSUME Limited, DialogTyped
             PROVE  /\ IsSeq(D!Servers) /\ Firsts \in Nat /\ Rest \in Nat
                    /\ Len(D!Servers) = Firsts + Rest
                    /\ Saves(D!Servers) /\ Section(D!Servers, {"host"}, {v \in names : D!Matches(v)})
  OBVIOUS
<1>1. PICK a, b : /\ D!Servers = a \o Locals \o b \o Favourites \o Plain \o Autos \o Direct
                  /\ IsSeq(a) /\ IsSeq(b) /\ Len(a) + Len(b) = Firsts /\ Saves(a) /\ Saves(b)
                  /\ Section(a, {"host"}, {}) /\ Section(b, {"host"}, {})
  BY ServerParts
<1>2. PICK s : s = D!Servers
  OBVIOUS
<1>3. PICK l, f, p, u, d : l = Locals /\ f = Favourites /\ p = Plain /\ u = Autos /\ d = Direct
  OBVIOUS
<1>4. /\ IsSeq(l) /\ IsSeq(f) /\ IsSeq(p) /\ IsSeq(u) /\ IsSeq(d)
      /\ Saves(l) /\ Saves(f) /\ Saves(p) /\ Saves(u) /\ Saves(d)
      /\ Section(l, {"host"}, {}) /\ Section(d, {"host"}, {})
  BY <1>3, HostSections
<1>5. s = a \o l \o b \o f \o p \o u \o d
  BY <1>1, <1>2, <1>3, Zenon
<1>6. /\ IsSeq(s) /\ Saves(s)
      /\ Len(s) = Len(a) + Len(l) + Len(b) + Len(f) + Len(p) + Len(u) + Len(d)
  BY <1>1, <1>4, <1>5, SevenJoined
<1>7. /\ Len(a) \in Nat /\ Len(b) \in Nat /\ Len(l) \in Nat /\ Len(f) \in Nat /\ Len(p) \in Nat
      /\ Len(u) \in Nat /\ Len(d) \in Nat
  BY <1>1, <1>4 DEF IsSeq
<1>8. Rest = Len(l) + Len(f) + Len(p) + Len(u) + Len(d)
  BY <1>3 DEF Rest
<1>9. Firsts \in Nat /\ Rest \in Nat /\ Len(s) = Firsts + Rest
  BY <1>1, <1>6, <1>7, <1>8
<1>10. Section(s, {"host"}, {v \in names : D!Matches(v)})
  <2> PICK F, G, H : /\ F = {v \in names \cap D!Favourite : D!Matches(v)}
                     /\ G = {v \in names \ (D!Favourite \cup D!Auto) : D!Matches(v)}
                     /\ H = {v \in (names \cap D!Auto) \ D!Favourite : D!Matches(v)}
    OBVIOUS
  <2>1. F \cap G = {} /\ (F \cup G) \cap H = {}
    OBVIOUS
  <2>2. F \cup G \cup H = {v \in names : D!Matches(v)}
    OBVIOUS
  <2>3. Section(f, {"host"}, F) /\ Section(p, {"host"}, G) /\ Section(u, {"host"}, H)
    BY <1>3, HostSections
  <2>4. Section(a \o l, {"host"}, {})
    BY <1>1, <1>4, NothingJoined
  <2>5. Section(a \o l \o b, {"host"}, {})
    BY <1>1, <2>4, NothingJoined
  <2>6. Section(a \o l \o b \o f, {"host"}, F)
    <3>1. Section(a \o l \o b \o f, {"host"}, {} \cup F)
      BY <2>3, <2>5, SectionsJoined, {} \cap F = {}
    <3> QED BY <3>1, {} \cup F = F, Zenon
  <2>7. Section(a \o l \o b \o f \o p, {"host"}, F \cup G)
    BY <2>1, <2>3, <2>6, SectionsJoined
  <2>8. Section(a \o l \o b \o f \o p \o u, {"host"}, F \cup G \cup H)
    BY <2>1, <2>3, <2>7, SectionsJoined
  <2>9. Section(a \o l \o b \o f \o p \o u \o d, {"host"}, F \cup G \cup H)
    BY <1>4, <2>8, NothingJoined
  <2> QED BY <1>5, <2>2, <2>9, Zenon
<1> QED BY <1>2, <1>6, <1>9, <1>10

UsedButtons == D!Matched(D!Filtered(recentButtons, D!There))
OtherButtons == D!Items("button", D!Filtered(D!Matched(D!UserButtons), D!There \ D!ActiveGroup))
Actives == D!Items("button", D!Filtered(D!Matched(D!UserButtons), D!ActiveGroup))
Customs == D!Items("custom_shortcut", D!Matched(D!Shortcuts))
Builtins == D!Items("builtin_button", D!Matched(D!Builtin))
RestButtons == Len(Actives) + Len(OtherButtons) + Len(Customs) + Len(Builtins)

LEMMA ValuesJoined ==
    ASSUME NEW s, NEW t, IsSeq(s), IsSeq(t)
    PROVE  Values(s \o t) = Values(s) \cup Values(t)
<1>1. PICK u : u = s \o t
  OBVIOUS
<1>2. PICK m \in Nat, n \in Nat : m = Len(s) /\ n = Len(t)
  BY DEF IsSeq
<1>3. /\ \A k \in 1 .. m : k \in 1 .. Len(u) /\ u[k] = s[k]
      /\ \A k \in 1 .. n : m + k \in 1 .. Len(u) /\ u[m + k] = t[k]
      /\ \A k \in 1 .. Len(u) : k \in 1 .. m \/ k - m \in 1 .. n
      /\ Len(u) \in Nat
  BY <1>1, <1>2, Joined DEF IsSeq
<1>4. ASSUME NEW v \in Values(u) PROVE v \in Values(s) \cup Values(t)
  <2>1. PICK k \in 1 .. Len(u) : u[k] = v
    BY DEF Values
  <2>2. CASE k \in 1 .. m
    BY <1>2, <1>3, <2>1, <2>2 DEF Values
  <2>3. CASE k - m \in 1 .. n
    <3>1. PICK l \in 1 .. n : l = k - m
      BY <2>3
    <3>2. k = m + l
      BY <1>3, <3>1
    <3> QED BY <1>2, <1>3, <2>1, <3>2 DEF Values
  <2> QED BY <1>3, <2>2, <2>3
<1>5. ASSUME NEW v \in Values(s) PROVE v \in Values(u)
  <2>1. PICK k \in 1 .. m : s[k] = v
    BY <1>2 DEF Values
  <2> QED BY <1>3, <2>1 DEF Values
<1>6. ASSUME NEW v \in Values(t) PROVE v \in Values(u)
  <2>1. PICK k \in 1 .. n : t[k] = v
    BY <1>2 DEF Values
  <2> QED BY <1>3, <2>1 DEF Values
<1> QED BY <1>1, <1>4, <1>5, <1>6

LEMMA ButtonSections ==
    /\ IsSeq(Actives) /\ IsSeq(OtherButtons) /\ IsSeq(Customs) /\ IsSeq(Builtins)
    /\ Saves(Actives) /\ Saves(OtherButtons) /\ Saves(Customs) /\ Saves(Builtins)
    /\ Section(Actives, {"button"}, {v \in {"b2"} : D!Matches(v)})
    /\ Section(OtherButtons, {"button"}, {v \in {"b1"} : D!Matches(v)})
    /\ Section(Customs, {"button"}, {}) /\ Section(Builtins, {"button"}, {})
    /\ Section(Actives, D!RecentTypes, {}) /\ Section(OtherButtons, D!RecentTypes, {})
    /\ Section(Customs, D!RecentTypes, {}) /\ Section(Builtins, D!RecentTypes, {})
<1>1. /\ Distinct(D!UserButtons) /\ Values(D!UserButtons) = {"b1", "b2"}
      /\ Distinct(D!Shortcuts) /\ Distinct(D!Builtin)
  BY Literals DEF D!UserButtons, D!Shortcuts, D!Builtin
<1>2. D!There = {"b1", "b2", "b3", "k1"}
  <2>1. PICK a, b, c : a = D!UserButtons /\ b = D!Builtin /\ c = D!Shortcuts
    OBVIOUS
  <2>2. /\ IsSeq(a) /\ IsSeq(b) /\ IsSeq(c)
        /\ Values(a) = {"b1", "b2"} /\ Values(b) = {"b3"} /\ Values(c) = {"k1"}
    BY <1>1, <2>1, Literals, DistinctSeq DEF D!Builtin, D!Shortcuts
  <2>3. IsSeq(a \o b) /\ Values(a \o b) = {"b1", "b2"} \cup {"b3"}
    BY <2>2, Joined, ValuesJoined
  <2>4. IsSeq(a \o b \o c) /\ Values(a \o b \o c) = {"b1", "b2"} \cup {"b3"} \cup {"k1"}
    BY <2>2, <2>3, Joined, ValuesJoined
  <2>5. D!There = Values(a \o b \o c)
    BY <2>1, <2>4, SetOf, Zenon DEF D!There
  <2> QED BY <2>4, <2>5
<1>3. PICK m : m = D!Matched(D!UserButtons)
  OBVIOUS
<1>4. Distinct(m) /\ IsSeq(m) /\ Values(m) = {v \in {"b1", "b2"} : D!Matches(v)}
  BY <1>1, <1>3, MatchedOf
<1>5. PICK f, o : f = D!Filtered(m, D!ActiveGroup) /\ o = D!Filtered(m, D!There \ D!ActiveGroup)
  OBVIOUS
<1>6. /\ Distinct(f) /\ IsSeq(f) /\ Values(f) = Values(m) \cap D!ActiveGroup
      /\ Distinct(o) /\ IsSeq(o) /\ Values(o) = Values(m) \cap (D!There \ D!ActiveGroup)
  BY <1>4, <1>5, FilteredValues
<1>7. /\ Values(f) = {v \in {"b2"} : D!Matches(v)}
      /\ Values(o) = {v \in {"b1"} : D!Matches(v)}
  BY <1>2, <1>4, <1>6 DEF D!ActiveGroup
<1>8. IsSeq(D!Matched(D!Shortcuts)) /\ IsSeq(D!Matched(D!Builtin))
  BY <1>1, MatchedOf
<1>9. /\ "button" \notin D!RecentTypes /\ "custom_shortcut" \notin D!RecentTypes
      /\ "builtin_button" \notin D!RecentTypes
  BY DEF D!RecentTypes
<1>10. IsSeq(Actives) /\ Saves(Actives) /\ Section(Actives, {"button"}, Values(f))
       /\ Section(Actives, D!RecentTypes, {})
  BY <1>3, <1>5, <1>6, <1>9, ItemsOf, ItemsSave DEF Actives
<1>11. IsSeq(OtherButtons) /\ Saves(OtherButtons) /\ Section(OtherButtons, {"button"}, Values(o))
       /\ Section(OtherButtons, D!RecentTypes, {})
  BY <1>3, <1>5, <1>6, <1>9, ItemsOf, ItemsSave DEF OtherButtons
<1>12. IsSeq(Customs) /\ Saves(Customs) /\ Section(Customs, {"button"}, {})
       /\ Section(Customs, D!RecentTypes, {})
  BY <1>8, <1>9, ItemsOf, ItemsSave DEF Customs
<1>13. IsSeq(Builtins) /\ Saves(Builtins) /\ Section(Builtins, {"button"}, {})
       /\ Section(Builtins, D!RecentTypes, {})
  BY <1>8, <1>9, ItemsOf, ItemsSave DEF Builtins
<1> QED BY <1>7, <1>10, <1>11, <1>12, <1>13

LEMMA RecentsAre ==
    ASSUME DialogTyped
    PROVE  /\ Distinct(UsedButtons)
           /\ Values(UsedButtons) = {v \in D!ToSet(recentButtons) \cap D!There : D!Matches(v)}
           /\ IsSeq(D!RecentItems) /\ Len(D!RecentItems) = Len(UsedButtons) /\ Saves(D!RecentItems)
           /\ Section(D!RecentItems, D!RecentTypes, Values(UsedButtons))
           /\ Section(D!RecentItems, {"button"}, {})
<1>1. Distinct(recentButtons) /\ IsSeq(recentButtons)
  BY DistinctSeq DEF DialogTyped
<1>2. D!ToSet(recentButtons) = Values(recentButtons)
  BY <1>1, SetOf
<1>3. PICK t : t = D!Filtered(recentButtons, D!There)
  OBVIOUS
<1>4. Distinct(t) /\ Values(t) = Values(recentButtons) \cap D!There
  BY <1>1, <1>3, FilteredValues
<1>5. PICK u : u = UsedButtons
  OBVIOUS
<1>6. Distinct(u) /\ IsSeq(u) /\ Values(u) = {v \in Values(t) : D!Matches(v)}
  BY <1>3, <1>4, <1>5, MatchedOf DEF UsedButtons
<1>7. PICK n \in Nat : n = Len(u) /\ DOMAIN u = 1 .. n
  BY <1>6 DEF IsSeq
<1>8. PICK s : s = D!RecentItems
  OBVIOUS
<1>9. s = [i \in 1 .. n |-> D!RecentButton(u[i])]
  BY <1>5, <1>7, <1>8, Zenon DEF D!RecentItems, UsedButtons
<1>10. IsSeq(s) /\ Len(s) = n
  <2>1. DOMAIN s = 1 .. n /\ s = [i \in 1 .. n |-> s[i]]
    BY <1>9
  <2> QED BY <2>1, Listed
<1>11. \A id : D!RecentButton(id).type \in D!RecentTypes /\ D!RecentButton(id).value = id
  BY DEF D!RecentButton, D!Item, D!RecentTypes
<1>12. \A k \in 1 .. n : s[k].type \in D!RecentTypes /\ s[k].value = u[k]
  BY <1>9, <1>11
<1>13. "button" \notin D!RecentTypes /\ "recent" \notin D!RecentTypes /\ "direct" \notin D!RecentTypes
       /\ "help" \notin D!RecentTypes
  BY DEF D!RecentTypes
<1>14. Saves(s) /\ Section(s, {"button"}, {})
  BY <1>10, <1>12, <1>13 DEF Saves, Section
<1>15. Section(s, D!RecentTypes, Values(u))
  <2>1. \A i, j \in 1 .. n : s[i].value = s[j].value => i = j
    <3> TAKE i, j \in 1 .. n
    <3>1. s[i].value = u[i] /\ s[j].value = u[j]
      BY <1>12
    <3>2. u[i] = u[j] => i = j
      BY <1>6, <1>7 DEF Distinct
    <3> QED BY <3>1, <3>2
  <2>2. \A i \in 1 .. n : s[i].type \in D!RecentTypes /\ s[i].value \in Values(u)
    BY <1>7, <1>12 DEF Values
  <2>3. \A v \in Values(u) : \E i \in 1 .. n : s[i].value = v
    BY <1>7, <1>12 DEF Values
  <2> QED BY <1>10, <2>1, <2>2, <2>3 DEF Section
<1>16. {v \in Values(t) : D!Matches(v)} = {v \in D!ToSet(recentButtons) \cap D!There : D!Matches(v)}
  BY <1>2, <1>4
<1> QED BY <1>5, <1>6, <1>7, <1>8, <1>10, <1>14, <1>15, <1>16

LEMMA ButtonsAre ==
    DialogTyped =>
      /\ IsSeq(D!Buttons) /\ Len(UsedButtons) \in Nat /\ RestButtons \in Nat
      /\ Len(D!Buttons) = Len(UsedButtons) + RestButtons
      /\ Saves(D!Buttons)
      /\ Section(D!Buttons, {"button"}, {v \in {"b1", "b2"} : D!Matches(v)})
      /\ Section(D!Buttons, D!RecentTypes,
                 {v \in D!ToSet(recentButtons) \cap D!There : D!Matches(v)})
<1> SUFFICES ASSUME DialogTyped
             PROVE  /\ IsSeq(D!Buttons) /\ Len(UsedButtons) \in Nat /\ RestButtons \in Nat
                    /\ Len(D!Buttons) = Len(UsedButtons) + RestButtons
                    /\ Saves(D!Buttons)
                    /\ Section(D!Buttons, {"button"}, {v \in {"b1", "b2"} : D!Matches(v)})
                    /\ Section(D!Buttons, D!RecentTypes,
                               {v \in D!ToSet(recentButtons) \cap D!There : D!Matches(v)})
  OBVIOUS
<1>1. PICK s, a, b, c, d, e : /\ s = D!Buttons /\ a = D!RecentItems /\ b = Actives /\ c = OtherButtons
                              /\ d = Customs /\ e = Builtins
  OBVIOUS
<1>2. s = a \o b \o c \o d \o e
  BY <1>1, Zenon DEF D!Buttons, Actives, OtherButtons, Customs, Builtins
<1>3. /\ IsSeq(a) /\ IsSeq(b) /\ IsSeq(c) /\ IsSeq(d) /\ IsSeq(e)
      /\ Saves(a) /\ Saves(b) /\ Saves(c) /\ Saves(d) /\ Saves(e)
      /\ Len(a) = Len(UsedButtons)
  BY <1>1, ButtonSections, RecentsAre
<1>4. IsSeq(s) /\ Saves(s) /\ Len(s) = Len(a) + Len(b) + Len(c) + Len(d) + Len(e)
  BY <1>2, <1>3, FiveJoined
<1>5. Len(a) \in Nat /\ Len(b) \in Nat /\ Len(c) \in Nat /\ Len(d) \in Nat /\ Len(e) \in Nat
  BY <1>3 DEF IsSeq
<1>6. RestButtons = Len(b) + Len(c) + Len(d) + Len(e)
  BY <1>1 DEF RestButtons
<1>7. Section(s, {"button"}, {v \in {"b1", "b2"} : D!Matches(v)})
  <2> PICK F, G : F = {v \in {"b2"} : D!Matches(v)} /\ G = {v \in {"b1"} : D!Matches(v)}
    OBVIOUS
  <2>1. F \cap G = {} /\ F \cup G = {v \in {"b1", "b2"} : D!Matches(v)}
    OBVIOUS
  <2>2. /\ Section(a, {"button"}, {}) /\ Section(b, {"button"}, F) /\ Section(c, {"button"}, G)
        /\ Section(d, {"button"}, {}) /\ Section(e, {"button"}, {})
    BY <1>1, ButtonSections, RecentsAre
  <2>3. Section(a \o b, {"button"}, F)
    <3>1. Section(a \o b, {"button"}, {} \cup F)
      BY <2>2, SectionsJoined, {} \cap F = {}
    <3> QED BY <3>1, {} \cup F = F, Zenon
  <2>4. Section(a \o b \o c, {"button"}, F \cup G)
    BY <2>1, <2>2, <2>3, SectionsJoined
  <2>5. Section(a \o b \o c \o d \o e, {"button"}, F \cup G)
    BY <2>2, <2>4, NothingJoined
  <2> QED BY <1>2, <2>1, <2>5, Zenon
<1>8. Section(s, D!RecentTypes, {v \in D!ToSet(recentButtons) \cap D!There : D!Matches(v)})
  <2>1. /\ Section(a, D!RecentTypes, Values(UsedButtons)) /\ Section(b, D!RecentTypes, {})
        /\ Section(c, D!RecentTypes, {}) /\ Section(d, D!RecentTypes, {})
        /\ Section(e, D!RecentTypes, {})
    BY <1>1, ButtonSections, RecentsAre
  <2>2. Section(a \o b \o c \o d \o e, D!RecentTypes, Values(UsedButtons))
    BY <2>1, NothingJoined
  <2> QED BY <1>2, <2>2, RecentsAre, Zenon
<1> QED BY <1>1, <1>3, <1>4, <1>5, <1>6, <1>7, <1>8

LEMMA MatchedSeq ==
    ASSUME NEW t, IsSeq(t)
    PROVE  IsSeq(D!Matched(t))
BY FilteredValues DEF D!Matched

LEMMA ModesAre == IsSeq(D!Modes) /\ D!ToSet(D!Modes) = ModeNames
<1>1. PICK s : s = D!Modes
  OBVIOUS
<1>2. /\ DOMAIN s = 1 .. 6 /\ s[1] = "servers" /\ s[2] = "buttons" /\ s[3] = "tabs" /\ s[4] = "tags"
      /\ s[5] = "tunnels" /\ s[6] = "help"
  BY <1>1 DEF D!Modes
<1>3. \A k \in 1 .. 6 : k = 1 \/ k = 2 \/ k = 3 \/ k = 4 \/ k = 5 \/ k = 6
  OBVIOUS
<1>4. 1 \in 1 .. 6 /\ 2 \in 1 .. 6 /\ 3 \in 1 .. 6 /\ 4 \in 1 .. 6 /\ 5 \in 1 .. 6 /\ 6 \in 1 .. 6
  OBVIOUS
<1>5. IsSeq(s)
  <2>1. Len(s) = 6 /\ s = [k \in 1 .. 6 |-> s[k]]
    BY <1>1 DEF D!Modes
  <2> QED BY <2>1 DEF IsSeq
<1> QED BY <1>1, <1>2, <1>3, <1>4, <1>5 DEF D!ToSet, ModeNames

LEMMA ModeKinds == D!Mode \in {"servers", "buttons", "tabs", "tags", "tunnels", "help"}
BY DEF D!Mode, D!Parse, D!ModeOf

LEMMA ShownAre ==
    Limited /\ DialogTyped => IsSeq(D!Shown) /\ Saves(D!Shown)
<1> SUFFICES ASSUME Limited, DialogTyped
             PROVE  IsSeq(D!Shown) /\ Saves(D!Shown)
  OBVIOUS
<1>1. CASE D!Mode = "servers"
  BY <1>1, ServersAre DEF D!Shown
<1>2. CASE D!Mode = "buttons"
  BY <1>2, ButtonsAre DEF D!Shown
<1>3. ASSUME NEW values, IsSeq(values), NEW type, type \notin {"recent", "direct", "help"}
      PROVE  IsSeq(D!Items(type, D!Matched(values))) /\ Saves(D!Items(type, D!Matched(values)))
  BY <1>3, MatchedSeq, ItemsOf, ItemsSave
<1>4. CASE D!Mode = "tabs"
  <2>1. PICK s, t : s = D!Items("tab", D!Matched(<<"t1">>)) /\ t = D!Items("pinned_tab", D!Matched(pinned))
    OBVIOUS
  <2>2. IsSeq(<<"t1">>) /\ IsSeq(pinned)
    BY Literals, DistinctSeq DEF DialogTyped
  <2>3. IsSeq(s) /\ Saves(s) /\ IsSeq(t) /\ Saves(t)
    BY <1>3, <2>1, <2>2
  <2>4. D!Shown = s \o t
    BY <1>4, <2>1 DEF D!Shown
  <2> QED BY <2>3, <2>4, Joined, SavesJoined
<1>5. CASE D!Mode = "tags"
  <2>1. IsSeq(<<"tag1", "tag2">>)
    BY Literals, DistinctSeq
  <2> QED BY <1>3, <1>5, <2>1 DEF D!Shown
<1>6. CASE D!Mode = "tunnels"
  <2>1. PICK t : t = IF tidings > 0 THEN <<"u1">> ELSE <<>>
    OBVIOUS
  <2>2. IsSeq(t)
    BY <2>1, Literals, DistinctSeq
  <2>3. D!Shown = D!Items("tunnel", D!Matched(t))
    BY <1>6, <2>1 DEF D!Shown
  <2> QED BY <1>3, <2>2, <2>3
<1>7. CASE D!Mode = "help"
  <2>1. PICK s, t : s = D!Items("help", D!Matched(D!Modes)) /\ t = D!Items("link", D!Matched(<<"l1">>))
    OBVIOUS
  <2>2. IsSeq(<<"l1">>)
    BY Literals, DistinctSeq
  <2>3. IsSeq(s) /\ Saves(s)
    <3>1. IsSeq(D!Matched(D!Modes)) /\ Values(D!Matched(D!Modes)) \in SUBSET ModeNames
      <4>1. PICK m : m = D!Modes
        OBVIOUS
      <4>2. IsSeq(m) /\ Values(m) = ModeNames
        BY <4>1, ModesAre, SetOf
      <4>3. /\ IsSeq(D!Filtered(m, {v \in D!ToSet(m) : D!Matches(v)}))
            /\ Values(D!Filtered(m, {v \in D!ToSet(m) : D!Matches(v)})) \in SUBSET Values(m)
        BY <4>2, FilteredValues
      <4> QED BY <4>1, <4>2, <4>3 DEF D!Matched
    <3> QED BY <2>1, <3>1, ItemsOf, ItemsSave
  <2>5. IsSeq(t) /\ Saves(t)
    BY <1>3, <2>1, <2>2
  <2>4. D!Shown = s \o t
    BY <1>7, <2>1 DEF D!Shown
  <2> QED BY <2>3, <2>4, <2>5, Joined, SavesJoined
<1> QED BY <1>1, <1>2, <1>4, <1>5, <1>6, <1>7, ModeKinds

\* Each host and button that matches is shown once.
LEMMA ShowsOnce == Limited /\ DialogTyped => D!OnceEach
<1> SUFFICES ASSUME Limited, DialogTyped
             PROVE  D!OnceEach
  OBVIOUS
<1> DEFINE Places(types) == {i \in DOMAIN D!Shown : D!Shown[i].type \in types}
           Once(types, values) ==
             /\ \A i, j \in Places(types) : D!Shown[i].value = D!Shown[j].value => i = j
             /\ {D!Shown[i].value : i \in Places(types)} = {v \in values : D!Matches(v)}
<1>1. ASSUME NEW types, NEW V, Section(D!Shown, types, {v \in V : D!Matches(v)})
      PROVE  Once(types, V)
  <2>1. PICK s : s = D!Shown
    OBVIOUS
  <2>2. PICK X : X = {v \in V : D!Matches(v)}
    OBVIOUS
  <2>3. Section(s, types, X) /\ DOMAIN s = 1 .. Len(s)
    BY <1>1, <2>1, <2>2 DEF Section, IsSeq
  <2>4. Places(types) = {i \in 1 .. Len(s) : s[i].type \in types}
    BY <2>1, <2>3, Zenon
  <2>5. {s[i].value : i \in Places(types)} \in SUBSET X
    BY <2>3, <2>4 DEF Section
  <2>6. ASSUME NEW v \in X PROVE v \in {s[i].value : i \in Places(types)}
    BY <2>3, <2>4 DEF Section
  <2>7. \A i, j \in Places(types) : s[i].value = s[j].value => i = j
    BY <2>3, <2>4 DEF Section
  <2> HIDE DEF Places
  <2> QED BY <2>1, <2>2, <2>5, <2>6, <2>7
<1>2. ASSUME D!Mode = "servers" PROVE Once({"host"}, names)
  BY <1>1, <1>2, ServersAre DEF D!Shown
<1>3. ASSUME D!Mode = "buttons"
      PROVE  /\ Once({"button"}, D!ToSet(D!UserButtons))
             /\ Once(D!RecentTypes, D!ToSet(recentButtons) \cap D!There)
  <2>1. /\ Section(D!Shown, {"button"}, {v \in {"b1", "b2"} : D!Matches(v)})
        /\ Section(D!Shown, D!RecentTypes,
                   {v \in D!ToSet(recentButtons) \cap D!There : D!Matches(v)})
    BY <1>3, ButtonsAre DEF D!Shown
  <2>2. D!ToSet(D!UserButtons) = {"b1", "b2"}
    <3>1. PICK b : b = D!UserButtons
      OBVIOUS
    <3>2. IsSeq(b) /\ Values(b) = {"b1", "b2"}
      BY <3>1, Literals, DistinctSeq DEF D!UserButtons
    <3> QED BY <3>1, <3>2, SetOf
  <2>3. Once({"button"}, {"b1", "b2"})
    BY <1>1, <2>1
  <2>4. Once(D!RecentTypes, D!ToSet(recentButtons) \cap D!There)
    BY <1>1, <2>1
  <2> HIDE DEF Once
  <2> QED BY <2>2, <2>3, <2>4
<1> QED BY <1>2, <1>3, Zenon DEF D!OnceEach

-----------------------------------------------------------------------------
(* Turns.                                                                  *)

\* A mark before a text is what the filter begins with.
LEMMA Marked ==
    ASSUME NEW mark \in D!Tokens, NEW text \in Seq(D!Tokens)
    PROVE  /\ <<mark>> \o text \in Seq(D!Tokens) /\ <<mark>> \o text # <<>>
           /\ (<<mark>> \o text)[1] = mark /\ Tail(<<mark>> \o text) = text
<1>1. PICK g, h : g = <<mark>> \o text /\ h = <<mark>>
  OBVIOUS
<1>2. h \in Seq(D!Tokens) /\ Len(h) = 1 /\ h[1] = mark
  BY <1>1
<1>3. PICK n \in Nat : n = Len(text)
  OBVIOUS
<1>4. /\ g \in Seq(D!Tokens) /\ Len(g) = 1 + n
      /\ \A i \in 1 .. 1 + n : g[i] = IF i <= 1 THEN h[i] ELSE text[i - 1]
  BY <1>1, <1>2, <1>3, ConcatProperties
<1>5. g # <<>> /\ g[1] = mark
  BY <1>2, <1>3, <1>4
<1>6. Tail(g) \in Seq(D!Tokens) /\ Len(Tail(g)) = n /\ \A i \in 1 .. n : Tail(g)[i] = g[i + 1]
  BY <1>3, <1>4, <1>5, HeadTailProperties
<1>7. \A i \in 1 .. n : Tail(g)[i] = text[i]
  <2> TAKE i \in 1 .. n
  <2>1. i + 1 \in 1 .. 1 + n /\ ~ (i + 1 <= 1) /\ i + 1 - 1 = i
    OBVIOUS
  <2> QED BY <1>4, <1>6, <2>1
<1>8. Tail(g) = text
  BY <1>3, <1>6, <1>7, SeqEqual
<1> QED BY <1>1, <1>4, <1>5, <1>8

LEMMA ParsedText ==
    ASSUME NEW f \in Seq(D!Tokens)
    PROVE  D!Parse(f).text \in Seq(D!Tokens)
<1>1. f # <<>> => Tail(f) \in Seq(D!Tokens)
  BY HeadTailProperties
<1>2. D!Parse(f).text \in {f, Tail(f)} /\ (D!Parse(f).text # f => f # <<>>)
  BY DEF D!Parse
<1> QED BY <1>1, <1>2

\* What is cut at a token does not have it.
LEMMA CutOff ==
    ASSUME NEW text \in Seq(D!Tokens), NEW token
    PROVE  D!Cut(text, token) \in Seq(D!Tokens) /\ ~ D!Has(D!Cut(text, token), token)
<1>1. PICK n \in Nat : n = Len(text) /\ DOMAIN text = 1 .. n
  OBVIOUS
<1>2. D!Has(text, token) <=> \E i \in 1 .. n : text[i] = token
  BY <1>1 DEF D!Has, D!ToSet
<1>3. CASE ~ D!Has(text, token)
  BY <1>3, Zenon DEF D!Cut
<1>4. CASE D!Has(text, token)
  <2> DEFINE I == {i \in 1 .. n : text[i] = token}
  <2>1. PICK m \in I : \A i \in I : m <= i
    <3>1. I # {} /\ I \in SUBSET Nat
      BY <1>2, <1>4
    <3> HIDE DEF I
    <3> QED BY <3>1, LeastIn
  <2>2. PICK k : k = D!SelectInSeq(text, LAMBDA t : t = token)
    OBVIOUS
  <2>3. k = D!Min(I)
    BY <1>1, <1>2, <1>4, <2>2 DEF D!SelectInSeq
  <2>4. k \in I /\ \A i \in I : k <= i
    BY <2>1, <2>3 DEF D!Min
  <2>5. PICK s : s = SubSeq(text, 1, k - 1)
    OBVIOUS
  <2>6. s = [i \in 1 .. k - 1 |-> text[i]] /\ k - 1 \in Nat
    BY <1>1, <2>4, <2>5
  <2>7. s \in Seq(D!Tokens) /\ DOMAIN s = 1 .. k - 1
    BY <1>1, <2>4, <2>6
  <2>8. \A i \in 1 .. k - 1 : s[i] # token
    BY <1>1, <2>4, <2>6
  <2>9. D!Cut(text, token) = s
    BY <1>4, <2>2, <2>5, Zenon DEF D!Cut
  <2> HIDE DEF I
  <2> QED BY <2>7, <2>8, <2>9 DEF D!Has, D!ToSet
<1> QED BY <1>3, <1>4

\* The text of a search by tag.
TagOf(text) ==
    LET first == D!Cut(text, " ")
    IN IF first # <<>> /\ first[1] = "#" THEN Tail(first) ELSE first

LEMMA Tag ==
    ASSUME NEW text \in Seq(D!Tokens)
    PROVE  TagOf(text) \in Seq(D!Tokens) /\ ~ D!Has(TagOf(text), " ")
<1>1. PICK s : s = D!Cut(text, " ")
  OBVIOUS
<1>2. s \in Seq(D!Tokens) /\ ~ D!Has(s, " ")
  BY <1>1, CutOff
<1>3. ASSUME s # <<>>
      PROVE  Tail(s) \in Seq(D!Tokens) /\ ~ D!Has(Tail(s), " ")
  <2>1. PICK t : t = Tail(s)
    OBVIOUS
  <2>2. t \in Seq(D!Tokens) /\ Len(t) = Len(s) - 1 /\ \A i \in 1 .. Len(t) : t[i] = s[i + 1]
    BY <1>2, <1>3, <2>1, HeadTailProperties
  <2>3. DOMAIN t = 1 .. Len(t) /\ DOMAIN s = 1 .. Len(s) /\ Len(s) \in Nat /\ Len(t) \in Nat
    <3>1. \A u \in Seq(D!Tokens) : DOMAIN u = 1 .. Len(u) /\ Len(u) \in Nat
      OBVIOUS
    <3> QED BY <1>2, <2>2, <3>1
  <2>4. \A i \in 1 .. Len(t) : i + 1 \in 1 .. Len(s)
    BY <2>2, <2>3
  <2>5. \A i \in DOMAIN s : s[i] # " "
    BY <1>2 DEF D!Has, D!ToSet
  <2> QED BY <2>1, <2>2, <2>3, <2>4, <2>5 DEF D!Has, D!ToSet
<1>4. TagOf(text) = IF s # <<>> /\ s[1] = "#" THEN Tail(s) ELSE s
  BY <1>1, Zenon DEF TagOf
<1> QED BY <1>2, <1>3, <1>4

\* The filter of another mode.
LEMMA ChangedTo ==
    ASSUME NEW f \in Seq(D!Tokens), NEW m \in ModeNames, NEW reset \in BOOLEAN
    PROVE  /\ D!Changed(f, m, reset) \in Seq(D!Tokens)
           /\ D!Prefix[m] \in Seq(D!Tokens)
<1>1. PICK text \in Seq(D!Tokens) : text = D!Parse(f).text
  BY ParsedText
<1>2. PICK tag \in Seq(D!Tokens) : tag = IF m # "tags" THEN text ELSE TagOf(text)
  BY Tag
<1>3. D!Prefix[m] \in Seq(D!Tokens)
  <2>1. D!Prefix[m] = <<>> \/ \E t \in {">", "@", "#", ":", "?"} : D!Prefix[m] = <<t>>
    BY DEF D!Prefix, ModeNames
  <2>2. \A t \in D!Tokens : <<t>> \in Seq(D!Tokens)
    OBVIOUS
  <2>3. {">", "@", "#", ":", "?"} \in SUBSET D!Tokens
    BY DEF D!Tokens, D!Marks
  <2>4. <<>> \in Seq(D!Tokens)
    OBVIOUS
  <2> QED BY <2>1, <2>2, <2>3, <2>4, Zenon
<1>4. <<>> \in Seq(D!Tokens)
  OBVIOUS
<1>5. D!Changed(f, m, reset) = D!Prefix[m] \o (IF reset THEN <<>> ELSE tag)
  BY <1>1, <1>2, Zenon DEF D!Changed, TagOf
<1>6. \A s, t \in Seq(D!Tokens) : s \o t \in Seq(D!Tokens)
  BY ConcatProperties
<1> QED BY <1>2, <1>3, <1>4, <1>5, <1>6

LEMMA SeqIs == \A s \in Seq(D!Tokens) : IsSeq(s)
BY DEF IsSeq

LEMMA MarkedHas ==
    ASSUME NEW mark, NEW text \in Seq(D!Tokens), NEW token, token # mark,
           D!Has(<<mark>> \o text, token)
    PROVE  D!Has(text, token)
<1>1. PICK h : h = <<mark>>
  OBVIOUS
<1>2. IsSeq(h) /\ Values(h) = {mark} /\ IsSeq(text)
  BY <1>1, Literals, DistinctSeq, SeqIs
<1>3. IsSeq(h \o text) /\ Values(h \o text) = {mark} \cup Values(text)
  BY <1>2, Joined, ValuesJoined
<1>4. D!ToSet(h \o text) = Values(h \o text) /\ D!ToSet(text) = Values(text)
  BY <1>2, <1>3, SetOf
<1>5. token \in D!ToSet(h \o text)
  BY <1>1, Zenon DEF D!Has
<1> QED BY <1>3, <1>4, <1>5 DEF D!Has

\* A turn leads to the mode, with the text that was searched for.
LEMMA TurnsWhere ==
    ASSUME filter \in Seq(D!Tokens)
    PROVE  D!TurnsTo
<1>1. PICK text \in Seq(D!Tokens) : text = D!Parse(filter).text
  BY ParsedText
<1>2. ASSUME NEW m \in ModeNames, NEW mark \in D!Marks, m = D!ModeOf(mark), D!Prefix[m] = <<mark>>,
             NEW tag \in Seq(D!Tokens), m = "tags" => ~ D!Has(tag, " "),
             D!Changed(filter, m, FALSE) = D!Prefix[m] \o tag
      PROVE  /\ D!Parse(D!Changed(filter, m, FALSE)).mode = m
             /\ D!Parse(D!Changed(filter, m, FALSE)).text = tag
  <2>1. PICK g : g = <<mark>> \o tag
    OBVIOUS
  <2>2. mark \in D!Tokens
    BY DEF D!Tokens
  <2>3. g \in Seq(D!Tokens) /\ g # <<>> /\ g[1] = mark /\ Tail(g) = tag
    BY <2>1, <2>2, Marked
  <2>4. D!Changed(filter, m, FALSE) = g
    BY <1>2, <2>1
  <2>5. m # "servers"
    BY <1>2 DEF D!ModeOf, D!Marks
  <2>6. m = "tags" => ~ D!Has(g, " ")
    <3> SUFFICES ASSUME m = "tags", D!Has(g, " ") PROVE FALSE
      OBVIOUS
    <3>1. mark # " "
      BY DEF D!Marks
    <3>2. D!Has(tag, " ")
      BY <2>1, <3>1, MarkedHas
    <3> QED BY <1>2, <3>2
  <2>7. D!Parse(g) = [mode |-> m, text |-> tag]
    BY <1>2, <2>3, <2>5, <2>6 DEF D!Parse
  <2>8. PICK p : p = D!Parse(g)
    OBVIOUS
  <2>9. p.mode = m /\ p.text = tag
    BY <2>7, <2>8
  <2> QED BY <2>4, <2>8, <2>9, Zenon
<1>3. ASSUME NEW m \in ModeNames
      PROVE  LET p == D!Parse(D!Changed(filter, m, FALSE))
             IN \/ p.mode = m /\ (m # "tags" => p.text = D!Parse(filter).text)
                \/ /\ m = "servers" /\ D!Parse(filter).text # <<>>
                   /\ D!Parse(filter).text[1] \in D!Marks
  <2>1. CASE m = "servers"
    <3>1. D!Changed(filter, m, FALSE) = D!Prefix[m] \o text
      BY <1>1, <2>1, Zenon DEF D!Changed
    <3>2. D!Prefix[m] = <<>>
      BY <2>1 DEF D!Prefix
    <3>3. D!Changed(filter, m, FALSE) = text
      BY <3>1, <3>2, ConcatEmptySeq
    <3>4. PICK p : p = D!Parse(text)
      OBVIOUS
    <3>5. text = <<>> \/ text[1] \notin D!Marks => p = [mode |-> "servers", text |-> text]
      BY <3>4 DEF D!Parse, D!ModeOf, D!Marks
    <3>6. text = <<>> \/ text[1] \notin D!Marks => p.mode = m /\ p.text = text
      BY <2>1, <3>5
    <3> QED BY <1>1, <2>1, <3>3, <3>4, <3>6, Zenon
  <2>2. CASE m = "tags"
    <3>1. TagOf(text) \in Seq(D!Tokens) /\ ~ D!Has(TagOf(text), " ")
      BY Tag
    <3>2. D!Changed(filter, m, FALSE) = D!Prefix[m] \o TagOf(text)
      BY <1>1, <2>2, Zenon DEF D!Changed, TagOf
    <3>3. D!Prefix[m] = <<"#">> /\ "#" \in D!Marks /\ m = D!ModeOf("#")
      BY <2>2 DEF D!Prefix, D!Marks, D!ModeOf
    <3>4. PICK tag \in Seq(D!Tokens) : tag = TagOf(text)
      BY <3>1
    <3>5. D!Parse(D!Changed(filter, m, FALSE)).mode = m
      BY <1>2, <3>1, <3>2, <3>3, <3>4
    <3> QED BY <2>2, <3>5
  <2>3. CASE m \notin {"servers", "tags"}
    <3>1. D!Changed(filter, m, FALSE) = D!Prefix[m] \o text
      BY <1>1, <2>3, Zenon DEF D!Changed
    <3>2. \E mark \in D!Marks : m = D!ModeOf(mark) /\ D!Prefix[m] = <<mark>>
      BY <2>3 DEF D!Prefix, D!Marks, D!ModeOf, ModeNames
    <3>3. /\ D!Parse(D!Changed(filter, m, FALSE)).mode = m
          /\ D!Parse(D!Changed(filter, m, FALSE)).text = text
      BY <1>2, <2>3, <3>1, <3>2
    <3> QED BY <1>1, <3>3
  <2> QED BY <2>1, <2>2, <2>3
<1> QED BY <1>3, ModesAre, Zenon DEF D!TurnsTo

-----------------------------------------------------------------------------
(* The invariant.                                                          *)

DialogInv == DialogTyped /\ D!SelectionInRange

LEMMA DialogStart == D!Init => DialogInv
<1> SUFFICES ASSUME D!Init PROVE DialogInv
  OBVIOUS
<1>1. Distinct(recents) /\ Values(recents) = {"r1", "r2"} /\ Distinct(recentButtons)
  BY Literals DEF D!Init
<1>2. DialogTyped
  <2>1. filter \in Seq(D!Tokens) /\ index \in Int /\ index >= -1
    BY DEF D!Init
  <2> QED BY <1>1, <2>1, Zenon DEF D!Init, DialogTyped
<1> QED BY <1>2 DEF D!Init, DialogInv, D!SelectionInRange

\* Nothing but the text decides what matches.
LEMMA TextSame ==
    ASSUME filter' = filter
    PROVE  /\ D!Text' = D!Text /\ D!Mode' = D!Mode
           /\ \A v : D!Matches(v)' <=> D!Matches(v)
           /\ \A values : D!Matched(values)' = D!Matched(values)
<1>1. D!Text' = D!Text /\ D!Mode' = D!Mode
  BY Zenon DEF D!Text, D!Mode
<1>2. \A v : D!Matches(v)' <=> D!Matches(v)
  BY <1>1, Zenon DEF D!Matches
<1>3. \A values : D!Matched(values)' = D!Matched(values)
  BY <1>2 DEF D!Matched
<1> QED BY <1>1, <1>2, <1>3

LEMMA RestSame ==
    ASSUME filter' = filter, names' = names
    PROVE  /\ Rest' = Rest /\ RestButtons' = RestButtons
           /\ Locals' = Locals /\ Favourites' = Favourites /\ Plain' = Plain /\ Autos' = Autos
           /\ Direct' = Direct
           /\ Actives' = Actives /\ OtherButtons' = OtherButtons /\ Customs' = Customs /\ Builtins' = Builtins
<1>1. \A set : D!Known(set)' = D!Known(set)
  BY TextSame, Zenon DEF D!Known
<1>2. /\ Locals' = Locals /\ Favourites' = Favourites /\ Plain' = Plain /\ Autos' = Autos
      /\ Direct' = Direct
  BY <1>1, TextSame, Zenon DEF Locals, Favourites, Plain, Autos, Direct
<1>3. Actives' = Actives /\ OtherButtons' = OtherButtons /\ Customs' = Customs /\ Builtins' = Builtins
  BY TextSame, Zenon DEF Actives, OtherButtons, Customs, Builtins
<1> QED BY <1>2, <1>3, Zenon DEF Rest, RestButtons

LEMMA OtherShown ==
    ASSUME filter' = filter, pinned' = pinned, tidings' = tidings,
           D!Mode \notin {"servers", "buttons"}
    PROVE  D!Shown' = D!Shown
<1>1. D!Mode' = D!Mode
  BY TextSame
<1>2. CASE D!Mode = "tabs"
  BY <1>1, <1>2, TextSame DEF D!Shown
<1>3. CASE D!Mode = "tags"
  BY <1>1, <1>3, TextSame DEF D!Shown
<1>4. CASE D!Mode = "tunnels"
  BY <1>1, <1>4, TextSame DEF D!Shown
<1>5. CASE D!Mode = "help"
  BY <1>1, <1>5, TextSame DEF D!Shown
<1> QED BY <1>2, <1>3, <1>4, <1>5, ModeKinds

LEMMA ShownSame ==
    ASSUME filter' = filter, UNCHANGED D!lists, tidings' = tidings
    PROVE  D!Shown' = D!Shown
<1>1. /\ recents' = recents /\ recentButtons' = recentButtons /\ names' = names
      /\ pinned' = pinned
  BY DEF D!lists
<1>2. D!Servers' = D!Servers
  <2>1. D!Matched(recents)' = D!Matched(recents)
    BY <1>1, TextSame, Zenon DEF D!Matched
  <2>2. \A set : D!Known(set)' = D!Known(set)
    BY TextSame, Zenon DEF D!Known
  <2> QED BY <1>1, <2>1, <2>2, TextSame, Zenon DEF D!Servers
<1>3. D!Buttons' = D!Buttons
  <2>1. D!RecentItems' = D!RecentItems
    <3>1. UsedButtons' = UsedButtons
      BY <1>1, TextSame, Zenon DEF UsedButtons, D!Matched
    <3> QED BY <3>1 DEF D!RecentItems, UsedButtons
  <2>2. \A values : D!Matched(values)' = D!Matched(values)
    BY TextSame
  <2> QED BY <2>1, <2>2, Zenon DEF D!Buttons
<1>4. CASE D!Mode = "servers"
  BY <1>2, <1>4, TextSame DEF D!Shown
<1>5. CASE D!Mode = "buttons"
  BY <1>3, <1>5, TextSame DEF D!Shown
<1> QED BY <1>1, <1>4, <1>5, OtherShown

\* Without an item of the recent ones the list is shorter by one at most.
LEMMA OneItemLess ==
    ASSUME Limited, DialogTyped, DialogTyped', filter' = filter, names' = names, pinned' = pinned,
           tidings' = tidings, NEW x, Values(recents) \ {x} \in SUBSET Values(recents'),
           Values(recentButtons) \ {x} \in SUBSET Values(recentButtons')
    PROVE  Len(D!Shown)' >= Len(D!Shown) - 1
<1> PICK r, b : r = recents' /\ b = recentButtons'
  OBVIOUS
<1>1. Distinct(recents) /\ Distinct(r) /\ Distinct(recentButtons) /\ Distinct(b)
  BY DEF DialogTyped
<1>2. ASSUME NEW s, NEW t, Distinct(s), Distinct(t), Values(s) \ {x} \in SUBSET Values(t)
      PROVE  /\ Len(D!Matched(s)) \in Nat /\ Len(D!Matched(t)) \in Nat
             /\ Len(D!Matched(t)) >= Len(D!Matched(s)) - 1
  <2>1. PICK p, q : p = D!Matched(s) /\ q = D!Matched(t)
    OBVIOUS
  <2>2. /\ Distinct(p) /\ Values(p) = {v \in Values(s) : D!Matches(v)}
        /\ Distinct(q) /\ Values(q) = {v \in Values(t) : D!Matches(v)}
    BY <1>2, <2>1, MatchedOf
  <2>3. Values(p) \ {x} \in SUBSET Values(q)
    BY <1>2, <2>2
  <2> QED BY <2>1, <2>2, <2>3, OneLess DEF Distinct
<1>3. CASE D!Mode = "servers"
  <2>1. PICK m \in Nat, n \in Nat : m = Len(D!Matched(recents)) /\ n = Len(D!Matched(r)) /\ n >= m - 1
    BY <1>1, <1>2
  <2>2. D!Matched(recents)' = D!Matched(r)
    BY TextSame, Zenon DEF D!Matched
  <2>3. /\ Firsts = IF D!Text = <<>> \/ m < Latest THEN m ELSE Latest
        /\ Firsts' = IF D!Text = <<>> \/ n < Latest THEN n ELSE Latest
    BY <2>1, <2>2, TextSame, Zenon DEF Firsts
  <2>4. Firsts' >= Firsts - 1
    BY <2>1, <2>3 DEF Limited
  <2>5. Len(D!Servers) = Firsts + Rest /\ Firsts \in Nat /\ Rest \in Nat
    BY ServersAre
  <2>6. (Len(D!Servers) = Firsts + Rest /\ Firsts \in Nat /\ Rest \in Nat)'
    <3>1. (Limited /\ DialogTyped)' => (Len(D!Servers) = Firsts + Rest /\ Firsts \in Nat /\ Rest \in Nat)'
      BY ServersAre, PTL
    <3> QED BY <3>1 DEF Limited
  <2>7. PICK i \in Nat, j \in Nat, k \in Nat : i = Firsts /\ j = Firsts' /\ k = Rest
    BY <2>5, <2>6
  <2>8. Len(D!Servers) = i + k /\ Len(D!Servers)' = j + k /\ j >= i - 1
    BY <2>4, <2>5, <2>6, <2>7, RestSame
  <2>9. Len(D!Servers)' >= Len(D!Servers) - 1
    BY <2>8
  <2> QED BY <1>3, <2>9, TextSame DEF D!Shown
<1>4. CASE D!Mode = "buttons"
  <2>1. PICK s, t : s = D!Filtered(recentButtons, D!There) /\ t = D!Filtered(b, D!There)
    OBVIOUS
  <2>2. /\ Distinct(s) /\ Values(s) = Values(recentButtons) \cap D!There
        /\ Distinct(t) /\ Values(t) = Values(b) \cap D!There
    BY <1>1, <2>1, FilteredValues, DistinctSeq
  <2>3. Values(s) \ {x} \in SUBSET Values(t)
    BY <2>2
  <2>4. PICK m \in Nat, n \in Nat : m = Len(D!Matched(s)) /\ n = Len(D!Matched(t)) /\ n >= m - 1
    BY <1>2, <2>2, <2>3
  <2>5. UsedButtons = D!Matched(s)
    BY <2>1 DEF UsedButtons
  <2>6. UsedButtons' = D!Matched(t)
    BY <2>1, TextSame, Zenon DEF UsedButtons, D!Matched
  <2>7. Len(D!Buttons) = m + RestButtons /\ RestButtons \in Nat
    BY <2>4, <2>5, ButtonsAre
  <2>8. (Len(D!Buttons) = Len(UsedButtons) + RestButtons)'
    <3>1. DialogTyped' => (Len(D!Buttons) = Len(UsedButtons) + RestButtons)'
      BY ButtonsAre, PTL
    <3> QED BY <3>1
  <2>9. PICK k \in Nat : k = RestButtons
    BY <2>7
  <2>10. Len(D!Buttons) = m + k /\ Len(D!Buttons)' = n + k
    BY <2>4, <2>6, <2>7, <2>8, <2>9, RestSame
  <2>11. Len(D!Buttons)' >= Len(D!Buttons) - 1
    BY <2>4, <2>10
  <2> QED BY <1>4, <2>11, TextSame DEF D!Shown
<1>5. CASE D!Mode \notin {"servers", "buttons"}
  <2>1. D!Shown' = D!Shown
    BY <1>5, OtherShown
  <2>2. Len(D!Shown) \in Nat
    BY ShownAre DEF IsSeq
  <2> QED BY <2>1, <2>2
<1> QED BY <1>3, <1>4, <1>5

-----------------------------------------------------------------------------
(* The steps of the dialog.                                                *)

LEMMA NonEmpty == \A s : IsSeq(s) /\ s # <<>> => Len(s) \in Nat /\ Len(s) >= 1
BY DEF IsSeq

\* The first item, where there is one.
LEMMA AtFirst ==
    ASSUME Limited, DialogTyped', index' = 0
    PROVE  D!SelectionInRange'
<1>1. IsSeq(D!Shown)'
  <2>1. (Limited /\ DialogTyped)' => IsSeq(D!Shown)'
    BY ShownAre, PTL
  <2> QED BY <2>1 DEF Limited
<1>2. PICK s : s = D!Shown'
  OBVIOUS
<1>3. s # <<>> => Len(s) \in Nat /\ Len(s) >= 1
  BY <1>1, <1>2, NonEmpty
<1>4. s # <<>> => 0 \in 0 .. Len(s) - 1
  BY <1>3
<1> QED BY <1>2, <1>4 DEF D!SelectionInRange, D!Selected

\* An item that is shown.
LEMMA ItemShown ==
    ASSUME Limited, DialogTyped, NEW item,
           item \in D!ToSet(D!Shown) \/ (D!Selected /\ item = D!SelectedItem)
    PROVE  /\ item.type \in {"recent", "direct"} => item.value \in {"r1", "r2", "w"}
           /\ item.type = "help" => item.value \in ModeNames
<1>1. PICK s : s = D!Shown
  OBVIOUS
<1>2. IsSeq(s) /\ Saves(s)
  BY <1>1, ShownAre
<1>3. PICK k \in 1 .. Len(s) : item = s[k]
  <2>1. CASE item \in D!ToSet(D!Shown)
    BY <1>1, <1>2, <2>1 DEF D!ToSet, IsSeq
  <2>2. CASE D!Selected /\ item = D!SelectedItem
    <3>1. PICK n \in Nat : n = Len(s)
      BY <1>2 DEF IsSeq
    <3>2. index \in 0 .. n - 1 /\ item = s[index + 1]
      BY <1>1, <2>2, <3>1 DEF D!Selected, D!SelectedItem
    <3>3. index + 1 \in 1 .. n
      BY <3>2
    <3> QED BY <3>1, <3>2, <3>3
  <2> QED BY <2>1, <2>2
<1> QED BY <1>2, <1>3 DEF Saves

LEMMA ShowsDialog ==
    ASSUME Limited, DialogInv, NEW f \in Seq(D!Tokens), D!Show(f)
    PROVE  DialogInv'
<1>1. DialogTyped'
  <2>1. index' \in Int /\ index' >= -1
    BY DEF D!Show
  <2> QED BY <2>1, Zenon DEF DialogInv, DialogTyped, D!Show, D!lists
<1> QED BY <1>1, AtFirst DEF DialogInv, D!Show

LEMMA TurnsDialog ==
    ASSUME Limited, DialogInv, NEW f \in Seq(D!Tokens), D!Turn(f)
    PROVE  DialogInv'
<1>1. DialogTyped'
  <2>1. moved' \in BOOLEAN
    BY DEF D!Turn, DialogInv, DialogTyped
  <2> QED BY <2>1, Zenon DEF DialogInv, DialogTyped, D!Turn, D!lists
<1>2. CASE f = filter
  <2>1. D!Shown' = D!Shown
    BY <1>2, ShownSame DEF D!Turn
  <2>2. open' = open /\ index' = index /\ moved' = moved
    BY <1>2 DEF D!Turn, DialogInv, DialogTyped
  <2> QED BY <1>1, <2>1, <2>2, Zenon DEF DialogInv, D!SelectionInRange, D!Selected
<1>3. CASE f # filter
  BY <1>1, <1>3 DEF D!Turn, DialogInv, D!SelectionInRange
<1> QED BY <1>2, <1>3

LEMMA ModeOfDialog == D!Mode \in ModeNames
BY ModeKinds DEF ModeNames

LEMMA NeighbourMode ==
    ASSUME NEW m \in ModeNames, NEW back \in BOOLEAN
    PROVE  D!Neighbour(m, back) \in ModeNames
<1>1. PICK s : s = D!Modes
  OBVIOUS
<1>2. Len(s) = 6 /\ DOMAIN s = 1 .. 6 /\ \A k \in 1 .. 6 : s[k] \in ModeNames
  <2>1. Len(s) = 6 /\ DOMAIN s = 1 .. 6
    BY <1>1 DEF D!Modes
  <2> QED BY <1>1, <2>1, ModesAre DEF D!ToSet
<1>3. PICK i : i = D!SelectInSeq(s, LAMBDA n : n = m)
  OBVIOUS
<1>4. i \in Nat
  <2> DEFINE I == {k \in 1 .. 6 : s[k] = m}
  <2>1. i = IF I # {} THEN D!Min(I) ELSE 0
    BY <1>2, <1>3 DEF D!SelectInSeq
  <2>2. I # {} => D!Min(I) \in I
    <3>1. I \in SUBSET Nat
      OBVIOUS
    <3> HIDE DEF I
    <3> QED BY <3>1, LeastIn DEF D!Min
  <2>3. \A k \in I : k \in Nat
    OBVIOUS
  <2> HIDE DEF I
  <2> QED BY <2>1, <2>2, <2>3
<1>5. PICK n \in Int : n = i - 1 + (IF back THEN 5 ELSE 1)
  BY <1>4
<1>6. (n % 6) + 1 \in 1 .. 6
  OBVIOUS
<1>7. D!Neighbour(m, back) = s[(n % 6) + 1]
  BY <1>1, <1>3, <1>5, Zenon DEF D!Neighbour
<1> QED BY <1>2, <1>6, <1>7

LEMMA Types ==
    ASSUME Limited, DialogInv, D!Type
    PROVE  DialogInv'
<1>1. D!Typed \in SUBSET Seq(D!Tokens)
  <2>1. {">", "@", "#", " ", "w"} \in SUBSET D!Tokens
    BY DEF D!Tokens, D!Marks
  <2>2. \A a, b, c, d \in D!Tokens : <<a>> \in Seq(D!Tokens) /\ <<a, b>> \in Seq(D!Tokens)
                                     /\ <<a, b, c, d>> \in Seq(D!Tokens) /\ <<>> \in Seq(D!Tokens)
    OBVIOUS
  <2>3. /\ <<>> \in Seq(D!Tokens) /\ <<"w">> \in Seq(D!Tokens) /\ <<"#", "w">> \in Seq(D!Tokens)
        /\ <<"#", "w", " ", "w">> \in Seq(D!Tokens) /\ <<">", ">">> \in Seq(D!Tokens)
        /\ <<"@", "w">> \in Seq(D!Tokens)
    BY <2>1, <2>2
  <2> QED BY <2>3 DEF D!Typed
<1>2. filter' \in Seq(D!Tokens) /\ index' \in Int /\ index' >= -1
  BY <1>1 DEF D!Type
<1>3. DialogTyped'
  BY <1>2, Zenon DEF DialogInv, DialogTyped, D!Type, D!lists
<1> QED BY <1>3, AtFirst DEF DialogInv, D!Type

LEMMA ArrowsMove ==
    ASSUME Limited, DialogInv, D!ArrowDown \/ D!ArrowUp
    PROVE  DialogInv'
<1>1. PICK s : s = D!Shown
  OBVIOUS
<1>2. IsSeq(s)
  BY <1>1, ShownAre DEF DialogInv
<1>3. PICK n \in Nat : n = Len(s)
  BY <1>2 DEF IsSeq
<1>4. s # <<>> => n >= 1
  BY <1>2, <1>3, NonEmpty
<1>5. PICK i \in Int : i = index /\ i >= -1
  BY DEF DialogInv, DialogTyped
<1>6. /\ open' = open /\ filter' = filter /\ UNCHANGED D!lists /\ tidings' = tidings
  BY DEF D!ArrowDown, D!ArrowUp
<1>7. D!Shown' = s
  BY <1>1, <1>6, ShownSame
<1>8. /\ index' \in Int /\ index' >= -1 /\ moved' \in BOOLEAN
      /\ s # <<>> /\ open /\ ~ moved' => index' \in 0 .. n - 1
  <2>1. CASE D!ArrowDown
    <3>1. PICK step \in {1, n} : index' = IF i + step < n THEN i + step ELSE n - 1
      BY <1>1, <1>3, <1>5, <2>1 DEF D!ArrowDown
    <3>2. PICK k \in Nat : k = step /\ (n >= 1 => k >= 1)
      OBVIOUS
    <3>5. PICK j : j = index'
      OBVIOUS
    <3>3. moved' = FALSE
      BY <2>1 DEF D!ArrowDown
    <3>4. /\ index' \in Int /\ index' >= -1 /\ (n >= 1 => index' \in 0 .. n - 1)
      <4>1. j \in Int /\ j >= -1 /\ (n >= 1 => j \in 0 .. n - 1)
        <5>1. CASE i + k < n
          <6>1. j = i + k
            BY <3>1, <3>2, <3>5, <5>1
          <6> QED BY <1>5, <3>2, <5>1, <6>1
        <5>2. CASE ~ (i + k < n)
          <6>1. j = n - 1
            BY <3>1, <3>2, <3>5, <5>2
          <6> QED BY <6>1
        <5> QED BY <5>1, <5>2
      <4> QED BY <3>5, <4>1
    <3> QED BY <1>4, <3>3, <3>4
  <2>2. CASE D!ArrowUp
    <3>1. PICK step \in {1, n} : index' = IF i > step THEN i - step ELSE 0
      BY <1>1, <1>3, <1>5, <2>2 DEF D!ArrowUp
    <3>2. step \in Nat
      OBVIOUS
    <3>3. moved' = moved
      BY <2>2 DEF D!ArrowUp
    <3>4. s # <<>> /\ open /\ ~ moved => i \in 0 .. n - 1
      BY <1>1, <1>3, <1>5 DEF DialogInv, D!SelectionInRange, D!Selected
    <3>5. /\ index' \in Int /\ index' >= -1 /\ (i \in 0 .. n - 1 => index' \in 0 .. n - 1)
      BY <3>1, <3>2
    <3> QED BY <3>3, <3>4, <3>5 DEF DialogInv, DialogTyped
  <2> QED BY <2>1, <2>2
<1>9. DialogTyped'
  BY <1>6, <1>8, Zenon DEF DialogInv, DialogTyped, D!lists
<1>10. D!SelectionInRange'
  BY <1>3, <1>6, <1>7, <1>8 DEF D!SelectionInRange, D!Selected
<1> QED BY <1>9, <1>10 DEF DialogInv

LEMMA DeletesItem ==
    ASSUME Limited, DialogInv, NEW item, D!DeleteItem(item), D!Shown # <<>>
    PROVE  DialogInv'
<1>1. PICK x : x = item.value
  OBVIOUS
<1>2. /\ Distinct(recents) /\ IsSeq(recents) /\ Distinct(recentButtons) /\ IsSeq(recentButtons)
      /\ Values(recents) \in SUBSET {"r1", "r2"}
  BY DistinctSeq DEF DialogInv, DialogTyped
<1>3. ASSUME NEW s, Distinct(s)
      PROVE  LET t == D!Filtered(s, D!ToSet(s) \ {x})
             IN Distinct(t) /\ Values(t) = Values(s) \ {x}
  <2>1. IsSeq(s)
    BY <1>3, DistinctSeq
  <2>2. D!ToSet(s) = Values(s)
    BY <2>1, SetOf
  <2>3. Values(s) \cap (D!ToSet(s) \ {x}) = Values(s) \ {x}
    BY <2>2
  <2> QED BY <1>3, <2>1, <2>3, FilteredValues
<1>4. /\ Distinct(recents') /\ Distinct(recentButtons')
      /\ Values(recents') \in SUBSET Values(recents)
      /\ Values(recents) \ {x} \in SUBSET Values(recents')
      /\ Values(recentButtons) \ {x} \in SUBSET Values(recentButtons')
  <2>1. CASE item.type = "recent"
    <3>1. recents' = D!Filtered(recents, D!ToSet(recents) \ {x}) /\ recentButtons' = recentButtons
      BY <1>1, <2>1 DEF D!DeleteItem
    <3>2. Distinct(recents') /\ Values(recents') = Values(recents) \ {x}
      BY <1>2, <1>3, <3>1
    <3> QED BY <1>2, <3>1, <3>2
  <2>2. CASE item.type # "recent"
    <3>1. /\ recentButtons' = D!Filtered(recentButtons, D!ToSet(recentButtons) \ {x})
          /\ recents' = recents
      BY <1>1, <2>2 DEF D!DeleteItem
    <3>2. Distinct(recentButtons') /\ Values(recentButtons') = Values(recentButtons) \ {x}
      BY <1>2, <1>3, <3>1
    <3> QED BY <1>2, <3>1, <3>2
  <2> QED BY <2>1, <2>2
<1>5. /\ open' = open /\ filter' = filter /\ names' = names /\ pinned' = pinned
      /\ tidings' = tidings /\ moved' = moved
  BY DEF D!DeleteItem
<1>6. PICK i \in Int, j \in Int : /\ i = index /\ i >= -1 /\ j = index' /\ j >= -1
                                  /\ j = IF i > 0 THEN i - 1 ELSE 0
  BY DEF D!DeleteItem, DialogInv, DialogTyped
<1>7. DialogTyped'
  <2>1. Values(recents') \in SUBSET {"r1", "r2"}
    BY <1>2, <1>4
  <2> QED BY <1>4, <1>5, <1>6, <2>1, Zenon DEF DialogInv, DialogTyped
<1>8. PICK s, t : s = D!Shown /\ t = D!Shown'
  OBVIOUS
<1>9. IsSeq(s) /\ IsSeq(t)
  <2>1. (Limited /\ DialogTyped)' => IsSeq(D!Shown)'
    BY ShownAre, PTL
  <2> QED BY <1>7, <1>8, <2>1, ShownAre DEF DialogInv, Limited
<1>10. PICK m \in Nat, n \in Nat : m = Len(s) /\ n = Len(t)
  BY <1>9 DEF IsSeq
<1>11. n >= m - 1
  <2>1. Len(D!Shown)' >= Len(D!Shown) - 1
    BY <1>4, <1>5, <1>7, OneItemLess DEF DialogInv
  <2> QED BY <1>8, <1>10, <2>1
<1>12. ASSUME open, ~ moved, t # <<>>
       PROVE  j \in 0 .. n - 1
  <2>1. n >= 1
    BY <1>9, <1>10, <1>12, NonEmpty
  <2>2. CASE j = 0
    BY <2>1, <2>2
  <2>3. CASE j # 0
    <3>1. i > 0 /\ j = i - 1
      BY <1>6, <2>3
    <3>2. s # <<>> => i \in 0 .. m - 1
      BY <1>6, <1>8, <1>10, <1>12 DEF DialogInv, D!SelectionInRange, D!Selected
    <3>3. s # <<>>
      BY <1>8
    <3> QED BY <1>11, <3>1, <3>2, <3>3
  <2> QED BY <2>2, <2>3
<1>13. D!SelectionInRange'
  BY <1>5, <1>6, <1>8, <1>10, <1>12 DEF D!SelectionInRange, D!Selected
<1> QED BY <1>7, <1>13 DEF DialogInv

\* The list of the recent buttons has each of them once.
LEMMA UsedOnce ==
    ASSUME Limited, Distinct(recentButtons), NEW id
    PROVE  Distinct(D!Used(id))
<1>1. PICK t : t = D!Filtered(recentButtons, D!ToSet(recentButtons) \ {id})
  OBVIOUS
<1>2. IsSeq(recentButtons)
  BY DistinctSeq
<1>3. Distinct(t) /\ IsSeq(t) /\ id \notin Values(t)
  BY <1>1, <1>2, FilteredValues, DistinctSeq
<1>4. PICK h, u : h = <<id>> /\ u = h \o t
  OBVIOUS
<1>5. IsSeq(h) /\ Len(h) = 1 /\ h[1] = id
  BY <1>4, Literals, DistinctSeq
<1>6. PICK n \in Nat : n = Len(t)
  BY <1>3 DEF IsSeq
<1>7. /\ IsSeq(u) /\ Len(u) = 1 + n /\ u[1] = id
      /\ \A k \in 1 .. n : u[1 + k] = t[k]
  <2>1. /\ IsSeq(u) /\ Len(u) = Len(h) + Len(t)
        /\ \A k \in 1 .. Len(h) : u[k] = h[k]
        /\ \A k \in 1 .. Len(t) : u[Len(h) + k] = t[k]
    BY <1>3, <1>4, <1>5, Joined
  <2> QED BY <1>5, <1>6, <2>1
<1>8. \A k \in 1 .. 1 + n : k = 1 \/ \E l \in 1 .. n : k = 1 + l
  <2> TAKE k \in 1 .. 1 + n
  <2>1. k # 1 => k - 1 \in 1 .. n /\ k = 1 + (k - 1)
    OBVIOUS
  <2> QED BY <2>1
<1>9. \A l \in 1 .. n : t[l] # id
  BY <1>3, <1>6 DEF Values
<1>10. \A k, l \in 1 .. n : t[k] = t[l] => k = l
  BY <1>3, <1>6 DEF Distinct
<1>11. ASSUME NEW a \in 1 .. 1 + n, NEW b \in 1 .. 1 + n, u[a] = u[b]
       PROVE  a = b
  <2>1. CASE a = 1 /\ b = 1
    BY <2>1
  <2>2. ASSUME a = 1, NEW l \in 1 .. n, b = 1 + l PROVE FALSE
    BY <1>7, <1>9, <1>11, <2>2
  <2>3. ASSUME b = 1, NEW l \in 1 .. n, a = 1 + l PROVE FALSE
    BY <1>7, <1>9, <1>11, <2>3
  <2>4. ASSUME NEW k \in 1 .. n, NEW l \in 1 .. n, a = 1 + k, b = 1 + l PROVE a = b
    <3>1. u[a] = t[k] /\ u[b] = t[l]
      BY <1>7, <2>4
    <3>2. k = l
      BY <1>10, <1>11, <3>1
    <3> QED BY <2>4, <3>2
  <2> QED BY <1>8, <2>1, <2>2, <2>3, <2>4
<1>12. Distinct(u)
  BY <1>7, <1>11 DEF Distinct, IsSeq
<1>13. CASE 1 + n > MaxRecent
  <2>1. PICK m \in Nat : m = MaxRecent /\ m <= 1 + n
    BY <1>13 DEF Limited
  <2>2. PICK s : s = SubSeq(u, 1, m)
    OBVIOUS
  <2>3. s = [k \in 1 .. m |-> u[k]]
    BY <2>1, <2>2
  <2>4. IsSeq(s) /\ Len(s) = m
    <3>1. DOMAIN s = 1 .. m /\ s = [k \in 1 .. m |-> s[k]]
      BY <2>3
    <3> QED BY <3>1, Listed
  <2>5. \A a, b \in 1 .. m : s[a] = s[b] => a = b
    <3> SUFFICES ASSUME NEW a \in 1 .. m, NEW b \in 1 .. m, s[a] = s[b] PROVE a = b
      OBVIOUS
    <3>1. u[a] = u[b] /\ a \in 1 .. 1 + n /\ b \in 1 .. 1 + n
      BY <2>1, <2>3
    <3> QED BY <1>11, <3>1
  <2>6. D!Used(id) = s
    BY <1>1, <1>4, <1>7, <1>13, <2>1, <2>2, Zenon DEF D!Used
  <2> QED BY <2>4, <2>5, <2>6 DEF Distinct, IsSeq
<1>14. CASE ~ (1 + n > MaxRecent)
  <2>1. D!Used(id) = u
    BY <1>1, <1>4, <1>7, <1>14, Zenon DEF D!Used
  <2> QED BY <1>12, <2>1
<1> QED BY <1>13, <1>14

LEMMA Fills ==
    ASSUME Limited, DialogInv, NEW f \in Seq(D!Tokens), NEW i \in {index, 0}, D!Fill(f, i)
    PROVE  DialogInv'
<1>1. /\ filter' = f /\ index' = i /\ moved' = (i # 0) /\ open' = open /\ UNCHANGED D!lists
      /\ tidings' = tidings
  BY DEF D!Fill
<1>2. i \in Int /\ i >= -1
  BY DEF DialogInv, DialogTyped
<1>3. DialogTyped'
  BY <1>1, <1>2, Zenon DEF DialogInv, DialogTyped, D!lists
<1>4. CASE i = 0
  BY <1>1, <1>3, <1>4, AtFirst DEF DialogInv
<1>5. CASE i # 0
  BY <1>1, <1>3, <1>5 DEF DialogInv, D!SelectionInRange
<1> QED BY <1>4, <1>5

LEMMA ShortSeqs ==
    ASSUME NEW a \in D!Tokens, NEW b \in D!Tokens, NEW c \in D!Tokens
    PROVE  <<a>> \in Seq(D!Tokens) /\ <<a, b, c>> \in Seq(D!Tokens)
OBVIOUS

LEMMA UsesItem ==
    ASSUME Limited, DialogInv, NEW item, D!Use(item),
           item.type \in {"recent", "direct"} => item.value \in {"r1", "r2", "w"},
           item.type = "help" => item.value \in ModeNames
    PROVE  DialogInv'
<1>1. "#" \in D!Tokens /\ "w" \in D!Tokens /\ " " \in D!Tokens
  BY DEF D!Tokens, D!Marks
<1>2. CASE item.type \in D!OpensHost /\ D!Fill(<<"w">>, index)
  <2>1. <<"w">> \in Seq(D!Tokens)
    BY <1>1, ShortSeqs
  <2> QED BY <1>2, <2>1, Fills
<1>3. CASE item.type = "tag" /\ D!Fill(<<"#", "w", " ">>, 0)
  <2>1. <<"#", "w", " ">> \in Seq(D!Tokens)
    BY <1>1, ShortSeqs
  <2> QED BY <1>3, <2>1, Fills
<1>4. CASE /\ item.type = "help"
           /\ D!Fill(D!Prefix[CHOOSE m \in D!ToSet(D!Modes) : m = item.value], 0)
  <2>1. PICK m \in ModeNames : m = CHOOSE k \in D!ToSet(D!Modes) : k = item.value
    BY <1>4, ModesAre
  <2>2. filter \in Seq(D!Tokens)
    BY DEF DialogInv, DialogTyped
  <2>3. D!Prefix[m] \in Seq(D!Tokens)
    BY <2>2, ChangedTo
  <2> QED BY <1>4, <2>1, <2>3, Fills
<1>5. CASE /\ item.type \notin {"tag", "help"}
           /\ D!Close
           /\ \/ /\ item.type \in D!ButtonTypes \cup D!ShortcutTypes
                 /\ recentButtons' = D!Used(item.value)
              \/ item.type \notin D!ShortcutTypes /\ UNCHANGED recentButtons
           /\ \/ item.type \in {"recent", "direct"} /\ names' = names \cup {item.value}
              \/ UNCHANGED names
           /\ UNCHANGED <<filter, recents, pinned, tidings>>
  <2>1. Distinct(recentButtons')
    BY <1>5, UsedOnce DEF DialogInv, DialogTyped
  <2>2. names' \in SUBSET {"h1", "h3", "r1", "r2", "w"}
    BY <1>5 DEF DialogInv, DialogTyped
  <2>3. /\ open' = FALSE /\ index' \in Int /\ index' >= -1 /\ moved' = FALSE
        /\ filter' = filter /\ recents' = recents /\ pinned' = pinned
    BY <1>5 DEF D!Close
  <2>4. DialogTyped'
    BY <2>1, <2>2, <2>3, Zenon DEF DialogInv, DialogTyped
  <2> QED BY <2>3, <2>4 DEF DialogInv, D!SelectionInRange
<1> QED BY <1>2, <1>3, <1>4, <1>5, Zenon DEF D!Use

LEMMA TurnsTyped ==
    ASSUME DialogInv
    PROVE  /\ filter \in Seq(D!Tokens) /\ <<>> \in Seq(D!Tokens)
           /\ D!Prefix[D!Mode] \in Seq(D!Tokens)
           /\ \A m \in D!ToSet(D!Modes), reset \in BOOLEAN :
                 D!Changed(filter, m, reset) \in Seq(D!Tokens)
           /\ \A back \in BOOLEAN :
                 D!Changed(filter, D!Neighbour(D!Mode, back), FALSE) \in Seq(D!Tokens)
<1>1. filter \in Seq(D!Tokens) /\ <<>> \in Seq(D!Tokens)
  BY DEF DialogInv, DialogTyped
<1>2. PICK mode \in ModeNames : mode = D!Mode
  BY ModeOfDialog
<1>3. D!Prefix[D!Mode] \in Seq(D!Tokens)
  BY <1>1, <1>2, ChangedTo
<1>4. ASSUME NEW m \in D!ToSet(D!Modes), NEW reset \in BOOLEAN
      PROVE  D!Changed(filter, m, reset) \in Seq(D!Tokens)
  BY <1>1, ModesAre, ChangedTo
<1>5. ASSUME NEW back \in BOOLEAN
      PROVE  D!Changed(filter, D!Neighbour(D!Mode, back), FALSE) \in Seq(D!Tokens)
  <2>1. PICK m \in ModeNames : m = D!Neighbour(mode, back)
    BY NeighbourMode
  <2> QED BY <1>1, <1>2, <2>1, ChangedTo
<1> QED BY <1>1, <1>3, <1>4, <1>5

LEMMA HearsNews ==
    ASSUME DialogInv, D!News
    PROVE  DialogInv'
<1>1. DialogTyped'
  <2>1. names' \in SUBSET {"h1", "h3", "r1", "r2", "w"} /\ pinned' \in {<<>>, <<"s1">>}
    BY DEF D!News, DialogInv, DialogTyped
  <2> QED BY <2>1, Zenon DEF D!News, DialogInv, DialogTyped
<1> QED BY <1>1 DEF D!News, DialogInv, D!SelectionInRange

LEMMA DialogNext == Limited /\ DialogInv /\ [D!Next]_(D!vars) => DialogInv'
<1> SUFFICES ASSUME Limited, DialogInv, [D!Next]_(D!vars)
             PROVE  DialogInv'
  OBVIOUS
<1>1. CASE D!OpenDialog
  BY <1>1, ShowsDialog, TurnsTyped DEF D!OpenDialog
<1>2. CASE D!CloseDialog
  <2>1. /\ open' = FALSE /\ index' \in Int /\ index' >= -1 /\ moved' = FALSE
        /\ filter' = filter /\ UNCHANGED D!lists
    BY <1>2 DEF D!CloseDialog, D!Close
  <2>2. DialogTyped'
    BY <2>1, Zenon DEF DialogInv, DialogTyped, D!lists
  <2> QED BY <2>1, <2>2 DEF DialogInv, D!SelectionInRange
<1>3. CASE D!Shortcut
  <2>1. PICK m \in D!ToSet(D!Modes) :
          \/ \E shift \in BOOLEAN : D!Show(D!Changed(filter, m, ~ shift))
          \/ D!Turn(D!Changed(filter, m, FALSE))
    BY <1>3 DEF D!Shortcut
  <2>2. CASE \E shift \in BOOLEAN : D!Show(D!Changed(filter, m, ~ shift))
    <3>1. PICK shift \in BOOLEAN : D!Show(D!Changed(filter, m, ~ shift))
      BY <2>2
    <3>2. D!Changed(filter, m, ~ shift) \in Seq(D!Tokens)
      BY TurnsTyped
    <3> QED BY <3>1, <3>2, ShowsDialog
  <2>3. CASE D!Turn(D!Changed(filter, m, FALSE))
    <3>1. D!Changed(filter, m, FALSE) \in Seq(D!Tokens)
      BY TurnsTyped
    <3> QED BY <2>3, <3>1, TurnsDialog
  <2> QED BY <2>1, <2>2, <2>3
<1>4. CASE D!ClearText
  BY <1>4, TurnsDialog, TurnsTyped DEF D!ClearText
<1>5. CASE D!TurnPage
  <2>1. PICK back \in BOOLEAN : D!Turn(D!Changed(filter, D!Neighbour(D!Mode, back), FALSE))
    BY <1>5 DEF D!TurnPage
  <2>2. D!Changed(filter, D!Neighbour(D!Mode, back), FALSE) \in Seq(D!Tokens)
    BY TurnsTyped
  <2> QED BY <2>1, <2>2, TurnsDialog
<1>6. CASE D!Type
  BY <1>6, Types
<1>7. CASE D!ArrowDown \/ D!ArrowUp
  BY <1>7, ArrowsMove
<1>8. CASE D!DeleteSelected \/ D!DeleteRow
  <2>1. IsSeq(D!Shown)
    BY ShownAre DEF DialogInv
  <2>2. D!Shown # <<>>
    <3>0. PICK s : s = D!Shown
      OBVIOUS
    <3>1. PICK n \in Nat : n = Len(s) /\ DOMAIN s = 1 .. n
      BY <2>1, <3>0 DEF IsSeq
    <3>2. CASE D!DeleteSelected
      <4>1. index \in 0 .. n - 1
        BY <3>0, <3>1, <3>2 DEF D!DeleteSelected, D!Selected
      <4> QED BY <3>0, <3>1, <4>1
    <3>3. CASE D!DeleteRow
      <4>1. D!ToSet(s) # {}
        BY <3>0, <3>1, <3>3 DEF D!DeleteRow
      <4> QED BY <3>0, <3>1, <4>1 DEF D!ToSet
    <3> QED BY <1>8, <3>2, <3>3
  <2> QED BY <1>8, <2>2, DeletesItem DEF D!DeleteSelected, D!DeleteRow
<1>9. CASE D!Enter
  BY <1>9, ItemShown, UsesItem DEF D!Enter, DialogInv
<1>10. CASE D!Click
  <2>1. PICK item \in D!ToSet(D!Shown) : D!Use(item)
    BY <1>10 DEF D!Click
  <2> QED BY <2>1, ItemShown, UsesItem DEF DialogInv
<1>11. CASE D!News
  BY <1>11, HearsNews
<1>12. CASE UNCHANGED D!vars
  <2>1. D!Shown' = D!Shown
    BY <1>12, ShownSame DEF D!vars, D!lists
  <2> QED BY <1>12, <2>1, Zenon DEF D!vars, D!lists, DialogInv, DialogTyped, D!SelectionInRange, D!Selected
<1> QED BY <1>1, <1>2, <1>3, <1>4, <1>5, <1>6, <1>7, <1>8, <1>9, <1>10, <1>11, <1>12 DEF D!Next

\* The dialog of a new tab: Enter finds an item wherever there is one, but after the
\* list has changed under the index; a turn leads to the mode it names with the text of
\* the search; each host and button that matches is shown once (NewTabDialog.tsx).
THEOREM DialogHolds == Limited /\ D!Spec => []D!DialogSafe
<1> SUFFICES ASSUME Limited PROVE D!Spec => []D!DialogSafe
  OBVIOUS
<1>1. D!Init => DialogInv
  BY DialogStart
<1>2. DialogInv /\ [D!Next]_(D!vars) => DialogInv'
  BY DialogNext
<1>3. DialogInv => D!DialogSafe
  BY TurnsWhere, ShowsOnce DEF DialogInv, DialogTyped, D!DialogSafe
<1> QED BY <1>1, <1>2, <1>3, PTL DEF D!Spec

-----------------------------------------------------------------------------
(* The import of hosts and host keys.                                      *)

CONSTANT MaxSteps

VARIABLES cache, listed, config, keys, page, entries, kinds, selected, acked, imports, leaving,
          steps, stale, lost, missing

I == INSTANCE SSHImport WITH hosts <- config, view <- page

LEMMA MostIn ==
    ASSUME NEW n \in Nat, NEW T \in SUBSET (1 .. n), T # {}
    PROVE  I!Max(T) \in T /\ \A j \in T : I!Max(T) >= j
<1> DEFINE Downs == {n - j : j \in T}
<1>1. Downs \in SUBSET Nat /\ Downs # {}
  <2>1. \A j \in T : n - j \in Nat
    OBVIOUS
  <2> QED BY <2>1
<1>2. PICK d \in Downs : \A e \in Downs : d <= e
  <2> HIDE DEF Downs
  <2> QED BY <1>1, LeastIn
<1>3. PICK i \in T : d = n - i
  OBVIOUS
<1>4. \A j \in T : i >= j
  <2> TAKE j \in T
  <2>1. n - j \in Downs
    OBVIOUS
  <2>2. d <= n - j
    <3> HIDE DEF Downs
    <3> QED BY <1>2, <2>1
  <2>3. i \in Int /\ j \in Int
    OBVIOUS
  <2> HIDE DEF Downs
  <2> QED BY <1>3, <2>2, <2>3
<1> QED BY <1>4 DEF I!Max

\* A line that an entry is compared with is a line of the file.
LEMMA AgainstLine ==
    ASSUME NEW ls, IsSeq(ls)
    PROVE  \A l : I!Against(ls, l) \in 0 .. Len(ls)
<1> PICK n \in Nat : n = Len(ls)
  BY DEF IsSeq
<1>1. ASSUME NEW pat PROVE I!LineOf(ls, pat) \in 0 .. n
  <2> DEFINE T == {i \in 1 .. Len(ls) : pat \in I!ToSet(ls[i].pats)}
  <2>1. I!LineOf(ls, pat) = IF T # {} THEN I!Max(T) ELSE 0
    BY DEF I!LineOf, I!SelectLastInSeq
  <2>2. T \in SUBSET (1 .. n)
    OBVIOUS
  <2> HIDE DEF T
  <2>3. T # {} => I!Max(T) \in 1 .. n
    BY <2>2, MostIn
  <2> QED BY <2>1, <2>3
<1>2. ASSUME NEW l PROVE I!Against(ls, l) \in 0 .. n
  <2> DEFINE known == I!SelectInSeq(l.pats, LAMBDA pat : I!LineOf(ls, pat) # 0)
  <2>1. I!Against(ls, l) = IF known = 0 THEN 0 ELSE I!LineOf(ls, l.pats[known])
    BY DEF I!Against
  <2> HIDE DEF known
  <2> QED BY <1>1, <2>1
<1> QED BY <1>2

-----------------------------------------------------------------------------
(* What an import of keys does to the file.                                *)

\* One line after the other, from the file as it is.
Runs(f, n, s, force) ==
    f = [k \in 0 .. n |-> IF k = 0 THEN keys ELSE I!ImportLine(f[k - 1], s[k], force)]

LEMMA RunsOn ==
    ASSUME NEW n \in Nat, NEW s, NEW force
    PROVE  \E f : Runs(f, n, s, force)
<1> DEFINE T == {k \in Nat : ~ \E f : Runs(f, k, s, force)}
<1> SUFFICES ASSUME T # {} PROVE FALSE
  OBVIOUS
<1>1. PICK m \in T : \A k \in T : m <= k
  BY LeastIn
<1>2. m # 0
  <2>1. Runs([k \in 0 .. 0 |-> keys], 0, s, force)
    BY DEF Runs
  <2> QED BY <2>1
<1>3. m \in Nat /\ m - 1 \in Nat /\ m - 1 \notin T
  <2>1. m \in Nat
    OBVIOUS
  <2>2. m - 1 \in Nat /\ ~ (m <= m - 1)
    BY <1>2, <2>1
  <2> QED BY <1>1, <2>1, <2>2
<1>4. PICK f : Runs(f, m - 1, s, force)
  BY <1>3
<1> DEFINE g == [k \in 0 .. m |-> IF k = m THEN I!ImportLine(f[m - 1], s[m], force) ELSE f[k]]
<1>5. ASSUME NEW k \in 0 .. m
      PROVE  g[k] = IF k = 0 THEN keys ELSE I!ImportLine(g[k - 1], s[k], force)
  <2>1. CASE k = m
    <3>1. m \in 0 .. m /\ m - 1 \in 0 .. m /\ m - 1 # m
      BY <1>3
    <3>2. g[m] = I!ImportLine(f[m - 1], s[m], force) /\ g[m - 1] = f[m - 1]
      BY <3>1
    <3> HIDE DEF g
    <3> QED BY <1>2, <2>1, <3>2
  <2>2. CASE k # m
    <3>1. k \in 0 .. m - 1 /\ (k # 0 => k - 1 \in 0 .. m /\ k - 1 # m)
      BY <1>3, <2>2
    <3>2. f[k] = IF k = 0 THEN keys ELSE I!ImportLine(f[k - 1], s[k], force)
      BY <1>4, <3>1 DEF Runs
    <3>3. g[k] = f[k] /\ (k # 0 => g[k - 1] = f[k - 1])
      BY <2>2, <3>1
    <3> HIDE DEF g
    <3> QED BY <3>2, <3>3
  <2> QED BY <2>1, <2>2
<1>6. g = [k \in 0 .. m |-> g[k]]
  OBVIOUS
<1> HIDE DEF g
<1>7. Runs(g, m, s, force)
  BY <1>5, <1>6, Zenon DEF Runs
<1> QED BY <1>7

\* After n lines: a line of the file is as it was, or a line that differs from it was
\* imported in its place, and lines that are not known have been added.
Grown(ls, n, s) ==
    /\ IsSeq(ls) /\ Len(ls) >= Len(keys)
    /\ \A i \in 1 .. Len(keys) :
          \/ ls[i] = keys[i]
          \/ \E k \in 1 .. n : I!Against(keys, s[k]) = i /\ keys[i].key # s[k].key
    /\ \A k \in 1 .. n :
          I!Against(keys, s[k]) = 0 => \E i \in Len(keys) + 1 .. Len(ls) : ls[i] = s[k]

LEMMA Appended ==
    ASSUME NEW ls, IsSeq(ls), NEW l
    PROVE  /\ IsSeq(Append(ls, l)) /\ Len(Append(ls, l)) = Len(ls) + 1
           /\ \A i \in 1 .. Len(ls) : Append(ls, l)[i] = ls[i]
           /\ Append(ls, l)[Len(ls) + 1] = l
<1> DEFINE X == Values(ls) \cup {l}
<1>1. PICK n \in Nat : n = Len(ls)
  BY DEF IsSeq
<1>2. ls \in Seq(X) /\ l \in X
  BY DEF IsSeq, Values
<1> HIDE DEF X
<1>3. PICK u : u = Append(ls, l)
  OBVIOUS
<1>4. /\ u \in Seq(X) /\ Len(u) = n + 1 /\ \A i \in 1 .. n : u[i] = ls[i]
      /\ u[n + 1] = l
  BY <1>1, <1>2, <1>3, AppendProperties
<1>5. IsSeq(u)
  <2>1. n + 1 \in Nat /\ u \in [1 .. Len(u) -> X]
    BY <1>4, LenProperties
  <2>2. DOMAIN u = 1 .. n + 1 /\ u = [k \in 1 .. n + 1 |-> u[k]]
    BY <1>4, <2>1
  <2> QED BY <2>1, <2>2, Listed
<1> QED BY <1>1, <1>3, <1>4, <1>5

LEMMA GrowsOn ==
    ASSUME IsSeq(keys), NEW n \in Nat, NEW s, NEW ls, Grown(ls, n, s), NEW force
    PROVE  Grown(I!ImportLine(ls, s[n + 1], force), n + 1, s)
<1> DEFINE l == s[n + 1]
           a == I!Against(keys, l)
           u == I!ImportLine(ls, l, force)
<1>1. PICK m \in Nat, c \in Nat : m = Len(keys) /\ c = Len(ls) /\ c >= m
  BY DEF Grown, IsSeq
<1>2. a \in 0 .. m
  BY <1>1, AgainstLine
<1>3. /\ IsSeq(ls)
      /\ \A i \in 1 .. m : \/ ls[i] = keys[i]
                           \/ \E k \in 1 .. n : I!Against(keys, s[k]) = i /\ keys[i].key # s[k].key
      /\ \A k \in 1 .. n :
            I!Against(keys, s[k]) = 0 => \E i \in m + 1 .. c : ls[i] = s[k]
  BY <1>1 DEF Grown
<1>4. u = IF a = 0 THEN Append(ls, l)
          ELSE IF ls[a].key # l.key /\ force THEN [ls EXCEPT ![a] = l] ELSE ls
  BY DEF I!ImportLine
<1> SUFFICES Grown(u, n + 1, s)
  OBVIOUS
<1> HIDE DEF u
<1>5. n + 1 \in 1 .. n + 1 /\ \A k \in 1 .. n + 1 : k \in 1 .. n \/ k = n + 1
  OBVIOUS
<1>6. 1 .. n \in SUBSET (1 .. n + 1)
  OBVIOUS
<1>7. CASE a = 0
  <2>1. /\ IsSeq(u) /\ Len(u) = c + 1 /\ u[c + 1] = l
        /\ \A i \in 1 .. c : u[i] = ls[i]
    BY <1>1, <1>3, <1>4, <1>7, Appended
  <2>2. ASSUME NEW i \in 1 .. m PROVE i \in 1 .. c
    BY <1>1
  <2>3. ASSUME NEW i \in 1 .. m
        PROVE  \/ u[i] = keys[i]
               \/ \E k \in 1 .. n + 1 : I!Against(keys, s[k]) = i /\ keys[i].key # s[k].key
    BY <1>3, <1>6, <2>1, <2>2
  <2>4. ASSUME NEW k \in 1 .. n + 1, I!Against(keys, s[k]) = 0
        PROVE  \E i \in m + 1 .. c + 1 : u[i] = s[k]
    <3>1. CASE k = n + 1
      <4>1. c + 1 \in m + 1 .. c + 1
        BY <1>1
      <4> QED BY <2>1, <3>1, <4>1
    <3>2. CASE k \in 1 .. n
      <4>1. PICK i \in m + 1 .. c : ls[i] = s[k]
        BY <1>3, <2>4, <3>2
      <4>2. i \in 1 .. c /\ i \in m + 1 .. c + 1
        BY <1>1
      <4> QED BY <2>1, <4>1, <4>2
    <3> QED BY <1>5, <3>1, <3>2
  <2>5. c + 1 >= m
    BY <1>1
  <2> HIDE DEF a, l
  <2> QED BY <1>1, <2>1, <2>3, <2>4, <2>5 DEF Grown
<1>8. CASE a # 0
  <2>1. a \in 1 .. m /\ a \in 1 .. c
    BY <1>1, <1>2, <1>8
  <2>2. /\ IsSeq(u) /\ Len(u) = c /\ \A i \in 1 .. c : i # a => u[i] = ls[i]
        /\ u[a] = ls[a] \/ (u[a] = l /\ ls[a].key # l.key)
    <3>1. CASE ls[a].key # l.key /\ force
      <4>1. u = [ls EXCEPT ![a] = l]
        BY <1>4, <1>8, <3>1
      <4>2. /\ DOMAIN u = 1 .. c /\ u = [k \in 1 .. c |-> u[k]] /\ u[a] = l
            /\ \A j \in 1 .. c : j # a => u[j] = ls[j]
        <5> HIDE DEF a, l
        <5>1. ls = [k \in 1 .. c |-> ls[k]] /\ DOMAIN ls = 1 .. c
          BY <1>1, <1>3 DEF IsSeq
        <5> QED BY <1>1, <2>1, <4>1, <5>1
      <4>3. IsSeq(u) /\ Len(u) = c
        BY <4>2, Listed
      <4> HIDE DEF a, l
      <4> QED BY <1>1, <3>1, <4>2, <4>3
    <3>2. CASE ~ (ls[a].key # l.key /\ force)
      <4>1. u = ls
        BY <1>4, <1>8, <3>2
      <4> QED BY <1>1, <1>3, <4>1
    <3> QED BY <3>1, <3>2
  <2>3. ASSUME NEW i \in 1 .. m
        PROVE  \/ u[i] = keys[i]
               \/ \E k \in 1 .. n + 1 : I!Against(keys, s[k]) = i /\ keys[i].key # s[k].key
    <3>1. i \in 1 .. c
      BY <1>1
    <3>2. CASE u[i] = ls[i]
      BY <1>3, <1>6, <3>2
    <3>3. CASE u[i] # ls[i]
      <4>1. i = a /\ ls[i].key # l.key
        BY <2>2, <3>1, <3>3
      <4>2. CASE ls[i] = keys[i]
        BY <1>5, <4>1, <4>2
      <4>3. CASE ls[i] # keys[i]
        BY <1>3, <1>6, <4>3
      <4> QED BY <4>2, <4>3
    <3> QED BY <3>2, <3>3
  <2>4. ASSUME NEW k \in 1 .. n + 1, I!Against(keys, s[k]) = 0
        PROVE  \E i \in m + 1 .. c : u[i] = s[k]
    <3>1. k \in 1 .. n
      BY <1>5, <1>8, <2>4
    <3>2. PICK i \in m + 1 .. c : ls[i] = s[k]
      BY <1>3, <2>4, <3>1
    <3>3. i \in 1 .. c /\ i # a
      BY <1>1, <2>1
    <3> QED BY <2>2, <3>2, <3>3
  <2> HIDE DEF a, l
  <2> QED BY <1>1, <2>2, <2>3, <2>4 DEF Grown
<1> QED BY <1>7, <1>8

LEMMA KeysGrow ==
    ASSUME IsSeq(keys), NEW s, Len(s) \in Nat, NEW force
    PROVE  Grown(I!ImportKeys(s, force), Len(s), s)
<1> DEFINE n == Len(s)
           f == CHOOSE f : Runs(f, n, s, force)
<1>1. I!ImportKeys(s, force) = f[n]
  BY DEF I!ImportKeys, Runs
<1>2. Runs(f, n, s, force)
  BY RunsOn
<1> HIDE DEF f
<1>3. f[0] = keys /\ \A k \in 1 .. n : f[k] = I!ImportLine(f[k - 1], s[k], force)
  <2>1. 0 \in 0 .. n /\ \A k \in 1 .. n : k \in 0 .. n /\ k # 0
    OBVIOUS
  <2> HIDE DEF n
  <2> QED BY <1>2, <2>1, Zenon DEF Runs
<1> DEFINE T == {k \in 0 .. n : ~ Grown(f[k], k, s)}
<1>4. ASSUME T # {} PROVE FALSE
  <2>1. T \in SUBSET Nat
    OBVIOUS
  <2>2. PICK m \in T : \A k \in T : m <= k
    BY <1>4, <2>1, LeastIn
  <2>3. m \in 0 .. n /\ ~ Grown(f[m], m, s)
    OBVIOUS
  <2>4. Grown(keys, 0, s)
    <3>1. 1 .. 0 = {} /\ Len(keys) \in Nat
      BY DEF IsSeq
    <3> QED BY <3>1 DEF Grown
  <2>5. m # 0
    BY <1>3, <2>3, <2>4
  <2>6. m \in 1 .. n /\ m - 1 \in 0 .. n /\ m - 1 \in Nat /\ ~ (m <= m - 1) /\ m - 1 + 1 = m
    BY <2>3, <2>5
  <2>7. Grown(f[m - 1], m - 1, s)
    BY <2>2, <2>6
  <2>8. Grown(I!ImportLine(f[m - 1], s[m - 1 + 1], force), m - 1 + 1, s)
    BY <2>6, <2>7, GrowsOn
  <2> QED BY <1>3, <2>3, <2>6, <2>8
<1> QED BY <1>1, <1>4

\* The lines chosen, in some order.
LEMMA InOrder ==
    ASSUME NEW S, IsFiniteSet(S)
    PROVE  /\ Len(I!SetToSeq(S)) \in Nat
           /\ {I!SetToSeq(S)[k] : k \in 1 .. Len(I!SetToSeq(S))} = S
<1> DEFINE n == Cardinality(S)
           s == I!SetToSeq(S)
<1>1. n \in Nat /\ ExistsBijection(1 .. n, S)
  BY FS_CardinalityType
<1>2. PICK f : f \in Bijection(1 .. n, S)
  BY <1>1 DEF ExistsBijection
<1>3. f \in [1 .. n -> S] /\ I!IsInjective(f)
  BY <1>2 DEF Bijection, Injection, IsInjective, I!IsInjective
<1>4. s = CHOOSE g \in [1 .. n -> S] : I!IsInjective(g)
  BY DEF I!SetToSeq, I!Cardinality, Cardinality
<1> HIDE DEF s
<1>5. s \in [1 .. n -> S] /\ I!IsInjective(s)
  BY <1>3, <1>4
<1>6. Len(s) = n
  BY <1>1, <1>5
<1>7. s \in Surjection(1 .. n, S)
  <2>1. s \in Injection(1 .. n, S)
    BY <1>5 DEF Injection, IsInjective, I!IsInjective
  <2>2. IsFiniteSet(1 .. n) /\ Cardinality(1 .. n) = n
    BY <1>1, FS_Interval
  <2> HIDE DEF n
  <2>3. Cardinality(1 .. n) = Cardinality(S)
    BY <2>2 DEF n
  <2> QED BY <2>1, <2>3, FS_Injection
<1>8. {s[k] : k \in 1 .. n} = S
  BY <1>7 DEF Surjection
<1> QED BY <1>1, <1>6, <1>8 DEF s

LEMMA FilterSame == \A s, S : I!Filtered(s, S) = D!Filtered(s, S)
BY DEF I!Filtered, I!Cardinality, D!Filtered, D!Cardinality

\* A block whose name was not there has its option, as no other block that comes with it
\* has its name.
LEMMA BlockThere ==
    ASSUME NEW h, IsSeq(h), NEW c, IsSeq(c), \A a, b \in 1 .. Len(c) : c[a].name = c[b].name => a = b,
           NEW S, NEW j \in 1 .. Len(c), c[j] \in S,
           \A i \in 1 .. Len(h) : h[i].name # c[j].name
    PROVE  I!Effective(h \o I!Filtered(c, S), c[j].name) = c[j].option
<1> DEFINE u == h \o I!Filtered(c, S)
           block == c[j]
           T == {i \in 1 .. Len(u) : u[i].name = block.name /\ u[i].option # ""}
<1>1. PICK t : t = I!Filtered(c, S)
  OBVIOUS
<1>2. IsSeq(t) /\ Values(t) = Values(c) \cap S
  BY <1>1, FilterSame, FilteredValues
<1>3. block \in Values(t)
  <2>1. block \in Values(c)
    BY DEF Values
  <2> QED BY <1>2, <2>1
<1>4. PICK w : w = u
  OBVIOUS
<1>5. PICK m \in Nat, n \in Nat : m = Len(h) /\ n = Len(t)
  BY <1>2 DEF IsSeq
<1>6. /\ IsSeq(w) /\ Len(w) = m + n
      /\ \A k \in 1 .. m : w[k] = h[k]
      /\ \A k \in 1 .. n : m + k \in 1 .. m + n /\ w[m + k] = t[k]
      /\ \A k \in 1 .. m + n : k \in 1 .. m \/ k - m \in 1 .. n
  BY <1>1, <1>2, <1>4, <1>5, Joined
<1>7. ASSUME NEW i \in 1 .. m + n, w[i].name = block.name PROVE w[i] = block
  <2>1. ~ (i \in 1 .. m)
    BY <1>5, <1>6, <1>7
  <2>2. PICK k \in 1 .. n : m + k = i
    BY <1>6, <2>1
  <2>3. w[i] = t[k]
    BY <1>6, <2>2
  <2>4. t[k] \in Values(t)
    BY <1>5 DEF Values
  <2>5. w[i] \in Values(c)
    BY <1>2, <2>3, <2>4
  <2>6. PICK a \in 1 .. Len(c) : w[i] = c[a]
    BY <2>5 DEF Values
  <2> QED BY <1>7, <2>6
<1>8. \E i \in 1 .. m + n : w[i] = block
  <2>1. PICK k \in 1 .. n : t[k] = block
    BY <1>3, <1>5, SMTT(30) DEF Values
  <2> QED BY <1>6, <2>1
<1>9. I!Effective(w, block.name) = IF T # {} THEN (IF I!Min(T) = 0 THEN "" ELSE w[I!Min(T)].option) ELSE ""
  BY <1>4 DEF I!Effective, I!SelectInSeq
<1>10. T = {i \in 1 .. m + n : w[i].name = block.name /\ w[i].option # ""}
  BY <1>4, <1>6
<1> HIDE DEF T, u
<1>11. CASE T = {}
  <2>1. block.option = ""
    BY <1>8, <1>10, <1>11
  <2> QED BY <1>4, <1>9, <1>11, <2>1 DEF u
<1>12. CASE T # {}
  <2>1. T \in SUBSET Nat
    <3>1. \A i \in 1 .. m + n : i \in Nat
      OBVIOUS
    <3> QED BY <1>10, <3>1
  <2>2. PICK i \in T : \A k \in T : i <= k
    BY <1>12, <2>1, LeastIn
  <2>3. I!Min(T) \in T
    BY <2>2 DEF I!Min
  <2>4. I!Min(T) \in 1 .. m + n /\ w[I!Min(T)].name = block.name
    BY <1>10, <2>3
  <2>5. I!Min(T) # 0 /\ w[I!Min(T)] = block
    BY <1>7, <2>4
  <2> QED BY <1>4, <1>9, <1>12, <2>5 DEF u
<1> QED BY <1>11, <1>12

\* The files that are offered.
LEMMA Offered ==
    ASSUME NEW v \in I!Views, NEW c \in I!Offers(v) \cup {I!NoFile}
    PROVE  /\ IsSeq(c)
           /\ v = "hosts" => \A a, b \in 1 .. Len(c) : c[a].name = c[b].name => a = b
<1>1. CASE c = I!NoFile
  BY <1>1 DEF I!NoFile, IsSeq
<1>2. CASE v = "hosts" /\ c # I!NoFile
  <2>1. \/ c = <<[name |-> "x", option |-> "o2"], [name |-> "y", option |-> "o2"]>>
        \/ c = <<[name |-> "x", option |-> "o1"], [name |-> "y", option |-> ""]>>
    BY <1>2 DEF I!Offers, I!Block
  <2>2. PICK a, b : c = <<a, b>> /\ a.name # b.name
    <3>1. \A p, q : [name |-> "x", option |-> p].name # [name |-> "y", option |-> q].name
      OBVIOUS
    <3> QED BY <2>1, <3>1, Zenon
  <2>3. Len(c) = 2 /\ c[1] = a /\ c[2] = b /\ IsSeq(c)
    BY <2>2 DEF IsSeq
  <2>4. 1 .. 2 = {1, 2}
    OBVIOUS
  <2> QED BY <1>2, <2>2, <2>3, <2>4
<1>3. CASE v = "keys" /\ c # I!NoFile
  <2>1. PICK l, k : c = <<l, k>> \/ c = <<l>>
    BY <1>3 DEF I!Offers
  <2> QED BY <1>3, <2>1 DEF IsSeq
<1> QED BY <1>1, <1>2, <1>3 DEF I!Views

LEMMA EntriesFinite ==
    ASSUME NEW v, IsSeq(cache[v])
    PROVE  IsFiniteSet(I!Compared(v))
<1> DEFINE e(k) == I!Entry(cache[v][k], IF v = "hosts" THEN I!KindOfHost(cache[v][k])
                                        ELSE I!KindOfKey(cache[v][k]))
           f == [k \in 1 .. Len(cache[v]) |-> e(k)]
<1>1. PICK n \in Nat : n = Len(cache[v]) /\ DOMAIN cache[v] = 1 .. n
  BY DEF IsSeq
<1>2. I!Compared(v) = {e(k) : k \in 1 .. n}
  BY <1>1 DEF I!Compared
<1> HIDE DEF e
<1>3. f \in Surjection(1 .. n, {e(k) : k \in 1 .. n})
  BY <1>1 DEF Surjection
<1>4. IsFiniteSet(1 .. n)
  BY FS_Interval
<1> HIDE DEF f
<1> QED BY <1>2, <1>3, <1>4, FS_Surjection

-----------------------------------------------------------------------------
(* Entries and imports show how the files are.                             *)

Whole(i) ==
    i \in [view : I!Views, chosen : {i.chosen}, force : BOOLEAN, mounted : BOOLEAN,
           stale : BOOLEAN]

\* An import that is not stale has entries as they would be shown now.
SentWell(i) ==
    /\ Whole(i) /\ IsFiniteSet(i.chosen)
    /\ i.stale \/ i.chosen \in SUBSET I!Compared(i.view)

FilesTyped ==
    /\ cache = [v \in I!Views |-> cache[v]]
    /\ \A v \in I!Views : cache[v] \in I!Offers(v) \cup {I!NoFile}
    /\ IsSeq(config) /\ IsSeq(keys)

ImportInv ==
    /\ FilesTyped
    /\ listed \in SUBSET I!Views
    /\ page \in I!Views \cup {"list", "done"}
    /\ stale \in BOOLEAN
    /\ IsFiniteSet(entries) /\ selected \in SUBSET entries
    /\ page \in I!Views /\ ~stale => entries = I!Compared(page)
    /\ \A i \in imports : SentWell(i)
    /\ lost = {} /\ missing = {}

LEMMA HereViews == I!Here \in SUBSET I!Views
BY DEF I!Here

LEMMA ComparedSame ==
    ASSUME cache' = cache, config' = config, keys' = keys
    PROVE  \A v : I!Compared(v)' = I!Compared(v)
<1>1. \A ls, pat : I!LineOf(ls, pat)' = I!LineOf(ls, pat)
  OBVIOUS
<1>2. \A b : I!KindOfHost(b)' = I!KindOfHost(b)
  BY DEF I!KindOfHost
<1>3. \A l : I!KindOfKey(l)' = I!KindOfKey(l)
  BY DEF I!KindOfKey
<1> QED BY <1>2, <1>3 DEF I!Compared

LEMMA SentSame ==
    ASSUME cache' = cache, config' = config, keys' = keys
    PROVE  \A i : SentWell(i) => SentWell(i)'
BY ComparedSame, Zenon DEF SentWell, Whole

LEMMA FilesSame ==
    ASSUME FilesTyped, cache' = cache, config' = config, keys' = keys
    PROVE  FilesTyped'
BY DEF FilesTyped

\* What has changed makes every import stale.
LEMMA Touched ==
    ASSUME NEW i, Whole(i), IsFiniteSet(i.chosen)
    PROVE  SentWell([i EXCEPT !.stale = TRUE])'
<1>1. PICK j : j = [i EXCEPT !.stale = TRUE]
  OBVIOUS
<1>2. Whole(j) /\ j.stale = TRUE /\ j.chosen = i.chosen
  BY <1>1 DEF Whole
<1> QED BY <1>1, <1>2 DEF SentWell, Whole

LEMMA Left ==
    ASSUME NEW i, SentWell(i)
    PROVE  SentWell([i EXCEPT !.mounted = FALSE])
<1>1. PICK j : j = [i EXCEPT !.mounted = FALSE]
  OBVIOUS
<1>2. Whole(j) /\ j.stale = i.stale /\ j.chosen = i.chosen /\ j.view = i.view
  BY <1>1 DEF Whole, SentWell
<1> QED BY <1>1, <1>2 DEF SentWell

LEMMA AllLeft ==
    ASSUME \A i \in imports : SentWell(i), cache' = cache, config' = config, keys' = keys,
           imports' = {[i EXCEPT !.mounted = FALSE] : i \in imports}
    PROVE  \A i \in imports' : SentWell(i)'
<1> SUFFICES ASSUME NEW j \in imports' PROVE SentWell(j)'
  OBVIOUS
<1>1. PICK i \in imports : j = [i EXCEPT !.mounted = FALSE]
  OBVIOUS
<1>2. SentWell(j)
  BY <1>1, Left
<1> QED BY <1>2, SentSame

LEMMA AllTouched ==
    ASSUME \A i \in imports : SentWell(i),
           NEW S \in SUBSET imports, imports' = {[i EXCEPT !.stale = TRUE] : i \in S}
    PROVE  \A i \in imports' : SentWell(i)'
<1> SUFFICES ASSUME NEW j \in imports' PROVE SentWell(j)'
  OBVIOUS
<1>1. PICK i \in S : j = [i EXCEPT !.stale = TRUE]
  OBVIOUS
<1>2. Whole(i) /\ IsFiniteSet(i.chosen)
  BY DEF SentWell
<1> QED BY <1>1, <1>2, Touched

-----------------------------------------------------------------------------
(* The steps.                                                              *)

\* The files and what is sent stay as they are.
LEMMA ShowsImport ==
    ASSUME ImportInv,
           I!Load \/ I!ShowKind \/ I!ToggleSelect \/ I!SelectAll \/ I!Acknowledge
             \/ UNCHANGED I!vars
    PROVE  ImportInv'
<1>1. /\ cache' = cache /\ config' = config /\ keys' = keys
      /\ page' = page /\ entries' = entries /\ imports' = imports
      /\ stale' = stale /\ lost' = lost /\ missing' = missing
  BY DEF I!Load, I!ShowKind, I!ToggleSelect, I!SelectAll, I!Acknowledge, I!Choose, I!vars,
         I!pageVars, I!otherVars
<1>2. selected' \in SUBSET entries
  <2>1. I!Shown \in SUBSET entries /\ I!Choosable \in SUBSET entries
    BY DEF I!Shown, I!Choosable
  <2>2. selected \in SUBSET entries
    BY DEF ImportInv
  <2>3. CASE I!ToggleSelect
    <3>1. PICK e \in I!Shown : selected' = I!SymDiff(selected, {e})
      BY <2>3 DEF I!ToggleSelect, I!Choose
    <3> QED BY <2>1, <2>2, <3>1 DEF I!SymDiff
  <2>4. CASE I!SelectAll
    BY <2>1, <2>2, <2>4 DEF I!SelectAll, I!Choose
  <2>5. CASE I!Load \/ I!ShowKind \/ I!Acknowledge \/ UNCHANGED I!vars
    BY <2>2, <2>5 DEF I!Load, I!ShowKind, I!Acknowledge, I!vars, I!pageVars
  <2> QED BY <2>3, <2>4, <2>5
<1>3. listed' \in SUBSET I!Views
  BY HereViews DEF ImportInv, I!Load, I!Ask, I!ShowKind, I!ToggleSelect, I!SelectAll, I!Acknowledge,
                   I!Choose, I!vars
<1>4. FilesTyped'
  BY <1>1, FilesSame DEF ImportInv
<1>5. \A i \in imports' : SentWell(i)'
  BY <1>1, SentSame DEF ImportInv
<1>6. page' \in I!Views /\ ~stale' => entries' = I!Compared(page)'
  <2>1. I!Compared(page)' = I!Compared(page)
    <3>1. PICK v : v = page
      OBVIOUS
    <3>2. I!Compared(v)' = I!Compared(v)
      BY <1>1, ComparedSame
    <3>3. I!Compared(page)' = I!Compared(v)'
      BY <1>1, <3>1 DEF I!Compared
    <3> QED BY <3>1, <3>2, <3>3
  <2> QED BY <1>1, <2>1 DEF ImportInv
<1> QED BY <1>1, <1>2, <1>3, <1>4, <1>5, <1>6 DEF ImportInv

\* A file changes, or files are taken away.
LEMMA ChangesFiles ==
    ASSUME ImportInv, I!Upload \/ I!Delete \/ I!Elsewhere
    PROVE  ImportInv'
<1>1. /\ page' = page /\ entries' = entries /\ selected' = selected
      /\ lost' = lost /\ missing' = missing
      /\ stale' = TRUE /\ imports' = {[i EXCEPT !.stale = TRUE] : i \in imports}
  BY DEF I!Upload, I!Delete, I!Elsewhere, I!Change, I!Touch, I!pageVars
<1>2. \A i \in imports' : SentWell(i)'
  <2>1. \A i \in imports : SentWell(i)
    BY DEF ImportInv
  <2> QED BY <1>1, <2>1, AllTouched
<1>3. FilesTyped' /\ listed' \in SUBSET I!Views
  <2>1. CASE I!Upload
    <3>1. PICK v \in I!Views : \E f \in I!Offers(v) : cache' = [cache EXCEPT ![v] = f]
      BY <2>1 DEF I!Upload, I!Change
    <3>2. PICK f \in I!Offers(v) : cache' = [cache EXCEPT ![v] = f]
      BY <3>1
    <3>3. config' = config /\ keys' = keys /\ listed' \in SUBSET I!Views
      BY <2>1 DEF I!Upload, I!Ask, ImportInv
    <3>4. /\ cache' = [w \in I!Views |-> cache'[w]]
          /\ \A w \in I!Views : cache'[w] = IF w = v THEN f ELSE cache[w]
      BY <3>2 DEF ImportInv, FilesTyped
    <3> QED BY <3>3, <3>4 DEF ImportInv, FilesTyped
  <2>2. CASE I!Delete
    BY <2>2 DEF I!Delete, I!Change, I!Ask, ImportInv, FilesTyped
  <2>3. CASE I!Elsewhere
    <3>1. cache' = cache /\ listed' = listed
      BY <2>3 DEF I!Elsewhere
    <3>2. IsSeq(config) /\ IsSeq(keys)
      BY DEF ImportInv, FilesTyped
    <3>3. IsSeq(config') /\ IsSeq(keys')
      <4>1. \/ (\E l : keys' = Append(keys, l)) /\ config' = config
            \/ (\E l : config' = Append(config, l)) /\ keys' = keys
        BY <2>3, Zenon DEF I!Elsewhere
      <4>2. ASSUME NEW ls, IsSeq(ls), NEW l PROVE IsSeq(Append(ls, l))
        BY <4>2, Appended
      <4> QED BY <3>2, <4>1, <4>2, Zenon
    <3> QED BY <3>1, <3>3 DEF ImportInv, FilesTyped
  <2> QED BY <2>1, <2>2, <2>3
<1> QED BY <1>1, <1>2, <1>3 DEF ImportInv

\* A view is opened or left.
LEMMA TurnsPage ==
    ASSUME ImportInv, I!OpenView \/ I!Back \/ I!Leave
    PROVE  ImportInv'
<1>1. cache' = cache /\ config' = config /\ keys' = keys /\ lost' = lost /\ missing' = missing
  BY DEF I!OpenView, I!Back, I!Leave
<1>2. FilesTyped' /\ FilesTyped
  BY <1>1, FilesSame DEF ImportInv
<1>3. listed' \in SUBSET I!Views
  BY HereViews DEF ImportInv, I!OpenView, I!Back, I!Leave, I!Ask
<1>4. CASE I!OpenView
  <2>1. PICK v \in I!Views : I!Mount(v)
    BY <1>4 DEF I!OpenView, I!Views, ImportInv
  <2>2. /\ page' = v /\ entries' = I!Compared(v) /\ selected' = {} /\ stale' = FALSE
        /\ imports' = {[i EXCEPT !.mounted = FALSE] : i \in imports}
    BY <2>1 DEF I!Mount
  <2>3. \A i \in imports' : SentWell(i)'
    BY <1>1, <2>2, AllLeft DEF ImportInv
  <2>4. IsSeq(cache[v])
    BY <1>2, Offered DEF FilesTyped
  <2>5. IsFiniteSet(entries')
    BY <2>2, <2>4, EntriesFinite
  <2>6. entries' = I!Compared(page)'
    <3>1. I!Compared(v)' = I!Compared(v)
      BY <1>1, ComparedSame
    <3>2. I!Compared(page)' = I!Compared(v)'
      BY <2>2 DEF I!Compared
    <3> QED BY <2>2, <3>1, <3>2
  <2> QED BY <1>1, <1>2, <1>3, <2>2, <2>3, <2>5, <2>6 DEF ImportInv
<1>5. CASE I!Back \/ (I!Leave /\ page # "list")
  <2>1. /\ page' = "list" /\ entries' = {} /\ selected' = {} /\ stale' = stale
        /\ imports' = {[i EXCEPT !.mounted = FALSE] : i \in imports}
    BY <1>5 DEF I!Back, I!Leave, I!Unmounted
  <2>2. \A i \in imports' : SentWell(i)'
    BY <1>1, <2>1, AllLeft DEF ImportInv
  <2>3. IsFiniteSet(entries')
    BY <2>1, FS_EmptySet
  <2>4. page' \notin I!Views
    BY <2>1 DEF I!Views
  <2> QED BY <1>1, <1>2, <1>3, <2>1, <2>2, <2>3, <2>4 DEF ImportInv
<1>6. CASE I!Leave /\ page = "list"
  <2>1. /\ page' = page /\ entries' = entries /\ selected' = selected /\ stale' = stale
        /\ imports' = imports
    BY <1>6 DEF I!Leave, I!pageVars
  <2>2. \A i \in imports' : SentWell(i)'
    BY <1>1, <2>1, SentSame DEF ImportInv
  <2>3. page' \notin I!Views
    BY <1>6, <2>1 DEF I!Views
  <2> QED BY <1>1, <1>2, <1>3, <2>1, <2>2, <2>3 DEF ImportInv
<1> QED BY <1>4, <1>5, <1>6

\* An import is sent, or fails.
LEMMA Sends ==
    ASSUME ImportInv, I!Import \/ (\E i \in imports : I!ImportFails(i))
    PROVE  ImportInv'
<1>1. /\ cache' = cache /\ config' = config /\ keys' = keys /\ lost' = lost /\ missing' = missing
      /\ listed' = listed /\ page' = page /\ entries' = entries /\ selected' = selected
      /\ stale' = stale
  BY DEF I!Import, I!ImportFails, I!pageVars
<1>2. FilesTyped'
  BY <1>1, FilesSame DEF ImportInv
<1>3. \A i \in imports' : SentWell(i)
  <2>1. CASE I!Import
    <3>1. PICK j : j = [view |-> page, chosen |-> selected, force |-> I!Conflicts # {},
                        mounted |-> TRUE, stale |-> stale]
      OBVIOUS
    <3>2. page \in I!Views /\ imports' = imports \cup {j}
      BY <2>1, <3>1 DEF I!Import
    <3>3. Whole(j) /\ j.view = page /\ j.chosen = selected /\ j.stale = stale
      <4>1. stale \in BOOLEAN /\ (I!Conflicts # {}) \in BOOLEAN
        BY DEF ImportInv
      <4> QED BY <3>1, <3>2, <4>1 DEF Whole
    <3>4. IsFiniteSet(selected)
      BY FS_Subset DEF ImportInv
    <3>5. stale \/ selected \in SUBSET I!Compared(page)
      BY <3>2 DEF ImportInv
    <3>6. stale \in BOOLEAN
      BY DEF ImportInv
    <3>7. SentWell(j)
      BY <3>2, <3>3, <3>4, <3>5, <3>6 DEF SentWell
    <3> QED BY <3>2, <3>7 DEF ImportInv
  <2>2. CASE \E i \in imports : I!ImportFails(i)
    BY <2>2 DEF I!ImportFails, ImportInv
  <2> QED BY <2>1, <2>2
<1>4. \A i \in imports' : SentWell(i)'
  BY <1>1, <1>3, SentSame
<1>5. page' \in I!Views /\ ~stale' => entries' = I!Compared(page)'
  <2>1. I!Compared(page)' = I!Compared(page)
    <3>1. PICK v : v = page
      OBVIOUS
    <3>2. I!Compared(v)' = I!Compared(v)
      BY <1>1, ComparedSame
    <3>3. I!Compared(page)' = I!Compared(v)'
      BY <1>1, <3>1 DEF I!Compared
    <3> QED BY <3>1, <3>2, <3>3
  <2> QED BY <1>1, <2>1 DEF ImportInv
<1> QED BY <1>1, <1>2, <1>4, <1>5 DEF ImportInv

\* An entry that is up to date has the kind of its line.
LEMMA KindsTold ==
    ASSUME NEW v \in I!Views, IsSeq(cache[v]), NEW e \in I!Compared(v)
    PROVE  \E k \in 1 .. Len(cache[v]) :
              /\ e.of = cache[v][k]
              /\ e.kind = IF v = "hosts" THEN I!KindOfHost(e.of) ELSE I!KindOfKey(e.of)
<1>1. PICK n \in Nat : n = Len(cache[v]) /\ DOMAIN cache[v] = 1 .. n
  BY DEF IsSeq
<1>2. PICK k \in 1 .. n :
         e = I!Entry(cache[v][k], IF v = "hosts" THEN I!KindOfHost(cache[v][k])
                                  ELSE I!KindOfKey(cache[v][k]))
  BY <1>1 DEF I!Compared
<1>3. PICK l, kd : l = cache[v][k] /\ kd = IF v = "hosts" THEN I!KindOfHost(l) ELSE I!KindOfKey(l)
  OBVIOUS
<1>4. e = [of |-> l, kind |-> kd]
  BY <1>2, <1>3, Zenon DEF I!Entry
<1>5. e.of = l /\ e.kind = kd
  BY <1>4
<1> QED BY <1>1, <1>3, <1>5

LEMMA ItemsInOrder ==
    ASSUME NEW i, IsFiniteSet(i.chosen)
    PROVE  /\ Len(I!SetToSeq(I!Items(i))) \in Nat
           /\ {I!SetToSeq(I!Items(i))[k] : k \in 1 .. Len(I!SetToSeq(I!Items(i)))}
                = {e.of : e \in i.chosen}
<1> DEFINE f == [e \in i.chosen |-> e.of]
           X == {e.of : e \in i.chosen}
<1>1. f \in Surjection(i.chosen, X)
  BY DEF Surjection
<1> HIDE DEF f
<1>2. IsFiniteSet(X)
  BY <1>1, FS_Surjection
<1>3. PICK Y : Y = I!Items(i)
  OBVIOUS
<1>4. Y = X
  BY <1>3 DEF I!Items
<1> HIDE DEF X
<1>5. /\ Len(I!SetToSeq(Y)) \in Nat
      /\ {I!SetToSeq(Y)[k] : k \in 1 .. Len(I!SetToSeq(Y))} = Y
  BY <1>2, <1>4, InOrder
<1> QED BY <1>3, <1>4, <1>5 DEF X

\* What is kept of the keys, and what is new.
LEMMA KeysBrought ==
    ASSUME IsSeq(keys), IsSeq(cache["keys"]), NEW i, IsFiniteSet(i.chosen),
           i.chosen \in SUBSET I!Compared("keys"),
           NEW ks, ks = I!ImportKeys(I!SetToSeq(I!Items(i)), i.force)
    PROVE  /\ I!Kept(keys) \in SUBSET (I!Kept(ks) \cup I!Replaced(i))
           /\ \A e \in i.chosen :
                 e.kind = "new" =>
                   \A pat \in I!ToSet(e.of.pats) : <<pat, e.of.key>> \in I!Kept(ks)
<1>1. PICK s : s = I!SetToSeq(I!Items(i))
  OBVIOUS
<1>2. PICK m \in Nat, n \in Nat : m = Len(keys) /\ n = Len(s)
  BY <1>1, ItemsInOrder DEF IsSeq
<1>3. {s[k] : k \in 1 .. n} = {e.of : e \in i.chosen}
  BY <1>1, <1>2, ItemsInOrder
<1>4. /\ IsSeq(ks) /\ Len(ks) >= m
      /\ \A j \in 1 .. m :
            \/ ks[j] = keys[j]
            \/ \E k \in 1 .. n : I!Against(keys, s[k]) = j /\ keys[j].key # s[k].key
      /\ \A k \in 1 .. n :
            I!Against(keys, s[k]) = 0 => \E j \in m + 1 .. Len(ks) : ks[j] = s[k]
  <2>1. Grown(ks, n, s)
    BY <1>1, <1>2, KeysGrow
  <2> QED BY <1>2, <2>1 DEF Grown
<1>5. PICK c \in Nat : c = Len(ks) /\ DOMAIN ks = 1 .. c /\ c >= m
  BY <1>4 DEF IsSeq
<1>6. DOMAIN keys = 1 .. m
  BY <1>2 DEF IsSeq
<1>7. \A e \in i.chosen : e.kind = I!KindOfKey(e.of)
  <2>1. "keys" \in I!Views /\ "keys" # "hosts"
    BY DEF I!Views
  <2> QED BY <2>1, KindsTold
<1>8. ASSUME NEW j \in 1 .. c, NEW pat \in I!ToSet(ks[j].pats)
      PROVE  <<pat, ks[j].key>> \in I!Kept(ks)
  BY <1>5 DEF I!Kept
<1>9. ASSUME NEW e \in i.chosen, e.kind = "new", NEW pat \in I!ToSet(e.of.pats)
      PROVE  <<pat, e.of.key>> \in I!Kept(ks)
  <2>1. I!Against(keys, e.of) = 0
    BY <1>7, <1>9 DEF I!KindOfKey
  <2>2. PICK k \in 1 .. n : s[k] = e.of
    BY <1>3
  <2>3. PICK j \in m + 1 .. c : ks[j] = e.of
    BY <1>4, <1>5, <2>1, <2>2
  <2>4. j \in 1 .. c
    OBVIOUS
  <2> QED BY <1>8, <1>9, <2>3, <2>4
<1>10. ASSUME NEW x \in I!Kept(keys) PROVE x \in I!Kept(ks) \cup I!Replaced(i)
  <2>1. PICK j \in 1 .. m : x \in {<<pat, keys[j].key>> : pat \in I!ToSet(keys[j].pats)}
    BY <1>6 DEF I!Kept
  <2>2. PICK pat \in I!ToSet(keys[j].pats) : x = <<pat, keys[j].key>>
    BY <2>1
  <2>3. j \in 1 .. c
    BY <1>5
  <2>4. CASE ks[j] = keys[j]
    BY <1>8, <2>2, <2>3, <2>4
  <2>5. CASE ks[j] # keys[j]
    <3>1. PICK k \in 1 .. n : I!Against(keys, s[k]) = j /\ keys[j].key # s[k].key
      BY <1>4, <2>5
    <3>2. PICK e \in i.chosen : e.of = s[k]
      BY <1>3
    <3>3. e.kind = "differs"
      BY <1>7, <3>1, <3>2 DEF I!KindOfKey
    <3>4. x \in {<<p, keys[I!Against(keys, e.of)].key>> :
                   p \in I!ToSet(keys[I!Against(keys, e.of)].pats)}
      BY <2>2, <3>1, <3>2
    <3>5. x \in I!Replaced(i)
      BY <3>3, <3>4 DEF I!Replaced
    <3> QED BY <3>5
  <2> QED BY <2>4, <2>5
<1> QED BY <1>9, <1>10

\* What is new of the hosts.
LEMMA HostsBrought ==
    ASSUME IsSeq(config), cache["hosts"] \in I!Offers("hosts") \cup {I!NoFile}, NEW i,
           i.chosen \in SUBSET I!Compared("hosts"), NEW e \in i.chosen, e.kind = "new"
    PROVE  I!Effective(I!ImportHosts({b.name : b \in I!Items(i)}), e.of.name) = e.of.option
<1>1. PICK c : c = cache["hosts"]
  OBVIOUS
<1>2. "hosts" \in I!Views /\ cache.hosts = c
  BY <1>1 DEF I!Views
<1>3. IsSeq(c) /\ \A a, b \in 1 .. Len(c) : c[a].name = c[b].name => a = b
  BY <1>1, <1>2, Offered
<1>4. PICK j \in 1 .. Len(c) : e.of = c[j] /\ e.kind = I!KindOfHost(e.of)
  BY <1>1, <1>2, <1>3, KindsTold
<1>5. \A k \in 1 .. Len(config) : config[k].name # c[j].name
  <2>1. DOMAIN config = 1 .. Len(config)
    BY DEF IsSeq
  <2> QED BY <1>4, <2>1 DEF I!KindOfHost
<1>6. PICK called : called = {b.name : b \in I!Items(i)}
  OBVIOUS
<1>7. c[j].name \in called
  BY <1>4, <1>6 DEF I!Items
<1>8. PICK S : S = {b \in I!ToSet(c) : b.name \in called}
  OBVIOUS
<1>9. I!ImportHosts(called) = config \o I!Filtered(c, S)
  BY <1>2, <1>8 DEF I!ImportHosts
<1>10. c[j] \in S
  <2>1. DOMAIN c = 1 .. Len(c)
    BY <1>3 DEF IsSeq
  <2> QED BY <1>7, <1>8, <2>1 DEF I!ToSet
<1>11. I!Effective(config \o I!Filtered(c, S), c[j].name) = c[j].option
  BY <1>3, <1>5, <1>10, BlockThere
<1> QED BY <1>4, <1>6, <1>9, <1>11

LEMMA Imports ==
    ASSUME ImportInv, NEW i \in imports, I!Imported(i)
    PROVE  ImportInv'
<1>1. cache' = cache /\ listed' = listed /\ stale' = TRUE
  BY DEF I!Imported
<1>2. Whole(i) /\ IsFiniteSet(i.chosen)
  BY DEF ImportInv, SentWell
<1>3. i.view \in I!Views /\ FilesTyped
  BY <1>2 DEF Whole, ImportInv
<1>4. PICK s : s = I!SetToSeq(I!Items(i))
  OBVIOUS
<1>5. FilesTyped'
  <2>1. IsSeq(keys')
    <3>1. IsSeq(keys) /\ Len(s) \in Nat
      BY <1>2, <1>3, <1>4, ItemsInOrder DEF FilesTyped
    <3>2. IsSeq(I!ImportKeys(s, i.force))
      BY <3>1, KeysGrow DEF Grown
    <3> QED BY <1>4, <3>1, <3>2 DEF I!Imported
  <2>2. IsSeq(config')
    <3>1. PICK c : c = cache["hosts"]
      OBVIOUS
    <3>2. IsSeq(c) /\ cache.hosts = c /\ IsSeq(config)
      BY <1>3, <3>1, Offered DEF FilesTyped, I!Views
    <3>3. ASSUME NEW S PROVE IsSeq(config \o I!Filtered(c, S))
      <4>1. PICK t : t = I!Filtered(c, S)
        OBVIOUS
      <4>2. IsSeq(t)
        BY <3>2, <4>1, FilterSame, FilteredValues
      <4> QED BY <3>2, <4>1, <4>2, Joined
    <3> QED BY <3>2, <3>3 DEF I!Imported, I!ImportHosts
  <2> QED BY <1>1, <1>3, <2>1, <2>2 DEF FilesTyped
<1>6. \A j \in imports' : SentWell(j)'
  <2>1. imports' = {[j EXCEPT !.stale = TRUE] : j \in imports \ {i}}
    BY DEF I!Imported
  <2>2. imports \ {i} \in SUBSET imports /\ \A j \in imports : SentWell(j)
    BY DEF ImportInv
  <2> QED BY <2>1, <2>2, AllTouched
<1>7. /\ page' \in I!Views \cup {"list", "done"}
      /\ IsFiniteSet(entries') /\ selected' \in SUBSET entries'
  <2>1. CASE i.mounted
    <3>1. page' = "done" /\ entries' = {} /\ selected' = {}
      BY <2>1 DEF I!Imported, I!Unmounted
    <3> QED BY <3>1, FS_EmptySet
  <2>2. CASE ~i.mounted
    BY <2>2 DEF I!Imported, I!pageVars, ImportInv
  <2> QED BY <2>1, <2>2
<1>8. i.stale \/ i.chosen \in SUBSET I!Compared(i.view)
  BY DEF ImportInv, SentWell
<1>9. i.stale \in BOOLEAN /\ lost = {} /\ missing = {}
  BY <1>2 DEF Whole, ImportInv
<1>10. lost' = {} /\ missing' = {}
  <2>1. CASE i.stale
    BY <1>9, <2>1 DEF I!Imported
  <2>2. CASE ~i.stale /\ i.view = "hosts"
    <3>1. i.chosen \in SUBSET I!Compared("hosts")
      BY <1>8, <2>2
    <3>2. config' = I!ImportHosts({b.name : b \in I!Items(i)})
      BY <2>2 DEF I!Imported
    <3>3. \A e \in i.chosen : e.kind = "new" => I!Effective(config', e.of.name) = e.of.option
      <4>1. IsSeq(config) /\ cache["hosts"] \in I!Offers("hosts") \cup {I!NoFile}
        BY <1>3 DEF FilesTyped, I!Views
      <4> QED BY <3>1, <3>2, <4>1, HostsBrought
    <3> QED BY <1>9, <2>2, <3>3 DEF I!Imported
  <2>3. CASE ~i.stale /\ i.view = "keys"
    <3>1. i.chosen \in SUBSET I!Compared("keys") /\ i.view # "hosts"
      BY <1>8, <2>3
    <3>2. keys' = I!ImportKeys(I!SetToSeq(I!Items(i)), i.force)
      BY <2>3 DEF I!Imported
    <3>3. /\ I!Kept(keys) \in SUBSET (I!Kept(keys') \cup I!Replaced(i))
          /\ \A e \in i.chosen :
                e.kind = "new" =>
                  \A pat \in I!ToSet(e.of.pats) : <<pat, e.of.key>> \in I!Kept(keys')
      <4>1. IsSeq(keys) /\ IsSeq(cache["keys"])
        BY <1>3, Offered DEF FilesTyped, I!Views
      <4> QED BY <1>2, <3>1, <3>2, <4>1, KeysBrought
    <3>4. lost' = lost \cup ((I!Kept(keys) \ I!Kept(keys')) \ I!Replaced(i))
      BY <2>3, <3>1 DEF I!Imported
    <3>5. missing' = missing \cup
            {e \in i.chosen : e.kind = "new"
                              /\ \E pat \in I!ToSet(e.of.pats) : <<pat, e.of.key>> \notin I!Kept(keys')}
      BY <2>3, <3>1 DEF I!Imported
    <3> QED BY <1>9, <3>3, <3>4, <3>5
  <2> QED BY <1>3, <1>9, <2>1, <2>2, <2>3 DEF I!Views
<1>11. listed' \in SUBSET I!Views
  BY <1>1 DEF ImportInv
<1> QED BY <1>1, <1>5, <1>6, <1>7, <1>10, <1>11 DEF ImportInv

LEMMA ImportStart == I!Init => ImportInv
<1> SUFFICES ASSUME I!Init PROVE ImportInv
  OBVIOUS
<1>1. FilesTyped
  <2>1. PICK h \in I!Offers("hosts") :
           cache = [v \in I!Views |-> IF v = "hosts" THEN h ELSE I!NoFile]
    BY DEF I!Init
  <2>2. \A v \in I!Views : cache[v] \in I!Offers(v) \cup {I!NoFile}
    BY <2>1
  <2>3. IsSeq(config)
    BY DEF I!Init, IsSeq
  <2>4. IsSeq(keys)
    <3>1. keys = <<>> \/ \E l : keys = <<l>>
      BY DEF I!Init
    <3>2. IsSeq(<<>>) /\ \A l : IsSeq(<<l>>)
      BY DEF IsSeq
    <3> QED BY <3>1, <3>2
  <2> QED BY <2>1, <2>2, <2>3, <2>4 DEF FilesTyped
<1> QED BY <1>1, HereViews, FS_EmptySet DEF ImportInv, I!Init, I!Views

LEMMA ImportNext == ImportInv /\ [I!Next]_(I!vars) => ImportInv'
<1> SUFFICES ASSUME ImportInv, [I!Next]_(I!vars) PROVE ImportInv'
  OBVIOUS
<1>1. CASE I!Load \/ I!ShowKind \/ I!ToggleSelect \/ I!SelectAll \/ I!Acknowledge
             \/ UNCHANGED I!vars
  BY <1>1, ShowsImport
<1>2. CASE I!Upload \/ I!Delete \/ I!Elsewhere
  BY <1>2, ChangesFiles
<1>3. CASE I!OpenView \/ I!Back \/ I!Leave
  BY <1>3, TurnsPage
<1>4. CASE I!Import \/ \E i \in imports : I!ImportFails(i)
  BY <1>4, Sends
<1>5. CASE \E i \in imports : I!Imported(i)
  BY <1>5, Imports
<1> QED BY <1>1, <1>2, <1>3, <1>4, <1>5, Zenon DEF I!Next

\* For any number of imports, uploads and changes from elsewhere: an import removes no key
\* but those of lines that it showed as different, and what it showed as new is there when
\* it is done, unless the files have changed since they were compared (SSHImportTab.tsx,
\* handleImport; datasync.go, ImportSSHConfigHosts and ImportKnownHostsLines).
THEOREM ImportHolds == I!Spec => []I!ImportSafe
<1>1. ImportInv => I!ImportSafe
  BY DEF ImportInv, I!ImportSafe, I!KeysKept, I!NewIsThere
<1> QED BY <1>1, ImportStart, ImportNext, PTL DEF I!Spec
=============================================================================
