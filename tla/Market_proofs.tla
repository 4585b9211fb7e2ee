--------------------------- MODULE Market_proofs -----------------------------
(***************************************************************************)
(* What TLAPS proves about what comes from outside: the heatmap's closes   *)
(* from the providers of prices, in Heatmap, and the rows of the           *)
(* collectors, in Collectors.                                              *)
(***************************************************************************)
EXTENDS Heatmap, Collectors, FiniteSetTheorems, SequenceTheorems, TLAPS

(***************************************************************************)
(* Orders: what InOrder lists.                                             *)
(***************************************************************************)

Total(S, leq) ==
    /\ \A x \in S : <<x, x>> \in leq
    /\ \A x, y \in S : <<x, y>> \in leq \/ <<y, x>> \in leq
    /\ \A x, y \in S : <<x, y>> \in leq /\ <<y, x>> \in leq => x = y
    /\ \A x, y, z \in S : <<x, y>> \in leq /\ <<y, z>> \in leq => <<x, z>> \in leq

\* s has each element of S once, in the order leq.
Lists(s, S, leq, N) ==
    /\ DOMAIN s = 1 .. N
    /\ \A n \in 1 .. N : s[n] \in S
    /\ \A x \in S : \E n \in 1 .. N : s[n] = x
    /\ \A n, m \in 1 .. N : n < m => s[n] # s[m] /\ <<s[n], s[m]>> \in leq

LEMMA ListsInOrder ==
    ASSUME NEW S, IsFiniteSet(S), NEW leq, Total(S, leq)
    PROVE  Cardinality(S) \in Nat /\ Lists(InOrder(S, leq), S, leq, Cardinality(S))
<1>1. PICK N \in Nat : N = Cardinality(S)
  BY FS_CardinalityType
<1>2. /\ \A x \in S : <<x, x>> \in leq
      /\ \A x, y \in S : <<x, y>> \in leq \/ <<y, x>> \in leq
      /\ \A x, y \in S : <<x, y>> \in leq /\ <<y, x>> \in leq => x = y
      /\ \A x, y, z \in S : <<x, y>> \in leq /\ <<y, z>> \in leq => <<x, z>> \in leq
  BY Zenon DEF Total
<1>3. PICK before : before = [x \in S |-> {y \in S : <<y, x>> \in leq}]
  OBVIOUS
<1>4. \A x \in S : before[x] \in SUBSET S /\ \A y \in S : y \in before[x] <=> <<y, x>> \in leq
  BY <1>3
<1>5. PICK place : place = [x \in S |-> Cardinality(before[x])]
  OBVIOUS
<1>6. ASSUME NEW x \in S PROVE place[x] \in 1 .. N
  <2>1. PICK B \in SUBSET S : B = before[x] /\ x \in B
    BY <1>2, <1>4
  <2>2. IsFiniteSet(B) /\ Cardinality(B) <= N
    BY <1>1, <2>1, FS_Subset
  <2>3. Cardinality(B) \in Nat /\ Cardinality(B) # 0
    BY <2>1, <2>2, FS_CardinalityType, FS_EmptySet
  <2>. QED BY <1>5, <2>1, <2>2, <2>3
<1>7. ASSUME NEW x \in S, NEW y \in S, x # y, <<x, y>> \in leq PROVE place[x] < place[y]
  <2>1. PICK A \in SUBSET S, B \in SUBSET S : A = before[x] /\ B = before[y]
    BY <1>4
  <2>2. A \in SUBSET B
    BY <1>2, <1>4, <1>7, <2>1
  <2>3. y \in B /\ y \notin A
    BY <1>2, <1>4, <1>7, <2>1
  <2>4. IsFiniteSet(B)
    BY <2>1, FS_Subset
  <2>5. Cardinality(A) <= Cardinality(B) /\ Cardinality(A) # Cardinality(B)
    BY <2>2, <2>3, <2>4, FS_Subset
  <2>6. Cardinality(A) \in Nat /\ Cardinality(B) \in Nat
    BY <1>5, <1>6, <2>1
  <2>. QED BY <1>5, <2>1, <2>5, <2>6
<1>8. \A x, y \in S : place[x] = place[y] => x = y
  <2>1. ASSUME NEW x \in S, NEW y \in S, x # y PROVE place[x] # place[y]
    <3>1. place[x] \in Nat /\ place[y] \in Nat
      BY <1>6
    <3>2. place[x] < place[y] \/ place[y] < place[x]
      BY <1>2, <1>7, <2>1
    <3>. QED BY <3>1, <3>2
  <2>. QED BY <2>1
<1>9. \A n \in 1 .. N : \E x \in S : place[x] = n
  <2>1. PICK I : I = 1 .. N
    OBVIOUS
  <2>2. IsFiniteSet(I) /\ Cardinality(I) = N
    <3>1. IsFiniteSet(1 .. N)
      BY FS_Interval
    <3>2. Cardinality(1 .. N) = N
      BY FS_Interval
    <3>. QED BY <2>1, <3>1, <3>2
  <2>3. place \in [S -> I]
    BY <1>5, <1>6, <2>1
  <2>4. place \in Injection(S, I)
    BY <1>8, <2>3 DEF Injection, IsInjective
  <2>5. place \in Surjection(S, I)
    BY <1>1, <2>2, <2>4, FS_Injection
  <2>. QED BY <2>1, <2>5 DEF Surjection
<1>10. PICK s : s = InOrder(S, leq)
  OBVIOUS
<1>11. s = [n \in 1 .. N |-> CHOOSE x \in S : Cardinality({y \in S : <<y, x>> \in leq}) = n]
  BY <1>1, <1>10, Zenon DEF InOrder
<1>12. ASSUME NEW n \in 1 .. N PROVE s[n] \in S /\ place[s[n]] = n
  <2>1. \A x \in S : place[x] = Cardinality({y \in S : <<y, x>> \in leq})
    BY <1>3, <1>5
  <2>2. \E x \in S : Cardinality({y \in S : <<y, x>> \in leq}) = n
    BY <1>9, <2>1
  <2>3. s[n] \in S /\ Cardinality({y \in S : <<y, s[n]>> \in leq}) = n
    <3>1. s[n] = CHOOSE x \in S : Cardinality({y \in S : <<y, x>> \in leq}) = n
      BY <1>11, Zenon
    <3>. QED BY <2>2, <3>1, Zenon
  <2>. QED BY <2>1, <2>3
<1>13. \A x \in S : \E n \in 1 .. N : s[n] = x
  <2>1. ASSUME NEW x \in S PROVE \E n \in 1 .. N : s[n] = x
    <3>1. PICK n \in 1 .. N : n = place[x]
      BY <1>6
    <3>2. s[n] \in S /\ place[s[n]] = place[x]
      BY <1>12, <3>1
    <3>. QED BY <1>8, <3>2
  <2>. QED BY <2>1
<1>14. ASSUME NEW n \in 1 .. N, NEW m \in 1 .. N, n < m
       PROVE  s[n] # s[m] /\ <<s[n], s[m]>> \in leq
  <2>1. PICK x \in S, y \in S : x = s[n] /\ y = s[m] /\ place[x] = n /\ place[y] = m
    BY <1>12
  <2>2. x # y /\ ~(place[y] < place[x])
    BY <1>14, <2>1
  <2>3. <<x, y>> \in leq
    BY <1>2, <1>7, <2>2
  <2>. QED BY <2>1, <2>2, <2>3
<1>15. DOMAIN s = 1 .. N
  BY <1>11
<1>16. Lists(s, S, leq, N)
  BY <1>12, <1>13, <1>14, <1>15, Zenon DEF Lists
<1>. QED BY <1>1, <1>10, <1>16

\* The numbers of a set, rising.
LEMMA ListsRising ==
    ASSUME NEW S \in SUBSET Nat, IsFiniteSet(S), NEW N, N = Cardinality(S)
    PROVE  /\ N \in Nat /\ DOMAIN Rising(S) = 1 .. N
           /\ \A n \in 1 .. N : Rising(S)[n] \in S
           /\ \A x \in S : \E n \in 1 .. N : Rising(S)[n] = x
           /\ \A n, m \in 1 .. N : n < m => Rising(S)[n] < Rising(S)[m]
<1>1. PICK leq : leq = {p \in S \X S : p[1] <= p[2]}
  OBVIOUS
<1>2. \A x, y \in S : <<x, y>> \in leq <=> x <= y
  BY <1>1
<1>3. \A x \in S : x \in Nat
  OBVIOUS
<1>4. Total(S, leq)
  BY <1>2, <1>3 DEF Total
<1>5. PICK s : s = Rising(S) /\ N \in Nat /\ Lists(s, S, leq, N)
  BY <1>1, <1>4, ListsInOrder DEF Rising
<1>6. /\ DOMAIN s = 1 .. N
      /\ \A n \in 1 .. N : s[n] \in S
      /\ \A x \in S : \E n \in 1 .. N : s[n] = x
      /\ \A n, m \in 1 .. N : n < m => s[n] # s[m] /\ <<s[n], s[m]>> \in leq
  BY <1>5, Zenon DEF Lists
<1>7. \A n, m \in 1 .. N : n < m => s[n] < s[m]
  <2>1. ASSUME NEW n \in 1 .. N, NEW m \in 1 .. N, n < m PROVE s[n] < s[m]
    <3>1. PICK x \in S, y \in S : x = s[n] /\ y = s[m]
      BY <1>6
    <3>2. x # y /\ <<x, y>> \in leq
      BY <1>6, <2>1, <3>1
    <3>3. x <= y /\ x \in Nat /\ y \in Nat
      BY <1>2, <1>3, <3>2
    <3>. QED BY <3>1, <3>2, <3>3
  <2>. QED BY <2>1
<1>. QED BY <1>5, <1>6, <1>7

\* Of all numbers up to n they are the numbers themselves.
LEMMA RisingUpTo ==
    ASSUME NEW n \in Nat, NEW s, s = Rising(1 .. n)
    PROVE  DOMAIN s = 1 .. n /\ \A k \in 1 .. n : s[k] = k
<1>1. PICK I : I = 1 .. n
  OBVIOUS
<1>2. PICK leq : leq = {p \in I \X I : p[1] <= p[2]}
  OBVIOUS
<1>3. \A k \in 0 .. n : Cardinality(1 .. k) = k
  BY FS_Interval
<1>4. Cardinality(I) = n
  BY <1>1, <1>3
<1>5. \A x \in I : {y \in I : <<y, x>> \in leq} = 1 .. x
  <2>1. ASSUME NEW x \in I, NEW y \in I PROVE <<y, x>> \in leq <=> y <= x
    BY <1>2
  <2>2. ASSUME NEW x \in I, NEW y \in I, <<y, x>> \in leq PROVE y \in 1 .. x
    BY <1>1, <2>1, <2>2
  <2>3. ASSUME NEW x \in I, NEW y \in 1 .. x PROVE y \in I /\ <<y, x>> \in leq
    <3>1. y \in I /\ y <= x
      BY <1>1
    <3>. QED BY <2>1, <3>1
  <2>. QED BY <2>2, <2>3
<1>6. \A x \in I : Cardinality({y \in I : <<y, x>> \in leq}) = x
  <2>1. ASSUME NEW x \in I PROVE Cardinality({y \in I : <<y, x>> \in leq}) = x
    <3>1. x \in 0 .. n
      BY <1>1
    <3>2. Cardinality(1 .. x) = x
      BY <1>3, <3>1
    <3>. QED BY <1>5, <2>1, <3>2, Zenon
  <2>. QED BY <2>1
<1>7. s = [k \in 1 .. n |-> CHOOSE x \in I : Cardinality({y \in I : <<y, x>> \in leq}) = k]
  BY <1>1, <1>2, <1>4 DEF Rising, InOrder
<1>8. ASSUME NEW k \in 1 .. n PROVE s[k] = k
  <2>1. k \in I /\ Cardinality({y \in I : <<y, k>> \in leq}) = k
    BY <1>1, <1>6
  <2>2. s[k] \in I /\ Cardinality({y \in I : <<y, s[k]>> \in leq}) = k
    BY <1>7, <2>1
  <2>. QED BY <1>6, <2>2
<1>. QED BY <1>7, <1>8

(***************************************************************************)
(* Heatmap: the closes of a provider and the returns between them.         *)
(***************************************************************************)

\* Of rows that are quoted, the last of each day, rising.
Daily(c, Q) ==
    /\ \E N \in Nat : DOMAIN c = 1 .. N
    /\ \A n \in DOMAIN c : c[n].day \in Nat /\ c[n].close \in Nat
    /\ \A n \in DOMAIN c : \E row \in Q : row.day = c[n].day /\ row.close = c[n].close
    /\ \A n, m \in DOMAIN c : n < m => c[n].day < c[m].day
    /\ \A row \in Q : \E n \in DOMAIN c : c[n].day = row.day

Unlike(rows, places) ==
    \A i, j \in places : rows[i].day = rows[j].day => i = j

\* A maximum.
LEMMA Latest ==
    ASSUME NEW S \in SUBSET Nat, IsFiniteSet(S), S # {}
    PROVE  \E m \in S : \A i \in S : i <= m
<1>1. PICK N : N = Cardinality(S)
  OBVIOUS
<1>2. PICK s : s = Rising(S)
  OBVIOUS
<1>3. /\ N \in Nat /\ DOMAIN s = 1 .. N
      /\ \A n \in 1 .. N : s[n] \in S
      /\ \A x \in S : \E n \in 1 .. N : s[n] = x
      /\ \A n, m \in 1 .. N : n < m => s[n] < s[m]
  BY <1>1, <1>2, ListsRising
<1>4. N \in 1 .. N
  <2>1. PICK n \in 1 .. N : TRUE
    BY <1>3
  <2>. QED BY <1>3, <2>1
<1>5. ASSUME NEW i \in S PROVE i <= s[N]
  <2>1. PICK n \in 1 .. N : s[n] = i
    BY <1>3
  <2>2. CASE n = N
    BY <1>3, <2>1, <2>2
  <2>3. CASE n # N
    <3>1. n < N
      BY <1>3, <2>3
    <3>2. s[n] < s[N] /\ s[N] \in Nat
      BY <1>3, <1>4, <3>1
    <3>. QED BY <2>1, <3>2
  <2>. QED BY <2>2, <2>3
<1>. QED BY <1>3, <1>4, <1>5

LEMMA Earliest ==
    ASSUME NEW S \in SUBSET Nat, IsFiniteSet(S), S # {}
    PROVE  \E m \in S : \A i \in S : m <= i
<1>1. PICK N, s : N = Cardinality(S) /\ s = Rising(S)
  OBVIOUS
<1>2. /\ N \in Nat /\ DOMAIN s = 1 .. N
      /\ \A n \in 1 .. N : s[n] \in S
      /\ \A x \in S : \E n \in 1 .. N : s[n] = x
      /\ \A n, m \in 1 .. N : n < m => s[n] < s[m]
  BY <1>1, ListsRising
<1>3. 1 \in 1 .. N
  <2>1. PICK n \in 1 .. N : TRUE
    BY <1>2
  <2>. QED BY <1>2, <2>1
<1>4. ASSUME NEW i \in S PROVE s[1] <= i
  <2>1. PICK n \in 1 .. N : s[n] = i
    BY <1>2
  <2>2. CASE n = 1
    BY <1>2, <2>1, <2>2
  <2>3. CASE n # 1
    <3>1. 1 < n
      BY <1>2, <2>3
    <3>2. s[1] < s[n] /\ s[1] \in Nat
      BY <1>2, <1>3, <3>1
    <3>. QED BY <2>1, <3>2
  <2>. QED BY <2>2, <2>3
<1>. QED BY <1>2, <1>3, <1>4

\* An order by keys that are all different.
LEMMA TotalByKey ==
    ASSUME NEW S, NEW key, \A x \in S : key[x] \in Nat,
           \A x, y \in S : key[x] = key[y] => x = y,
           NEW leq, \A x, y \in S : <<x, y>> \in leq <=> key[x] <= key[y]
    PROVE  Total(S, leq)
<1>1. \A x \in S : <<x, x>> \in leq
  OBVIOUS
<1>2. ASSUME NEW x \in S, NEW y \in S PROVE <<x, y>> \in leq \/ <<y, x>> \in leq
  <2>1. PICK i \in Nat, j \in Nat : i = key[x] /\ j = key[y]
    OBVIOUS
  <2>2. i <= j \/ j <= i
    OBVIOUS
  <2>. QED BY <2>1, <2>2
<1>3. ASSUME NEW x \in S, NEW y \in S, <<x, y>> \in leq, <<y, x>> \in leq PROVE x = y
  <2>1. PICK i \in Nat, j \in Nat : i = key[x] /\ j = key[y]
    OBVIOUS
  <2>2. i <= j /\ j <= i
    BY <1>3, <2>1
  <2>3. i = j
    BY <2>2
  <2>. QED BY <2>1, <2>3
<1>4. ASSUME NEW x \in S, NEW y \in S, NEW z \in S, <<x, y>> \in leq, <<y, z>> \in leq
      PROVE  <<x, z>> \in leq
  <2>1. PICK i \in Nat, j \in Nat, k \in Nat : i = key[x] /\ j = key[y] /\ k = key[z]
    OBVIOUS
  <2>2. i <= j /\ j <= k
    BY <1>4, <2>1
  <2>3. i <= k
    BY <2>2
  <2>. QED BY <2>1, <2>3
<1>. QED BY <1>1, <1>2, <1>3, <1>4, Zenon DEF Total

LEMMA ByDayIsDaily ==
    ASSUME NEW L \in Nat, NEW rows, DOMAIN rows = 1 .. L,
           NEW places \in SUBSET (1 .. L), Unlike(rows, places),
           \A i \in places : rows[i].day \in Nat /\ rows[i].close \in Nat,
           NEW Q, \A i \in places : rows[i] \in Q,
           \A row \in Q : \E i \in places : rows[i].day = row.day
    PROVE  Daily(ByDay(rows, places), Q)
<1>1. PICK leq : leq = {p \in places \X places :
                  \/ rows[p[1]].day < rows[p[2]].day
                  \/ rows[p[1]].day = rows[p[2]].day /\ p[1] <= p[2]}
  OBVIOUS
<1>2. \A x, y \in places : <<x, y>> \in leq <=>
         \/ rows[x].day < rows[y].day
         \/ rows[x].day = rows[y].day /\ x <= y
  BY <1>1
<1>3. \A x \in places : x \in Nat
  OBVIOUS
<1>4. ASSUME NEW x \in places, NEW y \in places
      PROVE  <<x, y>> \in leq <=> rows[x].day <= rows[y].day
  <2>1. PICK d \in Nat, e \in Nat : d = rows[x].day /\ e = rows[y].day
    OBVIOUS
  <2>2. d = e => x = y
    BY <2>1 DEF Unlike
  <2>3. <<x, y>> \in leq <=> ((d < e) \/ (d = e /\ x <= y))
    <3>1. <<x, y>> \in leq <=>
             ((rows[x].day < rows[y].day) \/ (rows[x].day = rows[y].day /\ x <= y))
      BY <1>2
    <3>. QED BY <2>1, <3>1, Zenon
  <2>4. ((d < e) \/ (d = e /\ x <= y)) <=> d <= e
    BY <1>3, <2>2
  <2>. QED BY <2>1, <2>3, <2>4
<1>5. Total(places, leq)
  <2>1. PICK d : d = [x \in places |-> rows[x].day]
    OBVIOUS
  <2>2. \A x \in places : d[x] \in Nat
    BY <2>1
  <2>3. \A x, y \in places : d[x] = d[y] => x = y
    BY <2>1 DEF Unlike
  <2>4. \A x, y \in places : <<x, y>> \in leq <=> d[x] <= d[y]
    BY <1>4, <2>1
  <2>. QED BY <2>2, <2>3, <2>4, TotalByKey
<1>6. IsFiniteSet(places)
  <2>1. IsFiniteSet(1 .. L)
    BY FS_Interval
  <2>. QED BY <2>1, FS_Subset
<1>7. PICK at, N : at = InOrder(places, leq) /\ N \in Nat /\ Lists(at, places, leq, N)
  BY <1>5, <1>6, ListsInOrder, Zenon
<1>8. /\ DOMAIN at = 1 .. N
      /\ \A n \in 1 .. N : at[n] \in places
      /\ \A x \in places : \E n \in 1 .. N : at[n] = x
      /\ \A n, m \in 1 .. N : n < m => at[n] # at[m] /\ <<at[n], at[m]>> \in leq
  BY <1>7, Zenon DEF Lists
<1>9. PICK c : c = ByDay(rows, places)
  OBVIOUS
<1>10. c = [n \in DOMAIN at |-> [day |-> rows[at[n]].day, close |-> rows[at[n]].close]]
  BY <1>1, <1>7, <1>9, Zenon DEF ByDay
<1>11. /\ DOMAIN c = 1 .. N
       /\ \A n \in 1 .. N : c[n].day = rows[at[n]].day /\ c[n].close = rows[at[n]].close
  BY <1>8, <1>10
<1>12. \A n \in 1 .. N : c[n].day \in Nat /\ c[n].close \in Nat
  BY <1>8, <1>11
<1>13. \A n \in 1 .. N : \E row \in Q : row.day = c[n].day /\ row.close = c[n].close
  BY <1>8, <1>11
<1>14. ASSUME NEW n \in 1 .. N, NEW m \in 1 .. N, n < m PROVE c[n].day < c[m].day
  <2>1. PICK x \in places, y \in places : x = at[n] /\ y = at[m]
    BY <1>8
  <2>2. x # y /\ <<x, y>> \in leq
    BY <1>8, <1>14, <2>1
  <2>3. PICK d \in Nat, e \in Nat : d = rows[x].day /\ e = rows[y].day
    OBVIOUS
  <2>4. d <= e /\ d # e
    BY <1>4, <2>2, <2>3 DEF Unlike
  <2>5. c[n].day = d /\ c[m].day = e
    BY <1>11, <2>1, <2>3
  <2>. QED BY <2>4, <2>5
<1>15. ASSUME NEW row \in Q PROVE \E n \in 1 .. N : c[n].day = row.day
  <2>1. PICK i \in places : rows[i].day = row.day
    OBVIOUS
  <2>2. PICK n \in 1 .. N : at[n] = i
    BY <1>8
  <2>. QED BY <1>11, <2>1, <2>2
<1>16. \E K \in Nat : DOMAIN c = 1 .. K
  BY <1>7, <1>11
<1>17. Daily(c, Q)
  BY <1>11, <1>12, <1>13, <1>14, <1>15, <1>16, Zenon DEF Daily
<1>. QED BY <1>9, <1>17

\* What ClosesFrom gives for a provider and a symbol.
LEMMA ClosesAreDaily ==
    ASSUME NEW p \in Providers, NEW s \in HeatSymbols
    PROVE  Daily(ClosesFrom(p, s), Quoted(p, s))
<1>1. PICK rows : rows = RowsFrom[p][s]
  OBVIOUS
<1>2. rows \in Seq([of : STRING, day : Nat, close : Nat \cup {Unreadable}])
  BY <1>1, HeatmapAssumption
<1>3. PICK L \in Nat : L = Len(rows) /\ DOMAIN rows = 1 .. L
  BY <1>2
<1>4. ASSUME NEW i \in 1 .. L
      PROVE  rows[i].day \in Nat /\ rows[i].close \in Nat \cup {Unreadable}
  <2>1. PICK C : C = Nat \cup {Unreadable}
    OBVIOUS
  <2>2. rows[i] \in [of : STRING, day : Nat, close : C]
    <3>1. rows \in Seq([of : STRING, day : Nat, close : C])
      BY <1>2, <2>1
    <3>2. i \in 1 .. Len(rows)
      BY <1>3
    <3>. QED BY <3>1, <3>2, ElementOfSeq
  <2>3. rows[i].day \in Nat /\ rows[i].close \in C
    BY <2>2
  <2>. QED BY <2>1, <2>3
<1>5. \A row : row \in ToSet(rows) <=> \E i \in 1 .. L : row = rows[i]
  BY <1>3 DEF ToSet
<1>6. PICK Q : Q = Quoted(p, s)
  OBVIOUS
<1>7. \A row : row \in Q <=>
         /\ row \in ToSet(rows) /\ row.close # Unreadable
         /\ p = "DATA_GO_KR" => row.of = s
  BY <1>1, <1>6 DEF Quoted
<1>8. CASE p = "DATA_GO_KR"
  <2>1. PICK mine : mine = Readable(rows, s)
    OBVIOUS
  <2>2. \A i : i \in mine <=> i \in 1 .. L /\ rows[i].of = s /\ rows[i].close # Unreadable
    BY <1>3, <2>1 DEF Readable
  <2>3. PICK places : places = {i \in mine : \A j \in mine : rows[j].day = rows[i].day => j <= i}
    OBVIOUS
  <2>4. \A i : i \in places <=>
           i \in mine /\ \A j \in mine : rows[j].day = rows[i].day => j <= i
    BY <2>3
  <2>5. places \in SUBSET (1 .. L)
    BY <2>2, <2>4
  <2>6. Unlike(rows, places)
    BY <2>2, <2>4 DEF Unlike
  <2>7. \A i \in places : rows[i].day \in Nat /\ rows[i].close \in Nat
    BY <1>4, <2>2, <2>4
  <2>8. \A i \in places : rows[i] \in Q
    BY <1>5, <1>7, <2>2, <2>4
  <2>9. ASSUME NEW row \in Q PROVE \E i \in places : rows[i].day = row.day
    <3>1. PICK i \in 1 .. L : row = rows[i]
      BY <1>5, <1>7
    <3>2. PICK same : same = {j \in mine : rows[j].day = row.day}
      OBVIOUS
    <3>3. \A j : j \in same <=> j \in mine /\ rows[j].day = row.day
      BY <3>2
    <3>4. i \in same
      BY <1>7, <1>8, <2>2, <3>1, <3>3
    <3>5. same \in SUBSET (1 .. L) /\ same \in SUBSET Nat
      BY <2>2, <3>3
    <3>6. IsFiniteSet(1 .. L)
      BY FS_Interval
    <3>7. IsFiniteSet(same)
      BY <3>5, <3>6, FS_Subset
    <3>8. PICK m \in same : \A j \in same : j <= m
      BY <3>4, <3>5, <3>7, Latest
    <3>9. m \in places /\ rows[m].day = row.day
      BY <2>4, <3>3, <3>8
    <3>. QED BY <3>9
  <2>10. Daily(ByDay(rows, places), Q)
    BY <1>3, <2>5, <2>6, <2>7, <2>8, <2>9, ByDayIsDaily
  <2>11. ClosesFrom(p, s) = ByDay(rows, places)
    BY <1>1, <1>8, <2>1, <2>3, Zenon DEF ClosesFrom, DataGoKrCloses
  <2>. QED BY <1>6, <2>10, <2>11
<1>9. CASE p # "DATA_GO_KR"
  <2>1. p = "TWELVE_DATA"
    BY <1>9 DEF Providers
  <2>2. PICK places : places = {i \in DOMAIN rows : rows[i].close # Unreadable}
    OBVIOUS
  <2>3. \A i : i \in places <=> i \in 1 .. L /\ rows[i].close # Unreadable
    BY <1>3, <2>2
  <2>4. places \in SUBSET (1 .. L)
    BY <2>3
  <2>5. \A i, j \in 1 .. L : rows[i].day = rows[j].day => i = j
    BY <1>1, <1>3, <2>1, HeatmapAssumption
  <2>6. Unlike(rows, places)
    BY <2>3, <2>5 DEF Unlike
  <2>7. \A i \in places : rows[i].day \in Nat /\ rows[i].close \in Nat
    BY <1>4, <2>3
  <2>8. \A i \in places : rows[i] \in Q
    BY <1>5, <1>7, <1>9, <2>3
  <2>9. \A row \in Q : \E i \in places : rows[i].day = row.day
    BY <1>5, <1>7, <2>3
  <2>10. Daily(ByDay(rows, places), Q)
    BY <1>3, <2>4, <2>6, <2>7, <2>8, <2>9, ByDayIsDaily
  <2>11. ClosesFrom(p, s) = ByDay(rows, places)
    BY <1>1, <1>9, <2>2, Zenon DEF ClosesFrom, TwelveDataCloses
  <2>. QED BY <1>6, <2>10, <2>11
<1>. QED BY <1>8, <1>9

\* A positive change makes a positive bucket, and none one of half a percent.
LEMMA BucketIsTrue ==
    ASSUME NEW from \in Nat, NEW to \in Nat, from > 0
    PROVE  /\ Bucket(from, to) \in -2 .. 2
           /\ Bucket(from, to) > 0 => to - from > 0
           /\ Bucket(from, to) < 0 => to - from < 0
           /\ Bucket(from, to) = 0 =>
                 200 * (to - from) < from /\ -200 * (to - from) < from
<1>1. PICK change \in Int : change = 1000 * (to - from)
  OBVIOUS
<1>2. PICK b : b = Bucket(from, to)
  OBVIOUS
<1>4. \/ b = 2 /\ change >= 20 * from
      \/ b = 1 /\ change >= 5 * from
      \/ b = -2 /\ change <= -20 * from
      \/ b = -1 /\ change <= -5 * from
      \/ b = 0 /\ change < 5 * from /\ change > -5 * from
  BY <1>1, <1>2 DEF Bucket
<1>5. b \in -2 .. 2
  BY <1>4
<1>6. b > 0 => to - from > 0
  BY <1>1, <1>4
<1>7. b < 0 => to - from < 0
  BY <1>1, <1>4
<1>8. b = 0 => 200 * (to - from) < from /\ -200 * (to - from) < from
  BY <1>1, <1>4
<1>. QED BY <1>2, <1>5, <1>6, <1>7, <1>8

\* Days that rise, each with the colour of its change.
Coloured(s, Q) ==
    /\ \A n \in DOMAIN s : s[n].day \in Nat /\ s[n].bucket \in -2 .. 2 /\ TrueColour(Q, s[n])
    /\ \A n, m \in DOMAIN s : n < m => s[n].day < s[m].day

LEMMA ReturnsAreTrue ==
    ASSUME NEW c, NEW Q, \A row \in Q : row.day \in Nat, Daily(c, Q)
    PROVE  /\ \E K \in Nat : DOMAIN Returns(c) = 1 .. K
           /\ Returns(c) \in Seq([day : Nat, bucket : -2 .. 2])
           /\ Coloured(Returns(c), Q)
<1>1. PICK N \in Nat : DOMAIN c = 1 .. N
  BY Zenon DEF Daily
<1>2. /\ \A n \in 1 .. N : c[n].day \in Nat /\ c[n].close \in Nat
      /\ \A n \in 1 .. N : \E row \in Q : row.day = c[n].day /\ row.close = c[n].close
      /\ \A n, m \in 1 .. N : n < m => c[n].day < c[m].day
      /\ \A row \in Q : \E n \in 1 .. N : c[n].day = row.day
  BY <1>1 DEF Daily
<1>3. Len(c) = N
  BY <1>1
<1>4. PICK I : I = {i \in 2 .. Len(c) : c[i - 1].close > 0}
  OBVIOUS
<1>5. \A i : i \in I <=> i \in 2 .. N /\ c[i - 1].close > 0
  BY <1>3, <1>4
<1>6. I \in SUBSET (1 .. N) /\ I \in SUBSET Nat
  BY <1>5
<1>7. IsFiniteSet(I)
  <2>1. IsFiniteSet(1 .. N)
    BY FS_Interval
  <2>. QED BY <1>6, <2>1, FS_Subset
<1>8. PICK days, K : days = Rising(I) /\ K = Cardinality(I)
  OBVIOUS
<1>9. /\ K \in Nat /\ DOMAIN days = 1 .. K
      /\ \A n \in 1 .. K : days[n] \in I
      /\ \A n, m \in 1 .. K : n < m => days[n] < days[m]
  BY <1>6, <1>7, <1>8, ListsRising
<1>10. PICK s : s = Returns(c)
  OBVIOUS
<1>11. s = [n \in DOMAIN days |-> [day |-> c[days[n]].day,
           bucket |-> Bucket(c[days[n] - 1].close, c[days[n]].close)]]
  BY <1>4, <1>8, <1>10, Zenon DEF Returns
<1>12. ASSUME NEW n \in 1 .. K
       PROVE  /\ s[n].day \in Nat /\ s[n].bucket \in -2 .. 2 /\ TrueColour(Q, s[n])
              /\ s[n] = [day |-> s[n].day, bucket |-> s[n].bucket]
  <2>1. PICK i \in I : i = days[n]
    BY <1>9
  <2>2. i \in 1 .. N /\ i - 1 \in 1 .. N /\ i - 1 < i /\ i \in Nat
    BY <1>5
  <2>3. PICK h \in 1 .. N : h = i - 1
    BY <2>2
  <2>4. PICK x \in Nat, y \in Nat : x = c[h].close /\ y = c[i].close /\ x > 0
    BY <1>2, <1>5, <2>2, <2>3
  <2>5. s[n] = [day |-> c[i].day, bucket |-> Bucket(x, y)]
    BY <1>9, <1>11, <2>1, <2>3, <2>4
  <2>6. PICK b : b = Bucket(x, y)
    OBVIOUS
  <2>7. /\ b \in -2 .. 2
        /\ b > 0 => y - x > 0
        /\ b < 0 => y - x < 0
        /\ b = 0 => 200 * (y - x) < x /\ -200 * (y - x) < x
    BY <2>4, <2>6, BucketIsTrue
  <2>8. s[n].day = c[i].day /\ s[n].bucket = b
    BY <2>5, <2>6
  <2>9. PICK to \in Q, from \in Q : /\ to.day = c[i].day /\ to.close = y
                                    /\ from.day = c[h].day /\ from.close = x
    BY <1>2, <2>2, <2>3, <2>4
  <2>10. to \in {row \in Q : row.day = s[n].day}
    BY <2>8, <2>9
  <2>11. from.day < to.day
    BY <1>2, <2>2, <2>3, <2>9
  <2>12. ASSUME NEW row \in Q PROVE row.day <= from.day \/ row.day >= to.day
    <3>1. PICK m \in 1 .. N : c[m].day = row.day
      BY <1>2
    <3>2. PICK d \in Nat, e \in Nat, f \in Nat : d = c[m].day /\ e = c[h].day /\ f = c[i].day
      BY <1>2, <2>2
    <3>3. m < h \/ m = h \/ m = i \/ i < m
      BY <2>2, <2>3
    <3>4. d < e \/ d = e \/ d = f \/ f < d
      <4>1. CASE m < h
        BY <1>2, <3>2, <4>1
      <4>2. CASE m = h
        BY <3>2, <4>2
      <4>3. CASE m = i
        BY <3>2, <4>3
      <4>4. CASE i < m
        BY <1>2, <2>2, <3>2, <4>4
      <4>. QED BY <3>3, <4>1, <4>2, <4>3, <4>4
    <3>5. d <= e \/ d >= f
      BY <3>4
    <3>. QED BY <2>9, <3>1, <3>2, <3>5
  <2>13. PICK change : change = to.close - from.close
    OBVIOUS
  <2>14. change = y - x
    BY <2>9, <2>13
  <2>15. /\ s[n].bucket > 0 => change > 0
         /\ s[n].bucket < 0 => change < 0
         /\ s[n].bucket = 0 => 200 * change < from.close /\ -200 * change < from.close
    BY <2>7, <2>8, <2>9, <2>14
  <2>16. TrueColour(Q, s[n])
    BY <2>10, <2>11, <2>12, <2>13, <2>15, ZenonT(60) DEF TrueColour
  <2>. QED BY <1>2, <2>2, <2>5, <2>6, <2>7, <2>8, <2>16
<1>13. DOMAIN s = 1 .. K
  BY <1>9, <1>11
<1>14. ASSUME NEW n \in 1 .. K, NEW m \in 1 .. K, n < m PROVE s[n].day < s[m].day
  <2>1. PICK i \in I, j \in I : i = days[n] /\ j = days[m]
    BY <1>9
  <2>2. i \in 1 .. N /\ j \in 1 .. N /\ i < j
    BY <1>6, <1>9, <1>14, <2>1
  <2>3. s[n].day = c[i].day /\ s[m].day = c[j].day
    BY <1>9, <1>11, <2>1
  <2>. QED BY <1>2, <2>2, <2>3
<1>15. Coloured(s, Q)
  BY <1>12, <1>13, <1>14, Zenon DEF Coloured
<1>16. s \in Seq([day : Nat, bucket : -2 .. 2])
  <2>1. PICK E : E = [day : Nat, bucket : -2 .. 2]
    OBVIOUS
  <2>2. ASSUME NEW n \in 1 .. K PROVE s[n] \in E
    <3>1. PICK d \in Nat, b \in -2 .. 2 : s[n] = [day |-> d, bucket |-> b]
      BY <1>12
    <3>. QED BY <2>1, <3>1
  <2>3. s = [n \in 1 .. K |-> s[n]]
    BY <1>11, <1>13
  <2>4. s \in Seq(E)
    BY <1>9, <2>2, <2>3
  <2>. QED BY <2>1, <2>4
<1>. QED BY <1>9, <1>10, <1>13, <1>15, <1>16

\* The last days keep their order and their colours.
LEMMA SeriesAreTrue ==
    ASSUME NEW c, NEW Q, \A row \in Q : row.day \in Nat, Daily(c, Q)
    PROVE  /\ \E K \in 0 .. MaxDays : DOMAIN SeriesFromCloses(c) = 1 .. K
           /\ SeriesFromCloses(c) \in Seq([day : Nat, bucket : -2 .. 2])
           /\ Coloured(SeriesFromCloses(c), Q)
<1>1. PICK all : all = Returns(c)
  OBVIOUS
<1>2. PICK E : E = [day : Nat, bucket : -2 .. 2]
  OBVIOUS
<1>3. all \in Seq(E) /\ Coloured(all, Q)
  BY <1>1, <1>2, ReturnsAreTrue
<1>4. PICK n \in Nat : n = Len(all)
  BY <1>3
<1>5. DOMAIN all = 1 .. n
  BY <1>3, <1>4
<1>6. \A k \in 1 .. n : all[k].day \in Nat /\ all[k].bucket \in -2 .. 2 /\ TrueColour(Q, all[k])
  BY <1>3, <1>5, Zenon DEF Coloured
<1>7. \A k, m \in 1 .. n : k < m => all[k].day < all[m].day
  BY <1>3, <1>5, Zenon DEF Coloured
<1>8. PICK M \in Nat \ {0} : M = MaxDays
  BY HeatmapAssumption
<1>9. PICK s : s = SeriesFromCloses(c)
  OBVIOUS
<1>10. s = IF n > M THEN SubSeq(all, n - M + 1, n) ELSE all
  BY <1>1, <1>4, <1>8, <1>9, Zenon DEF SeriesFromCloses
<1>11. CASE n > M
  <2>1. PICK f \in 1 .. n : f = n - M + 1
    BY <1>8, <1>11
  <2>2. s = SubSeq(all, f, n)
    BY <1>10, <1>11, <2>1
  <2>3. s \in Seq(E) /\ Len(s) = M
    BY <1>3, <1>4, <1>8, <2>1, <2>2, SubSeqProperties
  <2>4. DOMAIN s = 1 .. M
    BY <2>3
  <2>5. ASSUME NEW k \in 1 .. M PROVE k + (n - M) \in 1 .. n /\ s[k] = all[k + (n - M)]
    <3>1. k + (n - M) \in 1 .. n
      BY <1>8, <1>11
    <3>2. s[k] = all[f + k - 1]
      BY <1>3, <1>4, <2>1, <2>2, <2>3, SubSeqProperties
    <3>3. f + k - 1 = k + (n - M)
      BY <1>8, <2>1
    <3>. QED BY <3>1, <3>2, <3>3
  <2>6. \A k \in 1 .. M : s[k].day \in Nat /\ s[k].bucket \in -2 .. 2 /\ TrueColour(Q, s[k])
    BY <1>6, <2>5
  <2>7. ASSUME NEW k \in 1 .. M, NEW m \in 1 .. M, k < m PROVE s[k].day < s[m].day
    <3>1. PICK i \in 1 .. n, j \in 1 .. n : i = k + (n - M) /\ j = m + (n - M)
      BY <2>5
    <3>2. i < j
      BY <1>8, <2>7, <3>1
    <3>3. s[k] = all[i] /\ s[m] = all[j]
      BY <2>5, <3>1
    <3>. QED BY <1>7, <3>2, <3>3
  <2>8. Coloured(s, Q)
    BY <2>4, <2>6, <2>7, Zenon DEF Coloured
  <2>9. M \in 0 .. MaxDays
    BY <1>8
  <2>. QED BY <1>2, <1>9, <2>3, <2>4, <2>8, <2>9
<1>12. CASE ~(n > M)
  <2>1. s = all
    BY <1>10, <1>12
  <2>2. n \in 0 .. MaxDays
    BY <1>8, <1>12
  <2>. QED BY <1>2, <1>3, <1>5, <1>9, <2>1, <2>2
<1>. QED BY <1>11, <1>12

\* No closes, no days.
LEMMA NoCloses ==
    SeriesFromCloses(<<>>) = <<>>
<1>1. PICK I : I = {i \in 2 .. Len(<<>>) : <<>>[i - 1].close > 0}
  OBVIOUS
<1>2. I = {}
  BY <1>1
<1>3. PICK days : days = Rising(I)
  OBVIOUS
<1>4. DOMAIN days = 1 .. 0
  <2>1. Cardinality(I) = 0 /\ IsFiniteSet(I) /\ I \in SUBSET Nat
    BY <1>2, FS_EmptySet
  <2>. QED BY <1>3, <2>1, ListsRising
<1>5. PICK s : s = Returns(<<>>)
  OBVIOUS
<1>6. s = [n \in DOMAIN days |-> [day |-> <<>>[days[n]].day,
             bucket |-> Bucket(<<>>[days[n] - 1].close, <<>>[days[n]].close)]]
  BY <1>1, <1>3, <1>5, Zenon DEF Returns
<1>7. s = <<>>
  BY <1>4, <1>6
<1>8. PICK M \in Nat : M = MaxDays
  BY HeatmapAssumption
<1>9. PICK n : n = Len(s)
  OBVIOUS
<1>10. n = 0
  BY <1>7, <1>9
<1>11. SeriesFromCloses(<<>>) = IF n > M THEN SubSeq(s, n - M + 1, n) ELSE s
  BY <1>5, <1>8, <1>9, Zenon DEF SeriesFromCloses
<1>12. ~(n > M)
  BY <1>8, <1>10
<1>. QED BY <1>7, <1>11, <1>12

\* Every day is up, down or flat.
LEMMA SummariesCount ==
    ASSUME NEW K \in Nat, NEW s, DOMAIN s = 1 .. K,
           \A n \in 1 .. K : s[n].bucket \in -2 .. 2
    PROVE  Summarize(s).up + Summarize(s).down + Summarize(s).flat = K
<1>1. PICK U, D, F : /\ U = {n \in DOMAIN s : s[n].bucket > 0}
                     /\ D = {n \in DOMAIN s : s[n].bucket < 0}
                     /\ F = {n \in DOMAIN s : s[n].bucket = 0}
  OBVIOUS
<1>2. Summarize(s) = [up |-> Cardinality(U), down |-> Cardinality(D), flat |-> Cardinality(F)]
  BY <1>1 DEF Summarize
<1>3. \A n : /\ n \in U <=> n \in 1 .. K /\ s[n].bucket > 0
             /\ n \in D <=> n \in 1 .. K /\ s[n].bucket < 0
             /\ n \in F <=> n \in 1 .. K /\ s[n].bucket = 0
  BY <1>1
<1>4. PICK I : I = 1 .. K
  OBVIOUS
<1>5. IsFiniteSet(I) /\ Cardinality(I) = K
  BY <1>4, FS_Interval
<1>6. U \in SUBSET I /\ D \in SUBSET I /\ F \in SUBSET I
  BY <1>3, <1>4
<1>7. IsFiniteSet(U) /\ IsFiniteSet(D) /\ IsFiniteSet(F)
  BY <1>5, <1>6, FS_Subset
<1>8. PICK V : V = U \cup D
  OBVIOUS
<1>9. U \cap D = {} /\ V \cap F = {}
  BY <1>3, <1>8
<1>10. V \cup F = I
  BY <1>3, <1>4, <1>6, <1>8
<1>11. Cardinality(V) = Cardinality(U) + Cardinality(D) /\ IsFiniteSet(V)
  <2>1. IsFiniteSet(U \cup D)
    BY <1>7, FS_Union
  <2>2. Cardinality(U \cup D) = Cardinality(U) + Cardinality(D) - Cardinality(U \cap D)
    BY <1>7, FS_Union
  <2>3. Cardinality(U \cap D) = 0
    BY <1>9, FS_EmptySet
  <2>4. Cardinality(U) \in Nat /\ Cardinality(D) \in Nat
    BY <1>7, FS_CardinalityType
  <2>. QED BY <1>8, <2>1, <2>2, <2>3, <2>4
<1>12. K = Cardinality(V) + Cardinality(F)
  <2>1. Cardinality(V \cup F) = Cardinality(V) + Cardinality(F) - Cardinality(V \cap F)
    BY <1>7, <1>11, FS_Union
  <2>2. Cardinality(V \cap F) = 0
    BY <1>9, FS_EmptySet
  <2>3. Cardinality(V) \in Nat /\ Cardinality(F) \in Nat
    BY <1>7, <1>11, FS_CardinalityType
  <2>4. Cardinality(V \cup F) = K
    BY <1>5, <1>10, Zenon
  <2>. QED BY <2>1, <2>2, <2>3, <2>4
<1>. QED BY <1>2, <1>11, <1>12

\* The provider for symbols of a kind.
ProviderOf(s) == IF s \in SixDigits THEN "DATA_GO_KR" ELSE "TWELVE_DATA"

\* What HeatmapIsTrue says of an item.
ItemIsTrue(i) ==
    LET quoted == Quoted(ProviderOf(i.symbol), i.symbol)
    IN  /\ Provider(i.market) = ProviderOf(i.symbol)
        /\ Len(i.series) \in 1 .. MaxDays
        /\ i.summary.up + i.summary.down + i.summary.flat = Len(i.series)
        /\ \A n \in DOMAIN i.series : TrueColour(quoted, i.series[n])
        /\ \A n \in 2 .. Len(i.series) : i.series[n - 1].day < i.series[n].day
        /\ i.age < 2 * Life

LEMMA QuotedDays ==
    ASSUME NEW p \in Providers, NEW s \in HeatSymbols
    PROVE  \A row \in Quoted(p, s) : row.day \in Nat
<1>1. PICK C : C = Nat \cup {Unreadable}
  OBVIOUS
<1>2. PICK rows : rows = RowsFrom[p][s]
  OBVIOUS
<1>3. rows \in Seq([of : STRING, day : Nat, close : C])
  BY <1>1, <1>2, HeatmapAssumption
<1>4. ASSUME NEW row \in Quoted(p, s) PROVE row.day \in Nat
  <2>1. PICK n \in DOMAIN rows : row = rows[n]
    BY <1>2 DEF Quoted, ToSet
  <2>2. n \in 1 .. Len(rows)
    BY <1>3
  <2>3. rows[n] \in [of : STRING, day : Nat, close : C]
    BY <1>3, <2>2, ElementOfSeq
  <2>. QED BY <2>1, <2>3
<1>. QED BY <1>4

LEMMA ItemsAreTrue ==
    ASSUME NEW s \in HeatSymbols, NEW market, Provider(market) = ProviderOf(s),
           NEW age, age < 2 * Life, NEW series, series = SeriesFromCloses(ClosesFrom(Provider(market), s)),
           series # <<>>,
           NEW i, i = [symbol |-> s, market |-> market, series |-> series,
                       summary |-> Summarize(series), age |-> age]
    PROVE  ItemIsTrue(i)
<1>1. PICK p \in Providers : p = Provider(market)
  BY DEF ProviderOf, Providers
<1>2. PICK Q, c : Q = Quoted(p, s) /\ c = ClosesFrom(p, s)
  OBVIOUS
<1>3. Daily(c, Q)
  BY <1>2, ClosesAreDaily
<1>4. \A row \in Q : row.day \in Nat
  BY <1>2, QuotedDays
<1>5. /\ \E k \in 0 .. MaxDays : DOMAIN series = 1 .. k
      /\ series \in Seq([day : Nat, bucket : -2 .. 2])
      /\ Coloured(series, Q)
  BY <1>1, <1>2, <1>3, <1>4, SeriesAreTrue
<1>6. PICK K \in 0 .. MaxDays : DOMAIN series = 1 .. K
  BY <1>5
<1>7. MaxDays \in Nat
  BY HeatmapAssumption
<1>8. Len(series) = K /\ K # 0
  BY <1>5, <1>6, <1>7
<1>9. K \in 1 .. MaxDays /\ K \in Nat
  BY <1>6, <1>7, <1>8
<1>10. /\ \A n \in 1 .. K : series[n].bucket \in -2 .. 2 /\ TrueColour(Q, series[n])
       /\ \A n, m \in 1 .. K : n < m => series[n].day < series[m].day
  BY <1>5, <1>6, Zenon DEF Coloured
<1>11. PICK sum : sum = Summarize(series)
  OBVIOUS
<1>12. sum.up + sum.down + sum.flat = K
  BY <1>6, <1>9, <1>10, <1>11, SummariesCount
<1>13. ASSUME NEW n \in 2 .. K PROVE series[n - 1].day < series[n].day
  <2>1. n \in 1 .. K /\ n - 1 \in 1 .. K /\ n - 1 < n
    BY <1>9
  <2>. QED BY <1>10, <2>1
<1>14. /\ i.symbol = s /\ i.market = market /\ i.series = series /\ i.summary = sum
       /\ i.age = age
  BY <1>11
<1>15. Quoted(ProviderOf(i.symbol), i.symbol) = Q /\ Provider(i.market) = ProviderOf(i.symbol)
  BY <1>1, <1>2, <1>14
<1>16. Len(i.series) \in 1 .. MaxDays
  BY <1>8, <1>9, <1>14
<1>17. i.summary.up + i.summary.down + i.summary.flat = Len(i.series)
  BY <1>8, <1>12, <1>14
<1>18. \A n \in DOMAIN i.series : TrueColour(Quoted(ProviderOf(i.symbol), i.symbol), i.series[n])
  BY <1>6, <1>10, <1>14, <1>15
<1>19. \A n \in 2 .. Len(i.series) : i.series[n - 1].day < i.series[n].day
  BY <1>8, <1>13, <1>14
<1>20. i.age < 2 * Life
  BY <1>14
<1>. QED BY <1>15, <1>16, <1>17, <1>18, <1>19, <1>20, Zenon DEF ItemIsTrue

(***************************************************************************)
(* Heatmap: a request on its way has settled some of the symbols, and each *)
(* that is left is asked for once.                                         *)
(***************************************************************************)

\* What the table tells of a symbol's market: only of one of six digits that it is
\* a Korean one.
MarketsKnown(table) ==
    \A s \in HeatSymbols :
       \/ table[s] \in {Unlisted, NoMarket}
       \/ s \in SixDigits /\ table[s] \in Korean

Shown(r) == {i.symbol : i \in r.items}
Wanted(r) == {r.asked[n] : n \in DOMAIN r.asked}
Left(r) == {r.todo[n] : n \in DOMAIN r.todo}

Answering(r) ==
    /\ DOMAIN r = {"phase", "asked", "todo", "table", "items", "errors"}
    /\ r.phase \in {"cache", "delete", "redis", "fetch", "answered"}
    /\ r.todo \in Seq(HeatSymbols)
    /\ r.todo = <<>> <=> r.phase = "answered"
    /\ \A m, n \in DOMAIN r.todo : r.todo[m] = r.todo[n] => m = n
    /\ (Shown(r) \cup r.errors) \cup Left(r) = Wanted(r)
    /\ Shown(r) \cap r.errors = {}
    /\ (Shown(r) \cup r.errors) \cap Left(r) = {}
    /\ IsFiniteSet(r.items)
    /\ \A i, j \in r.items : i.symbol = j.symbol => i = j
    /\ \A i \in r.items : ItemIsTrue(i)
    /\ MarketsKnown(r.table)

\* An entry of a cache: what the provider of its key answers for its symbol, and
\* while it lives it will not get older than a number of ticks.
IsEntry(e, k, limit) ==
    /\ DOMAIN e = {"closes", "age", "left"}
    /\ e.closes = ClosesFrom(k.provider, k.symbol)
    /\ e.age \in Nat /\ e.left \in Nat
    /\ e.left > 0 => e.age + e.left <= limit
Cached(store) == \A k \in DOMAIN store : IsEntry(store[k], k, 2 * Life - 1)
Kept(store) == \A k \in DOMAIN store : IsEntry(store[k], k, Life) /\ store[k].left > 0

\* The market of each request's table is one the synchronisation can have
\* written, and the caches hold such entries.
HeatmapInv ==
    /\ DOMAIN heatRequest = Threads
    /\ \A t \in Threads : heatRequest[t].phase = "idle" \/ Answering(heatRequest[t])
    /\ MarketsKnown(stocks)
    /\ Cached(cache) /\ Kept(remote)

\* A request that goes on to another step of the loop.
LEMMA GoneTo ==
    ASSUME NEW r, Answering(r), r.phase # "answered",
           NEW p \in {"cache", "delete", "redis", "fetch"}
    PROVE  Answering([r EXCEPT !.phase = p])
<1>1. PICK q : q = [r EXCEPT !.phase = p]
  OBVIOUS
<1>2. DOMAIN r = {"phase", "asked", "todo", "table", "items", "errors"}
  BY DEF Answering
<1>3. /\ DOMAIN q = {"phase", "asked", "todo", "table", "items", "errors"}
      /\ q.phase = p /\ q.asked = r.asked /\ q.todo = r.todo
      /\ q.items = r.items /\ q.errors = r.errors /\ q.table = r.table
  BY <1>1, <1>2
<1>4. Shown(q) = Shown(r) /\ Wanted(q) = Wanted(r) /\ Left(q) = Left(r)
  BY <1>3 DEF Shown, Wanted, Left
<1>5. q.phase \in {"cache", "delete", "redis", "fetch", "answered"}
  BY <1>3
<1>6. q.todo = <<>> <=> q.phase = "answered"
  BY <1>3 DEF Answering
<1>7. Answering(q)
  BY <1>3, <1>4, <1>5, <1>6, Zenon DEF Answering
<1>. QED BY <1>1, <1>7

\* The first of a list without repetitions, and the others.
Parted(todo, first, rest, S) ==
    /\ first \in S /\ rest \in Seq(S)
    /\ rest = <<>> <=> Len(todo) = 1
    /\ \A m, n \in DOMAIN rest : rest[m] = rest[n] => m = n
    /\ {todo[n] : n \in DOMAIN todo} = {first} \cup {rest[n] : n \in DOMAIN rest}
    /\ first \notin {rest[n] : n \in DOMAIN rest}

LEMMA OneLess ==
    ASSUME NEW S, NEW todo \in Seq(S), todo # <<>>,
           \A m, n \in DOMAIN todo : todo[m] = todo[n] => m = n
    PROVE  Parted(todo, Head(todo), Tail(todo), S)
<1>0. PICK rest : rest = Tail(todo)
  OBVIOUS
<1>1. PICK L \in Nat : L = Len(todo)
  OBVIOUS
<1>2. L >= 1 /\ DOMAIN todo = 1 .. L /\ L - 1 \in Nat
  BY <1>1
<1>3. rest \in Seq(S) /\ Len(rest) = L - 1 /\ DOMAIN rest = 1 .. L - 1
  BY <1>0, <1>1, <1>2
<1>4. \A n \in 1 .. L - 1 : n + 1 \in 1 .. L /\ rest[n] = todo[n + 1]
  BY <1>0, <1>1, <1>2
<1>5. Head(todo) = todo[1] /\ 1 \in 1 .. L
  BY <1>2
<1>6. Head(todo) \in S
  BY <1>2, <1>5
<1>7. rest = <<>> <=> Len(todo) = 1
  BY <1>1, <1>2, <1>3
<1>8. ASSUME NEW m \in 1 .. L - 1, NEW n \in 1 .. L - 1, rest[m] = rest[n] PROVE m = n
  <2>1. m + 1 = n + 1
    BY <1>2, <1>4, <1>8
  <2>. QED BY <2>1
<1>9. ASSUME NEW n \in 1 .. L PROVE todo[n] \in {Head(todo)} \cup {rest[k] : k \in DOMAIN rest}
  <2>1. CASE n = 1
    BY <1>5, <2>1
  <2>2. CASE n # 1
    <3>1. PICK k \in 1 .. L - 1 : k + 1 = n
      BY <1>2, <2>2
    <3>2. rest[k] = todo[n]
      BY <1>4, <3>1
    <3>. QED BY <1>3, <3>2
  <2>. QED BY <2>1, <2>2
<1>10. ASSUME NEW x \in {Head(todo)} \cup {rest[k] : k \in DOMAIN rest}
       PROVE  x \in {todo[n] : n \in DOMAIN todo}
  <2>1. CASE x = Head(todo)
    BY <1>2, <1>5, <2>1
  <2>2. CASE x # Head(todo)
    <3>1. PICK k \in 1 .. L - 1 : x = rest[k]
      BY <1>3, <1>10, <2>2
    <3>2. k + 1 \in 1 .. L /\ x = todo[k + 1]
      BY <1>4, <3>1
    <3>. QED BY <1>2, <3>2
  <2>. QED BY <2>1, <2>2
<1>11. {todo[n] : n \in DOMAIN todo} = {Head(todo)} \cup {rest[n] : n \in DOMAIN rest}
  <2>1. ASSUME NEW x \in {todo[n] : n \in DOMAIN todo}
        PROVE  x \in {Head(todo)} \cup {rest[k] : k \in DOMAIN rest}
    <3>1. PICK n \in 1 .. L : x = todo[n]
      BY <1>2, <2>1
    <3>. QED BY <1>9, <3>1, Zenon
  <2>. QED BY <1>10, <2>1
<1>12. Head(todo) \notin {rest[n] : n \in DOMAIN rest}
  <2>1. ASSUME NEW n \in 1 .. L - 1, rest[n] = todo[1] PROVE FALSE
    <3>1. n + 1 = 1
      BY <1>2, <1>4, <1>5, <2>1
    <3>. QED BY <3>1
  <2>. QED BY <1>3, <1>5, <2>1
<1>13. \A m, n \in DOMAIN rest : rest[m] = rest[n] => m = n
  BY <1>3, <1>8
<1>14. PICK first : first = Head(todo)
  OBVIOUS
<1>15. first \in S /\ first \notin {rest[n] : n \in DOMAIN rest}
  BY <1>6, <1>12, <1>14
<1>16. {todo[n] : n \in DOMAIN todo} = {first} \cup {rest[n] : n \in DOMAIN rest}
  BY <1>11, <1>14, Zenon
<1>17. rest \in Seq(S)
  BY <1>3
<1>18. Parted(todo, first, rest, S)
  BY <1>7, <1>13, <1>15, <1>16, <1>17, Zenon DEF Parted
<1>. QED BY <1>0, <1>14, <1>18, Zenon

\* By whatever the table tells, the provider for its kind is asked for a symbol.
LEMMA RightProvider ==
    ASSUME NEW t, SymbolInHand(t) \in HeatSymbols, MarketsKnown(heatRequest[t].table)
    PROVE  Provider(Market(t)) = ProviderOf(SymbolInHand(t))
<1>1. PICK s, m : s \in HeatSymbols /\ s = SymbolInHand(t) /\ m = heatRequest[t].table[s]
  OBVIOUS
<1>2. m \in {Unlisted, NoMarket} \/ (s \in SixDigits /\ m \in Korean)
  BY <1>1 DEF MarketsKnown
<1>3. NoMarket \notin Korean \cup American
  BY HeatmapAssumption
<1>4. Unlisted \notin Korean \cup American
  BY DEF Unlisted, Korean, American
<1>5. Market(t) = IF m \in Korean \cup American THEN m
                  ELSE IF s \in SixDigits THEN "KOSPI" ELSE "NASDAQ"
  BY <1>1, Zenon DEF Market, InferMarket
<1>6. CASE s \in SixDigits /\ m \in Korean
  <2>1. Market(t) \in Korean
    BY <1>5, <1>6
  <2>. QED BY <1>1, <1>6, <2>1 DEF Provider, ProviderOf
<1>7. CASE m \in {Unlisted, NoMarket}
  <2>1. Market(t) = IF s \in SixDigits THEN "KOSPI" ELSE "NASDAQ"
    BY <1>3, <1>4, <1>5, <1>7
  <2>2. "KOSPI" \in Korean /\ "NASDAQ" \notin Korean
    BY DEF Korean
  <2>. QED BY <1>1, <2>1, <2>2 DEF Provider, ProviderOf
<1>. QED BY <1>2, <1>6, <1>7

\* The loop's body settles the symbol in hand.
LEMMA SettlesOne ==
    ASSUME NEW t \in Threads, DOMAIN heatRequest = Threads,
           Answering(heatRequest[t]), ~InPhase(t, "answered"),
           NEW closes, closes = <<>> \/ closes = ClosesFrom(Provider(Market(t)), SymbolInHand(t)),
           NEW age, age < 2 * Life, SymbolSettled(t, closes, age)
    PROVE  /\ DOMAIN heatRequest' = Threads
           /\ Answering(heatRequest'[t])
           /\ \A u \in Threads : u # t => heatRequest'[u] = heatRequest[u]
<1>1. PICK r : r = heatRequest[t]
  OBVIOUS
<1>2. PICK s, market, series : s = SymbolInHand(t) /\ market = Market(t) /\ series = SeriesFromCloses(closes)
  OBVIOUS
<1>3. PICK i : i = [symbol |-> s, market |-> market, series |-> series,
                    summary |-> Summarize(series), age |-> age]
  OBVIOUS
<1>4. PICK rest : rest = [r EXCEPT !.todo = Tail(@),
                   !.phase = IF Len(r.todo) = 1 THEN "answered" ELSE "cache"]
  OBVIOUS
<1>5. PICK q : q = IF series = <<>> THEN [rest EXCEPT !.errors = @ \cup {s}]
                   ELSE [rest EXCEPT !.items = @ \cup {i}]
  OBVIOUS
<1>6. heatRequest' = [heatRequest EXCEPT ![t] = q]
  BY <1>1, <1>2, <1>3, <1>4, <1>5, Zenon DEF SymbolSettled
<1>7. /\ DOMAIN heatRequest' = Threads /\ heatRequest'[t] = q
      /\ \A u \in Threads : u # t => heatRequest'[u] = heatRequest[u]
  BY <1>6
<1>8. Answering(r) /\ r.phase # "answered" /\ s = Head(r.todo)
  BY <1>1, <1>2 DEF InPhase, SymbolInHand
<1>9. DOMAIN r = {"phase", "asked", "todo", "table", "items", "errors"}
  BY <1>8 DEF Answering
<1>10. /\ r.todo \in Seq(HeatSymbols) /\ r.todo # <<>>
       /\ \A m, n \in DOMAIN r.todo : r.todo[m] = r.todo[n] => m = n
  BY <1>8, Zenon DEF Answering
<1>11. PICK tail : tail = Tail(r.todo)
  OBVIOUS
<1>12. /\ s \in HeatSymbols /\ tail \in Seq(HeatSymbols)
       /\ tail = <<>> <=> Len(r.todo) = 1
       /\ \A m, n \in DOMAIN tail : tail[m] = tail[n] => m = n
       /\ Left(r) = {s} \cup {tail[n] : n \in DOMAIN tail}
       /\ s \notin {tail[n] : n \in DOMAIN tail}
  <2>1. PICK todo \in Seq(HeatSymbols) : todo = r.todo
    BY <1>10
  <2>2. /\ todo # <<>> /\ tail = Tail(todo) /\ s = Head(todo)
        /\ \A m, n \in DOMAIN todo : todo[m] = todo[n] => m = n
    BY <1>8, <1>10, <1>11, <2>1, Zenon
  <2>3. Parted(todo, s, tail, HeatSymbols)
    BY <2>2, OneLess
  <2>4. Left(r) = {todo[n] : n \in DOMAIN todo}
    BY <2>1, Zenon DEF Left
  <2>. QED BY <2>1, <2>3, <2>4, Zenon DEF Parted
<1>13. /\ (Shown(r) \cup r.errors) \cup Left(r) = Wanted(r)
       /\ Shown(r) \cap r.errors = {}
       /\ (Shown(r) \cup r.errors) \cap Left(r) = {}
  BY <1>8, Zenon DEF Answering
<1>14. /\ IsFiniteSet(r.items)
       /\ \A x, y \in r.items : x.symbol = y.symbol => x = y
       /\ \A x \in r.items : ItemIsTrue(x)
       /\ MarketsKnown(r.table)
  BY <1>8, Zenon DEF Answering
<1>15. PICK ph : ph = IF Len(r.todo) = 1 THEN "answered" ELSE "cache"
  OBVIOUS
<1>16. /\ DOMAIN rest = {"phase", "asked", "todo", "table", "items", "errors"}
       /\ rest.phase = ph /\ rest.asked = r.asked /\ rest.todo = tail
       /\ rest.items = r.items /\ rest.errors = r.errors /\ rest.table = r.table
  BY <1>4, <1>9, <1>11, <1>15
<1>17. ph \in {"cache", "delete", "redis", "fetch", "answered"} /\ (tail = <<>> <=> ph = "answered")
  BY <1>12, <1>15
<1>18. PICK left : left = {tail[n] : n \in DOMAIN tail}
  OBVIOUS
<1>19. CASE series = <<>>
  <2>1. q = [rest EXCEPT !.errors = @ \cup {s}]
    BY <1>5, <1>19
  <2>2. /\ DOMAIN q = {"phase", "asked", "todo", "table", "items", "errors"}
        /\ q.phase = ph /\ q.asked = r.asked /\ q.todo = tail
        /\ q.items = r.items /\ q.errors = r.errors \cup {s} /\ q.table = r.table
    BY <1>16, <2>1
  <2>3. Shown(q) = Shown(r) /\ Wanted(q) = Wanted(r) /\ Left(q) = left
    BY <1>18, <2>2 DEF Shown, Wanted, Left
  <2>4. (Shown(q) \cup q.errors) \cup Left(q) = Wanted(q)
    BY <1>12, <1>13, <1>18, <2>2, <2>3
  <2>5. Shown(q) \cap q.errors = {} /\ (Shown(q) \cup q.errors) \cap Left(q) = {}
    BY <1>12, <1>13, <1>18, <2>2, <2>3
  <2>6. Answering(q)
    BY <1>12, <1>14, <1>17, <2>2, <2>4, <2>5, Zenon DEF Answering
  <2>. QED BY <1>7, <2>6
<1>20. CASE series # <<>>
  <2>1. q = [rest EXCEPT !.items = @ \cup {i}]
    BY <1>5, <1>20
  <2>2. /\ DOMAIN q = {"phase", "asked", "todo", "table", "items", "errors"}
        /\ q.phase = ph /\ q.asked = r.asked /\ q.todo = tail
        /\ q.items = r.items \cup {i} /\ q.errors = r.errors /\ q.table = r.table
    BY <1>16, <2>1
  <2>3. i.symbol = s
    BY <1>3
  <2>4. Shown(q) = Shown(r) \cup {s}
    BY <2>2, <2>3 DEF Shown
  <2>5. Wanted(q) = Wanted(r) /\ Left(q) = left
    BY <1>18, <2>2 DEF Wanted, Left
  <2>6. (Shown(q) \cup q.errors) \cup Left(q) = Wanted(q)
    BY <1>12, <1>13, <1>18, <2>2, <2>4, <2>5
  <2>7. Shown(q) \cap q.errors = {} /\ (Shown(q) \cup q.errors) \cap Left(q) = {}
    BY <1>12, <1>13, <1>18, <2>2, <2>4, <2>5
  <2>8. IsFiniteSet(q.items)
    BY <1>14, <2>2, FS_AddElement
  <2>9. s \notin Shown(r)
    BY <1>12, <1>13
  <2>10. ASSUME NEW x \in q.items, NEW y \in q.items, x.symbol = y.symbol PROVE x = y
    <3>1. \A z \in r.items : z.symbol # s
      BY <2>9 DEF Shown
    <3>. QED BY <1>14, <2>2, <2>3, <2>10, <3>1
  <2>11. ItemIsTrue(i)
    <3>1. closes = ClosesFrom(Provider(market), s)
      <4>1. closes # <<>>
        BY <1>2, <1>20, NoCloses
      <4>. QED BY <1>2, <4>1
    <3>2. Provider(market) = ProviderOf(s)
      BY <1>1, <1>2, <1>12, <1>14, RightProvider
    <3>3. series = SeriesFromCloses(ClosesFrom(Provider(market), s))
      BY <1>2, <3>1
    <3>. QED BY <1>3, <1>12, <1>20, <3>2, <3>3, ItemsAreTrue
  <2>12. \A x \in q.items : ItemIsTrue(x)
    BY <1>14, <2>2, <2>11
  <2>13. Answering(q)
    BY <1>12, <1>14, <1>17, <2>2, <2>6, <2>7, <2>8, <2>10, <2>12, Zenon DEF Answering
  <2>. QED BY <1>7, <2>13
<1>. QED BY <1>19, <1>20

LEMMA CurrentIsKnown ==
    ASSUME NEW t \in Threads, Answering(heatRequest[t]), ~InPhase(t, "answered")
    PROVE  SymbolInHand(t) \in HeatSymbols
<1>1. PICK todo : todo = heatRequest[t].todo
  OBVIOUS
<1>2. todo \in Seq(HeatSymbols) /\ todo # <<>>
  BY <1>1, Zenon DEF Answering, InPhase
<1>3. Head(todo) \in HeatSymbols
  BY <1>2
<1>. QED BY <1>1, <1>3 DEF SymbolInHand

\* What lies under a key is what is fetched for the market and the symbol.
LEMMA KeysTell ==
    ASSUME NEW t \in Threads
    PROVE  /\ CurrentKey(t).provider = Provider(Market(t))
           /\ CurrentKey(t).symbol = SymbolInHand(t)
  BY DEF CurrentKey, CacheKey, Key

\* The request of t alone changes.
Others(t) == \A u \in Threads : u # t => heatRequest'[u] = heatRequest[u]

LEMMA OneRequest ==
    ASSUME HeatmapInv, NEW t \in Threads, DOMAIN heatRequest' = Threads,
           heatRequest'[t].phase = "idle" \/ Answering(heatRequest'[t]), Others(t)
    PROVE  \A u \in Threads : heatRequest'[u].phase = "idle" \/ Answering(heatRequest'[u])
<1>1. ASSUME NEW u \in Threads PROVE heatRequest'[u].phase = "idle" \/ Answering(heatRequest'[u])
  <2>1. CASE u = t
    BY <2>1
  <2>2. CASE u # t
    <3>1. heatRequest'[u] = heatRequest[u]
      BY <2>2 DEF Others
    <3>2. heatRequest[u].phase = "idle" \/ Answering(heatRequest[u])
      BY DEF HeatmapInv
    <3>. QED BY <3>1, <3>2
  <2>. QED BY <2>1, <2>2
<1>. QED BY <1>1

\* What is read from the provider or from Redis is written to the cache.
LEMMA CacheSetKeeps ==
    ASSUME Cached(cache), NEW k, NEW age \in Nat, age < Life,
           CacheSet(k, ClosesFrom(k.provider, k.symbol), age)
    PROVE  Cached(cache')
<1>1. PICK c : c = ClosesFrom(k.provider, k.symbol)
  OBVIOUS
<1>2. PICK e : e = Dated(c, age)
  OBVIOUS
<1>3. cache' = [key \in DOMAIN cache \cup {k} |-> IF key = k THEN e ELSE cache[key]]
  BY <1>1, <1>2, Zenon DEF CacheSet, StoreWith
<1>4. IsEntry(e, k, 2 * Life - 1)
  <2>1. Life \in Nat \ {0}
    BY HeatmapAssumption
  <2>. QED BY <1>1, <1>2, <2>1 DEF IsEntry, Dated
<1>5. ASSUME NEW key \in DOMAIN cache' PROVE IsEntry(cache'[key], key, 2 * Life - 1)
  <2>1. CASE key = k
    <3>1. cache'[key] = e
      BY <1>3, <2>1
    <3>. QED BY <1>4, <2>1, <3>1
  <2>2. CASE key # k
    <3>1. key \in DOMAIN cache /\ cache'[key] = cache[key]
      BY <1>3, <1>5, <2>2
    <3>. QED BY <3>1 DEF Cached
  <2>. QED BY <2>1, <2>2
<1>. QED BY <1>5 DEF Cached

LEMMA WithoutKeeps ==
    ASSUME NEW store, Cached(store), NEW k
    PROVE  Cached(StoreWithout(store, k))
<1>1. PICK less : less = [key \in DOMAIN store \ {k} |-> store[key]]
  OBVIOUS
<1>2. \A key \in DOMAIN less : key \in DOMAIN store /\ less[key] = store[key]
  BY <1>1
<1>3. Cached(less)
  BY <1>2 DEF Cached
<1>. QED BY <1>1, <1>3, Zenon DEF StoreWithout

LEMMA WithKeeps ==
    ASSUME NEW store, Kept(store), NEW k
    PROVE  Kept(StoreWith(store, k, Dated(ClosesFrom(k.provider, k.symbol), 0)))
<1>1. PICK e : e = Dated(ClosesFrom(k.provider, k.symbol), 0)
  OBVIOUS
<1>2. PICK more : more = [key \in DOMAIN store \cup {k} |-> IF key = k THEN e ELSE store[key]]
  OBVIOUS
<1>3. IsEntry(e, k, Life) /\ e.left > 0
  <2>1. Life \in Nat \ {0}
    BY HeatmapAssumption
  <2>. QED BY <1>1, <2>1 DEF IsEntry, Dated
<1>4. ASSUME NEW key \in DOMAIN more PROVE IsEntry(more[key], key, Life) /\ more[key].left > 0
  BY <1>2, <1>3 DEF Kept
<1>5. Kept(more)
  BY <1>4 DEF Kept
<1>. QED BY <1>1, <1>2, <1>5, Zenon DEF StoreWith

\* An entry that lives gets no older than it may.
LEMMA Ages ==
    ASSUME NEW e, NEW k, NEW limit \in Nat, IsEntry(e, k, limit), e.left > 0
    PROVE  IsEntry(Older(e), k, limit) /\ Older(e).left = e.left - 1
<1>1. PICK o : o = Older(e)
  OBVIOUS
<1>2. DOMAIN e = {"closes", "age", "left"} /\ e.age \in Nat /\ e.left \in Nat /\ e.age + e.left <= limit
  BY DEF IsEntry
<1>3. /\ DOMAIN o = {"closes", "age", "left"} /\ o.closes = e.closes
      /\ o.age = e.age + 1 /\ o.left = e.left - 1
  BY <1>1, <1>2 DEF Older
<1>4. o.age \in Nat /\ o.left \in Nat /\ o.age + o.left <= limit
  BY <1>2, <1>3
<1>5. o.closes = ClosesFrom(k.provider, k.symbol)
  BY <1>3 DEF IsEntry
<1>6. IsEntry(o, k, limit)
  BY <1>3, <1>4, <1>5, Zenon DEF IsEntry
<1>. QED BY <1>1, <1>3, <1>6

LEMMA AllAge ==
    ASSUME Cached(cache), Kept(remote), EntriesAge
    PROVE  Cached(cache') /\ Kept(remote')
<1>1. 2 * Life - 1 \in Nat /\ Life \in Nat
  BY HeatmapAssumption
<1>2. ASSUME NEW k \in DOMAIN cache' PROVE IsEntry(cache'[k], k, 2 * Life - 1)
  <2>1. /\ k \in DOMAIN cache
        /\ cache'[k] = IF cache[k].left > 0 THEN Older(cache[k]) ELSE cache[k]
    BY <1>2 DEF EntriesAge
  <2>2. IsEntry(cache[k], k, 2 * Life - 1)
    BY <2>1 DEF Cached
  <2>. QED BY <1>1, <2>1, <2>2, Ages
<1>3. ASSUME NEW k \in DOMAIN remote' PROVE IsEntry(remote'[k], k, Life) /\ remote'[k].left > 0
  <2>1. k \in DOMAIN remote /\ remote[k].left > 1 /\ remote'[k] = Older(remote[k])
    BY <1>3 DEF EntriesAge
  <2>2. IsEntry(remote[k], k, Life) /\ remote[k].left > 0
    BY <2>1 DEF Kept
  <2>3. remote[k].left \in Nat
    BY <2>2 DEF IsEntry
  <2>4. IsEntry(Older(remote[k]), k, Life) /\ Older(remote[k]).left = remote[k].left - 1
    BY <1>1, <2>2, Ages
  <2>. QED BY <2>1, <2>3, <2>4
<1>. QED BY <1>2, <1>3 DEF Cached, Kept

\* A request that starts settles nothing yet.
LEMMA AskStarts ==
    ASSUME NEW q \in Questions, NEW table, MarketsKnown(table),
           NEW r, r = [phase |-> "cache", asked |-> q, todo |-> q, table |-> table,
                       items |-> {}, errors |-> {}]
    PROVE  Answering(r)
<1>1. PICK n \in 1 .. Cardinality(HeatSymbols) : q \in [1 .. n -> HeatSymbols]
  BY DEF Questions
<1>2. q \in Seq(HeatSymbols) /\ q # <<>> /\ (\A i, j \in DOMAIN q : q[i] = q[j] => i = j)
  BY <1>1 DEF Questions
<1>3. /\ DOMAIN r = {"phase", "asked", "todo", "table", "items", "errors"}
      /\ r.phase = "cache" /\ r.asked = q /\ r.todo = q /\ r.items = {} /\ r.errors = {}
      /\ r.table = table
  OBVIOUS
<1>4. Shown(r) = {} /\ Wanted(r) = {q[k] : k \in DOMAIN q} /\ Left(r) = {q[k] : k \in DOMAIN q}
  BY <1>3 DEF Shown, Wanted, Left
<1>5. (Shown(r) \cup r.errors) \cup Left(r) = Wanted(r)
  BY <1>3, <1>4
<1>6. Shown(r) \cap r.errors = {} /\ (Shown(r) \cup r.errors) \cap Left(r) = {}
  BY <1>3, <1>4
<1>7. IsFiniteSet(r.items)
  BY <1>3, FS_EmptySet
<1>8. /\ \A i, j \in r.items : i.symbol = j.symbol => i = j
      /\ \A i \in r.items : ItemIsTrue(i)
  BY <1>3
<1>9. r.phase \in {"cache", "delete", "redis", "fetch", "answered"}
      /\ (r.todo = <<>> <=> r.phase = "answered")
  BY <1>2, <1>3
<1>10. r.todo \in Seq(HeatSymbols) /\ (\A i, j \in DOMAIN r.todo : r.todo[i] = r.todo[j] => i = j)
  BY <1>2, <1>3
<1>. QED BY <1>3, <1>5, <1>6, <1>7, <1>8, <1>9, <1>10, Zenon DEF Answering

\* What a step of the request of t keeps.
LEMMA RequestStepKeeps ==
    ASSUME HeatmapInv, NEW t \in Threads, HeatmapStep(t)
    PROVE  /\ DOMAIN heatRequest' = Threads
           /\ heatRequest'[t].phase = "idle" \/ Answering(heatRequest'[t])
           /\ Others(t)
           /\ Cached(cache') /\ Kept(remote')
<1>1. DOMAIN heatRequest = Threads /\ (heatRequest[t].phase = "idle" \/ Answering(heatRequest[t]))
  BY DEF HeatmapInv
<1>2. Cached(cache) /\ Kept(remote) /\ Life \in Nat \ {0}
  BY HeatmapAssumption DEF HeatmapInv
<1>3. PICK k : k = CurrentKey(t)
  OBVIOUS
<1>4. k.provider = Provider(Market(t)) /\ k.symbol = SymbolInHand(t)
  BY <1>3, KeysTell
<1>5. PICK c : c = ClosesFrom(Provider(Market(t)), SymbolInHand(t))
  OBVIOUS
<1>6. c = ClosesFrom(k.provider, k.symbol)
  BY <1>4, <1>5
<1>7. ASSUME NEW p \in {"cache", "delete", "redis", "fetch"}, InPhase(t, p)
      PROVE  Answering(heatRequest[t]) /\ heatRequest[t].phase # "answered" /\ ~InPhase(t, "answered")
  BY <1>1, <1>7 DEF InPhase
<1>8. ASSUME NEW p \in {"cache", "delete", "redis", "fetch"}, NEW o \in {"cache", "delete", "redis", "fetch"},
             InPhase(t, o), Proceed(t, p)
      PROVE  /\ DOMAIN heatRequest' = Threads /\ Answering(heatRequest'[t]) /\ Others(t)
  <2>1. PICK r : r = heatRequest[t]
    OBVIOUS
  <2>2. Answering([r EXCEPT !.phase = p])
    BY <1>7, <1>8, <2>1, GoneTo
  <2>3. heatRequest' = [heatRequest EXCEPT ![t] = [r EXCEPT !.phase = p]]
    BY <1>8, <2>1 DEF Proceed
  <2>. QED BY <1>1, <2>2, <2>3 DEF Others
<1>9. ASSUME NEW o \in {"cache", "delete", "redis", "fetch"}, InPhase(t, o), NEW closes,
             closes = <<>> \/ closes = c, NEW age, age < 2 * Life, SymbolSettled(t, closes, age)
      PROVE  /\ DOMAIN heatRequest' = Threads /\ Answering(heatRequest'[t]) /\ Others(t)
  <2>1. closes = <<>> \/ closes = ClosesFrom(Provider(Market(t)), SymbolInHand(t))
    BY <1>5, <1>9
  <2>. QED BY <1>1, <1>7, <1>9, <2>1, SettlesOne DEF Others
<1>10. CASE AskHeatmap(t)
  <2>1. PICK q \in Questions :
          heatRequest' = [heatRequest EXCEPT ![t] =
                        [phase |-> "cache", asked |-> q, todo |-> q,
                         table |-> stocks, items |-> {}, errors |-> {}]]
    BY <1>10 DEF AskHeatmap
  <2>2. PICK r : r = [phase |-> "cache", asked |-> q, todo |-> q,
                      table |-> stocks, items |-> {}, errors |-> {}]
    OBVIOUS
  <2>3. Answering(r)
    BY <2>2, AskStarts DEF HeatmapInv
  <2>4. DOMAIN heatRequest' = Threads /\ heatRequest'[t] = r /\ Others(t)
    BY <1>1, <2>1, <2>2 DEF Others
  <2>5. cache' = cache /\ remote' = remote
    BY <1>10 DEF AskHeatmap
  <2>. QED BY <1>2, <2>3, <2>4, <2>5
<1>11. CASE ReadCache(t)
  <2>1. InPhase(t, "cache") /\ cache' = cache /\ remote' = remote
    BY <1>11 DEF ReadCache
  <2>2. \/ Proceed(t, "redis")
        \/ /\ k \in DOMAIN cache /\ cache[k].left > 0
           /\ SymbolSettled(t, cache[k].closes, cache[k].age)
        \/ Proceed(t, "delete")
    BY <1>3, <1>11, Zenon DEF ReadCache
  <2>3. CASE /\ k \in DOMAIN cache /\ cache[k].left > 0
             /\ SymbolSettled(t, cache[k].closes, cache[k].age)
    <3>1. IsEntry(cache[k], k, 2 * Life - 1)
      BY <1>2, <2>3 DEF Cached
    <3>2. cache[k].closes = c
      BY <1>6, <3>1 DEF IsEntry
    <3>3. cache[k].age < 2 * Life
      BY <1>2, <2>3, <3>1 DEF IsEntry
    <3>. QED BY <1>2, <1>9, <2>1, <2>3, <3>2, <3>3
  <2>. QED BY <1>2, <1>8, <2>1, <2>2, <2>3
<1>12. CASE DeleteExpired(t)
  <2>1. /\ InPhase(t, "delete") /\ Proceed(t, "redis")
        /\ cache' = StoreWithout(cache, k) /\ remote' = remote
    BY <1>3, <1>12 DEF DeleteExpired
  <2>2. Cached(StoreWithout(cache, k))
    BY <1>2, WithoutKeeps
  <2>3. Cached(cache') /\ Kept(remote')
    BY <1>2, <2>1, <2>2
  <2>. QED BY <1>8, <2>1, <2>3
<1>13. CASE DeleteFails(t)
  <2>1. heatRequest' = [heatRequest EXCEPT ![t] = NoRequest] /\ cache' = cache /\ remote' = remote
    BY <1>13 DEF DeleteFails
  <2>2. DOMAIN heatRequest' = Threads /\ heatRequest'[t].phase = "idle" /\ Others(t)
    BY <1>1, <2>1 DEF NoRequest, Others
  <2>. QED BY <1>2, <2>1, <2>2
<1>14. CASE ReadRedis(t)
  <2>1. /\ InPhase(t, "redis") /\ k \in DOMAIN remote /\ remote' = remote
        /\ CacheSet(k, remote[k].closes, remote[k].age)
        /\ SymbolSettled(t, remote[k].closes, remote[k].age)
    BY <1>3, <1>14 DEF ReadRedis
  <2>2. IsEntry(remote[k], k, Life) /\ remote[k].left > 0
    BY <1>2, <2>1 DEF Kept
  <2>3. remote[k].closes = c /\ remote[k].age \in Nat /\ remote[k].age < Life
    BY <1>2, <1>6, <2>2 DEF IsEntry
  <2>4. Cached(cache')
    BY <1>2, <1>6, <2>1, <2>3, CacheSetKeeps
  <2>5. remote[k].age < 2 * Life
    BY <1>2, <2>3
  <2>. QED BY <1>2, <1>9, <2>1, <2>3, <2>4, <2>5
<1>15. CASE MissRedis(t)
  <2>1. InPhase(t, "redis") /\ Proceed(t, "fetch") /\ cache' = cache /\ remote' = remote
    BY <1>15 DEF MissRedis
  <2>. QED BY <1>2, <1>8, <2>1
<1>16. CASE Fetch(t)
  <2>1. /\ InPhase(t, "fetch") /\ SymbolSettled(t, c, 0) /\ CacheSet(k, c, 0)
        /\ remote' \in {remote, StoreWith(remote, k, Dated(c, 0))}
    BY <1>3, <1>5, <1>16, Zenon DEF Fetch
  <2>2. Cached(cache')
    BY <1>2, <1>6, <2>1, CacheSetKeeps
  <2>3. Kept(StoreWith(remote, k, Dated(c, 0)))
    BY <1>2, <1>6, WithKeeps
  <2>4. Kept(remote')
    BY <1>2, <2>1, <2>3
  <2>5. 0 < 2 * Life
    BY <1>2
  <2>. QED BY <1>9, <2>1, <2>2, <2>4, <2>5
<1>17. CASE FetchFails(t)
  <2>1. InPhase(t, "fetch") /\ SymbolSettled(t, <<>>, 0) /\ cache' = cache /\ remote' = remote
    BY <1>17 DEF FetchFails
  <2>2. 0 < 2 * Life
    BY <1>2
  <2>. QED BY <1>2, <1>9, <2>1, <2>2
<1>. QED BY <1>10, <1>11, <1>12, <1>13, <1>14, <1>15, <1>16, <1>17 DEF HeatmapStep

LEMMA HeatmapInvImplies ==
    ASSUME HeatmapInv PROVE HeatmapIsTrue
<1>1. SUFFICES ASSUME NEW t \in Threads, InPhase(t, "answered")
      PROVE LET r == heatRequest[t]
                shown == {i.symbol : i \in r.items}
            IN  /\ shown \cup r.errors = {r.asked[n] : n \in DOMAIN r.asked}
                /\ shown \cap r.errors = {}
                /\ Cardinality(shown) = Cardinality(r.items)
                /\ \A i \in r.items :
                 LET provider == IF i.symbol \in SixDigits THEN "DATA_GO_KR" ELSE "TWELVE_DATA"
                     quoted == Quoted(provider, i.symbol)
                 IN  /\ Provider(i.market) = provider
                     /\ Len(i.series) \in 1 .. MaxDays
                     /\ i.summary.up + i.summary.down + i.summary.flat
                          = Len(i.series)
                     /\ \A n \in DOMAIN i.series : TrueColour(quoted, i.series[n])
                     /\ \A n \in 2 .. Len(i.series) :
                           i.series[n - 1].day < i.series[n].day
                     /\ i.age < 2 * Life
  BY Zenon DEF HeatmapIsTrue
<1>2. PICK r : r = heatRequest[t]
  OBVIOUS
<1>3. Answering(r) /\ r.phase = "answered"
  BY <1>1, <1>2 DEF HeatmapInv, InPhase
<1>4. r.todo = <<>>
  BY <1>3, Zenon DEF Answering
<1>5. Left(r) = {}
  BY <1>4 DEF Left
<1>6. PICK shown : shown = {i.symbol : i \in r.items}
  OBVIOUS
<1>7. Shown(r) = shown
  BY <1>6 DEF Shown
<1>8. (Shown(r) \cup r.errors) \cup Left(r) = Wanted(r) /\ Shown(r) \cap r.errors = {}
  BY <1>3, Zenon DEF Answering
<1>9. shown \cup r.errors = {r.asked[n] : n \in DOMAIN r.asked} /\ shown \cap r.errors = {}
  BY <1>5, <1>7, <1>8 DEF Wanted
<1>10. Cardinality(shown) = Cardinality(r.items)
  <2>1. PICK A : A = r.items
    OBVIOUS
  <2>2. IsFiniteSet(A) /\ (\A i, j \in A : i.symbol = j.symbol => i = j)
    BY <1>3, <2>1, Zenon DEF Answering
  <2>3. PICK f : f = [i \in A |-> i.symbol]
    OBVIOUS
  <2>4. f \in [A -> shown] /\ (\A y \in shown : \E i \in A : f[i] = y)
    BY <1>6, <2>1, <2>3
  <2>5. f \in Bijection(A, shown)
    BY <2>2, <2>3, <2>4 DEF Bijection, Injection, IsInjective, Surjection
  <2>6. ExistsBijection(A, shown)
    BY <2>5 DEF ExistsBijection
  <2>. QED BY <2>1, <2>2, <2>6, FS_Bijection
<1>11. ASSUME NEW i \in r.items
       PROVE  LET provider == IF i.symbol \in SixDigits THEN "DATA_GO_KR" ELSE "TWELVE_DATA"
                     quoted == Quoted(provider, i.symbol)
                 IN  /\ Provider(i.market) = provider
                     /\ Len(i.series) \in 1 .. MaxDays
                     /\ i.summary.up + i.summary.down + i.summary.flat
                          = Len(i.series)
                     /\ \A n \in DOMAIN i.series : TrueColour(quoted, i.series[n])
                     /\ \A n \in 2 .. Len(i.series) :
                           i.series[n - 1].day < i.series[n].day
                     /\ i.age < 2 * Life
  <2>1. ItemIsTrue(i)
    BY <1>3, Zenon DEF Answering
  <2>. QED BY <2>1, Zenon DEF ItemIsTrue, ProviderOf
<1>. QED BY <1>2, <1>6, <1>9, <1>10, <1>11, Zenon

\* A synchronisation, whole or half-done, tells of markets what it can know.
LEMMA SyncsKnow ==
    ASSUME MarketsKnown(stocks), SyncCorpCode \/ \E map \in FetchMarketMap : SyncMarket(map)
    PROVE  MarketsKnown(stocks')
<1>1. CASE SyncCorpCode
  BY <1>1 DEF SyncCorpCode, MarketsKnown
<1>2. ASSUME NEW map \in FetchMarketMap, SyncMarket(map) PROVE MarketsKnown(stocks')
  <2>1. PICK loaded \in SUBSET Korean :
           map = [s \in {x \in SixDigits : MarketOf[x] \in loaded} |-> MarketOf[s]]
    BY <1>2 DEF FetchMarketMap
  <2>2. \A s \in DOMAIN map : s \in SixDigits /\ map[s] \in Korean
    BY <2>1
  <2>3. \A s \in HeatSymbols : stocks'[s] = IF stocks[s] # Unlisted /\ s \in DOMAIN map
                                            THEN map[s] ELSE stocks[s]
    BY <1>2 DEF SyncMarket
  <2>. QED BY <2>2, <2>3 DEF MarketsKnown
<1>. QED BY <1>1, <1>2

\* Whatever half-done synchronisations leave in the table, whichever caches
\* answer, however the threads interleave and the entries age: an answered
\* heatmap is whole, each item shows what the provider for symbols of its kind
\* quotes, and nothing in it was read when it was two half hours old
\* (daily_returns_heatmap_usecase.py 142-227).
THEOREM HeatmapAlwaysTrue ==
    HeatmapSpec => []HeatmapIsTrue
<1>1. HeatmapInit => HeatmapInv
  <2>1. SUFFICES ASSUME HeatmapInit PROVE HeatmapInv
    OBVIOUS
  <2>2. DOMAIN heatRequest = Threads /\ \A t \in Threads : heatRequest[t].phase = "idle"
    BY <2>1 DEF HeatmapInit, NoRequest
  <2>3. DOMAIN cache = {} /\ DOMAIN remote = {}
    BY <2>1 DEF HeatmapInit
  <2>4. MarketsKnown(stocks)
    BY <2>1 DEF HeatmapInit, MarketsKnown
  <2>. QED BY <2>2, <2>3, <2>4 DEF HeatmapInv, Cached, Kept
<1>2. HeatmapInv /\ [HeatmapNext]_heatmapVars => HeatmapInv'
  <2>1. SUFFICES ASSUME HeatmapInv, [HeatmapNext]_heatmapVars
        PROVE  /\ DOMAIN heatRequest' = Threads
               /\ \A t \in Threads : heatRequest'[t].phase = "idle" \/ Answering(heatRequest'[t])
               /\ MarketsKnown(stocks') /\ Cached(cache') /\ Kept(remote')
    BY Zenon DEF HeatmapInv, Cached, Kept, MarketsKnown
  <2>2. /\ DOMAIN heatRequest = Threads
        /\ \A t \in Threads : heatRequest[t].phase = "idle" \/ Answering(heatRequest[t])
        /\ MarketsKnown(stocks) /\ Cached(cache) /\ Kept(remote)
    BY <2>1 DEF HeatmapInv
  <2>3. CASE /\ UNCHANGED <<cache, remote, heatRequest>>
             /\ UNCHANGED stocks \/ SyncCorpCode \/ \E map \in FetchMarketMap : SyncMarket(map)
    BY <2>2, <2>3, SyncsKnow
  <2>4. CASE Restart
    <3>1. /\ cache' = <<>> /\ remote' = remote /\ stocks' = stocks
          /\ heatRequest' = [t \in Threads |-> NoRequest]
      BY <2>4 DEF Restart
    <3>2. Cached(cache')
      BY <3>1 DEF Cached
    <3>. QED BY <2>2, <3>1, <3>2 DEF NoRequest
  <2>5. ASSUME NEW t \in Threads, HeatmapStep(t)
        PROVE  /\ DOMAIN heatRequest' = Threads
               /\ \A u \in Threads : heatRequest'[u].phase = "idle" \/ Answering(heatRequest'[u])
               /\ MarketsKnown(stocks') /\ Cached(cache') /\ Kept(remote')
    <3>1. /\ DOMAIN heatRequest' = Threads
          /\ heatRequest'[t].phase = "idle" \/ Answering(heatRequest'[t])
          /\ Others(t)
          /\ Cached(cache') /\ Kept(remote')
      BY <2>1, <2>5, RequestStepKeeps
    <3>2. stocks' = stocks
      BY <2>5 DEF HeatmapStep, AskHeatmap, ReadCache, DeleteExpired, DeleteFails, ReadRedis,
                  MissRedis, Fetch, FetchFails
    <3>. QED BY <2>1, <2>2, <3>1, <3>2, OneRequest
  <2>6. CASE EntriesAge
    <3>1. stocks' = stocks /\ heatRequest' = heatRequest
      BY <2>6 DEF EntriesAge
    <3>. QED BY <2>2, <2>6, <3>1, AllAge
  <2>7. \/ /\ UNCHANGED <<cache, remote, heatRequest>>
           /\ UNCHANGED stocks \/ SyncCorpCode \/ \E map \in FetchMarketMap : SyncMarket(map)
        \/ Restart
        \/ \E t \in Threads : HeatmapStep(t)
        \/ EntriesAge
    BY <2>1 DEF HeatmapNext, heatmapVars, RequestSync, StartupCounts, StartupSyncs, StartupFails
  <2>. QED BY <2>3, <2>4, <2>5, <2>6, <2>7
<1>3. HeatmapInv => HeatmapIsTrue
  BY HeatmapInvImplies
<1>. QED BY <1>1, <1>2, <1>3, PTL DEF HeatmapSpec

(***************************************************************************)
(* Collectors: the calendar, the report of a period, and a result page.    *)
(***************************************************************************)

\* What has figures at DART is over.
CollectorsInv ==
    /\ month \in Nat
    /\ \A p \in filed : p.code \in Codes /\ p.year \in Int /\ Ends(p.year, p.code) <= month
    /\ \A r \in Receipts : disclosures[r] \in {"", Issuer[r]}

\* The period that is asked for first bears the year of the label, unless that
\* period is still to come.
LEMMA FirstAsked ==
    ASSUME NEW m \in Nat, NEW code, NEW label,
           code = RecentReport(m).code, label = RecentReport(m).label
    PROVE  /\ label = YearOf(m) \/ (label = YearOf(m) - 1 /\ m < Ends(YearOf(m), code))
           /\ YearOf(m) \in Nat
<1>1. PICK y \in Nat, k \in 1 .. 12 : y = YearOf(m) /\ k = MonthOf(m) /\ m = 12 * y + k - 1
  BY DEF YearOf, MonthOf
<1>2. CASE k <= 4
  <2>1. RecentReport(m) = [code |-> "11014", label |-> y - 1]
    BY <1>1, <1>2 DEF RecentReport
  <2>2. Ends(y, "11014") = 12 * y + 9
    BY DEF Ends
  <2>3. m < 12 * y + 9
    BY <1>1, <1>2
  <2>. QED BY <1>1, <2>1, <2>2, <2>3
<1>3. CASE k \in 5 .. 6
  <2>1. RecentReport(m) = [code |-> "11013", label |-> y]
    BY <1>1, <1>3 DEF RecentReport
  <2>. QED BY <1>1, <2>1
<1>4. CASE k \in 7 .. 9
  <2>1. RecentReport(m) = [code |-> "11012", label |-> y]
    BY <1>1, <1>4 DEF RecentReport
  <2>. QED BY <1>1, <2>1
<1>5. CASE k \in 10 .. 11
  <2>1. RecentReport(m) = [code |-> "11014", label |-> y]
    BY <1>1, <1>5 DEF RecentReport
  <2>. QED BY <1>1, <2>1
<1>6. CASE k = 12
  <2>1. RecentReport(m) = [code |-> "11011", label |-> y]
    BY <1>1, <1>6 DEF RecentReport
  <2>. QED BY <1>1, <2>1
<1>7. k <= 4 \/ k \in 5 .. 6 \/ k \in 7 .. 9 \/ k \in 10 .. 11 \/ k = 12
  OBVIOUS
<1>. QED BY <1>2, <1>3, <1>4, <1>5, <1>6, <1>7

\* A statement that is found was filed, and is the consolidated one if there is one
\* that was not refused.
LEMMA StatementFound ==
    ASSUME NEW x, NEW year, NEW code, NEW failing, NEW refused,
           NEW p, p = [symbol |-> x, year |-> year, code |-> code],
           NEW fs, fs = Statement(x, year, code, failing, refused), fs # ""
    PROVE  /\ p \in filed /\ fs \in Statements[x] /\ fs \in {"CFS", "OFS"}
           /\ fs = "OFS" => "CFS" \notin Statements[x] \/ refused # {}
<1>1. PICK c, o :
        /\ c = ("CFS" \in Statements[x] /\ <<year, "CFS">> \notin refused /\ p \in filed)
        /\ o = ("OFS" \in Statements[x] /\ <<year, "OFS">> \notin refused /\ p \in filed)
  OBVIOUS
<1>2. fs = IF <<year, "CFS">> \in failing THEN ""
           ELSE IF c THEN "CFS"
           ELSE IF <<year, "OFS">> \notin failing /\ o THEN "OFS"
           ELSE ""
  BY <1>1, Zenon DEF Statement
<1>. QED BY <1>1, <1>2

\* Where no request failed or was refused, no statement means that none was filed.
LEMMA StatementMissing ==
    ASSUME NEW x, NEW year, NEW code,
           NEW p, p = [symbol |-> x, year |-> year, code |-> code],
           Statement(x, year, code, {}, {}) = ""
    PROVE  p \notin filed \/ ("CFS" \notin Statements[x] /\ "OFS" \notin Statements[x])
<1>1. PICK c, o : /\ c = ("CFS" \in Statements[x] /\ p \in filed)
                  /\ o = ("OFS" \in Statements[x] /\ p \in filed)
  OBVIOUS
<1>2. "" = IF c THEN "CFS" ELSE IF o THEN "OFS" ELSE ""
  BY <1>1 DEF Statement
<1>. QED BY <1>1, <1>2

\* A report that is stored bears the year of its figures, or the company has not
\* filed those of the year it bears, or a request was lost or refused.
LEMMA ReportsExplained ==
    ASSUME CollectorsInv, NEW x, NEW failing, NEW refused, NEW a \in ReportArticles(x, failing, refused)
    PROVE  /\ \/ a.year = a.label
              \/ [symbol |-> a.symbol, year |-> a.label, code |-> a.code] \notin filed
              \/ failing # {} \/ refused # {}
           /\ a.fs = "OFS" => "CFS" \notin Statements[a.symbol] \/ refused # {}
<1>1. PICK asked : asked = RecentReport(month)
  OBVIOUS
<1>2. PICK code, label : code = asked.code /\ label = asked.label
  OBVIOUS
<1>3. month \in Nat
  BY DEF CollectorsInv
<1>4. PICK Y \in Nat : Y = YearOf(month)
  BY <1>1, <1>3, FirstAsked
<1>5. label = Y \/ (label = Y - 1 /\ month < Ends(Y, code))
  BY <1>1, <1>2, <1>3, <1>4, FirstAsked
<1>6. PICK years : years = YearsAsked(month)
  OBVIOUS
<1>7. years[1] = Y /\ years[2] = Y - 1
  BY <1>4, <1>6 DEF YearsAsked
<1>8. PICK found : found = {i \in 1 .. 2 : Statement(x, years[i], code, failing, refused) # ""}
  OBVIOUS
<1>9. \A i : i \in found <=> i \in 1 .. 2 /\ Statement(x, years[i], code, failing, refused) # ""
  BY <1>8
<1>9a. \A i \in found : i = 1 \/ i = 2
  <2>1. \A i \in 1 .. 2 : i = 1 \/ i = 2
    OBVIOUS
  <2>. QED BY <1>8, <2>1
<1>10. PICK first : first = CHOOSE i \in found : \A j \in found : i <= j
  OBVIOUS
<1>11. PICK art : art = [symbol |-> x, year |-> years[first], code |-> code,
               fs |-> Statement(x, years[first], code, failing, refused), label |-> label]
  OBVIOUS
<1>12. ReportArticles(x, failing, refused) = IF found = {} THEN {} ELSE {art}
  BY <1>1, <1>2, <1>6, <1>8, <1>10, <1>11, Zenon DEF ReportArticles
<1>13. found # {} /\ a = art
  BY <1>12
<1>14. first \in found /\ \A j \in found : first <= j
  <2>1. \E i \in found : \A j \in found : i <= j
    <3>1. CASE 1 \in found
      <4>1. \A j \in found : 1 <= j
        BY <1>9a
      <4>. QED BY <3>1, <4>1
    <3>2. CASE 1 \notin found
      <4>1. PICK j \in found : TRUE
        BY <1>13
      <4>2. \A i \in found : i = 2
        BY <1>9a, <3>2
      <4>3. \A i \in found : j <= i
        BY <4>1, <4>2
      <4>. QED BY <4>1, <4>3
    <3>. QED BY <3>1, <3>2
  <2>. QED BY <1>10, <2>1
<1>15. PICK y, fs : y = years[first] /\ fs = Statement(x, y, code, failing, refused)
  OBVIOUS
<1>16. /\ a.symbol = x /\ a.year = y /\ a.code = code /\ a.fs = fs /\ a.label = label
  BY <1>11, <1>13, <1>15
<1>17. fs # ""
  BY <1>9, <1>14, <1>15
<1>18. PICK p : p = [symbol |-> x, year |-> y, code |-> code]
  OBVIOUS
<1>19. /\ p \in filed /\ fs \in Statements[x] /\ fs \in {"CFS", "OFS"}
       /\ fs = "OFS" => "CFS" \notin Statements[x] \/ refused # {}
  BY <1>15, <1>17, <1>18, StatementFound
<1>20. Ends(y, code) <= month
  BY <1>18, <1>19 DEF CollectorsInv
<1>21. first = 1 \/ first = 2
  BY <1>9a, <1>14
<1>22. CASE first = 1
  <2>1. y = Y
    BY <1>7, <1>15, <1>22
  <2>2. y \in Int /\ code \in Codes
    BY <1>18, <1>19, <2>1 DEF CollectorsInv
  <2>3. Ends(y, code) \in Int
    BY <2>2 DEF Ends, Codes
  <2>4. ~(month < Ends(Y, code))
    BY <1>3, <1>20, <2>1, <2>3
  <2>5. label = y
    BY <1>5, <2>1, <2>4
  <2>. QED BY <1>16, <1>19, <2>5
<1>23. CASE first = 2
  <2>1. y = Y - 1
    BY <1>7, <1>15, <1>23
  <2>2. CASE label = Y /\ failing = {} /\ refused = {}
    <3>1. Statement(x, Y, code, failing, refused) = ""
      <4>1. 1 \notin found
        BY <1>14, <1>23
      <4>2. 1 \in 1 .. 2
        OBVIOUS
      <4>3. Statement(x, years[1], code, failing, refused) = ""
        BY <1>8, <4>1, <4>2, Zenon
      <4>. QED BY <1>7, <4>3, Zenon
    <3>2. PICK q : q = [symbol |-> x, year |-> Y, code |-> code]
      OBVIOUS
    <3>3. q \notin filed \/ ("CFS" \notin Statements[x] /\ "OFS" \notin Statements[x])
      BY <2>2, <3>1, <3>2, StatementMissing
    <3>4. q \notin filed
      BY <1>19, <2>2, <3>3
    <3>5. q = [symbol |-> a.symbol, year |-> a.label, code |-> a.code]
      BY <1>16, <2>2, <3>2
    <3>. QED BY <1>16, <1>19, <3>4, <3>5
  <2>3. CASE label = Y - 1
    BY <1>16, <1>19, <2>1, <2>3
  <2>4. CASE failing # {} \/ refused # {}
    BY <1>16, <1>19, <2>4
  <2>. QED BY <1>5, <2>2, <2>3, <2>4
<1>. QED BY <1>21, <1>22, <1>23

LEMMA TenPlaces == IsFiniteSet(1 .. 10)
<1>1. PICK n \in Nat : n = 10
  OBVIOUS
<1>2. IsFiniteSet(1 .. n)
  BY FS_Interval
<1>. QED BY <1>1, <1>2

\* On a page that is not ragged title and link of a pair belong together.
LEMMA PairsBelong ==
    ASSUME NEW page \in Pages, ~Ragged(page),
           NEW pairs, pairs = Zipped(page)
    PROVE  /\ DOMAIN pairs \in SUBSET (1 .. 10)
           /\ \A i \in DOMAIN pairs : pairs[i][1] = LinkOf[pairs[i][2]]
<1>1. PICK N \in Nat : page \in [1 .. N -> Entries]
  <2>1. PICK N \in 0 .. PageEntries : page \in [1 .. N -> Entries]
    BY DEF Pages, BoundedSeq, SeqOf
  <2>. QED BY <2>1
<1>2. DOMAIN page = 1 .. N /\ \A i \in 1 .. N : page[i] \in Entries
  BY <1>1
<1>3. /\ \A i \in 1 .. N : page[i].short = FALSE /\ page[i].linked = TRUE /\ page[i].about \in Articles
      /\ \A i \in 1 .. N : page[i] = [about |-> page[i].about, short |-> FALSE, linked |-> TRUE]
  BY <1>2 DEF Ragged, Entries
<1>4. \A i, j \in 1 .. N : page[i] = page[j] => i = j
  BY <1>2 DEF Ragged, IsInjective
<1>5. \A i, j \in 1 .. N : Url(page, i) = Url(page, j) => i = j
  <2>1. ASSUME NEW i \in 1 .. N, NEW j \in 1 .. N, Url(page, i) = Url(page, j) PROVE i = j
    <3>1. PICK a, b : a = page[i].about /\ b = page[j].about
      OBVIOUS
    <3>2. a \in Articles /\ b \in Articles
      BY <1>3, <2>1, <3>1
    <3>3. LinkOf[a] = LinkOf[b]
      BY <2>1, <3>1 DEF Url
    <3>4. \A c, d \in Articles : LinkOf[c] = LinkOf[d] => c = d
      BY CollectorsAssumption, Zenon
    <3>5. a = b
      BY <3>2, <3>3, <3>4
    <3>6. page[i] = page[j]
      BY <1>3, <3>1, <3>5
    <3>. QED BY <1>4, <3>6
  <2>. QED BY <2>1
<1>6. PICK all : all = Rising(1 .. N)
  OBVIOUS
<1>7. DOMAIN all = 1 .. N /\ \A n \in 1 .. N : all[n] = n
  BY <1>6, RisingUpTo
<1>8. PICK titles, urls : titles = Titles(page) /\ urls = Urls(page)
  OBVIOUS
<1>9. DOMAIN titles = 1 .. N /\ \A n \in 1 .. N : titles[n] = page[n].about
  <2>1. {i \in DOMAIN page : ~page[i].short} = 1 .. N
    BY <1>2, <1>3
  <2>2. titles = [n \in DOMAIN all |-> page[all[n]].about]
    BY <1>6, <1>8, <2>1, Zenon DEF Titles
  <2>. QED BY <1>7, <2>2
<1>10. DOMAIN urls = 1 .. N /\ \A n \in 1 .. N : urls[n] = LinkOf[page[n].about]
  <2>1. PICK linked : linked = {i \in DOMAIN page : page[i].linked}
    OBVIOUS
  <2>2. linked = 1 .. N
    BY <1>2, <1>3, <2>1
  <2>3. {i \in linked : \A j \in linked : Url(page, j) = Url(page, i) => i <= j} = 1 .. N
    BY <1>5, <2>2
  <2>4. urls = [n \in DOMAIN all |-> Url(page, all[n])]
    BY <1>6, <1>8, <2>1, <2>3, Zenon DEF Urls
  <2>. QED BY <1>7, <2>4 DEF Url
<1>11. Len(titles) = N /\ Len(urls) = N
  BY <1>9, <1>10
<1>12. PICK both : both = {i \in 1 .. 10 : i <= Len(titles) /\ i <= Len(urls)}
  OBVIOUS
<1>13. pairs = [i \in both |-> <<urls[i], titles[i]>>]
  BY <1>8, <1>12, Zenon DEF Zipped
<1>14. both \in SUBSET (1 .. 10) /\ \A i \in both : i \in 1 .. N
  BY <1>11, <1>12
<1>15. DOMAIN pairs = both
  BY <1>13
<1>16. ASSUME NEW i \in both PROVE pairs[i][1] = LinkOf[pairs[i][2]]
  <2>1. PICK k \in 1 .. N : k = i
    BY <1>14
  <2>2. pairs[i] = <<urls[k], titles[k]>>
    BY <1>13, <2>1
  <2>3. urls[k] = LinkOf[titles[k]]
    BY <1>9, <1>10, <2>1, Zenon
  <2>. QED BY <2>2, <2>3
<1>17. DOMAIN pairs \in SUBSET (1 .. 10)
  BY <1>14, <1>15, Zenon
<1>18. \A i \in DOMAIN pairs : pairs[i][1] = LinkOf[pairs[i][2]]
  BY <1>15, <1>16, Zenon
<1>. QED BY <1>17, <1>18, Zenon

\* A new row's title is that of the article its link leads to.
NewFits ==
    \A l \in ArticleLinks : newsRows[l] = NoRow /\ newsRows'[l] # NoRow => TitleFits(l)

LEMMA StoredFits ==
    ASSUME NEW articles, StoreNews(articles)
    PROVE  NewFits
<1>1. ASSUME NEW l \in ArticleLinks, newsRows[l] = NoRow, newsRows'[l] # NoRow PROVE TitleFits(l)
  <2>1. PICK a : a = CHOOSE b \in articles : LinkOf[b] = l
    OBVIOUS
  <2>2. newsRows'[l] = IF newsRows[l] = NoRow /\ \E b \in articles : LinkOf[b] = l
                   THEN [symbol |-> task.symbol, about |-> a] ELSE newsRows[l]
    BY <2>1 DEF StoreNews
  <2>3. (\E b \in articles : LinkOf[b] = l) /\ newsRows'[l].about = a
    BY <1>1, <2>2
  <2>4. LinkOf[a] = l
    BY <2>1, <2>3
  <2>. QED BY <2>3, <2>4 DEF TitleFits
<1>. QED BY <1>1 DEF NewFits

LEMMA PairsFit ==
    ASSUME NEW page \in Pages, StorePairs(Zipped(page)),
           Ragged(page) => met' = "ragged"
    PROVE  NewFits
<1>1. CASE Ragged(page)
  BY <1>1 DEF NewFits, TitleFits
<1>2. CASE ~Ragged(page)
  <2>1. PICK pairs : pairs = Zipped(page)
    OBVIOUS
  <2>2. DOMAIN pairs \in SUBSET (1 .. 10)
    BY <1>2, <2>1, PairsBelong
  <2>3. \A i \in DOMAIN pairs : pairs[i][1] = LinkOf[pairs[i][2]]
    BY <1>2, <2>1, PairsBelong
  <2>4. ASSUME NEW l \in ArticleLinks, newsRows[l] = NoRow, newsRows'[l] # NoRow PROVE TitleFits(l)
    <3>1. PICK mine : mine = {i \in DOMAIN pairs : pairs[i][1] = l}
      OBVIOUS
    <3>2. PICK i : i = CHOOSE j \in mine : \A k \in mine : j <= k
      OBVIOUS
    <3>3. newsRows'[l] = IF newsRows[l] # NoRow \/ mine = {} THEN newsRows[l]
                     ELSE [symbol |-> task.symbol, about |-> pairs[i][2]]
      BY <2>1, <3>1, <3>2 DEF StorePairs
    <3>4. mine # {} /\ newsRows'[l].about = pairs[i][2]
      <4>1. PICK row : row = [symbol |-> task.symbol, about |-> pairs[i][2]]
        OBVIOUS
      <4>2. mine # {} /\ newsRows'[l] = row
        BY <2>4, <3>3, <4>1, Zenon
      <4>3. row.about = pairs[i][2]
        BY <4>1
      <4>. QED BY <4>2, <4>3, Zenon
    <3>5. mine \in SUBSET (1 .. 10) /\ mine \in SUBSET Nat
      <4>1. \A k \in mine : k \in 1 .. 10 /\ k \in Nat
        BY <2>2, <3>1
      <4>. QED BY <4>1
    <3>6. IsFiniteSet(mine)
      BY <3>5, TenPlaces, FS_Subset
    <3>7. \E j \in mine : \A k \in mine : j <= k
      BY <3>4, <3>5, <3>6, Earliest
    <3>8. i \in mine
      BY <3>2, <3>7
    <3>9. pairs[i][1] = l /\ i \in DOMAIN pairs
      BY <3>1, <3>8
    <3>10. LinkOf[pairs[i][2]] = l
      BY <2>3, <3>9
    <3>. QED BY <3>4, <3>10 DEF TitleFits
  <2>. QED BY <2>4 DEF NewFits
<1>. QED BY <1>1, <1>2

\* Whatever the months bring and the company files, and whichever requests of the
\* collectors fail or are refused: a new report has the figures its title names, of
\* the consolidated statement if there is one, or DART's answers are the excuse
\* (dart_report_collector_adapter.py 50-163), a new link its own title unless the
\* page was ragged (naver_news_collector_adapter.py 63-69).
THEOREM CollectedAlwaysTrue ==
    CollectorsSpec => CollectedIsTrue
<1>1. CollectorsInit => CollectorsInv
  <2>1. SUFFICES ASSUME CollectorsInit PROVE CollectorsInv
    OBVIOUS
  <2>2. month \in Nat
    <3>1. month \in Starts /\ Starts \in SUBSET (12 .. 23)
      BY <2>1, CollectorsAssumption DEF CollectorsInit
    <3>2. \A m \in 12 .. 23 : m \in Nat
      OBVIOUS
    <3>. QED BY <3>1, <3>2
  <2>4. \A r \in Receipts : disclosures[r] = ""
    BY <2>1 DEF CollectorsInit
  <2>5. ASSUME NEW p \in filed
        PROVE  p.code \in Codes /\ p.year \in Int /\ Ends(p.year, p.code) <= month
    <3>1. PICK Y \in Int : Y = YearOf(month)
      BY <2>2 DEF YearOf
    <3>2. p \in Periods(0 .. Y) /\ Due(p) <= month
      BY <2>1, <3>1 DEF CollectorsInit
    <3>3. p.code \in Codes /\ p.year \in Int
      BY <3>2 DEF Periods
    <3>4. Ends(p.year, p.code) \in Int
      BY <3>3 DEF Ends, Codes
    <3>. QED BY <2>2, <3>2, <3>3, <3>4 DEF Due
  <2>. QED BY <2>2, <2>4, <2>5 DEF CollectorsInv
<1>2. CollectorsInv /\ [CollectorsNext]_collectorVars => CollectorsInv' /\ [CollectedTruly]_collectorVars
  <2>1. SUFFICES ASSUME CollectorsInv, [CollectorsNext]_collectorVars PROVE CollectorsInv' /\ [CollectedTruly]_collectorVars
    OBVIOUS
  <2>2. /\ month \in Nat
        /\ \A p \in filed : p.code \in Codes /\ p.year \in Int /\ Ends(p.year, p.code) <= month
        /\ \A r \in Receipts : disclosures[r] \in {"", Issuer[r]}
    BY <2>1 DEF CollectorsInv
  <2>3. ASSUME month' = month, filed' = filed,
               \A r \in Receipts : disclosures'[r] \in {"", Issuer[r]}
        PROVE  CollectorsInv'
    BY <2>2, <2>3 DEF CollectorsInv
  <2>4. ASSUME reports' = reports, disclosures' = disclosures, NewFits PROVE CollectedTruly
    BY <2>2, <2>4 DEF CollectedTruly, NewFits
  <2>5. ASSUME newsRows' = newsRows PROVE NewFits
    BY <2>5 DEF NewFits
  <2>6. ASSUME NEW name, Turn(name) PROVE month' = month /\ filed' = filed
    BY <2>6 DEF Turn
  <2>7. CASE UNCHANGED collectorVars
    BY <2>2, <2>7 DEF collectorVars, CollectorsInv
  <2>8. CASE MonthPasses
    <3>1. /\ month' = month + 1 /\ filed' = filed /\ reports' = reports
          /\ disclosures' = disclosures /\ newsRows' = newsRows
      BY <2>8 DEF MonthPasses
    <3>2. ASSUME NEW p \in filed
          PROVE  p.code \in Codes /\ p.year \in Int /\ Ends(p.year, p.code) <= month + 1
      <4>1. p.code \in Codes /\ p.year \in Int /\ Ends(p.year, p.code) <= month
        BY <2>2
      <4>2. Ends(p.year, p.code) \in Int
        BY <4>1 DEF Ends, Codes
      <4>3. PICK e \in Int : e = Ends(p.year, p.code)
        BY <4>2
      <4>4. PICK m \in Nat : m = month
        BY <2>2
      <4>5. e <= m
        BY <4>1, <4>3, <4>4, Zenon
      <4>6. e <= m + 1
        BY <4>3, <4>4, <4>5
      <4>. QED BY <4>1, <4>3, <4>4, <4>6, Zenon
    <3>3. month' \in Nat
      <4>1. PICK m : m = month /\ m \in Nat
        BY <2>2
      <4>2. m + 1 \in Nat
        BY <4>1
      <4>. QED BY <3>1, <4>1, <4>2, Zenon
    <3>4. \A p \in filed' : p.code \in Codes /\ p.year \in Int /\ Ends(p.year, p.code) <= month'
      BY <3>1, <3>2, Zenon
    <3>5. \A r \in Receipts : disclosures'[r] \in {"", Issuer[r]}
      BY <2>2, <3>1, Zenon
    <3>6. CollectorsInv'
      BY <3>3, <3>4, <3>5, Zenon DEF CollectorsInv
    <3>. QED BY <2>4, <2>5, <3>1, <3>6
  <2>9. CASE File
    <3>1. /\ month' = month /\ reports' = reports
          /\ disclosures' = disclosures /\ newsRows' = newsRows
      BY <2>9 DEF File
    <3>2. PICK Y \in Nat : Y = YearOf(month)
      <4>1. PICK m \in Nat : m = month
        BY <2>2
      <4>2. m \div 12 \in Nat
        BY <4>1
      <4>. QED BY <4>1, <4>2 DEF YearOf
    <3>3. PICK p \in Periods({Y, Y - 1}) \ filed :
             Ends(p.year, p.code) <= month /\ filed' = filed \cup {p}
      BY <2>9, <3>2 DEF File
    <3>4. p.code \in Codes /\ p.year \in {Y, Y - 1}
      BY <3>3 DEF Periods
    <3>5. p.year \in Int
      BY <3>2, <3>4
    <3>6. \A q \in filed' : q.code \in Codes /\ q.year \in Int /\ Ends(q.year, q.code) <= month
      BY <2>2, <3>3, <3>4, <3>5
    <3>7. CollectorsInv'
      BY <2>2, <3>1, <3>6 DEF CollectorsInv
    <3>. QED BY <2>4, <2>5, <3>1, <3>7
  <2>10. CASE StartCollect
    <3>1. /\ month' = month /\ filed' = filed /\ reports' = reports
          /\ disclosures' = disclosures /\ newsRows' = newsRows
      BY <2>10 DEF StartCollect
    <3>. QED BY <2>2, <2>3, <2>4, <2>5, <3>1
  <2>11. CASE CollectorRaises
    <3>1. /\ month' = month /\ filed' = filed /\ reports' = reports
          /\ disclosures' = disclosures /\ newsRows' = newsRows
      BY <2>11 DEF CollectorRaises
    <3>. QED BY <2>2, <2>3, <2>4, <2>5, <3>1
  <2>12. CASE CollectDisclosures
    <3>1. month' = month /\ filed' = filed /\ reports' = reports /\ newsRows' = newsRows
      BY <2>6, <2>12 DEF CollectDisclosures
    <3>2. ASSUME NEW r \in Receipts PROVE disclosures'[r] \in {"", Issuer[r]}
      <4>1. PICK batch \in SUBSET {s \in Receipts : Issuer[s] = task.symbol} :
              disclosures' = [s \in Receipts |->
                 IF s \in batch /\ disclosures[s] = "" THEN task.symbol ELSE disclosures[s]]
        BY <2>12 DEF CollectDisclosures
      <4>2. r \in batch => Issuer[r] = task.symbol
        BY <4>1
      <4>. QED BY <2>2, <4>1, <4>2
    <3>3. CollectedTruly
      BY <2>5, <3>1, <3>2 DEF CollectedTruly, NewFits
    <3>. QED BY <2>3, <3>1, <3>2, <3>3
  <2>13. CASE CollectReport
    <3>1. /\ month' = month /\ filed' = filed
          /\ disclosures' = disclosures /\ newsRows' = newsRows
      BY <2>6, <2>13 DEF CollectReport
    <3>2. PICK failing, refused :
             /\ reports' = reports \cup {a \in ReportArticles(task.symbol, failing, refused) :
                                           \A b \in reports : ~SameDocument(a, b)}
             /\ met' = IF refused # {} THEN "refused"
                       ELSE IF failing # {} THEN "lost" ELSE ""
      BY <2>13 DEF CollectReport
    <3>3. ASSUME NEW a \in reports' \ reports PROVE PeriodExplained(a) /\ ConsolidatedFirst(a)
      <4>1. a \in ReportArticles(task.symbol, failing, refused)
        BY <3>2, <3>3
      <4>2. /\ \/ a.year = a.label
               \/ [symbol |-> a.symbol, year |-> a.label, code |-> a.code] \notin filed
               \/ failing # {} \/ refused # {}
            /\ a.fs = "OFS" => "CFS" \notin Statements[a.symbol] \/ refused # {}
        BY <2>1, <4>1, ReportsExplained
      <4>. QED BY <3>2, <4>2 DEF PeriodExplained, ConsolidatedFirst
    <3>4. CollectedTruly
      BY <2>2, <2>5, <3>1, <3>3 DEF CollectedTruly, NewFits
    <3>. QED BY <2>2, <2>3, <3>1, <3>4
  <2>14. CASE CollectSerpNews \/ CollectFinnhub \/ CollectRss
    <3>1. /\ month' = month /\ filed' = filed /\ reports' = reports
          /\ disclosures' = disclosures
      BY <2>6, <2>14 DEF CollectSerpNews, CollectFinnhub, CollectRss
    <3>2. \E articles : StoreNews(articles)
      BY <2>14, Zenon DEF CollectSerpNews, CollectFinnhub, CollectRss
    <3>3. NewFits
      BY <3>2, StoredFits
    <3>. QED BY <2>2, <2>3, <2>4, <3>1, <3>3
  <2>15. CASE CollectNaverPage
    <3>1. /\ month' = month /\ filed' = filed /\ reports' = reports
          /\ disclosures' = disclosures
      BY <2>6, <2>15 DEF CollectNaverPage
    <3>2. PICK page \in IF task.symbol \in Digits THEN Pages ELSE {<<>>} :
             /\ StorePairs(Zipped(page))
             /\ met' = IF Ragged(page) THEN "ragged" ELSE ""
      BY <2>15, Zenon DEF CollectNaverPage
    <3>3. <<>> \in Pages
      <4>1. PICK none : none = [i \in 1 .. 0 |-> <<>>]
        OBVIOUS
      <4>2. none \in [1 .. 0 -> Entries] /\ none = <<>>
        BY <4>1
      <4>3. PageEntries \in Nat
        BY CollectorsAssumption
      <4>4. 0 \in 0 .. PageEntries
        BY <4>3
      <4>. QED BY <4>2, <4>4 DEF Pages, BoundedSeq, SeqOf
    <3>4. page \in Pages
      BY <3>2, <3>3
    <3>5. Ragged(page) => met' = "ragged"
      BY <3>2, Zenon
    <3>6. NewFits
      BY <3>2, <3>4, <3>5, PairsFit
    <3>. QED BY <2>2, <2>3, <2>4, <3>1, <3>6
  <2>16. CASE MigrateSymbols
    <3>1. /\ month' = month /\ filed' = filed /\ reports' = reports
          /\ disclosures' = disclosures
      BY <2>16 DEF MigrateSymbols
    <3>2. ASSUME NEW l \in ArticleLinks, newsRows[l] = NoRow PROVE newsRows'[l] = NoRow
      <4>1. newsRows[l].symbol = ""
        <5>1. PICK row : row = [symbol |-> "", about |-> NoArticle]
          OBVIOUS
        <5>2. newsRows[l] = row
          BY <3>2, <5>1 DEF NoRow
        <5>3. row.symbol = ""
          BY <5>1
        <5>. QED BY <5>2, <5>3, Zenon
      <4>2. ~\E p \in LegacyNames : newsRows[l].symbol = p[1]
        BY <4>1, CollectorsAssumption
      <4>. QED BY <2>16, <3>2, <4>2 DEF MigrateSymbols
    <3>3. NewFits
      BY <3>2 DEF NewFits
    <3>. QED BY <2>2, <2>3, <2>4, <3>1, <3>3
  <2>. QED
    BY <2>1, <2>7, <2>8, <2>9, <2>10, <2>11, <2>12, <2>13, <2>14, <2>15, <2>16 DEF CollectorsNext
<1>. QED BY <1>1, <1>2, PTL DEF CollectorsSpec, CollectedIsTrue
=============================================================================
