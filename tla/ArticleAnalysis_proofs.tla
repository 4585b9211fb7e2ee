------------------------ MODULE ArticleAnalysis_proofs ------------------------
(***************************************************************************)
(* What TLAPS proves about ArticleAnalysis, for any runs, batches,         *)
(* articles, dates and number of permits: a run keeps its permits and with *)
(* them the limit on its single analyses, and the result of a batch is the *)
(* one it should be whatever the order of the answers.                     *)
(***************************************************************************)
EXTENDS ArticleAnalysis, FiniteSetTheorems, SequenceTheorems,
        WellFoundedInduction, TLAPS

(***************************************************************************)
(* The invariant: of the semaphore of a run, of its collection, and of     *)
(* each of its batches.                                                    *)
(***************************************************************************)

Distinct(s) == \A i, j \in 1 .. Len(s) : s[i] = s[j] => i = j
Newest(list, a) == a \in ToSet(list) /\ \A c \in ToSet(list) : Published[c] <= Published[a]

\* a is the first of the most confident among the first n of the list.
Wins(r, list, n, a) ==
    LET good == {i \in 1 .. n : job[r][list[i]] = "ok"}
    IN  IF good = {} THEN a = NoArticle
        ELSE \E i \in good :
                /\ a = list[i]
                /\ \A j \in good :
                      /\ confidence[r][list[j]] <= confidence[r][list[i]]
                      /\ j < i => confidence[r][list[j]] < confidence[r][list[i]]

\* What a selection is, whatever the mode.
SelectionOf(sel, list) ==
    /\ sel \in Seq(Raw)
    /\ ToSet(sel) \subseteq ToSet(list)
    /\ sel = <<>> <=> list = <<>>
    /\ sel # <<>> => Newest(list, sel[1])

QueueInv(r) ==
    /\ Distinct(waiters[r])
    /\ \A a \in Raw : a \in ToSet(waiters[r]) <=> job[r][a] \in {"waiting", "granted"}
PermitInv(r) ==
    /\ IsFiniteSet(Holders(r))
    /\ permits[r] + Cardinality(Holders(r)) = Limit
TicketInv(r) == \A a \in Raw : job[r][a] = "running" => ticket[r][a] # 0
SemaphoreInv(r) == QueueInv(r) /\ PermitInv(r) /\ TicketInv(r)

CollectionInv(r) ==
    \/ /\ \A b \in Batches : stage[r][b] = "idle" /\ found[r][b] = <<>>
       /\ \A a \in Raw : job[r][a] = "none"
    \/ /\ \A b \in Batches : stage[r][b] # "idle"
       /\ found[r] \in Inputs

\* Before its single analyses, if it has any.
NotYet(r, b) == stage[r][b] \in {"idle", "new", "synthesizing"}

BatchInv(r, b) ==
    /\ SelectionOf(articles[r][b], found[r][b])
    /\ NotYet(r, b) => \A a \in ToSet(found[r][b]) : job[r][a] = "none"
    /\ stage[r][b] \in {"synthesizing", "singles"} => articles[r][b] # <<>>
    /\ stage[r][b] = "synthesizing" => port[r]
    /\ stage[r][b] = "singles" /\ port[r] => Len(articles[r][b]) = 1
    /\ stage[r][b] # "done" => result[r][b] = NoArticle
    /\ stage[r][b] = "done" /\ ~port[r] =>
          /\ \A a \in ToSet(articles[r][b]) : job[r][a] \in {"ok", "failed"}
          /\ Wins(r, articles[r][b], Len(articles[r][b]), result[r][b])
    /\ port[r] /\ result[r][b] # NoArticle => Newest(found[r][b], result[r][b])
    /\ stage[r][b] = "done" /\ result[r][b] = NoArticle /\ found[r][b] # <<>> =>
          \E a \in ToSet(found[r][b]) : job[r][a] = "failed"

RunInv(r) ==
    SemaphoreInv(r) /\ CollectionInv(r) /\ \A b \in Batches : BatchInv(r, b)

IInv == TypeOK /\ \A r \in Runs : RunInv(r)

(***************************************************************************)
(* Places in an order.                                                     *)
(***************************************************************************)

\* The elements of S before i, and those with fewer than k before them.
Below(R, S, i) == {j \in S : <<j, i>> \in R}
FirstOf(R, S, k) == {i \in S : Cardinality(Below(R, S, i)) < k}

\* R orders S.
Orders(R, S) ==
    /\ \A i \in S : <<i, i>> \notin R
    /\ \A i, j, k \in S : <<i, j>> \in R /\ <<j, k>> \in R => <<i, k>> \in R
    /\ \A i, j \in S : i = j \/ <<i, j>> \in R \/ <<j, i>> \in R

LEMMA Smallest ==
    ASSUME NEW T, T \subseteq Nat, T # {}
    PROVE  \E n \in T : \A m \in T : n <= m
<1>. DEFINE R == OpToRel(<, Nat)
<1>1. IsWellFoundedOn(R, Nat)
  BY NatLessThanWellFounded, Zenon
<1>2. \E n \in T : \A m \in T : <<m, n>> \notin R
  <2>. HIDE DEF R
  <2>. QED BY <1>1, WFMin
<1>3. \A m, n \in Nat : m < n => <<m, n>> \in R
  BY Zenon DEF OpToRel
<1>. HIDE DEF R
<1>4. \A m, n \in T : <<m, n>> \notin R => n <= m
  BY <1>3
<1>. QED BY <1>2, <1>4

LEMMA BelowFinite ==
    ASSUME NEW R, NEW S, IsFiniteSet(S), NEW i \in S
    PROVE  IsFiniteSet(Below(R, S, i)) /\ Cardinality(Below(R, S, i)) \in Nat
<1>1. Below(R, S, i) \in SUBSET S
  BY DEF Below
<1>. QED BY <1>1, FS_Subset, FS_CardinalityType

\* Who comes before another has fewer before him.
LEMMA BelowGrows ==
    ASSUME NEW R, NEW S, IsFiniteSet(S), Orders(R, S), NEW i \in S, NEW j \in S,
           <<j, i>> \in R
    PROVE  Cardinality(Below(R, S, j)) + 1 <= Cardinality(Below(R, S, i))
<1>. DEFINE A == Below(R, S, j)
            B == Below(R, S, i)
<1>1. j \notin A /\ A \cup {j} \in SUBSET B
  BY DEF Below, Orders
<1>2. IsFiniteSet(A) /\ IsFiniteSet(B) /\ Cardinality(A) \in Nat
  BY BelowFinite
<1>. HIDE DEF A, B
<1>3. Cardinality(A \cup {j}) = Cardinality(A) + 1
  BY <1>1, <1>2, FS_AddElement
<1>4. Cardinality(A \cup {j}) <= Cardinality(B)
  BY <1>1, <1>2, FS_Subset
<1>5. Cardinality(A) + 1 <= Cardinality(B)
  BY <1>3, <1>4
<1>. QED BY <1>5 DEF A, B

LEMMA Least ==
    ASSUME NEW R, NEW S, IsFiniteSet(S), Orders(R, S), S # {}
    PROVE  \E i \in S : \A j \in S : j = i \/ <<i, j>> \in R
<1>. DEFINE T == {n \in Nat : \E i \in S : n = Cardinality(Below(R, S, i))}
<1>1. T \subseteq Nat /\ T # {}
  BY BelowFinite
<1>2. PICK n \in T : \A m \in T : n <= m
  <2>. HIDE DEF T
  <2>. QED BY <1>1, Smallest
<1>3. PICK i \in S : n = Cardinality(Below(R, S, i))
  OBVIOUS
<1>4. ASSUME NEW j \in S PROVE <<j, i>> \notin R
  <2>1. SUFFICES ASSUME <<j, i>> \in R PROVE FALSE
    OBVIOUS
  <2>2. Cardinality(Below(R, S, j)) + 1 <= n
    BY <2>1, <1>3, BelowGrows
  <2>3. Cardinality(Below(R, S, j)) \in T
    BY BelowFinite
  <2>4. n <= Cardinality(Below(R, S, j)) /\ n \in Nat
           /\ Cardinality(Below(R, S, j)) \in Nat
    BY <1>2, <2>3
  <2>. QED BY <2>2, <2>4
<1>. QED BY <1>4 DEF Orders

\* One more place: some element has k before it, and it is the only one.
LEMMA NextPlace ==
    ASSUME NEW R, NEW S, IsFiniteSet(S), Orders(R, S), NEW k \in Nat,
           k < Cardinality(S), Cardinality(FirstOf(R, S, k)) = k
    PROVE  \E i \in S : /\ Cardinality(Below(R, S, i)) = k
                        /\ i \notin FirstOf(R, S, k)
                        /\ FirstOf(R, S, k + 1) = FirstOf(R, S, k) \cup {i}
<1>. DEFINE F == FirstOf(R, S, k)
            U == S \ F
<1>1. F \in SUBSET S
  BY DEF FirstOf
<1>2. IsFiniteSet(U) /\ U # {}
  <2>1. F # S
    BY FS_CardinalityType
  <2>2. IsFiniteSet(U)
    BY FS_Subset, U \in SUBSET S
  <2>. QED BY <1>1, <2>1, <2>2
<1>3. Orders(R, U)
  BY DEF Orders
<1>4. PICK i \in U : \A j \in U : j = i \/ <<i, j>> \in R
  <2>. HIDE DEF U
  <2>. QED BY <1>2, <1>3, Least
<1>5. \A j \in S : Cardinality(Below(R, S, j)) \in Nat
  BY BelowFinite
<1>6. Below(R, S, i) = F
  <2>1. ASSUME NEW j \in S, <<j, i>> \in R PROVE j \in F
    BY <1>4, <2>1 DEF Orders
  <2>2. ASSUME NEW j \in F PROVE <<j, i>> \in R
    <3>1. Cardinality(Below(R, S, j)) < k /\ ~(Cardinality(Below(R, S, i)) < k)
      BY DEF FirstOf
    <3>2. j # i
      BY <3>1
    <3>3. <<i, j>> \notin R
      <4>1. SUFFICES ASSUME <<i, j>> \in R PROVE FALSE
        OBVIOUS
      <4>2. Cardinality(Below(R, S, i)) + 1 <= Cardinality(Below(R, S, j))
        BY <1>1, <4>1, BelowGrows
      <4>. QED BY <4>2, <3>1, <1>5, <1>1
    <3>. QED BY <3>2, <3>3, <1>1 DEF Orders
  <2>. QED BY <2>1, <2>2, <1>1 DEF Below
<1>7. Cardinality(Below(R, S, i)) = k /\ i \notin F /\ i \in S
  BY <1>6
<1>8. ASSUME NEW j \in S, Cardinality(Below(R, S, j)) < k + 1
      PROVE  j \in F \cup {i}
  <2>1. SUFFICES ASSUME j \notin F, j # i PROVE FALSE
    OBVIOUS
  <2>2. <<i, j>> \in R
    BY <2>1, <1>4
  <2>3. k + 1 <= Cardinality(Below(R, S, j))
    BY <2>2, <1>7, BelowGrows
  <2>. QED BY <2>3, <1>8, <1>5
<1>9. \A j \in S : j \in F => Cardinality(Below(R, S, j)) < k + 1
  BY <1>5 DEF FirstOf
<1>10. FirstOf(R, S, k + 1) = F \cup {i}
  <2>1. \A j \in S : Cardinality(Below(R, S, j)) < k + 1 <=> j \in F \cup {i}
    BY <1>7, <1>8, <1>9
  <2>. HIDE DEF F
  <2>. QED BY <2>1, <1>1, <1>7 DEF FirstOf
<1>. QED BY <1>7, <1>10

\* The first k places are k.
LEMMA Places ==
    ASSUME NEW R, NEW S, IsFiniteSet(S), Orders(R, S)
    PROVE  \A k \in 0 .. Cardinality(S) : Cardinality(FirstOf(R, S, k)) = k
<1>. DEFINE T == {k \in 0 .. Cardinality(S) : Cardinality(FirstOf(R, S, k)) # k}
<1>1. SUFFICES ASSUME T # {} PROVE FALSE
  OBVIOUS
<1>2. Cardinality(S) \in Nat
  BY FS_CardinalityType
<1>3. PICK n \in T : \A m \in T : n <= m
  <2>1. T \subseteq Nat
    BY <1>2
  <2>. HIDE DEF T
  <2>. QED BY <1>1, <2>1, Smallest
<1>4. n \in Nat /\ n <= Cardinality(S) /\ Cardinality(FirstOf(R, S, n)) # n
  BY <1>2
<1>5. n # 0
  <2>1. FirstOf(R, S, 0) = {}
    <3>1. \A i \in S : Cardinality(Below(R, S, i)) \in Nat
      BY BelowFinite
    <3>. QED BY <3>1 DEF FirstOf
  <2>. QED BY <2>1, <1>4, FS_EmptySet
<1>. DEFINE k == n - 1
<1>6. k \in Nat /\ k < Cardinality(S) /\ k \in 0 .. Cardinality(S) /\ n = k + 1
      /\ ~(n <= k)
  BY <1>2, <1>4, <1>5
<1>7. Cardinality(FirstOf(R, S, k)) = k
  BY <1>3, <1>6
<1>. HIDE DEF k
<1>8. PICK i \in S : /\ i \notin FirstOf(R, S, k)
                     /\ FirstOf(R, S, k + 1) = FirstOf(R, S, k) \cup {i}
  BY <1>6, <1>7, NextPlace
<1>9. IsFiniteSet(FirstOf(R, S, k))
  <2>1. FirstOf(R, S, k) \in SUBSET S
    BY DEF FirstOf
  <2>. QED BY <2>1, FS_Subset
<1>10. Cardinality(FirstOf(R, S, k) \cup {i}) = k + 1
  BY <1>7, <1>8, <1>9, FS_AddElement
<1>. QED BY <1>4, <1>6, <1>8, <1>10

\* Every place is taken.
LEMMA PlaceTaken ==
    ASSUME NEW R, NEW S, IsFiniteSet(S), Orders(R, S), NEW k \in Nat,
           k < Cardinality(S)
    PROVE  \E i \in S : Cardinality(Below(R, S, i)) = k
<1>1. Cardinality(S) \in Nat
  BY FS_CardinalityType
<1>2. k \in 0 .. Cardinality(S)
  BY <1>1
<1>3. Cardinality(FirstOf(R, S, k)) = k
  BY <1>2, Places
<1>. QED BY <1>3, NextPlace

(***************************************************************************)
(* Selection.                                                              *)
(***************************************************************************)

LEMMA Members ==
    ASSUME NEW S, NEW list \in Seq(S)
    PROVE  /\ DOMAIN list = 1 .. Len(list) /\ Len(list) \in Nat
           /\ \A n \in 1 .. Len(list) : list[n] \in S /\ list[n] \in ToSet(list)
           /\ ToSet(list) \subseteq S
           /\ \A a \in ToSet(list) : \E n \in 1 .. Len(list) : list[n] = a
           /\ list = <<>> <=> Len(list) = 0
  BY DEF ToSet

LEMMA MinOfTwo ==
    ASSUME NEW x \in Nat, NEW y \in Nat
    PROVE  Min({x, y}) = IF x <= y THEN x ELSE y
<1>. DEFINE m == IF x <= y THEN x ELSE y
<1>1. m \in {x, y} /\ \A z \in {x, y} : m <= z
  OBVIOUS
<1>2. \A z \in {x, y} : (\A w \in {x, y} : z <= w) => z = m
  OBVIOUS
<1>. HIDE DEF m
<1>3. Min({x, y}) = m
  BY <1>1, <1>2 DEF Min
<1>. QED BY <1>3 DEF m

LEMMA MinOfThree ==
    ASSUME NEW x \in Nat, NEW y \in Nat, NEW z \in Nat
    PROVE  Min({x, y, z}) = IF x <= y THEN (IF x <= z THEN x ELSE z)
                            ELSE (IF y <= z THEN y ELSE z)
<1>. DEFINE m == IF x <= y THEN (IF x <= z THEN x ELSE z)
                 ELSE (IF y <= z THEN y ELSE z)
<1>1. m \in {x, y, z} /\ \A v \in {x, y, z} : m <= v
  OBVIOUS
<1>2. \A v \in {x, y, z} : (\A w \in {x, y, z} : v <= w) => v = m
  OBVIOUS
<1>. HIDE DEF m
<1>3. Min({x, y, z}) = m
  BY <1>1, <1>2 DEF Min
<1>. QED BY <1>3 DEF m

\* Sorting keeps the articles and puts one of the latest first.
LEMMA Sorted ==
    ASSUME NEW list \in Seq(Raw)
    PROVE  /\ NewestFirst(list) \in Seq(Raw)
           /\ Len(NewestFirst(list)) = Len(list)
           /\ \A p \in 1 .. Len(list) : NewestFirst(list)[p] \in ToSet(list)
           /\ list # <<>> => Newest(list, NewestFirst(list)[1])
<1>. DEFINE D == DOMAIN list
            R == {p \in D \X D : Precedes(list, p[1], p[2])}
            N == NewestFirst(list)
            Rank(i) == Cardinality({j \in D : Precedes(list, j, i)})
            At(p) == CHOOSE i \in D : Rank(i) = p - 1
<1>1. /\ D = 1 .. Len(list) /\ Len(list) \in Nat
      /\ \A i \in D : list[i] \in Raw /\ Published[list[i]] \in Nat
  <2>1. D = 1 .. Len(list) /\ Len(list) \in Nat /\ \A i \in D : list[i] \in Raw
    BY Members
  <2>2. \A a \in Raw : Published[a] \in Nat
    <3>1. Published \in [Raw -> Nat]
      BY AnalysisAssumption, Zenon
    <3>. QED BY <3>1
  <2>. QED BY <2>1, <2>2, Zenon
<1>2. IsFiniteSet(D) /\ Cardinality(D) = Len(list)
  <2>1. PICK n \in Nat : n = Len(list)
    BY <1>1
  <2>2. IsFiniteSet(1 .. n) /\ Cardinality(1 .. n) = n
    BY FS_Interval
  <2>. QED BY <1>1, <2>1, <2>2, Zenon
<1>3. \A i, j \in D : <<i, j>> \in R <=> Precedes(list, i, j)
  OBVIOUS
<1>4. Orders(R, D)
  <2>1. \A i \in D : ~Precedes(list, i, i)
    BY <1>1 DEF Precedes
  <2>2. \A i, j, k \in D :
           Precedes(list, i, j) /\ Precedes(list, j, k) => Precedes(list, i, k)
    BY <1>1 DEF Precedes
  <2>3. \A i, j \in D : i = j \/ Precedes(list, i, j) \/ Precedes(list, j, i)
    BY <1>1 DEF Precedes
  <2>. HIDE DEF R, D
  <2>. QED BY <2>1, <2>2, <2>3, <1>3 DEF Orders
<1>5. \A i \in D : Below(R, D, i) = {j \in D : Precedes(list, j, i)}
  BY <1>3 DEF Below
<1>6. \A p \in D : p - 1 \in Nat /\ p - 1 < Cardinality(D)
  BY <1>1, <1>2
<1>7. \A p \in D : \E i \in D : Rank(i) = p - 1
  <2>. HIDE DEF R
  <2>1. TAKE p \in D
  <2>2. PICK i \in D : Cardinality(Below(R, D, i)) = p - 1
    <3>. HIDE DEF D
    <3>. QED BY <1>2, <1>4, <1>6, PlaceTaken
  <2>. QED BY <2>2, <1>5
<1>8. \A p \in D : At(p) \in D /\ Rank(At(p)) = p - 1
  <2>. HIDE DEF D, Rank
  <2>. QED BY <1>7
<1>9. N = [p \in D |-> list[At(p)]]
  BY DEF NewestFirst
<1>10. N \in Seq(Raw) /\ Len(N) = Len(list)
  <2>1. \A p \in D : list[At(p)] \in Raw
    BY <1>8, <1>1
  <2>. HIDE DEF At, N, D
  <2>2. N \in [1 .. Len(list) -> Raw]
    BY <1>9, <1>1, <2>1
  <2>. QED BY <2>2, <1>1
<1>11. \A p \in D : N[p] = list[At(p)] /\ list[At(p)] \in ToSet(list)
  <2>1. \A p \in D : list[At(p)] \in ToSet(list)
    BY <1>8, <1>1, Members
  <2>. HIDE DEF At, N, D
  <2>. QED BY <1>9, <2>1
<1>12. ASSUME list # <<>> PROVE Newest(list, N[1])
  <2>1. 1 \in D
    BY <1>1, <1>12, Members
  <2>. DEFINE i == At(1)
  <2>2. i \in D /\ Cardinality(Below(R, D, i)) = 0
    <3>1. i \in D /\ Rank(i) = 1 - 1
      BY <2>1, <1>8
    <3>2. Rank(i) = Cardinality(Below(R, D, i))
      BY <3>1, <1>5
    <3>. HIDE DEF i, D, R, Rank
    <3>. QED BY <3>1, <3>2
  <2>. HIDE DEF i
  <2>3. Below(R, D, i) = {}
    <3>. HIDE DEF R, D
    <3>. QED BY <2>2, <1>2, BelowFinite, FS_EmptySet
  <2>4. \A j \in D : ~Precedes(list, j, i)
    BY <2>2, <2>3, <1>5
  <2>5. \A j \in D : Published[list[j]] <= Published[list[i]]
    BY <2>2, <2>4, <1>1 DEF Precedes
  <2>6. N[1] = list[i] /\ list[i] \in ToSet(list)
    BY <2>1, <1>11 DEF i
  <2>7. \A c \in ToSet(list) : \E j \in D : list[j] = c
    BY <1>1, Members
  <2>. HIDE DEF N, D
  <2>. QED BY <2>5, <2>6, <2>7 DEF Newest
<1>. QED BY <1>1, <1>10, <1>11, <1>12

LEMMA CapPositive ==
    ASSUME NEW mode, NEW list \in Seq(Raw)
    PROVE  Cap(mode, list) \in Nat \ {0}
<1>1. Recent(list) \in SUBSET (1 .. Len(list)) /\ Len(list) \in Nat
  BY Members DEF Recent
<1>2. IsFiniteSet(Recent(list))
  <2>1. IsFiniteSet(1 .. Len(list))
    BY <1>1, FS_Interval
  <2>. QED BY <1>1, <2>1, FS_Subset
<1>3. Cardinality(Recent(list)) \in Nat
      /\ (Recent(list) # {} => Cardinality(Recent(list)) # 0)
  BY <1>2, FS_CardinalityType, FS_EmptySet
<1>. QED BY <1>3 DEF Cap

LEMMA Selected ==
    ASSUME NEW mode, NEW list \in Seq(Raw)
    PROVE  SelectionOf(Select(mode, list), list)
<1>. DEFINE N == NewestFirst(list)
            n == Min({Cap(mode, list), Len(list)})
            sel == SubSeq(N, 1, n)
<1>1. /\ N \in Seq(Raw) /\ Len(N) = Len(list) /\ Len(list) \in Nat
      /\ \A p \in 1 .. Len(list) : N[p] \in ToSet(list)
      /\ list # <<>> => Newest(list, N[1])
  BY Sorted, Members
<1>2. n \in Nat /\ n <= Len(list) /\ (n = 0 <=> Len(list) = 0)
  BY CapPositive, MinOfTwo, <1>1
<1>3. list = <<>> <=> Len(list) = 0
  BY Members
<1>. HIDE DEF N, n
<1>4. \A p \in 1 .. n : p \in 1 .. Len(N) /\ N[p] \in Raw
  BY <1>1, <1>2, Members
<1>5. /\ sel \in Seq(Raw) /\ Len(sel) = n
      /\ \A p \in 1 .. n : sel[p] = N[p]
  <2>1. sel = [p \in 1 .. n |-> N[p]]
    BY <1>1, <1>2
  <2>. QED BY <2>1, <1>2, <1>4
<1>. HIDE DEF sel
<1>6. sel = <<>> <=> n = 0
  BY <1>5, Members
<1>7. ToSet(sel) \subseteq ToSet(list)
  <2>1. \A a \in ToSet(sel) : \E p \in 1 .. n : sel[p] = a
    BY <1>5, Members
  <2>2. \A p \in 1 .. n : sel[p] \in ToSet(list)
    BY <1>1, <1>2, <1>4, <1>5
  <2>. QED BY <2>1, <2>2
<1>8. sel # <<>> => Newest(list, sel[1])
  <2>1. n # 0 => 1 \in 1 .. n
    BY <1>2
  <2>. QED BY <2>1, <1>1, <1>2, <1>3, <1>5, <1>6
<1>9. SelectionOf(sel, list)
  BY <1>2, <1>3, <1>5, <1>6, <1>7, <1>8 DEF SelectionOf
<1>. QED BY <1>9 DEF Select, sel, n, N

(***************************************************************************)
(* The best of the single analyses.                                        *)
(***************************************************************************)

\* What Best's recursion makes of the values g before n.
BestAt(r, list, n, g) ==
    IF n = 0 THEN NoArticle
    ELSE IF Better(r, list[n], g[n - 1]) THEN list[n] ELSE g[n - 1]

\* The recursion defines a function.
LEMMA BestDefined ==
    ASSUME NEW r, NEW list, NEW L \in Nat
    PROVE  \E g : g = [n \in 0 .. L |-> BestAt(r, list, n, g)]
<1>. DEFINE T == {m \in Nat : ~ \E g : g = [n \in 0 .. m |-> BestAt(r, list, n, g)]}
<1>1. SUFFICES ASSUME T # {} PROVE FALSE
  OBVIOUS
<1>2. PICK m \in T : \A k \in T : m <= k
  <2>1. T \subseteq Nat
    OBVIOUS
  <2>. HIDE DEF T
  <2>. QED BY <1>1, <2>1, Smallest
<1>3. m # 0
  <2>1. SUFFICES ASSUME m = 0 PROVE FALSE
    OBVIOUS
  <2>. DEFINE g == [n \in 0 .. 0 |-> NoArticle]
  <2>2. g = [n \in 0 .. 0 |-> BestAt(r, list, n, g)]
    BY DEF BestAt
  <2>. HIDE DEF g
  <2>. QED BY <2>1, <2>2
<1>4. m - 1 \in Nat /\ ~(m <= m - 1) /\ m \in Nat
  BY <1>3
<1>5. m - 1 \notin T
  <2>. HIDE DEF T
  <2>. QED BY <1>2, <1>4
<1>6. PICK g : g = [n \in 0 .. (m - 1) |-> BestAt(r, list, n, g)]
  BY <1>4, <1>5
<1>. DEFINE h == [n \in 0 .. m |-> IF n = m THEN BestAt(r, list, m, g) ELSE g[n]]
<1>7. ASSUME NEW n \in 0 .. m PROVE h[n] = BestAt(r, list, n, h)
  <2>1. CASE n = m
    <3>1. m - 1 \in 0 .. m /\ m - 1 # m
      BY <1>4
    <3>2. h[m - 1] = g[m - 1]
      BY <3>1
    <3>3. h[m] = BestAt(r, list, m, g)
      BY <1>4
    <3>. HIDE DEF h
    <3>. QED BY <2>1, <3>2, <3>3 DEF BestAt
  <2>2. CASE n # m
    <3>1. n \in 0 .. (m - 1) /\ (n # 0 => n - 1 \in 0 .. m /\ n - 1 # m)
      BY <1>4, <2>2
    <3>2. g[n] = BestAt(r, list, n, g)
      BY <1>6, <3>1, Zenon
    <3>3. h[n] = g[n] /\ (n # 0 => h[n - 1] = g[n - 1])
      BY <2>2, <3>1
    <3>. HIDE DEF h
    <3>. QED BY <3>2, <3>3 DEF BestAt
  <2>. QED BY <2>1, <2>2
<1>8. h = [n \in 0 .. m |-> BestAt(r, list, n, h)]
  <2>1. h = [n \in 0 .. m |-> h[n]]
    OBVIOUS
  <2>. HIDE DEF h
  <2>. QED BY <1>7, <2>1
<1>. HIDE DEF h
<1>. QED BY <1>8

LEMMA BestUnfolds ==
    ASSUME NEW r, NEW list, Len(list) \in Nat
    PROVE  \E g : /\ Best(r, list) = g[Len(list)]
                  /\ \A n \in 0 .. Len(list) : g[n] = BestAt(r, list, n, g)
<1>. DEFINE best[n \in 0 .. Len(list)] ==
                IF n = 0 THEN NoArticle
                ELSE IF Better(r, list[n], best[n - 1]) THEN list[n] ELSE best[n - 1]
<1>1. Best(r, list) = best[Len(list)]
  BY Zenon DEF Best
<1>2. \E g : g = [n \in 0 .. Len(list) |-> BestAt(r, list, n, g)]
  BY BestDefined
<1>3. best = [n \in 0 .. Len(list) |-> BestAt(r, list, n, best)]
  BY <1>2, Zenon DEF BestAt
<1>. HIDE DEF best
<1>4. \A n \in 0 .. Len(list) : best[n] = BestAt(r, list, n, best)
  BY <1>3, Zenon
<1>. QED BY <1>1, <1>4

LEMMA BestWins ==
    ASSUME NEW r \in Runs, confidence \in [Runs -> [Raw -> Nat]],
           NEW list \in Seq(Raw)
    PROVE  Wins(r, list, Len(list), Best(r, list))
<1>. DEFINE L == Len(list)
<1>0. L \in Nat /\ \A n \in 1 .. L : list[n] \in Raw /\ list[n] # NoArticle
  BY Members, AnalysisAssumption
<1>1. PICK g : /\ Best(r, list) = g[Len(list)]
               /\ \A n \in 0 .. Len(list) : g[n] = BestAt(r, list, n, g)
  BY <1>0, BestUnfolds
<1>. DEFINE T == {n \in Nat : n <= L /\ ~Wins(r, list, n, g[n])}
<1>2. T = {}
  <2>1. SUFFICES ASSUME T # {} PROVE FALSE
    OBVIOUS
  <2>2. PICK n \in T : \A m \in T : n <= m
    <3>1. T \subseteq Nat
      OBVIOUS
    <3>. HIDE DEF T
    <3>. QED BY <2>1, <3>1, Smallest
  <2>3. n # 0
    <3>1. Wins(r, list, 0, g[0])
      <4>1. {i \in 1 .. 0 : job[r][list[i]] = "ok"} = {}
        OBVIOUS
      <4>2. g[0] = NoArticle
        BY <1>0, <1>1 DEF BestAt
      <4>. QED BY <4>1, <4>2 DEF Wins
    <3>. QED BY <3>1
  <2>. DEFINE m == n - 1
  <2>4. m \in Nat /\ m <= L /\ ~(n <= m) /\ n = m + 1 /\ n \in 1 .. L
    BY <2>3, <1>0
  <2>. HIDE DEF m
  <2>5. Wins(r, list, m, g[m])
    BY <2>2, <2>4
  <2>6. g[n] = IF Better(r, list[n], g[m]) THEN list[n] ELSE g[m]
    BY <1>1, <2>3, <2>4 DEF m, BestAt
  <2>. DEFINE old == {i \in 1 .. m : job[r][list[i]] = "ok"}
              new == {i \in 1 .. n : job[r][list[i]] = "ok"}
  <2>7. new = IF job[r][list[n]] = "ok" THEN old \cup {n} ELSE old
    BY <2>4
  <2>8. /\ \A i \in old : i \in 1 .. L /\ i < n /\ list[i] # NoArticle
        /\ \A i \in 1 .. L : confidence[r][list[i]] \in Nat
    BY <2>4, <1>0
  <2>. HIDE DEF old, new
  <2>9. IF old = {} THEN g[m] = NoArticle
        ELSE \E i \in old :
                /\ g[m] = list[i]
                /\ \A j \in old :
                      /\ confidence[r][list[j]] <= confidence[r][list[i]]
                      /\ j < i => confidence[r][list[j]] < confidence[r][list[i]]
    BY <2>5 DEF Wins, old
  <2>10. IF new = {} THEN g[n] = NoArticle
         ELSE \E i \in new :
                /\ g[n] = list[i]
                /\ \A j \in new :
                      /\ confidence[r][list[j]] <= confidence[r][list[i]]
                      /\ j < i => confidence[r][list[j]] < confidence[r][list[i]]
    <3>1. CASE job[r][list[n]] # "ok"
      BY <3>1, <2>6, <2>7, <2>9 DEF Better
    <3>2. CASE job[r][list[n]] = "ok" /\ old = {}
      <4>1. new = {n} /\ g[n] = list[n]
        BY <3>2, <2>6, <2>7, <2>9 DEF Better
      <4>. QED BY <4>1, <2>4, <2>8
    <3>3. CASE job[r][list[n]] = "ok" /\ old # {}
      <4>1. PICK i \in old :
                /\ g[m] = list[i]
                /\ \A j \in old :
                      /\ confidence[r][list[j]] <= confidence[r][list[i]]
                      /\ j < i => confidence[r][list[j]] < confidence[r][list[i]]
        BY <3>3, <2>9
      <4>2. new = old \cup {n} /\ n \in new /\ i \in new /\ i < n /\ ~(n < i)
        BY <3>3, <2>4, <2>7, <2>8
      <4>3. Better(r, list[n], g[m]) <=> confidence[r][list[n]] > confidence[r][list[i]]
        BY <3>3, <4>1, <2>8 DEF Better
      <4>4. /\ confidence[r][list[n]] \in Nat /\ confidence[r][list[i]] \in Nat
            /\ \A j \in old : confidence[r][list[j]] \in Nat
        BY <2>4, <2>8
      <4>5. CASE Better(r, list[n], g[m])
        <5>1. g[n] = list[n]
          BY <4>5, <2>6
        <5>2. \A j \in old : confidence[r][list[j]] < confidence[r][list[n]]
          BY <4>1, <4>3, <4>4, <4>5
        <5>3. \A j \in new :
                 /\ confidence[r][list[j]] <= confidence[r][list[n]]
                 /\ j < n => confidence[r][list[j]] < confidence[r][list[n]]
          BY <5>2, <4>2, <4>4, <2>4
        <5>. QED BY <5>1, <5>3, <4>2
      <4>6. CASE ~Better(r, list[n], g[m])
        <5>1. g[n] = list[i] /\ confidence[r][list[n]] <= confidence[r][list[i]]
          BY <4>6, <2>6, <4>1, <4>3, <4>4
        <5>2. \A j \in new :
                 /\ confidence[r][list[j]] <= confidence[r][list[i]]
                 /\ j < i => confidence[r][list[j]] < confidence[r][list[i]]
          BY <5>1, <4>1, <4>2
        <5>. QED BY <5>1, <5>2, <4>2
      <4>. QED BY <4>5, <4>6
    <3>. QED BY <3>1, <3>2, <3>3
  <2>11. Wins(r, list, n, g[n])
    BY <2>10 DEF Wins, new
  <2>. QED BY <2>11
<1>3. Wins(r, list, L, g[L])
  BY <1>0, <1>2
<1>. QED BY <1>1, <1>3

(***************************************************************************)
(* The semaphore.                                                          *)
(***************************************************************************)

LEMMA Taking ==
    ASSUME NEW S, NEW s \in Seq(S), Distinct(s), NEW i \in 1 .. Len(s)
    PROVE  /\ RemoveAt(s, i) \in Seq(S)
           /\ Distinct(RemoveAt(s, i))
           /\ \A a \in S : a \in ToSet(RemoveAt(s, i)) <=> a \in ToSet(s) /\ a # s[i]
<1>. DEFINE A == SubSeq(s, 1, i - 1)
            B == SubSeq(s, i + 1, Len(s))
            t == A \o B
<1>1. Len(s) \in Nat /\ i \in Nat /\ 1 <= i /\ i <= Len(s)
      /\ (\A n \in 1 .. Len(s) : s[n] \in S)
  BY Members
<1>2. /\ A \in Seq(S) /\ Len(A) = i - 1
      /\ \A n \in 1 .. (i - 1) : A[n] = s[n]
  <2>1. A = [n \in 1 .. (i - 1) |-> s[n]]
    BY <1>1
  <2>. QED BY <2>1, <1>1
<1>3. /\ B \in Seq(S) /\ Len(B) = Len(s) - i
      /\ \A n \in 1 .. (Len(s) - i) : B[n] = s[n + i]
  <2>1. B = [n \in 1 .. (Len(s) - i) |-> s[n + i]]
    BY <1>1
  <2>2. \A n \in 1 .. (Len(s) - i) : s[n + i] \in S
    BY <1>1
  <2>. QED BY <2>1, <2>2, <1>1
<1>. HIDE DEF A, B
<1>4. /\ t \in Seq(S) /\ Len(t) = Len(s) - 1
      /\ \A n \in 1 .. (Len(s) - 1) : t[n] = IF n < i THEN s[n] ELSE s[n + 1]
  <2>1. t \in Seq(S) /\ Len(t) = (i - 1) + (Len(s) - i)
    <3>1. A \in Seq(S) /\ B \in Seq(S)
      BY <1>2, <1>3
    <3>2. t \in Seq(S) /\ Len(t) = Len(A) + Len(B)
      BY <3>1, ConcatProperties
    <3>. HIDE DEF t
    <3>. QED BY <3>2, <1>2, <1>3
  <2>2. \A n \in 1 .. (Len(s) - 1) : t[n] = IF n < i THEN A[n] ELSE B[n - (i - 1)]
    <3>1. \A n \in 1 .. Len(A) + Len(B) :
             t[n] = IF n <= Len(A) THEN A[n] ELSE B[n - Len(A)]
      BY <1>2, <1>3, ConcatProperties
    <3>2. Len(A) + Len(B) = Len(s) - 1
      BY <1>1, <1>2, <1>3
    <3>3. \A n \in 1 .. (Len(s) - 1) : n <= Len(A) <=> n < i
      BY <1>1, <1>2
    <3>. HIDE DEF t
    <3>. QED BY <3>1, <3>2, <3>3, <1>2
  <2>3. \A n \in 1 .. (Len(s) - 1) : n < i => A[n] = s[n]
    BY <1>1, <1>2
  <2>4. \A n \in 1 .. (Len(s) - 1) : ~(n < i) => B[n - (i - 1)] = s[n + 1]
    <3>1. TAKE n \in 1 .. (Len(s) - 1)
    <3>2. HAVE ~(n < i)
    <3>3. n - (i - 1) \in 1 .. (Len(s) - i) /\ (n - (i - 1)) + i = n + 1
      BY <1>1, <3>2
    <3>. QED BY <1>3, <3>3
  <2>5. Len(t) = Len(s) - 1
    BY <1>1, <2>1
  <2>. QED BY <2>1, <2>2, <2>3, <2>4, <2>5
<1>5. t = RemoveAt(s, i)
  BY DEF RemoveAt, t, A, B
<1>. HIDE DEF t
<1>6. Distinct(t)
  <2>. SUFFICES ASSUME NEW m \in 1 .. Len(t), NEW n \in 1 .. Len(t), t[m] = t[n]
                PROVE  m = n
    BY DEF Distinct
  <2>. DEFINE At(k) == IF k < i THEN k ELSE k + 1
  <2>1. /\ t[m] = s[At(m)] /\ t[n] = s[At(n)]
        /\ At(m) \in 1 .. Len(s) /\ At(n) \in 1 .. Len(s)
    BY <1>1, <1>4
  <2>2. At(m) = At(n)
    <3>. HIDE DEF At
    <3>. QED BY <2>1 DEF Distinct
  <2>. QED BY <2>2, <1>1, <1>4
<1>7. ASSUME NEW a \in S
      PROVE  a \in ToSet(t) <=> a \in ToSet(s) /\ a # s[i]
  <2>1. a \in ToSet(t) <=> \E n \in 1 .. (Len(s) - 1) : t[n] = a
    BY <1>4 DEF ToSet
  <2>2. a \in ToSet(s) <=> \E n \in 1 .. Len(s) : s[n] = a
    BY DEF ToSet
  <2>3. ASSUME NEW n \in 1 .. (Len(s) - 1), t[n] = a
        PROVE  (\E m \in 1 .. Len(s) : s[m] = a) /\ a # s[i]
    <3>. DEFINE m == IF n < i THEN n ELSE n + 1
    <3>1. m \in 1 .. Len(s) /\ m # i
      BY <1>1
    <3>2. t[n] = s[m]
      BY <1>4
    <3>. HIDE DEF m
    <3>. QED BY <2>3, <3>1, <3>2, <1>1 DEF Distinct
  <2>4. ASSUME NEW m \in 1 .. Len(s), s[m] = a, a # s[i]
        PROVE  \E n \in 1 .. (Len(s) - 1) : t[n] = a
    <3>1. m # i
      BY <2>4
    <3>2. CASE m < i
      BY <3>2, <1>1, <1>4, <2>4
    <3>3. CASE m > i
      <4>1. m - 1 \in 1 .. (Len(s) - 1) /\ ~(m - 1 < i) /\ (m - 1) + 1 = m
        BY <3>3, <1>1
      <4>2. t[m - 1] = s[m]
        BY <4>1, <1>4
      <4>. QED BY <4>1, <4>2, <2>4
    <3>4. m < i \/ m > i
      BY <3>1, <1>1
    <3>. QED BY <3>2, <3>3, <3>4
  <2>. QED BY <2>1, <2>2, <2>3, <2>4
<1>. QED BY <1>4, <1>5, <1>6, <1>7

LEMMA Queueing ==
    ASSUME NEW S, NEW s \in Seq(S), Distinct(s), NEW a \in S, a \notin ToSet(s)
    PROVE  /\ Append(s, a) \in Seq(S)
           /\ Distinct(Append(s, a))
           /\ Append(s, a) # <<>>
           /\ \A c \in S : c \in ToSet(Append(s, a)) <=> c \in ToSet(s) \/ c = a
<1>. DEFINE t == Append(s, a)
<1>1. /\ t \in Seq(S) /\ Len(t) = Len(s) + 1 /\ Len(s) \in Nat
      /\ t[Len(s) + 1] = a
      /\ \A n \in 1 .. Len(s) : t[n] = s[n] /\ s[n] # a
  BY DEF ToSet
<1>. HIDE DEF t
<1>2. \A n \in 1 .. Len(t) : n \in 1 .. Len(s) \/ n = Len(s) + 1
  BY <1>1
<1>3. Distinct(t)
  BY <1>1, <1>2 DEF Distinct
<1>4. ASSUME NEW c \in S PROVE c \in ToSet(t) <=> c \in ToSet(s) \/ c = a
  <2>1. c \in ToSet(t) <=> \E n \in 1 .. Len(t) : t[n] = c
    BY <1>1 DEF ToSet
  <2>2. c \in ToSet(s) <=> \E n \in 1 .. Len(s) : s[n] = c
    BY DEF ToSet
  <2>3. \A n \in 1 .. Len(s) : n \in 1 .. Len(t)
    BY <1>1
  <2>4. Len(s) + 1 \in 1 .. Len(t)
    BY <1>1
  <2>. QED BY <2>1, <2>2, <2>3, <2>4, <1>1, <1>2
<1>5. t # <<>>
  BY <1>1
<1>. QED BY <1>1, <1>3, <1>4, <1>5 DEF t

LEMMA ImageCount ==
    ASSUME NEW S, IsFiniteSet(S), NEW f, \A i, j \in S : f[i] = f[j] => i = j
    PROVE  /\ IsFiniteSet({f[i] : i \in S})
           /\ Cardinality({f[i] : i \in S}) = Cardinality(S)
<1>. DEFINE T == {f[i] : i \in S}
            g == [i \in S |-> f[i]]
<1>1. g \in [S -> T] /\ (\A i, j \in S : g[i] = g[j] => i = j)
      /\ (\A t \in T : \E i \in S : g[i] = t)
  OBVIOUS
<1>2. ExistsBijection(S, T)
  <2>. HIDE DEF g, T
  <2>. QED BY <1>1 DEF ExistsBijection, Bijection, Injection, Surjection, IsInjective
<1>. QED BY <1>2, FS_Bijection

Waiting(r) == {a \in ToSet(waiters[r]) : job[r][a] = "waiting"}

\* What Wake does: k permits go to k of those waiting, to all of them if any
\* permit that may be handed over is left.
Wakes(r, v, n, jobs, k, woken) ==
    /\ k \in Nat /\ k <= v /\ k <= n
    /\ woken \subseteq Waiting(r) /\ IsFiniteSet(woken) /\ Cardinality(woken) = k
    /\ k < v /\ k < n => woken = Waiting(r)
    /\ permits' = [permits EXCEPT ![r] = v - k]
    /\ job' = [jobs EXCEPT ![r] =
          [a \in Raw |-> IF a \in woken THEN "granted" ELSE jobs[r][a]]]

LEMMA WakeWakes ==
    ASSUME NEW r \in Runs, waiters[r] \in Seq(Raw), Distinct(waiters[r]),
           NEW v \in Nat, NEW n \in Nat, NEW jobs \in [Runs -> [Raw -> JobStates]],
           Wake(r, v, n, jobs)
    PROVE  \E k, woken : Wakes(r, v, n, jobs, k, woken)
<1>. DEFINE S == Sleepers(r)
            w == waiters[r]
            R == {p \in S \X S : p[1] < p[2]}
            k == Min({v, n, Cardinality(S)})
            first == {i \in S : Cardinality({j \in S : j < i}) < k}
            woken == {w[i] : i \in first}
<1>1. S \in SUBSET (1 .. Len(w)) /\ Len(w) \in Nat /\ DOMAIN w = 1 .. Len(w)
  BY Members DEF Sleepers
<1>2. IsFiniteSet(S) /\ Cardinality(S) \in Nat
  <2>1. IsFiniteSet(1 .. Len(w))
    BY <1>1, FS_Interval
  <2>. QED BY <1>1, <2>1, FS_Subset, FS_CardinalityType
<1>3. k \in Nat /\ k <= v /\ k <= n /\ k <= Cardinality(S)
      /\ (k < v /\ k < n => k = Cardinality(S))
  <2>1. k = IF v <= n THEN (IF v <= Cardinality(S) THEN v ELSE Cardinality(S))
            ELSE (IF n <= Cardinality(S) THEN n ELSE Cardinality(S))
    BY <1>2, MinOfThree
  <2>. HIDE DEF k, S
  <2>. QED BY <1>2, <2>1
<1>4. \A i, j \in S : <<i, j>> \in R <=> i < j
  OBVIOUS
<1>5. Orders(R, S)
  <2>1. \A i \in S : i \in Nat
    BY <1>1
  <2>. HIDE DEF R, S
  <2>. QED BY <2>1, <1>4 DEF Orders
<1>6. first = FirstOf(R, S, k)
  <2>1. \A i \in S : Below(R, S, i) = {j \in S : j < i}
    BY <1>4 DEF Below
  <2>. HIDE DEF R, S, k
  <2>. QED BY <2>1 DEF FirstOf
<1>7. Cardinality(first) = k
  <2>1. k \in 0 .. Cardinality(S)
    BY <1>2, <1>3
  <2>. HIDE DEF R, S, k, first
  <2>. QED BY <1>2, <1>5, <1>6, <2>1, Places
<1>8. first \in SUBSET S /\ IsFiniteSet(first)
  <2>1. first \in SUBSET S
    OBVIOUS
  <2>. HIDE DEF first, S
  <2>. QED BY <2>1, <1>2, FS_Subset
<1>9. IsFiniteSet(woken) /\ Cardinality(woken) = k
  <2>1. \A i, j \in first : w[i] = w[j] => i = j
    BY <1>1, <1>8 DEF Distinct
  <2>. HIDE DEF first, k, w
  <2>. QED BY <2>1, <1>7, <1>8, ImageCount
<1>10. woken \subseteq Waiting(r)
  <2>1. \A i \in S : w[i] \in Waiting(r)
    BY <1>1, Members DEF Sleepers, Waiting
  <2>. HIDE DEF S, w
  <2>. QED BY <2>1, <1>8
<1>11. ASSUME k < v, k < n PROVE woken = Waiting(r)
  <2>1. first = S
    <3>. HIDE DEF first, S, k
    <3>. QED BY <1>11, <1>2, <1>3, <1>7, <1>8, FS_Subset
  <2>2. \A a \in Waiting(r) : \E i \in S : w[i] = a
    BY <1>1, Members DEF Sleepers, Waiting
  <2>. HIDE DEF S, first, w
  <2>. QED BY <2>1, <2>2, <1>10
<1>12. /\ permits' = [permits EXCEPT ![r] = v - k]
       /\ job' = [jobs EXCEPT ![r] =
             [a \in Raw |-> IF a \in woken THEN "granted" ELSE jobs[r][a]]]
  BY Zenon DEF Wake
<1>. HIDE DEF k, woken
<1>13. Wakes(r, v, n, jobs, k, woken)
  BY <1>3, <1>9, <1>10, <1>11, <1>12 DEF Wakes
<1>. QED BY <1>13

(***************************************************************************)
(* The steps of the single analyses.                                       *)
(***************************************************************************)

\* What no step of another run changes of a run.
Frame(o) ==
    /\ port'[o] = port[o] /\ found'[o] = found[o] /\ stage'[o] = stage[o]
    /\ articles'[o] = articles[o] /\ result'[o] = result[o] /\ job'[o] = job[o]
    /\ confidence'[o] = confidence[o] /\ permits'[o] = permits[o]
    /\ waiters'[o] = waiters[o] /\ ticket'[o] = ticket[o]

\* What a step of an analysis leaves alone in its own run.
JobMoves(r) ==
    /\ port' = port /\ found' = found /\ stage' = stage
    /\ articles' = articles /\ result' = result
    /\ \A c \in Raw : job[r][c] \in {"none", "ok", "failed"} => job'[r][c] = job[r][c]
    /\ \A c \in Raw : job[r][c] = "ok" => confidence'[r][c] = confidence[r][c]

JobStepKeeps(r) ==
    /\ TypeOK' /\ SemaphoreInv(r)' /\ JobMoves(r)
    /\ \A o \in Runs \ {r} : Frame(o)

LEMMA NormalizeKeeps ==
    ASSUME TypeOK, NEW r \in Runs, NEW a \in Raw, Normalize(r, a)
    PROVE  /\ normalized' \in Seq(Raw) /\ analyses' \subseteq DOMAIN normalized'
           /\ ticket' \in [Runs -> [Raw -> 0 .. Len(normalized')]]
           /\ ticket'[r][a] # 0
           /\ \A c \in Raw \ {a} : ticket'[r][c] = ticket[r][c]
           /\ \A o \in Runs \ {r} : ticket'[o] = ticket[o]
<1>1. /\ normalized \in Seq(Raw) /\ Len(normalized) \in Nat
      /\ analyses \subseteq 1 .. Len(normalized)
      /\ ticket \in [Runs -> [Raw -> 0 .. Len(normalized)]]
  BY Members DEF TypeOK
<1>2. /\ normalized' \in Seq(Raw) /\ Len(normalized') = Len(normalized) + 1
      /\ DOMAIN normalized' = 1 .. Len(normalized) + 1
  BY <1>1 DEF Normalize
<1>3. ticket' = [ticket EXCEPT ![r][a] = Len(normalized) + 1] /\ analyses' = analyses
  BY DEF Normalize, NewId
<1>4. \A n \in 0 .. Len(normalized) : n \in 0 .. Len(normalized')
  BY <1>1, <1>2
<1>5. Len(normalized) + 1 \in 0 .. Len(normalized') /\ Len(normalized) + 1 # 0
  BY <1>1, <1>2
<1>6. ticket' \in [Runs -> [Raw -> 0 .. Len(normalized')]]
  BY <1>1, <1>3, <1>4, <1>5
<1>7. analyses' \subseteq DOMAIN normalized'
  BY <1>1, <1>2, <1>3
<1>. QED BY <1>1, <1>2, <1>3, <1>5, <1>6, <1>7

\* The counter stays in its range.
LEMMA PermitsInRange ==
    ASSUME NEW r \in Runs, permits \in [Runs -> 0 .. Limit], NEW v \in Nat,
           permits' = [permits EXCEPT ![r] = v], PermitInv(r)'
    PROVE  permits' \in [Runs -> 0 .. Limit]
<1>1. Limit \in Nat /\ Cardinality(Holders(r)') \in Nat
  BY AnalysisAssumption, FS_CardinalityType DEF PermitInv
<1>2. permits'[r] = v /\ permits'[r] + Cardinality(Holders(r)') = Limit
  BY DEF PermitInv
<1>3. v \in 0 .. Limit
  BY <1>1, <1>2
<1>. QED BY <1>3

LEMMA AcquireKeeps ==
    ASSUME TypeOK, NEW r \in Runs, SemaphoreInv(r), NEW a \in Raw, Acquire(r, a)
    PROVE  JobStepKeeps(r)
<1>1. /\ job[r][a] = "queued" /\ permits[r] # 0 /\ waiters[r] = <<>>
      /\ permits' = [permits EXCEPT ![r] = @ - 1]
      /\ job' = [job EXCEPT ![r][a] = "running"]
      /\ UNCHANGED <<port, found, stage, articles, result, confidence, waiters>>
      /\ Normalize(r, a)
  BY DEF Acquire, Locked
<1>2. /\ job \in [Runs -> [Raw -> JobStates]] /\ permits \in [Runs -> 0 .. Limit]
      /\ permits[r] \in Nat /\ Limit \in Nat
  BY AnalysisAssumption DEF TypeOK
<1>3. /\ job'[r][a] = "running" /\ \A c \in Raw \ {a} : job'[r][c] = job[r][c]
      /\ \A o \in Runs \ {r} : job'[o] = job[o] /\ permits'[o] = permits[o]
      /\ permits'[r] = permits[r] - 1
  BY <1>1, <1>2
<1>4. Holders(r)' = Holders(r) \cup {a} /\ a \notin Holders(r)
  BY <1>1, <1>3 DEF Holders
<1>5. PermitInv(r)'
  <2>1. /\ IsFiniteSet(Holders(r)) /\ Cardinality(Holders(r)) \in Nat
        /\ permits[r] + Cardinality(Holders(r)) = Limit
    BY FS_CardinalityType DEF SemaphoreInv, PermitInv
  <2>2. /\ IsFiniteSet(Holders(r) \cup {a})
        /\ Cardinality(Holders(r) \cup {a}) = Cardinality(Holders(r)) + 1
    BY <1>4, <2>1, FS_AddElement
  <2>3. (permits[r] - 1) + (Cardinality(Holders(r)) + 1) = Limit
    BY <1>2, <2>1
  <2>. QED BY <1>3, <1>4, <2>2, <2>3 DEF PermitInv
<1>6. QueueInv(r)'
  BY <1>1, <1>3 DEF SemaphoreInv, QueueInv, Distinct
<1>7. TicketInv(r)'
  <2>1. ticket'[r][a] # 0 /\ \A c \in Raw \ {a} : ticket'[r][c] = ticket[r][c]
    BY <1>1, NormalizeKeeps, Zenon
  <2>2. \A c \in Raw : job[r][c] = "running" => ticket[r][c] # 0
    BY Zenon DEF SemaphoreInv, TicketInv
  <2>. QED BY <1>3, <2>1, <2>2 DEF TicketInv
<1>8. TypeOK'
  <2>1. job' \in [Runs -> [Raw -> JobStates]]
    BY <1>1, <1>2 DEF JobStates
  <2>2. permits' \in [Runs -> 0 .. Limit]
    <3>1. permits[r] - 1 \in Nat /\ permits' = [permits EXCEPT ![r] = permits[r] - 1]
      BY <1>1, <1>2
    <3>. QED BY <1>2, <1>5, <3>1, PermitsInRange
  <2>. QED BY <1>1, <2>1, <2>2, NormalizeKeeps DEF TypeOK
<1>9. JobMoves(r)
  BY <1>1, <1>3 DEF JobMoves
<1>10. \A o \in Runs \ {r} : Frame(o)
  BY <1>1, <1>3, NormalizeKeeps DEF Frame
<1>. QED BY <1>5, <1>6, <1>7, <1>8, <1>9, <1>10 DEF JobStepKeeps, SemaphoreInv

LEMMA EnqueueKeeps ==
    ASSUME TypeOK, NEW r \in Runs, SemaphoreInv(r), NEW a \in Raw, Enqueue(r, a)
    PROVE  JobStepKeeps(r)
<1>1. /\ permits[r] = 0 \/ waiters[r] # <<>>
      /\ waiters' = [waiters EXCEPT ![r] = Append(waiters[r], a)]
      /\ job' = [job EXCEPT ![r][a] = "waiting"]
      /\ UNCHANGED <<port, found, stage, articles, result, confidence, permits,
                     normalized, analyses, ticket>>
      /\ job[r][a] = "queued"
  BY DEF Enqueue, Locked, repositories
<1>2. /\ job \in [Runs -> [Raw -> JobStates]] /\ waiters \in [Runs -> Seq(Raw)]
      /\ waiters[r] \in Seq(Raw) /\ Distinct(waiters[r]) /\ a \notin ToSet(waiters[r])
  BY <1>1 DEF TypeOK, SemaphoreInv, QueueInv
<1>. DEFINE w == Append(waiters[r], a)
<1>3. /\ w \in Seq(Raw) /\ Distinct(w) /\ w # <<>>
      /\ \A c \in Raw : c \in ToSet(w) <=> c \in ToSet(waiters[r]) \/ c = a
  BY <1>2, Queueing
<1>. HIDE DEF w
<1>4. /\ job'[r][a] = "waiting" /\ \A c \in Raw \ {a} : job'[r][c] = job[r][c]
      /\ \A o \in Runs \ {r} : job'[o] = job[o] /\ waiters'[o] = waiters[o]
      /\ waiters'[r] = w
  BY <1>1, <1>2 DEF w
<1>5. Holders(r)' = Holders(r)
  BY <1>1, <1>4 DEF Holders
<1>6. PermitInv(r)'
  BY <1>1, <1>5 DEF SemaphoreInv, PermitInv
<1>7. QueueInv(r)'
  BY <1>3, <1>4 DEF SemaphoreInv, QueueInv
<1>9. TicketInv(r)'
  BY <1>1, <1>4 DEF SemaphoreInv, TicketInv
<1>10. TypeOK'
  <2>1. job' \in [Runs -> [Raw -> JobStates]]
    BY <1>1, <1>2 DEF JobStates
  <2>2. waiters' \in [Runs -> Seq(Raw)]
    BY <1>1, <1>2, <1>3 DEF w
  <2>. QED BY <1>1, <2>1, <2>2 DEF TypeOK
<1>11. JobMoves(r)
  BY <1>1, <1>4 DEF JobMoves
<1>12. \A o \in Runs \ {r} : Frame(o)
  BY <1>1, <1>4 DEF Frame
<1>. QED BY <1>6, <1>7, <1>9, <1>10, <1>11, <1>12 DEF JobStepKeeps, SemaphoreInv

\* What is left of v permits, and what becomes of the analyses of a run, when
\* that of a becomes x and those in woken are woken.
WokenJobs(r, a, x, v, k, woken) ==
    /\ job' \in [Runs -> [Raw -> JobStates]]
    /\ job'[r][a] = x
    /\ woken \subseteq Raw
    /\ \A c \in woken : job'[r][c] = "granted" /\ job[r][c] = "waiting"
    /\ \A c \in Raw : c # a /\ c \notin woken => job'[r][c] = job[r][c]
    /\ \A o \in Runs \ {r} : job'[o] = job[o] /\ permits'[o] = permits[o]
    /\ permits' = [permits EXCEPT ![r] = v - k] /\ permits'[r] = v - k
    /\ v - k \in Nat

LEMMA WakesJobs ==
    ASSUME TypeOK, NEW r \in Runs, NEW a \in Raw, NEW x \in JobStates,
           NEW v \in Nat, NEW n \in Nat, NEW k, NEW woken, a \notin woken,
           Wakes(r, v, n, [job EXCEPT ![r][a] = x], k, woken)
    PROVE  WokenJobs(r, a, x, v, k, woken)
<1>. DEFINE jobs == [job EXCEPT ![r][a] = x]
            g == [c \in Raw |-> IF c \in woken THEN "granted" ELSE jobs[r][c]]
<1>1. /\ job \in [Runs -> [Raw -> JobStates]] /\ permits \in [Runs -> 0 .. Limit]
      /\ waiters[r] \in Seq(Raw)
  BY DEF TypeOK
<1>2. /\ k \in Nat /\ k <= v /\ woken \subseteq Waiting(r)
      /\ permits' = [permits EXCEPT ![r] = v - k]
      /\ job' = [jobs EXCEPT ![r] = g]
  BY DEF Wakes
<1>3. woken \subseteq Raw /\ \A c \in woken : job[r][c] = "waiting"
  BY <1>1, <1>2, Members DEF Waiting
<1>4. /\ jobs \in [Runs -> [Raw -> JobStates]] /\ jobs[r][a] = x
      /\ \A c \in Raw : c # a => jobs[r][c] = job[r][c]
      /\ \A o \in Runs \ {r} : jobs[o] = job[o]
  BY <1>1
<1>5. g \in [Raw -> JobStates]
  <2>. HIDE DEF jobs
  <2>. QED BY <1>4 DEF JobStates
<1>6. \A c \in Raw : g[c] = IF c \in woken THEN "granted" ELSE jobs[r][c]
  OBVIOUS
<1>. HIDE DEF jobs, g
<1>7. /\ job' \in [Runs -> [Raw -> JobStates]] /\ job'[r] = g
      /\ \A o \in Runs \ {r} : job'[o] = job[o]
  BY <1>2, <1>4, <1>5
<1>8. /\ permits'[r] = v - k /\ v - k \in Nat
      /\ \A o \in Runs \ {r} : permits'[o] = permits[o]
  BY <1>1, <1>2
<1>. QED BY <1>2, <1>3, <1>4, <1>6, <1>7, <1>8 DEF WokenJobs

LEMMA ResumeKeeps ==
    ASSUME TypeOK, NEW r \in Runs, SemaphoreInv(r), NEW a \in Raw, Resume(r, a)
    PROVE  JobStepKeeps(r)
<1>. DEFINE jobs == [job EXCEPT ![r][a] = "running"]
<1>1. /\ job[r][a] = "granted"
      /\ Wake(r, permits[r], permits[r], jobs)
      /\ Normalize(r, a)
      /\ UNCHANGED <<port, found, stage, articles, result, confidence>>
  BY DEF Resume
<1>2. PICK i \in DOMAIN waiters[r] :
         waiters[r][i] = a /\ waiters' = [waiters EXCEPT ![r] = RemoveAt(waiters[r], i)]
  BY DEF Resume
<1>3. /\ job \in [Runs -> [Raw -> JobStates]] /\ waiters \in [Runs -> Seq(Raw)]
      /\ waiters[r] \in Seq(Raw) /\ Distinct(waiters[r])
      /\ permits \in [Runs -> 0 .. Limit] /\ permits[r] \in Nat
      /\ jobs \in [Runs -> [Raw -> JobStates]]
      /\ i \in 1 .. Len(waiters[r])
  <2>1. /\ job \in [Runs -> [Raw -> JobStates]] /\ waiters \in [Runs -> Seq(Raw)]
        /\ permits \in [Runs -> 0 .. Limit]
    BY DEF TypeOK
  <2>2. Distinct(waiters[r])
    BY Zenon DEF SemaphoreInv, QueueInv
  <2>3. waiters[r] \in Seq(Raw) /\ permits[r] \in Nat
    BY <2>1, AnalysisAssumption
  <2>4. "running" \in JobStates
    BY DEF JobStates
  <2>5. jobs \in [Runs -> [Raw -> JobStates]]
    BY <2>1, <2>4
  <2>. QED BY <1>2, <2>1, <2>2, <2>3, <2>5
<1>. DEFINE w == RemoveAt(waiters[r], i)
<1>4. /\ w \in Seq(Raw) /\ Distinct(w)
      /\ \A c \in Raw : c \in ToSet(w) <=> c \in ToSet(waiters[r]) /\ c # a
  BY <1>2, <1>3, Taking
<1>5. /\ waiters' = [waiters EXCEPT ![r] = w] /\ waiters'[r] = w
      /\ \A o \in Runs \ {r} : waiters'[o] = waiters[o]
  BY <1>2, <1>3
<1>. HIDE DEF w, jobs
<1>6. PICK k, woken : Wakes(r, permits[r], permits[r], jobs, k, woken)
  BY <1>1, <1>3, WakeWakes
<1>7. /\ woken \subseteq Waiting(r) /\ IsFiniteSet(woken) /\ Cardinality(woken) = k
      /\ k \in Nat /\ k <= permits[r]
      /\ k < permits[r] => woken = Waiting(r)
  BY <1>6 DEF Wakes
<1>8. a \notin woken /\ "running" \in JobStates
  BY <1>1, <1>7 DEF Waiting, JobStates
<1>9. /\ job' \in [Runs -> [Raw -> JobStates]]
      /\ job'[r][a] = "running"
      /\ woken \subseteq Raw
      /\ \A c \in woken : job'[r][c] = "granted" /\ job[r][c] = "waiting"
      /\ \A c \in Raw : c # a /\ c \notin woken => job'[r][c] = job[r][c]
      /\ \A o \in Runs \ {r} : job'[o] = job[o] /\ permits'[o] = permits[o]
      /\ permits' = [permits EXCEPT ![r] = permits[r] - k]
      /\ permits'[r] = permits[r] - k
      /\ permits[r] - k \in Nat
  <2>1. Wakes(r, permits[r], permits[r], [job EXCEPT ![r][a] = "running"], k, woken)
    BY <1>6 DEF jobs
  <2>2. WokenJobs(r, a, "running", permits[r], k, woken)
    BY <2>1, <1>3, <1>8, WakesJobs
  <2>. QED BY <2>2 DEF WokenJobs
<1>10. /\ Holders(r)' = Holders(r) \cup woken
       /\ Holders(r) \cap woken = {}
  BY <1>1, <1>9 DEF Holders
<1>11. PermitInv(r)'
  <2>1. /\ IsFiniteSet(Holders(r)) /\ Cardinality(Holders(r)) \in Nat
        /\ permits[r] + Cardinality(Holders(r)) = Limit /\ Limit \in Nat
    BY FS_CardinalityType, AnalysisAssumption DEF SemaphoreInv, PermitInv
  <2>2. /\ IsFiniteSet(Holders(r) \cup woken)
        /\ Cardinality(Holders(r) \cup woken) = Cardinality(Holders(r)) + k
    <3>1. /\ IsFiniteSet(Holders(r) \cup woken)
          /\ Cardinality(Holders(r) \cup woken) =
                Cardinality(Holders(r)) + Cardinality(woken) - Cardinality({})
      BY <1>7, <1>10, <2>1, FS_Union
    <3>. QED BY <3>1, <1>7, <2>1, FS_EmptySet
  <2>3. (permits[r] - k) + (Cardinality(Holders(r)) + k) = Limit
    BY <1>3, <1>7, <2>1
  <2>. QED BY <1>9, <1>10, <2>2, <2>3 DEF PermitInv
<1>12. QueueInv(r)'
  <2>1. ASSUME NEW c \in Raw
        PROVE  c \in ToSet(w) <=> job'[r][c] \in {"waiting", "granted"}
    <3>1. c \in ToSet(waiters[r]) <=> job[r][c] \in {"waiting", "granted"}
      BY DEF SemaphoreInv, QueueInv
    <3>. QED BY <1>4, <1>9, <3>1
  <2>. QED BY <1>4, <1>5, <2>1 DEF QueueInv
<1>14. TicketInv(r)'
  <2>1. \A c \in Raw : c # a /\ job'[r][c] = "running" => job[r][c] = "running"
    BY <1>9
  <2>. QED BY <2>1, <1>1, NormalizeKeeps DEF SemaphoreInv, TicketInv
<1>15. TypeOK'
  <2>1. permits' \in [Runs -> 0 .. Limit]
    BY <1>3, <1>9, <1>11, PermitsInRange
  <2>2. waiters' \in [Runs -> Seq(Raw)]
    BY <1>3, <1>4, <1>5
  <2>. QED BY <1>1, <1>9, <2>1, <2>2, NormalizeKeeps DEF TypeOK
<1>16. JobMoves(r)
  BY <1>1, <1>9 DEF JobMoves
<1>17. \A o \in Runs \ {r} : Frame(o)
  BY <1>1, <1>5, <1>9, NormalizeKeeps DEF Frame
<1>. QED BY <1>11, <1>12, <1>14, <1>15, <1>16, <1>17 DEF JobStepKeeps, SemaphoreInv

\* An analysis ends: its permit goes to the first who waits, or back.
LEMMA ReleaseKeeps ==
    ASSUME TypeOK, NEW r \in Runs, SemaphoreInv(r), NEW a \in Raw,
           NEW outcome \in {"ok", "failed"}, job[r][a] = "running",
           Release(r, a, outcome),
           UNCHANGED <<port, found, stage, articles, result, waiters, normalized,
                       ticket>>,
           confidence' \in [Runs -> [Raw -> Confidences \cup {0}]],
           \A o \in Runs, c \in Raw :
              <<o, c>> # <<r, a>> => confidence'[o][c] = confidence[o][c],
           \A o \in Runs \ {r} : confidence'[o] = confidence[o],
           analyses' \subseteq DOMAIN normalized
    PROVE  JobStepKeeps(r)
<1>. DEFINE jobs == [job EXCEPT ![r][a] = outcome]
<1>1. Wake(r, permits[r] + 1, 1, jobs)
  BY DEF Release
<1>3. /\ job \in [Runs -> [Raw -> JobStates]]
      /\ waiters[r] \in Seq(Raw) /\ Distinct(waiters[r])
      /\ permits \in [Runs -> 0 .. Limit] /\ permits[r] \in Nat
      /\ permits[r] + 1 \in Nat /\ 1 \in Nat
      /\ jobs \in [Runs -> [Raw -> JobStates]]
      /\ outcome \in JobStates
  BY AnalysisAssumption DEF TypeOK, SemaphoreInv, QueueInv, JobStates
<1>. HIDE DEF jobs
<1>6. PICK k, woken : Wakes(r, permits[r] + 1, 1, jobs, k, woken)
  BY <1>1, <1>3, WakeWakes
<1>7. /\ woken \subseteq Waiting(r) /\ IsFiniteSet(woken) /\ Cardinality(woken) = k
      /\ k \in Nat /\ k <= permits[r] + 1 /\ k <= 1
      /\ k < permits[r] + 1 /\ k < 1 => woken = Waiting(r)
  BY <1>6 DEF Wakes
<1>8. a \notin woken
  BY <1>7 DEF Waiting
<1>9. /\ job' \in [Runs -> [Raw -> JobStates]]
      /\ job'[r][a] = outcome
      /\ woken \subseteq Raw
      /\ \A c \in woken : job'[r][c] = "granted" /\ job[r][c] = "waiting"
      /\ \A c \in Raw : c # a /\ c \notin woken => job'[r][c] = job[r][c]
      /\ \A o \in Runs \ {r} : job'[o] = job[o] /\ permits'[o] = permits[o]
      /\ permits' = [permits EXCEPT ![r] = (permits[r] + 1) - k]
      /\ permits'[r] = (permits[r] + 1) - k
      /\ (permits[r] + 1) - k \in Nat
  <2>1. Wakes(r, permits[r] + 1, 1, [job EXCEPT ![r][a] = outcome], k, woken)
    BY <1>6 DEF jobs
  <2>2. WokenJobs(r, a, outcome, permits[r] + 1, k, woken)
    BY <2>1, <1>3, <1>8, WakesJobs
  <2>. QED BY <2>2 DEF WokenJobs
<1>10. /\ Holders(r)' = (Holders(r) \ {a}) \cup woken
       /\ (Holders(r) \ {a}) \cap woken = {} /\ a \in Holders(r)
  BY <1>9 DEF Holders
<1>11. PermitInv(r)'
  <2>1. /\ IsFiniteSet(Holders(r)) /\ Cardinality(Holders(r)) \in Nat
        /\ permits[r] + Cardinality(Holders(r)) = Limit /\ Limit \in Nat
    BY FS_CardinalityType, AnalysisAssumption DEF SemaphoreInv, PermitInv
  <2>. DEFINE H == Holders(r) \ {a}
  <2>2. IsFiniteSet(H) /\ Cardinality(H) = Cardinality(Holders(r)) - 1
        /\ Cardinality(H) \in Nat
    BY <1>10, <2>1, FS_RemoveElement, FS_CardinalityType
  <2>. HIDE DEF H
  <2>3. /\ IsFiniteSet(H \cup woken)
        /\ Cardinality(H \cup woken) = Cardinality(H) + k
    <3>1. H \cap woken = {}
      BY <1>10 DEF H
    <3>2. /\ IsFiniteSet(H \cup woken)
          /\ Cardinality(H \cup woken) =
                Cardinality(H) + Cardinality(woken) - Cardinality(H \cap woken)
      BY <1>7, <2>2, FS_Union, Zenon
    <3>3. Cardinality(H \cap woken) = 0
      BY <3>1, FS_EmptySet, Zenon
    <3>. QED BY <3>2, <3>3, <1>7, <2>2
  <2>4. ((permits[r] + 1) - k) + (Cardinality(H) + k) = Limit
    BY <1>3, <1>7, <2>1, <2>2
  <2>. QED BY <1>9, <1>10, <2>3, <2>4 DEF PermitInv, H
<1>12. QueueInv(r)'
  <2>1. ASSUME NEW c \in Raw
        PROVE  c \in ToSet(waiters[r]) <=> job'[r][c] \in {"waiting", "granted"}
    <3>1. c \in ToSet(waiters[r]) <=> job[r][c] \in {"waiting", "granted"}
      BY DEF SemaphoreInv, QueueInv
    <3>. QED BY <1>9, <3>1
  <2>. QED BY <1>3, <2>1 DEF QueueInv, Distinct
<1>14. TicketInv(r)'
  <2>1. \A c \in Raw : job'[r][c] = "running" => job[r][c] = "running"
    BY <1>9
  <2>. QED BY <2>1 DEF SemaphoreInv, TicketInv
<1>15. TypeOK'
  <2>1. permits' \in [Runs -> 0 .. Limit]
    BY <1>3, <1>9, <1>11, PermitsInRange
  <2>. QED BY <1>9, <2>1 DEF TypeOK
<1>16. JobMoves(r)
  BY <1>9 DEF JobMoves
<1>17. \A o \in Runs \ {r} : Frame(o)
  BY <1>9 DEF Frame
<1>. QED BY <1>11, <1>12, <1>14, <1>15, <1>16, <1>17 DEF JobStepKeeps, SemaphoreInv

LEMMA JobStepsKeep ==
    ASSUME TypeOK, NEW r \in Runs, SemaphoreInv(r), NEW a \in Raw, JobStep(r, a)
    PROVE  JobStepKeeps(r)
<1>1. CASE Acquire(r, a)
  BY <1>1, AcquireKeeps
<1>2. CASE Enqueue(r, a)
  BY <1>2, EnqueueKeeps
<1>3. CASE Resume(r, a)
  BY <1>3, ResumeKeeps
<1>4. CASE Analyzed(r, a)
  <2>1. PICK c \in Confidences : confidence' = [confidence EXCEPT ![r][a] = c]
    BY <1>4 DEF Analyzed
  <2>2. confidence \in [Runs -> [Raw -> Confidences \cup {0}]]
    BY DEF TypeOK
  <2>3. /\ confidence' \in [Runs -> [Raw -> Confidences \cup {0}]]
        /\ \A o \in Runs, d \in Raw :
              <<o, d>> # <<r, a>> => confidence'[o][d] = confidence[o][d]
        /\ \A o \in Runs \ {r} : confidence'[o] = confidence[o]
    BY <2>1, <2>2
  <2>4. analyses' \subseteq DOMAIN normalized
    <3>1. job[r][a] = "running" /\ analyses' = analyses \cup {ticket[r][a]}
      BY <1>4 DEF Analyzed
    <3>2. ticket[r][a] \in 1 .. Len(normalized)
      <4>1. ticket[r][a] \in 0 .. Len(normalized) /\ ticket[r][a] # 0
            /\ Len(normalized) \in Nat
        BY <3>1, Members DEF TypeOK, SemaphoreInv, TicketInv
      <4>. QED BY <4>1
    <3>. QED BY <3>1, <3>2, Members DEF TypeOK
  <2>. QED BY <1>4, <2>3, <2>4, ReleaseKeeps DEF Analyzed
<1>5. CASE AnalysisFails(r, a)
  <2>1. /\ confidence' = confidence /\ analyses' = analyses
        /\ UNCHANGED <<port, found, stage, articles, result, waiters, normalized, ticket>>
    BY <1>5 DEF AnalysisFails, repositories
  <2>2. confidence \in [Runs -> [Raw -> Confidences \cup {0}]]
        /\ analyses \subseteq DOMAIN normalized
    BY DEF TypeOK
  <2>. QED BY <1>5, <2>1, <2>2, ReleaseKeeps DEF AnalysisFails
<1>. QED BY <1>1, <1>2, <1>3, <1>4, <1>5 DEF JobStep

(***************************************************************************)
(* The batches.                                                            *)
(***************************************************************************)

LEMMA FrameKeeps ==
    ASSUME NEW o \in Runs, RunInv(o), Frame(o)
    PROVE  RunInv(o)'
<1>1. SemaphoreInv(o)'
  <2>1. Holders(o)' = Holders(o)
    BY DEF Frame, Holders
  <2>. QED BY <2>1 DEF Frame, RunInv, SemaphoreInv, QueueInv, PermitInv,
                       TicketInv
<1>2. CollectionInv(o)'
  BY DEF Frame, RunInv, CollectionInv
<1>3. \A b \in Batches : BatchInv(o, b)'
  <2>1. ASSUME NEW b \in Batches PROVE BatchInv(o, b)'
    <3>1. /\ port'[o] = port[o] /\ found'[o] = found[o] /\ stage'[o] = stage[o]
          /\ articles'[o] = articles[o] /\ result'[o] = result[o] /\ job'[o] = job[o]
          /\ confidence'[o] = confidence[o]
      BY DEF Frame
    <3>2. NotYet(o, b)' = NotYet(o, b)
      BY <3>1 DEF NotYet
    <3>3. Wins(o, articles[o][b], Len(articles[o][b]), result[o][b])'
             = Wins(o, articles[o][b], Len(articles[o][b]), result[o][b])
      BY <3>1 DEF Wins
    <3>4. BatchInv(o, b)
      BY DEF RunInv
    <3>. QED BY <3>1, <3>2, <3>3, <3>4 DEF BatchInv
  <2>. QED BY <2>1
<1>. QED BY <1>1, <1>2, <1>3 DEF RunInv

\* What a step elsewhere in the run changes of a batch.
Untouched(r, b) ==
    /\ port'[r] = port[r] /\ found'[r][b] = found[r][b] /\ stage'[r][b] = stage[r][b]
    /\ articles'[r][b] = articles[r][b] /\ result'[r][b] = result[r][b]
    /\ \A a \in ToSet(found[r][b]) :
          /\ job[r][a] \in {"none", "ok", "failed"} => job'[r][a] = job[r][a]
          /\ job[r][a] = "ok" => confidence'[r][a] = confidence[r][a]

LEMMA UntouchedKeeps ==
    ASSUME TypeOK, NEW r \in Runs, NEW b \in Batches, BatchInv(r, b), Untouched(r, b)
    PROVE  BatchInv(r, b)'
<1>. DEFINE list == articles[r][b]
            F == ToSet(found[r][b])
<1>1. /\ port'[r] = port[r] /\ found'[r][b] = found[r][b] /\ stage'[r][b] = stage[r][b]
      /\ articles'[r][b] = list /\ result'[r][b] = result[r][b]
      /\ \A a \in F :
            /\ job[r][a] \in {"none", "ok", "failed"} => job'[r][a] = job[r][a]
            /\ job[r][a] = "ok" => confidence'[r][a] = confidence[r][a]
  BY DEF Untouched
<1>2. list \in Seq(Raw) /\ ToSet(list) \subseteq F
  BY DEF BatchInv, SelectionOf
<1>3. ASSUME stage[r][b] = "done", ~port[r]
      PROVE  /\ \A a \in ToSet(list) : job'[r][a] \in {"ok", "failed"}
             /\ Wins(r, list, Len(list), result[r][b])'
  <2>1. /\ \A a \in ToSet(list) : job[r][a] \in {"ok", "failed"}
        /\ Wins(r, list, Len(list), result[r][b])
    BY <1>3 DEF BatchInv
  <2>2. \A a \in ToSet(list) : job'[r][a] = job[r][a]
    BY <1>1, <1>2, <2>1
  <2>3. \A i \in 1 .. Len(list) :
           /\ job'[r][list[i]] = job[r][list[i]]
           /\ job[r][list[i]] = "ok" =>
                 confidence'[r][list[i]] = confidence[r][list[i]]
    BY <1>1, <1>2, <2>2, Members
  <2>. HIDE DEF F
  <2>4. list' = list /\ result'[r][b] = result[r][b]
    BY <1>1
  <2>. DEFINE good == {i \in 1 .. Len(list) : job[r][list[i]] = "ok"}
  <2>5. good' = good
    BY <2>3, <2>4
  <2>6. \A i \in good : confidence'[r][list[i]] = confidence[r][list[i]]
    BY <2>3
  <2>. HIDE DEF good
  <2>7. Wins(r, list, Len(list), result[r][b])'
    <3>1. IF good = {} THEN result[r][b] = NoArticle
          ELSE \E i \in good :
                /\ result[r][b] = list[i]
                /\ \A j \in good :
                      /\ confidence[r][list[j]] <= confidence[r][list[i]]
                      /\ j < i => confidence[r][list[j]] < confidence[r][list[i]]
      BY <2>1 DEF Wins, good
    <3>. HIDE DEF list
    <3>2. IF good' = {} THEN result'[r][b] = NoArticle
          ELSE \E i \in good' :
                /\ result'[r][b] = list'[i]
                /\ \A j \in good' :
                      /\ confidence'[r][list'[j]] <= confidence'[r][list'[i]]
                      /\ j < i => confidence'[r][list'[j]] < confidence'[r][list'[i]]
      BY <3>1, <2>4, <2>5, <2>6
    <3>. QED BY <3>2 DEF Wins, good
  <2>. QED BY <2>1, <2>2, <2>7
<1>4. ASSUME stage[r][b] = "done", result[r][b] = NoArticle, found[r][b] # <<>>
      PROVE  \E a \in F : job'[r][a] = "failed"
  <2>1. PICK a \in F : job[r][a] = "failed"
    BY <1>4 DEF BatchInv
  <2>. QED BY <2>1, <1>1
<1>5. NotYet(r, b) => \A a \in F : job'[r][a] = "none"
  BY <1>1 DEF BatchInv
<1>. QED BY <1>1, <1>3, <1>4, <1>5 DEF BatchInv, NotYet

\* What a step of batch b changes of its run.
BatchMoves(r, b) ==
    /\ UNCHANGED <<port, found, confidence, permits, waiters, normalized, analyses,
                   ticket>>
    /\ job' \in [Runs -> [Raw -> JobStates]]
    /\ stage' \in [Runs -> [Batches -> Stages]]
    /\ articles' \in [Runs -> [Batches -> Seq(Raw)]]
    /\ result' \in [Runs -> [Batches -> Raw \cup {NoArticle}]]
    /\ stage[r][b] # "idle" /\ stage'[r][b] # "idle"
    /\ \A a \in Raw : \/ job'[r][a] = job[r][a]
                      \/ /\ job[r][a] = "none" /\ job'[r][a] = "queued"
                         /\ a \in ToSet(found[r][b])
    /\ \A c \in Batches \ {b} :
          /\ stage'[r][c] = stage[r][c] /\ articles'[r][c] = articles[r][c]
          /\ result'[r][c] = result[r][c]
    /\ \A o \in Runs \ {r} :
          /\ stage'[o] = stage[o] /\ articles'[o] = articles[o]
          /\ result'[o] = result[o] /\ job'[o] = job[o]

LEMMA BatchMovesKeep ==
    ASSUME TypeOK, NEW r \in Runs, RunInv(r), NEW b \in Batches, BatchMoves(r, b),
           BatchInv(r, b)'
    PROVE  TypeOK' /\ RunInv(r)' /\ \A o \in Runs \ {r} : Frame(o)
<1>1. TypeOK'
  BY DEF TypeOK, BatchMoves
<1>2. \A o \in Runs \ {r} : Frame(o)
  BY DEF Frame, BatchMoves
<1>3. SemaphoreInv(r)'
  <2>1. /\ waiters'[r] = waiters[r] /\ permits'[r] = permits[r] /\ ticket'[r] = ticket[r]
        /\ \A a \in Raw : \/ job'[r][a] = job[r][a]
                          \/ job[r][a] = "none" /\ job'[r][a] = "queued"
    BY DEF BatchMoves
  <2>2. Holders(r)' = Holders(r)
    BY <2>1 DEF Holders
  <2>3. PermitInv(r)'
    BY <2>1, <2>2 DEF RunInv, SemaphoreInv, PermitInv
  <2>4. QueueInv(r)'
    <3>1. \A a \in Raw : job'[r][a] \in {"waiting", "granted"} <=>
                         job[r][a] \in {"waiting", "granted"}
      BY <2>1
    <3>. QED BY <2>1, <3>1 DEF RunInv, SemaphoreInv, QueueInv
  <2>6. TicketInv(r)'
    BY <2>1 DEF RunInv, SemaphoreInv, TicketInv
  <2>. QED BY <2>3, <2>4, <2>6 DEF SemaphoreInv
<1>4. found[r] \in Inputs /\ \A c \in Batches : stage[r][c] # "idle"
  BY DEF RunInv, CollectionInv, BatchMoves
<1>5. CollectionInv(r)'
  <2>1. \A c \in Batches : stage'[r][c] # "idle"
    BY <1>4 DEF BatchMoves
  <2>. QED BY <1>4, <2>1 DEF BatchMoves, CollectionInv
<1>6. ASSUME NEW c \in Batches, c # b PROVE BatchInv(r, c)'
  <2>1. ToSet(found[r][b]) \cap ToSet(found[r][c]) = {}
    BY <1>4, <1>6, AnalysisAssumption
  <2>2. ToSet(found[r][c]) \subseteq Raw
    BY Members DEF TypeOK
  <2>3. \A a \in ToSet(found[r][c]) : job'[r][a] = job[r][a]
    BY <2>1, <2>2 DEF BatchMoves
  <2>4. Untouched(r, c)
    BY <1>6, <2>3 DEF BatchMoves, Untouched
  <2>. QED BY <2>4, UntouchedKeeps DEF RunInv
<1>7. \A c \in Batches : BatchInv(r, c)'
  BY <1>6
<1>. QED BY <1>1, <1>2, <1>3, <1>5, <1>7 DEF RunInv

LEMMA JobMovesKeep ==
    ASSUME TypeOK, NEW r \in Runs, RunInv(r), NEW a \in Raw, JobStep(r, a)
    PROVE  TypeOK' /\ RunInv(r)' /\ \A o \in Runs \ {r} : Frame(o)
<1>1. JobStepKeeps(r)
  BY JobStepsKeep DEF RunInv
<1>2. JobMoves(r)
  BY <1>1 DEF JobStepKeeps
<1>3. \A b \in Batches : BatchInv(r, b)'
  <2>1. TAKE b \in Batches
  <2>2. ToSet(found[r][b]) \subseteq Raw
    BY Members DEF TypeOK
  <2>3. Untouched(r, b)
    BY <1>2, <2>2 DEF JobMoves, Untouched
  <2>. QED BY <2>3, UntouchedKeeps DEF RunInv
<1>4. CollectionInv(r)'
  <2>1. job[r][a] # "none"
    BY DEF JobStep, Acquire, Enqueue, Resume, Analyzed, AnalysisFails
  <2>. QED BY <1>2, <2>1 DEF RunInv, CollectionInv, JobMoves
<1>. QED BY <1>1, <1>3, <1>4 DEF JobStepKeeps, RunInv

\* Only the stage and the result of a batch change.
LEMMA Moving ==
    ASSUME TypeOK, NEW r \in Runs, NEW b \in Batches, stage[r][b] # "idle",
           NEW x \in Stages \ {"idle"}, NEW y \in Raw \cup {NoArticle},
           stage' = [stage EXCEPT ![r][b] = x],
           result' = [result EXCEPT ![r][b] = y] \/ result' = result,
           UNCHANGED <<port, found, articles, job, confidence, permits, waiters,
                       normalized, analyses, ticket>>
    PROVE  /\ BatchMoves(r, b)
           /\ stage'[r][b] = x
           /\ result'[r][b] = y \/ result' = result
<1>1. /\ stage \in [Runs -> [Batches -> Stages]]
      /\ result \in [Runs -> [Batches -> Raw \cup {NoArticle}]]
      /\ articles \in [Runs -> [Batches -> Seq(Raw)]]
      /\ job \in [Runs -> [Raw -> JobStates]]
  BY DEF TypeOK
<1>2. /\ stage' \in [Runs -> [Batches -> Stages]] /\ stage'[r][b] = x
      /\ \A c \in Batches \ {b} : stage'[r][c] = stage[r][c]
      /\ \A o \in Runs \ {r} : stage'[o] = stage[o]
  BY <1>1
<1>3. /\ result' \in [Runs -> [Batches -> Raw \cup {NoArticle}]]
      /\ result'[r][b] = y \/ result' = result
      /\ \A c \in Batches \ {b} : result'[r][c] = result[r][c]
      /\ \A o \in Runs \ {r} : result'[o] = result[o]
  <2>1. CASE result' = [result EXCEPT ![r][b] = y]
    BY <1>1, <2>1
  <2>2. CASE result' = result
    BY <1>1, <2>2
  <2>. QED BY <2>1, <2>2
<1>. QED BY <1>1, <1>2, <1>3 DEF BatchMoves

LEMMA AnalyzeNothingKeeps ==
    ASSUME TypeOK, NEW r \in Runs, RunInv(r), NEW b \in Batches, AnalyzeNothing(r, b)
    PROVE  BatchMoves(r, b) /\ BatchInv(r, b)'
<1>1. /\ stage[r][b] = "new" /\ articles[r][b] = <<>>
      /\ stage' = [stage EXCEPT ![r][b] = "done"]
      /\ UNCHANGED <<port, found, articles, result, job, confidence, permits, waiters,
                     normalized, analyses, ticket>>
  BY DEF AnalyzeNothing, semaphore, repositories
<1>2. BatchMoves(r, b) /\ stage'[r][b] = "done"
  BY <1>1, Moving DEF Stages
<1>3. BatchInv(r, b) /\ result[r][b] = NoArticle /\ found[r][b] = <<>>
  BY <1>1 DEF RunInv, BatchInv, SelectionOf
<1>4. /\ \A a \in ToSet(articles[r][b]) : job[r][a] \in {"ok", "failed"}
      /\ Wins(r, articles[r][b], Len(articles[r][b]), result[r][b])'
  <2>1. ToSet(articles[r][b]) = {}
    BY <1>1 DEF ToSet
  <2>2. Len(articles[r][b]) = 0
    BY <1>1
  <2>3. {i \in 1 .. 0 : job[r][articles[r][b][i]] = "ok"} = {}
    OBVIOUS
  <2>. QED BY <1>1, <1>3, <2>1, <2>2, <2>3 DEF Wins
<1>. QED BY <1>1, <1>2, <1>3, <1>4 DEF BatchInv, NotYet, SelectionOf

LEMMA SynthesizeKeeps ==
    ASSUME TypeOK, NEW r \in Runs, RunInv(r), NEW b \in Batches, Synthesize(r, b)
    PROVE  BatchMoves(r, b) /\ BatchInv(r, b)'
<1>1. /\ stage[r][b] = "new" /\ Len(articles[r][b]) > 1 /\ port[r]
      /\ stage' = [stage EXCEPT ![r][b] = "synthesizing"]
      /\ UNCHANGED <<port, found, articles, result, job, confidence, permits, waiters,
                     normalized, analyses, ticket>>
  BY DEF Synthesize, semaphore, repositories
<1>2. BatchMoves(r, b) /\ stage'[r][b] = "synthesizing"
  BY <1>1, Moving DEF Stages
<1>3. articles[r][b] # <<>>
  BY <1>1
<1>. QED BY <1>1, <1>2, <1>3 DEF RunInv, BatchInv, NotYet, SelectionOf

LEMMA SynthesizedKeeps ==
    ASSUME TypeOK, NEW r \in Runs, RunInv(r), NEW b \in Batches, Synthesized(r, b)
    PROVE  BatchMoves(r, b) /\ BatchInv(r, b)'
<1>. DEFINE y == articles[r][b][1]
<1>1. /\ stage[r][b] = "synthesizing"
      /\ result' = [result EXCEPT ![r][b] = Head(articles[r][b])]
      /\ stage' = [stage EXCEPT ![r][b] = "done"]
      /\ UNCHANGED <<port, found, articles, job, confidence, permits, waiters,
                     normalized, analyses, ticket>>
  BY DEF Synthesized, semaphore, repositories
<1>2. /\ BatchInv(r, b) /\ port[r] /\ articles[r][b] # <<>>
      /\ articles[r][b] \in Seq(Raw) /\ Newest(found[r][b], y)
  BY <1>1 DEF RunInv, BatchInv, SelectionOf
<1>3. Head(articles[r][b]) = y /\ y \in Raw
  <2>1. 1 \in 1 .. Len(articles[r][b])
    BY <1>2, Members
  <2>. QED BY <2>1, <1>2, Members
<1>. HIDE DEF y
<1>4. result' = [result EXCEPT ![r][b] = y]
  BY <1>1, <1>3
<1>5. BatchMoves(r, b) /\ stage'[r][b] = "done"
  <2>1. stage[r][b] # "idle" /\ "done" \in Stages \ {"idle"} /\ y \in Raw \cup {NoArticle}
    BY <1>1, <1>3 DEF Stages
  <2>. QED BY <2>1, <1>1, <1>4, Moving
<1>6. result'[r][b] = y /\ y # NoArticle
  BY <1>3, <1>4, AnalysisAssumption DEF TypeOK
<1>. QED BY <1>1, <1>2, <1>5, <1>6 DEF BatchInv, NotYet

\* Single analyses of some of the articles, the latest first, are created.
LEMMA SpawnKeeps ==
    ASSUME TypeOK, NEW r \in Runs, RunInv(r), NEW b \in Batches, NEW list,
           Spawn(r, b, list), SelectionOf(list, found[r][b]), list # <<>>,
           stage[r][b] \in {"new", "synthesizing"},
           port[r] => Len(list) = 1,
           UNCHANGED <<port, found, result, confidence, permits, waiters,
                       normalized, analyses, ticket>>
    PROVE  BatchMoves(r, b) /\ BatchInv(r, b)'
<1>. DEFINE g == [a \in Raw |-> IF a \in ToSet(list) THEN "queued" ELSE job[r][a]]
<1>1. /\ articles' = [articles EXCEPT ![r][b] = list]
      /\ stage' = [stage EXCEPT ![r][b] = "singles"]
      /\ job' = [job EXCEPT ![r] = g]
  BY Zenon DEF Spawn
<1>2. /\ stage \in [Runs -> [Batches -> Stages]]
      /\ result \in [Runs -> [Batches -> Raw \cup {NoArticle}]]
      /\ articles \in [Runs -> [Batches -> Seq(Raw)]]
      /\ job \in [Runs -> [Raw -> JobStates]]
  BY DEF TypeOK
<1>3. list \in Seq(Raw) /\ ToSet(list) \subseteq ToSet(found[r][b])
      /\ \A a \in ToSet(list) : job[r][a] = "none"
  BY DEF SelectionOf, RunInv, BatchInv, NotYet
<1>4. g \in [Raw -> JobStates]
      /\ \A a \in Raw : g[a] = IF a \in ToSet(list) THEN "queued" ELSE job[r][a]
  BY <1>2 DEF JobStates
<1>. HIDE DEF g
<1>5. /\ job' \in [Runs -> [Raw -> JobStates]] /\ job'[r] = g
      /\ \A o \in Runs \ {r} : job'[o] = job[o]
  BY <1>1, <1>2, <1>4
<1>6. /\ stage' \in [Runs -> [Batches -> Stages]] /\ stage'[r][b] = "singles"
      /\ \A c \in Batches \ {b} : stage'[r][c] = stage[r][c]
      /\ \A o \in Runs \ {r} : stage'[o] = stage[o]
  BY <1>1, <1>2 DEF Stages
<1>7. /\ articles' \in [Runs -> [Batches -> Seq(Raw)]] /\ articles'[r][b] = list
      /\ \A c \in Batches \ {b} : articles'[r][c] = articles[r][c]
      /\ \A o \in Runs \ {r} : articles'[o] = articles[o]
  BY <1>1, <1>2, <1>3
<1>8. BatchMoves(r, b)
  BY <1>2, <1>3, <1>4, <1>5, <1>6, <1>7 DEF BatchMoves
<1>9. BatchInv(r, b)'
  <2>1. result[r][b] = NoArticle
    BY DEF RunInv, BatchInv
  <2>. QED BY <1>6, <1>7, <2>1 DEF BatchInv, NotYet, SelectionOf, Newest
<1>. QED BY <1>8, <1>9

LEMMA AnalyzeSinglesKeeps ==
    ASSUME TypeOK, NEW r \in Runs, RunInv(r), NEW b \in Batches, AnalyzeSingles(r, b)
    PROVE  BatchMoves(r, b) /\ BatchInv(r, b)'
<1>1. /\ stage[r][b] = "new" /\ articles[r][b] # <<>>
      /\ Len(articles[r][b]) = 1 \/ ~port[r]
      /\ Spawn(r, b, articles[r][b])
      /\ UNCHANGED <<port, found, result, confidence, permits, waiters, normalized,
                     analyses, ticket>>
  BY DEF AnalyzeSingles, Spawn, repositories
<1>2. SelectionOf(articles[r][b], found[r][b])
  BY DEF RunInv, BatchInv
<1>. QED BY <1>1, <1>2, SpawnKeeps

LEMMA SynthesisFailsKeeps ==
    ASSUME TypeOK, NEW r \in Runs, RunInv(r), NEW b \in Batches, SynthesisFails(r, b)
    PROVE  BatchMoves(r, b) /\ BatchInv(r, b)'
<1>. DEFINE y == articles[r][b][1]
<1>1. /\ stage[r][b] = "synthesizing"
      /\ Spawn(r, b, <<Head(articles[r][b])>>)
      /\ UNCHANGED <<port, found, result, confidence, permits, waiters, normalized,
                     analyses, ticket>>
  BY DEF SynthesisFails, Spawn, repositories
<1>2. /\ articles[r][b] # <<>> /\ articles[r][b] \in Seq(Raw)
      /\ Newest(found[r][b], y) /\ found[r][b] # <<>>
  BY <1>1 DEF RunInv, BatchInv, SelectionOf
<1>3. Head(articles[r][b]) = y /\ y \in Raw
  <2>1. 1 \in 1 .. Len(articles[r][b])
    BY <1>2, Members
  <2>. QED BY <2>1, <1>2, Members
<1>. HIDE DEF y
<1>. DEFINE list == <<y>>
<1>4. /\ list \in Seq(Raw) /\ Len(list) = 1 /\ list[1] = y /\ list # <<>>
      /\ ToSet(list) = {y}
  BY <1>3 DEF ToSet
<1>5. Spawn(r, b, list)
  BY <1>1, <1>3
<1>. HIDE DEF list
<1>6. SelectionOf(list, found[r][b])
  BY <1>2, <1>4 DEF SelectionOf, Newest
<1>. QED BY <1>1, <1>4, <1>5, <1>6, SpawnKeeps

LEMMA GatheredKeeps ==
    ASSUME TypeOK, NEW r \in Runs, RunInv(r), NEW b \in Batches, Gathered(r, b)
    PROVE  BatchMoves(r, b) /\ BatchInv(r, b)'
<1>. DEFINE list == articles[r][b]
            y == Best(r, list)
            good == {i \in 1 .. Len(list) : job[r][list[i]] = "ok"}
<1>1. /\ stage[r][b] = "singles"
      /\ \A a \in ToSet(list) : job[r][a] \in {"ok", "failed"}
      /\ result' = [result EXCEPT ![r][b] = y]
      /\ stage' = [stage EXCEPT ![r][b] = "done"]
      /\ UNCHANGED <<port, found, articles, job, confidence, permits, waiters,
                     normalized, analyses, ticket>>
  BY DEF Gathered, semaphore, repositories
<1>2. /\ BatchInv(r, b) /\ list # <<>> /\ list \in Seq(Raw)
      /\ Newest(found[r][b], list[1]) /\ ToSet(list) \subseteq ToSet(found[r][b])
      /\ port[r] => Len(list) = 1
  BY <1>1 DEF RunInv, BatchInv, SelectionOf
<1>3. Wins(r, list, Len(list), y)
  <2>1. confidence \in [Runs -> [Raw -> Nat]]
    <3>1. Confidences \cup {0} \subseteq Nat
      BY AnalysisAssumption
    <3>2. confidence \in [Runs -> [Raw -> Confidences \cup {0}]]
      BY DEF TypeOK
    <3>. QED BY <3>1, <3>2
  <2>. QED BY <1>2, <2>1, BestWins
<1>4. IF good = {} THEN y = NoArticle ELSE \E i \in good : y = list[i]
  BY <1>3 DEF Wins
<1>5. 1 \in 1 .. Len(list) /\ \A i \in 1 .. Len(list) :
         list[i] \in Raw /\ list[i] # NoArticle /\ list[i] \in ToSet(list)
  BY <1>2, Members, AnalysisAssumption
<1>. HIDE DEF list, y
<1>6. y \in Raw \cup {NoArticle}
  BY <1>4, <1>5
<1>7. /\ BatchMoves(r, b) /\ stage'[r][b] = "done"
  <2>1. stage[r][b] # "idle" /\ "done" \in Stages \ {"idle"}
    BY <1>1 DEF Stages
  <2>. QED BY <2>1, <1>1, <1>6, Moving DEF list
<1>8. result'[r][b] = y
  BY <1>1 DEF TypeOK
<1>9. port[r] /\ y # NoArticle => Newest(found[r][b], y)
  <2>1. SUFFICES ASSUME port[r], y # NoArticle PROVE Newest(found[r][b], y)
    OBVIOUS
  <2>2. PICK i \in 1 .. Len(list) : y = list[i]
    BY <2>1, <1>4
  <2>3. i = 1
    <3>1. Len(list) = 1
      BY <2>1, <1>2 DEF list
    <3>. QED BY <3>1
  <2>. QED BY <2>2, <2>3, <1>2 DEF list
<1>10. y = NoArticle => \E a \in ToSet(found[r][b]) : job[r][a] = "failed"
  <2>1. SUFFICES ASSUME y = NoArticle
                 PROVE  \E a \in ToSet(found[r][b]) : job[r][a] = "failed"
    OBVIOUS
  <2>2. job[r][list[1]] # "ok"
    BY <2>1, <1>4, <1>5
  <2>3. list[1] \in ToSet(list) /\ list[1] \in ToSet(found[r][b])
    BY <1>2, <1>5 DEF list
  <2>. QED BY <2>2, <2>3, <1>1 DEF list
<1>11. Wins(r, list, Len(list), result[r][b])'
  <2>1. list' = list
    BY <1>1 DEF list
  <2>. QED BY <1>1, <1>3, <1>8, <2>1 DEF Wins
<1>. QED BY <1>1, <1>2, <1>7, <1>8, <1>9, <1>10, <1>11 DEF BatchInv, NotYet, list

LEMMA BatchStepsKeep ==
    ASSUME TypeOK, NEW r \in Runs, RunInv(r), NEW b \in Batches, BatchStep(r, b)
    PROVE  TypeOK' /\ RunInv(r)' /\ \A o \in Runs \ {r} : Frame(o)
<1>1. BatchMoves(r, b) /\ BatchInv(r, b)'
  <2>1. CASE AnalyzeNothing(r, b)
    BY <2>1, AnalyzeNothingKeeps
  <2>2. CASE AnalyzeSingles(r, b)
    BY <2>2, AnalyzeSinglesKeeps
  <2>3. CASE Synthesize(r, b)
    BY <2>3, SynthesizeKeeps
  <2>4. CASE Synthesized(r, b)
    BY <2>4, SynthesizedKeeps
  <2>5. CASE SynthesisFails(r, b)
    BY <2>5, SynthesisFailsKeeps
  <2>6. CASE Gathered(r, b)
    BY <2>6, GatheredKeeps
  <2>. QED BY <2>1, <2>2, <2>3, <2>4, <2>5, <2>6 DEF BatchStep
<1>. QED BY <1>1, BatchMovesKeep

LEMMA BeginKeeps ==
    ASSUME TypeOK, NEW r \in Runs, RunInv(r), BeginAnalysis(r)
    PROVE  TypeOK' /\ RunInv(r)' /\ \A o \in Runs \ {r} : Frame(o)
<1>1. /\ \A b \in Batches : stage[r][b] = "idle"
      /\ stage' = [stage EXCEPT ![r] = [b \in Batches |-> "new"]]
      /\ UNCHANGED <<port, result, job, confidence, permits, waiters, normalized,
                     analyses, ticket>>
  BY DEF BeginAnalysis, semaphore, repositories
<1>2. PICK input \in Inputs, mode \in Modes :
         /\ found' = [found EXCEPT ![r] = input]
         /\ articles' = [articles EXCEPT ![r] =
               [b \in Batches |-> Select(mode, input[b])]]
  BY DEF BeginAnalysis
<1>3. /\ stage \in [Runs -> [Batches -> Stages]]
      /\ found \in [Runs -> [Batches -> Seq(Raw)]]
      /\ articles \in [Runs -> [Batches -> Seq(Raw)]]
      /\ input \in [Batches -> Seq(Raw)]
  BY AnalysisAssumption DEF TypeOK
<1>. DEFINE chosen == [b \in Batches |-> Select(mode, input[b])]
<1>4. \A b \in Batches : /\ chosen[b] = Select(mode, input[b])
                         /\ SelectionOf(chosen[b], input[b])
  BY <1>3, Selected
<1>5. chosen \in [Batches -> Seq(Raw)]
  <2>1. \A b \in Batches : Select(mode, input[b]) \in Seq(Raw)
    BY <1>3, Selected DEF SelectionOf
  <2>. QED BY <2>1
<1>. HIDE DEF chosen
<1>6. /\ stage' \in [Runs -> [Batches -> Stages]]
      /\ \A b \in Batches : stage'[r][b] = "new"
      /\ \A o \in Runs \ {r} : stage'[o] = stage[o]
  BY <1>1, <1>3 DEF Stages
<1>7. /\ found' \in [Runs -> [Batches -> Seq(Raw)]] /\ found'[r] = input
      /\ \A o \in Runs \ {r} : found'[o] = found[o]
  BY <1>2, <1>3
<1>8. /\ articles' \in [Runs -> [Batches -> Seq(Raw)]] /\ articles'[r] = chosen
      /\ \A o \in Runs \ {r} : articles'[o] = articles[o]
  BY <1>2, <1>3, <1>5 DEF chosen
<1>9. TypeOK'
  BY <1>1, <1>6, <1>7, <1>8 DEF TypeOK
<1>10. \A o \in Runs \ {r} : Frame(o)
  BY <1>1, <1>6, <1>7, <1>8 DEF Frame
<1>11. SemaphoreInv(r)'
  <2>1. Holders(r)' = Holders(r)
    BY <1>1 DEF Holders
  <2>. QED BY <1>1, <2>1 DEF RunInv, SemaphoreInv, QueueInv, PermitInv,
                             TicketInv, Distinct
<1>12. CollectionInv(r)'
  BY <1>6, <1>7 DEF CollectionInv
<1>13. ASSUME NEW b \in Batches PROVE BatchInv(r, b)'
  <2>1. result[r][b] = NoArticle
    BY <1>1 DEF RunInv, BatchInv
  <2>2. \A a \in Raw : job[r][a] = "none"
    BY <1>1 DEF RunInv, CollectionInv
  <2>3. ToSet(input[b]) \subseteq Raw
    BY <1>3, Members
  <2>4. stage'[r][b] = "new" /\ found'[r][b] = input[b] /\ articles'[r][b] = chosen[b]
        /\ SelectionOf(chosen[b], input[b])
    BY <1>4, <1>6, <1>7, <1>8
  <2>. QED BY <1>1, <2>1, <2>2, <2>3, <2>4 DEF BatchInv, NotYet, SelectionOf, Newest
<1>14. \A b \in Batches : BatchInv(r, b)'
  BY <1>13
<1>. QED BY <1>9, <1>10, <1>11, <1>12, <1>14 DEF RunInv

(***************************************************************************)
(* The invariant holds, and what follows from it.                          *)
(***************************************************************************)

LEMMA InitIInv == Init => IInv
<1>. SUFFICES ASSUME Init PROVE IInv
  OBVIOUS
<1>1. TypeOK
  <2>1. port \in [Runs -> BOOLEAN]
    BY AnalysisAssumption DEF Init
  <2>2. Limit \in 0 .. Limit
    BY AnalysisAssumption
  <2>. QED BY <2>1, <2>2 DEF Init, TypeOK, Stages, JobStates
<1>2. ASSUME NEW r \in Runs PROVE RunInv(r)
  <2>1. SemaphoreInv(r)
    <3>1. Holders(r) = {}
      BY DEF Init, Holders
    <3>2. PermitInv(r)
      BY <3>1, FS_EmptySet, AnalysisAssumption DEF Init, PermitInv
    <3>3. ToSet(<<>>) = {}
      BY DEF ToSet
    <3>4. QueueInv(r)
      BY <3>3 DEF Init, QueueInv, Distinct
    <3>. QED BY <3>2, <3>4 DEF Init, SemaphoreInv, TicketInv
  <2>2. CollectionInv(r)
    BY DEF Init, CollectionInv
  <2>3. \A b \in Batches : BatchInv(r, b)
    <3>1. ToSet(<<>>) = {}
      BY DEF ToSet
    <3>. QED BY <3>1 DEF Init, BatchInv, NotYet, SelectionOf
  <2>. QED BY <2>1, <2>2, <2>3 DEF RunInv
<1>. QED BY <1>1, <1>2 DEF IInv

LEMMA NextKeepsIInv == IInv /\ [Next]_vars => IInv'
<1>. SUFFICES ASSUME IInv, [Next]_vars PROVE IInv'
  OBVIOUS
<1>0. TypeOK /\ \A r \in Runs : RunInv(r)
  BY DEF IInv
<1>1. ASSUME NEW r \in Runs, TypeOK', RunInv(r)', \A o \in Runs \ {r} : Frame(o)
      PROVE  IInv'
  <2>1. \A o \in Runs \ {r} : RunInv(o)'
    BY <1>0, <1>1, FrameKeeps
  <2>2. \A o \in Runs : RunInv(o)'
    BY <1>1, <2>1
  <2>. QED BY <1>1, <2>2 DEF IInv
<1>2. ASSUME NEW r \in Runs, BeginAnalysis(r) PROVE IInv'
  BY <1>0, <1>1, <1>2, BeginKeeps
<1>3. ASSUME NEW r \in Runs, NEW b \in Batches, BatchStep(r, b) PROVE IInv'
  BY <1>0, <1>1, <1>3, BatchStepsKeep
<1>4. ASSUME NEW r \in Runs, NEW a \in Raw, JobStep(r, a) PROVE IInv'
  BY <1>0, <1>1, <1>4, JobMovesKeep
<1>5. CASE UNCHANGED vars
  <2>1. TypeOK'
    BY <1>0, <1>5 DEF TypeOK, vars
  <2>2. \A o \in Runs : Frame(o)
    BY <1>5 DEF Frame, vars
  <2>3. \A o \in Runs : RunInv(o)'
    BY <1>0, <2>2, FrameKeeps
  <2>. QED BY <2>1, <2>3 DEF IInv
<1>. QED BY <1>2, <1>3, <1>4, <1>5 DEF Next, Step, AllFinished

\* The invariant holds in every run of the program: its types, and what is
\* said above of the semaphores, the collections and the batches
\* (run_pipeline_usecase.py 64-77, 97-101, 311-398).
THEOREM Invariant == Spec => []IInv
<1>. QED BY InitIInv, NextKeepsIInv, PTL DEF Spec

\* The permits of a run and those who hold one add up: none is lost or made,
\* whichever way a single analysis ends (run_pipeline_usecase.py 99-101, 330-358).
THEOREM PermitsAreKept == Spec => []PermitsAddUp
<1>1. IInv => PermitsAddUp
  BY DEF IInv, RunInv, SemaphoreInv, PermitInv, PermitsAddUp
<1>. QED BY <1>1, Invariant, PTL

\* Over all its symbols and both kinds of sources together, a run never has more
\* than Limit single analyses under way (run_pipeline_usecase.py 99-101, 330).
THEOREM CallsAreLimited == Spec => []CallsWithinLimit
<1>1. IInv => CallsWithinLimit
  <2>. SUFFICES ASSUME IInv, NEW r \in Runs
                PROVE  Cardinality(UnderWay(r)) <= Limit
    BY DEF CallsWithinLimit
  <2>1. IsFiniteSet(Holders(r)) /\ permits[r] + Cardinality(Holders(r)) = Limit
    BY DEF IInv, RunInv, SemaphoreInv, PermitInv
  <2>2. permits[r] \in Nat /\ Limit \in Nat
    BY AnalysisAssumption DEF IInv, TypeOK
  <2>3. UnderWay(r) \subseteq Holders(r)
    BY DEF UnderWay, Holders
  <2>4. /\ Cardinality(UnderWay(r)) \in Nat /\ Cardinality(Holders(r)) \in Nat
        /\ Cardinality(UnderWay(r)) <= Cardinality(Holders(r))
    BY <2>1, <2>3, FS_Subset, FS_CardinalityType
  <2>. QED BY <2>1, <2>2, <2>4
<1>. QED BY <1>1, Invariant, PTL

\* The analysis chosen among single ones is the first, in the order of the
\* articles, of the most confident, whatever order the answers arrived in
\* (run_pipeline_usecase.py 362-371).
THEOREM BestIsChosen == Spec => []BestIsFirstMostConfident
<1>1. IInv => BestIsFirstMostConfident
  <2>. SUFFICES ASSUME IInv, NEW r \in Runs, NEW b \in Batches,
                       stage[r][b] = "done", ~port[r]
                PROVE  LET list == articles[r][b]
                           good == {i \in DOMAIN list : job[r][list[i]] = "ok"}
                       IN  IF good = {} THEN result[r][b] = NoArticle
                           ELSE \E i \in good :
                              /\ result[r][b] = list[i]
                              /\ \A j \in good : LET c == confidence[r][list[j]] IN
                                    /\ c <= confidence[r][list[i]]
                                    /\ j < i => c < confidence[r][list[i]]
    BY DEF BestIsFirstMostConfident
  <2>1. articles[r][b] \in Seq(Raw)
    BY DEF IInv, TypeOK
  <2>2. DOMAIN articles[r][b] = 1 .. Len(articles[r][b])
    BY <2>1, Members
  <2>3. Wins(r, articles[r][b], Len(articles[r][b]), result[r][b])
    BY DEF IInv, RunInv, BatchInv
  <2>. QED BY <2>2, <2>3 DEF Wins
<1>. QED BY <1>1, Invariant, PTL

\* With the analyzer port, whichever way a batch goes and whatever the mode cut
\* off, its result carries one of the latest articles the table has for it
\* (run_pipeline_usecase.py 64-77, 311-398).
THEOREM NewestIsTold == Spec => []ResultIsNewest
<1>1. IInv => ResultIsNewest
  BY DEF IInv, RunInv, BatchInv, Newest, ResultIsNewest
<1>. QED BY <1>1, Invariant, PTL

\* A batch with articles that is done without a result had a call of the model
\* fail (run_pipeline_usecase.py 74-76, 311-398).
THEOREM NothingIsLeftOut == Spec => []NoResultMeansFailure
<1>1. IInv => NoResultMeansFailure
  BY DEF IInv, RunInv, BatchInv, NoResultMeansFailure
<1>. QED BY <1>1, Invariant, PTL
=============================================================================
