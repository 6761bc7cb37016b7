--------------------------- MODULE Algorithms_proofs ---------------------------
(***************************************************************************)
(* What the pure parts of the pages compute, for all inputs: the figures   *)
(* of Charts, and the order of cards of BoardRank.                         *)
(***************************************************************************)
EXTENDS Charts, BoardRank, FiniteSetTheorems, TLAPS

(***************************************************************************)
(* A tally is at most the number of issues, and equal to it only if every  *)
(* issue is counted.                                                       *)
(***************************************************************************)
LEMMA TallyBounds ==
    ASSUME NEW field, NEW v, IsFiniteSet(DOMAIN field)
    PROVE  /\ Tally(field, v) \in Nat /\ Cardinality(DOMAIN field) \in Nat
           /\ Tally(field, v) <= Cardinality(DOMAIN field)
           /\ Tally(field, v) = Cardinality(DOMAIN field) <=> \A i \in DOMAIN field : field[i] = v
           /\ Tally(field, v) = 0 <=> \A i \in DOMAIN field : field[i] # v
<1> DEFINE S == DOMAIN field
           T == {i \in DOMAIN field : field[i] = v}
<1>1. T \subseteq S
  OBVIOUS
<1>2. IsFiniteSet(T) /\ Cardinality(T) <= Cardinality(S)
    /\ (Cardinality(S) = Cardinality(T) => S = T)
  BY <1>1, FS_Subset
<1>3. Cardinality(T) \in Nat /\ Cardinality(S) \in Nat
  BY <1>2, FS_CardinalityType
<1>4. Cardinality(T) = 0 <=> T = {}
  BY <1>2, FS_EmptySet
<1>5. Tally(field, v) = Cardinality(T)
  BY DEF Tally
<1>6. S = T <=> \A i \in DOMAIN field : field[i] = v
  OBVIOUS
<1>7. T = {} <=> \A i \in DOMAIN field : field[i] # v
  OBVIOUS
<1>8. S = T => Cardinality(S) = Cardinality(T)
  OBVIOUS
<1> QED
  BY <1>2, <1>3, <1>4, <1>5, <1>6, <1>7, <1>8

(***************************************************************************)
(* The dashboard and the sprint page say 100% only of lists that are done, *)
(* and 0% only of lists with nothing done, as long as there are fewer than *)
(* 200 issues: with 200, one of them unfinished or done may be rounded     *)
(* away.                                                                   *)
(***************************************************************************)
THEOREM CompletionIsHonest ==
    ASSUME NEW status, NEW n \in Int, IsFiniteSet(DOMAIN status),
           Cardinality(DOMAIN status) < 200, DOMAIN status # {},
           IsCompletion(status, n)
    PROVE  /\ n \in 0..100
           /\ n = 100 <=> \A i \in DOMAIN status : status[i] = "done"
           /\ n = 0 <=> \A i \in DOMAIN status : status[i] # "done"
<1> DEFINE part == Tally(status, "done")
           whole == Cardinality(DOMAIN status)
<1>1. /\ part \in Nat /\ whole \in Nat /\ part <= whole
      /\ part = whole <=> \A i \in DOMAIN status : status[i] = "done"
      /\ part = 0 <=> \A i \in DOMAIN status : status[i] # "done"
  BY TallyBounds
<1>2. whole # 0
  BY FS_EmptySet
<1>3. whole < 200
  OBVIOUS
<1>4. 200 * part - whole <= 2 * whole * n /\ 2 * whole * n <= 200 * part + whole
  BY <1>2 DEF IsCompletion, IsPercent
<1> HIDE DEF part, whole
<1>5. n <= 100
  <2>1. SUFFICES ASSUME n >= 101 PROVE FALSE
    OBVIOUS
  <2>2. whole * n >= whole * 101
    BY <2>1, <1>1
  <2> QED
    BY <2>2, <1>1, <1>2, <1>4
<1>6. n >= 0
  <2>1. SUFFICES ASSUME n <= -1 PROVE FALSE
    OBVIOUS
  <2>2. whole * n <= whole * (-1)
    BY <2>1, <1>1
  <2> QED
    BY <2>2, <1>1, <1>2, <1>4
<1>7. n = 100 <=> part = whole
  <2>1. ASSUME n = 100 PROVE part = whole
    <3>1. 200 * whole <= 200 * part + whole
      BY <2>1, <1>4, <1>1
    <3> QED
      BY <3>1, <1>1, <1>3
  <2>2. ASSUME part = whole PROVE n = 100
    <3>1. SUFFICES ASSUME n <= 99 PROVE FALSE
      BY <1>5
    <3>2. whole * n <= whole * 99
      BY <3>1, <1>1
    <3> QED
      BY <3>2, <2>2, <1>1, <1>2, <1>4
  <2> QED
    BY <2>1, <2>2
<1>8. n = 0 <=> part = 0
  <2>1. ASSUME n = 0 PROVE part = 0
    <3>1. 200 * part - whole <= 0
      BY <2>1, <1>4, <1>1
    <3> QED
      BY <3>1, <1>1, <1>3
  <2>2. ASSUME part = 0 PROVE n = 0
    <3>1. SUFFICES ASSUME n >= 1 PROVE FALSE
      BY <1>6
    <3>2. whole * n >= whole * 1
      BY <3>1, <1>1
    <3> QED
      BY <3>2, <2>2, <1>1, <1>2, <1>4
  <2> QED
    BY <2>1, <2>2
<1> QED
  BY <1>1, <1>5, <1>6, <1>7, <1>8

-------------------------------------------------------------------------------

(***************************************************************************)
(* Sequences of ranks: their parts and their concatenation.                *)
(***************************************************************************)
LEMMA FrontPart ==
    ASSUME NEW col \in Seq(Int), NEW n \in 0..Len(col)
    PROVE  LET front == SubSeq(col, 1, n) IN
           front \in Seq(Int) /\ Len(front) = n /\ \A i \in 1..n : front[i] = col[i]
OBVIOUS

LEMMA BackPart ==
    ASSUME NEW col \in Seq(Int), NEW n \in 0..Len(col)
    PROVE  LET back == SubSeq(col, n + 1, Len(col)) IN
           /\ back \in Seq(Int) /\ Len(back) = Len(col) - n
           /\ \A i \in 1..(Len(col) - n) : back[i] = col[n + i]
OBVIOUS

LEMMA Concatenated ==
    ASSUME NEW a \in Seq(Int), NEW b \in Seq(Int)
    PROVE  /\ a \o b \in Seq(Int) /\ Len(a \o b) = Len(a) + Len(b)
           /\ \A i \in 1..(Len(a) + Len(b)) :
                  (a \o b)[i] = IF i <= Len(a) THEN a[i] ELSE b[i - Len(a)]
OBVIOUS

LEMMA Lengths ==
    ASSUME NEW col \in Seq(Int)
    PROVE  Len(col) \in Nat /\ DOMAIN col = 1..Len(col) /\ \A i \in 1..Len(col) : col[i] \in Int
OBVIOUS

(***************************************************************************)
(* Taking a card out of a column leaves the others in their order.         *)
(***************************************************************************)
LEMMA ItemsOfColumn ==
    ASSUME NEW col \in Seq(Int), NEW moving \in 0..Len(col)
    PROVE  LET items == ToItems(col, moving) IN
           /\ items \in Seq(Int)
           /\ Len(items) = IF moving = 0 THEN Len(col) ELSE Len(col) - 1
           /\ \A i \in 1..Len(items) :
                  items[i] = IF moving = 0 \/ i < moving THEN col[i] ELSE col[i + 1]
<1>1. CASE moving = 0
  BY <1>1 DEF ToItems
<1>2. CASE moving # 0
  <2> DEFINE front == SubSeq(col, 1, moving - 1)
             back == SubSeq(col, moving + 1, Len(col))
  <2>1. moving - 1 \in 0..Len(col) /\ moving \in 1..Len(col)
    BY <1>2
  <2>2. front \in Seq(Int) /\ Len(front) = moving - 1 /\ \A i \in 1..(moving - 1) : front[i] = col[i]
    BY <2>1, FrontPart
  <2>3. /\ back \in Seq(Int) /\ Len(back) = Len(col) - moving
        /\ \A i \in 1..(Len(col) - moving) : back[i] = col[moving + i]
    BY <2>1, BackPart
  <2>4. ToItems(col, moving) = front \o back
    BY <1>2 DEF ToItems, RemoveAt
  <2> HIDE DEF front, back
  <2>5. /\ front \o back \in Seq(Int) /\ Len(front \o back) = Len(front) + Len(back)
        /\ \A i \in 1..(Len(front) + Len(back)) :
               (front \o back)[i] = IF i <= Len(front) THEN front[i] ELSE back[i - Len(front)]
    BY <2>2, <2>3, Concatenated
  <2>6. ASSUME NEW i \in 1..(Len(col) - 1)
        PROVE  (front \o back)[i] = IF i < moving THEN col[i] ELSE col[i + 1]
    <3>1. Len(front) + Len(back) = Len(col) - 1 /\ Len(col) \in Nat /\ Len(front) = moving - 1
      BY <2>1, <2>2, <2>3
    <3>2. (front \o back)[i] = IF i <= moving - 1 THEN front[i] ELSE back[i - (moving - 1)]
      BY <2>5, <3>1
    <3>3. \A j \in 1..(moving - 1) : front[j] = col[j]
      BY <2>2
    <3>4. \A j \in 1..(Len(col) - moving) : back[j] = col[moving + j]
      BY <2>3
    <3>5. CASE i < moving
      BY <2>1, <3>2, <3>3, <3>5
    <3>6. CASE i >= moving
      <4>1. i - (moving - 1) \in 1..(Len(col) - moving) /\ moving + (i - (moving - 1)) = i + 1
        BY <2>1, <3>1, <3>6
      <4>2. back[i - (moving - 1)] = col[i + 1]
        BY <3>4, <4>1
      <4> QED
        BY <2>1, <3>2, <3>6, <4>2
    <3> QED
      BY <3>1, <3>5, <3>6
  <2>7. Len(front) + Len(back) = Len(col) - 1
    BY <2>1, <2>2, <2>3
  <2> QED
    BY <1>2, <2>4, <2>5, <2>6, <2>7
<1> QED
  BY <1>1, <1>2

(***************************************************************************)
(* Putting a card in moves those behind it by one.                         *)
(***************************************************************************)
LEMMA Inserted ==
    ASSUME NEW items \in Seq(Int), NEW idx \in 0..Len(items), NEW r \in Int
    PROVE  LET new == InsertAt(items, idx + 1, r) IN
           /\ new \in Seq(Int)
           /\ Len(new) = Len(items) + 1
           /\ \A i \in 1..(Len(items) + 1) :
                  new[i] = IF i <= idx THEN items[i] ELSE IF i = idx + 1 THEN r ELSE items[i - 1]
<1> DEFINE front == SubSeq(items, 1, idx)
           back == SubSeq(items, idx + 1, Len(items))
           head == front \o <<r>>
<1>1. InsertAt(items, idx + 1, r) = head \o back
  <2>1. (idx + 1) - 1 = idx
    OBVIOUS
  <2> QED
    BY <2>1 DEF InsertAt
<1>2. front \in Seq(Int) /\ Len(front) = idx /\ \A i \in 1..idx : front[i] = items[i]
  BY FrontPart
<1>3. /\ back \in Seq(Int) /\ Len(back) = Len(items) - idx
      /\ \A i \in 1..(Len(items) - idx) : back[i] = items[idx + i]
  BY BackPart
<1> HIDE DEF front, back
<1>4. /\ head \in Seq(Int) /\ Len(head) = idx + 1
      /\ \A i \in 1..(idx + 1) : head[i] = IF i <= idx THEN items[i] ELSE r
  <2>1. <<r>> \in Seq(Int) /\ Len(<<r>>) = 1 /\ <<r>>[1] = r
    OBVIOUS
  <2>2. /\ head \in Seq(Int) /\ Len(head) = idx + 1
        /\ \A i \in 1..(idx + 1) : head[i] = IF i <= idx THEN front[i] ELSE <<r>>[i - idx]
    BY <1>2, <2>1, Concatenated
  <2>3. \A i \in 1..(idx + 1) : i > idx => i - idx = 1
    OBVIOUS
  <2> QED
    BY <1>2, <2>1, <2>2, <2>3
<1> HIDE DEF head
<1>5. /\ head \o back \in Seq(Int) /\ Len(head \o back) = Len(head) + Len(back)
      /\ \A i \in 1..(Len(head) + Len(back)) :
             (head \o back)[i] = IF i <= Len(head) THEN head[i] ELSE back[i - Len(head)]
  BY <1>3, <1>4, Concatenated
<1>6. Len(head) + Len(back) = Len(items) + 1 /\ Len(items) \in Nat
  BY <1>3, <1>4
<1>7. ASSUME NEW i \in 1..(Len(items) + 1)
      PROVE  (head \o back)[i] = IF i <= idx THEN items[i] ELSE IF i = idx + 1 THEN r ELSE items[i - 1]
  <2>1. (head \o back)[i] = IF i <= idx + 1 THEN head[i] ELSE back[i - (idx + 1)]
    BY <1>4, <1>5, <1>6
  <2>2. \A j \in 1..(idx + 1) : head[j] = IF j <= idx THEN items[j] ELSE r
    BY <1>4
  <2>3. \A j \in 1..(Len(items) - idx) : back[j] = items[idx + j]
    BY <1>3
  <2>4. CASE i <= idx + 1
    BY <2>1, <2>2, <2>4
  <2>5. CASE i > idx + 1
    <3>1. i - (idx + 1) \in 1..(Len(items) - idx) /\ idx + (i - (idx + 1)) = i - 1
      BY <2>5, <1>6
    <3>2. back[i - (idx + 1)] = items[i - 1]
      BY <2>3, <3>1
    <3> QED
      BY <2>1, <2>5, <3>2
  <2> QED
    BY <2>4, <2>5, <1>6
<1> QED
  BY <1>1, <1>5, <1>6, <1>7

(***************************************************************************)
(* The slot is one of the column without the card.                         *)
(***************************************************************************)
LEMMA IdxInRange ==
    ASSUME NEW col \in Seq(Int), NEW moving \in 0..Len(col), NEW at \in Int
    PROVE  Idx(col, moving, at) \in 0..Len(ToItems(col, moving))
<1>1. Len(ToItems(col, moving)) = IF moving = 0 THEN Len(col) ELSE Len(col) - 1
  BY ItemsOfColumn
<1>2. Len(col) \in Nat
  BY Lengths
<1> QED
  BY <1>1, <1>2 DEF Idx

(***************************************************************************)
(* A rank between neighbours that are 2k apart is k away from both, and so *)
(* is one before the first or behind the last card.                        *)
(***************************************************************************)
LEMMA RankIsApart ==
    ASSUME NEW items, NEW n \in Nat, Len(items) = n, \A i \in 1..n : items[i] \in Int,
           NEW k \in Nat, k <= Gap, NEW idx \in 0..n, NEW r \in Int,
           \A i, j \in 1..n : i < j => items[j] - items[i] >= 2 * k,
           IsRank(items, idx, r)
    PROVE  /\ \A i \in 1..n : i <= idx => r - items[i] >= k
           /\ \A i \in 1..n : i > idx => items[i] - r >= k
<1>1. Gap \in Nat
  BY GapAssumption
<1>2. /\ idx = 0 /\ idx < n => r = items[1] - Gap
      /\ idx > 0 /\ idx = n => r = items[idx] + Gap
      /\ idx > 0 /\ idx < n => 2 * r - (items[idx] + items[idx + 1]) \in {-1, 0, 1}
  BY DEF IsRank
<1>3. idx > 0 => r - items[idx] >= k
  <2> SUFFICES ASSUME idx > 0 PROVE r - items[idx] >= k
    OBVIOUS
  <2>1. items[idx] \in Int
    OBVIOUS
  <2>2. CASE idx = n
    BY <2>1, <2>2, <1>1, <1>2
  <2>3. CASE idx < n
    <3>1. items[idx + 1] \in Int /\ items[idx + 1] - items[idx] >= 2 * k
      BY <2>3
    <3> QED
      BY <3>1, <2>1, <2>3, <1>2
  <2> QED
    BY <2>2, <2>3
<1>4. idx < n => items[idx + 1] - r >= k
  <2> SUFFICES ASSUME idx < n PROVE items[idx + 1] - r >= k
    OBVIOUS
  <2>1. items[idx + 1] \in Int
    OBVIOUS
  <2>2. CASE idx = 0
    BY <2>1, <2>2, <1>1, <1>2
  <2>3. CASE idx > 0
    <3>1. items[idx] \in Int /\ items[idx + 1] - items[idx] >= 2 * k
      BY <2>3
    <3> QED
      BY <3>1, <2>1, <2>3, <1>2
  <2> QED
    BY <2>2, <2>3
<1>5. ASSUME NEW i \in 1..n, i <= idx PROVE r - items[i] >= k
  <2>1. items[i] \in Int /\ items[idx] \in Int /\ (i < idx => items[idx] - items[i] >= 2 * k)
    BY <1>5
  <2> QED
    BY <2>1, <1>3, <1>5
<1>6. ASSUME NEW i \in 1..n, i > idx PROVE items[i] - r >= k
  <2>1. /\ items[i] \in Int /\ items[idx + 1] \in Int
        /\ i > idx + 1 => items[i] - items[idx + 1] >= 2 * k
    BY <1>6
  <2> QED
    BY <2>1, <1>4, <1>6
<1> QED
  BY <1>5, <1>6

(***************************************************************************)
(* A drop keeps the column in order, and no two cards of it get one rank   *)
(* as long as ranks were 2 units of the last place apart: the gaps are     *)
(* halved, and not more.  From gaps of 2^n, n drops at any places leave no *)
(* tie; at k = 0 the order is kept even then.                              *)
(***************************************************************************)
THEOREM DropHalvesGaps ==
    ASSUME NEW col \in Seq(Int), NEW moving \in 0..Len(col), NEW at \in Int,
           NEW r \in Int, NEW new, NEW k \in Nat, k <= Gap, Spaced(col, 2 * k),
           IsDrop(col, moving, at, r, new)
    PROVE  new \in Seq(Int) /\ Spaced(new, k)
<1> DEFINE items == ToItems(col, moving)
           idx == Idx(col, moving, at)
           n == Len(items)
<1>1. /\ items \in Seq(Int)
      /\ n = IF moving = 0 THEN Len(col) ELSE Len(col) - 1
      /\ \A i \in 1..n : items[i] = IF moving = 0 \/ i < moving THEN col[i] ELSE col[i + 1]
  BY ItemsOfColumn, Zenon
<1>2. idx \in 0..n
  BY IdxInRange
<1>3. IsRank(items, idx, r) /\ new = InsertAt(items, idx + 1, r)
  BY DEF IsDrop
<1>4. \A a, b \in 1..Len(col) : a < b => col[b] - col[a] >= 2 * k
  BY Lengths DEF Spaced
<1>5. Len(col) \in Nat
  BY Lengths
<1> HIDE DEF items, idx
<1>6. n \in Nat /\ \A i \in 1..n : items[i] \in Int
  BY <1>1, Lengths
<1> HIDE DEF n
<1>7. ASSUME NEW i \in 1..n, NEW j \in 1..n, i < j PROVE items[j] - items[i] >= 2 * k
  <2> DEFINE a == IF moving = 0 \/ i < moving THEN i ELSE i + 1
             b == IF moving = 0 \/ j < moving THEN j ELSE j + 1
  <2>1. a \in 1..Len(col) /\ b \in 1..Len(col) /\ a < b
    <3>1. CASE moving = 0
      BY <3>1, <1>1, <1>5, <1>7
    <3>2. CASE moving # 0
      BY <3>2, <1>1, <1>5, <1>6, <1>7
    <3> QED
      BY <3>1, <3>2
  <2>2. items[i] = col[a] /\ items[j] = col[b]
    BY <1>1
  <2> QED
    BY <2>1, <2>2, <1>4
<1>8. /\ \A i \in 1..n : i <= idx => r - items[i] >= k
      /\ \A i \in 1..n : i > idx => items[i] - r >= k
  BY <1>2, <1>3, <1>6, <1>7, RankIsApart DEF n
<1>9. /\ new \in Seq(Int) /\ Len(new) = n + 1
      /\ \A i \in 1..(n + 1) :
            new[i] = IF i <= idx THEN items[i] ELSE IF i = idx + 1 THEN r ELSE items[i - 1]
  <2>1. items \in Seq(Int) /\ idx \in 0..Len(items)
    BY <1>1, <1>2 DEF n
  <2>2. LET w == InsertAt(items, idx + 1, r) IN
        /\ w \in Seq(Int) /\ Len(w) = Len(items) + 1
        /\ \A i \in 1..(Len(items) + 1) :
              w[i] = IF i <= idx THEN items[i] ELSE IF i = idx + 1 THEN r ELSE items[i - 1]
    BY <2>1, Inserted, Zenon
  <2> QED
    BY <2>2, <1>3, Zenon DEF n
<1>10. \A h \in 1..(n + 1) :
          /\ h <= idx => h \in 1..n /\ new[h] = items[h]
          /\ h = idx + 1 => new[h] = r
          /\ h > idx + 1 => h - 1 \in 1..n /\ h - 1 > idx /\ new[h] = items[h - 1]
  <2> TAKE h \in 1..(n + 1)
  <2>1. new[h] = IF h <= idx THEN items[h] ELSE IF h = idx + 1 THEN r ELSE items[h - 1]
    BY <1>9
  <2>2. n \in Nat /\ idx \in 0..n
    BY <1>2, <1>6
  <2> QED
    BY <2>1, <2>2
<1>11. ASSUME NEW i \in 1..(n + 1), NEW j \in 1..(n + 1), i < j PROVE new[j] - new[i] >= k
  <2>1. n \in Nat /\ idx \in 0..n /\ \A h \in 1..n : items[h] \in Int
    BY <1>2, <1>6
  <2>2. CASE j <= idx
    <3>1. i \in 1..n /\ j \in 1..n /\ new[i] = items[i] /\ new[j] = items[j]
      BY <2>1, <2>2, <1>10, <1>11
    <3>2. items[j] - items[i] >= 2 * k /\ items[i] \in Int /\ items[j] \in Int
      BY <3>1, <2>1, <1>7, <1>11
    <3> QED
      BY <3>1, <3>2
  <2>3. CASE j = idx + 1
    <3>1. i \in 1..n /\ i <= idx /\ new[i] = items[i] /\ new[j] = r
      BY <2>1, <2>3, <1>10, <1>11
    <3> QED
      BY <3>1, <1>8
  <2>4. CASE j > idx + 1 /\ i = idx + 1
    <3>1. j - 1 \in 1..n /\ j - 1 > idx /\ new[i] = r /\ new[j] = items[j - 1]
      BY <2>4, <1>10
    <3> QED
      BY <3>1, <1>8
  <2>5. CASE j > idx + 1 /\ i # idx + 1
    <3>1. PICK a \in 1..n : a < j - 1 /\ new[i] = items[a]
      <4>1. CASE i <= idx
        BY <4>1, <2>1, <2>5, <1>10
      <4>2. CASE i > idx + 1
        <5>1. i - 1 \in 1..n /\ new[i] = items[i - 1] /\ i - 1 < j - 1
          BY <4>2, <1>10, <1>11
        <5> QED
          BY <5>1
      <4> QED
        BY <4>1, <4>2, <2>1, <2>5
    <3>2. j - 1 \in 1..n /\ new[j] = items[j - 1]
      BY <2>5, <1>10
    <3>3. items[j - 1] - items[a] >= 2 * k /\ items[a] \in Int /\ items[j - 1] \in Int
      BY <3>1, <3>2, <2>1, <1>7
    <3> QED
      BY <3>1, <3>2, <3>3
  <2> QED
    BY <2>1, <2>2, <2>3, <2>4, <2>5
<1> QED
  BY <1>9, <1>11, Lengths DEF Spaced

(***************************************************************************)
(* A card that is dropped on another one lies next to it, on the side of   *)
(* the edge that was nearer, also when it comes from above in the same     *)
(* column; dropped on itself it stays where it is.                         *)
(***************************************************************************)
THEOREM DropLandsAtEdge ==
    ASSUME NEW col \in Seq(Int), NEW moving \in 0..Len(col), NEW over \in 1..Len(col),
           NEW edge \in {"top", "bottom"}
    PROVE  LET items == ToItems(col, moving)
               idx == Idx(col, moving, InsertIndex(over, edge)) IN
           IF over = moving THEN idx = moving - 1
           ELSE IF edge = "bottom" THEN idx > 0 /\ items[idx] = col[over]
                ELSE idx < Len(items) /\ items[idx + 1] = col[over]
<1> DEFINE items == ToItems(col, moving)
           idx == Idx(col, moving, InsertIndex(over, edge))
<1>0. /\ items \in Seq(Int)
      /\ Len(items) = IF moving = 0 THEN Len(col) ELSE Len(col) - 1
      /\ \A i \in 1..Len(items) :
            items[i] = IF moving = 0 \/ i < moving THEN col[i] ELSE col[i + 1]
  BY ItemsOfColumn, Zenon
<1>1. /\ Len(items) \in Nat
      /\ Len(items) = IF moving = 0 THEN Len(col) ELSE Len(col) - 1
      /\ \A i \in 1..Len(items) :
            items[i] = IF moving = 0 \/ i < moving THEN col[i] ELSE col[i + 1]
  BY <1>0, Lengths, Zenon
<1>2. InsertIndex(over, edge) = IF edge = "bottom" THEN over ELSE over - 1
  BY DEF InsertIndex
<1>3. CASE over = moving
  BY <1>2, <1>3 DEF Idx
<1>4. CASE over # moving /\ edge = "bottom"
  <2>1. idx = (IF moving # 0 /\ moving < over THEN over - 1 ELSE over) /\ idx \in 1..Len(items)
    BY <1>1, <1>2, <1>4 DEF Idx
  <2> QED
    BY <2>1, <1>1, <1>4
<1>5. CASE over # moving /\ edge = "top"
  <2>1. Len(col) \in Nat /\ InsertIndex(over, edge) = over - 1
    BY <1>2, <1>5, Lengths
  <2>2. CASE moving # 0 /\ moving < over
    <3>1. idx = over - 2
      BY <2>1, <2>2 DEF Idx
    <3>2. idx + 1 \in 1..Len(items) /\ idx + 1 >= moving /\ (idx + 1) + 1 = over
      BY <3>1, <2>1, <2>2, <1>1
    <3>3. items[idx + 1] = col[(idx + 1) + 1]
      BY <3>2, <2>2, <1>1
    <3>4. idx < Len(items) /\ idx \in Int
      BY <3>1, <3>2, <1>1
    <3> QED
      BY <3>2, <3>3, <3>4, <1>5
  <2>3. CASE moving = 0 \/ moving > over
    <3>1. idx = over - 1
      BY <2>1, <2>3 DEF Idx
    <3>2. idx + 1 \in 1..Len(items) /\ idx + 1 = over
      BY <3>1, <2>1, <2>3, <1>1
    <3>3. items[idx + 1] = col[idx + 1]
      BY <3>2, <2>3, <1>1
    <3>4. idx < Len(items)
      BY <3>1, <3>2, <1>1
    <3> QED
      BY <3>2, <3>3, <3>4, <1>5
  <2> QED
    BY <2>2, <2>3, <1>5
<1> QED
  BY <1>3, <1>4, <1>5
===============================================================================
