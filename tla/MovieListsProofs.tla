--------------------------- MODULE MovieListsProofs ---------------------------
(* What the sort and the merge of MovieLists do to every list of entries.  *)
EXTENDS MovieLists, RecursionProofs, TLAPS

-----------------------------------------------------------------------------
(* Lists.                                                                  *)

LEMMA OrderedEntries ==
  ASSUME NEW s
  PROVE  Ordered(s) <=> \A i, j \in 1..Len(s) : i < j => ~Better(s[j], s[i])
BY DEF Ordered, IsSorted

LEMMA BetterOrder ==
  ASSUME NEW a \in Entry, NEW b \in Entry, NEW c \in Entry
  PROVE  /\ ~Better(a, a)
         /\ Better(a, b) => ~Better(b, a)
         /\ ~Better(a, b) /\ ~Better(b, c) => ~Better(a, c)
         /\ Better(a, b) /\ ~Better(c, b) => Better(a, c)
BY DEF Entry, Better

-----------------------------------------------------------------------------
(* Merging.                                                                *)

\* How many of the first k entries of a merge are from the left.
FromLeft(l, r) ==
  CHOOSE L : L = [k \in 0..(Len(l) + Len(r)) |-> IF k = 0 THEN 0 ELSE Placed(l, r, k)[L[k - 1]]]

LEMMA MergeByCount ==
  ASSUME NEW l, NEW r
  PROVE  Merge(l, r) = [k \in 1..(Len(l) + Len(r)) |->
                          IF FromLeft(l, r)[k] > FromLeft(l, r)[k - 1]
                          THEN l[FromLeft(l, r)[k]] ELSE r[k - FromLeft(l, r)[k]]]
BY DEF Merge, FromLeft

LEMMA PlacedSteps ==
  ASSUME NEW l \in Seq(Entry), NEW r \in Seq(Entry), NEW k \in Nat, NEW i \in 0..Len(l)
  PROVE  /\ Placed(l, r, k)[i] \in 0..Len(l)
         /\ Placed(l, r, k)[i] = IF TakesLeft(l, r, i, k - 1 - i) THEN i + 1 ELSE i
<1>1. Len(l) \in Nat
  OBVIOUS
<1>2. TakesLeft(l, r, i, k - 1 - i) => i < Len(l)
  BY DEF TakesLeft
<1> QED  BY <1>1, <1>2 DEF Placed

LEMMA FromLeftSteps ==
  ASSUME NEW l \in Seq(Entry), NEW r \in Seq(Entry)
  PROVE  LET L == FromLeft(l, r)
             n == Len(l) + Len(r)
         IN  /\ L \in [0..n -> 0..Len(l)] /\ L[0] = 0
             /\ \A k \in 1..n :
                  L[k] = IF TakesLeft(l, r, L[k - 1], k - 1 - L[k - 1])
                         THEN L[k - 1] + 1 ELSE L[k - 1]
<1> DEFINE n == Len(l) + Len(r)
           H == [k \in 1..n |-> Placed(l, r, k)]
           V == 0..Len(l)
           Is(L) == L = [k \in 0..n |-> IF k = 0 THEN 0 ELSE Placed(l, r, k)[L[k - 1]]]
<1>1. Len(l) \in Nat /\ Len(r) \in Nat /\ n \in Nat /\ 0 \in V
  OBVIOUS
<1>2. \A k \in 1..n : H[k] = Placed(l, r, k)
  OBVIOUS
<1>3. StepsWithin(V, n, H)
  BY <1>1, <1>2, PlacedSteps DEF StepsWithin
<1> HIDE DEF n, H, V
<1>4. PICK f : Follows(f, V, 0, n, H)
  BY <1>1, <1>3, Recursion
<1>5. Is(f)
  BY <1>1, <1>2, <1>4 DEF Follows
<1> DEFINE L == FromLeft(l, r)
<1>6. Is(L)
  BY <1>5 DEF FromLeft, n
<1> HIDE DEF L
<1> DEFINE S == {m \in Nat : m <= n => L[m] \in V}
<1>7. L[0] = 0 /\ \A k \in 1..n : L[k] = Placed(l, r, k)[L[k - 1]]
  BY <1>1, <1>6
<1>8. 0 \in S
  BY <1>1, <1>7
<1>9. ASSUME NEW m \in Nat, m \in S PROVE m + 1 \in S
  <2> SUFFICES ASSUME m + 1 <= n PROVE L[m + 1] \in V
    OBVIOUS
  <2>1. L[m] \in V
    BY <1>1, <1>9
  <2>2. L[m + 1] = Placed(l, r, m + 1)[L[m]]
    BY <1>1, <1>7
  <2> QED  BY <2>1, <2>2, PlacedSteps DEF V
<1>10. \A m \in Nat : m \in S
  <2> HIDE DEF S
  <2> QED  BY <1>8, <1>9, Induct
<1>11. \A m \in 0..n : L[m] \in V
  BY <1>1, <1>10
<1>12. L \in [0..n -> V]
  BY <1>6, <1>11
<1>13. \A k \in 1..n : L[k] = IF TakesLeft(l, r, L[k - 1], k - 1 - L[k - 1])
                              THEN L[k - 1] + 1 ELSE L[k - 1]
  <2> SUFFICES ASSUME NEW k \in 1..n
               PROVE  L[k] = IF TakesLeft(l, r, L[k - 1], k - 1 - L[k - 1])
                             THEN L[k - 1] + 1 ELSE L[k - 1]
    OBVIOUS
  <2>1. k \in Nat /\ k - 1 \in 0..n
    BY <1>1
  <2>2. L[k - 1] \in 0..Len(l)
    BY <1>11, <2>1 DEF V
  <2>3. L[k] = Placed(l, r, k)[L[k - 1]]
    BY <1>7
  <2> QED  BY <2>1, <2>2, <2>3, PlacedSteps
<1> QED  BY <1>7, <1>12, <1>13 DEF L, n, V

\* The rest comes from the right.
LEMMA FromRight ==
  ASSUME NEW l \in Seq(Entry), NEW r \in Seq(Entry)
  PROVE  \A k \in 0..(Len(l) + Len(r)) : /\ FromLeft(l, r)[k] \in 0..Len(l)
                                         /\ k - FromLeft(l, r)[k] \in 0..Len(r)
<1> DEFINE L == FromLeft(l, r)
           n == Len(l) + Len(r)
           S == {k \in Nat : k <= n => k - L[k] \in 0..Len(r)}
<1>1. Len(l) \in Nat /\ Len(r) \in Nat /\ n \in Nat
  OBVIOUS
<1>2. /\ L \in [0..n -> 0..Len(l)] /\ L[0] = 0
      /\ \A k \in 1..n :
           L[k] = IF TakesLeft(l, r, L[k - 1], k - 1 - L[k - 1]) THEN L[k - 1] + 1 ELSE L[k - 1]
  BY FromLeftSteps
<1> HIDE DEF L
<1>3. \A k \in 0..n : L[k] \in 0..Len(l)
  BY <1>2
<1>4. 0 \in S
  BY <1>1, <1>2
<1>5. ASSUME NEW k \in Nat, k \in S PROVE k + 1 \in S
  <2> SUFFICES ASSUME k + 1 <= n PROVE k + 1 - L[k + 1] \in 0..Len(r)
    BY <1>1, <1>3
  <2>1. k - L[k] \in 0..Len(r) /\ L[k] \in 0..Len(l) /\ k \in 0..n
    BY <1>1, <1>3, <1>5
  <2>2. L[k + 1] = IF TakesLeft(l, r, L[k], k - L[k]) THEN L[k] + 1 ELSE L[k]
    <3>1. k + 1 \in 1..n /\ k + 1 - 1 = k
      BY <1>1
    <3> QED  BY <1>2, <3>1
  <2>3. ~TakesLeft(l, r, L[k], k - L[k]) => k - L[k] < Len(r)
    BY <1>1, <2>1 DEF TakesLeft
  <2> QED  BY <1>1, <2>1, <2>2, <2>3
<1>6. \A k \in Nat : k \in S
  <2> HIDE DEF S
  <2> QED  BY <1>4, <1>5, Induct
<1>7. \A k \in 0..n : k - L[k] \in 0..Len(r)
  BY <1>1, <1>6
<1> QED  BY <1>3, <1>7 DEF L

\* Neither side ever goes back.
LEMMA MergeGoesOn ==
  ASSUME NEW l \in Seq(Entry), NEW r \in Seq(Entry)
  PROVE  LET L == FromLeft(l, r)
         IN  \A k \in 0..(Len(l) + Len(r)) : \A i \in 0..k :
               L[i] <= L[k] /\ i - L[i] <= k - L[k]
<1> DEFINE L == FromLeft(l, r)
           n == Len(l) + Len(r)
           S == {k \in Nat : k <= n => \A i \in 0..k : L[i] <= L[k] /\ i - L[i] <= k - L[k]}
<1>1. Len(l) \in Nat /\ Len(r) \in Nat /\ n \in Nat
  OBVIOUS
<1>2. /\ L \in [0..n -> 0..Len(l)]
      /\ \A k \in 1..n : L[k] = L[k - 1] + 1 \/ L[k] = L[k - 1]
  BY FromLeftSteps
<1> HIDE DEF L, n
<1>3. \A k \in 0..n : L[k] \in Int
  BY <1>2
<1>4. 0 \in S
  BY <1>1, <1>3
<1>5. ASSUME NEW k \in Nat, k \in S PROVE k + 1 \in S
  <2> SUFFICES ASSUME k + 1 <= n, NEW i \in 0..(k + 1)
               PROVE  L[i] <= L[k + 1] /\ i - L[i] <= k + 1 - L[k + 1]
    BY <1>1, <1>3
  <2>1. k \in 0..n /\ k + 1 \in 0..n /\ L[k] \in Int /\ L[k + 1] \in Int /\ L[i] \in Int
    BY <1>1, <1>3
  <2>2. L[k + 1] = L[k] + 1 \/ L[k + 1] = L[k]
    <3>1. k + 1 \in 1..n /\ k + 1 - 1 = k
      BY <1>1
    <3> QED  BY <1>2, <3>1
  <2>3. CASE i = k + 1
    BY <2>1, <2>3
  <2>4. CASE i \in 0..k
    <3>1. L[i] <= L[k] /\ i - L[i] <= k - L[k]
      BY <1>5, <1>1, <2>4
    <3> QED  BY <2>1, <2>2, <3>1
  <2> QED  BY <2>3, <2>4
<1>6. \A k \in Nat : k \in S
  <2> HIDE DEF S
  <2> QED  BY <1>4, <1>5, Induct
<1> QED  BY <1>1, <1>6 DEF L, n

\* Where the k-th entry of a merge stood before.
MergedFrom(l, r) ==
  [k \in 1..(Len(l) + Len(r)) |-> IF FromLeft(l, r)[k] > FromLeft(l, r)[k - 1]
                                  THEN FromLeft(l, r)[k]
                                  ELSE Len(l) + k - FromLeft(l, r)[k]]

\* The two ways an entry gets its place.
LEMMA MergePlaces ==
  ASSUME NEW l \in Seq(Entry), NEW r \in Seq(Entry), NEW k \in 1..(Len(l) + Len(r))
  PROVE  LET L == FromLeft(l, r)
             i == L[k - 1]
             j == k - 1 - i
         IN  /\ i \in 0..Len(l) /\ j \in 0..Len(r)
             /\ \/ /\ TakesLeft(l, r, i, j) /\ i < Len(l) /\ L[k] = i + 1
                   /\ MergedFrom(l, r)[k] = i + 1 /\ Merge(l, r)[k] = l[i + 1]
                \/ /\ ~TakesLeft(l, r, i, j) /\ j < Len(r) /\ L[k] = i
                   /\ MergedFrom(l, r)[k] = Len(l) + j + 1 /\ Merge(l, r)[k] = r[j + 1]
<1> DEFINE L == FromLeft(l, r)
           n == Len(l) + Len(r)
           i == L[k - 1]
           j == k - 1 - i
<1>1. Len(l) \in Nat /\ Len(r) \in Nat /\ n \in Nat /\ k - 1 \in 0..n /\ k \in 0..n
  OBVIOUS
<1>2. i \in 0..Len(l) /\ j \in 0..Len(r) /\ k - L[k] \in 0..Len(r)
  BY <1>1, FromRight
<1>3. L[k] = IF TakesLeft(l, r, i, j) THEN i + 1 ELSE i
  BY FromLeftSteps
<1>4. Merge(l, r)[k] = IF L[k] > i THEN l[L[k]] ELSE r[k - L[k]]
  BY MergeByCount
<1>5. MergedFrom(l, r)[k] = IF L[k] > i THEN L[k] ELSE Len(l) + k - L[k]
  BY DEF MergedFrom
<1> HIDE DEF L, i
<1>6. CASE TakesLeft(l, r, i, j)
  <2>1. i < Len(l)
    BY <1>6 DEF TakesLeft
  <2>2. L[k] = i + 1 /\ L[k] > i
    BY <1>2, <1>3, <1>6
  <2> QED  BY <1>2, <1>4, <1>5, <1>6, <2>1, <2>2 DEF L, i
<1>7. CASE ~TakesLeft(l, r, i, j)
  <2>1. L[k] = i /\ ~(L[k] > i)
    BY <1>2, <1>3, <1>7
  <2>2. k - i = j + 1 /\ Len(l) + k - i = Len(l) + j + 1 /\ j < Len(r)
    BY <1>1, <1>2, <2>1
  <2> QED  BY <1>2, <1>4, <1>5, <1>7, <2>1, <2>2 DEF L, i
<1> QED  BY <1>6, <1>7

LEMMA MergeTyped ==
  ASSUME NEW l \in Seq(Entry), NEW r \in Seq(Entry)
  PROVE  Merge(l, r) \in Seq(Entry) /\ Len(Merge(l, r)) = Len(l) + Len(r)
<1> DEFINE n == Len(l) + Len(r)
<1>1. n \in Nat
  OBVIOUS
<1>2. \A k \in 1..n : Merge(l, r)[k] \in Entry
  <2> SUFFICES ASSUME NEW k \in 1..n PROVE Merge(l, r)[k] \in Entry
    OBVIOUS
  <2> DEFINE i == FromLeft(l, r)[k - 1]
             j == k - 1 - i
  <2>1. /\ i \in 0..Len(l) /\ j \in 0..Len(r)
        /\ \/ i < Len(l) /\ Merge(l, r)[k] = l[i + 1]
           \/ j < Len(r) /\ Merge(l, r)[k] = r[j + 1]
    BY MergePlaces
  <2> HIDE DEF i, j
  <2>2. \A s \in Seq(Entry) : \A m \in 0..Len(s) : m < Len(s) => s[m + 1] \in Entry
    OBVIOUS
  <2> QED  BY <2>1, <2>2
<1>3. Merge(l, r) = [k \in 1..n |-> Merge(l, r)[k]]
  BY MergeByCount
<1>4. Merge(l, r) \in [1..n -> Entry]
  BY <1>2, <1>3
<1> QED  BY <1>1, <1>4

(* A merge has every entry of both sides once (server.c 56-86).            *)
THEOREM MergeRearranges ==
  ASSUME NEW l \in Seq(Entry), NEW r \in Seq(Entry)
  PROVE  LET n == Len(l) + Len(r)
         IN  /\ MergedFrom(l, r) \in [1..n -> 1..n]
             /\ \A k, m \in 1..n : MergedFrom(l, r)[k] = MergedFrom(l, r)[m] => k = m
             /\ \A k \in 1..n : LET g == MergedFrom(l, r)[k]
                                IN  Merge(l, r)[k] = IF g <= Len(l) THEN l[g] ELSE r[g - Len(l)]
<1> DEFINE n == Len(l) + Len(r)
           L == FromLeft(l, r)
           G == MergedFrom(l, r)
           i(k) == L[k - 1]
           j(k) == k - 1 - i(k)
<1>1. Len(l) \in Nat /\ Len(r) \in Nat /\ n \in Nat
  OBVIOUS
<1>2. \A k \in 1..n :
        /\ i(k) \in 0..Len(l) /\ j(k) \in 0..Len(r)
        /\ \/ i(k) < Len(l) /\ L[k] = i(k) + 1 /\ G[k] = i(k) + 1 /\ Merge(l, r)[k] = l[i(k) + 1]
           \/ /\ j(k) < Len(r) /\ L[k] = i(k) /\ G[k] = Len(l) + j(k) + 1
              /\ Merge(l, r)[k] = r[j(k) + 1]
  BY MergePlaces
<1>3. G = [k \in 1..n |-> G[k]]
  BY DEF MergedFrom
<1> HIDE DEF G, L
<1>4. G \in [1..n -> 1..n]
  <2>1. ASSUME NEW k \in 1..n PROVE G[k] \in 1..n
    <3>1. /\ i(k) \in 0..Len(l) /\ j(k) \in 0..Len(r)
          /\ \/ i(k) < Len(l) /\ G[k] = i(k) + 1
             \/ j(k) < Len(r) /\ G[k] = Len(l) + j(k) + 1
      BY <1>2
    <3> HIDE DEF i, j
    <3> QED  BY <1>1, <3>1
  <2> QED  BY <1>3, <2>1
<1>5. \A k, m \in 1..n : m < k => G[k] # G[m]
  <2> SUFFICES ASSUME NEW k \in 1..n, NEW m \in 1..n, m < k PROVE G[k] # G[m]
    OBVIOUS
  <2>1. k - 1 \in 0..n /\ m \in 0..(k - 1)
    BY <1>1
  <2>2. L[m] <= i(k) /\ m - L[m] <= k - 1 - i(k)
    BY <2>1, MergeGoesOn DEF L
  <2>3. /\ i(k) \in 0..Len(l) /\ j(k) = k - 1 - i(k) /\ j(k) \in 0..Len(r)
        /\ (i(k) < Len(l) /\ G[k] = i(k) + 1) \/ (j(k) < Len(r) /\ G[k] = Len(l) + j(k) + 1)
    BY <1>2
  <2>4. /\ i(m) \in 0..Len(l) /\ j(m) = m - 1 - i(m) /\ j(m) \in 0..Len(r)
        /\ \/ i(m) < Len(l) /\ L[m] = i(m) + 1 /\ G[m] = i(m) + 1
           \/ L[m] = i(m) /\ G[m] = Len(l) + j(m) + 1
    BY <1>2
  <2>5. m \in Int /\ k \in Int
    BY <1>1
  <2> HIDE DEF i, j, n
  <2>6. CASE G[k] = i(k) + 1 /\ i(k) < Len(l)
    BY <1>1, <2>2, <2>3, <2>4, <2>5, <2>6
  <2>7. CASE G[k] = Len(l) + j(k) + 1
    <3>1. CASE G[m] = i(m) + 1 /\ i(m) < Len(l)
      BY <1>1, <2>3, <2>4, <2>7, <3>1
    <3>2. CASE L[m] = i(m) /\ G[m] = Len(l) + j(m) + 1
      <4>1. j(m) + 1 <= j(k)
        BY <2>2, <2>3, <2>4, <2>5, <3>2
      <4> QED  BY <1>1, <2>3, <2>4, <2>7, <3>2, <4>1
    <3> QED  BY <2>4, <3>1, <3>2
  <2> QED  BY <2>3, <2>6, <2>7
<1>6. \A k, m \in 1..n : G[k] = G[m] => k = m
  BY <1>1, <1>5
<1>7. \A k \in 1..n : Merge(l, r)[k] = IF G[k] <= Len(l) THEN l[G[k]] ELSE r[G[k] - Len(l)]
  <2> SUFFICES ASSUME NEW k \in 1..n
               PROVE  Merge(l, r)[k] = IF G[k] <= Len(l) THEN l[G[k]] ELSE r[G[k] - Len(l)]
    OBVIOUS
  <2>1. CASE i(k) < Len(l) /\ G[k] = i(k) + 1 /\ Merge(l, r)[k] = l[i(k) + 1]
    <3>1. G[k] <= Len(l)
      BY <1>1, <1>2, <2>1
    <3> QED  BY <2>1, <3>1
  <2>2. CASE j(k) < Len(r) /\ G[k] = Len(l) + j(k) + 1 /\ Merge(l, r)[k] = r[j(k) + 1]
    <3>1. ~(G[k] <= Len(l)) /\ G[k] - Len(l) = j(k) + 1
      <4>1. j(k) \in 0..Len(r)
        BY <1>2
      <4> HIDE DEF j
      <4> QED  BY <1>1, <2>2, <4>1
    <3> QED  BY <2>2, <3>1
  <2> QED  BY <1>2, <2>1, <2>2
<1> QED  BY <1>4, <1>6, <1>7 DEF G

(* Two halves in order are merged into a list in order (server.c 56-86).   *)
THEOREM MergeOrdered ==
  ASSUME NEW l \in Seq(Entry), NEW r \in Seq(Entry), Ordered(l), Ordered(r)
  PROVE  Ordered(Merge(l, r))
<1> DEFINE n == Len(l) + Len(r)
           L == FromLeft(l, r)
           M == Merge(l, r)
<1>1. Len(l) \in Nat /\ Len(r) \in Nat /\ n \in Nat /\ Len(M) = n
  <2>1. Len(l) \in Nat /\ Len(r) \in Nat
    OBVIOUS
  <2>2. Len(M) = n
    BY MergeTyped, Zenon
  <2> QED  BY <2>1, <2>2
<1> SUFFICES ASSUME NEW m \in 1..n, NEW k \in 1..n, m < k PROVE ~Better(M[k], M[m])
  BY <1>1, OrderedEntries
<1>2. /\ \A a, b \in 1..Len(l) : a < b => ~Better(l[b], l[a])
      /\ \A a, b \in 1..Len(r) : a < b => ~Better(r[b], r[a])
  BY OrderedEntries
<1>3. /\ \A a \in 1..Len(l) : l[a] \in Entry
      /\ \A a \in 1..Len(r) : r[a] \in Entry
  OBVIOUS
\* Before the k-th entry i of l and j of r are placed, before the m-th one a and b.
<1> DEFINE i == L[k - 1]
           j == k - 1 - i
           a == L[m - 1]
           b == m - 1 - a
<1>4. /\ i \in 0..Len(l) /\ j \in 0..Len(r)
      /\ \/ i < Len(l) /\ M[k] = l[i + 1]
         \/ j < Len(r) /\ M[k] = r[j + 1]
  BY MergePlaces
<1>5. /\ a \in 0..Len(l) /\ b \in 0..Len(r)
      /\ \/ TakesLeft(l, r, a, b) /\ a < Len(l) /\ L[m] = a + 1 /\ M[m] = l[a + 1]
         \/ ~TakesLeft(l, r, a, b) /\ b < Len(r) /\ L[m] = a /\ M[m] = r[b + 1]
  BY MergePlaces
<1>6. L[m] <= i /\ m - L[m] <= j
  <2>1. k - 1 \in 0..n /\ m \in 0..(k - 1)
    BY <1>1
  <2> QED  BY <2>1, MergeGoesOn
<1> DEFINE x == M[k]
           y == M[m]
<1>7. m - 1 - a = b /\ m \in Int
  BY <1>1
<1> HIDE DEF L, M, i, j, a, b
<1>8. CASE /\ TakesLeft(l, r, a, b) /\ a < Len(l) /\ L[m] = a + 1 /\ M[m] = l[a + 1]
           /\ i < Len(l) /\ M[k] = l[i + 1]
  <2>1. a + 1 \in 1..Len(l) /\ i + 1 \in 1..Len(l) /\ a + 1 < i + 1
    BY <1>1, <1>4, <1>5, <1>6, <1>8
  <2> QED  BY <1>2, <1>8, <2>1
<1>9. CASE /\ ~TakesLeft(l, r, a, b) /\ b < Len(r) /\ L[m] = a /\ M[m] = r[b + 1]
           /\ j < Len(r) /\ M[k] = r[j + 1]
  <2>1. b + 1 \in 1..Len(r) /\ j + 1 \in 1..Len(r) /\ b + 1 < j + 1
    BY <1>1, <1>4, <1>5, <1>6, <1>7, <1>9
  <2> QED  BY <1>2, <1>9, <2>1
<1>10. CASE /\ TakesLeft(l, r, a, b) /\ a < Len(l) /\ L[m] = a + 1 /\ M[m] = l[a + 1]
            /\ j < Len(r) /\ M[k] = r[j + 1]
  <2>1. /\ a + 1 \in 1..Len(l) /\ b + 1 \in 1..Len(r) /\ j + 1 \in 1..Len(r)
        /\ b # Len(r) /\ (b + 1 < j + 1 \/ b + 1 = j + 1)
    BY <1>1, <1>4, <1>5, <1>6, <1>7, <1>10
  <2>2. Better(l[a + 1], r[b + 1])
    BY <1>10, <2>1 DEF TakesLeft
  <2>3. /\ l[a + 1] \in Entry /\ r[b + 1] \in Entry /\ r[j + 1] \in Entry
    BY <1>3, <2>1
  <2>4. ~Better(r[j + 1], r[b + 1])
    BY <1>2, <2>1, <2>3, BetterOrder
  <2>5. ~Better(r[b + 1], l[a + 1])
    BY <2>2, <2>3, BetterOrder
  <2>6. ~Better(r[j + 1], l[a + 1])
    BY <2>3, <2>4, <2>5, BetterOrder
  <2> QED  BY <1>10, <2>6
<1>11. CASE /\ ~TakesLeft(l, r, a, b) /\ b < Len(r) /\ L[m] = a /\ M[m] = r[b + 1]
            /\ i < Len(l) /\ M[k] = l[i + 1]
  <2>1. /\ a + 1 \in 1..Len(l) /\ b + 1 \in 1..Len(r) /\ i + 1 \in 1..Len(l)
        /\ a < Len(l) /\ (a + 1 < i + 1 \/ a + 1 = i + 1)
    BY <1>1, <1>4, <1>5, <1>6, <1>7, <1>11
  <2>2. ~Better(l[a + 1], r[b + 1])
    BY <1>11, <2>1 DEF TakesLeft
  <2>3. /\ l[a + 1] \in Entry /\ r[b + 1] \in Entry /\ l[i + 1] \in Entry
    BY <1>3, <2>1
  <2>4. ~Better(l[i + 1], l[a + 1])
    BY <1>2, <2>1, <2>3, BetterOrder
  <2>5. ~Better(l[i + 1], r[b + 1])
    BY <2>2, <2>3, <2>4, BetterOrder
  <2> QED  BY <1>11, <2>5
<1> QED  BY <1>4, <1>5, <1>8, <1>9, <1>10, <1>11

-----------------------------------------------------------------------------
(* Sorting.                                                                *)

LEMMA ArgMaxBest ==
  ASSUME NEW s \in Seq(Entry), NEW i \in 1..Len(s)
  PROVE  /\ ArgMax(s, i) \in i..Len(s)
         /\ \A j \in i..Len(s) : ~Better(s[j], s[ArgMax(s, i)])
<1> DEFINE First(k, j) == Better(s[k], s[j]) \/ (~Better(s[j], s[k]) /\ k <= j)
           S == {m \in Nat : i + m <= Len(s) =>
                   \E k \in i..(i + m) : \A j \in i..(i + m) : First(k, j)}
<1>1. Len(s) \in Nat /\ i \in Nat /\ \A k \in 1..Len(s) : s[k] \in Entry
  OBVIOUS
<1>2. \A k \in 1..Len(s) : First(k, k)
  BY <1>1, BetterOrder
<1>3. 0 \in S
  <2>1. i + 0 = i /\ i..i = {i}
    BY <1>1
  <2> QED  BY <1>2, <2>1
<1>4. ASSUME NEW m \in Nat, m \in S PROVE m + 1 \in S
  <2> DEFINE x == i + (m + 1)
  <2> SUFFICES ASSUME x <= Len(s) PROVE \E k \in i..x : \A j \in i..x : First(k, j)
    BY <1>1
  <2>1. PICK k \in i..(i + m) : \A j \in i..(i + m) : First(k, j)
    BY <1>1, <1>4
  <2>2. /\ k \in 1..Len(s) /\ x \in 1..Len(s) /\ k <= x /\ k \in i..x /\ x \in i..x
        /\ s[k] \in Entry /\ s[x] \in Entry
        /\ \A j \in i..x : j = x \/ j \in i..(i + m)
        /\ \A j \in i..x : j \in 1..Len(s) /\ s[j] \in Entry
    BY <1>1
  <2> HIDE DEF x
  <2>3. CASE Better(s[x], s[k])
    <3>1. ASSUME NEW j \in i..(i + m), s[j] \in Entry PROVE Better(s[x], s[j])
      <4>1. ~Better(s[j], s[k])
        BY <2>1, <2>2, <3>1, BetterOrder
      <4> QED  BY <2>2, <2>3, <3>1, <4>1, BetterOrder
    <3>2. \A j \in i..x : First(x, j)
      BY <1>2, <2>2, <3>1
    <3> QED  BY <2>2, <3>2
  <2>4. CASE ~Better(s[x], s[k])
    <3>1. \A j \in i..x : First(k, j)
      BY <2>1, <2>2, <2>4
    <3> QED  BY <2>2, <3>1
  <2> QED  BY <2>3, <2>4
<1>5. Len(s) - i \in S
  <2>1. \A m \in Nat : m \in S
    <3> HIDE DEF S
    <3> QED  BY <1>3, <1>4, Induct
  <2>2. Len(s) - i \in Nat
    BY <1>1
  <2> QED  BY <2>1, <2>2
<1>6. \E k \in i..Len(s) : \A j \in i..Len(s) : First(k, j)
  <2>1. i + (Len(s) - i) = Len(s)
    BY <1>1
  <2> QED  BY <1>1, <1>5, <2>1
<1>7. /\ ArgMax(s, i) \in i..Len(s)
      /\ \A j \in i..Len(s) : First(ArgMax(s, i), j)
  BY <1>6 DEF ArgMax
<1> QED  BY <1>1, <1>7, BetterOrder

LEMMA EntryFields ==
  ASSUME NEW e \in Entry
  PROVE  e.title \in Nat /\ e.score \in Nat /\ e.secret \in Nat
BY DEF Entry

LEMMA Marked ==
  ASSUME NEW e \in Entry
  PROVE  LET m == [e EXCEPT !.secret = @ + 1]
         IN  /\ m \in Entry /\ m.title = e.title /\ m.score = e.score
             /\ m.secret = e.secret + 1 /\ e.secret \in Nat
BY DEF Entry

LEMMA PlaceSwaps ==
  ASSUME NEW s \in Seq(Entry), NEW i \in 1..Len(s)
  PROVE  LET k == ArgMax(s, i)
         IN  /\ Place(s, i) \in Seq(Entry) /\ Len(Place(s, i)) = Len(s)
             /\ \A b \in 1..Len(s) :
                  Place(s, i)[b] = IF b = i THEN [s[k] EXCEPT !.secret = @ + 1]
                                   ELSE IF b = k THEN s[i] ELSE s[b]
<1> DEFINE k == ArgMax(s, i)
           best == [s[k] EXCEPT !.secret = @ + 1]
<1>1. k \in 1..Len(s) /\ s[k] \in Entry /\ s[i] \in Entry
  BY ArgMaxBest
<1>2. best \in Entry
  BY <1>1, Marked
<1>3. Place(s, i) = [s EXCEPT ![k] = s[i], ![i] = best]
  BY DEF Place
<1> HIDE DEF k, best
<1> QED  BY <1>1, <1>2, <1>3 DEF k, best

\* After i rounds t has the i best entries of s in front, each marked once more, and behind
\* them the others as they were.
Sorting(s, t, i) ==
  /\ t \in Seq(Entry) /\ Len(t) = Len(s)
  /\ \E g \in [1..Len(s) -> 1..Len(s)] :
       /\ \A k, m \in 1..Len(s) : g[k] = g[m] => k = m
       /\ \A k \in 1..Len(s) : /\ t[k].title = s[g[k]].title /\ t[k].score = s[g[k]].score
                               /\ t[k].secret = s[g[k]].secret + (IF k <= i THEN 1 ELSE 0)
  /\ \A a, b \in 1..Len(s) : a < b /\ a <= i => ~Better(t[b], t[a])

LEMMA SortingStarts ==
  ASSUME NEW s \in Seq(Entry)
  PROVE  Sorting(s, s, 0)
<1> DEFINE g == [k \in 1..Len(s) |-> k]
<1>1. Len(s) \in Nat /\ \A k \in 1..Len(s) : s[k].secret \in Nat
  <2>1. \A k \in 1..Len(s) : s[k] \in Entry
    OBVIOUS
  <2> QED  BY <2>1, EntryFields
<1>2. /\ g \in [1..Len(s) -> 1..Len(s)] /\ \A k \in 1..Len(s) : g[k] = k
  OBVIOUS
<1> HIDE DEF g
<1>3. \A k, m \in 1..Len(s) : g[k] = g[m] => k = m
  BY <1>2
<1>4. \A k \in 1..Len(s) : s[g[k]].secret + (IF k <= 0 THEN 1 ELSE 0) = s[k].secret
  BY <1>1, <1>2
<1>5. \A k \in 1..Len(s) : s[k].title = s[g[k]].title /\ s[k].score = s[g[k]].score
  BY <1>2
<1> QED  BY <1>1, <1>2, <1>3, <1>4, <1>5 DEF Sorting

LEMMA SortingGoesOn ==
  ASSUME NEW s \in Seq(Entry), NEW t, NEW i \in 1..Len(s), Sorting(s, t, i - 1)
  PROVE  Sorting(s, Place(t, i), i)
<1> DEFINE n == Len(s)
           k == ArgMax(t, i)
           u == Place(t, i)
           w == [b \in 1..n |-> IF b = i THEN k ELSE IF b = k THEN i ELSE b]
<1>1. n \in Nat /\ t \in Seq(Entry) /\ Len(t) = n /\ i \in 1..n /\ i \in Int
  BY DEF Sorting
<1>2. k \in i..n /\ \A j \in i..n : ~Better(t[j], t[k])
  BY <1>1, ArgMaxBest
<1>3. /\ u \in Seq(Entry) /\ Len(u) = n
      /\ \A b \in 1..n : u[b] = IF b = i THEN [t[k] EXCEPT !.secret = @ + 1]
                                ELSE IF b = k THEN t[i] ELSE t[b]
  BY <1>1, PlaceSwaps
<1>4. PICK g \in [1..n -> 1..n] :
        /\ \A x, y \in 1..n : g[x] = g[y] => x = y
        /\ \A x \in 1..n : /\ t[x].title = s[g[x]].title /\ t[x].score = s[g[x]].score
                           /\ t[x].secret = s[g[x]].secret + (IF x <= i - 1 THEN 1 ELSE 0)
  BY DEF Sorting
<1>5. \A a, b \in 1..n : a < b /\ a <= i - 1 => ~Better(t[b], t[a])
  BY DEF Sorting
<1>6. /\ w \in [1..n -> 1..n]
      /\ \A b \in 1..n : w[b] = IF b = i THEN k ELSE IF b = k THEN i ELSE b
  BY <1>1, <1>2
<1>7. \A b \in 1..n : t[b] \in Entry /\ s[b] \in Entry
  BY <1>1
<1> HIDE DEF k, u, w, n
<1>8. /\ n \in Int /\ i \in Int /\ k \in Int /\ 1 <= i /\ i <= k /\ k <= n
  BY <1>1, <1>2
<1>9. ASSUME NEW x \in 1..n
     PROVE  (x = i /\ w[x] = k) \/ (x # i /\ x = k /\ w[x] = i) \/ (x # i /\ x # k /\ w[x] = x)
  BY <1>6
<1>10. \A b \in 1..n : /\ u[b].title = t[w[b]].title /\ u[b].score = t[w[b]].score
                       /\ u[b].secret = t[w[b]].secret + (IF b = i THEN 1 ELSE 0)
  <2> SUFFICES ASSUME NEW b \in 1..n
               PROVE  /\ u[b].title = t[w[b]].title /\ u[b].score = t[w[b]].score
                      /\ u[b].secret = t[w[b]].secret + (IF b = i THEN 1 ELSE 0)
    OBVIOUS
  <2>1. t[w[b]] \in Entry /\ t[w[b]].secret \in Nat
    BY <1>6, <1>7, Marked
  <2>2. CASE b = i
    <3>1. w[b] = k /\ u[b] = [t[k] EXCEPT !.secret = @ + 1]
      BY <1>3, <1>6, <2>2
    <3> QED  BY <2>1, <2>2, <3>1, Marked
  <2>3. CASE b # i
    <3>1. u[b] = t[w[b]]
      BY <1>3, <1>6, <2>3
    <3> QED  BY <2>1, <2>3, <3>1
  <2> QED  BY <2>2, <2>3
<1> DEFINE h == [b \in 1..n |-> g[w[b]]]
<1>11. h \in [1..n -> 1..n] /\ \A b \in 1..n : h[b] = g[w[b]]
  BY <1>6
<1> HIDE DEF h
<1>12. \A x, y \in 1..n : h[x] = h[y] => x = y
  <2>1. \A x, y \in 1..n : w[x] = w[y] => x = y
    BY <1>2, <1>6
  <2> QED  BY <1>4, <1>6, <1>11, <2>1
<1>13. ASSUME NEW x \in 1..n
       PROVE  /\ u[x].title = s[h[x]].title /\ u[x].score = s[h[x]].score
              /\ u[x].secret = s[h[x]].secret + (IF x <= i THEN 1 ELSE 0)
  <2>1. w[x] \in 1..n /\ h[x] = g[w[x]] /\ h[x] \in 1..n
    BY <1>6, <1>11
  <2>2. u[x].title = s[h[x]].title /\ u[x].score = s[h[x]].score
    BY <1>4, <1>10, <2>1
  <2>3. s[h[x]].secret \in Nat
    BY <1>7, <2>1, Marked
  <2>4. u[x].secret = s[h[x]].secret + (IF w[x] <= i - 1 THEN 1 ELSE 0) + (IF x = i THEN 1 ELSE 0)
    BY <1>4, <1>10, <2>1
  <2>5. w[x] <= i - 1 <=> x <= i - 1
    <3>1. x \in Int /\ w[x] \in Int
      BY <1>8, <1>9
    <3>2. (x = i /\ w[x] = k) \/ (x # i /\ x = k /\ w[x] = i) \/ (x # i /\ x # k /\ w[x] = x)
      BY <1>9
    <3> QED  BY <1>8, <3>1, <3>2
  <2> QED  BY <2>2, <2>3, <2>4, <2>5
<1>14. ASSUME NEW a \in 1..n, NEW b \in 1..n, a < b, a <= i
       PROVE  ~Better(u[b], u[a])
  <2>1. w[a] \in 1..n /\ w[b] \in 1..n
    BY <1>6
  <2>2. a \in Int /\ b \in Int /\ w[a] \in Int /\ w[b] \in Int /\ w[b] <= n
    <3>1. \A c \in 1..n : c \in Int /\ c <= n
      BY <1>8
    <3> QED  BY <2>1, <3>1
  <2>3. /\ (a = i /\ w[a] = k) \/ (a # i /\ a = k /\ w[a] = i) \/ (a # i /\ a # k /\ w[a] = a)
        /\ (b = i /\ w[b] = k) \/ (b # i /\ b = k /\ w[b] = i) \/ (b # i /\ b # k /\ w[b] = b)
    BY <1>9
  <2>4. a < b /\ a <= i /\ b <= n
    BY <1>8, <1>14
  <2> DEFINE x == w[a]
             y == w[b]
  <2>5. /\ a = i => x = k /\ y \in i..n
        /\ a # i => x = a /\ a <= i - 1 /\ a < y
    <3> HIDE DEF x, y
    <3>1. x \in Int /\ y \in Int
      BY <2>2 DEF x, y
    <3>2. /\ (a = i /\ x = k) \/ (a # i /\ a = k /\ x = i) \/ (a # i /\ a # k /\ x = a)
          /\ (b = i /\ y = k) \/ (b # i /\ b = k /\ y = i) \/ (b # i /\ b # k /\ y = b)
      BY <2>3 DEF x, y
    <3>3. CASE a = i
      <4>1. x = k /\ b # i /\ (y = i \/ y = b)
        BY <1>8, <2>2, <2>4, <3>2, <3>3
      <4> QED  BY <1>8, <2>2, <2>4, <3>3, <4>1
    <3>4. CASE a # i
      <4>1. a < i /\ a # k
        BY <1>8, <2>2, <2>4, <3>4
      <4>2. y = k \/ y = i \/ y = b
        BY <3>2
      <4> QED  BY <1>8, <2>2, <2>4, <3>2, <3>4, <4>1, <4>2
    <3> QED  BY <3>3, <3>4
  <2>6. SUFFICES ~Better(t[w[b]], t[w[a]])
    BY <1>10 DEF Better
  <2>7. CASE a = i
    <3>1. w[a] = k /\ w[b] \in i..n
      BY <2>5, <2>7
    <3> QED  BY <1>2, <3>1
  <2>8. CASE a # i
    <3>1. w[a] = a /\ a <= i - 1 /\ a < w[b]
      BY <2>5, <2>8
    <3> QED  BY <1>5, <2>1, <3>1
  <2> QED  BY <2>7, <2>8
<1>15. \E f \in [1..n -> 1..n] :
         /\ \A x, y \in 1..n : f[x] = f[y] => x = y
         /\ \A x \in 1..n : /\ u[x].title = s[f[x]].title /\ u[x].score = s[f[x]].score
                            /\ u[x].secret = s[f[x]].secret + (IF x <= i THEN 1 ELSE 0)
  BY <1>11, <1>12, <1>13
<1> QED  BY <1>3, <1>14, <1>15 DEF Sorting, n, u

\* The list after each round.
Rounds(s) ==
  CHOOSE F : F = [i \in 0..Len(s) |-> IF i = 0 THEN s ELSE Place(F[i - 1], i)]

LEMMA SortByRounds ==
  ASSUME NEW s
  PROVE  Sort(s) = Rounds(s)[Len(s)]
BY DEF Sort, Rounds

LEMMA RoundSteps ==
  ASSUME NEW s \in Seq(Entry)
  PROVE  /\ Rounds(s)[0] = s
         /\ \A i \in 1..Len(s) : Rounds(s)[i] = Place(Rounds(s)[i - 1], i)
<1> DEFINE n == Len(s)
           V == {v \in Seq(Entry) : Len(v) = n}
           H == [i \in 1..n |-> [v \in V |-> Place(v, i)]]
           Is(F) == F = [i \in 0..n |-> IF i = 0 THEN s ELSE Place(F[i - 1], i)]
<1>1. n \in Nat /\ s \in V
  OBVIOUS
<1>2. \A i \in 1..n : \A v \in V : H[i][v] = Place(v, i)
  OBVIOUS
<1>3. \A i \in 1..n : \A v \in V : Place(v, i) \in V
  BY PlaceSwaps
<1>4. StepsWithin(V, n, H)
  BY <1>2, <1>3 DEF StepsWithin
<1> HIDE DEF n, H, V
<1>5. PICK f : Follows(f, V, s, n, H)
  BY <1>1, <1>4, Recursion
<1>6. Is(f)
  <2>1. f \in [0..n -> V] /\ f[0] = s
    BY <1>5 DEF Follows
  <2>2. \A i \in 1..n : f[i] = Place(f[i - 1], i)
    <3> SUFFICES ASSUME NEW i \in 1..n PROVE f[i] = Place(f[i - 1], i)
      OBVIOUS
    <3>1. i - 1 \in 0..n /\ f[i] = H[i][f[i - 1]]
      BY <1>1, <1>5 DEF Follows
    <3> QED  BY <1>2, <2>1, <3>1
  <2> QED  BY <1>1, <2>1, <2>2
<1>7. Is(Rounds(s))
  BY <1>6 DEF Rounds, n
<1> QED  BY <1>1, <1>7 DEF n

(* The library's sort leaves every entry once, best first, each marked     *)
(* once more (lib.c 10-30).                                                *)
THEOREM Sorted ==
  ASSUME NEW s \in Seq(Entry)
  PROVE  Sorting(s, Sort(s), Len(s)) /\ Ordered(Sort(s))
<1> DEFINE n == Len(s)
           S == {i \in Nat : i <= n => Sorting(s, Rounds(s)[i], i)}
<1>1. n \in Nat
  OBVIOUS
<1>2. 0 \in S
  BY RoundSteps, SortingStarts
<1>3. ASSUME NEW i \in Nat, i \in S PROVE i + 1 \in S
  <2> SUFFICES ASSUME i + 1 <= n PROVE Sorting(s, Rounds(s)[i + 1], i + 1)
    BY <1>1
  <2>1. i + 1 \in 1..Len(s) /\ (i + 1) - 1 = i
    BY <1>1
  <2>2. Sorting(s, Rounds(s)[i], (i + 1) - 1)
    BY <1>1, <1>3, <2>1
  <2>3. Rounds(s)[i + 1] = Place(Rounds(s)[i], i + 1)
    BY <2>1, RoundSteps
  <2> QED  BY <2>1, <2>2, <2>3, SortingGoesOn
<1>4. n \in S
  <2>1. \A i \in Nat : i \in S
    <3> HIDE DEF S
    <3> QED  BY <1>2, <1>3, Induct
  <2> QED  BY <1>1, <2>1
<1>5. Sorting(s, Sort(s), n)
  BY <1>1, <1>4, SortByRounds
<1>6. Ordered(Sort(s))
  <2>1. /\ Len(Sort(s)) = n
        /\ \A a, b \in 1..n : a < b /\ a <= n => ~Better(Sort(s)[b], Sort(s)[a])
    BY <1>5 DEF Sorting
  <2>2. \A a, b \in 1..n : a < b => ~Better(Sort(s)[b], Sort(s)[a])
    BY <1>1, <2>1
  <2> QED  BY <2>1, <2>2, OrderedEntries
<1> QED  BY <1>5, <1>6

-----------------------------------------------------------------------------
(* Parts of a list.                                                        *)

LEMMA SliceEntries ==
  ASSUME NEW s \in Seq(Entry), NEW left \in Nat, NEW right \in Nat,
         left <= right, right < Len(s)
  PROVE  /\ Slice(s, left, right) \in Seq(Entry)
         /\ Len(Slice(s, left, right)) = right - left + 1
         /\ \A k \in 1..(right - left + 1) : Slice(s, left, right)[k] = s[left + k]
<1>1. left + 1 \in 1..Len(s) /\ right + 1 \in 1..Len(s)
  OBVIOUS
<1> QED  BY <1>1 DEF Slice

LEMMA SpliceEntries ==
  ASSUME NEW s \in Seq(Entry), NEW left \in Nat, NEW right \in Nat,
         left <= right, right < Len(s),
         NEW t \in Seq(Entry), Len(t) = right - left + 1
  PROVE  LET u == Splice(s, left, right, t)
         IN  /\ u \in Seq(Entry) /\ Len(u) = Len(s)
             /\ \A k \in 1..Len(s) :
                  u[k] = IF k - 1 \in left..right THEN t[k - left] ELSE s[k]
<1>1. DOMAIN s = 1..Len(s) /\ Len(s) \in Nat
  OBVIOUS
<1>2. \A k \in 1..Len(s) : k - 1 \in left..right => k - left \in 1..Len(t)
  BY <1>1
<1>3. \A k \in 1..Len(s) : (IF k - 1 \in left..right THEN t[k - left] ELSE s[k]) \in Entry
  BY <1>2
<1>4. Splice(s, left, right, t) \in [1..Len(s) -> Entry]
  BY <1>1, <1>3 DEF Splice
<1> QED  BY <1>1, <1>4 DEF Splice

-----------------------------------------------------------------------------
(* Lists with the same movies.                                             *)

\* t has the titles and scores of s, each as often as s has them.
Rearranged(s, t) ==
  /\ Len(t) = Len(s)
  /\ \E g \in [1..Len(s) -> 1..Len(s)] :
       /\ \A k, m \in 1..Len(s) : g[k] = g[m] => k = m
       /\ \A k \in 1..Len(s) : t[k].title = s[g[k]].title /\ t[k].score = s[g[k]].score

LEMMA SortRearranges ==
  ASSUME NEW s \in Seq(Entry)
  PROVE  Rearranged(s, Sort(s))
BY Sorted DEF Sorting, Rearranged

\* A part is rearranged, and so is the list.
LEMMA PartRearranged ==
  ASSUME NEW s \in Seq(Entry), NEW left \in Nat, NEW right \in Nat,
         left <= right, right < Len(s),
         NEW t \in Seq(Entry), Rearranged(Slice(s, left, right), t)
  PROVE  Rearranged(s, Splice(s, left, right, t))
<1> DEFINE p == Slice(s, left, right)
           n == right - left + 1
           u == Splice(s, left, right, t)
<1>1. /\ p \in Seq(Entry) /\ Len(p) = n
      /\ \A k \in 1..n : p[k] = s[left + k]
  BY SliceEntries
<1>2. /\ Len(u) = Len(s)
      /\ \A k \in 1..Len(s) : u[k] = IF k - 1 \in left..right THEN t[k - left] ELSE s[k]
  <2>1. Len(t) = n
    BY <1>1 DEF Rearranged
  <2> QED  BY <2>1, SpliceEntries
<1>3. PICK g \in [1..n -> 1..n] :
        /\ \A k, m \in 1..n : g[k] = g[m] => k = m
        /\ \A k \in 1..n : t[k].title = p[g[k]].title /\ t[k].score = p[g[k]].score
  <2>1. Rearranged(p, t)
    OBVIOUS
  <2> HIDE DEF p, n
  <2>2. Len(p) = n
    BY <1>1
  <2> QED  BY <2>1, <2>2 DEF Rearranged
<1>4. Len(s) \in Nat /\ n \in Nat /\ left + n <= Len(s)
  OBVIOUS
<1> HIDE DEF p, u
<1> DEFINE h == [k \in 1..Len(s) |-> IF k - 1 \in left..right THEN left + g[k - left] ELSE k]
<1>5. ASSUME NEW k \in 1..Len(s)
      PROVE  \/ /\ k - 1 \in left..right /\ k - left \in 1..n /\ h[k] = left + g[k - left]
                /\ g[k - left] \in 1..n /\ h[k] \in 1..Len(s) /\ h[k] - 1 \in left..right
             \/ k - 1 \notin left..right /\ h[k] = k /\ h[k] \in 1..Len(s)
  <2>1. CASE k - 1 \in left..right
    <3>1. k - left \in 1..n
      BY <1>4, <2>1
    <3>2. g[k - left] \in 1..n
      BY <3>1
    <3>3. h[k] = left + g[k - left]
      BY <2>1
    <3> HIDE DEF h
    <3>4. \A x \in 1..n : \A y : y = left + x => y \in 1..Len(s) /\ y - 1 \in left..right
      BY <1>4
    <3>5. h[k] \in 1..Len(s) /\ h[k] - 1 \in left..right
      <4>1. PICK x \in 1..n : x = g[k - left]
        BY <3>2
      <4>2. h[k] = left + x
        BY <3>3, <4>1, Zenon
      <4> QED  BY <3>4, <4>2, Zenon
    <3> QED  BY <2>1, <3>1, <3>2, <3>3, <3>5
  <2>2. CASE k - 1 \notin left..right
    BY <2>2
  <2> QED  BY <2>1, <2>2
<1>6. h \in [1..Len(s) -> 1..Len(s)]
  <2>1. \A k \in 1..Len(s) : h[k] \in 1..Len(s)
    BY <1>5
  <2> QED  BY <2>1
<1> HIDE DEF h
<1>7. ASSUME NEW k \in 1..Len(s), NEW m \in 1..Len(s), h[k] = h[m]
      PROVE  k = m
  <2>1. CASE k - 1 \in left..right /\ m - 1 \in left..right
    <3>1. /\ k - left \in 1..n /\ m - left \in 1..n
          /\ h[k] = left + g[k - left] /\ h[m] = left + g[m - left]
          /\ g[k - left] \in Int /\ g[m - left] \in Int
      BY <1>5, <2>1
    <3>2. g[k - left] = g[m - left]
      <4>1. \A x, y \in Int : left + x = left + y => x = y
        OBVIOUS
      <4> QED  BY <1>7, <3>1, <4>1
    <3>3. k - left = m - left
      BY <1>3, <3>1, <3>2
    <3> QED  BY <3>3
  <2>2. CASE ~(k - 1 \in left..right /\ m - 1 \in left..right)
    BY <1>5, <1>7, <2>2
  <2> QED  BY <2>1, <2>2
<1>8. ASSUME NEW k \in 1..Len(s)
      PROVE  u[k].title = s[h[k]].title /\ u[k].score = s[h[k]].score
  <2>1. CASE k - 1 \in left..right
    <3>1. /\ k - left \in 1..n /\ g[k - left] \in 1..n /\ h[k] = left + g[k - left]
      BY <1>5, <2>1
    <3>2. p[g[k - left]] = s[h[k]]
      BY <1>1, <3>1
    <3>3. u[k] = t[k - left]
      BY <1>2, <2>1
    <3> QED  BY <1>3, <3>1, <3>2, <3>3
  <2>2. CASE k - 1 \notin left..right
    BY <1>2, <1>5, <2>2
  <2> QED  BY <2>1, <2>2
<1> QED  BY <1>2, <1>6, <1>7, <1>8 DEF Rearranged, u

\* A merge is a rearrangement of its two sides, one behind the other.
LEMMA MergeIsRearranged ==
  ASSUME NEW p, NEW l \in Seq(Entry), NEW r \in Seq(Entry), Len(p) = Len(l) + Len(r),
         \A k \in 1..Len(p) : p[k] = IF k <= Len(l) THEN l[k] ELSE r[k - Len(l)]
  PROVE  Rearranged(p, Merge(l, r))
<1> DEFINE g == MergedFrom(l, r)
           t == Merge(l, r)
<1>1. Len(t) = Len(p)
  BY MergeTyped
<1>2. /\ g \in [1..Len(p) -> 1..Len(p)]
      /\ \A k, m \in 1..Len(p) : g[k] = g[m] => k = m
      /\ \A k \in 1..Len(p) : t[k] = IF g[k] <= Len(l) THEN l[g[k]] ELSE r[g[k] - Len(l)]
  BY MergeRearranges
<1> HIDE DEF g, t
<1>3. \A k \in 1..Len(p) : g[k] \in 1..Len(p) /\ t[k] = p[g[k]]
  BY <1>2
<1> QED  BY <1>1, <1>2, <1>3 DEF Rearranged, t

\* Halves that lie side by side.
LEMMA HalvesRearranged ==
  ASSUME NEW s \in Seq(Entry), NEW left \in Nat, NEW mid \in Nat, NEW right \in Nat,
         left <= mid, mid + 1 <= right, right < Len(s)
  PROVE  Rearranged(Slice(s, left, right), Merge(Slice(s, left, mid), Slice(s, mid + 1, right)))
<1> DEFINE p == Slice(s, left, right)
           l == Slice(s, left, mid)
           r == Slice(s, mid + 1, right)
<1>1. /\ left <= right /\ left <= mid /\ mid < Len(s) /\ Len(s) \in Nat
      /\ mid + 1 \in Nat /\ mid + 1 <= right
  OBVIOUS
<1>2. /\ l \in Seq(Entry) /\ Len(l) = mid - left + 1
      /\ \A k \in 1..(mid - left + 1) : l[k] = s[left + k]
  BY <1>1, SliceEntries
<1>3. /\ r \in Seq(Entry) /\ Len(r) = right - (mid + 1) + 1
      /\ \A k \in 1..(right - (mid + 1) + 1) : r[k] = s[(mid + 1) + k]
  BY <1>1, SliceEntries
<1>4. /\ Len(p) = right - left + 1 /\ \A k \in 1..(right - left + 1) : p[k] = s[left + k]
  BY <1>1, SliceEntries
<1> HIDE DEF p, l, r
<1>5. Len(p) = Len(l) + Len(r)
  BY <1>2, <1>3, <1>4
<1>6. ASSUME NEW k \in 1..Len(p)
      PROVE  p[k] = IF k <= Len(l) THEN l[k] ELSE r[k - Len(l)]
  <2>1. p[k] = s[left + k]
    BY <1>4
  <2>2. CASE k <= Len(l)
    <3>1. k \in 1..(mid - left + 1)
      BY <1>2, <1>4, <2>2
    <3> QED  BY <1>2, <2>1, <2>2, <3>1
  <2>3. CASE ~(k <= Len(l))
    <3>1. /\ k - Len(l) \in 1..(right - (mid + 1) + 1)
          /\ (mid + 1) + (k - Len(l)) = left + k
      BY <1>2, <1>4, <2>3
    <3> QED  BY <1>3, <2>1, <2>3, <3>1
  <2> QED  BY <2>2, <2>3
<1>7. Rearranged(p, Merge(l, r))
  BY <1>2, <1>3, <1>5, <1>6, MergeIsRearranged
<1> QED  BY <1>7 DEF p, l, r
=============================================================================
