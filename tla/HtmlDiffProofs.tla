--------------------------- MODULE HtmlDiffProofs ---------------------------
(***************************************************************************)
(* Proofs about HtmlDiff for texts of any length: the diff rebuilds both   *)
(* texts, no diff changes fewer lines, and none hides a change.            *)
(***************************************************************************)
EXTENDS HtmlDiff, ListLemmas

(***************************************************************************)
(* The table.                                                              *)
(***************************************************************************)
Cell(old, new, dp, i, j) ==
    IF i > Len(old) \/ j > Len(new) THEN 0
    ELSE IF old[i] = new[j] THEN dp[<<i + 1, j + 1>>] + 1
    ELSE IF dp[<<i + 1, j>>] >= dp[<<i, j + 1>>] THEN dp[<<i + 1, j>>] ELSE dp[<<i, j + 1>>]

\* The table that DiffLines fills exists, and each cell is what the code writes.
LEMMA TableOfCells ==
    ASSUME NEW X, NEW old \in Seq(X), NEW new \in Seq(X)
    PROVE  /\ Table(old, new) \in [Cells(old, new) -> Nat]
           /\ \A i \in 1..Len(old) + 1, j \in 1..Len(new) + 1 :
                  Table(old, new)[<<i, j>>] = Cell(old, new, Table(old, new), i, j)
<1> DEFINE m == Len(old)
           n == Len(new)
           D == Cells(old, new)
           step == [f \in [D -> Nat] |-> [c \in D |-> Cell(old, new, f, c[1], c[2])]]
           rank == [c \in D |-> (m + 1 - c[1]) + (n + 1 - c[2])]
           first == [c \in D |-> 0]
<1>1. m \in Nat /\ n \in Nat
  OBVIOUS
<1> HIDE DEF m, n
<1>2. D = (1..m + 1) \X (1..n + 1)
  BY DEF Cells, m, n
<1>3. rank \in [D -> Nat] /\ \A c \in D : rank[c] <= m + n
  <2>1. ASSUME NEW c \in D
        PROVE  (m + 1 - c[1]) + (n + 1 - c[2]) \in Nat /\ (m + 1 - c[1]) + (n + 1 - c[2]) <= m + n
    <3> DEFINE i == c[1]
               j == c[2]
    <3>1. i \in 1..m + 1 /\ j \in 1..n + 1
      BY <1>2
    <3> HIDE DEF i, j
    <3>2. (m + 1 - i) + (n + 1 - j) \in Nat /\ (m + 1 - i) + (n + 1 - j) <= m + n
      BY <1>1, <3>1
    <3> QED
      BY <3>2 DEF i, j
  <2> HIDE DEF D
  <2> QED
    BY <2>1
<1>4. ASSUME NEW i \in 1..m + 1, NEW j \in 1..n + 1, NEW c \in D, i + j > c[1] + c[2]
       PROVE  <<i, j>> \in D /\ rank[<<i, j>>] < rank[c]
  <2>1. <<i, j>> \in D
    BY <1>2
  <2>2. rank[<<i, j>>] = (m + 1 - i) + (n + 1 - j) /\ rank[c] = (m + 1 - c[1]) + (n + 1 - c[2])
    BY <2>1
  <2> DEFINE a == c[1]
             b == c[2]
  <2>3. a \in Int /\ b \in Int /\ i + j > a + b /\ rank[c] = (m + 1 - a) + (n + 1 - b)
    BY <1>2, <1>4, <2>2
  <2> HIDE DEF rank, D, a, b
  <2>4. (m + 1 - i) + (n + 1 - j) < (m + 1 - a) + (n + 1 - b)
    BY <1>1, <2>3
  <2> QED
    BY <2>1, <2>2, <2>3, <2>4
<1>5. ASSUME NEW f, NEW c \in D, \A e \in D : rank[e] < rank[c] => f[e] \in Nat
      PROVE  Cell(old, new, f, c[1], c[2]) \in Nat
  <2>1. c[1] \in 1..m + 1 /\ c[2] \in 1..n + 1
    BY <1>2
  <2>2. CASE c[1] > m \/ c[2] > n
    BY <2>2 DEF Cell, m, n
  <2>3. CASE ~(c[1] > m \/ c[2] > n)
    <3>1. c[1] + 1 \in 1..m + 1 /\ c[2] + 1 \in 1..n + 1
      <4> DEFINE a == c[1]
                 b == c[2]
      <4>1. a \in 1..m + 1 /\ b \in 1..n + 1 /\ ~(a > m) /\ ~(b > n)
        BY <2>1, <2>3
      <4> HIDE DEF a, b
      <4>2. a + 1 \in 1..m + 1 /\ b + 1 \in 1..n + 1
        BY <1>1, <4>1
      <4> QED
        BY <4>2 DEF a, b
    <3> HIDE DEF D, rank
    <3>2. f[<<c[1] + 1, c[2] + 1>>] \in Nat /\ f[<<c[1] + 1, c[2]>>] \in Nat /\ f[<<c[1], c[2] + 1>>] \in Nat
      BY <1>4, <1>5, <2>1, <3>1
    <3> QED
      BY <2>3, <3>2 DEF Cell, m, n
  <2> QED
    BY <2>2, <2>3
<1>6. step \in [[D -> Nat] -> [D -> Nat]]
  <2>1. ASSUME NEW f \in [D -> Nat], NEW c \in D PROVE Cell(old, new, f, c[1], c[2]) \in Nat
    <3>1. \A e \in D : f[e] \in Nat
      OBVIOUS
    <3> HIDE DEF D, rank
    <3> QED
      BY <1>5, <3>1
  <2> HIDE DEF D
  <2> QED
    BY <2>1
<1>7. ASSUME NEW f \in [D -> Nat], NEW g \in [D -> Nat], NEW c \in D,
             \A e \in D : rank[e] < rank[c] => f[e] = g[e]
      PROVE  step[f][c] = step[g][c]
  <2>1. c[1] \in 1..m + 1 /\ c[2] \in 1..n + 1 /\ rank[c] = (m + 1 - c[1]) + (n + 1 - c[2])
    BY <1>2
  <2>2. step[f][c] = Cell(old, new, f, c[1], c[2]) /\ step[g][c] = Cell(old, new, g, c[1], c[2])
    OBVIOUS
  <2>3. CASE c[1] > m \/ c[2] > n
    BY <2>2, <2>3 DEF Cell, m, n
  <2>4. CASE ~(c[1] > m \/ c[2] > n)
    <3>1. ASSUME NEW i \in 1..m + 1, NEW j \in 1..n + 1, i + j > c[1] + c[2] PROVE f[<<i, j>>] = g[<<i, j>>]
      BY <1>4, <1>7, <3>1
    <3>2. c[1] + 1 \in 1..m + 1 /\ c[2] + 1 \in 1..n + 1
      <4> DEFINE a == c[1]
                 b == c[2]
      <4>1. a \in 1..m + 1 /\ b \in 1..n + 1 /\ ~(a > m) /\ ~(b > n)
        BY <2>1, <2>4
      <4> HIDE DEF a, b
      <4>2. a + 1 \in 1..m + 1 /\ b + 1 \in 1..n + 1
        BY <1>1, <4>1
      <4> QED
        BY <4>2 DEF a, b
    <3>3. /\ f[<<c[1] + 1, c[2] + 1>>] = g[<<c[1] + 1, c[2] + 1>>]
          /\ f[<<c[1] + 1, c[2]>>] = g[<<c[1] + 1, c[2]>>]
          /\ f[<<c[1], c[2] + 1>>] = g[<<c[1], c[2] + 1>>]
      BY <2>1, <3>1, <3>2
    <3>4. Cell(old, new, f, c[1], c[2]) = Cell(old, new, g, c[1], c[2])
      BY <3>3 DEF Cell
    <3> HIDE DEF D, step
    <3> QED
      BY <2>2, <3>4
  <2> QED
    BY <2>3, <2>4
<1>8. \E f \in [D -> Nat] : f = step[f]
  <2> DEFINE V == Nat
  <2>1. first \in [D -> V] /\ m + n \in Nat
    BY <1>1
  <2>2. rank \in [D -> Nat] /\ (\A c \in D : rank[c] <= m + n) /\ step \in [[D -> V] -> [D -> V]]
    BY <1>3, <1>6
  <2>3. \A f, g \in [D -> V] : \A c \in D :
            (\A e \in D : rank[e] < rank[c] => f[e] = g[e]) => step[f][c] = step[g][c]
    BY <1>7
  <2> HIDE DEF D, step, rank, first, V
  <2>4. IsRecursion(step, D, V, rank, m + n)
    BY <2>2, <2>3 DEF IsRecursion
  <2>5. \E f \in [D -> V] : f = step[f]
    BY <2>1, <2>4, RankedRecursion
  <2> QED
    BY <2>5 DEF V
<1>9. PICK f \in [D -> Nat] : f = step[f]
  BY <1>8
<1>10. f = [c \in D |-> Cell(old, new, f, c[1], c[2])]
  <2> HIDE DEF D
  <2> QED
    BY <1>9
<1>11. Table(old, new) = [c \in D |-> Cell(old, new, Table(old, new), c[1], c[2])]
  <2>1. Table(old, new) = CHOOSE g : g = [c \in D |-> Cell(old, new, g, c[1], c[2])]
    BY DEF Table, Cell
  <2> QED
    BY <1>10, <2>1
<1> DEFINE dp == Table(old, new)
<1> HIDE DEF dp
<1>12. dp = [c \in D |-> Cell(old, new, dp, c[1], c[2])]
  BY <1>11 DEF dp
<1>13. D \subseteq {c \in D : dp[c] \in Nat}
  <2> DEFINE T == {c \in D : dp[c] \in Nat}
  <2>1. \A c \in D : rank[c] \in Nat
    BY <1>3
  <2>2. ASSUME NEW c \in D, \A e \in D : rank[e] < rank[c] => e \in T PROVE c \in T
    <3>1. \A e \in D : rank[e] < rank[c] => dp[e] \in Nat
      BY <2>2
    <3> HIDE DEF D, rank
    <3>2. Cell(old, new, dp, c[1], c[2]) \in Nat
      BY <1>5, <3>1
    <3>3. dp[c] \in Nat
      BY <1>12, <3>2
    <3> QED
      BY <3>3
  <2> HIDE DEF D, rank, T
  <2>3. D \subseteq T
    BY <2>1, <2>2, RankedInduction
  <2> QED
    BY <2>3 DEF T
<1>14. dp \in [D -> Nat]
  <2> HIDE DEF D
  <2> QED
    BY <1>12, <1>13
<1>15. ASSUME NEW i \in 1..m + 1, NEW j \in 1..n + 1 PROVE dp[<<i, j>>] = Cell(old, new, dp, i, j)
  <2>1. <<i, j>> \in D
    BY <1>2
  <2> HIDE DEF D
  <2> QED
    BY <1>12, <2>1
<1> QED
  BY <1>14, <1>15 DEF dp, m, n

\* The cells beyond the last line of either text, and the others.
LEMMA TableEdge ==
    ASSUME NEW X, NEW old \in Seq(X), NEW new \in Seq(X),
           NEW i \in 1..Len(old) + 1, NEW j \in 1..Len(new) + 1, ~(i <= Len(old) /\ j <= Len(new))
    PROVE  Table(old, new)[<<i, j>>] = 0
<1>1. i > Len(old) \/ j > Len(new)
  OBVIOUS
<1>2. Table(old, new)[<<i, j>>] = Cell(old, new, Table(old, new), i, j)
  BY TableOfCells
<1> QED
  BY <1>1, <1>2 DEF Cell

\* DiffLines' table, cell by cell.
LEMMA TableCases ==
    ASSUME NEW X, NEW old \in Seq(X), NEW new \in Seq(X),
           NEW i \in 1..Len(old) + 1, NEW j \in 1..Len(new) + 1
    PROVE  LET dp == Table(old, new)
           IN  /\ dp[<<i, j>>] \in Nat
               /\ i <= Len(old) /\ j <= Len(new) =>
                      IF old[i] = new[j] THEN dp[<<i, j>>] = dp[<<i + 1, j + 1>>] + 1
                      ELSE dp[<<i, j>>] = IF dp[<<i + 1, j>>] >= dp[<<i, j + 1>>]
                                          THEN dp[<<i + 1, j>>] ELSE dp[<<i, j + 1>>]
<1> DEFINE dp == Table(old, new)
<1>1. dp \in [Cells(old, new) -> Nat] /\ dp[<<i, j>>] = Cell(old, new, dp, i, j)
  BY TableOfCells
<1> HIDE DEF dp
<1>2. dp[<<i, j>>] \in Nat
  BY <1>1 DEF Cells
<1>3. i \in Int /\ j \in Int /\ Len(old) \in Int /\ Len(new) \in Int
  OBVIOUS
<1>4. ASSUME i <= Len(old), j <= Len(new)
      PROVE  IF old[i] = new[j] THEN dp[<<i, j>>] = dp[<<i + 1, j + 1>>] + 1
             ELSE dp[<<i, j>>] = IF dp[<<i + 1, j>>] >= dp[<<i, j + 1>>]
                                 THEN dp[<<i + 1, j>>] ELSE dp[<<i, j + 1>>]
  <2>1. ~(i > Len(old) \/ j > Len(new))
    BY <1>3, <1>4
  <2> QED
    BY <1>1, <2>1 DEF Cell
<1> QED
  BY <1>2, <1>4 DEF dp

\* What is true of a cell wherever it is true of the cells below and to the right.
LEMMA CellInduction ==
    ASSUME NEW m \in Nat, NEW n \in Nat, NEW T,
           \A i \in 1..m + 1, j \in 1..n + 1 :
               (\A k \in i..m + 1, l \in j..n + 1 : k + l > i + j => <<k, l>> \in T) => <<i, j>> \in T
    PROVE  \A i \in 1..m + 1, j \in 1..n + 1 : <<i, j>> \in T
<1> DEFINE U == {r \in Nat : \A i \in 1..m + 1, j \in 1..n + 1 : (m + 1 - i) + (n + 1 - j) < r => <<i, j>> \in T}
<1>1. 0 \in U
  <2>1. \A i \in 1..m + 1, j \in 1..n + 1 : ~((m + 1 - i) + (n + 1 - j) < 0)
    OBVIOUS
  <2> QED
    BY <2>1
<1>2. ASSUME NEW r \in Nat, r \in U PROVE r + 1 \in U
  <2>1. ASSUME NEW i \in 1..m + 1, NEW j \in 1..n + 1, (m + 1 - i) + (n + 1 - j) < r + 1 PROVE <<i, j>> \in T
    <3>1. ASSUME NEW k \in i..m + 1, NEW l \in j..n + 1, k + l > i + j PROVE <<k, l>> \in T
      <4>1. k \in 1..m + 1 /\ l \in 1..n + 1 /\ (m + 1 - k) + (n + 1 - l) < r
        BY <2>1, <3>1
      <4> QED
        BY <1>2, <4>1
    <3> QED
      BY <3>1
  <2> QED
    BY <2>1
<1>3. Nat \subseteq U
  <2> HIDE DEF U
  <2> QED
    BY <1>1, <1>2, SetInduction
<1>4. ASSUME NEW i \in 1..m + 1, NEW j \in 1..n + 1 PROVE <<i, j>> \in T
  <2>1. (m + 1 - i) + (n + 1 - j) < m + n + 1 /\ m + n + 1 \in Nat
    OBVIOUS
  <2>2. m + n + 1 \in U
    BY <1>3, <2>1
  <2> QED
    BY <2>1, <2>2
<1> QED
  BY <1>4

(***************************************************************************)
(* Common subsequences: places a[1] < ... < a[c] of old from line i, and   *)
(* b[1] < ... < b[c] of new from line j, with the same lines.              *)
(***************************************************************************)
Common(old, new, i, j, c, a, b) ==
    /\ c \in Nat
    /\ a \in [1..c -> i..Len(old)] /\ b \in [1..c -> j..Len(new)]
    /\ \A k, l \in 1..c : k < l => a[k] < a[l] /\ b[k] < b[l]
    /\ \A k \in 1..c : old[a[k]] = new[b[k]]

\* None is longer than the table says.
LEMMA TableBounds ==
    ASSUME NEW X, NEW old \in Seq(X), NEW new \in Seq(X)
    PROVE  \A i \in 1..Len(old) + 1, j \in 1..Len(new) + 1 : \A c, a, b :
               Common(old, new, i, j, c, a, b) => c <= Table(old, new)[<<i, j>>]
<1> DEFINE m == Len(old)
           n == Len(new)
           dp == Table(old, new)
           T == {p \in (1..m + 1) \X (1..n + 1) :
                    \A c, a, b : Common(old, new, p[1], p[2], c, a, b) => c <= dp[p]}
<1>1. m \in Nat /\ n \in Nat
  OBVIOUS
<1>2. ASSUME NEW i \in 1..m + 1, NEW j \in 1..n + 1, i <= m, j <= n
      PROVE  IF old[i] = new[j] THEN dp[<<i, j>>] = dp[<<i + 1, j + 1>>] + 1
             ELSE dp[<<i, j>>] = IF dp[<<i + 1, j>>] >= dp[<<i, j + 1>>]
                                 THEN dp[<<i + 1, j>>] ELSE dp[<<i, j + 1>>]
  BY <1>2, TableCases
<1>3. \A i \in 1..m + 1, j \in 1..n + 1 : dp[<<i, j>>] \in Nat
  BY TableCases
<1> HIDE DEF m, n, dp
<1>4. ASSUME NEW i \in 1..m + 1, NEW j \in 1..n + 1,
             \A k \in i..m + 1, l \in j..n + 1 : k + l > i + j => <<k, l>> \in T,
             NEW c, NEW a, NEW b, Common(old, new, i, j, c, a, b)
      PROVE  c <= dp[<<i, j>>]
  <2>1. /\ c \in Nat /\ a \in [1..c -> i..m] /\ b \in [1..c -> j..n]
        /\ \A k, l \in 1..c : k < l => a[k] < a[l] /\ b[k] < b[l]
        /\ \A k \in 1..c : old[a[k]] = new[b[k]]
    BY <1>4 DEF Common, m, n
  <2>2. i \in Nat /\ j \in Nat
    OBVIOUS
  <2>3. ASSUME NEW k \in i..m + 1, NEW l \in j..n + 1, k + l > i + j, NEW e, NEW f, NEW g,
               Common(old, new, k, l, e, f, g)
        PROVE  e <= dp[<<k, l>>]
    <3>1. <<k, l>> \in T
      BY <1>4, <2>3
    <3> QED
      BY <2>3, <3>1
  <2> HIDE DEF T
  <2>4. CASE c = 0
    BY <1>3, <2>4
  <2>5. CASE c # 0
    <3>1. 1 \in 1..c /\ a[1] \in i..m /\ b[1] \in j..n
      BY <2>1, <2>5
    <3>2. i <= m /\ j <= n
      BY <1>1, <3>1
    <3>3. ASSUME NEW k \in 1..c PROVE a[k] \in Int /\ b[k] \in Int /\ a[1] <= a[k] /\ b[1] <= b[k]
      <4>1. a[k] \in Int /\ b[k] \in Int /\ a[1] \in Int /\ b[1] \in Int
        BY <2>1, <3>1
      <4>2. CASE k = 1
        BY <4>1, <4>2
      <4>3. CASE k # 1
        <5>1. 1 < k
          BY <4>3
        <5>2. a[1] < a[k] /\ b[1] < b[k]
          BY <2>1, <3>1, <5>1
        <5> QED
          BY <4>1, <5>2
      <4> QED
        BY <4>2, <4>3
    <3>4. CASE old[i] = new[j]
      <4> DEFINE d == c - 1
                 f == [k \in 1..d |-> a[k + 1]]
                 g == [k \in 1..d |-> b[k + 1]]
      <4>1. d \in Nat /\ \A k \in 1..d : k + 1 \in 1..c /\ 1 < k + 1
        BY <2>1, <2>5
      <4>2. ASSUME NEW k \in 1..d PROVE a[k + 1] \in i + 1..m /\ b[k + 1] \in j + 1..n
        <5> DEFINE p == a[k + 1]
                   q == b[k + 1]
        <5>1. p \in i..m /\ q \in j..n /\ a[1] < p /\ b[1] < q
          BY <2>1, <3>1, <4>1
        <5> HIDE DEF p, q
        <5>2. p \in i + 1..m
          BY <1>1, <2>2, <3>1, <5>1
        <5>3. q \in j + 1..n
          BY <1>1, <2>2, <3>1, <5>1
        <5> QED
          BY <5>2, <5>3 DEF p, q
      <4>3. f \in [1..d -> i + 1..m] /\ g \in [1..d -> j + 1..n]
        BY <4>2
      <4>4. \A k, l \in 1..d : k < l => f[k] < f[l] /\ g[k] < g[l]
        <5>1. \A k, l \in 1..d : k < l => k + 1 < l + 1
          BY <4>1
        <5> HIDE DEF d
        <5> QED
          BY <2>1, <4>1, <5>1
      <4>5. \A k \in 1..d : old[f[k]] = new[g[k]]
        BY <2>1, <4>1
      <4> HIDE DEF d, f, g
      <4>6. Common(old, new, i + 1, j + 1, d, f, g)
        BY <4>1, <4>3, <4>4, <4>5 DEF Common, m, n
      <4>7. i + 1 \in i..m + 1 /\ j + 1 \in j..n + 1 /\ (i + 1) + (j + 1) > i + j
        BY <1>1, <2>2, <3>2
      <4>8. d <= dp[<<i + 1, j + 1>>]
        BY <2>3, <4>6, <4>7
      <4>9. dp[<<i, j>>] = dp[<<i + 1, j + 1>>] + 1
        BY <1>2, <3>2, <3>4
      <4>10. dp[<<i + 1, j + 1>>] \in Nat
        BY <1>1, <1>3, <2>2, <4>7
      <4> QED
        BY <2>1, <4>8, <4>9, <4>10 DEF d
    <3>5. CASE old[i] # new[j]
      <4>1. dp[<<i, j>>] = IF dp[<<i + 1, j>>] >= dp[<<i, j + 1>>] THEN dp[<<i + 1, j>>] ELSE dp[<<i, j + 1>>]
        BY <1>2, <3>2, <3>5
      <4>2. i + 1 \in i..m + 1 /\ j + 1 \in j..n + 1 /\ i \in i..m + 1 /\ j \in j..n + 1
            /\ i + 1 \in 1..m + 1 /\ j + 1 \in 1..n + 1
        BY <1>1, <2>2, <3>2
      <4>3. dp[<<i + 1, j>>] \in Nat /\ dp[<<i, j + 1>>] \in Nat
        BY <1>3, <4>2
      <4>4. a[1] # i \/ b[1] # j
        BY <2>1, <3>1, <3>5
      <4>5. CASE a[1] # i
        <5>1. \A k \in 1..c : a[k] \in i + 1..m
          BY <1>1, <2>1, <2>2, <3>1, <3>3, <4>5
        <5>2. a \in [1..c -> i + 1..m]
          BY <2>1, <5>1
        <5>3. Common(old, new, i + 1, j, c, a, b)
          BY <2>1, <5>2 DEF Common, m, n
        <5>4. c <= dp[<<i + 1, j>>]
          BY <2>2, <2>3, <4>2, <5>3
        <5> QED
          BY <2>1, <4>1, <4>3, <5>4
      <4>6. CASE b[1] # j
        <5>1. \A k \in 1..c : b[k] \in j + 1..n
          BY <1>1, <2>1, <2>2, <3>1, <3>3, <4>6
        <5>2. b \in [1..c -> j + 1..n]
          BY <2>1, <5>1
        <5>3. Common(old, new, i, j + 1, c, a, b)
          BY <2>1, <5>2 DEF Common, m, n
        <5>4. c <= dp[<<i, j + 1>>]
          BY <2>2, <2>3, <4>2, <5>3
        <5> QED
          BY <2>1, <4>1, <4>3, <5>4
      <4> QED
        BY <4>4, <4>5, <4>6
    <3> QED
      BY <3>4, <3>5
  <2> QED
    BY <2>4, <2>5
<1>5. ASSUME NEW i \in 1..m + 1, NEW j \in 1..n + 1,
             \A k \in i..m + 1, l \in j..n + 1 : k + l > i + j => <<k, l>> \in T
      PROVE  <<i, j>> \in T
  <2>1. \A c, a, b : Common(old, new, i, j, c, a, b) => c <= dp[<<i, j>>]
    <3> HIDE DEF T
    <3> QED
      BY <1>4, <1>5
  <2> QED
    BY <2>1
<1>6. \A i \in 1..m + 1, j \in 1..n + 1 : <<i, j>> \in T
  <2> HIDE DEF T
  <2> QED
    BY <1>1, <1>5, CellInduction
<1> QED
  BY <1>6 DEF m, n, dp

\* One is as long as the table says.
LEMMA TableIsReached ==
    ASSUME NEW X, NEW old \in Seq(X), NEW new \in Seq(X)
    PROVE  \A i \in 1..Len(old) + 1, j \in 1..Len(new) + 1 : \E a, b :
               Common(old, new, i, j, Table(old, new)[<<i, j>>], a, b)
<1> DEFINE m == Len(old)
           n == Len(new)
           dp == Table(old, new)
           T == {p \in (1..m + 1) \X (1..n + 1) : \E a, b : Common(old, new, p[1], p[2], dp[p], a, b)}
<1>1. m \in Nat /\ n \in Nat
  OBVIOUS
<1>2. ASSUME NEW i \in 1..m + 1, NEW j \in 1..n + 1, i <= m, j <= n
      PROVE  IF old[i] = new[j] THEN dp[<<i, j>>] = dp[<<i + 1, j + 1>>] + 1
             ELSE dp[<<i, j>>] = IF dp[<<i + 1, j>>] >= dp[<<i, j + 1>>]
                                 THEN dp[<<i + 1, j>>] ELSE dp[<<i, j + 1>>]
  BY <1>2, TableCases
<1>3. \A i \in 1..m + 1, j \in 1..n + 1 : dp[<<i, j>>] \in Nat
  BY TableCases
<1>4. \A i \in 1..m + 1, j \in 1..n + 1 : ~(i <= m /\ j <= n) => dp[<<i, j>>] = 0
  BY TableEdge
<1> HIDE DEF m, n, dp
<1>5. ASSUME NEW i \in 1..m + 1, NEW j \in 1..n + 1,
             \A k \in i..m + 1, l \in j..n + 1 : k + l > i + j => <<k, l>> \in T
      PROVE  \E a, b : Common(old, new, i, j, dp[<<i, j>>], a, b)
  <2>1. i \in Nat /\ j \in Nat
    OBVIOUS
  <2>2. ASSUME NEW k \in i..m + 1, NEW l \in j..n + 1, k + l > i + j
        PROVE  \E a, b : Common(old, new, k, l, dp[<<k, l>>], a, b)
    <3>1. <<k, l>> \in T
      BY <1>5, <2>2
    <3> QED
      BY <3>1
  <2> HIDE DEF T
  <2>3. CASE i = m + 1 \/ j = n + 1
    <3>1. dp[<<i, j>>] = 0
      <4>1. ~(i <= m /\ j <= n)
        BY <1>1, <2>1, <2>3
      <4> QED
        BY <1>4, <4>1
    <3>2. Common(old, new, i, j, 0, <<>>, <<>>)
      BY DEF Common
    <3> QED
      BY <3>1, <3>2
  <2>4. CASE i # m + 1 /\ j # n + 1
    <3>1. /\ i <= m /\ j <= n
          /\ i + 1 \in i..m + 1 /\ j + 1 \in j..n + 1 /\ i \in i..m + 1 /\ j \in j..n + 1
          /\ i + 1 \in 1..m + 1 /\ j + 1 \in 1..n + 1
      BY <1>1, <2>1, <2>4
    <3>2. CASE old[i] = new[j]
      <4> DEFINE d == dp[<<i + 1, j + 1>>]
      <4>1. PICK a, b : Common(old, new, i + 1, j + 1, d, a, b)
        BY <2>1, <2>2, <3>1
      <4>2. dp[<<i, j>>] = d + 1 /\ d \in Nat
        BY <1>2, <1>3, <3>1, <3>2
      <4> HIDE DEF d
      <4>3. /\ a \in [1..d -> i + 1..m] /\ b \in [1..d -> j + 1..n]
            /\ \A k, l \in 1..d : k < l => a[k] < a[l] /\ b[k] < b[l]
            /\ \A k \in 1..d : old[a[k]] = new[b[k]]
        BY <4>1 DEF Common, m, n
      <4> DEFINE f == [k \in 1..d + 1 |-> IF k = 1 THEN i ELSE a[k - 1]]
                 g == [k \in 1..d + 1 |-> IF k = 1 THEN j ELSE b[k - 1]]
      <4>4. ASSUME NEW k \in 1..d + 1, k # 1
            PROVE  /\ k - 1 \in 1..d /\ f[k] = a[k - 1] /\ g[k] = b[k - 1]
                   /\ f[k] \in i + 1..m /\ g[k] \in j + 1..n
        <5>1. k - 1 \in 1..d
          BY <4>2, <4>4
        <5> QED
          BY <4>3, <4>4, <5>1
      <4>5. 1 \in 1..d + 1 /\ f[1] = i /\ g[1] = j
        BY <4>2
      <4>6. f \in [1..d + 1 -> i..m] /\ g \in [1..d + 1 -> j..n]
        <5>1. ASSUME NEW k \in 1..d + 1 PROVE f[k] \in i..m /\ g[k] \in j..n
          <6> HIDE DEF f, g
          <6>1. CASE k = 1
            BY <1>1, <2>1, <3>1, <4>5, <6>1
          <6>2. CASE k # 1
            BY <1>1, <2>1, <4>4, <6>2
          <6> QED
            BY <6>1, <6>2
        <5> QED
          BY <5>1
      <4>7. ASSUME NEW k \in 1..d + 1, NEW l \in 1..d + 1, k < l PROVE f[k] < f[l] /\ g[k] < g[l]
        <5> HIDE DEF f, g
        <5>1. l # 1 /\ l \in Int /\ k \in Int
          BY <4>2, <4>7
        <5>2. CASE k = 1
          BY <1>1, <2>1, <4>4, <4>5, <5>1, <5>2
        <5>3. CASE k # 1
          <6>1. k - 1 < l - 1
            BY <4>7, <5>1
          <6> QED
            BY <4>3, <4>4, <5>1, <5>3, <6>1
        <5> QED
          BY <5>2, <5>3
      <4>8. ASSUME NEW k \in 1..d + 1 PROVE old[f[k]] = new[g[k]]
        <5> HIDE DEF f, g
        <5>1. CASE k = 1
          BY <3>2, <4>5, <5>1
        <5>2. CASE k # 1
          BY <4>3, <4>4, <5>2
        <5> QED
          BY <5>1, <5>2
      <4> HIDE DEF f, g
      <4>9. d + 1 \in Nat
        BY <4>2
      <4>10. Common(old, new, i, j, d + 1, f, g)
        BY <4>6, <4>7, <4>8, <4>9 DEF Common, m, n
      <4> QED
        BY <4>2, <4>10
    <3>3. CASE old[i] # new[j]
      <4>1. dp[<<i, j>>] = dp[<<i + 1, j>>] \/ dp[<<i, j>>] = dp[<<i, j + 1>>]
        BY <1>2, <3>1, <3>3
      <4>2. PICK a, b : Common(old, new, i + 1, j, dp[<<i + 1, j>>], a, b)
        BY <2>1, <2>2, <3>1
      <4>3. PICK e, f : Common(old, new, i, j + 1, dp[<<i, j + 1>>], e, f)
        BY <2>1, <2>2, <3>1
      <4>4. i + 1..m \subseteq i..m /\ j + 1..n \subseteq j..n
        BY <1>1, <2>1
      <4>5. Common(old, new, i, j, dp[<<i + 1, j>>], a, b)
        BY <4>2, <4>4 DEF Common, m, n
      <4>6. Common(old, new, i, j, dp[<<i, j + 1>>], e, f)
        BY <4>3, <4>4 DEF Common, m, n
      <4> QED
        BY <4>1, <4>5, <4>6
    <3> QED
      BY <3>2, <3>3
  <2> QED
    BY <2>3, <2>4
<1>6. ASSUME NEW i \in 1..m + 1, NEW j \in 1..n + 1,
             \A k \in i..m + 1, l \in j..n + 1 : k + l > i + j => <<k, l>> \in T
      PROVE  <<i, j>> \in T
  <2>1. \E a, b : Common(old, new, i, j, dp[<<i, j>>], a, b)
    <3> HIDE DEF T
    <3> QED
      BY <1>5, <1>6
  <2> QED
    BY <2>1
<1>7. \A i \in 1..m + 1, j \in 1..n + 1 : <<i, j>> \in T
  <2> HIDE DEF T
  <2> QED
    BY <1>1, <1>6, CellInduction
<1> QED
  BY <1>7 DEF m, n, dp

\* The corner of the table is the length that CommonLength defines.
LEMMA TableIsCommonLength ==
    ASSUME NEW X, NEW old \in Seq(X), NEW new \in Seq(X)
    PROVE  CommonLength(old, new) = Table(old, new)[<<1, 1>>]
<1> DEFINE of(text) == {Entries(text, S) : S \in SUBSET DOMAIN text}
           L == {Len(s) : s \in of(old) \cap of(new)}
           d == Table(old, new)[<<1, 1>>]
<1>1. /\ 1 \in 1..Len(old) + 1 /\ 1 \in 1..Len(new) + 1
      /\ DOMAIN old = 1..Len(old) /\ DOMAIN new = 1..Len(new)
  OBVIOUS
<1>2. d \in Nat
  BY <1>1, TableCases
<1> HIDE DEF d
<1>3. d \in L
  <2>1. PICK a, b : Common(old, new, 1, 1, d, a, b)
    BY <1>1, TableIsReached DEF d
  <2>2. /\ a \in [1..d -> 1..Len(old)] /\ b \in [1..d -> 1..Len(new)]
        /\ \A k, l \in 1..d : k < l => a[k] < a[l] /\ b[k] < b[l]
        /\ \A k \in 1..d : old[a[k]] = new[b[k]]
    BY <2>1 DEF Common
  <2> DEFINE S == {a[k] : k \in 1..d}
             U == {b[k] : k \in 1..d}
  <2>3. Lists(a, d, S) /\ Lists(b, d, U)
    BY <1>2, <2>2 DEF Lists
  <2>4. S \in SUBSET DOMAIN old /\ U \in SUBSET DOMAIN new
    BY <1>1, <2>2
  <2> HIDE DEF S, U
  <2>5. Entries(old, S) = [k \in 1..d |-> old[a[k]]] /\ Entries(new, U) = [k \in 1..d |-> new[b[k]]]
    BY <2>3, EntriesAt
  <2>6. Entries(old, S) = Entries(new, U)
    BY <2>2, <2>5
  <2>7. Len(Entries(old, S)) = d
    <3>1. Cardinality(S) = d
      BY <2>3, ListsIsIncreasing
    <3> QED
      BY <2>4, <3>1, EntriesIsSeq
  <2>8. Entries(old, S) \in of(old) /\ Entries(new, U) \in of(new)
    BY <2>4
  <2> HIDE DEF of
  <2> QED
    BY <2>6, <2>7, <2>8
<1>4. ASSUME NEW c \in L PROVE c \in Nat /\ c <= d
  <2>1. PICK S \in SUBSET DOMAIN old, U \in SUBSET DOMAIN new :
            Entries(old, S) = Entries(new, U) /\ c = Len(Entries(old, S))
    OBVIOUS
  <2>2. /\ IsFiniteSet(S) /\ Len(Entries(old, S)) = Cardinality(S) /\ Cardinality(S) \in Nat
        /\ IsFiniteSet(U) /\ Len(Entries(new, U)) = Cardinality(U)
    BY EntriesIsSeq
  <2>3. S \in SUBSET Int /\ U \in SUBSET Int
    BY <1>1
  <2>4. c = Cardinality(S) /\ c = Cardinality(U) /\ c \in Nat
    BY <2>1, <2>2
  <2> DEFINE a == Increasing(S)
             b == Increasing(U)
  <2>5. Lists(a, c, S) /\ Lists(b, c, U)
    BY <2>2, <2>3, <2>4, IncreasingLists
  <2> HIDE DEF a, b
  <2>6. Entries(old, S) = [k \in 1..c |-> old[a[k]]] /\ Entries(new, U) = [k \in 1..c |-> new[b[k]]]
    BY <2>5, EntriesAt
  <2>7. \A k \in 1..c : old[a[k]] = new[b[k]]
    BY <2>1, <2>6
  <2>8. a \in [1..c -> 1..Len(old)] /\ b \in [1..c -> 1..Len(new)]
    BY <1>1, <2>5 DEF Lists
  <2>9. \A k, l \in 1..c : k < l => a[k] < a[l] /\ b[k] < b[l]
    BY <2>5 DEF Lists
  <2>10. Common(old, new, 1, 1, c, a, b)
    BY <2>4, <2>7, <2>8, <2>9 DEF Common
  <2> QED
    BY <1>1, <2>4, <2>10, TableBounds DEF d
<1>5. Max(L) = d
  <2>1. L \in SUBSET Int
    <3> HIDE DEF L
    <3> QED
      BY <1>4
  <2> HIDE DEF L
  <2> QED
    BY <1>3, <1>4, <2>1, MaxIs
<1> QED
  BY <1>5 DEF CommonLength, d

(***************************************************************************)
(* The operations of a diff.                                               *)
(***************************************************************************)
Side(ops, kinds) == Entries(ops, OfKind(ops, kinds))

Op(X) == [kind : {"equal", "delete", "add"}, text : X, oldNo : Nat, newNo : Nat]

\* What one more operation does to a side.
LEMMA SideAppend ==
    ASSUME NEW X, NEW ops \in Seq(Op(X)), NEW op \in Op(X), NEW kinds
    PROVE  /\ Side(ops, kinds) \in Seq(Op(X)) /\ Len(Side(ops, kinds)) = Cardinality(OfKind(ops, kinds))
           /\ Side(Append(ops, op), kinds) =
                  IF op.kind \in kinds THEN Append(Side(ops, kinds), op) ELSE Side(ops, kinds)
<1> DEFINE O == Op(X)
           at == OfKind(ops, kinds)
           t == Append(ops, op)
           m == Len(ops)
<1> HIDE DEF O
<1>1. ops \in Seq(O) /\ op \in O
  BY DEF O
<1>2. m \in Nat /\ DOMAIN ops = 1..m
  BY <1>1
<1>3. t \in Seq(O) /\ Len(t) = m + 1 /\ t[m + 1] = op /\ (\A i \in 1..m : t[i] = ops[i]) /\ DOMAIN t = 1..m + 1
  BY <1>1, AppendProperties
<1>4. at \in SUBSET DOMAIN ops /\ at \in SUBSET (1..m)
  BY <1>2 DEF OfKind
<1> HIDE DEF t
<1>5. OfKind(t, kinds) = IF op.kind \in kinds THEN at \cup {m + 1} ELSE at
  <2> HIDE DEF m
  <2>1. \A k : k \in DOMAIN t <=> k \in 1..m \/ k = m + 1
    BY <1>2, <1>3
  <2>2. \A k \in 1..m : k \in OfKind(t, kinds) <=> k \in at
    BY <1>2, <1>3, <2>1 DEF OfKind
  <2>3. m + 1 \in OfKind(t, kinds) <=> op.kind \in kinds
    BY <1>3, <2>1 DEF OfKind
  <2>4. \A k : k \in OfKind(t, kinds) => k \in 1..m \/ k = m + 1
    BY <2>1 DEF OfKind
  <2> DEFINE new == OfKind(t, kinds)
  <2> HIDE DEF at, new
  <2>5. at \subseteq 1..m
    BY <1>4
  <2>6. CASE op.kind \in kinds
    <3>1. \A k : k \in new <=> k \in at \/ k = m + 1
      BY <2>2, <2>3, <2>4, <2>5, <2>6 DEF new
    <3> QED
      BY <2>6, <3>1 DEF new
  <2>7. CASE op.kind \notin kinds
    <3>1. \A k : k \in new <=> k \in at
      BY <2>2, <2>3, <2>4, <2>5, <2>7 DEF new
    <3> QED
      BY <2>7, <3>1 DEF new
  <2> QED
    BY <2>6, <2>7
<1> HIDE DEF at, m
<1>6. Entries(t, at) = Entries(ops, at) /\ Entries(t, at \cup {m + 1}) = Append(Entries(ops, at), op)
  BY <1>1, <1>4, EntriesAppend DEF t, m
<1>7. Entries(ops, at) \in Seq(O) /\ Len(Entries(ops, at)) = Cardinality(at)
  BY <1>1, <1>4, EntriesIsSeq
<1> QED
  BY <1>5, <1>6, <1>7 DEF Side, at, t, O

(***************************************************************************)
(* The walk.  What holds of it after any number of rounds: the operations  *)
(* so far read as the lines passed in each text, and the lines they share, *)
(* with the longest common subsequence of what is left, make the longest   *)
(* of all.                                                                 *)
(***************************************************************************)
OldSide(ops) == Side(ops, {"equal", "delete"})
NewSide(ops) == Side(ops, {"equal", "add"})
Count(ops, kind) == Len(Side(ops, {kind}))

Reached(X, old, new, at) ==
    /\ at \in [i : 1..Len(old) + 1, j : 1..Len(new) + 1, ops : Seq(Op(X))]
    /\ Len(OldSide(at.ops)) = at.i - 1
    /\ \A k \in 1..at.i - 1 : OldSide(at.ops)[k].text = old[k] /\ OldSide(at.ops)[k].oldNo = k
    /\ Len(NewSide(at.ops)) = at.j - 1
    /\ \A k \in 1..at.j - 1 : NewSide(at.ops)[k].text = new[k] /\ NewSide(at.ops)[k].newNo = k
    /\ Count(at.ops, "equal") + Count(at.ops, "delete") = at.i - 1
    /\ Count(at.ops, "equal") + Count(at.ops, "add") = at.j - 1
    /\ Count(at.ops, "equal") + Table(old, new)[<<at.i, at.j>>] = Table(old, new)[<<1, 1>>]

\* One operation more, on each side and in each count.
LEMMA OneMore ==
    ASSUME NEW X, NEW ops \in Seq(Op(X)), NEW op \in Op(X)
    PROVE  LET t == Append(ops, op)
           IN  /\ t \in Seq(Op(X))
               /\ OldSide(t) = IF op.kind # "add" THEN Append(OldSide(ops), op) ELSE OldSide(ops)
               /\ NewSide(t) = IF op.kind # "delete" THEN Append(NewSide(ops), op) ELSE NewSide(ops)
               /\ OldSide(ops) \in Seq(Op(X)) /\ NewSide(ops) \in Seq(Op(X))
               /\ \A kind : /\ Count(ops, kind) \in Nat
                            /\ Count(t, kind) = IF op.kind = kind THEN Count(ops, kind) + 1 ELSE Count(ops, kind)
<1> DEFINE t == Append(ops, op)
           O == Op(X)
<1>1. op.kind \in {"equal", "delete", "add"}
  BY DEF Op
<1>2. /\ OldSide(ops) \in Seq(O)
      /\ OldSide(t) = IF op.kind \in {"equal", "delete"} THEN Append(OldSide(ops), op) ELSE OldSide(ops)
  BY SideAppend DEF OldSide
<1>3. /\ NewSide(ops) \in Seq(O)
      /\ NewSide(t) = IF op.kind \in {"equal", "add"} THEN Append(NewSide(ops), op) ELSE NewSide(ops)
  BY SideAppend DEF NewSide
<1>4. ASSUME NEW kind
      PROVE  /\ Count(ops, kind) \in Nat
             /\ Count(t, kind) = IF op.kind = kind THEN Count(ops, kind) + 1 ELSE Count(ops, kind)
  <2> DEFINE s == Side(ops, {kind})
  <2>1. s \in Seq(O) /\ Side(t, {kind}) = IF op.kind \in {kind} THEN Append(s, op) ELSE s
    BY SideAppend
  <2> HIDE DEF s, O, t
  <2>2. Len(s) \in Nat /\ Len(Append(s, op)) = Len(s) + 1
    BY <2>1, op \in O DEF O
  <2> QED
    BY <2>1, <2>2 DEF Count, s
<1>5. t \in Seq(O)
  BY AppendProperties
<1> HIDE DEF t, O
<1> QED
  BY <1>1, <1>2, <1>3, <1>4, <1>5 DEF t, O

\* The walk starts where it may.
LEMMA StartIsReached ==
    ASSUME NEW X, NEW old \in Seq(X), NEW new \in Seq(X)
    PROVE  Reached(X, old, new, Start)
<1>1. Start.i = 1 /\ Start.j = 1 /\ Start.ops = <<>>
  BY DEF Start
<1>2. Start \in [i : 1..Len(old) + 1, j : 1..Len(new) + 1, ops : Seq(Op(X))]
  BY DEF Start
<1>3. \A kinds : Side(<<>>, kinds) = <<>>
  <2>1. ASSUME NEW kinds PROVE Side(<<>>, kinds) = <<>>
    <3>1. OfKind(<<>>, kinds) = {}
      BY DEF OfKind
    <3>2. <<>> \in Seq(X) /\ {} \in SUBSET DOMAIN <<>>
      OBVIOUS
    <3>3. Entries(<<>>, {}) \in Seq(X) /\ Len(Entries(<<>>, {})) = Cardinality({})
      BY <3>2, EntriesIsSeq
    <3>4. Cardinality({}) = 0
      BY FS_EmptySet
    <3>5. Entries(<<>>, {}) = <<>>
      <4> DEFINE e == Entries(<<>>, {})
      <4>1. e \in Seq(X) /\ Len(e) = 0
        BY <3>3, <3>4
      <4> HIDE DEF e
      <4>2. e = <<>>
        BY <4>1
      <4> QED
        BY <4>2 DEF e
    <3> QED
      BY <3>1, <3>5 DEF Side
  <2> QED
    BY <2>1
<1>4. OldSide(<<>>) = <<>> /\ NewSide(<<>>) = <<>> /\ \A kind : Count(<<>>, kind) = 0
  BY <1>3 DEF OldSide, NewSide, Count
<1>5. Table(old, new)[<<1, 1>>] \in Nat
  <2>1. 1 \in 1..Len(old) + 1 /\ 1 \in 1..Len(new) + 1
    OBVIOUS
  <2> QED
    BY <2>1, TableCases
<1> QED
  BY <1>1, <1>2, <1>4, <1>5 DEF Reached

\* A round that keeps a line, takes one of the old or takes one of the new.
IsRound(X, old, new, at, op, next) ==
    /\ op \in Op(X)
    /\ next = [i |-> next.i, j |-> next.j, ops |-> Append(at.ops, op)]
    /\ \/ /\ op.kind = "equal" /\ at.i <= Len(old) /\ at.j <= Len(new)
          /\ next.i = at.i + 1 /\ next.j = at.j + 1
       \/ op.kind = "delete" /\ at.i <= Len(old) /\ next.i = at.i + 1 /\ next.j = at.j
       \/ op.kind = "add" /\ at.j <= Len(new) /\ next.i = at.i /\ next.j = at.j + 1
    /\ op.kind # "add" => op.text = old[at.i] /\ op.oldNo = at.i
    /\ op.kind # "delete" => op.text = new[at.j] /\ op.newNo = at.j
    /\ Table(old, new)[<<at.i, at.j>>] =
           IF op.kind = "equal" THEN Table(old, new)[<<next.i, next.j>>] + 1
           ELSE Table(old, new)[<<next.i, next.j>>]

\* A round that reads a line of one side, or an equal one of both, goes on
\* rightly.
LEMMA RoundIsReached ==
    ASSUME NEW X, NEW old \in Seq(X), NEW new \in Seq(X), NEW at, NEW op, NEW next,
           Reached(X, old, new, at), IsRound(X, old, new, at, op, next)
    PROVE  Reached(X, old, new, next)
<1> DEFINE ops == at.ops
           i == at.i
           j == at.j
           m == Len(old)
           n == Len(new)
           left == OldSide(ops)
           right == NewSide(ops)
           dp == Table(old, new)
           O == Op(X)
<1>1. /\ i \in 1..m + 1 /\ j \in 1..n + 1 /\ ops \in Seq(O) /\ m \in Nat /\ n \in Nat
      /\ Len(left) = i - 1 /\ (\A k \in 1..i - 1 : left[k].text = old[k] /\ left[k].oldNo = k)
      /\ Len(right) = j - 1 /\ (\A k \in 1..j - 1 : right[k].text = new[k] /\ right[k].newNo = k)
      /\ Count(ops, "equal") + Count(ops, "delete") = i - 1
      /\ Count(ops, "equal") + Count(ops, "add") = j - 1
      /\ Count(ops, "equal") + dp[<<i, j>>] = dp[<<1, 1>>]
  <2>1. i \in 1..m + 1 /\ j \in 1..n + 1 /\ ops \in Seq(O)
    BY DEF Reached
  <2>2. m \in Nat /\ n \in Nat
    OBVIOUS
  <2>3. /\ Len(left) = i - 1 /\ (\A k \in 1..i - 1 : left[k].text = old[k] /\ left[k].oldNo = k)
        /\ Len(right) = j - 1 /\ (\A k \in 1..j - 1 : right[k].text = new[k] /\ right[k].newNo = k)
    BY DEF Reached
  <2>4. /\ Count(ops, "equal") + Count(ops, "delete") = i - 1
        /\ Count(ops, "equal") + Count(ops, "add") = j - 1
        /\ Count(ops, "equal") + dp[<<i, j>>] = dp[<<1, 1>>]
    BY DEF Reached
  <2> QED
    BY <2>1, <2>2, <2>3, <2>4
<1>2. /\ next.ops \in Seq(O)
      /\ OldSide(next.ops) = IF op.kind # "add" THEN Append(left, op) ELSE left
      /\ NewSide(next.ops) = IF op.kind # "delete" THEN Append(right, op) ELSE right
      /\ left \in Seq(O) /\ right \in Seq(O)
      /\ \A kind : /\ Count(ops, kind) \in Nat
                   /\ Count(next.ops, kind) = IF op.kind = kind THEN Count(ops, kind) + 1 ELSE Count(ops, kind)
  <2>1. op \in Op(X) /\ next.ops = Append(ops, op) /\ ops \in Seq(Op(X))
    BY <1>1 DEF IsRound
  <2> DEFINE t == Append(ops, op)
  <2>2. /\ t \in Seq(Op(X))
        /\ OldSide(t) = IF op.kind # "add" THEN Append(OldSide(ops), op) ELSE OldSide(ops)
        /\ NewSide(t) = IF op.kind # "delete" THEN Append(NewSide(ops), op) ELSE NewSide(ops)
        /\ OldSide(ops) \in Seq(Op(X)) /\ NewSide(ops) \in Seq(Op(X))
        /\ \A kind : /\ Count(ops, kind) \in Nat
                     /\ Count(t, kind) = IF op.kind = kind THEN Count(ops, kind) + 1 ELSE Count(ops, kind)
    <3> HIDE DEF ops
    <3> QED
      BY <2>1, OneMore
  <2>3. next.ops = t
    BY <2>1
  <2> HIDE DEF t, ops
  <2> QED
    BY <2>2, <2>3
<1>3. op \in O /\ op.kind \in {"equal", "delete", "add"}
  BY DEF Op, IsRound
<1> HIDE DEF ops, i, j, m, n, left, right, O
<1>4. /\ next.i \in 1..m + 1 /\ next.j \in 1..n + 1
      /\ next.i = IF op.kind # "add" THEN i + 1 ELSE i
      /\ next.j = IF op.kind # "delete" THEN j + 1 ELSE j
  <2> DEFINE ni == next.i
             nj == next.j
  <2>1. \/ op.kind = "equal" /\ i <= m /\ j <= n /\ ni = i + 1 /\ nj = j + 1
        \/ op.kind = "delete" /\ i <= m /\ ni = i + 1 /\ nj = j
        \/ op.kind = "add" /\ j <= n /\ ni = i /\ nj = j + 1
    BY DEF i, j, m, n, IsRound
  <2>2. i \in 1..m + 1 /\ j \in 1..n + 1 /\ m \in Nat /\ n \in Nat
    BY <1>1
  <2> HIDE DEF ni, nj
  <2>3. ni \in 1..m + 1 /\ nj \in 1..n + 1
    BY <2>1, <2>2
  <2>4. ni = (IF op.kind # "add" THEN i + 1 ELSE i) /\ nj = (IF op.kind # "delete" THEN j + 1 ELSE j)
    BY <2>1
  <2> QED
    BY <2>3, <2>4 DEF ni, nj
<1>5. next \in [i : 1..m + 1, j : 1..n + 1, ops : Seq(O)]
  BY <1>2, <1>4 DEF IsRound
<1>6. ASSUME NEW s \in Seq(O), NEW no \in Nat, Len(s) = no - 1
      PROVE  /\ Len(Append(s, op)) = no /\ Append(s, op)[no] = op
             /\ \A k \in 1..no - 1 : Append(s, op)[k] = s[k]
  BY <1>3, <1>6, AppendProperties
<1>7. /\ Len(OldSide(next.ops)) = next.i - 1
      /\ \A k \in 1..next.i - 1 : OldSide(next.ops)[k].text = old[k] /\ OldSide(next.ops)[k].oldNo = k
  <2>1. CASE op.kind = "add"
    BY <1>1, <1>2, <1>4, <2>1
  <2>2. CASE op.kind # "add"
    <3>1. OldSide(next.ops) = Append(left, op) /\ next.i = i + 1 /\ op.text = old[i] /\ op.oldNo = i
      BY <1>2, <1>4, <2>2 DEF i, IsRound
    <3>2. i \in Nat /\ \A k \in 1..i : k = i \/ k \in 1..i - 1
      BY <1>1
    <3>3. Len(Append(left, op)) = i /\ Append(left, op)[i] = op /\ \A k \in 1..i - 1 : Append(left, op)[k] = left[k]
      BY <1>1, <1>2, <1>6, <3>2
    <3>4. next.i - 1 = i /\ Len(OldSide(next.ops)) = i
      BY <3>1, <3>2, <3>3
    <3>5. ASSUME NEW k \in 1..i
          PROVE  OldSide(next.ops)[k].text = old[k] /\ OldSide(next.ops)[k].oldNo = k
      <4>1. CASE k = i
        BY <3>1, <3>3, <4>1
      <4>2. CASE k \in 1..i - 1
        BY <1>1, <3>1, <3>3, <4>2
      <4> QED
        BY <3>2, <4>1, <4>2
    <3> QED
      BY <3>5, <3>4
  <2> QED
    BY <2>1, <2>2
<1>8. /\ Len(NewSide(next.ops)) = next.j - 1
      /\ \A k \in 1..next.j - 1 : NewSide(next.ops)[k].text = new[k] /\ NewSide(next.ops)[k].newNo = k
  <2>1. CASE op.kind = "delete"
    BY <1>1, <1>2, <1>4, <2>1
  <2>2. CASE op.kind # "delete"
    <3>1. NewSide(next.ops) = Append(right, op) /\ next.j = j + 1 /\ op.text = new[j] /\ op.newNo = j
      BY <1>2, <1>4, <2>2 DEF j, IsRound
    <3>2. j \in Nat /\ \A k \in 1..j : k = j \/ k \in 1..j - 1
      BY <1>1
    <3>3. Len(Append(right, op)) = j /\ Append(right, op)[j] = op /\ \A k \in 1..j - 1 : Append(right, op)[k] = right[k]
      BY <1>1, <1>2, <1>6, <3>2
    <3>4. next.j - 1 = j /\ Len(NewSide(next.ops)) = j
      BY <3>1, <3>2, <3>3
    <3>5. ASSUME NEW k \in 1..j
          PROVE  NewSide(next.ops)[k].text = new[k] /\ NewSide(next.ops)[k].newNo = k
      <4>1. CASE k = j
        BY <3>1, <3>3, <4>1
      <4>2. CASE k \in 1..j - 1
        BY <1>1, <3>1, <3>3, <4>2
      <4> QED
        BY <3>2, <4>1, <4>2
    <3> QED
      BY <3>5, <3>4
  <2> QED
    BY <2>1, <2>2
<1> DEFINE e == Count(ops, "equal")
           d == Count(ops, "delete")
           a == Count(ops, "add")
<1>9. /\ e \in Nat /\ d \in Nat /\ a \in Nat
      /\ Count(next.ops, "equal") = IF op.kind = "equal" THEN e + 1 ELSE e
      /\ Count(next.ops, "delete") = IF op.kind = "delete" THEN d + 1 ELSE d
      /\ Count(next.ops, "add") = IF op.kind = "add" THEN a + 1 ELSE a
  BY <1>2
<1>10. e + d = i - 1 /\ e + a = j - 1 /\ e + dp[<<i, j>>] = dp[<<1, 1>>] /\ i \in Int /\ j \in Int
  BY <1>1
<1> HIDE DEF e, d, a
<1>11. /\ Count(next.ops, "equal") + Count(next.ops, "delete") = next.i - 1
       /\ Count(next.ops, "equal") + Count(next.ops, "add") = next.j - 1
  <2> HIDE DEF dp
  <2>1. (e + 1) + d = (i + 1) - 1 /\ (e + 1) + a = (j + 1) - 1
        /\ e + (d + 1) = (i + 1) - 1 /\ e + (a + 1) = (j + 1) - 1
    <3>1. e \in Nat /\ d \in Nat /\ a \in Nat
      BY <1>9
    <3>2. e + d = i - 1 /\ e + a = j - 1 /\ i \in Int /\ j \in Int
      BY <1>10
    <3> QED
      BY <3>1, <3>2
  <2> QED
    BY <1>3, <1>4, <1>9, <1>10, <2>1, Zenon
<1>12. Count(next.ops, "equal") + dp[<<next.i, next.j>>] = dp[<<1, 1>>]
  <2> DEFINE p == dp[<<i, j>>]
             q == dp[<<next.i, next.j>>]
             r == dp[<<1, 1>>]
  <2>1. p = IF op.kind = "equal" THEN q + 1 ELSE q
    BY DEF i, j, IsRound
  <2>2. q \in Nat
    BY <1>4, TableCases DEF m, n
  <2>3. e + p = r
    BY <1>10
  <2> HIDE DEF p, q, r
  <2>4. (e + 1) + q = e + (q + 1)
    BY <1>9, <2>2
  <2>5. Count(next.ops, "equal") + q = r
    BY <1>9, <2>1, <2>3, <2>4, Zenon
  <2> QED
    BY <2>5 DEF q, r
<1> QED
  BY <1>5, <1>7, <1>8, <1>11, <1>12 DEF Reached, m, n, O

\* Each round of the code is such a round, or there is nothing left to read.
LEMMA AdvanceIsReached ==
    ASSUME NEW X, NEW old \in Seq(X), NEW new \in Seq(X), NEW at, Reached(X, old, new, at)
    PROVE  LET next == Advance(old, new, Table(old, new), at)
           IN  /\ Reached(X, old, new, next)
               /\ \/ next.i + next.j >= at.i + at.j + 1
                  \/ at.i = Len(old) + 1 /\ at.j = Len(new) + 1 /\ next = at
<1> DEFINE m == Len(old)
           n == Len(new)
           i == at.i
           j == at.j
           dp == Table(old, new)
           next == Advance(old, new, dp, at)
<1>1. at \in [i : 1..m + 1, j : 1..n + 1, ops : Seq(Op(X))]
  BY DEF Reached
<1>2. i \in 1..m + 1 /\ j \in 1..n + 1 /\ m \in Nat /\ n \in Nat
  BY <1>1
<1>3. /\ i <= m => i \in DOMAIN old /\ old[i] \in X
      /\ j <= n => j \in DOMAIN new /\ new[j] \in X
  BY <1>2
<1>4. ASSUME NEW k \in 1..m + 1, NEW l \in 1..n + 1, k <= m, l <= n
       PROVE  IF old[k] = new[l] THEN dp[<<k, l>>] = dp[<<k + 1, l + 1>>] + 1
              ELSE dp[<<k, l>>] = IF dp[<<k + 1, l>>] >= dp[<<k, l + 1>>]
                                  THEN dp[<<k + 1, l>>] ELSE dp[<<k, l + 1>>]
  BY <1>4, TableCases
<1>5. at = [i |-> i, j |-> j, ops |-> at.ops]
  BY <1>1
<1> DEFINE keep == [kind |-> "equal", text |-> old[i], oldNo |-> i, newNo |-> j]
           drop == [kind |-> "delete", text |-> old[i], oldNo |-> i, newNo |-> 0]
           take == [kind |-> "add", text |-> new[j], oldNo |-> 0, newNo |-> j]
<1>6. /\ Equal(old, at) = [i |-> i + 1, j |-> j + 1, ops |-> Append(at.ops, keep)]
      /\ Delete(old, at) = [i |-> i + 1, j |-> j, ops |-> Append(at.ops, drop)]
      /\ Add(new, at) = [i |-> i, j |-> j + 1, ops |-> Append(at.ops, take)]
  BY <1>5 DEF Equal, Delete, Add
<1> HIDE DEF m, n, i, j, dp
<1>7. CASE i <= m /\ j <= n /\ old[i] = new[j]
  <2>1. next = Equal(old, at)
    BY <1>7 DEF Advance, m, n, i, j
  <2>2. dp[<<i, j>>] = dp[<<i + 1, j + 1>>] + 1
    BY <1>2, <1>4, <1>7
  <2>3. keep \in Op(X)
    BY <1>2, <1>3, <1>7 DEF Op
  <2>4. IsRound(X, old, new, at, keep, Equal(old, at))
    BY <1>6, <1>7, <2>2, <2>3 DEF IsRound, m, n, i, j, dp
  <2>5. Reached(X, old, new, Equal(old, at))
    BY <2>4, RoundIsReached
  <2>6. Equal(old, at).i + Equal(old, at).j >= i + j + 1
    BY <1>2, <1>6
  <2> QED
    BY <2>1, <2>5, <2>6 DEF i, j, dp
<1>8. CASE i <= m /\ ~(j <= n /\ old[i] = new[j]) /\ (j > n \/ dp[<<i + 1, j>>] >= dp[<<i, j + 1>>])
  <2>1. next = Delete(old, at)
    BY <1>8 DEF Advance, m, n, i, j
  <2>2. dp[<<i, j>>] = dp[<<i + 1, j>>]
    <3>1. CASE j <= n
      <4>1. ~(j > n)
        BY <1>2, <3>1
      <4>2. dp[<<i, j>>] = IF dp[<<i + 1, j>>] >= dp[<<i, j + 1>>] THEN dp[<<i + 1, j>>] ELSE dp[<<i, j + 1>>]
        BY <1>2, <1>4, <1>8, <3>1
      <4> QED
        BY <1>8, <4>1, <4>2
    <3>2. CASE ~(j <= n)
      <4>1. i + 1 \in 1..m + 1
        BY <1>2, <1>8
      <4>2. dp[<<i, j>>] = 0 /\ dp[<<i + 1, j>>] = 0
        BY <1>2, <3>2, <4>1, TableEdge DEF m, n, dp
      <4> QED
        BY <4>2
    <3> QED
      BY <3>1, <3>2
  <2>3. drop \in Op(X)
    BY <1>2, <1>3, <1>8 DEF Op
  <2>4. IsRound(X, old, new, at, drop, Delete(old, at))
    BY <1>6, <1>8, <2>2, <2>3 DEF IsRound, m, n, i, j, dp
  <2>5. Reached(X, old, new, Delete(old, at))
    BY <2>4, RoundIsReached
  <2>6. Delete(old, at).i + Delete(old, at).j >= i + j + 1
    BY <1>2, <1>6
  <2> QED
    BY <2>1, <2>5, <2>6 DEF i, j, dp
<1>9. CASE j <= n /\ ~(i <= m /\ old[i] = new[j]) /\ ~(i <= m /\ dp[<<i + 1, j>>] >= dp[<<i, j + 1>>])
  <2>1. next = Add(new, at)
    <3>1. ~(j > n)
      BY <1>2, <1>9
    <3> QED
      BY <1>9, <3>1 DEF Advance, m, n, i, j
  <2>2. dp[<<i, j>>] = dp[<<i, j + 1>>]
    <3>1. CASE i <= m
      <4>1. dp[<<i, j>>] = IF dp[<<i + 1, j>>] >= dp[<<i, j + 1>>] THEN dp[<<i + 1, j>>] ELSE dp[<<i, j + 1>>]
        BY <1>2, <1>4, <1>9, <3>1
      <4> QED
        BY <1>9, <3>1, <4>1
    <3>2. CASE ~(i <= m)
      <4>1. j + 1 \in 1..n + 1
        BY <1>2, <1>9
      <4>2. dp[<<i, j>>] = 0 /\ dp[<<i, j + 1>>] = 0
        BY <1>2, <3>2, <4>1, TableEdge DEF m, n, dp
      <4> QED
        BY <4>2
    <3> QED
      BY <3>1, <3>2
  <2>3. take \in Op(X)
    BY <1>2, <1>3, <1>9 DEF Op
  <2>4. IsRound(X, old, new, at, take, Add(new, at))
    BY <1>6, <1>9, <2>2, <2>3 DEF IsRound, m, n, i, j, dp
  <2>5. Reached(X, old, new, Add(new, at))
    BY <2>4, RoundIsReached
  <2>6. Add(new, at).i + Add(new, at).j >= i + j + 1
    BY <1>2, <1>6
  <2> QED
    BY <2>1, <2>5, <2>6 DEF i, j, dp
<1>10. CASE ~(i <= m) /\ ~(j <= n)
  <2>1. next = at
    BY <1>10 DEF Advance, m, n, i, j
  <2>2. i = m + 1 /\ j = n + 1
    BY <1>2, <1>10
  <2> QED
    BY <2>1, <2>2 DEF m, n, i, j, dp
<1>11. j > n <=> ~(j <= n)
  BY <1>2
<1> QED
  BY <1>7, <1>8, <1>9, <1>10, <1>11

\* After as many rounds as the two texts have lines, both have been read.
LEMMA WalkReadsBoth ==
    ASSUME NEW X, NEW old \in Seq(X), NEW new \in Seq(X)
    PROVE  \E at : /\ Reached(X, old, new, at) /\ at.i = Len(old) + 1 /\ at.j = Len(new) + 1
                   /\ Walk(old, new) = at.ops
<1> DEFINE m == Len(old)
           n == Len(new)
           N == m + n
           dp == Table(old, new)
           S == {at \in [i : 1..m + 1, j : 1..n + 1, ops : Seq(Op(X))] : Reached(X, old, new, at)}
           step == [p \in S \X (1..N) |-> Advance(old, new, dp, p[1])]
           at == CHOOSE f : f = [k \in 0..N |-> IF k = 0 THEN Start ELSE Advance(old, new, dp, f[k - 1])]
<1>1. m \in Nat /\ n \in Nat /\ N \in Nat
  OBVIOUS
<1>2. ASSUME NEW x PROVE x \in S <=> Reached(X, old, new, x)
  BY DEF Reached
<1>3. Start \in S
  BY <1>2, StartIsReached
<1>4. \A x \in S : Advance(old, new, dp, x) \in S
  BY <1>2, AdvanceIsReached
<1> HIDE DEF S, N
<1>5. step \in [S \X (1..N) -> S]
  BY <1>4
<1>6. PICK f \in [0..N -> S] : f = [k \in 0..N |-> IF k = 0 THEN Start ELSE step[<<f[k - 1], k>>]]
  <2> HIDE DEF step
  <2>1. IsStep(step, S, N)
    BY <1>5 DEF IsStep
  <2> QED
    BY <1>1, <1>3, <2>1, ListRecursion
<1>7. f = [k \in 0..N |-> IF k = 0 THEN Start ELSE Advance(old, new, dp, f[k - 1])]
  <2>1. ASSUME NEW k \in 0..N, k # 0 PROVE step[<<f[k - 1], k>>] = Advance(old, new, dp, f[k - 1])
    <3>1. k - 1 \in 0..N /\ k \in 1..N
      BY <1>1, <2>1
    <3>2. <<f[k - 1], k>> \in S \X (1..N)
      BY <3>1
    <3> HIDE DEF dp
    <3> QED
      BY <3>2
  <2> HIDE DEF step, dp
  <2> QED
    BY <1>6, <2>1
<1>8. at = [k \in 0..N |-> IF k = 0 THEN Start ELSE Advance(old, new, dp, at[k - 1])]
  <2> HIDE DEF dp
  <2> QED
    BY <1>7
<1>9. Walk(old, new) = at[N].ops
  BY DEF Walk, N
<1> HIDE DEF at, dp
<1> DEFINE T == {k \in 0..N : at[k] \in S /\ (at[k].i + at[k].j >= k + 2 \/ at[k].i + at[k].j = N + 2)}
<1>10. 0 \in T
  <2>1. at[0] = Start
    BY <1>1, <1>8
  <2> QED
    BY <1>1, <1>3, <2>1 DEF Start
<1>11. ASSUME NEW k \in 1..N, k - 1 \in T PROVE k \in T
  <2> DEFINE x == at[k - 1]
             y == at[k]
  <2>1. x \in S /\ (x.i + x.j >= (k - 1) + 2 \/ x.i + x.j = N + 2)
    BY <1>11
  <2>2. y = Advance(old, new, dp, x)
    BY <1>1, <1>8
  <2> HIDE DEF x, y
  <2>3. y \in S
    BY <1>4, <2>1, <2>2
  <2>4. y.i + y.j >= x.i + x.j + 1 \/ (x.i = m + 1 /\ x.j = n + 1 /\ y = x)
    BY <1>2, <2>1, <2>2, AdvanceIsReached DEF dp
  <2>5. x.i \in 1..m + 1 /\ x.j \in 1..n + 1 /\ y.i \in 1..m + 1 /\ y.j \in 1..n + 1
    BY <2>1, <2>3 DEF S
  <2> DEFINE xi == x.i
             xj == x.j
             yi == y.i
             yj == y.j
  <2>6. /\ xi \in 1..m + 1 /\ xj \in 1..n + 1 /\ yi \in 1..m + 1 /\ yj \in 1..n + 1
        /\ yi + yj >= xi + xj + 1 \/ (xi = m + 1 /\ xj = n + 1 /\ yi = xi /\ yj = xj)
        /\ xi + xj >= (k - 1) + 2 \/ xi + xj = N + 2
    BY <2>1, <2>4, <2>5
  <2> HIDE DEF xi, xj, yi, yj, m, n
  <2>7. yi + yj >= k + 2 \/ yi + yj = N + 2
    BY <1>1, <2>6 DEF N
  <2>8. at[k].i + at[k].j >= k + 2 \/ at[k].i + at[k].j = N + 2
    BY <2>7 DEF yi, yj, y
  <2>9. at[k] \in S /\ k \in 0..N
    BY <1>1, <2>3 DEF y
  <2> QED
    BY <2>8, <2>9
<1>12. N \in T
  <2>1. 0..N \subseteq T
    <3> HIDE DEF T
    <3> QED
      BY <1>1, <1>10, <1>11, IntervalInduction
  <2> QED
    BY <1>1, <2>1
<1> DEFINE z == at[N]
<1>13. z \in S /\ z.i + z.j >= N + 2
  <2>1. z \in S /\ (z.i + z.j >= N + 2 \/ z.i + z.j = N + 2)
    BY <1>12
  <2> HIDE DEF z
  <2> QED
    BY <1>1, <2>1
<1> HIDE DEF z
<1>14. Reached(X, old, new, z) /\ z.i \in 1..m + 1 /\ z.j \in 1..n + 1
  BY <1>2, <1>13 DEF S
<1>15. z.i = m + 1 /\ z.j = n + 1
  <2> DEFINE zi == z.i
             zj == z.j
  <2>1. zi \in 1..m + 1 /\ zj \in 1..n + 1 /\ zi + zj >= N + 2
    BY <1>13, <1>14
  <2> HIDE DEF zi, zj, m, n
  <2>2. zi = m + 1 /\ zj = n + 1
    BY <1>1, <2>1 DEF N
  <2> QED
    BY <2>2 DEF zi, zj
<1> QED
  BY <1>9, <1>14, <1>15 DEF z

(***************************************************************************)
(* What DiffLines promises, for any two texts: without its additions the   *)
(* diff reads as the old text and without its deletions as the new one,    *)
(* each with its line numbers; and no other diff changes fewer lines.      *)
(***************************************************************************)
LEMMA DiffIsTheWalk ==
    ASSUME NEW old, NEW new, ~DiffLines(old, new).tooLarge
    PROVE  DiffLines(old, new).ops = Walk(old, new)
BY DEF DiffLines

\* Without its additions a diff is the old text, without its deletions the
\* new one, numbered from 1 (DiffLines' walk and tails), for any two texts.
THEOREM DiffRebuilds ==
    ASSUME NEW X, NEW old \in Seq(X), NEW new \in Seq(X)
    PROVE  RebuildsBothTexts(old, new)
<1> DEFINE ops == DiffLines(old, new).ops
           left == OldSide(ops)
           right == NewSide(ops)
<1> SUFFICES ASSUME ~DiffLines(old, new).tooLarge
             PROVE  /\ TextOf(left) = old /\ TextOf(right) = new
                    /\ \A k \in DOMAIN left : left[k].oldNo = k
                    /\ \A k \in DOMAIN right : right[k].newNo = k
  BY DEF RebuildsBothTexts, OldSide, NewSide, Side
<1>1. PICK at : /\ Reached(X, old, new, at) /\ at.i = Len(old) + 1 /\ at.j = Len(new) + 1
                /\ ops = at.ops
  BY DiffIsTheWalk, WalkReadsBoth
<1> DEFINE m == Len(old)
           n == Len(new)
<1>2. m \in Nat /\ n \in Nat /\ old = [k \in 1..m |-> old[k]] /\ new = [k \in 1..n |-> new[k]]
  OBVIOUS
<1> HIDE DEF ops
<1>3. ops \in Seq(Op(X))
  BY <1>1 DEF Reached
<1>4. left \in Seq(Op(X)) /\ right \in Seq(Op(X))
  <2>1. ASSUME NEW kinds PROVE Side(ops, kinds) \in Seq(Op(X))
    <3>1. OfKind(ops, kinds) \in SUBSET DOMAIN ops
      BY DEF OfKind
    <3> QED
      BY <1>3, <3>1, EntriesIsSeq DEF Side
  <2> QED
    BY <2>1 DEF OldSide, NewSide
<1> HIDE DEF left, right, m, n
<1>5. /\ Len(left) = (m + 1) - 1 /\ \A k \in 1..(m + 1) - 1 : left[k].text = old[k] /\ left[k].oldNo = k
      /\ Len(right) = (n + 1) - 1 /\ \A k \in 1..(n + 1) - 1 : right[k].text = new[k] /\ right[k].newNo = k
  BY <1>1 DEF Reached, left, right, m, n
<1>6. (m + 1) - 1 = m /\ (n + 1) - 1 = n
  BY <1>2
<1>7. DOMAIN left = 1..m /\ DOMAIN right = 1..n
  BY <1>4, <1>5, <1>6
<1>8. /\ \A k \in 1..m : left[k].text = old[k] /\ left[k].oldNo = k
      /\ \A k \in 1..n : right[k].text = new[k] /\ right[k].newNo = k
  BY <1>5, <1>6
<1>9. TextOf(left) = [k \in 1..m |-> old[k]] /\ TextOf(right) = [k \in 1..n |-> new[k]]
  BY <1>7, <1>8 DEF TextOf
<1> QED
  BY <1>2, <1>7, <1>8, <1>9

\* No diff of any two texts changes fewer lines, and Summarize counts them
\* (DiffLines' table and the choices the walk takes from it).
THEOREM DiffIsMinimal ==
    ASSUME NEW X, NEW old \in Seq(X), NEW new \in Seq(X)
    PROVE  ChangesAsLittleAsPossible(old, new)
<1> DEFINE ops == DiffLines(old, new).ops
           common == CommonLength(old, new)
           dp == Table(old, new)
           m == Len(old)
           n == Len(new)
<1> SUFFICES ASSUME ~DiffLines(old, new).tooLarge
             PROVE  Summarize(ops) = [added |-> n - common, removed |-> m - common]
  BY DEF ChangesAsLittleAsPossible
<1>1. PICK at : /\ Reached(X, old, new, at) /\ at.i = m + 1 /\ at.j = n + 1
                /\ ops = at.ops
  BY DiffIsTheWalk, WalkReadsBoth
<1>2. m \in Nat /\ n \in Nat /\ m + 1 \in 1..m + 1 /\ n + 1 \in 1..n + 1 /\ ~(m + 1 <= m)
  OBVIOUS
<1>3. common = dp[<<1, 1>>] /\ dp[<<m + 1, n + 1>>] = 0
  BY <1>2, TableIsCommonLength, TableEdge
<1> HIDE DEF ops, dp, m, n, common
<1>4. ops \in Seq(Op(X))
  BY <1>1 DEF Reached
<1>5. ASSUME NEW kind PROVE Count(ops, kind) \in Nat /\ Count(ops, kind) = Cardinality(OfKind(ops, {kind}))
  <2>1. OfKind(ops, {kind}) \in SUBSET DOMAIN ops
    BY DEF OfKind
  <2> QED
    BY <1>4, <2>1, EntriesIsSeq DEF Side, Count
<1> DEFINE e == Count(ops, "equal")
           d == Count(ops, "delete")
           a == Count(ops, "add")
<1>6. e + d = (m + 1) - 1 /\ e + a = (n + 1) - 1 /\ e + dp[<<m + 1, n + 1>>] = dp[<<1, 1>>]
  BY <1>1 DEF Reached, m, n, dp
<1>7. e \in Nat /\ d \in Nat /\ a \in Nat
  BY <1>5
<1>8. Summarize(ops) = [added |-> a, removed |-> d]
  BY <1>5 DEF Summarize
<1> HIDE DEF e, d, a
<1>9. e = common
  <2>1. e + 0 = common
    BY <1>3, <1>6
  <2> QED
    BY <1>7, <2>1
<1>10. a = n - common /\ d = m - common
  BY <1>2, <1>6, <1>7, <1>9
<1> QED
  BY <1>8, <1>10

(***************************************************************************)
(* Lines.  The cuts of a text are its ends in order; between two of them   *)
(* lies a line.                                                            *)
(***************************************************************************)
IsCut(text, c, r) ==
    /\ Lists(c, r, Ends(text))
    /\ r >= 2 /\ c[1] = 0 /\ c[r] = Len(text) + 1
    /\ \A k \in 1..r - 1 : /\ k \in 1..r /\ k + 1 \in 1..r
                           /\ c[k] \in 0..Len(text) /\ c[k + 1] \in 1..Len(text) + 1 /\ c[k] < c[k + 1]

\* The newlines of a text, its start and its end, in order.
LEMMA TextIsCut ==
    ASSUME NEW X, NEW text \in Seq(X)
    PROVE  /\ Ends(text) \in SUBSET (0..Len(text) + 1)
           /\ Cardinality(Ends(text)) \in Nat
           /\ IsCut(text, Increasing(Ends(text)), Cardinality(Ends(text)))
<1> DEFINE m == Len(text)
           S == Ends(text)
           r == Cardinality(S)
           c == Increasing(S)
<1>1. m \in Nat /\ DOMAIN text = 1..m
  OBVIOUS
<1>2. S \in SUBSET (0..m + 1) /\ S \in SUBSET Int /\ 0 \in S /\ m + 1 \in S
  BY <1>1 DEF Ends
<1>3. IsFiniteSet(S)
  <2>1. IsFiniteSet(0..m + 1)
    BY <1>1, FS_Interval
  <2> HIDE DEF S
  <2> QED
    BY <1>2, <2>1, FS_Subset
<1>4. r \in Nat /\ Lists(c, r, S)
  BY <1>2, <1>3, IncreasingLists
<1> HIDE DEF S, r, c, m
<1>5. /\ c \in [1..r -> S] /\ (\A x \in S : \E i \in 1..r : c[i] = x)
      /\ \A i, j \in 1..r : i < j => c[i] < c[j]
  BY <1>4 DEF Lists
<1>6. \A i \in 1..r : c[i] \in 0..m + 1
  BY <1>2, <1>5
<1>7. PICK i \in 1..r : c[i] = 0
  BY <1>2, <1>5
<1>8. PICK j \in 1..r : c[j] = m + 1
  BY <1>2, <1>5
<1>9. i = 1
  <2>1. ASSUME i # 1 PROVE FALSE
    <3>1. 1 \in 1..r /\ 1 < i
      BY <1>4, <2>1
    <3>2. c[1] < 0
      BY <1>5, <1>7, <3>1
    <3> QED
      BY <1>1, <1>6, <3>1, <3>2
  <2> QED
    BY <2>1
<1>10. j = r
  <2>1. ASSUME j # r PROVE FALSE
    <3>1. r \in 1..r /\ j < r
      BY <1>4, <2>1
    <3>2. m + 1 < c[r]
      BY <1>5, <1>8, <3>1
    <3> QED
      BY <1>1, <1>6, <3>1, <3>2
  <2> QED
    BY <2>1
<1>11. r >= 2
  BY <1>1, <1>4, <1>7, <1>8, <1>9, <1>10
<1>12. ASSUME NEW k \in 1..r - 1
       PROVE  /\ k \in 1..r /\ k + 1 \in 1..r
              /\ c[k] \in 0..m /\ c[k + 1] \in 1..m + 1 /\ c[k] < c[k + 1]
  <2>1. k \in 1..r /\ k + 1 \in 1..r /\ k < k + 1
    BY <1>4
  <2>2. c[k] < c[k + 1] /\ c[k] \in 0..m + 1 /\ c[k + 1] \in 0..m + 1
    BY <1>5, <1>6, <2>1
  <2> QED
    BY <1>1, <2>1, <2>2
<1> QED
  BY <1>2, <1>4, <1>7, <1>8, <1>9, <1>10, <1>11, <1>12 DEF IsCut, S, r, c, m

AreLines(X, lines, text, c, r) ==
    /\ lines \in Seq(Seq(X)) /\ Len(lines) = r - 1
    /\ \A k \in 1..r - 1 : /\ lines[k] \in Seq(X)
                           /\ Len(lines[k]) = c[k + 1] - c[k] - 1
                           /\ \A p \in 1..c[k + 1] - c[k] - 1 : lines[k][p] = text[c[k] + p]

\* The lines of a text lie between its cuts.
LEMMA LinesOfCuts ==
    ASSUME NEW X, NEW text \in Seq(X), NEW c, NEW r, IsCut(text, c, r), r \in Nat
    PROVE  AreLines(X, Split(text), text, c, r)
<1> DEFINE m == Len(text)
           line(k) == SubSeq(text, c[k] + 1, c[k + 1] - 1)
<1>1. m \in Nat /\ DOMAIN text = 1..m /\ \A p \in 1..m : text[p] \in X
  OBVIOUS
<1>2. Cardinality(Ends(text)) = r /\ Increasing(Ends(text)) = c
  BY ListsIsIncreasing DEF IsCut
<1>3. Split(text) = [k \in 1..r - 1 |-> line(k)]
  BY <1>2 DEF Split
<1>4. ASSUME NEW k \in 1..r - 1
      PROVE  /\ line(k) \in Seq(X) /\ Len(line(k)) = c[k + 1] - c[k] - 1
             /\ \A p \in 1..c[k + 1] - c[k] - 1 : line(k)[p] = text[c[k] + p]
  <2> DEFINE a == c[k]
             b == c[k + 1]
  <2>1. a \in 0..m /\ b \in 1..m + 1 /\ a < b
    BY DEF IsCut
  <2> HIDE DEF a, b
  <2>2. \A p \in a + 1..b - 1 : text[p] \in X
    BY <1>1, <2>1
  <2>3. a + 1 \in Int /\ b - 1 \in Int
    BY <1>1, <2>1
  <2>4. /\ SubSeq(text, a + 1, b - 1) \in Seq(X)
        /\ Len(SubSeq(text, a + 1, b - 1)) = IF a + 1 <= b - 1 THEN (b - 1) - (a + 1) + 1 ELSE 0
        /\ \A p \in 1..(b - 1) - (a + 1) + 1 : SubSeq(text, a + 1, b - 1)[p] = text[a + 1 + p - 1]
    BY <2>2, <2>3, SubSeqProperties
  <2>5. (b - 1) - (a + 1) + 1 = b - a - 1 /\ (a + 1 <= b - 1 \/ b - a - 1 = 0)
    BY <1>1, <2>1
  <2>6. \A p \in 1..b - a - 1 : a + 1 + p - 1 = a + p
    BY <1>1, <2>1
  <2>7. Len(SubSeq(text, a + 1, b - 1)) = b - a - 1
    BY <2>4, <2>5
  <2>8. \A p \in 1..b - a - 1 : SubSeq(text, a + 1, b - 1)[p] = text[a + p]
    BY <2>4, <2>5, <2>6
  <2> QED
    BY <2>4, <2>7, <2>8 DEF a, b
<1>5. r - 1 \in Nat
  BY DEF IsCut
<1> HIDE DEF line
<1>6. Split(text) \in Seq(Seq(X)) /\ Len(Split(text)) = r - 1
  BY <1>3, <1>4, <1>5
<1>7. \A k \in 1..r - 1 : Split(text)[k] = line(k)
  BY <1>3
<1> QED
  BY <1>4, <1>6, <1>7 DEF line, AreLines

\* Only one text has those lines.
LEMMA SplitDetermines ==
    ASSUME NEW X, NEW t \in Seq(X), NEW u \in Seq(X), Split(t) = Split(u)
    PROVE  t = u
<1> DEFINE m == Len(t)
           n == Len(u)
           c == Increasing(Ends(t))
           d == Increasing(Ends(u))
           r == Cardinality(Ends(t))
           q == Cardinality(Ends(u))
           lines == Split(t)
<1>1. m \in Nat /\ n \in Nat /\ t = [p \in 1..m |-> t[p]] /\ u = [p \in 1..n |-> u[p]]
  OBVIOUS
<1>2. r \in Nat /\ q \in Nat /\ IsCut(t, c, r) /\ IsCut(u, d, q)
  BY TextIsCut
<1>3. Split(t) = lines /\ Split(u) = lines
  OBVIOUS
<1> HIDE DEF c, d, r, q, lines
<1>4. AreLines(X, Split(t), t, c, r)
  BY <1>2, LinesOfCuts
<1>5. AreLines(X, Split(u), u, d, q)
  BY <1>2, LinesOfCuts
<1>6. /\ Len(lines) = r - 1
      /\ \A k \in 1..r - 1 : /\ Len(lines[k]) = c[k + 1] - c[k] - 1
                             /\ \A p \in 1..c[k + 1] - c[k] - 1 : lines[k][p] = t[c[k] + p]
  BY <1>4, <1>3 DEF AreLines
<1>7. /\ Len(lines) = q - 1
      /\ \A k \in 1..q - 1 : /\ Len(lines[k]) = d[k + 1] - d[k] - 1
                             /\ \A p \in 1..d[k + 1] - d[k] - 1 : lines[k][p] = u[d[k] + p]
  BY <1>5, <1>3 DEF AreLines
<1>8. q = r
  BY <1>2, <1>6, <1>7
<1> HIDE DEF m, n
<1>9. /\ r >= 2 /\ c[1] = 0 /\ c[r] = m + 1
      /\ \A k \in 1..r - 1 : /\ k \in 1..r /\ k + 1 \in 1..r
                             /\ c[k] \in 0..m /\ c[k + 1] \in 1..m + 1 /\ c[k] < c[k + 1]
  BY <1>2 DEF IsCut, m
<1>10. /\ d[1] = 0 /\ d[r] = n + 1
      /\ \A k \in 1..r - 1 : d[k] \in 0..n /\ d[k + 1] \in 1..n + 1 /\ d[k] < d[k + 1]
  BY <1>2, <1>8 DEF IsCut, n
<1>11. \A k \in 1..r : c[k] = d[k]
  <2> DEFINE T == {k \in 0..r - 1 : c[k + 1] = d[k + 1]}
  <2>1. r - 1 \in Nat /\ 0 \in T
    BY <1>2, <1>9, <1>10
  <2>2. ASSUME NEW k \in 1..r - 1, k - 1 \in T PROVE k \in T
    <3>1. (k - 1) + 1 = k
      BY <1>2
    <3>2. c[k] = d[k]
      BY <2>2, <3>1
    <3>3. c[k + 1] - c[k] - 1 = d[k + 1] - d[k] - 1
      BY <1>6, <1>7, <1>8
    <3>4. c[k] \in Int /\ c[k + 1] \in Int /\ d[k + 1] \in Int
      BY <1>1, <1>9, <1>10
    <3>5. c[k + 1] = d[k + 1]
      BY <3>2, <3>3, <3>4
    <3> QED
      BY <1>2, <3>5
  <2>3. 0..r - 1 \subseteq T
    <3> HIDE DEF T
    <3> QED
      BY <2>1, <2>2, IntervalInduction
  <2>4. ASSUME NEW k \in 1..r PROVE c[k] = d[k]
    <3>1. k - 1 \in 0..r - 1 /\ (k - 1) + 1 = k
      BY <1>2
    <3>2. k - 1 \in T
      BY <2>3, <3>1
    <3> QED
      BY <3>1, <3>2
  <2> QED
    BY <2>4
<1>12. m = n
  <2>1. r \in 1..r
    BY <1>2, <1>9
  <2> QED
    BY <1>1, <1>9, <1>10, <1>11, <2>1
<1>13. Ends(t) = Ends(u)
  <2> DEFINE E == Ends(t)
             F == Ends(u)
  <2>1. Lists(c, r, E) /\ Lists(d, r, F)
    BY <1>2, <1>8 DEF IsCut
  <2> HIDE DEF E, F
  <2>2. ASSUME NEW x PROVE x \in E <=> \E k \in 1..r : c[k] = x
    BY <2>1 DEF Lists
  <2>3. ASSUME NEW x PROVE x \in F <=> \E k \in 1..r : d[k] = x
    BY <2>1 DEF Lists
  <2> QED
    BY <1>11, <2>2, <2>3 DEF E, F
<1>14. ASSUME NEW p \in 1..m PROVE t[p] = u[p]
  <2>1. /\ p \in Ends(t) <=> t[p] = NL
        /\ p \in Ends(u) <=> u[p] = NL
    BY <1>1, <1>12 DEF Ends, m, n
  <2>2. CASE t[p] = NL
    BY <1>13, <2>1, <2>2
  <2>3. CASE t[p] # NL
    <3> DEFINE S == {k \in 1..r - 1 : c[k] < p}
               k == Max(S)
    <3>1. S \in SUBSET Nat /\ IsFiniteSet(S) /\ S # {}
      <4>1. 1 \in 1..r - 1 /\ c[1] < p
        BY <1>2, <1>9
      <4>2. IsFiniteSet(1..r - 1) /\ S \in SUBSET (1..r - 1)
        BY <1>2, FS_Interval
      <4>3. IsFiniteSet(S)
        BY <4>2, FS_Subset
      <4>4. 1 \in S
        BY <4>1
      <4> QED
        BY <1>2, <4>3, <4>4
    <3>2. k \in S /\ \A l \in S : l <= k
      BY <3>1, MaxOfNaturals
    <3> HIDE DEF k
    <3>3. k \in 1..r - 1 /\ c[k] < p /\ k + 1 \in 1..r /\ c[k] \in 0..m /\ c[k + 1] \in 1..m + 1
      BY <1>9, <3>2
    <3>4. p <= c[k + 1]
      <4>1. CASE k + 1 = r
        BY <1>1, <1>9, <4>1
      <4>2. CASE k + 1 # r
        <5>1. k + 1 \in 1..r - 1 /\ ~(k + 1 <= k)
          BY <1>2, <3>3, <4>2
        <5>2. ~(c[k + 1] < p)
          BY <3>2, <5>1
        <5> QED
          BY <1>1, <3>3, <5>2
      <4> QED
        BY <4>1, <4>2
    <3>5. c[k + 1] # p
      <4>1. c[k + 1] \in Ends(t)
        BY <1>2, <3>3 DEF IsCut, Lists
      <4> QED
        BY <2>1, <2>3, <4>1
    <3> DEFINE a == c[k]
               b == c[k + 1]
               x == p - a
    <3>6. a \in 0..m /\ b \in 1..m + 1 /\ a < p /\ p <= b /\ b # p
      BY <3>3, <3>4, <3>5
    <3> HIDE DEF a, b
    <3>7. x \in 1..b - a - 1 /\ a + x = p
      BY <1>1, <3>6
    <3>8. lines[k][x] = t[a + x]
      BY <1>6, <3>3, <3>7 DEF a, b
    <3>9. d[k] = a /\ d[k + 1] = b
      BY <1>11, <3>3, <1>9 DEF a, b
    <3>10. lines[k][x] = u[a + x]
      BY <1>7, <1>8, <3>3, <3>7, <3>9
    <3> QED
      BY <3>7, <3>8, <3>10
  <2> QED
    BY <2>2, <2>3
<1> QED
  BY <1>1, <1>12, <1>14

\* A newline at the end makes one more line, and that is empty.
LEMMA NewlineAddsEmptyLine ==
    ASSUME NEW X, NL \in X, NEW u \in Seq(X)
    PROVE  Split(Append(u, NL)) = Append(Split(u), <<>>)
<1> DEFINE m == Len(u)
           v == Append(u, NL)
           c == Increasing(Ends(u))
           r == Cardinality(Ends(u))
           d == [k \in 1..r + 1 |-> IF k = r + 1 THEN m + 2 ELSE c[k]]
<1>1. m \in Nat /\ v \in Seq(X) /\ Len(v) = m + 1 /\ v[m + 1] = NL /\ \A p \in 1..m : v[p] = u[p]
  OBVIOUS
<1>2. r \in Nat /\ IsCut(u, c, r) /\ Ends(u) \in SUBSET (0..m + 1)
  BY TextIsCut
<1> HIDE DEF v, m
<1>3. Ends(v) = Ends(u) \cup {m + 2}
  <2>1. DOMAIN v = 1..m + 1 /\ DOMAIN u = 1..m /\ Len(u) = m
    BY <1>1 DEF m
  <2>2. ASSUME NEW x PROVE x \in Ends(v) <=> x \in Ends(u) \cup {m + 2}
    <3>1. x \in Ends(v) <=> x = 0 \/ (x \in 1..m + 1 /\ v[x] = NL) \/ x = m + 2
      BY <1>1, <2>1 DEF Ends
    <3>2. x \in Ends(u) <=> x = 0 \/ (x \in 1..m /\ u[x] = NL) \/ x = m + 1
      BY <2>1 DEF Ends
    <3>3. x \in 1..m + 1 <=> x \in 1..m \/ x = m + 1
      BY <1>1
    <3> QED
      BY <1>1, <3>1, <3>2, <3>3
  <2> QED
    BY <2>2
<1>4. Lists(d, r + 1, Ends(v))
  <2>1. m + 2 \in Int /\ \A x \in Ends(u) : x < m + 2
    BY <1>1, <1>2
  <2> HIDE DEF r, c
  <2>2. Lists(c, r, Ends(u))
    BY <1>2 DEF IsCut
  <2> QED
    BY <1>3, <2>1, <2>2, ListsMore
<1> HIDE DEF r, c, d
<1>5. IsCut(v, d, r + 1)
  <2>1. IsCut(v, Increasing(Ends(v)), Cardinality(Ends(v)))
    BY <1>1, TextIsCut
  <2> QED
    BY <1>4, <2>1, ListsIsIncreasing
<1>6. r + 1 \in Nat /\ (r + 1) - 1 = r /\ r >= 2 /\ r - 1 \in Nat /\ c[r] = m + 1
  BY <1>2 DEF IsCut, m
<1> DEFINE old == Split(u)
           new == Split(v)
<1>7. /\ old \in Seq(Seq(X)) /\ Len(old) = r - 1
      /\ \A k \in 1..r - 1 : /\ old[k] \in Seq(X) /\ Len(old[k]) = c[k + 1] - c[k] - 1
                             /\ \A p \in 1..c[k + 1] - c[k] - 1 : old[k][p] = u[c[k] + p]
  <2>1. AreLines(X, Split(u), u, c, r)
    BY <1>2, LinesOfCuts
  <2> QED
    BY <2>1 DEF AreLines
<1>8. /\ new \in Seq(Seq(X)) /\ Len(new) = r
      /\ \A k \in 1..r : /\ new[k] \in Seq(X) /\ Len(new[k]) = d[k + 1] - d[k] - 1
                         /\ \A p \in 1..d[k + 1] - d[k] - 1 : new[k][p] = v[d[k] + p]
  <2>1. /\ new \in Seq(Seq(X)) /\ Len(new) = (r + 1) - 1
        /\ \A k \in 1..(r + 1) - 1 : /\ new[k] \in Seq(X) /\ Len(new[k]) = d[k + 1] - d[k] - 1
                         /\ \A p \in 1..d[k + 1] - d[k] - 1 : new[k][p] = v[d[k] + p]
    <3>1. AreLines(X, Split(v), v, d, r + 1)
      BY <1>1, <1>5, <1>6, LinesOfCuts
    <3> QED
      BY <3>1 DEF AreLines
  <2> HIDE DEF new
  <2> QED
    BY <1>6, <2>1
<1> HIDE DEF old, new
<1>9. /\ \A k \in 1..r : d[k] = c[k]
      /\ d[r + 1] = m + 2
  BY <1>2, <1>6 DEF d
<1>10. ASSUME NEW k \in 1..r - 1 PROVE new[k] = old[k]
  <2>1. k \in 1..r /\ k + 1 \in 1..r /\ c[k] \in 0..m /\ c[k + 1] \in 1..m + 1 /\ c[k] < c[k + 1]
    BY <1>2 DEF IsCut, m
  <2>2. d[k] = c[k] /\ d[k + 1] = c[k + 1]
    BY <1>9, <2>1
  <2> DEFINE a == c[k]
             b == c[k + 1]
             f == new[k]
             g == old[k]
  <2>3. f \in Seq(X) /\ Len(f) = b - a - 1 /\ \A p \in 1..b - a - 1 : f[p] = v[a + p]
    BY <1>8, <2>1, <2>2
  <2>4. g \in Seq(X) /\ Len(g) = b - a - 1 /\ \A p \in 1..b - a - 1 : g[p] = u[a + p]
    BY <1>7
  <2>5. a \in 0..m /\ b \in 1..m + 1
    BY <2>1
  <2> HIDE DEF a, b, f, g
  <2>6. \A p \in 1..b - a - 1 : a + p \in 1..m
    BY <1>1, <2>5
  <2>7. \A p \in 1..b - a - 1 : f[p] = g[p]
    BY <1>1, <2>3, <2>4, <2>6
  <2>8. f = g
    BY <2>3, <2>4, <2>7
  <2> QED
    BY <2>8 DEF f, g
<1>11. new[r] = <<>>
  <2>1. r \in 1..r /\ d[r] = m + 1
    BY <1>6, <1>9, <1>2
  <2>2. new[r] \in Seq(X) /\ Len(new[r]) = (m + 2) - (m + 1) - 1
    BY <1>8, <1>9, <2>1
  <2>3. (m + 2) - (m + 1) - 1 = 0
    BY <1>1
  <2> QED
    BY <2>2, <2>3
<1>12. new = Append(old, <<>>)
  <2> DEFINE f == Append(old, <<>>)
             V == Seq(X)
  <2>1. <<>> \in V
    OBVIOUS
  <2>2. old \in Seq(V) /\ new \in Seq(V)
    BY <1>7, <1>8
  <2> HIDE DEF V
  <2>3. /\ f \in Seq(V) /\ Len(f) = (r - 1) + 1 /\ f[(r - 1) + 1] = <<>>
        /\ \A k \in 1..r - 1 : f[k] = old[k]
    BY <1>7, <2>1, <2>2, AppendProperties
  <2>4. (r - 1) + 1 = r /\ \A k \in 1..r : k = r \/ k \in 1..r - 1
    BY <1>2
  <2> HIDE DEF f
  <2>5. \A k \in 1..r : f[k] = new[k]
    BY <1>10, <1>11, <2>3, <2>4
  <2>6. f = new
    <3>1. f \in Seq(V) /\ new \in Seq(V) /\ Len(f) = r /\ Len(new) = r
      BY <1>8, <2>2, <2>3, <2>4
    <3>2. f = [k \in 1..r |-> f[k]] /\ new = [k \in 1..r |-> new[k]]
      BY <3>1
    <3> QED
      BY <2>5, <3>2
  <2> QED
    BY <2>6 DEF f
<1> QED
  BY <1>12 DEF new, old, v

\* SplitLines drops at most one empty line, the last.
LEMMA SplitLinesIs ==
    ASSUME NEW X, NEW text \in Seq(X)
    PROVE  /\ SplitLines(text) \in Seq(Seq(X))
           /\ Split(text) = SplitLines(text) \/ Split(text) = Append(SplitLines(text), <<>>)
<1> DEFINE lines == Split(text)
           c == Increasing(Ends(text))
           r == Cardinality(Ends(text))
           V == Seq(X)
<1>1. r \in Nat /\ IsCut(text, c, r)
  BY TextIsCut
<1> HIDE DEF c, r
<1>2. AreLines(X, lines, text, c, r)
  BY <1>1, LinesOfCuts
<1> HIDE DEF lines
<1>3. lines \in Seq(V) /\ Len(lines) >= 1
  BY <1>1, <1>2 DEF AreLines, IsCut
<1>4. CASE text = <<>>
  <2>1. Ends(text) = {0, 1} /\ Cardinality({0, 1}) = 2
    <3>1. Ends(text) = {0, 1}
      BY <1>4 DEF Ends
    <3>2. Cardinality(0..1) = IF 0 > 1 THEN 0 ELSE 1 - 0 + 1
      <4>1. 0 \in Int /\ 1 \in Int
        OBVIOUS
      <4> HIDE DEF V
      <4> QED
        BY <4>1, FS_Interval, Zenon
    <3>3. 0..1 = {0, 1}
      OBVIOUS
    <3> QED
      BY <3>1, <3>2, <3>3
  <2>2. r = 2
    BY <2>1 DEF r
  <2>3. Len(lines) = 1 /\ lines[1] \in Seq(X) /\ Len(lines[1]) = 0
    <3>1. c[1] = 0 /\ c[2] = 1
      BY <1>1, <1>4, <2>2 DEF IsCut
    <3>2. 1 \in 1..r - 1
      BY <2>2
    <3>3. Len(lines) = r - 1 /\ lines[1] \in Seq(X) /\ Len(lines[1]) = c[1 + 1] - c[1] - 1
      BY <1>2, <3>2 DEF AreLines
    <3> QED
      BY <2>2, <3>1, <3>3
  <2>4. lines[1] = <<>>
    BY <2>3
  <2>5. lines = Append(<<>>, <<>>)
    BY <1>3, <2>3, <2>4
  <2> QED
    BY <1>4, <2>5 DEF SplitLines, lines
<1>5. CASE text # <<>> /\ Last(lines) = <<>>
  <2> DEFINE f == Front(lines)
             k == Len(lines)
  <2>1. k \in Nat /\ k >= 1 /\ lines[k] = <<>>
    BY <1>3, <1>5 DEF Last
  <2>2. f = SubSeq(lines, 1, k - 1)
    BY DEF Front
  <2> HIDE DEF k, f, V
  <2>3. /\ SubSeq(lines, 1, k - 1) \in Seq(V)
        /\ Len(SubSeq(lines, 1, k - 1)) = k - 1
        /\ \A p \in 1..k - 1 : SubSeq(lines, 1, k - 1)[p] = lines[p]
    <3>1. \A p \in 1..k - 1 : lines[p] \in V
      BY <1>3 DEF k
    <3>2. /\ SubSeq(lines, 1, k - 1) \in Seq(V)
          /\ Len(SubSeq(lines, 1, k - 1)) = IF 1 <= k - 1 THEN (k - 1) - 1 + 1 ELSE 0
          /\ \A p \in 1..(k - 1) - 1 + 1 : SubSeq(lines, 1, k - 1)[p] = lines[1 + p - 1]
      <4>1. 1 \in Int /\ k - 1 \in Int
        BY <2>1
      <4> QED
        BY <3>1, <4>1, SubSeqProperties
    <3>3. (k - 1) - 1 + 1 = k - 1 /\ (1 <= k - 1 \/ k - 1 = 0)
      BY <2>1
    <3>4. \A p \in 1..k - 1 : 1 + p - 1 = p
      BY <2>1
    <3>5. Len(SubSeq(lines, 1, k - 1)) = k - 1
      BY <3>2, <3>3
    <3>6. \A p \in 1..k - 1 : SubSeq(lines, 1, k - 1)[p] = lines[p]
      BY <3>2, <3>3, <3>4
    <3> QED
      BY <3>2, <3>5, <3>6
  <2>4. f \in Seq(V) /\ Len(f) = k - 1 /\ \A p \in 1..k - 1 : f[p] = lines[p]
    BY <2>2, <2>3
  <2> DEFINE g == Append(f, <<>>)
  <2>5. <<>> \in V
    BY DEF V
  <2>6. g \in Seq(V) /\ Len(g) = (k - 1) + 1 /\ g[(k - 1) + 1] = <<>> /\ \A p \in 1..k - 1 : g[p] = f[p]
    BY <2>4, <2>5, AppendProperties
  <2> HIDE DEF g
  <2>7. (k - 1) + 1 = k /\ \A p \in 1..k : p = k \/ p \in 1..k - 1
    BY <2>1
  <2>8. \A p \in 1..k : g[p] = lines[p]
    BY <2>1, <2>4, <2>6, <2>7
  <2>9. g = [p \in 1..k |-> g[p]] /\ lines = [p \in 1..k |-> lines[p]]
    BY <1>3, <2>6, <2>7 DEF k
  <2>10. g = lines
    BY <2>8, <2>9
  <2>11. SplitLines(text) = f
    BY <1>5 DEF SplitLines, f, lines
  <2> QED
    BY <2>4, <2>10, <2>11 DEF g, lines, V
<1>6. CASE text # <<>> /\ Last(lines) # <<>>
  <2>1. SplitLines(text) = lines
    BY <1>6 DEF SplitLines, lines
  <2> QED
    BY <1>3, <2>1 DEF lines
<1> QED
  BY <1>4, <1>5, <1>6

\* A diff without additions and deletions has the same lines on both sides.
LEMMA EmptyDiff ==
    ASSUME NEW X, NEW old \in Seq(X), NEW new \in Seq(X), ~DiffLines(old, new).tooLarge,
           Summarize(DiffLines(old, new).ops) = [added |-> 0, removed |-> 0]
    PROVE  old = new
<1> DEFINE ops == DiffLines(old, new).ops
<1>1. PICK at : Reached(X, old, new, at) /\ ops = at.ops
  BY DiffIsTheWalk, WalkReadsBoth
<1> HIDE DEF ops
<1>2. ops \in Seq(Op(X))
  BY <1>1 DEF Reached
<1>3. Cardinality(OfKind(ops, {"add"})) = 0 /\ Cardinality(OfKind(ops, {"delete"})) = 0
  <2>1. Summarize(ops) = [added |-> 0, removed |-> 0]
    BY DEF ops
  <2> QED
    BY <2>1 DEF Summarize
<1>4. OfKind(ops, {"add"}) = {} /\ OfKind(ops, {"delete"}) = {}
  <2>1. ASSUME NEW kind, Cardinality(OfKind(ops, {kind})) = 0 PROVE OfKind(ops, {kind}) = {}
    <3>1. OfKind(ops, {kind}) \in SUBSET DOMAIN ops
      BY DEF OfKind
    <3>2. IsFiniteSet(OfKind(ops, {kind}))
      BY <1>2, <3>1, EntriesIsSeq
    <3> QED
      BY <2>1, <3>2, FS_EmptySet
  <2> QED
    BY <1>3, <2>1
<1>5. OfKind(ops, {"equal", "delete"}) = OfKind(ops, {"equal", "add"})
  BY <1>4 DEF OfKind
<1>6. /\ TextOf(Entries(ops, OfKind(ops, {"equal", "delete"}))) = old
      /\ TextOf(Entries(ops, OfKind(ops, {"equal", "add"}))) = new
  BY DiffRebuilds DEF RebuildsBothTexts, ops
<1> QED
  BY <1>5, <1>6

\* An empty diff is shown only for texts that are equal up to one newline at
\* the end (SplitLines before DiffLines), for any two texts.
THEOREM DiffHidesNothing ==
    ASSUME NEW X, NL \in X, NEW t \in Seq(X), NEW u \in Seq(X)
    PROVE  ShowsEveryChange(t, u)
<1> SUFFICES ASSUME ~DiffLines(SplitLines(t), SplitLines(u)).tooLarge,
                    Summarize(DiffLines(SplitLines(t), SplitLines(u)).ops) = [added |-> 0, removed |-> 0]
             PROVE  u \in {t, Append(t, NL)} \/ t = Append(u, NL)
  BY DEF ShowsEveryChange
<1> DEFINE V == Seq(X)
           lines == SplitLines(t)
<1>1. SplitLines(t) \in Seq(V) /\ SplitLines(u) \in Seq(V)
  BY SplitLinesIs
<1>2. SplitLines(u) = lines
  <2> HIDE DEF V
  <2> QED
    BY <1>1, EmptyDiff
<1>3. /\ Split(t) = lines \/ Split(t) = Append(lines, <<>>)
      /\ Split(u) = lines \/ Split(u) = Append(lines, <<>>)
  BY <1>2, SplitLinesIs
<1> HIDE DEF lines
<1>4. CASE Split(t) = Split(u)
  BY <1>4, SplitDetermines
<1>5. ASSUME NEW a \in Seq(X), NEW b \in Seq(X), Split(b) = Append(Split(a), <<>>) PROVE b = Append(a, NL)
  <2>1. Split(b) = Split(Append(a, NL)) /\ Append(a, NL) \in Seq(X)
    BY <1>5, NewlineAddsEmptyLine
  <2> QED
    BY <2>1, SplitDetermines
<1> QED
  BY <1>3, <1>4, <1>5
=============================================================================
