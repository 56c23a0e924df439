--------------------------- MODULE HungarianProofs ---------------------------
(***************************************************************************)
(* For every matrix of every size and every rounding: the three loops of   *)
(* solveHungarian end with a column of its own for every row, and what the *)
(* caller reads off them gives no track twice and none that passes no      *)
(* gate.  The costs decide only which column a search takes next; that it  *)
(* ends at a free one, and that the way back from there meets no column    *)
(* twice, rests on the columns used, ordered as they were reached.  The    *)
(* run of the loops is built as a function on the numbers (Iterates); what *)
(* is proved of it by induction is proved of the set of the numbers it     *)
(* holds for, whose complement would have a least member (Induction).      *)
(***************************************************************************)
EXTENDS Hungarian, FiniteSetTheorems, FunctionTheorems, TLAPS
-----------------------------------------------------------------------------
(* Numbers and functions on them.                                          *)

(* The members of a finite set below a number.                             *)
Below(x, S) == {y \in S : y < x}

(* Below a larger member there are more of them.                           *)
LEMMA BelowIncreases ==
  ASSUME NEW S \in SUBSET Int, IsFiniteSet(S),
         NEW x \in S, NEW y \in S, x < y
  PROVE  /\ Cardinality(Below(x, S)) \in Nat
         /\ Cardinality(Below(y, S)) \in Nat
         /\ Cardinality(Below(x, S)) < Cardinality(Below(y, S))
<1> DEFINE low == Below(x, S)
           high == Below(y, S)
<1>1. low \in SUBSET high
  <2>1. \A b, c, d \in Int : b < c /\ c < d => b < d
    OBVIOUS
  <2> QED
    BY <2>1 DEF Below
<1>2. x \in high /\ x \notin low
  BY DEF Below
<1>3. IsFiniteSet(high) /\ IsFiniteSet(low)
  BY FS_Subset DEF Below
<1> HIDE DEF low, high
<1>4. Cardinality(low) <= Cardinality(high)
  BY <1>1, <1>3, FS_Subset
<1>5. Cardinality(high) # Cardinality(low)
  BY <1>1, <1>2, <1>3, FS_Subset
<1>6. Cardinality(low) \in Nat /\ Cardinality(high) \in Nat
  BY <1>3, FS_CardinalityType
<1> QED
  BY <1>4, <1>5, <1>6 DEF low, high

(* A finite set of numbers has a least one: else no member had none below  *)
(* it, and there were too few such cardinalities for all of them.          *)
LEMMA FiniteHasLeast ==
  ASSUME NEW S \in SUBSET Int, IsFiniteSet(S), S # {}
  PROVE  \E x \in S : \A y \in S : x <= y
<1> SUFFICES ASSUME \A x \in S : \E y \in S : ~(x <= y) PROVE FALSE
  OBVIOUS
<1> DEFINE c == Cardinality(S)
           T == 1 .. c - 1
           f == [x \in S |-> Cardinality(Below(x, S))]
<1>1. \A x \in S : x \in Int
  OBVIOUS
<1>2. c \in Nat \ {0}
  BY FS_EmptySet, FS_CardinalityType
<1>3. IsFiniteSet(T) /\ Cardinality(T) < c
  <2>1. c - 1 \in Nat
    BY <1>2
  <2>2. IsFiniteSet(T) /\ Cardinality(T) = c - 1
    BY <2>1, FS_Interval
  <2> HIDE DEF c, T
  <2> QED
    BY <1>2, <2>2
<1>4. ASSUME NEW x \in S PROVE Cardinality(Below(x, S)) \in T
  <2> DEFINE b == Below(x, S)
  <2>1. PICK y \in S : y < x
    BY <1>1
  <2>2. y \in b /\ x \notin b /\ b \in SUBSET S
    BY <1>1, <2>1 DEF Below
  <2> HIDE DEF b
  <2>3. IsFiniteSet(b) /\ Cardinality(b) <= c /\ Cardinality(b) # c
    BY <2>2, FS_Subset
  <2>4. Cardinality(b) \in Nat /\ Cardinality(b) # 0
    BY <2>2, <2>3, FS_EmptySet, FS_CardinalityType
  <2> HIDE DEF c
  <2>5. Cardinality(b) \in 1 .. c - 1
    BY <1>2, <2>3, <2>4
  <2> QED
    BY <2>5 DEF b
<1>5. f \in [S -> T]
  BY <1>4
<1>6. ASSUME NEW x \in S, NEW y \in S, f[x] = f[y] PROVE x = y
  <2>1. Cardinality(Below(x, S)) = Cardinality(Below(y, S))
    BY <1>6
  <2>2. ~(x < y) /\ ~(y < x)
    BY <2>1, BelowIncreases
  <2> QED
    BY <1>1, <2>2
<1> HIDE DEF c, T, f
<1>7. \E x, y \in S : x # y /\ f[x] = f[y]
  BY <1>3, <1>5, FS_PigeonHole DEF c
<1> QED
  BY <1>6, <1>7

(* A set of numbers has a least one.                                       *)
(* It is the minimum.                                                      *)
LEMMA MinIsThere ==
  ASSUME NEW S \in SUBSET Int, IsFiniteSet(S), S # {}
  PROVE  Min(S) \in S
<1>1. \E x \in S : \A y \in S : x <= y
  BY FiniteHasLeast
<1> QED
  BY <1>1 DEF Min

(* A set of numbers has a least one.                                       *)
LEMMA LeastIsThere ==
  ASSUME NEW S \in SUBSET Nat, S # {}
  PROVE  Min(S) \in S /\ \A y \in S : Min(S) <= y
<1>1. PICK n \in S : TRUE
  OBVIOUS
<1> DEFINE low == {y \in S : y <= n}
<1>2. n \in Nat /\ \A y \in S : y \in Nat
  OBVIOUS
<1>3. n \in low
  BY <1>1, <1>2
<1>4. \A x \in low : x \in S /\ x <= n /\ x \in 0 .. n /\ x \in Nat
  BY <1>2
<1>5. \A x \in S : x \in low \/ n < x
  BY <1>2
<1> HIDE DEF low
<1>6. IsFiniteSet(low) /\ low \in SUBSET Nat
  <2>1. IsFiniteSet(0 .. n)
    BY <1>2, FS_Interval
  <2>2. low \in SUBSET (0 .. n)
    BY <1>4
  <2> QED
    BY <1>4, <2>1, <2>2, FS_Subset
<1>7. PICK x \in low : \A y \in low : x <= y
  BY <1>3, <1>6, FiniteHasLeast
<1>8. \A y \in S : x <= y
  <2>1. x \in Nat /\ x <= n
    BY <1>4
  <2> QED
    BY <1>2, <1>5, <1>7, <2>1
<1>9. \E z \in S : \A y \in S : z <= y
  BY <1>4, <1>8
<1> QED
  BY <1>9 DEF Min

(* Induction, over the members of a set.                                   *)
LEMMA Induction ==
  ASSUME NEW T \in SUBSET Nat, 0 \in T, \A n \in T : n + 1 \in T
  PROVE  T = Nat
<1> SUFFICES ASSUME Nat \ T # {} PROVE FALSE
  OBVIOUS
<1> DEFINE m == Min(Nat \ T)
<1>1. m \in Nat \ T /\ \A y \in Nat \ T : m <= y
  BY LeastIsThere
<1> HIDE DEF m
<1>2. m \in Nat /\ m # 0 /\ m - 1 \in Nat
  BY <1>1
<1>3. m - 1 \in T
  BY <1>1, <1>2
<1>4. (m - 1) + 1 = m
  BY <1>2
<1> QED
  BY <1>1, <1>3, <1>4

(* A function on the numbers is given by its first value and its steps.    *)
HasIterates(S, base, G) ==
  \E t \in [Nat -> S] : /\ t[0] = base
                       /\ \A k \in Nat : t[k + 1] = G[k][t[k]]

(* There is one for every first value and every step.                      *)
LEMMA Iterates ==
  ASSUME NEW S, NEW base \in S, NEW G \in [Nat -> [S -> S]]
  PROVE  HasIterates(S, base, G)
<1> DEFINE Fits(t, n) == /\ t \in [0 .. n -> S] /\ t[0] = base
                         /\ \A k \in 0 .. n - 1 : t[k + 1] = G[k][t[k]]
           T == {n \in Nat : \E t : Fits(t, n)}
<1>1. T = Nat
  <2>1. 0 \in T
    <3>1. Fits([k \in 0 .. 0 |-> base], 0)
      OBVIOUS
    <3> QED
      BY <3>1
  <2>2. ASSUME NEW n \in T PROVE n + 1 \in T
    <3>1. PICK t : Fits(t, n)
      BY <2>2
    <3>2. n \in Nat
      OBVIOUS
    <3> DEFINE r == [k \in 0 .. n + 1 |->
                       IF k <= n THEN t[k] ELSE G[n][t[n]]]
    <3>3. t[n] \in S /\ G[n][t[n]] \in S
      BY <3>1, <3>2
    <3>4. r \in [0 .. n + 1 -> S] /\ r[0] = base
      BY <3>1, <3>2, <3>3
    <3>5. \A k \in 0 .. (n + 1) - 1 : r[k + 1] = G[k][r[k]]
      BY <3>1, <3>2
    <3>6. Fits(r, n + 1)
      BY <3>4, <3>5
    <3> HIDE DEF Fits, r
    <3> QED
      BY <3>2, <3>6
  <2> HIDE DEF T
  <2>3. T \in SUBSET Nat
    BY DEF T
  <2> QED
    BY <2>1, <2>2, <2>3, Induction
<1> DEFINE t == [n \in Nat |-> CHOOSE f : Fits(f, n)]
<1>2. \A n \in Nat : Fits(t[n], n)
  BY <1>1
<1>3. ASSUME NEW n \in Nat, NEW f, NEW g, Fits(f, n), Fits(g, n + 1)
      PROVE  f[n] = g[n]
  <2> DEFINE U == {k \in Nat : k <= n => f[k] = g[k]}
  <2>1. 0 \in U
    BY <1>3
  <2>2. ASSUME NEW k \in U PROVE k + 1 \in U
    <3> SUFFICES ASSUME k + 1 <= n PROVE f[k + 1] = g[k + 1]
      BY <2>2
    <3>1. k \in 0 .. n - 1 /\ k \in 0 .. (n + 1) - 1 /\ f[k] = g[k]
      BY <2>2
    <3> QED
      BY <1>3, <3>1
  <2> HIDE DEF U
  <2>3. U = Nat
    <3>1. U \in SUBSET Nat
      BY DEF U
    <3> QED
      BY <2>1, <2>2, <3>1, Induction
  <2> QED
    BY <2>3 DEF U
<1> HIDE DEF t
<1> DEFINE s == [n \in Nat |-> t[n][n]]
<1>4. s \in [Nat -> S] /\ s[0] = base
  BY <1>2
<1>5. ASSUME NEW k \in Nat PROVE s[k + 1] = G[k][s[k]]
  <2>1. k \in 0 .. (k + 1) - 1
    OBVIOUS
  <2>2. t[k + 1][k + 1] = G[k][t[k + 1][k]]
    BY <1>2, <2>1
  <2>3. t[k][k] = t[k + 1][k]
    <3>1. Fits(t[k], k) /\ Fits(t[k + 1], k + 1)
      BY <1>2
    <3> HIDE DEF Fits
    <3> QED
      BY <1>3, <3>1
  <2> QED
    BY <2>2, <2>3
<1> QED
  BY <1>4, <1>5 DEF HasIterates

-----------------------------------------------------------------------------
(* Rounding comes to a number, whatever the floats.                        *)
LEMMA FlIsInt ==
  ASSUME NEW x \in Int
  PROVE  Fl(x) \in Int
<1> DEFINE apart == {s \in Spacings : -(s * Significand) < x
                                        /\ x < s * Significand}
<1>1. apart \in SUBSET (Nat \ {0})
  BY HungarianAssumption
<1>2. Fl(x) = IF apart = {} THEN x ELSE Multiple(x, Min(apart))
  BY DEF Fl
<1> HIDE DEF apart
<1>3. ASSUME NEW s \in Nat \ {0} PROVE Multiple(x, s) \in Int
  <2> DEFINE below == x \div s
  <2>1. below \in Int
    OBVIOUS
  <2>2. \A y, z \in Int : y * z \in Int
    OBVIOUS
  <2>3. below * s \in Int /\ (below + 1) * s \in Int
    BY <2>1, <2>2
  <2>4. Multiple(x, s) = below * s \/ Multiple(x, s) = (below + 1) * s
    BY DEF Multiple
  <2> HIDE DEF below
  <2> QED
    BY <2>3, <2>4
<1>4. ASSUME apart # {} PROVE Multiple(x, Min(apart)) \in Int
  <2>1. apart \in SUBSET Nat
    BY <1>1
  <2>2. Min(apart) \in apart
    BY <1>4, <2>1, LeastIsThere
  <2>3. Min(apart) \in Nat \ {0}
    BY <1>1, <2>2
  <2> QED
    BY <1>3, <2>3
<1> QED
  BY <1>2, <1>4

-----------------------------------------------------------------------------
(* The state of the loops.                                                 *)

(* A square matrix of costs.                                               *)
Matrices(n) == [1 .. n -> [1 .. n -> Nat]]

(* The local variables, as the loops leave them.                           *)
States(n) ==
  [row : 1 .. n, phase : {"search", "augment", "done"}, j0 : 0 .. n,
   used : SUBSET (0 .. n), u : [0 .. n -> Int], v : [0 .. n -> Int],
   p : [0 .. n -> 0 .. n], way : [0 .. n -> 0 .. n],
   minv : [0 .. n -> Int \cup {Infinite}]]

(* The columns but the one left free, the hole.                            *)
Columns(n, hole) == {j \in 0 .. n : j # hole}

(* The rows begun have one column each, besides the hole.                  *)
Matching(n, s, hole) ==
  /\ \A j \in 0 .. n : s.p[j] <= s.row
  /\ \A i \in 1 .. s.row : \E j \in Columns(n, hole) : s.p[j] = i
  /\ \A j, k \in Columns(n, hole) : s.p[j] = s.p[k] /\ s.p[j] # 0 => j = k

(* When a column was reached, as a number.                                 *)
Orders(n) == [0 .. n -> 0 .. n]

(* The way into a column reached comes from one used before.               *)
Path(n, s, ord) ==
  \A k \in 1 .. n : (k \in s.used \/ k = s.j0) /\ ord[k] <= ord[s.j0] =>
    /\ s.way[k] \in s.used
    /\ ord[s.way[k]] < ord[k]
    /\ s.p[s.way[k]] # 0

(* The search stands at a column reached last, and began at the column 0.  *)
Reached(n, s, ord) ==
  /\ s.p[0] = s.row /\ s.p[s.j0] # 0 /\ s.j0 \notin s.used
  /\ \A k \in s.used : s.p[k] # 0 /\ ord[k] < ord[s.j0]
  /\ ord[s.j0] = Cardinality(s.used)
  /\ IF s.used = {} THEN s.j0 = 0 ELSE 0 \in s.used

(* The cheapest ways so far come from columns used.                        *)
Relaxations(n, s) ==
  \A j \in 1 .. n : j \notin s.used =>
    IF s.used = {} THEN s.minv[j] = Infinite
    ELSE s.way[j] \in s.used /\ s.minv[j] \in Int

(* The invariant of the search.                                            *)
SearchInv(n, s, ord) ==
  /\ s \in States(n) /\ s.phase = "search"
  /\ Matching(n, s, -1) /\ Path(n, s, ord)
  /\ Reached(n, s, ord) /\ Relaxations(n, s)

(* The search never runs out of columns: those it used have rows of their  *)
(* own, and there is one column more than rows.                            *)
LEMMA ColumnIsFree ==
  ASSUME NEW n \in Nat \ {0}, NEW s, NEW ord,
         SearchInv(n, s, ord)
  PROVE  (1 .. n) \ (s.used \cup {s.j0}) # {}
<1> SUFFICES ASSUME (1 .. n) \ (s.used \cup {s.j0}) = {} PROVE FALSE
  OBVIOUS
<1>1. /\ s.p \in [0 .. n -> 0 .. n]
      /\ s.used \subseteq 0 .. n /\ s.j0 \in 0 .. n
  BY DEF SearchInv, States
<1>2. 0 \in s.used \cup {s.j0}
  BY DEF SearchInv, Reached
<1>3. \A k \in 0 .. n : k \in s.used \cup {s.j0}
  <2>1. \A k \in 0 .. n : k = 0 \/ k \in 1 .. n
    OBVIOUS
  <2> QED
    BY <1>2, <2>1
<1>4. \A k \in 0 .. n : s.p[k] \in 1 .. n
  <2>1. \A k \in 0 .. n : s.p[k] # 0
    BY <1>3 DEF SearchInv, Reached
  <2>2. \A k \in 0 .. n : s.p[k] \in 0 .. n
    BY <1>1
  <2>3. \A x \in 0 .. n : x # 0 => x \in 1 .. n
    OBVIOUS
  <2> QED
    BY <2>1, <2>2, <2>3
<1>5. \A j, k \in 0 .. n : s.p[j] = s.p[k] => j = k
  <2>1. \A j \in 0 .. n : j \in Columns(n, -1)
    BY DEF Columns
  <2> QED
    BY <1>4, <2>1 DEF SearchInv, Matching
<1> DEFINE S == 0 .. n
           T == 1 .. n
<1>6. /\ IsFiniteSet(S) /\ IsFiniteSet(T)
      /\ Cardinality(T) < Cardinality(S)
  <2>1. IsFiniteSet(S) /\ Cardinality(S) = n + 1
    BY FS_Interval
  <2>2. IsFiniteSet(T) /\ Cardinality(T) = n
    BY FS_Interval
  <2> HIDE DEF S, T
  <2> QED
    BY <2>1, <2>2
<1>7. s.p \in [S -> T]
  BY <1>1, <1>4
<1>8. \A j, k \in S : s.p[j] = s.p[k] => j = k
  BY <1>5
<1> HIDE DEF S, T
<1>9. \E x, y \in S : x # y /\ s.p[x] = s.p[y]
  BY <1>6, <1>7, FS_PigeonHole
<1> QED
  BY <1>8, <1>9

(* What a column is relaxed to: a cost, over one of the columns used.      *)
LEMMA RelaxedWay ==
  ASSUME NEW n \in Nat \ {0}, NEW a \in Matrices(n), NEW s, NEW ord,
         SearchInv(n, s, ord),
         NEW j \in (1 .. n) \ (s.used \cup {s.j0})
  PROVE  /\ Relaxed(a, s, j).cost \in Int
         /\ Relaxed(a, s, j).from \in s.used \cup {s.j0}
<1> DEFINE way == Relaxed(a, s, j)
           cur == Fl(Fl(a[s.p[s.j0]][j] - s.u[s.p[s.j0]]) - s.v[j])
<1>1. /\ s.p \in [0 .. n -> 0 .. n] /\ s.j0 \in 0 .. n
      /\ s.u \in [0 .. n -> Int] /\ s.v \in [0 .. n -> Int]
      /\ j \in 1 .. n /\ j \notin s.used
  BY DEF SearchInv, States
<1>2. s.p[s.j0] \in 1 .. n
  <2>1. s.p[s.j0] \in 0 .. n /\ s.p[s.j0] # 0
    BY <1>1 DEF SearchInv, Reached
  <2>2. \A x \in 0 .. n : x # 0 => x \in 1 .. n
    OBVIOUS
  <2> QED
    BY <2>1, <2>2
<1>3. cur \in Int
  <2> DEFINE i == s.p[s.j0]
  <2>0. \A x \in 1 .. n : x \in 0 .. n
    OBVIOUS
  <2>1. i \in 1 .. n /\ i \in 0 .. n /\ j \in 0 .. n
    BY <1>1, <1>2, <2>0
  <2> HIDE DEF i
  <2>2. a[i][j] \in Int /\ s.u[i] \in Int /\ s.v[j] \in Int
    <3>1. a[i][j] \in Nat
      BY <1>1, <2>1 DEF Matrices
    <3>2. s.u[i] \in Int
      BY <1>1, <2>1
    <3>3. s.v[j] \in Int
      BY <1>1, <2>1
    <3> QED
      BY <3>1, <3>2, <3>3
  <2>3. a[i][j] - s.u[i] \in Int
    BY <2>2
  <2>4. Fl(a[i][j] - s.u[i]) \in Int
    BY <2>3, FlIsInt
  <2>5. Fl(a[i][j] - s.u[i]) - s.v[j] \in Int
    BY <2>2, <2>4
  <2>6. Fl(Fl(a[i][j] - s.u[i]) - s.v[j]) \in Int
    BY <2>5, FlIsInt
  <2> QED
    BY <2>6 DEF i
<1>4. way = IF s.minv[j] = Infinite \/ cur < s.minv[j]
              THEN [cost |-> cur, from |-> s.j0]
              ELSE [cost |-> s.minv[j], from |-> s.way[j]]
  BY DEF Relaxed
<1>5. IF s.used = {} THEN s.minv[j] = Infinite
      ELSE s.way[j] \in s.used /\ s.minv[j] \in Int
  BY <1>1 DEF SearchInv, Relaxations
<1> HIDE DEF way, cur
<1>6. CASE s.minv[j] = Infinite \/ cur < s.minv[j]
  <2>1. way = [cost |-> cur, from |-> s.j0]
    BY <1>4, <1>6
  <2>2. way.cost \in Int /\ way.from \in s.used \cup {s.j0}
    BY <1>3, <2>1
  <2> QED
    BY <2>2 DEF way
<1>7. CASE ~(s.minv[j] = Infinite \/ cur < s.minv[j])
  <2>1. way = [cost |-> s.minv[j], from |-> s.way[j]]
    BY <1>4, <1>7
  <2>2. s.way[j] \in s.used /\ s.minv[j] \in Int
    BY <1>5, <1>7
  <2>3. way.cost \in Int /\ way.from \in s.used \cup {s.j0}
    BY <2>1, <2>2
  <2> QED
    BY <2>3 DEF way
<1> QED
  BY <1>6, <1>7

(* What one round of the search does.                                      *)
Relaxation(n, s, t) ==
  /\ t \in States(n) /\ t.row = s.row /\ t.p = s.p
  /\ t.used = s.used \cup {s.j0}
  /\ t.j0 \in (1 .. n) \ t.used
  /\ t.phase = IF s.p[t.j0] = 0 THEN "augment" ELSE "search"
  /\ \A j \in 0 .. n : j \in t.used => t.way[j] = s.way[j]
  /\ \A j \in (1 .. n) \ t.used : t.minv[j] \in Int /\ t.way[j] \in t.used

LEMMA AdvanceIsARound ==
  ASSUME NEW n \in Nat \ {0}, NEW a \in Matrices(n), NEW s, NEW ord,
         SearchInv(n, s, ord)
  PROVE  Relaxation(n, s, Advance(a, n, s))
<1> DEFINE used == s.used \cup {s.j0}
           free == (1 .. n) \ used
           best == [j \in free |-> Relaxed(a, s, j)]
           costs == {best[j].cost : j \in free}
           delta == Min(costs)
           least == {j \in free : best[j].cost = delta}
           next == Min(least)
           t == Advance(a, n, s)
<1>1. /\ s \in States(n)
      /\ used \subseteq 0 .. n /\ free \subseteq 1 .. n
      /\ s.u \in [0 .. n -> Int] /\ s.v \in [0 .. n -> Int]
      /\ s.p \in [0 .. n -> 0 .. n] /\ s.way \in [0 .. n -> 0 .. n]
      /\ s.minv \in [0 .. n -> Int \cup {Infinite}]
      /\ s.row \in 1 .. n
  BY DEF SearchInv, States
<1>2. free # {} /\ \A j \in free : j \in Nat /\ j \in 0 .. n /\ j \notin used
  BY ColumnIsFree
<1>3. \A j \in free : best[j].cost \in Int /\ best[j].from \in used
  <2> SUFFICES ASSUME NEW j \in free
               PROVE  best[j].cost \in Int /\ best[j].from \in used
    OBVIOUS
  <2>1. best[j] = Relaxed(a, s, j)
    OBVIOUS
  <2>2. /\ Relaxed(a, s, j).cost \in Int
        /\ Relaxed(a, s, j).from \in used
    BY RelaxedWay
  <2> HIDE DEF best
  <2> QED
    BY <2>1, <2>2
<1>4. t = [s EXCEPT
        !.used = used,
        !.u = Raised(s, used, delta),
        !.v = [j \in 0 .. n |->
                 IF j \in used THEN Fl(@[j] - delta) ELSE @[j]],
        !.minv = [j \in 0 .. n |->
                    IF j \in free THEN Fl(best[j].cost - delta) ELSE @[j]],
        !.way = [j \in 0 .. n |-> IF j \in free THEN best[j].from ELSE @[j]],
        !.j0 = next,
        !.phase = IF s.p[next] = 0 THEN "augment" ELSE "search"]
  BY DEF Advance
<1> HIDE DEF best
<1>5. delta \in costs /\ delta \in Int
  <2>1. costs \in SUBSET Int /\ costs # {}
    BY <1>2, <1>3
  <2>2. IsFiniteSet(costs)
    <3>1. IsFiniteSet(1 .. n)
      BY FS_Interval
    <3>2. IsFiniteSet(free)
      BY <1>1, <3>1, FS_Subset
    <3> DEFINE f == [j \in free |-> best[j].cost]
    <3>3. f \in Surjection(free, costs)
      BY DEF Surjection
    <3> HIDE DEF f, costs, free
    <3> QED
      BY <3>2, <3>3, FS_Surjection
  <2> HIDE DEF costs
  <2> QED
    BY <2>1, <2>2, MinIsThere
<1>6. next \in free
  <2>1. least # {}
    BY <1>5
  <2>2. least \in SUBSET Nat
    BY <1>2
  <2>3. next \in least
    <3> HIDE DEF least
    <3> QED
      BY <2>1, <2>2, LeastIsThere
  <2> QED
    BY <2>3
<1> HIDE DEF costs, delta, least, next
<1>7. Raised(s, used, delta) \in [0 .. n -> Int]
  <2>1. DOMAIN s.u = 0 .. n
    BY <1>1
  <2>2. Raised(s, used, delta) = [i \in 0 .. n |->
          IF \E k \in used : s.p[k] = i THEN Fl(s.u[i] + delta) ELSE s.u[i]]
    BY <2>1 DEF Raised
  <2>3. \A i \in 0 .. n : s.u[i] \in Int /\ Fl(s.u[i] + delta) \in Int
    <3>1. \A i \in 0 .. n : s.u[i] \in Int
      BY <1>1
    <3>2. \A x \in Int : x + delta \in Int
      BY <1>5
    <3>3. \A x \in Int : Fl(x) \in Int
      BY FlIsInt
    <3> QED
      BY <3>1, <3>2, <3>3
  <2> HIDE DEF used
  <2> QED
    BY <2>2, <2>3
<1> DEFINE v == [j \in 0 .. n |->
                   IF j \in used THEN Fl(s.v[j] - delta) ELSE s.v[j]]
           minv == [j \in 0 .. n |->
                      IF j \in free THEN Fl(best[j].cost - delta)
                                    ELSE s.minv[j]]
           way == [j \in 0 .. n |->
                     IF j \in free THEN best[j].from ELSE s.way[j]]
<1>8. /\ t.used = used /\ t.u = Raised(s, used, delta) /\ t.j0 = next
      /\ t.row = s.row /\ t.p = s.p
      /\ t.phase = IF s.p[next] = 0 THEN "augment" ELSE "search"
      /\ t.v = v /\ t.minv = minv /\ t.way = way
      /\ t = [row |-> t.row, phase |-> t.phase, j0 |-> t.j0,
              used |-> t.used, u |-> t.u, v |-> t.v, p |-> t.p,
              way |-> t.way, minv |-> t.minv]
  BY <1>1, <1>4 DEF States
<1>9. \A x \in Int : Fl(x - delta) \in Int
  <2>1. \A x \in Int : x - delta \in Int
    BY <1>5
  <2>2. \A x \in Int : Fl(x) \in Int
    BY FlIsInt
  <2> QED
    BY <2>1, <2>2
<1>10. \A j \in free : /\ best[j].from \in 0 .. n
                       /\ Fl(best[j].cost - delta) \in Int
  <2>1. \A k \in used : k \in 0 .. n
    BY <1>1
  <2> HIDE DEF free, used, v, minv, way
  <2> QED
    BY <1>3, <1>9, <2>1
<1>11. /\ v \in [0 .. n -> Int]
       /\ minv \in [0 .. n -> Int \cup {Infinite}]
       /\ way \in [0 .. n -> 0 .. n]
  <2> HIDE DEF free, used
  <2>1. v \in [0 .. n -> Int]
    <3>1. \A j \in 0 .. n : s.v[j] \in Int
      BY <1>1
    <3> QED
      BY <1>9, <3>1
  <2>2. minv \in [0 .. n -> Int \cup {Infinite}]
    BY <1>1, <1>10
  <2>3. way \in [0 .. n -> 0 .. n]
    BY <1>1, <1>10
  <2> QED
    BY <2>1, <2>2, <2>3
<1>12. t.phase \in {"search", "augment", "done"} /\ t.j0 \in 0 .. n
  BY <1>2, <1>6, <1>8
<1>13. t \in States(n)
  <2> HIDE DEF t, v, minv, way, used
  <2>1. t.used \in SUBSET (0 .. n)
    BY <1>1, <1>8 DEF used
  <2> QED
    BY <1>1, <1>7, <1>8, <1>11, <1>12, <2>1 DEF States
<1>14. \A j \in 0 .. n : j \in used => way[j] = s.way[j]
  OBVIOUS
<1>15. \A j \in free : minv[j] \in Int /\ way[j] \in used
  BY <1>2, <1>3, <1>10
<1> HIDE DEF t, v, minv, way, used
<1>16. Relaxation(n, s, t)
  <2>1. free = (1 .. n) \ t.used /\ t.used = used
    BY <1>8
  <2>2. t.used = s.used \cup {s.j0}
    BY <1>8 DEF used
  <2> HIDE DEF free
  <2>3. t.j0 \in (1 .. n) \ t.used
    BY <1>6, <1>8, <2>1
  <2>4. \A j \in 0 .. n : j \in t.used => t.way[j] = s.way[j]
    BY <1>8, <1>14
  <2>5. \A j \in (1 .. n) \ t.used :
          t.minv[j] \in Int /\ t.way[j] \in t.used
    BY <1>8, <1>15, <2>1
  <2>6. t.phase = IF s.p[t.j0] = 0 THEN "augment" ELSE "search"
    BY <1>8
  <2> QED
    BY <1>8, <1>13, <2>2, <2>3, <2>4, <2>5, <2>6 DEF Relaxation
<1> QED
  BY <1>16 DEF t

(* The matching does not change in a search.                               *)
LEMMA RelaxedStaysMatched ==
  ASSUME NEW n \in Nat \ {0}, NEW a \in Matrices(n), NEW s, NEW ord,
         SearchInv(n, s, ord),
         NEW t, Relaxation(n, s, t)
  PROVE  /\ Matching(n, t, -1)
         /\ s.p[t.j0] = 0 => Matching(n, t, t.j0)
<1>1. /\ t.p = s.p /\ t.row = s.row /\ Matching(n, s, -1)
      /\ s.row \in 1 .. n
  BY DEF Relaxation, SearchInv, States
<1>2. \A j \in 0 .. n : j \in Columns(n, -1)
  BY DEF Columns
<1>4. \A h : \A j \in Columns(n, h) : j \in 0 .. n
  BY DEF Columns
<1>5. \A j \in 0 .. n : t.p[j] <= t.row
  BY <1>1 DEF Matching
<1>6. \A i \in 1 .. t.row : \E j \in 0 .. n : t.p[j] = i
  BY <1>1, <1>4 DEF Matching
<1>7. \A j, k \in 0 .. n : t.p[j] = t.p[k] /\ t.p[j] # 0 => j = k
  BY <1>1, <1>2 DEF Matching
<1>8. Matching(n, t, -1)
  BY <1>1, <1>2, <1>4, <1>5, <1>6, <1>7 DEF Matching
<1>9. ASSUME s.p[t.j0] = 0 PROVE Matching(n, t, t.j0)
  <2>1. \A i \in 1 .. t.row : \E j \in Columns(n, t.j0) : t.p[j] = i
    <3>1. \A i \in 1 .. t.row : i # 0
      BY <1>1
    <3> QED
      BY <1>1, <1>6, <1>9, <3>1 DEF Columns
  <2> QED
    BY <1>1, <1>4, <1>5, <1>7, <2>1 DEF Matching
<1> QED
  BY <1>8, <1>9

(* One more column is used, and one at least is left.                      *)
LEMMA RelaxedCount ==
  ASSUME NEW n \in Nat \ {0}, NEW a \in Matrices(n), NEW s, NEW ord,
         SearchInv(n, s, ord),
         NEW t, Relaxation(n, s, t)
  PROVE  /\ Cardinality(s.used) \in Nat
         /\ Cardinality(t.used) = Cardinality(s.used) + 1
         /\ Cardinality(t.used) <= n
<1>1. /\ s.used \in SUBSET (0 .. n) /\ t.used = s.used \cup {s.j0}
      /\ s.j0 \notin s.used
      /\ t.used \in SUBSET (0 .. n) /\ t.j0 \in 1 .. n /\ t.j0 \notin t.used
  BY DEF SearchInv, States, Reached, Relaxation
<1>2. /\ IsFiniteSet(0 .. n) /\ Cardinality(0 .. n) = n + 1
  BY FS_Interval
<1>3. IsFiniteSet(s.used) /\ IsFiniteSet(t.used)
  BY <1>1, <1>2, FS_Subset
<1>4. Cardinality(t.used) = Cardinality(s.used) + 1
  BY <1>1, <1>3, FS_AddElement
<1>5. Cardinality(t.used) <= Cardinality((0 .. n) \ {t.j0})
  <2>1. IsFiniteSet((0 .. n) \ {t.j0})
    BY <1>2, FS_RemoveElement
  <2>2. t.used \in SUBSET ((0 .. n) \ {t.j0})
    BY <1>1
  <2> QED
    BY <2>1, <2>2, FS_Subset
<1>6. Cardinality((0 .. n) \ {t.j0}) = n
  <2>1. t.j0 \in 0 .. n
    BY <1>1
  <2>2. \A x \in 0 .. n :
          Cardinality((0 .. n) \ {x}) = Cardinality(0 .. n) - 1
    BY <1>2, FS_RemoveElement
  <2> QED
    BY <1>2, <2>1, <2>2
<1>7. Cardinality(s.used) \in Nat
  BY <1>3, FS_CardinalityType
<1> QED
  BY <1>4, <1>5, <1>6, <1>7

(* The number of columns used orders them: each is reached from an earlier *)
(* one.                                                                    *)
LEMMA RelaxedOrder ==
  ASSUME NEW n \in Nat \ {0}, NEW a \in Matrices(n), NEW s,
         NEW ord \in Orders(n), SearchInv(n, s, ord),
         NEW t, Relaxation(n, s, t)
  PROVE  [ord EXCEPT ![t.j0] = ord[s.j0] + 1] \in Orders(n)
<1>1. ord[s.j0] = Cardinality(s.used)
  BY DEF SearchInv, Reached
<1>2. /\ Cardinality(s.used) \in Nat
      /\ Cardinality(t.used) = Cardinality(s.used) + 1
      /\ Cardinality(t.used) <= n
  BY RelaxedCount
<1>3. ord[s.j0] + 1 \in 0 .. n
  BY <1>1, <1>2
<1> QED
  BY <1>3 DEF Orders

(* The invariant of the way back: the column j0 is the hole.               *)
AugmentInv(n, s, ord) ==
  /\ s \in States(n) /\ s.phase = "augment" /\ s.j0 # 0
  /\ Matching(n, s, s.j0) /\ Path(n, s, ord)

(* The columns used.                                                       *)
LEMMA UsedColumns ==
  ASSUME NEW n \in Nat \ {0}, NEW a \in Matrices(n), NEW s,
         NEW ord \in Orders(n), SearchInv(n, s, ord),
         NEW t, Relaxation(n, s, t),
         NEW k \in t.used
  PROVE  /\ k \in 0 .. n /\ s.p[k] \in 1 .. n /\ k # t.j0
         /\ ord[k] \in Nat /\ ord[s.j0] \in Nat /\ ord[k] <= ord[s.j0]
<1>1. /\ t.used = s.used \cup {s.j0} /\ t.j0 \notin t.used
      /\ s \in States(n) /\ t \in States(n)
  BY DEF SearchInv, Relaxation
<1>2. s.p \in [0 .. n -> 0 .. n] /\ t.used \in SUBSET (0 .. n)
      /\ s.j0 \in 0 .. n
  BY <1>1 DEF States
<1>3. k \in 0 .. n /\ k # t.j0
  BY <1>1, <1>2
<1>4. s.p[k] # 0
  BY <1>1 DEF SearchInv, Reached
<1>5. s.p[k] \in 1 .. n
  <2>1. s.p[k] \in 0 .. n
    BY <1>2, <1>3
  <2> QED
    BY <1>4, <2>1
<1>6. ord[k] \in Nat /\ ord[s.j0] \in Nat
  BY <1>2, <1>3 DEF Orders
<1>7. ord[k] <= ord[s.j0]
  <2>1. CASE k = s.j0
    BY <1>6, <2>1
  <2>2. CASE k \in s.used
    BY <1>6, <2>2 DEF SearchInv, Reached
  <2> QED
    BY <1>1, <2>1, <2>2
<1> QED
  BY <1>3, <1>5, <1>6, <1>7

(* The ways into the columns reached stay, and the column reached now has  *)
(* one.                                                                    *)
LEMMA RelaxedPath ==
  ASSUME NEW n \in Nat \ {0}, NEW a \in Matrices(n), NEW s,
         NEW ord \in Orders(n), SearchInv(n, s, ord),
         NEW t, Relaxation(n, s, t)
  PROVE  Path(n, t, [ord EXCEPT ![t.j0] = ord[s.j0] + 1])
<1> DEFINE ord2 == [ord EXCEPT ![t.j0] = ord[s.j0] + 1]
<1>1. /\ t.used = s.used \cup {s.j0} /\ t.p = s.p
      /\ t.j0 \in 1 .. n /\ t.j0 \notin t.used
  BY DEF Relaxation
<1>2. \A k \in t.used :
        /\ k \in 0 .. n /\ s.p[k] \in 1 .. n /\ k # t.j0
        /\ ord[k] \in Nat /\ ord[s.j0] \in Nat /\ ord[k] <= ord[s.j0]
  BY UsedColumns
<1>4. /\ ord2[t.j0] = ord[s.j0] + 1
      /\ \A k \in t.used : ord2[k] = ord[k]
  <2>1. DOMAIN ord = 0 .. n /\ t.j0 \in 0 .. n
    BY <1>1 DEF Orders
  <2> QED
    BY <1>1, <1>2, <2>1
<1> HIDE DEF ord2
<1>5. ASSUME NEW k \in 1 .. n, k \in t.used
      PROVE  /\ t.way[k] \in t.used
             /\ ord2[t.way[k]] < ord2[k]
             /\ t.p[t.way[k]] # 0
  <2>1. t.way[k] = s.way[k]
    BY <1>2, <1>5 DEF Relaxation
  <2>2. s.way[k] \in s.used /\ ord[s.way[k]] < ord[k]
    BY <1>1, <1>2, <1>5 DEF SearchInv, Path
  <2>3. s.way[k] \in t.used
    BY <1>1, <2>2
  <2>4. s.p[s.way[k]] # 0
    BY <1>2, <2>3
  <2> QED
    BY <1>1, <1>4, <1>5, <2>1, <2>2, <2>3, <2>4
<1>6. /\ t.way[t.j0] \in t.used
      /\ ord2[t.way[t.j0]] < ord2[t.j0]
      /\ t.p[t.way[t.j0]] # 0
  <2>1. t.way[t.j0] \in t.used
    BY <1>1 DEF Relaxation
  <2>3. ord2[t.way[t.j0]] < ord2[t.j0]
    BY <1>2, <1>4, <2>1
  <2>4. s.p[t.way[t.j0]] # 0
    BY <1>2, <2>1
  <2> QED
    BY <1>1, <2>1, <2>3, <2>4
<1>7. Path(n, t, ord2)
  BY <1>5, <1>6 DEF Path
<1> QED
  BY <1>7 DEF ord2

(* What is known of the columns used is known of one more.                 *)
LEMMA RelaxedReach ==
  ASSUME NEW n \in Nat \ {0}, NEW a \in Matrices(n), NEW s,
         NEW ord \in Orders(n), SearchInv(n, s, ord),
         NEW t, Relaxation(n, s, t),
         t.phase = "search"
  PROVE  /\ Reached(n, t, [ord EXCEPT ![t.j0] = ord[s.j0] + 1])
         /\ Relaxations(n, t)
<1> DEFINE ord2 == [ord EXCEPT ![t.j0] = ord[s.j0] + 1]
<1>1. /\ t.used = s.used \cup {s.j0} /\ t.p = s.p /\ t.row = s.row
      /\ t.j0 \in 1 .. n /\ t.j0 \notin t.used
      /\ t.phase = IF s.p[t.j0] = 0 THEN "augment" ELSE "search"
  BY DEF Relaxation
<1>2. \A k \in t.used :
        /\ k \in 0 .. n /\ s.p[k] \in 1 .. n /\ k # t.j0
        /\ ord[k] \in Nat /\ ord[s.j0] \in Nat /\ ord[k] <= ord[s.j0]
  BY UsedColumns
<1>4. /\ ord2[t.j0] = ord[s.j0] + 1
      /\ \A k \in t.used : ord2[k] = ord[k]
  <2>1. DOMAIN ord = 0 .. n /\ t.j0 \in 0 .. n
    BY <1>1 DEF Orders
  <2> QED
    BY <1>1, <1>2, <2>1
<1> HIDE DEF ord2
<1>5. /\ s.p[0] = s.row /\ ord[s.j0] = Cardinality(s.used)
      /\ IF s.used = {} THEN s.j0 = 0 ELSE 0 \in s.used
  BY DEF SearchInv, Reached
<1>6. t.p[0] = t.row /\ 0 \in t.used
  BY <1>1, <1>5
<1>7. t.p[t.j0] # 0
  BY <1>1
<1>8. \A k \in t.used : t.p[k] # 0 /\ ord2[k] < ord2[t.j0]
  <2>1. \A k \in t.used : s.p[k] # 0 /\ ord[k] < ord[s.j0] + 1
    BY <1>2
  <2> QED
    BY <1>1, <1>4, <2>1
<1>9. ord2[t.j0] = Cardinality(t.used)
  <2>1. Cardinality(t.used) = Cardinality(s.used) + 1
    BY RelaxedCount
  <2> QED
    BY <1>4, <1>5, <2>1
<1>10. Reached(n, t, ord2)
  BY <1>1, <1>6, <1>7, <1>8, <1>9 DEF Reached
<1>11. \A j \in 1 .. n : j \notin t.used =>
         t.way[j] \in t.used /\ t.minv[j] \in Int
  BY DEF Relaxation
<1>12. Relaxations(n, t)
  BY <1>6, <1>11 DEF Relaxations
<1> QED
  BY <1>10, <1>12 DEF ord2

(* A round of the search keeps its invariant, and what it finds when it    *)
(* ends is a path back to the column 0.                                    *)
LEMMA SearchStep ==
  ASSUME NEW n \in Nat \ {0}, NEW a \in Matrices(n), NEW s,
         NEW ord \in Orders(n), SearchInv(n, s, ord),
         NEW t, Relaxation(n, s, t)
  PROVE  LET ord2 == [ord EXCEPT ![t.j0] = ord[s.j0] + 1]
         IN \/ t.phase = "search" /\ SearchInv(n, t, ord2)
            \/ t.phase = "augment" /\ AugmentInv(n, t, ord2)
<1> DEFINE ord2 == [ord EXCEPT ![t.j0] = ord[s.j0] + 1]
<1>1. /\ t \in States(n) /\ t.j0 # 0
      /\ t.phase = IF s.p[t.j0] = 0 THEN "augment" ELSE "search"
  BY DEF Relaxation
<1>3. /\ Matching(n, t, -1)
      /\ s.p[t.j0] = 0 => Matching(n, t, t.j0)
  BY RelaxedStaysMatched
<1>4. Path(n, t, ord2)
  BY RelaxedPath
<1>5. t.phase = "search" => Reached(n, t, ord2) /\ Relaxations(n, t)
  BY RelaxedReach
<1> HIDE DEF ord2
<1>6. \/ t.phase = "search" /\ SearchInv(n, t, ord2)
      \/ t.phase = "augment" /\ AugmentInv(n, t, ord2)
  BY <1>1, <1>3, <1>4, <1>5 DEF SearchInv, AugmentInv
<1> QED
  BY <1>6 DEF ord2

(* Between two rows: every row so far has a column of its own.             *)
Between(n, s) ==
  /\ s \in States(n) /\ s.j0 = 0
  /\ Matching(n, s, 0)

(* Where the way back leads next.                                          *)
LEMMA WayBack ==
  ASSUME NEW n \in Nat \ {0}, NEW a \in Matrices(n), NEW s,
         NEW ord \in Orders(n), AugmentInv(n, s, ord)
  PROVE  /\ s.j0 \in 1 .. n
         /\ s.way[s.j0] \in s.used /\ s.way[s.j0] \in 0 .. n
         /\ ord[s.way[s.j0]] \in Nat /\ ord[s.j0] \in Nat
         /\ ord[s.way[s.j0]] < ord[s.j0]
         /\ s.p[s.way[s.j0]] # 0
<1>1. /\ s.used \in SUBSET (0 .. n) /\ s.j0 \in 0 .. n /\ s.j0 # 0
  BY DEF AugmentInv, States
<1>2. s.j0 \in 1 .. n /\ ord[s.j0] \in Nat
  BY <1>1 DEF Orders
<1>3. Path(n, s, ord) /\ ord[s.j0] <= ord[s.j0]
  BY <1>2 DEF AugmentInv
<1>4. /\ s.way[s.j0] \in s.used /\ ord[s.way[s.j0]] < ord[s.j0]
      /\ s.p[s.way[s.j0]] # 0
  BY <1>2, <1>3 DEF Path
<1>5. s.way[s.j0] \in 0 .. n
  BY <1>1, <1>4
<1>6. ord[s.way[s.j0]] \in Nat
  BY <1>5 DEF Orders
<1> QED
  BY <1>2, <1>4, <1>5, <1>6

(* One step of the way back.                                               *)
MovesBack(n, s, t) ==
  /\ t \in States(n) /\ t.phase = "augment" /\ t.row = s.row
  /\ t.used = s.used /\ t.u = s.u /\ t.v = s.v /\ t.way = s.way
  /\ t.j0 = s.way[s.j0]
  /\ t.p[s.j0] = s.p[s.way[s.j0]]
  /\ \A j \in 0 .. n : j # s.j0 => t.p[j] = s.p[j]
  /\ t.p \in [0 .. n -> 0 .. n] /\ s.p \in [0 .. n -> 0 .. n]
  /\ s.row \in 1 .. n /\ s.j0 \in 0 .. n

(* The code takes such a step.                                             *)
LEMMA MovedMovesBack ==
  ASSUME NEW n \in Nat \ {0}, NEW a, NEW s, NEW ord,
         AugmentInv(n, s, ord), s.way[s.j0] \in 0 .. n
  PROVE  MovesBack(n, s, Moved(s))
<1> DEFINE t == Moved(s)
           k == s.way[s.j0]
<1>1. s \in States(n) /\ s.phase = "augment"
  BY DEF AugmentInv
<1>2. t = [s EXCEPT !.p = [s.p EXCEPT ![s.j0] = s.p[k]], !.j0 = k]
  BY <1>1 DEF Moved, States
<1>3. s.p \in [0 .. n -> 0 .. n] /\ k \in 0 .. n /\ s.j0 \in 0 .. n
      /\ s.row \in 1 .. n
  BY <1>1 DEF States
<1> DEFINE q == [s.p EXCEPT ![s.j0] = s.p[k]]
<1>4. /\ q \in [0 .. n -> 0 .. n] /\ q[s.j0] = s.p[k]
      /\ \A j \in 0 .. n : j # s.j0 => q[j] = s.p[j]
  BY <1>3
<1> HIDE DEF t, k, q
<1>5. t = [s EXCEPT !.p = q, !.j0 = k]
  BY <1>2 DEF q
<1>6. t \in States(n) /\ t.p = q /\ t.j0 = k
      /\ t.phase = s.phase /\ t.row = s.row
      /\ t.used = s.used /\ t.u = s.u /\ t.v = s.v /\ t.way = s.way
  BY <1>1, <1>3, <1>4, <1>5 DEF States
<1> QED
  BY <1>1, <1>3, <1>4, <1>6 DEF t, k, MovesBack

(* The hole moves one column back along the path.                          *)
LEMMA AugmentStep ==
  ASSUME NEW n \in Nat \ {0}, NEW a \in Matrices(n), NEW s,
         NEW ord \in Orders(n), AugmentInv(n, s, ord)
  PROVE  LET t == Moved(s)
         IN /\ t \in States(n) /\ t.phase = "augment" /\ t.row = s.row
            /\ t.j0 = s.way[s.j0]
            /\ Matching(n, t, t.j0)
            /\ Path(n, t, ord)
<1> DEFINE t == Moved(s)
           k == s.way[s.j0]
<1>1. /\ s.j0 \in 1 .. n /\ k \in s.used /\ k \in 0 .. n
      /\ ord[k] \in Nat /\ ord[s.j0] \in Nat /\ ord[k] < ord[s.j0]
      /\ s.p[k] # 0
  BY WayBack
<1>2. /\ t \in States(n) /\ t.phase = "augment" /\ t.row = s.row
      /\ t.used = s.used /\ t.u = s.u /\ t.v = s.v /\ t.way = s.way
      /\ t.j0 = k /\ t.p[s.j0] = s.p[k]
      /\ \A j \in 0 .. n : j # s.j0 => t.p[j] = s.p[j]
      /\ t.p \in [0 .. n -> 0 .. n] /\ s.p \in [0 .. n -> 0 .. n]
      /\ s.row \in 1 .. n /\ s.j0 \in 0 .. n
  <2>1. MovesBack(n, s, t)
    BY <1>1, MovedMovesBack
  <2> HIDE DEF t
  <2> QED
    BY <2>1 DEF MovesBack
<1>3. /\ Matching(n, s, s.j0) /\ Path(n, s, ord)
  BY DEF AugmentInv
<1>9. \A j \in 0 .. n : ord[j] \in Nat
  BY DEF Orders
<1> HIDE DEF t, k
<1>6. k # s.j0
  BY <1>1
<1>7. Matching(n, t, k)
  <2>1. /\ \A j \in 0 .. n : s.p[j] <= s.row
        /\ \A i \in 1 .. s.row : \E j \in 0 .. n : j # s.j0 /\ s.p[j] = i
        /\ \A j, l \in 0 .. n : j # s.j0 /\ l # s.j0 =>
             (s.p[j] = s.p[l] /\ s.p[j] # 0 => j = l)
    BY <1>3 DEF Matching, Columns
  <2>2. \A j \in 0 .. n : t.p[j] <= t.row
    <3>1. \A j \in 0 .. n : t.p[j] = s.p[k] \/ t.p[j] = s.p[j]
      BY <1>2
    <3>2. s.p[k] <= s.row
      BY <1>1, <2>1
    <3> QED
      BY <1>2, <2>1, <3>1, <3>2
  <2>3. \A i \in 1 .. t.row : \E j \in 0 .. n : j # k /\ t.p[j] = i
    <3>1. SUFFICES ASSUME NEW i \in 1 .. s.row
                   PROVE  \E j \in 0 .. n : j # k /\ t.p[j] = i
      BY <1>2
    <3>2. PICK j \in 0 .. n : j # s.j0 /\ s.p[j] = i
      BY <2>1
    <3>3. CASE j = k
      BY <1>2, <1>6, <3>2, <3>3
    <3>4. CASE j # k
      BY <1>2, <3>2, <3>4
    <3> QED
      BY <3>3, <3>4
  <2>4. ASSUME NEW j \in 0 .. n, NEW l \in 0 .. n, j # k, l # k,
               t.p[j] = t.p[l], t.p[j] # 0
        PROVE  j = l
    <3>1. CASE j = s.j0 /\ l # s.j0
      <4>1. s.p[k] = s.p[l]
        BY <1>2, <2>4, <3>1
      <4> QED
        BY <1>1, <1>6, <2>1, <2>4, <3>1, <4>1
    <3>2. CASE l = s.j0 /\ j # s.j0
      <4>1. s.p[k] = s.p[j]
        BY <1>2, <2>4, <3>2
      <4> QED
        BY <1>1, <1>6, <2>1, <2>4, <3>2, <4>1
    <3>3. CASE j # s.j0 /\ l # s.j0
      BY <1>2, <2>1, <2>4, <3>3
    <3> QED
      BY <3>1, <3>2, <3>3
  <2> QED
    BY <2>2, <2>3, <2>4 DEF Matching, Columns
<1>8. Path(n, t, ord)
  <2> SUFFICES ASSUME NEW j \in 1 .. n, j \in t.used \/ j = t.j0,
                      ord[j] <= ord[t.j0]
               PROVE  /\ t.way[j] \in t.used /\ ord[t.way[j]] < ord[j]
                      /\ t.p[t.way[j]] # 0
    BY DEF Path
  <2>1. ord[j] \in Nat /\ j \in s.used
    <3>1. j \in 0 .. n
      OBVIOUS
    <3> QED
      BY <1>1, <1>2, <1>9, <3>1
  <2>2. ord[j] <= ord[s.j0]
    <3>1. ord[j] <= ord[k]
      BY <1>2
    <3> QED
      BY <1>1, <2>1, <3>1
  <2>3. /\ s.way[j] \in s.used /\ ord[s.way[j]] < ord[j]
        /\ s.p[s.way[j]] # 0
    BY <1>3, <2>1, <2>2 DEF Path
  <2>4. s.way[j] \in 0 .. n
    <3>1. s.used \in SUBSET (0 .. n)
      BY DEF AugmentInv, States
    <3> QED
      BY <2>3, <3>1
  <2>5. s.way[j] # s.j0
    <3>1. ord[s.way[j]] \in Nat
      BY <1>9, <2>4
    <3>2. ord[s.way[j]] < ord[s.j0]
      BY <1>1, <2>1, <2>2, <2>3, <3>1
    <3> QED
      BY <1>1, <3>2
  <2>6. t.way[j] = s.way[j] /\ t.p[s.way[j]] = s.p[s.way[j]]
    BY <1>2, <2>4, <2>5
  <2>7. s.way[j] \in t.used
    BY <1>2, <2>3
  <2> QED
    BY <2>3, <2>6, <2>7
<1> QED
  BY <1>2, <1>7, <1>8 DEF t, k

-----------------------------------------------------------------------------
(* The first row, and the next one.                                        *)
NoOrder(n) == [j \in 0 .. n |-> 0]

(* A row that begins satisfies the invariant of the search.                *)
LEMMA NothingReached ==
  ASSUME NEW n \in Nat \ {0}, NEW a \in Matrices(n), NEW s \in States(n),
         s.phase = "search", s.j0 = 0, s.used = {}, s.p[0] = s.row,
         s.minv = [j \in 0 .. n |-> Infinite],
         Matching(n, s, -1)
  PROVE  SearchInv(n, s, NoOrder(n)) /\ NoOrder(n) \in Orders(n)
<1>1. NoOrder(n) \in Orders(n) /\ NoOrder(n)[0] = 0
  BY DEF NoOrder, Orders
<1>2. s.row # 0
  BY DEF States
<1>3. Reached(n, s, NoOrder(n))
  BY <1>1, <1>2, FS_EmptySet DEF Reached
<1>4. Path(n, s, NoOrder(n))
  BY DEF Path
<1>5. Relaxations(n, s)
  <2>1. \A j \in 1 .. n : j \in 0 .. n
    OBVIOUS
  <2> QED
    BY <2>1 DEF Relaxations
<1> QED
  BY <1>1, <1>3, <1>4, <1>5 DEF SearchInv

(* The first row does.                                                     *)
LEMMA StartIsGood ==
  ASSUME NEW n \in Nat \ {0}, NEW a \in Matrices(n)
  PROVE  SearchInv(n, Start(n), NoOrder(n)) /\ NoOrder(n) \in Orders(n)
<1> DEFINE s == Start(n)
<1>1. /\ s \in States(n) /\ s.phase = "search" /\ s.j0 = 0 /\ s.used = {}
      /\ s.row = 1 /\ s.minv = [j \in 0 .. n |-> Infinite]
      /\ s.u = [i \in 0 .. n |-> 0] /\ s.v = [j \in 0 .. n |-> 0]
      /\ s.p = [j \in 0 .. n |-> IF j = 0 THEN 1 ELSE 0]
  BY DEF Start, States
<1> HIDE DEF s
<1>3. Matching(n, s, -1)
  <2>1. \A j \in 0 .. n : s.p[j] = IF j = 0 THEN 1 ELSE 0
    BY <1>1
  <2>2. \A i \in 1 .. 1 : i = 1
    OBVIOUS
  <2>3. 0 \in 0 .. n /\ \A j \in 0 .. n : j # -1
    OBVIOUS
  <2> QED
    BY <1>1, <2>1, <2>2, <2>3 DEF Matching, Columns
<1>4. s.p[0] = s.row
  BY <1>1
<1> QED
  BY <1>1, <1>3, <1>4, NothingReached DEF s

(* Each later one does, and after the last the loops are done.             *)
LEMMA NextRowIsGood ==
  ASSUME NEW n \in Nat \ {0}, NEW a \in Matrices(n), NEW s,
         Between(n, s), s.row # n
  PROVE  LET t == Begun(n, s)
         IN /\ SearchInv(n, t, NoOrder(n)) /\ NoOrder(n) \in Orders(n)
            /\ t.row = s.row + 1 /\ t.used = {}
<1> DEFINE t == Begun(n, s)
           q == [s.p EXCEPT ![0] = s.row + 1]
<1>1. s \in States(n) /\ s.j0 = 0 /\ s.row \in 1 .. n
      /\ s.p \in [0 .. n -> 0 .. n] /\ s.row + 1 \in 1 .. n
      /\ Matching(n, s, 0)
  <2>1. s \in States(n) /\ s.j0 = 0
        /\ Matching(n, s, 0)
    BY DEF Between
  <2>2. s.row \in 1 .. n /\ s.p \in [0 .. n -> 0 .. n]
    BY <2>1 DEF States
  <2>3. \A x \in 1 .. n : x # n => x + 1 \in 1 .. n
    OBVIOUS
  <2> QED
    BY <2>1, <2>2, <2>3
<1>2. t = [s EXCEPT !.row = s.row + 1, !.phase = "search", !.p = q,
                    !.used = {}, !.minv = [j \in 0 .. n |-> Infinite]]
  BY <1>1 DEF Begun, States
<1>3. /\ q \in [0 .. n -> 0 .. n] /\ q[0] = s.row + 1
      /\ \A j \in 0 .. n : j # 0 => q[j] = s.p[j]
  <2>1. 0 \in 0 .. n /\ s.row + 1 \in 0 .. n
    BY <1>1
  <2> QED
    BY <1>1, <2>1
<1> HIDE DEF t, q
<1>4. /\ t \in States(n) /\ t.phase = "search" /\ t.j0 = 0 /\ t.used = {}
      /\ t.row = s.row + 1 /\ t.minv = [j \in 0 .. n |-> Infinite]
      /\ t.u = s.u /\ t.v = s.v /\ t.p = q
  BY <1>1, <1>2, <1>3 DEF States
<1>7. Matching(n, t, -1)
  <2>1. /\ \A j \in 0 .. n : s.p[j] <= s.row
        /\ \A i \in 1 .. s.row : \E j \in 0 .. n : j # 0 /\ s.p[j] = i
        /\ \A j, l \in 0 .. n : j # 0 /\ l # 0 =>
             (s.p[j] = s.p[l] /\ s.p[j] # 0 => j = l)
    BY <1>1 DEF Matching, Columns
  <2>0. t.p[0] = t.row /\ \A j \in 0 .. n : j # 0 => t.p[j] = s.p[j]
    BY <1>3, <1>4
  <2>2. \A j \in 0 .. n : t.p[j] <= t.row /\ (j # 0 => t.p[j] < t.row)
    <3>0. \A j \in 0 .. n : s.p[j] \in Int
      BY <1>1
    <3>1. \A j \in 0 .. n : s.p[j] \in Int /\ s.p[j] <= s.row
      BY <2>1, <3>0
    <3>2. s.row \in Int /\ t.row \in Int /\ t.row = s.row + 1
      BY <1>1, <1>4
    <3>3. ASSUME NEW j \in 0 .. n
          PROVE  t.p[j] <= t.row /\ (j # 0 => t.p[j] < t.row)
      <4>1. CASE j = 0
        BY <2>0, <3>2, <4>1
      <4>2. CASE j # 0
        BY <2>0, <3>1, <3>2, <4>2
      <4> QED
        BY <4>1, <4>2
    <3> QED
      BY <3>3
  <2>3. \A i \in 1 .. t.row : \E j \in 0 .. n : t.p[j] = i
    <3>1. \A i \in 1 .. t.row : i \in 1 .. s.row \/ i = s.row + 1
      BY <1>1, <1>4
    <3>2. 0 \in 0 .. n
      OBVIOUS
    <3>3. \A i \in 1 .. s.row : \E j \in 0 .. n : t.p[j] = i
      BY <2>0, <2>1
    <3> QED
      BY <1>4, <2>0, <3>1, <3>2, <3>3
  <2>4. ASSUME NEW j \in 0 .. n, NEW l \in 0 .. n,
               t.p[j] = t.p[l], t.p[j] # 0
        PROVE  j = l
    <3>1. t.p[0] = t.row /\ t.row \in Int /\ t.p[j] \in Int
      BY <1>1, <1>3, <1>4
    <3>2. CASE j = 0 \/ l = 0
      BY <2>2, <2>4, <3>1, <3>2
    <3>3. CASE j # 0 /\ l # 0
      BY <1>3, <1>4, <2>1, <2>4, <3>3
    <3> QED
      BY <3>2, <3>3
  <2>6. \A j \in 0 .. n : j # -1
    OBVIOUS
  <2> QED
    BY <2>2, <2>3, <2>4, <2>6 DEF Matching, Columns
<1>8. t.p[0] = t.row
  BY <1>3, <1>4
<1> QED
  BY <1>4, <1>7, <1>8, NothingReached DEF t

(* The invariant of the three loops.                                       *)
DoneInv(n, s) == s.phase = "done" /\ s.row = n /\ Between(n, s)

(* In each phase its own invariant.                                        *)
Good(n, s, ord) ==
  \/ SearchInv(n, s, ord)
  \/ AugmentInv(n, s, ord)
  \/ DoneInv(n, s)

(* What is left to do: the later rows, and the columns not yet used or     *)
(* the rest of the way back.                                               *)
RoundsOfARow(n) == 2 * n + 2

Left(n, s, ord) ==
  CASE s.phase = "search" ->
         (n - s.row) * RoundsOfARow(n) + RoundsOfARow(n) - Cardinality(s.used)
    [] s.phase = "augment" -> (n - s.row) * RoundsOfARow(n) + ord[s.j0]
    [] s.phase = "done" -> 0

(* A step keeps the invariant and leaves less to do.                       *)
GoesOn(a, n, s, ord) ==
  \E o \in Orders(n) : /\ Good(n, Step(a, n, s), o)
                       /\ Left(n, Step(a, n, s), o) < Left(n, s, ord)

(* A round of the search keeps the invariant and uses a column up.         *)
LEMMA SearchGoesOn ==
  ASSUME NEW n \in Nat \ {0}, NEW a \in Matrices(n), NEW s,
         NEW ord \in Orders(n), SearchInv(n, s, ord)
  PROVE  GoesOn(a, n, s, ord)
<1> DEFINE t == Advance(a, n, s)
           ord2 == [ord EXCEPT ![t.j0] = ord[s.j0] + 1]
           R == (n - s.row) * RoundsOfARow(n)
<1>1. s.phase = "search" /\ s \in States(n)
  BY DEF SearchInv
<1>2. Step(a, n, s) = t
  BY <1>1 DEF Step
<1> HIDE DEF t
<1>3. Relaxation(n, s, t)
  BY AdvanceIsARound DEF t
<1>4. /\ t.row = s.row /\ t.j0 \in 0 .. n
      /\ s.row \in 1 .. n
  BY <1>1, <1>3 DEF Relaxation, States
<1>5. ord2 \in Orders(n)
  BY <1>3, RelaxedOrder
<1>6. \/ t.phase = "search" /\ SearchInv(n, t, ord2)
      \/ t.phase = "augment" /\ AugmentInv(n, t, ord2)
  BY <1>3, SearchStep
<1>7. /\ Cardinality(s.used) \in Nat
      /\ Cardinality(t.used) = Cardinality(s.used) + 1
      /\ Cardinality(t.used) <= n
  BY <1>3, RelaxedCount
<1>8. ord2[t.j0] = Cardinality(s.used) + 1
  <2>1. ord[s.j0] = Cardinality(s.used)
    BY DEF SearchInv, Reached
  <2> QED
    BY <1>4, <2>1 DEF Orders
<1>9. RoundsOfARow(n) \in Nat /\ RoundsOfARow(n) = 2 * n + 2 /\ R \in Int
  BY <1>4 DEF RoundsOfARow
<1>10. Left(n, s, ord) = R + RoundsOfARow(n) - Cardinality(s.used)
  BY <1>1 DEF Left
<1>11. t.phase = "search" =>
         Left(n, t, ord2) = R + RoundsOfARow(n) - Cardinality(t.used)
  BY <1>4 DEF Left
<1>12. t.phase = "augment" => Left(n, t, ord2) = R + ord2[t.j0]
  BY <1>4 DEF Left
<1> HIDE DEF ord2, R
<1>13. Left(n, t, ord2) < Left(n, s, ord)
  <2>1. CASE t.phase = "search"
    BY <1>7, <1>9, <1>10, <1>11, <2>1
  <2>2. CASE t.phase = "augment"
    BY <1>7, <1>8, <1>9, <1>10, <1>12, <2>2
  <2> QED
    BY <1>6, <2>1, <2>2
<1>14. Good(n, t, ord2)
  BY <1>6 DEF Good
<1> QED
  BY <1>2, <1>5, <1>13, <1>14 DEF GoesOn

(* A step of the way back does, or a row is done.                          *)
LEMMA AugmentGoesOn ==
  ASSUME NEW n \in Nat \ {0}, NEW a \in Matrices(n), NEW s,
         NEW ord \in Orders(n), AugmentInv(n, s, ord)
  PROVE  GoesOn(a, n, s, ord)
<1> DEFINE m == Moved(s)
           R == (n - s.row) * RoundsOfARow(n)
<1>1. s.phase = "augment" /\ s \in States(n)
  BY DEF AugmentInv
<1>2. /\ ord[s.way[s.j0]] \in Nat /\ ord[s.j0] \in Nat
      /\ ord[s.way[s.j0]] < ord[s.j0]
  BY WayBack
<1>3. /\ m \in States(n) /\ m.phase = "augment" /\ m.row = s.row
      /\ m.j0 = s.way[s.j0]
      /\ Matching(n, m, m.j0)
      /\ Path(n, m, ord)
  BY AugmentStep
<1> HIDE DEF m
<1>4. s.row \in 1 .. n /\ m.row \in 1 .. n
  BY <1>1, <1>3 DEF States
<1>5. /\ RoundsOfARow(n) \in Nat /\ RoundsOfARow(n) = 2 * n + 2
      /\ R \in Int /\ R >= 0
  <2>1. RoundsOfARow(n) \in Nat /\ n - s.row \in Nat
    BY <1>4 DEF RoundsOfARow
  <2>2. \A x, y \in Nat : x * y \in Nat
    OBVIOUS
  <2>3. R \in Nat
    BY <2>1, <2>2
  <2> QED
    BY <2>1, <2>3 DEF RoundsOfARow
<1>6. Left(n, s, ord) = R + ord[s.j0]
  BY <1>1 DEF Left
<1>7. CASE s.way[s.j0] # 0
  <2>1. Step(a, n, s) = m
    BY <1>1, <1>7 DEF Step, m
  <2>2. AugmentInv(n, m, ord)
    BY <1>3, <1>7 DEF AugmentInv
  <2>3. Left(n, m, ord) = R + ord[s.way[s.j0]]
    BY <1>3 DEF Left
  <2>4. Left(n, m, ord) < Left(n, s, ord)
    BY <1>2, <1>5, <1>6, <2>3
  <2> QED
    BY <2>1, <2>2, <2>4 DEF GoesOn, Good
<1>8. CASE s.way[s.j0] = 0
  <2> DEFINE t == Begun(n, m)
  <2>1. Step(a, n, s) = t
    BY <1>1, <1>8 DEF Step, m
  <2>2. Between(n, m)
    BY <1>3, <1>8 DEF Between
  <2>3. CASE m.row = n
    <3>1. t = [m EXCEPT !.phase = "done"]
      BY <2>3 DEF Begun
    <3>2. /\ t \in States(n) /\ t.phase = "done" /\ t.row = n
          /\ t.j0 = m.j0 /\ t.p = m.p /\ t.u = m.u /\ t.v = m.v
      BY <1>3, <2>3, <3>1 DEF States
    <3> HIDE DEF t
    <3>3. Matching(n, t, 0)
      BY <2>2, <2>3, <3>2 DEF Between, Matching
    <3>4. DoneInv(n, t)
      BY <2>2, <3>2, <3>3 DEF DoneInv, Between
    <3>5. Left(n, t, ord) = 0
      BY <3>2 DEF Left
    <3>6. Left(n, t, ord) < Left(n, s, ord)
      BY <1>2, <1>5, <1>6, <3>5
    <3> QED
      BY <2>1, <3>4, <3>6 DEF GoesOn, Good
  <2>4. CASE m.row # n
    <3> HIDE DEF t
    <3>1. /\ SearchInv(n, t, NoOrder(n)) /\ NoOrder(n) \in Orders(n)
          /\ t.row = m.row + 1 /\ t.used = {}
      BY <2>2, <2>4, NextRowIsGood DEF t
    <3>2. t.phase = "search" /\ Cardinality(t.used) = 0
      BY <3>1, FS_EmptySet DEF SearchInv
    <3>3. Left(n, t, NoOrder(n)) =
            (n - t.row) * RoundsOfARow(n) + RoundsOfARow(n)
              - Cardinality(t.used)
      BY <3>2 DEF Left
    <3>4. (n - t.row) * RoundsOfARow(n) + RoundsOfARow(n) = R
      <4>1. \A x, y \in Int : (x - 1) * y + y = x * y
        OBVIOUS
      <4>2. n - t.row = (n - s.row) - 1 /\ n - s.row \in Int
        BY <1>3, <1>4, <3>1
      <4> QED
        BY <1>5, <4>1, <4>2
    <3>5. (n - t.row) * RoundsOfARow(n) \in Int
      <4>1. n - t.row \in Int
        BY <1>3, <1>4, <3>1
      <4> QED
        BY <1>5, <4>1
    <3> HIDE DEF R
    <3>6. Left(n, t, NoOrder(n)) = R
      BY <1>5, <3>2, <3>3, <3>4, <3>5
    <3>7. Left(n, t, NoOrder(n)) < Left(n, s, ord)
      BY <1>2, <1>5, <1>6, <3>6
    <3> QED
      BY <2>1, <3>1, <3>7 DEF GoesOn, Good
  <2> QED
    BY <2>3, <2>4
<1> QED
  BY <1>7, <1>8

(* Something is left until the loops are done.                             *)
LEMMA LeftIsPositive ==
  ASSUME NEW n \in Nat \ {0}, NEW a \in Matrices(n), NEW s,
         NEW ord \in Orders(n), Good(n, s, ord), s.phase # "done"
  PROVE  Left(n, s, ord) \in Nat \ {0}
<1> DEFINE R == (n - s.row) * RoundsOfARow(n)
<1>1. s \in States(n)
  BY DEF Good, SearchInv, AugmentInv, DoneInv
<1>2. s.row \in 1 .. n /\ s.used \in SUBSET (0 .. n)
  BY <1>1 DEF States
<1>3. /\ RoundsOfARow(n) \in Nat /\ RoundsOfARow(n) = 2 * n + 2
      /\ R \in Nat
  <2>1. RoundsOfARow(n) \in Nat /\ n - s.row \in Nat
    BY <1>2 DEF RoundsOfARow
  <2>2. \A x, y \in Nat : x * y \in Nat
    OBVIOUS
  <2>3. R \in Nat
    BY <2>1, <2>2
  <2> QED
    BY <2>1, <2>3 DEF RoundsOfARow
<1>4. CASE SearchInv(n, s, ord)
  <2>1. Left(n, s, ord) = R + RoundsOfARow(n) - Cardinality(s.used)
    BY <1>4 DEF SearchInv, Left
  <2>2. Cardinality(s.used) \in Nat /\ Cardinality(s.used) <= n + 1
    <3>1. IsFiniteSet(0 .. n) /\ Cardinality(0 .. n) = n + 1
      BY FS_Interval
    <3> QED
      BY <1>2, <3>1, FS_Subset, FS_CardinalityType
  <2> HIDE DEF R
  <2> QED
    BY <1>3, <2>1, <2>2
<1>5. CASE AugmentInv(n, s, ord)
  <2>1. Left(n, s, ord) = R + ord[s.j0]
    BY <1>5 DEF AugmentInv, Left
  <2>2. /\ ord[s.way[s.j0]] \in Nat /\ ord[s.j0] \in Nat
        /\ ord[s.way[s.j0]] < ord[s.j0]
    BY <1>5, WayBack
  <2>3. \A x, y, z \in Nat : x < y => z + y \in Nat \ {0}
    OBVIOUS
  <2> HIDE DEF R
  <2> QED
    BY <1>3, <2>1, <2>2, <2>3
<1> QED
  BY <1>4, <1>5 DEF Good, DoneInv

(* A step keeps the invariant, and comes nearer to the end.                *)
LEMMA StepIsGood ==
  ASSUME NEW n \in Nat \ {0}, NEW a \in Matrices(n), NEW s,
         NEW ord \in Orders(n), Good(n, s, ord)
  PROVE  \E o \in Orders(n) :
           /\ Good(n, Step(a, n, s), o)
           /\ s.phase # "done" => Left(n, Step(a, n, s), o) < Left(n, s, ord)
           /\ s.phase = "done" => Step(a, n, s) = s
<1>1. CASE s.phase = "done"
  <2>1. Step(a, n, s) = s
    BY <1>1 DEF Step
  <2> QED
    BY <1>1, <2>1
<1>2. CASE s.phase # "done"
  <2>1. GoesOn(a, n, s, ord)
    BY <1>2, SearchGoesOn, AugmentGoesOn DEF Good, DoneInv
  <2> QED
    BY <1>2, <2>1 DEF GoesOn
<1> QED
  BY <1>1, <1>2

(* The run exists, and follows the steps.                                  *)
RunOf(a, n) ==
  CHOOSE run : run = [k \in Nat |-> IF k = 0 THEN Start(n)
                                    ELSE Step(a, n, run[k - 1])]

LEMMA RunFollows ==
  ASSUME NEW n \in Nat \ {0}, NEW a \in Matrices(n)
  PROVE  /\ Solved(a, n) = RunOf(a, n)[n * (2 * n + 2)]
         /\ RunOf(a, n)[0] = Start(n)
         /\ \A k \in Nat : RunOf(a, n)[k + 1] = Step(a, n, RunOf(a, n)[k])
<1> DEFINE S == {s \in States(n) : \E o \in Orders(n) : Good(n, s, o)}
           G == [k \in Nat |-> [s \in S |-> Step(a, n, s)]]
           rec(r) == [k \in Nat |-> IF k = 0 THEN Start(n)
                                    ELSE Step(a, n, r[k - 1])]
<1>1. \A s, o : Good(n, s, o) => s \in States(n)
  BY DEF Good, SearchInv, AugmentInv, DoneInv, Between
<1>2. Start(n) \in S
  <2>1. NoOrder(n) \in Orders(n) /\ Good(n, Start(n), NoOrder(n))
    BY StartIsGood DEF Good
  <2> QED
    BY <1>1, <2>1
<1>3. \A s \in S : Step(a, n, s) \in S
  <2> SUFFICES ASSUME NEW s \in S PROVE Step(a, n, s) \in S
    OBVIOUS
  <2>1. PICK o \in Orders(n) : Good(n, s, o)
    OBVIOUS
  <2>2. \E p \in Orders(n) : Good(n, Step(a, n, s), p)
    BY <2>1, StepIsGood
  <2> QED
    BY <1>1, <2>2
<1> HIDE DEF S
<1>4. G \in [Nat -> [S -> S]]
  BY <1>3
<1>5. \A k \in Nat, s \in S : G[k][s] = Step(a, n, s)
  OBVIOUS
<1> HIDE DEF G
<1>6. HasIterates(S, Start(n), G)
  BY <1>2, <1>4, Iterates
<1>7. PICK t \in [Nat -> S] : /\ t[0] = Start(n)
                             /\ \A k \in Nat : t[k + 1] = G[k][t[k]]
  BY <1>6 DEF HasIterates
<1>8. t = rec(t)
  <2>1. \A k \in Nat : t[k + 1] = Step(a, n, t[k])
    BY <1>5, <1>7
  <2>2. \A k \in Nat : k # 0 => k - 1 \in Nat /\ (k - 1) + 1 = k
    OBVIOUS
  <2>3. \A k \in Nat : t[k] = IF k = 0 THEN Start(n)
                              ELSE Step(a, n, t[k - 1])
    BY <1>7, <2>1, <2>2
  <2> QED
    BY <2>3
<1>9. RunOf(a, n) = rec(RunOf(a, n))
  BY <1>8 DEF RunOf
<1>10. Solved(a, n) = RunOf(a, n)[n * (2 * n + 2)]
  BY DEF Solved, RunOf
<1>11. \A k \in Nat : k + 1 \in Nat /\ k + 1 # 0 /\ (k + 1) - 1 = k
  OBVIOUS
<1> QED
  BY <1>9, <1>10, <1>11

(* The loops end, within n * (2 * n + 2) steps, with a column of its own   *)
(* for every row.                                                          *)
THEOREM SolvedIsDone ==
  ASSUME NEW n \in Nat \ {0}, NEW a \in Matrices(n)
  PROVE  DoneInv(n, Solved(a, n))
<1> DEFINE r == RunOf(a, n)
           K == n * (2 * n + 2)
           T == {k \in Nat : \E o \in Orders(n) :
                   /\ Good(n, r[k], o)
                   /\ r[k].phase = "done" \/ k + Left(n, r[k], o) <= K}
<1>1. /\ Solved(a, n) = r[K] /\ r[0] = Start(n)
      /\ \A k \in Nat : r[k + 1] = Step(a, n, r[k])
  BY RunFollows
<1>2. K \in Nat
  <2>1. \A x, y \in Nat : x * y \in Nat
    OBVIOUS
  <2>2. n \in Nat /\ 2 * n + 2 \in Nat
    OBVIOUS
  <2> QED
    BY <2>1, <2>2
<1>3. Left(n, Start(n), NoOrder(n)) = K
  <2>1. /\ Start(n).phase = "search" /\ Start(n).row = 1
        /\ Start(n).used = {}
    BY DEF Start
  <2>2. Left(n, Start(n), NoOrder(n)) =
          (n - 1) * (2 * n + 2) + (2 * n + 2) - Cardinality({})
    BY <2>1 DEF Left, RoundsOfARow
  <2>3. Cardinality({}) = 0
    BY FS_EmptySet
  <2>4. \A y \in Int : (n - 1) * y + y - 0 = n * y
    OBVIOUS
  <2> QED
    BY <2>2, <2>3, <2>4
<1> HIDE DEF r, K
<1>4. 0 \in T
  <2>1. NoOrder(n) \in Orders(n) /\ Good(n, r[0], NoOrder(n))
    BY <1>1, StartIsGood DEF Good
  <2>2. 0 + Left(n, r[0], NoOrder(n)) <= K
    BY <1>1, <1>2, <1>3
  <2> QED
    BY <2>1, <2>2
<1>5. ASSUME NEW k \in T PROVE k + 1 \in T
  <2>1. k \in Nat /\ k + 1 \in Nat
    OBVIOUS
  <2>2. PICK o \in Orders(n) :
          /\ Good(n, r[k], o)
          /\ r[k].phase = "done" \/ k + Left(n, r[k], o) <= K
    OBVIOUS
  <2>3. PICK q \in Orders(n) :
          /\ Good(n, Step(a, n, r[k]), q)
          /\ r[k].phase # "done" =>
               Left(n, Step(a, n, r[k]), q) < Left(n, r[k], o)
          /\ r[k].phase = "done" => Step(a, n, r[k]) = r[k]
    BY <2>2, StepIsGood
  <2>4. r[k + 1] = Step(a, n, r[k])
    BY <1>1, <2>1
  <2>5. r[k + 1].phase = "done" \/ (k + 1) + Left(n, r[k + 1], q) <= K
    <3>1. CASE r[k].phase = "done"
      BY <2>3, <2>4, <3>1
    <3>2. CASE r[k].phase # "done" /\ r[k + 1].phase # "done"
      <4>1. Left(n, r[k], o) \in Nat
        BY <2>2, <3>2, LeftIsPositive
      <4>2. Left(n, r[k + 1], q) \in Nat
        BY <2>3, <2>4, <3>2, LeftIsPositive
      <4>3. Left(n, r[k + 1], q) < Left(n, r[k], o)
        BY <2>3, <2>4, <3>2
      <4>4. k + Left(n, r[k], o) <= K
        BY <2>2, <3>2
      <4> QED
        BY <1>2, <2>1, <4>1, <4>2, <4>3, <4>4
    <3> QED
      BY <3>1, <3>2
  <2>6. Good(n, r[k + 1], q)
    BY <2>3, <2>4
  <2> QED
    BY <2>1, <2>5, <2>6
<1>6. K \in T
  <2>1. T \in SUBSET Nat
    OBVIOUS
  <2> HIDE DEF T
  <2> QED
    BY <1>2, <1>4, <1>5, <2>1, Induction
<1>7. PICK o \in Orders(n) :
        /\ Good(n, r[K], o)
        /\ r[K].phase = "done" \/ K + Left(n, r[K], o) <= K
  BY <1>6
<1>8. r[K].phase = "done"
  <2> SUFFICES ASSUME r[K].phase # "done" PROVE FALSE
    OBVIOUS
  <2>1. Left(n, r[K], o) \in Nat \ {0}
    BY <1>7, LeftIsPositive
  <2> QED
    BY <1>2, <1>7, <2>1
<1>9. DoneInv(n, r[K])
  BY <1>7, <1>8 DEF Good, SearchInv, AugmentInv
<1> QED
  BY <1>1, <1>9

-----------------------------------------------------------------------------
(* What the caller reads off the loops.                                    *)

LEMMA PaddedIsAMatrix ==
  ASSUME NEW cost, IsTable(cost)
  PROVE  /\ Side(cost) \in Nat \ {0}
         /\ Rows(cost) \in Nat /\ Rows(cost) <= Side(cost)
         /\ Cols(cost) \in Nat /\ Cols(cost) <= Side(cost)
         /\ Padded(cost) \in Matrices(Side(cost))
<1> DEFINE n == Side(cost)
<1>1. /\ Rows(cost) \in Nat \ {0} /\ Cols(cost) \in Nat \ {0}
      /\ cost \in [1 .. Rows(cost) -> [1 .. Cols(cost) -> Nat]]
  BY DEF IsTable, Rows, Cols
<1>2. n \in Nat \ {0} /\ Rows(cost) <= n /\ Cols(cost) <= n
  BY <1>1 DEF Side
<1>3. Padding \in Nat
  BY HungarianAssumption DEF Padding
<1>4. Padded(cost) = [i \in 1 .. n |-> [j \in 1 .. n |->
        IF i <= Rows(cost) /\ j <= Cols(cost) THEN cost[i][j] ELSE Padding]]
  BY DEF Padded
<1> HIDE DEF n
<1>5. \A i, j \in 1 .. n :
        i <= Rows(cost) /\ j <= Cols(cost) => cost[i][j] \in Nat
  <2>1. \A i, j \in 1 .. n : i <= Rows(cost) /\ j <= Cols(cost) =>
          i \in 1 .. Rows(cost) /\ j \in 1 .. Cols(cost)
    BY <1>1, <1>2
  <2> QED
    BY <1>1, <2>1
<1>6. Padded(cost) \in [1 .. n -> [1 .. n -> Nat]]
  BY <1>3, <1>4, <1>5
<1> QED
  BY <1>1, <1>2, <1>6 DEF Matrices, n

(* The loops of every call end, with a column of its own for every row.    *)
THEOREM LoopsEnd ==
  ASSUME NEW cost, IsTable(cost)
  PROVE  LET s == Solved(Padded(cost), Side(cost))
         IN /\ s.phase = "done"
            /\ \A i \in 1 .. Side(cost) : \E j \in 1 .. Side(cost) : s.p[j] = i
            /\ \A j, k \in 1 .. Side(cost) :
                 s.p[j] = s.p[k] /\ s.p[j] # 0 => j = k
<1> DEFINE n == Side(cost)
           s == Solved(Padded(cost), n)
<1>1. n \in Nat \ {0} /\ Padded(cost) \in Matrices(n)
  BY PaddedIsAMatrix
<1> HIDE DEF n
<1>2. DoneInv(n, s)
  BY <1>1, SolvedIsDone
<1> HIDE DEF s
<1>3. s.phase = "done" /\ s.row = n /\ Matching(n, s, 0)
  BY <1>2 DEF DoneInv, Between
<1>4. /\ \A j \in Columns(n, 0) : j \in 1 .. n
      /\ \A j \in 1 .. n : j \in Columns(n, 0)
  BY <1>1 DEF Columns
<1>5. \A i \in 1 .. n : \E j \in 1 .. n : s.p[j] = i
  BY <1>3, <1>4 DEF Matching
<1>6. \A j, k \in 1 .. n : s.p[j] = s.p[k] /\ s.p[j] # 0 => j = k
  BY <1>3, <1>4 DEF Matching
<1> QED
  BY <1>3, <1>5, <1>6 DEF s, n

(* No two detections are given one track, and none a track that passes no  *)
(* gate for it.                                                            *)
LEMMA AssignedIsAnAssignment ==
  ASSUME NEW cost, IsTable(cost)
  PROVE  Assigned(cost) \in Assignments(cost)
<1> DEFINE n == Side(cost)
           p == Solved(Padded(cost), n).p
           m == Assigned(cost)
           fits(d) == {t \in 1 .. Cols(cost) : p[t] = d}
<1>1. /\ n \in Nat \ {0} /\ Rows(cost) \in Nat /\ Rows(cost) <= n
      /\ Cols(cost) \in Nat /\ Cols(cost) <= n
  BY PaddedIsAMatrix
<1>2. \A j, k \in 1 .. n : p[j] = p[k] /\ p[j] # 0 => j = k
  BY LoopsEnd
<1>3. m = [d \in 1 .. Rows(cost) |->
             IF \E t \in 1 .. Cols(cost) : p[t] = d /\ Passes(cost, d, t)
               THEN CHOOSE t \in 1 .. Cols(cost) : p[t] = d ELSE 0]
  BY DEF Assigned
<1> HIDE DEF n, p, m
<1>4. \A t, o \in 1 .. Cols(cost) : p[t] = p[o] /\ p[t] # 0 => t = o
  <2>1. \A t \in 1 .. Cols(cost) : t \in 1 .. n
    BY <1>1
  <2> QED
    BY <1>2, <2>1
<1>5. ASSUME NEW d \in 1 .. Rows(cost)
      PROVE  \/ m[d] = 0
             \/ /\ m[d] \in 1 .. Cols(cost)
                /\ p[m[d]] = d /\ Passes(cost, d, m[d])
  <2>1. CASE \E t \in 1 .. Cols(cost) : p[t] = d /\ Passes(cost, d, t)
    <3>1. PICK t \in 1 .. Cols(cost) : p[t] = d /\ Passes(cost, d, t)
      BY <2>1
    <3>2. m[d] = CHOOSE o \in 1 .. Cols(cost) : p[o] = d
      BY <1>3, <2>1
    <3>3. m[d] \in 1 .. Cols(cost) /\ p[m[d]] = d
      BY <3>1, <3>2
    <3>4. d # 0
      OBVIOUS
    <3>5. m[d] = t
      BY <1>4, <3>1, <3>3, <3>4
    <3> QED
      BY <3>1, <3>3, <3>5
  <2>2. CASE ~ \E t \in 1 .. Cols(cost) : p[t] = d /\ Passes(cost, d, t)
    BY <1>3, <2>2
  <2> QED
    BY <2>1, <2>2
<1>6. m \in [1 .. Rows(cost) -> 0 .. Cols(cost)]
  <2>1. \A d \in 1 .. Rows(cost) : m[d] \in 0 .. Cols(cost)
    BY <1>1, <1>5
  <2>2. m = [d \in 1 .. Rows(cost) |-> m[d]]
    BY <1>3
  <2> QED
    BY <2>1, <2>2
<1>7. \A d \in 1 .. Rows(cost) : m[d] # 0 =>
        /\ Passes(cost, d, m[d])
        /\ \A e \in 1 .. Rows(cost) : m[e] = m[d] => e = d
  BY <1>5
<1> QED
  BY <1>6, <1>7 DEF Assignments, m

(* However the potentials are rounded, the tracks of a call's detections   *)
(* fit: none twice, none past its gate.                                    *)
THEOREM AssociationsFit == CallSpec => []AssociationFits
<1> DEFINE Inv == asked = <<>> \/ (IsTable(asked) /\ found = Assigned(asked))
<1>1. NoCall => Inv
  BY DEF NoCall
<1>2. ASSUME Inv, [CallNext]_call PROVE Inv'
  <2>1. CASE Associates
    <3>1. IsTable(asked')
      BY <2>1, HungarianAssumption DEF Associates
    <3> QED
      BY <2>1, <3>1 DEF Associates
  <2>2. CASE Returns
    BY <2>2 DEF Returns
  <2>3. CASE UNCHANGED call
    BY <1>2, <2>3 DEF call
  <2> QED
    BY <1>2, <2>1, <2>2, <2>3 DEF CallNext
<1>3. Inv => AssociationFits
  BY AssignedIsAnAssignment DEF AssociationFits
<1> QED
  BY <1>1, <1>2, <1>3, PTL DEF CallSpec
=============================================================================
