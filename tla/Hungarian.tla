------------------------------ MODULE Hungarian ------------------------------
(***************************************************************************)
(* SortTracker::solveHungarian and the gate of its caller: which track     *)
(* each detection of a frame is given, by shortest augmenting paths with   *)
(* potentials.  The code computes with floats of 24 bits, and so does the  *)
(* model: costs are integers, in a unit of 1/256, and what a subtraction   *)
(* or an addition comes to is rounded to the nearest float.  The three     *)
(* nested loops are one function of the state of the local variables, and  *)
(* their run the iterates of it.                                           *)
(***************************************************************************)
EXTENDS Integers, Sequences, FiniteSets, FiniteSetsExt

CONSTANTS
  Gated,       (* INF_COST, the cost of a pair that passes no gate         *)
  Infinite,    (* the largest float, which no cost and no sum of them is   *)
  Significand, (* 2^24: floats below it are a unit apart                   *)
  Spacings,    (* the distances of neighbouring floats, powers of two      *)
  Tables       (* the cost matrices of the calls that are followed         *)

(* A matrix has as many columns in every row, one at least.                *)
IsTable(cost) ==
  /\ Len(cost) \in Nat \ {0} /\ Len(cost[1]) \in Nat \ {0}
  /\ cost \in [1 .. Len(cost) -> [1 .. Len(cost[1]) -> Nat]]

ASSUME HungarianAssumption ==
  /\ Gated \in Nat \ {0}
  /\ Infinite \notin Int
  /\ Significand \in Nat \ {0}
  /\ Spacings \subseteq Nat \ {0}
  /\ \A cost \in Tables : IsTable(cost)

VARIABLES
  asked,   (* the matrix of a call, <<>> when there is none                *)
  found    (* the track of each detection, or 0                            *)

call == <<asked, found>>

-----------------------------------------------------------------------------
(* Floats.                                                                 *)

Multiple(x, s) ==
  LET below == x \div s
      rest  == x % s
  IN  IF 2 * rest < s \/ (2 * rest = s /\ below % 2 = 0) THEN below * s
                                                          ELSE (below + 1) * s

(* The nearest float, and of two equally near the even one.                *)
Fl(x) ==
  LET apart == {s \in Spacings : -(s * Significand) < x
                                   /\ x < s * Significand}
  IN  IF apart = {} THEN x ELSE Multiple(x, Min(apart))

-----------------------------------------------------------------------------
(* The matrix is padded to a square one, with 1 .. n for both sides.       *)
Rows(cost) == Len(cost)
Cols(cost) == Len(cost[1])
Side(cost) == IF Rows(cost) >= Cols(cost) THEN Rows(cost) ELSE Cols(cost)

Padding == 10 * Gated

Padded(cost) ==
  [i \in 1 .. Side(cost) |-> [j \in 1 .. Side(cost) |->
     IF i <= Rows(cost) /\ j <= Cols(cost) THEN cost[i][j] ELSE Padding]]

(* Before the loops; the row 1 waits at the column 0.                      *)
Start(n) ==
  [row |-> 1, phase |-> "search", j0 |-> 0, used |-> {},
   u |-> [i \in 0 .. n |-> 0], v |-> [j \in 0 .. n |-> 0],
   p |-> [j \in 0 .. n |-> IF j = 0 THEN 1 ELSE 0],
   way |-> [j \in 0 .. n |-> 0], minv |-> [j \in 0 .. n |-> Infinite]]

(* Relax columns: the cheapest way into column j over the columns used.    *)
Relaxed(a, s, j) ==
  LET i0 == s.p[s.j0]
      cur == Fl(Fl(a[i0][j] - s.u[i0]) - s.v[j])
  IN IF s.minv[j] = Infinite \/ cur < s.minv[j]
       THEN [cost |-> cur, from |-> s.j0]
       ELSE [cost |-> s.minv[j], from |-> s.way[j]]

(* Mutant: the potentials of the rows stay as they are.                    *)
RowsNotRaised(s, used, delta) == s.u

Raised(s, used, delta) ==
  [i \in DOMAIN s.u |->
     IF \E j \in used : s.p[j] = i THEN Fl(s.u[i] + delta) ELSE s.u[i]]

(* One round of the inner loop: j0 becomes the cheapest column reached,    *)
(* and the search ends at a column without a row.                          *)
Advance(a, n, s) ==
  LET used == s.used \cup {s.j0}
      free == (1 .. n) \ used
      best == [j \in free |-> Relaxed(a, s, j)]
      delta == Min({best[j].cost : j \in free})
      next == Min({j \in free : best[j].cost = delta})
  IN [s EXCEPT
        !.used = used,
        !.u = Raised(s, used, delta),
        !.v = [j \in 0 .. n |->
                 IF j \in used THEN Fl(@[j] - delta) ELSE @[j]],
        !.minv = [j \in 0 .. n |->
                    IF j \in free THEN Fl(best[j].cost - delta) ELSE @[j]],
        !.way = [j \in 0 .. n |-> IF j \in free THEN best[j].from ELSE @[j]],
        !.j0 = next,
        !.phase = IF s.p[next] = 0 THEN "augment" ELSE "search"]

(* The next row along the path found moves to the column j0.               *)
Moved(s) ==
  [s EXCEPT !.p[s.j0] = s.p[s.way[s.j0]], !.j0 = s.way[s.j0]]

(* The outer loop: the next row begins, until there is none.               *)
Begun(n, s) ==
  IF s.row = n THEN [s EXCEPT !.phase = "done"]
  ELSE [s EXCEPT !.row = s.row + 1, !.phase = "search",
                 !.p[0] = s.row + 1, !.used = {},
                 !.minv = [j \in 0 .. n |-> Infinite]]

Step(a, n, s) ==
  CASE s.phase = "search" -> Advance(a, n, s)
    [] s.phase = "augment" ->
         IF s.way[s.j0] = 0 THEN Begun(n, Moved(s)) ELSE Moved(s)
    [] s.phase = "done" -> s

(* What the loops come to, within a number of steps that is enough.        *)
Solved(a, n) ==
  LET run[k \in Nat] == IF k = 0 THEN Start(n) ELSE Step(a, n, run[k - 1])
  IN run[n * (2 * n + 2)]

(* A detection is given the track of its column, where the pair passes.    *)
Passes(cost, d, t) == 2 * cost[d][t] < Gated

(* Mutant: whatever the column of the detection.                           *)
AssignedUngated(cost) ==
  LET p == Solved(Padded(cost), Side(cost)).p
  IN [d \in 1 .. Rows(cost) |->
        IF \E t \in 1 .. Cols(cost) : p[t] = d
          THEN CHOOSE t \in 1 .. Cols(cost) : p[t] = d ELSE 0]

Assigned(cost) ==
  LET p == Solved(Padded(cost), Side(cost)).p
  IN [d \in 1 .. Rows(cost) |->
        IF \E t \in 1 .. Cols(cost) : p[t] = d /\ Passes(cost, d, t)
          THEN CHOOSE t \in 1 .. Cols(cost) : p[t] = d ELSE 0]

-----------------------------------------------------------------------------
(* A call of associateDetectionsToTrackers, with whatever costs geometry   *)
(* and appearance give.                                                    *)

NoCall == asked = <<>> /\ found = <<>>

Associates ==
  /\ NoCall
  /\ asked' \in Tables
  /\ found' = Assigned(asked')

Returns == asked # <<>> /\ asked' = <<>> /\ found' = <<>>

CallNext == Associates \/ Returns

CallSpec == NoCall /\ [][CallNext]_call

-----------------------------------------------------------------------------
(* The reference: an assignment gives each detection a track or 0, for     *)
(* none, and no track to two of them.                                      *)
Assignments(cost) ==
  {m \in [1 .. Rows(cost) -> 0 .. Cols(cost)] :
     \A d \in 1 .. Rows(cost) : m[d] # 0 =>
       /\ Passes(cost, d, m[d])
       /\ \A e \in 1 .. Rows(cost) : m[e] = m[d] => e = d}

WithTrack(m) == {d \in DOMAIN m : m[d] # 0}

Total(cost, m) == MapThenSumSet(LAMBDA d : cost[d][m[d]], WithTrack(m))

(* What the rounding beside the padding may cost: nothing while every      *)
(* detection can have a track that passes, otherwise for each pair the     *)
(* distance of two floats at the padding, 1/16 of a cost between 0 and 2.  *)
AllPass(cost) ==
  /\ Rows(cost) <= Cols(cost)
  /\ \A d \in 1 .. Rows(cost), t \in 1 .. Cols(cost) : Passes(cost, d, t)

Tolerance(cost, m) ==
  IF AllPass(cost) THEN 0
  ELSE Cardinality(WithTrack(m))
         * Min({s \in Spacings : Padding < s * Significand})

-----------------------------------------------------------------------------
(* However the potentials are rounded, no two detections are given one     *)
(* track, and none a track that passes no gate for it: the loops come to   *)
(* an end with a column of its own for every row (solveHungarian and the   *)
(* filter of associateDetectionsToTrackers).                               *)
AssociationFits == asked # <<>> => found \in Assignments(asked)

(* As many detections are given tracks as the gates allow, and at a total  *)
(* that no other choice of as many beats by more than the rounding.        *)
AssociationIsNearlyBest ==
  asked # <<>> =>
    \A m \in Assignments(asked) :
      LET more == Cardinality(WithTrack(m)) - Cardinality(WithTrack(found))
      IN \/ more < 0
         \/ /\ more = 0
            /\ Total(asked, found) <= Total(asked, m) + Tolerance(asked, m)
=============================================================================
