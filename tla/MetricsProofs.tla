--------------------------- MODULE MetricsProofs ----------------------------
(***************************************************************************)
(* The counters of module Metrics agree, and a scrape is monotone, for any *)
(* number of requests, buckets and status classes.  The argument counts,   *)
(* for a set of cells, the bumps made and the bumps owed together: a bump  *)
(* moves one from the debt to the counters, and a request takes on its     *)
(* debts all at once.                                                      *)
(***************************************************************************)
EXTENDS Metrics, FiniteSetTheorems, TLAPS

Total == <<"total">>

MetricsType ==
  /\ count \in [Cells -> Nat]
  /\ pc \in [Requests -> {"new", "handle", "observe", "done", "dropped"}]
  /\ todo \in [Requests -> Seq(Cells \ {Total})]
  /\ \A r \in Requests : pc[r] = "observe" <=> todo[r] # <<>>

-----------------------------------------------------------------------------
(* Sums *)

\* An element more, or one less.
LEMMA OneMore ==
  ASSUME NEW A, IsFiniteSet(A), NEW x
  PROVE  /\ Cardinality(A) \in Nat
         /\ IsFiniteSet(A \cup {x}) /\ IsFiniteSet(A \ {x})
         /\ x \notin A => Cardinality(A \cup {x}) = Cardinality(A) + 1
         /\ x \in A => Cardinality(A) = Cardinality(A \ {x}) + 1
<1>1. Cardinality(A) \in Nat
  BY FS_CardinalityType
<1>2. /\ IsFiniteSet(A \cup {x})
      /\ Cardinality(A \cup {x}) = IF x \in A THEN Cardinality(A) ELSE Cardinality(A) + 1
  BY FS_AddElement
<1>3. /\ IsFiniteSet(A \ {x})
      /\ Cardinality(A \ {x}) = IF x \in A THEN Cardinality(A) - 1 ELSE Cardinality(A)
  BY FS_RemoveElement
<1> QED
  BY <1>1, <1>2, <1>3

\* A counter that is bumped adds one to the sums it is part of.
LEMMA SumBump ==
  ASSUME NEW X \in SUBSET Cells, NEW f \in [Cells -> Nat], NEW y \in Cells,
         IsFiniteSet(Units(f, X)), NEW g, g = [f EXCEPT ![y] = @ + 1]
  PROVE  /\ IsFiniteSet(Units(g, X))
         /\ Sum(f, X) \in Nat
         /\ Sum(g, X) = Sum(f, X) + (IF y \in X THEN 1 ELSE 0)
<1> DEFINE u == <<y, f[y] + 1>>
<1>1. CASE y \in X
  <2>1. Units(g, X) = Units(f, X) \cup {u}
    BY <1>1 DEF Units
  <2>2. u \notin Units(f, X)
    BY <1>1 DEF Units
  <2> HIDE DEF u
  <2> QED
    <3>1. /\ Cardinality(Units(f, X)) \in Nat
          /\ IsFiniteSet(Units(f, X) \cup {u})
          /\ Cardinality(Units(f, X) \cup {u}) = Cardinality(Units(f, X)) + 1
      BY <2>2, OneMore
    <3> QED
      BY Zenon, <1>1, <2>1, <3>1 DEF Sum
<1>2. CASE y \notin X
  <2>1. Units(g, X) = Units(f, X)
    BY <1>2 DEF Units
  <2> QED
    <3>1. Cardinality(Units(f, X)) \in Nat
      BY Zenon, OneMore
    <3> QED
      BY <1>2, <2>1, <3>1 DEF Sum
<1> QED
  BY <1>1, <1>2

\* The sum over one cell is what the cell holds.
LEMMA SumOne ==
  ASSUME NEW x, NEW f, f[x] \in Nat
  PROVE  Sum(f, {x}) = f[x] /\ IsFiniteSet(Units(f, {x}))
<1> DEFINE n == f[x]
<1>1. Units(f, {x}) = {x} \X (1..n)
  BY DEF Units
<1>2. IsFiniteSet({x}) /\ Cardinality({x}) = 1
  BY Zenon, FS_Singleton
<1>3. IsFiniteSet(1..n) /\ Cardinality(1..n) = n
  <2> HIDE DEF n
  <2>1. n \in Nat
    BY DEF n
  <2> QED
    BY <2>1, FS_Interval
<1> HIDE DEF n
<1>4. /\ IsFiniteSet({x} \X (1..n))
      /\ Cardinality({x} \X (1..n)) = Cardinality({x}) * Cardinality(1..n)
  BY Zenon, <1>2, <1>3, FS_Product
<1>5. Cardinality({x} \X (1..n)) = n
  BY <1>2, <1>3, <1>4 DEF n
<1> QED
  BY Zenon, <1>1, <1>4, <1>5 DEF Sum, n

\* The sum over two cells.
LEMMA SumTwo ==
  ASSUME NEW x, NEW y, x # y, NEW f, f[x] \in Nat, f[y] \in Nat
  PROVE  Sum(f, {x, y}) = f[x] + f[y]
<1> DEFINE A == Units(f, {x})
           B == Units(f, {y})
<1>1. Units(f, {x, y}) = A \cup B
  BY DEF Units
<1>2. A \cap B = {}
  BY DEF Units
<1>3. IsFiniteSet(A) /\ Cardinality(A) = f[x] /\ IsFiniteSet(B) /\ Cardinality(B) = f[y]
  BY SumOne DEF Sum
<1> HIDE DEF A, B
<1>4. Cardinality(A \cup B) = Cardinality(A) + Cardinality(B) - Cardinality({})
  BY <1>2, <1>3, FS_Union
<1>5. Cardinality(A \cup B) = f[x] + f[y] - 0
  BY <1>3, <1>4, FS_EmptySet
<1>6. Sum(f, {x, y}) = Cardinality(A \cup B)
  BY <1>1 DEF Sum
<1> QED
  BY <1>5, <1>6

\* Cells that hold no more have no larger sum.
LEMMA SumMonotone ==
  ASSUME NEW X, NEW f, NEW g, IsFiniteSet(Units(g, X)),
         \A x \in X : f[x] \in Nat /\ g[x] \in Nat /\ f[x] <= g[x]
  PROVE  Sum(f, X) <= Sum(g, X) /\ Sum(f, X) \in Nat /\ Sum(g, X) \in Nat
<1>1. Units(f, X) \subseteq Units(g, X)
  BY DEF Units
<1> QED
  BY <1>1, FS_Subset, FS_CardinalityType DEF Sum

-----------------------------------------------------------------------------
(* Debts *)

\* The places of the cells of X in a list of bumps, counted from its end, so
\* that a bump moves none of the others.
Places(l, X) == {j \in 1..Len(l) : l[Len(l) + 1 - j] \in X}

\* The bumps of X that are owed.
Owed(t, X) == {p \in Requests \X Nat : p[2] \in Places(t[p[1]], X)}

\* The next bump of a request is owed no more.
LEMMA OwedBump ==
  ASSUME NEW X, NEW t \in [Requests -> Seq(Cells \ {Total})], NEW r \in Requests, t[r] # <<>>
  PROVE  /\ Owed([t EXCEPT ![r] = Tail(@)], X) = Owed(t, X) \ {<<r, Len(t[r])>>}
         /\ <<r, Len(t[r])>> \in Owed(t, X) <=> Head(t[r]) \in X
<1> DEFINE u == [t EXCEPT ![r] = Tail(@)]
           l == t[r]
<1>1. /\ l \in Seq(Cells \ {Total}) /\ Len(l) \in Nat \ {0}
      /\ Len(Tail(l)) = Len(l) - 1 /\ Head(l) = l[1]
      /\ \A k \in 1..(Len(l) - 1) : Tail(l)[k] = l[k + 1]
  OBVIOUS
<1>2. Places(Tail(l), X) = Places(l, X) \ {Len(l)}
  BY <1>1 DEF Places
<1>3. Len(l) \in Places(l, X) <=> Head(l) \in X
  BY <1>1 DEF Places
<1>4. u[r] = Tail(l) /\ \A s \in Requests \ {r} : u[s] = t[s]
  OBVIOUS
<1>5. Owed(u, X) = Owed(t, X) \ {<<r, Len(l)>>}
  BY <1>2, <1>4 DEF Owed
<1>6. <<r, Len(l)>> \in Owed(t, X) <=> Head(l) \in X
  BY <1>1, <1>3 DEF Owed
<1> QED
  BY Zenon, <1>5, <1>6

\* A request that owes nothing takes on a list of bumps.
LEMMA OwedList ==
  ASSUME NEW X, NEW t \in [Requests -> Seq(Cells \ {Total})], NEW r \in Requests,
         t[r] = <<>>, IsFiniteSet(Owed(t, X)), NEW l \in Seq(Cells), NEW q, Places(l, X) \subseteq {q},
         NEW u, u = [t EXCEPT ![r] = l]
  PROVE  /\ IsFiniteSet(Owed(u, X))
         /\ Cardinality(Owed(t, X)) \in Nat
         /\ Cardinality(Owed(u, X)) =
              Cardinality(Owed(t, X)) + (IF Places(l, X) = {} THEN 0 ELSE 1)
<1>1. Places(t[r], X) = {}
  BY DEF Places
<1>2. u[r] = l /\ \A s \in Requests \ {r} : u[s] = t[s]
  OBVIOUS
<1>3. CASE Places(l, X) = {}
  <2>1. Owed(u, X) = Owed(t, X)
    BY <1>1, <1>2, <1>3 DEF Owed
  <2> QED
    <3>1. Cardinality(Owed(t, X)) \in Nat
      BY Zenon, OneMore
    <3> QED
      BY <1>3, <2>1, <3>1
<1>4. CASE Places(l, X) = {q}
  <2>1. q \in Nat
    <3>1. q \in Places(l, X)
      BY <1>4
    <3> QED
      BY <3>1 DEF Places
  <2>2. Owed(u, X) = Owed(t, X) \cup {<<r, q>>}
    BY <1>1, <1>2, <1>4, <2>1 DEF Owed
  <2>3. <<r, q>> \notin Owed(t, X)
    BY <1>1 DEF Owed
  <2> QED
    <3> DEFINE p == <<r, q>>
    <3> HIDE DEF p
    <3>1. /\ Cardinality(Owed(t, X)) \in Nat
          /\ IsFiniteSet(Owed(t, X) \cup {p})
          /\ Cardinality(Owed(t, X) \cup {p}) = Cardinality(Owed(t, X)) + 1
      BY Zenon, <2>3, OneMore DEF p
    <3> QED
      BY Zenon, <1>4, <2>2, <3>1 DEF p
<1> QED
  BY <1>3, <1>4

\* What is owed stays finite.
LEMMA OwedFinite ==
  ASSUME NEW X, NEW t \in [Requests -> Seq(Cells \ {Total})], NEW r \in Requests,
         IsFiniteSet(Owed(t, X)), NEW l \in Seq(Cells), NEW u, u = [t EXCEPT ![r] = l]
  PROVE  IsFiniteSet(Owed(u, X))
<1> DEFINE A == Owed(t, X)
           P == {r} \X (1..Len(l))
<1>1. Owed(u, X) \subseteq A \cup P
  BY DEF Owed, Places
<1>2. IsFiniteSet({r}) /\ IsFiniteSet(1..Len(l))
  <2>1. Len(l) \in Int /\ 1 \in Int
    OBVIOUS
  <2> QED
    BY Zenon, <2>1, FS_Singleton, FS_Interval
<1>3. IsFiniteSet(P)
  BY <1>2, FS_Product
<1> HIDE DEF A, P
<1>4. IsFiniteSet(A \cup P)
  BY Zenon, <1>3, FS_Union DEF A
<1> QED
  BY Zenon, <1>1, <1>4, FS_Subset

-----------------------------------------------------------------------------
(* What a request has to bump *)

\* The bumps a request takes on when handle returns.
ListOf(x, b) == ObserveDuration(StatusForMetrics(x), b) \o ObserveResult(x)

\* The lists there are, written out: with a class or without, in a bucket or
\* past the last, and with the counter of an error or without.
LEMMA Lists ==
  ASSUME NEW x \in Results, NEW b \in 1..(Buckets + 1),
         NEW s, s = StatusForMetrics(x), NEW l, l = ListOf(x, b)
  PROVE  /\ l \in Seq(Cells \ {Total})
         /\ x \notin Statuses => s \in Class
         /\ s \notin Class /\ b <= Buckets =>
              Len(l) = 2 /\ l[1] = <<"bucket", b>> /\ l[2] = <<"sum">>
         /\ s \notin Class /\ b > Buckets => Len(l) = 1 /\ l[1] = <<"sum">>
         /\ s \in Class /\ b <= Buckets =>
              /\ l[1] = <<"bucket", b>> /\ l[2] = <<"sum">>
              /\ l[3] = <<"class_bucket", s, b>> /\ l[4] = <<"class_sum", s>>
              /\ x \in Statuses => Len(l) = 5 /\ l[5] = <<"responses", s>>
              /\ x \notin Statuses => Len(l) = 6 /\ l[5] = <<x>> /\ l[6] = <<"responses", s>>
         /\ s \in Class /\ b > Buckets =>
              /\ l[1] = <<"sum">> /\ l[2] = <<"class_sum", s>>
              /\ x \in Statuses => Len(l) = 3 /\ l[3] = <<"responses", s>>
              /\ x \notin Statuses => Len(l) = 4 /\ l[3] = <<x>> /\ l[4] = <<"responses", s>>
<1> USE MetricsAssumption
<1> DEFINE B == <<"bucket", b>>
           S == <<"sum">>
           C == <<"class_bucket", s, b>>
           D == <<"class_sum", s>>
           R == <<"responses", s>>
           E == <<x>>
           K == Cells \ {Total}
<1>1. x \notin Statuses => s \in Class
  BY DEF StatusForMetrics, Class
<1>2. /\ b <= Buckets => B \in K
      /\ S \in K
      /\ s \in Class => D \in K /\ R \in K /\ (b <= Buckets => C \in K)
      /\ x \notin Statuses => E \in K
  BY DEF Cells, Total, Results
<1> DEFINE d == ((When(b <= Buckets, <<B>>) \o <<S>>) \o When(s \in Class /\ b <= Buckets, <<C>>))
                  \o When(s \in Class, <<D>>)
           e == When(x \notin Statuses, <<E>>) \o When(s \in Class, <<R>>)
<1>3. l = d \o e
  BY DEF ListOf, ObserveDuration, ObserveResult, StatusForMetrics
<1> HIDE DEF B, S, C, D, R, E, K
<1>4. /\ d \in Seq(K)
      /\ s \notin Class /\ b <= Buckets => Len(d) = 2 /\ d[1] = B /\ d[2] = S
      /\ s \notin Class /\ b > Buckets => Len(d) = 1 /\ d[1] = S
      /\ s \in Class /\ b <= Buckets => Len(d) = 4 /\ d[1] = B /\ d[2] = S /\ d[3] = C /\ d[4] = D
      /\ s \in Class /\ b > Buckets => Len(d) = 2 /\ d[1] = S /\ d[2] = D
  <2>1. CASE s \notin Class /\ b <= Buckets
    BY <1>2, <2>1 DEF When
  <2>2. CASE s \notin Class /\ b > Buckets
    BY <1>2, <2>2 DEF When
  <2>3. CASE s \in Class /\ b <= Buckets
    BY <1>2, <2>3 DEF When
  <2>4. CASE s \in Class /\ b > Buckets
    BY <1>2, <2>4 DEF When
  <2>5. b <= Buckets \/ b > Buckets
    OBVIOUS
  <2> HIDE DEF d
  <2> QED
    BY <2>1, <2>2, <2>3, <2>4, <2>5
<1>5. /\ e \in Seq(K)
      /\ s \notin Class => Len(e) = 0
      /\ s \in Class /\ x \in Statuses => Len(e) = 1 /\ e[1] = R
      /\ s \in Class /\ x \notin Statuses => Len(e) = 2 /\ e[1] = E /\ e[2] = R
  BY <1>1, <1>2 DEF When
<1> HIDE DEF d, e
<1>6. /\ l \in Seq(K) /\ Len(l) = Len(d) + Len(e)
      /\ \A k \in 1..Len(d) : l[k] = d[k]
      /\ \A k \in 1..Len(e) : l[Len(d) + k] = e[k]
  BY <1>3, <1>4, <1>5
<1>7. CASE s \notin Class
  BY <1>1, <1>4, <1>5, <1>6, <1>7 DEF B, S, K
<1>8. CASE s \in Class /\ b <= Buckets
  <2>1. /\ l[1] = B /\ l[2] = S /\ l[3] = C /\ l[4] = D
        /\ x \in Statuses => Len(l) = 5 /\ l[5] = R
        /\ x \notin Statuses => Len(l) = 6 /\ l[5] = E /\ l[6] = R
    <3>1. Len(d) = 4 /\ l[1] = d[1] /\ l[2] = d[2] /\ l[3] = d[3] /\ l[4] = d[4]
      <4>1. Len(d) = 4
        BY <1>4, <1>8
      <4>2. \A k \in 1..4 : l[k] = d[k]
        BY <1>6, <4>1
      <4> QED
        BY <4>1, <4>2
    <3>2. CASE x \in Statuses
      <4>1. Len(e) = 1 /\ e[1] = R
        BY <1>5, <1>8, <3>2
      <4>2. Len(l) = 4 + 1 /\ \A k \in 1..1 : l[4 + k] = e[k]
        BY <1>6, <3>1, <4>1
      <4>3. l[5] = e[1]
        BY <4>2
      <4> QED
        BY <1>4, <1>8, <3>1, <3>2, <4>1, <4>2, <4>3
    <3>3. CASE x \notin Statuses
      <4>1. Len(e) = 2 /\ e[1] = E /\ e[2] = R
        BY <1>5, <1>8, <3>3
      <4>2. Len(l) = 4 + 2 /\ \A k \in 1..2 : l[4 + k] = e[k]
        BY <1>6, <3>1, <4>1
      <4>3. l[5] = e[1] /\ l[6] = e[2]
        BY <4>2
      <4> QED
        BY <1>4, <1>8, <3>1, <3>3, <4>1, <4>2, <4>3
    <3> QED
      BY <3>2, <3>3
  <2>2. ~(b > Buckets)
    BY <1>8
  <2> QED
    BY <1>6, <1>8, <2>1, <2>2, Zenon DEF B, S, C, D, R, E, K
<1>9. CASE s \in Class /\ b > Buckets
  <2>1. /\ l[1] = S /\ l[2] = D
        /\ x \in Statuses => Len(l) = 3 /\ l[3] = R
        /\ x \notin Statuses => Len(l) = 4 /\ l[3] = E /\ l[4] = R
    <3>1. Len(d) = 2 /\ l[1] = d[1] /\ l[2] = d[2]
      <4>1. Len(d) = 2
        BY <1>4, <1>9
      <4>2. \A k \in 1..2 : l[k] = d[k]
        BY <1>6, <4>1
      <4> QED
        BY <4>1, <4>2
    <3>2. CASE x \in Statuses
      <4>1. Len(e) = 1 /\ e[1] = R
        BY <1>5, <1>9, <3>2
      <4>2. Len(l) = 2 + 1 /\ \A k \in 1..1 : l[2 + k] = e[k]
        BY <1>6, <3>1, <4>1
      <4>3. l[3] = e[1]
        BY <4>2
      <4> QED
        BY <1>4, <1>9, <3>1, <3>2, <4>1, <4>2, <4>3
    <3>3. CASE x \notin Statuses
      <4>1. Len(e) = 2 /\ e[1] = E /\ e[2] = R
        BY <1>5, <1>9, <3>3
      <4>2. Len(l) = 2 + 2 /\ \A k \in 1..2 : l[2 + k] = e[k]
        BY <1>6, <3>1, <4>1
      <4>3. l[3] = e[1] /\ l[4] = e[2]
        BY <4>2
      <4> QED
        BY <1>4, <1>9, <3>1, <3>3, <4>1, <4>2, <4>3
    <3> QED
      BY <3>2, <3>3
  <2>2. ~(b <= Buckets)
    BY <1>9
  <2> QED
    BY <1>6, <1>9, <2>1, <2>2, Zenon DEF S, D, R, E, K
<1> QED
  BY <1>7, <1>8, <1>9

\* A list has at most one counter of each family; those of a class are of the
\* class of the status, and a class is counted and timed, or neither.
GoodList(l, x, s, b) ==
  /\ l \in Seq(Cells \ {Total}) /\ Len(l) > 0
  /\ \A i, j \in 1..Len(l) : l[i][1] = l[j][1] => i = j
  /\ \A i \in 1..Len(l) :
       \/ l[i] = <<"sum">>
       \/ l[i] = <<"bucket", b>>
       \/ s \in Class /\ l[i] = <<"class_bucket", s, b>>
       \/ s \in Class /\ l[i] = <<"class_sum", s>>
       \/ s \in Class /\ l[i] = <<"responses", s>>
       \/ x \notin Statuses /\ l[i] = <<x>>
  /\ s \in Class => /\ \E i \in 1..Len(l) : l[i] = <<"class_sum", s>>
                    /\ \E i \in 1..Len(l) : l[i] = <<"responses", s>>

\* Every list is such a list.
LEMMA ListCells ==
  ASSUME NEW x \in Results, NEW b \in 1..(Buckets + 1),
         NEW s, s = StatusForMetrics(x), NEW l, l = ListOf(x, b)
  PROVE  GoodList(l, x, s, b)
<1> USE MetricsAssumption
<1> DEFINE B == <<"bucket", b>>
           S == <<"sum">>
           C == <<"class_bucket", s, b>>
           D == <<"class_sum", s>>
           R == <<"responses", s>>
           E == <<x>>
<1>1. x \notin Statuses => E[1] \in {"no_route", "unknown", "failed"}
  BY DEF Results
<1>2. B[1] = "bucket" /\ S[1] = "sum" /\ C[1] = "class_bucket" /\ D[1] = "class_sum" /\ R[1] = "responses"
  OBVIOUS
<1>3. Buckets \in Nat /\ b \in Nat /\ l \in Seq(Cells \ {Total})
  BY Lists
<1>4. CASE s \notin Class /\ b <= Buckets
  <2>1. Len(l) = 2 /\ l[1] = B /\ l[2] = S
    BY <1>4, Lists
  <2> HIDE DEF B, S, C, D, R, E
  <2>2. \A i, j \in 1..Len(l) : l[i][1] = l[j][1] => i = j
    BY <1>1, <1>2, <1>4, <2>1
  <2> QED
    BY <1>3, <1>4, <2>1, <2>2 DEF B, S, C, D, R, E, GoodList
<1>5. CASE s \notin Class /\ b > Buckets
  <2>1. Len(l) = 1 /\ l[1] = S
    BY <1>5, Lists
  <2> HIDE DEF B, S, C, D, R, E
  <2>2. \A i, j \in 1..Len(l) : l[i][1] = l[j][1] => i = j
    BY <1>1, <1>2, <1>5, <2>1
  <2> QED
    BY <1>3, <1>5, <2>1, <2>2 DEF B, S, C, D, R, E, GoodList
<1>6. CASE s \in Class /\ b <= Buckets /\ x \in Statuses
  <2>1. Len(l) = 5 /\ l[1] = B /\ l[2] = S /\ l[3] = C /\ l[4] = D /\ l[5] = R
    BY <1>6, Lists
  <2> HIDE DEF B, S, C, D, R, E
  <2>2. \A i, j \in 1..Len(l) : l[i][1] = l[j][1] => i = j
    BY <1>1, <1>2, <1>6, <2>1
  <2> QED
    BY <1>3, <1>6, <2>1, <2>2 DEF B, S, C, D, R, E, GoodList
<1>7. CASE s \in Class /\ b <= Buckets /\ x \notin Statuses
  <2>1. Len(l) = 6 /\ l[1] = B /\ l[2] = S /\ l[3] = C /\ l[4] = D /\ l[5] = E /\ l[6] = R
    BY <1>7, Lists
  <2> HIDE DEF B, S, C, D, R, E
  <2>2. \A i, j \in 1..Len(l) : l[i][1] = l[j][1] => i = j
    BY <1>1, <1>2, <1>7, <2>1
  <2> QED
    BY <1>3, <1>7, <2>1, <2>2 DEF B, S, C, D, R, E, GoodList
<1>8. CASE s \in Class /\ b > Buckets /\ x \in Statuses
  <2>1. Len(l) = 3 /\ l[1] = S /\ l[2] = D /\ l[3] = R
    BY <1>8, Lists
  <2> HIDE DEF B, S, C, D, R, E
  <2>2. \A i, j \in 1..Len(l) : l[i][1] = l[j][1] => i = j
    BY <1>1, <1>2, <1>8, <2>1
  <2> QED
    BY <1>3, <1>8, <2>1, <2>2 DEF B, S, C, D, R, E, GoodList
<1>9. CASE s \in Class /\ b > Buckets /\ x \notin Statuses
  <2>1. Len(l) = 4 /\ l[1] = S /\ l[2] = D /\ l[3] = E /\ l[4] = R
    BY <1>9, Lists
  <2> HIDE DEF B, S, C, D, R, E
  <2>2. \A i, j \in 1..Len(l) : l[i][1] = l[j][1] => i = j
    BY <1>1, <1>2, <1>9, <2>1
  <2> QED
    BY <1>3, <1>9, <2>1, <2>2 DEF B, S, C, D, R, E, GoodList
<1>10. b <= Buckets \/ b > Buckets
  BY <1>3
<1> QED
  BY <1>4, <1>5, <1>6, <1>7, <1>8, <1>9, <1>10

\* A set has at most one element.
AtMostOne(S) == \E q : S \subseteq {q}

\* Places that are not where the cells of X are, or at one of them only.
LEMMA PlacesOnce ==
  ASSUME NEW K, NEW l \in Seq(K), NEW X
  PROVE  /\ (\A i, j \in 1..Len(l) : l[i] \in X /\ l[j] \in X => i = j) => AtMostOne(Places(l, X))
         /\ Places(l, X) = {} <=> \A i \in 1..Len(l) : l[i] \notin X
<1>1. Len(l) \in Nat
  OBVIOUS
<1>2. ASSUME \A i, j \in 1..Len(l) : l[i] \in X /\ l[j] \in X => i = j
      PROVE  AtMostOne(Places(l, X))
  <2>1. \A p, q \in Places(l, X) : p = q
    <3> SUFFICES ASSUME NEW p \in Places(l, X), NEW q \in Places(l, X) PROVE p = q
      OBVIOUS
    <3>1. /\ p \in 1..Len(l) /\ q \in 1..Len(l)
          /\ l[Len(l) + 1 - p] \in X /\ l[Len(l) + 1 - q] \in X
      BY DEF Places
    <3>2. Len(l) + 1 - p \in 1..Len(l) /\ Len(l) + 1 - q \in 1..Len(l)
      BY <1>1, <3>1
    <3>3. Len(l) + 1 - p = Len(l) + 1 - q
      BY <1>2, <3>1, <3>2
    <3> QED
      BY <1>1, <3>1, <3>3
  <2>2. CASE Places(l, X) = {}
    BY <2>2 DEF AtMostOne
  <2>3. CASE Places(l, X) # {}
    <3>1. PICK p \in Places(l, X) : TRUE
      BY <2>3
    <3>2. Places(l, X) \subseteq {p}
      BY <2>1, <3>1
    <3> QED
      BY <3>2 DEF AtMostOne
  <2> QED
    BY <2>2, <2>3
<1>3. ASSUME Places(l, X) = {}, NEW i \in 1..Len(l), l[i] \in X
      PROVE  FALSE
  <2>1. Len(l) + 1 - i \in 1..Len(l) /\ Len(l) + 1 - (Len(l) + 1 - i) = i
    BY <1>1
  <2>2. Len(l) + 1 - i \in Places(l, X)
    BY <1>3, <2>1 DEF Places
  <2> QED
    BY <1>3, <2>2
<1>4. ASSUME \A i \in 1..Len(l) : l[i] \notin X
      PROVE  Places(l, X) = {}
  BY <1>1, <1>4 DEF Places
<1> QED
  BY <1>2, <1>3, <1>4

\* Cells of one family have at most one place in a list.
LEMMA FamilyPlaces ==
  ASSUME NEW l, NEW x, NEW s, NEW b, GoodList(l, x, s, b), NEW X, NEW k,
         \A i \in 1..Len(l) : l[i] \in X => l[i][1] = k
  PROVE  /\ AtMostOne(Places(l, X))
         /\ Places(l, X) = {} <=> \A i \in 1..Len(l) : l[i] \notin X
<1>1. l \in Seq(Cells \ {Total})
  BY DEF GoodList
<1>2. \A i, j \in 1..Len(l) : l[i] \in X /\ l[j] \in X => i = j
  BY DEF GoodList
<1> QED
  BY <1>1, <1>2, PlacesOnce

\* Where the cells the properties speak of are in a list.
LEMMA ListPlaces ==
  ASSUME NEW x \in Results, NEW b \in 1..(Buckets + 1),
         NEW s, s = StatusForMetrics(x), NEW l, l = ListOf(x, b)
  PROVE  /\ Places(l, {Total}) = {}
         /\ AtMostOne(Places(l, BucketCells))
         /\ \A c \in Class :
              /\ AtMostOne(Places(l, {<<"class_sum", c>>}))
              /\ AtMostOne(Places(l, {<<"responses", c>>}))
              /\ AtMostOne(Places(l, ClassBucketCells(c)))
              /\ Places(l, {<<"class_sum", c>>}) = {} <=> c # s
              /\ Places(l, {<<"responses", c>>}) = {} <=> c # s
              /\ Places(l, ClassBucketCells(c)) # {} => c = s
         /\ AtMostOne(Places(l, {<<"no_route">>}))
         /\ Places(l, {<<"no_route">>}) # {} => s = "4xx"
         /\ AtMostOne(Places(l, {<<"unknown">>, <<"failed">>}))
         /\ Places(l, {<<"unknown">>, <<"failed">>}) # {} => s = "5xx"
<1>1. GoodList(l, x, s, b)
  BY ListCells
<1>2. l \in Seq(Cells \ {Total}) /\ \A i \in 1..Len(l) : l[i] \in Cells \ {Total}
  BY <1>1 DEF GoodList
<1>3. x \notin Statuses =>
        /\ x \in {"no_route", "unknown", "failed"}
        /\ x = "no_route" => s = "4xx"
        /\ x # "no_route" => s = "5xx"
  BY DEF Results, StatusForMetrics
<1>4. Places(l, {Total}) = {}
  BY <1>2, PlacesOnce
<1>5. AtMostOne(Places(l, BucketCells))
  <2>1. \A i \in 1..Len(l) : l[i] \in BucketCells => l[i][1] = "bucket"
    BY DEF BucketCells
  <2> QED
    BY Zenon, <1>1, <2>1, FamilyPlaces
<1>6. ASSUME NEW c \in Class
      PROVE  /\ AtMostOne(Places(l, {<<"class_sum", c>>}))
             /\ Places(l, {<<"class_sum", c>>}) = {} <=> c # s
  <2>1. \A i \in 1..Len(l) : l[i] \in {<<"class_sum", c>>} => l[i][1] = "class_sum" /\ c = s
    BY <1>1, <1>3 DEF GoodList
  <2>2. c = s => \E i \in 1..Len(l) : l[i] \in {<<"class_sum", c>>}
    BY Zenon, <1>1 DEF GoodList
  <2> QED
    BY Zenon, <1>1, <2>1, <2>2, FamilyPlaces
<1>7. ASSUME NEW c \in Class
      PROVE  /\ AtMostOne(Places(l, {<<"responses", c>>}))
             /\ Places(l, {<<"responses", c>>}) = {} <=> c # s
  <2>1. \A i \in 1..Len(l) : l[i] \in {<<"responses", c>>} => l[i][1] = "responses" /\ c = s
    BY <1>1, <1>3 DEF GoodList
  <2>2. c = s => \E i \in 1..Len(l) : l[i] \in {<<"responses", c>>}
    BY Zenon, <1>1 DEF GoodList
  <2> QED
    BY Zenon, <1>1, <2>1, <2>2, FamilyPlaces
<1>8. ASSUME NEW c \in Class
      PROVE  /\ AtMostOne(Places(l, ClassBucketCells(c)))
             /\ Places(l, ClassBucketCells(c)) # {} => c = s
  <2>1. \A i \in 1..Len(l) : l[i] \in ClassBucketCells(c) => l[i][1] = "class_bucket" /\ c = s
    BY <1>1, <1>3 DEF GoodList, ClassBucketCells
  <2> QED
    BY Zenon, <1>1, <2>1, FamilyPlaces
<1>9. /\ AtMostOne(Places(l, {<<"no_route">>}))
      /\ Places(l, {<<"no_route">>}) # {} => s = "4xx"
  <2>1. \A i \in 1..Len(l) : l[i] \in {<<"no_route">>} => l[i][1] = "no_route" /\ s = "4xx"
    <3> SUFFICES ASSUME NEW i \in 1..Len(l), l[i] = <<"no_route">>
                 PROVE  s = "4xx"
      OBVIOUS
    <3>1. x \notin Statuses /\ l[i] = <<x>>
      BY <1>1 DEF GoodList
    <3>2. x = "no_route"
      BY <3>1
    <3> QED
      BY <1>3, <3>1, <3>2
  <2> QED
    BY Zenon, <1>1, <2>1, FamilyPlaces
<1>10. /\ AtMostOne(Places(l, {<<"unknown">>, <<"failed">>}))
       /\ Places(l, {<<"unknown">>, <<"failed">>}) # {} => s = "5xx"
  <2>1. \A i \in 1..Len(l) : l[i] \in {<<"unknown">>, <<"failed">>} => l[i][1] = x /\ s = "5xx"
    BY <1>1, <1>3 DEF GoodList
  <2> QED
    BY Zenon, <1>1, <2>1, FamilyPlaces
<1> QED
  BY Zenon, <1>4, <1>5, <1>6, <1>7, <1>8, <1>9, <1>10

-----------------------------------------------------------------------------
(* Steps *)

\* MetricsType is inductive.
LEMMA MetricsTypeStep == MetricsType /\ [Next]_vars => MetricsType'
<1> SUFFICES ASSUME MetricsType, [Next]_vars PROVE MetricsType'
  OBVIOUS
<1> USE DEF MetricsType
<1>1. ASSUME NEW r \in Requests, Start(r) PROVE MetricsType'
  <2>1. Total \in Cells /\ count' \in [Cells -> Nat]
    BY <1>1 DEF Start, Cells, Total
  <2> QED
    BY <1>1, <2>1 DEF Start
<1>2. ASSUME NEW r \in Requests, NEW x \in Results, NEW b \in 1..(Buckets + 1), Handled(r, x, b)
      PROVE  MetricsType'
  <2> DEFINE l == ListOf(x, b)
  <2>1. l \in Seq(Cells \ {Total}) /\ l # <<>>
    BY ListCells DEF GoodList
  <2>2. todo' = [todo EXCEPT ![r] = l] /\ pc' = [pc EXCEPT ![r] = "observe"] /\ UNCHANGED count
    BY <1>2 DEF Handled, ListOf
  <2> HIDE DEF l
  <2> QED
    BY <2>1, <2>2
<1>3. ASSUME NEW r \in Requests, Dropped(r) PROVE MetricsType'
  BY <1>3 DEF Dropped
<1>4. ASSUME NEW r \in Requests, Bump(r) PROVE MetricsType'
  <2> DEFINE l == todo[r]
  <2>1. l \in Seq(Cells \ {Total}) /\ l # <<>> /\ pc[r] = "observe"
    BY <1>4 DEF Bump
  <2>2. Head(l) \in Cells /\ Tail(l) \in Seq(Cells \ {Total})
    BY <2>1
  <2>3. /\ count' = [count EXCEPT ![Head(l)] = @ + 1]
        /\ todo' = [todo EXCEPT ![r] = Tail(l)]
        /\ pc' = IF Tail(l) = <<>> THEN [pc EXCEPT ![r] = "done"] ELSE pc
    BY <1>4 DEF Bump
  <2> HIDE DEF l
  <2>4. count' \in [Cells -> Nat]
    BY <2>2, <2>3
  <2>5. todo' \in [Requests -> Seq(Cells \ {Total})]
    BY <2>2, <2>3
  <2>6. pc' \in [Requests -> {"new", "handle", "observe", "done", "dropped"}]
    BY <2>3
  <2>7. \A q \in Requests : pc'[q] = "observe" <=> todo'[q] # <<>>
    BY Zenon, <2>1, <2>3
  <2> QED
    BY <2>4, <2>5, <2>6, <2>7
<1>5. CASE Load \/ Idle \/ UNCHANGED vars
  BY <1>5 DEF Load, Idle, vars
<1> QED
  BY <1>1, <1>2, <1>3, <1>4, <1>5 DEF Next

\* The bumps of the cells in X, made and owed.
Due(X) == Sum(count, X) + Cardinality(Owed(todo, X))

\* Both are finite numbers.
FiniteInv ==
  \A X \in SUBSET Cells : IsFiniteSet(Units(count, X)) /\ IsFiniteSet(Owed(todo, X))

\* What is made and what is owed are numbers.
LEMMA DueNat ==
  ASSUME FiniteInv, NEW X \in SUBSET Cells
  PROVE  Sum(count, X) \in Nat /\ Cardinality(Owed(todo, X)) \in Nat /\ Due(X) \in Nat
<1>1. IsFiniteSet(Units(count, X)) /\ IsFiniteSet(Owed(todo, X))
  BY DEF FiniteInv
<1>2. Sum(count, X) \in Nat /\ Cardinality(Owed(todo, X)) \in Nat
  BY <1>1, FS_CardinalityType DEF Sum
<1> QED
  BY <1>2 DEF Due

\* A request that starts is counted.
LEMMA DueStart ==
  ASSUME MetricsType, FiniteInv, NEW r \in Requests, Start(r), NEW X \in SUBSET Cells
  PROVE  /\ IsFiniteSet(Units(count, X))' /\ IsFiniteSet(Owed(todo, X))'
         /\ Due(X)' = Due(X) + (IF Total \in X THEN 1 ELSE 0)
<1>1. Total \in Cells /\ count' = [count EXCEPT ![Total] = @ + 1] /\ todo' = todo
  BY DEF Start, Cells, Total
<1>2. IsFiniteSet(Units(count, X)) /\ IsFiniteSet(Owed(todo, X)) /\ count \in [Cells -> Nat]
  BY DEF FiniteInv, MetricsType
<1>3. /\ IsFiniteSet(Units(count', X))
      /\ Sum(count', X) = Sum(count, X) + (IF Total \in X THEN 1 ELSE 0)
  BY Zenon, <1>1, <1>2, SumBump
<1>4. Sum(count, X) \in Nat /\ Cardinality(Owed(todo, X)) \in Nat
  BY DueNat
<1>5. Units(count, X)' = Units(count', X) /\ Sum(count, X)' = Sum(count', X)
  BY DEF Units, Sum
<1>6. Owed(todo, X)' = Owed(todo, X)
  BY <1>1 DEF Owed
<1>7. Due(X)' = Sum(count', X) + Cardinality(Owed(todo, X))
  BY <1>5, <1>6 DEF Due
<1> QED
  BY <1>2, <1>3, <1>4, <1>5, <1>6, <1>7 DEF Due

\* A bump moves one from what is owed to what is made.
LEMMA DueBump ==
  ASSUME MetricsType, FiniteInv, NEW r \in Requests, Bump(r), NEW X \in SUBSET Cells
  PROVE  /\ IsFiniteSet(Units(count, X))' /\ IsFiniteSet(Owed(todo, X))'
         /\ Due(X)' = Due(X)
<1> DEFINE y == Head(todo[r])
<1>1. /\ todo \in [Requests -> Seq(Cells \ {Total})] /\ todo[r] # <<>>
      /\ count' = [count EXCEPT ![y] = @ + 1]
      /\ todo' = [todo EXCEPT ![r] = Tail(@)]
  BY DEF Bump, MetricsType
<1>2. y \in Cells
  BY <1>1
<1> HIDE DEF y
<1>3. IsFiniteSet(Units(count, X)) /\ IsFiniteSet(Owed(todo, X)) /\ count \in [Cells -> Nat]
  BY DEF FiniteInv, MetricsType
<1>4. /\ IsFiniteSet(Units(count', X))
      /\ Sum(count', X) = Sum(count, X) + (IF y \in X THEN 1 ELSE 0)
  BY Zenon, <1>1, <1>2, <1>3, SumBump
<1>5. /\ IsFiniteSet(Owed(todo', X))
      /\ Cardinality(Owed(todo', X)) \in Nat
      /\ Cardinality(Owed(todo, X)) = Cardinality(Owed(todo', X)) + (IF y \in X THEN 1 ELSE 0)
  <2> DEFINE p == <<r, Len(todo[r])>>
  <2>1. Owed(todo', X) = Owed(todo, X) \ {p} /\ (p \in Owed(todo, X) <=> y \in X)
    <3>1. todo \in [Requests -> Seq(Cells \ {Total})] /\ todo[r] # <<>>
      BY <1>1
    <3>2. /\ Owed([todo EXCEPT ![r] = Tail(@)], X) = Owed(todo, X) \ {<<r, Len(todo[r])>>}
          /\ <<r, Len(todo[r])>> \in Owed(todo, X) <=> Head(todo[r]) \in X
      BY Zenon, <3>1, OwedBump
    <3> QED
      BY Zenon, <1>1, <3>2 DEF y
  <2> HIDE DEF p
  <2>2. IsFiniteSet(Owed(todo, X) \ {p}) /\ Cardinality(Owed(todo, X) \ {p}) \in Nat
    BY Zenon, <1>3, OneMore
  <2>3. CASE y \in X
    <3>1. Cardinality(Owed(todo, X)) = Cardinality(Owed(todo, X) \ {p}) + 1
      BY <1>3, <2>1, <2>3, OneMore
    <3> QED
      BY <2>1, <2>2, <2>3, <3>1
  <2>4. CASE y \notin X
    <3>1. Owed(todo', X) = Owed(todo, X)
      BY <2>1, <2>4
    <3> QED
      BY <2>1, <2>2, <2>4, <3>1
  <2> QED
    BY <2>3, <2>4
<1>6. Sum(count, X) \in Nat
  BY DueNat
<1>7. Units(count, X)' = Units(count', X) /\ Sum(count, X)' = Sum(count', X)
  BY DEF Units, Sum
<1>8. Owed(todo, X)' = Owed(todo', X)
  BY DEF Owed
<1>9. Due(X)' = Sum(count', X) + Cardinality(Owed(todo', X))
  BY <1>7, <1>8 DEF Due
<1> QED
  BY <1>4, <1>5, <1>6, <1>7, <1>8, <1>9 DEF Due

\* A request that is answered owes what its list says.
LEMMA DueHandled ==
  ASSUME MetricsType, FiniteInv, NEW r \in Requests, NEW x \in Results,
         NEW b \in 1..(Buckets + 1), Handled(r, x, b), NEW X \in SUBSET Cells
  PROVE  /\ IsFiniteSet(Units(count, X))' /\ IsFiniteSet(Owed(todo, X))'
         /\ AtMostOne(Places(ListOf(x, b), X)) =>
              Due(X)' = Due(X) + (IF Places(ListOf(x, b), X) = {} THEN 0 ELSE 1)
<1> DEFINE l == ListOf(x, b)
<1>1. /\ todo \in [Requests -> Seq(Cells \ {Total})] /\ todo[r] = <<>>
      /\ todo' = [todo EXCEPT ![r] = l] /\ UNCHANGED count
  BY DEF Handled, MetricsType, ListOf
<1>2. l \in Seq(Cells)
  BY ListCells DEF GoodList
<1> HIDE DEF l
<1>3. IsFiniteSet(Units(count, X)) /\ IsFiniteSet(Owed(todo, X))
  BY DEF FiniteInv
<1>4. Units(count, X)' = Units(count, X) /\ Sum(count, X)' = Sum(count, X)
  BY <1>1 DEF Units, Sum
<1>5. Owed(todo, X)' = Owed(todo', X)
  BY DEF Owed
<1>6. ASSUME AtMostOne(Places(l, X))
      PROVE  Cardinality(Owed(todo', X)) =
                  Cardinality(Owed(todo, X)) + (IF Places(l, X) = {} THEN 0 ELSE 1)
  <2>1. PICK q : Places(l, X) \subseteq {q}
    BY <1>6 DEF AtMostOne
  <2> QED
    BY Zenon, <1>1, <1>2, <1>3, <2>1, OwedList
<1>7. Sum(count, X) \in Nat /\ Cardinality(Owed(todo, X)) \in Nat
  BY DueNat
<1>8. Due(X)' = Sum(count, X) + Cardinality(Owed(todo', X))
  BY <1>4, <1>5 DEF Due
<1>9. IsFiniteSet(Owed(todo', X))
  BY Zenon, <1>1, <1>2, <1>3, OwedFinite
<1> QED
  BY <1>3, <1>4, <1>5, <1>6, <1>7, <1>8, <1>9 DEF Due, l

-----------------------------------------------------------------------------
(* The counters agree *)

\* The requests that are counted and not yet answered.
Handling == {r \in Requests : pc[r] = "handle"}

\* Each class is timed as often as it is counted, bumps owed included, no
\* oftener in its buckets, and every error is counted in its class.
LedgerInv ==
  /\ \A c \in Class :
       /\ Due({<<"class_sum", c>>}) = Due({<<"responses", c>>})
       /\ Due(ClassBucketCells(c)) <= Due({<<"responses", c>>})
  /\ Due({<<"no_route">>}) <= Due({<<"responses", "4xx">>})
  /\ Due({<<"unknown">>, <<"failed">>}) <= Due({<<"responses", "5xx">>})

\* No more durations than requests that started and are not being handled.
StartInv == Due(BucketCells) + Cardinality(Handling) <= Due({Total})

\* The cells the invariants speak of.
LEMMA Families ==
  /\ {Total} \in SUBSET Cells /\ BucketCells \in SUBSET Cells
  /\ {<<"no_route">>} \in SUBSET Cells /\ {<<"unknown">>, <<"failed">>} \in SUBSET Cells
  /\ Total \notin BucketCells
  /\ Total \notin {<<"no_route">>} /\ Total \notin {<<"unknown">>, <<"failed">>}
  /\ \A c \in Class :
       /\ {<<"class_sum", c>>} \in SUBSET Cells /\ {<<"responses", c>>} \in SUBSET Cells
       /\ ClassBucketCells(c) \in SUBSET Cells
       /\ Total \notin {<<"class_sum", c>>} /\ Total \notin {<<"responses", c>>}
       /\ Total \notin ClassBucketCells(c)
<1>1. Total \notin BucketCells /\ \A c \in Class : Total \notin ClassBucketCells(c)
  BY DEF Total, BucketCells, ClassBucketCells
<1>2. /\ {Total} \in SUBSET Cells /\ BucketCells \in SUBSET Cells
      /\ {<<"no_route">>} \in SUBSET Cells /\ {<<"unknown">>, <<"failed">>} \in SUBSET Cells
  BY DEF Cells, Total, BucketCells
<1>3. \A c \in Class :
        /\ {<<"class_sum", c>>} \in SUBSET Cells /\ {<<"responses", c>>} \in SUBSET Cells
        /\ ClassBucketCells(c) \in SUBSET Cells
  BY DEF Cells, ClassBucketCells
<1>4. /\ Total \notin {<<"no_route">>} /\ Total \notin {<<"unknown">>, <<"failed">>}
      /\ \A c \in Class : Total \notin {<<"class_sum", c>>} /\ Total \notin {<<"responses", c>>}
  BY DEF Total
<1> QED
  BY <1>1, <1>2, <1>3, <1>4

\* A step that leaves the counters and the debts alone.
LEMMA DueKept ==
  ASSUME UNCHANGED <<count, todo>>
  PROVE  (FiniteInv => FiniteInv') /\ \A X : Due(X)' = Due(X)
BY Zenon DEF FiniteInv, Due, Units, Sum, Owed

\* FiniteInv is inductive relative to MetricsType.
LEMMA FiniteStep == MetricsType /\ FiniteInv /\ [Next]_vars => FiniteInv'
<1> SUFFICES ASSUME MetricsType, FiniteInv, [Next]_vars PROVE FiniteInv'
  OBVIOUS
<1>1. ASSUME NEW r \in Requests, Start(r) PROVE FiniteInv'
  BY <1>1, DueStart DEF FiniteInv
<1>2. ASSUME NEW r \in Requests, NEW x \in Results, NEW b \in 1..(Buckets + 1), Handled(r, x, b)
      PROVE  FiniteInv'
  BY <1>2, DueHandled DEF FiniteInv
<1>3. ASSUME NEW r \in Requests, Dropped(r) PROVE FiniteInv'
  BY <1>3, DueKept DEF Dropped
<1>4. ASSUME NEW r \in Requests, Bump(r) PROVE FiniteInv'
  BY <1>4, DueBump DEF FiniteInv
<1>5. CASE Load \/ Idle \/ UNCHANGED vars
  BY <1>5, DueKept DEF Load, Idle, vars
<1> QED
  BY <1>1, <1>2, <1>3, <1>4, <1>5 DEF Next

\* LedgerInv is inductive relative to MetricsType and FiniteInv.
LEMMA LedgerStep == MetricsType /\ FiniteInv /\ LedgerInv /\ [Next]_vars => LedgerInv'
<1> SUFFICES ASSUME MetricsType, FiniteInv, LedgerInv, [Next]_vars PROVE LedgerInv'
  OBVIOUS
<1>1. ASSUME NEW r \in Requests, Start(r) PROVE LedgerInv'
  <2>1. \A X \in SUBSET Cells : Total \notin X => Due(X)' = Due(X)
    BY <1>1, DueStart, DueNat
  <2> QED
    BY <2>1, Families DEF LedgerInv, Class
<1>2. ASSUME NEW r \in Requests, NEW x \in Results, NEW b \in 1..(Buckets + 1), Handled(r, x, b)
      PROVE  LedgerInv'
  <2> DEFINE l == ListOf(x, b)
             s == StatusForMetrics(x)
             new(X) == IF Places(l, X) = {} THEN 0 ELSE 1
  <2>1. \A X \in SUBSET Cells :
          Due(X) \in Nat /\ (AtMostOne(Places(l, X)) => Due(X)' = Due(X) + new(X))
    BY <1>2, DueHandled, DueNat
  <2>2. /\ \A c \in Class :
             /\ Due({<<"class_sum", c>>})' = Due({<<"class_sum", c>>}) + new({<<"class_sum", c>>})
             /\ Due({<<"responses", c>>})' = Due({<<"responses", c>>}) + new({<<"responses", c>>})
             /\ Due(ClassBucketCells(c))' = Due(ClassBucketCells(c)) + new(ClassBucketCells(c))
        /\ Due({<<"no_route">>})' = Due({<<"no_route">>}) + new({<<"no_route">>})
        /\ Due({<<"unknown">>, <<"failed">>})' =
             Due({<<"unknown">>, <<"failed">>}) + new({<<"unknown">>, <<"failed">>})
    BY Zenon, <2>1, ListPlaces, Families
  <2>3. /\ \A c \in Class :
             /\ new({<<"class_sum", c>>}) = new({<<"responses", c>>})
             /\ new(ClassBucketCells(c)) <= new({<<"responses", c>>})
        /\ new({<<"no_route">>}) <= new({<<"responses", "4xx">>})
        /\ new({<<"unknown">>, <<"failed">>}) <= new({<<"responses", "5xx">>})
    BY ListPlaces DEF Class
  <2>4. \A X : new(X) \in Nat
    OBVIOUS
  <2> HIDE DEF new
  <2> QED
    BY <2>1, <2>2, <2>3, <2>4, Families DEF LedgerInv, Class
<1>3. ASSUME NEW r \in Requests, Dropped(r) PROVE LedgerInv'
  BY <1>3, DueKept DEF Dropped, LedgerInv
<1>4. ASSUME NEW r \in Requests, Bump(r) PROVE LedgerInv'
  <2>1. \A X \in SUBSET Cells : Due(X)' = Due(X)
    BY <1>4, DueBump
  <2> QED
    BY <2>1, Families DEF LedgerInv, Class
<1>5. CASE Load \/ Idle \/ UNCHANGED vars
  BY Zenon, <1>5, DueKept DEF Load, Idle, vars, LedgerInv
<1> QED
  BY <1>1, <1>2, <1>3, <1>4, <1>5 DEF Next

\* StartInv is inductive relative to MetricsType and FiniteInv.
LEMMA StartStep == MetricsType /\ FiniteInv /\ StartInv /\ [Next]_vars => StartInv'
<1> SUFFICES ASSUME MetricsType, FiniteInv, StartInv, [Next]_vars PROVE StartInv'
  OBVIOUS
<1> DEFINE h == Cardinality(Handling)
<1>1. IsFiniteSet(Handling) /\ h \in Nat
  <2>1. Handling \in SUBSET Requests /\ IsFiniteSet(Requests)
    BY MetricsAssumption DEF Handling
  <2>2. IsFiniteSet(Handling)
    BY <2>1, FS_Subset
  <2> QED
    BY <2>2, FS_CardinalityType
<1>2. Due(BucketCells) \in Nat /\ Due({Total}) \in Nat
  BY DueNat, Families
<1>3. \A r \in Requests : pc[r] = "handle" => h = Cardinality(Handling \ {r}) + 1
  <2> SUFFICES ASSUME NEW r \in Requests, pc[r] = "handle"
               PROVE  h = Cardinality(Handling \ {r}) + 1
    OBVIOUS
  <2>1. r \in Handling
    BY DEF Handling
  <2> QED
    BY <1>1, <2>1, OneMore
<1>4. \A r \in Requests : Cardinality(Handling \ {r}) \in Nat
  <2> SUFFICES ASSUME NEW r \in Requests PROVE Cardinality(Handling \ {r}) \in Nat
    OBVIOUS
  <2>1. IsFiniteSet(Handling \ {r})
    BY <1>1, OneMore
  <2> QED
    BY Zenon, <2>1, OneMore
<1>5. ASSUME NEW r \in Requests, Start(r) PROVE StartInv'
  <2>1. Due(BucketCells)' = Due(BucketCells) /\ Due({Total})' = Due({Total}) + 1
    BY <1>2, <1>5, DueStart, Families
  <2>2. Handling' = Handling \cup {r} /\ r \notin Handling
    BY <1>5 DEF Start, Handling, MetricsType
  <2>3. Cardinality(Handling \cup {r}) = h + 1
    BY <1>1, <2>2, OneMore
  <2> QED
    BY <1>1, <1>2, <2>1, <2>2, <2>3 DEF StartInv
<1>6. ASSUME NEW r \in Requests, NEW x \in Results, NEW b \in 1..(Buckets + 1), Handled(r, x, b)
      PROVE  StartInv'
  <2> DEFINE l == ListOf(x, b)
             n == IF Places(l, BucketCells) = {} THEN 0 ELSE 1
  <2>1. AtMostOne(Places(l, BucketCells)) /\ Places(l, {Total}) = {} /\ AtMostOne(Places(l, {Total}))
    <3>1. AtMostOne(Places(l, BucketCells)) /\ Places(l, {Total}) = {}
      BY ListPlaces
    <3>2. AtMostOne({})
      BY DEF AtMostOne
    <3> QED
      BY <3>1, <3>2
  <2>2. Due(BucketCells)' = Due(BucketCells) + n /\ Due({Total})' = Due({Total}) + 0
    BY Zenon, <1>6, <2>1, DueHandled, Families
  <2>3. Handling' = Handling \ {r} /\ pc[r] = "handle"
    BY <1>6 DEF Handled, Handling, MetricsType
  <2>4. n \in 0..1
    OBVIOUS
  <2> HIDE DEF n
  <2> QED
    BY <1>1, <1>2, <1>3, <1>4, <2>2, <2>3, <2>4 DEF StartInv
<1>7. ASSUME NEW r \in Requests, Dropped(r) PROVE StartInv'
  <2>1. Due(BucketCells)' = Due(BucketCells) /\ Due({Total})' = Due({Total})
    BY <1>7, DueKept DEF Dropped
  <2>2. Handling' = Handling \ {r} /\ pc[r] = "handle"
    BY <1>7 DEF Dropped, Handling, MetricsType
  <2> QED
    BY <1>1, <1>2, <1>3, <1>4, <2>1, <2>2 DEF StartInv
<1>8. ASSUME NEW r \in Requests, Bump(r) PROVE StartInv'
  <2>1. Due(BucketCells)' = Due(BucketCells) /\ Due({Total})' = Due({Total})
    BY <1>8, DueBump, Families
  <2>2. Handling' = Handling
    BY <1>8 DEF Bump, Handling, MetricsType
  <2> QED
    BY <2>1, <2>2 DEF StartInv
<1>9. CASE Load \/ Idle \/ UNCHANGED vars
  <2>1. Due(BucketCells)' = Due(BucketCells) /\ Due({Total})' = Due({Total})
    BY <1>9, DueKept DEF Load, Idle, vars
  <2>2. Handling' = Handling
    BY <1>9 DEF Load, Idle, vars, Handling
  <2> QED
    BY <2>1, <2>2 DEF StartInv
<1> QED
  BY <1>5, <1>6, <1>7, <1>8, <1>9 DEF Next

MetricsInv == MetricsType /\ FiniteInv /\ LedgerInv /\ StartInv

\* Nothing is counted or owed at first.
LEMMA MetricsInit == Init => MetricsInv
<1> SUFFICES ASSUME Init PROVE MetricsInv
  OBVIOUS
<1>1. MetricsType
  BY DEF Init, MetricsType
<1>2. \A X \in SUBSET Cells : Units(count, X) = {} /\ Owed(todo, X) = {}
  BY DEF Init, Units, Owed, Places
<1>3. IsFiniteSet({}) /\ Cardinality({}) = 0
  BY FS_EmptySet
<1>4. \A X \in SUBSET Cells : Due(X) = 0
  BY <1>2, <1>3 DEF Due, Sum
<1>5. FiniteInv
  BY <1>2, <1>3 DEF FiniteInv
<1>6. LedgerInv
  BY <1>4, Families DEF LedgerInv, Class
<1>7. Handling = {}
  BY DEF Init, Handling
<1>8. StartInv
  BY <1>3, <1>4, <1>7, Families DEF StartInv
<1> QED
  BY <1>1, <1>5, <1>6, <1>8 DEF MetricsInv

\* MetricsInv holds in every state.
LEMMA MetricsCorrect == Spec => []MetricsInv
<1>1. MetricsInv /\ [Next]_vars => MetricsInv'
  BY MetricsTypeStep, FiniteStep, LedgerStep, StartStep DEF MetricsInv
<1> QED
  BY <1>1, MetricsInit, PTL DEF Spec

\* Whenever no request is half way through its bookkeeping each class has as
\* many durations as responses, no more in its buckets, and every error among
\* its responses, however many requests were counted at the same time.
THEOREM ReconcileCorrect == Spec => []CountersReconcile
<1>1. MetricsInv => CountersReconcile
  <2> SUFFICES ASSUME MetricsInv, \A r \in Requests : pc[r] # "observe"
               PROVE  /\ \A c \in Class :
                           /\ count[<<"class_sum", c>>] = count[<<"responses", c>>]
                           /\ Sum(count, ClassBucketCells(c)) <= count[<<"responses", c>>]
                      /\ count[<<"no_route">>] <= count[<<"responses", "4xx">>]
                      /\ count[<<"unknown">>] + count[<<"failed">>] <= count[<<"responses", "5xx">>]
    BY DEF CountersReconcile
  <2>1. \A r \in Requests : todo[r] = <<>>
    BY DEF MetricsInv, MetricsType
  <2>2. \A X \in SUBSET Cells : Owed(todo, X) = {}
    BY <2>1 DEF Owed, Places
  <2>3. \A X \in SUBSET Cells : Due(X) = Sum(count, X)
    BY <2>2, FS_EmptySet, DueNat DEF Due, MetricsInv
  <2>4. \A y \in Cells : count[y] \in Nat /\ Sum(count, {y}) = count[y]
    BY SumOne DEF MetricsInv, MetricsType
  <2>5. \A y \in Cells : Due({y}) = count[y]
    BY Zenon, <2>3, <2>4
  <2>6. Due({<<"unknown">>, <<"failed">>}) = count[<<"unknown">>] + count[<<"failed">>]
    <3>1. <<"unknown">> \in Cells /\ <<"failed">> \in Cells /\ <<"unknown">> # <<"failed">>
      BY DEF Cells
    <3> QED
      BY Zenon, <2>3, <2>4, <3>1, SumTwo, Families
  <2>7. /\ <<"no_route">> \in Cells
        /\ \A c \in Class : <<"class_sum", c>> \in Cells /\ <<"responses", c>> \in Cells
    BY Families
  <2> QED
    BY Zenon, <2>3, <2>5, <2>6, <2>7, Families DEF MetricsInv, LedgerInv, Class
<1> QED
  BY <1>1, MetricsCorrect, PTL

-----------------------------------------------------------------------------
(* A scrape *)

\* Where the elements of a concatenation are.
LEMMA Concat ==
  ASSUME NEW S, NEW p \in Seq(S), NEW q \in Seq(S)
  PROVE  /\ p \o q \in Seq(S) /\ Len(p \o q) = Len(p) + Len(q)
         /\ Len(p) \in Nat /\ Len(q) \in Nat
         /\ \A k \in 1..Len(p) : (p \o q)[k] = p[k]
         /\ \A k \in 1..Len(q) : (p \o q)[Len(p) + k] = q[k]
OBVIOUS

\* Cells of the families in F only, one list after another.
LEMMA ConcatFamilies ==
  ASSUME NEW F, NEW p \in Seq(Cells), NEW q \in Seq(Cells),
         \A k \in 1..Len(p) : p[k][1] \in F, \A k \in 1..Len(q) : q[k][1] \in F
  PROVE  p \o q \in Seq(Cells) /\ \A k \in 1..Len(p \o q) : (p \o q)[k][1] \in F
<1> DEFINE r == p \o q
<1>1. /\ r \in Seq(Cells) /\ Len(r) = Len(p) + Len(q) /\ Len(p) \in Nat /\ Len(q) \in Nat
      /\ \A k \in 1..Len(p) : r[k] = p[k]
      /\ \A k \in 1..Len(q) : r[Len(p) + k] = q[k]
  BY Concat
<1> HIDE DEF r
<1>2. ASSUME NEW k \in 1..Len(r) PROVE r[k][1] \in F
  <2>1. CASE k <= Len(p)
    BY <1>1, <2>1
  <2>2. CASE k > Len(p)
    <3>1. k - Len(p) \in 1..Len(q) /\ k = Len(p) + (k - Len(p))
      BY <1>1, <2>2
    <3>2. r[k] = q[k - Len(p)]
      BY <1>1, <3>1
    <3> QED
      BY <3>1, <3>2
  <2> QED
    BY <1>1, <2>1, <2>2
<1> QED
  BY <1>1, <1>2 DEF r

\* The loads in order: eight counters, then the buckets, then requests_total
\* for +Inf; what comes after is neither.
LEMMA LoadOrder ==
  /\ RenderOrder \in Seq(Cells) /\ Len(RenderOrder) >= Buckets + 10
  /\ \A b \in 1..Buckets : RenderOrder[8 + b] = <<"bucket", b>>
  /\ RenderOrder[9 + Buckets] = Total
  /\ \A k \in 1..Len(RenderOrder) :
       k > 9 + Buckets => RenderOrder[k] # Total /\ RenderOrder[k] \notin BucketCells
<1> USE MetricsAssumption
<1> DEFINE T == << <<"total">>, <<"sum">> >>
           h == HeaderLoads
           u == h \o BucketOrder
           v == u \o T
<1>1. h \in Seq(Cells) /\ Len(h) = 8
  <2>1. \A k \in 1..8 : h[k] \in Cells
    BY DEF HeaderLoads, Cells, Class
  <2> QED
    BY <2>1 DEF HeaderLoads
<1>2. /\ BucketOrder \in Seq(Cells) /\ Len(BucketOrder) = Buckets
      /\ \A b \in 1..Buckets : BucketOrder[b] = <<"bucket", b>>
  BY DEF BucketOrder, Cells
<1>3. T \in Seq(Cells) /\ Len(T) = 2 /\ T[1] = Total /\ T[2] = <<"sum">>
  BY DEF Cells, Total
<1> DEFINE F == {"class_bucket", "responses", "class_sum"}
           Late(p) == p \in Seq(Cells) /\ \A k \in 1..Len(p) : p[k][1] \in F
<1>4. \A c \in Class : Late(ClassOrder(c))
  <2> SUFFICES ASSUME NEW c \in Class PROVE Late(ClassOrder(c))
    OBVIOUS
  <2> DEFINE p == [b \in 1..Buckets |-> <<"class_bucket", c, b>>]
             q == << <<"responses", c>>, <<"class_sum", c>> >>
  <2>1. p \in Seq(Cells) /\ \A k \in 1..Len(p) : p[k][1] \in F
    BY DEF Cells
  <2>2. q \in Seq(Cells) /\ \A k \in 1..Len(q) : q[k][1] \in F
    BY DEF Cells
  <2>3. ClassOrder(c) = p \o q
    BY DEF ClassOrder
  <2> HIDE DEF p, q, F
  <2> QED
    BY <2>1, <2>2, <2>3, ConcatFamilies
<1>5. ClassLoads \in Seq(Cells) /\ \A k \in 1..Len(ClassLoads) : ClassLoads[k][1] \in F
  <2> HIDE DEF F
  <2>1. /\ Late(ClassOrder("2xx")) /\ Late(ClassOrder("3xx"))
        /\ Late(ClassOrder("4xx")) /\ Late(ClassOrder("5xx"))
    BY <1>4 DEF Class
  <2>2. \A p, q : Late(p) /\ Late(q) => Late(p \o q)
    BY ConcatFamilies
  <2> HIDE DEF Late
  <2>3. Late(ClassLoads)
    BY <2>1, <2>2 DEF ClassLoads
  <2> QED
    BY <2>3 DEF Late
<1>6. \A y : y[1] \in F => y # Total /\ y \notin BucketCells
  BY DEF Total, BucketCells
<1> HIDE DEF F, h, T
<1>7. /\ u \in Seq(Cells) /\ Len(u) = 8 + Buckets
      /\ \A b \in 1..Buckets : u[8 + b] = <<"bucket", b>>
  <2>1. h \in Seq(Cells) /\ BucketOrder \in Seq(Cells)
    BY <1>1, <1>2
  <2>2. /\ u \in Seq(Cells) /\ Len(u) = Len(h) + Len(BucketOrder)
        /\ \A k \in 1..Len(BucketOrder) : u[Len(h) + k] = BucketOrder[k]
    BY <2>1, Concat
  <2> HIDE DEF u
  <2> QED
    BY <1>1, <1>2, <2>2
<1> HIDE DEF u
<1>8. /\ v \in Seq(Cells) /\ Len(v) = 10 + Buckets
      /\ \A b \in 1..Buckets : v[8 + b] = <<"bucket", b>>
      /\ v[9 + Buckets] = Total /\ v[10 + Buckets] = <<"sum">>
  <2>1. /\ v \in Seq(Cells) /\ Len(v) = Len(u) + Len(T)
        /\ \A k \in 1..Len(u) : v[k] = u[k]
        /\ \A k \in 1..Len(T) : v[Len(u) + k] = T[k]
    <3>1. u \in Seq(Cells) /\ T \in Seq(Cells)
      BY <1>3, <1>7
    <3> QED
      BY <3>1, Concat
  <2> HIDE DEF v
  <2>2. Len(v) = 10 + Buckets
    BY <1>3, <1>7, <2>1
  <2>3. \A b \in 1..Buckets : 8 + b \in 1..Len(u)
    BY <1>7
  <2>4. v[(8 + Buckets) + 1] = T[1] /\ v[(8 + Buckets) + 2] = T[2]
    BY <1>3, <1>7, <2>1
  <2>5. (8 + Buckets) + 1 = 9 + Buckets /\ (8 + Buckets) + 2 = 10 + Buckets
    OBVIOUS
  <2> QED
    BY <1>3, <1>7, <2>1, <2>2, <2>3, <2>4, <2>5
<1> HIDE DEF v
<1>9. /\ RenderOrder \in Seq(Cells) /\ Len(RenderOrder) = Len(v) + Len(ClassLoads)
      /\ \A k \in 1..Len(v) : RenderOrder[k] = v[k]
      /\ \A k \in 1..Len(ClassLoads) : RenderOrder[Len(v) + k] = ClassLoads[k]
      /\ Len(ClassLoads) \in Nat
  <2>1. RenderOrder = v \o ClassLoads
    BY DEF RenderOrder, v, u, h, T
  <2>2. v \in Seq(Cells) /\ ClassLoads \in Seq(Cells)
    BY <1>5, <1>8
  <2> QED
    BY <2>1, <2>2, Concat
<1>10. ASSUME NEW k \in 1..Len(RenderOrder), k > 9 + Buckets
       PROVE  RenderOrder[k] # Total /\ RenderOrder[k] \notin BucketCells
  <2>1. CASE k = 10 + Buckets
    BY <1>8, <1>9, <2>1 DEF Total, BucketCells
  <2>2. CASE k > 10 + Buckets
    <3>1. k - Len(v) \in 1..Len(ClassLoads) /\ k = Len(v) + (k - Len(v))
      BY <1>8, <1>9, <2>2
    <3>2. RenderOrder[k] = ClassLoads[k - Len(v)]
      BY <1>9, <3>1
    <3> QED
      BY <1>5, <1>6, <3>1, <3>2
  <2> QED
    BY <1>10, <2>1, <2>2
<1>11. \A b \in 1..Buckets : 8 + b \in 1..Len(v)
  BY <1>8
<1>12. 9 + Buckets \in 1..Len(v)
  BY <1>8
<1> QED
  BY <1>8, <1>9, <1>10, <1>11, <1>12

\* What a scrape has loaded of the buckets.
SeenBuckets == [y \in BucketCells |-> seen[8 + y[2]]]

\* Counters only grow, so what was loaded is no more than what they hold; and
\* once +Inf is loaded it is no less than the buckets that were loaded before.
\* HistogramMonotone alone says nothing of a scrape that is under way.
ScrapeInv ==
  /\ seen \in Seq(Nat) /\ Len(seen) <= Len(RenderOrder)
  /\ \A k \in 1..Len(seen) : seen[k] <= count[RenderOrder[k]]
  /\ Len(seen) > 8 + Buckets => Sum(SeenBuckets, BucketCells) <= seen[9 + Buckets]

\* No step lowers a counter.
LEMMA CountersGrow ==
  ASSUME MetricsType, [Next]_vars
  PROVE  \A y \in Cells : count[y] \in Nat /\ count'[y] \in Nat /\ count[y] <= count'[y]
<1>1. \A y \in Cells : count[y] \in Nat
  BY DEF MetricsType
<1>2. ASSUME NEW r \in Requests, Start(r) PROVE \A y \in Cells : count'[y] \in Nat /\ count[y] <= count'[y]
  <2>1. count' = [count EXCEPT ![Total] = @ + 1]
    BY <1>2 DEF Start, Total
  <2>2. DOMAIN count = Cells
    BY DEF MetricsType
  <2> QED
    BY <1>1, <2>1, <2>2
<1>3. ASSUME NEW r \in Requests, Bump(r) PROVE \A y \in Cells : count'[y] \in Nat /\ count[y] <= count'[y]
  BY <1>1, <1>3 DEF Bump, MetricsType
<1>4. CASE UNCHANGED count
  BY <1>1, <1>4
<1> QED
  BY <1>1, <1>2, <1>3, <1>4 DEF Next, Load, Idle, Handled, Dropped, vars

\* The buckets in a list of loads are the loads after the first eight.
LEMMA BucketLoads ==
  ASSUME NEW y \in BucketCells
  PROVE  /\ 8 + y[2] \in 9..(8 + Buckets) /\ RenderOrder[8 + y[2]] = y /\ y \in Cells
<1>1. PICK b \in 1..Buckets : y = <<"bucket", b>>
  BY DEF BucketCells
<1>2. y[2] = b /\ y \in Cells
  BY <1>1 DEF Cells
<1> QED
  BY <1>1, <1>2, LoadOrder, MetricsAssumption

\* ScrapeInv is inductive relative to MetricsInv.
LEMMA ScrapeStep == MetricsInv /\ ScrapeInv /\ [Next]_vars => ScrapeInv'
<1> SUFFICES ASSUME MetricsInv, ScrapeInv, [Next]_vars PROVE ScrapeInv'
  OBVIOUS
<1> DEFINE n == Len(seen)
           N == Len(RenderOrder)
<1>1. /\ RenderOrder \in Seq(Cells) /\ N \in Nat /\ \A k \in 1..N : RenderOrder[k] \in Cells
      /\ N >= Buckets + 10 /\ Buckets \in Nat
  BY LoadOrder, MetricsAssumption
<1>2. seen \in Seq(Nat) /\ n \in Nat /\ n <= N /\ \A k \in 1..n : seen[k] \in Nat
  BY DEF ScrapeInv
<1>3. \A y \in Cells : count[y] \in Nat /\ count'[y] \in Nat /\ count[y] <= count'[y]
  BY CountersGrow DEF MetricsInv
<1>4. CASE UNCHANGED seen
  <2>1. \A k \in 1..n : seen[k] <= count'[RenderOrder[k]]
    <3> SUFFICES ASSUME NEW k \in 1..n PROVE seen[k] <= count'[RenderOrder[k]]
      OBVIOUS
    <3>1. seen[k] <= count[RenderOrder[k]] /\ seen[k] \in Nat
      BY <1>2 DEF ScrapeInv
    <3>2. RenderOrder[k] \in Cells
      BY <1>1, <1>2
    <3> QED
      BY <1>3, <3>1, <3>2
  <2>2. SeenBuckets' = SeenBuckets
    BY <1>4 DEF SeenBuckets
  <2>3. Sum(SeenBuckets, BucketCells)' = Sum(SeenBuckets, BucketCells)
    BY <2>2 DEF Sum, Units
  <2> QED
    BY <1>4, <2>1, <2>3 DEF ScrapeInv
<1>5. CASE Load
  <2> DEFINE x == RenderOrder[n + 1]
             v == count[x]
  <2>1. n < N /\ seen' = Append(seen, v) /\ UNCHANGED count
    BY <1>5 DEF Load
  <2>2. x \in Cells /\ v \in Nat
    BY <1>1, <1>2, <1>3, <2>1
  <2> HIDE DEF v
  <2>3. /\ seen' \in Seq(Nat) /\ Len(seen') = n + 1 /\ seen'[n + 1] = v
        /\ \A k \in 1..n : seen'[k] = seen[k]
    BY <1>2, <2>1, <2>2
  <2>4. \A k \in 1..(n + 1) : seen'[k] <= count[RenderOrder[k]]
    <3> SUFFICES ASSUME NEW k \in 1..(n + 1) PROVE seen'[k] <= count[RenderOrder[k]]
      OBVIOUS
    <3>1. CASE k = n + 1
      BY <2>2, <2>3, <3>1 DEF v
    <3>2. CASE k \in 1..n
      BY Zenon, <2>3, <3>2 DEF ScrapeInv
    <3> QED
      BY <1>2, <3>1, <3>2
  <2>5. ASSUME n + 1 > 8 + Buckets
        PROVE  Sum(SeenBuckets, BucketCells)' <= seen'[9 + Buckets]
    <3>1. \A y \in BucketCells : seen'[8 + y[2]] = seen[8 + y[2]]
      <4> SUFFICES ASSUME NEW y \in BucketCells PROVE seen'[8 + y[2]] = seen[8 + y[2]]
        OBVIOUS
      <4> DEFINE k == 8 + y[2]
      <4>1. k \in 9..(8 + Buckets)
        BY BucketLoads
      <4> HIDE DEF k
      <4>2. k \in 1..n
        BY <1>1, <1>2, <2>5, <4>1
      <4>3. seen'[k] = seen[k]
        BY <2>3, <4>2
      <4> QED
        BY <4>3 DEF k
    <3>2. SeenBuckets' = SeenBuckets
      BY <3>1 DEF SeenBuckets
    <3>3. Sum(SeenBuckets, BucketCells)' = Sum(SeenBuckets, BucketCells)
      BY <3>2 DEF Sum, Units
    <3>4. CASE n > 8 + Buckets
      <4>1. seen'[9 + Buckets] = seen[9 + Buckets]
        <5>1. 9 + Buckets \in 1..n
          BY <1>1, <1>2, <3>4
        <5> QED
          BY <2>3, <5>1
      <4> QED
        BY <3>3, <3>4, <4>1 DEF ScrapeInv
    <3>5. CASE n = 8 + Buckets
      <4>1. \A y \in BucketCells :
              SeenBuckets[y] \in Nat /\ count[y] \in Nat /\ SeenBuckets[y] <= count[y]
        <5> SUFFICES ASSUME NEW y \in BucketCells
                     PROVE  SeenBuckets[y] \in Nat /\ count[y] \in Nat /\ SeenBuckets[y] <= count[y]
          OBVIOUS
        <5>1. 8 + y[2] \in 1..n /\ RenderOrder[8 + y[2]] = y /\ y \in Cells
          BY <1>1, <3>5, BucketLoads
        <5>2. seen[8 + y[2]] \in Nat /\ seen[8 + y[2]] <= count[RenderOrder[8 + y[2]]]
          BY <1>2, <5>1 DEF ScrapeInv
        <5> QED
          BY <1>3, <5>1, <5>2 DEF SeenBuckets
      <4>2. IsFiniteSet(Units(count, BucketCells)) /\ FiniteInv
        BY Families DEF MetricsInv, FiniteInv
      <4>3. /\ Sum(SeenBuckets, BucketCells) <= Sum(count, BucketCells)
            /\ Sum(SeenBuckets, BucketCells) \in Nat /\ Sum(count, BucketCells) \in Nat
        BY <4>1, <4>2, SumMonotone
      <4>4. Sum(count, BucketCells) <= Due({Total})
        <5>1. Cardinality(Owed(todo, BucketCells)) \in Nat /\ Due({Total}) \in Nat
          BY <4>2, DueNat, Families
        <5>2. Cardinality(Handling) \in Nat
          <6>1. IsFiniteSet(Requests) /\ Handling \in SUBSET Requests
            BY MetricsAssumption DEF Handling
          <6> QED
            BY <6>1, FS_Subset, FS_CardinalityType
        <5> QED
          BY <4>3, <5>1, <5>2 DEF MetricsInv, StartInv, Due
      <4>5. Due({Total}) = count[Total]
        <5>1. \A r \in Requests : Places(todo[r], {Total}) = {}
          <6> SUFFICES ASSUME NEW r \in Requests PROVE Places(todo[r], {Total}) = {}
            OBVIOUS
          <6>1. todo[r] \in Seq(Cells \ {Total})
            BY DEF MetricsInv, MetricsType
          <6>2. \A i \in 1..Len(todo[r]) : todo[r][i] \notin {Total}
            BY <6>1
          <6> QED
            BY <6>1, <6>2, PlacesOnce
        <5>2. Owed(todo, {Total}) = {}
          BY <5>1 DEF Owed
        <5>3. Sum(count, {Total}) = count[Total] /\ count[Total] \in Nat
          BY <1>3, SumOne, Families
        <5> QED
          BY <5>2, <5>3, FS_EmptySet DEF Due
      <4>6. seen'[9 + Buckets] = count[Total] /\ count[Total] \in Nat
        BY <1>1, <1>3, <2>3, <3>5, LoadOrder, Families DEF v
      <4> QED
        BY <3>3, <4>3, <4>4, <4>5, <4>6
    <3> QED
      BY <1>1, <1>2, <2>5, <3>4, <3>5
  <2> QED
    BY <1>1, <1>2, <2>1, <2>3, <2>4, <2>5 DEF ScrapeInv
<1> QED
  BY <1>4, <1>5 DEF Next, Start, Handled, Dropped, Bump, Idle, vars

\* A scrape, whatever requests are counted while it is taken, shows a histogram
\* whose largest finite bucket does not exceed +Inf, for any number of buckets.
THEOREM HistogramCorrect == Spec => []HistogramMonotone
<1>1. Init => ScrapeInv
  BY LoadOrder, MetricsAssumption DEF Init, ScrapeInv
<1>2. MetricsInv /\ ScrapeInv => HistogramMonotone
  <2> SUFFICES ASSUME MetricsInv, ScrapeInv, Scraped
               PROVE  Sum([x \in BucketCells |-> Shown(x)], BucketCells) <= Shown(<<"total">>)
    BY DEF HistogramMonotone
  <2> DEFINE N == Len(RenderOrder)
             last(x, k) == RenderOrder[k] = x /\ \A j \in (k + 1)..N : RenderOrder[j] # x
  <2>1. N \in Nat /\ N >= Buckets + 10 /\ Buckets \in Nat
    BY LoadOrder, MetricsAssumption
  <2>2. \A x : \A k \in 1..N : last(x, k) => Shown(x) = seen[k]
    <3> SUFFICES ASSUME NEW x, NEW k \in 1..N, last(x, k) PROVE Shown(x) = seen[k]
      OBVIOUS
    <3>1. \A j \in 1..N : last(x, j) => j = k
      BY <2>1
    <3>2. (CHOOSE j \in 1..N : last(x, j)) = k
      BY <3>1
    <3> QED
      BY <3>2 DEF Shown
  <2>3. Shown(<<"total">>) = seen[9 + Buckets]
    <3>1. 9 + Buckets \in 1..N /\ last(<<"total">>, 9 + Buckets)
      BY <2>1, LoadOrder DEF Total
    <3> QED
      BY <2>2, <3>1
  <2>4. \A y \in BucketCells : Shown(y) = seen[8 + y[2]]
    <3> SUFFICES ASSUME NEW y \in BucketCells PROVE Shown(y) = seen[8 + y[2]]
      OBVIOUS
    <3> DEFINE k == 8 + y[2]
    <3>1. k \in 9..(8 + Buckets) /\ RenderOrder[k] = y
      BY BucketLoads
    <3> HIDE DEF k
    <3>2. \A j \in (k + 1)..N : RenderOrder[j] # y
      <4> SUFFICES ASSUME NEW j \in (k + 1)..N PROVE RenderOrder[j] # y
        OBVIOUS
      <4>1. CASE j > 9 + Buckets
        BY <2>1, <3>1, <4>1, LoadOrder
      <4>2. CASE j = 9 + Buckets
        BY <4>2, LoadOrder, Families
      <4>3. CASE j < 9 + Buckets
        <5>1. j - 8 \in 1..Buckets /\ 8 + (j - 8) = j
          BY <2>1, <3>1, <4>3
        <5>2. RenderOrder[j] = <<"bucket", j - 8>>
          BY <5>1, LoadOrder
        <5>3. RenderOrder[j][2] = j - 8
          BY <5>2
        <5> QED
          BY <2>1, <3>1, <5>1, <5>3 DEF k
      <4> QED
        BY <2>1, <3>1, <4>1, <4>2, <4>3
    <3>3. k \in 1..N /\ last(y, k)
      BY <2>1, <3>1, <3>2
    <3> QED
      BY Zenon, <2>2, <3>3 DEF k
  <2>5. [x \in BucketCells |-> Shown(x)] = SeenBuckets
    BY <2>4 DEF SeenBuckets
  <2> QED
    BY <2>1, <2>3, <2>5 DEF ScrapeInv, Scraped
<1> QED
  BY <1>1, <1>2, ScrapeStep, MetricsCorrect, PTL DEF Spec
=============================================================================
