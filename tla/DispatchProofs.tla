--------------------------- MODULE DispatchProofs ---------------------------
(***************************************************************************)
(* Proofs about RouteTable and Dispatch: whatever routes a config          *)
(* declares, the lookup in the indexed table is the one its docs describe, *)
(* and a document that load accepts is served as it says.                  *)
(***************************************************************************)
EXTENDS Dispatch, FiniteSetTheorems, NaturalsInduction, WellFoundedInduction, TLAPS

-----------------------------------------------------------------------------
(* The first of some places *)

\* The order of the naturals, as a relation.
Below == {p \in Nat \X Nat : p[1] < p[2]}

\* FirstOf picks the least of some places, and 0 only when there is none: what
\* `iter().find` does on a list.
LEMMA FirstOfIsLeast ==
  ASSUME NEW at, at \subseteq Nat \ {0}
  PROVE  /\ FirstOf(at) = 0 <=> at = {}
         /\ at # {} => FirstOf(at) \in at /\ \A j \in at : FirstOf(at) <= j
<1>1. CASE at = {}
  BY <1>1 DEF FirstOf
<1>2. CASE at # {}
  <2>1. IsWellFoundedOn(Below, Nat)
    BY NatLessThanWellFounded DEF OpToRel, Below
  <2>2. PICK x \in at : \A y \in at : ~(<<y, x>> \in Below)
    BY Zenon, <1>2, <2>1, WFMin
  <2>3. ASSUME NEW y \in at PROVE x <= y
    <3> SUFFICES ASSUME ~(x <= y) PROVE FALSE
      OBVIOUS
    <3>1. x \in Nat /\ y \in Nat /\ y < x
      OBVIOUS
    <3>2. <<y, x>> \in Nat \X Nat /\ <<y, x>>[1] = y /\ <<y, x>>[2] = x
      BY <3>1
    <3>3. <<y, x>> \in Below
      BY <3>1, <3>2, Zenon DEF Below
    <3> QED
      BY <2>2, <3>3
  <2>4. FirstOf(at) \in at /\ \A j \in at : FirstOf(at) <= j
    BY Zenon, <1>2, <2>3 DEF FirstOf
  <2> QED
    BY <1>2, <2>4
<1> QED
  BY <1>1, <1>2

-----------------------------------------------------------------------------
(* The stable sort *)

\* Slot i comes no later than slot j in the order of finalise.
NoLater(slots, i, j) ==
  \/ Len(slots[i].key) > Len(slots[j].key)
  \/ Len(slots[i].key) = Len(slots[j].key) /\ i <= j

\* No two slots have the same rank, and the ranks are those of 1..Len(slots).
LEMMA RankIsPermutation ==
  ASSUME NEW slots, Len(slots) \in Nat, \A i \in 1..Len(slots) : Len(slots[i].key) \in Nat
  PROVE  /\ \A i \in 1..Len(slots) : Rank(slots, i) \in 1..Len(slots)
         /\ \A i, j \in 1..Len(slots) :
              i # j /\ NoLater(slots, i, j) => Rank(slots, i) < Rank(slots, j)
         /\ \A k \in 1..Len(slots) : \E i \in 1..Len(slots) : Rank(slots, i) = k
<1> DEFINE n == Len(slots)
           before(i) == {j \in 1..n : NoLater(slots, j, i)}
<1>1. \A i \in 1..n : Rank(slots, i) = Cardinality(before(i))
  BY DEF Rank, NoLater
<1>2. IsFiniteSet(1..n) /\ Cardinality(1..n) = n
  BY SMTT(30), FS_Interval
<1>3. ASSUME NEW i \in 1..n
      PROVE  /\ IsFiniteSet(before(i)) /\ Cardinality(before(i)) \in 1..n
  <2>1. before(i) \in SUBSET (1..n) /\ i \in before(i)
    BY DEF NoLater
  <2>2. IsFiniteSet(before(i)) /\ Cardinality(before(i)) <= n
    BY <1>2, <2>1, FS_Subset
  <2>3. Cardinality(before(i)) \in Nat /\ Cardinality(before(i)) # 0
    BY Zenon, <2>1, <2>2, FS_CardinalityType, FS_EmptySet
  <2> QED
    BY <2>2, <2>3
<1>4. ASSUME NEW i \in 1..n, NEW j \in 1..n, i # j, NoLater(slots, i, j)
      PROVE  Cardinality(before(i)) < Cardinality(before(j))
  <2>1. before(i) \in SUBSET before(j)
    BY <1>4 DEF NoLater
  <2>2. j \in before(j) /\ j \notin before(i)
    BY <1>4 DEF NoLater
  <2>3. Cardinality(before(i)) <= Cardinality(before(j)) /\ Cardinality(before(i)) # Cardinality(before(j))
    BY Zenon, <1>3, <2>1, <2>2, FS_Subset
  <2> HIDE DEF before
  <2>4. Cardinality(before(i)) \in Nat /\ Cardinality(before(j)) \in Nat
    BY <1>3
  <2> QED
    BY <2>3, <2>4
<1> DEFINE f == [i \in 1..n |-> Cardinality(before(i))]
<1> HIDE DEF before
<1>5. f \in [1..n -> 1..n]
  BY <1>3
<1>6. ASSUME NEW i \in 1..n, NEW j \in 1..n, i # j PROVE f[i] # f[j]
  <2>1. NoLater(slots, i, j) \/ NoLater(slots, j, i)
    BY DEF NoLater
  <2>2. CASE NoLater(slots, i, j)
    BY <1>3, <1>4, <1>6, <2>2
  <2>3. CASE NoLater(slots, j, i)
    BY <1>3, <1>4, <1>6, <2>3
  <2> QED
    BY <2>1, <2>2, <2>3
<1>7. f \in Injection(1..n, 1..n)
  BY <1>5, <1>6 DEF Injection, IsInjective
<1>8. f \in Surjection(1..n, 1..n)
  BY <1>2, <1>7, FS_Injection
<1>9. \A k \in 1..n : \E i \in 1..n : f[i] = k
  BY Zenon, <1>8 DEF Surjection
<1> QED
  BY <1>1, <1>3, <1>4, <1>9

\* What finalise makes of the prefixes: the same slots, the longest first.
LEMMA SortedByLength ==
  ASSUME NEW X, NEW slots \in Seq(X), \A i \in 1..Len(slots) : Len(slots[i].key) \in Nat
  PROVE  /\ ByLength(slots) \in Seq(X) /\ Len(ByLength(slots)) = Len(slots)
         /\ \E f \in [1..Len(slots) -> 1..Len(slots)] :
              /\ \A k \in 1..Len(slots) : ByLength(slots)[k] = slots[f[k]]
              /\ \A k, l \in 1..Len(slots) : k # l => f[k] # f[l]
              /\ \A i \in 1..Len(slots) : \E k \in 1..Len(slots) : f[k] = i
              /\ \A k, l \in 1..Len(slots) : k < l => NoLater(slots, f[k], f[l])
<1> DEFINE n == Len(slots)
           at(k) == CHOOSE i \in 1..n : Rank(slots, i) = k
           f == [k \in 1..n |-> at(k)]
<1>1. n \in Nat
  OBVIOUS
<1>2. /\ \A i \in 1..n : Rank(slots, i) \in 1..n
      /\ \A i, j \in 1..n : i # j /\ NoLater(slots, i, j) => Rank(slots, i) < Rank(slots, j)
      /\ \A k \in 1..n : \E i \in 1..n : Rank(slots, i) = k
  BY <1>1, RankIsPermutation
<1>3. \A k \in 1..n : at(k) \in 1..n /\ Rank(slots, at(k)) = k
  BY <1>2
<1>4. ByLength(slots) = [k \in 1..n |-> slots[at(k)]]
  BY DEF ByLength
<1> HIDE DEF at
<1>5. f \in [1..n -> 1..n] /\ \A k \in 1..n : f[k] = at(k) /\ Rank(slots, f[k]) = k
  BY <1>3
<1>6. ByLength(slots) \in Seq(X) /\ Len(ByLength(slots)) = n
  BY <1>1, <1>3, <1>4
<1>7. \A i, j \in 1..n : NoLater(slots, i, j) \/ NoLater(slots, j, i)
  BY DEF NoLater
<1>8. \A i, j \in 1..n : i # j => Rank(slots, i) # Rank(slots, j)
  <2> SUFFICES ASSUME NEW i \in 1..n, NEW j \in 1..n, i # j
               PROVE  Rank(slots, i) # Rank(slots, j)
    OBVIOUS
  <2>1. Rank(slots, i) \in 1..n /\ Rank(slots, j) \in 1..n
    BY <1>2
  <2>2. Rank(slots, i) < Rank(slots, j) \/ Rank(slots, j) < Rank(slots, i)
    BY <1>2, <1>7
  <2> HIDE DEF n
  <2> QED
    BY <1>1, <2>1, <2>2
<1>9. \A i \in 1..n : \E k \in 1..n : f[k] = i
  BY SMTT(30), <1>2, <1>5, <1>8
<1>10. \A k, l \in 1..n : k # l => f[k] # f[l]
  BY <1>5
<1>11. ASSUME NEW k \in 1..n, NEW l \in 1..n, k < l PROVE NoLater(slots, f[k], f[l])
  <2>1. f[k] \in 1..n /\ f[l] \in 1..n /\ f[k] # f[l]
    BY <1>5, <1>10, <1>11
  <2>2. ~(Rank(slots, f[l]) < Rank(slots, f[k]))
    BY <1>5, <1>11
  <2> QED
    BY <1>2, <1>7, <2>1, <2>2
<1> HIDE DEF f
<1>12. \A k \in 1..n : ByLength(slots)[k] = slots[f[k]]
  BY <1>4, <1>5
<1> QED
  BY Zenon, <1>5, <1>6, <1>9, <1>10, <1>11, <1>12

-----------------------------------------------------------------------------
(* Lists of routes and slots *)

Pat(k) == PathMatch(cfg[k]).pat
Kind(k) == PathMatch(cfg[k]).kind

RouteSet == {Route(k) : k \in 1..Len(cfg)}
Slot == [key : {Pat(k) : k \in 1..Len(cfg)}, routes : Seq(RouteSet)]

\* The list l holds the routes in S, in the order of their declaration.
ListOf(l, S) ==
  /\ l \in Seq(RouteSet)
  /\ \A i \in 1..Len(l) : l[i].id \in S /\ l[i] = Route(l[i].id)
  /\ \A k \in S : \E i \in 1..Len(l) : l[i].id = k
  /\ \A i, j \in 1..Len(l) : i < j => l[i].id < l[j].id

\* The slots hold the routes in S, each under its path, and each path has one slot.
SlotsOf(slots, S) ==
  /\ slots \in Seq(Slot)
  /\ \A i, j \in 1..Len(slots) : i # j => slots[i].key # slots[j].key
  /\ \A i \in 1..Len(slots) : ListOf(slots[i].routes, {k \in S : Pat(k) = slots[i].key})
  /\ \A k \in S : \E i \in 1..Len(slots) : slots[i].key = Pat(k)
  /\ \A i \in 1..Len(slots) : \E k \in S : slots[i].key = Pat(k)

\* The fields of a route in the table.
LEMMA RouteFields ==
  ASSUME NEW k
  PROVE  Route(k).id = k /\ Route(k).path.pat = Pat(k) /\ Route(k).path.kind = Kind(k)
         /\ Route(k).path = PathMatch(cfg[k]) /\ Route(k).headers = HeaderMatches(cfg[k])
BY DEF Route, Pat, Kind

\* The empty list holds no route.
LEMMA ListEmpty == ListOf(<<>>, {}) /\ SlotsOf(<<>>, {})
BY DEF ListOf, SlotsOf

\* Pushing a route declared after those in a list keeps the order.
LEMMA ListAppend ==
  ASSUME Len(cfg) \in Nat, NEW l, NEW S \in SUBSET (1..Len(cfg)), ListOf(l, S),
         NEW k \in 1..Len(cfg), \A s \in S : s < k
  PROVE  ListOf(Append(l, Route(k)), S \cup {k})
<1> DEFINE n == Len(l)
           m == Append(l, Route(k))
<1>1. l \in Seq(RouteSet) /\ Route(k) \in RouteSet /\ n \in Nat
  BY DEF ListOf, RouteSet
<1>2. /\ m \in Seq(RouteSet) /\ Len(m) = n + 1 /\ m[n + 1] = Route(k)
      /\ \A i \in 1..n : m[i] = l[i]
  BY <1>1
<1> HIDE DEF m
<1>3. ASSUME NEW i \in 1..(n + 1) PROVE m[i].id \in S \cup {k} /\ m[i] = Route(m[i].id)
  <2>1. CASE i = n + 1
    BY <1>2, <2>1, RouteFields
  <2>2. CASE i \in 1..n
    BY <1>2, <2>2 DEF ListOf
  <2> QED
    BY <1>1, <2>1, <2>2
<1>4. ASSUME NEW s \in S \cup {k} PROVE \E i \in 1..(n + 1) : m[i].id = s
  <2>1. CASE s = k
    <3>1. n + 1 \in 1..(n + 1) /\ m[n + 1].id = s
      BY <1>1, <1>2, <2>1, RouteFields
    <3> QED
      BY <3>1
  <2>2. CASE s \in S
    <3>1. PICK i \in 1..n : l[i].id = s
      BY <2>2 DEF ListOf
    <3>2. i \in 1..(n + 1) /\ m[i].id = s
      BY <1>1, <1>2, <3>1
    <3> QED
      BY <3>2
  <2> QED
    BY <2>1, <2>2
<1>5. ASSUME NEW i \in 1..(n + 1), NEW j \in 1..(n + 1), i < j PROVE m[i].id < m[j].id
  <2>1. i \in 1..n /\ m[i] = l[i] /\ l[i].id \in S
    BY <1>1, <1>2, <1>5 DEF ListOf
  <2>2. CASE j = n + 1
    BY Zenon, <1>2, <2>1, <2>2, RouteFields
  <2>3. CASE j \in 1..n
    BY <1>2, <1>5, <2>1, <2>3 DEF ListOf
  <2> QED
    BY <1>1, <2>2, <2>3
<1> QED
  BY Zenon, <1>2, <1>3, <1>4, <1>5 DEF ListOf, m

\* HostBucket::insert of an exact or prefix route: its slot is found or made.
LEMMA SlotInsert ==
  ASSUME Len(cfg) \in Nat, NEW slots, NEW S \in SUBSET (1..Len(cfg)), SlotsOf(slots, S),
         NEW k \in 1..Len(cfg), \A s \in S : s < k
  PROVE  SlotsOf(IntoSlot(slots, Route(k)), S \cup {k})
<1> DEFINE n == Len(slots)
           at == {i \in 1..n : slots[i].key = Pat(k)}
           place == FirstOf(at)
           new == IntoSlot(slots, Route(k))
           T == S \cup {k}
           under(p) == {s \in S : Pat(s) = p}
           underNew(p) == {s \in T : Pat(s) = p}
<1>1. slots \in Seq(Slot) /\ n \in Nat
  BY DEF SlotsOf
<1>2. Route(k).path.pat = Pat(k) /\ Pat(k) \in {Pat(s) : s \in 1..Len(cfg)}
  BY RouteFields
<1>3. /\ place = 0 <=> at = {}
      /\ at # {} => place \in at
  <2>1. at \subseteq Nat \ {0}
    BY <1>1
  <2> HIDE DEF at
  <2> QED
    BY Zenon, <2>1, FirstOfIsLeast
<1>4. ASSUME NEW p, p # Pat(k) PROVE underNew(p) = under(p)
  BY <1>4
<1>5. underNew(Pat(k)) = under(Pat(k)) \cup {k}
  OBVIOUS
<1>6. /\ \A i \in 1..n : slots[i] \in Slot /\ ListOf(slots[i].routes, under(slots[i].key))
      /\ \A i, j \in 1..n : i # j => slots[i].key # slots[j].key
      /\ \A s \in S : \E i \in 1..n : slots[i].key = Pat(s)
  <2>1. \A i \in 1..n : slots[i] \in Slot
    BY <1>1
  <2> QED
    BY <2>1, Zenon DEF SlotsOf
<1>7. under(Pat(k)) \in SUBSET (1..Len(cfg)) /\ \A s \in under(Pat(k)) : s < k
  BY Zenon
<1>8. \A i \in 1..n : \E s \in S : slots[i].key = Pat(s)
  BY Zenon DEF SlotsOf
<1>9. CASE place = 0
  <2> DEFINE slot == [key |-> Pat(k), routes |-> <<Route(k)>>]
  <2>1. new = Append(slots, slot)
    BY <1>2, <1>9 DEF IntoSlot
  <2>2. under(Pat(k)) = {}
    BY Zenon, <1>3, <1>6, <1>9
  <2>3. ListOf(<<Route(k)>>, {k})
    <3>1. ListOf(Append(<<>>, Route(k)), {} \cup {k})
      BY Zenon, ListEmpty, ListAppend
    <3>2. Append(<<>>, Route(k)) = <<Route(k)>> /\ {} \cup {k} = {k}
      OBVIOUS
    <3> QED
      BY <3>1, <3>2
  <2>4. ListOf(slot.routes, underNew(slot.key))
    BY Zenon, <1>5, <2>2, <2>3
  <2>5. slot \in Slot /\ slot.key = Pat(k)
    BY <1>2, <2>3 DEF Slot, ListOf
  <2> HIDE DEF slot, new, under, underNew
  <2>6. /\ new \in Seq(Slot) /\ Len(new) = n + 1 /\ new[n + 1] = slot
        /\ \A i \in 1..n : new[i] = slots[i]
    BY <1>1, <2>1, <2>5
  <2>7. \A i \in 1..n : slots[i].key # Pat(k)
    BY <1>3, <1>9
  <2>8. ASSUME NEW i \in 1..(n + 1) PROVE ListOf(new[i].routes, underNew(new[i].key))
    <3>1. CASE i = n + 1
      BY <2>4, <2>6, <3>1
    <3>2. CASE i \in 1..n
      BY <1>4, <1>6, <2>6, <2>7, <3>2
    <3> QED
      BY <1>1, <3>1, <3>2
  <2>9. ASSUME NEW i \in 1..(n + 1), NEW j \in 1..(n + 1), i # j PROVE new[i].key # new[j].key
    <3>1. CASE i = n + 1
      BY <1>1, <2>5, <2>6, <2>7, <2>9, <3>1
    <3>2. CASE j = n + 1
      BY <1>1, <2>5, <2>6, <2>7, <2>9, <3>2
    <3>3. CASE i \in 1..n /\ j \in 1..n
      BY <1>6, <2>6, <2>9, <3>3
    <3> QED
      BY <1>1, <3>1, <3>2, <3>3
  <2>10. ASSUME NEW s \in T PROVE \E i \in 1..(n + 1) : new[i].key = Pat(s)
    <3>1. CASE s = k
      <4>1. n + 1 \in 1..(n + 1) /\ new[n + 1].key = Pat(s)
        BY <1>1, <2>5, <2>6, <3>1
      <4> QED
        BY <4>1
    <3>2. CASE s \in S
      <4>1. PICK i \in 1..n : slots[i].key = Pat(s)
        BY <1>6, <3>2
      <4>2. i \in 1..(n + 1) /\ new[i].key = Pat(s)
        BY <1>1, <2>6, <4>1
      <4> QED
        BY <4>2
    <3> QED
      BY <3>1, <3>2
  <2>11. ASSUME NEW i \in 1..(n + 1) PROVE \E s \in T : new[i].key = Pat(s)
    <3>1. CASE i = n + 1
      BY <2>5, <2>6, <3>1
    <3>2. CASE i \in 1..n
      BY <1>8, <2>6, <3>2
    <3> QED
      BY <1>1, <3>1, <3>2
  <2> QED
    BY Zenon, <2>6, <2>8, <2>9, <2>10, <2>11 DEF SlotsOf, new, underNew
<1>10. CASE place # 0
  <2> DEFINE old == slots[place].routes
             upd == Append(old, Route(k))
  <2>1. place \in 1..n /\ slots[place].key = Pat(k)
    BY <1>3, <1>10
  <2>2. new = [slots EXCEPT ![place].routes = Append(@, Route(k))]
    BY <1>2, <1>10 DEF IntoSlot
  <2>3. ListOf(old, under(Pat(k)))
    BY Zenon, <1>6, <2>1
  <2>4. ListOf(upd, under(Pat(k)) \cup {k})
    BY <1>7, <2>3, ListAppend
  <2>5. upd \in Seq(RouteSet)
    BY <2>4 DEF ListOf
  <2> HIDE DEF new, under, underNew, place, at
  <2>6. /\ new \in Seq(Slot) /\ Len(new) = n
        /\ \A i \in 1..n : new[i].key = slots[i].key
        /\ \A i \in 1..n : i # place => new[i].routes = slots[i].routes
        /\ new[place].routes = upd
    <3> DEFINE one == [slots[place] EXCEPT !.routes = upd]
    <3>1. new = [slots EXCEPT ![place] = one]
      BY <2>2
    <3>2. slots[place] \in Slot
      BY <1>6, <2>1
    <3> HIDE DEF upd
    <3>3. one \in Slot /\ one.key = slots[place].key /\ one.routes = upd
      BY <2>5, <3>2 DEF Slot
    <3> HIDE DEF one
    <3>4. /\ new \in Seq(Slot) /\ Len(new) = n /\ new[place] = one
          /\ \A i \in 1..n : i # place => new[i] = slots[i]
      BY <1>1, <2>1, <3>1, <3>3
    <3> QED
      BY <2>1, <3>3, <3>4
  <2> HIDE DEF upd
  <2>7. ASSUME NEW i \in 1..n PROVE ListOf(new[i].routes, underNew(new[i].key))
    <3>1. CASE i = place
      BY Zenon, <1>5, <2>1, <2>4, <2>6, <3>1
    <3>2. CASE i # place
      <4>1. slots[i].key # Pat(k)
        BY <1>6, <2>1, <3>2
      <4> QED
        BY <1>4, <1>6, <2>6, <3>2, <4>1
    <3> QED
      BY <3>1, <3>2
  <2>8. \A i, j \in 1..n : i # j => new[i].key # new[j].key
    BY <1>6, <2>6
  <2>9. ASSUME NEW s \in T PROVE \E i \in 1..n : new[i].key = Pat(s)
    BY <1>6, <2>1, <2>6
  <2>10. \A i \in 1..n : \E s \in T : new[i].key = Pat(s)
    BY Zenon, <1>8, <2>6
  <2> QED
    BY Zenon, <2>6, <2>7, <2>8, <2>9, <2>10 DEF SlotsOf, new, underNew
<1> QED
  BY <1>9, <1>10

\* The longest keys come first.
Descending(slots) ==
  \A i, j \in 1..Len(slots) : i < j => Len(slots[i].key) >= Len(slots[j].key)

\* finalise reorders the slots and loses none.
LEMMA SortKeepsSlots ==
  ASSUME NEW slots, NEW S, SlotsOf(slots, S), \A s \in S : Len(Pat(s)) \in Nat
  PROVE  SlotsOf(ByLength(slots), S) /\ Descending(ByLength(slots))
<1> DEFINE n == Len(slots)
           new == ByLength(slots)
           under(p) == {s \in S : Pat(s) = p}
<1>1. /\ slots \in Seq(Slot) /\ n \in Nat
      /\ \A i \in 1..n : Len(slots[i].key) \in Nat
  BY DEF SlotsOf
<1>2. /\ new \in Seq(Slot) /\ Len(new) = n
      /\ \E f \in [1..n -> 1..n] :
           /\ \A k \in 1..n : new[k] = slots[f[k]]
           /\ \A k, l \in 1..n : k # l => f[k] # f[l]
           /\ \A i \in 1..n : \E k \in 1..n : f[k] = i
           /\ \A k, l \in 1..n : k < l => NoLater(slots, f[k], f[l])
  BY <1>1, SortedByLength
<1> HIDE DEF new
<1>3. PICK f \in [1..n -> 1..n] :
        /\ \A k \in 1..n : new[k] = slots[f[k]]
        /\ \A k, l \in 1..n : k # l => f[k] # f[l]
        /\ \A i \in 1..n : \E k \in 1..n : f[k] = i
        /\ \A k, l \in 1..n : k < l => NoLater(slots, f[k], f[l])
  BY Zenon, <1>2
<1>4. /\ \A k \in 1..n : new[k] = slots[f[k]] /\ f[k] \in 1..n
      /\ \A k, l \in 1..n : k # l => f[k] # f[l]
  BY Zenon, <1>3
<1>5. \A k \in 1..n : ListOf(new[k].routes, under(new[k].key))
  <2>1. \A i \in 1..n : ListOf(slots[i].routes, under(slots[i].key))
    BY Zenon DEF SlotsOf
  <2> HIDE DEF under
  <2> QED
    BY <1>4, <2>1
<1>6. ASSUME NEW k \in 1..n, NEW l \in 1..n, k # l PROVE new[k].key # new[l].key
  <2>1. f[k] \in 1..n /\ f[l] \in 1..n /\ f[k] # f[l] /\ new[k] = slots[f[k]] /\ new[l] = slots[f[l]]
    BY <1>4, <1>6
  <2>2. slots[f[k]].key # slots[f[l]].key
    BY <2>1, Zenon DEF SlotsOf
  <2> QED
    BY <2>1, <2>2
<1>7. ASSUME NEW s \in S PROVE \E k \in 1..n : new[k].key = Pat(s)
  <2>1. PICK i \in 1..n : slots[i].key = Pat(s)
    BY Zenon DEF SlotsOf
  <2>2. PICK k \in 1..n : f[k] = i
    BY Zenon, <1>3
  <2> QED
    BY <1>4, <2>1, <2>2
<1>8. ASSUME NEW k \in 1..n PROVE \E s \in S : new[k].key = Pat(s)
  <2>1. f[k] \in 1..n /\ new[k] = slots[f[k]]
    BY <1>4
  <2>2. PICK s \in S : slots[f[k]].key = Pat(s)
    BY <2>1, Zenon DEF SlotsOf
  <2> QED
    BY <2>1, <2>2
<1>9. ASSUME NEW k \in 1..n, NEW l \in 1..n, k < l PROVE Len(new[k].key) >= Len(new[l].key)
  <2>1. NoLater(slots, f[k], f[l]) /\ new[k] = slots[f[k]] /\ new[l] = slots[f[l]]
    BY <1>3, <1>9
  <2>2. Len(slots[f[k]].key) \in Nat /\ Len(slots[f[l]].key) \in Nat
    BY <1>1
  <2> QED
    BY <2>1, <2>2 DEF NoLater
<1>10. new \in Seq(Slot) /\ Len(new) = n
  BY <1>2
<1>11. Descending(new)
  BY <1>9, <1>10 DEF Descending
<1>12. SlotsOf(new, S)
  BY Zenon, <1>5, <1>6, <1>7, <1>8, <1>10 DEF SlotsOf
<1> QED
  BY <1>11, <1>12 DEF new

-----------------------------------------------------------------------------
(* Buckets *)

Bucket == [exact : Seq(Slot), prefix : Seq(Slot), regex : Seq(RouteSet), any : Seq(RouteSet)]
OfKind(S, kind) == {k \in S : Kind(k) = kind}

\* The bucket holds the routes in S, each where find looks for its kind.
BucketOf(b, S) ==
  /\ b \in Bucket
  /\ SlotsOf(b.exact, OfKind(S, "exact")) /\ SlotsOf(b.prefix, OfKind(S, "prefix"))
  /\ ListOf(b.regex, OfKind(S, "regex")) /\ ListOf(b.any, OfKind(S, "any"))

\* A route has one of the four kinds of path, and a prefix is a path.
LEMMA Kinds ==
  ASSUME cfg \in Seq(Matches), NEW k \in 1..Len(cfg)
  PROVE  /\ Kind(k) \in {"exact", "prefix", "regex", "any"}
         /\ Kind(k) = "prefix" => Pat(k) \in Seq(Chars)
<1>1. cfg[k] \in Matches
  OBVIOUS
<1> QED
  BY <1>1, RouteTableAssumption DEF Kind, Pat, PathMatch

\* HostBucket::default is the bucket of no route.
LEMMA BucketEmpty == BucketOf(EmptyBucket, {})
<1>1. \A kind : OfKind({}, kind) = {}
  BY DEF OfKind
<1>2. EmptyBucket \in Bucket
  BY DEF EmptyBucket, Bucket
<1> QED
  BY Zenon, <1>1, <1>2, ListEmpty DEF BucketOf, EmptyBucket

\* HostBucket::insert adds one route to the bucket.
LEMMA BucketInsert ==
  ASSUME cfg \in Seq(Matches), NEW b, NEW S \in SUBSET (1..Len(cfg)), BucketOf(b, S),
         NEW k \in 1..Len(cfg), \A s \in S : s < k
  PROVE  BucketOf(InsertInto(b, Route(k)), S \cup {k})
<1> DEFINE new == InsertInto(b, Route(k))
           T == S \cup {k}
<1>1. /\ b \in Bucket /\ Len(cfg) \in Nat
      /\ SlotsOf(b.exact, OfKind(S, "exact")) /\ SlotsOf(b.prefix, OfKind(S, "prefix"))
      /\ ListOf(b.regex, OfKind(S, "regex")) /\ ListOf(b.any, OfKind(S, "any"))
  BY DEF BucketOf
<1>2. \A kind : /\ OfKind(S, kind) \in SUBSET (1..Len(cfg)) /\ \A s \in OfKind(S, kind) : s < k
                /\ kind # Kind(k) => OfKind(T, kind) = OfKind(S, kind)
                /\ kind = Kind(k) => OfKind(T, kind) = OfKind(S, kind) \cup {k}
  BY Zenon DEF OfKind
<1>3. Route(k).path.kind = Kind(k) /\ Kind(k) \in {"exact", "prefix", "regex", "any"}
  BY RouteFields, Kinds
<1>4. CASE Kind(k) = "exact"
  <2>1. new = [b EXCEPT !.exact = IntoSlot(b.exact, Route(k))]
    BY <1>3, <1>4 DEF InsertInto
  <2>2. SlotsOf(IntoSlot(b.exact, Route(k)), OfKind(T, "exact"))
    <3>1. /\ OfKind(S, "exact") \in SUBSET (1..Len(cfg)) /\ \A s \in OfKind(S, "exact") : s < k
          /\ OfKind(T, "exact") = OfKind(S, "exact") \cup {k}
      BY Zenon, <1>2, <1>4
    <3>2. SlotsOf(IntoSlot(b.exact, Route(k)), OfKind(S, "exact") \cup {k})
      BY <1>1, <3>1, SlotInsert
    <3> QED
      BY Zenon, <3>1, <3>2
  <2>3. IntoSlot(b.exact, Route(k)) \in Seq(Slot)
    BY <2>2 DEF SlotsOf
  <2>4. /\ new \in Bucket /\ new.exact = IntoSlot(b.exact, Route(k))
        /\ new.prefix = b.prefix /\ new.regex = b.regex /\ new.any = b.any
    BY Zenon, <1>1, <2>1, <2>3 DEF Bucket
  <2> QED
    BY Zenon, <1>1, <1>2, <1>4, <2>2, <2>4 DEF BucketOf
<1>5. CASE Kind(k) = "prefix"
  <2>1. new = [b EXCEPT !.prefix = IntoSlot(b.prefix, Route(k))]
    BY <1>3, <1>5 DEF InsertInto
  <2>2. SlotsOf(IntoSlot(b.prefix, Route(k)), OfKind(T, "prefix"))
    <3>1. /\ OfKind(S, "prefix") \in SUBSET (1..Len(cfg)) /\ \A s \in OfKind(S, "prefix") : s < k
          /\ OfKind(T, "prefix") = OfKind(S, "prefix") \cup {k}
      BY Zenon, <1>2, <1>5
    <3>2. SlotsOf(IntoSlot(b.prefix, Route(k)), OfKind(S, "prefix") \cup {k})
      BY <1>1, <3>1, SlotInsert
    <3> QED
      BY Zenon, <3>1, <3>2
  <2>3. IntoSlot(b.prefix, Route(k)) \in Seq(Slot)
    BY <2>2 DEF SlotsOf
  <2>4. /\ new \in Bucket /\ new.prefix = IntoSlot(b.prefix, Route(k))
        /\ new.exact = b.exact /\ new.regex = b.regex /\ new.any = b.any
    BY Zenon, <1>1, <2>1, <2>3 DEF Bucket
  <2> QED
    BY Zenon, <1>1, <1>2, <1>5, <2>2, <2>4 DEF BucketOf
<1>6. CASE Kind(k) = "regex"
  <2>1. new = [b EXCEPT !.regex = Append(b.regex, Route(k))]
    BY <1>3, <1>6 DEF InsertInto
  <2>2. ListOf(Append(b.regex, Route(k)), OfKind(T, "regex"))
    <3>1. /\ OfKind(S, "regex") \in SUBSET (1..Len(cfg)) /\ \A s \in OfKind(S, "regex") : s < k
          /\ OfKind(T, "regex") = OfKind(S, "regex") \cup {k}
      BY Zenon, <1>2, <1>6
    <3>2. ListOf(Append(b.regex, Route(k)), OfKind(S, "regex") \cup {k})
      BY <1>1, <3>1, ListAppend
    <3> QED
      BY Zenon, <3>1, <3>2
  <2>3. Append(b.regex, Route(k)) \in Seq(RouteSet)
    BY <2>2 DEF ListOf
  <2>4. /\ new \in Bucket /\ new.regex = Append(b.regex, Route(k))
        /\ new.exact = b.exact /\ new.prefix = b.prefix /\ new.any = b.any
    BY Zenon, <1>1, <2>1, <2>3 DEF Bucket
  <2> QED
    BY Zenon, <1>1, <1>2, <1>6, <2>2, <2>4 DEF BucketOf
<1>7. CASE Kind(k) = "any"
  <2>1. new = [b EXCEPT !.any = Append(b.any, Route(k))]
    BY <1>3, <1>7 DEF InsertInto
  <2>2. ListOf(Append(b.any, Route(k)), OfKind(T, "any"))
    <3>1. /\ OfKind(S, "any") \in SUBSET (1..Len(cfg)) /\ \A s \in OfKind(S, "any") : s < k
          /\ OfKind(T, "any") = OfKind(S, "any") \cup {k}
      BY Zenon, <1>2, <1>7
    <3>2. ListOf(Append(b.any, Route(k)), OfKind(S, "any") \cup {k})
      BY <1>1, <3>1, ListAppend
    <3> QED
      BY Zenon, <3>1, <3>2
  <2>3. Append(b.any, Route(k)) \in Seq(RouteSet)
    BY <2>2 DEF ListOf
  <2>4. /\ new \in Bucket /\ new.any = Append(b.any, Route(k))
        /\ new.exact = b.exact /\ new.prefix = b.prefix /\ new.regex = b.regex
    BY Zenon, <1>1, <2>1, <2>3 DEF Bucket
  <2> QED
    BY Zenon, <1>1, <1>2, <1>7, <2>2, <2>4 DEF BucketOf
<1> QED
  BY <1>3, <1>4, <1>5, <1>6, <1>7

\* finalise keeps the routes of the bucket.
LEMMA BucketFinalised ==
  ASSUME cfg \in Seq(Matches), NEW b, NEW S \in SUBSET (1..Len(cfg)), BucketOf(b, S)
  PROVE  BucketOf(Finalised(b), S) /\ Descending(Finalised(b).prefix)
<1> DEFINE new == ByLength(b.prefix)
<1>1. b \in Bucket /\ SlotsOf(b.prefix, OfKind(S, "prefix"))
  BY DEF BucketOf
<1>2. \A s \in OfKind(S, "prefix") : Len(Pat(s)) \in Nat
  BY Kinds DEF OfKind
<1>3. SlotsOf(new, OfKind(S, "prefix")) /\ Descending(new)
  BY <1>1, <1>2, SortKeepsSlots
<1>4. new \in Seq(Slot)
  BY <1>3 DEF SlotsOf
<1> HIDE DEF new
<1>5. Finalised(b) = [b EXCEPT !.prefix = new]
  BY DEF Finalised, new
<1>6. /\ Finalised(b) \in Bucket /\ Finalised(b).prefix = new
      /\ Finalised(b).exact = b.exact /\ Finalised(b).regex = b.regex /\ Finalised(b).any = b.any
  BY Zenon, <1>1, <1>4, <1>5 DEF Bucket
<1> QED
  BY <1>3, <1>6 DEF BucketOf

\* The ids in a bucket are those of its routes.
LEMMA BucketIds ==
  ASSUME cfg \in Seq(Matches), NEW b, NEW S \in SUBSET (1..Len(cfg)), BucketOf(b, S)
  PROVE  IdsIn(b) = S
<1>1. ASSUME NEW l, NEW T, ListOf(l, T) PROVE Ids(l) = T
  BY <1>1 DEF ListOf, Ids
<1>2. ASSUME NEW slots, NEW T, SlotsOf(slots, T) PROVE SlotIds(slots) = T
  <2> DEFINE under(p) == {s \in T : Pat(s) = p}
  <2>1. /\ \A i \in 1..Len(slots) : ListOf(slots[i].routes, under(slots[i].key))
        /\ \A s \in T : \E i \in 1..Len(slots) : slots[i].key = Pat(s)
    BY <1>2, Zenon DEF SlotsOf
  <2>2. \A i \in 1..Len(slots) : Ids(slots[i].routes) = under(slots[i].key)
    BY Zenon, <1>1, <2>1
  <2>3. \A s \in T : \E i \in 1..Len(slots) : s \in under(slots[i].key)
    BY <2>1
  <2>4. \A i \in 1..Len(slots) : under(slots[i].key) \in SUBSET T
    OBVIOUS
  <2> HIDE DEF under
  <2> QED
    BY <2>2, <2>3, <2>4 DEF SlotIds
<1>3. /\ SlotIds(b.exact) = OfKind(S, "exact") /\ SlotIds(b.prefix) = OfKind(S, "prefix")
      /\ Ids(b.regex) = OfKind(S, "regex") /\ Ids(b.any) = OfKind(S, "any")
  BY <1>1, <1>2 DEF BucketOf
<1>4. \A s \in S : Kind(s) \in {"exact", "prefix", "regex", "any"}
  BY Kinds
<1> QED
  BY Zenon, <1>3, <1>4 DEF IdsIn, OfKind

-----------------------------------------------------------------------------
(* Lookup *)

\* Every header the route asks for is in the request.
Fit(k, q) == HeaderMatches(cfg[k]) \subseteq q.headers

\* f is the first of the routes in C, or 0.
IsFirst(f, C) == IF C = {} THEN f = 0 ELSE f \in C /\ \A k \in C : f <= k

\* Taking the first of some places of a list takes the route declared first.
LEMMA ListFirst ==
  ASSUME Len(cfg) \in Nat, NEW S \in SUBSET (1..Len(cfg)), NEW l, ListOf(l, S),
         NEW at \in SUBSET (1..Len(l))
  PROVE  IsFirst(IdAt(l, FirstOf(at)), {l[i].id : i \in at})
<1> DEFINE k == FirstOf(at)
<1>1. /\ \A i \in at : i \in 1..Len(l) /\ l[i].id \in S /\ l[i].id \in Nat \ {0}
      /\ Len(l) \in Nat /\ at \subseteq Nat \ {0} /\ at \subseteq Nat
      /\ \A i \in at : l[i].id \in Nat
      /\ \A i, j \in at : i < j => l[i].id < l[j].id
  <2>1. Len(l) \in Nat
    BY DEF ListOf
  <2>2. \A i \in 1..Len(l) : l[i].id \in S
    BY Zenon DEF ListOf
  <2>3. S \subseteq Nat \ {0} /\ at \subseteq Nat \ {0} /\ S \subseteq Nat /\ at \subseteq Nat
    BY <2>1
  <2>4. \A i, j \in at : i < j => l[i].id < l[j].id
    BY Zenon DEF ListOf
  <2> QED
    BY Zenon, <2>1, <2>2, <2>3, <2>4
<1>2. /\ k = 0 <=> at = {}
      /\ at # {} => k \in at /\ \A j \in at : k <= j
  BY Zenon, <1>1, FirstOfIsLeast
<1> HIDE DEF k
<1>3. CASE at = {}
  BY <1>2, <1>3 DEF IdAt, IsFirst, k
<1>4. CASE at # {}
  <2>1. IdAt(l, k) = l[k].id /\ k \in at
    BY <1>2, <1>4 DEF IdAt
  <2>2. ASSUME NEW j \in at PROVE l[k].id <= l[j].id
    <3>1. k \in Nat /\ j \in Nat /\ k <= j
      BY Zenon, <1>1, <1>2, <1>4, <2>1
    <3>2. k = j \/ k < j
      BY <3>1
    <3>3. l[k].id \in Nat /\ l[j].id \in Nat /\ (k < j => l[k].id < l[j].id)
      BY Zenon, <1>1, <2>1
    <3> QED
      BY <3>2, <3>3
  <2> QED
    BY Zenon, <1>4, <2>1, <2>2 DEF IsFirst, k
<1> QED
  BY <1>3, <1>4

\* `slot.iter().find(headers_match)` finds the first route that fits.
LEMMA FirstInIsFirst ==
  ASSUME Len(cfg) \in Nat, NEW S \in SUBSET (1..Len(cfg)), NEW l, ListOf(l, S), NEW q
  PROVE  IsFirst(FirstIn(l, q), {k \in S : Fit(k, q)})
<1> DEFINE at == Fits(l, q)
<1>1. \A i \in 1..Len(l) : l[i].id \in S /\ (HeadersMatch(l[i], q) <=> Fit(l[i].id, q))
  BY RouteFields DEF ListOf, HeadersMatch, Fit
<1>2. \A k \in S : \E i \in 1..Len(l) : l[i].id = k
  BY DEF ListOf
<1>3. at \in SUBSET (1..Len(l)) /\ \A i \in 1..Len(l) : i \in at <=> HeadersMatch(l[i], q)
  BY DEF Fits
<1> HIDE DEF at
<1>4. {l[i].id : i \in at} = {k \in S : Fit(k, q)}
  BY Zenon, <1>1, <1>2, <1>3
<1>5. IsFirst(IdAt(l, FirstOf(at)), {l[i].id : i \in at})
  BY <1>3, ListFirst
<1> QED
  BY Zenon, <1>4, <1>5 DEF FirstIn, at

\* The scan of the regex routes finds the first that matches and fits.
LEMMA RegexFirst ==
  ASSUME Len(cfg) \in Nat, NEW S \in SUBSET (1..Len(cfg)), NEW b, ListOf(b.regex, S), NEW q
  PROVE  IsFirst(IdAt(b.regex, FirstOf(RegexAt(b, q))), {k \in S : q.path \in Pat(k) /\ Fit(k, q)})
<1> DEFINE at == RegexAt(b, q)
           l == b.regex
<1>1. \A i \in 1..Len(l) :
        /\ l[i].id \in S /\ (HeadersMatch(l[i], q) <=> Fit(l[i].id, q))
        /\ l[i].path.pat = Pat(l[i].id)
  BY RouteFields DEF ListOf, HeadersMatch, Fit
<1>2. \A k \in S : \E i \in 1..Len(l) : l[i].id = k
  BY DEF ListOf
<1>3. /\ at \in SUBSET (1..Len(l))
      /\ \A i \in 1..Len(l) : i \in at <=> HeadersMatch(l[i], q) /\ q.path \in l[i].path.pat
  BY DEF Fits, RegexAt
<1> HIDE DEF at, l
<1>4. {l[i].id : i \in at} = {k \in S : q.path \in Pat(k) /\ Fit(k, q)}
  <2>1. \A i \in at : l[i].id \in S /\ q.path \in Pat(l[i].id) /\ Fit(l[i].id, q)
    BY <1>1, <1>3
  <2>2. ASSUME NEW k \in S, q.path \in Pat(k), Fit(k, q) PROVE \E i \in at : l[i].id = k
    <3>1. PICK i \in 1..Len(l) : l[i].id = k
      BY <1>2
    <3>2. i \in at
      BY <1>1, <1>3, <2>2, <3>1
    <3> QED
      BY <3>1, <3>2
  <2> QED
    BY Zenon, <2>1, <2>2
<1>5. IsFirst(IdAt(l, FirstOf(at)), {l[i].id : i \in at})
  BY <1>3, ListFirst DEF l
<1> QED
  BY Zenon, <1>4, <1>5 DEF at, l

\* f is what a scan of the slots at some places should come to: the first route
\* that fits of a slot that has one, when no slot before it has any.
Scanned(slots, S, q, at, f) ==
  LET C(i) == {k \in S : Pat(k) = slots[i].key /\ Fit(k, q)}
  IN  \/ f = 0 /\ \A i \in at : C(i) = {}
      \/ \E i \in at : /\ f \in C(i) /\ \A k \in C(i) : f <= k
                       /\ \A j \in at : C(j) # {} => i <= j

\* The loop over the slots comes to that.
LEMMA ScanSlots ==
  ASSUME Len(cfg) \in Nat, NEW S \in SUBSET (1..Len(cfg)), NEW slots, SlotsOf(slots, S), NEW q,
         NEW at \in SUBSET (1..Len(slots))
  PROVE  Scanned(slots, S, q, at, FirstSlot(slots, q, at))
<1> DEFINE C(i) == {k \in S : Pat(k) = slots[i].key /\ Fit(k, q)}
           first(i) == FirstIn(slots[i].routes, q)
           good == {i \in at : first(i) # 0}
           p == FirstOf(good)
<1>1. ASSUME NEW i \in at PROVE IsFirst(first(i), C(i))
  <2> DEFINE T == {k \in S : Pat(k) = slots[i].key}
  <2>1. ListOf(slots[i].routes, T) /\ T \in SUBSET (1..Len(cfg))
    BY Zenon DEF SlotsOf
  <2>2. C(i) = {k \in T : Fit(k, q)}
    OBVIOUS
  <2> HIDE DEF T, C
  <2>3. IsFirst(first(i), {k \in T : Fit(k, q)})
    BY <2>1, FirstInIsFirst
  <2> QED
    BY <2>2, <2>3
<1>2. \A i \in at : C(i) \in SUBSET (Nat \ {0})
  <2>1. S \subseteq Nat \ {0}
    OBVIOUS
  <2> QED
    BY Zenon, <2>1
<1> HIDE DEF C, first
<1>3. \A i \in at : first(i) # 0 <=> C(i) # {}
  BY <1>1, <1>2 DEF IsFirst
<1>4. /\ p = 0 <=> good = {}
      /\ good # {} => p \in good /\ \A j \in good : p <= j
  <2>1. Len(slots) \in Nat
    BY DEF SlotsOf
  <2>2. at \subseteq Nat \ {0}
    BY <2>1
  <2>3. good \subseteq Nat \ {0}
    BY Zenon, <2>2
  <2> HIDE DEF good
  <2> QED
    BY Zenon, <2>3, FirstOfIsLeast
<1>5. FirstSlot(slots, q, at) = IF p = 0 THEN 0 ELSE first(p)
  BY DEF FirstSlot, first
<1>6. \A i \in at : i \in good <=> C(i) # {}
  BY <1>3
<1>7. good \subseteq at
  OBVIOUS
<1> HIDE DEF p, good
<1>8. CASE good = {}
  BY <1>4, <1>5, <1>6, <1>8 DEF C, Scanned
<1>9. CASE good # {}
  <2>1. p \in at /\ C(p) # {} /\ p # 0
    BY Zenon, <1>4, <1>6, <1>7, <1>9
  <2>2. first(p) \in C(p) /\ \A k \in C(p) : first(p) <= k
    BY <1>1, <2>1 DEF IsFirst
  <2>3. \A j \in at : C(j) # {} => p <= j
    BY <1>4, <1>6, <1>9
  <2> QED
    BY <1>5, <2>1, <2>2, <2>3 DEF C, Scanned
<1> QED
  BY <1>8, <1>9

\* by_exact.get: the first route of that path that fits.
LEMMA ExactFirst ==
  ASSUME Len(cfg) \in Nat, NEW S \in SUBSET (1..Len(cfg)), NEW b, SlotsOf(b.exact, S), NEW q
  PROVE  IsFirst(FirstSlot(b.exact, q, ExactAt(b, q)), {k \in S : Pat(k) = q.path /\ Fit(k, q)})
<1> DEFINE slots == b.exact
           at == ExactAt(b, q)
           f == FirstSlot(slots, q, at)
           C(i) == {k \in S : Pat(k) = slots[i].key /\ Fit(k, q)}
           D == {k \in S : Pat(k) = q.path /\ Fit(k, q)}
<1>1. at \in SUBSET (1..Len(slots)) /\ \A i \in 1..Len(slots) : i \in at <=> slots[i].key = q.path
  BY DEF ExactAt
<1>2. \A i \in at : C(i) = D
  BY <1>1
<1>3. \/ f = 0 /\ \A i \in at : C(i) = {}
      \/ \E i \in at : f \in C(i) /\ \A k \in C(i) : f <= k
  <2> HIDE DEF at, slots
  <2>1. Scanned(slots, S, q, at, f)
    BY <1>1, ScanSlots DEF slots
  <2> QED
    BY <2>1, Zenon DEF Scanned
<1>4. ASSUME NEW k \in D PROVE \E i \in at : TRUE
  <2>1. PICK i \in 1..Len(slots) : slots[i].key = Pat(k)
    BY Zenon DEF SlotsOf
  <2> QED
    BY <1>1, <2>1
<1> HIDE DEF C, D, f, at
<1>5. IF D = {} THEN f = 0 ELSE f \in D /\ \A k \in D : f <= k
  BY <1>2, <1>3, <1>4
<1> QED
  BY <1>5 DEF IsFirst, f, D, at

\* f is the route the scan of the prefixes should find among C, or 0.
IsLongest(f, C) ==
  IF C = {} THEN f = 0
  ELSE f \in C /\ \A k \in C : \/ Len(Pat(k)) < Len(Pat(f))
                               \/ Len(Pat(k)) = Len(Pat(f)) /\ f <= k

\* The scan of the sorted prefixes finds the first fitting route of the longest
\* prefix of the path that has one: prefixes of one path that are equally long are
\* the same prefix, hence the same slot.
LEMMA PrefixLongest ==
  ASSUME cfg \in Seq(Matches), NEW S \in SUBSET (1..Len(cfg)), NEW b, SlotsOf(b.prefix, S),
         Descending(b.prefix), \A k \in S : Pat(k) \in Seq(Chars), NEW q
  PROVE  IsLongest(FirstSlot(b.prefix, q, PrefixAt(b, q)),
                   {k \in S : StartsWith(q.path, Pat(k)) /\ Fit(k, q)})
<1> DEFINE slots == b.prefix
           at == PrefixAt(b, q)
           f == FirstSlot(slots, q, at)
           C(i) == {k \in S : Pat(k) = slots[i].key /\ Fit(k, q)}
           D == {k \in S : StartsWith(q.path, Pat(k)) /\ Fit(k, q)}
<1>1. /\ at \in SUBSET (1..Len(slots)) /\ Len(cfg) \in Nat /\ Len(slots) \in Nat
      /\ \A i \in 1..Len(slots) : i \in at <=> StartsWith(q.path, slots[i].key)
  <2>1. slots \in Seq(Slot)
    BY Zenon DEF SlotsOf
  <2>2. Len(slots) \in Nat
    BY <2>1
  <2> QED
    BY <2>2 DEF PrefixAt
<1>2. \/ f = 0 /\ \A i \in at : C(i) = {}
      \/ \E i \in at : /\ f \in C(i) /\ \A k \in C(i) : f <= k
                       /\ \A j \in at : C(j) # {} => i <= j
  <2> HIDE DEF at, slots
  <2>1. Scanned(slots, S, q, at, f)
    BY <1>1, ScanSlots DEF slots
  <2> QED
    BY <2>1, Zenon DEF Scanned
<1>3. ASSUME NEW k \in D PROVE \E i \in at : slots[i].key = Pat(k) /\ k \in C(i)
  <2>1. PICK i \in 1..Len(slots) : slots[i].key = Pat(k)
    BY Zenon DEF SlotsOf
  <2> QED
    BY <1>1, <2>1
<1>4. \A i \in at : C(i) \in SUBSET D
  BY <1>1
<1>5. \A i \in at : \A k \in C(i) : Pat(k) = slots[i].key
  OBVIOUS
<1>6. \A k \in D : Pat(k) \in Seq(Chars) /\ Len(Pat(k)) \in Nat /\ StartsWith(q.path, Pat(k))
                   /\ k \in Nat
  OBVIOUS
<1> HIDE DEF C, D, f, at, slots
<1>7. CASE f = 0 /\ \A i \in at : C(i) = {}
  <2>1. D = {}
    BY <1>3, <1>7
  <2> QED
    BY <1>7, <2>1 DEF IsLongest, f, D, at, slots
<1>8. ASSUME NEW i \in at, f \in C(i), \A k \in C(i) : f <= k, \A j \in at : C(j) # {} => i <= j
      PROVE  IsLongest(f, D)
  <2>1. f \in D /\ Pat(f) = slots[i].key
    BY <1>4, <1>5, <1>8
  <2>2. ASSUME NEW k \in D
        PROVE  Len(Pat(k)) < Len(Pat(f)) \/ (Len(Pat(k)) = Len(Pat(f)) /\ f <= k)
    <3>1. PICK j \in at : slots[j].key = Pat(k) /\ k \in C(j)
      BY <1>3
    <3>2. i <= j
      BY <1>8, <3>1
    <3>3. CASE j = i
      BY <1>6, <1>8, <2>1, <3>1, <3>3
    <3>4. CASE j # i
      <4>1. i \in 1..Len(slots) /\ j \in 1..Len(slots) /\ i < j
        BY <1>1, <3>2, <3>4
      <4>2. Len(Pat(k)) <= Len(Pat(f))
        BY <1>6, <2>1, <3>1, <4>1 DEF Descending, slots
      <4>3. ASSUME Len(Pat(k)) = Len(Pat(f)) PROVE FALSE
        <5>1. Pat(k) = Pat(f)
          <6> DEFINE x == Pat(k)
                     y == Pat(f)
                     z == q.path
          <6>1. x \in Seq(Chars) /\ y \in Seq(Chars) /\ StartsWith(z, x) /\ StartsWith(z, y) /\ Len(x) = Len(y)
            BY <1>6, <2>1, <4>3
          <6> HIDE DEF x, y, z
          <6>2. \A m \in 1..Len(x) : x[m] = y[m]
            BY <6>1 DEF StartsWith
          <6>3. x = y
            BY <6>1, <6>2
          <6> QED
            BY <6>3 DEF x, y
        <5>2. slots[i].key # slots[j].key
          BY <3>4, <4>1, Zenon DEF SlotsOf, slots
        <5> QED
          BY <2>1, <3>1, <5>1, <5>2
      <4>4. Len(Pat(k)) \in Nat /\ Len(Pat(f)) \in Nat
        BY <1>6, <2>1
      <4> QED
        BY <4>2, <4>3, <4>4
    <3> QED
      BY <3>3, <3>4
  <2> QED
    BY <2>1, <2>2 DEF IsLongest
<1> QED
  BY <1>2, <1>7, <1>8 DEF f, D, at, slots

\* The routes of S that the request allows.
Allowed(S, q) == {k \in S : PathAllows(PathMatch(cfg[k]), q.path) /\ Fit(k, q)}

\* Route j comes before route k of the same bucket.
Better(j, k) ==
  \/ Specificity[Kind(j)] < Specificity[Kind(k)]
  \/ /\ Kind(j) = Kind(k)
     /\ \/ Kind(j) # "prefix" /\ j < k
        \/ Kind(j) = "prefix" /\ \/ Len(Pat(k)) < Len(Pat(j))
                                 \/ Len(Pat(k)) = Len(Pat(j)) /\ j < k

\* f is the best of C, or 0 when C is empty.
IsBest(f, C) == IF C = {} THEN f = 0 ELSE f \in C /\ \A k \in C \ {f} : Better(f, k)

\* HostBucket::find: exact, longest prefix, regex, any, and in each the first
\* declared; a header predicate that fails falls through.
LEMMA FindInIsBest ==
  ASSUME cfg \in Seq(Matches), NEW S \in SUBSET (1..Len(cfg)), NEW b, BucketOf(b, S),
         Descending(b.prefix), NEW q
  PROVE  IsBest(FindIn(b, q), Allowed(S, q))
<1> DEFINE E == {k \in OfKind(S, "exact") : Pat(k) = q.path /\ Fit(k, q)}
           P == {k \in OfKind(S, "prefix") : StartsWith(q.path, Pat(k)) /\ Fit(k, q)}
           R == {k \in OfKind(S, "regex") : q.path \in Pat(k) /\ Fit(k, q)}
           A == {k \in OfKind(S, "any") : Fit(k, q)}
           e == FirstSlot(b.exact, q, ExactAt(b, q))
           p == FirstSlot(b.prefix, q, PrefixAt(b, q))
           r == IdAt(b.regex, FirstOf(RegexAt(b, q)))
           a == FirstIn(b.any, q)
<1>1. /\ Len(cfg) \in Nat
      /\ \A k \in S : k \in Nat \ {0} /\ Kind(k) \in {"exact", "prefix", "regex", "any"}
  BY Kinds
<1>2. \A kind : OfKind(S, kind) \in SUBSET (1..Len(cfg))
  BY Zenon DEF OfKind
<1>3. IsFirst(e, E)
  BY Zenon, <1>1, <1>2, ExactFirst DEF BucketOf
<1>4. IsLongest(p, P)
  <2>1. \A k \in OfKind(S, "prefix") : Pat(k) \in Seq(Chars)
    BY Kinds DEF OfKind
  <2> QED
    BY Zenon, <1>2, <2>1, PrefixLongest DEF BucketOf
<1>5. IsFirst(r, R)
  BY Zenon, <1>1, <1>2, RegexFirst DEF BucketOf
<1>6. IsFirst(a, A)
  BY <1>1, <1>2, FirstInIsFirst DEF BucketOf
<1>7. Allowed(S, q) = E \cup P \cup R \cup A
  <2>1. \A k \in S : PathAllows(PathMatch(cfg[k]), q.path) <=>
          \/ Kind(k) = "exact" /\ Pat(k) = q.path
          \/ Kind(k) = "prefix" /\ StartsWith(q.path, Pat(k))
          \/ Kind(k) = "regex" /\ q.path \in Pat(k)
          \/ Kind(k) = "any"
    BY Zenon, <1>1 DEF PathAllows, Kind, Pat
  <2> QED
    BY Zenon, <2>1 DEF Allowed, OfKind
<1>8. /\ \A k \in E : Kind(k) = "exact" /\ k \in Nat \ {0}
      /\ \A k \in P : Kind(k) = "prefix" /\ k \in Nat \ {0}
      /\ \A k \in R : Kind(k) = "regex" /\ k \in Nat \ {0}
      /\ \A k \in A : Kind(k) = "any" /\ k \in Nat \ {0}
  BY <1>1 DEF OfKind
<1>9. FindIn(b, q) = IF e # 0 THEN e ELSE IF p # 0 THEN p ELSE IF r # 0 THEN r ELSE a
  BY DEF FindIn, OrElse
<1> HIDE DEF E, P, R, A, e, p, r, a
<1>10. CASE E # {}
  <2>1. e \in E /\ e # 0 /\ \A k \in E : e <= k
    BY <1>3, <1>8, <1>10 DEF IsFirst
  <2>2. FindIn(b, q) = e /\ e \in Allowed(S, q)
    BY <1>7, <1>9, <2>1
  <2>3. ASSUME NEW k \in Allowed(S, q), k # e PROVE Better(e, k)
    <3>1. k \in E \/ k \in P \/ k \in R \/ k \in A
      BY <1>7
    <3> QED
      BY <1>8, <2>1, <2>3, <3>1 DEF Better, Specificity
  <2> QED
    BY <2>2, <2>3 DEF IsBest
<1>11. CASE E = {} /\ P # {}
  <2>1. /\ e = 0 /\ p \in P /\ p # 0
        /\ \A k \in P : Len(Pat(k)) < Len(Pat(p)) \/ (Len(Pat(k)) = Len(Pat(p)) /\ p <= k)
    BY <1>3, <1>4, <1>8, <1>11 DEF IsFirst, IsLongest
  <2>2. FindIn(b, q) = p /\ p \in Allowed(S, q)
    BY <1>7, <1>9, <2>1
  <2>3. ASSUME NEW k \in Allowed(S, q), k # p PROVE Better(p, k)
    <3>1. k \in P \/ k \in R \/ k \in A
      BY <1>7, <1>11
    <3> QED
      BY SMTT(30), <1>8, <2>1, <2>3, <3>1 DEF Better, Specificity
  <2> QED
    BY <2>2, <2>3 DEF IsBest
<1>12. CASE E = {} /\ P = {} /\ R # {}
  <2>1. e = 0 /\ p = 0 /\ r \in R /\ r # 0 /\ \A k \in R : r <= k
    BY <1>3, <1>4, <1>5, <1>8, <1>12 DEF IsFirst, IsLongest
  <2>2. FindIn(b, q) = r /\ r \in Allowed(S, q)
    BY <1>7, <1>9, <2>1
  <2>3. ASSUME NEW k \in Allowed(S, q), k # r PROVE Better(r, k)
    <3>1. k \in R \/ k \in A
      BY <1>7, <1>12
    <3> QED
      BY <1>8, <2>1, <2>3, <3>1 DEF Better, Specificity
  <2> QED
    BY <2>2, <2>3 DEF IsBest
<1>13. CASE E = {} /\ P = {} /\ R = {}
  <2>1. e = 0 /\ p = 0 /\ r = 0 /\ FindIn(b, q) = a /\ Allowed(S, q) = A
    BY <1>3, <1>4, <1>5, <1>7, <1>9, <1>13 DEF IsFirst, IsLongest
  <2>2. ASSUME NEW k \in A, A # {}, k # a PROVE Better(a, k)
    BY <1>6, <1>8, <2>2 DEF Better, IsFirst
  <2> QED
    BY <1>6, <2>1, <2>2 DEF IsBest, IsFirst
<1> QED
  BY <1>10, <1>11, <1>12, <1>13

-----------------------------------------------------------------------------
(* The table *)

\* The routes inserted so far: those without a host, and those of a host.
WildIds == {k \in 1..Len(cfg) : k <= built /\ cfg[k].host = None}
HostIds(h) == {k \in 1..Len(cfg) : k <= built /\ cfg[k].host # None /\ Lower(cfg[k].host) = h}

\* Every bucket holds the routes of its host inserted so far, and a finished table
\* has its prefixes sorted.  NoRouteLost says nothing of where in a bucket a route
\* is, nor in which order.
TableInv ==
  /\ cfg \in Seq(Matches) /\ built \in 0..(Len(cfg) + 1)
  /\ table \in [by_host : [Keys -> Bucket], wildcard : Bucket]
  /\ BucketOf(table.wildcard, WildIds) /\ \A h \in Keys : BucketOf(table.by_host[h], HostIds(h))
  /\ Complete => /\ Descending(table.wildcard.prefix)
                 /\ \A h \in Keys : Descending(table.by_host[h].prefix)

\* A table without routes is well formed, whatever the config.
LEMMA EmptyTableInv == cfg \in Seq(Matches) /\ built = 0 /\ table = EmptyTable => TableInv
<1> SUFFICES ASSUME cfg \in Seq(Matches), built = 0, table = EmptyTable PROVE TableInv
  OBVIOUS
<1>1. built \in 0..(Len(cfg) + 1) /\ ~Complete
  BY DEF Complete
<1>2. WildIds = {} /\ \A h : HostIds(h) = {}
  BY DEF WildIds, HostIds
<1>3. EmptyBucket \in Bucket
  BY BucketEmpty DEF BucketOf
<1>4. /\ table \in [by_host : [Keys -> Bucket], wildcard : Bucket]
      /\ table.wildcard = EmptyBucket /\ \A h \in Keys : table.by_host[h] = EmptyBucket
  BY <1>3 DEF EmptyTable
<1>5. BucketOf(table.wildcard, WildIds) /\ \A h \in Keys : BucketOf(table.by_host[h], HostIds(h))
  BY Zenon, <1>2, <1>4, BucketEmpty
<1> QED
  BY <1>1, <1>4, <1>5, Zenon DEF TableInv

\* The bucket of a host that a route names is there.
LEMMA HostKeys ==
  /\ cfg \in Seq(Matches) =>
       \A k \in 1..Len(cfg) : cfg[k].host # None => Lower(cfg[k].host) \in Keys
  /\ \A h \in Hosts : Lower(h) \in Keys
<1>1. ASSUME cfg \in Seq(Matches), NEW k \in 1..Len(cfg), cfg[k].host # None
      PROVE  Lower(cfg[k].host) \in Keys
  <2>1. cfg[k] \in {m \in Matches : m.host # None}
    BY <1>1
  <2> QED
    BY <2>1, Zenon DEF Keys
<1>2. \A h \in Hosts : Lower(h) \in Keys
  BY Zenon DEF Keys
<1> QED
  BY <1>1, <1>2

\* What a bucket holds depends on the config alone.
LEMMA BucketKept ==
  ASSUME cfg' = cfg, NEW b, NEW S
  PROVE  Bucket' = Bucket /\ (BucketOf(b, S)' <=> BucketOf(b, S))
<1>1. RouteSet' = RouteSet /\ \A k : Pat(k)' = Pat(k) /\ Kind(k)' = Kind(k) /\ Route(k)' = Route(k)
  BY DEF RouteSet, Pat, Kind, Route
<1>2. Slot' = Slot
  BY Zenon, <1>1 DEF Slot
<1>3. Bucket' = Bucket
  BY <1>1, <1>2 DEF Bucket
<1>4. \A l, T : ListOf(l, T)' <=> ListOf(l, T)
  BY <1>1 DEF ListOf
<1>5. \A slots, T : SlotsOf(slots, T)' <=> SlotsOf(slots, T)
  <2> TAKE slots, T
  <2>1. \A i : {k \in T : Pat(k)' = slots[i].key} = {k \in T : Pat(k) = slots[i].key}
    BY Zenon, <1>1
  <2>2. \A i : ListOf(slots[i].routes, {k \in T : Pat(k) = slots[i].key})'
              <=> ListOf(slots[i].routes, {k \in T : Pat(k) = slots[i].key})
    BY Zenon, <1>4, <2>1
  <2>3. (\A i \in 1..Len(slots) : ListOf(slots[i].routes, {k \in T : Pat(k) = slots[i].key}))'
        <=> \A i \in 1..Len(slots) : ListOf(slots[i].routes, {k \in T : Pat(k) = slots[i].key})
    BY Zenon, <2>2
  <2>4. (slots \in Seq(Slot))' <=> slots \in Seq(Slot)
    BY Zenon, <1>2
  <2>5. /\ (\A k \in T : \E i \in 1..Len(slots) : slots[i].key = Pat(k))'
             <=> \A k \in T : \E i \in 1..Len(slots) : slots[i].key = Pat(k)
        /\ (\A i \in 1..Len(slots) : \E k \in T : slots[i].key = Pat(k))'
             <=> \A i \in 1..Len(slots) : \E k \in T : slots[i].key = Pat(k)
    BY Zenon, <1>1
  <2> QED
    BY Zenon, <2>3, <2>4, <2>5 DEF SlotsOf
<1>6. \A kind : OfKind(S, kind)' = OfKind(S, kind)
  BY <1>1 DEF OfKind
<1> QED
  BY <1>3, <1>4, <1>5, <1>6 DEF BucketOf

\* RouteTable::from_config puts the next route into the bucket of its host.
LEMMA InsertKeepsTable == TableInv /\ Insert => TableInv'
<1> SUFFICES ASSUME TableInv, Insert PROVE TableInv'
  OBVIOUS
<1> DEFINE k == built + 1
           r == Route(k)
           h0 == cfg[k].host
           t == table'
<1>1. /\ cfg \in Seq(Matches) /\ Len(cfg) \in Nat /\ k \in 1..Len(cfg) /\ built \in Nat
      /\ built' = k /\ cfg' = cfg
  BY DEF TableInv, Insert
<1>2. table \in [by_host : [Keys -> Bucket], wildcard : Bucket]
  BY DEF TableInv
<1>3. /\ WildIds \in SUBSET (1..Len(cfg)) /\ \A s \in WildIds : s < k
      /\ \A h : HostIds(h) \in SUBSET (1..Len(cfg)) /\ \A s \in HostIds(h) : s < k
  BY <1>1 DEF WildIds, HostIds
<1>4. /\ WildIds' = IF h0 = None THEN WildIds \cup {k} ELSE WildIds
      /\ \A h : HostIds(h)' = IF h0 # None /\ h = Lower(h0) THEN HostIds(h) \cup {k} ELSE HostIds(h)
  BY <1>1 DEF WildIds, HostIds
<1>5. /\ t \in [by_host : [Keys -> Bucket], wildcard : Bucket]
      /\ BucketOf(t.wildcard, WildIds') /\ \A h \in Keys : BucketOf(t.by_host[h], HostIds(h)')
  <2>1. CASE h0 = None
    <3> DEFINE b == InsertInto(table.wildcard, r)
    <3>1. BucketOf(b, WildIds \cup {k})
      BY <1>1, <1>3, BucketInsert DEF TableInv
    <3>2. b \in Bucket
      BY <3>1 DEF BucketOf
    <3>3. t = [table EXCEPT !.wildcard = b]
      BY <2>1 DEF Insert
    <3> HIDE DEF b, t
    <3>4. t \in [by_host : [Keys -> Bucket], wildcard : Bucket] /\ t.wildcard = b /\ t.by_host = table.by_host
      BY <1>2, <3>2, <3>3
    <3>5. \A h \in Keys : BucketOf(table.by_host[h], HostIds(h))
      BY DEF TableInv
    <3> QED
      BY <1>4, <2>1, <3>1, <3>4, <3>5
  <2>2. CASE h0 # None
    <3> DEFINE g == Lower(h0)
               b == InsertInto(table.by_host[g], r)
    <3>1. g \in Keys
      BY <1>1, <2>2, HostKeys
    <3>2. BucketOf(b, HostIds(g) \cup {k})
      BY <1>1, <1>3, <3>1, BucketInsert DEF TableInv
    <3>3. b \in Bucket
      BY <3>2 DEF BucketOf
    <3>4. t = [table EXCEPT !.by_host[g] = b]
      BY <2>2 DEF Insert
    <3> HIDE DEF b, t, g
    <3>5. t = [table EXCEPT !.by_host = [table.by_host EXCEPT ![g] = b]]
      BY <3>4
    <3>6. [table.by_host EXCEPT ![g] = b] \in [Keys -> Bucket] /\ table.by_host \in [Keys -> Bucket]
      BY Zenon, <1>2, <3>3
    <3>7. /\ t \in [by_host : [Keys -> Bucket], wildcard : Bucket] /\ t.wildcard = table.wildcard
          /\ t.by_host = [table.by_host EXCEPT ![g] = b]
      BY <1>2, <3>5, <3>6
    <3>8. \A h \in Keys : t.by_host[h] = IF h = g THEN b ELSE table.by_host[h]
      BY <3>1, <3>6, <3>7
    <3>9. BucketOf(table.wildcard, WildIds) /\ \A h \in Keys : BucketOf(table.by_host[h], HostIds(h))
      BY DEF TableInv
    <3> QED
      BY Zenon, <1>4, <2>2, <3>2, <3>7, <3>8, <3>9 DEF g
  <2> QED
    BY <2>1, <2>2
<1>6. /\ BucketOf(table.wildcard, WildIds)' /\ \A h \in Keys : BucketOf(table.by_host[h], HostIds(h))'
      /\ Bucket' = Bucket
  BY <1>1, <1>5, BucketKept
<1>7. ~Complete' /\ built' \in 0..(Len(cfg') + 1) /\ cfg' \in Seq(Matches)
  BY <1>1 DEF Complete
<1> QED
  BY <1>5, <1>6, <1>7 DEF TableInv

\* The end of from_config: every bucket is finalised.
LEMMA FinaliseKeepsTable == TableInv /\ Finalise => TableInv'
<1> SUFFICES ASSUME TableInv, Finalise PROVE TableInv'
  OBVIOUS
<1> DEFINE t == table'
<1>1. /\ cfg \in Seq(Matches) /\ Len(cfg) \in Nat /\ built = Len(cfg)
      /\ built' = built + 1 /\ cfg' = cfg
  BY DEF TableInv, Finalise
<1>2. WildIds \in SUBSET (1..Len(cfg)) /\ \A h : HostIds(h) \in SUBSET (1..Len(cfg))
  BY DEF WildIds, HostIds
<1>3. WildIds' = WildIds /\ \A h : HostIds(h)' = HostIds(h)
  BY <1>1 DEF WildIds, HostIds
<1>4. BucketOf(table.wildcard, WildIds) /\ \A h \in Keys : BucketOf(table.by_host[h], HostIds(h))
  BY DEF TableInv
<1>5. BucketOf(Finalised(table.wildcard), WildIds) /\ Descending(Finalised(table.wildcard).prefix)
  BY <1>1, <1>2, <1>4, BucketFinalised
<1>6. \A h \in Keys : /\ BucketOf(Finalised(table.by_host[h]), HostIds(h))
                      /\ Descending(Finalised(table.by_host[h]).prefix)
  BY <1>1, <1>2, <1>4, BucketFinalised
<1>7. /\ Finalised(table.wildcard) \in Bucket
      /\ \A h \in Keys : Finalised(table.by_host[h]) \in Bucket
  BY <1>5, <1>6 DEF BucketOf
<1>8. t = [by_host |-> [h \in Keys |-> Finalised(table.by_host[h])], wildcard |-> Finalised(table.wildcard)]
  BY DEF Finalise
<1> HIDE DEF t
<1>9. /\ t \in [by_host : [Keys -> Bucket], wildcard : Bucket]
      /\ t.wildcard = Finalised(table.wildcard)
      /\ \A h \in Keys : t.by_host[h] = Finalised(table.by_host[h])
  BY <1>7, <1>8
<1>10. /\ BucketOf(t.wildcard, WildIds') /\ \A h \in Keys : BucketOf(t.by_host[h], HostIds(h)')
       /\ Descending(t.wildcard.prefix) /\ \A h \in Keys : Descending(t.by_host[h].prefix)
  BY <1>3, <1>5, <1>6, <1>9
<1>11. /\ BucketOf(table.wildcard, WildIds)' /\ \A h \in Keys : BucketOf(table.by_host[h], HostIds(h))'
       /\ Bucket' = Bucket
  BY <1>1, <1>10, BucketKept DEF t
<1>12. built' \in 0..(Len(cfg') + 1) /\ cfg' \in Seq(Matches)
  BY <1>1
<1> QED
  BY <1>9, <1>10, <1>11, <1>12 DEF TableInv, t, Descending

\* What does not touch the table keeps it.
LEMMA TableKept == TableInv /\ UNCHANGED vars => TableInv'
<1> SUFFICES ASSUME TableInv, UNCHANGED vars PROVE TableInv'
  OBVIOUS
<1>1. cfg' = cfg /\ built' = built /\ table' = table
  BY DEF vars
<1>2. WildIds' = WildIds /\ (\A h : HostIds(h)' = HostIds(h)) /\ (Complete' <=> Complete)
  BY <1>1 DEF WildIds, HostIds, Complete
<1>3. BucketOf(table'.wildcard, WildIds') /\ \A h \in Keys : BucketOf(table'.by_host[h], HostIds(h)')
  BY <1>1, <1>2 DEF TableInv
<1>4. /\ BucketOf(table.wildcard, WildIds)' /\ \A h \in Keys : BucketOf(table.by_host[h], HostIds(h))'
      /\ Bucket' = Bucket
  BY <1>1, <1>3, BucketKept
<1> QED
  BY Zenon, <1>1, <1>2, <1>4 DEF TableInv, Descending

\* A well-formed table has lost no route.
LEMMA TableHoldsRoutes == TableInv => NoRouteLost
<1> SUFFICES ASSUME TableInv PROVE NoRouteLost
  OBVIOUS
<1>1. /\ cfg \in Seq(Matches) /\ DOMAIN cfg = 1..Len(cfg)
      /\ WildIds \in SUBSET (1..Len(cfg)) /\ \A h : HostIds(h) \in SUBSET (1..Len(cfg))
  BY DEF TableInv, WildIds, HostIds
<1>2. IdsIn(table.wildcard) = WildIds
  BY <1>1, BucketIds DEF TableInv
<1>3. \A h \in Keys : IdsIn(table.by_host[h]) = HostIds(h)
  BY <1>1, BucketIds DEF TableInv
<1> QED
  BY <1>1, <1>2, <1>3 DEF NoRouteLost, WildIds, HostIds

\* The lookup in a well-formed and finished table: the bucket of the host first,
\* then the wildcards.
LEMMA TableFindsBest == TableInv => FindIsBest
<1> SUFFICES ASSUME TableInv, Complete, NEW q \in Queries
             PROVE  /\ Find(q) = 0 => Candidates(q) = {}
                    /\ Find(q) # 0 => /\ Find(q) \in Candidates(q)
                                      /\ \A k \in Candidates(q) \ {Find(q)} : Preferred(Find(q), k)
  BY DEF FindIsBest
<1> DEFINE g == Lower(q.host)
           H == IF q.host # None THEN HostIds(g) ELSE {}
           h == IF q.host # None THEN FindIn(table.by_host[g], q) ELSE 0
           w == FindIn(table.wildcard, q)
           AH == Allowed(H, q)
           AW == Allowed(WildIds, q)
<1>1. /\ cfg \in Seq(Matches) /\ Len(cfg) \in Nat /\ built = Len(cfg) + 1
      /\ WildIds \in SUBSET (1..Len(cfg)) /\ \A x : HostIds(x) \in SUBSET (1..Len(cfg))
  BY DEF TableInv, WildIds, HostIds, Complete
<1>2. IsBest(w, AW)
  BY <1>1, FindInIsBest DEF TableInv
<1>3. IsBest(h, AH)
  <2>1. CASE q.host # None
    <3>1. g \in Keys
      BY <2>1, HostKeys DEF Queries
    <3>2. IsBest(FindIn(table.by_host[g], q), Allowed(HostIds(g), q))
      BY <1>1, <3>1, FindInIsBest DEF TableInv
    <3> QED
      BY <2>1, <3>2
  <2>2. CASE q.host = None
    BY <2>2 DEF IsBest, Allowed
  <2> QED
    BY <2>1, <2>2
<1>4. Find(q) = IF h # 0 THEN h ELSE w
  BY DEF Find, OrElse
<1>5. \A k \in 1..Len(cfg) : k <= built
  BY <1>1
<1>6. /\ AH \in SUBSET (1..Len(cfg)) /\ AW \in SUBSET (1..Len(cfg))
      /\ \A k \in AH : cfg[k].host # None
      /\ \A k \in AW : cfg[k].host = None
  BY DEF Allowed, HostIds, WildIds
<1>7. Candidates(q) = AH \cup AW
  <2>1. ASSUME NEW k \in 1..Len(cfg)
        PROVE  Allows(cfg[k], q) <=> k \in AH \/ k \in AW
    <3>1. CASE cfg[k].host = None
      BY <1>5, <3>1 DEF Allows, Allowed, HostIds, WildIds, Fit
    <3>2. CASE cfg[k].host # None
      BY <1>5, <3>2 DEF Allows, Allowed, HostIds, WildIds, Fit
    <3> QED
      BY <3>1, <3>2
  <2> HIDE DEF AH, AW
  <2> QED
    BY Zenon, <1>6, <2>1 DEF Candidates
<1> HIDE DEF AH, AW, h, w, H, g
<1>8. ASSUME NEW j \in 1..Len(cfg), NEW k \in 1..Len(cfg), Better(j, k),
             (cfg[j].host = None) <=> (cfg[k].host = None)
      PROVE  Preferred(j, k)
  <2>1. Kind(j) \in {"exact", "prefix", "regex", "any"} /\ Kind(k) \in {"exact", "prefix", "regex", "any"}
    BY <1>1, Kinds
  <2>2. Kind(j) = "prefix" /\ Kind(k) = "prefix" => Len(Pat(j)) \in Nat /\ Len(Pat(k)) \in Nat
    BY <1>1, Kinds
  <2>3. Preferred(j, k) <=> IF Kind(j) # Kind(k) THEN Specificity[Kind(j)] < Specificity[Kind(k)]
                            ELSE IF Kind(j) = "prefix" /\ Len(Pat(j)) # Len(Pat(k))
                            THEN Len(Pat(j)) > Len(Pat(k)) ELSE j < k
    BY Zenon, <1>8 DEF Preferred, Kind, Pat
  <2>4. CASE Kind(j) = Kind(k)
    <3>1. ~(Specificity[Kind(j)] < Specificity[Kind(k)])
      BY <2>1, <2>4 DEF Specificity
    <3> QED
      BY <1>8, <2>2, <2>3, <2>4, <3>1 DEF Better
  <2>5. CASE Kind(j) # Kind(k)
    BY Zenon, <1>8, <2>3, <2>5 DEF Better
  <2> QED
    BY <2>4, <2>5
<1>9. ASSUME NEW j \in AH, NEW k \in AW PROVE Preferred(j, k)
  BY <1>6 DEF Preferred
<1>10. CASE AH # {}
  <2>1. h \in AH /\ \A k \in AH \ {h} : Better(h, k)
    BY <1>3, <1>10 DEF IsBest
  <2>2. h # 0
    BY <1>1, <1>6, <2>1
  <2>3. Find(q) = h
    BY <1>4, <2>2
  <2>4. \A k \in AH \ {h} : Preferred(h, k)
    BY <1>6, <1>8, <2>1
  <2> QED
    BY <1>7, <1>9, <2>1, <2>3, <2>4, <2>2
<1>11. CASE AH = {}
  <2>1. h = 0 /\ Find(q) = w /\ Candidates(q) = AW
    BY <1>3, <1>4, <1>7, <1>11 DEF IsBest
  <2>2. CASE AW = {}
    BY <1>2, <2>1, <2>2 DEF IsBest
  <2>3. CASE AW # {}
    <3>1. w \in AW /\ \A k \in AW \ {w} : Better(w, k)
      BY <1>2, <2>3 DEF IsBest
    <3>2. w # 0
      BY <1>1, <1>6, <3>1
    <3>3. \A k \in AW \ {w} : Preferred(w, k)
      BY <1>6, <1>8, <3>1
    <3> QED
      BY <2>1, <3>1, <3>3, <3>2
  <2> QED
    BY <2>2, <2>3
<1> QED
  BY <1>10, <1>11

-----------------------------------------------------------------------------
(* Validation, and the upstreams *)

\* A list of verdicts comes to "ok" only when each of them does.
LEMMA NoError ==
  ASSUME NEW errors, DOMAIN errors \subseteq Nat \ {0}, FirstError(errors) = "ok"
  PROVE  \A i \in DOMAIN errors : errors[i] = "ok"
<1> DEFINE bad == {i \in DOMAIN errors : errors[i] # "ok"}
<1>1. bad \subseteq Nat \ {0} /\ \A i \in bad : errors[i] # "ok"
  OBVIOUS
<1>2. FirstError(errors) = IF FirstOf(bad) = 0 THEN "ok" ELSE errors[FirstOf(bad)]
  BY DEF FirstError
<1>3. \A i \in DOMAIN errors : i \notin bad => errors[i] = "ok"
  OBVIOUS
<1> HIDE DEF bad
<1>4. FirstOf(bad) = 0
  BY Zenon, <1>1, <1>2, FirstOfIsLeast
<1>5. bad = {}
  BY Zenon, <1>1, <1>4, FirstOfIsLeast
<1> QED
  BY <1>3, <1>5

Ups(d) == 1..Len(d.upstreams)
Name(d, k) == d.upstreams[k].name

\* What check_logic promises of a document it accepts: its upstreams have
\* addresses and names of their own, and every route names one of them.
Sound(d) ==
  /\ \A k \in Ups(d) : d.upstreams[k].addrs > 0
  /\ \A j, k \in Ups(d) : Name(d, j) = Name(d, k) => j = k
  /\ \A i \in 1..Len(d.routes) : \E k \in Ups(d) : Name(d, k) = d.routes[i].upstream

\* The shape of a document.
LEMMA DocShape ==
  ASSUME NEW d \in Docs
  PROVE  /\ Len(d.routes) \in Nat /\ DOMAIN d.routes = 1..Len(d.routes)
         /\ \A k \in 1..Len(d.routes) : d.routes[k].match \in Matches
         /\ Len(d.upstreams) \in Nat /\ DOMAIN d.upstreams = Ups(d)
         /\ \A k \in Ups(d) : Name(d, k) \in Names /\ d.upstreams[k].addrs \in Nat
BY DispatchAssumption DEF Ups, Name

\* check_logic keeps that promise.
LEMMA LogicIsSound ==
  ASSUME NEW d \in Docs, CheckLogic(d) = "ok"
  PROVE  Sound(d)
<1> DEFINE ue == [k \in DOMAIN d.upstreams |-> UpstreamError(d, k)]
           re == [k \in DOMAIN d.routes |-> RouteError(d.upstreams, d.routes[k])]
           nr == IF d.routes = <<>> THEN "NoRoutes" ELSE "ok"
           all == <<nr, FirstError(ue), FirstError(re), TlsError(d)>>
<1>1. /\ Len(d.routes) \in Nat /\ DOMAIN d.routes = 1..Len(d.routes)
      /\ Len(d.upstreams) \in Nat /\ DOMAIN d.upstreams = Ups(d)
      /\ \A k \in Ups(d) : d.upstreams[k].addrs \in Nat
  BY DocShape
<1>2. FirstError(all) = "ok"
  BY DEF CheckLogic
<1>3. /\ DOMAIN ue = Ups(d) /\ \A k \in Ups(d) : ue[k] = UpstreamError(d, k)
      /\ DOMAIN re = 1..Len(d.routes)
      /\ \A k \in 1..Len(d.routes) : re[k] = RouteError(d.upstreams, d.routes[k])
  BY <1>1
<1> HIDE DEF ue, re, nr
<1>4. FirstError(ue) = "ok" /\ FirstError(re) = "ok"
  <2>1. DOMAIN all = 1..4 /\ all[2] = FirstError(ue) /\ all[3] = FirstError(re)
    OBVIOUS
  <2> HIDE DEF all
  <2> QED
    BY <1>2, <2>1, NoError
<1>5. \A k \in Ups(d) : UpstreamError(d, k) = "ok"
  <2>1. DOMAIN ue \subseteq Nat \ {0}
    BY <1>1, <1>3 DEF Ups
  <2> QED
    BY <1>3, <1>4, <2>1, NoError
<1>6. \A i \in 1..Len(d.routes) : RouteError(d.upstreams, d.routes[i]) = "ok"
  <2>1. DOMAIN re \subseteq Nat \ {0}
    BY SMTT(30), <1>1, <1>3
  <2> QED
    BY <1>3, <1>4, <2>1, NoError
<1>7. \A k \in Ups(d) : d.upstreams[k].addrs # 0 /\ \A j \in 1..(k - 1) : Name(d, j) # Name(d, k)
  BY Zenon, <1>5 DEF UpstreamError, Name
<1>8. \A j, k \in Ups(d) : Name(d, j) = Name(d, k) => j = k
  <2> SUFFICES ASSUME NEW j \in Ups(d), NEW k \in Ups(d), j # k PROVE Name(d, j) # Name(d, k)
    OBVIOUS
  <2>1. j \in 1..(k - 1) \/ k \in 1..(j - 1)
    BY <1>1 DEF Ups
  <2> QED
    BY <1>7, <2>1
<1>9. ASSUME NEW i \in 1..Len(d.routes) PROVE \E k \in Ups(d) : Name(d, k) = d.routes[i].upstream
  <2> DEFINE r == d.routes[i]
             e1 == IF \A u \in Elements(d.upstreams) : u.name # r.upstream THEN "UnknownUpstream" ELSE "ok"
             e2 == IF r.match.host = None /\ ~HasPath(r.match) THEN "RouteMatchEmpty" ELSE "ok"
             e3 == IF r.match.prefix # None /\ r.match.exact # None THEN "RoutePathConflict" ELSE "ok"
             e4 == IF r.retry = 0 THEN "RetryAttemptsZero" ELSE "ok"
             four == <<e1, e2, e3, e4>>
  <2>1. FirstError(four) = "ok"
    BY <1>6 DEF RouteError
  <2> HIDE DEF e1, e2, e3, e4
  <2>2. DOMAIN four = 1..4 /\ four[1] = e1
    OBVIOUS
  <2> HIDE DEF four
  <2>3. e1 = "ok"
    BY <2>1, <2>2, NoError
  <2>4. \E u \in Elements(d.upstreams) : u.name = r.upstream
    BY <2>3 DEF e1
  <2> QED
    BY <1>1, <2>4 DEF Elements, Name
<1> QED
  BY <1>1, <1>7, <1>8, <1>9 DEF Sound

\* The table is built from a document that validation accepts, and from its routes.
LoadInv ==
  /\ doc \in Docs
  /\ verdict = "ok" => Sound(doc) /\ cfg = [k \in DOMAIN doc.routes |-> doc.routes[k].match]
  /\ verdict # "ok" => built = 0 /\ table = EmptyTable /\ mapped = 0

\* UpstreamMap has every upstream that was not skipped, under its name, and no
\* other.  ServedAsConfigured speaks of a map that is complete only.
MapInv ==
  /\ mapped \in 0..Len(doc.upstreams)
  /\ skipped \in SUBSET (1..mapped)
  /\ by_name \in [Names -> Nat]
  /\ \A n \in Names : by_name[n] # 0 =>
       by_name[n] \in (1..mapped) \ skipped /\ Name(doc, by_name[n]) = n
  /\ \A k \in (1..mapped) \ skipped : by_name[Name(doc, k)] = k

DispatchInv == TableInv /\ LoadInv /\ MapInv

\* Before load there is no route and no upstream.
LEMMA DispatchStart == DispatchInit => DispatchInv
<1> SUFFICES ASSUME DispatchInit PROVE DispatchInv
  OBVIOUS
<1>1. TableInv
  BY EmptyTableInv DEF DispatchInit
<1>2. LoadInv
  BY DEF DispatchInit, LoadInv
<1>3. MapInv
  BY <1>2, DocShape DEF DispatchInit, MapInv, LoadInv
<1> QED
  BY <1>1, <1>2, <1>3 DEF DispatchInv

\* DispatchInv is inductive.
LEMMA DispatchStep == DispatchInv /\ [DispatchNext]_<<vars, dispatchVars>> => DispatchInv'
<1> SUFFICES ASSUME DispatchInv, [DispatchNext]_<<vars, dispatchVars>> PROVE DispatchInv'
  OBVIOUS
<1>1. /\ TableInv /\ LoadInv /\ MapInv /\ doc \in Docs
      /\ Len(doc.upstreams) \in Nat /\ Ups(doc) = 1..Len(doc.upstreams)
      /\ \A k \in Ups(doc) : Name(doc, k) \in Names
  BY DocShape DEF DispatchInv, LoadInv, Ups
<1>2. CASE Load
  <2>1. /\ verdict # "ok" /\ cfg' = [k \in DOMAIN doc.routes |-> doc.routes[k].match]
        /\ UNCHANGED <<built, table, doc, mapped, by_name, skipped>>
        /\ verdict' = FirstError(<<CheckLogic(doc), CheckFilesystem(doc)>>)
    BY <1>2 DEF Load
  <2>2. built = 0 /\ table = EmptyTable /\ mapped = 0
    BY <1>1, <2>1 DEF LoadInv
  <2>3. cfg' \in Seq(Matches)
    <3>1. /\ Len(doc.routes) \in Nat /\ DOMAIN doc.routes = 1..Len(doc.routes)
          /\ \A k \in 1..Len(doc.routes) : doc.routes[k].match \in Matches
      BY <1>1, DocShape
    <3>2. cfg' = [k \in 1..Len(doc.routes) |-> doc.routes[k].match]
      BY <2>1, <3>1
    <3> QED
      BY <3>1, <3>2
  <2>4. ASSUME verdict' = "ok" PROVE Sound(doc)
    <3> DEFINE both == <<CheckLogic(doc), CheckFilesystem(doc)>>
    <3>1. DOMAIN both = 1..2 /\ both[1] = CheckLogic(doc)
      OBVIOUS
    <3>2. FirstError(both) = "ok"
      BY <2>1, <2>4
    <3> HIDE DEF both
    <3>3. CheckLogic(doc) = "ok"
      BY <3>1, <3>2, NoError
    <3> QED
      BY <1>1, <3>3, LogicIsSound
  <2>5. (cfg \in Seq(Matches) /\ built = 0 /\ table = EmptyTable)'
    BY <2>1, <2>2, <2>3 DEF EmptyTable, EmptyBucket
  <2>6. TableInv'
    BY <2>5, EmptyTableInv, PTL
  <2>7. LoadInv'
    BY <1>1, <2>1, <2>2, <2>4 DEF LoadInv, Sound, Ups, Name, EmptyTable, EmptyBucket
  <2>8. MapInv'
    BY <1>1, <2>1 DEF MapInv, Name
  <2> QED
    BY <2>6, <2>7, <2>8 DEF DispatchInv
<1>3. CASE BuildTable
  <2>1. /\ verdict = "ok" /\ (Insert \/ Finalise) /\ UNCHANGED dispatchVars
    BY <1>3 DEF BuildTable
  <2>2. TableInv'
    BY <1>1, <2>1, InsertKeepsTable, FinaliseKeepsTable
  <2>3. cfg' = cfg
    BY <2>1 DEF Insert, Finalise
  <2>4. LoadInv'
    BY <1>1, <2>1, <2>3 DEF LoadInv, dispatchVars, Sound, Ups, Name
  <2>5. MapInv'
    BY <1>1, <2>1 DEF MapInv, dispatchVars, Name
  <2> QED
    BY <2>2, <2>4, <2>5 DEF DispatchInv
<1>4. CASE BuildUpstream
  <2> DEFINE k == mapped + 1
             n == Name(doc, k)
  <2>1. /\ verdict = "ok" /\ mapped < Len(doc.upstreams) /\ mapped \in Nat /\ k \in Ups(doc) /\ n \in Names
        /\ UNCHANGED <<vars, doc, verdict>> /\ mapped' = k
    <3>1. /\ verdict = "ok" /\ mapped < Len(doc.upstreams)
          /\ UNCHANGED <<vars, doc, verdict>> /\ mapped' = k
      BY <1>4 DEF BuildUpstream, AfterSkip
    <3>2. mapped \in Nat /\ k \in Ups(doc)
      BY <1>1, <3>1 DEF MapInv, Ups
    <3> QED
      BY Zenon, <1>1, <3>1, <3>2
  <2>2. TableInv'
    BY <1>1, <2>1, TableKept
  <2>3. LoadInv'
    BY <1>1, <2>1 DEF LoadInv, vars, Sound, Ups, Name
  <2>4. \A j \in 1..mapped : Name(doc, j) \in Names /\ Name(doc, j) # n
    <3>1. \A j \in 1..mapped : j \in Ups(doc) /\ j # k
      BY <1>1, <2>1
    <3>2. \A j, i \in Ups(doc) : Name(doc, j) = Name(doc, i) => j = i
      BY <1>1, <2>1 DEF LoadInv, Sound
    <3> QED
      BY <1>1, <2>1, <3>1, <3>2
  <2>5. /\ skipped \in SUBSET (1..mapped) /\ by_name \in [Names -> Nat]
        /\ \A x \in Names : by_name[x] # 0 => by_name[x] \in (1..mapped) \ skipped /\ Name(doc, by_name[x]) = x
        /\ \A j \in (1..mapped) \ skipped : by_name[Name(doc, j)] = j
    BY <1>1 DEF MapInv
  <2>6. /\ mapped' \in 0..Len(doc'.upstreams) /\ \A j : j \in 1..mapped' <=> j \in 1..mapped \/ j = k
        /\ k \notin 1..mapped /\ \A j : Name(doc, j)' = Name(doc, j)
    BY <1>1, <2>1 DEF Name
  <2>7. CASE by_name' = [by_name EXCEPT ![n] = k] /\ skipped' = skipped
    <3>1. /\ by_name' \in [Names -> Nat] /\ by_name'[n] = k
          /\ \A x \in Names : x # n => by_name'[x] = by_name[x]
      BY <2>1, <2>5, <2>7
    <3>2. skipped' \in SUBSET (1..mapped') /\ k \notin skipped
      BY <2>5, <2>6, <2>7
    <3>3. ASSUME NEW x \in Names, by_name'[x] # 0
          PROVE  by_name'[x] \in (1..mapped') \ skipped' /\ Name(doc, by_name'[x]) = x
      <4>1. CASE x = n
        BY <2>6, <2>7, <3>1, <3>2, <4>1
      <4>2. CASE x # n
        BY <2>5, <2>6, <2>7, <3>1, <3>3, <4>2
      <4> QED
        BY <4>1, <4>2
    <3>4. ASSUME NEW j \in (1..mapped') \ skipped' PROVE by_name'[Name(doc, j)] = j
      <4>1. CASE j = k
        BY <3>1, <4>1
      <4>2. CASE j \in 1..mapped
        BY <2>4, <2>5, <2>7, <3>1, <4>2
      <4> QED
        BY <2>6, <4>1, <4>2
    <3>5. MapInv'
      BY <2>6, <3>1, <3>2, <3>3, <3>4, <2>1 DEF MapInv, Name
    <3> QED
      BY <2>2, <2>3, <3>5 DEF DispatchInv
  <2>8. CASE by_name' = by_name /\ skipped' = skipped \cup {k}
    <3>1. skipped' \in SUBSET (1..mapped')
      BY Zenon, <2>5, <2>6, <2>8
    <3>2. \A x \in Names : by_name'[x] # 0 =>
            by_name'[x] \in (1..mapped') \ skipped' /\ Name(doc, by_name'[x]) = x
      BY <2>5, <2>6, <2>8
    <3>3. \A j \in (1..mapped') \ skipped' : by_name'[Name(doc, j)] = j
      BY <2>5, <2>6, <2>8
    <3>4. MapInv'
      BY <2>5, <2>6, <2>8, <3>1, <3>2, <3>3, <2>1 DEF MapInv, Name
    <3> QED
      BY <2>2, <2>3, <3>4 DEF DispatchInv
  <2> QED
    BY <1>4, <2>7, <2>8 DEF BuildUpstream, Name
<1>5. CASE UNCHANGED <<vars, doc, verdict, mapped, by_name, skipped>>
  <2>1. TableInv'
    BY <1>1, <1>5, TableKept
  <2>2. LoadInv'
    BY <1>1, <1>5 DEF LoadInv, vars, Sound, Ups, Name
  <2>3. MapInv'
    BY <1>1, <1>5 DEF MapInv, Name
  <2> QED
    BY <2>1, <2>2, <2>3 DEF DispatchInv
<1> QED
  BY <1>2, <1>3, <1>4, <1>5 DEF DispatchNext, BuildProbe, Done, EditFile, dispatchVars

\* DispatchInv is an invariant.
THEOREM DispatchCorrect == DispatchSpec => []DispatchInv
BY DispatchStart, DispatchStep, PTL DEF DispatchSpec

\* RouteTable::from_config loses no route and files none under another host, at
\* every point of its loop, for any routes.
THEOREM RoutesKept == DispatchSpec => []NoRouteLost
<1>1. DispatchInv => NoRouteLost
  BY TableHoldsRoutes DEF DispatchInv
<1> QED
  BY <1>1, DispatchCorrect, PTL

\* RouteTable::find returns the route that its docs describe, for any routes and
\* any request: host before wildcard, exact, longest prefix, regex, any, and then
\* the first declared, of those whose header predicates hold.
THEOREM FindCorrect == DispatchSpec => []FindIsBest
<1>1. DispatchInv => FindIsBest
  BY TableFindsBest DEF DispatchInv
<1> QED
  BY <1>1, DispatchCorrect, PTL

\* Dispatch::handle forwards to the upstream that the best route names, or refuses
\* because that upstream could not be built, whatever becomes of the files.
THEOREM ServedCorrect == DispatchSpec => []ServedAsConfigured
<1>1. DispatchInv => ServedAsConfigured
  <2> SUFFICES ASSUME DispatchInv, Ready, NEW q \in Queries
               PROVE  IF Handle(q).outcome = "NoRoute" THEN Candidates(q) = {}
                      ELSE LET name == doc.routes[Handle(q).route].upstream
                           IN  \E k \in DOMAIN doc.upstreams :
                                 /\ {j \in DOMAIN doc.upstreams : doc.upstreams[j].name = name} = {k}
                                 /\ doc.upstreams[k].addrs > 0
                                 /\ IF k \in skipped THEN Handle(q).outcome = "UpstreamNotRegistered"
                                    ELSE Handle(q).outcome = "forward" /\ by_name[name] = k
    BY DEF ServedAsConfigured
  <2> DEFINE f == Find(q)
  <2>1. /\ doc \in Docs /\ Sound(doc) /\ MapInv /\ mapped = Len(doc.upstreams) /\ Complete
        /\ cfg = [k \in DOMAIN doc.routes |-> doc.routes[k].match]
    BY DEF DispatchInv, LoadInv, Ready
  <2>2. /\ f = 0 => Candidates(q) = {}
        /\ f # 0 => f \in 1..Len(cfg)
    BY <2>1, TableFindsBest DEF DispatchInv, FindIsBest, Candidates
  <2>3. Len(cfg) = Len(doc.routes) /\ DOMAIN doc.upstreams = Ups(doc) /\ \A k \in Ups(doc) : Name(doc, k) \in Names
    <3>1. /\ DOMAIN doc.upstreams = Ups(doc) /\ \A k \in Ups(doc) : Name(doc, k) \in Names
          /\ Len(doc.routes) \in Nat /\ DOMAIN doc.routes = 1..Len(doc.routes)
      BY Zenon, <2>1, DocShape
    <3>2. DOMAIN cfg = 1..Len(doc.routes)
      BY Zenon, <2>1, <3>1
    <3>3. Len(cfg) = Len(doc.routes)
      BY <3>1, <3>2
    <3> QED
      BY Zenon, <3>1, <3>3
  <2> HIDE DEF f
  <2>4. CASE f = 0
    <3>1. Handle(q).outcome = "NoRoute"
      BY <2>4 DEF Handle, f
    <3> QED
      BY <2>2, <2>4, <3>1
  <2>5. CASE f # 0
    <3> DEFINE name == doc.routes[f].upstream
    <3>1. PICK k \in Ups(doc) : Name(doc, k) = name
      BY <2>1, <2>2, <2>3, <2>5 DEF Sound
    <3>2. {j \in DOMAIN doc.upstreams : doc.upstreams[j].name = name} = {k}
      BY <2>1, <2>3, <3>1 DEF Sound, Name
    <3>3. doc.upstreams[k].addrs > 0 /\ k \in 1..mapped /\ name \in Names
      BY <2>1, <2>3, <3>1 DEF Sound, Ups
    <3>4. /\ Handle(q).route = f
          /\ Handle(q).outcome = IF by_name[name] = 0 THEN "UpstreamNotRegistered" ELSE "forward"
      BY <2>5 DEF Handle, f
    <3>5. CASE k \in skipped
      <4>1. by_name[name] = 0
        <5> SUFFICES ASSUME by_name[name] # 0 PROVE FALSE
          OBVIOUS
        <5>1. by_name[name] \in (1..mapped) \ skipped /\ Name(doc, by_name[name]) = name
          BY <2>1, <3>3 DEF MapInv
        <5>2. by_name[name] = k
          BY <2>1, <3>1, <5>1 DEF Sound, Ups
        <5> QED
          BY <3>5, <5>1, <5>2
      <4> QED
        BY <2>3, <3>2, <3>3, <3>4, <3>5, <4>1
    <3>6. CASE k \notin skipped
      <4>1. by_name[name] = k /\ k # 0
        <5>1. by_name[Name(doc, k)] = k
          BY Zenon, <2>1, <3>3, <3>6 DEF MapInv
        <5> QED
          BY <2>1, <3>1, <3>3, <5>1
      <4> QED
        BY <2>3, <3>2, <3>3, <3>4, <3>6, <4>1
    <3> QED
      BY <3>5, <3>6
  <2> QED
    BY <2>4, <2>5
<1> QED
  BY <1>1, DispatchCorrect, PTL

-----------------------------------------------------------------------------
(* The probes *)

\* Every probe is of an upstream with a health check that could be built, and
\* what UpstreamMap has under its name is that upstream and no other: what the
\* probe learns goes to the breakers its requests consult, whichever files change
\* between the two reads of them.
ProbesServed ==
  \A k \in probes :
    /\ k \in DOMAIN doc.upstreams /\ doc.upstreams[k].check # None
    /\ k \notin skipped /\ by_name[doc.upstreams[k].name] = k

\* spawn_health_thread starts when the map is complete.
ProbeInv ==
  /\ asked \in 0..Len(doc.upstreams)
  /\ probes # {} => mapped = Len(doc.upstreams) /\ verdict = "ok"
  /\ ProbesServed

\* ProbeInv is inductive relative to DispatchInv.
LEMMA ProbeStep == DispatchInv /\ ProbeInv /\ [DispatchNext]_<<vars, dispatchVars>> => ProbeInv'
<1> SUFFICES ASSUME DispatchInv, ProbeInv, [DispatchNext]_<<vars, dispatchVars>> PROVE ProbeInv'
  OBVIOUS
<1>1. /\ LoadInv /\ MapInv /\ doc \in Docs /\ Len(doc.upstreams) \in Nat
      /\ DOMAIN doc.upstreams = Ups(doc) /\ \A k \in Ups(doc) : Name(doc, k) \in Names
  BY DocShape DEF DispatchInv, LoadInv
<1>2. ASSUME UNCHANGED <<doc, asked, probes>>, probes = {}
      PROVE  ProbeInv'
  BY <1>2 DEF ProbeInv, ProbesServed
<1>3. CASE Load
  <2>1. probes = {} /\ UNCHANGED <<doc, asked, probes>>
    BY <1>3 DEF Load, ProbeInv
  <2> QED
    BY <1>2, <2>1
<1>4. CASE BuildUpstream
  <2>1. mapped < Len(doc.upstreams) /\ UNCHANGED <<doc, asked, probes>>
    BY Zenon, <1>4 DEF BuildUpstream
  <2>2. mapped # Len(doc.upstreams)
    BY <1>1, <2>1
  <2>3. probes = {}
    BY Zenon, <2>2 DEF ProbeInv
  <2> QED
    BY Zenon, <1>2, <2>1, <2>3
<1>5. ASSUME UNCHANGED <<doc, verdict, mapped, by_name, asked, probes, skipped>>
      PROVE  ProbeInv'
  BY <1>5 DEF ProbeInv, ProbesServed
<1>6. CASE BuildProbe
  <2> DEFINE k == asked + 1
  <2>1. /\ mapped = Len(doc.upstreams) /\ verdict = "ok" /\ asked < Len(doc.upstreams) /\ asked' = k
        /\ UNCHANGED <<doc, verdict, mapped, by_name, skipped>>
    BY <1>6 DEF BuildProbe, Ready
  <2>2. asked' \in 0..Len(doc.upstreams) /\ k \in Ups(doc)
    BY <1>1, <2>1 DEF ProbeInv, Ups
  <2>3. \/ probes' = probes
        \/ probes' = probes \cup {k} /\ doc.upstreams[k].check # None /\ by_name[Name(doc, k)] # 0
    BY <1>6 DEF BuildProbe, Name
  <2>4. ASSUME by_name[Name(doc, k)] # 0
        PROVE  k \notin skipped /\ by_name[Name(doc, k)] = k
    <3>1. by_name[Name(doc, k)] \in (1..mapped) \ skipped /\ Name(doc, by_name[Name(doc, k)]) = Name(doc, k)
      BY Zenon, <1>1, <2>2, <2>4 DEF MapInv
    <3>2. \A i, j \in Ups(doc) : Name(doc, i) = Name(doc, j) => i = j
      BY <1>1, <2>1 DEF LoadInv, Sound
    <3>3. by_name[Name(doc, k)] \in Ups(doc)
      BY <2>1, <3>1 DEF Ups
    <3>4. by_name[Name(doc, k)] = k
      BY Zenon, <2>2, <3>1, <3>2, <3>3
    <3> QED
      BY <3>1, <3>4
  <2> HIDE DEF k
  <2>5. ProbesServed'
    BY <1>1, <2>1, <2>2, <2>3, <2>4 DEF ProbeInv, ProbesServed, Name
  <2> QED
    BY <2>1, <2>2, <2>5 DEF ProbeInv
<1> QED
  BY <1>3, <1>4, <1>5, <1>6 DEF DispatchNext, BuildTable, Done, EditFile, dispatchVars

\* A probe never feeds the breakers of an upstream that is not its own, for any
\* document that validation accepts and any changes of its files.
THEOREM ProbesCorrect == DispatchSpec => []ProbesServed
<1>1. DispatchInit => ProbeInv
  BY DocShape DEF DispatchInit, ProbeInv, ProbesServed
<1>2. ProbeInv => ProbesServed
  BY DEF ProbeInv
<1> QED
  BY <1>1, <1>2, ProbeStep, DispatchCorrect, PTL DEF DispatchSpec
=============================================================================
