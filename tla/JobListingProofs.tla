-------------------------- MODULE JobListingProofs --------------------------
(***************************************************************************)
(* A walk through the pages misses nothing and repeats no more rows than   *)
(* were inserted, for any number of jobs, any limit and any inserts on the *)
(* way. That it misses nothing has two halves: an                          *)
(* insert only ever moves a row away from the newest (PlaceGrows), and a   *)
(* page that is not full is the last, because the places of n rows are     *)
(* exactly 0 .. n - 1 (ShortPageIsLast).                                   *)
(***************************************************************************)
EXTENDS JobListing, FiniteSetTheorems, TLAPS

\* Place is a number, and an insert never lowers it.
LEMMA PlaceGrows ==
    ASSUME NEW S, NEW T, IsFiniteSet(T), S \subseteq T, NEW x
    PROVE  /\ Place(x, S) \in Nat /\ Place(x, T) \in Nat
           /\ Place(x, S) <= Place(x, T)
  <1> DEFINE A == {y \in S : y > x}
  <1> DEFINE B == {y \in T : y > x}
  <1>1. A \subseteq B /\ B \subseteq T
    OBVIOUS
  <1>2. IsFiniteSet(B)
    BY <1>1, FS_Subset
  <1>3. IsFiniteSet(A) /\ Cardinality(A) <= Cardinality(B)
    BY <1>1, <1>2, FS_Subset
  <1>4. Cardinality(A) \in Nat /\ Cardinality(B) \in Nat
    BY <1>2, <1>3, FS_CardinalityType
  <1> QED
    BY <1>3, <1>4 DEF Place

\* An older row has a larger place, and every place is below the row count.
LEMMA PlaceOrder ==
    ASSUME NEW T, T \subseteq Nat, IsFiniteSet(T), NEW x \in T
    PROVE  /\ Place(x, T) \in 0 .. (Cardinality(T) - 1)
           /\ \A z \in T : z < x => Place(z, T) > Place(x, T)
  <1> DEFINE Above(z) == {y \in T : y > z}
  <1>1. ASSUME NEW z
        PROVE  /\ IsFiniteSet(Above(z))
               /\ Cardinality(Above(z)) \in Nat
    <2>1. Above(z) \in SUBSET T
      OBVIOUS
    <2> QED
      BY <2>1, FS_Subset, FS_CardinalityType
  <1>2. Cardinality(T) \in Nat
    BY FS_CardinalityType
  <1>3. Cardinality(Above(x)) < Cardinality(T)
    <2>1. x \notin Above(x) /\ Above(x) \in SUBSET T
      OBVIOUS
    <2>2. Cardinality(Above(x)) <= Cardinality(T) /\ Cardinality(Above(x)) # Cardinality(T)
      BY <2>1, FS_Subset
    <2> QED
      BY <1>1, <1>2, <2>2
  <1>4. ASSUME NEW z \in T, z < x
        PROVE  Cardinality(Above(z)) > Cardinality(Above(x))
    <2>1. Above(x) \in SUBSET Above(z) /\ x \in Above(z) /\ x \notin Above(x)
      <3>1. ASSUME NEW y \in Above(x)
            PROVE  y \in Above(z)
        <4>1. y \in T /\ y > x
          OBVIOUS
        <4>2. x \in Nat /\ y \in Nat /\ z \in Nat
          BY <4>1
        <4> QED
          BY <1>4, <4>1, <4>2
      <3>2. x \in Above(z)
        BY <1>4
      <3>3. x \notin Above(x)
        <4>1. x \in Nat
          OBVIOUS
        <4> QED
          BY <4>1
      <3> HIDE DEF Above
      <3> QED
        BY <3>1, <3>2, <3>3
    <2>2. /\ Cardinality(Above(x)) <= Cardinality(Above(z))
          /\ Cardinality(Above(x)) # Cardinality(Above(z))
      BY <1>1, <2>1, FS_Subset
    <2> QED
      BY <1>1, <2>2
  <1> QED
    BY <1>1, <1>2, <1>3, <1>4 DEF Place

\* The places of n rows are all the numbers below n.
LEMMA PlacesAreDense ==
    ASSUME NEW T, T \subseteq Nat, IsFiniteSet(T)
    PROVE  [x \in T |-> Place(x, T)] \in Bijection(T, 0 .. (Cardinality(T) - 1))
  <1> DEFINE n == Cardinality(T)
  <1> DEFINE f == [x \in T |-> Place(x, T)]
  <1>1. n \in Nat
    BY FS_CardinalityType
  <1>2. f \in [T -> 0 .. (n - 1)]
    BY PlaceOrder
  <1>3. ASSUME NEW x \in T, NEW y \in T, x # y
        PROVE  f[x] # f[y]
    <2>1. Place(x, T) \in Nat /\ Place(y, T) \in Nat
      BY PlaceGrows
    <2>2. x < y \/ y < x
      BY <1>3
    <2>3. x < y => Place(x, T) > Place(y, T)
      BY PlaceOrder
    <2>4. y < x => Place(y, T) > Place(x, T)
      BY PlaceOrder
    <2> QED
      BY <2>1, <2>2, <2>3, <2>4
  <1>4. f \in Injection(T, 0 .. (n - 1))
    BY <1>2, <1>3 DEF Injection, IsInjective
  <1>5. IsFiniteSet(0 .. (n - 1)) /\ Cardinality(0 .. (n - 1)) = n
    <2> HIDE DEF n
    <2>1. 0 \in Int /\ n - 1 \in Int
      BY <1>1
    <2> QED
      BY <1>1, <2>1, FS_Interval
  <1> HIDE DEF f
  <1>6. f \in Surjection(T, 0 .. (n - 1))
    BY <1>4, <1>5, FS_Injection
  <1>7. f \in Bijection(T, 0 .. (n - 1))
    BY <1>4, <1>6 DEF Bijection
  <1> QED
    BY <1>7 DEF f

\* A page with fewer rows than its limit reaches the end of the table.
LEMMA ShortPageIsLast ==
    ASSUME NEW T, T \subseteq Nat, IsFiniteSet(T),
           NEW limit \in Nat \ {0}, NEW from \in Nat,
           Cardinality(Page(T, limit, from)) < limit,
           NEW x \in T
    PROVE  Place(x, T) < from + limit
  <1> DEFINE n == Cardinality(T)
  <1> DEFINE f == [y \in T |-> Place(y, T)]
  <1> DEFINE P == Page(T, limit, from)
  <1> DEFINE I == from .. (from + limit - 1)
  <1> SUFFICES ASSUME Place(x, T) >= from + limit
               PROVE  FALSE
    <2>1. Place(x, T) \in Nat
      BY PlaceGrows
    <2> QED
      BY <2>1
  <1>1. n \in Nat
    BY FS_CardinalityType
  <1>2. f \in Bijection(T, 0 .. (n - 1))
    BY PlacesAreDense
  <1>3. P = {y \in T : f[y] \in I}
    BY DEF Page, Effective
  <1>4. I \subseteq 0 .. (n - 1)
    <2>1. Place(x, T) \in 0 .. (n - 1)
      BY PlaceOrder
    <2> QED
      BY <1>1, <2>1
  <1> DEFINE g == [y \in P |-> f[y]]
  <1> HIDE DEF n, f, P, I
  <1>5. g \in Bijection(P, I)
    <2>1. g \in [P -> I] /\ P \subseteq T
      BY <1>3
    <2>2. ASSUME NEW a \in P, NEW b \in P, g[a] = g[b]
          PROVE  a = b
      BY <1>2, <2>1, <2>2 DEF Bijection, Injection, IsInjective
    <2>3. ASSUME NEW i \in I
          PROVE  \E y \in P : g[y] = i
      <3>1. PICK y \in T : f[y] = i
        BY <1>2, <1>4 DEF Bijection, Surjection
      <3> QED
        BY <1>3, <3>1
    <2> QED
      BY <2>1, <2>2, <2>3 DEF Bijection, Injection, Surjection, IsInjective
  <1>6. IsFiniteSet(P)
    BY <1>3, FS_Subset
  <1>7. Cardinality(I) = Cardinality(P)
    BY <1>5, <1>6, FS_Bijection DEF ExistsBijection
  <1>8. Cardinality(I) = limit
    BY FS_Interval DEF I
  <1>9. Cardinality(P) < limit
    BY DEF P
  <1> QED
    BY <1>7, <1>8, <1>9

-----------------------------------------------------------------------------
\* A query that is not refused gets a positive limit, which the repository
\* takes as it is.
LEMMA LimitIsPositive ==
    ASSUME NEW q, ~Refused(q)
    PROVE  Limit(q) \in Nat \ {0} /\ Effective(Limit(q)) = Limit(q)
  <1>1. CASE q \in {Omitted, 0}
    BY <1>1, ListingAssumption DEF Limit, Effective
  <1>2. CASE q \in 1 .. MaxListLimit
    <2>1. q # Omitted /\ q # 0 /\ q \in Nat
      BY <1>2, ListingAssumption
    <2> QED
      BY <2>1 DEF Limit, Effective
  <1>3. q \in {Omitted, 0} \/ q \in 1 .. MaxListLimit
    BY ListingAssumption DEF Refused
  <1> QED
    BY <1>1, <1>2, <1>3

\* An insert moves rows away from the newest, never across the next offset
\* towards it.
LEMMA InsertStep ==
    ASSUME WalkInv, NEW x \in Jobs, Insert(x)
    PROVE  WalkInv'
  <1>1. /\ rows' = rows \union {x}
        /\ UNCHANGED <<phase, query, offset, begun, seen, twice>>
    BY DEF Insert
  <1>2. IsFiniteSet(rows') /\ rows \subseteq rows'
    BY <1>1, FS_AddElement DEF WalkInv
  <1>3. TypeOK'
    BY <1>1 DEF WalkInv, TypeOK
  <1>4. ASSUME phase' \in {"walking", "done"}, NEW y \in begun', Place(y, rows') < offset'
        PROVE  y \in seen'
    <2>1. Place(y, rows) \in Nat /\ Place(y, rows') \in Nat
          /\ Place(y, rows) <= Place(y, rows')
      BY <1>2, PlaceGrows
    <2>2. offset \in Nat
      BY DEF WalkInv, TypeOK
    <2> QED
      BY <1>1, <1>4, <2>1, <2>2 DEF WalkInv
  <1> QED
    BY <1>1, <1>2, <1>3, <1>4 DEF WalkInv, WalkMissesNothing

\* A page shows every row between the offsets before and after it, and the last
\* page leaves none behind.
LEMMA PageStep ==
    ASSUME WalkInv, AnswerPage
    PROVE  WalkInv'
  <1> DEFINE limit == Limit(query)
  <1> DEFINE page == Page(rows, limit, offset)
  <1>1. /\ phase = "walking" /\ ~Refused(query)
        /\ seen' = seen \union page
        /\ twice' = twice \union (seen \intersect page)
        /\ phase' = IF Cardinality(page) < limit THEN "done" ELSE "walking"
        /\ offset' = offset + limit
        /\ UNCHANGED <<rows, query, begun>>
    BY DEF AnswerPage
  <1>2. limit \in Nat \ {0} /\ Effective(limit) = limit
    BY <1>1, LimitIsPositive
  <1>3. offset \in Nat /\ rows \subseteq Jobs /\ IsFiniteSet(rows) /\ begun \subseteq rows
    BY DEF WalkInv, TypeOK
  <1>4. page \subseteq rows
    BY DEF Page
  <1> HIDE DEF limit
  <1>5. TypeOK'
    BY <1>1, <1>2, <1>3, <1>4 DEF WalkInv, TypeOK
  <1>6. ASSUME NEW x \in begun, Place(x, rows) < offset + limit
        PROVE  x \in seen \union page
    <2>1. Place(x, rows) \in Nat
      BY <1>3, PlaceGrows
    <2>2. CASE Place(x, rows) < offset
      BY <1>1, <2>2 DEF WalkInv
    <2>3. CASE Place(x, rows) >= offset
      BY <1>2, <1>3, <1>6, <2>1, <2>3 DEF Page
    <2> QED
      BY <1>3, <2>1, <2>2, <2>3
  <1>7. ASSUME Cardinality(page) < limit, NEW x \in begun
        PROVE  x \in seen \union page
    <2>1. Place(x, rows) < offset + limit
      BY <1>2, <1>3, <1>7, ShortPageIsLast, ListingAssumption
    <2> QED
      BY <1>6, <2>1
  <1> HIDE DEF page
  <1> QED
    BY <1>1, <1>3, <1>5, <1>6, <1>7 DEF WalkInv, WalkMissesNothing

LEMMA WalkNext ==
    ASSUME WalkInv, [Next]_vars
    PROVE  WalkInv'
  <1>1. ASSUME NEW x \in Jobs, Insert(x)
        PROVE  WalkInv'
    BY <1>1, InsertStep
  <1>2. ASSUME NEW q \in Inputs \union {Omitted, Malformed}, Begin(q)
        PROVE  WalkInv'
    <2>1. /\ phase = "idle" /\ phase' = "walking" /\ query' = q /\ begun' = rows
          /\ offset = 0
          /\ UNCHANGED <<rows, offset, seen, twice>>
      BY <1>2 DEF Begin, WalkInv
    <2>2. IsFiniteSet(rows) /\ TypeOK
      BY DEF WalkInv
    <2>3. \A x : Place(x, rows) \in Nat
      BY <2>2, PlaceGrows
    <2> QED
      BY <2>1, <2>2, <2>3 DEF WalkInv, TypeOK, WalkMissesNothing
  <1>3. CASE Answer400
    BY <1>3 DEF Answer400, WalkInv, TypeOK, WalkMissesNothing
  <1>4. CASE AnswerPage
    BY <1>4, PageStep
  <1>5. CASE Answer500 \/ UNCHANGED vars
    BY <1>5 DEF Answer500, vars, WalkInv, TypeOK, WalkMissesNothing
  <1> QED
    BY <1>1, <1>2, <1>3, <1>4, <1>5 DEF Next

\* However the table grows, what a walk found at its start and has moved past by
\* its offset was on one of its pages.
THEOREM WalkInductive == Spec => []WalkInv
  <1>1. Init => WalkInv
    BY FS_EmptySet DEF Init, WalkInv, TypeOK, WalkMissesNothing
  <1> QED
    BY <1>1, WalkNext, PTL DEF Spec

\* For any table, limit and inserts: a walk that ended has seen every job that
\* was there when it began.
THEOREM WalkIsComplete == Spec => []WalkMissesNothing
  <1>1. WalkInv => WalkMissesNothing
    BY DEF WalkInv
  <1> QED
    BY <1>1, WalkInductive, PTL

-----------------------------------------------------------------------------
(* Why repeats are paid for by inserts: all the pages together have one    *)
(* place for each row the offset has passed.                               *)

\* The rows before the next offset.
Passed(table, from) == {x \in table : Place(x, table) < from}

\* Seen rows and repeated ones together are no more than the rows passed.
RepeatInv ==
    /\ seen \subseteq rows /\ twice \subseteq seen
    /\ phase = "idle" => seen = {}
    /\ phase = "refused" => Refused(query)
    /\ Refused(query) => twice = {}
    /\ Cardinality(seen) + Cardinality(twice) <= Cardinality(Passed(rows, offset))

\* An insert pushes at most one row over the offset, and then takes its place.
LEMMA PassedGrows ==
    ASSUME NEW S, S \subseteq Nat, IsFiniteSet(S), NEW n \in Nat, NEW from \in Nat
    PROVE  LET T == S \union {n}
           IN  Cardinality(Passed(S, from)) <= Cardinality(Passed(T, from))
  <1> DEFINE T == S \union {n}
             P == Passed(S, from)
             Q == Passed(T, from)
  <1>1. T \subseteq Nat /\ IsFiniteSet(T) /\ S \subseteq T
    BY FS_AddElement
  <1>2. \A x : /\ Place(x, S) \in Nat /\ Place(x, T) \in Nat
               /\ Place(x, S) <= Place(x, T)
    BY <1>1, PlaceGrows
  <1>3. IsFiniteSet(P) /\ IsFiniteSet(Q)
    BY <1>1, FS_Subset DEF Passed
  <1>4. \A x : Place(x, T) <= Place(x, S) + 1
    <2> SUFFICES ASSUME NEW x
                 PROVE  Place(x, T) <= Place(x, S) + 1
      OBVIOUS
    <2> DEFINE A == {y \in S : y > x}
               B == {y \in T : y > x}
    <2>1. IsFiniteSet(A)
      BY FS_Subset
    <2>2. IsFiniteSet(A \union {n}) /\ Cardinality(A \union {n}) <= Cardinality(A) + 1
      <3> HIDE DEF A
      <3>1. Cardinality(A) \in Nat
        BY <2>1, FS_CardinalityType
      <3>2. IsFiniteSet(A \union {n})
        BY <2>1, FS_AddElement
      <3>3. Cardinality(A \union {n}) \in {Cardinality(A), Cardinality(A) + 1}
        BY <2>1, FS_AddElement
      <3> QED
        BY <3>1, <3>2, <3>3
    <2>3. B \subseteq A \union {n}
      OBVIOUS
    <2>4. Cardinality(B) <= Cardinality(A \union {n}) /\ IsFiniteSet(B)
      BY <2>2, <2>3, FS_Subset
    <2>5. Cardinality(A) \in Nat /\ Cardinality(B) \in Nat /\ Cardinality(A \union {n}) \in Nat
      BY <2>1, <2>2, <2>4, FS_CardinalityType
    <2> QED
      BY <2>2, <2>4, <2>5 DEF Place
  <1>5. CASE P \subseteq Q
    BY <1>3, <1>5, FS_Subset
  <1>6. CASE ~(P \subseteq Q)
    <2>1. PICK x \in P : x \notin Q
      BY <1>6
    <2>2. /\ x \in S /\ Place(x, S) < from /\ Place(x, T) >= from
      BY <1>2, <2>1 DEF Passed
    <2>3. \A y \in S : y # x /\ y \in P => y \in Q
      <3> SUFFICES ASSUME NEW y \in P, y # x, y \notin Q
                   PROVE  FALSE
        OBVIOUS
      <3>1. y \in S /\ Place(y, S) < from /\ Place(y, T) >= from
        BY <1>2 DEF Passed
      <3>2. Place(x, S) = from - 1 /\ Place(y, S) = from - 1
        BY <1>2, <1>4, <2>2, <3>1
      <3>3. x < y \/ y < x
        BY <2>2, <3>1
      <3>4. x < y => Place(x, S) > Place(y, S)
        BY <2>2, <3>1, PlaceOrder
      <3>5. y < x => Place(y, S) > Place(x, S)
        BY <2>2, <3>1, PlaceOrder
      <3> QED
        BY <1>2, <3>2, <3>3, <3>4, <3>5
    <2>4. n > x /\ n \notin S
      <3>1. ASSUME n \in S
            PROVE  FALSE
        <4>1. T = S
          BY <3>1
        <4> QED
          BY <1>2, <2>2, <4>1
      <3>2. ASSUME ~(n > x)
            PROVE  FALSE
        <4>1. {y \in T : y > x} = {y \in S : y > x}
          BY <3>2
        <4>2. Place(x, T) = Place(x, S)
          BY <4>1 DEF Place
        <4> QED
          BY <1>2, <2>2, <4>2
      <3> QED
        BY <3>1, <3>2
    <2>5. n \in Q
      <3>1. Place(x, T) > Place(n, T)
        BY <1>1, <2>2, <2>4, PlaceOrder
      <3>2. Place(n, T) < from
        BY <1>2, <1>4, <2>2, <3>1
      <3> QED
        BY <3>2 DEF Passed
    <2> DEFINE R == P \ {x}
    <2>6. IsFiniteSet(R) /\ Cardinality(R) = Cardinality(P) - 1
      BY <1>3, <2>1, FS_RemoveElement
    <2>7. n \notin R /\ R \union {n} \subseteq Q
      BY <2>3, <2>4, <2>5 DEF Passed
    <2>8. IsFiniteSet(R \union {n}) /\ Cardinality(R \union {n}) = Cardinality(R) + 1
      BY <2>6, <2>7, FS_AddElement
    <2>9. Cardinality(R \union {n}) <= Cardinality(Q)
      BY <1>3, <2>7, FS_Subset
    <2>10. Cardinality(P) \in Nat
      BY <1>3, FS_CardinalityType
    <2> QED
      BY <2>6, <2>8, <2>9, <2>10
  <1> QED
    BY <1>5, <1>6

\* A page adds its rows to those passed, and a repeat is one of its places.
LEMMA RepeatPage ==
    ASSUME WalkInv, RepeatInv, AnswerPage
    PROVE  RepeatInv'
  <1> DEFINE limit == Limit(query)
             page == Page(rows, limit, offset)
             P == Passed(rows, offset)
             Q == Passed(rows, offset + limit)
  <1>1. /\ phase = "walking" /\ ~Refused(query) /\ phase' \in {"walking", "done"}
        /\ seen' = seen \union page
        /\ twice' = twice \union (seen \intersect page)
        /\ offset' = offset + limit
        /\ UNCHANGED <<rows, query, begun>>
    BY DEF AnswerPage
  <1>2. limit \in Nat \ {0} /\ Effective(limit) = limit
    BY <1>1, LimitIsPositive
  <1>3. offset \in Nat /\ IsFiniteSet(rows)
    BY DEF WalkInv, TypeOK
  <1>4. page \subseteq rows /\ seen \subseteq rows /\ twice \subseteq seen
    BY DEF Page, RepeatInv
  <1>5. \A x : Place(x, rows) \in Nat
    BY <1>3, PlaceGrows
  <1>6. Q = P \union page /\ P \intersect page = {} /\ P \subseteq rows
    BY <1>2, <1>3, <1>5 DEF Passed, Page
  <1> DEFINE again == seen \intersect page
  <1> HIDE DEF limit, page, P, Q
  <1>7. /\ IsFiniteSet(page) /\ IsFiniteSet(seen) /\ IsFiniteSet(twice)
        /\ IsFiniteSet(P) /\ IsFiniteSet(again)
    <2>1. IsFiniteSet(page) /\ IsFiniteSet(seen) /\ IsFiniteSet(P)
      BY <1>3, <1>4, <1>6, FS_Subset
    <2> QED
      BY <2>1, <1>4, FS_Subset
  <1>8. /\ Cardinality(Q) = Cardinality(P) + Cardinality(page)
        /\ Cardinality(seen \union page) =
                Cardinality(seen) + Cardinality(page) - Cardinality(again)
        /\ Cardinality(twice \union again) =
                Cardinality(twice) + Cardinality(again) - Cardinality(twice \intersect again)
    <2>1. Cardinality(P \union page) =
                Cardinality(P) + Cardinality(page) - Cardinality(P \intersect page)
      BY <1>7, FS_Union
    <2>2. Cardinality(P \intersect page) = 0
      BY <1>6, FS_EmptySet
    <2>3. Cardinality(seen \union page) =
                Cardinality(seen) + Cardinality(page) - Cardinality(again)
      BY <1>7, FS_Union
    <2> HIDE DEF again
    <2>4. Cardinality(twice \union again) =
                Cardinality(twice) + Cardinality(again) - Cardinality(twice \intersect again)
      BY <1>7, FS_Union
    <2>5. Cardinality(P) \in Nat /\ Cardinality(page) \in Nat
      BY <1>7, FS_CardinalityType
    <2> QED
      BY <1>6, <2>1, <2>2, <2>3, <2>4, <2>5
  <1>9. /\ Cardinality(page) \in Nat /\ Cardinality(seen) \in Nat
        /\ Cardinality(twice) \in Nat /\ Cardinality(P) \in Nat /\ Cardinality(again) \in Nat
        /\ Cardinality(twice \intersect again) \in Nat
    BY <1>7, FS_CardinalityType, FS_Intersection
  <1>10. Cardinality(seen) + Cardinality(twice) <= Cardinality(P)
    BY DEF RepeatInv, P
  <1>11. Cardinality(seen') + Cardinality(twice') <= Cardinality(Q)
    BY <1>1, <1>8, <1>9, <1>10
  <1>12. Passed(rows', offset') = Q
    BY <1>1 DEF Q
  <1> QED
    BY <1>1, <1>4, <1>11, <1>12 DEF RepeatInv

LEMMA RepeatNext ==
    ASSUME WalkInv, RepeatInv, [Next]_vars
    PROVE  RepeatInv'
  <1>1. ASSUME NEW x \in Jobs, Insert(x)
        PROVE  RepeatInv'
    <2>1. rows \subseteq Nat /\ IsFiniteSet(rows) /\ x \in Nat /\ offset \in Nat
      BY ListingAssumption DEF WalkInv, TypeOK
    <2>2. /\ rows' = rows \union {x}
          /\ UNCHANGED <<phase, query, offset, begun, seen, twice>>
      BY <1>1 DEF Insert
    <2>3. Cardinality(Passed(rows, offset)) <= Cardinality(Passed(rows', offset))
      BY <2>1, <2>2, PassedGrows
    <2>4. \A S : S \subseteq rows => IsFiniteSet(S) /\ Cardinality(S) \in Nat
      BY <2>1, FS_Subset, FS_CardinalityType
    <2>5. IsFiniteSet(rows')
      BY <2>1, <2>2, FS_AddElement
    <2>6. Cardinality(Passed(rows', offset)) \in Nat /\ Cardinality(Passed(rows, offset)) \in Nat
      <3>1. Passed(rows', offset) \subseteq rows' /\ Passed(rows, offset) \subseteq rows
        BY DEF Passed
      <3> QED
        BY <2>4, <2>5, <3>1, FS_Subset, FS_CardinalityType
    <2>7. Cardinality(seen) \in Nat /\ Cardinality(twice) \in Nat
      BY <2>4 DEF RepeatInv
    <2> QED
      BY <2>2, <2>3, <2>6, <2>7 DEF RepeatInv
  <1>2. ASSUME NEW q \in Inputs \union {Omitted, Malformed}, Begin(q)
        PROVE  RepeatInv'
    BY <1>2 DEF Begin, RepeatInv
  <1>3. CASE Answer400
    BY <1>3 DEF Answer400, RepeatInv
  <1>4. CASE AnswerPage
    BY <1>4, RepeatPage
  <1>5. CASE Answer500 \/ UNCHANGED vars
    BY <1>5 DEF Answer500, vars, RepeatInv
  <1> QED
    BY <1>1, <1>2, <1>3, <1>4, <1>5 DEF Next

\* For any table, limit and inserts: a walk repeats no more rows than were
\* inserted since it began.
THEOREM RepeatsAreBounded == Spec => []RepeatsAreInserts
  <1>1. Init => RepeatInv
    <2> SUFFICES ASSUME Init
                 PROVE  RepeatInv
      OBVIOUS
    <2>1. Passed(rows, offset) = {}
      BY DEF Init, Passed
    <2>2. ~Refused(query)
      BY DEF Init, Refused
    <2> QED
      BY <2>1, <2>2, FS_EmptySet DEF Init, RepeatInv
  <1>2. WalkInv /\ RepeatInv => RepeatsAreInserts
    <2> SUFFICES ASSUME WalkInv, RepeatInv
                 PROVE  Cardinality(twice) <= Cardinality(rows \ begun)
      BY DEF RepeatsAreInserts
    <2> DEFINE P == Passed(rows, offset)
               new == rows \ begun
    <2>1. IsFiniteSet(rows) /\ seen \subseteq rows /\ twice \subseteq rows /\ P \subseteq rows
      BY DEF WalkInv, RepeatInv, Passed
    <2>2. /\ IsFiniteSet(seen) /\ IsFiniteSet(twice) /\ IsFiniteSet(P) /\ IsFiniteSet(new)
          /\ Cardinality(seen) \in Nat /\ Cardinality(twice) \in Nat
          /\ Cardinality(P) \in Nat /\ Cardinality(new) \in Nat
      BY <2>1, FS_Subset, FS_CardinalityType
    <2>3. CASE phase \in {"walking", "done"}
      <3>1. P \subseteq seen \union new
        BY <2>3 DEF WalkInv, Passed
      <3>2. /\ IsFiniteSet(seen \union new)
            /\ Cardinality(seen \union new) =
                Cardinality(seen) + Cardinality(new) - Cardinality(seen \intersect new)
        BY <2>2, FS_Union
      <3>3. Cardinality(P) <= Cardinality(seen \union new)
        BY <3>1, <3>2, FS_Subset
      <3>4. Cardinality(seen \intersect new) \in Nat
        BY <2>2, FS_Intersection, FS_CardinalityType
      <3>5. Cardinality(seen) + Cardinality(twice) <= Cardinality(P)
        BY DEF RepeatInv
      <3> HIDE DEF P, new
      <3> QED
        BY <2>2, <3>2, <3>3, <3>4, <3>5 DEF new
    <2>4. CASE phase \notin {"walking", "done"}
      <3>1. twice = {}
        BY <2>4 DEF WalkInv, TypeOK, RepeatInv
      <3> QED
        BY <2>2, <3>1, FS_EmptySet
    <2> QED
      BY <2>3, <2>4
  <1> QED
    BY <1>1, <1>2, RepeatNext, WalkInductive, PTL DEF Spec

=============================================================================
