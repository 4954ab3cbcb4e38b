--------------------------- MODULE RequestsProofs ---------------------------
(***************************************************************************)
(* That the settings of a request reach the stream in order, that the      *)
(* layers over a JSON stream account for every row of it, and that the     *)
(* caller gets the rows it asked for, for every table, predicate and       *)
(* sequence of settings.                                                   *)
(*                                                                         *)
(* What is counted and delivered is compared with what has been yielded,   *)
(* so the invariant says which part of the answer that is: inner is what   *)
(* is left of the items the stream had at the start, a turn moves one item *)
(* from there to Consumed, and c[m] is the place in the answer up to which *)
(* the first m items have come (LaysOut).  Of the rows due up to there the *)
(* caller has got some, and before the first error all (Got).              *)
(***************************************************************************)
EXTENDS Requests, SequenceTheorems, FiniteSetTheorems, WellFoundedInduction, TLAPS

(* A sequence, of whatever values.                                         *)
IsSeq(s) == s \in Seq(Range(s))

(* What the setters leave, and what streaming_query is called with.        *)
Ordered(warn, fail) ==
  \/ warn = <<>> /\ fail = <<>>
  \/ /\ warn # <<>> /\ fail # <<>>
     /\ warn[1] \in Int /\ fail[1] \in Int
     /\ 0 <= warn[1] /\ warn[1] < fail[1] /\ fail[1] <= 100
Natural(option) == option = <<>> \/ option[1] \in Nat

Built ==
  /\ DOMAIN builder = DOMAIN NewBuilder
  /\ builder.predicates \in Seq(Predicates)
  /\ Ordered(builder.warn, builder.fail)
  /\ builder.order \in {<<>>, <<"asc">>, <<"desc">>}
  /\ Natural(builder.limit) /\ Natural(builder.offset)
Called == call # <<>> => Ordered(call[1].warn, call[1].fail)

LEMMA StepBuilt ==
  ASSUME Built, [RequestsNext]_requestVars PROVE Built'
<1>1. \A f \in {"predicates", "rust", "order", "limit", "offset", "projection", "chunk", "memory",
                "warn", "fail", "adaptive"} : f \in DOMAIN builder
  BY DEF Built, NewBuilder
<1>2. CASE \E p \in Predicates : WhereSqlText(p)
  <2>1. PICK p \in Predicates : builder' = [builder EXCEPT !.predicates = Append(@, p)]
    BY <1>2 DEF WhereSqlText, Set
  <2>2. Append(builder.predicates, p) \in Seq(Predicates)
    BY AppendProperties DEF Built
  <2> QED
    BY <1>1, <2>1, <2>2 DEF Built
<1>7. CASE \/ \E rows \in RustPredicates : WhereRust(rows)
           \/ SelectProjection \/ ChunkSize \/ MaxMemory \/ Adaptive
  BY <1>1, <1>7 DEF WhereRust, SelectProjection, ChunkSize, MaxMemory, Adaptive, Set,
     Built
<1>3. CASE \E d \in {"asc", "desc"} : OrderBy(d)
  BY <1>1, <1>3 DEF OrderBy, Set, Built
<1>4. CASE \E n \in Counts : Limit(n) \/ Offset(n)
  BY <1>1, <1>4, CountsAssumption DEF Limit, Offset, Set, Built, Natural
<1>5. ASSUME NEW w \in SoftLimits, NEW f \in SoftLimits, MemorySoftLimits(w, f) PROVE Built'
  <2>1. /\ Clamp(w) \in Int /\ 0 <= Clamp(w) /\ Clamp(w) <= 100
        /\ Clamp(f) \in Int /\ 0 <= Clamp(f) /\ Clamp(f) <= 100
    BY SoftLimitsAssumption DEF Clamp
  <2>2. CASE Clamp(w) < Clamp(f)
    <3>1. builder' = [builder EXCEPT !.warn = <<Clamp(w)>>, !.fail = <<Clamp(f)>>]
      BY <1>5, <2>2 DEF MemorySoftLimits, Set
    <3> QED
      BY <1>1, <2>1, <2>2, <3>1 DEF Built, Ordered
  <2>3. CASE ~(Clamp(w) < Clamp(f))
    BY <1>5, <2>3 DEF MemorySoftLimits, Set, Built
  <2> QED
    BY <2>2, <2>3
<1>6. CASE Execute \/ PollTurn \/ UNCHANGED requestVars
  BY <1>6 DEF Execute, PollTurn, requestVars, Built
<1> QED
  BY <1>2, <1>3, <1>4, <1>5, <1>6, <1>7 DEF RequestsNext

LEMMA StepCalled ==
  ASSUME Built, Called, [RequestsNext]_requestVars PROVE Called'
<1>1. CASE Execute
  BY <1>1 DEF Execute, Built, Called
<1>2. CASE UNCHANGED call
  BY <1>2 DEF Called
<1> QED
  BY <1>1, <1>2
  DEF RequestsNext, WhereSqlText, WhereRust, SelectProjection, ChunkSize, MaxMemory, Adaptive,
      OrderBy, Limit, Offset, MemorySoftLimits, Set, PollTurn, requestVars
-----------------------------------------------------------------------------
(* Sequences of whatever values.                                           *)
LEMMA AnySeq == ASSUME NEW S, NEW s \in Seq(S) PROVE IsSeq(s)
  BY SeqOfRange DEF IsSeq

LEMMA Indexed ==
  ASSUME NEW s, IsSeq(s)
  PROVE  Len(s) \in Nat /\ DOMAIN s = 1 .. Len(s) /\ (s = <<>> <=> Len(s) = 0)
  BY LenProperties, EmptySeq DEF IsSeq

LEMMA ByPlace ==
  ASSUME NEW n \in Nat, NEW f, f = [i \in 1 .. n |-> f[i]] PROVE IsSeq(f) /\ Len(f) = n
<1>1. f \in [1 .. n -> Range(f)]
  BY DEF Range
<1> QED
  BY <1>1, SeqDef, LenProperties DEF IsSeq

-----------------------------------------------------------------------------
(* Elements kept of a sequence, by their places.                           *)
LEMMA LeastPlace == ASSUME NEW T, T \subseteq Nat, T # {} PROVE \E x \in T : \A y \in T : x <= y
<1> DEFINE Less == {ss \in Nat \X Nat : ss[1] < ss[2]}
<1>1. Less = OpToRel(<, Nat)
  BY DEF OpToRel
<1>2. IsWellFoundedOn(Less, Nat)
  BY <1>1, NatLessThanWellFounded
<1>3. \A x, y \in Nat : x < y => <<x, y>> \in Less
  OBVIOUS
<1> HIDE DEF Less
<1>4. PICK x \in T : \A y \in T : ~(<<y, x>> \in Less)
  BY <1>2, WFMin
<1>5. ASSUME NEW y \in T PROVE x <= y
  <2>1. ~(y < x)
    BY <1>3, <1>4
  <2>2. x \in Nat /\ y \in Nat
    OBVIOUS
  <2> QED
    BY <2>1, <2>2
<1> QED
  BY <1>5

(* Sets of places.                                                         *)
Places(P) == \E n \in Nat : P \subseteq 1 .. n

LEMMA PlacesFinite ==
  ASSUME NEW P, Places(P)
  PROVE  /\ IsFiniteSet(P) /\ Cardinality(P) \in Nat
         /\ \A i \in P : i \in Nat \ {0}
         /\ \A Q \in SUBSET P : /\ Places(Q) /\ Cardinality(Q) \in Nat
                                /\ Cardinality(Q) <= Cardinality(P)
                                /\ Cardinality(Q) = Cardinality(P) => Q = P
<1>1. PICK n \in Nat : P \subseteq 1 .. n
  BY DEF Places
<1>2. IsFiniteSet(P)
  <2>1. 0 \in Int /\ 1 \in Int /\ n \in Int
    OBVIOUS
  <2>2. IsFiniteSet(1 .. n)
    BY <2>1, FS_Interval
  <2> QED
    BY <1>1, <2>2, FS_Subset
<1>3. Cardinality(P) \in Nat
  BY <1>2, FS_CardinalityType
<1>4. ASSUME NEW Q \in SUBSET P
      PROVE  /\ Places(Q) /\ Cardinality(Q) \in Nat /\ Cardinality(Q) <= Cardinality(P)
             /\ Cardinality(Q) = Cardinality(P) => Q = P
  <2>1. Places(Q)
    BY <1>1 DEF Places
  <2>2. IsFiniteSet(Q) /\ Cardinality(Q) <= Cardinality(P)
        /\ (Cardinality(Q) = Cardinality(P) => Q = P)
    BY <1>2, FS_Subset
  <2>3. Cardinality(Q) \in Nat
    BY <2>2, FS_CardinalityType
  <2> QED
    BY <2>1, <2>2, <2>3
<1>5. \A i \in P : i \in Nat \ {0}
  BY <1>1
<1> QED
  BY <1>2, <1>3, <1>4, <1>5

(* One place more, behind all others.                                      *)
LEMMA OnePlaceMore ==
  ASSUME NEW P, Places(P), NEW n \in Nat \ {0}, n \notin P
  PROVE  Places(P \cup {n}) /\ Cardinality(P \cup {n}) = Cardinality(P) + 1
<1>1. PICK m \in Nat : P \subseteq 1 .. m
  BY DEF Places
<1>2. P \cup {n} \subseteq 1 .. m + n /\ m + n \in Nat
  BY <1>1
<1>3. Places(P \cup {n})
  BY <1>2 DEF Places
<1> QED
  BY <1>3, PlacesFinite, FS_AddElement

(* There is a k-th place.                                                  *)
LEMMA PlaceThere ==
  ASSUME NEW P, Places(P), NEW k \in 1 .. Cardinality(P)
  PROVE  Place(P, k) \in P /\ Cardinality(UpTo(P, Place(P, k))) = k
<1>1. PICK n \in Nat : P \subseteq 1 .. n
  BY DEF Places
<1>2. /\ Cardinality(P) \in Nat /\ \A i \in P : i \in Nat \ {0}
      /\ \A i \in Nat : UpTo(P, i) \in SUBSET P /\ Places(UpTo(P, i))
                        /\ Cardinality(UpTo(P, i)) \in Nat
  BY PlacesFinite DEF UpTo
<1> DEFINE T == {i \in Nat : k <= Cardinality(UpTo(P, i))}
<1>3. n \in T
  <2>1. \A i \in P : i <= n
    BY <1>1
  <2>2. UpTo(P, n) = P
    BY <2>1 DEF UpTo
  <2> QED
    BY <1>2, <2>2
<1>4. PICK i \in T : \A j \in T : i <= j
  BY <1>3, LeastPlace
<1>5. i # 0
  <2>1. UpTo(P, 0) = {}
    BY <1>2 DEF UpTo
  <2>2. Cardinality(UpTo(P, 0)) = 0
    BY <2>1, FS_EmptySet
  <2> QED
    BY <1>4, <2>2
<1>6. i - 1 \in Nat /\ i - 1 \notin T /\ i \in Nat
  BY <1>4, <1>5
<1>7. Cardinality(UpTo(P, i - 1)) < k /\ k <= Cardinality(UpTo(P, i))
  BY <1>2, <1>4, <1>6
<1>8. i \in P /\ UpTo(P, i) = UpTo(P, i - 1) \cup {i}
  <2>1. \A j \in P : j <= i <=> j <= i - 1 \/ j = i
    BY <1>2, <1>6
  <2>2. CASE i \in P
    BY <1>6, <2>1, <2>2 DEF UpTo
  <2>3. CASE i \notin P
    <3>1. UpTo(P, i) = UpTo(P, i - 1)
      BY <2>1, <2>3 DEF UpTo
    <3> QED
      BY <1>2, <1>6, <1>7, <3>1
  <2> QED
    BY <2>2, <2>3
<1>9. Cardinality(UpTo(P, i)) = Cardinality(UpTo(P, i - 1)) + 1
  <2>1. i \notin UpTo(P, i - 1)
    BY <1>6 DEF UpTo
  <2> QED
    BY <1>2, <1>6, <1>8, <2>1, OnePlaceMore
<1>10. Cardinality(UpTo(P, i)) = k
  BY <1>2, <1>6, <1>7, <1>9
<1>11. Place(P, k) \in {j \in P : Cardinality(UpTo(P, j)) = k}
  BY <1>8, <1>10 DEF Place
<1> QED
  BY <1>11

(* A place is the k-th when k places are up to it.                         *)
LEMMA PlaceOf ==
  ASSUME NEW P, Places(P), NEW n \in P
  PROVE  /\ Cardinality(UpTo(P, n)) \in 1 .. Cardinality(P)
         /\ Place(P, Cardinality(UpTo(P, n))) = n
         /\ Cardinality(UpTo(P, n)) = Cardinality(UpTo(P, n - 1)) + 1
         /\ \A a \in Nat : a < n => Cardinality(UpTo(P, a)) < Cardinality(UpTo(P, n))
<1>1. /\ Cardinality(P) \in Nat /\ \A i \in P : i \in Nat \ {0}
      /\ \A i \in Nat : UpTo(P, i) \in SUBSET P /\ Places(UpTo(P, i))
                        /\ Cardinality(UpTo(P, i)) \in Nat
                        /\ Cardinality(UpTo(P, i)) <= Cardinality(P)
  BY PlacesFinite DEF UpTo
<1>2. n \in Nat \ {0} /\ n - 1 \in Nat
  BY <1>1
<1>3. ASSUME NEW a \in Nat, NEW b \in Nat, a <= b PROVE UpTo(P, a) \in SUBSET UpTo(P, b)
  <2>1. \A j \in P : j <= a => j <= b
    BY <1>1, <1>3
  <2> QED
    BY <2>1 DEF UpTo
<1>4. Cardinality(UpTo(P, n)) = Cardinality(UpTo(P, n - 1)) + 1
  <2>1. UpTo(P, n) = UpTo(P, n - 1) \cup {n} /\ n \notin UpTo(P, n - 1)
    <3>1. n <= n /\ ~(n <= n - 1) /\ \A j \in P : j <= n <=> j <= n - 1 \/ j = n
      BY <1>1, <1>2
    <3> QED
      BY <3>1 DEF UpTo
  <2> QED
    BY <1>1, <1>2, <2>1, OnePlaceMore
<1>5. ASSUME NEW a \in Nat, a < n PROVE Cardinality(UpTo(P, a)) < Cardinality(UpTo(P, n))
  <2>1. a <= n - 1
    BY <1>2, <1>5
  <2>2. UpTo(P, a) \in SUBSET UpTo(P, n - 1) /\ Places(UpTo(P, n - 1))
    BY <1>1, <1>2, <1>3, <2>1
  <2>3. Cardinality(UpTo(P, a)) <= Cardinality(UpTo(P, n - 1))
    BY <1>1, <1>2, <2>2, PlacesFinite
  <2> QED
    BY <1>1, <1>2, <1>4, <2>3
<1>6. Cardinality(UpTo(P, n)) \in 1 .. Cardinality(P)
  BY <1>1, <1>2, <1>4
<1> DEFINE k == Cardinality(UpTo(P, n))
           i == Place(P, k)
<1>7. i \in P /\ Cardinality(UpTo(P, i)) = k
  BY <1>6, PlaceThere
<1> HIDE DEF i
<1>8. i = n
  <2>1. CASE i <= n
    <3>1. UpTo(P, i) \in SUBSET UpTo(P, n)
      BY <1>1, <1>2, <1>7, <1>3, <2>1
    <3>2. UpTo(P, i) = UpTo(P, n)
      BY <1>1, <1>2, <1>7, <3>1, PlacesFinite
    <3>3. n \in UpTo(P, n)
      BY <1>2 DEF UpTo
    <3> QED
      BY <1>1, <1>2, <1>7, <2>1, <3>2, <3>3 DEF UpTo
  <2>2. CASE n < i
    <3>1. UpTo(P, n) \in SUBSET UpTo(P, i)
      BY <1>1, <1>2, <1>7, <1>3, <2>2
    <3>2. UpTo(P, i) = UpTo(P, n)
      BY <1>1, <1>2, <1>7, <3>1, PlacesFinite
    <3>3. i \in UpTo(P, i)
      BY <1>1, <1>7 DEF UpTo
    <3> QED
      BY <1>1, <1>2, <1>7, <2>2, <3>2, <3>3 DEF UpTo
  <2> QED
    BY <1>1, <1>2, <1>7, <2>1, <2>2
<1> QED
  BY <1>4, <1>5, <1>6, <1>8 DEF i

(* The k-th place, and none before the first: places ascend.               *)
PlaceAt(P, k) == IF k = 0 THEN 0 ELSE Place(P, k)

LEMMA PlacesAscend ==
  ASSUME NEW P, Places(P), NEW k \in 1 .. Cardinality(P)
  PROVE  PlaceAt(P, k - 1) < PlaceAt(P, k)
<1>1. Cardinality(P) \in Nat /\ \A i \in P : i \in Nat \ {0}
  BY PlacesFinite
<1>2. k \in Nat \ {0} /\ PlaceAt(P, k) = Place(P, k) /\ Place(P, k) \in P
      /\ Cardinality(UpTo(P, Place(P, k))) = k
  BY <1>1, PlaceThere DEF PlaceAt
<1>3. CASE k = 1
  BY <1>1, <1>2, <1>3 DEF PlaceAt
<1>4. CASE k # 1
  <2>1. k - 1 \in 1 .. Cardinality(P) /\ PlaceAt(P, k - 1) = Place(P, k - 1)
    BY <1>1, <1>2, <1>4 DEF PlaceAt
  <2>2. Place(P, k - 1) \in P /\ Cardinality(UpTo(P, Place(P, k - 1))) = k - 1
    BY <2>1, PlaceThere
  <2>3. Place(P, k) < Place(P, k - 1) => Cardinality(UpTo(P, Place(P, k)))
                                            < Cardinality(UpTo(P, Place(P, k - 1)))
    BY <1>1, <1>2, <2>2, PlaceOf
  <2> QED
    BY <1>1, <1>2, <2>1, <2>2, <2>3
<1> QED
  BY <1>3, <1>4

(* Where no place is missing.                                              *)
LEMMA NoneMissing ==
  ASSUME NEW P, Places(P), NEW n \in Nat, 1 .. n \subseteq P
  PROVE  Cardinality(UpTo(P, n)) = n /\ PlaceAt(P, n) = n /\ n <= Cardinality(P)
<1>1. UpTo(P, n) = 1 .. n
  <2>1. \A i \in P : i \in Nat \ {0}
    BY PlacesFinite
  <2> QED
    BY <2>1 DEF UpTo
<1>2. Cardinality(1 .. n) = n
  BY FS_Interval
<1>3. n # 0 => n \in P
  OBVIOUS
<1>4. Cardinality(P) \in Nat
  BY PlacesFinite
<1>5. CASE n = 0
  BY <1>1, <1>2, <1>4, <1>5 DEF PlaceAt
<1>6. CASE n # 0
  BY <1>1, <1>2, <1>3, <1>4, <1>6, PlaceOf DEF PlaceAt
<1> QED
  BY <1>5, <1>6

LEMMA KeptIsSeq ==
  ASSUME NEW P, Places(P), NEW s
  PROVE  /\ IsSeq(Kept(s, P)) /\ Len(Kept(s, P)) = Cardinality(P)
         /\ \A k \in 1 .. Cardinality(P) : Place(P, k) \in P /\ Kept(s, P)[k] = s[Place(P, k)]
<1>1. Cardinality(P) \in Nat
  BY PlacesFinite
<1>2. Kept(s, P) = [k \in 1 .. Cardinality(P) |-> s[Place(P, k)]]
  BY DEF Kept
<1>3. IsSeq(Kept(s, P)) /\ Len(Kept(s, P)) = Cardinality(P)
  BY <1>1, <1>2, ByPlace
<1> QED
  BY <1>2, <1>3, PlaceThere

(* The first places of a set are the places of its first part.             *)
LEMMA FirstPlaces ==
  ASSUME NEW P, Places(P), NEW c \in Nat
  PROVE  /\ Places(UpTo(P, c)) /\ Cardinality(UpTo(P, c)) \in 0 .. Cardinality(P)
         /\ \A k \in 1 .. Cardinality(UpTo(P, c)) : Place(UpTo(P, c), k) = Place(P, k)
<1> DEFINE Q == UpTo(P, c)
<1>1. /\ Cardinality(P) \in Nat /\ \A i \in P : i \in Nat
      /\ Q \in SUBSET P /\ Places(Q) /\ Cardinality(Q) \in Nat
      /\ Cardinality(Q) <= Cardinality(P)
  BY PlacesFinite DEF UpTo
<1>2. ASSUME NEW k \in 1 .. Cardinality(Q)
      PROVE  {j \in Q : Cardinality(UpTo(Q, j)) = k} = {j \in P : Cardinality(UpTo(P, j)) = k}
  <2>1. ASSUME NEW j \in Q PROVE UpTo(Q, j) = UpTo(P, j)
    BY <1>1 DEF UpTo
  <2>2. ASSUME NEW j \in P, j \notin Q PROVE Cardinality(UpTo(P, j)) # k
    <3>1. j \in UpTo(P, j) /\ Q \subseteq UpTo(P, j)
      BY <1>1, <2>2 DEF UpTo
    <3>2. Places(UpTo(P, j)) /\ Cardinality(UpTo(P, j)) \in Nat
      BY PlacesFinite DEF UpTo
    <3>3. /\ Cardinality(Q) <= Cardinality(UpTo(P, j))
          /\ Cardinality(Q) = Cardinality(UpTo(P, j)) => Q = UpTo(P, j)
      BY <3>1, <3>2, PlacesFinite
    <3> QED
      BY <1>1, <2>2, <3>1, <3>2, <3>3
  <2> QED
    BY <1>1, <2>1, <2>2
<1>3. \A k \in 1 .. Cardinality(Q) : Place(Q, k) = Place(P, k)
  BY <1>2 DEF Place
<1> QED
  BY <1>1, <1>3

(* R is P and one place behind; two sequences agree on some places.        *)
Extends(R, P, n) == n \in Nat \ {0} /\ R = P \cup {n} /\ \A i \in P : i < n
Agree(s, t, P) == \A i \in P : t[i] = s[i]

LEMMA KeptMore ==
  ASSUME NEW P, Places(P), NEW R, NEW n, Extends(R, P, n), NEW s, NEW t, Agree(s, t, P)
  PROVE  Kept(t, P) = Kept(s, P) /\ Kept(t, R) = Append(Kept(s, P), t[n])
<1> DEFINE c == Cardinality(P)
           p == Kept(s, P)
<1>0. /\ n \in Nat \ {0} /\ R = P \cup {n} /\ \A i \in P : i < n
      /\ \A i \in P : t[i] = s[i]
  BY DEF Extends, Agree
<1>1. /\ c \in Nat /\ IsSeq(p) /\ Len(p) = c
      /\ \A k \in 1 .. c : Place(P, k) \in P /\ p[k] = s[Place(P, k)]
  BY PlacesFinite, KeptIsSeq
<1>2. Places(R) /\ Cardinality(R) = c + 1 /\ \A i \in P : i \in Nat
  BY <1>0, PlacesFinite, OnePlaceMore
<1>3. \A k \in 1 .. c + 1 : Place(R, k) = IF k <= c THEN Place(P, k) ELSE n
  <2>1. UpTo(R, n - 1) = P /\ n - 1 \in Nat
    BY <1>0, <1>2 DEF UpTo
  <2>2. \A k \in 1 .. c : Place(R, k) = Place(P, k)
    BY <1>0, <1>2, <2>1, FirstPlaces
  <2>3. Place(R, c + 1) = n
    <3>1. Place(R, c + 1) \in R /\ Cardinality(UpTo(R, Place(R, c + 1))) = c + 1
      BY <1>0, <1>1, <1>2, PlaceThere
    <3>2. ASSUME NEW i \in P PROVE Cardinality(UpTo(R, i)) # c + 1
      <4>1. UpTo(R, i) \in SUBSET P
        BY <1>0, <1>2 DEF UpTo
      <4>2. Cardinality(UpTo(R, i)) <= c /\ Cardinality(UpTo(R, i)) \in Nat /\ c \in Nat
        BY <1>1, <4>1, PlacesFinite
      <4>3. \A a, b \in Nat : a <= b => a # b + 1
        OBVIOUS
      <4> QED
        BY <4>2, <4>3
    <3> QED
      BY <1>0, <3>1, <3>2
  <2> HIDE DEF c
  <2>4. \A k \in 1 .. c + 1 : k \in 1 .. c \/ (k = c + 1 /\ ~(k <= c))
    BY <1>0, <1>1
  <2>5. \A k \in 1 .. c : k <= c
    BY <1>0, <1>1
  <2> QED
    BY <2>2, <2>3, <2>4, <2>5
<1>4. Kept(t, P) = p
  <2>1. Kept(t, P) = [k \in 1 .. c |-> t[Place(P, k)]] /\ p = [k \in 1 .. c |-> s[Place(P, k)]]
    BY DEF Kept
  <2> QED
    BY <1>0, <1>1, <2>1
<1>5. Kept(t, R) = [k \in 1 .. c + 1 |-> IF k <= c THEN p[k] ELSE t[n]]
  <2>1. Kept(t, R) = [k \in 1 .. c + 1 |-> t[Place(R, k)]]
    BY <1>0, <1>2 DEF Kept
  <2>2. ASSUME NEW k \in 1 .. c + 1
        PROVE  t[Place(R, k)] = IF k <= c THEN p[k] ELSE t[n]
    <3>1. k <= c => k \in 1 .. c
      BY <1>0, <1>1
    <3> QED
      BY <1>0, <1>1, <1>3, <3>1
  <2> HIDE DEF c, p
  <2> QED
    BY <2>1, <2>2
<1> HIDE DEF p, c
<1>6. Append(p, t[n]) = [k \in 1 .. c + 1 |-> IF k <= c THEN p[k] ELSE t[n]]
  <2>1. p \in Seq(Range(p) \cup {t[n]}) /\ t[n] \in Range(p) \cup {t[n]}
    BY <1>0, <1>1, SeqMonotonic DEF IsSeq
  <2>2. /\ Append(p, t[n]) \in Seq(Range(p) \cup {t[n]}) /\ Len(Append(p, t[n])) = c + 1
        /\ \A i \in 1 .. c : Append(p, t[n])[i] = p[i]
        /\ Append(p, t[n])[c + 1] = t[n]
    BY <1>0, <1>1, <2>1, AppendProperties
  <2>3. Append(p, t[n]) = [k \in 1 .. c + 1 |-> Append(p, t[n])[k]]
    BY <1>0, <1>1, <2>2, LenProperties
  <2> QED
    BY <1>0, <1>1, <2>2, <2>3
<1> QED
  BY <1>4, <1>5, <1>6 DEF p, c

-----------------------------------------------------------------------------
(* What WHERE means.  A text that says what was asked for is that of one   *)
(* predicate, or of predicates without an OR.                              *)
Unambiguous ==
  \/ Len(builder.predicates) <= 1
  \/ \A i \in DOMAIN builder.predicates : Len(builder.predicates[i]) = 1

Conjoined(p, q) == Front(p) \o <<Last(p) \cap Head(q)>> \o Tail(q)

LEMMA OneConjunction ==
  ASSUME NEW p, NEW q, IsSeq(p), IsSeq(q), Len(p) = 1, Len(q) = 1
  PROVE  Conjoined(p, q) = <<p[1] \cap q[1]>>
<1> DEFINE e == p[1] \cap q[1]
<1>1. Front(p) = <<>>
  <2>1. Front(p) = SubSeq(p, 1, 0)
    BY DEF Front
  <2>2. SubSeq(p, 1, 0) \in Seq(Range(p)) /\ Len(SubSeq(p, 1, 0)) = 0
    BY SubSeqProperties DEF IsSeq
  <2> QED
    BY <2>1, <2>2, EmptySeq
<1>2. Tail(q) = <<>> /\ Head(q) = q[1]
  <2>1. q # <<>>
    BY Indexed
  <2>2. Tail(q) \in Seq(Range(q)) /\ Len(Tail(q)) = 0 /\ Head(q) = q[1]
    BY <2>1, HeadTailProperties DEF IsSeq
  <2> QED
    BY <2>2, EmptySeq
<1>3. Last(p) = p[1]
  BY DEF Last
<1>4. <<e>> \in Seq({e})
  OBVIOUS
<1>5. <<>> \o <<e>> = <<e>> /\ <<e>> \o <<>> = <<e>>
  BY <1>4, ConcatEmptySeq
<1> QED
  BY <1>1, <1>2, <1>3, <1>5 DEF Conjoined

LEMMA JoinOne == ASSUME NEW ps, Len(ps) = 1 PROVE JoinAnd(ps) = ps[1]
<1> DEFINE n == Len(ps)
           Q(f) == f = [k \in 1 .. n |-> IF k = 1 THEN ps[1] ELSE
                          Front(f[k - 1]) \o <<Last(f[k - 1]) \cap Head(ps[k])>> \o Tail(ps[k])]
<1>1. JoinAnd(ps) = (CHOOSE f : Q(f))[n]
  BY DEF JoinAnd
<1>2. Q([k \in 1 .. 1 |-> ps[1]])
  BY \A k \in 1 .. 1 : k = 1
<1> DEFINE f == CHOOSE f : Q(f)
<1>3. Q(f)
  <2> HIDE DEF Q
  <2> QED
    BY <1>2
<1> HIDE DEF f
<1>4. f[1] = ps[1]
  BY <1>3
<1>5. JoinAnd(ps) = f[n]
  BY <1>1, Zenon DEF f
<1> QED
  BY <1>4, <1>5

LEMMA JoinMany ==
  ASSUME NEW ps, IsSeq(ps), Len(ps) > 0,
         \A i \in DOMAIN ps : IsSeq(ps[i]) /\ Len(ps[i]) = 1
  PROVE  JoinAnd(ps) = <<{r \in ps[1][1] : \A i \in DOMAIN ps : r \in ps[i][1]}>>
<1> DEFINE n == Len(ps)
           Q(f) == f = [k \in 1 .. n |-> IF k = 1 THEN ps[1] ELSE
                          Front(f[k - 1]) \o <<Last(f[k - 1]) \cap Head(ps[k])>> \o Tail(ps[k])]
           Both(k) == {r \in ps[1][1] : \A i \in 1 .. k : r \in ps[i][1]}
           g == [k \in 1 .. n |-> <<Both(k)>>]
<1>1. JoinAnd(ps) = (CHOOSE f : Q(f))[n]
  BY DEF JoinAnd
<1>2. n \in Nat /\ DOMAIN ps = 1 .. n /\ 1 \in 1 .. n
  BY Indexed
<1>3. ps[1] = <<Both(1)>>
  <2>1. Both(1) = ps[1][1]
    BY \A i \in 1 .. 1 : i = 1
  <2>2. ps[1] = <<ps[1][1]>>
    BY <1>2, LenProperties DEF IsSeq
  <2> QED
    BY <2>1, <2>2
<1>4. ASSUME NEW k \in 1 .. n, k # 1, NEW p, p = <<Both(k - 1)>>
      PROVE  Conjoined(p, ps[k]) = <<Both(k)>>
  <2>1. IsSeq(p) /\ Len(p) = 1 /\ p[1] = Both(k - 1)
    <3>1. <<Both(k - 1)>> \in Seq({Both(k - 1)})
      OBVIOUS
    <3> QED
      BY <1>4, <3>1, AnySeq
  <2>2. Conjoined(p, ps[k]) = <<p[1] \cap ps[k][1]>>
    BY <1>2, <2>1, OneConjunction
  <2>3. Both(k - 1) \cap ps[k][1] = Both(k)
    <3>1. \A i : i \in 1 .. k <=> i \in 1 .. k - 1 \/ i = k
      BY <1>2, <1>4
    <3> QED
      BY <3>1
  <2> QED
    BY <2>1, <2>2, <2>3
<1>5. Q(g)
  <2>1. ASSUME NEW k \in 1 .. n, k # 1
        PROVE  /\ k - 1 \in 1 .. n
               /\ Front(g[k - 1]) \o <<Last(g[k - 1]) \cap Head(ps[k])>> \o Tail(ps[k])
                    = <<Both(k)>>
    <3>1. k - 1 \in 1 .. n
      BY <1>2, <2>1
    <3>2. g[k - 1] = <<Both(k - 1)>>
      BY <3>1
    <3> QED
      BY <1>4, <2>1, <3>1, <3>2 DEF Conjoined
  <2> QED
    BY <1>3, <2>1
<1> DEFINE f == CHOOSE f : Q(f)
<1>6. Q(f)
  <2> HIDE DEF Q
  <2> QED
    BY <1>5
<1> HIDE DEF f
<1>7. \A k \in 1 .. n : f[k] = <<Both(k)>>
  <2> DEFINE T == {k \in 1 .. n : f[k] # <<Both(k)>>}
  <2>1. ASSUME T # {} PROVE FALSE
    <3>1. PICK k \in T : \A j \in T : k <= j
      <4> T \subseteq Nat
        BY <1>2
      <4> HIDE DEF T
      <4> QED
        BY <2>1, LeastPlace
    <3>2. k # 1
      <4>1. f[1] = ps[1]
        BY <1>2, <1>6
      <4> QED
        BY <1>3, <3>1, <4>1
    <3>3. k - 1 \in 1 .. n /\ k - 1 \notin T
      BY <1>2, <3>1, <3>2
    <3>4. f[k - 1] = <<Both(k - 1)>>
      BY <3>3
    <3>5. f[k] = Conjoined(f[k - 1], ps[k])
      BY <1>6, <3>1, <3>2 DEF Conjoined
    <3> QED
      BY <1>4, <3>1, <3>2, <3>4, <3>5
  <2> QED
    BY <2>1
<1>8. JoinAnd(ps) = f[n]
  BY <1>1, Zenon DEF f
<1> QED
  BY <1>2, <1>7, <1>8

LEMMA WhereMeans ==
  ASSUME NEW ps \in Seq(Predicates), NEW where,
         where = (IF ps = <<>> THEN <<>> ELSE JoinAnd(ps)),
         Len(ps) <= 1 \/ \A i \in DOMAIN ps : Len(ps[i]) = 1, NEW r
  PROVE  (where = <<>> \/ \E j \in DOMAIN where : r \in where[j])
           <=> \A i \in DOMAIN ps : \E j \in DOMAIN ps[i] : r \in ps[i][j]
<1>1. IsSeq(ps) /\ \A i \in DOMAIN ps : IsSeq(ps[i]) /\ ps[i] # <<>>
  BY AnySeq, PredicatesAssumption, ElementOfSeq DEF IsSeq
<1>2. Len(ps) \in Nat /\ DOMAIN ps = 1 .. Len(ps) /\ (ps = <<>> <=> Len(ps) = 0)
  BY <1>1, Indexed
<1>3. CASE ps = <<>>
  BY <1>2, <1>3
<1>4. CASE Len(ps) = 1
  <2>1. where = ps[1] /\ DOMAIN ps = {1} /\ ps[1] # <<>>
    BY <1>1, <1>2, <1>4, JoinOne
  <2> QED
    BY <2>1
<1>5. CASE Len(ps) > 1
  <2> DEFINE All == {x \in ps[1][1] : \A i \in DOMAIN ps : x \in ps[i][1]}
  <2>1. \A i \in DOMAIN ps : Len(ps[i]) = 1 /\ DOMAIN ps[i] = {1}
    BY <1>1, <1>2, <1>5, Indexed
  <2>2. where = <<All>>
    BY <1>1, <1>2, <1>5, <2>1, JoinMany
  <2>3. 1 \in DOMAIN ps
    BY <1>2, <1>5
  <2>4. r \in All <=> \A i \in DOMAIN ps : r \in ps[i][1]
    BY <2>3
  <2>5. where # <<>> /\ DOMAIN where = {1} /\ where[1] = All
    <3> HIDE DEF All
    <3> QED
      BY <2>2
  <2> HIDE DEF All
  <2> QED
    BY <2>1, <2>4, <2>5
<1> QED
  BY <1>2, <1>3, <1>4, <1>5

-----------------------------------------------------------------------------
(* Items a JSON stream yields.                                             *)
Items(s) == IsSeq(s) /\ \A i \in DOMAIN s : s[i].kind \in {"json", "error", "end"}

LEMMA OneItem ==
  ASSUME NEW e PROVE IsSeq(<<e>>) /\ Len(<<e>>) = 1 /\ <<e>>[1] = e /\ DOMAIN <<e>> = {1}
<1>1. <<e>> \in Seq({e})
  OBVIOUS
<1>2. IsSeq(<<e>>)
  BY <1>1, AnySeq
<1> QED
  BY <1>2

LEMMA ItemsCut ==
  ASSUME NEW s, Items(s), NEW m \in Nat \ {0}, NEW n \in 0 .. Len(s) PROVE Items(SubSeq(s, m, n))
<1>1. Len(s) \in Nat /\ DOMAIN s = 1 .. Len(s)
  BY Indexed DEF Items
<1>2. \A i \in m .. n : i \in DOMAIN s
  BY <1>1
<1>3. /\ SubSeq(s, m, n) \in Seq(Range(s))
      /\ Len(SubSeq(s, m, n)) = IF m <= n THEN n - m + 1 ELSE 0
      /\ \A i \in 1 .. n - m + 1 : SubSeq(s, m, n)[i] = s[m + i - 1]
  BY <1>1, <1>2, SubSeqProperties DEF Range
<1>4. IsSeq(SubSeq(s, m, n)) /\ DOMAIN SubSeq(s, m, n) = 1 .. Len(SubSeq(s, m, n))
  BY <1>3, AnySeq, Indexed
<1>5. ASSUME NEW i \in DOMAIN SubSeq(s, m, n)
      PROVE  SubSeq(s, m, n)[i].kind \in {"json", "error", "end"}
  <2>1. i \in 1 .. n - m + 1 /\ m + i - 1 \in m .. n
    BY <1>1, <1>3, <1>4
  <2> QED
    BY <1>2, <1>3, <2>1 DEF Items
<1> QED
  BY <1>4, <1>5 DEF Items

-----------------------------------------------------------------------------
(* The server's answer to any text is a sequence of rows, and what the     *)
(* stream makes of it a sequence of items.                                 *)
LEMMA AnswerIsSeq ==
  ASSUME NEW where, NEW order \in {<<>>, <<"asc">>, <<"desc">>},
         NEW offset, Natural(offset), NEW limit, Natural(limit)
  PROVE  IsSeq(Slice(Matching(InOrder(order), where), offset, limit))
<1> DEFINE all == InOrder(order)
           found == {i \in DOMAIN all : where = <<>> \/ \E j \in DOMAIN where : all[i] \in where[j]}
           match == Matching(all, where)
           skipped == IF offset = <<>> THEN match ELSE SubSeq(match, offset[1] + 1, Len(match))
<1>1. IsSeq(all)
  <2>1. IsSeq(Table) /\ IsSeq(Sorted)
    BY TableAssumption, AnySeq
  <2>2. IsSeq(Reverse(Sorted))
    BY <2>1, Indexed, ByPlace DEF Reverse
  <2> QED
    BY <2>1, <2>2 DEF InOrder
<1>2. Places(found)
  BY <1>1, Indexed DEF Places
<1>3. IsSeq(match)
  BY <1>2, KeptIsSeq DEF Matching
<1> HIDE DEF match
<1>4. IsSeq(skipped)
  <2>1. CASE offset # <<>>
    <3>1. offset[1] \in Nat /\ Len(match) \in Nat /\ DOMAIN match = 1 .. Len(match)
      BY <1>3, <2>1, Indexed DEF Natural
    <3>2. SubSeq(match, offset[1] + 1, Len(match)) \in Seq(Range(match))
      BY <3>1, SubSeqProperties DEF Range
    <3> QED
      BY <2>1, <3>2, AnySeq
  <2> QED
    BY <1>3, <2>1
<1> HIDE DEF skipped
<1>5. CASE limit = <<>> \/ limit[1] > Len(skipped)
  BY <1>4, <1>5 DEF Slice, skipped, match
<1>6. CASE ~(limit = <<>> \/ limit[1] > Len(skipped))
  <2>1. /\ limit[1] \in Nat /\ Len(skipped) \in Nat /\ DOMAIN skipped = 1 .. Len(skipped)
        /\ limit[1] <= Len(skipped)
    BY <1>4, <1>6, Indexed DEF Natural
  <2>2. SubSeq(skipped, 1, limit[1]) \in Seq(Range(skipped))
    BY <2>1, SubSeqProperties DEF Range
  <2> QED
    BY <1>6, <2>2, AnySeq DEF Slice, skipped, match
<1> QED
  BY <1>5, <1>6

LEMMA JoinedAt ==
  ASSUME NEW s, IsSeq(s), NEW t, IsSeq(t)
  PROVE  /\ IsSeq(s \o t) /\ Len(s \o t) = Len(s) + Len(t)
         /\ \A i \in 1 .. Len(s) + Len(t) :
              (s \o t)[i] = IF i <= Len(s) THEN s[i] ELSE t[i - Len(s)]
<1> DEFINE S == Range(s) \cup Range(t)
<1>1. s \in Seq(S) /\ t \in Seq(S)
  BY SeqMonotonic DEF IsSeq
<1>2. /\ s \o t \in Seq(S) /\ Len(s \o t) = Len(s) + Len(t)
      /\ \A i \in 1 .. Len(s) + Len(t) : (s \o t)[i] = IF i <= Len(s) THEN s[i] ELSE t[i - Len(s)]
  BY <1>1, ConcatProperties
<1> QED
  BY <1>2, AnySeq

(* The rows of the answer as far as the stream has them, and what it goes  *)
(* on with.                                                                *)
Lasting(tail) ==
  /\ IsSeq(tail)
  /\ \A i \in 1 .. Len(tail) : /\ tail[i].kind \in {"error", "end"}
                               /\ tail[i].kind = "end" => i = Len(tail)
  /\ Len(tail) > 0 /\ (\A i \in 1 .. Len(tail) : tail[i].kind # "error") => tail = <<EndItem>>

LEMMA TailsLast == ASSUME NEW tail \in Tails PROVE Lasting(tail)
<1>1. EndItem.kind = "end" /\ ErrorItem.kind = "error"
  BY DEF EndItem, ErrorItem
<1>2. CASE tail = <<EndItem>>
  BY <1>1, <1>2, OneItem DEF Lasting
<1>3. CASE tail = <<ErrorItem, EndItem>>
  <2>1. <<ErrorItem, EndItem>> \in Seq({ErrorItem, EndItem})
    OBVIOUS
  <2>2. IsSeq(tail)
    BY <1>3, <2>1, AnySeq
  <2>3. /\ Len(tail) = 2 /\ tail[1] = ErrorItem /\ tail[2] = EndItem
        /\ \A i \in 1 .. 2 : i = 1 \/ i = 2
    BY <1>3
  <2> QED
    BY <1>1, <2>2, <2>3 DEF Lasting
<1>4. ASSUME NEW n \in Nat, tail = [i \in 1 .. n |-> ErrorItem] PROVE Lasting(tail)
  <2>1. IsSeq(tail) /\ Len(tail) = n /\ \A i \in 1 .. n : tail[i] = ErrorItem
    BY <1>4, ByPlace
  <2>2. n > 0 => 1 \in 1 .. n
    OBVIOUS
  <2> QED
    BY <1>1, <2>1, <2>2 DEF Lasting
<1> QED
  BY <1>2, <1>3, <1>4 DEF Tails

(* The places of the rows that are not lost.                               *)
Shown(fate) == {i \in DOMAIN fate : fate[i] # "lost"}

StreamHolds(s, rows, fate, tail) ==
  LET kept == Shown(fate)
      k == Cardinality(kept)
  IN  /\ IsSeq(s) /\ Len(s) = k + Len(tail)
      /\ \A m \in 1 .. k : s[m] = IF fate[Place(kept, m)] = "error" THEN ErrorItem
                                  ELSE RowItem(rows[Place(kept, m)])
      /\ \A m \in 1 .. Len(tail) : s[k + m] = tail[m]

LEMMA StreamOfHolds ==
  ASSUME NEW rows, IsSeq(rows), NEW fate \in Fates(rows), NEW tail, IsSeq(tail)
  PROVE  /\ Places(Shown(fate)) /\ DOMAIN fate = 1 .. Len(rows) /\ Len(rows) \in Nat
         /\ StreamHolds(StreamOf(rows, fate, tail), rows, fate, tail)
<1> DEFINE items == [i \in DOMAIN rows |-> IF fate[i] = "error" THEN ErrorItem
                                           ELSE RowItem(rows[i])]
           kept == Shown(fate)
           k == Cardinality(kept)
           head == Kept(items, kept)
           s == StreamOf(rows, fate, tail)
<1>1. Len(rows) \in Nat /\ DOMAIN rows = 1 .. Len(rows) /\ DOMAIN fate = DOMAIN rows
  BY Indexed DEF Fates
<1>2. Places(kept) /\ \A i \in kept : i \in DOMAIN rows
  BY <1>1 DEF Shown, Places
<1>3. s = head \o tail
  BY <1>1 DEF StreamOf, Shown
<1>4. \A i \in DOMAIN rows : items[i] = IF fate[i] = "error" THEN ErrorItem ELSE RowItem(rows[i])
  OBVIOUS
<1> HIDE DEF items, kept, s
<1>5. /\ IsSeq(head) /\ Len(head) = k /\ k \in Nat
      /\ \A m \in 1 .. k : Place(kept, m) \in kept /\ head[m] = items[Place(kept, m)]
  BY <1>2, KeptIsSeq, PlacesFinite
<1> HIDE DEF head, k
<1>6. /\ IsSeq(s) /\ Len(s) = k + Len(tail) /\ Len(tail) \in Nat
      /\ \A i \in 1 .. k + Len(tail) : s[i] = IF i <= k THEN head[i] ELSE tail[i - k]
  BY <1>3, <1>5, JoinedAt, Indexed
<1>7. \A m \in 1 .. k : s[m] = IF fate[Place(kept, m)] = "error" THEN ErrorItem
                               ELSE RowItem(rows[Place(kept, m)])
  <2>1. \A m \in 1 .. k : m \in 1 .. k + Len(tail) /\ m <= k
    BY <1>5, <1>6
  <2> QED
    BY <1>2, <1>4, <1>5, <1>6, <2>1
<1>8. \A m \in 1 .. Len(tail) : s[k + m] = tail[m]
  <2>1. \A m \in 1 .. Len(tail) : k + m \in 1 .. k + Len(tail) /\ ~(k + m <= k) /\ (k + m) - k = m
    BY <1>5, <1>6
  <2> QED
    BY <1>6, <2>1
<1> QED
  BY <1>1, <1>2, <1>6, <1>7, <1>8 DEF StreamHolds, kept, k, s

-----------------------------------------------------------------------------
(* Which rows.  c[m] is the place in the answer of the last row that the   *)
(* first m items of the JSON stream have come to.  Up to the first error   *)
(* no place is skipped, and a stream that ends without one has come to the *)
(* last row.                                                               *)
Unbroken(items, m) == \A i \in 1 .. m : items[i].kind # "error"

LaidAt(items, rows, c, m) ==
  /\ items[m].kind \in {"json", "error", "end"}
  /\ items[m].kind = "json" => /\ c[m - 1] < c[m] /\ items[m] = RowItem(rows[c[m]])
                               /\ Unbroken(items, m - 1) => c[m] = c[m - 1] + 1
  /\ items[m].kind = "error" => c[m - 1] <= c[m]
  /\ items[m].kind = "end" => c[m] = c[m - 1] /\ m = Len(items)

Ends(items) == Len(items) > 0 /\ items[Len(items)].kind = "end"

LaysOut(items, rows, c) ==
  /\ c \in [0 .. Len(items) -> 0 .. Len(rows)] /\ c[0] = 0
  /\ \A m \in 1 .. Len(items) : LaidAt(items, rows, c, m)
  /\ Ends(items) /\ Unbroken(items, Len(items)) => c[Len(items)] = Len(rows)

LEMMA ExecuteLays ==
  ASSUME Built, Execute
  PROVE  /\ IsSeq(Answer(BuildSql)) /\ IsSeq(inner')
         /\ \E c : LaysOut(inner', Answer(BuildSql), c)
<1> DEFINE rows == Answer(BuildSql)
           L == Len(rows)
           s == inner'
<1>1. IsSeq(rows)
  BY AnswerIsSeq DEF Answer, BuildSql, Built
<1>2. PICK fate \in Fates(rows), tail \in Tails :
        /\ tail = <<EndItem>> => \/ \A i \in DOMAIN rows : fate[i] = "row"
                                 \/ \E i \in DOMAIN rows : fate[i] = "error"
        /\ s = StreamOf(rows, fate, tail)
  BY DEF Execute
<1> HIDE DEF rows, s
<1>3. Lasting(tail) /\ IsSeq(tail) /\ Len(tail) \in Nat
  BY TailsLast, Indexed DEF Lasting
<1> DEFINE kept == Shown(fate)
           k == Cardinality(kept)
           t == Len(tail)
<1>4. /\ Places(kept) /\ DOMAIN fate = 1 .. L /\ L \in Nat /\ DOMAIN rows = 1 .. L
      /\ StreamHolds(s, rows, fate, tail)
  BY <1>1, <1>2, <1>3, StreamOfHolds, Indexed
<1>5. /\ \A i : i \in kept <=> i \in 1 .. L /\ fate[i] # "lost"
      /\ \A i \in 1 .. L : fate[i] \in {"row", "error", "lost"}
      /\ \A i \in 1 .. L : fate[i] = "row" => \/ \A j \in 1 .. i - 1 : fate[j] = "row"
                                              \/ \E j \in 1 .. i - 1 : fate[j] = "error"
  BY <1>4 DEF Shown, Fates
<1>6. k \in Nat /\ t \in Nat
  BY <1>3, <1>4, PlacesFinite
<1> HIDE DEF kept, L
<1>7. /\ IsSeq(s) /\ Len(s) = k + t
      /\ \A m \in 1 .. k : s[m] = IF fate[Place(kept, m)] = "error" THEN ErrorItem
                                  ELSE RowItem(rows[Place(kept, m)])
      /\ \A m \in 1 .. t : s[k + m] = tail[m]
  BY <1>4 DEF StreamHolds, kept
<1>8. /\ EndItem.kind = "end" /\ ErrorItem.kind = "error"
      /\ \A r : RowItem(r).kind = "json"
  BY DEF EndItem, ErrorItem, RowItem
<1>9. \A m \in 1 .. k : Place(kept, m) \in kept /\ Cardinality(UpTo(kept, Place(kept, m))) = m
  BY <1>4, PlaceThere DEF k
<1> HIDE DEF k, t
<1> DEFINE c == [m \in 0 .. k + t |-> PlaceAt(kept, IF m <= k THEN m ELSE k)]
<1>10. /\ \A m \in 0 .. k : c[m] = PlaceAt(kept, m)
       /\ \A m \in 1 .. t : c[k + m] = PlaceAt(kept, k)
       /\ c[0] = 0 /\ \A m \in 1 .. k : c[m] = Place(kept, m)
  BY <1>6 DEF PlaceAt
<1>11. c \in [0 .. k + t -> 0 .. L]
  <2>1. ASSUME NEW m \in 0 .. k PROVE PlaceAt(kept, m) \in 0 .. L
    <3>1. CASE m = 0
      BY <1>4, <3>1 DEF PlaceAt
    <3>2. CASE m # 0
      <4>1. m \in 1 .. k
        BY <1>6, <3>2
      <4>2. Place(kept, m) \in 1 .. L
        BY <1>5, <1>9, <4>1
      <4> QED
        BY <1>4, <3>2, <4>2 DEF PlaceAt
    <3> QED
      BY <3>1, <3>2
  <2>2. \A m \in 0 .. k + t : (IF m <= k THEN m ELSE k) \in 0 .. k
    BY <1>6
  <2> QED
    BY <2>1, <2>2
(* A row that is an error is an item of the stream.                        *)
<1>12. ASSUME NEW j \in 1 .. L, fate[j] = "error"
       PROVE  LET q == Cardinality(UpTo(kept, j))
              IN  q \in 1 .. k /\ Place(kept, q) = j /\ s[q] = ErrorItem
  <2>1. j \in kept
    BY <1>5, <1>12
  <2>2. LET q == Cardinality(UpTo(kept, j)) IN q \in 1 .. k /\ Place(kept, q) = j
    BY <1>4, <2>1, PlaceOf DEF k
  <2> QED
    BY <1>7, <1>12, <2>2
<1>13. ASSUME NEW m \in 1 .. k PROVE LaidAt(s, rows, c, m)
  <2> DEFINE p == Place(kept, m)
  <2>1. /\ m \in Nat /\ m - 1 \in 0 .. k /\ m # k + t + 1 /\ p \in kept /\ p \in 1 .. L
        /\ Cardinality(UpTo(kept, p)) = m
    BY <1>5, <1>6, <1>9
  <2>2. c[m] = p /\ c[m - 1] = PlaceAt(kept, m - 1) /\ c[m - 1] < c[m]
    <3>1. PlaceAt(kept, m - 1) < PlaceAt(kept, m)
      BY <1>4, PlacesAscend DEF k
    <3>2. m \in 0 .. k
      BY <1>6
    <3> HIDE DEF c
    <3> QED
      BY <1>10, <2>1, <3>1, <3>2
  <2>3. c[m - 1] <= c[m]
    <3>1. c[m - 1] \in Int /\ c[m] \in Int
      <4>1. m - 1 \in 0 .. k + t /\ m \in 0 .. k + t
        BY <1>6, <2>1
      <4> HIDE DEF c
      <4>2. c[m - 1] \in 0 .. L /\ c[m] \in 0 .. L
        BY <1>11, <4>1
      <4> QED
        BY <4>2
    <3> HIDE DEF c
    <3> QED
      BY <2>2, <3>1
  <2> HIDE DEF c, p
  <2>4. CASE fate[p] = "error"
    <3>1. s[m].kind = "error"
      BY <1>7, <1>8, <2>4 DEF p
    <3> QED
      BY <2>3, <3>1 DEF LaidAt
  <2>5. CASE fate[p] # "error"
    <3>1. s[m] = RowItem(rows[c[m]]) /\ s[m].kind = "json" /\ fate[p] = "row"
      BY <1>5, <1>7, <1>8, <2>1, <2>2, <2>5 DEF p
    <3>2. ASSUME Unbroken(s, m - 1) PROVE c[m] = c[m - 1] + 1
      <4>1. ASSUME NEW j \in 1 .. p - 1, fate[j] = "error" PROVE FALSE
        <5> DEFINE q == Cardinality(UpTo(kept, j))
        <5>1. j \in 1 .. L /\ j \in Nat /\ j < p
          BY <1>4, <2>1
        <5>2. q \in 1 .. k /\ s[q] = ErrorItem
          BY <1>12, <4>1, <5>1
        <5>3. q < m
          BY <1>4, <2>1, <5>1, PlaceOf
        <5>4. q \in 1 .. m - 1
          BY <1>6, <2>1, <5>2, <5>3
        <5> QED
          BY <1>8, <3>2, <5>2, <5>4 DEF Unbroken
      <4>2. \A j \in 1 .. p - 1 : fate[j] = "row"
        BY <1>5, <2>1, <3>1, <4>1
      <4>3. p - 1 \in Nat /\ 1 .. p - 1 \subseteq kept
        <5>1. \A j \in 1 .. p - 1 : j \in 1 .. L
          BY <1>4, <2>1
        <5>2. p - 1 \in Nat
          BY <1>4, <2>1
        <5> QED
          BY <1>5, <4>2, <5>1, <5>2
      <4>4. Cardinality(UpTo(kept, p - 1)) = p - 1 /\ PlaceAt(kept, p - 1) = p - 1
        BY <1>4, <4>3, NoneMissing
      <4>5. m = (p - 1) + 1
        BY <1>4, <2>1, <4>4, PlaceOf
      <4>6. m = p /\ p \in Nat
        BY <1>4, <2>1, <4>5
      <4> QED
        BY <2>2, <4>4, <4>5, <4>6
    <3> QED
      BY <2>2, <3>1, <3>2 DEF LaidAt
  <2> QED
    BY <2>4, <2>5
<1>14. ASSUME NEW m \in 1 .. t PROVE LaidAt(s, rows, c, k + m)
  <2>1. s[k + m] = tail[m]
    BY <1>7
  <2>2. tail[m].kind \in {"error", "end"} /\ (tail[m].kind = "end" => m = t)
    BY <1>3 DEF Lasting, t
  <2>3. c[k + m] = PlaceAt(kept, k) /\ c[(k + m) - 1] = PlaceAt(kept, k)
    <3>1. CASE m = 1
      <4>1. (k + m) - 1 = k /\ k \in 0 .. k
        BY <1>6, <3>1
      <4> HIDE DEF c
      <4> QED
        BY <1>10, <4>1
    <3>2. CASE m # 1
      <4>1. (k + m) - 1 = k + (m - 1) /\ m - 1 \in 1 .. t
        BY <1>6, <3>2
      <4> HIDE DEF c
      <4> QED
        BY <1>10, <4>1
    <3> QED
      BY <3>1, <3>2
  <2>4. PlaceAt(kept, k) \in Int
    <3>1. k \in 0 .. k + t
      BY <1>6
    <3>2. c[k] \in 0 .. L /\ c[k] = PlaceAt(kept, k)
      <4>1. k \in 0 .. k
        BY <1>6
      <4> HIDE DEF c
      <4> QED
        BY <1>10, <1>11, <3>1, <4>1
    <3> HIDE DEF c
    <3> QED
      BY <3>2
  <2> HIDE DEF c
  <2> QED
    BY <1>7, <2>1, <2>2, <2>3, <2>4 DEF LaidAt
<1>15. ASSUME Ends(s), Unbroken(s, Len(s)) PROVE c[k + t] = L
  <2>1. t > 0
    <3> SUFFICES ASSUME t = 0 PROVE FALSE
      BY <1>6
    <3>1. k \in 1 .. k /\ s[k].kind = "end"
      BY <1>6, <1>7, <1>15 DEF Ends
    <3> QED
      BY <1>7, <1>8, <3>1
  <2>2. tail = <<EndItem>>
    <3>1. ASSUME NEW m \in 1 .. t PROVE tail[m].kind # "error"
      <4>1. k + m \in 1 .. Len(s)
        BY <1>6, <1>7
      <4> QED
        BY <1>7, <1>15, <4>1 DEF Unbroken
    <3> QED
      BY <1>3, <2>1, <3>1 DEF Lasting, t
  <2>3. ASSUME NEW j \in 1 .. L, fate[j] = "error" PROVE FALSE
    <3> DEFINE q == Cardinality(UpTo(kept, j))
    <3>1. q \in 1 .. k /\ s[q] = ErrorItem
      BY <1>12, <2>3
    <3>2. q \in 1 .. Len(s)
      BY <1>6, <1>7, <3>1
    <3> QED
      BY <1>8, <1>15, <3>1, <3>2 DEF Unbroken
  <2>4. \A i \in 1 .. L : fate[i] = "row"
    BY <1>2, <1>4, <2>2, <2>3
  <2>5. kept = 1 .. L
    BY <1>5, <2>4
  <2>6. k = L
    BY <1>4, <2>5, FS_Interval DEF k
  <2>7. PlaceAt(kept, L) = L
    BY <1>4, <2>5, NoneMissing
  <2>8. t \in 1 .. t
    BY <1>6, <2>1
  <2> HIDE DEF c
  <2> QED
    BY <1>10, <2>6, <2>7, <2>8
<1>16. LaysOut(s, rows, c)
  <2>1. ASSUME NEW m \in 1 .. k + t PROVE LaidAt(s, rows, c, m)
    <3>1. CASE m <= k
      <4>1. m \in 1 .. k
        BY <1>6, <3>1
      <4> HIDE DEF c
      <4> QED
        BY <1>13, <4>1
    <3>2. CASE ~(m <= k)
      <4>1. m - k \in 1 .. t /\ k + (m - k) = m
        BY <1>6, <3>2
      <4> HIDE DEF c
      <4>2. LaidAt(s, rows, c, k + (m - k))
        BY <1>14, <4>1
      <4> QED
        BY <4>1, <4>2
    <3> QED
      BY <3>1, <3>2
  <2> HIDE DEF c
  <2> QED
    BY <1>7, <1>10, <1>11, <1>15, <2>1 DEF LaysOut, L
<1> HIDE DEF c
<1> QED
  BY <1>1, <1>7, <1>16 DEF rows, s

LEMMA ExecuteItems == ASSUME Built, Execute PROVE Items(inner')
<1>1. PICK c : LaysOut(inner', Answer(BuildSql), c)
  BY ExecuteLays
<1>2. IsSeq(inner') /\ DOMAIN inner' = 1 .. Len(inner')
  BY ExecuteLays, Indexed
<1> QED
  BY <1>1, <1>2 DEF Items, LaysOut, LaidAt

-----------------------------------------------------------------------------
(* Counting the items of a kind: one more item is one more, if it is of    *)
(* the kind, and what the others are does not change.                      *)
Unit(item, kind) == IF item.kind = kind THEN 1 ELSE 0

LEMMA NumberOfMore ==
  ASSUME NEW s, IsSeq(s), NEW t, IsSeq(t), Len(t) = Len(s) + 1,
         \A i \in 1 .. Len(s) : t[i] = s[i], NEW kind
  PROVE  Number(s, kind) \in Nat /\ Number(t, kind) = Number(s, kind) + Unit(t[Len(t)], kind)
<1> DEFINE S == {i \in DOMAIN s : s[i].kind = kind}
           T == {i \in DOMAIN t : t[i].kind = kind}
           n == Len(t)
<1>1. /\ Len(s) \in Nat /\ DOMAIN s = 1 .. Len(s) /\ n \in Nat /\ DOMAIN t = 1 .. n
      /\ n = Len(s) + 1
  BY Indexed
<1>2. IsFiniteSet(S) /\ Cardinality(S) \in Nat
  <2>1. IsFiniteSet(1 .. Len(s)) /\ S \in SUBSET (1 .. Len(s))
    BY <1>1, FS_Interval
  <2> QED
    BY <2>1, FS_Subset, FS_CardinalityType
<1>3. Number(s, kind) = Cardinality(S) /\ Number(t, kind) = Cardinality(T)
  BY DEF Number
<1>4. T = IF t[n].kind = kind THEN S \cup {n} ELSE S
  BY <1>1
<1>5. n \notin S
  BY <1>1
<1> HIDE DEF S, T
<1>6. Cardinality(T) = Cardinality(S) + Unit(t[n], kind)
  <2>1. Cardinality(S \cup {n}) = Cardinality(S) + 1
    BY <1>2, <1>5, FS_AddElement
  <2> QED
    BY <1>2, <1>4, <2>1 DEF Unit
<1> QED
  BY <1>2, <1>3, <1>6

LEMMA NumberOfNone == ASSUME NEW kind PROVE Number(<<>>, kind) = 0
<1>1. {i \in DOMAIN <<>> : <<>>[i].kind = kind} = {}
  OBVIOUS
<1> QED
  BY <1>1, FS_EmptySet DEF Number

LEMMA Appended ==
  ASSUME NEW s, IsSeq(s), NEW e
  PROVE  /\ IsSeq(Append(s, e)) /\ Len(Append(s, e)) = Len(s) + 1
         /\ Append(s, e)[Len(Append(s, e))] = e
         /\ \A i \in 1 .. Len(s) : Append(s, e)[i] = s[i]
<1>1. s \in Seq(Range(s) \cup {e}) /\ e \in Range(s) \cup {e}
  BY SeqMonotonic DEF IsSeq
<1>2. /\ Append(s, e) \in Seq(Range(s) \cup {e}) /\ Len(Append(s, e)) = Len(s) + 1
      /\ \A i \in 1 .. Len(s) : Append(s, e)[i] = s[i]
      /\ Append(s, e)[Len(s) + 1] = e
  BY <1>1, AppendProperties
<1> QED
  BY <1>2, AnySeq

LEMMA Further ==
  ASSUME NEW s, IsSeq(s), NEW k \in Nat, k < Len(s)
  PROVE  /\ IsSeq(SubSeq(s, 1, k)) /\ IsSeq(SubSeq(s, 1, k + 1))
         /\ Len(SubSeq(s, 1, k)) = k /\ Len(SubSeq(s, 1, k + 1)) = k + 1
         /\ SubSeq(s, 1, k + 1)[k + 1] = s[k + 1]
         /\ \A i \in 1 .. k : SubSeq(s, 1, k + 1)[i] = SubSeq(s, 1, k)[i]
<1>1. Len(s) \in Nat /\ DOMAIN s = 1 .. Len(s)
  BY Indexed
<1>2. \A i \in 1 .. Len(s) : s[i] \in Range(s)
  BY <1>1 DEF Range
<1>3. /\ SubSeq(s, 1, k) \in Seq(Range(s)) /\ SubSeq(s, 1, k + 1) \in Seq(Range(s))
      /\ Len(SubSeq(s, 1, k)) = k /\ Len(SubSeq(s, 1, k + 1)) = k + 1
      /\ \A i \in 1 .. k : SubSeq(s, 1, k)[i] = s[i]
      /\ \A i \in 1 .. k + 1 : SubSeq(s, 1, k + 1)[i] = s[i]
  BY <1>1, <1>2, SubSeqProperties
<1>4. IsSeq(SubSeq(s, 1, k)) /\ IsSeq(SubSeq(s, 1, k + 1))
  BY <1>3, AnySeq
<1>5. k + 1 \in 1 .. k + 1 /\ \A i \in 1 .. k : i \in 1 .. k + 1
  OBVIOUS
<1> QED
  BY <1>3, <1>4, <1>5

LEMMA NumberOfAppended ==
  ASSUME NEW s, IsSeq(s), NEW e, NEW kind
  PROVE  /\ IsSeq(Append(s, e)) /\ Number(s, kind) \in Nat
         /\ Number(Append(s, e), kind) = Number(s, kind) + Unit(e, kind)
<1> DEFINE t == Append(s, e)
<1>1. IsSeq(t) /\ Len(t) = Len(s) + 1 /\ t[Len(t)] = e /\ \A i \in 1 .. Len(s) : t[i] = s[i]
  BY Appended
<1> HIDE DEF t
<1>2. Number(s, kind) \in Nat /\ Number(t, kind) = Number(s, kind) + Unit(t[Len(t)], kind)
  BY <1>1, NumberOfMore
<1> QED
  BY <1>1, <1>2 DEF t

LEMMA NumberOfPrefix ==
  ASSUME NEW s, Items(s), NEW k \in Nat, k < Len(s), NEW kind
  PROVE  /\ Number(SubSeq(s, 1, k), kind) \in Nat
         /\ Number(SubSeq(s, 1, k + 1), kind)
              = Number(SubSeq(s, 1, k), kind) + Unit(s[k + 1], kind)
<1> DEFINE p == SubSeq(s, 1, k)
           q == SubSeq(s, 1, k + 1)
<1>1. /\ IsSeq(p) /\ IsSeq(q) /\ Len(q) = Len(p) + 1 /\ q[Len(q)] = s[k + 1]
      /\ \A i \in 1 .. Len(p) : q[i] = p[i]
  BY Further DEF Items
<1> HIDE DEF p, q
<1>2. Number(p, kind) \in Nat /\ Number(q, kind) = Number(p, kind) + Unit(q[Len(q)], kind)
  BY <1>1, NumberOfMore
<1> QED
  BY <1>1, <1>2 DEF p, q

(* The items of some kinds: one more item is one more behind them, if it   *)
(* is of one of the kinds.                                                 *)
LEMMA OfKindMore ==
  ASSUME NEW s, IsSeq(s), NEW t, IsSeq(t), Len(t) = Len(s) + 1,
         \A i \in 1 .. Len(s) : t[i] = s[i], NEW kinds
  PROVE  OfKind(t, kinds) = IF t[Len(t)].kind \in kinds
                            THEN Append(OfKind(s, kinds), t[Len(t)]) ELSE OfKind(s, kinds)
<1> DEFINE S == {i \in DOMAIN s : s[i].kind \in kinds}
           T == {i \in DOMAIN t : t[i].kind \in kinds}
           n == Len(t)
<1>1. /\ Len(s) \in Nat /\ DOMAIN s = 1 .. Len(s) /\ n \in Nat \ {0} /\ DOMAIN t = 1 .. n
      /\ n = Len(s) + 1
  BY Indexed
<1>2. T = IF t[n].kind \in kinds THEN S \cup {n} ELSE S
  <2>1. \A i : i \in 1 .. n <=> i \in 1 .. Len(s) \/ i = n
    BY <1>1
  <2> QED
    BY <1>1, <2>1
<1>3. Places(S) /\ (\A i \in S : i < n) /\ \A i \in S : t[i] = s[i]
  BY <1>1 DEF Places
<1> HIDE DEF S, T, n
<1>4. Agree(s, t, S)
  BY <1>3 DEF Agree
<1>5. Kept(t, S) = Kept(s, S)
  <2>1. Extends(S \cup {n}, S, n)
    BY <1>1, <1>3 DEF Extends
  <2> QED
    BY <1>3, <1>4, <2>1, KeptMore
<1>6. CASE t[n].kind \in kinds
  <2>1. Extends(T, S, n)
    BY <1>1, <1>2, <1>3, <1>6 DEF Extends
  <2>2. Kept(t, T) = Append(Kept(s, S), t[n])
    BY <1>3, <1>4, <2>1, KeptMore
  <2> QED
    BY <1>6, <2>2 DEF OfKind, S, T, n
<1>7. CASE t[n].kind \notin kinds
  <2>1. T = S
    BY <1>2, <1>7
  <2> QED
    BY <1>5, <1>7, <2>1 DEF OfKind, S, T, n
<1> QED
  BY <1>6, <1>7

LEMMA OfKindNone == ASSUME NEW kinds PROVE OfKind(<<>>, kinds) = <<>>
<1>1. {i \in DOMAIN <<>> : <<>>[i].kind \in kinds} = {}
  OBVIOUS
<1>2. Places({}) /\ Cardinality({}) = 0
  BY FS_EmptySet DEF Places
<1>3. IsSeq(Kept(<<>>, {})) /\ Len(Kept(<<>>, {})) = 0
  BY <1>2, KeptIsSeq
<1> QED
  BY <1>1, <1>3, Indexed DEF OfKind

LEMMA OfKindAppended ==
  ASSUME NEW s, IsSeq(s), NEW e, NEW kinds
  PROVE  OfKind(Append(s, e), kinds) = IF e.kind \in kinds THEN Append(OfKind(s, kinds), e)
                                       ELSE OfKind(s, kinds)
<1> DEFINE t == Append(s, e)
<1>1. IsSeq(t) /\ Len(t) = Len(s) + 1 /\ t[Len(t)] = e /\ \A i \in 1 .. Len(s) : t[i] = s[i]
  BY Appended
<1> HIDE DEF t
<1>2. OfKind(t, kinds) = IF t[Len(t)].kind \in kinds THEN Append(OfKind(s, kinds), t[Len(t)])
                         ELSE OfKind(s, kinds)
  BY <1>1, OfKindMore
<1> QED
  BY <1>1, <1>2 DEF t

LEMMA OfKindPrefix ==
  ASSUME NEW s, IsSeq(s), NEW k \in Nat, k < Len(s), NEW kinds
  PROVE  OfKind(SubSeq(s, 1, k + 1), kinds)
           = IF s[k + 1].kind \in kinds THEN Append(OfKind(SubSeq(s, 1, k), kinds), s[k + 1])
             ELSE OfKind(SubSeq(s, 1, k), kinds)
<1> DEFINE p == SubSeq(s, 1, k)
           q == SubSeq(s, 1, k + 1)
<1>1. /\ IsSeq(p) /\ IsSeq(q) /\ Len(q) = Len(p) + 1 /\ q[Len(q)] = s[k + 1]
      /\ \A i \in 1 .. Len(p) : q[i] = p[i]
  BY Further
<1> HIDE DEF p, q
<1>2. OfKind(q, kinds) = IF q[Len(q)].kind \in kinds THEN Append(OfKind(p, kinds), q[Len(q)])
                         ELSE OfKind(p, kinds)
  BY <1>1, OfKindMore
<1> QED
  BY <1>1, <1>2 DEF p, q

-----------------------------------------------------------------------------
(* inner is what is left of the items the JSON stream had.                 *)
Left ==
  LET items == call[1].items
  IN  /\ Items(items) /\ Items(inner) /\ Len(inner) <= Len(items)
      /\ \A i \in 1 .. Len(inner) : inner[i] = items[Len(items) - Len(inner) + i]

NoneCounted == [filtered |-> 0, success |-> 0, failure |-> 0]

Accounts ==
  /\ stack \in {"query", "layers"}
  /\ DOMAIN counted = DOMAIN NoneCounted /\ \A e \in DOMAIN counted : counted[e] \in Nat
  /\ IsSeq(delivered)
  /\ call = <<>> => inner = <<>> /\ delivered = <<>> /\ counted = NoneCounted
  /\ call # <<>> => Left
  /\ RowsAccounted

LEMMA EmptyIsSeq == IsSeq(<<>>)
  BY DEF IsSeq

LEMMA AccountsInit == RequestsInit => Accounts
  BY EmptyIsSeq DEF RequestsInit, Accounts, NoneCounted, RowsAccounted

LEMMA ExecuteAccounts == ASSUME Accounts, Built, Execute PROVE Accounts'
<1>1. /\ call = <<>> /\ delivered' = <<>> /\ counted' = NoneCounted /\ stack' = stack
      /\ call' # <<>> /\ call'[1].items = inner'
  BY DEF Execute, Accounts, RowsAccounted, NoneCounted
<1>2. Items(inner')
  BY ExecuteItems
<1>3. Len(inner') \in Nat
  BY <1>2, Indexed DEF Items
<1>4. Left'
  BY <1>1, <1>2, <1>3 DEF Left
<1>5. Consumed' = <<>>
  <2>1. Consumed' = SubSeq(inner', 1, Len(inner') - Len(inner'))
    BY <1>1 DEF Consumed
  <2>2. SubSeq(inner', 1, 0) \in Seq(Range(inner')) /\ Len(SubSeq(inner', 1, 0)) = 0
    BY <1>3, SubSeqProperties
  <2> QED
    BY <1>3, <2>1, <2>2, EmptySeq
<1>6. RowsAccounted'
  BY <1>1, <1>5, NumberOfNone DEF RowsAccounted, NoneCounted
<1> QED
  BY <1>1, <1>4, <1>6, EmptyIsSeq DEF Accounts, NoneCounted

(* A turn moves one item from what is left to what is consumed.            *)
Gone == Len(call[1].items) - Len(inner)

LEMMA TurnTakes ==
  ASSUME Left, PollTurn
  PROVE  /\ Left' /\ Head(inner).kind \in {"json", "error", "end"}
         /\ Gone \in Nat /\ Gone < Len(call[1].items) /\ Gone' = Gone + 1
         /\ Head(inner) = call[1].items[Gone + 1]
         /\ Consumed = SubSeq(call[1].items, 1, Gone)
         /\ Consumed' = SubSeq(call[1].items, 1, Gone + 1)
<1> DEFINE items == call[1].items
           k == Len(items) - Len(inner)
<1>1. /\ Items(items) /\ Items(inner) /\ Len(inner) <= Len(items)
      /\ \A i \in 1 .. Len(inner) : inner[i] = items[k + i]
      /\ inner # <<>> /\ inner' = Tail(inner) /\ call' = call
  BY DEF Left, PollTurn
<1>2. Consumed = SubSeq(items, 1, k) /\ Consumed' = SubSeq(items, 1, Len(items) - Len(inner'))
  BY <1>1 DEF Consumed
<1>3. /\ Left' <=> /\ Items(inner') /\ Len(inner') <= Len(items)
                   /\ \A i \in 1 .. Len(inner') : inner'[i] = items[Len(items) - Len(inner') + i]
  BY <1>1 DEF Left
<1> HIDE DEF items
<1>4. /\ Len(items) \in Nat /\ Len(inner) \in Nat /\ Len(inner) > 0
      /\ DOMAIN items = 1 .. Len(items) /\ DOMAIN inner = 1 .. Len(inner)
  BY <1>1, Indexed DEF Items
<1>5. inner' = SubSeq(inner, 2, Len(inner)) /\ Head(inner) = inner[1]
  BY <1>1, <1>4, HeadTailProperties DEF Items, IsSeq
<1>6. Items(inner')
  <2>1. 2 \in Nat \ {0} /\ Len(inner) \in 0 .. Len(inner)
    BY <1>4
  <2>2. Items(SubSeq(inner, 2, Len(inner)))
    BY <1>1, <2>1, ItemsCut
  <2> QED
    BY <1>5, <2>2
<1>7. /\ Len(inner') = Len(inner) - 1
      /\ \A i \in 1 .. Len(inner') : inner'[i] = inner[i + 1]
  BY <1>1, <1>4, HeadTailProperties DEF Items, IsSeq
<1>8. Left'
  <2>1. ASSUME NEW i \in 1 .. Len(inner')
        PROVE  inner'[i] = items[Len(items) - Len(inner') + i]
    <3>1. i + 1 \in 1 .. Len(inner) /\ k + (i + 1) = Len(items) - Len(inner') + i
      BY <1>4, <1>7
    <3> QED
      BY <1>1, <1>7, <3>1
  <2> QED
    BY <1>1, <1>3, <1>4, <1>6, <1>7, <2>1
<1>9. k \in Nat /\ k < Len(items) /\ Len(items) - Len(inner') = k + 1 /\ Head(inner) = items[k + 1]
  BY <1>1, <1>4, <1>5, <1>7
<1>10. Consumed = SubSeq(items, 1, k) /\ Consumed' = SubSeq(items, 1, k + 1)
  BY <1>2, <1>9
<1>11. Gone = k /\ Gone' = Len(items) - Len(inner')
  BY <1>1 DEF Gone, items
<1>12. Head(inner).kind \in {"json", "error", "end"}
  BY <1>1, <1>4, <1>5 DEF Items
<1> QED
  BY <1>8, <1>9, <1>10, <1>11, <1>12 DEF items

LEMMA TurnMoves ==
  ASSUME Left, PollTurn, NEW kind
  PROVE  /\ Left' /\ Head(inner).kind \in {"json", "error", "end"}
         /\ Number(Consumed, kind) \in Nat
         /\ Number(Consumed', kind) = Number(Consumed, kind) + Unit(Head(inner), kind)
<1>1. Items(call[1].items)
  BY DEF Left
<1> QED
  BY <1>1, TurnTakes, NumberOfPrefix

LEMMA TurnAccounts == ASSUME Accounts, PollTurn PROVE Accounts'
<1> DEFINE item == Head(inner)
<1>1. call # <<>> /\ Left /\ call' = call /\ stack' = stack
  BY DEF PollTurn, Accounts
<1>2. /\ Left' /\ item.kind \in {"json", "error", "end"}
      /\ \A kind : /\ Number(Consumed, kind) \in Nat
                   /\ Number(Consumed', kind) = Number(Consumed, kind) + Unit(item, kind)
  BY <1>1, TurnMoves
<1>3. \A e, kind : /\ IsSeq(Append(delivered, e)) /\ Number(delivered, kind) \in Nat
                   /\ Number(Append(delivered, e), kind)
                        = Number(delivered, kind) + Unit(e, kind)
  BY NumberOfAppended DEF Accounts
<1>4. IF item.kind = "json"
      THEN delivered' = delivered \o Yielded(item.row) /\ Count(Outcome(item.row))
      ELSE delivered' = Append(delivered, item) /\ counted' = counted
  BY DEF PollTurn
<1>5. /\ stack \in {"query", "layers"} /\ DOMAIN counted = {"filtered", "success", "failure"}
      /\ counted.filtered \in Nat /\ counted.success \in Nat /\ counted.failure \in Nat
      /\ stack = "layers" => /\ counted.success = Number(delivered, "json")
                             /\ counted.failure = Number(delivered, "misfit")
                             /\ counted.filtered + counted.success + counted.failure
                                  = Number(Consumed, "json")
  BY <1>1 DEF Accounts, RowsAccounted, NoneCounted
<1>6. \A e : delivered \o <<e>> = Append(delivered, e)
  <2>1. ASSUME NEW e PROVE delivered \o <<e>> = Append(delivered, e)
    <3>1. delivered \in Seq(Range(delivered) \cup {e}) /\ e \in Range(delivered) \cup {e}
      BY SeqMonotonic DEF Accounts, IsSeq
    <3> QED
      BY <3>1, AppendIsConcat
  <2> QED
    BY <2>1
<1>7. delivered \o <<>> = delivered
  BY ConcatEmptySeq DEF Accounts, IsSeq
<1> HIDE DEF item
<1> DEFINE After(n, s, f, c) ==
             /\ IsSeq(delivered')
             /\ Number(delivered', "json") = Number(delivered, "json") + s
             /\ Number(delivered', "misfit") = Number(delivered, "misfit") + f
             /\ Number(Consumed', "json") = Number(Consumed, "json") + c
<1>8. CASE item.kind # "json"
  <2>1. delivered' = Append(delivered, item) /\ counted' = counted
    BY <1>4, <1>8
  <2>2. After(0, 0, 0, 0)
    BY <1>2, <1>3, <1>8, <2>1 DEF Unit
  <2> QED
    BY <1>1, <1>2, <1>3, <1>5, <2>1, <2>2 DEF Accounts, RowsAccounted, NoneCounted
<1>9. ASSUME item.kind = "json" PROVE Accounts'
  <2> DEFINE r == item.row
  <2>1. delivered' = delivered \o Yielded(r) /\ Count(Outcome(r))
    BY <1>4, <1>9
  <2>2. Outcome(r) \in {"filtered", "success", "failure"}
    BY DEF Outcome
  <2>3. After(0, IF Outcome(r) = "success" THEN 1 ELSE 0,
              IF Outcome(r) = "failure" THEN 1 ELSE 0, 1)
    <3>1. CASE ~Passes(r)
      BY <1>2, <1>3, <1>7, <1>9, <2>1, <3>1 DEF Outcome, Yielded, Unit, Accounts
    <3>2. CASE Passes(r)
      <4>1. delivered' = Append(delivered, Deserialized(r))
        BY <1>6, <2>1, <3>2 DEF Yielded
      <4> QED
        BY <1>2, <1>3, <1>9, <3>2, <4>1 DEF Outcome, Deserialized, RowItem, Unit
    <3> QED
      BY <3>1, <3>2
  <2> DEFINE o == Outcome(r)
  <2>4. counted' = IF stack = "layers" THEN [counted EXCEPT ![o] = @ + 1] ELSE counted
    BY <2>1 DEF Count
  <2> HIDE DEF o
  <2>5. /\ DOMAIN counted' = DOMAIN counted
        /\ \A e \in DOMAIN counted : counted'[e] \in Nat
    BY <1>5, <2>2, <2>4 DEF o
  <2>6. RowsAccounted'
    <3>1. CASE stack = "query"
      BY <1>1, <1>5, <2>4, <3>1 DEF RowsAccounted, NoneCounted
    <3>2. CASE stack = "layers"
      BY <1>1, <1>2, <1>3, <1>5, <2>2, <2>3, <2>4, <3>2 DEF RowsAccounted, o
    <3> QED
      BY <1>5, <3>1, <3>2
  <2> QED
    BY <1>1, <1>2, <1>5, <2>3, <2>5, <2>6 DEF Accounts, NoneCounted
<1> QED
  BY <1>8, <1>9

LEMMA StepAccounts == ASSUME Accounts, Built, [RequestsNext]_requestVars PROVE Accounts'
<1>1. CASE Execute
  BY <1>1, ExecuteAccounts
<1>2. CASE PollTurn
  BY <1>2, TurnAccounts
<1>3. CASE UNCHANGED <<stack, call, inner, delivered, counted>>
  BY <1>3 DEF Accounts, Left, RowsAccounted, Consumed
<1> QED
  BY <1>1, <1>2, <1>3
  DEF RequestsNext, WhereSqlText, WhereRust, SelectProjection, ChunkSize, MaxMemory, Adaptive,
      OrderBy, Limit, Offset, MemorySoftLimits, Set, requestVars
-----------------------------------------------------------------------------
(* What the caller has got.  The rows it may get are those of the answer   *)
(* that the predicate lets pass, each as a T or as its error; up to the    *)
(* place n of the answer there are Due(n) of them.  It has got some of     *)
(* those, and all of them before the first error; the errors of the        *)
(* stream; and the end only when there is no more.                         *)
Asked == Answer(BuildSql)
Wished == {i \in DOMAIN Asked : Passes(Asked[i])}
Typed(s) == [i \in DOMAIN s |-> Deserialized(s[i])]
Whole == Typed(Kept(Asked, Wished))
Due(n) == Cardinality(UpTo(Wished, n))

Got(n) ==
  \E places \in SUBSET (1 .. Due(n)) :
    /\ Rows(delivered) = Kept(Whole, places)
    /\ Errors(Consumed) = <<>> => places = 1 .. Due(n)

Delivers(c) ==
  /\ Got(c[Gone])
  /\ Errors(delivered) = Errors(Consumed)
  /\ \A i \in DOMAIN delivered :
       delivered[i].kind = "end" => Gone = Len(call[1].items) /\ Ends(call[1].items)

Right ==
  call # <<>> => /\ IsSeq(Asked)
                 /\ \E c : LaysOut(call[1].items, Asked, c) /\ Delivers(c)

LEMMA TypedIsSeq ==
  ASSUME NEW s, IsSeq(s)
  PROVE  /\ IsSeq(Typed(s)) /\ Len(Typed(s)) = Len(s)
         /\ \A i \in 1 .. Len(s) : Typed(s)[i] = Deserialized(s[i])
<1>1. Len(s) \in Nat /\ DOMAIN s = 1 .. Len(s)
  BY Indexed
<1>2. Typed(s) = [i \in 1 .. Len(s) |-> Deserialized(s[i])]
  BY <1>1 DEF Typed
<1>3. Typed(s) = [i \in 1 .. Len(s) |-> Typed(s)[i]]
  BY <1>2
<1> QED
  BY <1>1, <1>2, <1>3, ByPlace

LEMMA SameSeq ==
  ASSUME NEW s, NEW t, IsSeq(s), IsSeq(t), Len(s) = Len(t),
         \A i \in 1 .. Len(s) : s[i] = t[i]
  PROVE  s = t
<1>1. s = [i \in 1 .. Len(s) |-> s[i]] /\ t = [i \in 1 .. Len(t) |-> t[i]]
  BY LenProperties DEF IsSeq
<1> QED
  BY <1>1

(* What is kept of the first places is the first part.                     *)
LEMMA KeptFirst ==
  ASSUME NEW s, IsSeq(s), NEW n \in 0 .. Len(s)
  PROVE  Kept(s, 1 .. n) = SubSeq(s, 1, n) /\ Len(SubSeq(s, 1, n)) = n
<1>1. Len(s) \in Nat /\ DOMAIN s = 1 .. Len(s) /\ n \in Nat
  BY Indexed
<1>2. Places(1 .. n) /\ Cardinality(1 .. n) = n
  <2>1. 1 .. n \subseteq 1 .. n
    OBVIOUS
  <2>2. Places(1 .. n)
    BY <1>1, <2>1 DEF Places
  <2> QED
    BY <1>1, <2>2, NoneMissing, PlacesFinite, FS_Interval
<1>3. \A k \in 1 .. n : k \in 1 .. Len(s) /\ s[k] \in Range(s)
  BY <1>1 DEF Range
<1>4. /\ SubSeq(s, 1, n) \in Seq(Range(s)) /\ Len(SubSeq(s, 1, n)) = n
      /\ \A k \in 1 .. n : SubSeq(s, 1, n)[k] = s[k]
  BY <1>1, <1>3, SubSeqProperties
<1>5. ASSUME NEW k \in 1 .. n PROVE Place(1 .. n, k) = k
  <2>1. k \in Nat \ {0} /\ 1 .. k \subseteq 1 .. n
    BY <1>1
  <2> QED
    BY <1>2, <2>1, NoneMissing DEF PlaceAt
<1>6. /\ IsSeq(Kept(s, 1 .. n)) /\ Len(Kept(s, 1 .. n)) = n
      /\ \A k \in 1 .. n : Kept(s, 1 .. n)[k] = s[Place(1 .. n, k)]
  BY <1>2, KeptIsSeq
<1>7. IsSeq(SubSeq(s, 1, n))
  BY <1>4, AnySeq
<1>8. \A k \in 1 .. n : Kept(s, 1 .. n)[k] = SubSeq(s, 1, n)[k]
  BY <1>4, <1>5, <1>6
<1> QED
  BY <1>4, <1>6, <1>7, <1>8, SameSeq

LEMMA KeptNone == ASSUME NEW s PROVE Kept(s, {}) = <<>>
<1>1. Places({}) /\ Cardinality({}) = 0
  BY FS_EmptySet DEF Places
<1>2. IsSeq(Kept(s, {})) /\ Len(Kept(s, {})) = 0
  BY <1>1, KeptIsSeq
<1> QED
  BY <1>2, Indexed

LEMMA FirstPart ==
  ASSUME NEW s, IsSeq(s), NEW k \in 0 .. Len(s)
  PROVE  /\ IsSeq(SubSeq(s, 1, k)) /\ Len(SubSeq(s, 1, k)) = k
         /\ \A i \in 1 .. k : SubSeq(s, 1, k)[i] = s[i]
<1>1. Len(s) \in Nat /\ DOMAIN s = 1 .. Len(s)
  BY Indexed
<1>2. \A i \in 1 .. k : s[i] \in Range(s)
  BY <1>1 DEF Range
<1>3. /\ SubSeq(s, 1, k) \in Seq(Range(s)) /\ Len(SubSeq(s, 1, k)) = k
      /\ \A i \in 1 .. k : SubSeq(s, 1, k)[i] = s[i]
  BY <1>1, <1>2, SubSeqProperties
<1> QED
  BY <1>3, AnySeq

LEMMA OfKindIsSeq == ASSUME NEW s, IsSeq(s), NEW kinds PROVE IsSeq(OfKind(s, kinds))
<1> DEFINE S == {i \in DOMAIN s : s[i].kind \in kinds}
<1>1. Places(S)
  BY Indexed DEF Places
<1>2. OfKind(s, kinds) = Kept(s, S)
  BY DEF OfKind
<1> HIDE DEF S
<1> QED
  BY <1>1, <1>2, KeptIsSeq

(* Nothing of some kinds means no item is of one.                          *)
LEMMA OfKindEmpty ==
  ASSUME NEW s, IsSeq(s), NEW kinds, OfKind(s, kinds) = <<>>
  PROVE  \A i \in 1 .. Len(s) : s[i].kind \notin kinds
<1> DEFINE S == {i \in DOMAIN s : s[i].kind \in kinds}
<1>1. Len(s) \in Nat /\ DOMAIN s = 1 .. Len(s)
  BY Indexed
<1>2. Places(S)
  BY <1>1 DEF Places
<1>3. Kept(s, S) = <<>>
  BY DEF OfKind
<1> HIDE DEF S
<1>4. IsSeq(Kept(s, S)) /\ Len(Kept(s, S)) = Cardinality(S)
  BY <1>2, KeptIsSeq
<1>5. Cardinality(S) = 0
  BY <1>3, <1>4, Indexed
<1>6. S = {}
  <2>1. {} \in SUBSET S /\ Cardinality({}) = 0
    BY FS_EmptySet
  <2> QED
    BY <1>2, <1>5, <2>1, PlacesFinite
<1> QED
  BY <1>1, <1>6 DEF S

LEMMA WishedPlaces ==
  ASSUME IsSeq(Asked)
  PROVE  /\ Places(Wished) /\ \A n \in Nat : Due(n) \in 0 .. Cardinality(Wished)
         /\ UpTo(Wished, 0) = {} /\ Due(0) = 0
         /\ UpTo(Wished, Len(Asked)) = Wished /\ Due(Len(Asked)) = Cardinality(Wished)
         /\ IsSeq(Whole) /\ Len(Whole) = Cardinality(Wished) /\ Cardinality(Wished) \in Nat
<1>1. Len(Asked) \in Nat /\ DOMAIN Asked = 1 .. Len(Asked)
  BY Indexed
<1>2. Wished \subseteq 1 .. Len(Asked) /\ Places(Wished)
  BY <1>1 DEF Wished, Places
<1>3. UpTo(Wished, 0) = {} /\ UpTo(Wished, Len(Asked)) = Wished
  <2>1. \A i \in Wished : ~(i <= 0) /\ i <= Len(Asked)
    BY <1>1, <1>2
  <2> QED
    BY <2>1 DEF UpTo
<1>4. \A n \in Nat : Due(n) \in 0 .. Cardinality(Wished)
  BY <1>2, FirstPlaces DEF Due
<1>5. IsSeq(Whole) /\ Len(Whole) = Cardinality(Wished)
  BY <1>2, KeptIsSeq, TypedIsSeq DEF Whole
<1> QED
  BY <1>2, <1>3, <1>4, <1>5, PlacesFinite, FS_EmptySet DEF Due

(* The row at place n of the answer, if it passes, is the next behind the  *)
(* rows due before it.                                                     *)
LEMMA WishedNext ==
  ASSUME IsSeq(Asked), NEW n \in DOMAIN Asked, NEW a \in Nat, a < n
  PROVE  /\ Passes(Asked[n]) => /\ Due(a) < Due(n) /\ Due(n) \in Nat \ {0}
                                /\ Whole[Due(n)] = Deserialized(Asked[n])
                                /\ n = a + 1 => Due(n) = Due(a) + 1
         /\ Due(a) <= Due(n) /\ (n = a + 1 /\ ~Passes(Asked[n]) => Due(n) = Due(a))
<1>1. /\ Places(Wished) /\ Cardinality(Wished) \in Nat /\ n \in Nat \ {0}
      /\ \A i \in Wished : i \in Nat
      /\ Due(a) \in Nat /\ Due(n) \in Nat
  <2>1. n \in Nat \ {0}
    BY Indexed
  <2> QED
    BY <2>1, WishedPlaces, PlacesFinite
<1>2. ASSUME Passes(Asked[n])
      PROVE  /\ Due(a) < Due(n) /\ Due(n) \in 1 .. Cardinality(Wished)
             /\ Place(Wished, Due(n)) = n
             /\ Due(n) = Due(n - 1) + 1
  <2>1. n \in Wished
    BY <1>2 DEF Wished
  <2> QED
    BY <1>1, <2>1, PlaceOf DEF Due
<1>3. ASSUME Passes(Asked[n]) PROVE Whole[Due(n)] = Deserialized(Asked[n])
  <2> DEFINE all == Kept(Asked, Wished)
             k == Due(n)
  <2>1. k \in 1 .. Cardinality(Wished) /\ Place(Wished, k) = n
    BY <1>2, <1>3
  <2> HIDE DEF k
  <2>2. IsSeq(all) /\ Len(all) = Cardinality(Wished) /\ all[k] = Asked[n]
    BY <1>1, <2>1, KeptIsSeq
  <2> HIDE DEF all
  <2>3. Typed(all)[k] = Deserialized(all[k])
    BY <2>1, <2>2, TypedIsSeq
  <2> QED
    BY <2>2, <2>3 DEF Whole, all, k
<1>4. UpTo(Wished, a) \subseteq UpTo(Wished, n)
  <2>1. \A i \in Wished : i <= a => i <= n
    BY <1>1
  <2> QED
    BY <2>1 DEF UpTo
<1>5. Due(a) <= Due(n)
  <2>1. Places(UpTo(Wished, n))
    BY <1>1, FirstPlaces
  <2> QED
    BY <1>4, <2>1, PlacesFinite DEF Due
<1>6. ASSUME n = a + 1, ~Passes(Asked[n]) PROVE Due(n) = Due(a)
  <2>1. n \notin Wished
    BY <1>6 DEF Wished
  <2>2. \A i \in Wished : i <= n <=> i <= a
    BY <1>1, <1>6, <2>1
  <2> QED
    BY <2>2 DEF Due, UpTo
<1>7. n = a + 1 => n - 1 = a
  BY <1>1
<1> QED
  BY <1>1, <1>2, <1>3, <1>5, <1>6, <1>7

LEMMA ExecuteRight == ASSUME Accounts, Built, Execute PROVE Right'
<1>1. /\ call = <<>> /\ delivered' = <<>> /\ builder' = builder
      /\ call' # <<>> /\ call'[1].items = inner'
  BY DEF Execute, Accounts
<1>2. IsSeq(Asked) /\ Asked' = Asked
  BY <1>1, ExecuteLays DEF Asked, BuildSql
<1>3. PICK c : LaysOut(inner', Asked, c)
  BY ExecuteLays DEF Asked
<1>4. IsSeq(inner') /\ Len(inner') \in Nat
  BY ExecuteItems, Indexed DEF Items
<1>5. Gone' = 0 /\ c[0] = 0
  BY <1>1, <1>3, <1>4 DEF Gone, LaysOut
<1>6. Consumed' = <<>>
  <2>1. Consumed' = SubSeq(inner', 1, 0)
    BY <1>1, <1>4 DEF Consumed
  <2>2. SubSeq(inner', 1, 0) \in Seq(Range(inner')) /\ Len(SubSeq(inner', 1, 0)) = 0
    BY <1>4, SubSeqProperties
  <2> QED
    BY <2>1, <2>2, EmptySeq
<1>7. \A i \in Wished' : i \in Nat \ {0}
  BY <1>2, Indexed DEF Wished
<1>8. Due(0)' = 0
  <2>1. UpTo(Wished', 0) = {}
    BY <1>7 DEF UpTo
  <2> QED
    BY <2>1, FS_EmptySet DEF Due
<1>9. Delivers(c)'
  <2>1. Rows(delivered') = <<>> /\ Errors(delivered') = <<>> /\ Errors(Consumed') = <<>>
    BY <1>1, <1>6, OfKindNone DEF Rows, Errors
  <2>2. DOMAIN delivered' = {}
    BY <1>1
  <2>3. Kept(Whole', 1 .. 0) = <<>>
    BY KeptNone, \A i \in 1 .. 0 : FALSE
  <2> QED
    BY <1>5, <1>8, <2>1, <2>2, <2>3 DEF Delivers, Got
<1> QED
  BY <1>1, <1>2, <1>3, <1>9 DEF Right

LEMMA TurnRight == ASSUME Accounts, Right, PollTurn PROVE Right'
<1> DEFINE items == call[1].items
           item == Head(inner)
           k == Gone
<1>1. call # <<>> /\ Left /\ call' = call /\ builder' = builder
  BY DEF PollTurn, Accounts
<1>2. /\ k \in Nat /\ k < Len(items) /\ Gone' = k + 1 /\ item = items[k + 1]
      /\ Consumed = SubSeq(items, 1, k) /\ Consumed' = SubSeq(items, 1, k + 1)
  BY <1>1, TurnTakes
<1>3. /\ Asked' = Asked /\ Wished' = Wished /\ Whole' = Whole /\ IsSeq(Asked)
      /\ \A n : Due(n)' = Due(n)
  <2>1. Asked' = Asked /\ Wished' = Wished /\ IsSeq(Asked)
    BY <1>1 DEF Asked, Wished, BuildSql, Passes, Right
  <2> QED
    BY <2>1 DEF Whole, Due
<1>4. PICK c : LaysOut(items, Asked, c) /\ Delivers(c)
  BY <1>1 DEF Right
<1>5. /\ IsSeq(items) /\ Len(items) \in Nat /\ IsSeq(delivered) /\ Len(delivered) \in Nat
      /\ DOMAIN delivered = 1 .. Len(delivered)
  BY <1>1, Indexed DEF Left, Items, Accounts
<1>6. /\ LaidAt(items, Asked, c, k + 1) /\ (k + 1) - 1 = k
      /\ c[k] \in Nat /\ c[k + 1] \in 0 .. Len(Asked)
  <2> HIDE DEF items, k
  <2>1. /\ k + 1 \in 1 .. Len(items) /\ k \in 0 .. Len(items) /\ k + 1 \in 0 .. Len(items)
        /\ (k + 1) - 1 = k
    BY <1>2, <1>5
  <2>2. /\ c \in [0 .. Len(items) -> 0 .. Len(Asked)]
        /\ \A m \in 1 .. Len(items) : LaidAt(items, Asked, c, m)
    BY <1>4 DEF LaysOut
  <2>3. c[k] \in 0 .. Len(Asked) /\ c[k + 1] \in 0 .. Len(Asked) /\ LaidAt(items, Asked, c, k + 1)
    BY <2>1, <2>2
  <2>4. Len(Asked) \in Nat
    BY <1>3, Indexed
  <2> QED
    BY <2>1, <2>3, <2>4
<1> DEFINE before == Due(c[k])
           after == Due(c[k + 1])
<1>7. /\ \E places \in SUBSET (1 .. before) :
            /\ Rows(delivered) = Kept(Whole, places)
            /\ Errors(Consumed) = <<>> => places = 1 .. before
      /\ Errors(delivered) = Errors(Consumed)
      /\ \A i \in DOMAIN delivered : delivered[i].kind # "end"
  BY <1>2, <1>4 DEF Delivers, Got
<1>8. /\ \E places \in SUBSET (1 .. after) :
            /\ Rows(delivered') = Kept(Whole, places)
            /\ Errors(Consumed') = <<>> => places = 1 .. after
      /\ Errors(delivered') = Errors(Consumed')
      /\ \A i \in DOMAIN delivered' :
           delivered'[i].kind = "end" => k + 1 = Len(items) /\ Ends(items)
      => Right'
  <2>1. call'[1].items = items
    BY <1>1
  <2> HIDE DEF items, k
  <2> QED
    BY <1>1, <1>2, <1>3, <1>4, <2>1 DEF Right, Delivers, Got, Ends
<1>9. IF item.kind = "json" THEN delivered' = delivered \o Yielded(item.row)
      ELSE delivered' = Append(delivered, item)
  BY DEF PollTurn
<1>10. Errors(Consumed') = IF item.kind = "error" THEN Append(Errors(Consumed), item)
                           ELSE Errors(Consumed)
  BY <1>2, <1>5, OfKindPrefix DEF Errors
<1>11. \A e : /\ IsSeq(Append(delivered, e)) /\ delivered \o <<e>> = Append(delivered, e)
              /\ Rows(Append(delivered, e)) = IF e.kind \in {"json", "misfit"}
                                              THEN Append(Rows(delivered), e) ELSE Rows(delivered)
              /\ Errors(Append(delivered, e)) = IF e.kind = "error"
                                                THEN Append(Errors(delivered), e)
                                                ELSE Errors(delivered)
              /\ \A i \in DOMAIN Append(delivered, e) :
                   Append(delivered, e)[i].kind = "end" => e.kind = "end"
  <2>1. ASSUME NEW e PROVE delivered \o <<e>> = Append(delivered, e)
    <3>1. delivered \in Seq(Range(delivered) \cup {e}) /\ e \in Range(delivered) \cup {e}
      BY <1>5, SeqMonotonic DEF IsSeq
    <3> QED
      BY <3>1, AppendIsConcat
  <2>2. ASSUME NEW e, NEW i \in DOMAIN Append(delivered, e)
        PROVE  Append(delivered, e)[i].kind = "end" => e.kind = "end"
    <3> DEFINE t == Append(delivered, e)
    <3>1. /\ IsSeq(t) /\ Len(t) = Len(delivered) + 1 /\ t[Len(t)] = e
          /\ \A j \in 1 .. Len(delivered) : t[j] = delivered[j]
      BY <1>5, Appended
    <3>2. i \in 1 .. Len(t)
      BY <3>1, Indexed
    <3> HIDE DEF t
    <3>3. t[i].kind = "end" => e.kind = "end"
      BY <1>5, <1>7, <3>1, <3>2
    <3> QED
      BY <3>3 DEF t
  <2>3. ASSUME NEW e
        PROVE  /\ IsSeq(Append(delivered, e))
               /\ Rows(Append(delivered, e)) = IF e.kind \in {"json", "misfit"}
                                               THEN Append(Rows(delivered), e) ELSE Rows(delivered)
               /\ Errors(Append(delivered, e)) = IF e.kind = "error"
                                                 THEN Append(Errors(delivered), e)
                                                 ELSE Errors(delivered)
    BY <1>5, Appended, OfKindAppended DEF Rows, Errors
  <2> QED
    BY <2>1, <2>2, <2>3
<1>12. delivered \o <<>> = delivered
  BY <1>5, ConcatEmptySeq DEF IsSeq
<1>13. ASSUME Errors(Consumed) = <<>> PROVE Unbroken(items, k)
  <2>1. k \in 0 .. Len(items)
    BY <1>2, <1>5
  <2> HIDE DEF items, k
  <2>2. IsSeq(Consumed) /\ Len(Consumed) = k /\ \A i \in 1 .. k : Consumed[i] = items[i]
    BY <1>2, <1>5, <2>1, FirstPart
  <2>3. \A i \in 1 .. k : Consumed[i].kind \notin {"error"}
    BY <1>13, <2>2, OfKindEmpty DEF Errors
  <2> QED
    BY <2>2, <2>3 DEF Unbroken
<1>14. item.kind = "error" => Errors(Consumed') # <<>>
  <2>1. IsSeq(Consumed)
    <3>1. k \in 0 .. Len(items)
      BY <1>2, <1>5
    <3> HIDE DEF items, k
    <3> QED
      BY <1>2, <1>5, <3>1, FirstPart
  <2>2. IsSeq(Errors(Consumed))
    BY <2>1, OfKindIsSeq DEF Errors
  <2>3. IsSeq(Append(Errors(Consumed), item))
        /\ Len(Append(Errors(Consumed), item)) = Len(Errors(Consumed)) + 1
    BY <2>2, Appended
  <2>4. Append(Errors(Consumed), item) # <<>>
    BY <2>2, <2>3, Indexed
  <2> QED
    BY <1>10, <2>4
<1>15. /\ before \in Nat /\ after \in Nat /\ c[k + 1] \in Nat
       /\ c[k] < c[k + 1] => c[k + 1] \in DOMAIN Asked
  <2>1. Len(Asked) \in Nat /\ DOMAIN Asked = 1 .. Len(Asked)
    BY <1>3, Indexed
  <2>2. c[k + 1] \in Nat /\ (c[k] < c[k + 1] => c[k + 1] \in 1 .. Len(Asked))
    BY <1>6, <2>1
  <2>3. \A n \in Nat : Due(n) \in Nat
    BY <1>3, WishedPlaces
  <2> QED
    BY <1>6, <2>1, <2>2, <2>3
<1> HIDE DEF item, items, k
<1>16. CASE item.kind # "json"
  <2>1. /\ delivered' = Append(delivered, item) /\ item.kind \in {"error", "end"}
        /\ c[k] <= c[k + 1]
        /\ item.kind = "end" => c[k + 1] = c[k] /\ k + 1 = Len(items) /\ Ends(items)
    <3>1. delivered' = Append(delivered, item)
      BY <1>9, <1>16
    <3>2. /\ item.kind \in {"json", "error", "end"}
          /\ item.kind = "error" => c[k] <= c[k + 1]
          /\ item.kind = "end" => c[k + 1] = c[k] /\ k + 1 = Len(items)
      BY <1>2, <1>6 DEF LaidAt
    <3>3. k + 1 = Len(items) /\ item.kind = "end" => Ends(items)
      BY <1>2, <1>5 DEF Ends
    <3> QED
      BY <1>6, <1>15, <1>16, <3>1, <3>2, <3>3
  <2>2. before <= after
    <3>1. CASE c[k] < c[k + 1]
      BY <1>3, <1>6, <1>15, <3>1, WishedNext
    <3>2. CASE c[k] = c[k + 1]
      BY <1>15, <3>2
    <3> QED
      BY <1>6, <1>15, <2>1, <3>1, <3>2
  <2>3. item.kind = "end" => after = before
    BY <2>1
  <2> HIDE DEF before, after
  <2>4. PICK places \in SUBSET (1 .. before) :
        /\ Rows(delivered) = Kept(Whole, places)
        /\ Errors(Consumed) = <<>> => places = 1 .. before
    BY <1>7
  <2>5. places \in SUBSET (1 .. after)
    BY <1>15, <2>2, <2>4
  <2>6. Errors(Consumed') = <<>> => places = 1 .. after
    BY <1>10, <1>14, <2>1, <2>3, <2>4
  <2>7. Rows(delivered') = Rows(delivered) /\ Errors(delivered') = Errors(Consumed')
    BY <1>7, <1>10, <1>11, <2>1
  <2>8. \A i \in DOMAIN delivered' :
          delivered'[i].kind = "end" => k + 1 = Len(items) /\ Ends(items)
    BY <1>11, <2>1
  <2> QED
    BY <1>8, <2>4, <2>5, <2>6, <2>7, <2>8
<1>17. ASSUME item.kind = "json" PROVE Right'
  <2> DEFINE n == c[k + 1]
             r == Asked[n]
  <2>1. c[k] < n /\ item = RowItem(r) /\ (Unbroken(items, k) => n = c[k] + 1)
    BY <1>2, <1>6, <1>17 DEF LaidAt
  <2>2. item.row = r /\ delivered' = delivered \o Yielded(r)
    BY <1>9, <1>17, <2>1 DEF RowItem
  <2>3. n \in DOMAIN Asked
    BY <1>15, <2>1
  <2>4. Deserialized(r).kind \in {"json", "misfit"}
    BY DEF Deserialized, RowItem
  <2>5. Errors(Consumed') = Errors(Consumed)
    BY <1>10, <1>17
  <2>6. PICK places \in SUBSET (1 .. before) :
        /\ Rows(delivered) = Kept(Whole, places)
        /\ Errors(Consumed) = <<>> => places = 1 .. before
    BY <1>7
  <2>7. Errors(Consumed) = <<>> => n = c[k] + 1
    BY <1>13, <2>1
  <2>8. /\ Passes(r) => /\ before < after /\ after \in Nat \ {0} /\ Whole[after] = Deserialized(r)
                        /\ n = c[k] + 1 => after = before + 1
        /\ before <= after /\ (n = c[k] + 1 /\ ~Passes(r) => after = before)
    BY <1>3, <1>6, <2>1, <2>3, WishedNext
  <2> HIDE DEF n, r, before, after
  <2>9. CASE Passes(r)
    <3> DEFINE more == places \cup {after}
    <3>1. Extends(more, places, after) /\ Places(places) /\ Agree(Whole, Whole, places)
      <4>1. \A i \in places : i < after
        BY <1>15, <2>6, <2>8, <2>9
      <4> QED
        BY <1>15, <2>6, <2>8, <2>9, <4>1 DEF Extends, Places, Agree
    <3>2. more \in SUBSET (1 .. after)
      BY <1>15, <2>6, <2>8, <2>9
    <3>3. Errors(Consumed') = <<>> => more = 1 .. after
      <4>1. \A i : i \in 1 .. before + 1 <=> i \in 1 .. before \/ i = before + 1
        BY <1>15
      <4> QED
        BY <2>5, <2>6, <2>7, <2>8, <2>9, <4>1
    <3> HIDE DEF more
    <3>4. Kept(Whole, more) = Append(Kept(Whole, places), Whole[after])
      BY <3>1, KeptMore
    <3>5. delivered' = Append(delivered, Deserialized(r))
      BY <1>11, <2>2, <2>9 DEF Yielded
    <3>6. Rows(delivered') = Append(Rows(delivered), Deserialized(r))
      BY <1>11, <2>4, <3>5
    <3>7. Errors(delivered') = Errors(delivered)
      BY <1>11, <2>4, <3>5
    <3>8. \A i \in DOMAIN delivered' : delivered'[i].kind # "end"
      BY <1>11, <2>4, <3>5
    <3> QED
      BY <1>7, <1>8, <2>5, <2>6, <2>8, <2>9, <3>2, <3>3, <3>4, <3>6, <3>7, <3>8
  <2>10. CASE ~Passes(r)
    <3>1. delivered' = delivered
      BY <1>12, <2>2, <2>10 DEF Yielded
    <3>2. places \in SUBSET (1 .. after)
      BY <1>15, <2>6, <2>8
    <3>3. Errors(Consumed') = <<>> => places = 1 .. after
      BY <2>5, <2>6, <2>7, <2>8, <2>10
    <3> QED
      BY <1>7, <1>8, <2>5, <2>6, <3>1, <3>2, <3>3
  <2> QED
    BY <2>9, <2>10
<1> QED
  BY <1>16, <1>17

LEMMA StepRight == ASSUME Right, Accounts, Built, [RequestsNext]_requestVars PROVE Right'
<1>1. CASE Execute
  BY <1>1, ExecuteRight
<1>2. CASE PollTurn
  BY <1>2, TurnRight
<1>3. CASE Building /\ UNCHANGED call
  BY <1>3 DEF Right, Building
<1>4. CASE UNCHANGED requestVars
  <2>1. /\ call' = call /\ delivered' = delivered /\ Asked' = Asked /\ Wished' = Wished
        /\ Consumed' = Consumed /\ Gone' = Gone
    BY <1>4 DEF Asked, Wished, BuildSql, Passes, Consumed, Gone, requestVars
  <2>2. Whole' = Whole /\ \A n : Due(n)' = Due(n)
    BY <2>1 DEF Whole, Due
  <2>3. \A n : Got(n)' <=> Got(n)
    BY <2>1, <2>2 DEF Got
  <2>4. \A c : Delivers(c)' <=> Delivers(c)
    BY <2>1, <2>3 DEF Delivers
  <2> QED
    BY <2>1, <2>4 DEF Right
<1> QED
  BY <1>1, <1>2, <1>3, <1>4
  DEF RequestsNext, WhereSqlText, WhereRust, SelectProjection, ChunkSize, MaxMemory, Adaptive,
      OrderBy, Limit, Offset, MemorySoftLimits, Set

(* Joined by AND, predicates that are unambiguous together mean what each  *)
(* of them does.                                                           *)
LEMMA WantedIs ==
  ASSUME Built, Unambiguous PROVE Wanted = Whole
<1> DEFINE all == InOrder(builder.order)
           ps == builder.predicates
           Means(r) == \A i \in DOMAIN ps : \E j \in DOMAIN ps[i] : r \in ps[i][j]
           rows == Slice(Kept(all, {i \in DOMAIN all : Means(all[i])}),
                         builder.offset, builder.limit)
           where == BuildSql.where
<1>1. where = (IF ps = <<>> THEN <<>> ELSE JoinAnd(ps))
  BY DEF BuildSql
<1>2. \A r : (where = <<>> \/ \E j \in DOMAIN where : r \in where[j]) <=> Means(r)
  <2> HIDE DEF where
  <2> QED
    BY <1>1, WhereMeans DEF Built, Unambiguous
<1>3. Asked = Slice(Matching(all, where), builder.offset, builder.limit)
  BY DEF Asked, Answer, BuildSql
<1>4. Matching(all, where) = Kept(all, {i \in DOMAIN all : Means(all[i])})
  <2> HIDE DEF where, Means
  <2>1. {i \in DOMAIN all : where = <<>> \/ \E j \in DOMAIN where : all[i] \in where[j]}
          = {i \in DOMAIN all : Means(all[i])}
    BY <1>2
  <2> QED
    BY <2>1 DEF Matching
<1>5. Asked = rows
  BY <1>3, <1>4
<1>6. Wanted = LET passed == Kept(rows, {i \in DOMAIN rows : Passes(rows[i])})
               IN  [i \in DOMAIN passed |-> Deserialized(passed[i])]
  BY DEF Wanted
<1> HIDE DEF rows
<1> QED
  BY <1>5, <1>6 DEF Whole, Typed, Wished

LEMMA RightFollows == ASSUME Right, Accounts, Built, Unambiguous PROVE RightRows
<1> SUFFICES ASSUME call # <<>> PROVE RightRows
  BY DEF RightRows
<1> DEFINE items == call[1].items
           k == Gone
<1>1. IsSeq(Asked) /\ Len(Asked) \in Nat
  BY Indexed DEF Right
<1>2. PICK c : LaysOut(items, Asked, c) /\ Delivers(c)
  BY DEF Right
<1>3. /\ IsSeq(items) /\ Len(items) \in Nat /\ Len(inner) \in Nat /\ Len(inner) <= Len(items)
      /\ DOMAIN items = 1 .. Len(items)
  BY Indexed DEF Accounts, Left, Items
<1>4. k \in 0 .. Len(items) /\ Consumed = SubSeq(items, 1, k)
  BY <1>3 DEF Gone, Consumed
<1>5. c[k] \in Nat
  BY <1>1, <1>2, <1>4 DEF LaysOut
<1>6. Wanted = Whole /\ IsSeq(Whole) /\ Len(Whole) \in Nat /\ DOMAIN Whole = 1 .. Len(Whole)
  BY <1>1, WantedIs, WishedPlaces, Indexed
<1> DEFINE d == Due(c[k])
<1>7. d \in 0 .. Len(Whole)
  BY <1>1, <1>5, WishedPlaces
<1>8. PICK places \in SUBSET (1 .. d) :
        /\ Rows(delivered) = Kept(Whole, places)
        /\ Errors(Consumed) = <<>> => places = 1 .. d
  BY <1>2 DEF Delivers, Got
<1>9. Errors(delivered) = Errors(Consumed)
  BY <1>2 DEF Delivers
<1>10. EndItem \in Range(delivered) /\ Errors(delivered) = <<>> => d = Len(Whole)
  <2> SUFFICES ASSUME EndItem \in Range(delivered), Errors(delivered) = <<>>
               PROVE  d = Len(Whole)
    OBVIOUS
  <2>1. PICK i \in DOMAIN delivered : delivered[i] = EndItem
    BY DEF Range
  <2>2. k = Len(items) /\ Ends(items)
    BY <1>2, <2>1 DEF Delivers, EndItem
  <2>3. Consumed = items
    BY <1>3, <1>4, <2>2, SubSeqFull DEF IsSeq
  <2>4. Errors(items) = <<>>
    BY <1>9, <2>3
  <2>5. Unbroken(items, Len(items))
    BY <1>3, <2>4, OfKindEmpty DEF Errors, Unbroken
  <2>6. c[k] = Len(Asked)
    BY <1>2, <2>2, <2>5 DEF LaysOut
  <2> QED
    BY <1>1, <2>6, WishedPlaces
<1> HIDE DEF d
<1>11. \E p \in SUBSET DOMAIN Wanted : Rows(delivered) = Kept(Wanted, p)
  <2>1. places \in SUBSET (1 .. Len(Whole))
    BY <1>6, <1>7, <1>8
  <2> QED
    BY <1>6, <1>8, <2>1
<1>12. ASSUME Errors(delivered) = <<>>
       PROVE  Rows(delivered) = SubSeq(Wanted, 1, d) /\ Len(Rows(delivered)) = d
  BY <1>6, <1>7, <1>8, <1>9, <1>12, KeptFirst
<1>13. SubSeq(Whole, 1, Len(Whole)) = Whole
  BY <1>6, SubSeqFull DEF IsSeq
<1> QED
  BY <1>6, <1>9, <1>10, <1>11, <1>12, <1>13 DEF RightRows

-----------------------------------------------------------------------------
Kinds == {"json", "misfit", "error", "end"}
WellTyped ==
  /\ settings \in 0 .. MaxSettings
  /\ \A i \in DOMAIN delivered : delivered[i].kind \in Kinds

LEMMA AppendedKinds ==
  ASSUME NEW s, IsSeq(s), \A i \in DOMAIN s : s[i].kind \in Kinds, NEW e, e.kind \in Kinds
  PROVE  \A i \in DOMAIN Append(s, e) : Append(s, e)[i].kind \in Kinds
<1> DEFINE t == Append(s, e)
<1>1. IsSeq(t) /\ Len(t) = Len(s) + 1 /\ t[Len(t)] = e /\ \A i \in 1 .. Len(s) : t[i] = s[i]
  BY Appended
<1> HIDE DEF t
<1>2. /\ DOMAIN t = 1 .. Len(t) /\ Len(t) = Len(s) + 1 /\ Len(s) \in Nat
      /\ DOMAIN s = 1 .. Len(s)
  BY <1>1, Indexed
<1>3. ASSUME NEW i \in DOMAIN t PROVE t[i].kind \in Kinds
  <2>1. i \in 1 .. Len(s) \/ i = Len(t)
    BY <1>2
  <2> QED
    BY <1>1, <1>2, <2>1
<1> QED
  BY <1>3 DEF t

LEMMA StepTyped == ASSUME WellTyped, Accounts, [RequestsNext]_requestVars PROVE WellTyped'
<1>1. CASE PollTurn
  <2> DEFINE item == Head(inner)
  <2>1. /\ item.kind \in {"json", "error", "end"}
        /\ IF item.kind = "json" THEN delivered' = delivered \o Yielded(item.row)
           ELSE delivered' = Append(delivered, item)
    BY <1>1, TurnTakes DEF PollTurn, Accounts
  <2> HIDE DEF item
  <2>2. delivered' = delivered \/ \E e : e.kind \in Kinds /\ delivered' = Append(delivered, e)
    <3>1. CASE item.kind # "json"
      BY <2>1, <3>1 DEF Kinds
    <3>2. CASE item.kind = "json" /\ ~Passes(item.row)
      BY <2>1, <3>2, ConcatEmptySeq DEF Yielded, Accounts, IsSeq
    <3>3. CASE item.kind = "json" /\ Passes(item.row)
      <4> DEFINE e == Deserialized(item.row)
      <4>1. e.kind \in Kinds
        BY DEF Deserialized, RowItem, Kinds
      <4>2. delivered' = delivered \o <<e>>
        BY <2>1, <3>3 DEF Yielded
      <4> HIDE DEF e
      <4>3. delivered \in Seq(Range(delivered) \cup {e}) /\ e \in Range(delivered) \cup {e}
        BY SeqMonotonic DEF Accounts, IsSeq
      <4>4. delivered' = Append(delivered, e)
        BY <4>2, <4>3, AppendIsConcat
      <4> QED
        BY <4>1, <4>4
    <3> QED
      BY <3>1, <3>2, <3>3
  <2>3. UNCHANGED settings
    BY <1>1 DEF PollTurn
  <2> QED
    BY <2>2, <2>3, AppendedKinds DEF WellTyped, Accounts
<1>2. CASE Building /\ settings' = settings + 1 /\ UNCHANGED delivered
  BY <1>2, SettingsAssumption DEF Building, WellTyped
<1>3. CASE UNCHANGED <<settings, delivered>>
  BY <1>3 DEF WellTyped
<1> QED
  BY <1>1, <1>2, <1>3
  DEF RequestsNext, WhereSqlText, WhereRust, SelectProjection, ChunkSize, MaxMemory, Adaptive,
      OrderBy, Limit, Offset, MemorySoftLimits, Set, Execute, requestVars

-----------------------------------------------------------------------------
LEMMA RequestsInvariant == RequestsSpec => [](Built /\ Called /\ Accounts /\ Right /\ WellTyped)
<1>1. RequestsInit => Built /\ Called /\ Accounts /\ Right /\ WellTyped
  <2>1. <<>> \in Seq(Predicates)
    OBVIOUS
  <2> QED
    BY <2>1, AccountsInit, SettingsAssumption
    DEF RequestsInit, Built, NewBuilder, Ordered, Natural, Called, Right, WellTyped
<1>2. Built /\ Called /\ Accounts /\ Right /\ WellTyped /\ [RequestsNext]_requestVars
        => (Built /\ Called /\ Accounts /\ Right /\ WellTyped)'
  BY StepBuilt, StepCalled, StepAccounts, StepRight, StepTyped
<1> QED
  BY <1>1, <1>2, PTL DEF RequestsSpec

(* The setters only ever set what a builder has, and what a caller is      *)
(* given is a row, a row that is no T, an error or the end.                *)
THEOREM RequestsTyped == RequestsSpec => []RequestsType
<1>1. Built /\ Accounts /\ WellTyped => RequestsType
  BY DEF Built, Accounts, WellTyped, RequestsType, Kinds
<1> QED
  BY <1>1, RequestsInvariant, PTL

(* memory_soft_limits keeps only pairs that are in order once clamped, and *)
(* execute passes on what it kept, so the stream is never given a limit    *)
(* it fails at before the one it warns at, nor one of the two alone.       *)
THEOREM SoftLimitsOrdered == RequestsSpec => []SoftLimitsInOrder
<1>1. Called => SoftLimitsInOrder
  BY DEF Called, SoftLimitsInOrder, Ordered
<1> QED
  BY <1>1, RequestsInvariant, PTL

(* FilteredStream and TypedJsonStream count every row the JSON stream      *)
(* yields once, as what became of it: the counters are the numbers of the  *)
(* rows and of the misfits the caller has got, and all three together the  *)
(* number of rows taken.                                                   *)
THEOREM EveryRowCounted == RequestsSpec => []RowsAccounted
<1>1. Accounts => RowsAccounted
  BY DEF Accounts
<1> QED
  BY <1>1, RequestsInvariant, PTL

(* The caller gets rows it asked for, in order and each at most once, none *)
(* missing before the first error, and those its predicate filters out     *)
(* neither as rows nor as errors; the errors of the JSON stream it gets as *)
(* they come; and all of the rows when the stream ends without one.  The   *)
(* stream may give up rows behind an error, have several errors, or never  *)
(* end.  The predicates must mean joined by AND what each of them means:   *)
(* where_sql joins texts as they are, and OR binds less than AND.          *)
THEOREM RightRowsDelivered == RequestsSpec => [](Unambiguous => RightRows)
<1>1. Built /\ Accounts /\ Right => (Unambiguous => RightRows)
  BY RightFollows
<1> QED
  BY <1>1, RequestsInvariant, PTL
=============================================================================
