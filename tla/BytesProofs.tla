----------------------------- MODULE BytesProofs -----------------------------
(***************************************************************************)
(* Lemmas about Bytes: that a number, a string or a list of either reads   *)
(* the same where it was written, wherever that is and whatever is around  *)
(* it.  The operators that go along a sequence are recursive functions;    *)
(* for each it is shown that there is one, by induction over the length,   *)
(* which here is the existence of a least counterexample.                  *)
(***************************************************************************)
EXTENDS Bytes, SequenceTheorems, WellFoundedInduction, TLAPS

-----------------------------------------------------------------------------
(* Induction over the naturals, for sets of them.                          *)
LEMMA Least == ASSUME NEW T, T \subseteq Nat, T # {} PROVE \E x \in T : \A y \in T : x <= y
<1> DEFINE Less == {ss \in Nat \X Nat : ss[1] < ss[2]}
<1>1. Less = OpToRel(<, Nat)
  BY DEF OpToRel
<1>2. IsWellFoundedOn(Less, Nat)
  BY <1>1, NatLessThanWellFounded
<1>3. \A x, y \in Nat : x < y => <<x, y>> \in Less
  OBVIOUS
<1> HIDE DEF Less
<1>4. PICK x \in T : \A y \in T : ~(<<y, x>> \in Less)
  BY <1>2, WFMin
<1>5. ASSUME NEW y \in T PROVE x <= y
  <2>1. ~(y < x)
    BY <1>3, <1>4
  <2>2. x \in Nat /\ y \in Nat
    OBVIOUS
  <2> QED
    BY <2>1, <2>2
<1> QED
  BY <1>5

LEMMA Upwards ==
  ASSUME NEW n \in Nat, NEW T, 0 \in T, \A k \in 1 .. n : k - 1 \in T => k \in T
  PROVE  0 .. n \subseteq T
<1> SUFFICES ASSUME (0 .. n) \ T # {} PROVE FALSE
  OBVIOUS
<1>1. PICK k \in (0 .. n) \ T : \A j \in (0 .. n) \ T : k <= j
  <2>1. (0 .. n) \ T \subseteq Nat
    OBVIOUS
  <2> QED
    BY <2>1, Least
<1>2. k \in 1 .. n /\ k - 1 \in 0 .. n /\ ~(k <= k - 1)
  OBVIOUS
<1> QED
  BY <1>1, <1>2

LEMMA Downwards ==
  ASSUME NEW n \in Nat, NEW T,
         \A k \in 1 .. n : (\A j \in 1 .. n : k < j => j \in T) => k \in T
  PROVE  1 .. n \subseteq T
<1> SUFFICES ASSUME (1 .. n) \ T # {} PROVE FALSE
  OBVIOUS
<1> DEFINE Behind == {d \in 0 .. n : n - d \in (1 .. n) \ T}
<1>1. PICK d \in Behind : \A e \in Behind : d <= e
  <2>1. PICK k \in (1 .. n) \ T : TRUE
    OBVIOUS
  <2>2. Behind # {}
    <3>1. n - k \in 0 .. n /\ n - (n - k) = k
      OBVIOUS
    <3>2. k \in (1 .. n) \ T
      OBVIOUS
    <3> DEFINE d == n - k
    <3>3. d \in 0 .. n /\ n - d = k
      BY <3>1
    <3> HIDE DEF d
    <3>4. n - d \in (1 .. n) \ T
      BY <3>2, <3>3, Zenon
    <3>5. d \in Behind
      BY <3>3, <3>4, Zenon
    <3> HIDE DEF Behind
    <3> QED
      BY <3>5
  <2>3. Behind # {} /\ Behind \subseteq Nat
    BY <2>2
  <2> HIDE DEF Behind
  <2> QED
    BY <2>3, Least
<1>2. n - d \in (1 .. n) \ T /\ d \in 0 .. n
  BY <1>1
<1>3. ASSUME NEW j \in 1 .. n, n - d < j PROVE j \in T
  <2>1. n - j \in 0 .. n /\ n - (n - j) = j /\ ~(d <= n - j)
    BY <1>2, <1>3
  <2> QED
    BY <1>1, <2>1
<1> QED
  BY <1>2, <1>3

-----------------------------------------------------------------------------
(* Numbers.                                                                *)
LEMMA Two ==
  ASSUME NEW n \in Int16
  PROVE  /\ Byte2(n) \in Data /\ Len(Byte2(n)) = 2
         /\ Be16(Byte2(n), 1) = n
<1> DEFINE h == (n % 65536) \div 256
           l == n % 256
<1>1. h \in Octets /\ l \in Octets
  BY SMT DEF Int16, Octets
<1>2. Signed(h) * 256 + l = n
  BY SMT DEF Int16, Octets, Signed
<1> HIDE DEF h, l
<1>3. <<h, l>> \in Data /\ Len(<<h, l>>) = 2 /\ <<h, l>>[1] = h /\ <<h, l>>[1 + 1] = l
  BY <1>1 DEF Data
<1>4. Byte2(n) = <<h, l>>
  BY DEF Byte2, h, l
<1> QED
  BY <1>2, <1>3, <1>4 DEF Be16

LEMMA FourBytes == ASSUME NEW n \in Int PROVE Byte4(n) \in Data /\ Len(Byte4(n)) = 4
<1> DEFINE low == n % 16777216
           a == (n \div 16777216) % 256
           b == low \div 65536
           c == (low % 65536) \div 256
           d == n % 256
<1>1. a \in Octets /\ b \in Octets /\ c \in Octets /\ d \in Octets
  BY SMT DEF Octets
<1>2. Byte4(n) = <<a, b, c, d>>
  BY DEF Byte4
<1> HIDE DEF a, b, c, d
<1>3. <<a, b, c, d>> \in Data /\ Len(<<a, b, c, d>>) = 4
  BY <1>1 DEF Data
<1> QED
  BY <1>2, <1>3

LEMMA Four ==
  ASSUME NEW n \in Int32
  PROVE  /\ Byte4(n) \in Data /\ Len(Byte4(n)) = 4
         /\ Be32(Byte4(n), 1) = n
<1> DEFINE low == n % 16777216
           a == (n \div 16777216) % 256
           b == low \div 65536
           c == (low % 65536) \div 256
           d == n % 256
<1>1. a \in Octets /\ b \in Octets /\ c \in Octets /\ d \in Octets
  BY SMT DEF Int32, Octets
<1>2. Signed(a) * 16777216 + b * 65536 + c * 256 + d = n
  BY SMT DEF Int32, Octets, Signed
<1> HIDE DEF a, b, c, d
<1> DEFINE s == <<a, b, c, d>>
<1>3. /\ s \in Data /\ Len(s) = 4
      /\ s[1] = a /\ s[1 + 1] = b /\ s[1 + 2] = c /\ s[1 + 3] = d
  BY <1>1 DEF Data
<1>4. Byte4(n) = s
  BY DEF Byte4, a, b, c, d, low
<1> HIDE DEF s
<1> QED
  BY <1>2, <1>3, <1>4 DEF Be32

-----------------------------------------------------------------------------
(* Parts of a sequence of bytes: "part" is in "data" from the place "at".  *)
Occurs(part, data, at) ==
  /\ at \in Nat \ {0} /\ at + Len(part) <= Len(data) + 1
  /\ \A i \in 1 .. Len(part) : data[at + i - 1] = part[i]

LEMMA Joined ==
  ASSUME NEW a \in Data, NEW b \in Data
  PROVE  /\ a \o b \in Data /\ Len(a \o b) = Len(a) + Len(b)
         /\ Len(a) \in Nat /\ Len(b) \in Nat
         /\ \A i \in 1 .. Len(a) : (a \o b)[i] = a[i]
         /\ \A i \in 1 .. Len(b) : (a \o b)[Len(a) + i] = b[i]
BY DEF Data

LEMMA Whole == ASSUME NEW d \in Data PROVE Occurs(d, d, 1)
BY DEF Data, Occurs

LEMMA OccursBoth ==
  ASSUME NEW a \in Data, NEW b \in Data, NEW d \in Data, NEW at, Occurs(a \o b, d, at)
  PROVE  /\ Occurs(a, d, at) /\ Occurs(b, d, at + Len(a))
         /\ at + Len(a) + Len(b) <= Len(d) + 1
<1>1. /\ Len(a \o b) = Len(a) + Len(b) /\ Len(a) \in Nat /\ Len(b) \in Nat
      /\ \A i \in 1 .. Len(a) : (a \o b)[i] = a[i]
      /\ \A i \in 1 .. Len(b) : (a \o b)[Len(a) + i] = b[i]
  BY Joined
<1>2. /\ at \in Nat \ {0} /\ at + Len(a \o b) <= Len(d) + 1 /\ Len(d) \in Nat
      /\ \A i \in 1 .. Len(a \o b) : d[at + i - 1] = (a \o b)[i]
  BY DEF Occurs, Data
<1>3. \A i \in 1 .. Len(a) : d[at + i - 1] = a[i]
  BY <1>1, <1>2, SMTT(30)
<1>4. ASSUME NEW i \in 1 .. Len(b) PROVE d[at + Len(a) + i - 1] = b[i]
  <2>1. Len(a) + i \in 1 .. Len(a \o b) /\ at + (Len(a) + i) - 1 = at + Len(a) + i - 1
    BY <1>1, <1>2
  <2> QED
    BY <1>1, <1>2, <2>1
<1> QED
  BY <1>1, <1>2, <1>3, <1>4 DEF Occurs

LEMMA Parted ==
  ASSUME NEW a \in Data, NEW b \in Data, NEW d, d = a \o b
  PROVE  /\ d \in Data /\ Len(d) = Len(a) + Len(b) /\ Len(a) \in Nat /\ Len(b) \in Nat
         /\ Occurs(a, d, 1) /\ Occurs(b, d, 1 + Len(a))
<1>1. /\ a \o b \in Data /\ Len(a \o b) = Len(a) + Len(b)
      /\ Len(a) \in Nat /\ Len(b) \in Nat
  BY Joined
<1>2. Occurs(a \o b, a \o b, 1)
  BY <1>1, Whole
<1>3. Occurs(a, a \o b, 1) /\ Occurs(b, a \o b, 1 + Len(a))
  BY <1>1, <1>2, OccursBoth
<1> QED
  BY <1>1, <1>3, Zenon

LEMMA Cut ==
  ASSUME NEW a \in Data, NEW d \in Data, NEW at, Occurs(a, d, at)
  PROVE  SubSeq(d, at, at + Len(a) - 1) = a
<1>1. /\ at \in Nat \ {0} /\ at + Len(a) <= Len(d) + 1 /\ Len(d) \in Nat /\ Len(a) \in Nat
      /\ \A i \in 1 .. Len(a) : d[at + i - 1] = a[i]
  BY DEF Occurs, Data
<1> DEFINE s == SubSeq(d, at, at + Len(a) - 1)
<1>2. /\ s \in Data /\ Len(s) = Len(a)
      /\ \A i \in 1 .. Len(a) : s[i] = d[at + i - 1]
  BY <1>1 DEF Data
<1> HIDE DEF s
<1>3. s = a
  BY <1>1, <1>2 DEF Data
<1> QED
  BY <1>3 DEF s

LEMMA Be16At ==
  ASSUME NEW n \in Int16, NEW d \in Data, NEW at, Occurs(Byte2(n), d, at)
  PROVE  Be16(d, at) = n
<1> DEFINE b == Byte2(n)
<1>1. Len(b) = 2 /\ Be16(b, 1) = n
  BY Two
<1> HIDE DEF b
<1>2. d[at + 1 - 1] = b[1] /\ d[at + 2 - 1] = b[2] /\ at \in Nat
  BY <1>1 DEF Occurs, b
<1>3. d[at] = b[1] /\ d[at + 1] = b[1 + 1]
  BY <1>2
<1> QED
  BY <1>1, <1>3 DEF Be16

LEMMA Be32At ==
  ASSUME NEW n \in Int32, NEW d \in Data, NEW at, Occurs(Byte4(n), d, at)
  PROVE  Be32(d, at) = n
<1> DEFINE b == Byte4(n)
<1>1. Len(b) = 4 /\ Be32(b, 1) = n
  BY Four
<1> HIDE DEF b
<1>2. /\ d[at + 1 - 1] = b[1] /\ d[at + 2 - 1] = b[2] /\ d[at + 3 - 1] = b[3]
      /\ d[at + 4 - 1] = b[4] /\ at \in Nat
  BY <1>1 DEF Occurs, b
<1>3. d[at] = b[1] /\ d[at + 1] = b[1 + 1] /\ d[at + 2] = b[1 + 2] /\ d[at + 3] = b[1 + 3]
  BY <1>2
<1> QED
  BY <1>1, <1>3 DEF Be32

(* Strings.                                                                *)
LEMMA ZeroEnds ==
  ASSUME NEW s \in CStrings
  PROVE  /\ s \in Data /\ Zero(s) \in Data /\ Len(Zero(s)) = Len(s) + 1 /\ Len(s) \in Nat
         /\ Zero(s)[Len(s) + 1] = 0
         /\ \A i \in 1 .. Len(s) : Zero(s)[i] = s[i] /\ s[i] # 0
<1>1. 0 \in Octets /\ s \in Seq(Octets)
  BY DEF Octets, CStrings
<1> QED
  BY <1>1 DEF CStrings, Data, Zero

LEMMA StringThere ==
  ASSUME NEW s \in CStrings, NEW d \in Data, NEW at, Occurs(Zero(s), d, at)
  PROVE  /\ EndOf(d, at) = at + Len(s) /\ StringAt(d, at) = s
         /\ at \in Nat \ {0} /\ at + Len(s) <= Len(d)
<1>1. /\ s \in Data /\ Len(Zero(s)) = Len(s) + 1 /\ Len(s) \in Nat
      /\ Zero(s)[Len(s) + 1] = 0
      /\ \A i \in 1 .. Len(s) : Zero(s)[i] = s[i] /\ s[i] # 0
  BY ZeroEnds
<1>2. /\ at \in Nat \ {0} /\ at + Len(s) <= Len(d) /\ Len(d) \in Nat
      /\ \A i \in 1 .. Len(s) : d[at + i - 1] = s[i] /\ s[i] # 0
      /\ d[at + Len(s)] = 0
  <2>1. /\ at \in Nat \ {0} /\ at + Len(s) <= Len(d) /\ Len(d) \in Nat
        /\ \A i \in 1 .. Len(s) + 1 : d[at + i - 1] = Zero(s)[i]
    BY <1>1 DEF Occurs, Data
  <2>2. at + (Len(s) + 1) - 1 = at + Len(s) /\ Len(s) + 1 \in 1 .. Len(s) + 1
    BY <1>1, <2>1
  <2>3. d[at + Len(s)] = 0
    BY <1>1, <2>1, <2>2
  <2> QED
    BY <1>1, <2>1, <2>3
<1> DEFINE zeros == {i \in at .. Len(d) : d[i] = 0}
           e == at + Len(s)
<1>3. e \in zeros
  BY <1>1, <1>2
<1>4. ASSUME NEW i \in zeros PROVE e <= i
  <2> SUFFICES ASSUME i < e PROVE FALSE
    BY <1>1, <1>2
  <2>1. i - at + 1 \in 1 .. Len(s) /\ at + (i - at + 1) - 1 = i
    BY <1>1, <1>2
  <2> QED
    BY <1>2, <2>1
<1>5. ASSUME NEW x \in zeros, \A y \in zeros : x <= y PROVE x = e
  BY <1>1, <1>2, <1>3, <1>4, <1>5
<1> HIDE DEF zeros, e
<1>6. Min(zeros) = e
  BY <1>3, <1>4, <1>5 DEF Min
<1>7. EndOf(d, at) = e
  BY <1>3, <1>6 DEF EndOf, zeros
<1>8. Occurs(s, d, at)
  BY <1>1, <1>2 DEF Occurs
<1>9. SubSeq(d, at, at + Len(s) - 1) = s
  BY <1>1, <1>8, Cut
<1> QED
  BY <1>2, <1>7, <1>9 DEF StringAt, e

-----------------------------------------------------------------------------
(* Recursion.  There is a function that each step makes from the one       *)
(* before.                                                                 *)
Iterates(g, n, S, start, step) ==
  /\ g \in [0 .. n -> S] /\ g[0] = start
  /\ \A k \in 1 .. n : g[k] = step[<<k, g[k - 1]>>]

LEMMA Iterated ==
  ASSUME NEW n \in Nat, NEW S, NEW start \in S, NEW step \in [(1 .. n) \X S -> S]
  PROVE  \E g : Iterates(g, n, S, start, step)
<1> DEFINE Upto(k, g) == /\ g \in [0 .. k -> S] /\ g[0] = start
                         /\ \A j \in 1 .. k : g[j] = step[<<j, g[j - 1]>>]
           T == {k \in 0 .. n : \E g : Upto(k, g)}
<1>1. 0 \in T
  <2> DEFINE g == [j \in 0 .. 0 |-> start]
  <2>1. Upto(0, g)
    OBVIOUS
  <2>2. 0 \in 0 .. n
    OBVIOUS
  <2> HIDE DEF Upto, g
  <2> QED
    BY <2>1, <2>2, Zenon
<1>2. ASSUME NEW k \in 1 .. n, k - 1 \in T PROVE k \in T
  <2>1. PICK g : Upto(k - 1, g)
    BY <1>2
  <2> DEFINE h == [j \in 0 .. k |-> IF j = k THEN step[<<k, g[k - 1]>>] ELSE g[j]]
  <2>2. g[k - 1] \in S /\ step[<<k, g[k - 1]>>] \in S
    BY <2>1
  <2>3. h \in [0 .. k -> S] /\ h[0] = start
    <3>1. ASSUME NEW j \in 0 .. k PROVE h[j] \in S
      BY <2>1, <2>2
    <3> QED
      BY <2>1, <3>1
  <2>4. ASSUME NEW j \in 1 .. k PROVE h[j] = step[<<j, h[j - 1]>>]
    <3>1. CASE j = k
      <4>1. h[j - 1] = g[k - 1] /\ h[j] = step[<<k, g[k - 1]>>]
        BY <3>1
      <4> QED
        BY <3>1, <4>1
    <3>2. CASE j # k
      <4>1. j \in 1 .. k - 1 /\ h[j] = g[j] /\ h[j - 1] = g[j - 1]
        BY <3>2
      <4> QED
        BY <2>1, <4>1
    <3> QED
      BY <3>1, <3>2
  <2>5. Upto(k, h)
    BY <2>3, <2>4
  <2>6. k \in 0 .. n
    OBVIOUS
  <2> HIDE DEF Upto, h
  <2> QED
    BY <2>5, <2>6, Zenon
<1>3. 0 .. n \subseteq T
  <2> HIDE DEF T
  <2> QED
    BY <1>1, <1>2, Upwards
<1>4. n \in 0 .. n
  OBVIOUS
<1>5. \E g : Upto(n, g)
  BY <1>3, <1>4
<1> QED
  BY <1>5 DEF Iterates

(* And one that each step makes from a later one: where it does not stop,  *)
(* it goes to next[x], behind x.                                           *)
IteratesBack(g, from, to, S, Stops, base, next, step) ==
  /\ g \in [from .. to -> S]
  /\ \A x \in from .. to :
       g[x] = IF x \in Stops THEN base[x] ELSE step[<<x, g[next[x]]>>]

LEMMA IteratedBack ==
  ASSUME NEW from \in Nat, NEW to \in Nat, from <= to + 1,
         NEW S, NEW Stops, NEW base \in [from .. to -> S],
         NEW next \in [from .. to -> Int], NEW step \in [(from .. to) \X S -> S],
         \A x \in from .. to : x \notin Stops => x < next[x] /\ next[x] <= to
  PROVE  \E g : IteratesBack(g, from, to, S, Stops, base, next, step)
<1> DEFINE n == to + 1 - from
           Made(x, g) == g[x] = IF x \in Stops THEN base[x] ELSE step[<<x, g[next[x]]>>]
           Upto(k, g) == /\ g \in [to + 1 - k .. to -> S]
                         /\ \A x \in to + 1 - k .. to : Made(x, g)
           T == {k \in 0 .. n : \E g : Upto(k, g)}
<1>1. 0 \in T
  <2> DEFINE g == [x \in to + 1 - 0 .. to |-> x]
  <2>1. \A x : ~(x \in to + 1 - 0 .. to)
    OBVIOUS
  <2>2. Upto(0, g)
    <3>1. g \in [to + 1 - 0 .. to -> S]
      BY <2>1, Zenon
    <3> QED
      BY <2>1, <3>1, Zenon
  <2>3. 0 \in 0 .. n
    OBVIOUS
  <2> HIDE DEF Upto, g
  <2> QED
    BY <2>2, <2>3, Zenon
<1>2. ASSUME NEW k \in 1 .. n, k - 1 \in T PROVE k \in T
  <2>1. PICK g : Upto(k - 1, g)
    BY <1>2
  <2> DEFINE y == to + 1 - k
             new == IF y \in Stops THEN base[y] ELSE step[<<y, g[next[y]]>>]
             h == [x \in y .. to |-> IF x = y THEN new ELSE g[x]]
  <2>2. /\ y \in from .. to /\ to + 1 - (k - 1) = y + 1
        /\ \A x : x \in y .. to <=> x = y \/ x \in y + 1 .. to
    <3>1. y \in from .. to /\ to + 1 - (k - 1) = y + 1
      OBVIOUS
    <3> HIDE DEF y
    <3> QED
      BY <3>1
  <2>3. g \in [y + 1 .. to -> S] /\ \A x \in y + 1 .. to : Made(x, g) /\ x \in from .. to
    BY <2>1, <2>2
  <2> HIDE DEF y
  <2>4. new \in S
    <3>1. CASE y \in Stops
      BY <2>2, <3>1
    <3>2. CASE y \notin Stops
      <4>1. next[y] \in y + 1 .. to
        BY <2>2, <3>2
      <4> QED
        BY <2>2, <2>3, <3>2, <4>1
    <3> QED
      BY <3>1, <3>2
  <2> HIDE DEF new
  <2>5. h \in [y .. to -> S] /\ h[y] = new /\ \A x \in y + 1 .. to : h[x] = g[x]
    <3>1. \A x \in y + 1 .. to : x # y /\ x \in y .. to
      BY <2>2
    <3>2. y \in y .. to
      BY <2>2
    <3> QED
      BY <2>2, <2>3, <2>4, <3>1, <3>2
  <2> HIDE DEF h
  <2>6. ASSUME NEW x \in y .. to PROVE Made(x, h)
    <3>1. x \in Stops \/ next[x] \in y + 1 .. to
      BY <2>2, <2>3
    <3>2. CASE x = y
      BY <2>5, <3>1, <3>2 DEF new
    <3>3. CASE x \in y + 1 .. to
      BY <2>3, <2>5, <3>1, <3>3
    <3> QED
      BY <2>2, <3>2, <3>3
  <2>7. Upto(k, h)
    BY <2>5, <2>6 DEF y
  <2>8. k \in 0 .. n
    OBVIOUS
  <2> HIDE DEF Upto
  <2> QED
    BY <2>7, <2>8, Zenon
<1>3. 0 .. n \subseteq T
  <2>1. n \in Nat
    OBVIOUS
  <2> HIDE DEF T, n
  <2> QED
    BY <1>1, <1>2, <2>1, Upwards
<1>4. n \in 0 .. n /\ to + 1 - n = from
  OBVIOUS
<1>5. PICK g : Upto(n, g)
  BY <1>3, <1>4
<1> QED
  BY <1>4, <1>5 DEF IteratesBack

-----------------------------------------------------------------------------
(* Flat lays its sequences one after the other.                            *)
Laid(flat, seqs) ==
  /\ flat \in [0 .. Len(seqs) -> Data] /\ flat[0] = <<>>
  /\ \A k \in 1 .. Len(seqs) : flat[k] = flat[k - 1] \o seqs[k]

LEMMA FlatLaid ==
  ASSUME NEW seqs \in Seq(Data)
  PROVE  \E flat : Laid(flat, seqs) /\ Flat(seqs) = flat[Len(seqs)]
<1> DEFINE n == Len(seqs)
           Q(f) == f = [k \in 0 .. n |-> IF k = 0 THEN <<>> ELSE f[k - 1] \o seqs[k]]
           step == [x \in (1 .. n) \X Data |-> x[2] \o seqs[x[1]]]
<1>1. n \in Nat /\ <<>> \in Data /\ \A k \in 1 .. n : seqs[k] \in Data
  BY DEF Data
<1>2. step \in [(1 .. n) \X Data -> Data]
  <2>1. ASSUME NEW x \in (1 .. n) \X Data PROVE x[2] \o seqs[x[1]] \in Data
    BY <1>1, Joined
  <2> QED
    BY <2>1
<1>3. PICK g : Iterates(g, n, Data, <<>>, step)
  <2> HIDE DEF n, step, Q
  <2>1. n \in Nat /\ <<>> \in Data
    BY <1>1
  <2> QED
    BY <1>2, <2>1, Iterated, Zenon
<1>4. \A k \in 1 .. n : g[k] = g[k - 1] \o seqs[k]
  <2>1. ASSUME NEW k \in 1 .. n PROVE g[k] = g[k - 1] \o seqs[k]
    <3>1. k - 1 \in 0 .. n
      BY <1>1
    <3>2. <<k, g[k - 1]>> \in (1 .. n) \X Data
      BY <1>3, <3>1 DEF Iterates
    <3> QED
      BY <1>3, <3>2 DEF Iterates
  <2> QED
    BY <2>1
<1>5. Q(g)
  <2>1. \A k \in 0 .. n : k # 0 => k \in 1 .. n
    BY <1>1
  <2> QED
    BY <1>3, <1>4, <2>1 DEF Iterates
<1>6. Flat(seqs) = (CHOOSE f : Q(f))[n]
  BY DEF Flat
<1> DEFINE f == CHOOSE f : Q(f)
<1>7. Q(f)
  <2> HIDE DEF Q
  <2> QED
    BY <1>5
<1> HIDE DEF f
<1>8. \A k \in 0 .. n : f[k] = g[k]
  <2> DEFINE T == {k \in 0 .. n : f[k] = g[k]}
  <2>1. 0 \in T
    BY <1>1, <1>3, <1>7 DEF Iterates
  <2>2. ASSUME NEW k \in 1 .. n, k - 1 \in T PROVE k \in T
    BY <1>1, <1>4, <1>7, <2>2
  <2> HIDE DEF T, Q, n
  <2>3. 0 .. n \subseteq T
    BY <1>1, <2>1, <2>2, Upwards
  <2> QED
    BY <2>3 DEF T
<1>9. Flat(seqs) = g[n]
  <2>1. Flat(seqs) = f[n]
    BY <1>6, Zenon DEF f
  <2>2. n \in 0 .. n
    BY <1>1
  <2> QED
    BY <1>8, <2>1, <2>2, Zenon
<1> QED
  BY <1>3, <1>4, <1>9 DEF Laid, Iterates

LEMMA LaidOnce ==
  ASSUME NEW n \in Nat, NEW s, NEW t, NEW f, NEW g, Laid(f, s), Laid(g, t),
         n <= Len(s), n <= Len(t), Len(s) \in Nat, Len(t) \in Nat,
         \A k \in 1 .. n : s[k] = t[k]
  PROVE  f[n] = g[n]
<1> DEFINE T == {k \in 0 .. n : f[k] = g[k]}
<1>1. 0 \in T
  BY DEF Laid
<1>2. ASSUME NEW k \in 1 .. n, k - 1 \in T PROVE k \in T
  <2>1. k \in 1 .. Len(s) /\ k \in 1 .. Len(t) /\ k \in 0 .. n
    OBVIOUS
  <2> QED
    BY <1>2, <2>1 DEF Laid
<1> HIDE DEF T
<1>3. 0 .. n \subseteq T
  BY <1>1, <1>2, Upwards
<1> QED
  BY <1>3 DEF T

LEMMA FlatData == ASSUME NEW seqs \in Seq(Data) PROVE Flat(seqs) \in Data
<1>1. Len(seqs) \in 0 .. Len(seqs)
  OBVIOUS
<1> QED
  BY <1>1, FlatLaid, ZenonT(60) DEF Laid

LEMMA FlatEmpty == Flat(<<>>) = <<>>
<1>1. <<>> \in Seq(Data) /\ Len(<<>>) = 0
  OBVIOUS
<1> QED
  BY <1>1, FlatLaid DEF Laid

LEMMA FlatAppend ==
  ASSUME NEW s \in Seq(Data), NEW x \in Data
  PROVE  Flat(Append(s, x)) = Flat(s) \o x
<1> DEFINE t == Append(s, x)
           n == Len(s)
<1>1. /\ t \in Seq(Data) /\ Len(t) = n + 1 /\ n \in Nat /\ t[n + 1] = x
      /\ \A k \in 1 .. n : s[k] = t[k]
  OBVIOUS
<1>2. PICK f : Laid(f, s) /\ Flat(s) = f[n]
  BY FlatLaid
<1> HIDE DEF t, n
<1>3. PICK g : Laid(g, t) /\ Flat(t) = g[n + 1]
  BY <1>1, FlatLaid
<1>4. f[n] = g[n]
  BY <1>1, <1>2, <1>3, LaidOnce DEF n
<1>5. g[n + 1] = g[n] \o x
  <2> DEFINE m == n + 1
  <2>1. m \in 1 .. Len(t) /\ m - 1 = n
    BY <1>1
  <2> HIDE DEF m
  <2>2. g[m] = g[m - 1] \o t[m]
    BY <1>3, <2>1 DEF Laid
  <2> QED
    BY <1>1, <2>1, <2>2 DEF m
<1> QED
  BY <1>2, <1>3, <1>4, <1>5 DEF t

LEMMA Associative ==
  ASSUME NEW a \in Data, NEW b \in Data, NEW c \in Data
  PROVE  (a \o b) \o c = a \o (b \o c)
BY ConcatAssociative DEF Data

LEMMA FlatHead ==
  ASSUME NEW s \in Seq(Data), NEW n \in Nat, Len(s) = n + 1
  PROVE  Flat(s) = s[1] \o Flat(SubSeq(s, 2, n + 1))
<1> DEFINE t == SubSeq(s, 2, n + 1)
<1>1. t \in Seq(Data) /\ Len(t) = n /\ \A k \in 1 .. n : t[k] = s[k + 1]
  OBVIOUS
<1>2. s[1] \in Data /\ \A k \in 1 .. n : t[k] \in Data
  BY <1>1
<1>3. PICK f : Laid(f, s) /\ Flat(s) = f[n + 1]
  BY FlatLaid
<1> HIDE DEF t
<1>4. PICK g : Laid(g, t) /\ Flat(t) = g[n]
  BY <1>1, FlatLaid
<1> DEFINE T == {k \in 0 .. n : f[k + 1] = s[1] \o g[k]}
<1>5. 0 \in T
  <2>1. f[0 + 1] = f[0] \o s[1] /\ f[0] = <<>>
    <3>1. 1 \in 1 .. Len(s) /\ 1 - 1 = 0 /\ 0 + 1 = 1
      OBVIOUS
    <3> QED
      BY <1>3, <3>1 DEF Laid
  <2>2. <<>> \o s[1] = s[1] /\ s[1] \o <<>> = s[1]
    BY <1>2 DEF Data
  <2>3. g[0] = <<>> /\ 0 \in 0 .. n
    BY <1>4 DEF Laid
  <2> QED
    BY <2>1, <2>2, <2>3
<1>6. ASSUME NEW k \in 1 .. n, k - 1 \in T PROVE k \in T
  <2>1. /\ k + 1 \in 1 .. Len(s) /\ k + 1 - 1 = k /\ k - 1 + 1 = k /\ k \in 1 .. Len(t)
        /\ k - 1 \in 0 .. Len(t)
    BY <1>1
  <2>2. f[k + 1] = f[k] \o s[k + 1] /\ g[k] = g[k - 1] \o t[k] /\ g[k - 1] \in Data
    <3>1. f[k + 1] = f[k] \o s[k + 1]
      <4> DEFINE m == k + 1
      <4>1. m \in 1 .. Len(s) /\ m - 1 = k
        BY <2>1
      <4> HIDE DEF m
      <4>2. f[m] = f[m - 1] \o s[m]
        BY <1>3, <4>1 DEF Laid
      <4> QED
        BY <4>1, <4>2 DEF m
    <3>2. g[k] = g[k - 1] \o t[k] /\ g[k - 1] \in Data
      BY <1>4, <2>1 DEF Laid
    <3> QED
      BY <2>1, <3>1, <3>2
  <2>3. f[k] = s[1] \o g[k - 1]
    <3>1. f[k - 1 + 1] = s[1] \o g[k - 1]
      BY <1>6
    <3> QED
      BY <2>1, <3>1
  <2>4. t[k] = s[k + 1] /\ t[k] \in Data
    BY <1>1, <1>2
  <2>5. (s[1] \o g[k - 1]) \o t[k] = s[1] \o (g[k - 1] \o t[k])
    BY <1>2, <2>2, <2>4, Associative
  <2>6. f[k + 1] = s[1] \o g[k] /\ k \in 0 .. n
    BY <2>2, <2>3, <2>4, <2>5
  <2> QED
    BY <2>6
<1>7. 0 .. n \subseteq T
  <2> HIDE DEF T
  <2> QED
    BY <1>5, <1>6, Upwards
<1>8. f[n + 1] = s[1] \o g[n]
  <2>1. n \in 0 .. n
    OBVIOUS
  <2> QED
    BY <1>7, <2>1, Zenon
<1> QED
  BY <1>3, <1>4, <1>8 DEF t

(* Where the k-th sequence is.                                             *)
OccurAt(places, seqs, d, at) ==
  /\ places \in [1 .. Len(seqs) + 1 -> Nat \ {0}]
  /\ places[1] = at /\ places[Len(seqs) + 1] = at + Len(Flat(seqs))
  /\ \A k \in 1 .. Len(seqs) :
       Occurs(seqs[k], d, places[k]) /\ places[k + 1] = places[k] + Len(seqs[k])
  /\ \A k \in 1 .. Len(seqs) + 1 : at <= places[k] /\ places[k] <= Len(d) + 1

LEMMA FlatOccurs ==
  ASSUME NEW seqs \in Seq(Data), NEW d \in Data, NEW at, Occurs(Flat(seqs), d, at)
  PROVE  \E places : OccurAt(places, seqs, d, at)
<1> DEFINE n == Len(seqs)
<1>1. n \in Nat /\ \A k \in 1 .. n : seqs[k] \in Data
  OBVIOUS
<1>2. PICK f : Laid(f, seqs) /\ Flat(seqs) = f[n]
  BY FlatLaid
<1>3. f \in [0 .. n -> Data] /\ f[0] = <<>> /\ \A k \in 1 .. n : f[k] = f[k - 1] \o seqs[k]
  BY <1>2 DEF Laid
<1> HIDE DEF n
<1> DEFINE T == {k \in 1 .. n + 1 : Occurs(f[k - 1], d, at)}
<1>4. at \in Nat \ {0}
  BY DEF Occurs
<1>5. \A k \in 0 .. n : Occurs(f[k], d, at)
  <2> DEFINE R == {k \in 0 .. n : Occurs(f[n - k], d, at)}
  <2>1. 0 \in R
    BY <1>1, <1>2
  <2>2. ASSUME NEW k \in 1 .. n, k - 1 \in R PROVE k \in R
    <3> DEFINE j == n - k + 1
    <3>1. j \in 1 .. n /\ j - 1 = n - k /\ n - (k - 1) = j /\ j - 1 \in 0 .. n
      BY <1>1
    <3> HIDE DEF j
    <3>2. Occurs(f[j], d, at)
      BY <2>2, <3>1
    <3>3. f[j] = f[j - 1] \o seqs[j] /\ f[j - 1] \in Data /\ seqs[j] \in Data
      BY <1>1, <1>3, <3>1
    <3>4. Occurs(f[j - 1], d, at)
      BY <3>2, <3>3, OccursBoth
    <3>5. k \in 0 .. n
      BY <1>1
    <3> QED
      BY <3>1, <3>4, <3>5
  <2>3. 0 .. n \subseteq R
    <3> HIDE DEF R
    <3> QED
      BY <1>1, <2>1, <2>2, Upwards
  <2>4. ASSUME NEW k \in 0 .. n PROVE Occurs(f[k], d, at)
    <3>1. n - k \in 0 .. n /\ n - (n - k) = k
      BY <1>1
    <3>2. n - k \in R
      BY <2>3, <3>1
    <3>3. Occurs(f[n - (n - k)], d, at)
      BY <3>2
    <3> QED
      BY <3>1, <3>3
  <2> QED
    BY <2>4
<1> DEFINE places == [k \in 1 .. n + 1 |-> at + Len(f[k - 1])]
<1>6. ASSUME NEW k \in 1 .. n + 1
      PROVE  /\ places[k] = at + Len(f[k - 1]) /\ places[k] \in Nat \ {0}
             /\ at <= places[k] /\ places[k] <= Len(d) + 1
  <2>1. k - 1 \in 0 .. n
    BY <1>1
  <2>2. f[k - 1] \in Data /\ Len(f[k - 1]) \in Nat
    <3>1. f[k - 1] \in Data
      BY <1>3, <2>1
    <3> QED
      BY <3>1 DEF Data
  <2>3. at + Len(f[k - 1]) <= Len(d) + 1
    BY <1>5, <2>1 DEF Occurs
  <2> QED
    BY <1>4, <2>2, <2>3
<1>7. ASSUME NEW k \in 1 .. n
      PROVE  Occurs(seqs[k], d, places[k]) /\ places[k + 1] = places[k] + Len(seqs[k])
  <2>1. k \in 1 .. n + 1 /\ k + 1 \in 1 .. n + 1 /\ k + 1 - 1 = k /\ k \in 0 .. n
        /\ k - 1 \in 0 .. n
    BY <1>1
  <2>2. f[k] = f[k - 1] \o seqs[k] /\ f[k - 1] \in Data /\ seqs[k] \in Data
    BY <1>1, <1>3, <2>1
  <2>3. places[k] = at + Len(f[k - 1]) /\ places[k + 1] = at + Len(f[k])
    BY <1>6, <2>1
  <2>4. /\ Len(f[k]) = Len(f[k - 1]) + Len(seqs[k]) /\ Len(f[k - 1]) \in Nat
        /\ Len(seqs[k]) \in Nat
    BY <2>2, Joined
  <2>5. Occurs(seqs[k], d, at + Len(f[k - 1]))
    <3>1. Occurs(f[k - 1] \o seqs[k], d, at)
      BY <1>5, <2>1, <2>2
    <3> QED
      BY <2>2, <3>1, OccursBoth
  <2> HIDE DEF places
  <2>6. Occurs(seqs[k], d, places[k])
    BY <2>3, <2>5
  <2>7. places[k + 1] = places[k] + Len(seqs[k])
    <3> DEFINE x == Len(f[k - 1])
               y == Len(seqs[k])
    <3>1. x \in Nat /\ y \in Nat /\ places[k] = at + x /\ places[k + 1] = at + (x + y)
      BY <2>3, <2>4
    <3> HIDE DEF x, y
    <3>2. places[k + 1] = places[k] + y
      BY <1>4, <3>1
    <3> QED
      BY <3>2 DEF y
  <2> QED
    BY <2>6, <2>7
<1>8. places[1] = at /\ places[n + 1] = at + Len(Flat(seqs))
  BY <1>1, <1>2, <1>3, <1>4
<1>9. places \in [1 .. n + 1 -> Nat \ {0}]
  BY <1>6
<1> HIDE DEF places
<1>10. OccurAt(places, seqs, d, at)
  BY <1>6, <1>7, <1>8, <1>9 DEF n, OccurAt
<1> QED
  BY <1>10

-----------------------------------------------------------------------------
(* The zero found is where it should be, if one is found.                  *)
LEMMA EndThere ==
  ASSUME NEW d \in Data, NEW at \in Nat, EndOf(d, at) # 0
  PROVE  EndOf(d, at) \in at .. Len(d) /\ d[EndOf(d, at)] = 0
<1> DEFINE zeros == {i \in at .. Len(d) : d[i] = 0}
<1>1. zeros # {} /\ EndOf(d, at) = Min(zeros)
  BY DEF EndOf
<1>2. zeros \subseteq Nat
  OBVIOUS
<1> HIDE DEF zeros
<1>3. \E x \in zeros : \A y \in zeros : x <= y
  BY <1>1, <1>2, Least
<1>4. Min(zeros) \in zeros
  BY <1>3 DEF Min
<1> QED
  BY <1>1, <1>4 DEF zeros

LEMMA StringData ==
  ASSUME NEW d \in Data, NEW at \in Nat \ {0}, EndOf(d, at) # 0
  PROVE  StringAt(d, at) \in Data
<1>1. EndOf(d, at) \in at .. Len(d)
  BY EndThere
<1> DEFINE e == EndOf(d, at) - 1
<1>2. e \in Int /\ e <= Len(d) /\ at \in Nat \ {0}
  BY <1>1 DEF Data
<1> HIDE DEF e
<1>3. SubSeq(d, at, e) \in Data
  BY <1>2 DEF Data
<1> QED
  BY <1>3 DEF StringAt, e

LEMMA SubSeqHead ==
  ASSUME NEW S, NEW s \in Seq(S), NEW k \in 1 .. Len(s)
  PROVE  <<s[k]>> \o SubSeq(s, k + 1, Len(s)) = SubSeq(s, k, Len(s))
<1> DEFINE t == SubSeq(s, k + 1, Len(s))
           u == SubSeq(s, k, Len(s))
           n == Len(s) - k
<1>1. /\ t \in Seq(S) /\ Len(t) = n /\ n \in Nat
      /\ \A i \in 1 .. n : t[i] = s[k + 1 + (i - 1)]
  OBVIOUS
<1>2. /\ u \in Seq(S) /\ Len(u) = n + 1
      /\ \A i \in 1 .. n + 1 : u[i] = s[k + (i - 1)]
  OBVIOUS
<1>3. s[k] \in S
  OBVIOUS
<1> HIDE DEF t, u, n
<1> DEFINE v == <<s[k]>> \o t
<1>4. /\ v \in Seq(S) /\ Len(v) = n + 1 /\ v[1] = s[k]
      /\ \A i \in 1 .. n : v[1 + i] = t[i]
  BY <1>1, <1>3
<1> HIDE DEF v
<1>5. ASSUME NEW i \in 1 .. n + 1 PROVE v[i] = u[i]
  <2>1. CASE i = 1
    BY <1>1, <1>2, <1>4, <2>1
  <2>2. CASE i # 1
    <3>1. i - 1 \in 1 .. n /\ 1 + (i - 1) = i /\ k + 1 + (i - 1 - 1) = k + (i - 1)
      BY <1>1, <2>2
    <3>2. i - 1 - 1 = (i - 1) - 1
      BY <3>1
    <3> QED
      BY <1>1, <1>2, <1>4, <3>1, <3>2
  <2> QED
    BY <2>1, <2>2
<1>6. v = u
  BY <1>1, <1>2, <1>4, <1>5
<1> QED
  BY <1>6 DEF v, t, u

(* A list read from place to place: what is read at x, item[x], comes      *)
(* before what is read from next[x], up to a place where it stops.         *)
Lists(f, from, to, Stops, item, next) ==
  f = [x \in from .. to |-> IF x \in Stops THEN <<>> ELSE <<item[x]>> \o f[next[x]]]

LEMMA Listed ==
  ASSUME NEW from \in Nat, NEW to \in Nat, from <= to + 1, NEW S, NEW Stops, NEW item,
         NEW next \in [from .. to -> Int],
         \A x \in from .. to :
           x \notin Stops => x < next[x] /\ next[x] <= to /\ item[x] \in S
  PROVE  \E f : Lists(f, from, to, Stops, item, next)
<1> DEFINE base == [x \in from .. to |-> <<>>]
           T == Seq(S)
           step == [y \in (from .. to) \X T |->
                      IF y[1] \in Stops THEN <<>> ELSE <<item[y[1]]>> \o y[2]]
<1>1. base \in [from .. to -> T]
  OBVIOUS
<1>2. step \in [(from .. to) \X T -> T]
  <2>1. ASSUME NEW y \in (from .. to) \X T
        PROVE  (IF y[1] \in Stops THEN <<>> ELSE <<item[y[1]]>> \o y[2]) \in T
    <3>1. y[1] \in from .. to /\ y[2] \in T
      OBVIOUS
    <3>2. CASE y[1] \in Stops
      BY <3>2
    <3>3. CASE y[1] \notin Stops
      <4>1. item[y[1]] \in S
        BY <3>1, <3>3
      <4>2. <<item[y[1]]>> \o y[2] \in T
        BY <3>1, <4>1
      <4> QED
        BY <3>3, <4>2
    <3> QED
      BY <3>2, <3>3
  <2> QED
    BY <2>1
<1>3. PICK g : IteratesBack(g, from, to, T, Stops, base, next, step)
  <2> HIDE DEF T, base, step
  <2> QED
    BY <1>1, <1>2, IteratedBack
<1>4. ASSUME NEW x \in from .. to
      PROVE  g[x] = IF x \in Stops THEN <<>> ELSE <<item[x]>> \o g[next[x]]
  <2>1. CASE x \in Stops
    <3>1. base[x] = <<>>
      OBVIOUS
    <3> QED
      BY <1>3, <2>1, <3>1 DEF IteratesBack
  <2>2. CASE x \notin Stops
    <3>1. next[x] \in from .. to
      BY <2>2
    <3>2. g \in [from .. to -> T] /\ g[x] = step[<<x, g[next[x]]>>]
      BY <1>3, <2>2 DEF IteratesBack
    <3>3. <<x, g[next[x]]>> \in (from .. to) \X T
      BY <3>1, <3>2
    <3>4. step[<<x, g[next[x]]>>] = <<item[x]>> \o g[next[x]]
      <4> HIDE DEF T
      <4> QED
        BY <2>2, <3>3
    <3> QED
      BY <2>2, <3>2, <3>4
  <2> QED
    BY <2>1, <2>2
<1> QED
  BY <1>3, <1>4 DEF IteratesBack, Lists

(* The items, and the places they are read at.                             *)
ItemsAt(items, places, from, to, Stops, item, next) ==
  /\ \A k \in 1 .. Len(items) + 1 : places[k] \in from .. to
  /\ \A k \in 1 .. Len(items) :
       places[k] \notin Stops /\ item[places[k]] = items[k] /\ next[places[k]] = places[k + 1]
  /\ places[Len(items) + 1] \in Stops

LEMMA ListThere ==
  ASSUME NEW from \in Nat, NEW to \in Nat, NEW S, NEW Stops, NEW item, NEW next, NEW f,
         NEW items \in Seq(S), NEW places,
         Lists(f, from, to, Stops, item, next),
         ItemsAt(items, places, from, to, Stops, item, next)
  PROVE  f[places[1]] = items
<1> DEFINE n == Len(items)
<1>1. n \in Nat /\ \A k \in 1 .. n + 1 : places[k] \in from .. to
  BY DEF ItemsAt
<1>a. \A x \in from .. to : f[x] = IF x \in Stops THEN <<>> ELSE <<item[x]>> \o f[next[x]]
  BY Zenon DEF Lists
<1>2. ASSUME NEW k \in 1 .. n PROVE f[places[k]] = <<items[k]>> \o f[places[k + 1]]
  <2>1. places[k] \in from .. to
    BY <1>1
  <2>2. /\ places[k] \notin Stops /\ item[places[k]] = items[k]
        /\ next[places[k]] = places[k + 1]
    BY DEF ItemsAt
  <2>3. f[places[k]] = <<item[places[k]]>> \o f[next[places[k]]]
    BY <1>a, <2>1, <2>2
  <2> QED
    BY <2>2, <2>3
<1>3. f[places[n + 1]] = <<>>
  <2>1. n + 1 \in 1 .. n + 1
    BY <1>1
  <2>2. places[n + 1] \in Stops
    BY DEF ItemsAt
  <2> QED
    BY <1>1, <1>a, <2>1, <2>2
<1> DEFINE T == {k \in 1 .. n + 1 : f[places[k]] = SubSeq(items, k, n)}
<1>4. ASSUME NEW k \in 1 .. n + 1, \A j \in 1 .. n + 1 : k < j => j \in T PROVE k \in T
  <2>1. CASE k = n + 1
    <3>1. SubSeq(items, n + 1, n) = <<>>
      BY <1>1
    <3> QED
      BY <1>3, <2>1, <3>1
  <2>2. CASE k # n + 1
    <3>1. k \in 1 .. n /\ k + 1 \in 1 .. n + 1 /\ k < k + 1
      BY <1>1, <2>2
    <3>2. f[places[k + 1]] = SubSeq(items, k + 1, n)
      BY <1>4, <3>1
    <3>3. <<items[k]>> \o SubSeq(items, k + 1, n) = SubSeq(items, k, n)
      BY <3>1, SubSeqHead
    <3>4. f[places[k]] = SubSeq(items, k, n)
      BY <1>2, <3>1, <3>2, <3>3
    <3> QED
      BY <3>4
  <2> QED
    BY <2>1, <2>2
<1> HIDE DEF T
<1>5. 1 .. n + 1 \subseteq T
  <2>1. n + 1 \in Nat
    BY <1>1
  <2> HIDE DEF n
  <2> QED
    BY <1>4, <2>1, Downwards
<1>6. SubSeq(items, 1, n) = items /\ 1 \in 1 .. n + 1
  OBVIOUS
<1> QED
  BY <1>5, <1>6 DEF T

LEMMA EmptyString ==
  ASSUME NEW d \in Data, NEW p \in Nat \ {0}, p <= Len(d), d[p] = 0
  PROVE  EndOf(d, p) = p
<1>1. <<>> \in CStrings /\ Len(<<>>) = 0
  BY DEF CStrings
<1>2. Occurs(Zero(<<>>), d, p)
  <2> DEFINE z == Zero(<<>>)
  <2>1. Len(z) = 1 /\ z[1] = 0
    <3> DEFINE e == <<>>
    <3>1. e \in CStrings /\ Len(e) = 0
      BY <1>1
    <3> HIDE DEF e
    <3>2. Len(Zero(e)) = Len(e) + 1 /\ Zero(e)[Len(e) + 1] = 0
      BY <3>1, ZeroEnds
    <3>3. Len(Zero(e)) = 1 /\ Zero(e)[1] = 0
      BY <3>1, <3>2
    <3> QED
      BY <3>3 DEF e
  <2> HIDE DEF z
  <2>2. ASSUME NEW i \in 1 .. Len(z) PROVE d[p + i - 1] = z[i]
    <3>1. i = 1 /\ p + i - 1 = p
      BY <2>1
    <3> QED
      BY <2>1, <3>1
  <2>3. Occurs(z, d, p)
    BY <2>1, <2>2 DEF Occurs, Data
  <2> QED
    BY <2>3 DEF z
<1> QED
  BY <1>1, <1>2, StringThere

(* The strings read are the strings written, up to an empty one.           *)
LEMMA StringsThere ==
  ASSUME NEW d \in Data, NEW strings \in Seq(CStrings \ {<<>>}),
         NEW places \in [1 .. Len(strings) + 1 -> Nat \ {0}],
         \A k \in 1 .. Len(strings) + 1 : places[1] <= places[k] /\ places[k] <= Len(d) + 1,
         \A k \in 1 .. Len(strings) :
           /\ Occurs(Zero(strings[k]), d, places[k])
           /\ places[k + 1] = places[k] + Len(strings[k]) + 1,
         places[Len(strings) + 1] <= Len(d) => d[places[Len(strings) + 1]] = 0
  PROVE  StringsFrom(d, places[1]) = strings
<1> DEFINE n == Len(strings)
           from == places[1]
           to == Len(d) + 1
           Stops == {x \in from .. to : x > Len(d) \/ EndOf(d, x) \in {0, x}}
           item == [x \in from .. to |-> StringAt(d, x)]
           next == [x \in from .. to |-> EndOf(d, x) + 1]
           Q(f) == f = [at \in from .. Len(d) + 1 |->
                          IF at > Len(d) \/ EndOf(d, at) \in {0, at} THEN <<>>
                          ELSE <<StringAt(d, at)>> \o f[EndOf(d, at) + 1]]
<1>1. /\ n \in Nat /\ from \in Nat \ {0} /\ to \in Nat /\ from <= to + 1
      /\ \A k \in 1 .. n + 1 : places[k] \in from .. to
      /\ \A k \in 1 .. n : strings[k] \in CStrings /\ strings[k] # <<>>
  <2>1. Len(d) \in Nat /\ n \in Nat /\ 1 \in 1 .. n + 1 /\ n + 1 \in 1 .. n + 1
    BY DEF Data
  <2>2. from \in Nat \ {0} /\ places[n + 1] \in Nat /\ from <= Len(d) + 1
    BY <2>1
  <2> QED
    BY <2>1, <2>2
<1>2. ASSUME NEW x \in from .. to, x \notin Stops
      PROVE  x < next[x] /\ next[x] <= to /\ item[x] \in Data
  <2>1. /\ EndOf(d, x) # 0 /\ x \in Nat \ {0} /\ EndOf(d, x) # x /\ next[x] = EndOf(d, x) + 1
        /\ item[x] = StringAt(d, x)
    BY <1>1, <1>2
  <2>2. EndOf(d, x) \in x .. Len(d)
    BY <2>1, EndThere
  <2>3. StringAt(d, x) \in Data
    BY <2>1, StringData
  <2> HIDE DEF next, from, Stops, item
  <2> QED
    BY <2>1, <2>2, <2>3 DEF Data
<1>3. next \in [from .. to -> Int]
  <2>1. ASSUME NEW x \in from .. to PROVE EndOf(d, x) + 1 \in Int
    <3>1. EndOf(d, x) = 0 \/ EndOf(d, x) \in x .. Len(d)
      BY <1>1, EndThere
    <3> QED
      BY <3>1
  <2> QED
    BY <2>1
<1>4. ASSUME NEW f PROVE Lists(f, from, to, Stops, item, next) <=> Q(f)
  <2>1. \A x \in from .. to :
          /\ x \in Stops <=> x > Len(d) \/ EndOf(d, x) \in {0, x}
          /\ item[x] = StringAt(d, x) /\ next[x] = EndOf(d, x) + 1
    OBVIOUS
  <2>2. [x \in from .. to |-> IF x \in Stops THEN <<>> ELSE <<item[x]>> \o f[next[x]]]
        = [at \in from .. to |-> IF at > Len(d) \/ EndOf(d, at) \in {0, at} THEN <<>>
                                ELSE <<StringAt(d, at)>> \o f[EndOf(d, at) + 1]]
    <3> HIDE DEF from, to, Stops, item, next
    <3> QED
      BY <2>1
  <2> QED
    BY <2>2 DEF Lists
<1>5. PICK g : Lists(g, from, to, Stops, item, next)
  <2> HIDE DEF from, to, Stops, item, next
  <2> QED
    BY <1>1, <1>2, <1>3, Listed
<1> DEFINE f == CHOOSE h : Q(h)
<1>6. Q(f)
  <2>1. Q(g)
    BY <1>4, <1>5
  <2> HIDE DEF Q
  <2> QED
    BY <2>1
<1>7. StringsFrom(d, from) = f[from]
  BY Zenon DEF StringsFrom
<1>8. Lists(f, from, to, Stops, item, next)
  BY <1>4, <1>6
<1>9. ASSUME NEW k \in 1 .. n
      PROVE  /\ places[k] \notin Stops /\ item[places[k]] = strings[k]
             /\ next[places[k]] = places[k + 1]
  <2>1. /\ EndOf(d, places[k]) = places[k] + Len(strings[k])
        /\ StringAt(d, places[k]) = strings[k]
        /\ places[k] + Len(strings[k]) <= Len(d)
    BY <1>1, StringThere
  <2>2. Len(strings[k]) \in Nat \ {0} /\ places[k] \in Nat \ {0} /\ places[k] \in from .. to
    BY <1>1 DEF CStrings
  <2>3. ~(places[k] > Len(d)) /\ EndOf(d, places[k]) \notin {0, places[k]}
    BY <2>1, <2>2 DEF Data
  <2> QED
    BY <2>1, <2>2, <2>3
<1>10. places[n + 1] \in Stops
  <2> DEFINE p == places[n + 1]
  <2>1. p \in from .. to /\ p \in Nat \ {0} /\ Len(d) \in Nat /\ (p <= Len(d) => d[p] = 0)
    BY <1>1, SMTT(30) DEF Data
  <2> HIDE DEF p, from
  <2>2. p > Len(d) \/ EndOf(d, p) = p
    BY <2>1, EmptyString
  <2> QED
    BY <2>1, <2>2 DEF p
<1>11. strings \in Seq(CStrings)
  BY <1>1
<1> HIDE DEF f, from, to, Stops, item, next, Q
<1>12. ItemsAt(strings, places, from, to, Stops, item, next)
  BY <1>1, <1>9, <1>10 DEF ItemsAt
<1>13. f[places[1]] = strings
  BY <1>1, <1>8, <1>11, <1>12, ListThere
<1> QED
  BY <1>7, <1>13 DEF from

-----------------------------------------------------------------------------
(* Cutting a sequence of bytes.                                            *)
LEMMA SameData ==
  ASSUME NEW a \in Data, NEW b \in Data, Len(a) = Len(b), \A i \in 1 .. Len(b) : a[i] = b[i]
  PROVE  a = b
BY DEF Data

(* Of two ways to write a sequence as two, the longer first part starts    *)
(* with the shorter one, and the rest is the rest.                         *)
LEMMA Rest ==
  ASSUME NEW b \in Data, NEW tail \in Data, NEW w \in Data, NEW r \in Data, b \o tail = w \o r,
         Len(w) <= Len(b)
  PROVE  /\ Occurs(w, b, 1) /\ SubSeq(b, Len(w) + 1, Len(b)) \in Data
         /\ SubSeq(b, Len(w) + 1, Len(b)) \o tail = r
<1> DEFINE v == SubSeq(b, Len(w) + 1, Len(b))
<1>1. /\ Len(b) + Len(tail) = Len(w) + Len(r)
      /\ Len(b) \in Nat /\ Len(tail) \in Nat /\ Len(w) \in Nat /\ Len(r) \in Nat
      /\ b \o tail \in Data
  BY Joined
<1>2. /\ \A i \in 1 .. Len(b) : (b \o tail)[i] = b[i]
      /\ \A i \in 1 .. Len(tail) : (b \o tail)[Len(b) + i] = tail[i]
      /\ \A i \in 1 .. Len(w) : (b \o tail)[i] = w[i]
      /\ \A i \in 1 .. Len(r) : (b \o tail)[Len(w) + i] = r[i]
  <2>1. /\ \A i \in 1 .. Len(w) : (w \o r)[i] = w[i]
        /\ \A i \in 1 .. Len(r) : (w \o r)[Len(w) + i] = r[i]
    BY Joined
  <2>2. /\ \A i \in 1 .. Len(b) : (b \o tail)[i] = b[i]
        /\ \A i \in 1 .. Len(tail) : (b \o tail)[Len(b) + i] = tail[i]
    BY Joined
  <2> QED
    BY <2>1, <2>2, Zenon
<1>3. v \in Data /\ Len(v) = Len(b) - Len(w)
      /\ \A i \in 1 .. Len(b) - Len(w) : v[i] = b[Len(w) + i]
  <2>1. b \in Seq(Octets)
    BY DEF Data
  <2> QED
    BY <1>1, <2>1 DEF Data
<1> DEFINE x == b \o tail
           y == v \o tail
<1> HIDE DEF v, x
<1>4. Occurs(w, b, 1)
  BY <1>1, <1>2 DEF Occurs
<1>a. /\ y \in Data /\ Len(y) = Len(v) + Len(tail)
      /\ \A i \in 1 .. Len(v) : y[i] = v[i]
      /\ \A i \in 1 .. Len(tail) : y[Len(v) + i] = tail[i]
  BY <1>3, Joined, Zenon
<1> HIDE DEF y
<1>5. Len(y) = Len(r) /\ Len(v) \in Nat
  BY <1>1, <1>3, <1>a
<1>b. /\ \A i \in 1 .. Len(b) : x[i] = b[i]
      /\ \A i \in 1 .. Len(tail) : x[Len(b) + i] = tail[i]
      /\ \A i \in 1 .. Len(w) : x[i] = w[i]
      /\ \A i \in 1 .. Len(r) : x[Len(w) + i] = r[i]
  BY <1>2, Zenon DEF x
<1>6. ASSUME NEW i \in 1 .. Len(r) PROVE y[i] = r[i]
  <2>1. CASE i <= Len(v)
    <3>1. i \in 1 .. Len(v) /\ i \in 1 .. Len(b) - Len(w) /\ Len(w) + i \in 1 .. Len(b)
      BY <1>1, <1>3, <2>1
    <3> QED
      BY <1>3, <1>a, <1>b, <3>1
  <2>2. CASE ~(i <= Len(v))
    <3> DEFINE j == i - Len(v)
    <3>1. /\ j \in 1 .. Len(tail) /\ Len(v) + j = i /\ Len(b) + j = Len(w) + i
      BY <1>1, <1>3, <1>5, <2>2
    <3> QED
      BY <1>a, <1>b, <3>1, ZenonT(60)
  <2> QED
    BY <2>1, <2>2
<1>7. y = r
  BY <1>a, <1>5, <1>6, SameData
<1> QED
  BY <1>3, <1>4, <1>7 DEF v, y

LEMMA Split ==
  ASSUME NEW d \in Data, NEW n \in 1 .. Len(d)
  PROVE  /\ SubSeq(d, 1, n) \in Data /\ SubSeq(d, n + 1, Len(d)) \in Data
         /\ SubSeq(d, 1, n) \o SubSeq(d, n + 1, Len(d)) = d
<1> DEFINE a == SubSeq(d, 1, n)
           b == SubSeq(d, n + 1, Len(d))
           x == a \o b
<1>1. Len(d) \in Nat /\ n \in Nat /\ n <= Len(d)
  BY DEF Data
<1>2. a \in Data /\ Len(a) = n /\ \A i \in 1 .. n : a[i] = d[i]
  BY <1>1 DEF Data
<1>3. b \in Data /\ Len(b) = Len(d) - n /\ \A i \in 1 .. Len(d) - n : b[i] = d[n + i]
  BY <1>1 DEF Data
<1> HIDE DEF a, b
<1>4. /\ x \in Data /\ Len(x) = Len(a) + Len(b)
      /\ \A i \in 1 .. Len(a) : x[i] = a[i]
      /\ \A i \in 1 .. Len(b) : x[Len(a) + i] = b[i]
  BY <1>2, <1>3, Joined, Zenon
<1> HIDE DEF x
<1>5. ASSUME NEW i \in 1 .. Len(d) PROVE x[i] = d[i]
  <2>1. CASE i <= n
    BY <1>1, <1>2, <1>4, <2>1
  <2>2. CASE ~(i <= n)
    <3> DEFINE j == i - n
    <3>1. j \in 1 .. Len(d) - n /\ n + j = i
      BY <1>1, <2>2
    <3>2. b[j] = d[i]
      BY <1>3, <3>1
    <3>3. j \in 1 .. Len(b) /\ Len(a) + j = i
      BY <1>2, <1>3, <3>1
    <3> HIDE DEF j
    <3> QED
      BY <1>4, <3>2, <3>3
  <2> QED
    BY <2>1, <2>2
<1>6. Len(x) = Len(d)
  BY <1>1, <1>2, <1>3, <1>4
<1>7. x = d
  BY <1>4, <1>5, <1>6, SameData
<1> QED
  BY <1>2, <1>3, <1>7 DEF x, a, b

-----------------------------------------------------------------------------
(* The bytes of messages one after the other, from a place in a history    *)
(* on: code says how a message is written.                                 *)
Coded(code, messages, n) == [i \in 1 .. Len(messages) - n |-> code[messages[n + i]]]

LEMMA CodedData ==
  ASSUME NEW S, NEW code \in [S -> Data], NEW s \in Seq(S), NEW n \in 0 .. Len(s)
  PROVE  Coded(code, s, n) \in Seq(Data) /\ Len(Coded(code, s, n)) = Len(s) - n
<1>1. ASSUME NEW i \in 1 .. Len(s) - n PROVE code[s[n + i]] \in Data
  <2>1. s[n + i] \in S
    OBVIOUS
  <2> QED
    BY <2>1
<1> QED
  BY <1>1 DEF Coded

LEMMA CodedNone ==
  ASSUME NEW code, NEW s, NEW n, n = Len(s), Len(s) \in Nat
  PROVE  Coded(code, s, n) = <<>>
<1> DEFINE c == Coded(code, s, n)
<1>1. 1 .. Len(s) - n = {} /\ 1 .. 0 = {}
  OBVIOUS
<1>2. c = [i \in {} |-> code[s[n + i]]]
  BY <1>1, Zenon DEF Coded
<1>3. c \in Seq(Int) /\ Len(c) = 0
  <2>1. c \in [1 .. 0 -> Int]
    BY <1>1, <1>2
  <2> HIDE DEF c
  <2> QED
    BY <2>1, SeqDef
<1> HIDE DEF c
<1>4. c = <<>>
  BY <1>3
<1> QED
  BY <1>4 DEF c

LEMMA CodedAppend ==
  ASSUME NEW S, NEW code \in [S -> Data], NEW s \in Seq(S), NEW n \in 0 .. Len(s), NEW m \in S
  PROVE  Coded(code, Append(s, m), n) = Append(Coded(code, s, n), code[m])
<1> DEFINE t == Append(s, m)
<1>1. /\ t \in Seq(S) /\ Len(t) = Len(s) + 1 /\ Len(s) \in Nat
      /\ \A i \in 1 .. Len(s) : t[i] = s[i]
      /\ t[Len(s) + 1] = m
  OBVIOUS
<1>2. /\ Coded(code, s, n) \in Seq(Data) /\ Len(Coded(code, s, n)) = Len(s) - n
      /\ Coded(code, t, n) \in Seq(Data) /\ Len(Coded(code, t, n)) = Len(s) + 1 - n
      /\ code[m] \in Data
  <2>1. n \in 0 .. Len(t)
    BY <1>1
  <2> HIDE DEF t
  <2>2. Coded(code, s, n) \in Seq(Data) /\ Len(Coded(code, s, n)) = Len(s) - n
    BY CodedData
  <2>3. Coded(code, t, n) \in Seq(Data) /\ Len(Coded(code, t, n)) = Len(t) - n
    BY <1>1, <2>1, CodedData
  <2>4. code[m] \in Data
    OBVIOUS
  <2> QED
    BY <1>1, <2>2, <2>3, <2>4
<1>3. /\ \A i \in 1 .. Len(s) - n : Coded(code, s, n)[i] = code[s[n + i]]
      /\ \A i \in 1 .. Len(t) - n : Coded(code, t, n)[i] = code[t[n + i]]
  BY DEF Coded
<1> DEFINE a == Coded(code, s, n)
           b == Coded(code, t, n)
           x == code[m]
           k == Len(s) - n
<1>4. a \in Seq(Data) /\ Len(a) = k /\ b \in Seq(Data) /\ Len(b) = k + 1 /\ x \in Data /\ k \in Nat
  BY <1>1, <1>2
<1>5. \A i \in 1 .. k : b[i] = a[i]
  <2> SUFFICES ASSUME NEW i \in 1 .. k PROVE b[i] = a[i]
    OBVIOUS
  <2>1. n + i \in 1 .. Len(s) /\ i \in 1 .. Len(t) - n
    BY <1>1
  <2> QED
    BY <1>1, <1>3, <2>1
<1>6. b[k + 1] = x
  <2>1. n + (k + 1) = Len(s) + 1 /\ k + 1 \in 1 .. Len(t) - n
    BY <1>1
  <2> QED
    BY <1>1, <1>3, <2>1
<1> HIDE DEF a, b, x, k
<1>7. b = Append(a, x)
  BY <1>4, <1>5, <1>6
<1> QED
  BY <1>7 DEF a, b, x

LEMMA CodedHead ==
  ASSUME NEW S, NEW code \in [S -> Data], NEW s \in Seq(S), NEW n \in 0 .. Len(s), n # Len(s)
  PROVE  Flat(Coded(code, s, n)) = code[s[n + 1]] \o Flat(Coded(code, s, n + 1))
<1> DEFINE a == Coded(code, s, n)
           b == Coded(code, s, n + 1)
           k == Len(s) - n - 1
           t == SubSeq(a, 2, k + 1)
<1>1. Len(s) \in Nat /\ n \in Nat /\ k \in Nat /\ n + 1 \in 0 .. Len(s)
  OBVIOUS
<1>2. a \in Seq(Data) /\ Len(a) = k + 1 /\ b \in Seq(Data) /\ Len(b) = k
  BY <1>1, CodedData
<1>3. /\ \A i \in 1 .. k + 1 : a[i] = code[s[n + i]]
      /\ \A i \in 1 .. k : b[i] = code[s[n + 1 + i]]
  BY <1>1 DEF Coded
<1>4. \A i \in 1 .. k : b[i] = a[i + 1]
  <2> SUFFICES ASSUME NEW i \in 1 .. k PROVE b[i] = a[i + 1]
    OBVIOUS
  <2>1. i + 1 \in 1 .. k + 1 /\ n + 1 + i = n + (i + 1)
    BY <1>1
  <2> QED
    BY <1>3, <2>1
<1>5. a[1] = code[s[n + 1]]
  BY <1>1, <1>3
<1> HIDE DEF a, b, k
<1>6. t = b
  BY <1>1, <1>2, <1>4
<1>7. Flat(a) = a[1] \o Flat(t)
  BY <1>1, <1>2, FlatHead
<1> QED
  BY <1>5, <1>6, <1>7 DEF a, b
=============================================================================
