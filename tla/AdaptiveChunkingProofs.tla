----------------------- MODULE AdaptiveChunkingProofs -----------------------
(***************************************************************************)
(* Theorems about AdaptiveChunking, for every window, interval, size,      *)
(* observation and bound.                                                  *)
(***************************************************************************)
EXTENDS AdaptiveChunking, SequenceTheorems, TLAPS

(* SizeWithinBounds is inductive once the three sizes are known to be      *)
(* numbers.                                                                *)
BoundsInv == size \in Nat /\ minSize \in Nat /\ maxSize \in Nat /\ SizeWithinBounds

(* Dividing by 1.5 does not raise a size, multiplying by it does not lower *)
(* one, and both give natural numbers.                                     *)
LEMMA Scaling ==
  ASSUME NEW s \in Nat
  PROVE  /\ (2 * s) \div 3 \in Nat /\ (2 * s) \div 3 <= s
         /\ (3 * s + 1) \div 2 \in Nat /\ s <= (3 * s + 1) \div 2
  OBVIOUS

(* A size within the bounds is scaled to a size within the bounds.         *)
LEMMA NewSizeWithinBounds ==
  ASSUME BoundsInv, NEW average
  PROVE  NewSize(average) \in Nat /\ minSize <= NewSize(average) /\ NewSize(average) <= maxSize
  <1> DEFINE down == (2 * size) \div 3
             up == (3 * size + 1) \div 2
  <1>1. down \in Nat /\ down <= size /\ up \in Nat /\ size <= up
    BY Scaling DEF BoundsInv
  <1>2. Greater(down, minSize) \in minSize .. maxSize
    <2> HIDE DEF down
    <2> QED BY <1>1 DEF BoundsInv, SizeWithinBounds, Greater
  <1>3. Lesser(up, maxSize) \in minSize .. maxSize
    <2> HIDE DEF up
    <2> QED BY <1>1 DEF BoundsInv, SizeWithinBounds, Lesser
  <1>4. size \in minSize .. maxSize
    BY DEF BoundsInv, SizeWithinBounds
  <1>5. NewSize(average) \in {Greater(down, minSize), Lesser(up, maxSize), size}
    BY DEF NewSize
  <1>6. NewSize(average) \in minSize .. maxSize
    BY <1>2, <1>3, <1>4, <1>5
  <1> QED BY <1>6 DEF BoundsInv

LEMMA BoundsInit == AdaptiveInit => BoundsInv
  BY SizesAssumption DEF AdaptiveInit, BoundsInv, SizeWithinBounds

LEMMA BoundsStep == BoundsInv /\ [AdaptiveNext]_adaptiveVars => BoundsInv'
  <1> SUFFICES ASSUME BoundsInv, [AdaptiveNext]_adaptiveVars PROVE BoundsInv'
    OBVIOUS
  <1>1. CASE \E o \in Observations : Observe(o)
    <2> PICK o \in Observations : Observe(o)
      BY <1>1
    <2> DEFINE window == LastOf(Append(measurements, Percentage(o)))
               newSize == NewSize(Average(window))
    <2>1. size' \in {newSize, size} /\ UNCHANGED <<minSize, maxSize>>
      BY DEF Observe
    <2>2. newSize \in Nat /\ minSize <= newSize /\ newSize <= maxSize
      BY NewSizeWithinBounds
    <2> HIDE DEF newSize
    <2> QED BY <2>1, <2>2 DEF BoundsInv, SizeWithinBounds
  <1>2. CASE \E b \in Bounds : WithBounds(b)
    <2> PICK b \in Bounds : WithBounds(b)
      BY <1>2
    <2>1. b[1] \in Nat /\ b[2] \in Nat
      BY InputsAssumption
    <2> QED BY <2>1 DEF WithBounds, BoundsInv, SizeWithinBounds, Lesser, Greater
  <1>3. CASE Tick
    BY <1>3 DEF Tick, BoundsInv, SizeWithinBounds
  <1>4. CASE UNCHANGED adaptiveVars
    BY <1>4 DEF adaptiveVars, BoundsInv, SizeWithinBounds
  <1> QED BY <1>1, <1>2, <1>3, <1>4 DEF AdaptiveNext

(* The chunk size is within the bounds in force, and not 0, whatever is    *)
(* observed and whatever bounds are set.                                   *)
THEOREM WithinBounds == AdaptiveSpec => []SizeWithinBounds
  <1>1. BoundsInv => SizeWithinBounds
    BY DEF BoundsInv
  <1> QED BY <1>1, BoundsInit, BoundsStep, PTL DEF AdaptiveSpec

-----------------------------------------------------------------------------
(* The window is what was observed since the last adjustment, up to Window *)
(* observations of it: fresh counts them and latest keeps them.            *)
WindowInv ==
  /\ measurements \in Seq(0 .. 100)
  /\ latest \in Seq(0 .. 100)
  /\ measurements = (IF fresh = 0 THEN <<>> ELSE latest)
  /\ Len(measurements) = fresh
  /\ fresh \in 0 .. Window
  /\ elapsed \in 0 .. Interval

LEMMA Quotient ==
  ASSUME NEW a \in Nat, NEW b \in Nat \ {0}
  PROVE  a \div b \in Nat
  OBVIOUS

LEMMA PercentageType ==
  ASSUME NEW o \in Observations
  PROVE  Percentage(o) \in 0 .. 100
  <1>1. o[1] \in Nat /\ o[2] \in Nat
    BY InputsAssumption
  <1>2. CASE o[2] = 0
    BY <1>2 DEF Percentage
  <1>3. CASE o[2] # 0
    <2> DEFINE q == (o[1] * 100) \div o[2]
    <2>1. q \in Nat
      BY <1>1, <1>3, Quotient
    <2> HIDE DEF q
    <2>2. Lesser(100, q) \in 0 .. 100
      BY <2>1 DEF Lesser
    <2> QED BY <2>2, <1>3 DEF Percentage, q
  <1> QED BY <1>2, <1>3

(* What a window becomes when one percentage is pushed into it.            *)
LEMMA Pushed ==
  ASSUME NEW w \in Seq(0 .. 100), Len(w) <= Window, NEW p \in 0 .. 100
  PROVE  /\ LastOf(Append(w, p)) \in Seq(0 .. 100)
         /\ Len(LastOf(Append(w, p))) = Lesser(Window, Len(w) + 1)
  <1>1. Append(w, p) \in Seq(0 .. 100) /\ Len(Append(w, p)) = Len(w) + 1
    BY AppendProperties
  <1>2. Append(w, p) # <<>>
    BY AppendProperties
  <1>3. Tail(Append(w, p)) \in Seq(0 .. 100) /\ Len(Tail(Append(w, p))) = Len(w)
    BY <1>1, <1>2, HeadTailProperties, LenProperties
  <1>4. Len(w) \in Nat /\ Window \in Nat \ {0}
    BY WindowAssumption, LenProperties
  <1>5. CASE Len(w) + 1 > Window
    <2>1. LastOf(Append(w, p)) = Tail(Append(w, p))
      BY <1>1, <1>5 DEF LastOf
    <2> QED BY <2>1, <1>3, <1>4, <1>5 DEF Lesser
  <1>6. CASE ~(Len(w) + 1 > Window)
    <2>1. LastOf(Append(w, p)) = Append(w, p)
      BY <1>1, <1>6 DEF LastOf
    <2> QED BY <2>1, <1>1, <1>4, <1>6 DEF Lesser
  <1> QED BY <1>5, <1>6

(* The window an observation makes.                                        *)
WindowWith(o) == LastOf(Append(measurements, Percentage(o)))

LEMMA WindowWithType ==
  ASSUME WindowInv, NEW o \in Observations
  PROVE  /\ WindowWith(o) \in Seq(0 .. 100)
         /\ Len(WindowWith(o)) = Lesser(Window, fresh + 1)
         /\ LastOf(Append(IF fresh = 0 THEN <<>> ELSE latest, Percentage(o))) = WindowWith(o)
  <1>1. Len(measurements) <= Window
    BY WindowAssumption DEF WindowInv
  <1>2. measurements \in Seq(0 .. 100) /\ Len(measurements) = fresh
    BY DEF WindowInv
  <1>3. Percentage(o) \in 0 .. 100
    BY PercentageType
  <1>4. measurements = (IF fresh = 0 THEN <<>> ELSE latest)
    BY DEF WindowInv
  <1> QED BY <1>1, <1>2, <1>3, <1>4, Pushed DEF WindowWith

LEMMA WindowInit == AdaptiveInit => WindowInv
  <1>1. <<>> \in Seq(0 .. 100) /\ Len(<<>>) = 0
    BY EmptySeq
  <1> QED BY <1>1, WindowAssumption DEF AdaptiveInit, WindowInv

LEMMA WindowObserve ==
  ASSUME WindowInv, NEW o \in Observations, Observe(o)
  PROVE  WindowInv'
  <1>1. /\ WindowWith(o) \in Seq(0 .. 100) /\ Len(WindowWith(o)) = Lesser(Window, fresh + 1)
        /\ latest' = WindowWith(o)
    BY WindowWithType DEF Observe
  <1>2. /\ fresh \in 0 .. Window /\ Window \in Nat \ {0}
        /\ Interval \in Nat /\ elapsed \in 0 .. Interval
    BY WindowAssumption DEF WindowInv
  <1>3. \/ elapsed' = 0 /\ measurements' = <<>> /\ fresh' = 0
        \/ elapsed' = elapsed /\ measurements' = WindowWith(o) /\ fresh' = Lesser(Window, fresh + 1)
    BY DEF Observe, WindowWith
  <1>4. CASE elapsed' = 0 /\ measurements' = <<>> /\ fresh' = 0
    <2>1. <<>> \in Seq(0 .. 100) /\ Len(<<>>) = 0
      BY EmptySeq
    <2> QED BY <2>1, <1>1, <1>2, <1>4 DEF WindowInv
  <1>5. CASE /\ elapsed' = elapsed /\ measurements' = WindowWith(o)
             /\ fresh' = Lesser(Window, fresh + 1)
    <2>1. Lesser(Window, fresh + 1) \in 1 .. Window
      BY <1>2 DEF Lesser
    <2> QED BY <2>1, <1>1, <1>2, <1>5 DEF WindowInv
  <1> QED BY <1>3, <1>4, <1>5

LEMMA WindowStep == WindowInv /\ [AdaptiveNext]_adaptiveVars => WindowInv'
  <1> SUFFICES ASSUME WindowInv, [AdaptiveNext]_adaptiveVars PROVE WindowInv'
    OBVIOUS
  <1>1. CASE \E o \in Observations : Observe(o)
    BY <1>1, WindowObserve
  <1>2. CASE \E b \in Bounds : WithBounds(b)
    BY <1>2 DEF WithBounds, WindowInv
  <1>3. CASE Tick
    BY <1>3, WindowAssumption DEF Tick, WindowInv
  <1>4. CASE UNCHANGED adaptiveVars
    BY <1>4 DEF adaptiveVars, WindowInv
  <1> QED BY <1>1, <1>2, <1>3, <1>4 DEF AdaptiveNext

(* The variables of the controller keep their types: the window holds no   *)
(* more than Window percentages.                                           *)
THEOREM TypeCorrect == AdaptiveSpec => []AdaptiveType
  <1>1. BoundsInv /\ WindowInv => AdaptiveType
    BY WindowAssumption DEF BoundsInv, WindowInv, AdaptiveType
  <1> QED BY <1>1, BoundsInit, BoundsStep, WindowInit, WindowStep, PTL DEF AdaptiveSpec

-----------------------------------------------------------------------------
(* What the scaling may come to, on either side.                           *)
LEMMA Shrinks ==
  ASSUME BoundsInv
  PROVE  LET new == Greater((2 * size) \div 3, minSize)
         IN  new <= size /\ (new = minSize \/ 2 * size - 3 * new \in 0 .. 2)
  BY DEF BoundsInv, SizeWithinBounds, Greater

LEMMA Grows ==
  ASSUME BoundsInv
  PROVE  LET new == Lesser((3 * size + 1) \div 2, maxSize)
         IN  size <= new /\ (new = maxSize \/ 2 * new - 3 * size \in 0 .. 1)
  BY DEF BoundsInv, SizeWithinBounds, Lesser

(* An observation that changes the size.                                   *)
LEMMA ObserveOnEvidence ==
  ASSUME BoundsInv, WindowInv, NEW o \in Observations, Observe(o), size' # size
  PROVE  /\ fresh + 1 >= Window /\ elapsed = Interval
         /\ size' < size => /\ Average(latest') > 80
                            /\ size' = minSize \/ 2 * size - 3 * size' \in 0 .. 2
         /\ size' > size => /\ Average(latest') < 20
                            /\ size' = maxSize \/ 2 * size' - 3 * size \in 0 .. 1
  <1> DEFINE w == WindowWith(o)
             average == Average(w)
             down == Greater((2 * size) \div 3, minSize)
             up == Lesser((3 * size + 1) \div 2, maxSize)
  <1>1. Len(w) = Lesser(Window, fresh + 1) /\ latest' = w
    BY WindowWithType DEF Observe
  <1>2. Len(w) = Window /\ elapsed = Interval /\ size' = NewSize(average)
    BY DEF Observe, WindowWith, ShouldAdjust
  <1>3. fresh + 1 >= Window
    BY <1>1, <1>2, WindowAssumption DEF WindowInv, Lesser
  <1>4. (average > 80 /\ size' = down) \/ (average < 20 /\ size' = up)
    <2> HIDE DEF w
    <2> QED BY <1>2 DEF NewSize
  <1>5. down <= size /\ (down = minSize \/ 2 * size - 3 * down \in 0 .. 2)
    BY Shrinks
  <1>6. size <= up /\ (up = maxSize \/ 2 * up - 3 * size \in 0 .. 1)
    BY Grows
  <1>7. size \in Nat /\ down \in Nat /\ up \in Nat
    BY Scaling DEF BoundsInv, Greater, Lesser
  <1>8. Average(latest') = average
    BY <1>1
  <1> HIDE DEF average, down, up
  <1> QED BY <1>2, <1>3, <1>4, <1>5, <1>6, <1>7, <1>8

(* An adjustment rests on a whole window observed since the one before and *)
(* on an interval, goes against what the window shows, and by the factor   *)
(* or to a bound.                                                          *)
THEOREM OnEvidence == AdaptiveSpec => AdjustsOnEvidence
  <1> DEFINE Evidence ==
        /\ fresh + 1 >= Window /\ elapsed = Interval
        /\ size' < size => /\ Average(latest') > 80
                           /\ size' = minSize \/ 2 * size - 3 * size' \in 0 .. 2
        /\ size' > size => /\ Average(latest') < 20
                           /\ size' = maxSize \/ 2 * size' - 3 * size \in 0 .. 1
  <1>1. ASSUME BoundsInv, WindowInv, [AdaptiveNext]_adaptiveVars
        PROVE  [Changed => Evidence]_adaptiveVars
    <2> SUFFICES ASSUME Changed PROVE Evidence
      OBVIOUS
    <2>1. CASE \E o \in Observations : Observe(o)
      BY <1>1, <2>1, ObserveOnEvidence DEF Changed
    <2>2. CASE \E b \in Bounds : WithBounds(b)
      <3> PICK b \in Bounds : WithBounds(b)
        BY <2>2
      <3>1. minSize' = minSize /\ maxSize' = maxSize /\ size' # size
        BY DEF Changed
      <3>2. size' = Lesser(Greater(size, minSize), maxSize)
        BY <3>1 DEF WithBounds
      <3>3. size' = size
        BY <1>1, <3>2 DEF BoundsInv, SizeWithinBounds, Lesser, Greater
      <3> QED BY <3>1, <3>3
    <2>3. CASE Tick
      BY <2>3 DEF Tick, Changed
    <2>4. CASE UNCHANGED adaptiveVars
      BY <2>4 DEF adaptiveVars, Changed
    <2> QED BY <1>1, <2>1, <2>2, <2>3, <2>4 DEF AdaptiveNext
  <1> QED BY <1>1, BoundsInit, BoundsStep, WindowInit, WindowStep, PTL
          DEF AdaptiveSpec, AdjustsOnEvidence
=============================================================================
