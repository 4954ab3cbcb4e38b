-------------------------- MODULE AdaptiveChunking --------------------------
(***************************************************************************)
(* The controller of the chunk size (adaptive_chunking.rs).  Each          *)
(* observation of the result channel goes into a window; a full window     *)
(* whose average is outside 20..80 per cent changes the size by a factor   *)
(* of 1.5, not more often than once an interval, and empties the window.   *)
(*                                                                         *)
(* The controller is called from one task.  Its callers choose what they   *)
(* observe and when, and the bounds; streaming_query makes a controller    *)
(* and never asks it anything (conn.rs:800).  Products of chunk sizes do   *)
(* not come near the width of usize or the precision of f64.               *)
(***************************************************************************)
EXTENDS Integers, Sequences

CONSTANTS
  Window,        \* adjustment_window
  Interval,      \* min_adjustment_interval, in ticks
  DefaultSize, DefaultMin, DefaultMax,
  Observations,  \* <<items buffered, capacity>> observed
  Bounds         \* <<min, max>> given to with_bounds

ASSUME SizesAssumption ==
  /\ {DefaultSize, DefaultMin, DefaultMax} \subseteq Nat
  /\ 1 <= DefaultMin /\ DefaultMin <= DefaultSize /\ DefaultSize <= DefaultMax
ASSUME WindowAssumption == Window \in Nat \ {0} /\ Interval \in Nat
ASSUME InputsAssumption == Observations \subseteq Nat \X Nat /\ Bounds \subseteq Nat \X Nat

VARIABLES
  size,          \* current_size
  minSize, maxSize,
  measurements,  \* the percentages in the window
  elapsed,       \* ticks since the last adjustment, up to Interval; Interval if none
  latest,        \* history: the last Window observations, of the last change or after
  fresh          \* history: observations since the last change, up to Window

adaptiveVars == <<size, minSize, maxSize, measurements, elapsed, latest, fresh>>

-----------------------------------------------------------------------------
AdaptiveInit ==
  /\ size = DefaultSize /\ minSize = DefaultMin /\ maxSize = DefaultMax
  /\ measurements = <<>> /\ elapsed = Interval
  /\ latest = <<>> /\ fresh = 0

Lesser(a, b) == IF a < b THEN a ELSE b
Greater(a, b) == IF a > b THEN a ELSE b

(* checked_div: a channel without capacity counts as empty.                *)
Percentage(o) == IF o[2] = 0 THEN 0 ELSE Lesser(100, (o[1] * 100) \div o[2])

LastOf(window) == IF Len(window) > Window THEN Tail(window) ELSE window

Total(window) ==
  LET sum[i \in 0 .. Len(window)] == IF i = 0 THEN 0 ELSE sum[i - 1] + window[i]
  IN  sum[Len(window)]
Average(window) == IF window = <<>> THEN 0 ELSE Total(window) \div Len(window)

ShouldAdjust(window) == elapsed = Interval /\ Average(window) \notin 20 .. 80

(* Faulty variant: the smaller size is rounded up, as the larger one is.   *)
RoundedUpSize(average) ==
  CASE average > 80 -> Greater((2 * size + 2) \div 3, minSize)
    [] average < 20 -> Lesser((3 * size + 1) \div 2, maxSize)
    [] OTHER -> size

(* Divided by 1.5 and rounded down, or multiplied by 1.5 and rounded up,   *)
(* and clamped on the side it moves to.                                    *)
NewSize(average) ==
  CASE average > 80 -> Greater((2 * size) \div 3, minSize)
    [] average < 20 -> Lesser((3 * size + 1) \div 2, maxSize)
    [] OTHER -> size

(* Faulty variant: an adjustment leaves the window as it is.               *)
ObserveWithoutClear(o) ==
  LET window == LastOf(Append(measurements, Percentage(o)))
      newSize == NewSize(Average(window))
      adjust == Len(window) = Window /\ ShouldAdjust(window) /\ newSize # size
  IN  /\ measurements' = window
      /\ IF adjust THEN size' = newSize /\ elapsed' = 0 /\ fresh' = 0
         ELSE UNCHANGED <<size, elapsed>> /\ fresh' = Lesser(Window, fresh + 1)
      /\ latest' = window
      /\ UNCHANGED <<minSize, maxSize>>

Observe(o) ==
  LET window == LastOf(Append(measurements, Percentage(o)))
      newSize == NewSize(Average(window))
      adjust == Len(window) = Window /\ ShouldAdjust(window) /\ newSize # size
  IN  /\ IF adjust THEN size' = newSize /\ elapsed' = 0 /\ measurements' = <<>> /\ fresh' = 0
         ELSE /\ measurements' = window /\ fresh' = Lesser(Window, fresh + 1)
              /\ UNCHANGED <<size, elapsed>>
      /\ latest' = LastOf(Append(IF fresh = 0 THEN <<>> ELSE latest, Percentage(o)))
      /\ UNCHANGED <<minSize, maxSize>>

(* Faulty variant: the size is left outside its new bounds.                *)
WithBoundsUnclamped(b) ==
  /\ b[1] # 0 /\ b[2] >= b[1]
  /\ minSize' = b[1] /\ maxSize' = b[2]
  /\ UNCHANGED <<size, measurements, elapsed, latest, fresh>>

(* Bounds that make no sense are ignored.  The window and the time of the  *)
(* last adjustment are kept.                                               *)
WithBounds(b) ==
  /\ IF b[1] = 0 \/ b[2] < b[1] THEN UNCHANGED <<minSize, maxSize, size>>
     ELSE /\ minSize' = b[1] /\ maxSize' = b[2]
          /\ size' = Lesser(Greater(size, b[1]), b[2])
  /\ UNCHANGED <<measurements, elapsed, latest, fresh>>

(* Time (external).                                                        *)
Tick ==
  /\ elapsed < Interval /\ elapsed' = elapsed + 1
  /\ UNCHANGED <<size, minSize, maxSize, measurements, latest, fresh>>

AdaptiveNext ==
  \/ \E o \in Observations : Observe(o)
  \/ \E b \in Bounds : WithBounds(b)
  \/ Tick

AdaptiveSpec == AdaptiveInit /\ [][AdaptiveNext]_adaptiveVars

-----------------------------------------------------------------------------
(* At all times the window holds at most Window percentages, and the       *)
(* histories agree with it in length.                                      *)
AdaptiveType ==
  /\ size \in Nat /\ minSize \in Nat /\ maxSize \in Nat
  /\ measurements \in Seq(0 .. 100) /\ Len(measurements) <= Window
  /\ elapsed \in 0 .. Interval
  /\ latest \in Seq(0 .. 100) /\ fresh \in 0 .. Window

(* Whatever is observed and whatever bounds are set in between, the size   *)
(* stays within the bounds in force and never reaches 0, of which a        *)
(* channel could not be made.                                              *)
SizeWithinBounds == 1 <= minSize /\ minSize <= size /\ size <= maxSize

(* Not by new bounds, which may move it too.                               *)
Changed == size' # size /\ UNCHANGED <<minSize, maxSize>>

(* An adjustment rests on a whole window observed since the one before, so *)
(* that what was seen of the channel of the old size does not count twice. *)
(* It makes the size smaller only when that window averages above 80 per   *)
(* cent and larger only below 20, by the factor of 1.5 or to a bound; and  *)
(* it comes an interval after the one before.                              *)
AdjustsOnEvidence ==
  [][Changed =>
       /\ fresh + 1 >= Window /\ elapsed = Interval
       /\ size' < size => /\ Average(latest') > 80
                          /\ size' = minSize \/ 2 * size - 3 * size' \in 0 .. 2
       /\ size' > size => /\ Average(latest') < 20
                          /\ size' = maxSize \/ 2 * size' - 3 * size \in 0 .. 1
    ]_adaptiveVars

(* A channel that stays full and goes on being observed brings the size    *)
(* all the way down to its bound: no rounding stops it on the way.         *)
ObserveFull == \E o \in Observations : Percentage(o) > 80 /\ Observe(o)
StaysFull ==
  /\ <>[][ObserveFull \/ Tick]_adaptiveVars
  /\ WF_adaptiveVars(ObserveFull) /\ WF_adaptiveVars(Tick)
ReachesBound == StaysFull => <>[](size = minSize)
=============================================================================
