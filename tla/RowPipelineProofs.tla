-------------------------- MODULE RowPipelineProofs --------------------------
(***************************************************************************)
(* Proofs about RowPipeline, for every chunk size, batch size, memory      *)
(* limit and length of the result: what is buffered, what the consumer     *)
(* gets, that the pipeline implements ResultStream, and that all of this   *)
(* holds with the pause() and resume() of PausableStream as well.          *)
(***************************************************************************)
EXTENDS PausableStream, SequenceTheorems, TLAPS

(* What each program point says about the reader's buffers, and the sizes  *)
(* they keep.                                                              *)
Shape ==
  /\ pc \in Flushing => chunk = <<>>
  /\ pc \notin Flushing => rows = <<>> /\ batch = <<>>
  /\ pc = "send" => batch # <<>>
  /\ pc = "sendRowErr" => rows # <<>>
  /\ pc \in {"sendFieldErr", "sendLast"} => rcvd > 0
  /\ Len(chunk) < ChunkSize
  /\ Len(rows) + Len(batch) <= ChunkSize
  /\ Len(chan) <= ChunkSize
  /\ handle # "live" => chan = <<>>
  /\ Ended => pc = "done" /\ chan = <<>>

LEMMA InitShape == Init => TypeOK /\ Shape
<1> USE ChunkAssumption, BatchAssumption, MemAssumption, WireAssumption
<1> SUFFICES ASSUME Init PROVE TypeOK /\ Shape
  OBVIOUS
<1>1. /\ <<>> \in Seq(Kinds) /\ <<>> \in Seq(Positions) /\ Len(<<>>) = 0
  BY EmptySeq
<1>2. TypeOK
  <2>1. polling \in BOOLEAN
    BY DEF Init
  <2> QED
    BY <1>1, <2>1, SMTT(30) DEF Init, TypeOK, PCs
<1>3. Shape
  BY <1>1 DEF Init, Shape, Flushing, Ended
<1> QED
  BY <1>2, <1>3

LEMMA StepShape == TypeOK /\ Shape /\ [Next]_vars => TypeOK' /\ Shape'
<1> USE ChunkAssumption, BatchAssumption, MemAssumption, WireAssumption
<1> SUFFICES ASSUME TypeOK, Shape, [Next]_vars PROVE TypeOK' /\ Shape'
  OBVIOUS
<1>0. /\ wire \in Seq(Kinds) /\ Len(wire) \in Nat
      /\ \A s \in {chunk, rows, batch, chan, delivered} : s \in Seq(Positions) /\ Len(s) \in Nat
      /\ <<>> \in Seq(Positions) /\ Len(<<>>) = 0
      /\ rcvd \in Nat /\ rcvd <= Len(wire) /\ rcvd + 1 \in Positions
  BY EmptySeq, LenProperties DEF TypeOK, Positions
<1>1. CASE Server
  <2>1. PICK k \in Kinds : wire' = Append(wire, k)
    BY <1>1 DEF Server, ServerRow, ServerOther, ServerFinishes, ServerReady, ServerSends,
             Kinds, RowKinds
  <2>2. wire' \in Seq(Kinds) /\ Len(wire') = Len(wire) + 1
    BY <1>0, <2>1, AppendProperties
  <2>3. /\ server' \in {"rows", "closing", "idle", "gone"}
        /\ UNCHANGED <<readerVars, chan, consumerVars>>
    BY <1>1 DEF Server, ServerRow, ServerOther, ServerFinishes, ServerReady, ServerSends
  <2>a. TypeOK'
    BY <1>0, <2>2, <2>3
    DEF TypeOK, PCs, Flushing, Outcomes, serverVars,
        readerVars, consumerVars
  <2>b. Shape'
    BY <1>0, <2>2, <2>3
    DEF TypeOK, Shape, Flushing, Ended, serverVars,
        readerVars, consumerVars
  <2> QED
    BY <2>a, <2>b
<1>2. CASE ConnectionLost
  <2>1. PICK n \in rcvd .. Len(wire) : wire' = Append(SubSeq(wire, 1, n), "lost")
    BY <1>2 DEF ConnectionLost
  <2>2. /\ n \in Nat /\ n >= rcvd
        /\ \A i \in 1 .. n : wire[i] \in Kinds
    BY <1>0, <2>1, ElementOfSeq
  <2>3. SubSeq(wire, 1, n) \in Seq(Kinds) /\ Len(SubSeq(wire, 1, n)) = n
    BY <2>2, SubSeqProperties
  <2>4. wire' \in Seq(Kinds) /\ Len(wire') = n + 1
    BY <2>1, <2>3, AppendProperties DEF Kinds
  <2>5. server' = "gone" /\ UNCHANGED <<readerVars, chan, consumerVars>>
    BY <1>2 DEF ConnectionLost
  <2>a. TypeOK'
    BY <1>0, <2>2, <2>4, <2>5
    DEF TypeOK, PCs, Flushing, Outcomes, serverVars,
        readerVars, consumerVars
  <2>b. Shape'
    BY <1>0, <2>2, <2>4, <2>5
    DEF TypeOK, Shape, Flushing, Ended, serverVars,
        readerVars, consumerVars
  <2> QED
    BY <2>a, <2>b
<1>3. CASE ReceiveRow
  <2> DEFINE grown == Append(chunk, rcvd + 1)
  <2>1. grown \in Seq(Positions) /\ Len(grown) = Len(chunk) + 1
    BY <1>0, AppendProperties
  <2>2. /\ rcvd < Len(wire) /\ rcvd' = rcvd + 1 /\ pc = "select"
        /\ arm' = "DataRow"
        /\ UNCHANGED <<wire, server, batch, completed, chan, handle, polling, delivered, seen>>
    BY <1>3 DEF ReceiveRow, Receive, serverVars, consumerVars
  <2>3. CASE Len(grown) >= ChunkSize
    <3>1. rows' = grown /\ chunk' = <<>> /\ pc' = "parse"
      BY <1>3, <2>3 DEF ReceiveRow
    <3>a. TypeOK'
      BY <1>0, <2>1, <2>2, <3>1 DEF TypeOK, PCs, Flushing
    <3>b. Shape'
      BY <1>0, <2>1, <2>2, <3>1 DEF Shape, Flushing, Ended
    <3> QED
      BY <3>a, <3>b
  <2>4. CASE ~(Len(grown) >= ChunkSize)
    <3>1. chunk' = grown /\ rows' = rows /\ pc' = pc
      BY <1>3, <2>4 DEF ReceiveRow
    <3>a. TypeOK'
      BY <1>0, <2>1, <2>2, <3>1 DEF TypeOK, PCs
    <3>b. Shape'
      BY <1>0, <2>1, <2>2, <2>4, <3>1 DEF Shape, Flushing, Ended
    <3> QED
      BY <3>a, <3>b
  <2> QED
    BY <2>3, <2>4
<1>4. CASE ReceiveBadField
  <2>a. TypeOK'
    BY <1>0, <1>4
    DEF ReceiveBadField, Receive, TypeOK, PCs, Flushing, Outcomes, serverVars,
        readerVars, consumerVars
  <2>b. Shape'
    BY <1>0, <1>4
    DEF ReceiveBadField, Receive, TypeOK, Shape, Flushing, Ended, serverVars,
        readerVars, consumerVars
  <2> QED
    BY <2>a, <2>b
<1>5. CASE ReceiveComplete
  <2>a. TypeOK'
    BY <1>0, <1>5
    DEF ReceiveComplete, Receive, TypeOK, PCs, Flushing, Outcomes, serverVars,
        readerVars, consumerVars
  <2>b. Shape'
    BY <1>0, <1>5
    DEF ReceiveComplete, Receive, TypeOK, Shape, Flushing, Ended, serverVars,
        readerVars, consumerVars
  <2> QED
    BY <2>a, <2>b
<1>6. CASE ReceiveReady
  <2>a. TypeOK'
    BY <1>0, <1>6
    DEF ReceiveReady, Receive, TypeOK, PCs, Flushing, Outcomes, serverVars,
        readerVars, consumerVars
  <2>b. Shape'
    BY <1>0, <1>6
    DEF ReceiveReady, Receive, TypeOK, Shape, Flushing, Ended, serverVars,
        readerVars, consumerVars
  <2> QED
    BY <2>a, <2>b
<1>7. CASE ReceiveFailure
  <2>a. TypeOK'
    BY <1>0, <1>7
    DEF ReceiveFailure, Receive, Complete, TypeOK, PCs, Flushing, Outcomes, serverVars,
        readerVars, consumerVars
  <2>b. Shape'
    BY <1>0, <1>7
    DEF ReceiveFailure, Receive, Complete, TypeOK, Shape, Flushing, Ended, serverVars,
        readerVars, consumerVars
  <2> QED
    BY <2>a, <2>b
<1>8. CASE ParseRow
  <2>1. /\ Head(rows) \in Positions /\ Tail(rows) \in Seq(Positions)
        /\ Len(Tail(rows)) = Len(rows) - 1
    BY <1>0, <1>8, HeadTailProperties DEF ParseRow
  <2>2. /\ Append(batch, Head(rows)) \in Seq(Positions)
        /\ Append(batch, Head(rows)) # <<>>
        /\ Len(Append(batch, Head(rows))) = Len(batch) + 1
    BY <1>0, <2>1, AppendProperties
  <2>a. TypeOK'
    BY <1>0, <1>8, <2>1, <2>2
    DEF ParseRow, TypeOK, PCs, Flushing, Outcomes, serverVars,
        readerVars, consumerVars
  <2>b. Shape'
    BY <1>0, <1>8, <2>1, <2>2, SMTT(30)
    DEF ParseRow, TypeOK, Shape, Flushing, Ended, serverVars,
        readerVars, consumerVars
  <2> QED
    BY <2>a, <2>b
<1>9. CASE SendRemainder
  <2>a. TypeOK'
    BY <1>0, <1>9
    DEF SendRemainder, TypeOK, PCs, Flushing, Outcomes, serverVars,
        readerVars, consumerVars
  <2>b. Shape'
    BY <1>0, <1>9
    DEF SendRemainder, TypeOK, Shape, Flushing, Ended, serverVars,
        readerVars, consumerVars
  <2> QED
    BY <2>a, <2>b
<1>10. CASE FinishChunk
  <2>a. TypeOK'
    BY <1>0, <1>10
    DEF FinishChunk, Complete, TypeOK, PCs, Flushing, Outcomes, serverVars,
        readerVars, consumerVars
  <2>b. Shape'
    BY <1>0, <1>10
    DEF FinishChunk, Complete, TypeOK, Shape, Flushing, Ended, serverVars,
        readerVars, consumerVars
  <2> QED
    BY <2>a, <2>b
<1>11. CASE SendRow
  <2>1. /\ Head(batch) \in Positions /\ Tail(batch) \in Seq(Positions)
        /\ Len(Tail(batch)) = Len(batch) - 1
    BY <1>0, <1>11, HeadTailProperties DEF SendRow, Shape
  <2>2. /\ Append(chan, Head(batch)) \in Seq(Positions)
        /\ Len(Append(chan, Head(batch))) = Len(chan) + 1
    BY <1>0, <2>1, AppendProperties
  <2>a. TypeOK'
    BY <1>0, <1>11, <2>1, <2>2
    DEF SendRow, Send, TypeOK, PCs, Flushing, Outcomes, serverVars,
        readerVars, consumerVars
  <2>b. Shape'
    BY <1>0, <1>11, <2>1, <2>2
    DEF SendRow, Send, TypeOK, Shape, Flushing, Ended, serverVars,
        readerVars, consumerVars
  <2> QED
    BY <2>a, <2>b
<1>12. CASE SendRowFails
  <2>a. TypeOK'
    BY <1>0, <1>12
    DEF SendRowFails, SendFails, Complete, TypeOK, PCs, Flushing, Outcomes, serverVars,
        readerVars, consumerVars
  <2>b. Shape'
    BY <1>0, <1>12
    DEF SendRowFails, SendFails, Complete, TypeOK, Shape, Flushing, Ended, serverVars,
        readerVars, consumerVars
  <2> QED
    BY <2>a, <2>b
<1>13. CASE SendRowError
  <2>1. Head(rows) \in Positions
    BY <1>0, <1>13, HeadTailProperties DEF SendRowError, Shape
  <2>2. /\ Append(chan, Head(rows)) \in Seq(Positions)
        /\ Len(Append(chan, Head(rows))) = Len(chan) + 1
    BY <1>0, <2>1, AppendProperties
  <2>3. /\ chan' \in Seq(Positions) /\ Len(chan') <= ChunkSize
        /\ handle # "live" => chan' = <<>>
    <3>1. CASE Send(Head(rows))
      BY <1>0, <2>2, <3>1 DEF Send
    <3>2. CASE SendFails
      BY <1>0, <3>2 DEF SendFails, Shape
    <3> QED
      BY <1>13, <3>1, <3>2 DEF SendRowError
  <2>4. /\ pc = "sendRowErr" /\ completed' = [completed EXCEPT !["error"] = @ + 1]
        /\ rows' = <<>> /\ batch' = <<>> /\ pc' = "parse"
        /\ UNCHANGED <<wire, server, rcvd, chunk, arm, handle, polling, delivered, seen>>
    BY <1>13 DEF SendRowError, Complete, serverVars, consumerVars
  <2>a. TypeOK'
    BY <1>0, <2>3, <2>4 DEF TypeOK, PCs, Flushing, Outcomes
  <2>b. Shape'
    BY <1>0, <2>3, <2>4 DEF Shape, Flushing, Ended
  <2> QED
    BY <2>a, <2>b
<1>14. CASE SendLastError
  <2>1. rcvd \in Positions
    BY <1>0, <1>14 DEF SendLastError, Shape, Positions
  <2>2. /\ Append(chan, rcvd) \in Seq(Positions)
        /\ Len(Append(chan, rcvd)) = Len(chan) + 1
    BY <1>0, <2>1, AppendProperties
  <2>3. /\ chan' \in Seq(Positions) /\ Len(chan') <= ChunkSize
        /\ handle # "live" => chan' = <<>>
    <3>1. CASE Send(rcvd)
      BY <1>0, <2>2, <3>1 DEF Send
    <3>2. CASE SendFails
      BY <1>0, <3>2 DEF SendFails, Shape
    <3> QED
      BY <1>14, <3>1, <3>2 DEF SendLastError
  <2>4. completed' \in [Outcomes -> Nat]
    BY <1>14 DEF SendLastError, Complete, TypeOK, Outcomes
  <2>5. /\ pc \in {"sendFieldErr", "sendLast"} /\ pc' = "done" /\ chunk' = <<>>
        /\ UNCHANGED <<wire, server, rcvd, rows, batch, arm, handle, polling, delivered, seen>>
    BY <1>14 DEF SendLastError, serverVars, consumerVars
  <2>a. TypeOK'
    BY <1>0, <2>3, <2>4, <2>5 DEF TypeOK, PCs
  <2>b. Shape'
    BY <1>0, <2>3, <2>5 DEF Shape, Flushing, Ended
  <2> QED
    BY <2>a, <2>b
<1>15. CASE Cancel
  <2>a. TypeOK'
    BY <1>0, <1>15
    DEF Cancel, Complete, TypeOK, PCs, Flushing, Outcomes, serverVars,
        readerVars, consumerVars
  <2>b. Shape'
    BY <1>0, <1>15
    DEF Cancel, Complete, TypeOK, Shape, Flushing, Ended, serverVars,
        readerVars, consumerVars
  <2> QED
    BY <2>a, <2>b
<1>16. CASE PollItem
  <2>1. /\ Head(chan) \in Positions /\ Tail(chan) \in Seq(Positions)
        /\ Len(Tail(chan)) = Len(chan) - 1
    BY <1>0, <1>16, HeadTailProperties DEF PollItem
  <2>2. Append(delivered, Head(chan)) \in Seq(Positions)
    BY <1>0, <2>1, AppendProperties
  <2>a. TypeOK'
    BY <1>0, <1>16, <2>1, <2>2
    DEF PollItem, TypeOK, PCs, Flushing, Outcomes, serverVars,
        readerVars, consumerVars
  <2>b. Shape'
    BY <1>0, <1>16, <2>1, <2>2
    DEF PollItem, TypeOK, Shape, Flushing, Ended, serverVars,
        readerVars, consumerVars
  <2> QED
    BY <2>a, <2>b
<1>17. CASE PollEnd
  <2>a. TypeOK'
    BY <1>0, <1>17
    DEF PollEnd, TypeOK, PCs, Flushing, Outcomes, serverVars,
        readerVars, consumerVars
  <2>b. Shape'
    BY <1>0, <1>17
    DEF PollEnd, TypeOK, Shape, Flushing, Ended, serverVars,
        readerVars, consumerVars
  <2> QED
    BY <2>a, <2>b
<1>18. CASE PollOverLimit
  <2>a. TypeOK'
    BY <1>0, <1>18
    DEF PollOverLimit, TypeOK, PCs, Flushing, Outcomes, serverVars,
        readerVars, consumerVars
  <2>b. Shape'
    BY <1>0, <1>18
    DEF PollOverLimit, TypeOK, Shape, Flushing, Ended, serverVars,
        readerVars, consumerVars
  <2> QED
    BY <2>a, <2>b
<1>19. CASE DropReceiver
  <2>a. TypeOK'
    BY <1>0, <1>19
    DEF DropReceiver, TypeOK, PCs, Flushing, Outcomes, serverVars,
        readerVars, consumerVars
  <2>b. Shape'
    BY <1>0, <1>19
    DEF DropReceiver, TypeOK, Shape, Flushing, Ended, serverVars,
        readerVars, consumerVars
  <2> QED
    BY <2>a, <2>b
<1>20. CASE DropCancel
  <2>a. TypeOK'
    BY <1>0, <1>20
    DEF DropCancel, TypeOK, PCs, Flushing, Outcomes, serverVars,
        readerVars, consumerVars
  <2>b. Shape'
    BY <1>0, <1>20
    DEF DropCancel, TypeOK, Shape, Flushing, Ended, serverVars,
        readerVars, consumerVars
  <2> QED
    BY <2>a, <2>b
<1>21. CASE ReceiveLost
  <2>1. /\ rcvd' = Len(wire) /\ rcvd' > 0 /\ pc = "select" /\ pc' = "sendLast"
        /\ completed' = [completed EXCEPT !["error"] = @ + 1]
        /\ UNCHANGED <<wire, server, chunk, rows, batch, arm, chan, handle, polling,
                       delivered, seen>>
    BY <1>0, <1>21 DEF ReceiveLost, ReadFails, Complete, serverVars, consumerVars
  <2>a. TypeOK'
    BY <1>0, <2>1 DEF TypeOK, PCs, Flushing, Outcomes
  <2>b. Shape'
    BY <1>0, <2>1 DEF Shape, Flushing, Ended
  <2> QED
    BY <2>a, <2>b
<1>22. CASE PollCheck \/ PollPending
  <2>a. TypeOK'
    BY <1>0, <1>22
    DEF PollCheck, PollPending, TypeOK, PCs, Flushing, Outcomes, serverVars,
        readerVars, consumerVars
  <2>b. Shape'
    BY <1>0, <1>22
    DEF PollCheck, PollPending, TypeOK, Shape, Flushing, Ended, serverVars,
        readerVars, consumerVars
  <2> QED
    BY <2>a, <2>b
<1>23. CASE UNCHANGED vars
  BY <1>0, <1>23
  DEF vars, TypeOK, Shape, Ended, serverVars, readerVars, consumerVars
<1> QED
  BY <1>1, <1>2, <1>3, <1>4, <1>5, <1>6, <1>7, <1>8, <1>9, <1>10, <1>11, <1>12, <1>13,
     <1>14, <1>15, <1>16, <1>17, <1>18, <1>19, <1>20, <1>21,
     <1>22, <1>23
  DEF Next, Reader, Consumer, Poll, Terminated

(* The variables keep their types.                                         *)
THEOREM TypeCorrect == Spec => []TypeOK
<1>1. TypeOK /\ Shape /\ [Next]_vars => (TypeOK /\ Shape)'
  BY StepShape
<1> QED
  BY InitShape, <1>1, PTL DEF Spec

(* Memory scales with chunk_size: never more than two chunks of rows are   *)
(* held between the socket and the consumer (BoundedBuffering), for every  *)
(* length of the result and every speed of the consumer.                   *)
THEOREM Bounded == Spec => []BoundedBuffering
<1>1. TypeOK /\ Shape /\ [Next]_vars => (TypeOK /\ Shape)'
  BY StepShape
<1>2. TypeOK /\ Shape => BoundedBuffering
  BY ChunkAssumption, EmptySeq, LenProperties DEF TypeOK, Shape, BoundedBuffering, Flushing, PCs
<1> QED
  BY InitShape, <1>1, <1>2, PTL DEF Spec

-----------------------------------------------------------------------------
(* Order.  The lemmas say what moving one element between sequences does   *)
(* to Increasing and Before.                                               *)
AtMost(s, n) == \A i \in DOMAIN s : s[i] <= n
Below(s, n) == \A i \in DOMAIN s : s[i] < n

LEMMA EmptyOrder ==
  /\ Increasing(<<>>)
  /\ \A s : Before(<<>>, s) /\ Before(s, <<>>)
  /\ \A n : AtMost(<<>>, n) /\ Below(<<>>, n)
  BY DEF Increasing, Before, AtMost, Below

LEMMA AppendOrder ==
  ASSUME NEW s \in Seq(Positions), NEW e \in Positions
  PROVE  /\ Increasing(s) /\ Below(s, e) => Increasing(Append(s, e))
         /\ \A n \in Nat : AtMost(s, n) /\ e <= n => AtMost(Append(s, e), n)
         /\ \A n \in Nat : Below(s, n) /\ e < n => Below(Append(s, e), n)
         /\ \A t \in Seq(Positions) :
              /\ Before(s, t) /\ (\A j \in DOMAIN t : e < t[j]) => Before(Append(s, e), t)
              /\ Before(t, s) /\ Below(t, e) => Before(t, Append(s, e))
<1> DEFINE a == Append(s, e)
<1>1. /\ a \in Seq(Positions) /\ Len(s) \in Nat /\ Len(a) = Len(s) + 1
      /\ DOMAIN s = 1 .. Len(s) /\ DOMAIN a = 1 .. Len(s) + 1
      /\ \A i \in DOMAIN s : a[i] = s[i]
      /\ a[Len(s) + 1] = e
  BY AppendProperties, LenProperties
<1>2. /\ \A i \in DOMAIN s : s[i] \in Nat
      /\ \A t \in Seq(Positions) : \A j \in DOMAIN t : t[j] \in Nat
  BY ElementOfSeq, LenProperties DEF Positions
<1>3. \A i \in DOMAIN a : i \in DOMAIN s \/ (a[i] = e /\ i = Len(s) + 1)
  BY <1>1
<1> HIDE DEF a
<1>4. Increasing(s) /\ Below(s, e) => Increasing(a)
  <2> SUFFICES ASSUME Increasing(s), Below(s, e),
                      NEW i \in DOMAIN a, NEW j \in DOMAIN a, i < j
               PROVE  a[i] < a[j]
    BY DEF Increasing
  <2>1. i \in DOMAIN s /\ a[i] = s[i]
    BY <1>1
  <2>2. CASE j \in DOMAIN s
    BY <1>1, <2>1, <2>2 DEF Increasing
  <2>3. CASE j \notin DOMAIN s
    <3>1. a[j] = e
      BY <1>3, <2>3
    <3> QED
      BY <2>1, <3>1 DEF Below
  <2> QED
    BY <2>2, <2>3
<1>5. \A n \in Nat : AtMost(s, n) /\ e <= n => AtMost(a, n)
  BY <1>1, <1>2, <1>3 DEF AtMost, Below, Positions
<1>6. \A n \in Nat : Below(s, n) /\ e < n => Below(a, n)
  BY <1>1, <1>2, <1>3 DEF Below, Positions
<1>7. ASSUME NEW t \in Seq(Positions), Before(s, t), \A j \in DOMAIN t : e < t[j]
      PROVE  Before(a, t)
  BY <1>1, <1>3, <1>7 DEF Before
<1>8. ASSUME NEW t \in Seq(Positions), Before(t, s), Below(t, e)
      PROVE  Before(t, a)
  BY <1>1, <1>2, <1>3, <1>8 DEF Before, AtMost, Below, Positions
<1>9. a = Append(s, e)
  BY DEF a
<1> QED
  BY <1>4, <1>5, <1>7, <1>8, <1>9, <1>6, Zenon

LEMMA TailOrder ==
  ASSUME NEW s \in Seq(Positions), s # <<>>
  PROVE  /\ Head(s) \in Positions
         /\ \A n \in Nat : AtMost(s, n) => Head(s) <= n /\ AtMost(Tail(s), n)
         /\ \A n \in Nat : Below(s, n) => Head(s) < n /\ Below(Tail(s), n)
         /\ Increasing(s) => Increasing(Tail(s))
         /\ Increasing(s) => \A j \in DOMAIN Tail(s) : Head(s) < Tail(s)[j]
         /\ \A t \in Seq(Positions) :
              /\ Before(s, t) => Before(Tail(s), t) /\ \A j \in DOMAIN t : Head(s) < t[j]
              /\ Before(t, s) => Before(t, Tail(s)) /\ Below(t, Head(s))
<1> DEFINE t0 == Tail(s)
<1>1. /\ Head(s) = s[1] /\ Head(s) \in Positions
      /\ t0 \in Seq(Positions) /\ Len(s) \in Nat \ {0} /\ Len(t0) = Len(s) - 1
      /\ DOMAIN s = 1 .. Len(s) /\ DOMAIN t0 = 1 .. Len(s) - 1
      /\ \A i \in DOMAIN t0 : t0[i] = s[i + 1]
  BY HeadTailProperties, EmptySeq, LenProperties
<1>2. /\ \A i \in DOMAIN s : s[i] \in Nat
      /\ \A t \in Seq(Positions) : \A j \in DOMAIN t : t[j] \in Nat
  BY ElementOfSeq, LenProperties DEF Positions
<1>3. 1 \in DOMAIN s /\ \A i \in DOMAIN t0 : i + 1 \in DOMAIN s /\ i + 1 > 1
  BY <1>1
<1> HIDE DEF t0
<1>4. \A n \in Nat : AtMost(s, n) => Head(s) <= n /\ AtMost(t0, n)
  BY <1>1, <1>3 DEF AtMost
<1>5. \A n \in Nat : Below(s, n) => Head(s) < n /\ Below(t0, n)
  BY <1>1, <1>3 DEF Below
<1>6. ASSUME Increasing(s)
      PROVE  Increasing(t0) /\ \A j \in DOMAIN t0 : Head(s) < t0[j]
  BY <1>1, <1>3, <1>6 DEF Increasing
<1>7. ASSUME NEW t \in Seq(Positions), Before(s, t)
      PROVE  Before(t0, t) /\ \A j \in DOMAIN t : Head(s) < t[j]
  BY <1>1, <1>3, <1>7 DEF Before
<1>8. ASSUME NEW t \in Seq(Positions), Before(t, s)
      PROVE  Before(t, t0) /\ Below(t, Head(s))
  <2>1. Before(t, t0)
    BY <1>1, <1>3, <1>8 DEF Before
  <2>2. \A i \in DOMAIN t : t[i] < s[1] /\ t[i] \in Nat
    BY <1>2, <1>3, <1>8 DEF Before
  <2>3. s[1] \in Nat /\ Head(s) = s[1]
    BY <1>1 DEF Positions
  <2>4. Below(t, Head(s))
    BY <2>2, <2>3 DEF Below
  <2> QED
    BY <2>1, <2>4
<1>9. t0 = Tail(s)
  BY DEF t0
<1> QED
  BY <1>1, <1>4, <1>6, <1>7, <1>8, <1>9, <1>5, Zenon

(* Ordered is not inductive without knowing that everything held comes     *)
(* from a message that was received, and that an error about to be sent    *)
(* comes from a message behind everything already in the channel.          *)
OrderInv ==
  /\ Ordered
  /\ AtMost(delivered, rcvd) /\ AtMost(chan, rcvd)
  /\ AtMost(batch, rcvd) /\ AtMost(rows, rcvd) /\ AtMost(chunk, rcvd)
  /\ pc \in {"sendFieldErr", "sendLast"} => Below(delivered, rcvd) /\ Below(chan, rcvd)

LEMMA AtMostBelow ==
  ASSUME NEW s \in Seq(Positions), NEW n \in Nat, AtMost(s, n)
  PROVE  \A r \in Nat : n < r => Below(s, r) /\ AtMost(s, r)
<1>1. \A i \in DOMAIN s : s[i] \in Nat
  BY ElementOfSeq, LenProperties DEF Positions
<1> QED
  BY <1>1 DEF AtMost, Below

LEMMA StepOrder == TypeOK /\ Shape /\ OrderInv /\ [Next]_vars => OrderInv'
<1> SUFFICES ASSUME TypeOK, Shape, OrderInv, [Next]_vars PROVE OrderInv'
  OBVIOUS
<1>0. /\ chunk \in Seq(Positions) /\ rows \in Seq(Positions) /\ batch \in Seq(Positions)
      /\ chan \in Seq(Positions) /\ delivered \in Seq(Positions)
      /\ rcvd \in Nat /\ rcvd + 1 \in Nat /\ rcvd + 1 \in Positions
  BY LenProperties DEF TypeOK, Positions
(* A step that takes nothing from the socket and changes no buffer.        *)
<1>a. ASSUME UNCHANGED <<rcvd, chunk, rows, batch, chan, delivered>>,
             pc' \in {"sendFieldErr", "sendLast"} => pc' = pc
      PROVE  OrderInv'
  BY <1>a DEF OrderInv, Ordered, Increasing, Before, AtMost, Below
(* The buffers of the reader are emptied, the others stay.                 *)
<1>b. ASSUME UNCHANGED <<rcvd, chan, delivered>>,
             rows' = <<>>, batch' = <<>>, chunk' \in {chunk, <<>>},
             pc' \notin {"sendFieldErr", "sendLast"}
      PROVE  OrderInv'
  <2>1. /\ Increasing(delivered) /\ Increasing(chan) /\ Increasing(chunk')
        /\ Before(delivered, chan) /\ Before(delivered, chunk') /\ Before(chan, chunk')
        /\ AtMost(delivered, rcvd) /\ AtMost(chan, rcvd) /\ AtMost(chunk', rcvd)
    BY <1>b, EmptyOrder DEF OrderInv, Ordered
  <2> QED
    BY <1>b, <2>1, EmptyOrder DEF OrderInv, Ordered
(* The same, when an error follows everything the channel has held.        *)
<1>c. ASSUME NEW e \in Positions, e <= rcvd, Below(delivered, e), Below(chan, e),
             chan' = Append(chan, e), UNCHANGED <<rcvd, delivered>>,
             rows' = <<>>, batch' = <<>>, chunk' = <<>>,
             pc' \notin {"sendFieldErr", "sendLast"}
      PROVE  OrderInv'
  <2>1. /\ Increasing(chan') /\ AtMost(chan', rcvd) /\ Before(delivered, chan')
    BY <1>0, <1>c, AppendOrder DEF OrderInv, Ordered
  <2> QED
    BY <1>c, <2>1, EmptyOrder DEF OrderInv, Ordered
(* A message is received that is not a row.                                *)
<1>d. ASSUME NEW r \in Nat, rcvd < r, rcvd' = r, UNCHANGED <<chan, delivered, batch>>,
             rows' \in {rows, chunk, <<>>}, chunk' \in {chunk, <<>>}, batch = <<>>,
             rows = <<>>, rows' = <<>> \/ chunk' = <<>>
      PROVE  OrderInv'
  <2>1. /\ \A t \in {delivered, chan, chunk, <<>>} : AtMost(t, rcvd) /\ t \in Seq(Positions)
        /\ \A t \in {delivered, chan, chunk, <<>>} : Increasing(t)
        /\ \A t \in {chan, chunk, <<>>} : Before(delivered, t)
        /\ \A t \in {chunk, <<>>} : Before(chan, t)
    BY <1>0, EmptyOrder, EmptySeq DEF OrderInv, Ordered
  <2>2. \A t \in {delivered, chan, chunk, <<>>} : AtMost(t, r) /\ Below(t, r)
    BY <1>0, <1>d, <2>1, AtMostBelow
  <2> QED
    BY <1>d, <2>1, <2>2, EmptyOrder DEF OrderInv, Ordered
<1>1. CASE Server
  BY <1>1, <1>a
  DEF Server, ServerRow, ServerOther, ServerFinishes, ServerReady, ServerSends,
      readerVars, consumerVars
<1>2. CASE ConnectionLost
  BY <1>2, <1>a DEF ConnectionLost, readerVars, consumerVars
<1>3. CASE ReceiveRow
  <2> DEFINE grown == Append(chunk, rcvd + 1)
  <2>1. /\ rcvd' = rcvd + 1 /\ pc = "select"
        /\ rows = <<>> /\ batch = <<>>
        /\ UNCHANGED <<batch, chan, delivered>>
        /\ pc' \notin {"sendFieldErr", "sendLast"}
        /\ \/ rows' = grown /\ chunk' = <<>>
           \/ rows' = rows /\ chunk' = grown
    BY <1>3 DEF ReceiveRow, Receive, Shape, Flushing, consumerVars
  <2>2. /\ \A t \in {delivered, chan, chunk} : AtMost(t, rcvd) /\ t \in Seq(Positions)
        /\ Increasing(delivered) /\ Increasing(chan) /\ Increasing(chunk)
        /\ Before(delivered, chunk) /\ Before(chan, chunk) /\ Before(delivered, chan)
    BY <1>0 DEF OrderInv, Ordered
  <2>3. \A t \in {delivered, chan, chunk} : AtMost(t, rcvd + 1) /\ Below(t, rcvd + 1)
    BY <1>0, <2>2, AtMostBelow, rcvd < rcvd + 1
  <2>4. /\ Increasing(grown) /\ AtMost(grown, rcvd + 1)
        /\ Before(delivered, grown) /\ Before(chan, grown)
    BY <1>0, <2>2, <2>3, AppendOrder
  <2> HIDE DEF grown
  <2>5. \A t \in {rows', chunk'} :
           /\ Increasing(t) /\ AtMost(t, rcvd + 1) /\ Before(delivered, t) /\ Before(chan, t)
    BY <2>1, <2>4, EmptyOrder
  <2> QED
    BY <2>1, <2>2, <2>3, <2>5, EmptyOrder DEF OrderInv, Ordered
<1>4. CASE ReceiveBadField
  BY <1>0, <1>4, <1>d DEF ReceiveBadField, Receive, Shape, Flushing, consumerVars
<1>5. CASE ReceiveComplete
  BY <1>0, <1>5, <1>d DEF ReceiveComplete, Receive, Shape, Flushing, consumerVars
<1>6. CASE ReceiveReady
  BY <1>0, <1>6, <1>d DEF ReceiveReady, Receive, Shape, Flushing, consumerVars
<1>7. CASE ReceiveFailure
  BY <1>0, <1>7, <1>d DEF ReceiveFailure, Receive, Shape, Flushing, consumerVars
<1>8. CASE ParseRow
  <2> DEFINE h == Head(rows)
  <2>1. /\ pc = "parse" /\ rows # <<>> /\ chunk = <<>>
        /\ UNCHANGED <<rcvd, chunk, chan, delivered>>
        /\ pc' \notin {"sendFieldErr", "sendLast"}
        /\ \/ rows' = rows /\ batch' = batch
           \/ rows' = Tail(rows) /\ batch' = Append(batch, h)
    BY <1>8 DEF ParseRow, Shape, Flushing, consumerVars
  <2>2. /\ Increasing(rows) /\ Increasing(batch)
        /\ \A t \in {delivered, chan} : Before(t, rows) /\ Before(t, batch)
        /\ Before(batch, rows) /\ AtMost(rows, rcvd) /\ AtMost(batch, rcvd)
    BY DEF OrderInv, Ordered
  <2>3. /\ h \in Positions /\ h <= rcvd /\ AtMost(Tail(rows), rcvd)
        /\ Increasing(Tail(rows)) /\ \A j \in DOMAIN Tail(rows) : h < Tail(rows)[j]
        /\ \A t \in {delivered, chan, batch} : Before(t, Tail(rows)) /\ Below(t, h)
        /\ Tail(rows) \in Seq(Positions)
    BY <1>0, <2>1, <2>2, TailOrder, HeadTailProperties
  <2>4. /\ Increasing(Append(batch, h)) /\ AtMost(Append(batch, h), rcvd)
        /\ Before(Append(batch, h), Tail(rows))
        /\ \A t \in {delivered, chan} : Before(t, Append(batch, h))
    BY <1>0, <2>2, <2>3, AppendOrder
  <2>5. /\ Increasing(rows') /\ Increasing(batch')
        /\ \A t \in {delivered, chan} : Before(t, rows') /\ Before(t, batch')
        /\ Before(batch', rows') /\ AtMost(rows', rcvd) /\ AtMost(batch', rcvd)
    BY <2>1, <2>2, <2>3, <2>4
  <2> QED
    BY <2>1, <2>5, EmptyOrder DEF OrderInv, Ordered
<1>9. CASE SendRemainder
  BY <1>9, <1>a DEF SendRemainder, consumerVars
<1>10. CASE FinishChunk
  BY <1>10, <1>a DEF FinishChunk, consumerVars
<1>11. CASE SendRow
  <2> DEFINE h == Head(batch)
  <2>1. /\ pc = "send" /\ batch # <<>> /\ chunk = <<>>
        /\ UNCHANGED <<rcvd, chunk, rows, delivered>>
        /\ pc' \notin {"sendFieldErr", "sendLast"}
        /\ batch' = Tail(batch) /\ chan' = Append(chan, h)
    BY <1>11 DEF SendRow, Send, Shape, Flushing, consumerVars
  <2>2. /\ Increasing(batch) /\ Before(delivered, batch) /\ Before(chan, batch)
        /\ Before(batch, rows) /\ AtMost(batch, rcvd)
        /\ Increasing(chan) /\ AtMost(chan, rcvd) /\ Before(delivered, chan)
        /\ Before(chan, rows)
    BY DEF OrderInv, Ordered
  <2>3. /\ h \in Positions /\ h <= rcvd /\ AtMost(Tail(batch), rcvd)
        /\ Increasing(Tail(batch)) /\ \A j \in DOMAIN Tail(batch) : h < Tail(batch)[j]
        /\ \A j \in DOMAIN rows : h < rows[j]
        /\ Before(Tail(batch), rows)
        /\ \A t \in {delivered, chan} : Before(t, Tail(batch)) /\ Below(t, h)
        /\ Tail(batch) \in Seq(Positions)
    BY <1>0, <2>1, <2>2, TailOrder, HeadTailProperties
  <2>4. /\ Increasing(chan') /\ AtMost(chan', rcvd)
        /\ Before(delivered, chan') /\ Before(chan', rows) /\ Before(chan', Tail(batch))
    BY <1>0, <2>1, <2>2, <2>3, AppendOrder
  <2> QED
    BY <2>1, <2>2, <2>3, <2>4, EmptyOrder DEF OrderInv, Ordered
<1>12. CASE SendRowFails
  BY <1>12, <1>b DEF SendRowFails, SendFails, consumerVars
<1>13. CASE SendRowError
  <2>1. /\ pc = "sendRowErr" /\ rows # <<>> /\ chunk = <<>>
        /\ rows' = <<>> /\ batch' = <<>> /\ pc' = "parse" /\ chunk' = <<>>
        /\ UNCHANGED <<rcvd, delivered>>
    BY <1>13 DEF SendRowError, Shape, Flushing, consumerVars
  <2>2. CASE Send(Head(rows))
    <3>1. /\ Head(rows) \in Positions /\ Head(rows) <= rcvd
          /\ Below(delivered, Head(rows)) /\ Below(chan, Head(rows))
      BY <1>0, <2>1, TailOrder DEF OrderInv, Ordered
    <3> QED
      BY <2>1, <2>2, <3>1, <1>c DEF Send
  <2>3. CASE SendFails
    BY <2>1, <2>3, <1>b DEF SendFails
  <2> QED
    BY <1>13, <2>2, <2>3 DEF SendRowError
<1>14. CASE SendLastError
  <2>1. /\ pc \in {"sendFieldErr", "sendLast"} /\ rcvd > 0 /\ rows = <<>> /\ batch = <<>>
        /\ pc' = "done" /\ chunk' = <<>>
        /\ UNCHANGED <<rcvd, delivered, rows, batch>>
    BY <1>14 DEF SendLastError, Shape, Flushing, consumerVars
  <2>2. CASE Send(rcvd)
    <3>1. rcvd \in Positions /\ Below(delivered, rcvd) /\ Below(chan, rcvd)
      BY <1>0, <2>1 DEF OrderInv, Positions
    <3> QED
      BY <1>0, <2>1, <2>2, <3>1, <1>c DEF Send
  <2>3. CASE SendFails
    BY <2>1, <2>3, <1>b DEF SendFails
  <2> QED
    BY <1>14, <2>2, <2>3 DEF SendLastError
<1>15. CASE Cancel
  BY <1>15, <1>b DEF Cancel, Shape, Flushing, consumerVars
<1>16. CASE PollItem
  <2> DEFINE h == Head(chan)
  <2>1. /\ chan # <<>> /\ delivered' = Append(delivered, h) /\ chan' = Tail(chan)
        /\ UNCHANGED <<rcvd, pc, chunk, rows, batch>>
    BY <1>16 DEF PollItem, readerVars
  <2>2. /\ Increasing(chan) /\ AtMost(chan, rcvd) /\ Before(delivered, chan)
        /\ Increasing(delivered) /\ AtMost(delivered, rcvd)
        /\ \A t \in {batch, rows, chunk} : Before(chan, t) /\ Before(delivered, t)
        /\ pc \in {"sendFieldErr", "sendLast"} => Below(delivered, rcvd) /\ Below(chan, rcvd)
    BY DEF OrderInv, Ordered
  <2>3. /\ h \in Positions /\ h <= rcvd /\ AtMost(Tail(chan), rcvd)
        /\ Increasing(Tail(chan)) /\ \A j \in DOMAIN Tail(chan) : h < Tail(chan)[j]
        /\ \A t \in {batch, rows, chunk} :
             Before(Tail(chan), t) /\ \A j \in DOMAIN t : h < t[j]
        /\ Before(delivered, Tail(chan)) /\ Below(delivered, h)
        /\ pc \in {"sendFieldErr", "sendLast"} => h < rcvd /\ Below(Tail(chan), rcvd)
        /\ Tail(chan) \in Seq(Positions)
    BY <1>0, <2>1, <2>2, TailOrder, HeadTailProperties
  <2>4. /\ Increasing(delivered') /\ AtMost(delivered', rcvd)
        /\ Before(delivered', Tail(chan))
        /\ \A t \in {batch, rows, chunk} : Before(delivered', t)
        /\ pc \in {"sendFieldErr", "sendLast"} => Below(delivered', rcvd)
    BY <1>0, <2>1, <2>2, <2>3, AppendOrder
  <2> QED
    BY <2>1, <2>2, <2>3, <2>4 DEF OrderInv, Ordered
<1>17. CASE PollEnd
  BY <1>17, <1>a DEF PollEnd, readerVars
<1>18. CASE PollOverLimit
  BY <1>18, <1>a DEF PollOverLimit, readerVars
<1>19. CASE DropReceiver
  <2>1. chan' = <<>> /\ UNCHANGED <<rcvd, pc, chunk, rows, batch, delivered>>
    BY <1>19 DEF DropReceiver, readerVars
  <2> QED
    BY <2>1, EmptyOrder DEF OrderInv, Ordered
<1>20. CASE DropCancel
  BY <1>20, <1>a DEF DropCancel, readerVars
<1>21. CASE ReceiveLost
  BY <1>0, <1>21, <1>d, LenProperties
  DEF ReceiveLost, ReadFails, Shape, Flushing, consumerVars, TypeOK
<1>22. CASE PollCheck \/ PollPending
  BY <1>22, <1>a DEF PollCheck, PollPending, readerVars
<1>23. CASE UNCHANGED vars
  BY <1>23, <1>a DEF vars, readerVars, consumerVars
<1> QED
  BY <1>1, <1>2, <1>3, <1>4, <1>5, <1>6, <1>7, <1>8, <1>9, <1>10, <1>11, <1>12, <1>13,
     <1>14, <1>15, <1>16, <1>17, <1>18, <1>19, <1>20, <1>21,
     <1>22, <1>23
  DEF Next, Reader, Consumer, Poll, Terminated

(* Rows are neither reordered nor delivered twice, whatever is lost, fails *)
(* to parse or is dropped on the way (Ordered).                            *)
THEOREM InOrder == Spec => []Ordered
<1>1. Init => OrderInv
  BY EmptyOrder DEF Init, OrderInv, Ordered
<1>2. TypeOK /\ Shape /\ OrderInv /\ [Next]_vars => (TypeOK /\ Shape /\ OrderInv)'
  BY StepShape, StepOrder
<1>3. OrderInv => Ordered
  BY DEF OrderInv
<1> QED
  BY InitShape, <1>1, <1>2, <1>3, PTL DEF Spec

-----------------------------------------------------------------------------
(* What the consumer gets: which rows, what the end of the stream means,   *)
(* how the query is counted, and the refinement of ResultStream.           *)

(* Sequences of positions in a sequence of messages w, which is a          *)
(* parameter here so that the same facts serve before and after a step.    *)
RowIn(w, i) == i \in DOMAIN w /\ w[i] = "row"
RowsOnly(w, s) == \A i \in DOMAIN s : RowIn(w, s[i])

(* Up to its first error, s holds the positions that follow base.          *)
RowsFrom(w, s, base) ==
  \A n \in DOMAIN s : (\A i \in 1 .. n : RowIn(w, s[i])) => s[n] = base + n

(* All of s, rows or not, holds the positions that follow base.            *)
Run(s, base) == \A n \in DOMAIN s : s[n] = base + n

LEMMA EmptyRows ==
  /\ \A w : RowsOnly(w, <<>>)
  /\ \A w, base : RowsFrom(w, <<>>, base)
  /\ \A base : Run(<<>>, base)
  BY DEF RowsOnly, RowsFrom, Run

LEMMA AppendRows ==
  ASSUME NEW w, NEW s \in Seq(Positions), NEW e \in Positions
  PROVE  /\ RowsOnly(w, Append(s, e)) <=> RowsOnly(w, s) /\ RowIn(w, e)
         /\ \A base \in Nat :
              RowsFrom(w, s, base) /\ (RowsOnly(w, s) /\ RowIn(w, e) => e = base + Len(s) + 1)
                => RowsFrom(w, Append(s, e), base)
<1> DEFINE a == Append(s, e)
<1>1. /\ Len(s) \in Nat /\ DOMAIN s = 1 .. Len(s) /\ DOMAIN a = 1 .. Len(s) + 1
      /\ \A i \in 1 .. Len(s) : a[i] = s[i]
      /\ a[Len(s) + 1] = e
  BY AppendProperties, LenProperties
<1> HIDE DEF a
<1>2. RowsOnly(w, a) <=> RowsOnly(w, s) /\ RowIn(w, e)
  <2>1. RowsOnly(w, a) => RowsOnly(w, s) /\ RowIn(w, e)
    BY <1>1 DEF RowsOnly
  <2>2. RowsOnly(w, s) /\ RowIn(w, e) => RowsOnly(w, a)
    BY <1>1 DEF RowsOnly
  <2> QED
    BY <2>1, <2>2
<1>3. ASSUME NEW base \in Nat, RowsFrom(w, s, base),
             RowsOnly(w, s) /\ RowIn(w, e) => e = base + Len(s) + 1
      PROVE  RowsFrom(w, a, base)
  <2> SUFFICES ASSUME NEW n \in DOMAIN a, \A i \in 1 .. n : RowIn(w, a[i])
               PROVE  a[n] = base + n
    BY DEF RowsFrom
  <2>1. CASE n \in 1 .. Len(s)
    <3>1. \A i \in 1 .. n : RowIn(w, s[i])
      BY <1>1, <2>1
    <3> QED
      BY <1>1, <1>3, <2>1, <3>1 DEF RowsFrom
  <2>2. CASE n = Len(s) + 1
    <3>1. RowsOnly(w, s) /\ RowIn(w, e)
      BY <1>1, <2>2 DEF RowsOnly
    <3> QED
      BY <1>1, <1>3, <2>2, <3>1
  <2> QED
    BY <1>1, <2>1, <2>2
<1>4. a = Append(s, e)
  BY DEF a
<1> QED
  BY <1>2, <1>3, <1>4

LEMMA TailRows ==
  ASSUME NEW w, NEW s \in Seq(Positions), s # <<>>
  PROVE  /\ RowsOnly(w, s) <=> RowIn(w, Head(s)) /\ RowsOnly(w, Tail(s))
         /\ \A base \in Nat :
              RowsFrom(w, s, base) /\ RowIn(w, Head(s))
                => Head(s) = base + 1 /\ RowsFrom(w, Tail(s), base + 1)
<1> DEFINE t == Tail(s)
<1>1. /\ Head(s) = s[1] /\ Len(s) \in Nat \ {0}
      /\ DOMAIN s = 1 .. Len(s) /\ DOMAIN t = 1 .. Len(s) - 1
      /\ \A i \in 1 .. Len(s) - 1 : t[i] = s[i + 1]
  BY HeadTailProperties, EmptySeq, LenProperties
<1>2. \A i \in 1 .. Len(s) : i = 1 \/ (i - 1 \in 1 .. Len(s) - 1 /\ t[i - 1] = s[i])
  BY <1>1
<1> HIDE DEF t
<1>3. RowsOnly(w, s) <=> RowIn(w, Head(s)) /\ RowsOnly(w, t)
  <2>1. RowsOnly(w, s) => RowIn(w, Head(s)) /\ RowsOnly(w, t)
    BY <1>1 DEF RowsOnly
  <2>2. RowIn(w, Head(s)) /\ RowsOnly(w, t) => RowsOnly(w, s)
    BY <1>1, <1>2 DEF RowsOnly
  <2> QED
    BY <2>1, <2>2
<1>4. ASSUME NEW base \in Nat, RowsFrom(w, s, base), RowIn(w, Head(s))
      PROVE  Head(s) = base + 1 /\ RowsFrom(w, t, base + 1)
  <2>1. Head(s) = base + 1
    BY <1>1, <1>4 DEF RowsFrom
  <2>2. ASSUME NEW n \in DOMAIN t, \A i \in 1 .. n : RowIn(w, t[i])
        PROVE  t[n] = base + 1 + n
    <3>1. n \in Nat /\ n + 1 \in DOMAIN s /\ t[n] = s[n + 1]
      BY <1>1, <2>2
    <3>2. ASSUME NEW i \in 1 .. n + 1
          PROVE  RowIn(w, s[i])
      <4>1. i = 1 \/ (i - 1 \in 1 .. n /\ t[i - 1] = s[i])
        BY <1>1, <1>2, <2>2, <3>1
      <4> QED
        BY <1>1, <1>4, <2>2, <4>1
    <3>3. s[n + 1] = base + (n + 1)
      BY <1>4, <3>1, <3>2 DEF RowsFrom
    <3> QED
      BY <1>4, <3>1, <3>3
  <2> QED
    BY <2>1, <2>2 DEF RowsFrom
<1>5. t = Tail(s)
  BY DEF t
<1> QED
  BY <1>3, <1>4, <1>5

LEMMA AppendRun ==
  ASSUME NEW s \in Seq(Positions), NEW base \in Nat, Run(s, base)
  PROVE  Run(Append(s, base + Len(s) + 1), base)
<1>1. /\ Len(s) \in Nat /\ DOMAIN s = 1 .. Len(s) /\ base + Len(s) + 1 \in Positions
  BY LenProperties DEF Positions
<1> QED
  BY <1>1, AppendProperties, LenProperties, SMTT(30) DEF Run

LEMMA TailRun ==
  ASSUME NEW s \in Seq(Positions), s # <<>>, NEW base \in Nat, Run(s, base)
  PROVE  Head(s) = base + 1 /\ Run(Tail(s), base + 1)
<1>1. /\ Head(s) = s[1] /\ Len(s) \in Nat \ {0} /\ DOMAIN s = 1 .. Len(s)
      /\ DOMAIN Tail(s) = 1 .. Len(s) - 1
      /\ \A i \in 1 .. Len(s) - 1 : Tail(s)[i] = s[i + 1]
  BY HeadTailProperties, EmptySeq, LenProperties
<1>2. 1 \in DOMAIN s /\ \A n \in DOMAIN Tail(s) : n \in Nat /\ n + 1 \in DOMAIN s
  BY <1>1
<1>3. \A n \in DOMAIN Tail(s) : Tail(s)[n] = base + (n + 1)
  BY <1>1, <1>2 DEF Run
<1> QED
  BY <1>1, <1>2, <1>3 DEF Run

LEMMA AllRowsExact ==
  ASSUME NEW w, NEW s \in Seq(Positions), RowsOnly(w, s), RowsFrom(w, s, 0)
  PROVE  \A i \in DOMAIN s : s[i] = i
<1>1. DOMAIN s = 1 .. Len(s) /\ Len(s) \in Nat
  BY LenProperties
<1>2. ASSUME NEW n \in DOMAIN s
      PROVE  s[n] = n
  <2>1. n \in Nat /\ \A i \in 1 .. n : i \in DOMAIN s
    BY <1>1
  <2> QED
    BY <2>1 DEF RowsOnly, RowsFrom
<1> QED
  BY <1>2

(* What s says is the same in two sequences of messages that agree as far  *)
(* as s looks.                                                             *)
LEMMA SameRows ==
  ASSUME NEW w, NEW v, NEW n \in Nat, NEW s \in Seq(Positions), AtMost(s, n),
         \A i \in 1 .. n : RowIn(w, i) <=> RowIn(v, i)
  PROVE  /\ RowsOnly(w, s) <=> RowsOnly(v, s)
         /\ \A base : RowsFrom(w, s, base) <=> RowsFrom(v, s, base)
<1>1. \A i \in DOMAIN s : RowIn(w, s[i]) <=> RowIn(v, s[i])
  BY ElementOfSeq, LenProperties DEF AtMost, Positions
<1>2. DOMAIN s = 1 .. Len(s) /\ Len(s) \in Nat
  BY LenProperties
<1>3. \A m \in DOMAIN s : \A i \in 1 .. m : RowIn(w, s[i]) <=> RowIn(v, s[i])
  BY <1>1, <1>2
<1> QED
  BY <1>1, <1>3 DEF RowsOnly, RowsFrom

-----------------------------------------------------------------------------
(* The invariant, in four parts.                                           *)
Reading == Flushing \cup {"select"}
Finished(i) == wire[i] \in {"complete", "error"}

(* The server finishes its answer once, and no row follows.                *)
WellFormedAnswer ==
  /\ \A i, j \in DOMAIN wire :
       i < j /\ Finished(i) => wire[j] \in {"notice", "odd", "ready", "lost"}
  /\ \A j \in DOMAIN wire : wire[j] = "ready" => \E i \in 1 .. j : Finished(i)
  /\ server = "rows" => \A i \in DOMAIN wire : ~Finished(i)
  /\ server = "closing" => \E i \in DOMAIN wire : Finished(i)

(* What the reader knows of the messages it has taken from where it is.    *)
Taken ==
  /\ pc \in Reading =>
       /\ \A i \in 1 .. rcvd : wire[i] \in {"row", "badjson", "complete"}
       /\ \A i \in 1 .. rcvd : wire[i] = "complete" => i = rcvd /\ arm = "CommandComplete"
       /\ arm = "CommandComplete" => rcvd > 0 /\ wire[rcvd] = "complete"
  /\ pc = "select" /\ arm = "CommandComplete" => chunk = <<>>
  /\ pc \in {"sendLast", "sendFieldErr"} => ~RowIn(wire, rcvd)
  /\ RowsOnly(wire, batch)
  /\ pc = "sendRowErr" => ~RowIn(wire, Head(rows))

(* As long as the consumer is there and no error has been sent, every row  *)
(* taken is in its place in one of the buffers, and the reader returns     *)
(* only behind a CommandComplete.  NoSilentTruncation says this of the     *)
(* moment of None; here it is said from the first row on.                  *)
Sent == Len(delivered) + Len(chan)
Clean == handle = "live" /\ RowsOnly(wire, delivered) /\ RowsOnly(wire, chan)

NoGap ==
  /\ RowsFrom(wire, delivered, 0)
  /\ RowsOnly(wire, delivered) => RowsFrom(wire, chan, Len(delivered))
  /\ Clean /\ pc \in Reading =>
       /\ Run(batch, Sent) /\ Run(rows, Sent + Len(batch)) /\ Run(chunk, Sent)
       /\ Sent + Len(batch) + Len(rows) + Len(chunk)
            = IF arm = "CommandComplete" THEN rcvd - 1 ELSE rcvd
  /\ Clean /\ pc = "done" => Sent < rcvd /\ wire[Sent + 1] = "complete"
  /\ Ended /\ RowsOnly(wire, delivered) =>
       Len(delivered) < rcvd /\ wire[Len(delivered) + 1] = "complete"

(* The counters, at every place of the reader.                             *)
Counted ==
  /\ pc \in Reading =>
       completed["success"] = IF pc = "select" /\ arm = "CommandComplete" THEN 1 ELSE 0
  /\ completed["success"] <= 1
  /\ completed["success"] = 1 => \E i \in 1 .. rcvd : wire[i] = "complete"
  /\ pc \in {"done", "sendLast"} => \E o \in Outcomes : completed[o] > 0
  /\ completed["cancelled"] > 0 => handle = "dropped"

(* The server and the network change nothing but what the reader has not   *)
(* taken, and nothing once it has returned; nobody else touches the wire.  *)
LEMMA WireStep ==
  ASSUME TypeOK, Server \/ ConnectionLost
  PROVE  /\ pc # "done"
         /\ UNCHANGED <<rcvd, pc, chunk, rows, batch, arm, completed, chan, handle,
                        polling, delivered, seen>>
         /\ \A i \in 1 .. rcvd : i \in DOMAIN wire /\ i \in DOMAIN wire' /\ wire'[i] = wire[i]
<1>0. wire \in Seq(Kinds) /\ rcvd \in Nat /\ rcvd <= Len(wire) /\ DOMAIN wire = 1 .. Len(wire)
  BY LenProperties DEF TypeOK
<1>1. CASE Server
  <2>1. PICK k \in Kinds : wire' = Append(wire, k)
    BY <1>1 DEF Server, ServerRow, ServerOther, ServerFinishes, ServerReady, ServerSends,
             Kinds, RowKinds
  <2>2. \A i \in 1 .. rcvd : i \in DOMAIN wire /\ i \in DOMAIN wire' /\ wire'[i] = wire[i]
    BY <1>0, <2>1, AppendProperties, LenProperties
  <2> QED
    BY <1>1, <2>2
    DEF Server, ServerRow, ServerOther, ServerFinishes, ServerReady, ServerSends,
        SocketOpen, readerVars, consumerVars
<1>2. CASE ConnectionLost
  <2>1. PICK n \in rcvd .. Len(wire) : wire' = Append(SubSeq(wire, 1, n), "lost")
    BY <1>2 DEF ConnectionLost
  <2>2. /\ n \in Nat /\ rcvd <= n /\ n <= Len(wire)
        /\ \A i \in 1 .. n : wire[i] \in Kinds
    BY <1>0, <2>1, ElementOfSeq
  <2>3. /\ SubSeq(wire, 1, n) \in Seq(Kinds) /\ Len(SubSeq(wire, 1, n)) = n
        /\ \A i \in 1 .. n : SubSeq(wire, 1, n)[i] = wire[i]
    BY <2>2, SubSeqProperties
  <2>4. DOMAIN wire' = 1 .. n + 1 /\ \A i \in 1 .. n : wire'[i] = wire[i]
    BY <2>1, <2>2, <2>3, AppendProperties, LenProperties DEF Kinds
  <2>5. \A i \in 1 .. rcvd : i \in DOMAIN wire /\ i \in DOMAIN wire' /\ wire'[i] = wire[i]
    BY <1>0, <2>2, <2>4
  <2> QED
    BY <1>2, <2>5 DEF ConnectionLost, SocketOpen, readerVars, consumerVars
<1> QED
  BY <1>1, <1>2

LEMMA OthersKeepWire ==
  [Next]_vars => Server \/ ConnectionLost \/ UNCHANGED <<wire, server>>
  BY DEF Next, Reader, Consumer, Poll, Terminated, ReceiveRow, ReceiveBadField,
     ReceiveComplete, ReceiveReady, ReceiveFailure, ReceiveLost, ParseRow, SendRemainder,
     FinishChunk, SendRow, SendRowFails, SendRowError, SendLastError, Cancel, PollCheck,
     PollOverLimit, PollItem, PollEnd, PollPending, DropReceiver, DropCancel, vars,
     serverVars

LEMMA StepAnswer ==
  TypeOK /\ WellFormedAnswer /\ [Next]_vars => WellFormedAnswer'
<1> SUFFICES ASSUME TypeOK, WellFormedAnswer, [Next]_vars PROVE WellFormedAnswer'
  OBVIOUS
<1>0. wire \in Seq(Kinds) /\ Len(wire) \in Nat /\ DOMAIN wire = 1 .. Len(wire)
  BY LenProperties DEF TypeOK
<1>1. ASSUME NEW n \in 0 .. Len(wire), NEW k \in Kinds,
             DOMAIN wire' = 1 .. n + 1, wire'[n + 1] = k,
             \A i \in 1 .. n : wire'[i] = wire[i],
             k \in {"notice", "odd", "ready", "lost"} \/ server = "rows",
             k = "ready" => n = Len(wire) /\ server = "closing",
             server' = "rows" => server = "rows" /\ k \notin {"complete", "error"},
             server' = "closing" =>
               n = Len(wire) /\ (server = "closing" \/ k \in {"complete", "error"})
      PROVE  WellFormedAnswer'
  <2>1. n \in Nat /\ \A i \in 1 .. n : i \in DOMAIN wire
    BY <1>0
  <2>2. \A i, j \in DOMAIN wire' :
          i < j /\ wire'[i] \in {"complete", "error"}
            => wire'[j] \in {"notice", "odd", "ready", "lost"}
    BY <1>1, <2>1 DEF WellFormedAnswer, Finished
  <2>3. ASSUME server = "closing", n = Len(wire)
        PROVE  \E i \in 1 .. n : wire'[i] \in {"complete", "error"}
    <3>1. PICK i \in DOMAIN wire : wire[i] \in {"complete", "error"}
      BY <2>3 DEF WellFormedAnswer, Finished
    <3> QED
      BY <1>0, <1>1, <2>3, <3>1
  <2>4. ASSUME NEW j \in DOMAIN wire', wire'[j] = "ready"
        PROVE  \E i \in 1 .. j : wire'[i] \in {"complete", "error"}
    <3>1. CASE j \in 1 .. n
      BY <1>1, <2>1, <2>4, <3>1 DEF WellFormedAnswer, Finished
    <3>2. CASE j = n + 1
      BY <1>1, <2>1, <2>3, <2>4, <3>2
    <3> QED
      BY <1>1, <2>1, <3>1, <3>2
  <2>5. server' = "rows" => \A i \in DOMAIN wire' : wire'[i] \notin {"complete", "error"}
    BY <1>1, <2>1 DEF WellFormedAnswer, Finished
  <2>6. server' = "closing" => \E i \in DOMAIN wire' : wire'[i] \in {"complete", "error"}
    <3>1. n + 1 \in DOMAIN wire' /\ \A i \in 1 .. n : i \in DOMAIN wire'
      BY <1>1, <2>1
    <3> QED
      BY <1>1, <2>3, <3>1
  <2> QED
    BY <2>2, <2>4, <2>5, <2>6 DEF WellFormedAnswer, Finished
<1>2. CASE Server
  <2>1. PICK k \in Kinds :
          /\ wire' = Append(wire, k)
          /\ k \in {"notice", "odd", "ready", "lost"} \/ server = "rows"
          /\ k = "ready" => server = "closing"
          /\ server' = "rows" => server = "rows" /\ k \notin {"complete", "error"}
          /\ server' = "closing" => server = "closing" \/ k \in {"complete", "error"}
    BY <1>2 DEF Server, ServerRow, ServerOther, ServerFinishes, ServerReady, ServerSends,
             Kinds, RowKinds
  <2>2. /\ DOMAIN wire' = 1 .. Len(wire) + 1 /\ wire'[Len(wire) + 1] = k
        /\ \A i \in 1 .. Len(wire) : wire'[i] = wire[i]
    BY <1>0, <2>1, AppendProperties, LenProperties
  <2>3. Len(wire) \in 0 .. Len(wire)
    BY <1>0
  <2> QED
    BY <1>1, <2>1, <2>2, <2>3
<1>3. CASE ConnectionLost
  <2>1. PICK n \in rcvd .. Len(wire) : wire' = Append(SubSeq(wire, 1, n), "lost")
    BY <1>3 DEF ConnectionLost
  <2>2. n \in 0 .. Len(wire) /\ \A i \in 1 .. n : wire[i] \in Kinds
    BY <1>0, <2>1, ElementOfSeq DEF TypeOK
  <2>3. /\ SubSeq(wire, 1, n) \in Seq(Kinds) /\ Len(SubSeq(wire, 1, n)) = n
        /\ \A i \in 1 .. n : SubSeq(wire, 1, n)[i] = wire[i]
    BY <2>2, SubSeqProperties
  <2>4. /\ DOMAIN wire' = 1 .. n + 1 /\ wire'[n + 1] = "lost"
        /\ \A i \in 1 .. n : wire'[i] = wire[i]
        /\ "lost" \in Kinds
    BY <2>1, <2>2, <2>3, AppendProperties, LenProperties DEF Kinds
  <2>5. server' = "gone"
    BY <1>3 DEF ConnectionLost
  <2> QED
    BY <1>1, <2>2, <2>4, <2>5
<1>4. CASE UNCHANGED <<wire, server>>
  BY <1>4 DEF WellFormedAnswer, Finished
<1> QED
  BY <1>2, <1>3, <1>4, OthersKeepWire

(* Behind the end of the answer the reader finds nothing but notices,      *)
(* messages that do not decode, ReadyForQuery and the end of the           *)
(* connection.                                                             *)
LEMMA NothingFollows ==
  ASSUME TypeOK, WellFormedAnswer, Taken, pc = "select", rcvd < Len(wire),
         wire[rcvd + 1] \notin {"notice", "odd", "ready", "lost"}
  PROVE  arm = "DataRow" /\ \A i \in 1 .. rcvd : wire[i] # "complete"
<1>1. rcvd \in Nat /\ Len(wire) \in Nat /\ DOMAIN wire = 1 .. Len(wire)
  BY LenProperties DEF TypeOK
<1>2. \A i \in 1 .. rcvd : i \in DOMAIN wire /\ rcvd + 1 \in DOMAIN wire /\ i < rcvd + 1
  BY <1>1
<1>3. \A i \in 1 .. rcvd : wire[i] # "complete"
  BY <1>2 DEF WellFormedAnswer, Finished
<1>4. arm # "CommandComplete"
  BY <1>1, <1>3 DEF Taken, Reading
<1> QED
  BY <1>3, <1>4 DEF TypeOK

LEMMA ReadyBehindComplete ==
  ASSUME TypeOK, WellFormedAnswer, Taken, pc = "select", rcvd < Len(wire),
         wire[rcvd + 1] = "ready"
  PROVE  arm = "CommandComplete" /\ rcvd > 0 /\ wire[rcvd] = "complete" /\ chunk = <<>>
<1>1. rcvd \in Nat /\ Len(wire) \in Nat /\ DOMAIN wire = 1 .. Len(wire)
  BY LenProperties DEF TypeOK
<1>2. PICK i \in 1 .. rcvd + 1 : wire[i] \in {"complete", "error"}
  BY <1>1 DEF WellFormedAnswer, Finished
<1>3. i \in 1 .. rcvd
  BY <1>1, <1>2
<1> QED
  BY <1>1, <1>2, <1>3 DEF Taken, Reading

LEMMA StepTaken ==
  TypeOK /\ Shape /\ OrderInv /\ WellFormedAnswer /\ Taken /\ [Next]_vars => Taken'
<1> SUFFICES ASSUME TypeOK, Shape, OrderInv, WellFormedAnswer, Taken, [Next]_vars
             PROVE  Taken'
  OBVIOUS
<1>0. /\ rcvd \in Nat /\ rcvd + 1 \in Nat /\ Len(wire) \in Nat /\ DOMAIN wire = 1 .. Len(wire)
      /\ batch \in Seq(Positions) /\ rows \in Seq(Positions)
      /\ AtMost(batch, rcvd) /\ AtMost(rows, rcvd)
      /\ "parse" \in Reading /\ "send" \in Reading /\ "sendRowErr" \in Reading
      /\ "select" \in Reading
      /\ \A x \in {"sendLast", "sendFieldErr", "done"} : x \notin Reading
  BY LenProperties DEF TypeOK, OrderInv, Reading, Flushing
(* The reader goes on with the messages it has.                            *)
<1>a. ASSUME UNCHANGED <<wire, rcvd, arm>>, pc \in Reading, pc' \in Reading,
             pc' = "select" => chunk' = <<>> \/ (pc = "select" /\ UNCHANGED chunk),
             RowsOnly(wire, batch'),
             pc' = "sendRowErr" => ~RowIn(wire, Head(rows'))
      PROVE  Taken'
  BY <1>0, <1>a DEF Taken
(* The reader returns.                                                     *)
<1>b. ASSUME pc' = "done", batch' = <<>>
      PROVE  Taken'
  BY <1>0, <1>b, EmptyRows DEF Taken
(* The reader takes a message that ends its reading.                       *)
<1>c. ASSUME pc' \in {"sendLast", "sendFieldErr"}, batch' = <<>>, UNCHANGED wire,
             wire[rcvd'] # "row"
      PROVE  Taken'
  BY <1>0, <1>c, EmptyRows DEF Taken, RowIn
<1>1. CASE Server \/ ConnectionLost
  <2>1. /\ UNCHANGED <<rcvd, pc, chunk, rows, batch, arm>>
        /\ \A i \in 1 .. rcvd : i \in DOMAIN wire /\ i \in DOMAIN wire' /\ wire'[i] = wire[i]
    BY <1>1, WireStep
  <2>2. \A i \in 1 .. rcvd : RowIn(wire, i) <=> RowIn(wire', i)
    BY <2>1 DEF RowIn
  <2>3. RowsOnly(wire', batch)
    BY <1>0, <2>2, SameRows DEF Taken
  <2>4. pc = "sendRowErr" => Head(rows) \in 1 .. rcvd
    BY <1>0, TailOrder DEF Shape, Positions
  <2>5. pc \in {"sendLast", "sendFieldErr"} => rcvd \in 1 .. rcvd
    BY <1>0 DEF Shape
  <2>6. pc \in Reading /\ arm = "CommandComplete" => rcvd \in 1 .. rcvd
    BY <1>0 DEF Taken
  <2> QED
    BY <2>1, <2>2, <2>3, <2>4, <2>5, <2>6 DEF Taken
<1>2. CASE ReceiveRow
  <2>1. /\ pc = "select" /\ rcvd < Len(wire) /\ rcvd' = rcvd + 1 /\ UNCHANGED wire
        /\ wire[rcvd + 1] \in {"row", "badjson"}
        /\ batch' = <<>> /\ arm' = "DataRow" /\ pc' \in {"select", "parse"}
    BY <1>2 DEF ReceiveRow, Receive, serverVars, Shape, Flushing
  <2>2. \A i \in 1 .. rcvd : wire[i] # "complete"
    BY <2>1, NothingFollows
  <2>3. \A i \in 1 .. rcvd + 1 : i \in 1 .. rcvd \/ i = rcvd + 1
    BY <1>0
  <2>4. \A i \in 1 .. rcvd + 1 : wire[i] \in {"row", "badjson"}
    BY <1>0, <2>1, <2>2, <2>3 DEF Taken
  <2> QED
    BY <1>0, <2>1, <2>4, EmptyRows DEF Taken
<1>3. CASE ReceiveBadField
  BY <1>3, <1>c DEF ReceiveBadField, Receive, serverVars, Shape, Flushing
<1>4. CASE ReceiveComplete
  <2>1. /\ pc = "select" /\ rcvd < Len(wire) /\ rcvd' = rcvd + 1 /\ UNCHANGED wire
        /\ wire[rcvd + 1] = "complete"
        /\ batch' = <<>> /\ arm' = "CommandComplete" /\ pc' = "parse"
    BY <1>4 DEF ReceiveComplete, Receive, serverVars, Shape, Flushing
  <2>2. \A i \in 1 .. rcvd : wire[i] # "complete"
    BY <2>1, NothingFollows
  <2>3. \A i \in 1 .. rcvd + 1 : i \in 1 .. rcvd \/ i = rcvd + 1
    BY <1>0
  <2>4. \A i \in 1 .. rcvd : wire[i] \in {"row", "badjson", "complete"}
    BY <1>0, <2>1 DEF Taken
  <2> QED
    BY <1>0, <2>1, <2>2, <2>3, <2>4, EmptyRows DEF Taken
<1>5. CASE ReceiveReady
  BY <1>5, <1>b DEF ReceiveReady, Receive, Shape, Flushing
<1>6. CASE ReceiveFailure
  BY <1>6, <1>c DEF ReceiveFailure, Receive, serverVars, Shape, Flushing
<1>7. CASE ParseRow
  <2>1. /\ pc = "parse" /\ rows # <<>> /\ UNCHANGED <<wire, rcvd, arm>>
        /\ \/ /\ RowIn(wire, Head(rows)) /\ batch' = Append(batch, Head(rows))
              /\ pc' \in {"send", "parse"}
           \/ /\ ~RowIn(wire, Head(rows)) /\ UNCHANGED <<batch, rows>>
              /\ pc' = "sendRowErr"
    BY <1>7 DEF ParseRow, IsRow, RowIn, serverVars
  <2>2. Head(rows) \in Positions
    BY <1>0, <2>1, HeadTailProperties
  <2>3. RowIn(wire, Head(rows)) => RowsOnly(wire, Append(batch, Head(rows)))
    BY <1>0, <2>2, AppendRows DEF Taken
  <2>4. RowsOnly(wire, batch')
    BY <2>1, <2>3 DEF Taken
  <2> QED
    BY <1>0, <1>a, <2>1, <2>4
<1>8. CASE SendRemainder
  BY <1>0, <1>8, <1>a DEF SendRemainder, serverVars, Taken
<1>9. CASE FinishChunk
  BY <1>0, <1>9, <1>a DEF FinishChunk, serverVars, Shape, Flushing, Taken
<1>10. CASE SendRow
  <2>1. /\ pc = "send" /\ batch # <<>> /\ UNCHANGED <<wire, rcvd, arm>>
        /\ batch' = Tail(batch) /\ pc' \in {"send", "parse"}
    BY <1>10 DEF SendRow, serverVars, Shape
  <2>2. RowsOnly(wire, batch')
    BY <1>0, <2>1, TailRows DEF Taken
  <2> QED
    BY <1>0, <1>a, <2>1, <2>2
<1>11. CASE SendRowFails
  BY <1>0, <1>11, <1>a, EmptyRows DEF SendRowFails, serverVars
<1>12. CASE SendRowError
  BY <1>0, <1>12, <1>a, EmptyRows DEF SendRowError, serverVars
<1>13. CASE SendLastError
  BY <1>13, <1>b DEF SendLastError, Shape, Flushing
<1>14. CASE Cancel
  BY <1>14, <1>b DEF Cancel, Shape, Flushing
<1>15. CASE ReceiveLost
  BY <1>15, <1>c DEF ReceiveLost, ReadFails, serverVars, Shape, Flushing
<1>16. CASE Consumer \/ Terminated \/ UNCHANGED vars
  <2>1. UNCHANGED <<wire, rcvd, pc, chunk, rows, batch, arm>>
    BY <1>16 DEF Consumer, Poll, PollCheck, PollOverLimit, PollItem, PollEnd, PollPending,
       DropReceiver, DropCancel, Terminated, vars, serverVars, readerVars
  <2> QED
    BY <2>1 DEF Taken
<1> QED
  BY <1>1, <1>2, <1>3, <1>4, <1>5, <1>6, <1>7, <1>8, <1>9, <1>10, <1>11, <1>12, <1>13,
     <1>14, <1>15, <1>16
  DEF Next, Reader

LEMMA StepNoGap ==
  /\ TypeOK /\ Shape /\ OrderInv /\ WellFormedAnswer /\ Taken /\ NoGap
  /\ [Next]_vars
  => NoGap'
<1> SUFFICES ASSUME TypeOK, Shape, OrderInv, WellFormedAnswer, Taken, NoGap, [Next]_vars
             PROVE  NoGap'
  OBVIOUS
<1>0. /\ \A s \in {chunk, rows, batch, chan, delivered} : s \in Seq(Positions) /\ Len(s) \in Nat
      /\ Len(<<>>) = 0 /\ <<>> \in Seq(Positions) /\ Sent \in Nat
      /\ rcvd \in Nat /\ rcvd + 1 \in Positions
      /\ Len(wire) \in Nat /\ DOMAIN wire = 1 .. Len(wire)
      /\ AtMost(delivered, rcvd) /\ AtMost(chan, rcvd)
      /\ "parse" \in Reading /\ "send" \in Reading /\ "sendRowErr" \in Reading
      /\ "select" \in Reading
      /\ \A x \in {"sendLast", "sendFieldErr", "done"} : x \notin Reading
  BY LenProperties, EmptySeq DEF TypeOK, OrderInv, Reading, Flushing, Positions, Sent
(* The consumer's side is left alone, and the reader does not return.      *)
<1>a. ASSUME UNCHANGED <<wire, chan, handle, delivered, seen>>, pc # "done", pc' # "done",
             Clean /\ pc' \in Reading =>
               /\ Run(batch', Sent) /\ Run(rows', Sent + Len(batch')) /\ Run(chunk', Sent)
               /\ Sent + Len(batch') + Len(rows') + Len(chunk')
                    = IF arm' = "CommandComplete" THEN rcvd' - 1 ELSE rcvd'
      PROVE  NoGap'
  BY <1>a DEF NoGap, Clean, Sent, Shape, Ended
(* An item that is no row is sent.                                         *)
<1>b. ASSUME NEW e \in Positions, ~RowIn(wire, e), chan' = Append(chan, e), pc # "done",
             UNCHANGED <<wire, handle, delivered, seen>>
      PROVE  NoGap'
  <2>1. /\ ~RowsOnly(wire, chan')
        /\ RowsFrom(wire, chan, Len(delivered)) => RowsFrom(wire, chan', Len(delivered))
    BY <1>0, <1>b, AppendRows
  <2> QED
    BY <1>b, <2>1 DEF NoGap, Clean, Shape, Ended
(* The consumer is gone.                                                   *)
<1>c. ASSUME handle' # "live", chan' = <<>>, UNCHANGED <<wire, delivered, seen>>,
             rcvd' = rcvd
      PROVE  NoGap'
  BY <1>0, <1>c, EmptyRows DEF NoGap, Clean, Ended
<1>1. CASE Server \/ ConnectionLost
  <2>1. /\ pc # "done"
        /\ UNCHANGED <<rcvd, pc, chunk, rows, batch, arm, chan, handle, delivered, seen>>
        /\ \A i \in 1 .. rcvd : i \in DOMAIN wire /\ i \in DOMAIN wire' /\ wire'[i] = wire[i]
    BY <1>1, WireStep
  <2>2. \A i \in 1 .. rcvd : RowIn(wire, i) <=> RowIn(wire', i)
    BY <2>1 DEF RowIn
  <2>3. /\ RowsOnly(wire, delivered) <=> RowsOnly(wire', delivered)
        /\ \A base : RowsFrom(wire, delivered, base) <=> RowsFrom(wire', delivered, base)
    BY <1>0, <2>2, SameRows
  <2>4. /\ RowsOnly(wire, chan) <=> RowsOnly(wire', chan)
        /\ \A base : RowsFrom(wire, chan, base) <=> RowsFrom(wire', chan, base)
    BY <1>0, <2>2, SameRows
  <2>5. ~Ended
    BY <2>1 DEF Shape
  <2> QED
    BY <2>1, <2>3, <2>4, <2>5 DEF NoGap, Clean, Sent, Ended
<1>2. CASE ReceiveRow
  <2> DEFINE grown == Append(chunk, rcvd + 1)
  <2>1. /\ pc = "select" /\ rcvd < Len(wire) /\ rcvd' = rcvd + 1
        /\ wire[rcvd + 1] \in {"row", "badjson"}
        /\ rows = <<>> /\ batch = <<>> /\ batch' = <<>> /\ arm' = "DataRow"
        /\ pc' \in {"select", "parse"}
        /\ \/ rows' = grown /\ chunk' = <<>>
           \/ rows' = <<>> /\ chunk' = grown
        /\ UNCHANGED <<wire, chan, handle, delivered, seen>>
    BY <1>2 DEF ReceiveRow, Receive, serverVars, consumerVars, Shape, Flushing
  <2>2. arm = "DataRow"
    BY <2>1, NothingFollows
  <2>3. Clean => Run(chunk, Sent) /\ Sent + Len(chunk) = rcvd /\ Sent \in Nat
    BY <1>0, <2>1, <2>2 DEF NoGap, Sent
  <2>4. Len(grown) = Len(chunk) + 1
    BY <1>0, AppendProperties
  <2>5. ASSUME Clean
        PROVE  Run(grown, Sent) /\ Sent + Len(grown) = rcvd'
    <3>1. Len(chunk) \in Nat /\ rcvd + 1 = Sent + Len(chunk) + 1
      BY <1>0, <2>3, <2>5
    <3> QED
      BY <1>0, <2>1, <2>3, <2>4, <2>5, <3>1, AppendRun
  <2> HIDE DEF grown
  <2> QED
    BY <1>0, <1>a, <2>1, <2>3, <2>5, EmptyRows, SMTT(30)
<1>3. CASE ReceiveBadField
  BY <1>0, <1>3, <1>a DEF ReceiveBadField, Receive, serverVars, consumerVars
<1>4. CASE ReceiveComplete
  <2>1. /\ pc = "select" /\ rcvd < Len(wire) /\ rcvd' = rcvd + 1
        /\ wire[rcvd + 1] = "complete"
        /\ rows = <<>> /\ batch = <<>> /\ batch' = <<>> /\ arm' = "CommandComplete"
        /\ pc' = "parse" /\ rows' = chunk /\ chunk' = <<>>
        /\ UNCHANGED <<wire, chan, handle, delivered, seen>>
    BY <1>4 DEF ReceiveComplete, Receive, serverVars, consumerVars, Shape, Flushing
  <2>2. arm = "DataRow"
    BY <2>1, NothingFollows
  <2>3. Clean => Run(chunk, Sent) /\ Sent + Len(chunk) = rcvd /\ Sent \in Nat
    BY <1>0, <2>1, <2>2 DEF NoGap, Sent
  <2> QED
    BY <1>0, <1>a, <2>1, <2>3, EmptyRows
<1>5. CASE ReceiveReady
  <2>1. /\ pc = "select" /\ rcvd < Len(wire) /\ rcvd' = rcvd + 1 /\ wire[rcvd + 1] = "ready"
        /\ rows = <<>> /\ batch = <<>> /\ pc' = "done"
        /\ UNCHANGED <<wire, chan, handle, delivered, seen>>
    BY <1>5 DEF ReceiveReady, Receive, serverVars, consumerVars, Shape, Flushing
  <2>2. arm = "CommandComplete" /\ rcvd > 0 /\ wire[rcvd] = "complete" /\ chunk = <<>>
    BY <2>1, ReadyBehindComplete
  <2>3. Clean => Sent + 1 = rcvd
    BY <1>0, <2>1, <2>2 DEF NoGap, Sent
  <2>4. ~Ended
    BY <2>1 DEF Shape
  <2> QED
    BY <1>0, <2>1, <2>2, <2>3, <2>4 DEF NoGap, Clean, Sent, Ended
<1>6. CASE ReceiveFailure
  BY <1>0, <1>6, <1>a DEF ReceiveFailure, Receive, serverVars, consumerVars
<1>7. CASE ParseRow
  <2>1. /\ pc = "parse" /\ rows # <<>> /\ chunk = <<>>
        /\ UNCHANGED <<wire, chan, handle, delivered, seen, rcvd, chunk, arm>>
        /\ pc' \in Reading /\ pc' # "done"
        /\ \/ batch' = Append(batch, Head(rows)) /\ rows' = Tail(rows)
           \/ UNCHANGED <<batch, rows>>
    BY <1>0, <1>7 DEF ParseRow, serverVars, consumerVars, Shape, Flushing
  <2>2. Clean =>
          /\ Sent \in Nat /\ Run(batch, Sent) /\ Run(rows, Sent + Len(batch)) /\ Run(chunk, Sent)
          /\ Sent + Len(batch) + Len(rows) + Len(chunk)
               = IF arm = "CommandComplete" THEN rcvd - 1 ELSE rcvd
    BY <1>0, <2>1 DEF NoGap, Sent
  <2>3. CASE UNCHANGED <<batch, rows>>
    BY <1>0, <1>a, <2>1, <2>2, <2>3
  <2>4. CASE batch' = Append(batch, Head(rows)) /\ rows' = Tail(rows)
    <3>1. Head(rows) \in Positions /\ Len(rows') = Len(rows) - 1 /\ Len(batch') = Len(batch) + 1
      BY <1>0, <2>1, <2>4, HeadTailProperties, AppendProperties
    <3>2. Len(batch) \in Nat /\ Sent + Len(batch) \in Nat
      BY <1>0
    <3>3. ASSUME Clean
          PROVE  Head(rows) = Sent + Len(batch) + 1 /\ Run(rows', Sent + Len(batch'))
      <4>1. Sent + Len(batch') = (Sent + Len(batch)) + 1
        BY <1>0, <3>1, <3>2
      <4> QED
        BY <1>0, <2>1, <2>2, <2>4, <3>2, <3>3, <4>1, TailRun
    <3>4. Clean => Run(batch', Sent)
      BY <1>0, <2>2, <2>4, <3>3, AppendRun
    <3>5. Clean => Sent + Len(batch') + Len(rows') + Len(chunk')
                     = IF arm' = "CommandComplete" THEN rcvd' - 1 ELSE rcvd'
      <4>1. Len(rows) \in Nat /\ Len(chunk) \in Nat /\ chunk' = chunk
        BY <1>0, <2>1
      <4>2. Sent + Len(batch') + Len(rows') + Len(chunk')
              = Sent + Len(batch) + Len(rows) + Len(chunk)
        BY <1>0, <3>1, <3>2, <4>1
      <4> QED
        BY <2>1, <2>2, <4>2
    <3> QED
      BY <1>a, <2>1, <2>2, <3>3, <3>4, <3>5
  <2> QED
    BY <2>1, <2>3, <2>4
<1>8. CASE SendRemainder
  BY <1>0, <1>8, <1>a DEF SendRemainder, serverVars, consumerVars, NoGap
<1>9. CASE FinishChunk
  BY <1>0, <1>9, <1>a DEF FinishChunk, serverVars, consumerVars, NoGap
<1>10. CASE SendRow
  <2> DEFINE h == Head(batch)
  <2>1. /\ pc = "send" /\ batch # <<>> /\ chunk = <<>> /\ handle = "live"
        /\ chan' = Append(chan, h) /\ batch' = Tail(batch)
        /\ UNCHANGED <<wire, handle, delivered, seen, rcvd, chunk, rows, arm>>
        /\ pc' \in Reading /\ pc' # "done"
    BY <1>0, <1>10 DEF SendRow, Send, serverVars, consumerVars, Shape, Flushing
  <2>a. h \in Positions /\ Len(batch') = Len(batch) - 1
    BY <1>0, <2>1, HeadTailProperties
  <2>b. Len(chan') = Len(chan) + 1
    BY <1>0, <2>1, <2>a, AppendProperties
  <2>c. RowIn(wire, h)
    BY <1>0, <2>1, TailRows DEF Taken
  <2>2. /\ h \in Positions /\ RowIn(wire, h)
        /\ Len(chan') = Len(chan) + 1 /\ Len(batch') = Len(batch) - 1
    BY <2>a, <2>b, <2>c
  <2>3. Sent \in Nat /\ Sent' = Sent + 1 /\ Sent' + Len(batch') = Sent + Len(batch)
    BY <1>0, <2>1, <2>2 DEF Sent
  <2>4. Clean <=> Clean'
    BY <1>0, <2>1, <2>2, AppendRows DEF Clean
  <2>5. Clean =>
          /\ Run(batch, Sent) /\ Run(rows, Sent + Len(batch)) /\ Run(chunk, Sent)
          /\ Sent + Len(batch) + Len(rows) + Len(chunk)
               = IF arm = "CommandComplete" THEN rcvd - 1 ELSE rcvd
    BY <1>0, <2>1 DEF NoGap
  <2>6. Clean => h = Sent + 1 /\ Run(batch', Sent + 1)
    BY <1>0, <2>1, <2>3, <2>5, TailRun
  <2>7. RowsOnly(wire, delivered) => RowsFrom(wire, chan', Len(delivered))
    <3>1. RowsOnly(wire, delivered) /\ RowsOnly(wire, chan) => h = Len(delivered) + Len(chan) + 1
      BY <2>1, <2>6 DEF Clean, Sent
    <3> QED
      BY <1>0, <2>1, <2>2, <3>1, AppendRows DEF NoGap
  <2>8. ~Ended /\ ~Ended'
    BY <2>1 DEF Shape, Ended
  <2>9. Clean' =>
          /\ Run(batch', Sent') /\ Run(rows', Sent' + Len(batch')) /\ Run(chunk', Sent')
          /\ Sent' + Len(batch') + Len(rows') + Len(chunk')
               = IF arm' = "CommandComplete" THEN rcvd' - 1 ELSE rcvd'
    BY <1>0, <2>1, <2>2, <2>3, <2>4, <2>5, <2>6, EmptyRows
  <2> QED
    BY <2>1, <2>7, <2>8, <2>9 DEF NoGap
<1>11. CASE SendRowFails
  BY <1>0, <1>11, <1>c DEF SendRowFails, SendFails, serverVars, consumerVars, Shape
<1>12. CASE SendRowError
  <2>1. /\ pc = "sendRowErr" /\ rows # <<>>
        /\ UNCHANGED <<wire, handle, delivered, seen, rcvd>>
    BY <1>12 DEF SendRowError, serverVars, consumerVars, Shape
  <2>2. CASE Send(Head(rows))
    BY <1>0, <1>b, <2>1, <2>2, HeadTailProperties DEF Send, Taken
  <2>3. CASE SendFails
    BY <1>0, <1>c, <2>1, <2>3 DEF SendFails, Shape
  <2> QED
    BY <1>12, <2>2, <2>3 DEF SendRowError
<1>13. CASE SendLastError
  <2>1. /\ pc \in {"sendFieldErr", "sendLast"} /\ rcvd \in Positions
        /\ UNCHANGED <<wire, handle, delivered, seen, rcvd>>
    BY <1>0, <1>13 DEF SendLastError, serverVars, consumerVars, Shape, Positions
  <2>2. CASE Send(rcvd)
    BY <1>b, <2>1, <2>2 DEF Send, Taken
  <2>3. CASE SendFails
    BY <1>0, <1>c, <2>1, <2>3 DEF SendFails, Shape
  <2> QED
    BY <1>13, <2>2, <2>3 DEF SendLastError
<1>14. CASE Cancel
  BY <1>0, <1>14, <1>c DEF Cancel, serverVars, consumerVars, Shape
<1>15. CASE PollItem
  <2> DEFINE h == Head(chan)
  <2>1. /\ handle = "live" /\ chan # <<>> /\ delivered' = Append(delivered, h)
        /\ chan' = Tail(chan)
        /\ UNCHANGED <<wire, rcvd, pc, chunk, rows, batch, arm, handle, seen>>
    BY <1>15 DEF PollItem, serverVars, readerVars
  <2>2. /\ h \in Positions
        /\ Len(delivered') = Len(delivered) + 1 /\ Len(chan') = Len(chan) - 1
    BY <1>0, <2>1, HeadTailProperties, AppendProperties
  <2>3. Sent' = Sent
    BY <1>0, <2>2 DEF Sent
  <2>4. RowsOnly(wire, delivered') <=> RowsOnly(wire, delivered) /\ RowIn(wire, h)
    BY <1>0, <2>1, <2>2, AppendRows
  <2>5. RowsOnly(wire, chan) <=> RowIn(wire, h) /\ RowsOnly(wire, chan')
    BY <1>0, <2>1, TailRows
  <2>6. Clean' <=> Clean
    BY <2>1, <2>4, <2>5 DEF Clean
  <2>7. RowsOnly(wire, delivered') =>
          h = Len(delivered) + 1 /\ RowsFrom(wire, chan', Len(delivered'))
    <3>1. Len(delivered) \in Nat /\ chan \in Seq(Positions)
      BY <1>0
    <3>2. RowsOnly(wire, delivered') => RowsFrom(wire, chan, Len(delivered)) /\ RowIn(wire, h)
      BY <2>4 DEF NoGap
    <3> QED
      BY <2>1, <2>2, <3>1, <3>2, TailRows
  <2>8. RowsFrom(wire, delivered', 0)
    BY <1>0, <2>1, <2>2, <2>4, <2>7, AppendRows, SMTT(30) DEF NoGap
  <2>9. ~Ended /\ ~Ended'
    BY <2>1 DEF Shape, Ended
  <2> QED
    BY <2>1, <2>3, <2>6, <2>7, <2>8, <2>9 DEF NoGap
<1>16. CASE PollEnd
  <2>1. /\ handle = "live" /\ pc = "done" /\ chan = <<>>
        /\ UNCHANGED <<wire, rcvd, pc, chunk, rows, batch, arm, chan, handle, delivered>>
    BY <1>16 DEF PollEnd, serverVars, readerVars
  <2>2. RowsOnly(wire, delivered) =>
          Len(delivered) < rcvd /\ wire[Len(delivered) + 1] = "complete"
    BY <1>0, <2>1, EmptyRows DEF NoGap, Clean, Sent
  <2> QED
    BY <2>1, <2>2 DEF NoGap, Clean, Sent
<1>17. CASE DropReceiver
  BY <1>17, <1>c DEF DropReceiver, serverVars, readerVars
<1>18. CASE DropCancel
  BY <1>0, <1>18, <1>c DEF DropCancel, serverVars, readerVars, Shape
<1>19. CASE ReceiveLost
  BY <1>0, <1>19, <1>a DEF ReceiveLost, ReadFails, serverVars, consumerVars
<1>20. CASE PollCheck \/ PollPending \/ PollOverLimit \/ Terminated \/ UNCHANGED vars
  <2>1. /\ UNCHANGED <<wire, rcvd, pc, chunk, rows, batch, arm, chan, handle, delivered>>
        /\ Ended' <=> Ended
    BY <1>20 DEF PollCheck, PollPending, PollOverLimit, Terminated, Ended, vars, serverVars,
       readerVars, consumerVars
  <2> QED
    BY <2>1 DEF NoGap, Clean, Sent
<1> QED
  BY <1>1, <1>2, <1>3, <1>4, <1>5, <1>6, <1>7, <1>8, <1>9, <1>10, <1>11, <1>12, <1>13,
     <1>14, <1>15, <1>16, <1>17, <1>18, <1>19, <1>20
  DEF Next, Reader, Consumer, Poll

LEMMA StepCounted ==
  TypeOK /\ Shape /\ WellFormedAnswer /\ Taken /\ Counted /\ [Next]_vars => Counted'
<1> SUFFICES ASSUME TypeOK, Shape, WellFormedAnswer, Taken, Counted, [Next]_vars
             PROVE  Counted'
  OBVIOUS
<1>0. /\ rcvd \in Nat /\ Len(wire) \in Nat
      /\ \A i \in 1 .. rcvd : i \in 1 .. rcvd + 1
      /\ completed \in [Outcomes -> Nat]
      /\ "parse" \in Reading /\ "send" \in Reading /\ "sendRowErr" \in Reading
      /\ "select" \in Reading
      /\ \A x \in {"sendLast", "sendFieldErr", "done"} : x \notin Reading
  BY LenProperties DEF TypeOK, Reading, Flushing
(* Nothing is counted.                                                     *)
<1>a. ASSUME UNCHANGED <<completed, handle>>,
             rcvd' \in {rcvd, rcvd + 1},
             \A i \in 1 .. rcvd : wire'[i] = wire[i],
             pc' \in Reading =>
               /\ pc \in Reading
               /\ (pc' = "select" /\ arm' = "CommandComplete")
                    = (pc = "select" /\ arm = "CommandComplete"),
             pc' \in {"done", "sendLast"} => \E o \in Outcomes : completed[o] > 0
      PROVE  Counted'
  BY <1>0, <1>a DEF Counted
(* One error or one cancellation is counted.                               *)
<1>b. ASSUME NEW o \in {"error", "cancelled"}, Complete(o),
             o = "cancelled" => handle = "dropped",
             UNCHANGED <<handle, wire>>, rcvd' \in Nat, rcvd <= rcvd',
             pc' \in Reading => pc \in Flushing /\ pc' \in Flushing
      PROVE  Counted'
  <2>1. /\ o \in Outcomes /\ completed'[o] = completed[o] + 1 /\ completed[o] \in Nat
        /\ completed'["success"] = completed["success"]
        /\ completed'["cancelled"] > 0 => o = "cancelled" \/ completed["cancelled"] > 0
    BY <1>0, <1>b DEF Complete, Outcomes
  <2>2. pc' \in Reading => completed["success"] = 0
    BY <1>0, <1>b DEF Counted, Reading, Flushing
  <2>3. completed'["success"] = 1 => \E i \in 1 .. rcvd' : wire'[i] = "complete"
    BY <1>0, <1>b, <2>1 DEF Counted
  <2>4. \E x \in Outcomes : completed'[x] > 0
    BY <2>1
  <2>5. pc' = "select" => pc' \notin Flushing
    BY DEF Flushing
  <2> QED
    BY <1>b, <2>1, <2>2, <2>3, <2>4, <2>5 DEF Counted, Reading
<1>1. CASE Server \/ ConnectionLost
  <2>1. UNCHANGED <<rcvd, pc, arm, completed, handle>> /\ \A i \in 1 .. rcvd : wire'[i] = wire[i]
    BY <1>1, WireStep
  <2> QED
    BY <1>a, <2>1 DEF Counted
<1>2. CASE ReceiveRow
  <2>1. /\ pc = "select" /\ rcvd < Len(wire) /\ wire[rcvd + 1] \in {"row", "badjson"}
        /\ arm' = "DataRow" /\ pc' \in {"select", "parse"} /\ rcvd' = rcvd + 1
        /\ UNCHANGED <<wire, completed, handle>>
    BY <1>2 DEF ReceiveRow, Receive, serverVars, consumerVars
  <2>2. arm = "DataRow"
    BY <2>1, NothingFollows
  <2> QED
    BY <1>0, <1>a, <2>1, <2>2
<1>3. CASE ReceiveBadField
  BY <1>0, <1>3, <1>a DEF ReceiveBadField, Receive, serverVars, consumerVars
<1>4. CASE ReceiveComplete
  <2>1. /\ pc = "select" /\ rcvd < Len(wire) /\ wire[rcvd + 1] = "complete"
        /\ pc' = "parse" /\ rcvd' = rcvd + 1
        /\ UNCHANGED <<wire, completed, handle>>
    BY <1>4 DEF ReceiveComplete, Receive, serverVars, consumerVars
  <2>2. arm = "DataRow"
    BY <2>1, NothingFollows
  <2> QED
    BY <1>0, <1>a, <2>1, <2>2
<1>5. CASE ReceiveReady
  <2>1. /\ pc = "select" /\ rcvd < Len(wire) /\ wire[rcvd + 1] = "ready"
        /\ pc' = "done" /\ rcvd' = rcvd + 1
        /\ UNCHANGED <<wire, completed, handle>>
    BY <1>5 DEF ReceiveReady, Receive, serverVars, consumerVars
  <2>2. completed["success"] > 0 /\ "success" \in Outcomes
    BY <1>0, <2>1, ReadyBehindComplete DEF Counted, Outcomes
  <2> QED
    BY <1>0, <1>a, <2>1, <2>2
<1>6. CASE ReceiveFailure \/ ReceiveLost
  <2>1. /\ pc' = "sendLast" /\ rcvd' \in Nat /\ rcvd <= rcvd' /\ Complete("error")
        /\ UNCHANGED <<wire, handle>>
    BY <1>0, <1>6
    DEF ReceiveFailure, Receive, ReceiveLost, ReadFails, serverVars, consumerVars
  <2> QED
    BY <1>0, <1>b, <2>1
<1>7. CASE ParseRow \/ SendRemainder \/ SendRow
  <2>1. /\ pc \in Flushing /\ pc' \in Flushing
        /\ UNCHANGED <<wire, completed, handle, rcvd, arm>>
    BY <1>7 DEF ParseRow, SendRemainder, SendRow, Flushing, serverVars, consumerVars
  <2> QED
    BY <1>0, <1>a, <2>1 DEF Reading, Flushing
<1>8. CASE FinishChunk
  <2>1. /\ pc = "parse" /\ pc' = "select"
        /\ UNCHANGED <<wire, handle, rcvd, arm>>
        /\ IF arm = "CommandComplete" THEN Complete("success") ELSE UNCHANGED completed
    BY <1>8 DEF FinishChunk, serverVars, consumerVars
  <2>2. CASE arm = "CommandComplete"
    <3>1. completed["success"] = 0 /\ rcvd \in 1 .. rcvd /\ wire[rcvd] = "complete"
      BY <1>0, <2>1, <2>2 DEF Counted, Taken
    <3>2. /\ completed'["success"] = 1
          /\ completed'["cancelled"] = completed["cancelled"]
      BY <1>0, <2>1, <2>2, <3>1 DEF Complete, Outcomes
    <3> QED
      BY <2>1, <2>2, <3>1, <3>2 DEF Counted
  <2>3. CASE arm # "CommandComplete"
    BY <1>0, <1>a, <2>1, <2>3
  <2> QED
    BY <2>2, <2>3
<1>9. CASE SendRowFails \/ SendRowError
  <2>1. /\ pc \in Flushing /\ pc' \in Flushing /\ Complete("error")
        /\ UNCHANGED <<wire, handle, rcvd>>
    BY <1>9 DEF SendRowFails, SendRowError, Flushing, serverVars, consumerVars
  <2> QED
    BY <1>0, <1>b, <2>1
<1>10. CASE SendLastError
  <2>1. /\ pc \in {"sendFieldErr", "sendLast"} /\ pc' = "done"
        /\ UNCHANGED <<wire, handle, rcvd>>
        /\ IF pc = "sendFieldErr" THEN Complete("error") ELSE UNCHANGED completed
    BY <1>10 DEF SendLastError, serverVars, consumerVars
  <2>2. CASE pc = "sendFieldErr"
    BY <1>0, <1>b, <2>1, <2>2
  <2>3. CASE pc = "sendLast"
    <3>1. \E o \in Outcomes : completed[o] > 0
      BY <2>3 DEF Counted
    <3> QED
      BY <1>0, <1>a, <2>1, <2>3, <3>1
  <2> QED
    BY <2>1, <2>2, <2>3
<1>11. CASE Cancel
  <2>1. /\ pc' = "done" /\ handle = "dropped" /\ Complete("cancelled")
        /\ UNCHANGED <<wire, handle, rcvd>>
    BY <1>11 DEF Cancel, serverVars, consumerVars
  <2> QED
    BY <1>0, <1>b, <2>1
<1>12. CASE Consumer \/ Terminated \/ UNCHANGED vars
  <2>1. /\ UNCHANGED <<wire, rcvd, pc, arm, completed>>
        /\ handle = "dropped" => handle' = "dropped"
    BY <1>12 DEF Consumer, Poll, PollCheck, PollOverLimit, PollItem, PollEnd, PollPending,
       DropReceiver, DropCancel, Terminated, vars, serverVars, readerVars, consumerVars
  <2> QED
    BY <2>1 DEF Counted
<1> QED
  BY <1>1, <1>2, <1>3, <1>4, <1>5, <1>6, <1>7, <1>8, <1>9, <1>10, <1>11, <1>12
  DEF Next, Reader

-----------------------------------------------------------------------------
ResultInv ==
  TypeOK /\ Shape /\ OrderInv /\ WellFormedAnswer /\ Taken /\ NoGap /\ Counted

LEMMA ResultInvariant == Spec => []ResultInv
<1>1. Init => ResultInv
  <2> SUFFICES ASSUME Init PROVE ResultInv
    OBVIOUS
  <2>1. TypeOK /\ Shape
    BY InitShape
  <2>2. OrderInv
    BY EmptyOrder DEF Init, OrderInv, Ordered
  <2>3. DOMAIN wire = {} /\ Len(<<>>) = 0 /\ 1 .. 0 = {}
    BY DEF Init
  <2>4. WellFormedAnswer
    BY <2>3 DEF Init, WellFormedAnswer
  <2>5. Taken
    BY <2>3, EmptyRows DEF Init, Taken, Reading
  <2>6. NoGap
    BY <2>3, EmptyRows DEF Init, NoGap, Clean, Sent, Ended
  <2>7. Counted
    BY <2>3 DEF Init, Counted, Outcomes
  <2> QED
    BY <2>1, <2>2, <2>4, <2>5, <2>6, <2>7 DEF ResultInv
<1>2. ResultInv /\ [Next]_vars => ResultInv'
  BY StepShape, StepOrder, StepAnswer, StepTaken, StepNoGap, StepCounted DEF ResultInv
<1> QED
  BY <1>1, <1>2, PTL DEF Spec

(* Until the first error the consumer gets exactly the first rows of the   *)
(* result, without a gap (ExactPrefix).                                    *)
THEOREM FirstRowsExact == Spec => []ExactPrefix
<1>1. ResultInv => ExactPrefix
  <2> SUFFICES ASSUME ResultInv, NEW n \in DOMAIN delivered,
                      \A i \in 1 .. n : IsRow(delivered[i])
               PROVE  delivered[n] = n
    BY DEF ExactPrefix
  <2>1. n \in Nat /\ delivered[n] = 0 + n
    BY LenProperties DEF ResultInv, TypeOK, NoGap, RowsFrom, RowIn, IsRow
  <2> QED
    BY <2>1
<1> QED
  BY <1>1, ResultInvariant, PTL

(* A stream that ends without having yielded an error has yielded every    *)
(* row of a result that the server had reported complete                   *)
(* (NoSilentTruncation), whatever failed or raced on the way.              *)
THEOREM EndIsComplete == Spec => []NoSilentTruncation
<1>1. ResultInv => NoSilentTruncation
  <2> SUFFICES ASSUME ResultInv, Ended, AllRows(delivered)
               PROVE  /\ Len(delivered) < rcvd
                      /\ \A i \in DOMAIN delivered : delivered[i] = i
                      /\ wire[Len(delivered) + 1] = "complete"
    BY DEF NoSilentTruncation
  <2>1. RowsOnly(wire, delivered) /\ NoGap
    BY DEF ResultInv, AllRows, IsRow, RowsOnly, RowIn
  <2>2. \A i \in DOMAIN delivered : delivered[i] = i
    BY <2>1, AllRowsExact DEF ResultInv, TypeOK, NoGap
  <2> QED
    BY <2>1, <2>2 DEF NoGap
<1> QED
  BY <1>1, ResultInvariant, PTL

(* Every query that is over has been counted, success at most once and     *)
(* only for a complete result, cancelled only for a dropped stream         *)
(* (OutcomeCounted).                                                       *)
THEOREM QueryCounted == Spec => []OutcomeCounted
<1>1. ResultInv => OutcomeCounted
  BY DEF ResultInv, Counted, OutcomeCounted
<1> QED
  BY <1>1, ResultInvariant, PTL

-----------------------------------------------------------------------------
(* An ended stream stays ended: no item follows None (Fused).              *)
THEOREM NothingAfterNone == Spec => Fused
<1>1. ResultInv /\ [Next]_vars => [Ended => delivered' = delivered]_vars
  <2> SUFFICES ASSUME ResultInv, [Next]_vars, Ended PROVE delivered' = delivered
    OBVIOUS
  <2>1. chan = <<>>
    BY DEF ResultInv, Shape
  <2> QED
    BY <2>1
    DEF Next, Server, ServerRow, ServerOther, ServerFinishes, ServerReady, ServerSends,
        ConnectionLost, Reader, ReceiveRow, ReceiveBadField, ReceiveComplete, ReceiveReady,
        ReceiveFailure, ReceiveLost, ParseRow, SendRemainder, FinishChunk, SendRow,
        SendRowFails, SendRowError, SendLastError, Cancel, Consumer, Poll, PollCheck,
        PollOverLimit, PollItem, PollEnd, PollPending, DropReceiver, DropCancel,
        Terminated, vars, consumerVars
<1> QED
  BY <1>1, ResultInvariant, PTL DEF Spec, Fused

(* Above the memory limit, and with no poll under way, the stream is       *)
(* stuck: it yields no item and no None, no poll gets past the check, and  *)
(* the estimate stays above the limit until the stream is dropped          *)
(* (LimitLatches).                                                         *)
Stuck ==
  /\ delivered' = delivered /\ Ended' = Ended
  /\ handle' = "live" => OverLimit' /\ ~polling'

LEMMA StepLimit ==
  ASSUME TypeOK, Shape, [Next]_vars, handle = "live", ~polling, OverLimit
  PROVE  Stuck
<1>0. chan \in Seq(Positions) /\ Len(chan) \in Nat
  BY LenProperties DEF TypeOK
<1>a. ASSUME UNCHANGED <<polling, delivered, seen>>, UNCHANGED chan \/ handle' # "live"
      PROVE  Stuck
  BY <1>a DEF Stuck, Ended, OverLimit
<1>b. ASSUME NEW e \in Positions, Send(e), UNCHANGED <<polling, delivered, seen>>
      PROVE  Stuck
  <2>1. Len(chan') = Len(chan) + 1
    BY <1>0, <1>b, AppendProperties DEF Send
  <2>2. OverLimit'
    BY <1>0, <2>1, MemAssumption DEF OverLimit
  <2>3. Ended' = Ended
    BY <1>b DEF Ended
  <2> QED
    BY <1>b, <2>2, <2>3 DEF Stuck
<1>1. CASE Server \/ ConnectionLost
  BY <1>1, <1>a, WireStep
<1>2. CASE SendRow
  BY <1>2, <1>b, HeadTailProperties DEF SendRow, TypeOK, Shape, consumerVars
<1>3. CASE SendRowError
  <2>1. Head(rows) \in Positions /\ UNCHANGED <<polling, delivered, seen>>
    BY <1>3, HeadTailProperties DEF SendRowError, TypeOK, Shape, consumerVars
  <2> QED
    BY <1>3, <1>a, <1>b, <2>1 DEF SendRowError, SendFails
<1>4. CASE SendLastError
  <2>1. rcvd \in Positions /\ UNCHANGED <<polling, delivered, seen>>
    BY <1>4 DEF SendLastError, TypeOK, Shape, Positions, consumerVars
  <2> QED
    BY <1>4, <1>a, <1>b, <2>1 DEF SendLastError, SendFails
<1>5. CASE PollCheck \/ PollItem \/ PollEnd \/ PollPending
  BY <1>5 DEF PollCheck, PollItem, PollEnd, PollPending
<1>6. CASE PollOverLimit
  BY <1>6 DEF PollOverLimit, Stuck, Ended, OverLimit
<1>7. CASE \/ ReceiveRow \/ ReceiveBadField \/ ReceiveComplete \/ ReceiveReady
           \/ ReceiveFailure \/ ReceiveLost \/ ParseRow \/ SendRemainder \/ FinishChunk
           \/ SendRowFails \/ Cancel \/ DropReceiver \/ DropCancel \/ Terminated \/ UNCHANGED vars
  BY <1>7, <1>a
  DEF ReceiveRow, ReceiveBadField, ReceiveComplete, ReceiveReady, ReceiveFailure,
      ReceiveLost, ParseRow, SendRemainder, FinishChunk, SendRowFails, SendFails, Cancel,
      DropReceiver, DropCancel,
      Terminated, vars, consumerVars
<1> QED
  BY <1>1, <1>2, <1>3, <1>4, <1>5, <1>6, <1>7 DEF Next, Reader, Consumer, Poll

(* Once the estimate is above the limit between two polls, nothing more is *)
(* yielded and the estimate stays above it (LimitLatches), however the     *)
(* reader's sends fall between the check and the receive of a poll.        *)
THEOREM LimitLatched == Spec => LimitLatches
<1>1. ResultInv /\ [Next]_vars
        => [handle = "live" /\ ~polling /\ OverLimit =>
              /\ delivered' = delivered /\ Ended' = Ended
              /\ handle' = "live" => OverLimit' /\ ~polling']_vars
  BY StepLimit DEF ResultInv, Stuck
<1> QED
  BY <1>1, ResultInvariant, PTL DEF Spec, LimitLatches

(* The promise of ResultStream, kept by every step.                        *)
status == IF handle # "live" THEN "dropped" ELSE IF Ended THEN "ended" ELSE "open"
lastItem == IF delivered = <<>> THEN 0 ELSE delivered[Len(delivered)]

LEMMA LastItem ==
  ASSUME TypeOK, OrderInv
  PROVE  /\ lastItem \in 0 .. rcvd
         /\ \A t \in Seq(Positions) : t # <<>> /\ Before(delivered, t) => lastItem < Head(t)
<1>1. /\ delivered \in Seq(Positions) /\ rcvd \in Nat /\ AtMost(delivered, rcvd)
      /\ DOMAIN delivered = 1 .. Len(delivered)
      /\ delivered # <<>> => Len(delivered) \in DOMAIN delivered
                             /\ delivered[Len(delivered)] \in Positions
  BY LenProperties, EmptySeq, ElementOfSeq DEF TypeOK, OrderInv
<1>2. lastItem \in 0 .. rcvd
  BY <1>1 DEF lastItem, AtMost, Positions
<1>3. ASSUME NEW t \in Seq(Positions), t # <<>>, Before(delivered, t)
      PROVE  lastItem < Head(t)
  <2>1. Head(t) = t[1] /\ 1 \in DOMAIN t /\ t[1] \in Positions
    BY <1>3, LenProperties, EmptySeq, ElementOfSeq
  <2> QED
    BY <1>1, <1>3, <2>1, SMTT(30) DEF lastItem, Before, Positions
<1> QED
  BY <1>2, <1>3

LEMMA StepPromise ==
  ResultInv /\ [Next]_vars => [Promise!StreamNext]_<<wire, delivered, status>>
<1> SUFFICES ASSUME ResultInv, [Next]_vars
             PROVE  Promise!StreamNext \/ UNCHANGED <<wire, delivered, status>>
  OBVIOUS
<1>0. /\ TypeOK /\ Shape /\ OrderInv /\ NoGap /\ TypeOK'
      /\ wire \in Seq(Kinds) /\ wire' \in Seq(Kinds)
      /\ chan \in Seq(Positions) /\ delivered \in Seq(Positions)
      /\ Len(wire) \in Nat /\ DOMAIN wire = 1 .. Len(wire) /\ Len(wire') \in Nat
      /\ rcvd \in Nat /\ rcvd <= Len(wire) /\ rcvd' <= Len(wire')
  BY StepShape, LenProperties DEF ResultInv, TypeOK
<1>1. CASE Server \/ ConnectionLost
  <2>1. /\ pc # "done"
        /\ UNCHANGED <<rcvd, handle, delivered, seen>>
        /\ \A i \in 1 .. rcvd : i \in DOMAIN wire' /\ wire'[i] = wire[i]
    BY <1>0, <1>1, WireStep
  <2>2. status # "ended" /\ status' = status
    BY <1>0, <2>1 DEF status, Shape, Ended
  <2>3. /\ lastItem \in 0 .. rcvd /\ lastItem <= Len(wire')
        /\ \A i \in 1 .. lastItem : wire'[i] = wire[i]
    <3>1. lastItem \in 0 .. rcvd
      BY <1>0, LastItem
    <3> QED
      BY <1>0, <2>1, <3>1
  <2>4. Promise!Speak
    BY <1>0, <2>1, <2>2, <2>3 DEF Promise!Speak, Promise!Last, status, lastItem
  <2> QED
    BY <2>4 DEF Promise!StreamNext
<1>2. CASE \/ Reader \/ PollCheck \/ PollPending \/ PollOverLimit \/ DropCancel
           \/ Terminated \/ UNCHANGED vars
  BY <1>2
  DEF Reader, ReceiveRow, ReceiveBadField, ReceiveComplete, ReceiveReady, ReceiveFailure,
      ReceiveLost, ParseRow, SendRemainder, FinishChunk, SendRow, SendRowFails,
      SendRowError, SendLastError, Cancel, PollCheck, PollPending, PollOverLimit,
      DropCancel, Terminated, vars, serverVars, consumerVars, status, Ended
<1>3. CASE PollItem
  <2> DEFINE h == Head(chan)
  <2>1. /\ handle = "live" /\ chan # <<>> /\ delivered' = Append(delivered, h)
        /\ UNCHANGED <<wire, handle, seen>>
    BY <1>3 DEF PollItem, serverVars
  <2>2. status = "open" /\ status' = status
    BY <1>0, <2>1 DEF status, Shape, Ended
  <2>3. h \in Positions /\ h <= rcvd /\ lastItem < h
    <3>1. AtMost(chan, rcvd) /\ Before(delivered, chan)
      BY <1>0 DEF OrderInv, Ordered
    <3>2. h \in Positions /\ h <= rcvd
      BY <1>0, <2>1, <3>1, TailOrder
    <3> QED
      BY <1>0, <2>1, <3>1, <3>2, LastItem
  <2>4. h \in DOMAIN wire
    BY <1>0, <2>3 DEF Positions
  <2>5. RowsOnly(wire, delivered) /\ RowIn(wire, h) => h = Len(delivered) + 1
    <3>1. Len(delivered) \in Nat
      BY <1>0, LenProperties
    <3> QED
      BY <1>0, <2>1, <3>1, TailRows DEF NoGap
  <2>6. Promise!Yield(h)
    BY <2>1, <2>2, <2>3, <2>5
    DEF Promise!Yield, Promise!Last, Promise!NoError, Promise!Row, status, lastItem,
        RowsOnly, RowIn, Positions
  <2> QED
    BY <2>4, <2>6 DEF Promise!StreamNext
<1>4. CASE PollEnd
  <2>1. /\ handle = "live" /\ pc = "done" /\ chan = <<>> /\ Ended'
        /\ UNCHANGED <<wire, handle, delivered>>
    BY <1>4 DEF PollEnd, serverVars, Ended
  <2>2. CASE Ended
    BY <2>1, <2>2 DEF status
  <2>3. CASE ~Ended
    <3>1. status = "open" /\ status' = "ended"
      BY <2>1, <2>3 DEF status
    <3>2. ASSUME RowsOnly(wire, delivered)
          PROVE  /\ Len(delivered) < Len(wire) /\ wire[Len(delivered) + 1] = "complete"
                 /\ \A i \in 1 .. Len(delivered) : delivered[i] = i
      <4>1. Len(delivered) \in Nat /\ DOMAIN delivered = 1 .. Len(delivered)
        BY <1>0, LenProperties
      <4>2. Clean /\ Sent = Len(delivered)
        BY <2>1, <3>2, <4>1, EmptyRows, EmptySeq DEF Clean, Sent
      <4>3. Len(delivered) < rcvd /\ wire[Len(delivered) + 1] = "complete"
        BY <1>0, <2>1, <4>2 DEF NoGap
      <4>4. \A i \in DOMAIN delivered : delivered[i] = i
        BY <1>0, <3>2, AllRowsExact DEF NoGap
      <4> QED
        BY <1>0, <4>1, <4>3, <4>4
    <3>3. Promise!NoError => RowsOnly(wire, delivered)
      BY DEF Promise!NoError, Promise!Row, RowsOnly, RowIn
    <3>4. Promise!End
      BY <2>1, <3>1, <3>2, <3>3 DEF Promise!End, status
    <3> QED
      BY <3>4 DEF Promise!StreamNext
  <2> QED
    BY <2>2, <2>3
<1>5. CASE DropReceiver
  <2>1. status' = "dropped" /\ UNCHANGED <<wire, delivered>>
    BY <1>5 DEF DropReceiver, serverVars, status
  <2>2. Promise!Drop
    BY <2>1 DEF Promise!Drop, status
  <2> QED
    BY <2>2 DEF Promise!StreamNext
<1> QED
  BY <1>1, <1>2, <1>3, <1>4, <1>5 DEF Next, Consumer, Poll

(* The pipeline implements ResultStream (KeepsPromise): chunks, batches,   *)
(* the channel, failures and the two-step drop are invisible to the        *)
(* consumer.                                                               *)
THEOREM PromiseKept == Spec => KeepsPromise
<1>1. Init => Promise!StreamInit
  BY DEF Init, Promise!StreamInit, Ended
<1>2. ResultInv /\ [Next]_vars => [Promise!StreamNext]_(Promise!streamVars)
  BY StepPromise DEF Promise!streamVars, status
<1> QED
  BY <1>1, <1>2, ResultInvariant, PTL DEF Spec, KeepsPromise, Promise!StreamSpec

-----------------------------------------------------------------------------
(* PausableStream.  Every step of it is a step of the pipeline or leaves   *)
(* the pipeline alone, so what is proved of RowPipeline holds with pause() *)
(* and resume() as well.                                                   *)

LEMMA PausableStep == [PNext]_allVars => [Next]_vars
  BY DEF PNext, Pipeline, PauseResume, SetPauseTimeout, PauseBegin, PauseLocked, ResumeBegin,
     ResumeLocked, CallDropped, allVars, Next

(* With pause(), resume(), the pause timeout and calls abandoned at their  *)
(* await, the reader and the consumer do what they do without.             *)
THEOREM StillPipeline == PSpec => Spec
<1>1. PInit => Init
  BY DEF PInit
<1> QED
  BY <1>1, PausableStep, PTL DEF PSpec, Spec

(* While a call waits for the mutex the atomic already has its new value.  *)
Announced ==
  /\ call = "pause" => stateAtomic = "paused"
  /\ call = "resume" => stateAtomic = "running"
  /\ lock = "none" => stateAtomic = "running"

PauseInv == PTypeOK /\ Announced /\ ViewsAgree

LEMMA PauseInvariant == PSpec => []PauseInv
<1>1. PInit => PauseInv
  BY InitShape DEF PInit, PauseInv, PTypeOK, Announced, ViewsAgree
<1>2. TypeOK' /\ PauseInv /\ [PNext]_allVars => PauseInv'
  <2> SUFFICES ASSUME TypeOK', PauseInv, [PNext]_allVars PROVE PauseInv'
    OBVIOUS
  <2>1. CASE Pipeline \/ UNCHANGED allVars
    <3>1. UNCHANGED pauseVars /\ (call # "none" => UNCHANGED <<handle, polling>>)
      BY <2>1 DEF Pipeline, allVars, vars, pauseVars, Server, ServerRow, ServerOther,
         ServerFinishes, ServerReady, ServerSends, ConnectionLost, Reader, ReceiveRow,
         ReceiveBadField, ReceiveComplete, ReceiveReady, ReceiveFailure, ReceiveLost,
         ParseRow, SendRemainder, FinishChunk, SendRow, SendRowFails, SendRowError,
         SendLastError, Cancel, Terminated, consumerVars
    <3> QED
      BY <3>1 DEF PauseInv, PTypeOK, Announced, ViewsAgree, pauseVars
  <2>2. CASE SetPauseTimeout
    BY <2>2 DEF SetPauseTimeout, StreamFree, Allocated, PauseInv, PTypeOK, Announced,
       ViewsAgree, vars, consumerVars
  <2>3. CASE PauseBegin
    BY <2>3 DEF PauseBegin, StreamFree, Allocated, PauseInv, PTypeOK, Announced, ViewsAgree,
       vars, consumerVars
  <2>4. CASE PauseLocked
    BY <2>4 DEF PauseLocked, PauseInv, PTypeOK, Announced, ViewsAgree, vars, consumerVars
  <2>5. CASE ResumeBegin
    BY <2>5 DEF ResumeBegin, StreamFree, PauseInv, PTypeOK, Announced, ViewsAgree, vars,
       consumerVars
  <2>6. CASE ResumeLocked
    BY <2>6 DEF ResumeLocked, PauseInv, PTypeOK, Announced, ViewsAgree, vars, consumerVars
  <2>7. CASE CallDropped
    BY <2>7 DEF CallDropped, PauseInv, PTypeOK, Announced, ViewsAgree, vars, consumerVars
  <2> QED
    BY <2>1, <2>2, <2>3, <2>4, <2>5, <2>6, <2>7 DEF PNext, PauseResume
<1> QED
  BY <1>1, <1>2, TypeCorrect, StillPipeline, PTL DEF PSpec

(* The variables keep their types, and while a call waits for the mutex    *)
(* there is a mutex and a stream.                                          *)
THEOREM PausableTypeCorrect == PSpec => []PTypeOK
<1>1. PauseInv => PTypeOK
  BY DEF PauseInv
<1> QED
  BY <1>1, PauseInvariant, PTL

(* As soon as one pause() or resume() has run to its end the atomic and    *)
(* the mutex agree, whatever calls were abandoned before (ViewsAgree).     *)
THEOREM ViewsAgreeAgain == PSpec => []ViewsAgree
<1>1. PauseInv => ViewsAgree
  BY DEF PauseInv
<1> QED
  BY <1>1, PauseInvariant, PTL

(* With pause() and resume() as well, the stream is stuck for good once it *)
(* is above its memory limit between two polls (LimitLatches).             *)
THEOREM LimitLatchedPausable == PSpec => LimitLatches
  BY StillPipeline, LimitLatched, PTL

(* Pausing does not touch the promise of the stream.                       *)
THEOREM PromiseKeptPausable == PSpec => KeepsPromise
  BY StillPipeline, PromiseKept, PTL
=============================================================================
