---------------------------- MODULE ResultStream ----------------------------
(***************************************************************************)
(* What the consumer of a query is promised, without chunks, channels or   *)
(* tasks: a stream of items, each made from one message of the server.     *)
(* Until the first error the items are the rows of the result, in order    *)
(* and without a gap; an error may stand for any later message; items are  *)
(* never reordered or repeated; and a stream that ends without an error    *)
(* has yielded the complete result.                                        *)
(***************************************************************************)
EXTENDS Naturals, Sequences

CONSTANT Kinds  \* kinds of messages; "row" and "complete" are two of them

VARIABLES
  source,     \* the server's messages
  delivered,  \* the items yielded: positions in source
  status      \* "open", "ended" (None was yielded) or "dropped"

streamVars == <<source, delivered, status>>

Row(i) == i \in DOMAIN source /\ source[i] = "row"
NoError == \A i \in DOMAIN delivered : Row(delivered[i])
Last == IF delivered = <<>> THEN 0 ELSE delivered[Len(delivered)]

StreamInit == source = <<>> /\ delivered = <<>> /\ status = "open"

(* The server speaks, or what it said and nobody has used yet is lost.     *)
Speak ==
  /\ source' \in Seq(Kinds)
  /\ Last <= Len(source')
  /\ \A i \in 1 .. Last : source'[i] = source[i]
  /\ status # "ended"
  /\ UNCHANGED <<delivered, status>>

Yield(i) ==
  /\ status = "open"
  /\ i > Last
  /\ NoError /\ Row(i) => i = Len(delivered) + 1
  /\ delivered' = Append(delivered, i)
  /\ UNCHANGED <<source, status>>

(* None: only after an error, or when every row has been yielded.          *)
End ==
  /\ status = "open"
  /\ NoError =>
       /\ Len(delivered) < Len(source)
       /\ source[Len(delivered) + 1] = "complete"
       /\ \A i \in 1 .. Len(delivered) : delivered[i] = i
  /\ status' = "ended"
  /\ UNCHANGED <<source, delivered>>

Drop == status' = "dropped" /\ UNCHANGED <<source, delivered>>

StreamNext ==
  \/ Speak
  \/ \E i \in DOMAIN source : Yield(i)
  \/ End
  \/ Drop

StreamSpec == StreamInit /\ [][StreamNext]_streamVars
=============================================================================
