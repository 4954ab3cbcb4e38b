----------------------------- MODULE RowPipeline -----------------------------
(***************************************************************************)
(* The streaming half of Connection::streaming_query: once the             *)
(* RowDescription has been accepted, a spawned task (the reader) owns the  *)
(* connection, collects DataRow messages into chunks, parses every chunk   *)
(* and sends the rows through a bounded channel to the JsonStream that the *)
(* application polls.                                                      *)
(*                                                                         *)
(* Three parties take steps: the server (external), the reader task, and   *)
(* the consumer that holds the JsonStream.  The reader's program counter   *)
(* names the await point or the local loop it is in.                       *)
(*                                                                         *)
(* A message is identified by its position on the wire, and so is every    *)
(* item made from it: item i is Ok(value) when wire[i] is a good row, and  *)
(* the Err caused by wire[i] otherwise.                                    *)
(***************************************************************************)
EXTENDS Naturals, Sequences

CONSTANTS
  ChunkSize,  \* chunk_size: rows per chunk, and the capacity of the channel
  BatchSize,  \* BATCH_SIZE (8 in the code): parsed rows sent in one go
  MemItems,   \* buffered items above which poll_next reports MemoryLimitExceeded
  MaxWire     \* bound: on a wire this long only the answer itself goes on

ASSUME ChunkAssumption == ChunkSize \in Nat \ {0}
ASSUME BatchAssumption == BatchSize \in Nat \ {0}
ASSUME MemAssumption == MemItems \in Nat
ASSUME WireAssumption == MaxWire \in Nat

VARIABLES
  wire,       \* what the reader's socket has carried so far, in order
  server,     \* how far the server is with its answer
  rcvd,       \* messages the reader has received
  pc,         \* where the reader task is
  chunk,      \* rows collected for the next chunk (RowChunk)
  rows,       \* rows of the chunk being flushed that are not parsed yet
  batch,      \* parsed rows that are not sent yet
  arm,        \* the arm of the message match whose flush is running
  completed,  \* calls of query_completed, by outcome
  chan,       \* the result channel
  handle,     \* the consumer's JsonStream
  polling,    \* poll_next has passed the limit check and has not received yet
  delivered,  \* items poll_next has yielded from the channel
  seen        \* what else poll_next has yielded: None, MemoryLimitExceeded

serverVars == <<wire, server>>
readerVars == <<rcvd, pc, chunk, rows, batch, arm, completed>>
consumerVars == <<handle, polling, delivered, seen>>
vars == <<serverVars, readerVars, chan, consumerVars>>

-----------------------------------------------------------------------------
(* "row" has one field holding JSON, "badjson" one field that serde_json   *)
(* rejects, "badfield" a NULL or not exactly one field.  "notice" stands   *)
(* for every message the row loop has no arm for, "odd" for every message  *)
(* decode_message has an error for (NotificationResponse, CopyOutResponse  *)
(* and others).  "lost" is the end of file or the I/O error the socket     *)
(* reports.                                                                *)
RowKinds == {"row", "badjson", "badfield"}
Kinds == RowKinds \cup {"notice", "odd", "complete", "error", "ready", "lost"}
Outcomes == {"success", "error", "cancelled"}

Flushing == {"parse", "send", "sendRowErr"}
PCs == Flushing \cup {"select", "sendFieldErr", "sendLast", "done"}

(* The stream has yielded None; the stream has yielded its limit error.    *)
Ended == "None" \in seen
LimitHit == "MemoryLimitExceeded" \in seen

(* The item at wire position i is an Ok row.                               *)
IsRow(i) == i \in DOMAIN wire /\ wire[i] = "row"
AllRows(s) == \A i \in DOMAIN s : IsRow(s[i])

Init ==
  /\ wire = <<>> /\ server = "rows"
  /\ rcvd = 0 /\ pc = "select"
  /\ chunk = <<>> /\ rows = <<>> /\ batch = <<>> /\ arm = "DataRow"
  /\ completed = [o \in Outcomes |-> 0]
  /\ chan = <<>>
  /\ handle = "live" /\ polling = FALSE /\ delivered = <<>> /\ seen = {}

-----------------------------------------------------------------------------
(* The server (external): it answers one SELECT with rows and then         *)
(* CommandComplete or ErrorResponse, then ReadyForQuery; notices, messages *)
(* the decoder does not know and the loss of the connection come at any    *)
(* time.  The socket lives as long as the reader, which drops the          *)
(* Connection when it returns.                                             *)
SocketOpen == pc # "done"

ServerSends(from, to, kinds) ==
  /\ SocketOpen
  /\ server = from
  /\ \E k \in kinds : wire' = Append(wire, k)
  /\ server' = to
  /\ UNCHANGED <<readerVars, chan, consumerVars>>

ServerRow == Len(wire) < MaxWire /\ ServerSends("rows", "rows", RowKinds)
ServerOther ==
  /\ Len(wire) < MaxWire
  /\ \E phase \in {"rows", "closing"} : ServerSends(phase, phase, {"notice", "odd"})
ServerFinishes == ServerSends("rows", "closing", {"complete", "error"})
ServerReady == ServerSends("closing", "idle", {"ready"})

(* Messages in flight that the reader has not taken may be lost with the   *)
(* connection.                                                             *)
ConnectionLost ==
  /\ SocketOpen
  /\ server # "gone"
  /\ \E n \in rcvd .. Len(wire) : wire' = Append(SubSeq(wire, 1, n), "lost")
  /\ server' = "gone"
  /\ UNCHANGED <<readerVars, chan, consumerVars>>

Server == ServerRow \/ ServerOther \/ ServerFinishes \/ ServerReady

-----------------------------------------------------------------------------
(* Faulty variant: one message too many is consumed.                       *)
ReceiveTwo(kinds) ==
  /\ pc = "select"
  /\ rcvd < Len(wire)
  /\ wire[rcvd + 1] \in kinds
  /\ rcvd' = rcvd + 2

(* The reader at its select!: the next message, if it is one of kinds.  An *)
(* "odd" message is never received: receive_message takes every decode     *)
(* error for a message that is not complete yet, and reads on.             *)
Receive(kinds) ==
  /\ pc = "select"
  /\ rcvd < Len(wire)
  /\ wire[rcvd + 1] \in kinds
  /\ rcvd' = rcvd + 1

Complete(outcome) == completed' = [completed EXCEPT ![outcome] = @ + 1]

(* DataRow: the row joins the chunk, and a full chunk is flushed.          *)
ReceiveRow ==
  /\ Receive({"row", "badjson"})
  /\ LET grown == Append(chunk, rcvd + 1)
     IN  IF Len(grown) >= ChunkSize
           THEN rows' = grown /\ chunk' = <<>> /\ pc' = "parse"
           ELSE chunk' = grown /\ UNCHANGED <<rows, pc>>
  /\ arm' = "DataRow"
  /\ UNCHANGED <<serverVars, batch, completed, chan, consumerVars>>

(* extract_json_bytes rejects the row: the error is sent, then the task    *)
(* returns.                                                                *)
ReceiveBadField ==
  /\ Receive({"badfield"})
  /\ pc' = "sendFieldErr"
  /\ UNCHANGED <<serverVars, chunk, rows, batch, arm, completed, chan, consumerVars>>

(* CommandComplete: the rest of the chunk is flushed, then success is      *)
(* recorded.                                                               *)
ReceiveComplete ==
  /\ Receive({"complete"})
  /\ arm' = "CommandComplete"
  /\ rows' = chunk /\ chunk' = <<>> /\ pc' = "parse"
  /\ UNCHANGED <<serverVars, batch, completed, chan, consumerVars>>

ReceiveReady ==
  /\ Receive({"ready"})
  /\ pc' = "done" /\ chunk' = <<>>
  /\ UNCHANGED <<serverVars, rows, batch, arm, completed, chan, consumerVars>>

(* ErrorResponse and a message without an arm record an error, send it and *)
(* return.                                                                 *)
ReceiveFailure ==
  /\ Receive({"error", "notice"})
  /\ Complete("error")
  /\ pc' = "sendLast"
  /\ UNCHANGED <<serverVars, chunk, rows, batch, arm, chan, consumerVars>>

(* receive_message fails once the connection is lost and what is left in   *)
(* the read buffer does not decode: nothing, or an "odd" message with all  *)
(* that came behind it.                                                    *)
ReadFails ==
  /\ pc = "select"
  /\ rcvd < Len(wire)
  /\ wire[rcvd + 1] \in {"odd", "lost"} /\ wire[Len(wire)] = "lost"
  /\ rcvd' = Len(wire)

(* Faulty variant: a lost connection is taken for a read to try again.     *)
ReceiveLostRetries ==
  /\ ReadFails
  /\ Complete("error")
  /\ UNCHANGED <<serverVars, pc, chunk, rows, batch, arm, chan, consumerVars>>

(* A failed receive_message: recorded, sent, and the task returns.         *)
ReceiveLost ==
  /\ ReadFails
  /\ Complete("error")
  /\ pc' = "sendLast"
  /\ UNCHANGED <<serverVars, chunk, rows, batch, arm, chan, consumerVars>>

(* parse_json on the next row of the chunk.                                *)
ParseRow ==
  /\ pc = "parse" /\ rows # <<>>
  /\ IF IsRow(Head(rows))
       THEN /\ batch' = Append(batch, Head(rows))
            /\ rows' = Tail(rows)
            /\ pc' = IF Len(batch') = BatchSize THEN "send" ELSE "parse"
       ELSE /\ pc' = "sendRowErr"
            /\ UNCHANGED <<batch, rows>>
  /\ UNCHANGED <<serverVars, rcvd, chunk, arm, completed, chan, consumerVars>>

(* The rows are all parsed: the remaining batch is sent, and then the      *)
(* chunk is finished.                                                      *)
SendRemainder ==
  /\ pc = "parse" /\ rows = <<>> /\ batch # <<>>
  /\ pc' = "send"
  /\ UNCHANGED <<serverVars, rcvd, chunk, rows, batch, arm, completed, chan, consumerVars>>

(* Faulty variant: every chunk is counted as a finished query.             *)
FinishChunkCounts ==
  /\ pc = "parse" /\ rows = <<>> /\ batch = <<>>
  /\ Complete("success")
  /\ pc' = "select"
  /\ UNCHANGED <<serverVars, rcvd, chunk, rows, batch, arm, chan, consumerVars>>

FinishChunk ==
  /\ pc = "parse" /\ rows = <<>> /\ batch = <<>>
  /\ IF arm = "CommandComplete" THEN Complete("success") ELSE UNCHANGED completed
  /\ pc' = "select"
  /\ UNCHANGED <<serverVars, rcvd, chunk, rows, batch, arm, chan, consumerVars>>

(* Faulty variant: the channel has no capacity limit.                      *)
SendUnbounded(i) == handle = "live" /\ chan' = Append(chan, i)

(* result_tx.send(item).await: it waits for a free slot, and fails as soon *)
(* as the receiver is gone.                                                *)
Send(i) ==
  /\ handle = "live"
  /\ Len(chan) < ChunkSize
  /\ chan' = Append(chan, i)
SendFails == handle # "live" /\ UNCHANGED chan

(* Faulty variant: the batch is drained from its end.                      *)
SendRowFromEnd ==
  /\ pc = "send"
  /\ Send(batch[Len(batch)])
  /\ batch' = SubSeq(batch, 1, Len(batch) - 1)
  /\ pc' = IF batch' = <<>> THEN "parse" ELSE "send"
  /\ UNCHANGED <<serverVars, rcvd, chunk, rows, arm, completed, consumerVars>>

SendRow ==
  /\ pc = "send"
  /\ Send(Head(batch))
  /\ batch' = Tail(batch)
  /\ pc' = IF batch' = <<>> THEN "parse" ELSE "send"
  /\ UNCHANGED <<serverVars, rcvd, chunk, rows, arm, completed, consumerVars>>

(* The consumer is gone: the rest of the chunk is given up.                *)
SendRowFails ==
  /\ pc = "send"
  /\ SendFails
  /\ Complete("error")
  /\ rows' = <<>> /\ batch' = <<>> /\ pc' = "parse"
  /\ UNCHANGED <<serverVars, rcvd, chunk, arm, consumerVars>>

(* Faulty variant: the rows the error overtook are kept and sent after it. *)
SendRowErrorKeepsBatch ==
  /\ pc = "sendRowErr"
  /\ Send(Head(rows)) \/ SendFails
  /\ Complete("error")
  /\ rows' = <<>> /\ pc' = "parse"
  /\ UNCHANGED <<serverVars, rcvd, chunk, batch, arm, consumerVars>>

(* Faulty variant: the error is counted but not sent.                      *)
SendRowErrorSilent ==
  /\ pc = "sendRowErr"
  /\ Complete("error")
  /\ rows' = <<>> /\ batch' = <<>> /\ pc' = "parse"
  /\ UNCHANGED <<serverVars, rcvd, chunk, arm, chan, consumerVars>>

(* The parse error overtakes the parsed rows of its batch, and the rest of *)
(* the chunk is given up; the task reads on.                               *)
SendRowError ==
  /\ pc = "sendRowErr"
  /\ Send(Head(rows)) \/ SendFails
  /\ Complete("error")
  /\ rows' = <<>> /\ batch' = <<>> /\ pc' = "parse"
  /\ UNCHANGED <<serverVars, rcvd, chunk, arm, consumerVars>>

(* Faulty variant: the task returns without sending its last error.        *)
SendLastErrorSilent ==
  /\ pc \in {"sendFieldErr", "sendLast"}
  /\ IF pc = "sendFieldErr" THEN Complete("error") ELSE UNCHANGED completed
  /\ pc' = "done" /\ chunk' = <<>>
  /\ UNCHANGED <<serverVars, rcvd, rows, batch, arm, chan, consumerVars>>

(* The error of the last message received, sent before the task returns.   *)
SendLastError ==
  /\ pc \in {"sendFieldErr", "sendLast"}
  /\ Send(rcvd) \/ SendFails
  /\ IF pc = "sendFieldErr" THEN Complete("error") ELSE UNCHANGED completed
  /\ pc' = "done" /\ chunk' = <<>>
  /\ UNCHANGED <<serverVars, rcvd, rows, batch, arm, consumerVars>>

(* Faulty variant: the select! has no cancellation branch.                 *)
CancelNever == FALSE /\ UNCHANGED vars

(* cancel_rx.recv() is ready once the JsonStream is dropped; select! picks *)
(* either branch when a message is ready too.                              *)
Cancel ==
  /\ pc = "select"
  /\ handle = "dropped"
  /\ Complete("cancelled")
  /\ pc' = "done" /\ chunk' = <<>>
  /\ UNCHANGED <<serverVars, rcvd, rows, batch, arm, chan, consumerVars>>

Reader ==
  \/ ReceiveRow \/ ReceiveBadField \/ ReceiveComplete \/ ReceiveReady
  \/ ReceiveFailure \/ ReceiveLost
  \/ ParseRow \/ SendRemainder \/ FinishChunk
  \/ SendRow \/ SendRowFails \/ SendRowError \/ SendLastError
  \/ Cancel

-----------------------------------------------------------------------------
(* The consumer.  poll_next looks at the memory estimate first (2048 bytes *)
(* for each buffered item), and only then takes from the channel; the      *)
(* reader runs on another thread and may send between the two.             *)
OverLimit == Len(chan) > MemItems

(* Faulty variant: the limit is not looked at.                             *)
PollUnlimited ==
  /\ handle = "live" /\ ~polling
  /\ polling' = TRUE
  /\ UNCHANGED <<serverVars, readerVars, chan, handle, delivered, seen>>

PollCheck ==
  /\ handle = "live" /\ ~polling
  /\ ~OverLimit
  /\ polling' = TRUE
  /\ UNCHANGED <<serverVars, readerVars, chan, handle, delivered, seen>>

PollOverLimit ==
  /\ handle = "live" /\ ~polling
  /\ OverLimit
  /\ seen' = seen \cup {"MemoryLimitExceeded"}
  /\ UNCHANGED <<serverVars, readerVars, chan, handle, polling, delivered>>

(* receiver.poll_recv: the next item, ...                                  *)
PollItem ==
  /\ handle = "live" /\ polling
  /\ chan # <<>>
  /\ delivered' = Append(delivered, Head(chan))
  /\ chan' = Tail(chan)
  /\ polling' = FALSE
  /\ UNCHANGED <<serverVars, readerVars, handle, seen>>

(* Faulty variant: an empty channel is taken for the end.                  *)
PollEndEarly ==
  /\ handle = "live" /\ polling
  /\ chan = <<>>
  /\ seen' = seen \cup {"None"}
  /\ polling' = FALSE
  /\ UNCHANGED <<serverVars, readerVars, chan, handle, delivered>>

(* ... None once the channel is empty and its sender gone, ...             *)
PollEnd ==
  /\ handle = "live" /\ polling
  /\ chan = <<>> /\ pc = "done"
  /\ seen' = seen \cup {"None"}
  /\ polling' = FALSE
  /\ UNCHANGED <<serverVars, readerVars, chan, handle, delivered>>

(* ... and otherwise Pending: the next poll checks the limit again.        *)
PollPending ==
  /\ handle = "live" /\ polling
  /\ chan = <<>> /\ pc # "done"
  /\ polling' = FALSE
  /\ UNCHANGED <<serverVars, readerVars, chan, handle, delivered, seen>>

Poll == PollCheck \/ PollOverLimit \/ PollItem \/ PollEnd \/ PollPending

(* Dropping the JsonStream, which no poll has borrowed then, drops its     *)
(* fields in order: the receiver, with what it still holds, and then       *)
(* cancel_tx.                                                              *)
DropReceiver ==
  /\ handle = "live" /\ ~polling
  /\ handle' = "closing" /\ chan' = <<>>
  /\ UNCHANGED <<serverVars, readerVars, polling, delivered, seen>>

DropCancel ==
  /\ handle = "closing"
  /\ handle' = "dropped"
  /\ UNCHANGED <<serverVars, readerVars, chan, polling, delivered, seen>>

Consumer == Poll \/ DropReceiver \/ DropCancel

Terminated == pc = "done" /\ handle = "dropped" /\ UNCHANGED vars

Next == Server \/ ConnectionLost \/ Reader \/ Consumer \/ Terminated

Spec == Init /\ [][Next]_vars

(* The runtime keeps polling a task that is ready, a drop that has begun   *)
(* completes, the server finishes its answer, and the application keeps    *)
(* polling its stream; nothing makes it drop the stream and nothing makes  *)
(* the connection fail.                                                    *)
ReaderFairness == WF_vars(Reader) /\ WF_vars(DropCancel)
LiveSpec == Spec /\ ReaderFairness /\ WF_vars(Server) /\ WF_vars(Poll)

-----------------------------------------------------------------------------
Positions == Nat \ {0}

TypeOK ==
  /\ wire \in Seq(Kinds)
  /\ server \in {"rows", "closing", "idle", "gone"}
  /\ rcvd \in 0 .. Len(wire)
  /\ pc \in PCs
  /\ chunk \in Seq(Positions) /\ rows \in Seq(Positions) /\ batch \in Seq(Positions)
  /\ arm \in {"DataRow", "CommandComplete"}
  /\ completed \in [Outcomes -> Nat]
  /\ chan \in Seq(Positions)
  /\ handle \in {"live", "closing", "dropped"}
  /\ polling \in BOOLEAN
  /\ delivered \in Seq(Positions)
  /\ seen \subseteq {"None", "MemoryLimitExceeded"}

(* Memory scales with the chunk size and not with the result: between the  *)
(* socket and the consumer there are never more than two chunks of rows,   *)
(* wherever the reader is and however slow the consumer.                   *)
BoundedBuffering ==
  /\ Len(chan) <= ChunkSize
  /\ Len(chan) + Len(batch) + Len(rows) + Len(chunk) <= 2 * ChunkSize

Increasing(s) == \A i, j \in DOMAIN s : i < j => s[i] < s[j]
Before(s, t) == \A i \in DOMAIN s, j \in DOMAIN t : s[i] < t[j]

(* Nothing is reordered or delivered twice, not even around a parse error  *)
(* that overtakes the rows parsed before it: what the consumer got, the    *)
(* channel, the batch, the rows still to parse and the chunk being filled  *)
(* hold wire positions in strictly increasing order, end to end.           *)
Ordered ==
  /\ \A s \in {delivered, chan, batch, rows, chunk} : Increasing(s)
  /\ Before(delivered, chan) /\ Before(delivered, batch)
  /\ Before(delivered, rows) /\ Before(delivered, chunk)
  /\ Before(chan, batch) /\ Before(chan, rows) /\ Before(chan, chunk)
  /\ Before(batch, rows)

(* Until the first error the consumer gets exactly the first rows of the   *)
(* result, without a gap, although rows behind them may already be lost.   *)
ExactPrefix ==
  \A n \in DOMAIN delivered :
    (\A i \in 1 .. n : IsRow(delivered[i])) => delivered[n] = n

(* A stream that ends without having yielded an error has yielded every    *)
(* row of the result, and the server had reported CommandComplete: no      *)
(* interleaving of failures, flushes and a closing channel makes a         *)
(* truncated result look complete.                                         *)
NoSilentTruncation ==
  Ended /\ AllRows(delivered) =>
    /\ Len(delivered) < rcvd
    /\ \A i \in DOMAIN delivered : delivered[i] = i
    /\ wire[Len(delivered) + 1] = "complete"

(* The outcome counters: every query that is over has been counted,        *)
(* success is counted at most once and only for a result that is complete, *)
(* and cancelled only for a dropped stream.                                *)
OutcomeCounted ==
  /\ pc = "done" => \E o \in Outcomes : completed[o] > 0
  /\ completed["success"] <= 1
  /\ completed["success"] = 1 => \E i \in 1 .. rcvd : wire[i] = "complete"
  /\ completed["cancelled"] > 0 => handle = "dropped"

(* Once the estimate is above the limit and no poll is under way, the      *)
(* stream is stuck for good: the check comes before the receive, so the    *)
(* consumer can no longer drain the channel that is too full, and the      *)
(* reader only adds to it.  Only a poll that had passed the check before   *)
(* the reader went over the limit still takes its one item.                *)
LimitLatches ==
  [][handle = "live" /\ ~polling /\ OverLimit =>
       /\ delivered' = delivered /\ Ended' = Ended
       /\ handle' = "live" => OverLimit' /\ ~polling']_vars

(* An ended stream stays ended: no item follows None.                      *)
Fused == [][Ended => delivered' = delivered]_vars

(* Dropping the stream stops the reader, wherever it is: blocked on a full *)
(* channel, in the middle of a flush or waiting for the server.            *)
DropStopsReader == handle # "live" ~> pc = "done"

(* The reader waits for more bytes behind a message it cannot decode, and  *)
(* the connection is up: nothing but a drop of the stream ends that wait.  *)
Undecodable ==
  /\ pc = "select" /\ server # "gone"
  /\ rcvd < Len(wire) /\ wire[rcvd + 1] = "odd"

(* A stream that is polled and not dropped ends, whatever else the server  *)
(* sends and even when the connection is lost.  Two things keep it from    *)
(* ending: the memory limit, once it is reported, and a message that does  *)
(* not decode, which the reader waits on for ever.                         *)
StreamEnds == <>(Ended \/ LimitHit \/ handle # "live") \/ <>[]Undecodable

(* conn.rs, line 730: "Notices are non-fatal warnings - skip them".  Once   *)
(* rows flow a notice is an unexpected message: it becomes an error of the *)
(* stream and ends it.                                                     *)
NoticesSkipped == \A i \in DOMAIN delivered : wire[delivered[i]] # "notice"

(* METRICS.md, lines 340-358: a query whose row 257 is not JSON is counted *)
(* as an error, one of the outcomes of line 102.  The reader reads on after *)
(* the error and counts the same query as a success.                       *)
JsonErrorFailsQuery ==
  (\E i \in DOMAIN delivered : wire[delivered[i]] = "badjson") => completed["success"] = 0

(* README.md, line 289: "Fatal errors terminate the stream"; error.rs,     *)
(* line 76, calls this one terminal.  poll_next reports it at every poll   *)
(* and never yields None.                                                  *)
LimitTerminates == LimitHit ~> Ended \/ handle # "live"

(* The pipeline keeps the promise of ResultStream: chunks, batches, the    *)
(* channel and the two-step drop are invisible to the consumer.            *)
Promise == INSTANCE ResultStream WITH
  source <- wire,
  status <- IF handle # "live" THEN "dropped" ELSE IF Ended THEN "ended" ELSE "open"
KeepsPromise == Promise!StreamSpec
==============================================================================
