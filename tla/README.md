# fraiseql-wire in TLA+

fraiseql-wire is a PostgreSQL client that speaks the wire protocol directly and
streams one-column JSON results. These modules model its core: the connection
from its first byte to the head of a streaming query, and what happens between
the socket and the application once the query runs; and around it the parts a
request passes on its way: connection string, TLS configuration and login, the
encoding and framing of messages, the builder and its stream, SQL from typed
operators, and the controller of the chunk size. Paths below are
relative to the repository; `conn.rs` is `src/connection/conn.rs` and
`json_stream.rs` is `src/stream/json_stream.rs`.

## Inventory

| Component | State | Operations | What is hard, and what makes it correct |
|---|---|---|---|
| Row pipeline: the task `streaming_query` spawns, the bounded `mpsc` channel, `JsonStream` | connection and read position, `chunk`, `batch`, channel, outcome counters; receiver and cancel sender | the arms of the message match, a flush (parse, batch, send), cancellation; `poll_next`; drop | the consumer drops the stream at any await of the reader; errors overtake rows; the connection is lost between rows. Bounded memory, order, no gap before an error, no truncated result that looks complete, every stream ends, a dropped stream stops its reader |
| Pause and resume (`json_stream.rs`) | an atomic run state and one behind a mutex, allocated on demand; pause timeout | `pause`, `resume`, `set_pause_timeout`; the pause branch of the reader | the two copies are written on both sides of an await, and the future can be dropped there; the reader must see the pause |
| Connection (`conn.rs`, `state.rs`) | transport, `ConnectionState`, `read_buf`, backend key | `startup`, `negotiate_tls`, `authenticate`, `handle_sasl`, `simple_query`, `streaming_query`, `close` | operations that fail or are abandoned half way; an answer must never be taken for the answer of another query |
| Framing (`receive_message`, `protocol/decode.rs`) | `read_buf` | decode, read more | segmentation; a message that cannot be decoded is taken for one that is incomplete |
| Encoding (`protocol/encode.rs`) | none | one encoder per message | lengths written over a placeholder, a length within a length; the server must read what was written |
| SCRAM (`auth/scram.rs`) | nonce, channel binding | `client_first`, `client_final`, `verify_server_final` | the order of the exchange, what the server echoes, its signature over both sides |
| Client (`fraise_client.rs`, `connection_string.rs`, `transport.rs`, `tls.rs`) | none after connecting | `parse`, `to_config`, `to_tls_config`, `build`, four entry points, `startup` | three sources for the TLS mode; what was asked for must be what is sent |
| Query builder | options of one query | setters, `execute` | predicates joined as text; thresholds clamped, then compared; options that never reach the stream |
| Adaptive chunking (`adaptive_chunking.rs`) | size, bounds, window, time of the last change | `observe`, `with_bounds` | rate limit, band, rounding and clamping together; the reader builds it and never calls `observe` |
| Stream adapters (`query_stream.rs`, `filter.rs`, `typed_stream.rs`) | predicate | `poll_next` | a row must be filtered before it is deserialized; errors pass every filter |
| WHERE generation (`operators/`) | the number of the last parameter, the parameters | `generate_where_operator_sql`, `to_sql` | numbers and parameters must stay in step across operators |
| Metrics, errors, row validation | counters | | recording, formatting, one check: not modelled, except where a module above uses them |

The reader task and the consumer share nothing but the result channel, the
cancel channel and, in intention, the pause state. The reader owns the
connection: when the task returns, the socket closes and the channel's sender
is gone, which is how the consumer learns that the stream has ended.

## Modules

| Module | Models |
|---|---|
| `RowPipeline` | the reader task, the consumer and, as environment, the server and the network |
| `ResultStream` | what a stream promises, without tasks and buffers; `RowPipeline` refines it |
| `PausableStream` | extends `RowPipeline` with `pause`, `resume` and `set_pause_timeout` |
| `RowPipelineProofs` | the theorems about `RowPipeline`: what is buffered, and what the consumer gets; that they hold with `pause` and `resume`, and the theorem about the two copies |
| `Connection` | the connection, its state machine and, as environment, the server and the network |
| `ConnectionProofs` | the theorems about `Connection` |
| `Framing` | `decode_message` and the loop of `receive_message` over segments of bytes |
| `MessageQueue` | what framing promises, without bytes; `Framing` refines it |
| `Encoding` | `encode_message` and, external, the server's reading of it |
| `Bytes` | numbers and strings as bytes, for the three above |
| `BytesProofs` | lemmas about `Bytes`: numbers, strings and lists of them read the same where they were written |
| `MessageProofs` | the theorems about `Framing` and `Encoding` |
| `Tls`, `ConnectionString`, `Scram` | pure: `TlsConfigBuilder::build` and the host name; `ConnectionInfo` and `ConnectionConfig`; `ScramClient` |
| `Login` | an entry point of `FraiseClient` down to `ReadyForQuery`, composing the three, against a server |
| `LoginProofs` | the theorems about `Login` |
| `Requests` | `QueryBuilder`, `execute`, and the filtering and deserializing streams |
| `RequestsProofs` | the theorems about `Requests` |
| `WhereSql` | `generate_where_operator_sql`, fields, values, ORDER BY clauses |
| `WhereSqlProofs` | the theorems about `WhereSql` |
| `AdaptiveChunking` | `observe`, `with_bounds` and the passing of time |
| `AdaptiveChunkingProofs` | the theorems about `AdaptiveChunking` |
| `MCRowPipeline`, `MCPausableStream`, `MCPauseSuspends`, `MCConnection`, `MCLogin`, `MCParts`, `MCRequests` | the instances TLC checks |

`Connection` ends where `RowPipeline` begins: its `pc = "streaming"` is the state
in which the task is spawned, with the messages of one query on the wire.
`Framing` is what lies under both: their queue of messages is `MessageQueue`.
`Login` walks the same `startup` as `Connection` and asks another question:
`Connection` keeps of a message its kind, and looks at what failed and abandoned
calls leave behind; `Login` runs one call to its end and keeps what the call is
given, what the messages carry and which transport they go over. `Requests`
takes the stream as `ResultStream` promises it.

### RowPipeline

A message is its position on `wire`; its kind is all that is kept of its
contents. An item of the stream is the position of the message it was made
from, `Ok` for a `"row"` and `Err` otherwise. `pc` is the await point or local
loop the reader is in:

| `pc` | in `conn.rs` |
|---|---|
| `select` | the `select!` at line 853 |
| `parse` | the loop over the rows of a chunk, lines 881 and 959 |
| `send` | sending a full batch or the rest (lines 889, 913, 967, 991) |
| `sendRowErr` | sending a parse error (lines 903, 981) |
| `sendFieldErr` | sending the error of `extract_json_bytes` (line 941) |
| `sendLast` | sending the error of a failed query (lines 1021, 1027, 1036) |
| `done` | the task has returned: connection and sender dropped |

The two copies of the flush (DataRow, CommandComplete) are one set of actions;
`arm` remembers which copy runs. The actions of the consumer are `poll_next`
with its three outcomes and the drop of the stream, which drops the receiver
before the cancel sender. `Send` has the semantics of `tokio::sync::mpsc`: it
waits for a free slot and fails once the receiver is gone. Messages the reader
has no arm for (notices, parameter changes) are of kind `"notice"`, messages
`decode_message` has an error for (NotificationResponse, CopyOutResponse and others)
of kind `"odd"`: `receive_message` takes them for incomplete and reads on, so the
reader never gets past one, and when the connection ends it is lost with all that
came behind it (`ReadFails`).

`poll_next` is two steps, because the reader runs on another thread: `PollCheck`
looks at the estimate, and what follows while `polling` is `poll_recv`, which
returns an item, `None` or Pending. The reader may send in between, so that a poll
can take an item with the estimate above the limit. A poll borrows the stream: it is
not dropped, paused or resumed meanwhile.

The variants called faulty stand before the action they vary; nothing uses
them. They are plausible mistakes that the runs are known to detect.

### PausableStream

Every await of `pause` and `resume` is a state of its own, and the future can be
dropped there. While it exists the stream is borrowed, so the consumer does
nothing else. `streaming_query` clones the pause state at line 781, right after
it has created the stream and before any call can have allocated that state; the
reader's copy is therefore `None` for good and the pause branch (lines 819-851)
is dead. `stats`, `paused_occupancy` and `state_snapshot` only report.

### Connection

`pc` is the await the running call is at, `"free"` between two calls:

| `pc` | in `conn.rs` |
|---|---|
| `sendSsl`, `sslAnswer`, `upgrade` | `negotiate_tls`, lines 291, 298, 310 |
| `sendStartup` | `startup`, line 386 |
| `auth`, `sendPassword` | `authenticate`, lines 410, 432 |
| `sendSaslInitial`, `saslContinue`, `sendSaslResponse`, `saslFinal` | `handle_sasl` |
| `sendQuery`, `answer` | `simple_query`, lines 606, 613 |
| `sendStreamQuery`, `rowDesc`, `drainError` | `streaming_query`, lines 696, 704, 711 |
| `sendTerminate`, `shutdown` | `close`, lines 656, 658 |
| `streaming` | the connection belongs to the reader task |
| `dropped`, `panicked` | the connection is gone |

A call owns the connection or borrows it. `startup` and `simple_query` borrow it
and leave it behind when they fail or their future is dropped (`CallDropped`);
`streaming_query` and `close` own it. The table `Outgoing` says for each await
that writes which message it is, and which state transition and await follow;
the two transitions at the start of a call (`Startup`, `SimpleQuery`,
`StreamingQuery`) are in the action of the call, as nothing is awaited between.

A message is its kind and, as a history for `AnswersMatch`, the number of the
query it answers. The server refuses, asks for any method of authentication,
answers a query with rows, an error or nothing, and sends unsolicited messages;
kind `"odd"` stands for a message `decode_message` has an error for. The network
loses the connection with any part of what is in flight. Not modelled: a write
that puts out a part of a message; the backend key, which is stored and not used;
the `connect_timeout`, which is not used either.

### Framing and Encoding

Messages are records and their wire form is sequences of bytes, decoded and
encoded as the code does, lengths, zeros, NULL fields and skipped error fields
included. A number is written as its two or four lowest bytes, a negative one as
its complement, and read back with its sign. `Turn` is one turn of the loop of `receive_message`: decode from
`read_buf`, or wait. The network delivers any number of the bytes on their way;
a call may be dropped at its await. The server is external: it sends well-formed
messages, one of them of a kind `decode_message` has no arm for. In
`Encoding` it cuts the stream at the lengths it finds, knows what may come
next only from what it has read, and takes the parameters of a startup as pairs of
strings up to an empty name, as the protocol has them; a value may be empty. The
operators that go along a sequence (`StringsFrom`, `PairsFrom`, `Flat` and others)
are recursive functions.

### Login

`opened` is the entry point with its arguments; `Prepare` is what the entry point
computes before its first await, `pc` the awaits from there. A connection string
is a record of the pieces `parse` cuts it into, with whatever may be wrong with
each; files are sequences of PEM items. Hashes are terms, equal when computed
from equal values, so a signature verifies exactly when key and signed messages
agree. Each message in `outbox` has the transport it was written to. The server
has one password, an issuer and a list of mechanisms, and may refuse, close,
send the first SASL message with any one defect, and answer a wrong proof with a
signature of its own; rustls verifies issuer and name. To anything but the request
for TLS it may answer with a message that does not decode (`"odd"`: a request for
GSS, SSPI or Kerberos, an unknown tag), behind which the call waits until the server
gives up, if it does (`ServerOdd`, `ServerGivesUp`).

The two headers of a SASL exchange are kept apart, as the code writes them: that of
`client_first`, and that which `c=` encodes (`Gs2Cbind`). The server is lenient and
accepts the one for the other; one that is not is a server that refuses. So
`ServerProved` says nothing about the headers, which differ.

### Requests

A test in a predicate is the set of rows it holds for, and a predicate the
sequence of conjunctions its text joins by OR outside parentheses. `JoinAnd` is
what the server makes of predicates joined by `" AND "`: the last conjunction of
one and the first of the next become one. `Kept(s, places)` is the part of a
sequence at some places, in order: what WHERE, the Rust predicate and the kinds of
items select is all stated with it. What `execute` returns is any stream a result can
become: `Fates` says that a row becomes an item or an error or is lost, in a batch
and chunk given up for a parse error (`conn.rs` lines 901-909) or because it is never
read, and that none is lost before the first error; `Tails` that the stream then
ends, or ends with the error of the query's last message, or repeats the error of
the memory limit at every poll, or says nothing more. `stack` chooses between `QueryStream`,
which `execute` returns, and `TypedJsonStream` over `FilteredStream`, which count.

### WhereSql

An operator is its name, a field, the values it compares with, and what is
written into its text as it is. `Generate` gives the sign, the cast, the values
bound and what the text puts around each placeholder (`'%' || $1 || '%'`);
`GenerateWhereOperatorSql` numbers them and fills the map. `Operands` is the
reference: what the operator's documentation says it compares a field with.

### AdaptiveChunking

One action per call, and `Tick`. The histories `latest` and `fresh` count what was
observed since the last change, independently of the window. The code's floating
point is exact for the sizes in question, so `NewSize` divides integers.

## What the runs show

| Run | Instance | Shows |
|---|---|---|
| `pipeline` | chunks of 3, batches of 2, memory limit at 2 items, up to 4 rows, notices and undecodable messages | the safety properties, `StreamEnds` and the refinement |
| `pause` | chunks of 2, batches of 3, memory limit at 1 item, up to 3 rows, notices and undecodable messages | `ViewsAgree`, `LimitLatches`, `DropStopsReader` |
| `connection` | two startups, two queries, one row or unsolicited message | `InStep`, `AnswersMatch`, `TlsFirst`, `CallReturns` |
| `parts` | a behaviour belongs to one of six components that share no state | `DeliversMessages`, `WaitsOnlyForMore`; `ReadAsWritten`; `SizeWithinBounds`, `AdjustsOnEvidence`, `ReachesBound`; `BoundAsMeant`; `RightRows`, `SoftLimitsInOrder`, `RowsAccounted`; `ServerProved`, `EncryptedAsConfigured`, `LoginEnds` |
| `where_and` | two predicates, one with an OR | violated: rows come back that satisfy one predicate and not the other |
| `encryption` | the logins of `parts` | violated: `connect_with_config_and_tls` speaks plain text with a `TlsConfig` and a default configuration |
| `pause_suspends` | | violated: the reader reads on while paused |
| `notices` | | violated: a notice between rows ends the stream |
| `outcomes` | | violated: one query counted as error and as success |
| `memory_limit` | memory limit at 0 items | violated: `MemoryLimitExceeded` does not end the stream |
| `transport` | two startups, one query | violated: after a TLS upgrade that failed, the next call panics |
| `fail_fast` | two startups, one query | violated: an undecodable message is waited on for ever |

A batch smaller than a chunk (2 in 3) gives both the full and the remaining
batch, and a parse error with parsed rows waiting in front of it; a batch larger
than a chunk gives only the remaining one. Four rows and notices are more than a
chunk, so that a flush is followed by a chunk that stays incomplete until
CommandComplete, and the channel is full while a chunk is flushed. The code's
`BATCH_SIZE` is 8 and its default chunk size 256; the theorems hold for both.

At most two startups of a connection get past their first transition: after a
negotiation that failed, one without TLS is legal, and no other. Two queries
are what it takes to mistake one answer for another, and one extra message may
come at any point of either.

In `parts`: two messages of every kind (a message, or a part of one, before and
behind another) in any segments; six messages written, which is the longest
startup and a query; a window of two, an interval of two ticks, sizes from 2 to 16
and bounds in between, which passes every rounding below 16; every operator, two
in a row, on fields of each kind with NULL, no value and two values; four
setters, so that a limit, an order and two predicates meet, or two predicates
and a Rust predicate; a limit error repeated up to twice (`MaxLimitErrors`), which
shows what is done with one and with one behind another. The theorems cover the window, the sizes and the number of
operators in general. In a login of `parts`, one of fourteen strings, with and without
every defect, one of two configurations and one of two TLS builders meet one of
sixteen servers. The server sends a welcome whole; messages between those of a
startup are left to `Connection`.

Fairness. `LiveSpec` of `RowPipeline` assumes that the runtime polls a reader that is ready, that
a drop that has begun finishes, that the server finishes its answer, and that
the application polls its stream; it may also drop it, but nothing makes it, and
nothing makes the connection fail. `PLiveSpec` assumes the first two only:
`DropStopsReader` needs neither the server nor the application, because
`select!` has the cancel branch and every send fails once the receiver is gone.
`LiveSpec` of `Connection` assumes that the runtime polls the running call and
that the server answers what it is sent; it may always refuse, and nothing makes
the network fail or the application drop a call. `LoginSpec`, and `PartsSpec` of a login, assumes that the
caller polls its call and that the server answers or closes, in any way it
likes; it need not close on a client that does not answer. Three liveness properties
set apart the wait behind an undecodable message, where the code does wait for ever:
`StreamEnds`, `CallReturns` and `LoginEnds`. `fail_fast` is the run about that wait. `ReachesBound` carries its premise: the channel stays full from some time
on, is observed again and again, and time passes; the specification of the
controller has no fairness of its own.

### Disagreements with the documentation

The eight runs marked violated are listed in `PROJECT.json` with the lines quoted.
Met while reading, without a run: `state_snapshot` always returns `Running`
(`json_stream.rs` line 148); `pause` on a completed stream succeeds although its
comment says it fails, since no code stores a terminal state;
`total_rows_yielded` is never incremented; dropping a stream closes the socket and
sends no CancelRequest, which PRD.md asks for at line 225; `connect_timeout` and
`keepalive_idle` are stored and never used; adaptive chunking is on by default
in the query builder and `execute` passes `false`; a notice during authentication
fails the startup (line 474), though the head of `streaming_query` skips it;
when a fatal ErrorResponse is followed by the end of the connection, the drain of
line 710 returns `ConnectionClosed` in place of the server's error.

And of the parts around the core:

* `Field::to_sql` gives a member of `data` the arrow `->`, where `field.rs` line 31
  documents `->>`; a cast such as `::numeric` then applies to JSON.
* `In` and `Nin` with no values generate `IN ()`, which PostgreSQL does not parse.
* The adaptive settings of the builder end in `execute_query`, which passes `false`
  to `streaming_query`.
* The example at line 121 of `adaptive_chunking.rs` expects the adjustment on the
  51st observation; a window is 50 and the code adjusts on the last of it.
* `connect_with_config` takes user, password, database and sslmode from the
  `ConnectionConfig` alone, though line 105 of `fraise_client.rs` says the two are
  merged (that too violates the property of `encryption`), and builds the `TlsConfig` from the sslmode of the
  string, though line 133 says the `ConnectionConfig`'s. With `sslmode` set only in
  the configuration the startup fails for want of a TLS configuration.
* `connect_with_config_and_tls` with the default `sslmode` of `ConnectionConfig`
  speaks plain TCP and leaves the `TlsConfig` unused (run `encryption`).
  `EncryptedAsConfigured` takes the sslmode the code goes by, `ModeInForce`, and says
  that it is kept to; that it is the one asked for is what `encryption` refutes.
* METRICS.md follows a query of `QueryBuilder::execute` through `FilteredStream` and
  `TypedJsonStream` and their counters; `execute` returns a `QueryStream`, which counts
  nothing. In `Requests` these counters stay at 0 when `stack` is `"query"`, and
  `RowsAccounted` is about the other stack only.
* `danger_accept_invalid_certs` and `verify_hostname` never reach rustls:
  `sslmode=require` verifies issuer and name like `verify-full`.
* `client_first` writes `n,a=user,r=nonce` where RFC 5802 has `n,,n=user,r=nonce`, so
  that a server finds an authorization identity in place of the user name; the `c=` of
  the final message encodes `n,,`. The comment at `scram.rs` line 127 ("RFC 5802: c = base64(gs2-header +
  channel-binding-data)") has one header for both.

## What is proved

`RowPipelineProofs` proves, for every positive chunk and batch size, every memory
limit and every length of the result:

* `TypeCorrect`: `Spec => []TypeOK`;
* `Bounded`: `Spec => []BoundedBuffering`, at most two chunks of rows in memory;
* `InOrder`: `Spec => []Ordered`, nothing is reordered or duplicated.

The inductive invariant of the first two is `TypeOK /\ Shape`. `Shape` says
which buffers are empty at which program point: without it a chunk could be
collected while another is flushed. `OrderInv` adds to `Ordered` that every
position held comes from a message received, and that the last error, while it
waits to be sent, is behind everything already sent. The lemmas `AppendOrder`
and `TailOrder` say what moving one element between sequences does to order.

It proves of what the consumer gets, under the same assumptions:

* `FirstRowsExact`: `Spec => []ExactPrefix`, no gap before the first error;
* `EndIsComplete`: `Spec => []NoSilentTruncation`, an end without an error is the end
  of a result the server had reported complete;
* `QueryCounted`: `Spec => []OutcomeCounted`;
* `NothingAfterNone`: `Spec => Fused` and `LimitLatched`: `Spec => LimitLatches`, from the
  moment the estimate is above the limit with no poll under way;
* `PromiseKept`: `Spec => KeepsPromise`, the refinement of `ResultStream`. What the
  reader does with chunks and batches is a stutter, what server and network do is
  `Speak`, a poll that yields is `Yield` and one that returns `None` is `End`.

Order alone does not give these: rows in ascending order may have gaps. `ResultInv`
adds to `Shape` and `OrderInv` that the server finishes its answer once and sends no
row behind (`WellFormedAnswer`), what the reader knows, from where it is, of the
messages it has taken (`Taken`), and `NoGap`: while the consumer is there and no error
has been sent, consumer, channel, batch and chunk hold, in this order, every row taken,
and the reader returns only behind a CommandComplete. So what is said of the moment
of `None` holds from the first row on. `Counted` ties the counters to the place of the
reader.

And of `PausableStream` it proves `StillPipeline`: `PSpec => Spec`, so that every theorem
above holds of the stream with `pause` and `resume` (`LimitLatchedPausable` and
`PromiseKeptPausable` state two of them), `PausableTypeCorrect`: `PSpec => []PTypeOK`
and `ViewsAgreeAgain`: `PSpec => []ViewsAgree`. The invariant adds `Announced`: while a
call waits for the mutex the atomic has its new value already, and without a mutex
the stream runs.

`ConnectionProofs` proves, for any number of startups, queries and extra messages:

* `TypeCorrect`: `Spec => []TypeOK`;
* `Encrypted`: `Spec => []TlsFirst`, which is inductive as it stands;
* `Synchronous`: `Spec => []InStep` and `OwnAnswers`: `Spec => []AnswersMatch`.

The last two rest on one inductive invariant, `HInv`, which says for each stage of
a connection what may be under way. `Before` covers the negotiation, `Calm` the
time between two queries, `Exchange` an answer: messages only of the last query,
and nothing but unsolicited ones after ReadyForQuery (`Settled`). `During`, the
startup, is where the argument is: client and server take turns (`OneTurn`), the
turn being with the client that is about to write, in the outbox, in a challenge
in the inbox, or with a server that has no more questions, and never in two of
these places. Hence nothing is in the outbox of a client that reads
ReadyForQuery. An abandoned startup may lose the turn, which is why there is at
most one and not exactly one; that no later call uses such a connection follows
from the transitions `state.rs` allows (`Where`, `InCallIsBusy`). `Init => HInv`,
the steps of the server and those of the client are proved action by action.

`AdaptiveChunkingProofs` proves, for every window, interval, set of observations
and of bounds, and all default sizes in order:

* `WithinBounds`: `AdaptiveSpec => []SizeWithinBounds`, inductive with the types of
  the three sizes (`BoundsInv`); `Scaling` and the clamp are its arithmetic;
* `TypeCorrect`: `AdaptiveSpec => []AdaptiveType`;
* `OnEvidence`: `AdaptiveSpec => AdjustsOnEvidence`. `WindowInv` ties the window to
  the histories: it is `latest`, or empty right after a change, and has `fresh`
  elements. An average is then one of `latest'`, and a full window fresh.

`WhereSqlProofs` proves `Meant`: `WhereSpec => []BoundAsMeant`, for any operators
and however many. The inductive invariant `NumberingInv` says that every predicate
generated finds its operands in the map (`InPlace`), that no two placeholders
coincide (`Distinct`) and that every number has its placeholder (`AllUsed`); a step
adds numbers above `index` only. One lemma per family of operators (`Fits`) shows
that what an operator binds, with what is written around it, is what it means. `WhereTyped`:
`WhereSpec => []WhereType` follows from the same invariant.

`LoginProofs` proves, for every set of strings, configurations, TLS builders and
servers, with no assumption about any of them:

* `LoginTypeCorrect`: `LoginSpec => []LoginType`;
* `EncryptionKept`: `LoginSpec => []EncryptedAsConfigured`;
* `ServerHasPassword`: `LoginSpec => []ServerProved`.

`Prepared` says what the entry point has made of its arguments, `Channel` which
transport belongs to which await; `EncryptedAsConfigured` is inductive with these two. That a
verified signature is the server's, over this exchange, needs the whole conversation:
`Turns` says that the two sides speak one after the other, with at most one message on
its way to the server and none back meanwhile, and `Sasled` what client and server
remember of the exchange at each await, from the first message (`Opening`) to the
signature (`Closing`). A proof the server accepts is then one computed from the
server's own password and the messages both have seen.

`RequestsProofs` proves, for every table, predicates and sequence of settings:

* `RequestsTyped`: `RequestsSpec => []RequestsType`;
* `SoftLimitsOrdered`: `RequestsSpec => []SoftLimitsInOrder`. `Built` says that the
  builder holds both limits, clamped and in order, or neither, and `Called` that the
  call has them;
* `EveryRowCounted`: `RequestsSpec => []RowsAccounted`, of the layers over a JSON stream
  only (`execute()` counts no row, see the disagreements above). `Accounts` says that `inner` is
  what is left of the items the stream had at the start (`Left`), so that a turn moves
  one item from there to `Consumed`; the lemmas `NumberOf...` say what one more item
  does to the number of items of a kind. `ExecuteItems` shows that whatever text is
  built, the answer is a sequence of such items;
* `RightRowsDelivered`: `RequestsSpec => [](Unambiguous => RightRows)`. `Unambiguous` says
  that there is at most one predicate or that none has an OR; without it the property
  is false, as `where_and` shows. The argument has two halves. `WhereMeans` shows that then the
  joined text means what each predicate does, so the answer is what was asked for.
  `Right` ties the answer to the caller: `c[m]` is the place in the answer up to which the
  first `m` items of the stream have come; it only grows, and by one per item before the
  first error (`LaysOut`, established by `ExecuteLays`). Of the rows due up to there
  (`Due`: those the Rust predicate lets pass, each deserialized) the caller has got some,
  and before the first error all (`Got`), with every error of the stream, and the end only
  when nothing is left (`Delivers`). A turn takes one item, and `KeptMore` says what one
  more place does to the part of a sequence that is kept.

`MessageProofs`, with the lemmas of `BytesProofs`, proves of `Framing`, for any messages
whatever their fields hold:

* `DecodesFirst`: where a message of the server starts, `decode_message` returns it, as
  it was sent and to its last byte, whatever follows; or an error, for a kind it does not know;
* `FramingTyped`: `FramingSpec => []FramingType`;
* `MessagesDelivered`: `FramingSpec => DeliversMessages`, the refinement of
  `MessageQueue`. A turn that returns a message is a `Receive`, and one that does
  not, an arriving segment or a dropped call is a stutter;
* `WaitsForMore`: `FramingSpec => []WaitsOnlyForMore`;

and of `Encoding`, for any messages of the client:

* `EncodingTyped`: `EncodingSpec => []EncodingType`;
* `WrittenIsRead`: `EncodingSpec => []ReadAsWritten`.

The invariants are accounts of bytes. `FramingInv`: the buffer followed by what is in
flight is the wire form of what was said and not returned yet, all of it, or a first
part of it once the connection is lost. That a whole message in the buffer is decoded
to itself is `DecodesFirst`; that no first part of one is taken for a message is
`DecodesNoPart`, from the length each carries. `EncodingInv` says the same of the wire
and of what the server has yet to read, and that what was written is in an order the
server expects (`InProtocolOrder`): a startup has no type byte, so the server must
know from what it has read that one comes. Below these
there is one lemma for each kind of message (`RowThere`, `DescriptionThere`,
`ErrorFieldsThere`, `MechanismsThere`, `PairsThere` and others), and below those what `BytesProofs` says of
numbers, of strings up to their zero and of lists (`ListThere`). `Occurs(part, data, at)`
is what all of them are about: part is what the data hold from there on. None uses an
induction rule: a recursive function is shown to exist, and to yield what was
written, by the least length at which it would not (`Least`, from `WFMin`).

The theorems need no assumption beyond those the modules state about their
constants, of which `Connection` has only that its bounds are numbers and `Login`
none. TLC evaluates them on the instances of the runs.

* `Requests`: `TableAssumption`, a table is a sequence; `PredicatesAssumption`, a predicate is at
  least one conjunction; `CountsAssumption`, `limit` and `offset` take a `usize`;
  `SoftLimitsAssumption`, thresholds are numbers, in any range (whole per cents, where
  the code takes `f32`: they are compared and clamped, nothing is computed from them);
  `SettingsAssumption`, the bound is a number.
* `Framing`: `MessagesAssumption`, the external server sends messages of the protocol,
  with ASCII strings, no longer than `MAX_MESSAGE_LENGTH`; longer ones `decode_message`
  refuses at line 37 of `decode.rs`.
* `Encoding`: `RequestsAssumption`, strings have no zero byte, startup parameters have a
  name, and a length fits 32 bits. The encoders check none of these: for other
  messages the theorem says nothing, and the server would read something else.
* `WhereSql`: `OperatorsAssumption`, an operator has the values its Rust variant has.

Only model-checked, and why:

* liveness everywhere (`StreamEnds`, `DropStopsReader`, `CallReturns`, `LoginEnds`,
  `ReachesBound`): fairness and `ENABLED` are out of the prover's reach;
* `PartsType`, which collects the types of five components of `parts`; each is
  proved on its own (`FramingTyped`, `EncodingTyped`, `TypeCorrect` of
  `AdaptiveChunkingProofs`, `WhereTyped`, `RequestsTyped`).

## Not modelled

* `error.rs`, the histograms, gauges and most counters, the memory estimators,
  `stats`: they format, record or report, and nothing depends on them.
* `validate_row_description` is one condition on one message; `Connection` has the
  error it may give.
* Text: SQL as characters, names of metrics (`extract_entity_from_query`), `Display`.
* The TLS handshake, hashes, sockets and JSON parsing belong to external crates.
* `chunk_size(0)`, at which `mpsc::channel` panics, and `connect_timeout`, which is
  never read: `PROJECT.json` lists both hazards with the reason.

## What could come next

Nothing the runs check is left to prove but liveness. The model itself could go further in
three places: a write of `Connection` that puts out a part of a message; the
adaptive controller inside the reader, once `streaming_query` lets it observe; and the
characters of the SQL texts, where the quoting of strings is now taken as done.
