------------------------------ MODULE Requests ------------------------------
(***************************************************************************)
(* A request from the builder to its rows: QueryBuilder                    *)
(* (query_builder.rs), FraiseClient::execute_query (fraise_client.rs), and *)
(* the stream the caller gets, QueryStream (query_stream.rs).  The crate   *)
(* also exports the same two stages as streams of their own,               *)
(* FilteredStream (filter.rs) under TypedJsonStream (typed_stream.rs),     *)
(* which count what they do; stack says which of the two a caller uses.    *)
(*                                                                         *)
(* A row is a model value, a test in a predicate is the set of the rows    *)
(* it holds for.  A predicate is the sequence of the conjunctions that     *)
(* its text joins by OR, outside any parentheses; a predicate without such *)
(* an OR is one conjunction.  Settings that only pass through to           *)
(* streaming_query are kept as what it is called with.                     *)
(*                                                                         *)
(* The server is external: it runs the text it is given.  The JSON stream  *)
(* below is the one ResultStream specifies and RowPipeline implements: the *)
(* rows of the answer in order, without a gap up to the first error and    *)
(* with gaps after it, an error wherever a row does not parse, and then    *)
(* the end, which only an error or the last row leads to; or no end, when  *)
(* the memory limit makes every further poll an error (its LimitLatches),  *)
(* or nothing more comes.                                                  *)
(***************************************************************************)
EXTENDS Integers, Sequences, SequencesExt

CONSTANTS
  Table,       \* the rows of the entity, a sequence without duplicates
  Sorted,      \* the same rows in ascending order
  Fitting,     \* the rows that deserialize to T
  Predicates,  \* where_sql arguments
  RustPredicates,  \* where_rust arguments: sets of rows
  Counts,      \* limit and offset arguments
  SoftLimits,  \* memory_soft_limits arguments, in per cent
  MaxSettings, \* bound: calls of the builder's setters
  MaxLimitErrors  \* bound: polls over the memory limit, all of them errors

ASSUME TableAssumption == Table \in Seq(Range(Table)) /\ Sorted \in Seq(Range(Table))
ASSUME PredicatesAssumption == \A p \in Predicates : p \in Seq(Range(p)) /\ p # <<>>
ASSUME CountsAssumption == Counts \subseteq Nat
ASSUME SoftLimitsAssumption == SoftLimits \subseteq Int
ASSUME SettingsAssumption == MaxSettings \in Nat
ASSUME LimitErrorsAssumption == MaxLimitErrors \in Nat

VARIABLES
  builder,    \* QueryBuilder
  settings,   \* setters called
  stack,      \* "query" or "layers"
  call,       \* what streaming_query was called with; <<>> before execute
  inner,      \* items the JSON stream has yet to yield
  delivered,  \* items the caller has got
  counted     \* rows_filtered, deserialization_success and _failure

requestVars == <<builder, settings, stack, call, inner, delivered, counted>>

-----------------------------------------------------------------------------
(* An unset option is <<>>.                                                *)
NewBuilder ==
  [predicates |-> <<>>, rust |-> <<>>, order |-> <<>>, limit |-> <<>>, offset |-> <<>>,
   projection |-> FALSE, chunk |-> "default", memory |-> "none", warn |-> <<>>, fail |-> <<>>,
   adaptive |-> "default"]

RequestsInit ==
  /\ builder = NewBuilder /\ settings = 0
  /\ stack \in {"query", "layers"}
  /\ call = <<>> /\ inner = <<>> /\ delivered = <<>>
  /\ counted = [filtered |-> 0, success |-> 0, failure |-> 0]

Building == call = <<>> /\ settings < MaxSettings

Set(new) ==
  /\ Building
  /\ builder' = new /\ settings' = settings + 1
  /\ UNCHANGED <<stack, call, inner, delivered, counted>>

WhereSqlText(p) == Set([builder EXCEPT !.predicates = Append(@, p)])
WhereRust(rows) == Set([builder EXCEPT !.rust = <<rows>>])
OrderBy(direction) == Set([builder EXCEPT !.order = <<direction>>])
SelectProjection == Set([builder EXCEPT !.projection = TRUE])
Limit(n) == Set([builder EXCEPT !.limit = <<n>>])
Offset(n) == Set([builder EXCEPT !.offset = <<n>>])
ChunkSize == Set([builder EXCEPT !.chunk = "chosen"])
MaxMemory == Set([builder EXCEPT !.memory = "chosen"])

Clamp(percent) == IF percent < 0 THEN 0 ELSE IF percent > 100 THEN 100 ELSE percent

(* Faulty variant: the thresholds are compared as they were given.         *)
MemorySoftLimitsUnclamped(warn, fail) ==
  IF warn < fail THEN Set([builder EXCEPT !.warn = <<Clamp(warn)>>, !.fail = <<Clamp(fail)>>])
  ELSE Set(builder)

(* Thresholds that are not in order once clamped are ignored.              *)
MemorySoftLimits(warn, fail) ==
  IF Clamp(warn) < Clamp(fail)
  THEN Set([builder EXCEPT !.warn = <<Clamp(warn)>>, !.fail = <<Clamp(fail)>>])
  ELSE Set(builder)

(* adaptive_chunking, adaptive_min_size, adaptive_max_size.                *)
Adaptive == Set([builder EXCEPT !.adaptive = "chosen"])

-----------------------------------------------------------------------------
(* The elements of a sequence at some places, in its order.                *)
UpTo(places, i) == {j \in places : j <= i}
Place(places, k) == CHOOSE i \in {j \in places : Cardinality(UpTo(places, j)) = k} : TRUE
Kept(s, places) == [k \in 1 .. Cardinality(places) |-> s[Place(places, k)]]

(* The text of WHERE: the predicates joined by " AND ".  AND binds more    *)
(* strongly than OR, so what it joins is the last conjunction of the one   *)
(* predicate and the first of the next.                                    *)
JoinAnd(predicates) ==
  LET Join(p, q) == Front(p) \o <<Last(p) \cap Head(q)>> \o Tail(q)
      joined[k \in 1 .. Len(predicates)] ==
        IF k = 1 THEN predicates[1] ELSE Join(joined[k - 1], predicates[k])
  IN  joined[Len(predicates)]

BuildSql ==
  [where |-> IF builder.predicates = <<>> THEN <<>> ELSE JoinAnd(builder.predicates),
   order |-> builder.order, limit |-> builder.limit, offset |-> builder.offset,
   projection |-> builder.projection]

(* The server's answer to a text (external): rows of the table that        *)
(* satisfy one of the conjunctions, ordered, OFFSET skipped, LIMIT kept.   *)
Matching(rows, where) ==
  Kept(rows, {i \in DOMAIN rows : where = <<>> \/ \E j \in DOMAIN where : rows[i] \in where[j]})
InOrder(order) ==
  CASE order = <<>> -> Table
    [] order = <<"asc">> -> Sorted
    [] order = <<"desc">> -> Reverse(Sorted)
Slice(rows, offset, limit) ==
  LET skipped == IF offset = <<>> THEN rows ELSE SubSeq(rows, offset[1] + 1, Len(rows))
  IN  IF limit = <<>> \/ limit[1] > Len(skipped) THEN skipped ELSE SubSeq(skipped, 1, limit[1])
Answer(sql) == Slice(Matching(InOrder(sql.order), sql.where), sql.offset, sql.limit)

RowItem(r) == [kind |-> "json", row |-> r]
ErrorItem == [kind |-> "error"]
EndItem == [kind |-> "end"]

(* What a stream may make of the rows of a result: an item, an error, or   *)
(* nothing, when the row is in a batch or a chunk given up for an error,   *)
(* or was never read.  Up to the first error no row is missing.            *)
Fates(rows) ==
  {fate \in [DOMAIN rows -> {"row", "error", "lost"}] :
     \A i \in DOMAIN rows :
       fate[i] = "row" => \/ \A j \in 1 .. i - 1 : fate[j] = "row"
                          \/ \E j \in 1 .. i - 1 : fate[j] = "error"}

(* How it goes on behind them: the end; the error of the message that ends *)
(* the query, and the end; or the memory limit's error at every poll, or   *)
(* nothing, and no end.                                                    *)
Tails ==
  {<<EndItem>>, <<ErrorItem, EndItem>>}
    \cup {[i \in 1 .. n |-> ErrorItem] : n \in 0 .. MaxLimitErrors}

StreamOf(rows, fate, tail) ==
  Kept([i \in DOMAIN rows |-> IF fate[i] = "error" THEN ErrorItem ELSE RowItem(rows[i])],
       {i \in DOMAIN rows : fate[i] # "lost"}) \o tail

(* execute: the text, and the call of streaming_query, to which the        *)
(* adaptive settings do not go.  The predicate goes into the stream.       *)
Execute ==
  /\ call = <<>>
  /\ LET rows == Answer(BuildSql)
     IN  \E fate \in Fates(rows), tail \in Tails :
           /\ tail = <<EndItem>> => \/ \A i \in DOMAIN rows : fate[i] = "row"
                                    \/ \E i \in DOMAIN rows : fate[i] = "error"
           /\ inner' = StreamOf(rows, fate, tail)
  /\ call' = <<[sql |-> BuildSql, chunk |-> builder.chunk, memory |-> builder.memory,
                warn |-> builder.warn, fail |-> builder.fail, adaptive |-> "off",
                rust |-> builder.rust, items |-> inner']>>
  /\ UNCHANGED <<builder, settings, stack, delivered, counted>>

-----------------------------------------------------------------------------
Deserialized(r) == IF r \in Fitting THEN RowItem(r) ELSE [kind |-> "misfit", row |-> r]

Passes(r) == LET rust == call[1].rust IN rust = <<>> \/ r \in rust[1]

(* Faulty variant: what passes the filter counts as deserialized.          *)
OutcomeOfFilter(r) == IF Passes(r) THEN "success" ELSE "filtered"

Outcome(r) ==
  IF ~Passes(r) THEN "filtered" ELSE IF r \in Fitting THEN "success" ELSE "failure"

(* FilteredStream counts what it filters, TypedJsonStream what it          *)
(* deserializes; QueryStream counts neither.                               *)
Count(event) ==
  counted' = IF stack = "layers" THEN [counted EXCEPT ![event] = @ + 1] ELSE counted

(* Faulty variant: a row is deserialized before it is filtered.            *)
DeserializeFirst(r) == IF r \in Fitting /\ ~Passes(r) THEN <<>> ELSE <<Deserialized(r)>>

(* What a poll returns for a row, or nothing if it is filtered out.        *)
Yielded(r) == IF Passes(r) THEN <<Deserialized(r)>> ELSE <<>>

(* One turn of the loop of poll_next: a row that is filtered out makes it  *)
(* go round again, anything else is what the poll returns.  When the JSON  *)
(* stream has nothing yet the poll returns Pending, and nothing changes.   *)
PollTurn ==
  /\ inner # <<>> /\ inner' = Tail(inner)
  /\ LET item == Head(inner)
     IN  IF item.kind = "json"
         THEN delivered' = delivered \o Yielded(item.row) /\ Count(Outcome(item.row))
         ELSE delivered' = Append(delivered, item) /\ UNCHANGED counted
  /\ UNCHANGED <<builder, settings, stack, call>>

RequestsNext ==
  \/ \E p \in Predicates : WhereSqlText(p)
  \/ \E rows \in RustPredicates : WhereRust(rows)
  \/ \E d \in {"asc", "desc"} : OrderBy(d)
  \/ \E n \in Counts : Limit(n) \/ Offset(n)
  \/ SelectProjection \/ ChunkSize \/ MaxMemory \/ Adaptive
  \/ \E w, f \in SoftLimits : MemorySoftLimits(w, f)
  \/ Execute \/ PollTurn

RequestsSpec == RequestsInit /\ [][RequestsNext]_requestVars

-----------------------------------------------------------------------------
RequestsType ==
  /\ settings \in 0 .. MaxSettings /\ stack \in {"query", "layers"}
  /\ builder.predicates \in Seq(Predicates)
  /\ \A i \in DOMAIN delivered : delivered[i].kind \in {"json", "misfit", "error", "end"}
  /\ \A e \in DOMAIN counted : counted[e] \in Nat

(* What the caller asked for: the rows that satisfy every predicate, taken *)
(* as it was written, in the order asked for, OFFSET and LIMIT applied;    *)
(* then, of these, the rows the Rust predicate lets pass, each as a T or   *)
(* as the error of the row that is none.                                   *)
Wanted ==
  LET Satisfies(r) ==
        \A i \in DOMAIN builder.predicates :
          \E j \in DOMAIN builder.predicates[i] : r \in builder.predicates[i][j]
      all == InOrder(builder.order)
      rows == Slice(Kept(all, {i \in DOMAIN all : Satisfies(all[i])}),
                    builder.offset, builder.limit)
      passed == Kept(rows, {i \in DOMAIN rows : Passes(rows[i])})
  IN  [i \in DOMAIN passed |-> Deserialized(passed[i])]

OfKind(items, kinds) == Kept(items, {i \in DOMAIN items : items[i].kind \in kinds})
Rows(items) == OfKind(items, {"json", "misfit"})
Errors(items) == OfKind(items, {"error"})
Consumed == SubSeq(call[1].items, 1, Len(call[1].items) - Len(inner))

(* The caller gets what it asked for: rows it asked for, each at most once *)
(* and in their order, without a gap up to the first error, and all of     *)
(* them when the stream ends without one.  A row its predicate filters out *)
(* is never deserialized and so never an error, and an error of the JSON   *)
(* stream is passed on whatever the predicate.                             *)
RightRows ==
  call # <<>> =>
    /\ \E places \in SUBSET DOMAIN Wanted : Rows(delivered) = Kept(Wanted, places)
    /\ Errors(delivered) = <<>> => Rows(delivered) = SubSeq(Wanted, 1, Len(Rows(delivered)))
    /\ Errors(delivered) = Errors(Consumed)
    /\ EndItem \in Range(delivered) /\ Errors(delivered) = <<>> => Rows(delivered) = Wanted

(* The soft limits streaming_query is called with are both there or        *)
(* neither, in order, and within 0 and 100 per cent, whatever was asked    *)
(* for and in however many calls: the stream warns before it fails.        *)
SoftLimitsInOrder ==
  call # <<>> =>
    LET warn == call[1].warn
        fail == call[1].fail
    IN  /\ warn = <<>> <=> fail = <<>>
        /\ warn # <<>> => 0 <= warn[1] /\ warn[1] < fail[1] /\ fail[1] <= 100

Number(items, kind) == Cardinality({i \in DOMAIN items : items[i].kind = kind})

(* The layers count every row the JSON stream has yielded once, as         *)
(* filtered out, deserialized or refused, and as what became of it.        *)
RowsAccounted ==
  stack = "layers" /\ call # <<>> =>
    /\ counted.success = Number(delivered, "json")
    /\ counted.failure = Number(delivered, "misfit")
    /\ counted.filtered + counted.success + counted.failure = Number(Consumed, "json")
=============================================================================
