------------------------------ MODULE WhereSql ------------------------------
(***************************************************************************)
(* SQL from typed operators: WhereOperator (where_operator.rs) and         *)
(* generate_where_operator_sql (sql_gen.rs), Field and Value (field.rs),   *)
(* OrderByClause (order_by.rs).                                            *)
(*                                                                         *)
(* The caller generates one operator after the other, handing the number   *)
(* of the last placeholder and the map of parameters from call to call,    *)
(* and binds the map to the whole text at the end.                         *)
(*                                                                         *)
(* A value is <<type, pieces>>, its text cut into pieces.  A name is a     *)
(* sequence of classes of characters: "letter", "_", "digit", "mark" (one  *)
(* of - . @) and "other".  An operator is [op, field, args, literal]:      *)
(* args are the values it compares with, literal what is written into the  *)
(* text as it is (a length, a threshold, a language, IsNull's Boolean).    *)
(***************************************************************************)
EXTENDS Naturals, Sequences

CONSTANTS
  Operators,     \* operators asked for
  Pieces,        \* what the text of a value is cut into
  Clauses,       \* ORDER BY clauses asked for
  MaxGenerated   \* bound: texts generated

VARIABLES
  index,   \* param_index: the number of the last placeholder
  params,  \* the parameters by number
  texts,   \* history: the predicates generated, each with its operator
  orders   \* history: the ORDER BY texts generated

whereVars == <<index, params, texts, orders>>

-----------------------------------------------------------------------------
NameCharacters == {"letter", "_", "digit"}
ValidName(name) ==
  /\ name # <<>> /\ name[1] \in {"letter", "_"}
  /\ \A i \in DOMAIN name : name[i] \in NameCharacters

(* A field is a member of the data column, a column, or a path into data,  *)
(* which may be empty.                                                     *)
ValidField(field) ==
  /\ field.source \in {"jsonb", "column"} => Len(field.path) = 1
  /\ \A i \in DOMAIN field.path : ValidName(field.path[i])

(* Each name with the arrow before it: a path ends in text, a member of    *)
(* data stays JSON.                                                        *)
FieldSql(field) ==
  LET Arrow(i) ==
        CASE field.source = "column" -> ""
          [] field.source = "jsonb" -> "->"
          [] field.source = "path" -> IF i = Len(field.path) THEN "->>" ELSE "->"
  IN  [i \in DOMAIN field.path |-> <<Arrow(i), field.path[i]>>]

Casts == [string |-> "::text", number |-> "::numeric", bool |-> "::boolean"]
InferTypeCast(field, value) ==
  IF field.source = "column" \/ value[1] \notin DOMAIN Casts THEN "" ELSE Casts[value[1]]

ValidClause(clause) ==
  /\ ValidName(clause.field)
  /\ \A i \in DOMAIN clause.collation :
       /\ clause.collation[i] # <<>>
       /\ \A j \in DOMAIN clause.collation[i] :
            clause.collation[i][j] \in NameCharacters \cup {"mark"}

-----------------------------------------------------------------------------
(* What an operator becomes: the sign of its test, the cast of the field,  *)
(* the values it binds in the order of its placeholders, and what is       *)
(* written around each placeholder.                                        *)
Comparisons == [Eq |-> "=", Neq |-> "!=", Gt |-> ">", Gte |-> ">=", Lt |-> "<", Lte |-> "<="]
Lists == [In |-> "IN", Nin |-> "NOT IN", ArrayOverlaps |-> "&&"]
Arrays == [ArrayContains |-> "@>", ArrayContainedBy |-> "<@"]
Lengths == [LenEq |-> "length =", LenGt |-> "length >", LenGte |-> "length >=",
            LenLt |-> "length <", LenLte |-> "length <="]
Patterns == [Contains |-> "LIKE", Icontains |-> "ILIKE", Startswith |-> "LIKE",
             Endswith |-> "LIKE", Like |-> "LIKE", Ilike |-> "ILIKE"]
Distances == [L2Distance |-> "l2 <", CosineDistance |-> "cosine <", InnerProduct |-> "inner >",
              JaccardDistance |-> "jaccard <"]
Searches == [Matches |-> "plainto", PlainQuery |-> "plainto ::tsvector",
             PhraseQuery |-> "phraseto", WebsearchQuery |-> "websearch_to"]
Families == [IsIPv4 |-> "family = 4", IsIPv6 |-> "family = 6", IsPrivate |-> "private ranges",
             IsLoopback |-> "loopback ranges"]
Networks == [InSubnet |-> "<<", ContainsSubnet |-> ">>", ContainsIP |-> ">>",
             IPRangeOverlap |-> "&&"]

(* The types of values, and the operators by how many operands they have:  *)
(* any number (Lists), one, or none.                                       *)
Types == {"null", "string", "number", "bool", "array", "floats", "raw"}
Unary == DOMAIN Comparisons \cup DOMAIN Arrays \cup DOMAIN Patterns \cup DOMAIN Distances
         \cup DOMAIN Searches \cup DOMAIN Networks
Nullary == DOMAIN Lengths \cup DOMAIN Families \cup {"IsNull"}

(* validate: of every operator the field.                                  *)
Validate(o) == ValidField(o.field)

ASSUME OperatorsAssumption ==
  \A o \in Operators :
    /\ o.args \in Seq(Types \X Seq(Pieces))
    /\ \/ o.op \in DOMAIN Lists
       \/ o.op \in Unary /\ Len(o.args) = 1
       \/ o.op \in Nullary /\ o.args = <<>>

Text(sign, cast, binds) == [sign |-> sign, cast |-> cast, binds |-> binds, around |-> <<>>]

GenerateComparison(o) ==
  LET value == o.args[1]
  IN CASE value[1] = "null" /\ o.op = "Eq" -> Text("IS NULL", "", <<>>)
       [] value[1] = "null" /\ o.op = "Neq" -> Text("IS NOT NULL", "", <<>>)
       [] OTHER -> Text(Comparisons[o.op], InferTypeCast(o.field, value), <<value>>)

GenerateArray(o) ==
  IF o.op \in DOMAIN Lists THEN Text(Lists[o.op], "", o.args) ELSE Text(Arrays[o.op], "", o.args)

GenerateLength(o) == Text(Lengths[o.op], "", <<>>)

(* The wildcards of Contains are in the text, those of Startswith and      *)
(* Endswith in the value.                                                  *)
GeneratePattern(o) ==
  LET pieces == o.args[1][2]
      bound == CASE o.op = "Startswith" -> pieces \o <<"%">>
                 [] o.op = "Endswith" -> <<"%">> \o pieces
                 [] OTHER -> pieces
  IN  [Text(Patterns[o.op], "", <<<<"string", bound>>>>) EXCEPT
         !.around = IF o.op \in {"Contains", "Icontains"} THEN <<"%">> ELSE <<>>]

GenerateNull(o) == Text(IF o.literal = "true" THEN "IS NULL" ELSE "IS NOT NULL", "", <<>>)

GenerateDistance(o) ==
  Text(Distances[o.op], IF o.op = "JaccardDistance" THEN "::text[]" ELSE "::vector",
       <<<<IF o.op = "JaccardDistance" THEN "array" ELSE "floats", o.args[1][2]>>>>)

GenerateSearch(o) == Text(Searches[o.op], "", o.args)

GenerateNetwork(o) ==
  IF o.op \in DOMAIN Families THEN Text(Families[o.op], "::inet", <<>>)
  ELSE Text(Networks[o.op], "::inet", o.args)

Generate(o) ==
  CASE o.op \in DOMAIN Comparisons -> GenerateComparison(o)
    [] o.op \in DOMAIN Lists \cup DOMAIN Arrays -> GenerateArray(o)
    [] o.op \in DOMAIN Lengths -> GenerateLength(o)
    [] o.op \in DOMAIN Patterns -> GeneratePattern(o)
    [] o.op = "IsNull" -> GenerateNull(o)
    [] o.op \in DOMAIN Distances -> GenerateDistance(o)
    [] o.op \in DOMAIN Searches -> GenerateSearch(o)
    [] o.op \in DOMAIN Families \cup DOMAIN Networks -> GenerateNetwork(o)

(* Written as it is; a search without a language is in English.            *)
LiteralOf(o) ==
  CASE o.op \in {"Matches", "PhraseQuery", "WebsearchQuery"} /\ o.literal = "" -> "english"
    [] o.op = "IsNull" -> ""
    [] OTHER -> o.literal

(* Faulty variant: the first placeholder of an operator has the number of  *)
(* the last one before it.                                                 *)
FirstReused(n) == IF n = 0 THEN 1 ELSE n

(* param_num is param_index + 1.                                           *)
FirstPlaceholder(n) == n + 1

-----------------------------------------------------------------------------
WhereInit == index = 0 /\ params = <<>> /\ texts = <<>> /\ orders = <<>>

Generated == Len(texts) + Len(orders)

(* An operator with an invalid name is refused before anything is counted. *)
GenerateWhereOperatorSql(o) ==
  /\ Generated < MaxGenerated /\ Validate(o)
  /\ LET text == Generate(o)
         first == FirstPlaceholder(index)
         count == Len(text.binds)
     IN  /\ texts' = Append(texts, [operator |-> o, field |-> FieldSql(o.field), text |-> text,
                                    literal |-> LiteralOf(o),
                                    holes |-> [i \in 1 .. count |-> first + i - 1]])
         /\ LET new == first .. first + count - 1
            IN  params' = [n \in DOMAIN params \cup new |->
                             IF n \in new THEN text.binds[n - first + 1] ELSE params[n]]
         /\ index' = index + count
  /\ UNCHANGED orders

OrderBySql(clause) ==
  /\ Generated < MaxGenerated /\ ValidClause(clause)
  /\ orders' = Append(orders, clause)
  /\ UNCHANGED <<index, params, texts>>

WhereNext ==
  \/ \E o \in Operators : GenerateWhereOperatorSql(o)
  \/ \E c \in Clauses : OrderBySql(c)

WhereSpec == WhereInit /\ [][WhereNext]_whereVars

-----------------------------------------------------------------------------
WhereType ==
  /\ index \in Nat /\ DOMAIN params = 1 .. index
  /\ \A i \in DOMAIN texts : texts[i].operator \in Operators
  /\ \A i \in DOMAIN orders : orders[i] \in Clauses

(* What the documentation of the operators says they compare a field with  *)
(* (where_operator.rs:26-252): the values given, a pattern made of them,   *)
(* nothing for NULL.                                                       *)
Operands(o) ==
  LET pieces == o.args[1][2]
  IN CASE o.op \in {"Eq", "Neq"} /\ o.args[1][1] = "null" -> <<>>
       [] o.op \in {"Contains", "Icontains"} -> <<<<"%">> \o pieces \o <<"%">>>>
       [] o.op = "Startswith" -> <<pieces \o <<"%">>>>
       [] o.op = "Endswith" -> <<<<"%">> \o pieces>>
       [] OTHER -> [i \in DOMAIN o.args |-> o.args[i][2]]

(* A predicate with the parameters put in the place of its placeholders.   *)
Bound(t) ==
  [k \in DOMAIN t.holes |-> t.text.around \o params[t.holes[k]][2] \o t.text.around]

(* Every predicate generated so far, bound with the one map of parameters, *)
(* compares its field with what its operator means, whatever operators     *)
(* came before and after it in the same counting; no placeholder serves    *)
(* two places, and none of the parameters is left over.                    *)
BoundAsMeant ==
  /\ \A i \in DOMAIN texts : Bound(texts[i]) = Operands(texts[i].operator)
  /\ \A i, j \in DOMAIN texts : \A k \in DOMAIN texts[i].holes, l \in DOMAIN texts[j].holes :
       texts[i].holes[k] = texts[j].holes[l] => i = j /\ k = l
  /\ \A i \in DOMAIN texts : \A k \in DOMAIN texts[i].holes : texts[i].holes[k] \in DOMAIN params
  /\ \A n \in DOMAIN params :
       \E i \in DOMAIN texts : \E k \in DOMAIN texts[i].holes : texts[i].holes[k] = n
=============================================================================
