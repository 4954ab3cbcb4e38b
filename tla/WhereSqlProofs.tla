--------------------------- MODULE WhereSqlProofs ---------------------------
(***************************************************************************)
(* Theorems about WhereSql, for every set of operators, however many are   *)
(* generated one after the other.                                          *)
(***************************************************************************)
EXTENDS WhereSql, SequenceTheorems, TLAPS

Characters == Pieces \cup {"%"}
Values == Types \X Seq(Characters)

(* What an operator becomes carries one operand for each value it binds,   *)
(* and the operand is the value with what is written around it.            *)
Fits(text, operands) ==
  /\ text.binds \in Seq(Values) /\ text.around \in Seq(Characters)
  /\ operands \in Seq(Seq(Characters)) /\ Len(operands) = Len(text.binds)
  /\ \A k \in 1 .. Len(text.binds) :
       operands[k] = text.around \o text.binds[k][2] \o text.around

LEMMA Surrounded ==
  ASSUME NEW pieces \in Seq(Characters)
  PROVE  <<>> \o pieces \o <<>> = pieces
  BY ConcatEmptySeq

(* The operands an operator is given are values.                           *)
LEMMA Given ==
  ASSUME NEW o \in Operators
  PROVE  o.args \in Seq(Values)
  <1>1. o.args \in Seq(Types \X Seq(Pieces))
    BY OperatorsAssumption
  <1>2. Seq(Pieces) \subseteq Seq(Characters)
    BY DEF Characters
  <1>3. ASSUME NEW k \in 1 .. Len(o.args) PROVE o.args[k] \in Values
    BY <1>1, <1>2, ElementOfSeq DEF Values
  <1>4. o.args \in [1 .. Len(o.args) -> Values] /\ Len(o.args) \in Nat
    BY <1>1, <1>3, LenProperties
  <1> QED BY <1>4, SeqDef

(* A text that binds the operator's own values, with nothing around them.  *)
LEMMA FitsAsGiven ==
  ASSUME NEW o \in Operators, NEW sign, NEW cast
  PROVE  Fits(Text(sign, cast, o.args), [i \in DOMAIN o.args |-> o.args[i][2]])
  <1> DEFINE operands == [i \in DOMAIN o.args |-> o.args[i][2]]
  <1>1. o.args \in Seq(Values) /\ DOMAIN o.args = 1 .. Len(o.args) /\ Len(o.args) \in Nat
    BY Given, LenProperties
  <1>2. ASSUME NEW k \in 1 .. Len(o.args)
        PROVE  /\ o.args[k][2] \in Seq(Characters)
               /\ operands[k] = <<>> \o o.args[k][2] \o <<>>
    <2>1. o.args[k] \in Values
      BY <1>1, ElementOfSeq
    <2>2. o.args[k][2] \in Seq(Characters)
      BY <2>1 DEF Values
    <2> QED BY <1>1, <2>2, Surrounded
  <1>3. operands \in [1 .. Len(o.args) -> Seq(Characters)]
    BY <1>1, <1>2
  <1>4. operands \in Seq(Seq(Characters)) /\ Len(operands) = Len(o.args)
    <2> HIDE DEF operands
    <2>1. operands \in Seq(Seq(Characters))
      BY <1>1, <1>3, SeqDef
    <2> QED BY <2>1, <1>1, <1>3, LenProperties
  <1>5. <<>> \in Seq(Characters)
    BY EmptySeq
  <1>6. Text(sign, cast, o.args).binds = o.args /\ Text(sign, cast, o.args).around = <<>>
    BY DEF Text
  <1> HIDE DEF operands
  <1>7. Fits(Text(sign, cast, o.args), operands)
    BY <1>1, <1>2, <1>4, <1>5, <1>6 DEF Fits
  <1> QED BY <1>7 DEF operands

LEMMA Single ==
  ASSUME NEW S, NEW x \in S
  PROVE  <<x>> \in Seq(S) /\ Len(<<x>>) = 1 /\ <<x>>[1] = x
  OBVIOUS

(* A text that binds nothing.                                              *)
LEMMA FitsNothing ==
  ASSUME NEW sign, NEW cast
  PROVE  Fits(Text(sign, cast, <<>>), <<>>)
  <1>1. /\ <<>> \in Seq(Values) /\ <<>> \in Seq(Characters) /\ <<>> \in Seq(Seq(Characters))
        /\ Len(<<>>) = 0
    BY EmptySeq
  <1>2. Text(sign, cast, <<>>).binds = <<>> /\ Text(sign, cast, <<>>).around = <<>>
    BY DEF Text
  <1> DEFINE t == Text(sign, cast, <<>>)
  <1> HIDE DEF t
  <1>3. ASSUME NEW k \in 1 .. Len(t.binds) PROVE FALSE
    BY <1>1, <1>2 DEF t
  <1>4. t.binds \in Seq(Values) /\ t.around \in Seq(Characters) /\ Len(t.binds) = 0
    BY <1>1, <1>2 DEF t
  <1>5. Fits(t, <<>>)
    BY <1>1, <1>3, <1>4 DEF Fits
  <1> QED BY <1>5 DEF t

(* A text that binds one value.                                            *)
LEMMA FitsOne ==
  ASSUME NEW text, NEW value \in Values, text.binds = <<value>>, text.around \in Seq(Characters),
         NEW operand, operand = text.around \o value[2] \o text.around
  PROVE  Fits(text, <<operand>>)
  <1>1. text.binds \in Seq(Values) /\ Len(text.binds) = 1 /\ text.binds[1] = value
    BY Single
  <1>2. operand \in Seq(Characters)
    <2>1. value[2] \in Seq(Characters)
      BY DEF Values
    <2> QED BY <2>1, ConcatProperties
  <1> DEFINE operands == <<operand>>
  <1>3. operands \in Seq(Seq(Characters)) /\ Len(operands) = 1 /\ operands[1] = operand
    BY <1>2, Single
  <1> HIDE DEF operands
  <1>4. ASSUME NEW k \in 1 .. Len(text.binds)
        PROVE  operands[k] = text.around \o text.binds[k][2] \o text.around
    <2>1. k = 1 /\ text.binds[k] = value
      BY <1>1
    <2> QED BY <2>1, <1>3
  <1>5. Fits(text, operands)
    BY <1>1, <1>3, <1>4 DEF Fits
  <1> QED BY <1>5 DEF operands

-----------------------------------------------------------------------------
(* The names of the operators, group by group.                             *)
LEMMA Groups ==
  /\ DOMAIN Comparisons = {"Eq", "Neq", "Gt", "Gte", "Lt", "Lte"}
  /\ DOMAIN Lists = {"In", "Nin", "ArrayOverlaps"}
  /\ DOMAIN Arrays = {"ArrayContains", "ArrayContainedBy"}
  /\ DOMAIN Lengths = {"LenEq", "LenGt", "LenGte", "LenLt", "LenLte"}
  /\ DOMAIN Patterns = {"Contains", "Icontains", "Startswith", "Endswith", "Like", "Ilike"}
  /\ DOMAIN Distances = {"L2Distance", "CosineDistance", "InnerProduct", "JaccardDistance"}
  /\ DOMAIN Searches = {"Matches", "PlainQuery", "PhraseQuery", "WebsearchQuery"}
  /\ DOMAIN Families = {"IsIPv4", "IsIPv6", "IsPrivate", "IsLoopback"}
  /\ DOMAIN Networks = {"InSubnet", "ContainsSubnet", "ContainsIP", "IPRangeOverlap"}
  BY DEF Comparisons, Lists, Arrays, Lengths, Patterns, Distances, Searches, Families, Networks

(* An operator that means the values it is given.                          *)
Plain(o) ==
  /\ o.op \notin {"Contains", "Icontains", "Startswith", "Endswith"}
  /\ ~(o.op \in {"Eq", "Neq"} /\ o.args[1][1] = "null")

LEMMA OperandsPlain ==
  ASSUME NEW o, Plain(o)
  PROVE  Operands(o) = [i \in DOMAIN o.args |-> o.args[i][2]]
  BY DEF Operands, Plain

(* The only operand of an operator that has one.                           *)
LEMMA OnlyOperand ==
  ASSUME NEW o \in Operators, o.op \in Unary
  PROVE  /\ o.args \in Seq(Values) /\ Len(o.args) = 1
         /\ o.args[1] \in Values /\ o.args[1][2] \in Seq(Characters) /\ o.args = <<o.args[1]>>
  <1>1. o.args \in Seq(Values) /\ Len(o.args) = 1
    BY Given, OperatorsAssumption, Groups DEF Unary, Nullary
  <1>2. o.args[1] \in Values
    BY <1>1, ElementOfSeq
  <1>3. o.args = <<o.args[1]>>
    BY <1>1
  <1> QED BY <1>1, <1>2, <1>3 DEF Values

LEMMA NoOperand ==
  ASSUME NEW o \in Operators, o.op \in Nullary
  PROVE  o.args = <<>> /\ Operands(o) = <<>>
  <1>1. o.args = <<>>
    BY OperatorsAssumption, Groups DEF Unary, Nullary
  <1>2. Operands(o) = [i \in DOMAIN o.args |-> o.args[i][2]]
    BY OperandsPlain, Groups DEF Plain, Nullary
  <1>3. [i \in DOMAIN <<>> |-> <<>>[i][2]] = <<>>
    OBVIOUS
  <1> QED BY <1>1, <1>2, <1>3

LEMMA ComparisonMeans ==
  ASSUME NEW o \in Operators, o.op \in DOMAIN Comparisons
  PROVE  Fits(GenerateComparison(o), Operands(o))
  <1>1. /\ o.args = <<o.args[1]>> /\ o.args[1] \in Values
        /\ o.op \in {"Eq", "Neq", "Gt", "Gte", "Lt", "Lte"}
    BY OnlyOperand, Groups DEF Unary
  <1>2. CASE o.op \in {"Eq", "Neq"} /\ o.args[1][1] = "null"
    <2>1. Operands(o) = <<>>
      BY <1>2 DEF Operands
    <2>2. GenerateComparison(o) \in {Text("IS NULL", "", <<>>), Text("IS NOT NULL", "", <<>>)}
      BY <1>2 DEF GenerateComparison
    <2> QED BY <2>1, <2>2, FitsNothing
  <1>3. CASE ~(o.op \in {"Eq", "Neq"} /\ o.args[1][1] = "null")
    <2>1. Operands(o) = [i \in DOMAIN o.args |-> o.args[i][2]]
      BY <1>1, <1>3, OperandsPlain DEF Plain
    <2>2. GenerateComparison(o)
            = Text(Comparisons[o.op], InferTypeCast(o.field, o.args[1]), o.args)
      BY <1>1, <1>3 DEF GenerateComparison
    <2> QED BY <2>1, <2>2, FitsAsGiven
  <1> QED BY <1>2, <1>3

LEMMA ArrayMeans ==
  ASSUME NEW o \in Operators, o.op \in DOMAIN Lists \cup DOMAIN Arrays
  PROVE  Fits(GenerateArray(o), Operands(o))
  <1>1. Operands(o) = [i \in DOMAIN o.args |-> o.args[i][2]]
    BY OperandsPlain, Groups DEF Plain
  <1>2. CASE o.op \in DOMAIN Lists
    <2>1. PICK cast : GenerateArray(o) = Text(Lists[o.op], cast, o.args)
      BY <1>2 DEF GenerateArray
    <2> QED BY <1>1, <2>1, FitsAsGiven
  <1>3. CASE o.op \notin DOMAIN Lists
    <2>1. PICK cast : GenerateArray(o) = Text(Arrays[o.op], cast, o.args)
      BY <1>3 DEF GenerateArray
    <2> QED BY <1>1, <2>1, FitsAsGiven
  <1> QED BY <1>2, <1>3

LEMMA PatternMeans ==
  ASSUME NEW o \in Operators, o.op \in DOMAIN Patterns
  PROVE  Fits(GeneratePattern(o), Operands(o))
  <1> DEFINE pieces == o.args[1][2]
             bound == CASE o.op = "Startswith" -> pieces \o <<"%">>
                        [] o.op = "Endswith" -> <<"%">> \o pieces
                        [] OTHER -> pieces
             around == IF o.op \in {"Contains", "Icontains"} THEN <<"%">> ELSE <<>>
  <1>1. o.args[1] \in Values /\ pieces \in Seq(Characters) /\ o.args = <<o.args[1]>>
    BY OnlyOperand DEF Unary
  <1>2. o.op \in {"Contains", "Icontains", "Startswith", "Endswith", "Like", "Ilike"}
    BY Groups
  <1>3. /\ bound \in Seq(Characters)
        /\ <<"string", bound>> \in Values /\ <<"string", bound>>[2] = bound
    <2>1. <<"%">> \in Seq(Characters)
      BY DEF Characters
    <2>2. pieces \o <<"%">> \in Seq(Characters) /\ <<"%">> \o pieces \in Seq(Characters)
      BY <1>1, <2>1, ConcatProperties
    <2>3. bound \in Seq(Characters)
      BY <1>1, <2>2
    <2> HIDE DEF bound
    <2> QED BY <2>3 DEF Values, Types
  <1>4. /\ GeneratePattern(o).binds = <<<<"string", bound>>>>
        /\ GeneratePattern(o).around = around
    BY DEF GeneratePattern, Text
  <1>5. around \in Seq(Characters)
    <2>1. "%" \in Characters
      BY DEF Characters
    <2>2. <<"%">> \in Seq(Characters) /\ <<>> \in Seq(Characters)
      BY <2>1, Single, EmptySeq
    <2> QED BY <2>2
  <1>6. Operands(o) = <<around \o bound \o around>>
    <2>1. CASE o.op \in {"Contains", "Icontains"}
      BY <2>1 DEF Operands
    <2>2. CASE o.op = "Startswith"
      <3>1. bound = pieces \o <<"%">> /\ around = <<>> /\ Operands(o) = <<pieces \o <<"%">>>>
        BY <2>2 DEF Operands
      <3> QED BY <3>1, <1>3, Surrounded
    <2>3. CASE o.op = "Endswith"
      <3>1. bound = <<"%">> \o pieces /\ around = <<>> /\ Operands(o) = <<<<"%">> \o pieces>>
        BY <2>3 DEF Operands
      <3> QED BY <3>1, <1>3, Surrounded
    <2>4. CASE o.op \in {"Like", "Ilike"}
      <3>1. bound = pieces /\ around = <<>>
        BY <2>4
      <3>2. Operands(o) = [i \in DOMAIN o.args |-> o.args[i][2]]
        BY <2>4, OperandsPlain DEF Plain
      <3>3. [i \in DOMAIN o.args |-> o.args[i][2]] = <<pieces>>
        BY <1>1
      <3> QED BY <3>1, <3>2, <3>3, <1>3, Surrounded
    <2> QED BY <2>1, <2>2, <2>3, <2>4, <1>2
  <1> HIDE DEF bound, around
  <1> QED BY <1>3, <1>4, <1>5, <1>6, FitsOne

LEMMA DistanceMeans ==
  ASSUME NEW o \in Operators, o.op \in DOMAIN Distances
  PROVE  Fits(GenerateDistance(o), Operands(o))
  <1> DEFINE kind == IF o.op = "JaccardDistance" THEN "array" ELSE "floats"
             pieces == o.args[1][2]
  <1>1. pieces \in Seq(Characters) /\ o.args = <<o.args[1]>>
    BY OnlyOperand DEF Unary
  <1>2. <<kind, pieces>> \in Values /\ <<kind, pieces>>[2] = pieces
    BY <1>1 DEF Values, Types
  <1>3. /\ GenerateDistance(o).binds = <<<<kind, pieces>>>>
        /\ GenerateDistance(o).around = <<>>
    BY DEF GenerateDistance, Text
  <1>4. Operands(o) = <<pieces>>
    <2>1. Operands(o) = [i \in DOMAIN o.args |-> o.args[i][2]]
      BY OperandsPlain, Groups DEF Plain
    <2> QED BY <2>1, <1>1
  <1>5. <<>> \in Seq(Characters) /\ pieces = <<>> \o pieces \o <<>>
    BY <1>1, EmptySeq, Surrounded
  <1> HIDE DEF kind, pieces
  <1> QED BY <1>2, <1>3, <1>4, <1>5, FitsOne

LEMMA SearchMeans ==
  ASSUME NEW o \in Operators, o.op \in DOMAIN Searches
  PROVE  Fits(GenerateSearch(o), Operands(o))
  <1>1. Operands(o) = [i \in DOMAIN o.args |-> o.args[i][2]]
    BY OperandsPlain, Groups DEF Plain
  <1>2. PICK cast : GenerateSearch(o) = Text(Searches[o.op], cast, o.args)
    BY DEF GenerateSearch
  <1> QED BY <1>1, <1>2, FitsAsGiven

LEMMA NetworkMeans ==
  ASSUME NEW o \in Operators, o.op \in DOMAIN Families \cup DOMAIN Networks
  PROVE  Fits(GenerateNetwork(o), Operands(o))
  <1>1. CASE o.op \in DOMAIN Families
    <2>1. Operands(o) = <<>>
      BY <1>1, NoOperand DEF Nullary
    <2>2. PICK cast : GenerateNetwork(o) = Text(Families[o.op], cast, <<>>)
      BY <1>1 DEF GenerateNetwork
    <2> QED BY <2>1, <2>2, FitsNothing
  <1>2. CASE o.op \notin DOMAIN Families
    <2>1. Operands(o) = [i \in DOMAIN o.args |-> o.args[i][2]]
      BY <1>2, OperandsPlain, Groups DEF Plain
    <2>2. PICK cast : GenerateNetwork(o) = Text(Networks[o.op], cast, o.args)
      BY <1>2 DEF GenerateNetwork
    <2> QED BY <2>1, <2>2, FitsAsGiven
  <1> QED BY <1>1, <1>2

LEMMA LengthMeans ==
  ASSUME NEW o \in Operators, o.op \in DOMAIN Lengths
  PROVE  Fits(GenerateLength(o), Operands(o))
  <1>1. Operands(o) = <<>>
    BY NoOperand DEF Nullary
  <1>2. PICK cast : GenerateLength(o) = Text(Lengths[o.op], cast, <<>>)
    BY DEF GenerateLength
  <1> QED BY <1>1, <1>2, FitsNothing

LEMMA NullMeans ==
  ASSUME NEW o \in Operators, o.op = "IsNull"
  PROVE  Fits(GenerateNull(o), Operands(o))
  <1>1. Operands(o) = <<>>
    BY NoOperand DEF Nullary
  <1>2. PICK sign, cast : GenerateNull(o) = Text(sign, cast, <<>>)
    BY DEF GenerateNull
  <1> QED BY <1>1, <1>2, FitsNothing

(* Every operator becomes what it means.                                   *)
LEMMA GenerateMeans ==
  ASSUME NEW o \in Operators
  PROVE  Fits(Generate(o), Operands(o))
  <1>1. CASE o.op \in DOMAIN Comparisons
    <2>1. Generate(o) = GenerateComparison(o)
      BY <1>1, Groups DEF Generate
    <2> QED BY <2>1, <1>1, ComparisonMeans
  <1>2. CASE o.op \in DOMAIN Lists \cup DOMAIN Arrays
    <2>1. Generate(o) = GenerateArray(o)
      BY <1>2, Groups DEF Generate
    <2> QED BY <2>1, <1>2, ArrayMeans
  <1>3. CASE o.op \in DOMAIN Lengths
    <2>1. Generate(o) = GenerateLength(o)
      BY <1>3, Groups DEF Generate
    <2> QED BY <2>1, <1>3, LengthMeans
  <1>4. CASE o.op \in DOMAIN Patterns
    <2>1. Generate(o) = GeneratePattern(o)
      BY <1>4, Groups DEF Generate
    <2> QED BY <2>1, <1>4, PatternMeans
  <1>5. CASE o.op = "IsNull"
    <2>1. Generate(o) = GenerateNull(o)
      BY <1>5, Groups DEF Generate
    <2> QED BY <2>1, <1>5, NullMeans
  <1>6. CASE o.op \in DOMAIN Distances
    <2>1. Generate(o) = GenerateDistance(o)
      BY <1>6, Groups DEF Generate
    <2> QED BY <2>1, <1>6, DistanceMeans
  <1>7. CASE o.op \in DOMAIN Searches
    <2>1. Generate(o) = GenerateSearch(o)
      BY <1>7, Groups DEF Generate
    <2> QED BY <2>1, <1>7, SearchMeans
  <1>8. CASE o.op \in DOMAIN Families \cup DOMAIN Networks
    <2>1. Generate(o) = GenerateNetwork(o)
      BY <1>8, Groups DEF Generate
    <2> QED BY <2>1, <1>8, NetworkMeans
  <1> QED BY <1>1, <1>2, <1>3, <1>4, <1>5, <1>6, <1>7, <1>8, OperatorsAssumption DEF Unary, Nullary

-----------------------------------------------------------------------------
(* The predicates generated so far: each with the text of its operator.    *)
Entries ==
  [operator : Operators, field : {FieldSql(o.field) : o \in Operators},
   text : {Generate(o) : o \in Operators}, literal : {LiteralOf(o) : o \in Operators},
   holes : Seq(Nat)]

(* The numbering: the placeholders used are the numbers up to index, each  *)
(* in one place, where the parameter of that number belongs.               *)
InPlace ==
  \A i \in 1 .. Len(texts) :
    LET t == texts[i]
    IN  /\ t.text = Generate(t.operator)
        /\ Len(t.holes) = Len(t.text.binds)
        /\ \A k \in 1 .. Len(t.holes) :
             t.holes[k] \in 1 .. index /\ params[t.holes[k]] = t.text.binds[k]
Distinct ==
  \A i, j \in 1 .. Len(texts) : \A k \in 1 .. Len(texts[i].holes), l \in 1 .. Len(texts[j].holes) :
    texts[i].holes[k] = texts[j].holes[l] => i = j /\ k = l
AllUsed ==
  \A n \in 1 .. index :
    \E i \in 1 .. Len(texts) : \E k \in 1 .. Len(texts[i].holes) : texts[i].holes[k] = n
NumberingInv ==
  /\ texts \in Seq(Entries) /\ index \in Nat /\ DOMAIN params = 1 .. index
  /\ InPlace /\ Distinct /\ AllUsed

LEMMA NumberingInit == WhereInit => NumberingInv
  <1> SUFFICES ASSUME WhereInit PROVE NumberingInv
    OBVIOUS
  <1>1. texts = <<>> /\ params = <<>> /\ index = 0
    BY DEF WhereInit
  <1>2. texts \in Seq(Entries) /\ Len(texts) = 0
    BY <1>1, EmptySeq
  <1>3. DOMAIN params = 1 .. index
    BY <1>1
  <1> QED BY <1>1, <1>2, <1>3 DEF NumberingInv, InPlace, Distinct, AllUsed

(* The predicate a step adds, with placeholders from index + 1 on.         *)
EntryOf(o) ==
  [operator |-> o, field |-> FieldSql(o.field), text |-> Generate(o), literal |-> LiteralOf(o),
   holes |-> [i \in 1 .. Len(Generate(o).binds) |-> index + 1 + i - 1]]

LEMMA EntryType ==
  ASSUME NEW o \in Operators, index \in Nat
  PROVE  /\ EntryOf(o) \in Entries
         /\ Len(EntryOf(o).holes) = Len(Generate(o).binds) /\ Len(Generate(o).binds) \in Nat
         /\ \A k \in 1 .. Len(Generate(o).binds) : EntryOf(o).holes[k] = index + k
  <1> DEFINE count == Len(Generate(o).binds)
             holes == [i \in 1 .. count |-> index + 1 + i - 1]
  <1>1. count \in Nat
    BY GenerateMeans, LenProperties DEF Fits
  <1> HIDE DEF count
  <1>2. holes \in [1 .. count -> Nat]
    BY <1>1
  <1>3. \A k \in 1 .. count : holes[k] = index + k
    BY <1>1
  <1>4. holes \in Seq(Nat) /\ Len(holes) = count
    <2> HIDE DEF holes
    <2>1. holes \in Seq(Nat)
      BY <1>1, <1>2, SeqDef
    <2> QED BY <2>1, <1>1, <1>2, LenProperties
  <1> HIDE DEF holes
  <1>5. EntryOf(o) = [operator |-> o, field |-> FieldSql(o.field), text |-> Generate(o),
                      literal |-> LiteralOf(o), holes |-> holes]
    BY DEF EntryOf, holes, count
  <1>6. EntryOf(o) \in Entries
    BY <1>4, <1>5 DEF Entries
  <1>7. EntryOf(o).holes = holes
    BY <1>5
  <1> QED BY <1>1, <1>3, <1>4, <1>6, <1>7 DEF count

(* The numbers up to i, and the c after them.                              *)
LEMMA Extended ==
  ASSUME NEW i \in Nat, NEW c \in Nat
  PROVE  /\ (1 .. i) \cup (i + 1 .. i + 1 + c - 1) = 1 .. i + c
         /\ \A n \in 1 .. i : n \notin i + 1 .. i + 1 + c - 1
         /\ \A k \in 1 .. c : i + k \in i + 1 .. i + 1 + c - 1 /\ i + k - (i + 1) + 1 = k
  OBVIOUS

IsCount(count, o) == count = Len(Generate(o).binds)

(* What a step does, over an index that counts the parameters.             *)
LEMMA StepFacts ==
  ASSUME NumberingInv, NEW o \in Operators, GenerateWhereOperatorSql(o),
         NEW count, IsCount(count, o)
  PROVE  /\ texts' \in Seq(Entries) /\ Len(texts') = Len(texts) + 1 /\ Len(texts) \in Nat
         /\ \A i \in 1 .. Len(texts) : texts'[i] = texts[i]
         /\ texts'[Len(texts) + 1] = EntryOf(o)
         /\ count \in Nat /\ index \in Nat /\ index' = index + count
         /\ DOMAIN params' = 1 .. index'
         /\ \A n \in 1 .. index : params'[n] = params[n]
         /\ \A k \in 1 .. count : params'[index + k] = Generate(o).binds[k]
  <1>1. index \in Nat /\ texts \in Seq(Entries) /\ DOMAIN params = 1 .. index
    BY DEF NumberingInv
  <1>2. EntryOf(o) \in Entries /\ count \in Nat
    BY <1>1, EntryType DEF IsCount
  <1>3. texts' = Append(texts, EntryOf(o)) /\ index' = index + count
    BY DEF GenerateWhereOperatorSql, EntryOf, FirstPlaceholder, IsCount
  <1>4. params' = [n \in DOMAIN params \cup (index + 1 .. index + 1 + count - 1) |->
                     IF n \in index + 1 .. index + 1 + count - 1
                     THEN Generate(o).binds[n - (index + 1) + 1] ELSE params[n]]
    BY DEF GenerateWhereOperatorSql, FirstPlaceholder, IsCount
  <1>5. /\ texts' \in Seq(Entries) /\ Len(texts') = Len(texts) + 1 /\ Len(texts) \in Nat
        /\ \A i \in 1 .. Len(texts) : texts'[i] = texts[i]
        /\ texts'[Len(texts) + 1] = EntryOf(o)
    BY <1>1, <1>2, <1>3, AppendProperties, LenProperties
  <1> DEFINE new == index + 1 .. index + 1 + count - 1
  <1>a. /\ (1 .. index) \cup new = 1 .. index + count
        /\ \A n \in 1 .. index : n \notin new
        /\ \A k \in 1 .. count : index + k \in new /\ index + k - (index + 1) + 1 = k
    BY <1>1, <1>2
  <1>b. params' = [n \in 1 .. index + count |->
                     IF n \in new THEN Generate(o).binds[n - (index + 1) + 1] ELSE params[n]]
    BY <1>1, <1>4, <1>a
  <1> HIDE DEF new
  <1>6. DOMAIN params' = 1 .. index'
    BY <1>3, <1>b
  <1>7. ASSUME NEW n \in 1 .. index PROVE params'[n] = params[n]
    <2>1. n \in 1 .. index + count /\ n \notin new
      BY <1>1, <1>2, <1>a
    <2> QED BY <2>1, <1>b
  <1>8. ASSUME NEW k \in 1 .. count PROVE params'[index + k] = Generate(o).binds[k]
    <2> DEFINE n == index + k
    <2>1. n \in 1 .. index + count /\ n \in new /\ n - (index + 1) + 1 = k
      BY <1>1, <1>2, <1>a
    <2> HIDE DEF n
    <2>2. params'[n] = Generate(o).binds[k]
      BY <2>1, <1>b
    <2> QED BY <2>2 DEF n
  <1> QED BY <1>1, <1>2, <1>3, <1>5, <1>6, <1>7, <1>8

LEMMA NumberingGenerate ==
  ASSUME NumberingInv, NEW o \in Operators, GenerateWhereOperatorSql(o)
  PROVE  NumberingInv'
  <1> DEFINE m == Len(texts)
             e == EntryOf(o)
             binds == Generate(o).binds
             count == Len(binds)
  <1>1. /\ texts' \in Seq(Entries) /\ Len(texts') = m + 1 /\ m \in Nat
        /\ \A i \in 1 .. m : texts'[i] = texts[i]
        /\ texts'[m + 1] = e
        /\ count \in Nat /\ index \in Nat /\ index' = index + count
        /\ DOMAIN params' = 1 .. index'
        /\ \A n \in 1 .. index : params'[n] = params[n]
        /\ \A k \in 1 .. count : params'[index + k] = binds[k]
    BY StepFacts DEF IsCount
  <1>2. /\ e.text = Generate(e.operator) /\ e.text.binds = binds
        /\ Len(e.holes) = count
        /\ \A k \in 1 .. count : e.holes[k] = index + k
    BY EntryType DEF NumberingInv, EntryOf
  <1>3. /\ \A i \in 1 .. m :
             /\ texts[i].text = Generate(texts[i].operator)
             /\ Len(texts[i].holes) = Len(texts[i].text.binds)
             /\ \A k \in 1 .. Len(texts[i].holes) :
                  /\ texts[i].holes[k] \in 1 .. index
                  /\ params[texts[i].holes[k]] = texts[i].text.binds[k]
    BY DEF NumberingInv, InPlace
  <1> HIDE DEF m, e, binds, count
  <1>4. \A i \in 1 .. m + 1 : i \in 1 .. m \/ i = m + 1
    BY <1>1
  <1>5. InPlace'
    <2> SUFFICES ASSUME NEW i \in 1 .. m + 1
                 PROVE  /\ texts'[i].text = Generate(texts'[i].operator)
                        /\ Len(texts'[i].holes) = Len(texts'[i].text.binds)
                        /\ \A k \in 1 .. Len(texts'[i].holes) :
                             /\ texts'[i].holes[k] \in 1 .. index'
                             /\ params'[texts'[i].holes[k]] = texts'[i].text.binds[k]
      BY <1>1 DEF InPlace
    <2>1. CASE i \in 1 .. m
      <3>1. texts'[i] = texts[i]
        BY <2>1, <1>1
      <3>2. ASSUME NEW k \in 1 .. Len(texts[i].holes)
            PROVE  /\ texts[i].holes[k] \in 1 .. index'
                   /\ params'[texts[i].holes[k]] = texts[i].text.binds[k]
        <4>1. /\ texts[i].holes[k] \in 1 .. index
              /\ params[texts[i].holes[k]] = texts[i].text.binds[k]
          BY <2>1, <1>3
        <4> QED BY <4>1, <1>1
      <3> QED BY <2>1, <3>1, <3>2, <1>3
    <2>2. CASE i = m + 1
      <3>1. texts'[i] = e
        BY <2>2, <1>1
      <3>2. ASSUME NEW k \in 1 .. Len(e.holes)
            PROVE  e.holes[k] \in 1 .. index' /\ params'[e.holes[k]] = e.text.binds[k]
        <4>1. k \in 1 .. count /\ e.holes[k] = index + k /\ e.text.binds = binds
          BY <1>2
        <4>2. index + k \in 1 .. index'
          BY <4>1, <1>1
        <4>3. params'[index + k] = binds[k]
          BY <4>1, <1>1
        <4> QED BY <4>1, <4>2, <4>3
      <3>3. Len(e.holes) = Len(e.text.binds)
        BY <1>2 DEF count
      <3> QED BY <3>1, <3>2, <3>3, <1>2
    <2> QED BY <2>1, <2>2, <1>4
  <1>6. Distinct'
    <2> SUFFICES ASSUME NEW i \in 1 .. m + 1, NEW j \in 1 .. m + 1,
                        NEW k \in 1 .. Len(texts'[i].holes), NEW l \in 1 .. Len(texts'[j].holes),
                        texts'[i].holes[k] = texts'[j].holes[l]
                 PROVE  i = j /\ k = l
      BY <1>1 DEF Distinct
    <2>1. ASSUME NEW a \in 1 .. m, NEW b \in 1 .. Len(texts'[a].holes)
          PROVE  b \in 1 .. Len(texts[a].holes) /\ texts'[a].holes[b] = texts[a].holes[b]
                 /\ texts'[a].holes[b] \in 1 .. index
      BY <1>1, <1>3
    <2>2. ASSUME NEW b \in 1 .. Len(texts'[m + 1].holes)
          PROVE  b \in 1 .. count /\ texts'[m + 1].holes[b] = index + b
      BY <1>1, <1>2
    <2>3. CASE i \in 1 .. m /\ j \in 1 .. m
      <3>1. /\ k \in 1 .. Len(texts[i].holes) /\ texts'[i].holes[k] = texts[i].holes[k]
            /\ l \in 1 .. Len(texts[j].holes) /\ texts'[j].holes[l] = texts[j].holes[l]
        BY <2>1, <2>3
      <3>2. Distinct /\ i \in 1 .. Len(texts) /\ j \in 1 .. Len(texts)
        BY <2>3 DEF NumberingInv, m
      <3>3. texts[i].holes[k] = texts[j].holes[l]
        BY <3>1
      <3>4. \A b \in 1 .. Len(texts[i].holes), c \in 1 .. Len(texts[j].holes) :
              texts[i].holes[b] = texts[j].holes[c] => i = j /\ b = c
        BY <3>2 DEF Distinct
      <3> QED BY <3>1, <3>3, <3>4, Zenon
    <2>4. CASE i \in 1 .. m /\ j = m + 1
      <3>1. texts'[i].holes[k] \in 1 .. index /\ l \in 1 .. count /\ texts'[j].holes[l] = index + l
        BY <2>1, <2>2, <2>4
      <3> QED BY <3>1, <1>1
    <2>5. CASE i = m + 1 /\ j \in 1 .. m
      <3>1. texts'[j].holes[l] \in 1 .. index /\ k \in 1 .. count /\ texts'[i].holes[k] = index + k
        BY <2>1, <2>2, <2>5
      <3> QED BY <3>1, <1>1
    <2>6. CASE i = m + 1 /\ j = m + 1
      <3>1. /\ k \in 1 .. count /\ texts'[i].holes[k] = index + k
            /\ l \in 1 .. count /\ texts'[j].holes[l] = index + l
        BY <2>2, <2>6
      <3>2. index + k = index + l
        BY <3>1
      <3>3. k = l
        BY <3>1, <3>2, <1>1
      <3> QED BY <3>3, <2>6
    <2> QED BY <2>3, <2>4, <2>5, <2>6, <1>4
  <1>7. AllUsed'
    <2> SUFFICES ASSUME NEW n \in 1 .. index'
                 PROVE  \E i \in 1 .. m + 1 : \E k \in 1 .. Len(texts'[i].holes) :
                          texts'[i].holes[k] = n
      BY <1>1 DEF AllUsed
    <2>1. CASE n \in 1 .. index
      <3>1. PICK i \in 1 .. m : \E k \in 1 .. Len(texts[i].holes) : texts[i].holes[k] = n
        BY <2>1 DEF NumberingInv, AllUsed, m
      <3>2. texts'[i] = texts[i] /\ i \in 1 .. m + 1
        BY <1>1
      <3> QED BY <3>1, <3>2
    <2>2. CASE n \notin 1 .. index
      <3>1. n - index \in 1 .. count /\ index + (n - index) = n
        BY <2>2, <1>1
      <3>2. e.holes[n - index] = n /\ n - index \in 1 .. Len(e.holes)
        BY <3>1, <1>2
      <3>3. texts'[m + 1] = e /\ m + 1 \in 1 .. m + 1
        BY <1>1
      <3> QED BY <3>2, <3>3
    <2> QED BY <2>1, <2>2
  <1>8. index' \in Nat
    BY <1>1
  <1> QED BY <1>1, <1>5, <1>6, <1>7, <1>8 DEF NumberingInv

LEMMA NumberingStep == NumberingInv /\ [WhereNext]_whereVars => NumberingInv'
  <1> SUFFICES ASSUME NumberingInv, [WhereNext]_whereVars PROVE NumberingInv'
    OBVIOUS
  <1>1. CASE \E o \in Operators : GenerateWhereOperatorSql(o)
    BY <1>1, NumberingGenerate
  <1>2. CASE UNCHANGED <<index, params, texts>>
    BY <1>2 DEF NumberingInv, InPlace, Distinct, AllUsed
  <1>3. (\E c \in Clauses : OrderBySql(c)) \/ UNCHANGED whereVars
          => UNCHANGED <<index, params, texts>>
    BY DEF OrderBySql, whereVars
  <1> QED BY <1>1, <1>2, <1>3 DEF WhereNext

(* A predicate of the invariant, bound, is what its operator means.        *)
LEMMA NumberedMeans ==
  ASSUME NumberingInv
  PROVE  BoundAsMeant
  <1>1. /\ texts \in Seq(Entries) /\ DOMAIN texts = 1 .. Len(texts)
        /\ DOMAIN params = 1 .. index /\ InPlace /\ Distinct /\ AllUsed
    BY LenProperties DEF NumberingInv
  <1>2. ASSUME NEW i \in DOMAIN texts
        PROVE  DOMAIN texts[i].holes = 1 .. Len(texts[i].holes) /\ texts[i].operator \in Operators
    <2>1. texts[i] \in Entries
      BY <1>1, ElementOfSeq
    <2>2. texts[i].holes \in Seq(Nat) /\ texts[i].operator \in Operators
      BY <2>1 DEF Entries
    <2> QED BY <2>2, LenProperties
  <1>3. ASSUME NEW i \in DOMAIN texts PROVE Bound(texts[i]) = Operands(texts[i].operator)
    <2> DEFINE t == texts[i]
               operands == Operands(t.operator)
    <2>1. /\ t.text = Generate(t.operator) /\ Len(t.holes) = Len(t.text.binds)
          /\ \A k \in 1 .. Len(t.holes) : params[t.holes[k]] = t.text.binds[k]
      BY <1>1 DEF InPlace
    <2>2. Fits(t.text, operands)
      BY <1>2, <2>1, GenerateMeans
    <2>3. DOMAIN t.holes = 1 .. Len(t.holes)
      BY <1>2
    <2> HIDE DEF t, operands
    <2>4. operands \in [1 .. Len(t.holes) -> Seq(Characters)]
      BY <2>1, <2>2, LenProperties DEF Fits
    <2>5. \A k \in 1 .. Len(t.holes) :
            operands[k] = t.text.around \o params[t.holes[k]][2] \o t.text.around
      BY <2>1, <2>2 DEF Fits
    <2>6. operands = [k \in DOMAIN t.holes |->
                        t.text.around \o params[t.holes[k]][2] \o t.text.around]
      BY <2>3, <2>4, <2>5
    <2> QED BY <2>6 DEF Bound, t, operands
  <1>4. \A i, j \in DOMAIN texts : \A k \in DOMAIN texts[i].holes, l \in DOMAIN texts[j].holes :
          texts[i].holes[k] = texts[j].holes[l] => i = j /\ k = l
    BY <1>1, <1>2 DEF Distinct
  <1>5. \A i \in DOMAIN texts : \A k \in DOMAIN texts[i].holes : texts[i].holes[k] \in DOMAIN params
    BY <1>1, <1>2 DEF InPlace
  <1>6. \A n \in DOMAIN params :
          \E i \in DOMAIN texts : \E k \in DOMAIN texts[i].holes : texts[i].holes[k] = n
    BY <1>1, <1>2 DEF AllUsed
  <1> QED BY <1>3, <1>4, <1>5, <1>6 DEF BoundAsMeant

OrdersType == orders \in Seq(Clauses)

LEMMA OrdersStep == OrdersType /\ [WhereNext]_whereVars => OrdersType'
  <1> SUFFICES ASSUME orders \in Seq(Clauses), [WhereNext]_whereVars
               PROVE  orders' \in Seq(Clauses)
    BY DEF OrdersType
  <1>1. ASSUME NEW clause \in Clauses, OrderBySql(clause) PROVE orders' \in Seq(Clauses)
    BY <1>1, AppendProperties DEF OrderBySql
  <1>2. CASE UNCHANGED orders
    BY <1>2
  <1> QED BY <1>1, <1>2 DEF WhereNext, GenerateWhereOperatorSql, whereVars

(* The counter and the map of parameters are in step, and only operators   *)
(* and clauses that were asked for have been generated.                    *)
THEOREM WhereTyped == WhereSpec => []WhereType
  <1>1. WhereInit => OrdersType
    BY DEF WhereInit, OrdersType
  <1>2. NumberingInv /\ OrdersType => WhereType
    <2> SUFFICES ASSUME NumberingInv, orders \in Seq(Clauses) PROVE WhereType
      BY DEF OrdersType
    <2>1. \A i \in DOMAIN texts : texts[i].operator \in Operators
      <3>1. \A i \in DOMAIN texts : texts[i] \in Entries
        BY ElementOfSeq, LenProperties DEF NumberingInv
      <3> QED BY <3>1 DEF Entries
    <2>2. \A i \in DOMAIN orders : orders[i] \in Clauses
      BY ElementOfSeq, LenProperties
    <2> QED BY <2>1, <2>2 DEF NumberingInv, WhereType
  <1> QED BY <1>1, <1>2, NumberingInit, NumberingStep, OrdersStep, PTL DEF WhereSpec

(* Every predicate, with the parameters in the place of its placeholders,  *)
(* compares its field with what its operator means; no placeholder serves  *)
(* two places and no parameter is left over: for all operators, in every   *)
(* order and number.                                                       *)
THEOREM Meant == WhereSpec => []BoundAsMeant
  BY NumberingInit, NumberingStep, NumberedMeans, PTL DEF WhereSpec
=============================================================================
