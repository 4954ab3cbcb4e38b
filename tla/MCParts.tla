------------------------------ MODULE MCParts ------------------------------
(***************************************************************************)
(* The components that have no state in common with the others, on small   *)
(* instances: a behaviour is one of one component, chosen at the start,    *)
(* while the variables of the others keep their initial values.            *)
(***************************************************************************)
EXTENDS Framing, Encoding, AdaptiveChunking, WhereSql, Requests, MCLogin, TLC

VARIABLE part

partVars == <<part, framingVars, encodingVars, adaptiveVars, whereVars, requestVars, loginVars>>

Parts == {"framing", "encoding", "adaptive", "where", "requests", "login"}

PartsInit ==
  /\ part \in Parts
  /\ FramingInit /\ AdaptiveInit /\ WhereInit
  /\ IF part = "encoding" THEN EncodingInit
     ELSE asks = "trust" /\ sent = <<>> /\ wire = <<>> /\ seen = <<>>
  /\ RequestsInit
  /\ part # "requests" => stack = "query"
  /\ LoginInit
  /\ part # "login" => server = CHOOSE s \in Servers : TRUE

PartsNext ==
  /\ UNCHANGED part
  /\ \/ /\ part = "framing" /\ FramingNext
        /\ UNCHANGED <<encodingVars, adaptiveVars, whereVars, requestVars, loginVars>>
     \/ /\ part = "encoding" /\ EncodingNext
        /\ UNCHANGED <<framingVars, adaptiveVars, whereVars, requestVars, loginVars>>
     \/ /\ part = "adaptive" /\ AdaptiveNext
        /\ UNCHANGED <<framingVars, encodingVars, whereVars, requestVars, loginVars>>
     \/ /\ part = "where" /\ WhereNext
        /\ UNCHANGED <<framingVars, encodingVars, adaptiveVars, requestVars, loginVars>>
     \/ /\ part = "requests" /\ RequestsNext
        /\ UNCHANGED <<framingVars, encodingVars, adaptiveVars, whereVars, loginVars>>
     \/ /\ part = "login" /\ LoginNext
        /\ UNCHANGED <<framingVars, encodingVars, adaptiveVars, whereVars, requestVars>>

(* Of the components, a login alone has fairness, that of LoginSpec.       *)
PartsSpec ==
  /\ PartsInit /\ [][PartsNext]_partVars
  /\ WF_loginVars(part = "login" /\ ClientNext)
  /\ WF_loginVars(part = "login" /\ ServerNext)

(* The state of the first five has the type their modules give it; that of *)
(* Login is checked as LoginType.                                          *)
PartsType ==
  /\ part \in Parts
  /\ FramingType /\ EncodingType /\ AdaptiveType /\ WhereType /\ RequestsType

-----------------------------------------------------------------------------
(* Framing: one message of every kind the server sends, with an empty, a   *)
(* NULL and several values in a row, no mechanism and two, and one message *)
(* the decoder does not know.  Letters are the bytes 97 and 98.            *)
MCErrorFields ==
  [f \in KeptFields |-> IF f = 67 THEN <<<<97, 98>>>> ELSE IF f = 77 THEN <<<<>>>> ELSE <<>>]
MCDescription(name) ==
  [name |-> name, desc |-> [table |-> 0, column |-> 0, type |-> 3802, size |-> -1, modifier |-> -1,
                            format |-> 0]]
MCMessages ==
  {[kind |-> "auth", method |-> x[1], data |-> x[2]] :
     x \in {<<"ok", <<>>>>, <<"cleartext", <<>>>>, <<"md5", <<1, 0, 255, 2>>>>,
            <<"sasl", <<<<97, 98>>, <<98>>>>>>, <<"saslContinue", <<97, 0>>>>,
            <<"saslFinal", <<>>>>}}
  \cup {[kind |-> "keyData", process |-> 65536, secret |-> -2],
        [kind |-> "complete", tag |-> <<97>>],
        [kind |-> "dataRow", fields |-> <<<<<<97, 0>>>>, <<>>, <<<<>>>>>>],
        [kind |-> "error", fields |-> MCErrorFields],
        [kind |-> "notice", fields |-> [MCErrorFields EXCEPT ![67] = <<>>]],
        [kind |-> "paramStatus", name |-> <<97>>, value |-> <<>>],
        [kind |-> "ready", status |-> 73],
        [kind |-> "rowDesc", fields |-> <<MCDescription(<<97, 98>>)>>],
        [kind |-> "emptyQuery"]}

(* Encoding: empty strings and parameters, and bytes that are zero.        *)
MCRequests ==
  {[kind |-> "ssl"], [kind |-> "terminate"],
   [kind |-> "startup", params |-> <<>>],
   [kind |-> "startup", params |-> <<<<<<97>>, <<>>>>, <<<<98>>, <<97, 97>>>>>>],
   [kind |-> "password", password |-> <<>>], [kind |-> "password", password |-> <<97, 98>>],
   [kind |-> "query", query |-> <<>>], [kind |-> "query", query |-> <<97, 98>>],
   [kind |-> "saslInitial", mechanism |-> <<97>>, data |-> <<0, 97>>],
   [kind |-> "saslResponse", data |-> <<>>], [kind |-> "saslResponse", data |-> <<98, 0>>]}

(* AdaptiveChunking: a channel without capacity, empty, half full, full    *)
(* and fuller than that; bounds that do and do not make sense.             *)
MCObservations == {<<0, 0>>, <<0, 4>>, <<2, 4>>, <<9, 10>>, <<5, 4>>}
MCBounds == {<<0, 4>>, <<4, 2>>, <<1, 3>>, <<5, 9>>}

(* WhereSql: every operator, on fields of each source, with NULL, no value *)
(* and several values; a path with an invalid name.                        *)
MCField(source, path) == [source |-> source, path |-> path]
MCWord == <<"letter", "digit">>
MCJson == MCField("jsonb", <<MCWord>>)
MCPath == MCField("path", <<MCWord, <<"_">>>>)
MCColumn == MCField("column", <<MCWord>>)
MCOp(op, field, args, literal) == [op |-> op, field |-> field, args |-> args, literal |-> literal]
MCOperators ==
  {MCOp(op, MCJson, <<<<"number", <<"1">>>>>>, "") :
     op \in DOMAIN Comparisons \cup DOMAIN Arrays \cup DOMAIN Lists}
  \cup {MCOp(op, MCPath, <<<<"null", <<"NULL">>>>>>, "") : op \in {"Eq", "Neq", "Gt"}}
  \cup {MCOp(op, MCColumn, <<<<"string", <<"a">>>>, <<"null", <<"NULL">>>>>>, "") :
          op \in DOMAIN Lists}
  \cup {MCOp("In", MCColumn, <<>>, "")}
  \cup {MCOp(op, MCPath, <<<<"string", <<"a">>>>>>, "") :
          op \in DOMAIN Patterns \cup DOMAIN Searches \cup DOMAIN Networks}
  \cup {MCOp(op, MCPath, <<<<"array", <<"a", "b">>>>>>, "5") : op \in DOMAIN Distances}
  \cup {MCOp(op, MCColumn, <<>>, "2") : op \in DOMAIN Lengths}
  \cup {MCOp(op, MCColumn, <<>>, "") : op \in DOMAIN Families}
  \cup {MCOp("IsNull", MCJson, <<>>, b) : b \in {"true", "false"}}
  \cup {MCOp("Eq", MCField("path", <<MCWord, <<"digit">>>>), <<<<"bool", <<"true">>>>>>, "")}
MCClauses ==
  {[field |-> n, source |-> "jsonb", direction |-> "asc", collation |-> c, nulls |-> <<>>] :
     n \in {MCWord, <<>>, <<"letter", "other">>},
     c \in {<<>>, <<<<"letter", "mark">>>>, <<<<>>>>, <<<<"letter", "other">>>>}}

(* Requests: predicates whose text has no OR outside parentheses, a limit  *)
(* and offsets that cut, soft limits out of range and out of order.        *)
MCTable == <<2, 3, 1>>
MCSorted == <<1, 2, 3>>
MCFitting == {1, 3}
MCPredicates == {<<{1, 2}>>, <<{2, 3}>>}
MCRustPredicates == {{1, 3}}
MCCounts == {0, 2}
MCSoftLimits == {-10, 120, 150}
=============================================================================
