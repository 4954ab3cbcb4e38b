-------------------------- MODULE ConnectionProofs --------------------------
(***************************************************************************)
(* Theorems about Connection, for every bound on its startups, queries and *)
(* extra messages.                                                         *)
(***************************************************************************)
EXTENDS Connection, SequenceTheorems, TLAPS

-----------------------------------------------------------------------------
(* The awaits that write, and what follows them.                           *)
LEMMA SendsAre ==
  Sends = {"sendSsl", "sendStartup", "sendPassword", "sendSaslInitial", "sendSaslResponse",
           "sendQuery", "sendStreamQuery", "sendTerminate"}
  BY DEF Sends, Outgoing

LEMMA OutgoingIs ==
  /\ Outgoing["sendSsl"] = <<"ssl", "NegotiatingTls", "sslAnswer">>
  /\ Outgoing["sendStartup"] = <<"startup", "Authenticating", "auth">>
  /\ Outgoing["sendPassword"] = <<"password", "Authenticating", "auth">>
  /\ Outgoing["sendSaslInitial"] = <<"saslInitial", "Authenticating", "saslContinue">>
  /\ Outgoing["sendSaslResponse"] = <<"saslResponse", "Authenticating", "saslFinal">>
  /\ Outgoing["sendQuery"] = <<"query", "ReadingResults", "answer">>
  /\ Outgoing["sendStreamQuery"] = <<"query", "ReadingResults", "rowDesc">>
  /\ Outgoing["sendTerminate"] = <<"terminate", "Closed", "shutdown">>
  BY DEF Outgoing

(* What a write can put into the outbox.                                   *)
LEMMA OutgoingTyped ==
  \A p \in Sends : Outgoing[p][1] \in {Outgoing[s][1] : s \in Sends}
  OBVIOUS

-----------------------------------------------------------------------------
Phases == {"fresh", "handshake", "password", "sasl", "proof", "greeting", "idle", "answering",
           "closing", "gone"}
Kinds == Messages \cup Undecodable

(* What the server may answer a message with.                              *)
Answers == Seq(Kinds) \X Phases

(* What the server says is appended to the inbox.                          *)
LEMMA SaysTyped ==
  ASSUME inbox \in Seq(Envelopes), NEW kinds \in Seq(Kinds), NEW query \in Nat,
         Says(kinds, query)
  PROVE  inbox' \in Seq(Envelopes)
<1> DEFINE said == [i \in 1 .. Len(kinds) |-> [kind |-> kinds[i], query |-> query]]
<1>1. \A i \in 1 .. Len(kinds) : [kind |-> kinds[i], query |-> query] \in Envelopes
  BY DEF Envelopes, Kinds
<1>2. Len(kinds) \in Nat
  OBVIOUS
<1>3. said \in Seq(Envelopes)
  BY <1>1, <1>2, IsASeq
<1>4. inbox' = inbox \o said
  BY DEF Says
<1> QED
  BY <1>3, <1>4, ConcatProperties

-----------------------------------------------------------------------------
(* Type correctness.  TLS is negotiated on the transport the connection    *)
(* began with.                                                             *)
Plain ==
  /\ state = "Initial" => transport = "plain"
  /\ pc = "sendSsl" => state = "NegotiatingTls" /\ transport = "plain"

Awaits == Sends \cup Receives \cup {"sslAnswer", "upgrade", "shutdown", "free", "dropped",
                                   "streaming", "panicked"}

(* TypeOK by its parts: what a step of the client and of the server keep.  *)
ClientTyped ==
  /\ state \in States /\ transport \in {"plain", "tls", "none"} /\ pc \in Awaits
  /\ wantTls \in BOOLEAN /\ startups \in Nat /\ sent \in Nat
ServerTyped == asked \in Nat /\ extras \in Nat /\ server \in Phases
Words == {"ssl", "startup", "password", "saslInitial", "saslResponse", "query", "terminate"}
QueuesTyped == outbox \in Seq(Words) /\ inbox \in Seq(Envelopes)
Placed ==
  /\ pc \in {"upgrade", "sslAnswer"} => state = "NegotiatingTls" /\ transport = "plain"
  /\ pc \in {"answer", "rowDesc", "drainError", "streaming"} => state = "ReadingResults"

LEMMA WordsAre == Words = {Outgoing[s][1] : s \in Sends}
  BY SendsAre, OutgoingIs DEF Words

LEMMA TypeParts == TypeOK <=> ClientTyped /\ ServerTyped /\ QueuesTyped /\ Placed
  BY WordsAre, Zenon
  DEF TypeOK, ClientTyped, ServerTyped, QueuesTyped, Placed, Awaits, InCall, Phases

TInv == ClientTyped /\ ServerTyped /\ QueuesTyped /\ Placed /\ Plain

LEMMA TInvInit == Init => TInv
<1> SUFFICES ASSUME Init PROVE TInv
  OBVIOUS
<1>1. ClientTyped
  BY DEF Init, ClientTyped, States, Awaits
<1>2. ServerTyped
  BY DEF Init, ServerTyped, Phases
<1>3. QueuesTyped
  BY DEF Init, QueuesTyped
<1>4. Placed /\ Plain
  BY DEF Init, Placed, Plain
<1> QED
  BY <1>1, <1>2, <1>3, <1>4 DEF TInv

(* The server and the network leave the client alone.                      *)
LEMMA ServerKeepsTInv ==
  ASSUME TInv, UNCHANGED clientVars, ServerTyped', QueuesTyped'
  PROVE  TInv'
<1>1. ClientTyped' /\ Placed' /\ Plain'
  BY DEF TInv, clientVars, ClientTyped, Placed, Plain
<1> QED
  BY <1>1 DEF TInv

(* The server takes a message and answers.                                 *)
LEMMA TakesTyped ==
  ASSUME TInv, NEW phase, NEW message, NEW answers \in SUBSET Answers,
         Takes(phase, message, answers)
  PROVE  TInv'
<1>1. PICK a \in answers : Says(a[1], 0) /\ server' = a[2]
  BY DEF Takes
<1>2. a[1] \in Seq(Kinds) /\ a[2] \in Phases
  BY DEF Answers
<1>3. inbox' \in Seq(Envelopes)
  BY <1>1, <1>2, SaysTyped DEF TInv, QueuesTyped
<1>4. outbox' \in Seq(Words)
  BY HeadTailProperties DEF Takes, TInv, QueuesTyped
<1>5. ServerTyped'
  BY <1>1, <1>2 DEF Takes, TInv, ServerTyped
<1> QED
  BY <1>3, <1>4, <1>5, ServerKeepsTInv DEF Takes, QueuesTyped

(* The answers of the server are answers.                                  *)
LEMMA AnswersTyped ==
  /\ {<<<<"sslS">>, "handshake">>, <<<<"sslN">>, "fresh">>, Refusal} \subseteq Answers
  /\ {Welcome, <<<<"cleartext">>, "password">>, <<<<"md5">>, "password">>,
      <<<<"sasl">>, "sasl">>, <<<<"odd">>, "password">>, Refusal} \subseteq Answers
  /\ {<<<<"saslContinue">>, "proof">>, Refusal} \subseteq Answers
  /\ {<<<<"saslFinal", "authOk">>, "greeting">>, Refusal} \subseteq Answers
<1>1. \A k \in Kinds : <<k>> \in Seq(Kinds)
  OBVIOUS
<1>2. {"sslS", "sslN", "authOk", "cleartext", "md5", "sasl", "odd", "saslContinue", "saslFinal",
       "error"} \subseteq Kinds
  BY DEF Kinds, Messages, Undecodable
<1>3. <<"saslFinal", "authOk">> \in Seq(Kinds)
  BY <1>2
<1>4. \A q \in Seq(Kinds), f \in Phases : <<q, f>> \in Answers
  BY DEF Answers
<1>5. {"handshake", "fresh", "password", "sasl", "proof", "greeting", "gone"} \subseteq Phases
  BY DEF Phases
<1>6. Refusal \in Answers /\ Welcome \in Answers
  BY <1>1, <1>2, <1>4, <1>5 DEF Refusal, Welcome
<1> QED
  BY <1>1, <1>2, <1>3, <1>4, <1>5, <1>6

LEMMA ServerTInv ==
  ASSUME TInv, Server \/ ServerExtra \/ ConnectionLost
  PROVE  TInv'
<1> USE DEF TInv
<1>1. CASE ServerSsl
  BY <1>1, TakesTyped, AnswersTyped DEF ServerSsl
<1>2. CASE ServerStartup
  BY <1>2, TakesTyped, AnswersTyped DEF ServerStartup
<1>3. CASE ServerPassword
  <2>1. {Welcome, Refusal} \subseteq Answers
    BY AnswersTyped
  <2> QED
    BY <1>3, <2>1, TakesTyped DEF ServerPassword
<1>4. CASE ServerSasl
  BY <1>4, TakesTyped, AnswersTyped DEF ServerSasl
<1>5. CASE ServerProof
  BY <1>5, TakesTyped, AnswersTyped DEF ServerProof
<1>6. CASE ServerGreets
  <2>1. <<"key", "ready">> \in Seq(Kinds)
    BY DEF Kinds, Messages
  <2>2. QueuesTyped'
    BY <1>6, <2>1, SaysTyped DEF ServerGreets, QueuesTyped
  <2>3. ServerTyped'
    BY <1>6 DEF ServerGreets, ServerTyped, Phases
  <2> QED
    BY <1>6, <2>2, <2>3, ServerKeepsTInv DEF ServerGreets
<1>7. CASE ServerQuery
  <2>1. \A k \in {"rowDesc", "complete", "error"} : <<k>> \in Seq(Kinds)
    BY DEF Kinds, Messages
  <2>2. asked' \in Nat
    BY <1>7 DEF ServerQuery, ServerTyped
  <2>3. inbox' \in Seq(Envelopes)
    BY <1>7, <2>1, <2>2, SaysTyped DEF ServerQuery, QueuesTyped
  <2>4. outbox' \in Seq(Words)
    BY <1>7, HeadTailProperties DEF ServerQuery, QueuesTyped
  <2>5. ServerTyped'
    BY <1>7, <2>2 DEF ServerQuery, ServerTyped, Phases
  <2> QED
    BY <1>7, <2>3, <2>4, <2>5, ServerKeepsTInv DEF ServerQuery, QueuesTyped
<1>8. CASE ServerFinishes
  <2>1. \A k \in {"complete", "error", "ready"} : <<k>> \in Seq(Kinds)
    BY DEF Kinds, Messages
  <2>2. QueuesTyped'
    BY <1>8, <2>1, SaysTyped DEF ServerFinishes, QueuesTyped, ServerTyped
  <2>3. ServerTyped'
    BY <1>8 DEF ServerFinishes, ServerTyped, Phases
  <2> QED
    BY <1>8, <2>2, <2>3, ServerKeepsTInv DEF ServerFinishes
<1>9. CASE ServerTerminate
  <2>1. QueuesTyped'
    BY <1>9, HeadTailProperties DEF ServerTerminate, QueuesTyped
  <2>2. ServerTyped'
    BY <1>9 DEF ServerTerminate, ServerTyped, Phases
  <2> QED
    BY <1>9, <2>1, <2>2, ServerKeepsTInv DEF ServerTerminate
<1>10. CASE ServerExtra
  <2>1. \A k \in {"row", "notice", "param", "odd"} : <<k>> \in Seq(Kinds)
    BY DEF Kinds, Messages, Undecodable
  <2>2. QueuesTyped'
    BY <1>10, <2>1, SaysTyped DEF ServerExtra, QueuesTyped, ServerTyped
  <2>3. ServerTyped'
    BY <1>10 DEF ServerExtra, ServerTyped
  <2> QED
    BY <1>10, <2>2, <2>3, ServerKeepsTInv DEF ServerExtra
<1>11. CASE ConnectionLost
  <2>1. \A n \in 0 .. Len(inbox) : SubSeq(inbox, 1, n) \in Seq(Envelopes)
    BY DEF QueuesTyped
  <2>2. QueuesTyped'
    BY <1>11, <2>1 DEF ConnectionLost, QueuesTyped
  <2>3. ServerTyped'
    BY <1>11 DEF ConnectionLost, ServerTyped, Phases
  <2> QED
    BY <1>11, <2>2, <2>3, ServerKeepsTInv DEF ConnectionLost
<1> QED
  BY <1>1, <1>2, <1>3, <1>4, <1>5, <1>6, <1>7, <1>8, <1>9, <1>10, <1>11 DEF Server

(* A step of the client that leaves the server alone and at most consumes  *)
(* a message, turns one into another or writes one.                        *)
LEMMA ClientKeepsTInv ==
  ASSUME TInv, UNCHANGED serverVars, ClientTyped', Placed', Plain', QueuesTyped'
  PROVE  TInv'
  BY DEF TInv, serverVars, ServerTyped

LEMMA ReceiveTyped ==
  ASSUME TInv, NEW at, NEW kinds, Receive(at, kinds)
  PROVE  QueuesTyped'
  BY HeadTailProperties DEF TInv, QueuesTyped, Receive

(* What a call returns into.                                               *)
LEMMA ReturnTyped ==
  ASSUME NEW r, Return(r)
  PROVE  pc' \in {"free", "dropped"} /\ pc' \in Awaits
  BY DEF Return, Awaits

LEMMA ReturnKeepsTInv ==
  ASSUME TInv, NEW r, Return(r), UNCHANGED <<state, transport, startups, sent>>,
         wantTls' \in BOOLEAN, UNCHANGED serverVars, QueuesTyped'
  PROVE  TInv'
<1>1. pc' \in {"free", "dropped"} /\ pc' \in Awaits
  BY ReturnTyped
<1>2. ClientTyped' /\ Placed' /\ Plain'
  BY <1>1 DEF TInv, ClientTyped, Placed, Plain
<1> QED
  BY <1>2, ClientKeepsTInv

LEMMA SendTInv ==
  ASSUME TInv, SendMessage
  PROVE  TInv'
<1> DEFINE step == Outgoing[pc]
<1>1. step[1] \in Words /\ step[2] \in States /\ step[3] \in Awaits
  BY SendsAre, OutgoingIs DEF SendMessage, Words, States, Awaits, Receives
<1>2. QueuesTyped'
  BY <1>1, AppendProperties DEF SendMessage, TInv, QueuesTyped
<1>3. ClientTyped'
  BY <1>1 DEF SendMessage, TInv, ClientTyped
<1>4. Placed'
  BY SendsAre, OutgoingIs DEF SendMessage, TInv, Placed, Plain
<1>5. Plain'
  BY SendsAre, OutgoingIs DEF SendMessage, TInv, Plain
<1> QED
  BY <1>2, <1>3, <1>4, <1>5, ClientKeepsTInv DEF SendMessage

LEMMA ProgressTInv ==
  ASSUME TInv, Progress
  PROVE  TInv'
<1>1. CASE SendMessage
  BY <1>1, SendTInv
<1>2. CASE SendFails
  <2>1. CASE pc = "sendTerminate"
    <3>1. ClientTyped' /\ Placed' /\ Plain' /\ QueuesTyped'
      BY <1>2, <2>1 DEF SendFails, TInv, ClientTyped, Placed, Plain, QueuesTyped, Awaits
    <3> QED
      BY <1>2, <3>1, ClientKeepsTInv DEF SendFails
  <2>2. CASE pc # "sendTerminate"
    BY <1>2, <2>2, ReturnKeepsTInv DEF SendFails, TInv, ClientTyped, QueuesTyped
  <2> QED
    BY <2>1, <2>2
<1>3. CASE SendPanics
  <2>1. ClientTyped' /\ Placed' /\ Plain' /\ QueuesTyped'
    BY <1>3 DEF SendPanics, TInv, ClientTyped, Placed, Plain, QueuesTyped, Awaits
  <2> QED
    BY <1>3, <2>1, ClientKeepsTInv DEF SendPanics
<1>4. CASE ReceiveClosed
  BY <1>4, ReturnKeepsTInv DEF ReceiveClosed, TInv, ClientTyped, QueuesTyped
<1>5. CASE SslAnswer
  <2>1. CASE Receive("sslAnswer", {"sslS"}) /\ pc' = "upgrade" /\ UNCHANGED result
    <3>1. ClientTyped' /\ Placed' /\ Plain'
      BY <1>5, <2>1 DEF SslAnswer, Receive, TInv, ClientTyped, Placed, Plain, Awaits
    <3> QED
      BY <2>1, <3>1, ReceiveTyped, ClientKeepsTInv DEF Receive
  <2>2. CASE Receive("sslAnswer", {"sslN"}) /\ Return("config")
    BY <1>5, <2>2, ReceiveTyped, ReturnKeepsTInv DEF SslAnswer, Receive, TInv, ClientTyped
  <2>3. CASE /\ pc = "sslAnswer" /\ inbox # <<>> /\ Head(inbox).kind \in Messages
             /\ inbox' = [inbox EXCEPT ![1].kind = "odd"]
             /\ Return("protocol")
             /\ UNCHANGED <<transport, wantTls, startups, sent, outbox, serverVars>>
    <3>1. 1 \in 1 .. Len(inbox) /\ inbox[1] \in Envelopes
      BY <2>3 DEF TInv, QueuesTyped
    <3>2. [inbox[1] EXCEPT !.kind = "odd"] \in Envelopes
      BY <3>1 DEF Envelopes, Undecodable
    <3>3. inbox' = [inbox EXCEPT ![1] = [inbox[1] EXCEPT !.kind = "odd"]]
      BY <2>3
    <3>4. QueuesTyped'
      BY <2>3, <3>1, <3>2, <3>3, ExceptSeq DEF TInv, QueuesTyped
    <3> QED
      BY <1>5, <2>3, <3>4, ReturnKeepsTInv DEF SslAnswer, TInv, ClientTyped
  <2> QED
    BY <1>5, <2>1, <2>2, <2>3 DEF SslAnswer
<1>6. CASE SslClosed
  BY <1>6, ReturnKeepsTInv DEF SslClosed, TInv, ClientTyped, QueuesTyped
<1>7. CASE Upgrade
  <2>1. ClientTyped' /\ ServerTyped' /\ QueuesTyped' /\ Placed' /\ Plain'
    BY <1>7 DEF Upgrade, TInv, ClientTyped, ServerTyped, QueuesTyped, Placed, Plain, Awaits,
                States, Phases, Sends, Outgoing
  <2> QED
    BY <2>1 DEF TInv
<1>8. CASE UpgradeFails
  <2>1. pc' \in {"free", "dropped"} /\ pc' \in Awaits
    BY <1>8, ReturnTyped DEF UpgradeFails
  <2>2. state = "NegotiatingTls"
    BY <1>8 DEF UpgradeFails, TInv, Placed
  <2>3. ClientTyped' /\ Placed' /\ Plain'
    BY <1>8, <2>1, <2>2 DEF UpgradeFails, TInv, ClientTyped, Placed, Plain
  <2>4. ServerTyped' /\ QueuesTyped'
    BY <1>8 DEF UpgradeFails, TInv, ServerTyped, QueuesTyped, Phases
  <2> QED
    BY <2>3, <2>4 DEF TInv
<1>9. CASE Auth
  <2>1. CASE \E r \in {"authentication", "protocol"} : Return(r) /\ UNCHANGED state
    BY <1>9, <2>1, ReceiveTyped, ReturnKeepsTInv DEF Auth, Receive, TInv, ClientTyped
  <2>2. CASE UNCHANGED <<state, pc, result>>
    <3>1. ClientTyped' /\ Placed' /\ Plain'
      BY <1>9, <2>2 DEF Auth, Receive, TInv, ClientTyped, Placed, Plain
    <3> QED
      BY <1>9, <3>1, ReceiveTyped, ClientKeepsTInv DEF Auth, Receive
  <2>3. CASE pc' \in {"sendPassword", "sendSaslInitial"} /\ UNCHANGED state
    <3>1. ClientTyped' /\ Placed' /\ Plain'
      BY <1>9, <2>3, SendsAre DEF Auth, Receive, TInv, ClientTyped, Placed, Plain, Awaits
    <3> QED
      BY <1>9, <3>1, ReceiveTyped, ClientKeepsTInv DEF Auth, Receive
  <2>4. CASE Receive("auth", {"ready"}) /\ state' = "Idle" /\ Return("ok")
    <3>1. ClientTyped' /\ Placed' /\ Plain'
      BY <2>4, ReturnTyped DEF Receive, TInv, ClientTyped, Placed, Plain, States
    <3> QED
      BY <2>4, <3>1, ReceiveTyped, ClientKeepsTInv DEF Receive
  <2> QED
    BY <1>9, <2>1, <2>2, <2>3, <2>4 DEF Auth
<1>10. CASE Sasl
  <2>1. CASE \E r \in {"authentication", "protocol"} : Return(r)
    BY <1>10, <2>1, ReceiveTyped, ReturnKeepsTInv DEF Sasl, Receive, TInv, ClientTyped
  <2>2. CASE pc' \in {"sendSaslResponse", "auth"}
    <3>1. ClientTyped' /\ Placed' /\ Plain'
      BY <1>10, <2>2, SendsAre DEF Sasl, Receive, TInv, ClientTyped, Placed, Plain, Awaits, Receives
    <3> QED
      BY <1>10, <3>1, ReceiveTyped, ClientKeepsTInv DEF Sasl, Receive
  <2> QED
    BY <1>10, <2>1, <2>2 DEF Sasl
<1>11. CASE Answer
  <2>1. CASE Receive("answer", Messages \ {"ready"}) /\ UNCHANGED <<state, pc, result>>
    <3>1. ClientTyped' /\ Placed' /\ Plain'
      BY <2>1 DEF Receive, TInv, ClientTyped, Placed, Plain
    <3> QED
      BY <2>1, <3>1, ReceiveTyped, ClientKeepsTInv DEF Receive
  <2>2. CASE Receive("answer", {"ready"}) /\ state' = "Idle" /\ Return("ok")
    <3>1. ClientTyped' /\ Placed' /\ Plain'
      BY <2>2, ReturnTyped DEF Receive, TInv, ClientTyped, Placed, Plain, States
    <3> QED
      BY <2>2, <3>1, ReceiveTyped, ClientKeepsTInv DEF Receive
  <2> QED
    BY <1>11, <2>1, <2>2 DEF Answer
<1>12. CASE RowDesc
  <2>1. CASE \E r \in {"schema", "protocol"} : Return(r)
    BY <1>12, <2>1, ReceiveTyped, ReturnKeepsTInv DEF RowDesc, Receive, TInv, ClientTyped
  <2>2. CASE pc' \in {pc, "streaming", "drainError"}
    <3>1. pc = "rowDesc" /\ state = "ReadingResults"
      BY <1>12 DEF RowDesc, Receive, TInv, Placed
    <3>2. ClientTyped' /\ Placed' /\ Plain'
      BY <1>12, <2>2, <3>1 DEF RowDesc, Receive, TInv, ClientTyped, Placed, Plain, Awaits, Receives
    <3> QED
      BY <1>12, <3>2, ReceiveTyped, ClientKeepsTInv DEF RowDesc, Receive
  <2> QED
    BY <1>12, <2>1, <2>2 DEF RowDesc
<1>13. CASE DrainError
  <2>1. CASE Return("sql")
    BY <1>13, <2>1, ReceiveTyped, ReturnKeepsTInv DEF DrainError, Receive, TInv, ClientTyped
  <2>2. CASE UNCHANGED pc
    <3>1. ClientTyped' /\ Placed' /\ Plain'
      BY <1>13, <2>2 DEF DrainError, Receive, TInv, ClientTyped, Placed, Plain
    <3> QED
      BY <1>13, <3>1, ReceiveTyped, ClientKeepsTInv DEF DrainError, Receive
  <2> QED
    BY <1>13, <2>1, <2>2 DEF DrainError
<1>14. CASE Shutdown
  BY <1>14, ReturnKeepsTInv DEF Shutdown, TInv, ClientTyped, QueuesTyped
<1> QED
  BY <1>1, <1>2, <1>3, <1>4, <1>5, <1>6, <1>7, <1>8, <1>9, <1>10, <1>11, <1>12, <1>13, <1>14
  DEF Progress

LEMMA CallTInv ==
  ASSUME TInv, Call \/ CallDropped \/ ConnectionDropped
  PROVE  TInv'
<1>1. CASE Startup
  <2>1. wantTls' \in BOOLEAN /\ startups' \in Nat /\ QueuesTyped'
    BY <1>1 DEF Startup, TInv, ClientTyped, QueuesTyped
  <2>2. CASE UNCHANGED state /\ \E r \in {"invalidState", "config"} : Return(r)
    <3>1. ClientTyped' /\ Placed' /\ Plain'
      BY <1>1, <2>1, <2>2, ReturnTyped DEF Startup, TInv, ClientTyped, Placed, Plain
    <3> QED
      BY <1>1, <2>1, <3>1, ClientKeepsTInv DEF Startup
  <2>3. CASE /\ wantTls' /\ CanTransition(state, "NegotiatingTls")
             /\ state' = "NegotiatingTls" /\ pc' = "sendSsl"
    <3>1. state = "Initial"
      BY <2>3 DEF CanTransition
    <3>2. ClientTyped' /\ Placed' /\ Plain'
      BY <1>1, <2>1, <2>3, <3>1, SendsAre
      DEF Startup, TInv, ClientTyped, Placed, Plain, States, Awaits
    <3> QED
      BY <1>1, <2>1, <3>2, ClientKeepsTInv DEF Startup
  <2>4. CASE state' = "AwaitingAuth" /\ pc' = "sendStartup"
    <3>1. ClientTyped' /\ Placed' /\ Plain'
      BY <1>1, <2>1, <2>4, SendsAre DEF Startup, TInv, ClientTyped, Placed, Plain, States, Awaits
    <3> QED
      BY <1>1, <2>1, <3>1, ClientKeepsTInv DEF Startup
  <2> QED
    BY <1>1, <2>1, <2>2, <2>3, <2>4 DEF Startup
<1>2. CASE SimpleQuery \/ StreamingQuery
  <2>1. /\ UNCHANGED <<transport, wantTls, startups, sent, outbox, inbox>>
        /\ state' \in {state, "QueryInProgress"}
        /\ pc' \in {"sendQuery", "sendStreamQuery", "free", "dropped"}
    BY <1>2 DEF SimpleQuery, StreamingQuery, Return
  <2>2. ClientTyped' /\ Placed' /\ Plain' /\ QueuesTyped'
    BY <2>1, SendsAre DEF TInv, ClientTyped, Placed, Plain, QueuesTyped, States, Awaits
  <2> QED
    BY <1>2, <2>2, ClientKeepsTInv DEF SimpleQuery, StreamingQuery
<1>3. CASE Close
  <2>1. ClientTyped' /\ Placed' /\ Plain' /\ QueuesTyped'
    BY <1>3, SendsAre DEF Close, TInv, ClientTyped, Placed, Plain, QueuesTyped, States, Awaits
  <2> QED
    BY <1>3, <2>1, ClientKeepsTInv DEF Close
<1>4. CASE CallDropped
  <2>1. pc' \in {"free", "dropped"} /\ pc' \in Awaits
    BY <1>4, ReturnTyped DEF CallDropped
  <2>2. CASE pc = "upgrade"
    <3>1. ClientTyped' /\ ServerTyped' /\ QueuesTyped' /\ Placed' /\ Plain'
      BY <1>4, <2>1, <2>2
      DEF CallDropped, TInv, ClientTyped, ServerTyped, QueuesTyped, Placed, Plain, Phases
    <3> QED
      BY <3>1 DEF TInv
  <2>3. CASE pc # "upgrade"
    <3>1. pc \in Sends => Outgoing[pc][1] \in Words
      BY SendsAre, OutgoingIs DEF Words
    <3>2. QueuesTyped'
      BY <1>4, <2>3, <3>1, AppendProperties DEF CallDropped, TInv, QueuesTyped
    <3>3. ClientTyped' /\ Placed' /\ Plain'
      BY <1>4, <2>1, <2>3 DEF CallDropped, TInv, ClientTyped, Placed, Plain
    <3> QED
      BY <1>4, <2>3, <3>2, <3>3, ClientKeepsTInv DEF CallDropped, serverVars
  <2> QED
    BY <2>2, <2>3
<1>5. CASE ConnectionDropped
  <2>1. ClientTyped' /\ Placed' /\ Plain' /\ QueuesTyped'
    BY <1>5 DEF ConnectionDropped, TInv, ClientTyped, Placed, Plain, QueuesTyped, Awaits
  <2> QED
    BY <1>5, <2>1, ClientKeepsTInv DEF ConnectionDropped
<1> QED
  BY <1>1, <1>2, <1>3, <1>4, <1>5 DEF Call

LEMMA TInvStep == TInv /\ [Next]_vars => TInv'
<1> SUFFICES ASSUME TInv, [Next]_vars PROVE TInv'
  OBVIOUS
<1>1. CASE UNCHANGED vars
  BY <1>1
  DEF vars, clientVars, serverVars, TInv, ClientTyped, ServerTyped, QueuesTyped, Placed, Plain
<1> QED
  BY <1>1, ServerTInv, ProgressTInv, CallTInv DEF Next, Over

(* The variables of the connection keep their types, and a call is only    *)
(* where the state machine of state.rs allows it to be.                    *)
THEOREM TypeCorrect == Spec => []TypeOK
<1>1. TInv => TypeOK
  BY TypeParts DEF TInv
<1> QED
  BY <1>1, TInvInit, TInvStep, PTL DEF Spec

-----------------------------------------------------------------------------
(* TlsFirst is inductive: the calls that write wait for the upgrade, and   *)
(* only the upgrade touches the transport.                                 *)
LEMMA TlsFirstStep == TlsFirst /\ [Next]_vars => TlsFirst'
<1> SUFFICES ASSUME TlsFirst, [Next]_vars PROVE TlsFirst'
  OBVIOUS
<1> USE DEF TlsFirst
<1>1. CASE UNCHANGED <<transport, wantTls, pc>>
  BY <1>1
<1>2. CASE SendMessage
  BY <1>2, SendsAre, OutgoingIs DEF SendMessage
<1>3. CASE pc' \in {"free", "dropped", "streaming", "panicked", "upgrade", "shutdown"}
  BY <1>3
<1>4. CASE Auth
  BY <1>4 DEF Auth, Receive, Return
<1>5. CASE Sasl
  BY <1>5 DEF Sasl, Receive, Return
<1>6. CASE Upgrade
  BY <1>6 DEF Upgrade
<1>7. CASE Answer \/ RowDesc \/ DrainError
  BY <1>7 DEF Answer, RowDesc, DrainError, Receive, Return
<1>8. CASE Call
  BY <1>8 DEF Call, Startup, SimpleQuery, StreamingQuery, Close, Return
<1>9. CASE SendFails \/ SendPanics \/ ReceiveClosed \/ SslAnswer \/ SslClosed \/ UpgradeFails
           \/ Shutdown \/ CallDropped \/ ConnectionDropped
  BY <1>3, <1>9
  DEF SendFails, SendPanics, ReceiveClosed, SslAnswer, SslClosed, UpgradeFails, Shutdown,
      CallDropped, ConnectionDropped, Return
<1>10. CASE Server \/ ServerExtra \/ ConnectionLost \/ Over \/ UNCHANGED vars
  BY <1>1, <1>10
  DEF Server, ServerSsl, ServerStartup, ServerPassword, ServerSasl, ServerProof, Takes,
      ServerGreets, ServerQuery, ServerFinishes, ServerTerminate, ServerExtra, ConnectionLost,
      Over, vars, clientVars
<1> QED
  BY <1>2, <1>4, <1>5, <1>6, <1>7, <1>8, <1>9, <1>10 DEF Next, Progress

(* A startup that asks for TLS sends nothing but the SSLRequest before the *)
(* transport is encrypted.                                                 *)
THEOREM Encrypted == Spec => []TlsFirst
<1>1. Init => TlsFirst
  BY DEF Init, TlsFirst
<1> QED
  BY <1>1, TlsFirstStep, PTL DEF Spec

-----------------------------------------------------------------------------
(* The invariant behind InStep and AnswersMatch.                           *)
(*                                                                         *)
(* During a startup client and server take turns.  The turn is with the    *)
(* client that is about to write, on its way to the server, with a server  *)
(* that has nothing more to be told, or on its way back as a challenge; a  *)
(* startup that was refused or abandoned has lost it.  As there is one     *)
(* turn, nothing is under way to a server that says it is ready.           *)
Where ==
  /\ pc = "sendSsl" => state = "NegotiatingTls"
  /\ pc = "sendStartup" => state = "AwaitingAuth"
  /\ pc \in {"auth", "sendPassword", "sendSaslInitial", "saslContinue", "sendSaslResponse",
             "saslFinal"} => state = "Authenticating"
  /\ pc \in {"sendQuery", "sendStreamQuery"} => state = "QueryInProgress"
  /\ pc \in {"sendTerminate", "shutdown"} => state = "Closed"

Silent == [kind : Kinds, query : {0}]
Noise == [kind : {"notice", "param", "odd"}, query : {0}]

(* After ReadyForQuery the server says only what nobody asked for.         *)
Settled ==
  \A i \in 1 .. Len(inbox) : inbox[i].kind = "ready" =>
    /\ server \in {"idle", "gone"} /\ outbox = <<>>
    /\ \A j \in 1 .. Len(inbox) : j > i => inbox[j] \in Noise

(* Before the startup message.                                             *)
Before ==
  state \in {"Initial", "NegotiatingTls"} =>
    /\ server \in {"fresh", "handshake", "gone"} /\ asked = 0 /\ sent = 0
    /\ outbox = <<>> \/ outbox = <<"ssl">>
    /\ state = "Initial" \/ pc = "sendSsl" => outbox = <<>>
    /\ inbox \in Seq([kind : {"sslS", "sslN", "error", "odd"}, query : {0}])

Challenges == {"cleartext", "md5", "sasl", "saslContinue"}
Handshake == {"sendStartup", "auth", "sendPassword", "sendSaslInitial", "saslContinue",
              "sendSaslResponse", "saslFinal"}
ClientTurn == pc \in {"sendStartup", "sendPassword", "sendSaslInitial", "sendSaslResponse"}
OutTurn ==
  \E m \in {"startup", "password", "saslInitial", "saslResponse"} :
    outbox = <<m>> \/ outbox = <<"ssl", m>>
ServerTurn == server \in {"greeting", "idle"}
InTurn == \E i \in 1 .. Len(inbox) : inbox[i].kind \in Challenges

OneChallenge ==
  \A i, j \in 1 .. Len(inbox) :
    inbox[i].kind \in Challenges /\ inbox[j].kind \in Challenges => i = j

OneTurn ==
  /\ ~(ClientTurn /\ OutTurn) /\ ~(ClientTurn /\ ServerTurn) /\ ~(ClientTurn /\ InTurn)
  /\ ~(OutTurn /\ ServerTurn) /\ ~(OutTurn /\ InTurn) /\ ~(ServerTurn /\ InTurn)
  /\ OneChallenge

During ==
  pc \in Handshake =>
    /\ asked = 0 /\ sent = 0
    /\ pc # "sendStartup" => transport # "none"
    /\ server \in {"fresh", "handshake", "password", "sasl", "proof", "greeting", "idle", "gone"}
    /\ OutTurn \/ outbox = <<>> \/ outbox = <<"ssl">>
    /\ ServerTurn => outbox = <<>>
    /\ inbox \in Seq(Silent)
    /\ OneTurn /\ Settled

(* Between two queries, up to the write of the next one.                   *)
Calm ==
  (pc = "free" /\ state = "Idle") \/ pc \in {"sendQuery", "sendStreamQuery"} =>
    /\ transport # "none" /\ server \in {"idle", "gone"}
    /\ outbox = <<>> /\ inbox \in Seq(Noise)
    /\ server = "idle" => asked = sent

(* From that write to the last message of the answer.                      *)
Exchange ==
  pc \in {"answer", "rowDesc", "drainError", "streaming"} =>
    /\ transport # "none" /\ server \in {"idle", "answering", "closing", "gone"}
    /\ \/ outbox = <<"query">> /\ server = "idle" /\ asked + 1 = sent /\ inbox \in Seq(Noise)
       \/ outbox = <<>> /\ (server # "gone" => asked = sent)
    /\ inbox \in Seq([kind : Kinds, query : {0, sent}])
    /\ Settled

HInv == TInv /\ Where /\ Before /\ During /\ Calm /\ Exchange

LEMMA HInvInit == Init => HInv
<1> SUFFICES ASSUME Init PROVE HInv
  OBVIOUS
<1>1. TInv
  BY TInvInit
<1>2. Where /\ During /\ Calm /\ Exchange
  BY DEF Init, Where, During, Calm, Exchange, Handshake
<1>3. Before
  BY DEF Init, Before
<1> QED
  BY <1>1, <1>2, <1>3 DEF HInv

-----------------------------------------------------------------------------
(* How the inbox changes.                                                  *)
LEMMA SeqOfElements ==
  ASSUME NEW S, NEW T, NEW q \in Seq(S), \A i \in 1 .. Len(q) : q[i] \in T
  PROVE  q \in Seq(T)
<1> DEFINE r == [i \in 1 .. Len(q) |-> q[i]]
<1>1. q = r
  BY LenProperties
<1>2. Len(q) \in Nat
  BY LenProperties
<1>3. r \in Seq(T)
  BY <1>2
<1> QED
  BY <1>1, <1>3, Zenon

LEMMA Said ==
  ASSUME inbox \in Seq(Envelopes), NEW kinds \in Seq(Kinds), NEW query \in Nat,
         Says(kinds, query)
  PROVE  /\ Len(inbox') = Len(inbox) + Len(kinds)
         /\ \A i \in 1 .. Len(inbox) : inbox'[i] = inbox[i]
         /\ \A i \in 1 .. Len(kinds) :
              inbox'[Len(inbox) + i] = [kind |-> kinds[i], query |-> query]
         /\ \A S : inbox \in Seq(S)
                     /\ (\A i \in 1 .. Len(kinds) : [kind |-> kinds[i], query |-> query] \in S)
                   => inbox' \in Seq(S)
<1> DEFINE said == [i \in 1 .. Len(kinds) |-> [kind |-> kinds[i], query |-> query]]
<1>1. Len(kinds) \in Nat /\ Len(inbox) \in Nat
  OBVIOUS
<1>2. inbox' = inbox \o said
  BY DEF Says
<1>3. \A S : (\A i \in 1 .. Len(kinds) : said[i] \in S) => said \in Seq(S)
  BY <1>1
<1>4. \A i \in 1 .. Len(kinds) : said[i] \in Envelopes
  BY DEF Envelopes, Kinds
<1>5. said \in Seq(Envelopes)
  BY <1>3, <1>4
<1>6. Len(said) = Len(kinds)
  BY <1>1
<1>7. \A i \in 1 .. Len(inbox) + Len(said) :
        inbox'[i] = IF i <= Len(inbox) THEN inbox[i] ELSE said[i - Len(inbox)]
  BY <1>2, <1>5, ConcatProperties
<1>8. Len(inbox') = Len(inbox) + Len(kinds)
  BY <1>2, <1>5, <1>6, ConcatProperties
<1>9. \A S : inbox \in Seq(S) /\ said \in Seq(S) => inbox' \in Seq(S)
  BY <1>2, ConcatProperties
<1>10. ASSUME NEW i \in 1 .. Len(inbox)
       PROVE  inbox'[i] = inbox[i]
  <2>1. i \in 1 .. Len(inbox) + Len(said) /\ i <= Len(inbox)
    BY <1>1, <1>6
  <2> QED
    BY <1>7, <2>1
<1>11. ASSUME NEW i \in 1 .. Len(kinds)
       PROVE  inbox'[Len(inbox) + i] = [kind |-> kinds[i], query |-> query]
  <2>1. /\ Len(inbox) + i \in 1 .. Len(inbox) + Len(said)
        /\ ~(Len(inbox) + i <= Len(inbox)) /\ (Len(inbox) + i) - Len(inbox) = i
    BY <1>1, <1>6
  <2>2. inbox'[Len(inbox) + i] = said[i]
    BY <1>7, <2>1
  <2> QED
    BY <2>2
<1>12. ASSUME NEW S, inbox \in Seq(S),
              \A i \in 1 .. Len(kinds) : [kind |-> kinds[i], query |-> query] \in S
       PROVE  inbox' \in Seq(S)
  BY <1>3, <1>9, <1>12
<1> QED
  BY <1>8, <1>10, <1>11, <1>12

(* One message more.                                                       *)
LEMMA SaidOne ==
  ASSUME inbox \in Seq(Envelopes), NEW k \in Kinds, NEW query \in Nat, Says(<<k>>, query)
  PROVE  /\ Len(inbox') = Len(inbox) + 1
         /\ \A i \in 1 .. Len(inbox) : inbox'[i] = inbox[i]
         /\ inbox'[Len(inbox) + 1] = [kind |-> k, query |-> query]
         /\ \A S : inbox \in Seq(S) /\ [kind |-> k, query |-> query] \in S => inbox' \in Seq(S)
<1>1. <<k>> \in Seq(Kinds) /\ Len(<<k>>) = 1 /\ <<k>>[1] = k /\ 1 \in 1 .. 1
  OBVIOUS
<1>2. \A i \in 1 .. Len(<<k>>) : <<k>>[i] = k
  BY <1>1
<1>3. /\ Len(inbox') = Len(inbox) + Len(<<k>>)
      /\ \A i \in 1 .. Len(inbox) : inbox'[i] = inbox[i]
      /\ \A i \in 1 .. Len(<<k>>) :
           inbox'[Len(inbox) + i] = [kind |-> <<k>>[i], query |-> query]
      /\ \A S : inbox \in Seq(S)
                  /\ (\A i \in 1 .. Len(<<k>>) : [kind |-> <<k>>[i], query |-> query] \in S)
                => inbox' \in Seq(S)
  BY <1>1, Said
<1>4. inbox'[Len(inbox) + 1] = [kind |-> k, query |-> query]
  BY <1>1, <1>3
<1>5. ASSUME NEW S, inbox \in Seq(S), [kind |-> k, query |-> query] \in S
      PROVE  inbox' \in Seq(S)
  BY <1>2, <1>3, <1>5
<1> QED
  BY <1>1, <1>3, <1>4, <1>5

(* One message less.                                                       *)
LEMMA Taken ==
  ASSUME inbox \in Seq(Envelopes), inbox # <<>>, inbox' = Tail(inbox)
  PROVE  /\ Len(inbox) \in Nat /\ 1 \in 1 .. Len(inbox) /\ Head(inbox) = inbox[1]
         /\ Len(inbox') = Len(inbox) - 1
         /\ \A i \in 1 .. Len(inbox') : i + 1 \in 1 .. Len(inbox) /\ inbox'[i] = inbox[i + 1]
         /\ \A S : inbox \in Seq(S) => inbox' \in Seq(S)
<1>1. Len(inbox) \in Nat /\ Len(inbox) > 0
  OBVIOUS
<1>2. Len(inbox') = Len(inbox) - 1 /\ \A i \in 1 .. Len(inbox') : inbox'[i] = inbox[i + 1]
  BY HeadTailProperties
<1>3. \A S : inbox \in Seq(S) => inbox' \in Seq(S)
  BY HeadTailProperties
<1> QED
  BY <1>1, <1>2, <1>3

(* The end of the inbox lost.                                              *)
LEMMA Cut ==
  ASSUME inbox \in Seq(Envelopes), NEW n \in 0 .. Len(inbox), inbox' = SubSeq(inbox, 1, n)
  PROVE  /\ Len(inbox') \in Nat /\ Len(inbox) \in Nat /\ Len(inbox') <= Len(inbox)
         /\ \A i \in 1 .. Len(inbox') : inbox'[i] = inbox[i]
         /\ \A S : inbox \in Seq(S) => inbox' \in Seq(S)
<1>1. Len(inbox) \in Nat
  OBVIOUS
<1>2. Len(inbox') = n
  BY <1>1, SubSeqProperties
<1>3. \A i \in 1 .. n : inbox'[i] = inbox[i]
  BY <1>1, SubSeqProperties
<1>4. \A S : inbox \in Seq(S) => inbox' \in Seq(S)
  BY <1>1, SubSeqProperties
<1> QED
  BY <1>1, <1>2, <1>3, <1>4

-----------------------------------------------------------------------------
(* The server takes the message whose turn it is, and answers it with the  *)
(* next challenge or with the end of its questions.                        *)
LEMMA Answered ==
  ASSUME HInv, pc \in Handshake, UNCHANGED <<clientVars, asked>>,
         OutTurn, server \notin {"idle", "gone"}, outbox' = <<>>,
         NEW kinds \in Seq(Kinds), Says(kinds, 0),
         \A i \in 1 .. Len(kinds) : kinds[i] # "ready",
         \/ server' \in {"password", "sasl", "proof"} /\ Len(kinds) = 1
         \/ /\ server' \in {"greeting", "gone"}
            /\ \A i \in 1 .. Len(kinds) : kinds[i] \notin Challenges
  PROVE  During'
<1>1. /\ inbox \in Seq(Silent) /\ ~ClientTurn /\ ~ServerTurn /\ ~InTurn /\ Settled
      /\ asked = 0 /\ sent = 0 /\ (pc # "sendStartup" => transport # "none")
  BY DEF HInv, During, OneTurn, OneChallenge
<1>2. inbox \in Seq(Envelopes) /\ Len(inbox) \in Nat /\ Len(kinds) \in Nat
  BY DEF HInv, TInv, QueuesTyped
<1>3. /\ Len(inbox') = Len(inbox) + Len(kinds)
      /\ \A i \in 1 .. Len(inbox) : inbox'[i] = inbox[i]
      /\ \A i \in 1 .. Len(kinds) : inbox'[Len(inbox) + i] = [kind |-> kinds[i], query |-> 0]
  BY <1>2, Said
<1>4. inbox' \in Seq(Silent)
  <2>1. \A i \in 1 .. Len(kinds) : [kind |-> kinds[i], query |-> 0] \in Silent
    BY DEF Silent
  <2> QED
    BY <1>1, <1>2, <2>1, Said
<1>5. ASSUME NEW i \in 1 .. Len(inbox')
      PROVE  /\ inbox'[i].kind # "ready"
             /\ inbox'[i].kind \in Challenges =>
                  i > Len(inbox) /\ i <= Len(inbox) + Len(kinds)
                    /\ kinds[i - Len(inbox)] \in Challenges
  <2>1. CASE i <= Len(inbox)
    <3>1. i \in 1 .. Len(inbox) /\ inbox'[i] = inbox[i]
      BY <1>2, <1>3, <2>1
    <3> QED
      BY <1>1, <3>1 DEF Settled, InTurn
  <2>2. CASE i > Len(inbox)
    <3>1. PICK k \in 1 .. Len(kinds) : i = Len(inbox) + k /\ k = i - Len(inbox)
      BY <1>2, <1>3, <2>2
    <3>2. inbox'[i] = [kind |-> kinds[k], query |-> 0]
      BY <1>3, <3>1
    <3> QED
      BY <1>2, <3>1, <3>2
  <2> QED
    BY <1>2, <1>3, <2>1, <2>2
<1>6. Settled'
  BY <1>5 DEF Settled
<1>7. ASSUME NEW i \in 1 .. Len(inbox'), NEW j \in 1 .. Len(inbox'),
             inbox'[i].kind \in Challenges, inbox'[j].kind \in Challenges
      PROVE  i = j
  <2>1. CASE Len(kinds) = 1
    BY <1>2, <1>3, <1>5, <1>7, <2>1
  <2>2. CASE \A k \in 1 .. Len(kinds) : kinds[k] \notin Challenges
    <3>1. i - Len(inbox) \in 1 .. Len(kinds)
      BY <1>2, <1>3, <1>5, <1>7
    <3> QED
      BY <1>5, <1>7, <2>2, <3>1
  <2> QED
    BY <2>1, <2>2
<1>8. ServerTurn' => ~InTurn'
  <2> SUFFICES ASSUME ServerTurn', NEW i \in 1 .. Len(inbox'), inbox'[i].kind \in Challenges
               PROVE  FALSE
    BY DEF InTurn
  <2>1. i - Len(inbox) \in 1 .. Len(kinds) /\ kinds[i - Len(inbox)] \in Challenges
    BY <1>2, <1>3, <1>5
  <2> QED
    BY <2>1 DEF ServerTurn
<1>9. ~ClientTurn' /\ ~OutTurn'
  BY <1>1 DEF ClientTurn, OutTurn, clientVars
<1>10. OneTurn'
  BY <1>7, <1>8, <1>9 DEF OneTurn, OneChallenge
<1>11. UNCHANGED <<pc, transport, sent, asked>>
  BY DEF clientVars
<1> QED
  BY <1>1, <1>4, <1>6, <1>10, <1>11 DEF During

(* The server leaves the state of the client alone.                        *)
LEMMA ServerKeeps ==
  ASSUME HInv, UNCHANGED clientVars, TInv', Before', During', Calm', Exchange'
  PROVE  HInv'
<1>1. Where'
  BY DEF HInv, Where, clientVars
<1> QED
  BY <1>1 DEF HInv

(* A message of a startup is taken only during one.                        *)
LEMMA TakesOutside ==
  ASSUME HInv, NEW phase \in {"fresh", "password", "sasl", "proof"}, NEW message, NEW answers,
         Takes(phase, message, answers)
  PROVE  Calm' /\ Exchange'
<1>1. server = phase /\ UNCHANGED <<pc, state>>
  BY DEF Takes, clientVars
<1> QED
  BY <1>1 DEF HInv, Calm, Exchange

LEMMA TakesWord ==
  ASSUME HInv, NEW phase, NEW message \in {"startup", "password", "saslInitial", "saslResponse"},
         NEW answers, Takes(phase, message, answers)
  PROVE  /\ Before'
         /\ pc \in Handshake => OutTurn /\ outbox' = <<>>
<1>1. outbox # <<>> /\ Head(outbox) = message /\ outbox' = Tail(outbox) /\ UNCHANGED state
  BY DEF Takes, clientVars
<1>2. outbox # <<"ssl">>
  BY <1>1
<1>3. Before'
  BY <1>1, <1>2 DEF HInv, Before
<1>4. ASSUME pc \in Handshake PROVE OutTurn /\ outbox' = <<>>
  <2>1. OutTurn
    BY <1>1, <1>2, <1>4 DEF HInv, During
  <2>2. PICK m : outbox = <<m>> \/ outbox = <<"ssl", m>>
    BY <2>1 DEF OutTurn
  <2>3. Head(<<"ssl", m>>) = "ssl" /\ Tail(<<m>>) = <<>>
    OBVIOUS
  <2>4. outbox = <<m>>
    BY <1>1, <2>2, <2>3
  <2> QED
    BY <1>1, <2>1, <2>3, <2>4
<1> QED
  BY <1>3, <1>4

(* The server says something that is not a challenge.                      *)
LEMMA NoChallengeSaid ==
  ASSUME inbox \in Seq(Envelopes), NEW k \in Kinds \ Challenges, NEW query \in Nat,
         Says(<<k>>, query), OneChallenge
  PROVE  OneChallenge' /\ (InTurn' => InTurn)
<1>1. /\ Len(inbox') = Len(inbox) + 1 /\ Len(inbox) \in Nat
      /\ \A i \in 1 .. Len(inbox) : inbox'[i] = inbox[i]
      /\ inbox'[Len(inbox) + 1] = [kind |-> k, query |-> query]
  BY SaidOne
<1>2. ASSUME NEW i \in 1 .. Len(inbox'), inbox'[i].kind \in Challenges
      PROVE  i \in 1 .. Len(inbox) /\ inbox[i].kind \in Challenges
  <2>1. i # Len(inbox) + 1
    BY <1>1, <1>2
  <2> QED
    BY <1>1, <1>2, <2>1
<1>3. OneChallenge'
  BY <1>2 DEF OneChallenge
<1>4. InTurn' => InTurn
  BY <1>2 DEF InTurn
<1> QED
  BY <1>3, <1>4

(* What a message does to Settled: it is noise, or nothing was ready.      *)
LEMMA SettledSaid ==
  ASSUME inbox \in Seq(Envelopes), NEW k \in Kinds, NEW query \in Nat, Says(<<k>>, query),
         Settled,
         \/ [kind |-> k, query |-> query] \in Noise /\ UNCHANGED <<server, outbox>>
         \/ k # "ready" /\ server \notin {"idle", "gone"}
         \/ k # "ready" /\ outbox # <<>>
         \/ k = "ready" /\ server \notin {"idle", "gone"} /\ server' = "idle" /\ outbox' = <<>>
  PROVE  Settled'
<1>1. /\ Len(inbox') = Len(inbox) + 1 /\ Len(inbox) \in Nat
      /\ \A i \in 1 .. Len(inbox) : inbox'[i] = inbox[i]
      /\ inbox'[Len(inbox) + 1] = [kind |-> k, query |-> query]
  BY SaidOne
<1>2. ASSUME NEW i \in 1 .. Len(inbox')
      PROVE  (i \in 1 .. Len(inbox) /\ inbox'[i] = inbox[i])
               \/ (i = Len(inbox) + 1 /\ inbox'[i] = [kind |-> k, query |-> query])
  BY <1>1
<1>3. CASE [kind |-> k, query |-> query] \in Noise /\ UNCHANGED <<server, outbox>>
  <2>1. k # "ready"
    BY <1>3 DEF Noise
  <2> SUFFICES ASSUME NEW i \in 1 .. Len(inbox'), inbox'[i].kind = "ready"
               PROVE  /\ server' \in {"idle", "gone"} /\ outbox' = <<>>
                      /\ \A j \in 1 .. Len(inbox') : j > i => inbox'[j] \in Noise
    BY DEF Settled
  <2>2. i \in 1 .. Len(inbox) /\ inbox[i].kind = "ready"
    BY <1>2, <2>1
  <2>3. /\ server \in {"idle", "gone"} /\ outbox = <<>>
        /\ \A j \in 1 .. Len(inbox) : j > i => inbox[j] \in Noise
    BY <2>2 DEF Settled
  <2> QED
    BY <1>2, <1>3, <2>3
<1>4. CASE k # "ready" /\ (server \notin {"idle", "gone"} \/ outbox # <<>>)
  <2>1. \A i \in 1 .. Len(inbox) : inbox[i].kind # "ready"
    BY <1>4 DEF Settled
  <2>2. \A i \in 1 .. Len(inbox') : inbox'[i].kind # "ready"
    BY <1>2, <1>4, <2>1
  <2> QED
    BY <2>2 DEF Settled
<1>5. CASE k = "ready" /\ server \notin {"idle", "gone"} /\ server' = "idle" /\ outbox' = <<>>
  <2>1. \A i \in 1 .. Len(inbox) : inbox[i].kind # "ready"
    BY <1>5 DEF Settled
  <2>2. \A i \in 1 .. Len(inbox') : inbox'[i].kind = "ready" => i = Len(inbox) + 1
    BY <1>2, <2>1
  <2>3. \A j \in 1 .. Len(inbox') : ~(j > Len(inbox) + 1)
    BY <1>1
  <2> QED
    BY <1>5, <2>2, <2>3 DEF Settled
<1> QED
  BY <1>3, <1>4, <1>5

LEMMA SslHInv ==
  ASSUME HInv, ServerSsl, TInv'
  PROVE  HInv'
<1>1. PICK k \in {"sslS", "sslN", "error"} :
        Says(<<k>>, 0) /\ server' \in {"handshake", "fresh", "gone"}
  <2>1. PICK a \in {<<<<"sslS">>, "handshake">>, <<<<"sslN">>, "fresh">>, Refusal} :
          Says(a[1], 0) /\ server' = a[2]
    BY DEF ServerSsl, Takes
  <2> QED
    BY <2>1 DEF Refusal
<1>2. /\ server = "fresh" /\ outbox # <<>> /\ Head(outbox) = "ssl" /\ outbox' = Tail(outbox)
      /\ UNCHANGED clientVars /\ UNCHANGED asked
  BY DEF ServerSsl, Takes
<1>3. inbox \in Seq(Envelopes) /\ k \in Kinds \ Challenges /\ k # "ready"
  BY DEF HInv, TInv, QueuesTyped, Kinds, Undecodable, Messages, Challenges
<1>4. Before'
  <2> SUFFICES ASSUME state \in {"Initial", "NegotiatingTls"} PROVE Before'
    BY <1>2 DEF Before, clientVars
  <2>1. outbox' = <<>>
    <3>1. outbox = <<"ssl">>
      BY <1>2 DEF HInv, Before
    <3> QED
      BY <1>2, <3>1
  <2>2. inbox' \in Seq([kind : {"sslS", "sslN", "error", "odd"}, query : {0}])
    <3> DEFINE S == [kind : {"sslS", "sslN", "error", "odd"}, query : {0}]
    <3>1. inbox \in Seq(S) /\ [kind |-> k, query |-> 0] \in S
      BY DEF HInv, Before
    <3>2. k \in Kinds /\ 0 \in Nat
      BY <1>3
    <3> HIDE DEF S
    <3>3. inbox' \in Seq(S)
      BY <1>1, <1>3, <3>1, <3>2, SaidOne
    <3> QED
      BY <3>3 DEF S
  <2> QED
    BY <1>1, <1>2, <2>1, <2>2 DEF HInv, Before, clientVars
<1>5. During'
  <2> SUFFICES ASSUME pc \in Handshake PROVE During'
    BY <1>2 DEF During, clientVars
  <2>1. /\ inbox \in Seq(Silent) /\ OneTurn /\ Settled /\ asked = 0 /\ sent = 0
        /\ (pc # "sendStartup" => transport # "none")
    BY DEF HInv, During
  <2>2. Settled'
    BY <1>1, <1>2, <1>3, <2>1, SettledSaid
  <2>3. OneChallenge' /\ (InTurn' => InTurn)
    BY <1>1, <1>3, <2>1, NoChallengeSaid DEF OneTurn, OneChallenge
  <2>4. inbox' \in Seq(Silent)
    BY <1>1, <1>3, <2>1, SaidOne DEF Silent
  <2>5. /\ OutTurn' => OutTurn
        /\ OutTurn' \/ outbox' = <<>>
    <3>1. CASE outbox = <<"ssl">>
      BY <1>2, <3>1 DEF OutTurn
    <3>2. CASE OutTurn
      <4>1. PICK m \in {"startup", "password", "saslInitial", "saslResponse"} :
              outbox = <<m>> \/ outbox = <<"ssl", m>>
        BY <3>2 DEF OutTurn
      <4>2. Head(<<m>>) = m /\ Tail(<<"ssl", m>>) = <<m>>
        OBVIOUS
      <4>3. outbox' = <<m>>
        BY <1>2, <4>1, <4>2
      <4> QED
        BY <3>2, <4>3 DEF OutTurn
    <3> QED
      BY <1>2, <3>1, <3>2 DEF HInv, During
  <2>6. ~ServerTurn' /\ (ClientTurn' => ClientTurn)
    BY <1>1, <1>2 DEF ServerTurn, ClientTurn, clientVars
  <2>7. OneTurn'
    BY <2>1, <2>3, <2>5, <2>6 DEF OneTurn, OneChallenge
  <2> QED
    BY <1>1, <1>2, <2>1, <2>2, <2>4, <2>5, <2>6, <2>7 DEF During, clientVars
<1>6. Calm' /\ Exchange'
  BY TakesOutside DEF ServerSsl
<1> QED
  BY <1>2, <1>4, <1>5, <1>6, ServerKeeps

LEMMA ChallengeHInv ==
  ASSUME HInv, ServerStartup \/ ServerPassword \/ ServerSasl \/ ServerProof, TInv'
  PROVE  HInv'
<1>1. PICK phase \in {"fresh", "password", "sasl", "proof"},
           message \in {"startup", "password", "saslInitial", "saslResponse"} :
        Takes(phase, message,
              {Welcome, <<<<"cleartext">>, "password">>, <<<<"md5">>, "password">>,
               <<<<"sasl">>, "sasl">>, <<<<"odd">>, "password">>, Refusal,
               <<<<"saslContinue">>, "proof">>, <<<<"saslFinal", "authOk">>, "greeting">>})
  BY DEF ServerStartup, ServerPassword, ServerSasl, ServerProof, Takes
<1>2. PICK a \in {Welcome, <<<<"cleartext">>, "password">>, <<<<"md5">>, "password">>,
                  <<<<"sasl">>, "sasl">>, <<<<"odd">>, "password">>, Refusal,
                  <<<<"saslContinue">>, "proof">>, <<<<"saslFinal", "authOk">>, "greeting">>} :
        Says(a[1], 0) /\ server' = a[2]
  BY <1>1 DEF Takes
<1>3. UNCHANGED <<clientVars, asked>> /\ server = phase
  BY <1>1 DEF Takes
<1>4. /\ Before'
      /\ pc \in Handshake => OutTurn /\ outbox' = <<>>
  BY <1>1, TakesWord
<1>5. Calm' /\ Exchange'
  BY <1>1, TakesOutside
<1>6. PICK kinds \in {<<"authOk">>, <<"cleartext">>, <<"md5">>, <<"sasl">>, <<"odd">>, <<"error">>,
                      <<"saslContinue">>, <<"saslFinal", "authOk">>} :
        /\ Says(kinds, 0)
        /\ \/ server' \in {"password", "sasl", "proof"} /\ Len(kinds) = 1
           \/ /\ server' \in {"greeting", "gone"}
              /\ kinds \in {<<"authOk">>, <<"error">>, <<"saslFinal", "authOk">>}
  <2>1. /\ <<<<"saslFinal", "authOk">>, "greeting">>[1] = <<"saslFinal", "authOk">>
        /\ <<<<"saslFinal", "authOk">>, "greeting">>[2] = "greeting"
    OBVIOUS
  <2>2. \A k, to : <<<<k>>, to>>[1] = <<k>> /\ <<<<k>>, to>>[2] = to /\ Len(<<k>>) = 1
    OBVIOUS
  <2> QED
    BY <1>2, <2>1, <2>2 DEF Welcome, Refusal
<1>7. kinds \in Seq(Kinds) /\ \A i \in 1 .. Len(kinds) : kinds[i] # "ready"
  <2>1. {"authOk", "cleartext", "md5", "sasl", "odd", "error", "saslContinue", "saslFinal"}
          \subseteq Kinds \ {"ready"}
    BY DEF Kinds, Messages, Undecodable
  <2>2. \A k \in Kinds \ {"ready"} :
          <<k>> \in Seq(Kinds) /\ \A i \in 1 .. Len(<<k>>) : <<k>>[i] # "ready"
    OBVIOUS
  <2>3. \A k, l \in Kinds \ {"ready"} :
          <<k, l>> \in Seq(Kinds) /\ \A i \in 1 .. Len(<<k, l>>) : <<k, l>>[i] # "ready"
    OBVIOUS
  <2> QED
    BY <2>1, <2>2, <2>3
<1>8. kinds \in {<<"authOk">>, <<"error">>, <<"saslFinal", "authOk">>}
        => \A i \in 1 .. Len(kinds) : kinds[i] \notin Challenges
  BY DEF Challenges
<1>9. ASSUME pc \in Handshake PROVE During'
  BY <1>3, <1>4, <1>6, <1>7, <1>8, <1>9, Answered
<1>10. During'
  BY <1>3, <1>9 DEF During, clientVars
<1> QED
  BY <1>3, <1>4, <1>5, <1>10, ServerKeeps

LEMMA GreetsHInv ==
  ASSUME HInv, ServerGreets, TInv'
  PROVE  HInv'
<1>1. /\ server = "greeting" /\ server' = "idle" /\ Says(<<"key", "ready">>, 0)
      /\ UNCHANGED <<clientVars, outbox, asked>>
  BY DEF ServerGreets
<1>2. UNCHANGED <<state, pc, transport, sent>>
  BY <1>1 DEF clientVars
<1>3. Before' /\ Calm' /\ Exchange'
  BY <1>1, <1>2 DEF HInv, Before, Calm, Exchange
<1>4. ASSUME pc \in Handshake PROVE During'
  <2>1. /\ inbox \in Seq(Silent) /\ Settled /\ asked = 0 /\ sent = 0
        /\ (pc # "sendStartup" => transport # "none")
        /\ outbox = <<>> /\ ~ClientTurn /\ ~OutTurn /\ ~InTurn
    BY <1>1, <1>4 DEF HInv, During, OneTurn, OneChallenge, ServerTurn
  <2>2. /\ inbox \in Seq(Envelopes) /\ Len(inbox) \in Nat /\ Len(<<"key", "ready">>) = 2
        /\ <<"key", "ready">> \in Seq(Kinds)
    BY DEF HInv, TInv, QueuesTyped, Kinds, Messages
  <2>3. /\ Len(inbox') = Len(inbox) + 2
        /\ \A i \in 1 .. Len(inbox) : inbox'[i] = inbox[i]
        /\ \A i \in 1 .. 2 :
             inbox'[Len(inbox) + i] = [kind |-> <<"key", "ready">>[i], query |-> 0]
    BY <1>1, <2>2, Said
  <2>4. inbox' \in Seq(Silent)
    <3>1. \A i \in 1 .. 2 : [kind |-> <<"key", "ready">>[i], query |-> 0] \in Silent
      BY DEF Silent, Kinds, Messages
    <3> QED
      BY <1>1, <2>1, <2>2, <3>1, Said
  <2>5. /\ inbox'[Len(inbox) + 1] = [kind |-> "key", query |-> 0]
        /\ inbox'[Len(inbox) + 2] = [kind |-> "ready", query |-> 0]
    BY <2>3
  <2>6. ASSUME NEW i \in 1 .. Len(inbox')
        PROVE  /\ inbox'[i].kind \notin Challenges
               /\ inbox'[i].kind = "ready" => i = Len(inbox')
    <3>1. CASE i \in 1 .. Len(inbox)
      BY <1>1, <2>1, <2>3, <3>1 DEF InTurn, Settled
    <3>2. CASE i = Len(inbox) + 1 \/ i = Len(inbox) + 2
      BY <2>3, <2>5, <3>2 DEF Challenges
    <3> QED
      BY <2>2, <2>3, <3>1, <3>2
  <2>7. \A i, j \in 1 .. Len(inbox') : i = Len(inbox') => ~(j > i)
    BY <2>2, <2>3
  <2>8. Settled'
    BY <1>1, <2>1, <2>6, <2>7 DEF Settled
  <2>9. OneTurn'
    BY <1>1, <1>2, <2>1, <2>6 DEF OneTurn, OneChallenge, InTurn, ClientTurn, OutTurn
  <2> QED
    BY <1>1, <1>2, <2>1, <2>4, <2>8, <2>9 DEF During
<1>5. During'
  BY <1>2, <1>4 DEF During
<1> QED
  BY <1>1, <1>3, <1>5, ServerKeeps

LEMMA QueryHInv ==
  ASSUME HInv, ServerQuery, TInv'
  PROVE  HInv'
<1>1. /\ server = "idle" /\ outbox # <<>> /\ Head(outbox) = "query" /\ outbox' = Tail(outbox)
      /\ asked' = asked + 1 /\ UNCHANGED clientVars /\ server' \in {"answering", "closing"}
  BY DEF ServerQuery
<1>2. UNCHANGED <<state, pc, transport, sent>>
  BY <1>1 DEF clientVars
<1>3. Before' /\ During' /\ Calm'
  BY <1>1, <1>2 DEF HInv, Before, During, Calm, ServerTurn
<1>4. ASSUME pc \in {"answer", "rowDesc", "drainError", "streaming"} PROVE Exchange'
  <2>1. /\ transport # "none" /\ Settled /\ asked' = sent
        /\ inbox \in Seq([kind : Kinds, query : {0, sent}])
    BY <1>1, <1>4 DEF HInv, Exchange
  <2>2. outbox' = <<>>
    <3>1. outbox = <<"query">>
      BY <1>1, <1>4 DEF HInv, Exchange
    <3> QED
      BY <1>1, <3>1
  <2>3. PICK k \in {"rowDesc", "complete", "error"} : Says(<<k>>, sent)
    BY <2>1 DEF ServerQuery
  <2>4. inbox \in Seq(Envelopes) /\ k \in Kinds /\ k # "ready" /\ sent \in Nat
    BY DEF HInv, TInv, QueuesTyped, ClientTyped, Kinds, Messages
  <2>5. Settled'
    BY <1>1, <2>1, <2>3, <2>4, SettledSaid
  <2>6. [kind |-> k, query |-> sent] \in [kind : Kinds, query : {0, sent}]
    BY <2>4
  <2>7. inbox' \in Seq([kind : Kinds, query : {0, sent}])
    BY <2>1, <2>3, <2>4, <2>6, SaidOne
  <2> QED
    BY <1>1, <1>2, <2>1, <2>2, <2>5, <2>7 DEF Exchange
<1>5. Exchange'
  BY <1>2, <1>4 DEF Exchange
<1> QED
  BY <1>1, <1>3, <1>5, ServerKeeps

LEMMA FinishesHInv ==
  ASSUME HInv, ServerFinishes, TInv'
  PROVE  HInv'
<1>1. /\ server \in {"answering", "closing"} /\ server' \in {"closing", "idle"}
      /\ UNCHANGED <<clientVars, outbox, asked>>
  BY DEF ServerFinishes
<1>2. UNCHANGED <<state, pc, transport, sent>>
  BY <1>1 DEF clientVars
<1>3. Before' /\ During' /\ Calm'
  BY <1>1, <1>2 DEF HInv, Before, During, Calm
<1>4. ASSUME pc \in {"answer", "rowDesc", "drainError", "streaming"} PROVE Exchange'
  <2>1. /\ transport # "none" /\ Settled /\ outbox = <<>> /\ asked = sent
        /\ inbox \in Seq([kind : Kinds, query : {0, sent}])
    BY <1>1, <1>4 DEF HInv, Exchange
  <2>2. PICK k \in {"complete", "error", "ready"} :
          Says(<<k>>, sent) /\ (k = "ready" => server' = "idle")
    BY <2>1 DEF ServerFinishes
  <2>3. inbox \in Seq(Envelopes) /\ k \in Kinds /\ sent \in Nat
    BY DEF HInv, TInv, QueuesTyped, ClientTyped, Kinds, Messages
  <2>4. Settled'
    BY <1>1, <2>1, <2>2, <2>3, SettledSaid
  <2>5. [kind |-> k, query |-> sent] \in [kind : Kinds, query : {0, sent}]
    BY <2>3
  <2>6. inbox' \in Seq([kind : Kinds, query : {0, sent}])
    BY <2>1, <2>2, <2>3, <2>5, SaidOne
  <2> QED
    BY <1>1, <1>2, <2>1, <2>4, <2>6 DEF Exchange
<1>5. Exchange'
  BY <1>2, <1>4 DEF Exchange
<1> QED
  BY <1>1, <1>3, <1>5, ServerKeeps

LEMMA ExtraHInv ==
  ASSUME HInv, ServerExtra, TInv'
  PROVE  HInv'
<1>1. PICK k \in {"row", "notice", "param", "odd"}, query \in {0, asked} :
        /\ Says(<<k>>, query)
        /\ k = "row" => server = "answering"
        /\ k # "row" => query = 0
  BY DEF ServerExtra
<1>2. /\ server \in {"greeting", "idle", "answering", "closing"}
      /\ UNCHANGED <<clientVars, outbox, server, asked>>
  BY DEF ServerExtra
<1>3. UNCHANGED <<state, pc, transport, sent>>
  BY <1>2 DEF clientVars
<1>4. /\ inbox \in Seq(Envelopes) /\ k \in Kinds \ Challenges /\ k # "ready" /\ query \in Nat
      /\ k # "row" => [kind |-> k, query |-> query] \in Noise
  BY <1>1 DEF HInv, TInv, QueuesTyped, ServerTyped, Kinds, Messages, Undecodable, Challenges, Noise
<1>5. Settled => Settled'
  BY <1>1, <1>2, <1>4, SettledSaid
<1>6. ASSUME pc \in Handshake PROVE During'
  <2>1. /\ inbox \in Seq(Silent) /\ OneTurn /\ Settled /\ k # "row"
    BY <1>1, <1>6 DEF HInv, During
  <2>2. OneChallenge' /\ (InTurn' => InTurn)
    BY <1>1, <1>4, <2>1, NoChallengeSaid DEF OneTurn, OneChallenge
  <2>3. OneTurn'
    BY <1>2, <1>3, <2>1, <2>2 DEF OneTurn, OneChallenge, ClientTurn, OutTurn, ServerTurn
  <2>4. [kind |-> k, query |-> query] \in Silent
    BY <1>1, <1>4, <2>1 DEF Silent
  <2>5. inbox' \in Seq(Silent)
    BY <1>1, <1>4, <2>1, <2>4, SaidOne
  <2> QED
    BY <1>2, <1>3, <1>5, <1>6, <2>1, <2>3, <2>5 DEF HInv, During, OutTurn, ServerTurn
<1>7. ASSUME (pc = "free" /\ state = "Idle") \/ pc \in {"sendQuery", "sendStreamQuery"}
      PROVE  Calm'
  <2>1. inbox \in Seq(Noise) /\ k # "row"
    BY <1>1, <1>7 DEF HInv, Calm
  <2>2. inbox' \in Seq(Noise)
    BY <1>1, <1>4, <2>1, SaidOne
  <2> QED
    BY <1>2, <1>3, <1>7, <2>2 DEF HInv, Calm
<1>8. ASSUME pc \in {"answer", "rowDesc", "drainError", "streaming"} PROVE Exchange'
  <2>1. /\ inbox \in Seq([kind : Kinds, query : {0, sent}]) /\ Settled
        /\ k = "row" => query \in {0, sent}
    BY <1>1, <1>8 DEF HInv, Exchange
  <2>2. [kind |-> k, query |-> query] \in [kind : Kinds, query : {0, sent}]
    BY <1>1, <1>4, <2>1
  <2>3. inbox' \in Seq([kind : Kinds, query : {0, sent}])
    BY <1>1, <1>4, <2>1, <2>2, SaidOne
  <2>4. outbox # <<>> => inbox' \in Seq(Noise)
    <3> SUFFICES ASSUME outbox # <<>> PROVE inbox' \in Seq(Noise)
      OBVIOUS
    <3>1. inbox \in Seq(Noise) /\ server = "idle"
      BY <1>8 DEF HInv, Exchange
    <3> QED
      BY <1>1, <1>4, <3>1, SaidOne
  <2> QED
    BY <1>2, <1>3, <1>5, <1>8, <2>1, <2>3, <2>4 DEF HInv, Exchange
<1>9. Before'
  BY <1>2, <1>3 DEF HInv, Before
<1>10. During' /\ Calm' /\ Exchange'
  BY <1>3, <1>6, <1>7, <1>8 DEF During, Calm, Exchange
<1> QED
  BY <1>2, <1>9, <1>10, ServerKeeps

LEMMA TerminateHInv ==
  ASSUME HInv, ServerTerminate, TInv'
  PROVE  HInv'
<1>1. outbox # <<>> /\ Head(outbox) = "terminate" /\ UNCHANGED clientVars
  BY DEF ServerTerminate
<1>2. UNCHANGED <<state, pc>>
  BY <1>1 DEF clientVars
<1>3. outbox # <<"ssl">> /\ outbox # <<"query">> /\ ~OutTurn
  BY <1>1 DEF OutTurn
<1> QED
  BY <1>1, <1>2, <1>3, ServerKeeps DEF HInv, Before, During, Calm, Exchange

LEMMA LostHInv ==
  ASSUME HInv, ConnectionLost, TInv'
  PROVE  HInv'
<1>1. server' = "gone" /\ outbox' = <<>> /\ UNCHANGED <<clientVars, asked>>
  BY DEF ConnectionLost
<1>2. UNCHANGED <<state, pc, transport, sent>>
  BY <1>1 DEF clientVars
<1>3. /\ Len(inbox') \in Nat /\ Len(inbox) \in Nat /\ Len(inbox') <= Len(inbox)
      /\ \A i \in 1 .. Len(inbox') : inbox'[i] = inbox[i]
      /\ \A S : inbox \in Seq(S) => inbox' \in Seq(S)
  BY Cut DEF ConnectionLost, HInv, TInv, QueuesTyped
<1>4. \A i \in 1 .. Len(inbox') : i \in 1 .. Len(inbox)
  BY <1>3
<1>5. Settled => Settled'
  BY <1>1, <1>3, <1>4 DEF Settled
<1>6. OneTurn => OneTurn'
  BY <1>1, <1>2, <1>3, <1>4 DEF OneTurn, OneChallenge, ClientTurn, OutTurn, ServerTurn, InTurn
<1>7. Before'
  BY <1>1, <1>2, <1>3 DEF HInv, Before
<1>8. During'
  BY <1>1, <1>2, <1>3, <1>5, <1>6 DEF HInv, During, ServerTurn
<1>9. Calm'
  BY <1>1, <1>2, <1>3 DEF HInv, Calm
<1>10. Exchange'
  BY <1>1, <1>2, <1>3, <1>5 DEF HInv, Exchange
<1> QED
  BY <1>1, <1>7, <1>8, <1>9, <1>10, ServerKeeps

LEMMA ServerHInv ==
  ASSUME HInv, Server \/ ServerExtra \/ ConnectionLost
  PROVE  HInv'
<1>1. TInv'
  BY ServerTInv DEF HInv
<1> QED
  BY <1>1, SslHInv, ChallengeHInv, GreetsHInv, QueryHInv, FinishesHInv, ExtraHInv, TerminateHInv,
     LostHInv
  DEF Server

-----------------------------------------------------------------------------
(* A call that returns, or gives its connection up, with something other   *)
(* than a result: the connection is not Idle, and only a startup before    *)
(* its startup message may be tried again.                                 *)
Early == [kind : {"sslS", "sslN", "error", "odd"}, query : {0}]

LEMMA LeaveHInv ==
  ASSUME HInv, TInv', pc' \in {"free", "dropped", "panicked", "shutdown", "upgrade"},
         pc' = "shutdown" => state = "Closed",
         state # "Idle", UNCHANGED <<state, sent, server, asked>>,
         state \in {"Initial", "NegotiatingTls"} =>
           /\ outbox' = <<>> \/ outbox' = <<"ssl">>
           /\ state = "Initial" => outbox' = <<>>
           /\ inbox' \in Seq(Early)
  PROVE  HInv'
<1>1. Where' /\ During' /\ Calm' /\ Exchange'
  BY DEF Where, During, Calm, Exchange, Handshake
<1>2. Before'
  BY DEF HInv, Before, Early
<1> QED
  BY <1>1, <1>2 DEF HInv

(* Where a call can be.                                                    *)
LEMMA InCallIsBusy ==
  ASSUME HInv, InCall
  PROVE  /\ state # "Idle" /\ state # "Initial"
         /\ state = "NegotiatingTls" => pc \in {"sendSsl", "sslAnswer", "upgrade"}
<1>1. pc \in Handshake \cup {"sendSsl", "sslAnswer", "upgrade", "sendQuery", "sendStreamQuery",
                           "answer", "rowDesc", "drainError", "sendTerminate", "shutdown"}
  BY SendsAre DEF InCall, Receives, Handshake
<1> QED
  BY <1>1 DEF HInv, TInv, Placed, Where, Handshake

(* The failed or abandoned handshake takes the connection with it.         *)
LEMMA HandshakeLost ==
  ASSUME HInv, TInv', pc = "upgrade", pc' \in {"free", "dropped"}, state' = state,
         UNCHANGED <<sent, asked>>, server' = "gone", outbox' = <<>>, inbox' = <<>>
  PROVE  HInv'
<1>1. state = "NegotiatingTls"
  BY DEF HInv, TInv, Placed
<1>2. Where' /\ During' /\ Calm' /\ Exchange'
  BY <1>1 DEF Where, During, Calm, Exchange, Handshake
<1>3. Before'
  BY <1>1 DEF HInv, Before
<1> QED
  BY <1>2, <1>3 DEF HInv

(* The startup message is about to be written.                             *)
LEMMA BeginHInv ==
  ASSUME HInv, TInv', state \in {"Initial", "NegotiatingTls"},
         UNCHANGED <<sent, asked, outbox, inbox>>, server' \in {"fresh", "handshake", "gone"},
         state' = "AwaitingAuth", pc' = "sendStartup"
  PROVE  HInv'
<1>1. /\ asked = 0 /\ sent = 0 /\ (outbox = <<>> \/ outbox = <<"ssl">>) /\ inbox \in Seq(Early)
  BY DEF HInv, Before, Early
<1>2. inbox \in Seq(Silent)
  <2>1. Early \subseteq Silent
    BY DEF Early, Silent, Kinds, Messages, Undecodable
  <2> QED
    BY <1>1, <2>1
<1>3. \A i \in 1 .. Len(inbox) : inbox[i].kind \notin Challenges \cup {"ready"}
  <2>1. \A i \in 1 .. Len(inbox) : inbox[i] \in Early
    BY <1>1
  <2>2. \A m \in Early : m.kind \notin Challenges \cup {"ready"}
    BY DEF Early, Challenges
  <2> QED
    BY <2>1, <2>2
<1>4. ~InTurn' /\ ~ServerTurn' /\ ~OutTurn'
  BY <1>1, <1>3 DEF InTurn, ServerTurn, OutTurn
<1>5. OneTurn' /\ Settled'
  BY <1>3, <1>4 DEF OneTurn, OneChallenge, Settled
<1>6. During'
  BY <1>1, <1>2, <1>4, <1>5 DEF During
<1>7. Where' /\ Before' /\ Calm' /\ Exchange'
  BY DEF Where, Before, Calm, Exchange
<1> QED
  BY <1>6, <1>7 DEF HInv

(* A word behind at most the SSLRequest.                                   *)
LEMMA AppendWord ==
  ASSUME NEW m \in Words
  PROVE  Append(<<>>, m) = <<m>> /\ Append(<<"ssl">>, m) = <<"ssl", m>>
<1>1. Append(<<>>, m) = <<m>>
  OBVIOUS
<1>2. "ssl" \in Words
  BY DEF Words
<1>3. <<"ssl">> \in Seq(Words) /\ <<"ssl", m>> \in Seq(Words)
  BY <1>2
<1>4. Len(<<"ssl">>) = 1 /\ <<"ssl">>[1] = "ssl" /\ 1 \in 1 .. 1
  OBVIOUS
<1>5. /\ Append(<<"ssl">>, m) \in Seq(Words) /\ Len(Append(<<"ssl">>, m)) = 2
      /\ Append(<<"ssl">>, m)[1] = "ssl" /\ Append(<<"ssl">>, m)[2] = m
  BY <1>3, <1>4, AppendProperties
<1>6. /\ Len(<<"ssl", m>>) = 2 /\ <<"ssl", m>>[1] = "ssl" /\ <<"ssl", m>>[2] = m
      /\ 1 .. 2 = {1, 2}
  OBVIOUS
<1>7. Append(<<"ssl">>, m) = <<"ssl", m>>
  BY <1>3, <1>5, <1>6, SeqEqual
<1> QED
  BY <1>1, <1>7

LEMMA SendHInv ==
  ASSUME HInv, SendMessage, TInv'
  PROVE  HInv'
<1>1. /\ pc \in Sends /\ transport # "none"
      /\ UNCHANGED <<transport, inbox, server, asked>>
      /\ outbox' = IF server = "gone" THEN outbox ELSE Append(outbox, Outgoing[pc][1])
      /\ state' = Outgoing[pc][2] /\ pc' = Outgoing[pc][3]
      /\ sent' = IF Outgoing[pc][1] = "query" THEN sent + 1 ELSE sent
  BY DEF SendMessage, serverVars
<1>2. CASE pc = "sendSsl"
  <2>1. state = "NegotiatingTls" /\ outbox = <<>> /\ Append(<<>>, "ssl") = <<"ssl">>
    BY <1>2 DEF HInv, Where, Before
  <2>2. /\ state' = "NegotiatingTls" /\ pc' = "sslAnswer" /\ sent' = sent
        /\ outbox' = <<>> \/ outbox' = <<"ssl">>
    BY <1>1, <1>2, <2>1, OutgoingIs
  <2>3. Before'
    BY <1>1, <2>1, <2>2 DEF HInv, Before
  <2>4. Where' /\ During' /\ Calm' /\ Exchange'
    BY <2>2 DEF Where, During, Calm, Exchange, Handshake
  <2> QED
    BY <2>3, <2>4 DEF HInv
<1>3. CASE pc \in {"sendStartup", "sendPassword", "sendSaslInitial", "sendSaslResponse"}
  <2>1. /\ Outgoing[pc][1] \in {"startup", "password", "saslInitial", "saslResponse"}
        /\ state' = "Authenticating" /\ pc' \in {"auth", "saslContinue", "saslFinal"}
        /\ sent' = sent
    BY <1>1, <1>3, OutgoingIs
  <2>2. /\ inbox \in Seq(Silent) /\ Settled /\ OneTurn /\ asked = 0 /\ sent = 0
        /\ ~OutTurn /\ ~ServerTurn /\ ~InTurn
        /\ outbox = <<>> \/ outbox = <<"ssl">>
    BY <1>3 DEF HInv, During, Handshake, OneTurn, OneChallenge, ClientTurn
  <2>3. PICK m \in {"startup", "password", "saslInitial", "saslResponse"} : Outgoing[pc][1] = m
    BY <2>1
  <2>4. ASSUME server # "gone" PROVE OutTurn'
    <3>1. m \in Words
      BY DEF Words
    <3>2. outbox' = <<m>> \/ outbox' = <<"ssl", m>>
      BY <1>1, <2>2, <2>3, <2>4, <3>1, AppendWord
    <3> QED
      BY <3>2 DEF OutTurn
  <2>5. Settled'
    <3>1. CASE server = "gone"
      BY <1>1, <2>2, <3>1 DEF Settled
    <3>2. CASE server # "gone"
      <4>1. \A i \in 1 .. Len(inbox) : inbox[i].kind # "ready"
        BY <2>2, <3>2 DEF Settled, ServerTurn
      <4> QED
        BY <1>1, <4>1 DEF Settled
    <3> QED
      BY <3>1, <3>2
  <2>6. OneTurn'
    BY <1>1, <2>1, <2>2 DEF OneTurn, OneChallenge, ClientTurn, ServerTurn, InTurn
  <2>7. ~ServerTurn'
    BY <1>1, <2>2 DEF ServerTurn
  <2>8. During'
    BY <1>1, <1>3, <2>1, <2>2, <2>4, <2>5, <2>6, <2>7 DEF HInv, During, Handshake
  <2>9. Where' /\ Before' /\ Calm' /\ Exchange'
    BY <2>1 DEF Where, Before, Calm, Exchange
  <2> QED
    BY <2>8, <2>9 DEF HInv
<1>4. CASE pc \in {"sendQuery", "sendStreamQuery"}
  <2>1. /\ Outgoing[pc][1] = "query" /\ state' = "ReadingResults" /\ sent' = sent + 1
        /\ pc' \in {"answer", "rowDesc"}
    BY <1>1, <1>4, OutgoingIs
  <2>2. /\ server \in {"idle", "gone"} /\ outbox = <<>> /\ inbox \in Seq(Noise)
        /\ server = "idle" => asked = sent
    BY <1>4 DEF HInv, Calm
  <2>3. Append(<<>>, "query") = <<"query">>
    OBVIOUS
  <2>4. \/ outbox' = <<"query">> /\ server' = "idle" /\ asked' + 1 = sent' /\ inbox' \in Seq(Noise)
        \/ outbox' = <<>> /\ server' = "gone"
    BY <1>1, <2>1, <2>2, <2>3
  <2>5. \A i \in 1 .. Len(inbox) : inbox[i].kind # "ready"
    <3>1. \A i \in 1 .. Len(inbox) : inbox[i] \in Noise
      BY <2>2
    <3>2. \A m \in Noise : m.kind # "ready"
      BY DEF Noise
    <3> QED
      BY <3>1, <3>2
  <2>6. Settled'
    BY <1>1, <2>5 DEF Settled
  <2>7. inbox' \in Seq([kind : Kinds, query : {0, sent'}])
    <3>1. Noise \subseteq [kind : Kinds, query : {0, sent'}]
      BY DEF Noise, Kinds, Messages, Undecodable
    <3>2. inbox \in Seq([kind : Kinds, query : {0, sent'}])
      BY <2>2, <3>1, SeqMonotonic, Zenon
    <3> QED
      BY <1>1, <3>2
  <2>8. Exchange'
    BY <1>1, <2>2, <2>4, <2>6, <2>7 DEF Exchange
  <2>9. Where' /\ Before' /\ During' /\ Calm'
    BY <2>1 DEF Where, Before, During, Calm, Handshake
  <2> QED
    BY <2>8, <2>9 DEF HInv
<1>5. CASE pc = "sendTerminate"
  <2>1. state' = "Closed" /\ pc' = "shutdown"
    BY <1>1, <1>5, OutgoingIs
  <2>2. Where' /\ Before' /\ During' /\ Calm' /\ Exchange'
    BY <2>1 DEF Where, Before, During, Calm, Exchange, Handshake
  <2> QED
    BY <2>2 DEF HInv
<1> QED
  BY <1>1, <1>2, <1>3, <1>4, <1>5, SendsAre

-----------------------------------------------------------------------------
(* A message is received.                                                  *)
LEMMA TakenSettled ==
  ASSUME inbox \in Seq(Envelopes), inbox # <<>>, inbox' = Tail(inbox),
         UNCHANGED <<server, outbox>>, Settled
  PROVE  Settled'
<1>1. /\ Len(inbox) \in Nat /\ Len(inbox') = Len(inbox) - 1
      /\ \A i \in 1 .. Len(inbox') : i + 1 \in 1 .. Len(inbox) /\ inbox'[i] = inbox[i + 1]
  BY Taken
<1> SUFFICES ASSUME NEW i \in 1 .. Len(inbox'), inbox'[i].kind = "ready"
             PROVE  /\ server' \in {"idle", "gone"} /\ outbox' = <<>>
                    /\ \A j \in 1 .. Len(inbox') : j > i => inbox'[j] \in Noise
  BY DEF Settled
<1>2. i + 1 \in 1 .. Len(inbox) /\ inbox[i + 1].kind = "ready"
  BY <1>1
<1>3. /\ server \in {"idle", "gone"} /\ outbox = <<>>
      /\ \A j \in 1 .. Len(inbox) : j > i + 1 => inbox[j] \in Noise
  BY <1>2 DEF Settled
<1>4. ASSUME NEW j \in 1 .. Len(inbox'), j > i
      PROVE  inbox'[j] \in Noise
  BY <1>1, <1>3, <1>4
<1> QED
  BY <1>3, <1>4

(* ... and it is the last of an answer.                                    *)
LEMMA TakenReady ==
  ASSUME inbox \in Seq(Envelopes), inbox # <<>>, inbox' = Tail(inbox),
         Head(inbox).kind = "ready", Settled
  PROVE  server \in {"idle", "gone"} /\ outbox = <<>> /\ inbox' \in Seq(Noise)
<1>1. /\ Len(inbox) \in Nat /\ 1 \in 1 .. Len(inbox) /\ Head(inbox) = inbox[1]
      /\ Len(inbox') = Len(inbox) - 1
      /\ \A i \in 1 .. Len(inbox') : i + 1 \in 1 .. Len(inbox) /\ inbox'[i] = inbox[i + 1]
      /\ inbox' \in Seq(Envelopes)
  BY Taken
<1>2. /\ server \in {"idle", "gone"} /\ outbox = <<>>
      /\ \A j \in 1 .. Len(inbox) : j > 1 => inbox[j] \in Noise
  BY <1>1 DEF Settled
<1>3. \A i \in 1 .. Len(inbox') : inbox'[i] \in Noise
  BY <1>1, <1>2
<1>4. inbox' \in Seq(Noise)
  BY <1>1, <1>3, SeqOfElements
<1> QED
  BY <1>2, <1>4

(* During a startup: the client takes the turn only with a challenge.      *)
LEMMA TakenDuring ==
  ASSUME HInv, inbox # <<>>, inbox' = Tail(inbox),
         UNCHANGED <<transport, server, outbox, asked, sent>>,
         pc \in {"auth", "saslContinue", "saslFinal"}, pc' \in Handshake \ {"sendStartup"},
         ClientTurn' => Head(inbox).kind \in Challenges
  PROVE  During'
<1>1. /\ asked = 0 /\ sent = 0 /\ transport # "none"
      /\ server \in {"fresh", "handshake", "password", "sasl", "proof", "greeting", "idle", "gone"}
      /\ OutTurn \/ outbox = <<>> \/ outbox = <<"ssl">>
      /\ ServerTurn => outbox = <<>>
      /\ inbox \in Seq(Silent) /\ OneTurn /\ Settled
  BY DEF HInv, During, Handshake
<1>2. inbox \in Seq(Envelopes)
  BY DEF HInv, TInv, QueuesTyped
<1>3. /\ Len(inbox) \in Nat /\ 1 \in 1 .. Len(inbox) /\ Head(inbox) = inbox[1]
      /\ Len(inbox') = Len(inbox) - 1
      /\ \A i \in 1 .. Len(inbox') : i + 1 \in 1 .. Len(inbox) /\ inbox'[i] = inbox[i + 1]
      /\ inbox' \in Seq(Silent)
  BY <1>1, <1>2, Taken
<1>4. Settled'
  BY <1>1, <1>2, TakenSettled
<1>5. (OutTurn' <=> OutTurn) /\ (ServerTurn' <=> ServerTurn)
  BY DEF OutTurn, ServerTurn
<1>6. InTurn' => InTurn
  BY <1>3 DEF InTurn
<1>7. ASSUME NEW i \in 1 .. Len(inbox'), NEW j \in 1 .. Len(inbox'),
             inbox'[i].kind \in Challenges, inbox'[j].kind \in Challenges
      PROVE  i = j
  <2>1. i + 1 = j + 1
    BY <1>1, <1>3, <1>7 DEF OneTurn, OneChallenge
  <2> QED
    BY <2>1
<1>8. ClientTurn' => InTurn /\ ~InTurn'
  <2> SUFFICES ASSUME ClientTurn' PROVE InTurn /\ ~InTurn'
    OBVIOUS
  <2>1. inbox[1].kind \in Challenges
    BY <1>3
  <2>2. \A i \in 1 .. Len(inbox') : i + 1 # 1
    BY <1>3
  <2>3. ~InTurn'
    BY <1>1, <1>3, <2>1, <2>2 DEF InTurn, OneTurn, OneChallenge
  <2> QED
    BY <1>3, <2>1, <2>3 DEF InTurn
<1>9. OneTurn'
  BY <1>1, <1>5, <1>6, <1>7, <1>8 DEF OneTurn, OneChallenge
<1> QED
  BY <1>1, <1>3, <1>4, <1>5, <1>9 DEF During

(* During an answer.                                                       *)
LEMMA TakenExchange ==
  ASSUME HInv, inbox # <<>>, inbox' = Tail(inbox),
         UNCHANGED <<transport, server, outbox, asked, sent>>,
         pc \in {"answer", "rowDesc", "drainError"}
  PROVE  Exchange'
<1>1. /\ transport # "none" /\ server \in {"idle", "answering", "closing", "gone"}
      /\ \/ outbox = <<"query">> /\ server = "idle" /\ asked + 1 = sent /\ inbox \in Seq(Noise)
         \/ outbox = <<>> /\ (server # "gone" => asked = sent)
      /\ inbox \in Seq([kind : Kinds, query : {0, sent}]) /\ Settled
  BY DEF HInv, Exchange
<1>2. inbox \in Seq(Envelopes)
  BY DEF HInv, TInv, QueuesTyped
<1>3. Settled'
  BY <1>1, <1>2, TakenSettled
<1>4. \A S : inbox \in Seq(S) => inbox' \in Seq(S)
  BY <1>2, Taken
<1> QED
  BY <1>1, <1>3, <1>4 DEF Exchange

LEMMA AuthHInv ==
  ASSUME HInv, Auth \/ Sasl, TInv'
  PROVE  HInv'
<1>1. /\ pc \in {"auth", "saslContinue", "saslFinal"} /\ inbox # <<>> /\ inbox' = Tail(inbox)
      /\ UNCHANGED <<transport, server, outbox, asked, sent>>
  BY DEF Auth, Sasl, Receive, serverVars
<1>2. state = "Authenticating"
  BY <1>1 DEF HInv, Where
<1>3. CASE state' = state /\ pc' \in {"auth", "sendPassword", "sendSaslInitial", "sendSaslResponse",
                                      "saslFinal"}
           /\ (ClientTurn' => Head(inbox).kind \in Challenges)
  <2>1. During'
    BY <1>1, <1>3, TakenDuring DEF Handshake
  <2>2. Where' /\ Before' /\ Calm' /\ Exchange'
    BY <1>2, <1>3 DEF Where, Before, Calm, Exchange
  <2> QED
    BY <2>1, <2>2 DEF HInv
<1>4. CASE state' = state /\ \E r \in {"authentication", "protocol"} : Return(r)
  BY <1>1, <1>2, <1>4, ReturnTyped, LeaveHInv
<1>5. CASE Receive("auth", {"ready"}) /\ state' = "Idle" /\ Return("ok")
  <2>1. pc = "auth" /\ Head(inbox).kind = "ready"
    BY <1>5 DEF Receive
  <2>2. asked = 0 /\ sent = 0 /\ transport # "none" /\ Settled
    BY <2>1 DEF HInv, During, Handshake
  <2>3. server \in {"idle", "gone"} /\ outbox = <<>> /\ inbox' \in Seq(Noise)
    BY <1>1, <2>1, <2>2, TakenReady DEF HInv, TInv, QueuesTyped
  <2>4. pc' \in {"free", "dropped"}
    BY <1>5, ReturnTyped
  <2>5. Calm'
    BY <1>1, <2>2, <2>3 DEF Calm
  <2>6. Where' /\ Before' /\ During' /\ Exchange'
    BY <1>5, <2>4 DEF Where, Before, During, Exchange, Handshake
  <2> QED
    BY <2>5, <2>6 DEF HInv
<1>6. CASE Auth
  BY <1>3, <1>4, <1>5, <1>6 DEF Auth, Receive, ClientTurn, Challenges
<1>7. CASE Sasl
  BY <1>3, <1>4, <1>7 DEF Sasl, Receive, ClientTurn, Challenges
<1> QED
  BY <1>6, <1>7

LEMMA AnswerHInv ==
  ASSUME HInv, Answer \/ RowDesc \/ DrainError, TInv'
  PROVE  HInv'
<1>1. /\ pc \in {"answer", "rowDesc", "drainError"} /\ inbox # <<>> /\ inbox' = Tail(inbox)
      /\ UNCHANGED <<transport, server, outbox, asked, sent>>
  BY DEF Answer, RowDesc, DrainError, Receive, serverVars
<1>2. state = "ReadingResults"
  BY <1>1 DEF HInv, TInv, Placed
<1>3. CASE state' = state /\ pc' \in {"answer", "rowDesc", "drainError", "streaming"}
  <2>1. Exchange'
    BY <1>1, TakenExchange
  <2>2. Where' /\ Before' /\ During' /\ Calm'
    BY <1>2, <1>3 DEF Where, Before, During, Calm, Handshake
  <2> QED
    BY <2>1, <2>2 DEF HInv
<1>4. CASE state' = state /\ \E r \in {"schema", "protocol", "sql"} : Return(r)
  BY <1>1, <1>2, <1>4, ReturnTyped, LeaveHInv
<1>5. CASE Receive("answer", {"ready"}) /\ state' = "Idle" /\ Return("ok")
  <2>1. pc = "answer" /\ Head(inbox).kind = "ready"
    BY <1>5 DEF Receive
  <2>2. Settled /\ transport # "none"
    BY <2>1 DEF HInv, Exchange
  <2>3. server \in {"idle", "gone"} /\ outbox = <<>> /\ inbox' \in Seq(Noise)
    BY <1>1, <2>1, <2>2, TakenReady DEF HInv, TInv, QueuesTyped
  <2>4. server = "idle" => asked = sent
    BY <2>1, <2>3 DEF HInv, Exchange
  <2>5. pc' \in {"free", "dropped"}
    BY <1>5, ReturnTyped
  <2>6. Calm'
    BY <1>1, <2>2, <2>3, <2>4 DEF Calm
  <2>7. Where' /\ Before' /\ During' /\ Exchange'
    BY <1>5, <2>5 DEF Where, Before, During, Exchange, Handshake
  <2> QED
    BY <2>6, <2>7 DEF HInv
<1>6. CASE Answer
  BY <1>1, <1>3, <1>5, <1>6 DEF Answer
<1>7. CASE RowDesc
  BY <1>1, <1>3, <1>4, <1>7 DEF RowDesc
<1>8. CASE DrainError
  BY <1>1, <1>3, <1>4, <1>8 DEF DrainError
<1> QED
  BY <1>6, <1>7, <1>8

LEMMA NegotiateHInv ==
  ASSUME HInv, SslAnswer \/ SslClosed \/ Upgrade \/ UpgradeFails, TInv'
  PROVE  HInv'
<1>1. pc \in {"sslAnswer", "upgrade"}
  BY DEF SslAnswer, SslClosed, Upgrade, UpgradeFails, Receive
<1>2. /\ state = "NegotiatingTls" /\ server \in {"fresh", "handshake", "gone"}
      /\ outbox = <<>> \/ outbox = <<"ssl">>
      /\ inbox \in Seq(Early)
  BY <1>1 DEF HInv, TInv, Placed, Before, Early
<1>3. inbox \in Seq(Envelopes)
  BY DEF HInv, TInv, QueuesTyped
<1>4. CASE SslAnswer
  <2>1. /\ state' = state /\ UNCHANGED <<sent, server, asked, outbox>>
        /\ pc' \in {"upgrade", "free", "dropped"}
    BY <1>4, ReturnTyped DEF SslAnswer, Receive, serverVars
  <2>2. inbox' \in Seq(Early)
    <3>1. CASE inbox # <<>> /\ inbox' = Tail(inbox)
      BY <1>2, <1>3, <3>1, Taken
    <3>2. CASE inbox # <<>> /\ inbox' = [inbox EXCEPT ![1].kind = "odd"]
      <4>1. 1 \in 1 .. Len(inbox) /\ inbox[1] \in Early
        BY <1>2, <3>2
      <4>2. [inbox[1] EXCEPT !.kind = "odd"] \in Early
        BY <4>1 DEF Early
      <4>3. inbox' = [inbox EXCEPT ![1] = [inbox[1] EXCEPT !.kind = "odd"]]
        BY <3>2
      <4> QED
        BY <1>2, <4>1, <4>2, <4>3, ExceptSeq
    <3> QED
      BY <1>4, <3>1, <3>2 DEF SslAnswer, Receive
  <2> QED
    BY <1>2, <2>1, <2>2, LeaveHInv
<1>5. CASE SslClosed
  BY <1>2, <1>5, ReturnTyped, LeaveHInv DEF SslClosed, serverVars
<1>6. CASE Upgrade
  BY <1>2, <1>6, BeginHInv DEF Upgrade
<1>7. CASE UpgradeFails
  BY <1>7, ReturnTyped, HandshakeLost DEF UpgradeFails
<1> QED
  BY <1>4, <1>5, <1>6, <1>7

LEMMA FailureHInv ==
  ASSUME HInv, SendFails \/ SendPanics \/ ReceiveClosed \/ Shutdown, TInv'
  PROVE  HInv'
<1>1. /\ UNCHANGED <<state, sent, outbox, inbox, server, asked>>
      /\ InCall
      /\ pc' \in {"free", "dropped", "panicked", "shutdown"}
      /\ pc' = "shutdown" => pc = "sendTerminate"
  BY ReturnTyped DEF SendFails, SendPanics, ReceiveClosed, Shutdown, serverVars, InCall
<1>2. state # "Idle" /\ state # "Initial"
  BY <1>1, InCallIsBusy
<1>3. pc = "sendTerminate" => state = "Closed"
  BY DEF HInv, Where
<1> QED
  BY <1>1, <1>2, <1>3, LeaveHInv DEF HInv, Before, Early

LEMMA DroppedHInv ==
  ASSUME HInv, CallDropped, TInv'
  PROVE  HInv'
<1>1. /\ InCall /\ pc' \in {"free", "dropped"} /\ UNCHANGED <<state, sent, asked>>
  BY ReturnTyped DEF CallDropped
<1>2. CASE pc = "upgrade"
  BY <1>1, <1>2, HandshakeLost DEF CallDropped
<1>3. CASE pc # "upgrade"
  <2>1. /\ UNCHANGED <<server, inbox>>
        /\ outbox' = outbox \/ (pc \in Sends /\ outbox' = Append(outbox, Outgoing[pc][1]))
    BY <1>3 DEF CallDropped
  <2>2. /\ state # "Idle" /\ state # "Initial"
        /\ state = "NegotiatingTls" => pc \in {"sendSsl", "sslAnswer"}
    BY <1>1, <1>3, InCallIsBusy
  <2>3. ASSUME state = "NegotiatingTls"
        PROVE  (outbox' = <<>> \/ outbox' = <<"ssl">>) /\ inbox' \in Seq(Early)
    <3>1. /\ outbox = <<>> \/ outbox = <<"ssl">>
          /\ pc = "sendSsl" => outbox = <<>>
          /\ inbox \in Seq(Early)
      BY <2>3 DEF HInv, Before, Early
    <3>2. Append(<<>>, "ssl") = <<"ssl">>
      OBVIOUS
    <3>3. pc \in Sends => pc = "sendSsl" /\ Outgoing[pc][1] = "ssl"
      BY <2>2, <2>3, SendsAre, OutgoingIs
    <3>4. outbox' = outbox \/ outbox' = <<"ssl">>
      BY <2>1, <3>1, <3>2, <3>3
    <3> QED
      BY <2>1, <3>1, <3>4
  <2> QED
    BY <1>1, <2>1, <2>2, <2>3, LeaveHInv
<1> QED
  BY <1>2, <1>3

LEMMA CallHInv ==
  ASSUME HInv, Call \/ ConnectionDropped, TInv'
  PROVE  HInv'
<1>1. pc = "free" /\ UNCHANGED <<transport, sent, outbox, inbox, server, asked>>
  BY DEF Call, Startup, SimpleQuery, StreamingQuery, Close, ConnectionDropped, serverVars
<1>2. CASE UNCHANGED state /\ pc' \in {"free", "dropped"}
  <2>1. Where' /\ During' /\ Exchange'
    BY <1>2 DEF Where, During, Exchange, Handshake
  <2>2. Before' /\ Calm'
    BY <1>1, <1>2 DEF HInv, Before, Calm
  <2> QED
    BY <2>1, <2>2 DEF HInv
<1>3. CASE Startup
  <2>1. CASE \E r \in {"invalidState", "config"} : Return(r) /\ UNCHANGED state
    BY <1>2, <2>1, ReturnTyped
  <2>2. CASE CanTransition(state, "NegotiatingTls") /\ state' = "NegotiatingTls" /\ pc' = "sendSsl"
    <3>1. state = "Initial"
      BY <2>2 DEF CanTransition
    <3>2. Before'
      BY <1>1, <2>2, <3>1 DEF HInv, Before
    <3>3. Where' /\ During' /\ Calm' /\ Exchange'
      BY <2>2 DEF Where, During, Calm, Exchange, Handshake
    <3> QED
      BY <3>2, <3>3 DEF HInv
  <2>3. CASE CanTransition(state, "AwaitingAuth") /\ state' = "AwaitingAuth" /\ pc' = "sendStartup"
    <3>1. state \in {"Initial", "NegotiatingTls"}
      BY <2>3 DEF CanTransition
    <3>2. server \in {"fresh", "handshake", "gone"}
      BY <3>1 DEF HInv, Before
    <3> QED
      BY <1>1, <2>3, <3>1, <3>2, BeginHInv
  <2> QED
    BY <1>3, <2>1, <2>2, <2>3 DEF Startup
<1>4. CASE SimpleQuery \/ StreamingQuery
  <2>1. CASE state # "Idle"
    BY <1>2, <1>4, <2>1, ReturnTyped DEF SimpleQuery, StreamingQuery
  <2>2. CASE state = "Idle"
    <3>1. state' = "QueryInProgress" /\ pc' \in {"sendQuery", "sendStreamQuery"}
      BY <1>4, <2>2 DEF SimpleQuery, StreamingQuery
    <3>2. Calm'
      BY <1>1, <2>2, <3>1 DEF HInv, Calm
    <3>3. Where' /\ Before' /\ During' /\ Exchange'
      BY <3>1 DEF Where, Before, During, Exchange, Handshake
    <3> QED
      BY <3>2, <3>3 DEF HInv
  <2> QED
    BY <2>1, <2>2
<1>5. CASE Close
  <2>1. state' = "Closed" /\ pc' = "sendTerminate"
    BY <1>5 DEF Close
  <2>2. Where' /\ Before' /\ During' /\ Calm' /\ Exchange'
    BY <2>1 DEF Where, Before, During, Calm, Exchange, Handshake
  <2> QED
    BY <2>2 DEF HInv
<1>6. CASE ConnectionDropped
  BY <1>2, <1>6 DEF ConnectionDropped
<1> QED
  BY <1>3, <1>4, <1>5, <1>6 DEF Call

LEMMA HInvStep == HInv /\ [Next]_vars => HInv'
<1> SUFFICES ASSUME HInv, [Next]_vars PROVE HInv'
  OBVIOUS
<1>1. TInv'
  BY TInvStep DEF HInv
<1>2. CASE UNCHANGED vars
  <2>1. UNCHANGED <<state, transport, pc, sent, outbox, inbox, server, asked>>
    BY <1>2 DEF vars, clientVars, serverVars
  <2>2. Settled' <=> Settled
    BY <2>1 DEF Settled
  <2>3. OneTurn' <=> OneTurn
    BY <2>1 DEF OneTurn, OneChallenge, ClientTurn, OutTurn, ServerTurn, InTurn
  <2>4. During'
    BY <2>1, <2>2, <2>3 DEF HInv, During, OutTurn, ServerTurn
  <2>5. Where' /\ Before' /\ Calm' /\ Exchange'
    BY <2>1, <2>2 DEF HInv, Where, Before, Calm, Exchange
  <2> QED
    BY <1>1, <2>4, <2>5 DEF HInv
<1>3. CASE Server \/ ServerExtra \/ ConnectionLost
  BY <1>3, ServerHInv
<1>4. CASE Progress
  BY <1>1, <1>4, SendHInv, FailureHInv, NegotiateHInv, AuthHInv, AnswerHInv DEF Progress
<1>5. CASE Call \/ ConnectionDropped \/ CallDropped
  BY <1>1, <1>5, CallHInv, DroppedHInv
<1> QED
  BY <1>2, <1>3, <1>4, <1>5 DEF Next, Over

-----------------------------------------------------------------------------
(* A connection that is ready for a query is in step with its server:      *)
(* every query was answered to the end and nothing of a startup or an      *)
(* answer is left unread, whatever failed or was abandoned before.         *)
THEOREM Synchronous == Spec => []InStep
<1>1. HInv => InStep
  <2> SUFFICES ASSUME HInv, pc = "free", state = "Idle"
               PROVE  /\ transport # "none" /\ server \in {"idle", "gone"} /\ outbox = <<>>
                      /\ \A i \in DOMAIN inbox : inbox[i].kind \in {"notice", "param", "odd"}
    BY DEF InStep
  <2>1. /\ transport # "none" /\ server \in {"idle", "gone"} /\ outbox = <<>>
        /\ inbox \in Seq(Noise)
    BY DEF HInv, Calm
  <2>2. \A i \in DOMAIN inbox : inbox[i] \in Noise
    BY <2>1, LenProperties, ElementOfSeq
  <2> QED
    BY <2>1, <2>2 DEF Noise
<1> QED
  BY <1>1, HInvInit, HInvStep, PTL DEF Spec

(* A call that reads an answer, and the reader task that the connection is *)
(* handed to, can only meet messages of the query that was sent last.      *)
THEOREM OwnAnswers == Spec => []AnswersMatch
<1>1. HInv => AnswersMatch
  <2> SUFFICES ASSUME HInv, pc \in {"answer", "rowDesc", "drainError", "streaming"}
               PROVE  \A i \in DOMAIN inbox : inbox[i].query \in {0, sent}
    BY DEF AnswersMatch
  <2> DEFINE S == [kind : Kinds, query : {0, sent}]
  <2>1. inbox \in Seq(S)
    BY DEF HInv, Exchange
  <2>2. \A i \in DOMAIN inbox : inbox[i] \in S
    BY <2>1, LenProperties, ElementOfSeq
  <2> QED
    BY <2>2
<1> QED
  BY <1>1, HInvInit, HInvStep, PTL DEF Spec
=============================================================================
