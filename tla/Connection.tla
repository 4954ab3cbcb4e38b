----------------------------- MODULE Connection -----------------------------
(***************************************************************************)
(* Connection (conn.rs) and its state machine (state.rs): TLS negotiation, *)
(* startup and authentication, simple_query, the head of streaming_query   *)
(* up to the point where RowPipeline takes over, and close.                *)
(*                                                                         *)
(* A connection has one owner, so its calls come one at a time; but every  *)
(* call is a future that can be dropped at any of its awaits.  pc is the   *)
(* await the running call is at.  startup and simple_query borrow the      *)
(* connection, which lives on when they fail or are dropped;               *)
(* streaming_query and close own it.                                       *)
(*                                                                         *)
(* The server and the network are external.  A message of the server       *)
(* carries the number of the query it answers, 0 for none: a history for   *)
(* the properties, which the client does not look at.                      *)
(***************************************************************************)
EXTENDS Naturals, Sequences

CONSTANTS
  MaxStartups,  \* bound: calls of startup
  MaxQueries,   \* bound: queries sent
  MaxExtras     \* bound: rows, unsolicited and undecodable messages

ASSUME BoundsAssumption == {MaxStartups, MaxQueries, MaxExtras} \subseteq Nat

VARIABLES
  state,      \* ConnectionState
  transport,  \* "plain", "tls", or "none" once it has been taken
  pc,         \* the await of the running call
  wantTls,    \* the sslmode of the running startup is not Disable
  result,     \* what the last call returned
  startups,   \* calls of startup so far
  sent,       \* queries sent
  outbox,     \* messages on their way to the server
  inbox,      \* messages on their way to the client
  server,     \* the phase the server is in
  asked,      \* queries the server has taken
  extras      \* extra messages the server has sent

clientVars == <<state, transport, pc, wantTls, result, startups, sent>>
serverVars == <<server, asked, extras>>
vars == <<clientVars, serverVars, outbox, inbox>>

-----------------------------------------------------------------------------
States == {"Initial", "NegotiatingTls", "AwaitingAuth", "Authenticating", "Idle",
           "QueryInProgress", "ReadingResults", "Closed"}

CanTransition(from, to) ==
  \/ to = "Closed"
  \/ <<from, to>> \in
       {<<"Initial", "NegotiatingTls">>, <<"Initial", "AwaitingAuth">>,
        <<"NegotiatingTls", "AwaitingAuth">>, <<"AwaitingAuth", "Authenticating">>,
        <<"Authenticating", "Idle">>, <<"Idle", "QueryInProgress">>,
        <<"QueryInProgress", "ReadingResults">>, <<"ReadingResults", "Idle">>}

(* The awaits that write, with the message, the state and the await that   *)
(* follow it.                                                              *)
Outgoing ==
  [sendSsl          |-> <<"ssl",          "NegotiatingTls", "sslAnswer">>,
   sendStartup      |-> <<"startup",      "Authenticating", "auth">>,
   sendPassword     |-> <<"password",     "Authenticating", "auth">>,
   sendSaslInitial  |-> <<"saslInitial",  "Authenticating", "saslContinue">>,
   sendSaslResponse |-> <<"saslResponse", "Authenticating", "saslFinal">>,
   sendQuery        |-> <<"query",        "ReadingResults", "answer">>,
   sendStreamQuery  |-> <<"query",        "ReadingResults", "rowDesc">>,
   sendTerminate    |-> <<"terminate",    "Closed",         "shutdown">>]
Sends == DOMAIN Outgoing
Receives == {"auth", "saslContinue", "saslFinal", "answer", "rowDesc", "drainError"}

(* Awaits of the calls that own the connection.                            *)
Owning == {"sendStreamQuery", "rowDesc", "drainError", "sendTerminate", "shutdown"}
InCall == pc \in Sends \cup Receives \cup {"sslAnswer", "upgrade", "shutdown"}

Init ==
  /\ state = "Initial" /\ transport = "plain" /\ pc = "free"
  /\ wantTls = FALSE /\ result = "none" /\ startups = 0 /\ sent = 0
  /\ outbox = <<>> /\ inbox = <<>>
  /\ server = "fresh" /\ asked = 0 /\ extras = 0

-----------------------------------------------------------------------------
(* The server (external).                                                  *)
Says(kinds, query) ==
  inbox' = inbox \o [i \in 1 .. Len(kinds) |-> [kind |-> kinds[i], query |-> query]]

(* The server takes the next message of the client, answers it with one of *)
(* the given sequences of kinds and is in the phase that goes with it.     *)
Takes(phase, message, answers) ==
  /\ server = phase
  /\ outbox # <<>> /\ Head(outbox) = message /\ outbox' = Tail(outbox)
  /\ \E a \in answers : Says(a[1], 0) /\ server' = a[2]
  /\ UNCHANGED <<clientVars, asked, extras>>

Refusal == <<<<"error">>, "gone">>
Welcome == <<<<"authOk">>, "greeting">>

ServerSsl == Takes("fresh", "ssl", {<<<<"sslS">>, "handshake">>, <<<<"sslN">>, "fresh">>, Refusal})
ServerStartup ==
  Takes("fresh", "startup",
        {Welcome, <<<<"cleartext">>, "password">>, <<<<"md5">>, "password">>,
         <<<<"sasl">>, "sasl">>, <<<<"odd">>, "password">>, Refusal})
ServerPassword == Takes("password", "password", {Welcome, Refusal})
ServerSasl == Takes("sasl", "saslInitial", {<<<<"saslContinue">>, "proof">>, Refusal})
ServerProof ==
  Takes("proof", "saslResponse", {<<<<"saslFinal", "authOk">>, "greeting">>, Refusal})

ServerGreets ==
  /\ server = "greeting"
  /\ Says(<<"key", "ready">>, 0) /\ server' = "idle"
  /\ UNCHANGED <<clientVars, outbox, asked, extras>>

ServerQuery ==
  /\ server = "idle"
  /\ outbox # <<>> /\ Head(outbox) = "query" /\ outbox' = Tail(outbox)
  /\ asked' = asked + 1
  /\ \/ Says(<<"rowDesc">>, asked') /\ server' = "answering"
     \/ Says(<<"complete">>, asked') /\ server' = "closing"
     \/ Says(<<"error">>, asked') /\ server' = "closing"
  /\ UNCHANGED <<clientVars, extras>>

ServerFinishes ==
  /\ \/ /\ server = "answering" /\ server' = "closing"
        /\ \E k \in {"complete", "error"} : Says(<<k>>, asked)
     \/ server = "closing" /\ server' = "idle" /\ Says(<<"ready">>, asked)
  /\ UNCHANGED <<clientVars, outbox, asked, extras>>

(* A row; a notice, a parameter change; a message decode_message does not  *)
(* know (NotificationResponse, EmptyQueryResponse).  The one ServerStartup *)
(* may send is a method of authentication it does not know.                *)
ServerExtra ==
  /\ extras < MaxExtras /\ extras' = extras + 1
  /\ \/ server = "answering" /\ Says(<<"row">>, asked)
     \/ /\ server \in {"greeting", "idle", "answering", "closing"}
        /\ \E k \in {"notice", "param"} : Says(<<k>>, 0)
     \/ server \in {"idle", "answering", "closing"} /\ Says(<<"odd">>, 0)
  /\ UNCHANGED <<clientVars, outbox, server, asked>>

ServerTerminate ==
  /\ server # "gone"
  /\ outbox # <<>> /\ Head(outbox) = "terminate"
  /\ server' = "gone" /\ outbox' = Tail(outbox)
  /\ UNCHANGED <<clientVars, inbox, asked, extras>>

(* The network may lose the connection with what is in flight.             *)
ConnectionLost ==
  /\ server # "gone" /\ server' = "gone"
  /\ outbox' = <<>>
  /\ \E n \in 0 .. Len(inbox) : inbox' = SubSeq(inbox, 1, n)
  /\ UNCHANGED <<clientVars, asked, extras>>

Server ==
  \/ ServerSsl \/ ServerStartup \/ ServerPassword \/ ServerSasl \/ ServerProof
  \/ ServerGreets \/ ServerQuery \/ ServerFinishes \/ ServerTerminate

-----------------------------------------------------------------------------
(* A call returns; the connection of a call that owns it is dropped.       *)
Return(r) ==
  /\ result' = r
  /\ pc' = IF pc \in Owning THEN "dropped" ELSE "free"

(* Faulty variant: the transition after the write is forgotten.            *)
SendMessageOnly ==
  /\ pc \in Sends
  /\ transport # "none"
  /\ LET step == Outgoing[pc]
     IN  /\ outbox' = IF server = "gone" THEN outbox ELSE Append(outbox, step[1])
         /\ pc' = step[3]
         /\ sent' = IF step[1] = "query" THEN sent + 1 ELSE sent
  /\ UNCHANGED <<state, transport, wantTls, result, startups, inbox, serverVars>>

(* send_message                                                            *)
SendMessage ==
  /\ pc \in Sends
  /\ transport # "none"
  /\ LET step == Outgoing[pc]
     IN  /\ outbox' = IF server = "gone" THEN outbox ELSE Append(outbox, step[1])
         /\ state' = step[2] /\ pc' = step[3]
         /\ sent' = IF step[1] = "query" THEN sent + 1 ELSE sent
  /\ UNCHANGED <<transport, wantTls, result, startups, inbox, serverVars>>

(* The write fails; close ignores that.                                    *)
SendFails ==
  /\ pc \in Sends
  /\ transport # "none" /\ server = "gone"
  /\ IF pc = "sendTerminate" THEN pc' = "shutdown" /\ UNCHANGED result ELSE Return("io")
  /\ UNCHANGED <<state, transport, wantTls, startups, sent, outbox, inbox, serverVars>>

(* expect("transport not available") fails.                                *)
SendPanics ==
  /\ pc \in Sends
  /\ transport = "none"
  /\ pc' = "panicked"
  /\ UNCHANGED <<state, transport, wantTls, result, startups, sent, outbox, inbox, serverVars>>

(* receive_message, at the given await, yields a message of these kinds.   *)
Receive(at, kinds) ==
  /\ pc = at
  /\ inbox # <<>> /\ Head(inbox).kind \in kinds
  /\ inbox' = Tail(inbox)
  /\ UNCHANGED <<transport, wantTls, startups, sent, outbox, serverVars>>

(* A message that cannot be decoded counts as incomplete: receive_message  *)
(* waits for more bytes.  So does the SSL answer of an abandoned           *)
(* negotiation, which is no message at all.                                *)
Undecodable == {"odd", "sslS", "sslN"}
Stuck == pc \in Receives /\ inbox # <<>> /\ Head(inbox).kind \in Undecodable

Messages == {"authOk", "cleartext", "md5", "sasl", "saslContinue", "saslFinal", "key", "ready",
             "error", "notice", "param", "rowDesc", "row", "complete"}

ReceiveClosed ==
  /\ pc \in Receives
  /\ server = "gone" /\ (inbox = <<>> \/ Stuck)
  /\ Return("closed")
  /\ UNCHANGED <<state, transport, wantTls, startups, sent, outbox, inbox, serverVars>>

-----------------------------------------------------------------------------
(* startup, up to its first await.  With TLS it also needs a TlsConfig and *)
(* a hostname.                                                             *)
Startup ==
  /\ pc = "free" /\ startups < MaxStartups
  /\ startups' = startups + 1
  /\ wantTls' \in BOOLEAN
  /\ LET to == IF wantTls' THEN "NegotiatingTls" ELSE "AwaitingAuth"
     IN  \/ /\ CanTransition(state, to) /\ state' = to
            /\ pc' = IF wantTls' THEN "sendSsl" ELSE "sendStartup"
            /\ UNCHANGED result
         \/ ~CanTransition(state, to) /\ Return("invalidState") /\ UNCHANGED state
         \/ wantTls' /\ Return("config") /\ UNCHANGED state
  /\ UNCHANGED <<transport, sent, outbox, inbox, serverVars>>

(* Faulty variant: a server without TLS is talked to in the clear.         *)
SslAnswerPrefers ==
  /\ Receive("sslAnswer", {"sslS", "sslN"})
  /\ IF Head(inbox).kind = "sslS"
       THEN pc' = "upgrade" /\ UNCHANGED state
       ELSE state' = "AwaitingAuth" /\ pc' = "sendStartup"
  /\ UNCHANGED result

(* negotiate_tls reads the server's one-byte answer; any other byte is the *)
(* first of a message, whose rest stays in the buffer and cannot be decoded. *)
SslAnswer ==
  /\ \/ Receive("sslAnswer", {"sslS"}) /\ pc' = "upgrade" /\ UNCHANGED result
     \/ Receive("sslAnswer", {"sslN"}) /\ Return("config")
     \/ /\ pc = "sslAnswer" /\ inbox # <<>> /\ Head(inbox).kind \in Messages
        /\ inbox' = [inbox EXCEPT ![1].kind = "odd"]
        /\ Return("protocol")
        /\ UNCHANGED <<transport, wantTls, startups, sent, outbox, serverVars>>
  /\ UNCHANGED state
SslClosed ==
  /\ pc = "sslAnswer" /\ server = "gone" /\ inbox = <<>>
  /\ Return("closed")
  /\ UNCHANGED <<state, transport, wantTls, startups, sent, outbox, inbox, serverVars>>

(* The transport is taken out of the connection for the TLS handshake and  *)
(* put back when that has succeeded.                                       *)
Upgrade ==
  /\ pc = "upgrade" /\ server = "handshake"
  /\ transport' = "tls" /\ server' = "fresh"
  /\ state' = "AwaitingAuth" /\ pc' = "sendStartup"
  /\ UNCHANGED <<wantTls, result, startups, sent, outbox, inbox, asked, extras>>
UpgradeFails ==
  /\ pc = "upgrade"
  /\ transport' = "none" /\ server' = "gone" /\ outbox' = <<>> /\ inbox' = <<>>
  /\ Return("config")
  /\ UNCHANGED <<state, wantTls, startups, sent, asked, extras>>

(* authenticate.  A password may be missing and the SASL mechanisms may    *)
(* not be supported: both are errors of the configuration.                 *)
Auth ==
  \/ /\ Receive("auth", {"authOk", "key", "param"})
     /\ UNCHANGED <<state, pc, result>>
  \/ /\ Receive("auth", {"cleartext"})
     /\ pc' = "sendPassword" /\ UNCHANGED <<state, result>>
  \/ /\ Receive("auth", {"sasl"})
     /\ pc' = "sendSaslInitial" /\ UNCHANGED <<state, result>>
  \/ /\ Receive("auth", {"cleartext", "md5", "sasl", "error"})
     /\ Return("authentication") /\ UNCHANGED state
  \/ /\ Receive("auth", {"saslContinue", "saslFinal", "notice", "rowDesc", "row", "complete"})
     /\ Return("protocol") /\ UNCHANGED state
  \/ /\ Receive("auth", {"ready"})
     /\ state' = "Idle" /\ Return("ok")

(* handle_sasl; a message that SCRAM does not accept is an error too.      *)
Sasl ==
  /\ \/ /\ Receive("saslContinue", {"saslContinue"})
        /\ pc' = "sendSaslResponse" /\ UNCHANGED result
     \/ /\ Receive("saslFinal", {"saslFinal"})
        /\ pc' = "auth" /\ UNCHANGED result
     \/ /\ \/ Receive("saslContinue", {"saslContinue", "error"})
           \/ Receive("saslFinal", {"saslFinal", "error"})
        /\ Return("authentication")
     \/ /\ \/ Receive("saslContinue", Messages \ {"saslContinue", "error"})
           \/ Receive("saslFinal", Messages \ {"saslFinal", "error"})
        /\ Return("protocol")
  /\ UNCHANGED state

-----------------------------------------------------------------------------
(* simple_query                                                            *)
SimpleQuery ==
  /\ pc = "free" /\ sent < MaxQueries
  /\ IF state = "Idle"
       THEN state' = "QueryInProgress" /\ pc' = "sendQuery" /\ UNCHANGED result
       ELSE Return("busy") /\ UNCHANGED state
  /\ UNCHANGED <<transport, wantTls, startups, sent, outbox, inbox, serverVars>>

(* Faulty variant: CommandComplete or an error is taken for the end.       *)
AnswerEndsEarly ==
  \/ Receive("answer", Messages \ {"complete", "error"}) /\ UNCHANGED <<state, pc, result>>
  \/ Receive("answer", {"complete", "error"}) /\ state' = "Idle" /\ Return("ok")

Answer ==
  \/ Receive("answer", Messages \ {"ready"}) /\ UNCHANGED <<state, pc, result>>
  \/ Receive("answer", {"ready"}) /\ state' = "Idle" /\ Return("ok")

(* streaming_query                                                         *)
StreamingQuery ==
  /\ pc = "free" /\ sent < MaxQueries
  /\ IF state = "Idle"
       THEN state' = "QueryInProgress" /\ pc' = "sendStreamQuery" /\ UNCHANGED result
       ELSE result' = "busy" /\ pc' = "dropped" /\ UNCHANGED state
  /\ UNCHANGED <<transport, wantTls, startups, sent, outbox, inbox, serverVars>>

(* The message before the first row.  A RowDescription that validates      *)
(* hands the connection over to the reader task.                           *)
RowDesc ==
  /\ \/ Receive("rowDesc", {"key", "param", "notice"}) /\ UNCHANGED <<pc, result>>
     \/ Receive("rowDesc", {"rowDesc"}) /\ pc' = "streaming" /\ result' = "ok"
     \/ Receive("rowDesc", {"rowDesc"}) /\ Return("schema")
     \/ Receive("rowDesc", {"error"}) /\ pc' = "drainError" /\ UNCHANGED result
     \/ /\ Receive("rowDesc", Messages \ {"key", "param", "notice", "rowDesc", "error"})
        /\ Return("protocol")
  /\ UNCHANGED state

(* Faulty variant: the rest of a failed query is expected to be complete.  *)
DrainErrorToComplete ==
  /\ \/ Receive("drainError", Messages \ {"complete"}) /\ UNCHANGED <<pc, result>>
     \/ Receive("drainError", {"complete"}) /\ Return("sql")
  /\ UNCHANGED state

(* After ErrorResponse everything up to ReadyForQuery is skipped.          *)
DrainError ==
  /\ \/ Receive("drainError", Messages \ {"ready"}) /\ UNCHANGED <<pc, result>>
     \/ Receive("drainError", {"ready"}) /\ Return("sql")
  /\ UNCHANGED state

(* close                                                                   *)
Close ==
  /\ pc = "free"
  /\ state' = "Closed" /\ pc' = "sendTerminate"
  /\ UNCHANGED <<transport, wantTls, result, startups, sent, outbox, inbox, serverVars>>

(* transport.shutdown(), well or badly; the connection is dropped.         *)
Shutdown ==
  /\ pc = "shutdown"
  /\ \E r \in {"ok", "io"} : Return(r)
  /\ UNCHANGED <<state, transport, wantTls, startups, sent, outbox, inbox, serverVars>>

-----------------------------------------------------------------------------
(* Faulty variant: an abandoned call makes the connection usable again.    *)
CallDroppedResets ==
  /\ InCall
  /\ Return("abandoned")
  /\ state' = IF state = "ReadingResults" THEN "Idle" ELSE state
  /\ IF pc = "upgrade"
       THEN transport' = "none" /\ server' = "gone" /\ outbox' = <<>> /\ inbox' = <<>>
       ELSE UNCHANGED <<transport, server, outbox, inbox>>
  /\ UNCHANGED <<wantTls, startups, sent, asked, extras>>

(* The future of the running call is dropped: with the transport if it is  *)
(* in the middle of the TLS handshake, and before or after the message is  *)
(* out if it is writing one (one that is out in part is not modelled).     *)
CallDropped ==
  /\ InCall
  /\ Return("abandoned")
  /\ IF pc = "upgrade"
       THEN transport' = "none" /\ server' = "gone" /\ outbox' = <<>> /\ inbox' = <<>>
       ELSE /\ \/ UNCHANGED outbox
               \/ /\ pc \in Sends /\ transport # "none" /\ server # "gone"
                  /\ outbox' = Append(outbox, Outgoing[pc][1])
            /\ UNCHANGED <<transport, server, inbox>>
  /\ UNCHANGED <<state, wantTls, startups, sent, asked, extras>>

ConnectionDropped ==
  /\ pc = "free" /\ pc' = "dropped"
  /\ UNCHANGED <<state, transport, wantTls, result, startups, sent, outbox, inbox, serverVars>>

(* A step of the running call.                                             *)
Progress ==
  \/ SendMessage \/ SendFails \/ SendPanics \/ ReceiveClosed
  \/ SslAnswer \/ SslClosed \/ Upgrade \/ UpgradeFails \/ Auth \/ Sasl
  \/ Answer \/ RowDesc \/ DrainError \/ Shutdown

Call == Startup \/ SimpleQuery \/ StreamingQuery \/ Close

(* The connection is gone, or the reader task of RowPipeline has it.       *)
Over == pc \in {"dropped", "streaming", "panicked"} /\ UNCHANGED vars

Next ==
  Server \/ ServerExtra \/ ConnectionLost \/ Progress \/ Call
    \/ CallDropped \/ ConnectionDropped \/ Over

Spec == Init /\ [][Next]_vars

(* The runtime polls the running call, and the server does its part.       *)
LiveSpec == Spec /\ WF_vars(Progress) /\ WF_vars(Server)

-----------------------------------------------------------------------------
Envelopes == [kind : Messages \cup Undecodable, query : Nat]

TypeOK ==
  /\ state \in States /\ transport \in {"plain", "tls", "none"}
  /\ InCall \/ pc \in {"free", "dropped", "streaming", "panicked"}
  /\ wantTls \in BOOLEAN
  /\ {startups, sent, asked, extras} \subseteq Nat
  /\ outbox \in Seq({Outgoing[s][1] : s \in Sends})
  /\ inbox \in Seq(Envelopes)
  /\ server \in {"fresh", "handshake", "password", "sasl", "proof", "greeting", "idle",
                 "answering", "closing", "gone"}
  /\ pc \in {"upgrade", "sslAnswer"} => state = "NegotiatingTls" /\ transport = "plain"
  /\ pc \in {"answer", "rowDesc", "drainError", "streaming"} => state = "ReadingResults"

(* A connection that is ready for a query is in step with its server:      *)
(* every query was answered to the end and nothing of a startup or an      *)
(* answer is left unread, whatever failed or was abandoned before.         *)
InStep ==
  pc = "free" /\ state = "Idle" =>
    /\ transport # "none" /\ server \in {"idle", "gone"} /\ outbox = <<>>
    /\ \A i \in DOMAIN inbox : inbox[i].kind \in {"notice", "param", "odd"}

(* A call that reads an answer, and the reader task that the connection is *)
(* handed to, can only meet messages of the query that was sent last.      *)
AnswersMatch ==
  pc \in {"answer", "rowDesc", "drainError", "streaming"} =>
    \A i \in DOMAIN inbox : inbox[i].query \in {0, sent}

(* A startup that asks for TLS sends nothing but the SSLRequest before the *)
(* transport is encrypted.                                                 *)
TlsFirst ==
  wantTls /\ pc \in {"sendStartup", "auth", "sendPassword", "sendSaslInitial", "saslContinue",
                     "sendSaslResponse", "saslFinal"}
    => transport = "tls"

(* A call returns, whatever the server answers and even when the           *)
(* connection is lost, unless a message that cannot be decoded is in its   *)
(* way: client and server never wait for each other.                       *)
CallReturns == InCall ~> ~InCall \/ Stuck

(* conn.rs, line 629: the transport is there whenever a message is sent.   *)
TransportAvailable == pc # "panicked"

(* PRD.md, line 117: "Fail fast on unexpected schema or protocol states".  *)
FailsFast == Stuck ~> ~Stuck
=============================================================================
