------------------------------- MODULE Login -------------------------------
(***************************************************************************)
(* From a connection string to a connection that is ready: the four entry  *)
(* points of FraiseClient (fraise_client.rs), the transport                *)
(* (transport.rs), startup, negotiate_tls, authenticate and handle_sasl    *)
(* (conn.rs).  Connection models the same calls for what an abandoned or   *)
(* failed one leaves behind; here one call runs to its end, and what it is *)
(* given and what it sends are modelled instead.                           *)
(*                                                                         *)
(* The server is external.  It has a certificate and the verifier of one   *)
(* password, and may refuse or misspell whatever it likes, or answer what  *)
(* decode_message has an error for: an authentication type other than the  *)
(* six it knows (GSS, SSPI, Kerberos), a message tag it does not know.     *)
(***************************************************************************)
EXTENDS ConnectionString, Scram

CONSTANTS
  Strings,    \* connection strings handed in
  Configs,    \* ConnectionConfigs handed in
  Builders,   \* TlsConfigBuilders handed in
  Servers     \* servers: [password, issuer, name, mechanisms]

VARIABLES
  opened,     \* the entry point and what it was given
  info,       \* the parsed string, once there is one
  tls,        \* the TlsConfig for the startup, if any
  config,     \* the ConnectionConfig for the startup
  hostname,   \* the host name for the startup, if any
  transport,  \* "none", "plain", "tls" or "unix"
  pc,         \* the await of the call
  scram,      \* [client, mechanism] of the running SASL exchange, if any
  expected,   \* what verifies the server's final message, if it is awaited
  outbox,     \* messages to the server, each with the transport it went over
  inbox,      \* messages to the client
  server,     \* the server
  online,     \* the server has not closed the connection
  dialog,     \* what the server remembers of the SASL exchange, if there is one
  signed,     \* history: what the server signed, and with which password
  proved      \* history: handle_sasl has returned Ok

clientVars == <<opened, info, tls, config, hostname, transport, pc, scram, expected, proved>>
serverVars == <<server, online, dialog, signed>>
loginVars == <<clientVars, outbox, inbox, serverVars>>

Entries == {"connect", "connect_tls", "connect_with_config", "connect_with_config_and_tls"}
Receiving == {"sslAnswer", "auth", "saslContinue", "saslFinal"}

-----------------------------------------------------------------------------
LoginInit ==
  /\ opened = <<>> /\ info = <<>> /\ tls = <<>> /\ config = <<>> /\ hostname = <<>>
  /\ transport = "none" /\ pc = "new" /\ scram = <<>> /\ expected = <<>> /\ proved = FALSE
  /\ outbox = <<>> /\ inbox = <<>>
  /\ server \in Servers /\ online = TRUE /\ dialog = <<>> /\ signed = <<>>

Goes(next) == pc' = next /\ UNCHANGED <<opened, info, tls, config, hostname>>
Sends(kind, body) == outbox' = Append(outbox, [kind |-> kind, body |-> body, over |-> transport'])
Fails ==
  /\ Goes("failed")
  /\ UNCHANGED <<transport, scram, expected, proved, outbox, inbox, serverVars>>

(* What an entry point makes of what it is given, up to its first await;   *)
(* nothing when it returns an error.  The two that take a TlsConfig refuse *)
(* a socket; the others build one from the string's sslmode and files,     *)
(* even if the ConnectionConfig asks for something else.                   *)
Prepare(entry, str, given, builder) ==
  LET parsed == Parse(str)
      own == ToTlsConfig(parsed[1])
  IN  IF parsed = <<>> THEN <<>>
      ELSE IF entry \in {"connect", "connect_with_config"}
      THEN IF own = <<>> THEN <<>>
           ELSE <<[tls |-> own[1], hostname |-> parsed[1].host,
                   config |-> IF entry = "connect" THEN ToConfig(parsed[1]) ELSE given]>>
      ELSE IF parsed[1].transport = "unix" THEN <<>>
      ELSE <<[tls |-> BuildTls(builder), hostname |-> parsed[1].host,
              config |-> IF entry = "connect_tls"
                         THEN [ToConfig(parsed[1]) EXCEPT !.sslmode = "require"] ELSE given]>>

Connect(entry, str, given, builder) ==
  /\ pc = "new"
  /\ BuildTls(builder) # <<>>
  /\ LET ready == Prepare(entry, str, given, builder)
     IN  /\ opened' = <<[entry |-> entry, string |-> str, config |-> given, builder |-> builder]>>
         /\ IF ready = <<>>
            THEN pc' = "failed" /\ UNCHANGED <<info, tls, config, hostname>>
            ELSE /\ pc' = "dial" /\ info' = Parse(str)
                 /\ tls' = ready[1].tls /\ hostname' = ready[1].hostname
                 /\ config' = <<ready[1].config>>
  /\ UNCHANGED <<transport, scram, expected, proved, outbox, inbox, serverVars>>

(* connect_tcp or connect_unix.                                            *)
Dial ==
  /\ pc = "dial"
  /\ transport' = IF info[1].transport = "unix" THEN "unix" ELSE "plain"
  /\ Goes("startup")
  /\ UNCHANGED <<scram, expected, proved, outbox, inbox, serverVars>>
DialFails == pc = "dial" /\ Fails

SendStartup == Goes("auth") /\ Sends("startup", StartupParams(config[1]))

(* Faulty variant: TLS is begun without a configuration or a host name.    *)
StartupUnchecked ==
  /\ pc = "startup"
  /\ UNCHANGED transport
  /\ IF config[1].sslmode = "disable" THEN SendStartup
     ELSE Goes("sslAnswer") /\ Sends("ssl", {})
  /\ UNCHANGED <<scram, expected, proved, inbox, serverVars>>

Startup ==
  /\ pc = "startup"
  /\ config[1].sslmode = "disable" \/ (tls # <<>> /\ hostname # <<>>)
  /\ UNCHANGED transport
  /\ IF config[1].sslmode = "disable" THEN SendStartup
     ELSE Goes("sslAnswer") /\ Sends("ssl", {})
  /\ UNCHANGED <<scram, expected, proved, inbox, serverVars>>

StartupFails ==
  /\ pc = "startup"
  /\ config[1].sslmode # "disable" /\ (tls = <<>> \/ hostname = <<>>)
  /\ Fails

-----------------------------------------------------------------------------
(* Receive(await, kind): the call takes the next message of the server.    *)
Receive(await, kind) == pc = await /\ inbox # <<>> /\ Head(inbox).kind = kind
Taken == inbox' = Tail(inbox) /\ UNCHANGED serverVars

(* Any other message that decodes is an error of the call.                 *)
Refuses(await, kinds) ==
  pc = await /\ inbox # <<>> /\ Head(inbox).kind \notin kinds \cup {"odd"} /\ Fails

(* receive_message takes an error of decode_message for a message of which *)
(* a part is missing: it stays first in the buffer, and the call reads on  *)
(* until the connection ends.                                              *)
Undecodable == pc \in Receiving /\ inbox # <<>> /\ Head(inbox).kind = "odd"

ReceiveClosed == pc \in Receiving /\ (inbox = <<>> \/ Undecodable) /\ ~online /\ Fails

(* Faulty variant: a server without TLS is spoken to without it.           *)
SslAnswerPrefers ==
  \/ Receive("sslAnswer", "S") /\ Goes("upgrade") /\ Taken
     /\ UNCHANGED <<transport, scram, expected, proved, outbox>>
  \/ Receive("sslAnswer", "N") /\ UNCHANGED transport /\ SendStartup /\ Taken
     /\ UNCHANGED <<scram, expected, proved>>

SslAnswer ==
  \/ /\ Receive("sslAnswer", "S")
     /\ Goes("upgrade") /\ Taken
     /\ UNCHANGED <<transport, scram, expected, proved, outbox>>
  \/ Refuses("sslAnswer", {"S"})

(* The handshake (external): rustls always verifies issuer and name.       *)
Handshake == server.issuer \in tls[1].roots /\ ParseServerName(hostname[1]) = <<server.name>>

(* upgrade_to_tls, then on with startup.                                   *)
Upgrade ==
  /\ pc = "upgrade" /\ transport = "plain" /\ Handshake
  /\ transport' = "tls"
  /\ SendStartup
  /\ UNCHANGED <<scram, expected, proved, inbox, serverVars>>
UpgradeFails == pc = "upgrade" /\ (transport # "plain" \/ ~Handshake) /\ Fails

-----------------------------------------------------------------------------
(* Messages authenticate reads over; AuthenticationOk is one of them.      *)
ReadOver ==
  /\ \E kind \in {"authOk", "keyData", "paramStatus"} : Receive("auth", kind)
  /\ Taken /\ Goes("auth")
  /\ UNCHANGED <<transport, scram, expected, proved, outbox>>

Ready ==
  /\ Receive("auth", "ready")
  /\ Taken /\ Goes("ready")
  /\ UNCHANGED <<transport, scram, expected, proved, outbox>>

(* Faulty variant: reads on without an answer.                             *)
CleartextUnanswered ==
  /\ Receive("auth", "cleartext")
  /\ Taken /\ Goes("auth")
  /\ UNCHANGED <<transport, scram, expected, proved, outbox>>

Cleartext ==
  /\ Receive("auth", "cleartext")
  /\ UNCHANGED <<transport, scram, expected, proved>>
  /\ IF config[1].password = <<>>
     THEN Goes("failed") /\ Taken /\ UNCHANGED outbox
     ELSE Goes("auth") /\ Taken /\ Sends("password", config[1].password[1])

(* The server's certificate, known here by its issuer.                     *)
ChannelBindingData == IF transport = "tls" THEN <<server.issuer>> ELSE <<>>

(* With the stronger mechanism on offer and no TLS the plain one is asked  *)
(* for, whether it is on offer or not.                                     *)
Mechanism(mechanisms) ==
  IF "SCRAM-SHA-256-PLUS" \in mechanisms
  THEN IF ChannelBindingData # <<>> THEN <<"SCRAM-SHA-256-PLUS">> ELSE <<"SCRAM-SHA-256">>
  ELSE IF "SCRAM-SHA-256" \in mechanisms THEN <<"SCRAM-SHA-256">> ELSE <<>>

(* handle_sasl, to its first await.                                        *)
Sasl ==
  /\ Receive("auth", "sasl")
  /\ LET chosen == Mechanism(Head(inbox).body)
         binding == IF chosen = <<"SCRAM-SHA-256-PLUS">> THEN ChannelBindingData ELSE <<>>
         client == WithChannelBinding(config[1].user, config[1].password[1], "fresh", binding)
     IN  IF chosen = <<>> \/ config[1].password = <<>>
         THEN Goes("failed") /\ UNCHANGED <<scram, transport, outbox>>
         ELSE /\ scram' = <<[client |-> client, mechanism |-> chosen[1]]>>
              /\ Goes("saslContinue") /\ UNCHANGED transport
              /\ Sends("saslInitial", [mechanism |-> chosen[1], first |-> ClientFirst(client)])
  /\ Taken /\ UNCHANGED <<expected, proved>>

SaslContinue ==
  /\ Receive("saslContinue", "saslContinue")
  /\ LET final == IF Head(inbox).utf8 THEN ClientFinal(scram[1].client, Head(inbox).body) ELSE <<>>
     IN  IF final = <<>>
         THEN Goes("failed") /\ UNCHANGED <<expected, transport, outbox>>
         ELSE /\ expected' = <<[message |-> final[1].message, serverKey |-> final[1].serverKey]>>
              /\ Goes("saslFinal") /\ UNCHANGED transport
              /\ Sends("saslResponse", final[1].final)
  /\ Taken /\ UNCHANGED <<scram, proved>>

SaslFinal ==
  /\ Receive("saslFinal", "saslFinal")
  /\ proved' = (Head(inbox).utf8 /\ VerifyServerFinal(Head(inbox).body, expected[1]))
  /\ Goes(IF proved' THEN "auth" ELSE "failed")
  /\ Taken /\ UNCHANGED <<scram, expected, transport, outbox>>

(* MD5, a SASL message that was not asked for, an ErrorResponse or any     *)
(* other message that decodes ends the call.                               *)
AuthFails ==
  \/ Refuses("auth", {"authOk", "cleartext", "sasl", "keyData", "paramStatus", "ready"})
  \/ Refuses("saslContinue", {"saslContinue"})
  \/ Refuses("saslFinal", {"saslFinal"})

-----------------------------------------------------------------------------
(* The server and the network (external).                                  *)
Answers(kind, messages) ==
  /\ online /\ outbox # <<>> /\ Head(outbox).kind = kind
  /\ outbox' = Tail(outbox)
  /\ inbox' = inbox \o messages
  /\ UNCHANGED <<clientVars, server, online>>

Says(kind) == <<[kind |-> kind]>>
Welcome == Says("authOk") \o Says("paramStatus") \o Says("keyData") \o Says("ready")

(* Whatever it is asked, it may refuse, with a message or without.         *)
ServerRefuses ==
  /\ online /\ outbox # <<>>
  /\ outbox' = Tail(outbox) /\ online' = FALSE
  /\ inbox' \in {inbox, inbox \o Says("error")}
  /\ UNCHANGED <<clientVars, server, dialog, signed>>

(* What it says to anything but the request for TLS may be undecodable to  *)
(* the client, with the rest of a welcome behind it or nothing; and it may *)
(* give up on a client that does not answer.                               *)
ServerOdd ==
  /\ online /\ outbox # <<>> /\ Head(outbox).kind # "ssl"
  /\ outbox' = Tail(outbox)
  /\ inbox' \in {inbox \o Says("odd"), inbox \o Says("odd") \o Welcome}
  /\ UNCHANGED <<clientVars, server, online, dialog, signed>>
ServerGivesUp ==
  /\ online /\ Undecodable
  /\ online' = FALSE
  /\ UNCHANGED <<clientVars, outbox, inbox, server, dialog, signed>>

ServerSsl ==
  /\ \E answer \in {"S", "N", "?"} : Answers("ssl", Says(answer))
  /\ UNCHANGED <<dialog, signed>>

ServerStartup ==
  /\ \E answer \in {Welcome, Says("cleartext"), Says("md5"), Says("saslFinal"),
                    <<[kind |-> "sasl", body |-> server.mechanisms]>>} : Answers("startup", answer)
  /\ UNCHANGED <<dialog, signed>>

ServerPassword ==
  /\ Answers("password", IF Head(outbox).body = server.password THEN Welcome ELSE Says("error"))
  /\ UNCHANGED <<dialog, signed>>

(* The first message of a server, as it should be or with one defect.      *)
Defects == {"none", "utf8", "stale", "no nonce", "no salt", "salt", "iterations"}
FirstFields(nonce, defect) ==
  <<<<"r", CASE defect = "stale" -> <<"old", "server">> [] defect = "no nonce" -> <<>>
             [] OTHER -> <<nonce, "server">>>>,
    <<"s", CASE defect = "no salt" -> <<>> [] defect = "salt" -> <<"?">> [] OTHER -> <<"salt">>>>,
    <<"i", IF defect = "iterations" THEN <<"?">> ELSE <<"4096">>>>>>

ServerSaslInitial ==
  /\ \E defect \in Defects :
       LET asked == Head(outbox).body
           fields == FirstFields(asked.first.nonce, defect)
       IN  /\ Answers("saslInitial",
                      IF asked.mechanism \notin server.mechanisms THEN Says("error")
                      ELSE <<[kind |-> "saslContinue", utf8 |-> defect # "utf8", body |-> fields]>>)
           /\ dialog' = <<[asked |-> asked, fields |-> fields]>>
  /\ UNCHANGED signed

(* It answers a proof it cannot confirm with an error or with a signature  *)
(* of its own, and may misspell the signature.  It is lenient: it takes    *)
(* the bare first message for what the client takes it for, and the header *)
(* in c= for right though it is not the one of that message; one that does *)
(* not refuses instead.                                                    *)
ServerSaslResponse ==
  /\ online /\ outbox # <<>> /\ Head(outbox).kind = "saslResponse"
  /\ LET asked == dialog[1].asked
         salt == FieldOf(dialog[1].fields, "s")
         iterations == FieldOf(dialog[1].fields, "i")
         message == AuthMessage(asked.first.user, asked.first.nonce, dialog[1].fields,
                                Head(outbox).body.withoutProof)
         key == CalculateServerKey(server.password, salt, iterations)
         binding == IF asked.mechanism = "SCRAM-SHA-256-PLUS" THEN <<server.issuer>> ELSE <<>>
         confirmed ==
           /\ Head(outbox).body.proof
                = CalculateClientProof(server.password, salt, iterations, message)
           /\ Head(outbox).body.withoutProof.c = Gs2Cbind(binding)
     IN  \E prefix \in {"v=", "e="}, legible \in BOOLEAN, utf8 \in BOOLEAN :
           LET final == [kind |-> "saslFinal", utf8 |-> utf8,
                         body |-> [prefix |-> prefix, legible |-> legible,
                                   signature |-> CalculateServerSignature(key, message)]]
           IN  /\ \/ confirmed /\ Answers("saslResponse", <<final>> \o Welcome)
                  \/ ~confirmed /\ Answers("saslResponse", <<final, [kind |-> "ready"]>>)
               /\ signed' = <<[message |-> message, password |-> server.password]>>
  /\ UNCHANGED dialog

-----------------------------------------------------------------------------
Calls ==
  \E entry \in Entries, str \in Strings, given \in Configs, builder \in Builders :
    Connect(entry, str, given, builder)

ClientNext ==
  \/ Calls \/ Dial \/ Startup \/ SslAnswer \/ Upgrade
  \/ ReadOver \/ Ready \/ Cleartext \/ Sasl \/ SaslContinue \/ SaslFinal
  \/ StartupFails \/ UpgradeFails \/ AuthFails \/ ReceiveClosed
ServerNext ==
  \/ ServerRefuses \/ ServerOdd \/ ServerSsl \/ ServerStartup \/ ServerPassword
  \/ ServerSaslInitial \/ ServerSaslResponse
LoginNext == ClientNext \/ ServerNext \/ DialFails \/ ServerGivesUp

(* The caller polls the call, and the server answers or closes.            *)
LoginSpec ==
  LoginInit /\ [][LoginNext]_loginVars /\ WF_loginVars(ClientNext) /\ WF_loginVars(ServerNext)

-----------------------------------------------------------------------------
(* The variables keep their types, and what an await needs is there.       *)
LoginType ==
  /\ transport \in {"none", "plain", "tls", "unix"}
  /\ pc \in Receiving \cup {"new", "dial", "startup", "upgrade", "ready", "failed"}
  /\ server \in Servers /\ online \in BOOLEAN /\ proved \in BOOLEAN
  /\ pc \notin {"new", "failed"} => info # <<>> /\ config # <<>>
  /\ pc \in {"sslAnswer", "upgrade"} => tls # <<>> /\ hostname # <<>> /\ transport = "plain"
  /\ pc = "saslContinue" => scram # <<>>
  /\ pc = "saslFinal" => scram # <<>> /\ expected # <<>>
  /\ transport = "unix" => hostname = <<>>

(* A SASL exchange ends well only with a server that has this password and *)
(* signed what this client sent and received in this exchange, under the   *)
(* strongest mechanism the two can use; and once it has begun there is no  *)
(* ready connection without it.                                            *)
ServerProved ==
  /\ proved =>
       /\ signed = <<[message |-> expected[1].message, password |-> config[1].password[1]]>>
       /\ dialog[1].asked.mechanism = scram[1].mechanism
       /\ scram[1].mechanism = "SCRAM-SHA-256-PLUS"
            <=> transport = "tls" /\ "SCRAM-SHA-256-PLUS" \in server.mechanisms
  /\ pc = "ready" /\ scram # <<>> => proved

(* The sslmode in force, and who may vouch for a server.  The two entry    *)
(* points that take a ConnectionConfig follow that one alone, whatever the *)
(* string says and although a TlsConfig is handed in.                      *)
ModeInForce ==
  LET str == opened[1].string
  IN  CASE opened[1].entry = "connect" ->
             IF str.unix THEN "disable"
             ELSE Default(ParseQueryParam(str.query, "sslmode"), "disable")
        [] opened[1].entry = "connect_tls" -> "require"
        [] OTHER -> opened[1].config.sslmode
CertsOf(named) ==
  IF named = <<>> THEN SystemCerts.certs
  ELSE LET certs == ItemsOf(named[1], {"cert"}) IN {certs[i][2] : i \in DOMAIN certs}
RootsInForce ==
  CertsOf(IF opened[1].entry \in {"connect", "connect_with_config"}
          THEN ParseQueryParam(opened[1].string.query, "sslrootcert") ELSE opened[1].builder.ca)

(* The sslmode in force is kept to: when it wants TLS, nothing but the     *)
(* request for it goes over a plain transport, whatever the server answers *)
(* to that; otherwise nothing goes over TLS; and the authority behind the  *)
(* server's certificate is one named by the string or by the TlsConfig,    *)
(* whichever of the two is in force.                                       *)
EncryptedAsConfigured ==
  /\ \A i \in DOMAIN outbox :
       outbox[i].kind # "ssl" => (outbox[i].over = "tls" <=> ModeInForce # "disable")
  /\ transport = "tls" => server.issuer \in RootsInForce

(* Whoever asked for TLS gets it: no entry point leaves unused the sslmode *)
(* of a string from which it builds the TlsConfig, nor a TlsConfig it is   *)
(* handed.  fraise_client.rs:105-106 on connect_with_config: "The          *)
(* connection configuration is merged with parameters from the connection  *)
(* string."  Lines 157-158 on connect_with_config_and_tls: it "combines    *)
(* connection configuration (timeouts, keepalive, etc.) with TLS           *)
(* encryption via the PostgreSQL SSLRequest protocol".  The code has these *)
(* two go by the sslmode of the configuration alone, "disable" by default. *)
AsksForTls ==
  LET str == opened[1].string
  IN  \/ opened[1].entry \in {"connect_tls", "connect_with_config_and_tls"}
      \/ Default(ParseQueryParam(str.query, "sslmode"), "disable") # "disable"
EncryptedAsAsked ==
  pc # "new" /\ ~opened[1].string.unix /\ AsksForTls =>
    \A i \in DOMAIN outbox : outbox[i].kind # "ssl" => outbox[i].over = "tls"

(* A call that has begun returns, with a connection or with an error, if   *)
(* the server answers or closes, unless it waits behind a message that     *)
(* does not decode: but for that, neither waits for the other to speak.    *)
LoginEnds == (pc # "new" ~> pc \in {"ready", "failed"}) \/ <>[]Undecodable
=============================================================================
