----------------------------- MODULE LoginProofs -----------------------------
(***************************************************************************)
(* That a login keeps to its configuration, for every set of strings,      *)
(* configurations and servers: nothing but the request for TLS goes over a *)
(* plain transport when the sslmode in force wants TLS, and a SASL         *)
(* exchange ends well only with a server that knows the password.          *)
(*                                                                         *)
(* The invariant says where the conversation is.  The two sides take       *)
(* turns: at most one message is on its way to the server, and while it is *)
(* nothing is on its way back.  So a message the client answers is the     *)
(* last of the server's, and what the client and the server remember of    *)
(* the SASL exchange belongs to the same exchange.                         *)
(***************************************************************************)
EXTENDS Login, SequenceTheorems, TLAPS

(* A sequence, of whatever values.                                         *)
IsSeq(s) == s \in Seq(Range(s))

(* Messages that are the last of what the server says in one turn.         *)
LastWords == {"S", "N", "?", "cleartext", "md5", "sasl", "saslContinue", "error"}

Turns ==
  /\ IsSeq(outbox) /\ IsSeq(inbox)
  /\ Len(outbox) <= 1
  /\ outbox # <<>> => inbox = <<>>
  /\ pc \in {"new", "dial", "startup", "upgrade"} => outbox = <<>> /\ inbox = <<>>
  /\ \A i \in DOMAIN inbox : inbox[i].kind \in LastWords => Len(inbox) = 1

(* What the call was given and what it has made of it.                     *)
Prepared ==
  /\ pc = "new" => config = <<>> /\ tls = <<>> /\ info = <<>> /\ hostname = <<>>
  /\ pc \in {"new", "dial"} => transport = "none"
  /\ pc = "startup" => transport \in {"plain", "unix"}
  /\ config # <<>> => config[1].sslmode = ModeInForce
  /\ tls # <<>> => tls[1].roots \subseteq RootsInForce
  /\ info # <<>> /\ info[1].transport = "unix" => hostname = <<>>

(* Once startup has sent its first message, the transport is the one the   *)
(* mode wants, or on its way to be.                                        *)
Channel ==
  /\ pc \in {"sslAnswer", "upgrade"} => ModeInForce # "disable"
  /\ pc \in {"auth", "saslContinue", "saslFinal", "ready"} =>
       (transport = "tls" <=> ModeInForce # "disable")

(* The SASL exchange: none yet, or the one that scram describes.           *)
NoExchange ==
  /\ expected = <<>> /\ dialog = <<>> /\ signed = <<>> /\ ~proved
  /\ \A i \in DOMAIN outbox : outbox[i].kind \in {"ssl", "startup", "password"}
  /\ \A i \in DOMAIN inbox : inbox[i].kind = "sasl" => inbox[i].body = server.mechanisms
  /\ pc \notin {"saslContinue", "saslFinal"}

Exchange ==
  /\ pc \in {"saslContinue", "saslFinal", "auth", "ready", "failed"}
  /\ config # <<>> /\ scram[1].client.password = config[1].password[1]
  /\ scram[1].mechanism = "SCRAM-SHA-256-PLUS"
       <=> transport = "tls" /\ "SCRAM-SHA-256-PLUS" \in server.mechanisms
  /\ \A i \in DOMAIN outbox : outbox[i].kind \in {"saslInitial", "saslResponse"}
  /\ \A i \in DOMAIN inbox : inbox[i].kind \notin {"cleartext", "sasl"}

(* Before the client's final message, and from then on.                    *)
Opening ==
  /\ signed = <<>> /\ ~proved /\ pc \in {"saslContinue", "failed"}
  /\ \A i \in DOMAIN outbox :
       /\ outbox[i].kind = "saslInitial" /\ dialog = <<>>
       /\ outbox[i].body.mechanism = scram[1].mechanism
  /\ dialog # <<>> => dialog[1].asked.mechanism = scram[1].mechanism
  /\ \A i \in DOMAIN inbox : inbox[i].kind = "saslContinue" => dialog # <<>>

(* The signature is one over what the server signed, with its password.    *)
Signed(final) ==
  /\ final.body.signature.over = signed[1].message
  /\ final.body.signature.key.server[1] = signed[1].password

Closing ==
  /\ pc # "saslContinue"
  /\ dialog # <<>> /\ dialog[1].asked.mechanism = scram[1].mechanism
  /\ expected[1].serverKey.server[1] = config[1].password[1]
  /\ \A i \in DOMAIN outbox : outbox[i].kind = "saslResponse" /\ signed = <<>>
  /\ signed # <<>> => signed = <<[message |-> signed[1].message, password |-> signed[1].password]>>
  /\ \A i \in DOMAIN inbox : inbox[i].kind = "saslFinal" =>
       /\ signed # <<>>
       /\ Signed(inbox[i])
  /\ pc \in {"auth", "ready"} => proved
  /\ proved =>
       /\ outbox = <<>>
       /\ signed = <<[message |-> expected[1].message, password |-> config[1].password[1]]>>

Sasled ==
  /\ scram = <<>> => NoExchange
  /\ scram # <<>> => Exchange
  /\ scram # <<>> /\ expected = <<>> => Opening
  /\ scram # <<>> /\ expected # <<>> => Closing

LoginInv == LoginType /\ Turns /\ Prepared /\ Channel /\ EncryptedAsConfigured /\ Sasled
-----------------------------------------------------------------------------
(* Sequences of whatever values.                                           *)
LEMMA AnySeq == ASSUME NEW S, NEW s \in Seq(S) PROVE IsSeq(s)
  BY SeqOfRange DEF IsSeq

LEMMA Indexed ==
  ASSUME NEW s, IsSeq(s)
  PROVE  Len(s) \in Nat /\ DOMAIN s = 1 .. Len(s) /\ (s = <<>> <=> Len(s) = 0)
  BY LenProperties, EmptySeq DEF IsSeq

LEMMA OneMessage ==
  ASSUME NEW e
  PROVE  /\ Append(<<>>, e) = <<e>> /\ <<e>> # <<>> /\ IsSeq(<<e>>) /\ Len(<<e>>) = 1
         /\ DOMAIN <<e>> = {1} /\ <<e>>[1] = e
<1>1. <<e>> \in Seq({e})
  OBVIOUS
<1>2. IsSeq(<<e>>)
  BY <1>1, AnySeq
<1>3. Append(<<>>, e) = <<e>>
  OBVIOUS
<1> QED
  BY <1>2, <1>3

(* What is left when the first is taken.                                   *)
LEMMA RestOfSeq ==
  ASSUME NEW s, IsSeq(s), s # <<>>
  PROVE  /\ IsSeq(Tail(s)) /\ Len(Tail(s)) = Len(s) - 1
         /\ 1 \in DOMAIN s /\ Head(s) = s[1]
         /\ \A i \in DOMAIN Tail(s) : i + 1 \in DOMAIN s /\ Tail(s)[i] = s[i + 1]
<1>1. Tail(s) \in Seq(Range(s)) /\ Len(Tail(s)) = Len(s) - 1
  BY HeadTailProperties DEF IsSeq
<1>2. IsSeq(Tail(s))
  BY <1>1, AnySeq
<1>3. Head(s) = s[1]
  BY DEF IsSeq
<1> QED
  BY <1>1, <1>2, <1>3, Indexed, HeadTailProperties DEF IsSeq

(* What is joined holds the elements of both and no other.                 *)
LEMMA Joined ==
  ASSUME NEW s, NEW t, IsSeq(s), IsSeq(t)
  PROVE  /\ IsSeq(s \o t) /\ Len(s \o t) = Len(s) + Len(t)
         /\ \A i \in DOMAIN (s \o t) :
              \/ i \in DOMAIN s /\ (s \o t)[i] = s[i]
              \/ i - Len(s) \in DOMAIN t /\ (s \o t)[i] = t[i - Len(s)]
<1> DEFINE S == Range(s) \cup Range(t)
<1>1. s \in Seq(S) /\ t \in Seq(S)
  BY SeqMonotonic DEF IsSeq
<1>2. s \o t \in Seq(S) /\ Len(s \o t) = Len(s) + Len(t)
  BY <1>1, ConcatProperties
<1>3. \A i \in 1 .. Len(s) + Len(t) : (s \o t)[i] = IF i <= Len(s) THEN s[i] ELSE t[i - Len(s)]
  BY <1>1, ConcatProperties
<1>4. IsSeq(s \o t)
  BY <1>2, AnySeq
<1> QED
  BY <1>2, <1>3, <1>4, Indexed

(* A message of the server, and the four after which it is ready.          *)
LEMMA SaysOne ==
  ASSUME NEW kind
  PROVE  /\ IsSeq(Says(kind)) /\ Says(kind) # <<>> /\ Len(Says(kind)) = 1
         /\ \A i \in DOMAIN Says(kind) : Says(kind)[i].kind = kind
  BY OneMessage DEF Says

(* Messages of certain kinds.                                              *)
AllOf(messages, Kinds) ==
  IsSeq(messages) /\ \A i \in DOMAIN messages : messages[i].kind \in Kinds
Final == {"authOk", "paramStatus", "keyData", "ready"}

LEMMA AllJoined ==
  ASSUME NEW Kinds, NEW s, NEW t, AllOf(s, Kinds), AllOf(t, Kinds)
  PROVE  AllOf(s \o t, Kinds)
<1>1. IsSeq(s \o t)
  BY Joined DEF AllOf
<1>2. ASSUME NEW i \in DOMAIN (s \o t) PROVE (s \o t)[i].kind \in Kinds
  BY <1>2, Joined DEF AllOf
<1> QED
  BY <1>1, <1>2 DEF AllOf

LEMMA WelcomeIsFinal == AllOf(Welcome, Final)
<1>1. \A kind \in Final : AllOf(Says(kind), Final)
  BY SaysOne DEF AllOf
<1>2. /\ AllOf(Says("authOk"), Final) /\ AllOf(Says("paramStatus"), Final)
      /\ AllOf(Says("keyData"), Final) /\ AllOf(Says("ready"), Final)
  BY <1>1 DEF Final
<1> QED
  BY <1>2, AllJoined DEF Welcome

-----------------------------------------------------------------------------
(* A message taken: the client has sent nothing the server has not         *)
(* answered, and one of the last words leaves nothing to read.             *)
LEMMA MessageTaken ==
  ASSUME Turns, inbox # <<>>, inbox' = Tail(inbox)
  PROVE  /\ outbox = <<>> /\ IsSeq(inbox')
         /\ 1 \in DOMAIN inbox /\ Head(inbox) = inbox[1]
         /\ \A i \in DOMAIN inbox' : i + 1 \in DOMAIN inbox /\ inbox'[i] = inbox[i + 1]
         /\ \A i \in DOMAIN inbox' : inbox'[i].kind \notin LastWords
         /\ Head(inbox).kind \in LastWords => inbox' = <<>>
<1>1. /\ IsSeq(inbox') /\ Len(inbox') = Len(inbox) - 1
      /\ 1 \in DOMAIN inbox /\ Head(inbox) = inbox[1]
      /\ \A i \in DOMAIN inbox' : i + 1 \in DOMAIN inbox /\ inbox'[i] = inbox[i + 1]
  BY RestOfSeq DEF Turns
<1>2. Len(inbox) \in Nat /\ Len(inbox') \in Nat /\ DOMAIN inbox' = 1 .. Len(inbox')
      /\ (inbox' = <<>> <=> Len(inbox') = 0)
  BY <1>1, Indexed DEF Turns
<1>3. ASSUME NEW i \in DOMAIN inbox' PROVE inbox'[i].kind \notin LastWords
  BY <1>1, <1>2 DEF Turns
<1> QED
  BY <1>1, <1>2, <1>3 DEF Turns

(* The server's turn: it takes the client's one message, and what it says  *)
(* is all there is to read.                                                *)
LEMMA TurnTaken ==
  ASSUME Turns, outbox # <<>>, outbox' = Tail(outbox)
  PROVE  /\ outbox' = <<>> /\ inbox = <<>> /\ IsSeq(outbox')
         /\ DOMAIN outbox = {1} /\ Head(outbox) = outbox[1]
<1>1. IsSeq(outbox') /\ Len(outbox') = Len(outbox) - 1 /\ Head(outbox) = outbox[1]
  BY RestOfSeq DEF Turns
<1>2. Len(outbox) \in Nat /\ DOMAIN outbox = 1 .. Len(outbox) /\ Len(outbox) # 0
  BY Indexed DEF Turns
<1> QED
  BY <1>1, <1>2, Indexed DEF Turns

LEMMA NothingBefore == ASSUME NEW m, IsSeq(m) PROVE <<>> \o m = m
  BY DEF IsSeq

LEMMA Answered ==
  ASSUME Turns, NEW kind, NEW messages, IsSeq(messages), Answers(kind, messages)
  PROVE  /\ outbox' = <<>> /\ inbox = <<>> /\ inbox' = messages
         /\ DOMAIN outbox = {1} /\ outbox[1].kind = kind /\ Head(outbox) = outbox[1]
         /\ UNCHANGED <<clientVars, server>>
<1>1. outbox # <<>> /\ outbox' = Tail(outbox) /\ Head(outbox).kind = kind
      /\ inbox' = inbox \o messages /\ UNCHANGED <<clientVars, server>>
  BY DEF Answers
<1> QED
  BY <1>1, TurnTaken, NothingBefore
(* What is said in one turn: last words stand alone.                       *)
OneTurn(messages) ==
  /\ IsSeq(messages)
  /\ \A i \in DOMAIN messages : messages[i].kind \in LastWords => Len(messages) = 1

LEMMA SaysIsOneTurn == ASSUME NEW kind PROVE OneTurn(Says(kind))
  BY SaysOne DEF OneTurn
LEMMA OneIsOneTurn == ASSUME NEW m PROVE OneTurn(<<m>>)
  BY OneMessage DEF OneTurn
LEMMA AllIsOneTurn ==
  ASSUME NEW m, AllOf(m, Final \cup {"saslFinal"}) PROVE OneTurn(m)
  BY DEF OneTurn, AllOf, Final, LastWords

(* What each answer of the server does.                                    *)
ServerTurn ==
  /\ outbox # <<>> /\ DOMAIN outbox = {1} /\ Head(outbox) = outbox[1]
  /\ outbox' = <<>> /\ inbox = <<>> /\ OneTurn(inbox')
  /\ UNCHANGED <<clientVars, server>>

LEMMA RefusesTurn ==
  ASSUME Turns, ServerRefuses
  PROVE  /\ ServerTurn /\ UNCHANGED <<dialog, signed>>
         /\ \A i \in DOMAIN inbox' : inbox'[i].kind = "error"
<1>1. /\ outbox # <<>> /\ outbox' = Tail(outbox) /\ UNCHANGED <<clientVars, server, dialog, signed>>
      /\ inbox' = inbox \/ inbox' = inbox \o Says("error")
  BY DEF ServerRefuses
<1>2. outbox' = <<>> /\ inbox = <<>> /\ DOMAIN outbox = {1} /\ Head(outbox) = outbox[1]
  BY <1>1, TurnTaken
<1>3. inbox' = <<>> \/ inbox' = Says("error")
  BY <1>1, <1>2, SaysOne, NothingBefore
<1>4. IsSeq(<<>>) /\ DOMAIN <<>> = {}
  BY DEF IsSeq
<1>5. OneTurn(inbox') /\ \A i \in DOMAIN inbox' : inbox'[i].kind = "error"
  BY <1>3, <1>4, SaysOne, SaysIsOneTurn DEF OneTurn
<1> QED
  BY <1>1, <1>2, <1>5 DEF ServerTurn

LEMMA OddTurn ==
  ASSUME Turns, ServerOdd
  PROVE  /\ ServerTurn /\ UNCHANGED <<online, dialog, signed>>
         /\ \A i \in DOMAIN inbox' : inbox'[i].kind \in Final \cup {"odd"}
<1>1. /\ outbox # <<>> /\ outbox' = Tail(outbox)
      /\ UNCHANGED <<clientVars, server, online, dialog, signed>>
      /\ inbox' = inbox \o Says("odd") \/ inbox' = inbox \o Says("odd") \o Welcome
  BY DEF ServerOdd
<1>2. outbox' = <<>> /\ inbox = <<>> /\ DOMAIN outbox = {1} /\ Head(outbox) = outbox[1]
  BY <1>1, TurnTaken
<1>3. inbox' = Says("odd") \/ inbox' = Says("odd") \o Welcome
  BY <1>1, <1>2, SaysOne, NothingBefore
<1>4. AllOf(Says("odd"), Final \cup {"odd"}) /\ AllOf(Welcome, Final \cup {"odd"})
  BY SaysOne, WelcomeIsFinal DEF AllOf
<1>5. AllOf(inbox', Final \cup {"odd"})
  BY <1>3, <1>4, AllJoined
<1>6. OneTurn(inbox')
  BY <1>5 DEF AllOf, OneTurn, Final, LastWords
<1> QED
  BY <1>1, <1>2, <1>5, <1>6 DEF ServerTurn, AllOf

LEMMA AnswersTurn ==
  ASSUME Turns, NEW kind, NEW messages, OneTurn(messages), Answers(kind, messages)
  PROVE  ServerTurn /\ inbox' = messages /\ outbox[1].kind = kind
  BY Answered DEF OneTurn, ServerTurn, Answers

LEMMA SslTurn ==
  ASSUME Turns, ServerSsl
  PROVE  /\ ServerTurn /\ UNCHANGED <<dialog, signed>> /\ outbox[1].kind = "ssl"
         /\ \A i \in DOMAIN inbox' : inbox'[i].kind \in {"S", "N", "?"}
<1>1. PICK answer \in {"S", "N", "?"} : Answers("ssl", Says(answer))
  BY DEF ServerSsl
<1>2. ServerTurn /\ inbox' = Says(answer) /\ outbox[1].kind = "ssl"
  BY <1>1, AnswersTurn, SaysIsOneTurn
<1> QED
  BY <1>2, SaysOne DEF ServerSsl

LEMMA StartupTurn ==
  ASSUME Turns, ServerStartup
  PROVE  /\ ServerTurn /\ UNCHANGED <<dialog, signed>> /\ outbox[1].kind = "startup"
         /\ \A i \in DOMAIN inbox' : inbox'[i].kind = "sasl" => inbox'[i].body = server.mechanisms
<1> DEFINE Sasl1 == <<[kind |-> "sasl", body |-> server.mechanisms]>>
           Good(m) == OneTurn(m) /\ \A i \in DOMAIN m :
                        m[i].kind = "sasl" => m[i].body = server.mechanisms
<1>1. PICK answer \in {Welcome, Says("cleartext"), Says("md5"), Says("saslFinal"), Sasl1} :
        Answers("startup", answer)
  BY DEF ServerStartup
<1>2. Good(Welcome)
  BY WelcomeIsFinal, AllIsOneTurn DEF AllOf, Final
<1>3. Good(Says("cleartext")) /\ Good(Says("md5")) /\ Good(Says("saslFinal"))
  BY SaysOne, SaysIsOneTurn
<1>4. Good(Sasl1)
  BY OneMessage, OneIsOneTurn
<1>5. Good(answer)
  BY <1>1, <1>2, <1>3, <1>4
<1>6. ServerTurn /\ inbox' = answer /\ outbox[1].kind = "startup"
  BY <1>1, <1>5, AnswersTurn
<1> QED
  BY <1>5, <1>6 DEF ServerStartup

LEMMA PasswordTurn ==
  ASSUME Turns, ServerPassword
  PROVE  /\ ServerTurn /\ UNCHANGED <<dialog, signed>> /\ outbox[1].kind = "password"
         /\ \A i \in DOMAIN inbox' : inbox'[i].kind \in Final \cup {"error"}
<1>1. PICK answer \in {Welcome, Says("error")} : Answers("password", answer)
  BY DEF ServerPassword
<1>2. OneTurn(answer) /\ \A i \in DOMAIN answer : answer[i].kind \in Final \cup {"error"}
  BY WelcomeIsFinal, AllIsOneTurn, SaysOne, SaysIsOneTurn DEF AllOf
<1>3. ServerTurn /\ inbox' = answer /\ outbox[1].kind = "password"
  BY <1>1, <1>2, AnswersTurn
<1> QED
  BY <1>2, <1>3 DEF ServerPassword

LEMMA SaslInitialTurn ==
  ASSUME Turns, ServerSaslInitial
  PROVE  /\ ServerTurn /\ UNCHANGED signed /\ outbox[1].kind = "saslInitial"
         /\ dialog' # <<>> /\ dialog'[1].asked = outbox[1].body
         /\ \A i \in DOMAIN inbox' : inbox'[i].kind \in {"error", "saslContinue"}
<1>1. PICK defect \in Defects :
        LET asked == Head(outbox).body
            fields == FirstFields(asked.first.nonce, defect)
            first == [kind |-> "saslContinue", utf8 |-> defect # "utf8", body |-> fields]
        IN  /\ Answers("saslInitial", IF asked.mechanism \notin server.mechanisms
                                      THEN Says("error") ELSE <<first>>)
            /\ dialog' = <<[asked |-> asked, fields |-> fields]>>
  BY DEF ServerSaslInitial
<1> DEFINE first == [kind |-> "saslContinue", utf8 |-> defect # "utf8",
                     body |-> FirstFields(Head(outbox).body.first.nonce, defect)]
<1>2. PICK answer \in {Says("error"), <<first>>} : Answers("saslInitial", answer)
  BY <1>1
<1>3. OneTurn(answer) /\ \A i \in DOMAIN answer : answer[i].kind \in {"error", "saslContinue"}
  BY OneMessage, OneIsOneTurn, SaysOne, SaysIsOneTurn
<1>4. ServerTurn /\ inbox' = answer /\ outbox[1].kind = "saslInitial"
  BY <1>2, <1>3, AnswersTurn
<1>5. dialog' # <<>> /\ dialog'[1].asked = outbox[1].body
  BY <1>1, <1>4 DEF ServerTurn
<1> QED
  BY <1>3, <1>4, <1>5 DEF ServerSaslInitial
LEMMA SaslResponseTurn ==
  ASSUME Turns, ServerSaslResponse
  PROVE  /\ ServerTurn /\ UNCHANGED dialog /\ outbox[1].kind = "saslResponse"
         /\ signed' # <<>>
         /\ signed' = <<[message |-> signed'[1].message, password |-> signed'[1].password]>>
         /\ \A i \in DOMAIN inbox' : inbox'[i].kind \in Final \cup {"saslFinal"}
         /\ \A i \in DOMAIN inbox' : inbox'[i].kind = "saslFinal" => Signed(inbox[i])'
<1> DEFINE asked == dialog[1].asked
           message == AuthMessage(asked.first.user, asked.first.nonce, dialog[1].fields,
                                  Head(outbox).body.withoutProof)
           key == CalculateServerKey(server.password, FieldOf(dialog[1].fields, "s"),
                                     FieldOf(dialog[1].fields, "i"))
           FinalOf(prefix, legible, utf8) ==
             [kind |-> "saslFinal", utf8 |-> utf8,
              body |-> [prefix |-> prefix, legible |-> legible,
                        signature |-> CalculateServerSignature(key, message)]]
<1>1. PICK prefix \in {"v=", "e="}, legible \in BOOLEAN, utf8 \in BOOLEAN :
        /\ \/ Answers("saslResponse", <<FinalOf(prefix, legible, utf8)>> \o Welcome)
           \/ Answers("saslResponse", <<FinalOf(prefix, legible, utf8), [kind |-> "ready"]>>)
        /\ signed' = <<[message |-> message, password |-> server.password]>>
  BY ZenonT(40) DEF ServerSaslResponse
<1> DEFINE final == FinalOf(prefix, legible, utf8)
           Good(m) == /\ \A i \in DOMAIN m : m[i].kind \in Final \cup {"saslFinal"}
                      /\ \A i \in DOMAIN m : m[i].kind = "saslFinal" => m[i] = final
<1>2. /\ final.body.signature.over = signed'[1].message
      /\ final.body.signature.key.server[1] = signed'[1].password
  BY <1>1 DEF CalculateServerSignature, CalculateServerKey, SaltedPassword
<1>3. final.kind = "saslFinal"
  OBVIOUS
<1> HIDE DEF FinalOf, message
<1>4. OneTurn(<<final>> \o Welcome) /\ Good(<<final>> \o Welcome)
  <2>1. IsSeq(<<final>>) /\ \A i \in DOMAIN <<final>> : <<final>>[i] = final
    BY OneMessage
  <2>2. IsSeq(Welcome) /\ \A i \in DOMAIN Welcome : Welcome[i].kind \in Final
    BY WelcomeIsFinal DEF AllOf
  <2> HIDE DEF final
  <2>3. AllOf(<<final>> \o Welcome, Final \cup {"saslFinal"})
    <3>1. AllOf(<<final>>, Final \cup {"saslFinal"})
      BY <1>3, <2>1 DEF AllOf
    <3>2. AllOf(Welcome, Final \cup {"saslFinal"})
      BY <2>2 DEF AllOf
    <3> QED
      BY <3>1, <3>2, AllJoined
  <2>4. ASSUME NEW i \in DOMAIN (<<final>> \o Welcome),
               (<<final>> \o Welcome)[i].kind = "saslFinal"
        PROVE  (<<final>> \o Welcome)[i] = final
    BY <2>1, <2>2, <2>4, Joined DEF Final
  <2> QED
    BY <2>3, <2>4, AllIsOneTurn DEF AllOf
<1>5. /\ OneTurn(<<final, [kind |-> "ready"]>>) /\ Good(<<final, [kind |-> "ready"]>>)
  <2> HIDE DEF final
  <2> DEFINE two == <<final, [kind |-> "ready"]>>
  <2>1. two \in Seq({final, [kind |-> "ready"]})
    OBVIOUS
  <2>2. DOMAIN two = {1, 2} /\ two[1] = final /\ two[2].kind = "ready"
    OBVIOUS
  <2> HIDE DEF two
  <2>3. IsSeq(two)
    BY <2>1, AnySeq
  <2>4. \A i \in DOMAIN two : two[i].kind \in Final \cup {"saslFinal"}
    BY <1>3, <2>2 DEF Final
  <2>5. \A i \in DOMAIN two : two[i].kind = "saslFinal" => two[i] = final
    BY <2>2
  <2> QED
    BY <2>3, <2>4, <2>5, AllIsOneTurn DEF AllOf, two
<1>6. PICK m : /\ m = <<final>> \o Welcome \/ m = <<final, [kind |-> "ready"]>>
               /\ Answers("saslResponse", m)
  BY <1>1
<1> HIDE DEF final
<1>7. OneTurn(m) /\ Good(m)
  BY <1>4, <1>5, <1>6
<1>8. ServerTurn /\ inbox' = m /\ outbox[1].kind = "saslResponse"
  BY <1>6, <1>7, AnswersTurn
<1>9. /\ signed' # <<>>
      /\ signed' = <<[message |-> signed'[1].message, password |-> signed'[1].password]>>
  BY <1>1
<1> QED
  BY <1>2, <1>7, <1>8, <1>9 DEF ServerSaslResponse, Signed
LEMMA AnyServerTurn == ASSUME Turns, ServerNext PROVE ServerTurn
  BY RefusesTurn, OddTurn, SslTurn, StartupTurn, PasswordTurn, SaslInitialTurn, SaslResponseTurn
  DEF ServerNext

-----------------------------------------------------------------------------
(* What the steps of the client do to the two directions: they leave both  *)
(* alone, or send a first message, or take one without an answer, or       *)
(* answer the last one.                                                    *)
Silent ==
  /\ UNCHANGED <<outbox, inbox>>
  /\ \/ UNCHANGED pc \/ pc' = "failed"
     \/ pc \in {"new", "dial"} /\ pc' \in {"dial", "startup"}
Opens ==
  /\ pc \in {"startup", "upgrade"} /\ pc' \in {"auth", "sslAnswer"}
  /\ \E m : outbox' = Append(outbox, m)
  /\ UNCHANGED inbox
Reads ==
  /\ pc' # "upgrade" \/ Head(inbox).kind \in LastWords
  /\ pc' \notin {"new", "dial", "startup"}
  /\ inbox # <<>> /\ inbox' = Tail(inbox) /\ UNCHANGED outbox
Replies ==
  /\ pc' \notin {"new", "dial", "startup", "upgrade"}
  /\ inbox # <<>> /\ Head(inbox).kind \in LastWords /\ inbox' = Tail(inbox)
  /\ \E m : outbox' = Append(outbox, m)

LEMMA ClientSteps ==
  ASSUME ClientNext \/ DialFails \/ ServerGivesUp \/ UNCHANGED loginVars
  PROVE  Silent \/ Opens \/ Reads \/ Replies
<1>1. CASE Calls
  BY <1>1 DEF Calls, Connect, Silent
<1>2. CASE Dial \/ DialFails \/ StartupFails \/ UpgradeFails \/ AuthFails \/ ReceiveClosed
  BY <1>2 DEF Dial, DialFails, StartupFails, UpgradeFails, AuthFails, ReceiveClosed, Refuses,
              Fails, Goes, Silent
<1>3. CASE Startup \/ Upgrade
  BY <1>3 DEF Startup, Upgrade, SendStartup, Sends, Goes, Opens
<1>4. CASE SslAnswer
  BY <1>4 DEF SslAnswer, Receive, Refuses, Fails, Goes, Taken, Silent, Reads, LastWords
<1>5. CASE ReadOver \/ Ready \/ SaslFinal
  BY <1>5 DEF ReadOver, Ready, SaslFinal, Receive, Goes, Taken, Reads
<1>6. CASE Cleartext
  BY <1>6 DEF Cleartext, Receive, Goes, Taken, Sends, Reads, Replies, LastWords
<1>7. CASE Sasl
  BY <1>7 DEF Sasl, Receive, Goes, Taken, Sends, Reads, Replies, LastWords
<1>8. CASE SaslContinue
  <2>1. inbox # <<>> /\ Head(inbox).kind \in LastWords /\ inbox' = Tail(inbox)
    BY <1>8 DEF SaslContinue, Receive, Taken, LastWords
  <2>2. \/ pc' = "failed" /\ UNCHANGED outbox
        \/ pc' = "saslFinal" /\ \E m : outbox' = Append(outbox, m)
    BY <1>8, Zenon DEF SaslContinue, Goes, Sends
  <2> QED
    BY <2>1, <2>2 DEF Reads, Replies
<1>9. CASE UNCHANGED loginVars
  <2>1. UNCHANGED <<outbox, inbox>> /\ UNCHANGED clientVars
    BY <1>9 DEF loginVars
  <2>2. UNCHANGED pc
    BY <2>1 DEF clientVars
  <2> QED
    BY <2>1, <2>2 DEF Silent
<1>10. CASE ServerGivesUp
  BY <1>10 DEF ServerGivesUp, clientVars, Silent
<1> QED
  BY <1>1, <1>2, <1>3, <1>4, <1>5, <1>6, <1>7, <1>8, <1>9, <1>10 DEF ClientNext

LEMMA StepTurns ==
  ASSUME Turns, [LoginNext]_loginVars PROVE Turns'
<1>0. IsSeq(<<>>) /\ Len(<<>>) = 0 /\ DOMAIN <<>> = {}
  BY DEF IsSeq
<1>1. CASE ServerNext
  BY <1>0, <1>1, AnyServerTurn DEF ServerTurn, OneTurn, Turns, clientVars
<1>2. CASE Silent
  BY <1>2 DEF Silent, Turns
<1>3. CASE Opens
  <2>1. outbox = <<>> /\ inbox = <<>>
    BY <1>3 DEF Opens, Turns
  <2>2. PICK m : outbox' = <<m>>
    BY <1>3, <2>1, OneMessage DEF Opens
  <2> QED
    BY <1>0, <1>3, <2>1, <2>2, OneMessage DEF Opens, Turns
<1>4. CASE Reads
  BY <1>0, <1>4, MessageTaken DEF Reads, Turns
<1>5. CASE Replies
  <2>1. outbox = <<>> /\ inbox' = <<>>
    BY <1>5, MessageTaken DEF Replies
  <2>2. PICK m : outbox' = <<m>>
    BY <1>5, <2>1, OneMessage DEF Replies
  <2>3. IsSeq(outbox') /\ Len(outbox') = 1 /\ IsSeq(inbox') /\ DOMAIN inbox' = {}
    BY <1>0, <2>1, <2>2, OneMessage
  <2>4. pc' \notin {"new", "dial", "startup", "upgrade"}
    BY <1>5 DEF Replies
  <2> QED
    BY <2>1, <2>3, <2>4 DEF Turns
<1> QED
  BY <1>1, <1>2, <1>3, <1>4, <1>5, ClientSteps DEF LoginNext
-----------------------------------------------------------------------------
(* What a string, a configuration and a builder become.                    *)
LEMMA ParsedString ==
  ASSUME NEW str, Parse(str) # <<>>
  PROVE  LET info1 == Parse(str)[1]
         IN  /\ info1.sslmode = IF str.unix THEN "disable"
                                ELSE Default(ParseQueryParam(str.query, "sslmode"), "disable")
             /\ info1.transport = "unix" => info1.host = <<>>
             /\ info1.sslmode # "disable" =>
                  info1.rootcert = ParseQueryParam(str.query, "sslrootcert")
<1>1. CASE str.unix
  <2>1. Parse(str) = ParseUnix(str)
    BY <1>1 DEF Parse
  <2>2. ParseUnix(str)[1].sslmode = "disable" /\ ParseUnix(str)[1].host = <<>>
    BY <2>1 DEF ParseUnix
  <2> QED
    BY <1>1, <2>1, <2>2
<1>2. CASE ~str.unix
  <2>1. Parse(str) = ParseTcp(str)
    BY <1>2 DEF Parse
  <2>2. /\ ParseTcp(str)[1].sslmode = Default(ParseQueryParam(str.query, "sslmode"), "disable")
        /\ ParseTcp(str)[1].transport = "tcp"
        /\ ParseTcp(str)[1].rootcert = ParseQueryParam(str.query, "sslrootcert")
    BY <2>1 DEF ParseTcp
  <2> QED
    BY <1>2, <2>1, <2>2
<1> QED
  BY <1>1, <1>2

LEMMA BuiltRoots ==
  ASSUME NEW builder, BuildTls(builder) # <<>>
  PROVE  BuildTls(builder)[1].roots = CertsOf(builder.ca)
<1>1. BuildTls(builder)[1].roots = RootStore(builder)[1] /\ RootStore(builder) # <<>>
  BY DEF BuildTls
<1>2. CASE builder.ca = <<>>
  BY <1>1, <1>2 DEF RootStore, CertsOf
<1>3. CASE builder.ca # <<>>
  <2>1. RootStore(builder) = LoadCustomCa(builder.ca[1])
    BY <1>3 DEF RootStore
  <2>2. LoadCerts(builder.ca[1]) = <<ItemsOf(builder.ca[1], {"cert"})>>
    BY <1>1, <2>1 DEF LoadCustomCa, LoadCerts
  <2> QED
    BY <1>1, <1>3, <2>1, <2>2 DEF LoadCustomCa, CertsOf
<1> QED
  BY <1>2, <1>3

LEMMA OwnTls ==
  ASSUME NEW parsed, ToTlsConfig(parsed) # <<>>, ToTlsConfig(parsed)[1] # <<>>
  PROVE  /\ parsed.sslmode # "disable"
         /\ ToTlsConfig(parsed)[1][1].roots = CertsOf(parsed.rootcert)
<1> DEFINE builder == [DefaultBuilder EXCEPT
                         !.ca = parsed.rootcert, !.cert = parsed.cert, !.key = parsed.key,
                         !.verifyHostname = (parsed.sslmode = "verify-full"),
                         !.acceptInvalidCerts = (parsed.sslmode = "require")]
<1>1. parsed.sslmode # "disable"
  BY DEF ToTlsConfig
<1>2. ToTlsConfig(parsed) = <<BuildTls(builder)>> /\ BuildTls(builder) # <<>>
  BY <1>1 DEF ToTlsConfig
<1>3. builder.ca = parsed.rootcert
  BY DEF DefaultBuilder
<1> HIDE DEF builder
<1> QED
  BY <1>1, <1>2, <1>3, BuiltRoots

(* What an entry point hands on.                                           *)
LEMMA PreparedCall ==
  ASSUME NEW entry \in Entries, NEW str, NEW given, NEW builder, BuildTls(builder) # <<>>,
         NEW ready, ready = Prepare(entry, str, given, builder), ready # <<>>
  PROVE  /\ Parse(str) # <<>>
         /\ Parse(str)[1].transport = "unix" => ready[1].hostname = <<>>
         /\ ready[1].config.sslmode =
              (CASE entry = "connect" -> Parse(str)[1].sslmode
                 [] entry = "connect_tls" -> "require"
                 [] OTHER -> given.sslmode)
         /\ ready[1].tls # <<>> =>
              ready[1].tls[1].roots =
                CertsOf(IF entry \in {"connect", "connect_with_config"}
                        THEN ParseQueryParam(str.query, "sslrootcert") ELSE builder.ca)
<1>1. Parse(str) # <<>>
  BY DEF Prepare
<1>2. CASE entry \in {"connect", "connect_with_config"}
  <2>1. /\ ToTlsConfig(Parse(str)[1]) # <<>>
        /\ ready = <<[tls |-> ToTlsConfig(Parse(str)[1])[1], hostname |-> Parse(str)[1].host,
                      config |-> IF entry = "connect" THEN ToConfig(Parse(str)[1]) ELSE given]>>
    BY <1>1, <1>2 DEF Prepare
  <2>2. ToConfig(Parse(str)[1]).sslmode = Parse(str)[1].sslmode
    BY DEF ToConfig, NewConfig
  <2> QED
    BY <1>1, <1>2, <2>1, <2>2, ParsedString, OwnTls
<1>3. CASE entry \notin {"connect", "connect_with_config"}
  <2> DEFINE required == [ToConfig(Parse(str)[1]) EXCEPT !.sslmode = "require"]
  <2>1. /\ Parse(str)[1].transport # "unix"
        /\ ready = <<[tls |-> BuildTls(builder), hostname |-> Parse(str)[1].host,
                      config |-> IF entry = "connect_tls" THEN required ELSE given]>>
    BY <1>1, <1>3 DEF Prepare
  <2>2. required.sslmode = "require"
    BY DEF ToConfig, NewConfig
  <2> HIDE DEF required
  <2>3. ready[1].tls[1].roots = CertsOf(builder.ca)
    BY <2>1, BuiltRoots
  <2>4. ready[1].config.sslmode = IF entry = "connect_tls" THEN "require" ELSE given.sslmode
    BY <2>1, <2>2
  <2> QED
    BY <1>1, <1>3, <2>1, <2>3, <2>4 DEF Entries
<1> QED
  BY <1>2, <1>3
-----------------------------------------------------------------------------
(* Everything about the call, the transport and what has been sent.        *)
Called == LoginType /\ Prepared /\ Channel /\ EncryptedAsConfigured

(* The same call goes on with the same transport.                          *)
LEMMA SameCall ==
  ASSUME opened' = opened
  PROVE  ModeInForce' = ModeInForce /\ RootsInForce' = RootsInForce
  BY DEF ModeInForce, RootsInForce

LEMMA ConnectCalled ==
  ASSUME Called, Turns, Calls PROVE Called'
<1>1. PICK entry \in Entries, str \in Strings, given \in Configs, builder \in Builders :
        Connect(entry, str, given, builder)
  BY DEF Calls
<1> DEFINE ready == Prepare(entry, str, given, builder)
<1>2. /\ pc = "new" /\ BuildTls(builder) # <<>>
      /\ opened' = <<[entry |-> entry, string |-> str, config |-> given, builder |-> builder]>>
      /\ UNCHANGED <<transport, scram, expected, proved, outbox, inbox, server, online>>
  BY <1>1 DEF Connect, serverVars
<1>3. /\ RootsInForce' = CertsOf(IF entry \in {"connect", "connect_with_config"}
                               THEN ParseQueryParam(str.query, "sslrootcert") ELSE builder.ca)
      /\ ModeInForce' =
           (CASE entry = "connect" ->
                   IF str.unix THEN "disable"
                   ELSE Default(ParseQueryParam(str.query, "sslmode"), "disable")
              [] entry = "connect_tls" -> "require"
              [] OTHER -> given.sslmode)
  BY <1>2 DEF RootsInForce, ModeInForce
<1>4. outbox' = <<>> /\ transport' = "none"
  BY <1>2 DEF Called, Prepared, Turns
<1>5. EncryptedAsConfigured'
  BY <1>4 DEF EncryptedAsConfigured
<1>6. CASE ready = <<>>
  <2>1. pc' = "failed" /\ UNCHANGED <<info, tls, config, hostname>>
    BY <1>1, <1>6 DEF Connect
  <2> QED
    BY <1>2, <1>4, <1>5, <2>1 DEF Called, LoginType, Prepared, Channel
<1>7. CASE ready # <<>>
  <2>1. /\ pc' = "dial" /\ info' = Parse(str) /\ tls' = ready[1].tls
        /\ hostname' = ready[1].hostname /\ config' = <<ready[1].config>>
    BY <1>1, <1>7 DEF Connect
  <2> HIDE DEF ready
  <2>2. /\ info' # <<>>
        /\ info'[1].transport = "unix" => hostname' = <<>>
        /\ tls' # <<>> => tls'[1].roots = RootsInForce'
    BY <1>2, <1>3, <1>7, <2>1, PreparedCall DEF ready
  <2>3. config'[1].sslmode = ModeInForce'
    BY <1>2, <1>3, <1>7, <2>1, PreparedCall, ParsedString DEF ready
  <2>4. config' # <<>>
    BY <2>1
  <2> QED
    BY <1>2, <1>4, <1>5, <2>1, <2>2, <2>3, <2>4 DEF Called, LoginType, Prepared, Channel
<1> QED
  BY <1>6, <1>7

(* One message, the first, over the transport the call has come to.        *)
LEMMA OneSent ==
  ASSUME NEW kind, NEW body, outbox = <<>>, Sends(kind, body)
  PROVE  DOMAIN outbox' = {1} /\ outbox'[1].kind = kind /\ outbox'[1].over = transport'
  BY OneMessage DEF Sends

LEMMA StepCalled ==
  ASSUME Called, Turns, [LoginNext]_loginVars PROVE Called'
<1> USE DEF Called
<1>0. DOMAIN <<>> = {}
  OBVIOUS
<1>1. CASE ServerNext
  <2>1. ServerTurn
    BY <1>1, AnyServerTurn
  <2>2. UNCHANGED clientVars /\ UNCHANGED server /\ outbox' = <<>> /\ online' \in BOOLEAN
    BY <1>1, <2>1 DEF ServerTurn, ServerNext, ServerRefuses, ServerOdd, ServerSsl, ServerStartup,
         ServerPassword, ServerSaslInitial, ServerSaslResponse, Answers, LoginType
  <2>3. ModeInForce' = ModeInForce /\ RootsInForce' = RootsInForce
    BY <2>2, SameCall DEF clientVars
  <2> QED
    BY <1>0, <2>2, <2>3
    DEF clientVars, LoginType, Prepared, Channel, EncryptedAsConfigured
<1>2. CASE Calls
  BY <1>2, ConnectCalled
<1>3. CASE Dial
  <2>1. ModeInForce' = ModeInForce /\ RootsInForce' = RootsInForce
    BY <1>3, SameCall DEF Dial, Goes
  <2> QED
    BY <1>3, <2>1 DEF Dial, Goes, serverVars, LoginType, Prepared, Channel, EncryptedAsConfigured,
                      Turns
<1>4. CASE DialFails \/ StartupFails \/ UpgradeFails \/ AuthFails \/ ReceiveClosed
           \/ Refuses("sslAnswer", {"S"})
  <2>1. Fails
    BY <1>4 DEF DialFails, StartupFails, UpgradeFails, AuthFails, ReceiveClosed, Refuses
  <2>2. ModeInForce' = ModeInForce /\ RootsInForce' = RootsInForce
    BY <2>1, SameCall DEF Fails, Goes
  <2> QED
    BY <2>1, <2>2 DEF Fails, Goes, serverVars, LoginType, Prepared, Channel, EncryptedAsConfigured
<1>5. CASE Startup
  <2>1. ModeInForce' = ModeInForce /\ RootsInForce' = RootsInForce
    BY <1>5, SameCall DEF Startup, SendStartup, Goes
  <2>2. config # <<>> /\ config[1].sslmode = ModeInForce /\ outbox = <<>>
    BY <1>5 DEF Startup, LoginType, Prepared, Turns
  <2>3. CASE config[1].sslmode = "disable"
    <3>1. Sends("startup", StartupParams(config[1])) /\ pc' = "auth"
      BY <1>5, <2>3 DEF Startup, SendStartup, Goes
    <3>2. DOMAIN outbox' = {1} /\ outbox'[1].over = transport'
      BY <2>2, <3>1, OneSent
    <3>3. /\ UNCHANGED <<opened, info, tls, config, hostname, transport, scram, expected, proved>>
          /\ UNCHANGED <<server, online>> /\ pc = "startup"
      BY <1>5, <2>3 DEF Startup, SendStartup, Goes, serverVars
    <3>4. LoginType'
      BY <3>1, <3>3 DEF LoginType, Receiving
    <3>5. Prepared'
      BY <2>1, <3>1, <3>3 DEF Prepared
    <3>6. Channel' /\ EncryptedAsConfigured'
      BY <2>1, <2>2, <2>3, <3>1, <3>2, <3>3 DEF Prepared, Channel, EncryptedAsConfigured
    <3> QED
      BY <3>4, <3>5, <3>6
  <2>4. CASE config[1].sslmode # "disable"
    <3>1. Sends("ssl", {}) /\ pc' = "sslAnswer" /\ tls # <<>> /\ hostname # <<>>
      BY <1>5, <2>4 DEF Startup, Goes
    <3>2. DOMAIN outbox' = {1} /\ outbox'[1].kind = "ssl"
      BY <2>2, <3>1, OneSent
    <3>3. /\ UNCHANGED <<opened, info, tls, config, hostname, transport, scram, expected, proved>>
          /\ UNCHANGED <<server, online>> /\ pc = "startup"
      BY <1>5, <2>4 DEF Startup, Goes, serverVars
    <3>4. transport = "plain"
      BY <3>1, <3>3 DEF Prepared, LoginType
    <3>5. LoginType'
      BY <3>1, <3>3, <3>4 DEF LoginType, Receiving
    <3>6. Prepared'
      BY <2>1, <3>1, <3>3 DEF Prepared
    <3>7. Channel' /\ EncryptedAsConfigured'
      BY <2>1, <2>2, <2>4, <3>1, <3>2, <3>3, <3>4 DEF Channel, EncryptedAsConfigured
    <3> QED
      BY <3>5, <3>6, <3>7
  <2> QED
    BY <2>3, <2>4
<1>6. CASE Upgrade
  <2>1. ModeInForce' = ModeInForce /\ RootsInForce' = RootsInForce
    BY <1>6, SameCall DEF Upgrade, SendStartup, Goes
  <2>2. outbox = <<>> /\ Sends("startup", StartupParams(config[1])) /\ transport' = "tls"
    BY <1>6 DEF Upgrade, SendStartup, Turns
  <2>3. DOMAIN outbox' = {1} /\ outbox'[1].over = "tls"
    BY <2>2, OneSent
  <2>4. server'.issuer \in RootsInForce'
    BY <1>6, <2>1 DEF Upgrade, Handshake, LoginType, Prepared, serverVars
  <2>5. /\ UNCHANGED <<opened, info, tls, config, hostname, scram, expected, proved, server>>
        /\ UNCHANGED online /\ pc = "upgrade" /\ pc' = "auth"
    BY <1>6 DEF Upgrade, SendStartup, Goes, serverVars
  <2>6. LoginType'
    BY <2>2, <2>5 DEF LoginType, Receiving
  <2>7. Prepared'
    BY <2>1, <2>2, <2>5 DEF Prepared
  <2>8. Channel' /\ EncryptedAsConfigured'
    BY <2>1, <2>2, <2>3, <2>4, <2>5 DEF Channel, EncryptedAsConfigured
  <2> QED
    BY <2>6, <2>7, <2>8
<1>7. CASE UNCHANGED loginVars
  <2>1. ModeInForce' = ModeInForce /\ RootsInForce' = RootsInForce
    BY <1>7, SameCall DEF loginVars, clientVars
  <2> QED
    BY <1>7, <2>1
    DEF loginVars, clientVars, serverVars, LoginType, Prepared, Channel, EncryptedAsConfigured
<1>8. CASE Receive("sslAnswer", "S") /\ Goes("upgrade") /\ Taken
           /\ UNCHANGED <<transport, scram, expected, proved, outbox>>
  <2>1. ModeInForce' = ModeInForce /\ RootsInForce' = RootsInForce
    BY <1>8, SameCall DEF Goes
  <2> QED
    BY <1>8, <2>1 DEF Receive, Goes, Taken, serverVars, LoginType, Prepared, Channel,
                      EncryptedAsConfigured
<1>9. CASE ReadOver \/ Ready \/ Cleartext \/ Sasl \/ SaslContinue \/ SaslFinal
  <2>1. /\ UNCHANGED <<opened, info, tls, config, hostname, transport, serverVars>>
        /\ pc \in {"auth", "saslContinue", "saslFinal"}
        /\ pc' \in {"auth", "saslContinue", "saslFinal", "ready", "failed"}
        /\ inbox # <<>>
    BY <1>9 DEF ReadOver, Ready, Cleartext, Sasl, SaslContinue, SaslFinal, Receive, Goes, Taken,
                Sends
  <2>2. ModeInForce' = ModeInForce /\ RootsInForce' = RootsInForce
    BY <2>1, SameCall
  <2>3. /\ proved' \in BOOLEAN
        /\ pc' = "saslContinue" => scram' # <<>>
        /\ pc' = "saslFinal" => scram' # <<>> /\ expected' # <<>>
    <3>1. CASE ReadOver \/ Ready \/ Cleartext
      BY <3>1 DEF ReadOver, Ready, Cleartext, Receive, Goes, LoginType
    <3>2. CASE Sasl
      <4>1. UNCHANGED proved
        BY <3>2 DEF Sasl
      <4>2. pc' = "failed" \/ (pc' = "saslContinue" /\ \E m : scram' = <<m>>)
        BY <3>2, Zenon DEF Sasl, Goes
      <4>3. proved' \in BOOLEAN
        BY <4>1 DEF LoginType
      <4>4. \A m : <<m>> # <<>>
        OBVIOUS
      <4> QED
        BY <4>2, <4>3, <4>4
    <3>3. CASE SaslContinue
      <4>1. UNCHANGED <<scram, proved>> /\ scram # <<>>
        BY <3>3 DEF SaslContinue, Receive, LoginType
      <4>2. pc' = "failed" \/ (pc' = "saslFinal" /\ \E m : expected' = <<m>>)
        BY <3>3, Zenon DEF SaslContinue, Goes
      <4>3. proved' \in BOOLEAN
        BY <4>1 DEF LoginType
      <4>4. \A m : <<m>> # <<>>
        OBVIOUS
      <4> QED
        BY <4>1, <4>2, <4>3, <4>4
    <3>4. CASE SaslFinal
      BY <3>4 DEF SaslFinal, Receive, Goes, LoginType
    <3> QED
      BY <1>9, <3>1, <3>2, <3>3, <3>4
  <2>4. UNCHANGED outbox \/ \E kind, body : kind # "ssl" /\ Sends(kind, body)
    BY <1>9 DEF ReadOver, Ready, Cleartext, Sasl, SaslContinue, SaslFinal
  <2>5. EncryptedAsConfigured'
    <3>1. CASE UNCHANGED outbox
      BY <2>1, <2>2, <3>1 DEF serverVars, EncryptedAsConfigured
    <3>2. CASE \E kind, body : kind # "ssl" /\ Sends(kind, body)
      <4>1. outbox = <<>>
        BY <2>1 DEF Turns
      <4>2. DOMAIN outbox' = {1} /\ outbox'[1].over = transport'
        BY <3>2, <4>1, OneSent
      <4> QED
        BY <2>1, <2>2, <4>2 DEF serverVars, EncryptedAsConfigured, Channel
    <3> QED
      BY <2>4, <3>1, <3>2
  <2>6. LoginType'
    BY <2>1, <2>3 DEF serverVars, LoginType, Receiving
  <2>7. Prepared' /\ Channel'
    BY <2>1, <2>2 DEF serverVars, Prepared, Channel
  <2> QED
    BY <2>5, <2>6, <2>7
<1>10. CASE ServerGivesUp
  <2>1. UNCHANGED <<clientVars, outbox, inbox, server>> /\ online' \in BOOLEAN
    BY <1>10 DEF ServerGivesUp
  <2>2. ModeInForce' = ModeInForce /\ RootsInForce' = RootsInForce
    BY <2>1, SameCall DEF clientVars
  <2> QED
    BY <2>1, <2>2 DEF clientVars, LoginType, Prepared, Channel, EncryptedAsConfigured
<1> QED
  BY <1>1, <1>2, <1>3, <1>4, <1>5, <1>6, <1>7, <1>8, <1>9, <1>10
  DEF LoginNext, ClientNext, SslAnswer
-----------------------------------------------------------------------------
(* Steps that leave the exchange where it is.                              *)
SameExchange ==
  /\ UNCHANGED <<scram, expected, proved, dialog, signed, server>>
  /\ scram # <<>> => UNCHANGED <<config, transport>>
  /\ UNCHANGED outbox
  /\ \A i \in DOMAIN inbox' : \E j \in DOMAIN inbox : inbox'[i] = inbox[j]
  /\ \/ pc' = "failed" \/ UNCHANGED pc
     \/ scram = <<>> /\ pc' \notin {"saslContinue", "saslFinal"}
     \/ pc = "auth" /\ pc' = "ready"

LEMMA ExchangeKept == ASSUME Sasled, SameExchange PROVE Sasled'
<1>1. ASSUME scram = <<>> PROVE NoExchange'
  BY <1>1 DEF Sasled, NoExchange, SameExchange
<1>2. ASSUME scram # <<>> PROVE Exchange'
  BY <1>2 DEF Sasled, Exchange, SameExchange
<1>3. ASSUME scram # <<>>, expected = <<>> PROVE Opening'
  BY <1>3 DEF Sasled, Opening, Exchange, SameExchange
<1>4. ASSUME scram # <<>>, expected # <<>> PROVE Closing'
  BY <1>4 DEF Sasled, Closing, Signed, SameExchange
<1> QED
  BY <1>1, <1>2, <1>3, <1>4 DEF Sasled, SameExchange

LEMMA QuietSteps ==
  ASSUME LoginType, Turns, Sasled,
         \/ Calls \/ Dial \/ DialFails \/ StartupFails \/ UpgradeFails \/ AuthFails \/ ReceiveClosed
         \/ SslAnswer \/ ReadOver \/ Ready \/ ServerGivesUp \/ UNCHANGED loginVars
  PROVE  SameExchange
<1>1. CASE Calls
  BY <1>1 DEF Calls, Connect, SameExchange, serverVars, Sasled, Exchange
<1>2. CASE Dial
  BY <1>2 DEF Dial, Goes, SameExchange, serverVars, Sasled, Exchange
<1>3. CASE DialFails \/ StartupFails \/ UpgradeFails \/ AuthFails \/ ReceiveClosed
           \/ Refuses("sslAnswer", {"S"})
  BY <1>3 DEF DialFails, StartupFails, UpgradeFails, AuthFails, ReceiveClosed, Refuses, Fails,
              Goes, SameExchange, serverVars
<1>4. CASE Receive("sslAnswer", "S") /\ Goes("upgrade") /\ Taken
           /\ UNCHANGED <<transport, scram, expected, proved, outbox>>
  <2>1. inbox # <<>> /\ inbox' = Tail(inbox) /\ pc = "sslAnswer" /\ pc' = "upgrade"
    BY <1>4 DEF Receive, Goes, Taken
  <2>2. \A i \in DOMAIN inbox' : \E j \in DOMAIN inbox : inbox'[i] = inbox[j]
    BY <2>1, MessageTaken
  <2>3. scram = <<>>
    BY <2>1 DEF Sasled, Exchange
  <2> QED
    BY <1>4, <2>1, <2>2, <2>3 DEF Goes, Taken, SameExchange, serverVars
<1>5. CASE ReadOver \/ Ready
  <2>1. inbox # <<>> /\ inbox' = Tail(inbox) /\ pc = "auth" /\ pc' \in {"auth", "ready"}
    BY <1>5 DEF ReadOver, Ready, Receive, Goes, Taken
  <2>2. \A i \in DOMAIN inbox' : \E j \in DOMAIN inbox : inbox'[i] = inbox[j]
    BY <2>1, MessageTaken
  <2>3. /\ UNCHANGED <<scram, expected, proved, dialog, signed, server, config, transport>>
        /\ UNCHANGED outbox
    BY <1>5 DEF ReadOver, Ready, Goes, Taken, serverVars
  <2> QED
    BY <2>1, <2>2, <2>3 DEF SameExchange
<1>6. CASE UNCHANGED loginVars
  <2>1. /\ UNCHANGED <<scram, expected, proved, dialog, signed, server, config, transport>>
        /\ UNCHANGED <<outbox, inbox, pc>>
    BY <1>6 DEF loginVars, clientVars, serverVars
  <2> QED
    BY <2>1 DEF SameExchange
<1>7. CASE ServerGivesUp
  BY <1>7 DEF ServerGivesUp, clientVars, SameExchange
<1> QED
  BY <1>1, <1>2, <1>3, <1>4, <1>5, <1>6, <1>7 DEF SslAnswer

(* Steps that send a message outside any exchange.                         *)
LEMMA NoExchangeYet ==
  ASSUME LoginType, Turns, Sasled, Startup \/ Upgrade \/ Cleartext
  PROVE  Sasled'
<1>1. /\ UNCHANGED <<scram, expected, proved, dialog, signed, server, transport>> \/ Upgrade
      /\ UNCHANGED <<scram, expected, proved, dialog, signed, server>>
      /\ pc' \notin {"saslContinue", "saslFinal"}
  BY DEF Startup, Upgrade, Cleartext, SendStartup, Goes, Taken, serverVars
<1>2. scram = <<>>
  BY RestOfSeq DEF Startup, Upgrade, Cleartext, Receive, Sasled, Exchange, Turns
<1>3. \A i \in DOMAIN outbox' : outbox'[i].kind \in {"ssl", "startup", "password"}
  <2>1. CASE UNCHANGED outbox
    BY <1>2, <2>1 DEF Sasled, NoExchange
  <2>2. CASE outbox' # outbox
    <3>1. outbox = <<>>
      BY MessageTaken DEF Startup, Upgrade, Cleartext, Turns, Receive, Taken
    <3>2. \E kind \in {"ssl", "startup", "password"} : \E body : Sends(kind, body)
      BY <2>2 DEF Startup, Upgrade, Cleartext, SendStartup
    <3> QED
      BY <3>1, <3>2, OneSent
  <2> QED
    BY <2>1, <2>2
<1>4. \A i \in DOMAIN inbox' : \E j \in DOMAIN inbox : inbox'[i] = inbox[j]
  <2>1. CASE UNCHANGED inbox
    BY <2>1
  <2>2. CASE inbox # <<>> /\ inbox' = Tail(inbox)
    BY <2>2, MessageTaken
  <2> QED
    BY <2>1, <2>2 DEF Startup, Upgrade, Cleartext, Receive, Taken
<1> QED
  BY <1>1, <1>2, <1>3, <1>4 DEF Sasled, NoExchange
(* The mechanism is the stronger one exactly when both sides can use it.   *)
LEMMA StrongestMechanism ==
  ASSUME NEW mechanisms, Mechanism(mechanisms) # <<>>
  PROVE  Mechanism(mechanisms)[1] = "SCRAM-SHA-256-PLUS"
           <=> transport = "tls" /\ "SCRAM-SHA-256-PLUS" \in mechanisms
  BY DEF Mechanism, ChannelBindingData

(* handle_sasl begins: a request for SASL, and the first of the exchange.  *)
LEMMA SaslBegins == ASSUME LoginType, Turns, Sasled, Sasl PROVE Sasled'
<1> DEFINE chosen == Mechanism(Head(inbox).body)
           binding == IF chosen = <<"SCRAM-SHA-256-PLUS">> THEN ChannelBindingData ELSE <<>>
           client == WithChannelBinding(config[1].user, config[1].password[1], "fresh", binding)
<1>1. /\ pc = "auth" /\ inbox # <<>> /\ Head(inbox).kind = "sasl" /\ inbox' = Tail(inbox)
      /\ UNCHANGED <<expected, proved, dialog, signed, server, config, transport>>
  BY DEF Sasl, Receive, Taken, serverVars, Goes
<1>2. /\ outbox = <<>> /\ inbox' = <<>> /\ 1 \in DOMAIN inbox /\ Head(inbox) = inbox[1]
  BY <1>1, MessageTaken DEF LastWords
<1>3. scram = <<>> /\ config # <<>>
  BY <1>1, <1>2 DEF Sasled, Exchange, LoginType
<1>4. /\ expected = <<>> /\ dialog = <<>> /\ signed = <<>> /\ ~proved
      /\ Head(inbox).body = server.mechanisms
  BY <1>1, <1>2, <1>3 DEF Sasled, NoExchange
<1>5. CASE chosen = <<>> \/ config[1].password = <<>>
  <2>1. pc' = "failed" /\ UNCHANGED <<scram, outbox>>
    BY <1>5 DEF Sasl, Goes
  <2> QED
    BY <1>1, <1>2, <1>3, <1>4, <2>1 DEF Sasled, NoExchange
<1>6. CASE ~(chosen = <<>> \/ config[1].password = <<>>)
  <2>1. /\ scram' = <<[client |-> client, mechanism |-> chosen[1]]>> /\ pc' = "saslContinue"
        /\ Sends("saslInitial", [mechanism |-> chosen[1], first |-> ClientFirst(client)])
    BY <1>6 DEF Sasl, Goes
  <2>2. client.password = config[1].password[1]
    BY DEF WithChannelBinding
  <2>3. chosen # <<>>
    BY <1>6
  <2>4. chosen[1] = "SCRAM-SHA-256-PLUS"
          <=> transport = "tls" /\ "SCRAM-SHA-256-PLUS" \in server.mechanisms
    BY <1>4, <2>3, StrongestMechanism
  <2>5. /\ DOMAIN outbox' = {1} /\ outbox'[1].kind = "saslInitial"
        /\ outbox'[1].body.mechanism = chosen[1]
    BY <1>2, <2>1, OneMessage DEF Sends
  <2> HIDE DEF client, chosen
  <2>6. /\ scram' # <<>> /\ scram'[1].mechanism = chosen[1] /\ scram'[1].client = client
    BY <2>1
  <2>7. DOMAIN inbox' = {}
    BY <1>2
  <2>8. Exchange'
    BY <1>1, <1>3, <2>1, <2>2, <2>4, <2>5, <2>6, <2>7 DEF Exchange
  <2>9. Opening'
    BY <1>1, <1>4, <2>1, <2>5, <2>6, <2>7 DEF Opening
  <2> QED
    BY <1>1, <1>4, <2>6, <2>8, <2>9 DEF Sasled
<1> QED
  BY <1>5, <1>6

(* The client's final message: it keeps a key made of its own password.    *)
LEMMA FinalKeepsKey ==
  ASSUME NEW client, NEW serverFirst, ClientFinal(client, serverFirst) # <<>>
  PROVE  ClientFinal(client, serverFirst)[1].serverKey.server[1] = client.password
<1> DEFINE first == ParseServerFirst(serverFirst)[1]
<1>1. ClientFinal(client, serverFirst)[1].serverKey
        = CalculateServerKey(client.password, first.s, first.i)
  BY DEF ClientFinal
<1> QED
  BY <1>1 DEF CalculateServerKey, SaltedPassword

LEMMA SaslContinues == ASSUME LoginType, Turns, Sasled, SaslContinue PROVE Sasled'
<1> DEFINE final == IF Head(inbox).utf8 THEN ClientFinal(scram[1].client, Head(inbox).body)
                    ELSE <<>>
<1>1. /\ pc = "saslContinue" /\ inbox # <<>> /\ Head(inbox).kind = "saslContinue"
      /\ inbox' = Tail(inbox)
      /\ UNCHANGED <<scram, proved, dialog, signed, server, config, transport>>
  BY DEF SaslContinue, Receive, Taken, serverVars, Goes
<1>2. /\ outbox = <<>> /\ inbox' = <<>> /\ 1 \in DOMAIN inbox /\ Head(inbox) = inbox[1]
  BY <1>1, MessageTaken DEF LastWords
<1>3. scram # <<>> /\ expected = <<>>
  BY <1>1 DEF LoginType, Sasled, Closing
<1>4. Exchange /\ Opening /\ dialog # <<>> /\ signed = <<>> /\ ~proved
  BY <1>1, <1>2, <1>3 DEF Sasled, Opening
<1>5. CASE final = <<>>
  <2>1. pc' = "failed" /\ UNCHANGED <<expected, outbox>>
    BY <1>5 DEF SaslContinue, Goes
  <2> QED
    BY <1>1, <1>2, <1>3, <1>4, <2>1 DEF Sasled, Exchange, Opening
<1>6. CASE final # <<>>
  <2>1. /\ expected' = <<[message |-> final[1].message, serverKey |-> final[1].serverKey]>>
        /\ pc' = "saslFinal" /\ Sends("saslResponse", final[1].final)
    BY <1>6 DEF SaslContinue, Goes
  <2>2. final[1].serverKey.server[1] = config[1].password[1]
    BY <1>4, <1>6, FinalKeepsKey DEF Exchange
  <2>3. DOMAIN outbox' = {1} /\ outbox'[1].kind = "saslResponse"
    BY <1>2, <2>1, OneSent
  <2> HIDE DEF final
  <2>4. expected' # <<>> /\ expected'[1].serverKey = final[1].serverKey
    BY <2>1
  <2>5. DOMAIN inbox' = {}
    BY <1>2
  <2>6. Exchange'
    BY <1>1, <1>4, <2>1, <2>3, <2>5 DEF Exchange
  <2>7. Closing'
    BY <1>1, <1>4, <2>1, <2>2, <2>3, <2>4, <2>5 DEF Opening, Closing
  <2> QED
    BY <1>1, <1>3, <2>4, <2>6, <2>7 DEF Sasled
<1> QED
  BY <1>5, <1>6

(* A signature the client verifies was made with its own password, over    *)
(* the message of its own exchange.                                        *)
LEMMA SaslEnds == ASSUME LoginType, Turns, Sasled, SaslFinal PROVE Sasled'
<1>1. /\ pc = "saslFinal" /\ inbox # <<>> /\ Head(inbox).kind = "saslFinal"
      /\ inbox' = Tail(inbox)
      /\ UNCHANGED <<scram, expected, outbox, dialog, signed, server, config, transport>>
  BY DEF SaslFinal, Receive, Taken, serverVars, Goes
<1>2. /\ outbox = <<>> /\ 1 \in DOMAIN inbox /\ Head(inbox) = inbox[1]
      /\ \A i \in DOMAIN inbox' : \E j \in DOMAIN inbox : inbox'[i] = inbox[j]
  BY <1>1, MessageTaken
<1>3. scram # <<>> /\ expected # <<>> /\ Exchange /\ Closing
  BY <1>1 DEF LoginType, Sasled
<1>4. /\ pc' \in {"auth", "failed"}
      /\ pc' = "auth" => proved'
      /\ proved' => VerifyServerFinal(Head(inbox).body, expected[1])
  BY DEF SaslFinal, Goes
<1>5. /\ signed # <<>> /\ Signed(Head(inbox))
      /\ signed = <<[message |-> signed[1].message, password |-> signed[1].password]>>
  BY <1>1, <1>2, <1>3 DEF Closing
<1>6. ASSUME proved' PROVE /\ signed[1].message = expected[1].message
                           /\ signed[1].password = config[1].password[1]
  <2>1. Head(inbox).body.signature = [key |-> expected[1].serverKey, over |-> expected[1].message]
    BY <1>4, <1>6 DEF VerifyServerFinal, CalculateServerSignature
  <2>2. /\ Head(inbox).body.signature.over = expected[1].message
        /\ Head(inbox).body.signature.key = expected[1].serverKey
    BY <2>1
  <2> QED
    BY <1>3, <1>5, <2>2 DEF Signed, Closing
<1>7. Exchange'
  BY <1>1, <1>2, <1>3, <1>4 DEF Exchange
<1>8. ASSUME proved'
      PROVE  signed = <<[message |-> expected[1].message, password |-> config[1].password[1]]>>
  BY <1>5, <1>6, <1>8
<1>9. Closing'
  BY <1>1, <1>2, <1>3, <1>4, <1>8 DEF Closing, Signed
<1> QED
  BY <1>1, <1>3, <1>7, <1>9 DEF Sasled
(* The server answers within the exchange the client is in.                *)
LEMMA ServerAnswers == ASSUME Turns, Sasled, ServerNext PROVE Sasled'
<1>1. ServerTurn
  BY AnyServerTurn
<1>2. /\ UNCHANGED <<scram, expected, proved, config, transport, pc, server>>
      /\ outbox # <<>> /\ outbox' = <<>> /\ DOMAIN outbox' = {} /\ 1 \in DOMAIN outbox
  BY <1>1 DEF ServerTurn, clientVars
<1>3. proved => scram = <<>> \/ expected = <<>>
  BY <1>2 DEF Sasled, Closing
<1>4. ~proved
  BY <1>3 DEF Sasled, NoExchange, Opening
<1>5. CASE ServerRefuses
  <2>1. /\ UNCHANGED <<dialog, signed>>
        /\ \A i \in DOMAIN inbox' : inbox'[i].kind = "error"
    BY <1>5, RefusesTurn
  <2> QED
    BY <1>2, <1>4, <2>1 DEF Sasled, NoExchange, Exchange, Opening, Closing
<1>6. CASE ServerSsl \/ ServerStartup \/ ServerPassword
  <2>1. /\ UNCHANGED <<dialog, signed>> /\ outbox[1].kind \in {"ssl", "startup", "password"}
        /\ \A i \in DOMAIN inbox' : inbox'[i].kind = "sasl" => inbox'[i].body = server.mechanisms
    BY <1>6, SslTurn, StartupTurn, PasswordTurn DEF Final
  <2>2. scram = <<>>
    BY <1>2, <2>1 DEF Sasled, Exchange
  <2> QED
    BY <1>2, <2>1, <2>2 DEF Sasled, NoExchange
<1>7. CASE ServerSaslInitial
  <2>1. /\ UNCHANGED signed /\ outbox[1].kind = "saslInitial"
        /\ dialog' # <<>> /\ dialog'[1].asked = outbox[1].body
        /\ \A i \in DOMAIN inbox' : inbox'[i].kind \in {"error", "saslContinue"}
    BY <1>7, SaslInitialTurn
  <2>2. scram # <<>> /\ expected = <<>>
    BY <1>2, <2>1 DEF Sasled, NoExchange, Closing
  <2> QED
    BY <1>2, <2>1, <2>2 DEF Sasled, Exchange, Opening
<1>8. CASE ServerSaslResponse
  <2>1. /\ UNCHANGED dialog /\ outbox[1].kind = "saslResponse" /\ signed' # <<>>
        /\ signed' = <<[message |-> signed'[1].message, password |-> signed'[1].password]>>
        /\ \A i \in DOMAIN inbox' : inbox'[i].kind \in Final \cup {"saslFinal"}
        /\ \A i \in DOMAIN inbox' : inbox'[i].kind = "saslFinal" => Signed(inbox[i])'
    BY <1>8, SaslResponseTurn
  <2>2. scram # <<>> /\ expected # <<>>
    BY <1>2, <2>1 DEF Sasled, NoExchange, Opening
  <2>3. Exchange'
    BY <1>2, <2>1, <2>2 DEF Sasled, Exchange, Final
  <2>4. Closing'
    BY <1>2, <1>4, <2>1, <2>2 DEF Sasled, Closing
  <2> QED
    BY <1>2, <2>2, <2>3, <2>4 DEF Sasled
<1>9. CASE ServerOdd
  <2>1. /\ UNCHANGED <<dialog, signed>>
        /\ \A i \in DOMAIN inbox' : inbox'[i].kind \in Final \cup {"odd"}
    BY <1>9, OddTurn
  <2> QED
    BY <1>2, <1>4, <2>1 DEF Sasled, NoExchange, Exchange, Opening, Closing, Final
<1> QED
  BY <1>5, <1>6, <1>7, <1>8, <1>9 DEF ServerNext

-----------------------------------------------------------------------------
LEMMA LoginInvariant == LoginSpec => []LoginInv
<1>1. LoginInit => LoginInv
  <2> SUFFICES ASSUME LoginInit PROVE LoginInv
    OBVIOUS
  <2>1. IsSeq(<<>>) /\ Len(<<>>) = 0 /\ DOMAIN <<>> = {}
    BY DEF IsSeq
  <2>2. LoginType
    BY DEF LoginInit, LoginType
  <2>3. Turns
    BY <2>1 DEF LoginInit, Turns
  <2>4. Prepared /\ Channel
    BY DEF LoginInit, Prepared, Channel
  <2>5. EncryptedAsConfigured /\ Sasled
    BY <2>1 DEF LoginInit, EncryptedAsConfigured, Sasled, NoExchange
  <2> QED
    BY <2>2, <2>3, <2>4, <2>5 DEF LoginInv
<1>2. LoginInv /\ [LoginNext]_loginVars => LoginInv'
  <2> SUFFICES ASSUME LoginInv, [LoginNext]_loginVars PROVE LoginInv'
    OBVIOUS
  <2>1. Turns' /\ Called'
    BY StepTurns, StepCalled DEF LoginInv, Called
  <2>2. Sasled'
    BY ServerAnswers, SaslBegins, SaslContinues, SaslEnds, NoExchangeYet, QuietSteps, ExchangeKept
    DEF LoginInv, LoginNext, ClientNext
  <2> QED
    BY <2>1, <2>2 DEF LoginInv, Called
<1> QED
  BY <1>1, <1>2, PTL DEF LoginSpec

(* The variables of a login keep their types, and what an await needs is   *)
(* there: startup finds its configuration, the SASL steps their client     *)
(* (LoginType).                                                            *)
THEOREM LoginTypeCorrect == LoginSpec => []LoginType
<1>1. LoginInv => LoginType
  BY DEF LoginInv
<1> QED
  BY <1>1, LoginInvariant, PTL

(* The sslmode in force is kept to, whatever the server answers to the     *)
(* request for TLS: when it wants TLS nothing else goes over a plain       *)
(* transport, otherwise nothing goes over TLS, and the authority behind    *)
(* the certificate is one named by whichever of string and TlsConfig is in *)
(* force (EncryptedAsConfigured).  It does not say that this is the mode   *)
(* the caller asked for: EncryptedAsAsked does, and is false.              *)
THEOREM EncryptionKept == LoginSpec => []EncryptedAsConfigured
<1>1. LoginInv => EncryptedAsConfigured
  BY DEF LoginInv
<1> QED
  BY <1>1, LoginInvariant, PTL

(* A SASL exchange ends well only with a server that has this password and *)
(* signed this exchange, under the strongest mechanism the two can use,    *)
(* and there is no ready connection without it once it has begun           *)
(* (ServerProved).                                                         *)
THEOREM ServerHasPassword == LoginSpec => []ServerProved
<1>1. LoginInv => ServerProved
  BY DEF LoginInv, Sasled, NoExchange, Exchange, Opening, Closing, ServerProved
<1> QED
  BY <1>1, LoginInvariant, PTL
=============================================================================
