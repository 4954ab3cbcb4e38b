------------------------------ MODULE Encoding ------------------------------
(***************************************************************************)
(* encode_message (encode.rs) against the server's reading of it.  The     *)
(* client writes one message after the other, in the orders conn.rs writes *)
(* them; the server, external, cuts the stream at the lengths it finds and *)
(* reads each piece as what it expects there: an untyped message before    *)
(* the startup, then by type, the type "p" being an answer to what it      *)
(* asked for.                                                              *)
(***************************************************************************)
EXTENDS Bytes

CONSTANTS
  Requests,  \* the frontend messages written
  MaxSent    \* bound: messages written

VARIABLES
  asks,  \* how the server authenticates: "trust", "password" or "sasl"
  sent,  \* history: the messages the client has written
  wire,  \* bytes the server has not read
  seen   \* the messages the server has read

encodingVars == <<asks, sent, wire, seen>>

-----------------------------------------------------------------------------
ProtocolVersion == 196608
SslRequestCode == 80877103
RequestTags == [password |-> 112, saslInitial |-> 112, saslResponse |-> 112, query |-> 81,
                terminate |-> 88]

(* Faulty variant: the length counts the tag.                              *)
WithTagLength(body) == Byte4(Len(body) + 5) \o body

(* The length is written last, over a placeholder: it counts itself and    *)
(* what follows it, not the tag.                                           *)
WithLength(body) == Byte4(Len(body) + 4) \o body

(* Parameters are pairs <<key, value>>.                                    *)
EncodeStartup(req) ==
  WithLength(Byte4(ProtocolVersion)
             \o Flat([i \in DOMAIN req.params |->
                        Zero(req.params[i][1]) \o Zero(req.params[i][2])])
             \o <<0>>)
EncodePassword(req) == WithLength(Zero(req.password))
EncodeQuery(req) == WithLength(Zero(req.query))
EncodeTerminate == Byte4(4)
EncodeSaslInitialResponse(req) ==
  WithLength(Zero(req.mechanism) \o Byte4(Len(req.data)) \o req.data)
EncodeSslRequest == Byte4(8) \o Byte4(SslRequestCode)
EncodeSaslResponse(req) == WithLength(req.data)

Encode(req) ==
  CASE req.kind = "startup" -> EncodeStartup(req)
    [] req.kind = "ssl" -> EncodeSslRequest
    [] OTHER ->
         <<RequestTags[req.kind]>> \o
         (CASE req.kind = "password" -> EncodePassword(req)
            [] req.kind = "query" -> EncodeQuery(req)
            [] req.kind = "terminate" -> EncodeTerminate
            [] req.kind = "saslInitial" -> EncodeSaslInitialResponse(req)
            [] req.kind = "saslResponse" -> EncodeSaslResponse(req))

(* What the client may write: no string holds a zero, no parameter is      *)
(* without a name, and the length of a message is one of 32 bits.          *)
Parameters == (CStrings \ {<<>>}) \X CStrings
ClientMessages ==
  [kind : {"ssl", "terminate"}]
  \cup [kind : {"startup"}, params : Seq(Parameters)]
  \cup [kind : {"password"}, password : CStrings]
  \cup [kind : {"query"}, query : CStrings]
  \cup [kind : {"saslInitial"}, mechanism : CStrings, data : Data]
  \cup [kind : {"saslResponse"}, data : Data]

ASSUME RequestsAssumption ==
  \A req \in Requests : req \in ClientMessages /\ Len(Encode(req)) \in Int32

-----------------------------------------------------------------------------
LastKind(messages) == IF messages = <<>> THEN "none" ELSE messages[Len(messages)].kind

(* What may follow a message: the order in which startup, authenticate,    *)
(* handle_sasl, the queries and close write.                               *)
Following(kind) ==
  CASE kind = "none" -> {"ssl", "startup"}
    [] kind = "ssl" -> {"startup"}
    [] kind = "startup" ->
         (CASE asks = "trust" -> {"query", "terminate"}
            [] asks = "password" -> {"password"}
            [] asks = "sasl" -> {"saslInitial"})
    [] kind = "saslInitial" -> {"saslResponse"}
    [] kind \in {"password", "saslResponse", "query"} -> {"query", "terminate"}
    [] kind = "terminate" -> {}

(* The server's reading (external).  A message is there when its length    *)
(* says so; before the startup there is no tag.                            *)
Untyped == LastKind(seen) \in {"none", "ssl"}
LengthAt == IF Untyped THEN 1 ELSE 2
EndOfMessage == Be32(wire, LengthAt) + LengthAt - 1
HasMessage ==
  /\ Len(wire) >= LengthAt + 3
  /\ EndOfMessage \in LengthAt + 3 .. Len(wire)

(* Names and values from position "from" up to an empty name.              *)
PairsFrom(data, from) ==
  LET Value(at) == EndOf(data, at) + 1
      pairs[at \in from .. Len(data) + 1] ==
        IF at > Len(data) \/ EndOf(data, at) \in {0, at} \/ EndOf(data, Value(at)) = 0 THEN <<>>
        ELSE <<<<StringAt(data, at), StringAt(data, Value(at))>>>>
               \o pairs[EndOf(data, Value(at)) + 1]
  IN  pairs[from]

ReadUntyped(body) ==
  IF Be32(body, 1) = SslRequestCode THEN [kind |-> "ssl"]
  ELSE [kind |-> "startup", params |-> PairsFrom(body, 5)]

ReadTyped(tag, body) ==
  LET Kinds == {k \in Following(LastKind(seen)) : k \in DOMAIN RequestTags /\ RequestTags[k] = tag}
      data == EndOf(body, 1) + 1
  IN CASE Kinds = {"password"} -> [kind |-> "password", password |-> StringAt(body, 1)]
       [] Kinds = {"query"} -> [kind |-> "query", query |-> StringAt(body, 1)]
       [] Kinds = {"terminate"} -> [kind |-> "terminate"]
       [] Kinds = {"saslInitial"} /\ data > 1 /\ data + 3 <= Len(body) ->
            [kind |-> "saslInitial", mechanism |-> StringAt(body, 1),
             data |-> SubSeq(body, data + 4, data + 3 + Be32(body, data))]
       [] Kinds = {"saslResponse"} -> [kind |-> "saslResponse", data |-> body]
       [] OTHER -> [kind |-> "unknown"]

-----------------------------------------------------------------------------
EncodingInit ==
  /\ asks \in {"trust", "password", "sasl"}
  /\ sent = <<>> /\ wire = <<>> /\ seen = <<>>

SendMessage(req) ==
  /\ Len(sent) < MaxSent
  /\ req.kind \in Following(LastKind(sent))
  /\ sent' = Append(sent, req)
  /\ wire' = wire \o Encode(req)
  /\ UNCHANGED <<asks, seen>>

ServerReads ==
  /\ HasMessage
  /\ LET body == SubSeq(wire, LengthAt + 4, EndOfMessage)
     IN  seen' = Append(seen, IF Untyped THEN ReadUntyped(body) ELSE ReadTyped(wire[1], body))
  /\ wire' = SubSeq(wire, EndOfMessage + 1, Len(wire))
  /\ UNCHANGED <<asks, sent>>

EncodingNext == (\E req \in Requests : SendMessage(req)) \/ ServerReads

EncodingSpec == EncodingInit /\ [][EncodingNext]_encodingVars

-----------------------------------------------------------------------------
EncodingType ==
  /\ asks \in {"trust", "password", "sasl"}
  /\ sent \in Seq(Requests)
  /\ wire \in Data

(* The server reads what the client wrote: every message it has cut out of *)
(* the stream is the one written at that place, whatever bytes and empty   *)
(* strings the messages hold, and what is left holds a whole message for   *)
(* every one it has not read: the two never disagree about a length.       *)
ReadAsWritten ==
  /\ Len(seen) <= Len(sent)
  /\ seen = SubSeq(sent, 1, Len(seen))
  /\ wire = <<>> <=> Len(seen) = Len(sent)
  /\ wire # <<>> => HasMessage
=============================================================================
