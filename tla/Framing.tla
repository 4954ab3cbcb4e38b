------------------------------ MODULE Framing ------------------------------
(***************************************************************************)
(* From bytes to messages: decode_message (decode.rs) and the loop of      *)
(* Connection::receive_message around it.  The network cuts the stream of  *)
(* bytes into segments as it likes; a call of receive_message may be       *)
(* dropped while it waits for one, and the bytes it has read stay in       *)
(* read_buf for the next call.                                             *)
(*                                                                         *)
(* The server is external: it sends well-formed messages, among them some  *)
(* the decoder does not know.  Strings are ASCII, so from_utf8_lossy keeps *)
(* them.  A NULL field, an absent value, is <<>>, a value v is <<v>>.      *)
(***************************************************************************)
EXTENDS Bytes

CONSTANTS
  Messages,  \* the messages the server may send
  MaxSaid    \* bound: messages it sends

VARIABLES
  said,     \* history: the messages the server has sent
  flight,   \* bytes on their way
  lost,     \* the connection has ended
  buf,      \* read_buf
  waiting,  \* receive_message is at its await
  got       \* the messages receive_message has returned

framingVars == <<said, flight, lost, buf, waiting, got>>

-----------------------------------------------------------------------------
(* The decoders return <<message>>, or <<>> for the errors, which their    *)
(* one caller does not tell apart.                                         *)
Error == <<>>
MaxMessageLength == 1073741824

Tags == [authentication |-> 82, keyData |-> 75, complete |-> 67, dataRow |-> 68, error |-> 69,
         notice |-> 78, paramStatus |-> 83, ready |-> 90, rowDesc |-> 84]
AuthTypes == [ok |-> 0, cleartext |-> 3, md5 |-> 5, sasl |-> 10, saslContinue |-> 11,
              saslFinal |-> 12]

DecodeAuthentication(data) ==
  LET rest == SubSeq(data, 5, Len(data))
      type == Be32(data, 1)
      Auth(method, value) == <<[kind |-> "auth", method |-> method, data |-> value]>>
  IN CASE Len(data) < 4 -> Error
       [] type = AuthTypes.ok -> Auth("ok", <<>>)
       [] type = AuthTypes.cleartext -> Auth("cleartext", <<>>)
       [] type = AuthTypes.md5 ->
            IF Len(data) < 8 THEN Error ELSE Auth("md5", SubSeq(data, 5, 8))
       [] type = AuthTypes.sasl -> Auth("sasl", StringsFrom(data, 5))
       [] type = AuthTypes.saslContinue -> Auth("saslContinue", rest)
       [] type = AuthTypes.saslFinal -> Auth("saslFinal", rest)
       [] OTHER -> Error

DecodeBackendKeyData(data) ==
  IF Len(data) < 8 THEN Error
  ELSE <<[kind |-> "keyData", process |-> Be32(data, 1), secret |-> Be32(data, 5)]>>

DecodeCommandComplete(data) ==
  IF EndOf(data, 1) = 0 THEN Error ELSE <<[kind |-> "complete", tag |-> StringAt(data, 1)]>>

(* Fields read one after the other: read[k] is the place after k of them   *)
(* with what they were, or Error.                                          *)
RowField(data, at, fields) ==
  IF at + 3 > Len(data) THEN Error
  ELSE LET len == Be32(data, at)
       IN  CASE len = -1 -> <<[at |-> at + 4, fields |-> Append(fields, <<>>)]>>
             [] at + 3 + len > Len(data) -> Error
             [] OTHER ->
                  <<[at |-> at + 4 + len,
                     fields |-> Append(fields, <<SubSeq(data, at + 4, at + 3 + len)>>)]>>
DecodeDataRow(data) ==
  LET count == Be16(data, 1)
      read[k \in 0 .. count] ==
        IF k = 0 THEN <<[at |-> 3, fields |-> <<>>]>>
        ELSE IF read[k - 1] = Error THEN Error
        ELSE RowField(data, read[k - 1][1].at, read[k - 1][1].fields)
  IN  IF Len(data) < 2 \/ read[count] = Error THEN Error
      ELSE <<[kind |-> "dataRow", fields |-> read[count][1].fields]>>

(* Severity, code, message, detail, hint and position are kept; the other  *)
(* fields are skipped, and of a field that comes twice the last counts.    *)
KeptFields == {83, 67, 77, 68, 72, 80}
DecodeErrorFields(data) ==
  LET none == [f \in KeptFields |-> <<>>]
      read[at \in 1 .. Len(data) + 1] ==  \* from the end: read[at] holds the fields from "at"
        IF at > Len(data) \/ data[at] = 0 THEN <<none>>
        ELSE LET end == EndOf(data, at + 1)
                 later == read[end + 1]
             IN  IF end = 0 \/ later = Error THEN Error
                 ELSE IF data[at] \in KeptFields /\ later[1][data[at]] = <<>>
                 THEN <<[later[1] EXCEPT ![data[at]] = <<StringAt(data, at + 1)>>]>>
                 ELSE later
  IN  read[1]

DecodeErrorResponse(data) ==
  [i \in DOMAIN DecodeErrorFields(data) |->
     [kind |-> "error", fields |-> DecodeErrorFields(data)[i]]]
DecodeNoticeResponse(data) ==
  [i \in DOMAIN DecodeErrorFields(data) |->
     [kind |-> "notice", fields |-> DecodeErrorFields(data)[i]]]

DecodeParameterStatus(data) ==
  LET value == EndOf(data, 1) + 1
  IN  IF value = 1 \/ value > Len(data) \/ EndOf(data, value) = 0 THEN Error
      ELSE <<[kind |-> "paramStatus", name |-> StringAt(data, 1),
              value |-> StringAt(data, value)]>>

DecodeReadyForQuery(data) ==
  IF data = <<>> THEN Error ELSE <<[kind |-> "ready", status |-> data[1]]>>

Descriptor(data, at) ==  \* "at": after the name
  [table |-> Be32(data, at), column |-> Be16(data, at + 4), type |-> Be32(data, at + 6),
   size |-> Be16(data, at + 10), modifier |-> Be32(data, at + 12), format |-> Be16(data, at + 16)]
DescriptionField(data, at, fields) ==
  LET end == EndOf(data, at)
  IN  IF end = 0 \/ end + 18 > Len(data) THEN Error
      ELSE <<[at |-> end + 19,
              fields |-> Append(fields, [name |-> StringAt(data, at),
                                         desc |-> Descriptor(data, end + 1)])]>>
DecodeRowDescription(data) ==
  LET count == Be16(data, 1)
      read[k \in 0 .. count] ==
        IF k = 0 THEN <<[at |-> 3, fields |-> <<>>]>>
        ELSE IF read[k - 1] = Error THEN Error
        ELSE DescriptionField(data, read[k - 1][1].at, read[k - 1][1].fields)
  IN  IF Len(data) < 2 \/ read[count] = Error THEN Error
      ELSE <<[kind |-> "rowDesc", fields |-> read[count][1].fields]>>

DecodeBody(tag, data) ==
  CASE tag = Tags.authentication -> DecodeAuthentication(data)
    [] tag = Tags.keyData -> DecodeBackendKeyData(data)
    [] tag = Tags.complete -> DecodeCommandComplete(data)
    [] tag = Tags.dataRow -> DecodeDataRow(data)
    [] tag = Tags.error -> DecodeErrorResponse(data)
    [] tag = Tags.notice -> DecodeNoticeResponse(data)
    [] tag = Tags.paramStatus -> DecodeParameterStatus(data)
    [] tag = Tags.ready -> DecodeReadyForQuery(data)
    [] tag = Tags.rowDesc -> DecodeRowDescription(data)
    [] OTHER -> Error

(* The length counts itself and not the tag.  As an unsigned number a      *)
(* negative one is above the maximum.  Well-formed messages have none      *)
(* below 4, where the code's slice would end before it begins.             *)
DecodeMessage(data) ==
  IF Len(data) < 5 THEN Error
  ELSE LET len == Be32(data, 2)
       IN  IF len < 0 \/ len > MaxMessageLength \/ Len(data) < len + 1 THEN Error
           ELSE LET body == DecodeBody(data[1], SubSeq(data, 6, len + 1))
                IN  [i \in DOMAIN body |-> [msg |-> body[i], consumed |-> len + 1]]

-----------------------------------------------------------------------------
(* The server's side of the protocol (external).                           *)
WireField(f) == IF f = <<>> THEN Byte4(-1) ELSE Byte4(Len(f[1])) \o f[1]
WireDescriptor(f) ==
  Zero(f.name) \o Byte4(f.desc.table) \o Byte2(f.desc.column) \o Byte4(f.desc.type)
    \o Byte2(f.desc.size) \o Byte4(f.desc.modifier) \o Byte2(f.desc.format)
ErrorOrder == <<83, 67, 77, 68, 72, 80>>  \* S, C, M, D, H, P
WireErrorField(f, value) == IF value = <<>> THEN <<>> ELSE <<f>> \o Zero(value[1])
WireErrorFields(fields) ==  \* "V", a field the client skips, comes first
  <<86>> \o Zero(<<69>>)
    \o (Flat([i \in 1 .. 6 |-> WireErrorField(ErrorOrder[i], fields[ErrorOrder[i]])]) \o <<0>>)

WireBody(m) ==
  CASE m.kind = "auth" ->
         Byte4(AuthTypes[m.method]) \o
         (IF m.method = "sasl" THEN Flat([i \in DOMAIN m.data |-> Zero(m.data[i])]) \o <<0>>
          ELSE m.data)
    [] m.kind = "keyData" -> Byte4(m.process) \o Byte4(m.secret)
    [] m.kind = "complete" -> Zero(m.tag)
    [] m.kind = "dataRow" ->
         Byte2(Len(m.fields)) \o Flat([i \in DOMAIN m.fields |-> WireField(m.fields[i])])
    [] m.kind \in {"error", "notice"} -> WireErrorFields(m.fields)
    [] m.kind = "paramStatus" -> Zero(m.name) \o Zero(m.value)
    [] m.kind = "ready" -> <<m.status>>
    [] m.kind = "rowDesc" ->
         Byte2(Len(m.fields)) \o Flat([i \in DOMAIN m.fields |-> WireDescriptor(m.fields[i])])
    [] m.kind = "emptyQuery" -> <<>>

(* What the server may send.  Byte strings end at a zero and hold none.    *)
Ascii == Seq({n \in Nat : 1 <= n /\ n <= 127})
Optional(S) == {x \in Seq(S) : Len(x) <= 1}
Descriptions ==
  [name : Ascii,
   desc : [table : Int32, column : Int16, type : Int32, size : Int16, modifier : Int32,
           format : Int16]]
ServerMessages ==
  [kind : {"auth"}, method : {"ok", "cleartext"}, data : {<<>>}]
  \cup [kind : {"auth"}, method : {"md5"}, data : {d \in Data : Len(d) = 4}]
  \cup [kind : {"auth"}, method : {"sasl"}, data : Seq(Ascii \ {<<>>})]
  \cup [kind : {"auth"}, method : {"saslContinue", "saslFinal"}, data : Data]
  \cup [kind : {"keyData"}, process : Int32, secret : Int32]
  \cup [kind : {"complete"}, tag : Ascii]
  \cup [kind : {"dataRow"}, fields : {f \in Seq(Optional(Data)) : Len(f) \in Int16}]
  \cup [kind : {"error", "notice"}, fields : [KeptFields -> Optional(Ascii)]]
  \cup [kind : {"paramStatus"}, name : Ascii, value : Ascii]
  \cup [kind : {"ready"}, status : Octets]
  \cup [kind : {"rowDesc"}, fields : {f \in Seq(Descriptions) : Len(f) \in Int16}]
  \cup [kind : {"emptyQuery"}]

ASSUME MessagesAssumption ==
  \A m \in Messages : m \in ServerMessages /\ Len(WireBody(m)) + 4 <= MaxMessageLength

WireTag(m) ==
  CASE m.kind = "auth" -> Tags.authentication
    [] m.kind = "emptyQuery" -> 73  \* "I"
    [] OTHER -> Tags[m.kind]
Wire(m) == <<WireTag(m)>> \o Byte4(Len(WireBody(m)) + 4) \o WireBody(m)

-----------------------------------------------------------------------------
FramingInit ==
  /\ said = <<>> /\ flight = <<>> /\ lost = FALSE
  /\ buf = <<>> /\ waiting = FALSE /\ got = <<>>

ServerSays(m) ==
  /\ ~lost /\ Len(said) < MaxSaid
  /\ said' = Append(said, m)
  /\ flight' = flight \o Wire(m)
  /\ UNCHANGED <<lost, buf, waiting, got>>

(* What has not arrived by now never will.                                 *)
NetworkEnds ==
  /\ ~lost /\ lost' = TRUE /\ flight' = <<>>
  /\ UNCHANGED <<said, buf, waiting, got>>

(* One turn of the loop of receive_message: the buffer, now b, holds a     *)
(* message, and it is returned, or the call waits for more.                *)
Turn(b) ==
  LET decoded == DecodeMessage(b)
  IN  IF decoded # Error
      THEN /\ got' = Append(got, decoded[1].msg)
           /\ buf' = SubSeq(b, decoded[1].consumed + 1, Len(b))
           /\ waiting' = FALSE
      ELSE buf' = b /\ waiting' = TRUE /\ UNCHANGED got

(* Faulty variant: the call waits for a segment before it looks at what it *)
(* has.                                                                    *)
CallReadsFirst ==
  ~waiting /\ waiting' = TRUE /\ UNCHANGED <<buf, got, said, flight, lost>>

Call == ~waiting /\ Turn(buf) /\ UNCHANGED <<said, flight, lost>>

(* A segment: any number of the bytes on their way.                        *)
ReadSegment ==
  /\ waiting
  /\ \E n \in 1 .. Len(flight) :
       Turn(buf \o SubSeq(flight, 1, n)) /\ flight' = SubSeq(flight, n + 1, Len(flight))
  /\ UNCHANGED <<said, lost>>

(* read_buf returns 0, or an error: the call fails.                        *)
ReadEnds ==
  /\ waiting /\ lost /\ flight = <<>>
  /\ waiting' = FALSE
  /\ UNCHANGED <<said, flight, lost, buf, got>>

(* Faulty variant: the bytes of a dropped call are dropped with it.        *)
CallDroppedWithBytes ==
  /\ waiting /\ waiting' = FALSE /\ buf' = <<>>
  /\ UNCHANGED <<said, flight, lost, got>>

(* The future is dropped at its await: a cancelled reader, a select!.      *)
ReceiveDropped ==
  /\ waiting /\ waiting' = FALSE
  /\ UNCHANGED <<said, flight, lost, buf, got>>

FramingNext ==
  \/ \E m \in Messages : ServerSays(m)
  \/ NetworkEnds \/ Call \/ ReadSegment \/ ReadEnds \/ ReceiveDropped

FramingSpec == FramingInit /\ [][FramingNext]_framingVars

-----------------------------------------------------------------------------
FramingType ==
  /\ said \in Seq(Messages) /\ got \in Seq(Messages)
  /\ flight \in Data /\ buf \in Data
  /\ lost \in BOOLEAN /\ waiting \in BOOLEAN

(* However the bytes are cut into segments, and however many calls are     *)
(* dropped on the way, receive_message returns the messages of the server  *)
(* in order, each of them whole and unaltered: every step is one of the    *)
(* queue of messages or no step of it.                                     *)
Queue == INSTANCE MessageQueue
DeliversMessages == Queue!Spec

(* A call waits only for what has not come.  When it waits and nothing is  *)
(* on its way, the messages it has not returned are either incomplete,     *)
(* because the connection was lost, or behind one that decode_message does *)
(* not know, which receive_message never gets past.                        *)
WaitsOnlyForMore ==
  waiting /\ flight = <<>> /\ ~lost /\ Len(got) < Len(said)
    => said[Len(got) + 1].kind = "emptyQuery"
=============================================================================
