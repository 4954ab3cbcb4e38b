------------------------------- MODULE Scram -------------------------------
(***************************************************************************)
(* ScramClient (scram.rs).  Hashes are terms: two are equal exactly when   *)
(* they were computed from the same values.  The server's first message is *)
(* a sequence of fields <<key, value>>, a value being a sequence, empty    *)
(* when the text after the key is; <<"?">> is a text that is not base64 or *)
(* not a number.  A channel binding is <<>> or the certificate's hash.     *)
(***************************************************************************)
EXTENDS Naturals, Sequences

(* A new client draws a nonce no other client has.                         *)
WithChannelBinding(user, password, nonce, binding) ==
  [user |-> user, password |-> password, nonce |-> nonce, binding |-> binding]

(* A header is a sequence of its pieces.  The first message has one comma  *)
(* between the flag and "a=", the user and the nonce; what c= encodes has  *)
(* two before the data.                                                    *)
Gs2Header(binding) == IF binding = <<>> THEN "n" ELSE "p=tls-server-end-point"
ClientFirst(client) ==
  [header |-> <<Gs2Header(client.binding), ",">>, user |-> client.user, nonce |-> client.nonce]
Gs2Cbind(binding) == <<<<Gs2Header(binding), ",", ",">>, binding>>

(* The last field with a key counts; the three must not be empty.          *)
FieldOf(fields, key) ==
  LET found == SelectSeq(fields, LAMBDA f : f[1] = key)
  IN  IF found = <<>> THEN <<>> ELSE found[Len(found)][2]
ParseServerFirst(fields) ==
  LET values == [k \in {"r", "s", "i"} |-> FieldOf(fields, k)]
  IN  IF \E k \in DOMAIN values : values[k] = <<>> THEN <<>> ELSE <<values>>

Legible(value) == value # <<"?">>
SaltedPassword(password, salt, iterations) == <<password, salt, iterations>>
CalculateClientProof(password, salt, iterations, message) ==
  [client |-> SaltedPassword(password, salt, iterations), over |-> message]
CalculateServerKey(password, salt, iterations) ==
  [server |-> SaltedPassword(password, salt, iterations)]
CalculateServerSignature(serverKey, message) == [key |-> serverKey, over |-> message]

AuthMessage(user, nonce, serverFirst, withoutProof) == <<user, nonce, serverFirst, withoutProof>>

(* The client's final message and what it keeps to verify the answer, or   *)
(* nothing when the server's first message will not do.                    *)
ClientFinal(client, serverFirst) ==
  LET parsed == ParseServerFirst(serverFirst)
  IN  IF parsed = <<>> THEN <<>>
      ELSE LET first == parsed[1]
               withoutProof == [c |-> Gs2Cbind(client.binding), r |-> first.r]
               message == AuthMessage(client.user, client.nonce, serverFirst, withoutProof)
           IN  IF Head(first.r) # client.nonce \/ ~Legible(first.s) \/ ~Legible(first.i) THEN <<>>
               ELSE <<[final |-> [withoutProof |-> withoutProof,
                                  proof |-> CalculateClientProof(client.password, first.s,
                                                                 first.i, message)],
                       message |-> message,
                       serverKey |-> CalculateServerKey(client.password, first.s, first.i)]>>

(* Faulty variant: any legible signature will do.                          *)
VerifyAnySignature(final, state) == final.prefix = "v=" /\ final.legible

VerifyServerFinal(final, state) ==
  /\ final.prefix = "v=" /\ final.legible
  /\ final.signature = CalculateServerSignature(state.serverKey, state.message)
=============================================================================
