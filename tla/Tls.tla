-------------------------------- MODULE Tls --------------------------------
(***************************************************************************)
(* TlsConfigBuilder::build and parse_server_name (tls.rs).  A file is the  *)
(* sequence of its PEM items <<kind, name>>; "bad" is an item that cannot  *)
(* be read.  What may be absent or may fail is a sequence of at most one   *)
(* element.                                                                *)
(***************************************************************************)
EXTENDS Naturals, Sequences

CONSTANTS
  Files,        \* the files that can be read, by path
  SystemCerts   \* load_native_certs: [certs, errors]

SslModes == {"disable", "require", "verify-ca", "verify-full"}
KeyKinds == {"pkcs1", "pkcs8", "sec1"}

ItemsOf(path, Kinds) == SelectSeq(Files[path], LAMBDA item : item[1] \in Kinds)

(* Certificates of a file that is readable to its end and has one at       *)
(* least: load_client_certs and load_custom_ca read alike.                 *)
LoadCerts(path) ==
  IF path \notin DOMAIN Files \/ ItemsOf(path, {"bad"}) # <<>> \/ ItemsOf(path, {"cert"}) = <<>>
  THEN <<>> ELSE <<ItemsOf(path, {"cert"})>>
LoadCustomCa(path) ==
  LET certs == LoadCerts(path)
  IN  IF certs = <<>> THEN <<>> ELSE <<{certs[1][i][2] : i \in DOMAIN certs[1]}>>

(* The first key, if nothing before it is unreadable.                      *)
LoadClientKey(path) ==
  LET stops == IF path \notin DOMAIN Files THEN <<>> ELSE ItemsOf(path, KeyKinds \cup {"bad"})
  IN  IF stops = <<>> \/ Head(stops)[1] = "bad" THEN <<>> ELSE <<Head(stops)>>

RootStore(builder) ==
  IF builder.ca # <<>> THEN LoadCustomCa(builder.ca[1])
  ELSE IF SystemCerts.errors /\ SystemCerts.certs = {} THEN <<>>
  ELSE <<SystemCerts.certs>>

(* The client's certificates with their key, both or neither; rustls       *)
(* refuses a key that is not the one of the first certificate.             *)
Identity(builder) ==
  IF builder.cert = <<>> /\ builder.key = <<>> THEN <<<<>>>>
  ELSE IF builder.cert = <<>> \/ builder.key = <<>> THEN <<>>
  ELSE LET certs == LoadCerts(builder.cert[1])
           key == LoadClientKey(builder.key[1])
       IN  IF certs = <<>> \/ key = <<>> THEN <<>>
           ELSE IF key[1][2] # certs[1][1][2] THEN <<>>
           ELSE <<<<[certs |-> certs[1], key |-> key[1]]>>>>

DefaultBuilder ==
  [ca |-> <<>>, cert |-> <<>>, key |-> <<>>, verifyHostname |-> TRUE, acceptInvalidCerts |-> FALSE]

(* The options to verify less are kept and reported; the store and the     *)
(* identity are all the handshake is given.                                *)
BuildTls(builder) ==
  IF RootStore(builder) = <<>> \/ Identity(builder) = <<>> THEN <<>>
  ELSE <<[roots |-> RootStore(builder)[1], identity |-> Identity(builder)[1],
          verifyHostname |-> builder.verifyHostname,
          acceptInvalidCerts |-> builder.acceptInvalidCerts]>>

-----------------------------------------------------------------------------
(* A host name is a sequence of characters.                                *)
NamePunctuation == {"-", "."}
MaxHost == 253

(* Without the dots at its end.                                            *)
TrimDots(host) ==
  LET Rest(n) == \A i \in n + 1 .. Len(host) : host[i] = "."
      kept == CHOOSE n \in 0 .. Len(host) : Rest(n) /\ (n > 0 => host[n] # ".")
  IN  SubSeq(host, 1, kept)

ParseServerName(host) ==
  LET name == TrimDots(host)
  IN  IF Len(name) \in 1 .. MaxHost
         /\ \A i \in DOMAIN name : name[i] \in {"letter", "digit"} \cup NamePunctuation
      THEN <<name>> ELSE <<>>
=============================================================================
