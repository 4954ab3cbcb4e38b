-------------------------- MODULE ConnectionString --------------------------
(***************************************************************************)
(* ConnectionInfo (connection_string.rs) and ConnectionConfig (conn.rs).   *)
(* A connection string is the pieces that parse cuts it into:              *)
(*   [scheme, unix, auth, host, port, database, query]                     *)
(* where auth is <<>>, <<user>> or <<user, password>>, port and database   *)
(* have at most one element, and query is a sequence of pairs; a piece     *)
(* without "=" is a sequence of one.                                       *)
(***************************************************************************)
EXTENDS Tls

CONSTANTS
  Ports,       \* texts that are a u16
  SocketDirs   \* the directories of the machine

WhoAmI == "whoami"
DefaultPort == "5432"
StandardDirs == <<"/run/postgresql", "/var/run/postgresql", "/tmp">>

FirstOf(seq, Test(_)) ==
  LET found == SelectSeq(seq, Test) IN IF found = <<>> THEN <<>> ELSE <<Head(found)>>
Default(option, value) == IF option = <<>> THEN value ELSE option[1]

ResolveDefaultSocketDir == FirstOf(StandardDirs, LAMBDA dir : dir \in SocketDirs)

(* The first pair with the key; later ones are ignored.                    *)
ParseQueryParam(query, param) ==
  LET pair == FirstOf(query, LAMBDA p : Len(p) = 2 /\ p[1] = param)
  IN  IF pair = <<>> THEN <<>> ELSE <<pair[1][2]>>

(* A socket takes no user, no password and no TLS from the string, and a   *)
(* port that is no number is the default.                                  *)
ParseUnix(str) ==
  LET port == ParseQueryParam(str.query, "port")
      custom == ParseQueryParam(str.query, "host")
      dir == IF custom # <<>> THEN custom ELSE ResolveDefaultSocketDir
  IN  IF dir = <<>> THEN <<>>
      ELSE <<[transport |-> "unix", host |-> <<>>,
              port |-> IF port # <<>> /\ port[1] \in Ports THEN port[1] ELSE DefaultPort,
              socket |-> dir, database |-> Default(str.database, WhoAmI), user |-> WhoAmI,
              password |-> <<>>, sslmode |-> "disable",
              rootcert |-> <<>>, cert |-> <<>>, key |-> <<>>]>>

ParseTcp(str) ==
  LET mode == Default(ParseQueryParam(str.query, "sslmode"), "disable")
  IN  IF (str.port # <<>> /\ str.port[1] \notin Ports) \/ mode \notin SslModes THEN <<>>
      ELSE <<[transport |-> "tcp", host |-> <<str.host>>, port |-> Default(str.port, DefaultPort),
              socket |-> <<>>, database |-> Default(str.database, WhoAmI),
              user |-> IF str.auth = <<>> THEN WhoAmI ELSE str.auth[1],
              password |-> SubSeq(str.auth, 2, Len(str.auth)), sslmode |-> mode,
              rootcert |-> ParseQueryParam(str.query, "sslrootcert"),
              cert |-> ParseQueryParam(str.query, "sslcert"),
              key |-> ParseQueryParam(str.query, "sslkey")]>>

Parse(str) == IF ~str.scheme THEN <<>> ELSE IF str.unix THEN ParseUnix(str) ELSE ParseTcp(str)

(* Result<Option<TlsConfig>>.                                              *)
ToTlsConfig(info) ==
  IF info.sslmode = "disable" THEN <<<<>>>>
  ELSE LET tls == BuildTls([DefaultBuilder EXCEPT
                              !.ca = info.rootcert, !.cert = info.cert, !.key = info.key,
                              !.verifyHostname = (info.sslmode = "verify-full"),
                              !.acceptInvalidCerts = (info.sslmode = "require")])
       IN  IF tls = <<>> THEN <<>> ELSE <<tls>>

-----------------------------------------------------------------------------
(* ConnectionConfig::new; its builder starts from the same values and its  *)
(* setters and build only copy.                                            *)
NewConfig(database, user) ==
  [database |-> database, user |-> user, password |-> <<>>, params |-> {}, timeout |-> <<>>,
   application |-> <<>>, digits |-> <<>>, sslmode |-> "disable"]

ToConfig(info) ==
  [NewConfig(info.database, info.user) EXCEPT !.password = info.password, !.sslmode = info.sslmode]

(* The pairs of the startup message, without their order.                  *)
Given(key, option) == {<<key, option[i]>> : i \in DOMAIN option}
StartupParams(config) ==
  {<<"user", config.user>>, <<"database", config.database>>}
  \cup Given("application_name", config.application)
  \cup Given("statement_timeout", config.timeout)
  \cup Given("extra_float_digits", config.digits)
  \cup config.params
=============================================================================
