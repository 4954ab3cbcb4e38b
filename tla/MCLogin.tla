------------------------------ MODULE MCLogin ------------------------------
(* Strings of every form, with what may be wrong with each.                *)
EXTENDS Login, TLC

MCPorts == {"5432", "5433"}
MCSocketDirs == {"/tmp", "/var/run/postgresql"}
MCFiles ==
  "ca" :> <<<<"other", "note">>, <<"cert", "own">>>> @@ "cert" :> <<<<"cert", "me">>>>
  @@ "key" :> <<<<"cert", "me">>, <<"pkcs8", "me">>>>
  @@ "other key" :> <<<<"sec1", "you">>>>
  @@ "garbled" :> <<<<"cert", "own">>, <<"bad", "">>>>
MCSystemCerts == [certs |-> {"web"}, errors |-> FALSE]

MCName == <<"letter", "-", "digit">>
MCTcp ==
  [scheme |-> TRUE, unix |-> FALSE, auth |-> <<"ann", "secret">>, host |-> MCName, port |-> <<>>,
   database |-> <<"db">>, query |-> <<>>]
MCUnix == [MCTcp EXCEPT !.unix = TRUE, !.auth = <<>>, !.host = <<>>]
ModeIs(mode) == <<<<"sslmode", mode>>>>
MCStrings ==
  {MCTcp, [MCTcp EXCEPT !.scheme = FALSE], [MCTcp EXCEPT !.auth = <<"ann">>],
   [MCTcp EXCEPT !.port = <<"x">>], [MCTcp EXCEPT !.query = ModeIs("prefer")],
   [MCTcp EXCEPT !.query = ModeIs("require") \o <<<<"sslmode", "disable">>>>],
   [MCTcp EXCEPT !.host = MCName \o <<".">>,
                 !.query = ModeIs("verify-full") \o <<<<"sslrootcert", "ca">>>>],
   [MCTcp EXCEPT !.host = <<"_">>, !.query = ModeIs("require")],
   [MCTcp EXCEPT !.query = <<<<"flag">>>> \o ModeIs("verify-ca")
                            \o <<<<"sslcert", "cert">>, <<"sslkey", "key">>>>],
   [MCTcp EXCEPT !.query = ModeIs("verify-ca") \o <<<<"sslcert", "cert">>>>],
   [MCTcp EXCEPT !.query = ModeIs("verify-ca")
                            \o <<<<"sslcert", "cert">>, <<"sslkey", "other key">>>>],
   [MCTcp EXCEPT !.query = ModeIs("require") \o <<<<"sslrootcert", "garbled">>>>],
   MCUnix, [MCUnix EXCEPT !.query = ModeIs("require") \o <<<<"host", "/srv">>, <<"port", "x">>>>]}
MCConfigs ==
  {[NewConfig("db", "bob") EXCEPT !.password = <<"secret">>],
   [NewConfig("db", "bob") EXCEPT !.sslmode = "verify-full", !.password = <<"secret">>,
                                  !.application = <<"app">>, !.params = {<<"k", "v">>}]}
MCBuilders == {DefaultBuilder, [DefaultBuilder EXCEPT !.ca = <<"ca">>]}
Plus == "SCRAM-SHA-256-PLUS"
MCServers ==
  {[password |-> p, issuer |-> i, name |-> MCName, mechanisms |-> m] :
     p \in {"secret", "other"}, i \in {"web", "own"},
     m \in {{Plus}, {Plus, "SCRAM-SHA-256"}, {"SCRAM-SHA-256"}, {"SCRAM-SHA-1"}}}
=============================================================================
