------------------------------ MODULE MCHosts -------------------------------
(***************************************************************************)
(* Servers and certificates to judge a policy on, for the MC modules.      *)
(***************************************************************************)
EXTENDS PolicyGate

A128 == [kx |-> "any", cipher |-> "AES128"]
A256 == [kx |-> "any", cipher |-> "AES256"]
E256 == [kx |-> "ECDHE", cipher |-> "AES256"]
R256 == [kx |-> "RSA", cipher |-> "AES256"]
R3   == [kx |-> "RSA", cipher |-> "3DES"]

\* Versions with the suites a scan of such a server can report.
MCServers ==
  { <<{"TLS1.3"}, {A256}>>, <<{"TLS1.3"}, {A128}>>,
    <<{"TLS1.3", "TLS1.2"}, {A256, E256}>>, <<{"TLS1.3", "TLS1.2"}, {A256, E256, R256}>>,
    <<{"TLS1.3", "TLS1.2", "TLS1.1"}, {A256, E256}>>,
    <<{"TLS1.3", "TLS1.2", "TLS1.0"}, {A256, E256, R3}>>,
    <<{"TLS1.3", "TLS1.2", "TLS1.0"}, {A256, E256}>>,
    <<{"TLS1.2"}, {E256}>>, <<{"TLS1.2"}, {E256, R3}>> }

\* Scans whose ordinary connection failed: no certificate, and no suite or only
\* those the enumeration found.
MCUnconnected ==
  {<<{"TLS1.3"}, {}>>, <<{"TLS1.3", "TLS1.2"}, {E256}>>, <<{"TLS1.0"}, {R3}>>}

MCWindows == {<<-11, FALSE>>, <<719, FALSE>>, <<2000, FALSE>>, <<719, TRUE>>}
MCKeys == {<<"RSA", 1024>>, <<"RSA", 2048>>, <<"RSA", 4096>>, <<"ECDSA", 256>>, <<"ECDSA", 384>>}
Outside(c) == c.hours < 0 \/ c.notYetValid

Cert(w, n, ch, self, ca, k, sig) ==
  [ hours |-> w[1], notYetValid |-> w[2], lifetime |-> 90, name |-> n, chain |-> ch,
    selfSigned |-> self, isCA |-> ca, key |-> k[1], bits |-> k[2], sig |-> sig ]
Fine(k, sig) == Cert(<<2000, FALSE>>, "passed", "passed", FALSE, FALSE, k, sig)

\* The verifier rejects a SHA-1 signature unless nothing has to be verified.
Possible(c) ==
  /\ c.chain = "notPerformed" => Outside(c)
  /\ c.chain = "passed" => ~Outside(c) /\ (c.sig = "SHA1" => c.selfSigned)
  /\ c.isCA => c.selfSigned

Troubled ==
  { c \in { Cert(w, n, ch, self, ca, <<"RSA", 4096>>, sig) :
              w \in MCWindows, n \in {"passed", "failed"}, ch \in Check, self \in BOOLEAN,
              ca \in BOOLEAN, sig \in {"SHA384", "SHA1"} } : Possible(c) }

Groups == {{"X25519"}, {"X25519MLKEM768", "X25519"}, {"SecP256r1MLKEM768"}}
On(s, g, c) == [versions |-> s[1], suites |-> s[2], groups |-> g, cert |-> c]
=============================================================================
