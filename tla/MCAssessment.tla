---------------------------- MODULE MCAssessment ----------------------------
(***************************************************************************)
(* Instances of Assessment for TLC: the results a scan can produce, varied *)
(* in the endpoint or in the certificate.                                  *)
(***************************************************************************)
EXTENDS Assessment

\* A scan reports the one suite of TLS 1.3 that was negotiated (none if that
\* connection was lost) and every older suite found by the enumeration.
Suites13 == {[kx |-> "any", cipher |-> c] : c \in {"AES128", "AES256"}}
SuitesOld ==
  { [kx |-> "ECDHE", cipher |-> "AES128"], [kx |-> "ECDHE", cipher |-> "AES256"],
    [kx |-> "RSA", cipher |-> "AES128"], [kx |-> "RSA", cipher |-> "3DES"] }

SuiteSets(versions) ==
  { new \cup old :
      new \in IF "TLS1.3" \in versions THEN {{}} \cup {{s} : s \in Suites13} ELSE {{}},
      old \in IF versions \subseteq {"TLS1.3"} THEN {{}} ELSE SUBSET SuitesOld }

AllSuiteSets == {new \cup old : new \in {{}} \cup {{s} : s \in Suites13}, old \in SUBSET SuitesOld}

\* A hybrid group needs TLS 1.3; a server may agree on no group at all.
GroupSets(versions) ==
  {{}, {"X25519"}} \cup IF "TLS1.3" \in versions THEN {{"X25519MLKEM768", "X25519"}} ELSE {}

Endpoint(versions, suites, groups, cert) ==
  [versions |-> versions, suites |-> suites, groups |-> groups, cert |-> cert]

\* Hours left, around both boundaries of the window: expired, the last day, on
\* either side of thirty days, beyond it; not valid yet; and ending before it begins.
Windows ==
  {<<-11, FALSE>>, <<11, FALSE>>, <<719, FALSE>>, <<720, FALSE>>, <<744, FALSE>>, <<719, TRUE>>, <<-11, TRUE>>}
Keys == {<<"RSA", 1024>>, <<"RSA", 2048>>, <<"RSA", 4096>>, <<"ECDSA", 256>>, <<"Ed25519", 256>>}

\* applyValidityWindowVerdict: the chain check steps aside only for a leaf
\* outside its own window.
Chains(window) == IF window[1] < 0 \/ window[2] THEN {"notPerformed", "failed"} ELSE {"passed", "failed"}

Certificates ==
  { c \in { [ hours |-> w[1], notYetValid |-> w[2], lifetime |-> 90, name |-> n, chain |-> ch,
              selfSigned |-> self, isCA |-> FALSE, key |-> k[1], bits |-> k[2], sig |-> sig ] :
              w \in Windows, n \in {"passed", "failed"}, ch \in Check, self \in BOOLEAN,
              k \in Keys, sig \in {"SHA256", "SHA1"} } :
      c.chain \in Chains(<<c.hours, c.notYetValid>>) }

Good == [ hours |-> 2000, notYetValid |-> FALSE, lifetime |-> 90, name |-> "passed",
          chain |-> "passed", selfSigned |-> FALSE, isCA |-> FALSE,
          key |-> "ECDSA", bits |-> 256, sig |-> "SHA256" ]

\* The certificate and one suite come from the same connection, at TLS 1.3 if
\* the server has it, else at TLS 1.2 with a suite Go offers by default; a
\* server of TLS 1.1 and earlier refuses it.
Connected(versions, suites) ==
  \E s \in suites :
    IF "TLS1.3" \in versions THEN s.kx = "any" ELSE "TLS1.2" \in versions /\ s.kx = "ECDHE"

\* Endpoints with a good certificate or none, and every certificate on two
\* endpoints that differ in their groups.
Endpoints ==
  { m \in { Endpoint(v, s, g, c) :
            v \in (SUBSET VersionNames) \ {{}}, s \in AllSuiteSets,
            g \in GroupSets(VersionNames), c \in {NoCertificate, Good} } :
      /\ m.suites \in SuiteSets(m.versions)
      /\ m.groups \in GroupSets(m.versions)
      /\ m.cert = Good => Connected(m.versions, m.suites) }

Certified ==
  { Endpoint({"TLS1.3", "TLS1.2"}, {[kx |-> "any", cipher |-> "AES256"]}, g, c) :
      g \in {{"X25519"}, {"X25519MLKEM768", "X25519"}}, c \in Certificates }

MCMeasurements == Endpoints \cup Certified

MCConfigs == Config

\* Servers with TLS 1.3 and 1.2, under a full scan.
MCModern == {m \in MCMeasurements : m.versions = {"TLS1.3", "TLS1.2"} /\ m.cert = Good}
MCFull == {[checkVulns |-> TRUE, checkQuantum |-> TRUE]}
=============================================================================
