---------------------------- MODULE MCScanProbes ----------------------------
(***************************************************************************)
(* Instances of ScanProbes for TLC: a client and a handful of servers that *)
(* differ in what the probes can tell apart.                               *)
(***************************************************************************)
EXTENDS ScanProbes

\* An ephemeral AEAD suite, and one of the static-RSA kind that a default Go
\* client no longer offers.
MCSuites   == {"ECDHE_AES256_GCM", "RSA_3DES"}
MCDefault  == {"ECDHE_AES256_GCM"}
MCSuites13 == {"AES128_13"}
MCBits == [s \in MCSuites \cup MCSuites13 |->
  CASE s = "ECDHE_AES256_GCM" -> 256 [] s = "RSA_3DES" -> 168 [] OTHER -> 128]

\* A hybrid group this build offers, one it does not, and a classical one.
MCGroups    == {"X25519MLKEM768", "SecP256r1MLKEM768", "X25519"}
MCToolchain == {"X25519MLKEM768", "X25519"}
MCHybrid    == {"X25519MLKEM768", "SecP256r1MLKEM768"}
MCGroupBits == [g \in MCGroups |-> 256]

MCNames == <<"AES128_13", "ECDHE_AES256_GCM", "RSA_3DES",
             "SecP256r1MLKEM768", "X25519", "X25519MLKEM768">>
MCNameRank == [s \in MCSuites \cup MCSuites13 \cup MCGroups |->
                 CHOOSE k \in DOMAIN MCNames : MCNames[k] = s]

Peer(versions, suites, groups) ==
  [ silent |-> FALSE, versions |-> versions, suites |-> suites,
    suites13 |-> IF "TLS1.3" \in versions THEN MCSuites13 ELSE {}, groups |-> groups ]
Silent  == [Peer({}, {}, {}) EXCEPT !.silent = TRUE]
Refuses == Peer({}, {}, {})

Modern == Peer({"TLS1.3", "TLS1.2"}, {"ECDHE_AES256_GCM"}, {"X25519MLKEM768", "X25519"})
Wide   == Peer(VersionNames \ {"TLS1.3"}, MCSuites, {"X25519"})
Legacy == Peer({"TLS1.2", "TLS1.0"}, {"RSA_3DES"}, {})

MCServers == {Modern, Wide, Legacy, Silent, Refuses}
MCLegacy  == {Legacy}
MCModern  == {Modern}

MCConfigs ==
  { [sni |-> "other", checkVulns |-> FALSE, checkQuantum |-> TRUE] }
=============================================================================
