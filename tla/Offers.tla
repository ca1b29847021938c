------------------------------- MODULE Offers -------------------------------
(***************************************************************************)
(* What the probes of a scan offer a server, what handshakes such an offer *)
(* can end in, and the shape of the result a scan returns.  The server is  *)
(* described by what it accepts.                                           *)
(***************************************************************************)
EXTENDS Integers, Sequences, FiniteSets

CONSTANTS
  Suites,           \* cipher suites of TLS 1.2 and earlier that Go can offer
  DefaultSuites,    \* those an unconfigured Go client offers
  EcdheSuites,      \* those that need a key exchange group
  AeadSuites,       \* those that exist in TLS 1.2 only
  Suites13,         \* the suites of TLS 1.3, which are always all offered
  Bits,             \* the key size of every suite
  NameRank,         \* the lexical order of the names, which are distinct
  Groups,           \* the candidates of probeKeyExchangeGroups
  ToolchainGroups,  \* those this Go build can offer
  HybridGroups,     \* those that exist in TLS 1.3 only
  GroupBits,        \* the classical strength of every group
  Servers,          \* the peers to scan
  Configs           \* the scanner's configurations

ASSUME ProbesAssumption ==
  /\ IsFiniteSet(Suites) /\ IsFiniteSet(Suites13) /\ IsFiniteSet(Groups)
  /\ DefaultSuites \subseteq Suites
  /\ EcdheSuites \subseteq Suites
  /\ AeadSuites \subseteq Suites
  /\ Suites \cap Suites13 = {}
  /\ Bits \in [Suites \cup Suites13 -> Nat]
  /\ GroupBits \in [Groups -> Nat]
  /\ NameRank \in [Suites \cup Suites13 \cup Groups -> Nat]
  /\ \A a, b \in DOMAIN NameRank : NameRank[a] = NameRank[b] => a = b
  /\ ToolchainGroups \subseteq Groups
  /\ HybridGroups \subseteq Groups

\* probeProtocols: versions[], highest first.
Versions == <<"TLS1.3", "TLS1.2", "TLS1.1", "TLS1.0">>
VersionNames == {Versions[k] : k \in DOMAIN Versions}

NoGroup == "none"

Server ==
  [ silent : BOOLEAN,    \* it accepts connections and never answers
    versions : SUBSET VersionNames, suites : SUBSET Suites,
    suites13 : SUBSET Suites13, groups : SUBSET Groups ]

Config == [sni : {"unset", "target", "other"}, checkVulns : BOOLEAN, checkQuantum : BOOLEAN]

ASSUME ProbeInputsAssumption ==
  Servers \subseteq Server /\ Configs \subseteq Config /\ NoGroup \notin Groups

-----------------------------------------------------------------------------
(***************************************************************************)
(* The probes and what each one offers.  A probe is a goroutine:           *)
(* <<family, argument>>.                                                   *)
(***************************************************************************)
Connection == <<"connection", "">>
Families == {"version", "connection", "group", "suite"}

Probes ==
  ({"version"} \X VersionNames) \cup {Connection}
    \cup ({"group"} \X ToolchainGroups) \cup ({"suite"} \X Suites)

FamilyOf(f) == {p \in Probes : p[1] = f}

\* Mutant: the suite probes leave TLS 1.3 on offer, and it wins.
OfferUncapped(p) ==
  [ versions |-> CASE p[1] = "version" -> {p[2]}
                   [] p[1] = "suite"   -> VersionNames
                   [] OTHER            -> {"TLS1.3", "TLS1.2"},
    suites   |-> IF p[1] = "suite" THEN {p[2]} ELSE DefaultSuites,
    groups   |-> IF p[1] = "group" THEN {p[2]} ELSE ToolchainGroups ]

\* The tls.Config of each probe.  Go's own defaults apply where a probe leaves
\* a field unset: TLS 1.2 as the minimum, DefaultSuites, every group.
Offer(p) ==
  [ versions |-> CASE p[1] = "version" -> {p[2]}
                   [] p[1] = "suite"   -> VersionNames \ {"TLS1.3"}
                   [] OTHER            -> {"TLS1.3", "TLS1.2"},
    suites   |-> IF p[1] = "suite" THEN {p[2]} ELSE DefaultSuites,
    groups   |-> IF p[1] = "group" THEN {p[2]} ELSE ToolchainGroups ]

\* crypto/tls and the peer: the handshakes an offer can end in.  The highest
\* common version is chosen first; the rest must then agree at that version.
Handshakes(offer, server) ==
  LET common == {k \in DOMAIN Versions : Versions[k] \in offer.versions \cap server.versions}
      version == Versions[CHOOSE k \in common : \A m \in common : k <= m]
      groups == offer.groups \cap server.groups
  IN  IF server.silent \/ common = {} THEN {}
      ELSE IF version = "TLS1.3"
        THEN [version : {version}, suite : server.suites13, group : groups]
        ELSE {h \in [ version : {version}, suite : offer.suites \cap server.suites,
                      group : (groups \ HybridGroups) \cup {NoGroup} ] :
                /\ h.suite \in AeadSuites => version = "TLS1.2"
                /\ h.suite \in EcdheSuites <=> h.group # NoGroup}

\* Whether the probe counts the handshake it got: the group or the suite must
\* be the one it offered.
Confirmed(p, h) ==
  /\ p[1] = "group" => h.group = p[2]
  /\ p[1] = "suite" => h.suite = p[2]

-----------------------------------------------------------------------------
(***************************************************************************)
(* A handshake, and the result of a scan.                                  *)
(***************************************************************************)
Handshake == [version : VersionNames, suite : Suites \cup Suites13, group : Groups \cup {NoGroup}]

SuiteEntry  == [id : Suites \cup Suites13, negotiated : BOOLEAN]
GroupEntry  == [name : Groups, negotiated : BOOLEAN]
ProtocolEntry == [version : VersionNames, supported : BOOLEAN, preferred : BOOLEAN]

Warning == {"groupsSkipped", "protocolRange", "suiteEnumeration", "clientPreference",
            "trustStore", "revocation", "otherName", "noVulnerabilityPenalties",
            "noQuantumDimension"}

Returned ==
  [ protocols : Seq(ProtocolEntry), suites : Seq(SuiteEntry), groups : Seq(GroupEntry),
    certificate : BOOLEAN, warnings : SUBSET Warning ]
NoResult == [protocols |-> << >>, suites |-> << >>, groups |-> << >>,
             certificate |-> FALSE, warnings |-> {}]
=============================================================================
