---------------------------- MODULE MCPolicyGate ----------------------------
(***************************************************************************)
(* Instances of the whole assessment of one target for TLC, from the       *)
(* ordinary connection to the exit verdict: ChainVerdict, Assessment,      *)
(* CNSA2, PolicyGate and Reports composed.                                 *)
(***************************************************************************)
EXTENDS Reports, MCHosts

MCMaxClock == 1
Day == 24
Life == 90 * Day

\* A certificate other than the leaf.
Sent(from, to, onPath) == [from |-> from, to |-> to, onPath |-> onPath]
OK == Sent(-Life, Life, TRUE)
Stale == Sent(-Life, -11, TRUE)
Spare == Sent(-Life, -11, FALSE)
Ending == Sent(-Life, 0, TRUE)

Linked(w, sent, store, anchored, platform, requested) ==
  [ chain |-> <<Sent(w[1], w[2], TRUE)>> \o sent \o <<store>>,
    anchored |-> anchored, platform |-> platform, requested |-> requested ]

\* The leaf: good for long, for less than thirty days, expired, expiring or
\* starting during the verification, not valid yet, and never valid.
Long == <<2000 - Life, 2000>>
LeafWindows ==
  { Long, <<719 - Life, 719>>, <<-11 - Life, -11>>, <<-Life, 0>>, <<1, 1 + Life>>,
    <<48, 48 + Life>>, <<48, -48>> }

GoodLink == Linked(Long, <<OK>>, OK, TRUE, FALSE, "covered")

\* Every window of the leaf with every trouble above it, for both verifiers.
TroubledLinks ==
  { Linked(w, sent, store, TRUE, platform, "covered") :
      w \in LeafWindows, platform \in BOOLEAN, store \in {OK, Stale},
      sent \in {<<OK>>, <<Stale>>, <<Ending>>, <<Spare>>, <<Spare, Stale>>} }

\* No trusted root, or a name that is not covered.
Untrusted == { Linked(w, <<OK>>, OK, FALSE, platform, "covered") : w \in LeafWindows, platform \in BOOLEAN }
Misnamed == { Linked(w, << >>, OK, anchored, FALSE, "other") : w \in LeafWindows, anchored \in BOOLEAN }

\* The server's certificate as presented: its dates and the results of the checks
\* are those of the connection.
Presented(self, ca, sig) == Cert(<<0, FALSE>>, "notPerformed", "notPerformed", self, ca, <<"RSA", 4096>>, sig)
Modern(c) == On(<<{"TLS1.3"}, {A256}>>, {"X25519MLKEM768", "X25519"}, c)
Pair(s, c) == [server |-> s, connection |-> c]

\* Every server with two certificates; every key and digest on two servers; no
\* certificate; every connection, with certificates that name themselves as
\* issuer; a SHA-1 signature, which no verifier accepts.
Keyed ==
  { On(s, g, Fine(k, sig)) :
      s \in {<<{"TLS1.3"}, {A256}>>, <<{"TLS1.3", "TLS1.2"}, {A256, E256}>>},
      g \in Groups, k \in MCKeys, sig \in {"SHA256", "SHA384"} }
Varied ==
  { On(s, g, c) : s \in MCServers, g \in Groups,
                  c \in {Fine(<<"RSA", 4096>>, "SHA384"), Fine(<<"ECDSA", 256>>, "SHA256")} }
Bare == { On(s, {}, NoCertificate) : s \in MCUnconnected \cup {<<{}, {}>>} }

MCProbed ==
  { Pair(s, GoodLink) : s \in Keyed \cup Varied \cup Bare }
    \cup { Pair(Modern(Presented(FALSE, FALSE, "SHA384")), l) : l \in TroubledLinks }
    \cup { Pair(Modern(Presented(self[1], self[2], "SHA384")), l) :
             self \in {<<FALSE, FALSE>>, <<TRUE, FALSE>>, <<TRUE, TRUE>>}, l \in Untrusted \cup Misnamed }
    \cup { Pair(Modern(Presented(self, FALSE, "SHA1")), l) : self \in BOOLEAN, l \in Untrusted }
    \cup { Pair(Modern(Presented(TRUE, FALSE, "SHA1")), GoodLink) }

MCMeasurements == {p.server : p \in MCProbed}

\* A scan that skips both checks adds nothing to those that skip one.
MCConfigs == {c \in Config : c.checkVulns \/ c.checkQuantum}

\* Every rule that no built-in policy uses, alone or next to one that does.
MCCustom ==
  { [NoRules EXCEPT !.minQuantumScore = 50],
    [NoRules EXCEPT !.maxVersion = "TLS1.2", !.allowSelfSigned = TRUE],
    [NoRules EXCEPT !.bannedVersions = {"SSL3.0", "TLS1.0"}, !.requiredVersions = {"SSL2.0"},
                    !.requireCt = TRUE],
    [NoRules EXCEPT !.allowedCipherSuites = {A256, E256}, !.bannedCipherSuites = {R256},
                    !.maxValidityDays = 30, !.minValidityDays = 30, !.allowSelfSigned = TRUE,
                    !.requirePqcCertificates = TRUE] }

MCPolicies == BuiltIn \cup MCCustom
MC2030 == {DefaultPolicies.cnsa2030}
MCModern == {DefaultPolicies.modern}
=============================================================================
