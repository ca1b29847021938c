---------------------------- MODULE MCPolicyLoad ----------------------------
(***************************************************************************)
(* Policy files for TLC, and a few hosts to judge by them.                 *)
(***************************************************************************)
EXTENDS PolicyLoad, MCHosts

\* A rules section with one key, and with two.
Only(key, node) == [k \in {key} |-> node]
Both(k1, n1, k2, n2) == [k \in {k1, k2} |-> IF k = k1 THEN n1 ELSE n2]
Mine(extends, rules) == Document("mine", extends, rules)

\* One value for each rule that can fail some host below.
Enforcing ==
  [ minVersion |-> "TLS1.3", maxVersion |-> "TLS1.2", requiredVersions |-> {"TLS1.2"},
    bannedVersions |-> {"TLS1.2", "SSL2.0"}, minKeySize |-> 256, requireForwardSecrecy |-> TRUE,
    requiredKeyExchange |-> {"SecP384r1MLKEM1024", "ML-KEM-768"}, bannedAlgorithms |-> {"3DES"},
    allowedCipherSuites |-> {A256}, bannedCipherSuites |-> {E256},
    maxValidityDays |-> 47, minRsaKeySize |-> 4096, minEccKeySize |-> 384,
    requiredSignatures |-> {"SHA384"}, bannedSignatures |-> {"SHA256"}, requireCt |-> TRUE,
    allowSelfSigned |-> FALSE, requireHybrid |-> TRUE, minQuantumScore |-> 50,
    requiredKeyExchangeAlgorithms |-> {"ML-KEM-768"} ]

\* Written, but worth nothing.
Idle ==
  { Only("minValidityDays", Written(3650)), Only("requirePqcCertificates", Written(TRUE)),
    Only("cnsa2TargetYear", Written(2035)), Only("minKeySize", Written(0)),
    Only("minKeySize", Spelled("0.4", 0)), Only("requireForwardSecrecy", Spelled("no", FALSE)),
    Only("bannedVersions", Written({})), Only("bannedVersions", Written({Blank})),
    Only("minVersion", Written(Unset)), Only("minVersion", NullNode),
    Only("allowSelfSigned", Written(TRUE)),
    Both("cnsa2TargetYear", Written(2035), "requireHybrid", Written(FALSE)) }

\* Not a name the evaluator knows.
Unknown ==
  { Only("minVersion", Written(Misspelt)), Only("maxVersion", Written(Misspelt)),
    Only("bannedVersions", Written({Misspelt, "TLS1.0"})), Only("requiredVersions", Written({Misspelt})),
    Both("minVersion", Written(Blank), "minKeySize", Written(256)),
    Only("bannedAlgorithms", Written({Punctuation})),
    Only("requiredKeyExchange", Written({Blank, "X25519MLKEM768"})) }

\* Every rule of a built-in written away, one of them left in place or not.
Disarmed(base, kept) ==
  [ k \in ({x \in RuleKeys : DefaultPolicies[base][x] # NoRules[x]} \cup {"allowSelfSigned"}) \ kept |->
      IF k = "allowSelfSigned" THEN Written(TRUE)
      ELSE IF k = "requireForwardSecrecy" THEN Spelled("no", FALSE) ELSE Written(NoRules[k]) ]

Overlays ==
  { Only("minKeySize", Written(256)), Only("minRsaKeySize", Written(4096)),
    Only("requireHybrid", Written(TRUE)), Only("bannedVersions", NullNode),
    Only("bannedVersions", Written({"TLS1.2"})), Only("bannedVersions", Written({})),
    Only("minKeySize", NullNode), Only("allowSelfSigned", Written(TRUE)),
    Both("minVersion", Written("TLS1.2"), "requiredVersions", Written({})), << >> }

Documents ==
  { Mine(Unset, Only(k, Written(Enforcing[k]))) : k \in DOMAIN Enforcing }
    \cup { Mine(Unset, rules) : rules \in Idle \cup Unknown }
    \cup { Mine(base, Only(key, Written(v))) : base \in {Unset, "modern"},
             key \in {"minVersion", "maxVersion"}, v \in Unprobeable }
    \cup { Mine(Unset, Only("minVersion", Written("TLS1.0"))), Mine(Unset, << >>),
           Mine("modren", Only("minKeySize", Written(256))),
           Document(Unset, Unset, Only("minKeySize", Written(256))),
           Document(Unset, "modern", Only("bannedVersions", Written({}))),
           Document(Blank, "modern", << >>), Document(Blank, Unset, Only("minKeySize", Written(256))) }
    \cup { Mine(base, rules) : base \in {"modern", "strict", "cnsa2030"}, rules \in Overlays \cup Unknown }
    \cup { Mine(base, Disarmed(base, kept)) : base \in {"modern", "strict", "cnsa2035"},
                                              kept \in {{}, {"minVersion"}, {"allowSelfSigned"}} }

File(documents) == [readable |-> TRUE, documents |-> documents]

\* Documents around a harmless one, before and after it.
Lenient == Mine(Unset, Only("minKeySize", Written(128)))
Stricter == Mine(Unset, Only("minVersion", Written("TLS1.3")))
Inheriting == Mine("modern", << >>)
Relaxing == Mine("strict", Only("minKeySize", Written(128)))

MCFiles ==
  { File(<<d>>) : d \in Documents }
    \cup { File(<<first>> \o rest) :
             first \in {Lenient, Inheriting, Relaxing, EmptyDocument},
             rest \in { <<EmptyDocument>>, <<Stricter>>, <<EmptyDocument, Stricter>>, <<Malformed>>,
                        <<EmptyDocument, Malformed>>, <<UnknownKey>> } }
    \cup { File(<< >>), File(<<EmptyDocument>>), File(<<Malformed>>), File(<<UnknownKey, Lenient>>),
           [readable |-> FALSE, documents |-> << >>] }

MCMeasurements ==
  { On(s, g, Fine(c[1], c[2])) :
      s \in { <<{"TLS1.3"}, {A256}>>, <<{"TLS1.3"}, {A128}>>,
              <<{"TLS1.3", "TLS1.2"}, {A256, E256, R256}>>,
              <<{"TLS1.3", "TLS1.2", "TLS1.0"}, {A256, E256, R3}>>, <<{"TLS1.2"}, {E256}>> },
      g \in {{"X25519"}, {"X25519MLKEM768", "X25519"}},
      c \in { <<<<"RSA", 2048>>, "SHA256">>, <<<<"ECDSA", 256>>, "SHA256">>,
              <<<<"ECDSA", 384>>, "SHA256">>, <<<<"ECDSA", 384>>, "SHA384">> } }
    \cup { On(<<{"TLS1.3"}, {A256}>>, {"X25519MLKEM768", "X25519"}, c) :
             c \in {Cert(<<2000, FALSE>>, "passed", "passed", TRUE, FALSE, <<"ECDSA", 384>>, "SHA384"),
                    Cert(<<2000, FALSE>>, "failed", "passed", FALSE, FALSE, <<"ECDSA", 384>>, "SHA384"),
                    Fine(<<"RSA", 1024>>, "SHA256"), Fine(<<"ECDSA", 224>>, "SHA256"),
                    Cert(<<2000, FALSE>>, "passed", "passed", TRUE, FALSE, <<"ECDSA", 384>>, "SHA1")} }
    \cup { On(<<{"TLS1.3"}, {}>>, {}, NoCertificate) }

MCConfigs == {[checkVulns |-> TRUE, checkQuantum |-> q] : q \in BOOLEAN}
MCFull == {[checkVulns |-> TRUE, checkQuantum |-> TRUE]}
=============================================================================
