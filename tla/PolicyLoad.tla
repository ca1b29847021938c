----------------------------- MODULE PolicyLoad -----------------------------
(***************************************************************************)
(* LoadPolicy: from a policy file to the rules that module PolicyGate      *)
(* judges by.  The first document of the file is decoded; the decoder is   *)
(* then asked for every document left, because one that carries anything   *)
(* is a reason to refuse; a file that extends a built-in policy is decoded *)
(* a second time, onto a copy of it; and the outcome is validated.  The    *)
(* scan and the gate only run on a policy that came out of this.           *)
(*                                                                         *)
(* A document is what the decoder makes of it: the keys it writes, each    *)
(* with the value the rule's field receives and how that was spelled where *)
(* an untyped reader would see something else.                             *)
(***************************************************************************)
EXTENDS PolicyGate

CONSTANTS
  Files,         \* the policy files to load
  Blank,         \* a string of spaces or control characters
  Punctuation,   \* a string without a letter or a digit
  Misspelt       \* a version name such as TLSv1.2

\* The fields by the kind of value they hold; minVersion and maxVersion are
\* single names.
Switches == {"requireForwardSecrecy", "requireCt", "allowSelfSigned", "requireHybrid", "requirePqcCertificates"}
Sizes == {"minKeySize", "minValidityDays", "maxValidityDays", "minRsaKeySize", "minEccKeySize", "minQuantumScore"}
Lists == {"requiredVersions", "bannedVersions", "requiredKeyExchange", "bannedAlgorithms",
          "allowedCipherSuites", "bannedCipherSuites", "requiredSignatures", "bannedSignatures",
          "requiredKeyExchangeAlgorithms"}
RuleKeys == DOMAIN NoRules

Written(value) == [node |-> "plain", value |-> value]
Spelled(node, value) == [node |-> node, value |-> value]   \* no, 0.4, 0x0
NullNode == [node |-> "null"]

\* The name is Unset in a document that does not write one.
Document(name, extends, rules) ==
  [kind |-> "policy", name |-> name, extends |-> extends, rules |-> rules]
EmptyDocument == [kind |-> "null", name |-> Unset, extends |-> Unset, rules |-> << >>]
Malformed == [kind |-> "malformed"]
UnknownKey == [kind |-> "unknownKey"]

WrittenKeys(doc) == {k \in DOMAIN doc.rules : doc.rules[k].node # "null"}

ASSUME PolicyLoadAssumption ==
  \A f \in Files :
    /\ f.readable \in BOOLEAN
    /\ Len(f.documents) \in Nat /\ DOMAIN f.documents = 1..Len(f.documents)
    /\ \A k \in DOMAIN f.documents :
         LET doc == f.documents[k]
         IN  /\ doc.kind \in {"policy", "null", "malformed", "unknownKey"}
             /\ doc.kind = "null" => doc = EmptyDocument
             /\ doc.kind = "policy" =>
                  /\ DOMAIN doc.rules \subseteq RuleKeys \cup {"cnsa2TargetYear"}
                  /\ \A key \in WrittenKeys(doc) :
                       /\ key \in Sizes => doc.rules[key].value \in Int
                       /\ key \in Switches => doc.rules[key].value \in BOOLEAN

-----------------------------------------------------------------------------
\* yaml.v3 decoding onto a value that is already there: a null empties a slice
\* and leaves every other field alone, and a sequence replaces the slice.
Received(doc, key, before) ==
  IF key \notin DOMAIN doc.rules THEN before
  ELSE IF doc.rules[key].node # "null" THEN doc.rules[key].value
  ELSE IF key \in Lists THEN {} ELSE before

\* Mutant: the merge copies the fields someone remembered.
DecodeHandPicked(doc, onto) ==
  [ name |-> IF doc.name = Unset THEN onto.name ELSE doc.name,
    rules |-> [k \in RuleKeys |->
                 IF k \in {"minKeySize", "minVersion"} \/ onto.name = Unset
                   THEN Received(doc, k, onto.rules[k]) ELSE onto.rules[k]] ]

Decode(doc, onto) ==
  [ name |-> IF doc.name = Unset THEN onto.name ELSE doc.name,
    rules |-> [k \in RuleKeys |-> Received(doc, k, onto.rules[k])] ]

\* fieldConstrains, on the value the evaluator will read.
Constrains(key, value) ==
  IF key = "allowSelfSigned" THEN ~value
  ELSE IF key \in Switches THEN value
  ELSE IF key \in Sizes THEN value > 0
  ELSE IF key \in Lists THEN \E item \in value : item # Blank
  ELSE value \notin {Unset, Blank}

\* Rules that report a warning and a label that reports nothing.
WarningOnly == {"minValidityDays", "requirePqcCertificates"}
Enforceable == RuleKeys \ WarningOnly

\* Mutant: a key that is written counts, whatever value it decodes to.
DeclaredByPresence(keys, rules) == keys \cap Enforceable # {}

\* declaresARule: the document says which keys are written, the decoded rules
\* what they are worth.
DeclaresARule(keys, rules) == \E k \in keys \cap Enforceable : Constrains(k, rules[k])

\* validateProtocolVersionValues: the two SSL versions are names like the others.
UnknownVersion(rules) ==
  (({rules.minVersion, rules.maxVersion} \ {Unset}) \cup rules.bannedVersions \cup rules.requiredVersions)
    \ Nameable # {}

\* validateAlgorithmValues: nothing is left once the name is normalised.
NamesNothing(rules) ==
  \E key \in Lists \ {"bannedVersions", "requiredVersions"} : {Blank, Punctuation} \cap rules[key] # {}

-----------------------------------------------------------------------------
VARIABLES
  file,
  loading,       \* "read", "decode", "count", "decoded", "validate", "loaded" or "refused"
  overlaying,    \* the second decode, onto the built-in policy
  position,      \* the document the decoder stands before
  extra,         \* a document after the first carries something
  decoded,       \* the policy decoded so far: its name and its rules
  standalone     \* the rules that the document decodes to on its own

loadVars == <<file, loading, overlaying, position, extra, decoded, standalone>>

First == file.documents[1]
Refuse == loading' = "refused" /\ UNCHANGED <<file, overlaying, position, extra, decoded, standalone>>

LoadInit ==
  /\ Init
  /\ policy = NoRules /\ policyResult = NotEvaluated /\ verdict = "unjudged"
  /\ file \in Files
  /\ loading = "read" /\ overlaying = FALSE /\ position = 1 /\ extra = FALSE
  /\ decoded = [name |-> Unset, rules |-> NoRules]
  /\ standalone = NoRules

ReadFile ==
  /\ loading = "read"
  /\ IF ~file.readable THEN Refuse
     ELSE loading' = "decode" /\ UNCHANGED <<file, overlaying, position, extra, decoded, standalone>>
  /\ UNCHANGED policy

\* decodePolicy up to its first document.
DecodeFirst ==
  /\ loading = "decode"
  /\ IF file.documents = << >> THEN Refuse
     ELSE IF First.kind \in {"malformed", "unknownKey"} THEN Refuse
     ELSE /\ decoded' = Decode(First, decoded)
          /\ position' = 2 /\ extra' = FALSE
          /\ loading' = "count"
          /\ UNCHANGED <<file, overlaying, standalone>>
  /\ UNCHANGED policy

Carries(document) == document.kind # "null"

\* Mutant: a document that does not parse is counted, and asked for again.
CountAndRetry ==
  /\ loading = "count" /\ position <= Len(file.documents)
  /\ extra' = (extra \/ Carries(file.documents[position]))
  /\ position' = IF file.documents[position].kind = "malformed" THEN position ELSE position + 1
  /\ UNCHANGED <<policy, file, loading, overlaying, decoded, standalone>>

\* One turn of countRemainingDocuments.  The decoder does not advance past a
\* syntax error, so such a document ends the count.
CountDocument ==
  /\ loading = "count" /\ position <= Len(file.documents)
  /\ IF file.documents[position].kind = "malformed" THEN Refuse
     ELSE /\ extra' = (extra \/ Carries(file.documents[position]))
          /\ position' = position + 1
          /\ UNCHANGED <<file, loading, overlaying, decoded, standalone>>
  /\ UNCHANGED policy

CountEnds ==
  /\ loading = "count" /\ position > Len(file.documents)
  /\ IF extra THEN Refuse
     ELSE loading' = "decoded" /\ UNCHANGED <<file, overlaying, position, extra, decoded, standalone>>
  /\ UNCHANGED policy

\* The document alone was decoded; look up what it extends.
Extend ==
  /\ loading = "decoded" /\ ~overlaying
  /\ \/ /\ First.extends = Unset
        /\ loading' = "validate" /\ standalone' = decoded.rules
        /\ UNCHANGED <<overlaying, decoded>>
     \/ /\ First.extends \in DOMAIN DefaultPolicies
        /\ loading' = "decode" /\ overlaying' = TRUE
        /\ decoded' = [name |-> First.extends, rules |-> DefaultPolicies[First.extends]]
        /\ standalone' = decoded.rules
     \/ /\ First.extends \notin DOMAIN DefaultPolicies \cup {Unset}
        /\ loading' = "refused"
        /\ UNCHANGED <<overlaying, decoded, standalone>>
  /\ UNCHANGED <<policy, file, position, extra>>

Overlaid ==
  /\ loading = "decoded" /\ overlaying
  /\ loading' = "validate"
  /\ UNCHANGED <<policy, file, overlaying, position, extra, decoded, standalone>>

\* validatePolicy
ValidatePolicy ==
  /\ loading = "validate"
  /\ IF \/ decoded.name \in {Unset, Blank}
        \/ /\ ~DeclaresARule(WrittenKeys(First), standalone)
           /\ ~(overlaying /\ DeclaresARule(RuleKeys, decoded.rules))
        \/ UnknownVersion(decoded.rules)
        \/ NamesNothing(decoded.rules)
       THEN Refuse /\ UNCHANGED policy
       ELSE /\ loading' = "loaded" /\ policy' = decoded.rules
            /\ UNCHANGED <<file, overlaying, position, extra, decoded, standalone>>

LoadStep ==
  /\ ReadFile \/ DecodeFirst \/ CountDocument \/ CountEnds \/ Extend \/ Overlaid \/ ValidatePolicy
  /\ UNCHANGED <<vars, policyResult, verdict>>

LoadNext ==
  \/ LoadStep
  \/ loading = "loaded" /\ GateNext /\ UNCHANGED loadVars
  \/ loading = "refused" /\ UNCHANGED <<gateVars, loadVars>>

\* One goroutine, which blocks on nothing but the file.
LoadSpec == LoadInit /\ [][LoadNext]_<<gateVars, loadVars>> /\ WF_<<gateVars, loadVars>>(LoadStep)

-----------------------------------------------------------------------------
(***************************************************************************)
(* Properties.                                                             *)
(***************************************************************************)
Loaded == loading = "loaded"

\* What the file, with what it inherits, says of a key; a key written as null is
\* neither omitted nor given a value.
Base == IF First.extends = Unset THEN NoRules ELSE DefaultPolicies[First.extends]
Stated(key) == key \in DOMAIN First.rules => key \in WrittenKeys(First)
Meant(key) == IF key \in DOMAIN First.rules THEN First.rules[key].value ELSE Base[key]

\* A policy with no rule, and with this rule and no other.
NothingAsked == [NoRules EXCEPT !.allowSelfSigned = TRUE]
Alone(key, value) == [NothingAsked EXCEPT ![key] = value]
Satisfied(key, value) == VerdictOf(Evaluate(Alone(key, value), measured, quantum)) = "compliant"

\* The verdict is about the rules the author wrote: a host passes a loaded file
\* exactly if it passes, one by one, every rule the file writes in any of its
\* documents and every rule of the built-in it extends that it does not mention
\* (policy.go:64-72, "every key the file sets wins and every key it omits is
\* inherited"; policies.md:346).
EveryWrittenRuleDecides ==
  verdict # "unjudged" =>
    /\ Passed =>
         /\ \A d \in DOMAIN file.documents : \A key \in RuleKeys \cap WrittenKeys(file.documents[d]) :
              Satisfied(key, file.documents[d].rules[key].value)
         /\ \A key \in RuleKeys : Stated(key) => Satisfied(key, Meant(key))
    /\ (\A key \in RuleKeys : Satisfied(key, IF Stated(key) THEN Meant(key) ELSE policy[key])) => Passed

\* What a scan returns of a server when no probe of it fails: scanner.go:523-545
\* enumerates the suites below TLS 1.3, scanner.go:609-666 adds the suite, the
\* group and the certificate of one connection made with the defaults of Go,
\* which are the ephemeral AEAD suites and TLS 1.2 at the least.
Aead == {"AES128", "AES256", "CHACHA20"}
RunBy(version) ==
  IF version = "TLS1.3" THEN [kx : {"any"}, cipher : Aead]
  ELSE [kx : {"ECDHE", "RSA"}, cipher : {"3DES", "RC4"}]
         \cup (IF version = "TLS1.2"
                THEN [kx : {"ECDHE"}, cipher : Aead] \cup [kx : {"RSA"}, cipher : {"AES128", "AES256"}]
                ELSE {})
NamedSuites == UNION {RunBy(v) : v \in VersionNames}

Enumerated(versions, suites) ==
  /\ suites \subseteq UNION {RunBy(v) : v \in versions}
  /\ \A v \in versions : RunBy(v) \cap suites # {}
  /\ \A s, t \in suites \cap RunBy("TLS1.3") : s = t
  /\ \E s \in suites : ForwardSecrecy(s) /\ s.cipher \in Aead

\* Of a certificate that verifies, x509 has checked the signature, which rules out
\* the broken digests, unless it is itself the trusted root.
Issued(c) ==
  /\ c.key = "RSA" => c.bits \in 1024..8192
  /\ c.key = "ECDSA" => c.bits \in {224, 256, 384, 521}
  /\ c.key = "Ed25519" => c.bits = 256
  /\ c.notYetValid \/ c.hours < 24 * (c.lifetime + 1)
  /\ c.chain = "passed" =>
       ~Expired(c) /\ ~c.notYetValid /\ (c.sig \in {"SHA1", "MD5"} => c.selfSigned)

Scannable(m) ==
  /\ Enumerated(m.versions, m.suites)
  /\ m.groups # {} /\ (HasHybrid(m) => "TLS1.3" \in m.versions)
  /\ m.cert # NoCertificate /\ Issued(m.cert)
  /\ (\E s \in m.suites : ~ForwardSecrecy(s)) => m.cert.key = "RSA"

\* A policy that loads can fail (pkg/types/policy.go:37-41): it declares a rule,
\* and each rule it declares, by writing it or inheriting it, refuses some server
\* as a scan can return it and as a policy without rules passes it.  A bound that
\* nothing undercuts, a ban on what nothing uses and a list that leaves nothing
\* out are the author's choice (policy_scalar_forms_test.go:180-184, "an inert
\* floor"), and so is a floor at an SSL version, below every version a scan
\* offers, which alone makes a policy that every such server passes
\* (policies.md:121-123, "A minVersion is not").
SignatureNames == {"SHA256", "SHA384", "SHA1", "MD5", "Ed25519"}
OffersOneOf(value) == \A g \in Group : NamesOf({g}) \cap value # {}

Inert(key, value) ==
  \/ key = "minVersion" /\ value \in {"TLS1.0"} \cup Unprobeable
  \/ key = "maxVersion" /\ value = "TLS1.3"
  \/ key = "minKeySize" /\ \A s \in NamedSuites : Bits(s) >= value
  \/ key = "bannedAlgorithms" /\ \A s \in NamedSuites : value \cap Contains(s) = {}
  \/ key = "bannedCipherSuites" /\ value \cap NamedSuites = {}
  \/ key = "allowedCipherSuites" /\ NamedSuites \subseteq value
  \/ key \in {"requiredKeyExchange", "requiredKeyExchangeAlgorithms"} /\ OffersOneOf(value)
  \/ key = "minRsaKeySize" /\ value <= 1024
  \/ key = "minEccKeySize" /\ value <= 224
  \/ key = "bannedSignatures" /\ value \cap SignatureNames = {}
  \/ key = "requiredSignatures" /\ SignatureNames \subseteq value

Declares(key) ==
  /\ key \in Enforceable /\ Constrains(key, policy[key])
  /\ key \in WrittenKeys(First) \/ overlaying

PassesFully(p, m) == Judgement(p, m, [checkVulns |-> TRUE, checkQuantum |-> TRUE]) = "compliant"

Refuses(key, m) ==
  /\ PassesFully(NothingAsked, m)
  /\ ~PassesFully(Alone(key, policy[key]), m) /\ ~PassesFully(policy, m)

LoadedPolicyCanFail ==
  Loaded =>
    /\ \E key \in RuleKeys : Declares(key)
    /\ \A key \in RuleKeys :
         Declares(key) =>
           Inert(key, policy[key]) \/ \E m \in Measurements : Scannable(m) /\ Refuses(key, m)

\* Loading ends, with a policy or with an error, whatever the file holds
\* (policy.go:455-462, "hung the process at 100% CPU before any network work").
LoadReturns == <>(loading \in {"loaded", "refused"})
=============================================================================
