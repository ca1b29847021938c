-------------------------- MODULE AssessmentProofs --------------------------
(***************************************************************************)
(* Proofs about Assessment, for every measured result and all flags.       *)
(*                                                                         *)
(* AsJudged of AssessmentInvariant is inductive.  It reduces the           *)
(* properties to statements about the judgements as functions, which rest  *)
(* on what the penalty and the score do when a finding is added or a       *)
(* dimension earns less.                                                   *)
(***************************************************************************)
EXTENDS AssessmentInvariant, FiniteSetTheorems, SequenceTheorems, WellFoundedInduction, TLAPS

-----------------------------------------------------------------------------
(***************************************************************************)
(* The penalty.                                                            *)
(***************************************************************************)
LEMMA CountIsNat ==
  ASSUME NEW found, IsFiniteSet(found), NEW severity
  PROVE  CountOf(found, severity) \in Nat
<1>1. IsFiniteSet({v \in found : v.severity = severity})
  BY FS_Subset
<1> QED
  BY <1>1, FS_CardinalityType DEF CountOf

LEMMA CountGrows ==
  ASSUME NEW more, IsFiniteSet(more), NEW found \in SUBSET more, NEW severity
  PROVE  CountOf(found, severity) <= CountOf(more, severity)
<1> DEFINE few == {v \in found : v.severity = severity}
           many == {v \in more : v.severity = severity}
<1>1. IsFiniteSet(many)
  BY FS_Subset
<1>2. few \in SUBSET many
  OBVIOUS
<1>3. Cardinality(few) <= Cardinality(many)
  BY <1>1, <1>2, FS_Subset
<1> QED
  BY <1>3 DEF CountOf

LEMMA CountAdds ==
  ASSUME NEW A, NEW B, IsFiniteSet(A), IsFiniteSet(B), A \cap B = {}, NEW severity
  PROVE  CountOf(A \cup B, severity) = CountOf(A, severity) + CountOf(B, severity)
<1> DEFINE In(S) == {v \in S : v.severity = severity}
<1>1. IsFiniteSet(In(A)) /\ IsFiniteSet(In(B))
  BY FS_Subset
<1>2. In(A \cup B) = In(A) \cup In(B) /\ In(A) \cap In(B) = {}
  OBVIOUS
<1>3. Cardinality(In(A)) \in Nat /\ Cardinality(In(B)) \in Nat
  BY <1>1, FS_CardinalityType
<1>4. Cardinality(In(A) \cup In(B)) = Cardinality(In(A)) + Cardinality(In(B)) - Cardinality(In(A) \cap In(B))
  BY <1>1, FS_Union
<1>5. Cardinality(In(A) \cap In(B)) = 0
  BY <1>2, FS_EmptySet
<1>6. Cardinality(In(A) \cup In(B)) = Cardinality(In(A)) + Cardinality(In(B))
  BY <1>3, <1>4, <1>5
<1> QED
  BY <1>2, <1>6 DEF CountOf

LEMMA CountOne ==
  ASSUME NEW v, NEW severity
  PROVE  CountOf({v}, severity) = IF v.severity = severity THEN 1 ELSE 0
<1>1. CASE v.severity = severity
  <2>1. {w \in {v} : w.severity = severity} = {v}
    BY <1>1
  <2> QED
    BY <1>1, <2>1, FS_Singleton DEF CountOf
<1>2. CASE v.severity # severity
  <2>1. {w \in {v} : w.severity = severity} = {}
    BY <1>2
  <2> QED
    BY <1>2, <2>1, FS_EmptySet DEF CountOf
<1> QED
  BY <1>1, <1>2

LEMMA PenaltyIsNat ==
  ASSUME NEW found, IsFiniteSet(found)
  PROVE  Penalty(found) \in Nat
<1>1. \A severity : CountOf(found, severity) \in Nat
  BY CountIsNat
<1> QED
  BY <1>1 DEF Penalty, PenaltyPoints

\* More findings never cost less.
LEMMA PenaltyGrows ==
  ASSUME NEW more, IsFiniteSet(more), NEW found \in SUBSET more
  PROVE  Penalty(found) <= Penalty(more)
<1>1. IsFiniteSet(found)
  BY FS_Subset
<1>2. \A severity : CountOf(found, severity) \in Nat /\ CountOf(more, severity) \in Nat
  BY <1>1, CountIsNat
<1>3. \A severity : CountOf(found, severity) <= CountOf(more, severity)
  BY CountGrows
<1> QED
  BY <1>2, <1>3 DEF Penalty, PenaltyPoints

\* Findings that differ are paid for one by one.
LEMMA PenaltyAdds ==
  ASSUME NEW A, NEW B, IsFiniteSet(A), IsFiniteSet(B), A \cap B = {}
  PROVE  Penalty(A \cup B) = Penalty(A) + Penalty(B)
<1>1. \A severity : CountOf(A, severity) \in Nat /\ CountOf(B, severity) \in Nat
  BY CountIsNat
<1>2. ASSUME NEW severity, NEW n \in Nat
      PROVE  CountOf(A \cup B, severity) * n = CountOf(A, severity) * n + CountOf(B, severity) * n
  <2>1. CountOf(A \cup B, severity) = CountOf(A, severity) + CountOf(B, severity)
    BY CountAdds
  <2>2. CountOf(A, severity) \in Nat /\ CountOf(B, severity) \in Nat
    BY <1>1
  <2> QED
    BY <2>1, <2>2
<1>3. \A found : Penalty(found) =
        CountOf(found, "CRITICAL") * 30 + CountOf(found, "HIGH") * 15 + CountOf(found, "MEDIUM") * 5
  BY DEF Penalty, PenaltyPoints
<1>4. /\ CountOf(A \cup B, "CRITICAL") * 30 = CountOf(A, "CRITICAL") * 30 + CountOf(B, "CRITICAL") * 30
      /\ CountOf(A \cup B, "HIGH") * 15 = CountOf(A, "HIGH") * 15 + CountOf(B, "HIGH") * 15
      /\ CountOf(A \cup B, "MEDIUM") * 5 = CountOf(A, "MEDIUM") * 5 + CountOf(B, "MEDIUM") * 5
  BY <1>2
<1>5. /\ CountOf(A, "CRITICAL") \in Nat /\ CountOf(A, "HIGH") \in Nat /\ CountOf(A, "MEDIUM") \in Nat
      /\ CountOf(B, "CRITICAL") \in Nat /\ CountOf(B, "HIGH") \in Nat /\ CountOf(B, "MEDIUM") \in Nat
  BY <1>1
<1> QED
  BY <1>3, <1>4, <1>5

LEMMA PenaltyNone == Penalty({}) = 0
<1>1. \A severity : {v \in {} : v.severity = severity} = {}
  OBVIOUS
<1>2. \A severity : CountOf({}, severity) = 0
  BY <1>1, FS_EmptySet DEF CountOf
<1> QED
  BY <1>2 DEF Penalty, PenaltyPoints

LEMMA PenaltyOne ==
  ASSUME NEW v, v.severity \in Severities
  PROVE  Penalty({v}) = PenaltyPoints[v.severity]
<1>1. \A severity : CountOf({v}, severity) = IF v.severity = severity THEN 1 ELSE 0
  BY CountOne
<1> QED
  BY <1>1 DEF Penalty, PenaltyPoints, Severities

LEMMA FoundIsFinite ==
  ASSUME NEW id, NEW subject, NEW severity, NEW condition
  PROVE  IsFiniteSet(Found(id, subject, severity, condition))
BY FS_EmptySet, FS_Singleton DEF Found

-----------------------------------------------------------------------------
(***************************************************************************)
(* The findings of a measured result are finitely many.                    *)
(***************************************************************************)
\* Every set of suites is finite.
LEMMA SuitesAreFinite ==
  ASSUME NEW suites \in SUBSET Suite
  PROVE  IsFiniteSet(suites)
<1> DEFINE kxs == {"any", "ECDHE", "RSA"}
           ciphers == {"AES128", "AES256", "CHACHA20", "3DES", "RC4"}
           f == [pair \in kxs \X ciphers |-> [kx |-> pair[1], cipher |-> pair[2]]]
<1>1. IsFiniteSet(kxs) /\ IsFiniteSet(ciphers)
  <2>1. IsFiniteSet({"any", "ECDHE"}) /\ IsFiniteSet({"AES128", "AES256", "CHACHA20"})
    <3>1. IsFiniteSet({"any"}) /\ IsFiniteSet({"AES128"})
      BY FS_Singleton
    <3>2. IsFiniteSet({"any"} \cup {"ECDHE"}) /\ IsFiniteSet({"AES128"} \cup {"AES256"})
      BY <3>1, FS_AddElement
    <3>3. IsFiniteSet(({"AES128"} \cup {"AES256"}) \cup {"CHACHA20"})
      BY <3>2, FS_AddElement
    <3>4. /\ {"any"} \cup {"ECDHE"} = {"any", "ECDHE"}
          /\ ({"AES128"} \cup {"AES256"}) \cup {"CHACHA20"} = {"AES128", "AES256", "CHACHA20"}
      OBVIOUS
    <3> QED
      BY <3>2, <3>3, <3>4
  <2>2. IsFiniteSet({"any", "ECDHE"} \cup {"RSA"})
    BY <2>1, FS_AddElement
  <2>3. IsFiniteSet({"AES128", "AES256", "CHACHA20"} \cup {"3DES"})
    BY <2>1, FS_AddElement
  <2>4. IsFiniteSet(({"AES128", "AES256", "CHACHA20"} \cup {"3DES"}) \cup {"RC4"})
    BY <2>3, FS_AddElement
  <2>5. /\ {"any", "ECDHE"} \cup {"RSA"} = kxs
        /\ ({"AES128", "AES256", "CHACHA20"} \cup {"3DES"}) \cup {"RC4"} = ciphers
    OBVIOUS
  <2> QED
    BY <2>2, <2>4, <2>5
<1>2. IsFiniteSet(kxs \X ciphers)
  BY <1>1, FS_Product
<1>3. f \in Surjection(kxs \X ciphers, Suite)
  <2>1. \A pair \in kxs \X ciphers : f[pair] \in Suite
    BY DEF Suite
  <2>2. ASSUME NEW s \in Suite
        PROVE  \E pair \in kxs \X ciphers : f[pair] = s
    <3>1. <<s.kx, s.cipher>> \in kxs \X ciphers
      BY DEF Suite
    <3>2. f[<<s.kx, s.cipher>>] = s
      BY <3>1 DEF Suite
    <3> QED
      BY <3>1, <3>2
  <2> QED
    BY <2>1, <2>2 DEF Surjection
<1>4. IsFiniteSet(Suite)
  BY <1>2, <1>3, FS_Surjection
<1> QED
  BY <1>4, FS_Subset

LEMMA CertificateFindingsAreFinite ==
  ASSUME NEW c
  PROVE  IsFiniteSet(CertificateFindings(c))
<1>1. IsFiniteSet(WindowFindings(c))
  BY FoundIsFinite, FS_Union DEF WindowFindings
<1>2. IsFiniteSet(ChainFindings(c))
  <2>1. CASE c.chain = "failed"
    BY <2>1, FoundIsFinite, FS_Union DEF ChainFindings
  <2>2. CASE c.chain # "failed"
    BY <2>2, FoundIsFinite, FS_Union DEF ChainFindings
  <2> QED
    BY <2>1, <2>2
<1>3. IsFiniteSet(WindowFindings(c) \cup ChainFindings(c))
  BY <1>1, <1>2, FS_Union
<1> QED
  <2> DEFINE names == Found("CERT_NAME_MISMATCH", << >>, "HIGH", c.name = "failed")
             sigs == Found("CERT_WEAK_SIG", << >>, "HIGH", c.sig \in {"SHA1", "MD5"})
             keys == Found("CERT_WEAK_KEY", << >>, "HIGH", c.key = "RSA" /\ c.bits < 2048)
  <2>1. IsFiniteSet(names)
    BY FoundIsFinite
  <2>2. IsFiniteSet(sigs)
    BY FoundIsFinite
  <2>3. IsFiniteSet(keys)
    BY FoundIsFinite
  <2>4. CertificateFindings(c) = (((WindowFindings(c) \cup ChainFindings(c)) \cup names) \cup sigs) \cup keys
    BY DEF CertificateFindings
  <2> HIDE DEF names, sigs, keys
  <2> QED
    BY <1>3, <2>1, <2>2, <2>3, <2>4, FS_Union

LEMMA VulnerabilitiesAreFinite ==
  ASSUME NEW m \in Measurement
  PROVE  IsFiniteSet(Vulnerabilities(m))
<1>1. IsFiniteSet(ProtocolFindings(m.versions))
  BY FoundIsFinite, FS_Union DEF ProtocolFindings
<1>2. IsFiniteSet(UNION {SuiteFindings(s) : s \in m.suites})
  <2> DEFINE parts == {SuiteFindings(s) : s \in m.suites}
             f == [s \in m.suites |-> SuiteFindings(s)]
  <2>1. IsFiniteSet(m.suites)
    BY SuitesAreFinite DEF Measurement
  <2>2. f \in Surjection(m.suites, parts)
    BY DEF Surjection
  <2>3. IsFiniteSet(parts)
    BY <2>1, <2>2, FS_Surjection
  <2>4. \A s : IsFiniteSet(SuiteFindings(s))
    BY FoundIsFinite, FS_Union DEF SuiteFindings
  <2> QED
    BY <2>3, <2>4, FS_UNION
<1>3. IsFiniteSet(IF m.cert = NoCertificate THEN {} ELSE CertificateFindings(m.cert))
  BY CertificateFindingsAreFinite, FS_EmptySet
<1>4. IsFiniteSet(ProtocolFindings(m.versions) \cup UNION {SuiteFindings(s) : s \in m.suites})
  BY <1>1, <1>2, FS_Union
<1> QED
  BY <1>3, <1>4, FS_Union DEF Vulnerabilities

-----------------------------------------------------------------------------
(***************************************************************************)
(* The score.                                                              *)
(***************************************************************************)
LEMMA ClampIsBounded ==
  ASSUME NEW high \in Nat, NEW x \in Int
  PROVE  Clamp(0, x, high) \in 0..high
BY DEF Clamp

LEMMA ClampIsMonotone ==
  ASSUME NEW high \in Nat, NEW x \in Int, NEW y \in Int, x <= y
  PROVE  Clamp(0, x, high) <= Clamp(0, y, high)
BY DEF Clamp

LEMMA DaysAreInt ==
  ASSUME NEW c \in Certificate
  PROVE  c.hours \in Int /\ DaysUntilExpiry(c) \in Int
BY DEF DaysUntilExpiry, Certificate

LEMMA FactorsAreBounded ==
  ASSUME NEW m \in Measurement, NEW cfg \in Config
  PROVE  /\ ScoreProtocols(m.versions) \in 0..25
         /\ ScoreCiphers(m.suites) \in 0..25
         /\ ScoreCertificate(m.cert) \in 0..25
         /\ RiskUnder(m, cfg).score = IF cfg.checkQuantum /\ HasHybrid(m) THEN 64 ELSE 0
<1>1. ScoreProtocols(m.versions) \in 0..25
  <2> DEFINE raw == (IF "TLS1.3" \in m.versions THEN 25 ELSE Points(10, "TLS1.2" \in m.versions))
                      - Points(5, "TLS1.1" \in m.versions) - Points(10, "TLS1.0" \in m.versions)
  <2>1. raw \in Int
    BY DEF Points
  <2>2. ScoreProtocols(m.versions) = Clamp(0, raw, 25)
    BY DEF ScoreProtocols
  <2> HIDE DEF raw
  <2> QED
    BY <2>1, <2>2, ClampIsBounded
<1>2. ScoreCiphers(m.suites) \in 0..25
  <2> DEFINE classical == Points(10, \E s \in m.suites : ~ForwardSecrecy(s))
             weak == Points(10, \E s \in m.suites : Bits(s) > 0 /\ Bits(s) < 128)
             short == Points(5, \A s \in m.suites : Bits(s) < 256)
  <2>1. classical \in Int
    BY DEF Points
  <2>2. weak \in Int
    BY DEF Points
  <2>3. short \in Int
    BY DEF Points
  <2>4. ScoreCiphers(m.suites) = 0 \/ ScoreCiphers(m.suites) = Clamp(0, 25 - classical - weak - short, 25)
    BY DEF ScoreCiphers
  <2> HIDE DEF classical, weak, short
  <2>5. 25 - classical - weak - short \in Int
    BY <2>1, <2>2, <2>3
  <2>6. Clamp(0, 25 - classical - weak - short, 25) \in 0..25
    BY <2>5, ClampIsBounded
  <2> QED
    BY <2>4, <2>6
<1>3. ScoreCertificate(m.cert) \in 0..25
  <2>1. CASE m.cert = NoCertificate \/ Refused(m.cert)
    BY <2>1 DEF ScoreCertificate
  <2>2. CASE m.cert # NoCertificate /\ ~Refused(m.cert)
    <3> DEFINE c == m.cert
               raw == 15 + Points(5, DaysUntilExpiry(c) > 30)
                        + (IF c.key = "RSA" THEN Points(3, c.bits >= 2048) + Points(2, c.bits >= 4096)
                                            ELSE Points(5, c.key = "ECDSA"))
                        + Points(5, c.sig \in {"SHA256", "SHA384"}) - Points(10, c.sig \in {"SHA1", "MD5"})
                        - Points(5, c.selfSigned)
    <3>1. raw \in Int
      <4>1. \A b, n : n \in Int => Points(n, b) \in Int
        BY DEF Points
      <4> QED
        BY <4>1
    <3>2. ScoreCertificate(m.cert) = Clamp(0, raw, 25)
      BY <2>2 DEF ScoreCertificate
    <3> HIDE DEF raw
    <3> QED
      BY <3>1, <3>2, ClampIsBounded
  <2> QED
    BY <2>1, <2>2
<1>4. RiskUnder(m, cfg).score = IF cfg.checkQuantum /\ HasHybrid(m) THEN 64 ELSE 0
  BY DEF RiskUnder, AssessQuantumRisk, NotAssessed, QuantumScoreFor, KeyExchangeScore, CertificateQuantumScore
<1> QED
  BY <1>1, <1>2, <1>3, <1>4

\* The three measured dimensions, and the fourth if it ran.
RawPoints(m, cfg) ==
  ScoreProtocols(m.versions) + ScoreCiphers(m.suites) + ScoreCertificate(m.cert)
    + (IF cfg.checkQuantum /\ HasHybrid(m) THEN 16 ELSE 0)

Percentage(points, cfg) == (points * 100) \div (IF cfg.checkQuantum THEN 100 ELSE 75)

\* What CalculateGrade comes to, for a server and flags.
LEMMA GradeComesTo ==
  ASSUME NEW m \in Measurement, NEW cfg \in Config
  PROVE  /\ GradeUnder(m, cfg).dimensionScore = Clamp(0, Percentage(RawPoints(m, cfg), cfg), 100)
         /\ GradeUnder(m, cfg).score =
              Clamp(0, Clamp(0, Percentage(RawPoints(m, cfg), cfg), 100) - Penalty(FindingsUnder(m, cfg)), 100)
<1> DEFINE risk == RiskUnder(m, cfg)
           factors == [ protocols |-> ScoreProtocols(m.versions), ciphers |-> ScoreCiphers(m.suites),
                        certificate |-> ScoreCertificate(m.cert), quantum |-> risk.score \div 4 ]
           ran(d) == Points(factors[d], d \in Counted(cfg))
           points == ran("protocols") + ran("ciphers") + ran("certificate") + ran("quantum")
<1>1. 25 * Cardinality(Counted(cfg)) = IF cfg.checkQuantum THEN 100 ELSE 75
  <2> DEFINE one == {"protocols"}
             two == one \cup {"ciphers"}
             three == two \cup {"certificate"}
             four == three \cup {"quantum"}
  <2>1. IsFiniteSet(one) /\ Cardinality(one) = 1
    BY FS_Singleton
  <2>2. "ciphers" \notin one /\ "certificate" \notin two /\ "quantum" \notin three
    OBVIOUS
  <2>3. \A S, x : IsFiniteSet(S) /\ x \notin S =>
          IsFiniteSet(S \cup {x}) /\ Cardinality(S \cup {x}) = Cardinality(S) + 1
    BY FS_AddElement
  <2>4. Counted(cfg) = IF cfg.checkQuantum THEN four ELSE three
    BY DEF Counted, Dimensions
  <2> HIDE DEF one
  <2>5. IsFiniteSet(two) /\ Cardinality(two) = 2
    BY <2>1, <2>2, <2>3
  <2> HIDE DEF two
  <2>6. IsFiniteSet(three) /\ Cardinality(three) = 3
    BY <2>2, <2>3, <2>5
  <2> HIDE DEF three
  <2>7. Cardinality(four) = 4
    BY <2>2, <2>3, <2>6
  <2> HIDE DEF four
  <2> QED
    BY <2>4, <2>6, <2>7
<1>2. points = RawPoints(m, cfg)
  <2>1. /\ ran("protocols") = ScoreProtocols(m.versions)
        /\ ran("ciphers") = ScoreCiphers(m.suites)
        /\ ran("certificate") = ScoreCertificate(m.cert)
    BY DEF Points, Counted, Dimensions
  <2>2. ran("quantum") = IF cfg.checkQuantum /\ HasHybrid(m) THEN 16 ELSE 0
    <3>1. risk.score = IF cfg.checkQuantum /\ HasHybrid(m) THEN 64 ELSE 0
      BY FactorsAreBounded
    <3>2. "quantum" \in Counted(cfg) <=> cfg.checkQuantum
      BY DEF Counted, Dimensions
    <3>3. factors["quantum"] = IF cfg.checkQuantum /\ HasHybrid(m) THEN 16 ELSE 0
      BY <3>1
    <3> QED
      BY <3>2, <3>3 DEF Points
  <2> QED
    BY <2>1, <2>2 DEF RawPoints
<1>3. /\ GradeUnder(m, cfg).dimensionScore = Clamp(0, (points * 100) \div (25 * Cardinality(Counted(cfg))), 100)
      /\ GradeUnder(m, cfg).score =
           Clamp(0, Clamp(0, (points * 100) \div (25 * Cardinality(Counted(cfg))), 100)
                      - Penalty(FindingsUnder(m, cfg)), 100)
  BY DEF GradeUnder, CalculateGrade
<1> QED
  BY <1>1, <1>2, <1>3 DEF Percentage

LEMMA RawPointsAreNat ==
  ASSUME NEW m \in Measurement, NEW cfg \in Config
  PROVE  RawPoints(m, cfg) \in 0..100
BY FactorsAreBounded DEF RawPoints

LEMMA PercentageIsMonotone ==
  ASSUME NEW cfg, NEW few \in Nat, NEW many \in Nat, few <= many
  PROVE  /\ Percentage(few, cfg) \in Int /\ Percentage(many, cfg) \in Int
         /\ Percentage(few, cfg) <= Percentage(many, cfg)
BY DEF Percentage

LEMMA ScoreIsGradeUnder ==
  ASSUME NEW m, NEW cfg
  PROVE  Score(m, cfg) = GradeUnder(m, cfg).score
BY DEF Score, GradeUnder, FindingsUnder, RiskUnder

LEMMA FindingsUnderAreFinite ==
  ASSUME NEW m \in Measurement, NEW cfg \in Config
  PROVE  IsFiniteSet(FindingsUnder(m, cfg)) /\ Penalty(FindingsUnder(m, cfg)) \in Nat
<1>1. IsFiniteSet(FindingsUnder(m, cfg))
  BY VulnerabilitiesAreFinite, FS_EmptySet DEF FindingsUnder
<1> QED
  BY <1>1, PenaltyIsNat

\* A server that earns no more points and no smaller penalty under the same
\* flags has no better score.
LEMMA ScoreIsMonotone ==
  ASSUME NEW worse \in Measurement, NEW better \in Measurement, NEW cfg \in Config,
         RawPoints(worse, cfg) <= RawPoints(better, cfg),
         Penalty(FindingsUnder(better, cfg)) <= Penalty(FindingsUnder(worse, cfg))
  PROVE  Score(worse, cfg) <= Score(better, cfg)
<1> DEFINE few == RawPoints(worse, cfg)
           many == RawPoints(better, cfg)
           pw == Percentage(few, cfg)
           pb == Percentage(many, cfg)
           cost == Penalty(FindingsUnder(worse, cfg))
           price == Penalty(FindingsUnder(better, cfg))
<1>0. few \in 0..100 /\ many \in 0..100 /\ few <= many
  BY RawPointsAreNat
<1>1. pw \in Int /\ pb \in Int /\ pw <= pb
  <2> HIDE DEF few, many
  <2>1. few \in Nat /\ many \in Nat
    BY <1>0
  <2> QED
    BY <1>0, <2>1, PercentageIsMonotone
<1>2. cost \in Nat /\ price \in Nat /\ price <= cost
  BY FindingsUnderAreFinite
<1>3. Score(worse, cfg) = Clamp(0, Clamp(0, pw, 100) - cost, 100)
  BY ScoreIsGradeUnder, GradeComesTo
<1>4. Score(better, cfg) = Clamp(0, Clamp(0, pb, 100) - price, 100)
  BY ScoreIsGradeUnder, GradeComesTo
<1> HIDE DEF few, many, pw, pb, cost, price
<1>5. /\ Clamp(0, pw, 100) \in 0..100 /\ Clamp(0, pb, 100) \in 0..100
      /\ Clamp(0, pw, 100) <= Clamp(0, pb, 100)
  BY <1>1, ClampIsBounded, ClampIsMonotone
<1>6. Clamp(0, Clamp(0, pw, 100) - cost, 100) <= Clamp(0, Clamp(0, pb, 100) - price, 100)
  <2>1. /\ Clamp(0, pw, 100) - cost \in Int /\ Clamp(0, pb, 100) - price \in Int
        /\ Clamp(0, pw, 100) - cost <= Clamp(0, pb, 100) - price
    BY <1>2, <1>5
  <2> QED
    BY <2>1, ClampIsMonotone
<1> QED
  BY <1>3, <1>4, <1>6

-----------------------------------------------------------------------------
(***************************************************************************)
(* The invariant.                                                          *)
(***************************************************************************)
\* A result is being judged: what was measured stays as it is.
JudgementStep == CheckVulnerabilities \/ AssessQuantum \/ GradeResult \/ Recommend

LEMMA StepsKeepJudgement ==
  ASSUME AsJudged, JudgementStep
  PROVE  AsJudged'
<1>1. CASE CheckVulnerabilities
  BY <1>1 DEF AsJudged, CheckVulnerabilities, FindingsFollow, QuantumFollows, GradeFollows,
     AdviceFollows, FindingsUnder
<1>2. CASE AssessQuantum
  BY <1>2 DEF AsJudged, AssessQuantum, FindingsFollow, QuantumFollows, GradeFollows,
     AdviceFollows, RiskUnder
<1>3. CASE GradeResult
  BY <1>3 DEF AsJudged, GradeResult, FindingsFollow, QuantumFollows, GradeFollows,
     AdviceFollows, GradeUnder
<1>4. CASE Recommend
  BY <1>4 DEF AsJudged, Recommend, FindingsFollow, QuantumFollows, GradeFollows,
     AdviceFollows, AdviceUnder
<1> QED
  BY <1>1, <1>2, <1>3, <1>4 DEF JudgementStep

LEMMA StutteringKeepsJudgement ==
  ASSUME AsJudged, UNCHANGED vars
  PROVE  AsJudged'
BY DEF AsJudged, vars, FindingsFollow, QuantumFollows, GradeFollows, AdviceFollows

\* Each field of a result is what its step computes from the measurements and
\* the flags, and nothing a later step does changes it.
THEOREM Invariance == Spec => []Judging
<1>1. Init => Judging
  BY AssessmentAssumption DEF Init, Judging, AsJudged, FindingsFollow, QuantumFollows, GradeFollows, AdviceFollows
<1>2. Judging /\ [Next]_vars => Judging'
  <2> SUFFICES ASSUME Judging, [Next]_vars
               PROVE  Judging'
    OBVIOUS
  <2>1. AsJudged'
    BY StepsKeepJudgement, StutteringKeepsJudgement DEF Judging, Next, JudgementStep
  <2>2. /\ measured' \in Measurements /\ config' \in Configs
        /\ stage' \in {"measured", "checked", "assessed", "graded", "returned"}
    BY DEF Judging, Next, vars, CheckVulnerabilities, AssessQuantum, GradeResult, Recommend
  <2> QED
    BY <2>1, <2>2 DEF Judging
<1> QED
  BY <1>1, <1>2, PTL DEF Spec

-----------------------------------------------------------------------------
(***************************************************************************)
(* Types.                                                                  *)
(***************************************************************************)
LEMMA LeastExists ==
  ASSUME NEW S \in SUBSET Nat, S # {}
  PROVE  \E k \in S : \A j \in S : k <= j
<1> DEFINE less == {p \in Nat \X Nat : p[1] < p[2]}
<1>1. IsWellFoundedOn(less, Nat)
  BY NatLessThanWellFounded DEF OpToRel
<1>2. \A j, k \in S : <<j, k>> \notin less => k <= j
  OBVIOUS
<1> HIDE DEF less
<1>3. \E k \in S : \A j \in S : <<j, k>> \notin less
  BY <1>1, WFMin
<1> QED
  BY <1>2, <1>3

\* A score that reaches a band has the letter of the first such band.
LEMMA LetterIsOfABand ==
  ASSUME NEW bands, NEW size \in Nat, DOMAIN bands = 1..size, NEW score,
         NEW floor \in DOMAIN bands, score >= bands[floor][2]
  PROVE  \E k \in DOMAIN bands :
           /\ LetterForScore(score, bands) = bands[k][1] /\ score >= bands[k][2]
           /\ \A j \in DOMAIN bands : score >= bands[j][2] => k <= j
<1> DEFINE reached == {k \in DOMAIN bands : score >= bands[k][2]}
<1>1. reached \in SUBSET Nat /\ floor \in reached
  OBVIOUS
<1>2. \E k \in reached : \A j \in reached : k <= j
  <2> HIDE DEF reached
  <2> QED
    BY <1>1, LeastExists
<1>3. LetterForScore(score, bands) = bands[CHOOSE k \in reached : \A j \in reached : k <= j][1]
  BY DEF LetterForScore
<1> QED
  BY <1>2, <1>3

\* One finding, and which findings the checks make.
Note(id, subject, severity) == [id |-> id, subject |-> subject, severity |-> severity]

LEMMA InProtocolFindings ==
  ASSUME NEW versions, NEW v
  PROVE  v \in ProtocolFindings(versions) <=>
           \/ "TLS1.0" \in versions /\ v = Note("TLS10_ENABLED", << >>, "HIGH")
           \/ "TLS1.1" \in versions /\ v = Note("TLS11_ENABLED", << >>, "MEDIUM")
           \/ "TLS1.3" \notin versions /\ v = Note("NO_TLS13", << >>, "MEDIUM")
BY DEF ProtocolFindings, Found, Note

\* No suite has fewer than 128 bits.
LEMMA InSuiteFindings ==
  ASSUME NEW s, NEW v
  PROVE  v \in SuiteFindings(s) <=>
           \/ Deprecated(s) /\ v = Note("DEPRECATED_CIPHER", <<s.kx, s.cipher>>, "HIGH")
           \/ ~ForwardSecrecy(s) /\ v = Note("NO_PFS", <<s.kx, s.cipher>>, "MEDIUM")
<1>1. ~(Bits(s) > 0 /\ Bits(s) < 128)
  BY DEF Bits
<1>2. SuiteFindings(s) =
        Found("DEPRECATED_CIPHER", <<s.kx, s.cipher>>, "HIGH", Deprecated(s))
          \cup Found("NO_PFS", <<s.kx, s.cipher>>, "MEDIUM", ~ForwardSecrecy(s))
  BY <1>1 DEF SuiteFindings, Found, ForwardSecrecy
<1> QED
  BY <1>2 DEF Found, Note

LEMMA InWindowFindings ==
  ASSUME NEW c, NEW v
  PROVE  v \in WindowFindings(c) <=>
           \/ Expired(c) /\ v = Note("CERT_EXPIRED", << >>, "CRITICAL")
           \/ c.notYetValid /\ v = Note("CERT_NOT_YET_VALID", << >>, "CRITICAL")
           \/ /\ ~c.notYetValid /\ ~Expired(c) /\ DaysUntilExpiry(c) < 30
              /\ v = Note("CERT_EXPIRING", << >>, "MEDIUM")
BY DEF WindowFindings, Found, Note

LEMMA InChainFindings ==
  ASSUME NEW c \in Certificate, NEW v
  PROVE  v \in ChainFindings(c) <=>
           \/ c.chain = "failed" /\ c.selfSigned /\ v = Note("CERT_SELF_SIGNED", <<"failed">>, "HIGH")
           \/ c.chain = "failed" /\ ~c.selfSigned /\ v = Note("CERT_CHAIN_UNTRUSTED", <<"failed">>, "HIGH")
           \/ c.chain # "failed" /\ c.selfSigned /\ v = Note("CERT_SELF_SIGNED", <<c.chain>>, "MEDIUM")
<1>1. c.chain \in {"passed", "failed", "notPerformed"}
  BY DEF Certificate, Check
<1>2. CASE c.chain = "failed"
  BY <1>2 DEF ChainFindings, Found, Note
<1>3. CASE c.chain # "failed"
  BY <1>1, <1>3 DEF ChainFindings, Found, Note
<1> QED
  BY <1>2, <1>3

LEMMA InCertificateFindings ==
  ASSUME NEW c, NEW v
  PROVE  v \in CertificateFindings(c) <=>
           \/ v \in WindowFindings(c)
           \/ v \in ChainFindings(c)
           \/ c.name = "failed" /\ v = Note("CERT_NAME_MISMATCH", << >>, "HIGH")
           \/ c.sig \in {"SHA1", "MD5"} /\ v = Note("CERT_WEAK_SIG", << >>, "HIGH")
           \/ c.key = "RSA" /\ c.bits < 2048 /\ v = Note("CERT_WEAK_KEY", << >>, "HIGH")
BY DEF CertificateFindings, Found, Note

LEMMA InVulnerabilities ==
  ASSUME NEW m, NEW v
  PROVE  v \in Vulnerabilities(m) <=>
           \/ v \in ProtocolFindings(m.versions)
           \/ \E s \in m.suites : v \in SuiteFindings(s)
           \/ m.cert # NoCertificate /\ v \in CertificateFindings(m.cert)
BY DEF Vulnerabilities

LEMMA VulnerabilitiesAreFindings ==
  ASSUME NEW m \in Measurement
  PROVE  Vulnerabilities(m) \subseteq Finding
<1>1. /\ << >> \in Subject /\ \A result \in Check : <<result>> \in Subject
      /\ \A s \in m.suites : <<s.kx, s.cipher>> \in Subject
  BY DEF Subject, Measurement
<1>2. \A id \in FindingId, subject \in Subject, severity \in Severities :
        Note(id, subject, severity) \in Finding
  BY DEF Finding, Note
<1>3. Severities = {"CRITICAL", "HIGH", "MEDIUM"} /\ Check = {"passed", "failed", "notPerformed"}
  BY DEF Severities, Check
<1>4. ASSUME NEW v \in ProtocolFindings(m.versions)
      PROVE  v \in Finding
  <2>1. \/ v = Note("TLS10_ENABLED", << >>, "HIGH") \/ v = Note("TLS11_ENABLED", << >>, "MEDIUM")
        \/ v = Note("NO_TLS13", << >>, "MEDIUM")
    BY InProtocolFindings
  <2> QED
    BY <2>1, <1>1, <1>2, <1>3 DEF FindingId
<1>5. ASSUME NEW s \in m.suites, NEW v \in SuiteFindings(s)
      PROVE  v \in Finding
  <2>1. \/ v = Note("DEPRECATED_CIPHER", <<s.kx, s.cipher>>, "HIGH")
        \/ v = Note("NO_PFS", <<s.kx, s.cipher>>, "MEDIUM")
    BY InSuiteFindings
  <2> QED
    BY <2>1, <1>1, <1>2, <1>3 DEF FindingId
<1>6. ASSUME NEW c \in Certificate, NEW v \in CertificateFindings(c)
      PROVE  v \in Finding
  <2>1. CASE v \in WindowFindings(c)
    BY <2>1, <1>1, <1>2, <1>3, InWindowFindings DEF FindingId
  <2>2. CASE v \in ChainFindings(c)
    <3>1. c.chain \in Check
      BY DEF Certificate
    <3> QED
      BY <2>2, <3>1, <1>1, <1>2, <1>3, InChainFindings DEF FindingId
  <2> QED
    BY <2>1, <2>2, <1>1, <1>2, <1>3, InCertificateFindings DEF FindingId
<1>7. m.cert \in Certificate \cup {NoCertificate}
  BY DEF Measurement
<1> QED
  BY <1>4, <1>5, <1>6, <1>7, InVulnerabilities

-----------------------------------------------------------------------------
(***************************************************************************)
(* The advice.                                                             *)
(***************************************************************************)
\* A list of titles, and what it holds.
ListsTitles(s, titles) == s \in Seq(Title) /\ Range(s) = titles

LEMMA ListsOne ==
  ASSUME NEW title \in Title
  PROVE  ListsTitles(<<title>>, {title}) /\ ListsTitles(<< >>, {})
<1>1. <<title>> \in Seq(Title) /\ << >> \in Seq(Title)
  OBVIOUS
<1>2. Range(<<title>>) = {title} /\ Range(<< >>) = {}
  BY DEF Range
<1> QED
  BY <1>1, <1>2 DEF ListsTitles

LEMMA ListsBoth ==
  ASSUME NEW s, NEW S, NEW t, NEW T, ListsTitles(s, S), ListsTitles(t, T)
  PROVE  ListsTitles(s \o t, S \cup T)
<1>1. s \in Seq(Title) /\ t \in Seq(Title)
  BY DEF ListsTitles
<1>2. s \o t \in Seq(Title)
  BY <1>1, ConcatProperties
<1>3. Range(s \o t) = Range(s) \cup Range(t)
  BY <1>1, RangeConcatenation
<1> QED
  BY <1>2, <1>3 DEF ListsTitles

AdvisedOn(c) ==
  (IF Expired(c) THEN {"Renew_Expired_Certificate"}
   ELSE IF c.notYetValid THEN {"Deploy_a_Certificate_That_Is_Valid_Now"}
   ELSE IF DaysUntilExpiry(c) < 30 THEN {"Renew_Certificate_Soon"} ELSE {})
    \cup (IF c.key = "RSA" /\ c.bits < 2048 THEN {"Use_Stronger_RSA_Key"} ELSE {})
    \cup (IF c.sig \in {"SHA1", "MD5"} THEN {"Use_SHA-256_or_Stronger_Signature"} ELSE {})

LEMMA CertificateAdviceLists ==
  ASSUME NEW c \in Certificate
  PROVE  ListsTitles(CertificateAdvice(c), AdvisedOn(c))
<1> DEFINE dateAdvice == IF Expired(c) THEN <<"Renew_Expired_Certificate">>
                    ELSE IF c.notYetValid THEN <<"Deploy_a_Certificate_That_Is_Valid_Now">>
                    ELSE Advise("Renew_Certificate_Soon", DaysUntilExpiry(c) < 30)
           keyAdvice == Advise("Use_Stronger_RSA_Key", c.key = "RSA" /\ c.bits < 2048)
           sigAdvice == Advise("Use_SHA-256_or_Stronger_Signature", c.sig \in {"SHA1", "MD5"})
           DateTitle == IF Expired(c) THEN {"Renew_Expired_Certificate"}
                    ELSE IF c.notYetValid THEN {"Deploy_a_Certificate_That_Is_Valid_Now"}
                    ELSE IF DaysUntilExpiry(c) < 30 THEN {"Renew_Certificate_Soon"} ELSE {}
           KeyTitle == IF c.key = "RSA" /\ c.bits < 2048 THEN {"Use_Stronger_RSA_Key"} ELSE {}
           SigTitle == IF c.sig \in {"SHA1", "MD5"} THEN {"Use_SHA-256_or_Stronger_Signature"} ELSE {}
<1>1. \A title \in Title : ListsTitles(<<title>>, {title}) /\ ListsTitles(<< >>, {})
  BY ListsOne
<1>2. {"Renew_Expired_Certificate", "Deploy_a_Certificate_That_Is_Valid_Now", "Renew_Certificate_Soon",
       "Use_Stronger_RSA_Key", "Use_SHA-256_or_Stronger_Signature"} \subseteq Title
  BY DEF Title
<1>3. ListsTitles(dateAdvice, DateTitle)
  BY <1>1, <1>2 DEF Advise
<1>4. ListsTitles(keyAdvice, KeyTitle)
  <2>1. c.bits \in Nat
    BY DEF Certificate
  <2>2. keyAdvice = IF c.key = "RSA" /\ c.bits < 2048 THEN <<"Use_Stronger_RSA_Key">> ELSE << >>
    BY <2>1 DEF Advise
  <2>3. "Use_Stronger_RSA_Key" \in Title
    BY <1>2
  <2>4. ListsTitles(<<"Use_Stronger_RSA_Key">>, {"Use_Stronger_RSA_Key"}) /\ ListsTitles(<< >>, {})
    BY <1>1, <2>3
  <2> HIDE DEF keyAdvice, dateAdvice, sigAdvice, DateTitle, SigTitle
  <2>5. CASE c.key = "RSA" /\ c.bits < 2048
    <3>1. keyAdvice = <<"Use_Stronger_RSA_Key">> /\ KeyTitle = {"Use_Stronger_RSA_Key"}
      BY <2>2, <2>5
    <3> QED
      BY <2>4, <3>1
  <2>6. CASE ~(c.key = "RSA" /\ c.bits < 2048)
    <3>1. keyAdvice = << >> /\ KeyTitle = {}
      BY <2>2, <2>6
    <3> QED
      BY <2>4, <3>1
  <2> QED
    BY <2>5, <2>6
<1>5. ListsTitles(sigAdvice, SigTitle)
  BY <1>1, <1>2 DEF Advise
<1>6. CertificateAdvice(c) = (dateAdvice \o keyAdvice) \o sigAdvice
  BY DEF CertificateAdvice
<1> SUFFICES ListsTitles(CertificateAdvice(c), (DateTitle \cup KeyTitle) \cup SigTitle)
  BY DEF AdvisedOn
<1> HIDE DEF dateAdvice, keyAdvice, sigAdvice, DateTitle, KeyTitle, SigTitle
<1>7. ListsTitles((dateAdvice \o keyAdvice) \o sigAdvice, (DateTitle \cup KeyTitle) \cup SigTitle)
  <2>1. ListsTitles(dateAdvice \o keyAdvice, DateTitle \cup KeyTitle)
    BY <1>3, <1>4, ListsBoth
  <2> QED
    BY <2>1, <1>5, ListsBoth
<1> QED
  BY <1>6, <1>7

LEMMA AdviceLists ==
  ASSUME NEW m \in Measurement, NEW cfg \in Config, NEW risk, NEW title
  PROVE  /\ GenerateRecommendations(m, cfg, risk) \in Seq(Title)
         /\ title \in Range(GenerateRecommendations(m, cfg, risk)) <=>
              \/ title = "Enable_Hybrid_Post-Quantum_Key_Exchange" /\ QuantumLow(cfg, risk, 50)
              \/ title = "Disable_TLS1.1" /\ "TLS1.1" \in m.versions
              \/ title = "Disable_TLS1.0" /\ "TLS1.0" \in m.versions
              \/ title = "Enable_TLS1.3" /\ "TLS1.3" \notin m.versions
              \/ title = "Remove_Deprecated_Cipher_Suites" /\ \E s \in m.suites : Deprecated(s)
              \/ title = "Require_Forward_Secrecy" /\ \E s \in m.suites : ~ForwardSecrecy(s)
              \/ m.cert # NoCertificate /\ title \in Range(CertificateAdvice(m.cert))
              \/ /\ m.cert # NoCertificate /\ QuantumLow(cfg, risk, 80)
                 /\ title = "Plan_for_Post-Quantum_Certificates"
<1> DEFINE hybrid == Advise("Enable_Hybrid_Post-Quantum_Key_Exchange", QuantumLow(cfg, risk, 50))
           no11 == Advise("Disable_TLS1.1", "TLS1.1" \in m.versions)
           no10 == Advise("Disable_TLS1.0", "TLS1.0" \in m.versions)
           yes13 == Advise("Enable_TLS1.3", "TLS1.3" \notin m.versions)
           old == Advise("Remove_Deprecated_Cipher_Suites", \E s \in m.suites : Deprecated(s))
           secrecy == Advise("Require_Forward_Secrecy", \E s \in m.suites : ~ForwardSecrecy(s))
           plan == Advise("Plan_for_Post-Quantum_Certificates", QuantumLow(cfg, risk, 80))
           cert == IF m.cert = NoCertificate THEN << >> ELSE CertificateAdvice(m.cert) \o plan
           Hybrid == IF QuantumLow(cfg, risk, 50) THEN {"Enable_Hybrid_Post-Quantum_Key_Exchange"} ELSE {}
           No11 == IF "TLS1.1" \in m.versions THEN {"Disable_TLS1.1"} ELSE {}
           No10 == IF "TLS1.0" \in m.versions THEN {"Disable_TLS1.0"} ELSE {}
           Yes13 == IF "TLS1.3" \notin m.versions THEN {"Enable_TLS1.3"} ELSE {}
           Old == IF \E s \in m.suites : Deprecated(s) THEN {"Remove_Deprecated_Cipher_Suites"} ELSE {}
           Secrecy == IF \E s \in m.suites : ~ForwardSecrecy(s) THEN {"Require_Forward_Secrecy"} ELSE {}
           Plan == IF QuantumLow(cfg, risk, 80) THEN {"Plan_for_Post-Quantum_Certificates"} ELSE {}
           Cert == IF m.cert = NoCertificate THEN {} ELSE Range(CertificateAdvice(m.cert)) \cup Plan
<1>1. \A t \in Title : ListsTitles(<<t>>, {t}) /\ ListsTitles(<< >>, {})
  BY ListsOne
<1>2. {"Enable_Hybrid_Post-Quantum_Key_Exchange", "Disable_TLS1.1", "Disable_TLS1.0", "Enable_TLS1.3",
       "Remove_Deprecated_Cipher_Suites", "Require_Forward_Secrecy",
       "Plan_for_Post-Quantum_Certificates"} \subseteq Title
  BY DEF Title
<1>3. ListsTitles(hybrid, Hybrid)
  BY <1>1, <1>2 DEF Advise
<1>4. ListsTitles(no11, No11)
  BY <1>1, <1>2 DEF Advise
<1>5. ListsTitles(no10, No10)
  BY <1>1, <1>2 DEF Advise
<1>6. ListsTitles(yes13, Yes13)
  BY <1>1, <1>2 DEF Advise
<1>7. ListsTitles(old, Old)
  BY <1>1, <1>2 DEF Advise
<1>8. ListsTitles(secrecy, Secrecy)
  BY <1>1, <1>2 DEF Advise
<1>9. ListsTitles(plan, Plan)
  BY <1>1, <1>2 DEF Advise
<1>10. ListsTitles(cert, Cert)
  <2>1. ListsTitles(<< >>, {})
    BY ListsOne DEF Title
  <2>2. CASE m.cert # NoCertificate
    <3>1. m.cert \in Certificate
      BY <2>2 DEF Measurement
    <3>2. ListsTitles(CertificateAdvice(m.cert), Range(CertificateAdvice(m.cert)))
      BY <3>1, CertificateAdviceLists DEF ListsTitles
    <3>3. cert = CertificateAdvice(m.cert) \o plan /\ Cert = Range(CertificateAdvice(m.cert)) \cup Plan
      BY <2>2
    <3> HIDE DEF plan, Plan, cert, Cert
    <3> QED
      BY <3>2, <3>3, <1>9, ListsBoth
  <2>3. CASE m.cert = NoCertificate
    BY <2>1, <2>3
  <2> QED
    BY <2>2, <2>3
<1>11. GenerateRecommendations(m, cfg, risk) =
         ((((((hybrid \o no11) \o no10) \o yes13) \o old) \o secrecy) \o cert)
  BY DEF GenerateRecommendations
<1>12. title \in ((((((Hybrid \cup No11) \cup No10) \cup Yes13) \cup Old) \cup Secrecy) \cup Cert) <=>
         \/ title = "Enable_Hybrid_Post-Quantum_Key_Exchange" /\ QuantumLow(cfg, risk, 50)
         \/ title = "Disable_TLS1.1" /\ "TLS1.1" \in m.versions
         \/ title = "Disable_TLS1.0" /\ "TLS1.0" \in m.versions
         \/ title = "Enable_TLS1.3" /\ "TLS1.3" \notin m.versions
         \/ title = "Remove_Deprecated_Cipher_Suites" /\ \E s \in m.suites : Deprecated(s)
         \/ title = "Require_Forward_Secrecy" /\ \E s \in m.suites : ~ForwardSecrecy(s)
         \/ m.cert # NoCertificate /\ title \in Range(CertificateAdvice(m.cert))
         \/ /\ m.cert # NoCertificate /\ QuantumLow(cfg, risk, 80)
            /\ title = "Plan_for_Post-Quantum_Certificates"
  OBVIOUS
<1> HIDE DEF hybrid, no11, no10, yes13, old, secrecy, plan, cert
<1> HIDE DEF Hybrid, No11, No10, Yes13, Old, Secrecy, Plan, Cert
<1>13. ListsTitles(((((hybrid \o no11) \o no10) \o yes13) \o old), ((((Hybrid \cup No11) \cup No10) \cup Yes13) \cup Old))
  <2>1. ListsTitles(hybrid \o no11, Hybrid \cup No11)
    BY <1>3, <1>4, ListsBoth
  <2>2. ListsTitles((hybrid \o no11) \o no10, (Hybrid \cup No11) \cup No10)
    BY <2>1, <1>5, ListsBoth
  <2>3. ListsTitles(((hybrid \o no11) \o no10) \o yes13, ((Hybrid \cup No11) \cup No10) \cup Yes13)
    BY <2>2, <1>6, ListsBoth
  <2> QED
    BY <2>3, <1>7, ListsBoth
<1>14. ListsTitles(((((((hybrid \o no11) \o no10) \o yes13) \o old) \o secrecy) \o cert),
             ((((((Hybrid \cup No11) \cup No10) \cup Yes13) \cup Old) \cup Secrecy) \cup Cert))
  <2>1. ListsTitles((((((hybrid \o no11) \o no10) \o yes13) \o old) \o secrecy),
             (((((Hybrid \cup No11) \cup No10) \cup Yes13) \cup Old) \cup Secrecy))
    BY <1>13, <1>8, ListsBoth
  <2> QED
    BY <2>1, <1>10, ListsBoth
<1>15. /\ GenerateRecommendations(m, cfg, risk) \in Seq(Title)
       /\ Range(GenerateRecommendations(m, cfg, risk)) =
            ((((((Hybrid \cup No11) \cup No10) \cup Yes13) \cup Old) \cup Secrecy) \cup Cert)
  BY <1>11, <1>14 DEF ListsTitles
<1> QED
  BY <1>12, <1>15

-----------------------------------------------------------------------------
(***************************************************************************)
(* The letter and the factors.                                             *)
(***************************************************************************)
LEMMA QuantumBand ==
  ASSUME NEW score \in Nat
  PROVE  \E k \in 1..4 :
           /\ LetterForScore(score, QuantumGradeBands) = QuantumGradeBands[k][1]
           /\ score >= QuantumGradeBands[k][2]
           /\ \A j \in 1..4 : score >= QuantumGradeBands[j][2] => k <= j
<1> DEFINE bands == QuantumGradeBands
<1>1. DOMAIN bands = 1..4 /\ bands[4][2] = 0
  BY DEF QuantumGradeBands
<1> HIDE DEF bands
<1>2. 4 \in DOMAIN bands /\ score >= bands[4][2]
  BY <1>1
<1>3. \E k \in DOMAIN bands :
        /\ LetterForScore(score, bands) = bands[k][1] /\ score >= bands[k][2]
        /\ \A j \in DOMAIN bands : score >= bands[j][2] => k <= j
  BY <1>1, <1>2, LetterIsOfABand
<1> QED
  BY <1>1, <1>3 DEF bands

LEMMA QuantumLetters ==
  /\ LetterForScore(64, QuantumGradeBands) = "Q"
  /\ LetterForScore(0, QuantumGradeBands) = "QV"
<1> DEFINE bands == QuantumGradeBands
<1>1. /\ bands[1][2] = 80 /\ bands[2][2] = 50 /\ bands[3][2] = 20 /\ bands[4][2] = 0
      /\ bands[2][1] = "Q" /\ bands[4][1] = "QV"
  BY DEF QuantumGradeBands
<1>2. \A score \in Nat : \E k \in 1..4 :
           /\ LetterForScore(score, bands) = bands[k][1]
           /\ score >= bands[k][2]
           /\ \A j \in 1..4 : score >= bands[j][2] => k <= j
  BY QuantumBand
<1> HIDE DEF bands
<1>3. LetterForScore(64, bands) = "Q"
  <2>1. PICK k \in 1..4 :
          /\ LetterForScore(64, bands) = bands[k][1] /\ 64 >= bands[k][2]
          /\ \A j \in 1..4 : 64 >= bands[j][2] => k <= j
    BY <1>2
  <2>2. k <= 2 /\ k # 1
    BY <1>1, <2>1
  <2>3. k = 2
    BY <2>2
  <2> QED
    BY <1>1, <2>1, <2>3
<1>4. LetterForScore(0, bands) = "QV"
  <2>1. PICK k \in 1..4 :
          /\ LetterForScore(0, bands) = bands[k][1] /\ 0 >= bands[k][2]
          /\ \A j \in 1..4 : 0 >= bands[j][2] => k <= j
    BY <1>2
  <2>2. k # 1 /\ k # 2 /\ k # 3
    BY <1>1, <2>1
  <2>3. k = 4
    BY <2>2
  <2> QED
    BY <1>1, <2>1, <2>3
<1> QED
  BY <1>3, <1>4 DEF bands

LEMMA TLSLetters ==
  ASSUME NEW score \in Nat
  PROVE  \E k \in DOMAIN TLSGradeBands : LetterForScore(score, TLSGradeBands) = TLSGradeBands[k][1]
<1> DEFINE bands == TLSGradeBands
<1>1. DOMAIN bands = 1..6 /\ bands[6][2] = 0
  BY DEF TLSGradeBands
<1> HIDE DEF bands
<1>2. 6 \in DOMAIN bands /\ score >= bands[6][2]
  BY <1>1
<1>3. \E k \in DOMAIN bands : LetterForScore(score, bands) = bands[k][1]
  BY <1>1, <1>2, LetterIsOfABand
<1> QED
  BY <1>3 DEF bands

\* The other fields of a grade.
LEMMA GradeHas ==
  ASSUME NEW m \in Measurement, NEW cfg \in Config
  PROVE  LET g == GradeUnder(m, cfg)
         IN  /\ g.score \in 0..100 /\ g.dimensionScore \in 0..100 /\ g.penalty \in Nat
             /\ g.letter = LetterForScore(g.score, TLSGradeBands)
             /\ DOMAIN g.factors = Counted(cfg)
             /\ g.factors["certificate"] = ScoreCertificate(m.cert)
             /\ \A d \in DOMAIN g.factors : g.factors[d] \in 0..25
             /\ g.skipped = SkippedDimensions(cfg)
             /\ g.vulnerabilitiesAssessed = cfg.checkVulns
             /\ g.quantumGrade = IF cfg.checkQuantum
                                   THEN IF HasHybrid(m) THEN "Q" ELSE "QV"
                                   ELSE "not_assessed"
<1> DEFINE risk == RiskUnder(m, cfg)
           found == FindingsUnder(m, cfg)
           g == GradeUnder(m, cfg)
           factors == [ protocols |-> ScoreProtocols(m.versions), ciphers |-> ScoreCiphers(m.suites),
                        certificate |-> ScoreCertificate(m.cert), quantum |-> risk.score \div 4 ]
           dimension == Clamp(0, Percentage(RawPoints(m, cfg), cfg), 100)
<1>1. /\ g.penalty = Penalty(found) /\ g.factors = [d \in Counted(cfg) |-> factors[d]]
      /\ g.skipped = SkippedDimensions(cfg) /\ g.vulnerabilitiesAssessed = cfg.checkVulns
      /\ g.letter = LetterForScore(g.score, TLSGradeBands)
      /\ g.quantumGrade = IF cfg.checkQuantum THEN LetterForScore(risk.score, QuantumGradeBands)
                                              ELSE "not_assessed"
  BY DEF GradeUnder, CalculateGrade
<1>2. g.dimensionScore = dimension /\ g.score = Clamp(0, dimension - Penalty(found), 100)
  BY GradeComesTo
<1>3. Penalty(found) \in Nat
  BY FindingsUnderAreFinite
<1>4. dimension \in 0..100
  <2>1. RawPoints(m, cfg) \in Nat
    BY RawPointsAreNat
  <2>2. Percentage(RawPoints(m, cfg), cfg) \in Int
    BY <2>1, PercentageIsMonotone
  <2> QED
    BY <2>2, ClampIsBounded
<1>5. risk.score = IF cfg.checkQuantum /\ HasHybrid(m) THEN 64 ELSE 0
  BY FactorsAreBounded
<1>6. /\ DOMAIN g.factors = Counted(cfg) /\ g.factors["certificate"] = ScoreCertificate(m.cert)
      /\ \A d \in DOMAIN g.factors : g.factors[d] \in 0..25
  <2>1. "certificate" \in Counted(cfg) /\ Counted(cfg) \subseteq Dimensions
    BY DEF Counted, Dimensions
  <2>2. risk.score \div 4 \in 0..25
    BY <1>5
  <2>3. \A d \in Dimensions : factors[d] \in 0..25
    BY <2>2, FactorsAreBounded DEF Dimensions
  <2>4. factors["certificate"] = ScoreCertificate(m.cert)
    OBVIOUS
  <2> HIDE DEF factors
  <2> QED
    BY <1>1, <2>1, <2>3, <2>4
<1>7. cfg.checkQuantum => LetterForScore(risk.score, QuantumGradeBands) = IF HasHybrid(m) THEN "Q" ELSE "QV"
  BY <1>5, QuantumLetters
<1> HIDE DEF dimension, found, risk, g
<1>8. g.score \in 0..100
  <2>1. dimension - Penalty(found) \in Int
    BY <1>3, <1>4
  <2> QED
    BY <1>2, <2>1, ClampIsBounded
<1>9. /\ g.score \in 0..100 /\ g.dimensionScore \in 0..100 /\ g.penalty \in Nat
      /\ g.quantumGrade = IF cfg.checkQuantum THEN IF HasHybrid(m) THEN "Q" ELSE "QV" ELSE "not_assessed"
  BY <1>1, <1>2, <1>3, <1>4, <1>7, <1>8
<1> QED
  BY <1>1, <1>6, <1>9 DEF g

LEMMA TypesFollow ==
  ASSUME Judging
  PROVE  TypeOK
<1>1. measured \in Measurement /\ config \in Config
  BY DEF Judging, AsJudged
<1>2. vulns \subseteq Finding
  BY <1>1, VulnerabilitiesAreFindings DEF Judging, AsJudged, FindingsFollow, FindingsUnder
<1>3. quantum.score \in 0..100
  <2>1. NotAssessed.score = 0
    BY DEF NotAssessed
  <2>2. RiskUnder(measured, config).score \in 0..100
    BY <1>1, FactorsAreBounded
  <2> QED
    BY <2>1, <2>2 DEF Judging, AsJudged, QuantumFollows
<1>4. recs \in Seq(Title)
  <2>1. GenerateRecommendations(measured, config, RiskUnder(measured, config)) \in Seq(Title)
    BY <1>1, AdviceLists
  <2>2. << >> \in Seq(Title)
    OBVIOUS
  <2>3. recs = << >> \/ recs = GenerateRecommendations(measured, config, RiskUnder(measured, config))
    BY DEF Judging, AsJudged, AdviceFollows, AdviceUnder
  <2> QED
    BY <2>1, <2>2, <2>3
<1>5. ASSUME stage \in {"graded", "returned"}
      PROVE  /\ grade.score \in 0..100 /\ grade.dimensionScore \in 0..100 /\ grade.penalty \in Nat
             /\ \A d \in DOMAIN grade.factors : grade.factors[d] \in 0..25
             /\ \E k \in DOMAIN TLSGradeBands : grade.letter = TLSGradeBands[k][1]
  <2>1. grade = GradeUnder(measured, config)
    BY <1>5 DEF Judging, AsJudged, GradeFollows
  <2>2. /\ grade.score \in 0..100 /\ grade.dimensionScore \in 0..100 /\ grade.penalty \in Nat
        /\ \A d \in DOMAIN grade.factors : grade.factors[d] \in 0..25
        /\ grade.letter = LetterForScore(grade.score, TLSGradeBands)
    BY <1>1, <2>1, GradeHas
  <2>3. grade.score \in Nat
    BY <2>2
  <2> QED
    BY <2>2, <2>3, TLSLetters
<1> QED
  BY <1>2, <1>3, <1>4, <1>5 DEF TypeOK, Judging

\* Every finding, score, letter and title of a report is of its kind: a score is
\* between 0 and 100 however many findings are charged to it.
THEOREM TypeCorrect == Spec => []TypeOK
BY Invariance, TypesFollow, PTL

-----------------------------------------------------------------------------
(***************************************************************************)
(* Certificates.                                                           *)
(***************************************************************************)
\* The findings with one of the given ids, and the others.
Among(ids, m) == {v \in Vulnerabilities(m) : v.id \in ids}
Besides(ids, m) == {v \in Vulnerabilities(m) : v.id \notin ids}

LEMMA PenaltySplits ==
  ASSUME NEW m \in Measurement, NEW ids
  PROVE  /\ IsFiniteSet(Among(ids, m)) /\ IsFiniteSet(Besides(ids, m))
         /\ Penalty(Among(ids, m)) \in Nat /\ Penalty(Besides(ids, m)) \in Nat
         /\ Penalty(Vulnerabilities(m)) = Penalty(Besides(ids, m)) + Penalty(Among(ids, m))
<1>1. IsFiniteSet(Vulnerabilities(m))
  BY VulnerabilitiesAreFinite
<1>2. IsFiniteSet(Among(ids, m)) /\ IsFiniteSet(Besides(ids, m))
  BY <1>1, FS_Subset DEF Among, Besides
<1>3. /\ Besides(ids, m) \cap Among(ids, m) = {}
      /\ Besides(ids, m) \cup Among(ids, m) = Vulnerabilities(m)
  BY DEF Among, Besides
<1>4. Penalty(Besides(ids, m) \cup Among(ids, m)) = Penalty(Besides(ids, m)) + Penalty(Among(ids, m))
  BY <1>2, <1>3, PenaltyAdds
<1> QED
  BY <1>2, <1>3, <1>4, PenaltyIsNat

\* A server with another certificate.
With(m, c) == [m EXCEPT !.cert = c]

\* Certificates with the same key and the same signature have the same findings,
\* but for those about window, chain and name.
LEMMA BesidesTheCertificate ==
  ASSUME NEW m \in Measurement, NEW c \in Certificate, NEW d \in Certificate,
         c.key = d.key, c.bits = d.bits, c.sig = d.sig,
         NEW ids, ids \subseteq WindowIds \cup ChainIds \cup {"CERT_NAME_MISMATCH"},
         ChainIds \subseteq ids,
         \/ WindowIds \cup {"CERT_NAME_MISMATCH"} \subseteq ids
         \/ c.hours = d.hours /\ c.notYetValid = d.notYetValid /\ c.name = d.name,
         NEW v
  PROVE  v \in Besides(ids, With(m, c)) => v \in Besides(ids, With(m, d))
<1> SUFFICES ASSUME v \in Vulnerabilities(With(m, c)), v.id \notin ids
             PROVE  v \in Vulnerabilities(With(m, d))
  BY DEF Besides
<1>1. /\ With(m, c).versions = m.versions /\ With(m, c).suites = m.suites /\ With(m, c).cert = c
      /\ With(m, d).versions = m.versions /\ With(m, d).suites = m.suites /\ With(m, d).cert = d
  BY DEF With, Measurement
<1>2. c # NoCertificate /\ d # NoCertificate
  BY DEF Certificate, NoCertificate
<1>3. ASSUME v \in CertificateFindings(c)
      PROVE  v \in CertificateFindings(d)
  <2>1. CASE v \in WindowFindings(c)
    <3>1. v.id \in WindowIds
      BY <2>1, InWindowFindings DEF WindowIds, Note
    <3>2. c.hours = d.hours /\ c.notYetValid = d.notYetValid
      BY <3>1
    <3>3. v \in WindowFindings(d)
      BY <2>1, <3>2, InWindowFindings DEF Expired, DaysUntilExpiry
    <3> QED
      BY <3>3, InCertificateFindings
  <2>2. CASE v \in ChainFindings(c)
    <3>1. v.id \in ChainIds
      BY <2>2, InChainFindings DEF ChainIds, Note
    <3> QED
      BY <3>1
  <2>3. CASE c.name = "failed" /\ v = Note("CERT_NAME_MISMATCH", << >>, "HIGH")
    <3>1. v.id = "CERT_NAME_MISMATCH"
      BY <2>3 DEF Note
    <3> QED
      BY <2>3, <3>1, InCertificateFindings
  <2>4. CASE c.sig \in {"SHA1", "MD5"} /\ v = Note("CERT_WEAK_SIG", << >>, "HIGH")
    BY <2>4, InCertificateFindings
  <2>5. CASE c.key = "RSA" /\ c.bits < 2048 /\ v = Note("CERT_WEAK_KEY", << >>, "HIGH")
    <3>1. d.key = "RSA" /\ d.bits < 2048
      BY <2>5
    <3>2. v = Note("CERT_WEAK_KEY", << >>, "HIGH")
      BY <2>5
    <3> QED
      BY <3>1, <3>2, InCertificateFindings
  <2> QED
    BY <1>3, <2>1, <2>2, <2>3, <2>4, <2>5, InCertificateFindings
<1> QED
  BY <1>1, <1>2, <1>3, InVulnerabilities

LEMMA AmongTheChain ==
  ASSUME NEW m \in Measurement, m.cert \in Certificate
  PROVE  Among(ChainIds, m) = ChainFindings(m.cert)
<1>1. m.cert # NoCertificate
  BY DEF Certificate, NoCertificate
<1>2. ASSUME NEW v \in ChainFindings(m.cert)
      PROVE  v \in Among(ChainIds, m)
  <2>1. v.id \in ChainIds
    BY InChainFindings DEF ChainIds, Note
  <2>2. v \in CertificateFindings(m.cert)
    BY InCertificateFindings
  <2> QED
    BY <1>1, <2>1, <2>2, InVulnerabilities DEF Among
<1>3. ASSUME NEW v \in Among(ChainIds, m)
      PROVE  v \in ChainFindings(m.cert)
  <2>1. v.id \in ChainIds /\ v \in Vulnerabilities(m)
    BY DEF Among
  <2>2. v \notin ProtocolFindings(m.versions)
    BY <2>1, InProtocolFindings DEF ChainIds, Note
  <2>3. \A s \in m.suites : v \notin SuiteFindings(s)
    BY <2>1, InSuiteFindings DEF ChainIds, Note
  <2>4. v \in CertificateFindings(m.cert)
    BY <2>1, <2>2, <2>3, InVulnerabilities
  <2>5. v \notin WindowFindings(m.cert)
    BY <2>1, InWindowFindings DEF ChainIds, Note
  <2>6. v.id \notin {"CERT_NAME_MISMATCH", "CERT_WEAK_SIG", "CERT_WEAK_KEY"}
    BY <2>1 DEF ChainIds
  <2>7. /\ Note("CERT_NAME_MISMATCH", << >>, "HIGH").id = "CERT_NAME_MISMATCH"
        /\ Note("CERT_WEAK_SIG", << >>, "HIGH").id = "CERT_WEAK_SIG"
        /\ Note("CERT_WEAK_KEY", << >>, "HIGH").id = "CERT_WEAK_KEY"
    BY DEF Note
  <2> QED
    BY <2>4, <2>5, <2>6, <2>7, InCertificateFindings
<1> QED
  BY <1>2, <1>3

\* A server with a certificate that changes in nothing but its issuer's name.
LEMMA SelfDescriptionScores ==
  ASSUME NEW m \in Measurement, NEW cfg \in Config, NEW c \in Certificate, NEW d \in Certificate,
         d = [c EXCEPT !.selfSigned = TRUE], c.selfSigned = FALSE
  PROVE  /\ Score(With(m, d), cfg) <= Score(With(m, c), cfg)
         /\ c.chain = "failed" => Score(With(m, d), cfg) = Score(With(m, c), cfg)
<1> DEFINE named == With(m, d)
           plain == With(m, c)
<1>0. /\ d.hours = c.hours /\ d.notYetValid = c.notYetValid /\ d.name = c.name /\ d.chain = c.chain
      /\ d.key = c.key /\ d.bits = c.bits /\ d.sig = c.sig /\ d.selfSigned = TRUE
  BY DEF Certificate
<1>1. /\ named \in Measurement /\ plain \in Measurement
      /\ named.cert = d /\ plain.cert = c /\ named.versions = plain.versions
      /\ named.suites = plain.suites /\ named.groups = plain.groups
  BY DEF With, Measurement
<1>2. c # NoCertificate /\ d # NoCertificate
  BY DEF Certificate, NoCertificate
<1>3. Refused(c) <=> Refused(d)
  BY <1>0 DEF Refused, Expired
<1>4. /\ ScoreCertificate(d) <= ScoreCertificate(c)
      /\ c.chain = "failed" => ScoreCertificate(d) = 0 /\ ScoreCertificate(c) = 0
  <2>1. CASE Refused(c)
    BY <1>2, <1>3, <2>1 DEF ScoreCertificate
  <2>2. CASE ~Refused(c)
    <3> DEFINE raw == 15 + Points(5, DaysUntilExpiry(c) > 30)
                        + (IF c.key = "RSA" THEN Points(3, c.bits >= 2048) + Points(2, c.bits >= 4096)
                                            ELSE Points(5, c.key = "ECDSA"))
                        + Points(5, c.sig \in {"SHA256", "SHA384"}) - Points(10, c.sig \in {"SHA1", "MD5"})
    <3>1. raw \in Int
      <4>1. \A b, n : n \in Int => Points(n, b) \in Int
        BY DEF Points
      <4> QED
        BY <4>1
    <3>2. ScoreCertificate(c) = Clamp(0, raw - 0, 25)
      BY <1>2, <2>2 DEF ScoreCertificate, Points
    <3>3. DaysUntilExpiry(d) = DaysUntilExpiry(c)
      BY <1>0 DEF DaysUntilExpiry
    <3>4. ScoreCertificate(d) = Clamp(0, raw - 5, 25)
      BY <1>0, <1>2, <1>3, <2>2, <3>3 DEF ScoreCertificate, Points
    <3>5. c.chain # "failed"
      BY <2>2 DEF Refused
    <3> HIDE DEF raw
    <3>6. raw - 5 \in Int /\ raw - 0 \in Int /\ raw - 5 <= raw - 0
      BY <3>1
    <3>7. Clamp(0, raw - 5, 25) <= Clamp(0, raw - 0, 25)
      BY <3>6, ClampIsMonotone
    <3> QED
      BY <3>2, <3>4, <3>5, <3>7
  <2> QED
    BY <2>1, <2>2
<1>5. /\ RawPoints(named, cfg) <= RawPoints(plain, cfg)
      /\ c.chain = "failed" => RawPoints(named, cfg) = RawPoints(plain, cfg)
  <2>1. /\ ScoreProtocols(plain.versions) \in Int /\ ScoreCiphers(plain.suites) \in Int
        /\ ScoreCertificate(c) \in Int /\ ScoreCertificate(d) \in Int
    BY <1>1, FactorsAreBounded
  <2>2. HasHybrid(named) <=> HasHybrid(plain)
    BY <1>1 DEF HasHybrid
  <2> HIDE DEF named, plain
  <2> QED
    BY <1>1, <1>4, <2>1, <2>2 DEF RawPoints
<1>6. /\ Penalty(Vulnerabilities(plain)) <= Penalty(Vulnerabilities(named))
      /\ c.chain = "failed" => Penalty(Vulnerabilities(plain)) = Penalty(Vulnerabilities(named))
  <2>1. Besides(ChainIds, named) = Besides(ChainIds, plain)
    <3>1. \A v : v \in Besides(ChainIds, named) => v \in Besides(ChainIds, plain)
      BY <1>0, BesidesTheCertificate
    <3>2. \A v : v \in Besides(ChainIds, plain) => v \in Besides(ChainIds, named)
      BY <1>0, BesidesTheCertificate
    <3>3. \A v : v \in Besides(ChainIds, plain) <=> v \in Besides(ChainIds, named)
      BY <3>1, <3>2
    <3> QED
      BY <3>3 DEF Besides
  <2>2. Among(ChainIds, named) = ChainFindings(d) /\ Among(ChainIds, plain) = ChainFindings(c)
    BY <1>1, AmongTheChain
  <2>3. /\ Penalty(ChainFindings(c)) <= Penalty(ChainFindings(d))
        /\ c.chain = "failed" => Penalty(ChainFindings(c)) = Penalty(ChainFindings(d))
    <3>1. CASE c.chain = "failed"
      <4> DEFINE mild == Note("CERT_CHAIN_UNTRUSTED", <<"failed">>, "HIGH")
                 self == Note("CERT_SELF_SIGNED", <<"failed">>, "HIGH")
      <4>1. ChainFindings(c) = {mild} /\ ChainFindings(d) = {self}
        BY <1>0, <3>1 DEF ChainFindings, Found, Note
      <4>2. mild.severity = "HIGH" /\ self.severity = "HIGH"
        BY DEF Note
      <4> HIDE DEF mild, self
      <4>3. Penalty({mild}) = 15 /\ Penalty({self}) = 15
        BY <4>2, PenaltyOne DEF Severities, PenaltyPoints
      <4>4. Penalty(ChainFindings(c)) = 15 /\ Penalty(ChainFindings(d)) = 15
        BY <4>1, <4>3, Zenon
      <4> QED
        BY <4>4
    <3>2. CASE c.chain # "failed"
      <4>1. ChainFindings(c) = {}
        BY <3>2 DEF ChainFindings, Found
      <4>2. Penalty(ChainFindings(c)) = 0
        BY <4>1, PenaltyNone
      <4>3. Penalty(ChainFindings(d)) \in Nat
        BY <1>1, <2>2, PenaltySplits
      <4> QED
        BY <3>2, <4>2, <4>3
    <3> QED
      BY <3>1, <3>2
  <2>4. /\ Penalty(Vulnerabilities(named)) = Penalty(Besides(ChainIds, named)) + Penalty(ChainFindings(d))
        /\ Penalty(Vulnerabilities(plain)) = Penalty(Besides(ChainIds, named)) + Penalty(ChainFindings(c))
        /\ Penalty(Besides(ChainIds, named)) \in Nat
        /\ Penalty(ChainFindings(c)) \in Nat /\ Penalty(ChainFindings(d)) \in Nat
    BY <1>1, <2>1, <2>2, PenaltySplits
  <2> QED
    BY <2>3, <2>4
<1>7. /\ Penalty(FindingsUnder(plain, cfg)) <= Penalty(FindingsUnder(named, cfg))
      /\ c.chain = "failed" => Penalty(FindingsUnder(plain, cfg)) = Penalty(FindingsUnder(named, cfg))
  BY <1>6, PenaltyNone DEF FindingsUnder
<1>8. Score(named, cfg) <= Score(plain, cfg)
  BY <1>1, <1>5, <1>7, ScoreIsMonotone
<1>9. c.chain = "failed" => Score(named, cfg) = Score(plain, cfg)
  BY <1>1, <1>5, <1>7, ScoreIsGradeUnder, GradeComesTo
<1> QED
  BY <1>8, <1>9

LEMMA SelfDescriptionFollows ==
  ASSUME AsJudged
  PROVE  SelfDescriptionBuysNothing
<1> SUFFICES ASSUME Judged, HasCertificate
             PROVE  LET renamed(self) == [measured EXCEPT !.cert.selfSigned = self]
                    IN  /\ Score(renamed(TRUE), config) <= Score(renamed(FALSE), config)
                        /\ measured.cert.chain = "failed" =>
                             Score(renamed(TRUE), config) = Score(renamed(FALSE), config)
  BY DEF SelfDescriptionBuysNothing
<1> DEFINE c == [measured.cert EXCEPT !.selfSigned = FALSE]
           d == [measured.cert EXCEPT !.selfSigned = TRUE]
<1>1. measured \in Measurement /\ config \in Config /\ measured.cert \in Certificate
  BY DEF AsJudged, Measurement, HasCertificate
<1>2. /\ c \in Certificate /\ d \in Certificate /\ c.selfSigned = FALSE
      /\ d = [c EXCEPT !.selfSigned = TRUE] /\ c.chain = measured.cert.chain
  BY <1>1 DEF Certificate
<1>3. /\ [measured EXCEPT !.cert.selfSigned = TRUE] = With(measured, d)
      /\ [measured EXCEPT !.cert.selfSigned = FALSE] = With(measured, c)
  BY <1>1 DEF With, Measurement
<1> HIDE DEF c, d
<1>4. /\ Score(With(measured, d), config) <= Score(With(measured, c), config)
      /\ c.chain = "failed" => Score(With(measured, d), config) = Score(With(measured, c), config)
  BY <1>1, <1>2, SelfDescriptionScores
<1> QED
  BY <1>2, <1>3, <1>4

\* Naming itself as its issuer never raises a certificate's score.
THEOREM SelfDescriptionIsWorthless == Spec => []SelfDescriptionBuysNothing
<1>1. Judging => SelfDescriptionBuysNothing
  BY SelfDescriptionFollows DEF Judging
<1> QED
  BY <1>1, Invariance, PTL

\* What a certificate with another window, chain and name costs and earns.
LEMMA SeriousFindings ==
  ASSUME NEW c \in Certificate, RefusedByClients(c)
  PROVE  \E v \in CertificateFindings(c) : v.severity \in {"CRITICAL", "HIGH"}
<1>1. /\ Note("CERT_EXPIRED", << >>, "CRITICAL").severity = "CRITICAL"
      /\ Note("CERT_NOT_YET_VALID", << >>, "CRITICAL").severity = "CRITICAL"
      /\ Note("CERT_NAME_MISMATCH", << >>, "HIGH").severity = "HIGH"
      /\ Note("CERT_SELF_SIGNED", <<"failed">>, "HIGH").severity = "HIGH"
      /\ Note("CERT_CHAIN_UNTRUSTED", <<"failed">>, "HIGH").severity = "HIGH"
  BY DEF Note
<1>2. CASE Expired(c)
  <2>1. Note("CERT_EXPIRED", << >>, "CRITICAL") \in CertificateFindings(c)
    BY <1>2, InWindowFindings, InCertificateFindings
  <2> QED
    BY <1>1, <2>1
<1>3. CASE c.notYetValid
  <2>1. Note("CERT_NOT_YET_VALID", << >>, "CRITICAL") \in CertificateFindings(c)
    BY <1>3, InWindowFindings, InCertificateFindings
  <2> QED
    BY <1>1, <2>1
<1>4. CASE c.name = "failed"
  <2>1. Note("CERT_NAME_MISMATCH", << >>, "HIGH") \in CertificateFindings(c)
    BY <1>4, InCertificateFindings
  <2> QED
    BY <1>1, <2>1
<1>5. CASE c.chain = "failed"
  <2>1. \/ Note("CERT_SELF_SIGNED", <<"failed">>, "HIGH") \in ChainFindings(c)
        \/ Note("CERT_CHAIN_UNTRUSTED", <<"failed">>, "HIGH") \in ChainFindings(c)
    BY <1>5, InChainFindings
  <2> QED
    BY <1>1, <2>1, InCertificateFindings
<1> QED
  BY <1>2, <1>3, <1>4, <1>5 DEF RefusedByClients, Expired

\* Repairing a refused certificate never costs points.
LEMMA RepairPays ==
  ASSUME NEW m \in Measurement, NEW cfg \in Config, NEW c \in Certificate, NEW d \in Certificate,
         d.hours = 2000, ~d.notYetValid, d.name = "passed", d.chain = "passed",
         d.key = c.key, d.bits = c.bits, d.sig = c.sig, d.selfSigned = c.selfSigned,
         RefusedByClients(c)
  PROVE  /\ ScoreCertificate(c) = 0
         /\ Score(With(m, c), cfg) <= Score(With(m, d), cfg)
<1> DEFINE broken == With(m, c)
           repaired == With(m, d)
           ids == WindowIds \cup ChainIds \cup {"CERT_NAME_MISMATCH"}
           self == Note("CERT_SELF_SIGNED", <<"passed">>, "MEDIUM")
<1>1. /\ broken \in Measurement /\ repaired \in Measurement
      /\ broken.cert = c /\ repaired.cert = d /\ broken.versions = repaired.versions
      /\ broken.suites = repaired.suites /\ broken.groups = repaired.groups
  BY DEF With, Measurement
<1>2. c # NoCertificate /\ d # NoCertificate
  BY DEF Certificate, NoCertificate
<1>3. ScoreCertificate(c) = 0
  BY <1>2 DEF ScoreCertificate, RefusedByClients, Refused, Expired
<1>4. RawPoints(broken, cfg) <= RawPoints(repaired, cfg)
  <2>1. /\ ScoreProtocols(broken.versions) \in Int /\ ScoreCiphers(broken.suites) \in Int
        /\ ScoreCertificate(d) \in 0..25
    BY <1>1, FactorsAreBounded
  <2>2. HasHybrid(broken) <=> HasHybrid(repaired)
    BY <1>1 DEF HasHybrid
  <2> HIDE DEF broken, repaired
  <2> QED
    BY <1>1, <1>3, <2>1, <2>2 DEF RawPoints
<1>5. Penalty(Vulnerabilities(repaired)) <= Penalty(Vulnerabilities(broken))
  <2>1. Besides(ids, broken) = Besides(ids, repaired)
    <3>1. /\ ids \subseteq WindowIds \cup ChainIds \cup {"CERT_NAME_MISMATCH"}
          /\ ChainIds \subseteq ids /\ WindowIds \cup {"CERT_NAME_MISMATCH"} \subseteq ids
      OBVIOUS
    <3> HIDE DEF ids
    <3>2. \A v : v \in Besides(ids, broken) => v \in Besides(ids, repaired)
      BY <3>1, BesidesTheCertificate
    <3>3. \A v : v \in Besides(ids, repaired) => v \in Besides(ids, broken)
      BY <3>1, BesidesTheCertificate
    <3>4. \A v : v \in Besides(ids, repaired) <=> v \in Besides(ids, broken)
      BY <3>2, <3>3
    <3> QED
      BY <3>4 DEF Besides
  <2>2. \A v : v \in Among(ids, repaired) => v = self /\ c.selfSigned
    <3> TAKE v
    <3> SUFFICES ASSUME v \in Vulnerabilities(repaired), v.id \in ids
                 PROVE  v = self /\ c.selfSigned
      BY DEF Among
    <3>1. v \notin ProtocolFindings(repaired.versions)
      BY InProtocolFindings DEF ChainIds, WindowIds, Note
    <3>2. \A s \in repaired.suites : v \notin SuiteFindings(s)
      BY InSuiteFindings DEF ChainIds, WindowIds, Note
    <3>3. v \in CertificateFindings(d)
      BY <1>1, <3>1, <3>2, InVulnerabilities
    <3>4. v \notin WindowFindings(d)
      <4>1. ~Expired(d) /\ DaysUntilExpiry(d) = 83
        BY DEF Expired, DaysUntilExpiry
      <4> QED
        BY <4>1, InWindowFindings
    <3>5. v.id \notin {"CERT_WEAK_SIG", "CERT_WEAK_KEY"}
      BY DEF ChainIds, WindowIds
    <3>6. /\ Note("CERT_WEAK_SIG", << >>, "HIGH").id = "CERT_WEAK_SIG"
          /\ Note("CERT_WEAK_KEY", << >>, "HIGH").id = "CERT_WEAK_KEY"
      BY DEF Note
    <3>7. v \in ChainFindings(d)
      BY <3>3, <3>4, <3>5, <3>6, InCertificateFindings
    <3> QED
      BY <3>7, InChainFindings
  <2>3. Penalty(Among(ids, repaired)) <= Penalty(Among(ids, broken))
    <3>1. IsFiniteSet(Among(ids, broken)) /\ Penalty(Among(ids, broken)) \in Nat
          /\ IsFiniteSet(Among(ids, repaired)) /\ Penalty(Among(ids, repaired)) \in Nat
      BY <1>1, PenaltySplits
    <3>2. CASE ~c.selfSigned
      <4>1. Among(ids, repaired) = {}
        BY <2>2, <3>2
      <4>2. Penalty(Among(ids, repaired)) = 0
        BY <4>1, PenaltyNone
      <4> QED
        BY <3>1, <4>2
    <3>3. CASE c.selfSigned
      <4>1. Penalty(Among(ids, repaired)) <= 5
        <5>1. self.severity = "MEDIUM"
          BY DEF Note
        <5>2. \A v \in Among(ids, repaired) : v \in {self}
          BY <2>2
        <5> HIDE DEF self, ids, repaired
        <5>5. Among(ids, repaired) \in SUBSET {self}
          BY <5>2
        <5>6. IsFiniteSet({self})
          BY FS_Singleton
        <5>3. Penalty({self}) = 5
          BY <5>1, PenaltyOne DEF Severities, PenaltyPoints
        <5>4. Penalty(Among(ids, repaired)) <= Penalty({self})
          BY <5>5, <5>6, PenaltyGrows
        <5> QED
          BY <5>3, <5>4
      <4>2. PICK w \in ChainFindings(c) : w.id = "CERT_SELF_SIGNED" /\ w.severity \in {"HIGH", "MEDIUM"}
        <5> DEFINE bad == Note("CERT_SELF_SIGNED", <<"failed">>, "HIGH")
                   mild == Note("CERT_SELF_SIGNED", <<c.chain>>, "MEDIUM")
        <5>1. /\ bad.id = "CERT_SELF_SIGNED" /\ bad.severity = "HIGH"
              /\ mild.id = "CERT_SELF_SIGNED" /\ mild.severity = "MEDIUM"
          BY DEF Note
        <5>2. bad \in ChainFindings(c) \/ mild \in ChainFindings(c)
          BY <3>3, InChainFindings
        <5> HIDE DEF bad, mild
        <5> QED
          BY <5>1, <5>2
      <4>3. w \in Among(ids, broken)
        <5>1. w \in Vulnerabilities(broken)
          BY <1>1, <1>2, InVulnerabilities, InCertificateFindings
        <5> QED
          BY <4>2, <5>1 DEF Among, ChainIds
      <4>4. Penalty({w}) >= 5
        BY <4>2, PenaltyOne DEF Severities, PenaltyPoints
      <4>5. Penalty({w}) <= Penalty(Among(ids, broken))
        <5>1. {w} \in SUBSET Among(ids, broken)
          BY <4>3
        <5> QED
          BY <3>1, <5>1, PenaltyGrows
      <4>6. Penalty({w}) \in Nat
        <5>1. IsFiniteSet({w})
          BY FS_Singleton
        <5> QED
          BY <5>1, PenaltyIsNat
      <4> QED
        BY <3>1, <4>1, <4>4, <4>5, <4>6
    <3> QED
      BY <3>2, <3>3
  <2>4. /\ Penalty(Vulnerabilities(broken)) = Penalty(Besides(ids, broken)) + Penalty(Among(ids, broken))
        /\ Penalty(Vulnerabilities(repaired)) = Penalty(Besides(ids, broken)) + Penalty(Among(ids, repaired))
        /\ Penalty(Besides(ids, broken)) \in Nat
        /\ Penalty(Among(ids, broken)) \in Nat /\ Penalty(Among(ids, repaired)) \in Nat
    BY <1>1, <2>1, PenaltySplits
  <2> QED
    BY <2>3, <2>4
<1>6. Penalty(FindingsUnder(repaired, cfg)) <= Penalty(FindingsUnder(broken, cfg))
  BY <1>5, PenaltyNone DEF FindingsUnder
<1>7. Score(broken, cfg) <= Score(repaired, cfg)
  BY <1>1, <1>4, <1>6, ScoreIsMonotone
<1> QED
  BY <1>3, <1>7

LEMMA RepairedIs ==
  ASSUME NEW c \in Certificate
  PROVE  LET d == Repaired(c)
         IN  /\ d \in Certificate /\ d.hours = 2000 /\ ~d.notYetValid /\ d.name = "passed" /\ d.chain = "passed"
             /\ d.key = c.key /\ d.bits = c.bits /\ d.sig = c.sig /\ d.selfSigned = c.selfSigned
<1> DEFINE later == [c EXCEPT !.hours = 2000]
           begun == [later EXCEPT !.notYetValid = FALSE]
           named == [begun EXCEPT !.name = "passed"]
           linked == [named EXCEPT !.chain = "passed"]
<1>1. Repaired(c) = linked
  BY DEF Repaired, Certificate
<1>2. /\ later \in Certificate /\ later.hours = 2000 /\ later.key = c.key /\ later.bits = c.bits
      /\ later.sig = c.sig /\ later.selfSigned = c.selfSigned
  BY DEF Certificate
<1> HIDE DEF later
<1>3. /\ begun \in Certificate /\ begun.hours = 2000 /\ ~begun.notYetValid /\ begun.key = c.key
      /\ begun.bits = c.bits /\ begun.sig = c.sig /\ begun.selfSigned = c.selfSigned
  <2>0. later \in Certificate
    BY <1>2
  <2>1. begun \in Certificate
    BY <2>0 DEF Certificate
  <2>4. begun.hours = 2000 /\ begun.key = c.key /\ begun.bits = c.bits
    BY <1>2 DEF Certificate
  <2>2. begun.sig = c.sig /\ begun.selfSigned = c.selfSigned
    BY <1>2 DEF Certificate
  <2>3. begun.notYetValid = FALSE
    BY <1>2 DEF Certificate
  <2> QED
    BY <2>1, <2>2, <2>3, <2>4
<1> HIDE DEF begun
<1>4. /\ named \in Certificate /\ named.hours = 2000 /\ ~named.notYetValid /\ named.name = "passed"
      /\ named.key = c.key /\ named.bits = c.bits /\ named.sig = c.sig /\ named.selfSigned = c.selfSigned
  BY <1>3 DEF Certificate, Check
<1> HIDE DEF named
<1>5. /\ linked \in Certificate /\ linked.hours = 2000 /\ ~linked.notYetValid /\ linked.name = "passed"
      /\ linked.chain = "passed" /\ linked.key = c.key /\ linked.bits = c.bits /\ linked.sig = c.sig
      /\ linked.selfSigned = c.selfSigned
  BY <1>4 DEF Certificate, Check
<1> QED
  BY <1>1, <1>5

LEMMA RefusedFollows ==
  ASSUME AsJudged
  PROVE  RefusedCertificateIsExposed
<1> SUFFICES ASSUME Judged, HasCertificate, RefusedByClients(measured.cert)
             PROVE  /\ grade.factors["certificate"] = 0
                    /\ config.checkVulns =>
                         \E v \in CertificateFindings(measured.cert) \cap vulns :
                           v.severity \in {"CRITICAL", "HIGH"}
                    /\ Score([measured EXCEPT !.cert = Repaired(@)], config) >= grade.score
  BY DEF RefusedCertificateIsExposed
<1> DEFINE c == measured.cert
           d == Repaired(c)
<1>1. measured \in Measurement /\ config \in Config /\ c \in Certificate
  BY DEF AsJudged, Measurement, HasCertificate
<1>2. /\ d \in Certificate /\ d.hours = 2000 /\ ~d.notYetValid /\ d.name = "passed" /\ d.chain = "passed"
      /\ d.key = c.key /\ d.bits = c.bits /\ d.sig = c.sig /\ d.selfSigned = c.selfSigned
  BY <1>1, RepairedIs
<1>3. /\ [measured EXCEPT !.cert = Repaired(@)] = With(measured, d)
      /\ With(measured, c) = measured
  BY <1>1 DEF With, Measurement
<1>4. ScoreCertificate(c) = 0 /\ Score(With(measured, c), config) <= Score(With(measured, d), config)
  <2> HIDE DEF c, d
  <2> QED
    BY <1>1, <1>2, RepairPays DEF c
<1>5. grade = GradeUnder(measured, config)
  BY DEF AsJudged, GradeFollows, Judged
<1>6. grade.factors["certificate"] = 0
  BY <1>1, <1>4, <1>5, GradeHas
<1>7. grade.score \in 0..100 /\ grade.score = Score(measured, config)
  BY <1>1, <1>5, GradeHas, ScoreIsGradeUnder
<1>8. With(measured, d) \in Measurement
  BY <1>1, <1>2 DEF With, Measurement
<1>9. Score(With(measured, d), config) \in 0..100
  BY <1>1, <1>8, GradeHas, ScoreIsGradeUnder
<1>10. Score(With(measured, d), config) >= grade.score
  BY <1>3, <1>4, <1>7, <1>9
<1>11. ASSUME config.checkVulns
       PROVE  \E v \in CertificateFindings(measured.cert) \cap vulns : v.severity \in {"CRITICAL", "HIGH"}
  <2>1. vulns = Vulnerabilities(measured)
    BY <1>11 DEF AsJudged, FindingsFollow, FindingsUnder, Judged
  <2>2. \A v \in CertificateFindings(c) : v \in vulns
    BY <2>1, InVulnerabilities DEF HasCertificate
  <2> QED
    BY <1>1, <2>2, SeriousFindings
<1> QED
  BY <1>3, <1>6, <1>10, <1>11

\* A certificate that clients refuse earns nothing, has a serious finding, and
\* is worth repairing.
THEOREM RefusalIsExposed == Spec => []RefusedCertificateIsExposed
<1>1. Judging => RefusedCertificateIsExposed
  BY RefusedFollows DEF Judging
<1> QED
  BY <1>1, Invariance, PTL

-----------------------------------------------------------------------------
(***************************************************************************)
(* A server that becomes weaker.                                           *)
(***************************************************************************)
LEMMA OldVersionsCost ==
  ASSUME NEW versions, NEW v \in {"TLS1.0", "TLS1.1"}
  PROVE  ScoreProtocols(versions \cup {v}) <= ScoreProtocols(versions)
<1> DEFINE base == IF "TLS1.3" \in versions THEN 25 ELSE Points(10, "TLS1.2" \in versions)
           few == base - Points(5, "TLS1.1" \in versions) - Points(10, "TLS1.0" \in versions)
           more == base - Points(5, "TLS1.1" \in versions \cup {v}) - Points(10, "TLS1.0" \in versions \cup {v})
<1>1. few \in Int /\ more \in Int /\ more <= few
  BY DEF Points
<1>2. ScoreProtocols(versions) = Clamp(0, few, 25)
  BY DEF ScoreProtocols
<1>3. ScoreProtocols(versions \cup {v}) = Clamp(0, more, 25)
  BY DEF ScoreProtocols
<1> HIDE DEF few, more
<1> QED
  BY <1>1, <1>2, <1>3, ClampIsMonotone

LEMMA WeakSuitesCost ==
  ASSUME NEW suites \in SUBSET Suite, suites # {}, NEW s \in Suite, Weaker(s, suites)
  PROVE  ScoreCiphers(suites \cup {s}) <= ScoreCiphers(suites)
<1>0. /\ ScoreCiphers(suites) \in 0..25
      /\ \A x : Bits(x) \in {128, 168, 256}
  <2> DEFINE m == [versions |-> {}, suites |-> suites, groups |-> {}, cert |-> NoCertificate]
             cfg == [checkVulns |-> FALSE, checkQuantum |-> FALSE]
  <2>1. m \in Measurement /\ cfg \in Config /\ m.suites = suites
    BY DEF Measurement, Config
  <2>2. ScoreCiphers(m.suites) \in 0..25
    <3> HIDE DEF m, cfg
    <3> QED
      BY <2>1, FactorsAreBounded
  <2> QED
    BY <2>1, <2>2 DEF Bits
<1>1. CASE \E x \in suites \cup {s} : Deprecated(x)
  <2>1. ScoreCiphers(suites \cup {s}) = 0
    BY <1>1 DEF ScoreCiphers
  <2> QED
    BY <1>0, <2>1
<1>2. CASE \A x \in suites \cup {s} : ~Deprecated(x)
  <2>1. PICK y \in suites : ~ForwardSecrecy(s) /\ Bits(y) >= Bits(s)
    BY <1>2 DEF Weaker
  <2> DEFINE C(S) == IF \E x \in S : ~ForwardSecrecy(x) THEN 10 ELSE 0
             B(S) == IF \A x \in S : Bits(x) < 256 THEN 5 ELSE 0
             both == suites \cup {s}
  <2>2. ScoreCiphers(suites) = Clamp(0, 25 - C(suites) - 0 - B(suites), 25)
    <3>1. ~(\E x \in suites : Bits(x) > 0 /\ Bits(x) < 128) /\ ~(suites = {} \/ \E x \in suites : Deprecated(x))
      BY <1>0, <1>2
    <3> QED
      BY <3>1 DEF ScoreCiphers, Points
  <2>3. ScoreCiphers(both) = Clamp(0, 25 - C(both) - 0 - B(both), 25)
    <3>1. ~(\E x \in both : Bits(x) > 0 /\ Bits(x) < 128) /\ ~(both = {} \/ \E x \in both : Deprecated(x))
      BY <1>0, <1>2
    <3> HIDE DEF both
    <3> QED
      BY <3>1 DEF ScoreCiphers, Points
  <2>4. C(both) = 10 /\ C(suites) \in {0, 10}
    BY <2>1
  <2>5. B(both) \in {0, 5} /\ B(suites) \in {0, 5} /\ (B(suites) = 5 => B(both) = 5)
    <3>1. (\A x \in suites : Bits(x) < 256) => \A x \in both : Bits(x) < 256
      BY <1>0, <2>1
    <3> QED
      BY <3>1
  <2> HIDE DEF B, C, both
  <2>6. /\ 25 - C(both) - 0 - B(both) \in Int /\ 25 - C(suites) - 0 - B(suites) \in Int
        /\ 25 - C(both) - 0 - B(both) <= 25 - C(suites) - 0 - B(suites)
    BY <2>4, <2>5
  <2>7. Clamp(0, 25 - C(both) - 0 - B(both), 25) <= Clamp(0, 25 - C(suites) - 0 - B(suites), 25)
    BY <2>6, ClampIsMonotone
  <2>8. both = suites \cup {s}
    BY DEF both
  <2> QED
    BY <2>2, <2>3, <2>7, <2>8
<1> QED
  BY <1>1, <1>2

\* One more old version, or one more suite, is one more cause for findings.
LEMMA MoreIsFound ==
  ASSUME NEW m \in Measurement, NEW n \in Measurement, n.cert = m.cert,
         m.suites \subseteq n.suites, m.versions \subseteq n.versions,
         "TLS1.3" \in n.versions => "TLS1.3" \in m.versions,
         NEW cfg \in Config
  PROVE  Penalty(FindingsUnder(m, cfg)) <= Penalty(FindingsUnder(n, cfg))
<1>1. \A v : v \in ProtocolFindings(m.versions) => v \in ProtocolFindings(n.versions)
  <2> TAKE v
  <2> HAVE v \in ProtocolFindings(m.versions)
  <2> QED
    BY InProtocolFindings
<1>2. \A v : v \in Vulnerabilities(m) => v \in Vulnerabilities(n)
  BY <1>1, InVulnerabilities
<1>3. FindingsUnder(m, cfg) \in SUBSET FindingsUnder(n, cfg)
  BY <1>2 DEF FindingsUnder
<1> QED
  BY <1>3, FindingsUnderAreFinite, PenaltyGrows

LEMMA WeakerFollows ==
  ASSUME AsJudged
  PROVE  WeakerNeverHelps
<1> SUFFICES ASSUME Judged
             PROVE  /\ \A v \in {"TLS1.0", "TLS1.1"} :
                         Score([measured EXCEPT !.versions = @ \cup {v}], config) <= grade.score
                    /\ measured.suites # {} =>
                         \A s \in {x \in Suite : Weaker(x, measured.suites)} :
                           Score([measured EXCEPT !.suites = @ \cup {s}], config) <= grade.score
  BY DEF WeakerNeverHelps
<1>1. measured \in Measurement /\ config \in Config
  BY DEF AsJudged
<1>2. grade.score = Score(measured, config)
  BY ScoreIsGradeUnder DEF AsJudged, GradeFollows, Judged
<1>3. ASSUME NEW n \in Measurement, n.cert = measured.cert, n.groups = measured.groups,
             measured.suites \subseteq n.suites, measured.versions \subseteq n.versions,
             "TLS1.3" \in n.versions => "TLS1.3" \in measured.versions,
             ScoreProtocols(n.versions) <= ScoreProtocols(measured.versions),
             ScoreCiphers(n.suites) <= ScoreCiphers(measured.suites)
      PROVE  Score(n, config) <= grade.score
  <2>1. Penalty(FindingsUnder(measured, config)) <= Penalty(FindingsUnder(n, config))
    BY <1>1, <1>3, MoreIsFound
  <2>2. RawPoints(n, config) <= RawPoints(measured, config)
    <3>1. /\ ScoreProtocols(n.versions) \in Int /\ ScoreProtocols(measured.versions) \in Int
          /\ ScoreCiphers(n.suites) \in Int /\ ScoreCiphers(measured.suites) \in Int
          /\ ScoreCertificate(measured.cert) \in Int
      BY <1>1, FactorsAreBounded
    <3>2. HasHybrid(n) <=> HasHybrid(measured)
      BY <1>3 DEF HasHybrid
    <3> QED
      BY <1>3, <3>1, <3>2 DEF RawPoints
  <2> QED
    BY <1>1, <1>2, <2>1, <2>2, ScoreIsMonotone
<1>4. ASSUME NEW v \in {"TLS1.0", "TLS1.1"}
      PROVE  Score([measured EXCEPT !.versions = @ \cup {v}], config) <= grade.score
  <2> DEFINE n == [measured EXCEPT !.versions = @ \cup {v}]
  <2>1. /\ n \in Measurement /\ n.cert = measured.cert /\ n.groups = measured.groups
        /\ n.suites = measured.suites /\ n.versions = measured.versions \cup {v}
    BY <1>1 DEF Measurement, VersionNames
  <2>2. ScoreProtocols(n.versions) <= ScoreProtocols(measured.versions)
    BY <2>1, OldVersionsCost
  <2>3. ScoreCiphers(n.suites) \in Int
    BY <1>1, <2>1, FactorsAreBounded
  <2> HIDE DEF n
  <2>4. /\ measured.suites \subseteq n.suites /\ measured.versions \subseteq n.versions
        /\ "TLS1.3" \in n.versions => "TLS1.3" \in measured.versions
        /\ ScoreCiphers(n.suites) <= ScoreCiphers(measured.suites)
    BY <2>1, <2>3
  <2>5. Score(n, config) <= grade.score
    BY <1>3, <2>1, <2>2, <2>4
  <2> QED
    BY <2>5 DEF n
<1>5. ASSUME measured.suites # {}, NEW s \in {x \in Suite : Weaker(x, measured.suites)}
      PROVE  Score([measured EXCEPT !.suites = @ \cup {s}], config) <= grade.score
  <2> DEFINE n == [measured EXCEPT !.suites = @ \cup {s}]
  <2>1. /\ n \in Measurement /\ n.cert = measured.cert /\ n.groups = measured.groups
        /\ n.versions = measured.versions /\ n.suites = measured.suites \cup {s}
    BY <1>1 DEF Measurement
  <2>2. ScoreCiphers(n.suites) <= ScoreCiphers(measured.suites)
    <3>1. measured.suites \in SUBSET Suite
      BY <1>1 DEF Measurement
    <3> QED
      BY <1>5, <2>1, <3>1, WeakSuitesCost
  <2>3. ScoreProtocols(n.versions) \in Int
    BY <1>1, <2>1, FactorsAreBounded
  <2> HIDE DEF n
  <2>4. /\ measured.suites \subseteq n.suites /\ measured.versions \subseteq n.versions
        /\ "TLS1.3" \in n.versions => "TLS1.3" \in measured.versions
        /\ ScoreProtocols(n.versions) <= ScoreProtocols(measured.versions)
    BY <2>1, <2>3
  <2>5. Score(n, config) <= grade.score
    BY <1>3, <2>1, <2>2, <2>4
  <2> QED
    BY <2>5 DEF n
<1> QED
  BY <1>4, <1>5

\* Accepting an old version or a weaker suite never raises a server's score.
THEOREM WeaknessIsWorthless == Spec => []WeakerNeverHelps
<1>1. Judging => WeakerNeverHelps
  BY WeakerFollows DEF Judging
<1> QED
  BY <1>1, Invariance, PTL

-----------------------------------------------------------------------------
(***************************************************************************)
(* What was skipped, and what was said.                                    *)
(***************************************************************************)
LEMMA SkippedFollows ==
  ASSUME AsJudged
  PROVE  SkippedChecksAreDisclosed
<1> DEFINE all == [checkVulns |-> TRUE, checkQuantum |-> TRUE]
<1> SUFFICES ASSUME Judged
             PROVE  /\ grade.score # Score(measured, all) => ~grade.vulnerabilitiesAssessed \/ grade.skipped # {}
                    /\ grade.skipped = {} => grade.score >= Score(measured, all)
                    /\ ~config.checkQuantum => grade.skipped # {} /\ grade.quantumGrade = "not_assessed"
  BY DEF SkippedChecksAreDisclosed
<1>1. measured \in Measurement /\ config \in Config /\ all \in Config
  BY DEF AsJudged, Config
<1>2. grade = GradeUnder(measured, config)
  BY DEF AsJudged, GradeFollows, Judged
<1>3. /\ grade.skipped = SkippedDimensions(config) /\ grade.vulnerabilitiesAssessed = config.checkVulns
      /\ ~config.checkQuantum => grade.quantumGrade = "not_assessed"
  BY <1>1, <1>2, GradeHas
<1>4. ASSUME config.checkVulns, config.checkQuantum
      PROVE  grade.score = Score(measured, all)
  <2>1. config = all
    BY <1>1, <1>4 DEF Config
  <2> QED
    BY <1>2, <2>1, ScoreIsGradeUnder
<1>5. ASSUME config.checkQuantum
      PROVE  grade.score >= Score(measured, all)
  <2> DEFINE price == Penalty(FindingsUnder(measured, config))
             cost == Penalty(FindingsUnder(measured, all))
             part == Clamp(0, Percentage(RawPoints(measured, config), config), 100)
  <2>1. /\ RawPoints(measured, all) = RawPoints(measured, config)
        /\ \A points : Percentage(points, all) = Percentage(points, config)
    BY <1>5 DEF RawPoints, Percentage
  <2>2. grade.score = Clamp(0, part - price, 100)
    BY <1>1, <1>2, GradeComesTo
  <2>3. Score(measured, all) = Clamp(0, part - cost, 100)
    <3>1. Score(measured, all) = Clamp(0, Clamp(0, Percentage(RawPoints(measured, all), all), 100) - cost, 100)
      BY <1>1, ScoreIsGradeUnder, GradeComesTo
    <3> QED
      BY <2>1, <3>1
  <2>4. price \in Nat /\ cost \in Nat /\ price <= cost
    <3>1. price = 0 \/ price = cost
      BY PenaltyNone DEF FindingsUnder
    <3> QED
      BY <1>1, <3>1, FindingsUnderAreFinite
  <2>5. part \in 0..100
    <3>1. GradeUnder(measured, config).dimensionScore = part
      BY <1>1, GradeComesTo
    <3> QED
      BY <1>1, <3>1, GradeHas
  <2> HIDE DEF price, cost, part
  <2>6. part - cost \in Int /\ part - price \in Int /\ part - cost <= part - price
    BY <2>4, <2>5
  <2>7. Clamp(0, part - cost, 100) <= Clamp(0, part - price, 100)
    BY <2>6, ClampIsMonotone
  <2>8. Clamp(0, part - cost, 100) \in 0..100 /\ Clamp(0, part - price, 100) \in 0..100
    BY <2>6, ClampIsBounded
  <2> QED
    BY <2>2, <2>3, <2>7, <2>8
<1>6. grade.skipped = {} <=> config.checkQuantum
  BY <1>3 DEF SkippedDimensions
<1> QED
  BY <1>3, <1>4, <1>5, <1>6

\* A score that a full scan would not have given says so.
THEOREM SkippingIsDisclosed == Spec => []SkippedChecksAreDisclosed
<1>1. Judging => SkippedChecksAreDisclosed
  BY SkippedFollows DEF Judging
<1> QED
  BY <1>1, Invariance, PTL

\* Who is told to enable hybrid key exchange.
LEMMA TitlesAdvised ==
  ASSUME AsJudged, Judged, NEW title
  PROVE  title \in Advised <=> title \in Range(GenerateRecommendations(measured, config, RiskUnder(measured, config)))
<1>1. recs = GenerateRecommendations(measured, config, RiskUnder(measured, config))
  BY DEF AsJudged, AdviceFollows, AdviceUnder, Judged
<1> QED
  BY <1>1 DEF Advised, Range

LEMMA CertificateTitles ==
  ASSUME NEW c \in Certificate, NEW title
  PROVE  title \in Range(CertificateAdvice(c)) <=>
           \/ title = "Renew_Expired_Certificate" /\ Expired(c)
           \/ title = "Deploy_a_Certificate_That_Is_Valid_Now" /\ ~Expired(c) /\ c.notYetValid
           \/ /\ title = "Renew_Certificate_Soon"
              /\ ~Expired(c) /\ ~c.notYetValid /\ DaysUntilExpiry(c) < 30
           \/ title = "Use_Stronger_RSA_Key" /\ c.key = "RSA" /\ c.bits < 2048
           \/ title = "Use_SHA-256_or_Stronger_Signature" /\ c.sig \in {"SHA1", "MD5"}
<1>1. Range(CertificateAdvice(c)) = AdvisedOn(c)
  BY CertificateAdviceLists DEF ListsTitles
<1> QED
  BY <1>1 DEF AdvisedOn

LEMMA HybridAdvised ==
  ASSUME AsJudged, Judged
  PROVE  /\ "Enable_Hybrid_Post-Quantum_Key_Exchange" \in Advised <=> config.checkQuantum /\ ~HasHybrid(measured)
         /\ "Plan_for_Post-Quantum_Certificates" \in Advised => config.checkQuantum
<1> DEFINE risk == RiskUnder(measured, config)
           hybrid == "Enable_Hybrid_Post-Quantum_Key_Exchange"
           plan == "Plan_for_Post-Quantum_Certificates"
<1>1. measured \in Measurement /\ config \in Config
  BY DEF AsJudged
<1>2. measured.cert # NoCertificate => measured.cert \in Certificate
  BY <1>1 DEF Measurement
<1>3. risk.score = IF config.checkQuantum /\ HasHybrid(measured) THEN 64 ELSE 0
  BY <1>1, FactorsAreBounded
<1>4. QuantumLow(config, risk, 50) <=> config.checkQuantum /\ ~HasHybrid(measured)
  BY <1>3 DEF QuantumLow
<1>5. QuantumLow(config, risk, 80) => config.checkQuantum
  BY DEF QuantumLow
<1> HIDE DEF risk
<1>6. hybrid \in Range(GenerateRecommendations(measured, config, risk)) <=> QuantumLow(config, risk, 50)
  <2>1. ~(measured.cert # NoCertificate /\ hybrid \in Range(CertificateAdvice(measured.cert)))
    BY <1>2, CertificateTitles
  <2> QED
    BY <1>1, <2>1, AdviceLists
<1>7. plan \in Range(GenerateRecommendations(measured, config, risk)) => QuantumLow(config, risk, 80)
  <2>1. ~(measured.cert # NoCertificate /\ plan \in Range(CertificateAdvice(measured.cert)))
    BY <1>2, CertificateTitles
  <2> QED
    BY <1>1, <2>1, AdviceLists
<1> QED
  BY <1>4, <1>5, <1>6, <1>7, TitlesAdvised DEF risk

LEMMA QuantumFollowsThrough ==
  ASSUME AsJudged
  PROVE  QuantumSectionsAgree
<1> DEFINE told == "Enable_Hybrid_Post-Quantum_Key_Exchange" \in Advised
<1>1. measured \in Measurement /\ config \in Config
  BY DEF AsJudged
<1>2. ASSUME Judged, ~config.checkQuantum
      PROVE  /\ ~told /\ "Plan_for_Post-Quantum_Certificates" \notin Advised
             /\ "quantum" \notin DOMAIN grade.factors
  <2>1. grade = GradeUnder(measured, config)
    BY <1>2 DEF AsJudged, GradeFollows, Judged
  <2>2. DOMAIN grade.factors = Counted(config)
    BY <1>1, <2>1, GradeHas
  <2> QED
    BY <1>2, <2>2, HybridAdvised DEF Counted
<1>3. ASSUME Judged, config.checkQuantum
      PROVE  /\ told <=> ~HasHybrid(measured)
             /\ quantum.keyExchangeRisk = "LOW" <=> ~told
             /\ quantum.hndlRisk = "LOW" <=> ~told
             /\ quantum.action = "MONITORING" <=> ~told
             /\ grade.quantumGrade \in {"Q+", "Q"} <=> ~told
  <2>1. told <=> ~HasHybrid(measured)
    BY <1>3, HybridAdvised
  <2>2. quantum = AssessQuantumRisk(measured)
    BY <1>3 DEF AsJudged, QuantumFollows, RiskUnder, Judged
  <2>3. quantum.keyExchangeRisk = "LOW" <=> HasHybrid(measured)
    BY <2>2 DEF AssessQuantumRisk, DescribeKeyExchangeRisk, KeyExchangeScore
  <2>4. quantum.hndlRisk = "LOW" <=> HasHybrid(measured)
    BY <2>2 DEF AssessQuantumRisk, DescribeHNDLRisk
  <2>5. quantum.action = "MONITORING" <=> HasHybrid(measured)
    BY <2>2 DEF AssessQuantumRisk, RecommendTimeToAction, KeyExchangeScore
  <2>6. grade.quantumGrade = IF HasHybrid(measured) THEN "Q" ELSE "QV"
    <3>1. grade = GradeUnder(measured, config)
      BY <1>3 DEF AsJudged, GradeFollows, Judged
    <3> QED
      BY <1>1, <1>3, <3>1, GradeHas
  <2> HIDE DEF told
  <2> QED
    BY <2>1, <2>3, <2>4, <2>5, <2>6
<1> QED
  BY <1>2, <1>3 DEF QuantumSectionsAgree

\* The quantum section, the grade and the advice tell one story.
THEOREM QuantumStoryIsOne == Spec => []QuantumSectionsAgree
<1>1. Judging => QuantumSectionsAgree
  BY QuantumFollowsThrough DEF Judging
<1> QED
  BY <1>1, Invariance, PTL

-----------------------------------------------------------------------------
(***************************************************************************)
(* Findings and advice.                                                    *)
(***************************************************************************)
\* The condition that a finding stands for.
Cause(id, m) ==
  \/ id = "TLS10_ENABLED" /\ "TLS1.0" \in m.versions
  \/ id = "TLS11_ENABLED" /\ "TLS1.1" \in m.versions
  \/ id = "NO_TLS13" /\ "TLS1.3" \notin m.versions
  \/ id = "DEPRECATED_CIPHER" /\ \E s \in m.suites : Deprecated(s)
  \/ id = "NO_PFS" /\ \E s \in m.suites : ~ForwardSecrecy(s)
  \/ /\ m.cert # NoCertificate
     /\ \/ id = "CERT_EXPIRED" /\ Expired(m.cert)
        \/ id = "CERT_NOT_YET_VALID" /\ m.cert.notYetValid
        \/ /\ id = "CERT_EXPIRING"
           /\ ~m.cert.notYetValid /\ ~Expired(m.cert) /\ DaysUntilExpiry(m.cert) < 30
        \/ id = "CERT_SELF_SIGNED" /\ m.cert.selfSigned
        \/ id = "CERT_CHAIN_UNTRUSTED" /\ m.cert.chain = "failed" /\ ~m.cert.selfSigned
        \/ id = "CERT_NAME_MISMATCH" /\ m.cert.name = "failed"
        \/ id = "CERT_WEAK_SIG" /\ m.cert.sig \in {"SHA1", "MD5"}
        \/ id = "CERT_WEAK_KEY" /\ m.cert.key = "RSA" /\ m.cert.bits < 2048

LEMMA FoundForACause ==
  ASSUME NEW m \in Measurement, NEW v \in Vulnerabilities(m)
  PROVE  Cause(v.id, m)
<1>1. \A id, subject, severity : Note(id, subject, severity).id = id
  BY DEF Note
<1>2. CASE v \in ProtocolFindings(m.versions)
  <2>1. \/ "TLS1.0" \in m.versions /\ v.id = "TLS10_ENABLED"
        \/ "TLS1.1" \in m.versions /\ v.id = "TLS11_ENABLED"
        \/ "TLS1.3" \notin m.versions /\ v.id = "NO_TLS13"
    BY <1>1, <1>2, InProtocolFindings
  <2> QED
    BY <2>1 DEF Cause
<1>3. ASSUME NEW s \in m.suites, v \in SuiteFindings(s)
      PROVE  Cause(v.id, m)
  <2>1. \/ Deprecated(s) /\ v.id = "DEPRECATED_CIPHER"
        \/ ~ForwardSecrecy(s) /\ v.id = "NO_PFS"
    <3>1. \/ Deprecated(s) /\ v = Note("DEPRECATED_CIPHER", <<s.kx, s.cipher>>, "HIGH")
          \/ ~ForwardSecrecy(s) /\ v = Note("NO_PFS", <<s.kx, s.cipher>>, "MEDIUM")
      BY <1>3, InSuiteFindings
    <3> QED
      BY <3>1 DEF Note
  <2> QED
    BY <2>1 DEF Cause
<1>4. ASSUME NEW c \in Certificate, m.cert = c, m.cert # NoCertificate, v \in CertificateFindings(c)
      PROVE  Cause(v.id, m)
  <2>1. CASE v \in WindowFindings(c)
    <3>1. \/ Expired(c) /\ v.id = "CERT_EXPIRED"
          \/ c.notYetValid /\ v.id = "CERT_NOT_YET_VALID"
          \/ /\ ~c.notYetValid /\ ~Expired(c) /\ DaysUntilExpiry(c) < 30
             /\ v.id = "CERT_EXPIRING"
      BY <1>1, <2>1, InWindowFindings
    <3> QED
      BY <1>4, <3>1 DEF Cause
  <2>2. CASE v \in ChainFindings(c)
    <3>1. \/ c.selfSigned /\ v.id = "CERT_SELF_SIGNED"
          \/ c.chain = "failed" /\ ~c.selfSigned /\ v.id = "CERT_CHAIN_UNTRUSTED"
      <4>1. \/ c.chain = "failed" /\ c.selfSigned /\ v = Note("CERT_SELF_SIGNED", <<"failed">>, "HIGH")
            \/ c.chain = "failed" /\ ~c.selfSigned /\ v = Note("CERT_CHAIN_UNTRUSTED", <<"failed">>, "HIGH")
            \/ c.chain # "failed" /\ c.selfSigned /\ v = Note("CERT_SELF_SIGNED", <<c.chain>>, "MEDIUM")
        BY <2>2, InChainFindings
      <4> QED
        BY <4>1 DEF Note
    <3> QED
      BY <1>4, <3>1 DEF Cause
  <2>3. CASE v \notin WindowFindings(c) /\ v \notin ChainFindings(c)
    <3>1. \/ c.name = "failed" /\ v.id = "CERT_NAME_MISMATCH"
          \/ c.sig \in {"SHA1", "MD5"} /\ v.id = "CERT_WEAK_SIG"
          \/ c.key = "RSA" /\ c.bits < 2048 /\ v.id = "CERT_WEAK_KEY"
      BY <1>1, <1>4, <2>3, InCertificateFindings
    <3> QED
      BY <1>4, <3>1 DEF Cause
  <2> QED
    BY <2>1, <2>2, <2>3
<1>5. m.cert # NoCertificate => m.cert \in Certificate
  BY DEF Measurement
<1> QED
  BY <1>2, <1>3, <1>4, <1>5, InVulnerabilities

LEMMA CauseIsFound ==
  ASSUME NEW m \in Measurement, NEW id, Cause(id, m)
  PROVE  \E v \in Vulnerabilities(m) : v.id = id
<1> DEFINE c == m.cert
<1>1. \A i, subject, severity : Note(i, subject, severity).id = i
  BY DEF Note
<1>2. ASSUME NEW subject, NEW severity, Note(id, subject, severity) \in Vulnerabilities(m)
      PROVE  \E v \in Vulnerabilities(m) : v.id = id
  BY <1>1, <1>2
<1>3. m.cert # NoCertificate => c \in Certificate
  BY DEF Measurement
<1>4. CASE id = "TLS10_ENABLED" /\ "TLS1.0" \in m.versions
  <2>1. Note(id, << >>, "HIGH") \in ProtocolFindings(m.versions)
    BY <1>4, InProtocolFindings
  <2> QED
    BY <1>2, <2>1, InVulnerabilities
<1>5. CASE \/ id = "TLS11_ENABLED" /\ "TLS1.1" \in m.versions
           \/ id = "NO_TLS13" /\ "TLS1.3" \notin m.versions
  <2>1. Note(id, << >>, "MEDIUM") \in ProtocolFindings(m.versions)
    BY <1>5, InProtocolFindings
  <2> QED
    BY <1>2, <2>1, InVulnerabilities
<1>6. CASE id = "DEPRECATED_CIPHER" /\ \E s \in m.suites : Deprecated(s)
  <2>1. PICK s \in m.suites : Deprecated(s)
    BY <1>6
  <2>2. Note(id, <<s.kx, s.cipher>>, "HIGH") \in SuiteFindings(s)
    BY <1>6, <2>1, InSuiteFindings
  <2> QED
    BY <1>2, <2>2, InVulnerabilities
<1>7. CASE id = "NO_PFS" /\ \E s \in m.suites : ~ForwardSecrecy(s)
  <2>1. PICK s \in m.suites : ~ForwardSecrecy(s)
    BY <1>7
  <2>2. Note(id, <<s.kx, s.cipher>>, "MEDIUM") \in SuiteFindings(s)
    BY <1>7, <2>1, InSuiteFindings
  <2> QED
    BY <1>2, <2>2, InVulnerabilities
<1>8. CASE m.cert # NoCertificate
  <2>1. CASE \/ id = "CERT_EXPIRED" /\ Expired(c)
             \/ id = "CERT_NOT_YET_VALID" /\ c.notYetValid
    <3>1. Note(id, << >>, "CRITICAL") \in WindowFindings(c)
      BY <2>1, InWindowFindings
    <3> QED
      BY <1>2, <1>8, <3>1, InVulnerabilities, InCertificateFindings
  <2>2. CASE id = "CERT_EXPIRING" /\ ~c.notYetValid /\ ~Expired(c) /\ DaysUntilExpiry(c) < 30
    <3>1. Note(id, << >>, "MEDIUM") \in WindowFindings(c)
      BY <2>2, InWindowFindings
    <3> QED
      BY <1>2, <1>8, <3>1, InVulnerabilities, InCertificateFindings
  <2>3. CASE id = "CERT_SELF_SIGNED" /\ c.selfSigned
    <3>1. \/ Note(id, <<"failed">>, "HIGH") \in ChainFindings(c)
          \/ Note(id, <<c.chain>>, "MEDIUM") \in ChainFindings(c)
      BY <1>3, <1>8, <2>3, InChainFindings
    <3> QED
      BY <1>2, <1>8, <3>1, InVulnerabilities, InCertificateFindings
  <2>4. CASE id = "CERT_CHAIN_UNTRUSTED" /\ c.chain = "failed" /\ ~c.selfSigned
    <3>1. Note(id, <<"failed">>, "HIGH") \in ChainFindings(c)
      BY <1>3, <1>8, <2>4, InChainFindings
    <3> QED
      BY <1>2, <1>8, <3>1, InVulnerabilities, InCertificateFindings
  <2>5. CASE \/ id = "CERT_NAME_MISMATCH" /\ c.name = "failed"
             \/ id = "CERT_WEAK_SIG" /\ c.sig \in {"SHA1", "MD5"}
             \/ id = "CERT_WEAK_KEY" /\ c.key = "RSA" /\ c.bits < 2048
    <3>1. Note(id, << >>, "HIGH") \in CertificateFindings(c)
      BY <2>5, InCertificateFindings
    <3> QED
      BY <1>2, <1>8, <3>1, InVulnerabilities
  <2>6. CASE id \in {"TLS10_ENABLED", "TLS11_ENABLED", "NO_TLS13", "DEPRECATED_CIPHER", "NO_PFS"}
    BY <1>4, <1>5, <1>6, <1>7, <2>6 DEF Cause
  <2> QED
    BY <2>1, <2>2, <2>3, <2>4, <2>5, <2>6 DEF Cause
<1> QED
  BY <1>4, <1>5, <1>6, <1>7, <1>8 DEF Cause

LEMMA IdsFound ==
  ASSUME AsJudged, Judged, config.checkVulns, NEW id
  PROVE  id \in FoundIds <=> Cause(id, measured)
<1>1. measured \in Measurement
  BY DEF AsJudged
<1>2. vulns = Vulnerabilities(measured)
  BY DEF AsJudged, FindingsFollow, FindingsUnder, Judged
<1>3. id \in FoundIds => Cause(id, measured)
  BY <1>1, <1>2, FoundForACause DEF FoundIds
<1>4. Cause(id, measured) => id \in FoundIds
  BY <1>1, <1>2, CauseIsFound DEF FoundIds
<1> QED
  BY <1>3, <1>4

\* What generateRecommendations has to say about the same conditions.
LEMMA CauseIsAdvised ==
  ASSUME AsJudged, Judged
  PROVE  LET c == measured.cert
             certified == c # NoCertificate
         IN  /\ "Disable_TLS1.0" \in Advised <=> "TLS1.0" \in measured.versions
             /\ "Disable_TLS1.1" \in Advised <=> "TLS1.1" \in measured.versions
             /\ "Enable_TLS1.3" \in Advised <=> "TLS1.3" \notin measured.versions
             /\ "Require_Forward_Secrecy" \in Advised <=> \E s \in measured.suites : ~ForwardSecrecy(s)
             /\ "Remove_Deprecated_Cipher_Suites" \in Advised <=> \E s \in measured.suites : Deprecated(s)
             /\ "Renew_Expired_Certificate" \in Advised <=> certified /\ Expired(c)
             /\ "Deploy_a_Certificate_That_Is_Valid_Now" \in Advised <=>
                  certified /\ ~Expired(c) /\ c.notYetValid
             /\ "Renew_Certificate_Soon" \in Advised <=>
                  certified /\ ~Expired(c) /\ ~c.notYetValid /\ DaysUntilExpiry(c) < 30
             /\ "Use_SHA-256_or_Stronger_Signature" \in Advised <=> certified /\ c.sig \in {"SHA1", "MD5"}
             /\ "Use_Stronger_RSA_Key" \in Advised <=> certified /\ c.key = "RSA" /\ c.bits < 2048
<1> DEFINE c == measured.cert
           certified == c # NoCertificate
           risk == RiskUnder(measured, config)
           oldSuite == \E s \in measured.suites : Deprecated(s)
           openSuite == \E s \in measured.suites : ~ForwardSecrecy(s)
<1>1. measured \in Measurement /\ config \in Config
  BY DEF AsJudged
<1>2. certified => c \in Certificate
  BY <1>1 DEF Measurement
<1>3. ASSUME NEW title
      PROVE  title \in Advised <=>
              \/ title = "Enable_Hybrid_Post-Quantum_Key_Exchange" /\ QuantumLow(config, risk, 50)
              \/ title = "Disable_TLS1.1" /\ "TLS1.1" \in measured.versions
              \/ title = "Disable_TLS1.0" /\ "TLS1.0" \in measured.versions
              \/ title = "Enable_TLS1.3" /\ "TLS1.3" \notin measured.versions
              \/ title = "Remove_Deprecated_Cipher_Suites" /\ oldSuite
              \/ title = "Require_Forward_Secrecy" /\ openSuite
              \/ certified /\ title \in Range(CertificateAdvice(c))
              \/ /\ certified /\ QuantumLow(config, risk, 80)
                 /\ title = "Plan_for_Post-Quantum_Certificates"
  <2>1. title \in Advised <=> title \in Range(GenerateRecommendations(measured, config, risk))
    BY TitlesAdvised
  <2> QED
    BY <1>1, <2>1, AdviceLists
<1>4. ASSUME NEW title
      PROVE  certified => (title \in Range(CertificateAdvice(c)) <=>
           \/ title = "Renew_Expired_Certificate" /\ Expired(c)
           \/ title = "Deploy_a_Certificate_That_Is_Valid_Now" /\ ~Expired(c) /\ c.notYetValid
           \/ /\ title = "Renew_Certificate_Soon"
              /\ ~Expired(c) /\ ~c.notYetValid /\ DaysUntilExpiry(c) < 30
           \/ title = "Use_Stronger_RSA_Key" /\ c.key = "RSA" /\ c.bits < 2048
           \/ title = "Use_SHA-256_or_Stronger_Signature" /\ c.sig \in {"SHA1", "MD5"})
  BY <1>2, CertificateTitles
<1> SUFFICES
     /\ "Disable_TLS1.0" \in Advised <=> "TLS1.0" \in measured.versions
     /\ "Disable_TLS1.1" \in Advised <=> "TLS1.1" \in measured.versions
     /\ "Enable_TLS1.3" \in Advised <=> "TLS1.3" \notin measured.versions
     /\ "Require_Forward_Secrecy" \in Advised <=> openSuite
     /\ "Remove_Deprecated_Cipher_Suites" \in Advised <=> oldSuite
     /\ "Renew_Expired_Certificate" \in Advised <=> certified /\ Expired(c)
     /\ "Deploy_a_Certificate_That_Is_Valid_Now" \in Advised <=> certified /\ ~Expired(c) /\ c.notYetValid
     /\ "Renew_Certificate_Soon" \in Advised <=>
          certified /\ ~Expired(c) /\ ~c.notYetValid /\ DaysUntilExpiry(c) < 30
     /\ "Use_SHA-256_or_Stronger_Signature" \in Advised <=> certified /\ c.sig \in {"SHA1", "MD5"}
     /\ "Use_Stronger_RSA_Key" \in Advised <=> certified /\ c.key = "RSA" /\ c.bits < 2048
  OBVIOUS
<1> HIDE DEF oldSuite, openSuite, risk, certified, c
<1>5. "Disable_TLS1.0" \in Advised <=> "TLS1.0" \in measured.versions
  BY <1>3, <1>4
<1>6. "Disable_TLS1.1" \in Advised <=> "TLS1.1" \in measured.versions
  BY <1>3, <1>4
<1>7. "Enable_TLS1.3" \in Advised <=> "TLS1.3" \notin measured.versions
  BY <1>3, <1>4
<1>8. "Require_Forward_Secrecy" \in Advised <=> openSuite
  BY <1>3, <1>4
<1>9. "Remove_Deprecated_Cipher_Suites" \in Advised <=> oldSuite
  BY <1>3, <1>4
<1>10. "Renew_Expired_Certificate" \in Advised <=> certified /\ Expired(c)
  BY <1>3, <1>4
<1>11. "Deploy_a_Certificate_That_Is_Valid_Now" \in Advised <=> certified /\ ~Expired(c) /\ c.notYetValid
  BY <1>3, <1>4
<1>12. "Renew_Certificate_Soon" \in Advised <=>
          certified /\ ~Expired(c) /\ ~c.notYetValid /\ DaysUntilExpiry(c) < 30
  BY <1>3, <1>4
<1>13. "Use_SHA-256_or_Stronger_Signature" \in Advised <=> certified /\ c.sig \in {"SHA1", "MD5"}
  BY <1>3, <1>4
<1>14. "Use_Stronger_RSA_Key" \in Advised <=> certified /\ c.key = "RSA" /\ c.bits < 2048
  BY <1>3, <1>4
<1> QED
  BY <1>5, <1>6, <1>7, <1>8, <1>9, <1>10, <1>11, <1>12, <1>13, <1>14

LEMMA PairsAgree ==
  ASSUME AsJudged, Judged, config.checkVulns, NEW pair \in SameSubject
  PROVE  pair[1] \in FoundIds <=>
           pair[2] \in Advised \cup
             (IF HasCertificate /\ NeverValid(measured.cert)
                THEN {"Deploy_a_Certificate_That_Is_Valid_Now"} ELSE {})
<1> DEFINE c == measured.cert
           unsaid == IF HasCertificate /\ NeverValid(c)
                       THEN {"Deploy_a_Certificate_That_Is_Valid_Now"} ELSE {}
<1>1. \A id : id \in FoundIds <=> Cause(id, measured)
  BY IdsFound
<1>2. unsaid \subseteq {"Deploy_a_Certificate_That_Is_Valid_Now"}
  OBVIOUS
<1> SUFFICES pair[1] \in FoundIds <=> pair[2] \in Advised \cup unsaid
  OBVIOUS
<1> HIDE DEF unsaid
<1>3. CASE pair = <<"TLS10_ENABLED", "Disable_TLS1.0">>
  BY <1>1, <1>2, <1>3, CauseIsAdvised DEF Cause
<1>4. CASE pair = <<"TLS11_ENABLED", "Disable_TLS1.1">>
  BY <1>1, <1>2, <1>4, CauseIsAdvised DEF Cause
<1>5. CASE pair = <<"NO_TLS13", "Enable_TLS1.3">>
  BY <1>1, <1>2, <1>5, CauseIsAdvised DEF Cause
<1>6. CASE pair = <<"NO_PFS", "Require_Forward_Secrecy">>
  BY <1>1, <1>2, <1>6, CauseIsAdvised DEF Cause
<1>7. CASE pair = <<"DEPRECATED_CIPHER", "Remove_Deprecated_Cipher_Suites">>
  BY <1>1, <1>2, <1>7, CauseIsAdvised DEF Cause
<1>8. CASE pair = <<"CERT_EXPIRED", "Renew_Expired_Certificate">>
  BY <1>1, <1>2, <1>8, CauseIsAdvised DEF Cause
<1>9. CASE pair = <<"CERT_NOT_YET_VALID", "Deploy_a_Certificate_That_Is_Valid_Now">>
  <2>1. pair[1] \in FoundIds <=> c # NoCertificate /\ c.notYetValid
    BY <1>1, <1>9 DEF Cause
  <2>2. pair[2] \in Advised <=> c # NoCertificate /\ ~Expired(c) /\ c.notYetValid
    BY <1>9, CauseIsAdvised
  <2>3. pair[2] \in unsaid <=> c # NoCertificate /\ Expired(c) /\ c.notYetValid
    BY <1>9 DEF unsaid, HasCertificate, NeverValid, Expired
  <2> QED
    BY <2>1, <2>2, <2>3
<1>10. CASE pair = <<"CERT_EXPIRING", "Renew_Certificate_Soon">>
  BY <1>1, <1>2, <1>10, CauseIsAdvised DEF Cause
<1>11. CASE pair = <<"CERT_WEAK_SIG", "Use_SHA-256_or_Stronger_Signature">>
  BY <1>1, <1>2, <1>11, CauseIsAdvised DEF Cause
<1>12. CASE pair = <<"CERT_WEAK_KEY", "Use_Stronger_RSA_Key">>
  BY <1>1, <1>2, <1>12, CauseIsAdvised DEF Cause
<1> QED
  BY <1>3, <1>4, <1>5, <1>6, <1>7, <1>8, <1>9, <1>10, <1>11, <1>12 DEF SameSubject

LEMMA WindowIdsFound ==
  ASSUME AsJudged, Judged, config.checkVulns, HasCertificate
  PROVE  Cardinality(FoundIds \cap WindowIds) =
           IF NeverValid(measured.cert) THEN 2
           ELSE IF measured.cert.hours < 720 \/ measured.cert.notYetValid THEN 1 ELSE 0
<1> DEFINE c == measured.cert
           found == FoundIds \cap WindowIds
<1>1. c \in Certificate /\ c # NoCertificate
  BY DEF AsJudged, Measurement, HasCertificate
<1>2. \A id : id \in found <=>
          \/ id = "CERT_EXPIRED" /\ Expired(c)
          \/ id = "CERT_NOT_YET_VALID" /\ c.notYetValid
          \/ id = "CERT_EXPIRING" /\ ~c.notYetValid /\ ~Expired(c) /\ DaysUntilExpiry(c) < 30
  <2>1. \A id : id \in FoundIds <=> Cause(id, measured)
    BY IdsFound
  <2> QED
    BY <1>1, <2>1 DEF Cause, WindowIds
<1>3. /\ Expired(c) <=> c.hours < 0
      /\ ~Expired(c) => (DaysUntilExpiry(c) < 30 <=> c.hours < 720)
  BY <1>1, DaysAreInt DEF Expired, DaysUntilExpiry
<1>4. c.hours \in Int
  BY <1>1, DaysAreInt
<1>5. \A x : IsFiniteSet({x}) /\ Cardinality({x}) = 1
  BY FS_Singleton
<1>6. Cardinality({}) = 0
  BY FS_EmptySet
<1> HIDE DEF found, c
<1>7. CASE c.hours < 0 /\ c.notYetValid
  <2>1. found = {"CERT_EXPIRED"} \cup {"CERT_NOT_YET_VALID"}
    BY <1>2, <1>3, <1>7
  <2>2. "CERT_NOT_YET_VALID" \notin {"CERT_EXPIRED"}
    OBVIOUS
  <2>3. Cardinality({"CERT_EXPIRED"} \cup {"CERT_NOT_YET_VALID"}) = Cardinality({"CERT_EXPIRED"}) + 1
    BY <1>5, <2>2, FS_AddElement
  <2>4. Cardinality({"CERT_EXPIRED"}) = 1
    BY <1>5
  <2>5. Cardinality(found) = 2
    BY <2>1, <2>3, <2>4
  <2> QED
    BY <1>7, <2>5 DEF NeverValid, c, found
<1>8. CASE c.hours < 0 /\ ~c.notYetValid
  <2>1. found = {"CERT_EXPIRED"}
    BY <1>2, <1>3, <1>8
  <2>2. Cardinality(found) = 1
    BY <1>5, <2>1
  <2>3. c.hours < 720
    BY <1>4, <1>8
  <2> QED
    BY <1>8, <2>2, <2>3 DEF NeverValid, c, found
<1>9. CASE ~(c.hours < 0) /\ c.notYetValid
  <2>1. found = {"CERT_NOT_YET_VALID"}
    BY <1>2, <1>3, <1>9
  <2>2. Cardinality(found) = 1
    BY <1>5, <2>1
  <2> QED
    BY <1>9, <2>2 DEF NeverValid, c, found
<1>10. CASE ~(c.hours < 0) /\ ~c.notYetValid /\ c.hours < 720
  <2>1. found = {"CERT_EXPIRING"}
    BY <1>2, <1>3, <1>10
  <2>2. Cardinality(found) = 1
    BY <1>5, <2>1
  <2> QED
    BY <1>10, <2>2 DEF NeverValid, c, found
<1>11. CASE ~(c.hours < 0) /\ ~c.notYetValid /\ ~(c.hours < 720)
  <2>1. found = {}
    BY <1>2, <1>3, <1>11
  <2>2. Cardinality(found) = 0
    BY <1>6, <2>1
  <2> QED
    BY <1>11, <2>2 DEF NeverValid, c, found
<1> QED
  BY <1>7, <1>8, <1>9, <1>10, <1>11

LEMMA ChainFindingFollows ==
  ASSUME AsJudged, Judged, config.checkVulns, HasCertificate
  PROVE  LET chain == {v \in vulns : v.id \in ChainIds}
         IN  /\ Cardinality(chain) <= 1
             /\ measured.cert.chain = "failed" \/ measured.cert.selfSigned <=> chain # {}
             /\ \A v \in chain : v.subject = <<measured.cert.chain>>
<1> DEFINE c == measured.cert
           chain == {v \in vulns : v.id \in ChainIds}
           self == Note("CERT_SELF_SIGNED", <<"failed">>, "HIGH")
           untrusted == Note("CERT_CHAIN_UNTRUSTED", <<"failed">>, "HIGH")
           mild == Note("CERT_SELF_SIGNED", <<c.chain>>, "MEDIUM")
<1>1. measured \in Measurement /\ c \in Certificate
  BY DEF AsJudged, Measurement, HasCertificate
<1>2. chain = ChainFindings(c)
  <2>1. vulns = Vulnerabilities(measured)
    BY DEF AsJudged, FindingsFollow, FindingsUnder, Judged
  <2>2. chain = Among(ChainIds, measured)
    BY <2>1 DEF Among
  <2> QED
    BY <1>1, <2>2, AmongTheChain
<1>3. ASSUME NEW v
      PROVE  v \in chain <=>
               \/ c.chain = "failed" /\ c.selfSigned /\ v = self
               \/ c.chain = "failed" /\ ~c.selfSigned /\ v = untrusted
               \/ c.chain # "failed" /\ c.selfSigned /\ v = mild
  BY <1>1, <1>2, InChainFindings
<1>4. /\ self.subject = <<"failed">> /\ untrusted.subject = <<"failed">> /\ mild.subject = <<c.chain>>
  BY DEF Note
<1> SUFFICES /\ Cardinality(chain) <= 1
             /\ c.chain = "failed" \/ c.selfSigned <=> chain # {}
             /\ \A v \in chain : v.subject = <<c.chain>>
  OBVIOUS
<1>5. \A x : Cardinality({x}) = 1
  BY FS_Singleton
<1>6. Cardinality({}) = 0
  BY FS_EmptySet
<1> HIDE DEF chain, self, untrusted, mild, c
<1>7. CASE c.chain = "failed" /\ c.selfSigned
  <2>1. chain = {self}
    BY <1>3, <1>7
  <2> QED
    BY <1>4, <1>5, <1>7, <2>1
<1>8. CASE c.chain = "failed" /\ ~c.selfSigned
  <2>1. chain = {untrusted}
    BY <1>3, <1>8
  <2> QED
    BY <1>4, <1>5, <1>8, <2>1
<1>9. CASE c.chain # "failed" /\ c.selfSigned
  <2>1. chain = {mild}
    BY <1>3, <1>9
  <2> QED
    BY <1>4, <1>5, <1>9, <2>1
<1>10. CASE c.chain # "failed" /\ ~c.selfSigned
  <2>1. chain = {}
    BY <1>3, <1>10
  <2> QED
    BY <1>6, <1>10, <2>1
<1> QED
  BY <1>7, <1>8, <1>9, <1>10

LEMMA AgreementFollows ==
  ASSUME AsJudged
  PROVE  FindingsAndAdviceAgree
BY PairsAgree, WindowIdsFound, ChainFindingFollows DEF FindingsAndAdviceAgree

\* What the checks find and what the report advises are the same conditions.
THEOREM FindingsAreAdvisedOn == Spec => []FindingsAndAdviceAgree
<1>1. Judging => FindingsAndAdviceAgree
  BY AgreementFollows DEF Judging
<1> QED
  BY <1>1, Invariance, PTL
=============================================================================
