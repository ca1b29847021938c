---------------------------- MODULE ChainVerdict ----------------------------
(***************************************************************************)
(* How probeConnection reaches its verdict on the certificate of the       *)
(* ordinary connection, the fields that module Assessment starts from.     *)
(* The handshake does not verify; afterwards one instant is captured, the  *)
(* leaf is parsed as of it, the name is checked, and the chain is given to *)
(* x509.Verify, which reads the clock itself.  Between the two readings    *)
(* time may pass.  Then the scan goes on as in PolicyGate.                 *)
(*                                                                         *)
(* Times are hours from the moment the connection is up.                   *)
(***************************************************************************)
EXTENDS PolicyGate

CONSTANTS
  Probed,     \* what there is to probe: a server and the connection to it
  MaxClock    \* how far the clock may run during the verification

\* A chain is the leaf, the other certificates that the server sent, and last
\* what this machine's trust store adds to the path.  A server may send
\* certificates that are on no path.
Link == [from : Int, to : Int, onPath : BOOLEAN]

\* anchored: the path ends in a trusted root, dates aside.  platform: this build
\* asks the verifier of the operating system.  A name is always requested, or
\* there would have been nothing to resolve.
Connection ==
  [chain : Seq(Link), anchored : BOOLEAN, platform : BOOLEAN, requested : {"covered", "other"}]

ASSUME ChainAssumption ==
  /\ MaxClock \in Nat
  /\ \A p \in Probed :
       /\ p.server \in Measurements /\ p.connection \in Connection
       /\ Len(p.connection.chain) >= 2 /\ p.connection.chain[1].onPath

\* No verifier follows a path through a SHA-1 or MD5 signature; a certificate that
\* is trusted itself needs none.
ASSUME VerifierAssumption ==
  \A p \in Probed :
    p.connection.anchored /\ p.server.cert # NoCertificate =>
      p.server.cert.sig \notin {"SHA1", "MD5"} \/ p.server.cert.selfSigned

\* The handshake that gave the certificate gave a suite, and the scan kept it
\* (NegotiatedIsMarked of module ScanProbes).
ASSUME HandshakeAssumption ==
  \A p \in Probed : p.server.cert # NoCertificate => p.server.suites # {}

IsLate(link, t) == t > link.to
IsOutside(link, t) == IsLate(link, t) \/ t < link.from

Leaf == 1
SentWith(c) == 2..(Len(c.chain) - 1)

-----------------------------------------------------------------------------
(***************************************************************************)
(* crypto/x509.  "expired" stands for either end of a window, and comes    *)
(* with the certificate it blames.  The pure-Go verifier looks at the      *)
(* leaf's dates before it builds a path, and names the certificate that    *)
(* failed; the platform verifiers name the leaf whatever failed.           *)
(***************************************************************************)
Faults(c, t) == {i \in DOMAIN c.chain : c.chain[i].onPath /\ IsOutside(c.chain[i], t)}

Blamable(c, t) ==
  IF c.platform \/ Leaf \in Faults(c, t) THEN {Leaf} ELSE Faults(c, t)

VerifierAnswers(c, t) ==
  IF Faults(c, t) = {} THEN {[result |-> IF c.anchored THEN "ok" ELSE "untrusted"]}
  ELSE [result : {"expired"}, blamed : Blamable(c, t)]
         \cup (IF c.anchored \/ (~c.platform /\ Leaf \in Faults(c, t)) THEN {} ELSE {[result |-> "untrusted"]})

-----------------------------------------------------------------------------
\* Why the chain failed, as the report says it: which certificate, and which end
\* of its window.
Because(says, about, end) == [says |-> says, about |-> about, end |-> end]
NoReason == Because("nothing", 0, "none")

\* chainCertOutsideValidityReason
NamedReason(c, i, now, says) ==
  Because(says, i, IF IsLate(c.chain[i], now) THEN "expired"
                   ELSE IF now < c.chain[i].from THEN "not_valid_yet" ELSE "outside")

Judgment(chain, reason) == [chain |-> chain, reason |-> reason]

\* Mutant: any window failure is left to the expiry finding.
ExemptAnyExpiry(c, blamed, now) == Judgment("notPerformed", Because("reported_on_its_own", Leaf, "none"))

\* Mutant: the first certificate that came with the leaf is named unseen.
NameTheFirst(c, blamed, now) ==
  IF IsOutside(c.chain[Leaf], now)
    THEN Judgment("notPerformed", Because("reported_on_its_own", Leaf, "none"))
  ELSE Judgment("failed", IF blamed # Leaf THEN NamedReason(c, blamed, now, "verifier_named")
                          ELSE IF SentWith(c) # {} THEN NamedReason(c, 2, now, "presented")
                          ELSE Because("trust_store", Len(c.chain), "none"))

\* applyValidityWindowVerdict.  Whether the leaf is to blame is read from the
\* leaf; the verifier is believed only when it names another certificate.
ApplyValidityWindowVerdict(c, blamed, now) ==
  LET stale == {i \in SentWith(c) : IsOutside(c.chain[i], now)}
  IN  IF IsOutside(c.chain[Leaf], now)
        THEN Judgment("notPerformed", Because("reported_on_its_own", Leaf, "none"))
      ELSE IF blamed # Leaf
        THEN Judgment("failed", NamedReason(c, blamed, now, "verifier_named"))
      ELSE IF stale # {}
        THEN Judgment("failed", NamedReason(c, CHOOSE i \in stale : \A j \in stale : i <= j, now, "presented"))
      ELSE Judgment("failed", Because("trust_store", Len(c.chain), "none"))

\* verifyCertificateChainAt
ChainJudgment(c, answer, now) ==
  IF answer.result = "ok" THEN Judgment("passed", NoReason)
  ELSE IF answer.result = "expired" THEN ApplyValidityWindowVerdict(c, answer.blamed, now)
  ELSE Judgment("failed", Because("verifier", 0, "none"))

\* parseCertificateAt, for the fields that depend on the instant; the two checks
\* start as not performed.
ParseCertificateAt(leaf, cert, now) ==
  [cert EXCEPT !.hours = leaf.to - now, !.notYetValid = now < leaf.from,
               !.lifetime = (leaf.to - leaf.from) \div 24,
               !.name = "notPerformed", !.chain = "notPerformed"]

-----------------------------------------------------------------------------
VARIABLES
  connection, clock,
  probe,     \* "connected", "parsed", "named" or "verified"
  now,       \* the instant captured
  answer,    \* what the verifier answered, with the time it read
  reason     \* ChainTrustReason

chainVars == <<connection, clock, probe, now, answer, reason>>

ChainInit ==
  /\ \E p \in Probed : measured = p.server /\ connection = p.connection
  /\ GateInit
  /\ clock = 0 /\ probe = "connected" /\ now = 0
  /\ answer = [result |-> "none"] /\ reason = NoReason

\* The dial or the handshake failed: there is no certificate to speak of.
NoConnection ==
  /\ probe = "connected" /\ ~HasCertificate
  /\ probe' = "verified"
  /\ UNCHANGED <<measured, connection, clock, now, answer, reason>>

CaptureInstant ==
  /\ probe = "connected" /\ HasCertificate
  /\ probe' = "parsed"
  /\ now' = clock
  /\ measured' = [measured EXCEPT !.cert = ParseCertificateAt(connection.chain[Leaf], @, clock)]
  /\ UNCHANGED <<connection, clock, answer, reason>>

VerifyCertificateName ==
  /\ probe = "parsed"
  /\ probe' = "named"
  /\ measured' = [measured EXCEPT !.cert.name = IF connection.requested = "covered" THEN "passed" ELSE "failed"]
  /\ UNCHANGED <<connection, clock, now, answer, reason>>

VerifyCertificateChain ==
  /\ probe = "named"
  /\ probe' = "verified"
  /\ \E a \in VerifierAnswers(connection, clock) :
       LET judgment == ChainJudgment(connection, a, now)
       IN  /\ answer' = a /\ reason' = judgment.reason
           /\ measured' = [measured EXCEPT !.cert.chain = judgment.chain]
  /\ UNCHANGED <<connection, clock, now>>

\* Time passes between the two readings of the clock.
Tick ==
  /\ probe \in {"parsed", "named"} /\ clock < MaxClock
  /\ clock' = clock + 1
  /\ UNCHANGED <<measured, connection, probe, now, answer, reason>>

Verifying ==
  /\ NoConnection \/ CaptureInstant \/ VerifyCertificateName \/ VerifyCertificateChain \/ Tick
  /\ UNCHANGED <<config, stage, vulns, quantum, grade, recs, policy, policyResult, verdict>>

ChainNext ==
  \/ Verifying
  \/ probe = "verified" /\ GateNext /\ UNCHANGED chainVars

ChainSpec == ChainInit /\ [][ChainNext]_<<gateVars, chainVars>>

-----------------------------------------------------------------------------
(***************************************************************************)
(* Properties.                                                             *)
(***************************************************************************)
Rejected == answer.result \in {"expired", "untrusted"}

\* A chain that the verifier refused is never lost on the way to the report,
\* whichever verifier answered, whichever certificate it blamed and whatever the
\* clock did meanwhile: the certificate earns nothing, a serious finding names
\* it, and no policy passes (scanner.go:741-749, "graded A 91/100 with zero
\* findings, and passed the policy gate with exit 0").
RejectedChainIsExposed ==
  Judged /\ Rejected =>
    /\ grade.factors["certificate"] = 0
    /\ config.checkVulns =>
         \E v \in CertificateFindings(measured.cert) \cap vulns : v.severity \in {"CRITICAL", "HIGH"}
    /\ verdict # "compliant"

\* Nobody is blamed who is not at fault.  A reason that names a certificate and
\* an end of its window is right about both; the leaf is left to its own finding
\* only if it has one, so that one defect is stated once; and as long as no
\* boundary is crossed between the two readings of the clock, the certificate
\* the verifier or the trust store is said to have failed on did fail
\* (scanner.go:828-831, 879-887; :759-775 on the two readings).
BlameIsHonest ==
  probe = "verified" /\ Rejected =>
    LET link(i) == connection.chain[i]
        steady == Faults(connection, now) = Faults(connection, clock)
    IN  /\ reason.end = "expired" => now > link(reason.about).to
        /\ reason.end = "not_valid_yet" => now < link(reason.about).from
        /\ reason.about = Leaf <=> measured.cert.chain = "notPerformed"
        /\ reason.about = Leaf => Expired(measured.cert) \/ measured.cert.notYetValid
        /\ steady /\ reason.says \in {"verifier_named", "trust_store"} =>
             reason.about \in Faults(connection, now)
        /\ steady /\ reason.says = "presented" => reason.end # "outside"
=============================================================================
