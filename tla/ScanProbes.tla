---------------------------- MODULE ScanProbes -----------------------------
(***************************************************************************)
(* One call of Scanner.Scan up to its measured result: the target is       *)
(* parsed and resolved, four families of probe goroutines (protocol        *)
(* versions, one ordinary connection, key exchange groups, cipher suites)  *)
(* make their handshakes concurrently, each family stores what it found    *)
(* under the mutex, and after wg.Wait the scan merges the pieces or        *)
(* reports that it measured nothing.                                       *)
(*                                                                         *)
(* What a handshake can end in is in module Offers.  It may also be lost   *)
(* to the network, time out on a silent peer, or be cut short by the       *)
(* cancellation of the caller's context.                                   *)
(***************************************************************************)
EXTENDS Offers

CONSTANTS
  ConnectTimeout,   \* bound on one handshake, 0 for none
  MaxLosses         \* bound on handshakes lost to the network

ASSUME ScanAssumption == ConnectTimeout \in Nat /\ MaxLosses \in Nat

-----------------------------------------------------------------------------
VARIABLES
  server, config,   \* the environment
  cancelled,        \* the caller's context
  losses,           \* handshakes lost to the network so far
  main,             \* where Scan is
  shake,            \* what each probe's handshake ended in
  stored,           \* the families whose goroutine stored its findings
  protocols,        \* result.Protocols
  certificate,      \* result.Certificate # nil
  ciphers,          \* result.CipherSuites, from the connection alone
  negotiated,       \* the group of the connection
  offered,          \* groups found by the group probes
  skipped,          \* groups this build cannot offer
  offeredCiphers,   \* suites found by the suite probes
  result            \* what Scan returns

vars == <<server, config, cancelled, losses, main, shake, stored, protocols,
          certificate, ciphers, negotiated, offered, skipped, offeredCiphers, result>>
findings == <<protocols, certificate, ciphers, negotiated, offered, skipped, offeredCiphers>>

Pending == [version |-> "pending", suite |-> "", group |-> ""]
Failed  == [version |-> "failed",  suite |-> "", group |-> ""]
Completed(p) == shake[p] \notin {Pending, Failed}

TypeOK ==
  /\ server \in Servers /\ config \in Configs
  /\ cancelled \in BOOLEAN /\ losses \in 0..MaxLosses
  /\ main \in {"start", "resolve", "probe", "invalid", "unresolved", "noTLS", "scanned"}
  /\ shake \in [Probes -> Handshake \cup {Pending, Failed}]
  /\ stored \subseteq Families
  /\ protocols \in Seq(ProtocolEntry)
  /\ certificate \in BOOLEAN
  /\ ciphers \subseteq Suites \cup Suites13 /\ offeredCiphers \subseteq Suites
  /\ negotiated \subseteq Groups /\ offered \subseteq Groups /\ skipped \subseteq Groups
  /\ result \in Returned

Init ==
  /\ server \in Servers /\ config \in Configs
  /\ cancelled = FALSE /\ losses = 0
  /\ main = "start"
  /\ shake = [p \in Probes |-> Pending]
  /\ stored = {}
  /\ protocols = << >>
  /\ certificate = FALSE
  /\ ciphers = {} /\ negotiated = {} /\ offered = {} /\ skipped = {} /\ offeredCiphers = {}
  /\ result = NoResult

-----------------------------------------------------------------------------
(***************************************************************************)
(* Scan, before the probes.                                                *)
(***************************************************************************)
ParseTarget ==
  /\ main = "start"
  /\ main' \in {"resolve", "invalid"}
  /\ UNCHANGED <<server, config, cancelled, losses, shake, stored, findings, result>>

\* net.LookupIP: takes no context.
Resolve ==
  /\ main = "resolve"
  /\ main' \in {"probe", "unresolved"}
  /\ UNCHANGED <<server, config, cancelled, losses, shake, stored, findings, result>>

-----------------------------------------------------------------------------
(***************************************************************************)
(* One probe's handshake.                                                  *)
(***************************************************************************)
Dialling(p) == main = "probe" /\ shake[p] = Pending

Ends(p, h) ==
  /\ shake' = [shake EXCEPT ![p] = h]
  /\ UNCHANGED <<server, config, cancelled, main, stored, findings, result>>

\* The ordinary connection dials with tls.DialWithDialer, which takes no
\* context; every other probe dials with DialContext.
HonoursContext(p) == p # Connection

Completes(p) ==
  /\ Dialling(p)
  /\ cancelled => ~HonoursContext(p)
  /\ \E h \in Handshakes(Offer(p), server) :
       Ends(p, IF Confirmed(p, h) THEN h ELSE Failed)
  /\ UNCHANGED losses

Declined(p) ==
  /\ Dialling(p)
  /\ ~server.silent /\ Handshakes(Offer(p), server) = {}
  /\ Ends(p, Failed)
  /\ UNCHANGED losses

\* Mutant: the dialer of the ordinary connection is given no Timeout.
TimesOutWithContext(p) ==
  /\ Dialling(p)
  /\ server.silent /\ ConnectTimeout > 0 /\ HonoursContext(p)
  /\ Ends(p, Failed)
  /\ UNCHANGED losses

TimesOut(p) ==
  /\ Dialling(p)
  /\ server.silent /\ ConnectTimeout > 0
  /\ Ends(p, Failed)
  /\ UNCHANGED losses

Aborts(p) ==
  /\ Dialling(p)
  /\ cancelled /\ HonoursContext(p)
  /\ Ends(p, Failed)
  /\ UNCHANGED losses

\* The network drops the connection: there is no second attempt.
IsLost(p) ==
  /\ Dialling(p)
  /\ losses < MaxLosses
  /\ losses' = losses + 1
  /\ Ends(p, Failed)

\* The interrupt handler of the command cancels the context.
Cancel ==
  /\ main \in {"start", "resolve", "probe"}
  /\ ~cancelled
  /\ cancelled' = TRUE
  /\ UNCHANGED <<server, config, losses, main, shake, stored, findings, result>>

-----------------------------------------------------------------------------
(***************************************************************************)
(* The four goroutines of Scan: each waits for its own probes, then stores *)
(* its findings while it holds mu.                                         *)
(***************************************************************************)
\* Mutant: a family stores without waiting for its probes.
StoresEarly(f) ==
  /\ main = "probe"
  /\ f \notin stored
  /\ stored' = stored \cup {f}
  /\ UNCHANGED <<server, config, cancelled, losses, main, shake, result>>

Stores(f) ==
  /\ main = "probe"
  /\ f \notin stored
  /\ \A p \in FamilyOf(f) : shake[p] # Pending
  /\ stored' = stored \cup {f}
  /\ UNCHANGED <<server, config, cancelled, losses, main, shake, result>>

Supports(k) == Completed(<<"version", Versions[k]>>)

\* Mutant: every supported version is marked preferred.
AllPreferred(k) == Supports(k)

\* The first supported version in declared order.
Preferred(k) == Supports(k) /\ \A m \in 1..k-1 : ~Supports(m)

StoreProtocols ==
  /\ Stores("version")
  /\ protocols' = [k \in DOMAIN Versions |->
       [version |-> Versions[k], supported |-> Supports(k), preferred |-> Preferred(k)]]
  /\ UNCHANGED <<certificate, ciphers, negotiated, offered, skipped, offeredCiphers>>

\* Mutant: the error of the dial is ignored.
GroupUnchecked == {shake[Connection].group} \ {NoGroup}

\* parseKeyExchange: no group when no key agreement took place.
ConnectionGroup ==
  IF Completed(Connection) THEN {shake[Connection].group} \ {NoGroup} ELSE {}

\* Every TLS server here presents a certificate.
StoreConnection ==
  /\ Stores("connection")
  /\ certificate' = Completed(Connection)
  /\ ciphers' = IF Completed(Connection) THEN {shake[Connection].suite} ELSE {}
  /\ negotiated' = ConnectionGroup
  /\ UNCHANGED <<protocols, offered, skipped, offeredCiphers>>

\* Mutant: a group this build cannot offer is passed over in silence.
SkipSilently == {}

\* toolchainSupportsGroup
SkippedGroups == Groups \ ToolchainGroups

StoreGroups ==
  /\ Stores("group")
  /\ offered' = {g \in ToolchainGroups : Completed(<<"group", g>>)}
  /\ skipped' = SkippedGroups
  /\ UNCHANGED <<protocols, certificate, ciphers, negotiated, offeredCiphers>>

StoreSuites ==
  /\ Stores("suite")
  /\ offeredCiphers' = {s \in Suites : Completed(<<"suite", s>>)}
  /\ UNCHANGED <<protocols, certificate, ciphers, negotiated, offered, skipped>>

-----------------------------------------------------------------------------
(***************************************************************************)
(* Scan, after wg.Wait.                                                    *)
(***************************************************************************)
\* sort.SliceStable over entries that all differ: an entry stands behind as
\* many entries as precede it.
Sorted(entries, precedes) ==
  [k \in 1..Cardinality(entries) |->
     CHOOSE e \in entries : Cardinality({d \in entries : <<d, e>> \in precedes}) = k - 1]

\* Mutant: sorted by name alone.
FirstByName(a, b) == NameRank[a.id] < NameRank[b.id]

StrongerSuite(a, b) ==
  \/ Bits[a.id] > Bits[b.id]
  \/ Bits[a.id] = Bits[b.id] /\ NameRank[a.id] < NameRank[b.id]

ByStrength(entries) ==
  Sorted(entries, {ab \in entries \X entries : StrongerSuite(ab[1], ab[2])})

\* Mutant: the enumerated entry of a suite hides the negotiated one.
MergeOfferedFirst(neg, off) ==
  ByStrength([id : off, negotiated : {FALSE}] \cup [id : neg \ off, negotiated : {TRUE}])

\* mergeCipherSuites: the negotiated suite comes first in the deduplication,
\* then the strongest suite comes first in the list.
MergeCipherSuites(neg, off) ==
  ByStrength([id : neg, negotiated : {TRUE}] \cup [id : off \ neg, negotiated : {FALSE}])

StrongerGroup(a, b) ==
  LET kind(g) == IF g.name \in HybridGroups THEN 1 ELSE 2
  IN  \/ kind(a) < kind(b)
      \/ kind(a) = kind(b) /\ GroupBits[a.name] > GroupBits[b.name]
      \/ /\ kind(a) = kind(b) /\ GroupBits[a.name] = GroupBits[b.name]
         /\ NameRank[a.name] < NameRank[b.name]

\* mergeKeyExchanges: one entry per group, negotiated if the connection used
\* it, post-quantum groups first.
MergeKeyExchanges(neg, off) ==
  LET entries == {[name |-> g, negotiated |-> g \in neg] : g \in neg \cup off}
  IN  Sorted(entries, {ab \in entries \X entries : StrongerGroup(ab[1], ab[2])})

\* The negation of what counts as a measurement: a supported version, a
\* certificate or a group.  The suite probes do not count.
NothingMeasured ==
  /\ ~\E k \in DOMAIN protocols : protocols[k].supported
  /\ ~certificate
  /\ negotiated = {} /\ offered = {}

Warnings ==
  {"protocolRange", "suiteEnumeration", "clientPreference"}
    \cup (IF skipped # {} THEN {"groupsSkipped"} ELSE {})
    \cup (IF certificate THEN {"trustStore", "revocation"} ELSE {})
    \cup (IF config.sni = "other" THEN {"otherName"} ELSE {})
    \cup (IF config.checkVulns THEN {} ELSE {"noVulnerabilityPenalties"})
    \cup (IF config.checkQuantum THEN {} ELSE {"noQuantumDimension"})

\* wg.Wait has returned.
Joined == main = "probe" /\ stored = Families

ReportNoTLS ==
  /\ Joined /\ NothingMeasured
  /\ main' = "noTLS"
  /\ UNCHANGED <<server, config, cancelled, losses, shake, stored, findings, result>>

\* The assessment that follows is a function of this result: module Assessment.
ReportResult ==
  /\ Joined /\ ~NothingMeasured
  /\ main' = "scanned"
  /\ result' =
       [ protocols |-> protocols, certificate |-> certificate, warnings |-> Warnings,
         suites |-> MergeCipherSuites(ciphers, offeredCiphers),
         groups |-> MergeKeyExchanges(negotiated, offered) ]
  /\ UNCHANGED <<server, config, cancelled, losses, shake, stored, findings>>

-----------------------------------------------------------------------------
Settles(p) == Completes(p) \/ Declined(p) \/ TimesOut(p) \/ Aborts(p)

Store == StoreProtocols \/ StoreConnection \/ StoreGroups \/ StoreSuites

MainStep == ParseTarget \/ Resolve \/ ReportNoTLS \/ ReportResult

Ended == main \in {"invalid", "unresolved", "noTLS", "scanned"}

Next ==
  \/ MainStep \/ Store \/ Cancel
  \/ \E p \in Probes : Settles(p) \/ IsLost(p)
  \/ Ended /\ UNCHANGED vars

Spec == Init /\ [][Next]_vars

\* Some runnable goroutine runs, and a dial with a timeout returns.  No step
\* can be taken twice, so nothing stronger is needed.
FairSpec == Spec /\ WF_vars(MainStep \/ Store \/ \E p \in Probes : Settles(p))

-----------------------------------------------------------------------------
(***************************************************************************)
(* Properties.                                                             *)
(***************************************************************************)
Undisturbed == ~cancelled /\ losses = 0
Evidence == {p \in Probes : Completed(p)}
SuitesOf(r) == {r.suites[k].id : k \in DOMAIN r.suites}
GroupsOf(r) == {r.groups[k].name : k \in DOMAIN r.groups}
SupportedBy(r) == {r.protocols[k].version : k \in {m \in DOMAIN r.protocols : r.protocols[m].supported}}

\* A result is never fabricated: at least one handshake completed
\* (scanner.go:319, "the minimum evidence that a scan measured anything").
ResultNeedsEvidence == main = "scanned" => Evidence # {}

\* The result is the sum of what the probe goroutines saw, over every
\* interleaving, loss and cancellation: no handshake is lost between a probe
\* and the result, and nothing is reported that no handshake showed.
ResultIsWhatWasMeasured ==
  main = "scanned" =>
    /\ SupportedBy(result) = {v \in VersionNames : <<"version", v>> \in Evidence}
    /\ SuitesOf(result) = {shake[p].suite : p \in Evidence \cap (FamilyOf("suite") \cup {Connection})}
    /\ GroupsOf(result) =
         {shake[p].group : p \in Evidence \cap (FamilyOf("group") \cup {Connection})} \ {NoGroup}

\* Exactly the suite and the group of the ordinary connection are marked
\* negotiated, also when the enumeration found them too, and no entry appears
\* twice; without a connection nothing is marked.
NegotiatedIsMarked ==
  main = "scanned" =>
    /\ {result.suites[k].id : k \in {m \in DOMAIN result.suites : result.suites[m].negotiated}}
         = IF Connection \in Evidence THEN {shake[Connection].suite} ELSE {}
    /\ {result.groups[k].name : k \in {m \in DOMAIN result.groups : result.groups[m].negotiated}}
         = IF Connection \in Evidence THEN {shake[Connection].group} \ {NoGroup} ELSE {}
    /\ Cardinality(SuitesOf(result)) = Len(result.suites)
    /\ Cardinality(GroupsOf(result)) = Len(result.groups)

\* Two independent probes agree: at most one version is marked preferred, and
\* an undisturbed connection negotiated just that one.
PreferredIsNegotiated ==
  main = "scanned" =>
    LET preferred == {k \in DOMAIN result.protocols : result.protocols[k].preferred}
    IN  /\ Cardinality(preferred) <= 1
        /\ Undisturbed /\ Connection \in Evidence =>
             {result.protocols[k].version : k \in preferred} = {shake[Connection].version}

\* An undisturbed scan lists every suite of TLS 1.2 and earlier that the server
\* would use with this client at its highest such version, also when the server
\* prefers TLS 1.3 ("presented the answer as the server's full cipher
\* configuration" is the defect this enumeration replaced).
UsableSuites ==
  LET old == {k \in DOMAIN Versions : Versions[k] \in server.versions \ {"TLS1.3"}}
      highest == Versions[CHOOSE k \in old : \A m \in old : k <= m]
  IN  IF server.silent \/ old = {} THEN {}
      ELSE {s \in server.suites :
              /\ s \in AeadSuites => highest = "TLS1.2"
              /\ s \in EcdheSuites =>
                   (server.groups \cap ToolchainGroups) \ HybridGroups # {}}

UndisturbedScanIsExhaustive ==
  main = "scanned" /\ Undisturbed => UsableSuites \subseteq SuitesOf(result)

\* A group that is absent from the result was offered to the server without
\* success, or the result says that this build could not offer it: absence is
\* never silent (scanner.go:441, "rather than reported unsupported").
AbsenceIsExplained ==
  main = "scanned" =>
    \A g \in Groups \ GroupsOf(result) :
      \/ g \in ToolchainGroups /\ shake[<<"group", g>>] = Failed
      \/ g \notin ToolchainGroups /\ "groupsSkipped" \in result.warnings

\* Scan returns, whoever is at the other end.
ScanReturns == <>Ended

\* "Connection probes honour the caller's context for cancellation"
\* (CHANGELOG.md:835): after the cancellation no probe completes a handshake.
CancellationIsHonoured ==
  [][cancelled => \A p \in Probes : shake'[p] \in {shake[p], Failed}]_vars

\* "no TLS connection could be established" (scanner.go:169) is said only of a
\* host with which no probe established one.
NoTLSMeansNoHandshake == main = "noTLS" /\ Undisturbed => Evidence = {}

\* The concurrent scan shows its caller what one look at the server could have
\* shown, all at once: no order of its goroutines is visible in the result.
State == IF main \in {"start", "resolve", "probe"} THEN "scanning" ELSE main

Contract == INSTANCE ScanContract WITH state <- State, disturbed <- ~Undisturbed
ImplementsScanContract == Contract!Spec
=============================================================================
