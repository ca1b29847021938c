--------------------------- MODULE ScanRefinement ---------------------------
(***************************************************************************)
(* A scan implements ScanContract, for every server, set of suites and     *)
(* groups, number of losses and order of its goroutines: the join reports  *)
(* on one look at the server, the probes that completed, and every other   *)
(* step fails before measuring, disturbs the look or is invisible.         *)
(***************************************************************************)
EXTENDS ScanProofs

-----------------------------------------------------------------------------
(***************************************************************************)
(* The contract's probes and offers are those of the scan.                 *)
(***************************************************************************)
LEMMA SameVersions ==
  /\ Contract!Versions = Versions /\ Contract!VersionNames = VersionNames
  /\ Contract!Connection = Connection /\ Contract!NoGroup = NoGroup
BY DEF Contract!Versions, Versions, Contract!VersionNames, VersionNames, Contract!Connection,
       Connection, Contract!NoGroup, NoGroup

LEMMA SameProbes == Contract!Probes = Probes
BY SameVersions DEF Contract!Probes, Probes

LEMMA SameOffers ==
  ASSUME NEW p
  PROVE  /\ Contract!Offer(p) = Offer(p)
         /\ \A h : Contract!Confirmed(p, h) <=> Confirmed(p, h)
BY SameVersions DEF Contract!Offer, Offer, Contract!Confirmed, Confirmed

LEMMA SameHandshakes ==
  ASSUME NEW offer, NEW s
  PROVE  Contract!Handshakes(offer, s) = Handshakes(offer, s)
BY DEF Contract!Handshakes, Handshakes, Contract!Versions, Versions, Contract!NoGroup, NoGroup

LEMMA SameResults == Contract!Returned = Returned /\ Contract!NoResult = NoResult
BY SameVersions DEF Contract!Returned, Returned, Contract!NoResult, NoResult, Contract!ProtocolEntry,
       ProtocolEntry, Contract!SuiteEntry, SuiteEntry, Contract!GroupEntry, GroupEntry,
       Contract!Warning, Warning

-----------------------------------------------------------------------------
(***************************************************************************)
(* The order of the lists.                                                 *)
(***************************************************************************)
\* Sorted lists along the order.
LEMMA SortedAlong ==
  ASSUME NEW S, NEW R, IsFiniteSet(S), StrictOrder(S, R),
         NEW j \in 1..Cardinality(S), NEW k \in 1..Cardinality(S), j < k
  PROVE  /\ Sorted(S, R)[j] \in S /\ Sorted(S, R)[k] \in S
         /\ <<Sorted(S, R)[j], Sorted(S, R)[k]>> \in R
<1> DEFINE s == Sorted(S, R)
<1>1. Cardinality(S) \in Nat
  BY FS_CardinalityType
<1>2. ASSUME NEW i \in 1..Cardinality(S)
      PROVE  s[i] \in S /\ Cardinality(Above(s[i], S, R)) = i - 1
  <2>1. \E e \in S : Cardinality(Above(e, S, R)) = i - 1
    BY PlacesAreFilled
  <2>2. s[i] = CHOOSE e \in S : Cardinality(Above(e, S, R)) = i - 1
    BY DEF Sorted, Above
  <2> HIDE DEF s
  <2> QED
    BY <2>1, <2>2
<1> HIDE DEF s
<1>3. s[j] # s[k]
  BY <1>1, <1>2
<1>4. <<s[k], s[j]>> \in R => Cardinality(Above(s[k], S, R)) < Cardinality(Above(s[j], S, R))
  BY <1>2, PlaceInOrder
<1>5. <<s[k], s[j]>> \notin R
  BY <1>1, <1>2, <1>4
<1> QED
  BY <1>2, <1>3, <1>5 DEF StrictOrder, s

\* mergeCipherSuites reports suites as the contract wants them.
LEMMA SuitesAreReported ==
  ASSUME NEW neg \in SUBSET (Suites \cup Suites13), NEW off \in SUBSET Suites
  PROVE  LET s == MergeCipherSuites(neg, off)
         IN  /\ Contract!Lists(s, Contract!SuiteEntries(neg, off))
             /\ \A j, k \in DOMAIN s : j < k => Bits[s[j].id] >= Bits[s[k].id]
<1> DEFINE s == MergeCipherSuites(neg, off)
           S == [id : neg, negotiated : {TRUE}] \cup [id : off \ neg, negotiated : {FALSE}]
           R == {ab \in S \X S : StrongerSuite(ab[1], ab[2])}
           T == Contract!SuiteEntries(neg, off)
<1>1. \A e \in S : /\ e \in SuiteEntry /\ e.id \in neg \cup off
                   /\ e.negotiated <=> e.id \in neg
  BY DEF SuiteEntry
<1>2. \A i \in neg \cup off : \E e \in S : e.id = i
  <2> SUFFICES ASSUME NEW i \in neg \cup off PROVE \E e \in S : e.id = i
    OBVIOUS
  <2>1. CASE i \in neg
    <3>1. [id |-> i, negotiated |-> TRUE] \in S
      BY <2>1
    <3> QED
      BY <3>1
  <2>2. CASE i \notin neg
    <3>1. [id |-> i, negotiated |-> FALSE] \in S
      BY <2>2
    <3> QED
      BY <3>1
  <2> QED
    BY <2>1, <2>2
<1>3. s = Sorted(S, R)
  BY DEF MergeCipherSuites, ByStrength
<1> HIDE DEF S, s
<1>4. \A a, b \in S : a.id = b.id => a = b
  BY <1>1 DEF SuiteEntry
<1>5. S = T
  <2>1. \A e \in SuiteEntry : e \in S <=> e.id \in neg \cup off /\ (e.negotiated <=> e.id \in neg)
    BY <1>1, <1>2 DEF SuiteEntry
  <2>2. T = {e \in SuiteEntry : e.id \in neg \cup off /\ (e.negotiated <=> e.id \in neg)}
    BY DEF Contract!SuiteEntries, Contract!SuiteEntry, SuiteEntry
  <2> HIDE DEF T
  <2> QED
    BY <1>1, <2>1, <2>2
<1> HIDE DEF T
<1>6. IsFiniteSet(S) /\ StrictOrder(S, R)
  BY <1>1, <1>4, SuitesOrdered
<1>7. \A ab \in R : ab[1] \in S /\ ab[2] \in S /\ StrongerSuite(ab[1], ab[2])
  OBVIOUS
<1>8. \A e \in S : Bits[e.id] \in Nat
  BY <1>1, ProbesAssumption DEF SuiteEntry
<1> HIDE DEF R
<1>9. /\ DOMAIN s = 1..Cardinality(S)
      /\ {s[k] : k \in DOMAIN s} = S
      /\ \A j, k \in DOMAIN s : s[j] = s[k] => j = k
  BY <1>3, <1>6, SortedIsBijection
<1>10. ASSUME NEW j \in DOMAIN s, NEW k \in DOMAIN s, j < k
       PROVE  Bits[s[j].id] >= Bits[s[k].id]
  <2>1. s[j] \in S /\ s[k] \in S /\ <<s[j], s[k]>> \in R
    BY <1>3, <1>6, <1>9, <1>10, SortedAlong
  <2>2. StrongerSuite(s[j], s[k])
    BY <1>7, <2>1
  <2> QED
    BY <1>8, <2>1, <2>2 DEF StrongerSuite
<1>11. Contract!Lists(s, T)
  BY <1>5, <1>9 DEF Contract!Lists
<1> QED
  BY <1>10, <1>11 DEF s, T

\* mergeKeyExchanges reports groups as the contract wants them.
LEMMA GroupsAreReported ==
  ASSUME NEW neg \in SUBSET Groups, NEW off \in SUBSET Groups
  PROVE  LET s == MergeKeyExchanges(neg, off)
         IN  /\ Contract!Lists(s, Contract!GroupEntries(neg, off))
             /\ \A j, k \in DOMAIN s :
                  j < k =>
                    /\ s[k].name \in HybridGroups => s[j].name \in HybridGroups
                    /\ (s[j].name \in HybridGroups <=> s[k].name \in HybridGroups)
                         => GroupBits[s[j].name] >= GroupBits[s[k].name]
<1> DEFINE s == MergeKeyExchanges(neg, off)
           S == {[name |-> g, negotiated |-> g \in neg] : g \in neg \cup off}
           R == {ab \in S \X S : StrongerGroup(ab[1], ab[2])}
           T == Contract!GroupEntries(neg, off)
<1>1. \A e \in S : /\ e \in GroupEntry /\ e.name \in neg \cup off
                   /\ e.negotiated <=> e.name \in neg
  <2> SUFFICES ASSUME NEW g \in neg \cup off, NEW e, e = [name |-> g, negotiated |-> g \in neg]
               PROVE  /\ e \in GroupEntry /\ e.name \in neg \cup off
                      /\ e.negotiated <=> e.name \in neg
    OBVIOUS
  <2>1. e.name = g /\ e.negotiated = (g \in neg)
    OBVIOUS
  <2>2. e \in GroupEntry
    BY (g \in neg) \in BOOLEAN DEF GroupEntry
  <2> QED
    BY <2>1, <2>2
<1>2. \A g \in neg \cup off : \E e \in S : e.name = g
  <2> SUFFICES ASSUME NEW g \in neg \cup off PROVE \E e \in S : e.name = g
    OBVIOUS
  <2> DEFINE e == [name |-> g, negotiated |-> g \in neg]
  <2>1. e \in S /\ e.name = g
    OBVIOUS
  <2> QED
    BY <2>1
<1>3. s = Sorted(S, R)
  BY DEF MergeKeyExchanges
<1> HIDE DEF S, s
<1>4. \A a, b \in S : a.name = b.name => a = b
  BY <1>1 DEF GroupEntry
<1>5. S = T
  <2>1. \A e \in GroupEntry : e \in S <=> e.name \in neg \cup off /\ (e.negotiated <=> e.name \in neg)
    BY <1>1, <1>2 DEF GroupEntry
  <2>2. T = {e \in GroupEntry : e.name \in neg \cup off /\ (e.negotiated <=> e.name \in neg)}
    BY DEF Contract!GroupEntries, Contract!GroupEntry, GroupEntry
  <2> HIDE DEF T
  <2> QED
    BY <1>1, <2>1, <2>2
<1> HIDE DEF T
<1>6. IsFiniteSet(S) /\ StrictOrder(S, R)
  BY <1>1, <1>4, GroupsOrdered
<1>7. \A ab \in R : ab[1] \in S /\ ab[2] \in S /\ StrongerGroup(ab[1], ab[2])
  OBVIOUS
<1>8. \A e \in S : GroupBits[e.name] \in Nat
  BY <1>1, ProbesAssumption DEF GroupEntry
<1> HIDE DEF R
<1>9. /\ DOMAIN s = 1..Cardinality(S)
      /\ {s[k] : k \in DOMAIN s} = S
      /\ \A j, k \in DOMAIN s : s[j] = s[k] => j = k
  BY <1>3, <1>6, SortedIsBijection
<1>10. ASSUME NEW j \in DOMAIN s, NEW k \in DOMAIN s, j < k
       PROVE  /\ s[k].name \in HybridGroups => s[j].name \in HybridGroups
              /\ (s[j].name \in HybridGroups <=> s[k].name \in HybridGroups)
                   => GroupBits[s[j].name] >= GroupBits[s[k].name]
  <2>1. s[j] \in S /\ s[k] \in S /\ <<s[j], s[k]>> \in R
    BY <1>3, <1>6, <1>9, <1>10, SortedAlong
  <2>2. StrongerGroup(s[j], s[k])
    BY <1>7, <2>1
  <2> QED
    BY <1>8, <2>1, <2>2 DEF StrongerGroup
<1>11. Contract!Lists(s, T)
  BY <1>5, <1>9 DEF Contract!Lists
<1> QED
  BY <1>10, <1>11 DEF s, T

-----------------------------------------------------------------------------
(***************************************************************************)
(* After the join, the completed probes are one look at the server.        *)
(***************************************************************************)
\* Every probe belongs to a family, and it is the pair of its two parts.
LEMMA ProbeFamily ==
  ASSUME NEW p \in Probes
  PROVE  /\ p[1] \in Families /\ p \in FamilyOf(p[1]) /\ p = <<p[1], p[2]>>
<1>1. p[1] \in Families /\ p \in FamilyOf(p[1])
  BY ProbeForms DEF Families, FamilyOf
<1>2. p = <<p[1], p[2]>>
  <2>1. CASE p \in {"version"} \X VersionNames
    BY <2>1
  <2>2. CASE p = Connection
    BY <2>2 DEF Connection
  <2>3. CASE p \in {"group"} \X ToolchainGroups
    BY <2>3
  <2>4. CASE p \in {"suite"} \X Suites
    BY <2>4
  <2> QED
    BY <2>1, <2>2, <2>3, <2>4 DEF Probes
<1> QED
  BY <1>1, <1>2

\* What completed could, and in an undisturbed scan what had to be answered was.
LEMMA EvidenceIsALook ==
  ASSUME Faithful, stored = Families
  PROVE  Evidence \in Contract!Looks
<1>1. \A p \in Probes : Contract!Replies(p) = Handshakes(Offer(p), server)
  BY SameOffers, SameHandshakes DEF Contract!Replies
<1>2. \A p \in Evidence : p \in Probes /\ Contract!MayAnswer(p)
  BY <1>1, SameOffers DEF Contract!MayAnswer, Evidence, Faithful, HandshakesAreReal
<1>3. ASSUME Undisturbed, NEW p \in Probes, Contract!MustAnswer(p)
      PROVE  p \in Evidence
  <2>1. /\ Handshakes(Offer(p), server) # {}
        /\ \A h \in Handshakes(Offer(p), server) : Confirmed(p, h)
    BY <1>1, <1>3, SameOffers DEF Contract!MustAnswer
  <2>2. shake[p] # Pending
    BY ProbeFamily, StoredIsSummary
  <2> QED
    BY <1>3, <2>1, <2>2, UndisturbedProbe DEF Evidence
<1> QED
  BY <1>2, <1>3, SameProbes DEF Contract!Looks

\* The suite and the group on record are those of a reply to the connection.
LEMMA ConnectionIsUsed ==
  ASSUME Faithful, stored = Families
  PROVE  [suite |-> ciphers, group |-> negotiated] \in Contract!Uses(Evidence)
<1>1. Contract!Replies(Connection) = Handshakes(Offer(Connection), server)
  BY SameOffers, SameHandshakes DEF Contract!Replies
<1>2. Connection \in Probes
  BY FamilyMembers DEF Families
<1>3. CASE Completed(Connection)
  <2>1. shake[Connection] \in Contract!Replies(Connection)
    BY <1>1, <1>2, <1>3 DEF Faithful, HandshakesAreReal
  <2>2. /\ ciphers = {shake[Connection].suite}
        /\ negotiated = {shake[Connection].group} \ {NoGroup}
    BY <1>3, StoredIsSummary DEF ConnectionGroup
  <2>3. Connection \in Evidence
    BY <1>2, <1>3 DEF Evidence
  <2> QED
    BY <2>1, <2>2, <2>3, SameVersions DEF Contract!Uses
<1>4. CASE ~Completed(Connection)
  <2>1. ciphers = {} /\ negotiated = {}
    BY <1>4, StoredIsSummary DEF ConnectionGroup
  <2>2. Connection \notin Evidence
    BY <1>4 DEF Evidence
  <2> QED
    BY <2>1, <2>2, SameVersions DEF Contract!Uses
<1> QED
  BY <1>3, <1>4

\* Nothing was measured when no probe but those of the suites completed.
LEMMA NothingIsShown ==
  ASSUME Faithful, stored = Families
  PROVE  NothingMeasured <=> Contract!ShowsNothing(Evidence)
<1>1. /\ (\E k \in DOMAIN protocols : protocols[k].supported)
           <=> \E k \in DOMAIN Versions : Completed(<<"version", Versions[k]>>)
      /\ certificate <=> Completed(Connection)
      /\ negotiated # {} => Completed(Connection)
      /\ offered # {} <=> \E g \in ToolchainGroups : Completed(<<"group", g>>)
  BY StoredIsSummary DEF Supports, ConnectionGroup
<1>2. ASSUME NothingMeasured, NEW p \in Evidence PROVE p[1] = "suite"
  <2>1. p \in Probes /\ Completed(p) /\ p = <<p[1], p[2]>>
    BY ProbeFamily DEF Evidence
  <2>2. \A v \in VersionNames : \E k \in DOMAIN Versions : v = Versions[k]
    BY DEF VersionNames
  <2> QED
    BY <1>1, <1>2, <2>1, <2>2, ProbeForms DEF NothingMeasured
<1>3. ASSUME ~NothingMeasured PROVE \E p \in Evidence : p[1] # "suite"
  <2>1. CASE \E k \in DOMAIN Versions : Completed(<<"version", Versions[k]>>)
    <3>1. PICK k \in DOMAIN Versions : Completed(<<"version", Versions[k]>>)
      BY <2>1
    <3>2. <<"version", Versions[k]>> \in Evidence
      BY <3>1, FamilyMembers DEF Evidence, Families
    <3> QED
      BY <3>2
  <2>2. CASE Completed(Connection)
    <3>1. Connection \in Evidence
      BY <2>2, FamilyMembers DEF Evidence, Families
    <3> QED
      BY <3>1 DEF Connection
  <2>3. CASE \E g \in ToolchainGroups : Completed(<<"group", g>>)
    <3>1. PICK g \in ToolchainGroups : Completed(<<"group", g>>)
      BY <2>3
    <3>2. <<"group", g>> \in Evidence
      BY <3>1, FamilyMembers DEF Evidence, Families
    <3> QED
      BY <3>2
  <2> QED
    BY <1>1, <1>3, <2>1, <2>2, <2>3 DEF NothingMeasured
<1> QED
  BY <1>2, <1>3 DEF Contract!ShowsNothing

-----------------------------------------------------------------------------
(***************************************************************************)
(* The report on that look.                                                *)
(***************************************************************************)
\* The versions on record are those of the look, the highest one preferred.
LEMMA ProtocolsAreReported ==
  ASSUME Faithful, stored = Families
  PROVE  Contract!ProtocolsReported(protocols, Evidence)
<1> DEFINE answers == {k \in DOMAIN Versions : <<"version", Versions[k]>> \in Evidence}
<1>1. \A k \in DOMAIN Versions : k \in answers <=> Supports(k)
  BY FamilyMembers DEF Supports, Evidence, Families
<1>2. ASSUME NEW k \in DOMAIN Versions
      PROVE  Preferred(k) <=> k \in answers /\ \A m \in answers : k <= m
  <2>1. \A m \in DOMAIN Versions : k <= m <=> ~(m \in 1..k-1)
    BY VersionOrder
  <2>2. \A m \in 1..k-1 : m \in DOMAIN Versions
    BY VersionOrder
  <2>3. answers \subseteq DOMAIN Versions
    OBVIOUS
  <2> HIDE DEF answers
  <2> QED
    BY <1>1, <2>1, <2>2, <2>3 DEF Preferred
<1>3. /\ DOMAIN protocols = DOMAIN Versions
      /\ \A k \in DOMAIN Versions :
           /\ protocols[k].version = Versions[k]
           /\ protocols[k].supported <=> k \in answers
           /\ protocols[k].preferred <=> k \in answers /\ \A m \in answers : k <= m
  <2> HIDE DEF answers
  <2> QED
    BY <1>1, <1>2, StoredIsSummary
<1> QED
  BY <1>3, SameVersions DEF Contract!ProtocolsReported

\* The warnings disclose what they have to.
LEMMA WarningsDisclose ==
  ASSUME Faithful, stored = Families
  PROVE  Contract!Disclosed(Warnings)
<1>1. skipped # {} <=> Groups # ToolchainGroups
  BY StoredIsSummary, ProbesAssumption DEF SkippedGroups
<1> QED
  BY <1>1 DEF Contract!Disclosed, Warnings

\* The suites and the groups that completed are the enumerated ones on record.
LEMMA EnumeratedAreFound ==
  ASSUME Faithful, stored = Families
  PROVE  /\ {s \in Suites : <<"suite", s>> \in Evidence} = offeredCiphers
         /\ {g \in ToolchainGroups : <<"group", g>> \in Evidence} = offered
         /\ Connection \in Evidence <=> certificate
BY StoredIsSummary, FamilyMembers DEF Evidence, Families

-----------------------------------------------------------------------------
(***************************************************************************)
(* The steps.                                                              *)
(***************************************************************************)
\* The join reports on the look.
LEMMA ReportMeasures ==
  ASSUME Faithful, ReportNoTLS \/ ReportResult
  PROVE  Contract!Measure
<1> DEFINE used == [suite |-> ciphers, group |-> negotiated]
<1>1. stored = Families /\ State = "scanning"
  BY DEF ReportNoTLS, ReportResult, Joined, State
<1>2. Evidence \in Contract!Looks /\ used \in Contract!Uses(Evidence)
  BY <1>1, EvidenceIsALook, ConnectionIsUsed
<1>3. NothingMeasured <=> Contract!ShowsNothing(Evidence)
  BY <1>1, NothingIsShown
<1>4. UNCHANGED <<server, config>> /\ Undisturbed' = Undisturbed
  BY DEF ReportNoTLS, ReportResult, Undisturbed
<1>5. CASE ReportNoTLS
  <2>1. NothingMeasured /\ State' = "noTLS" /\ UNCHANGED result
    BY <1>5 DEF ReportNoTLS, State
  <2> QED
    BY <1>1, <1>2, <1>3, <1>4, <2>1 DEF Contract!Measure
<1>6. CASE ReportResult
  <2>1. ~NothingMeasured /\ State' = "scanned"
    BY <1>6 DEF ReportResult, State
  <2>2. result' \in Contract!Returned
    BY <1>6, ReportInv, SameResults DEF Faithful, TypeOK
  <2>3. /\ result'.protocols = protocols /\ result'.warnings = Warnings
        /\ result'.certificate = certificate
        /\ result'.suites = MergeCipherSuites(ciphers, offeredCiphers)
        /\ result'.groups = MergeKeyExchanges(negotiated, offered)
    BY <1>6 DEF ReportResult
  <2>4. /\ ciphers \in SUBSET (Suites \cup Suites13) /\ offeredCiphers \in SUBSET Suites
        /\ negotiated \in SUBSET Groups /\ offered \in SUBSET Groups
    BY DEF Faithful, TypeOK
  <2>5. Contract!SuitesReported(result'.suites, ciphers, Evidence)
    BY <1>1, <2>3, <2>4, EnumeratedAreFound, SuitesAreReported DEF Contract!SuitesReported
  <2>6. Contract!GroupsReported(result'.groups, negotiated, Evidence)
    BY <1>1, <2>3, <2>4, EnumeratedAreFound, GroupsAreReported DEF Contract!GroupsReported
  <2>7. Contract!ProtocolsReported(result'.protocols, Evidence)
    BY <1>1, <2>3, ProtocolsAreReported
  <2>8. Contract!Disclosed(result'.warnings)
    BY <1>1, <2>3, WarningsDisclose
  <2>9. result'.certificate <=> Contract!Connection \in Evidence
    BY <1>1, <2>3, EnumeratedAreFound, SameVersions
  <2>10. Contract!Return(Evidence, used)
    BY <2>1, <2>2, <2>5, <2>6, <2>7, <2>8, <2>9 DEF Contract!Return
  <2> QED
    BY <1>1, <1>2, <1>3, <1>4, <2>1, <2>10 DEF Contract!Measure
<1> QED
  BY <1>5, <1>6

\* A step of a probe is invisible, or it disturbs the look.
LEMMA ProbeIsQuiet ==
  ASSUME Faithful, NEW p \in Probes, Settles(p) \/ IsLost(p)
  PROVE  Contract!Disturb \/ UNCHANGED Contract!vars
<1>1. /\ main = "probe" /\ UNCHANGED <<server, config, cancelled, main, result>>
      /\ losses' \in 0..MaxLosses /\ losses <= losses' /\ losses \in 0..MaxLosses
  BY ProbeStep DEF Faithful, Dialling, TypeOK
<1>2. State = "scanning" /\ UNCHANGED State
  BY <1>1 DEF State
<1>3. Undisturbed' => Undisturbed
  BY <1>1, ScanAssumption DEF Undisturbed
<1>4. CASE Undisturbed' = Undisturbed
  BY <1>1, <1>2, <1>4 DEF Contract!vars
<1>5. CASE ~Undisturbed'
  BY <1>1, <1>2, <1>5 DEF Contract!Disturb
<1> QED
  BY <1>3, <1>4, <1>5 DEF Undisturbed

\* Every step of the scan is one of the contract, or invisible to the caller.
LEMMA StepRefines ==
  ASSUME Faithful, [Next]_vars
  PROVE  [Contract!Next]_(Contract!vars)
<1> USE DEF Contract!Next
<1>1. CASE ParseTarget \/ Resolve
  <2>1. /\ UNCHANGED <<server, config, result>> /\ Undisturbed' = Undisturbed
        /\ State = "scanning" /\ State' \in {"scanning", "invalid", "unresolved"}
    BY <1>1 DEF ParseTarget, Resolve, Undisturbed, State
  <2> QED
    BY <2>1 DEF Contract!Reject, Contract!vars
<1>2. CASE ReportNoTLS \/ ReportResult
  BY <1>2, ReportMeasures
<1>3. CASE Store
  <2>1. UNCHANGED <<server, config, cancelled, losses, main, result>>
    BY <1>3 DEF Store, StoreProtocols, StoreConnection, StoreGroups, StoreSuites, Stores
  <2> QED
    BY <2>1 DEF Contract!vars, Undisturbed, State
<1>4. CASE Cancel
  <2>1. /\ UNCHANGED <<server, config, result>> /\ ~Undisturbed'
        /\ State = "scanning" /\ State' = State
    BY <1>4 DEF Cancel, Undisturbed, State
  <2> QED
    BY <2>1 DEF Contract!Disturb
<1>5. CASE \E p \in Probes : Settles(p) \/ IsLost(p)
  BY <1>5, ProbeIsQuiet
<1>6. CASE UNCHANGED vars
  <2>1. UNCHANGED <<server, config, cancelled, losses, main, result>>
    BY <1>6 DEF vars
  <2> QED
    BY <2>1 DEF Contract!vars, Undisturbed, State
<1> QED
  BY <1>1, <1>2, <1>3, <1>4, <1>5, <1>6 DEF Next, MainStep

\* The concurrent scan shows its caller what one look at the server could have
\* shown: no order of its goroutines is visible in the result.
THEOREM ImplementsOneLook == Spec => ImplementsScanContract
<1>1. Init => Contract!Init
  BY SameResults DEF Init, Contract!Init, Undisturbed, State
<1>2. Faithful /\ [Next]_vars => [Contract!Next]_(Contract!vars)
  BY StepRefines
<1> QED
  BY Invariance, <1>1, <1>2, PTL DEF Spec, ImplementsScanContract, Contract!Spec
=============================================================================
