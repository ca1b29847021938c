---------------------------- MODULE ScanContract ----------------------------
(***************************************************************************)
(* What a scan promises its caller, with no goroutine, no mutex and no     *)
(* merge: it fails before it measures, or it looks at the server once and  *)
(* reports, in one piece, what that look showed.  A look that nothing      *)
(* disturbed shows everything the server is bound to answer; a disturbed   *)
(* one may show less, and never anything else.                             *)
(***************************************************************************)
EXTENDS Offers

VARIABLES
  server, config,   \* the environment
  disturbed,        \* a connection was lost or the caller gave up
  state,            \* "scanning", or how the scan ended
  result            \* what it returned

vars == <<server, config, disturbed, state, result>>

Init ==
  /\ server \in Servers /\ config \in Configs
  /\ disturbed = FALSE /\ state = "scanning" /\ result = NoResult

-----------------------------------------------------------------------------
(***************************************************************************)
(* One look at the server: the set of probes that it answered, and what    *)
(* the ordinary connection used.                                           *)
(***************************************************************************)
Replies(p) == Handshakes(Offer(p), server)

MayAnswer(p)  == \E h \in Replies(p) : Confirmed(p, h)
MustAnswer(p) == Replies(p) # {} /\ \A h \in Replies(p) : Confirmed(p, h)

Looks ==
  {answered \in SUBSET {p \in Probes : MayAnswer(p)} :
     ~disturbed => {p \in Probes : MustAnswer(p)} \subseteq answered}

\* The suite and the group of the connection, as sets that are empty without
\* one; a static key exchange has no group.
Uses(answered) ==
  IF Connection \in answered
    THEN {[suite |-> {h.suite}, group |-> {h.group} \ {NoGroup}] : h \in Replies(Connection)}
    ELSE {[suite |-> {}, group |-> {}]}

\* Suites that were enumerated are no evidence of their own.
ShowsNothing(answered) == \A p \in answered : p[1] = "suite"

-----------------------------------------------------------------------------
(***************************************************************************)
(* The report on a look.                                                   *)
(***************************************************************************)
\* A list of just these entries, each once.
Lists(list, entries) ==
  /\ {list[k] : k \in DOMAIN list} = entries
  /\ \A j, k \in DOMAIN list : list[j] = list[k] => j = k

\* The highest version that was answered is the preferred one.
ProtocolsReported(list, answered) ==
  LET answers == {k \in DOMAIN Versions : <<"version", Versions[k]>> \in answered}
  IN  /\ DOMAIN list = DOMAIN Versions
      /\ \A k \in DOMAIN list :
           /\ list[k].version = Versions[k]
           /\ list[k].supported <=> k \in answers
           /\ list[k].preferred <=> k \in answers /\ \A m \in answers : k <= m

\* The entries on these suites, which mark those that the connection used.
SuiteEntries(used, found) ==
  {e \in SuiteEntry : e.id \in used \cup found /\ (e.negotiated <=> e.id \in used)}
GroupEntries(used, found) ==
  {e \in GroupEntry : e.name \in used \cup found /\ (e.negotiated <=> e.name \in used)}

\* More bits come first.
SuitesReported(list, used, answered) ==
  /\ Lists(list, SuiteEntries(used, {s \in Suites : <<"suite", s>> \in answered}))
  /\ \A j, k \in DOMAIN list : j < k => Bits[list[j].id] >= Bits[list[k].id]

\* Hybrid groups come first, and of the others those of more bits.
GroupsReported(list, used, answered) ==
  /\ Lists(list, GroupEntries(used, {g \in ToolchainGroups : <<"group", g>> \in answered}))
  /\ \A j, k \in DOMAIN list :
       j < k =>
         /\ list[k].name \in HybridGroups => list[j].name \in HybridGroups
         /\ (list[j].name \in HybridGroups <=> list[k].name \in HybridGroups)
              => GroupBits[list[j].name] >= GroupBits[list[k].name]

\* What a reader must know to read the rest.
Disclosed(warnings) ==
  /\ "groupsSkipped" \in warnings <=> Groups # ToolchainGroups
  /\ "noVulnerabilityPenalties" \in warnings <=> ~config.checkVulns
  /\ "noQuantumDimension" \in warnings <=> ~config.checkQuantum
  /\ "otherName" \in warnings <=> config.sni = "other"

-----------------------------------------------------------------------------
\* The target cannot be parsed or resolved.
Reject ==
  /\ state = "scanning"
  /\ state' \in {"invalid", "unresolved"}
  /\ UNCHANGED <<server, config, disturbed, result>>

Disturb ==
  /\ state = "scanning"
  /\ disturbed' = TRUE
  /\ UNCHANGED <<server, config, state, result>>

Return(answered, used) ==
  /\ state' = "scanned"
  /\ result' \in Returned
  /\ ProtocolsReported(result'.protocols, answered)
  /\ SuitesReported(result'.suites, used.suite, answered)
  /\ GroupsReported(result'.groups, used.group, answered)
  /\ result'.certificate <=> Connection \in answered
  /\ Disclosed(result'.warnings)

Measure ==
  /\ state = "scanning"
  /\ \E answered \in Looks : \E used \in Uses(answered) :
       IF ShowsNothing(answered)
         THEN state' = "noTLS" /\ UNCHANGED result
         ELSE Return(answered, used)
  /\ UNCHANGED <<server, config, disturbed>>

Next == Reject \/ Disturb \/ Measure

Spec == Init /\ [][Next]_vars
=============================================================================
