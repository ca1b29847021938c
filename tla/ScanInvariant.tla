--------------------------- MODULE ScanInvariant ----------------------------
(***************************************************************************)
(* The inductive invariant behind the safety of ScanProbes: what a settled *)
(* probe saw, when a probe may have failed, and how the findings of each   *)
(* family and the result of the scan depend on the settled probes.         *)
(***************************************************************************)
EXTENDS ScanProbes

\* A completed probe made one of the handshakes that its offer and its server
\* allow, with the very group or suite it asks about.
HandshakesAreReal ==
  \A p \in Probes :
    Completed(p) => shake[p] \in Handshakes(Offer(p), server) /\ Confirmed(p, shake[p])

\* In an undisturbed scan a probe fails for a reason of the server's.
FailuresAreEarned ==
  Undisturbed =>
    \A p \in Probes :
      shake[p] = Failed =>
        \/ server.silent
        \/ Handshakes(Offer(p), server) = {}
        \/ \E h \in Handshakes(Offer(p), server) : ~Confirmed(p, h)

\* A family stores when its probes have settled, and they stay as they are.
StoredIsSettled == \A f \in stored : \A p \in FamilyOf(f) : shake[p] # Pending

\* What each family stored is the summary of its probes.
ProtocolsAgree ==
  "version" \in stored =>
    /\ DOMAIN protocols = DOMAIN Versions
    /\ \A k \in DOMAIN Versions :
         /\ protocols[k].version = Versions[k]
         /\ protocols[k].supported <=> Supports(k)
         /\ protocols[k].preferred <=> Preferred(k)

ConnectionAgrees ==
  "connection" \in stored =>
    /\ certificate = Completed(Connection)
    /\ ciphers = IF Completed(Connection) THEN {shake[Connection].suite} ELSE {}
    /\ negotiated = ConnectionGroup

GroupsAgree ==
  "group" \in stored =>
    /\ offered = {g \in ToolchainGroups : Completed(<<"group", g>>)}
    /\ skipped = SkippedGroups

SuitesAgree ==
  "suite" \in stored => offeredCiphers = {s \in Suites : Completed(<<"suite", s>>)}

\* A result is reported after every family stored, for a host that answered,
\* and it is the merge of what they stored.
ResultAgrees ==
  main = "scanned" =>
    /\ stored = Families /\ ~NothingMeasured
    /\ result =
         [ protocols |-> protocols, certificate |-> certificate, warnings |-> Warnings,
           suites |-> MergeCipherSuites(ciphers, offeredCiphers),
           groups |-> MergeKeyExchanges(negotiated, offered) ]

\* The inductive invariant.
Faithful ==
  /\ TypeOK
  /\ HandshakesAreReal
  /\ FailuresAreEarned
  /\ StoredIsSettled
  /\ ProtocolsAgree
  /\ ConnectionAgrees
  /\ GroupsAgree
  /\ SuitesAgree
  /\ ResultAgrees
=============================================================================
