----------------------------- MODULE ScanProofs -----------------------------
(***************************************************************************)
(* Proofs about ScanProbes, for every server, client configuration, set of *)
(* suites and groups, and for every interleaving, loss and cancellation.   *)
(*                                                                         *)
(* The argument is the inductive invariant Faithful of ScanInvariant.  The *)
(* properties of ScanProbes follow from it by what the merges do, which    *)
(* the section on sorting establishes.                                     *)
(***************************************************************************)
EXTENDS ScanInvariant, FiniteSetTheorems, SequenceTheorems, TLAPS

-----------------------------------------------------------------------------
(***************************************************************************)
(* Sorting a finite set.                                                   *)
(***************************************************************************)
StrictOrder(S, R) ==
  /\ \A a \in S : <<a, a>> \notin R
  /\ \A a, b, c \in S : <<a, b>> \in R /\ <<b, c>> \in R => <<a, c>> \in R
  /\ \A a, b \in S : a # b => <<a, b>> \in R \/ <<b, a>> \in R

Above(e, S, R) == {d \in S : <<d, e>> \in R}

\* The number of entries above an entry is its place in the order: it is less
\* than the number of entries, and it grows along the order.
LEMMA PlaceInOrder ==
  ASSUME NEW S, NEW R, IsFiniteSet(S), StrictOrder(S, R)
  PROVE  /\ \A e \in S : Cardinality(Above(e, S, R)) \in 0..(Cardinality(S) - 1)
         /\ \A a, b \in S : <<a, b>> \in R
              => Cardinality(Above(a, S, R)) < Cardinality(Above(b, S, R))
<1>1. ASSUME NEW e \in S
      PROVE  Cardinality(Above(e, S, R)) \in 0..(Cardinality(S) - 1)
  <2>1. Above(e, S, R) \subseteq S \ {e}
    BY DEF Above, StrictOrder
  <2>2. IsFiniteSet(S \ {e}) /\ Cardinality(S \ {e}) = Cardinality(S) - 1
    BY FS_RemoveElement
  <2>3. /\ IsFiniteSet(Above(e, S, R))
        /\ Cardinality(Above(e, S, R)) <= Cardinality(S) - 1
    BY <2>1, <2>2, FS_Subset
  <2>4. Cardinality(Above(e, S, R)) \in Nat /\ Cardinality(S) \in Nat
    BY <2>3, FS_CardinalityType
  <2> QED
    BY <2>3, <2>4
<1>2. ASSUME NEW a \in S, NEW b \in S, <<a, b>> \in R
      PROVE  Cardinality(Above(a, S, R)) < Cardinality(Above(b, S, R))
  <2>1. Above(a, S, R) \subseteq Above(b, S, R) /\ Above(b, S, R) \subseteq S
    BY <1>2 DEF Above, StrictOrder
  <2>2. a \in Above(b, S, R) /\ a \notin Above(a, S, R)
    BY <1>2 DEF Above, StrictOrder
  <2>3. IsFiniteSet(Above(b, S, R))
    BY <2>1, FS_Subset
  <2>4. /\ IsFiniteSet(Above(a, S, R))
        /\ Cardinality(Above(a, S, R)) <= Cardinality(Above(b, S, R))
        /\ Cardinality(Above(a, S, R)) # Cardinality(Above(b, S, R))
    BY <2>1, <2>2, <2>3, FS_Subset
  <2>5. Cardinality(Above(a, S, R)) \in Nat /\ Cardinality(Above(b, S, R)) \in Nat
    BY <2>3, <2>4, FS_CardinalityType
  <2> QED
    BY <2>4, <2>5
<1> QED
  BY <1>1, <1>2

\* Every place is taken by exactly one entry.
LEMMA PlacesAreFilled ==
  ASSUME NEW S, NEW R, IsFiniteSet(S), StrictOrder(S, R)
  PROVE  /\ \A a, b \in S : Cardinality(Above(a, S, R)) = Cardinality(Above(b, S, R)) => a = b
         /\ \A k \in 1..Cardinality(S) : \E e \in S : Cardinality(Above(e, S, R)) = k - 1
<1> DEFINE n == Cardinality(S)
           place == [e \in S |-> Cardinality(Above(e, S, R)) + 1]
<1>1. n \in Nat
  BY FS_CardinalityType
<1>2. IsFiniteSet(1..n) /\ Cardinality(1..n) = n
  BY <1>1, FS_Interval
<1>3. \A a, b \in S : Cardinality(Above(a, S, R)) = Cardinality(Above(b, S, R)) => a = b
  <2> SUFFICES ASSUME NEW a \in S, NEW b \in S, a # b
               PROVE  Cardinality(Above(a, S, R)) # Cardinality(Above(b, S, R))
    OBVIOUS
  <2>1. <<a, b>> \in R \/ <<b, a>> \in R
    BY DEF StrictOrder
  <2>2. /\ Cardinality(Above(a, S, R)) \in 0..(n - 1)
        /\ Cardinality(Above(b, S, R)) \in 0..(n - 1)
    BY PlaceInOrder
  <2>3. \/ Cardinality(Above(a, S, R)) < Cardinality(Above(b, S, R))
        \/ Cardinality(Above(b, S, R)) < Cardinality(Above(a, S, R))
    BY <2>1, PlaceInOrder
  <2> QED
    BY <2>2, <2>3, <1>1
<1>4. place \in Injection(S, 1..n)
  <2>1. \A e \in S : Cardinality(Above(e, S, R)) \in 0..(n - 1)
    BY PlaceInOrder
  <2>2. place \in [S -> 1..n]
    BY <1>1, <2>1
  <2>3. \A a, b \in S : place[a] = place[b] => a = b
    BY <1>1, <1>3, <2>1
  <2> QED
    BY <2>2, <2>3 DEF Injection, IsInjective
<1>5. place \in Surjection(S, 1..n)
  BY <1>2, <1>4, FS_Injection
<1>6. ASSUME NEW k \in 1..n
      PROVE  \E e \in S : Cardinality(Above(e, S, R)) = k - 1
  <2>1. PICK e \in S : place[e] = k
    BY <1>5 DEF Surjection
  <2>2. Cardinality(Above(e, S, R)) \in 0..(n - 1)
    BY PlaceInOrder
  <2> QED
    BY <1>1, <2>1, <2>2
<1> QED
  BY <1>3, <1>6

\* Sorted lists every entry exactly once.
LEMMA SortedIsBijection ==
  ASSUME NEW S, NEW R, IsFiniteSet(S), StrictOrder(S, R)
  PROVE  /\ Sorted(S, R) \in [1..Cardinality(S) -> S]
         /\ DOMAIN Sorted(S, R) = 1..Cardinality(S)
         /\ \A k \in DOMAIN Sorted(S, R) : Sorted(S, R)[k] \in S
         /\ \A e \in S : \E k \in DOMAIN Sorted(S, R) : Sorted(S, R)[k] = e
         /\ \A i, j \in DOMAIN Sorted(S, R) : Sorted(S, R)[i] = Sorted(S, R)[j] => i = j
<1> DEFINE n == Cardinality(S)
           s == Sorted(S, R)
<1>1. n \in Nat
  BY FS_CardinalityType
<1>2. DOMAIN s = 1..n
  BY DEF Sorted
<1>3. ASSUME NEW k \in 1..n
      PROVE  s[k] \in S /\ Cardinality(Above(s[k], S, R)) = k - 1
  <2>1. \E e \in S : Cardinality(Above(e, S, R)) = k - 1
    BY PlacesAreFilled
  <2>2. s[k] = CHOOSE e \in S : Cardinality(Above(e, S, R)) = k - 1
    BY DEF Sorted, Above
  <2> HIDE DEF s
  <2> QED
    BY <2>1, <2>2
<1>7. s \in [1..n -> S]
  <2>1. s = [k \in 1..n |-> CHOOSE e \in S : Cardinality(Above(e, S, R)) = k - 1]
    BY DEF Sorted, Above
  <2>2. \A k \in 1..n : s[k] = CHOOSE e \in S : Cardinality(Above(e, S, R)) = k - 1
    BY <2>1
  <2>3. \A k \in 1..n : (CHOOSE e \in S : Cardinality(Above(e, S, R)) = k - 1) \in S
    BY PlacesAreFilled
  <2> HIDE DEF s
  <2> QED
    BY <2>1, <2>3
<1> HIDE DEF s
<1>4. \A e \in S : \E k \in 1..n : s[k] = e
  <2> SUFFICES ASSUME NEW e \in S
               PROVE  \E k \in 1..n : s[k] = e
    OBVIOUS
  <2>1. Cardinality(Above(e, S, R)) \in 0..(n - 1)
    BY PlaceInOrder
  <2> DEFINE k == Cardinality(Above(e, S, R)) + 1
  <2>2. k \in 1..n /\ k - 1 = Cardinality(Above(e, S, R))
    BY <1>1, <2>1
  <2>3. s[k] = e
    BY <1>3, <2>2, PlacesAreFilled
  <2> QED
    BY <2>2, <2>3
<1>5. \A i, j \in 1..n : s[i] = s[j] => i = j
  BY <1>1, <1>3
<1> QED
  BY <1>2, <1>3, <1>4, <1>5, <1>7 DEF s

-----------------------------------------------------------------------------
(***************************************************************************)
(* What the merges list.                                                   *)
(***************************************************************************)

\* A sequence that lists a finite set once, by its places.
LEMMA SortedIsSeq ==
  ASSUME NEW S, NEW R, NEW T, IsFiniteSet(S), StrictOrder(S, R), S \subseteq T
  PROVE  /\ Sorted(S, R) \in Seq(T)
         /\ Len(Sorted(S, R)) = Cardinality(S) /\ Cardinality(S) \in Nat
<1> DEFINE s == Sorted(S, R)
<1>1. Cardinality(S) \in Nat
  BY FS_CardinalityType
<1>2. s \in [1..Cardinality(S) -> S]
  BY SortedIsBijection
<1> HIDE DEF s
<1>4. s \in [1..Cardinality(S) -> T]
  BY <1>2
<1>5. s \in Seq(T)
  BY <1>1, <1>4, SeqDef
<1>6. Len(s) = Cardinality(S)
  BY <1>1, <1>4, <1>5, LenProperties
<1> QED
  BY <1>1, <1>5, <1>6 DEF s

\* Suites stand strongest first, and names break ties.
LEMMA SuitesOrdered ==
  ASSUME NEW S \in SUBSET SuiteEntry, \A a, b \in S : a.id = b.id => a = b
  PROVE  /\ IsFiniteSet(S)
         /\ StrictOrder(S, {ab \in S \X S : StrongerSuite(ab[1], ab[2])})
<1>1. IsFiniteSet(S)
  <2> DEFINE id == [e \in S |-> e.id]
  <2>1. IsFiniteSet(Suites \cup Suites13)
    BY ProbesAssumption, FS_Union
  <2>2. id \in Injection(S, Suites \cup Suites13)
    BY DEF Injection, IsInjective, SuiteEntry
  <2> QED
    BY <2>1, <2>2, FS_Injection
<1>2. \A e \in S : /\ e.id \in Suites \cup Suites13
                   /\ Bits[e.id] \in Nat /\ NameRank[e.id] \in Nat /\ e.id \in DOMAIN NameRank
  BY ProbesAssumption DEF SuiteEntry
<1>3. \A a, b \in S : NameRank[a.id] = NameRank[b.id] => a = b
  BY <1>2, ProbesAssumption
<1> QED
  BY <1>1, <1>2, <1>3 DEF StrictOrder, StrongerSuite

ListsSuites(s, neg, off) ==
  /\ s \in Seq(SuiteEntry)
  /\ {s[k].id : k \in DOMAIN s} = neg \cup off
  /\ {s[k].id : k \in {m \in DOMAIN s : s[m].negotiated}} = neg
  /\ Cardinality({s[k].id : k \in DOMAIN s}) = Len(s)

\* mergeCipherSuites lists the negotiated and the enumerated suites, each one
\* once, and marks the negotiated ones.
LEMMA SuitesMerged ==
  ASSUME NEW neg \in SUBSET (Suites \cup Suites13), NEW off \in SUBSET Suites
  PROVE  ListsSuites(MergeCipherSuites(neg, off), neg, off)
<1> DEFINE s == MergeCipherSuites(neg, off)
           S == [id : neg, negotiated : {TRUE}] \cup [id : off \ neg, negotiated : {FALSE}]
           R == {ab \in S \X S : StrongerSuite(ab[1], ab[2])}
<1>1. \A e \in S : /\ e \in SuiteEntry /\ e.id \in neg \cup off
                   /\ e.negotiated <=> e.id \in neg
  BY DEF SuiteEntry
<1>2. \A i \in neg \cup off : \E e \in S : e.id = i
  <2> SUFFICES ASSUME NEW i \in neg \cup off PROVE \E e \in S : e.id = i
    OBVIOUS
  <2>1. CASE i \in neg
    <3>1. [id |-> i, negotiated |-> TRUE] \in S
      BY <2>1
    <3> QED
      BY <3>1
  <2>2. CASE i \notin neg
    <3>1. [id |-> i, negotiated |-> FALSE] \in S
      BY <2>2
    <3> QED
      BY <3>1
  <2> QED
    BY <2>1, <2>2
<1>3. s = Sorted(S, R)
  BY DEF MergeCipherSuites, ByStrength
<1> HIDE DEF S, s
<1>10. \A a, b \in S : a.id = b.id => a = b
  BY <1>1 DEF SuiteEntry
<1>4. IsFiniteSet(S) /\ StrictOrder(S, R)
  BY <1>1, <1>10, SuitesOrdered
<1> HIDE DEF R
<1>5. /\ s \in Seq(SuiteEntry) /\ Len(s) = Cardinality(S) /\ Cardinality(S) \in Nat
  BY <1>1, <1>3, <1>4, SortedIsSeq
<1>6. /\ DOMAIN s = 1..Len(s)
      /\ \A k \in DOMAIN s : s[k] \in S
      /\ \A e \in S : \E k \in DOMAIN s : s[k] = e
      /\ \A i, j \in DOMAIN s : s[i] = s[j] => i = j
  BY <1>3, <1>4, <1>5, SortedIsBijection
<1>7. {s[k].id : k \in DOMAIN s} = neg \cup off
  BY <1>1, <1>2, <1>6
<1>8. {s[k].id : k \in {m \in DOMAIN s : s[m].negotiated}} = neg
  BY <1>1, <1>2, <1>6
<1>9. Cardinality({s[k].id : k \in DOMAIN s}) = Len(s)
  <2> DEFINE ids == {s[k].id : k \in DOMAIN s}
             id == [k \in 1..Len(s) |-> s[k].id]
  <2>1. id \in Injection(1..Len(s), ids)
    BY <1>6, <1>10 DEF Injection, IsInjective
  <2>2. id \in Surjection(1..Len(s), ids)
    BY <1>6 DEF Surjection
  <2>3. ExistsBijection(1..Len(s), ids)
    BY <2>1, <2>2 DEF ExistsBijection, Bijection
  <2>4. Len(s) \in Nat
    BY <1>5
  <2> HIDE DEF ids
  <2>5. Cardinality(ids) = Len(s)
    BY <2>3, <2>4, FS_CountingElements
  <2> QED
    BY <2>5 DEF ids
<1> QED
  BY <1>5, <1>7, <1>8, <1>9 DEF ListsSuites, s

\* Groups stand hybrid first, then by strength, and names break ties.
LEMMA GroupsOrdered ==
  ASSUME NEW S \in SUBSET GroupEntry, \A a, b \in S : a.name = b.name => a = b
  PROVE  /\ IsFiniteSet(S)
         /\ StrictOrder(S, {ab \in S \X S : StrongerGroup(ab[1], ab[2])})
<1>1. IsFiniteSet(S)
  <2> DEFINE name == [e \in S |-> e.name]
  <2>1. name \in Injection(S, Groups)
    BY DEF Injection, IsInjective, GroupEntry
  <2> QED
    BY <2>1, ProbesAssumption, FS_Injection
<1>2. \A e \in S : /\ GroupBits[e.name] \in Nat /\ NameRank[e.name] \in Nat
                   /\ e.name \in DOMAIN NameRank
  BY ProbesAssumption DEF GroupEntry
<1>3. \A a, b \in S : NameRank[a.name] = NameRank[b.name] => a = b
  BY <1>2, ProbesAssumption
<1> QED
  BY <1>1, <1>2, <1>3 DEF StrictOrder, StrongerGroup

ListsGroups(s, neg, off) ==
  /\ s \in Seq(GroupEntry)
  /\ {s[k].name : k \in DOMAIN s} = neg \cup off
  /\ {s[k].name : k \in {m \in DOMAIN s : s[m].negotiated}} = neg
  /\ Cardinality({s[k].name : k \in DOMAIN s}) = Len(s)

\* mergeKeyExchanges lists the negotiated and the enumerated groups, each one
\* once, and marks the negotiated ones.
LEMMA GroupsMerged ==
  ASSUME NEW neg \in SUBSET Groups, NEW off \in SUBSET Groups
  PROVE  ListsGroups(MergeKeyExchanges(neg, off), neg, off)
<1> DEFINE s == MergeKeyExchanges(neg, off)
           S == {[name |-> g, negotiated |-> g \in neg] : g \in neg \cup off}
           R == {ab \in S \X S : StrongerGroup(ab[1], ab[2])}
<1>1. \A e \in S : /\ e \in GroupEntry /\ e.name \in neg \cup off
                   /\ e.negotiated <=> e.name \in neg
  <2> SUFFICES ASSUME NEW g \in neg \cup off, NEW e, e = [name |-> g, negotiated |-> g \in neg]
               PROVE  /\ e \in GroupEntry /\ e.name \in neg \cup off
                      /\ e.negotiated <=> e.name \in neg
    OBVIOUS
  <2>1. e.name = g /\ e.negotiated = (g \in neg)
    OBVIOUS
  <2>2. e \in GroupEntry
    BY (g \in neg) \in BOOLEAN DEF GroupEntry
  <2> QED
    BY <2>1, <2>2
<1>2. \A g \in neg \cup off : \E e \in S : e.name = g
  <2> SUFFICES ASSUME NEW g \in neg \cup off PROVE \E e \in S : e.name = g
    OBVIOUS
  <2> DEFINE e == [name |-> g, negotiated |-> g \in neg]
  <2>1. e \in S /\ e.name = g
    OBVIOUS
  <2> QED
    BY <2>1
<1>3. s = Sorted(S, R)
  BY DEF MergeKeyExchanges
<1> HIDE DEF S, s
<1>10. \A a, b \in S : a.name = b.name => a = b
  BY <1>1 DEF GroupEntry
<1>4. IsFiniteSet(S) /\ StrictOrder(S, R)
  BY <1>1, <1>10, GroupsOrdered
<1> HIDE DEF R
<1>5. /\ s \in Seq(GroupEntry) /\ Len(s) = Cardinality(S) /\ Cardinality(S) \in Nat
  BY <1>1, <1>3, <1>4, SortedIsSeq
<1>6. /\ DOMAIN s = 1..Len(s)
      /\ \A k \in DOMAIN s : s[k] \in S
      /\ \A e \in S : \E k \in DOMAIN s : s[k] = e
      /\ \A i, j \in DOMAIN s : s[i] = s[j] => i = j
  BY <1>3, <1>4, <1>5, SortedIsBijection
<1>7. {s[k].name : k \in DOMAIN s} = neg \cup off
  BY <1>1, <1>2, <1>6
<1>8. {s[k].name : k \in {m \in DOMAIN s : s[m].negotiated}} = neg
  BY <1>1, <1>2, <1>6
<1>9. Cardinality({s[k].name : k \in DOMAIN s}) = Len(s)
  <2> DEFINE names == {s[k].name : k \in DOMAIN s}
             name == [k \in 1..Len(s) |-> s[k].name]
  <2>1. name \in Injection(1..Len(s), names)
    BY <1>6, <1>10 DEF Injection, IsInjective
  <2>2. name \in Surjection(1..Len(s), names)
    BY <1>6 DEF Surjection
  <2>3. ExistsBijection(1..Len(s), names)
    BY <2>1, <2>2 DEF ExistsBijection, Bijection
  <2>4. Len(s) \in Nat
    BY <1>5
  <2> HIDE DEF names
  <2>5. Cardinality(names) = Len(s)
    BY <2>3, <2>4, FS_CountingElements
  <2> QED
    BY <2>5 DEF names
<1> QED
  BY <1>5, <1>7, <1>8, <1>9 DEF ListsGroups, s

-----------------------------------------------------------------------------
(***************************************************************************)
(* Probes and handshakes.                                                  *)
(***************************************************************************)

\* The probes of each family.
LEMMA FamilyMembers ==
  /\ \A f \in Families : FamilyOf(f) \subseteq Probes
  /\ \A k \in DOMAIN Versions : <<"version", Versions[k]>> \in FamilyOf("version")
  /\ Connection \in FamilyOf("connection")
  /\ \A g \in ToolchainGroups : <<"group", g>> \in FamilyOf("group")
  /\ \A s \in Suites : <<"suite", s>> \in FamilyOf("suite")
<1>1. \A f \in Families : FamilyOf(f) \subseteq Probes
  BY DEF FamilyOf
<1>2. \A k \in DOMAIN Versions : Versions[k] \in VersionNames
  BY DEF VersionNames
<1>3. \A v \in VersionNames : <<"version", v>> \in Probes /\ <<"version", v>>[1] = "version"
  BY DEF Probes
<1>4. Connection \in Probes /\ Connection[1] = "connection"
  BY DEF Probes, Connection
<1>5. \A g \in ToolchainGroups : <<"group", g>> \in Probes /\ <<"group", g>>[1] = "group"
  BY DEF Probes
<1>6. \A s \in Suites : <<"suite", s>> \in Probes /\ <<"suite", s>>[1] = "suite"
  BY DEF Probes
<1> QED
  BY <1>1, <1>2, <1>3, <1>4, <1>5, <1>6 DEF FamilyOf

\* A probe is of one of four forms.
LEMMA ProbeForms ==
  ASSUME NEW p \in Probes
  PROVE  \/ p[1] = "version" /\ p[2] \in VersionNames
         \/ p[1] = "connection" /\ p = Connection
         \/ p[1] = "group" /\ p[2] \in ToolchainGroups
         \/ p[1] = "suite" /\ p[2] \in Suites
<1>1. CASE p \in {"version"} \X VersionNames
  BY <1>1
<1>2. CASE p = Connection
  BY <1>2 DEF Connection
<1>3. CASE p \in {"group"} \X ToolchainGroups
  BY <1>3
<1>4. CASE p \in {"suite"} \X Suites
  BY <1>4
<1> QED
  BY <1>1, <1>2, <1>3, <1>4 DEF Probes

\* Versions are listed highest first, so the choice in Handshakes is defined:
\* a set of versions in common has a highest one.
LEMMA HighestVersion ==
  ASSUME NEW common \in SUBSET DOMAIN Versions, common # {}
  PROVE  LET best == CHOOSE k \in common : \A m \in common : k <= m
         IN  best \in common /\ \A m \in common : best <= m
<1>1. DOMAIN Versions = {1, 2, 3, 4}
  BY DEF Versions
<1>2. \E k \in common : \A m \in common : k <= m
  <2>1. CASE 1 \in common
    BY <1>1, <2>1
  <2>2. CASE 1 \notin common /\ 2 \in common
    BY <1>1, <2>2
  <2>3. CASE 1 \notin common /\ 2 \notin common /\ 3 \in common
    BY <1>1, <2>3
  <2>4. CASE 1 \notin common /\ 2 \notin common /\ 3 \notin common
    BY <1>1, <2>4
  <2> QED
    BY <2>1, <2>2, <2>3, <2>4
<1> QED
  BY <1>2

\* The two versions that the ordinary connection and the suite probes rule out
\* or in are the first two of the list.
LEMMA VersionFacts ==
  /\ DOMAIN Versions = {1, 2, 3, 4} /\ DOMAIN Versions = 1..4
  /\ Versions[1] = "TLS1.3" /\ Versions[2] = "TLS1.2"
  /\ Versions[3] = "TLS1.1" /\ Versions[4] = "TLS1.0"
  /\ VersionNames = {"TLS1.3", "TLS1.2", "TLS1.1", "TLS1.0"}
<1>1. DOMAIN Versions = {1, 2, 3, 4} /\ DOMAIN Versions = 1..4
  BY DEF Versions
<1>2. /\ Versions[1] = "TLS1.3" /\ Versions[2] = "TLS1.2"
      /\ Versions[3] = "TLS1.1" /\ Versions[4] = "TLS1.0"
  BY DEF Versions
<1>3. VersionNames = {Versions[1], Versions[2], Versions[3], Versions[4]}
  BY <1>1 DEF VersionNames
<1> QED
  BY <1>1, <1>2, <1>3

\* The order of the list.
LEMMA VersionOrder ==
  /\ \A k \in DOMAIN Versions : k \in Int
  /\ \A k, m \in DOMAIN Versions : Versions[k] = Versions[m] => k = m
  /\ \A k \in DOMAIN Versions : \A m \in 1..k-1 : m \in DOMAIN Versions /\ m < k
  /\ \A k, m \in DOMAIN Versions : m < k => m \in 1..k-1
  /\ \A k \in DOMAIN Versions : Versions[k] \in {"TLS1.3", "TLS1.2"} => k \in {1, 2}
<1>1. DOMAIN Versions = 1..4
  BY VersionFacts
<1>2. /\ \A k \in DOMAIN Versions : k \in Int
      /\ \A k \in DOMAIN Versions : \A m \in 1..k-1 : m \in DOMAIN Versions /\ m < k
      /\ \A k, m \in DOMAIN Versions : m < k => m \in 1..k-1
  BY <1>1
<1>3. /\ \A k, m \in {1, 2, 3, 4} : Versions[k] = Versions[m] => k = m
      /\ \A k \in {1, 2, 3, 4} : Versions[k] \in {"TLS1.3", "TLS1.2"} => k \in {1, 2}
  <2>1. /\ Versions[1] = "TLS1.3" /\ Versions[2] = "TLS1.2"
        /\ Versions[3] = "TLS1.1" /\ Versions[4] = "TLS1.0"
    BY VersionFacts
  <2> QED
    BY <2>1
<1>4. DOMAIN Versions = {1, 2, 3, 4}
  BY VersionFacts
<1> QED
  BY <1>2, <1>3, <1>4

\* What a handshake says, it says of things the program knows.
LEMMA HandshakesTyped ==
  ASSUME NEW p \in Probes, NEW s \in Server
  PROVE  Handshakes(Offer(p), s) \subseteq Handshake
<1> DEFINE offer == Offer(p)
           common == {k \in DOMAIN Versions : Versions[k] \in offer.versions \cap s.versions}
           best == CHOOSE k \in common : \A m \in common : k <= m
           version == Versions[best]
           groups == offer.groups \cap s.groups
<1>1. offer.suites \subseteq Suites /\ offer.groups \subseteq Groups
  <2>1. (p[1] = "suite" => p[2] \in Suites) /\ (p[1] = "group" => p[2] \in ToolchainGroups)
    BY ProbeForms
  <2>2. /\ offer.suites = IF p[1] = "suite" THEN {p[2]} ELSE DefaultSuites
        /\ offer.groups = IF p[1] = "group" THEN {p[2]} ELSE ToolchainGroups
    BY DEF Offer
  <2> QED
    BY <2>1, <2>2, ProbesAssumption
<1>2. s.suites13 \subseteq Suites13 /\ s.groups \subseteq Groups
  BY DEF Server
<1>3. CASE common = {}
  BY <1>3 DEF Handshakes
<1>4. CASE common # {}
  <2>1. best \in common
    BY <1>4, HighestVersion
  <2>2. version \in VersionNames
    BY <2>1 DEF VersionNames
  <2>3. SUFFICES ASSUME NEW h \in Handshakes(offer, s)
                 PROVE  h \in Handshake
    OBVIOUS
  <2>4. \/ h \in [version : {version}, suite : s.suites13, group : groups]
        \/ h \in [version : {version}, suite : offer.suites \cap s.suites,
                  group : (groups \ HybridGroups) \cup {NoGroup}]
    BY <1>4 DEF Handshakes
  <2> HIDE DEF version, offer
  <2> QED
    BY <1>1, <1>2, <2>2, <2>4 DEF Handshake
<1> QED
  BY <1>3, <1>4

\* Neither a pending nor a failed probe could be taken for a handshake.
LEMMA OutcomesDiffer ==
  /\ Pending # Failed
  /\ Pending \notin Handshake /\ Failed \notin Handshake
<1>1. "pending" \notin VersionNames /\ "failed" \notin VersionNames
  BY VersionFacts
<1>2. Pending.version = "pending" /\ Failed.version = "failed"
  BY DEF Pending, Failed
<1>3. \A h \in Handshake : h.version \in VersionNames
  BY DEF Handshake
<1> QED
  BY <1>1, <1>2, <1>3

-----------------------------------------------------------------------------
(***************************************************************************)
(* Steps of the probes.                                                    *)
(***************************************************************************)

\* A probe that settles was pending, and it ends in a handshake it confirmed,
\* or it fails: in an undisturbed scan for a reason of the server's.
LEMMA ProbeStep ==
  ASSUME TypeOK, NEW p \in Probes, Settles(p) \/ IsLost(p)
  PROVE  /\ Dialling(p)
         /\ UNCHANGED <<server, config, cancelled, main, stored, findings, result>>
         /\ losses' \in 0..MaxLosses /\ losses <= losses'
         /\ \E h \in Handshake \cup {Failed} :
              /\ shake' = [shake EXCEPT ![p] = h]
              /\ h # Failed => h \in Handshakes(Offer(p), server) /\ Confirmed(p, h)
              /\ h = Failed /\ Undisturbed' =>
                   \/ server.silent
                   \/ Handshakes(Offer(p), server) = {}
                   \/ \E g \in Handshakes(Offer(p), server) : ~Confirmed(p, g)
<1> DEFINE Earned == \/ server.silent
                     \/ Handshakes(Offer(p), server) = {}
                     \/ \E g \in Handshakes(Offer(p), server) : ~Confirmed(p, g)
           Outcome(h) == /\ shake' = [shake EXCEPT ![p] = h]
                         /\ h # Failed => h \in Handshakes(Offer(p), server) /\ Confirmed(p, h)
                         /\ h = Failed /\ Undisturbed' => Earned
           Frame == /\ Dialling(p)
                    /\ UNCHANGED <<server, config, cancelled, main, stored, findings, result>>
                    /\ losses' \in 0..MaxLosses /\ losses <= losses'
<1>1. CASE Completes(p)
  <2>1. PICK h \in Handshakes(Offer(p), server) : Ends(p, IF Confirmed(p, h) THEN h ELSE Failed)
    BY <1>1 DEF Completes
  <2>2. h \in Handshake
    BY HandshakesTyped, ProbeInputsAssumption DEF TypeOK
  <2>3. Frame
    BY <1>1, <2>1 DEF Completes, Ends, TypeOK
  <2>4. CASE Confirmed(p, h)
    <3>1. Outcome(h)
      BY <2>1, <2>2, <2>4, OutcomesDiffer DEF Ends
    <3> QED
      BY <2>2, <2>3, <3>1
  <2>5. CASE ~Confirmed(p, h)
    <3>1. Outcome(Failed)
      BY <2>1, <2>5 DEF Ends
    <3> QED
      BY <2>3, <3>1
  <2> QED
    BY <2>4, <2>5
<1>2. CASE Declined(p)
  <2>1. Frame /\ Outcome(Failed)
    BY <1>2 DEF Declined, Ends, TypeOK
  <2> QED
    BY <2>1
<1>3. CASE TimesOut(p)
  <2>1. Frame /\ Outcome(Failed)
    BY <1>3 DEF TimesOut, Ends, TypeOK
  <2> QED
    BY <2>1
<1>4. CASE Aborts(p)
  <2>1. Frame /\ Outcome(Failed)
    BY <1>4 DEF Aborts, Ends, TypeOK, Undisturbed
  <2> QED
    BY <2>1
<1>5. CASE IsLost(p)
  <2>1. Frame /\ Outcome(Failed)
    BY <1>5, ProbesAssumption, ScanAssumption DEF IsLost, Ends, TypeOK, Undisturbed
  <2> QED
    BY <2>1
<1> QED
  BY <1>1, <1>2, <1>3, <1>4, <1>5 DEF Settles

\* What the families stored keeps being the summary of their probes, as long as
\* nobody writes it and the probes of these families stay as they are.
LEMMA SummariesStay ==
  ASSUME ProtocolsAgree, ConnectionAgrees, GroupsAgree, SuitesAgree,
         UNCHANGED <<stored, findings>>, stored \subseteq Families,
         \A f \in stored : \A p \in FamilyOf(f) : shake'[p] = shake[p]
  PROVE  ProtocolsAgree' /\ ConnectionAgrees' /\ GroupsAgree' /\ SuitesAgree'
<1>1. ProtocolsAgree'
  <2> SUFFICES ASSUME "version" \in stored PROVE ProtocolsAgree'
    BY DEF ProtocolsAgree
  <2>1. \A k \in DOMAIN Versions : Supports(k)' <=> Supports(k)
    BY FamilyMembers DEF Supports, Completed
  <2>2. \A k \in DOMAIN Versions : \A m \in 1..k-1 : m \in DOMAIN Versions
    <3>1. DOMAIN Versions = 1..4
      BY VersionFacts
    <3> QED
      BY <3>1
  <2>3. \A k \in DOMAIN Versions : Preferred(k)' <=> Preferred(k)
    BY <2>1, <2>2 DEF Preferred
  <2> QED
    BY <2>1, <2>3 DEF ProtocolsAgree, findings
<1>2. ConnectionAgrees'
  <2> SUFFICES ASSUME "connection" \in stored PROVE ConnectionAgrees'
    BY DEF ConnectionAgrees
  <2>1. shake'[Connection] = shake[Connection]
    BY FamilyMembers
  <2> QED
    BY <2>1 DEF ConnectionAgrees, ConnectionGroup, Completed, findings
<1>3. GroupsAgree'
  <2> SUFFICES ASSUME "group" \in stored PROVE GroupsAgree'
    BY DEF GroupsAgree
  <2>1. \A g \in ToolchainGroups : shake'[<<"group", g>>] = shake[<<"group", g>>]
    BY FamilyMembers
  <2> QED
    BY <2>1 DEF GroupsAgree, Completed, findings, SkippedGroups
<1>4. SuitesAgree'
  <2> SUFFICES ASSUME "suite" \in stored PROVE SuitesAgree'
    BY DEF SuitesAgree
  <2>1. \A s \in Suites : shake'[<<"suite", s>>] = shake[<<"suite", s>>]
    BY FamilyMembers
  <2> QED
    BY <2>1 DEF SuitesAgree, Completed, findings
<1> QED
  BY <1>1, <1>2, <1>3, <1>4

\* A step of a probe keeps the invariant.
LEMMA ProbeInv ==
  ASSUME Faithful, NEW p \in Probes, Settles(p) \/ IsLost(p)
  PROVE  Faithful'
<1> USE DEF Faithful
<1>1. PICK h \in Handshake \cup {Failed} :
        /\ shake' = [shake EXCEPT ![p] = h]
        /\ h # Failed => h \in Handshakes(Offer(p), server) /\ Confirmed(p, h)
        /\ h = Failed /\ Undisturbed' =>
             \/ server.silent
             \/ Handshakes(Offer(p), server) = {}
             \/ \E g \in Handshakes(Offer(p), server) : ~Confirmed(p, g)
  BY ProbeStep
<1>2. /\ shake[p] = Pending /\ main = "probe"
      /\ UNCHANGED <<server, config, cancelled, main, stored, findings, result>>
      /\ losses' \in 0..MaxLosses /\ losses <= losses'
  BY ProbeStep DEF Dialling
<1>3. \A q \in Probes : shake'[q] = IF q = p THEN h ELSE shake[q]
  BY <1>1 DEF TypeOK
<1>4. TypeOK'
  BY <1>1, <1>2 DEF TypeOK, findings
<1>5. HandshakesAreReal'
  BY <1>1, <1>2, <1>3 DEF HandshakesAreReal, Completed, Confirmed
<1>6. FailuresAreEarned'
  <2>1. Undisturbed' => Undisturbed
    BY <1>2, ProbesAssumption DEF Undisturbed, TypeOK
  <2> QED
    BY <1>1, <1>2, <1>3, <2>1 DEF FailuresAreEarned, Confirmed
<1>7. \A f \in stored : \A q \in FamilyOf(f) : shake'[q] = shake[q]
  BY <1>2, <1>3 DEF StoredIsSettled, FamilyOf
<1>8. StoredIsSettled'
  BY <1>2, <1>7 DEF StoredIsSettled
<1>9. ProtocolsAgree' /\ ConnectionAgrees' /\ GroupsAgree' /\ SuitesAgree'
  BY <1>2, <1>7, SummariesStay DEF TypeOK
<1>10. ResultAgrees'
  BY <1>2 DEF ResultAgrees
<1> QED
  BY <1>4, <1>5, <1>6, <1>8, <1>9, <1>10

-----------------------------------------------------------------------------
(***************************************************************************)
(* Steps of the goroutines of Scan and of its main path.                   *)
(***************************************************************************)

\* The records that a family stores are protocol entries.
LEMMA ProtocolsTyped ==
  ASSUME NEW s \in [DOMAIN Versions -> BOOLEAN], NEW q \in [DOMAIN Versions -> BOOLEAN]
  PROVE  [k \in DOMAIN Versions |->
            [version |-> Versions[k], supported |-> s[k], preferred |-> q[k]]] \in Seq(ProtocolEntry)
<1>1. \A k \in DOMAIN Versions :
        [version |-> Versions[k], supported |-> s[k], preferred |-> q[k]] \in ProtocolEntry
  BY DEF ProtocolEntry, VersionNames
<1>2. DOMAIN Versions = 1..4
  BY VersionFacts
<1> DEFINE list == [k \in 1..4 |-> [version |-> Versions[k], supported |-> s[k], preferred |-> q[k]]]
<1>3. list \in [1..4 -> ProtocolEntry]
  BY <1>1, <1>2
<1>4. list \in Seq(ProtocolEntry)
  <2> HIDE DEF list
  <2> QED
    BY <1>3, SeqDef
<1> QED
  BY <1>2, <1>4

\* A family that stores keeps the invariant: it writes its own findings only,
\* after the last of its probes has settled.
LEMMA StoreInv ==
  ASSUME Faithful, Store
  PROVE  Faithful'
<1> USE DEF Faithful
<1>1. PICK f \in Families \ stored :
        /\ stored' = stored \cup {f} /\ main = "probe"
        /\ \A p \in FamilyOf(f) : shake[p] # Pending
        /\ UNCHANGED <<server, config, cancelled, losses, main, shake, result>>
        /\ f = "version" => StoreProtocols
        /\ f = "connection" => StoreConnection
        /\ f = "group" => StoreGroups
        /\ f = "suite" => StoreSuites
  BY DEF Store, StoreProtocols, StoreConnection, StoreGroups, StoreSuites, Stores, Families
<1>2. /\ f # "version" => UNCHANGED protocols
      /\ f # "connection" => UNCHANGED <<certificate, ciphers, negotiated>>
      /\ f # "group" => UNCHANGED <<offered, skipped>>
      /\ f # "suite" => UNCHANGED offeredCiphers
  BY <1>1 DEF Families, StoreProtocols, StoreConnection, StoreGroups, StoreSuites
<1>3. HandshakesAreReal' /\ FailuresAreEarned'
  BY <1>1 DEF HandshakesAreReal, FailuresAreEarned, Undisturbed, Completed
<1>4. StoredIsSettled'
  BY <1>1 DEF StoredIsSettled
<1>5. ResultAgrees'
  BY <1>1 DEF ResultAgrees
<1>6. ProtocolsAgree' /\ protocols' \in Seq(ProtocolEntry)
  <2>1. CASE f = "version"
    <3>1. protocols' = [k \in DOMAIN Versions |->
            [version |-> Versions[k], supported |-> Supports(k), preferred |-> Preferred(k)]]
      BY <1>1, <2>1 DEF StoreProtocols
    <3>2. /\ [k \in DOMAIN Versions |-> Supports(k)] \in [DOMAIN Versions -> BOOLEAN]
          /\ [k \in DOMAIN Versions |-> Preferred(k)] \in [DOMAIN Versions -> BOOLEAN]
      BY DEF Supports, Preferred, Completed
    <3>3. protocols' \in Seq(ProtocolEntry)
      BY <3>1, <3>2, ProtocolsTyped
    <3>4. \A k \in DOMAIN Versions : (Supports(k)' <=> Supports(k)) /\ (Preferred(k)' <=> Preferred(k))
      BY <1>1 DEF Supports, Preferred, Completed
    <3> QED
      BY <3>1, <3>3, <3>4 DEF ProtocolsAgree
  <2>2. CASE f # "version"
    <3>1. \A k \in DOMAIN Versions : (Supports(k)' <=> Supports(k)) /\ (Preferred(k)' <=> Preferred(k))
      BY <1>1 DEF Supports, Preferred, Completed
    <3> QED
      BY <1>1, <1>2, <2>2, <3>1 DEF ProtocolsAgree, TypeOK
  <2> QED
    BY <2>1, <2>2
<1>7. /\ ConnectionAgrees' /\ certificate' \in BOOLEAN
      /\ ciphers' \subseteq Suites \cup Suites13 /\ negotiated' \subseteq Groups
  <2>1. CASE f = "connection"
    <3>1. Completed(Connection) => shake[Connection] \in Handshake
      BY FamilyMembers DEF Completed, TypeOK, Families
    <3> QED
      BY <1>1, <2>1, <3>1 DEF StoreConnection, ConnectionAgrees, ConnectionGroup, Completed, Handshake
  <2>2. CASE f # "connection"
    BY <1>1, <1>2, <2>2 DEF ConnectionAgrees, ConnectionGroup, Completed, TypeOK
  <2> QED
    BY <2>1, <2>2
<1>8. GroupsAgree' /\ offered' \subseteq Groups /\ skipped' \subseteq Groups
  <2>1. CASE f = "group"
    BY <1>1, <2>1, ProbesAssumption DEF StoreGroups, GroupsAgree, SkippedGroups, Completed
  <2>2. CASE f # "group"
    BY <1>1, <1>2, <2>2 DEF GroupsAgree, SkippedGroups, Completed, TypeOK
  <2> QED
    BY <2>1, <2>2
<1>9. SuitesAgree' /\ offeredCiphers' \subseteq Suites
  <2>1. CASE f = "suite"
    BY <1>1, <2>1 DEF StoreSuites, SuitesAgree, Completed
  <2>2. CASE f # "suite"
    BY <1>1, <1>2, <2>2 DEF SuitesAgree, Completed, TypeOK
  <2> QED
    BY <2>1, <2>2
<1>10. TypeOK'
  BY <1>1, <1>6, <1>7, <1>8, <1>9 DEF TypeOK
<1> QED
  BY <1>3, <1>4, <1>5, <1>6, <1>7, <1>8, <1>9, <1>10

\* The steps that touch neither a probe nor a finding keep the invariant: they
\* end without a result, or the scan goes on.
LEMMA QuietInv ==
  ASSUME Faithful, ParseTarget \/ Resolve \/ ReportNoTLS \/ Cancel
  PROVE  Faithful'
<1> USE DEF Faithful
<1>1. /\ UNCHANGED <<server, config, losses, shake, stored, findings, result>>
      /\ main' \in {"start", "resolve", "probe", "invalid", "unresolved", "noTLS"}
      /\ cancelled' \in BOOLEAN /\ (cancelled => cancelled')
  BY DEF ParseTarget, Resolve, ReportNoTLS, Cancel, TypeOK
<1>2. TypeOK'
  BY <1>1 DEF TypeOK, findings
<1>3. HandshakesAreReal' /\ FailuresAreEarned' /\ StoredIsSettled'
  BY <1>1 DEF HandshakesAreReal, FailuresAreEarned, Undisturbed, Completed, StoredIsSettled
<1>4. ProtocolsAgree' /\ ConnectionAgrees' /\ GroupsAgree' /\ SuitesAgree'
  BY <1>1, SummariesStay DEF TypeOK
<1>5. ResultAgrees'
  BY <1>1 DEF ResultAgrees
<1> QED
  BY <1>2, <1>3, <1>4, <1>5

\* Reporting the result keeps the invariant.
LEMMA ReportInv ==
  ASSUME Faithful, ReportResult
  PROVE  Faithful'
<1> USE DEF Faithful
<1>1. /\ Joined /\ ~NothingMeasured /\ main' = "scanned"
      /\ UNCHANGED <<server, config, cancelled, losses, shake, stored, findings>>
      /\ result' =
           [ protocols |-> protocols, certificate |-> certificate, warnings |-> Warnings,
             suites |-> MergeCipherSuites(ciphers, offeredCiphers),
             groups |-> MergeKeyExchanges(negotiated, offered) ]
  BY DEF ReportResult
<1>2. MergeCipherSuites(ciphers, offeredCiphers) \in Seq(SuiteEntry)
  BY SuitesMerged DEF TypeOK, ListsSuites
<1>3. MergeKeyExchanges(negotiated, offered) \in Seq(GroupEntry)
  BY GroupsMerged DEF TypeOK, ListsGroups
<1>4. Warnings \subseteq Warning
  BY DEF Warnings, Warning
<1>5. result' \in Returned
  BY <1>1, <1>2, <1>3, <1>4 DEF Returned, TypeOK
<1>6. TypeOK'
  BY <1>1, <1>5 DEF TypeOK, findings
<1>7. HandshakesAreReal' /\ FailuresAreEarned' /\ StoredIsSettled'
  BY <1>1 DEF HandshakesAreReal, FailuresAreEarned, Undisturbed, Completed, StoredIsSettled
<1>8. ProtocolsAgree' /\ ConnectionAgrees' /\ GroupsAgree' /\ SuitesAgree'
  BY <1>1, SummariesStay DEF TypeOK
<1>9. ResultAgrees'
  <2>1. NothingMeasured' <=> NothingMeasured
    BY <1>1 DEF NothingMeasured, findings
  <2>2. Warnings' = Warnings
    BY <1>1 DEF Warnings, findings
  <2> QED
    BY <1>1, <2>1, <2>2 DEF ResultAgrees, Joined, findings
<1> QED
  BY <1>6, <1>7, <1>8, <1>9

-----------------------------------------------------------------------------
(***************************************************************************)
(* The inductive invariant.                                                *)
(***************************************************************************)

\* Before the first probe nothing is settled and nothing is stored.
LEMMA InitInv == Init => Faithful
<1> SUFFICES ASSUME Init PROVE Faithful
  OBVIOUS
<1>1. \A p \in Probes : shake[p] = Pending
  BY DEF Init
<1>2. NoResult \in Returned
  <2>1. << >> \in Seq(ProtocolEntry) /\ << >> \in Seq(SuiteEntry) /\ << >> \in Seq(GroupEntry)
    BY EmptySeq
  <2> QED
    BY <2>1 DEF NoResult, Returned
<1>3. TypeOK
  <2>1. /\ shake \in [Probes -> Handshake \cup {Pending, Failed}]
        /\ losses \in 0..MaxLosses
    BY ProbesAssumption, ScanAssumption DEF Init
  <2>2. protocols \in Seq(ProtocolEntry)
    BY EmptySeq DEF Init
  <2> QED
    BY <1>2, <2>1, <2>2 DEF Init, TypeOK
<1>4. HandshakesAreReal /\ FailuresAreEarned
  BY <1>1, OutcomesDiffer DEF HandshakesAreReal, FailuresAreEarned, Completed
<1>5. /\ StoredIsSettled /\ ResultAgrees
      /\ ProtocolsAgree /\ ConnectionAgrees /\ GroupsAgree /\ SuitesAgree
  BY DEF Init, StoredIsSettled, ResultAgrees, ProtocolsAgree, ConnectionAgrees,
         GroupsAgree, SuitesAgree
<1> QED
  BY <1>3, <1>4, <1>5 DEF Faithful

\* Nothing happens in a step that leaves every variable as it is.
LEMMA StutterInv ==
  ASSUME Faithful, UNCHANGED vars
  PROVE  Faithful'
<1> USE DEF Faithful
<1>1. UNCHANGED <<server, config, cancelled, losses, main, shake, stored, findings, result>>
  BY DEF vars, findings
<1>2. TypeOK'
  BY <1>1 DEF TypeOK, findings
<1>3. HandshakesAreReal' /\ FailuresAreEarned' /\ StoredIsSettled'
  BY <1>1 DEF HandshakesAreReal, FailuresAreEarned, Undisturbed, Completed, StoredIsSettled
<1>4. ProtocolsAgree' /\ ConnectionAgrees' /\ GroupsAgree' /\ SuitesAgree'
  BY <1>1, SummariesStay DEF TypeOK
<1>5. ResultAgrees'
  <2>1. NothingMeasured' <=> NothingMeasured
    BY <1>1 DEF NothingMeasured, findings
  <2>2. Warnings' = Warnings
    BY <1>1 DEF Warnings, findings
  <2> QED
    BY <1>1, <2>1, <2>2 DEF ResultAgrees, findings
<1> QED
  BY <1>2, <1>3, <1>4, <1>5

\* The findings of the families and the result follow the probes at every
\* moment of the scan.
THEOREM Invariance == Spec => []Faithful
<1>1. Faithful /\ [Next]_vars => Faithful'
  <2> SUFFICES ASSUME Faithful, [Next]_vars PROVE Faithful'
    OBVIOUS
  <2>1. CASE ParseTarget \/ Resolve \/ ReportNoTLS \/ Cancel
    BY <2>1, QuietInv
  <2>2. CASE ReportResult
    BY <2>2, ReportInv
  <2>3. CASE Store
    BY <2>3, StoreInv
  <2>4. CASE \E p \in Probes : Settles(p) \/ IsLost(p)
    BY <2>4, ProbeInv
  <2>5. CASE UNCHANGED vars
    BY <2>5, StutterInv
  <2> QED
    BY <2>1, <2>2, <2>3, <2>4, <2>5 DEF Next, MainStep
<1> QED
  BY InitInv, <1>1, PTL DEF Spec

\* Type correctness of a scan.
THEOREM TypeCorrect == Spec => []TypeOK
<1>1. Faithful => TypeOK
  BY DEF Faithful
<1> QED
  BY Invariance, <1>1, PTL

\* No probe is made twice: what it ended in, a handshake or a failure, it ends
\* in for good, and a family that stored its findings never takes them back.
THEOREM SettledForGood ==
  Spec => [][ /\ \A p \in Probes : shake[p] # Pending => shake'[p] = shake[p]
              /\ stored \subseteq stored' ]_vars
<1> DEFINE Kept == /\ \A p \in Probes : shake[p] # Pending => shake'[p] = shake[p]
                   /\ stored \subseteq stored'
<1>1. Faithful /\ [Next]_vars => [Kept]_vars
  <2> SUFFICES ASSUME Faithful, Next PROVE Kept \/ UNCHANGED vars
    OBVIOUS
  <2>1. CASE ParseTarget \/ Resolve \/ ReportNoTLS \/ Cancel \/ ReportResult
    BY <2>1 DEF ParseTarget, Resolve, ReportNoTLS, Cancel, ReportResult
  <2>2. CASE Store
    BY <2>2 DEF Store, StoreProtocols, StoreConnection, StoreGroups, StoreSuites, Stores
  <2>3. ASSUME NEW p \in Probes, Settles(p) \/ IsLost(p)
        PROVE  Kept
    BY <2>3, ProbeStep DEF Faithful, Dialling, TypeOK
  <2> QED
    BY <2>1, <2>2, <2>3 DEF Next, MainStep
<1> QED
  BY Invariance, <1>1, PTL DEF Spec

-----------------------------------------------------------------------------
(***************************************************************************)
(* What follows for the result.                                            *)
(***************************************************************************)

\* A completed probe saw what it asks about.
LEMMA CompletedProbe ==
  ASSUME Faithful, NEW p \in Probes, Completed(p)
  PROVE  /\ shake[p] \in Handshake
         /\ p[1] = "group" => shake[p].group = p[2]
         /\ p[1] = "suite" => shake[p].suite = p[2]
BY DEF Faithful, TypeOK, Completed, HandshakesAreReal, Confirmed

\* A reported result lists what the families stored.
LEMMA ResultLists ==
  ASSUME Faithful, main = "scanned"
  PROVE  /\ result.protocols = protocols
         /\ result.warnings = Warnings
         /\ SuitesOf(result) = ciphers \cup offeredCiphers
         /\ GroupsOf(result) = negotiated \cup offered
         /\ {result.suites[k].id : k \in {m \in DOMAIN result.suites : result.suites[m].negotiated}}
              = ciphers
         /\ {result.groups[k].name : k \in {m \in DOMAIN result.groups : result.groups[m].negotiated}}
              = negotiated
         /\ Cardinality(SuitesOf(result)) = Len(result.suites)
         /\ Cardinality(GroupsOf(result)) = Len(result.groups)
<1>1. /\ result.protocols = protocols /\ result.warnings = Warnings
      /\ result.suites = MergeCipherSuites(ciphers, offeredCiphers)
      /\ result.groups = MergeKeyExchanges(negotiated, offered)
  BY DEF Faithful, ResultAgrees
<1>2. /\ ciphers \in SUBSET (Suites \cup Suites13) /\ offeredCiphers \in SUBSET Suites
      /\ negotiated \in SUBSET Groups /\ offered \in SUBSET Groups
  BY DEF Faithful, TypeOK
<1>3. ListsSuites(result.suites, ciphers, offeredCiphers)
  BY <1>1, <1>2, SuitesMerged
<1>4. ListsGroups(result.groups, negotiated, offered)
  BY <1>1, <1>2, GroupsMerged
<1>5. /\ SuitesOf(result) = {result.suites[k].id : k \in DOMAIN result.suites}
      /\ GroupsOf(result) = {result.groups[k].name : k \in DOMAIN result.groups}
  BY DEF SuitesOf, GroupsOf
<1> QED
  BY <1>1, <1>3, <1>4, <1>5 DEF ListsSuites, ListsGroups

\* Once every family has stored, every probe has settled and the findings are
\* their summary.
LEMMA StoredIsSummary ==
  ASSUME Faithful, stored = Families
  PROVE  /\ \A f \in Families : \A p \in FamilyOf(f) : shake[p] # Pending
         /\ DOMAIN protocols = DOMAIN Versions
         /\ \A k \in DOMAIN Versions :
              /\ protocols[k].version = Versions[k]
              /\ protocols[k].supported <=> Supports(k)
              /\ protocols[k].preferred <=> Preferred(k)
         /\ certificate = Completed(Connection)
         /\ ciphers = IF Completed(Connection) THEN {shake[Connection].suite} ELSE {}
         /\ negotiated = ConnectionGroup
         /\ offered = {g \in ToolchainGroups : Completed(<<"group", g>>)}
         /\ skipped = SkippedGroups
         /\ offeredCiphers = {s \in Suites : Completed(<<"suite", s>>)}
<1>1. /\ "version" \in stored /\ "connection" \in stored
      /\ "group" \in stored /\ "suite" \in stored
  BY DEF Families
<1>2. ProtocolsAgree /\ ConnectionAgrees /\ GroupsAgree /\ SuitesAgree /\ StoredIsSettled
  BY DEF Faithful
<1>3. \A f \in Families : \A p \in FamilyOf(f) : shake[p] # Pending
  BY <1>2 DEF StoredIsSettled
<1>4. /\ DOMAIN protocols = DOMAIN Versions
      /\ \A k \in DOMAIN Versions :
           /\ protocols[k].version = Versions[k]
           /\ protocols[k].supported <=> Supports(k)
           /\ protocols[k].preferred <=> Preferred(k)
  BY <1>1, <1>2 DEF ProtocolsAgree
<1>5. /\ certificate = Completed(Connection)
      /\ ciphers = IF Completed(Connection) THEN {shake[Connection].suite} ELSE {}
      /\ negotiated = ConnectionGroup
  BY <1>1, <1>2 DEF ConnectionAgrees
<1>6. /\ offered = {g \in ToolchainGroups : Completed(<<"group", g>>)} /\ skipped = SkippedGroups
      /\ offeredCiphers = {s \in Suites : Completed(<<"suite", s>>)}
  BY <1>1, <1>2 DEF GroupsAgree, SuitesAgree
<1> QED
  BY <1>3, <1>4, <1>5, <1>6

\* That is so after a reported result, and something was measured.
LEMMA ScannedIsSettled ==
  ASSUME Faithful, main = "scanned"
  PROVE  /\ ~NothingMeasured
         /\ \A f \in Families : \A p \in FamilyOf(f) : shake[p] # Pending
         /\ DOMAIN protocols = DOMAIN Versions
         /\ \A k \in DOMAIN Versions :
              /\ protocols[k].version = Versions[k]
              /\ protocols[k].supported <=> Supports(k)
              /\ protocols[k].preferred <=> Preferred(k)
         /\ certificate = Completed(Connection)
         /\ ciphers = IF Completed(Connection) THEN {shake[Connection].suite} ELSE {}
         /\ negotiated = ConnectionGroup
         /\ offered = {g \in ToolchainGroups : Completed(<<"group", g>>)}
         /\ skipped = SkippedGroups
         /\ offeredCiphers = {s \in Suites : Completed(<<"suite", s>>)}
<1>1. stored = Families /\ ~NothingMeasured
  BY DEF Faithful, ResultAgrees
<1> QED
  BY <1>1, StoredIsSummary

\* A result is never fabricated: what makes the scan report one, a supported
\* version, a certificate or a group, was seen by a probe.
THEOREM EvidenceNeeded == Spec => []ResultNeedsEvidence
<1>1. Faithful => ResultNeedsEvidence
  <2> SUFFICES ASSUME Faithful, main = "scanned"
               PROVE  \E p \in Probes : Completed(p)
    BY DEF ResultNeedsEvidence, Evidence
  <2>1. \/ \E k \in DOMAIN protocols : protocols[k].supported
        \/ certificate \/ negotiated # {} \/ offered # {}
    BY ScannedIsSettled DEF NothingMeasured
  <2>2. CASE \E k \in DOMAIN protocols : protocols[k].supported
    <3>1. PICK k \in DOMAIN Versions : Completed(<<"version", Versions[k]>>)
      BY <2>2, ScannedIsSettled DEF Supports
    <3> QED
      BY <3>1, FamilyMembers DEF Families
  <2>3. CASE certificate \/ negotiated # {}
    <3>1. Completed(Connection)
      BY <2>3, ScannedIsSettled DEF ConnectionGroup
    <3> QED
      BY <3>1, FamilyMembers DEF Families
  <2>4. CASE offered # {}
    <3>1. PICK g \in ToolchainGroups : Completed(<<"group", g>>)
      BY <2>4, ScannedIsSettled
    <3> QED
      BY <3>1, FamilyMembers DEF Families
  <2> QED
    BY <2>1, <2>2, <2>3, <2>4
<1> QED
  BY Invariance, <1>1, PTL

\* The probes of the group and the suite family, by their argument.
LEMMA FamilyArguments ==
  /\ \A p \in FamilyOf("group") : p[2] \in ToolchainGroups /\ p = <<"group", p[2]>>
  /\ \A p \in FamilyOf("suite") : p[2] \in Suites /\ p = <<"suite", p[2]>>
<1>1. /\ \A p \in {"version"} \X VersionNames : p[1] = "version"
      /\ Connection[1] = "connection"
      /\ \A p \in {"group"} \X ToolchainGroups : p[1] = "group"
      /\ \A p \in {"suite"} \X Suites : p[1] = "suite"
  BY DEF Connection
<1>2. /\ \A p \in Probes : p[1] = "group" => p \in {"group"} \X ToolchainGroups
      /\ \A p \in Probes : p[1] = "suite" => p \in {"suite"} \X Suites
  BY <1>1 DEF Probes
<1>3. \A p \in {"group"} \X ToolchainGroups : p[2] \in ToolchainGroups /\ p = <<"group", p[2]>>
  OBVIOUS
<1>4. \A p \in {"suite"} \X Suites : p[2] \in Suites /\ p = <<"suite", p[2]>>
  OBVIOUS
<1> QED
  BY <1>2, <1>3, <1>4 DEF FamilyOf

\* No handshake is lost between a probe and the result, and nothing is reported
\* that no handshake showed.
THEOREM NothingLostNothingAdded == Spec => []ResultIsWhatWasMeasured
<1>1. Faithful => ResultIsWhatWasMeasured
  <2> SUFFICES ASSUME Faithful, main = "scanned" PROVE ResultIsWhatWasMeasured
    BY DEF ResultIsWhatWasMeasured
  <2>1. SupportedBy(result) = {v \in VersionNames : <<"version", v>> \in Evidence}
    <3>1. SupportedBy(result) =
            {Versions[k] : k \in {m \in DOMAIN Versions : Completed(<<"version", Versions[m]>>)}}
      <4>1. result.protocols = protocols
        BY ResultLists
      <4>2. /\ DOMAIN protocols = DOMAIN Versions
            /\ \A k \in DOMAIN Versions : /\ protocols[k].version = Versions[k]
                                          /\ protocols[k].supported <=> Supports(k)
        BY ScannedIsSettled
      <4> QED
        BY <4>1, <4>2 DEF SupportedBy, Supports
    <3>2. \A k \in DOMAIN Versions : /\ Versions[k] \in VersionNames
                                     /\ <<"version", Versions[k]>> \in Probes
      BY FamilyMembers DEF VersionNames, Families
    <3>3. \A v \in VersionNames : \E k \in DOMAIN Versions : v = Versions[k]
      BY DEF VersionNames
    <3> QED
      BY <3>1, <3>2, <3>3 DEF Evidence
  <2>2. SuitesOf(result) = {shake[p].suite : p \in Evidence \cap (FamilyOf("suite") \cup {Connection})}
    <3> DEFINE shown == {shake[p].suite : p \in Evidence \cap (FamilyOf("suite") \cup {Connection})}
    <3>1. SuitesOf(result) = ciphers \cup offeredCiphers
      BY ResultLists
    <3>2. ASSUME NEW s \in ciphers PROVE s \in shown
      <4>1. Completed(Connection) /\ s = shake[Connection].suite
        BY ScannedIsSettled
      <4>2. Connection \in Evidence
        BY <4>1, FamilyMembers DEF Evidence, Families
      <4> QED
        BY <4>1, <4>2
    <3>3. ASSUME NEW s \in offeredCiphers PROVE s \in shown
      <4> DEFINE p == <<"suite", s>>
      <4>1. p \in FamilyOf("suite") /\ p \in Probes /\ Completed(p)
        BY ScannedIsSettled, FamilyMembers DEF Families
      <4>2. shake[p].suite = s
        BY <4>1, CompletedProbe
      <4> QED
        BY <4>1, <4>2 DEF Evidence
    <3>4. ASSUME NEW p \in Evidence \cap (FamilyOf("suite") \cup {Connection})
          PROVE  shake[p].suite \in ciphers \cup offeredCiphers
      <4>1. CASE p = Connection
        BY <4>1, ScannedIsSettled DEF Evidence
      <4>2. CASE p \in FamilyOf("suite")
        <5>1. p[1] = "suite" /\ p[2] \in Suites /\ p = <<"suite", p[2]>>
          BY <4>2, FamilyArguments DEF FamilyOf
        <5>2. Completed(p) /\ p \in Probes
          BY DEF Evidence
        <5>3. shake[p].suite = p[2]
          BY <5>1, <5>2, CompletedProbe
        <5>4. p[2] \in offeredCiphers
          BY <5>1, <5>2, ScannedIsSettled
        <5> QED
          BY <5>3, <5>4
      <4> QED
        BY <4>1, <4>2
    <3> QED
      BY <3>1, <3>2, <3>3, <3>4
  <2>3. GroupsOf(result) =
          {shake[p].group : p \in Evidence \cap (FamilyOf("group") \cup {Connection})} \ {NoGroup}
    <3> DEFINE shown == {shake[p].group : p \in Evidence \cap (FamilyOf("group") \cup {Connection})}
    <3>1. GroupsOf(result) = negotiated \cup offered /\ NoGroup \notin negotiated \cup offered
      BY ResultLists, ProbeInputsAssumption DEF Faithful, TypeOK
    <3>2. ASSUME NEW g \in negotiated PROVE g \in shown
      <4>1. Completed(Connection) /\ g = shake[Connection].group
        BY ScannedIsSettled DEF ConnectionGroup
      <4>2. Connection \in Evidence
        BY <4>1, FamilyMembers DEF Evidence, Families
      <4> QED
        BY <4>1, <4>2
    <3>3. ASSUME NEW g \in offered PROVE g \in shown
      <4> DEFINE p == <<"group", g>>
      <4>1. p \in FamilyOf("group") /\ p \in Probes /\ Completed(p)
        BY ScannedIsSettled, FamilyMembers DEF Families
      <4>2. shake[p].group = g
        BY <4>1, CompletedProbe
      <4> QED
        BY <4>1, <4>2 DEF Evidence
    <3>4. ASSUME NEW p \in Evidence \cap (FamilyOf("group") \cup {Connection}),
                 shake[p].group # NoGroup
          PROVE  shake[p].group \in negotiated \cup offered
      <4>1. CASE p = Connection
        BY <3>4, <4>1, ScannedIsSettled DEF Evidence, ConnectionGroup
      <4>2. CASE p \in FamilyOf("group")
        <5>1. p[1] = "group" /\ p[2] \in ToolchainGroups /\ p = <<"group", p[2]>>
          BY <4>2, FamilyArguments DEF FamilyOf
        <5>2. Completed(p) /\ p \in Probes
          BY DEF Evidence
        <5>3. shake[p].group = p[2]
          BY <5>1, <5>2, CompletedProbe
        <5>4. p[2] \in offered
          BY <5>1, <5>2, ScannedIsSettled
        <5> QED
          BY <5>3, <5>4
      <4> QED
        BY <4>1, <4>2
    <3> QED
      BY <3>1, <3>2, <3>3, <3>4
  <2> QED
    BY <2>1, <2>2, <2>3 DEF ResultIsWhatWasMeasured
<1> QED
  BY Invariance, <1>1, PTL

\* Exactly what the ordinary connection used is marked negotiated, and no
\* entry appears twice.
THEOREM MarkedOnce == Spec => []NegotiatedIsMarked
<1>1. Faithful => NegotiatedIsMarked
  <2> SUFFICES ASSUME Faithful, main = "scanned" PROVE NegotiatedIsMarked
    BY DEF NegotiatedIsMarked
  <2>1. Connection \in Evidence <=> Completed(Connection)
    BY FamilyMembers DEF Evidence, Families
  <2>2. ciphers = IF Connection \in Evidence THEN {shake[Connection].suite} ELSE {}
    BY <2>1, ScannedIsSettled
  <2>3. negotiated = IF Connection \in Evidence THEN {shake[Connection].group} \ {NoGroup} ELSE {}
    BY <2>1, ScannedIsSettled DEF ConnectionGroup
  <2> QED
    BY <2>2, <2>3, ResultLists DEF NegotiatedIsMarked
<1> QED
  BY Invariance, <1>1, PTL

\* A group that is absent from the result was offered in vain, or the result
\* says that groups were skipped.
THEOREM AbsenceIsNeverSilent == Spec => []AbsenceIsExplained
<1>1. Faithful => AbsenceIsExplained
  <2> SUFFICES ASSUME Faithful, main = "scanned", NEW g \in Groups \ GroupsOf(result)
               PROVE  \/ g \in ToolchainGroups /\ shake[<<"group", g>>] = Failed
                      \/ g \notin ToolchainGroups /\ "groupsSkipped" \in result.warnings
    BY DEF AbsenceIsExplained
  <2>1. CASE g \in ToolchainGroups
    <3>1. <<"group", g>> \in FamilyOf("group")
      BY <2>1, FamilyMembers
    <3>2. shake[<<"group", g>>] # Pending
      BY <3>1, ScannedIsSettled DEF Families
    <3>3. ~Completed(<<"group", g>>)
      BY <2>1, ResultLists, ScannedIsSettled
    <3> QED
      BY <2>1, <3>2, <3>3 DEF Completed
  <2>2. CASE g \notin ToolchainGroups
    <3>1. skipped # {}
      BY <2>2, ScannedIsSettled DEF SkippedGroups
    <3> QED
      BY <2>2, <3>1, ResultLists DEF Warnings
  <2> QED
    BY <2>1, <2>2
<1> QED
  BY Invariance, <1>1, PTL

AtVersion(offer, s, version) ==
  IF version = "TLS1.3"
    THEN [version : {version}, suite : s.suites13, group : offer.groups \cap s.groups]
    ELSE {h \in [ version : {version}, suite : offer.suites \cap s.suites,
                  group : ((offer.groups \cap s.groups) \ HybridGroups) \cup {NoGroup} ] :
            /\ h.suite \in AeadSuites => version = "TLS1.2"
            /\ h.suite \in EcdheSuites <=> h.group # NoGroup}

\* The handshakes of an offer are those of the highest common version.
LEMMA HandshakesAtVersion ==
  ASSUME NEW offer, NEW s, NEW k \in DOMAIN Versions, ~s.silent,
         Versions[k] \in offer.versions \cap s.versions,
         \A m \in DOMAIN Versions : Versions[m] \in offer.versions \cap s.versions => k <= m
  PROVE  Handshakes(offer, s) = AtVersion(offer, s, Versions[k])
<1> DEFINE common == {j \in DOMAIN Versions : Versions[j] \in offer.versions \cap s.versions}
           best == CHOOSE j \in common : \A m \in common : j <= m
<1>1. k \in common /\ \A m \in common : k <= m
  OBVIOUS
<1>2. best \in common /\ \A m \in common : best <= m
  BY <1>1, HighestVersion
<1> HIDE DEF best
<1>3. best = k
  <2>1. best \in DOMAIN Versions /\ best <= k /\ k <= best
    BY <1>1, <1>2
  <2>2. DOMAIN Versions = 1..4
    BY VersionFacts
  <2> QED
    BY <2>1, <2>2
<1>4. Handshakes(offer, s) =
        IF s.silent \/ common = {} THEN {} ELSE AtVersion(offer, s, Versions[best])
  BY Zenon DEF Handshakes, AtVersion, best
<1>5. ~(s.silent \/ common = {})
  BY <1>1
<1> HIDE DEF common
<1> QED
  BY <1>3, <1>4, <1>5, Zenon

\* A handshake was made at the highest common version, with a server that answers.
LEMMA HandshakeVersion ==
  ASSUME NEW offer, NEW s, NEW h \in Handshakes(offer, s)
  PROVE  /\ ~s.silent
         /\ \E k \in DOMAIN Versions :
              /\ h.version = Versions[k] /\ Versions[k] \in offer.versions \cap s.versions
              /\ \A m \in DOMAIN Versions : Versions[m] \in offer.versions \cap s.versions => k <= m
<1> DEFINE common == {j \in DOMAIN Versions : Versions[j] \in offer.versions \cap s.versions}
           best == CHOOSE j \in common : \A m \in common : j <= m
<1>1. ~s.silent /\ common # {}
  BY DEF Handshakes
<1>2. best \in common /\ \A m \in common : best <= m
  BY <1>1, HighestVersion
<1>3. h.version = Versions[best]
  <2>1. \/ h \in [version : {Versions[best]}, suite : s.suites13, group : offer.groups \cap s.groups]
        \/ h \in [ version : {Versions[best]}, suite : offer.suites \cap s.suites,
                   group : ((offer.groups \cap s.groups) \ HybridGroups) \cup {NoGroup} ]
    BY <1>1 DEF Handshakes
  <2> HIDE DEF best
  <2> QED
    BY <2>1
<1> HIDE DEF best
<1> QED
  BY <1>1, <1>2, <1>3

\* In an undisturbed scan a probe that cannot miss what it asks about completes
\* exactly when its server offers it a handshake.
LEMMA UndisturbedProbe ==
  ASSUME Faithful, Undisturbed, NEW p \in Probes, shake[p] # Pending,
         \A h \in Handshakes(Offer(p), server) : Confirmed(p, h)
  PROVE  Completed(p) <=> Handshakes(Offer(p), server) # {}
<1>1. ASSUME Completed(p) PROVE Handshakes(Offer(p), server) # {}
  BY <1>1 DEF Faithful, HandshakesAreReal
<1>2. ASSUME Handshakes(Offer(p), server) # {} PROVE Completed(p)
  <2>1. ~server.silent
    BY <1>2 DEF Handshakes
  <2>2. shake[p] # Failed
    BY <1>2, <2>1 DEF Faithful, FailuresAreEarned
  <2> QED
    BY <2>2 DEF Completed
<1> QED
  BY <1>1, <1>2

\* The version of an undisturbed connection is the first one that a version
\* probe found supported.
LEMMA ConnectionPrefers ==
  ASSUME Faithful, main = "scanned", Undisturbed, Completed(Connection)
  PROVE  \E k \in DOMAIN Versions : Versions[k] = shake[Connection].version /\ Preferred(k)
<1> DEFINE h == shake[Connection]
           offer == Offer(Connection)
           probe(k) == <<"version", Versions[k]>>
<1>1. h \in Handshakes(offer, server)
  BY FamilyMembers DEF Faithful, HandshakesAreReal, Families
<1>2. ~server.silent
  BY <1>1, HandshakeVersion
<1>3. PICK k \in DOMAIN Versions :
        /\ h.version = Versions[k] /\ Versions[k] \in offer.versions \cap server.versions
        /\ \A m \in DOMAIN Versions : Versions[m] \in offer.versions \cap server.versions => k <= m
  BY <1>1, HandshakeVersion
<1>4. /\ offer.versions = {"TLS1.3", "TLS1.2"}
      /\ offer.suites = DefaultSuites /\ offer.groups = ToolchainGroups
  BY DEF Offer, Connection
<1>5. ASSUME NEW m \in DOMAIN Versions
      PROVE  /\ probe(m) \in Probes /\ shake[probe(m)] # Pending
             /\ \A g \in Handshakes(Offer(probe(m)), server) : Confirmed(probe(m), g)
             /\ Offer(probe(m)).versions = {Versions[m]}
             /\ Offer(probe(m)).suites = DefaultSuites /\ Offer(probe(m)).groups = ToolchainGroups
  <2>1. probe(m) \in FamilyOf("version") /\ probe(m) \in Probes
    BY FamilyMembers DEF Families
  <2>2. shake[probe(m)] # Pending
    BY <2>1, ScannedIsSettled DEF Families
  <2> QED
    BY <2>1, <2>2 DEF Offer, Confirmed
<1>6. Supports(k)
  <2>1. Handshakes(Offer(probe(k)), server) = Handshakes(offer, server)
    <3>1. \A m \in DOMAIN Versions : Versions[m] \in {Versions[k]} \cap server.versions => k <= m
      <4>1. \A m \in DOMAIN Versions : Versions[m] \in {Versions[k]} \cap server.versions => k = m
        BY VersionOrder
      <4>2. k \in Int
        BY VersionOrder
      <4> QED
        BY <4>1, <4>2
    <3>2. /\ Offer(probe(k)).versions = {Versions[k]}
          /\ Offer(probe(k)).suites = offer.suites /\ Offer(probe(k)).groups = offer.groups
      BY <1>4, <1>5
    <3>3. Handshakes(offer, server) = AtVersion(offer, server, Versions[k])
      BY <1>2, <1>3, HandshakesAtVersion
    <3>4. Handshakes(Offer(probe(k)), server) = AtVersion(Offer(probe(k)), server, Versions[k])
      <4>1. /\ Versions[k] \in Offer(probe(k)).versions \cap server.versions
            /\ \A m \in DOMAIN Versions :
                 Versions[m] \in Offer(probe(k)).versions \cap server.versions => k <= m
        BY <1>3, <3>1, <3>2
      <4> QED
        BY <1>2, <4>1, HandshakesAtVersion
    <3> QED
      BY <3>2, <3>3, <3>4 DEF AtVersion
  <2> QED
    BY <1>1, <1>5, <2>1, UndisturbedProbe DEF Supports
<1>7. ASSUME NEW m \in 1..k-1 PROVE ~Supports(m)
  <2>1. m \in DOMAIN Versions /\ m < k /\ m = 1 /\ k \in Int
    <3>1. k \in {1, 2}
      BY <1>3, <1>4, VersionOrder
    <3>2. m \in DOMAIN Versions /\ m < k
      BY VersionOrder
    <3> QED
      BY <3>1, <3>2
  <2>2. Versions[m] \in offer.versions
    BY <1>4, <2>1, VersionFacts
  <2>3. Versions[m] \notin server.versions
    <3>1. ~(k <= m)
      BY <2>1
    <3> QED
      BY <1>3, <2>1, <2>2, <3>1
  <2>4. Handshakes(Offer(probe(m)), server) = {}
    BY <1>5, <2>1, <2>3, HandshakeVersion
  <2> QED
    BY <1>5, <2>1, <2>4, UndisturbedProbe DEF Supports
<1> QED
  BY <1>3, <1>6, <1>7 DEF Preferred

\* At most one version is preferred, and an undisturbed connection used it.
THEOREM PreferredVersion == Spec => []PreferredIsNegotiated
<1>1. Faithful => PreferredIsNegotiated
  <2> SUFFICES ASSUME Faithful, main = "scanned" PROVE PreferredIsNegotiated
    BY DEF PreferredIsNegotiated
  <2> DEFINE preferred == {k \in DOMAIN result.protocols : result.protocols[k].preferred}
  <2>1. /\ \A k \in DOMAIN Versions : result.protocols[k].version = Versions[k]
        /\ preferred = {k \in DOMAIN Versions : Preferred(k)}
    <3>1. result.protocols = protocols
      BY ResultLists
    <3> QED
      BY <3>1, ScannedIsSettled
  <2>2. \A k, m \in preferred : k = m
    <3>1. \A k, m \in preferred : ~(k < m)
      BY <2>1, VersionOrder DEF Preferred
    <3>2. \A k, m \in preferred : k \in Int /\ m \in Int
      BY <2>1, VersionOrder
    <3> HIDE DEF preferred
    <3> QED
      BY <3>1, <3>2
  <2>3. Cardinality(preferred) <= 1
    <3> HIDE DEF preferred
    <3>1. CASE preferred = {}
      BY <3>1, FS_EmptySet
    <3>2. CASE preferred # {}
      <4>1. PICK k \in preferred : TRUE
        BY <3>2
      <4>2. preferred = {k}
        BY <2>2, <4>1
      <4>3. Cardinality({k}) = 1
        BY FS_Singleton
      <4> QED
        BY <4>2, <4>3
    <3> QED
      BY <3>1, <3>2
  <2>4. ASSUME Undisturbed, Connection \in Evidence
        PROVE  {result.protocols[k].version : k \in preferred} = {shake[Connection].version}
    <3>1. PICK k \in DOMAIN Versions : Versions[k] = shake[Connection].version /\ Preferred(k)
      BY <2>4, ConnectionPrefers DEF Evidence
    <3>2. preferred = {k}
      BY <2>1, <2>2, <3>1
    <3> HIDE DEF preferred
    <3> QED
      BY <2>1, <3>1, <3>2
  <2> QED
    BY <2>3, <2>4 DEF PreferredIsNegotiated
<1> QED
  BY Invariance, <1>1, PTL

\* An undisturbed scan lists every suite of TLS 1.2 and earlier that the server
\* would use with this client.
THEOREM EnumerationIsExhaustive == Spec => []UndisturbedScanIsExhaustive
<1>1. Faithful => UndisturbedScanIsExhaustive
  <2> SUFFICES ASSUME Faithful, main = "scanned", Undisturbed, NEW s \in UsableSuites
               PROVE  s \in SuitesOf(result)
    BY DEF UndisturbedScanIsExhaustive
  <2> DEFINE p == <<"suite", s>>
             old == {k \in DOMAIN Versions : Versions[k] \in server.versions \ {"TLS1.3"}}
             best == CHOOSE k \in old : \A m \in old : k <= m
             usable == (server.groups \cap ToolchainGroups) \ HybridGroups
  <2>1. server.suites \subseteq Suites /\ server.versions \subseteq VersionNames
        /\ server.groups \subseteq Groups
    BY ProbeInputsAssumption DEF Faithful, TypeOK, Server
  <2>2. /\ ~server.silent /\ old # {} /\ s \in server.suites
        /\ s \in AeadSuites => Versions[best] = "TLS1.2"
        /\ s \in EcdheSuites => usable # {}
    BY DEF UsableSuites
  <2>3. best \in old /\ \A m \in old : best <= m
    BY <2>2, HighestVersion
  <2> HIDE DEF best
  <2>4. /\ p \in Probes /\ p \in FamilyOf("suite") /\ shake[p] # Pending
        /\ \A h \in Handshakes(Offer(p), server) : h.suite = s => Confirmed(p, h)
    <3>1. p \in FamilyOf("suite") /\ p \in Probes
      BY <2>1, <2>2, FamilyMembers DEF Families
    <3>2. shake[p] # Pending
      BY <3>1, ScannedIsSettled DEF Families
    <3> QED
      BY <3>1, <3>2 DEF Confirmed
  <2>5. /\ Offer(p).versions = VersionNames \ {"TLS1.3"}
        /\ Offer(p).suites = {s} /\ Offer(p).groups = ToolchainGroups
    BY DEF Offer
  <2>6. Handshakes(Offer(p), server) = AtVersion(Offer(p), server, Versions[best])
    <3>1. \A k \in DOMAIN Versions :
            Versions[k] \in Offer(p).versions \cap server.versions <=> k \in old
      BY <2>1, <2>5
    <3>2. best \in DOMAIN Versions
      BY <2>3
    <3>3. /\ Versions[best] \in Offer(p).versions \cap server.versions
          /\ \A m \in DOMAIN Versions :
               Versions[m] \in Offer(p).versions \cap server.versions => best <= m
      BY <2>3, <3>1, <3>2
    <3> QED
      BY <2>2, <3>2, <3>3, HandshakesAtVersion
  <2>7. Versions[best] # "TLS1.3"
    BY <2>3
  <2>8. \A h \in Handshakes(Offer(p), server) : Confirmed(p, h)
    <3> SUFFICES ASSUME NEW h \in AtVersion(Offer(p), server, Versions[best])
                 PROVE  Confirmed(p, h)
      BY <2>6
    <3>1. h \in [ version : {Versions[best]}, suite : {s} \cap server.suites,
                  group : ((ToolchainGroups \cap server.groups) \ HybridGroups) \cup {NoGroup} ]
      BY <2>5, <2>7 DEF AtVersion
    <3>2. h.suite = s
      BY <3>1
    <3> QED
      BY <2>4, <2>6, <3>2
  <2>9. Handshakes(Offer(p), server) # {}
    <3> DEFINE group == IF s \in EcdheSuites THEN CHOOSE g \in usable : TRUE ELSE NoGroup
               h == [version |-> Versions[best], suite |-> s, group |-> group]
    <3>1. /\ group \in ((ToolchainGroups \cap server.groups) \ HybridGroups) \cup {NoGroup}
          /\ s \in EcdheSuites <=> group # NoGroup
      BY <2>1, <2>2, ProbeInputsAssumption
    <3> HIDE DEF group
    <3>2. h \in AtVersion(Offer(p), server, Versions[best])
      BY <2>2, <2>5, <2>7, <3>1 DEF AtVersion
    <3> QED
      BY <2>6, <3>2
  <2>10. Completed(p)
    BY <2>4, <2>8, <2>9, UndisturbedProbe
  <2> QED
    BY <2>1, <2>2, <2>10, ResultLists, ScannedIsSettled
<1> QED
  BY Invariance, <1>1, PTL
=============================================================================
