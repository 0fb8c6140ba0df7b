---------------------------- MODULE ElectionProofs ----------------------------
(***************************************************************************)
(* Proofs about Election: its type invariant, PrimaryOpen and              *)
(* TakeoverFresh, whatever the servers, the datagrams that are lost or     *)
(* late, and the bounds.  The lemmas on types are about the steps of one   *)
(* server and the datagrams they read, so that FailoverProofs can use them.*)
(***************************************************************************)
EXTENDS Election, FiniteSetTheorems, WellFoundedInduction, TLAPS

--------------------------------------------------------------------------------
(* Operators *)

\* A log is a sequence, and its length, which version returns, is a version.
LEMMA LogLength ==
    \A l \in Logs : /\ l \in Seq(Requests)
                    /\ Len(l) \in Versions
                    /\ DOMAIN l = 1 .. Len(l)
<1> SUFFICES ASSUME NEW l \in Logs
             PROVE  l \in Seq(Requests) /\ Len(l) \in Versions /\ DOMAIN l = 1 .. Len(l)
  OBVIOUS
<1>1. PICK n \in Versions : l \in [1 .. n -> Requests]
  BY DEF Logs
<1>2. n \in Nat
  BY <1>1, ElectionAssumption DEF Versions
<1>3. Len(l) = n /\ l \in Seq(Requests)
  BY <1>1, <1>2
<1> QED BY <1>1, <1>3

\* The version of a server is one of Versions.
LEMMA VersionTyped == ASSUME StateOK PROVE \A s \in Servers : version(s) \in Versions
  BY LogLength DEF StateOK, version

\* A report, of summaries or of a floor, is of servers and numbers.
LEMMA ReportNumbers ==
    \A r \in Reports : /\ DOMAIN r \subseteq Servers
                       /\ \A p \in DOMAIN r : r[p] \in Nat
<1> SUFFICES ASSUME NEW r \in Reports
             PROVE  DOMAIN r \subseteq Servers /\ \A p \in DOMAIN r : r[p] \in Nat
  OBVIOUS
<1>1. PICK P \in SUBSET Servers : r \in [P -> Versions]
  BY DEF Reports
<1>2. Versions \subseteq Nat
  BY ElectionAssumption DEF Versions
<1> QED BY <1>1, <1>2

\* A finite set that is not empty has an element that no other one is above, in any
\* strict order: of the sets of elements above one, a smallest is empty.
LEMMA Maximal ==
    ASSUME NEW D, IsFiniteSet(D), D # {}, NEW Above,
           \A p \in D : <<p, p>> \notin Above,
           \A p, q, r \in D : <<p, q>> \in Above /\ <<q, r>> \in Above => <<p, r>> \in Above
    PROVE  \E p \in D : \A q \in D : <<q, p>> \notin Above
<1> DEFINE Greater(q) == {p \in D : <<p, q>> \in Above}
           T == {Greater(q) : q \in D}
<1>1. T \subseteq FiniteSubsetsOf(D)
  BY FS_Subset DEF FiniteSubsetsOf
<1>2. PICK least \in T : \A other \in T : ~(<<other, least>> \in StrictSubsetOrdering(D))
  <2>1. T # {}
    <3>1. PICK p \in D : TRUE
      OBVIOUS
    <3>2. Greater(p) \in T
      OBVIOUS
    <3> QED BY <3>2
  <2>2. IsWellFoundedOn(StrictSubsetOrdering(D), FiniteSubsetsOf(D))
    BY FS_StrictSubsetOrderingWellFounded
  <2> QED BY <2>1, <2>2, <1>1, WFMin
<1>3. PICK p \in D : least = Greater(p)
  OBVIOUS
<1>4. SUFFICES ASSUME NEW q \in D, <<q, p>> \in Above PROVE FALSE
  BY <1>3
<1>5. Greater(q) \subseteq Greater(p) /\ Greater(q) # Greater(p)
  BY <1>4
<1>6. <<Greater(q), Greater(p)>> \in StrictSubsetOrdering(D)
  BY <1>5 DEF StrictSubsetOrdering
<1> QED BY <1>2, <1>3, <1>4, <1>6

\* There is a highest server.
LEMMA HighestServer == Highest \in Servers
<1> DEFINE Above == {pair \in Servers \X Servers : pair[1] > pair[2]}
<1>0. \A p, q \in Servers : <<p, q>> \in Above <=> p > q
  OBVIOUS
<1>1. PICK p \in Servers : \A q \in Servers : <<q, p>> \notin Above
  <2>1. Servers \subseteq Nat /\ IsFiniteSet(Servers) /\ Servers # {}
    BY ElectionAssumption
  <2>2. \A q \in Servers : <<q, q>> \notin Above
    BY <1>0, <2>1
  <2>3. \A q, r, u \in Servers : <<q, r>> \in Above /\ <<r, u>> \in Above => <<q, u>> \in Above
    BY <1>0, <2>1
  <2> HIDE DEF Above
  <2> QED BY <2>1, <2>2, <2>3, Maximal
<1>2. \A q \in Servers : q <= p
  <2>1. \A q \in Servers : ~(q > p)
    BY <1>0, <1>1, Zenon
  <2> QED BY <2>1, ElectionAssumption
<1> QED BY <1>2 DEF Highest

\* A set of reports is never without the newest one: the order that
\* become_coordinator sorts by has a greatest element in each of them.
LEMMA NewestReported ==
    ASSUME StateOK, NEW s \in Servers, DOMAIN summaries[s] # {}
    PROVE  /\ Newest(s) \in DOMAIN summaries[s]
           /\ \A q \in DOMAIN summaries[s] : summaries[s][q] <= summaries[s][Newest(s)]
<1> DEFINE D == DOMAIN summaries[s]
           v(p) == summaries[s][p]
           Above == {pair \in D \X D : \/ v(pair[1]) > v(pair[2])
                                       \/ v(pair[1]) = v(pair[2]) /\ pair[1] > pair[2]}
<1>1. /\ \A p \in D : v(p) \in Nat /\ p \in Nat
      /\ D \subseteq Servers
  <2>1. summaries[s] \in Reports
    BY DEF StateOK
  <2> QED BY <2>1, ReportNumbers, ElectionAssumption
<1>5. \A p, q \in D : <<p, q>> \in Above <=> v(p) > v(q) \/ (v(p) = v(q) /\ p > q)
  OBVIOUS
<1>2. PICK p \in D : \A q \in D : <<q, p>> \notin Above
  <2>1. IsFiniteSet(D)
    BY <1>1, ElectionAssumption, FS_Subset
  <2>2. \A q \in D : <<q, q>> \notin Above
    BY <1>1, <1>5
  <2>3. \A q, r, u \in D : <<q, r>> \in Above /\ <<r, u>> \in Above => <<q, u>> \in Above
    BY <1>1, <1>5
  <2> HIDE DEF Above
  <2> QED BY <2>1, <2>2, <2>3, Maximal
<1>3. \A q \in D : v(q) < v(p) \/ (v(q) = v(p) /\ q <= p)
  <2>1. \A q \in D : ~(v(q) > v(p) \/ (v(q) = v(p) /\ q > p))
    BY <1>2, <1>5, Zenon
  <2> QED BY <1>1, <2>1
<1>4. /\ Newest(s) \in D
      /\ \A q \in D : v(q) < v(Newest(s)) \/ (v(q) = v(Newest(s)) /\ q <= Newest(s))
  BY <1>3 DEF Newest
<1> QED BY <1>1, <1>4

--------------------------------------------------------------------------------
(* Types: each step of one server, with the datagrams it reads *)

\* The datagrams of the election are what their kinds say.
Received ==
    /\ Sent("ELECTION") \subseteq Elections
    /\ Sent("ELECTION_OK") \cup Sent("STATE_SUMMARY_REQUEST") \subseteq Calls
    /\ Sent("STATE_SUMMARY") \subseteq Summaries
    /\ Sent("SNAPSHOT_REQUEST") \subseteq SnapshotRequests
    /\ Sent("SNAPSHOT") \subseteq Snapshots
    /\ Sent("COORDINATOR") \subseteq Coordinators
    /\ Sent("HEARTBEAT") \subseteq Heartbeats

\* A candidate that collects answers has its own: there is one to choose.
OwnReport == \A s \in Servers : phase[s] = "collecting" => s \in DOMAIN summaries[s]

\* Nothing is sent but datagrams of the election.
SendsTyped == messages' \ messages \subseteq Messages

\* What Transmit adds to the network is among what is sent.
LEMMA Transmitted ==
    ASSUME NEW net, NEW new, Transmit(net, new)
    PROVE  messages' \subseteq net \cup new
  BY DEF Transmit

\* Snapshot returns a snapshot.
LEMMA SnapshotTyped ==
    ASSUME StateOK, NEW s \in Servers, NEW p \in Servers
    PROVE  Snapshot(s, p) \in Snapshots
  BY DEF StateOK, Snapshot, Snapshots

\* Coordinator returns an announcement.
LEMMA CoordinatorTyped ==
    ASSUME StateOK, NEW s \in Servers
    PROVE  Coordinator(s) \in Coordinators
  BY VersionTyped DEF StateOK, Coordinator, Coordinators

\* A membership is replaced by a membership.
LEMMA MembersTyped ==
    ASSUME StateOK, NEW s \in Servers, NEW new \in Memberships, SetMembers(s, new)
    PROVE  members' \in [Servers -> Memberships]
  BY DEF StateOK, SetMembers

\* A membership that a sender is entered in is one (note_server).
LEMMA NotedTyped ==
    ASSUME StateOK, NEW s \in Servers, NEW p, NEW status \in {"JOINING", "ACTIVE"},
           Noted(s, p, status)
    PROVE  members' \in [Servers -> Memberships]
<1>1. Note(s, p, status) \in Memberships
  <2>1. members[s] \in Memberships
    BY DEF StateOK
  <2> QED BY <2>1 DEF Note, Memberships
<1> QED BY <1>1, MembersTyped DEF Noted

\* The thread ends: its variables are reset.
LEMMA FinishTyped ==
    ASSUME StateOK, NEW s \in Servers, NEW from, NEW new \in SUBSET Messages, Finish(s, from, new),
           UNCHANGED <<alive, elections, term, leader_id, log, members>>,
           role' \in [Servers -> {"JOINING", "BACKUP", "CANDIDATE", "PRIMARY", "LEAVING"}],
           transitioning' \in [Servers -> BOOLEAN],
           due' \in [Servers -> BOOLEAN]
    PROVE  StateOK' /\ SendsTyped
<1>1. SendsTyped
  BY Transmitted DEF Finish, Send, SendsTyped
<1>2. <<>> \in Reports
  <2>1. <<>> \in [{} -> Versions]
    OBVIOUS
  <2> QED BY <2>1 DEF Reports
<1>3. summaries' \in [Servers -> Reports] /\ floor' \in [Servers -> Reports]
  BY <1>2 DEF StateOK, Finish, Forget
<1>4. 0 \in Versions
  BY ElectionAssumption DEF Versions
<1> QED BY <1>1, <1>3, <1>4 DEF StateOK, Finish, Forget, Advance, Phases

\* start_election is entered.
LEMMA StartTyped ==
    ASSUME StateOK, NEW s \in Servers, StartElection(s), UNCHANGED <<alive, members>>
    PROVE  StateOK' /\ SendsTyped
<1>1. SendsTyped
  BY DEF StartElection, SendsTyped
<1>2. peers' \in [Servers -> SUBSET Servers]
  BY DEF StateOK, StartElection, ActivePeers, Active
<1>3. elections' \in 0 .. MaxElections
  BY ElectionAssumption DEF StateOK, StartElection
<1>4. phase' \in [Servers -> Phases] /\ due' \in [Servers -> BOOLEAN]
  BY DEF StateOK, StartElection, Advance, Phases
<1> QED BY <1>1, <1>2, <1>3, <1>4 DEF StateOK, StartElection

\* The steps of the thread that leave the membership alone.
LEMMA ThreadTyped ==
    ASSUME StateOK, OwnReport, NEW s \in Servers, ThreadStep(s), UNCHANGED <<members, alive, elections>>
    PROVE  StateOK' /\ SendsTyped
<1> USE DEF stateVars, eventVars, threadOnly
<1>1. CASE CallHigher(s)
  <2>1. SendsTyped
    BY <1>1, Transmitted DEF CallHigher, Send, Call, StateOK, Elections, Messages, SendsTyped
  <2> QED BY <1>1, <2>1 DEF StateOK, CallHigher, Advance, Phases
<1>2. CASE OkArrived(s) \/ OkTimeout(s) \/ SnapshotArrived(s)
  BY <1>2 DEF StateOK, OkArrived, OkTimeout, SnapshotArrived, Advance, Phases, SendsTyped
<1>3. CASE CoordinatorArrived(s) \/ CoordinatorTimeout(s)
  <2>1. \E new \in SUBSET Messages : Finish(s, "awaitingCoordinator", new)
    BY <1>3 DEF CoordinatorArrived, CoordinatorTimeout
  <2>2. UNCHANGED <<role, term, leader_id, log, transitioning>> /\ due' \in [Servers -> BOOLEAN]
    BY <1>3 DEF StateOK, CoordinatorArrived, CoordinatorTimeout, Schedule
  <2> QED BY <2>1, <2>2, FinishTyped DEF StateOK
<1>4. CASE GiveUp(s)
  BY <1>4, FinishTyped DEF StateOK, GiveUp
<1>5. CASE SummaryTimeout(s) \/ SnapshotTimeout(s) \/ Outdated(s)
  <2>1. \E from \in Phases, new \in SUBSET Messages : Finish(s, from, new)
    BY <1>5 DEF SummaryTimeout, SnapshotTimeout, Outdated, Phases
  <2>2. UNCHANGED <<role, term, leader_id, log, transitioning>> /\ due' \in [Servers -> BOOLEAN]
    BY <1>5 DEF StateOK, SummaryTimeout, SnapshotTimeout, Outdated, Schedule
  <2> QED BY <2>1, <2>2, FinishTyped DEF StateOK
<1>6. CASE SummariesComplete(s)
  <2>1. /\ Newest(s) \in DOMAIN summaries[s]
        /\ summaries[s][Newest(s)] \in Versions
        /\ Newest(s) \in Servers
    <3>1. DOMAIN summaries[s] # {}
      BY <1>6 DEF SummariesComplete, OwnReport
    <3> QED BY <3>1, NewestReported DEF StateOK, Reports
  <2>2. SendsTyped
    BY <1>6, <2>1, Transmitted DEF SummariesComplete, Send, SnapshotRequests, Messages, SendsTyped
  <2>3. <<>> \in Reports
    <3>1. <<>> \in [{} -> Versions]
      OBVIOUS
    <3> QED BY <3>1 DEF Reports
  <2>4. phase' \in [Servers -> Phases] /\ installed' \in [Servers -> BOOLEAN]
    BY <1>6 DEF StateOK, SummariesComplete, Phases
  <2> QED BY <1>6, <2>1, <2>2, <2>3, <2>4 DEF StateOK, SummariesComplete
<1>7. ASSUME NEW p \in Servers, PushSnapshot(s, p)
      PROVE  StateOK' /\ SendsTyped
  <2>1. SendsTyped
    BY <1>7, SnapshotTyped, Transmitted DEF PushSnapshot, Send, Messages, SendsTyped
  <2> QED BY <1>7, <2>1 DEF StateOK, PushSnapshot
<1>8. CASE BecomePrimary(s)
  <2>1. {Coordinator(s)} \subseteq Messages
    BY CoordinatorTyped DEF Messages
  <2> QED BY <1>8, <2>1, FinishTyped DEF StateOK, BecomePrimary
<1> QED BY <1>1, <1>2, <1>3, <1>4, <1>5, <1>6, <1>7, <1>8 DEF ThreadStep

\* The other steps of the thread, that change the membership too.
LEMMA ElectionStepTyped ==
    ASSUME StateOK, OwnReport, NEW s \in Servers, ElectionStep(s), UNCHANGED <<alive, elections>>
    PROVE  StateOK' /\ SendsTyped
<1> USE DEF stateVars, eventVars
<1>1. CASE AskSummaries(s)
  <2>1. PICK gone \in Silent(s), active \in ActivePeers(s) :
          /\ SetMembers(s, Without(s, gone))
          /\ peers' = [peers EXCEPT ![s] = active \ gone]
    BY <1>1 DEF AskSummaries
  <2>2. Without(s, gone) \in Memberships
    BY DEF StateOK, Without, Memberships
  <2>3. members' \in [Servers -> Memberships]
    BY <2>1, <2>2, MembersTyped
  <2>4. peers' \in [Servers -> SUBSET Servers]
    BY <2>1 DEF StateOK, ActivePeers, Active
  <2>5. [p \in {s} |-> version(s)] \in Reports
    <3>1. [p \in {s} |-> version(s)] \in [{s} -> Versions]
      BY VersionTyped
    <3> QED BY <3>1 DEF Reports
  <2>6. [p \in peers'[s] |-> version(p)] \in Reports
    <3>1. peers'[s] \in SUBSET Servers
      BY <2>4
    <3>2. [p \in peers'[s] |-> version(p)] \in [peers'[s] -> Versions]
      BY <3>1, VersionTyped
    <3> QED BY <3>1, <3>2 DEF Reports
  <2>7. summaries' \in [Servers -> Reports] /\ floor' \in [Servers -> Reports]
    BY <1>1, <2>5, <2>6 DEF StateOK, AskSummaries
  <2> QED BY <1>1, <2>3, <2>4, <2>7 DEF StateOK, AskSummaries, Advance, Phases, SendsTyped
<1>2. CASE TakeLead(s)
  <2>1. PICK gone \in Silent(s), active \in ActivePeers(s) :
          /\ SetMembers(s, [Without(s, gone) EXCEPT ![s] = "ACTIVE"])
          /\ peers' = [peers EXCEPT ![s] = active \ gone]
    BY <1>2 DEF TakeLead
  <2>2. [Without(s, gone) EXCEPT ![s] = "ACTIVE"] \in Memberships
    BY DEF StateOK, Without, Memberships
  <2>3. members' \in [Servers -> Memberships]
    BY <2>1, <2>2, MembersTyped
  <2>4. peers' \in [Servers -> SUBSET Servers]
    BY <2>1 DEF StateOK, ActivePeers, Active
  <2> QED BY <1>2, <2>3, <2>4 DEF StateOK, TakeLead, Advance, Phases, Leaders, SendsTyped
<1> QED BY <1>1, <1>2, ThreadTyped DEF ElectionStep

\* A snapshot that is received, installed or not.
LEMMA SnapshotStepTyped ==
    ASSUME StateOK, NEW s \in Servers, NEW m \in Snapshots, HandleSnapshot(s, m),
           UNCHANGED <<alive, elections>>
    PROVE  StateOK' /\ SendsTyped
<1> USE DEF stateVars, threadVars
<1>1. SendsTyped
  BY DEF HandleSnapshot, SendsTyped
<1>2. /\ m.log \in Logs /\ m.term \in Nat /\ m.from \in Servers /\ m.leader \in Leaders
      /\ m.members \in Memberships
  BY DEF Snapshots
<1>3. CASE Older(s, m)
  <2>1. members' \in [Servers -> Memberships]
    BY <1>3, NotedTyped DEF HandleSnapshot
  <2> QED BY <1>1, <1>3, <2>1 DEF StateOK, HandleSnapshot
<1>4. CASE ~Older(s, m)
  <2>1. [m.members EXCEPT ![s] = "ACTIVE"] \in Memberships
    BY <1>2 DEF Memberships
  <2>2. members' \in [Servers -> Memberships]
    BY <1>4, <2>1, MembersTyped DEF HandleSnapshot
  <2>3. /\ leader_id' \in [Servers -> Leaders]
        /\ role' \in [Servers -> {"JOINING", "BACKUP", "CANDIDATE", "PRIMARY", "LEAVING"}]
    BY <1>2, <1>4 DEF StateOK, HandleSnapshot, Leaders
  <2>4. log' \in [Servers -> Logs] /\ term' \in [Servers -> Nat]
    BY <1>2, <1>4 DEF StateOK, HandleSnapshot
  <2>5. /\ transitioning' \in [Servers -> BOOLEAN] /\ installed' \in [Servers -> BOOLEAN]
        /\ due' \in [Servers -> BOOLEAN]
    BY <1>4 DEF StateOK, HandleSnapshot
  <2> QED BY <1>1, <1>4, <2>2, <2>3, <2>4, <2>5 DEF StateOK, HandleSnapshot
<1> QED BY <1>3, <1>4

\* COORDINATOR and HEARTBEAT.
LEMMA LeaderTyped ==
    ASSUME StateOK, NEW s \in Servers, NEW m \in Coordinators \cup Heartbeats, HandleLeader(s, m),
           UNCHANGED <<alive, elections>>
    PROVE  StateOK' /\ SendsTyped
<1> USE DEF stateVars, threadVars, eventVars
<1>1. m.from \in Servers /\ m.term \in Nat /\ m.members \in Memberships
  BY DEF Coordinators, Heartbeats
<1>2. CASE HandleConflict(s, m) \/ IgnoreLeader(s, m)
  <2>1. members' \in [Servers -> Memberships]
    BY <1>2, NotedTyped DEF HandleConflict, IgnoreLeader
  <2> QED BY <1>2, <2>1 DEF StateOK, HandleConflict, IgnoreLeader, Schedule, SendsTyped
<1>3. CASE Follow(s, m)
  <2>1. Note(s, m.from, "ACTIVE") \in Memberships
    <3>1. members[s] \in Memberships
      BY DEF StateOK
    <3> QED BY <3>1 DEF Note, Memberships
  <2>2. members' \in [Servers -> Memberships]
    BY <1>1, <1>3, <2>1, MembersTyped DEF Follow
  <2>3. role' \in [Servers -> {"JOINING", "BACKUP", "CANDIDATE", "PRIMARY", "LEAVING"}]
    BY <1>3 DEF StateOK, Follow
  <2>4. transitioning' \in [Servers -> BOOLEAN] /\ announced' \in [Servers -> BOOLEAN]
    BY <1>3 DEF StateOK, Follow
  <2> QED BY <1>1, <1>3, <2>2, <2>3, <2>4 DEF StateOK, Follow, Leaders, SendsTyped
<1> QED BY <1>2, <1>3 DEF HandleLeader

\* All other datagrams.
LEMMA ReceiveTyped ==
    ASSUME StateOK, Received, NEW s \in Servers, ReceiveCall(s), UNCHANGED <<alive, elections>>
    PROVE  StateOK' /\ SendsTyped
<1> USE DEF stateVars, threadVars, eventVars
<1>1. ASSUME NEW m \in Sent("ELECTION"), HandleElection(s, m)
      PROVE  StateOK' /\ SendsTyped
  <2>1. m \in Elections
    BY <1>1 DEF Received
  <2>2. SendsTyped
    BY <1>1, <2>1, Transmitted DEF HandleElection, Reply, Elections, Calls, Messages, SendsTyped
  <2>3. members' \in [Servers -> Memberships]
    BY <1>1, NotedTyped DEF HandleElection
  <2>4. due' \in [Servers -> BOOLEAN] /\ term' \in [Servers -> Nat]
    BY <1>1, <2>1 DEF StateOK, HandleElection, Schedule, Elections
  <2> QED BY <1>1, <2>2, <2>3, <2>4 DEF StateOK, HandleElection
<1>2. ASSUME NEW m \in Sent("ELECTION_OK"), HandleElectionOk(s, m)
      PROVE  StateOK' /\ SendsTyped
  <2>1. SendsTyped
    BY <1>2, Transmitted DEF HandleElectionOk, Reply, SendsTyped
  <2>2. members' \in [Servers -> Memberships]
    BY <1>2, NotedTyped DEF HandleElectionOk
  <2>3. ok' \in [Servers -> BOOLEAN]
    BY <1>2 DEF StateOK, HandleElectionOk
  <2> QED BY <1>2, <2>1, <2>2, <2>3 DEF StateOK, HandleElectionOk
<1>3. ASSUME NEW m \in Sent("STATE_SUMMARY_REQUEST"), HandleSummaryRequest(s, m)
      PROVE  StateOK' /\ SendsTyped
  <2>0. m \in Calls
    BY <1>3 DEF Received
  <2>1. SendsTyped
    BY <1>3, <2>0, VersionTyped, Transmitted
       DEF HandleSummaryRequest, Reply, StateOK, Calls, Summaries, Messages, SendsTyped
  <2>2. members' \in [Servers -> Memberships]
    BY <1>3, NotedTyped DEF HandleSummaryRequest
  <2> QED BY <1>3, <2>1, <2>2 DEF StateOK, HandleSummaryRequest
<1>4. ASSUME NEW m \in Sent("STATE_SUMMARY"), HandleSummary(s, m)
      PROVE  StateOK' /\ SendsTyped
  <2>1. m.from \in Servers /\ m.version \in Versions
    BY <1>4 DEF Received, Summaries
  <2>2. SendsTyped
    BY <1>4, Transmitted DEF HandleSummary, Reply, SendsTyped
  <2>3. members' \in [Servers -> Memberships]
    BY <1>4, NotedTyped DEF HandleSummary
  <2>4. summaries' \in [Servers -> Reports]
    <3> DEFINE D == DOMAIN summaries[s] \cup {m.from}
               new == [p \in D |-> IF p = m.from THEN m.version ELSE summaries[s][p]]
    <3>1. D \subseteq Servers /\ \A p \in DOMAIN summaries[s] : summaries[s][p] \in Versions
      BY <2>1 DEF StateOK, Reports
    <3>2. new \in [D -> Versions]
      BY <2>1, <3>1
    <3>3. new \in Reports
      BY <3>1, <3>2 DEF Reports
    <3> QED BY <1>4, <3>3 DEF StateOK, HandleSummary
  <2> QED BY <1>4, <2>2, <2>3, <2>4 DEF StateOK, HandleSummary
<1>5. ASSUME NEW m \in Sent("SNAPSHOT_REQUEST"), HandleSnapshotRequest(s, m)
      PROVE  StateOK' /\ SendsTyped
  <2>1. m.from \in Servers
    BY <1>5 DEF Received, SnapshotRequests
  <2>2. SendsTyped
    BY <1>5, <2>1, SnapshotTyped, Transmitted DEF HandleSnapshotRequest, Reply, Messages, SendsTyped
  <2>3. members' \in [Servers -> Memberships]
    BY <1>5, NotedTyped DEF HandleSnapshotRequest
  <2> QED BY <1>5, <2>2, <2>3 DEF StateOK, HandleSnapshotRequest
<1>6. ASSUME NEW m \in Sent("COORDINATOR"), RejectCoordinator(s, m)
      PROVE  StateOK' /\ SendsTyped
  <2>1. m.from \in Servers
    BY <1>6 DEF Received, Coordinators
  <2>2. SendsTyped
    BY <1>6, <2>1, SnapshotTyped, Transmitted DEF RejectCoordinator, Send, Messages, SendsTyped
  <2>3. members' \in [Servers -> Memberships]
    BY <1>6, NotedTyped DEF RejectCoordinator
  <2> QED BY <1>6, <2>2, <2>3 DEF StateOK, RejectCoordinator, Schedule
<1>7. ASSUME NEW m \in Sent("COORDINATOR") \cup Sent("HEARTBEAT"), HandleLeader(s, m)
      PROVE  StateOK' /\ SendsTyped
  BY <1>7, LeaderTyped DEF Received
<1> QED BY <1>1, <1>2, <1>3, <1>4, <1>5, <1>6, <1>7 DEF ReceiveCall

\* What is due is dropped, a question is repeated, and a PRIMARY announces itself.
LEMMA OtherStepsTyped ==
    ASSUME StateOK, NEW s \in Servers,
           IgnoreDue(s) \/ (\E p \in Servers : RequestSummary(s, p)) \/ SendHeartbeat(s),
           UNCHANGED <<alive, elections, members>>
    PROVE  StateOK' /\ SendsTyped
<1> USE DEF stateVars, threadVars, eventVars
<1>1. CASE IgnoreDue(s)
  BY <1>1 DEF StateOK, IgnoreDue, SendsTyped
<1>2. CASE SendHeartbeat(s)
  <2>1. SendsTyped
    BY <1>2, Transmitted DEF SendHeartbeat, Send, StateOK, Heartbeats, Messages, SendsTyped
  <2> QED BY <1>2, <2>1 DEF StateOK, SendHeartbeat
<1>3. ASSUME NEW p \in Servers, RequestSummary(s, p)
      PROVE  StateOK' /\ SendsTyped
  <2>1. SendsTyped
    BY <1>3, Transmitted DEF RequestSummary, Send, StateOK, Calls, Messages, SendsTyped
  <2> QED BY <1>3, <2>1 DEF StateOK, RequestSummary
<1> QED BY <1>1, <1>2, <1>3

\* A process ends.
LEMMA HaltTyped ==
    ASSUME StateOK, NEW s \in Servers, Halt(s), UNCHANGED elections
    PROVE  StateOK' /\ messages' = messages
<1> USE DEF stateVars
<1>1. <<>> \in Reports
  <2>1. <<>> \in [{} -> Versions]
    OBVIOUS
  <2> QED BY <2>1 DEF Reports
<1>2. 0 \in Versions
  BY ElectionAssumption DEF Versions
<1> QED BY <1>1, <1>2 DEF StateOK, Halt, Forget, Phases

--------------------------------------------------------------------------------
(* A candidate that collects answers has its own *)

\* A step of the election thread or of its start ends the thread, or is one of a few others.
LEMMA ThreadCases ==
    ASSUME NEW s, ElectionStep(s) \/ StartElection(s) \/ Halt(s)
    PROVE  \/ \E from, new : Finish(s, from, new)
           \/ CallHigher(s) \/ OkArrived(s) \/ OkTimeout(s) \/ SnapshotArrived(s)
           \/ SummariesComplete(s)
           \/ \E p \in Servers : PushSnapshot(s, p)
           \/ AskSummaries(s) \/ TakeLead(s) \/ StartElection(s) \/ Halt(s)
<1>1. ASSUME CoordinatorArrived(s) \/ CoordinatorTimeout(s) \/ GiveUp(s) \/ SummaryTimeout(s)
             \/ SnapshotTimeout(s) \/ Outdated(s) \/ BecomePrimary(s)
      PROVE  \E from, new : Finish(s, from, new)
  BY <1>1 DEF CoordinatorArrived, CoordinatorTimeout, GiveUp, SummaryTimeout, SnapshotTimeout,
              Outdated, BecomePrimary
<1> QED BY <1>1 DEF ElectionStep, ThreadStep

\* Only AskSummaries begins to collect, and only the end of collecting clears the answers.
LEMMA ThreadOwnReport ==
    ASSUME StateOK, OwnReport, NEW s \in Servers, ElectionStep(s) \/ StartElection(s) \/ Halt(s)
    PROVE  OwnReport'
<1> USE DEF threadOnly
<1>1. \A q \in Servers \ {s} : phase'[q] = phase[q] /\ summaries'[q] = summaries[q]
  <2> DEFINE Kept == \A q \in Servers \ {s} : phase'[q] = phase[q] /\ summaries'[q] = summaries[q]
  <2>1. CASE AskSummaries(s) \/ TakeLead(s) \/ StartElection(s) \/ Halt(s)
    BY <2>1 DEF StateOK, AskSummaries, TakeLead, StartElection, Halt, Advance, Forget
  <2>2. ASSUME NEW from, NEW new, Finish(s, from, new) PROVE Kept
    BY <2>2 DEF StateOK, Finish, Advance, Forget
  <2>3. CASE CallHigher(s) \/ OkArrived(s) \/ OkTimeout(s) \/ SnapshotArrived(s)
    BY <2>3 DEF StateOK, Advance, CallHigher, OkArrived, OkTimeout, SnapshotArrived
  <2>4. CASE SummariesComplete(s)
    BY <2>4 DEF StateOK, SummariesComplete
  <2>5. CASE \E p \in Servers : PushSnapshot(s, p)
    BY <2>5 DEF PushSnapshot
  <2> QED BY <2>1, <2>2, <2>3, <2>4, <2>5, ThreadCases
<1>2. phase'[s] = "collecting" => s \in DOMAIN summaries'[s]
  <2>1. CASE AskSummaries(s)
    BY <2>1 DEF StateOK, AskSummaries
  <2>2. ASSUME NEW from, NEW new, Finish(s, from, new) PROVE phase'[s] # "collecting"
    BY <2>2 DEF StateOK, Finish, Advance
  <2>3. CASE TakeLead(s) \/ StartElection(s) \/ Halt(s)
    BY <2>3 DEF StateOK, TakeLead, StartElection, Halt, Advance
  <2>4. CASE CallHigher(s) \/ OkArrived(s) \/ OkTimeout(s) \/ SnapshotArrived(s)
    BY <2>4 DEF StateOK, Advance, CallHigher, OkArrived, OkTimeout, SnapshotArrived
  <2>5. CASE SummariesComplete(s)
    BY <2>5 DEF StateOK, SummariesComplete
  <2>6. CASE \E p \in Servers : PushSnapshot(s, p)
    BY <2>6 DEF PushSnapshot
  <2> QED BY <2>1, <2>2, <2>3, <2>4, <2>5, <2>6, ThreadCases
<1> QED BY <1>1, <1>2 DEF OwnReport

\* A datagram adds answers and takes none away.
LEMMA ReceiveOwnReport ==
    ASSUME StateOK, OwnReport, NEW s \in Servers,
           \/ ReceiveCall(s)
           \/ \E m \in Sent("SNAPSHOT") : HandleSnapshot(s, m)
    PROVE  OwnReport'
<1> USE DEF threadVars
<1>1. ASSUME NEW m \in Sent("STATE_SUMMARY"), HandleSummary(s, m)
      PROVE  OwnReport'
  BY <1>1 DEF StateOK, OwnReport, HandleSummary
<1>2. CASE UNCHANGED <<phase, summaries>>
  BY <1>2 DEF OwnReport
<1> QED BY <1>1, <1>2
        DEF ReceiveCall, HandleElection, HandleElectionOk, HandleSummaryRequest, HandleSnapshot,
            HandleSnapshotRequest, RejectCoordinator, HandleLeader, HandleConflict, IgnoreLeader,
            Follow

--------------------------------------------------------------------------------
(* The theorems on types *)

\* The types, and the fact that keeps the choice of the newest answer defined.
TypeInv == TypeOK /\ OwnReport

\* All servers follow the highest one.
LEMMA InitTyped == Init => TypeInv
<1> SUFFICES ASSUME Init PROVE TypeInv
  OBVIOUS
<1>1. Highest \in Leaders /\ Highest \in Servers
  BY HighestServer DEF Leaders
<1>2. PICK v \in [Servers -> Versions] : log = [s \in Servers |-> [i \in 1 .. v[s] |-> i]]
  BY DEF Init
<1>3. log \in [Servers -> Logs]
  <2> SUFFICES ASSUME NEW s \in Servers PROVE [i \in 1 .. v[s] |-> i] \in Logs
    BY <1>2
  <2>1. v[s] \in Versions /\ v[s] \in Nat /\ v[s] <= MaxVersion
    BY ElectionAssumption DEF Versions
  <2>2. [i \in 1 .. v[s] |-> i] \in [1 .. v[s] -> Requests]
    BY <2>1, ElectionAssumption DEF Requests
  <2> QED BY <2>1, <2>2 DEF Logs
<1>4. members \in [Servers -> Memberships]
  BY DEF Init, Memberships
<1>5. <<>> \in Reports /\ 0 \in Versions
  <2>1. <<>> \in [{} -> Versions]
    OBVIOUS
  <2>2. <<>> \in Reports
    BY <2>1 DEF Reports
  <2> QED BY <2>2, ElectionAssumption DEF Versions
<1>6. messages \subseteq Messages
  <2>1. members[Highest] \in Memberships
    BY <1>1, <1>4
  <2>2. \A p \in Servers : Snapshot(Highest, p) \in Snapshots
    <3>1. /\ term[Highest] \in Nat /\ log[Highest] \in Logs
          /\ leader_id[Highest] \in Leaders
      BY <1>1, <1>3 DEF Init
    <3> QED BY <1>1, <2>1, <3>1 DEF Snapshot, Snapshots
  <2> DEFINE h == [type |-> "HEARTBEAT", from |-> Highest, term |-> 1,
                   members |-> members[Highest]]
  <2>3. h \in Heartbeats
    BY <1>1, <2>1 DEF Heartbeats
  <2>4. PICK late \in SUBSET (Servers \ {Highest}) :
           messages = {Snapshot(Highest, p) : p \in late} \cup {h}
    BY DEF Init
  <2> HIDE DEF h
  <2> QED BY <2>2, <2>3, <2>4 DEF Messages
<1>7. StateOK
  <2>1. /\ alive \subseteq Servers
        /\ role \in [Servers -> {"JOINING", "BACKUP", "CANDIDATE", "PRIMARY", "LEAVING"}]
        /\ term \in [Servers -> Nat] /\ leader_id \in [Servers -> Leaders]
    BY <1>1 DEF Init
  <2>2. elections \in 0 .. MaxElections
    BY ElectionAssumption DEF Init
  <2> QED BY <1>3, <1>4, <1>5, <2>1, <2>2 DEF Init, StateOK, Phases
<1> QED BY <1>6, <1>7 DEF Init, TypeInv, TypeOK, OwnReport

\* Each step keeps the types, and that the answers include the candidate's own.
LEMMA StepTyped == ASSUME TypeInv, Next PROVE TypeInv'
<1>1. Received
  BY DEF TypeInv, TypeOK, Received, Sent, Messages, Elections, Calls, Summaries, SnapshotRequests, Snapshots,
         Coordinators, Heartbeats
<1>2. StateOK /\ OwnReport
  BY DEF TypeInv, TypeOK
<1>3. PICK s \in alive : \/ StartElection(s) /\ UNCHANGED <<alive, members>>
                         \/ ServerStep(s) /\ UNCHANGED <<alive, elections>>
                         \/ Crash(s) /\ UNCHANGED elections
  BY DEF Next
<1>4. s \in Servers
  BY <1>2 DEF StateOK
<1>5. StateOK' /\ SendsTyped
  <2>1. \A m \in Sent("SNAPSHOT") : m \in Snapshots
    BY <1>1 DEF Received
  <2>2. CASE ElectionStep(s) /\ UNCHANGED <<alive, elections>>
    BY <1>2, <1>4, <2>2, ElectionStepTyped
  <2>3. CASE Receive(s) /\ UNCHANGED <<alive, elections>>
    BY <1>1, <1>2, <1>4, <2>1, <2>3, ReceiveTyped, SnapshotStepTyped DEF Receive
  <2>4. CASE Crash(s) /\ UNCHANGED elections
    BY <1>2, <1>4, <2>4, HaltTyped DEF Crash, SendsTyped
  <2> QED BY <1>2, <1>3, <1>4, <2>2, <2>3, <2>4, StartTyped, OtherStepsTyped DEF ServerStep
<1>6. OwnReport'
  <2>1. CASE UNCHANGED <<phase, summaries>>
    BY <1>2, <2>1 DEF OwnReport
  <2> QED BY <1>2, <1>3, <1>4, <2>1, ThreadOwnReport, ReceiveOwnReport
          DEF ServerStep, Receive, Crash, IgnoreDue, RequestSummary, SendHeartbeat, threadVars
<1> QED BY <1>5, <1>6 DEF TypeInv, TypeOK, SendsTyped

\* The inductive invariant holds in every reachable state.
LEMMA TypesKept == Spec => []TypeInv
<1>1. TypeInv /\ UNCHANGED vars => TypeInv'
  BY DEF TypeInv, TypeOK, StateOK, OwnReport, vars, stateVars, threadVars, eventVars
<1> QED BY InitTyped, StepTyped, <1>1, PTL DEF Spec

\* Every reachable state is of the declared types: in particular a candidate always
\* finds a newest version among the answers (start_election, become_coordinator).
THEOREM TypeCorrect == Spec => []TypeOK
<1>1. TypeInv => TypeOK
  BY DEF TypeInv
<1> QED BY <1>1, TypesKept, PTL

--------------------------------------------------------------------------------
(* A PRIMARY is open *)

\* Whoever becomes PRIMARY opens the service, and only a server that becomes a
\* candidate closes it.
LEMMA StepOpen == ASSUME TypeInv, PrimaryOpen, Next PROVE PrimaryOpen'
<1> USE DEF stateVars, threadOnly
<1>1. PICK s \in alive : \/ StartElection(s) /\ UNCHANGED <<alive, members>>
                         \/ ServerStep(s) /\ UNCHANGED <<alive, elections>>
                         \/ Crash(s) /\ UNCHANGED elections
  BY DEF Next
<1>2. StateOK
  BY DEF TypeInv, TypeOK
<1>3. s \in Servers
  BY <1>2 DEF StateOK
<1>4. CASE UNCHANGED <<role, transitioning>>
  BY <1>4 DEF PrimaryOpen
<1>5. CASE StartElection(s)
  BY <1>2, <1>3, <1>5 DEF StateOK, PrimaryOpen, StartElection
<1>6. CASE BecomePrimary(s)
  BY <1>2, <1>3, <1>6 DEF StateOK, PrimaryOpen, BecomePrimary
<1>7. ASSUME NEW m \in Sent("SNAPSHOT"), HandleSnapshot(s, m)
      PROVE  PrimaryOpen'
  BY <1>2, <1>3, <1>4, <1>7 DEF StateOK, PrimaryOpen, HandleSnapshot
<1>8. ASSUME NEW m, Follow(s, m)
      PROVE  PrimaryOpen'
  <2>1. \A q \in Servers \ {s} : role'[q] = role[q] /\ transitioning'[q] = transitioning[q]
    BY <1>2, <1>8 DEF StateOK, Follow
  <2>2. role'[s] # "PRIMARY"
    BY <1>2, <1>3, <1>8 DEF StateOK, Follow
  <2> QED BY <2>1, <2>2 DEF PrimaryOpen
<1>9. ElectionStep(s) => BecomePrimary(s) \/ UNCHANGED <<role, transitioning>>
  BY DEF ElectionStep, ThreadStep, CallHigher, OkArrived, OkTimeout, CoordinatorArrived,
         CoordinatorTimeout, GiveUp, AskSummaries, SummaryTimeout, SummariesComplete,
         SnapshotArrived, SnapshotTimeout, Outdated, TakeLead, PushSnapshot
<1>10. ReceiveCall(s) => (\E m : Follow(s, m)) \/ UNCHANGED <<role, transitioning>>
  BY DEF ReceiveCall, HandleElection, HandleElectionOk, HandleSummaryRequest, HandleSummary,
         HandleSnapshotRequest, RejectCoordinator, HandleLeader, HandleConflict, IgnoreLeader
<1>11. \/ IgnoreDue(s) \/ (\E p \in Servers : RequestSummary(s, p)) \/ SendHeartbeat(s)
       \/ Crash(s)
       => UNCHANGED <<role, transitioning>>
  BY DEF IgnoreDue, RequestSummary, SendHeartbeat, Crash, Halt
<1> QED BY <1>1, <1>4, <1>5, <1>6, <1>7, <1>8, <1>9, <1>10, <1>11 DEF ServerStep, Receive

\* In every reachable state each PRIMARY has transitioning set, and so serves its
\* clients (handle_client_request waits for it).
THEOREM PrimaryServes == Spec => []PrimaryOpen
<1>1. Init => PrimaryOpen
  BY DEF Init, PrimaryOpen
<1>2. PrimaryOpen /\ UNCHANGED vars => PrimaryOpen'
  BY DEF PrimaryOpen, vars, stateVars
<1> QED BY <1>1, <1>2, StepOpen, TypesKept, PTL DEF Spec

--------------------------------------------------------------------------------
(* A candidate that takes the lead is as new as those it asked *)

Asked == {"collecting", "fetching", "confirming", "pushing"}
Before == {"calling", "awaitingOk", "awaitingCoordinator", "coordinating"}

\* While answers are collected, those of the servers asked are not older than what
\* these had, as far as they still run; then the goal is not, and at last the state of
\* the candidate itself.
Collected(s) == phase[s] = "collecting" =>
    /\ DOMAIN floor[s] \subseteq peers[s]
    /\ \A p \in DOMAIN floor[s] \cap DOMAIN summaries[s] : summaries[s][p] >= floor[s][p]

Aimed(s) == phase[s] \in {"fetching", "confirming"} =>
    \A p \in DOMAIN floor[s] : goal[s] >= floor[s][p]

Taken(s) == phase[s] = "pushing" => \A p \in DOMAIN floor[s] : version(s) >= floor[s][p]

\* No server falls behind the version it had when it was asked, so that a later
\* answer is right too.
Reached(s) == phase[s] \in Asked => \A p \in DOMAIN floor[s] : version(p) >= floor[s][p]

\* Questions of s, and answers to it, that are on their way: of this election of s, or
\* of earlier ones
Quoted(s) == {m \in Sent("STATE_SUMMARY_REQUEST") : m.from = s}
             \cup {m \in Sent("STATE_SUMMARY") : m.to = s}

\* The term of an election is above those of the earlier ones of the same server, until
\* it asks.
Past(s) ==
    /\ phase[s] # "idle" => electionTerm[s] <= term[s]
    /\ \A m \in Quoted(s) :
          /\ m.term <= term[s]
          /\ phase[s] \in Before => m.term < electionTerm[s]

\* So the answers of its term on their way to s are of this election, and right.
Answers(s) == phase[s] \in Asked =>
    \A m \in Sent("STATE_SUMMARY") :
        m.to = s /\ m.term = electionTerm[s] /\ m.from \in DOMAIN floor[s]
        => m.version >= floor[s][m.from]

FreshAt(s) == Collected(s) /\ Aimed(s) /\ Taken(s) /\ Reached(s) /\ Past(s) /\ Answers(s)

FreshInv == \A s \in Servers : FreshAt(s)

ThreadKept(q) == /\ phase'[q] = phase[q] /\ peers'[q] = peers[q] /\ goal'[q] = goal[q]
                 /\ summaries'[q] = summaries[q] /\ floor'[q] = floor[q]
                 /\ electionTerm'[q] = electionTerm[q]

\* Nothing is asked or answered.
NoneSent == \A q \in Servers : Quoted(q)' \subseteq Quoted(q)

TermsRise == \A p \in Servers : term'[p] >= term[p]

\* The questions and answers of a server carry terms.
LEMMA QuotedTerms ==
    ASSUME Received PROVE \A q \in Servers : \A m \in Quoted(q) : m.term \in Nat
  BY DEF Received, Calls, Summaries, Quoted

\* No answer to q is new when nothing quoted is.
LEMMA SummariesKept ==
    ASSUME NEW q, Quoted(q)' \subseteq Quoted(q)
    PROVE  \A m \in Sent("STATE_SUMMARY")' : m.to = q => m \in Sent("STATE_SUMMARY")
<1>1. \A m \in Sent("STATE_SUMMARY")' : m.type = "STATE_SUMMARY"
  BY DEF Sent
<1>2. \A m \in Sent("STATE_SUMMARY_REQUEST") : m.type = "STATE_SUMMARY_REQUEST"
  BY DEF Sent
<1>3. \A m \in Sent("STATE_SUMMARY")' : m.to = q => m \in Quoted(q)
  BY DEF Quoted
<1> QED BY <1>1, <1>2, <1>3 DEF Quoted

\* A step that sends no question and no answer
LEMMA NothingAsked ==
    ASSUME NEW net, NEW new, Transmit(net, new), net \subseteq messages,
           \A m \in new : m.type \notin {"STATE_SUMMARY_REQUEST", "STATE_SUMMARY"}
    PROVE  NoneSent
  BY Transmitted DEF NoneSent, Quoted, Sent

\* Versions never fall: handle_snapshot_chunk installs no older state.
NeverFall == \A p \in Servers : version(p)' >= version(p)

\* A step that leaves the thread of q alone.
LEMMA FreshKept ==
    ASSUME StateOK, StateOK', Received, NEW q \in Servers, FreshAt(q), ThreadKept(q), NeverFall,
           term'[q] >= term[q], Quoted(q)' \subseteq Quoted(q)
    PROVE  FreshAt(q)'
<1>1. \A p \in Servers : version(p)' \in Nat /\ version(p) \in Nat /\ version(p)' >= version(p)
  <2>1. Versions \subseteq Nat
    BY ElectionAssumption DEF Versions
  <2>2. \A p \in Servers : version(p)' \in Versions /\ version(p) \in Versions
    BY LogLength DEF StateOK, version
  <2> QED BY <2>1, <2>2 DEF NeverFall
<1>2. DOMAIN floor[q] \subseteq Servers /\ \A p \in DOMAIN floor[q] : floor[q][p] \in Nat
  BY ReportNumbers DEF StateOK
<1>3. Collected(q)' /\ Aimed(q)'
  BY DEF FreshAt, ThreadKept, Collected, Aimed
<1>4. Taken(q)' /\ Reached(q)'
  BY <1>1, <1>2 DEF FreshAt, ThreadKept, Taken, Reached
<1>5. Past(q)'
  <2>1. term[q] \in Nat /\ term'[q] \in Nat /\ electionTerm[q] \in Nat
    BY DEF StateOK
  <2>2. \A m \in Quoted(q)' : m \in Quoted(q) /\ m.term \in Nat
    BY QuotedTerms
  <2>3. \A m \in Quoted(q) : m.term <= term[q] /\ (phase[q] \in Before => m.term < electionTerm[q])
    BY DEF FreshAt, Past
  <2>4. \A m \in Quoted(q)' :
           m.term <= term'[q] /\ (phase'[q] \in Before => m.term < electionTerm'[q])
    <3> SUFFICES ASSUME NEW m \in Quoted(q)'
                 PROVE  m.term <= term'[q] /\ (phase'[q] \in Before => m.term < electionTerm'[q])
      OBVIOUS
    <3> QED BY <2>1, <2>2, <2>3 DEF ThreadKept
  <2>5. phase'[q] # "idle" => electionTerm'[q] <= term'[q]
    BY <2>1 DEF FreshAt, ThreadKept, Past
  <2> QED BY <2>4, <2>5 DEF Past
<1>6. Answers(q)'
  <2>1. \A m \in Sent("STATE_SUMMARY")' : m.to = q => m \in Sent("STATE_SUMMARY")
    BY SummariesKept
  <2> QED BY <2>1 DEF FreshAt, ThreadKept, Answers
<1> QED BY <1>3, <1>4, <1>5, <1>6 DEF FreshAt

\* A version that is installed is not older than the one it replaces, and no other
\* step changes a state.
LEMMA VersionsKept ==
    ASSUME StateOK, NEW s \in alive, Received,
           \/ UNCHANGED log
           \/ \E m \in Sent("SNAPSHOT") : HandleSnapshot(s, m)
    PROVE  NeverFall
<1>1. s \in Servers
  BY DEF StateOK
<1>2. \A p \in Servers : version(p) \in Nat
  BY <1>1, VersionTyped, ElectionAssumption DEF Versions
<1>3. CASE UNCHANGED log
  BY <1>2, <1>3 DEF NeverFall, version
<1>4. ASSUME NEW m \in Sent("SNAPSHOT"), HandleSnapshot(s, m), ~Older(s, m)
      PROVE  NeverFall
  <2>1. m.log \in Logs
    BY <1>4 DEF Received, Snapshots
  <2>2. Len(m.log) \in Nat /\ Len(m.log) >= version(s)
    BY <1>1, <1>2, <1>4, <2>1, LogLength, ElectionAssumption DEF Older, Versions
  <2>3. log' = [log EXCEPT ![s] = m.log]
    BY <1>4 DEF HandleSnapshot
  <2>4. version(s)' = Len(m.log) /\ \A p \in Servers \ {s} : version(p)' = version(p)
    BY <1>1, <2>3 DEF StateOK, version
  <2> QED BY <1>2, <2>2, <2>4 DEF NeverFall
<1>5. ASSUME NEW m \in Sent("SNAPSHOT"), HandleSnapshot(s, m), Older(s, m)
      PROVE  UNCHANGED log
  BY <1>5 DEF HandleSnapshot, stateVars
<1> QED BY <1>3, <1>4, <1>5

\* The thread of s ends.
LEMMA FinishFresh ==
    ASSUME StateOK, NEW s \in Servers, NEW from, NEW new, Finish(s, from, new), FreshAt(s),
           UNCHANGED term,
           \A m \in new : m.type \notin {"STATE_SUMMARY_REQUEST", "STATE_SUMMARY"}
    PROVE  /\ FreshAt(s)'
           /\ \A q \in Servers \ {s} : ThreadKept(q)
           /\ NoneSent
<1>1. NoneSent
  BY NothingAsked DEF Finish, Send
<1>2. phase'[s] = "idle" /\ \A q \in Servers \ {s} : ThreadKept(q)
  BY DEF StateOK, Finish, Advance, Forget, ThreadKept
<1>3. Past(s)'
  BY <1>1, <1>2 DEF FreshAt, Past, NoneSent, Before
<1> QED BY <1>1, <1>2, <1>3 DEF FreshAt, Collected, Aimed, Taken, Reached, Answers, Asked

\* The steps of the thread.
LEMMA ThreadFresh ==
    ASSUME StateOK, OwnReport, Received, NEW s \in alive, FreshAt(s),
           StartElection(s) \/ ElectionStep(s), UNCHANGED alive
    PROVE  /\ FreshAt(s)'
           /\ \A q \in Servers \ {s} : ThreadKept(q)
           /\ NoneSent
           /\ TermsRise
           /\ UNCHANGED log
<1> USE DEF stateVars, threadOnly
<1> DEFINE Kept == \A q \in Servers \ {s} : ThreadKept(q)
<1>1. StateOK /\ s \in Servers
  BY DEF StateOK
<1>2. /\ DOMAIN floor[s] \subseteq Servers /\ DOMAIN summaries[s] \subseteq Servers
      /\ \A p \in DOMAIN floor[s] : floor[s][p] \in Nat
      /\ \A p \in DOMAIN summaries[s] : summaries[s][p] \in Nat
      /\ \A p \in Servers : version(p) \in Nat
      /\ goal[s] \in Nat
  BY <1>1, ReportNumbers, VersionTyped, ElectionAssumption DEF StateOK, Versions
\* Most steps leave the terms and what is quoted alone.
<1>r. UNCHANGED term => TermsRise
  BY DEF StateOK, TermsRise
<1>n. UNCHANGED messages => NoneSent
  BY DEF NoneSent, Quoted, Sent
<1>p. ASSUME NoneSent, UNCHANGED <<term, electionTerm>>, phase[s] # "idle",
             phase'[s] \in Before => phase[s] \in Before
      PROVE  Past(s)'
  BY <1>1, <1>p DEF FreshAt, Past, NoneSent
<1>a. ASSUME NoneSent, UNCHANGED <<electionTerm, floor>>, phase[s] \in Asked
      PROVE  Answers(s)'
  <2>1. \A m \in Sent("STATE_SUMMARY")' : m.to = s => m \in Sent("STATE_SUMMARY")
    BY <1>1, <1>a, SummariesKept DEF NoneSent
  <2> QED BY <1>a, <2>1 DEF FreshAt, Answers
<1>3. CASE StartElection(s)
  <2>1. Kept /\ phase[s] = "idle" /\ phase'[s] = "calling" /\ UNCHANGED <<log, messages>>
    BY <1>1, <1>3 DEF StateOK, StartElection, Advance, ThreadKept
  <2>2. /\ TermsRise /\ electionTerm'[s] = term[s] + 1 /\ term'[s] = term[s] + 1
        /\ term[s] \in Nat
    BY <1>1, <1>3 DEF StateOK, StartElection, TermsRise
  <2>3. Past(s)'
    <3>1. \A m \in Quoted(s) : m.term \in Nat /\ m.term <= term[s]
      BY <1>1, QuotedTerms DEF FreshAt, Past
    <3>2. Quoted(s)' \subseteq Quoted(s)
      BY <1>1, <1>n, <2>1 DEF NoneSent
    <3>3. \A m \in Quoted(s)' : m.term <= term'[s] /\ m.term < electionTerm'[s]
      BY <2>2, <3>1, <3>2
    <3> QED BY <2>2, <3>3 DEF Past
  <2> QED BY <1>n, <2>1, <2>2, <2>3 DEF FreshAt, Collected, Aimed, Taken, Reached, Answers, Asked
<1>4. CASE CallHigher(s) \/ OkArrived(s) \/ OkTimeout(s)
  <2>1. /\ Kept /\ phase[s] \in Before /\ phase'[s] \in Before
        /\ UNCHANGED <<log, term, electionTerm>>
    BY <1>1, <1>4 DEF StateOK, CallHigher, OkArrived, OkTimeout, Advance, ThreadKept, Before
  <2>2. NoneSent
    BY <1>4, <1>n, NothingAsked DEF CallHigher, OkArrived, OkTimeout, Send, Call
  <2>3. Past(s)'
    BY <1>p, <2>1, <2>2 DEF Before
  <2> QED BY <1>r, <2>1, <2>2, <2>3
          DEF FreshAt, Collected, Aimed, Taken, Reached, Answers, Asked, Before
<1>5. CASE \/ CoordinatorArrived(s) \/ CoordinatorTimeout(s) \/ GiveUp(s)
           \/ SummaryTimeout(s) \/ SnapshotTimeout(s) \/ Outdated(s)
  <2>1. /\ \E from \in Phases : Finish(s, from, {})
        /\ UNCHANGED <<log, term>>
    BY <1>5 DEF CoordinatorArrived, CoordinatorTimeout, GiveUp, SummaryTimeout, SnapshotTimeout,
                Outdated, Phases
  <2> QED BY <1>1, <1>r, <2>1, FinishFresh
<1>6. CASE BecomePrimary(s)
  <2>1. Finish(s, "pushing", {Coordinator(s)}) /\ UNCHANGED <<log, term>>
    BY <1>6 DEF BecomePrimary
  <2>2. Coordinator(s).type = "COORDINATOR"
    BY DEF Coordinator
  <2> QED BY <1>1, <1>r, <2>1, <2>2, FinishFresh
<1>7. CASE AskSummaries(s)
  <2>1. /\ Kept /\ NoneSent /\ UNCHANGED <<log, term, electionTerm>>
        /\ phase[s] = "coordinating" /\ phase'[s] = "collecting"
        /\ summaries'[s] = [p \in {s} |-> version(s)]
        /\ floor'[s] = [p \in peers'[s] |-> version(p)]
    BY <1>1, <1>7, <1>n DEF StateOK, AskSummaries, Advance, ThreadKept
  <2>2. peers'[s] \subseteq Servers
    BY <1>1, <1>7 DEF StateOK, AskSummaries, ActivePeers, Active
  <2>3. \A p \in Servers : version(p)' = version(p)
    BY <2>1 DEF version
  <2>4. Past(s)'
    BY <1>p, <2>1 DEF Before
  <2>5. Answers(s)'
    <3>1. \A m \in Quoted(s) : m.term < electionTerm[s] /\ m.term \in Nat
      BY <1>1, <2>1, QuotedTerms DEF FreshAt, Past, Before
    <3>2. Quoted(s)' \subseteq Quoted(s) /\ electionTerm[s] \in Nat
      BY <1>1, <2>1 DEF NoneSent, StateOK
    <3>3. \A m \in Quoted(s)' : m.term # electionTerm'[s]
      BY <2>1, <3>1, <3>2
    <3> QED BY <3>3 DEF Answers, Quoted
  <2> QED BY <1>2, <1>r, <2>1, <2>2, <2>3, <2>4, <2>5
          DEF FreshAt, Collected, Aimed, Taken, Reached, Asked
<1>8. CASE SummariesComplete(s)
  <2>1. /\ Kept /\ UNCHANGED <<log, term, electionTerm, floor>>
        /\ phase[s] = "collecting" /\ phase'[s] \in {"fetching", "confirming"}
        /\ peers[s] \subseteq DOMAIN summaries[s]
        /\ goal'[s] = summaries[s][Newest(s)]
    BY <1>1, <1>8 DEF StateOK, SummariesComplete, ThreadKept
  <2>2. NoneSent
    BY <1>8, <1>n, NothingAsked DEF SummariesComplete, Send
  <2>3. s \in DOMAIN summaries[s]
    BY <1>1, <2>1 DEF OwnReport
  <2>4. /\ Newest(s) \in DOMAIN summaries[s]
        /\ \A q \in DOMAIN summaries[s] : summaries[s][q] <= summaries[s][Newest(s)]
    BY <1>1, <2>3, NewestReported
  <2>5. \A p \in DOMAIN floor[s] : goal'[s] >= floor[s][p]
    BY <1>2, <2>1, <2>4 DEF FreshAt, Collected
  <2>6. \A p \in Servers : version(p)' = version(p)
    BY <2>1 DEF version
  <2>7. Reached(s)' /\ Answers(s)' /\ Past(s)'
    BY <1>2, <1>a, <1>p, <2>1, <2>2, <2>6 DEF FreshAt, Reached, Asked, Before
  <2> QED BY <1>r, <2>1, <2>2, <2>5, <2>7 DEF FreshAt, Collected, Aimed, Taken
<1>9. CASE SnapshotArrived(s)
  <2>1. /\ Kept /\ NoneSent
        /\ phase[s] = "fetching" /\ phase'[s] = "confirming"
        /\ UNCHANGED <<log, term, electionTerm, floor, goal>>
    BY <1>1, <1>9, <1>n DEF StateOK, SnapshotArrived, Advance, ThreadKept
  <2>2. \A p \in Servers : version(p)' = version(p)
    BY <2>1 DEF version
  <2>3. Answers(s)' /\ Past(s)'
    BY <1>a, <1>p, <2>1 DEF Asked, Before
  <2> QED BY <1>2, <1>r, <2>1, <2>2, <2>3 DEF FreshAt, Collected, Aimed, Taken, Reached, Asked
<1>10. CASE TakeLead(s)
  <2>1. /\ Kept /\ NoneSent
        /\ phase[s] = "confirming" /\ phase'[s] = "pushing"
        /\ version(s) >= goal[s]
        /\ UNCHANGED <<log, term, electionTerm, floor>>
    BY <1>1, <1>10, <1>n DEF StateOK, TakeLead, Advance, ThreadKept
  <2>2. \A p \in Servers : version(p)' = version(p)
    BY <2>1 DEF version
  <2>3. Taken(s)'
    BY <1>1, <1>2, <2>1, <2>2 DEF FreshAt, Aimed, Taken
  <2>4. Answers(s)' /\ Past(s)'
    BY <1>a, <1>p, <2>1 DEF Asked, Before
  <2> QED BY <1>2, <1>r, <2>1, <2>2, <2>3, <2>4 DEF FreshAt, Collected, Aimed, Reached, Asked
<1>11. ASSUME NEW p \in Servers, PushSnapshot(s, p)
       PROVE  FreshAt(s)' /\ Kept /\ NoneSent /\ TermsRise /\ UNCHANGED log
  <2>1. /\ Kept /\ UNCHANGED <<log, term, electionTerm, floor>>
        /\ phase[s] = "pushing" /\ phase'[s] = "pushing"
    BY <1>1, <1>11 DEF StateOK, PushSnapshot, ThreadKept
  <2>2. NoneSent
    BY <1>11, NothingAsked DEF PushSnapshot, Send, Snapshot
  <2>3. \A q \in Servers : version(q)' = version(q)
    BY <2>1 DEF version
  <2>4. Answers(s)' /\ Past(s)'
    BY <1>a, <1>p, <2>1, <2>2 DEF Asked, Before
  <2> QED BY <1>1, <1>2, <1>r, <2>1, <2>2, <2>3, <2>4
          DEF FreshAt, Collected, Aimed, Taken, Reached, Asked
<1>12. ElectionStep(s) => \/ CallHigher(s) \/ OkArrived(s) \/ OkTimeout(s)
                          \/ CoordinatorArrived(s) \/ CoordinatorTimeout(s) \/ GiveUp(s)
                          \/ SummaryTimeout(s) \/ SnapshotTimeout(s) \/ Outdated(s)
                          \/ BecomePrimary(s) \/ AskSummaries(s) \/ SummariesComplete(s)
                          \/ SnapshotArrived(s) \/ TakeLead(s)
                          \/ \E p \in Servers : PushSnapshot(s, p)
  BY DEF ElectionStep, ThreadStep
<1>13. CASE \E p \in Servers : PushSnapshot(s, p)
  BY <1>11, <1>13
<1> QED BY <1>3, <1>4, <1>5, <1>6, <1>7, <1>8, <1>9, <1>10, <1>12, <1>13

\* The receive loop: an answer is sent with the version of now, and kept by its term.
LEMMA ReceiveFresh ==
    ASSUME StateOK, StateOK', Received, FreshInv, NEW s \in alive, Receive(s)
    PROVE  FreshInv'
<1> USE DEF stateVars, threadVars
<1>1. StateOK /\ StateOK' /\ Received /\ s \in Servers
  BY DEF StateOK
<1>2. /\ \A p \in Servers : version(p) \in Nat
      /\ \A p \in Servers : term[p] \in Nat
      /\ \A q \in Servers : DOMAIN floor[q] \subseteq Servers
  BY <1>1, VersionTyped, ReportNumbers, ElectionAssumption DEF StateOK, Versions
<1>3. ASSUME NEW m \in Sent("STATE_SUMMARY_REQUEST"), HandleSummaryRequest(s, m)
      PROVE  FreshInv'
  <2> DEFINE c == m.from
             a == [type |-> "STATE_SUMMARY", from |-> s, to |-> c, term |-> m.term,
                   version |-> version(s)]
  <2>1. c \in Servers /\ m \in Quoted(c)
    BY <1>1 DEF Received, Calls, Quoted
  <2>2. /\ UNCHANGED <<log, term, threadVars>>
        /\ Sent("STATE_SUMMARY")' \subseteq Sent("STATE_SUMMARY") \cup {a}
        /\ Sent("STATE_SUMMARY_REQUEST")' \subseteq Sent("STATE_SUMMARY_REQUEST")
    BY <1>3, Transmitted DEF HandleSummaryRequest, Reply, Sent
  <2>3. NeverFall /\ \A p \in Servers : version(p)' = version(p) /\ term'[p] >= term[p]
    BY <1>2, <2>2 DEF NeverFall, version
  <2>4. \A q \in Servers \ {c} : FreshAt(q)'
    <3>1. \A q \in Servers \ {c} : Quoted(q)' \subseteq Quoted(q)
      BY <2>2 DEF Quoted
    <3> QED BY <1>1, <2>2, <2>3, <3>1, FreshKept DEF FreshInv, ThreadKept
  <2>5. FreshAt(c)
    BY <2>1 DEF FreshInv
  <2>6. Past(c)'
    <3>1. Quoted(c)' \subseteq Quoted(c) \cup {a}
      BY <2>2 DEF Quoted
    <3> QED BY <2>1, <2>2, <2>5, <3>1 DEF FreshAt, Past
  <2>7. Answers(c)'
    BY <1>1, <2>1, <2>2, <2>5 DEF FreshAt, Answers, Reached
  <2>8. Collected(c)' /\ Aimed(c)' /\ Taken(c)' /\ Reached(c)'
    BY <1>2, <2>1, <2>2, <2>3, <2>5 DEF FreshAt, Collected, Aimed, Taken, Reached
  <2> QED BY <2>4, <2>6, <2>7, <2>8 DEF FreshInv, FreshAt
<1>4. ASSUME NEW m \in Sent("STATE_SUMMARY"), HandleSummary(s, m)
      PROVE  FreshInv'
  <2>1. /\ UNCHANGED <<log, term, phase, electionTerm, peers, goal, floor>>
        /\ \A q \in Servers \ {s} : summaries'[q] = summaries[q]
        /\ m.to = s
    BY <1>1, <1>4 DEF StateOK, HandleSummary
  <2>2. NoneSent
    BY <1>4, NothingAsked DEF HandleSummary, Reply
  <2>3. NeverFall /\ \A p \in Servers : version(p)' = version(p) /\ term'[p] >= term[p]
    BY <1>2, <2>1 DEF NeverFall, version
  <2>4. \A q \in Servers \ {s} : FreshAt(q)'
    BY <1>1, <2>1, <2>2, <2>3, FreshKept DEF FreshInv, ThreadKept, NoneSent
  <2>5. FreshAt(s)
    BY <1>1 DEF FreshInv
  <2>6. Collected(s)'
    <3>1. CASE phase[s] = "collecting" /\ m.term = electionTerm[s]
      <4>1. m.from \in DOMAIN floor[s] => m.version >= floor[s][m.from]
        BY <2>1, <2>5, <3>1 DEF FreshAt, Answers, Asked
      <4>2. \A p \in DOMAIN summaries'[s] :
               \/ p = m.from /\ summaries'[s][p] = m.version
               \/ p \in DOMAIN summaries[s] /\ summaries'[s][p] = summaries[s][p]
        BY <1>1, <1>4, <3>1 DEF StateOK, HandleSummary
      <4> QED BY <2>1, <2>5, <4>1, <4>2 DEF FreshAt, Collected
    <3>2. CASE ~(phase[s] = "collecting" /\ m.term = electionTerm[s])
      BY <1>4, <2>1, <2>5, <3>2 DEF HandleSummary, FreshAt, Collected
    <3> QED BY <3>1, <3>2
  <2>7. Answers(s)'
    <3>1. \A n \in Sent("STATE_SUMMARY")' : n.to = s => n \in Sent("STATE_SUMMARY")
      BY <1>1, <2>2, SummariesKept DEF NoneSent
    <3> QED BY <2>1, <2>5, <3>1 DEF FreshAt, Answers
  <2>9. Past(s)'
    <3>1. Quoted(s)' \subseteq Quoted(s)
      BY <1>1, <2>2 DEF NoneSent
    <3> QED BY <2>1, <2>5, <3>1 DEF FreshAt, Past
  <2>8. Aimed(s)' /\ Taken(s)' /\ Reached(s)'
    BY <1>1, <1>2, <2>1, <2>3, <2>5 DEF FreshAt, Aimed, Taken, Reached
  <2> QED BY <2>4, <2>6, <2>7, <2>8, <2>9 DEF FreshInv, FreshAt
\* The other handlers ask nothing, answer nothing and leave the threads alone.
<1>5. CASE UNCHANGED threadVars /\ NeverFall /\ NoneSent /\ TermsRise
  BY <1>1, <1>5, FreshKept DEF FreshInv, ThreadKept, NoneSent, TermsRise
<1>6. ASSUME NEW m \in Sent("SNAPSHOT"), HandleSnapshot(s, m)
      PROVE  FreshInv'
  <2>1. NeverFall
    BY <1>1, <1>6, VersionsKept
  <2>2. UNCHANGED <<threadVars, messages>>
    BY <1>6 DEF HandleSnapshot
  <2>3. TermsRise
    <3>1. m.term \in Nat
      BY <1>1 DEF Received, Snapshots
    <3> QED BY <1>1, <1>2, <1>6, <3>1 DEF HandleSnapshot, StateOK, TermsRise
  <2> QED BY <1>5, <2>1, <2>2, <2>3 DEF NoneSent, Quoted, Sent
<1>7. ASSUME UNCHANGED <<log, threadVars>>, NoneSent, TermsRise
      PROVE  FreshInv'
  BY <1>1, <1>5, <1>7, VersionsKept
<1>8. ASSUME NEW m \in Sent("ELECTION"), HandleElection(s, m)
      PROVE  FreshInv'
  <2>1. UNCHANGED <<log, threadVars>>
    BY <1>8 DEF HandleElection
  <2>2. NoneSent
    BY <1>8, NothingAsked DEF HandleElection, Reply
  <2>3. m.term \in Nat
    BY <1>1 DEF Received, Elections
  <2>4. TermsRise
    BY <1>1, <1>2, <1>8, <2>3 DEF HandleElection, StateOK, TermsRise
  <2> QED BY <1>7, <2>1, <2>2, <2>4
<1>9. ASSUME NEW m \in Sent("COORDINATOR") \cup Sent("HEARTBEAT"), HandleLeader(s, m)
      PROVE  FreshInv'
  <2>1. UNCHANGED <<log, threadVars, messages>>
    BY <1>9 DEF HandleLeader, HandleConflict, IgnoreLeader, Follow
  <2>2. m.term \in Nat
    BY <1>1 DEF Received, Coordinators, Heartbeats
  <2>3. TermsRise
    BY <1>1, <1>2, <1>9, <2>2
       DEF HandleLeader, HandleConflict, IgnoreLeader, Follow, StateOK, TermsRise
  <2> QED BY <1>7, <2>1, <2>3 DEF NoneSent, Quoted, Sent
<1>10. ASSUME NEW m, HandleElectionOk(s, m) \/ HandleSnapshotRequest(s, m) \/ RejectCoordinator(s, m)
       PROVE  FreshInv'
  <2>1. UNCHANGED <<log, term, threadVars>>
    BY <1>10 DEF HandleElectionOk, HandleSnapshotRequest, RejectCoordinator
  <2>2. NoneSent
    BY <1>10, NothingAsked
       DEF HandleElectionOk, HandleSnapshotRequest, RejectCoordinator, Snapshot, Reply, Send
  <2> QED BY <1>2, <1>7, <2>1, <2>2 DEF TermsRise
<1> QED BY <1>3, <1>4, <1>6, <1>8, <1>9, <1>10 DEF Receive, ReceiveCall

\* A server that has not answered is asked, in the term of the election.
LEMMA RequestFresh ==
    ASSUME StateOK, StateOK', Received, FreshInv, NEW s \in alive, NEW p \in Servers,
           RequestSummary(s, p)
    PROVE  FreshInv'
<1> USE DEF stateVars, threadVars
<1>1. StateOK /\ s \in Servers
  BY DEF StateOK
<1>2. /\ \A q \in Servers : version(q) \in Nat
      /\ \A q \in Servers : term[q] \in Nat
      /\ electionTerm[s] \in Nat
      /\ DOMAIN floor[s] \subseteq Servers
  BY <1>1, VersionTyped, ReportNumbers, ElectionAssumption DEF StateOK, Versions
<1> DEFINE a == [type |-> "STATE_SUMMARY_REQUEST", from |-> s, to |-> p, term |-> electionTerm[s]]
<1>3. /\ UNCHANGED <<log, term, threadVars>> /\ phase[s] = "collecting"
      /\ Sent("STATE_SUMMARY")' \subseteq Sent("STATE_SUMMARY")
      /\ Sent("STATE_SUMMARY_REQUEST")' \subseteq Sent("STATE_SUMMARY_REQUEST") \cup {a}
  BY Transmitted DEF RequestSummary, Send, Sent
<1>4. NeverFall /\ \A q \in Servers : version(q)' = version(q) /\ term'[q] >= term[q]
  BY <1>2, <1>3 DEF NeverFall, version
<1>5. \A q \in Servers \ {s} : FreshAt(q)'
  <2>1. \A q \in Servers \ {s} : Quoted(q)' \subseteq Quoted(q)
    BY <1>3 DEF Quoted
  <2> QED BY <1>1, <1>3, <1>4, <2>1, FreshKept DEF FreshInv, ThreadKept
<1>6. FreshAt(s)
  BY <1>1 DEF FreshInv
<1>7. Past(s)'
  <2>1. Quoted(s)' \subseteq Quoted(s) \cup {a}
    BY <1>3 DEF Quoted
  <2> QED BY <1>3, <1>6, <2>1 DEF FreshAt, Past, Before
<1>8. Collected(s)' /\ Aimed(s)' /\ Taken(s)' /\ Reached(s)' /\ Answers(s)'
  BY <1>2, <1>3, <1>4, <1>6 DEF FreshAt, Collected, Aimed, Taken, Reached, Answers
<1> QED BY <1>5, <1>7, <1>8 DEF FreshInv, FreshAt

\* Each step of the system keeps FreshInv.
LEMMA StepFresh == ASSUME TypeInv, FreshInv, Next PROVE FreshInv'
<1>1. TypeInv'
  BY StepTyped
<1>2. StateOK /\ StateOK' /\ Received
  BY <1>1 DEF TypeInv, TypeOK, Received, Sent, Messages, Elections, Calls, Summaries, SnapshotRequests,
              Snapshots, Coordinators, Heartbeats
<1>3. PICK s \in alive : \/ StartElection(s) /\ UNCHANGED <<alive, members>>
                         \/ ServerStep(s) /\ UNCHANGED <<alive, elections>>
                         \/ Crash(s) /\ UNCHANGED elections
  BY DEF Next
<1>4. s \in Servers
  BY <1>2 DEF StateOK
<1>5. ASSUME StartElection(s) \/ ElectionStep(s), UNCHANGED alive
      PROVE  FreshInv'
  <2>1. /\ FreshAt(s)'
        /\ \A q \in Servers \ {s} : ThreadKept(q)
        /\ NoneSent /\ TermsRise /\ UNCHANGED log
    BY <1>2, <1>4, <1>5, ThreadFresh DEF FreshInv, TypeInv
  <2>2. NeverFall
    BY <1>2, <2>1, VersionsKept
  <2> QED BY <1>2, <2>1, <2>2, FreshKept DEF FreshInv, NoneSent, TermsRise
<1>6. CASE Receive(s)
  BY <1>1, <1>2, <1>6, ReceiveFresh
<1>7. CASE \E p \in Servers : RequestSummary(s, p)
  BY <1>2, <1>7, RequestFresh
<1>8. ASSUME UNCHANGED <<log, term>>, NoneSent,
             \A q \in Servers \ {s} : ThreadKept(q),
             ThreadKept(s) \/ phase'[s] = "idle"
      PROVE  FreshInv'
  <2>1. NeverFall
    BY <1>2, <1>8, VersionsKept
  <2>2. \A q \in Servers : term'[q] >= term[q] /\ Quoted(q)' \subseteq Quoted(q)
    BY <1>2, <1>8 DEF StateOK, NoneSent
  <2>3. \A q \in Servers : ThreadKept(q) => FreshAt(q)'
    BY <1>2, <2>1, <2>2, FreshKept DEF FreshInv
  <2>4. ASSUME phase'[s] = "idle" PROVE FreshAt(s)'
    <3>1. Past(s)'
      BY <1>4, <1>8, <2>2, <2>4 DEF FreshInv, FreshAt, Past, Before
    <3> QED BY <2>4, <3>1 DEF FreshAt, Collected, Aimed, Taken, Reached, Answers, Asked
  <2> QED BY <1>8, <2>3, <2>4 DEF FreshInv
<1>9. CASE IgnoreDue(s) \/ SendHeartbeat(s)
  <2>1. UNCHANGED <<log, term, threadVars>>
    BY <1>9 DEF IgnoreDue, SendHeartbeat, stateVars
  <2>2. NoneSent
    BY <1>9, NothingAsked DEF IgnoreDue, SendHeartbeat, Send, NoneSent, Quoted, Sent
  <2> QED BY <1>4, <1>8, <2>1, <2>2 DEF ThreadKept, threadVars
<1>10. CASE Crash(s)
  <2>1. /\ phase'[s] = "idle"
        /\ \A q \in Servers \ {s} : ThreadKept(q)
        /\ UNCHANGED <<log, term, messages>>
    BY <1>2, <1>4, <1>10 DEF StateOK, Crash, Halt, Forget, ThreadKept, stateVars
  <2> QED BY <1>8, <2>1 DEF NoneSent, Quoted, Sent
<1> QED BY <1>3, <1>5, <1>6, <1>7, <1>9, <1>10 DEF ServerStep

\* A candidate that names itself leader holds every version that a server it asked
\* had when it was asked, whatever answers, snapshots and acknowledgements of this
\* and other elections arrive in between (become_coordinator).
THEOREM LeadersFresh == Spec => []TakeoverFresh
<1>1. ASSUME Init PROVE FreshInv
  <2>1. \A s \in Servers : phase[s] = "idle"
    BY <1>1 DEF Init
  <2>2. \A s \in Servers : Quoted(s) = {}
    <3>1. PICK late \in SUBSET (Servers \ {Highest}) :
                 messages = {Snapshot(Highest, p) : p \in late}
                            \cup {[type |-> "HEARTBEAT", from |-> Highest, term |-> 1,
                                   members |-> members[Highest]]}
      BY <1>1, Zenon DEF Init
    <3>2. \A m \in messages : m.type \in {"SNAPSHOT", "HEARTBEAT"}
      BY <3>1 DEF Snapshot
    <3> QED BY <3>2 DEF Quoted, Sent
  <2>3. ASSUME NEW s \in Servers PROVE FreshAt(s)
    <3>1. Past(s)
      BY <1>1, <2>1, <2>2 DEF Past, Init
    <3> QED BY <2>1, <3>1 DEF FreshAt, Collected, Aimed, Taken, Reached, Answers, Asked
  <2> QED BY <2>3 DEF FreshInv
<1>2. FreshInv /\ UNCHANGED vars => FreshInv'
  BY DEF FreshInv, FreshAt, Collected, Aimed, Taken, Reached, Past, Answers, Quoted, Sent, version,
         vars, stateVars, threadVars
<1>3. FreshInv => TakeoverFresh
  BY DEF FreshInv, FreshAt, Taken, TakeoverFresh
<1> QED BY <1>1, <1>2, <1>3, StepFresh, TypesKept, PTL DEF Spec

================================================================================
