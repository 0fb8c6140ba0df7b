-------------------------------- MODULE Election --------------------------------
(***************************************************************************)
(* The Bully election of server/node.py: what happens after servers have   *)
(* lost contact with their leader, or believe so.  A server runs at most   *)
(* one election at a time (election_lock), in a thread whose position is   *)
(* phase; the receive loop handles messages between any two of its steps.  *)
(*                                                                         *)
(* Of the replicated state the requests it has applied are kept, in their  *)
(* order: its version is their number.  No request is accepted here, so    *)
(* commit_lock is always free, and all servers are synchronised members    *)
(* when the model begins.  Failover adds requests, servers that start and  *)
(* servers that leave to the actions of this module.                       *)
(*                                                                         *)
(* With OpenMembership, who counts as an ACTIVE peer is left open: each    *)
(* time the code reads the membership, less those silent for               *)
(* failure_timeout, the model takes any set of other servers, and members  *)
(* does not change.  Otherwise members is what the code makes of it, and   *)
(* any ACTIVE member may have been silent, or, if Reliable, those that are *)
(* down.  A wait may time out whenever its event is not set.               *)
(*                                                                         *)
(* messages is what the network holds: a datagram may be received at any   *)
(* time or never.  Those the code sends again until they are answered, or  *)
(* periodically, or to all servers (snapshots, COORDINATOR, HEARTBEAT),    *)
(* may be received again; the others are received once.                    *)
(***************************************************************************)
EXTENDS Naturals, Sequences, FiniteSets

CONSTANTS
    Servers,     \* server identifiers, numbers
    MaxVersion,  \* requests, and so versions
    OpenMembership, \* the memberships are any
    Reliable,    \* only servers that are down are taken for silent
    Crashed,     \* the servers that are down when the model begins
    MaxElections,\* elections that are started, of all servers (bound)
    MaxCrashes,  \* servers that crash later (bound)
    Capacity     \* pairs of a set of message types and how many datagrams of these
                 \* types the network holds at once (bound)

ASSUME ElectionAssumption ==
    /\ Servers \subseteq Nat \ {0} /\ IsFiniteSet(Servers) /\ Servers # {}
    /\ Crashed \subseteq Servers
    /\ OpenMembership \in BOOLEAN /\ Reliable \in BOOLEAN
    /\ MaxVersion \in Nat /\ MaxElections \in Nat /\ MaxCrashes \in Nat
    /\ \A c \in Capacity : c[2] \in Nat

VARIABLES
    alive,         \* the servers that have not crashed
    role, term, leader_id, transitioning,
    log,           \* the requests in the replicated state, which has version Len(log[s])
    members,       \* status of each server in the membership of each, itself included
    \* the thread that holds election_lock
    phase,
    electionTerm,  \* its term
    peers,         \* the servers it still has to call, to hear from or to bring up to date
    summaries,     \* summary_responses[electionTerm]: versions by server
    goal,          \* source_version
    \* events
    ok,            \* election_ok[electionTerm]
    announced,     \* coordinator_announced
    installed,     \* snapshot_installed
    due,           \* start_election is scheduled (timer or new thread)
    messages,
    \* history variables
    elections,     \* elections started
    floor          \* the peers asked for summaries, with their versions at that time

stateVars  == <<role, term, leader_id, log, transitioning>>
threadVars == <<phase, electionTerm, peers, summaries, goal, floor>>
eventVars  == <<ok, announced, installed>>
vars == <<alive, stateVars, members, threadVars, eventVars, due, messages, elections>>

Highest == CHOOSE s \in Servers : \A p \in Servers : p <= s

Phases == {"idle", "calling", "awaitingOk", "awaitingCoordinator", "coordinating",
           "collecting", "fetching", "confirming", "pushing"}

NoLeader == 0
Leaders == Servers \cup {NoLeader}

Requests == 1 .. MaxVersion
Versions == 0 .. MaxVersion

\* Each request is applied once.
Logs == {l \in UNION {[1 .. n -> Requests] : n \in Versions} :
            \A i, j \in DOMAIN l : l[i] = l[j] => i = j}

\* Versions by server
Reports == UNION {[P -> Versions] : P \in SUBSET Servers}

Memberships == [Servers -> {"NONE", "JOINING", "ACTIVE"}]

Elections == [type : {"ELECTION"}, from : Servers, to : Servers, term : Nat,
              candidate : Servers]
Calls     == [type : {"ELECTION_OK", "STATE_SUMMARY_REQUEST"},
              from : Servers, to : Servers, term : Nat]
Summaries == [type : {"STATE_SUMMARY"}, from : Servers, to : Servers, term : Nat,
              version : Versions]
SnapshotRequests == [type : {"SNAPSHOT_REQUEST"}, from : Servers, to : Servers]
Snapshots == [type : {"SNAPSHOT"}, from : Servers, to : Servers, term : Nat,
              log : Logs, leader : Leaders, members : Memberships]
Coordinators == [type : {"COORDINATOR"}, from : Servers, term : Nat, version : Versions,
                 members : Memberships]
Heartbeats == [type : {"HEARTBEAT"}, from : Servers, term : Nat, members : Memberships]
Messages == Elections \cup Calls \cup Summaries \cup SnapshotRequests \cup Snapshots
            \cup Coordinators \cup Heartbeats

StateOK ==
    /\ alive \subseteq Servers
    /\ role \in [Servers -> {"JOINING", "BACKUP", "CANDIDATE", "PRIMARY", "LEAVING"}]
    /\ term \in [Servers -> Nat]
    /\ leader_id \in [Servers -> Leaders]
    /\ log \in [Servers -> Logs]
    /\ members \in [Servers -> Memberships]
    /\ transitioning \in [Servers -> BOOLEAN]
    /\ phase \in [Servers -> Phases]
    /\ electionTerm \in [Servers -> Nat]
    /\ peers \in [Servers -> SUBSET Servers]
    /\ summaries \in [Servers -> Reports]
    /\ floor \in [Servers -> Reports]
    /\ goal \in [Servers -> Versions]
    /\ ok \in [Servers -> BOOLEAN]
    /\ announced \in [Servers -> BOOLEAN]
    /\ installed \in [Servers -> BOOLEAN]
    /\ due \in [Servers -> BOOLEAN]
    /\ elections \in 0 .. MaxElections

TypeOK == StateOK /\ messages \subseteq Messages

Snapshot(s, p) ==
    [type |-> "SNAPSHOT", from |-> s, to |-> p, term |-> term[s], log |-> log[s],
     leader |-> leader_id[s], members |-> members[s]]

\* The network can hold these datagrams.
Fits(net) == \A c \in Capacity : Cardinality({m \in net : m.type \in c[1]}) <= c[2]

\* The highest server leads, with the newest version: each of the others has
\* followed it up to some version.
Init ==
    /\ alive = Servers \ Crashed
    /\ role = [s \in Servers |-> IF s = Highest THEN "PRIMARY" ELSE "BACKUP"]
    /\ term = [s \in Servers |-> 1]
    /\ leader_id = [s \in Servers |-> Highest]
    /\ \E v \in [Servers -> Versions] :
          /\ v[Highest] = MaxVersion
          /\ log = [s \in Servers |-> [i \in 1 .. v[s] |-> i]]
    /\ members = [s \in Servers |-> [p \in Servers |-> "ACTIVE"]]
    /\ transitioning = [s \in Servers |-> TRUE]
    /\ phase = [s \in Servers |-> "idle"]
    /\ electionTerm = [s \in Servers |-> 0]
    /\ peers = [s \in Servers |-> {}]
    /\ summaries = [s \in Servers |-> <<>>]
    /\ goal = [s \in Servers |-> 0]
    /\ ok = [s \in Servers |-> FALSE]
    /\ announced = [s \in Servers |-> FALSE]
    /\ installed = [s \in Servers |-> FALSE]
    /\ due = [s \in Servers |-> FALSE]
    /\ \E late \in SUBSET (Servers \ {Highest}) :
          messages = {Snapshot(Highest, p) : p \in late}
                     \cup {[type |-> "HEARTBEAT", from |-> Highest, term |-> 1,
                            members |-> members[Highest]]}
    /\ Fits(messages)
    /\ elections = 0
    /\ floor = [s \in Servers |-> <<>>]

Sent(type) == {m \in messages : m.type = type}

\* The network when `new` is sent into `net`; what it cannot hold is lost.
Transmit(net, new) ==
    messages' = IF Fits(net \cup new) THEN net \cup new ELSE net

Send(new) == Transmit(messages, new)

\* A message is received, and others are sent.
Reply(m, new) == Transmit(messages \ {m}, new)

version(s) == Len(log[s])

Active(s) == {p \in Servers \ {s} : members[s][p] = "ACTIVE"}

\* What s may take for its ACTIVE peers.
ActivePeers(s) == IF OpenMembership THEN SUBSET (Servers \ {s}) ELSE {Active(s)}

\* Sets of members that may have been silent for failure_timeout
Silent(s) == SUBSET IF OpenMembership THEN {} ELSE IF Reliable THEN Active(s) \ alive ELSE Active(s)

\* s has another membership.
SetMembers(s, new) == members' = IF OpenMembership THEN members ELSE [members EXCEPT ![s] = new]

\* The membership of s without some of its members
Without(s, gone) == [p \in Servers |-> IF p \in gone THEN "NONE" ELSE members[s][p]]

\* note_server: s enters an unknown sender with a default status.
Note(s, p, status) == [members[s] EXCEPT ![p] = IF @ = "NONE" /\ p # s THEN status ELSE @]

Noted(s, p, status) == SetMembers(s, Note(s, p, status))

\* ELECTION of s, that names a candidate
Call(s, p, candidate) ==
    [type |-> "ELECTION", from |-> s, to |-> p, term |-> term[s], candidate |-> candidate]

--------------------------------------------------------------------------------
(* start_election                                                          *)

\* The thread of s goes from one phase to another.
Advance(s, from, to) == phase[s] = from /\ phase' = [phase EXCEPT ![s] = to]

\* Its local variables and its entries in the dictionaries are gone.
Forget(s) ==
    /\ electionTerm' = [electionTerm EXCEPT ![s] = 0]
    /\ peers' = [peers EXCEPT ![s] = {}]
    /\ summaries' = [summaries EXCEPT ![s] = <<>>]
    /\ goal' = [goal EXCEPT ![s] = 0]
    /\ floor' = [floor EXCEPT ![s] = <<>>]
    /\ ok' = [ok EXCEPT ![s] = FALSE]

\* The thread ends.  Answers to it that are still on their way arrive all the same.
Finish(s, from, new) ==
    /\ Advance(s, from, "idle")
    /\ Forget(s)
    /\ UNCHANGED <<announced, installed>>
    /\ Send(new)

\* schedule_recovery, or a thread with start_election as its target
Schedule(s) == due' = [due EXCEPT ![s] = TRUE]

\* Has s reason to take its leader for silent?
LeaderSilent(s) ==
    /\ role[s] # "PRIMARY" /\ leader_id[s] # NoLeader
    /\ Reliable => ~(leader_id[s] \in alive /\ role[leader_id[s]] = "PRIMARY")

\* start_election gets election_lock: scheduled, or called by check_failures.
StartElection(s) ==
    /\ role[s] \notin {"JOINING", "LEAVING"}
    /\ Advance(s, "idle", "calling")
    /\ \/ due[s] /\ due' = [due EXCEPT ![s] = FALSE]
       \/ LeaderSilent(s) /\ UNCHANGED due
    /\ elections < MaxElections
    /\ elections' = elections + 1
    /\ transitioning' = [transitioning EXCEPT ![s] = FALSE]
    /\ role' = [role EXCEPT ![s] = "CANDIDATE"]
    /\ term' = [term EXCEPT ![s] = @ + 1]
    /\ electionTerm' = [electionTerm EXCEPT ![s] = term[s] + 1]
    /\ \E active \in ActivePeers(s) :
          peers' = [peers EXCEPT ![s] = {p \in active : p > s}]
    /\ ok' = [ok EXCEPT ![s] = FALSE]
    /\ announced' = [announced EXCEPT ![s] = FALSE]
    /\ UNCHANGED <<leader_id, log, summaries, goal, floor, installed, messages>>

\* It does not get election_lock, or the role forbids an election: nothing happens.
IgnoreDue(s) ==
    /\ due[s]
    /\ phase[s] # "idle" \/ role[s] \in {"JOINING", "LEAVING"}
    /\ due' = [due EXCEPT ![s] = FALSE]
    /\ UNCHANGED <<stateVars, threadVars, eventVars, messages>>

threadOnly == <<stateVars, electionTerm, summaries, goal, floor, eventVars>>

\* ELECTION goes to the higher servers, with the term of now.
CallHigher(s) ==
    /\ Advance(s, "calling", IF peers[s] = {} THEN "coordinating" ELSE "awaitingOk")
    /\ Send({Call(s, p, s) : p \in peers[s]})
    /\ UNCHANGED <<threadOnly, peers, due>>

OkArrived(s) ==
    /\ Advance(s, "awaitingOk", "awaitingCoordinator")
    /\ ok[s]
    /\ UNCHANGED <<threadOnly, peers, due, messages>>

OkTimeout(s) ==
    /\ Advance(s, "awaitingOk", "coordinating")
    /\ ~ok[s]
    /\ UNCHANGED <<threadOnly, peers, due, messages>>

CoordinatorArrived(s) ==
    /\ Finish(s, "awaitingCoordinator", {})
    /\ announced[s]
    /\ UNCHANGED <<stateVars, due>>

CoordinatorTimeout(s) ==
    /\ Finish(s, "awaitingCoordinator", {})
    /\ ~announced[s]
    /\ Schedule(s)
    /\ UNCHANGED stateVars

--------------------------------------------------------------------------------
(* become_coordinator                                                      *)

StillCandidate(s) == role[s] = "CANDIDATE" /\ term[s] = electionTerm[s]

\* Mutant: the loop that collects answers does not look.
CollectOn(s) ==
    /\ \E from \in {"coordinating", "confirming"} : Finish(s, from, {})
    /\ ~StillCandidate(s)
    /\ UNCHANGED <<stateVars, due>>

\* Three times the thread looks whether it is still a candidate of its term, and
\* gives up without a trace when it is not.
GiveUp(s) ==
    /\ \E from \in {"coordinating", "collecting", "confirming"} : Finish(s, from, {})
    /\ ~StillCandidate(s)
    /\ UNCHANGED <<stateVars, due>>

\* Members that have been silent are dropped, the others are asked for their version.
AskSummaries(s) ==
    /\ Advance(s, "coordinating", "collecting")
    /\ StillCandidate(s)
    /\ \E gone \in Silent(s), active \in ActivePeers(s) :
          /\ SetMembers(s, Without(s, gone))
          /\ peers' = [peers EXCEPT ![s] = active \ gone]
    /\ summaries' = [summaries EXCEPT ![s] = [p \in {s} |-> version(s)]]
    /\ floor' = [floor EXCEPT ![s] = [p \in peers'[s] |-> version(p)]]
    /\ UNCHANGED <<stateVars, electionTerm, goal, eventVars, due, messages>>

\* STATE_SUMMARY_REQUEST goes to those that have not answered, again and again.
RequestSummary(s, p) ==
    /\ phase[s] = "collecting"
    /\ StillCandidate(s)
    /\ p \in peers[s] \ DOMAIN summaries[s]
    /\ Send({[type |-> "STATE_SUMMARY_REQUEST", from |-> s, to |-> p, term |-> electionTerm[s]]})
    /\ UNCHANGED <<stateVars, threadVars, eventVars, due>>

SummaryTimeout(s) ==
    /\ Finish(s, "collecting", {})
    /\ StillCandidate(s)
    /\ ~(peers[s] \subseteq DOMAIN summaries[s])
    /\ Schedule(s)
    /\ UNCHANGED stateVars

\* The newest version reported, of the highest server that reports it.
Newest(s) == CHOOSE p \in DOMAIN summaries[s] :
                \A q \in DOMAIN summaries[s] :
                    \/ summaries[s][q] < summaries[s][p]
                    \/ summaries[s][q] = summaries[s][p] /\ q <= p

\* All have answered: the newest state is fetched, unless the candidate has it.
SummariesComplete(s) ==
    /\ phase[s] = "collecting"
    /\ StillCandidate(s)
    /\ peers[s] \subseteq DOMAIN summaries[s]
    /\ goal' = [goal EXCEPT ![s] = summaries[s][Newest(s)]]
    /\ IF Newest(s) = s
       THEN /\ phase' = [phase EXCEPT ![s] = "confirming"]
            /\ UNCHANGED <<installed, messages>>
       ELSE /\ phase' = [phase EXCEPT ![s] = "fetching"]
            /\ installed' = [installed EXCEPT ![s] = FALSE]
            /\ Send({[type |-> "SNAPSHOT_REQUEST", from |-> s, to |-> Newest(s)]})
    /\ summaries' = [summaries EXCEPT ![s] = <<>>]
    /\ UNCHANGED <<stateVars, electionTerm, peers, floor, ok, announced, due>>

SnapshotArrived(s) ==
    /\ Advance(s, "fetching", "confirming")
    /\ installed[s]
    /\ UNCHANGED <<threadOnly, peers, due, messages>>

SnapshotTimeout(s) ==
    /\ Finish(s, "fetching", {})
    /\ ~installed[s]
    /\ Schedule(s)
    /\ UNCHANGED stateVars

\* Some snapshot was installed, but an older one than that asked for.
Outdated(s) ==
    /\ Finish(s, "confirming", {})
    /\ StillCandidate(s)
    /\ version(s) < goal[s]
    /\ Schedule(s)
    /\ UNCHANGED stateVars

\* Mutant: whatever snapshot has been installed will do.
TakeLeadOutdated(s) ==
    /\ Advance(s, "confirming", "pushing")
    /\ StillCandidate(s)
    /\ leader_id' = [leader_id EXCEPT ![s] = s]
    /\ \E gone \in Silent(s), active \in ActivePeers(s) :
          /\ SetMembers(s, [Without(s, gone) EXCEPT ![s] = "ACTIVE"])
          /\ peers' = [peers EXCEPT ![s] = active \ gone]
    /\ UNCHANGED <<role, term, log, transitioning, electionTerm, summaries, goal,
                   floor, eventVars, due, messages>>

\* The candidate names itself leader, drops silent members again, and will bring the
\* others up to date.
TakeLead(s) ==
    /\ Advance(s, "confirming", "pushing")
    /\ StillCandidate(s)
    /\ version(s) >= goal[s]
    /\ leader_id' = [leader_id EXCEPT ![s] = s]
    /\ \E gone \in Silent(s), active \in ActivePeers(s) :
          /\ SetMembers(s, [Without(s, gone) EXCEPT ![s] = "ACTIVE"])
          /\ peers' = [peers EXCEPT ![s] = active \ gone]
    /\ UNCHANGED <<role, term, log, transitioning, electionTerm, summaries, goal,
                   floor, eventVars, due, messages>>

\* send_snapshot, peer after peer; an answer is waited for, its absence ignored.
PushSnapshot(s, p) ==
    /\ phase[s] = "pushing"
    /\ p \in peers[s]
    /\ Send({Snapshot(s, p)})
    /\ peers' = [peers EXCEPT ![s] = @ \ {p}]
    /\ UNCHANGED <<threadOnly, phase, due>>

Coordinator(s) == [type |-> "COORDINATOR", from |-> s, term |-> term[s],
                   version |-> version(s), members |-> members[s]]

\* Mutant: the service is not opened again.
BecomeClosed(s) ==
    /\ Finish(s, "pushing", {Coordinator(s)})
    /\ peers[s] = {}
    /\ role' = [role EXCEPT ![s] = "PRIMARY"]
    /\ UNCHANGED <<term, leader_id, log, transitioning, due>>

\* The role is taken, whatever happened while the snapshots were sent.
BecomePrimary(s) ==
    /\ Finish(s, "pushing", {Coordinator(s)})
    /\ peers[s] = {}
    /\ role' = [role EXCEPT ![s] = "PRIMARY"]
    /\ transitioning' = [transitioning EXCEPT ![s] = TRUE]
    /\ UNCHANGED <<term, leader_id, log, due>>

--------------------------------------------------------------------------------
(* The receive loop                                                        *)

HandleElection(s, m) ==
    /\ m.to = s
    /\ term' = [term EXCEPT ![s] = IF m.term > @ THEN m.term ELSE @]
    /\ IF s > m.candidate /\ role[s] \notin {"JOINING", "LEAVING"}
       THEN /\ Reply(m, {[type |-> "ELECTION_OK", from |-> s, to |-> m.from, term |-> m.term]})
            /\ Schedule(s)
       ELSE Reply(m, {}) /\ UNCHANGED due
    /\ Noted(s, m.from, "ACTIVE")
    /\ UNCHANGED <<role, leader_id, log, transitioning, threadVars, eventVars>>

HandleElectionOk(s, m) ==
    /\ m.to = s
    /\ ok' = [ok EXCEPT ![s] = @ \/ (phase[s] # "idle" /\ m.term = electionTerm[s])]
    /\ Reply(m, {})
    /\ Noted(s, m.from, "ACTIVE")
    /\ UNCHANGED <<stateVars, threadVars, announced, installed, due>>

\* Whoever is asked answers, in whatever role, and to an election that has ended too.
HandleSummaryRequest(s, m) ==
    /\ m.to = s
    /\ Reply(m, {[type |-> "STATE_SUMMARY", from |-> s, to |-> m.from, term |-> m.term,
                  version |-> version(s)]})
    /\ Noted(s, m.from, "ACTIVE")
    /\ UNCHANGED <<stateVars, threadVars, eventVars, due>>

\* Mutant: the term of an answer is not looked at.
StoreAnySummary(s, m) ==
    /\ m.to = s
    /\ summaries' = IF phase[s] = "collecting"
                    THEN [summaries EXCEPT
                            ![s] = [p \in DOMAIN @ \cup {m.from} |->
                                      IF p = m.from THEN m.version ELSE @[p]]]
                    ELSE summaries
    /\ Reply(m, {})
    /\ Noted(s, m.from, "ACTIVE")
    /\ UNCHANGED <<stateVars, phase, electionTerm, peers, goal, floor, eventVars, due>>

\* The answers are kept by term, as long as that election collects them.
HandleSummary(s, m) ==
    /\ m.to = s
    /\ summaries' = IF phase[s] = "collecting" /\ m.term = electionTerm[s]
                    THEN [summaries EXCEPT
                            ![s] = [p \in DOMAIN @ \cup {m.from} |->
                                      IF p = m.from THEN m.version ELSE @[p]]]
                    ELSE summaries
    /\ Reply(m, {})
    /\ Noted(s, m.from, "ACTIVE")
    /\ UNCHANGED <<stateVars, phase, electionTerm, peers, goal, floor, eventVars, due>>

HandleSnapshotRequest(s, m) ==
    /\ m.to = s
    /\ Reply(m, {Snapshot(s, m.from)})
    /\ Noted(s, m.from, "JOINING")
    /\ UNCHANGED <<stateVars, threadVars, eventVars, due>>

\* Mutant: an installed snapshot is added to the local state.
InstallAdded(s, m) ==
    /\ m.to = s /\ Len(m.log) >= version(s)
    /\ log' = [log EXCEPT ![s] = @ \o m.log]
    /\ UNCHANGED <<role, term, leader_id, transitioning, members, threadVars, eventVars, due,
                   messages>>

\* Mutant: the versions are not compared.
NeverOlder(s, m) == FALSE

Older(s, m) == Len(m.log) < version(s)

\* The last chunk of a snapshot: an older one changes nothing.  A candidate and a
\* server that leaves keep their roles.
HandleSnapshot(s, m) ==
    /\ m.to = s
    /\ IF Older(s, m)
       THEN /\ Noted(s, m.from, "JOINING")
            /\ UNCHANGED <<stateVars, installed, due>>
       ELSE /\ log' = [log EXCEPT ![s] = m.log]
            /\ SetMembers(s, [m.members EXCEPT ![s] = "ACTIVE"])
            /\ term' = [term EXCEPT ![s] = IF m.term > @ THEN m.term ELSE @]
            /\ leader_id' = [leader_id EXCEPT
                               ![s] = IF m.leader = NoLeader THEN m.from ELSE m.leader]
            /\ role' = [role EXCEPT ![s] = IF @ \in {"CANDIDATE", "LEAVING"} THEN @
                                           ELSE IF leader_id'[s] = s THEN "PRIMARY" ELSE "BACKUP"]
            /\ transitioning' = [transitioning EXCEPT ![s] = TRUE]
            /\ installed' = [installed EXCEPT ![s] = TRUE]
            /\ due' = [due EXCEPT ![s] = @ \/ (role'[s] = "BACKUP" /\ s > leader_id'[s])]
    /\ UNCHANGED <<threadVars, ok, announced, messages>>

\* A coordinator with an older state gets a snapshot and is not followed.
RejectCoordinator(s, m) ==
    /\ m.from # s
    /\ m.version < version(s)
    /\ Send({Snapshot(s, m.from)})
    /\ Schedule(s)
    /\ Noted(s, m.from, "ACTIVE")
    /\ UNCHANGED <<stateVars, threadVars, eventVars>>

\* What is left of COORDINATOR and HEARTBEAT.
FromLeader(s, m) == m.from # s /\ (m.type = "COORDINATOR" => m.version >= version(s))

\* handle_primary_conflict: a PRIMARY hears of another one.  It starts an election,
\* except that it yields to a higher coordinator.
Conflict(s, m) == role[s] = "PRIMARY" /\ ~(m.type = "COORDINATOR" /\ m.from > s /\ m.term >= term[s])

\* Mutant: only the announcement of another PRIMARY counts, not its heartbeats.
QuietConflict(s, m) ==
    /\ FromLeader(s, m) /\ m.type = "COORDINATOR"
    /\ Conflict(s, m)
    /\ m.term >= term[s]
    /\ Schedule(s)
    /\ Noted(s, m.from, "ACTIVE")
    /\ UNCHANGED <<stateVars, threadVars, eventVars, messages>>

HandleConflict(s, m) ==
    /\ FromLeader(s, m)
    /\ Conflict(s, m)
    /\ m.term >= term[s]
    /\ Schedule(s)
    /\ Noted(s, m.from, "ACTIVE")
    /\ UNCHANGED <<stateVars, threadVars, eventVars, messages>>

\* The sender's term is old: only its address is noted.
IgnoreLeader(s, m) ==
    /\ FromLeader(s, m)
    /\ m.term < term[s]
    /\ Noted(s, m.from, "ACTIVE")
    /\ UNCHANGED <<stateVars, threadVars, eventVars, due, messages>>

\* Otherwise the sender is followed, and its membership replaces that of s.  A
\* heartbeat is not compared with the version.
Follow(s, m) ==
    /\ FromLeader(s, m)
    /\ ~Conflict(s, m)
    /\ m.term >= term[s]
    /\ term' = [term EXCEPT ![s] = m.term]
    /\ leader_id' = [leader_id EXCEPT ![s] = m.from]
    /\ role' = [role EXCEPT ![s] = IF @ \in {"JOINING", "LEAVING"} THEN @ ELSE "BACKUP"]
    /\ SetMembers(s, IF role'[s] = "JOINING" THEN Note(s, m.from, "ACTIVE") ELSE m.members)
    /\ IF m.type = "COORDINATOR"
       THEN /\ transitioning' = [transitioning EXCEPT ![s] = TRUE]
            /\ announced' = [announced EXCEPT ![s] = TRUE]
       ELSE UNCHANGED <<transitioning, announced>>
    /\ UNCHANGED <<log, threadVars, ok, installed, due, messages>>

--------------------------------------------------------------------------------
(* maintenance_loop of a PRIMARY, and crashes                              *)

SendHeartbeat(s) ==
    /\ role[s] = "PRIMARY"
    /\ Send({[type |-> "HEARTBEAT", from |-> s, term |-> term[s], members |-> members[s]]})
    /\ UNCHANGED <<stateVars, threadVars, eventVars, due>>

\* The process of s ends: its threads, timers and events are gone.
Halt(s) ==
    /\ alive' = alive \ {s}
    /\ phase' = [phase EXCEPT ![s] = "idle"]
    /\ Forget(s)
    /\ announced' = [announced EXCEPT ![s] = FALSE]
    /\ installed' = [installed EXCEPT ![s] = FALSE]
    /\ due' = [due EXCEPT ![s] = FALSE]
    /\ UNCHANGED <<stateVars, members, messages>>

\* It does not come back.
Crash(s) == Cardinality((Servers \ Crashed) \ alive) < MaxCrashes /\ Halt(s)

--------------------------------------------------------------------------------
\* Steps of the thread that leave the membership alone
ThreadStep(s) ==
    \/ CallHigher(s)
    \/ OkArrived(s) \/ OkTimeout(s)
    \/ CoordinatorArrived(s) \/ CoordinatorTimeout(s)
    \/ GiveUp(s)
    \/ SummaryTimeout(s) \/ SummariesComplete(s)
    \/ SnapshotArrived(s) \/ SnapshotTimeout(s)
    \/ Outdated(s)
    \/ \E p \in Servers : PushSnapshot(s, p)
    \/ BecomePrimary(s)

ElectionStep(s) ==
    \/ ThreadStep(s) /\ UNCHANGED members
    \/ AskSummaries(s)
    \/ TakeLead(s)

HandleLeader(s, m) == HandleConflict(s, m) \/ IgnoreLeader(s, m) \/ Follow(s, m)

\* Everything but snapshots
ReceiveCall(s) ==
    \/ \E m \in Sent("ELECTION") : HandleElection(s, m)
    \/ \E m \in Sent("ELECTION_OK") : HandleElectionOk(s, m)
    \/ \E m \in Sent("STATE_SUMMARY_REQUEST") : HandleSummaryRequest(s, m)
    \/ \E m \in Sent("STATE_SUMMARY") : HandleSummary(s, m)
    \/ \E m \in Sent("SNAPSHOT_REQUEST") : HandleSnapshotRequest(s, m)
    \/ \E m \in Sent("COORDINATOR") : RejectCoordinator(s, m) \/ HandleLeader(s, m)
    \/ \E m \in Sent("HEARTBEAT") : HandleLeader(s, m)

Receive(s) == ReceiveCall(s) \/ \E m \in Sent("SNAPSHOT") : HandleSnapshot(s, m)

ServerStep(s) ==
    \/ IgnoreDue(s) /\ UNCHANGED members
    \/ ElectionStep(s)
    \/ Receive(s)
    \/ \E p \in Servers : RequestSummary(s, p) /\ UNCHANGED members
    \/ SendHeartbeat(s) /\ UNCHANGED members

Next == \E s \in alive : \/ StartElection(s) /\ UNCHANGED <<alive, members>>
                         \/ ServerStep(s) /\ UNCHANGED <<alive, elections>>
                         \/ Crash(s) /\ UNCHANGED elections

Spec == Init /\ [][Next]_vars

\* The step A of s, as a step of the system.
Step(s, A) == s \in alive /\ A /\ UNCHANGED <<alive, elections>>

\* Threads run on, a scheduled election starts, a PRIMARY sends heartbeats, and of
\* those it repeats some reach another PRIMARY.  No other datagram has to arrive.
FairSpec ==
    /\ Spec
    /\ \A s \in Servers :
          /\ WF_vars(Step(s, ElectionStep(s)))
          /\ WF_vars(s \in alive /\ due[s] /\ StartElection(s) /\ UNCHANGED <<alive, members>>)
          /\ WF_vars(Step(s, SendHeartbeat(s) /\ UNCHANGED members))
          /\ WF_vars(Step(s, \E m \in Sent("HEARTBEAT") : HandleConflict(s, m)))

--------------------------------------------------------------------------------
(* Properties *)

\* A candidate that names itself leader has a state at least as new as each peer
\* it asked had when it asked (become_coordinator), although answers, snapshots
\* and acknowledgements of other elections arrive in between.
TakeoverFresh ==
    \A s \in Servers : phase[s] = "pushing" =>
        \A p \in DOMAIN floor[s] : version(s) >= floor[s][p]

\* A PRIMARY is never one with the service closed: whichever of the handlers made
\* it PRIMARY also set transitioning, and none that clears it leaves it PRIMARY.
PrimaryOpen == \A s \in Servers : role[s] = "PRIMARY" => transitioning[s]

\* test_stale_candidate_cannot_become_coordinator_after_newer_coordinator
\* (testing/test_cluster.py:304): a candidate that has followed another server in a
\* newer term does not become PRIMARY at the end of its own election.
OvertakenGivesUp ==
    [][\A s \in Servers :
           phase[s] # "idle" /\ phase'[s] = "idle"
           /\ leader_id[s] # s /\ term[s] > electionTerm[s]
           => ~(role[s] = "BACKUP" /\ role'[s] = "PRIMARY")]_vars

\* No answer that is missing, late or of another election holds election_lock for
\* ever (start_election, become_coordinator): each election of a server comes to
\* its end, or the server crashes.
ElectionEnds ==
    \A s \in Servers : phase[s] # "idle" ~> (phase[s] = "idle" \/ s \notin alive)

\* Two PRIMARYs do not both stay: one of them gives way or elects again
\* (handle_primary_conflict; test_cluster.py:247 and 275 are two cases of it).
SplitResolved ==
    \A s, p \in Servers :
        s # p /\ {s, p} \subseteq alive /\ role[s] = "PRIMARY" /\ role[p] = "PRIMARY"
        ~> \/ ~({s, p} \subseteq alive) \/ role[s] # "PRIMARY" \/ role[p] # "PRIMARY"
           \/ elections = MaxElections

================================================================================
