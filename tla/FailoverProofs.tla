----------------------------- MODULE FailoverProofs -----------------------------
(***************************************************************************)
(* Proofs about Failover: its type invariant, and that no running server   *)
(* goes back to an older version, with the lemmas of ElectionProofs for    *)
(* the steps it takes from Election.                                       *)
(***************************************************************************)
EXTENDS Failover, ElectionProofs, SequenceTheorems

--------------------------------------------------------------------------------
(* Operators *)

\* A request that is not applied yet can be appended: there are more requests than
\* entries in the log.
LEMMA AppendTyped ==
    ASSUME NEW l \in Logs, NEW r \in Requests, r \notin {l[i] : i \in DOMAIN l}
    PROVE  Append(l, r) \in Logs
<1> DEFINE n == Len(l)
           new == Append(l, r)
<1>1. /\ l \in Seq(Requests) /\ n \in 0 .. MaxVersion /\ n \in Nat /\ DOMAIN l = 1 .. n
      /\ MaxVersion \in Nat
  BY LogLength, ElectionAssumption DEF Versions
<1>2. \A i, j \in 1 .. n : l[i] = l[j] => i = j
  BY <1>1 DEF Logs
<1>3. /\ new \in [1 .. n + 1 -> Requests]
      /\ \A i \in 1 .. n : new[i] = l[i]
      /\ new[n + 1] = r
  <2>1. /\ new \in Seq(Requests) /\ Len(new) = n + 1
        /\ \A i \in 1 .. n : new[i] = l[i]
        /\ new[n + 1] = r
    BY <1>1, AppendProperties
  <2> HIDE DEF new
  <2> QED BY <2>1
<1> HIDE DEF new, n
<1>0. n \in Nat
  BY <1>1
<1>4. \A i, j \in 1 .. n + 1 : new[i] = new[j] => i = j
  <2> SUFFICES ASSUME NEW i \in 1 .. n + 1, NEW j \in 1 .. n + 1, new[i] = new[j]
               PROVE  i = j
    OBVIOUS
  <2>1. \A k \in 1 .. n : new[k] # r
    BY <1>1, <1>3
  <2>2. \A k \in 1 .. n + 1 : k \in 1 .. n \/ k = n + 1
    BY <1>0
  <2> QED BY <1>2, <1>3, <2>1, <2>2
<1>5. n + 1 <= MaxVersion
  <2> SUFFICES ASSUME n = MaxVersion PROVE FALSE
    BY <1>1
  <2>1. /\ IsFiniteSet(1 .. n + 1) /\ Cardinality(1 .. n + 1) = n + 1
        /\ IsFiniteSet(Requests) /\ Cardinality(Requests) = MaxVersion
    BY <1>1, FS_Interval DEF Requests
  <2>2. \E i, j \in 1 .. n + 1 : i # j /\ new[i] = new[j]
    <3>1. Cardinality(Requests) < Cardinality(1 .. n + 1)
      BY <1>1, <2>1
    <3>2. new \in [1 .. n + 1 -> Requests]
      BY <1>3
    <3> DEFINE Positions == 1 .. n + 1
    <3>3. /\ IsFiniteSet(Positions) /\ IsFiniteSet(Requests)
          /\ Cardinality(Requests) < Cardinality(Positions) /\ new \in [Positions -> Requests]
      BY <2>1, <3>1, <3>2
    <3> HIDE DEF Positions
    <3>4. \E i, j \in Positions : i # j /\ new[i] = new[j]
      BY <3>3, FS_PigeonHole
    <3> QED BY <3>4 DEF Positions
  <2> QED BY <1>4, <2>2
<1>6. n + 1 \in Versions /\ DOMAIN new = 1 .. n + 1
  BY <1>1, <1>3, <1>5 DEF Versions
<1>7. new \in Logs
  BY <1>3, <1>4, <1>6 DEF Logs
<1> QED BY <1>7 DEF new

--------------------------------------------------------------------------------
(* Types *)

AllMessages == Messages \cup Replications \cup ReplicationAcks \cup Leaves \cup Announcements

\* The types, and what keeps the choice of the newest answer defined.
FailoverInv == FailoverTypeOK /\ OwnReport

\* The datagrams of each kind are what the handlers take them for.
LEMMA FailoverReceived ==
    ASSUME FailoverTypeOK
    PROVE  /\ Received
           /\ Sent("MEMBERSHIP") \subseteq Announcements
           /\ Sent("REPLICATION") \subseteq Replications
           /\ Sent("REPLICATION_ACK") \subseteq ReplicationAcks
           /\ Sent("LEAVE") \subseteq Leaves /\ Sent("LEAVE_ACK") \subseteq Leaves
  BY DEF FailoverTypeOK, Received, Sent, Messages, Elections, Calls, Summaries, SnapshotRequests,
         Snapshots, Coordinators, Heartbeats, Replications, ReplicationAcks, Leaves, Announcements

\* The holder of commit_lock is what its operation says.
LEMMA Holders ==
    ASSUME FailoverTypeOK, NEW s \in Servers
    PROVE  /\ busy[s].op = "sync" => busy[s] \in Syncing
           /\ busy[s].op = "replicate" => busy[s] \in Replicating
<1>1. busy[s] \in {Free} \cup Replicating \cup Syncing
  BY DEF FailoverTypeOK
<1> QED BY <1>1 DEF Free, Replicating, Syncing

\* The variables that this module adds, when the others are typed.
LEMMA FailoverTyped ==
    ASSUME FailoverTypeOK, StateOK', messages' \ messages \subseteq AllMessages,
           busy' \in [Servers -> {Free} \cup Replicating \cup Syncing],
           syncing' \in [Servers -> SyncThreads],
           leaving' \in [Servers -> Leaving \cup {Staying}],
           leave_acknowledged' \in [Servers -> BOOLEAN],
           answered' \subseteq Requests, syncs' \in 0 .. MaxSyncs, faults' \in 0 .. MaxFaults
    PROVE  FailoverTypeOK'
  BY DEF FailoverTypeOK, AllMessages

\* A step that changes none of them.
LEMMA LocksKept ==
    ASSUME FailoverTypeOK, StateOK', messages' \ messages \subseteq AllMessages,
           UNCHANGED <<lockVars, stopVars>>
    PROVE  FailoverTypeOK'
  BY DEF FailoverTypeOK, AllMessages, lockVars, stopVars

\* All servers have just been started.
LEMMA InitFailover == FailoverInit => FailoverInv
<1> SUFFICES ASSUME FailoverInit PROVE FailoverInv
  OBVIOUS
<1>1. <<>> \in Reports
  <2>1. <<>> \in [{} -> Versions]
    OBVIOUS
  <2> QED BY <2>1 DEF Reports
<1>2. <<>> \in Logs
  <2>1. 0 \in Versions /\ <<>> \in [1 .. 0 -> Requests]
    BY ElectionAssumption DEF Versions
  <2> QED BY <2>1 DEF Logs
<1>3. 0 \in Versions /\ 0 \in 0 .. MaxElections /\ 0 \in 0 .. MaxSyncs /\ 0 \in 0 .. MaxFaults
  BY ElectionAssumption, FailoverAssumption DEF Versions
<1>4. members \in [Servers -> Memberships]
  BY DEF FailoverInit, Memberships
<1>5. StateOK
  BY <1>1, <1>2, <1>3, <1>4 DEF FailoverInit, StateOK, Leaders, Phases
<1>6. FailoverTypeOK
  <2>1. syncing \in [Servers -> SyncThreads]
    BY DEF FailoverInit, SyncThreads
  <2> QED BY <1>3, <1>5, <2>1 DEF FailoverInit, FailoverTypeOK
<1> QED BY <1>6 DEF FailoverInit, FailoverInv, OwnReport

\* The steps of Election.
LEMMA ElectionNextTyped ==
    ASSUME FailoverInv, NEW s \in alive, ElectionNext(s)
    PROVE  FailoverInv'
<1>1. StateOK /\ OwnReport /\ Received /\ s \in Servers /\ FailoverTypeOK
  BY FailoverReceived DEF FailoverInv, FailoverTypeOK, StateOK
<1>2. /\ \/ StartElection(s) /\ UNCHANGED members
         \/ /\ \/ IgnoreDue(s) /\ UNCHANGED members
               \/ ElectionStep(s)
               \/ ReceiveCall(s)
               \/ \E p \in Servers : RequestSummary(s, p) /\ UNCHANGED members
               \/ SendHeartbeat(s) /\ UNCHANGED members
            /\ UNCHANGED elections
      /\ UNCHANGED alive /\ UNCHANGED <<lockVars, stopVars>>
  BY DEF ElectionNext
<1>3. StateOK' /\ SendsTyped
  BY <1>1, <1>2, StartTyped, ElectionStepTyped, ReceiveTyped, OtherStepsTyped
<1>4. FailoverTypeOK'
  BY <1>1, <1>2, <1>3, LocksKept DEF SendsTyped, AllMessages
<1>5. OwnReport'
  <2>1. CASE IgnoreDue(s) \/ (\E p \in Servers : RequestSummary(s, p)) \/ SendHeartbeat(s)
    BY <1>1, <2>1 DEF OwnReport, IgnoreDue, RequestSummary, SendHeartbeat, threadVars
  <2> QED BY <1>1, <1>2, <2>1, ThreadOwnReport, ReceiveOwnReport
<1> QED BY <1>4, <1>5 DEF FailoverInv

\* Neither the state of a server changes nor its membership, but perhaps what is due.
LEMMA QuietTyped ==
    ASSUME StateOK, UNCHANGED <<alive, stateVars, members, threadVars, eventVars, elections>>,
           due' \in [Servers -> BOOLEAN]
    PROVE  StateOK'
  BY DEF StateOK, stateVars, threadVars, eventVars

\* Of the servers' state only the membership changes, and what is due.
LEMMA MembershipTyped ==
    ASSUME StateOK, members' \in [Servers -> Memberships], due' \in [Servers -> BOOLEAN],
           UNCHANGED <<alive, stateVars, threadVars, eventVars, elections>>
    PROVE  StateOK'
  BY DEF StateOK, stateVars, threadVars, eventVars

\* broadcast_membership sends a membership.
LEMMA AnnounceTyped ==
    ASSUME NEW s \in Servers, members' \in [Servers -> Memberships], Announce(s)
    PROVE  messages' \ messages \subseteq AllMessages
<1>1. Membership(s) \in Announcements
  BY DEF Announcements, Membership
<1> QED BY <1>1, Transmitted DEF Announce, Send, AllMessages

\* The status of one member changes.
LEMMA StatusTyped ==
    ASSUME StateOK, NEW s \in Servers, NEW p \in Servers, NEW status \in {"NONE", "ACTIVE"},
           members' = [members EXCEPT ![s][p] = status]
    PROVE  members' \in [Servers -> Memberships]
<1>1. members[s] \in Memberships
  BY DEF StateOK
<1>2. [members[s] EXCEPT ![p] = status] \in Memberships
  BY <1>1 DEF Memberships
<1> QED BY <1>2 DEF StateOK

\* A sync_member thread begins, goes on or ends.
LEMMA SyncTyped ==
    ASSUME FailoverTypeOK, NEW s \in Servers, NEW p \in Servers,
           NEW to \in {"none", "waiting", "holding", "ending"},
           syncing' = [syncing EXCEPT ![s][p] = to]
    PROVE  syncing' \in [Servers -> SyncThreads]
<1>1. syncing[s] \in SyncThreads
  BY DEF FailoverTypeOK
<1>2. [syncing[s] EXCEPT ![p] = to] \in SyncThreads
  BY <1>1 DEF SyncThreads
<1> QED BY <1>2 DEF FailoverTypeOK

\* Start and synchronisation.
LEMMA MemberStepTyped ==
    ASSUME FailoverTypeOK, NEW s \in alive, MemberStep(s)
    PROVE  FailoverTypeOK'
<1> USE DEF serverUnchanged
<1>1. StateOK /\ s \in Servers /\ due \in [Servers -> BOOLEAN]
  BY DEF FailoverTypeOK, StateOK
<1>2. CASE CheckStartup(s)
  <2>1. members' \in [Servers -> Memberships]
    BY <1>1, <1>2 DEF StateOK, CheckStartup, Memberships
  <2>2. StateOK'
    BY <1>1, <1>2, <2>1 DEF StateOK, CheckStartup, Leaders, threadVars, eventVars
  <2>3. [type |-> "COORDINATOR", from |-> s, term |-> term[s] + 1, version |-> version(s),
         members |-> members'[s]] \in AllMessages
    BY <1>1, <2>1, VersionTyped DEF StateOK, Coordinators, Messages, AllMessages
  <2>4. messages' \ messages \subseteq AllMessages
    BY <1>2, <2>3, Transmitted DEF CheckStartup, Send
  <2>5. UNCHANGED <<lockVars, stopVars>>
    BY <1>2 DEF CheckStartup
  <2> QED BY <2>2, <2>4, <2>5, LocksKept
<1>3. ASSUME NEW p \in Servers, HandleServerHello(s, p)
      PROVE  FailoverTypeOK'
  <2>1. members' \in [Servers -> Memberships]
    BY <1>1, <1>3, NotedTyped DEF HandleServerHello
  <2>2. UNCHANGED <<alive, stateVars, threadVars, eventVars, due, elections, messages, busy,
                    answered, stopVars>>
    BY <1>3 DEF HandleServerHello
  <2>3. StateOK'
    BY <1>1, <2>1, <2>2, MembershipTyped
  <2>4. syncing' \in [Servers -> SyncThreads] /\ syncs' \in 0 .. MaxSyncs
    <3>1. CASE UNCHANGED <<syncing, syncs>>
      BY <3>1 DEF FailoverTypeOK
    <3>2. CASE /\ syncs < MaxSyncs /\ syncs' = syncs + 1
               /\ syncing' = [syncing EXCEPT ![s][p] = "waiting"]
      <4>1. syncs \in 0 .. MaxSyncs /\ MaxSyncs \in Nat
        BY FailoverAssumption DEF FailoverTypeOK
      <4>2. syncs' \in 0 .. MaxSyncs
        BY <3>2, <4>1
      <4> QED BY <1>1, <1>3, <3>2, <4>2, SyncTyped
    <3> QED BY <1>3, <3>1, <3>2 DEF HandleServerHello, ScheduleSync
  <2> QED BY <2>2, <2>3, <2>4, FailoverTyped DEF FailoverTypeOK, stopVars
<1>4. ASSUME NEW p \in Servers, SyncBegin(s, p)
      PROVE  FailoverTypeOK'
  <2>1. Snapshot(s, p) \in Snapshots
    BY <1>1, <1>4, SnapshotTyped
  <2>2. /\ Sync(s, p, "waiting", "holding")
        /\ UNCHANGED <<alive, role, term, leader_id, log, members, threadVars, eventVars, due,
                       elections, answered, syncs, stopVars>>
    BY <1>4 DEF SyncBegin, Sync
  <2>3. StateOK'
    BY <1>1, <1>4, <2>2 DEF StateOK, SyncBegin, threadVars, eventVars
  <2>4. messages' \ messages \subseteq AllMessages
    BY <1>4, <2>1, Transmitted DEF SyncBegin, Send, Messages, AllMessages
  <2>5. busy' \in [Servers -> {Free} \cup Replicating \cup Syncing]
    <3>1. [op |-> "sync", target |-> p, snapshot |-> Snapshot(s, p), acked |-> FALSE] \in Syncing
      BY <1>4, <2>1 DEF Syncing
    <3> QED BY <1>4, <3>1 DEF FailoverTypeOK, SyncBegin
  <2>6. syncing' \in [Servers -> SyncThreads]
    BY <1>1, <1>4, <2>2, SyncTyped DEF Sync
  <2> QED BY <2>2, <2>3, <2>4, <2>5, <2>6, FailoverTyped DEF FailoverTypeOK, stopVars
<1>9. ASSUME NEW p \in Servers, SyncRefused(s, p) \/ Reopen(s, p)
      PROVE  FailoverTypeOK'
  <2>1. PICK from \in {"waiting", "ending"}, to \in {"none", "ending"} : Sync(s, p, from, to)
    BY <1>9 DEF SyncRefused, Reopen
  <2>2. /\ UNCHANGED <<alive, role, term, leader_id, log, members, threadVars, eventVars, due,
                       elections, messages, busy, answered, syncs, stopVars>>
        /\ transitioning' \in [Servers -> BOOLEAN]
    BY <1>1, <1>9, <2>1 DEF SyncRefused, Reopen, Sync, StateOK
  <2>3. StateOK'
    BY <1>1, <2>2 DEF StateOK, threadVars, eventVars
  <2>4. syncing' \in [Servers -> SyncThreads]
    BY <1>1, <1>9, <2>1, SyncTyped DEF Sync
  <2> QED BY <2>2, <2>3, <2>4, FailoverTyped DEF FailoverTypeOK, stopVars
<1>10. CASE ResendSnapshot(s)
  <2>1. busy[s] \in Syncing /\ term[s] \in Nat
    BY <1>1, <1>10, Holders DEF ResendSnapshot, StateOK
  <2>2. [busy[s].snapshot EXCEPT !.term = term[s]] \in Snapshots
    BY <2>1 DEF Syncing, Snapshots
  <2>3. messages' \ messages \subseteq AllMessages
    BY <1>10, <2>2, Transmitted DEF ResendSnapshot, Send, Messages, AllMessages
  <2>4. /\ UNCHANGED <<alive, stateVars, members, threadVars, eventVars, due, elections>>
        /\ UNCHANGED <<lockVars, stopVars>>
    BY <1>10 DEF ResendSnapshot
  <2>5. StateOK'
    BY <1>1, <2>4, QuietTyped
  <2> QED BY <2>3, <2>4, <2>5, LocksKept
<1>5. ASSUME NEW p \in Servers, RemoveMember(s, p)
      PROVE  FailoverTypeOK'
  <2>1. members' \in [Servers -> Memberships]
    BY <1>1, <1>5 DEF StateOK, RemoveMember, Without, Memberships
  <2>2. /\ UNCHANGED <<alive, stateVars, threadVars, eventVars, due, elections>>
        /\ UNCHANGED <<lockVars, stopVars>>
    BY <1>5 DEF RemoveMember
  <2>3. StateOK'
    BY <1>1, <2>1, <2>2, MembershipTyped
  <2>4. messages' \ messages \subseteq AllMessages
    BY <1>1, <1>5, <2>1, AnnounceTyped DEF RemoveMember
  <2> QED BY <2>2, <2>3, <2>4, LocksKept
<1>6. ASSUME NEW p \in Servers, SyncFinish(s, p) \/ SyncFailed(s, p)
      PROVE  FailoverTypeOK'
  <2>1. /\ EndSync(s, p) /\ Sync(s, p, "holding", "ending")
        /\ UNCHANGED <<alive, stateVars, threadVars, eventVars, due, elections, answered, syncs,
                       stopVars>>
    BY <1>6 DEF SyncFinish, SyncFailed, EndSync, Sync, stateVars
  <2>2. members' \in [Servers -> Memberships]
    <3>1. \/ UNCHANGED members
          \/ \E status \in {"NONE", "ACTIVE"} : members' = [members EXCEPT ![s][p] = status]
      BY <1>6 DEF SyncFinish, SyncFailed
    <3> QED BY <1>1, <1>6, <3>1, StatusTyped DEF StateOK
  <2>3. StateOK'
    BY <1>1, <2>1, <2>2, MembershipTyped
  <2>4. messages' \ messages \subseteq AllMessages
    <3>1. Membership(s) \in AllMessages
      BY <1>1, <2>2 DEF Membership, Announcements, AllMessages
    <3>2. \A q \in Servers : Call(s, q, q) \in AllMessages
      BY <1>1 DEF StateOK, Call, Elections, Messages, AllMessages
    <3> QED BY <1>6, <3>1, <3>2, Transmitted DEF SyncFinish, SyncFailed, Send
  <2>5. busy' \in [Servers -> {Free} \cup Replicating \cup Syncing]
    BY <2>1 DEF FailoverTypeOK, EndSync
  <2>6. syncing' \in [Servers -> SyncThreads]
    BY <1>1, <1>6, <2>1, SyncTyped DEF Sync
  <2> QED BY <2>1, <2>3, <2>4, <2>5, <2>6, FailoverTyped DEF FailoverTypeOK, stopVars
<1>7. ASSUME NEW m \in Sent("MEMBERSHIP"), HandleMembership(s, m)
      PROVE  FailoverTypeOK'
  <2>1. m.members \in Memberships
    BY <1>7, FailoverReceived DEF Announcements
  <2>2. members' \in [Servers -> Memberships]
    BY <1>1, <1>7, <2>1, NotedTyped, MembersTyped DEF HandleMembership
  <2>3. /\ UNCHANGED <<alive, stateVars, threadVars, eventVars, due, elections, messages>>
        /\ UNCHANGED <<lockVars, stopVars>>
    BY <1>7 DEF HandleMembership
  <2>4. StateOK'
    BY <1>1, <2>2, <2>3, MembershipTyped
  <2> QED BY <2>3, <2>4, LocksKept
<1>8. ASSUME NEW m \in Sent("SNAPSHOT"), ReceiveSnapshot(s, m)
      PROVE  FailoverTypeOK'
  <2>1. m \in Snapshots
    BY FailoverReceived DEF Received
  <2>2. HandleSnapshot(s, m) /\ UNCHANGED <<alive, elections, stopVars, syncing, answered, syncs>>
    BY <1>8 DEF ReceiveSnapshot
  <2>3. StateOK' /\ SendsTyped
    BY <1>1, <2>1, <2>2, SnapshotStepTyped
  <2>4. busy' \in [Servers -> {Free} \cup Replicating \cup Syncing]
    <3>1. \A p \in Servers : /\ busy[p] \in {Free} \cup Replicating \cup Syncing
                             /\ busy[p].op = "sync" => [busy[p] EXCEPT !.acked = TRUE] \in Syncing
      BY Holders DEF FailoverTypeOK, Syncing
    <3>2. \A p \in Servers : busy'[p] \in {busy[p]} \/
                             (busy[p].op = "sync" /\ busy'[p] = [busy[p] EXCEPT !.acked = TRUE])
      BY <1>8 DEF ReceiveSnapshot, SyncsWith
    <3>3. busy' = [p \in Servers |-> busy'[p]]
      BY <1>8 DEF ReceiveSnapshot
    <3> QED BY <3>1, <3>2, <3>3
  <2> QED BY <2>2, <2>3, <2>4, FailoverTyped DEF FailoverTypeOK, SendsTyped, AllMessages, stopVars
<1> QED BY <1>2, <1>3, <1>4, <1>5, <1>6, <1>7, <1>8, <1>9, <1>10 DEF MemberStep

\* Requests and their replication.
LEMMA RequestStepTyped ==
    ASSUME FailoverTypeOK, NEW s \in alive, RequestStep(s)
    PROVE  FailoverTypeOK'
<1> USE DEF serverUnchanged
<1> DEFINE Busy == {Free} \cup Replicating \cup Syncing
<1>1. StateOK /\ s \in Servers /\ due \in [Servers -> BOOLEAN]
  BY DEF FailoverTypeOK, StateOK
<1>2. ASSUME NEW request \in Requests, AcceptRequest(s, request)
      PROVE  FailoverTypeOK'
  <2>1. Append(log[s], request) \in Logs
    BY <1>1, <1>2, AppendTyped DEF StateOK, AcceptRequest, Applied
  <2>2. StateOK'
    BY <1>1, <1>2, <2>1 DEF StateOK, AcceptRequest, threadVars, eventVars
  <2>3. version(s) + 1 \in Nat /\ term[s] \in Nat /\ Active(s) \in SUBSET Servers
    BY <1>1, VersionTyped, ElectionAssumption DEF StateOK, Versions, Active
  <2>4. messages' \ messages \subseteq AllMessages
    BY <1>1, <1>2, <2>3, Transmitted DEF AcceptRequest, Send, Replications, AllMessages
  <2>5. busy' \in [Servers -> Busy]
    <3>1. [op |-> "replicate", request |-> request, term |-> term[s],
           version |-> version(s) + 1, pending |-> Active(s)] \in Replicating
      BY <2>3 DEF Replicating
    <3> QED BY <1>2, <3>1 DEF FailoverTypeOK, AcceptRequest
  <2>6. UNCHANGED <<syncing, answered, syncs, stopVars>>
    BY <1>2 DEF AcceptRequest
  <2> QED BY <2>2, <2>4, <2>5, <2>6, FailoverTyped DEF FailoverTypeOK, stopVars
<1>3. ASSUME NEW p, Operation(s), Drop(s, p)
      PROVE  busy' \in [Servers -> Busy]
  <2>1. busy[s] \in Replicating
    BY <1>1, <1>3, Holders DEF Operation
  <2>2. [busy[s] EXCEPT !.pending = @ \ {p}] \in Replicating
    BY <2>1 DEF Replicating
  <2> QED BY <1>1, <1>3, <2>2 DEF FailoverTypeOK, Drop
<1>4. ASSUME NEW p \in Servers, DropInactive(s, p)
      PROVE  FailoverTypeOK'
  <2>1. busy' \in [Servers -> Busy]
    BY <1>3, <1>4 DEF DropInactive
  <2>2. UNCHANGED <<alive, stateVars, members, threadVars, eventVars, due, elections, messages,
                    syncing, answered, syncs, stopVars>>
    BY <1>4 DEF DropInactive
  <2>3. StateOK'
    BY <1>1, <2>2, QuietTyped
  <2> QED BY <2>1, <2>2, <2>3, FailoverTyped DEF FailoverTypeOK, stopVars
<1>5. ASSUME NEW p \in Servers, Resend(s, p)
      PROVE  FailoverTypeOK'
  <2>1. busy[s] \in Replicating
    BY <1>1, <1>5, Holders DEF Resend, Operation
  <2>2. messages' \ messages \subseteq AllMessages
    BY <1>1, <1>5, <2>1, Transmitted DEF Resend, Send, Replicating, Replications, AllMessages
  <2>3. /\ UNCHANGED <<alive, stateVars, members, threadVars, eventVars, due, elections>>
        /\ UNCHANGED <<lockVars, stopVars>>
    BY <1>5 DEF Resend
  <2>4. StateOK'
    BY <1>1, <2>3, QuietTyped
  <2> QED BY <2>2, <2>3, <2>4, LocksKept
<1>6. CASE Replicated(s) \/ Interrupted(s) \/ ReplicationTimeout(s)
  <2>1. EndRequest(s) /\ busy[s].request \in Requests
    BY <1>1, <1>6, Holders DEF Replicated, Interrupted, ReplicationTimeout, EndRequest, Operation,
                                Replicating
  <2>2. answered' \subseteq Requests /\ due' \in [Servers -> BOOLEAN]
    BY <1>1, <1>6, <2>1 DEF FailoverTypeOK, Replicated, Interrupted, ReplicationTimeout, Schedule
  <2>3. busy' \in [Servers -> Busy]
    BY <2>1 DEF FailoverTypeOK, EndRequest
  <2>4. UNCHANGED <<alive, stateVars, members, threadVars, eventVars, elections, messages, syncing,
                    syncs, stopVars>>
    BY <2>1 DEF EndRequest
  <2>5. StateOK'
    BY <1>1, <2>2, <2>4, QuietTyped
  <2> QED BY <2>2, <2>3, <2>4, <2>5, FailoverTyped DEF FailoverTypeOK, stopVars
<1>7. ASSUME NEW m \in Sent("REPLICATION"), HandleReplication(s, m)
      PROVE  FailoverTypeOK'
  <2>1. m.from \in Servers /\ m.request \in Requests
    BY FailoverReceived DEF Replications
  <2>2. members' \in [Servers -> Memberships]
    BY <1>1, <1>7, NotedTyped DEF HandleReplication
  <2>3. log' \in [Servers -> Logs]
    <3>1. CASE log' = log
      BY <1>1, <3>1 DEF StateOK
    <3>2. CASE log' # log
      <4>1. log' = [log EXCEPT ![s] = Append(@, m.request)] /\ m.request \notin Applied(s)
        BY <1>7, <3>2 DEF HandleReplication
      <4>2. Append(log[s], m.request) \in Logs
        BY <1>1, <2>1, <4>1, AppendTyped DEF StateOK, Applied
      <4> QED BY <1>1, <4>1, <4>2 DEF StateOK
    <3> QED BY <3>1, <3>2
  <2>4. /\ UNCHANGED <<alive, role, term, leader_id, transitioning, threadVars, eventVars, due,
                       elections>>
        /\ UNCHANGED <<lockVars, stopVars>>
    BY <1>7 DEF HandleReplication
  <2>5. StateOK'
    BY <1>1, <2>2, <2>3, <2>4 DEF StateOK, threadVars, eventVars
  <2>6. [type |-> "REPLICATION_ACK", from |-> s, to |-> m.from, term |-> term[s],
         version |-> Len(log'[s]), stale |-> FALSE] \in AllMessages
    <3>1. log'[s] \in Logs
      BY <1>1, <2>3
    <3> QED BY <1>1, <2>1, <3>1, LogLength DEF StateOK, ReplicationAcks, AllMessages
  <2>7. [type |-> "SNAPSHOT_REQUEST", from |-> s, to |-> m.from] \in AllMessages
    BY <1>1, <2>1 DEF SnapshotRequests, Messages, AllMessages
  <2>8. messages' \ messages \subseteq AllMessages
    BY <1>7, <2>6, <2>7, Transmitted DEF HandleReplication, Send
  <2> QED BY <2>4, <2>5, <2>8, LocksKept
<1>8. ASSUME NEW m \in Sent("REPLICATION_ACK"), HandleReplicationAck(s, m)
      PROVE  FailoverTypeOK'
  <2>1. busy' \in [Servers -> Busy]
    <3>1. UNCHANGED busy \/ (Operation(s) /\ Drop(s, m.from))
      BY <1>8 DEF HandleReplicationAck
    <3>2. CASE UNCHANGED busy
      BY <3>2 DEF FailoverTypeOK
    <3>3. CASE Operation(s) /\ Drop(s, m.from)
      BY <1>3, <3>3
    <3> QED BY <3>1, <3>2, <3>3
  <2>2. due' \in [Servers -> BOOLEAN] /\ messages' \subseteq messages
    <3>1. Schedule(s) \/ UNCHANGED due
      BY <1>8 DEF HandleReplicationAck
    <3>2. messages' \subseteq messages
      BY <1>8, Transmitted DEF HandleReplicationAck, Reply
    <3> QED BY <1>1, <3>1, <3>2 DEF Schedule
  <2>3. UNCHANGED <<alive, stateVars, members, threadVars, eventVars, elections, syncing,
                    answered, syncs, stopVars>>
    BY <1>8 DEF HandleReplicationAck
  <2>4. StateOK'
    BY <1>1, <2>2, <2>3, QuietTyped
  <2> QED BY <2>1, <2>2, <2>3, <2>4, FailoverTyped DEF FailoverTypeOK, stopVars
<1> QED BY <1>2, <1>4, <1>5, <1>6, <1>7, <1>8 DEF RequestStep

\* The process of s ends.
LEMMA EndTyped ==
    ASSUME FailoverTypeOK, NEW s \in Servers, End(s), faults' \in 0 .. MaxFaults
    PROVE  FailoverTypeOK'
<1>1. StateOK' /\ messages' = messages
  BY HaltTyped DEF FailoverTypeOK, End
<1>2. /\ busy' \in [Servers -> {Free} \cup Replicating \cup Syncing]
      /\ leaving' \in [Servers -> Leaving \cup {Staying}]
      /\ leave_acknowledged' \in [Servers -> BOOLEAN]
  BY DEF FailoverTypeOK, End
<1>3. UNCHANGED <<answered, syncs>> /\ syncing' \in [Servers -> SyncThreads]
  <2>1. [p \in Servers |-> "none"] \in SyncThreads
    BY DEF SyncThreads
  <2> QED BY <2>1 DEF FailoverTypeOK, End
<1> QED BY <1>1, <1>2, <1>3, FailoverTyped DEF FailoverTypeOK

\* stop goes from one wait to another.
LEMMA LeaveTyped ==
    ASSUME FailoverTypeOK, NEW s \in Servers, NEW from, NEW to, NEW targets \in SUBSET Servers,
           to \in {"awaitingLeader", "awaitingAck"} \/ (to = "no" /\ targets = {}),
           Leave(s, from, to, targets)
    PROVE  leaving' \in [Servers -> Leaving \cup {Staying}]
<1>1. [at |-> to, to |-> targets] \in Leaving \cup {Staying}
  BY DEF Leaving, Staying
<1> QED BY <1>1 DEF FailoverTypeOK, Leave

\* LEAVE, and the repeated requests to leave.
LEMMA HandleLeaveTyped ==
    ASSUME FailoverTypeOK, NEW s \in Servers, NEW p \in Servers, NEW net \in SUBSET messages,
           HandleLeave(s, p, net)
    PROVE  FailoverTypeOK'
<1>1. StateOK /\ due \in [Servers -> BOOLEAN]
  BY DEF FailoverTypeOK, StateOK
<1>2. members' \in [Servers -> Memberships]
  <2>1. CASE role[s] = "PRIMARY"
    <3>1. Without(s, {p}) \in Memberships
      BY <1>1 DEF StateOK, Without, Memberships
    <3>2. members' = [members EXCEPT ![s] = Without(s, {p})]
      BY <2>1 DEF HandleLeave
    <3> QED BY <1>1, <3>1, <3>2 DEF StateOK
  <2>2. CASE role[s] # "PRIMARY"
    BY <1>1, <2>2, NotedTyped DEF HandleLeave
  <2> QED BY <2>1, <2>2
<1>3. due' \in [Servers -> BOOLEAN]
  <2>1. Schedule(s) \/ UNCHANGED due
    BY DEF HandleLeave
  <2> QED BY <1>1, <2>1 DEF Schedule
<1>4. messages' \ messages \subseteq AllMessages
  <2>1. /\ [type |-> "LEAVE_ACK", from |-> s, to |-> p] \in AllMessages
        /\ [type |-> "MEMBERSHIP", from |-> s, members |-> members'[s]] \in AllMessages
    BY <1>2 DEF Leaves, Announcements, AllMessages
  <2> QED BY <2>1, Transmitted DEF HandleLeave
<1>5. UNCHANGED <<alive, stateVars, threadVars, eventVars, elections, lockVars, stopVars>>
  BY DEF HandleLeave
<1>6. StateOK'
  BY <1>1, <1>2, <1>3, <1>5, MembershipTyped
<1> QED BY <1>4, <1>5, <1>6, LocksKept

\* Departures.
LEMMA StopStepTyped ==
    ASSUME FailoverTypeOK, NEW s \in alive, StopStep(s)
    PROVE  FailoverTypeOK'
<1> DEFINE Plans == [Servers -> Leaving \cup {Staying}]
<1>1. StateOK /\ s \in Servers /\ due \in [Servers -> BOOLEAN]
  BY DEF FailoverTypeOK, StateOK
<1>2. CASE StopBegin(s)
  <2>1. leaving' \in Plans
    <3>1. /\ [at |-> "closing", to |-> Active(s)] \in Leaving
          /\ [at |-> "asking", to |-> Active(s)] \in Leaving
      BY DEF Leaving, Active
    <3> QED BY <1>2, <3>1 DEF FailoverTypeOK, StopBegin
  <2>2. faults' \in 0 .. MaxFaults
    BY <1>2, FailoverAssumption DEF FailoverTypeOK, StopBegin, Fault
  <2>3. UNCHANGED <<alive, stateVars, members, threadVars, eventVars, due, elections, messages,
                    lockVars, leave_acknowledged>>
    BY <1>2 DEF StopBegin
  <2>4. StateOK'
    BY <1>1, <2>3, QuietTyped
  <2> QED BY <2>1, <2>2, <2>3, <2>4, FailoverTyped DEF FailoverTypeOK, lockVars
<1>3. CASE StopLeading(s)
  <2>1. Leave(s, "closing", "awaitingLeader", {})
    BY <1>3 DEF StopLeading
  <2>2. leaving' \in Plans
    BY <1>1, <2>1, LeaveTyped
  <2>3. StateOK'
    BY <1>1, <1>3, <2>1 DEF StateOK, StopLeading, Leave, Leaders, threadVars
  <2>4. leaving[s].to \in SUBSET Servers
    BY <1>1 DEF FailoverTypeOK, Leaving, Staying
  <2>5. messages' \ messages \subseteq AllMessages
    BY <1>1, <1>3, <2>4, Transmitted DEF StopLeading, Send, Leaves, AllMessages
  <2>6. UNCHANGED <<lockVars, faults, leave_acknowledged>>
    BY <1>3, <2>1 DEF StopLeading, Leave
  <2> QED BY <2>2, <2>3, <2>5, <2>6, FailoverTyped DEF FailoverTypeOK, lockVars
<1>4. CASE AskToLeave(s)
  <2>1. PICK targets \in SUBSET Servers : Leave(s, "asking", "awaitingAck", targets)
    <3>1. leaving[s].to \in SUBSET Servers
      BY <1>1 DEF FailoverTypeOK, Leaving, Staying
    <3> QED BY <1>4, <3>1 DEF AskToLeave
  <2>2. leaving' \in Plans
    BY <1>1, <2>1, LeaveTyped
  <2>3. UNCHANGED <<alive, stateVars, members, threadVars, eventVars, due, elections, messages,
                    lockVars, faults>>
    BY <1>4, <2>1 DEF AskToLeave, Leave, stateVars, eventVars
  <2>4. StateOK'
    BY <1>1, <2>3, QuietTyped
  <2>5. leave_acknowledged' \in [Servers -> BOOLEAN]
    BY <1>4 DEF FailoverTypeOK, AskToLeave
  <2> QED BY <2>2, <2>3, <2>4, <2>5, FailoverTyped DEF FailoverTypeOK, lockVars
<1>5. CASE StopCompleted(s)
  BY <1>1, <1>5, EndTyped DEF StopCompleted, FailoverTypeOK
<1>6. CASE StopDelayed(s)
  <2>1. PICK from : Leave(s, from, "no", {})
    BY <1>6 DEF StopDelayed
  <2>2. leaving' \in Plans
    BY <1>1, <2>1, LeaveTyped
  <2>3. UNCHANGED <<alive, stateVars, members, threadVars, eventVars, due, elections, messages,
                    lockVars, faults, leave_acknowledged>>
    BY <1>6, <2>1 DEF StopDelayed, Leave, stateVars, eventVars
  <2>4. StateOK'
    BY <1>1, <2>3, QuietTyped
  <2> QED BY <2>2, <2>3, <2>4, FailoverTyped DEF FailoverTypeOK, lockVars
<1>7. CASE ReceiveLeave(s)
  <2>1. \E p \in Servers, net \in SUBSET messages : HandleLeave(s, p, net)
    <3>1. \A m \in Sent("LEAVE") : m.from \in Servers
      BY FailoverReceived DEF Leaves
    <3>2. alive \subseteq Servers
      BY <1>1 DEF StateOK
    <3> QED BY <1>7, <3>1, <3>2 DEF ReceiveLeave
  <2> QED BY <1>1, <2>1, HandleLeaveTyped
<1>8. ASSUME NEW m \in Sent("LEAVE_ACK"), HandleLeaveAck(s, m)
      PROVE  FailoverTypeOK'
  <2>1. members' \in [Servers -> Memberships]
    BY <1>1, <1>8, NotedTyped DEF HandleLeaveAck
  <2>2. messages' \subseteq messages /\ leave_acknowledged' \in [Servers -> BOOLEAN]
    <3>1. messages' \subseteq messages
      BY <1>8, Transmitted DEF HandleLeaveAck, Reply
    <3>2. leave_acknowledged' = [leave_acknowledged EXCEPT ![s] = TRUE]
      BY <1>8 DEF HandleLeaveAck
    <3> QED BY <3>1, <3>2 DEF FailoverTypeOK
  <2>3. UNCHANGED <<alive, stateVars, threadVars, eventVars, due, elections, lockVars, leaving,
                    faults>>
    BY <1>8 DEF HandleLeaveAck
  <2>4. StateOK'
    BY <1>1, <2>1, <2>3, MembershipTyped
  <2> QED BY <2>2, <2>3, <2>4, FailoverTyped DEF FailoverTypeOK, lockVars
<1> QED BY <1>2, <1>3, <1>4, <1>5, <1>6, <1>7, <1>8 DEF StopStep

\* A process comes back with an empty state.
LEMMA ReturnTyped ==
    ASSUME FailoverTypeOK, NEW s \in Servers, Return(s)
    PROVE  FailoverTypeOK'
<1>1. <<>> \in Logs
  <2>1. 0 \in Versions /\ <<>> \in [1 .. 0 -> Requests]
    BY ElectionAssumption DEF Versions
  <2> QED BY <2>1 DEF Logs
<1>2. [p \in Servers |-> "NONE"] \in Memberships
  BY DEF Memberships
<1>3. floor' \in [Servers -> Reports]
  <2>1. ASSUME NEW p \in Servers
        PROVE  [q \in DOMAIN floor[p] \ {s} |-> floor[p][q]] \in Reports
    <3>1. /\ DOMAIN floor[p] \in SUBSET Servers
          /\ \A q \in DOMAIN floor[p] : floor[p][q] \in Versions
      <4>1. floor[p] \in Reports
        BY DEF FailoverTypeOK, StateOK
      <4> QED BY <4>1 DEF Reports
    <3>2. /\ DOMAIN floor[p] \ {s} \in SUBSET Servers
          /\ [q \in DOMAIN floor[p] \ {s} |-> floor[p][q]]
                \in [DOMAIN floor[p] \ {s} -> Versions]
      BY <3>1
    <3> QED BY <3>2 DEF Reports
  <2> QED BY <2>1 DEF Return
<1>4. StateOK'
  BY <1>1, <1>2, <1>3 DEF FailoverTypeOK, StateOK, Return, Leaders, eventVars
<1>5. messages' \ messages \subseteq AllMessages
  <2>1. \A m \in messages : m.type = "REPLICATION_ACK" =>
           [m EXCEPT !.stale = TRUE] \in ReplicationAcks
    <3>1. \A m \in messages : m.type = "REPLICATION_ACK" => m \in ReplicationAcks
      BY FailoverReceived DEF Sent
    <3>2. \A m \in ReplicationAcks : [m EXCEPT !.stale = TRUE] \in ReplicationAcks
      BY DEF ReplicationAcks
    <3> QED BY <3>1, <3>2
  <2> QED BY <2>1 DEF Return, Inherited, AllMessages
<1>6. UNCHANGED <<lockVars, stopVars>>
  BY DEF Return
<1> QED BY <1>4, <1>5, <1>6, LocksKept

\* Each step of the system.
LEMMA StepFailover == ASSUME FailoverInv, FailoverNext PROVE FailoverInv'
<1>1. FailoverTypeOK /\ StateOK /\ OwnReport /\ alive \subseteq Servers
  BY DEF FailoverInv, FailoverTypeOK, StateOK
<1>2. ASSUME NEW s \in alive, ElectionNext(s)
      PROVE  FailoverInv'
  BY <1>2, ElectionNextTyped
<1>3. ASSUME NEW s \in alive, \E m \in Sent("SNAPSHOT") : ReceiveSnapshot(s, m)
      PROVE  FailoverInv'
  <2>1. OwnReport'
    BY <1>1, <1>3, ReceiveOwnReport DEF ReceiveSnapshot
  <2> QED BY <1>1, <1>3, <2>1, MemberStepTyped DEF MemberStep, FailoverInv
<1>4. CASE UNCHANGED <<phase, summaries>> /\ FailoverTypeOK'
  BY <1>1, <1>4 DEF FailoverInv, OwnReport
<1>5. ASSUME NEW s \in alive, MemberStep(s)
      PROVE  FailoverInv'
  <2>1. \/ UNCHANGED threadVars
        \/ \E m \in Sent("SNAPSHOT") : ReceiveSnapshot(s, m)
    BY <1>5 DEF MemberStep, CheckStartup, HandleServerHello, SyncBegin, SyncRefused, ResendSnapshot,
                RemoveMember, SyncFinish, SyncFailed, Reopen, EndSync, Sync, HandleMembership,
                serverUnchanged
  <2> QED BY <1>1, <1>3, <1>4, <1>5, <2>1, MemberStepTyped DEF threadVars
<1>6. ASSUME NEW s \in alive, RequestStep(s)
      PROVE  FailoverInv'
  <2>1. UNCHANGED threadVars
    BY <1>6 DEF RequestStep, AcceptRequest, DropInactive, Resend, Replicated, Interrupted,
                ReplicationTimeout, EndRequest, HandleReplication, HandleReplicationAck,
                serverUnchanged
  <2> QED BY <1>1, <1>4, <1>6, <2>1, RequestStepTyped DEF threadVars
<1>7. ASSUME NEW s \in Servers, End(s), FailoverTypeOK'
      PROVE  FailoverInv'
  BY <1>1, <1>7, ThreadOwnReport DEF End, FailoverInv
<1>8. ASSUME NEW s \in alive, StopStep(s)
      PROVE  FailoverInv'
  <2>1. FailoverTypeOK'
    BY <1>1, <1>8, StopStepTyped
  <2>2. UNCHANGED threadVars \/ End(s)
    BY <1>8 DEF StopStep, StopBegin, StopLeading, AskToLeave, StopCompleted, StopDelayed, Leave,
                ReceiveLeave, HandleLeave, HandleLeaveAck
  <2> QED BY <1>1, <1>4, <1>7, <2>1, <2>2 DEF threadVars
<1>9. ASSUME NEW s \in alive, Fail(s)
      PROVE  FailoverInv'
  <2>1. faults' \in 0 .. MaxFaults
    BY <1>9, FailoverAssumption DEF FailoverInv, FailoverTypeOK, Fail, Fault
  <2> QED BY <1>1, <1>7, <1>9, <2>1, EndTyped DEF Fail
<1>10. ASSUME NEW s \in Servers, Return(s)
       PROVE  FailoverInv'
  BY <1>1, <1>4, <1>10, ReturnTyped DEF Return
<1>11. ASSUME NEW m \in messages, Lose(m)
       PROVE  FailoverInv'
  <2>1. /\ UNCHANGED <<alive, stateVars, members, threadVars, eventVars, due, elections>>
        /\ UNCHANGED <<lockVars, stopVars>>
        /\ messages' \subseteq messages
    BY <1>11 DEF Lose, serverUnchanged
  <2>2. StateOK'
    BY <1>1, <2>1, QuietTyped DEF StateOK
  <2> QED BY <1>1, <1>4, <2>1, <2>2, LocksKept DEF threadVars
<1> QED BY <1>2, <1>5, <1>6, <1>8, <1>9, <1>10, <1>11 DEF FailoverNext

\* Every reachable state of a cluster that starts, elects, replicates, crashes,
\* returns and leaves is of the declared types: an accepted request always fits in
\* the log, and a holder of commit_lock is in one operation with all it needs.
THEOREM FailoverTypeCorrect == FailoverSpec => []FailoverTypeOK
<1>1. FailoverInv /\ UNCHANGED allVars => FailoverInv'
  BY DEF FailoverInv, FailoverTypeOK, StateOK, OwnReport, allVars, vars, stateVars, threadVars,
         eventVars, lockVars, stopVars
<1>2. FailoverInv => FailoverTypeOK
  BY DEF FailoverInv
<1> QED BY InitFailover, StepFailover, <1>1, <1>2, PTL DEF FailoverSpec

--------------------------------------------------------------------------------
(* Versions *)

\* A request that is appended makes the version one higher.
LEMMA AppendForward ==
    ASSUME StateOK, NEW s \in Servers, NEW r \in Requests,
           log' = [log EXCEPT ![s] = Append(@, r)]
    PROVE  NeverFall
<1>1. \A p \in Servers : log[p] \in Seq(Requests) /\ Len(log[p]) \in Nat
  BY LogLength, ElectionAssumption DEF StateOK, Versions
<1>2. log'[s] = Append(log[s], r) /\ \A p \in Servers \ {s} : log'[p] = log[p]
  BY DEF StateOK
<1>3. Len(log'[s]) = Len(log[s]) + 1
  BY <1>1, <1>2, AppendProperties
<1> QED BY <1>1, <1>2, <1>3 DEF NeverFall, version

\* The steps of the election thread change no state.
LEMMA ElectionLog == ASSUME NEW s, ElectionStep(s) PROVE UNCHANGED log
  BY DEF ElectionStep, ThreadStep, AskSummaries, TakeLead, CallHigher, OkArrived, OkTimeout,
         CoordinatorArrived, CoordinatorTimeout, GiveUp, SummariesComplete, SummaryTimeout,
         SnapshotArrived, SnapshotTimeout, Outdated, PushSnapshot, BecomePrimary, Finish, stateVars,
         threadOnly

\* Nor does a datagram of the election other than a snapshot.
LEMMA CallLog == ASSUME NEW s, ReceiveCall(s) PROVE UNCHANGED log
  BY DEF ReceiveCall, HandleElection, HandleElectionOk, HandleSummaryRequest, HandleSummary,
         HandleSnapshotRequest, RejectCoordinator, HandleLeader, HandleConflict, IgnoreLeader,
         Follow, stateVars

\* Of the steps of a running server only an operation, which appends, and a snapshot
\* that is not older change its state.
LEMMA StepForward ==
    ASSUME FailoverInv, NEW s \in alive,
           ElectionNext(s) \/ MemberStep(s) \/ RequestStep(s) \/ StopStep(s) \/ Fail(s)
    PROVE  NeverFall
<1>1. FailoverTypeOK /\ StateOK /\ Received /\ s \in Servers
  BY FailoverReceived DEF FailoverInv, FailoverTypeOK, StateOK
<1>2. CASE UNCHANGED log
  <2>1. \A p \in Servers : version(p) \in Nat
    BY <1>1, VersionTyped, ElectionAssumption DEF Versions
  <2> QED BY <1>2, <2>1 DEF NeverFall, version
<1>3. CASE \E m \in Sent("SNAPSHOT") : ReceiveSnapshot(s, m)
  <2>1. \E m \in Sent("SNAPSHOT") : HandleSnapshot(s, m)
    BY <1>3 DEF ReceiveSnapshot
  <2> QED BY <1>1, <2>1, VersionsKept
<1>4. CASE \E r \in Requests : AcceptRequest(s, r)
  BY <1>1, <1>4, AppendForward DEF AcceptRequest
<1>5. ASSUME NEW m \in Sent("REPLICATION"), HandleReplication(s, m)
      PROVE  NeverFall
  <2>1. UNCHANGED log \/ log' = [log EXCEPT ![s] = Append(@, m.request)]
    BY <1>5 DEF HandleReplication
  <2>2. m.request \in Requests
    BY <1>1, FailoverReceived DEF Replications
  <2> QED BY <1>1, <1>2, <2>1, <2>2, AppendForward
<1>6. CASE ElectionNext(s)
  <2>1. CASE \/ StartElection(s) \/ IgnoreDue(s) \/ SendHeartbeat(s)
             \/ \E p \in Servers : RequestSummary(s, p)
    BY <1>2, <2>1 DEF StartElection, IgnoreDue, RequestSummary, SendHeartbeat, stateVars
  <2>2. CASE ElectionStep(s)
    BY <1>2, <2>2, ElectionLog
  <2>3. CASE ReceiveCall(s)
    BY <1>2, <2>3, CallLog
  <2> QED BY <1>6, <2>1, <2>2, <2>3 DEF ElectionNext
<1>7. CASE MemberStep(s)
  <2>1. UNCHANGED log \/ \E m \in Sent("SNAPSHOT") : ReceiveSnapshot(s, m)
    BY <1>7 DEF MemberStep, CheckStartup, HandleServerHello, SyncBegin, SyncRefused, ResendSnapshot,
                RemoveMember, SyncFinish, SyncFailed, Reopen, EndSync, Sync, HandleMembership,
                stateVars
  <2> QED BY <1>2, <1>3, <2>1
<1>8. CASE RequestStep(s)
  <2>1. \/ UNCHANGED log
        \/ \E r \in Requests : AcceptRequest(s, r)
        \/ \E m \in Sent("REPLICATION") : HandleReplication(s, m)
    BY <1>8 DEF RequestStep, DropInactive, Resend, Replicated, Interrupted, ReplicationTimeout,
                EndRequest, HandleReplicationAck, stateVars
  <2> QED BY <1>2, <1>4, <1>5, <2>1
<1>9. CASE StopStep(s) \/ Fail(s)
  <2>1. UNCHANGED log
    BY <1>9 DEF StopStep, StopBegin, StopLeading, AskToLeave, StopCompleted, StopDelayed, Leave,
                ReceiveLeave, HandleLeave, HandleLeaveAck, Fail, End, Halt, stateVars
  <2> QED BY <1>2, <2>1
<1> QED BY <1>6, <1>7, <1>8, <1>9

\* Whichever leaders and lives its snapshots and operations come from, reliable or
\* not, a server that keeps running never goes back to an older version
\* (handle_snapshot_chunk, handle_replication).
THEOREM NeverBack == FailoverSpec => VersionsForward
<1>1. ASSUME FailoverInv, [FailoverNext]_allVars
      PROVE  [\A s \in alive \cap alive' : version(s)' >= version(s)]_allVars
  <2>1. StateOK /\ alive \subseteq Servers
    BY <1>1 DEF FailoverInv, FailoverTypeOK, StateOK
  <2>2. \A s \in Servers : version(s) \in Nat
    BY <2>1, VersionTyped, ElectionAssumption DEF Versions
  <2>3. CASE UNCHANGED allVars
    BY <2>3
  <2>4. ASSUME NEW q \in alive,
               \/ ElectionNext(q) \/ MemberStep(q) \/ RequestStep(q) \/ StopStep(q) \/ Fail(q)
        PROVE  \A s \in alive \cap alive' : version(s)' >= version(s)
    BY <1>1, <2>1, <2>4, StepForward DEF NeverFall
  <2>5. ASSUME NEW q \in Servers, q \notin alive, log' = [log EXCEPT ![q] = <<>>]
        PROVE  \A s \in alive \cap alive' : version(s)' >= version(s)
    <3>1. \A s \in alive : version(s)' = version(s)
      BY <2>1, <2>5 DEF StateOK, version
    <3> QED BY <2>1, <2>2, <3>1
  <2>6. ASSUME UNCHANGED log
        PROVE  \A s \in alive \cap alive' : version(s)' >= version(s)
    <3>1. \A s \in alive : version(s)' = version(s)
      BY <2>6 DEF version
    <3> QED BY <2>1, <2>2, <3>1
  <2>7. \A m \in messages : Lose(m) => UNCHANGED log
    BY DEF Lose, stateVars
  <2>8. \A q \in Servers : Return(q) => q \notin alive /\ log' = [log EXCEPT ![q] = <<>>]
    BY DEF Return
  <2> QED BY <1>1, <2>3, <2>4, <2>5, <2>6, <2>7, <2>8 DEF FailoverNext
<1>2. FailoverInv /\ UNCHANGED allVars => FailoverInv'
  BY DEF FailoverInv, FailoverTypeOK, StateOK, OwnReport, allVars, vars, stateVars, threadVars,
         eventVars, lockVars, stopVars
<1> QED BY InitFailover, StepFailover, <1>1, <1>2, PTL DEF FailoverSpec, VersionsForward

================================================================================
