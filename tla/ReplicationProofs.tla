--------------------------- MODULE ReplicationProofs ---------------------------
(***************************************************************************)
(* Proofs about Replication, for every value of its constants.             *)
(***************************************************************************)
EXTENDS Replication, SequenceTheorems, TLAPS

USE DEF Servers

--------------------------------------------------------------------------------
(* Typing *)

\* A message is of the kind its type says.
LEMMA MessageKinds ==
    ASSUME messages \subseteq Messages
    PROVE  /\ Sent("CLIENT_REQUEST") \subseteq Requests
           /\ Sent("CLIENT_ACK") \subseteq ClientAcks
           /\ Sent("REPLICATION") \subseteq Replications
           /\ Sent("REPLICATION_ACK") \subseteq ReplicationAcks
           /\ Sent("SNAPSHOT") \subseteq Snapshots
           /\ Sent("SNAPSHOT_ACK") \subseteq SnapshotAcks
           /\ Sent("SNAPSHOT_REQUEST") \subseteq Notices
           /\ Sent("SERVER_HELLO") \subseteq Notices
           /\ Sent("ELECTION") \subseteq Elections
           /\ Sent("HEARTBEAT") \subseteq Heartbeats
BY DEF Sent, Messages, Requests, ClientAcks, Replications, ReplicationAcks, Snapshots,
       SnapshotAcks, Notices, Elections, Heartbeats

\* The empty state of a server that starts (ReplicatedState()) is a state.
LEMMA EmptyStateTyped == EmptyState \in State
BY MaxUint64Assumption
   DEF EmptyState, State, EmptyClient, ClientState, Uint64

\* apply_request, when it accepts, keeps every counter within 64 bits.
LEMMA ApplyTyped ==
    ASSUME NEW st \in State, NEW c \in Clients, NEW r \in Uint64, NEW v \in Values,
           ~Overflows(st, v)
    PROVE  ApplyRequest(st, c, r, v) \in State
BY MaxUint64Assumption, ConstantsAssumption
   DEF Overflows, ApplyRequest, State, ClientState, Uint64

\* apply_replication and install_snapshot leave a state.
LEMMA ReplicaTyped ==
    ASSUME NEW st \in State, NEW op \in Replications, NEW snapshot \in State
    PROVE  /\ ApplyReplication(st, op) \in State
           /\ InstallSnapshot(st, snapshot) \in State
<1>1. ApplyReplication(st, op) \in State
  BY ApplyTyped DEF ApplyReplication, ReplicationOutcome, Accepts, Replications
<1>2. InstallSnapshot(st, snapshot) \in State
  BY DEF InstallSnapshot
<1> QED BY <1>1, <1>2

\* What is recorded of a client are three numbers.
LEMMA RecordTyped ==
    ASSUME NEW client \in ClientState
    PROVE  /\ client.last_req \in Nat
           /\ client.last_num_reqs \in Nat
           /\ client.last_total_sum \in Nat
<1>1. Uint64 \subseteq Nat
  BY MaxUint64Assumption DEF Uint64
<1> QED BY <1>1 DEF ClientState

\* reply_client: an answer with natural totals is a message.
LEMMA ClientAckTyped ==
    ASSUME NEW c \in Clients, NEW r \in Nat, NEW n \in Nat, NEW total \in Nat,
           NEW dup \in BOOLEAN
    PROVE  ClientAck(c, r, n, total, dup) \in Messages
BY DEF ClientAck, ClientAcks, Messages

--------------------------------------------------------------------------------
(* The type invariant, one step per action *)

LEMMA InitTyped == Init => TypeOK
<1> SUFFICES ASSUME Init PROVE TypeOK
  OBVIOUS
<1>1. messages \subseteq Messages
  BY DEF Init, Messages, Notices, Heartbeats
<1>2. state \in [Servers -> State]
  BY EmptyStateTyped DEF Init
<1>3. log \in Seq(LogEntries)
  BY DEF Init
<1>4. /\ role \in [Servers -> {"JOINING", "BACKUP", "CANDIDATE", "PRIMARY"}]
      /\ term \in [Servers -> Nat]
      /\ leader_id \in [Servers -> {Leader, None}]
      /\ incarnation \in [Servers -> Nat \ {0}]
  BY DEF Init
<1>5. nextReq \in [Clients -> Nat]
  BY ConstantsAssumption DEF Init
<1>6. /\ members \in [Backups -> {"NONE", "JOINING", "ACTIVE"}]
      /\ admitted \in [Backups -> Nat]
      /\ sync \in [Backups -> {"idle", "queued", "sending", "acknowledged", "ending"}]
      /\ transfer \in [Backups -> Nat] /\ transfers \in Nat
  BY DEF Init
<1>7. /\ pc \in [Threads -> {"idle", "committing", "replicating"}]
      /\ job \in [Threads -> Jobs \cup {None}]
      /\ \A t \in Threads : pc[t] # "idle" => job[t] # None
      /\ operation \in Replications \cup {None}
      /\ pending \subseteq Backups
  BY DEF Init
<1>8. /\ transitioning \in BOOLEAN /\ electionDue \in BOOLEAN
      /\ commit_lock \in Threads \cup Backups \cup {None}
  BY DEF Init
<1> QED BY <1>1, <1>2, <1>3, <1>4, <1>5, <1>6, <1>7, <1>8 DEF TypeOK

LEMMA StepTyped == TypeOK /\ [Next]_vars => TypeOK'
<1> SUFFICES ASSUME TypeOK, [Next]_vars PROVE TypeOK'
  OBVIOUS
<1> USE DEF serverVars, syncVars, memberVars, threadVars, backupUnchanged
<1>k. messages \subseteq Messages
  BY DEF TypeOK
<1>1. ASSUME NEW c \in Clients, SendRequest(c) PROVE TypeOK'
  <2>1. ASSUME NEW v \in Values PROVE Request(c, nextReq[c], v) \in Messages
    BY DEF Request, Messages, Requests, TypeOK
  <2>2. messages' \subseteq Messages
    BY <1>1, <1>k, <2>1 DEF SendRequest, Send
  <2> QED BY <1>1, <2>2 DEF SendRequest, TypeOK
<1>2. ASSUME NEW c \in Clients, ReceiveAck(c) PROVE TypeOK'
  BY <1>2 DEF ReceiveAck, TypeOK
<1>3. ASSUME NEW t \in Threads, ThreadStep(t) PROVE TypeOK'
  <2>1. ASSUME NEW m \in Sent("CLIENT_REQUEST"), Dispatch(t, m) PROVE TypeOK'
    BY <2>1, ConstantsAssumption DEF Dispatch, TypeOK
  <2>2. ASSUME LeaveCommit(t), messages' \subseteq Messages, electionDue' \in BOOLEAN
        PROVE  TypeOK'
    BY <2>2 DEF LeaveCommit, TypeOK
  <2>3. CASE CommitNotPrimary(t)
    BY <2>2, <2>3 DEF CommitNotPrimary, TypeOK
  <2>4. CASE CommitDuplicate(t)
    <3>1. job[t] \in Requests
      BY <2>4 DEF CommitDuplicate, EnterCommit, TypeOK, Jobs
    <3>2. state[Leader].clients[job[t].client] \in ClientState
      BY <3>1 DEF TypeOK, State, Requests
    <3> DEFINE client == state[Leader].clients[job[t].client]
    <3>c. /\ client.last_req \in Nat /\ client.last_num_reqs \in Nat
          /\ client.last_total_sum \in Nat /\ job[t].client \in Clients
      BY <3>1, <3>2, RecordTyped DEF Requests
    <3>d. ClientAck(job[t].client, client.last_req, client.last_num_reqs,
                    client.last_total_sum, TRUE) \in Messages
      BY <3>c, ClientAckTyped
    <3>3. messages' \subseteq Messages
      BY <1>k, <2>4, <3>d DEF CommitDuplicate, Send
    <3> QED BY <2>2, <2>4, <3>3 DEF CommitDuplicate, TypeOK
  <2>5. CASE CommitFuture(t)
    BY <2>2, <2>5 DEF CommitFuture, TypeOK
  <2>6. CASE CommitOverflow(t)
    BY <2>2, <2>6 DEF CommitOverflow, TypeOK
  <2>7. CASE CommitNew(t)
    <3> DEFINE st == state[Leader]
               next == ApplyRequest(st, job[t].client, job[t].req, job[t].value)
    <3>1. st \in State /\ job[t] \in Jobs
      BY <2>7 DEF CommitNew, EnterCommit, TypeOK
    <3>2. /\ job[t].client \in Clients /\ job[t].req \in Uint64 /\ job[t].value \in Values
          /\ job[t].req \in Nat
      BY <3>1 DEF Jobs, Requests
    <3>3. next \in State
      BY <2>7, <3>1, <3>2, ApplyTyped DEF CommitNew, Accepts
    <3>4. next.state_version \in Nat
      BY <3>3 DEF State
    <3>5. operation' \in Replications
      BY <2>7, <3>2, <3>4 DEF CommitNew, Replications, TypeOK, ActiveMembers
    <3>6. messages' \subseteq Messages
      BY <1>k, <2>7, <3>5 DEF CommitNew, Send, Messages
    <3>7. log' \in Seq(LogEntries)
      <4>1. [client |-> job[t].client, req |-> job[t].req,
             value |-> job[t].value, state |-> next] \in LogEntries
        BY <3>2, <3>3 DEF LogEntries
      <4> QED BY <2>7, <4>1 DEF CommitNew, TypeOK
    <3>8. state' \in [Servers -> State]
      BY <2>7, <3>3 DEF CommitNew, TypeOK
    <3>9. /\ pc' \in [Threads -> {"idle", "committing", "replicating"}]
          /\ \A u \in Threads : pc'[u] # "idle" => job'[u] # None
          /\ pending' \subseteq Backups
      BY <2>7 DEF CommitNew, EnterCommit, TypeOK, ActiveMembers
    <3> QED BY <2>7, <3>5, <3>6, <3>7, <3>8, <3>9 DEF CommitNew, TypeOK
  <2>8. ASSUME EndReplication(t), messages' \subseteq Messages, electionDue' \in BOOLEAN
        PROVE  TypeOK'
    BY <2>8 DEF EndReplication, TypeOK
  <2>9. CASE Interrupted(t)
    BY <2>8, <2>9 DEF Interrupted, TypeOK
  <2>10. CASE ReplicationTimeout(t)
    BY <2>8, <2>10 DEF ReplicationTimeout, TypeOK
  <2>11. CASE Replicated(t)
    <3>1. job[t] \in Requests /\ state[Leader] \in State
      BY <2>11 DEF Replicated, EndReplication, TypeOK, Jobs
    <3>a. /\ state[Leader].num_reqs \in Nat /\ state[Leader].total_sum \in Nat
          /\ job[t].client \in Clients /\ job[t].req \in Nat
      BY <3>1, MaxUint64Assumption DEF State, Uint64, Requests
    <3>b. ClientAck(job[t].client, job[t].req, state[Leader].num_reqs,
                    state[Leader].total_sum, FALSE) \in Messages
      BY <3>a, ClientAckTyped
    <3>2. messages' \subseteq Messages
      BY <1>k, <2>11, <3>b DEF Replicated, Send
    <3> QED BY <2>8, <2>11, <3>2 DEF Replicated, TypeOK
  <2> QED BY <1>3, <2>1, <2>3, <2>4, <2>5, <2>6, <2>7, <2>9, <2>10, <2>11 DEF ThreadStep
<1>s. ASSUME NEW s \in Backups, NEW id \in Nat PROVE Snapshot(s, id) \in Messages
  BY DEF Snapshot, Messages, Snapshots, TypeOK
<1>4. ASSUME NEW s \in Backups, SyncStep(s) PROVE TypeOK'
  <2>1. CASE SyncBegin(s)
    <3>1. messages' \subseteq Messages
      BY <1>k, <1>s, <2>1 DEF SyncBegin, Send, TypeOK
    <3>2. transfer' \in [Backups -> Nat] /\ transfers' \in Nat
      BY <2>1 DEF SyncBegin, TypeOK
    <3> QED BY <2>1, <3>1, <3>2 DEF SyncBegin, TypeOK
  <2>2. CASE SyncRefused(s)
    BY <2>2 DEF SyncRefused, TypeOK
  <2>3. CASE Resend(s)
    BY <1>k, <1>s, <2>3 DEF Resend, Send, TypeOK
  <2>4. CASE SyncFinish(s)
    BY <2>4 DEF SyncFinish, TypeOK
  <2>5. CASE SyncFailed(s)
    BY <2>5 DEF SyncFailed, TypeOK
  <2>6. CASE SyncEnd(s)
    BY <2>6 DEF SyncEnd, TypeOK
  <2> QED BY <1>4, <2>1, <2>2, <2>3, <2>4, <2>5, <2>6 DEF SyncStep
<1>5. CASE LeaderStep
  <2>1. ASSUME NEW s \in Backups, DropInactive(s) PROVE TypeOK'
    BY <2>1 DEF DropInactive, TypeOK
  <2>2. ASSUME NEW s \in Backups, RemoveMember(s) PROVE TypeOK'
    BY <2>2 DEF RemoveMember, TypeOK
  <2>3. ASSUME NEW m \in Sent("REPLICATION_ACK"), HandleReplicationAck(m) PROVE TypeOK'
    BY <2>3 DEF HandleReplicationAck, TypeOK
  <2>4. ASSUME NEW m \in Sent("SERVER_HELLO"), HandleServerHello(m) PROVE TypeOK'
    BY <2>4 DEF HandleServerHello, NoteServer, TypeOK
  <2>5. ASSUME NEW m \in Sent("SNAPSHOT_ACK"), HandleSnapshotAck(m) PROVE TypeOK'
    <3>1. m.incarnation \in Nat
      BY <1>k, MessageKinds DEF SnapshotAcks
    <3>2. admitted' \in [Backups -> Nat] /\ transfer' \in [Backups -> Nat]
      <4>1. CASE sync[m.from] = "sending" /\ transfer[m.from] = m.transfer
        <5>1. /\ admitted' = [admitted EXCEPT ![m.from] = m.incarnation]
              /\ transfer' = [transfer EXCEPT ![m.from] = 0]
          BY <2>5, <4>1 DEF HandleSnapshotAck
        <5> QED BY <3>1, <5>1 DEF TypeOK
      <4>2. CASE ~(sync[m.from] = "sending" /\ transfer[m.from] = m.transfer)
        BY <2>5, <4>2 DEF HandleSnapshotAck, TypeOK
      <4> QED BY <4>1, <4>2
    <3>3. sync' \in [Backups -> {"idle", "queued", "sending", "acknowledged", "ending"}]
      <4>1. CASE sync[m.from] = "sending" /\ transfer[m.from] = m.transfer
        <5>1. sync' = [sync EXCEPT ![m.from] = "acknowledged"]
          BY <2>5, <4>1 DEF HandleSnapshotAck
        <5> QED BY <5>1 DEF TypeOK
      <4>2. CASE ~(sync[m.from] = "sending" /\ transfer[m.from] = m.transfer)
        BY <2>5, <4>2 DEF HandleSnapshotAck, TypeOK
      <4> QED BY <4>1, <4>2
    <3>4. members' \in [Backups -> {"NONE", "JOINING", "ACTIVE"}]
      BY <2>5 DEF HandleSnapshotAck, NoteServer, TypeOK
    <3> QED BY <2>5, <3>2, <3>3, <3>4 DEF HandleSnapshotAck, TypeOK
  <2>6. ASSUME NEW m \in Sent("SNAPSHOT_REQUEST"), HandleSnapshotRequest(m) PROVE TypeOK'
    <3>1. m.from \in Backups
      BY <1>k, MessageKinds DEF Notices
    <3>2. members' \in [Backups -> {"NONE", "JOINING", "ACTIVE"}]
      BY <2>6 DEF HandleSnapshotRequest, NoteServer, TypeOK
    <3>3. messages' \subseteq Messages
      BY <1>k, <1>s, <2>6, <3>1 DEF HandleSnapshotRequest, Send, TypeOK
    <3> QED BY <2>6, <3>2, <3>3 DEF HandleSnapshotRequest, TypeOK
  <2>7. ASSUME NEW m \in Sent("ELECTION"), HandleElection(m) PROVE TypeOK'
    <3>1. m.term \in Nat
      BY <1>k, MessageKinds DEF Elections
    <3> QED BY <2>7, <3>1 DEF HandleElection, NoteServer, TypeOK
  <2>8. CASE LeaderStartElection
    <3>1. term' \in [Servers -> Nat]
      BY <2>8 DEF LeaderStartElection, TypeOK
    <3>2. role' \in [Servers -> {"JOINING", "BACKUP", "CANDIDATE", "PRIMARY"}]
      BY <2>8 DEF LeaderStartElection, TypeOK
    <3> QED BY <2>8, <3>1, <3>2 DEF LeaderStartElection, TypeOK
  <2>9. CASE SendHeartbeat
    <3>1. [type |-> "HEARTBEAT", term |-> term[Leader]] \in Messages
      BY DEF Messages, Heartbeats, TypeOK
    <3> QED BY <1>k, <2>9, <3>1 DEF SendHeartbeat, Send, TypeOK
  <2> QED BY <1>5, <2>1, <2>2, <2>3, <2>4, <2>5, <2>6, <2>7, <2>8, <2>9 DEF LeaderStep
<1>6. ASSUME NEW s \in Backups, BackupStep(s) PROVE TypeOK'
  <2>1. ASSUME NEW m \in Sent("HEARTBEAT"), HandleHeartbeat(s, m) PROVE TypeOK'
    <3>1. m.term \in Nat
      BY <1>k, MessageKinds DEF Heartbeats
    <3> QED BY <2>1, <3>1 DEF HandleHeartbeat, TypeOK
  <2>2. ASSUME NEW m \in Sent("REPLICATION"), HandleReplication(s, m) PROVE TypeOK'
    <3>1. m \in Replications /\ state[s] \in State
      BY <1>k, MessageKinds DEF TypeOK
    <3>2. ApplyReplication(state[s], m) \in State
      BY <3>1, ReplicaTyped
    <3>3. state' \in [Servers -> State]
      BY <2>2, <3>2 DEF HandleReplication, TypeOK
    <3>4. [type |-> "SNAPSHOT_REQUEST", from |-> s] \in Messages
      BY DEF Messages, Notices
    <3>5. [type |-> "REPLICATION_ACK", from |-> s,
           version |-> state'[s].state_version, term |-> term[s]] \in Messages
      BY <3>3 DEF Messages, ReplicationAcks, TypeOK, State
    <3> QED BY <1>k, <2>2, <3>3, <3>4, <3>5 DEF HandleReplication, Send, TypeOK
  <2>3. ASSUME NEW m \in Sent("SNAPSHOT"), HandleSnapshot(s, m) PROVE TypeOK'
    <3>1. m \in Snapshots /\ state[s] \in State /\ m.state \in State
      BY <1>k, MessageKinds DEF TypeOK, Snapshots
    <3>2. InstallSnapshot(state[s], m.state) \in State
      BY <3>1 DEF InstallSnapshot
    <3>3. state' \in [Servers -> State]
      BY <2>3, <3>2 DEF HandleSnapshot, TypeOK
    <3>4. [type |-> "SNAPSHOT_ACK", from |-> s, transfer |-> m.transfer,
           incarnation |-> incarnation[s]] \in Messages
      BY <3>1 DEF Messages, SnapshotAcks, Snapshots, TypeOK
    <3>5. messages' \subseteq Messages
      BY <1>k, <2>3, <3>4 DEF HandleSnapshot, Send
    <3>6. /\ term' \in [Servers -> Nat]
          /\ leader_id' \in [Servers -> {Leader, None}]
      <4>1. CASE RefusesSnapshot(state[s], m.state)
        BY <2>3, <4>1 DEF HandleSnapshot, TypeOK
      <4>2. CASE ~RefusesSnapshot(state[s], m.state)
        <5>1. /\ term' = [term EXCEPT ![s] = IF m.term > @ THEN m.term ELSE @]
              /\ leader_id' = [leader_id EXCEPT ![s] = Leader]
          BY <2>3, <4>2 DEF HandleSnapshot
        <5> QED BY <3>1, <5>1 DEF Snapshots, TypeOK
      <4> QED BY <4>1, <4>2
    <3>7. role' \in [Servers -> {"JOINING", "BACKUP", "CANDIDATE", "PRIMARY"}]
      <4>1. \/ role' = role
            \/ role' = [role EXCEPT ![s] = IF @ = "CANDIDATE" THEN @ ELSE "BACKUP"]
        BY <2>3 DEF HandleSnapshot
      <4> QED BY <4>1 DEF TypeOK
    <3> QED BY <2>3, <3>3, <3>5, <3>6, <3>7 DEF HandleSnapshot, TypeOK
  <2>4. CASE BackupStartElection(s)
    <3>1. term' \in [Servers -> Nat]
      BY <2>4 DEF BackupStartElection, TypeOK
    <3>2. [type |-> "ELECTION", from |-> s, term |-> term'[s]] \in Messages
      BY <3>1 DEF Messages, Elections
    <3> QED BY <1>k, <2>4, <3>1, <3>2 DEF BackupStartElection, Send, TypeOK
  <2>5. CASE Restart(s)
    BY <2>5, EmptyStateTyped DEF Restart, TypeOK
  <2> QED BY <1>6, <2>1, <2>2, <2>3, <2>4, <2>5 DEF BackupStep
<1>7. CASE UNCHANGED vars
  BY <1>7 DEF vars, TypeOK
<1> QED BY <1>1, <1>2, <1>3, <1>4, <1>5, <1>6, <1>7 DEF Next, ClientStep

\* Every variable keeps its type whatever the constants are; in particular no
\* counter of any replica leaves the 64-bit range (apply_request).
THEOREM TypeCorrect == Spec => []TypeOK
<1> QED BY InitTyped, StepTyped, PTL DEF Spec

--------------------------------------------------------------------------------
(* commit_lock: one holder, a thread that replicates or a synchronisation  *)

LockInv ==
    /\ \A t \in Threads : pc[t] = "replicating" => commit_lock = t
    /\ \A s \in Backups : sync[s] \in {"sending", "acknowledged"} => commit_lock = s

LEMMA InitLock == Init => LockInv
BY DEF Init, LockInv

LEMMA StepLock == TypeOK /\ LockInv /\ [Next]_vars => LockInv'
<1> SUFFICES ASSUME TypeOK, LockInv, [Next]_vars PROVE LockInv'
  OBVIOUS
<1> USE DEF serverVars, syncVars, memberVars, threadVars, backupUnchanged
\* Steps that leave the lock and its holders alone.
<1>u. ASSUME UNCHANGED <<pc, sync, commit_lock>> PROVE LockInv'
  BY <1>u DEF LockInv
<1>1. ASSUME NEW c \in Clients, SendRequest(c) \/ ReceiveAck(c) PROVE LockInv'
  BY <1>1, <1>u DEF SendRequest, ReceiveAck
<1>2. ASSUME NEW t \in Threads, ThreadStep(t) PROVE LockInv'
  \* The thread moves outside the replication; the lock stays.
  <2>1. ASSUME NEW phase, phase # "replicating", pc' = [pc EXCEPT ![t] = phase],
               UNCHANGED <<sync, commit_lock>>
        PROVE  LockInv'
    BY <2>1 DEF LockInv, TypeOK
  <2>2. ASSUME LeaveCommit(t) PROVE LockInv'
    BY <2>1, <2>2 DEF LeaveCommit
  <2>3. ASSUME EndReplication(t) PROVE LockInv'
    <3>1. /\ commit_lock = t
          /\ pc' = [pc EXCEPT ![t] = "idle"] /\ sync' = sync
      BY <2>3 DEF EndReplication, LockInv
    <3> QED BY <3>1, ConstantsAssumption DEF LockInv, TypeOK
  <2>4. ASSUME NEW m \in Sent("CLIENT_REQUEST"), Dispatch(t, m) PROVE LockInv'
    BY <2>1, <2>4 DEF Dispatch
  <2>5. CASE CommitNew(t)
    <3>1. /\ commit_lock = None /\ commit_lock' = t
          /\ pc' = [pc EXCEPT ![t] = "replicating"] /\ sync' = sync
      BY <2>5 DEF CommitNew, EnterCommit
    <3>2. /\ \A u \in Threads : pc[u] # "replicating"
          /\ \A s \in Backups : sync[s] \notin {"sending", "acknowledged"}
      BY <3>1, ConstantsAssumption DEF LockInv
    <3> QED BY <3>1, <3>2 DEF LockInv, TypeOK
  <2> QED BY <1>2, <2>2, <2>3, <2>4, <2>5
          DEF ThreadStep, CommitNotPrimary, CommitDuplicate, CommitFuture, CommitOverflow,
              Interrupted, ReplicationTimeout, Replicated
<1>3. ASSUME NEW s \in Backups, SyncStep(s) PROVE LockInv'
  <2>1. CASE SyncBegin(s)
    <3>1. /\ commit_lock = None /\ commit_lock' = s
          /\ sync' = [sync EXCEPT ![s] = "sending"] /\ pc' = pc
      BY <2>1 DEF SyncBegin
    <3>2. /\ \A u \in Threads : pc[u] # "replicating"
          /\ \A q \in Backups : sync[q] \notin {"sending", "acknowledged"}
      BY <3>1, ConstantsAssumption DEF LockInv
    <3> QED BY <3>1, <3>2 DEF LockInv, TypeOK
  \* The synchronisation that holds the lock releases it.
  <2>2. CASE SyncFinish(s) \/ SyncFailed(s)
    <3>1. /\ commit_lock = s
          /\ sync' = [sync EXCEPT ![s] = "ending"] /\ pc' = pc
      BY <2>2 DEF SyncFinish, SyncFailed, LockInv
    <3> QED BY <3>1, ConstantsAssumption DEF LockInv, TypeOK
  <2>3. CASE SyncRefused(s)
    BY <2>3 DEF SyncRefused, LockInv, TypeOK
  <2>4. CASE SyncEnd(s)
    BY <2>4 DEF SyncEnd, LockInv, TypeOK
  <2>5. CASE Resend(s)
    BY <1>u, <2>5 DEF Resend
  <2> QED BY <1>3, <2>1, <2>2, <2>3, <2>4, <2>5 DEF SyncStep
<1>4. CASE LeaderStep
  <2>1. ASSUME NEW m \in Sent("SERVER_HELLO"), HandleServerHello(m) PROVE LockInv'
    BY <2>1 DEF HandleServerHello, LockInv, TypeOK
  <2>2. ASSUME NEW m \in Sent("SNAPSHOT_ACK"), HandleSnapshotAck(m) PROVE LockInv'
    <3>1. /\ UNCHANGED <<pc, commit_lock>>
          /\ \A s \in Backups : sync'[s] # sync[s] =>
                sync[s] = "sending" /\ sync'[s] = "acknowledged"
      <4>1. CASE sync[m.from] = "sending" /\ transfer[m.from] = m.transfer
        <5>1. /\ UNCHANGED <<pc, commit_lock>>
              /\ sync' = [sync EXCEPT ![m.from] = "acknowledged"]
          BY <2>2, <4>1 DEF HandleSnapshotAck
        <5> QED BY <4>1, <5>1 DEF TypeOK
      <4>2. CASE ~(sync[m.from] = "sending" /\ transfer[m.from] = m.transfer)
        BY <2>2, <4>2 DEF HandleSnapshotAck
      <4> QED BY <4>1, <4>2
    <3> QED BY <3>1 DEF LockInv
  <2> QED BY <1>4, <1>u, <2>1, <2>2
          DEF LeaderStep, DropInactive, RemoveMember, HandleReplicationAck,
              HandleSnapshotRequest, HandleElection, LeaderStartElection, SendHeartbeat
<1>5. ASSUME NEW s \in Backups, BackupStep(s) PROVE LockInv'
  BY <1>5, <1>u DEF BackupStep, HandleHeartbeat, HandleReplication, HandleSnapshot,
                    BackupStartElection, Restart
<1>6. CASE UNCHANGED vars
  BY <1>6, <1>u DEF vars
<1> QED BY <1>1, <1>2, <1>3, <1>4, <1>5, <1>6 DEF Next, ClientStep

\* While a snapshot is transferred no request is accepted: CommitNew needs the
\* lock that sync_member holds from SyncBegin to SyncFinish.
THEOREM NoWriteDuringSyncHolds == Spec => NoWriteDuringSync
<1> USE DEF serverVars, syncVars, memberVars, threadVars, backupUnchanged
<1>1. TypeOK /\ LockInv /\ [Next]_vars =>
          [log' # log => \A s \in Backups : sync[s] \notin {"sending", "acknowledged"}]_vars
  <2> SUFFICES ASSUME LockInv, Next, log' # log, NEW s \in Backups
               PROVE  sync[s] \notin {"sending", "acknowledged"}
    OBVIOUS
  <2>a. ~ClientStep
    BY DEF ClientStep, SendRequest, ReceiveAck
  <2>b. ~ \E q \in Backups : SyncStep(q)
    BY DEF SyncStep, SyncBegin, SyncRefused, Resend, SyncFinish, SyncFailed, SyncEnd
  <2>c. ~ \E q \in Backups : BackupStep(q)
    BY DEF BackupStep, HandleHeartbeat, HandleReplication, HandleSnapshot,
           BackupStartElection, Restart
  <2>d. ~LeaderStep
    BY DEF LeaderStep, DropInactive, RemoveMember, HandleReplicationAck, HandleServerHello,
           HandleSnapshotAck, HandleSnapshotRequest, HandleElection,
           LeaderStartElection, SendHeartbeat
  <2>1. PICK t \in Threads : ThreadStep(t)
    BY <2>a, <2>b, <2>c, <2>d DEF Next
  <2>2. CommitNew(t)
    BY <2>1 DEF ThreadStep, Dispatch, CommitNotPrimary, CommitDuplicate, CommitFuture,
                CommitOverflow, Interrupted, ReplicationTimeout, Replicated, LeaveCommit,
                EndReplication
  <2> QED BY <2>2, ConstantsAssumption DEF CommitNew, EnterCommit, LockInv
<1> QED BY <1>1, InitTyped, StepTyped, InitLock, StepLock, PTL DEF Spec, NoWriteDuringSync

--------------------------------------------------------------------------------
(* A server that keeps running never goes back *)

\* apply_replication and install_snapshot never lower the version.
LEMMA ReplicaForward ==
    ASSUME NEW st \in State, NEW op, NEW snapshot \in State
    PROVE  /\ ApplyReplication(st, op).state_version >= st.state_version
           /\ InstallSnapshot(st, snapshot).state_version >= st.state_version
<1>1. st.state_version \in Nat /\ snapshot.state_version \in Nat
  BY DEF State
<1>2. ApplyReplication(st, op).state_version >= st.state_version
  BY <1>1 DEF ApplyReplication, ApplyRequest
<1>3. InstallSnapshot(st, snapshot).state_version >= st.state_version
  BY <1>1 DEF InstallSnapshot, RefusesSnapshot
<1> QED BY <1>2, <1>3

LEMMA StepForward ==
    ASSUME TypeOK, [Next]_vars
    PROVE  \A s \in Servers : incarnation'[s] = incarnation[s] =>
               state'[s].state_version >= Version(s)
<1> USE DEF serverVars, syncVars, memberVars, threadVars, backupUnchanged
<1> DEFINE Forward == \A s \in Servers : incarnation'[s] = incarnation[s] =>
                          state'[s].state_version >= Version(s)
<1>t. /\ \A s \in Servers : state[s] \in State /\ Version(s) \in Nat
      /\ state = [s \in Servers |-> state[s]]
  BY DEF TypeOK, State, Version
<1>q. ASSUME state' = state PROVE Forward
  BY <1>t, <1>q DEF Version
\* One replica changes, to a state that is not older.
<1>s. ASSUME NEW s \in Servers, NEW st, state' = [state EXCEPT ![s] = st],
             st.state_version >= Version(s)
      PROVE  Forward
  <2>1. state'[s] = st
    BY <1>t, <1>s
  <2>2. \A q \in Servers \ {s} : state'[q] = state[q]
    BY <1>t, <1>s
  <2>3. \A q \in Servers : state[q].state_version >= Version(q)
    BY <1>t DEF Version
  <2> QED BY <1>s, <2>1, <2>2, <2>3
<1>1. CASE ClientStep
  BY <1>1, <1>q DEF ClientStep, SendRequest, ReceiveAck
<1>2. ASSUME NEW t \in Threads, ThreadStep(t) PROVE Forward
  <2>1. CASE CommitNew(t)
    <3> DEFINE next == ApplyRequest(state[Leader], job[t].client, job[t].req, job[t].value)
    <3>1. state' = [state EXCEPT ![Leader] = next]
      BY <2>1 DEF CommitNew
    <3>2. next.state_version >= Version(Leader)
      BY <1>t DEF ApplyRequest, Version
    <3> HIDE DEF next
    <3> QED BY <1>s, <3>1, <3>2
  <2>2. CASE ~CommitNew(t)
    BY <1>2, <1>q, <2>2
       DEF ThreadStep, Dispatch, CommitNotPrimary, CommitDuplicate, CommitFuture,
           CommitOverflow, Interrupted, ReplicationTimeout, Replicated, LeaveCommit,
           EndReplication
  <2> QED BY <2>1, <2>2
<1>3. ASSUME NEW s \in Backups, SyncStep(s) PROVE Forward
  BY <1>3, <1>q DEF SyncStep, SyncBegin, SyncRefused, Resend, SyncFinish, SyncFailed, SyncEnd
<1>4. ASSUME NEW s \in Backups, BackupStep(s) PROVE Forward
  <2>1. ASSUME NEW m \in Sent("REPLICATION"), HandleReplication(s, m) PROVE Forward
    <3>1. state' = [state EXCEPT ![s] = ApplyReplication(state[s], m)]
      BY <2>1 DEF HandleReplication
    <3>2. ApplyReplication(state[s], m).state_version >= Version(s)
      BY <1>t, EmptyStateTyped, ReplicaForward DEF Version
    <3> QED BY <1>s, <3>1, <3>2
  <2>2. ASSUME NEW m \in Sent("SNAPSHOT"), HandleSnapshot(s, m) PROVE Forward
    <3>1. state' = [state EXCEPT ![s] = InstallSnapshot(state[s], m.state)]
      BY <2>2 DEF HandleSnapshot
    <3>2. m.state \in State
      BY MessageKinds DEF TypeOK, Snapshots
    <3>3. InstallSnapshot(state[s], m.state).state_version >= Version(s)
      BY <1>t, <3>2, ReplicaForward DEF Version
    <3> QED BY <1>s, <3>1, <3>3
  \* The empty state of a restarted server counts as a new incarnation.
  <2>3. CASE Restart(s)
    <3>1. incarnation'[s] # incarnation[s]
      BY <2>3 DEF Restart, TypeOK
    <3>2. state' = [state EXCEPT ![s] = EmptyState]
      BY <2>3 DEF Restart
    <3>3. \A u \in Servers : u # s => state'[u].state_version >= Version(u)
      <4>1. \A u \in Servers \ {s} : state'[u] = state[u]
        BY <3>2 DEF TypeOK
      <4>2. \A u \in Servers : Version(u) \in Nat
        BY <1>t
      <4> QED BY <4>1, <4>2 DEF Version
    <3> QED BY <3>1, <3>3
  <2>4. CASE (\E m \in Sent("HEARTBEAT") : HandleHeartbeat(s, m)) \/ BackupStartElection(s)
    BY <1>q, <2>4 DEF HandleHeartbeat, BackupStartElection
  <2> QED BY <1>4, <2>1, <2>2, <2>3, <2>4 DEF BackupStep
<1>5. CASE LeaderStep
  BY <1>5, <1>q
     DEF LeaderStep, DropInactive, RemoveMember, HandleReplicationAck, HandleServerHello,
         HandleSnapshotAck, HandleSnapshotRequest, HandleElection, LeaderStartElection,
         SendHeartbeat
<1>6. CASE UNCHANGED vars
  BY <1>6, <1>q DEF vars
<1> QED BY <1>1, <1>2, <1>3, <1>4, <1>5, <1>6 DEF Next

\* Duplicated or late snapshots and operations never take a running server back
\* to an older version: only a restart, a new incarnation, loses state.
THEOREM NoRollbackHolds == Spec => NoRollback
<1>1. TypeOK /\ [Next]_vars =>
          [\A s \in Servers : incarnation'[s] = incarnation[s] =>
               state'[s].state_version >= Version(s)]_vars
  BY StepForward
<1> QED BY <1>1, InitTyped, StepTyped, PTL DEF Spec, NoRollback

--------------------------------------------------------------------------------
(* The inductive invariant: the log is the leader's history, and every     *)
(* replica, message and thread refers to a place in it.                    *)

\* The leader holds the state after the last accepted request.
LeaderAtHead == Version(Leader) = Len(log) /\ state[Leader] = StateAt(Len(log))

\* Each entry is the accepted request that turns one state into the next.
LogSteps ==
    \A i \in DOMAIN log :
        /\ log[i].state = ApplyRequest(StateAt(i - 1), log[i].client, log[i].req, log[i].value)
        /\ log[i].state.state_version = i
        /\ log[i].state.num_reqs = i

\* The leader's client table is at or after every accepted request.
LastRequests ==
    \A i \in DOMAIN log : log[i].req <= state[Leader].clients[log[i].client].last_req

\* The stored answer of a client is that of an accepted request.
ClientRecords ==
    \A c \in Clients : LET client == state[Leader].clients[c] IN
        client.last_req > 0 =>
            /\ client.last_num_reqs \in DOMAIN log
            /\ log[client.last_num_reqs].client = c
            /\ log[client.last_num_reqs].req = client.last_req
            /\ log[client.last_num_reqs].state.total_sum = client.last_total_sum

ReplicationsLogged ==
    \A m \in Sent("REPLICATION") :
        /\ m.version \in DOMAIN log
        /\ log[m.version].client = m.client
        /\ log[m.version].req = m.req
        /\ log[m.version].value = m.value

SnapshotsLogged ==
    \A m \in Sent("SNAPSHOT") :
        /\ m.state.state_version <= Len(log)
        /\ m.state = StateAt(m.state.state_version)

\* The request of a thread that replicates is the last accepted one.
CommitInv ==
    \A t \in Threads : pc[t] = "replicating" =>
        /\ Len(log) > 0
        /\ log[Len(log)].client = job[t].client
        /\ log[Len(log)].req = job[t].req

LogInv == LeaderAtHead /\ LogSteps /\ ExactlyOnce /\ LastRequests /\ ClientRecords
NetInv == ReplicationsLogged /\ SnapshotsLogged /\ AckTruthful

HistoryInv == LogInv /\ NetInv /\ BackupPrefix /\ CommitInv

--------------------------------------------------------------------------------
(* What a step that accepts no request preserves *)

\* The log and the leader's state stay: so does all that relates the two.
LEMMA LogFrame ==
    ASSUME LogInv, log' = log, state'[Leader] = state[Leader]
    PROVE  LogInv'
BY DEF LogInv, LeaderAtHead, LogSteps, ExactlyOnce, LastRequests, ClientRecords,
       StateAt, Version

\* A new message that is none of the three kinds that carry history.
LEMMA NetFrame ==
    ASSUME NetInv, log' = log, NEW m, messages' \subseteq messages \cup {m},
           m.type \notin {"REPLICATION", "SNAPSHOT", "CLIENT_ACK"}
    PROVE  NetInv'
<1>1. ASSUME NEW kind \in {"REPLICATION", "SNAPSHOT", "CLIENT_ACK"}
      PROVE  Sent(kind)' \subseteq Sent(kind)
  BY <1>1 DEF Sent
<1> QED BY <1>1 DEF NetInv, ReplicationsLogged, SnapshotsLogged, AckTruthful, StateAt

\* No new message at all.
LEMMA NetStutter ==
    ASSUME NetInv, log' = log, messages' = messages
    PROVE  NetInv'
BY DEF NetInv, ReplicationsLogged, SnapshotsLogged, AckTruthful, StateAt, Sent

\* No replica changes its state.
LEMMA ReplicaFrame ==
    ASSUME BackupPrefix, log' = log, state' = state
    PROVE  BackupPrefix'
BY DEF BackupPrefix, StateAt, Version

\* One replica s changes its state, to one of the leader's history.
LEMMA ReplicaStep ==
    ASSUME TypeOK, BackupPrefix, log' = log, NEW s \in Servers, NEW st,
           state' = [state EXCEPT ![s] = st],
           st.state_version <= Len(log), st = StateAt(st.state_version)
    PROVE  BackupPrefix'
BY DEF BackupPrefix, StateAt, Version, TypeOK

\* No thread moves.
LEMMA CommitFrame ==
    ASSUME CommitInv, log' = log, UNCHANGED <<pc, job>>
    PROVE  CommitInv'
BY DEF CommitInv

--------------------------------------------------------------------------------
(* The leader's history *)

\* classify_request sees only identifiers greater than 0; what it calls NEW
\* follows the last request, what it calls DUPLICATE is not after it.
LEMMA Classified ==
    ASSUME NEW st \in State, NEW m \in Jobs
    PROVE  LET last == st.clients[m.client].last_req IN
           /\ ClassifyRequest(st, m.client, m.req) = "NEW" => m.req = last + 1
           /\ ClassifyRequest(st, m.client, m.req) = "DUPLICATE" => last > 0
<1> DEFINE last == st.clients[m.client].last_req
<1>1. last \in Nat /\ m.req \in Nat /\ m.req > 0
  BY MaxUint64Assumption DEF Jobs, Requests, State, ClientState, Uint64
<1> QED BY <1>1 DEF ClassifyRequest

LEMMA InitHistory == Init => HistoryInv
<1> SUFFICES ASSUME Init PROVE HistoryInv
  OBVIOUS
<1>1. log = <<>> /\ Len(log) = 0 /\ DOMAIN log = {} /\ state = [s \in Servers |-> EmptyState]
  BY DEF Init
<1>2. LogInv
  BY <1>1 DEF LogInv, LeaderAtHead, LogSteps, ExactlyOnce, LastRequests, ClientRecords,
              StateAt, Version, EmptyState, EmptyClient
<1>3. NetInv
  <2>1. /\ Sent("REPLICATION") = {} /\ Sent("SNAPSHOT") = {} /\ Sent("CLIENT_ACK") = {}
    BY DEF Init, Sent
  <2> QED BY <2>1 DEF NetInv, ReplicationsLogged, SnapshotsLogged, AckTruthful
<1>4. BackupPrefix
  BY <1>1 DEF BackupPrefix, StateAt, Version, EmptyState
<1>5. CommitInv
  BY DEF Init, CommitInv
<1> QED BY <1>2, <1>3, <1>4, <1>5 DEF HistoryInv

\* An accepted request (CommitNew) extends the history by one entry.
LEMMA CommitNewHistory ==
    ASSUME TypeOK, LockInv, HistoryInv, NEW t \in Threads, CommitNew(t)
    PROVE  HistoryInv'
<1> DEFINE st    == state[Leader]
           c     == job[t].client
           r     == job[t].req
           v     == job[t].value
           next  == ApplyRequest(st, c, r, v)
           entry == [client |-> c, req |-> r, value |-> v, state |-> next]
           last  == st.clients[c].last_req
<1>0. PICK n \in Nat : n = Len(log)
  BY DEF TypeOK
<1>1. /\ st \in State /\ job[t] \in Jobs
      /\ c \in Clients /\ r \in Nat /\ v \in Values
  BY DEF CommitNew, EnterCommit, TypeOK, Jobs, Requests
<1>2. /\ DOMAIN log = 1 .. n
      /\ \A i \in 1 .. n : log[i] \in LogEntries
  BY <1>0 DEF TypeOK
<1>3. /\ state' = [state EXCEPT ![Leader] = next]
      /\ log' = Append(log, entry)
      /\ messages' = messages \cup {operation'}
      /\ commit_lock = None /\ commit_lock' = t
      /\ pc' = [pc EXCEPT ![t] = "replicating"] /\ job' = job
  BY DEF CommitNew, Send, EnterCommit
<1>4. /\ Len(log') = n + 1 /\ DOMAIN log' = 1 .. n + 1
      /\ log'[n + 1] = entry
      /\ \A i \in 1 .. n : log'[i] = log[i]
  BY <1>0, <1>2, <1>3 DEF TypeOK
<1>5. state'[Leader] = next /\ \A s \in Backups : state'[s] = state[s]
  BY <1>3, ConstantsAssumption DEF TypeOK
<1>6. st = StateAt(n) /\ st.state_version = n
  BY <1>0 DEF HistoryInv, LogInv, LeaderAtHead, Version
<1>7. st.num_reqs = n
  BY <1>2, <1>6 DEF HistoryInv, LogInv, LogSteps, StateAt, EmptyState
<1>8. /\ next.state_version = n + 1 /\ next.num_reqs = n + 1
      /\ next.clients[c] = [last_req |-> r, last_num_reqs |-> n + 1,
                            last_total_sum |-> next.total_sum]
      /\ \A d \in Clients : d # c => next.clients[d] = st.clients[d]
  BY <1>1, <1>6, <1>7 DEF ApplyRequest, State
<1>9. \A i \in 0 .. n : StateAt(i)' = StateAt(i)
  BY <1>2, <1>4 DEF StateAt
<1>e. /\ log'[n + 1].client = c /\ log'[n + 1].req = r /\ log'[n + 1].value = v
      /\ log'[n + 1].state = next
  BY <1>4
<1>11. r = last + 1 /\ last \in Nat
  <2>1. last \in Nat
    BY <1>1, MaxUint64Assumption DEF State, ClientState, Uint64
  <2> QED BY <1>1, <2>1, Classified DEF CommitNew, Accepts
<1>a. next = ApplyRequest(st, c, r, v)
  OBVIOUS
<1> HIDE DEF next, entry
<1>10. StateAt(n + 1)' = next
  BY <1>2, <1>e DEF StateAt
<1>12. LeaderAtHead'
  BY <1>2, <1>4, <1>5, <1>8, <1>10 DEF LeaderAtHead, Version
<1>13. LogSteps'
  <2> SUFFICES ASSUME NEW i \in 1 .. n + 1
               PROVE  /\ log'[i].state = ApplyRequest(StateAt(i - 1)', log'[i].client,
                                                     log'[i].req, log'[i].value)
                      /\ log'[i].state.state_version = i
                      /\ log'[i].state.num_reqs = i
    BY <1>4 DEF LogSteps
  <2>1. CASE i \in 1 .. n
    <3>1. i - 1 \in 0 .. n /\ log'[i] = log[i]
      BY <1>2, <1>4, <2>1
    <3> QED BY <1>2, <1>9, <2>1, <3>1 DEF HistoryInv, LogInv, LogSteps
  <2>2. CASE i = n + 1
    <3>1. i - 1 = n /\ n \in 0 .. n
      BY <1>2, <2>2
    <3>2. StateAt(i - 1)' = st
      BY <1>6, <1>9, <3>1
    <3> QED BY <1>8, <1>a, <1>e, <2>2, <3>2
  <2> QED BY <1>2, <2>1, <2>2
<1>14. \A i \in 1 .. n : log[i].client = c => log[i].req <= last
  BY <1>2 DEF HistoryInv, LogInv, LastRequests
<1>15. ExactlyOnce'
  <2> SUFFICES ASSUME NEW i \in 1 .. n + 1, NEW j \in 1 .. n + 1, i < j,
                      log'[i].client = log'[j].client
               PROVE  log'[i].req < log'[j].req
    BY <1>4 DEF ExactlyOnce
  <2>0. i \in 1 .. n /\ log'[i] = log[i] /\ log[i].req \in Nat
    BY <1>2, <1>4 DEF LogEntries
  <2>1. CASE j \in 1 .. n
    BY <1>2, <1>4, <2>0, <2>1 DEF HistoryInv, LogInv, ExactlyOnce
  <2>2. CASE j = n + 1
    <3>1. log[i].client = c /\ log'[j].req = r
      BY <1>e, <2>0, <2>2
    <3>2. log[i].req <= last
      BY <1>14, <2>0, <3>1
    <3> HIDE DEF c, r, last
    <3> QED BY <1>11, <2>0, <3>1, <3>2
  <2> QED BY <1>2, <2>1, <2>2
<1>16. LastRequests'
  <2> SUFFICES ASSUME NEW i \in 1 .. n + 1
               PROVE  log'[i].req <= next.clients[log'[i].client].last_req
    BY <1>4, <1>5 DEF LastRequests
  <2>1. CASE i \in 1 .. n
    <3>1. /\ log'[i] = log[i] /\ log[i].client \in Clients /\ log[i].req \in Nat
          /\ log[i].req <= st.clients[log[i].client].last_req
      BY <1>2, <1>4, <2>1 DEF HistoryInv, LogInv, LastRequests, LogEntries
    <3>2. CASE log[i].client = c
      BY <1>8, <1>11, <3>1, <3>2
    <3>3. CASE log[i].client # c
      BY <1>8, <3>1, <3>3
    <3> QED BY <3>2, <3>3
  <2>2. CASE i = n + 1
    BY <1>1, <1>e, <1>8, <2>2
  <2> QED BY <1>2, <2>1, <2>2
<1>17. ClientRecords'
  <2> SUFFICES ASSUME NEW d \in Clients, next.clients[d].last_req > 0
               PROVE  LET k == next.clients[d].last_num_reqs IN
                      /\ k \in DOMAIN log'
                      /\ log'[k].client = d
                      /\ log'[k].req = next.clients[d].last_req
                      /\ log'[k].state.total_sum = next.clients[d].last_total_sum
    BY <1>5 DEF ClientRecords
  <2>1. CASE d = c
    <3>1. next.clients[d].last_num_reqs = n + 1 /\ n + 1 \in DOMAIN log'
      BY <1>2, <1>4, <1>8, <2>1
    <3>2. next.clients[d].last_req = r /\ next.clients[d].last_total_sum = next.total_sum
      BY <1>8, <2>1
    <3> HIDE DEF c, r, v, st
    <3> QED BY <1>e, <2>1, <3>1, <3>2
  <2>2. CASE d # c
    <3> DEFINE k == st.clients[d].last_num_reqs
    <3>1. next.clients[d] = st.clients[d]
      BY <1>8, <2>2
    <3>2. /\ k \in 1 .. n
          /\ log[k].client = d
          /\ log[k].req = st.clients[d].last_req
          /\ log[k].state.total_sum = st.clients[d].last_total_sum
      BY <1>2, <3>1 DEF HistoryInv, LogInv, ClientRecords
    <3>3. next.clients[d].last_num_reqs = k
      BY <3>1
    <3> HIDE DEF k, c, st
    <3>4. k \in DOMAIN log' /\ log'[k] = log[k]
      BY <1>2, <1>4, <3>2
    <3> QED BY <3>1, <3>2, <3>3, <3>4
  <2> QED BY <2>1, <2>2
<1>18. LogInv'
  BY <1>12, <1>13, <1>15, <1>16, <1>17 DEF LogInv
<1>19. NetInv'
  <2>1. /\ operation'.type = "REPLICATION" /\ operation'.version = n + 1
        /\ operation'.client = c /\ operation'.req = r /\ operation'.value = v
    BY <1>8, <1>a DEF CommitNew
  <2>2. ReplicationsLogged'
    <3> SUFFICES ASSUME NEW m \in Sent("REPLICATION")'
                 PROVE  /\ m.version \in 1 .. n + 1
                        /\ log'[m.version].client = m.client
                        /\ log'[m.version].req = m.req
                        /\ log'[m.version].value = m.value
      BY <1>4 DEF ReplicationsLogged
    <3>1. CASE m = operation'
      BY <1>e, <2>1, <3>1
    <3>2. CASE m # operation'
      <4>1. m \in Sent("REPLICATION")
        BY <1>3, <3>2 DEF Sent
      <4> QED BY <1>2, <1>4, <4>1 DEF HistoryInv, NetInv, ReplicationsLogged
    <3> QED BY <3>1, <3>2
  <2>3. SnapshotsLogged'
    <3> SUFFICES ASSUME NEW m \in Sent("SNAPSHOT")'
                 PROVE  /\ m.state.state_version <= n + 1
                        /\ m.state = StateAt(m.state.state_version)'
      BY <1>4 DEF SnapshotsLogged
    <3>1. m \in Sent("SNAPSHOT")
      BY <1>3, <2>1 DEF Sent
    <3>2. m.state.state_version \in Nat
      BY <3>1, MessageKinds DEF TypeOK, Snapshots, State
    <3> QED BY <1>2, <1>9, <3>1, <3>2 DEF HistoryInv, NetInv, SnapshotsLogged
  <2>4. AckTruthful'
    <3>1. Sent("CLIENT_ACK")' = Sent("CLIENT_ACK")
      BY <1>3, <2>1 DEF Sent
    <3> QED BY <1>2, <1>4, <3>1 DEF HistoryInv, NetInv, AckTruthful
  <2> QED BY <2>2, <2>3, <2>4 DEF NetInv
<1>20. BackupPrefix'
  <2> SUFFICES ASSUME NEW s \in Servers, NEW k, k = state'[s].state_version
               PROVE  k <= n + 1 /\ state'[s] = StateAt(k)'
    BY <1>4 DEF BackupPrefix, Version, StateAt
  <2>1. CASE s = Leader
    <3>1. k = n + 1 /\ state'[s] = next
      BY <1>5, <1>8, <2>1
    <3> QED BY <1>10, <3>1
  <2>2. CASE s \in Backups
    <3>1. state'[s] = state[s] /\ k = state[s].state_version /\ k \in Nat
      BY <1>5, <2>2 DEF TypeOK, State
    <3>2. k <= n /\ state[s] = StateAt(k)
      BY <1>0, <3>1 DEF HistoryInv, BackupPrefix, Version
    <3> QED BY <1>9, <3>1, <3>2
  <2> QED BY <2>1, <2>2
<1>21. CommitInv'
  <2>1. \A u \in Threads : pc[u] # "replicating"
    BY <1>3, ConstantsAssumption DEF LockInv
  <2> SUFFICES ASSUME NEW u \in Threads, pc'[u] = "replicating"
               PROVE  /\ Len(log') > 0
                      /\ log'[Len(log')].client = job'[u].client
                      /\ log'[Len(log')].req = job'[u].req
    BY DEF CommitInv
  <2>2. u = t
    BY <1>3, <2>1 DEF TypeOK
  <2> QED BY <1>3, <1>4, <1>e, <2>2
<1> QED BY <1>18, <1>19, <1>20, <1>21 DEF HistoryInv

\* An answer may be sent that quotes an entry of the history.
LEMMA AnswerNet ==
    ASSUME HistoryInv, log' = log, NEW ack, messages' = messages \cup {ack},
           ack.type = "CLIENT_ACK",
           /\ ack.num_reqs \in DOMAIN log
           /\ log[ack.num_reqs].client = ack.client
           /\ log[ack.num_reqs].req = ack.req
           /\ log[ack.num_reqs].state.total_sum = ack.total_sum
    PROVE  NetInv'
<1>1. /\ Sent("REPLICATION")' \subseteq Sent("REPLICATION")
      /\ Sent("SNAPSHOT")' \subseteq Sent("SNAPSHOT")
      /\ Sent("CLIENT_ACK")' \subseteq Sent("CLIENT_ACK") \cup {ack}
  BY DEF Sent
<1>2. \A i : StateAt(i)' = StateAt(i)
  BY DEF StateAt
<1>3. ReplicationsLogged'
  BY <1>1 DEF HistoryInv, NetInv, ReplicationsLogged
<1>4. SnapshotsLogged'
  BY <1>1, <1>2 DEF HistoryInv, NetInv, SnapshotsLogged
<1>5. AckTruthful'
  BY <1>1 DEF HistoryInv, NetInv, AckTruthful
<1> QED BY <1>3, <1>4, <1>5 DEF NetInv

\* A duplicate is answered with the record of an accepted request.
LEMMA CommitDuplicateNet ==
    ASSUME TypeOK, HistoryInv, NEW t \in Threads, CommitDuplicate(t)
    PROVE  NetInv'
<1> DEFINE c      == job[t].client
           client == state[Leader].clients[c]
           ack    == ClientAck(c, client.last_req, client.last_num_reqs,
                               client.last_total_sum, TRUE)
<1>1. /\ job[t] \in Jobs /\ state[Leader] \in State /\ c \in Clients
  BY DEF CommitDuplicate, EnterCommit, TypeOK, Jobs, Requests
<1>2. client.last_req > 0
  BY <1>1, Classified DEF CommitDuplicate, Classification
<1>3. messages' = messages \cup {ack} /\ log' = log
  BY DEF CommitDuplicate, Send, LeaveCommit
<1>4. /\ ack.num_reqs \in DOMAIN log
      /\ log[ack.num_reqs].client = ack.client
      /\ log[ack.num_reqs].req = ack.req
      /\ log[ack.num_reqs].state.total_sum = ack.total_sum
  BY <1>1, <1>2 DEF HistoryInv, LogInv, ClientRecords, ClientAck
<1>5. ack.type = "CLIENT_ACK"
  BY DEF ClientAck
<1> HIDE DEF ack
<1> QED BY <1>3, <1>4, <1>5, AnswerNet

\* A replicated request is answered with the totals of the leader, which still
\* are those of this request: the thread has held commit_lock all along.
LEMMA ReplicatedNet ==
    ASSUME TypeOK, HistoryInv, NEW t \in Threads, Replicated(t)
    PROVE  NetInv'
<1> DEFINE ack == ClientAck(job[t].client, job[t].req, state[Leader].num_reqs,
                            state[Leader].total_sum, FALSE)
<1>0. PICK n \in Nat : n = Len(log)
  BY DEF TypeOK
<1>1. /\ n > 0 /\ DOMAIN log = 1 .. n
      /\ log[n].client = job[t].client /\ log[n].req = job[t].req
  BY <1>0 DEF Replicated, EndReplication, HistoryInv, CommitInv, TypeOK
<1>2. state[Leader] = log[n].state /\ log[n].state.num_reqs = n
  BY <1>0, <1>1 DEF HistoryInv, LogInv, LeaderAtHead, LogSteps, StateAt
<1>3. messages' = messages \cup {ack} /\ log' = log
  BY DEF Replicated, Send, EndReplication
<1>4. /\ ack.num_reqs \in DOMAIN log
      /\ log[ack.num_reqs].client = ack.client
      /\ log[ack.num_reqs].req = ack.req
      /\ log[ack.num_reqs].state.total_sum = ack.total_sum
  BY <1>1, <1>2 DEF ClientAck
<1>5. ack.type = "CLIENT_ACK"
  BY DEF ClientAck
<1> HIDE DEF ack
<1> QED BY <1>3, <1>4, <1>5, AnswerNet

\* Every snapshot the leader sends is its state, the head of the history.
LEMMA SnapshotNet ==
    ASSUME TypeOK, HistoryInv, log' = log, NEW s \in Backups, NEW id \in Nat,
           messages' = messages \cup {Snapshot(s, id)}
    PROVE  NetInv'
<1> DEFINE m == Snapshot(s, id)
<1>1. /\ m.type = "SNAPSHOT" /\ m.state = state[Leader]
  BY DEF Snapshot
<1>2. /\ m.state.state_version <= Len(log)
      /\ m.state = StateAt(m.state.state_version)
  BY <1>1 DEF HistoryInv, LogInv, LeaderAtHead, Version, TypeOK
<1>3. /\ Sent("REPLICATION")' \subseteq Sent("REPLICATION")
      /\ Sent("CLIENT_ACK")' \subseteq Sent("CLIENT_ACK")
      /\ Sent("SNAPSHOT")' \subseteq Sent("SNAPSHOT") \cup {m}
  BY <1>1 DEF Sent
<1> HIDE DEF m
<1> QED BY <1>2, <1>3
        DEF HistoryInv, NetInv, ReplicationsLogged, SnapshotsLogged, AckTruthful, StateAt

\* A backup that applies a replicated operation reaches the next state of the
\* history: the message is an entry of the log, and the backup's state precedes it.
LEMMA ReplicationOnHistory ==
    ASSUME TypeOK, HistoryInv, NEW s \in Backups, NEW m \in Sent("REPLICATION")
    PROVE  LET st == ApplyReplication(state[s], m) IN
           st.state_version <= Len(log) /\ st = StateAt(st.state_version)
<1> DEFINE old == state[s]
           st  == ApplyReplication(old, m)
<1>1. /\ Len(log) \in Nat /\ DOMAIN log = 1 .. Len(log)
      /\ old.state_version \in Nat
      /\ old.state_version <= Len(log) /\ old = StateAt(old.state_version)
  BY DEF TypeOK, State, HistoryInv, BackupPrefix, Version
<1>2. CASE ReplicationOutcome(old, m) # "APPLIED"
  <2>1. st = old
    BY <1>2 DEF ApplyReplication
  <2> QED BY <1>1, <2>1
<1>3. CASE ReplicationOutcome(old, m) = "APPLIED"
  <2>1. m.version = old.state_version + 1
    BY <1>3 DEF ReplicationOutcome
  <2>2. /\ m.version \in DOMAIN log
        /\ log[m.version].client = m.client /\ log[m.version].req = m.req
        /\ log[m.version].value = m.value
    BY DEF HistoryInv, NetInv, ReplicationsLogged
  <2>3. m.version - 1 = old.state_version
    BY <1>1, <2>1
  <2>4. /\ log[m.version].state = ApplyRequest(old, m.client, m.req, m.value)
        /\ log[m.version].state.state_version = m.version
    BY <1>1, <2>2, <2>3 DEF HistoryInv, LogInv, LogSteps
  <2>5. st = log[m.version].state
    BY <1>3, <2>4 DEF ApplyReplication
  <2> QED BY <1>1, <2>1, <2>2, <2>4, <2>5 DEF StateAt
<1> QED BY <1>2, <1>3

\* So does a backup that installs, or refuses, a snapshot.
LEMMA SnapshotOnHistory ==
    ASSUME TypeOK, HistoryInv, NEW s \in Backups, NEW m \in Sent("SNAPSHOT")
    PROVE  LET st == InstallSnapshot(state[s], m.state) IN
           st.state_version <= Len(log) /\ st = StateAt(st.state_version)
BY DEF HistoryInv, NetInv, SnapshotsLogged, BackupPrefix, Version, InstallSnapshot

--------------------------------------------------------------------------------
(* The step: one case per action *)

LEMMA StepHistory == TypeOK /\ LockInv /\ HistoryInv /\ [Next]_vars => HistoryInv'
<1> SUFFICES ASSUME TypeOK, LockInv, HistoryInv, [Next]_vars PROVE HistoryInv'
  OBVIOUS
<1> USE DEF serverVars, syncVars, memberVars, threadVars, backupUnchanged
<1>h. LogInv /\ NetInv /\ BackupPrefix /\ CommitInv
  BY DEF HistoryInv
\* Steps that touch neither a replica's state nor the log.
<1>q. ASSUME state' = state, log' = log, NetInv', CommitInv' PROVE HistoryInv'
  BY <1>h, <1>q, LogFrame, ReplicaFrame DEF HistoryInv
<1>m. ASSUME NEW m, m.type \notin {"REPLICATION", "SNAPSHOT", "CLIENT_ACK"},
             messages' = messages \cup {m}, log' = log
      PROVE  NetInv'
  BY <1>h, <1>m, NetFrame
<1>1. ASSUME NEW c \in Clients, SendRequest(c) PROVE HistoryInv'
  <2>1. PICK v \in Values : messages' = messages \cup {Request(c, nextReq[c], v)}
    BY <1>1 DEF SendRequest, Send
  <2>2. Request(c, nextReq[c], v).type = "CLIENT_REQUEST"
    BY DEF Request
  <2>3. NetInv'
    BY <1>1, <1>m, <2>1, <2>2 DEF SendRequest
  <2>4. CommitInv'
    BY <1>1, <1>h, CommitFrame DEF SendRequest
  <2> QED BY <1>1, <1>q, <2>3, <2>4 DEF SendRequest
<1>2. ASSUME NEW c \in Clients, ReceiveAck(c) PROVE HistoryInv'
  BY <1>2, <1>h, <1>q, NetStutter, CommitFrame DEF ReceiveAck
<1>3. ASSUME NEW t \in Threads, ThreadStep(t) PROVE HistoryInv'
  \* A thread that enters or leaves a section without replication.
  <2>1. ASSUME NEW phase, phase # "replicating", NEW work,
               pc' = [pc EXCEPT ![t] = phase], job' = [job EXCEPT ![t] = work],
               log' = log
        PROVE  CommitInv'
    <3> SUFFICES ASSUME NEW u \in Threads, pc'[u] = "replicating"
                 PROVE  /\ Len(log') > 0
                        /\ log'[Len(log')].client = job'[u].client
                        /\ log'[Len(log')].req = job'[u].req
      BY DEF CommitInv
    <3>1. u # t /\ pc[u] = "replicating" /\ job'[u] = job[u]
      BY <2>1 DEF TypeOK
    <3> QED BY <1>h, <2>1, <3>1 DEF CommitInv
  <2>2. ASSUME LeaveCommit(t) PROVE CommitInv'
    BY <2>1, <2>2 DEF LeaveCommit
  <2>3. ASSUME EndReplication(t) PROVE CommitInv'
    BY <2>1, <2>3 DEF EndReplication
  <2>4. ASSUME NEW m \in Sent("CLIENT_REQUEST"), Dispatch(t, m) PROVE HistoryInv'
    <3>1. CommitInv'
      BY <2>1, <2>4 DEF Dispatch
    <3> QED BY <1>h, <1>q, <2>4, <3>1, NetStutter DEF Dispatch
  <2>5. CASE CommitNotPrimary(t)
    BY <1>h, <1>q, <2>2, <2>5, NetStutter DEF CommitNotPrimary, LeaveCommit
  <2>6. CASE CommitDuplicate(t)
    <3>1. NetInv'
      BY <2>6, CommitDuplicateNet
    <3> QED BY <1>q, <2>2, <2>6, <3>1 DEF CommitDuplicate, LeaveCommit
  <2>7. CASE CommitFuture(t)
    BY <1>h, <1>q, <2>2, <2>7, NetStutter DEF CommitFuture, LeaveCommit
  <2>8. CASE CommitOverflow(t)
    BY <1>h, <1>q, <2>2, <2>8, NetStutter DEF CommitOverflow, LeaveCommit
  <2>9. CASE CommitNew(t)
    BY <2>9, CommitNewHistory
  <2>10. CASE Interrupted(t)
    BY <1>h, <1>q, <2>3, <2>10, NetStutter DEF Interrupted, EndReplication
  <2>11. CASE ReplicationTimeout(t)
    BY <1>h, <1>q, <2>3, <2>11, NetStutter DEF ReplicationTimeout, EndReplication
  <2>12. CASE Replicated(t)
    <3>1. NetInv'
      BY <2>12, ReplicatedNet
    <3> QED BY <1>q, <2>3, <2>12, <3>1 DEF Replicated, EndReplication
  <2> QED BY <1>3, <2>4, <2>5, <2>6, <2>7, <2>8, <2>9, <2>10, <2>11, <2>12 DEF ThreadStep
<1>4. ASSUME NEW s \in Backups, SyncStep(s) PROVE HistoryInv'
  <2>2. CASE SyncBegin(s)
    <3>0. transfers + 1 \in Nat
      BY DEF TypeOK
    <3>1. NetInv'
      BY <2>2, <3>0, SnapshotNet DEF SyncBegin, Send
    <3> QED BY <1>h, <1>q, <2>2, <3>1, CommitFrame DEF SyncBegin
  <2>3. CASE SyncRefused(s)
    BY <1>h, <1>q, <2>3, NetStutter, CommitFrame DEF SyncRefused
  <2>4. CASE Resend(s)
    <3>1. NetInv'
      BY <2>4, SnapshotNet DEF Resend, Send, TypeOK
    <3> QED BY <1>h, <1>q, <2>4, <3>1, CommitFrame DEF Resend
  <2>5. CASE SyncFinish(s)
    BY <1>h, <1>q, <2>5, NetStutter, CommitFrame DEF SyncFinish
  <2>6. CASE SyncFailed(s)
    BY <1>h, <1>q, <2>6, NetStutter, CommitFrame DEF SyncFailed
  <2>7. CASE SyncEnd(s)
    BY <1>h, <1>q, <2>7, NetStutter, CommitFrame DEF SyncEnd
  <2> QED BY <1>4, <2>2, <2>3, <2>4, <2>5, <2>6, <2>7 DEF SyncStep
<1>5. CASE LeaderStep
  <2>1. ASSUME NEW m \in Sent("SNAPSHOT_REQUEST"), HandleSnapshotRequest(m) PROVE HistoryInv'
    <3>1. m.from \in Backups
      BY MessageKinds DEF TypeOK, Notices
    <3>2. NetInv'
      BY <2>1, <3>1, SnapshotNet DEF HandleSnapshotRequest, Send
    <3> QED BY <1>h, <1>q, <2>1, <3>2, CommitFrame DEF HandleSnapshotRequest
  <2>2. CASE SendHeartbeat
    <3>1. NetInv'
      BY <1>m, <2>2 DEF SendHeartbeat, Send
    <3> QED BY <1>h, <1>q, <2>2, <3>1, CommitFrame DEF SendHeartbeat
  <2>3. ASSUME UNCHANGED <<state, log, messages, pc, job>> PROVE HistoryInv'
    BY <1>h, <1>q, <2>3, NetStutter, CommitFrame
  <2> QED BY <1>5, <2>1, <2>2, <2>3
          DEF LeaderStep, DropInactive, RemoveMember, HandleReplicationAck,
              HandleServerHello, HandleSnapshotAck, HandleElection, LeaderStartElection
<1>6. ASSUME NEW s \in Backups, BackupStep(s) PROVE HistoryInv'
  <2>0. state[Leader] = state'[Leader] /\ log' = log /\ CommitInv'
    <3>1. log' = log /\ UNCHANGED <<pc, job>>
      BY <1>6 DEF BackupStep, HandleHeartbeat, HandleReplication, HandleSnapshot,
                  BackupStartElection, Restart
    <3>2. \E st : state' = [state EXCEPT ![s] = st] \/ state' = state
      BY <1>6 DEF BackupStep, HandleHeartbeat, HandleReplication, HandleSnapshot,
                  BackupStartElection, Restart
    <3> QED BY <1>h, <3>1, <3>2, CommitFrame, ConstantsAssumption DEF TypeOK
  <2>1. ASSUME NetInv', BackupPrefix' PROVE HistoryInv'
    BY <1>h, <2>0, <2>1, LogFrame DEF HistoryInv
  <2>2. ASSUME NEW m \in Sent("HEARTBEAT"), HandleHeartbeat(s, m) PROVE HistoryInv'
    BY <1>h, <2>0, <2>1, <2>2, NetStutter, ReplicaFrame DEF HandleHeartbeat
  <2>3. ASSUME NEW m \in Sent("REPLICATION"), HandleReplication(s, m) PROVE HistoryInv'
    <3>1. NetInv'
      <4>1. CASE ReplicationOutcome(state[s], m) = "REFUSED"
        BY <1>m, <2>0, <2>3, <4>1 DEF HandleReplication, Send
      <4>2. CASE ReplicationOutcome(state[s], m) # "REFUSED"
        BY <1>m, <2>0, <2>3, <4>2 DEF HandleReplication, Send
      <4> QED BY <4>1, <4>2
    <3>2. BackupPrefix'
      BY <1>h, <2>0, <2>3, ReplicationOnHistory, ReplicaStep DEF HandleReplication
    <3> QED BY <2>1, <3>1, <3>2
  <2>4. ASSUME NEW m \in Sent("SNAPSHOT"), HandleSnapshot(s, m) PROVE HistoryInv'
    <3>1. NetInv'
      BY <1>m, <2>0, <2>4 DEF HandleSnapshot, Send
    <3>2. BackupPrefix'
      BY <1>h, <2>0, <2>4, SnapshotOnHistory, ReplicaStep DEF HandleSnapshot
    <3> QED BY <2>1, <3>1, <3>2
  <2>5. CASE BackupStartElection(s)
    <3>1. NetInv'
      BY <1>m, <2>0, <2>5 DEF BackupStartElection, Send
    <3> QED BY <1>h, <2>0, <2>1, <2>5, <3>1, ReplicaFrame DEF BackupStartElection
  <2>6. CASE Restart(s)
    <3>1. EmptyState.state_version <= Len(log) /\ EmptyState = StateAt(EmptyState.state_version)
      BY DEF EmptyState, StateAt, TypeOK
    <3>2. state' = [state EXCEPT ![s] = EmptyState]
      BY <2>6 DEF Restart
    <3>3. BackupPrefix'
      BY <1>h, <2>0, <3>1, <3>2, ReplicaStep
    <3> QED BY <1>h, <2>0, <2>1, <2>6, <3>3, NetStutter DEF Restart
  <2> QED BY <1>6, <2>2, <2>3, <2>4, <2>5, <2>6 DEF BackupStep
<1>7. CASE UNCHANGED vars
  BY <1>h, <1>q, <1>7, NetStutter, CommitFrame DEF vars
<1> QED BY <1>1, <1>2, <1>3, <1>4, <1>5, <1>6, <1>7 DEF Next, ClientStep

--------------------------------------------------------------------------------
(* The theorems *)

LEMMA HistoryAlways == Spec => [](TypeOK /\ LockInv /\ HistoryInv)
<1> QED BY InitTyped, StepTyped, InitLock, StepLock, InitHistory, StepHistory, PTL DEF Spec

\* Every replica, at any time and whatever the network and the crashes did, holds
\* the state the leader had after some number of accepted requests.
THEOREM BackupsFollow == Spec => []BackupPrefix
<1>1. HistoryInv => BackupPrefix
  BY DEF HistoryInv
<1> QED BY <1>1, HistoryAlways, PTL

\* Each client's requests are accepted in the order of its identifiers, each once.
THEOREM AcceptedOnce == Spec => []ExactlyOnce
<1>1. HistoryInv => ExactlyOnce
  BY DEF HistoryInv, LogInv
<1> QED BY <1>1, HistoryAlways, PTL

\* Every answer, first or repeated, states the totals right after the request it names.
THEOREM AnswersTruthful == Spec => []AckTruthful
<1>1. HistoryInv => AckTruthful
  BY DEF HistoryInv, NetInv
<1> QED BY <1>1, HistoryAlways, PTL

================================================================================
