------------------------- MODULE ReplicationAckProofs -------------------------
(***************************************************************************)
(* The proof of NewAckReplicated: what a client is told after a successful *)
(* replicate_to_all is held by every synchronised backup.  It needs more   *)
(* than the history of ReplicationProofs, because neither acknowledgement  *)
(* names what it acknowledges completely: a REPLICATION_ACK does not say in*)
(* which life of the backup it was sent, and a SNAPSHOT_ACK does not say   *)
(* which version was installed.                                            *)
(***************************************************************************)
EXTENDS ReplicationProofs

USE DEF Servers

--------------------------------------------------------------------------------
(* The inductive invariant *)

\* The life of s that sync_member admitted is the one that runs now.
Admitted(s) == admitted[s] = incarnation[s]

AtHead(s) == Version(s) >= Len(log)

\* No acknowledgement comes from a life still to come, and a backup that was
\* removed is not admitted: it has to be synchronised again.
LivesInOrder ==
    /\ \A m \in Sent("SNAPSHOT_ACK") : m.incarnation <= incarnation[m.from]
    /\ \A s \in Backups : admitted[s] <= incarnation[s]
    /\ \A s \in Backups : members[s] = "NONE" => admitted[s] = 0

\* Transfer identifiers are handed out once; 0 is that of a snapshot nobody waits for.
TransfersKnown ==
    /\ \A m \in Sent("SNAPSHOT") \cup Sent("SNAPSHOT_ACK") : m.transfer <= transfers
    /\ \A s \in Backups : transfer[s] <= transfers
    /\ \A s \in Backups : sync[s] = "sending" => transfer[s] # 0

\* A transfer that is waited for carries the head of the history, and whoever
\* acknowledges it, and has not crashed since, has that head.
TransfersAtHead ==
    \A s \in Backups :
        /\ sync[s] = "sending" =>
              /\ \A m \in Sent("SNAPSHOT") :
                     m.to = s /\ m.transfer = transfer[s] => m.state.state_version >= Len(log)
              /\ \A m \in Sent("SNAPSHOT_ACK") :
                     m.from = s /\ m.transfer = transfer[s] /\ m.incarnation = incarnation[s]
                         => AtHead(s)
        /\ sync[s] = "acknowledged" /\ Admitted(s) => AtHead(s)

\* An acknowledgement of the last operation by a backup that has been admitted
\* since its last crash was sent in this life, and still holds.
AcksHeld ==
    \A m \in Sent("REPLICATION_ACK") :
        /\ m.version <= Len(log)
        /\ m.version = Len(log) /\ Admitted(m.from) => AtHead(m.from)

\* The operation that is being replicated is the last accepted one, and a
\* synchronised backup that is not waited for has it.
OperationAtHead ==
    \A t \in Threads : pc[t] = "replicating" =>
        /\ operation # None
        /\ operation.version = Len(log)
        /\ \A s \in Backups \ pending : Synchronised(s) => AtHead(s)

AckInv == /\ LivesInOrder
          /\ TransfersKnown
          /\ TransfersAtHead
          /\ AcksHeld
          /\ OperationAtHead
          /\ NewAckReplicated

--------------------------------------------------------------------------------
(* Steps that concern no acknowledgement *)

LEMMA InitAck == Init => AckInv
<1> SUFFICES ASSUME Init PROVE AckInv
  OBVIOUS
<1>1. /\ Sent("SNAPSHOT") = {} /\ Sent("SNAPSHOT_ACK") = {}
      /\ Sent("REPLICATION_ACK") = {} /\ Sent("CLIENT_ACK") = {}
  BY DEF Init, Sent
<1>2. LivesInOrder /\ TransfersKnown
  BY <1>1 DEF Init, LivesInOrder, TransfersKnown
<1>3. TransfersAtHead /\ AcksHeld /\ OperationAtHead /\ NewAckReplicated
  BY <1>1 DEF Init, TransfersAtHead, AcksHeld, OperationAtHead, NewAckReplicated
<1> QED BY <1>2, <1>3 DEF AckInv

\* The kinds of messages AckInv is about.
AckKinds == {"SNAPSHOT", "SNAPSHOT_ACK", "REPLICATION_ACK", "CLIENT_ACK"}

\* Members, transfers, replicas and the log stay, no thread begins to replicate,
\* and no message of AckKinds is sent but, perhaps, a repeated answer.
LEMMA AckFrame ==
    ASSUME AckInv, UNCHANGED <<state, incarnation, members, admitted, sync, transfer,
                               transfers, operation, pending, log>>,
           \A t \in Threads : pc'[t] = "replicating" => pc[t] = "replicating",
           \A m \in messages' \ messages :
               m.type \notin AckKinds \/ (m.type = "CLIENT_ACK" /\ m.duplicate)
    PROVE  AckInv'
<1>1. /\ Sent("SNAPSHOT")' \subseteq Sent("SNAPSHOT")
      /\ Sent("SNAPSHOT_ACK")' \subseteq Sent("SNAPSHOT_ACK")
      /\ Sent("REPLICATION_ACK")' \subseteq Sent("REPLICATION_ACK")
      /\ \A m \in Sent("CLIENT_ACK")' : ~m.duplicate => m \in Sent("CLIENT_ACK")
  BY DEF Sent, AckKinds
<1>2. LivesInOrder' /\ TransfersKnown'
  BY <1>1 DEF AckInv, LivesInOrder, TransfersKnown
<1>3. TransfersAtHead' /\ AcksHeld'
  BY <1>1 DEF AckInv, TransfersAtHead, AcksHeld, Admitted, AtHead, Version
<1>4. OperationAtHead'
  BY DEF AckInv, OperationAtHead, Synchronised, AtHead, Version
<1>5. NewAckReplicated'
  BY <1>1 DEF AckInv, NewAckReplicated, Synchronised, Version
<1> QED BY <1>2, <1>3, <1>4, <1>5 DEF AckInv

--------------------------------------------------------------------------------
(* The threads *)

\* An accepted request: no transfer is under way, every acknowledgement is of an
\* earlier version, and every synchronised backup is waited for.
LEMMA CommitNewAck ==
    ASSUME TypeOK, LockInv, HistoryInv, AckInv, NEW t \in Threads, CommitNew(t)
    PROVE  AckInv'
<1> USE DEF serverVars, syncVars, memberVars, threadVars
<1> DEFINE next == ApplyRequest(state[Leader], job[t].client, job[t].req, job[t].value)
<1>0. PICK n \in Nat : n = Len(log)
  BY DEF TypeOK
<1>1. /\ state' = [state EXCEPT ![Leader] = next]
      /\ UNCHANGED <<incarnation, members, admitted, sync, transfer, transfers>>
      /\ commit_lock = None /\ pc' = [pc EXCEPT ![t] = "replicating"]
      /\ pending' = ActiveMembers
      /\ messages' = messages \cup {operation'} /\ operation'.type = "REPLICATION"
      /\ operation'.version = next.state_version
  BY DEF CommitNew, EnterCommit, Send
<1>2. \A s \in Backups : Version(s)' = Version(s)
  BY <1>1, ConstantsAssumption DEF TypeOK, Version
<1>3. Len(log') = n + 1
  BY <1>0 DEF CommitNew, TypeOK
<1>4. operation'.version = n + 1 /\ operation' # None
  <2>1. state[Leader].state_version = n
    BY <1>0 DEF HistoryInv, LogInv, LeaderAtHead, Version
  <2>2. TypeOK'
    BY StepTyped DEF Next, ThreadStep
  <2>3. /\ operation'.to \in SUBSET Backups /\ term[Leader] \in Nat
        /\ job[t].client \in Clients /\ job[t].req \in Uint64 /\ job[t].value \in Values
    BY DEF CommitNew, EnterCommit, ActiveMembers, TypeOK, Jobs, Requests
  <2>4. state'[Leader].state_version \in Nat /\ state'[Leader] = next
    BY <1>1, <2>2 DEF TypeOK, State
  <2>5. operation' \in Replications
    BY <2>3, <2>4 DEF CommitNew, Replications
  <2>6. operation' # None
    BY <2>5, ConstantsAssumption
  <2> QED BY <1>1, <2>1, <2>6 DEF ApplyRequest
<1>5. /\ Sent("SNAPSHOT")' = Sent("SNAPSHOT")
      /\ Sent("SNAPSHOT_ACK")' = Sent("SNAPSHOT_ACK")
      /\ Sent("REPLICATION_ACK")' = Sent("REPLICATION_ACK")
      /\ Sent("CLIENT_ACK")' = Sent("CLIENT_ACK")
  BY <1>1 DEF Sent
<1> HIDE DEF next
<1>6. LivesInOrder' /\ TransfersKnown'
  BY <1>1, <1>5 DEF AckInv, LivesInOrder, TransfersKnown
<1>7. TransfersAtHead'
  <2>1. \A s \in Backups : sync[s] \notin {"sending", "acknowledged"}
    BY <1>1, ConstantsAssumption DEF LockInv
  <2> QED BY <1>1, <2>1 DEF TransfersAtHead
<1>8. AcksHeld'
  <2>1. \A m \in Sent("REPLICATION_ACK") : m.version \in Nat /\ m.version <= n
    BY <1>0, MessageKinds DEF TypeOK, ReplicationAcks, AckInv, AcksHeld
  <2> QED BY <1>3, <1>5, <2>1 DEF AcksHeld
<1>9. OperationAtHead'
  BY <1>1, <1>3, <1>4 DEF OperationAtHead, ActiveMembers, Synchronised
<1>10. NewAckReplicated'
  BY <1>1, <1>2, <1>5 DEF AckInv, NewAckReplicated, Synchronised
<1> QED BY <1>6, <1>7, <1>8, <1>9, <1>10 DEF AckInv

\* replicate_to_all returns: no thread replicates any more, and an ACK of the
\* operation is sent only when no synchronised backup was still waited for.
LEMMA EndReplicationAck ==
    ASSUME TypeOK, LockInv, HistoryInv, AckInv, NEW t \in Threads, EndReplication(t),
           messages' = messages \/ Replicated(t)
    PROVE  AckInv'
<1> USE DEF serverVars, syncVars, memberVars, threadVars
<1>1. /\ UNCHANGED <<state, incarnation, members, admitted, sync, transfer, transfers, log>>
      /\ pc[t] = "replicating" /\ pc' = [pc EXCEPT ![t] = "idle"]
  BY DEF EndReplication
<1>2. \A u \in Threads : pc'[u] # "replicating"
  BY <1>1 DEF LockInv, TypeOK
<1>3. /\ Sent("SNAPSHOT")' = Sent("SNAPSHOT")
      /\ Sent("SNAPSHOT_ACK")' = Sent("SNAPSHOT_ACK")
      /\ Sent("REPLICATION_ACK")' = Sent("REPLICATION_ACK")
  BY DEF Sent, Replicated, Send, ClientAck
<1>4. LivesInOrder' /\ TransfersKnown'
  BY <1>1, <1>3 DEF AckInv, LivesInOrder, TransfersKnown
<1>5. TransfersAtHead' /\ AcksHeld'
  BY <1>1, <1>3 DEF AckInv, TransfersAtHead, AcksHeld, Admitted, AtHead, Version
<1>6. OperationAtHead'
  BY <1>2 DEF OperationAtHead
<1>7. NewAckReplicated'
  <2>1. CASE messages' = messages
    BY <1>1, <2>1 DEF AckInv, NewAckReplicated, Synchronised, Version, Sent
  <2>2. CASE Replicated(t)
    <3> DEFINE ack == ClientAck(job[t].client, job[t].req, state[Leader].num_reqs,
                                state[Leader].total_sum, FALSE)
    <3>1. Sent("CLIENT_ACK")' \subseteq Sent("CLIENT_ACK") \cup {ack} /\ pending = {}
      BY <2>2 DEF Replicated, Send, Sent
    <3>2. ack.num_reqs = Len(log)
      <4>1. state[Leader].num_reqs = Len(log)
        BY <1>1 DEF HistoryInv, LogInv, LeaderAtHead, LogSteps, CommitInv, StateAt, TypeOK
      <4> QED BY <4>1 DEF ClientAck
    <3>3. \A s \in Backups : Synchronised(s) => Version(s) >= Len(log)
      BY <1>1, <3>1 DEF AckInv, OperationAtHead, AtHead
    <3> HIDE DEF ack
    <3> QED BY <1>1, <3>1, <3>2, <3>3 DEF AckInv, NewAckReplicated, Synchronised, Version
  <2> QED BY <2>1, <2>2
<1> QED BY <1>4, <1>5, <1>6, <1>7 DEF AckInv

\* A backup that is no longer ACTIVE need not be waited for, and one that
\* acknowledged the operation's version has it.
LEMMA PendingAck ==
    ASSUME TypeOK, LockInv, HistoryInv, AckInv,
           \/ \E s \in Backups : DropInactive(s)
           \/ \E m \in Sent("REPLICATION_ACK") : HandleReplicationAck(m)
    PROVE  AckInv'
<1> USE DEF serverVars, syncVars, memberVars
<1>1. UNCHANGED <<state, incarnation, members, admitted, sync, transfer, transfers,
                  operation, pc, messages, log>>
  BY DEF DropInactive, HandleReplicationAck
<1>2. /\ LivesInOrder' /\ TransfersKnown' /\ TransfersAtHead' /\ AcksHeld'
      /\ NewAckReplicated'
  BY <1>1 DEF AckInv, LivesInOrder, TransfersKnown, TransfersAtHead, AcksHeld, Admitted,
              AtHead, Version, NewAckReplicated, Synchronised, Sent
<1>3. OperationAtHead'
  <2> SUFFICES ASSUME NEW t \in Threads, pc[t] = "replicating",
                      NEW s \in Backups, s \notin pending', Synchronised(s)
               PROVE  AtHead(s)
    BY <1>1 DEF AckInv, OperationAtHead, Synchronised, AtHead, Version
  <2>1. CASE s \notin pending
    BY <2>1 DEF AckInv, OperationAtHead
  <2>2. CASE s \in pending
    <3>1. ~DropInactive(s)
      BY DEF DropInactive, Synchronised
    <3>2. PICK m \in Sent("REPLICATION_ACK") : HandleReplicationAck(m)
      BY <2>2, <3>1 DEF DropInactive
    <3>3. m.from = s /\ m.version = operation.version
      BY <2>2, <3>2 DEF HandleReplicationAck
    <3>4. m.version = Len(log)
      BY <3>3 DEF AckInv, OperationAtHead
    <3> QED BY <3>2, <3>3, <3>4 DEF AckInv, AcksHeld, Synchronised, Admitted
  <2> QED BY <2>1, <2>2
<1> QED BY <1>2, <1>3 DEF AckInv

--------------------------------------------------------------------------------
(* Membership and synchronisation *)

\* What most steps of the leader may do: a backup changes its status, by which an
\* admission may be lost but none is won; a synchronisation may pass to a phase in
\* which nothing is waited for; and a snapshot of the head of the history may be
\* sent in a transfer already handed out.
LEMMA LeaderAck ==
    ASSUME TypeOK, HistoryInv, AckInv,
           \A q \in Backups :
               /\ admitted'[q] \in {0, admitted[q]}
               /\ members'[q] = "NONE" => admitted'[q] = 0
               /\ members'[q] = "ACTIVE" /\ admitted'[q] # 0 => members[q] = "ACTIVE"
               /\ sync'[q] \in {"sending", "acknowledged"} =>
                      sync'[q] = sync[q] /\ transfer'[q] = transfer[q]
               /\ transfer'[q] \in {0, transfer[q]},
           UNCHANGED <<state, incarnation, transfers, operation, pending, pc, log>>,
           \/ messages' = messages
           \/ \E s \in Backups, id \in Nat :
                  id <= transfers /\ messages' = messages \cup {Snapshot(s, id)}
    PROVE  AckInv'
<1>1. /\ transfers \in Nat /\ Len(log) \in Nat
      /\ \A q \in Backups : incarnation[q] \in Nat \ {0} /\ admitted[q] \in Nat
  BY DEF TypeOK
<1>2. /\ Sent("SNAPSHOT_ACK")' = Sent("SNAPSHOT_ACK")
      /\ Sent("REPLICATION_ACK")' = Sent("REPLICATION_ACK")
      /\ Sent("CLIENT_ACK")' = Sent("CLIENT_ACK")
  BY DEF Sent, Snapshot
<1>3. \A m \in Sent("SNAPSHOT")' \ Sent("SNAPSHOT") :
          m.transfer <= transfers /\ m.state.state_version = Len(log)
  <2>1. CASE messages' = messages
    BY <2>1 DEF Sent
  <2>2. ASSUME NEW s \in Backups, NEW id \in Nat, id <= transfers,
               messages' = messages \cup {Snapshot(s, id)},
               NEW m \in Sent("SNAPSHOT")', m \notin Sent("SNAPSHOT")
        PROVE  m.transfer <= transfers /\ m.state.state_version = Len(log)
    <3>1. m = Snapshot(s, id)
      BY <2>2 DEF Sent
    <3>2. m.transfer = id /\ m.state = state[Leader]
      BY <3>1 DEF Snapshot
    <3> QED BY <2>2, <3>2 DEF HistoryInv, LogInv, LeaderAtHead, Version
  <2> QED BY <2>1, <2>2
<1>4. \A q \in Backups : /\ Admitted(q)' => Admitted(q)
                         /\ Synchronised(q)' => Synchronised(q)
  BY <1>1 DEF Admitted, Synchronised
<1>5. LivesInOrder'
  BY <1>1, <1>2 DEF AckInv, LivesInOrder
<1>6. TransfersKnown'
  <2>1. \A q \in Backups : transfer'[q] <= transfers
    BY <1>1 DEF AckInv, TransfersKnown
  <2>2. \A q \in Backups : sync'[q] = "sending" => transfer'[q] # 0
    BY <1>1 DEF AckInv, TransfersKnown
  <2> QED BY <1>2, <1>3, <2>1, <2>2 DEF AckInv, TransfersKnown
<1>7. TransfersAtHead'
  <2>1. \A q \in Backups : AtHead(q)' = AtHead(q)
    BY DEF AtHead, Version
  <2>2. \A q \in Backups : sync'[q] = "sending" => \A m \in Sent("SNAPSHOT")' :
            m.to = q /\ m.transfer = transfer'[q] => m.state.state_version >= Len(log)
    BY <1>1, <1>3 DEF AckInv, TransfersAtHead
  <2>3. \A q \in Backups :
            /\ sync'[q] = "sending" => \A m \in Sent("SNAPSHOT_ACK") :
                   m.from = q /\ m.transfer = transfer'[q] /\ m.incarnation = incarnation[q]
                       => AtHead(q)
            /\ sync'[q] = "acknowledged" /\ Admitted(q)' => AtHead(q)
    BY <1>1, <1>4 DEF AckInv, TransfersAtHead
  <2> QED BY <1>2, <2>1, <2>2, <2>3 DEF TransfersAtHead
<1>8. AcksHeld'
  <2>1. \A a \in Sent("REPLICATION_ACK") : a.from \in Backups
    BY MessageKinds DEF TypeOK, ReplicationAcks
  <2> QED BY <1>2, <1>4, <2>1 DEF AckInv, AcksHeld, AtHead, Version
<1>9. OperationAtHead' /\ NewAckReplicated'
  BY <1>2, <1>4 DEF AckInv, OperationAtHead, NewAckReplicated, AtHead, Version
<1> QED BY <1>5, <1>6, <1>7, <1>8, <1>9 DEF AckInv

\* A synchronisation begins with a transfer identifier nobody has used.
LEMMA SyncBeginAck ==
    ASSUME TypeOK, HistoryInv, AckInv, NEW s \in Backups, SyncBegin(s)
    PROVE  AckInv'
<1> USE DEF serverVars, syncVars, memberVars, threadVars
<1> DEFINE m == Snapshot(s, transfers + 1)
<1>1. /\ m.to = s /\ m.transfer = transfers + 1 /\ m.state.state_version = Len(log)
      /\ Len(log) \in Nat /\ transfers \in Nat
  BY DEF Snapshot, HistoryInv, LogInv, LeaderAtHead, Version, TypeOK
<1>2. /\ Sent("SNAPSHOT")' = Sent("SNAPSHOT") \cup {m}
      /\ Sent("SNAPSHOT_ACK")' = Sent("SNAPSHOT_ACK")
      /\ Sent("REPLICATION_ACK")' = Sent("REPLICATION_ACK")
      /\ Sent("CLIENT_ACK")' = Sent("CLIENT_ACK")
  BY DEF SyncBegin, Send, Sent, Snapshot
<1> HIDE DEF m
<1>3. /\ UNCHANGED <<state, incarnation, members, admitted, operation, pending, pc, log>>
      /\ transfers' = transfers + 1
      /\ \A q \in Backups :
             /\ sync'[q] = IF q = s THEN "sending" ELSE sync[q]
             /\ transfer'[q] = IF q = s THEN transfers + 1 ELSE transfer[q]
             /\ transfer[q] \in Nat
  BY DEF SyncBegin, TypeOK
<1>4. LivesInOrder' /\ AcksHeld' /\ OperationAtHead' /\ NewAckReplicated'
  BY <1>2, <1>3 DEF AckInv, LivesInOrder, AcksHeld, OperationAtHead, NewAckReplicated,
                    Admitted, Synchronised, AtHead, Version
<1>5. /\ \A x \in Sent("SNAPSHOT") : x.transfer \in Nat /\ x.transfer <= transfers
      /\ \A x \in Sent("SNAPSHOT_ACK") : x.transfer \in Nat /\ x.transfer <= transfers
  BY MessageKinds DEF TypeOK, Snapshots, SnapshotAcks, AckInv, TransfersKnown
<1>6. TransfersKnown'
  BY <1>1, <1>2, <1>3, <1>5 DEF AckInv, TransfersKnown
<1>7. TransfersAtHead'
  <2> SUFFICES ASSUME NEW q \in Backups
               PROVE  /\ sync'[q] = "sending" =>
                           /\ \A x \in Sent("SNAPSHOT")' : x.to = q /\ x.transfer = transfer'[q]
                                  => x.state.state_version >= Len(log)
                           /\ \A x \in Sent("SNAPSHOT_ACK") :
                                  x.from = q /\ x.transfer = transfer'[q]
                                     /\ x.incarnation = incarnation[q] => AtHead(q)
                      /\ sync'[q] = "acknowledged" /\ Admitted(q) => AtHead(q)
    BY <1>2, <1>3 DEF TransfersAtHead, Admitted, AtHead, Version
  <2>1. CASE q = s
    BY <1>1, <1>2, <1>3, <1>5, <2>1
  <2>2. CASE q # s
    BY <1>1, <1>2, <1>3, <2>2 DEF AckInv, TransfersAtHead
  <2> QED BY <2>1, <2>2
<1> QED BY <1>4, <1>6, <1>7 DEF AckInv

\* The acknowledgement of the transfer that is waited for admits its sender; if it
\* was sent in the life that runs now, the sender has the head of the history.
LEMMA SnapshotAckReceived ==
    ASSUME TypeOK, HistoryInv, AckInv, NEW m \in Sent("SNAPSHOT_ACK"), HandleSnapshotAck(m),
           sync[m.from] = "sending", transfer[m.from] = m.transfer
    PROVE  AckInv'
<1> USE DEF serverVars, syncVars, memberVars, threadVars
<1> DEFINE s == m.from
<1>1. s \in Backups /\ m.incarnation \in Nat
  BY MessageKinds DEF TypeOK, SnapshotAcks
<1>2. /\ UNCHANGED <<state, incarnation, transfers, operation, pending, pc, messages, log>>
      /\ \A q \in Backups :
             /\ sync'[q] = IF q = s THEN "acknowledged" ELSE sync[q]
             /\ transfer'[q] = IF q = s THEN 0 ELSE transfer[q]
             /\ admitted'[q] = IF q = s THEN m.incarnation ELSE admitted[q]
             /\ q # s => members'[q] = members[q]
      /\ members'[s] # "NONE"
  BY <1>1 DEF HandleSnapshotAck, NoteServer, TypeOK
<1>3. Admitted(s)' => AtHead(s)
  BY <1>1, <1>2 DEF AckInv, TransfersAtHead, Admitted
<1>4. LivesInOrder'
  BY <1>1, <1>2 DEF AckInv, LivesInOrder, Sent
<1>5. TransfersKnown'
  <2>1. transfers \in Nat
    BY DEF TypeOK
  <2> QED BY <1>1, <1>2, <2>1 DEF AckInv, TransfersKnown, Sent
<1>6. TransfersAtHead'
  BY <1>1, <1>2, <1>3 DEF AckInv, TransfersAtHead, Admitted, AtHead, Version, Sent
<1>7. AcksHeld'
  <2> SUFFICES ASSUME NEW a \in Sent("REPLICATION_ACK"), Admitted(a.from)', a.version = Len(log)
               PROVE  AtHead(a.from)
    BY <1>2 DEF AckInv, AcksHeld, AtHead, Version, Sent, Admitted
  <2>1. a.from \in Backups
    BY MessageKinds DEF TypeOK, ReplicationAcks
  <2>2. CASE a.from = s
    BY <1>3, <2>2
  <2>3. CASE a.from # s
    BY <1>2, <2>1, <2>3 DEF AckInv, AcksHeld, Admitted
  <2> QED BY <2>2, <2>3
<1>8. OperationAtHead'
  BY <1>1, <1>2, <1>3 DEF AckInv, OperationAtHead, Synchronised, Admitted, AtHead, Version
<1>9. NewAckReplicated'
  <2> SUFFICES ASSUME NEW a \in Sent("CLIENT_ACK"), ~a.duplicate,
                      NEW q \in Backups, Synchronised(q)'
               PROVE  Version(q) >= a.num_reqs
    BY <1>2 DEF NewAckReplicated, Version, Sent
  <2>1. CASE q = s
    <3>1. Version(s) >= Len(log) /\ Version(s) \in Nat /\ Len(log) \in Nat
      BY <1>1, <1>3, <2>1 DEF Synchronised, Admitted, AtHead, Version, TypeOK, State
    <3>2. a.num_reqs \in Nat /\ a.num_reqs <= Len(log)
      BY MessageKinds DEF HistoryInv, NetInv, AckTruthful, TypeOK, ClientAcks
    <3> QED BY <2>1, <3>1, <3>2
  <2>2. CASE q # s
    BY <1>2, <2>2 DEF AckInv, NewAckReplicated, Synchronised
  <2> QED BY <2>1, <2>2
<1> QED BY <1>4, <1>5, <1>6, <1>7, <1>8, <1>9 DEF AckInv

\* A transfer that was acknowledged ends: if the sender has not crashed since, it
\* becomes ACTIVE with the head of the history.
LEMMA SyncFinishAck ==
    ASSUME TypeOK, LockInv, HistoryInv, AckInv, NEW s \in Backups, SyncFinish(s)
    PROVE  AckInv'
<1> USE DEF serverVars, syncVars, memberVars, threadVars
<1>1. /\ UNCHANGED <<state, incarnation, transfer, transfers, admitted, operation, pending,
                     pc, messages, log>>
      /\ sync[s] = "acknowledged"
      /\ \A q \in Backups :
             /\ sync'[q] = IF q = s THEN "ending" ELSE sync[q]
             /\ members'[q] = "NONE" => members[q] = "NONE"
             /\ q # s => members'[q] = members[q]
  BY DEF SyncFinish, TypeOK
<1>2. Admitted(s) => AtHead(s)
  BY <1>1 DEF AckInv, TransfersAtHead
<1>3. LivesInOrder' /\ TransfersKnown'
  BY <1>1 DEF AckInv, LivesInOrder, TransfersKnown, Sent
<1>4. TransfersAtHead' /\ AcksHeld'
  BY <1>1 DEF AckInv, TransfersAtHead, AcksHeld, Admitted, AtHead, Version, Sent
<1>5. OperationAtHead'
  BY <1>1, <1>2 DEF AckInv, OperationAtHead, Synchronised, Admitted, AtHead, Version
<1>6. NewAckReplicated'
  <2> SUFFICES ASSUME NEW a \in Sent("CLIENT_ACK"), ~a.duplicate,
                      NEW q \in Backups, Synchronised(q)'
               PROVE  Version(q) >= a.num_reqs
    BY <1>1 DEF NewAckReplicated, Version, Sent
  <2>1. CASE q = s
    <3>1. Version(s) >= Len(log) /\ Version(s) \in Nat /\ Len(log) \in Nat
      BY <1>1, <1>2, <2>1 DEF Synchronised, Admitted, AtHead, Version, TypeOK, State
    <3>2. a.num_reqs \in Nat /\ a.num_reqs <= Len(log)
      BY MessageKinds DEF HistoryInv, NetInv, AckTruthful, TypeOK, ClientAcks
    <3> QED BY <2>1, <3>1, <3>2
  <2>2. CASE q # s
    BY <1>1, <2>2 DEF AckInv, NewAckReplicated, Synchronised
  <2> QED BY <2>1, <2>2
<1> QED BY <1>3, <1>4, <1>5, <1>6 DEF AckInv

--------------------------------------------------------------------------------
(* The backups *)

\* A running backup that goes forward, or stays, keeps what it acknowledged; what it
\* acknowledges in this step, if anything, is its version, or the transfer of a
\* snapshot with which it has reached the head of the history.
LEMMA BackupAck ==
    ASSUME TypeOK, AckInv, NEW s \in Backups, NEW st \in State,
           state' = [state EXCEPT ![s] = st], st.state_version >= Version(s),
           UNCHANGED <<incarnation, members, admitted, sync, transfer, transfers, operation,
                       pending, pc, log>>,
           NEW a, messages' = messages \cup {a},
           \/ a.type \notin AckKinds
           \/ /\ a.type = "REPLICATION_ACK" /\ a.from = s
              /\ a.version = st.state_version /\ a.version <= Len(log)
           \/ /\ a.type = "SNAPSHOT_ACK" /\ a.from = s
              /\ a.incarnation = incarnation[s] /\ a.transfer <= transfers
              /\ sync[s] = "sending" /\ a.transfer = transfer[s] =>
                     st.state_version >= Len(log)
    PROVE  AckInv'
<1>1. /\ Version(s)' = st.state_version
      /\ \A q \in Backups : /\ Version(q) \in Nat /\ Version(q)' \in Nat
                            /\ Version(q)' >= Version(q)
      /\ Len(log) \in Nat
  BY DEF TypeOK, State, Version
<1>2. \A q \in Backups : AtHead(q) => AtHead(q)'
  BY <1>1 DEF AtHead
<1>3. /\ Sent("SNAPSHOT")' = Sent("SNAPSHOT")
      /\ Sent("CLIENT_ACK")' = Sent("CLIENT_ACK")
      /\ Sent("SNAPSHOT_ACK")' \subseteq Sent("SNAPSHOT_ACK") \cup {a}
      /\ Sent("REPLICATION_ACK")' \subseteq Sent("REPLICATION_ACK") \cup {a}
      /\ a \in Sent("SNAPSHOT_ACK")' => a.type = "SNAPSHOT_ACK"
      /\ a \in Sent("REPLICATION_ACK")' => a.type = "REPLICATION_ACK"
  BY DEF Sent, AckKinds
<1>4. LivesInOrder'
  BY <1>3 DEF AckInv, LivesInOrder, AckKinds, TypeOK
<1>5. TransfersKnown'
  BY <1>3 DEF AckInv, TransfersKnown, AckKinds
<1>6. TransfersAtHead'
  <2>1. \A q \in Backups : sync[q] = "acknowledged" /\ Admitted(q)' => AtHead(q)'
    BY <1>2 DEF AckInv, TransfersAtHead, Admitted
  <2>2. \A q \in Backups : sync[q] = "sending" => \A m \in Sent("SNAPSHOT_ACK")' :
            m.from = q /\ m.transfer = transfer[q] /\ m.incarnation = incarnation[q]
                => AtHead(q)'
    BY <1>1, <1>2, <1>3 DEF AckInv, TransfersAtHead, AtHead, AckKinds
  <2> QED BY <1>3, <2>1, <2>2 DEF AckInv, TransfersAtHead
<1>7. AcksHeld'
  <2> SUFFICES ASSUME NEW m \in Sent("REPLICATION_ACK")'
               PROVE  /\ m.version <= Len(log)
                      /\ m.version = Len(log) /\ Admitted(m.from) => AtHead(m.from)'
    BY DEF AcksHeld, Admitted
  <2>1. CASE m \in Sent("REPLICATION_ACK")
    <3>1. m.from \in Backups
      BY <2>1, MessageKinds DEF TypeOK, ReplicationAcks
    <3> QED BY <1>2, <2>1, <3>1 DEF AckInv, AcksHeld
  <2>2. CASE m = a
    BY <1>1, <1>3, <2>2 DEF AtHead, AckKinds
  <2> QED BY <1>3, <2>1, <2>2
<1>8. OperationAtHead'
  BY <1>2 DEF AckInv, OperationAtHead, Synchronised
<1>9. NewAckReplicated'
  <2> SUFFICES ASSUME NEW m \in Sent("CLIENT_ACK"), ~m.duplicate,
                      NEW q \in Backups, Synchronised(q)
               PROVE  Version(q)' >= m.num_reqs
    BY <1>3 DEF NewAckReplicated, Synchronised
  <2>1. Version(q) >= m.num_reqs
    BY DEF AckInv, NewAckReplicated
  <2>2. m.num_reqs \in Nat
    BY MessageKinds DEF TypeOK, ClientAcks
  <2> QED BY <1>1, <2>1, <2>2
<1> QED BY <1>4, <1>5, <1>6, <1>7, <1>8, <1>9 DEF AckInv

\* handle_replication
LEMMA HandleReplicationStep ==
    ASSUME TypeOK, HistoryInv, AckInv, NEW s \in Backups, NEW m \in Sent("REPLICATION"),
           HandleReplication(s, m)
    PROVE  AckInv'
<1> USE DEF serverVars, syncVars, memberVars, threadVars, backupUnchanged
<1> DEFINE st == ApplyReplication(state[s], m)
<1>1. /\ UNCHANGED <<incarnation, members, admitted, sync, transfer, transfers, operation,
                     pending, pc, log>>
      /\ state' = [state EXCEPT ![s] = st]
  BY DEF HandleReplication
<1>2. state[s] \in State /\ m \in Replications
  BY MessageKinds DEF TypeOK
<1>3. st \in State /\ st.state_version >= Version(s)
  BY <1>2, EmptyStateTyped, ReplicaTyped, ReplicaForward DEF Version
<1>4. state'[s] = st
  BY <1>1 DEF TypeOK
<1>5. st.state_version <= Len(log)
  BY ReplicationOnHistory
<1>6. CASE ReplicationOutcome(state[s], m) = "REFUSED"
  <2> DEFINE a == [type |-> "SNAPSHOT_REQUEST", from |-> s]
  <2>1. messages' = messages \cup {a}
    BY <1>6 DEF HandleReplication, Send
  <2>2. a.type \notin AckKinds
    BY DEF AckKinds
  <2> HIDE DEF a, st
  <2> QED BY <1>1, <1>3, <2>1, <2>2, BackupAck
<1>7. CASE ReplicationOutcome(state[s], m) # "REFUSED"
  <2> DEFINE a == [type |-> "REPLICATION_ACK", from |-> s,
                   version |-> state'[s].state_version, term |-> term[s]]
  <2>1. messages' = messages \cup {a}
    BY <1>7 DEF HandleReplication, Send
  <2>2. /\ a.type = "REPLICATION_ACK" /\ a.from = s
        /\ a.version = st.state_version /\ a.version <= Len(log)
    BY <1>4, <1>5
  <2> HIDE DEF a, st
  <2> QED BY <1>1, <1>3, <2>1, <2>2, BackupAck
<1> QED BY <1>6, <1>7

\* handle_snapshot_chunk: whether it is installed or refused, the backup is then at
\* least at the snapshot's version, which is the head of the history if the leader
\* waits for this transfer.
LEMMA HandleSnapshotStep ==
    ASSUME TypeOK, HistoryInv, AckInv, NEW s \in Backups, NEW m \in Sent("SNAPSHOT"),
           HandleSnapshot(s, m)
    PROVE  AckInv'
<1> USE DEF serverVars, syncVars, memberVars, threadVars, backupUnchanged
<1> DEFINE st == InstallSnapshot(state[s], m.state)
           a  == [type |-> "SNAPSHOT_ACK", from |-> s, transfer |-> m.transfer,
                  incarnation |-> incarnation[s]]
<1>1. /\ UNCHANGED <<incarnation, members, admitted, sync, transfer, transfers, operation,
                     pending, pc, log>>
      /\ state' = [state EXCEPT ![s] = st]
      /\ m.to = s
      /\ messages' = messages \cup {a}
  BY DEF HandleSnapshot, Send
<1>2. state[s] \in State /\ m.state \in State
  BY MessageKinds DEF TypeOK, Snapshots
<1>3. st \in State /\ st.state_version >= Version(s)
  BY <1>2, ReplicaForward DEF Version, InstallSnapshot
<1>4. st.state_version >= m.state.state_version
  BY <1>2 DEF InstallSnapshot, RefusesSnapshot, State
<1>5. /\ st.state_version \in Nat /\ m.state.state_version \in Nat /\ Len(log) \in Nat
  BY <1>2, <1>3 DEF State, TypeOK
<1>6. sync[s] = "sending" /\ m.transfer = transfer[s] => st.state_version >= Len(log)
  BY <1>1, <1>4, <1>5 DEF AckInv, TransfersAtHead
<1>7. /\ a.type = "SNAPSHOT_ACK" /\ a.from = s
      /\ a.incarnation = incarnation[s] /\ a.transfer <= transfers
      /\ sync[s] = "sending" /\ a.transfer = transfer[s] => st.state_version >= Len(log)
  BY <1>6 DEF AckInv, TransfersKnown
<1> HIDE DEF st, a
<1> QED BY <1>1, <1>3, <1>7, BackupAck

\* A restarted backup is no longer the one that was admitted, and none of the
\* acknowledgements on their way are of its new life.
LEMMA RestartStep ==
    ASSUME TypeOK, AckInv, NEW s \in Backups, Restart(s)
    PROVE  AckInv'
<1> USE DEF serverVars, syncVars, memberVars, threadVars, backupUnchanged
<1>1. /\ UNCHANGED <<members, admitted, sync, transfer, transfers, operation, pending, pc,
                     messages, log>>
      /\ \A q \in Backups :
             /\ incarnation[q] \in Nat /\ admitted[q] \in Nat
             /\ incarnation'[q] = IF q = s THEN incarnation[q] + 1 ELSE incarnation[q]
             /\ q # s => Version(q)' = Version(q)
  BY DEF Restart, TypeOK, Version
<1>2. \A m \in Sent("SNAPSHOT_ACK") :
          m.from \in Backups /\ m.incarnation \in Nat /\ m.incarnation <= incarnation[m.from]
  BY MessageKinds DEF TypeOK, SnapshotAcks, AckInv, LivesInOrder
<1>3. ~Admitted(s)' /\ ~Synchronised(s)'
  BY <1>1 DEF AckInv, LivesInOrder, Admitted, Synchronised
<1>4. LivesInOrder'
  BY <1>1, <1>2 DEF AckInv, LivesInOrder, Sent
<1>5. TransfersKnown'
  BY <1>1 DEF AckInv, TransfersKnown, Sent
<1>6. TransfersAtHead'
  <2> SUFFICES ASSUME NEW q \in Backups
               PROVE  /\ sync[q] = "sending" =>
                            /\ \A m \in Sent("SNAPSHOT") : m.to = q /\ m.transfer = transfer[q]
                                   => m.state.state_version >= Len(log)
                            /\ \A m \in Sent("SNAPSHOT_ACK") :
                                   m.from = q /\ m.transfer = transfer[q]
                                      /\ m.incarnation = incarnation'[q] => AtHead(q)'
                      /\ sync[q] = "acknowledged" /\ Admitted(q)' => AtHead(q)'
    BY <1>1 DEF TransfersAtHead, Sent
  <2>1. CASE q = s
    BY <1>1, <1>2, <1>3, <2>1 DEF AckInv, TransfersAtHead
  <2>2. CASE q # s
    BY <1>1, <2>2 DEF AckInv, TransfersAtHead, Admitted, AtHead
  <2> QED BY <2>1, <2>2
<1>7. AcksHeld'
  <2>1. \A m \in Sent("REPLICATION_ACK") : m.from \in Backups
    BY MessageKinds DEF TypeOK, ReplicationAcks
  <2> QED BY <1>1, <1>3, <2>1 DEF AckInv, AcksHeld, Admitted, AtHead, Sent
<1>8. OperationAtHead'
  BY <1>1, <1>3 DEF AckInv, OperationAtHead, Synchronised, AtHead
<1>9. NewAckReplicated'
  BY <1>1, <1>3 DEF AckInv, NewAckReplicated, Synchronised, Sent
<1> QED BY <1>4, <1>5, <1>6, <1>7, <1>8, <1>9 DEF AckInv

--------------------------------------------------------------------------------
(* The step: one case per action *)

LEMMA StepAck == TypeOK /\ LockInv /\ HistoryInv /\ AckInv /\ [Next]_vars => AckInv'
<1> SUFFICES ASSUME TypeOK, LockInv, HistoryInv, AckInv, [Next]_vars PROVE AckInv'
  OBVIOUS
<1> USE DEF serverVars, syncVars, memberVars, threadVars, backupUnchanged
<1> DEFINE Quiet == /\ UNCHANGED <<state, incarnation, members, admitted, sync, transfer,
                                   transfers, operation, pending, log>>
                    /\ \A t \in Threads : pc'[t] = "replicating" => pc[t] = "replicating"
<1>f. ASSUME Quiet, \A m \in messages' \ messages :
                        m.type \notin AckKinds \/ (m.type = "CLIENT_ACK" /\ m.duplicate)
      PROVE  AckInv'
  BY <1>f, AckFrame
<1>q. ASSUME Quiet, messages' = messages
      PROVE  AckInv'
  BY <1>q, AckFrame
<1>1. ASSUME NEW c \in Clients, SendRequest(c) PROVE AckInv'
  <2>1. \A m \in messages' \ messages :
            m.type \notin AckKinds \/ (m.type = "CLIENT_ACK" /\ m.duplicate)
    BY <1>1 DEF SendRequest, Send, Request, AckKinds
  <2>2. Quiet
    BY <1>1 DEF SendRequest
  <2> QED BY <1>f, <2>1, <2>2
<1>2. ASSUME NEW c \in Clients, ReceiveAck(c) PROVE AckInv'
  BY <1>2, <1>q DEF ReceiveAck
<1>3. ASSUME NEW t \in Threads, ThreadStep(t) PROVE AckInv'
  <2>1. ASSUME NEW phase, phase # "replicating", pc' = [pc EXCEPT ![t] = phase]
        PROVE  \A u \in Threads : pc'[u] = "replicating" => pc[u] = "replicating"
    BY <2>1 DEF TypeOK
  <2>2. ASSUME LeaveCommit(t) PROVE Quiet
    BY <2>1, <2>2 DEF LeaveCommit
  <2>3. ASSUME NEW m \in Sent("CLIENT_REQUEST"), Dispatch(t, m) PROVE AckInv'
    BY <1>q, <2>1, <2>3 DEF Dispatch
  <2>4. CASE CommitNotPrimary(t) \/ CommitFuture(t) \/ CommitOverflow(t)
    BY <1>q, <2>2, <2>4 DEF CommitNotPrimary, CommitFuture, CommitOverflow
  <2>5. CASE CommitDuplicate(t)
    <3>1. \A m \in messages' \ messages : m.type = "CLIENT_ACK" /\ m.duplicate
      <4> DEFINE record == state[Leader].clients[job[t].client]
                 ack == ClientAck(job[t].client, record.last_req, record.last_num_reqs,
                                  record.last_total_sum, TRUE)
      <4>1. messages' = messages \cup {ack}
        BY <2>5 DEF CommitDuplicate, Send
      <4>2. ack.type = "CLIENT_ACK" /\ ack.duplicate
        BY DEF ClientAck
      <4> QED BY <4>1, <4>2
    <3>2. Quiet
      BY <2>2, <2>5 DEF CommitDuplicate
    <3> QED BY <1>f, <3>1, <3>2
  <2>6. CASE CommitNew(t)
    BY <2>6, CommitNewAck
  <2>7. CASE Interrupted(t) \/ ReplicationTimeout(t) \/ Replicated(t)
    BY <2>7, EndReplicationAck DEF Interrupted, ReplicationTimeout, Replicated
  <2> QED BY <1>3, <2>3, <2>4, <2>5, <2>6, <2>7 DEF ThreadStep
<1>4. ASSUME NEW s \in Backups, SyncStep(s) PROVE AckInv'
  <2>0. \A q \in Backups : /\ admitted[q] \in Nat
                           /\ members[q] = "NONE" => admitted[q] = 0
                           /\ transfer[q] \in Nat /\ transfer[q] <= transfers
    BY DEF TypeOK, AckInv, TransfersKnown, LivesInOrder
  <2>1. CASE SyncBegin(s)
    BY <2>1, SyncBeginAck
  <2>2. ASSUME NEW phase \in {"idle", "ending"}, sync' = [sync EXCEPT ![s] = phase],
               UNCHANGED <<state, incarnation, members, admitted, transfer, transfers,
                           operation, pending, pc, messages, log>>
        PROVE  AckInv'
    <3>1. \A q \in Backups : sync'[q] = IF q = s THEN phase ELSE sync[q]
      BY <2>2 DEF TypeOK
    <3> QED BY <2>0, <2>2, <3>1, LeaderAck
  <2>3. CASE SyncRefused(s) \/ SyncEnd(s)
    BY <2>2, <2>3 DEF SyncRefused, SyncEnd
  <2>4. CASE Resend(s)
    <3>1. \E q \in Backups, id \in Nat :
              id <= transfers /\ messages' = messages \cup {Snapshot(q, id)}
      BY <2>0, <2>4 DEF Resend, Send
    <3> QED BY <2>0, <2>4, <3>1, LeaderAck DEF Resend
  <2>5. CASE SyncFinish(s)
    BY <2>5, SyncFinishAck
  <2>6. CASE SyncFailed(s)
    <3>1. /\ UNCHANGED <<state, incarnation, transfers, operation, pending, pc, messages, log>>
          /\ \A q \in Backups :
                 /\ members'[q] = IF q = s THEN "NONE" ELSE members[q]
                 /\ admitted'[q] = IF q = s THEN 0 ELSE admitted[q]
                 /\ sync'[q] = IF q = s THEN "ending" ELSE sync[q]
                 /\ transfer'[q] = IF q = s THEN 0 ELSE transfer[q]
      BY <2>6 DEF SyncFailed, TypeOK
    <3> QED BY <2>0, <3>1, LeaderAck
  <2> QED BY <1>4, <2>1, <2>3, <2>4, <2>5, <2>6 DEF SyncStep
<1>5. CASE LeaderStep
  \* note_server enters a sender that was unknown, and so was not admitted.
  <2>n. ASSUME NEW s \in Backups, NEW status \in {"JOINING", "ACTIVE"}, NoteServer(s, status)
        PROVE  \A q \in Backups :
                   /\ members'[q] = "NONE" => admitted[q] = 0
                   /\ members'[q] = "ACTIVE" /\ admitted[q] # 0 => members[q] = "ACTIVE"
    BY <2>n DEF NoteServer, TypeOK, AckInv, LivesInOrder
  <2>1. ASSUME NEW s \in Backups, DropInactive(s) PROVE AckInv'
    BY <2>1, PendingAck
  <2>2. ASSUME NEW s \in Backups, RemoveMember(s) PROVE AckInv'
    <3>1. /\ UNCHANGED <<state, incarnation, sync, transfer, transfers, operation, pending,
                         pc, messages, log>>
          /\ \A q \in Backups :
                 /\ members'[q] = IF q = s THEN "NONE" ELSE members[q]
                 /\ admitted'[q] = IF q = s THEN 0 ELSE admitted[q]
                 /\ members[q] = "NONE" => admitted[q] = 0
      BY <2>2 DEF RemoveMember, TypeOK, AckInv, LivesInOrder
    <3> QED BY <3>1, LeaderAck
  <2>3. ASSUME NEW m \in Sent("REPLICATION_ACK"), HandleReplicationAck(m) PROVE AckInv'
    BY <2>3, PendingAck
  <2>4. ASSUME NEW m \in Sent("SERVER_HELLO"), HandleServerHello(m) PROVE AckInv'
    <3>1. m.from \in Backups
      BY MessageKinds DEF TypeOK, Notices
    <3>2. \A q \in Backups : sync'[q] \in {"sending", "acknowledged"} => sync'[q] = sync[q]
      BY <2>4, <3>1 DEF HandleServerHello, TypeOK
    <3>3. \A q \in Backups :
              /\ members'[q] = "NONE" => admitted[q] = 0
              /\ members'[q] = "ACTIVE" /\ admitted[q] # 0 => members[q] = "ACTIVE"
      BY <2>4, <2>n, <3>1 DEF HandleServerHello
    <3> QED BY <2>4, <3>2, <3>3, LeaderAck DEF HandleServerHello
  <2>5. ASSUME NEW m \in Sent("SNAPSHOT_ACK"), HandleSnapshotAck(m) PROVE AckInv'
    <3>1. m.from \in Backups
      BY MessageKinds DEF TypeOK, SnapshotAcks
    <3>2. CASE sync[m.from] = "sending" /\ transfer[m.from] = m.transfer
      BY <2>5, <3>2, SnapshotAckReceived
    <3>3. CASE ~(sync[m.from] = "sending" /\ transfer[m.from] = m.transfer)
      <4>1. \A q \in Backups :
                /\ members'[q] = "NONE" => admitted[q] = 0
                /\ members'[q] = "ACTIVE" /\ admitted[q] # 0 => members[q] = "ACTIVE"
        BY <2>5, <2>n, <3>1 DEF HandleSnapshotAck
      <4> QED BY <2>5, <3>3, <4>1, LeaderAck DEF HandleSnapshotAck
    <3> QED BY <3>2, <3>3
  <2>6. ASSUME NEW m \in Sent("SNAPSHOT_REQUEST"), HandleSnapshotRequest(m) PROVE AckInv'
    <3>1. m.from \in Backups
      BY MessageKinds DEF TypeOK, Notices
    <3>2. \A q \in Backups :
              /\ members'[q] = "NONE" => admitted[q] = 0
              /\ members'[q] = "ACTIVE" /\ admitted[q] # 0 => members[q] = "ACTIVE"
      BY <2>6, <2>n, <3>1 DEF HandleSnapshotRequest
    <3>3. \E q \in Backups, id \in Nat :
              id <= transfers /\ messages' = messages \cup {Snapshot(q, id)}
      <4>1. 0 \in Nat /\ 0 <= transfers /\ messages' = messages \cup {Snapshot(m.from, 0)}
        BY <2>6 DEF HandleSnapshotRequest, Send, TypeOK
      <4> QED BY <3>1, <4>1
    <3> QED BY <2>6, <3>2, <3>3, LeaderAck DEF HandleSnapshotRequest
  <2>7. ASSUME NEW m \in Sent("ELECTION"), HandleElection(m) PROVE AckInv'
    <3>1. m.from \in Backups
      BY MessageKinds DEF TypeOK, Elections
    <3>2. \A q \in Backups :
              /\ members'[q] = "NONE" => admitted[q] = 0
              /\ members'[q] = "ACTIVE" /\ admitted[q] # 0 => members[q] = "ACTIVE"
      BY <2>7, <2>n, <3>1 DEF HandleElection
    <3> QED BY <2>7, <3>2, LeaderAck DEF HandleElection
  <2>8. CASE LeaderStartElection
    BY <1>q, <2>8 DEF LeaderStartElection
  <2>9. CASE SendHeartbeat
    <3>1. \A m \in messages' \ messages :
              m.type \notin AckKinds \/ (m.type = "CLIENT_ACK" /\ m.duplicate)
      BY <2>9 DEF SendHeartbeat, Send, AckKinds
    <3>2. Quiet
      BY <2>9 DEF SendHeartbeat
    <3> QED BY <1>f, <3>1, <3>2
  <2> QED BY <1>5, <2>1, <2>2, <2>3, <2>4, <2>5, <2>6, <2>7, <2>8, <2>9 DEF LeaderStep
<1>6. ASSUME NEW s \in Backups, BackupStep(s) PROVE AckInv'
  <2>1. ASSUME NEW m \in Sent("HEARTBEAT"), HandleHeartbeat(s, m) PROVE AckInv'
    BY <1>q, <2>1 DEF HandleHeartbeat
  <2>2. ASSUME NEW m \in Sent("REPLICATION"), HandleReplication(s, m) PROVE AckInv'
    BY <2>2, HandleReplicationStep
  <2>3. ASSUME NEW m \in Sent("SNAPSHOT"), HandleSnapshot(s, m) PROVE AckInv'
    BY <2>3, HandleSnapshotStep
  <2>4. CASE BackupStartElection(s)
    <3>1. \A m \in messages' \ messages :
              m.type \notin AckKinds \/ (m.type = "CLIENT_ACK" /\ m.duplicate)
      BY <2>4 DEF BackupStartElection, Send, AckKinds
    <3>2. Quiet
      BY <2>4 DEF BackupStartElection
    <3> QED BY <1>f, <3>1, <3>2
  <2>5. CASE Restart(s)
    BY <2>5, RestartStep
  <2> QED BY <1>6, <2>1, <2>2, <2>3, <2>4, <2>5 DEF BackupStep
<1>7. CASE UNCHANGED vars
  BY <1>7, <1>q DEF vars
<1> QED BY <1>1, <1>2, <1>3, <1>4, <1>5, <1>6, <1>7 DEF Next, ClientStep

--------------------------------------------------------------------------------
(* The theorem *)

\* Whatever acknowledgements were late or repeated, whoever crashed, was removed or
\* synchronised again: the result of every request that replicate_to_all completed
\* (README.md:27-28) is held by every ACTIVE backup that was synchronised and has not
\* crashed since.
THEOREM NewAcksHeld == Spec => []NewAckReplicated
<1>1. AckInv => NewAckReplicated
  BY DEF AckInv
<1> QED BY <1>1, InitTyped, StepTyped, InitLock, StepLock, InitHistory, StepHistory,
           InitAck, StepAck, PTL DEF Spec

================================================================================
