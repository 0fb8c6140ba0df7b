------------------------ MODULE ReplicationServiceProofs ------------------------
(***************************************************************************)
(* The replicated cluster implements the service SumService, whatever the  *)
(* constants are: every step is an abstract step or changes nothing that   *)
(* clients see.                                                            *)
(***************************************************************************)
EXTENDS ReplicationProofs

\* The abstract state, as in the instance Service of Replication.
Hist == [i \in DOMAIN log |-> [client    |-> log[i].client,
                               req       |-> log[i].req,
                               value     |-> log[i].value,
                               total_sum |-> log[i].state.total_sum]]

Told == {[client |-> m.client, req |-> m.req, num_reqs |-> m.num_reqs,
          total_sum |-> m.total_sum] : m \in Sent("CLIENT_ACK")}

LEMMA InitService == Init => Service!Init
<1> SUFFICES ASSUME Init PROVE Service!Init
  OBVIOUS
<1>1. log = <<>> /\ DOMAIN log = {} /\ Sent("CLIENT_ACK") = {}
  BY DEF Init, Sent
<1>2. Hist = <<>>
  BY <1>1 DEF Hist
<1>3. Told = {}
  BY <1>1 DEF Told
<1> QED BY <1>2, <1>3 DEF Service!Init, Hist, Told

LEMMA FunctionIsSeq ==
    ASSUME NEW S, NEW n \in Nat, NEW f \in [1 .. n -> S]
    PROVE  f \in Seq(S)
<1>1. [1 .. n -> S] \in {[1 .. k -> S] : k \in Nat}
  OBVIOUS
<1>2. f \in UNION {[1 .. k -> S] : k \in Nat}
  BY <1>1
<1> QED BY <1>2, SeqDef, Zenon

HistEntries == [client : Clients, req : Nat, value : Values, total_sum : Uint64]

HistOK == /\ Hist \in Seq(HistEntries)
          /\ Len(Hist) = Len(log)
          /\ DOMAIN Hist = 1 .. Len(log)

LEMMA HistTyped ==
    TypeOK => HistOK
<1> SUFFICES ASSUME TypeOK PROVE HistOK
  OBVIOUS
<1>1. /\ Len(log) \in Nat /\ DOMAIN log = 1 .. Len(log)
      /\ \A i \in 1 .. Len(log) : log[i] \in LogEntries
  BY DEF TypeOK
<1>2. \A i \in 1 .. Len(log) :
        [client |-> log[i].client, req |-> log[i].req, value |-> log[i].value,
         total_sum |-> log[i].state.total_sum]
            \in HistEntries
  BY <1>1 DEF LogEntries, State, HistEntries
<1>3. Hist \in [1 .. Len(log) -> HistEntries]
  BY <1>1, <1>2 DEF Hist
<1>4. Hist \in Seq(HistEntries)
  BY <1>1, <1>3, FunctionIsSeq
<1>5. DOMAIN Hist = 1 .. Len(log)
  BY <1>3
<1>6. Len(Hist) = Len(log)
  BY <1>1, <1>4, <1>5
<1> QED BY <1>4, <1>5, <1>6 DEF HistOK

\* An accepted request is a Commit of the service.
LEMMA CommitImplements ==
    ASSUME TypeOK, HistoryInv, TypeOK', NEW t \in Threads, CommitNew(t)
    PROVE  Service!Next
<1> DEFINE st    == state[Leader]
           c     == job[t].client
           r     == job[t].req
           v     == job[t].value
           next  == ApplyRequest(st, c, r, v)
           entry == [client |-> c, req |-> r, value |-> v, state |-> next]
           last  == st.clients[c].last_req
           added == [client |-> c, req |-> r, value |-> v,
                     total_sum |-> st.total_sum + v]
<1>0. PICK n \in Nat : n = Len(log)
  BY DEF TypeOK
<1>1. /\ st \in State /\ job[t] \in Jobs
      /\ c \in Clients /\ r \in Nat /\ r > 0 /\ v \in Values
      /\ v \in Nat /\ v <= MaxUint64 /\ st.total_sum \in Nat
  <2>1. st \in State /\ job[t] \in Jobs
    <3>1. pc[t] # "idle"
      BY DEF CommitNew, EnterCommit
    <3> QED BY <3>1 DEF TypeOK, Servers
  <2>2. c \in Clients /\ r \in Nat /\ r > 0 /\ v \in Values
    BY <2>1 DEF Jobs, Requests
  <2>3. v \in Nat /\ v <= MaxUint64
    <3>1. v \in 1 .. MaxUint64
      BY <2>2, ConstantsAssumption
    <3> HIDE DEF v
    <3> QED BY <3>1, MaxUint64Assumption
  <2>4. st.total_sum \in Nat
    BY <2>1, MaxUint64Assumption DEF State, Uint64
  <2> QED BY <2>1, <2>2, <2>3, <2>4
<1>2. /\ DOMAIN log = 1 .. n /\ DOMAIN Hist = 1 .. n /\ Len(Hist) = n
      /\ \A i \in 1 .. n : log[i] \in LogEntries
  BY <1>0, HistTyped DEF HistOK, TypeOK
<1>3. /\ log' = Append(log, entry) /\ messages' = messages \cup {operation'}
      /\ operation'.type = "REPLICATION"
  BY DEF CommitNew, Send
<1>4. next.total_sum = st.total_sum + v
  BY DEF ApplyRequest
<1>5. Hist' = Append(Hist, added)
  <2>1. /\ Len(log') = n + 1 /\ DOMAIN log' = 1 .. n + 1
        /\ log'[n + 1] = entry
        /\ \A i \in 1 .. n : log'[i] = log[i]
    BY <1>0, <1>2, <1>3 DEF TypeOK
  <2> DEFINE h == Append(Hist, added)
  <2>2. Hist' \in Seq(HistEntries) /\ Len(Hist') = n + 1
    <3>1. HistOK'
      BY HistTyped, PTL
    <3> QED BY <2>1, <3>1 DEF HistOK
  <2>3. added \in HistEntries
    <3>1. next \in State
      <4>1. r \in Uint64 /\ ~Overflows(st, v)
        BY <1>1, Classified DEF CommitNew, Accepts, Jobs
      <4> HIDE DEF r, v, c, st
      <4> QED BY <1>1, <4>1, ApplyTyped
    <3>2. st.total_sum + v \in Uint64
      BY <1>4, <3>1 DEF State
    <3> HIDE DEF v, st, c, r
    <3> QED BY <1>1, <3>2 DEF HistEntries
  <2>4. Hist \in Seq(HistEntries)
    BY HistTyped DEF HistOK
  <2> HIDE DEF added
  <2>5. /\ h \in Seq(HistEntries) /\ Len(h) = n + 1 /\ h[n + 1] = added
        /\ \A i \in 1 .. n : h[i] = Hist[i]
    BY <1>2, <2>3, <2>4, AppendProperties
  <2>6. \A i \in 1 .. n : Hist'[i] = Hist[i]
    BY <1>2, <2>1 DEF Hist
  <2>7. Hist'[n + 1] = added
    BY <1>4, <2>1 DEF Hist, added
  <2>8. \A i \in 1 .. n + 1 : Hist'[i] = h[i]
    <3> HIDE DEF h
    <3> QED BY <1>0, <2>5, <2>6, <2>7
  <2> HIDE DEF h
  <2>9. \A i \in 1 .. Len(Hist') : Hist'[i] = h[i]
    BY <2>2, <2>8
  <2>10. Hist' = h
    BY <2>2, <2>5, <2>9, SeqEqual
  <2> QED BY <2>10 DEF h
<1>6. Told' = Told
  <2>1. Sent("CLIENT_ACK")' = Sent("CLIENT_ACK")
    BY <1>3 DEF Sent
  <2> QED BY <2>1 DEF Told
<1>7. r = last + 1 /\ last \in Nat
  <2>1. last \in Nat
    BY <1>1, MaxUint64Assumption DEF State, ClientState, Uint64
  <2> QED BY <1>1, <2>1, Classified DEF CommitNew, Accepts
<1>8. \A i \in 1 .. n : Hist[i].client = c => Hist[i].req < r
  <2>1. \A i \in 1 .. n : log[i].client = c => log[i].req <= last
    BY <1>2 DEF HistoryInv, LogInv, LastRequests
  <2>2. \A i \in 1 .. n : Hist[i].client = log[i].client /\ Hist[i].req = log[i].req
    BY <1>2 DEF Hist
  <2>3. \A i \in 1 .. n : log[i].req \in Nat
    BY <1>2 DEF LogEntries
  <2> HIDE DEF c, r, last
  <2> QED BY <1>7, <2>1, <2>2, <2>3
<1>9. r = 1 \/ \E i \in 1 .. n : Hist[i].client = c /\ Hist[i].req = r - 1
  <2>1. CASE last = 0
    BY <1>7, <2>1
  <2>2. CASE last > 0
    <3> DEFINE k == st.clients[c].last_num_reqs
    <3>1. k \in 1 .. n /\ log[k].client = c /\ log[k].req = last
      BY <1>1, <1>2, <2>2 DEF HistoryInv, LogInv, ClientRecords
    <3> HIDE DEF k
    <3>2. Hist[k] = [client |-> c, req |-> last, value |-> log[k].value,
                     total_sum |-> log[k].state.total_sum]
      BY <1>2, <3>1 DEF Hist
    <3>3. Hist[k].client = c /\ Hist[k].req = last
      BY <3>2
    <3>4. last = r - 1
      BY <1>1, <1>7
    <3>5. Hist[k].req = r - 1
      BY <3>3, <3>4
    <3> HIDE DEF last, r, c
    <3> QED BY <3>1, <3>3, <3>5
  <2>3. last = 0 \/ last > 0
    <3> HIDE DEF last
    <3> QED BY <1>7
  <2> QED BY <2>1, <2>2, <2>3
<1>10. (IF Hist = <<>> THEN 0 ELSE Hist[Len(Hist)].total_sum) = st.total_sum
  <2>1. CASE n = 0
    <3>1. Hist \in Seq(HistEntries)
      BY HistTyped DEF HistOK
    <3>2. Hist = <<>>
      BY <1>2, <2>1, <3>1, EmptySeq
    <3>3. st = EmptyState
      BY <1>0, <2>1 DEF HistoryInv, LogInv, LeaderAtHead, StateAt
    <3> HIDE DEF st
    <3> QED BY <3>2, <3>3 DEF EmptyState
  <2>2. CASE n > 0
    <3>1. Hist # <<>> /\ n \in 1 .. n
      BY <1>2, <2>2
    <3>2. st = log[n].state
      BY <1>0, <2>2 DEF HistoryInv, LogInv, LeaderAtHead, StateAt
    <3> QED BY <1>2, <3>1, <3>2 DEF Hist
  <2> QED BY <2>1, <2>2
<1>11. st.total_sum + v <= MaxUint64
  BY <1>1, MaxUint64Assumption DEF CommitNew, Accepts, Overflows
<1>12. r \in {1} \cup {Hist[i].req + 1 : i \in DOMAIN Hist}
  <2>1. CASE r = 1
    BY <2>1
  <2>2. ASSUME NEW i \in 1 .. n, Hist[i].req = r - 1
        PROVE  r \in {Hist[j].req + 1 : j \in DOMAIN Hist}
    <3>1. r = Hist[i].req + 1
      BY <1>1, <2>2
    <3> QED BY <1>2, <3>1
  <2> QED BY <1>9, <2>1, <2>2
<1>13. r \in Service!Successors
  BY <1>12 DEF Service!Successors, Hist
\* Commit(c, r, v), of values that a step cannot change.
<1>14. PICK x \in Clients, y \in Service!Successors, z \in Values :
          x = c /\ y = r /\ z = v
  BY <1>1, <1>13
<1> DEFINE total == IF Hist = <<>> THEN 0 ELSE Hist[Len(Hist)].total_sum
<1>15. Hist' = Append(Hist, [client |-> x, req |-> y, value |-> z,
                             total_sum |-> total + z])
  BY <1>5, <1>10, <1>14
<1>16. /\ \A i \in 1 .. n : Hist[i].client = x => Hist[i].req < y
       /\ y = 1 \/ \E i \in 1 .. n : Hist[i].client = x /\ Hist[i].req = y - 1
       /\ total + z <= MaxUint64
  BY <1>8, <1>9, <1>10, <1>11, <1>14
<1> HIDE DEF c, r, v, st
<1>17. Service!Commit(x, y, z)
  BY <1>2, <1>6, <1>15, <1>16
  DEF Service!Commit, Service!NextRequest, Service!Total, Hist, Told
<1> QED BY <1>17 DEF Service!Next

\* A new CLIENT_ACK is an Answer of the service.
LEMMA AnswerImplements ==
    ASSUME TypeOK, AckTruthful', log' = log, NEW a, a.type = "CLIENT_ACK",
           messages' = messages \cup {a}
    PROVE  Service!Next
<1>1. a \in Sent("CLIENT_ACK")'
  BY DEF Sent
<1>2. PICK i \in DOMAIN log : i = a.num_reqs
  BY <1>1 DEF AckTruthful
<1>3. /\ log[i].client = a.client /\ log[i].req = a.req
      /\ log[i].state.total_sum = a.total_sum
  BY <1>1, <1>2 DEF AckTruthful
<1>4. Hist' = Hist
  BY DEF Hist
<1> DEFINE answer == [client |-> a.client, req |-> a.req, num_reqs |-> a.num_reqs,
                      total_sum |-> a.total_sum]
<1>5. Told' = Told \cup {answer}
  <2>1. Sent("CLIENT_ACK")' = Sent("CLIENT_ACK") \cup {a}
    BY DEF Sent
  <2> QED BY <2>1 DEF Told
<1>6. i \in DOMAIN Hist /\ Service!Answered(i) = answer
  BY <1>2, <1>3 DEF Hist, Service!Answered
<1>7. Service!Answer(i)
  BY <1>4, <1>5, <1>6 DEF Service!Answer, Hist, Told
<1> QED BY <1>6, <1>7 DEF Service!Next, Hist

\* What clients do not see.
Quiet == /\ log' = log
         /\ Sent("CLIENT_ACK")' = Sent("CLIENT_ACK")

LEMMA QuietStutters == Quiet => UNCHANGED Service!serviceVars
<1> SUFFICES ASSUME Quiet PROVE UNCHANGED Service!serviceVars
  OBVIOUS
<1>1. Hist' = Hist /\ Told' = Told
  BY DEF Quiet, Hist, Told
<1> QED BY <1>1 DEF Service!serviceVars, Hist, Told

\* Every step is a step of the service, or one that clients do not see.
LEMMA StepService ==
    TypeOK /\ HistoryInv /\ TypeOK' /\ HistoryInv' /\ [Next]_vars
        => Service!Next \/ Quiet
<1> SUFFICES ASSUME TypeOK, HistoryInv, TypeOK', HistoryInv', [Next]_vars
             PROVE  Service!Next \/ Quiet
  OBVIOUS
<1> USE DEF serverVars, syncVars, memberVars, threadVars, backupUnchanged
<1>s. ASSUME UNCHANGED <<log, messages>> PROVE Quiet
  BY <1>s DEF Quiet, Sent
<1>m. ASSUME log' = log, NEW m, m.type # "CLIENT_ACK", messages' = messages \cup {m}
      PROVE  Quiet
  BY <1>m DEF Quiet, Sent
<1>a. ASSUME log' = log, NEW m, m.type = "CLIENT_ACK", messages' = messages \cup {m}
      PROVE  Service!Next
  BY <1>a, AnswerImplements DEF HistoryInv, NetInv
<1>1. ASSUME NEW c \in Clients, SendRequest(c) PROVE Quiet
  <2>1. PICK v \in Values : messages' = messages \cup {Request(c, nextReq[c], v)}
    BY <1>1 DEF SendRequest, Send
  <2> QED BY <1>1, <1>m, <2>1 DEF SendRequest, Request
<1>2. ASSUME NEW c \in Clients, ReceiveAck(c) PROVE Quiet
  BY <1>2, <1>s DEF ReceiveAck
<1>3. ASSUME NEW t \in Threads, ThreadStep(t) PROVE Service!Next \/ Quiet
  <2>1. CASE CommitNew(t)
    BY <2>1, CommitImplements
  <2>2. CASE CommitDuplicate(t)
    BY <1>a, <2>2 DEF CommitDuplicate, LeaveCommit, Send, ClientAck
  <2>3. CASE Replicated(t)
    BY <1>a, <2>3 DEF Replicated, EndReplication, Send, ClientAck
  <2>4. ASSUME UNCHANGED <<log, messages>> PROVE Quiet
    BY <1>s, <2>4
  <2> QED BY <1>3, <2>1, <2>2, <2>3, <2>4
          DEF ThreadStep, Dispatch, CommitNotPrimary, CommitFuture, CommitOverflow,
              LeaveCommit, Interrupted, ReplicationTimeout, EndReplication
<1>4. ASSUME NEW s \in Backups, SyncStep(s) PROVE Quiet
  <2>1. CASE SyncBegin(s)
    BY <1>m, <2>1 DEF SyncBegin, Send, Snapshot
  <2>2. CASE Resend(s)
    BY <1>m, <2>2 DEF Resend, Send, Snapshot
  <2> QED BY <1>4, <1>s, <2>1, <2>2
          DEF SyncStep, SyncRefused, SyncFinish, SyncFailed, SyncEnd
<1>5. CASE LeaderStep
  <2>1. ASSUME NEW m \in Sent("SNAPSHOT_REQUEST"), HandleSnapshotRequest(m) PROVE Quiet
    BY <1>m, <2>1 DEF HandleSnapshotRequest, Send, Snapshot
  <2>2. CASE SendHeartbeat
    BY <1>m, <2>2 DEF SendHeartbeat, Send
  <2> QED BY <1>5, <1>s, <2>1, <2>2
          DEF LeaderStep, DropInactive, RemoveMember, HandleReplicationAck,
              HandleServerHello, HandleSnapshotAck, HandleElection, LeaderStartElection
<1>6. ASSUME NEW s \in Backups, BackupStep(s) PROVE Quiet
  <2>1. ASSUME NEW m \in Sent("REPLICATION"), HandleReplication(s, m) PROVE Quiet
    <3>1. CASE ReplicationOutcome(state[s], m) = "REFUSED"
      BY <1>m, <2>1, <3>1 DEF HandleReplication, Send
    <3>2. CASE ReplicationOutcome(state[s], m) # "REFUSED"
      BY <1>m, <2>1, <3>2 DEF HandleReplication, Send
    <3> QED BY <3>1, <3>2
  <2>2. ASSUME NEW m \in Sent("SNAPSHOT"), HandleSnapshot(s, m) PROVE Quiet
    BY <1>m, <2>2 DEF HandleSnapshot, Send
  <2>3. CASE BackupStartElection(s)
    BY <1>m, <2>3 DEF BackupStartElection, Send
  <2> QED BY <1>6, <1>s, <2>1, <2>2, <2>3 DEF BackupStep, HandleHeartbeat, Restart
<1>7. CASE UNCHANGED vars
  BY <1>7, <1>s DEF vars
<1> QED BY <1>1, <1>2, <1>3, <1>4, <1>5, <1>6, <1>7 DEF Next, ClientStep

\* Seen from the clients, the cluster is one server that never fails: every
\* accepted request extends one history, every answer quotes it.
THEOREM ServiceImplemented == Spec => ImplementsService
<1>1. Init => Service!Init
  BY InitService
<1>2. /\ TypeOK /\ LockInv /\ HistoryInv
      /\ (TypeOK /\ LockInv /\ HistoryInv)'
      /\ [Next]_vars
      => [Service!Next]_Service!serviceVars
  BY StepService, QuietStutters
<1> QED BY <1>1, <1>2, HistoryAlways, PTL DEF Spec, ImplementsService, Service!Spec

================================================================================
