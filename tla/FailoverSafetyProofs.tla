-------------------------- MODULE FailoverSafetyProofs --------------------------
(***************************************************************************)
(* Proofs about Failover: whose answers count, which state a new leader    *)
(* has, and when a leader is closed, in clusters whose servers crash,      *)
(* return and leave.  The types are those of FailoverProofs, and the steps *)
(* of an election those of ElectionProofs.                                 *)
(***************************************************************************)
EXTENDS FailoverProofs

--------------------------------------------------------------------------------
(* A PRIMARY is closed only during a synchronisation *)

\* Only s changes its role, its transitioning and its sync_member threads.
OpenElsewhere(s) == \A q \in Servers \ {s} :
    role'[q] = role[q] /\ transitioning'[q] = transitioning[q] /\ syncing'[q] = syncing[q]

Synchronises(s) == \E p \in Servers : syncing[s][p] \in {"holding", "ending"}

OpenAt(s) == role[s] = "PRIMARY" => transitioning[s] \/ Synchronises(s)

\* A step of s keeps what holds of the others.
LEMMA OpenKept ==
    ASSUME FailoverTypeOK, OpenUnlessSyncing, NEW s \in Servers, OpenElsewhere(s),
           alive' \subseteq alive \cup {s}, s \in alive' => OpenAt(s)'
    PROVE  OpenUnlessSyncing'
<1>1. alive \subseteq Servers
  BY DEF FailoverTypeOK, StateOK
<1> QED BY <1>1 DEF OpenUnlessSyncing, OpenElsewhere, OpenAt, Synchronises

\* A step that changes none of them.
LEMMA OpenUntouched ==
    ASSUME OpenUnlessSyncing, UNCHANGED <<role, transitioning, syncing>>, alive' \subseteq alive
    PROVE  OpenUnlessSyncing'
  BY DEF OpenUnlessSyncing

\* The steps of an election: who starts one is no PRIMARY, and who becomes PRIMARY
\* opens the service.
LEMMA ElectionOpen ==
    ASSUME FailoverTypeOK, OpenUnlessSyncing, NEW s \in alive, ElectionNext(s)
    PROVE  OpenUnlessSyncing'
<1>1. StateOK /\ s \in Servers
  BY DEF FailoverTypeOK, StateOK
<1>2. UNCHANGED <<alive, syncing>>
  BY DEF ElectionNext, lockVars
<1>3. CASE StartElection(s)
  <2>1. OpenElsewhere(s) /\ role'[s] = "CANDIDATE"
    BY <1>1, <1>2, <1>3 DEF StateOK, StartElection, OpenElsewhere
  <2> QED BY <1>1, <1>2, <2>1, OpenKept DEF OpenAt
<1>4. CASE BecomePrimary(s)
  <2>1. OpenElsewhere(s) /\ transitioning'[s]
    BY <1>1, <1>2, <1>4 DEF StateOK, BecomePrimary, OpenElsewhere
  <2> QED BY <1>1, <1>2, <2>1, OpenKept DEF OpenAt
<1>5. ASSUME NEW m, Follow(s, m)
      PROVE  OpenUnlessSyncing'
  <2>1. OpenElsewhere(s)
    BY <1>1, <1>2, <1>5 DEF StateOK, Follow, OpenElsewhere
  <2>2. role'[s] # "PRIMARY"
    BY <1>1, <1>5 DEF StateOK, Follow
  <2> QED BY <1>1, <1>2, <2>1, <2>2, OpenKept DEF OpenAt
<1>6. CASE UNCHANGED <<role, transitioning>>
  BY <1>2, <1>6, OpenUntouched
<1>7. ElectionStep(s) => BecomePrimary(s) \/ UNCHANGED <<role, transitioning>>
  BY DEF ElectionStep, ThreadStep, CallHigher, OkArrived, OkTimeout, CoordinatorArrived,
         CoordinatorTimeout, GiveUp, AskSummaries, SummaryTimeout, SummariesComplete,
         SnapshotArrived, SnapshotTimeout, Outdated, TakeLead, PushSnapshot, threadOnly, stateVars
<1>8. ReceiveCall(s) => (\E m : Follow(s, m)) \/ UNCHANGED <<role, transitioning>>
  BY DEF ReceiveCall, HandleElection, HandleElectionOk, HandleSummaryRequest, HandleSummary,
         HandleSnapshotRequest, RejectCoordinator, HandleLeader, HandleConflict, IgnoreLeader,
         stateVars
<1>9. IgnoreDue(s) \/ (\E p \in Servers : RequestSummary(s, p)) \/ SendHeartbeat(s)
      => UNCHANGED <<role, transitioning>>
  BY DEF IgnoreDue, RequestSummary, SendHeartbeat, stateVars
<1> QED BY <1>3, <1>4, <1>5, <1>6, <1>7, <1>8, <1>9 DEF ElectionNext

\* Start and synchronisation: the service is closed by a thread that will open it again.
LEMMA MemberOpen ==
    ASSUME FailoverTypeOK, OpenUnlessSyncing, NEW s \in alive, MemberStep(s)
    PROVE  OpenUnlessSyncing'
<1> USE DEF serverUnchanged
<1>1. /\ StateOK /\ s \in Servers
      /\ syncing \in [Servers -> SyncThreads]
  BY DEF FailoverTypeOK, StateOK
<1>2. UNCHANGED alive
  BY DEF MemberStep, CheckStartup, HandleServerHello, SyncBegin, SyncRefused, ResendSnapshot,
         RemoveMember, SyncFinish, SyncFailed, Reopen, EndSync, Sync, HandleMembership,
         ReceiveSnapshot
<1>3. CASE CheckStartup(s)
  <2>1. OpenElsewhere(s) /\ transitioning'[s]
    BY <1>1, <1>3 DEF StateOK, CheckStartup, OpenElsewhere, lockVars
  <2> QED BY <1>1, <1>2, <2>1, OpenKept DEF OpenAt
<1>4. ASSUME NEW p \in Servers, NEW from, NEW to, Sync(s, p, from, to)
      PROVE  /\ \A q \in Servers \ {s} : role'[q] = role[q] /\ syncing'[q] = syncing[q]
             /\ to \in {"holding", "ending"} => Synchronises(s)'
  BY <1>1, <1>4 DEF Sync, SyncThreads, Synchronises
<1>5. ASSUME NEW p \in Servers, SyncBegin(s, p) \/ SyncRefused(s, p) \/ EndSync(s, p)
      PROVE  OpenUnlessSyncing'
  <2>1. PICK from \in {"waiting", "holding"}, to \in {"holding", "ending"} : Sync(s, p, from, to)
    BY <1>5 DEF SyncBegin, SyncRefused, EndSync
  <2>2. \A q \in Servers \ {s} : transitioning'[q] = transitioning[q]
    BY <1>1, <1>5 DEF StateOK, SyncBegin, SyncRefused, EndSync
  <2>3. OpenElsewhere(s) /\ Synchronises(s)'
    BY <1>4, <2>1, <2>2 DEF OpenElsewhere
  <2> QED BY <1>1, <1>2, <2>3, OpenKept DEF OpenAt
<1>6. ASSUME NEW p \in Servers, Reopen(s, p)
      PROVE  OpenUnlessSyncing'
  <2>1. OpenElsewhere(s) /\ transitioning'[s]
    BY <1>1, <1>4, <1>6 DEF StateOK, Reopen, OpenElsewhere
  <2> QED BY <1>1, <1>2, <2>1, OpenKept DEF OpenAt
<1>7. ASSUME NEW p \in Servers, HandleServerHello(s, p)
      PROVE  OpenUnlessSyncing'
  <2>1. UNCHANGED <<role, transitioning>>
    BY <1>7 DEF HandleServerHello, stateVars
  <2>2. \/ UNCHANGED syncing
        \/ syncing[s][p] = "none" /\ syncing' = [syncing EXCEPT ![s][p] = "waiting"]
    BY <1>7 DEF HandleServerHello, ScheduleSync
  <2>3. OpenElsewhere(s) /\ (Synchronises(s) => Synchronises(s)')
    BY <1>1, <2>1, <2>2 DEF OpenElsewhere, Synchronises, SyncThreads
  <2> QED BY <1>1, <1>2, <2>1, <2>3, OpenKept DEF OpenAt, OpenUnlessSyncing, Synchronises
<1>8. ASSUME NEW m \in Sent("SNAPSHOT"), ReceiveSnapshot(s, m)
      PROVE  OpenUnlessSyncing'
  <2>1. HandleSnapshot(s, m) /\ UNCHANGED syncing
    BY <1>8 DEF ReceiveSnapshot
  <2>2. CASE Older(s, m)
    BY <1>2, <2>1, <2>2, OpenUntouched DEF HandleSnapshot, stateVars
  <2>3. CASE ~Older(s, m)
    <3>1. OpenElsewhere(s) /\ transitioning'[s]
      BY <1>1, <2>1, <2>3 DEF StateOK, HandleSnapshot, OpenElsewhere
    <3> QED BY <1>1, <1>2, <3>1, OpenKept DEF OpenAt
  <2> QED BY <2>2, <2>3
<1>9. ASSUME \/ ResendSnapshot(s)
             \/ \E p \in Servers : RemoveMember(s, p)
             \/ \E m \in Sent("MEMBERSHIP") : HandleMembership(s, m)
      PROVE  OpenUnlessSyncing'
  <2>1. UNCHANGED <<role, transitioning, syncing>>
    BY <1>9 DEF ResendSnapshot, RemoveMember, HandleMembership, stateVars, lockVars
  <2> QED BY <1>2, <2>1, OpenUntouched
<1>10. \A p \in Servers : SyncFinish(s, p) \/ SyncFailed(s, p) => EndSync(s, p)
  BY DEF SyncFinish, SyncFailed
<1> QED BY <1>3, <1>5, <1>6, <1>7, <1>8, <1>9, <1>10 DEF MemberStep

\* Requests open and close nothing.
LEMMA RequestOpen ==
    ASSUME OpenUnlessSyncing, NEW s \in alive, RequestStep(s)
    PROVE  OpenUnlessSyncing'
<1>1. UNCHANGED <<alive, role, transitioning, syncing>>
  BY DEF RequestStep, AcceptRequest, DropInactive, Resend, Replicated, Interrupted,
         ReplicationTimeout, EndRequest, HandleReplication, HandleReplicationAck, serverUnchanged,
         stateVars, lockVars
<1> QED BY <1>1, OpenUntouched

\* The process of s ends: it is not looked at any more.
LEMMA EndOpen ==
    ASSUME FailoverTypeOK, OpenUnlessSyncing, NEW s \in Servers, End(s)
    PROVE  OpenUnlessSyncing'
<1>1. /\ \A q \in Servers \ {s} : syncing'[q] = syncing[q]
      /\ UNCHANGED <<role, transitioning>>
      /\ alive' = alive \ {s}
  BY DEF FailoverTypeOK, End, Halt, stateVars
<1> QED BY <1>1, OpenKept DEF OpenElsewhere

\* Departures: a PRIMARY that leaves is no PRIMARY any more.
LEMMA StopOpen ==
    ASSUME FailoverTypeOK, OpenUnlessSyncing, NEW s \in alive, StopStep(s)
    PROVE  OpenUnlessSyncing'
<1>1. StateOK /\ s \in Servers
  BY DEF FailoverTypeOK, StateOK
<1>2. CASE StopLeading(s)
  <2>1. OpenElsewhere(s) /\ role'[s] = "LEAVING" /\ UNCHANGED alive
    BY <1>1, <1>2 DEF StateOK, StopLeading, Leave, OpenElsewhere, lockVars
  <2> QED BY <1>1, <2>1, OpenKept DEF OpenAt
<1>3. CASE StopCompleted(s)
  BY <1>1, <1>3, EndOpen DEF StopCompleted
<1>4. CASE \/ StopBegin(s) \/ AskToLeave(s) \/ StopDelayed(s) \/ ReceiveLeave(s)
           \/ \E m \in Sent("LEAVE_ACK") : HandleLeaveAck(s, m)
  <2>1. UNCHANGED <<role, transitioning, syncing, alive>>
    BY <1>4 DEF StopBegin, AskToLeave, StopDelayed, Leave, ReceiveLeave, HandleLeave,
                HandleLeaveAck, stateVars, lockVars
  <2> QED BY <2>1, OpenUntouched
<1> QED BY <1>2, <1>3, <1>4 DEF StopStep

\* In every reachable state of a cluster that elects, synchronises, crashes, returns
\* and leaves, a PRIMARY serves its clients unless it synchronises a server right now.
THEOREM PrimaryOpensAgain == FailoverSpec => []OpenUnlessSyncing
<1>1. FailoverInit => OpenUnlessSyncing
  BY DEF FailoverInit, OpenUnlessSyncing
<1>2. ASSUME FailoverInv, OpenUnlessSyncing, FailoverNext
      PROVE  OpenUnlessSyncing'
  <2>1. FailoverTypeOK /\ StateOK /\ alive \subseteq Servers
    BY <1>2 DEF FailoverInv, FailoverTypeOK, StateOK
  <2>2. ASSUME NEW s \in alive,
               ElectionNext(s) \/ MemberStep(s) \/ RequestStep(s) \/ StopStep(s) \/ Fail(s)
        PROVE  OpenUnlessSyncing'
    <3>1. CASE Fail(s)
      BY <1>2, <2>1, <3>1, EndOpen DEF Fail
    <3> QED BY <1>2, <2>1, <2>2, <3>1, ElectionOpen, MemberOpen, RequestOpen, StopOpen
  <2>3. ASSUME NEW s \in Servers, Return(s)
        PROVE  OpenUnlessSyncing'
    <3>1. OpenElsewhere(s) /\ role'[s] = "JOINING" /\ alive' \subseteq alive \cup {s}
      BY <2>1, <2>3 DEF StateOK, Return, OpenElsewhere, lockVars
    <3> QED BY <1>2, <2>1, <3>1, OpenKept DEF OpenAt
  <2>4. ASSUME NEW m \in messages, Lose(m)
        PROVE  OpenUnlessSyncing'
    <3>1. UNCHANGED <<role, transitioning, syncing, alive>>
      BY <2>4 DEF Lose, stateVars, serverUnchanged, lockVars
    <3> QED BY <1>2, <3>1, OpenUntouched
  <2> QED BY <1>2, <2>2, <2>3, <2>4 DEF FailoverNext
<1>3. OpenUnlessSyncing /\ UNCHANGED allVars => OpenUnlessSyncing'
  BY DEF OpenUnlessSyncing, allVars, vars, stateVars, lockVars
<1>4. FailoverInv /\ UNCHANGED allVars => FailoverInv'
  BY DEF FailoverInv, FailoverTypeOK, StateOK, OwnReport, allVars, vars, stateVars, threadVars,
         eventVars, lockVars, stopVars
<1> QED BY InitFailover, StepFailover, <1>1, <1>2, <1>3, <1>4, PTL DEF FailoverSpec

--------------------------------------------------------------------------------
(* A new leader is as new as those it asked *)

\* Nobody who is down has an election going.
DeadIdle == \A s \in Servers \ alive : phase[s] = "idle"

FailoverFresh == FreshInv /\ DeadIdle

NoneAcknowledged == Sent("REPLICATION_ACK")' \subseteq Sent("REPLICATION_ACK")

\* A step that sends no question, answer or acknowledgement
LEMMA NothingSent ==
    ASSUME NEW net, NEW new, Transmit(net, new), net \subseteq messages,
           \A m \in new : m.type \notin
              {"STATE_SUMMARY_REQUEST", "STATE_SUMMARY", "REPLICATION_ACK"}
    PROVE  NoneSent /\ NoneAcknowledged
<1>1. NoneSent
  BY NothingAsked
<1>2. NoneAcknowledged
  BY Transmitted DEF Sent, NoneAcknowledged
<1> QED BY <1>1, <1>2

LEMMA NetworkKept == ASSUME messages' \subseteq messages PROVE NoneSent /\ NoneAcknowledged
  BY DEF NoneSent, Quoted, Sent, NoneAcknowledged

\* Only the steps of an election send STATE_SUMMARY_REQUEST and STATE_SUMMARY, and only
\* the handler of REPLICATION sends REPLICATION_ACK.
LEMMA MemberAnswers ==
    ASSUME FailoverTypeOK, NEW s \in Servers, MemberStep(s) PROVE NoneSent /\ NoneAcknowledged
<1>1. CASE CheckStartup(s)
  BY <1>1, NothingSent DEF CheckStartup, Send
<1>2. ASSUME NEW p, SyncBegin(s, p)
      PROVE  NoneSent /\ NoneAcknowledged
  BY <1>2, NothingSent DEF SyncBegin, Snapshot, Send
<1>3. ASSUME NEW p, RemoveMember(s, p)
      PROVE  NoneSent /\ NoneAcknowledged
  BY <1>3, NothingSent DEF RemoveMember, Announce, Membership, Send
<1>4. ASSUME NEW p \in Servers, SyncFinish(s, p)
      PROVE  NoneSent /\ NoneAcknowledged
  <2>1. CASE MaySync(s, p)
    BY <1>4, <2>1, NothingSent DEF SyncFinish, Membership, Call, Send
  <2>2. CASE ~MaySync(s, p)
    BY <1>4, <2>2, NetworkKept DEF SyncFinish
  <2> QED BY <2>1, <2>2
<1>5. CASE ResendSnapshot(s)
  <2>1. busy[s].snapshot \in Snapshots
    BY <1>5, Holders DEF ResendSnapshot, Syncing
  <2>2. [busy[s].snapshot EXCEPT !.term = term[s]].type = "SNAPSHOT"
    BY <2>1 DEF Snapshots
  <2>3. \A new : new.type = "SNAPSHOT" /\ Send({new}) => NoneSent /\ NoneAcknowledged
    BY NothingSent DEF Send
  <2> QED BY <1>5, <2>2, <2>3 DEF ResendSnapshot
<1>6. CASE UNCHANGED messages
  BY <1>6, NetworkKept
<1>7. /\ \A p : \/ HandleServerHello(s, p) \/ SyncRefused(s, p) \/ SyncFailed(s, p)
                \/ Reopen(s, p)
                => UNCHANGED messages
      /\ \A m : HandleMembership(s, m) \/ ReceiveSnapshot(s, m) => UNCHANGED messages
  BY DEF HandleServerHello, SyncRefused, SyncFailed, Reopen, HandleMembership, ReceiveSnapshot,
         HandleSnapshot
<1> QED BY <1>1, <1>2, <1>3, <1>4, <1>5, <1>6, <1>7 DEF MemberStep

LEMMA RequestAnswers ==
    ASSUME NEW s, RequestStep(s)
    PROVE  /\ NoneSent
           /\ NoneAcknowledged \/ \E m \in Sent("REPLICATION") : HandleReplication(s, m)
<1>1. ASSUME NEW r \in Requests, AcceptRequest(s, r)
      PROVE  NoneSent /\ NoneAcknowledged
  BY <1>1, NothingSent DEF AcceptRequest, Send
<1>2. ASSUME NEW p \in Servers, Resend(s, p)
      PROVE  NoneSent /\ NoneAcknowledged
  BY <1>2, NothingSent DEF Resend, Send
<1>3. ASSUME NEW m \in Sent("REPLICATION"), HandleReplication(s, m)
      PROVE  NoneSent
  <2>1. \A n \in messages' : n \in messages \/ n.type \in {"REPLICATION_ACK", "SNAPSHOT_REQUEST"}
    BY <1>3, Transmitted DEF HandleReplication, Send
  <2> QED BY <2>1 DEF NoneSent, Quoted, Sent
<1>4. ASSUME NEW m \in Sent("REPLICATION_ACK"), HandleReplicationAck(s, m)
      PROVE  NoneSent /\ NoneAcknowledged
  BY <1>4, NothingSent DEF HandleReplicationAck, Reply
<1>5. CASE UNCHANGED messages
  BY <1>5, NetworkKept
<1>6. /\ \A p : DropInactive(s, p) => UNCHANGED messages
      /\ Replicated(s) \/ Interrupted(s) \/ ReplicationTimeout(s) => UNCHANGED messages
  BY DEF DropInactive, Replicated, Interrupted, ReplicationTimeout, EndRequest
<1> QED BY <1>1, <1>2, <1>3, <1>4, <1>5, <1>6 DEF RequestStep

LEMMA StopAnswers == ASSUME NEW s, StopStep(s) PROVE NoneSent /\ NoneAcknowledged
<1>1. CASE StopLeading(s)
  BY <1>1, NothingSent DEF StopLeading, Send
<1>2. ASSUME NEW p, NEW net \in SUBSET messages, HandleLeave(s, p, net)
      PROVE  NoneSent /\ NoneAcknowledged
  <2>1. CASE role[s] = "PRIMARY"
    BY <1>2, <2>1, NothingSent DEF HandleLeave
  <2>2. CASE role[s] # "PRIMARY"
    BY <1>2, <2>2, NetworkKept DEF HandleLeave
  <2> QED BY <2>1, <2>2
<1>3. ASSUME NEW m \in Sent("LEAVE_ACK"), HandleLeaveAck(s, m)
      PROVE  NoneSent /\ NoneAcknowledged
  BY <1>3, NothingSent DEF HandleLeaveAck, Reply
<1>4. CASE UNCHANGED messages
  BY <1>4, NetworkKept
<1>5. StopBegin(s) \/ AskToLeave(s) \/ StopCompleted(s) \/ StopDelayed(s) => UNCHANGED messages
  BY DEF StopBegin, AskToLeave, StopCompleted, StopDelayed, End, Halt
<1>6. ReceiveLeave(s) => \E p : \E net \in SUBSET messages : HandleLeave(s, p, net)
  BY DEF ReceiveLeave
<1> QED BY <1>1, <1>2, <1>3, <1>4, <1>5, <1>6 DEF StopStep

\* Nor does the term of a running server fall outside an election.
LEMMA StepTerms ==
    ASSUME FailoverTypeOK, NEW s \in alive, MemberStep(s) \/ RequestStep(s) \/ StopStep(s)
    PROVE  TermsRise
<1>1. StateOK /\ s \in Servers /\ \A p \in Servers : term[p] \in Nat
  BY DEF FailoverTypeOK, StateOK
<1>2. CASE UNCHANGED term
  BY <1>1, <1>2 DEF TermsRise
<1>3. CASE CheckStartup(s)
  BY <1>1, <1>3 DEF CheckStartup, StateOK, TermsRise
<1>4. ASSUME NEW m \in Sent("SNAPSHOT"), ReceiveSnapshot(s, m)
      PROVE  TermsRise
  <2>1. m.term \in Nat
    BY FailoverReceived DEF Received, Snapshots
  <2>2. HandleSnapshot(s, m)
    BY <1>4 DEF ReceiveSnapshot
  <2> QED BY <1>1, <2>1, <2>2 DEF HandleSnapshot, StateOK, TermsRise, stateVars
<1>5. MemberStep(s) => \/ UNCHANGED term
                       \/ CheckStartup(s)
                       \/ \E m \in Sent("SNAPSHOT") : ReceiveSnapshot(s, m)
  BY DEF MemberStep, HandleServerHello, SyncBegin, SyncRefused, ResendSnapshot, RemoveMember,
         SyncFinish, SyncFailed, Reopen, EndSync, Sync, HandleMembership, stateVars
<1>6. RequestStep(s) => UNCHANGED term
  BY DEF RequestStep, AcceptRequest, DropInactive, Resend, Replicated, Interrupted,
         ReplicationTimeout, EndRequest, HandleReplication, HandleReplicationAck, stateVars
<1>7. StopStep(s) => UNCHANGED term
  BY DEF StopStep, StopBegin, StopLeading, AskToLeave, StopCompleted, StopDelayed, Leave,
         ReceiveLeave, HandleLeave, HandleLeaveAck, End, Halt, stateVars
<1> QED BY <1>2, <1>3, <1>4, <1>5, <1>6, <1>7

\* A step that leaves all threads alone.
LEMMA FreshUntouched ==
    ASSUME StateOK, StateOK', Received, FailoverFresh, UNCHANGED <<threadVars, alive>>, NeverFall,
           TermsRise, NoneSent
    PROVE  FailoverFresh'
<1>1. DeadIdle'
  BY DEF FailoverFresh, DeadIdle, threadVars
<1>2. FreshInv'
  BY FreshKept DEF FailoverFresh, FreshInv, ThreadKept, threadVars, NoneSent, TermsRise
<1> QED BY <1>1, <1>2 DEF FailoverFresh

\* The process of s ends, and with it its election.
LEMMA EndFresh ==
    ASSUME StateOK, StateOK', Received, FailoverFresh, NEW s \in Servers, End(s)
    PROVE  FailoverFresh'
<1>1. /\ phase'[s] = "idle" /\ s \notin alive' /\ alive' = alive \ {s}
      /\ \A q \in Servers \ {s} : ThreadKept(q)
      /\ UNCHANGED <<log, term, messages>>
  BY DEF StateOK, End, Halt, Forget, ThreadKept, stateVars
<1>2. \A q \in Servers : Quoted(q)' = Quoted(q) /\ term'[q] >= term[q]
  BY <1>1 DEF StateOK, Quoted, Sent
<1>3. FreshAt(s)'
  <2>1. Past(s)'
    BY <1>1, <1>2 DEF FailoverFresh, FreshInv, FreshAt, Past, Before
  <2> QED BY <1>1, <2>1 DEF FreshAt, Collected, Aimed, Taken, Reached, Answers, Asked
<1>4. NeverFall
  <2>1. \A p \in Servers : version(p) \in Nat
    BY VersionTyped, ElectionAssumption DEF Versions
  <2> QED BY <1>1, <2>1 DEF NeverFall, version
<1>5. FreshInv'
  BY <1>1, <1>2, <1>3, <1>4, FreshKept DEF FailoverFresh, FreshInv
<1>6. DeadIdle'
  BY <1>1 DEF FailoverFresh, DeadIdle, ThreadKept
<1> QED BY <1>5, <1>6 DEF FailoverFresh

\* A process that returns has no election going, and is not the one that the others
\* have asked; no answer to an election of the earlier process is on its way to it.
LEMMA ReturnFresh ==
    ASSUME Reliable, StateOK, StateOK', Received, FailoverFresh, NEW s \in Servers, Return(s)
    PROVE  FailoverFresh'
<1>1. /\ s \notin alive /\ alive' = alive \cup {s}
      /\ UNCHANGED <<phase, electionTerm, peers, summaries, goal>>
      /\ \A q \in Servers : floor'[q] = [p \in DOMAIN floor[q] \ {s} |-> floor[q][p]]
      /\ \A q \in Servers \ {s} : log'[q] = log[q] /\ term'[q] = term[q]
  BY DEF StateOK, Return
<1>2. phase[s] = "idle"
  BY <1>1 DEF FailoverFresh, DeadIdle
<1>3. \A type \in {"STATE_SUMMARY_REQUEST", "STATE_SUMMARY"} :
         \A m \in Sent(type)' : m \in Sent(type) /\ ~OfElection(s, m)
  <2>1. \A m \in messages' : m.type # "REPLICATION_ACK" => m \in messages /\ ~OfElection(s, m)
    <3>1. \A m \in messages : m.type = "REPLICATION_ACK" =>
             [m EXCEPT !.stale = TRUE].type = "REPLICATION_ACK"
      OBVIOUS
    <3> QED BY <3>1 DEF Return, Inherited
  <2> QED BY <2>1 DEF Sent
<1>4. FreshAt(s)'
  <2>1. Quoted(s)' = {}
    BY <1>3 DEF Quoted, OfElection, Sent
  <2> QED BY <1>1, <1>2, <2>1
          DEF FreshAt, Collected, Aimed, Taken, Reached, Past, Answers, Asked
<1>5. ASSUME NEW q \in Servers \ {s}
      PROVE  FreshAt(q)'
  <2>1. /\ DOMAIN floor'[q] = DOMAIN floor[q] \ {s}
        /\ \A p \in DOMAIN floor'[q] : floor'[q][p] = floor[q][p]
    BY <1>1
  <2>2. \A p \in Servers \ {s} : version(p)' = version(p)
    BY <1>1 DEF version
  <2>3. FreshAt(q)
    BY DEF FailoverFresh, FreshInv
  <2>4. Collected(q)' /\ Aimed(q)'
    BY <1>1, <2>1, <2>3 DEF FreshAt, Collected, Aimed
  <2>5. Taken(q)' /\ Reached(q)'
    <3>1. DOMAIN floor[q] \subseteq Servers
      BY ReportNumbers DEF StateOK
    <3>2. \A p \in DOMAIN floor'[q] : p \in DOMAIN floor[q] /\ version(p)' = version(p)
      BY <2>1, <2>2, <3>1
    <3> QED BY <1>1, <2>1, <2>2, <2>3, <3>2 DEF FreshAt, Taken, Reached
  <2>6. Past(q)'
    <3>1. Quoted(q)' \subseteq Quoted(q)
      BY <1>3 DEF Quoted
    <3> QED BY <1>1, <2>3, <3>1 DEF FreshAt, Past
  <2>7. Answers(q)'
    BY <1>1, <1>3, <2>1, <2>3 DEF FreshAt, Answers
  <2> QED BY <2>4, <2>5, <2>6, <2>7 DEF FreshAt
<1>6. DeadIdle'
  BY <1>1 DEF FailoverFresh, DeadIdle
<1> QED BY <1>4, <1>5, <1>6 DEF FailoverFresh, FreshInv

\* The steps of an election.
LEMMA ElectionFresh ==
    ASSUME FailoverInv, FailoverInv', FailoverFresh, NEW s \in alive, ElectionNext(s)
    PROVE  FailoverFresh'
<1>1. StateOK /\ StateOK' /\ OwnReport /\ Received /\ s \in Servers /\ UNCHANGED alive
  BY FailoverReceived DEF FailoverInv, FailoverTypeOK, StateOK, ElectionNext
<1>2. NeverFall
  BY StepForward
<1>3. CASE StartElection(s) \/ ElectionStep(s)
  <2>1. FreshAt(s)
    BY <1>1 DEF FailoverFresh, FreshInv
  <2>2. /\ FreshAt(s)' /\ \A q \in Servers \ {s} : ThreadKept(q)
        /\ NoneSent /\ TermsRise
    BY <1>1, <1>3, <2>1, ThreadFresh
  <2>3. FreshInv'
    BY <1>1, <1>2, <2>2, FreshKept DEF FailoverFresh, FreshInv, NoneSent, TermsRise
  <2>4. DeadIdle'
    BY <1>1, <2>2 DEF FailoverFresh, DeadIdle, ThreadKept
  <2> QED BY <2>3, <2>4 DEF FailoverFresh
<1>4. CASE ReceiveCall(s)
  <2>1. FreshInv'
    BY <1>1, <1>4, ReceiveFresh DEF FailoverFresh, Receive
  <2>2. UNCHANGED phase
    BY <1>4 DEF ReceiveCall, HandleElection, HandleElectionOk, HandleSummaryRequest,
                HandleSummary, HandleSnapshotRequest, RejectCoordinator, HandleLeader,
                HandleConflict, IgnoreLeader, Follow, threadVars
  <2> QED BY <1>1, <2>1, <2>2 DEF FailoverFresh, DeadIdle
<1>5. CASE IgnoreDue(s) \/ SendHeartbeat(s)
  <2>1. UNCHANGED <<threadVars, term>>
    BY <1>5 DEF IgnoreDue, SendHeartbeat, stateVars
  <2>2. TermsRise
    BY <1>1, <2>1 DEF StateOK, TermsRise
  <2>3. NoneSent
    BY <1>5, NetworkKept, NothingAsked DEF IgnoreDue, SendHeartbeat, Send
  <2> QED BY <1>1, <1>2, <2>1, <2>2, <2>3, FreshUntouched
<1>6. ASSUME NEW p \in Servers, RequestSummary(s, p)
      PROVE  FailoverFresh'
  <2>1. FreshInv' /\ UNCHANGED phase
    BY <1>1, <1>6, RequestFresh DEF FailoverFresh, RequestSummary, threadVars
  <2> QED BY <1>1, <2>1 DEF FailoverFresh, DeadIdle
<1> QED BY <1>3, <1>4, <1>5, <1>6 DEF ElectionNext

LEMMA StepKeepsFresh ==
    ASSUME Reliable, FailoverInv, FailoverFresh, FailoverNext
    PROVE  FailoverFresh'
<1>1. FailoverInv'
  BY StepFailover
<1>2. FailoverTypeOK /\ StateOK /\ StateOK' /\ Received /\ alive \subseteq Servers
  BY <1>1, FailoverReceived DEF FailoverInv, FailoverTypeOK, StateOK
<1>3. ASSUME NEW s \in alive, MemberStep(s) \/ RequestStep(s) \/ StopStep(s),
             UNCHANGED <<threadVars, alive>>
      PROVE  FailoverFresh'
  BY <1>2, <1>3, MemberAnswers, RequestAnswers, StopAnswers, StepForward, StepTerms, FreshUntouched
<1>4. ASSUME NEW s \in alive, MemberStep(s)
      PROVE  FailoverFresh'
  BY <1>3, <1>4 DEF MemberStep, CheckStartup, HandleServerHello, SyncBegin, SyncRefused,
                    ResendSnapshot, RemoveMember, SyncFinish, SyncFailed, Reopen, EndSync, Sync,
                    HandleMembership, ReceiveSnapshot, HandleSnapshot, serverUnchanged
<1>5. ASSUME NEW s \in alive, RequestStep(s)
      PROVE  FailoverFresh'
  BY <1>3, <1>5 DEF RequestStep, AcceptRequest, DropInactive, Resend, Replicated, Interrupted,
                    ReplicationTimeout, EndRequest, HandleReplication, HandleReplicationAck,
                    serverUnchanged
<1>6. ASSUME NEW s \in alive, StopStep(s)
      PROVE  FailoverFresh'
  <2>1. UNCHANGED <<threadVars, alive>> \/ End(s)
    BY <1>6 DEF StopStep, StopBegin, StopLeading, AskToLeave, StopCompleted, StopDelayed, Leave,
                ReceiveLeave, HandleLeave, HandleLeaveAck
  <2> QED BY <1>2, <1>3, <1>6, <2>1, EndFresh
<1>7. ASSUME NEW s \in alive, Fail(s)
      PROVE  FailoverFresh'
  BY <1>2, <1>7, EndFresh DEF Fail
<1>8. ASSUME NEW s \in alive, ElectionNext(s)
      PROVE  FailoverFresh'
  BY <1>1, <1>8, ElectionFresh
<1>9. ASSUME NEW s \in Servers, Return(s)
      PROVE  FailoverFresh'
  BY <1>2, <1>9, ReturnFresh
<1>10. ASSUME NEW m \in messages, Lose(m)
       PROVE  FailoverFresh'
  <2>1. UNCHANGED <<threadVars, alive, log, term>> /\ NoneSent
    BY <1>10, NetworkKept DEF Lose, serverUnchanged, stateVars
  <2>2. NeverFall
    <3>1. \A p \in Servers : version(p) \in Nat
      BY <1>2, VersionTyped, ElectionAssumption DEF Versions
    <3> QED BY <2>1, <3>1 DEF NeverFall, version
  <2>3. TermsRise
    BY <1>2, <2>1 DEF StateOK, TermsRise
  <2> QED BY <1>2, <2>1, <2>2, <2>3, FreshUntouched
<1> QED BY <1>4, <1>5, <1>6, <1>7, <1>8, <1>9, <1>10 DEF FailoverNext

\* Whoever takes the lead has a state at least as new as each of the servers it asked
\* had when it asked, as far as that process still runs, although servers crash, return
\* with an empty state, are synchronised and leave while the answers are collected.  Of
\* Reliable only this is needed: no answer to an election of its earlier process is on its
\* way to a server that returns, whose terms begin again (Return, Inherited).
THEOREM NewLeaderFresh == ASSUME Reliable PROVE FailoverSpec => []TakeoverFresh
<1>1. FailoverInit => FailoverFresh
  BY DEF FailoverInit, FailoverFresh, DeadIdle, FreshInv, FreshAt, Collected, Aimed, Taken,
         Reached, Past, Quoted, Answers, Asked, Sent
<1>2. FailoverInv /\ FailoverFresh /\ FailoverNext => FailoverFresh'
  BY StepKeepsFresh
<1>3. FailoverFresh /\ UNCHANGED allVars => FailoverFresh'
  BY DEF FailoverFresh, DeadIdle, FreshInv, FreshAt, Collected, Aimed, Taken, Reached, Past,
         Quoted, Answers, Sent, version, allVars, vars, stateVars, threadVars
<1>4. FailoverInv /\ UNCHANGED allVars => FailoverInv'
  BY DEF FailoverInv, FailoverTypeOK, StateOK, OwnReport, allVars, vars, stateVars, threadVars,
         eventVars, lockVars, stopVars
<1>5. FailoverFresh => TakeoverFresh
  BY DEF FailoverFresh, FreshInv, FreshAt, Taken, TakeoverFresh
<1> QED BY InitFailover, StepFailover, <1>1, <1>2, <1>3, <1>4, <1>5, PTL DEF FailoverSpec

--------------------------------------------------------------------------------
(* Whose acknowledgements count *)

\* What a process has acknowledged it has, as long as it runs: versions never fall.
AcksHeld == \A m \in Sent("REPLICATION_ACK") : ~m.stale => version(m.from) >= m.version

\* An election acknowledges no operation.
LEMMA ElectionAcks == ASSUME NEW s, ElectionNext(s) PROVE NoneAcknowledged
<1>1. ASSUME NEW from, NEW new, Finish(s, from, new), \A m \in new : m.type # "REPLICATION_ACK"
      PROVE  NoneAcknowledged
  BY <1>1, Transmitted DEF Finish, Send, Sent, NoneAcknowledged
<1>2. CASE UNCHANGED messages
  BY <1>2 DEF Sent, NoneAcknowledged
<1>3. CASE ElectionStep(s)
  <2>1. CASE \/ CoordinatorArrived(s) \/ CoordinatorTimeout(s) \/ GiveUp(s)
             \/ SummaryTimeout(s) \/ SnapshotTimeout(s) \/ Outdated(s) \/ BecomePrimary(s)
    BY <1>1, <2>1 DEF CoordinatorArrived, CoordinatorTimeout, GiveUp, SummaryTimeout,
                      SnapshotTimeout, Outdated, BecomePrimary, Coordinator
  <2>2. CASE CallHigher(s)
    BY <2>2, Transmitted DEF CallHigher, Call, Send, Sent, NoneAcknowledged
  <2>3. CASE SummariesComplete(s)
    BY <1>2, <2>3, Transmitted DEF SummariesComplete, Send, Sent, NoneAcknowledged
  <2>4. ASSUME NEW p \in Servers, PushSnapshot(s, p)
        PROVE  NoneAcknowledged
    BY <2>4, Transmitted DEF PushSnapshot, Snapshot, Send, Sent, NoneAcknowledged
  <2>5. CASE OkArrived(s) \/ OkTimeout(s) \/ AskSummaries(s) \/ SnapshotArrived(s) \/ TakeLead(s)
    BY <1>2, <2>5 DEF OkArrived, OkTimeout, AskSummaries, SnapshotArrived, TakeLead
  <2> QED BY <1>3, <2>1, <2>2, <2>3, <2>4, <2>5 DEF ElectionStep, ThreadStep
<1>4. CASE ReceiveCall(s)
  <2>1. ASSUME NEW m, \/ HandleElection(s, m) \/ HandleElectionOk(s, m) \/ HandleSummary(s, m)
                      \/ HandleSummaryRequest(s, m) \/ HandleSnapshotRequest(s, m)
        PROVE  NoneAcknowledged
    BY <2>1, Transmitted
       DEF HandleElection, HandleElectionOk, HandleSummary, HandleSummaryRequest,
           HandleSnapshotRequest, Snapshot, Reply, Sent, NoneAcknowledged
  <2>2. ASSUME NEW m, RejectCoordinator(s, m) \/ HandleLeader(s, m)
        PROVE  NoneAcknowledged
    BY <2>2, Transmitted
       DEF RejectCoordinator, Snapshot, HandleLeader, HandleConflict, IgnoreLeader, Follow, Send,
           Sent, NoneAcknowledged
  <2> QED BY <1>4, <2>1, <2>2 DEF ReceiveCall
<1>5. CASE StartElection(s) \/ IgnoreDue(s) \/ SendHeartbeat(s)
  BY <1>2, <1>5, Transmitted DEF StartElection, IgnoreDue, SendHeartbeat, Send, Sent, NoneAcknowledged
<1>6. ASSUME NEW p \in Servers, RequestSummary(s, p)
      PROVE  NoneAcknowledged
  BY <1>6, Transmitted DEF RequestSummary, Send, Sent, NoneAcknowledged
<1> QED BY <1>3, <1>4, <1>5, <1>6 DEF ElectionNext

\* A step after which there are no more acknowledgements, and no server is behind.
LEMMA AcksKept ==
    ASSUME FailoverTypeOK, StateOK', AcksHeld, NoneAcknowledged, NeverFall
    PROVE  AcksHeld'
<1>1. \A m \in Sent("REPLICATION_ACK") : m.from \in Servers /\ m.version \in Nat
  BY FailoverReceived, ElectionAssumption DEF ReplicationAcks, Versions
<1>2. \A s \in Servers : version(s) \in Nat /\ version(s)' \in Nat
  <2>1. \A s \in Servers : version(s) \in Versions /\ version(s)' \in Versions
    BY LogLength DEF FailoverTypeOK, StateOK, version
  <2> QED BY <2>1, ElectionAssumption DEF Versions
<1> QED BY <1>1, <1>2 DEF AcksHeld, NoneAcknowledged, NeverFall

\* A backup acknowledges the version it has.
LEMMA ReplicationAcked ==
    ASSUME FailoverTypeOK, FailoverTypeOK', AcksHeld, NeverFall, NEW s \in Servers,
           NEW m \in Sent("REPLICATION"), HandleReplication(s, m)
    PROVE  AcksHeld'
<1>1. \A a \in Sent("REPLICATION_ACK")' :
         a \in Sent("REPLICATION_ACK") \/ (a.from = s /\ a.version = version(s)')
  BY Transmitted DEF HandleReplication, Send, Sent, version
<1>2. \A a \in Sent("REPLICATION_ACK") : a.from \in Servers /\ a.version \in Nat
  BY FailoverReceived, ElectionAssumption DEF ReplicationAcks, Versions
<1>3. \A p \in Servers : version(p) \in Nat /\ version(p)' \in Nat
  <2>1. \A p \in Servers : version(p) \in Versions /\ version(p)' \in Versions
    BY LogLength DEF FailoverTypeOK, StateOK, version
  <2> QED BY <2>1, ElectionAssumption DEF Versions
<1>4. \A a \in Sent("REPLICATION_ACK")' : ~a.stale => version(a.from)' >= a.version
  BY <1>1, <1>2, <1>3 DEF AcksHeld, NeverFall
<1> QED BY <1>4 DEF AcksHeld

LEMMA StepAcks == ASSUME FailoverInv, AcksHeld, FailoverNext PROVE AcksHeld'
<1>1. /\ FailoverTypeOK /\ FailoverTypeOK' /\ StateOK /\ StateOK' /\ alive \subseteq Servers
  BY StepFailover DEF FailoverInv, FailoverTypeOK, StateOK
<1>2. ASSUME NEW s \in alive,
             ElectionNext(s) \/ MemberStep(s) \/ RequestStep(s) \/ StopStep(s) \/ Fail(s)
      PROVE  AcksHeld'
  <2>1. NeverFall
    BY <1>2, StepForward
  <2>2. Fail(s) => NoneAcknowledged
    BY DEF Fail, End, Halt, Sent, NoneAcknowledged
  <2>3. \/ NoneAcknowledged
        \/ \E m \in Sent("REPLICATION") : HandleReplication(s, m)
    BY <1>1, <1>2, <2>2, ElectionAcks, MemberAnswers, RequestAnswers, StopAnswers
  <2> QED BY <1>1, <2>1, <2>3, AcksKept, ReplicationAcked
<1>3. ASSUME NEW s \in Servers, Return(s)
      PROVE  AcksHeld'
  <2>1. \A m \in Sent("REPLICATION_ACK")' :
           m.stale \/ (m \in Sent("REPLICATION_ACK") /\ m.from # s)
    <3>1. \A m \in messages : m.type = "REPLICATION_ACK" => [m EXCEPT !.stale = TRUE].stale
      <4>1. \A m \in messages : m.type = "REPLICATION_ACK" => m \in ReplicationAcks
        BY <1>1, FailoverReceived DEF Sent
      <4> QED BY <4>1 DEF ReplicationAcks
    <3> QED BY <1>3, <3>1 DEF Return, Inherited, Sent
  <2>2. \A p \in Servers \ {s} : version(p)' = version(p)
    BY <1>1, <1>3 DEF StateOK, Return, version
  <2>3. \A m \in Sent("REPLICATION_ACK") : m.from \in Servers
    BY <1>1, FailoverReceived DEF ReplicationAcks
  <2> QED BY <2>1, <2>2, <2>3 DEF AcksHeld
<1>4. ASSUME NEW m \in messages, Lose(m)
      PROVE  AcksHeld'
  BY <1>4 DEF Lose, stateVars, AcksHeld, Sent, version
<1> QED BY <1>2, <1>3, <1>4 DEF FailoverNext

\* The acknowledgement of p is one of a process that is gone, of the operation of s.
CountsStale(s, p) ==
    \E m \in Sent("REPLICATION_ACK") :
        /\ m.from = p /\ m.to = s /\ m.stale
        /\ m.version = busy[s].version /\ m.term = term[s]

\* Only DropInactive and an acknowledgement of its version take a backup off those
\* that are waited for.
LEMMA StepCounted ==
    ASSUME FailoverInv, AcksHeld, FailoverNext, NEW s \in Servers, NEW p \in Servers,
           busy[s].op = "replicate", busy'[s].op = "replicate",
           p \in busy[s].pending, p \notin busy'[s].pending, members[s][p] = "ACTIVE"
    PROVE  version(p) >= busy[s].version \/ CountsStale(s, p)
<1>1. /\ FailoverTypeOK /\ StateOK /\ alive \subseteq Servers
      /\ busy \in [Servers -> {Free} \cup Replicating \cup Syncing]
  BY DEF FailoverInv, FailoverTypeOK, StateOK
<1>2. busy'[s] # busy[s]
  OBVIOUS
<1>3. ASSUME NEW q \in alive, RequestStep(q)
      PROVE  version(p) >= busy[s].version \/ CountsStale(s, p)
  <2>1. q = s
    BY <1>1, <1>2, <1>3 DEF RequestStep, AcceptRequest, DropInactive, Resend, Replicated,
         Interrupted, ReplicationTimeout, EndRequest, HandleReplication, HandleReplicationAck, Drop,
         lockVars
  <2>2. ~EndRequest(s)
    BY <1>1 DEF EndRequest, Free
  <2>3. \A r : ~AcceptRequest(s, r)
    BY DEF AcceptRequest, Free
  <2>4. ASSUME NEW x \in Servers, DropInactive(s, x)
        PROVE  FALSE
    <3>1. busy'[s].pending = busy[s].pending \ {x}
      BY <1>1, <2>4, Holders DEF DropInactive, Drop, Replicating
    <3> QED BY <2>4, <3>1 DEF DropInactive
  <2>5. ASSUME NEW m \in Sent("REPLICATION_ACK"), HandleReplicationAck(s, m)
        PROVE  version(p) >= busy[s].version \/ CountsStale(s, p)
    <3>1. /\ busy[s].version = m.version /\ Drop(s, m.from)
          /\ m.term = term[s] /\ m.to = s
      BY <1>2, <2>5 DEF HandleReplicationAck
    <3>2. busy'[s].pending = busy[s].pending \ {m.from}
      BY <1>1, <3>1, Holders DEF Drop, Replicating
    <3>3. m.from = p
      BY <3>2
    <3>4. CASE m.stale
      BY <2>5, <3>1, <3>3, <3>4 DEF CountsStale
    <3>5. CASE ~m.stale
      BY <2>5, <3>1, <3>3, <3>5 DEF AcksHeld
    <3> QED BY <3>4, <3>5
  <2> QED BY <1>2, <1>3, <2>1, <2>2, <2>3, <2>4, <2>5
          DEF RequestStep, Resend, Replicated, Interrupted, ReplicationTimeout, HandleReplication,
              lockVars
<1>4. ASSUME NEW q \in alive, MemberStep(q)
      PROVE  FALSE
  <2>1. \A m : ReceiveSnapshot(q, m) => busy'[s] = busy[s]
    BY <1>1 DEF ReceiveSnapshot
  <2>2. \A x \in Servers : SyncBegin(q, x) => busy'[s].op = "sync" \/ busy'[s] = busy[s]
    BY <1>1 DEF SyncBegin
  <2>3. \A x : SyncFinish(q, x) \/ SyncFailed(q, x) => busy'[s] = Free \/ busy'[s] = busy[s]
    BY <1>1 DEF SyncFinish, SyncFailed, EndSync
  <2>4. /\ CheckStartup(q) \/ ResendSnapshot(q) => UNCHANGED busy
        /\ \A x : \/ HandleServerHello(q, x) \/ RemoveMember(q, x) \/ SyncRefused(q, x)
                  \/ Reopen(q, x)
                  => UNCHANGED busy
        /\ \A m : HandleMembership(q, m) => UNCHANGED busy
    BY DEF CheckStartup, HandleServerHello, RemoveMember, SyncRefused, Reopen, ResendSnapshot,
           HandleMembership, lockVars
  <2>5. busy'[s].op = "sync" \/ busy'[s] = Free \/ busy'[s] = busy[s]
    BY <1>4, <2>1, <2>2, <2>3, <2>4 DEF MemberStep
  <2> QED BY <1>2, <2>5 DEF Free
<1>5. ASSUME NEW q \in Servers, End(q)
      PROVE  FALSE
  BY <1>1, <1>2, <1>5 DEF End, Free
<1>6. CASE UNCHANGED busy
  BY <1>2, <1>6
<1>7. \A q : /\ ElectionNext(q) => UNCHANGED busy
             /\ StopStep(q) => UNCHANGED busy \/ End(q)
             /\ Fail(q) => End(q)
             /\ Return(q) => UNCHANGED busy
             /\ Lose(q) => UNCHANGED busy
  <2>1. ASSUME NEW q, StopStep(q)
        PROVE  UNCHANGED busy \/ End(q)
    <3>1. CASE StopBegin(q) \/ StopLeading(q) \/ AskToLeave(q)
      BY <3>1 DEF StopBegin, StopLeading, AskToLeave, Leave, lockVars
    <3>2. CASE StopCompleted(q) \/ StopDelayed(q)
      BY <3>2 DEF StopCompleted, StopDelayed, Leave, lockVars
    <3>3. CASE ReceiveLeave(q)
      BY <3>3 DEF ReceiveLeave, HandleLeave, lockVars
    <3>4. ASSUME NEW m, HandleLeaveAck(q, m)
          PROVE  UNCHANGED busy
      BY <3>4 DEF HandleLeaveAck, lockVars
    <3> QED BY <2>1, <3>1, <3>2, <3>3, <3>4 DEF StopStep
  <2>2. \A q : Fail(q) => End(q)
    BY DEF Fail
  <2>3. \A q : ElectionNext(q) \/ Return(q) \/ Lose(q) => UNCHANGED busy
    BY DEF ElectionNext, Return, Lose, lockVars
  <2> QED BY <2>1, <2>2, <2>3
<1>8. ASSUME NEW q \in alive,
             ElectionNext(q) \/ MemberStep(q) \/ RequestStep(q) \/ StopStep(q) \/ Fail(q)
      PROVE  version(p) >= busy[s].version \/ CountsStale(s, p)
  BY <1>1, <1>3, <1>4, <1>5, <1>6, <1>7, <1>8
<1>9. ASSUME NEW x, Return(x) \/ Lose(x)
      PROVE  version(p) >= busy[s].version \/ CountsStale(s, p)
  BY <1>6, <1>7, <1>9
<1> QED BY <1>8, <1>9 DEF FailoverNext

\* Whichever acknowledgements are late, repeated or of other versions and terms, the leader
\* ceases to wait for an ACTIVE backup only when that backup has reached the version, or
\* at one that a process of the backup which is gone has sent for this very version and
\* term: nothing else can mislead it (replicate_to_all, handle_replication_ack).
THEOREM CountedBackups == FailoverSpec => CountedHeld
<1>1. FailoverInit => AcksHeld
  BY DEF FailoverInit, AcksHeld, Sent
<1>2. FailoverInv /\ AcksHeld /\ FailoverNext => AcksHeld'
  BY StepAcks
<1>3. AcksHeld /\ UNCHANGED allVars => AcksHeld'
  BY DEF AcksHeld, Sent, version, allVars, vars, stateVars
<1>4. FailoverInv /\ UNCHANGED allVars => FailoverInv'
  BY DEF FailoverInv, FailoverTypeOK, StateOK, OwnReport, allVars, vars, stateVars, threadVars,
         eventVars, lockVars, stopVars
<1>5. ASSUME FailoverInv, AcksHeld, [FailoverNext]_allVars
      PROVE  [\A s, p \in Servers :
                  /\ busy[s].op = "replicate" /\ busy'[s].op = "replicate"
                  /\ p \in busy[s].pending \ busy'[s].pending
                  /\ members[s][p] = "ACTIVE"
                  => \/ version(p) >= busy[s].version
                     \/ \E m \in Sent("REPLICATION_ACK") :
                           /\ m.from = p /\ m.to = s /\ m.stale
                           /\ m.version = busy[s].version /\ m.term = term[s]]_allVars
  BY <1>5, StepCounted DEF CountsStale
<1> QED BY InitFailover, StepFailover, <1>1, <1>2, <1>3, <1>4, <1>5, PTL
        DEF FailoverSpec, CountedHeld

================================================================================
