------------------------------ MODULE Replication ------------------------------
(***************************************************************************)
(* One leader epoch of the cluster (server/node.py): from the moment the   *)
(* server with the highest identifier has become PRIMARY with an empty     *)
(* state (check_startup) until it leaves that role.  Clients send requests,*)
(* the leader applies them one at a time and replicates each to the ACTIVE *)
(* backups, backups join, are synchronised by snapshot, are removed by     *)
(* (true or false) suspicion, crash and come back, and start elections.    *)
(* What follows when another server takes over belongs to other modules:   *)
(* here an election of the leader ends the epoch.                          *)
(*                                                                         *)
(* A step is what one thread does between two acquisitions of commit_lock  *)
(* or two waits; every block under state.lock is inside one step.          *)
(*                                                                         *)
(* messages is every datagram ever sent: a message may be received any     *)
(* number of times (duplication, retransmission), late and in any order,   *)
(* or never (loss).  RETRY, NOT_LEADER and ERROR replies are left out: they*)
(* make a client send again, which a set of messages allows anyway.        *)
(***************************************************************************)
EXTENDS ReplicatedState, Sequences, FiniteSets

CONSTANTS
    Backups,       \* the other servers, all with a smaller identifier
    Leader,        \* the server with the highest identifier
    Threads,       \* concurrent client-request threads of the leader (bound)
    None,          \* nobody holds commit_lock; no leader known
    Values,        \* the values clients add
    FirstReq,      \* [Clients -> Nat]: the request a client has pending when
                   \*   the epoch begins: 1 for a new client, more for a client
                   \*   that an earlier, lost cluster has answered
    MaxReq,        \* requests per client (bound)
    MaxTerm,       \* elections started by backups (bound)
    MaxRestarts,   \* incarnations of a backup (bound)
    MaxTransfers   \* synchronisations (bound)

Servers == Backups \cup {Leader}

VARIABLES
    \* every server
    state,         \* state.replicated, without its term
    role,          \* state.role
    term,          \* state.replicated.election_term
    leader_id,     \* state.leader_id
    incarnation,   \* history variable: 1 + the restarts of a server
    \* the leader
    members,       \* status of each backup in state.members
    transitioning, \* the Event transitioning: TRUE is set, writes may pass
    commit_lock,   \* the holder of commit_lock
    electionDue,   \* start_election is scheduled or waits for commit_lock
    sync,          \* phase of the sync_member thread of each backup
    transfer,      \* the transfer that thread waits for (pending_snapshots), or 0
    transfers,     \* transfer identifiers handed out by sync_member
    pc,            \* where each client-request thread is
    job,           \* the request it serves
    operation,     \* the REPLICATION message being replicated
    pending,       \* backups that neither acknowledged it nor were dropped
    \* clients and network
    nextReq,       \* id_requisicao of each client
    messages,      \* every datagram sent
    \* history variables
    log,           \* accepted requests, with the leader's state after each
    admitted       \* incarnation that acknowledged the last snapshot of a sync, or 0

serverVars  == <<state, role, term, leader_id, incarnation>>
syncVars    == <<sync, transfer, transfers>>
memberVars  == <<members, admitted>>
threadVars  == <<pc, job, operation, pending>>
vars == <<serverVars, syncVars, memberVars, threadVars, transitioning,
          commit_lock, electionDue, nextReq, messages, log>>

Request(c, r, v) == [type |-> "CLIENT_REQUEST", client |-> c, req |-> r, value |-> v]

ClientAck(c, r, n, t, dup) ==
    [type |-> "CLIENT_ACK", client |-> c, req |-> r, num_reqs |-> n,
     total_sum |-> t, duplicate |-> dup]

Requests ==
    [type : {"CLIENT_REQUEST"}, client : Clients, req : Nat, value : Values]
ClientAcks ==
    [type : {"CLIENT_ACK"}, client : Clients, req : Nat, num_reqs : Nat,
     total_sum : Nat, duplicate : BOOLEAN]
Replications ==
    [type : {"REPLICATION"}, to : SUBSET Backups, version : Nat, term : Nat,
     client : Clients, req : Uint64, value : Values]
ReplicationAcks ==
    [type : {"REPLICATION_ACK"}, from : Backups, version : Nat, term : Nat]
Snapshots ==
    [type : {"SNAPSHOT"}, to : Backups, transfer : Nat, state : State, term : Nat]
SnapshotAcks ==
    [type : {"SNAPSHOT_ACK"}, from : Backups, transfer : Nat, incarnation : Nat]
Notices == [type : {"SNAPSHOT_REQUEST", "SERVER_HELLO"}, from : Backups]
Elections == [type : {"ELECTION"}, from : Backups, term : Nat]
Heartbeats == [type : {"HEARTBEAT"}, term : Nat]

Messages == Requests \cup ClientAcks \cup Replications \cup ReplicationAcks
            \cup Snapshots \cup SnapshotAcks \cup Notices \cup Elections \cup Heartbeats

\* require_uint64(..., positive=True): what a thread gets to work on.
Jobs == {m \in Requests : m.req \in Uint64 /\ m.req > 0}

ASSUME ConstantsAssumption ==
    /\ Leader \notin Backups
    /\ None \notin Servers \cup Threads \cup Jobs \cup Replications
    /\ Threads \cap Servers = {}
    /\ Values \subseteq 1 .. MaxUint64
    /\ FirstReq \in [Clients -> Nat \ {0}]
    /\ MaxReq \in Nat /\ MaxTerm \in Nat /\ MaxRestarts \in Nat /\ MaxTransfers \in Nat

Sent(type) == {m \in messages : m.type = type}

Send(m) == messages' = messages \cup {m}

LogEntries == [client : Clients, req : Nat, value : Values, state : State]

TypeOK ==
    /\ state \in [Servers -> State]
    /\ role \in [Servers -> {"JOINING", "BACKUP", "CANDIDATE", "PRIMARY"}]
    /\ term \in [Servers -> Nat]
    /\ leader_id \in [Servers -> {Leader, None}]
    /\ incarnation \in [Servers -> Nat \ {0}]
    /\ members \in [Backups -> {"NONE", "JOINING", "ACTIVE"}]
    /\ admitted \in [Backups -> Nat]
    /\ transitioning \in BOOLEAN /\ electionDue \in BOOLEAN
    /\ commit_lock \in Threads \cup Backups \cup {None}
    /\ sync \in [Backups -> {"idle", "queued", "sending", "acknowledged", "ending"}]
    /\ transfer \in [Backups -> Nat] /\ transfers \in Nat
    /\ pc \in [Threads -> {"idle", "committing", "replicating"}]
    /\ job \in [Threads -> Jobs \cup {None}]
    /\ \A t \in Threads : pc[t] # "idle" => job[t] # None
    /\ operation \in Replications \cup {None}
    /\ pending \subseteq Backups
    /\ nextReq \in [Clients -> Nat]
    /\ messages \subseteq Messages
    /\ log \in Seq(LogEntries)

\* The state every correct replica with version n has.
StateAt(n) == IF n = 0 THEN EmptyState ELSE log[n].state

Version(s) == state[s].state_version

--------------------------------------------------------------------------------
(* The first state: check_startup has made Leader the PRIMARY of term 1.   *)
(* Every server sends SERVER_HELLO from its start on (maintenance_loop), and*)
(* the leader announces itself (announce_coordinator, then a heartbeat; the *)
(* two mean the same to a JOINING server): the messages set holds them from *)
(* the beginning, and each is received when, and if, the network delivers.  *)

Init ==
    /\ state = [s \in Servers |-> EmptyState]
    /\ role = [s \in Servers |-> IF s = Leader THEN "PRIMARY" ELSE "JOINING"]
    /\ term = [s \in Servers |-> IF s = Leader THEN 1 ELSE 0]
    /\ leader_id = [s \in Servers |-> IF s = Leader THEN Leader ELSE None]
    /\ incarnation = [s \in Servers |-> 1]
    /\ members = [s \in Backups |-> "NONE"]
    /\ admitted = [s \in Backups |-> 0]
    /\ transitioning = TRUE
    /\ commit_lock = None
    /\ electionDue = FALSE
    /\ sync = [s \in Backups |-> "idle"]
    /\ transfer = [s \in Backups |-> 0]
    /\ transfers = 0
    /\ pc = [t \in Threads |-> "idle"]
    /\ job = [t \in Threads |-> None]
    /\ operation = None
    /\ pending = {}
    /\ nextReq = FirstReq
    /\ messages = [type : {"SERVER_HELLO"}, from : Backups]
                  \cup {[type |-> "HEARTBEAT", term |-> 1]}
    /\ log = <<>>

--------------------------------------------------------------------------------
(* Clients: stop-and-wait, the same identifier and value until the ACK.    *)

\* enviar_valor_stop_and_wait sends request number nextReq[c].
SendRequest(c) ==
    /\ nextReq[c] < FirstReq[c] + MaxReq
    /\ \A m \in Sent("CLIENT_REQUEST") : ~(m.client = c /\ m.req = nextReq[c])
    /\ \E v \in Values : Send(Request(c, nextReq[c], v))
    /\ UNCHANGED <<serverVars, syncVars, memberVars, threadVars, transitioning,
                   commit_lock, electionDue, nextReq, log>>

\* It returns on a CLIENT_ACK with its identifier; the caller counts up.
ReceiveAck(c) ==
    /\ \E m \in Sent("CLIENT_ACK") : m.client = c /\ m.req = nextReq[c]
    /\ nextReq' = [nextReq EXCEPT ![c] = @ + 1]
    /\ UNCHANGED <<serverVars, syncVars, memberVars, threadVars, transitioning,
                   commit_lock, electionDue, messages, log>>

--------------------------------------------------------------------------------
(* handle_client_request, in a thread of its own                           *)

\* dispatch starts a thread, the first role check passes and transitioning.wait
\* returns.  Up to there the thread holds nothing and changes nothing, so the
\* model lets it start when the wait returns; a thread that gives up waiting
\* (RETRY) leaves no trace.
Dispatch(t, m) ==
    /\ pc[t] = "idle"
    /\ m \in Jobs
    /\ role[Leader] = "PRIMARY"
    /\ transitioning
    /\ pc' = [pc EXCEPT ![t] = "committing"]
    /\ job' = [job EXCEPT ![t] = m]
    /\ UNCHANGED <<serverVars, syncVars, memberVars, operation, pending, transitioning,
                   commit_lock, electionDue, nextReq, messages, log>>

Classification(t) == ClassifyRequest(state[Leader], job[t].client, job[t].req)

\* The commit section begins: commit_lock is free and the thread takes it.
EnterCommit(t) == pc[t] = "committing" /\ commit_lock = None

\* The sections that end without replication release commit_lock at once.
LeaveCommit(t) ==
    /\ pc' = [pc EXCEPT ![t] = "idle"]
    /\ job' = [job EXCEPT ![t] = None]
    /\ UNCHANGED <<serverVars, syncVars, memberVars, operation, pending,
                   transitioning, commit_lock, nextReq, log>>

\* The role has changed while the thread waited: NOT_LEADER.
CommitNotPrimary(t) ==
    /\ EnterCommit(t)
    /\ role[Leader] # "PRIMARY"
    /\ LeaveCommit(t)
    /\ UNCHANGED <<electionDue, messages>>

\* Mutant: the repeated answer quotes the totals of now.
CurrentDuplicate(t) ==
    /\ EnterCommit(t)
    /\ role[Leader] = "PRIMARY"
    /\ Classification(t) = "DUPLICATE"
    /\ LET client == state[Leader].clients[job[t].client]
       IN  Send(ClientAck(job[t].client, client.last_req, state[Leader].num_reqs,
                          state[Leader].total_sum, TRUE))
    /\ LeaveCommit(t)
    /\ UNCHANGED electionDue

\* The stored answer to the client's last request is sent again.
CommitDuplicate(t) ==
    /\ EnterCommit(t)
    /\ role[Leader] = "PRIMARY"
    /\ Classification(t) = "DUPLICATE"
    /\ LET client == state[Leader].clients[job[t].client]
       IN  Send(ClientAck(job[t].client, client.last_req, client.last_num_reqs,
                          client.last_total_sum, TRUE))
    /\ LeaveCommit(t)
    /\ UNCHANGED electionDue

\* A gap in the client's identifiers: RETRY, and an election is scheduled.
CommitFuture(t) ==
    /\ EnterCommit(t)
    /\ role[Leader] = "PRIMARY"
    /\ Classification(t) = "FUTURE"
    /\ electionDue' = TRUE
    /\ LeaveCommit(t)
    /\ UNCHANGED messages

\* apply_request raises: the thread ends without a reply.
CommitOverflow(t) ==
    /\ EnterCommit(t)
    /\ role[Leader] = "PRIMARY"
    /\ Classification(t) = "NEW"
    /\ Overflows(state[Leader], job[t].value)
    /\ LeaveCommit(t)
    /\ UNCHANGED <<electionDue, messages>>

ActiveMembers == {s \in Backups : members[s] = "ACTIVE"}

\* Mutant: the thread does not wait for commit_lock.
UnlockedCommit(t) ==
    /\ pc[t] = "committing"
    /\ role[Leader] = "PRIMARY"
    /\ Accepts(state[Leader], job[t].client, job[t].req, job[t].value)
    /\ LET next == ApplyRequest(state[Leader], job[t].client, job[t].req, job[t].value)
       IN  /\ state' = [state EXCEPT ![Leader] = next]
           /\ operation' = [type |-> "REPLICATION", to |-> ActiveMembers,
                            version |-> next.state_version, term |-> term[Leader],
                            client |-> job[t].client, req |-> job[t].req,
                            value |-> job[t].value]
           /\ log' = Append(log, [client |-> job[t].client, req |-> job[t].req,
                                  value |-> job[t].value, state |-> next])
    /\ Send(operation')
    /\ pending' = ActiveMembers
    /\ commit_lock' = t
    /\ pc' = [pc EXCEPT ![t] = "replicating"]
    /\ UNCHANGED <<role, term, leader_id, incarnation, syncVars, memberVars, job,
                   transitioning, electionDue, nextReq>>

\* The request is applied and its replication to the ACTIVE backups begins.
CommitNew(t) ==
    /\ EnterCommit(t)
    /\ role[Leader] = "PRIMARY"
    /\ Accepts(state[Leader], job[t].client, job[t].req, job[t].value)
    /\ LET next == ApplyRequest(state[Leader], job[t].client, job[t].req, job[t].value)
       IN  /\ state' = [state EXCEPT ![Leader] = next]
           /\ operation' = [type |-> "REPLICATION", to |-> ActiveMembers,
                            version |-> next.state_version, term |-> term[Leader],
                            client |-> job[t].client, req |-> job[t].req,
                            value |-> job[t].value]
           /\ log' = Append(log, [client |-> job[t].client, req |-> job[t].req,
                                  value |-> job[t].value, state |-> next])
    /\ Send(operation')
    /\ pending' = ActiveMembers
    /\ commit_lock' = t
    /\ pc' = [pc EXCEPT ![t] = "replicating"]
    /\ UNCHANGED <<role, term, leader_id, incarnation, syncVars, memberVars, job,
                   transitioning, electionDue, nextReq>>

--------------------------------------------------------------------------------
(* replicate_to_all.  An Event per backup collects the acknowledgements;   *)
(* pending is the set of backups whose Event is not set.                   *)

\* A backup that is no longer ACTIVE is not waited for.
DropInactive(s) ==
    /\ s \in pending
    /\ members[s] # "ACTIVE"
    /\ pending' = pending \ {s}
    /\ UNCHANGED <<serverVars, syncVars, memberVars, pc, job, operation, transitioning,
                   commit_lock, electionDue, nextReq, messages, log>>

\* Mutant: the lock is not released when replicate_to_all returns.
LockedEnd(t) ==
    /\ pc[t] = "replicating"
    /\ pc' = [pc EXCEPT ![t] = "idle"]
    /\ job' = [job EXCEPT ![t] = None]
    /\ operation' = None
    /\ pending' = {}
    /\ UNCHANGED <<serverVars, syncVars, memberVars, transitioning, commit_lock,
                   nextReq, log>>

\* replicate_to_all returns, and the thread leaves the commit section.
EndReplication(t) ==
    /\ pc[t] = "replicating"
    /\ pc' = [pc EXCEPT ![t] = "idle"]
    /\ job' = [job EXCEPT ![t] = None]
    /\ operation' = None
    /\ pending' = {}
    /\ commit_lock' = None
    /\ UNCHANGED <<serverVars, syncVars, memberVars, transitioning, nextReq, log>>

\* The role or the term changed meanwhile: RETRY; the operation stays applied.
\* The check is in the waiting loop, which a request without backups skips.
Interrupted(t) ==
    /\ EndReplication(t)
    /\ operation.to # {}
    /\ role[Leader] # "PRIMARY" \/ term[Leader] # operation.term
    /\ UNCHANGED <<electionDue, messages>>

\* replication_timeout passed: RETRY, and an election is scheduled.  It may
\* also find every Event set, when the last one came at the deadline.
ReplicationTimeout(t) ==
    /\ EndReplication(t)
    /\ operation.to # {}
    /\ electionDue' = TRUE
    /\ UNCHANGED messages

\* None is pending: the client gets its ACK.
Replicated(t) ==
    /\ EndReplication(t)
    /\ pending = {}
    /\ Send(ClientAck(job[t].client, job[t].req, state[Leader].num_reqs,
                      state[Leader].total_sum, FALSE))
    /\ UNCHANGED electionDue

\* Mutant: any acknowledgement of a backup counts for the current operation.
AnyVersionAck(m) ==
    /\ role[Leader] = "PRIMARY"
    /\ m.term = term[Leader]
    /\ members[m.from] = "ACTIVE"
    /\ electionDue' = (electionDue \/ m.version > Version(Leader))
    /\ pending' = pending \ {m.from}
    /\ UNCHANGED <<serverVars, syncVars, memberVars, pc, job, operation, transitioning,
                   commit_lock, nextReq, messages, log>>

\* handle_replication_ack
HandleReplicationAck(m) ==
    /\ role[Leader] = "PRIMARY"
    /\ m.term = term[Leader]
    /\ members[m.from] = "ACTIVE"
    /\ electionDue' = (electionDue \/ m.version > Version(Leader))
    /\ pending' = IF /\ m.version <= Version(Leader)
                     /\ operation # None /\ m.version = operation.version
                  THEN pending \ {m.from} ELSE pending
    /\ UNCHANGED <<serverVars, syncVars, memberVars, pc, job, operation, transitioning,
                   commit_lock, nextReq, messages, log>>

--------------------------------------------------------------------------------
(* Membership and synchronisation at the leader                            *)

\* note_server: an unknown sender is entered with a default status.
NoteServer(s, status) ==
    members' = [members EXCEPT ![s] = IF @ = "NONE" THEN status ELSE @]

\* handle_server_hello; the sender's role is always JOINING, so schedule_sync
\* is called, and starts a sync_member thread unless there is one.
HandleServerHello(m) ==
    /\ role[Leader] = "PRIMARY"
    /\ NoteServer(m.from, "JOINING")
    /\ sync' = [sync EXCEPT ![m.from] = IF @ = "idle" THEN "queued" ELSE @]
    /\ UNCHANGED <<serverVars, transfer, transfers, admitted, threadVars, transitioning,
                   commit_lock, electionDue, nextReq, messages, log>>

Snapshot(s, id) == [type |-> "SNAPSHOT", to |-> s, transfer |-> id,
                    state |-> state[Leader], term |-> term[Leader]]

\* sync_member gets commit_lock, closes the service and sends the snapshot ...
SyncBegin(s) ==
    /\ sync[s] = "queued"
    /\ commit_lock = None
    /\ role[Leader] = "PRIMARY" /\ members[s] # "NONE"
    /\ transfers < MaxTransfers
    /\ transitioning' = FALSE
    /\ commit_lock' = s
    /\ transfers' = transfers + 1
    /\ transfer' = [transfer EXCEPT ![s] = transfers + 1]
    /\ sync' = [sync EXCEPT ![s] = "sending"]
    /\ Send(Snapshot(s, transfers + 1))
    /\ UNCHANGED <<serverVars, memberVars, threadVars, electionDue, nextReq, log>>

\* ... or returns at once, to its finally clause.
SyncRefused(s) ==
    /\ sync[s] = "queued"
    /\ commit_lock = None
    /\ role[Leader] # "PRIMARY" \/ members[s] = "NONE"
    /\ sync' = [sync EXCEPT ![s] = "ending"]
    /\ UNCHANGED <<serverVars, transfer, transfers, memberVars, threadVars, transitioning,
                   commit_lock, electionDue, nextReq, messages, log>>

\* send_snapshot sends up to eight times; a later round carries a newer term.
Resend(s) ==
    /\ sync[s] = "sending"
    /\ Send(Snapshot(s, transfer[s]))
    /\ UNCHANGED <<serverVars, syncVars, memberVars, threadVars, transitioning,
                   commit_lock, electionDue, nextReq, log>>

\* handle_snapshot_ack: the sender is noted, and a waiting transfer has its answer.
HandleSnapshotAck(m) ==
    /\ NoteServer(m.from, "JOINING")
    /\ IF sync[m.from] = "sending" /\ transfer[m.from] = m.transfer
       THEN /\ sync' = [sync EXCEPT ![m.from] = "acknowledged"]
            /\ transfer' = [transfer EXCEPT ![m.from] = 0]
            /\ admitted' = [admitted EXCEPT ![m.from] = m.incarnation]
       ELSE UNCHANGED <<sync, transfer, admitted>>
    /\ UNCHANGED <<serverVars, transfers, threadVars, transitioning,
                   commit_lock, electionDue, nextReq, messages, log>>

\* The backup becomes ACTIVE, unless it was removed meanwhile.
SyncFinish(s) ==
    /\ sync[s] = "acknowledged"
    /\ members' = [members EXCEPT
                     ![s] = IF @ # "NONE" /\ role[Leader] = "PRIMARY" THEN "ACTIVE" ELSE @]
    /\ commit_lock' = None
    /\ sync' = [sync EXCEPT ![s] = "ending"]
    /\ UNCHANGED <<serverVars, transfer, transfers, admitted, threadVars, transitioning,
                   electionDue, nextReq, messages, log>>

\* No acknowledgement after eight rounds: the backup is forgotten.
SyncFailed(s) ==
    /\ sync[s] = "sending"
    /\ members' = [members EXCEPT ![s] = "NONE"]
    /\ admitted' = [admitted EXCEPT ![s] = 0]
    /\ commit_lock' = None
    /\ sync' = [sync EXCEPT ![s] = "ending"]
    /\ transfer' = [transfer EXCEPT ![s] = 0]
    /\ UNCHANGED <<serverVars, transfers, threadVars, transitioning,
                   electionDue, nextReq, messages, log>>

\* Mutant: a transfer that ends leaves the service closed.
ClosedEnd(s) ==
    /\ sync[s] = "ending"
    /\ sync' = [sync EXCEPT ![s] = "idle"]
    /\ UNCHANGED <<serverVars, transfer, transfers, memberVars, threadVars, transitioning,
                   commit_lock, electionDue, nextReq, messages, log>>

\* The finally clause of sync_member, after commit_lock is released.
SyncEnd(s) ==
    /\ sync[s] = "ending"
    /\ transitioning' = TRUE
    /\ sync' = [sync EXCEPT ![s] = "idle"]
    /\ UNCHANGED <<serverVars, transfer, transfers, memberVars, threadVars,
                   commit_lock, electionDue, nextReq, messages, log>>

\* handle_snapshot_request: a snapshot without commit_lock and without a sync;
\* nobody waits for its result (transfer 0).
HandleSnapshotRequest(m) ==
    /\ NoteServer(m.from, "JOINING")
    /\ Send(Snapshot(m.from, 0))
    /\ UNCHANGED <<serverVars, syncVars, admitted, threadVars, transitioning,
                   commit_lock, electionDue, nextReq, log>>

\* check_failures and remove_member: no contact for failure_timeout, because the
\* backup is down or because its messages are late.
RemoveMember(s) ==
    /\ role[Leader] = "PRIMARY"
    /\ members[s] = "ACTIVE"
    /\ members' = [members EXCEPT ![s] = "NONE"]
    /\ admitted' = [admitted EXCEPT ![s] = 0]
    /\ UNCHANGED <<serverVars, syncVars, threadVars, transitioning,
                   commit_lock, electionDue, nextReq, messages, log>>

\* handle_election: the sender is noted as ACTIVE, the term follows, and the
\* leader, whose identifier is higher, starts an election of its own.
HandleElection(m) ==
    /\ NoteServer(m.from, "ACTIVE")
    /\ term' = [term EXCEPT ![Leader] = IF m.term > @ THEN m.term ELSE @]
    /\ electionDue' = TRUE
    /\ UNCHANGED <<state, role, leader_id, incarnation, syncVars, admitted, threadVars,
                   transitioning, commit_lock, nextReq, messages, log>>

\* start_election at the leader: it needs commit_lock, and ends the epoch.
LeaderStartElection ==
    /\ electionDue
    /\ commit_lock = None
    /\ role[Leader] = "PRIMARY"
    /\ transitioning' = FALSE
    /\ role' = [role EXCEPT ![Leader] = "CANDIDATE"]
    /\ term' = [term EXCEPT ![Leader] = @ + 1]
    /\ electionDue' = FALSE
    /\ UNCHANGED <<state, leader_id, incarnation, syncVars, memberVars, threadVars,
                   commit_lock, nextReq, messages, log>>

\* maintenance_loop, at the leader
SendHeartbeat ==
    /\ role[Leader] = "PRIMARY"
    /\ Send([type |-> "HEARTBEAT", term |-> term[Leader]])
    /\ UNCHANGED <<serverVars, syncVars, memberVars, threadVars, transitioning,
                   commit_lock, electionDue, nextReq, log>>

--------------------------------------------------------------------------------
(* Backups                                                                 *)

backupUnchanged == <<syncVars, memberVars, threadVars, transitioning, commit_lock,
                     electionDue, nextReq, log>>

\* handle_heartbeat
HandleHeartbeat(s, m) ==
    /\ m.term >= term[s]
    /\ term' = [term EXCEPT ![s] = m.term]
    /\ leader_id' = [leader_id EXCEPT ![s] = Leader]
    /\ role' = [role EXCEPT ![s] = IF @ = "JOINING" THEN "JOINING" ELSE "BACKUP"]
    /\ UNCHANGED <<state, incarnation, messages, backupUnchanged>>

\* handle_replication accepts a message of its leader in a current term.
AcceptsReplication(s, m) ==
    /\ s \in m.to
    /\ leader_id[s] = Leader
    /\ m.term >= term[s]
    /\ role[s] \in {"BACKUP", "JOINING"}

\* The operation is applied, or the backup has it: the ACK carries its version.
\* Or it does not fit the state, and the backup asks for a snapshot.
HandleReplication(s, m) ==
    /\ AcceptsReplication(s, m)
    /\ state' = [state EXCEPT ![s] = ApplyReplication(@, m)]
    /\ IF ReplicationOutcome(state[s], m) = "REFUSED"
       THEN Send([type |-> "SNAPSHOT_REQUEST", from |-> s])
       ELSE Send([type |-> "REPLICATION_ACK", from |-> s,
                  version |-> state'[s].state_version, term |-> term[s]])
    /\ UNCHANGED <<role, term, leader_id, incarnation, backupUnchanged>>

\* handle_snapshot_chunk with the last missing chunk.  An older snapshot is
\* acknowledged all the same, but changes nothing.
HandleSnapshot(s, m) ==
    /\ m.to = s
    /\ state' = [state EXCEPT ![s] = InstallSnapshot(@, m.state)]
    /\ IF RefusesSnapshot(state[s], m.state)
       THEN UNCHANGED <<role, term, leader_id>>
       ELSE /\ term' = [term EXCEPT ![s] = IF m.term > @ THEN m.term ELSE @]
            /\ leader_id' = [leader_id EXCEPT ![s] = Leader]
            /\ role' = [role EXCEPT ![s] = IF @ = "CANDIDATE" THEN @ ELSE "BACKUP"]
    /\ Send([type |-> "SNAPSHOT_ACK", from |-> s, transfer |-> m.transfer,
             incarnation |-> incarnation[s]])
    /\ UNCHANGED <<incarnation, backupUnchanged>>

\* start_election at a backup (check_failures, or an election message of a
\* smaller server): ELECTION goes to the leader.
BackupStartElection(s) ==
    /\ role[s] \in {"BACKUP", "CANDIDATE"}
    /\ term[s] < MaxTerm
    /\ role' = [role EXCEPT ![s] = "CANDIDATE"]
    /\ term' = [term EXCEPT ![s] = @ + 1]
    /\ Send([type |-> "ELECTION", from |-> s, term |-> term'[s]])
    /\ UNCHANGED <<state, leader_id, incarnation, backupUnchanged>>

\* Crash and restart: nothing is persisted.
Restart(s) ==
    /\ incarnation[s] <= MaxRestarts
    /\ state' = [state EXCEPT ![s] = EmptyState]
    /\ role' = [role EXCEPT ![s] = "JOINING"]
    /\ term' = [term EXCEPT ![s] = 0]
    /\ leader_id' = [leader_id EXCEPT ![s] = None]
    /\ incarnation' = [incarnation EXCEPT ![s] = @ + 1]
    /\ UNCHANGED <<messages, backupUnchanged>>

--------------------------------------------------------------------------------
ClientStep == \E c \in Clients : SendRequest(c) \/ ReceiveAck(c)

ThreadStep(t) ==
    \/ \E m \in Sent("CLIENT_REQUEST") : Dispatch(t, m)
    \/ CommitNotPrimary(t)
    \/ CommitDuplicate(t)
    \/ CommitFuture(t)
    \/ CommitOverflow(t)
    \/ CommitNew(t)
    \/ Interrupted(t)
    \/ ReplicationTimeout(t)
    \/ Replicated(t)

SyncStep(s) ==
    \/ SyncBegin(s)
    \/ SyncRefused(s)
    \/ Resend(s)
    \/ SyncFinish(s)
    \/ SyncFailed(s)
    \/ SyncEnd(s)

LeaderStep ==
    \/ \E s \in Backups : DropInactive(s) \/ RemoveMember(s)
    \/ \E m \in Sent("REPLICATION_ACK") : HandleReplicationAck(m)
    \/ \E m \in Sent("SERVER_HELLO") : HandleServerHello(m)
    \/ \E m \in Sent("SNAPSHOT_ACK") : HandleSnapshotAck(m)
    \/ \E m \in Sent("SNAPSHOT_REQUEST") : HandleSnapshotRequest(m)
    \/ \E m \in Sent("ELECTION") : HandleElection(m)
    \/ LeaderStartElection
    \/ SendHeartbeat

BackupStep(s) ==
    \/ \E m \in Sent("HEARTBEAT") : HandleHeartbeat(s, m)
    \/ \E m \in Sent("REPLICATION") : HandleReplication(s, m)
    \/ \E m \in Sent("SNAPSHOT") : HandleSnapshot(s, m)
    \/ BackupStartElection(s)
    \/ Restart(s)

Next ==
    \/ ClientStep
    \/ \E t \in Threads : ThreadStep(t)
    \/ \E s \in Backups : SyncStep(s) \/ BackupStep(s)
    \/ LeaderStep

Spec == Init /\ [][Next]_vars

--------------------------------------------------------------------------------
(* Properties *)

\* Whatever was lost, repeated or reordered, and whenever servers crashed, a
\* replica holds the state the leader had after some number of requests
\* (apply_replication, install_snapshot): no replica ever merges two histories,
\* skips an operation or applies one twice.
BackupPrefix ==
    \A s \in Servers : /\ Version(s) <= Len(log)
                       /\ state[s] = StateAt(Version(s))

\* README.md:6, "entrega logica exatamente uma vez por (client_id, request_id)":
\* a client's accepted requests are in the order of their identifiers, none twice,
\* although a request is sent again and may be served by several threads at once, and
\* one that is late may arrive after the next (run, handle_client_request).
ExactlyOnce ==
    \A i, j \in DOMAIN log :
        i < j /\ log[i].client = log[j].client => log[i].req < log[j].req

\* Every CLIENT_ACK, first or repeated (reply_client), tells the client the totals
\* right after its own request was added, not those of another request.
AckTruthful ==
    \A m \in Sent("CLIENT_ACK") :
        /\ m.num_reqs \in DOMAIN log
        /\ log[m.num_reqs].client = m.client
        /\ log[m.num_reqs].req = m.req
        /\ log[m.num_reqs].state.total_sum = m.total_sum

\* A backup the leader synchronised and that has not crashed since.
Synchronised(s) == members[s] = "ACTIVE" /\ admitted[s] = incarnation[s]

\* The accepted requests and the answers, as SumService states them.
Service == INSTANCE SumService WITH
    history <- [i \in DOMAIN log |-> [client    |-> log[i].client,
                                      req       |-> log[i].req,
                                      value     |-> log[i].value,
                                      total_sum |-> log[i].state.total_sum]],
    answers <- {[client |-> m.client, req |-> m.req, num_reqs |-> m.num_reqs,
                 total_sum |-> m.total_sum] : m \in Sent("CLIENT_ACK")}

\* Seen from the clients, the replicated cluster is one server that adds each
\* request once, in the order of the client's identifiers, and answers with the
\* position and the sum it reached: SumService, without servers or failures.
ImplementsService == Service!Spec

\* README.md:27-28: a request that replicate_to_all completed is, from its
\* CLIENT_ACK on, held by every ACTIVE backup that was synchronised: late or
\* repeated acknowledgements, removals and syncs in between do not break it.
NewAckReplicated ==
    \A m \in Sent("CLIENT_ACK") : ~m.duplicate =>
        \A s \in Backups : Synchronised(s) => Version(s) >= m.num_reqs

\* README.md:27-28, of every CLIENT_ACK: what a client was told is held by every
\* ACTIVE synchronised backup.  The repeated answer of a request whose replication
\* was given up (replicate_to_all returned False) breaks it.
AckedReplicated ==
    \A m \in Sent("CLIENT_ACK") :
        \A s \in Backups : Synchronised(s) => Version(s) >= m.num_reqs

\* README.md:97-98: a server receives a snapshot and only then becomes ACTIVE.
ActiveWasSynced == \A s \in Backups : members[s] = "ACTIVE" => admitted[s] # 0

\* README.md:28-30: during a synchronisation new writes get RETRY, that is,
\* transitioning is cleared while a snapshot is being sent.
SyncClosesService ==
    \A s \in Backups : sync[s] = "sending" => ~transitioning

\* A running server never goes back to an older version, whatever old snapshot or
\* replication message arrives: only a crash forgets.
NoRollback ==
    [][\A s \in Servers : incarnation'[s] = incarnation[s] =>
            state'[s].state_version >= Version(s)]_vars

\* While one sync_member transfers a snapshot, no request is applied: what the
\* backup installs is still the leader's state when it becomes ACTIVE.
NoWriteDuringSync ==
    [][log' # log => \A s \in Backups : sync[s] \notin {"sending", "acknowledged"}]_vars

--------------------------------------------------------------------------------
(* Fairness: threads that hold a lock or wait with a timeout go on; the    *)
(* request a client keeps retransmitting is received again and again; a    *)
(* thread that waits for commit_lock gets it if it is free again and again *)
(* (strong fairness: several threads compete for the lock).                *)

DispatchPending(c) ==
    \E m \in Sent("CLIENT_REQUEST") :
        m.client = c /\ m.req = nextReq[c] /\ \E t \in Threads : Dispatch(t, m)

Commit(t) ==
    \/ CommitNotPrimary(t) \/ CommitDuplicate(t) \/ CommitFuture(t)
    \/ CommitOverflow(t)   \/ CommitNew(t)

FairSpec ==
    /\ Spec
    /\ \A c \in Clients : SF_vars(DispatchPending(c))
    /\ \A t \in Threads : /\ SF_vars(Commit(t))
                          /\ WF_vars(Interrupted(t) \/ ReplicationTimeout(t) \/ Replicated(t))
    /\ \A s \in Backups : /\ WF_vars(SyncFinish(s) \/ SyncFailed(s))
                          /\ WF_vars(SyncEnd(s))
    /\ SF_vars(LeaderStartElection)

\* A synchronisation that closes the service reopens it, however it ends, unless
\* the leader has meanwhile left its role.
ServiceReopens == ~transitioning ~> (transitioning \/ role[Leader] # "PRIMARY")

\* A client is not left waiting by a leader that stays: its pending request is
\* answered, or the leader starts an election.
RequestResolved ==
    \A c \in Clients : \A r \in 1 .. MaxUint64 :
        (\E m \in Sent("CLIENT_REQUEST") : m.client = c /\ m.req = r) ~>
            \/ \E m \in Sent("CLIENT_ACK") : m.client = c /\ m.req = r
            \/ role[Leader] # "PRIMARY"

================================================================================
