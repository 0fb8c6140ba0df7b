# Verification of the replicated sum service

TLA+ models, TLC runs and TLAPS proofs about the Python sum service of this
repository: UDP servers that keep one running sum, replicate it passively to
every active server, elect a leader with the Bully algorithm and synchronise
newcomers by snapshot. Everything below is translated from the source; file and
line numbers refer to it.

## 1. The system

| Component | State | Operations | Properties that make it correct |
|---|---|---|---|
| Replicated state (`server/state.py`) | `num_reqs`, `total_sum`, `state_version`, last request and answer of each client | `classify_request`, `apply_request`, `apply_replication`, `to_snapshot`, `install_snapshot` | one history; each request once; repeated requests get their own answer; nothing moves when an operation is refused |
| Requests and replication at the leader (`server/node.py` 728-960) | `commit_lock`, `transitioning`, `pending_replication`, one thread per datagram | `handle_client_request`, `replicate_to_all`, `handle_replication(_ack)`, `reply_client` | a request is answered when every ACTIVE backup has it; answers are truthful; every request ends |
| Membership and synchronisation (439-682) | `members`, `syncing`, `pending_snapshots`, `snapshot_receivers` | `note_server`, `handle_server_hello`, `sync_member`, `send_snapshot`, `handle_snapshot_chunk`, `handle_snapshot_ack`, `remove_member`, `handle_membership` | only a synchronised backup is ACTIVE; no write during a transfer; the service reopens; no replica goes back |
| Startup and election (395-437, 995-1340) | `role`, `leader_id`, `election_term`, `election_ok`, `summary_responses`, `coordinator_announced`, `snapshot_installed`, `election_lock` | `check_startup`, `check_failures`, `start_election`, `become_coordinator`, the handlers of the election messages | the new leader has the newest state it was told of; an overtaken candidate gives up; two leaders do not last; every election ends |
| Shutdown (1342-1414, `server/interface.py`) | `leave_acknowledged` | `stop`, `handle_server_leave`, `handle_leave_ack` | the last server refuses once; a leader leaves only when replaced |
| Client (`client/`) | pending request, known leader, counters of timeouts and retries | `enviar_valor_stop_and_wait`, `descobrir_servidor`, `descobrir_com_retry`, `executar_loop_principal` | an identifier advances only on its own ACK; the value never changes on a retry |
| Wire protocol (`common/protocol.py`) | none | `encode`, `decode`, `require_uint64`, `snapshot_chunks`, `assemble_snapshot` | a snapshot is reassembled exactly or not at all |
| Relay, benchmark, tests (`benchmarks/`, `testing/`, `test/`) | a table of registered servers | forwarding, orchestration, reporting | outside the service |

Servers interact by datagrams only, and README.md:53-54 names the faults they
must tolerate: loss, duplication, delay, reordering, crash and return. Inside a
server the receive loop, the maintenance loop, one thread per client request, one
per synchronisation and timers share `ServerState` under two locks: `state.lock`
for short sections and `commit_lock` for a whole request (with its replication), a
whole synchronisation, or the start of an election. Nothing is stored on disk.

What is hard here, and what the hazards of `PROJECT.json` list at their lines:

- locks that are released between two steps of one operation (`finally` of
  `sync_member`, the two halves of `become_coordinator`);
- acknowledgements and snapshots of an earlier version, term or life of a server;
- an operation that stays applied when its replication is given up;
- membership entries created by any message of an unknown sender;
- waits with a timeout whose answer may arrive later;
- the ends of the 64-bit counters.

## 2. Modules

| Module | What it is | Source |
|---|---|---|
| `ReplicatedState` | the methods of the class as operators on a state record | `server/state.py` |
| `SumService` | abstract specification: one server that never fails | README.md:6 |
| `Replication` | one leader epoch: clients, request threads, replication, synchronisation, removal, crashes and returns of backups; refines `SumService` | `server/node.py` 439-1110, `client/processing.py` |
| `Election` | the Bully election of servers that were synchronised members | `server/node.py` 995-1340 |
| `Failover` | extends `Election` to the whole life of a cluster: start, synchronisation, requests, crashes, returns, departures | `server/node.py` 395-960, 1342-1414, `server/interface.py` |
| `SnapshotTransfer` | one snapshot chunk by chunk, and its receiver's handler section by section; refines `WholeSnapshots` | `server/node.py` 532-638, `common/protocol.py` 50-82 |
| `WholeSnapshots` | abstract specification: a snapshot that is one message, installed in one step | `server/node.py` |
| `RunningSum` | abstract specification: what the user of a client sees | `client/processing.py` |
| `Client` | one client and the cluster as it sees it, through changes of leader; refines `RunningSum` | `client/`, `server/node.py` 684-830 |
| `MCReplication`, `MCElection`, `MCFailover`, `MCSnapshotTransfer`, `MCClient` | instances for TLC | |
| `ReplicationProofs` | typing, lock and history invariants of `Replication` | |
| `ReplicationAckProofs` | what an answered request means for the backups of `Replication` | |
| `ReplicationServiceProofs` | `Replication` implements `SumService` | |
| `SnapshotTransferProofs` | typing and the meaning of an acknowledgement in `SnapshotTransfer`; it implements `WholeSnapshots` | |
| `ElectionProofs` | typing of `Election`, an open PRIMARY, a fresh leader | |
| `FailoverProofs` | typing of `Failover`, versions never fall; uses `ElectionProofs` | |
| `FailoverSafetyProofs` | in `Failover`: a PRIMARY opens again, a new leader is fresh, acknowledgements that count are true | |
| `ClientProofs` | typing of `Client`, each value counted once and in order, true results, `Client` implements `RunningSum` | |

### ReplicatedState and Replication

A state is a record of the aggregates, the version and one record per client.
`ReplicationOutcome` says which of its three exits `apply_replication` takes.

`Replication` begins when `check_startup` has made the server with the highest
identifier (`Leader`) PRIMARY and ends when that server leaves the role. The
variable names are those of the code (`role`, `members`, `transitioning`,
`commit_lock`); `sync[s]` and `pc[t]` are the positions of the `sync_member` thread
of a backup and of a request thread. A step is what a thread does between two
acquisitions of `commit_lock` or two waits:

- a request thread: `Dispatch`; then the commit section with one of the exits
  `CommitNotPrimary`, `CommitDuplicate`, `CommitFuture`, `CommitOverflow`, or
  `CommitNew` and one of the exits of `replicate_to_all` (`Interrupted`,
  `ReplicationTimeout`, `Replicated`), with `DropInactive` for backups that left;
- a synchronisation: `SyncBegin` or `SyncRefused`, `Resend`, `SyncFinish` or
  `SyncFailed`, and `SyncEnd`, which is the `finally` clause;
- one action per handler of the receive loop.

`messages` holds every datagram ever sent. A member of it may be received any
number of times, late, in any order or never: loss, duplication, delay and
reordering need no actions of their own. `Restart` empties a backup. Replies that
only make a client send again (RETRY, NOT_LEADER, ERROR) are left out. `log`,
`incarnation` and `admitted` are history variables; no guard reads the first and
the last, and `incarnation` is only compared with its bound.

### Election

`phase[s]` is the position of the one thread of server `s` that holds
`election_lock`: calling the higher servers, waiting for ELECTION_OK, for
COORDINATOR, then the parts of `become_coordinator`: collecting summaries, fetching
the newest snapshot, confirming, pushing snapshots to the peers. Each is one action
per exit; `GiveUp` is the test for role and term that occurs three times, and
`BecomePrimary` has no such test because the code has none there. The receive loop
runs between any two of them.

A server keeps the sequence of requests it has applied (`log`); the version is its
length. With `OpenMembership`, as in the runs of this module, the membership is left
open: every place that reads `active_members` takes any set of other servers. This
is wider than the code. `Failover` sets it to FALSE: then `members[s]` is the
membership of `s`, with every write the code makes to it (`Note`, `Without`,
`SetMembers`). A wait may time out whenever its event is not set.
STATE_SUMMARY_REQUEST is sent again to every peer that has not answered
(`RequestSummary`). An election that ends (`Finish`) forgets its dictionary entries and
nothing else: questions and answers of it that are still on their way arrive in a later
election, enter their sender in the membership (`Noted`), are answered
(`HandleSummaryRequest`) and must be told apart by their term alone (`HandleElectionOk`,
`HandleSummary`). `floor` is a
history variable: the versions the asked peers had when they were asked. A server that
comes back empty (`Return` of `Failover`) leaves it: its earlier process owes nothing.
`Init` is not the start of a process: it is what `check_startup` and the snapshots of
the first leader leave behind (node.py:594-631), members that have followed it up to some
version, with snapshots of it that are late.

`messages` is what the network holds. `Capacity` bounds, by message type, how many
datagrams that is; what does not fit is lost. Datagrams that the code repeats or
broadcasts may be received again, the others once.

### Failover

All actions of `Election`, and with them the code that changes the membership and
the state: `CheckStartup`, `HandleServerHello`, the synchronisation (`ScheduleSync`,
`SyncBegin`, `SyncRefused`, `ResendSnapshot`, `SyncFinish`, `SyncFailed`, `Reopen`),
`HandleMembership`, `RemoveMember`, the request section
(`AcceptRequest`, `DropInactive`, `Resend` and the exits `Replicated`, `Interrupted`,
`ReplicationTimeout`), the two replication handlers, `stop` in its waits (`StopBegin`,
`StopLeading` or `AskToLeave`, `StopCompleted` or `StopDelayed`) and the LEAVE
handlers; `Fail` is a crash or a forced stop, `Return` a new process with nothing.
`busy[s]` is the holder of `commit_lock`, with its local variables. `syncing[s][p]` is the
position of the `sync_member` thread of `p` on server `s`: it waits for `commit_lock`, holds it, or
has released it (node.py:527) and is in its `finally` clause, which reopens the service one
step later (`Reopen`, node.py:528), also after an early return. `Lose` lets the
network forget a datagram.

A SERVER_HELLO may be late: every server has sent some while it was JOINING, so one may
arrive at any time, and a PRIMARY then synchronises a member once more, unless
`syncing` has it. The rounds of a synchronisation carry the term of the moment they are sent in
(`ResendSnapshot`); any of them may be the one that is acknowledged (`SyncsWith`).
`PushSnapshot` of `Election` sends one round. `SyncFinish` sends the MEMBERSHIP and, to a higher server, the
ELECTION that names its receiver as the candidate (node.py:525-526), which raises the receiver's term.

Each request has a client of its own, and is a duplicate exactly where it has been
applied: `AcceptRequest` is the branch of a new request, and the DUPLICATE and FUTURE
branches (node.py:771-795), the answers to duplicates and several request threads are
`Replication`'s. The version of a membership is left out: a server may take
or refuse any MEMBERSHIP of its leader.

A datagram does not name the process that has sent it. `Return` therefore leaves the
network as it is: snapshots, operations, acknowledgements, COORDINATORs and heartbeats to and from the
earlier process arrive later. The history variable `stale` marks the REPLICATION_ACKs of a process that is gone.

The code keeps no state on disk and has no quorum: what it promises depends on
timeouts that are long enough. `Reliable` and `Prompt` say so where it matters:

- `Reliable`: only a server that is down, or no longer leads, is taken for silent; a
  server that starts hears the others before it settles; one that comes back has no
  STATE_SUMMARY_REQUEST of its earlier process, and no answer to one, on its way any more; some
  synchronised server that is not leaving stays up. It says nothing of the other datagrams of
  the earlier process.
- `Prompt`: SNAPSHOT_ACK and LEAVE_ACK come in time from a server that is up.

Section 4 says what TLC finds without them.

### SnapshotTransfer

The other modules install a snapshot in one step, as `WholeSnapshots` has it. Here `messages` holds chunks, any
number of times and in any order, `receivers` is `snapshot_receivers`, and `handler` is the
position of the receive loop inside `handle_snapshot_chunk` with the local variables
it has read: `CompareVersion`, `NoteRole`, `ReplaceState`, `InstallRole`,
`ElectAfterInstall` are the sections between two acquisitions of `state.lock`. The
other threads of the receiver (`AcceptRequest`, `StartElection`, `ConfirmCandidacy`, `GiveUp`,
`BecomePrimary`, `Leave`) run between them. `candidacy` is the term of the election that runs,
`confirmed` that it has passed the last test of its candidacy (node.py:1189-1206): from there
`BecomePrimary` takes the role whatever it is by then (node.py:1227-1232), and a snapshot may be
installed in between. The digest of a snapshot stands for its content. Senders are
reduced to what they send. `ImplementsWhole` says that version and acknowledgements change as
if the snapshot were one message, so that the other modules lose nothing by taking it for
one. It says nothing of the role and the term, which are set in sections of their own and may
meet another thread (`TermKept`, section 4).

### Client

`phase` is the position of the main thread: discovering, idle, sending, waiting. Each
kind of answer has an action, and so have the timeout and the failing `sendto`; the
counters `timeouts` and `retries` are those of the code. Of the answers a discovery
collects only the best so far is kept, which is all the code uses of them.

The cluster is reduced to what a client can tell: who is PRIMARY (or nobody), whether
the service is open, the leader each server believes in, and one replicated state,
handled with the operators of `ReplicatedState`. That this state survives a change
of leader is an assumption of the module: `Replication` and `Failover` show what the
servers do for it, findings 1 and 4 how an answered request may be lost all the same. A
server that is down is one that never answers. The overflow and the gap of identifiers do not occur here.

## 3. Runs

| Run | Instance | What it shows |
|---|---|---|
| `ReplicationCrash` | 1 client with 2 requests, 1 backup, 2 synchronisations, 1 restart | `BackupPrefix`: a replica is always at a point of the leader's history; `NewAckReplicated`; `ExactlyOnce`: two requests of one client, of which copies arrive late and out of order, are accepted in their order and once each; `NoRollback`: a running server never goes back; `NoWriteDuringSync` |
| `ReplicationElection` | 2 clients with 1 request of 1 or 2 each, sums up to `MaxUint64 = 2`, 1 request thread, 1 backup that starts elections up to term 2 | `TypeOK` where the sum overflows; `NewAckReplicated` while the backup elects and is synchronised; `AckTruthful`, and `ImplementsService`: the refinement of `SumService` |
| `ReplicationLive` | 2 threads, 2 synchronisations, a client whose first identifier leaves a gap | `ExactlyOnce`: two threads that serve copies of one request accept it once; `ServiceReopens`, `RequestResolved` |
| `AckedReplicated` | smallest instance | finding 1 (violation) |
| `ElectionAfterCrash` | 3 servers, the leader is down and may have left late snapshots, 2 elections, 1 more crash, versions 0 and 1 | `TakeoverFresh`: who names itself leader has the newest state it asked for, although answers to the first election arrive in the second |
| `ElectionLive` | 2 servers, the higher is PRIMARY, 2 elections | `PrimaryOpen`; `ElectionEnds`; `SplitResolved` |
| `OvertakenGivesUp` | 2 servers, 2 elections | finding 2 (violation) |
| `Failover` | 2 servers, 2 requests, up to 2 elections, 2 synchronisations and 1 fault (a crash, perhaps with a return, or an attempt to leave), within `Budget` | `TakeoverFresh` with the code's own membership; `OpenUnlessSyncing`: no step of another server or thread leaves a PRIMARY closed; `CountedHeld`: an acknowledgement that counts is true, or that of a process that is gone for the same version and term; `VersionsForward`: no running server goes back to an older version |
| `AnsweredStays` | 2 servers, 2 requests, 1 synchronisation, 2 elections, 1 crash; of the datagrams that last only SNAPSHOTs arrive | finding 4 (violation) |
| `LastServerStays` | 2 servers, 2 attempts to leave | finding 3 (violation) |
| `SnapshotTransfer` | 2 transfers of 2 chunks, 1 sender, versions 0 and 1, terms up to 2 | `AckMeansHeld`: who acknowledges a snapshot holds it; `StateForward`: no snapshot takes a newer state back; `ImplementsWhole`: the refinement of `WholeSnapshots`; `TransferAcked` |
| `ClientFailover` | 2 servers, the values 1 and 2, one change of leader, closing or network error | `InOrderOnce`: the cluster has added exactly what was typed; `ResultsTrue`; `ImplementsRunningSum`; `Answered` |

Bounds. `MaxReq`, `MaxTerm`, `MaxRestarts`, `MaxTransfers`, `MaxElections` and
`MaxCrashes` count how often something is started; `Threads` bounds concurrent
requests; `MaxSyncs` counts synchronisations and `MaxFaults` crashes and attempts to
leave; `Capacity` is the number of datagrams the network of `Election` (two, besides
heartbeats) and `Failover` (one that lasts, one that does not) holds, `MaxHeld` the
number of answers other than acknowledgements in `Client`; what does not fit is lost, which the code must survive anyway.
`MaxChanges` counts changes of leader, closings of the service and network errors.
Two requests and two synchronisations are enough for an answer, snapshot or acknowledgement of an earlier one to be late; one restart is enough for two lives;
two elections for one candidate to overtake another; two versions to tell old from
new. `MaxUint64` is 2 to 4: the code compares and adds, nothing depends on the
size. `ReplicationCrash` does not continue states in which the epoch is over
(CONSTRAINT `InEpoch`), nor does `ReplicationElection`; no safety property is about them.
`ReplicationElection` has one request thread and one request of each client, so that copies are
served one after the other; two threads run in `ReplicationLive`, two requests of a client in `ReplicationCrash`.
All instances of `Replication` have one backup; two `sync_member` threads that overlap need two, and
what the window before `transitioning.set()` (node.py:528) does then is only proved
(`NoWriteDuringSyncHolds`). The proofs are for any number of threads, requests and backups. In
`Failover` two servers are enough for a leader, its backup, their roles exchanged, and one of them
gone, empty and back; two requests, for an acknowledgement of another version, or of a process that
is gone, to arrive while an operation waits. The run checks, but does not continue (CONSTRAINT `Budget`), the states in which twice the
elections, the synchronisations, the faults and the newest version make more than 5: all but the longest
combinations. The histories behind equal versions are
the business of `AnsweredStays`. Three servers with the same constants are too many states for an
exhaustive run; the theorems of section 5 are for any number, and without `Budget`. In `ClientFailover`
two servers send the client around by one that redirects to itself; the circle of two
servers that both do not know the leader needs a third.

Deadlock is not checked: an instance stops when its bounds are used up, and
`Replication` when its epoch is over. That requests, synchronisations and elections
do not get stuck is what the liveness properties say.

Fairness. In `Replication`, threads run on (weak fairness of the steps that follow a
wait which has a timeout: every wait of the code has one); a thread waiting for
`commit_lock` gets it in the end (strong fairness: the lock is free again and
again); a client that repeats its request reaches an idle thread in the end (strong
fairness: at least one of the datagrams it sends again for ever arrives). Nothing
is assumed about acknowledgements, snapshots or backups. In `Election`, the election thread
and scheduled elections run on, a PRIMARY sends its periodic heartbeats, and of
those some reach another PRIMARY; every other datagram may be lost. In `Client`, the
client's thread runs on and reads its socket, the cluster elects, reopens and spreads
the news, and of requests sent again and again some are answered by the PRIMARY
within the timeout; nothing is assumed of other servers, which may redirect wrongly
or be silent. In `SnapshotTransfer`, the handler runs on (weak fairness: it waits for
nothing but short locks) and each chunk of a transfer, sent in up to eight rounds,
arrives in the end (strong fairness, because the receiver may be busy with another). `SplitResolved`
counts a further election as a resolution when it is the last of the bound; with
two servers the split needs the first of the two.

## 4. Findings

Where the code does other than a document or a test says (none concerns the models;
each is a run TLC ends with a trace):

1. `AckedReplicated`: README.md:27-28 promises that the leader waits for the ACK of
   every active backup before it answers. A request whose replication timed out
   stays applied (node.py:809-819) and its retransmission is answered as a
   duplicate at once (node.py:787-795). What does hold is `NewAckReplicated`.
2. `OvertakenGivesUp`: testing/test_cluster.py:304 says that a candidate which has
   followed a newer coordinator cannot become one. It can, if it hears of the
   newer one while it pushes snapshots: node.py:1231 takes the role without looking
   again, and two servers are PRIMARY in the same term.
3. `LastServerStays`: README.md:102-103 says that the last server refuses to stop. `stop`
   reads the ACTIVE members once (node.py:1364-1369). A backup that waits for
   LEAVE_ACK keeps its role: when the PRIMARY leaves too, the backup wins the
   election, its COORDINATOR ends the stop of the former PRIMARY, a late LEAVE_ACK its
   own, and the state is lost without any forced stop.
4. `AnsweredStays`: README.md:53-57 says that loss, delay, reordering, crash and return are
   tolerated while one synchronised server stays. A snapshot is refused only if its
   version is lower (node.py:577, state.py:194), but equal versions may stand for different
   histories. In the trace server 2, PRIMARY, accepts a request that never reaches server 1; the
   replication times out, the request stays applied, and both start an election; 2 pushes its
   state to 1 before it takes the lead (node.py:1229), and crashes. The snapshot is late: 1 becomes PRIMARY without it, accepts and answers
   another request, which gets the same version, and then installs the snapshot. The answered
   request is gone although 1 never stopped, and 1 is the BACKUP of a dead leader (node.py:601-613).
   At no time are there two PRIMARYs.

Two more are stated in `Replication` and have no run of their own. TLC finds them with
the .cfg of `AckedReplicated`, the name replaced and the bounds changed as follows:

- `ActiveWasSynced` (`MaxTerm = 2`): README.md:97-98 says a server becomes ACTIVE only after its
  snapshot. An ELECTION from a removed backup makes it ACTIVE (node.py:1090).
- `SyncClosesService` (`Backups = {b1, b2}`, `MaxTransfers = 2`): README.md:28-30 says writes get RETRY during a
  synchronisation. The `finally` clause of one `sync_member` (node.py:528) can
  reopen the service the next one has just closed. `NoWriteDuringSync` still
  holds, because `commit_lock` keeps writers out.

And one in `SnapshotTransfer`, as an invariant of its .cfg: `TermKept` fails when an election starts between two
sections of the handler (node.py:588-604), because the state is replaced with its
term; testing/test_cluster.py:492 shows the same case without the election.

Finding 4 has a sibling without any fault of network or process, which TLC finds in `Failover` from
states with two PRIMARYs in one term (finding 2) and three versions. `apply_replication` takes an
operation whose version it has reached for applied (state.py:89), and handle_replication
acknowledges it (node.py:904-931): a backup that got another request under that version from
the other PRIMARY confirms one it never had. With two versions there is no such behaviour. In the
same split a server may also leave while the PRIMARY with fewer requests stays.

For these reasons no property says that every answered request survives: that is false of the
code. `TakeoverFresh`, `CountedHeld` and `VersionsForward` are what its comparisons of versions do achieve,
and `NewAckReplicated` and `BackupPrefix` what they mean for the histories within one epoch. Nor does
every ACTIVE member have the operation when it is answered: a late HEARTBEAT enters a server that
was removed as ACTIVE again (node.py:1009). `CountedHeld` is about those the leader waits for.

How a server with an older state than others comes to lead, or a PRIMARY to stop, when an assumption
of `Failover` is dropped or faults add up. TLC has found each; no document promises
otherwise:

- without `Prompt`: when all acknowledgements of a snapshot are late, `sync_member`
  forgets a server that has installed it (node.py:511-513). That one is a BACKUP
  outside the membership, misses the requests that follow, and leads with the old
  state after one crash. A backup whose stop is delayed after its leader let it go
  (node.py:1408) does the same.
- without `Reliable`: the settle time may end before a returned server has heard anybody,
  and it leads with an empty state (node.py:401-406).
- with every assumption, in `Failover` as it is: a snapshot sent to its earlier
  process that names it as leader makes the process that has returned PRIMARY at once, in
  an old state and without an election (node.py:601-611; sent by node.py:1299, or by node.py:1229 from a
  candidate that has installed a snapshot of that leader after its last test); one
  of an earlier leader with the version a PRIMARY already has makes it follow
  that leader (node.py:601), which may be back and empty by now; a REPLICATION_ACK that the
  earlier process has sent counts for the one that has returned, if it quotes the pending version
  and the term of the leader (node.py:933-960; the exception in `CountedHeld`).
- with two faults: a late COORDINATOR of a server that has crashed ends the stop of a
  PRIMARY (node.py:1380), and a deposed PRIMARY may acknowledge a LEAVE, after which two
  PRIMARYs answer alone. The theorems of section 5 hold for any number of faults.

Noticed while reading: SERVER_HELLO is sent by JOINING servers only, so that the branch for a
PRIMARY's hello (node.py:470-474, 480) and JOIN_REQUEST are dead; a chunk that arrives after its transfer
was finished leaves an entry in `snapshot_receivers` for ever (node.py:568); an overflow
(state.py:67) ends the request thread without an answer; a PRIMARY that finds no
replacement stays LEAVING (node.py:1384).

## 5. Proofs

For every number of clients, backups, servers, threads, transfers and chunks and every
value of the bounds. All that is assumed are the named assumptions on the constants:
`ConstantsAssumption`, `MaxUint64Assumption`, `ElectionAssumption`, `FailoverAssumption`,
`TransferAssumption` and `ClientAssumption`. The theorems about `Election` and `Failover` hold
with and without `Prompt` and, but for `NewLeaderFresh`, `Reliable`;
those about `Election` with and without `OpenMembership`. Where an invariant had to be
strengthened, TLC has checked the stronger one on an instance first.

`Replication` (`ReplicationProofs`, `ReplicationServiceProofs`, `ReplicationAckProofs`):

- `TypeCorrect`: one case per action; the lemmas `ApplyTyped`, `ReplicaTyped` and
  `ClientAckTyped` say what the operators of `ReplicatedState` return.
- `NoWriteDuringSyncHolds` needs `LockInv`: a synchronisation that is sending or
  acknowledged, and a request thread that is replicating, is the holder of `commit_lock`.
- `NoRollbackHolds` needs only `TypeOK`: `ReplicaForward` says that neither
  `apply_replication` nor `install_snapshot` lowers a version, and a restart, which
  does, is a new incarnation.
- `BackupsFollow`, `AcceptedOnce`, `AnswersTruthful` share one inductive invariant,
  `HistoryInv`. `BackupPrefix` alone is not inductive: a backup takes its state from
  messages. So the invariant says that every REPLICATION and SNAPSHOT ever sent
  describes a point of `log` (`ReplicationsLogged`, `SnapshotsLogged`), that each
  entry of `log` is the one before it with one request applied (`LogSteps`), that the
  leader is at its end (`LeaderAtHead`), that the client records agree with it
  (`LastRequests`, `ClientRecords`) and that the operation being replicated is its
  last entry (`CommitInv`). `log` only grows, so what is said of old messages stays
  true (`LogFrame`, `NetFrame`).
- `ServiceImplemented`: `Replication` implements `SumService` under the mapping
  history = the log without versions, answers = the CLIENT_ACKs. `CommitNew` maps to
  the acceptance of a request, `Replicated` and `CommitDuplicate` to an answer (a
  stutter when it was given before), all else to stutters; `HistoryInv` gives that
  the quoted totals are those of the history.
- `NewAcksHeld`: an ACK that ends a replication means that every synchronised ACTIVE
  backup has the operation. The danger is an acknowledgement that is late, or of an
  earlier life of the backup. `AckInv` says why none misleads: lives and transfers are
  numbered in order (`LivesInOrder`, `TransfersKnown`); the transfer that is waited for
  carries the end of `log`, and who acknowledges it in its present life has that end
  (`TransfersAtHead`); so has an admitted backup whose REPLICATION_ACK quotes the last
  version (`AcksHeld`), although the code does not compare lives: while a backup is
  not admitted it is not synchronised, and its admission brings it to the end of `log`;
  and every backup that is not waited for any more is there (`OperationAtHead`).

`Election` (`ElectionProofs`):

- `TypeCorrect` is not inductive alone: `max` over the answers (node.py:1175) is defined
  only because the candidate enters its own version first (node.py:1138), which `OwnReport`
  says. `Maximal` (a finite set has a maximal element in a strict order) gives
  `NewestReported`; it is derived from the well-founded order of finite sets, without the
  induction theorems, which no installed prover can instantiate.
- `PrimaryServes`: whichever step makes a server PRIMARY sets `transitioning`, and the one
  that clears it, the start of an election, leaves a candidate (`StepOpen`).
- `LeadersFresh`: who takes the lead has every version the servers it asked had when it
  asked. `FreshInv` follows the thread through its phases: the answers kept are not older
  than what was asked for (`Collected`), then the goal is not (`Aimed`), then the own state
  (`Taken`). It holds although answers arrive late because of two facts about the others: no
  server falls behind the version it had (`Reached`, by `VersionsKept`), so every answer
  in the network that is addressed to a running candidate and has the term of its election is right
  (`Answers`). Answers of earlier elections are in the network, too. They have a lower term: terms never
  fall, and no question or answer in the network has a term its candidate has not reached
  (`Past`, `Quoted`), so that none of them has the term of an election that begins.

`Failover` (`FailoverProofs`), with the lemmas of `ElectionProofs` for the steps of `Election`:

- `FailoverTypeCorrect`: the types of all variables and datagrams. What has to be argued is
  that a new request always fits in the log (`AppendTyped`, by the pigeonhole
  principle: a log has no request twice) and that the holder of `commit_lock` has the
  local variables of its operation (`Holders`).
- `NeverBack`: no running server returns to an older version, which is what is left of
  `AnsweredStays` (finding 4). Only an operation, which appends
  (`AppendForward`), and a snapshot that is not older (`VersionsKept`) change the state of a
  running server (`StepForward`). `Return` does, too, and is a new process.

`Failover` (`FailoverSafetyProofs`), from the same invariant of types:

- `PrimaryOpensAgain`: `OpenUnlessSyncing` is inductive with the types. Its proof looks at the step that
  makes a server PRIMARY, and at those that clear `transitioning` or end a synchronisation; every
  other step leaves them to the other servers (`OpenKept`).
- `NewLeaderFresh`: `TakeoverFresh` for the code's own membership and for servers that come back empty,
  which `LeadersFresh` excludes. A peer that returns has less than it had when it was asked; the
  theorem holds because it is no longer among those asked (`floor`), the candidate keeps the
  others, and no answer to the elections of its own earlier process is on its way (`Reliable`): its terms begin
  anew, so that such an answer could have the term of an election of the new process. `FailoverFresh` adds to
  `FreshInv` that a server that is down has no election going (`DeadIdle`), without which a return
  would leave a candidate with an emptied log (`ReturnFresh`).
- `CountedBackups`: the acknowledgement that ends the wait for a backup may be of any operation,
  term or leader. It suffices that it quotes the version (node.py:957-960), because
  what was acknowledged is still there: `AcksHeld` says it of every REPLICATION_ACK in the network
  that is not `stale`. It is
  kept because versions never fall (`NeverBack`), and because a return, after which they do, makes
  the acknowledgements of its process stale. A stale one that counts is the exception the property
  names (`CountsStale`). Neither `Reliable` nor `Prompt` is used.

`Client` (`ClientProofs`):

- `TypeCorrect`, and from one inductive invariant, `ClientInv`, `CountedInOrder` (the cluster has
  added the values typed, in order, each once) and `PrintedTrue` (what is printed are
  the totals right after the value). Neither is inductive alone. `RequestsKnown`: an
  identifier in the network stands for one value and is not beyond the pending one.
  `AcksTrue`: an ACK in the network quotes the totals of its own identifier. `RecordTrue`: so
  does the record that repeated requests are answered from. `Positions` ties the phase
  of the thread to what it knows, and `Printed` the results to the identifier.
- `MachineImplemented`: `Client` implements `RunningSum` (add a value, print the totals, add the
  next) with the totals of the cluster and the results of the client. `Accept` maps to the
  addition, because the accepted identifier is the one after the last result
  (`AcceptAdds`); the completion of a request maps to the print, because nothing has been
  accepted since its own value, so that a repeated or late ACK still quotes the present
  totals (`CompletePrints`); everything else is a stutter.
- The sum over the values is a recursive function. `SumToDefined` shows that it has the
  value its definition says, by a least counterexample (`Smallest`, `AdderExists`), again
  without an induction theorem.

`SnapshotTransfer` (`SnapshotTransferProofs`):

- `StateForwardHolds` needs only `TypeOK` (`TransferTypeCorrect`, `StepForward`): of all steps
  only `ReplaceState` could lower the version, and it compares once more.
- `AckMeansHeldHolds`: `AckMeansHeld` is not inductive. The invariant `TransferInv` adds that
  chunks in the network and the handler carry what their transfer carries (`ChunksTrue`,
  `HandlerTrue`), that a replaced state is not older (`HandlerTrue`), and that only what
  was sent is acknowledged (`AcksSent`). `AcknowledgeTrue` covers both places that send
  SNAPSHOT_ACK.
- `TransferWhole`: `SnapshotTransfer` implements `WholeSnapshots`, with its own data, version and
  acknowledgements. The section that replaces the state maps to a delivery that is not
  acknowledged yet, a section that acknowledges to one more delivery, which changes nothing because
  the state is not older (`HandlerTrue`); a new request is a write, all else stutters.

Only model-checked, and why:

- `ServiceReopens`, `RequestResolved`, `ElectionEnds`, `SplitResolved`, `TransferAcked`, `Answered`:
  liveness under fairness is out of the prover's reach.

## 6. Not modelled

| Part | Why |
|---|---|
| repeated requests of one client together with changes of leader | each is covered, in `Replication` and in `Failover`; together they are too many states |
| the survival of answered requests, in `Client` | its cluster keeps its state through a change of leader (`TakeLead`); findings 1 and 4 say when the servers do not |
| versions of memberships | any MEMBERSHIP of the leader may be taken or refused (`Failover`), which includes what the versions decide |
| clocks | every wait may end early, or as `Reliable` and `Prompt` say |
| branches for SERVER_HELLO of a PRIMARY, JOIN_REQUEST | dead code (section 4) |
| relay of the benchmark | not part of the service; as loss it is in every model |
| JSON, logging, console, argument parsing, benchmark orchestration, tests | formatting and I/O |

## 7. Plan

All modules of the plan exist, and every safety property that a run checks and that holds has
its theorem. What is left open:

- a property of the histories across leaders. It needs a precondition that excludes equal versions
  of different histories (findings 2 and 4), and the code has no field that would name one;
- `TakeoverFresh` without `Reliable`: the code would have to tell the elections of two processes
  of a server apart, which begin to count their terms anew.
