-------------------------------- MODULE Failover --------------------------------
(***************************************************************************)
(* The life of a cluster across its leaders (server/node.py): servers      *)
(* start, are synchronised, elect, accept requests and replicate them,     *)
(* crash, come back with an empty state, and leave.  The election and the  *)
(* handlers of its messages are those of Election; here commit_lock has    *)
(* holders and the memberships are what the code makes of them.            *)
(*                                                                         *)
(* Each request comes from a client of its own, so that it is a duplicate  *)
(* exactly where it has been applied.  An answer to a duplicate, and what  *)
(* late datagrams of one leader do to its backups, is Replication's.       *)
(*                                                                         *)
(* Reliable stands for timeouts that are long enough: only servers that    *)
(* are down, or no longer lead, are taken for silent; a server that starts *)
(* hears every other one before it settles; no answer to an election of    *)
(* its earlier process is on its way to one that comes back; and some      *)
(* synchronised server does not crash.                                     *)
(***************************************************************************)
EXTENDS Election

CONSTANTS
    Prompt,      \* SNAPSHOT_ACK and LEAVE_ACK come in time, unless who should send them
                 \* is down or leads no more
    MaxSyncs,    \* synchronisations (bound)
    MaxFaults    \* crashes and attempts to leave (bound)

ASSUME FailoverAssumption ==
    Prompt \in BOOLEAN /\ MaxSyncs \in Nat /\ MaxFaults \in Nat /\ ~OpenMembership /\ Crashed = {}

VARIABLES
    busy,        \* the holder of commit_lock and its local variables
    syncing,     \* where the sync_member thread of each server is, if it has one
    leaving,     \* where stop is
    leave_acknowledged,
    \* history variables
    answered,    \* requests whose client was answered after their replication
    syncs, faults

lockVars == <<busy, syncing, answered, syncs>>
stopVars == <<leaving, leave_acknowledged, faults>>
allVars == <<vars, lockVars, stopVars>>

Free == [op |-> "none"]
Replicating == [op : {"replicate"}, request : Requests, version : Nat, term : Nat,
                pending : SUBSET Servers]
Syncing == [op : {"sync"}, target : Servers, snapshot : Snapshots, acked : BOOLEAN]

\* sync_member waits for commit_lock, holds it, or has released it.
SyncThreads == [Servers -> {"none", "waiting", "holding", "ending"}]

\* stop has read the role, or waits for an event, and takes leave of some servers.
Leaving == [at : {"closing", "asking", "awaitingLeader", "awaitingAck"}, to : SUBSET Servers]
Staying == [at |-> "no", to |-> {}]

Replications == [type : {"REPLICATION"}, from : Servers, to : Servers, term : Nat,
                 version : Nat, request : Requests]

\* stale is a history variable: the process that sent the datagram is gone.
ReplicationAcks == [type : {"REPLICATION_ACK"}, from : Servers, to : Servers, term : Nat,
                    version : Versions, stale : BOOLEAN]
Leaves == [type : {"LEAVE", "LEAVE_ACK"}, from : Servers, to : Servers]
Announcements == [type : {"MEMBERSHIP"}, from : Servers, members : Memberships]

FailoverTypeOK ==
    /\ StateOK
    /\ messages \subseteq Messages \cup Replications \cup ReplicationAcks \cup Leaves
                         \cup Announcements
    /\ busy \in [Servers -> {Free} \cup Replicating \cup Syncing]
    /\ syncing \in [Servers -> SyncThreads]
    /\ leaving \in [Servers -> Leaving \cup {Staying}]
    /\ leave_acknowledged \in [Servers -> BOOLEAN]
    /\ answered \subseteq Requests
    /\ syncs \in 0 .. MaxSyncs
    /\ faults \in 0 .. MaxFaults

\* All servers have just been started (ServerState, ServerNode).
FailoverInit ==
    /\ alive = Servers
    /\ role = [s \in Servers |-> "JOINING"]
    /\ term = [s \in Servers |-> 0]
    /\ leader_id = [s \in Servers |-> NoLeader]
    /\ log = [s \in Servers |-> <<>>]
    /\ members = [s \in Servers |-> [p \in Servers |-> "NONE"]]
    /\ transitioning = [s \in Servers |-> TRUE]
    /\ phase = [s \in Servers |-> "idle"]
    /\ electionTerm = [s \in Servers |-> 0]
    /\ peers = [s \in Servers |-> {}]
    /\ summaries = [s \in Servers |-> <<>>]
    /\ goal = [s \in Servers |-> 0]
    /\ ok = [s \in Servers |-> FALSE]
    /\ announced = [s \in Servers |-> FALSE]
    /\ installed = [s \in Servers |-> FALSE]
    /\ due = [s \in Servers |-> FALSE]
    /\ messages = {}
    /\ elections = 0
    /\ floor = [s \in Servers |-> <<>>]
    /\ busy = [s \in Servers |-> Free]
    /\ syncing = [s \in Servers |-> [p \in Servers |-> "none"]]
    /\ leaving = [s \in Servers |-> Staying]
    /\ leave_acknowledged = [s \in Servers |-> FALSE]
    /\ answered = {}
    /\ syncs = 0 /\ faults = 0

Applied(s) == {log[s][i] : i \in DOMAIN log[s]}

serverUnchanged == <<alive, threadVars, eventVars, due, elections, stopVars>>

--------------------------------------------------------------------------------
(* Start and synchronisation                                               *)

\* check_startup: the highest server it knows of becomes the first leader.
CheckStartup(s) ==
    /\ role[s] = "JOINING" /\ leader_id[s] = NoLeader
    /\ \A p \in Servers : p > s => members[s][p] = "NONE"
    /\ Reliable => \A p \in alive \ {s} : role[p] = "JOINING" /\ members[s][p] # "NONE"
    /\ role' = [role EXCEPT ![s] = "PRIMARY"]
    /\ leader_id' = [leader_id EXCEPT ![s] = s]
    /\ term' = [term EXCEPT ![s] = @ + 1]
    /\ members' = [members EXCEPT ![s][s] = "ACTIVE"]
    /\ transitioning' = [transitioning EXCEPT ![s] = TRUE]
    /\ Send({[type |-> "COORDINATOR", from |-> s, term |-> term[s] + 1,
              version |-> version(s), members |-> members'[s]]})
    /\ UNCHANGED <<log, serverUnchanged, lockVars>>

\* schedule_sync: p has one thread at a time.
ScheduleSync(s, p) ==
    IF syncing[s][p] # "none" THEN UNCHANGED <<syncing, syncs>>
    ELSE /\ syncs < MaxSyncs
         /\ syncs' = syncs + 1
         /\ syncing' = [syncing EXCEPT ![s][p] = "waiting"]

\* SERVER_HELLO, which every server repeats while it is JOINING: it becomes a member,
\* and a PRIMARY synchronises it.  It may come late, when p is synchronised already.
HandleServerHello(s, p) ==
    /\ s # p
    /\ Reliable => p \in alive
    /\ Noted(s, p, "JOINING")
    /\ IF role[s] = "PRIMARY" THEN ScheduleSync(s, p) ELSE UNCHANGED <<syncing, syncs>>
    /\ UNCHANGED <<stateVars, messages, serverUnchanged, busy, answered>>

\* A step of the sync_member thread of p
Sync(s, p, from, to) ==
    /\ syncing[s][p] = from
    /\ syncing' = [syncing EXCEPT ![s][p] = to]
    /\ UNCHANGED <<role, term, leader_id, log, serverUnchanged, answered, syncs>>

MaySync(s, p) == role[s] = "PRIMARY" /\ members[s][p] # "NONE"

\* The thread gets commit_lock.
SyncBegin(s, p) ==
    /\ Sync(s, p, "waiting", "holding")
    /\ busy[s] = Free
    /\ MaySync(s, p)
    /\ transitioning' = [transitioning EXCEPT ![s] = FALSE]
    /\ busy' = [busy EXCEPT ![s] = [op |-> "sync", target |-> p, snapshot |-> Snapshot(s, p),
                                    acked |-> FALSE]]
    /\ Send({Snapshot(s, p)})
    /\ UNCHANGED members

SyncRefused(s, p) ==
    /\ Sync(s, p, "waiting", "ending")
    /\ busy[s] = Free
    /\ ~MaySync(s, p)
    /\ UNCHANGED <<transitioning, busy, members, messages>>

\* Another round of the same chunks, with the term of now.
ResendSnapshot(s) ==
    /\ busy[s].op = "sync" /\ ~busy[s].acked
    /\ Send({[busy[s].snapshot EXCEPT !.term = term[s]]})
    /\ UNCHANGED <<stateVars, members, serverUnchanged, lockVars>>

\* The lock is released.
EndSync(s, p) ==
    /\ Sync(s, p, "holding", "ending")
    /\ busy' = [busy EXCEPT ![s] = Free]
    /\ UNCHANGED transitioning

Membership(s) == [type |-> "MEMBERSHIP", from |-> s, members |-> members'[s]]

\* broadcast_membership
Announce(s) == Send({Membership(s)})

\* Acknowledged: p is ACTIVE.  A higher p gets an ELECTION that names p itself as the
\* candidate.
SyncFinish(s, p) ==
    /\ EndSync(s, p)
    /\ busy[s].acked
    /\ IF MaySync(s, p)
       THEN /\ members' = [members EXCEPT ![s][p] = "ACTIVE"]
            /\ Send({Membership(s)} \cup {Call(s, q, q) : q \in {p} \cap {q \in Servers : q > s}})
       ELSE UNCHANGED <<members, messages>>

SyncFailed(s, p) ==
    /\ EndSync(s, p)
    /\ Prompt => p \notin alive
    /\ members' = [members EXCEPT ![s][p] = "NONE"]
    /\ UNCHANGED messages

\* The finally clause reopens the service, whatever has happened since the release.
Reopen(s, p) ==
    /\ Sync(s, p, "ending", "none")
    /\ transitioning' = [transitioning EXCEPT ![s] = TRUE]
    /\ UNCHANGED <<busy, members, messages>>

\* The version of a membership is left out: any that comes from the leader may be
\* taken for the newest one.
HandleMembership(s, m) ==
    /\ m.from # s
    /\ \/ Noted(s, m.from, "JOINING")
       \/ m.from = leader_id[s] /\ SetMembers(s, m.members)
    /\ UNCHANGED <<stateVars, messages, serverUnchanged, lockVars>>

\* m is of the transfer that p waits for, in one of its rounds.
SyncsWith(p, m) ==
    /\ busy[p].op = "sync"
    /\ m.term >= busy[p].snapshot.term
    /\ [m EXCEPT !.term = busy[p].snapshot.term] = busy[p].snapshot

\* The snapshot is acknowledged whether it is installed or older; the sender waits
\* for the acknowledgement of the one it has sent.
ReceiveSnapshot(s, m) ==
    /\ HandleSnapshot(s, m)
    /\ busy' = [p \in Servers |->
                  IF p = m.from /\ SyncsWith(p, m) THEN [busy[p] EXCEPT !.acked = TRUE] ELSE busy[p]]
    /\ UNCHANGED <<alive, elections, stopVars, syncing, answered, syncs>>

--------------------------------------------------------------------------------
(* Requests                                                                *)

\* handle_client_request applies a new request and sends it to the ACTIVE backups.  A
\* thread may have waited for commit_lock since before the service was closed.
AcceptRequest(s, request) ==
    /\ busy[s] = Free
    /\ role[s] = "PRIMARY"
    /\ request \notin Applied(s)
    /\ log' = [log EXCEPT ![s] = Append(@, request)]
    /\ busy' = [busy EXCEPT ![s] = [op |-> "replicate", request |-> request, term |-> term[s],
                                    version |-> version(s) + 1, pending |-> Active(s)]]
    /\ Send({[type |-> "REPLICATION", from |-> s, to |-> p, term |-> term[s],
              version |-> version(s) + 1, request |-> request] : p \in Active(s)})
    /\ UNCHANGED <<role, term, leader_id, transitioning, members, serverUnchanged, syncing, answered, syncs>>

Operation(s) == busy[s].op = "replicate"

Drop(s, p) == busy' = [busy EXCEPT ![s].pending = @ \ {p}]

\* A backup that is not ACTIVE any more is not waited for.
DropInactive(s, p) ==
    /\ Operation(s) /\ p \in busy[s].pending
    /\ members[s][p] # "ACTIVE"
    /\ Drop(s, p)
    /\ UNCHANGED <<stateVars, members, messages, serverUnchanged, syncing, answered, syncs>>

Resend(s, p) ==
    /\ Operation(s) /\ p \in busy[s].pending
    /\ Send({[type |-> "REPLICATION", from |-> s, to |-> p, term |-> busy[s].term,
              version |-> busy[s].version, request |-> busy[s].request]})
    /\ UNCHANGED <<stateVars, members, serverUnchanged, lockVars>>

EndRequest(s) ==
    /\ Operation(s)
    /\ busy' = [busy EXCEPT ![s] = Free]
    /\ UNCHANGED <<stateVars, members, messages, alive, threadVars, eventVars, elections,
                   stopVars, syncing, syncs>>

Replicated(s) ==
    /\ EndRequest(s)
    /\ busy[s].pending = {}
    /\ answered' = answered \cup {busy[s].request}
    /\ UNCHANGED due

\* The client gets RETRY; the request stays applied.
Interrupted(s) ==
    /\ EndRequest(s)
    /\ busy[s].pending # {}
    /\ role[s] # "PRIMARY" \/ term[s] # busy[s].term
    /\ UNCHANGED <<answered, due>>

ReplicationTimeout(s) ==
    /\ EndRequest(s)
    /\ busy[s].pending # {}
    /\ Schedule(s)
    /\ UNCHANGED answered

\* Mutant: the leader's operation is applied whatever its version.
ReplicateTwice(s, m) ==
    /\ m.to = s
    /\ m.from = leader_id[s] /\ m.term >= term[s] /\ role[s] \in {"BACKUP", "JOINING"}
    /\ log' = [log EXCEPT ![s] = Append(@, m.request)]
    /\ Send({[type |-> "REPLICATION_ACK", from |-> s, to |-> m.from, term |-> term[s],
              version |-> Len(log'[s]), stale |-> FALSE]})
    /\ Noted(s, m.from, "ACTIVE")
    /\ UNCHANGED <<role, term, leader_id, transitioning, serverUnchanged, lockVars>>

\* Only the leader's operations are looked at: the next one is applied, an older one
\* acknowledged, and one that does not fit answered with SNAPSHOT_REQUEST.
HandleReplication(s, m) ==
    /\ m.to = s
    /\ Noted(s, m.from, "ACTIVE")
    /\ IF m.from # leader_id[s] \/ m.term < term[s] \/ role[s] \notin {"BACKUP", "JOINING"}
       THEN UNCHANGED <<log, messages>>
       ELSE LET applied == m.version = version(s) + 1 /\ m.request \notin Applied(s)
            IN  /\ log' = IF applied THEN [log EXCEPT ![s] = Append(@, m.request)] ELSE log
                /\ IF applied \/ m.version <= version(s)
                   THEN Send({[type |-> "REPLICATION_ACK", from |-> s, to |-> m.from,
                               term |-> term[s], version |-> Len(log'[s]), stale |-> FALSE]})
                   ELSE Send({[type |-> "SNAPSHOT_REQUEST", from |-> s, to |-> m.from]})
    /\ UNCHANGED <<role, term, leader_id, transitioning, serverUnchanged, lockVars>>

\* Mutant: an acknowledgement of any version counts for the pending operation.
AnyVersionCounts(s, m) ==
    /\ m.to = s
    /\ Reply(m, {})
    /\ LET current == role[s] = "PRIMARY" /\ m.term = term[s] /\ members[s][m.from] = "ACTIVE"
           newer   == m.version > version(s)
       IN  /\ IF current /\ newer THEN Schedule(s) ELSE UNCHANGED due
           /\ IF current /\ ~newer /\ Operation(s) THEN Drop(s, m.from) ELSE UNCHANGED busy
    /\ UNCHANGED <<stateVars, members, alive, threadVars, eventVars, elections, stopVars,
                   syncing, answered, syncs>>

\* An acknowledgement beyond the own version makes the leader elect again.
HandleReplicationAck(s, m) ==
    /\ m.to = s
    /\ Reply(m, {})
    /\ LET current == role[s] = "PRIMARY" /\ m.term = term[s] /\ members[s][m.from] = "ACTIVE"
           newer   == m.version > version(s)
       IN  /\ IF current /\ newer THEN Schedule(s) ELSE UNCHANGED due
           /\ IF current /\ ~newer /\ Operation(s) /\ busy[s].version = m.version
              THEN Drop(s, m.from) ELSE UNCHANGED busy
    /\ UNCHANGED <<stateVars, members, alive, threadVars, eventVars, elections, stopVars,
                   syncing, answered, syncs>>

--------------------------------------------------------------------------------
(* Silence, crashes and returns                                            *)

\* check_failures of a PRIMARY
RemoveMember(s, p) ==
    /\ role[s] = "PRIMARY"
    /\ p \in Active(s) /\ {p} \in Silent(s)
    /\ members' = [members EXCEPT ![s] = Without(s, {p})]
    /\ Announce(s)
    /\ UNCHANGED <<stateVars, serverUnchanged, lockVars>>

\* The process ends, and with it its commit_lock and its stop.
End(s) ==
    /\ Halt(s)
    /\ busy' = [busy EXCEPT ![s] = Free]
    /\ syncing' = [syncing EXCEPT ![s] = [p \in Servers |-> "none"]]
    /\ leaving' = [leaving EXCEPT ![s] = Staying]
    /\ leave_acknowledged' = [leave_acknowledged EXCEPT ![s] = FALSE]
    /\ UNCHANGED <<elections, answered, syncs>>

Fault == faults < MaxFaults /\ faults' = faults + 1

\* A crash, or a stop that is forced.  If Reliable, a synchronised server stays.
Fail(s) ==
    /\ Reliable => \E p \in alive \ {s} : role[p] # "JOINING" /\ leaving[p] = Staying
    /\ Cardinality(Servers \ alive) < MaxCrashes
    /\ Fault
    /\ End(s)

\* A message of an election of s: a question to another server, or the answer
OfElection(s, m) == \/ m.type = "STATE_SUMMARY_REQUEST" /\ m.from = s
                    \/ m.type = "STATE_SUMMARY" /\ m.to = s

\* The network when a new process of s takes the place of the old one: a datagram does
\* not say which of them has sent it or is to receive it.
Inherited(s) ==
    {IF m.type = "REPLICATION_ACK" /\ m.from = s THEN [m EXCEPT !.stale = TRUE] ELSE m :
        m \in {m \in messages : ~(Reliable /\ OfElection(s, m))}}

\* A new process with an empty state: it is not the one that candidates have asked.
Return(s) ==
    /\ s \notin alive
    /\ alive' = alive \cup {s}
    /\ role' = [role EXCEPT ![s] = "JOINING"]
    /\ term' = [term EXCEPT ![s] = 0]
    /\ leader_id' = [leader_id EXCEPT ![s] = NoLeader]
    /\ log' = [log EXCEPT ![s] = <<>>]
    /\ members' = [members EXCEPT ![s] = [p \in Servers |-> "NONE"]]
    /\ transitioning' = [transitioning EXCEPT ![s] = TRUE]
    /\ messages' = Inherited(s)
    /\ floor' = [p \in Servers |-> [q \in DOMAIN floor[p] \ {s} |-> floor[p][q]]]
    /\ UNCHANGED <<phase, electionTerm, peers, summaries, goal, eventVars, due, elections,
                   lockVars, stopVars>>

\* The network loses what may be received again.
Lose(m) ==
    /\ messages' = messages \ {m}
    /\ UNCHANGED <<stateVars, members, serverUnchanged, lockVars>>

--------------------------------------------------------------------------------
(* stop, without force                                                     *)

\* It is refused unless the membership has another ACTIVE server.
StopBegin(s) ==
    /\ leaving[s] = Staying
    /\ Fault
    /\ leaving' = IF Active(s) = {} THEN leaving
                  ELSE [leaving EXCEPT
                          ![s] = [at |-> IF role[s] = "PRIMARY" THEN "closing" ELSE "asking",
                                  to |-> Active(s)]]
    /\ UNCHANGED <<stateVars, members, threadVars, eventVars, due, messages, alive, elections,
                   lockVars, leave_acknowledged>>

Leave(s, from, to, targets) ==
    /\ leaving[s].at = from
    /\ leaving' = [leaving EXCEPT ![s] = [at |-> to, to |-> targets]]
    /\ UNCHANGED <<term, log, members, threadVars, ok, installed, due, alive, elections,
                   lockVars, faults>>

\* A PRIMARY leads no more, whatever it has become since, and says so.
StopLeading(s) ==
    /\ Leave(s, "closing", "awaitingLeader", {})
    /\ role' = [role EXCEPT ![s] = "LEAVING"]
    /\ leader_id' = [leader_id EXCEPT ![s] = NoLeader]
    /\ transitioning' = [transitioning EXCEPT ![s] = FALSE]
    /\ announced' = [announced EXCEPT ![s] = FALSE]
    /\ Send({[type |-> "LEAVE", from |-> s, to |-> p] : p \in leaving[s].to})
    /\ UNCHANGED leave_acknowledged

\* Any other server takes leave of its leader, or else of all servers, again and again.
AskToLeave(s) ==
    /\ Leave(s, "asking", "awaitingAck",
             IF leader_id[s] \in leaving[s].to THEN {leader_id[s]} ELSE Servers \ {s})
    /\ leave_acknowledged' = [leave_acknowledged EXCEPT ![s] = FALSE]
    /\ UNCHANGED <<role, leader_id, transitioning, announced, messages>>

\* The event that is waited for has been set, and the process ends.
StopCompleted(s) ==
    /\ \/ leaving[s].at = "awaitingLeader" /\ announced[s]
       \/ leaving[s].at = "awaitingAck" /\ leave_acknowledged[s]
    /\ End(s)
    /\ UNCHANGED faults

\* It has not, and the server stays with the role it has.
StopDelayed(s) ==
    /\ \/ Leave(s, "awaitingLeader", "no", {}) /\ ~announced[s]
       \/ /\ Leave(s, "awaitingAck", "no", {}) /\ ~leave_acknowledged[s]
          /\ Prompt => \A p \in alive \ {s} : s \in Active(p)
    /\ UNCHANGED <<role, leader_id, transitioning, announced, messages, leave_acknowledged>>

\* A PRIMARY lets p go; whoever loses its leader elects another.
HandleLeave(s, p, net) ==
    /\ UNCHANGED <<stateVars, threadVars, eventVars, elections, alive, lockVars, stopVars>>
    /\ IF role[s] = "PRIMARY"
       THEN /\ members' = [members EXCEPT ![s] = Without(s, {p})]
            /\ Transmit(net, {[type |-> "LEAVE_ACK", from |-> s, to |-> p],
                              [type |-> "MEMBERSHIP", from |-> s, members |-> members'[s]]})
            /\ UNCHANGED due
       ELSE /\ Noted(s, p, "ACTIVE")
            /\ messages' = net
            /\ IF leader_id[s] = p THEN Schedule(s) ELSE UNCHANGED due

ReceiveLeave(s) ==
    \/ \E m \in Sent("LEAVE") : m.to = s /\ HandleLeave(s, m.from, messages \ {m})
    \/ \E p \in alive : /\ leaving[p].at = "awaitingAck" /\ s \in leaving[p].to
                       /\ HandleLeave(s, p, messages)

HandleLeaveAck(s, m) ==
    /\ m.to = s
    /\ leave_acknowledged' = [leave_acknowledged EXCEPT ![s] = TRUE]
    /\ Reply(m, {})
    /\ Noted(s, m.from, "ACTIVE")
    /\ UNCHANGED <<stateVars, alive, threadVars, eventVars, due, elections, lockVars, leaving,
                   faults>>

--------------------------------------------------------------------------------
\* The steps of Election, when nothing else holds commit_lock
ElectionNext(s) ==
    /\ \/ StartElection(s) /\ busy[s] = Free /\ UNCHANGED members
       \/ /\ \/ IgnoreDue(s) /\ UNCHANGED members
             \/ ElectionStep(s)
             \/ ReceiveCall(s)
             \/ \E p \in Servers : RequestSummary(s, p) /\ UNCHANGED members
             \/ SendHeartbeat(s) /\ UNCHANGED members
          /\ UNCHANGED elections
    /\ UNCHANGED <<alive, lockVars, stopVars>>

MemberStep(s) ==
    \/ CheckStartup(s)
    \/ \E p \in Servers : \/ HandleServerHello(s, p)
                          \/ SyncBegin(s, p) \/ SyncRefused(s, p)
                          \/ SyncFinish(s, p) \/ SyncFailed(s, p) \/ Reopen(s, p)
                          \/ RemoveMember(s, p)
    \/ ResendSnapshot(s)
    \/ \E m \in Sent("MEMBERSHIP") : HandleMembership(s, m)
    \/ \E m \in Sent("SNAPSHOT") : ReceiveSnapshot(s, m)

RequestStep(s) ==
    \/ \E request \in Requests : AcceptRequest(s, request)
    \/ \E p \in Servers : DropInactive(s, p) \/ Resend(s, p)
    \/ Replicated(s) \/ Interrupted(s) \/ ReplicationTimeout(s)
    \/ \E m \in Sent("REPLICATION") : HandleReplication(s, m)
    \/ \E m \in Sent("REPLICATION_ACK") : HandleReplicationAck(s, m)

StopStep(s) ==
    \/ StopBegin(s) \/ StopLeading(s) \/ AskToLeave(s)
    \/ StopCompleted(s) \/ StopDelayed(s)
    \/ ReceiveLeave(s)
    \/ \E m \in Sent("LEAVE_ACK") : HandleLeaveAck(s, m)

FailoverNext ==
    \/ \E s \in alive : ElectionNext(s) \/ MemberStep(s) \/ RequestStep(s) \/ StopStep(s) \/ Fail(s)
    \/ \E s \in Servers : Return(s)
    \/ \E m \in messages : Lose(m)

FailoverSpec == FailoverInit /\ [][FailoverNext]_allVars

--------------------------------------------------------------------------------
(* Properties *)

\* README.md:53-57: delays, reordering and crashes are tolerated as long as one
\* synchronised server stays.  A server that keeps running never drops an answered
\* request it has applied, whatever snapshots and operations of earlier leaders
\* arrive (handle_snapshot_chunk, handle_replication).
AnsweredStays ==
    [][\A s \in alive \cap alive' : answered \cap Applied(s) \subseteq Applied(s)']_allVars

\* A backup ceases to be waited for because it is not ACTIVE any more, or because it
\* has reached the version: no acknowledgement that is late, of another operation or of
\* another term counts for it.  Only one that a process has sent which is gone may, of
\* this version and term: REPLICATION_ACK does not tell it from that of the process that
\* has returned (replicate_to_all, handle_replication_ack).
CountedHeld ==
    [][\A s, p \in Servers :
           /\ busy[s].op = "replicate" /\ busy'[s].op = "replicate"
           /\ p \in busy[s].pending \ busy'[s].pending
           /\ members[s][p] = "ACTIVE"
           => \/ version(p) >= busy[s].version
              \/ \E m \in Sent("REPLICATION_ACK") :
                    /\ m.from = p /\ m.to = s /\ m.stale
                    /\ m.version = busy[s].version /\ m.term = term[s]]_allVars

\* Only a synchronisation in progress closes the service of a PRIMARY: elections,
\* snapshots of others, departures and returns do not leave it closed (sync_member,
\* start_election, handle_snapshot_chunk, stop).
OpenUnlessSyncing ==
    \A s \in alive : role[s] = "PRIMARY" =>
        transitioning[s] \/ \E p \in Servers : syncing[s][p] \in {"holding", "ending"}

\* A server that keeps running never goes back to an older version, whichever leader
\* its snapshots and operations come from, reliable or not (handle_snapshot_chunk).
VersionsForward ==
    [][\A s \in alive \cap alive' : version(s)' >= version(s)]_allVars

\* README.md:102, node.py:1367: the last server refuses to stop.  Servers that leave
\* without force do not all leave.
LastServerStays == alive # {}

================================================================================
