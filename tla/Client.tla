--------------------------------- MODULE Client ---------------------------------
(***************************************************************************)
(* The client (client/processing.py, discovery.py, interface.py): it reads *)
(* values, sends each under its own identifier again and again until that  *)
(* identifier is acknowledged (stop-and-wait), follows redirects, counts   *)
(* timeouts and refusals and looks for the leader anew after the third.    *)
(*                                                                         *)
(* The cluster is what a client sees of it: at most one PRIMARY, a         *)
(* replicated state that outlives every change of leader (Replication says *)
(* what the servers do for that), and in each server the leader it last    *)
(* heard of, which may be wrong.  A server that is down is one that never  *)
(* answers.  Replication and Election model the inside.                    *)
(*                                                                         *)
(* messages is what the network and the client's socket hold.  A datagram  *)
(* may be received at any time or never; one that is received is gone, but *)
(* the client sends its request again as often as it likes.  Broadcast     *)
(* discoveries are not messages: the PRIMARY may answer one at any time    *)
(* while the client collects answers, and the answer may come later.       *)
(***************************************************************************)
EXTENDS ReplicatedState, Sequences, FiniteSets

CONSTANTS
    Self,        \* the client
    Servers,     \* server identifiers, numbers
    None,        \* no server; no value
    Inputs,      \* the values the user types; their sum is a uint64 (bound: how many)
    MaxChanges,  \* changes of leader, closings of the service and network errors (bound)
    MaxHeld      \* answers other than CLIENT_ACK in the network (bound)

ASSUME ClientAssumption ==
    /\ Self \in Clients
    /\ Servers \subseteq Nat \ {0} /\ IsFiniteSet(Servers)
    /\ None \notin Servers \cup Nat
    /\ Inputs \in Seq(Uint64 \ {0})
    /\ MaxChanges \in Nat /\ MaxHeld \in Nat

VARIABLES
    \* the client
    phase,         \* where its main thread is
    leader,        \* leader
    id,            \* id_requisicao
    pending,       \* valor_soma, or None
    timeouts, retries,
    found,         \* the best of lideres_encontrados, or None
    \* the cluster
    state,         \* state.replicated
    primary,       \* the server with role PRIMARY, or None during an election
    transitioning, \* of that server: TRUE is set, writes may pass
    leader_id,     \* of each server
    messages,
    \* history variables
    results,       \* the totals printed
    changes        \* how many of these so far

clientVars  == <<phase, leader, id, pending, timeouts, retries, found>>
clusterVars == <<state, primary, transitioning, leader_id, changes>>
vars == <<clientVars, clusterVars, messages, results>>

Totals == [num_reqs : Uint64, total_sum : Uint64]
Requests == [type : {"CLIENT_REQUEST"}, to : Servers, req : Nat, value : Uint64]
Leaders  == [type : {"LEADER"}, from : Servers, version : Nat]
Refusals == [type : {"NOT_LEADER"}, leader : Servers \cup {None}] \cup [type : {"RETRY"}]
Acks     == [type : {"CLIENT_ACK"}, from : Servers, req : Nat, totals : Totals]

TypeOK ==
    /\ phase \in {"discovering", "idle", "sending", "waiting"}
    /\ leader \in Servers \cup {None}
    /\ id \in Nat \ {0}
    /\ pending \in Uint64 \cup {None}
    /\ timeouts \in 0 .. 2 /\ retries \in 0 .. 2
    /\ found \in Leaders \cup {None}
    /\ state \in State
    /\ primary \in Servers \cup {None}
    /\ transitioning \in BOOLEAN
    /\ leader_id \in [Servers -> Servers]
    /\ messages \subseteq Requests \cup Leaders \cup Refusals \cup Acks
    /\ results \in Seq(Totals)
    /\ changes \in 0 .. MaxChanges

\* iniciar_cliente: the client starts by looking for the leader of a running cluster.
Init ==
    /\ phase = "discovering"
    /\ leader = None
    /\ id = 1
    /\ pending = None
    /\ timeouts = 0 /\ retries = 0
    /\ found = None
    /\ state = EmptyState
    /\ primary \in Servers
    /\ transitioning = TRUE
    /\ leader_id = [s \in Servers |-> primary]
    /\ messages = {}
    /\ results = <<>>
    /\ changes = 0

ToClient == {m \in messages : m.type # "CLIENT_REQUEST"}

\* `net` and `new` are in the network, unless there are too many unread LEADER,
\* NOT_LEADER and RETRY: then the new ones are lost.
Transmit(net, new) ==
    LET held == {m \in net \cup new : m.type \in {"LEADER", "NOT_LEADER", "RETRY"}}
    IN messages' = IF Cardinality(held) <= MaxHeld THEN net \cup new ELSE net

Send(new) == Transmit(messages, new)

\* A message is received, and others are sent.
Reply(m, new) == Transmit(messages \ {m}, new)

--------------------------------------------------------------------------------
(* executar_loop_principal and descobrir_com_retry                         *)

\* A value has been read: enviar_valor_stop_and_wait begins.
Enter ==
    /\ phase = "idle"
    /\ id <= Len(Inputs)
    /\ phase' = "sending"
    /\ pending' = Inputs[id]
    /\ timeouts' = 0 /\ retries' = 0
    /\ UNCHANGED <<leader, id, found, clusterVars, messages, results>>

\* The client looks for the leader; it goes on where it was.
Rediscover == phase' = "discovering" /\ found' = None

\* The newest state wins, then the highest identifier.
Better(m, n) == m.version > n.version \/ (m.version = n.version /\ m.from > n.from)

\* descobrir_servidor: what is not a LEADER is dropped.
CollectLeader(m) ==
    /\ phase = "discovering"
    /\ found' = IF m.type = "LEADER" /\ (found = None \/ Better(m, found)) THEN m ELSE found
    /\ Reply(m, {})
    /\ UNCHANGED <<phase, leader, id, pending, timeouts, retries, clusterVars, results>>

\* The window closes.  With no answer the discovery starts again (no change).
EndDiscovery ==
    /\ phase = "discovering"
    /\ found # None
    /\ leader' = found.from
    /\ found' = None
    /\ phase' = IF pending = None THEN "idle" ELSE "sending"
    /\ UNCHANGED <<id, pending, timeouts, retries, clusterVars, messages, results>>

--------------------------------------------------------------------------------
(* enviar_valor_stop_and_wait                                              *)

SendRequest ==
    /\ phase = "sending"
    /\ phase' = "waiting"
    /\ Send({[type |-> "CLIENT_REQUEST", to |-> leader, req |-> id, value |-> pending]})
    /\ UNCHANGED <<leader, id, pending, timeouts, retries, found, clusterVars, results>>

\* sendto fails for a reason that may pass.
NetworkError ==
    /\ phase = "sending"
    /\ changes < MaxChanges
    /\ changes' = changes + 1
    /\ Rediscover
    /\ timeouts' = 0
    /\ UNCHANGED <<leader, id, pending, retries, state, primary, transitioning, leader_id,
                   messages, results>>

\* Mutant: the client stays with the leader it knows.
PatientTimeout ==
    /\ phase = "waiting"
    /\ phase' = "sending"
    /\ UNCHANGED <<leader, id, pending, timeouts, retries, found, clusterVars, messages,
                   results>>

\* No answer in time: the request is sent again, the third time after a discovery.
Timeout ==
    /\ phase = "waiting"
    /\ IF timeouts + 1 >= 3
       THEN timeouts' = 0 /\ Rediscover
       ELSE timeouts' = timeouts + 1 /\ phase' = "sending" /\ UNCHANGED found
    /\ UNCHANGED <<leader, id, pending, retries, clusterVars, messages, results>>

\* The request is complete, and the next value gets the next identifier.
Complete(m) ==
    /\ phase' = "idle"
    /\ id' = id + 1
    /\ pending' = None
    /\ timeouts' = 0 /\ retries' = 0
    /\ leader' = m.from
    /\ results' = Append(results, m.totals)
    /\ UNCHANGED found

\* Mutant: any acknowledgement completes the pending request.
AnyAck(m) ==
    /\ phase = "waiting" /\ m.type = "CLIENT_ACK"
    /\ Complete(m)
    /\ Reply(m, {})
    /\ UNCHANGED <<clusterVars>>

\* An acknowledgement of another request is dropped, and the wait goes on.
ReceiveAck(m) ==
    /\ phase = "waiting" /\ m.type = "CLIENT_ACK"
    /\ IF m.req = id THEN Complete(m) ELSE UNCHANGED <<clientVars, results>>
    /\ Reply(m, {})
    /\ UNCHANGED <<clusterVars>>

\* LEADER changes the address and nothing else: the wait goes on.
ReceiveLeader(m) ==
    /\ phase = "waiting" /\ m.type = "LEADER"
    /\ leader' = m.from
    /\ Reply(m, {})
    /\ UNCHANGED <<phase, id, pending, timeouts, retries, found, clusterVars, results>>

\* A redirect is followed at once; without an address the client looks itself.
ReceiveNotLeader(m) ==
    /\ phase = "waiting" /\ m.type = "NOT_LEADER"
    /\ retries' = 0
    /\ IF m.leader = None
       THEN Rediscover /\ UNCHANGED leader
       ELSE leader' = m.leader /\ phase' = "sending" /\ UNCHANGED found
    /\ Reply(m, {})
    /\ UNCHANGED <<id, pending, timeouts, clusterVars, results>>

\* Mutant: one RETRY too many is waited for.
LateRetry(m) ==
    /\ phase = "waiting" /\ m.type = "RETRY"
    /\ IF retries + 1 > 3
       THEN retries' = 0 /\ Rediscover
       ELSE retries' = retries + 1 /\ phase' = "sending" /\ UNCHANGED found
    /\ Reply(m, {})
    /\ UNCHANGED <<leader, id, pending, timeouts, clusterVars, results>>

\* The third RETRY in a row makes the client look for the leader.
ReceiveRetry(m) ==
    /\ phase = "waiting" /\ m.type = "RETRY"
    /\ IF retries + 1 >= 3
       THEN retries' = 0 /\ Rediscover
       ELSE retries' = retries + 1 /\ phase' = "sending" /\ UNCHANGED found
    /\ Reply(m, {})
    /\ UNCHANGED <<leader, id, pending, timeouts, clusterVars, results>>

--------------------------------------------------------------------------------
(* The cluster: handle_client_request of the server s                      *)

Ack(s, st) ==
    LET client == st.clients[Self]
    IN [type |-> "CLIENT_ACK", from |-> s, req |-> client.last_req,
        totals |-> [num_reqs |-> client.last_num_reqs, total_sum |-> client.last_total_sum]]

\* The sender is given the address of the leader, if the server has one.
Redirect(s, m) ==
    /\ m.type = "CLIENT_REQUEST" /\ m.to = s
    /\ primary # s
    /\ \E known \in {leader_id[s], None} : Reply(m, {[type |-> "NOT_LEADER", leader |-> known]})
    /\ UNCHANGED <<clientVars, clusterVars, results>>

Classification(m) == ClassifyRequest(state, Self, m.req)

\* The service is closed.  The other reason for RETRY here, a gap in the identifiers,
\* needs a cluster that has lost what it accepted.
Refuse(s, m) ==
    /\ m.type = "CLIENT_REQUEST" /\ m.to = s
    /\ primary = s
    /\ ~transitioning
    /\ Reply(m, {[type |-> "RETRY"]})
    /\ UNCHANGED <<clientVars, clusterVars, results>>

\* Mutant: the leader does not know a request it has accepted.
ForgetfulRepeat(s, m) ==
    /\ m.type = "CLIENT_REQUEST" /\ m.to = s
    /\ primary = s /\ transitioning
    /\ Classification(m) = "DUPLICATE"
    /\ ~Overflows(state, m.value)
    /\ state' = ApplyRequest(state, Self, m.req, m.value)
    /\ Reply(m, {Ack(s, state')})
    /\ UNCHANGED <<clientVars, primary, transitioning, leader_id, changes, results>>

Repeat(s, m) ==
    /\ m.type = "CLIENT_REQUEST" /\ m.to = s
    /\ primary = s /\ transitioning
    /\ Classification(m) = "DUPLICATE"
    /\ Reply(m, {Ack(s, state)})
    /\ UNCHANGED <<clientVars, clusterVars, results>>

\* A new request is applied, and answered when its replication has ended: with
\* RETRY if that was given up.
Accept(s, m) ==
    /\ m.type = "CLIENT_REQUEST" /\ m.to = s
    /\ primary = s /\ transitioning
    /\ Accepts(state, Self, m.req, m.value)
    /\ state' = ApplyRequest(state, Self, m.req, m.value)
    /\ \E answer \in {Ack(s, state'), [type |-> "RETRY"]} : Reply(m, {answer})
    /\ UNCHANGED <<clientVars, primary, transitioning, leader_id, changes, results>>

Leader(s) == [type |-> "LEADER", from |-> s, version |-> state.state_version]

\* handle_client_discovery: only an open PRIMARY answers.
AnswerDiscovery(s) ==
    /\ phase = "discovering"
    /\ primary = s /\ transitioning
    /\ Send({Leader(s)})
    /\ UNCHANGED <<clientVars, clusterVars, results>>

--------------------------------------------------------------------------------
(* Elections and synchronisations, as far as a client sees them            *)

\* The leader crashes, or an election takes its role.
LoseLeader ==
    /\ primary # None
    /\ changes < MaxChanges
    /\ primary' = None
    /\ changes' = changes + 1
    /\ UNCHANGED <<clientVars, state, transitioning, leader_id, messages, results>>

\* become_coordinator; the clients it knows are told (announce_coordinator).
TakeLead(s) ==
    /\ primary = None
    /\ primary' = s
    /\ transitioning' = TRUE
    /\ leader_id' = [leader_id EXCEPT ![s] = s]
    /\ Send(IF state.clients[Self].last_req > 0 THEN {Leader(s)} ELSE {})
    /\ UNCHANGED <<clientVars, state, changes, results>>

\* COORDINATOR or HEARTBEAT reaches the server s.
Follow(s) ==
    /\ primary # None
    /\ leader_id[s] # primary
    /\ leader_id' = [leader_id EXCEPT ![s] = primary]
    /\ UNCHANGED <<clientVars, state, primary, transitioning, changes, messages, results>>

\* sync_member closes the service and opens it again.
CloseService ==
    /\ primary # None /\ transitioning
    /\ changes < MaxChanges
    /\ transitioning' = FALSE
    /\ changes' = changes + 1
    /\ UNCHANGED <<clientVars, state, primary, leader_id, messages, results>>

OpenService ==
    /\ primary # None /\ ~transitioning
    /\ transitioning' = TRUE
    /\ UNCHANGED <<clientVars, state, primary, leader_id, changes, messages, results>>

--------------------------------------------------------------------------------
Receive(m) ==
    \/ CollectLeader(m)
    \/ ReceiveAck(m)
    \/ ReceiveLeader(m)
    \/ ReceiveNotLeader(m)
    \/ ReceiveRetry(m)

ClientStep ==
    \/ Enter
    \/ SendRequest \/ NetworkError \/ Timeout
    \/ \E m \in ToClient : Receive(m)
    \/ EndDiscovery

Handle(s) ==
    \E m \in messages \ ToClient : \/ Redirect(s, m)
                                   \/ Refuse(s, m)
                                   \/ Repeat(s, m)
                                   \/ Accept(s, m)

ClusterStep ==
    \/ \E s \in Servers : Handle(s) \/ AnswerDiscovery(s) \/ TakeLead(s) \/ Follow(s)
    \/ LoseLeader
    \/ CloseService \/ OpenService

Next == ClientStep \/ ClusterStep

Spec == Init /\ [][Next]_vars

\* The client's thread runs on and reads what its socket holds, an open PRIMARY
\* answers discoveries, and the cluster elects, reopens the service and spreads the
\* news.  Of what is sent again and again some arrives in time: the request at the
\* PRIMARY while the client waits, and its acknowledgement.  Nothing is assumed of
\* the answers of other servers.
FairSpec ==
    /\ Spec
    /\ WF_vars(SendRequest \/ Timeout \/ EndDiscovery)
    /\ WF_vars(\E m \in ToClient : m.type # "CLIENT_ACK" /\ CollectLeader(m))
    /\ WF_vars(\E s \in Servers : AnswerDiscovery(s))
    /\ WF_vars(OpenService \/ \E s \in Servers : TakeLead(s))
    /\ WF_vars(\E s \in Servers : Follow(s))
    /\ SF_vars(phase = "waiting" /\ \E s \in Servers : primary = s /\ Handle(s))
    /\ SF_vars(\E m \in ToClient : m.type = "CLIENT_ACK" /\ ReceiveAck(m))

--------------------------------------------------------------------------------
(* Properties *)

\* Totals of the first n values typed.
SumTo[n \in 0 .. Len(Inputs)] == IF n = 0 THEN 0 ELSE SumTo[n - 1] + Inputs[n]

\* Whatever is lost, repeated or answered twice: the cluster has added up exactly
\* the values typed, in order, up to the one before the pending identifier or to
\* that one itself (README.md:27-30, stop-and-wait and deduplication together).
InOrderOnce ==
    LET n == state.clients[Self].last_req
    IN /\ n \in {id - 1, id} \cap (0 .. Len(Inputs))
       /\ state.num_reqs = n
       /\ state.total_sum = SumTo[n]

\* What is printed for the i-th value are the totals right after it, also when the
\* answer comes from another leader than the one that accepted it.
ResultsTrue ==
    \A i \in DOMAIN results :
        results[i] = [num_reqs |-> i, total_sum |-> SumTo[i]]

\* Seen from the user, the client and its cluster are one adding machine that takes a
\* value, prints the totals, and takes the next: RunningSum, without messages, leaders
\* or failures (enviar_valor_stop_and_wait, handle_client_request).
Machine == INSTANCE RunningSum WITH count <- state.num_reqs, total <- state.total_sum,
                                    printed <- results
ImplementsRunningSum == Machine!Spec

\* The user gets an answer for every value, although redirects may point in circles,
\* answers of earlier leaders come late and the known leader may be silent for good:
\* the counters of timeouts and refusals lead back to the PRIMARY.
Answered == pending # None ~> pending = None

================================================================================
