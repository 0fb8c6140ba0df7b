------------------------------ MODULE ClientProofs ------------------------------
(***************************************************************************)
(* Proofs about Client: whatever is lost, repeated or late, and however    *)
(* often the leader changes, each value is added once, in the order typed, *)
(* and each total printed is the one right after its value.  Client        *)
(* implements RunningSum.                                                  *)
(***************************************************************************)
EXTENDS Client, WellFoundedInduction, TLAPS

--------------------------------------------------------------------------------
(* The totals *)

\* A set of numbers has a smallest one.
LEMMA Smallest ==
    ASSUME NEW S \in SUBSET Nat, S # {}
    PROVE  \E n \in S : \A k \in S : n <= k
<1>1. PICK n \in S : \A k \in S : ~(<<k, n>> \in OpToRel(<, Nat))
  BY NatLessThanWellFounded, WFMin
<1>2. \A k \in S : ~(k < n)
  BY <1>1 DEF OpToRel
<1> QED BY <1>2

\* A function that adds up the values from the first to the n-th
Adds(f, n) == f = [k \in 0 .. n |-> IF k = 0 THEN 0 ELSE f[k - 1] + Inputs[k]]

\* There is one for each n: otherwise there is a smallest n without one, and the
\* function of its predecessor can be extended.
LEMMA AdderExists == \A n \in Nat : \E f : Adds(f, n)
<1> SUFFICES ASSUME {n \in Nat : ~\E f : Adds(f, n)} # {} PROVE FALSE
  OBVIOUS
<1> DEFINE Missing == {n \in Nat : ~\E f : Adds(f, n)}
<1>0. PICK n \in Missing : \A k \in Missing : n <= k
  <2> HIDE DEF Missing
  <2>1. Missing \in SUBSET Nat
    BY DEF Missing
  <2> QED BY <2>1, Smallest DEF Missing
<1>1. /\ n \in Nat /\ ~\E f : Adds(f, n)
      /\ \A k \in Nat : (~\E f : Adds(f, k)) => n <= k
  BY <1>0
<1>2. n # 0
  <2>1. Adds([k \in 0 .. 0 |-> 0], 0)
    BY DEF Adds
  <2> QED BY <1>1, <2>1
<1>3. PICK f : Adds(f, n - 1)
  BY <1>1, <1>2
<1> DEFINE g == [k \in 0 .. n |-> IF k = n THEN f[n - 1] + Inputs[n] ELSE f[k]]
<1>4. \A k \in 0 .. n : g[k] = IF k = 0 THEN 0 ELSE g[k - 1] + Inputs[k]
  <2> SUFFICES ASSUME NEW k \in 0 .. n
               PROVE  g[k] = IF k = 0 THEN 0 ELSE g[k - 1] + Inputs[k]
    OBVIOUS
  <2>1. CASE k = n
    BY <1>2, <2>1
  <2>2. CASE k # n
    <3>1. f[k] = IF k = 0 THEN 0 ELSE f[k - 1] + Inputs[k]
      BY <1>2, <1>3, <2>2 DEF Adds
    <3> QED BY <1>2, <2>2, <3>1
  <2> QED BY <2>1, <2>2
<1>5. Adds(g, n)
  <2> HIDE DEF g
  <2>1. DOMAIN g = 0 .. n /\ g = [k \in 0 .. n |-> g[k]]
    BY DEF g
  <2> QED BY <1>4, <2>1 DEF Adds
<1> QED BY <1>1, <1>5

\* SumTo is what its definition says.
LEMMA SumToDefined ==
    /\ SumTo[0] = 0
    /\ \A n \in 1 .. Len(Inputs) : SumTo[n] = SumTo[n - 1] + Inputs[n]
<1>1. Len(Inputs) \in Nat
  BY ClientAssumption
<1>2. Adds(SumTo, Len(Inputs))
  BY <1>1, AdderExists DEF SumTo, Adds
<1>3. \A n \in 0 .. Len(Inputs) : SumTo[n] = IF n = 0 THEN 0 ELSE SumTo[n - 1] + Inputs[n]
  BY <1>2 DEF Adds
<1> QED BY <1>1, <1>3

--------------------------------------------------------------------------------
(* The inductive invariant *)

\* How many requests of the client the cluster has counted
Counted == state.clients[Self].last_req

\* The totals right after the n-th value
Truth(n) == [num_reqs |-> n, total_sum |-> SumTo[n]]

\* Where the thread is, and what it knows there.
Positions ==
    /\ phase = "idle" => pending = None
    /\ phase \in {"sending", "waiting"} => pending # None
    /\ phase # "discovering" => leader \in Servers
    /\ pending # None => id <= Len(Inputs) /\ pending = Inputs[id]
    /\ pending = None => Counted = id - 1

\* The record that answers are made of is that of the last request.
RecordTrue ==
    /\ state.clients[Self].last_num_reqs = Counted
    /\ state.clients[Self].last_total_sum = SumTo[Counted]

\* An identifier stands for one value, and none is used before its turn.
RequestsKnown ==
    \A m \in messages : m.type = "CLIENT_REQUEST" =>
        /\ m.req \in 1 .. id /\ m.req <= Len(Inputs)
        /\ m.value = Inputs[m.req]
        /\ m.req = id => pending # None

AcksTrue ==
    \A m \in messages : m.type = "CLIENT_ACK" => m.req \in 0 .. Counted /\ m.totals = Truth(m.req)

\* One result for each value before the pending identifier.
Printed == Len(results) = id - 1

ClientInv == /\ InOrderOnce /\ RecordTrue
             /\ ResultsTrue /\ Printed
             /\ Positions
             /\ RequestsKnown /\ AcksTrue

--------------------------------------------------------------------------------
(* Types *)

\* Each kind of message has the fields the handlers read.
LEMMA MessageKinds ==
    ASSUME TypeOK
    PROVE  \A m \in messages :
              /\ m.type \in {"CLIENT_REQUEST", "LEADER", "NOT_LEADER", "RETRY", "CLIENT_ACK"}
              /\ m.type = "CLIENT_REQUEST" => m \in Requests
              /\ m.type = "LEADER" => m \in Leaders
              /\ m.type = "NOT_LEADER" => m.leader \in Servers \cup {None}
              /\ m.type = "CLIENT_ACK" => m \in Acks
  BY DEF TypeOK, Requests, Leaders, Refusals, Acks

\* What Transmit adds to the network is among what is sent.
LEMMA Transmitted ==
    ASSUME NEW net, NEW new, Transmit(net, new)
    PROVE  messages' \subseteq net \cup new
  BY DEF Transmit

\* The fields of a state that this module speaks of.
LEMMA StateFields ==
    ASSUME TypeOK
    PROVE  /\ state.clients[Self] \in ClientState
           /\ Counted \in Nat
           /\ state.state_version \in Nat
  BY ClientAssumption, MaxUint64Assumption DEF TypeOK, State, ClientState, Uint64, Counted

\* An acknowledgement of the server s is a message, and its totals are the client's record.
LEMMA AckTyped ==
    ASSUME NEW s \in Servers, NEW st \in State
    PROVE  /\ Ack(s, st) \in Acks
           /\ Ack(s, st).type = "CLIENT_ACK"
           /\ Ack(s, st).req = st.clients[Self].last_req
           /\ Ack(s, st).totals = [num_reqs  |-> st.clients[Self].last_num_reqs,
                                   total_sum |-> st.clients[Self].last_total_sum]
<1>1. st.clients[Self] \in ClientState
  BY ClientAssumption DEF State
<1> QED BY <1>1, MaxUint64Assumption DEF Ack, Acks, Totals, ClientState, Uint64

\* apply_request of the next request: the counters stay within 64 bits, and the
\* client's record is the new one.
LEMMA ApplyNext ==
    ASSUME TypeOK, InOrderOnce, NEW r \in Nat, NEW v \in Uint64, Accepts(state, Self, r, v)
    PROVE  /\ ApplyRequest(state, Self, r, v) \in State
           /\ r = Counted + 1
           /\ ApplyRequest(state, Self, r, v).num_reqs = state.num_reqs + 1
           /\ ApplyRequest(state, Self, r, v).total_sum = state.total_sum + v
           /\ ApplyRequest(state, Self, r, v).clients[Self] =
                 [last_req       |-> r,
                  last_num_reqs  |-> state.num_reqs + 1,
                  last_total_sum |-> state.total_sum + v]
<1>1. /\ Self \in Clients /\ state \in State
      /\ state.clients[Self] \in ClientState /\ Counted \in Nat
  BY ClientAssumption, StateFields DEF TypeOK
<1>2. r = Counted + 1 /\ ~Overflows(state, v)
  BY <1>1 DEF Accepts, ClassifyRequest, Counted
<1>3. state.num_reqs = Counted
  BY DEF InOrderOnce, Counted
<1>4. /\ r \in Uint64 /\ state.num_reqs + 1 \in Uint64 /\ state.total_sum + v \in Uint64
      /\ state.state_version + 1 \in Nat
  BY <1>1, <1>2, <1>3, MaxUint64Assumption DEF Overflows, State, Uint64
<1> QED BY <1>1, <1>2, <1>4 DEF ApplyRequest, State, ClientState

\* The client starts with an empty cluster.
LEMMA InitTyped == Init => TypeOK
<1> SUFFICES ASSUME Init PROVE TypeOK
  OBVIOUS
<1>1. state \in State
  BY MaxUint64Assumption DEF Init, EmptyState, EmptyClient, State, ClientState, Uint64
<1>2. results \in Seq(Totals)
  BY DEF Init
<1>3. leader_id \in [Servers -> Servers]
  BY DEF Init
<1> QED BY <1>1, <1>2, <1>3, ClientAssumption DEF Init, TypeOK

\* Each step of the client.
LEMMA ClientStepTyped ==
    ASSUME TypeOK, ClientInv, ClientStep
    PROVE  TypeOK'
<1> USE DEF clientVars, clusterVars
<1>1. CASE Enter
  <2>1. pending' \in Uint64 /\ phase' = "sending"
    BY <1>1, ClientAssumption DEF TypeOK, Enter
  <2> QED BY <1>1, <2>1 DEF TypeOK, Enter
<1>2. CASE SendRequest
  <2>1. /\ leader \in Servers /\ pending \in Uint64
        /\ messages' \subseteq messages \cup
             {[type |-> "CLIENT_REQUEST", to |-> leader, req |-> id, value |-> pending]}
    BY <1>2, Transmitted DEF TypeOK, ClientInv, Positions, SendRequest, Send
  <2>2. messages' \subseteq Requests \cup Leaders \cup Refusals \cup Acks
    BY <2>1 DEF TypeOK, Requests
  <2> QED BY <1>2, <2>2 DEF TypeOK, SendRequest
<1>3. CASE NetworkError
  BY <1>3, ClientAssumption DEF TypeOK, NetworkError, Rediscover
<1>4. CASE Timeout
  BY <1>4 DEF TypeOK, Timeout, Rediscover
<1>5. CASE EndDiscovery
  BY <1>5 DEF TypeOK, EndDiscovery, Leaders
<1>6. ASSUME NEW m \in ToClient, Receive(m)
      PROVE  TypeOK'
  <2>1. m \in messages /\ m.type # "CLIENT_REQUEST"
    BY DEF ToClient
  <2>2. messages' \subseteq messages
    BY <1>6, Transmitted DEF Receive, CollectLeader, ReceiveAck, ReceiveLeader, ReceiveNotLeader,
                             ReceiveRetry, Reply
  <2>3. CASE CollectLeader(m)
    BY <2>1, <2>2, <2>3, MessageKinds DEF TypeOK, CollectLeader
  <2>4. CASE ReceiveAck(m)
    <3>1. CASE m.req = id
      <4>1. m \in Acks
        BY <2>1, <2>4, MessageKinds DEF ReceiveAck
      <4>2. m.from \in Servers /\ m.totals \in Totals
        BY <4>1 DEF Acks
      <4>3. results' \in Seq(Totals)
        BY <2>4, <3>1, <4>2 DEF TypeOK, ReceiveAck, Complete
      <4> QED BY <2>2, <2>4, <3>1, <4>2, <4>3 DEF TypeOK, ReceiveAck, Complete
    <3>2. CASE m.req # id
      BY <2>2, <2>4, <3>2 DEF TypeOK, ReceiveAck
    <3> QED BY <3>1, <3>2
  <2>5. CASE ReceiveLeader(m)
    <3>1. m.from \in Servers
      BY <2>1, <2>5, MessageKinds DEF ReceiveLeader, Leaders
    <3> QED BY <2>2, <2>5, <3>1 DEF TypeOK, ReceiveLeader
  <2>6. CASE ReceiveNotLeader(m)
    <3>1. m.leader \in Servers \cup {None}
      BY <2>1, <2>6, MessageKinds DEF ReceiveNotLeader
    <3> QED BY <2>2, <2>6, <3>1 DEF TypeOK, ReceiveNotLeader, Rediscover
  <2>7. CASE ReceiveRetry(m)
    BY <2>2, <2>7 DEF TypeOK, ReceiveRetry, Rediscover
  <2> QED BY <1>6, <2>3, <2>4, <2>5, <2>6, <2>7 DEF Receive
<1> QED BY <1>1, <1>2, <1>3, <1>4, <1>5, <1>6 DEF ClientStep

\* Each step of the cluster.
LEMMA ClusterStepTyped ==
    ASSUME TypeOK, ClientInv, ClusterStep
    PROVE  TypeOK'
<1> USE DEF clientVars, clusterVars
<1> DEFINE Kinds == Requests \cup Leaders \cup Refusals \cup Acks
<1>0. state \in State /\ [type |-> "RETRY"] \in Kinds
  BY DEF TypeOK, Refusals
<1>1. ASSUME NEW s \in Servers, NEW m \in messages \ ToClient,
             Redirect(s, m) \/ Refuse(s, m) \/ Repeat(s, m)
      PROVE  TypeOK'
  <2>1. \A known \in Servers \cup {None} : [type |-> "NOT_LEADER", leader |-> known] \in Kinds
    BY DEF Refusals
  <2>2. Ack(s, state) \in Kinds
    BY <1>0, AckTyped
  <2>3. leader_id[s] \in Servers
    BY DEF TypeOK
  <2>4. messages' \subseteq messages \cup Kinds
    BY <1>0, <1>1, <2>1, <2>2, <2>3, Transmitted DEF Redirect, Refuse, Repeat, Reply
  <2>5. UNCHANGED <<clientVars, clusterVars, results>>
    BY <1>1 DEF Redirect, Refuse, Repeat
  <2> QED BY <2>4, <2>5 DEF TypeOK
<1>2. ASSUME NEW s \in Servers, NEW m \in messages \ ToClient, Accept(s, m)
      PROVE  TypeOK'
  <2>1. m.req \in Nat /\ m.value \in Uint64
    BY <1>2, MessageKinds DEF Accept, Requests
  <2>2. state' \in State
    BY <1>2, <2>1, ApplyNext DEF ClientInv, Accept
  <2>3. Ack(s, state') \in Kinds
    BY <2>2, AckTyped
  <2>4. messages' \subseteq messages \cup Kinds
    BY <1>0, <1>2, <2>3, Transmitted DEF Accept, Reply
  <2> QED BY <1>2, <2>2, <2>4 DEF TypeOK, Accept
<1>3. ASSUME NEW s \in Servers, AnswerDiscovery(s) \/ TakeLead(s) \/ Follow(s)
      PROVE  TypeOK'
  <2>1. Leader(s) \in Kinds
    BY StateFields DEF Leader, Leaders
  <2>2. messages' \subseteq messages \cup Kinds
    BY <1>3, <2>1, Transmitted DEF AnswerDiscovery, TakeLead, Follow, Send
  <2>3. leader_id' \in [Servers -> Servers]
    BY <1>3 DEF TypeOK, AnswerDiscovery, TakeLead, Follow
  <2>4. primary' \in Servers \cup {None} /\ transitioning' \in BOOLEAN
    <3>1. /\ primary' \in {s, primary}
          /\ transitioning' = TRUE \/ transitioning' = transitioning
      BY <1>3 DEF AnswerDiscovery, TakeLead, Follow
    <3> QED BY <3>1 DEF TypeOK
  <2>5. UNCHANGED <<clientVars, state, changes, results>>
    BY <1>3 DEF AnswerDiscovery, TakeLead, Follow
  <2>6. messages' \subseteq Kinds
    BY <2>2 DEF TypeOK
  <2> QED BY <2>3, <2>4, <2>5, <2>6 DEF TypeOK
<1>4. CASE LoseLeader \/ CloseService \/ OpenService
  <2>1. primary' \in Servers \cup {None} /\ transitioning' \in BOOLEAN
    BY <1>4 DEF TypeOK, LoseLeader, CloseService, OpenService
  <2>2. changes' \in 0 .. MaxChanges
    BY <1>4, ClientAssumption DEF TypeOK, LoseLeader, CloseService, OpenService
  <2>3. UNCHANGED <<clientVars, state, leader_id, messages, results>>
    BY <1>4 DEF LoseLeader, CloseService, OpenService
  <2> QED BY <2>1, <2>2, <2>3 DEF TypeOK
<1> QED BY <1>1, <1>2, <1>3, <1>4 DEF ClusterStep, Handle

--------------------------------------------------------------------------------
(* The invariant *)

\* Nothing has been typed, counted or sent.
LEMMA InitClient == Init => ClientInv
<1> SUFFICES ASSUME Init PROVE ClientInv
  OBVIOUS
<1>1. /\ Counted = 0 /\ state.num_reqs = 0 /\ state.total_sum = 0
      /\ state.clients[Self].last_num_reqs = 0 /\ state.clients[Self].last_total_sum = 0
  BY ClientAssumption DEF Init, EmptyState, EmptyClient, Counted
<1>2. Len(Inputs) \in Nat
  BY ClientAssumption
<1>3. InOrderOnce /\ RecordTrue
  BY <1>1, <1>2, SumToDefined DEF Init, InOrderOnce, RecordTrue, Counted
<1>4. ResultsTrue /\ Printed
  BY DEF Init, ResultsTrue, Printed
<1>5. Positions /\ RequestsKnown /\ AcksTrue
  BY <1>1 DEF Init, Positions, RequestsKnown, AcksTrue
<1> QED BY <1>3, <1>4, <1>5 DEF ClientInv

\* Nothing is counted and nothing printed.
LEMMA CountKept ==
    ASSUME ClientInv, UNCHANGED <<state, id, results>>
    PROVE  (InOrderOnce /\ RecordTrue /\ ResultsTrue /\ Printed)'
  BY DEF ClientInv, InOrderOnce, RecordTrue, ResultsTrue, Printed, Counted, Truth

\* No request and no acknowledgement is sent.
LEMMA NetKept ==
    ASSUME ClientInv, UNCHANGED <<state, id>>, pending # None => pending' # None,
           \A m \in messages' \ messages : m.type \notin {"CLIENT_REQUEST", "CLIENT_ACK"}
    PROVE  (RequestsKnown /\ AcksTrue)'
  BY DEF ClientInv, RequestsKnown, AcksTrue, Counted, Truth

\* The thread of the client, except where it completes a request.
LEMMA ClientStepInv ==
    ASSUME TypeOK, ClientInv, ClientStep, id' = id
    PROVE  ClientInv'
<1> USE DEF clientVars, clusterVars
<1>1. UNCHANGED <<state, results>>
  <2>1. ASSUME NEW m \in ToClient, ReceiveAck(m) PROVE UNCHANGED <<state, results>>
    <3>1. id \in Nat
      BY DEF TypeOK
    <3> QED BY <2>1, <3>1 DEF ReceiveAck, Complete
  <2> QED BY <2>1 DEF ClientStep, Enter, SendRequest, NetworkError, Timeout, EndDiscovery, Receive,
          CollectLeader, ReceiveLeader, ReceiveNotLeader, ReceiveRetry
<1>2. (InOrderOnce /\ RecordTrue /\ ResultsTrue /\ Printed)'
  BY <1>1, CountKept
<1>3. Positions'
  <2>1. CASE Enter
    <3>1. id \in Nat \ {0} /\ id <= Len(Inputs) /\ phase' = "sending" /\ pending' = Inputs[id]
      BY <2>1 DEF Enter, TypeOK
    <3>2. pending' # None
      BY <3>1, ClientAssumption, MaxUint64Assumption DEF Uint64
    <3>3. leader' \in Servers
      BY <2>1 DEF ClientInv, Positions, Enter
    <3> QED BY <3>1, <3>2, <3>3 DEF Positions
  <2>2. CASE SendRequest \/ NetworkError \/ Timeout
    BY <1>1, <2>2 DEF ClientInv, Positions, SendRequest, NetworkError, Timeout, Rediscover, Counted
  <2>3. CASE EndDiscovery
    BY <1>1, <2>3 DEF ClientInv, Positions, EndDiscovery, Counted, TypeOK, Leaders
  <2>4. ASSUME NEW m \in ToClient, Receive(m)
        PROVE  Positions'
    <3>1. m.type = "LEADER" => m.from \in Servers
      BY MessageKinds DEF ToClient, Leaders
    <3>2. m.type = "NOT_LEADER" => m.leader \in Servers \cup {None}
      BY MessageKinds DEF ToClient
    <3>3. CASE CollectLeader(m)
      BY <1>1, <3>3 DEF ClientInv, Positions, CollectLeader, Counted
    <3>4. CASE ReceiveAck(m)
      <4>1. UNCHANGED clientVars
        <5>1. id \in Nat
          BY DEF TypeOK
        <5> QED BY <3>4, <5>1 DEF ReceiveAck, Complete
      <4> QED BY <1>1, <4>1 DEF ClientInv, Positions, Counted
    <3>5. CASE ReceiveLeader(m)
      BY <1>1, <3>1, <3>5 DEF ClientInv, Positions, ReceiveLeader, Counted
    <3>6. CASE ReceiveNotLeader(m)
      BY <1>1, <3>2, <3>6 DEF ClientInv, Positions, ReceiveNotLeader, Rediscover, Counted
    <3>7. CASE ReceiveRetry(m)
      BY <1>1, <3>7 DEF ClientInv, Positions, ReceiveRetry, Rediscover, Counted
    <3> QED BY <2>4, <3>3, <3>4, <3>5, <3>6, <3>7 DEF Receive
  <2> QED BY <2>1, <2>2, <2>3, <2>4 DEF ClientStep
<1>4. (RequestsKnown /\ AcksTrue)'
  <2>1. CASE SendRequest
    <3>1. /\ pending # None /\ pending' = pending /\ id <= Len(Inputs) /\ pending = Inputs[id]
      BY <2>1 DEF ClientInv, Positions, SendRequest
    <3>2. /\ id \in Nat \ {0} /\ Len(Inputs) \in Nat
      BY ClientAssumption DEF TypeOK
    <3>3. \A m \in messages' :
             \/ m \in messages
             \/ m.type = "CLIENT_REQUEST" /\ m.req = id /\ m.value = pending
      BY <2>1, Transmitted DEF SendRequest, Send
    <3>4. RequestsKnown'
      BY <3>1, <3>2, <3>3 DEF ClientInv, RequestsKnown
    <3>5. AcksTrue'
      BY <1>1, <3>3 DEF ClientInv, AcksTrue, Counted, Truth
    <3> QED BY <3>4, <3>5
  <2>2. CASE Enter \/ NetworkError \/ Timeout \/ EndDiscovery
    <3>1. messages' = messages /\ (pending # None => pending' # None)
      BY <2>2 DEF ClientInv, Positions, Enter, NetworkError, Timeout, EndDiscovery
    <3> QED BY <1>1, <3>1, NetKept
  <2>3. ASSUME NEW m \in ToClient, Receive(m)
        PROVE  (RequestsKnown /\ AcksTrue)'
    <3>1. messages' \subseteq messages
      BY <2>3, Transmitted DEF Receive, CollectLeader, ReceiveAck, ReceiveLeader,
                               ReceiveNotLeader, ReceiveRetry, Reply
    <3>2. UNCHANGED pending
      BY <2>3 DEF Receive, CollectLeader, ReceiveAck, Complete, ReceiveLeader,
                  ReceiveNotLeader, ReceiveRetry, TypeOK
    <3> QED BY <1>1, <3>1, <3>2, NetKept
  <2> QED BY <2>1, <2>2, <2>3 DEF ClientStep
<1> QED BY <1>2, <1>3, <1>4 DEF ClientInv

\* The acknowledgement of the pending request: its totals are those right after it.
LEMMA CompleteInv ==
    ASSUME TypeOK, ClientInv, NEW m \in ToClient, ReceiveAck(m), m.req = id
    PROVE  ClientInv'
<1> USE DEF clusterVars
<1>1. /\ m \in messages /\ m.type = "CLIENT_ACK"
      /\ state' = state /\ id' = id + 1 /\ pending' = None /\ phase' = "idle"
      /\ results' = Append(results, m.totals)
      /\ messages' \subseteq messages
  BY Transmitted DEF ToClient, ReceiveAck, Complete, Reply
<1>2. id \in Nat \ {0} /\ Counted \in Nat /\ results \in Seq(Totals) /\ Len(Inputs) \in Nat
  BY StateFields, ClientAssumption DEF TypeOK
<1>3. Counted = id /\ m.totals = Truth(id)
  BY <1>1, <1>2 DEF ClientInv, AcksTrue, InOrderOnce, Counted
<1>4. (InOrderOnce /\ RecordTrue)'
  BY <1>1, <1>2, <1>3 DEF ClientInv, InOrderOnce, RecordTrue, Counted
<1>5. Printed'
  BY <1>1, <1>2 DEF ClientInv, Printed
<1>6. ResultsTrue'
  <2>1. m.totals \in Totals
    BY <1>1, MessageKinds DEF Acks
  <2>2. /\ DOMAIN results' = 1 .. id
        /\ \A i \in 1 .. id - 1 : i \in DOMAIN results /\ results'[i] = results[i]
        /\ results'[id] = m.totals
    BY <1>1, <1>2, <2>1 DEF ClientInv, Printed
  <2> QED BY <1>2, <1>3, <2>2 DEF ClientInv, ResultsTrue, Truth
<1>7. Positions'
  <2>1. leader' \in Servers
    BY <1>1, MessageKinds DEF ReceiveAck, Complete, Acks
  <2> QED BY <1>1, <1>2, <1>3, <2>1 DEF Positions, Counted
<1>8. (RequestsKnown /\ AcksTrue)'
  BY <1>1, <1>2, <1>3 DEF ClientInv, RequestsKnown, AcksTrue, Counted, Truth
<1> QED BY <1>4, <1>5, <1>6, <1>7, <1>8 DEF ClientInv

\* The cluster counts the pending request, and only that one.
LEMMA AcceptInv ==
    ASSUME TypeOK, ClientInv, NEW s \in Servers, NEW m \in messages, Accept(s, m)
    PROVE  ClientInv'
<1> USE DEF clientVars
<1>1. /\ m.type = "CLIENT_REQUEST" /\ Accepts(state, Self, m.req, m.value)
      /\ state' = ApplyRequest(state, Self, m.req, m.value)
      /\ UNCHANGED <<phase, leader, id, pending, results>>
  BY DEF Accept
<1>2. /\ id \in Nat \ {0} /\ Counted \in Nat /\ Len(Inputs) \in Nat
      /\ m.req \in Nat /\ m.value \in Uint64
  BY <1>1, StateFields, MessageKinds, ClientAssumption DEF TypeOK, Requests
<1>3. /\ state' \in State
      /\ m.req = Counted + 1
      /\ state'.num_reqs = state.num_reqs + 1
      /\ state'.total_sum = state.total_sum + m.value
      /\ state'.clients[Self] = [last_req       |-> m.req,
                                 last_num_reqs  |-> state.num_reqs + 1,
                                 last_total_sum |-> state.total_sum + m.value]
  BY <1>1, <1>2, ApplyNext DEF ClientInv
<1>4. /\ m.req = id /\ Counted = id - 1 /\ id <= Len(Inputs) /\ m.value = Inputs[id]
      /\ pending # None
  BY <1>1, <1>2, <1>3 DEF ClientInv, RequestsKnown, InOrderOnce, Counted
<1>5. /\ Counted' = id /\ state'.num_reqs = id /\ state'.total_sum = SumTo[id]
      /\ state'.clients[Self].last_num_reqs = id
      /\ state'.clients[Self].last_total_sum = SumTo[id]
  <2>1. state.num_reqs = id - 1 /\ state.total_sum = SumTo[id - 1]
    BY <1>4 DEF ClientInv, InOrderOnce, Counted
  <2>2. SumTo[id] = SumTo[id - 1] + Inputs[id]
    BY <1>2, <1>4, SumToDefined
  <2> QED BY <1>2, <1>3, <1>4, <2>1, <2>2 DEF Counted
<1>6. (InOrderOnce /\ RecordTrue)'
  BY <1>1, <1>2, <1>4, <1>5 DEF InOrderOnce, RecordTrue, Counted
<1>7. (ResultsTrue /\ Printed)'
  BY <1>1 DEF ClientInv, ResultsTrue, Printed
<1>8. Positions'
  BY <1>1, <1>4 DEF ClientInv, Positions
<1>9. \A n \in messages' :
         \/ n \in messages
         \/ n.type = "RETRY"
         \/ n.type = "CLIENT_ACK" /\ n.req = id /\ n.totals = Truth(id)
  <2>1. /\ Ack(s, state').type = "CLIENT_ACK" /\ Ack(s, state').req = id
        /\ Ack(s, state').totals = Truth(id)
    BY <1>3, <1>5, AckTyped DEF Counted, Truth
  <2> QED BY <2>1, Transmitted DEF Accept, Reply
<1>10. RequestsKnown'
  BY <1>1, <1>9 DEF ClientInv, RequestsKnown
<1>11. AcksTrue'
  <2>1. \A n \in messages : n.type = "CLIENT_ACK" => n.req \in 0 .. Counted /\ n.totals = Truth(n.req)
    BY DEF ClientInv, AcksTrue
  <2>2. \A n \in messages' : n.type = "CLIENT_ACK" => n.req \in 0 .. id /\ n.totals = Truth(n.req)
    BY <1>2, <1>4, <1>9, <2>1
  <2> QED BY <1>5, <2>2 DEF AcksTrue, Truth
<1> QED BY <1>6, <1>7, <1>8, <1>10, <1>11 DEF ClientInv

\* All other steps of the cluster: they count nothing, and a repeated answer is that
\* of the last request.
LEMMA ClusterStepInv ==
    ASSUME TypeOK, ClientInv, UNCHANGED <<clientVars, state, results>>,
           \A m \in messages' \ messages :
               \/ m.type \notin {"CLIENT_REQUEST", "CLIENT_ACK"}
               \/ \E s \in Servers : m = Ack(s, state)
    PROVE  ClientInv'
<1> USE DEF clientVars
<1>1. (InOrderOnce /\ RecordTrue /\ ResultsTrue /\ Printed)'
  BY CountKept
<1>2. Positions'
  BY DEF ClientInv, Positions, Counted
<1>3. \A m \in messages' \ messages :
         /\ m.type # "CLIENT_REQUEST"
         /\ m.type = "CLIENT_ACK" => m.req = Counted /\ m.totals = Truth(Counted)
  BY AckTyped DEF TypeOK, ClientInv, RecordTrue, InOrderOnce, Counted, Truth
<1>4. RequestsKnown'
  BY <1>3 DEF ClientInv, RequestsKnown
<1>5. AcksTrue'
  BY <1>3, StateFields DEF ClientInv, AcksTrue, Counted, Truth
<1> QED BY <1>1, <1>2, <1>4, <1>5 DEF ClientInv

\* Each step of the system keeps the invariant.
LEMMA StepClient == ASSUME TypeOK, ClientInv, Next PROVE ClientInv'
<1> USE DEF clusterVars
<1>1. CASE ClientStep
  <2>1. CASE id' = id
    BY <1>1, <2>1, ClientStepInv
  <2>2. CASE id' # id
    <3>1. PICK m \in ToClient : ReceiveAck(m) /\ m.req = id
      BY <1>1, <2>2 DEF ClientStep, Enter, SendRequest, NetworkError, Timeout, EndDiscovery,
         Receive, CollectLeader, ReceiveAck, ReceiveLeader, ReceiveNotLeader, ReceiveRetry,
         clientVars
    <3> QED BY <3>1, CompleteInv
  <2> QED BY <2>1, <2>2
<1>2. ASSUME NEW s \in Servers, NEW m \in messages \ ToClient, Accept(s, m)
      PROVE  ClientInv'
  BY <1>2, AcceptInv
<1>3. ASSUME NEW s \in Servers, NEW m \in messages \ ToClient,
             Redirect(s, m) \/ Refuse(s, m) \/ Repeat(s, m)
      PROVE  ClientInv'
  <2>1. UNCHANGED <<clientVars, state, results>>
    BY <1>3 DEF Redirect, Refuse, Repeat
  <2>2. \A n \in messages' \ messages : n.type \in {"NOT_LEADER", "RETRY"} \/ n = Ack(s, state)
    BY <1>3, Transmitted DEF Redirect, Refuse, Repeat, Reply
  <2> QED BY <2>1, <2>2, ClusterStepInv
<1>4. ASSUME NEW s \in Servers, AnswerDiscovery(s) \/ TakeLead(s) \/ Follow(s)
      PROVE  ClientInv'
  <2>1. UNCHANGED <<clientVars, state, results>>
    BY <1>4 DEF AnswerDiscovery, TakeLead, Follow
  <2>2. \A n \in messages' \ messages : n.type = "LEADER"
    BY <1>4, Transmitted DEF AnswerDiscovery, TakeLead, Follow, Send, Leader
  <2> QED BY <2>1, <2>2, ClusterStepInv
<1>5. CASE LoseLeader \/ CloseService \/ OpenService
  <2>1. UNCHANGED <<clientVars, state, messages, results>>
    BY <1>5 DEF LoseLeader, CloseService, OpenService
  <2> QED BY <2>1, ClusterStepInv
<1> QED BY <1>1, <1>2, <1>3, <1>4, <1>5 DEF Next, ClusterStep, Handle

--------------------------------------------------------------------------------
(* The theorems *)

\* Types and invariant together, in every reachable state.
LEMMA ClientAlways == Spec => [](TypeOK /\ ClientInv)
<1>1. TypeOK /\ ClientInv /\ [Next]_vars => (TypeOK /\ ClientInv)'
  <2> SUFFICES ASSUME TypeOK, ClientInv, [Next]_vars PROVE (TypeOK /\ ClientInv)'
    OBVIOUS
  <2>1. CASE Next
    BY <2>1, ClientStepTyped, ClusterStepTyped, StepClient DEF Next
  <2>2. CASE UNCHANGED vars
    <3>1. TypeOK'
      BY <2>2 DEF TypeOK, vars, clientVars, clusterVars
    <3>2. ClientInv'
      BY <2>2, ClusterStepInv DEF vars, clusterVars
    <3> QED BY <3>1, <3>2
  <2> QED BY <2>1, <2>2
<1> QED BY InitTyped, InitClient, <1>1, PTL DEF Spec

\* Every reachable state is of the declared types: in particular apply_request, that
\* checks the sum only, never lets an identifier or a counter pass 64 bits.
THEOREM TypeCorrect == Spec => []TypeOK
  BY ClientAlways, PTL

\* Stop-and-wait and deduplication together: the cluster has added up exactly the
\* values typed, in order, up to the pending one or the one before it, whatever is
\* lost, repeated or late (enviar_valor_stop_and_wait, handle_client_request).
THEOREM CountedInOrder == Spec => []InOrderOnce
<1>1. ClientInv => InOrderOnce
  BY DEF ClientInv
<1> QED BY <1>1, ClientAlways, PTL

\* What is printed for the i-th value are the totals right after it, whichever
\* server has answered (enviar_valor_stop_and_wait, ClientState).
THEOREM PrintedTrue == Spec => []ResultsTrue
<1>1. ClientInv => ResultsTrue
  BY DEF ClientInv
<1> QED BY <1>1, ClientAlways, PTL

--------------------------------------------------------------------------------
(* The refinement of RunningSum *)

\* A step that counts no request and prints nothing.
LEMMA MachineStutter ==
    ASSUME UNCHANGED <<state, results>>
    PROVE  UNCHANGED Machine!sumVars
  BY DEF Machine!sumVars

\* The request that the cluster accepts is the value after the last one printed.
LEMMA AcceptAdds ==
    ASSUME TypeOK, ClientInv, NEW s \in Servers, NEW m \in messages, Accept(s, m)
    PROVE  Machine!Add
<1>1. /\ m.type = "CLIENT_REQUEST" /\ Accepts(state, Self, m.req, m.value)
      /\ state' = ApplyRequest(state, Self, m.req, m.value)
      /\ UNCHANGED results
  BY DEF Accept, clientVars
<1>2. /\ id \in Nat \ {0} /\ Counted \in Nat /\ Len(Inputs) \in Nat
      /\ m.req \in Nat /\ m.value \in Uint64
  BY <1>1, StateFields, MessageKinds, ClientAssumption DEF TypeOK, Requests
<1>3. /\ m.req = Counted + 1
      /\ state'.num_reqs = state.num_reqs + 1
      /\ state'.total_sum = state.total_sum + m.value
  BY <1>1, <1>2, ApplyNext DEF ClientInv
<1>4. m.req <= id /\ m.req <= Len(Inputs) /\ m.value = Inputs[m.req]
  BY <1>1, <1>2 DEF ClientInv, RequestsKnown
<1>5. Counted \in {id - 1, id} /\ state.num_reqs = Counted /\ Len(results) = id - 1
  BY DEF ClientInv, InOrderOnce, Printed, Counted
<1> QED BY <1>1, <1>2, <1>3, <1>4, <1>5 DEF Machine!Add

\* The totals of the acknowledgement that is taken are those of the cluster still: it
\* has accepted nothing since.
LEMMA CompletePrints ==
    ASSUME TypeOK, ClientInv, NEW m \in ToClient, ReceiveAck(m), m.req = id
    PROVE  Machine!Report
<1>1. /\ m \in messages /\ m.type = "CLIENT_ACK" /\ UNCHANGED state
      /\ results' = Append(results, m.totals)
  BY DEF ToClient, ReceiveAck, Complete, clusterVars
<1>2. id \in Nat \ {0} /\ Counted \in Nat
  BY StateFields DEF TypeOK
<1>3. Counted = id /\ m.totals = Truth(id)
  BY <1>1, <1>2 DEF ClientInv, AcksTrue, InOrderOnce, Counted
<1>4. state.num_reqs = id /\ state.total_sum = SumTo[id] /\ Len(results) = id - 1
  BY <1>3 DEF ClientInv, InOrderOnce, Printed, Counted
<1> QED BY <1>1, <1>2, <1>3, <1>4 DEF Machine!Report, Truth

\* Each step adds the next value, prints the totals, or is not seen.
LEMMA StepRefines == ASSUME TypeOK, ClientInv, Next PROVE Machine!Next \/ UNCHANGED Machine!sumVars
<1> USE DEF clientVars, clusterVars
<1>1. CASE UNCHANGED <<state, results>>
  BY <1>1, MachineStutter
<1>2. CASE ClientStep
  <2>1. \/ UNCHANGED <<state, results>>
        \/ \E m \in ToClient : ReceiveAck(m) /\ m.req = id
    BY <1>2 DEF ClientStep, Enter, SendRequest, NetworkError, Timeout, EndDiscovery, Receive,
                CollectLeader, ReceiveAck, ReceiveLeader, ReceiveNotLeader, ReceiveRetry
  <2> QED BY <1>1, <2>1, CompletePrints DEF Machine!Next
<1>3. ASSUME NEW s \in Servers, NEW m \in messages \ ToClient, Accept(s, m)
      PROVE  Machine!Next
  BY <1>3, AcceptAdds DEF Machine!Next
<1>4. CASE ClusterStep
  <2>1. \/ UNCHANGED <<state, results>>
        \/ \E s \in Servers : \E m \in messages \ ToClient : Accept(s, m)
    BY <1>4 DEF ClusterStep, Handle, Redirect, Refuse, Repeat, AnswerDiscovery, TakeLead, Follow,
                LoseLeader, CloseService, OpenService
  <2> QED BY <1>1, <1>3, <2>1
<1> QED BY <1>2, <1>4 DEF Next

\* The client and its cluster implement RunningSum: whatever is lost, late or answered
\* by another leader, each value is added, then its totals are printed, then comes the
\* next (enviar_valor_stop_and_wait, handle_client_request).
THEOREM MachineImplemented == Spec => ImplementsRunningSum
<1>1. Init => Machine!Init
  BY DEF Init, EmptyState, Machine!Init
<1>2. TypeOK /\ ClientInv /\ [Next]_vars => [Machine!Next]_Machine!sumVars
  <2>1. UNCHANGED vars => UNCHANGED Machine!sumVars
    BY MachineStutter DEF vars, clusterVars
  <2> QED BY <2>1, StepRefines
<1> QED BY <1>1, <1>2, ClientAlways, PTL DEF Spec, ImplementsRunningSum, Machine!Spec

================================================================================
