---------------------------- MODULE ReplicatedState ----------------------------
(***************************************************************************)
(* The replicated state of the sum service (server/state.py): the two      *)
(* aggregates, the global version and one record per client.  This module  *)
(* has no variables: it defines what each method of the class              *)
(* ReplicatedState returns and leaves behind, as functions of the state.   *)
(*                                                                         *)
(* The election term and the membership version, which the Python class    *)
(* also carries, belong to the protocols and are variables of the modules  *)
(* that model these.  Client addresses and the last value are data that no *)
(* method reads back, and are left out.                                    *)
(***************************************************************************)
EXTENDS Integers

CONSTANTS
    Clients,     \* client identifiers (UUIDs in the code)
    MaxUint64    \* common/protocol.py MAX_UINT64, small in the runs

ASSUME MaxUint64Assumption == MaxUint64 \in Nat

Uint64 == 0 .. MaxUint64

ClientState == [last_req : Uint64, last_num_reqs : Uint64, last_total_sum : Uint64]

\* state_version is counted without a check of its own.
State == [num_reqs      : Uint64,
          total_sum     : Uint64,
          state_version : Nat,
          clients       : [Clients -> ClientState]]

\* ClientState() of a client that is not in the dictionary yet.
EmptyClient == [last_req |-> 0, last_num_reqs |-> 0, last_total_sum |-> 0]

EmptyState == [num_reqs |-> 0, total_sum |-> 0, state_version |-> 0,
               clients |-> [c \in Clients |-> EmptyClient]]

--------------------------------------------------------------------------------
(* classify_request and apply_request *)

\* Mutant: the comparison accepts the last request once more.
LateClassify(st, c, r) ==
    IF r \in {st.clients[c].last_req, st.clients[c].last_req + 1} THEN "NEW"
    ELSE IF r < st.clients[c].last_req THEN "DUPLICATE"
    ELSE "FUTURE"

ClassifyRequest(st, c, r) ==
    IF r = st.clients[c].last_req + 1 THEN "NEW"
    ELSE IF r <= st.clients[c].last_req THEN "DUPLICATE"
    ELSE "FUTURE"

\* Mutant: an off-by-one in the bound on the sum.
LateOverflow(st, v) == st.num_reqs = MaxUint64 \/ st.total_sum > MaxUint64 - v + 1

\* The condition on which apply_request raises instead of adding.
Overflows(st, v) == st.num_reqs = MaxUint64 \/ st.total_sum > MaxUint64 - v

Accepts(st, c, r, v) == ClassifyRequest(st, c, r) = "NEW" /\ ~Overflows(st, v)

\* Mutant: the client's record keeps its previous totals.
ForgetfulApply(st, c, r, v) ==
    [num_reqs      |-> st.num_reqs + 1,
     total_sum     |-> st.total_sum + v,
     state_version |-> st.state_version + 1,
     clients       |-> [st.clients EXCEPT ![c].last_req = r]]

\* The state after an accepted request.
ApplyRequest(st, c, r, v) ==
    [num_reqs      |-> st.num_reqs + 1,
     total_sum     |-> st.total_sum + v,
     state_version |-> st.state_version + 1,
     clients       |-> [st.clients EXCEPT
                          ![c] = [last_req       |-> r,
                                  last_num_reqs  |-> st.num_reqs + 1,
                                  last_total_sum |-> st.total_sum + v]]]

--------------------------------------------------------------------------------
(* apply_replication: op is a record with fields version, client, req, value *)

\* "REFUSED" is every ProtocolError: a gap, a conflict or an overflow.
ReplicationOutcome(st, op) ==
    IF op.version <= st.state_version THEN "IGNORED"
    ELSE IF /\ op.version = st.state_version + 1
            /\ Accepts(st, op.client, op.req, op.value) THEN "APPLIED"
    ELSE "REFUSED"

ApplyReplication(st, op) ==
    IF ReplicationOutcome(st, op) = "APPLIED"
    THEN ApplyRequest(st, op.client, op.req, op.value)
    ELSE st

--------------------------------------------------------------------------------
(* install_snapshot *)

\* Mutant: only a snapshot of the very same version is refused.
EqualRefusal(st, snapshot) == snapshot.state_version = st.state_version

RefusesSnapshot(st, snapshot) == snapshot.state_version < st.state_version

\* Mutant: the client table of the replica survives the installation.
PartialInstall(st, snapshot) ==
    IF RefusesSnapshot(st, snapshot) THEN st ELSE [snapshot EXCEPT !.clients = st.clients]

InstallSnapshot(st, snapshot) ==
    IF RefusesSnapshot(st, snapshot) THEN st ELSE snapshot

================================================================================
