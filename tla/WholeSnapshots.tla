----------------------------- MODULE WholeSnapshots -----------------------------
(***************************************************************************)
(* A snapshot as the servers that exchange it see it (sync_member and      *)
(* handle_snapshot_chunk, server/node.py), and as Replication, Election    *)
(* and Failover model it: one message, which the receiver installs in one  *)
(* step when it is not older than what it has.                             *)
(***************************************************************************)
EXTENDS Naturals

CONSTANTS
    Transfers,   \* transfer identifiers
    Contents,    \* the snapshots that may be sent
    NoContent    \* of a transfer that has not begun

VARIABLES
    data,        \* what each transfer carries
    version,     \* of the receiver's state
    acks         \* transfers for which a SNAPSHOT_ACK was sent

snapshotVars == <<data, version, acks>>

Init ==
    /\ data = [x \in Transfers |-> NoContent]
    /\ version \in Nat
    /\ acks = {}

Send(x) ==
    /\ data[x] = NoContent
    /\ \E content \in Contents : data' = [data EXCEPT ![x] = content]
    /\ UNCHANGED <<version, acks>>

\* An older snapshot changes nothing.  Either may be acknowledged, at once or when
\* it is delivered again.
Deliver(x) ==
    /\ data[x] # NoContent
    /\ version' = IF data[x].version < version THEN version ELSE data[x].version
    /\ acks' \in {acks, acks \cup {x}}
    /\ UNCHANGED data

Write == version' = version + 1 /\ UNCHANGED <<data, acks>>

Next == (\E x \in Transfers : Send(x) \/ Deliver(x)) \/ Write

Spec == Init /\ [][Next]_snapshotVars

================================================================================
