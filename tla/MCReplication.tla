----------------------------- MODULE MCReplication -----------------------------
(* Instances of Replication for TLC. *)
EXTENDS Replication

CONSTANTS b1, b2, t1, t2, c1, c2, leader, none

MCFirstReq1 == [c \in Clients |-> 1]

\* c2 has been answered once by a cluster that no longer exists.
MCFirstReqGap == [c \in Clients |-> IF c = c2 THEN 2 ELSE 1]

\* States in which the epoch has ended are checked but not continued.
InEpoch == role[Leader] = "PRIMARY"

================================================================================
