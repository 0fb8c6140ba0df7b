--------------------------- MODULE MCSnapshotTransfer ---------------------------
(* Instances of SnapshotTransfer for TLC. *)
EXTENDS SnapshotTransfer

CONSTANTS x1, x2

\* Two states of one server: it leads, and it leaves in a later term.
MCContents ==
    {[from |-> 1, version |-> 0, term |-> 1, leader |-> 1],
     [from |-> 1, version |-> 1, term |-> 2, leader |-> NoLeader]}

================================================================================
