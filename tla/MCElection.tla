------------------------------- MODULE MCElection -------------------------------
(* Instances of Election for TLC. *)
EXTENDS Election

\* Two datagrams, and any number of heartbeats
MCCapacity ==
    {<<{"ELECTION", "ELECTION_OK", "STATE_SUMMARY_REQUEST", "STATE_SUMMARY", "SNAPSHOT_REQUEST",
        "SNAPSHOT", "COORDINATOR"}, 2>>}

================================================================================
