------------------------------- MODULE MCFailover -------------------------------
(* Instances of Failover for TLC. *)
EXTENDS Failover

MCServers == {1, 2}

\* One datagram that may be received again, and one that may not
Lasting == {"SNAPSHOT", "COORDINATOR", "HEARTBEAT", "REPLICATION", "MEMBERSHIP"}
MCCapacity ==
    {<<Lasting, 1>>,
     <<{"ELECTION", "ELECTION_OK", "STATE_SUMMARY_REQUEST", "STATE_SUMMARY", "SNAPSHOT_REQUEST",
        "REPLICATION_ACK", "LEAVE", "LEAVE_ACK"}, 1>>}

\* The same, and the network loses all datagrams of the first kind but SNAPSHOTs.
MCSnapshotsOnly == MCCapacity \cup {<<Lasting \ {"SNAPSHOT"}, 0>>}

\* States in which so much has happened are checked but not continued.
NewestVersion == CHOOSE v \in {version(s) : s \in Servers} : \A s \in Servers : version(s) <= v
Budget == 2 * elections + syncs + faults + NewestVersion <= 5

================================================================================
