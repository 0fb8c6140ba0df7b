---------------------------- MODULE SnapshotTransfer ----------------------------
(***************************************************************************)
(* A snapshot in chunks: send_snapshot of its senders and                  *)
(* handle_snapshot_chunk of one receiver (server/node.py).  The other      *)
(* modules treat a snapshot as one message that is installed in one step;  *)
(* here the chunks travel one by one and the handler reads the local       *)
(* version, notes the role, replaces the state and sets the role in        *)
(* sections of its own.  Between them the other threads of the receiver    *)
(* accept requests, elect and leave.                                       *)
(*                                                                         *)
(* messages is every chunk ever sent: one may be received late, again, or  *)
(* never.  Of the senders only what they send is kept; it is any state a   *)
(* server can be in.  The membership in a snapshot is left out.            *)
(***************************************************************************)
EXTENDS Naturals, FiniteSets

CONSTANTS
    Receiver,    \* the identifier of the receiving server, a number
    Senders,     \* those of the others
    Contents,    \* the snapshots they may send
    Transfers,   \* transfer identifiers
    Count,       \* chunks of a snapshot
    MaxVersion,  \* versions (bound)
    MaxTerm      \* terms (bound)

NoLeader == 0
Servers  == Senders \cup {Receiver}
Indexes  == 0 .. Count - 1
Versions == 0 .. MaxVersion
Terms    == 0 .. MaxTerm

ASSUME TransferAssumption ==
    /\ Receiver \in Nat \ {0} /\ Senders \subseteq Nat \ {0, Receiver}
    /\ Count \in Nat \ {0}
    /\ MaxVersion \in Nat /\ MaxTerm \in Nat \ {0}
    /\ Contents \subseteq [from : Senders, version : Versions, term : Terms,
                           leader : Servers \cup {NoLeader}]

VARIABLES
    data,           \* what each transfer carries
    messages,       \* chunks
    acks,           \* transfers for which a SNAPSHOT_ACK was sent
    \* the receiver
    role, term, version, leader_id, transitioning,
    receivers,      \* snapshot_receivers
    handler,        \* where handle_snapshot_chunk is, with its local variables
    due,            \* a thread with start_election as its target
    candidacy,      \* the term of the election that is running, or 0
    confirmed,      \* it has passed its last test
    \* history
    highest         \* the highest term the receiver has had

stateVars  == <<role, term, version, leader_id, transitioning>>
electionVars == <<due, candidacy, confirmed>>
vars == <<data, messages, acks, stateVars, receivers, handler, electionVars, highest>>

NoContent == [from |-> Receiver, version |-> 0, term |-> 0, leader |-> NoLeader]

\* The digest of a snapshot stands for its content.
Chunks == [transfer : Transfers, index : Indexes, digest : Contents, term : Terms]

\* chunkTerm is the term of the datagram that completes the snapshot, localTerm and
\* kept what the handler has read of the local state.
Idle == [at |-> "idle"]
Working == [at : {"complete", "newer", "noted", "replaced", "installed"},
            transfer : Transfers, digest : Contents, chunkTerm : Terms, localTerm : Terms,
            kept : {"LEAVING", "CANDIDATE", "other"}]
Handlers == {Idle} \cup Working

TypeOK ==
    /\ data \in [Transfers -> Contents \cup {NoContent}]
    /\ messages \subseteq Chunks
    /\ acks \subseteq Transfers
    /\ role \in {"JOINING", "BACKUP", "CANDIDATE", "PRIMARY", "LEAVING"}
    /\ term \in Terms
    /\ version \in Versions
    /\ leader_id \in Servers \cup {NoLeader}
    /\ role = "BACKUP" => leader_id # NoLeader
    /\ transitioning \in BOOLEAN
    /\ \A slot \in DOMAIN receivers : /\ receivers[slot].digest \in Contents
                                      /\ receivers[slot].chunks \subseteq Indexes
    /\ handler \in Handlers
    /\ due \in BOOLEAN
    /\ candidacy \in Terms /\ confirmed \in BOOLEAN
    /\ highest \in Terms

\* The receiver has just started, or has been a backup or the leader for a while.
Init ==
    /\ data = [x \in Transfers |-> NoContent]
    /\ messages = {}
    /\ acks = {}
    /\ \/ role = "JOINING" /\ term = 0 /\ version = 0 /\ leader_id = NoLeader
       \/ role = "BACKUP" /\ term = 1 /\ version \in Versions /\ leader_id \in Senders
       \/ role = "PRIMARY" /\ term = 1 /\ version \in Versions /\ leader_id = Receiver
    /\ transitioning = TRUE
    /\ receivers = <<>>
    /\ handler = Idle
    /\ due = FALSE
    /\ candidacy = 0 /\ confirmed = FALSE
    /\ highest = term

--------------------------------------------------------------------------------
(* send_snapshot *)

\* All chunks of x go out, with the sender's term of now.
SendRound(x, content) ==
    /\ \E t \in content.term .. MaxTerm :
          messages' = messages \cup {[transfer |-> x, index |-> i, digest |-> content, term |-> t]
                                        : i \in Indexes}
    /\ UNCHANGED <<acks, stateVars, receivers, handler, electionVars>>

SendSnapshot(x) ==
    /\ data[x] = NoContent
    /\ \E content \in Contents :
          /\ data' = [data EXCEPT ![x] = content]
          /\ SendRound(x, content)

\* No acknowledgement within the wait of a round.  How many rounds there are, and
\* what the sender makes of the answer, is Replication's.
Resend(x) ==
    /\ data[x] # NoContent
    /\ SendRound(x, data[x])
    /\ UNCHANGED data

--------------------------------------------------------------------------------
(* handle_snapshot_chunk, in the receive loop *)

\* Mutant: the chunks are collected by sender.
SlotBySender(m) == m.digest.from

Slot(m) == m.transfer

\* The chunks collected for the transfer of m, with m among them.
Collected(m) ==
    LET slot == Slot(m) IN
    IF slot \in DOMAIN receivers THEN receivers[slot] ELSE [digest |-> m.digest, chunks |-> {}]

\* A chunk of something else is dropped; the last one that is missing completes
\* the snapshot.  The receiver stays until the snapshot has been dealt with.
ReceiveChunk(m) ==
    /\ handler = Idle
    /\ LET receiver == Collected(m)
           known    == receiver.digest = m.digest
           now      == [receiver EXCEPT !.chunks = IF known THEN @ \cup {m.index} ELSE @]
       IN /\ receivers' = [slot \in DOMAIN receivers \cup {Slot(m)} |->
                              IF slot = Slot(m) THEN now ELSE receivers[slot]]
          /\ handler' = IF known /\ now.chunks = Indexes
                        THEN [at |-> "complete", transfer |-> m.transfer, digest |-> m.digest,
                              chunkTerm |-> m.term, localTerm |-> 0, kept |-> "other"]
                        ELSE handler
    /\ UNCHANGED <<data, messages, acks, stateVars, electionVars>>

\* The entry of the transfer is popped and SNAPSHOT_ACK sent.
Acknowledge ==
    /\ receivers' = [slot \in DOMAIN receivers \ {Slot(handler)} |-> receivers[slot]]
    /\ acks' = acks \cup {handler.transfer}

\* Mutant: the acknowledgement is sent before the state is replaced.
EarlyCompare ==
    /\ handler.at = "complete"
    /\ Acknowledge
    /\ handler' = IF handler.digest.version < version THEN Idle
                  ELSE [handler EXCEPT !.at = "newer", !.localTerm = term]
    /\ UNCHANGED <<data, messages, stateVars, electionVars>>

\* The local term and version are read; an older snapshot is acknowledged unread.
CompareVersion ==
    /\ handler.at = "complete"
    /\ IF handler.digest.version < version
       THEN Acknowledge /\ handler' = Idle
       ELSE /\ handler' = [handler EXCEPT !.at = "newer", !.localTerm = term]
            /\ UNCHANGED <<receivers, acks>>
    /\ UNCHANGED <<data, messages, stateVars, electionVars>>

NoteRole ==
    /\ handler.at = "newer"
    /\ handler' = [handler EXCEPT !.at = "noted",
                                  !.kept = IF role \in {"LEAVING", "CANDIDATE"} THEN role ELSE @]
    /\ UNCHANGED <<data, messages, acks, stateVars, receivers, electionVars>>

\* Mutant: install_snapshot trusts the comparison that was made before.
ReplaceUnchecked ==
    /\ handler.at = "noted"
    /\ version' = handler.digest.version
    /\ term' = handler.digest.term
    /\ handler' = [handler EXCEPT !.at = "replaced"]
    /\ UNCHANGED <<data, messages, acks, role, leader_id, transitioning, receivers, electionVars>>

\* install_snapshot compares again: a state that has become newer since is kept, the
\* error ends the handler, and nothing is acknowledged.  The term is replaced too.
ReplaceState ==
    /\ handler.at = "noted"
    /\ IF handler.digest.version < version
       THEN handler' = Idle /\ UNCHANGED <<version, term>>
       ELSE /\ version' = handler.digest.version
            /\ term' = handler.digest.term
            /\ handler' = [handler EXCEPT !.at = "replaced"]
    /\ UNCHANGED <<data, messages, acks, role, leader_id, transitioning, receivers, electionVars>>

\* Mutant: no sender stands in for a leader that the snapshot does not name.
NamedLeader(content) == content.leader

Leader(content) == IF content.leader = NoLeader THEN content.from ELSE content.leader

\* The highest of the terms seen, and the role that was noted.
InstallRole ==
    /\ handler.at = "replaced"
    /\ term' = CHOOSE t \in {term, handler.digest.term, handler.localTerm, handler.chunkTerm} :
                  t >= term /\ t >= handler.digest.term /\ t >= handler.localTerm
                  /\ t >= handler.chunkTerm
    /\ leader_id' = Leader(handler.digest)
    /\ role' = IF handler.kept # "other" THEN handler.kept
               ELSE IF leader_id' = Receiver THEN "PRIMARY" ELSE "BACKUP"
    /\ transitioning' = TRUE
    /\ Acknowledge
    /\ handler' = [handler EXCEPT !.at = "installed"]
    /\ UNCHANGED <<data, messages, version, electionVars>>

ElectAfterInstall ==
    /\ handler.at = "installed"
    /\ due' = (due \/ (role = "BACKUP" /\ Receiver > leader_id))
    /\ handler' = Idle
    /\ UNCHANGED <<data, messages, acks, stateVars, receivers, candidacy, confirmed>>

--------------------------------------------------------------------------------
(* The other threads of the receiver.  None of them waits for the receive loop. *)

\* A request thread applies a new request.
AcceptRequest ==
    /\ role = "PRIMARY" /\ transitioning
    /\ version < MaxVersion
    /\ version' = version + 1
    /\ UNCHANGED <<data, messages, acks, role, term, leader_id, transitioning,
                   receivers, handler, electionVars>>

\* start_election: scheduled, or because the leader is silent.  The role it is scheduled
\* in may have changed before it starts, and one election runs at a time (election_lock).
StartElection ==
    /\ due \/ (role # "PRIMARY" /\ leader_id # NoLeader)
    /\ due' = FALSE
    /\ IF role \in {"JOINING", "LEAVING"} \/ candidacy # 0
       THEN UNCHANGED <<role, term, transitioning, candidacy>>
       ELSE /\ term < MaxTerm
            /\ role' = "CANDIDATE"
            /\ term' = term + 1
            /\ transitioning' = FALSE
            /\ candidacy' = term + 1
    /\ UNCHANGED <<data, messages, acks, version, leader_id, receivers, handler, confirmed>>

\* The last test of become_coordinator, with which the candidate names itself leader
ConfirmCandidacy ==
    /\ candidacy # 0 /\ ~confirmed
    /\ role = "CANDIDATE" /\ term = candidacy
    /\ leader_id' = Receiver
    /\ confirmed' = TRUE
    /\ UNCHANGED <<data, messages, acks, role, term, version, transitioning, receivers,
                   handler, due, candidacy>>

\* The election ends before that test, or there, and may have scheduled another one.
\* What happens on the way is Election's.
GiveUp ==
    /\ candidacy # 0 /\ ~confirmed
    /\ candidacy' = 0
    /\ due' \in {due, TRUE}
    /\ UNCHANGED <<data, messages, acks, stateVars, receivers, handler, confirmed>>

\* The others have been brought up to date: the role is taken, whatever it is now.
BecomePrimary ==
    /\ confirmed
    /\ role' = "PRIMARY"
    /\ transitioning' = TRUE
    /\ candidacy' = 0 /\ confirmed' = FALSE
    /\ UNCHANGED <<data, messages, acks, term, version, leader_id, receivers, handler, due>>

\* stop, of the leader
Leave ==
    /\ role = "PRIMARY"
    /\ role' = "LEAVING"
    /\ leader_id' = NoLeader
    /\ transitioning' = FALSE
    /\ UNCHANGED <<data, messages, acks, term, version, receivers, handler, electionVars>>

--------------------------------------------------------------------------------
Handler == CompareVersion \/ NoteRole \/ ReplaceState \/ InstallRole \/ ElectAfterInstall

Step ==
    \/ \E x \in Transfers : SendSnapshot(x)
    \/ \E x \in Transfers : Resend(x)
    \/ \E m \in messages : ReceiveChunk(m)
    \/ Handler
    \/ AcceptRequest
    \/ StartElection \/ ConfirmCandidacy \/ GiveUp \/ BecomePrimary
    \/ Leave

RecordTerm == highest' = IF term' > highest THEN term' ELSE highest

Next == Step /\ RecordTerm

Spec == Init /\ [][Next]_vars

Receives(x, i) ==
    \E m \in messages : m.transfer = x /\ m.index = i /\ ReceiveChunk(m)

\* The handler runs on, and each chunk that was sent is received again and again: no
\* chunk is lost in all rounds.
FairSpec ==
    /\ Spec
    /\ WF_vars(Handler /\ RecordTerm)
    /\ \A x \in Transfers, i \in Indexes : SF_vars(Receives(x, i) /\ RecordTerm)

--------------------------------------------------------------------------------
(* Properties *)

\* A SNAPSHOT_ACK makes the sender count the receiver as ACTIVE (sync_member): from
\* then on the receiver holds at least the state that was sent, although it works on
\* other transfers and accepts requests meanwhile.
AckMeansHeld == \A x \in acks : version >= data[x].version

\* A snapshot never takes the receiver back to an older state, although it is
\* installed sections after its version was compared (install_snapshot).
StateForward == [][version' >= version]_version

\* Chunk by chunk and section by section, a transfer is what the other modules take it
\* for: a snapshot installed as a whole or not at all, and acknowledged when it is held
\* (snapshot_chunks, assemble_snapshot, handle_snapshot_chunk).
Whole == INSTANCE WholeSnapshots
ImplementsWhole == Whole!Spec

\* A transfer of which each chunk arrives is acknowledged, whatever other transfers
\* leave in snapshot_receivers and whatever the receiver accepts meanwhile
\* (handle_snapshot_chunk): sync_member does not give up on a server it can reach.
TransferAcked == \A x \in Transfers : data[x] # NoContent ~> x \in acks

\* test_candidate_installs_fresher_snapshot_with_lower_term (testing/test_cluster.py:492):
\* after the snapshot the receiver is in the term it had reached, not in an older one.
TermKept == handler = Idle => term = highest

================================================================================
