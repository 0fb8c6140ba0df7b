------------------------- MODULE SnapshotTransferProofs -------------------------
(***************************************************************************)
(* Proofs about SnapshotTransfer, for every number of transfers and        *)
(* chunks, every content and every bound on versions and terms.            *)
(***************************************************************************)
EXTENDS SnapshotTransfer, TLAPS

USE DEF NoLeader, Servers, Indexes, Versions, Terms

--------------------------------------------------------------------------------
(* Typing *)

\* What a snapshot carries
LEMMA ContentTyped ==
    ASSUME NEW content \in Contents
    PROVE  /\ content.from \in Senders /\ content.from # NoLeader
           /\ content.version \in Versions /\ content.term \in Terms
           /\ content.leader \in Servers \cup {NoLeader}
           /\ Leader(content) \in Servers /\ Leader(content) # NoLeader
           /\ content # NoContent
BY TransferAssumption DEF Leader, NoContent

\* The handler that has completed a snapshot has its local variables.
LEMMA Works ==
    ASSUME handler \in Handlers, handler # Idle \/ handler.at # "idle"
    PROVE  handler \in Working
BY DEF Handlers, Idle

\* Of four terms one is the highest (max in handle_snapshot_chunk).
LEMMA HighestOfFour ==
    ASSUME NEW a \in Nat, NEW b \in Nat, NEW c \in Nat, NEW d \in Nat
    PROVE  \E t \in {a, b, c, d} : t >= a /\ t >= b /\ t >= c /\ t >= d
OBVIOUS

LEMMA InitTyped == Init => TypeOK
<1> SUFFICES ASSUME Init PROVE TypeOK
  OBVIOUS
<1>1. DOMAIN receivers = {}
  BY DEF Init
<1>2. /\ data \in [Transfers -> Contents \cup {NoContent}] /\ messages \subseteq Chunks
      /\ acks \subseteq Transfers /\ handler \in Handlers
      /\ transitioning \in BOOLEAN /\ due \in BOOLEAN /\ confirmed \in BOOLEAN
  BY DEF Init, Handlers
<1>3. /\ role \in {"JOINING", "BACKUP", "CANDIDATE", "PRIMARY", "LEAVING"}
      /\ term \in Terms /\ highest \in Terms /\ version \in Versions
      /\ leader_id \in Servers \cup {NoLeader}
  BY TransferAssumption DEF Init
<1>4. role = "BACKUP" => leader_id # NoLeader
  BY TransferAssumption DEF Init
<1>5. candidacy \in Terms
  BY TransferAssumption DEF Init
<1> QED BY <1>1, <1>2, <1>3, <1>4, <1>5 DEF TypeOK

\* Each section of the handler, each step of another thread and each datagram keeps
\* the types.
LEMMA StepTyped == TypeOK /\ [Next]_vars => TypeOK'
<1> SUFFICES ASSUME TypeOK, [Next]_vars PROVE TypeOK'
  OBVIOUS
<1> USE DEF stateVars, electionVars
<1>0. CASE UNCHANGED vars
  BY <1>0 DEF vars, TypeOK
<1>h. ASSUME RecordTerm, term' \in Terms PROVE highest' \in Terms
  BY <1>h DEF RecordTerm, TypeOK
<1>s. ASSUME NEW x \in Transfers, NEW content \in Contents, SendRound(x, content)
      PROVE  messages' \subseteq Chunks
  <2>1. PICK t \in content.term .. MaxTerm :
           messages' = messages \cup {[transfer |-> x, index |-> i, digest |-> content, term |-> t]
                                        : i \in Indexes}
    BY <1>s DEF SendRound
  <2>2. t \in Terms
    BY <2>1, ContentTyped, TransferAssumption
  <2> QED BY <2>1, <2>2 DEF Chunks, TypeOK
<1>1. ASSUME NEW x \in Transfers, SendSnapshot(x), RecordTerm PROVE TypeOK'
  <2>1. PICK content \in Contents : /\ data' = [data EXCEPT ![x] = content]
                                    /\ SendRound(x, content)
    BY <1>1 DEF SendSnapshot
  <2>2. messages' \subseteq Chunks
    BY <2>1, <1>s
  <2>3. data' \in [Transfers -> Contents \cup {NoContent}]
    BY <2>1 DEF TypeOK
  <2> QED BY <1>1, <1>h, <2>1, <2>2, <2>3 DEF SendRound, TypeOK
<1>2. ASSUME NEW x \in Transfers, Resend(x), RecordTerm PROVE TypeOK'
  <2>1. data[x] \in Contents /\ SendRound(x, data[x])
    BY <1>2 DEF Resend, TypeOK
  <2>2. messages' \subseteq Chunks
    BY <2>1, <1>s
  <2> QED BY <1>2, <1>h, <2>1, <2>2 DEF Resend, SendRound, TypeOK
<1>3. ASSUME NEW m \in messages, ReceiveChunk(m), RecordTerm PROVE TypeOK'
  <2> DEFINE receiver == Collected(m)
             known    == receiver.digest = m.digest
             now      == [receiver EXCEPT !.chunks = IF known THEN @ \cup {m.index} ELSE @]
  <2>1. m \in Chunks
    BY DEF TypeOK
  <2>2. /\ receivers' = [slot \in DOMAIN receivers \cup {Slot(m)} |->
                            IF slot = Slot(m) THEN now ELSE receivers[slot]]
        /\ handler' = IF known /\ now.chunks = Indexes
                      THEN [at |-> "complete", transfer |-> m.transfer, digest |-> m.digest,
                            chunkTerm |-> m.term, localTerm |-> 0, kept |-> "other"]
                      ELSE handler
    BY <1>3 DEF ReceiveChunk
  <2>3. handler' \in Handlers
    BY <2>1, <2>2, TransferAssumption DEF Chunks, Handlers, Working, TypeOK
  <2>4. now.digest \in Contents /\ now.chunks \subseteq Indexes
    BY <2>1 DEF Collected, Chunks, TypeOK
  <2>5. \A slot \in DOMAIN receivers' : /\ receivers'[slot].digest \in Contents
                                        /\ receivers'[slot].chunks \subseteq Indexes
    BY <2>2, <2>4 DEF TypeOK
  <2> QED BY <1>3, <1>h, <2>3, <2>5 DEF ReceiveChunk, TypeOK
<1>a. ASSUME Acknowledge, handler \in Working
      PROVE  /\ acks' \subseteq Transfers
             /\ \A slot \in DOMAIN receivers' : /\ receivers'[slot].digest \in Contents
                                                /\ receivers'[slot].chunks \subseteq Indexes
  BY <1>a DEF Acknowledge, Working, TypeOK
<1>4. ASSUME CompareVersion, RecordTerm PROVE TypeOK'
  <2>1. handler \in Working
    BY <1>4, Works DEF CompareVersion, TypeOK
  <2>2. handler' \in Handlers
    <3>1. handler' = Idle \/ handler' = [handler EXCEPT !.at = "newer", !.localTerm = term]
      BY <1>4 DEF CompareVersion
    <3>2. [handler EXCEPT !.at = "newer", !.localTerm = term] \in Working
      BY <2>1 DEF Working, TypeOK
    <3> QED BY <3>1, <3>2 DEF Handlers
  <2>3. /\ acks' \subseteq Transfers
        /\ \A slot \in DOMAIN receivers' : /\ receivers'[slot].digest \in Contents
                                           /\ receivers'[slot].chunks \subseteq Indexes
    BY <1>4, <1>a, <2>1 DEF CompareVersion, TypeOK
  <2> QED BY <1>4, <1>h, <2>2, <2>3 DEF CompareVersion, TypeOK
<1>5. ASSUME NoteRole, RecordTerm PROVE TypeOK'
  <2>1. handler \in Working
    BY <1>5, Works DEF NoteRole, TypeOK
  <2>2. handler' \in Handlers
    BY <1>5, <2>1 DEF NoteRole, Handlers, Working, TypeOK
  <2> QED BY <1>5, <1>h, <2>2 DEF NoteRole, TypeOK
<1>6. ASSUME ReplaceState, RecordTerm PROVE TypeOK'
  <2>1. handler \in Working
    BY <1>6, Works DEF ReplaceState, TypeOK
  <2>2. handler' \in Handlers
    BY <1>6, <2>1 DEF ReplaceState, Handlers, Working
  <2>3. handler.digest.version \in Versions /\ handler.digest.term \in Terms
    BY <2>1, ContentTyped DEF Working
  <2>4. version' \in Versions /\ term' \in Terms
    BY <1>6, <2>3 DEF ReplaceState, TypeOK
  <2> QED BY <1>6, <1>h, <2>2, <2>4 DEF ReplaceState, TypeOK
<1>7. ASSUME InstallRole, RecordTerm PROVE TypeOK'
  <2>1. handler \in Working
    BY <1>7, Works DEF InstallRole, TypeOK
  <2>2. handler' \in Handlers
    BY <1>7, <2>1 DEF InstallRole, Handlers, Working
  <2>3. /\ handler.digest \in Contents /\ handler.digest.term \in Terms
        /\ handler.localTerm \in Terms /\ handler.chunkTerm \in Terms /\ term \in Terms
        /\ handler.kept \in {"LEAVING", "CANDIDATE", "other"}
    BY <2>1, ContentTyped DEF Working, TypeOK
  <2>4. term' \in Terms
    <3> DEFINE terms == {term, handler.digest.term, handler.localTerm, handler.chunkTerm}
    <3>1. \E t \in terms : t >= term /\ t >= handler.digest.term /\ t >= handler.localTerm
                           /\ t >= handler.chunkTerm
      BY <2>3, HighestOfFour
    <3>2. term' \in terms
      BY <1>7, <3>1 DEF InstallRole
    <3> QED BY <2>3, <3>2
  <2>5. leader_id' \in Servers /\ leader_id' # NoLeader
    BY <1>7, <2>3, ContentTyped DEF InstallRole
  <2>6. role' \in {"JOINING", "BACKUP", "CANDIDATE", "PRIMARY", "LEAVING"}
    BY <1>7, <2>3 DEF InstallRole
  <2>7. /\ acks' \subseteq Transfers
        /\ \A slot \in DOMAIN receivers' : /\ receivers'[slot].digest \in Contents
                                           /\ receivers'[slot].chunks \subseteq Indexes
    BY <1>7, <1>a, <2>1 DEF InstallRole
  <2> QED BY <1>7, <1>h, <2>2, <2>4, <2>5, <2>6, <2>7 DEF InstallRole, TypeOK
<1>8. ASSUME ElectAfterInstall, RecordTerm PROVE TypeOK'
  BY <1>8, <1>h DEF ElectAfterInstall, Handlers, TypeOK
<1>9. ASSUME AcceptRequest, RecordTerm PROVE TypeOK'
  BY <1>9, <1>h, TransferAssumption DEF AcceptRequest, TypeOK
<1>10. ASSUME StartElection, RecordTerm PROVE TypeOK'
  <2>1. term' \in Terms /\ candidacy' \in Terms
    BY <1>10, TransferAssumption DEF StartElection, TypeOK
  <2>2. /\ role' \in {"JOINING", "BACKUP", "CANDIDATE", "PRIMARY", "LEAVING"}
        /\ role' = "BACKUP" => leader_id' # NoLeader
        /\ transitioning' \in BOOLEAN /\ due' \in BOOLEAN
    BY <1>10 DEF StartElection, TypeOK
  <2> QED BY <1>10, <1>h, <2>1, <2>2 DEF StartElection, TypeOK
<1>11. ASSUME ConfirmCandidacy \/ GiveUp \/ BecomePrimary, RecordTerm PROVE TypeOK'
  <2>1. CASE ConfirmCandidacy
    BY <1>11, <1>h, <2>1 DEF ConfirmCandidacy, TypeOK
  <2>2. CASE GiveUp
    <3>1. candidacy' \in Terms
      BY <2>2, TransferAssumption DEF GiveUp
    <3>2. due' \in BOOLEAN
      BY <2>2 DEF GiveUp, TypeOK
    <3> QED BY <1>11, <1>h, <2>2, <3>1, <3>2 DEF GiveUp, TypeOK
  <2>3. CASE BecomePrimary
    <3>1. candidacy' \in Terms
      BY <2>3, TransferAssumption DEF BecomePrimary
    <3> QED BY <1>11, <1>h, <2>3, <3>1 DEF BecomePrimary, TypeOK
  <2> QED BY <1>11, <2>1, <2>2, <2>3
<1>12. ASSUME Leave, RecordTerm PROVE TypeOK'
  BY <1>12, <1>h DEF Leave, TypeOK
<1> QED BY <1>0, <1>1, <1>2, <1>3, <1>4, <1>5, <1>6, <1>7, <1>8, <1>9, <1>10, <1>11, <1>12
        DEF Next, Step, Handler

\* The receiver's state, the chunks it has collected and the position of its handler
\* keep their types (handle_snapshot_chunk, with every other thread in between).
THEOREM TransferTypeCorrect == Spec => []TypeOK
<1> QED BY InitTyped, StepTyped, PTL DEF Spec

--------------------------------------------------------------------------------
(* What an acknowledgement says *)

\* A chunk in the network carries a part of what its transfer carries.
ChunksTrue == \A m \in messages : data[m.transfer] # NoContent /\ m.digest = data[m.transfer]

\* So does what the handler has completed; what it has replaced is not older.
HandlerTrue ==
    handler # Idle =>
        /\ data[handler.transfer] # NoContent /\ handler.digest = data[handler.transfer]
        /\ handler.at = "replaced" => version >= handler.digest.version

\* Acknowledged transfers have been sent.
AcksSent == \A x \in acks : data[x] # NoContent

TransferInv == TypeOK /\ ChunksTrue /\ HandlerTrue /\ AcksSent /\ AckMeansHeld

\* A snapshot that is older than the state when it would replace it does not
\* (install_snapshot), whatever was accepted since the versions were compared.
LEMMA StepForward == TypeOK /\ Next => version' \in Nat /\ version \in Nat /\ version' >= version
<1> SUFFICES ASSUME TypeOK, Next PROVE version' \in Nat /\ version \in Nat /\ version' >= version
  OBVIOUS
<1>v. version \in Nat
  BY DEF TypeOK
<1>1. ASSUME ReplaceState PROVE version' \in Nat /\ version' >= version
  <2>1. handler \in Working
    BY <1>1, Works DEF ReplaceState, TypeOK
  <2>2. handler.digest.version \in Nat
    BY <2>1, ContentTyped DEF Working
  <2> QED BY <1>1, <1>v, <2>2 DEF ReplaceState
<1>2. ASSUME AcceptRequest PROVE version' \in Nat /\ version' >= version
  BY <1>2, <1>v DEF AcceptRequest
<1>3. ASSUME version' = version PROVE version' \in Nat /\ version' >= version
  BY <1>3, <1>v
<1> QED BY <1>v, <1>1, <1>2, <1>3
        DEF Next, Step, Handler, SendSnapshot, Resend, SendRound, ReceiveChunk, CompareVersion,
            NoteRole, InstallRole, ElectAfterInstall, StartElection, ConfirmCandidacy, GiveUp,
            BecomePrimary, Leave, stateVars

\* A sender's round adds chunks of what it sends, and nothing else changes.
LEMMA RoundTrue ==
    ASSUME TransferInv, TypeOK', NEW x \in Transfers, NEW content \in Contents,
           SendRound(x, content), data' = [data EXCEPT ![x] = content],
           data[x] # NoContent => content = data[x]
    PROVE  ChunksTrue' /\ HandlerTrue' /\ AcksSent' /\ AckMeansHeld'
<1>1. /\ handler' = handler /\ version' = version /\ acks' = acks
      /\ \A m \in messages' \ messages : m.transfer = x /\ m.digest = content
  BY DEF SendRound, stateVars
<1>2. data'[x] = content /\ content # NoContent
  BY ContentTyped DEF TransferInv, TypeOK
<1>3. \A y \in Transfers : data[y] # NoContent => data'[y] = data[y]
  BY DEF TransferInv, TypeOK
<1>4. ChunksTrue'
  BY <1>1, <1>2, <1>3 DEF ChunksTrue, TransferInv, TypeOK, Chunks
<1>5. HandlerTrue'
  BY <1>1, <1>3, Works DEF HandlerTrue, TransferInv, TypeOK, Working
<1>6. AcksSent' /\ AckMeansHeld'
  BY <1>1, <1>3 DEF AcksSent, AckMeansHeld, TransferInv, TypeOK
<1> QED BY <1>4, <1>5, <1>6

\* What was acknowledged stays true while the state goes forward.
LEMMA AcksKept ==
    ASSUME TransferInv, Next, data' = data
    PROVE  \A x \in acks : data'[x] # NoContent /\ version' >= data'[x].version
<1> SUFFICES ASSUME NEW x \in acks PROVE data[x] # NoContent /\ version' >= data[x].version
  OBVIOUS
<1>1. data[x] # NoContent /\ version >= data[x].version
  BY DEF TransferInv, AcksSent, AckMeansHeld
<1>2. data[x].version \in Nat
  BY <1>1, ContentTyped DEF TransferInv, TypeOK
<1>3. version' \in Nat /\ version \in Nat /\ version' >= version
  BY StepForward DEF TransferInv
<1> QED BY <1>1, <1>2, <1>3

\* Whenever the handler acknowledges, the receiver holds what was sent.
LEMMA AcknowledgeTrue ==
    ASSUME TransferInv, Next, data' = data, Acknowledge, handler # Idle,
           version' >= handler.digest.version
    PROVE  AcksSent' /\ AckMeansHeld'
<1>1. \A x \in acks : data'[x] # NoContent /\ version' >= data'[x].version
  BY AcksKept
<1>2. /\ data[handler.transfer] # NoContent
      /\ version' >= data[handler.transfer].version
  BY DEF TransferInv, HandlerTrue
<1> QED BY <1>1, <1>2 DEF Acknowledge, AcksSent, AckMeansHeld

LEMMA InitTransfer == Init => TransferInv
BY InitTyped DEF Init, TransferInv, ChunksTrue, HandlerTrue, AcksSent, AckMeansHeld

LEMMA StepTransfer == TransferInv /\ [Next]_vars => TransferInv'
<1> SUFFICES ASSUME TransferInv, [Next]_vars PROVE TransferInv'
  OBVIOUS
<1>t. TypeOK /\ TypeOK'
  BY StepTyped DEF TransferInv
<1>0. CASE UNCHANGED vars
  BY <1>0, <1>t DEF vars, stateVars, TransferInv, ChunksTrue, HandlerTrue, AcksSent, AckMeansHeld
<1>1. ASSUME NEW x \in Transfers, SendSnapshot(x) PROVE TransferInv'
  BY <1>1, <1>t, RoundTrue DEF SendSnapshot, TransferInv
<1>2. ASSUME NEW x \in Transfers, Resend(x) PROVE TransferInv'
  <2>1. data[x] \in Contents /\ data' = [data EXCEPT ![x] = data[x]]
    BY <1>2, <1>t DEF Resend, TypeOK
  <2> QED BY <1>2, <1>t, <2>1, RoundTrue DEF Resend, TransferInv
\* All other steps send no chunk and leave acknowledged snapshots behind the state.
<1>k. ASSUME Next, data' = data, messages' = messages, acks' = acks
      PROVE  ChunksTrue' /\ AcksSent' /\ AckMeansHeld'
  BY <1>k, AcksKept DEF TransferInv, ChunksTrue, AcksSent, AckMeansHeld
<1>c. ASSUME data' = data, messages' = messages PROVE ChunksTrue'
  BY <1>c DEF TransferInv, ChunksTrue
\* A step of another thread does not move the handler.
<1>o. ASSUME Next, data' = data, messages' = messages, acks' = acks, handler' = handler
      PROVE  TransferInv'
  <2>1. ASSUME handler # Idle, handler.at = "replaced" PROVE version' >= handler.digest.version
    <3>1. handler \in Working /\ version >= handler.digest.version
      BY <1>t, <2>1, Works DEF TransferInv, HandlerTrue, TypeOK
    <3>2. handler.digest.version \in Nat
      BY <3>1, ContentTyped DEF Working
    <3> QED BY <1>o, <1>t, <3>1, <3>2, StepForward
  <2>2. HandlerTrue'
    BY <1>o, <2>1 DEF TransferInv, HandlerTrue
  <2> QED BY <1>k, <1>o, <1>t, <2>2 DEF TransferInv
<1>3. ASSUME NEW m \in messages, ReceiveChunk(m), Next PROVE TransferInv'
  <2>1. /\ data' = data /\ messages' = messages /\ acks' = acks /\ handler = Idle
        /\ \/ handler' = handler
           \/ /\ handler'.at = "complete" /\ handler'.transfer = m.transfer
              /\ handler'.digest = m.digest
    BY <1>3 DEF ReceiveChunk
  <2>2. HandlerTrue'
    BY <2>1 DEF TransferInv, HandlerTrue, ChunksTrue
  <2> QED BY <1>3, <1>k, <1>t, <2>1, <2>2 DEF TransferInv
<1>4. ASSUME CompareVersion, Next PROVE TransferInv'
  <2>1. /\ handler \in Working /\ handler # Idle /\ version \in Nat
        /\ data' = data /\ messages' = messages /\ version' = version
    BY <1>4, <1>t, Works DEF CompareVersion, Idle, TypeOK, stateVars
  <2>2. handler.digest.version \in Nat
    BY <2>1, ContentTyped DEF Working
  <2>3. CASE handler.digest.version < version
    <3>1. Acknowledge /\ handler' = Idle
      BY <1>4, <2>3 DEF CompareVersion
    <3>2. AcksSent' /\ AckMeansHeld'
      BY <1>4, <2>1, <2>2, <2>3, <3>1, AcknowledgeTrue
    <3> QED BY <1>c, <1>t, <2>1, <3>1, <3>2 DEF TransferInv, HandlerTrue
  <2>4. CASE ~(handler.digest.version < version)
    <3>1. /\ handler' = [handler EXCEPT !.at = "newer", !.localTerm = term]
          /\ acks' = acks
      BY <1>4, <2>4 DEF CompareVersion
    <3>2. handler'.digest = handler.digest /\ handler'.transfer = handler.transfer
          /\ handler'.at = "newer"
      BY <2>1, <3>1 DEF Working
    <3>3. HandlerTrue'
      BY <2>1, <3>2 DEF TransferInv, HandlerTrue
    <3> QED BY <1>4, <1>k, <1>t, <2>1, <3>1, <3>3 DEF TransferInv
  <2> QED BY <2>3, <2>4
<1>5. ASSUME NoteRole, Next PROVE TransferInv'
  <2>1. /\ handler \in Working /\ handler # Idle
        /\ data' = data /\ messages' = messages /\ acks' = acks
    BY <1>5, <1>t, Works DEF NoteRole, Idle, TypeOK
  <2>2. handler'.digest = handler.digest /\ handler'.transfer = handler.transfer
        /\ handler'.at = "noted"
    BY <1>5, <2>1 DEF NoteRole, Working
  <2>3. HandlerTrue'
    BY <2>1, <2>2 DEF TransferInv, HandlerTrue
  <2> QED BY <1>5, <1>k, <1>t, <2>1, <2>3 DEF TransferInv
<1>6. ASSUME ReplaceState, Next PROVE TransferInv'
  <2>1. /\ handler \in Working /\ handler # Idle
        /\ data' = data /\ messages' = messages /\ acks' = acks
    BY <1>6, <1>t, Works DEF ReplaceState, Idle, TypeOK
  <2>2. handler.digest.version \in Nat
    BY <2>1, ContentTyped DEF Working
  <2>3. CASE handler' = Idle
    BY <1>6, <1>k, <1>t, <2>1, <2>3 DEF TransferInv, HandlerTrue
  <2>4. CASE /\ version' = handler.digest.version
             /\ handler' = [handler EXCEPT !.at = "replaced"]
    <3>1. handler'.digest = handler.digest /\ handler'.transfer = handler.transfer
      BY <2>1, <2>4 DEF Working
    <3>2. HandlerTrue'
      BY <2>1, <2>2, <2>4, <3>1 DEF TransferInv, HandlerTrue
    <3> QED BY <1>6, <1>k, <1>t, <2>1, <3>2 DEF TransferInv
  <2> QED BY <1>6, <2>3, <2>4 DEF ReplaceState
<1>7. ASSUME InstallRole, Next PROVE TransferInv'
  <2>1. /\ handler \in Working /\ handler # Idle /\ handler.at = "replaced"
        /\ data' = data /\ messages' = messages /\ version' = version /\ Acknowledge
    BY <1>7, <1>t, Works DEF InstallRole, Idle, TypeOK
  <2>2. version' >= handler.digest.version
    BY <2>1 DEF TransferInv, HandlerTrue
  <2>3. AcksSent' /\ AckMeansHeld'
    BY <1>7, <2>1, <2>2, AcknowledgeTrue
  <2>4. handler'.digest = handler.digest /\ handler'.transfer = handler.transfer
        /\ handler'.at = "installed"
    BY <1>7, <2>1 DEF InstallRole, Working
  <2>5. HandlerTrue'
    BY <2>1, <2>4 DEF TransferInv, HandlerTrue
  <2> QED BY <1>c, <1>t, <2>1, <2>3, <2>5 DEF TransferInv
<1>8. ASSUME ElectAfterInstall, Next PROVE TransferInv'
  <2>1. handler' = Idle /\ data' = data /\ messages' = messages /\ acks' = acks
    BY <1>8 DEF ElectAfterInstall
  <2> QED BY <1>8, <1>k, <1>t, <2>1 DEF TransferInv, HandlerTrue
<1>9. ASSUME \/ AcceptRequest \/ StartElection \/ ConfirmCandidacy \/ GiveUp \/ BecomePrimary
             \/ Leave,
             Next
      PROVE  TransferInv'
  BY <1>9, <1>o DEF AcceptRequest, StartElection, ConfirmCandidacy, GiveUp, BecomePrimary, Leave
<1> QED BY <1>0, <1>1, <1>2, <1>3, <1>4, <1>5, <1>6, <1>7, <1>8, <1>9 DEF Next, Step, Handler

\* Who has acknowledged a snapshot holds at least its state from then on
\* (handle_snapshot_chunk; sync_member counts it as ACTIVE on that ground).
THEOREM AckMeansHeldHolds == Spec => []AckMeansHeld
<1>1. TransferInv => AckMeansHeld
  BY DEF TransferInv
<1> QED BY <1>1, InitTransfer, StepTransfer, PTL DEF Spec

\* No snapshot takes the receiver back, although its version is compared sections
\* before it is installed (install_snapshot).
THEOREM StateForwardHolds == Spec => StateForward
<1>1. TypeOK /\ [Next]_vars => [version' >= version]_version
  BY StepForward DEF vars, stateVars
<1> QED BY <1>1, InitTyped, StepTyped, PTL DEF Spec, StateForward

--------------------------------------------------------------------------------
(* Refinement of WholeSnapshots.  A section that replaces the state, and one that   *)
(* acknowledges, is a delivery; a new request is a write; the rest are stutters.    *)

\* What the handler works on has been sent and is the content of its transfer.
LEMMA HandlesSent ==
    ASSUME TransferInv, handler # Idle, handler.at # "idle"
    PROVE  /\ handler.transfer \in Transfers
           /\ data[handler.transfer] # NoContent
           /\ handler.digest = data[handler.transfer]
           /\ handler.digest.version \in Nat /\ version \in Nat
<1>1. handler \in Working
  BY Works DEF TransferInv, TypeOK
<1>2. handler.digest.version \in Nat
  BY <1>1, ContentTyped DEF Working
<1> QED BY <1>1, <1>2 DEF TransferInv, HandlerTrue, TypeOK, Working

\* An acknowledgement delivers what the state has reached already.
LEMMA AcknowledgeDelivers ==
    ASSUME TransferInv, handler # Idle, handler.at # "idle",
           Acknowledge, data' = data, version' = version,
           version >= handler.digest.version
    PROVE  Whole!Deliver(handler.transfer)
BY HandlesSent DEF Acknowledge, Whole!Deliver

LEMMA StepWhole ==
    ASSUME TransferInv, [Next]_vars
    PROVE  [Whole!Next]_Whole!snapshotVars
<1> USE DEF stateVars
<1>i. Idle.at = "idle"
  BY DEF Idle
<1>0. CASE UNCHANGED vars
  BY <1>0 DEF vars, Whole!snapshotVars
<1>s. ASSUME data' = data, version' = version, acks' = acks
      PROVE  UNCHANGED Whole!snapshotVars
  BY <1>s DEF Whole!snapshotVars
<1>1. ASSUME NEW x \in Transfers, SendSnapshot(x) PROVE Whole!Send(x)
  BY <1>1 DEF SendSnapshot, SendRound, Whole!Send
<1>2. ASSUME NEW x \in Transfers, Resend(x) PROVE UNCHANGED Whole!snapshotVars
  BY <1>2, <1>s DEF Resend, SendRound
<1>3. ASSUME NEW m \in messages, ReceiveChunk(m) PROVE UNCHANGED Whole!snapshotVars
  BY <1>3, <1>s DEF ReceiveChunk
<1>4. ASSUME CompareVersion
      PROVE  Whole!Deliver(handler.transfer) \/ UNCHANGED Whole!snapshotVars
  <2>1. handler # Idle /\ handler.at # "idle" /\ data' = data /\ version' = version
    BY <1>4, <1>i DEF CompareVersion
  <2>2. CASE handler.digest.version < version
    <3>1. Acknowledge
      BY <1>4, <2>2 DEF CompareVersion
    <3>2. version >= handler.digest.version
      BY <2>1, <2>2, HandlesSent
    <3> QED BY <2>1, <3>1, <3>2, AcknowledgeDelivers
  <2>3. CASE ~(handler.digest.version < version)
    BY <1>4, <1>s, <2>3 DEF CompareVersion
  <2> QED BY <2>2, <2>3
<1>5. ASSUME \/ NoteRole \/ ElectAfterInstall
             \/ StartElection \/ ConfirmCandidacy \/ GiveUp \/ BecomePrimary \/ Leave
      PROVE  UNCHANGED Whole!snapshotVars
  BY <1>5, <1>s DEF NoteRole, ElectAfterInstall, StartElection, ConfirmCandidacy, GiveUp,
                    BecomePrimary, Leave
<1>6. ASSUME ReplaceState
      PROVE  Whole!Deliver(handler.transfer) \/ UNCHANGED Whole!snapshotVars
  <2>1. handler # Idle /\ handler.at # "idle" /\ data' = data /\ acks' = acks
    BY <1>6, <1>i DEF ReplaceState
  <2>2. CASE handler.digest.version < version
    BY <1>6, <1>s, <2>1, <2>2 DEF ReplaceState
  <2>3. CASE ~(handler.digest.version < version)
    <3>1. version' = handler.digest.version
      BY <1>6, <2>3 DEF ReplaceState
    <3> QED BY <2>1, <2>3, <3>1, HandlesSent DEF Whole!Deliver
  <2> QED BY <2>2, <2>3
<1>7. ASSUME InstallRole PROVE Whole!Deliver(handler.transfer)
  <2>1. /\ handler # Idle /\ handler.at # "idle" /\ handler.at = "replaced"
        /\ Acknowledge /\ data' = data /\ version' = version
    BY <1>7, <1>i DEF InstallRole
  <2>2. version >= handler.digest.version
    BY <2>1 DEF TransferInv, HandlerTrue
  <2> QED BY <2>1, <2>2, AcknowledgeDelivers
<1>8. ASSUME AcceptRequest PROVE Whole!Write
  BY <1>8 DEF AcceptRequest, Whole!Write
<1>9. CompareVersion \/ ReplaceState \/ InstallRole => handler.transfer \in Transfers
  BY <1>i, HandlesSent DEF CompareVersion, ReplaceState, InstallRole
<1> QED BY <1>0, <1>1, <1>2, <1>3, <1>4, <1>5, <1>6, <1>7, <1>8, <1>9
        DEF Next, Step, Handler, Whole!Next

\* SnapshotTransfer implements WholeSnapshots: chunks that are lost, repeated and mixed
\* and a handler that is interrupted between its sections change the state as one
\* message that is installed in one step would (handle_snapshot_chunk, install_snapshot).
THEOREM TransferWhole == Spec => ImplementsWhole
<1>1. Init => Whole!Init
  BY TransferAssumption DEF Init, Whole!Init
<1>2. TransferInv /\ [Next]_vars => [Whole!Next]_Whole!snapshotVars
  BY StepWhole
<1> QED BY <1>1, <1>2, InitTransfer, StepTransfer, PTL DEF Spec, ImplementsWhole, Whole!Spec

================================================================================
