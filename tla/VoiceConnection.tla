--------------------------- MODULE VoiceConnection ---------------------------
(***************************************************************************)
(* One voice gateway connection (src/src/voice/connection.rs), from its     *)
(* construction to the end of its tasks.  Three things run concurrently     *)
(* once `start` has returned: the event loop that owns the connection and   *)
(* handles one gateway frame at a time, the writer task that drains the     *)
(* unbounded queue `out_tx` into the WebSocket, and the gateway itself.     *)
(* The gateway is left open here: any frame may arrive at any moment.       *)
(* VoiceSession composes these actions with a gateway that follows the      *)
(* protocol.                                                                *)
(*                                                                          *)
(* A handler runs between two awaits of the loop, so it is one action.      *)
(***************************************************************************)
EXTENDS DaveHandler, Integers, Sequences, Functions

CONSTANTS
    TransitionIds,  \* transition ids the gateway may name; 0 executes at once
    Users,          \* ids of the other users of the call
    Seqs,           \* sequence numbers a gateway frame may carry
    MaxFrames       \* bound: frames the loop receives

ASSUME TransitionIdsAssumption == TransitionIds \subseteq Nat /\ 0 \in TransitionIds
ASSUME SeqsAssumption == Seqs \subseteq Nat
ASSUME MaxFramesAssumption == MaxFrames \in Nat

VARIABLES
    loop,                 \* "new" before start, then "running", then "closed"
    writer,               \* "idle", "running", "failed" on a send error, "done"
    status,               \* ConnectionStatus
    seq,                  \* the last sequence number seen, -1 before the first
    dave,                 \* DaveHandler, owned by the connection
    connected_users,
    pending_transitions,  \* id -> announced version, None where there is no entry
    heartbeat,            \* the loop's Option<Interval>
    out,                  \* the queue behind out_tx
    wire,                 \* frames the WebSocket has accepted
    events,               \* VoiceEvents sent to the application
    hello,                \* history: a Hello was handled
    frames                \* frames received, for the bound

vars == <<loop, writer, status, seq, dave, connected_users, pending_transitions,
          heartbeat, out, wire, events, hello, frames>>

-----------------------------------------------------------------------------
(* Frames.                                                                 *)

OptSeq == Seqs \cup {None}

(* What the gateway sends.  "Other" stands for every frame that only moves *)
(* the sequence number: HeartbeatAck, Speaking, an unknown opcode, a text  *)
(* whose `d` does not parse, a binary payload too short to use.            *)
Inbound ==
    [op : {"Hello", "Resumed", "Other"}, seq : OptSeq]
    \cup [op : {"Ready"}, seq : OptSeq, streams : BOOLEAN]
    \cup [op : {"SelectProtocolAck"}, seq : OptSeq, version : Versions, sdp : BOOLEAN]
    \cup [op : {"ClientsConnect"}, seq : OptSeq, user_ids : SUBSET Users]
    \cup [op : {"ClientDisconnect"}, seq : OptSeq, user_id : Users]
    \cup [op : {"PrepareTransition"}, seq : OptSeq, id : TransitionIds, version : Versions]
    \cup [op : {"ExecuteTransition"}, seq : OptSeq, id : TransitionIds]
    \cup [op : {"PrepareEpoch"}, seq : OptSeq, epoch : {1, 2}, version : Versions]
    \cup [op : {"ExternalSender", "Proposals"}, seq : Seqs]
    \cup [op : {"AnnounceCommit", "Welcome"}, seq : Seqs, id : TransitionIds]

Identify == [op |-> "Identify", session |-> status.has_session]
Resume == [op |-> "Resume", session |-> status.has_session, seq_ack |-> seq]
Heartbeat == [op |-> "Heartbeat", seq_ack |-> seq]
KeyPackage == [op |-> "KeyPackage"]
CommitWelcome(s) == [op |-> "CommitWelcome", seq |-> s]
TransitionReady(id) == [op |-> "TransitionReady", id |-> id]
InvalidCommit(id) == [op |-> "InvalidCommit", id |-> id]

\* What the connection sends.
Outbound ==
    [op : {"Identify"}, session : BOOLEAN]
    \cup [op : {"Resume"}, session : BOOLEAN, seq_ack : Seqs \cup {-1}]
    \cup [op : {"Heartbeat"}, seq_ack : Seqs \cup {-1}]
    \cup {KeyPackage}
    \cup [op : {"CommitWelcome"}, seq : Seqs]
    \cup [op : {"TransitionReady", "InvalidCommit"}, id : TransitionIds]

\* What the application is told.
VoiceEvent ==
    [op : {"Ready", "Resumed"}]
    \cup [op : {"SelectProtocolAck"}, version : Versions]
    \cup [op : {"MlsCommitWelcome"}, seq : Seqs]

\* out_tx.send: an error, the receiver being gone, is ignored.
Send(msgs) == IF writer = "running" THEN out \o msgs ELSE out

Sent == wire \cup Range(out)

-----------------------------------------------------------------------------
NoTransitions == [id \in TransitionIds |-> None]

Init ==
    /\ loop = "new"
    /\ writer = "idle"
    /\ status = [has_session |-> FALSE, has_token |-> FALSE,
                 started |-> FALSE, resuming |-> FALSE]
    /\ seq = -1
    /\ dave = NewHandler
    /\ connected_users = {}
    /\ pending_transitions = NoTransitions
    /\ heartbeat = None
    /\ out = <<>>
    /\ wire = {}
    /\ events = {}
    /\ hello = FALSE
    /\ frames = 0

\* What the loop owns besides the credentials.
mediaVars == <<dave, connected_users, pending_transitions>>
logVars == <<wire, hello, heartbeat>>

SetSession ==
    /\ loop = "new"
    /\ status' = [status EXCEPT !.has_session = TRUE]
    /\ UNCHANGED <<loop, writer, seq, mediaVars, logVars, out, events, frames>>

SetTokens ==
    /\ loop = "new"
    /\ status' = [status EXCEPT !.has_token = TRUE]
    /\ UNCHANGED <<loop, writer, seq, mediaVars, logVars, out, events, frames>>

\* can_start: what a caller should ask before start, which does not ask it.
CanStart == status.has_session /\ status.has_token /\ ~status.started

\* Spawns the loop without having queued the greeting.
MutantStart(resuming) ==
    /\ loop = "new"
    /\ status.has_token
    /\ loop' = "running"
    /\ writer' = "running"
    /\ status' = [status EXCEPT !.started = TRUE, !.resuming = resuming]
    /\ out' = <<>>
    /\ UNCHANGED <<seq, mediaVars, logVars, events, frames>>

(* start(resuming), the WebSocket having been opened: the greeting is in   *)
(* the queue before the loop's task exists.                                *)
Start(resuming) ==
    /\ loop = "new"
    /\ status.has_token
    /\ loop' = "running"
    /\ writer' = "running"
    /\ status' = [status EXCEPT !.started = TRUE, !.resuming = resuming]
    /\ out' = <<IF resuming THEN Resume ELSE Identify>>
    /\ UNCHANGED <<seq, mediaVars, logVars, events, frames>>

(* start without a server, or with one that cannot be reached: it consumed *)
(* the connection and returns an error.                                    *)
StartFails ==
    /\ loop = "new"
    /\ loop' = "closed"
    /\ UNCHANGED <<writer, status, seq, mediaVars, logVars, out, events, frames>>

-----------------------------------------------------------------------------
(* The event loop: one action per kind of frame.                           *)

\* Forgets that a text frame may carry no sequence number.
MutantNextSeq(m) == m.seq

\* Takes the number for one that only grows.
MutantNextSeqGrows(m) == IF m.seq = None \/ m.seq < seq THEN seq ELSE m.seq

(* The part handle_text and handle_binary share: a sequence number the     *)
(* frame carries replaces the connection's, before anything else.          *)
NextSeq(m) == IF m.seq = None THEN seq ELSE m.seq

Take(m) ==
    /\ loop = "running"
    /\ frames < MaxFrames
    /\ frames' = frames + 1
    /\ seq' = NextSeq(m)
    /\ UNCHANGED <<writer, wire, heartbeat>>

Receive(m) == Take(m) /\ UNCHANGED loop

\* The interval is computed and logged; no timer is set.
HandleHello(m) ==
    /\ m.op = "Hello"
    /\ Receive(m)
    /\ hello' = TRUE
    /\ UNCHANGED <<status, mediaVars, out, events>>

HandleReady(m) ==
    /\ m.op = "Ready"
    /\ m.streams
    /\ Receive(m)
    /\ events' = events \cup {[op |-> "Ready"]}
    /\ UNCHANGED <<status, mediaVars, out, hello>>

\* `ready.streams[0]` of an empty list panics and takes the loop's task down.
HandleReadyPanics(m) ==
    /\ m.op = "Ready"
    /\ ~m.streams
    /\ Take(m)
    /\ loop' = "closed"
    /\ UNCHANGED <<status, mediaVars, out, events, hello>>

\* Tells the application although init failed.
MutantSelectProtocolAck(m) ==
    /\ m.op = "SelectProtocolAck"
    /\ Receive(m)
    /\ \E o \in DaveInit(dave, m.version) :
          /\ dave' = o.dave
          /\ out' = IF o.ret = "key_package" THEN Send(<<KeyPackage>>) ELSE out
    /\ events' = events \cup {[op |-> "SelectProtocolAck", version |-> m.version]}
    /\ UNCHANGED <<status, connected_users, pending_transitions, hello>>

(* An answer without an SDP is dropped; an error of init leaves the        *)
(* handler before the event is sent.                                       *)
HandleSelectProtocolAck(m) ==
    /\ m.op = "SelectProtocolAck"
    /\ Receive(m)
    /\ \/ /\ ~m.sdp
          /\ UNCHANGED <<dave, out, events>>
       \/ /\ m.sdp
          /\ \E o \in DaveInit(dave, m.version) :
                /\ dave' = o.dave
                /\ out' = IF o.ret = "key_package" THEN Send(<<KeyPackage>>) ELSE out
                /\ events' = IF o.ret = "err" THEN events
                             ELSE events \cup {[op |-> "SelectProtocolAck",
                                                version |-> m.version]}
    /\ UNCHANGED <<status, connected_users, pending_transitions, hello>>

HandleResumed(m) ==
    /\ m.op = "Resumed"
    /\ Receive(m)
    /\ status' = [status EXCEPT !.started = TRUE]
    /\ events' = events \cup {[op |-> "Resumed"]}
    /\ UNCHANGED <<mediaVars, out, hello>>

HandleClientsConnect(m) ==
    /\ m.op = "ClientsConnect"
    /\ Receive(m)
    /\ connected_users' = connected_users \cup m.user_ids
    /\ UNCHANGED <<status, dave, pending_transitions, out, events, hello>>

\* Forgets to remove the user.
MutantClientDisconnect(m) ==
    /\ m.op = "ClientDisconnect"
    /\ Receive(m)
    /\ UNCHANGED <<status, mediaVars, out, events, hello>>

HandleClientDisconnect(m) ==
    /\ m.op = "ClientDisconnect"
    /\ Receive(m)
    /\ connected_users' = connected_users \ {m.user_id}
    /\ UNCHANGED <<status, dave, pending_transitions, out, events, hello>>

(* execute_pending_transition.  The handler's protocol version is read and *)
(* never written.                                                          *)
Executed(d, id, version) ==
    IF \/ d.protocol_version # 0 /\ version = 0
       \/ id > 0 /\ d.protocol_version = 0 /\ version # 0
    THEN SetPassthroughMode(d) ELSE d

\* Acknowledges upgrades only.
MutantPrepareTransition(m) ==
    /\ m.op = "PrepareTransition"
    /\ Receive(m)
    /\ IF m.id = 0
       THEN /\ pending_transitions' = [pending_transitions EXCEPT ![0] = None]
            /\ dave' = Executed(dave, 0, m.version)
            /\ out' = out
       ELSE /\ pending_transitions' = [pending_transitions EXCEPT ![m.id] = m.version]
            /\ dave' = IF m.version = 0 THEN SetPassthroughMode(dave) ELSE dave
            /\ out' = IF m.version = 0 THEN out ELSE Send(<<TransitionReady(m.id)>>)
    /\ UNCHANGED <<status, connected_users, events, hello>>

(* Transition 0 is inserted, executed and so removed again in one handler; *)
(* any other is acknowledged and waits for its ExecuteTransition.          *)
HandlePrepareTransition(m) ==
    /\ m.op = "PrepareTransition"
    /\ Receive(m)
    /\ IF m.id = 0
       THEN /\ pending_transitions' = [pending_transitions EXCEPT ![0] = None]
            /\ dave' = Executed(dave, 0, m.version)
            /\ out' = out
       ELSE /\ pending_transitions' = [pending_transitions EXCEPT ![m.id] = m.version]
            /\ dave' = IF m.version = 0 THEN SetPassthroughMode(dave) ELSE dave
            /\ out' = Send(<<TransitionReady(m.id)>>)
    /\ UNCHANGED <<status, connected_users, events, hello>>

\* Looks the entry up and leaves it.
MutantExecuteTransition(m) ==
    /\ m.op = "ExecuteTransition"
    /\ Receive(m)
    /\ dave' = IF pending_transitions[m.id] = None THEN dave
               ELSE Executed(dave, m.id, pending_transitions[m.id])
    /\ UNCHANGED <<status, connected_users, pending_transitions, out, events, hello>>

\* An id without an entry is logged as unrecognized.
HandleExecuteTransition(m) ==
    /\ m.op = "ExecuteTransition"
    /\ Receive(m)
    /\ pending_transitions' = [pending_transitions EXCEPT ![m.id] = None]
    /\ dave' = IF pending_transitions[m.id] = None THEN dave
               ELSE Executed(dave, m.id, pending_transitions[m.id])
    /\ UNCHANGED <<status, connected_users, out, events, hello>>

\* Only epoch 1, a new MLS group, means anything here.
HandlePrepareEpoch(m) ==
    /\ m.op = "PrepareEpoch"
    /\ Receive(m)
    /\ \/ /\ m.epoch # 1
          /\ UNCHANGED <<dave, out>>
       \/ /\ m.epoch = 1
          /\ \E o \in DaveInit(dave, m.version) :
                /\ dave' = o.dave
                /\ out' = IF o.ret = "key_package" THEN Send(<<KeyPackage>>) ELSE out
    /\ UNCHANGED <<status, connected_users, pending_transitions, events, hello>>

HandleExternalSender(m) ==
    /\ m.op = "ExternalSender"
    /\ Receive(m)
    /\ \E o \in SetExternalSender(dave) : dave' = o.dave
    /\ UNCHANGED <<status, connected_users, pending_transitions, out, events, hello>>

\* The commit answers with the proposals' own sequence number.
HandleProposals(m) ==
    /\ m.op = "Proposals"
    /\ Receive(m)
    /\ \E o \in ProcessProposals(dave) :
          IF o.ret = "commit_welcome"
          THEN /\ out' = Send(<<CommitWelcome(m.seq)>>)
               /\ events' = events \cup {[op |-> "MlsCommitWelcome", seq |-> m.seq]}
          ELSE UNCHANGED <<out, events>>
    /\ UNCHANGED <<status, mediaVars, hello>>

\* Forgets every transition with the group.
MutantInvalidCommitForgets(d, id) ==
    \E o \in DaveInit(d, d.protocol_version) :
        /\ dave' = o.dave
        /\ out' = Send(IF o.ret = "key_package"
                       THEN <<InvalidCommit(id), KeyPackage>> ELSE <<InvalidCommit(id)>>)
        /\ pending_transitions' = NoTransitions

(* process_invalid_commit: report, then start a new group of the version   *)
(* the handler already has; init's error is swallowed.                     *)
ProcessInvalidCommit(d, id) ==
    \E o \in DaveInit(d, d.protocol_version) :
        /\ dave' = o.dave
        /\ out' = Send(IF o.ret = "key_package"
                       THEN <<InvalidCommit(id), KeyPackage>> ELSE <<InvalidCommit(id)>>)
        /\ UNCHANGED pending_transitions

\* Records the transition before it knows whether the message was good.
MutantJoinGroup(m) ==
    \E o \in ProcessGroupMessage(dave) :
        /\ dave' = o.dave
        /\ pending_transitions' =
              IF m.id > 0
              THEN [pending_transitions EXCEPT ![m.id] = o.dave.protocol_version]
              ELSE pending_transitions
        /\ out' = IF o.ret = "err" THEN Send(<<InvalidCommit(m.id)>>)
                  ELSE IF m.id > 0 THEN Send(<<TransitionReady(m.id)>>) ELSE out

\* The body the AnnounceCommit and Welcome arms share.
JoinGroup(m) ==
    \E o \in ProcessGroupMessage(dave) :
        \/ /\ o.ret = "ok"
           /\ dave' = o.dave
           /\ IF m.id > 0
              THEN /\ pending_transitions' =
                        [pending_transitions EXCEPT ![m.id] = o.dave.protocol_version]
                   /\ out' = Send(<<TransitionReady(m.id)>>)
              ELSE UNCHANGED <<pending_transitions, out>>
        \/ /\ o.ret = "err"
           /\ ProcessInvalidCommit(o.dave, m.id)

HandleAnnounceCommit(m) ==
    /\ m.op = "AnnounceCommit"
    /\ Receive(m)
    /\ JoinGroup(m)
    /\ UNCHANGED <<status, connected_users, events, hello>>

HandleWelcome(m) ==
    /\ m.op = "Welcome"
    /\ Receive(m)
    /\ JoinGroup(m)
    /\ UNCHANGED <<status, connected_users, events, hello>>

HandleOther(m) ==
    /\ m.op = "Other"
    /\ Receive(m)
    /\ UNCHANGED <<status, mediaVars, out, events, hello>>

(* The other arm of the loop's select.  Nothing ever assigns `heartbeat`,  *)
(* so it is not an action of Next: TimerSpec below adds it and shows that. *)
HeartbeatTick ==
    /\ loop = "running"
    /\ heartbeat # None
    /\ out' = Send(<<Heartbeat>>)
    /\ UNCHANGED <<loop, writer, status, seq, mediaVars, logVars, events, frames>>

\* A Close frame or the end of the stream; the loop drops its out_tx.
Close ==
    /\ loop = "running"
    /\ loop' = "closed"
    /\ UNCHANGED <<writer, status, seq, mediaVars, logVars, out, events, frames>>

-----------------------------------------------------------------------------
(* The writer task.                                                        *)

writerFrame == <<loop, status, seq, mediaVars, heartbeat, hello, events, frames>>

WriterSend ==
    /\ writer = "running"
    /\ out # <<>>
    /\ out' = Tail(out)
    /\ wire' = wire \cup {Head(out)}
    /\ UNCHANGED <<writer, writerFrame>>

\* write.send fails: the task ends and the queue goes with its receiver.
WriterFail ==
    /\ writer = "running"
    /\ out # <<>>
    /\ writer' = "failed"
    /\ out' = <<>>
    /\ UNCHANGED <<wire, writerFrame>>

\* A sender outlives the loop, so recv never returns None.
MutantSenderKept ==
    /\ writer = "running"
    /\ loop = "new"
    /\ out = <<>>
    /\ writer' = "done"
    /\ UNCHANGED <<out, wire, writerFrame>>

\* Stops with the loop and drops what is still queued.
MutantWriterStops ==
    /\ writer = "running"
    /\ loop = "closed"
    /\ writer' = "done"
    /\ out' = <<>>
    /\ UNCHANGED <<wire, writerFrame>>

\* recv returns None once every sender is dropped and the queue is empty.
WriterExit ==
    /\ writer = "running"
    /\ loop = "closed"
    /\ out = <<>>
    /\ writer' = "done"
    /\ UNCHANGED <<out, wire, writerFrame>>

-----------------------------------------------------------------------------
Handle(m) ==
    \/ HandleHello(m)
    \/ HandleReady(m)
    \/ HandleReadyPanics(m)
    \/ HandleSelectProtocolAck(m)
    \/ HandleResumed(m)
    \/ HandleClientsConnect(m)
    \/ HandleClientDisconnect(m)
    \/ HandlePrepareTransition(m)
    \/ HandleExecuteTransition(m)
    \/ HandlePrepareEpoch(m)
    \/ HandleExternalSender(m)
    \/ HandleProposals(m)
    \/ HandleAnnounceCommit(m)
    \/ HandleWelcome(m)
    \/ HandleOther(m)

Next ==
    \/ SetSession
    \/ SetTokens
    \/ \E resuming \in BOOLEAN : Start(resuming)
    \/ StartFails
    \/ \E m \in Inbound : Handle(m)
    \/ Close
    \/ WriterSend
    \/ WriterFail
    \/ WriterExit

\* Tokio keeps polling a task that can move: a queued frame is sent or fails.
WriterFairness == WF_vars(WriterSend \/ WriterFail) /\ WF_vars(WriterExit)

Spec == Init /\ [][Next]_vars /\ WriterFairness

\* The loop with both arms of its select, each of them polled.
TimerSpec == Init /\ [][Next \/ HeartbeatTick]_vars /\ WriterFairness /\ WF_vars(HeartbeatTick)

-----------------------------------------------------------------------------
(* Properties.                                                             *)

TypeOK ==
    /\ loop \in {"new", "running", "closed"}
    /\ writer \in {"idle", "running", "failed", "done"}
    /\ status \in [has_session : BOOLEAN, has_token : BOOLEAN,
                   started : BOOLEAN, resuming : BOOLEAN]
    /\ seq \in Seqs \cup {-1}
    /\ dave \in Handler
    /\ connected_users \subseteq Users
    /\ pending_transitions \in [TransitionIds -> Versions \cup {None}]
    /\ heartbeat = None
    /\ out \in Seq(Outbound)
    /\ wire \subseteq Outbound
    /\ events \subseteq VoiceEvent
    /\ hello \in BOOLEAN
    /\ frames \in Nat

(* The gateway waits for the acknowledgement of a transition before it     *)
(* executes it: an entry the connection keeps was acknowledged, unless the *)
(* socket is gone.  The entry and the acknowledgement come from three      *)
(* handlers, and the entry of transition 0, which is never acknowledged,   *)
(* must not survive its own.                                               *)
PendingAcknowledged ==
    /\ pending_transitions[0] = None
    /\ \A id \in TransitionIds :
          pending_transitions[id] # None /\ writer = "running"
              => TransitionReady(id) \in Sent

(* The gateway answers a key package with MLS messages for the group of    *)
(* the session that made it: whatever fails or is reset afterwards, that   *)
(* session is still there to take them.                                    *)
KeyPackageBacked == KeyPackage \in Sent => HasSession(dave)

(* What the application is told rests on what the gateway is told: an      *)
(* encrypted call is announced only after its key package was queued, a    *)
(* commit only after the commit itself.                                    *)
EventsBacked ==
    writer = "running" =>
        \A e \in events :
            /\ e.op = "SelectProtocolAck" /\ e.version # 0 => KeyPackage \in Sent
            /\ e.op = "MlsCommitWelcome" => CommitWelcome(e.seq) \in Sent

(* IDENTIFY or RESUME is the first frame on the WebSocket, though the loop *)
(* and the writer start as independent tasks right after it is queued.     *)
GreetingFirst == wire # {} => \E f \in wire : f.op \in {"Identify", "Resume"}

(* The writer task does not outlive the loop: once the loop has dropped    *)
(* its sender, the writer runs out of frames or into an error.             *)
WriterStops == loop = "closed" ~> writer # "running"

(* A frame that was queued reaches the socket unless the socket breaks,    *)
(* also when the loop ends with the frame still in the queue.              *)
QueuedIsWritten ==
    \A f \in {KeyPackage} \cup {TransitionReady(id) : id \in TransitionIds} :
        f \in Range(out) ~> (f \in wire \/ writer = "failed")

(* "heartbeat timer is handled in the select! loop above": a Hello is      *)
(* followed by a heartbeat as long as the connection lives.                *)
HelloStartsHeartbeat ==
    hello ~> \/ \E f \in wire : f.op = "Heartbeat"
             \/ loop = "closed"
             \/ writer = "failed"
=============================================================================
