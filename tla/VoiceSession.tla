----------------------------- MODULE VoiceSession -----------------------------
(***************************************************************************)
(* A voice connection and the gateway it talks to, over connections that    *)
(* may break and be replaced by a new one.                                  *)
(*                                                                          *)
(* The gateway is no part of src/: it is modelled from the frames the code  *)
(* expects of it.  It keeps, for this client, one exchange per transition   *)
(* (announced, acknowledged, executed), the version of the MLS group it     *)
(* runs, and the other users of the call.  Both directions are FIFO, and    *)
(* each side may run ahead of the other by any number of frames.            *)
(***************************************************************************)
EXTENDS VoiceConnection

CONSTANTS
    SeqMod,      \* numbers a binary frame can carry: 2^16 in the code
    MaxGateway,  \* bound: frames the gateway sends of its own accord
    MaxConns     \* bound: connections, the first one included

ASSUME SeqModAssumption == SeqMod \in Nat \ {0}
ASSUME MaxGatewayAssumption ==
    /\ MaxGateway \in Nat /\ MaxConns \in Nat \ {0}
    /\ MaxGateway + MaxConns <= MaxFrames
    /\ 0 .. MaxGateway + 1 \subseteq Seqs

VARIABLES
    inq,          \* frames on their way to the connection
    greeted,      \* the connection's IDENTIFY or RESUME has arrived
    selected,     \* the protocol was selected in this session
    group,        \* version of the MLS group the gateway runs, 0 without one
    member,       \* a key package of this client has arrived for it
    phase,        \* of each transition: "idle", "prepared", "acked"
    offered,      \* version each transition leads to
    callVersion,  \* version this client was last told to run
    takenDown,    \* history: downgrades announced when a key package was here
    roster,       \* the other users of the call
    gseq,         \* frames numbered in this session
    sent,         \* frames sent of the gateway's own accord, for the bound
    conns         \* connections so far, for the bound

gatewayVars == <<inq, greeted, selected, group, member, phase, offered, callVersion,
                 takenDown, roster, gseq, sent, conns>>

allVars == <<vars, gatewayVars>>

Announced == TransitionIds \ {0}

-----------------------------------------------------------------------------
(* The gateway's numbering: a text frame carries the whole number, a       *)
(* binary frame the low 16 bits of it.                                     *)
Binary == {"AnnounceCommit", "Welcome"}

Numbered(m, n) == [m EXCEPT !.seq = IF m.op \in Binary THEN n % SeqMod ELSE n]

Reply(m) ==
    /\ gseq' = gseq + 1
    /\ inq' = Append(inq, Numbered(m, gseq + 1))

GwSend(m) ==
    /\ greeted
    /\ loop = "running"
    /\ sent < MaxGateway
    /\ sent' = sent + 1
    /\ Reply(m)
    /\ UNCHANGED <<vars, greeted, conns>>

\* SELECT_PROTOCOL_ACK, once a session.
GwSelect(v) ==
    /\ ~selected
    /\ GwSend([op |-> "SelectProtocolAck", seq |-> None, version |-> v, sdp |-> TRUE])
    /\ selected' = TRUE
    /\ group' = v
    /\ callVersion' = v
    /\ UNCHANGED <<member, phase, offered, takenDown, roster>>

(* A new MLS group of version v: every member must send a key package.      *)
(* Exchanges under way go on, a downgrade among them.                       *)
GwEpoch(v) ==
    /\ selected /\ v # 0
    /\ GwSend([op |-> "PrepareEpoch", seq |-> None, epoch |-> 1, version |-> v])
    /\ group' = v
    /\ member' = FALSE
    /\ UNCHANGED <<selected, phase, offered, callVersion, takenDown, roster>>

\* The group's next state, by commit or by welcome, under a fresh transition.
GwCommit(op, id) ==
    /\ group # 0 /\ member
    /\ id # 0 => phase[id] = "idle"
    /\ GwSend([op |-> op, seq |-> None, id |-> id])
    /\ phase' = IF id = 0 THEN phase ELSE [phase EXCEPT ![id] = "prepared"]
    /\ offered' = IF id = 0 THEN offered ELSE [offered EXCEPT ![id] = group]
    /\ UNCHANGED <<selected, group, member, callVersion, takenDown, roster>>

\* A client without DAVE joins the call: back to plain media.
GwDowngrade(id) ==
    /\ group # 0
    /\ phase[id] = "idle"
    /\ GwSend([op |-> "PrepareTransition", seq |-> None, id |-> id, version |-> 0])
    /\ phase' = [phase EXCEPT ![id] = "prepared"]
    /\ offered' = [offered EXCEPT ![id] = 0]
    /\ takenDown' = IF KeyPackage \in wire THEN takenDown \cup {id} ELSE takenDown \ {id}
    /\ group' = 0
    /\ member' = FALSE
    /\ UNCHANGED <<selected, callVersion, roster>>

GwExecute(id) ==
    /\ phase[id] = "acked"
    /\ GwSend([op |-> "ExecuteTransition", seq |-> None, id |-> id])
    /\ phase' = [phase EXCEPT ![id] = "idle"]
    /\ callVersion' = offered[id]
    /\ UNCHANGED <<selected, group, member, offered, takenDown, roster>>

GwJoin(u) ==
    /\ u \notin roster
    /\ GwSend([op |-> "ClientsConnect", seq |-> None, user_ids |-> {u}])
    /\ roster' = roster \cup {u}
    /\ UNCHANGED <<selected, group, member, phase, offered, callVersion, takenDown>>

GwLeave(u) ==
    /\ u \in roster
    /\ GwSend([op |-> "ClientDisconnect", seq |-> None, user_id |-> u])
    /\ roster' = roster \ {u}
    /\ UNCHANGED <<selected, group, member, phase, offered, callVersion, takenDown>>

Gateway ==
    \/ \E v \in Versions : GwSelect(v) \/ GwEpoch(v)
    \/ \E op \in Binary, id \in TransitionIds : GwCommit(op, id)
    \/ \E id \in Announced : GwDowngrade(id) \/ GwExecute(id)
    \/ \E u \in Users : GwJoin(u) \/ GwLeave(u)

-----------------------------------------------------------------------------
(* Frames that arrive at the gateway.                                      *)

NewPhases == [id \in Announced |-> "idle"]

\* IDENTIFY opens a new session, numbered from the start.
GwIdentify ==
    /\ greeted' = TRUE
    /\ selected' = FALSE
    /\ group' = 0
    /\ member' = FALSE
    /\ phase' = NewPhases
    /\ callVersion' = 0
    /\ gseq' = 1
    /\ inq' = <<Numbered([op |-> "ClientsConnect", seq |-> None, user_ids |-> roster], 1)>>
    /\ UNCHANGED offered

\* RESUME takes the old one up where it was; the answer is not numbered.
GwResume ==
    /\ greeted' = TRUE
    /\ inq' = Append(inq, [op |-> "Resumed", seq |-> None])
    /\ UNCHANGED <<selected, group, member, phase, offered, callVersion, gseq>>

GwReceive(f) ==
    CASE f.op = "Identify" -> GwIdentify
      [] f.op = "Resume" -> GwResume
      [] f.op = "KeyPackage" ->
            /\ member' = (group # 0)
            /\ UNCHANGED <<inq, greeted, selected, group, phase, offered, callVersion, gseq>>
      [] f.op = "TransitionReady" ->
            /\ phase' = IF phase[f.id] = "prepared" THEN [phase EXCEPT ![f.id] = "acked"]
                        ELSE phase
            /\ UNCHANGED <<inq, greeted, selected, group, member, offered, callVersion, gseq>>
      \* The exchange is void, and the client must be added to the group again.
      [] f.op = "InvalidCommit" ->
            /\ phase' = IF f.id = 0 THEN phase ELSE [phase EXCEPT ![f.id] = "idle"]
            /\ member' = FALSE
            /\ UNCHANGED <<inq, greeted, selected, group, offered, callVersion, gseq>>
      [] OTHER ->
            UNCHANGED <<inq, greeted, selected, group, member, phase, offered, callVersion, gseq>>

Up ==
    /\ WriterSend
    /\ GwReceive(Head(out))
    /\ UNCHANGED <<takenDown, roster, sent, conns>>

\* The frame at the head of the stream reaches its handler.
Down ==
    /\ inq # <<>>
    /\ Handle(Head(inq))
    /\ inq' = Tail(inq)
    /\ UNCHANGED <<greeted, selected, group, member, phase, offered, callVersion, takenDown,
                   roster, gseq, sent, conns>>

-----------------------------------------------------------------------------
(* The connection's own steps, and the application around it.              *)

(* An application that asks can_start before start, and resumes only a     *)
(* session that an earlier connection has opened.                          *)
Connect(resuming) ==
    /\ CanStart
    /\ resuming => conns > 1 /\ gseq > 0
    /\ Start(resuming)

(* start consumed the old connection; a lost one can only be replaced by a *)
(* VoiceConnection::new, which knows nothing of it.  Frames still under    *)
(* way are lost with the socket.                                           *)
Replace ==
    /\ loop = "closed"
    /\ writer # "running"
    /\ conns < MaxConns
    /\ conns' = conns + 1
    /\ inq' = <<>>
    /\ greeted' = FALSE
    /\ loop' = "new"
    /\ writer' = "idle"
    /\ status' = [has_session |-> FALSE, has_token |-> FALSE,
                  started |-> FALSE, resuming |-> FALSE]
    /\ seq' = -1
    /\ dave' = NewHandler
    /\ connected_users' = {}
    /\ pending_transitions' = NoTransitions
    /\ heartbeat' = None
    /\ out' = <<>>
    /\ wire' = {}
    /\ events' = {}
    /\ hello' = FALSE
    /\ frames' = 0
    /\ UNCHANGED <<selected, group, member, phase, offered, callVersion, takenDown, roster,
                   gseq, sent>>

Local ==
    /\ \/ SetSession
       \/ SetTokens
       \/ \E resuming \in BOOLEAN : Connect(resuming)
       \/ Close
       \/ WriterFail
       \/ WriterExit
    /\ UNCHANGED gatewayVars

SessionInit ==
    /\ Init
    /\ inq = <<>>
    /\ greeted = FALSE
    /\ selected = FALSE
    /\ group = 0
    /\ member = FALSE
    /\ phase = NewPhases
    /\ offered = [id \in Announced |-> 0]
    /\ callVersion = 0
    /\ takenDown = {}
    /\ roster \in SUBSET Users
    /\ gseq = 0
    /\ sent = 0
    /\ conns = 1

SessionNext == Local \/ Gateway \/ Up \/ Down \/ Replace

\* The loop handles what arrives and the writer writes what is queued.
SessionFairness ==
    /\ WF_allVars(Down)
    /\ WF_allVars(Up \/ (WriterFail /\ UNCHANGED gatewayVars))

SessionSpec == SessionInit /\ [][SessionNext]_allVars /\ SessionFairness

-----------------------------------------------------------------------------
(* Properties.  Those about an open session leave out a resumed one: what  *)
(* resuming loses is stated by ResumeKeepsGroup.                           *)

SessionTypeOK ==
    /\ TypeOK
    /\ inq \in Seq(Inbound)
    /\ greeted \in BOOLEAN /\ selected \in BOOLEAN /\ member \in BOOLEAN
    /\ group \in Versions /\ callVersion \in Versions
    /\ phase \in [Announced -> {"idle", "prepared", "acked"}]
    /\ offered \in [Announced -> Versions]
    /\ takenDown \subseteq Announced /\ roster \subseteq Users
    /\ gseq \in Nat /\ sent \in Nat /\ conns \in Nat

InSession == loop = "running" /\ greeted /\ ~status.resuming

(* No execution is "unrecognized" (connection.rs:504): when the gateway    *)
(* tells the connection to execute a transition, the connection still has  *)
(* it, with frames of other exchanges crossing on the way.                 *)
ExecuteRecognised ==
    InSession /\ inq # <<>> /\ Head(inq).op = "ExecuteTransition"
        => pending_transitions[Head(inq).id] # None

(* The two sides mean the same version by a transition once it is          *)
(* acknowledged, although the connection takes it from its own handler at  *)
(* the commit, after inits that may have failed (connection.rs:443, 468).  *)
AgreedVersion ==
    InSession => \A id \in Announced :
        phase[id] = "acked" => pending_transitions[id] = offered[id]

(* Acknowledging a commit means being in the group.  The handler returns   *)
(* Ok for a commit it has no session for (dave.rs:154), so this rests on   *)
(* the session outliving every init that fails.                            *)
AckedHasSession ==
    InSession => \A id \in Announced :
        phase[id] = "acked" /\ offered[id] # 0 => HasSession(dave)

(* A client that sent a key package before the gateway announced a          *)
(* downgrade has told its session to accept unencrypted frames when the     *)
(* downgrade is acknowledged, and still has if a group is started anew      *)
(* before it is executed.  A client without one may get its first session   *)
(* from that group, and that session was not told.                          *)
DowngradeTolerated ==
    InSession => \A id \in takenDown :
        phase[id] = "acked" /\ offered[id] = 0
            => HasSession(dave) /\ dave.inner.passthrough

(* The recognised users handed to the MLS layer with each proposal are the *)
(* call's, once every frame has arrived.                                   *)
RosterAgrees == InSession /\ inq = <<>> => connected_users = roster

(* The number the connection would acknowledge is that of the last frame   *)
(* it handled, up to the 16 bits a binary frame carries.                   *)
SeqTracks ==
    InSession /\ seq # -1 => (seq + Len(inq) - gseq) % SeqMod = 0

(* Every announced transition is answered, by an acknowledgement or by a   *)
(* report that voids it, as long as the connection stands.                 *)
PreparedIsAnswered ==
    \A id \in Announced :
        (InSession /\ phase[id] = "prepared")
            ~> (phase[id] # "prepared" \/ loop = "closed" \/ writer = "failed")

Opens(f, id) == f.op \in Binary \cup {"PrepareTransition"} /\ f.id = id
Executes(f, id) == f.op = "ExecuteTransition" /\ f.id = id

Linked == InSession /\ writer = "running"

\* How far the exchange of a transition is, by the frames on the way.
Stage(id) ==
    IF ~Linked \/ phase[id] = "idle" THEN "idle"
    ELSE IF phase[id] = "acked" THEN "agreed"
    ELSE IF \E f \in Range(inq) : Opens(f, id) THEN "announced"
    ELSE IF TransitionReady(id) \in Range(out) THEN "accepted"
    ELSE IF InvalidCommit(id) \in Range(out) THEN "refused"
    ELSE "lost"

Offer(id) == IF Stage(id) = "idle" THEN None ELSE offered[id]

Entry(id) == IF Linked THEN pending_transitions[id] ELSE None

Ordered(id) ==
    IF Linked /\ \E f \in Range(inq) : Executes(f, id) THEN pending_transitions[id] ELSE None

TE == INSTANCE TransitionExchange WITH
    Transitions <- Announced,
    open <- Linked,
    stage <- [id \in Announced |-> Stage(id)],
    version <- [id \in Announced |-> Offer(id)],
    kept <- [id \in Announced |-> Entry(id)],
    ordered <- [id \in Announced |-> Ordered(id)]

(* What the two sides are to each other (TransitionExchange): however the   *)
(* frames of several exchanges cross, no announcement goes unanswered, the  *)
(* entry of an acknowledged one is not touched before its execution, and    *)
(* an id that is used again waits for the last execution.                   *)
ExchangeSpec == TE!Spec

(* pending_transitions has no entry but those of transitions acknowledged   *)
(* or being executed, and none at another version than was announced: what  *)
(* is left over would be executed under the next use of its id.             *)
EntriesRight == TE!EntriesRight

(* "Whether the connection is running in non-E2EE (passthrough) mode"      *)
(* (dave.rs:240): once the call was taken down to version 0 and every      *)
(* frame has arrived, is_passthrough says so.                              *)
DowngradeReported ==
    (/\ InSession /\ selected /\ inq = <<>>
     /\ group = 0 /\ callVersion = 0 /\ phase = NewPhases)
        => IsPassthrough(dave)

(* "Session resumed after disconnect" (connection.rs:57): a client the     *)
(* gateway still counts a member of the group has a session for it.        *)
ResumeKeepsGroup ==
    loop = "running" /\ [op |-> "Resumed"] \in events /\ inq = <<>> /\ member
        => HasSession(dave)
=============================================================================
